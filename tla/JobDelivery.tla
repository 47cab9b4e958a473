----------------------------- MODULE JobDelivery ------------------------------
(***************************************************************************)
(* One AsyncJob from submit() to its last delivery on the Lambda path     *)
(* (bb-async-job/src/index.aws.ts submit and _processRecord), composed    *)
(* with the status record of module JobStatusTracker.  Delivery d is the  *)
(* d-th receive of the message, so Writers is 1..MAX_RETRIES.             *)
(*                                                                         *)
(* SQS is modelled from how the code uses it: a received message is       *)
(* hidden until it is deleted or its visibility lapses, which may happen  *)
(* while a delivery is still running; after maxReceiveCount receives it   *)
(* moves to the dead-letter queue (index.cdk.ts).  The record outlives    *)
(* its job here: a job's deliveries take minutes, retention is a day.     *)
(***************************************************************************)
EXTENDS JobStatusTracker

CONSTANTS
    MAX_RETRIES,    \* _maxRetries, the queue's maxReceiveCount
    EarlyLapse,     \* TRUE: a message may reappear while a delivery runs
    Crashes         \* TRUE: a delivery may die without unwinding

ASSUME DeliveryAssumption ==
    /\ MAX_RETRIES \in Nat \ {0}
    /\ Writers = 1..MAX_RETRIES
    /\ {EarlyLapse, Crashes} \subseteq BOOLEAN

VARIABLES
    queue,      \* where the message is
    receives,   \* ApproximateReceiveCount
    stage,      \* where each delivery is in _processRecord
    answer,     \* the state waitUntilComplete resolved with, or "none"
    calm        \* ghost: no delivery died, overlapped or had a status write fail

deliveryVars == <<queue, receives, stage, answer, calm>>
allVars == <<vars, deliveryVars>>

Place == {"unsent", "visible", "hidden", "deleted", "dead"}
Stage == {"free", "starting", "completing", "failing", "acked", "rejected", "crashed"}
Running == {"starting", "completing", "failing"}

\* tryRecordTransition returns whether or not its write succeeded.
Recorded(d) == pc[d] \in {"returned", "threw"}

EnterStage(d, s) == stage' = [stage EXCEPT ![d] = s]

Record(d, state) == StartTransition(d, [state |-> state, attempt |-> d])

-------------------------------------------------------------------------------
(* submit(): the job id is the message id, so the send comes first.        *)

Send ==
    /\ queue = "unsent"
    /\ queue' = "visible"
    /\ UNCHANGED <<vars, receives, stage, answer, calm>>

RecordSubmission ==
    /\ queue # "unsent"
    /\ StartQueued
    /\ UNCHANGED deliveryVars

SubmitterStep ==
    /\ pc[Submitter] # "idle"
    /\ SubmitterNext
    /\ UNCHANGED deliveryVars

-------------------------------------------------------------------------------
(* _processRecord.                                                         *)

\* The handler has not run yet when `processing` is recorded.
Receive(d) ==
    /\ queue = "visible"
    /\ d = receives + 1
    /\ queue' = "hidden"
    /\ receives' = d
    /\ EnterStage(d, "starting")
    /\ Record(d, "processing")
    /\ calm' = (calm /\ \A e \in Writers : stage[e] \notin Running)
    /\ UNCHANGED answer

WriterStep(d) ==
    /\ stage[d] \in Running
    /\ Read(d) \/ Swap(d) \/ SwapFails(d)
    /\ calm' = (calm /\ pc'[d] # "threw" /\ (rec' # rec => pc'[d] = "returned"))
    /\ UNCHANGED <<queue, receives, stage, answer>>

HandlerSucceeds(d) ==
    /\ stage[d] = "starting"
    /\ Recorded(d)
    /\ EnterStage(d, "completing")
    /\ Record(d, "complete")
    /\ UNCHANGED <<queue, receives, answer, calm>>

\* Faulty: every throw records `failed`.
HandlerThrowsAlwaysFails(d) ==
    /\ stage[d] = "starting"
    /\ Recorded(d)
    /\ EnterStage(d, "failing")
    /\ Record(d, "failed")
    /\ UNCHANGED <<queue, receives, answer, calm>>

\* Faulty: an off-by-one, so the last attempt records nothing.
HandlerThrowsTooLate(d) ==
    /\ stage[d] = "starting"
    /\ Recorded(d)
    /\ \/ /\ d > MAX_RETRIES
          /\ EnterStage(d, "failing")
          /\ Record(d, "failed")
       \/ /\ d <= MAX_RETRIES
          /\ EnterStage(d, "rejected")
          /\ UNCHANGED vars
    /\ UNCHANGED <<queue, receives, answer, calm>>

\* Faulty: without partial batch responses a thrown record is deleted.
HandlerThrowsDeleted(d) ==
    /\ stage[d] = "starting"
    /\ Recorded(d)
    /\ EnterStage(d, "rejected")
    /\ queue' = "deleted"
    /\ UNCHANGED <<vars, receives, answer, calm>>

\* `failed` is recorded only by the delivery SQS will not retry.
HandlerThrows(d) ==
    /\ stage[d] = "starting"
    /\ Recorded(d)
    /\ \/ /\ d >= MAX_RETRIES
          /\ EnterStage(d, "failing")
          /\ Record(d, "failed")
       \/ /\ d < MAX_RETRIES
          /\ EnterStage(d, "rejected")
          /\ UNCHANGED vars
    /\ UNCHANGED <<queue, receives, answer, calm>>

\* The error is rethrown after `failed` was recorded.
Reject(d) ==
    /\ stage[d] = "failing"
    /\ Recorded(d)
    /\ EnterStage(d, "rejected")
    /\ UNCHANGED <<vars, queue, receives, answer, calm>>

\* The record is absent from batchItemFailures: the message is deleted.
Acknowledge(d) ==
    /\ stage[d] = "completing"
    /\ Recorded(d)
    /\ EnterStage(d, "acked")
    /\ queue' = IF queue = "dead" THEN "dead" ELSE "deleted"
    /\ UNCHANGED <<vars, receives, answer, calm>>

\* Lambda timeout, out of memory: nothing unwinds, no write is made.
Crash(d) ==
    /\ Crashes
    /\ stage[d] \in Running
    /\ EnterStage(d, "crashed")
    /\ calm' = FALSE
    /\ UNCHANGED <<vars, queue, receives, answer>>

-------------------------------------------------------------------------------
(* SQS, external.                                                          *)

Lapse ==
    /\ queue = "hidden"
    /\ EarlyLapse \/ \A d \in Writers : stage[d] \notin Running
    /\ queue' = "visible"
    /\ UNCHANGED <<vars, receives, stage, answer, calm>>

\* Faulty: maxReceiveCount is one more than maxRetries.
RedriveTooLate ==
    /\ queue = "visible"
    /\ receives > MAX_RETRIES
    /\ queue' = "dead"
    /\ UNCHANGED <<vars, receives, stage, answer, calm>>

Redrive ==
    /\ queue = "visible"
    /\ receives >= MAX_RETRIES
    /\ queue' = "dead"
    /\ UNCHANGED <<vars, receives, stage, answer, calm>>

-------------------------------------------------------------------------------
(* waitUntilComplete: a poll that sees a terminal state returns it.        *)

Poll ==
    /\ answer = "none"
    /\ \E r \in Readable :
         /\ r # NoRecord
         /\ r.state \in Terminal
         /\ answer' = r.state
    /\ UNCHANGED <<vars, queue, receives, stage, calm>>

-------------------------------------------------------------------------------
DeliveryInit ==
    /\ Init
    /\ queue = "unsent"
    /\ receives = 0
    /\ stage = [d \in Writers |-> "free"]
    /\ answer = "none"
    /\ calm = TRUE

Deliver(d) ==
    \/ WriterStep(d) \/ HandlerSucceeds(d) \/ HandlerThrows(d)
    \/ Reject(d) \/ Acknowledge(d)

DeliveryNext ==
    \/ Send \/ RecordSubmission \/ SubmitterStep
    \/ \E d \in Writers : Receive(d) \/ Deliver(d) \/ Crash(d)
    \/ Lapse \/ Redrive \/ Poll
    \/ Tick /\ UNCHANGED deliveryVars

DeliverySpec == DeliveryInit /\ [][DeliveryNext]_allVars

\* A Lambda runs an invocation it has started until it ends or dies, SQS keeps
\* offering and redriving a message that is not deleted, and a caller that
\* sent a message goes on with submit(); nobody has to submit, or to poll.
DeliveryFairness ==
    /\ WF_allVars(RecordSubmission)
    /\ WF_allVars(SubmitterStep)
    /\ WF_allVars(Lapse)
    /\ WF_allVars(Redrive)
    /\ \A d \in Writers : WF_allVars(Receive(d)) /\ WF_allVars(Deliver(d))

FairDeliverySpec == DeliverySpec /\ DeliveryFairness

-------------------------------------------------------------------------------
(* Properties.                                                             *)

DeliveryTypeOK ==
    /\ TypeOK
    /\ queue \in Place
    /\ receives \in 0..MAX_RETRIES
    /\ stage \in [Writers -> Stage]
    /\ answer \in Terminal \cup {"none"}
    /\ calm \in BOOLEAN

Entries == IF rec = NoRecord THEN << >> ELSE rec.transitions
TerminalEntries == {i \in DOMAIN Entries : Entries[i].state \in Terminal}

\* The Lambda path implements the promise of module AtLeastOnce: the message
\* leaves the queue for good only after a delivery ran its handler to the end,
\* and lands in the dead-letter queue only when every receive was used up, so no
\* submitted job vanishes however deliveries overlap, die or lose their status
\* writes (index.aws.ts _processRecord; index.cdk.ts partial batch responses).
Promise == INSTANCE AtLeastOnce WITH
    Messages <- {"job"},
    outcome <- [m \in {"job"} |-> IF queue \in {"deleted", "dead"} THEN queue ELSE "pending"],
    attempts <- [m \in {"job"} |-> receives],
    finishing <- {m \in {"job"} : \E d \in Writers : stage[d] = "completing"}

KeepsPromise == Promise!Spec

Settled == rec # NoRecord /\ rec.state \in Terminal

\* What the README promises of a job holds when its deliveries neither overlap nor
\* die and no status write of theirs fails: "A retry appends another processing
\* entry rather than a second terminal state", waitUntilComplete "returns the final
\* AsyncJobStatus", error is "Set when state is failed", and the record is settled
\* when the last delivery is over.
CalmPromise ==
    calm =>
        /\ \A i, j \in TerminalEntries : i = j
        /\ answer # "none" => rec # NoRecord /\ rec.state = answer
        /\ rec # NoRecord /\ rec.error # 0 => rec.state = "failed"
        /\ queue \in {"deleted", "dead"} /\ (\A d \in Writers : stage[d] \notin Running)
              => Settled

\* A sent message is deleted or dead-lettered in the end, even when deliveries
\* die: SQS redelivers what is not acknowledged.
Resolves == (queue # "unsent") ~> (queue \in {"deleted", "dead"})

\* The job's history gets a terminal entry, however its deliveries overlap, unless
\* one of them dies or has a status write fail for good (types.ts: "complete or
\* failed once the job settles").
HistorySettles ==
    (queue # "unsent") ~>
        \/ TerminalEntries # {}
        \/ \E d \in Writers : stage[d] = "crashed" \/ pc[d] = "threw"

\* "complete or failed once the job settles" (types.ts:141) of the record's state, for
\* every job whose deliveries end and whose writes succeed.  The code does not have
\* this: a late `processing` of an overlapping delivery may be the last entry.
Settles == (queue # "unsent") ~> [](Settled)

\* Unless one of submit()'s own writes fails, the record converges to the submission
\* time submit() took, or to an earlier one, whichever of submit() and the handler
\* writes first (README: submittedAt is the time of submission).
SubmissionConverges ==
    (queue # "unsent") ~>
        \/ pc[Submitter] \in {"threw", "uncorrected"}
        \/ /\ pc[Submitter] \in {"created", "corrected", "untouched"}
           /\ rec # NoRecord
           /\ rec.submittedAt <= submission
================================================================================
