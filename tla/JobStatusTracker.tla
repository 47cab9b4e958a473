--------------------------- MODULE JobStatusTracker ---------------------------
(***************************************************************************)
(* JobStatusTracker (bb-async-job/src/status.ts): the status record of    *)
(* one job, kept in a table that several processes write without a lock.  *)
(* The submitter calls recordQueued once; every delivery of the job calls *)
(* recordTransition.  Both append by read-modify-write guarded by a       *)
(* compare-and-swap on `version`.  Records of different jobs share        *)
(* nothing, so one record is the whole component.                         *)
(*                                                                         *)
(* The table is modelled from how the tracker uses it: `put` is atomic    *)
(* and conditional, and may fail before or after it took effect; `get` is *)
(* an eventually consistent read in AWS and a strong one in the mock.     *)
(***************************************************************************)
EXTENDS Naturals, Sequences

CONSTANTS
    Writers,            \* concurrent callers of recordTransition
    Submitter,          \* the caller of recordQueued
    MAX_CAS_ATTEMPTS,
    RETENTION,          \* STATUS_RETENTION_SECONDS, in clock ticks
    MaxAttempt,         \* bound: delivery attempts numbered 1..MaxAttempt
    MaxSkew,            \* how far apart two hosts' clocks may be, in ticks
    MaxClock,           \* bound: clock ticks
    MaxWrites,          \* bound: writes after which no call starts
    StaleReads,         \* TRUE: get may return an earlier value (AWS)
    PutErrors,          \* TRUE: a put may fail for another reason than a race
    LostReplies,        \* TRUE: a put may take effect and still be reported failed
    NoRecord            \* what get returns when nothing is stored

ASSUME TrackerAssumption ==
    /\ Submitter \notin Writers
    /\ MAX_CAS_ATTEMPTS \in Nat \ {0}
    /\ RETENTION \in Nat \ {0}
    /\ {MaxAttempt, MaxSkew, MaxClock, MaxWrites} \subseteq Nat
    /\ {StaleReads, PutErrors, LostReplies} \subseteq BOOLEAN

Process == Writers \cup {Submitter}

HandlerState == {"processing", "complete", "failed"}
State == HandlerState \cup {"queued"}
Terminal == {"complete", "failed"}

Transition == [state : State, at : Nat, attempt : Nat]

\* error is the attempt whose handler error is stored, 0 when there is none.
StatusRecord ==
    [state : State, transitions : Seq(Transition), attempts : Nat,
     submittedAt : Nat, updatedAt : Nat, expiresAt : Nat,
     error : Nat, version : Nat]

Call == [state : HandlerState, attempt : Nat \ {0}]
ASSUME SentinelAssumption == NoRecord \notin StatusRecord \cup Transition \cup Call

VARIABLES
    clock,       \* time, on the slowest of the hosts' clocks
    rec,         \* the stored record, or NoRecord
    past,        \* earlier values of rec a replica may still serve
    pc,          \* where each call is
    call,        \* what each writer is asked to append
    cas,         \* the loop counter of each call
    seen,        \* what each call's last get returned
    readAt,      \* when it returned
    submission,  \* the submitter's submittedAt
    wrote,       \* ghost: the entry each writer's last call put in the record
    reaped       \* ghost: the record has expired once

vars == <<clock, rec, past, pc, call, cas, seen, readAt, submission, wrote, reaped>>

\* The submitter's resting places say how recordQueued ended.
SubmitterEnd == {"created", "corrected", "untouched", "abandoned", "uncorrected", "threw"}
WriterEnd == {"idle", "returned", "threw"}
Step == {"create", "read", "swap"} \cup SubmitterEnd \cup WriterEnd

Max2(a, b) == IF a >= b THEN a ELSE b
Latest(s) == s[Len(s)]

\* What `new Date()` may say, on whichever host, between two moments.
Readings(from, to) == from..(to + MaxSkew)

-------------------------------------------------------------------------------
(* The records the tracker builds.                                         *)

\* queuedRecord: the record of a job submitted at time t.
queuedRecord(t) ==
    [state |-> "queued",
     transitions |-> <<[state |-> "queued", at |-> t, attempt |-> 0]>>,
     attempts |-> 0, submittedAt |-> t, updatedAt |-> t,
     expiresAt |-> t + RETENTION, error |-> 0, version |-> 0]

\* recordTransition: base with one more transition, made at time now.
Appended(base, c, now) ==
    [base EXCEPT
        !.state = c.state,
        !.transitions = Append(@, [state |-> c.state, at |-> now, attempt |-> c.attempt]),
        !.attempts = Max2(@, c.attempt),
        !.updatedAt = now,
        !.expiresAt = now + RETENTION,
        !.error = IF c.state = "failed" THEN c.attempt ELSE @,
        !.version = @ + 1]

\* Faulty: the queued entry keeps the provisional time.
BackdatedFieldOnly(r, t) == [r EXCEPT !.submittedAt = t, !.version = @ + 1]

\* backdateSubmission: submittedAt and the queued entry moved to time t.
Backdated(r, t) ==
    [r EXCEPT
        !.submittedAt = t,
        !.transitions = [i \in DOMAIN @ |->
            IF i = 1 /\ @[i].state = "queued" THEN [@[i] EXCEPT !.at = t] ELSE @[i]],
        !.version = @ + 1]

-------------------------------------------------------------------------------
(* The table.                                                              *)

\* The values a get may return.
Readable == {rec} \cup (IF StaleReads THEN past ELSE {})

Store(next) == rec' = next /\ past' = past \cup {rec}
KeepTable == UNCHANGED <<rec, past, reaped>>

Goto(p, step) == pc' = [pc EXCEPT ![p] = step]

\* A call returns or throws; what it read is dropped.
Finish(p, step) ==
    /\ Goto(p, step)
    /\ cas' = [cas EXCEPT ![p] = 1]

\* A lost swap is retried until MAX_CAS_ATTEMPTS, then thrown.
RetryOr(p, thrown) ==
    \/ /\ cas[p] < MAX_CAS_ATTEMPTS
       /\ Goto(p, "read")
       /\ cas' = [cas EXCEPT ![p] = @ + 1]
    \/ cas[p] >= MAX_CAS_ATTEMPTS /\ Finish(p, thrown)

\* The snapshot of a swap is not used after it.
Forget(p) ==
    /\ seen' = [seen EXCEPT ![p] = NoRecord]
    /\ readAt' = [readAt EXCEPT ![p] = 0]

-------------------------------------------------------------------------------
(* recordQueued and backdateSubmission.                                    *)

StartQueued ==
    /\ pc[Submitter] = "idle"
    /\ submission' \in Readings(clock, clock)
    /\ Goto(Submitter, "create")
    /\ KeepTable
    /\ UNCHANGED <<clock, call, cas, seen, readAt, wrote>>

\* Faulty: the put is unconditional.
CreateClobbers ==
    /\ pc[Submitter] = "create"
    /\ Store(queuedRecord(submission))
    /\ Goto(Submitter, "created")
    /\ UNCHANGED <<clock, call, cas, seen, readAt, submission, wrote, reaped>>

\* put(..., { ifNotExists }) succeeds.
Create ==
    /\ pc[Submitter] = "create"
    /\ rec = NoRecord
    /\ Store(queuedRecord(submission))
    /\ Goto(Submitter, "created")
    /\ UNCHANGED <<clock, call, cas, seen, readAt, submission, wrote, reaped>>

\* It stored the record but its reply was lost: the client's own retry meets
\* the record it just made, or the error surfaces as it is.
CreateUnacknowledged ==
    /\ LostReplies
    /\ pc[Submitter] = "create"
    /\ rec = NoRecord
    /\ Store(queuedRecord(submission))
    /\ \/ Goto(Submitter, "read") /\ cas' = [cas EXCEPT ![Submitter] = 1]
       \/ Goto(Submitter, "threw") /\ cas' = cas
    /\ UNCHANGED <<clock, call, seen, readAt, submission, wrote, reaped>>

\* Faulty: losing the race is a plain no-op.
CreateLostIgnored ==
    /\ pc[Submitter] = "create"
    /\ rec # NoRecord
    /\ Goto(Submitter, "created")
    /\ KeepTable
    /\ UNCHANGED <<clock, call, cas, seen, readAt, submission, wrote>>

\* ConditionalCheckFailed: the handler was first; go back and correct it.
CreateLost ==
    /\ pc[Submitter] = "create"
    /\ rec # NoRecord
    /\ Goto(Submitter, "read")
    /\ cas' = [cas EXCEPT ![Submitter] = 1]
    /\ KeepTable
    /\ UNCHANGED <<clock, call, seen, readAt, submission, wrote>>

CreateFails ==
    /\ PutErrors
    /\ pc[Submitter] = "create"
    /\ Goto(Submitter, "threw")
    /\ KeepTable
    /\ UNCHANGED <<clock, call, cas, seen, readAt, submission, wrote>>

\* backdateSubmission's get, and its two early returns.
ReadForBackdate ==
    /\ pc[Submitter] = "read"
    /\ \E r \in Readable :
         \/ /\ r = NoRecord
            /\ Finish(Submitter, "abandoned")
            /\ UNCHANGED <<seen, readAt>>
         \/ /\ r # NoRecord
            /\ ~(submission < r.submittedAt)
            /\ Finish(Submitter, "untouched")
            /\ UNCHANGED <<seen, readAt>>
         \/ /\ r # NoRecord
            /\ submission < r.submittedAt
            /\ seen' = [seen EXCEPT ![Submitter] = r]
            /\ readAt' = [readAt EXCEPT ![Submitter] = clock]
            /\ Goto(Submitter, "swap")
            /\ cas' = cas
    /\ KeepTable
    /\ UNCHANGED <<clock, call, submission, wrote>>

\* Whether a conditional put on what p read takes effect.
Matches(p) ==
    IF seen[p] = NoRecord
    THEN rec = NoRecord
    ELSE rec # NoRecord /\ rec.version = seen[p].version

Backdate ==
    /\ pc[Submitter] = "swap"
    /\ Matches(Submitter)
    /\ Store(Backdated(seen[Submitter], submission))
    /\ \/ Finish(Submitter, "corrected")
       \/ LostReplies /\ RetryOr(Submitter, "uncorrected")
       \/ LostReplies /\ Finish(Submitter, "uncorrected")
    /\ Forget(Submitter)
    /\ UNCHANGED <<clock, call, submission, wrote, reaped>>

\* A lost race, retried; or any other error, swallowed by recordQueued.
BackdateFails ==
    /\ pc[Submitter] = "swap"
    /\ \/ ~Matches(Submitter) /\ RetryOr(Submitter, "uncorrected")
       \/ PutErrors /\ Finish(Submitter, "uncorrected")
    /\ KeepTable
    /\ Forget(Submitter)
    /\ UNCHANGED <<clock, call, submission, wrote>>

-------------------------------------------------------------------------------
(* recordTransition, by writer w.                                          *)

StartTransition(w, c) ==
    /\ pc[w] \in WriterEnd
    /\ call' = [call EXCEPT ![w] = c]
    /\ cas' = [cas EXCEPT ![w] = 1]
    /\ wrote' = [wrote EXCEPT ![w] = NoRecord]
    /\ Goto(w, "read")
    /\ KeepTable
    /\ UNCHANGED <<clock, seen, readAt, submission>>

Read(w) ==
    /\ pc[w] = "read"
    /\ \E r \in Readable : seen' = [seen EXCEPT ![w] = r]
    /\ readAt' = [readAt EXCEPT ![w] = clock]
    /\ Goto(w, "swap")
    /\ KeepTable
    /\ UNCHANGED <<clock, call, cas, submission, wrote>>

\* `now` is read after the get and before the put takes effect; the put is
\* acknowledged, or its reply is lost and the client's retry meets its own
\* write, or the error surfaces.
Swap(w) ==
    /\ pc[w] = "swap"
    /\ Matches(w)
    /\ \E now \in Readings(readAt[w], clock) :
         LET base == IF seen[w] = NoRecord THEN queuedRecord(now) ELSE seen[w]
             next == Appended(base, call[w], now)
         IN  /\ Store(next)
             /\ wrote' = [wrote EXCEPT ![w] = Latest(next.transitions)]
    /\ \/ Finish(w, "returned")
       \/ LostReplies /\ RetryOr(w, "threw")
       \/ LostReplies /\ Finish(w, "threw")
    /\ Forget(w)
    /\ UNCHANGED <<clock, call, submission, reaped>>

SwapFails(w) ==
    /\ pc[w] = "swap"
    /\ \/ ~Matches(w) /\ RetryOr(w, "threw")
       \/ PutErrors /\ Finish(w, "threw")
    /\ KeepTable
    /\ Forget(w)
    /\ UNCHANGED <<clock, call, submission, wrote>>

-------------------------------------------------------------------------------
(* Time.                                                                   *)

Tick ==
    /\ clock < MaxClock
    /\ clock' = clock + 1
    /\ KeepTable
    /\ UNCHANGED <<pc, call, cas, seen, readAt, submission, wrote>>

\* The table's TTL removes the record.  Retention is a day and a call lasts
\* seconds, so no call still holds what it read, and replicas agree.
Expire ==
    /\ rec # NoRecord
    /\ \E now \in Readings(clock, clock) : rec.expiresAt <= now
    /\ \A p \in Process : pc[p] # "swap"
    /\ rec' = NoRecord
    /\ past' = {}
    /\ reaped' = TRUE
    /\ wrote' = [w \in Writers |-> NoRecord]
    /\ UNCHANGED <<clock, pc, call, cas, seen, readAt, submission>>

-------------------------------------------------------------------------------
Init ==
    /\ clock = 0
    /\ rec = NoRecord
    /\ past = {}
    /\ pc = [p \in Process |-> "idle"]
    /\ call = [w \in Writers |-> NoRecord]
    /\ cas = [p \in Process |-> 1]
    /\ seen = [p \in Process |-> NoRecord]
    /\ readAt = [p \in Process |-> 0]
    /\ submission = 0
    /\ wrote = [w \in Writers |-> NoRecord]
    /\ reaped = FALSE

\* Any writer may ask for any transition; a caller passes an error exactly
\* when it records a failure.
BeginTransition(w) ==
    /\ rec # NoRecord => rec.version < MaxWrites
    /\ \E s \in HandlerState, a \in 1..MaxAttempt :
         StartTransition(w, [state |-> s, attempt |-> a])

SubmitterNext ==
    \/ StartQueued \/ Create \/ CreateUnacknowledged \/ CreateLost \/ CreateFails
    \/ ReadForBackdate \/ Backdate \/ BackdateFails

WriterNext(w) == BeginTransition(w) \/ Read(w) \/ Swap(w) \/ SwapFails(w)

Next == SubmitterNext \/ (\E w \in Writers : WriterNext(w)) \/ Tick \/ Expire

Spec == Init /\ [][Next]_vars

-------------------------------------------------------------------------------
(* Properties.                                                             *)

TypeOK ==
    /\ clock \in Nat
    /\ rec \in StatusRecord \cup {NoRecord}
    /\ past \subseteq StatusRecord \cup {NoRecord}
    /\ pc \in [Process -> Step]
    /\ \A w \in Writers : pc[w] \in {"read", "swap"} \cup WriterEnd
    /\ call \in [Writers -> Call \cup {NoRecord}]
    /\ \A w \in Writers : pc[w] # "idle" => call[w] # NoRecord
    /\ cas \in [Process -> 1..MAX_CAS_ATTEMPTS]
    /\ pc[Submitter] = "swap" => seen[Submitter] # NoRecord
    /\ seen \in [Process -> StatusRecord \cup {NoRecord}]
    /\ readAt \in [Process -> Nat]
    /\ submission \in Nat
    /\ wrote \in [Writers -> Transition \cup {NoRecord}]
    /\ reaped \in BOOLEAN

\* "Callers are entitled to expect transitions[0].at to equal submittedAt"
\* (status.ts backdateSubmission): the two views of the submission agree in
\* every value any reader, however stale its replica, can see.
SubmissionAgrees ==
    \A r \in {rec} \cup past : r # NoRecord =>
        /\ r.transitions # << >>
        /\ r.transitions[1].state = "queued"
        /\ r.transitions[1].at = r.submittedAt

\* "Every state the job has entered, in order" (types.ts:168): every writer stamps
\* its entry before its put, on its own host's clock, and still no entry is stamped
\* earlier than one before it by more than two clocks differ; the swap rejects an
\* older stamp.  state and updatedAt are the last entry's.
OrderedUpToSkew ==
    rec # NoRecord =>
        /\ \A i, j \in DOMAIN rec.transitions :
              i <= j => rec.transitions[i].at <= rec.transitions[j].at + MaxSkew
        /\ rec.state = Latest(rec.transitions).state
        /\ rec.updatedAt = Latest(rec.transitions).at

\* Once a writer's put has taken effect, its entry stays in the record until
\* the record expires, whatever the other writers and the submitter do
\* (status.ts recordTransition: "so no entry is lost").
NoEntryLost ==
    \A w \in Writers : wrote[w] # NoRecord =>
        /\ rec # NoRecord
        /\ \E i \in 2..Len(rec.transitions) : rec.transitions[i] = wrote[w]

\* When recordQueued has succeeded, by creating the record, by correcting it or
\* by finding nothing to correct, the record never again shows a submission
\* later than the real one (status.ts recordQueued).
SubmissionSettled ==
    pc[Submitter] \in {"created", "corrected", "untouched"} /\ ~reaped =>
        rec # NoRecord /\ rec.submittedAt <= submission

\* Two copies of the record with one version are the same record, so comparing
\* versions is comparing records: what every compare-and-swap relies on.
Coherent(r) ==
    r # NoRecord =>
        /\ rec # NoRecord
        /\ r.version <= rec.version
        /\ r.version = rec.version => r = rec
        /\ rec.submittedAt <= r.submittedAt

VersionIdentifies ==
    /\ \A p \in Process : Coherent(seen[p])
    /\ \A r \in past : Coherent(r)

\* What makes the invariants above inductive.  A snapshot is held only across
\* the swap it is compared in; no stored time lies further in the future than a
\* clock may be ahead, and no held one when it was read; a record without a
\* handler's entry was created by the submitter.
SnapshotsHeldInSwap == \A p \in Process : pc[p] # "swap" => seen[p] = NoRecord

StampedBy(r, time) == \A i \in DOMAIN r.transitions : r.transitions[i].at <= time + MaxSkew

TimesPast ==
    /\ submission <= clock + MaxSkew
    /\ \A r \in {rec} \cup past : r # NoRecord => StampedBy(r, clock)
    /\ \A p \in Process : pc[p] = "swap" =>
          /\ readAt[p] <= clock
          /\ seen[p] # NoRecord => StampedBy(seen[p], readAt[p])

SubmitterFirst ==
    /\ pc[Submitter] = "swap" => submission < seen[Submitter].submittedAt
    /\ rec # NoRecord /\ Len(rec.transitions) = 1 =>
          pc[Submitter] # "idle" /\ rec.submittedAt <= submission

TrackerInv ==
    /\ TypeOK
    /\ SubmissionAgrees
    /\ OrderedUpToSkew
    /\ NoEntryLost
    /\ SubmissionSettled
    /\ VersionIdentifies
    /\ SnapshotsHeldInSwap
    /\ TimesPast
    /\ SubmitterFirst

\* The record implements the append-only log of module JobHistory.
Log == INSTANCE JobHistory
       WITH history <- IF rec = NoRecord THEN << >> ELSE rec.transitions,
            Disorder <- MaxSkew

RefinesHistory == Log!Spec
================================================================================
