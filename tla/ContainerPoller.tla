--------------------------- MODULE ContainerPoller ----------------------------
(***************************************************************************)
(* The container path of an AsyncJob: the long-poll loop of               *)
(* registerContainerPoller (bb-async-job/src/index.aws.ts), the worker    *)
(* thread each message runs in and the shutdown of the task               *)
(* (core/src/container-runtime.ts dispatchJobToWorker, runContainer).     *)
(* Several tasks drain one queue.  Delivery <<m, n>> is the n-th receive  *)
(* of message m.                                                           *)
(*                                                                         *)
(* SQS and ECS are modelled from how the code uses them: a received       *)
(* message is hidden until its visibility window lapses or it is deleted; *)
(* a delete or an extension through a receipt handle that is no longer    *)
(* the latest may or may not count; the task is killed when its stop      *)
(* timeout passes.  Time is counted down in ticks of the heartbeat.       *)
(***************************************************************************)
EXTENDS Naturals, FiniteSets

CONSTANTS
    Messages,
    Tasks,              \* container tasks, each with one poller of the queue
    MAX_RETRIES,        \* the queue's maxReceiveCount
    MAX_CONCURRENCY,    \* maxConcurrency: worker slots of a task
    RECEIVE_BATCH,      \* the most messages one receive returns
    VISIBILITY,         \* VISIBILITY_HEARTBEAT_SECONDS, in ticks
    INTERVAL,           \* VISIBILITY_HEARTBEAT_INTERVAL_MS, in ticks
    Timeouts,           \* TRUE: a job has a wall-clock limit
    SqsErrors,          \* TRUE: a receive or a delete may fail
    ExtensionErrors,    \* TRUE: an extension of a visibility window may fail
    Crashes,            \* TRUE: a fallible task may die at any time
    Fallible            \* tasks that ECS may stop, or lose

ASSUME PollerAssumption ==
    /\ IsFiniteSet(Messages)
    /\ {MAX_RETRIES, MAX_CONCURRENCY, RECEIVE_BATCH} \subseteq Nat \ {0}
    /\ {VISIBILITY, INTERVAL} \subseteq Nat \ {0}
    /\ {Timeouts, SqsErrors, ExtensionErrors, Crashes} \subseteq BOOLEAN
    /\ Fallible \subseteq Tasks

Delivery == Messages \X (1..MAX_RETRIES)

VARIABLES
    place,      \* where each message is
    receives,   \* its ApproximateReceiveCount
    hidden,     \* ticks until its visibility window lapses
    stage,      \* where each delivery is
    host,       \* the task each delivery was handed to, {} before
    beat,       \* ticks until the delivery's next heartbeat
    poll,       \* where each task's loop is
    room,       \* MaxNumberOfMessages of its receive in flight
    inFlight,   \* its worker slots in use
    running,    \* the poller's `running`
    drain,      \* the promise drain() returned
    phase       \* where runContainer is

queueVars == <<place, receives, hidden>>
workVars == <<stage, host, beat>>
loopVars == <<poll, room, inFlight>>
endVars == <<running, drain, phase>>
vars == <<queueVars, workVars, loopVars, endVars>>

Place == {"visible", "hidden", "deleted", "dead"}
Stage == {"none", "answered", "working", "replied", "succeeded", "over", "lost"}
Loop == {"top", "polling", "answered", "backoff", "ended"}
Phase == {"up", "draining", "resolved", "exited", "killed"}
Gone == {"exited", "killed"}

Smaller(a, b) == IF a <= b THEN a ELSE b

Alive(t) == phase[t] \notin Gone
HostedBy(t) == {d \in Delivery : t \in host[d]}
AtWork(t) == {d \in HostedBy(t) : stage[d] \in {"working", "replied", "succeeded"}}
Answered(t) == {d \in HostedBy(t) : stage[d] = "answered"}
Latest(d) == d[2] = receives[d[1]]

Enter(d, s) == stage' = [stage EXCEPT ![d] = s]

-------------------------------------------------------------------------------
(* The loop.                                                               *)

\* Faulty: the loop does not look at `running`.
PollAfterStop(t) ==
    /\ Alive(t)
    /\ poll[t] = "top"
    /\ inFlight[t] < MAX_CONCURRENCY
    /\ poll' = [poll EXCEPT ![t] = "polling"]
    /\ room' = [room EXCEPT ![t] = Smaller(RECEIVE_BATCH, MAX_CONCURRENCY - inFlight[t])]
    /\ UNCHANGED <<queueVars, workVars, inFlight, endVars>>

\* A receive for the slots that are free now; with none the loop sleeps.
Poll(t) ==
    /\ Alive(t)
    /\ poll[t] = "top"
    /\ running[t]
    /\ inFlight[t] < MAX_CONCURRENCY
    /\ poll' = [poll EXCEPT ![t] = "polling"]
    /\ room' = [room EXCEPT ![t] = Smaller(RECEIVE_BATCH, MAX_CONCURRENCY - inFlight[t])]
    /\ UNCHANGED <<queueVars, workVars, inFlight, endVars>>

EndLoop(t) ==
    /\ Alive(t)
    /\ poll[t] = "top"
    /\ ~running[t]
    /\ poll' = [poll EXCEPT ![t] = "ended"]
    /\ UNCHANGED <<queueVars, workVars, room, inFlight, endVars>>

\* SQS answers a receive, with nothing only when nothing is visible (the long
\* poll asks every server): the messages S are hidden and counted.
Serve(t, S) ==
    /\ poll[t] = "polling"
    /\ Cardinality(S) <= room[t]
    /\ \A m \in S : place[m] = "visible" /\ receives[m] < MAX_RETRIES
    /\ S = {} => \A m \in Messages : place[m] # "visible"
    /\ poll' = [poll EXCEPT ![t] = "answered"]
    /\ place' = [m \in Messages |-> IF m \in S THEN "hidden" ELSE place[m]]
    /\ receives' = [m \in Messages |-> IF m \in S THEN receives[m] + 1 ELSE receives[m]]
    /\ hidden' = [m \in Messages |-> IF m \in S THEN 2 * VISIBILITY ELSE hidden[m]]
    /\ stage' = [d \in Delivery |->
                    IF d[1] \in S /\ d[2] = receives[d[1]] + 1 THEN "answered" ELSE stage[d]]
    /\ host' = [d \in Delivery |->
                    IF d[1] \in S /\ d[2] = receives[d[1]] + 1 THEN {t} ELSE host[d]]
    /\ UNCHANGED <<beat, room, inFlight, endVars>>

\* The response arrives: each message gets a slot, a worker and a heartbeat.
\* `running` is not looked at again.
Dispatch(t) ==
    /\ Alive(t)
    /\ poll[t] = "answered"
    /\ stage' = [d \in Delivery |-> IF d \in Answered(t) THEN "working" ELSE stage[d]]
    /\ beat' = [d \in Delivery |-> IF d \in Answered(t) THEN INTERVAL ELSE beat[d]]
    /\ inFlight' = [inFlight EXCEPT ![t] = @ + Cardinality(Answered(t))]
    /\ poll' = [poll EXCEPT ![t] = "top"]
    /\ room' = [room EXCEPT ![t] = 0]
    /\ UNCHANGED <<queueVars, host, endVars>>

\* The receive rejects, before or after SQS had counted it.
ReceiveFails(t) ==
    /\ SqsErrors
    /\ Alive(t)
    /\ poll[t] \in {"polling", "answered"}
    /\ stage' = [d \in Delivery |-> IF d \in Answered(t) THEN "lost" ELSE stage[d]]
    /\ poll' = [poll EXCEPT ![t] = "backoff"]
    /\ room' = [room EXCEPT ![t] = 0]
    /\ UNCHANGED <<queueVars, host, beat, inFlight, endVars>>

BackOff(t) ==
    /\ Alive(t)
    /\ poll[t] = "backoff"
    /\ poll' = [poll EXCEPT ![t] = "top"]
    /\ UNCHANGED <<queueVars, workVars, room, inFlight, endVars>>

-------------------------------------------------------------------------------
(* One delivery: handleMessage and dispatchJobToWorker.                    *)

\* releaseSlot: the drain promise settles when the count reaches zero.
ReleaseSlot(t) ==
    /\ inFlight' = [inFlight EXCEPT ![t] = @ - 1]
    /\ drain' = IF inFlight[t] = 1 /\ drain[t] = "waiting"
                THEN [drain EXCEPT ![t] = "settled"]
                ELSE drain

\* handleMessage ends: the interval is cleared and the slot released.
Settle(d, t) ==
    /\ t \in host[d]
    /\ Alive(t)
    /\ Enter(d, "over")
    /\ beat' = [beat EXCEPT ![d] = 0]
    /\ ReleaseSlot(t)
    /\ UNCHANGED <<host, poll, room, running, phase>>

\* _processRecord ended in the worker; its reply is on its way to the parent.
HandlerEnds(d) ==
    /\ stage[d] = "working"
    /\ Enter(d, "replied")
    /\ UNCHANGED <<queueVars, host, beat, loopVars, endVars>>

\* finish({ ok: true }), the first to settle; the delete is sent.
Reply(d) ==
    /\ stage[d] = "replied"
    /\ Enter(d, "succeeded")
    /\ beat' = [beat EXCEPT ![d] = 0]
    /\ UNCHANGED <<queueVars, host, loopVars, endVars>>

\* The handler threw, or the worker could not start, erred or exited.
WorkerFails(d, t) ==
    /\ stage[d] = "working"
    /\ Settle(d, t)
    /\ UNCHANGED queueVars

\* The limit passes first, even if the handler has just ended.
TimesOut(d, t) ==
    /\ Timeouts
    /\ stage[d] \in {"working", "replied"}
    /\ Settle(d, t)
    /\ UNCHANGED queueVars

\* DeleteMessage takes effect; the dead-letter queue keeps what it has.
Vanish(m) ==
    /\ place' = [place EXCEPT ![m] = IF @ = "dead" THEN "dead" ELSE "deleted"]
    /\ hidden' = [hidden EXCEPT ![m] = 0]
    /\ UNCHANGED receives

\* Faulty: the message is deleted whatever the worker reported.
DeleteAlways(d, t) ==
    /\ stage[d] \in {"working", "succeeded"}
    /\ Settle(d, t)
    /\ Vanish(d[1])

\* Faulty: a rejected delete keeps the slot.
DeleteKeepsSlot(d, t) ==
    /\ stage[d] = "succeeded"
    /\ \/ Settle(d, t) /\ Vanish(d[1])
       \/ /\ SqsErrors
          /\ t \in host[d] /\ Alive(t)
          /\ Enter(d, "over")
          /\ UNCHANGED <<queueVars, host, beat, loopVars, endVars>>

\* DeleteMessage counts, or rejects and is swallowed, or its handle is stale.
Delete(d, t) ==
    /\ stage[d] = "succeeded"
    /\ Settle(d, t)
    /\ \/ Vanish(d[1])
       \/ (SqsErrors \/ ~Latest(d)) /\ UNCHANGED queueVars

\* Faulty: the extension is as short as the interval.
HeartbeatTooShort(d) ==
    /\ stage[d] \in {"working", "replied"}
    /\ beat[d] = 0
    /\ beat' = [beat EXCEPT ![d] = INTERVAL]
    /\ \/ /\ place[d[1]] = "hidden"
          /\ hidden' = [hidden EXCEPT ![d[1]] = INTERVAL]
       \/ (ExtensionErrors \/ ~Latest(d) \/ place[d[1]] # "hidden") /\ UNCHANGED hidden
    /\ UNCHANGED <<place, receives, stage, host, loopVars, endVars>>

\* Faulty: the interval outlives the job.
HeartbeatNeverCleared(d) ==
    /\ stage[d] \in {"working", "replied", "over"}
    /\ beat[d] = 0
    /\ beat' = [beat EXCEPT ![d] = INTERVAL]
    /\ \/ /\ place[d[1]] = "hidden"
          /\ hidden' = [hidden EXCEPT ![d[1]] = VISIBILITY]
       \/ (ExtensionErrors \/ ~Latest(d) \/ place[d[1]] # "hidden") /\ UNCHANGED hidden
    /\ UNCHANGED <<place, receives, stage, host, loopVars, endVars>>

\* The interval fires; a failed extension is logged and forgotten.
Heartbeat(d) ==
    /\ stage[d] \in {"working", "replied"}
    /\ beat[d] = 0
    /\ beat' = [beat EXCEPT ![d] = INTERVAL]
    /\ \/ /\ place[d[1]] = "hidden"
          /\ hidden' = [hidden EXCEPT ![d[1]] = VISIBILITY]
       \/ (ExtensionErrors \/ ~Latest(d) \/ place[d[1]] # "hidden") /\ UNCHANGED hidden
    /\ UNCHANGED <<place, receives, stage, host, loopVars, endVars>>

-------------------------------------------------------------------------------
(* Shutdown of a task.                                                     *)

\* SIGTERM: stop(), then whenDrained().
Stop(t) ==
    /\ t \in Fallible
    /\ phase[t] = "up"
    /\ running' = [running EXCEPT ![t] = FALSE]
    /\ drain' = [drain EXCEPT ![t] = IF inFlight[t] = 0 THEN "settled" ELSE "waiting"]
    /\ phase' = [phase EXCEPT ![t] = "draining"]
    /\ UNCHANGED <<queueVars, workVars, loopVars>>

\* runContainer returns: the drain settled, or (g) the grace period is over.
Resolve(t, g) ==
    /\ phase[t] = "draining"
    /\ drain[t] = "settled" \/ g
    /\ phase' = [phase EXCEPT ![t] = "resolved"]
    /\ UNCHANGED <<queueVars, workVars, loopVars, running, drain>>

\* Nothing calls process.exit: the process ends when its event loop is empty.
Exit(t) ==
    /\ phase[t] = "resolved"
    /\ poll[t] = "ended"
    /\ AtWork(t) = {}
    /\ phase' = [phase EXCEPT ![t] = "exited"]
    /\ UNCHANGED <<queueVars, workVars, loopVars, running, drain>>

\* The process dies with everything in it: a crash, or ECS's stop timeout, ten
\* seconds after the grace period, when only a worker can still keep it alive.
Kill(t) ==
    /\ t \in Fallible
    /\ \/ phase[t] = "resolved" /\ AtWork(t) # {}
       \/ Crashes /\ Alive(t)
    /\ phase' = [phase EXCEPT ![t] = "killed"]
    /\ stage' = [d \in Delivery |->
                    IF d \in AtWork(t) \cup Answered(t) THEN "lost" ELSE stage[d]]
    /\ beat' = [d \in Delivery |-> IF t \in host[d] THEN 0 ELSE beat[d]]
    /\ poll' = [poll EXCEPT ![t] = "ended"]
    /\ room' = [room EXCEPT ![t] = 0]
    /\ inFlight' = [inFlight EXCEPT ![t] = 0]
    /\ UNCHANGED <<queueVars, host, running, drain>>

-------------------------------------------------------------------------------
(* SQS and time, external.                                                 *)

Lapse(m) ==
    /\ place[m] = "hidden"
    /\ hidden[m] = 0
    /\ place' = [place EXCEPT ![m] = "visible"]
    /\ UNCHANGED <<receives, hidden, workVars, loopVars, endVars>>

Redrive(m) ==
    /\ place[m] = "visible"
    /\ receives[m] >= MAX_RETRIES
    /\ place' = [place EXCEPT ![m] = "dead"]
    /\ UNCHANGED <<receives, hidden, workVars, loopVars, endVars>>

\* A due heartbeat fires, and a response arrives, within a tick.
Tick ==
    /\ \A d \in Delivery : stage[d] \in {"working", "replied"} => beat[d] > 0
    /\ \A d \in Delivery : stage[d] # "answered"
    /\ \E m \in Messages : hidden[m] > 0
    /\ hidden' = [m \in Messages |-> IF hidden[m] > 0 THEN hidden[m] - 1 ELSE 0]
    /\ beat' = [d \in Delivery |-> IF beat[d] > 0 THEN beat[d] - 1 ELSE 0]
    /\ UNCHANGED <<place, receives, stage, host, loopVars, endVars>>

-------------------------------------------------------------------------------
Init ==
    /\ place = [m \in Messages |-> "visible"]
    /\ receives = [m \in Messages |-> 0]
    /\ hidden = [m \in Messages |-> 0]
    /\ stage = [d \in Delivery |-> "none"]
    /\ host = [d \in Delivery |-> {}]
    /\ beat = [d \in Delivery |-> 0]
    /\ poll = [t \in Tasks |-> "top"]
    /\ room = [t \in Tasks |-> 0]
    /\ inFlight = [t \in Tasks |-> 0]
    /\ running = [t \in Tasks |-> TRUE]
    /\ drain = [t \in Tasks |-> "none"]
    /\ phase = [t \in Tasks |-> "up"]

LoopStep(t) ==
    \/ Poll(t) \/ EndLoop(t) \/ Dispatch(t) \/ BackOff(t)
    \/ \E S \in SUBSET Messages : Serve(t, S)

DeliveryStep(d, t) == WorkerFails(d, t) \/ TimesOut(d, t) \/ Delete(d, t)

Next ==
    \/ \E t \in Tasks :
         \/ LoopStep(t) \/ ReceiveFails(t)
         \/ Stop(t) \/ Exit(t) \/ Kill(t)
         \/ \E g \in BOOLEAN : Resolve(t, g)
         \/ \E d \in Delivery : DeliveryStep(d, t)
    \/ \E d \in Delivery : HandlerEnds(d) \/ Reply(d) \/ Heartbeat(d)
    \/ \E m \in Messages : Lapse(m) \/ Redrive(m)
    \/ Tick

Spec == Init /\ [][Next]_vars

\* Node runs a ready callback, a worker thread its handler up to the limit; SQS
\* answers a receive that is repeated often enough, lapses and redrives; no task
\* has to be stopped or killed.
Fairness ==
    /\ \A t \in Tasks : /\ WF_vars(LoopStep(t))
                        /\ WF_vars(Exit(t))
                        /\ WF_vars(\E g \in BOOLEAN : Resolve(t, g))
                        /\ SF_vars(\E S \in SUBSET Messages : Serve(t, S))
    /\ \A d \in Delivery : /\ WF_vars(\E t \in Tasks : DeliveryStep(d, t))
                           /\ WF_vars(Reply(d))
                           /\ WF_vars(Heartbeat(d))
    /\ \A m \in Messages : WF_vars(Lapse(m)) /\ WF_vars(Redrive(m))
    /\ WF_vars(Tick)

FairSpec == Spec /\ Fairness

-------------------------------------------------------------------------------
(* Properties.                                                             *)

TypeOK ==
    /\ place \in [Messages -> Place]
    /\ receives \in [Messages -> 0..MAX_RETRIES]
    /\ hidden \in [Messages -> Nat]
    /\ stage \in [Delivery -> Stage]
    /\ host \in [Delivery -> SUBSET Tasks]
    /\ beat \in [Delivery -> Nat]
    /\ poll \in [Tasks -> Loop]
    /\ room \in [Tasks -> 0..MAX_CONCURRENCY]
    /\ inFlight \in [Tasks -> Nat]
    /\ running \in [Tasks -> BOOLEAN]
    /\ drain \in [Tasks -> {"none", "waiting", "settled"}]
    /\ phase \in [Tasks -> Phase]

\* The slot count is read before a receive that may take 20 seconds and is used
\* after it; still a task never runs, or is about to run, more workers than its
\* slots (index.aws.ts: "a burst can't spawn unbounded workers").
SlotsBounded ==
    \A t \in Tasks :
        Cardinality(AtWork(t)) + Cardinality(Answered(t)) <= MAX_CONCURRENCY

\* Every way a delivery ends gives its slot back exactly once, so a failed
\* delete or a dead worker never shrinks the task (index.aws.ts handleMessage).
SlotsAccounted == \A t \in Tasks : inFlight[t] = Cardinality(AtWork(t))

\* While extensions succeed, two handlers never run for one message, however
\* long they take and in whichever tasks (index.aws.ts: "never redelivered
\* mid-flight").
OneHandlerAtATime ==
    \A d, e \in Delivery :
        /\ d[1] = e[1]
        /\ {stage[d], stage[e]} \subseteq {"working", "replied"}
        => d = e

\* The drain promise settles only when no worker of the task is at work, so a
\* stopping task does not abandon jobs it could finish (index.aws.ts
\* whenDrained, releaseSlot).
DrainSettlesIdle ==
    [][\A t \in Tasks : drain'[t] = "settled" /\ drain[t] # "settled" =>
            AtWork(t)' = {}]_vars

\* Every message is deleted or dead-lettered, whatever tasks stop or die, while
\* one task stays up (index.aws.ts: "leaves it for SQS redrive").
EveryMessageResolves ==
    \A m \in Messages : <>(place[m] \in {"deleted", "dead"})

\* A task that was told to stop ends by itself when its jobs have a limit: no
\* loop, slot or promise keeps it (container-runtime.ts runContainer).
StoppedTaskEnds ==
    \A t \in Tasks : phase[t] = "draining" ~> phase[t] \in Gone

\* The container path implements the promise the Lambda path makes.
Promise == INSTANCE AtLeastOnce WITH
    outcome <- [m \in Messages |->
                   IF place[m] \in {"deleted", "dead"} THEN place[m] ELSE "pending"],
    attempts <- receives,
    finishing <- {m \in Messages : \E n \in 1..MAX_RETRIES :
                     stage[<<m, n>>] \in {"replied", "succeeded"}}

KeepsPromise == Promise!Spec
================================================================================
