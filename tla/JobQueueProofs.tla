---------------------------- MODULE JobQueueProofs -----------------------------
(***************************************************************************)
(* Theorems about the two ends of the job queue: ContainerPoller, for any *)
(* messages, any number of tasks, slots and receives, and any faults; and *)
(* BatchSubmit, for any bodies, limits and number of workers.              *)
(***************************************************************************)
EXTENDS ContainerPoller, BatchSubmit, FiniteSetTheorems, SequenceTheorems, TLAPS

AtWorkStage == {"working", "replied", "succeeded"}

\* A delivery that is still to come has no stage and no task.
Fresh ==
    \A d \in Delivery : d[2] > receives[d[1]] => stage[d] = "none" /\ host[d] = {}

OneHost == \A d \in Delivery : \A s, t \in host[d] : s = t

\* A response carries at most what its receive asked for, and what it asked for was free:
\* only the loop itself takes slots.
SlotInv(t) ==
    /\ poll[t] # "answered" => Answered(t) = {}
    /\ poll[t] \in {"polling", "answered"} => inFlight[t] + room[t] <= MAX_CONCURRENCY
    /\ Cardinality(Answered(t)) <= room[t]
    /\ inFlight[t] <= MAX_CONCURRENCY
    /\ inFlight[t] = Cardinality(AtWork(t))

PollerInv ==
    /\ TypeOK
    /\ Fresh
    /\ OneHost
    /\ \A t \in Tasks : SlotInv(t)

-------------------------------------------------------------------------------
(* Finite sets of deliveries.                                              *)

LEMMA DeliveryFinite ==
    /\ IsFiniteSet(Delivery)
    /\ \A t : IsFiniteSet(AtWork(t)) /\ IsFiniteSet(Answered(t))
<1>1. IsFiniteSet(1..MAX_RETRIES)
  BY FS_Interval, PollerAssumption
<1>2. IsFiniteSet(Delivery)
  BY <1>1, FS_Product, PollerAssumption DEF Delivery
<1>3. \A t : AtWork(t) \in SUBSET Delivery /\ Answered(t) \in SUBSET Delivery
  BY DEF AtWork, Answered, HostedBy
<1> QED
  BY <1>2, <1>3, FS_Subset

LEMMA Counts ==
    ASSUME NEW t
    PROVE  Cardinality(AtWork(t)) \in Nat /\ Cardinality(Answered(t)) \in Nat
BY DeliveryFinite, FS_CardinalityType

\* What a task holds depends on the stages of its deliveries only.
LEMMA SameWork ==
    ASSUME NEW t, host' = host,
           \A d \in HostedBy(t) : /\ stage'[d] \in AtWorkStage <=> stage[d] \in AtWorkStage
                                  /\ stage'[d] = "answered" <=> stage[d] = "answered"
    PROVE  AtWork(t)' = AtWork(t) /\ Answered(t)' = Answered(t)
BY DEF AtWork, Answered, HostedBy, AtWorkStage

-------------------------------------------------------------------------------
(* The receive.                                                            *)

\* The deliveries a receive of S begins.
Begun(S) == {d \in Delivery : d[1] \in S /\ d[2] = receives[d[1]] + 1}

LEMMA BegunFacts ==
    ASSUME PollerInv, NEW S \in SUBSET Messages
    PROVE  /\ \A d \in Begun(S) : stage[d] = "none" /\ host[d] = {}
           /\ IsFiniteSet(Begun(S))
           /\ Cardinality(Begun(S)) <= Cardinality(S)
<1>1. \A d \in Delivery : d[1] \in Messages /\ d[2] \in Nat /\ receives[d[1]] \in Nat
  BY PollerAssumption DEF PollerInv, TypeOK, Delivery
<1>2. \A d \in Begun(S) : stage[d] = "none" /\ host[d] = {}
  BY <1>1 DEF PollerInv, Fresh, Begun
<1>3. IsFiniteSet(S)
  BY FS_Subset, PollerAssumption
<1> DEFINE Could == {m \in S : receives[m] + 1 \in 1..MAX_RETRIES}
           g == [m \in Could |-> <<m, receives[m] + 1>>]
<1>4. IsFiniteSet(Could) /\ Cardinality(Could) <= Cardinality(S)
  BY <1>3, FS_Subset
<1>5. \A m \in Could : g[m] \in Begun(S)
  BY DEF Begun, Delivery
<1>6. \A d \in Begun(S) : \E m \in Could : g[m] = d
  <2> TAKE d \in Begun(S)
  <2>1. d[1] \in Could /\ d = <<d[1], receives[d[1]] + 1>>
    BY DEF Begun, Delivery
  <2> QED
    BY <2>1
<1>7. g \in Surjection(Could, Begun(S))
  BY <1>5, <1>6 DEF Surjection
<1>8. IsFiniteSet(Begun(S)) /\ Cardinality(Begun(S)) <= Cardinality(Could)
  BY <1>4, <1>7, FS_Surjection
<1>9. Cardinality(S) \in Nat /\ Cardinality(Could) \in Nat /\ Cardinality(Begun(S)) \in Nat
  BY <1>3, <1>4, <1>8, FS_CardinalityType
<1> QED
  BY <1>2, <1>4, <1>8, <1>9

LEMMA ServeStages ==
    ASSUME PollerInv, NEW t \in Tasks, NEW S \in SUBSET Messages, Serve(t, S)
    PROVE  /\ \A d \in Begun(S) : stage'[d] = "answered" /\ host'[d] = {t}
           /\ \A d \in Delivery \ Begun(S) : stage'[d] = stage[d] /\ host'[d] = host[d]
           /\ stage' \in [Delivery -> Stage] /\ host' \in [Delivery -> SUBSET Tasks]
BY DEF Serve, Begun, PollerInv, TypeOK, Stage

-------------------------------------------------------------------------------
(* The invariant is inductive.                                             *)

LEMMA InitInv == Init => PollerInv
<1> SUFFICES ASSUME Init PROVE PollerInv
  OBVIOUS
<1>1. TypeOK
  BY PollerAssumption DEF Init, TypeOK, Place, Stage, Loop, Phase
<1>2. Fresh /\ OneHost
  BY DEF Init, Fresh, OneHost
<1>3. \A t : AtWork(t) = {} /\ Answered(t) = {}
  BY DEF Init, AtWork, Answered, HostedBy
<1>4. \A t \in Tasks : SlotInv(t)
  BY <1>3, FS_EmptySet, PollerAssumption DEF Init, SlotInv
<1> QED
  BY <1>1, <1>2, <1>4 DEF PollerInv

\* Steps that touch neither stages, tasks, counts nor the loop.
LEMMA SteadyInv ==
    ASSUME PollerInv, TypeOK', UNCHANGED <<receives, stage, host, loopVars>>
    PROVE  PollerInv'
<1>1. Fresh' /\ OneHost'
  BY DEF PollerInv, Fresh, OneHost
<1>2. \A t \in Tasks : SlotInv(t)'
  BY DEF PollerInv, SlotInv, AtWork, Answered, HostedBy, loopVars
<1> QED
  BY <1>1, <1>2 DEF PollerInv

\* Steps of deliveries and loops give no delivery a task and begin none.
LEMMA StageFrame ==
    ASSUME PollerInv, TypeOK', UNCHANGED <<receives, host>>,
           \A d \in Delivery : stage[d] = "none" => stage'[d] = "none",
           \A t \in Tasks : SlotInv(t)'
    PROVE  PollerInv'
BY DEF PollerInv, Fresh, OneHost
LEMMA PollInv == ASSUME PollerInv, NEW t \in Tasks, Poll(t) PROVE PollerInv'
<1>0. poll[t] = "top" /\ inFlight[t] < MAX_CONCURRENCY /\ t \in Tasks /\ UNCHANGED <<queueVars, workVars, inFlight, endVars>>
  BY DEF Poll
<1>1. /\ poll' = [poll EXCEPT ![t] = "polling"]
      /\ room' = [room EXCEPT ![t] = Smaller(RECEIVE_BATCH, MAX_CONCURRENCY - inFlight[t])]
  BY DEF Poll
<1>2. /\ inFlight[t] \in Nat
      /\ Smaller(RECEIVE_BATCH, MAX_CONCURRENCY - inFlight[t]) \in 0..MAX_CONCURRENCY
      /\ inFlight[t] + Smaller(RECEIVE_BATCH, MAX_CONCURRENCY - inFlight[t]) <= MAX_CONCURRENCY
  BY <1>0, PollerAssumption DEF PollerInv, TypeOK, Smaller
<1>3. TypeOK'
  BY <1>0, <1>1, <1>2 DEF PollerInv, TypeOK, Loop, queueVars, workVars, endVars
<1>4. ASSUME NEW s \in Tasks PROVE SlotInv(s)'
  <2>1. AtWork(s)' = AtWork(s) /\ Answered(s)' = Answered(s)
    BY <1>0, SameWork DEF workVars
  <2>2. CASE s = t
    <3>1. poll'[t] = "polling" /\ room'[t] = Smaller(RECEIVE_BATCH, MAX_CONCURRENCY - inFlight[t])
      BY <1>1 DEF PollerInv, TypeOK
    <3>2. Answered(t) = {} /\ Cardinality(Answered(t)) = 0
      BY <1>0, FS_EmptySet DEF PollerInv, SlotInv
    <3> QED
      BY <1>0, <1>2, <2>1, <2>2, <3>1, <3>2 DEF PollerInv, SlotInv
  <2>3. CASE s # t
    BY <1>0, <1>1, <2>1, <2>3 DEF PollerInv, TypeOK, SlotInv
  <2> QED
    BY <2>2, <2>3
<1> QED
  BY <1>0, <1>3, <1>4, StageFrame DEF workVars, queueVars

\* The loop goes on or ends without an answer in hand.
LEMMA TurnInv ==
    ASSUME PollerInv, NEW t \in Tasks, EndLoop(t) \/ BackOff(t)
    PROVE  PollerInv'
<1>0. UNCHANGED <<queueVars, workVars, room, inFlight, endVars>> /\ poll[t] \in {"top", "backoff"}
  BY DEF EndLoop, BackOff
<1>1. PICK then \in {"top", "ended"} : poll' = [poll EXCEPT ![t] = then]
  BY DEF EndLoop, BackOff
<1>2. TypeOK'
  BY <1>0, <1>1 DEF PollerInv, TypeOK, Loop, queueVars, workVars, endVars
<1>3. ASSUME NEW s \in Tasks PROVE SlotInv(s)'
  <2>1. AtWork(s)' = AtWork(s) /\ Answered(s)' = Answered(s)
    BY <1>0, SameWork DEF workVars
  <2>2. poll'[s] # "answered" => Answered(s) = {}
    BY <1>0, <1>1 DEF PollerInv, TypeOK, SlotInv
  <2>3. poll'[s] \in {"polling", "answered"} => poll[s] \in {"polling", "answered"}
    BY <1>0, <1>1 DEF PollerInv, TypeOK
  <2> QED
    BY <1>0, <2>1, <2>2, <2>3 DEF PollerInv, SlotInv
<1> QED
  BY <1>0, <1>2, <1>3, StageFrame DEF workVars, queueVars

\* The answer fits the slots that were free when the receive was sent.
LEMMA ServeInv ==
    ASSUME PollerInv, NEW t \in Tasks, NEW S \in SUBSET Messages, Serve(t, S)
    PROVE  PollerInv'
<1>0. /\ poll[t] = "polling" /\ poll' = [poll EXCEPT ![t] = "answered"]
      /\ Cardinality(S) <= room[t]
      /\ UNCHANGED <<beat, room, inFlight, endVars>>
  BY DEF Serve
<1>1. \A m \in S : receives[m] < MAX_RETRIES
  BY DEF Serve
<1>2. /\ receives' = [m \in Messages |-> IF m \in S THEN receives[m] + 1 ELSE receives[m]]
      /\ place' = [m \in Messages |-> IF m \in S THEN "hidden" ELSE place[m]]
      /\ hidden' = [m \in Messages |-> IF m \in S THEN 2 * VISIBILITY ELSE hidden[m]]
  BY DEF Serve
<1>3. place' \in [Messages -> Place] /\ poll' \in [Tasks -> Loop]
  BY <1>0, <1>2 DEF PollerInv, TypeOK, Place, Loop
<1>4. receives' \in [Messages -> 0..MAX_RETRIES] /\ hidden' \in [Messages -> Nat]
  BY <1>1, <1>2, PollerAssumption DEF PollerInv, TypeOK
<1>5. TypeOK'
  BY <1>0, <1>3, <1>4, ServeStages DEF PollerInv, TypeOK, endVars
<1>6. \A d \in Delivery : d[1] \in Messages /\ d[2] \in Nat /\ receives[d[1]] \in Nat
  BY PollerAssumption DEF PollerInv, TypeOK, Delivery
<1>7. Fresh'
  <2> SUFFICES ASSUME NEW d \in Delivery, d[2] > receives'[d[1]]
               PROVE  stage'[d] = "none" /\ host'[d] = {}
    BY DEF Fresh
  <2>1. d[2] > receives[d[1]] /\ d \notin Begun(S)
    BY <1>2, <1>6 DEF Begun
  <2> QED
    BY <2>1, ServeStages DEF PollerInv, Fresh
<1>8. OneHost'
  BY ServeStages DEF PollerInv, OneHost
<1>9. ASSUME NEW s \in Tasks PROVE SlotInv(s)'
  <2>1. AtWork(s)' = AtWork(s)
    BY ServeStages, BegunFacts DEF AtWork, HostedBy
  <2>2. CASE s = t
    <3>1. Answered(t) = {}
      BY <1>0 DEF PollerInv, SlotInv
    <3>2. Answered(t)' = Begun(S)
      BY <3>1, ServeStages DEF Answered, HostedBy, Begun
    <3>3. IsFiniteSet(S)
      BY FS_Subset, PollerAssumption
    <3>4. Cardinality(Begun(S)) <= room[t]
      <4>1. IsFiniteSet(Begun(S)) /\ Cardinality(Begun(S)) <= Cardinality(S)
        BY BegunFacts
      <4>2. Cardinality(Begun(S)) \in Nat /\ Cardinality(S) \in Nat
        BY <3>3, <4>1, FS_CardinalityType
      <4>3. room[t] \in Nat
        BY PollerAssumption DEF PollerInv, TypeOK
      <4> QED
        BY <1>0, <4>1, <4>2, <4>3
    <3>5. poll'[t] = "answered"
      BY <1>0 DEF PollerInv, TypeOK
    <3> QED
      BY <1>0, <2>1, <2>2, <3>2, <3>4, <3>5 DEF PollerInv, SlotInv
  <2>3. CASE s # t
    <3>1. Answered(s)' = Answered(s)
      BY <2>3, ServeStages, BegunFacts DEF Answered, HostedBy
    <3> QED
      BY <1>0, <2>1, <2>3, <3>1 DEF PollerInv, TypeOK, SlotInv
  <2> QED
    BY <2>2, <2>3
<1> QED
  BY <1>5, <1>7, <1>8, <1>9 DEF PollerInv

\* Dispatch takes the slots the receive was sized for.
LEMMA DispatchInv == ASSUME PollerInv, NEW t \in Tasks, Dispatch(t) PROVE PollerInv'
<1>0. /\ poll[t] = "answered"
      /\ poll' = [poll EXCEPT ![t] = "top"] /\ room' = [room EXCEPT ![t] = 0]
      /\ inFlight' = [inFlight EXCEPT ![t] = @ + Cardinality(Answered(t))]
      /\ UNCHANGED <<queueVars, host, endVars>>
  BY DEF Dispatch
<1>1. /\ stage' = [d \in Delivery |-> IF d \in Answered(t) THEN "working" ELSE stage[d]]
      /\ beat' = [d \in Delivery |-> IF d \in Answered(t) THEN INTERVAL ELSE beat[d]]
  BY DEF Dispatch
<1>2. TypeOK'
  <2>1. stage' \in [Delivery -> Stage] /\ poll' \in [Tasks -> Loop]
    BY <1>0, <1>1 DEF PollerInv, TypeOK, Stage, Loop
  <2>2. beat' \in [Delivery -> Nat]
    BY <1>1, PollerAssumption DEF PollerInv, TypeOK
  <2>3. inFlight' \in [Tasks -> Nat] /\ room' \in [Tasks -> 0..MAX_CONCURRENCY]
    BY <1>0, Counts, PollerAssumption DEF PollerInv, TypeOK
  <2> QED
    BY <1>0, <2>1, <2>2, <2>3 DEF PollerInv, TypeOK, queueVars, endVars
<1>3. ASSUME NEW s \in Tasks PROVE SlotInv(s)'
  <2>1. CASE s = t
    <3>0. AtWork(t) \cap Answered(t) = {}
      BY DEF AtWork, Answered
    <3>1. AtWork(t)' = AtWork(t) \cup Answered(t) /\ Answered(t)' = {}
      <4>1. HostedBy(t)' = HostedBy(t)
        BY <1>0 DEF HostedBy
      <4>2. \A d \in HostedBy(t) : stage'[d] = IF stage[d] = "answered" THEN "working" ELSE stage[d]
        BY <1>1 DEF HostedBy, Answered
      <4> QED
        BY <4>1, <4>2 DEF AtWork, Answered
    <3>2. Cardinality(AtWork(t)') = Cardinality(AtWork(t)) + Cardinality(Answered(t))
      BY <3>0, <3>1, DeliveryFinite, Counts, FS_Union, FS_EmptySet
    <3>3. poll'[t] = "top" /\ room'[t] = 0 /\ inFlight'[t] = inFlight[t] + Cardinality(Answered(t))
      BY <1>0 DEF PollerInv, TypeOK
    <3>4. inFlight[t] \in Nat /\ room[t] \in Nat /\ inFlight[t] + room[t] <= MAX_CONCURRENCY
          /\ Cardinality(Answered(t)) <= room[t] /\ inFlight[t] = Cardinality(AtWork(t))
      BY <1>0, PollerAssumption DEF PollerInv, TypeOK, SlotInv
    <3>5. inFlight'[t] <= MAX_CONCURRENCY
      BY <3>3, <3>4, Counts, PollerAssumption
    <3> QED
      BY <2>1, <3>1, <3>2, <3>3, <3>4, <3>5, FS_EmptySet DEF SlotInv
  <2>2. CASE s # t
    <3>1. \A d \in HostedBy(s) : d \notin Answered(t)
      BY <2>2 DEF HostedBy, Answered, PollerInv, OneHost
    <3>2. AtWork(s)' = AtWork(s) /\ Answered(s)' = Answered(s)
      BY <1>0, <1>1, <3>1, SameWork DEF HostedBy
    <3> QED
      BY <1>0, <2>2, <3>2 DEF PollerInv, TypeOK, SlotInv
  <2> QED
    BY <2>1, <2>2
<1>4. \A d \in Delivery : stage[d] = "none" => stage'[d] = "none"
  BY <1>1 DEF Answered
<1> QED
  BY <1>0, <1>2, <1>3, <1>4, StageFrame DEF queueVars

\* A rejected receive has taken no slot.
LEMMA ReceiveFailsInv == ASSUME PollerInv, NEW t \in Tasks, ReceiveFails(t) PROVE PollerInv'
<1>0. /\ poll' = [poll EXCEPT ![t] = "backoff"] /\ room' = [room EXCEPT ![t] = 0]
      /\ stage' = [d \in Delivery |-> IF d \in Answered(t) THEN "lost" ELSE stage[d]]
      /\ UNCHANGED <<queueVars, host, beat, inFlight, endVars>>
  BY DEF ReceiveFails
<1>2. TypeOK'
  <2>1. stage' \in [Delivery -> Stage] /\ poll' \in [Tasks -> Loop]
    BY <1>0 DEF PollerInv, TypeOK, Stage, Loop
  <2>2. room' \in [Tasks -> 0..MAX_CONCURRENCY]
    BY <1>0, PollerAssumption DEF PollerInv, TypeOK
  <2> QED
    BY <1>0, <2>1, <2>2 DEF PollerInv, TypeOK, queueVars, endVars
<1>3. ASSUME NEW s \in Tasks PROVE SlotInv(s)'
  <2>1. AtWork(s)' = AtWork(s)
    BY <1>0 DEF AtWork, Answered, HostedBy
  <2>2. CASE s = t
    <3>1. Answered(t)' = {}
      BY <1>0 DEF Answered, HostedBy
    <3>2. poll'[t] = "backoff" /\ room'[t] = 0
      BY <1>0 DEF PollerInv, TypeOK
    <3> QED
      BY <1>0, <2>1, <2>2, <3>1, <3>2, FS_EmptySet DEF PollerInv, SlotInv
  <2>3. CASE s # t
    <3>1. \A d \in HostedBy(s) : d \notin Answered(t)
      BY <2>3 DEF HostedBy, Answered, PollerInv, OneHost
    <3>2. Answered(s)' = Answered(s)
      BY <1>0, <3>1, SameWork DEF HostedBy
    <3> QED
      BY <1>0, <2>1, <2>3, <3>2 DEF PollerInv, TypeOK, SlotInv
  <2> QED
    BY <2>2, <2>3
<1>4. \A d \in Delivery : stage[d] = "none" => stage'[d] = "none"
  BY <1>0 DEF Answered
<1> QED
  BY <1>0, <1>2, <1>3, <1>4, StageFrame DEF queueVars
\* A delivery that settles was at work, and gives back its own slot.
LEMMA SettleInv ==
    ASSUME PollerInv, NEW d \in Delivery, NEW t \in Tasks, DeliveryStep(d, t)
    PROVE  PollerInv' /\ AtWork(t)' = AtWork(t) \ {d}
<1>0. Settle(d, t) /\ d \in AtWork(t) /\ receives' = receives
  BY DEF DeliveryStep, WorkerFails, TimesOut, Delete, Vanish, queueVars, Settle, AtWork, HostedBy
<1>1. /\ stage' = [stage EXCEPT ![d] = "over"] /\ beat' = [beat EXCEPT ![d] = 0]
      /\ inFlight' = [inFlight EXCEPT ![t] = @ - 1]
      /\ drain' = IF inFlight[t] = 1 /\ drain[t] = "waiting"
                  THEN [drain EXCEPT ![t] = "settled"]
                  ELSE drain
      /\ UNCHANGED <<host, poll, room, running, phase>>
  BY <1>0 DEF Settle, Enter, ReleaseSlot
<1>2. AtWork(t)' = AtWork(t) \ {d}
  BY <1>1 DEF AtWork, HostedBy, PollerInv, TypeOK
<1>3. Cardinality(AtWork(t)') = Cardinality(AtWork(t)) - 1
  BY <1>0, <1>2, DeliveryFinite, FS_RemoveElement
<1>4. Cardinality(AtWork(t)') \in Nat
  BY <1>2, DeliveryFinite, FS_RemoveElement, FS_CardinalityType
<1>5. inFlight[t] = Cardinality(AtWork(t)) /\ inFlight[t] \in Nat /\ inFlight[t] - 1 \in Nat
  BY <1>3, <1>4, Counts DEF PollerInv, SlotInv
<1>6. TypeOK'
  <2>1. place' \in [Messages -> Place] /\ hidden' \in [Messages -> Nat]
    BY DEF DeliveryStep, WorkerFails, TimesOut, Delete, Vanish, queueVars, PollerInv, TypeOK, Place
  <2>2. stage' \in [Delivery -> Stage] /\ beat' \in [Delivery -> Nat]
    BY <1>1 DEF PollerInv, TypeOK, Stage
  <2>3. inFlight' \in [Tasks -> Nat]
    BY <1>1, <1>5 DEF PollerInv, TypeOK
  <2>4. drain' \in [Tasks -> {"none", "waiting", "settled"}]
    BY <1>1 DEF PollerInv, TypeOK
  <2> QED
    BY <1>0, <1>1, <2>1, <2>2, <2>3, <2>4 DEF PollerInv, TypeOK
<1>7. ASSUME NEW s \in Tasks PROVE SlotInv(s)'
  <2>1. Answered(s)' = Answered(s)
    BY <1>0, <1>1 DEF Answered, AtWork, HostedBy, PollerInv, TypeOK
  <2>2. CASE s = t
    <3>1. inFlight'[t] = inFlight[t] - 1
      BY <1>1 DEF PollerInv, TypeOK
    <3>2. room[t] \in Nat
      BY PollerAssumption DEF PollerInv, TypeOK
    <3>3. inFlight'[t] = Cardinality(AtWork(t)')
      BY <1>3, <1>5, <3>1
    <3>4. inFlight'[t] <= MAX_CONCURRENCY
      BY <1>5, <3>1, PollerAssumption DEF PollerInv, SlotInv
    <3>5. poll[t] \in {"polling", "answered"} => inFlight'[t] + room[t] <= MAX_CONCURRENCY
      BY <1>5, <3>1, <3>2, PollerAssumption DEF PollerInv, SlotInv
    <3> QED
      BY <1>1, <2>1, <2>2, <3>3, <3>4, <3>5 DEF PollerInv, SlotInv
  <2>3. CASE s # t
    <3>1. d \notin HostedBy(s)
      BY <1>0, <2>3 DEF AtWork, HostedBy, PollerInv, OneHost
    <3>2. AtWork(s)' = AtWork(s)
      BY <1>1, <3>1 DEF AtWork, HostedBy, PollerInv, TypeOK
    <3>3. inFlight'[s] = inFlight[s]
      BY <1>1, <2>3 DEF PollerInv, TypeOK
    <3> QED
      BY <1>1, <2>1, <3>2, <3>3 DEF PollerInv, SlotInv
  <2> QED
    BY <2>2, <2>3
<1>8. \A e \in Delivery : stage[e] = "none" => stage'[e] = "none"
  BY <1>0, <1>1 DEF AtWork, PollerInv, TypeOK
<1> QED
  BY <1>0, <1>1, <1>2, <1>6, <1>7, <1>8, StageFrame

\* A worker that has ended or whose reply arrived still holds its slot.
LEMMA ReplyInv ==
    ASSUME PollerInv, NEW d \in Delivery, HandlerEnds(d) \/ Reply(d)
    PROVE  PollerInv'
<1>1. PICK to \in {"replied", "succeeded"} :
           stage[d] \in {"working", "replied"} /\ stage' = [stage EXCEPT ![d] = to]
  BY DEF HandlerEnds, Reply, Enter
<1>2. UNCHANGED <<queueVars, host, loopVars, endVars>> /\ beat' \in [Delivery -> Nat]
  BY DEF HandlerEnds, Reply, PollerInv, TypeOK
<1>3. TypeOK'
  BY <1>1, <1>2 DEF PollerInv, TypeOK, Stage, queueVars, loopVars, endVars
<1>4. ASSUME NEW s \in Tasks PROVE SlotInv(s)'
  <2>1. AtWork(s)' = AtWork(s) /\ Answered(s)' = Answered(s)
    BY <1>1, <1>2, SameWork DEF AtWorkStage, HostedBy, PollerInv, TypeOK
  <2> QED
    BY <1>2, <2>1 DEF PollerInv, SlotInv, loopVars
<1>5. \A e \in Delivery : stage[e] = "none" => stage'[e] = "none"
  BY <1>1 DEF PollerInv, TypeOK
<1> QED
  BY <1>2, <1>3, <1>4, <1>5, StageFrame DEF queueVars

LEMMA HeartbeatInv == ASSUME PollerInv, NEW d \in Delivery, Heartbeat(d) PROVE PollerInv'
<1>1. UNCHANGED <<place, receives, stage, host, loopVars, endVars>>
  BY DEF Heartbeat
<1>2. beat' \in [Delivery -> Nat] /\ hidden' \in [Messages -> Nat]
  BY PollerAssumption DEF Heartbeat, PollerInv, TypeOK
<1>3. TypeOK'
  BY <1>1, <1>2 DEF PollerInv, TypeOK, loopVars, endVars
<1> QED
  BY <1>1, <1>3, SteadyInv

LEMMA QueueInv ==
    ASSUME PollerInv, Tick \/ \E m \in Messages : Lapse(m) \/ Redrive(m)
    PROVE  PollerInv'
<1>1. UNCHANGED <<receives, stage, host, loopVars, endVars>>
  BY DEF Tick, Lapse, Redrive, workVars
<1>2. beat' \in [Delivery -> Nat] /\ hidden' \in [Messages -> Nat]
  BY DEF Tick, Lapse, Redrive, workVars, PollerInv, TypeOK
<1>3. place' \in [Messages -> Place]
  BY DEF Tick, Lapse, Redrive, PollerInv, TypeOK, Place
<1>4. TypeOK'
  BY <1>1, <1>2, <1>3 DEF PollerInv, TypeOK, loopVars, endVars
<1> QED
  BY <1>1, <1>4, SteadyInv

LEMMA EndInv ==
    ASSUME PollerInv, NEW t \in Tasks, Stop(t) \/ Exit(t) \/ \E g \in BOOLEAN : Resolve(t, g)
    PROVE  PollerInv'
<1>1. UNCHANGED <<queueVars, workVars, loopVars>>
  BY DEF Stop, Exit, Resolve
<1>2. /\ running' \in [Tasks -> BOOLEAN]
      /\ drain' \in [Tasks -> {"none", "waiting", "settled"}]
      /\ phase' \in [Tasks -> Phase]
  <2>1. CASE Stop(t)
    BY <2>1 DEF Stop, PollerInv, TypeOK, Phase
  <2>2. CASE Exit(t) \/ \E g \in BOOLEAN : Resolve(t, g)
    BY <2>2 DEF Exit, Resolve, PollerInv, TypeOK, Phase
  <2> QED
    BY <2>1, <2>2
<1>3. TypeOK'
  BY <1>1, <1>2 DEF PollerInv, TypeOK, queueVars, workVars, loopVars
<1> QED
  BY <1>1, <1>3, SteadyInv DEF queueVars, workVars

\* A task that dies leaves nothing at work.
LEMMA KillInv == ASSUME PollerInv, NEW t \in Tasks, Kill(t) PROVE PollerInv'
<1>0. /\ stage' = [d \in Delivery |-> IF d \in AtWork(t) \cup Answered(t) THEN "lost" ELSE stage[d]]
      /\ beat' = [d \in Delivery |-> IF t \in host[d] THEN 0 ELSE beat[d]]
      /\ poll' = [poll EXCEPT ![t] = "ended"]
      /\ room' = [room EXCEPT ![t] = 0]
      /\ inFlight' = [inFlight EXCEPT ![t] = 0]
      /\ phase' = [phase EXCEPT ![t] = "killed"]
      /\ UNCHANGED <<queueVars, host, running, drain>>
  BY DEF Kill
<1>1. TypeOK'
  <2>1. stage' \in [Delivery -> Stage] /\ poll' \in [Tasks -> Loop] /\ phase' \in [Tasks -> Phase]
    BY <1>0 DEF PollerInv, TypeOK, Stage, Loop, Phase
  <2>2. beat' \in [Delivery -> Nat] /\ inFlight' \in [Tasks -> Nat]
    BY <1>0 DEF PollerInv, TypeOK
  <2>3. room' \in [Tasks -> 0..MAX_CONCURRENCY]
    BY <1>0, PollerAssumption DEF PollerInv, TypeOK
  <2> QED
    BY <1>0, <2>1, <2>2, <2>3 DEF PollerInv, TypeOK, queueVars
<1>2. ASSUME NEW s \in Tasks PROVE SlotInv(s)'
  <2>1. CASE s = t
    <3>1. AtWork(t)' = {} /\ Answered(t)' = {}
      BY <1>0 DEF AtWork, Answered, HostedBy
    <3>2. poll'[t] = "ended" /\ room'[t] = 0 /\ inFlight'[t] = 0
      BY <1>0 DEF PollerInv, TypeOK
    <3> QED
      BY <2>1, <3>1, <3>2, FS_EmptySet, PollerAssumption DEF SlotInv
  <2>2. CASE s # t
    <3>1. \A d \in HostedBy(s) : d \notin AtWork(t) \cup Answered(t)
      BY <2>2 DEF HostedBy, AtWork, Answered, PollerInv, OneHost
    <3>2. AtWork(s)' = AtWork(s) /\ Answered(s)' = Answered(s)
      BY <1>0, <3>1, SameWork DEF HostedBy
    <3> QED
      BY <1>0, <2>2, <3>2 DEF PollerInv, TypeOK, SlotInv
  <2> QED
    BY <2>1, <2>2
<1>3. \A d \in Delivery : stage[d] = "none" => stage'[d] = "none"
  BY <1>0 DEF AtWork, Answered
<1> QED
  BY <1>0, <1>1, <1>2, <1>3, StageFrame DEF queueVars

LEMMA StepInv == PollerInv /\ [Next]_vars => PollerInv'
<1> SUFFICES ASSUME PollerInv, [Next]_vars PROVE PollerInv'
  OBVIOUS
<1>1. ASSUME NEW t \in Tasks, LoopStep(t) \/ ReceiveFails(t) PROVE PollerInv'
  BY <1>1, PollInv, TurnInv, ServeInv, DispatchInv, ReceiveFailsInv DEF LoopStep
<1>2. ASSUME NEW t \in Tasks, Stop(t) \/ Exit(t) \/ Kill(t) \/ \E g \in BOOLEAN : Resolve(t, g)
      PROVE  PollerInv'
  BY <1>2, EndInv, KillInv
<1>3. ASSUME NEW t \in Tasks, NEW d \in Delivery, DeliveryStep(d, t) PROVE PollerInv'
  BY <1>3, SettleInv
<1>4. ASSUME NEW d \in Delivery, HandlerEnds(d) \/ Reply(d) \/ Heartbeat(d) PROVE PollerInv'
  BY <1>4, ReplyInv, HeartbeatInv
<1>5. CASE Tick \/ \E m \in Messages : Lapse(m) \/ Redrive(m)
  BY <1>5, QueueInv
<1>6. CASE UNCHANGED vars
  <2>1. TypeOK'
    BY <1>6 DEF vars, queueVars, workVars, loopVars, endVars, PollerInv, TypeOK
  <2> QED
    BY <1>6, <2>1, SteadyInv DEF vars, queueVars, workVars
<1> QED
  BY <1>1, <1>2, <1>3, <1>4, <1>5, <1>6 DEF Next

\* Every reachable state is well typed, no message is handed to two tasks in one receive,
\* and a task's slots cover what it runs and what it asked for.
THEOREM PollerInvariant == Spec => []PollerInv
BY InitInv, StepInv, PTL DEF Spec

\* A slot is in use for every worker and for nothing else, so none leaks, however calls
\* fail, workers die and tasks stop (index.aws.ts releaseSlot, handleMessage).
THEOREM SlotsNeverLeak == Spec => []SlotsAccounted
<1>1. PollerInv => SlotsAccounted
  BY DEF PollerInv, SlotInv, SlotsAccounted
<1> QED
  BY <1>1, PollerInvariant, PTL

\* The concurrency limit holds although it is read before a receive of twenty seconds
\* and used after it (index.aws.ts registerContainerPoller).
THEOREM SlotsNeverExceeded == Spec => []SlotsBounded
<1>1. ASSUME PollerInv, NEW t \in Tasks
      PROVE  Cardinality(AtWork(t)) + Cardinality(Answered(t)) <= MAX_CONCURRENCY
  <2>1. /\ inFlight[t] = Cardinality(AtWork(t)) /\ inFlight[t] <= MAX_CONCURRENCY
        /\ Cardinality(Answered(t)) <= room[t] /\ room[t] \in Nat
    BY <1>1, PollerAssumption DEF PollerInv, TypeOK, SlotInv
  <2>2. CASE poll[t] = "answered"
    BY <1>1, <2>1, <2>2, Counts, PollerAssumption DEF PollerInv, SlotInv
  <2>3. CASE poll[t] # "answered"
    BY <1>1, <2>1, <2>3, Counts, FS_EmptySet, PollerAssumption DEF PollerInv, SlotInv
  <2> QED
    BY <2>2, <2>3
<1>2. PollerInv => SlotsBounded
  BY <1>1 DEF SlotsBounded
<1> QED
  BY <1>2, PollerInvariant, PTL
\* The drain promise settles only when the task has no worker left, so a task that is told
\* to stop does not abandon work it could finish (index.aws.ts whenDrained, releaseSlot).
THEOREM DrainWaits == Spec => DrainSettlesIdle
<1>1. ASSUME PollerInv, [Next]_vars, NEW t \in Tasks, drain'[t] = "settled", drain[t] # "settled"
      PROVE  AtWork(t)' = {}
  <2>1. CASE Stop(t)
    <3>1. inFlight[t] = 0
      BY <1>1, <2>1 DEF Stop, PollerInv, TypeOK
    <3>2. AtWork(t) = {}
      BY <1>1, <3>1, DeliveryFinite, FS_EmptySet DEF PollerInv, SlotInv
    <3> QED
      BY <2>1, <3>2 DEF Stop, workVars, AtWork, HostedBy
  <2>2. ASSUME NEW d \in Delivery, DeliveryStep(d, t) PROVE AtWork(t)' = {}
    <3>1. d \in AtWork(t) /\ AtWork(t)' = AtWork(t) \ {d}
      BY <1>1, <2>2, SettleInv
         DEF DeliveryStep, WorkerFails, TimesOut, Delete, Settle, AtWork, HostedBy
    <3>2. inFlight[t] = 1
      BY <1>1, <2>2
         DEF DeliveryStep, WorkerFails, TimesOut, Delete, Settle, ReleaseSlot, PollerInv, TypeOK
    <3>3. Cardinality(AtWork(t)) = 1
      BY <1>1, <3>2 DEF PollerInv, SlotInv
    <3>4. \E e : AtWork(t) = {e}
      BY <3>3, DeliveryFinite, FS_Singleton
    <3> QED
      BY <3>1, <3>4
  <2>3. ASSUME NEW s \in Tasks, s # t, Stop(s) \/ \E d \in Delivery : DeliveryStep(d, s) PROVE FALSE
    BY <1>1, <2>3
       DEF Stop, DeliveryStep, WorkerFails, TimesOut, Delete, Settle, ReleaseSlot, PollerInv, TypeOK
  <2>4. ASSUME UNCHANGED drain PROVE FALSE
    BY <1>1, <2>4
  <2>5. ASSUME NEW s \in Tasks, LoopStep(s) \/ ReceiveFails(s) \/ Exit(s) \/ Kill(s)
                                \/ \E g \in BOOLEAN : Resolve(s, g)
        PROVE  FALSE
    BY <2>4, <2>5
       DEF LoopStep, Poll, EndLoop, Dispatch, BackOff, Serve, ReceiveFails, Exit, Kill, Resolve, endVars
  <2>6. ASSUME NEW d \in Delivery, HandlerEnds(d) \/ Reply(d) \/ Heartbeat(d) PROVE FALSE
    BY <2>4, <2>6 DEF HandlerEnds, Reply, Heartbeat, endVars
  <2>7. CASE Tick \/ (\E m \in Messages : Lapse(m) \/ Redrive(m)) \/ UNCHANGED vars
    BY <2>4, <2>7 DEF Tick, Lapse, Redrive, vars, endVars
  <2> QED
    BY <1>1, <2>1, <2>2, <2>3, <2>5, <2>6, <2>7 DEF Next
<1>2. PollerInv /\ [Next]_vars
        => [\A t \in Tasks : drain'[t] = "settled" /\ drain[t] # "settled" => AtWork(t)' = {}]_vars
  BY <1>1
<1> QED
  BY <1>2, PollerInvariant, PTL DEF Spec, DrainSettlesIdle

-------------------------------------------------------------------------------
(* One handler at a time.                                                  *)

\* While a delivery is in a task's hands its receipt handle is the latest, and its message
\* stays hidden beyond the next heartbeat, or is gone.
Held(d) == stage[d] \in {"answered", "working", "replied"}

HeldInv ==
    \A d \in Delivery : Held(d) =>
        /\ Latest(d)
        /\ \/ place[d[1]] = "deleted"
           \/ /\ place[d[1]] = "hidden"
              /\ hidden[d[1]] > IF stage[d] = "answered" THEN INTERVAL ELSE beat[d]

\* The heartbeat is faster than the window it renews, and no extension is lost.
Renewed == VISIBILITY > INTERVAL /\ ~ExtensionErrors

LEMMA DeliveryPair ==
    ASSUME TypeOK
    PROVE  \A d \in Delivery : /\ d[1] \in Messages /\ d[2] \in Nat /\ d = <<d[1], d[2]>>
                               /\ receives[d[1]] \in Nat /\ hidden[d[1]] \in Nat /\ beat[d] \in Nat
                               /\ place[d[1]] \in Place /\ stage[d] \in Stage
BY PollerAssumption DEF TypeOK, Delivery

\* Two deliveries of a message are never held together.
LEMMA OneHeld ==
    ASSUME PollerInv, HeldInv, NEW d \in Delivery, NEW e \in Delivery, d[1] = e[1], Held(d), Held(e)
    PROVE  d = e
BY DeliveryPair DEF PollerInv, HeldInv, Latest

\* Steps that keep messages, and hold no delivery that was not held.
LEMMA HeldFrame ==
    ASSUME HeldInv, UNCHANGED queueVars,
           \A d \in Delivery : stage'[d] \in {"answered", "working", "replied"} =>
               /\ Held(d)
               /\ stage'[d] = stage[d] \/ (stage[d] \in {"working", "replied"} /\ stage'[d] # "answered")
               /\ beat'[d] = beat[d]
    PROVE  HeldInv'
BY DEF HeldInv, Held, Latest, queueVars

LEMMA HeldLoop ==
    ASSUME PollerInv, HeldInv, Renewed, NEW t \in Tasks,
           LoopStep(t) \/ ReceiveFails(t) \/ Stop(t) \/ Exit(t) \/ Kill(t)
           \/ \E g \in BOOLEAN : Resolve(t, g)
    PROVE  HeldInv'
<1>1. CASE Poll(t) \/ EndLoop(t) \/ BackOff(t) \/ Stop(t) \/ Exit(t) \/ \E g \in BOOLEAN : Resolve(t, g)
  BY <1>1, HeldFrame DEF Poll, EndLoop, BackOff, Stop, Exit, Resolve, workVars, Held
<1>2. ASSUME NEW S \in SUBSET Messages, Serve(t, S) PROVE HeldInv'
  <2>1. /\ receives' = [m \in Messages |-> IF m \in S THEN receives[m] + 1 ELSE receives[m]]
        /\ place' = [m \in Messages |-> IF m \in S THEN "hidden" ELSE place[m]]
        /\ hidden' = [m \in Messages |-> IF m \in S THEN 2 * VISIBILITY ELSE hidden[m]]
        /\ beat' = beat /\ \A m \in S : place[m] = "visible"
    BY <1>2 DEF Serve
  <2>2. ASSUME NEW d \in Begun(S) PROVE Latest(d)' /\ place'[d[1]] = "hidden" /\ hidden'[d[1]] > INTERVAL
    BY <2>1, <2>2, PollerAssumption DEF Begun, Latest, Delivery, Renewed
  <2>3. ASSUME NEW d \in Delivery \ Begun(S), Held(d)' PROVE Held(d) /\ d[1] \notin S
    BY <1>2, <2>1, <2>3, ServeStages DEF Held, HeldInv
  <2>4. ASSUME NEW d \in Delivery \ Begun(S), Held(d)'
        PROVE  /\ receives'[d[1]] = receives[d[1]] /\ place'[d[1]] = place[d[1]]
               /\ hidden'[d[1]] = hidden[d[1]] /\ stage'[d] = stage[d] /\ beat'[d] = beat[d]
    BY <1>2, <2>1, <2>3, <2>4, ServeStages, DeliveryPair DEF PollerInv
  <2> QED
    BY <1>2, <2>2, <2>3, <2>4, ServeStages DEF HeldInv, Latest, Begun
<1>3. CASE Dispatch(t)
  <2>1. /\ stage' = [d \in Delivery |-> IF d \in Answered(t) THEN "working" ELSE stage[d]]
        /\ beat' = [d \in Delivery |-> IF d \in Answered(t) THEN INTERVAL ELSE beat[d]]
        /\ UNCHANGED queueVars
    BY <1>3 DEF Dispatch
  <2>2. \A d \in Answered(t) : d \in Delivery /\ stage[d] = "answered"
    BY DEF Answered, HostedBy
  <2> QED
    BY <2>1, <2>2 DEF HeldInv, Held, Latest, queueVars
<1>4. CASE ReceiveFails(t) \/ Kill(t)
  <2>1. /\ UNCHANGED queueVars
        /\ \A d \in Delivery : stage'[d] = stage[d] \/ stage'[d] = "lost"
    BY <1>4 DEF ReceiveFails, Kill
  <2>2. ASSUME NEW d \in Delivery, stage'[d] # "lost", Held(d) PROVE beat'[d] = beat[d]
    BY <1>4, <2>2 DEF ReceiveFails, Kill, Held, AtWork, Answered, HostedBy, PollerInv, TypeOK
  <2> QED
    BY <2>1, <2>2, HeldFrame DEF Held
<1> QED
  BY <1>1, <1>2, <1>3, <1>4 DEF LoopStep

LEMMA HeldDelivery ==
    ASSUME PollerInv, HeldInv, Renewed, NEW d \in Delivery,
           HandlerEnds(d) \/ Reply(d) \/ Heartbeat(d) \/ \E t \in Tasks : DeliveryStep(d, t)
    PROVE  HeldInv'
<1>1. CASE HandlerEnds(d)
  BY <1>1, HeldFrame DEF HandlerEnds, Enter, Held, PollerInv, TypeOK
<1>2. CASE Reply(d)
  BY <1>2, HeldFrame DEF Reply, Enter, Held, PollerInv, TypeOK
<1>3. CASE Heartbeat(d)
  <2>1. /\ stage[d] \in {"working", "replied"} /\ beat' = [beat EXCEPT ![d] = INTERVAL]
        /\ UNCHANGED <<place, receives, stage>>
        /\ \/ place[d[1]] = "hidden" /\ hidden' = [hidden EXCEPT ![d[1]] = VISIBILITY]
           \/ (~Latest(d) \/ place[d[1]] # "hidden") /\ UNCHANGED hidden
    BY <1>3 DEF Heartbeat, Renewed
  <2>2. Held(d) /\ Latest(d)
    BY <2>1 DEF HeldInv, Held
  <2>3. ASSUME NEW e \in Delivery, e # d, Held(e) PROVE beat'[e] = beat[e] /\ hidden'[e[1]] = hidden[e[1]]
    <3>1. e[1] # d[1]
      BY <2>2, <2>3, OneHeld
    <3> QED
      BY <2>1, <2>3, <3>1, DeliveryPair DEF PollerInv, TypeOK
  <2>4. place[d[1]] = "deleted" \/ (place[d[1]] = "hidden" /\ hidden'[d[1]] > beat'[d])
    BY <2>1, <2>2, PollerAssumption, DeliveryPair DEF HeldInv, PollerInv, TypeOK, Renewed
  <2> QED
    BY <2>1, <2>2, <2>3, <2>4 DEF HeldInv, Held, Latest
<1>4. ASSUME NEW t \in Tasks, DeliveryStep(d, t) PROVE HeldInv'
  <2>1. /\ stage' = [stage EXCEPT ![d] = "over"] /\ beat' = [beat EXCEPT ![d] = 0]
        /\ receives' = receives
        /\ UNCHANGED queueVars \/ Vanish(d[1])
    BY <1>4 DEF DeliveryStep, WorkerFails, TimesOut, Delete, Settle, Enter, Vanish, queueVars
  <2>2. ASSUME NEW e \in Delivery, Held(e)'
        PROVE  Held(e) /\ stage'[e] = stage[e] /\ beat'[e] = beat[e]
    BY <2>1, <2>2 DEF Held, PollerInv, TypeOK
  <2>3. ASSUME NEW e \in Delivery, Held(e)'
        PROVE  \/ place'[e[1]] = "deleted"
               \/ place'[e[1]] = place[e[1]] /\ hidden'[e[1]] = hidden[e[1]]
    <3>1. place[e[1]] # "dead"
      BY <2>2, <2>3 DEF HeldInv
    <3> QED
      BY <2>1, <3>1, DeliveryPair DEF Vanish, queueVars, PollerInv, TypeOK
  <2> QED
    BY <2>1, <2>2, <2>3 DEF HeldInv, Latest
<1> QED
  BY <1>1, <1>2, <1>3, <1>4

LEMMA HeldQueue ==
    ASSUME PollerInv, HeldInv, Tick \/ \E m \in Messages : Lapse(m) \/ Redrive(m)
    PROVE  HeldInv'
<1>1. UNCHANGED <<receives, stage>>
  BY DEF Tick, Lapse, Redrive, workVars
<1>2. ASSUME NEW m \in Messages, Lapse(m) \/ Redrive(m) PROVE HeldInv'
  <2>1. UNCHANGED <<hidden, beat>>
    BY <1>2 DEF Lapse, Redrive, workVars
  <2>2. ASSUME NEW d \in Delivery, Held(d) PROVE d[1] # m \/ place[m] = "deleted"
    <3>1. hidden[d[1]] > 0 \/ place[d[1]] = "deleted"
      BY <2>2, DeliveryPair, PollerAssumption DEF HeldInv, PollerInv
    <3>2. place[d[1]] \in {"hidden", "deleted"}
      BY <2>2 DEF HeldInv
    <3> QED
      BY <1>2, <3>1, <3>2 DEF Lapse, Redrive
  <2>3. ASSUME NEW d \in Delivery, Held(d) PROVE place'[d[1]] = place[d[1]]
    BY <1>2, <2>2, <2>3, DeliveryPair DEF Lapse, Redrive, PollerInv, TypeOK
  <2> QED
    BY <1>1, <2>1, <2>3 DEF HeldInv, Held, Latest
<1>3. CASE Tick
  <2>1. /\ hidden' = [m \in Messages |-> IF hidden[m] > 0 THEN hidden[m] - 1 ELSE 0]
        /\ beat' = [d \in Delivery |-> IF beat[d] > 0 THEN beat[d] - 1 ELSE 0]
        /\ place' = place
        /\ \A d \in Delivery : Held(d) => stage[d] # "answered" /\ beat[d] > 0
    BY <1>3 DEF Tick, Held
  <2>2. ASSUME NEW d \in Delivery, Held(d), hidden[d[1]] > beat[d] PROVE hidden'[d[1]] > beat'[d]
    BY <2>1, <2>2, DeliveryPair DEF PollerInv
  <2> QED
    BY <1>1, <2>1, <2>2 DEF HeldInv, Held, Latest
<1> QED
  BY <1>2, <1>3

\* While no extension fails, two handlers never run for one message, whatever tasks stop or
\* die, provided the heartbeat is faster than the window (index.aws.ts
\* withVisibilityHeartbeat).
THEOREM OneHandlerEver == Renewed /\ Spec => []OneHandlerAtATime
<1>1. Init => HeldInv
  BY DEF Init, HeldInv, Held
<1>2. Renewed /\ PollerInv /\ HeldInv /\ [Next]_vars => HeldInv'
  <2> SUFFICES ASSUME Renewed, PollerInv, HeldInv, [Next]_vars PROVE HeldInv'
    OBVIOUS
  <2>1. CASE UNCHANGED vars
    BY <2>1, HeldFrame DEF vars, workVars, Held
  <2> QED
    BY <2>1, HeldLoop, HeldDelivery, HeldQueue DEF Next
<1>3. PollerInv /\ HeldInv => OneHandlerAtATime
  BY OneHeld DEF OneHandlerAtATime, Held
<1>4. Renewed => []Renewed
  <2>1. Renewed => Renewed'
    BY DEF Renewed
  <2> QED
    BY <2>1, PTL
<1> QED
  BY <1>1, <1>2, <1>3, <1>4, PollerInvariant, PTL DEF Spec
-------------------------------------------------------------------------------
(* The promise of AtLeastOnce.                                             *)

Ending == {"replied", "succeeded"}

\* Every step is one that the promise allows, or changes nothing it speaks of.
LEMMA PromiseStep == PollerInv /\ [Next]_vars => [Promise!Next]_(Promise!aloVars)
<1> DEFINE outcome == [m \in Messages |->
                          IF place[m] \in {"deleted", "dead"} THEN place[m] ELSE "pending"]
           finishing == {m \in Messages : \E n \in 1..MAX_RETRIES : stage[<<m, n>>] \in Ending}
<1> SUFFICES ASSUME PollerInv, [Next]_vars
             PROVE  Promise!Next \/ UNCHANGED <<outcome, receives, finishing>>
  BY DEF Promise!aloVars, Ending
<1>a. \A m \in Messages, n \in 1..MAX_RETRIES : <<m, n>> \in Delivery
  BY DEF Delivery
<1>b. \A d \in Delivery : d[1] \in Messages /\ d[2] \in 1..MAX_RETRIES /\ d = <<d[1], d[2]>>
  BY DEF Delivery
<1>1. ASSUME UNCHANGED <<receives, stage>>, \A m \in Messages :
               \/ place[m] \notin {"deleted", "dead"} /\ place'[m] \notin {"deleted", "dead"}
               \/ place'[m] = place[m]
      PROVE  UNCHANGED <<outcome, receives, finishing>>
  <2>1. \A m \in Messages : outcome'[m] = outcome[m]
    BY <1>1
  <2> QED
    BY <1>1, <2>1
<1>2. ASSUME NEW t \in Tasks, Poll(t) \/ EndLoop(t) \/ BackOff(t) \/ Stop(t) \/ Exit(t)
                               \/ \E g \in BOOLEAN : Resolve(t, g)
      PROVE  UNCHANGED <<outcome, receives, finishing>>
  BY <1>1, <1>2 DEF Poll, EndLoop, BackOff, Stop, Exit, Resolve, queueVars, workVars
<1>3. ASSUME NEW t \in Tasks, NEW S \in SUBSET Messages, Serve(t, S)
      PROVE  Promise!Next
  <2>1. /\ \A m \in S : place[m] = "visible" /\ receives[m] < MAX_RETRIES
        /\ place' = [m \in Messages |-> IF m \in S THEN "hidden" ELSE place[m]]
        /\ receives' = [m \in Messages |-> IF m \in S THEN receives[m] + 1 ELSE receives[m]]
    BY <1>3 DEF Serve
  <2>2. \A d \in Delivery : stage'[d] \in Ending <=> stage[d] \in Ending
    BY <1>3, ServeStages, BegunFacts DEF Ending
  <2>3. finishing' = finishing
    BY <1>a, <2>2
  <2>4. outcome' = outcome
    BY <2>1
  <2>5. Promise!Attempt(S)
    BY <2>1, <2>3, <2>4 DEF Promise!Attempt, Ending
  <2> QED
    BY <2>5 DEF Promise!Next
<1>4. ASSUME NEW t \in Tasks, Dispatch(t) \/ ReceiveFails(t)
      PROVE  UNCHANGED <<outcome, receives, finishing>>
  <2>1. UNCHANGED <<receives, place>> /\ \A d \in Delivery : stage'[d] \in Ending <=> stage[d] \in Ending
    BY <1>4 DEF Dispatch, ReceiveFails, queueVars, Answered, Ending
  <2> QED
    BY <1>a, <2>1
<1>5. ASSUME NEW t \in Tasks, Kill(t) PROVE Promise!Next
  <2>1. UNCHANGED <<receives, place>> /\ \A d \in Delivery : stage'[d] \in Ending => stage[d] \in Ending
    BY <1>5 DEF Kill, queueVars, Ending
  <2>2. PICK S \in SUBSET Messages : S = finishing \ finishing'
    OBVIOUS
  <2>3. finishing' = finishing \ S
    BY <1>a, <2>1, <2>2
  <2>4. Promise!Drop(S)
    BY <2>1, <2>3 DEF Promise!Drop, Ending
  <2> QED
    BY <2>4 DEF Promise!Next
<1>6. ASSUME NEW d \in Delivery, HandlerEnds(d) PROVE Promise!Next
  <2>1. /\ stage[d] = "working" /\ stage' = [stage EXCEPT ![d] = "replied"]
        /\ UNCHANGED <<receives, place>>
    BY <1>6 DEF HandlerEnds, Enter, queueVars
  <2>2. receives[d[1]] > 0
    BY <2>1, DeliveryPair, <1>b DEF PollerInv, Fresh
  <2>3. \A e \in Delivery : stage'[e] \in Ending <=> (stage[e] \in Ending \/ e = d)
    BY <2>1 DEF PollerInv, TypeOK, Ending
  <2>4. finishing' = finishing \cup {d[1]}
    BY <1>a, <1>b, <2>3
  <2>5. Promise!Finish(d[1])
    BY <2>1, <2>2, <2>4 DEF Promise!Finish, Ending
  <2> QED
    BY <1>b, <2>5 DEF Promise!Next
<1>7. ASSUME NEW d \in Delivery, Reply(d) \/ Heartbeat(d)
      PROVE  UNCHANGED <<outcome, receives, finishing>>
  <2>1. UNCHANGED <<receives, place>> /\ \A e \in Delivery : stage'[e] \in Ending <=> stage[e] \in Ending
    BY <1>7 DEF Reply, Heartbeat, Enter, queueVars, Ending, PollerInv, TypeOK
  <2> QED
    BY <1>a, <2>1
<1>8. ASSUME NEW t \in Tasks, NEW d \in Delivery, DeliveryStep(d, t) PROVE Promise!Next
  <2>1. /\ stage' = [stage EXCEPT ![d] = "over"] /\ receives' = receives
        /\ UNCHANGED place \/ (stage[d] = "succeeded" /\ Vanish(d[1]))
    BY <1>8 DEF DeliveryStep, WorkerFails, TimesOut, Delete, Settle, Enter, Vanish, queueVars
  <2>2. \A e \in Delivery : stage'[e] \in Ending <=> (stage[e] \in Ending /\ e # d)
    BY <2>1 DEF PollerInv, TypeOK, Ending
  <2>3. finishing' \in {finishing, finishing \ {d[1]}}
    BY <1>a, <1>b, <2>2
  <2>4. CASE UNCHANGED place
    <3>1. Promise!Drop({}) \/ Promise!Drop({d[1]})
      BY <2>1, <2>3, <2>4 DEF Promise!Drop, Ending
    <3> QED
      BY <1>b, <3>1 DEF Promise!Next
  <2>5. CASE stage[d] = "succeeded" /\ Vanish(d[1])
    <3>1. place' = [place EXCEPT ![d[1]] = IF @ = "dead" THEN "dead" ELSE "deleted"]
      BY <2>5 DEF Vanish
    <3>2. CASE place[d[1]] \in {"deleted", "dead"}
      <4>1. place' = place
        BY <1>b, <3>1, <3>2 DEF PollerInv, TypeOK
      <4> QED
        BY <2>4, <4>1
    <3>3. CASE place[d[1]] \notin {"deleted", "dead"}
      <4>1. outcome' = [outcome EXCEPT ![d[1]] = "deleted"]
        BY <1>b, <3>1, <3>3 DEF PollerInv, TypeOK
      <4>2. d[1] \in finishing /\ outcome[d[1]] = "pending"
        BY <1>b, <2>5, <3>3 DEF Ending
      <4>3. Promise!Delete(d[1])
        BY <2>1, <2>3, <4>1, <4>2 DEF Promise!Delete, Ending
      <4> QED
        BY <1>b, <4>3 DEF Promise!Next
    <3> QED
      BY <3>2, <3>3
  <2> QED
    BY <2>1, <2>4, <2>5
<1>9. ASSUME NEW m \in Messages, Lapse(m) PROVE UNCHANGED <<outcome, receives, finishing>>
  BY <1>1, <1>9 DEF Lapse, workVars, PollerInv, TypeOK
<1>10. ASSUME NEW m \in Messages, Redrive(m) PROVE Promise!Next
  <2>1. /\ place[m] = "visible" /\ place' = [place EXCEPT ![m] = "dead"]
        /\ UNCHANGED <<receives, stage>> /\ receives[m] = MAX_RETRIES
    BY <1>10, PollerAssumption DEF Redrive, workVars, PollerInv, TypeOK
  <2>2. outcome[m] = "pending" /\ outcome' = [outcome EXCEPT ![m] = "dead"] /\ finishing' = finishing
    BY <2>1 DEF PollerInv, TypeOK
  <2>3. Promise!GiveUp(m)
    BY <2>1, <2>2 DEF Promise!GiveUp, Ending
  <2> QED
    BY <2>3 DEF Promise!Next
<1>11. CASE Tick \/ UNCHANGED vars
  BY <1>1, <1>11 DEF Tick, vars, queueVars, workVars
<1> QED
  BY <1>2, <1>3, <1>4, <1>5, <1>6, <1>7, <1>8, <1>9, <1>10, <1>11 DEF Next, LoopStep

\* The container path keeps the promise of AtLeastOnce, as the Lambda path does: a message
\* is deleted after a delivery whose handler ran to its end, or dead after all its receives,
\* whatever tasks stop or die (index.aws.ts handleMessage; container-runtime.ts).
THEOREM PollerKeepsPromise == Spec => KeepsPromise
<1>1. Init => Promise!Init
  BY DEF Init, Promise!Init, Delivery
<1> QED
  BY <1>1, PromiseStep, PollerInvariant, PTL DEF Spec, KeepsPromise, Promise!Spec


-------------------------------------------------------------------------------
(* Induction over the naturals, for sets.                                  *)

\* The least element: the initial segments of Nat are well founded.
LEMMA LeastNatural ==
    ASSUME NEW T \in SUBSET Nat, T # {}
    PROVE  \E m \in T : \A k \in T : m <= k
<1> DEFINE Segments == {0..n : n \in T}
           R == StrictSubsetOrdering(Nat)
<1>1. Segments \subseteq FiniteSubsetsOf(Nat)
  <2>1. \A n \in Nat : IsFiniteSet(0..n) /\ 0..n \subseteq Nat
    BY FS_Interval
  <2>2. QED
    BY <2>1 DEF FiniteSubsetsOf
<1>2. Segments # {}
  OBVIOUS
<1>3. IsWellFoundedOn(R, FiniteSubsetsOf(Nat))
  BY FS_StrictSubsetOrderingWellFounded
<1> HIDE DEF R, Segments
<1>4. PICK x \in Segments : \A y \in Segments : ~ (<<y, x>> \in R)
  BY <1>1, <1>2, <1>3, WFMin
<1>5. PICK m \in T : x = 0..m
  BY <1>4 DEF Segments
<1>6. ASSUME NEW k \in T, k < m
      PROVE  FALSE
  <2>1. 0..k \in Segments
    BY DEF Segments
  <2>2. 0..k \subseteq 0..m /\ 0..k # 0..m
    <3>1. m \in 0..m /\ m \notin 0..k
      BY <1>6
    <3>2. QED
      BY <1>6, <3>1
  <2>3. 0..k \in SUBSET Nat /\ 0..m \in SUBSET Nat
    OBVIOUS
  <2>4. <<0..k, 0..m>> \in R
    BY <2>2, <2>3 DEF R, StrictSubsetOrdering
  <2>5. QED
    BY <1>4, <1>5, <2>1, <2>4
<1>7. QED
  BY <1>6

\* A set that holds 0 and is closed under the successor holds every natural number.
LEMMA InductionSet ==
    ASSUME NEW T, 0 \in T, \A n \in Nat : n \in T => n + 1 \in T
    PROVE  \A n \in Nat : n \in T
<1> SUFFICES ASSUME Nat \ T # {} PROVE FALSE
  OBVIOUS
<1>1. PICK m \in Nat \ T : \A k \in Nat \ T : m <= k
  BY LeastNatural
<1>2. m # 0 /\ m - 1 \in Nat
  BY <1>1
<1>3. m - 1 \in T
  BY <1>1, <1>2
<1>4. (m - 1) + 1 \in T
  BY <1>2, <1>3
<1>5. QED
  BY <1>1, <1>2, <1>4

-------------------------------------------------------------------------------
(* The requests divide the payloads.                                       *)

\* The states g of a loop behind each turn 0..n.
IsLoop(g, first, n, step) ==
    \A i \in 0..n : g[i] = IF i = 0 THEN first ELSE step[<<g[i - 1], i>>]

\* A loop over 1..n that stays in S has a state behind each of its turns.
LEMMA LoopExists ==
    ASSUME NEW S, NEW first \in S, NEW n \in Nat, NEW step \in [S \X (1..n) -> S]
    PROVE  \E g \in [0..n -> S] : IsLoop(g, first, n, step)
<1> DEFINE Turns(g, m) == \A i \in 0..m : g[i] = IF i = 0 THEN first ELSE step[<<g[i - 1], i>>]
           T == {m \in Nat : m <= n => \E g \in [0..m -> S] : Turns(g, m)}
<1>1. 0 \in T
  <2>1. Turns([i \in 0..0 |-> first], 0) /\ [i \in 0..0 |-> first] \in [0..0 -> S]
    OBVIOUS
  <2> HIDE DEF Turns
  <2>2. QED
    BY <2>1
<1>2. ASSUME NEW m \in Nat, m \in T
      PROVE  m + 1 \in T
  <2> SUFFICES ASSUME m + 1 <= n PROVE \E g \in [0..(m + 1) -> S] : Turns(g, m + 1)
    OBVIOUS
  <2>1. PICK g \in [0..m -> S] : Turns(g, m)
    BY <1>2
  <2>2. step[<<g[m], m + 1>>] \in S
    OBVIOUS
  <2> DEFINE h == [i \in 0..(m + 1) |-> IF i = m + 1 THEN step[<<g[m], m + 1>>] ELSE g[i]]
  <2>3. h \in [0..(m + 1) -> S]
    BY <2>2
  <2>4. ASSUME NEW i \in 0..(m + 1)
        PROVE  h[i] = IF i = 0 THEN first ELSE step[<<h[i - 1], i>>]
    <3>1. CASE i = m + 1
      <4>1. h[i - 1] = g[m] /\ i # 0
        BY <3>1
      <4>2. QED
        BY <3>1, <4>1
    <3>2. CASE i # m + 1 /\ i # 0
      <4>1. i \in 0..m /\ i - 1 \in 0..m /\ i - 1 # m + 1
        BY <3>2
      <4>2. h[i] = g[i] /\ h[i - 1] = g[i - 1]
        BY <3>2, <4>1
      <4>3. g[i] = step[<<g[i - 1], i>>]
        BY <2>1, <3>2, <4>1
      <4>4. QED
        BY <3>2, <4>2, <4>3
    <3>3. CASE i = 0
      <4>1. 0 \in 0..m /\ 0 \in 0..(m + 1) /\ 0 # m + 1
        OBVIOUS
      <4>2. g[0] = first
        BY <2>1, <4>1
      <4>3. h[0] = g[0]
        BY <4>1
      <4>4. QED
        BY <3>3, <4>2, <4>3
    <3>4. QED
      BY <3>1, <3>2, <3>3
  <2>5. Turns(h, m + 1)
    BY <2>4
  <2> HIDE DEF h, Turns
  <2>6. QED
    BY <2>3, <2>5
<1> HIDE DEF T
<1>3. \A m \in Nat : m \in T
  BY <1>1, <1>2, InductionSet
<1>4. \E g \in [0..n -> S] : Turns(g, n)
  BY <1>3 DEF T
<1>5. QED
  BY <1>4 DEF IsLoop

-------------------------------------------------------------------------------
(* The bytes of a stretch of payloads.                                     *)

\* The sum is defined: each of its values follows from the one before.
LEMMA BytesUpToUnfolds ==
    ASSUME NEW sizes \in Seq(Nat)
    PROVE  BytesUpTo(sizes) = [i \in 0..Len(sizes) |->
              IF i = 0 THEN 0 ELSE BytesUpTo(sizes)[i - 1] + sizes[i]]
<1> DEFINE n == Len(sizes)
           step == [p \in Nat \X (1..n) |-> p[1] + sizes[p[2]]]
<1>1. n \in Nat /\ \A i \in 1..n : sizes[i] \in Nat
  OBVIOUS
<1>2. step \in [Nat \X (1..n) -> Nat]
  BY <1>1
<1>3. \A s \in Nat, i \in 1..n : step[<<s, i>>] = s + sizes[i]
  OBVIOUS
<1> HIDE DEF n, step
<1>4. PICK g \in [0..n -> Nat] : IsLoop(g, 0, n, step)
  <2>1. 0 \in Nat /\ n \in Nat
    BY <1>1
  <2>2. QED
    BY <2>1, <1>2, LoopExists, Zenon
<1>5. g = [i \in 0..n |-> IF i = 0 THEN 0 ELSE g[i - 1] + sizes[i]]
  <2>1. ASSUME NEW i \in 0..n
        PROVE  g[i] = IF i = 0 THEN 0 ELSE g[i - 1] + sizes[i]
    <3>1. CASE i = 0
      BY <1>4, <3>1 DEF IsLoop
    <3>2. CASE i # 0
      <4>1. i \in 1..n /\ g[i - 1] \in Nat
        BY <1>1, <3>2
      <4>2. QED
        BY <1>3, <1>4, <3>2, <4>1 DEF IsLoop
    <3>3. QED
      BY <3>1, <3>2
  <2>2. QED
    BY <2>1
<1>6. BytesUpTo(sizes) = CHOOSE f : f = [i \in 0..n |-> IF i = 0 THEN 0 ELSE f[i - 1] + sizes[i]]
  BY DEF BytesUpTo, n
<1>7. BytesUpTo(sizes) = [i \in 0..n |-> IF i = 0 THEN 0 ELSE BytesUpTo(sizes)[i - 1] + sizes[i]]
  BY <1>5, <1>6
<1>8. QED
  BY <1>7 DEF n

\* The bytes up to a position are a number and grow with it.
LEMMA BytesGrow ==
    ASSUME NEW sizes \in Seq(Nat)
    PROVE  /\ BytesUpTo(sizes) \in [0..Len(sizes) -> Nat]
           /\ BytesUpTo(sizes)[0] = 0
           /\ \A i \in 1..Len(sizes) :
                 BytesUpTo(sizes)[i] = BytesUpTo(sizes)[i - 1] + sizes[i]
           /\ \A b \in 0..Len(sizes) : \A a \in 0..b : BytesUpTo(sizes)[a] <= BytesUpTo(sizes)[b]
<1> DEFINE n == Len(sizes)
           B == BytesUpTo(sizes)
           T == {b \in Nat : b <= n => \A a \in 0..b : B[a] \in Nat /\ B[a] <= B[b]}
<1>1. n \in Nat /\ \A i \in 1..n : sizes[i] \in Nat
  OBVIOUS
<1>2. B = [i \in 0..n |-> IF i = 0 THEN 0 ELSE B[i - 1] + sizes[i]]
  BY BytesUpToUnfolds
<1> HIDE DEF n, B
<1>3. B[0] = 0 /\ \A i \in 1..n : B[i] = B[i - 1] + sizes[i]
  <2>1. B[0] = 0
    BY <1>1, <1>2
  <2>2. ASSUME NEW i \in 1..n
        PROVE  B[i] = B[i - 1] + sizes[i]
    <3>1. i \in 0..n /\ i # 0
      BY <1>1
    <3>2. QED
      BY <1>2, <3>1
  <2>3. QED
    BY <2>1, <2>2
<1>4. 0 \in T
  <2>1. \A a \in 0..0 : a = 0
    OBVIOUS
  <2>2. QED
    BY <1>3, <2>1
<1>5. ASSUME NEW b \in Nat, b \in T
      PROVE  b + 1 \in T
  <2> SUFFICES ASSUME b + 1 <= n, NEW a \in 0..(b + 1)
               PROVE  B[a] \in Nat /\ B[a] <= B[b + 1]
    OBVIOUS
  <2>1. \A c \in 0..b : B[c] \in Nat /\ B[c] <= B[b]
    BY <1>1, <1>5
  <2>2. b + 1 \in 1..n /\ (b + 1) - 1 = b /\ b \in 0..b
    BY <1>1
  <2>3. B[b + 1] = B[b] + sizes[b + 1] /\ sizes[b + 1] \in Nat
    BY <1>1, <1>3, <2>2
  <2>4. B[b + 1] \in Nat /\ B[b] \in Nat /\ B[b] <= B[b + 1]
    BY <2>1, <2>2, <2>3
  <2>5. CASE a = b + 1
    BY <2>4, <2>5
  <2>6. CASE a # b + 1
    <3>1. a \in 0..b
      BY <2>6
    <3>2. QED
      BY <2>1, <2>4, <3>1
  <2>7. QED
    BY <2>5, <2>6
<1> HIDE DEF T
<1>6. \A b \in Nat : b \in T
  BY <1>4, <1>5, InductionSet
<1>7. \A b \in 0..n : \A a \in 0..b : B[a] \in Nat /\ B[a] <= B[b]
  BY <1>1, <1>6 DEF T
<1>8. \A b \in 0..n : B[b] \in Nat
  BY <1>1, <1>7
<1>9. B \in [0..n -> Nat]
  BY <1>2, <1>8
<1>10. QED
  BY <1>3, <1>7, <1>9 DEF n, B

-------------------------------------------------------------------------------
(* The loop of chunkBatch.                                                 *)

\* What the loop of chunkBatch keeps between two payloads.
Acc == [chunks : Seq(Seq(Nat)), current : Seq(Nat), bytes : Nat]

\* A turn of the loop stays among such states.
LEMMA AddType ==
    ASSUME NEW acc \in Acc, NEW i \in Nat, NEW b \in Nat
    PROVE  Add(acc, i, b) \in Acc
<1>1. acc.chunks \in Seq(Seq(Nat)) /\ acc.current \in Seq(Nat) /\ acc.bytes \in Nat
  BY DEF Acc
<1>2. Append(acc.chunks, acc.current) \in Seq(Seq(Nat))
  BY <1>1, AppendProperties
<1>3. Append(acc.current, i) \in Seq(Nat) /\ <<i>> \in Seq(Nat)
  BY <1>1, AppendProperties
<1>4. acc.bytes + b \in Nat
  BY <1>1
<1>5. [chunks |-> Append(acc.chunks, acc.current), current |-> <<i>>, bytes |-> b] \in Acc
  BY <1>2, <1>3 DEF Acc
<1>6. [acc EXCEPT !.current = Append(@, i), !.bytes = @ + b] \in Acc
  BY <1>1, <1>3, <1>4 DEF Acc
<1>7. QED
  BY <1>5, <1>6 DEF Add

\* The loop has a state behind each position, and Add leads from one to the next.
LEMMA RunningUnfolds ==
    ASSUME NEW sizes \in Seq(Nat)
    PROVE  /\ Running(sizes) \in [0..Len(sizes) -> Acc]
           /\ Running(sizes)[0] = Empty
           /\ \A i \in 1..Len(sizes) :
                 Running(sizes)[i] = Add(Running(sizes)[i - 1], i, sizes[i])
<1> DEFINE n == Len(sizes)
           step == [p \in Acc \X (1..n) |-> Add(p[1], p[2], sizes[p[2]])]
           R == Running(sizes)
<1>1. n \in Nat /\ \A i \in 1..n : sizes[i] \in Nat
  OBVIOUS
<1>2. step \in [Acc \X (1..n) -> Acc]
  <2>1. ASSUME NEW p \in Acc \X (1..n)
        PROVE  Add(p[1], p[2], sizes[p[2]]) \in Acc
    <3>1. p[1] \in Acc /\ p[2] \in Nat /\ sizes[p[2]] \in Nat
      BY <1>1
    <3>2. QED
      BY <3>1, AddType
  <2>2. QED
    BY <2>1
<1>3. \A a \in Acc : \A i \in 1..n : step[<<a, i>>] = Add(a, i, sizes[i])
  OBVIOUS
<1>4. Empty \in Acc
  <2>1. << >> \in Seq(Seq(Nat)) /\ << >> \in Seq(Nat)
    BY EmptySeq
  <2>2. QED
    BY <2>1 DEF Empty, Acc
<1>5. R = CHOOSE f : f = [i \in 0..n |-> IF i = 0 THEN Empty ELSE Add(f[i - 1], i, sizes[i])]
  BY DEF Running, n
<1> HIDE DEF n, step, R
<1>6. PICK g \in [0..n -> Acc] : IsLoop(g, Empty, n, step)
  <2>1. n \in Nat
    BY <1>1
  <2>2. QED
    BY <2>1, <1>2, <1>4, LoopExists, Zenon
<1>7. g = [i \in 0..n |-> IF i = 0 THEN Empty ELSE Add(g[i - 1], i, sizes[i])]
  <2>1. ASSUME NEW i \in 0..n
        PROVE  g[i] = IF i = 0 THEN Empty ELSE Add(g[i - 1], i, sizes[i])
    <3>1. CASE i = 0
      BY <1>6, <3>1 DEF IsLoop
    <3>2. CASE i # 0
      <4>1. i \in 1..n /\ g[i - 1] \in Acc
        BY <1>1, <3>2
      <4>2. g[i] = step[<<g[i - 1], i>>]
        BY <1>6, <3>2 DEF IsLoop
      <4>3. QED
        BY <1>3, <3>2, <4>1, <4>2
    <3>3. QED
      BY <3>1, <3>2
  <2>2. DOMAIN g = 0..n
    OBVIOUS
  <2>3. QED
    BY <2>1, <2>2, Zenon
<1>8. R = [i \in 0..n |-> IF i = 0 THEN Empty ELSE Add(R[i - 1], i, sizes[i])]
  BY <1>5, <1>7
<1>9. DOMAIN R = 0..n /\ 0 \in 0..n
  BY <1>1, <1>8
<1>10. R[0] = Empty
  BY <1>8, <1>9
<1>11. ASSUME NEW i \in 1..n
       PROVE  R[i] = Add(R[i - 1], i, sizes[i])
  <2>1. i \in 0..n /\ i # 0
    BY <1>1
  <2>2. QED
    BY <1>8, <2>1
<1> DEFINE T == {i \in Nat : i <= n => R[i] \in Acc}
<1>12. 0 \in T
  BY <1>4, <1>10
<1>13. ASSUME NEW i \in Nat, i \in T
       PROVE  i + 1 \in T
  <2> SUFFICES ASSUME i + 1 <= n PROVE R[i + 1] \in Acc
    OBVIOUS
  <2>1. i + 1 \in 1..n /\ (i + 1) - 1 = i /\ i <= n
    BY <1>1
  <2>2. R[i + 1] = Add(R[i], i + 1, sizes[i + 1])
    BY <1>11, <2>1
  <2>3. R[i] \in Acc /\ sizes[i + 1] \in Nat
    BY <1>1, <1>13, <2>1
  <2>4. i + 1 \in Nat
    OBVIOUS
  <2>5. Add(R[i], i + 1, sizes[i + 1]) \in Acc
    BY <2>3, <2>4, AddType
  <2>6. QED
    BY <2>2, <2>5
<1> HIDE DEF T
<1>14. \A i \in Nat : i \in T
  BY <1>12, <1>13, InductionSet
<1>15. \A i \in 0..n : R[i] \in Acc
  BY <1>1, <1>14 DEF T
<1>16. R \in [0..n -> Acc]
  BY <1>8, <1>15
<1>17. QED
  BY <1>10, <1>11, <1>16 DEF n, R

\* One request: consecutive positions of `sizes`, within both limits.
Request(sizes, c) ==
    /\ c \in Seq(Nat)
    /\ Len(c) \in 1..MAX_BATCH_SIZE
    /\ c[1] \in 1..Len(sizes)
    /\ c[1] + Len(c) <= Len(sizes) + 1
    /\ \A j \in 1..Len(c) : c[j] = c[1] + (j - 1)
    /\ Bytes(sizes, c[1], c[1] + Len(c) - 1) <= MAX_PAYLOAD_BYTES

\* Request d starts behind c, with the position c had no room for.
Follows(sizes, c, d) ==
    /\ d[1] = c[1] + Len(c)
    /\ Len(c) >= MAX_BATCH_SIZE \/ Bytes(sizes, c[1], d[1]) > MAX_PAYLOAD_BYTES

\* The requests cs hold the positions 1..i.
Divides(sizes, cs, i) ==
    /\ cs \in Seq(Seq(Nat)) /\ Len(cs) >= 1
    /\ \A k \in 1..Len(cs) : Request(sizes, cs[k])
    /\ cs[1][1] = 1
    /\ \A k \in 1..(Len(cs) - 1) : Follows(sizes, cs[k], cs[k + 1])
    /\ cs[Len(cs)][1] + Len(cs[Len(cs)]) = i + 1

\* The loop's state behind position i.
LoopInv(sizes, acc, i) ==
    /\ Len(acc.current) > 0
    /\ Divides(sizes, Append(acc.chunks, acc.current), i)
    /\ acc.bytes = Bytes(sizes, acc.current[1], i)

\* A limit is a positive number.
LEMMA Limits == MAX_BATCH_SIZE \in Nat \ {0} /\ MAX_PAYLOAD_BYTES \in Nat \ {0}
BY BatchAssumption

\* One more payload in the stretch.
LEMMA BytesStep ==
    ASSUME NEW sizes \in Seq(Nat), NEW a \in 1..Len(sizes), NEW b \in a..Len(sizes)
    PROVE  /\ Bytes(sizes, a, b) \in Nat
           /\ Bytes(sizes, a, a) = sizes[a]
           /\ b + 1 <= Len(sizes) =>
                 Bytes(sizes, a, b + 1) = Bytes(sizes, a, b) + sizes[b + 1]
<1> DEFINE B == BytesUpTo(sizes)
           n == Len(sizes)
<1>1. n \in Nat /\ \A i \in 1..n : sizes[i] \in Nat
  OBVIOUS
<1>2. /\ B \in [0..n -> Nat]
      /\ \A i \in 1..n : B[i] = B[i - 1] + sizes[i]
      /\ \A d \in 0..n : \A c \in 0..d : B[c] <= B[d]
  BY BytesGrow
<1>3. a \in 1..n /\ b \in a..n /\ b \in 0..n /\ a \in 0..n /\ a - 1 \in 0..b
  OBVIOUS
<1> HIDE DEF n, B
<1>4. B[b] \in Nat /\ B[a - 1] \in Nat /\ B[a - 1] <= B[b]
  <2>1. a - 1 \in 0..n
    BY <1>1, <1>3
  <2>2. QED
    BY <1>2, <1>3, <2>1
<1>5. B[b] - B[a - 1] \in Nat
  BY <1>4
<1>6. B[a] - B[a - 1] = sizes[a]
  BY <1>1, <1>2, <1>3, <1>4
<1>7. ASSUME b + 1 <= n
      PROVE  B[b + 1] - B[a - 1] = (B[b] - B[a - 1]) + sizes[b + 1]
  <2>1. b + 1 \in 1..n /\ (b + 1) - 1 = b
    BY <1>1, <1>3, <1>7
  <2>2. B[b + 1] = B[b] + sizes[b + 1] /\ sizes[b + 1] \in Nat
    BY <1>1, <1>2, <2>1
  <2>3. QED
    BY <1>4, <2>2
<1>8. QED
  BY <1>5, <1>6, <1>7 DEF Bytes, B, n

\* A request of one payload.
LEMMA SingleRequest ==
    ASSUME NEW sizes \in Seq(Nat), NEW i \in 1..Len(sizes), sizes[i] <= MAX_PAYLOAD_BYTES
    PROVE  Request(sizes, <<i>>)
<1>1. <<i>> \in Seq(Nat) /\ Len(<<i>>) = 1 /\ <<i>>[1] = i
  OBVIOUS
<1>2. Bytes(sizes, i, i) <= MAX_PAYLOAD_BYTES
  BY BytesStep
<1>3. (i + 1) - 1 = i
  OBVIOUS
<1>4. QED
  BY <1>1, <1>2, <1>3, Limits DEF Request

\* Requests cs, and one more that starts behind them.
LEMMA AppendRequest ==
    ASSUME NEW sizes \in Seq(Nat), NEW i \in 1..Len(sizes), NEW cs, Divides(sizes, cs, i),
           NEW d, Request(sizes, d), NEW e \in 1..Len(sizes), d[1] + Len(d) = e + 1,
           Follows(sizes, cs[Len(cs)], d)
    PROVE  Divides(sizes, Append(cs, d), e)
<1> DEFINE ds == Append(cs, d)
           m == Len(cs)
<1>1. cs \in Seq(Seq(Nat)) /\ m \in Nat /\ m >= 1 /\ d \in Seq(Nat)
  BY DEF Divides, Request
<1>2. /\ ds \in Seq(Seq(Nat)) /\ Len(ds) = m + 1 /\ ds[m + 1] = d
      /\ \A k \in 1..m : ds[k] = cs[k]
  BY <1>1, AppendProperties
<1>3. /\ \A k \in 1..m : Request(sizes, cs[k])
      /\ cs[1][1] = 1
      /\ \A k \in 1..(m - 1) : Follows(sizes, cs[k], cs[k + 1])
      /\ Follows(sizes, cs[m], d)
  BY DEF Divides
<1> HIDE DEF ds, m
<1>4. ASSUME NEW k \in 1..(m + 1)
      PROVE  Request(sizes, ds[k])
  <2>1. CASE k = m + 1
    BY <1>2, <2>1
  <2>2. CASE k # m + 1
    <3>1. k \in 1..m
      BY <1>1, <2>2
    <3>2. QED
      BY <1>2, <1>3, <3>1
  <2>3. QED
    BY <2>1, <2>2
<1>5. ASSUME NEW k \in 1..m
      PROVE  Follows(sizes, ds[k], ds[k + 1])
  <2>1. CASE k = m
    BY <1>1, <1>2, <1>3, <2>1
  <2>2. CASE k # m
    <3>1. k \in 1..(m - 1) /\ k + 1 \in 1..m
      BY <1>1, <2>2
    <3>2. QED
      BY <1>2, <1>3, <3>1
  <2>3. QED
    BY <2>1, <2>2
<1>6. ds[1][1] = 1 /\ (m + 1) - 1 = m /\ m + 1 >= 1
  <2>1. 1 \in 1..m /\ (m + 1) - 1 = m /\ m + 1 >= 1
    BY <1>1
  <2>2. ds[1] = cs[1]
    BY <1>2, <2>1
  <2>3. QED
    BY <1>3, <2>1, <2>2
<1>7. ds[m + 1][1] + Len(ds[m + 1]) = e + 1
  BY <1>2
<1>8. QED
  BY <1>2, <1>4, <1>5, <1>6, <1>7 DEF Divides, ds

\* The last request takes one more payload.
LEMMA ExtendRequest ==
    ASSUME NEW sizes \in Seq(Nat), NEW i \in 1..Len(sizes), i + 1 <= Len(sizes),
           NEW chs, chs \in Seq(Seq(Nat)), NEW cur, cur \in Seq(Nat),
           Divides(sizes, Append(chs, cur), i),
           Len(cur) < MAX_BATCH_SIZE,
           Bytes(sizes, cur[1], i + 1) <= MAX_PAYLOAD_BYTES
    PROVE  Divides(sizes, Append(chs, Append(cur, i + 1)), i + 1)
<1> DEFINE m == Len(chs)
           cs == Append(chs, cur)
           new == Append(cur, i + 1)
           ds == Append(chs, new)
<1>1. new \in Seq(Nat) /\ Len(new) = Len(cur) + 1 /\ new[Len(cur) + 1] = i + 1
      /\ \A j \in 1..Len(cur) : new[j] = cur[j]
  BY AppendProperties
<1>2. /\ cs \in Seq(Seq(Nat)) /\ Len(cs) = m + 1 /\ cs[m + 1] = cur
      /\ \A k \in 1..m : cs[k] = chs[k]
  BY AppendProperties
<1>3. /\ ds \in Seq(Seq(Nat)) /\ Len(ds) = m + 1 /\ ds[m + 1] = new
      /\ \A k \in 1..m : ds[k] = chs[k]
  BY <1>1, AppendProperties
<1>4. m \in Nat
  OBVIOUS
<1>5. Divides(sizes, cs, i)
  OBVIOUS
<1> HIDE DEF m, cs, new, ds
<1>6. /\ \A k \in 1..(m + 1) : Request(sizes, cs[k])
      /\ cs[1][1] = 1
      /\ \A k \in 1..m : Follows(sizes, cs[k], cs[k + 1])
      /\ cur[1] + Len(cur) = i + 1
  <2>1. (m + 1) - 1 = m
    BY <1>4
  <2>2. QED
    BY <1>2, <1>5, <2>1 DEF Divides
<1>7. Request(sizes, cur)
  <2>1. m + 1 \in 1..(m + 1)
    BY <1>4
  <2>2. QED
    BY <1>2, <1>6, <2>1
<1>8. /\ Len(cur) \in Nat /\ Len(cur) >= 1 /\ cur[1] \in 1..Len(sizes)
      /\ \A j \in 1..Len(cur) : cur[j] = cur[1] + (j - 1)
  BY <1>7, Limits DEF Request
<1>num. cur[1] \in Nat /\ Len(cur) \in Nat /\ i \in Nat /\ cur[1] + Len(cur) = i + 1
  BY <1>6, <1>8
<1>9. new[1] = cur[1]
  <2>1. 1 \in 1..Len(cur)
    BY <1>8
  <2>2. QED
    BY <1>1, <2>1
<1>10. Request(sizes, new)
  <2>1. Len(new) \in 1..MAX_BATCH_SIZE
    BY <1>1, <1>8, Limits
  <2>2. new[1] + Len(new) = i + 2
    <3>1. new[1] + Len(new) = cur[1] + (Len(cur) + 1)
      BY <1>1, <1>9
    <3>2. cur[1] + (Len(cur) + 1) = i + 2
      BY <1>num
    <3>3. QED
      BY <3>1, <3>2
  <2>3. ASSUME NEW j \in 1..Len(new)
        PROVE  new[j] = new[1] + (j - 1)
    <3>1. CASE j = Len(cur) + 1
      <4>1. new[j] = i + 1 /\ j - 1 = Len(cur)
        BY <1>1, <1>8, <3>1
      <4>2. QED
        BY <1>6, <1>9, <4>1
    <3>2. CASE j # Len(cur) + 1
      <4>1. j \in 1..Len(cur)
        BY <1>1, <1>8, <3>2
      <4>2. QED
        BY <1>1, <1>8, <1>9, <4>1
    <3>3. QED
      BY <3>1, <3>2
  <2>4. Bytes(sizes, new[1], new[1] + Len(new) - 1) <= MAX_PAYLOAD_BYTES
    <3>1. new[1] + Len(new) - 1 = i + 1
      <4>1. new[1] \in Nat /\ Len(new) \in Nat
        BY <1>1, <1>9, <1>num
      <4>2. QED
        BY <1>num, <2>2, <4>1
    <3>2. QED
      BY <1>9, <3>1
  <2>5. i + 2 <= Len(sizes) + 1
    OBVIOUS
  <2>6. QED
    BY <1>1, <1>8, <1>9, <2>1, <2>2, <2>3, <2>4, <2>5 DEF Request
<1>11. ASSUME NEW k \in 1..(m + 1)
       PROVE  Request(sizes, ds[k])
  <2>1. CASE k = m + 1
    BY <1>3, <1>10, <2>1
  <2>2. CASE k # m + 1
    <3>1. k \in 1..m /\ k \in 1..(m + 1)
      BY <1>4, <2>2
    <3>2. ds[k] = cs[k]
      BY <1>2, <1>3, <3>1
    <3>3. QED
      BY <1>6, <3>1, <3>2
  <2>3. QED
    BY <2>1, <2>2
<1>12. ASSUME NEW k \in 1..(m + 1)
       PROVE  ds[k][1] = cs[k][1]
  <2>1. CASE k = m + 1
    BY <1>2, <1>3, <1>9, <2>1
  <2>2. CASE k # m + 1
    <3>1. k \in 1..m
      BY <1>4, <2>2
    <3>2. QED
      BY <1>2, <1>3, <3>1
  <2>3. QED
    BY <2>1, <2>2
<1>13. ASSUME NEW k \in 1..m
       PROVE  Follows(sizes, ds[k], ds[k + 1])
  <2>1. ds[k] = cs[k]
    BY <1>2, <1>3
  <2>2. k + 1 \in 1..(m + 1)
    BY <1>4
  <2>3. ds[k + 1][1] = cs[k + 1][1]
    BY <1>12, <2>2
  <2>4. QED
    BY <1>6, <2>1, <2>3 DEF Follows
<1>14. ds[1][1] = 1
  <2>1. 1 \in 1..(m + 1)
    BY <1>4
  <2>2. QED
    BY <1>6, <1>12, <2>1
<1>15. ds[m + 1][1] + Len(ds[m + 1]) = (i + 1) + 1
  <2>1. ds[m + 1][1] + Len(ds[m + 1]) = cur[1] + (Len(cur) + 1)
    BY <1>1, <1>3, <1>9
  <2>2. cur[1] + (Len(cur) + 1) = (i + 1) + 1
    BY <1>num
  <2>3. QED
    BY <2>1, <2>2
<1>16. (m + 1) - 1 = m /\ m + 1 >= 1
  BY <1>4
<1>17. Divides(sizes, ds, i + 1)
  BY <1>3, <1>11, <1>13, <1>14, <1>15, <1>16 DEF Divides
<1>18. QED
  BY <1>17 DEF ds, new

\* A turn of the loop keeps its invariant.
LEMMA TurnStep ==
    ASSUME NEW sizes \in Seq(Nat), \A j \in 1..Len(sizes) : sizes[j] <= MAX_PAYLOAD_BYTES,
           NEW i \in 1..Len(sizes), i + 1 <= Len(sizes),
           NEW acc \in Acc, LoopInv(sizes, acc, i)
    PROVE  LoopInv(sizes, Add(acc, i + 1, sizes[i + 1]), i + 1)
<1> DEFINE chs == acc.chunks
           cur == acc.current
           cs == Append(chs, cur)
<1>1. /\ chs \in Seq(Seq(Nat)) /\ cur \in Seq(Nat) /\ Len(cur) > 0
      /\ Divides(sizes, cs, i)
      /\ acc.bytes = Bytes(sizes, cur[1], i)
  BY DEF LoopInv, Acc
<1>2. cs[Len(cs)] = cur /\ Len(cs) \in Nat /\ Len(cs) >= 1
  BY <1>1, AppendProperties
<1> HIDE DEF chs, cur, cs
<1>3. Request(sizes, cur) /\ cur[1] + Len(cur) = i + 1
  <2>1. Len(cs) \in 1..Len(cs)
    BY <1>2
  <2>2. QED
    BY <1>1, <1>2, <2>1 DEF Divides
<1>4. /\ cur[1] \in 1..Len(sizes) /\ Len(cur) \in Nat /\ Len(cur) >= 1
      /\ Len(cur) <= MAX_BATCH_SIZE
  BY <1>3, Limits DEF Request
<1>5. i \in cur[1]..Len(sizes) /\ i + 1 \in 1..Len(sizes)
  BY <1>3, <1>4
<1>6. Bytes(sizes, cur[1], i + 1) = acc.bytes + sizes[i + 1]
  <2>1. Bytes(sizes, cur[1], i + 1) = Bytes(sizes, cur[1], i) + sizes[i + 1]
    BY <1>4, <1>5, BytesStep
  <2>2. QED
    BY <1>1, <2>1
<1>7. Bytes(sizes, i + 1, i + 1) = sizes[i + 1] /\ sizes[i + 1] <= MAX_PAYLOAD_BYTES
  BY <1>5, BytesStep
<1> DEFINE full == Len(cur) >= MAX_BATCH_SIZE \/ acc.bytes + sizes[i + 1] > MAX_PAYLOAD_BYTES
<1>8. CASE full
  <2>1. Add(acc, i + 1, sizes[i + 1]) =
           [chunks |-> cs, current |-> <<i + 1>>, bytes |-> sizes[i + 1]]
    BY <1>1, <1>8 DEF Add, cs, chs, cur
  <2>2. Request(sizes, <<i + 1>>)
    BY <1>5, <1>7, SingleRequest
  <2>3. Follows(sizes, cs[Len(cs)], <<i + 1>>)
    <3>1. <<i + 1>>[1] = i + 1
      OBVIOUS
    <3>2. QED
      BY <1>2, <1>3, <1>6, <1>8, <3>1 DEF Follows
  <2>4. <<i + 1>>[1] + Len(<<i + 1>>) = (i + 1) + 1
    OBVIOUS
  <2>5. Divides(sizes, Append(cs, <<i + 1>>), i + 1)
    BY <1>1, <1>5, <2>2, <2>3, <2>4, AppendRequest
  <2>6. Len(<<i + 1>>) > 0 /\ <<i + 1>>[1] = i + 1
    OBVIOUS
  <2>7. LET new == Add(acc, i + 1, sizes[i + 1])
        IN  new.chunks = cs /\ new.current = <<i + 1>> /\ new.bytes = sizes[i + 1]
    BY <2>1
  <2>8. QED
    BY <1>7, <2>5, <2>6, <2>7 DEF LoopInv
<1>9. CASE ~ full
  <2>1. Add(acc, i + 1, sizes[i + 1]) =
           [acc EXCEPT !.current = Append(@, i + 1), !.bytes = @ + sizes[i + 1]]
    BY <1>1, <1>9 DEF Add, cur
  <2>2. LET new == Add(acc, i + 1, sizes[i + 1])
        IN  /\ new.chunks = chs /\ new.current = Append(cur, i + 1)
            /\ new.bytes = acc.bytes + sizes[i + 1]
    BY <2>1 DEF Acc, chs, cur
  <2>3. Len(cur) < MAX_BATCH_SIZE /\ Bytes(sizes, cur[1], i + 1) <= MAX_PAYLOAD_BYTES
    <3>1. Len(cur) < MAX_BATCH_SIZE
      BY <1>4, <1>9, Limits
    <3>2. Bytes(sizes, cur[1], i + 1) \in Nat
      <4>1. i + 1 \in cur[1]..Len(sizes)
        BY <1>4, <1>5
      <4>2. QED
        BY <1>4, <4>1, BytesStep
    <3>3. QED
      BY <1>6, <1>9, <3>1, <3>2, Limits
  <2>4. Divides(sizes, Append(chs, Append(cur, i + 1)), i + 1)
    <3>1. Divides(sizes, Append(chs, cur), i)
      BY <1>1 DEF cs
    <3>2. QED
      BY <1>1, <2>3, <3>1, ExtendRequest
  <2>5. Len(Append(cur, i + 1)) > 0 /\ Append(cur, i + 1)[1] = cur[1]
    <3>1. i + 1 \in Nat /\ 1 \in 1..Len(cur)
      BY <1>4
    <3>2. /\ Len(Append(cur, i + 1)) = Len(cur) + 1
          /\ \A j \in 1..Len(cur) : Append(cur, i + 1)[j] = cur[j]
      BY <1>1, <3>1, AppendProperties
    <3>3. QED
      BY <1>4, <3>1, <3>2
  <2>6. QED
    BY <1>6, <2>2, <2>4, <2>5 DEF LoopInv
<1>10. QED
  BY <1>8, <1>9

\* chunkBatch divides the payloads into requests.
LEMMA ChunkBatchDivides ==
    ASSUME NEW sizes \in Seq(Nat), Len(sizes) > 0,
           \A j \in 1..Len(sizes) : sizes[j] <= MAX_PAYLOAD_BYTES
    PROVE  Divides(sizes, chunkBatch(sizes), Len(sizes))
<1> DEFINE n == Len(sizes)
           R == Running(sizes)
           T == {i \in Nat : 1 <= i /\ i <= n => LoopInv(sizes, R[i], i)}
<1>1. /\ R \in [0..n -> Acc] /\ R[0] = Empty
      /\ \A i \in 1..n : R[i] = Add(R[i - 1], i, sizes[i])
  BY RunningUnfolds
<1>2. n \in Nat /\ n > 0
  OBVIOUS
<1> HIDE DEF R
<1>3. LoopInv(sizes, R[1], 1)
  <2>1. 1 \in 1..n /\ 1 - 1 = 0 /\ sizes[1] \in Nat
    BY <1>2
  <2>2. R[1] = Add(Empty, 1, sizes[1])
    BY <1>1, <2>1
  <2>3. Add(Empty, 1, sizes[1]) = [chunks |-> << >>, current |-> <<1>>, bytes |-> sizes[1]]
    <3>1. Append(<< >>, 1) = <<1>> /\ 0 + sizes[1] = sizes[1]
      BY <2>1
    <3>2. Empty.current = << >> /\ Empty.bytes = 0 /\ Empty.chunks = << >>
      BY DEF Empty
    <3>3. Len(Empty.current) = 0
      BY <3>2
    <3>4. Add(Empty, 1, sizes[1]) =
             [Empty EXCEPT !.current = Append(@, 1), !.bytes = @ + sizes[1]]
      BY <3>3 DEF Add
    <3>5. QED
      BY <3>1, <3>4 DEF Empty
  <2>4. Request(sizes, <<1>>)
    BY <2>1, SingleRequest
  <2>5. Append(<< >>, <<1>>) = << <<1>> >>
    OBVIOUS
  <2>6. Divides(sizes, << <<1>> >>, 1)
    <3>1. << <<1>> >> \in Seq(Seq(Nat)) /\ Len(<< <<1>> >>) = 1 /\ << <<1>> >>[1] = <<1>>
          /\ <<1>>[1] = 1 /\ Len(<<1>>) = 1
      OBVIOUS
    <3>2. QED
      BY <2>4, <3>1 DEF Divides
  <2>7. Bytes(sizes, 1, 1) = sizes[1]
    BY <2>1, BytesStep
  <2>8. Len(<<1>>) > 0 /\ <<1>>[1] = 1
    OBVIOUS
  <2>9. R[1].chunks = << >> /\ R[1].current = <<1>> /\ R[1].bytes = sizes[1]
    BY <2>2, <2>3
  <2>10. QED
    BY <2>5, <2>6, <2>7, <2>8, <2>9 DEF LoopInv
<1>4. 0 \in T
  OBVIOUS
<1>5. ASSUME NEW i \in Nat, i \in T
      PROVE  i + 1 \in T
  <2>1. CASE i = 0
    BY <1>3, <2>1
  <2>2. CASE i # 0 /\ i + 1 <= n
    <3>1. i \in 1..n /\ i + 1 \in 1..n /\ (i + 1) - 1 = i
      BY <1>2, <2>2
    <3>2. LoopInv(sizes, R[i], i) /\ R[i] \in Acc
      BY <1>1, <1>5, <3>1
    <3>3. LoopInv(sizes, Add(R[i], i + 1, sizes[i + 1]), i + 1)
      BY <2>2, <3>1, <3>2, TurnStep
    <3>4. R[i + 1] = Add(R[i], i + 1, sizes[i + 1])
      BY <1>1, <3>1
    <3>5. QED
      BY <3>3, <3>4
  <2>3. CASE i + 1 > n
    BY <2>3
  <2>4. QED
    BY <1>2, <2>1, <2>2, <2>3
<1> HIDE DEF T
<1>6. \A i \in Nat : i \in T
  BY <1>4, <1>5, InductionSet
<1>7. LoopInv(sizes, R[n], n)
  BY <1>2, <1>6 DEF T
<1>8. chunkBatch(sizes) = Append(R[n].chunks, R[n].current)
  BY <1>7 DEF chunkBatch, R, LoopInv
<1>9. QED
  BY <1>7, <1>8 DEF LoopInv

-------------------------------------------------------------------------------
(* Where the requests begin and end.                                       *)

\* The first position of each request, and the one behind its last.
First(cs) == [k \in 1..Len(cs) |-> cs[k][1]]
Behind(cs) == [k \in 1..Len(cs) |-> cs[k][1] + Len(cs[k])]

\* The first request starts at 1, each at the end of the one before, the last ends behind
\* the last payload.
LEMMA Borders ==
    ASSUME NEW sizes \in Seq(Nat), NEW cs, Divides(sizes, cs, Len(sizes))
    PROVE  /\ Len(cs) \in Nat \ {0}
           /\ First(cs) \in [1..Len(cs) -> 1..Len(sizes)]
           /\ Behind(cs) \in [1..Len(cs) -> 2..(Len(sizes) + 1)]
           /\ \A k \in 1..Len(cs) :
                 /\ First(cs)[k] < Behind(cs)[k]
                 /\ Behind(cs)[k] - First(cs)[k] <= MAX_BATCH_SIZE
                 /\ Len(cs[k]) = Behind(cs)[k] - First(cs)[k]
                 /\ \A j \in 1..Len(cs[k]) : cs[k][j] = First(cs)[k] + (j - 1)
                 /\ Bytes(sizes, First(cs)[k], Behind(cs)[k] - 1) <= MAX_PAYLOAD_BYTES
           /\ First(cs)[1] = 1
           /\ Behind(cs)[Len(cs)] = Len(sizes) + 1
           /\ \A k \in 1..(Len(cs) - 1) :
                 /\ First(cs)[k + 1] = Behind(cs)[k]
                 /\ \/ Behind(cs)[k] - First(cs)[k] >= MAX_BATCH_SIZE
                    \/ Bytes(sizes, First(cs)[k], Behind(cs)[k]) > MAX_PAYLOAD_BYTES
<1> DEFINE m == Len(cs)
           n == Len(sizes)
<1>1. /\ m \in Nat \ {0}
      /\ \A k \in 1..m : Request(sizes, cs[k])
      /\ cs[1][1] = 1
      /\ \A k \in 1..(m - 1) : Follows(sizes, cs[k], cs[k + 1])
      /\ cs[m][1] + Len(cs[m]) = n + 1
  BY DEF Divides
<1>2. /\ \A k \in 1..m : First(cs)[k] = cs[k][1] /\ Behind(cs)[k] = cs[k][1] + Len(cs[k])
      /\ DOMAIN First(cs) = 1..m /\ DOMAIN Behind(cs) = 1..m
  BY DEF First, Behind
<1>3. n \in Nat
  OBVIOUS
<1> HIDE DEF m, n
<1>4. ASSUME NEW k \in 1..m
      PROVE  /\ First(cs)[k] \in 1..n
             /\ Behind(cs)[k] \in 2..(n + 1)
             /\ First(cs)[k] < Behind(cs)[k]
             /\ Behind(cs)[k] - First(cs)[k] <= MAX_BATCH_SIZE
             /\ Len(cs[k]) = Behind(cs)[k] - First(cs)[k]
             /\ \A j \in 1..Len(cs[k]) : cs[k][j] = First(cs)[k] + (j - 1)
             /\ Bytes(sizes, First(cs)[k], Behind(cs)[k] - 1) <= MAX_PAYLOAD_BYTES
  <2>1. Request(sizes, cs[k])
    BY <1>1
  <2>2. First(cs)[k] = cs[k][1] /\ Behind(cs)[k] = cs[k][1] + Len(cs[k])
    BY <1>2
  <2>3. /\ Len(cs[k]) \in 1..MAX_BATCH_SIZE
        /\ cs[k][1] \in 1..n
        /\ cs[k][1] + Len(cs[k]) <= n + 1
    BY <2>1 DEF Request, n
  <2>4. /\ \A j \in 1..Len(cs[k]) : cs[k][j] = cs[k][1] + (j - 1)
        /\ Bytes(sizes, cs[k][1], cs[k][1] + Len(cs[k]) - 1) <= MAX_PAYLOAD_BYTES
    BY <2>1 DEF Request
  <2> DEFINE a == cs[k][1]
             d == Len(cs[k])
  <2> HIDE DEF a, d
  <2>5. a \in 1..n /\ d \in 1..MAX_BATCH_SIZE /\ a + d <= n + 1
    BY <2>3 DEF a, d
  <2>6. /\ a + d \in 2..(n + 1) /\ a < a + d /\ (a + d) - a <= MAX_BATCH_SIZE
        /\ d = (a + d) - a
    BY <1>3, <2>5, Limits
  <2>7. QED
    BY <2>2, <2>4, <2>5, <2>6 DEF a, d
<1>5. First(cs) \in [1..m -> 1..n] /\ Behind(cs) \in [1..m -> 2..(n + 1)]
  <2>1. First(cs) = [k \in 1..m |-> First(cs)[k]] /\ Behind(cs) = [k \in 1..m |-> Behind(cs)[k]]
    BY DEF First, Behind, m
  <2>2. QED
    BY <1>4, <2>1
<1>6. First(cs)[1] = 1 /\ Behind(cs)[m] = n + 1
  <2>1. 1 \in 1..m /\ m \in 1..m
    BY <1>1
  <2>2. QED
    BY <1>1, <1>2, <2>1
<1>7. ASSUME NEW k \in 1..(m - 1)
      PROVE  /\ First(cs)[k + 1] = Behind(cs)[k]
             /\ \/ Behind(cs)[k] - First(cs)[k] >= MAX_BATCH_SIZE
                \/ Bytes(sizes, First(cs)[k], Behind(cs)[k]) > MAX_PAYLOAD_BYTES
  <2>1. k \in 1..m /\ k + 1 \in 1..m
    BY <1>1
  <2>2. Follows(sizes, cs[k], cs[k + 1])
    BY <1>1
  <2>3. /\ First(cs)[k] = cs[k][1] /\ Behind(cs)[k] = cs[k][1] + Len(cs[k])
        /\ First(cs)[k + 1] = cs[k + 1][1]
    BY <1>2, <2>1
  <2>4. Len(cs[k]) = Behind(cs)[k] - First(cs)[k]
    BY <1>4, <2>1
  <2>5. QED
    BY <2>2, <2>3, <2>4 DEF Follows
<1>8. QED
  BY <1>1, <1>4, <1>5, <1>6, <1>7 DEF m, n

\* A request lies before all later ones.
LEMMA RequestsInOrder ==
    ASSUME NEW sizes \in Seq(Nat), NEW cs, Divides(sizes, cs, Len(sizes)),
           NEW k \in 1..Len(cs), NEW l \in 1..Len(cs), k < l
    PROVE  Behind(cs)[k] <= First(cs)[l]
<1> DEFINE m == Len(cs)
           n == Len(sizes)
           F == First(cs)
           E == Behind(cs)
           T == {d \in Nat : k + d + 1 <= m => E[k] <= F[k + d + 1]}
<1>1. /\ m \in Nat \ {0} /\ n \in Nat
      /\ F \in [1..m -> 1..n] /\ E \in [1..m -> 2..(n + 1)]
      /\ \A i \in 1..m : F[i] < E[i]
      /\ \A i \in 1..(m - 1) : F[i + 1] = E[i]
  <2>1. m \in Nat \ {0} /\ n \in Nat
    BY Borders
  <2>2. F \in [1..m -> 1..n] /\ E \in [1..m -> 2..(n + 1)]
    BY Borders
  <2>3. \A i \in 1..m : F[i] < E[i]
    BY Borders
  <2>4. \A i \in 1..(m - 1) : F[i + 1] = E[i]
    BY Borders
  <2>5. QED
    BY <2>1, <2>2, <2>3, <2>4
<1>2. k \in 1..m /\ l \in 1..m /\ k < l
  OBVIOUS
<1> HIDE DEF m, n, F, E
<1>3. 0 \in T
  <2>1. ASSUME k + 0 + 1 <= m
        PROVE  E[k] <= F[k + 0 + 1]
    <3>1. k \in 1..(m - 1) /\ k + 0 + 1 = k + 1
      BY <1>1, <1>2, <2>1
    <3>2. F[k + 1] = E[k] /\ E[k] \in 2..(n + 1)
      BY <1>1, <1>2, <3>1
    <3>3. QED
      BY <1>1, <3>1, <3>2
  <2>2. QED
    BY <2>1
<1>4. ASSUME NEW d \in Nat, d \in T
      PROVE  d + 1 \in T
  <2> SUFFICES ASSUME k + (d + 1) + 1 <= m PROVE E[k] <= F[k + (d + 1) + 1]
    OBVIOUS
  <2> DEFINE i == k + d + 1
  <2>1. i \in 1..(m - 1) /\ i \in 1..m /\ i + 1 \in 1..m /\ k + (d + 1) + 1 = i + 1
    BY <1>1, <1>2
  <2>2. E[k] <= F[i]
    <3>1. k + d + 1 <= m
      BY <1>1, <2>1
    <3>2. QED
      BY <1>4, <3>1
  <2> HIDE DEF i
  <2>3. /\ F[i] < E[i] /\ F[i + 1] = E[i] /\ F[i] \in 1..n
        /\ E[i] \in 2..(n + 1) /\ E[k] \in 2..(n + 1)
    BY <1>1, <1>2, <2>1
  <2>4. E[k] <= F[i + 1]
    BY <1>1, <2>2, <2>3
  <2>5. QED
    BY <2>1, <2>4
<1> HIDE DEF T
<1>5. \A d \in Nat : d \in T
  BY <1>3, <1>4, InductionSet
<1>6. l - k - 1 \in Nat /\ k + (l - k - 1) + 1 = l
  BY <1>1, <1>2
<1>7. E[k] <= F[k + (l - k - 1) + 1]
  <2>1. k + (l - k - 1) + 1 <= m
    BY <1>1, <1>2, <1>6
  <2>2. l - k - 1 \in T
    BY <1>5, <1>6
  <2>3. QED
    BY <2>1, <2>2 DEF T
<1>8. E[k] <= F[l]
  BY <1>6, <1>7
<1>9. QED
  BY <1>8 DEF E, F

\* Every position lies in a request.
LEMMA RequestsCover ==
    ASSUME NEW sizes \in Seq(Nat), NEW cs, Divides(sizes, cs, Len(sizes)),
           NEW p \in 1..Len(sizes)
    PROVE  \E k \in 1..Len(cs) : First(cs)[k] <= p /\ p < Behind(cs)[k]
<1> DEFINE m == Len(cs)
           n == Len(sizes)
           F == First(cs)
           E == Behind(cs)
           T == {k \in 1..m : p < E[k]}
<1>1. /\ m \in Nat \ {0} /\ n \in Nat
      /\ F \in [1..m -> 1..n] /\ E \in [1..m -> 2..(n + 1)]
      /\ F[1] = 1 /\ E[m] = n + 1
      /\ \A i \in 1..(m - 1) : F[i + 1] = E[i]
  BY Borders
<1>2. p \in 1..n
  OBVIOUS
<1> HIDE DEF m, n, F, E
<1>3. m \in T
  <2>1. m \in 1..m
    BY <1>1
  <2>2. p < n + 1
    BY <1>1, <1>2
  <2>3. QED
    BY <1>1, <2>1, <2>2
<1>4. T \in SUBSET Nat /\ T # {}
  <2>1. \A k \in 1..m : k \in Nat
    OBVIOUS
  <2>2. QED
    BY <1>3, <2>1
<1>5. PICK k \in T : \A i \in T : k <= i
  BY <1>4, LeastNatural
<1>6. F[k] <= p
  <2>1. CASE k = 1
    BY <1>1, <1>2, <2>1
  <2>2. CASE k # 1
    <3>1. k - 1 \in 1..(m - 1) /\ k - 1 \in 1..m /\ (k - 1) + 1 = k /\ k \in Nat
      BY <1>1, <2>2
    <3>2. k - 1 \notin T
      BY <1>5, <3>1
    <3>3. ~ (p < E[k - 1]) /\ E[k - 1] \in 2..(n + 1) /\ F[k] = E[k - 1]
      BY <1>1, <3>1, <3>2
    <3>4. QED
      BY <1>1, <1>2, <3>3
  <2>3. QED
    BY <2>1, <2>2
<1>7. k \in 1..m /\ F[k] <= p /\ p < E[k]
  BY <1>6
<1>8. QED
  BY <1>7 DEF m, F, E

-------------------------------------------------------------------------------
(* The requests keep the limits and are as few as any.                     *)

\* A part of a stretch has no more bytes than the stretch.
LEMMA BytesOfPart ==
    ASSUME NEW sizes \in Seq(Nat), NEW a \in 1..Len(sizes), NEW b \in a..Len(sizes),
           NEW c \in 1..a, NEW d \in b..Len(sizes)
    PROVE  Bytes(sizes, a, b) <= Bytes(sizes, c, d)
<1> DEFINE B == BytesUpTo(sizes)
           n == Len(sizes)
<1>1. n \in Nat /\ B \in [0..n -> Nat] /\ \A y \in 0..n : \A x \in 0..y : B[x] <= B[y]
  <2>1. n \in Nat
    OBVIOUS
  <2>2. B \in [0..n -> Nat]
    BY BytesGrow
  <2>3. \A y \in 0..n : \A x \in 0..y : B[x] <= B[y]
    BY BytesGrow
  <2>4. QED
    BY <2>1, <2>2, <2>3
<1>2. a \in 1..n /\ b \in a..n /\ c \in 1..a /\ d \in b..n
  OBVIOUS
<1> HIDE DEF n, B
<1>3. /\ a - 1 \in 0..n /\ c - 1 \in 0..(a - 1) /\ c - 1 \in 0..n
      /\ d \in 0..n /\ b \in 0..d /\ b \in 0..n
  BY <1>1, <1>2
<1>4. B[c - 1] <= B[a - 1] /\ B[b] <= B[d]
  BY <1>1, <1>3
<1>5. B[c - 1] \in Nat /\ B[a - 1] \in Nat /\ B[b] \in Nat /\ B[d] \in Nat
  BY <1>1, <1>3
<1>6. B[b] - B[a - 1] <= B[d] - B[c - 1]
  BY <1>4, <1>5
<1>7. QED
  BY <1>6 DEF Bytes, B

\* The positions requests are cut at, other than the first.
Cuts(cs) == {cs[k][1] : k \in 2..Len(cs)}

\* Cut where the requests begin, no stretch exceeds a limit.
LEMMA CutsFit ==
    ASSUME NEW sizes \in Seq(Nat), NEW cs, Divides(sizes, cs, Len(sizes))
    PROVE  Fits(sizes, Cuts(cs))
<1> DEFINE m == Len(cs)
           n == Len(sizes)
           F == First(cs)
           E == Behind(cs)
<1>1. /\ m \in Nat \ {0} /\ n \in Nat
      /\ F \in [1..m -> 1..n] /\ E \in [1..m -> 2..(n + 1)]
      /\ E[m] = n + 1
  <2>1. m \in Nat \ {0} /\ n \in Nat
    BY Borders
  <2>2. F \in [1..m -> 1..n] /\ E \in [1..m -> 2..(n + 1)]
    BY Borders
  <2>3. E[m] = n + 1
    BY Borders
  <2>4. QED
    BY <2>1, <2>2, <2>3
<1>2. ASSUME NEW k \in 1..m
      PROVE  /\ E[k] - F[k] <= MAX_BATCH_SIZE
             /\ Bytes(sizes, F[k], E[k] - 1) <= MAX_PAYLOAD_BYTES
  BY Borders
<1>3. ASSUME NEW k \in 1..(m - 1)
      PROVE  F[k + 1] = E[k]
  BY Borders
<1>4. Cuts(cs) = {F[k] : k \in 2..m}
  <2>1. \A k \in 2..m : F[k] = cs[k][1]
    BY <1>1 DEF First
  <2>2. QED
    BY <2>1 DEF Cuts
<1> SUFFICES ASSUME NEW b \in 1..n, NEW a \in 1..b, Cuts(cs) \cap ((a + 1)..b) = {}
             PROVE  b - a < MAX_BATCH_SIZE /\ Bytes(sizes, a, b) <= MAX_PAYLOAD_BYTES
  BY DEF Fits
<1>5. a \in 1..n /\ b \in a..n
  BY <1>1
<1>6. PICK k \in 1..m : F[k] <= a /\ a < E[k]
  BY <1>5, RequestsCover
<1> HIDE DEF m, n, F, E
<1>7. F[k] \in 1..n /\ E[k] \in 2..(n + 1)
  BY <1>1
<1>8. b < E[k]
  <2> SUFFICES ASSUME E[k] <= b PROVE FALSE
    BY <1>5, <1>7
  <2>1. k # m
    BY <1>1, <1>5, <1>7
  <2>2. k \in 1..(m - 1) /\ k + 1 \in 2..m
    BY <1>1, <2>1
  <2>3. E[k] \in Cuts(cs)
    <3>1. F[k + 1] = E[k]
      BY <1>3, <2>2
    <3>2. QED
      BY <1>4, <2>2, <3>1
  <2>4. E[k] \in (a + 1)..b
    BY <1>5, <1>6, <1>7
  <2>5. QED
    BY <2>3, <2>4
<1>9. E[k] - F[k] <= MAX_BATCH_SIZE /\ Bytes(sizes, F[k], E[k] - 1) <= MAX_PAYLOAD_BYTES
  BY <1>2
<1>10. b - a < MAX_BATCH_SIZE
  BY <1>1, <1>5, <1>6, <1>7, <1>8, <1>9, Limits
<1>11. F[k] \in 1..a /\ E[k] - 1 \in b..n /\ F[k] \in 1..n /\ E[k] - 1 \in F[k]..n
  BY <1>1, <1>5, <1>6, <1>7, <1>8
<1>12. Bytes(sizes, a, b) <= Bytes(sizes, F[k], E[k] - 1)
  BY <1>5, <1>11, BytesOfPart DEF n
<1>13. Bytes(sizes, a, b) \in Nat /\ Bytes(sizes, F[k], E[k] - 1) \in Nat
  BY <1>5, <1>11, BytesStep DEF n
<1>14. QED
  BY <1>9, <1>10, <1>12, <1>13, Limits

\* Any other division has a cut in each request or right behind it.
LEMMA CutsFewest ==
    ASSUME NEW sizes \in Seq(Nat), NEW cs, Divides(sizes, cs, Len(sizes)),
           NEW other, other \subseteq 1..Len(sizes), Fits(sizes, other)
    PROVE  Cardinality(other) >= Cardinality(Cuts(cs))
<1> DEFINE m == Len(cs)
           n == Len(sizes)
           F == First(cs)
           E == Behind(cs)
<1>1. /\ m \in Nat \ {0} /\ n \in Nat
      /\ F \in [1..m -> 1..n] /\ E \in [1..m -> 2..(n + 1)]
  <2>1. m \in Nat \ {0} /\ n \in Nat
    BY Borders
  <2>2. F \in [1..m -> 1..n] /\ E \in [1..m -> 2..(n + 1)]
    BY Borders
  <2>3. QED
    BY <2>1, <2>2
<1>2. ASSUME NEW k \in 1..(m - 1)
      PROVE  /\ F[k + 1] = E[k]
             /\ \/ E[k] - F[k] >= MAX_BATCH_SIZE
                \/ Bytes(sizes, F[k], E[k]) > MAX_PAYLOAD_BYTES
  BY Borders
<1>3. ASSUME NEW k \in 1..m
      PROVE  F[k] < E[k]
  BY Borders
<1>4. ASSUME NEW k \in 1..m, NEW l \in 1..m, k < l
      PROVE  E[k] <= F[l]
  BY <1>4, RequestsInOrder
<1>5. Cuts(cs) = {F[k] : k \in 2..m}
  <2>1. \A k \in 2..m : F[k] = cs[k][1]
    BY <1>1 DEF First
  <2>2. QED
    BY <2>1 DEF Cuts
<1>6. ASSUME NEW b \in 1..n, NEW a \in 1..b, other \cap ((a + 1)..b) = {}
      PROVE  b - a < MAX_BATCH_SIZE /\ Bytes(sizes, a, b) <= MAX_PAYLOAD_BYTES
  <2>1. DOMAIN sizes = 1..n
    OBVIOUS
  <2>2. \A y \in DOMAIN sizes : \A x \in 1..y :
           other \cap ((x + 1)..y) = {} =>
              y - x < MAX_BATCH_SIZE /\ Bytes(sizes, x, y) <= MAX_PAYLOAD_BYTES
    BY Zenon DEF Fits
  <2>3. b \in DOMAIN sizes
    BY <2>1
  <2>4. QED
    BY <1>6, <2>2, <2>3, Zenon
<1>7. other \subseteq 1..n
  OBVIOUS
<1> HIDE DEF m, n, F, E
<1>8. ASSUME NEW k \in 1..(m - 1)
      PROVE  \E c \in other : F[k] < c /\ c <= E[k]
  <2> SUFFICES ASSUME \A c \in other : ~ (F[k] < c /\ c <= E[k]) PROVE FALSE
    OBVIOUS
  <2>1. k \in 1..m /\ k + 1 \in 1..m
    BY <1>1
  <2>2. F[k] \in 1..n /\ E[k] \in 2..(n + 1) /\ F[k] < E[k] /\ E[k] = F[k + 1] /\ F[k + 1] \in 1..n
    BY <1>1, <1>2, <1>3, <2>1
  <2>3. E[k] \in 1..n /\ F[k] \in 1..E[k]
    BY <1>1, <2>2
  <2>4. other \cap ((F[k] + 1)..E[k]) = {}
    <3>1. ASSUME NEW c \in (F[k] + 1)..E[k]
          PROVE  F[k] < c /\ c <= E[k]
      BY <2>2
    <3>2. QED
      BY <3>1
  <2>5. E[k] - F[k] < MAX_BATCH_SIZE /\ Bytes(sizes, F[k], E[k]) <= MAX_PAYLOAD_BYTES
    BY <1>6, <2>3, <2>4
  <2>6. Bytes(sizes, F[k], E[k]) \in Nat
    <3>1. F[k] \in 1..n /\ E[k] \in F[k]..n
      BY <1>1, <2>2, <2>3
    <3>2. QED
      BY <3>1, BytesStep DEF n
  <2>7. E[k] - F[k] \in Int
    BY <2>2
  <2>8. CASE E[k] - F[k] >= MAX_BATCH_SIZE
    BY <2>5, <2>7, <2>8, Limits
  <2>9. CASE Bytes(sizes, F[k], E[k]) > MAX_PAYLOAD_BYTES
    BY <2>5, <2>6, <2>9, Limits
  <2>10. QED
    BY <1>2, <2>8, <2>9
<1> DEFINE K == 1..(m - 1)
           g == [k \in K |-> CHOOSE c \in other : F[k] < c /\ c <= E[k]]
           h == [k \in K |-> F[k + 1]]
<1>9. ASSUME NEW k \in K
      PROVE  g[k] \in other /\ F[k] < g[k] /\ g[k] <= E[k]
  BY <1>8
<1>10. g \in [K -> other]
  BY <1>9
<1> HIDE DEF g
<1>11. ASSUME NEW k \in K, NEW l \in K, k < l
       PROVE  g[k] # g[l]
  <2>1. k \in 1..m /\ l \in 1..m
    BY <1>1
  <2>2. E[k] <= F[l]
    BY <1>4, <1>11, <2>1
  <2>3. g[k] \in other /\ g[l] \in other /\ g[k] <= E[k] /\ F[l] < g[l]
    BY <1>9
  <2>4. g[k] \in 1..n /\ g[l] \in 1..n
    BY <1>7, <2>3
  <2>5. E[k] \in 2..(n + 1) /\ F[l] \in 1..n
    BY <1>1, <2>1
  <2>6. QED
    BY <1>1, <2>2, <2>3, <2>4, <2>5
<1>12. g \in Injection(K, other)
  <2>1. ASSUME NEW k \in K, NEW l \in K, g[k] = g[l]
        PROVE  k = l
    <3>1. k \in Int /\ l \in Int
      BY <1>1
    <3>2. ~ (k < l) /\ ~ (l < k)
      BY <1>11, <2>1
    <3>3. QED
      BY <3>1, <3>2
  <2>2. DOMAIN g = K
    BY <1>10
  <2>3. IsInjective(g)
    BY <2>1, <2>2 DEF IsInjective
  <2>4. QED
    BY <1>10, <2>3 DEF Injection
<1>13. IsFiniteSet(other)
  <2>1. IsFiniteSet(1..n)
    BY <1>1, FS_Interval
  <2>2. QED
    BY <1>7, <2>1, FS_Subset
<1>14. Cardinality(K) <= Cardinality(other) /\ IsFiniteSet(K)
  BY <1>12, <1>13, FS_Injection
<1>15. h \in Surjection(K, Cuts(cs))
  <2>1. ASSUME NEW k \in K
        PROVE  F[k + 1] \in Cuts(cs)
    <3>1. k + 1 \in 2..m
      BY <1>1
    <3>2. QED
      BY <1>5, <3>1
  <2>2. h \in [K -> Cuts(cs)]
    BY <2>1
  <2>3. ASSUME NEW t \in Cuts(cs)
        PROVE  \E k \in K : h[k] = t
    <3>1. PICK l \in 2..m : t = F[l]
      BY <1>5
    <3>2. l - 1 \in K /\ (l - 1) + 1 = l
      BY <1>1
    <3>3. h[l - 1] = F[l]
      BY <3>2
    <3>4. QED
      BY <3>1, <3>2, <3>3
  <2>4. QED
    BY <2>2, <2>3 DEF Surjection
<1> HIDE DEF h
<1>16. Cardinality(Cuts(cs)) <= Cardinality(K) /\ IsFiniteSet(Cuts(cs))
  BY <1>14, <1>15, FS_Surjection
<1>17. Cardinality(Cuts(cs)) \in Nat /\ Cardinality(K) \in Nat /\ Cardinality(other) \in Nat
  BY <1>13, <1>14, <1>16, FS_CardinalityType
<1>18. QED
  BY <1>14, <1>16, <1>17

\* What a request holds.
LEMMA RequestHolds ==
    ASSUME NEW sizes \in Seq(Nat), NEW cs, Divides(sizes, cs, Len(sizes)), NEW k \in 1..Len(cs)
    PROVE  {cs[k][j] : j \in DOMAIN cs[k]} = First(cs)[k]..(Behind(cs)[k] - 1)
<1> DEFINE a == First(cs)[k]
           e == Behind(cs)[k]
           d == Len(cs[k])
<1>1. cs[k] \in Seq(Nat)
  BY DEF Divides, Request
<1>2. DOMAIN cs[k] = 1..d /\ d \in Nat
  BY <1>1
<1>3. a \in 1..Len(sizes) /\ e \in 2..(Len(sizes) + 1) /\ Len(sizes) \in Nat
  BY Borders
<1>4. d = e - a /\ \A j \in 1..d : cs[k][j] = a + (j - 1)
  <2>1. Len(cs[k]) = Behind(cs)[k] - First(cs)[k]
    BY Borders
  <2>2. \A j \in 1..Len(cs[k]) : cs[k][j] = First(cs)[k] + (j - 1)
    BY Borders
  <2>3. QED
    BY <2>1, <2>2
<1> HIDE DEF a, e, d
<1>5. ASSUME NEW j \in 1..d
      PROVE  cs[k][j] \in a..(e - 1)
  <2>1. cs[k][j] = a + (j - 1)
    BY <1>4
  <2>2. QED
    BY <1>2, <1>3, <1>4, <2>1
<1>6. ASSUME NEW p \in a..(e - 1)
      PROVE  \E j \in 1..d : cs[k][j] = p
  <2>1. p - a + 1 \in 1..d /\ a + ((p - a + 1) - 1) = p
    BY <1>2, <1>3, <1>4
  <2>2. cs[k][p - a + 1] = a + ((p - a + 1) - 1)
    BY <1>4, <2>1
  <2>3. QED
    BY <2>1, <2>2
<1>7. {cs[k][j] : j \in 1..d} = a..(e - 1)
  BY <1>5, <1>6
<1>8. QED
  BY <1>2, <1>7 DEF a, e

\* No position is in two requests.
LEMMA RequestsDisjoint ==
    ASSUME NEW sizes \in Seq(Nat), NEW cs, Divides(sizes, cs, Len(sizes)),
           NEW k \in 1..Len(cs), NEW l \in 1..Len(cs), k # l
    PROVE  {cs[k][j] : j \in DOMAIN cs[k]} \cap {cs[l][j] : j \in DOMAIN cs[l]} = {}
<1>1. ASSUME NEW x \in 1..Len(cs), NEW y \in 1..Len(cs), x < y
      PROVE  (First(cs)[x]..(Behind(cs)[x] - 1)) \cap (First(cs)[y]..(Behind(cs)[y] - 1)) = {}
  <2>1. Behind(cs)[x] <= First(cs)[y]
    BY <1>1, RequestsInOrder
  <2>2. /\ First(cs)[x] \in 1..Len(sizes) /\ Behind(cs)[x] \in 2..(Len(sizes) + 1)
        /\ First(cs)[y] \in 1..Len(sizes) /\ Behind(cs)[y] \in 2..(Len(sizes) + 1)
        /\ Len(sizes) \in Nat
    <3>1. First(cs)[x] \in 1..Len(sizes) /\ First(cs)[y] \in 1..Len(sizes)
      BY Borders
    <3>2. Behind(cs)[x] \in 2..(Len(sizes) + 1) /\ Behind(cs)[y] \in 2..(Len(sizes) + 1)
      BY Borders
    <3>3. QED
      BY <3>1, <3>2
  <2>3. QED
    BY <2>1, <2>2
<1>2. Len(cs) \in Nat
  BY Borders
<1>3. k < l \/ l < k
  BY <1>2
<1>4. /\ {cs[k][j] : j \in DOMAIN cs[k]} = First(cs)[k]..(Behind(cs)[k] - 1)
      /\ {cs[l][j] : j \in DOMAIN cs[l]} = First(cs)[l]..(Behind(cs)[l] - 1)
  BY RequestHolds
<1>5. QED
  BY <1>1, <1>3, <1>4

-------------------------------------------------------------------------------
(* ChunksOptimal.                                                          *)

\* The requests are those of the bodies, or there are none.
ChunksInv ==
    /\ status = "called" => chunks = << >>
    /\ chunks # << >> => bodies \in Seq(Nat) /\ Divides(bodies, chunks, Len(bodies))

\* A submission stores the requests of its bodies, or none.
LEMMA SubmitDivides ==
    ASSUME NEW n \in Nat, NEW sizes \in [1..n -> Sizes], Submit(sizes), ChunksInv
    PROVE  ChunksInv'
<1>1. status = "called" /\ bodies' = sizes /\ chunks = << >>
  BY DEF Submit, ChunksInv
<1>2. sizes \in Seq(Nat) /\ Len(sizes) = n /\ DOMAIN sizes = 1..n
  <2>1. sizes \in [1..n -> Nat]
    BY BatchAssumption
  <2>2. QED
    BY <2>1, SeqDef
<1>3. CASE Len(sizes) = 0 \/ Len(sizes) > MAX_BATCH_PAYLOADS
           \/ \E i \in DOMAIN sizes : sizes[i] > MAX_PAYLOAD_BYTES
  BY <1>1, <1>3 DEF Submit, ChunksInv
<1>4. CASE ~ (Len(sizes) = 0 \/ Len(sizes) > MAX_BATCH_PAYLOADS
              \/ \E i \in DOMAIN sizes : sizes[i] > MAX_PAYLOAD_BYTES)
  <2>1. status' = "sending" /\ chunks' = chunkBatch(sizes)
    BY <1>4 DEF Submit
  <2>2. Len(sizes) > 0
    BY <1>2, <1>4
  <2>3. \A j \in 1..Len(sizes) : sizes[j] <= MAX_PAYLOAD_BYTES
    <3>1. ASSUME NEW j \in 1..Len(sizes)
          PROVE  sizes[j] <= MAX_PAYLOAD_BYTES
      <4>1. sizes[j] \in Nat /\ ~ (sizes[j] > MAX_PAYLOAD_BYTES)
        BY <1>2, <1>4
      <4>2. QED
        BY <4>1, Limits
    <3>2. QED
      BY <3>1
  <2>4. Divides(sizes, chunkBatch(sizes), Len(sizes))
    BY <1>2, <2>2, <2>3, ChunkBatchDivides
  <2>5. QED
    BY <1>1, <1>2, <2>1, <2>4 DEF ChunksInv
<1>5. QED
  BY <1>3, <1>4

\* A step is a submission, an answer to all requests, the record of a group, or
\* one of a worker.
LEMMA BatchSteps ==
    ASSUME BatchNext,
           NEW P,
           ASSUME NEW n \in Nat, NEW sizes \in [1..n -> Sizes], Submit(sizes) PROVE P,
           ASSUME Collect PROVE P,
           ASSUME NEW W, Record(W) PROVE P,
           ASSUME NEW w \in Worker, Take(w) \/ Skip(w) \/ StopWorker(w) PROVE P,
           ASSUME NEW w \in Worker, sending[w] # 0, NEW ok, NEW bad, NEW unsaid,
                  ok \subseteq InChunk(sending[w]), bad \subseteq InChunk(sending[w]),
                  unsaid \subseteq InChunk(sending[w]),
                  ok \cap bad = {}, Answer(w, ok, bad, unsaid) PROVE P,
           ASSUME NEW w \in Worker, NEW carriedOut, SendFails(w, carriedOut) PROVE P
    PROVE  P
<1>1. CASE \E n \in 0..MaxPayloads : \E sizes \in [1..n -> Sizes] : Submit(sizes)
  BY <1>1
<1>2. CASE \E W \in SUBSET Index : Record(W)
  BY <1>2
<1>3. ASSUME NEW w \in Worker, SomeAnswer(w)
      PROVE  P
  <2>1. PICK ok, bad, unsaid \in SUBSET (IF sending[w] = 0 THEN {} ELSE InChunk(sending[w])) :
           ok \cap bad = {} /\ Answer(w, ok, bad, unsaid)
    BY <1>3 DEF SomeAnswer
  <2>2. sending[w] # 0
    BY <2>1 DEF Answer
  <2>3. /\ ok \subseteq InChunk(sending[w]) /\ bad \subseteq InChunk(sending[w])
        /\ unsaid \subseteq InChunk(sending[w])
    BY <2>2
  <2>4. QED
    BY <2>1, <2>2, <2>3
<1>4. QED
  BY <1>1, <1>2, <1>3 DEF BatchNext, CallStep, WorkerStep

\* No other step touches the bodies or the requests.
LEMMA ChunksInvStep ==
    ASSUME BatchNext, ChunksInv
    PROVE  ChunksInv'
<1>1. ASSUME NEW n \in Nat, NEW sizes \in [1..n -> Sizes], Submit(sizes)
      PROVE  ChunksInv'
  BY <1>1, SubmitDivides
<1>2. ASSUME UNCHANGED <<bodies, chunks>>, status' = status \/ status' # "called"
      PROVE  ChunksInv'
  BY <1>2 DEF ChunksInv
<1>3. ASSUME Collect
      PROVE  ChunksInv'
  <2>1. UNCHANGED <<bodies, chunks>> /\ status' # "called"
    BY <1>3 DEF Collect
  <2>2. QED
    BY <1>2, <2>1
<1>4. ASSUME NEW W, Record(W)
      PROVE  ChunksInv'
  <2>1. UNCHANGED <<bodies, chunks>> /\ status' # "called"
    BY <1>4 DEF Record
  <2>2. QED
    BY <1>2, <2>1
<1>5. ASSUME NEW w \in Worker, Take(w) \/ Skip(w) \/ StopWorker(w)
      PROVE  ChunksInv'
  <2>1. UNCHANGED <<bodies, chunks, status>>
    BY <1>5 DEF Take, Skip, StopWorker
  <2>2. QED
    BY <1>2, <2>1
<1>6. ASSUME NEW w \in Worker, NEW ok, NEW bad, NEW unsaid, Answer(w, ok, bad, unsaid)
      PROVE  ChunksInv'
  <2>1. UNCHANGED <<bodies, chunks, status>>
    BY <1>6 DEF Answer
  <2>2. QED
    BY <1>2, <2>1
<1>7. ASSUME NEW w \in Worker, NEW carriedOut, SendFails(w, carriedOut)
      PROVE  ChunksInv'
  <2>1. UNCHANGED <<bodies, chunks, status>>
    BY <1>7 DEF SendFails
  <2>2. QED
    BY <1>2, <2>1
<1>8. QED
  BY <1>1, <1>3, <1>4, <1>5, <1>6, <1>7, BatchSteps

\* Whatever a call has cut its payloads into divides them.
LEMMA ChunksInvHolds == BatchSpec => []ChunksInv
<1>1. BatchInit => ChunksInv
  BY DEF BatchInit, ChunksInv
<1>2. ChunksInv /\ [BatchNext]_batchVars => ChunksInv'
  <2>1. CASE UNCHANGED batchVars
    BY <2>1 DEF batchVars, ChunksInv
  <2>2. QED
    BY <2>1, ChunksInvStep
<1>3. QED
  BY <1>1, <1>2, PTL DEF BatchSpec

\* The requests hold the payloads in order, within SQS's limits, in as few
\* requests as any such division (index.aws.ts chunkBatch).
THEOREM FewestRequests == BatchSpec => []ChunksOptimal
<1>1. ASSUME ChunksInv
      PROVE  ChunksOptimal
  <2> SUFFICES ASSUME chunks # << >>
               PROVE  LET cuts == {chunks[k][1] : k \in 2..Len(chunks)}
                      IN  /\ \A k \in DOMAIN chunks : chunks[k] # << >>
                          /\ \A k \in DOMAIN chunks : \A j \in DOMAIN chunks[k] :
                                chunks[k][j] = chunks[k][1] + (j - 1)
                          /\ \A k, l \in DOMAIN chunks : k < l =>
                                chunks[k][1] + Len(chunks[k]) <= chunks[l][1]
                          /\ UNION {InChunk(k) : k \in DOMAIN chunks} = Index
                          /\ Fits(bodies, cuts)
                          /\ \A other \in SUBSET (Index \ {1}) :
                                Fits(bodies, other) => Cardinality(other) >= Cardinality(cuts)
    BY DEF ChunksOptimal
  <2>1. bodies \in Seq(Nat) /\ Divides(bodies, chunks, Len(bodies))
    BY <1>1 DEF ChunksInv
  <2>2. /\ DOMAIN chunks = 1..Len(chunks) /\ Len(chunks) \in Nat
        /\ DOMAIN bodies = 1..Len(bodies) /\ Len(bodies) \in Nat
    <3>1. chunks \in Seq(Seq(Nat))
      BY <2>1 DEF Divides
    <3>2. QED
      BY <2>1, <3>1
  <2>3. ASSUME NEW k \in DOMAIN chunks
        PROVE  /\ chunks[k] # << >>
               /\ \A j \in DOMAIN chunks[k] : chunks[k][j] = chunks[k][1] + (j - 1)
    <3>1. Request(bodies, chunks[k])
      BY <2>1, <2>2 DEF Divides
    <3>2. chunks[k] \in Seq(Nat) /\ Len(chunks[k]) \in 1..MAX_BATCH_SIZE
      BY <3>1 DEF Request
    <3>3. chunks[k] # << >> /\ DOMAIN chunks[k] = 1..Len(chunks[k])
      BY <3>2
    <3>4. QED
      BY <3>1, <3>3 DEF Request
  <2>4. ASSUME NEW k \in DOMAIN chunks, NEW l \in DOMAIN chunks, k < l
        PROVE  chunks[k][1] + Len(chunks[k]) <= chunks[l][1]
    <3>1. Behind(chunks)[k] <= First(chunks)[l]
      BY <2>1, <2>2, <2>4, RequestsInOrder
    <3>2. QED
      BY <2>2, <3>1 DEF First, Behind
  <2>5. UNION {InChunk(k) : k \in DOMAIN chunks} = Index
    <3>1. ASSUME NEW k \in DOMAIN chunks
          PROVE  InChunk(k) = First(chunks)[k]..(Behind(chunks)[k] - 1)
      <4>1. {chunks[k][j] : j \in DOMAIN chunks[k]} = First(chunks)[k]..(Behind(chunks)[k] - 1)
        BY <2>1, <2>2, RequestHolds
      <4>2. QED
        BY <4>1 DEF InChunk
    <3>2. ASSUME NEW k \in DOMAIN chunks
          PROVE  InChunk(k) \subseteq Index
      <4>1. First(chunks)[k] \in 1..Len(bodies)
        BY <2>1, <2>2, Borders
      <4>2. Behind(chunks)[k] \in 2..(Len(bodies) + 1)
        BY <2>1, <2>2, Borders
      <4>3. QED
        BY <2>2, <3>1, <4>1, <4>2 DEF Index
    <3>3. ASSUME NEW p \in Index
          PROVE  \E k \in DOMAIN chunks : p \in InChunk(k)
      <4>1. p \in 1..Len(bodies)
        BY <2>2 DEF Index
      <4>2. PICK k \in 1..Len(chunks) : First(chunks)[k] <= p /\ p < Behind(chunks)[k]
        BY <2>1, <4>1, RequestsCover
      <4>3. First(chunks)[k] \in 1..Len(bodies)
        BY <2>1, Borders
      <4>4. Behind(chunks)[k] \in 2..(Len(bodies) + 1)
        BY <2>1, Borders
      <4>5. p \in First(chunks)[k]..(Behind(chunks)[k] - 1)
        BY <2>2, <4>1, <4>2, <4>3, <4>4
      <4>6. QED
        BY <2>2, <3>1, <4>5
    <3>4. QED
      BY <3>2, <3>3
  <2>6. {chunks[k][1] : k \in 2..Len(chunks)} = Cuts(chunks)
    BY DEF Cuts
  <2>7. Fits(bodies, Cuts(chunks))
    BY <2>1, CutsFit
  <2>8. ASSUME NEW other \in SUBSET (Index \ {1}), Fits(bodies, other)
        PROVE  Cardinality(other) >= Cardinality(Cuts(chunks))
    <3>1. other \subseteq 1..Len(bodies)
      BY <2>2 DEF Index
    <3>2. QED
      BY <2>1, <2>8, <3>1, CutsFewest
  <2>9. QED
    BY <2>3, <2>4, <2>5, <2>6, <2>7, <2>8
<1>2. QED
  BY <1>1, ChunksInvHolds, PTL

-------------------------------------------------------------------------------
(* OneOutcomeEach.                                                         *)

\* A worker that waits for a request is one of those started, and waits alone.
WorkInv ==
    /\ next \in Nat \ {0}
    /\ sending \in [Worker -> Nat]
    /\ \A w \in Worker : sending[w] # 0 =>
          /\ status = "sending" /\ w \notin ended /\ w <= Len(chunks)
          /\ sending[w] \in 1..Len(chunks) /\ sending[w] < next
    /\ \A v, w \in Worker : v # w /\ sending[v] # 0 => sending[v] # sending[w]

\* Request k has not been settled.
Open(k) == k >= next \/ \E w \in Worker : sending[w] = k

\* At most one outcome for each position, and none while its request is open.
OutcomeInv ==
    /\ status \in {"called", "rejected"} => jobIds = {}
    /\ status \in {"sending", "recording", "returned", "threw"} => failed \in [Index -> Nat]
    /\ status = "sending" => \A i \in Index : failed[i] <= 1 /\ (i \in jobIds => failed[i] = 0)
    /\ status = "sending" =>
          \A k \in 1..Len(chunks) : Open(k) =>
             \A i \in Index \cap InChunk(k) : i \notin jobIds /\ failed[i] = 0
    /\ OneOutcomeEach

\* Every step keeps the requests in flight apart, and keeps them from a worker that ended.
LEMMA WorkInvStep ==
    ASSUME BatchNext, WorkInv
    PROVE  WorkInv'
<1>1. ASSUME NEW n \in Nat, NEW sizes \in [1..n -> Sizes], Submit(sizes)
      PROVE  WorkInv'
  <2>1. status = "called" /\ next' = next /\ sending' = sending
    BY <1>1 DEF Submit
  <2>2. \A w \in Worker : sending[w] = 0
    BY <2>1 DEF WorkInv
  <2>3. QED
    BY <2>1, <2>2 DEF WorkInv
<1>2. ASSUME Collect
      PROVE  WorkInv'
  <2>1. status = "sending" /\ AllEnded /\ UNCHANGED <<next, sending, ended, chunks>>
    BY <1>2 DEF Collect
  <2>2. \A w \in Worker : sending[w] = 0
    BY <2>1 DEF WorkInv, AllEnded, Started
  <2>3. QED
    BY <2>1, <2>2 DEF WorkInv
<1>3. ASSUME NEW W, Record(W)
      PROVE  WorkInv'
  <2>1. status = "recording" /\ UNCHANGED <<next, sending, ended, chunks>>
    BY <1>3 DEF Record
  <2>2. \A w \in Worker : sending[w] = 0
    BY <2>1 DEF WorkInv
  <2>3. QED
    BY <2>1, <2>2 DEF WorkInv
<1>4. ASSUME NEW w \in Worker, Take(w)
      PROVE  WorkInv'
  <2>1. /\ status = "sending" /\ w <= Len(chunks) /\ sending[w] = 0 /\ w \notin ended
        /\ next <= Len(chunks) /\ next' = next + 1
        /\ sending' = [sending EXCEPT ![w] = next]
        /\ UNCHANGED <<chunks, ended, status>>
    BY <1>4 DEF Take, Free, Started
  <2>2. next \in Nat \ {0} /\ sending \in [Worker -> Nat]
    BY DEF WorkInv
  <2>3. sending' \in [Worker -> Nat] /\ next' \in Nat \ {0}
    BY <2>1, <2>2
  <2>4. /\ sending'[w] = next
        /\ \A v \in Worker : v # w => sending'[v] = sending[v]
    BY <2>1, <2>2
  <2>5. ASSUME NEW v \in Worker, sending'[v] # 0
        PROVE  /\ status' = "sending" /\ v \notin ended' /\ v <= Len(chunks')
               /\ sending'[v] \in 1..Len(chunks') /\ sending'[v] < next'
    <3>1. CASE v = w
      BY <2>1, <2>2, <2>4, <3>1
    <3>2. CASE v # w
      <4>1. sending'[v] = sending[v] /\ sending[v] # 0 /\ sending[v] \in Nat
        BY <2>2, <2>4, <2>5, <3>2
      <4>2. /\ v \notin ended /\ v <= Len(chunks)
            /\ sending[v] \in 1..Len(chunks) /\ sending[v] < next
        BY <4>1 DEF WorkInv
      <4>3. sending[v] < next'
        BY <2>1, <2>2, <4>1, <4>2
      <4>4. QED
        BY <2>1, <4>1, <4>2, <4>3
    <3>3. QED
      BY <3>1, <3>2
  <2>6. ASSUME NEW u \in Worker, NEW v \in Worker, u # v, sending'[u] # 0
        PROVE  sending'[u] # sending'[v]
    <3>1. \A x \in Worker : sending[x] # next
      BY <2>2 DEF WorkInv
    <3>2. CASE u = w
      BY <2>4, <2>6, <3>1, <3>2
    <3>3. CASE v = w
      BY <2>4, <2>6, <3>1, <3>3
    <3>4. CASE u # w /\ v # w
      BY <2>4, <2>6, <3>4 DEF WorkInv
    <3>5. QED
      BY <3>2, <3>3, <3>4
  <2>7. QED
    BY <2>3, <2>5, <2>6 DEF WorkInv
<1>5. ASSUME NEW w \in Worker, Skip(w)
      PROVE  WorkInv'
  <2>1. next' = next + 1 /\ UNCHANGED <<sending, ended, chunks, status>>
    BY <1>5 DEF Skip
  <2>2. next \in Nat \ {0} /\ sending \in [Worker -> Nat]
    BY DEF WorkInv
  <2>3. \A v \in Worker : sending[v] < next => sending[v] < next'
    BY <2>1, <2>2
  <2>4. next' \in Nat \ {0}
    BY <2>1, <2>2
  <2>5. QED
    BY <2>1, <2>3, <2>4 DEF WorkInv
<1>6. ASSUME NEW w \in Worker, StopWorker(w)
      PROVE  WorkInv'
  <2>1. /\ sending[w] = 0 /\ ended' = ended \cup {w}
        /\ UNCHANGED <<next, sending, chunks, status>>
    BY <1>6 DEF StopWorker, Free
  <2>2. QED
    BY <2>1 DEF WorkInv
<1>7. ASSUME NEW w \in Worker, sending' = [sending EXCEPT ![w] = 0],
             UNCHANGED <<next, ended, chunks, status>>
      PROVE  WorkInv'
  <2>1. sending \in [Worker -> Nat]
    BY DEF WorkInv
  <2>2. /\ sending' \in [Worker -> Nat] /\ sending'[w] = 0
        /\ \A v \in Worker : v # w => sending'[v] = sending[v]
    BY <1>7, <2>1
  <2>3. ASSUME NEW v \in Worker, sending'[v] # 0
        PROVE  /\ status' = "sending" /\ v \notin ended' /\ v <= Len(chunks')
               /\ sending'[v] \in 1..Len(chunks') /\ sending'[v] < next'
    BY <1>7, <2>2, <2>3 DEF WorkInv
  <2>4. ASSUME NEW u \in Worker, NEW v \in Worker, u # v, sending'[u] # 0
        PROVE  sending'[u] # sending'[v]
    BY <2>2, <2>4 DEF WorkInv
  <2>5. next' \in Nat \ {0}
    BY <1>7 DEF WorkInv
  <2>6. QED
    BY <2>2, <2>3, <2>4, <2>5 DEF WorkInv
<1>8. ASSUME NEW w \in Worker, NEW ok, NEW bad, NEW unsaid, Answer(w, ok, bad, unsaid)
      PROVE  WorkInv'
  <2>1. sending' = [sending EXCEPT ![w] = 0] /\ UNCHANGED <<next, ended, chunks, status>>
    BY <1>8 DEF Answer
  <2>2. QED
    BY <1>7, <2>1
<1>9. ASSUME NEW w \in Worker, NEW carriedOut, SendFails(w, carriedOut)
      PROVE  WorkInv'
  <2>1. sending' = [sending EXCEPT ![w] = 0] /\ UNCHANGED <<next, ended, chunks, status>>
    BY <1>9 DEF SendFails
  <2>2. QED
    BY <1>7, <2>1
<1>10. ASSUME NEW w \in Worker, Take(w) \/ Skip(w) \/ StopWorker(w)
       PROVE  WorkInv'
  BY <1>4, <1>5, <1>6, <1>10
<1>11. QED
  BY <1>1, <1>2, <1>3, <1>8, <1>9, <1>10, BatchSteps

\* No request is sent by two workers, and none outside the sending.
LEMMA WorkInvHolds == BatchSpec => []WorkInv
<1>1. BatchInit => WorkInv
  BY DEF BatchInit, WorkInv
<1>2. WorkInv /\ [BatchNext]_batchVars => WorkInv'
  <2>1. CASE UNCHANGED batchVars
    BY <2>1 DEF batchVars, WorkInv
  <2>2. QED
    BY <2>1, WorkInvStep
<1>3. QED
  BY <1>1, <1>2, PTL DEF BatchSpec

\* No payload is in two of the requests.
LEMMA ChunksDisjoint ==
    ASSUME ChunksInv, NEW k \in 1..Len(chunks), NEW l \in 1..Len(chunks), k # l
    PROVE  InChunk(k) \cap InChunk(l) = {}
<1>1. chunks # << >>
  OBVIOUS
<1>2. bodies \in Seq(Nat) /\ Divides(bodies, chunks, Len(bodies))
  BY <1>1 DEF ChunksInv
<1>3. {chunks[k][j] : j \in DOMAIN chunks[k]} \cap {chunks[l][j] : j \in DOMAIN chunks[l]} = {}
  BY <1>2, RequestsDisjoint
<1>4. QED
  BY <1>3 DEF InChunk

\* A worker that takes, skips or finds no request opens none.
LEMMA FewerOpen ==
    ASSUME WorkInv, NEW w \in Worker, Take(w) \/ Skip(w) \/ StopWorker(w)
    PROVE  \A k \in 1..Len(chunks) : Open(k)' => Open(k)
<1>1. next \in Nat \ {0} /\ sending \in [Worker -> Nat]
  BY DEF WorkInv
<1>2. CASE Take(w)
  <2>1. next' = next + 1 /\ sending' = [sending EXCEPT ![w] = next]
    BY <1>2 DEF Take
  <2>2. ASSUME NEW k \in 1..Len(chunks), Open(k)'
        PROVE  Open(k)
    <3>1. CASE k >= next'
      BY <1>1, <2>1, <3>1 DEF Open
    <3>2. ASSUME NEW v \in Worker, sending'[v] = k
          PROVE  Open(k)
      <4>1. CASE v = w
        BY <1>1, <2>1, <3>2, <4>1 DEF Open
      <4>2. CASE v # w
        BY <1>1, <2>1, <3>2, <4>2 DEF Open
      <4>3. QED
        BY <4>1, <4>2
    <3>3. QED
      BY <2>2, <3>1, <3>2 DEF Open
  <2>3. QED
    BY <2>2
<1>3. CASE Skip(w)
  <2>1. next' = next + 1 /\ sending' = sending
    BY <1>3 DEF Skip
  <2>2. QED
    BY <1>1, <2>1 DEF Open
<1>4. CASE StopWorker(w)
  BY <1>4 DEF StopWorker, Open
<1>5. QED
  BY <1>2, <1>3, <1>4

\* A request that is answered or fails was open, and is the only one to be settled.
LEMMA OneFewerOpen ==
    ASSUME WorkInv, NEW w \in Worker, sending[w] # 0, sending' = [sending EXCEPT ![w] = 0],
           UNCHANGED next
    PROVE  /\ status = "sending" /\ sending[w] \in 1..Len(chunks) /\ Open(sending[w])
           /\ \A k \in 1..Len(chunks) : Open(k)' => Open(k) /\ k # sending[w]
<1>1. /\ status = "sending" /\ sending[w] \in 1..Len(chunks) /\ sending[w] < next
      /\ next \in Nat \ {0} /\ sending \in [Worker -> Nat]
  BY DEF WorkInv
<1>2. ASSUME NEW k \in 1..Len(chunks), Open(k)'
      PROVE  Open(k) /\ k # sending[w]
  <2>1. CASE k >= next'
    BY <1>1, <2>1 DEF Open
  <2>2. ASSUME NEW v \in Worker, sending'[v] = k
        PROVE  Open(k) /\ k # sending[w]
    <3>1. v # w
      BY <1>1, <2>2
    <3>2. sending[v] = k
      BY <1>1, <2>2, <3>1
    <3>3. sending[w] # sending[v]
      BY <3>1 DEF WorkInv
    <3>4. QED
      BY <3>2, <3>3 DEF Open
  <2>3. QED
    BY <1>2, <2>1, <2>2 DEF Open
<1>3. Open(sending[w])
  BY DEF Open
<1>4. QED
  BY <1>1, <1>2, <1>3

\* An open request is settled: ok of it get an id, bad of it an entry of `failed`.
LEMMA Settles ==
    ASSUME ChunksInv, OutcomeInv, status = "sending",
           NEW k0 \in 1..Len(chunks), Open(k0),
           NEW ok, NEW bad, ok \subseteq InChunk(k0), bad \subseteq InChunk(k0), ok \cap bad = {},
           jobIds' = jobIds \cup ok,
           failed' = [i \in Index |-> IF i \in bad THEN failed[i] + 1 ELSE failed[i]],
           UNCHANGED <<bodies, chunks, status>>,
           \A k \in 1..Len(chunks) : Open(k)' => Open(k) /\ k # k0
    PROVE  OutcomeInv'
<1>1. /\ failed \in [Index -> Nat]
      /\ \A i \in Index : failed[i] <= 1 /\ (i \in jobIds => failed[i] = 0)
      /\ \A k \in 1..Len(chunks) : Open(k) =>
            \A i \in Index \cap InChunk(k) : i \notin jobIds /\ failed[i] = 0
  BY DEF OutcomeInv
<1>2. Index' = Index /\ \A k : InChunk(k)' = InChunk(k)
  BY DEF Index, InChunk
<1>3. \A i \in Index : failed'[i] = IF i \in bad THEN failed[i] + 1 ELSE failed[i]
  OBVIOUS
<1>4. failed' \in [Index' -> Nat]
  BY <1>1, <1>2
<1>5. ASSUME NEW i \in Index
      PROVE  failed'[i] <= 1 /\ (i \in jobIds' => failed'[i] = 0)
  <2>1. CASE i \in ok \cup bad
    <3>1. i \notin jobIds /\ failed[i] = 0
      BY <1>1, <2>1
    <3>2. QED
      BY <1>3, <2>1, <3>1
  <2>2. CASE i \notin ok \cup bad
    BY <1>1, <1>3, <2>2
  <2>3. QED
    BY <2>1, <2>2
<1>6. ASSUME NEW k \in 1..Len(chunks), Open(k)', NEW i \in Index \cap InChunk(k)
      PROVE  i \notin jobIds' /\ failed'[i] = 0
  <2>1. Open(k) /\ k # k0
    BY <1>6
  <2>2. i \notin ok \cup bad
    BY <2>1, ChunksDisjoint
  <2>3. i \notin jobIds /\ failed[i] = 0
    BY <1>1, <2>1
  <2>4. QED
    BY <1>3, <2>2, <2>3
<1>7. OneOutcomeEach'
  BY DEF OneOutcomeEach
<1>8. Len(chunks') = Len(chunks)
  OBVIOUS
<1>9. QED
  BY <1>2, <1>4, <1>5, <1>6, <1>7, <1>8 DEF OutcomeInv

\* Every step keeps the outcomes of each payload to one at most, and Collect makes it one.
LEMMA OutcomeInvStep ==
    ASSUME BatchNext, ChunksInv, WorkInv, OutcomeInv
    PROVE  OutcomeInv'
<1>1. ASSUME NEW n \in Nat, NEW sizes \in [1..n -> Sizes], Submit(sizes)
      PROVE  OutcomeInv'
  <2>1. status = "called" /\ jobIds' = {} /\ bodies' = sizes
    BY <1>1 DEF Submit, OutcomeInv
  <2>2. Index' = DOMAIN sizes
    BY <2>1 DEF Index
  <2>3. CASE status' = "rejected"
    BY <2>1, <2>3 DEF OutcomeInv, OneOutcomeEach
  <2>4. CASE status' = "sending" /\ failed' = [i \in DOMAIN sizes |-> 0]
    <3>1. failed' \in [Index' -> Nat] /\ \A i \in Index' : failed'[i] = 0
      BY <2>2, <2>4
    <3>2. QED
      BY <2>1, <2>4, <3>1 DEF OutcomeInv, OneOutcomeEach
  <2>5. QED
    BY <1>1, <2>3, <2>4 DEF Submit
<1>2. ASSUME Collect
      PROVE  OutcomeInv'
  <2>1. /\ status = "sending" /\ status' \in {"threw", "recording"}
        /\ failed' = [i \in Index |-> IF i \in Missing THEN 1 ELSE failed[i]]
        /\ UNCHANGED <<bodies, jobIds>>
    BY <1>2 DEF Collect
  <2>2. /\ failed \in [Index -> Nat]
        /\ \A i \in Index : failed[i] <= 1 /\ (i \in jobIds => failed[i] = 0)
    BY <2>1 DEF OutcomeInv
  <2>3. Index' = Index
    BY <2>1 DEF Index
  <2>4. failed' \in [Index' -> Nat]
    BY <2>1, <2>2, <2>3
  <2>5. ASSUME NEW i \in Index
        PROVE  IF i \in jobIds' THEN failed'[i] = 0 ELSE failed'[i] = 1
    <3>1. failed'[i] = IF i \notin jobIds /\ failed[i] = 0 THEN 1 ELSE failed[i]
      BY <2>1 DEF Missing
    <3>2. failed[i] \in Nat
      BY <2>2
    <3>3. QED
      BY <2>1, <2>2, <3>1, <3>2
  <2>6. OneOutcomeEach'
    BY <2>3, <2>5 DEF OneOutcomeEach
  <2>7. QED
    BY <2>1, <2>4, <2>6 DEF OutcomeInv
<1>3. ASSUME NEW W, Record(W)
      PROVE  OutcomeInv'
  <2>1. /\ status = "recording" /\ status' \in {"returned", "recording"}
        /\ UNCHANGED <<bodies, jobIds, failed>>
    BY <1>3 DEF Record
  <2>2. Index' = Index
    BY <2>1 DEF Index
  <2>3. QED
    BY <2>1, <2>2 DEF OutcomeInv, OneOutcomeEach
<1>4. ASSUME UNCHANGED <<bodies, chunks, jobIds, failed, status>>,
             \A k \in 1..Len(chunks) : Open(k)' => Open(k)
      PROVE  OutcomeInv'
  <2>1. Index' = Index /\ \A k : InChunk(k)' = InChunk(k)
    BY <1>4 DEF Index, InChunk
  <2>2. OneOutcomeEach'
    BY <1>4, <2>1 DEF OutcomeInv, OneOutcomeEach
  <2>3. Len(chunks') = Len(chunks)
    BY <1>4
  <2>4. status' = "sending" =>
           \A k \in 1..Len(chunks') : Open(k)' =>
              \A i \in Index' \cap InChunk(k)' : i \notin jobIds' /\ failed'[i] = 0
    BY <1>4, <2>1, <2>3 DEF OutcomeInv
  <2>5. /\ status' \in {"called", "rejected"} => jobIds' = {}
        /\ status' \in {"sending", "recording", "returned", "threw"} => failed' \in [Index' -> Nat]
        /\ status' = "sending" =>
              \A i \in Index' : failed'[i] <= 1 /\ (i \in jobIds' => failed'[i] = 0)
    BY <1>4, <2>1 DEF OutcomeInv
  <2>6. QED
    BY <2>2, <2>4, <2>5 DEF OutcomeInv
<1>5. ASSUME NEW w \in Worker, Take(w) \/ StopWorker(w)
      PROVE  OutcomeInv'
  <2>1. UNCHANGED <<bodies, chunks, jobIds, failed, status>>
    BY <1>5 DEF Take, StopWorker
  <2>2. \A k \in 1..Len(chunks) : Open(k)' => Open(k)
    BY <1>5, FewerOpen
  <2>3. QED
    BY <1>4, <2>1, <2>2
<1>6. ASSUME NEW w \in Worker, Skip(w)
      PROVE  OutcomeInv'
  <2>1. /\ status = "sending" /\ next <= Len(chunks) /\ next' = next + 1
        /\ failed' = [i \in Index |-> IF i \in InChunk(next) THEN failed[i] + 1 ELSE failed[i]]
        /\ UNCHANGED <<bodies, chunks, sending, jobIds, status>>
    BY <1>6 DEF Skip, Free, Started
  <2>2. next \in 1..Len(chunks) /\ Open(next)
    <3>1. chunks \in Seq(Seq(Nat))
      <4>1. CASE chunks = << >>
        BY <4>1
      <4>2. CASE chunks # << >>
        BY <4>2 DEF ChunksInv, Divides
      <4>3. QED
        BY <4>1, <4>2
    <3>2. next \in Nat \ {0}
      BY DEF WorkInv
    <3>3. QED
      BY <2>1, <3>1, <3>2 DEF Open
  <2>3. ASSUME NEW k \in 1..Len(chunks), Open(k)'
        PROVE  Open(k) /\ k # next
    <3>1. Open(k)
      BY <1>6, <2>3, FewerOpen
    <3>2. CASE k >= next'
      <4>1. next \in Nat \ {0}
        BY DEF WorkInv
      <4>2. QED
        BY <2>1, <3>1, <3>2, <4>1
    <3>3. ASSUME NEW v \in Worker, sending'[v] = k
          PROVE  k # next
      <4>1. sending[v] = k /\ sending[v] # 0
        BY <2>1, <3>3
      <4>2. sending[v] < next /\ next \in Nat
        BY <4>1 DEF WorkInv
      <4>3. QED
        BY <4>1, <4>2
    <3>4. QED
      BY <2>3, <3>1, <3>2, <3>3 DEF Open
  <2>4. jobIds' = jobIds \cup {}
    BY <2>1
  <2>5. PICK k0 \in 1..Len(chunks) : k0 = next
    BY <2>2
  <2>6. /\ Open(k0) /\ \A k \in 1..Len(chunks) : Open(k)' => Open(k) /\ k # k0
        /\ failed' = [i \in Index |-> IF i \in InChunk(k0) THEN failed[i] + 1 ELSE failed[i]]
    BY <2>1, <2>2, <2>3, <2>5
  <2>7. status = "sending" /\ UNCHANGED <<bodies, chunks, status>>
    BY <2>1
  <2>8. PICK ok : ok = {} /\ jobIds' = jobIds \cup ok
    BY <2>4
  <2>9. PICK bad : bad = InChunk(k0)
    OBVIOUS
  <2>10. ok \subseteq InChunk(k0) /\ bad \subseteq InChunk(k0) /\ ok \cap bad = {}
    BY <2>8, <2>9
  <2>11. failed' = [i \in Index |-> IF i \in bad THEN failed[i] + 1 ELSE failed[i]]
    BY <2>6, <2>9
  <2>12. QED
    BY <2>6, <2>7, <2>8, <2>10, <2>11, Settles
<1>7. ASSUME NEW w \in Worker, sending[w] # 0, NEW ok, NEW bad, NEW unsaid,
              ok \subseteq InChunk(sending[w]), bad \subseteq InChunk(sending[w]),
              unsaid \subseteq InChunk(sending[w]), ok \cap bad = {}, Answer(w, ok, bad, unsaid)
       PROVE  OutcomeInv'
  <2>1. /\ sending' = [sending EXCEPT ![w] = 0] /\ jobIds' = jobIds \cup ok
        /\ failed' = [i \in Index |-> IF i \in bad THEN failed[i] + 1 ELSE failed[i]]
        /\ UNCHANGED <<bodies, chunks, next, status>>
    BY <1>7 DEF Answer
  <2>2. /\ status = "sending" /\ sending[w] \in 1..Len(chunks) /\ Open(sending[w])
        /\ \A k \in 1..Len(chunks) : Open(k)' => Open(k) /\ k # sending[w]
    BY <1>7, <2>1, OneFewerOpen
  <2>3. QED
    BY <1>7, <2>1, <2>2, Settles
<1>8. ASSUME NEW w \in Worker, NEW carriedOut, SendFails(w, carriedOut)
       PROVE  OutcomeInv'
  <2>1. /\ sending[w] # 0 /\ sending' = [sending EXCEPT ![w] = 0] /\ jobIds' = jobIds \cup {}
        /\ failed' = [i \in Index |->
                         IF i \in InChunk(sending[w]) THEN failed[i] + 1 ELSE failed[i]]
        /\ UNCHANGED <<bodies, chunks, next, status>>
    BY <1>8 DEF SendFails
  <2>2. /\ status = "sending" /\ sending[w] \in 1..Len(chunks) /\ Open(sending[w])
        /\ \A k \in 1..Len(chunks) : Open(k)' => Open(k) /\ k # sending[w]
    BY <2>1, OneFewerOpen
  <2>3. QED
    BY <2>1, <2>2, Settles
<1>9. ASSUME NEW w \in Worker, Take(w) \/ Skip(w) \/ StopWorker(w)
      PROVE  OutcomeInv'
  BY <1>5, <1>6, <1>9
<1>10. QED
  BY <1>1, <1>2, <1>3, <1>7, <1>8, <1>9, BatchSteps

\* At most one outcome for each payload, whatever the requests do.
LEMMA OutcomeInvHolds == BatchSpec => []OutcomeInv
<1>1. BatchInit => OutcomeInv
  BY DEF BatchInit, OutcomeInv, OneOutcomeEach
<1>2. ChunksInv /\ WorkInv /\ OutcomeInv /\ [BatchNext]_batchVars => OutcomeInv'
  <2>1. ASSUME OutcomeInv, UNCHANGED batchVars
        PROVE  OutcomeInv'
    <3>1. Index' = Index /\ \A k : InChunk(k)' = InChunk(k) /\ Open(k)' = Open(k)
      BY <2>1 DEF batchVars, Index, InChunk, Open
    <3>2. QED
      BY <2>1, <3>1 DEF batchVars, OutcomeInv, OneOutcomeEach
  <2>2. QED
    BY <2>1, OutcomeInvStep
<1>3. QED
  BY <1>1, <1>2, ChunksInvHolds, WorkInvHolds, PTL DEF BatchSpec

\* However requests fail, overlap or are skipped, the caller gets exactly one
\* outcome per payload: an id, or one entry of `failed` (index.aws.ts submitBatch).
THEOREM OneOutcomeForEach == BatchSpec => []OneOutcomeEach
<1>1. OutcomeInv => OneOutcomeEach
  BY DEF OutcomeInv
<1>2. QED
  BY <1>1, OutcomeInvHolds, PTL

-------------------------------------------------------------------------------
(* What a call puts on the queue.                                          *)

\* A body is put on the queue once at most, and is there when it has an id; `queued`
\* is recorded of such bodies only.
SentOnce ==
    /\ status \notin {"called", "rejected"} =>
          \A i \in Index : onQueue[i] <= 1 /\ (i \in jobIds => onQueue[i] = 1)
    /\ recorded \subseteq Index
    /\ \A i \in recorded : i \in jobIds /\ onQueue[i] = 1

\* SentOnce, nothing of an open request on the queue, and every body accepted by the
\* time anything is recorded.
PutInv ==
    /\ status \notin {"called", "rejected"} => onQueue \in [Index -> Nat]
    /\ status = "sending" =>
          \A k \in 1..Len(chunks) : Open(k) => \A i \in Index \cap InChunk(k) : onQueue[i] = 0
    /\ status \in {"recording", "returned"} => Index \subseteq jobIds
    /\ status \notin {"recording", "returned"} => recorded = {}
    /\ SentOnce

\* An open request is answered: ok of it get an id, `put` of it are on the queue.
LEMMA Puts ==
    ASSUME ChunksInv, OutcomeInv, PutInv, status = "sending",
           NEW k0 \in 1..Len(chunks), Open(k0),
           NEW ok, NEW put, put \subseteq InChunk(k0), ok \subseteq put,
           jobIds' = jobIds \cup ok,
           onQueue' = [i \in Index |-> IF i \in put THEN onQueue[i] + 1 ELSE onQueue[i]],
           UNCHANGED <<bodies, chunks, status, recorded>>,
           \A k \in 1..Len(chunks) : Open(k)' => Open(k) /\ k # k0
    PROVE  PutInv'
<1>1. /\ onQueue \in [Index -> Nat]
      /\ \A i \in Index : onQueue[i] <= 1 /\ (i \in jobIds => onQueue[i] = 1)
      /\ \A k \in 1..Len(chunks) : Open(k) => \A i \in Index \cap InChunk(k) : onQueue[i] = 0
      /\ recorded = {}
  BY DEF PutInv, SentOnce
<1>2. Index' = Index /\ \A k : InChunk(k)' = InChunk(k)
  BY DEF Index, InChunk
<1>3. \A i \in Index : onQueue'[i] = IF i \in put THEN onQueue[i] + 1 ELSE onQueue[i]
  OBVIOUS
<1>4. onQueue' \in [Index' -> Nat]
  BY <1>1, <1>2
<1>5. ASSUME NEW i \in Index
      PROVE  onQueue'[i] <= 1 /\ (i \in jobIds' => onQueue'[i] = 1)
  <2>1. CASE i \in put
    <3>1. onQueue[i] = 0
      BY <1>1, <2>1
    <3>2. onQueue'[i] = 1
      BY <1>3, <2>1, <3>1
    <3>3. QED
      BY <3>2
  <2>2. CASE i \notin put
    BY <1>1, <1>3, <2>2
  <2>3. QED
    BY <2>1, <2>2
<1>6. ASSUME NEW k \in 1..Len(chunks), Open(k)', NEW i \in Index \cap InChunk(k)
      PROVE  onQueue'[i] = 0
  <2>1. Open(k) /\ k # k0
    BY <1>6
  <2>2. i \notin put
    BY <2>1, ChunksDisjoint
  <2>3. QED
    BY <1>1, <1>3, <2>1, <2>2
<1>7. recorded' = {} /\ Len(chunks') = Len(chunks)
  BY <1>1
<1>8. SentOnce'
  BY <1>2, <1>5, <1>7 DEF SentOnce
<1>9. QED
  BY <1>2, <1>4, <1>6, <1>7, <1>8 DEF PutInv

\* Every step keeps it.
LEMMA PutInvStep ==
    ASSUME BatchNext, ChunksInv, WorkInv, OutcomeInv, PutInv
    PROVE  PutInv'
<1>1. ASSUME NEW n \in Nat, NEW sizes \in [1..n -> Sizes], Submit(sizes)
      PROVE  PutInv'
  <2>1. status = "called" /\ jobIds' = {} /\ bodies' = sizes /\ recorded' = {}
    BY <1>1 DEF Submit, OutcomeInv, PutInv
  <2>2. Index' = DOMAIN sizes
    BY <2>1 DEF Index
  <2>3. CASE status' = "rejected"
    BY <2>1, <2>3 DEF PutInv, SentOnce
  <2>4. CASE status' = "sending" /\ onQueue' = [i \in DOMAIN sizes |-> 0]
    <3>1. onQueue' \in [Index' -> Nat] /\ \A i \in Index' : onQueue'[i] = 0
      BY <2>2, <2>4
    <3>2. QED
      BY <2>1, <2>4, <3>1 DEF PutInv, SentOnce
  <2>5. QED
    BY <1>1, <2>3, <2>4 DEF Submit
<1>2. ASSUME Collect
      PROVE  PutInv'
  <2>1. /\ status = "sending" /\ status' \in {"threw", "recording"}
        /\ failed' = [i \in Index |-> IF i \in Missing THEN 1 ELSE failed[i]]
        /\ status' = "recording" => ~ \E i \in Index : failed'[i] > 0
        /\ UNCHANGED <<bodies, chunks, jobIds, onQueue, recorded>>
    BY <1>2 DEF Collect
  <2>2. Index' = Index
    BY <2>1 DEF Index
  <2>3. ASSUME status' = "recording", NEW i \in Index
        PROVE  i \in jobIds
    <3>1. failed[i] \in Nat
      BY <2>1 DEF OutcomeInv
    <3>2. failed'[i] = IF i \notin jobIds /\ failed[i] = 0 THEN 1 ELSE failed[i]
      BY <2>1 DEF Missing
    <3>3. ~ (failed'[i] > 0)
      BY <2>1, <2>3
    <3>4. QED
      BY <3>1, <3>2, <3>3
  <2>4. onQueue \in [Index -> Nat] /\ recorded = {} /\ SentOnce
    BY <2>1 DEF PutInv
  <2>5. SentOnce'
    BY <2>1, <2>2, <2>4 DEF SentOnce
  <2>6. QED
    BY <2>1, <2>2, <2>3, <2>4, <2>5 DEF PutInv
<1>3. ASSUME NEW W, Record(W)
      PROVE  PutInv'
  <2>1. /\ status = "recording" /\ status' \in {"returned", "recording"}
        /\ W \subseteq Index /\ recorded' = recorded \cup W
        /\ UNCHANGED <<bodies, chunks, jobIds, onQueue>>
    BY <1>3 DEF Record
  <2>2. Index' = Index
    BY <2>1 DEF Index
  <2>3. onQueue \in [Index -> Nat] /\ Index \subseteq jobIds /\ SentOnce
    BY <2>1 DEF PutInv
  <2>4. SentOnce'
    BY <2>1, <2>2, <2>3 DEF SentOnce
  <2>5. QED
    BY <2>1, <2>2, <2>3, <2>4 DEF PutInv
<1>4. ASSUME UNCHANGED <<bodies, chunks, jobIds, onQueue, recorded, status>>,
             \A k \in 1..Len(chunks) : Open(k)' => Open(k)
      PROVE  PutInv'
  <2>1. Index' = Index /\ \A k : InChunk(k)' = InChunk(k)
    BY <1>4 DEF Index, InChunk
  <2>2. SentOnce'
    BY <1>4, <2>1 DEF PutInv, SentOnce
  <2>3. Len(chunks') = Len(chunks)
    BY <1>4
  <2>4. status' = "sending" =>
           \A k \in 1..Len(chunks') : Open(k)' =>
              \A i \in Index' \cap InChunk(k)' : onQueue'[i] = 0
    BY <1>4, <2>1, <2>3 DEF PutInv
  <2>5. /\ status' \notin {"called", "rejected"} => onQueue' \in [Index' -> Nat]
        /\ status' \in {"recording", "returned"} => Index' \subseteq jobIds'
        /\ status' \notin {"recording", "returned"} => recorded' = {}
    BY <1>4, <2>1 DEF PutInv
  <2>6. QED
    BY <2>2, <2>4, <2>5 DEF PutInv
<1>5. ASSUME NEW w \in Worker, Take(w) \/ Skip(w) \/ StopWorker(w)
      PROVE  PutInv'
  <2>1. UNCHANGED <<bodies, chunks, jobIds, onQueue, recorded, status>>
    BY <1>5 DEF Take, Skip, StopWorker
  <2>2. \A k \in 1..Len(chunks) : Open(k)' => Open(k)
    BY <1>5, FewerOpen
  <2>3. QED
    BY <1>4, <2>1, <2>2
<1>6. ASSUME NEW w \in Worker, sending[w] # 0, NEW ok, NEW bad, NEW unsaid,
             ok \subseteq InChunk(sending[w]), bad \subseteq InChunk(sending[w]),
             unsaid \subseteq InChunk(sending[w]),
             ok \cap bad = {}, Answer(w, ok, bad, unsaid)
      PROVE  PutInv'
  <2>1. /\ sending' = [sending EXCEPT ![w] = 0] /\ jobIds' = jobIds \cup ok
        /\ onQueue' = [i \in Index |->
                          IF i \in ok \cup unsaid THEN onQueue[i] + 1 ELSE onQueue[i]]
        /\ UNCHANGED <<bodies, chunks, next, status, recorded>>
    BY <1>6 DEF Answer
  <2>2. /\ status = "sending" /\ sending[w] \in 1..Len(chunks) /\ Open(sending[w])
        /\ \A k \in 1..Len(chunks) : Open(k)' => Open(k) /\ k # sending[w]
    BY <1>6, <2>1, OneFewerOpen
  <2>3. PICK put : put = ok \cup unsaid
    OBVIOUS
  <2>4. /\ put \subseteq InChunk(sending[w]) /\ ok \subseteq put
        /\ onQueue' = [i \in Index |-> IF i \in put THEN onQueue[i] + 1 ELSE onQueue[i]]
    BY <1>6, <2>1, <2>3
  <2>5. QED
    BY <2>1, <2>2, <2>4, Puts
<1>7. ASSUME NEW w \in Worker, NEW carriedOut, SendFails(w, carriedOut)
      PROVE  PutInv'
  <2>1. /\ sending[w] # 0 /\ sending' = [sending EXCEPT ![w] = 0] /\ jobIds' = jobIds
        /\ onQueue' = [i \in Index |->
                          IF carriedOut /\ i \in InChunk(sending[w])
                          THEN onQueue[i] + 1 ELSE onQueue[i]]
        /\ UNCHANGED <<bodies, chunks, next, status, recorded>>
    BY <1>7 DEF SendFails
  <2>2. /\ status = "sending" /\ sending[w] \in 1..Len(chunks) /\ Open(sending[w])
        /\ \A k \in 1..Len(chunks) : Open(k)' => Open(k) /\ k # sending[w]
    BY <2>1, OneFewerOpen
  <2>3. PICK put : put = {i \in InChunk(sending[w]) : carriedOut}
    OBVIOUS
  <2>4. PICK ok : ok = {}
    OBVIOUS
  <2>5. /\ jobIds' = jobIds \cup ok
        /\ put \subseteq InChunk(sending[w]) /\ ok \subseteq put
        /\ onQueue' = [i \in Index |-> IF i \in put THEN onQueue[i] + 1 ELSE onQueue[i]]
    BY <2>1, <2>3, <2>4
  <2>6. QED
    BY <2>1, <2>2, <2>4, <2>5, Puts
<1>8. QED
  BY <1>1, <1>2, <1>3, <1>5, <1>6, <1>7, BatchSteps

\* A call never puts a payload on the queue twice, what it gives an id for is there, and
\* `queued` is written of nothing else (sendChunksBounded, recordQueuedBatch).
THEOREM NothingSentTwice == BatchSpec => []SentOnce
<1>1. BatchInit => PutInv
  BY DEF BatchInit, PutInv, SentOnce, Index
<1>2. ChunksInv /\ WorkInv /\ OutcomeInv /\ PutInv /\ [BatchNext]_batchVars => PutInv'
  <2>1. ASSUME PutInv, UNCHANGED batchVars
        PROVE  PutInv'
    <3>1. Index' = Index /\ \A k : InChunk(k)' = InChunk(k) /\ Open(k)' = Open(k)
      BY <2>1 DEF batchVars, Index, InChunk, Open
    <3>2. QED
      BY <2>1, <3>1 DEF batchVars, PutInv, SentOnce
  <2>2. QED
    BY <2>1, PutInvStep
<1>3. PutInv => SentOnce
  BY DEF PutInv
<1>4. QED
  BY <1>1, <1>2, <1>3, ChunksInvHolds, WorkInvHolds, OutcomeInvHolds, PTL DEF BatchSpec

================================================================================
