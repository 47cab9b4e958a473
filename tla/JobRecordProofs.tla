---------------------------- MODULE JobRecordProofs ----------------------------
(***************************************************************************)
(* Theorems about the record of a job: JobStatusTracker, for any set of   *)
(* writers, any limit on the compare-and-swap attempts and any retention, *)
(* and JobDelivery, for any number of receives and any faults.            *)
(***************************************************************************)
EXTENDS JobDelivery, SequenceTheorems, TLAPS

-------------------------------------------------------------------------------
(* The records the tracker builds are status records.                     *)

\* The record queuedRecord builds is a status record.
LEMMA QueuedRecordType ==
    ASSUME NEW t \in Nat
    PROVE  queuedRecord(t) \in StatusRecord
BY TrackerAssumption DEF queuedRecord, StatusRecord, Transition, State, HandlerState

\* So is a status record with one more transition.
LEMMA AppendedType ==
    ASSUME NEW r \in StatusRecord, NEW c \in Call, NEW now \in Nat
    PROVE  Appended(r, c, now) \in StatusRecord
<1> DEFINE e == [state |-> c.state, at |-> now, attempt |-> c.attempt]
<1>1. e \in Transition
  BY DEF Transition, Call, State
<1>2. r.transitions \in Seq(Transition)
  BY DEF StatusRecord
<1>3. Append(r.transitions, e) \in Seq(Transition)
  BY <1>1, <1>2
<1>4. Max2(r.attempts, c.attempt) \in Nat
  BY DEF Max2, StatusRecord, Call
<1>5. now + RETENTION \in Nat /\ r.version + 1 \in Nat
  BY TrackerAssumption DEF StatusRecord
<1>6. (IF c.state = "failed" THEN c.attempt ELSE r.error) \in Nat
  BY DEF StatusRecord, Call
<1>7. c.state \in State
  BY DEF Call, State
<1> HIDE DEF e
<1>8. QED
  BY <1>3, <1>4, <1>5, <1>6, <1>7 DEF Appended, StatusRecord, e

\* And a status record whose submission is corrected.
LEMMA BackdatedType ==
    ASSUME NEW r \in StatusRecord, NEW t \in Nat
    PROVE  Backdated(r, t) \in StatusRecord
<1> DEFINE s == r.transitions
           n == [i \in DOMAIN s |->
                   IF i = 1 /\ s[i].state = "queued" THEN [s[i] EXCEPT !.at = t] ELSE s[i]]
<1>1. s \in Seq(Transition)
  BY DEF StatusRecord
<1>2. DOMAIN s = 1..Len(s) /\ Len(s) \in Nat
  BY <1>1
<1>3. n \in Seq(Transition)
  <2>1. ASSUME NEW i \in 1..Len(s)
        PROVE  (IF i = 1 /\ s[i].state = "queued" THEN [s[i] EXCEPT !.at = t] ELSE s[i])
                  \in Transition
    <3>1. s[i] \in Transition
      BY <1>1, <2>1, ElementOfSeq
    <3>2. [s[i] EXCEPT !.at = t] \in Transition
      BY <3>1 DEF Transition
    <3>3. QED
      BY <3>1, <3>2
  <2>2. n \in [1..Len(s) -> Transition]
    BY <1>2, <2>1
  <2>3. QED
    BY <1>2, <2>2, SeqDef
<1>4. r.version + 1 \in Nat
  BY DEF StatusRecord
<1> HIDE DEF n
<1>5. QED
  BY <1>3, <1>4 DEF Backdated, StatusRecord, n

\* The entry an append adds is a transition.
LEMMA LastOfAppended ==
    ASSUME NEW r \in StatusRecord, NEW c \in Call, NEW now \in Nat
    PROVE  /\ Latest(Appended(r, c, now).transitions)
                = [state |-> c.state, at |-> now, attempt |-> c.attempt]
           /\ Latest(Appended(r, c, now).transitions) \in Transition
BY DEF Appended, Latest, StatusRecord, Transition, Call, State, HandlerState

-------------------------------------------------------------------------------
(* Type correctness.                                                       *)

\* What a lost swap does to the program counter and the loop counter keeps
\* their types, for a process whose call fails with `thrown`.
LEMMA RetryType ==
    ASSUME TypeOK, NEW p \in Process, NEW thrown \in Step, RetryOr(p, thrown)
    PROVE  /\ pc' \in [Process -> Step]
           /\ cas' \in [Process -> 1..MAX_CAS_ATTEMPTS]
           /\ pc'[p] \in {"read", thrown}
           /\ \A q \in Process \ {p} : pc'[q] = pc[q]
<1>1. CASE cas[p] < MAX_CAS_ATTEMPTS /\ Goto(p, "read") /\ cas' = [cas EXCEPT ![p] = @ + 1]
  BY <1>1, TrackerAssumption DEF TypeOK, Goto, Step
<1>2. CASE cas[p] >= MAX_CAS_ATTEMPTS /\ Finish(p, thrown)
  BY <1>2, TrackerAssumption DEF TypeOK, Finish, Goto
<1>3. QED
  BY <1>1, <1>2 DEF RetryOr

\* The type invariant holds initially.
LEMMA TypeInit == Init => TypeOK
<1> SUFFICES ASSUME Init PROVE TypeOK
  OBVIOUS
<1>1. pc \in [Process -> Step] /\ pc[Submitter] = "idle" /\ \A w \in Writers : pc[w] = "idle"
  BY DEF Init, Step, WriterEnd, Process
<1>2. cas \in [Process -> 1..MAX_CAS_ATTEMPTS]
  BY TrackerAssumption DEF Init
<1>3. QED
  BY <1>1, <1>2 DEF Init, TypeOK, WriterEnd

\* Every step keeps the type invariant.
LEMMA TypeStep == TypeOK /\ [Next]_vars => TypeOK'
<1> SUFFICES ASSUME TypeOK, [Next]_vars PROVE TypeOK'
  OBVIOUS
<1> USE TrackerAssumption
<1>1. CASE StartQueued
  <2>1. submission' \in Nat
    BY <1>1 DEF TypeOK, StartQueued, Readings
  <2>2. QED
    BY <1>1, <2>1 DEF TypeOK, StartQueued, Goto, KeepTable, Step, Process, SubmitterEnd
<1>2. CASE Create
  <2>1. rec' \in StatusRecord
    BY <1>2, QueuedRecordType DEF TypeOK, Create, Store
  <2>2. QED
    BY <1>2, <2>1 DEF TypeOK, Create, Store, Goto, Step, Process, SubmitterEnd
<1>3. CASE CreateUnacknowledged
  <2>1. rec' \in StatusRecord
    BY <1>3, QueuedRecordType DEF TypeOK, CreateUnacknowledged, Store
  <2>2. QED
    BY <1>3, <2>1 DEF TypeOK, CreateUnacknowledged, Store, Goto, Step, Process, SubmitterEnd
<1>4. CASE CreateLost
  BY <1>4 DEF TypeOK, CreateLost, Goto, KeepTable, Step, Process
<1>5. CASE CreateFails
  BY <1>5 DEF TypeOK, CreateFails, Goto, KeepTable, Step, Process, SubmitterEnd
<1>6. CASE ReadForBackdate
  <2>1. PICK r \in Readable :
         \/ /\ r = NoRecord
            /\ Finish(Submitter, "abandoned")
            /\ UNCHANGED <<seen, readAt>>
         \/ /\ r # NoRecord
            /\ ~(submission < r.submittedAt)
            /\ Finish(Submitter, "untouched")
            /\ UNCHANGED <<seen, readAt>>
         \/ /\ r # NoRecord
            /\ submission < r.submittedAt
            /\ seen' = [seen EXCEPT ![Submitter] = r]
            /\ readAt' = [readAt EXCEPT ![Submitter] = clock]
            /\ Goto(Submitter, "swap")
            /\ cas' = cas
    BY <1>6 DEF ReadForBackdate
  <2>2. r \in StatusRecord \cup {NoRecord}
    BY <2>1 DEF TypeOK, Readable
  <2>3. QED
    BY <1>6, <2>1, <2>2
       DEF TypeOK, ReadForBackdate, Finish, Goto, KeepTable, Step, Process, SubmitterEnd
<1>7. CASE Backdate
  <2>1. rec' \in StatusRecord
    BY <1>7, BackdatedType DEF TypeOK, Backdate, Store, Process
  <2>2. /\ pc' \in [Process -> Step]
        /\ cas' \in [Process -> 1..MAX_CAS_ATTEMPTS]
        /\ pc'[Submitter] # "swap"
        /\ \A q \in Writers : pc'[q] = pc[q]
    <3>1. CASE RetryOr(Submitter, "uncorrected")
      BY <3>1, RetryType DEF Process, Step, SubmitterEnd
    <3>2. CASE \E s \in {"corrected", "uncorrected"} : Finish(Submitter, s)
      BY <3>2 DEF TypeOK, Finish, Goto, Process, Step, SubmitterEnd
    <3>3. QED
      BY <1>7, <3>1, <3>2 DEF Backdate
  <2>3. QED
    BY <1>7, <2>1, <2>2 DEF TypeOK, Backdate, Store, Forget
<1>8. CASE BackdateFails
  <2>1. /\ pc' \in [Process -> Step]
        /\ cas' \in [Process -> 1..MAX_CAS_ATTEMPTS]
        /\ pc'[Submitter] # "swap"
        /\ \A q \in Writers : pc'[q] = pc[q]
    <3>1. CASE RetryOr(Submitter, "uncorrected")
      BY <3>1, RetryType DEF Process, Step, SubmitterEnd
    <3>2. CASE Finish(Submitter, "uncorrected")
      BY <3>2 DEF TypeOK, Finish, Goto, Process, Step, SubmitterEnd
    <3>3. QED
      BY <1>8, <3>1, <3>2 DEF BackdateFails
  <2>2. QED
    BY <1>8, <2>1 DEF TypeOK, BackdateFails, KeepTable, Forget
<1>9. ASSUME NEW w \in Writers, BeginTransition(w) PROVE TypeOK'
  <2>1. PICK s \in HandlerState, a \in 1..MaxAttempt :
          StartTransition(w, [state |-> s, attempt |-> a])
    BY <1>9 DEF BeginTransition
  <2>2. [state |-> s, attempt |-> a] \in Call
    BY DEF Call
  <2>3. QED
    BY <2>1, <2>2, SentinelAssumption
       DEF TypeOK, StartTransition, Goto, KeepTable, Step, Process
<1>10. ASSUME NEW w \in Writers, Read(w) PROVE TypeOK'
  <2>1. PICK r \in Readable : seen' = [seen EXCEPT ![w] = r]
    BY <1>10 DEF Read
  <2>2. r \in StatusRecord \cup {NoRecord}
    BY <2>1 DEF TypeOK, Readable
  <2>3. QED
    BY <1>10, <2>1, <2>2 DEF TypeOK, Read, Goto, KeepTable, Step, Process
<1>11. ASSUME NEW w \in Writers, Swap(w) PROVE TypeOK'
  <2>1. /\ pc' \in [Process -> Step]
        /\ cas' \in [Process -> 1..MAX_CAS_ATTEMPTS]
        /\ pc'[w] \in {"read", "returned", "threw"}
        /\ \A q \in Process \ {w} : pc'[q] = pc[q]
    <3>1. CASE RetryOr(w, "threw")
      BY <3>1, RetryType DEF Process, Step, SubmitterEnd
    <3>2. CASE \E s \in {"returned", "threw"} : Finish(w, s)
      BY <3>2 DEF TypeOK, Finish, Goto, Process, Step, WriterEnd
    <3>3. QED
      BY <1>11, <3>1, <3>2 DEF Swap
  <2>2. PICK now \in Readings(readAt[w], clock) :
          LET base == IF seen[w] = NoRecord THEN queuedRecord(now) ELSE seen[w]
              next == Appended(base, call[w], now)
          IN  /\ Store(next)
              /\ wrote' = [wrote EXCEPT ![w] = Latest(next.transitions)]
    BY <1>11 DEF Swap
  <2>3. /\ now \in Nat
        /\ call[w] \in Call
        /\ (IF seen[w] = NoRecord THEN queuedRecord(now) ELSE seen[w]) \in StatusRecord
    BY <1>11, <2>2, QueuedRecordType DEF TypeOK, Swap, Process, WriterEnd, Readings
  <2>4. rec' \in StatusRecord /\ wrote' \in [Writers -> Transition \cup {NoRecord}]
    BY <2>2, <2>3, AppendedType, LastOfAppended DEF TypeOK, Store
  <2>5. past' \subseteq StatusRecord \cup {NoRecord}
    BY <2>2 DEF TypeOK, Store
  <2>6. QED
    BY <1>11, <2>1, <2>4, <2>5 DEF TypeOK, Swap, Forget, Process, WriterEnd
<1>12. ASSUME NEW w \in Writers, SwapFails(w) PROVE TypeOK'
  <2>1. /\ pc' \in [Process -> Step]
        /\ cas' \in [Process -> 1..MAX_CAS_ATTEMPTS]
        /\ pc'[w] \in {"read", "threw"}
        /\ \A q \in Process \ {w} : pc'[q] = pc[q]
    <3>1. CASE RetryOr(w, "threw")
      BY <3>1, RetryType DEF Process, Step, SubmitterEnd
    <3>2. CASE Finish(w, "threw")
      BY <3>2 DEF TypeOK, Finish, Goto, Process, Step, WriterEnd
    <3>3. QED
      BY <1>12, <3>1, <3>2 DEF SwapFails
  <2>2. QED
    BY <1>12, <2>1 DEF TypeOK, SwapFails, KeepTable, Forget, Process, WriterEnd
<1>13. CASE Tick
  BY <1>13 DEF TypeOK, Tick, KeepTable
<1>14. CASE Expire
  BY <1>14 DEF TypeOK, Expire
<1>15. CASE UNCHANGED vars
  BY <1>15 DEF TypeOK, vars
<1>16. QED
  BY <1>1, <1>2, <1>3, <1>4, <1>5, <1>6, <1>7, <1>8, <1>9, <1>10, <1>11, <1>12,
     <1>13, <1>14, <1>15
     DEF Next, SubmitterNext, WriterNext

\* Every reachable state of the tracker is well typed: the stored record is a
\* status record, no loop counter passes MAX_CAS_ATTEMPTS, and a correction in
\* progress holds a record to correct (status.ts JobStatusTracker).
THEOREM TypeCorrect == Spec => []TypeOK
BY TypeInit, TypeStep, PTL DEF Spec

-------------------------------------------------------------------------------
(* What the operations do to a record's fields.                            *)

\* An appended record keeps its earlier entries and its submission.
LEMMA AppendedFields ==
    ASSUME NEW r \in StatusRecord, NEW c \in Call, NEW now \in Nat,
           NEW n, n = Appended(r, c, now)
    PROVE  /\ Len(r.transitions) \in Nat
           /\ DOMAIN r.transitions = 1..Len(r.transitions)
           /\ Len(n.transitions) = Len(r.transitions) + 1
           /\ DOMAIN n.transitions = 1..(Len(r.transitions) + 1)
           /\ \A i \in 1..Len(r.transitions) : n.transitions[i] = r.transitions[i]
           /\ n.transitions[Len(r.transitions) + 1].state = c.state
           /\ n.transitions[Len(r.transitions) + 1].at = now
           /\ n.state = c.state
           /\ n.updatedAt = now
           /\ n.submittedAt = r.submittedAt
           /\ n.version = r.version + 1
<1>1. r.transitions \in Seq(Transition)
  BY DEF StatusRecord
<1>2. [state |-> c.state, at |-> now, attempt |-> c.attempt] \in Transition
  BY DEF Transition, Call, State
<1>3. QED
  BY <1>1, <1>2 DEF Appended, StatusRecord

\* A corrected record differs in its submission and its version only.
LEMMA BackdatedFields ==
    ASSUME NEW r \in StatusRecord, NEW t \in Nat,
           r.transitions # << >>, r.transitions[1].state = "queued",
           NEW n, n = Backdated(r, t)
    PROVE  /\ Len(r.transitions) \in Nat \ {0}
           /\ DOMAIN r.transitions = 1..Len(r.transitions)
           /\ Len(n.transitions) = Len(r.transitions)
           /\ DOMAIN n.transitions = 1..Len(r.transitions)
           /\ n.transitions # << >>
           /\ n.transitions[1].at = t
           /\ n.transitions[1].state = "queued"
           /\ n.transitions[1].attempt = r.transitions[1].attempt
           /\ \A i \in 2..Len(r.transitions) : n.transitions[i] = r.transitions[i]
           /\ n.state = r.state
           /\ n.updatedAt = r.updatedAt
           /\ n.submittedAt = t
           /\ n.version = r.version + 1
<1> DEFINE s == r.transitions
           m == [i \in DOMAIN s |->
                   IF i = 1 /\ s[i].state = "queued" THEN [s[i] EXCEPT !.at = t] ELSE s[i]]
<1>1. s \in Seq(Transition) /\ s # << >>
  BY DEF StatusRecord
<1>2. Len(s) \in Nat \ {0} /\ DOMAIN s = 1..Len(s)
  BY <1>1, EmptySeq, LenProperties
<1>3. s[1] \in Transition
  BY <1>1, <1>2, ElementOfSeq
<1>4. m[1] = [s[1] EXCEPT !.at = t] /\ \A i \in 2..Len(s) : m[i] = s[i]
  BY <1>2
<1>5. m[1].at = t /\ m[1].state = "queued" /\ m[1].attempt = s[1].attempt
  BY <1>3, <1>4 DEF Transition
<1>6. Backdated(r, t) \in StatusRecord
  BY BackdatedType
<1>7. Backdated(r, t).transitions = m
  BY DEF Backdated, StatusRecord
<1>8. m \in Seq(Transition) /\ DOMAIN m = 1..Len(s)
  BY <1>2, <1>6, <1>7 DEF StatusRecord
<1>9. Len(m) = Len(s)
  BY <1>2, <1>8, LenProperties
<1>10. m # << >>
  BY <1>2, <1>9
<1> HIDE DEF m
<1>11. /\ Backdated(r, t).state = r.state
       /\ Backdated(r, t).updatedAt = r.updatedAt
       /\ Backdated(r, t).submittedAt = t
       /\ Backdated(r, t).version = r.version + 1
  BY DEF Backdated, StatusRecord
<1>12. QED
  BY <1>2, <1>4, <1>5, <1>7, <1>8, <1>9, <1>10, <1>11

\* A new record holds its queued entry and nothing else.
LEMMA QueuedFields ==
    ASSUME NEW t \in Nat, NEW n, n = queuedRecord(t)
    PROVE  /\ n \in StatusRecord
           /\ Len(n.transitions) = 1
           /\ DOMAIN n.transitions = {1}
           /\ n.transitions # << >>
           /\ n.transitions[1] = [state |-> "queued", at |-> t, attempt |-> 0]
           /\ n.state = "queued"
           /\ n.updatedAt = t
           /\ n.submittedAt = t
           /\ n.version = 0
BY QueuedRecordType DEF queuedRecord

-------------------------------------------------------------------------------
(* What a step does to the table.  Most steps leave it alone; the others    *)
(* create, correct, append to or expire the record, and a swap that takes   *)
(* effect held the current record.                                          *)

SnapshotsOnlyDropped == \A p \in Process : seen'[p] \in {seen[p], NoRecord}

Keeps ==
    /\ KeepTable
    /\ clock' \in {clock, clock + 1}
    /\ submission' \in {submission} \cup Readings(clock, clock)
    /\ \A w \in Writers : wrote'[w] \in {wrote[w], NoRecord}
    /\ \A p \in Process : seen'[p] \in {seen[p], NoRecord, rec} \cup past

Creates ==
    /\ rec = NoRecord
    /\ Store(queuedRecord(submission))
    /\ pc'[Submitter] # "idle"
    /\ UNCHANGED <<clock, submission, wrote, reaped>>
    /\ SnapshotsOnlyDropped

Corrects ==
    /\ rec # NoRecord
    /\ submission < rec.submittedAt
    /\ Store(Backdated(rec, submission))
    /\ UNCHANGED <<clock, submission, wrote, reaped>>
    /\ SnapshotsOnlyDropped

Base(now) == IF rec = NoRecord THEN queuedRecord(now) ELSE rec

Appends(w, now) ==
    /\ now \in Nat
    /\ now <= clock + MaxSkew
    /\ rec # NoRecord => StampedBy(rec, now)
    /\ call[w] \in Call
    /\ Store(Appended(Base(now), call[w], now))
    /\ wrote' = [wrote EXCEPT ![w] = Latest(Appended(Base(now), call[w], now).transitions)]
    /\ UNCHANGED <<clock, submission, reaped>>
    /\ SnapshotsOnlyDropped

\* Comparing versions is comparing records.
LEMMA MatchIsCurrent ==
    ASSUME TypeOK, VersionIdentifies, NEW p \in Process, Matches(p)
    PROVE  seen[p] = rec
BY DEF TypeOK, VersionIdentifies, Coherent, Matches

\* The times of a record's entries.
LEMMA EntryTimes ==
    ASSUME NEW r \in StatusRecord
    PROVE  \A i \in DOMAIN r.transitions : r.transitions[i].at \in Nat
<1>1. r.transitions \in Seq(Transition)
  BY DEF StatusRecord
<1>2. \A i \in DOMAIN r.transitions : r.transitions[i] \in Transition
  BY <1>1, ElementOfSeq, LenProperties
<1>3. QED
  BY <1>2 DEF Transition

\* What was stamped by some time was stamped by any later one.
LEMMA StampedLater ==
    ASSUME NEW r \in StatusRecord, NEW t \in Nat, NEW u \in Nat, t <= u, StampedBy(r, t)
    PROVE  StampedBy(r, u)
BY EntryTimes, TrackerAssumption DEF StampedBy

\* An effective swap appends to the record that is stored.
LEMMA SwapAppends ==
    ASSUME TrackerInv, NEW w \in Writers, Swap(w)
    PROVE  \E now \in Nat : Appends(w, now)
<1>1. seen[w] = rec /\ pc[w] = "swap"
  BY MatchIsCurrent DEF Swap, TrackerInv, Process
<1>2. PICK now \in Readings(readAt[w], clock) :
        LET base == IF seen[w] = NoRecord THEN queuedRecord(now) ELSE seen[w]
            next == Appended(base, call[w], now)
        IN  /\ Store(next)
            /\ wrote' = [wrote EXCEPT ![w] = Latest(next.transitions)]
  BY DEF Swap
<1>3. /\ readAt[w] \in Nat
      /\ clock \in Nat
      /\ call[w] \in Call
      /\ rec \in StatusRecord \cup {NoRecord}
  BY <1>1 DEF TrackerInv, TypeOK, Process
<1>4. rec # NoRecord => StampedBy(rec, readAt[w])
  BY <1>1 DEF TrackerInv, TimesPast, Process
<1>5. now \in Nat /\ readAt[w] <= now /\ now <= clock + MaxSkew
  BY <1>2, <1>3, TrackerAssumption DEF Readings
<1>5a. rec # NoRecord => StampedBy(rec, now)
  BY <1>3, <1>4, <1>5, StampedLater
<1>6. SnapshotsOnlyDropped
  BY DEF Swap, Forget, SnapshotsOnlyDropped, TrackerInv, TypeOK
<1>7. UNCHANGED <<clock, submission, reaped>>
  BY DEF Swap
<1>8. Appends(w, now)
  BY <1>1, <1>2, <1>3, <1>5, <1>5a, <1>6, <1>7 DEF Appends, Base
<1>9. QED
  BY <1>5, <1>8

\* A step of the submitter keeps, creates or corrects the record.
LEMMA SubmitterTable ==
    ASSUME TrackerInv, SubmitterNext
    PROVE  Keeps \/ Creates \/ Corrects
<1> USE DEF TrackerInv
<1>1. CASE StartQueued
  BY <1>1 DEF StartQueued, Keeps
<1>2. CASE Create
  BY <1>2 DEF Create, Creates, SnapshotsOnlyDropped, Goto, TypeOK, Process
<1>3. CASE CreateUnacknowledged
  BY <1>3 DEF CreateUnacknowledged, Creates, SnapshotsOnlyDropped, Goto, TypeOK, Process
<1>4. CASE CreateLost
  BY <1>4 DEF CreateLost, Keeps
<1>5. CASE CreateFails
  BY <1>5 DEF CreateFails, Keeps
<1>6. CASE ReadForBackdate
  BY <1>6 DEF ReadForBackdate, Keeps, Readable, TypeOK
<1>7. CASE Backdate
  <2>1. seen[Submitter] = rec
    BY <1>7, MatchIsCurrent DEF Backdate, Process
  <2>2. rec # NoRecord /\ submission < rec.submittedAt
    BY <1>7, <2>1 DEF Backdate, TypeOK, SubmitterFirst
  <2>3. QED
    BY <1>7, <2>1, <2>2 DEF Backdate, Corrects, SnapshotsOnlyDropped, Forget, TypeOK
<1>8. CASE BackdateFails
  BY <1>8 DEF BackdateFails, Keeps, Forget, TypeOK
<1>9. QED
  BY <1>1, <1>2, <1>3, <1>4, <1>5, <1>6, <1>7, <1>8 DEF SubmitterNext

\* Every step keeps, creates, corrects, appends to or expires the record.
LEMMA TableStep ==
    ASSUME TrackerInv, [Next]_vars
    PROVE  \/ Keeps
           \/ Creates
           \/ Corrects
           \/ \E w \in Writers, now \in Nat : Appends(w, now)
           \/ Expire
<1> USE DEF TrackerInv
<1>1. ASSUME NEW w \in Writers, BeginTransition(w) PROVE Keeps
  BY <1>1 DEF BeginTransition, StartTransition, Keeps, TypeOK
<1>2. ASSUME NEW w \in Writers, Read(w) PROVE Keeps
  BY <1>2 DEF Read, Readable, Keeps, TypeOK
<1>3. ASSUME NEW w \in Writers, Swap(w) PROVE \E now \in Nat : Appends(w, now)
  BY <1>3, SwapAppends
<1>4. ASSUME NEW w \in Writers, SwapFails(w) PROVE Keeps
  BY <1>4 DEF SwapFails, Keeps, Forget, TypeOK
<1>5. CASE Tick
  BY <1>5 DEF Tick, Keeps
<1>6. CASE UNCHANGED vars
  BY <1>6 DEF vars, Keeps, KeepTable
<1>7. CASE SubmitterNext
  BY <1>7, SubmitterTable
<1>8. QED
  BY <1>1, <1>2, <1>3, <1>4, <1>5, <1>6, <1>7 DEF Next, WriterNext

-------------------------------------------------------------------------------
(* Each part of TrackerInv is kept by every step.                          *)

\* What an append starts from: the stored record, or a new one dated `now`.
LEMMA BaseFacts ==
    ASSUME TrackerInv, NEW now \in Nat, rec # NoRecord => StampedBy(rec, now)
    PROVE  /\ Base(now) \in StatusRecord
           /\ Base(now).transitions # << >>
           /\ Len(Base(now).transitions) \in Nat \ {0}
           /\ DOMAIN Base(now).transitions = 1..Len(Base(now).transitions)
           /\ Base(now).transitions[1].state = "queued"
           /\ Base(now).transitions[1].at = Base(now).submittedAt
           /\ \A i \in DOMAIN Base(now).transitions :
                /\ Base(now).transitions[i].at \in Nat
                /\ Base(now).transitions[i].at <= now + MaxSkew
           /\ \A i, j \in DOMAIN Base(now).transitions :
                i <= j => Base(now).transitions[i].at <= Base(now).transitions[j].at + MaxSkew
<1>1. CASE rec = NoRecord
  <2>1. Base(now) = queuedRecord(now)
    BY <1>1 DEF Base
  <2>2. /\ Base(now) \in StatusRecord
        /\ Len(Base(now).transitions) = 1
        /\ DOMAIN Base(now).transitions = {1}
        /\ Base(now).transitions # << >>
        /\ Base(now).transitions[1] = [state |-> "queued", at |-> now, attempt |-> 0]
        /\ Base(now).submittedAt = now
    BY <2>1, QueuedFields
  <2>3. Base(now).transitions[1].state = "queued" /\ Base(now).transitions[1].at = now
    BY <2>2
  <2>4. 1..1 = {1}
    OBVIOUS
  <2> HIDE DEF Base
  <2>5. now <= now + MaxSkew
    BY TrackerAssumption
  <2>6. QED
    BY <2>2, <2>3, <2>4, <2>5
<1>2. CASE rec # NoRecord
  <2>1. rec \in StatusRecord /\ rec.transitions # << >>
    BY <1>2 DEF TrackerInv, TypeOK, SubmissionAgrees
  <2> DEFINE k == Len(rec.transitions)
  <2>2. rec.transitions \in Seq(Transition) /\ rec.updatedAt \in Nat
    BY <2>1 DEF StatusRecord
  <2>3. k \in Nat \ {0} /\ DOMAIN rec.transitions = 1..k
    BY <2>1, <2>2, EmptySeq, LenProperties
  <2>4. \A i \in 1..k : rec.transitions[i].at \in Nat
    <3>1. \A i \in 1..k : rec.transitions[i] \in Transition
      BY <2>2, ElementOfSeq
    <3>2. QED
      BY <3>1 DEF Transition
  <2>5. \A i, j \in 1..k : i <= j => rec.transitions[i].at <= rec.transitions[j].at + MaxSkew
    BY <1>2, <2>3 DEF TrackerInv, OrderedUpToSkew
  <2>7. \A i \in 1..k : rec.transitions[i].at <= now + MaxSkew
    BY <1>2, <2>3 DEF StampedBy
  <2>8. rec.transitions[1].state = "queued" /\ rec.transitions[1].at = rec.submittedAt
    BY <1>2 DEF TrackerInv, SubmissionAgrees
  <2>9. QED
    BY <1>2, <2>1, <2>3, <2>4, <2>5, <2>7, <2>8 DEF Base
<1>3. QED
  BY <1>1, <1>2

\* submittedAt and the queued entry stay two views of one instant.
LEMMA SubmissionAgreesStep ==
    ASSUME TrackerInv, [Next]_vars
    PROVE  SubmissionAgrees'
<1> USE DEF TrackerInv
<1>1. CASE Keeps
  BY <1>1 DEF Keeps, KeepTable, SubmissionAgrees
<1>2. CASE Creates
  <2>1. submission \in Nat /\ rec' = queuedRecord(submission) /\ past' = past \cup {rec}
    BY <1>2 DEF TypeOK, Creates, Store
  <2>2. /\ rec'.transitions # << >>
        /\ rec'.transitions[1] = [state |-> "queued", at |-> submission, attempt |-> 0]
        /\ rec'.submittedAt = submission
    BY <2>1, QueuedFields
  <2>3. QED
    BY <2>1, <2>2 DEF SubmissionAgrees
<1>3. CASE Corrects
  <2>1. /\ rec \in StatusRecord
        /\ submission \in Nat
        /\ rec.transitions # << >>
        /\ rec.transitions[1].state = "queued"
        /\ rec' = Backdated(rec, submission)
    BY <1>3 DEF Corrects, Store, TypeOK, SubmissionAgrees
  <2>2. /\ rec'.transitions # << >>
        /\ rec'.transitions[1].state = "queued"
        /\ rec'.transitions[1].at = rec'.submittedAt
    BY <2>1, BackdatedFields
  <2>3. QED
    BY <1>3, <2>2 DEF Corrects, Store, SubmissionAgrees
<1>4. ASSUME NEW w \in Writers, NEW now \in Nat, Appends(w, now)
      PROVE  SubmissionAgrees'
  <2>1. /\ rec' = Appended(Base(now), call[w], now)
        /\ past' = past \cup {rec}
        /\ call[w] \in Call
        /\ rec # NoRecord => StampedBy(rec, now)
    BY <1>4 DEF Appends, Store
  <2> DEFINE b == Base(now)
             k == Len(b.transitions)
  <2>2. /\ b \in StatusRecord
        /\ k \in Nat \ {0}
        /\ b.transitions[1].state = "queued"
        /\ b.transitions[1].at = b.submittedAt
    BY <2>1, BaseFacts
  <2>3. /\ DOMAIN rec'.transitions = 1..(k + 1)
        /\ \A i \in 1..k : rec'.transitions[i] = b.transitions[i]
        /\ rec'.submittedAt = b.submittedAt
    BY <2>1, <2>2, AppendedFields
  <2> HIDE DEF b, k
  <2>4. rec'.transitions # << >> /\ rec'.transitions[1] = b.transitions[1]
    BY <2>2, <2>3
  <2>5. QED
    BY <2>1, <2>2, <2>3, <2>4 DEF SubmissionAgrees
<1>5. CASE Expire
  BY <1>5 DEF Expire, SubmissionAgrees
<1>6. QED
  BY <1>1, <1>2, <1>3, <1>4, <1>5, TableStep

\* The history stays in order up to the clocks' difference, state and updatedAt its last entry's.
LEMMA OrderedUpToSkewStep ==
    ASSUME TrackerInv, [Next]_vars
    PROVE  OrderedUpToSkew'
<1> USE DEF TrackerInv
<1>1. CASE Keeps
  BY <1>1 DEF Keeps, KeepTable, OrderedUpToSkew
<1>2. CASE Creates
  <2>1. submission \in Nat /\ rec' = queuedRecord(submission)
    BY <1>2 DEF TypeOK, Creates, Store
  <2>2. /\ Len(rec'.transitions) = 1
        /\ DOMAIN rec'.transitions = {1}
        /\ rec'.transitions[1] = [state |-> "queued", at |-> submission, attempt |-> 0]
        /\ rec'.state = "queued"
        /\ rec'.updatedAt = submission
    BY <2>1, QueuedFields
  <2>3. submission <= submission + MaxSkew
    BY <2>1, TrackerAssumption
  <2>4. QED
    BY <2>1, <2>2, <2>3 DEF OrderedUpToSkew, Latest
<1>3. CASE Corrects
  <2>1. /\ rec # NoRecord
        /\ rec \in StatusRecord
        /\ submission \in Nat
        /\ submission < rec.submittedAt
        /\ rec.submittedAt \in Nat
        /\ rec.transitions # << >>
        /\ rec.transitions[1].state = "queued"
        /\ rec.transitions[1].at = rec.submittedAt
        /\ rec' = Backdated(rec, submission)
    BY <1>3 DEF Corrects, Store, TypeOK, SubmissionAgrees, StatusRecord
  <2> DEFINE k == Len(rec.transitions)
  <2>2. /\ k \in Nat \ {0}
        /\ DOMAIN rec.transitions = 1..k
        /\ Len(rec'.transitions) = k
        /\ DOMAIN rec'.transitions = 1..k
        /\ rec'.transitions[1].at = submission
        /\ \A i \in 2..k : rec'.transitions[i] = rec.transitions[i]
        /\ rec'.state = rec.state
        /\ rec'.updatedAt = rec.updatedAt
    BY <2>1, BackdatedFields
  <2>3. \A i \in 1..k : rec.transitions[i].at \in Nat
    <3>1. rec.transitions \in Seq(Transition)
      BY <2>1 DEF StatusRecord
    <3>2. \A i \in 1..k : rec.transitions[i] \in Transition
      BY <3>1, ElementOfSeq
    <3>3. QED
      BY <3>2 DEF Transition
  <2>4. /\ \A i, j \in 1..k : i <= j => rec.transitions[i].at <= rec.transitions[j].at + MaxSkew
        /\ rec.state = rec.transitions[k].state
        /\ rec.updatedAt = rec.transitions[k].at
    BY <2>1, <2>2 DEF OrderedUpToSkew, Latest
  <2>5. k # 1
    BY <2>1 DEF SubmitterFirst
  <2>6. \A i \in 1..k : submission <= rec'.transitions[i].at + MaxSkew
    <3> HIDE DEF k
    <3>1. MaxSkew \in Nat
      BY TrackerAssumption
    <3>2. \A i \in 2..k : rec.submittedAt <= rec.transitions[i].at + MaxSkew
      <4>1. \A i \in 2..k : 1 \in 1..k /\ i \in 1..k /\ 1 <= i
        BY <2>2
      <4>2. QED
        BY <2>1, <2>4, <4>1
    <3>3. \A i \in 2..k : submission <= rec'.transitions[i].at + MaxSkew
      <4>1. \A i \in 2..k : i \in 1..k
        BY <2>2
      <4>2. QED
        BY <2>1, <2>2, <2>3, <3>1, <3>2, <4>1
    <3>4. submission <= rec'.transitions[1].at + MaxSkew
      BY <2>1, <2>2, <3>1
    <3>5. QED
      BY <2>2, <3>3, <3>4
  <2>7. \A i, j \in 1..k : i <= j => rec'.transitions[i].at <= rec'.transitions[j].at + MaxSkew
    <3>1. SUFFICES ASSUME NEW i \in 1..k, NEW j \in 1..k, i <= j
                   PROVE  rec'.transitions[i].at <= rec'.transitions[j].at + MaxSkew
      OBVIOUS
    <3>2. CASE i = 1
      BY <2>2, <2>6, <3>2
    <3>3. CASE i # 1
      BY <2>2, <2>4, <3>1, <3>3
    <3>4. QED
      BY <3>2, <3>3
  <2>8. rec'.transitions[k] = rec.transitions[k]
    <3> HIDE DEF k
    <3>1. k \in 2..k
      BY <2>2, <2>5
    <3>2. QED
      BY <2>2, <3>1
  <2>9. QED
    BY <2>2, <2>4, <2>7, <2>8 DEF OrderedUpToSkew, Latest
<1>4. ASSUME NEW w \in Writers, NEW now \in Nat, Appends(w, now)
      PROVE  OrderedUpToSkew'
  <2> DEFINE b == Base(now)
             k == Len(b.transitions)
  <2>1. /\ rec' = Appended(b, call[w], now)
        /\ call[w] \in Call
        /\ rec # NoRecord => StampedBy(rec, now)
    BY <1>4 DEF Appends, Store
  <2>2. /\ b \in StatusRecord
        /\ k \in Nat \ {0}
        /\ DOMAIN b.transitions = 1..k
        /\ \A i \in 1..k : b.transitions[i].at \in Nat /\ b.transitions[i].at <= now + MaxSkew
        /\ \A i, j \in 1..k : i <= j => b.transitions[i].at <= b.transitions[j].at + MaxSkew
    BY <2>1, BaseFacts
  <2>3. /\ Len(rec'.transitions) = k + 1
        /\ DOMAIN rec'.transitions = 1..(k + 1)
        /\ \A i \in 1..k : rec'.transitions[i] = b.transitions[i]
        /\ rec'.transitions[k + 1].state = call[w].state
        /\ rec'.transitions[k + 1].at = now
        /\ rec'.state = call[w].state
        /\ rec'.updatedAt = now
    BY <2>1, <2>2, AppendedFields
  <2> HIDE DEF b, k
  <2>4. \A i, j \in 1..(k + 1) : i <= j => rec'.transitions[i].at <= rec'.transitions[j].at + MaxSkew
    <3>1. SUFFICES ASSUME NEW i \in 1..(k + 1), NEW j \in 1..(k + 1), i <= j
                   PROVE  rec'.transitions[i].at <= rec'.transitions[j].at + MaxSkew
      OBVIOUS
    <3>2. CASE j \in 1..k
      <4>1. i \in 1..k
        BY <2>2, <3>1, <3>2
      <4>2. QED
        BY <2>2, <2>3, <3>1, <3>2, <4>1
    <3>3. CASE j = k + 1 /\ i \in 1..k
      BY <2>2, <2>3, <3>3
    <3>4. CASE j = k + 1 /\ i = k + 1
      BY <2>3, <3>4, TrackerAssumption
    <3>5. QED
      BY <2>2, <3>1, <3>2, <3>3, <3>4
  <2>5. QED
    BY <2>3, <2>4 DEF OrderedUpToSkew, Latest
<1>5. CASE Expire
  BY <1>5 DEF Expire, OrderedUpToSkew
<1>6. QED
  BY <1>1, <1>2, <1>3, <1>4, <1>5, TableStep

\* Each process's snapshot is dropped, kept across its swap, or just read.
LEMMA SnapshotStep ==
    ASSUME TrackerInv, [Next]_vars, NEW p \in Process
    PROVE  \/ pc'[p] # "swap" /\ seen'[p] = NoRecord
           \/ /\ pc[p] = "swap" /\ pc'[p] = "swap"
              /\ seen'[p] = seen[p] /\ readAt'[p] = readAt[p]
           \/ /\ pc'[p] = "swap" /\ readAt'[p] = clock
              /\ seen'[p] \in {rec} \cup past
              /\ p = Submitter => submission < seen'[p].submittedAt
<1> USE DEF TrackerInv, SnapshotsHeldInSwap
<1>1. CASE StartQueued
  BY <1>1 DEF StartQueued, Goto, TypeOK, Process
<1>2. CASE Create
  BY <1>2 DEF Create, Goto, TypeOK, Process
<1>3. CASE CreateUnacknowledged
  BY <1>3 DEF CreateUnacknowledged, Goto, TypeOK, Process
<1>4. CASE CreateLost
  BY <1>4 DEF CreateLost, Goto, TypeOK, Process
<1>5. CASE CreateFails
  BY <1>5 DEF CreateFails, Goto, TypeOK, Process
<1>6. CASE ReadForBackdate
  BY <1>6 DEF ReadForBackdate, Readable, Finish, Goto, TypeOK, Process
<1>7. CASE Backdate
  BY <1>7 DEF Backdate, RetryOr, Finish, Forget, Goto, TypeOK, Process
<1>8. CASE BackdateFails
  BY <1>8 DEF BackdateFails, RetryOr, Finish, Forget, Goto, TypeOK, Process
<1>9. CASE \E w \in Writers : BeginTransition(w)
  BY <1>9, TrackerAssumption DEF BeginTransition, StartTransition, Goto, TypeOK, Process, WriterEnd
<1>10. CASE \E w \in Writers : Read(w)
  BY <1>10, TrackerAssumption DEF Read, Readable, Goto, TypeOK, Process
<1>11. CASE \E w \in Writers : Swap(w)
  BY <1>11 DEF Swap, RetryOr, Finish, Forget, Goto, TypeOK, Process
<1>12. CASE \E w \in Writers : SwapFails(w)
  BY <1>12 DEF SwapFails, RetryOr, Finish, Forget, Goto, TypeOK, Process
<1>13. CASE Tick
  BY <1>13 DEF Tick
<1>14. CASE Expire
  BY <1>14 DEF Expire
<1>15. CASE UNCHANGED vars
  BY <1>15 DEF vars
<1>16. QED
  BY <1>1, <1>2, <1>3, <1>4, <1>5, <1>6, <1>7, <1>8, <1>9, <1>10, <1>11, <1>12,
     <1>13, <1>14, <1>15
     DEF Next, SubmitterNext, WriterNext

\* The submitter starts once, and its call settles only when the record shows a
\* submission no later than its own.
LEMMA SubmitterStepFacts ==
    ASSUME TrackerInv, [Next]_vars
    PROVE  /\ pc[Submitter] # "idle" =>
                pc'[Submitter] # "idle" /\ submission' = submission
           /\ pc'[Submitter] = "swap" => pc[Submitter] # "idle"
           /\ pc'[Submitter] \in {"created", "corrected", "untouched"} =>
                \/ pc[Submitter] = pc'[Submitter]
                \/ rec' # NoRecord /\ rec'.submittedAt <= submission'
<1> USE DEF TrackerInv
<1>a. submission \in Nat
  BY DEF TypeOK
<1>1. CASE StartQueued
  BY <1>1 DEF StartQueued, Goto, TypeOK, Process
<1>2. CASE Create \/ CreateUnacknowledged
  <2>1. /\ rec' = queuedRecord(submission)
        /\ submission' = submission
        /\ pc'[Submitter] \notin {"idle", "swap"}
    BY <1>2 DEF Create, CreateUnacknowledged, Store, Goto, TypeOK, Process
  <2>2. rec' \in StatusRecord /\ rec'.submittedAt = submission
    BY <1>a, <2>1, QueuedFields
  <2>3. QED
    BY <1>a, <2>1, <2>2, SentinelAssumption
<1>3. CASE CreateLost \/ CreateFails
  BY <1>3 DEF CreateLost, CreateFails, Goto, TypeOK, Process
<1>4. CASE ReadForBackdate
  <2>1. UNCHANGED <<rec, submission>>
    BY <1>4 DEF ReadForBackdate, KeepTable
  <2>2. pc'[Submitter] \in {"abandoned", "untouched", "swap"}
    BY <1>4 DEF ReadForBackdate, Finish, Goto, TypeOK, Process
  <2>3. ASSUME pc'[Submitter] = "untouched"
        PROVE  rec # NoRecord /\ rec.submittedAt <= submission
    <3>1. PICK r \in Readable : r # NoRecord /\ ~(submission < r.submittedAt)
      BY <1>4, <2>3 DEF ReadForBackdate, Finish, Goto, TypeOK, Process
    <3>2. r = rec \/ Coherent(r)
      BY <3>1 DEF Readable, VersionIdentifies
    <3>3. r \in StatusRecord /\ rec \in StatusRecord \cup {NoRecord}
      BY <3>1 DEF Readable, TypeOK
    <3>4. rec # NoRecord /\ rec.submittedAt <= r.submittedAt
      BY <3>1, <3>2, <3>3 DEF Coherent, StatusRecord
    <3>5. r.submittedAt \in Nat /\ rec.submittedAt \in Nat
      BY <3>3, <3>4 DEF StatusRecord
    <3>6. QED
      BY <1>a, <3>1, <3>4, <3>5
  <2>4. pc[Submitter] = "read"
    BY <1>4 DEF ReadForBackdate
  <2>5. QED
    BY <2>1, <2>2, <2>3, <2>4
<1>5. CASE Backdate
  <2>1. seen[Submitter] = rec /\ rec # NoRecord
    BY <1>5, MatchIsCurrent DEF Backdate, Process, TypeOK
  <2>2. /\ rec' = Backdated(rec, submission)
        /\ submission' = submission
        /\ pc'[Submitter] \notin {"idle", "swap"}
    BY <1>5, <2>1 DEF Backdate, Store, RetryOr, Finish, Goto, TypeOK, Process
  <2>3. rec' \in StatusRecord /\ rec'.submittedAt = submission
    <3>1. rec \in StatusRecord
      BY <2>1 DEF TypeOK
    <3>2. rec' \in StatusRecord
      BY <1>a, <2>2, <3>1, BackdatedType
    <3>3. QED
      BY <2>2, <3>1, <3>2 DEF Backdated, StatusRecord
  <2>4. QED
    BY <1>a, <2>2, <2>3, SentinelAssumption
<1>6. CASE BackdateFails
  BY <1>6 DEF BackdateFails, RetryOr, Finish, Goto, TypeOK, Process
<1>7. ASSUME NEW w \in Writers, BeginTransition(w) \/ Read(w) \/ Swap(w) \/ SwapFails(w)
      PROVE  pc'[Submitter] = pc[Submitter] /\ submission' = submission
  BY <1>7, TrackerAssumption
     DEF BeginTransition, StartTransition, Read, Swap, SwapFails, RetryOr, Finish, Goto,
         TypeOK, Process
<1>8. CASE Tick \/ Expire \/ UNCHANGED vars
  BY <1>8 DEF Tick, Expire, vars
<1>9. QED
  BY <1>1, <1>2, <1>3, <1>4, <1>5, <1>6, <1>7, <1>8
     DEF Next, SubmitterNext, WriterNext

\* What a swap or a creation makes is a record of the next version.
LEMMA AdvanceFacts ==
    ASSUME TrackerInv,
           Creates \/ Corrects \/ (\E w \in Writers, now \in Nat : Appends(w, now))
    PROVE  /\ rec' \in StatusRecord
           /\ past' = past \cup {rec}
           /\ SnapshotsOnlyDropped
           /\ rec # NoRecord =>
                /\ rec'.version = rec.version + 1
                /\ rec'.submittedAt <= rec.submittedAt
                /\ Len(rec'.transitions) >= Len(rec.transitions)
                /\ \A i \in 2..Len(rec.transitions) :
                      rec'.transitions[i] = rec.transitions[i]
<1> USE DEF TrackerInv
<1>1. CASE Creates
  BY <1>1, QueuedRecordType DEF Creates, Store, TypeOK
<1>2. CASE Corrects
  <2>1. /\ rec \in StatusRecord
        /\ rec.submittedAt \in Nat
        /\ submission \in Nat
        /\ submission < rec.submittedAt
        /\ rec.transitions # << >>
        /\ rec.transitions[1].state = "queued"
        /\ rec' = Backdated(rec, submission)
    BY <1>2 DEF Corrects, Store, TypeOK, SubmissionAgrees, StatusRecord
  <2>2. rec' \in StatusRecord
    BY <2>1, BackdatedType
  <2>3. /\ Len(rec.transitions) \in Nat
        /\ Len(rec'.transitions) = Len(rec.transitions)
        /\ \A i \in 2..Len(rec.transitions) : rec'.transitions[i] = rec.transitions[i]
        /\ rec'.submittedAt = submission
        /\ rec'.version = rec.version + 1
    BY <2>1, BackdatedFields
  <2>4. QED
    BY <1>2, <2>1, <2>2, <2>3 DEF Corrects, Store
<1>3. ASSUME NEW w \in Writers, NEW now \in Nat, Appends(w, now)
      PROVE  /\ rec' \in StatusRecord
             /\ past' = past \cup {rec}
             /\ SnapshotsOnlyDropped
             /\ rec # NoRecord =>
                  /\ rec'.version = rec.version + 1
                  /\ rec'.submittedAt <= rec.submittedAt
                  /\ Len(rec'.transitions) >= Len(rec.transitions)
                  /\ \A i \in 2..Len(rec.transitions) :
                        rec'.transitions[i] = rec.transitions[i]
  <2>1. /\ rec' = Appended(Base(now), call[w], now)
        /\ call[w] \in Call
        /\ rec # NoRecord => StampedBy(rec, now)
        /\ past' = past \cup {rec}
        /\ SnapshotsOnlyDropped
    BY <1>3 DEF Appends, Store
  <2>2. Base(now) \in StatusRecord
    BY <2>1, BaseFacts
  <2>3. rec' \in StatusRecord
    BY <2>1, <2>2, AppendedType
  <2>4. ASSUME rec # NoRecord
        PROVE  /\ rec'.version = rec.version + 1
               /\ rec'.submittedAt <= rec.submittedAt
               /\ Len(rec'.transitions) >= Len(rec.transitions)
               /\ \A i \in 2..Len(rec.transitions) :
                     rec'.transitions[i] = rec.transitions[i]
    <3>1. Base(now) = rec /\ rec \in StatusRecord /\ rec.submittedAt \in Nat
      BY <2>2, <2>4 DEF Base, StatusRecord
    <3>2. /\ Len(rec.transitions) \in Nat
          /\ Len(rec'.transitions) = Len(rec.transitions) + 1
          /\ \A i \in 1..Len(rec.transitions) : rec'.transitions[i] = rec.transitions[i]
          /\ rec'.submittedAt = rec.submittedAt
          /\ rec'.version = rec.version + 1
      BY <2>1, <3>1, AppendedFields
    <3>3. QED
      BY <3>1, <3>2
  <2>5. QED
    BY <2>1, <2>3, <2>4
<1>4. QED
  BY <1>1, <1>2, <1>3

\* An entry whose put took effect stays in the record.
LEMMA NoEntryLostStep ==
    ASSUME TrackerInv, [Next]_vars
    PROVE  NoEntryLost'
<1> USE DEF TrackerInv
<1>1. CASE Keeps
  BY <1>1 DEF Keeps, KeepTable, NoEntryLost
<1>2. CASE Creates \/ Corrects
  <2>1. wrote' = wrote
    BY <1>2 DEF Creates, Corrects
  <2>2. SUFFICES ASSUME NEW v \in Writers, wrote[v] # NoRecord
                 PROVE  /\ rec' # NoRecord
                        /\ \E i \in 2..Len(rec'.transitions) :
                              rec'.transitions[i] = wrote[v]
    BY <2>1 DEF NoEntryLost
  <2>3. PICK i \in 2..Len(rec.transitions) : rec # NoRecord /\ rec.transitions[i] = wrote[v]
    BY <2>2 DEF NoEntryLost
  <2>4. rec \in StatusRecord /\ rec' \in StatusRecord
    BY <1>2, <2>3, AdvanceFacts DEF TypeOK
  <2>5. Len(rec.transitions) \in Nat /\ Len(rec'.transitions) \in Nat
    BY <2>4, LenProperties DEF StatusRecord
  <2>6. i \in 2..Len(rec'.transitions) /\ rec'.transitions[i] = rec.transitions[i]
    BY <1>2, <2>3, <2>5, AdvanceFacts
  <2>7. QED
    BY <2>3, <2>4, <2>6, SentinelAssumption
<1>3. ASSUME NEW w \in Writers, NEW now \in Nat, Appends(w, now)
      PROVE  NoEntryLost'
  <2> DEFINE b == Base(now)
             k == Len(b.transitions)
             e == Latest(Appended(b, call[w], now).transitions)
  <2>1. /\ rec' = Appended(b, call[w], now)
        /\ call[w] \in Call
        /\ rec # NoRecord => StampedBy(rec, now)
        /\ wrote' = [wrote EXCEPT ![w] = e]
    BY <1>3 DEF Appends, Store
  <2>2. b \in StatusRecord /\ k \in Nat \ {0}
    BY <2>1, BaseFacts
  <2>3. /\ Len(rec'.transitions) = k + 1
        /\ \A i \in 1..k : rec'.transitions[i] = b.transitions[i]
    BY <2>1, <2>2, AppendedFields
  <2>4. rec' \in StatusRecord
    BY <2>1, <2>2, AppendedType
  <2>5. e = rec'.transitions[k + 1]
    BY <2>1, <2>3 DEF Latest
  <2>6. SUFFICES ASSUME NEW v \in Writers, wrote'[v] # NoRecord
                 PROVE  \E i \in 2..Len(rec'.transitions) : rec'.transitions[i] = wrote'[v]
    BY <2>4, SentinelAssumption DEF NoEntryLost
  <2> HIDE DEF e
  <2>7. CASE v = w
    <3>1. wrote'[v] = e
      BY <2>1, <2>7 DEF TypeOK
    <3>2. k + 1 \in 2..Len(rec'.transitions)
      BY <2>2, <2>3
    <3>3. QED
      BY <2>5, <3>1, <3>2
  <2>8. CASE v # w
    <3>1. wrote'[v] = wrote[v]
      BY <2>1, <2>8 DEF TypeOK
    <3>2. PICK i \in 2..Len(rec.transitions) :
             rec # NoRecord /\ rec.transitions[i] = wrote[v]
      BY <2>6, <3>1 DEF NoEntryLost
    <3>3. b = rec
      BY <3>2 DEF Base
    <3> HIDE DEF b
    <3>4. i \in 2..(k + 1) /\ i \in 1..k
      BY <2>2, <3>2, <3>3
    <3>5. QED
      BY <2>3, <3>1, <3>2, <3>3, <3>4
  <2>9. QED
    BY <2>7, <2>8
<1>4. CASE Expire
  BY <1>4 DEF Expire, NoEntryLost
<1>5. QED
  BY <1>1, <1>2, <1>3, <1>4, TableStep

\* Copies with one version stay equal, and a version is never reused.
LEMMA VersionIdentifiesStep ==
    ASSUME TrackerInv, [Next]_vars
    PROVE  VersionIdentifies'
<1> USE DEF TrackerInv
<1>1. CASE Keeps
  <2>1. UNCHANGED <<rec, past>>
    BY <1>1 DEF Keeps, KeepTable
  <2>2. Coherent(rec)
    BY SMTT(30) DEF Coherent, TypeOK, StatusRecord
  <2>3. \A r \in {NoRecord, rec} \cup past : Coherent(r)
    BY <2>2 DEF VersionIdentifies, Coherent
  <2>4. \A p \in Process : Coherent(seen'[p])
    BY <1>1, <2>3 DEF Keeps, VersionIdentifies
  <2>5. QED
    BY <2>1, <2>3, <2>4 DEF VersionIdentifies, Coherent
<1>2. CASE Creates \/ Corrects \/ (\E w \in Writers, now \in Nat : Appends(w, now))
  <2>1. ASSUME NEW r, r = rec \/ Coherent(r), r \in StatusRecord
        PROVE  /\ r.version <= rec'.version
               /\ r.version # rec'.version
               /\ rec'.submittedAt <= r.submittedAt
    <3>1. rec \in StatusRecord /\ rec # NoRecord
      BY <2>1, SentinelAssumption DEF Coherent, TypeOK
    <3>2. r.version <= rec.version /\ rec.submittedAt <= r.submittedAt
      BY <2>1, <3>1, SentinelAssumption DEF Coherent, StatusRecord
    <3>3. rec' \in StatusRecord /\ rec'.version = rec.version + 1
          /\ rec'.submittedAt <= rec.submittedAt
      BY <1>2, <3>1, AdvanceFacts
    <3>4. /\ {r.version, rec.version, rec'.version} \subseteq Nat
          /\ {r.submittedAt, rec.submittedAt, rec'.submittedAt} \subseteq Nat
      BY <2>1, <3>1, <3>3 DEF StatusRecord
    <3>5. QED
      BY <3>2, <3>3, <3>4
  <2>2. /\ rec' # NoRecord
        /\ past' = past \cup {rec}
        /\ \A p \in Process : seen'[p] \in {seen[p], NoRecord}
    BY <1>2, AdvanceFacts, SentinelAssumption DEF SnapshotsOnlyDropped
  <2>3. \A r \in past' : r # NoRecord =>
          r.version <= rec'.version /\ r.version # rec'.version
            /\ rec'.submittedAt <= r.submittedAt
    BY <2>1, <2>2 DEF VersionIdentifies, TypeOK
  <2>4. \A p \in Process : seen'[p] # NoRecord =>
          seen'[p].version <= rec'.version /\ seen'[p].version # rec'.version
            /\ rec'.submittedAt <= seen'[p].submittedAt
    BY <2>1, <2>2 DEF VersionIdentifies, TypeOK
  <2>5. QED
    BY <2>2, <2>3, <2>4 DEF VersionIdentifies, Coherent
<1>3. CASE Expire
  BY <1>3 DEF Expire, SnapshotsHeldInSwap, VersionIdentifies, Coherent
<1>4. QED
  BY <1>1, <1>2, <1>3, TableStep

\* A snapshot lives only across the swap it is compared in.
LEMMA SnapshotsHeldInSwapStep ==
    ASSUME TrackerInv, [Next]_vars
    PROVE  SnapshotsHeldInSwap'
BY SnapshotStep DEF SnapshotsHeldInSwap

\* What is within the clocks' difference of a moment is so of any later one.
LEMMA WithinSkewLater ==
    ASSUME NEW t \in Nat, NEW a \in Nat, NEW b \in Nat, NEW d \in Nat,
           t <= a + d, a <= b
    PROVE  t <= b + d
OBVIOUS

\* No stored time is further ahead than a clock may be, and no held one was.
LEMMA TimesPastStep ==
    ASSUME TrackerInv, [Next]_vars
    PROVE  TimesPast'
<1> USE DEF TrackerInv
<1>0. MaxSkew \in Nat
  BY TrackerAssumption
<1>1. /\ clock \in Nat /\ clock' \in Nat
      /\ clock <= clock'
      /\ submission \in Nat
      /\ submission' = submission \/ submission' \in Readings(clock, clock)
  <2>1. /\ clock' \in {clock, clock + 1}
        /\ submission' = submission \/ submission' \in Readings(clock, clock)
    BY TableStep DEF Keeps, Creates, Corrects, Appends, Expire
  <2>2. QED
    BY <2>1 DEF TypeOK
<1>2. \A r \in {rec} \cup past : r # NoRecord =>
        r \in StatusRecord /\ StampedBy(r, clock) /\ StampedBy(r, clock')
  BY <1>1, StampedLater DEF TimesPast, TypeOK
<1>3. \A r \in {rec'} \cup past' : r # NoRecord => StampedBy(r, clock')
  <2>1. CASE Keeps
    BY <1>2, <2>1 DEF Keeps, KeepTable
  <2>2. CASE Creates
    <3>1. /\ rec' = queuedRecord(submission)
          /\ past' = past \cup {rec}
      BY <2>2 DEF Creates, Store
    <3>2. /\ DOMAIN rec'.transitions = {1}
          /\ rec'.transitions[1] = [state |-> "queued", at |-> submission, attempt |-> 0]
      BY <1>1, <3>1, QueuedFields
    <3>3. submission <= clock' + MaxSkew
      BY <1>0, <1>1 DEF TimesPast
    <3>4. StampedBy(rec', clock')
      BY <3>2, <3>3 DEF StampedBy
    <3>5. QED
      BY <1>2, <3>1, <3>4
  <2>3. CASE Corrects
    <3>1. /\ rec \in StatusRecord
          /\ rec # NoRecord
          /\ rec.transitions # << >>
          /\ rec.transitions[1].state = "queued"
          /\ rec' = Backdated(rec, submission)
          /\ past' = past \cup {rec}
      BY <2>3 DEF Corrects, Store, TypeOK, SubmissionAgrees
    <3> DEFINE k == Len(rec.transitions)
    <3>2. /\ k \in Nat \ {0}
          /\ DOMAIN rec.transitions = 1..k
          /\ DOMAIN rec'.transitions = 1..k
          /\ rec'.transitions[1].at = submission
          /\ \A i \in 2..k : rec'.transitions[i] = rec.transitions[i]
      BY <1>1, <3>1, BackdatedFields
    <3> HIDE DEF k
    <3>3. submission <= clock' + MaxSkew
      BY <1>0, <1>1 DEF TimesPast
    <3>4. \A i \in 1..k : rec.transitions[i].at <= clock' + MaxSkew
      BY <1>2, <3>1, <3>2 DEF StampedBy
    <3>5. \A i \in 1..k : i = 1 \/ i \in 2..k
      BY <3>2
    <3>6. \A i \in 1..k : rec'.transitions[i].at <= clock' + MaxSkew
      BY <3>2, <3>3, <3>4, <3>5
    <3>7. StampedBy(rec', clock')
      BY <3>2, <3>6 DEF StampedBy
    <3>8. QED
      BY <1>2, <3>1, <3>7
  <2>4. ASSUME NEW w \in Writers, NEW now \in Nat, Appends(w, now)
        PROVE  \A r \in {rec'} \cup past' : r # NoRecord => StampedBy(r, clock')
    <3>1. /\ rec' = Appended(Base(now), call[w], now)
          /\ call[w] \in Call
          /\ rec # NoRecord => StampedBy(rec, now)
          /\ past' = past \cup {rec}
          /\ now <= clock + MaxSkew
      BY <2>4 DEF Appends, Store
    <3> DEFINE b == Base(now)
               k == Len(b.transitions)
    <3>2. /\ b \in StatusRecord
          /\ k \in Nat \ {0}
          /\ DOMAIN b.transitions = 1..k
      BY <3>1, BaseFacts
    <3>3. /\ DOMAIN rec'.transitions = 1..(k + 1)
          /\ \A i \in 1..k : rec'.transitions[i] = b.transitions[i]
          /\ rec'.transitions[k + 1].at = now
      BY <3>1, <3>2, AppendedFields
    <3>4. \A i \in 1..k : b.transitions[i].at <= clock' + MaxSkew
      <4>1. CASE rec = NoRecord
        <5>1. b = queuedRecord(now)
          BY <4>1 DEF Base
        <5>2. DOMAIN b.transitions = {1} /\ b.transitions[1].at = now
          <6>1. /\ DOMAIN b.transitions = {1}
                /\ b.transitions[1] = [state |-> "queued", at |-> now, attempt |-> 0]
            BY <5>1, QueuedFields
          <6>2. QED
            BY <6>1
        <5> HIDE DEF b, k
        <5>3. QED
          BY <1>0, <1>1, <3>1, <3>2, <5>2
      <4>2. CASE rec # NoRecord
        <5>1. b = rec
          BY <4>2 DEF Base
        <5>2. QED
          BY <1>2, <3>2, <4>2, <5>1 DEF StampedBy
      <4>3. QED
        BY <4>1, <4>2
    <3> HIDE DEF b, k
    <3>5. now <= clock' + MaxSkew
      <4>1. now \in Nat /\ now <= clock + MaxSkew
        BY <3>1
      <4>2. clock \in Nat /\ clock' \in Nat /\ clock <= clock'
        BY <1>1
      <4>3. QED
        BY <1>0, <4>1, <4>2, WithinSkewLater
    <3>6. \A i \in 1..(k + 1) : rec'.transitions[i].at <= clock' + MaxSkew
      <4>1. \A i \in 1..(k + 1) : i \in 1..k \/ i = k + 1
        BY <3>2
      <4>2. QED
        BY <3>3, <3>4, <3>5, <4>1
    <3>7. StampedBy(rec', clock')
      BY <3>3, <3>6 DEF StampedBy
    <3>8. QED
      BY <1>2, <3>1, <3>7
  <2>5. CASE Expire
    BY <2>5 DEF Expire
  <2>6. QED
    BY <2>1, <2>2, <2>3, <2>4, <2>5, TableStep
<1>4. ASSUME NEW p \in Process, pc'[p] = "swap"
      PROVE  /\ readAt'[p] <= clock'
             /\ seen'[p] # NoRecord => StampedBy(seen'[p], readAt'[p])
  <2>1. CASE pc[p] = "swap" /\ seen'[p] = seen[p] /\ readAt'[p] = readAt[p]
    <3>1. readAt[p] \in Nat /\ readAt[p] <= clock
      BY <2>1 DEF TimesPast, TypeOK
    <3>2. QED
      BY <1>1, <2>1, <3>1 DEF TimesPast
  <2>2. CASE readAt'[p] = clock /\ seen'[p] \in {rec} \cup past
    BY <1>1, <1>2, <2>2
  <2>3. QED
    BY <1>4, <2>1, <2>2, SnapshotStep
<1>5. submission' <= clock' + MaxSkew
  BY <1>0, <1>1 DEF TimesPast, Readings
<1>6. QED
  BY <1>3, <1>4, <1>5 DEF TimesPast

\* A record without a handler's entry is the submitter's, and a correction in
\* progress would make the submission earlier.
LEMMA SubmitterFirstStep ==
    ASSUME TrackerInv, [Next]_vars
    PROVE  SubmitterFirst'
<1> USE DEF TrackerInv
<1>1. submission \in Nat /\ clock \in Nat
  BY DEF TypeOK
<1>2. pc'[Submitter] = "swap" => submission' < seen'[Submitter].submittedAt
  <2>1. Submitter \in Process
    BY DEF Process
  <2>2. SUFFICES ASSUME pc'[Submitter] = "swap"
                 PROVE  submission' < seen'[Submitter].submittedAt
    OBVIOUS
  <2>3. \/ /\ pc[Submitter] = "swap"
           /\ seen'[Submitter] = seen[Submitter]
        \/ submission < seen'[Submitter].submittedAt
    BY <2>1, <2>2, SnapshotStep
  <2>4. submission < seen'[Submitter].submittedAt
    BY <2>3 DEF SubmitterFirst
  <2>5. pc[Submitter] # "idle"
    BY <2>2, SubmitterStepFacts
  <2>6. QED
    BY <2>4, <2>5, SubmitterStepFacts
<1>3. ASSUME rec' # NoRecord, Len(rec'.transitions) = 1
      PROVE  pc'[Submitter] # "idle" /\ rec'.submittedAt <= submission'
  <2>1. CASE Keeps
    BY <1>3, <2>1, SubmitterStepFacts DEF Keeps, KeepTable, SubmitterFirst
  <2>2. CASE Creates
    <3>1. rec' = queuedRecord(submission) /\ submission' = submission /\ pc'[Submitter] # "idle"
      BY <2>2 DEF Creates, Store
    <3>2. rec'.submittedAt = submission
      BY <1>1, <3>1, QueuedFields
    <3>3. QED
      BY <1>1, <3>1, <3>2
  <2>3. CASE Corrects
    <3>1. /\ rec \in StatusRecord
          /\ rec # NoRecord
          /\ rec.transitions # << >>
          /\ rec.transitions[1].state = "queued"
          /\ rec' = Backdated(rec, submission)
          /\ submission' = submission
      BY <2>3 DEF Corrects, Store, TypeOK, SubmissionAgrees
    <3>2. Len(rec'.transitions) = Len(rec.transitions) /\ rec'.submittedAt = submission
      BY <1>1, <3>1, BackdatedFields
    <3>3. QED
      BY <1>1, <1>3, <3>1, <3>2, SubmitterStepFacts DEF SubmitterFirst
  <2>4. ASSUME NEW w \in Writers, NEW now \in Nat, Appends(w, now)
        PROVE  FALSE
    <3>1. /\ rec' = Appended(Base(now), call[w], now)
          /\ call[w] \in Call
          /\ rec # NoRecord => StampedBy(rec, now)
      BY <2>4 DEF Appends, Store
    <3>2. Base(now) \in StatusRecord /\ Len(Base(now).transitions) \in Nat \ {0}
      BY <3>1, BaseFacts
    <3>3. Len(rec'.transitions) = Len(Base(now).transitions) + 1
      BY <3>1, <3>2, AppendedFields
    <3> DEFINE k == Len(Base(now).transitions)
    <3>4. k \in Nat \ {0} /\ k + 1 = 1
      BY <1>3, <3>2, <3>3
    <3> HIDE DEF k
    <3>5. QED
      BY <3>4
  <2>5. CASE Expire
    BY <1>3, <2>5 DEF Expire
  <2>6. QED
    BY <2>1, <2>2, <2>3, <2>4, <2>5, TableStep
<1>4. QED
  BY <1>2, <1>3 DEF SubmitterFirst

\* Once settled, the record never shows a later submission.
LEMMA SubmissionSettledStep ==
    ASSUME TrackerInv, [Next]_vars
    PROVE  SubmissionSettled'
<1> USE DEF TrackerInv
<1>1. SUFFICES ASSUME pc'[Submitter] \in {"created", "corrected", "untouched"}, ~reaped'
               PROVE  rec' # NoRecord /\ rec'.submittedAt <= submission'
  BY DEF SubmissionSettled
<1>2. CASE pc[Submitter] # pc'[Submitter]
  BY <1>1, <1>2, SubmitterStepFacts
<1>3. CASE pc[Submitter] = pc'[Submitter]
  <2>1. submission' = submission /\ submission \in Nat
    BY <1>1, <1>3, SubmitterStepFacts DEF TypeOK
  <2>2. ~reaped
    <3>1. ~Expire
      BY <1>1 DEF Expire
    <3>2. QED
      BY <1>1, <3>1, TableStep DEF Keeps, KeepTable, Creates, Corrects, Appends
  <2>3. rec # NoRecord /\ rec.submittedAt <= submission
    BY <1>1, <1>3, <2>2 DEF SubmissionSettled
  <2>4. rec \in StatusRecord /\ rec.submittedAt \in Nat
    BY <2>3 DEF TypeOK, StatusRecord
  <2>5. CASE Keeps
    BY <2>1, <2>3, <2>5 DEF Keeps, KeepTable
  <2>6. CASE Creates \/ Corrects \/ (\E w \in Writers, now \in Nat : Appends(w, now))
    <3>1. rec' \in StatusRecord /\ rec'.submittedAt <= rec.submittedAt
      BY <2>3, <2>6, AdvanceFacts
    <3>2. rec'.submittedAt \in Nat
      BY <3>1 DEF StatusRecord
    <3>3. QED
      BY <2>1, <2>3, <2>4, <3>1, <3>2, SentinelAssumption
  <2>7. ~Expire
    BY <1>1 DEF Expire
  <2>8. QED
    BY <2>5, <2>6, <2>7, TableStep
<1>4. QED
  BY <1>2, <1>3

-------------------------------------------------------------------------------
(* The inductive invariant, and what follows from it.                      *)

\* The invariant holds of an empty table.
LEMMA InitInv == Init => TrackerInv
<1> SUFFICES ASSUME Init PROVE TrackerInv
  OBVIOUS
<1>1. TypeOK
  BY TypeInit
<1>2. Submitter \in Process /\ pc[Submitter] = "idle"
  BY DEF Init, Process
<1>3. SubmissionAgrees /\ OrderedUpToSkew /\ NoEntryLost
  BY DEF Init, SubmissionAgrees, OrderedUpToSkew, NoEntryLost
<1>4. SubmissionSettled /\ SubmitterFirst
  BY <1>2 DEF Init, SubmissionSettled, SubmitterFirst
<1>5. VersionIdentifies /\ SnapshotsHeldInSwap
  BY DEF Init, VersionIdentifies, Coherent, SnapshotsHeldInSwap
<1>6. TimesPast
  BY TrackerAssumption DEF Init, TimesPast
<1>7. QED
  BY <1>1, <1>3, <1>4, <1>5, <1>6 DEF TrackerInv

\* And every step keeps it.
LEMMA StepInv == TrackerInv /\ [Next]_vars => TrackerInv'
BY TypeStep, SubmissionAgreesStep, OrderedUpToSkewStep, NoEntryLostStep,
   SubmissionSettledStep, VersionIdentifiesStep, SnapshotsHeldInSwapStep,
   TimesPastStep, SubmitterFirstStep
   DEF TrackerInv

\* The tracker keeps its invariant with any number of writers and whatever the
\* table loses, delays or expires (status.ts JobStatusTracker).
THEOREM TrackerInvariant == Spec => []TrackerInv
BY InitInv, StepInv, PTL DEF Spec

\* submittedAt equals the queued entry's time in the stored record and in every
\* stale copy of it (status.ts backdateSubmission).
THEOREM SubmissionAlwaysAgrees == Spec => []SubmissionAgrees
BY TrackerInvariant, PTL DEF TrackerInv

\* However far apart the hosts' clocks are, the recorded transitions are in time
\* order up to that difference, and the record's state is its last transition's
\* (status.ts recordTransition: `now` is the writer's own `new Date()`).
THEOREM AlwaysOrderedUpToSkew == Spec => []OrderedUpToSkew
BY TrackerInvariant, PTL DEF TrackerInv

\* No writer's entry is lost to another writer or to the submitter's correction
\* (status.ts recordTransition, the compare-and-swap loop).
THEOREM NoEntryEverLost == Spec => []NoEntryLost
BY TrackerInvariant, PTL DEF TrackerInv

\* When recordQueued has succeeded, the record keeps a submission no later than
\* the real one (status.ts recordQueued).
THEOREM SubmissionStaysSettled == Spec => []SubmissionSettled
BY TrackerInvariant, PTL DEF TrackerInv

\* Equal versions are equal records (status.ts, `ifFieldEquals: { version }`).
THEOREM VersionsIdentify == Spec => []VersionIdentifies
BY TrackerInvariant, PTL DEF TrackerInv

-------------------------------------------------------------------------------
(* The record implements the append-only log.                              *)

\* The log a table holds.
LogOf(r) == IF r = NoRecord THEN << >> ELSE r.transitions

\* The queued entry belongs to no delivery.
QueuedUnattempted == rec # NoRecord => rec.transitions[1].attempt = 0

\* It never does.
LEMMA QueuedUnattemptedStep ==
    ASSUME TrackerInv, QueuedUnattempted, [Next]_vars
    PROVE  QueuedUnattempted'
<1> USE DEF TrackerInv
<1>1. CASE Keeps
  BY <1>1 DEF Keeps, KeepTable, QueuedUnattempted
<1>2. CASE Creates
  <2>1. submission \in Nat /\ rec' = queuedRecord(submission)
    BY <1>2 DEF TypeOK, Creates, Store
  <2>2. rec'.transitions[1] = [state |-> "queued", at |-> submission, attempt |-> 0]
    BY <2>1, QueuedFields
  <2>3. QED
    BY <2>2 DEF QueuedUnattempted
<1>3. CASE Corrects
  <2>1. /\ rec \in StatusRecord
        /\ rec # NoRecord
        /\ submission \in Nat
        /\ rec.transitions # << >>
        /\ rec.transitions[1].state = "queued"
        /\ rec' = Backdated(rec, submission)
    BY <1>3 DEF Corrects, Store, TypeOK, SubmissionAgrees
  <2>2. rec'.transitions[1].attempt = rec.transitions[1].attempt
    BY <2>1, BackdatedFields
  <2>3. QED
    BY <2>1, <2>2 DEF QueuedUnattempted
<1>4. ASSUME NEW w \in Writers, NEW now \in Nat, Appends(w, now)
      PROVE  QueuedUnattempted'
  <2> DEFINE b == Base(now)
             k == Len(b.transitions)
  <2>1. /\ rec' = Appended(b, call[w], now)
        /\ call[w] \in Call
        /\ rec # NoRecord => StampedBy(rec, now)
    BY <1>4 DEF Appends, Store
  <2>2. b \in StatusRecord /\ k \in Nat \ {0}
    BY <2>1, BaseFacts
  <2>3. \A i \in 1..k : rec'.transitions[i] = b.transitions[i]
    BY <2>1, <2>2, AppendedFields
  <2>4. b.transitions[1].attempt = 0
    <3>1. CASE rec = NoRecord
      <4>1. b = queuedRecord(now)
        BY <3>1 DEF Base
      <4>2. b.transitions[1] = [state |-> "queued", at |-> now, attempt |-> 0]
        BY <4>1, QueuedFields
      <4>3. QED
        BY <4>2
    <3>2. CASE rec # NoRecord
      BY <3>2 DEF Base, QueuedUnattempted
    <3>3. QED
      BY <3>1, <3>2
  <2> HIDE DEF b, k
  <2>5. QED
    BY <2>2, <2>3, <2>4 DEF QueuedUnattempted
<1>5. CASE Expire
  BY <1>5 DEF Expire, QueuedUnattempted
<1>6. QED
  BY <1>1, <1>2, <1>3, <1>4, <1>5, TableStep

\* The table of a state that satisfies the invariant holds a well-formed log.
LEMMA TableIsLog ==
    TypeOK /\ SubmissionAgrees /\ OrderedUpToSkew /\ QueuedUnattempted
        => Log!WellFormed(LogOf(rec))
<1> SUFFICES ASSUME TypeOK, SubmissionAgrees, OrderedUpToSkew, QueuedUnattempted
             PROVE  Log!WellFormed(LogOf(rec))
  OBVIOUS
<1>1. Transition = Log!Entry
  BY DEF Transition, Log!Entry
<1>2. CASE rec = NoRecord
  BY <1>2 DEF LogOf, Log!WellFormed
<1>3. CASE rec # NoRecord
  <2> DEFINE s == rec.transitions
  <2>1. s \in Seq(Log!Entry)
    BY <1>1, <1>3 DEF TypeOK, StatusRecord
  <2>2. s[1].state = "queued" /\ s[1].attempt = 0
    BY <1>3 DEF SubmissionAgrees, QueuedUnattempted
  <2>3. \A i, j \in DOMAIN s : i <= j => s[i].at <= s[j].at + MaxSkew
    BY <1>3 DEF OrderedUpToSkew
  <2>4. LogOf(rec) = s
    BY <1>3 DEF LogOf
  <2> HIDE DEF s
  <2>5. QED
    BY <2>1, <2>2, <2>3, <2>4 DEF Log!WellFormed
<1>4. QED
  BY <1>2, <1>3

\* Every step of the tracker is a step of the log, or leaves it alone.
LEMMA LogStep ==
    ASSUME TrackerInv, QueuedUnattempted, [Next]_vars
    PROVE  \/ Log!Next
           \/ LogOf(rec') = LogOf(rec)
<1> USE DEF TrackerInv
<1>1. Log!WellFormed(LogOf(rec'))
  <2>1. TypeOK' /\ SubmissionAgrees' /\ OrderedUpToSkew' /\ QueuedUnattempted'
    BY TypeStep, SubmissionAgreesStep, OrderedUpToSkewStep, QueuedUnattemptedStep
  <2>2. (Log!WellFormed(LogOf(rec)))'
    BY <2>1, TableIsLog, PTL
  <2>3. QED
    BY <2>2 DEF LogOf, Log!WellFormed, Log!Entry
<1>2. CASE Keeps
  BY <1>2 DEF Keeps, KeepTable, LogOf
<1>3. CASE Creates
  <2>1. rec = NoRecord /\ submission \in Nat /\ rec' = queuedRecord(submission)
    BY <1>3 DEF TypeOK, Creates, Store
  <2>2. rec' # NoRecord /\ Len(rec'.transitions) = 1
    BY <2>1, QueuedFields, SentinelAssumption
  <2>3. Log!Open
    BY <2>1, <2>2 DEF Log!Open
  <2>4. QED
    BY <1>1, <2>2, <2>3 DEF Log!Next, LogOf
<1>4. CASE Corrects
  <2>1. /\ rec \in StatusRecord
        /\ rec # NoRecord
        /\ submission \in Nat
        /\ submission < rec.submittedAt
        /\ rec.transitions # << >>
        /\ rec.transitions[1].state = "queued"
        /\ rec.transitions[1].at = rec.submittedAt
        /\ rec' = Backdated(rec, submission)
    BY <1>4 DEF Corrects, Store, TypeOK, SubmissionAgrees
  <2>2. rec' # NoRecord
    BY <2>1, BackdatedType, SentinelAssumption
  <2>3. /\ Len(rec'.transitions) = Len(rec.transitions)
        /\ DOMAIN rec.transitions = 1..Len(rec.transitions)
        /\ rec'.transitions[1].at = submission
        /\ \A i \in 2..Len(rec.transitions) : rec'.transitions[i] = rec.transitions[i]
        /\ Len(rec.transitions) \in Nat \ {0}
    BY <2>1, BackdatedFields
  <2>4. \A i \in DOMAIN rec.transitions : i > 1 => rec'.transitions[i] = rec.transitions[i]
    BY <2>3
  <2>5. Log!Correct
    BY <2>1, <2>2, <2>3, <2>4 DEF Log!Correct
  <2>6. QED
    BY <1>1, <2>2, <2>5 DEF Log!Next, LogOf
<1>5. ASSUME NEW w \in Writers, NEW now \in Nat, Appends(w, now)
      PROVE  Log!Next
  <2> DEFINE b == Base(now)
             k == Len(b.transitions)
  <2>1. /\ rec' = Appended(b, call[w], now)
        /\ call[w] \in Call
        /\ rec # NoRecord => StampedBy(rec, now)
    BY <1>5 DEF Appends, Store
  <2>2. /\ b \in StatusRecord
        /\ k \in Nat \ {0}
        /\ DOMAIN b.transitions = 1..k
        /\ b.transitions # << >>
    BY <2>1, BaseFacts
  <2>3. /\ Len(rec'.transitions) = k + 1
        /\ \A i \in 1..k : rec'.transitions[i] = b.transitions[i]
        /\ rec'.transitions[k + 1].at = now
    BY <2>1, <2>2, AppendedFields
  <2>4. rec' # NoRecord
    BY <2>1, <2>2, AppendedType, SentinelAssumption
  <2>5. CASE rec = NoRecord
    <3>1. b = queuedRecord(now)
      BY <2>5 DEF Base
    <3>2. k = 1 /\ b.transitions[1].at = now
      <4>1. /\ Len(b.transitions) = 1
            /\ b.transitions[1] = [state |-> "queued", at |-> now, attempt |-> 0]
        BY <3>1, QueuedFields
      <4>2. QED
        BY <4>1
    <3> HIDE DEF b, k
    <3>3. /\ Len(rec'.transitions) = 2
          /\ rec'.transitions[1].at = rec'.transitions[2].at
      BY <2>3, <3>2
    <3>4. Log!Open
      BY <2>4, <2>5, <3>3 DEF Log!Open
    <3>5. QED
      BY <1>1, <2>4, <3>4 DEF Log!Next, LogOf
  <2>6. CASE rec # NoRecord
    <3>1. b = rec
      BY <2>6 DEF Base
    <3>2. /\ rec.transitions # << >>
          /\ Len(rec'.transitions) = Len(rec.transitions) + 1
          /\ \A i \in DOMAIN rec.transitions : rec'.transitions[i] = rec.transitions[i]
      BY <2>2, <2>3, <3>1
    <3>3. Log!Extend
      BY <2>4, <2>6, <3>2 DEF Log!Extend
    <3>4. QED
      BY <1>1, <2>4, <3>3 DEF Log!Next, LogOf
  <2>7. QED
    BY <2>5, <2>6
<1>6. CASE Expire
  <2>1. rec # NoRecord /\ rec.transitions # << >> /\ rec' = NoRecord
    BY <1>6 DEF Expire, SubmissionAgrees
  <2>2. Log!Reap
    BY <2>1 DEF Log!Reap
  <2>3. QED
    BY <1>1, <2>1, <2>2 DEF Log!Next, LogOf
<1>7. QED
  BY <1>2, <1>3, <1>4, <1>5, <1>6, TableStep

\* The status record is an append-only log whose first entry alone may move,
\* and only to an earlier time (types.ts AsyncJobStatus; status.ts).
THEOREM ImplementsHistory == Spec => RefinesHistory
<1>1. Init => Log!Init
  BY DEF Init, Log!Init
<1>2. Init => QueuedUnattempted
  BY DEF Init, QueuedUnattempted
<1>3. TrackerInv /\ QueuedUnattempted /\ [Next]_vars => QueuedUnattempted'
  BY QueuedUnattemptedStep
<1>4. TrackerInv /\ QueuedUnattempted /\ [Next]_vars
        => [Log!Next]_(IF rec = NoRecord THEN << >> ELSE rec.transitions)
  BY LogStep DEF LogOf
<1>5. QED
  BY <1>1, <1>2, <1>3, <1>4, TrackerInvariant, PTL DEF Spec, RefinesHistory, Log!Spec

-------------------------------------------------------------------------------
(* The composition: what a delivery knows.                                 *)

\* What a delivery is recording fits where it is.
CallsFit ==
    \A d \in Writers :
        /\ stage[d] = "starting" => call[d].state = "processing"
        /\ stage[d] \in {"completing", "failing"} => call[d].state \in Terminal
        /\ stage[d] = "failing" => d = MAX_RETRIES

\* The message leaves the queue by its last delivery.
QueueEnds ==
    /\ \A d \in Writers : d <= receives => stage[d] # "free"
    /\ \A d \in Writers : stage[d] = "acked" => queue \in {"deleted", "dead"}
    /\ queue = "dead" => receives = MAX_RETRIES

\* A delivery whose terminal entry is in the record.
Closes(d) ==
    \/ stage[d] \in {"completing", "failing"} /\ pc[d] = "returned"
    \/ stage[d] = "acked"
    \/ stage[d] = "rejected" /\ d = MAX_RETRIES

\* While calm, deliveries follow one another, and the record is settled by the one that
\* nothing follows.
CalmDeliveries ==
    /\ \A d \in Writers : pc[d] # "threw" /\ stage[d] # "crashed"
    /\ \A d \in Writers : stage[d] \in Running => d = receives
    /\ queue = "deleted" => receives \in Writers /\ stage[receives] = "acked"
    /\ Settled => receives \in Writers /\ Closes(receives)
    /\ \A d \in Writers : Closes(d) => Settled

\* ... and that terminal entry is the last one, also for readers of an old copy.
CalmRecord ==
    /\ answer \in Terminal \cup {"none"}
    /\ \A i \in TerminalEntries : i = Len(rec.transitions)
    /\ rec # NoRecord /\ rec.error # 0 => rec.state = "failed"
    /\ \A r \in past : r # NoRecord /\ r.state \in Terminal => rec # NoRecord /\ rec.state = r.state
    /\ answer # "none" => rec # NoRecord /\ rec.state = answer

CalmInv == CallsFit /\ QueueEnds /\ (calm => CalmDeliveries /\ CalmRecord)

-------------------------------------------------------------------------------
(* The promise of AtLeastOnce.                                             *)

\* A delivery that has a stage has been received.
QueueInv ==
    /\ queue \in Place
    /\ receives \in 0..MAX_RETRIES
    /\ stage \in [Writers -> Stage]
    /\ \A d \in Writers : stage[d] # "free" => d <= receives

\* What the steps that leave the queue and the deliveries alone have in common.
Elsewhere ==
    \/ RecordSubmission \/ SubmitterStep \/ (Tick /\ UNCHANGED deliveryVars) \/ Poll
    \/ \E d \in Writers : WriterStep(d)
    \/ UNCHANGED allVars

LEMMA ElsewhereKeeps ==
    ASSUME Elsewhere
    PROVE  UNCHANGED <<queue, receives, stage>>
BY DEF Elsewhere, RecordSubmission, SubmitterStep, Poll, WriterStep, allVars, deliveryVars

\* What a delivery does after it was received, by the stage it leaves and enters.
Moves(d, from, to) == stage[d] = from /\ EnterStage(d, to) /\ receives' = receives

LEMMA DeliveryMoves ==
    ASSUME NEW d \in Writers,
           HandlerSucceeds(d) \/ HandlerThrows(d) \/ Reject(d) \/ Acknowledge(d) \/ Crash(d)
    PROVE  \/ Moves(d, "starting", "completing") /\ queue' = queue
           \/ Moves(d, "completing", "acked") /\ queue' = IF queue = "dead" THEN "dead" ELSE "deleted"
           \/ \E from \in Running, to \in {"failing", "rejected", "crashed"} :
                Moves(d, from, to) /\ queue' = queue
<1>1. CASE HandlerSucceeds(d)
  BY <1>1 DEF HandlerSucceeds, Moves
<1>2. CASE HandlerThrows(d)
  BY <1>2 DEF HandlerThrows, Moves, Running
<1>3. CASE Reject(d)
  BY <1>3 DEF Reject, Moves, Running
<1>4. CASE Acknowledge(d)
  BY <1>4 DEF Acknowledge, Moves
<1>5. CASE Crash(d)
  BY <1>5 DEF Crash, Moves, Running
<1> QED
  BY <1>1, <1>2, <1>3, <1>4, <1>5

LEMMA StageStep ==
    ASSUME QueueInv, NEW d \in Writers, NEW from, NEW to \in Stage, from # "free", Moves(d, from, to),
           queue' \in Place
    PROVE  QueueInv'
BY DEF QueueInv, Moves, EnterStage

\* The steps of DeliveryNext, by what they do to the queue.
LEMMA StepKinds ==
    ASSUME [DeliveryNext]_allVars
    PROVE  \/ Elsewhere \/ Send \/ Lapse \/ Redrive
           \/ \E d \in Writers : Receive(d)
           \/ \E d \in Writers :
                HandlerSucceeds(d) \/ HandlerThrows(d) \/ Reject(d) \/ Acknowledge(d) \/ Crash(d)
BY DEF DeliveryNext, Deliver, Elsewhere

LEMMA QueueStep == QueueInv /\ [DeliveryNext]_allVars => QueueInv'
<1> SUFFICES ASSUME QueueInv, [DeliveryNext]_allVars PROVE QueueInv'
  OBVIOUS
<1>1. CASE Elsewhere
  BY <1>1, ElsewhereKeeps DEF QueueInv
<1>2. CASE Send \/ Lapse \/ Redrive
  BY <1>2 DEF Send, Lapse, Redrive, QueueInv, Place
<1>3. ASSUME NEW d \in Writers, Receive(d) PROVE QueueInv'
  <2>1. d \in 1..MAX_RETRIES /\ receives' = d /\ receives < d
    BY <1>3, DeliveryAssumption DEF Receive, QueueInv
  <2>2. stage' \in [Writers -> Stage] /\ \A e \in Writers : e # d => stage'[e] = stage[e]
    BY <1>3 DEF Receive, EnterStage, QueueInv, Stage
  <2>3. \A e \in Writers : e \in Nat
    BY DeliveryAssumption
  <2> QED
    BY <1>3, <2>1, <2>2, <2>3, DeliveryAssumption DEF Receive, QueueInv, Place
<1>4. ASSUME NEW d \in Writers,
             HandlerSucceeds(d) \/ HandlerThrows(d) \/ Reject(d) \/ Acknowledge(d) \/ Crash(d)
      PROVE  QueueInv'
  <2>1. queue' \in Place /\ \E from, to \in Stage : from # "free" /\ Moves(d, from, to)
    BY <1>4, DeliveryMoves DEF Running, Stage, Place, QueueInv
  <2> QED
    BY <2>1, StageStep
<1> QED
  BY <1>1, <1>2, <1>3, <1>4, StepKinds

LEMMA QueueInit == DeliveryInit => QueueInv
BY DeliveryAssumption DEF DeliveryInit, QueueInv, Place, Stage

\* Every step is one that the promise allows, or changes nothing it speaks of.
LEMMA PromiseStep ==
    QueueInv /\ [DeliveryNext]_allVars => [Promise!Next]_(Promise!aloVars)
<1> DEFINE outcome == [m \in {"job"} |-> IF queue \in {"deleted", "dead"} THEN queue ELSE "pending"]
           attempts == [m \in {"job"} |-> receives]
           finishing == {m \in {"job"} : \E d \in Writers : stage[d] = "completing"}
<1> SUFFICES ASSUME QueueInv, [DeliveryNext]_allVars
             PROVE  Promise!Next \/ UNCHANGED <<outcome, attempts, finishing>>
  BY DEF Promise!aloVars
<1>1. UNCHANGED <<outcome, finishing>> /\ UNCHANGED attempts
        => Promise!Next \/ UNCHANGED <<outcome, attempts, finishing>>
  OBVIOUS
<1>2. CASE Elsewhere
  BY <1>2, ElsewhereKeeps
<1>3. CASE Send \/ Lapse
  BY <1>3 DEF Send, Lapse
<1>4. CASE Redrive
  <2>1. receives = MAX_RETRIES /\ queue = "visible" /\ queue' = "dead" /\ UNCHANGED <<receives, stage>>
    BY <1>4, DeliveryAssumption DEF Redrive, QueueInv
  <2>2. Promise!GiveUp("job")
    BY <2>1 DEF Promise!GiveUp
  <2> QED
    BY <2>2 DEF Promise!Next
<1>5. ASSUME NEW d \in Writers, Receive(d)
      PROVE  Promise!Next \/ UNCHANGED <<outcome, attempts, finishing>>
  <2>1. /\ queue = "visible" /\ queue' = "hidden" /\ receives' = receives + 1
        /\ receives < MAX_RETRIES
    BY <1>5, DeliveryAssumption DEF Receive, QueueInv
  <2>2. stage[d] = "free" /\ stage' = [stage EXCEPT ![d] = "starting"] /\ stage \in [Writers -> Stage]
    BY <1>5, DeliveryAssumption DEF Receive, EnterStage, QueueInv
  <2>3. \A e \in Writers : stage'[e] = "completing" <=> stage[e] = "completing"
    BY <2>2
  <2>4. finishing' = finishing
    BY <2>3
  <2>5. Promise!Attempt({"job"})
    BY <2>1, <2>4 DEF Promise!Attempt
  <2> QED
    BY <2>5 DEF Promise!Next
<1>6. ASSUME NEW d \in Writers,
             HandlerSucceeds(d) \/ HandlerThrows(d) \/ Reject(d) \/ Acknowledge(d) \/ Crash(d)
      PROVE  Promise!Next \/ UNCHANGED <<outcome, attempts, finishing>>
  <2>0. finishing' = finishing \/ finishing' = finishing \ {"job"} \/ finishing' = finishing \cup {"job"}
    OBVIOUS
  <2>1. CASE Moves(d, "starting", "completing") /\ queue' = queue
    <3>1. receives > 0 /\ receives' = receives
      BY <2>1, DeliveryAssumption DEF Moves, QueueInv
    <3>2. finishing' = finishing \cup {"job"}
      BY <2>1 DEF Moves, EnterStage, QueueInv
    <3>3. Promise!Finish("job")
      BY <2>1, <3>1, <3>2 DEF Promise!Finish
    <3> QED
      BY <3>3 DEF Promise!Next
  <2>2. CASE /\ Moves(d, "completing", "acked")
             /\ queue' = IF queue = "dead" THEN "dead" ELSE "deleted"
    <3>1. "job" \in finishing /\ receives' = receives
      BY <2>2 DEF Moves
    <3>2. finishing' \in {finishing, finishing \ {"job"}}
      BY <3>1
    <3>3. CASE queue \in {"deleted", "dead"}
      <4>1. Promise!Drop({}) \/ Promise!Drop({"job"})
        BY <2>2, <3>1, <3>2, <3>3 DEF Promise!Drop
      <4> QED
        BY <4>1 DEF Promise!Next
    <3>4. CASE queue \notin {"deleted", "dead"}
      <4>1. Promise!Delete("job")
        BY <2>2, <3>1, <3>2, <3>4 DEF Promise!Delete
      <4> QED
        BY <4>1 DEF Promise!Next
    <3> QED
      BY <3>3, <3>4
  <2>3. ASSUME NEW from \in Running, NEW to \in {"failing", "rejected", "crashed"},
               Moves(d, from, to), queue' = queue
        PROVE  Promise!Next
    <3>1. receives' = receives /\ (\A e \in Writers : stage'[e] = "completing" => stage[e] = "completing")
      BY <2>3 DEF Moves, EnterStage, QueueInv
    <3>2. finishing' = finishing \/ finishing' = finishing \ {"job"}
      BY <3>1
    <3>3. Promise!Drop({}) \/ Promise!Drop({"job"})
      BY <2>3, <3>1, <3>2 DEF Promise!Drop
    <3> QED
      BY <3>3 DEF Promise!Next
  <2> QED
    BY <1>6, <2>1, <2>2, <2>3, DeliveryMoves
<1> QED
  BY <1>2, <1>3, <1>4, <1>5, <1>6, StepKinds

\* The Lambda path keeps the promise of AtLeastOnce: a job leaves the queue for good only
\* after a delivery that ran its handler to the end, or after all its receives, whatever
\* overlaps, dies or fails (index.aws.ts _processRecord; index.cdk.ts).
THEOREM DeliveryKeepsPromise == DeliverySpec => KeepsPromise
<1>1. DeliveryInit => Promise!Init
  BY DEF DeliveryInit, Promise!Init
<1> QED
  BY <1>1, QueueInit, QueueStep, PromiseStep, PTL DEF DeliverySpec, KeepsPromise, Promise!Spec

-------------------------------------------------------------------------------
(* The record, driven by submit() and the deliveries.                      *)

\* A call that begins writes nothing yet, and holds no snapshot.
LEMMA StartInv ==
    ASSUME TrackerInv, NEW w \in Writers, NEW c \in Call, StartTransition(w, c)
    PROVE  TrackerInv'
<1> USE DEF TrackerInv
<1>1. /\ UNCHANGED <<clock, rec, past, seen, readAt, submission, reaped>>
      /\ w \in Process /\ Submitter \in Process /\ w # Submitter
  BY TrackerAssumption DEF StartTransition, KeepTable, Process
<1>2. /\ pc' = [pc EXCEPT ![w] = "read"]
      /\ pc[w] \in WriterEnd
      /\ call' = [call EXCEPT ![w] = c]
      /\ cas' = [cas EXCEPT ![w] = 1]
      /\ wrote' = [wrote EXCEPT ![w] = NoRecord]
  BY DEF StartTransition, Goto
<1>3. pc'[Submitter] = pc[Submitter]
  BY <1>1, <1>2 DEF TypeOK
<1>4. \A p \in Process : pc'[p] = "swap" <=> pc[p] = "swap"
  BY <1>1, <1>2 DEF TypeOK, WriterEnd
<1>5. TypeOK'
  <2>1. pc' \in [Process -> Step] /\ call' \in [Writers -> Call \cup {NoRecord}]
    BY <1>1, <1>2 DEF TypeOK, Step
  <2>2. cas' \in [Process -> 1..MAX_CAS_ATTEMPTS] /\ wrote' \in [Writers -> Transition \cup {NoRecord}]
    BY <1>1, <1>2, TrackerAssumption DEF TypeOK
  <2>3. \A v \in Writers : pc'[v] \in {"read", "swap"} \cup WriterEnd
    BY <1>1, <1>2 DEF TypeOK, Process
  <2>4. \A v \in Writers : pc'[v] # "idle" => call'[v] # NoRecord
    BY <1>1, <1>2, SentinelAssumption DEF TypeOK, Process
  <2> QED
    BY <1>1, <1>3, <2>1, <2>2, <2>3, <2>4 DEF TypeOK
<1>6. SubmissionAgrees' /\ OrderedUpToSkew' /\ VersionIdentifies'
  BY <1>1 DEF SubmissionAgrees, OrderedUpToSkew, VersionIdentifies, Coherent
<1>7. NoEntryLost'
  BY <1>1, <1>2 DEF NoEntryLost, TypeOK
<1>8. SubmissionSettled' /\ SubmitterFirst'
  BY <1>1, <1>3 DEF SubmissionSettled, SubmitterFirst
<1>9. SnapshotsHeldInSwap' /\ TimesPast'
  BY <1>1, <1>4 DEF SnapshotsHeldInSwap, TimesPast
<1> QED
  BY <1>5, <1>6, <1>7, <1>8, <1>9

\* A step of the job is a step of the tracker, or begins a call of a delivery.
LEMMA TrackerSteps ==
    ASSUME [DeliveryNext]_allVars
    PROVE  [Next]_vars \/ \E d \in Writers, c \in Call : StartTransition(d, c)
<1>1. \A d \in Writers, s \in HandlerState : Record(d, s) => \E c \in Call : StartTransition(d, c)
  <2>1. \A d \in Writers, s \in HandlerState : [state |-> s, attempt |-> d] \in Call
    BY DeliveryAssumption DEF Call
  <2> QED
    BY <2>1 DEF Record
<1>2. ASSUME NEW d \in Writers, Receive(d) \/ HandlerSucceeds(d) \/ HandlerThrows(d)
      PROVE  [Next]_vars \/ \E e \in Writers, c \in Call : StartTransition(e, c)
  <2>1. UNCHANGED vars \/ Record(d, "processing") \/ Record(d, "complete") \/ Record(d, "failed")
    BY <1>2 DEF Receive, HandlerSucceeds, HandlerThrows
  <2> QED
    BY <1>1, <2>1 DEF HandlerState
<1>3. ASSUME NEW d \in Writers, WriterStep(d) \/ Reject(d) \/ Acknowledge(d) \/ Crash(d)
      PROVE  [Next]_vars
  BY <1>3 DEF WriterStep, Reject, Acknowledge, Crash, Next, WriterNext
<1>4. CASE Send \/ Lapse \/ Redrive \/ Poll \/ UNCHANGED allVars
  BY <1>4 DEF Send, Lapse, Redrive, Poll, allVars
<1>5. CASE RecordSubmission \/ SubmitterStep \/ Tick
  BY <1>5 DEF RecordSubmission, SubmitterStep, Next, SubmitterNext
<1> QED
  BY <1>2, <1>3, <1>4, <1>5 DEF DeliveryNext, Deliver

LEMMA DeliveryTracker == TrackerInv /\ [DeliveryNext]_allVars => TrackerInv'
BY TrackerSteps, StepInv, StartInv

\* All that JobStatusTracker promises of the record, that no entry is lost, that history and
\* submission time agree, that versions identify records, holds while the deliveries of a job
\* overlap, die and come again (status.ts, index.aws.ts).
THEOREM DeliveryKeepsRecord == DeliverySpec => []TrackerInv
<1>1. DeliveryInit => TrackerInv
  BY InitInv DEF DeliveryInit
<1> QED
  BY <1>1, DeliveryTracker, PTL DEF DeliverySpec

-------------------------------------------------------------------------------
(* What the documentation promises while nothing goes wrong.               *)

LEMMA ErrorFields ==
    ASSUME NEW r \in StatusRecord, NEW c \in Call, NEW t \in Nat
    PROVE  /\ queuedRecord(t).error = 0
           /\ Backdated(r, t).error = r.error
           /\ Appended(r, c, t).error = IF c.state = "failed" THEN c.attempt ELSE r.error
BY DEF queuedRecord, Backdated, Appended, StatusRecord

\* A new record is queued and nothing else.
LEMMA QueuedState ==
    ASSUME NEW t \in Nat, NEW n, n = queuedRecord(t)
    PROVE  /\ n \in StatusRecord /\ DOMAIN n.transitions = {1}
           /\ n.transitions[1].state = "queued" /\ n.state = "queued" /\ n.error = 0
BY QueuedRecordType DEF queuedRecord

\* A record that is not settled has no terminal entry.
LEMMA UnsettledOpen ==
    ASSUME TrackerInv, CalmRecord, ~Settled, rec # NoRecord
    PROVE  /\ rec \in StatusRecord /\ rec.error = 0
           /\ \A i \in DOMAIN rec.transitions : rec.transitions[i].state \notin Terminal
<1>1. rec \in StatusRecord /\ rec.state \notin Terminal
  BY DEF TrackerInv, TypeOK, Settled
<1>2. \A i \in DOMAIN rec.transitions : rec.transitions[i].state \in Terminal => i = Len(rec.transitions)
  BY DEF CalmRecord, TerminalEntries, Entries
<1>3. rec.state = rec.transitions[Len(rec.transitions)].state
  BY DEF TrackerInv, OrderedUpToSkew, Latest
<1>4. rec.error = 0
  BY <1>1 DEF CalmRecord, Terminal
<1> QED
  BY <1>1, <1>2, <1>3, <1>4

\* A correction moves times only.
LEMMA CalmCorrects ==
    ASSUME TrackerInv, CalmRecord, Corrects, answer' = answer
    PROVE  CalmRecord' /\ (Settled' <=> Settled)
<1>1. /\ rec \in StatusRecord /\ rec # NoRecord /\ submission \in Nat
      /\ rec.transitions # << >> /\ rec.transitions[1].state = "queued"
      /\ rec' = Backdated(rec, submission) /\ past' = past \cup {rec}
  BY DEF Corrects, Store, TrackerInv, TypeOK, SubmissionAgrees
<1>2. /\ DOMAIN rec'.transitions = 1..Len(rec.transitions)
      /\ DOMAIN rec.transitions = 1..Len(rec.transitions)
      /\ Len(rec.transitions) \in Nat \ {0}
      /\ Len(rec'.transitions) = Len(rec.transitions)
      /\ rec'.transitions[1].state = "queued"
      /\ \A i \in 2..Len(rec.transitions) : rec'.transitions[i] = rec.transitions[i]
      /\ rec'.state = rec.state
  BY <1>1, BackdatedFields
<1>3. rec' # NoRecord /\ rec'.error = rec.error
  <2>1. rec' \in StatusRecord
    BY <1>1, BackdatedType
  <2>2. rec'.error = rec.error
    BY <1>1 DEF Backdated, StatusRecord
  <2> QED
    BY <2>1, <2>2, SentinelAssumption
<1>4. \A i \in DOMAIN rec'.transitions : rec'.transitions[i].state \in Terminal
        => i \in DOMAIN rec.transitions /\ rec.transitions[i].state \in Terminal
  BY <1>2 DEF Terminal
<1>5. \A i \in DOMAIN rec'.transitions :
        rec'.transitions[i].state \in Terminal => i = Len(rec'.transitions)
  BY <1>1, <1>2, <1>4 DEF CalmRecord, TerminalEntries, Entries
<1>6. Settled' <=> Settled
  BY <1>1, <1>2, <1>3 DEF Settled
<1>7. \A r \in past' : r # NoRecord /\ r.state \in Terminal => rec'.state = r.state
  BY <1>1, <1>2 DEF CalmRecord
<1> QED
  BY <1>1, <1>2, <1>3, <1>5, <1>6, <1>7 DEF CalmRecord, TerminalEntries, Entries

\* The submitter's record is queued.
LEMMA CalmCreates ==
    ASSUME TrackerInv, CalmRecord, Creates, answer' = answer
    PROVE  CalmRecord' /\ ~Settled /\ ~Settled'
<1>1. /\ submission \in Nat /\ rec = NoRecord
      /\ rec' = queuedRecord(submission) /\ past' = past \cup {rec}
  BY DEF Creates, Store, TrackerInv, TypeOK
<1>2. /\ rec' \in StatusRecord /\ DOMAIN rec'.transitions = {1}
      /\ rec'.transitions[1].state = "queued" /\ rec'.state = "queued"
  BY <1>1, QueuedState
<1>3. rec'.error = 0
  BY <1>1, QueuedState
<1>4. "queued" \notin Terminal
  BY DEF Terminal
<1>5. answer = "none" /\ \A r \in past' : r # NoRecord => r.state \notin Terminal
  BY <1>1 DEF CalmRecord
<1> QED
  BY <1>1, <1>2, <1>3, <1>4, <1>5 DEF CalmRecord, TerminalEntries, Entries, Settled

\* An entry put in an unsettled record is its last.
LEMMA CalmAppends ==
    ASSUME TrackerInv, CalmRecord, ~Settled, NEW d \in Writers, NEW now \in Nat, Appends(d, now),
           answer' = answer
    PROVE  CalmRecord' /\ (Settled' <=> call[d].state \in Terminal)
<1> DEFINE b == Base(now)
           k == Len(b.transitions)
<1>1. /\ call[d] \in Call /\ (rec # NoRecord => StampedBy(rec, now))
      /\ rec' = Appended(b, call[d], now) /\ past' = past \cup {rec}
  BY DEF Appends, Store
<1>2. b \in StatusRecord
  BY <1>1, BaseFacts
<1>3. b.error = 0 /\ \A i \in DOMAIN b.transitions : b.transitions[i].state \notin Terminal
  <2>1. CASE rec = NoRecord
    <3>1. b = queuedRecord(now)
      BY <2>1 DEF Base
    <3>2. DOMAIN b.transitions = {1} /\ b.transitions[1].state = "queued" /\ b.error = 0
      BY <3>1, QueuedState
    <3> HIDE DEF b
    <3> QED
      BY <3>2 DEF Terminal
  <2>2. CASE rec # NoRecord
    BY <2>2, UnsettledOpen DEF Base
  <2> QED
    BY <2>1, <2>2
<1> HIDE DEF b
<1>4. /\ k \in Nat /\ DOMAIN b.transitions = 1..k
      /\ Len(rec'.transitions) = k + 1 /\ DOMAIN rec'.transitions = 1..(k + 1)
      /\ \A i \in 1..k : rec'.transitions[i] = b.transitions[i]
      /\ rec'.state = call[d].state
  BY <1>1, <1>2, AppendedFields
<1>5. rec' \in StatusRecord /\ rec' # NoRecord
  BY <1>1, <1>2, AppendedType, SentinelAssumption
<1>6. rec'.error # 0 => rec'.state = "failed"
  BY <1>1, <1>2, <1>3, <1>4, ErrorFields
<1>7. \A i \in DOMAIN rec'.transitions :
        rec'.transitions[i].state \in Terminal => i = Len(rec'.transitions)
  <2> HIDE DEF k
  <2> QED
    BY <1>3, <1>4
<1>8. answer = "none" /\ \A r \in past' : r # NoRecord => r.state \notin Terminal
  BY <1>1 DEF CalmRecord, Settled
<1>9. Settled' <=> call[d].state \in Terminal
  BY <1>4, <1>5 DEF Settled
<1> QED
  BY <1>5, <1>6, <1>7, <1>8, <1>9 DEF CalmRecord, TerminalEntries, Entries

\* Where the record stays as it is.
LEMMA CalmKeeps ==
    ASSUME CalmRecord, UNCHANGED <<rec, past, answer>>
    PROVE  CalmRecord' /\ (Settled' <=> Settled)
BY DEF CalmRecord, TerminalEntries, Entries, Settled

\* ... or where deliveries and their calls do.
LEMMA DeliveriesStay ==
    ASSUME CalmDeliveries, UNCHANGED <<queue, receives, stage>>, \A d \in Writers : pc'[d] = pc[d],
           Settled' <=> Settled
    PROVE  CalmDeliveries'
BY DEF CalmDeliveries, Closes

\* The submitter leaves the writers' calls alone.
LEMMA SubmitterApart ==
    ASSUME TrackerInv, SubmitterNext
    PROVE  call' = call /\ \A d \in Writers : pc'[d] = pc[d]
BY TrackerAssumption DEF SubmitterNext, StartQueued, Create, CreateUnacknowledged, CreateLost,
   CreateFails, ReadForBackdate, Backdate, BackdateFails, RetryOr, Finish, Goto, TrackerInv, TypeOK,
   Process

LEMMA CallsQueueStep ==
    TrackerInv /\ QueueInv /\ CallsFit /\ QueueEnds /\ [DeliveryNext]_allVars => CallsFit' /\ QueueEnds'
<1> SUFFICES ASSUME TrackerInv, QueueInv, CallsFit, QueueEnds, [DeliveryNext]_allVars
             PROVE  CallsFit' /\ QueueEnds'
  OBVIOUS
<1>1. call \in [Writers -> Call \cup {NoRecord}] /\ Writers = 1..MAX_RETRIES /\ MAX_RETRIES \in Nat
  BY DeliveryAssumption DEF TrackerInv, TypeOK
<1>2. CASE Elsewhere
  <2>1. call' = call
    <3>1. CASE RecordSubmission \/ SubmitterStep
      BY <3>1, SubmitterApart DEF RecordSubmission, SubmitterStep, SubmitterNext
    <3>2. CASE \E d \in Writers : WriterStep(d)
      BY <3>2 DEF WriterStep, Read, Swap, SwapFails
    <3>3. CASE Tick \/ Poll \/ UNCHANGED allVars
      BY <3>3 DEF Tick, Poll, allVars, vars
    <3> QED
      BY <1>2, <3>1, <3>2, <3>3 DEF Elsewhere
  <2> QED
    BY <1>2, <2>1, ElsewhereKeeps DEF CallsFit, QueueEnds
<1>3. CASE Send \/ Lapse \/ Redrive
  <2>1. UNCHANGED <<call, stage, receives>>
    BY <1>3 DEF Send, Lapse, Redrive, vars
  <2>2. queue \notin {"deleted", "dead"} /\ (queue' = "dead" => receives = MAX_RETRIES)
    BY <1>1, <1>3 DEF Send, Lapse, Redrive, QueueInv
  <2> QED
    BY <2>1, <2>2 DEF CallsFit, QueueEnds
<1>4. ASSUME NEW d \in Writers, Receive(d) PROVE CallsFit' /\ QueueEnds'
  <2>1. /\ queue = "visible" /\ queue' = "hidden" /\ d = receives + 1 /\ receives' = d
        /\ stage' = [stage EXCEPT ![d] = "starting"]
        /\ call' = [call EXCEPT ![d] = [state |-> "processing", attempt |-> d]]
    BY <1>4 DEF Receive, EnterStage, Record, StartTransition
  <2>2. CallsFit'
    BY <1>1, <2>1 DEF CallsFit, QueueInv
  <2>3. \A e \in Writers : stage'[e] # "acked"
    BY <2>1 DEF QueueEnds, QueueInv
  <2>4. \A e \in Writers : e <= receives' => stage'[e] # "free"
    BY <1>1, <2>1 DEF QueueEnds, QueueInv
  <2> QED
    BY <2>1, <2>2, <2>3, <2>4 DEF QueueEnds
<1>5. ASSUME NEW d \in Writers,
             HandlerSucceeds(d) \/ HandlerThrows(d) \/ Reject(d) \/ Acknowledge(d) \/ Crash(d)
      PROVE  CallsFit' /\ QueueEnds'
  <2>1. CallsFit'
    <3>1. CASE HandlerSucceeds(d)
      <4>1. /\ stage' = [stage EXCEPT ![d] = "completing"]
            /\ call' = [call EXCEPT ![d] = [state |-> "complete", attempt |-> d]]
        BY <3>1 DEF HandlerSucceeds, EnterStage, Record, StartTransition
      <4> QED
        BY <1>1, <4>1 DEF CallsFit, QueueInv, Terminal
    <3>2. CASE HandlerThrows(d)
      <4>1. \/ /\ d = MAX_RETRIES
               /\ stage' = [stage EXCEPT ![d] = "failing"]
               /\ call' = [call EXCEPT ![d] = [state |-> "failed", attempt |-> d]]
            \/ stage' = [stage EXCEPT ![d] = "rejected"] /\ call' = call
        BY <1>1, <3>2 DEF HandlerThrows, EnterStage, Record, StartTransition, vars
      <4> QED
        BY <1>1, <4>1 DEF CallsFit, QueueInv, Terminal
    <3>3. CASE Reject(d) \/ Acknowledge(d) \/ Crash(d)
      <4>1. call' = call /\ \E to \in {"rejected", "acked", "crashed"} : stage' = [stage EXCEPT ![d] = to]
        BY <3>3 DEF Reject, Acknowledge, Crash, EnterStage, vars
      <4> QED
        BY <1>1, <4>1 DEF CallsFit, QueueInv
    <3> QED
      BY <1>5, <3>1, <3>2, <3>3
  <2>2. /\ receives' = receives
        /\ queue' = queue \/ queue' = IF queue = "dead" THEN "dead" ELSE "deleted"
    BY <1>5, DeliveryMoves DEF Moves
  <2>3. PICK to \in {"completing", "acked", "failing", "rejected", "crashed"} :
          stage' = [stage EXCEPT ![d] = to] /\ (to = "acked" => queue' \in {"deleted", "dead"})
    BY <1>5, DeliveryMoves DEF Moves, EnterStage
  <2>4. QueueEnds'
    BY <2>2, <2>3 DEF QueueEnds, QueueInv
  <2> QED
    BY <2>1, <2>4
<1> QED
  BY <1>2, <1>3, <1>4, <1>5, StepKinds

\* One writer's call goes on in a delivery that runs.
LEMMA CalmWriter ==
    ASSUME TrackerInv, QueueInv, CallsFit, CalmDeliveries, CalmRecord, NEW d \in Writers,
           WriterStep(d), calm'
    PROVE  CalmDeliveries' /\ CalmRecord'
<1>1. /\ stage[d] \in Running /\ d = receives /\ pc'[d] # "threw"
      /\ UNCHANGED <<queue, receives, stage, answer>>
  BY DEF WriterStep, CalmDeliveries
<1>2. pc \in [Process -> Step] /\ d \in Process
  BY DEF TrackerInv, TypeOK, Process
<1>3. pc[d] \in {"read", "swap"} /\ \A e \in Writers : e # d => pc'[e] = pc[e]
  BY <1>2 DEF WriterStep, Read, Swap, SwapFails, RetryOr, Finish, Goto, Process
<1>4. ~Closes(d) /\ ~Settled
  BY <1>1, <1>3 DEF Closes, Running, CalmDeliveries
<1>5. \A e \in Writers : pc'[e] # "threw" /\ stage'[e] # "crashed"
  BY <1>1, <1>3 DEF CalmDeliveries
<1>6. \A e \in Writers : e # d => (Closes(e)' <=> Closes(e))
  BY <1>1, <1>3 DEF Closes
<1>7. CASE Swap(d)
  <2>1. PICK now \in Nat : Appends(d, now)
    BY <1>7, SwapAppends
  <2>2. CalmRecord' /\ (Settled' <=> call[d].state \in Terminal)
    BY <1>1, <1>4, <2>1, CalmAppends
  <2>3. rec' # rec
    <3>1. /\ call[d] \in Call /\ (rec # NoRecord => StampedBy(rec, now))
          /\ rec' = Appended(Base(now), call[d], now)
      BY <2>1 DEF Appends, Store
    <3>2. Base(now) \in StatusRecord
      BY <3>1, BaseFacts
    <3>3. rec' \in StatusRecord /\ rec'.version = Base(now).version + 1 /\ Base(now).version \in Nat
      BY <3>1, <3>2, AppendedType, AppendedFields DEF StatusRecord
    <3>4. rec' = rec => Base(now) = rec
      BY <3>3, SentinelAssumption DEF Base
    <3> HIDE DEF Base
    <3> QED
      BY <3>3, <3>4
  <2>4. pc'[d] = "returned"
    BY <2>3 DEF WriterStep
  <2>5. Closes(d)' <=> stage[d] \in {"completing", "failing"}
    BY <1>1, <2>4 DEF Closes, Running
  <2>6. call[d].state \in Terminal <=> stage[d] \in {"completing", "failing"}
    BY <1>1 DEF CallsFit, Running, Terminal
  <2>7. \A e \in Writers : Closes(e)' => Settled'
    BY <1>4, <1>6, <2>2, <2>5, <2>6 DEF CalmDeliveries
  <2>8. Settled' => Closes(receives)'
    <3>1. Settled' => Closes(d)'
      BY <2>2, <2>5, <2>6
    <3>2. Closes(d)' => stage'[receives'] \in {"completing", "failing"} /\ pc'[receives'] = "returned"
      BY <1>1, <2>4, <2>5
    <3> QED
      BY <3>1, <3>2 DEF Closes
  <2> QED
    BY <1>1, <1>5, <2>2, <2>7, <2>8 DEF CalmDeliveries
<1>8. CASE Read(d) \/ SwapFails(d)
  <2>1. UNCHANGED <<rec, past>>
    BY <1>8 DEF Read, SwapFails, KeepTable
  <2>2. pc'[d] # "returned"
    BY <1>2, <1>8 DEF Read, SwapFails, RetryOr, Finish, Goto
  <2>3. CalmRecord' /\ (Settled' <=> Settled)
    BY <1>1, <2>1, CalmKeeps
  <2>4. ~Closes(d)'
    BY <1>1, <2>2 DEF Closes, Running
  <2> QED
    BY <1>1, <1>4, <1>5, <1>6, <2>3, <2>4 DEF CalmDeliveries
<1> QED
  BY <1>7, <1>8 DEF WriterStep

\* A message that is received again meets a record that is not settled.
LEMMA CalmReceive ==
    ASSUME TrackerInv, QueueInv, QueueEnds, CalmDeliveries, CalmRecord, NEW d \in Writers,
           Receive(d), calm'
    PROVE  CalmDeliveries' /\ CalmRecord'
<1>1. /\ queue = "visible" /\ queue' = "hidden" /\ d = receives + 1 /\ receives' = d
      /\ stage' = [stage EXCEPT ![d] = "starting"]
      /\ \A e \in Writers : stage[e] \notin Running
      /\ pc' = [pc EXCEPT ![d] = "read"]
      /\ UNCHANGED <<rec, past, answer>>
  BY DEF Receive, EnterStage, Record, StartTransition, Goto, KeepTable
<1>2. Writers = 1..MAX_RETRIES /\ MAX_RETRIES \in Nat /\ receives \in Nat /\ pc \in [Process -> Step]
  BY DeliveryAssumption DEF QueueInv, TrackerInv, TypeOK
<1>3. ~Settled
  <2>1. receives \in Writers => ~Closes(receives)
    BY <1>1, <1>2 DEF Closes, Running, QueueEnds
  <2> QED
    BY <2>1 DEF CalmDeliveries
<1>4. CalmRecord' /\ (Settled' <=> Settled)
  BY <1>1, CalmKeeps
<1>5. \A e \in Writers : e # d => stage'[e] = stage[e] /\ pc'[e] = pc[e]
  BY <1>1, <1>2 DEF QueueInv, Process
<1>6. stage'[d] = "starting" /\ pc'[d] = "read"
  BY <1>1, <1>2 DEF QueueInv, Process
<1>7. \A e \in Writers : ~Closes(e)'
  BY <1>3, <1>5, <1>6 DEF Closes, CalmDeliveries
<1> QED
  BY <1>1, <1>3, <1>4, <1>5, <1>6, <1>7 DEF CalmDeliveries

\* A delivery that goes on closes the job exactly when it has its terminal entry.
LEMMA CalmMoves ==
    ASSUME TrackerInv, QueueInv, CallsFit, CalmDeliveries, CalmRecord, NEW d \in Writers,
           HandlerSucceeds(d) \/ HandlerThrows(d) \/ Reject(d) \/ Acknowledge(d) \/ Crash(d), calm'
    PROVE  CalmDeliveries' /\ CalmRecord'
<1>1. Writers = 1..MAX_RETRIES /\ MAX_RETRIES \in Nat /\ receives \in Nat /\ pc \in [Process -> Step]
  BY DeliveryAssumption DEF QueueInv, TrackerInv, TypeOK
<1>2. /\ UNCHANGED <<rec, past, answer, receives>>
      /\ \A e \in Writers : e # d => stage'[e] = stage[e] /\ pc'[e] = pc[e]
  BY <1>1 DEF HandlerSucceeds, HandlerThrows, Reject, Acknowledge, Crash, EnterStage, Record,
     StartTransition, Goto, KeepTable, vars, QueueInv, Process
<1>3. stage[d] \in Running /\ d = receives
  BY DEF HandlerSucceeds, HandlerThrows, Reject, Acknowledge, Crash, Running, CalmDeliveries
<1>4. CalmRecord' /\ (Settled' <=> Settled)
  BY <1>2, CalmKeeps
<1>5. /\ pc'[d] # "threw" /\ stage'[d] # "crashed"
      /\ Closes(d)' <=> Closes(d)
      /\ queue' = "deleted" => queue = "deleted" \/ stage'[d] = "acked"
  <2>1. stage \in [Writers -> Stage] /\ d \in Process /\ pc[d] # "threw"
    BY DEF QueueInv, Process, CalmDeliveries
  <2>2. CASE HandlerSucceeds(d)
    <3>1. stage'[d] = "completing" /\ pc'[d] = "read" /\ stage[d] = "starting" /\ queue' = queue
      BY <1>1, <2>1, <2>2 DEF HandlerSucceeds, EnterStage, Record, StartTransition, Goto
    <3> QED
      BY <3>1 DEF Closes
  <2>3. CASE HandlerThrows(d)
    <3>1. /\ stage[d] = "starting" /\ queue' = queue
          /\ \/ stage'[d] = "failing" /\ pc'[d] = "read"
             \/ stage'[d] = "rejected" /\ pc'[d] = pc[d] /\ d < MAX_RETRIES
      BY <1>1, <2>1, <2>3 DEF HandlerThrows, EnterStage, Record, StartTransition, Goto, vars
    <3> QED
      BY <1>1, <2>1, <3>1 DEF Closes
  <2>4. CASE Reject(d)
    <3>1. /\ stage[d] = "failing" /\ stage'[d] = "rejected" /\ pc' = pc /\ queue' = queue
          /\ pc[d] = "returned" /\ d = MAX_RETRIES
      BY <2>1, <2>4 DEF Reject, EnterStage, Recorded, vars, CallsFit
    <3> QED
      BY <3>1 DEF Closes
  <2>5. CASE Acknowledge(d)
    <3>1. stage[d] = "completing" /\ stage'[d] = "acked" /\ pc' = pc /\ pc[d] = "returned"
      BY <2>1, <2>5 DEF Acknowledge, EnterStage, Recorded, vars
    <3> QED
      BY <3>1 DEF Closes
  <2>6. ~Crash(d)
    BY DEF Crash
  <2> QED
    BY <2>2, <2>3, <2>4, <2>5, <2>6
<1>6. \A e \in Writers : Closes(e)' <=> Closes(e)
  BY <1>2, <1>5 DEF Closes
<1>7. \A e \in Writers : pc'[e] # "threw" /\ stage'[e] # "crashed"
  BY <1>2, <1>5 DEF CalmDeliveries
<1>8. \A e \in Writers : stage'[e] \in Running => e = receives'
  BY <1>2, <1>3 DEF CalmDeliveries
<1>9. queue' = "deleted" => receives' \in Writers /\ stage'[receives'] = "acked"
  <2>1. queue # "deleted"
    BY <1>3 DEF CalmDeliveries, Running
  <2> QED
    BY <1>2, <1>3, <1>5, <2>1
<1>10. Settled' => receives' \in Writers /\ Closes(receives)'
  <2>1. Settled' => Closes(d)'
    BY <1>3, <1>4, <1>6 DEF CalmDeliveries
  <2>2. d = receives /\ d = receives'
    BY <1>2, <1>3
  <2>3. Closes(d)' => Closes(receives)'
    BY <2>2 DEF Closes
  <2> QED
    BY <2>1, <2>2, <2>3
<1>11. \A e \in Writers : Closes(e)' => Settled'
  BY <1>4, <1>6 DEF CalmDeliveries
<1> QED
  BY <1>4, <1>7, <1>8, <1>9, <1>10, <1>11 DEF CalmDeliveries

LEMMA CalmStep ==
    ASSUME TrackerInv, QueueInv, CallsFit, QueueEnds, calm => CalmDeliveries /\ CalmRecord,
           [DeliveryNext]_allVars, calm'
    PROVE  CalmDeliveries' /\ CalmRecord'
<1>1. calm
  BY DEF DeliveryNext, Send, RecordSubmission, SubmitterStep, Receive, Deliver, WriterStep,
     HandlerSucceeds, HandlerThrows, Reject, Acknowledge, Crash, Lapse, Redrive, Poll, deliveryVars,
     allVars
<1>2. CalmDeliveries /\ CalmRecord
  BY <1>1
<1>3. CASE Elsewhere
  <2>1. CASE RecordSubmission \/ SubmitterStep
    <3>1. SubmitterNext /\ UNCHANGED deliveryVars
      BY <2>1 DEF RecordSubmission, SubmitterStep, SubmitterNext
    <3>2. \A d \in Writers : pc'[d] = pc[d]
      BY <3>1, SubmitterApart
    <3>3. CalmRecord' /\ (Settled' <=> Settled)
      <4>1. CASE Keeps
        BY <1>2, <3>1, <4>1, CalmKeeps DEF Keeps, KeepTable, deliveryVars
      <4>2. CASE Creates
        BY <1>2, <3>1, <4>2, CalmCreates DEF deliveryVars
      <4>3. CASE Corrects
        BY <1>2, <3>1, <4>3, CalmCorrects DEF deliveryVars
      <4> QED
        BY <3>1, <4>1, <4>2, <4>3, SubmitterTable
    <3> QED
      BY <1>2, <3>1, <3>2, <3>3, DeliveriesStay DEF deliveryVars
  <2>2. CASE \E d \in Writers : WriterStep(d)
    BY <1>2, <2>2, CalmWriter
  <2>3. CASE (Tick /\ UNCHANGED deliveryVars) \/ UNCHANGED allVars
    <3>1. UNCHANGED <<rec, past, answer, pc, queue, receives, stage>>
      BY <2>3 DEF Tick, KeepTable, deliveryVars, allVars, vars
    <3> QED
      BY <1>2, <3>1, CalmKeeps, DeliveriesStay
  <2>4. CASE Poll
    <3>1. UNCHANGED <<rec, past, pc, queue, receives, stage>>
      BY <2>4 DEF Poll, vars
    <3>2. PICK r \in {rec} \cup past : r # NoRecord /\ r.state \in Terminal /\ answer' = r.state
      BY <2>4 DEF Poll, Readable
    <3>3. rec # NoRecord /\ rec.state = answer' /\ answer' \in Terminal
      BY <1>2, <3>2 DEF CalmRecord
    <3>4. CalmRecord' /\ (Settled' <=> Settled)
      BY <1>2, <3>1, <3>3 DEF CalmRecord, TerminalEntries, Entries, Settled
    <3> QED
      BY <1>2, <3>1, <3>4, DeliveriesStay
  <2> QED
    BY <1>3, <2>1, <2>2, <2>3, <2>4 DEF Elsewhere
<1>4. CASE Send \/ Lapse \/ Redrive
  <2>1. UNCHANGED <<rec, past, answer, pc, receives, stage>> /\ queue' # "deleted"
    BY <1>4 DEF Send, Lapse, Redrive, vars
  <2>2. CalmRecord' /\ (Settled' <=> Settled)
    BY <1>2, <2>1, CalmKeeps
  <2> QED
    BY <1>2, <2>1, <2>2 DEF CalmDeliveries, Closes
<1> QED
  BY <1>2, <1>3, <1>4, CalmReceive, CalmMoves, StepKinds

\* What the README promises of a job that nothing disturbs, one terminal entry, the final answer
\* of waitUntilComplete, the error of a failed job only and a settled end, for any number of
\* receives and whatever submit() and the readers' replicas do meanwhile.
THEOREM CalmJobKeepsPromise == DeliverySpec => []CalmPromise
<1> DEFINE IInv == TrackerInv /\ QueueInv /\ CalmInv
<1>1. DeliveryInit => IInv
  <2> SUFFICES ASSUME DeliveryInit PROVE IInv
    OBVIOUS
  <2>1. TrackerInv /\ QueueInv
    BY InitInv, QueueInit DEF DeliveryInit
  <2>2. CallsFit /\ QueueEnds
    BY DeliveryAssumption DEF DeliveryInit, CallsFit, QueueEnds
  <2>3. CalmRecord /\ ~Settled
    BY DEF DeliveryInit, Init, CalmRecord, TerminalEntries, Entries, Settled
  <2>4. CalmDeliveries
    BY <2>3 DEF DeliveryInit, Init, CalmDeliveries, Closes, Running, Process
  <2> QED
    BY <2>1, <2>2, <2>3, <2>4 DEF CalmInv
<1>2. IInv /\ [DeliveryNext]_allVars => IInv'
  BY DeliveryTracker, QueueStep, CallsQueueStep, CalmStep DEF CalmInv
<1>3. IInv => CalmPromise
  <2> SUFFICES ASSUME IInv, calm
               PROVE  /\ \A i, j \in TerminalEntries : i = j
                      /\ answer # "none" => rec # NoRecord /\ rec.state = answer
                      /\ rec # NoRecord /\ rec.error # 0 => rec.state = "failed"
                      /\ queue \in {"deleted", "dead"} /\ (\A d \in Writers : stage[d] \notin Running)
                            => Settled
    BY DEF CalmPromise
  <2>1. CalmDeliveries /\ CalmRecord /\ QueueEnds
    BY DEF CalmInv
  <2>2. ASSUME queue = "dead", \A d \in Writers : stage[d] \notin Running
        PROVE  Settled
    <3>1. MAX_RETRIES \in Writers /\ stage[MAX_RETRIES] # "free"
      BY <2>1, <2>2, DeliveryAssumption DEF QueueEnds
    <3>2. stage[MAX_RETRIES] \in {"acked", "rejected"}
      BY <2>1, <2>2, <3>1 DEF QueueInv, Stage, Running, CalmDeliveries
    <3> QED
      BY <2>1, <3>1, <3>2 DEF CalmDeliveries, Closes
  <2>3. queue = "deleted" => Settled
    BY <2>1 DEF CalmDeliveries, Closes
  <2>4. \A i, j \in TerminalEntries : i = j
    BY <2>1 DEF CalmRecord
  <2> QED
    BY <2>1, <2>2, <2>3, <2>4 DEF CalmRecord
<1> QED
  BY <1>1, <1>2, <1>3, PTL DEF DeliverySpec

================================================================================
