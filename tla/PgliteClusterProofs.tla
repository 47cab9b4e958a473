-------------------------- MODULE PgliteClusterProofs --------------------------
(***************************************************************************)
(* Theorems about PgliteCluster, for any requests, any blocks and any      *)
(* bounds on their calls, savepoints and changes.                          *)
(***************************************************************************)
EXTENDS PgliteCluster, SequenceTheorems, TLAPS

Holding == {"schema", "schemaTx", "run", "begin", "in"}

\* Those who wait are in the queue once each, and who has gone on is at its head.
MutexInv ==
    /\ \A i \in 1..Len(queue) : pc[queue[i]] # "idle"
    /\ \A i, j \in 1..Len(queue) : queue[i] = queue[j] => i = j
    /\ \A t \in Tasks : pc[t] \in Holding => Holds(t)

\* What the cluster remembers is the session's path, and the path of the block
\* that is about to be served.  A transaction is open for one task at a time.
SchemaInv ==
    /\ currentSchema # None => session = "open" /\ path = currentSchema
    /\ \A t \in Tasks : pc[t] \in {"run", "begin"} => currentSchema = block[t]
    /\ \A t \in Tasks : pc[t] = "in" => tx # <<>>
    /\ tx # <<>> =>
        /\ \E t \in Tasks : pc[t] = "in"
        /\ currentSchema = tx[Len(tx)].owner /\ tx[1].path = tx[1].owner

Settled == kept \cup silent \cup fired

\* Each change is in one frame of the open transaction, with its listener, or
\* is settled one way or the other.
WorkInv ==
    /\ \A i \in 1..Len(tx) : tx[i].listeners = tx[i].work
    /\ \A i \in 1..Len(tx) : tx[i].work \subseteq (1..works) \ Settled
    /\ \A i, j \in 1..Len(tx) : i # j => tx[i].work \cap tx[j].work = {}
    /\ fired \cap (kept \cup silent) = {}
    /\ Settled \subseteq 1..works
    /\ \A w \in 1..works : w \in Settled \/ \E i \in 1..Len(tx) : w \in tx[i].work

ClusterInv == TypeOK /\ MutexInv /\ SchemaInv /\ WorkInv /\ InnermostSchema
-------------------------------------------------------------------------------
(* Sequences of frames.                                                    *)

LEMMA FrontOf ==
    ASSUME NEW S, NEW s \in Seq(S), Len(s) > 1
    PROVE  /\ Front(s) \in Seq(S) /\ Len(Front(s)) = Len(s) - 1
           /\ \A i \in 1..Len(s) - 1 : Front(s)[i] = s[i]
<1>1. /\ Len(s) \in Nat
      /\ \A i \in 1..Len(s) - 1 : s[i] \in S
  BY LenProperties, ElementOfSeq
<1> QED  BY <1>1, SubSeqProperties DEF Front

LEMMA Appended ==
    ASSUME NEW S, NEW s \in Seq(S), NEW e \in S, NEW r, r = Append(s, e)
    PROVE  /\ r \in Seq(S) /\ Len(s) \in Nat /\ Len(r) = Len(s) + 1
           /\ \A i \in 1..Len(s) : r[i] = s[i] /\ s[i] \in S
           /\ r[Len(s) + 1] = e
<1>1. /\ Append(s, e) \in Seq(S) /\ Len(Append(s, e)) = Len(s) + 1
      /\ \A i \in 1..Len(s) : Append(s, e)[i] = s[i]
      /\ Append(s, e)[Len(s) + 1] = e
  BY AppendProperties
<1>2. Len(s) \in Nat /\ \A i \in 1..Len(s) : s[i] \in S  BY LenProperties, ElementOfSeq
<1> QED  BY <1>1, <1>2

LEMMA HeadOf ==
    ASSUME NEW S, NEW s \in Seq(S)
    PROVE  /\ Len(s) \in Nat /\ (s # <<>> <=> Len(s) > 0)
           /\ s # <<>> => Head(s) = s[1]
<1>1. s # <<>> => Len(s) \in Nat \ {0}  BY EmptySeq
<1>2. Len(s) \in Nat  BY LenProperties
<1>3. s = <<>> => Len(s) = 0  BY EmptySeq
<1> QED  BY <1>1, <1>2, <1>3

LEMMA FrameFields ==
    ASSUME TypeOK
    PROVE  /\ tx \in Seq(Frame) /\ Len(tx) \in Nat
           /\ tx # <<>> <=> Len(tx) > 0
           /\ \A i \in 1..Len(tx) :
                /\ tx[i] \in Frame
                /\ tx[i].owner \in Blocks /\ tx[i].path \in Path
                /\ tx[i].work \subseteq Works /\ tx[i].listeners \subseteq Works
<1>1. tx \in Seq(Frame)  BY DEF TypeOK
<1>2. Len(tx) \in Nat /\ (tx # <<>> <=> Len(tx) > 0)  BY <1>1, EmptySeq, LenProperties
<1>3. \A i \in 1..Len(tx) : tx[i] \in Frame  BY <1>1, ElementOfSeq
<1> QED  BY <1>1, <1>2, <1>3 DEF Frame

LEMMA DomainOfFrames == ASSUME TypeOK PROVE DOMAIN tx = 1..Len(tx)
BY LenProperties DEF TypeOK

\* A change joins the innermost frame.
LEMMA TopJoined ==
    ASSUME TypeOK, tx # <<>>, NEW w \in Works, tx' = [tx EXCEPT ![Len(tx)] = With(@, {w}, {w})]
    PROVE  LET n == Len(tx) IN
           /\ tx' \in Seq(Frame) /\ Len(tx') = n
           /\ \A i \in 1..n : i # n => tx'[i] = tx[i]
           /\ tx'[n].owner = tx[n].owner /\ tx'[n].path = tx[n].path
           /\ tx'[n].work = tx[n].work \cup {w} /\ tx'[n].listeners = tx[n].listeners \cup {w}
<1>1. PICK s \in Seq(Frame) : s = tx  BY FrameFields
<1>2. PICK n \in 1..Len(s) : n = Len(s)  BY <1>1, FrameFields
<1>3. s[n] \in Frame  BY ElementOfSeq
<1>4. PICK f \in Frame : f = With(s[n], {w}, {w})  BY <1>3 DEF Frame, With
<1>5. f.owner = s[n].owner /\ f.path = s[n].path /\ f.work = s[n].work \cup {w}
      /\ f.listeners = s[n].listeners \cup {w}
  BY <1>4 DEF With
<1>6. PICK r : r = [s EXCEPT ![n] = f]  OBVIOUS
<1>7. /\ r \in Seq(Frame) /\ Len(r) = Len(s)
      /\ \A j \in 1..Len(s) : r[j] = IF j = n THEN f ELSE s[j]
  BY <1>6, ExceptSeq
<1>8. tx' = r  BY <1>1, <1>2, <1>4, <1>6
<1> QED  BY <1>1, <1>2, <1>5, <1>7, <1>8

\* A released frame's work and listeners join its parent's.
LEMMA ReleasedFrames ==
    ASSUME TypeOK, Len(tx) > 1, tx' = Released
    PROVE  LET p == Len(tx) - 1 IN
           /\ tx' \in Seq(Frame) /\ Len(tx') = p
           /\ \A i \in 1..p : i # p => tx'[i] = tx[i]
           /\ tx'[p].owner = tx[p].owner /\ tx'[p].path = tx[p].path
           /\ tx'[p].work = tx[p].work \cup tx[Len(tx)].work
           /\ tx'[p].listeners = tx[p].listeners \cup tx[Len(tx)].listeners
<1>1. tx \in Seq(Frame) /\ Len(tx) - 1 \in 1..Len(tx) - 1  BY FrameFields
<1>2. PICK s \in Seq(Frame) : s = Front(tx) /\ Len(s) = Len(tx) - 1
                              /\ \A i \in 1..Len(tx) - 1 : s[i] = tx[i]
  BY <1>1, FrontOf
<1>3. PICK p \in 1..Len(s) : p = Len(tx) - 1  BY <1>1, <1>2
<1>4. PICK a \in SUBSET Works : a = tx[Len(tx)].work  BY FrameFields
<1>5. PICK b \in SUBSET Works : b = tx[Len(tx)].listeners  BY FrameFields
<1>6. s[p] \in Frame  BY ElementOfSeq
<1>7. PICK f \in Frame : f = With(s[p], a, b)  BY <1>6 DEF Frame, With
<1>8. f.owner = s[p].owner /\ f.path = s[p].path /\ f.work = s[p].work \cup a
      /\ f.listeners = s[p].listeners \cup b
  BY <1>7 DEF With
<1>9. PICK r : r = [s EXCEPT ![p] = f]  OBVIOUS
<1>10. /\ r \in Seq(Frame) /\ Len(r) = Len(s)
       /\ \A j \in 1..Len(s) : r[j] = IF j = p THEN f ELSE s[j]
  BY <1>9, ExceptSeq
<1>11. tx' = r  BY <1>2, <1>3, <1>4, <1>5, <1>7, <1>9 DEF Released, Top, Last
<1> QED  BY <1>1, <1>2, <1>3, <1>4, <1>5, <1>8, <1>10, <1>11

\* A savepoint is a frame of its own.
LEMMA Nested ==
    ASSUME TypeOK, NEW f, f \in Frame, tx' = Append(tx, f)
    PROVE  /\ tx' \in Seq(Frame) /\ Len(tx') = Len(tx) + 1
           /\ \A i \in 1..Len(tx) : tx'[i] = tx[i]
           /\ tx'[Len(tx) + 1] = f
<1>1. PICK s \in Seq(Frame) : s = tx  BY FrameFields
<1>2. tx' = Append(s, f)  BY <1>1
<1> QED  BY <1>1, <1>2, AppendProperties

-------------------------------------------------------------------------------
(* Types.                                                                  *)

LEMMA Bounds == MAX_CALLS \in Nat /\ MAX_SAVEPOINTS \in Nat /\ MAX_WORKS \in Nat
BY ClusterAssumption

LEMMA Counted ==
    ASSUME TypeOK
    PROVE  calls \in 0..MAX_CALLS /\ savepoints \in 0..MAX_SAVEPOINTS /\ works \in 0..MAX_WORKS
BY DEF TypeOK

LEMMA InitInv == Init => ClusterInv
<1> SUFFICES ASSUME Init PROVE ClusterInv  OBVIOUS
<1> USE DEF Init
<1>1. queue = <<>> /\ tx = <<>> /\ Len(queue) = 0 /\ Len(tx) = 0 /\ queue \in Seq(Tasks) /\ tx \in Seq(Frame)
  BY EmptySeq
<1>2. TypeOK
  <2>1. 0 \in 0..MAX_CALLS /\ 0 \in 0..MAX_SAVEPOINTS /\ 0 \in 0..MAX_WORKS
    BY ClusterAssumption
  <2>2. pc \in [Tasks -> Place]  BY DEF Place
  <2>3. ran \subseteq Blocks \X Blocks \X Path /\ {kept, fired, silent} \subseteq SUBSET Works  OBVIOUS
  <2> QED  BY <1>1, <2>1, <2>2, <2>3 DEF TypeOK, Path
<1>3. MutexInv  BY <1>1 DEF MutexInv, Holding
<1>4. SchemaInv  BY <1>1 DEF SchemaInv
<1>5. WorkInv  BY <1>1 DEF WorkInv, Settled
<1> QED  BY <1>2, <1>3, <1>4, <1>5 DEF ClusterInv, InnermostSchema

LEMMA ReleaseType ==
    ASSUME TypeOK, NEW t \in Tasks, Holds(t), Release(t)
    PROVE  pc' \in [Tasks -> Place] /\ queue' \in Seq(Tasks)
BY HeadTailProperties DEF TypeOK, Holds, Release, Go, Place

LEMMA GoType ==
    ASSUME TypeOK, NEW t \in Tasks, NEW place \in Place, Go(t, place)
    PROVE  pc' \in [Tasks -> Place]
BY DEF TypeOK, Go

\* The frames of each step on the open transaction.
LEMMA RolledBack ==
    ASSUME TypeOK, Len(tx) > 1, rollbackToSavepoint
    PROVE  /\ tx' \in Seq(Frame) /\ Len(tx') = Len(tx) - 1
           /\ \A i \in 1..Len(tx) - 1 : tx'[i] = tx[i]
           /\ fired' = fired \cup tx[Len(tx)].listeners /\ fired' \subseteq Works
           /\ path' = tx[Len(tx) - 1].owner /\ currentSchema' = path' /\ path' \in Blocks
           /\ aborted' = FALSE /\ UNCHANGED <<kept, silent>>
<1>1. tx' = Front(tx) /\ tx \in Seq(Frame)  BY FrameFields DEF rollbackToSavepoint
<1>2. tx' \in Seq(Frame) /\ Len(tx') = Len(tx) - 1 /\ \A i \in 1..Len(tx) - 1 : tx'[i] = tx[i]
  BY <1>1, FrontOf
<1>3. /\ fired' = fired \cup tx[Len(tx)].listeners
      /\ path' = tx[Len(tx) - 1].owner /\ currentSchema' = tx[Len(tx) - 1].owner
      /\ aborted' = FALSE /\ UNCHANGED <<kept, silent>>
  BY DEF rollbackToSavepoint, Top, Last, Parent
<1>4. tx[Len(tx)].listeners \subseteq Works /\ tx[Len(tx) - 1].owner \in Blocks  BY FrameFields
<1>5. fired \subseteq Works  BY DEF TypeOK
<1> QED  BY <1>2, <1>3, <1>4, <1>5

LEMMA Emptied ==
    ASSUME TypeOK, tx' = <<>>
    PROVE  tx' \in Seq(Frame) /\ Len(tx') = 0
BY EmptySeq

LEMMA TypeStep ==
    ASSUME TypeOK, MutexInv, SchemaInv, [Next]_vars
    PROVE  TypeOK'
<1> USE DEF Place
<1>0. CASE UNCHANGED vars  BY <1>0 DEF TypeOK, vars, clusterVars, counters, ghosts
<1>1. ASSUME NEW t \in Tasks, NEW b \in Blocks, Call(t, b) PROVE TypeOK'
  <2>1. queue' \in Seq(Tasks)  BY <1>1, AppendProperties DEF Call, TypeOK
  <2>2. pc' \in [Tasks -> Place]
    <3>1. PICK place \in Place : Go(t, place)  BY <1>1 DEF Call
    <3> QED  BY <3>1, GoType
  <2>3. calls' \in 0..MAX_CALLS
    <3>1. calls' = calls + 1 /\ calls < MAX_CALLS  BY <1>1 DEF Call
    <3> QED  BY <3>1, Bounds, Counted
  <2>4. block' \in [Tasks -> Blocks]  BY <1>1 DEF Call, TypeOK
  <2> QED  BY <1>1, <2>1, <2>2, <2>3, <2>4 DEF Call, TypeOK, ghosts
<1> USE DEF clusterVars, counters, ghosts
<1>2. ASSUME NEW t \in Tasks, Acquire(t) PROVE TypeOK'
  <2>1. pc' \in [Tasks -> Place]  BY <1>2 DEF Acquire, Go, TypeOK
  <2> QED  BY <1>2, <2>1 DEF Acquire, TypeOK
<1>3. ASSUME NEW t \in Tasks, UseSchema(t) PROVE TypeOK'
  <2>1. pc' \in [Tasks -> Place]  BY <1>3 DEF UseSchema, Go, TypeOK
  <2>2. block[t] \in Blocks  BY DEF TypeOK
  <2>3. session' \in {"fresh", "open", "closed", "broken"} /\ path' \in Path /\ currentSchema' \in Blocks \cup {None}
    BY <1>3, <2>2 DEF UseSchema, TypeOK, Path
  <2> QED  BY <1>3, <2>1, <2>3 DEF UseSchema, TypeOK
<1>4. ASSUME NEW t \in Tasks, InitFails(t) PROVE TypeOK'
  <2>1. Holds(t) /\ Release(t)  BY <1>4 DEF InitFails, MutexInv, Holding
  <2> QED  BY <1>4, <2>1, ReleaseType DEF InitFails, TypeOK
<1>5. Opened \in Path  BY DEF Opened, TypeOK, Path
<1>6. ASSUME NEW t \in Tasks, Run(t) PROVE TypeOK'
  <2>1. Holds(t) /\ Release(t)  BY <1>6 DEF Run, MutexInv, Holding
  <2>2. ran' \subseteq Blocks \X Blocks \X Path
    <3>1. <<block[t], block[t], Opened>> \in Blocks \X Blocks \X Path  BY <1>5 DEF TypeOK
    <3>2. ran' = ran \cup {<<block[t], block[t], Opened>>} /\ ran \subseteq Blocks \X Blocks \X Path
      BY <1>6 DEF Run, TypeOK
    <3> QED  BY <3>1, <3>2
  <2> QED  BY <1>5, <1>6, <2>1, <2>2, ReleaseType DEF Run, TypeOK
<1>7. ASSUME NEW t \in Tasks, Begin(t) PROVE TypeOK'
  <2>1. pc' \in [Tasks -> Place]  BY <1>7 DEF Begin, Go, TypeOK
  <2>2. PICK f \in Frame : f = [owner |-> block[t], path |-> Opened, work |-> {}, listeners |-> {}]
    BY <1>5 DEF Frame, TypeOK
  <2>3. tx' = <<f>>  BY <1>7, <2>2 DEF Begin
  <2>4. tx' \in Seq(Frame)  BY <2>3
  <2> QED  BY <1>5, <1>7, <2>1, <2>4 DEF Begin, TypeOK
<1> DEFINE HeldTypes == pc' \in [Tasks -> Place] /\ queue' \in Seq(Tasks)
<1>8. ASSUME NEW t \in Tasks, pc[t] = "in"
      PROVE  /\ tx # <<>> /\ Top.owner \in Blocks /\ Top.path \in Path
             /\ Top.work \subseteq Works /\ Top.listeners \subseteq Works
             /\ Release(t) => HeldTypes
  <2>1. tx # <<>> /\ Holds(t)  BY <1>8 DEF SchemaInv, MutexInv, Holding
  <2>2. Len(tx) \in 1..Len(tx)  BY <2>1, FrameFields
  <2>3. Release(t) => HeldTypes  BY <2>1, ReleaseType
  <2> QED  BY <2>1, <2>2, <2>3, FrameFields DEF Top, Last
<1> HIDE DEF HeldTypes
<1>9. ASSUME NEW t \in Tasks, Statement(t) PROVE TypeOK'
  <2>1. tx # <<>> /\ Top.owner \in Blocks  BY <1>8, <1>9 DEF Statement
  <2>2. ran' \subseteq Blocks \X Blocks \X Path
    <3>1. PICK i \in DOMAIN tx : ran' = ran \cup {<<tx[i].owner, Top.owner, path>>}
      BY <1>9 DEF Statement
    <3>2. tx[i].owner \in Blocks  BY FrameFields, DomainOfFrames
    <3>3. <<tx[i].owner, Top.owner, path>> \in Blocks \X Blocks \X Path  BY <2>1, <3>2 DEF TypeOK
    <3>4. ran \subseteq Blocks \X Blocks \X Path  BY DEF TypeOK
    <3> QED  BY <3>1, <3>3, <3>4
  <2>3. tx' \in Seq(Frame) /\ works' \in 0..MAX_WORKS
    <3>1. CASE UNCHANGED <<works, tx>>  BY <3>1 DEF TypeOK
    <3>2. CASE ~UNCHANGED <<works, tx>>
      <4>1. PICK w \in Works : w = works + 1
        BY <1>9, Bounds, Counted DEF Statement, Works
      <4>2. works' = w /\ tx' = [tx EXCEPT ![Len(tx)] = With(@, {w}, {w})]
        BY <1>9, <3>2, <4>1 DEF Statement
      <4>3. tx' \in Seq(Frame)  BY <2>1, <4>2, TopJoined
      <4> QED  BY <4>1, <4>2, <4>3, Bounds DEF Works
    <3> QED  BY <3>1, <3>2
  <2>4. aborted' \in BOOLEAN  BY <1>9 DEF Statement, TypeOK
  <2> QED  BY <1>9, <2>2, <2>3, <2>4 DEF Statement, TypeOK
<1>10. ASSUME NEW t \in Tasks, NEW b \in Blocks, Nest(t, b) PROVE TypeOK'
  <2>1. PICK f \in Frame : f = [owner |-> b, path |-> path, work |-> {}, listeners |-> {}]
    BY DEF Frame, TypeOK
  <2>2. tx' \in Seq(Frame)
    <3>1. tx' = Append(tx, f) /\ tx \in Seq(Frame)  BY <1>10, <2>1, FrameFields DEF Nest
    <3> QED  BY <3>1, AppendProperties
  <2>3. savepoints' \in 0..MAX_SAVEPOINTS  BY <1>10, Bounds, Counted DEF Nest
  <2>4. path' \in Path /\ currentSchema' \in Blocks \cup {None}  BY <1>10 DEF Nest, TypeOK, Path
  <2> QED  BY <1>10, <2>2, <2>3, <2>4 DEF Nest, TypeOK
<1>11. ASSUME NEW t \in Tasks, Len(tx) > 1, rollbackToSavepoint,
              UNCHANGED <<pc, block, queue, session, counters, ran>>
       PROVE  TypeOK'
  <2>1. /\ tx' \in Seq(Frame) /\ fired' \subseteq Works /\ path' \in Blocks
        /\ currentSchema' = path' /\ aborted' = FALSE /\ UNCHANGED <<kept, silent>>
    BY <1>11, RolledBack
  <2> QED  BY <1>11, <2>1 DEF TypeOK, Path
<1>12. ASSUME NEW t \in Tasks, ReleaseSavepoint(t) PROVE TypeOK'
  <2>1. CASE aborted /\ rollbackToSavepoint  BY <1>11, <1>12, <2>1 DEF ReleaseSavepoint
  <2>2. CASE ~(aborted /\ rollbackToSavepoint)
    <3>1. Len(tx) > 1 /\ tx' = Released  BY <1>12, <2>2 DEF ReleaseSavepoint
    <3>2. tx' \in Seq(Frame)  BY <3>1, ReleasedFrames
    <3>3. Parent.owner \in Blocks  BY <3>1, FrameFields DEF Parent
    <3>4. path' \in Path /\ currentSchema' \in Blocks \cup {None}
      BY <1>12, <2>2, <3>3 DEF ReleaseSavepoint, TypeOK, Path
    <3> QED  BY <1>12, <2>2, <3>2, <3>4 DEF ReleaseSavepoint, TypeOK
  <2> QED  BY <2>1, <2>2
<1>13. ASSUME NEW t \in Tasks, RollbackSavepoint(t) PROVE TypeOK'
  BY <1>11, <1>13 DEF RollbackSavepoint
<1>14. ASSUME NEW t \in Tasks, Commit(t) PROVE TypeOK'
  <2>1. HeldTypes /\ Top.path \in Path /\ Top.work \subseteq Works  BY <1>8, <1>14 DEF Commit
  <2>2. tx' \in Seq(Frame)  BY <1>14, Emptied DEF Commit, Undone
  <2>3. path' \in Path /\ aborted' \in BOOLEAN /\ {kept', silent'} \subseteq SUBSET Works
    BY <1>14, <2>1 DEF Commit, Undone, TypeOK
  <2> QED  BY <1>14, <2>1, <2>2, <2>3 DEF Commit, TypeOK, HeldTypes
<1>15. ASSUME NEW t \in Tasks, CommitFails(t) \/ Rollback(t) PROVE TypeOK'
  <2>1. /\ HeldTypes /\ Top.owner \in Blocks /\ Top.path \in Path /\ Top.listeners \subseteq Works
    BY <1>8, <1>15 DEF CommitFails, Rollback
  <2>2. tx' \in Seq(Frame)  BY <1>15, Emptied DEF CommitFails, Rollback, Undone
  <2>3. path' \in Path /\ aborted' \in BOOLEAN /\ fired' \subseteq Works
    BY <1>15, <2>1 DEF CommitFails, Rollback, Undone, TypeOK
  <2> QED  BY <1>15, <2>1, <2>2, <2>3 DEF CommitFails, Rollback, TypeOK, HeldTypes
<1>16. CASE CloseForExit  BY <1>16 DEF CloseForExit, TypeOK
<1> QED
  BY <1>0, <1>1, <1>2, <1>3, <1>4, <1>6, <1>7, <1>9, <1>10, <1>12, <1>13, <1>14, <1>15, <1>16
  DEF Next, Step, Ends
-------------------------------------------------------------------------------
(* The mutex.                                                              *)

LEMMA OneHolder ==
    ASSUME MutexInv, NEW t \in Tasks, NEW u \in Tasks, pc[t] \in Holding, pc[u] \in Holding
    PROVE  t = u
BY DEF MutexInv, Holds

LEMMA MutexMoves ==
    ASSUME TypeOK, MutexInv, NEW t \in Tasks, Holds(t), NEW place \in Holding, Go(t, place),
           UNCHANGED queue
    PROVE  MutexInv'
<1>1. \A u \in Tasks : pc'[u] = IF u = t THEN place ELSE pc[u]  BY DEF Go, TypeOK
<1>2. \A i \in 1..Len(queue) : queue[i] \in Tasks  BY ElementOfSeq DEF TypeOK
<1>3. \A i \in 1..Len(queue') : pc'[queue'[i]] # "idle"
  BY <1>1, <1>2 DEF MutexInv, Holding
<1>4. \A u \in Tasks : pc'[u] \in Holding => Holds(u)'
  BY <1>1 DEF MutexInv, Holds
<1> QED  BY <1>3, <1>4 DEF MutexInv

LEMMA MutexReleased ==
    ASSUME TypeOK, MutexInv, NEW t \in Tasks, pc[t] \in Holding, Release(t)
    PROVE  MutexInv'
<1>1. \A u \in Tasks : pc'[u] = IF u = t THEN "idle" ELSE pc[u]  BY DEF Release, Go, TypeOK
<1>2. queue \in Seq(Tasks) /\ queue # <<>> /\ queue[1] = t
  BY DEF MutexInv, Holds, TypeOK
<1>3. /\ queue' = Tail(queue) /\ Len(queue) \in Nat /\ Len(queue) > 0
      /\ Len(queue') = Len(queue) - 1
      /\ \A i \in 1..Len(queue') : queue'[i] = queue[i + 1]
  BY <1>2, HeadTailProperties, EmptySeq, LenProperties DEF Release
<1>4. \A i \in 1..Len(queue') : i + 1 \in 1..Len(queue) /\ i + 1 # 1  BY <1>3
<1>5. \A i \in 1..Len(queue) : queue[i] \in Tasks  BY <1>2, ElementOfSeq
<1>6. \A i \in 1..Len(queue') : pc'[queue'[i]] # "idle"
  <2> TAKE i \in 1..Len(queue')
  <2>1. 1 \in 1..Len(queue) /\ i + 1 \in 1..Len(queue)  BY <1>3, <1>4
  <2>2. queue[i + 1] # t  BY <1>2, <1>4, <2>1 DEF MutexInv
  <2> QED  BY <1>1, <1>3, <1>5, <2>1, <2>2 DEF MutexInv
<1>7. \A i, j \in 1..Len(queue') : queue'[i] = queue'[j] => i = j
  <2> TAKE i, j \in 1..Len(queue')
  <2>1. queue[i + 1] = queue[j + 1] => i + 1 = j + 1  BY <1>4 DEF MutexInv
  <2> QED  BY <1>3, <2>1
<1>8. \A u \in Tasks : pc'[u] \notin Holding
  BY <1>1, OneHolder DEF Holding
<1> QED  BY <1>6, <1>7, <1>8 DEF MutexInv

LEMMA MutexCalled ==
    ASSUME TypeOK, MutexInv, NEW t \in Tasks, pc[t] = "idle",
           NEW place \in {"queue", "queueTx"}, Go(t, place), queue' = Append(queue, t)
    PROVE  MutexInv'
<1>2. \A u \in Tasks : pc'[u] = IF u = t THEN place ELSE pc[u]  BY DEF Go, TypeOK
<1>3. PICK q \in Seq(Tasks) : q = queue  BY DEF TypeOK
<1>4. PICK r : r = Append(q, t)  OBVIOUS
<1>5. queue' = r  BY <1>3, <1>4
<1>6. r \in Seq(Tasks) /\ Len(q) \in Nat /\ Len(r) = Len(q) + 1
      /\ (\A i \in 1..Len(q) : r[i] = q[i] /\ q[i] \in Tasks)
      /\ r[Len(q) + 1] = t
  BY <1>3, <1>4, Appended
<1>7. PICK n \in Nat : n = Len(q)  BY <1>6
<1>8. /\ Len(queue) = n /\ Len(queue') = n + 1 /\ queue'[n + 1] = t
      /\ \A i \in 1..n : queue'[i] = queue[i] /\ queue[i] \in Tasks
  BY <1>3, <1>5, <1>6, <1>7
<1>9. \A i \in 1..n : queue[i] # t  BY <1>8 DEF MutexInv
<1>10. \A i \in 1..Len(queue') : pc'[queue'[i]] # "idle"
  <2> SUFFICES ASSUME NEW i \in 1..n + 1 PROVE pc'[queue'[i]] # "idle"  BY <1>8
  <2>1. CASE i = n + 1  BY <1>7, <1>2, <1>8, <2>1
  <2>2. CASE i \in 1..n  BY <1>2, <1>7, <1>8, <1>9, <2>2 DEF MutexInv
  <2>3. i = n + 1 \/ i \in 1..n  BY <1>7
  <2> QED  BY <2>1, <2>2, <2>3
<1>11. \A i, j \in 1..Len(queue') : queue'[i] = queue'[j] => i = j
  <2> SUFFICES ASSUME NEW i \in 1..n + 1, NEW j \in 1..n + 1, queue'[i] = queue'[j]
               PROVE i = j
    BY <1>8
  <2>1. CASE i \in 1..n /\ j \in 1..n  BY <1>7, <1>8, <2>1 DEF MutexInv
  <2>2. CASE i = n + 1 \/ j = n + 1  BY <1>7, <1>8, <1>9, <2>2
  <2> QED  BY <1>7, <2>1, <2>2
<1>12. \A u \in Tasks : pc'[u] \in Holding => Holds(u)'
  <2> SUFFICES ASSUME NEW u \in Tasks, pc'[u] \in Holding PROVE Holds(u)'  OBVIOUS
  <2>1. Holds(u)  BY <1>2 DEF Holding, MutexInv
  <2>2. q # <<>> /\ Head(q) = u  BY <1>3, <2>1 DEF Holds
  <2>3. n > 0 /\ q[1] = u  BY <1>3, <1>7, <2>2, HeadOf
  <2>4. r[1] = u /\ Len(r) > 0  BY <1>6, <1>7, <2>3
  <2>5. r # <<>> /\ Head(r) = u  BY <1>6, <2>4, HeadOf
  <2> QED  BY <1>5, <2>5 DEF Holds
<1> QED  BY <1>10, <1>11, <1>12 DEF MutexInv

LEMMA MutexStep ==
    ASSUME TypeOK, MutexInv, [Next]_vars
    PROVE  MutexInv'
<1> USE DEF clusterVars, counters, ghosts
<1>0. ASSUME UNCHANGED <<pc, queue>> PROVE MutexInv'  BY <1>0 DEF MutexInv, Holds
<1>1. CASE UNCHANGED vars  BY <1>0, <1>1 DEF vars
<1>2. ASSUME NEW t \in Tasks, Acquire(t) PROVE MutexInv'
  <2>1. PICK place \in Holding : Go(t, place)  BY <1>2 DEF Acquire, Holding
  <2> QED  BY <1>2, <2>1, MutexMoves DEF Acquire
<1>3. ASSUME NEW t \in Tasks, UseSchema(t) \/ Begin(t) PROVE MutexInv'
  <2>1. PICK place \in Holding : Go(t, place)  BY <1>3 DEF UseSchema, Begin, Holding
  <2>2. Holds(t) /\ UNCHANGED queue  BY <1>3 DEF UseSchema, Begin, Holding, MutexInv
  <2> QED  BY <2>1, <2>2, MutexMoves
<1>4. ASSUME NEW t \in Tasks, InitFails(t) \/ Run(t) \/ Commit(t) \/ CommitFails(t) \/ Rollback(t)
      PROVE  MutexInv'
  <2>1. pc[t] \in Holding /\ Release(t)
    BY <1>4 DEF InitFails, Run, Commit, CommitFails, Rollback, Holding
  <2> QED  BY <2>1, MutexReleased
<1>5. ASSUME NEW t \in Tasks,
             Statement(t) \/ (\E b \in Blocks : Nest(t, b)) \/ ReleaseSavepoint(t) \/ RollbackSavepoint(t)
      PROVE  MutexInv'
  BY <1>0, <1>5 DEF Statement, Nest, ReleaseSavepoint, RollbackSavepoint
<1>6. CASE CloseForExit  BY <1>0, <1>6 DEF CloseForExit
<1>7. ASSUME NEW t \in Tasks, NEW b \in Blocks, Call(t, b) PROVE MutexInv'
  <2>1. PICK place \in {"queue", "queueTx"} : Go(t, place)  BY <1>7 DEF Call
  <2>2. pc[t] = "idle" /\ queue' = Append(queue, t)  BY <1>7 DEF Call
  <2> QED  BY <2>1, <2>2, MutexCalled
<1> QED  BY <1>1, <1>2, <1>3, <1>4, <1>5, <1>6, <1>7 DEF Next, Step, Ends
-------------------------------------------------------------------------------
(* The schema.                                                             *)

\* A step that keeps the session, or no path is remembered of it, and moves no task
\* to or from what it depends on.
LEMMA SchemaKept ==
    ASSUME SchemaInv, UNCHANGED <<path, tx, currentSchema>>,
           session' = session \/ currentSchema = None,
           \A t \in Tasks : pc'[t] \in {"run", "begin"} => pc[t] = pc'[t] /\ block'[t] = block[t],
           \A t \in Tasks : pc'[t] = "in" <=> pc[t] = "in"
    PROVE  SchemaInv'
BY DEF SchemaInv

\* The transaction has ended, and its path is remembered.
LEMMA SchemaEnded ==
    ASSUME TypeOK, MutexInv, SchemaInv, NEW t \in Tasks, pc[t] = "in", Release(t), tx' = <<>>,
           session' = session, path' = currentSchema', currentSchema' # None
    PROVE  SchemaInv'
<1>1. \A u \in Tasks : pc'[u] = IF u = t THEN "idle" ELSE pc[u]  BY DEF Release, Go, TypeOK
<1>2. \A u \in Tasks : pc'[u] \notin Holding  BY <1>1, OneHolder DEF Holding
<1>3. currentSchema # None
  <2>1. tx # <<>> /\ currentSchema = tx[Len(tx)].owner  BY DEF SchemaInv
  <2>2. tx[Len(tx)].owner \in Blocks  BY <2>1, FrameFields
  <2> QED  BY <2>1, <2>2, ClusterAssumption
<1> QED  BY <1>2, <1>3 DEF SchemaInv, Holding

\* The transaction goes on, on the path that is remembered.
LEMMA SchemaInside ==
    ASSUME SchemaInv, NEW t \in Tasks, pc[t] = "in", UNCHANGED <<pc, block, session>>,
           tx' # <<>>, currentSchema # None, path' = currentSchema',
           currentSchema' = tx'[Len(tx')].owner, tx'[1].path = tx'[1].owner,
           \A u \in Tasks : pc[u] \in Holding => u = t
    PROVE  SchemaInv'
BY DEF SchemaInv, Holding

LEMMA InsideFacts ==
    ASSUME TypeOK, MutexInv, SchemaInv, NEW t \in Tasks, pc[t] = "in"
    PROVE  /\ tx # <<>> /\ Len(tx) \in Nat /\ Len(tx) > 0
           /\ currentSchema = tx[Len(tx)].owner /\ currentSchema \in Blocks /\ currentSchema # None
           /\ path = currentSchema /\ tx[1].path = tx[1].owner
           /\ \A u \in Tasks : pc[u] \in Holding => u = t
<1>1. /\ tx # <<>> /\ currentSchema = tx[Len(tx)].owner /\ tx[1].path = tx[1].owner
  BY DEF SchemaInv
<1>2. Len(tx) \in Nat /\ Len(tx) > 0 /\ tx[Len(tx)].owner \in Blocks  BY <1>1, FrameFields
<1>3. currentSchema # None  BY <1>1, <1>2, ClusterAssumption
<1>4. path = currentSchema  BY <1>3 DEF SchemaInv
<1>5. \A u \in Tasks : pc[u] \in Holding => u = t  BY OneHolder DEF Holding
<1> QED  BY <1>1, <1>2, <1>3, <1>4, <1>5

LEMMA SchemaStep ==
    ASSUME TypeOK, MutexInv, SchemaInv, [Next]_vars
    PROVE  SchemaInv'
<1> USE DEF clusterVars, counters, ghosts
<1>0. CASE UNCHANGED vars  BY <1>0 DEF vars, SchemaInv
<1>1. ASSUME NEW t \in Tasks, NEW b \in Blocks, Call(t, b) PROVE SchemaInv'
  <2>1. PICK place \in {"queue", "queueTx"} : Go(t, place)  BY <1>1 DEF Call
  <2>2. \A u \in Tasks : /\ pc'[u] = IF u = t THEN place ELSE pc[u]
                         /\ block'[u] = IF u = t THEN b ELSE block[u]
    BY <1>1, <2>1 DEF Call, Go, TypeOK
  <2> QED  BY <1>1, <2>1, <2>2, SchemaKept DEF Call
<1>2. ASSUME NEW t \in Tasks, Acquire(t) PROVE SchemaInv'
  <2>1. \A u \in Tasks : u # t => pc'[u] = pc[u]  BY <1>2 DEF Acquire, Go, TypeOK
  <2>2. pc'[t] \in {"schema", "schemaTx"} /\ pc[t] # "in"  BY <1>2 DEF Acquire, Go, TypeOK
  <2> QED  BY <1>2, <2>1, <2>2, SchemaKept DEF Acquire
<1>3. ASSUME NEW t \in Tasks, InitFails(t) PROVE SchemaInv'
  <2>1. \A u \in Tasks : pc'[u] = IF u = t THEN "idle" ELSE pc[u]
    BY <1>3 DEF InitFails, Release, Go, TypeOK
  <2>2. currentSchema = None  BY <1>3 DEF InitFails, SchemaInv
  <2> QED  BY <1>3, <2>1, <2>2, SchemaKept DEF InitFails
<1>4. ASSUME NEW t \in Tasks, UseSchema(t) PROVE SchemaInv'
  <2>1. \A u \in Tasks : u # t => pc[u] \notin Holding
    BY <1>4, OneHolder DEF UseSchema, Holding
  <2>2. tx = <<>>  BY <1>4, <2>1 DEF UseSchema, SchemaInv, Holding
  <2>3. \A u \in Tasks : u # t => pc'[u] = pc[u]  BY <1>4 DEF UseSchema, Go, TypeOK
  <2>4. pc'[t] \in {"run", "begin"}  BY <1>4 DEF UseSchema, Go, TypeOK
  <2>5. block[t] # None  BY ClusterAssumption DEF TypeOK
  <2>6. currentSchema' = block[t] /\ path' = block[t] /\ session' = "open"
    BY <1>4, <2>5 DEF UseSchema, SchemaInv
  <2> QED  BY <1>4, <2>1, <2>2, <2>3, <2>4, <2>6 DEF UseSchema, SchemaInv, Holding
<1>5. ASSUME NEW t \in Tasks, pc[t] \in {"run", "begin"}
      PROVE  /\ currentSchema = block[t] /\ currentSchema # None
             /\ session = "open" /\ path = currentSchema /\ Opened = path
             /\ \A u \in Tasks : u # t => pc[u] \notin Holding
  <2>1. currentSchema = block[t] /\ block[t] # None  BY <1>5, ClusterAssumption DEF SchemaInv, TypeOK
  <2>2. session = "open" /\ path = currentSchema  BY <2>1 DEF SchemaInv
  <2>3. \A u \in Tasks : u # t => pc[u] \notin Holding  BY <1>5, OneHolder DEF Holding
  <2> QED  BY <2>1, <2>2, <2>3 DEF Opened
<1>6. ASSUME NEW t \in Tasks, Run(t) PROVE SchemaInv'
  <2>1. \A u \in Tasks : pc'[u] = IF u = t THEN "idle" ELSE pc[u]
    BY <1>6 DEF Run, Release, Go, TypeOK
  <2>2. UNCHANGED <<session, path>>  BY <1>5, <1>6 DEF Run
  <2> QED  BY <1>6, <2>1, <2>2, SchemaKept DEF Run
<1>7. ASSUME NEW t \in Tasks, Begin(t) PROVE SchemaInv'
  <2>1. \A u \in Tasks : pc'[u] = IF u = t THEN "in" ELSE pc[u]  BY <1>7 DEF Begin, Go, TypeOK
  <2>2. /\ currentSchema = block[t] /\ path = currentSchema /\ Opened = path /\ session = "open"
        /\ \A u \in Tasks : u # t => pc[u] \notin Holding
    BY <1>5, <1>7 DEF Begin
  <2>3. PICK f : f = [owner |-> block[t], path |-> Opened, work |-> {}, listeners |-> {}]
    OBVIOUS
  <2>4. tx' = <<f>> /\ f.owner = block[t] /\ f.path = block[t]  BY <1>7, <2>2, <2>3 DEF Begin
  <2>5. tx' # <<>> /\ Len(tx') = 1 /\ tx'[1] = f  BY <2>4
  <2>6. UNCHANGED <<block, currentSchema>> /\ session' = "open" /\ path' = path
    BY <1>7, <2>2 DEF Begin
  <2> QED  BY <2>1, <2>2, <2>4, <2>5, <2>6 DEF SchemaInv, Holding
<1>8. ASSUME NEW t \in Tasks, Statement(t) PROVE SchemaInv'
  <2>1. pc[t] = "in"  BY <1>8 DEF Statement
  <2>2. CASE tx' = tx
    BY <1>8, <2>2, SchemaKept DEF Statement
  <2>3. CASE tx' # tx
    <3>1. PICK w \in Works : w = works + 1  BY <1>8, Bounds, Counted DEF Statement, Works
    <3>2. tx' = [tx EXCEPT ![Len(tx)] = With(@, {w}, {w})]  BY <1>8, <2>3, <3>1 DEF Statement
    <3>3. PICK n \in Nat : n = Len(tx) /\ n > 0  BY <2>1, InsideFacts
    <3>4. /\ tx' \in Seq(Frame) /\ Len(tx') = n
          /\ \A i \in 1..n : tx'[i].owner = tx[i].owner /\ tx'[i].path = tx[i].path
      BY <2>1, <3>2, <3>3, InsideFacts, TopJoined
    <3>5. tx' # <<>>  BY <3>3, <3>4, HeadOf
    <3>6. tx'[n].owner = tx[n].owner /\ tx'[1].path = tx'[1].owner
      BY <2>1, <3>3, <3>4, InsideFacts
    <3>7. UNCHANGED <<pc, block, session, path, currentSchema>>  BY <1>8 DEF Statement
    <3> QED  BY <2>1, <3>3, <3>4, <3>5, <3>6, <3>7, SchemaInside, InsideFacts
  <2> QED  BY <2>2, <2>3
<1>9. ASSUME NEW t \in Tasks, NEW b \in Blocks, Nest(t, b) PROVE SchemaInv'
  <2>1. pc[t] = "in" /\ UNCHANGED <<pc, block, session>>  BY <1>9 DEF Nest
  <2>2. PICK f \in Frame : f = [owner |-> b, path |-> path, work |-> {}, listeners |-> {}]
    BY DEF Frame, TypeOK
  <2>3. tx' = Append(tx, f)  BY <1>9, <2>2 DEF Nest
  <2>4. PICK n \in Nat : n = Len(tx) /\ n > 0  BY <2>1, InsideFacts
  <2>5. /\ tx' \in Seq(Frame) /\ Len(tx') = n + 1 /\ tx'[n + 1] = f
        /\ \A i \in 1..n : tx'[i] = tx[i]
    BY <2>2, <2>3, <2>4, Nested
  <2>6. tx' # <<>> /\ tx'[1] = tx[1]  BY <2>4, <2>5, HeadOf
  <2>7. currentSchema' = b /\ path' = b  BY <1>9, <2>1, InsideFacts DEF Nest
  <2>8. tx'[Len(tx')].owner = b  BY <2>2, <2>5
  <2> QED  BY <2>1, <2>6, <2>7, <2>8, SchemaInside, InsideFacts
<1>10. ASSUME NEW t \in Tasks, pc[t] = "in", Len(tx) > 1, rollbackToSavepoint,
              UNCHANGED <<pc, block, queue, session, counters, ran>>
       PROVE  SchemaInv'
  <2>1. PICK n \in Nat : n = Len(tx) - 1 /\ n > 0 /\ Len(tx) = n + 1  BY <1>10, FrameFields
  <2>2. /\ tx' \in Seq(Frame) /\ Len(tx') = n /\ \A i \in 1..n : tx'[i] = tx[i]
        /\ path' = tx[n].owner /\ currentSchema' = path'
    BY <1>10, <2>1, RolledBack
  <2>3. tx' # <<>> /\ tx'[1] = tx[1] /\ tx'[n] = tx[n]  BY <2>1, <2>2, HeadOf
  <2> QED  BY <1>10, <2>2, <2>3, SchemaInside, InsideFacts
<1>11. ASSUME NEW t \in Tasks, ReleaseSavepoint(t) PROVE SchemaInv'
  <2>1. CASE aborted /\ rollbackToSavepoint  BY <1>10, <1>11, <2>1 DEF ReleaseSavepoint
  <2>2. CASE ~(aborted /\ rollbackToSavepoint)
    <3>1. pc[t] = "in" /\ Len(tx) > 1 /\ tx' = Released /\ UNCHANGED <<pc, block, session>>
      BY <1>11, <2>2 DEF ReleaseSavepoint
    <3>2. PICK n \in Nat : n = Len(tx) - 1 /\ n > 0 /\ Len(tx) = n + 1  BY <3>1, FrameFields
    <3>3. /\ tx' \in Seq(Frame) /\ Len(tx') = n
          /\ \A i \in 1..n : tx'[i].owner = tx[i].owner /\ tx'[i].path = tx[i].path
      BY <3>1, <3>2, ReleasedFrames
    <3>4. tx' # <<>>  BY <3>2, <3>3, HeadOf
    <3>5. tx'[n].owner = tx[n].owner /\ tx'[1].path = tx'[1].owner
      BY <3>1, <3>2, <3>3, InsideFacts
    <3>6. currentSchema' = tx[n].owner /\ path' = tx[n].owner
      BY <1>11, <2>2, <3>1, <3>2, InsideFacts DEF ReleaseSavepoint, Parent
    <3> QED  BY <3>1, <3>3, <3>4, <3>5, <3>6, SchemaInside, InsideFacts
  <2> QED  BY <2>1, <2>2
<1>12. ASSUME NEW t \in Tasks, RollbackSavepoint(t) PROVE SchemaInv'
  BY <1>10, <1>12 DEF RollbackSavepoint
<1>13. ASSUME NEW t \in Tasks, pc[t] = "in", Len(tx) = 1
       PROVE  Top.path = Top.owner /\ currentSchema = Top.owner /\ path = currentSchema
              /\ currentSchema # None
  BY <1>13, InsideFacts DEF Top, Last
<1>14. ASSUME NEW t \in Tasks, Commit(t) PROVE SchemaInv'
  <2>1. /\ pc[t] = "in" /\ Len(tx) = 1 /\ Release(t) /\ tx' = <<>>
        /\ UNCHANGED <<session, currentSchema>>
        /\ path' = path \/ path' = Top.path
    BY <1>14 DEF Commit, Undone
  <2> QED  BY <2>1, <1>13, SchemaEnded
<1>15. ASSUME NEW t \in Tasks, CommitFails(t) \/ Rollback(t) PROVE SchemaInv'
  <2>1. /\ pc[t] = "in" /\ Len(tx) = 1 /\ Release(t) /\ tx' = <<>> /\ session' = session
        /\ path' = Top.path /\ currentSchema' = Top.owner
    BY <1>15 DEF CommitFails, Rollback, Undone
  <2> QED  BY <2>1, <1>13, SchemaEnded
<1>16. CASE CloseForExit
  <2>1. /\ \A t \in Tasks : pc'[t] = "idle" /\ pc[t] = "idle"
        /\ currentSchema' = None /\ tx' = tx
    BY <1>16 DEF CloseForExit
  <2> QED  BY <2>1 DEF SchemaInv
<1> QED
  BY <1>0, <1>1, <1>2, <1>3, <1>4, <1>6, <1>7, <1>8, <1>9, <1>11, <1>12, <1>14, <1>15, <1>16
  DEF Next, Step, Ends
-------------------------------------------------------------------------------
(* Work and listeners.                                                     *)

LEMMA WorkKept ==
    ASSUME WorkInv, UNCHANGED <<tx, works, kept, fired, silent>>
    PROVE  WorkInv'
BY DEF WorkInv, Settled

\* The last frame's work is settled, and the frames below are as they were.
LEMMA WorkSettled ==
    ASSUME TypeOK, WorkInv, NEW n \in Nat, Len(tx) = n + 1, Len(tx') = n,
           \A i \in 1..n : tx'[i] = tx[i], works' = works,
           \/ /\ fired' = fired \cup tx[n + 1].work /\ UNCHANGED <<kept, silent>>
           \/ /\ kept' \cup silent' = kept \cup silent \cup tx[n + 1].work /\ fired' = fired
    PROVE  WorkInv'
<1>1. Settled' = Settled \cup tx[n + 1].work  BY DEF Settled
<1>2. \A i \in 1..n : i \in 1..Len(tx) /\ i # n + 1  OBVIOUS
<1>3. n + 1 \in 1..Len(tx)  OBVIOUS
<1>4. tx[n + 1].work \subseteq (1..works) \ Settled  BY <1>3 DEF WorkInv
<1>5. \A i \in 1..Len(tx') : tx'[i].listeners = tx'[i].work  BY <1>2 DEF WorkInv
<1>6. \A i \in 1..Len(tx') : tx'[i].work \subseteq (1..works') \ Settled'
  <2> SUFFICES ASSUME NEW i \in 1..n PROVE tx[i].work \subseteq (1..works) \ Settled'  OBVIOUS
  <2>1. tx[i].work \cap tx[n + 1].work = {}  BY <1>2, <1>3 DEF WorkInv
  <2>2. tx[i].work \subseteq (1..works) \ Settled  BY <1>2 DEF WorkInv
  <2> QED  BY <1>1, <2>1, <2>2
<1>7. \A i, j \in 1..Len(tx') : i # j => tx'[i].work \cap tx'[j].work = {}
  <2> SUFFICES ASSUME NEW i \in 1..n, NEW j \in 1..n, i # j PROVE tx[i].work \cap tx[j].work = {}
    OBVIOUS
  <2> QED  BY <1>2 DEF WorkInv
<1>8. fired' \cap (kept' \cup silent') = {}  BY <1>4 DEF WorkInv, Settled
<1>9. Settled' \subseteq 1..works'  BY <1>1, <1>4 DEF WorkInv
<1>10. \A w \in 1..works' : w \in Settled' \/ \E i \in 1..Len(tx') : w \in tx'[i].work
  <2> SUFFICES ASSUME NEW w \in 1..works, w \notin Settled'
               PROVE  \E i \in 1..n : w \in tx'[i].work
    OBVIOUS
  <2>1. w \notin Settled /\ w \notin tx[n + 1].work  BY <1>1
  <2>2. PICK i \in 1..Len(tx) : w \in tx[i].work  BY <2>1 DEF WorkInv
  <2>3. i \in 1..n  BY <2>1, <2>2
  <2> QED  BY <2>2, <2>3
<1> QED  BY <1>5, <1>6, <1>7, <1>8, <1>9, <1>10 DEF WorkInv

\* A released savepoint's work becomes its parent's.
LEMMA WorkReleased ==
    ASSUME TypeOK, WorkInv, Len(tx) > 1, tx' = Released, UNCHANGED <<works, kept, fired, silent>>
    PROVE  WorkInv'
<1>1. PICK n \in Nat : n = Len(tx) - 1 /\ n > 0 /\ Len(tx) = n + 1  BY FrameFields
<1>2. /\ Len(tx') = n
      /\ \A i \in 1..n : i # n => tx'[i] = tx[i]
      /\ tx'[n].work = tx[n].work \cup tx[n + 1].work
      /\ tx'[n].listeners = tx[n].listeners \cup tx[n + 1].listeners
  BY <1>1, ReleasedFrames
<1>3. Settled' = Settled  BY DEF Settled
<1>4. n \in 1..Len(tx) /\ n + 1 \in 1..Len(tx) /\ \A i \in 1..n : i \in 1..Len(tx) /\ i # n + 1
  BY <1>1
<1>5. \A i \in 1..n : tx'[i].listeners = tx'[i].work
  <2>1. tx[n].listeners = tx[n].work /\ tx[n + 1].listeners = tx[n + 1].work  BY <1>4 DEF WorkInv
  <2>2. tx'[n].listeners = tx'[n].work  BY <1>2, <2>1
  <2>3. \A i \in 1..n : i # n => tx'[i].listeners = tx'[i].work  BY <1>2, <1>4 DEF WorkInv
  <2> QED  BY <2>2, <2>3
<1>6. \A i \in 1..n : tx'[i].work \subseteq (1..works) \ Settled  BY <1>2, <1>4 DEF WorkInv
<1>7. \A i, j \in 1..n : i # j => tx'[i].work \cap tx'[j].work = {}
  <2> SUFFICES ASSUME NEW i \in 1..n, NEW j \in 1..n, i # j PROVE tx'[i].work \cap tx'[j].work = {}
    OBVIOUS
  <2>1. /\ tx[i].work \cap tx[j].work = {}
        /\ tx[i].work \cap tx[n + 1].work = {} /\ tx[j].work \cap tx[n + 1].work = {}
    BY <1>4 DEF WorkInv
  <2>2. CASE i = n  BY <1>2, <2>1, <2>2
  <2>3. CASE j = n  BY <1>2, <2>1, <2>3
  <2>4. CASE i # n /\ j # n  BY <1>2, <2>1, <2>4
  <2> QED  BY <2>2, <2>3, <2>4
<1>8. \A w \in 1..works : w \in Settled \/ \E i \in 1..n : w \in tx'[i].work
  <2> SUFFICES ASSUME NEW w \in 1..works, w \notin Settled
               PROVE  \E i \in 1..n : w \in tx'[i].work
    OBVIOUS
  <2>1. PICK i \in 1..Len(tx) : w \in tx[i].work  BY DEF WorkInv
  <2>2. CASE i \in {n, n + 1}
    <3>1. w \in tx'[n].work /\ n \in 1..n  BY <1>1, <1>2, <2>1, <2>2
    <3> QED  BY <3>1
  <2>3. CASE i \notin {n, n + 1}
    <3>1. i \in 1..n /\ w \in tx'[i].work  BY <1>1, <1>2, <2>1, <2>3
    <3> QED  BY <3>1
  <2> QED  BY <2>2, <2>3
<1>9. Settled \subseteq 1..works /\ fired \cap (kept \cup silent) = {}  BY DEF WorkInv
<1> QED  BY <1>2, <1>3, <1>5, <1>6, <1>7, <1>8, <1>9 DEF WorkInv

\* A new change is in the innermost frame.
LEMMA WorkJoined ==
    ASSUME TypeOK, WorkInv, tx # <<>>, NEW w \in Works, w = works + 1, works' = w,
           tx' = [tx EXCEPT ![Len(tx)] = With(@, {w}, {w})], UNCHANGED <<kept, fired, silent>>
    PROVE  WorkInv'
<1>1. PICK n \in Nat : n = Len(tx) /\ n > 0  BY FrameFields
<1>2. /\ Len(tx') = n
      /\ \A i \in 1..n : i # n => tx'[i] = tx[i]
      /\ tx'[n].work = tx[n].work \cup {w} /\ tx'[n].listeners = tx[n].listeners \cup {w}
  BY <1>1, TopJoined
<1>3. Settled' = Settled /\ Settled \subseteq 1..works /\ fired \cap (kept \cup silent) = {}
  BY DEF Settled, WorkInv
<1>4. works \in Nat /\ w \notin 1..works /\ 1..works' = (1..works) \cup {w}
  BY Bounds, Counted
<1>5. \A i \in 1..n : w \notin tx[i].work /\ tx[i].work \subseteq (1..works) \ Settled
  BY <1>1, <1>4 DEF WorkInv
<1>6. \A i \in 1..n : tx'[i].listeners = tx'[i].work  BY <1>1, <1>2 DEF WorkInv
<1>7. \A i \in 1..n : tx'[i].work \subseteq (1..works') \ Settled'
  <2> SUFFICES ASSUME NEW i \in 1..n PROVE tx'[i].work \subseteq (1..works') \ Settled'  OBVIOUS
  <2>1. tx'[i].work \subseteq tx[i].work \cup {w}  BY <1>2
  <2> QED  BY <1>3, <1>4, <1>5, <2>1
<1>8. \A i, j \in 1..n : i # j => tx'[i].work \cap tx'[j].work = {}
  <2> SUFFICES ASSUME NEW i \in 1..n, NEW j \in 1..n, i # j PROVE tx'[i].work \cap tx'[j].work = {}
    OBVIOUS
  <2>1. tx[i].work \cap tx[j].work = {} /\ w \notin tx[i].work /\ w \notin tx[j].work
    BY <1>1, <1>5 DEF WorkInv
  <2>2. CASE i = n
    <3>1. tx'[i].work = tx[i].work \cup {w} /\ tx'[j].work = tx[j].work  BY <1>2, <2>2
    <3> QED  BY <2>1, <3>1
  <2>3. CASE j = n
    <3>1. tx'[j].work = tx[j].work \cup {w} /\ tx'[i].work = tx[i].work  BY <1>2, <2>3
    <3> QED  BY <2>1, <3>1
  <2>4. CASE i # n /\ j # n  BY <1>2, <2>1, <2>4
  <2> QED  BY <2>2, <2>3, <2>4
<1>9. \A v \in 1..works' : v \in Settled' \/ \E i \in 1..n : v \in tx'[i].work
  <2> SUFFICES ASSUME NEW v \in 1..works', v \notin Settled
               PROVE  \E i \in 1..n : v \in tx'[i].work
    BY <1>3
  <2>1. n \in 1..n /\ w \in tx'[n].work
    <3>1. n \in 1..n  BY <1>1
    <3>2. w \in tx'[n].work  BY <1>2
    <3> QED  BY <3>1, <3>2
  <2>2. CASE v = w  BY <2>1, <2>2
  <2>3. CASE v \in 1..works
    <3>1. PICK i \in 1..n : v \in tx[i].work  BY <1>1, <2>3 DEF WorkInv
    <3>2. v \in tx'[i].work  BY <1>2, <3>1
    <3> QED  BY <3>1, <3>2
  <2> QED  BY <1>4, <2>2, <2>3
<1>10. Settled' \subseteq 1..works'  BY <1>3, <1>4
<1>11. fired' \cap (kept' \cup silent') = {}  BY <1>3
<1> QED  BY <1>2, <1>6, <1>7, <1>8, <1>9, <1>10, <1>11 DEF WorkInv

\* A frame with no work changes nothing.
LEMMA WorkNested ==
    ASSUME TypeOK, WorkInv, NEW n \in Nat, Len(tx) = n, Len(tx') = n + 1,
           \A i \in 1..n : tx'[i] = tx[i],
           tx'[n + 1].work = {}, tx'[n + 1].listeners = {}, UNCHANGED <<works, kept, fired, silent>>
    PROVE  WorkInv'
<1>1. Settled' = Settled  BY DEF Settled
<1>2. \A i \in 1..n + 1 : i = n + 1 \/ i \in 1..n  OBVIOUS
<1>3. \A i \in 1..n : i \in 1..n + 1  OBVIOUS
<1>4. \A i \in 1..n + 1 : tx'[i].listeners = tx'[i].work  BY <1>2 DEF WorkInv
<1>5. \A i \in 1..n + 1 : tx'[i].work \subseteq (1..works) \ Settled  BY <1>2 DEF WorkInv
<1>6. \A i, j \in 1..n + 1 : i # j => tx'[i].work \cap tx'[j].work = {}  BY <1>2 DEF WorkInv
<1>7. \A w \in 1..works : w \in Settled \/ \E i \in 1..n + 1 : w \in tx'[i].work
  BY <1>3 DEF WorkInv
<1>8. Settled \subseteq 1..works /\ fired \cap (kept \cup silent) = {}  BY DEF WorkInv
<1> QED  BY <1>1, <1>4, <1>5, <1>6, <1>7, <1>8 DEF WorkInv

LEMMA WorkStep ==
    ASSUME TypeOK, MutexInv, SchemaInv, WorkInv, [Next]_vars
    PROVE  WorkInv'
<1> USE DEF clusterVars, counters, ghosts
<1>0. CASE UNCHANGED vars  BY <1>0, WorkKept DEF vars
<1>1. ASSUME NEW t \in Tasks,
             Acquire(t) \/ UseSchema(t) \/ InitFails(t) \/ Run(t) \/ \E b \in Blocks : Call(t, b)
      PROVE  WorkInv'
  BY <1>1, WorkKept DEF Acquire, UseSchema, InitFails, Run, Call
<1>2. ASSUME NEW t \in Tasks, Begin(t) PROVE WorkInv'
  <2>1. \A u \in Tasks : pc[u] # "in"  BY <1>2, OneHolder DEF Begin, Holding
  <2>2. tx = <<>> /\ Len(tx) = 0  BY <2>1, EmptySeq DEF SchemaInv
  <2>3. PICK f : f = [owner |-> block[t], path |-> Opened, work |-> {}, listeners |-> {}]
    OBVIOUS
  <2>4. tx' = <<f>> /\ f.work = {} /\ f.listeners = {}  BY <1>2, <2>3 DEF Begin
  <2>5. Len(tx') = 1 /\ tx'[1] = f  BY <2>4
  <2>6. UNCHANGED <<works, kept, fired, silent>>  BY <1>2 DEF Begin
  <2>7. PICK n \in Nat : n = 0  OBVIOUS
  <2> QED  BY <2>2, <2>4, <2>5, <2>6, <2>7, WorkNested
<1>3. ASSUME NEW t \in Tasks, Statement(t) PROVE WorkInv'
  <2>1. CASE UNCHANGED <<works, tx>>  BY <1>3, <2>1, WorkKept DEF Statement
  <2>2. CASE ~UNCHANGED <<works, tx>>
    <3>1. PICK w \in Works : w = works + 1  BY <1>3, Bounds, Counted DEF Statement, Works
    <3>2. /\ tx' = [tx EXCEPT ![Len(tx)] = With(@, {w}, {w})] /\ works' = w
          /\ UNCHANGED <<kept, fired, silent>>
      BY <1>3, <2>2, <3>1 DEF Statement
    <3>3. tx # <<>>  BY <1>3, InsideFacts DEF Statement
    <3> QED  BY <3>1, <3>2, <3>3, WorkJoined
  <2> QED  BY <2>1, <2>2
<1>4. ASSUME NEW t \in Tasks, NEW b \in Blocks, Nest(t, b) PROVE WorkInv'
  <2>1. PICK f \in Frame : f = [owner |-> b, path |-> path, work |-> {}, listeners |-> {}]
    BY DEF Frame, TypeOK
  <2>2. tx' = Append(tx, f) /\ UNCHANGED <<works, kept, fired, silent>>  BY <1>4, <2>1 DEF Nest
  <2>3. PICK n \in Nat : n = Len(tx)  BY FrameFields
  <2>4. Len(tx') = n + 1 /\ tx'[n + 1] = f /\ \A i \in 1..n : tx'[i] = tx[i]
    BY <2>1, <2>2, <2>3, Nested
  <2>5. tx'[n + 1].work = {} /\ tx'[n + 1].listeners = {}  BY <2>1, <2>4
  <2> QED  BY <2>2, <2>3, <2>4, <2>5, WorkNested
<1>5. ASSUME Len(tx) > 1, rollbackToSavepoint, UNCHANGED works PROVE WorkInv'
  <2>1. PICK n \in Nat : n = Len(tx) - 1 /\ Len(tx) = n + 1  BY <1>5, FrameFields
  <2>2. /\ Len(tx') = n /\ (\A i \in 1..n : tx'[i] = tx[i])
        /\ fired' = fired \cup tx[n + 1].listeners /\ UNCHANGED <<kept, silent>>
    BY <1>5, <2>1, RolledBack
  <2>3. tx[n + 1].listeners = tx[n + 1].work  BY <2>1 DEF WorkInv
  <2> QED  BY <1>5, <2>1, <2>2, <2>3, WorkSettled
<1>6. ASSUME NEW t \in Tasks, ReleaseSavepoint(t) \/ RollbackSavepoint(t) PROVE WorkInv'
  <2>1. CASE rollbackToSavepoint  BY <1>5, <1>6, <2>1 DEF ReleaseSavepoint, RollbackSavepoint
  <2>2. CASE ~rollbackToSavepoint
    <3>1. Len(tx) > 1 /\ tx' = Released /\ UNCHANGED <<works, kept, fired, silent>>
      BY <1>6, <2>2 DEF ReleaseSavepoint, RollbackSavepoint
    <3> QED  BY <3>1, WorkReleased
  <2> QED  BY <2>1, <2>2
<1>7. ASSUME NEW t \in Tasks, Commit(t) \/ CommitFails(t) \/ Rollback(t) PROVE WorkInv'
  <2>1. PICK n \in Nat : n = 0  OBVIOUS
  <2>2. Len(tx) = n + 1 /\ tx' = <<>> /\ works' = works
    BY <1>7, <2>1 DEF Commit, CommitFails, Rollback, Undone
  <2>3. Len(tx') = n  BY <2>1, <2>2, EmptySeq
  <2>4. Top = tx[n + 1] /\ tx[n + 1].listeners = tx[n + 1].work
    BY <2>1, <2>2 DEF Top, Last, WorkInv
  <2>5. CASE Commit(t)
    <3>1. kept' \cup silent' = kept \cup silent \cup Top.work /\ fired' = fired
      BY <2>5 DEF Commit
    <3> QED  BY <2>1, <2>2, <2>3, <2>4, <3>1, WorkSettled
  <2>6. CASE CommitFails(t) \/ Rollback(t)
    <3>1. fired' = fired \cup Top.listeners /\ UNCHANGED <<kept, silent>>
      BY <2>6 DEF CommitFails, Rollback
    <3> QED  BY <2>1, <2>2, <2>3, <2>4, <3>1, WorkSettled
  <2> QED  BY <1>7, <2>5, <2>6
<1>8. CASE CloseForExit  BY <1>8, WorkKept DEF CloseForExit
<1> QED  BY <1>0, <1>1, <1>2, <1>3, <1>4, <1>6, <1>7, <1>8 DEF Next, Step, Ends

\* A statement runs on the path its block's call, or the last savepoint, has set.
LEMMA InnermostSchemaStep ==
    ASSUME TypeOK, MutexInv, SchemaInv, InnermostSchema, [Next]_vars
    PROVE  InnermostSchema'
<1> USE DEF clusterVars, counters, ghosts
<1>1. ASSUME UNCHANGED ran PROVE InnermostSchema'  BY <1>1 DEF InnermostSchema
<1>2. ASSUME NEW t \in Tasks, Run(t) PROVE InnermostSchema'
  <2>1. block[t] # None /\ currentSchema = block[t]
    BY <1>2, ClusterAssumption DEF Run, SchemaInv, TypeOK
  <2>2. Opened = block[t]  BY <2>1 DEF SchemaInv, Opened
  <2> QED  BY <1>2, <2>2 DEF Run, InnermostSchema
<1>3. ASSUME NEW t \in Tasks, Statement(t) PROVE InnermostSchema'
  <2>1. Top.owner = path  BY <1>3, InsideFacts DEF Statement, Top, Last
  <2>2. PICK i \in DOMAIN tx : ran' = ran \cup {<<tx[i].owner, Top.owner, path>>}
    BY <1>3 DEF Statement
  <2> QED  BY <2>1, <2>2 DEF InnermostSchema
<1> QED
  BY <1>1, <1>2, <1>3
  DEF Next, Step, Ends, vars, Call, Acquire, UseSchema, InitFails, Begin, Nest, ReleaseSavepoint,
      RollbackSavepoint, Commit, CommitFails, Rollback, CloseForExit
-------------------------------------------------------------------------------
\* The mutex, the schema the cluster remembers, and every change are accounted for
\* in every state.
THEOREM ClusterInvariant == Spec => []ClusterInv
<1>1. ClusterInv /\ [Next]_vars => ClusterInv'
  BY TypeStep, MutexStep, SchemaStep, WorkStep, InnermostSchemaStep DEF ClusterInv
<1> QED  BY InitInv, <1>1, PTL DEF Spec

\* Every statement runs under the schema of the innermost block, through whichever
\* open handle it is made (useSchema, and the path restored after each savepoint and
\* transaction): under its own, unless it is an outer handle's in a nested callback.
THEOREM StatementsFindInnermostSchema == Spec => []InnermostSchema
<1>1. ClusterInv => InnermostSchema  BY DEF ClusterInv
<1> QED  BY ClusterInvariant, <1>1, PTL

\* When no transaction is open the rollback listeners called are those whose work
\* was undone, wherever it was done (released and fireRollback).
THEOREM ListenersHearOfUndoneWork == Spec => []ListenersMatch
<1>1. ClusterInv => ListenersMatch
  <2> SUFFICES ASSUME WorkInv, tx = <<>> PROVE fired = (1..works) \ (kept \cup silent)
    BY DEF ClusterInv, ListenersMatch
  <2>1. \A i \in 1..Len(tx) : FALSE  OBVIOUS
  <2>2. Settled = 1..works  BY <2>1 DEF WorkInv
  <2>3. fired \cap (kept \cup silent) = {}  BY DEF WorkInv
  <2> QED  BY <2>2, <2>3 DEF Settled
<1> QED  BY ClusterInvariant, <1>1, PTL
=============================================================================
