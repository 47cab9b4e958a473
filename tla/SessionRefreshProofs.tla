------------------------- MODULE SessionRefreshProofs --------------------------
(***************************************************************************)
(* Theorems about SessionRefresh, for any requests, containers, timeouts  *)
(* and store faults.                                                       *)
(***************************************************************************)
EXTENDS SessionRefresh, TLAPS

\* What a request acts on is a row wherever it is going to use it as one.
RowsInv ==
    \A r \in Requests :
        /\ pc[r] \in {"waiting", "revoking"} => seen[r] \in SessionRow
        /\ pc[r] \in Owner \cup {"locking"} => seen[r] \in SessionRow /\ mine[r] \in SessionRow

(* The rows of a session that is never forced come in an order: each swap      *)
(* stores one that is further on than the one it replaces.                     *)
Stage(v) == IF v.state = "ready" THEN 0 ELSE v.since + 1

Behind(a, b) ==
    \/ b = NoRow
    \/ b.state = "expired"
    \/ a.expiresAt < b.expiresAt
    \/ a.expiresAt = b.expiresAt /\ Stage(a) <= Stage(b)

\* A lock on a row whose access token had expired when the lock was made.
IsLock(v) == v.state = "refreshing" /\ v.expiresAt <= v.since /\ v.since <= now

OrderInv ==
    \A r \in Requests :
        /\ pc[r] = "deciding" => kind[r] # "signOut"
        /\ pc[r] = "locking" =>
              /\ seen[r].state # "expired"
              /\ IsLock(mine[r])
              /\ mine[r].expiresAt = seen[r].expiresAt
              /\ seen[r].state = "refreshing" => seen[r].since + STALE <= mine[r].since
        /\ pc[r] \in Owner => IsLock(HeldRow(r)) /\ Behind(HeldRow(r), row)
        /\ pc[r] = "saving" => mine[r].state = "ready" /\ mine[r].expiresAt > seen[r].expiresAt
        /\ pc[r] = "failing" => mine[r].state = "expired"

\* A lock that is not stale is still stored, unless the session was deleted.
YoungInv ==
    \A r \in Requests :
        pc[r] = "atIdp" => row \in {mine[r], NoRow} \/ now >= mine[r].since + STALE

\* A refresh under way is the one its container has registered.
Busy == Owner \cup {"locking", "waiting", "rereading"}
RegisteredInv == \A r \in Requests : pc[r] \in Busy => inFlight[home[r]] = r

LockInv ==
    /\ TypeOK /\ RowsInv /\ Unforced
    /\ OrderInv /\ OneHolder /\ YoungInv /\ OneRefreshAtATime

-------------------------------------------------------------------------------
(* Type correctness.                                                       *)

\* What a call that ends does to the requests: they are done, or as they were.
LEMMA FinishEffect ==
    ASSUME TypeOK, NEW r \in Requests, NEW a \in Answer, Finish(r, a)
    PROVE  /\ pc' \in [Requests -> Place]
           /\ answer' \in [Requests -> Answer]
           /\ seen' \in [Requests -> SessionRow \cup {NoRow}]
           /\ mine' \in [Requests -> SessionRow \cup {NoRow}]
           /\ inFlight' \in [Containers -> Requests \cup {NoRequest}]
           /\ kind' = kind /\ home' = home
           /\ pc'[r] = "done"
           /\ \A q \in Requests \ {r} :
                 \/ pc'[q] = "done"
                 \/ pc'[q] = pc[q] /\ seen'[q] = seen[q] /\ mine'[q] = mine[q]
<1>1. r \in Answered(r)
  BY DEF Answered
<1>2. pc' \in [Requests -> Place] /\ pc'[r] = "done"
  BY <1>1 DEF Finish, TypeOK, Place
<1>3. answer' \in [Requests -> Answer]
  BY DEF Finish, TypeOK
<1>4. seen' \in [Requests -> SessionRow \cup {NoRow}] /\ mine' \in [Requests -> SessionRow \cup {NoRow}]
  BY DEF Finish, TypeOK
<1>5. inFlight' \in [Containers -> Requests \cup {NoRequest}]
  BY DEF Finish, TypeOK
<1>6. \A q \in Requests \ {r} :
         \/ pc'[q] = "done"
         \/ pc'[q] = pc[q] /\ seen'[q] = seen[q] /\ mine'[q] = mine[q]
  BY DEF Finish, TypeOK
<1>7. QED
  BY <1>2, <1>3, <1>4, <1>5, <1>6 DEF Finish

\* A call that moves on changes its own place only.
LEMMA GotoEffect ==
    ASSUME TypeOK, NEW r \in Requests, NEW place \in Place, Goto(r, place)
    PROVE  /\ pc' \in [Requests -> Place]
           /\ pc'[r] = place
           /\ \A q \in Requests \ {r} : pc'[q] = pc[q]
           /\ kind' = kind /\ home' = home /\ answer' = answer
BY DEF Goto, TypeOK

\* The rows the manager builds are rows.
LEMMA LockType ==
    ASSUME TypeOK, NEW v \in SessionRow
    PROVE  /\ [v EXCEPT !.state = "refreshing", !.since = now] \in SessionRow
           /\ [v EXCEPT !.state = "expired", !.since = 0] \in SessionRow
BY DEF TypeOK, SessionRow

LEMMA SavedType ==
    ASSUME TypeOK, NEW r \in Requests, NEW token \in Nat \ {0}
    PROVE  Saved(r, token) \in SessionRow
<1>1. now + LIFETIME \in Nat
  BY SessionAssumption DEF TypeOK
<1>2. QED
  BY <1>1 DEF Saved, SessionRow

\* A put leaves the store well typed.
LEMMA StoreType ==
    ASSUME TypeOK, NEW v \in SessionRow \cup {NoRow},
           Store(v) \/ UNCHANGED storeVars
    PROVE  /\ row' \in SessionRow \cup {NoRow}
           /\ past' \subseteq SessionRow \cup {NoRow}
BY DEF TypeOK, Store, storeVars

LEMMA SwapType ==
    ASSUME TypeOK, NEW u, NEW v \in SessionRow, Swap(u, v) \/ SwapFails(u, v)
    PROVE  /\ row' \in SessionRow \cup {NoRow}
           /\ past' \subseteq SessionRow \cup {NoRow}
BY StoreType DEF Swap, SwapFails

LEMMA TypeInit == Init => TypeOK /\ RowsInv
<1> SUFFICES ASSUME Init PROVE TypeOK /\ RowsInv
  OBVIOUS
<1>1. row \in SessionRow
  BY DEF Init, SessionRow
<1>2. kind \in [Requests -> RequestKind]
  BY SessionAssumption DEF Init
<1>3. pc \in [Requests -> Place] /\ answer \in [Requests -> Answer]
  BY DEF Init, Place, Answer
<1>4. /\ now \in Nat /\ issued \in Nat \ {0} /\ accepted \subseteq 1..issued
      /\ past \subseteq SessionRow \cup {NoRow} /\ excuse \in BOOLEAN
  <2>1. now = 0 /\ issued = 1 /\ accepted = {1} /\ past = {} /\ excuse = FALSE
    BY DEF Init
  <2>2. {1} \subseteq 1..1
    OBVIOUS
  <2>3. now \in Nat /\ issued \in Nat \ {0} /\ accepted \subseteq 1..issued
    BY <2>1, <2>2
  <2>4. past \subseteq SessionRow \cup {NoRow} /\ excuse \in BOOLEAN
    BY <2>1
  <2>5. QED
    BY <2>3, <2>4
<1>5. /\ inFlight \in [Containers -> Requests \cup {NoRequest}]
      /\ home \in [Requests -> Containers]
      /\ seen \in [Requests -> SessionRow \cup {NoRow}]
      /\ mine \in [Requests -> SessionRow \cup {NoRow}]
  BY DEF Init
<1>6. TypeOK
  BY <1>1, <1>2, <1>3, <1>4, <1>5 DEF TypeOK
<1>7. RowsInv
  BY DEF Init, RowsInv, Owner
<1>8. QED
  BY <1>6, <1>7

\* What a get returns is a row or nothing.
LEMMA ReadableType == ASSUME TypeOK PROVE Readable \subseteq SessionRow \cup {NoRow}
BY DEF Readable, TypeOK

\* A step of Refreshes keeps the types.
LEMMA RefreshesType ==
    ASSUME TypeOK, RowsInv, NEW r \in Requests, Refreshes(r)
    PROVE  TypeOK' /\ RowsInv'
<1> USE DEF idpVars
<1>a. Owner \cup {"locking"} = {"atIdp", "saving", "failing", "locking"}
  BY DEF Owner
<1>1. CASE Lock(r) \/ LockFails(r)
  <2>1. seen[r] \in SessionRow /\ mine[r] \in SessionRow
    BY <1>1, <1>a DEF RowsInv, Lock, LockFails
  <2>2. row' \in SessionRow \cup {NoRow} /\ past' \subseteq SessionRow \cup {NoRow}
    BY <1>1, <2>1, SwapType DEF Lock, LockFails
  <2>3. "atIdp" \in Place /\ "rereading" \in Place
    BY DEF Place, Owner
  <2>4. /\ pc' \in [Requests -> Place] /\ pc'[r] \in {"atIdp", "rereading"}
        /\ \A q \in Requests \ {r} : pc'[q] = pc[q]
        /\ kind' = kind /\ home' = home /\ answer' = answer
    BY <1>1, <2>3, GotoEffect DEF Lock, LockFails
  <2>5. excuse' \in BOOLEAN
    BY <1>1 DEF Lock, LockFails, TypeOK
  <2>6. UNCHANGED <<now, accepted, issued, inFlight, seen, mine>>
    BY <1>1 DEF Lock, LockFails
  <2>7. TypeOK'
    BY <2>2, <2>4, <2>5, <2>6 DEF TypeOK
  <2>8. RowsInv'
    BY <1>a, <2>1, <2>4, <2>6 DEF RowsInv
  <2>9. QED
    BY <2>7, <2>8
<1>2. ASSUME NEW rotated \in BOOLEAN, Grant(r, rotated)
      PROVE  TypeOK' /\ RowsInv'
  <2>1. seen[r] \in SessionRow /\ mine[r] \in SessionRow
    BY <1>2, <1>a DEF RowsInv, Grant
  <2>2. /\ issued + 1 \in Nat \ {0} /\ mine[r].refreshToken \in Nat \ {0}
        /\ issued' \in Nat \ {0} /\ accepted' \subseteq 1..issued'
    <3>1. issued \in Nat \ {0} /\ accepted \subseteq 1..issued
      BY DEF TypeOK
    <3>2. mine[r].refreshToken \in Nat \ {0}
      BY <2>1 DEF SessionRow
    <3>3. CASE rotated
      <4>1. issued' = issued + 1 /\ accepted' \subseteq accepted \cup {issued + 1}
        BY <1>2, <3>3 DEF Grant
      <4>2. accepted \cup {issued + 1} \subseteq 1..(issued + 1)
        BY <3>1
      <4>3. QED
        BY <3>1, <3>2, <4>1, <4>2
    <3>4. CASE ~rotated
      BY <1>2, <3>1, <3>2, <3>4 DEF Grant
    <3>5. QED
      BY <1>2, <3>3, <3>4
  <2>3. Saved(r, IF rotated THEN issued + 1 ELSE mine[r].refreshToken) \in SessionRow
    BY <2>2, SavedType
  <2>4. /\ seen' \in [Requests -> SessionRow \cup {NoRow}]
        /\ mine' \in [Requests -> SessionRow \cup {NoRow}]
        /\ seen'[r] \in SessionRow /\ mine'[r] \in SessionRow
        /\ \A q \in Requests \ {r} : seen'[q] = seen[q] /\ mine'[q] = mine[q]
    BY <1>2, <2>1, <2>3 DEF Grant, TypeOK
  <2>5. "saving" \in Place
    BY DEF Place, Owner
  <2>6. /\ pc' \in [Requests -> Place] /\ pc'[r] = "saving"
        /\ \A q \in Requests \ {r} : pc'[q] = pc[q]
        /\ kind' = kind /\ home' = home /\ answer' = answer
    BY <1>2, <2>5, GotoEffect DEF Grant
  <2>7. UNCHANGED <<row, past, now, inFlight, excuse>>
    BY <1>2 DEF Grant, storeVars
  <2>8. TypeOK'
    BY <2>2, <2>4, <2>6, <2>7 DEF TypeOK
  <2>9. RowsInv'
    BY <1>a, <2>4, <2>6 DEF RowsInv
  <2>10. QED
    BY <2>8, <2>9
<1>3. ASSUME NEW spent \in BOOLEAN, Refuse(r, spent)
      PROVE  TypeOK' /\ RowsInv'
  <2>1. seen[r] \in SessionRow /\ mine[r] \in SessionRow
    BY <1>3, <1>a DEF RowsInv, Refuse
  <2>2. accepted' \subseteq 1..issued' /\ issued' = issued
    BY <1>3 DEF Refuse, TypeOK
  <2>3. [mine[r] EXCEPT !.state = "expired", !.since = 0] \in SessionRow
    BY <2>1, LockType
  <2>4. /\ seen' \in [Requests -> SessionRow \cup {NoRow}]
        /\ mine' \in [Requests -> SessionRow \cup {NoRow}]
        /\ seen'[r] \in SessionRow /\ mine'[r] \in SessionRow
        /\ \A q \in Requests \ {r} : seen'[q] = seen[q] /\ mine'[q] = mine[q]
    BY <1>3, <2>1, <2>3 DEF Refuse, TypeOK
  <2>5. "failing" \in Place
    BY DEF Place, Owner
  <2>6. /\ pc' \in [Requests -> Place] /\ pc'[r] = "failing"
        /\ \A q \in Requests \ {r} : pc'[q] = pc[q]
        /\ kind' = kind /\ home' = home /\ answer' = answer
    BY <1>3, <2>5, GotoEffect DEF Refuse
  <2>7. UNCHANGED <<row, past, now, inFlight>>
    BY <1>3 DEF Refuse, storeVars
  <2>8. excuse' \in BOOLEAN
    BY <1>3 DEF Refuse, TypeOK
  <2>9. TypeOK'
    BY <2>2, <2>4, <2>6, <2>7, <2>8 DEF TypeOK
  <2>10. RowsInv'
    BY <1>a, <2>4, <2>6 DEF RowsInv
  <2>11. QED
    BY <2>9, <2>10
<1>4. CASE Save(r) \/ MarkExpired(r) \/ \E got \in Readable : Reread(r, got)
  <2>1. \E a \in Answer : Finish(r, a)
    BY <1>4 DEF Save, MarkExpired, Reread, Admit, Deny, Answer
  <2>2. row' \in SessionRow \cup {NoRow} /\ past' \subseteq SessionRow \cup {NoRow}
    <3>1. CASE Save(r) \/ MarkExpired(r)
      <4>1. mine[r] \in SessionRow
        BY <3>1, <1>a DEF RowsInv, Save, MarkExpired
      <4>2. QED
        BY <3>1, <4>1, SwapType DEF Save, MarkExpired
    <3>2. CASE \E got \in Readable : Reread(r, got)
      BY <3>2 DEF Reread, storeVars, TypeOK
    <3>3. QED
      BY <1>4, <3>1, <3>2
  <2>3. UNCHANGED <<now, accepted, issued, excuse>>
    BY <1>4 DEF Save, MarkExpired, Reread
  <2>4. TypeOK'
    BY <2>1, <2>2, <2>3, FinishEffect DEF TypeOK
  <2>5. RowsInv'
    BY <1>a, <2>1, FinishEffect DEF RowsInv
  <2>6. QED
    BY <2>4, <2>5
<1>5. CASE SaveFails(r)
  <2>1. seen[r] \in SessionRow /\ mine[r] \in SessionRow
    BY <1>5, <1>a DEF RowsInv, SaveFails
  <2>2. row' \in SessionRow \cup {NoRow} /\ past' \subseteq SessionRow \cup {NoRow}
    BY <1>5, <2>1, SwapType DEF SaveFails
  <2>3. "rereading" \in Place
    BY DEF Place
  <2>4. /\ pc' \in [Requests -> Place] /\ pc'[r] = "rereading"
        /\ \A q \in Requests \ {r} : pc'[q] = pc[q]
        /\ kind' = kind /\ home' = home /\ answer' = answer
    BY <1>5, <2>3, GotoEffect DEF SaveFails
  <2>5. UNCHANGED <<now, accepted, issued, inFlight, seen, mine, excuse>>
    BY <1>5 DEF SaveFails
  <2>6. TypeOK'
    BY <2>2, <2>4, <2>5 DEF TypeOK
  <2>7. RowsInv'
    BY <1>a, <2>4, <2>5 DEF RowsInv
  <2>8. QED
    BY <2>6, <2>7
<1>6. QED
  BY <1>1, <1>2, <1>3, <1>4, <1>5 DEF Refreshes

\* A step of a sign-out keeps the types.
LEMMA SignsOutType ==
    ASSUME TypeOK, RowsInv, NEW r \in Requests, SignsOut(r)
    PROVE  TypeOK' /\ RowsInv'
<1> USE DEF idpVars
<1>a. Owner \cup {"locking"} = {"atIdp", "saving", "failing", "locking"}
  BY DEF Owner
<1>1. CASE DeleteRow(r) /\ seen[r] # NoRow
  <2>1. row' \in SessionRow \cup {NoRow} /\ past' \subseteq SessionRow \cup {NoRow}
    BY <1>1, StoreType DEF DeleteRow
  <2>2. "revoking" \in Place
    BY DEF Place
  <2>3. /\ pc' \in [Requests -> Place] /\ pc'[r] = "revoking"
        /\ \A q \in Requests \ {r} : pc'[q] = pc[q]
        /\ kind' = kind /\ home' = home /\ answer' = answer
    BY <1>1, <2>2, GotoEffect DEF DeleteRow
  <2>4. UNCHANGED <<now, accepted, issued, inFlight, seen, mine, excuse>>
    BY <1>1 DEF DeleteRow
  <2>5. TypeOK'
    BY <2>1, <2>3, <2>4 DEF TypeOK
  <2>6. seen[r] \in SessionRow
    BY <1>1 DEF TypeOK
  <2>7. RowsInv'
    BY <1>a, <2>3, <2>4, <2>6 DEF RowsInv
  <2>8. QED
    BY <2>5, <2>7
<1>2. CASE \/ DeleteRow(r) /\ seen[r] = NoRow
           \/ DeleteFails(r)
           \/ \E revoked \in BOOLEAN : Revoke(r, revoked)
  <2>1. Finish(r, "signedOut") /\ "signedOut" \in Answer
    BY <1>2 DEF DeleteRow, DeleteFails, Revoke, Answer
  <2>2. row' \in SessionRow \cup {NoRow} /\ past' \subseteq SessionRow \cup {NoRow}
    BY <1>2, StoreType DEF DeleteRow, DeleteFails, Revoke
  <2>3. UNCHANGED <<now, issued, excuse>> /\ accepted' \subseteq accepted
    BY <1>2 DEF DeleteRow, DeleteFails, Revoke
  <2>4. accepted' \subseteq 1..issued'
    BY <2>3 DEF TypeOK
  <2>5. TypeOK'
    BY <2>1, <2>2, <2>3, <2>4, FinishEffect DEF TypeOK
  <2>6. RowsInv'
    BY <1>a, <2>1, FinishEffect DEF RowsInv
  <2>7. QED
    BY <2>5, <2>6
<1>3. QED
  BY <1>1, <1>2 DEF SignsOut

\* So does every other step of a request.
LEMMA DecisionType ==
    ASSUME TypeOK, RowsInv, NEW r \in Requests,
           \/ \E got \in Readable : Start(r, got) \/ Poll(r, got)
           \/ Reject(r) \/ Accept(r) \/ GiveUp(r) \/ GetThrows(r)
           \/ Join(r) \/ Wait(r) \/ SendLock(r)
    PROVE  TypeOK' /\ RowsInv'
<1> USE DEF idpVars, storeVars
<1>a. Owner \cup {"locking"} = {"atIdp", "saving", "failing", "locking"}
  BY DEF Owner
<1>1. ASSUME NEW got \in Readable, Start(r, got)
      PROVE  TypeOK' /\ RowsInv'
  <2>1. /\ seen' \in [Requests -> SessionRow \cup {NoRow}]
        /\ \A q \in Requests \ {r} : seen'[q] = seen[q]
    BY <1>1, ReadableType DEF Start, TypeOK
  <2>2. "deleting" \in Place /\ "deciding" \in Place
    BY DEF Place
  <2>3. /\ pc' \in [Requests -> Place] /\ pc'[r] \in {"deleting", "deciding"}
        /\ \A q \in Requests \ {r} : pc'[q] = pc[q]
        /\ kind' = kind /\ home' = home /\ answer' = answer
    BY <1>1, <2>2, GotoEffect DEF Start
  <2>4. UNCHANGED <<row, past, now, accepted, issued, inFlight, mine, excuse>>
    BY <1>1 DEF Start, TypeOK
  <2>5. TypeOK'
    BY <2>1, <2>3, <2>4 DEF TypeOK
  <2>6. RowsInv'
    BY <1>a, <2>1, <2>3, <2>4 DEF RowsInv
  <2>7. QED
    BY <2>5, <2>6
<1>2. CASE \/ \E got \in Readable : Poll(r, got)
           \/ Reject(r) \/ Accept(r) \/ GiveUp(r) \/ GetThrows(r)
  <2>1. \E a \in Answer : Finish(r, a)
    BY <1>2 DEF Poll, Reject, Accept, GiveUp, GetThrows, Admit, Deny, Answer
  <2>2. UNCHANGED <<row, past, now, accepted, issued, excuse>>
    BY <1>2 DEF Poll, Reject, Accept, GiveUp, GetThrows
  <2>3. TypeOK'
    BY <2>1, <2>2, FinishEffect DEF TypeOK
  <2>4. RowsInv'
    BY <1>a, <2>1, FinishEffect DEF RowsInv
  <2>5. QED
    BY <2>3, <2>4
<1>3. CASE Join(r) \/ Wait(r) \/ SendLock(r)
  <2>1. seen[r] \in SessionRow
    BY <1>3 DEF Join, Wait, SendLock, MustRefresh, Live, TypeOK
  <2>2. "joined" \in Place /\ "waiting" \in Place /\ "locking" \in Place
    BY DEF Place
  <2>3. /\ pc' \in [Requests -> Place] /\ pc'[r] \in {"joined", "waiting", "locking"}
        /\ \A q \in Requests \ {r} : pc'[q] = pc[q]
        /\ kind' = kind /\ home' = home /\ answer' = answer
    BY <1>3, <2>2, GotoEffect DEF Join, Wait, SendLock
  <2>4. /\ seen' \in [Requests -> SessionRow \cup {NoRow}]
        /\ mine' \in [Requests -> SessionRow \cup {NoRow}]
        /\ pc'[r] # "joined" => seen'[r] \in SessionRow
        /\ pc'[r] = "locking" => mine'[r] \in SessionRow
        /\ \A q \in Requests \ {r} : seen'[q] = seen[q] /\ mine'[q] = mine[q]
    <3>1. CASE Join(r)
      BY <3>1, GotoEffect, <2>2 DEF Join, TypeOK
    <3>2. CASE Wait(r)
      BY <3>2, <2>1, GotoEffect, <2>2 DEF Wait, TypeOK
    <3>3. CASE SendLock(r)
      BY <3>3, <2>1, LockType DEF SendLock, TypeOK
    <3>4. QED
      BY <1>3, <3>1, <3>2, <3>3
  <2>5. inFlight' \in [Containers -> Requests \cup {NoRequest}]
    BY <1>3 DEF Join, Wait, SendLock, TypeOK
  <2>6. UNCHANGED <<row, past, now, accepted, issued, excuse>>
    BY <1>3 DEF Join, Wait, SendLock
  <2>7. TypeOK'
    BY <2>3, <2>4, <2>5, <2>6 DEF TypeOK
  <2>8. RowsInv'
    BY <1>a, <2>3, <2>4 DEF RowsInv
  <2>9. QED
    BY <2>7, <2>8
<1>4. QED
  BY <1>1, <1>2, <1>3

\* A crash ends the requests of one container.
LEMMA CrashEffect ==
    ASSUME TypeOK, NEW c \in Containers, Crash(c)
    PROVE  \A q \in Requests :
              \/ pc'[q] = "done"
              \/ pc'[q] = pc[q] /\ seen'[q] = seen[q] /\ mine'[q] = mine[q]
<1> DEFINE dead == {r \in Requests : home[r] = c /\ pc[r] \notin {"idle", "done"}}
<1>1. /\ pc' = [r \in Requests |-> IF r \in dead THEN "done" ELSE pc[r]]
      /\ seen' = [r \in Requests |-> IF r \in dead THEN NoRow ELSE seen[r]]
      /\ mine' = [r \in Requests |-> IF r \in dead THEN NoRow ELSE mine[r]]
  BY DEF Crash
<1> HIDE DEF dead
<1>2. QED
  BY <1>1

\* Every step keeps the types.
LEMMA TypeStep == TypeOK /\ RowsInv /\ [Next]_vars => TypeOK' /\ RowsInv'
<1> SUFFICES ASSUME TypeOK, RowsInv, [Next]_vars PROVE TypeOK' /\ RowsInv'
  OBVIOUS
<1>1. CASE \E r \in Requests : (\E got \in Readable : Start(r, got)) \/ RequestStep(r)
  BY <1>1, RefreshesType, SignsOutType, DecisionType DEF RequestStep, Proceeds, Readable
<1>2. ASSUME NEW c \in Containers, Crash(c)
      PROVE  TypeOK' /\ RowsInv'
  <2>1. /\ pc' \in [Requests -> Place] /\ answer' \in [Requests -> Answer]
        /\ seen' \in [Requests -> SessionRow \cup {NoRow}]
        /\ mine' \in [Requests -> SessionRow \cup {NoRow}]
        /\ inFlight' \in [Containers -> Requests \cup {NoRequest}]
    BY <1>2 DEF Crash, TypeOK, Place, Answer
  <2>2. UNCHANGED <<row, past, now, accepted, issued, kind, home, excuse>>
    BY <1>2 DEF Crash, storeVars, idpVars
  <2>3. TypeOK'
    BY <2>1, <2>2 DEF TypeOK
  <2>4. \A q \in Requests :
           \/ pc'[q] = "done"
           \/ pc'[q] = pc[q] /\ seen'[q] = seen[q] /\ mine'[q] = mine[q]
    BY <1>2, CrashEffect
  <2>5. RowsInv'
    BY <2>4 DEF RowsInv, Owner
  <2>6. QED
    BY <2>3, <2>5
<1>3. CASE Tick
  <2>1. now' \in Nat
    BY <1>3 DEF Tick, TypeOK
  <2>2. UNCHANGED <<row, past, accepted, issued, inFlight, pc, kind, home, seen, mine, answer, excuse>>
    BY <1>3 DEF Tick, storeVars, idpVars
  <2>3. QED
    BY <2>1, <2>2 DEF TypeOK, RowsInv
<1>4. CASE UNCHANGED vars
  BY <1>4 DEF vars, TypeOK, RowsInv
<1>5. QED
  BY <1>1, <1>2, <1>3, <1>4 DEF Next

\* Every reachable state is well typed, and no request acts on a missing row
\* (SessionManager's rows and refreshInFlight).
THEOREM TypeCorrect == Spec => []TypeOK
<1>1. Spec => [](TypeOK /\ RowsInv)
  BY TypeInit, TypeStep, PTL DEF Spec
<1>2. QED
  BY <1>1, PTL

-------------------------------------------------------------------------------
(* A deleted session stays deleted.                                        *)

\* The only step that stores something is a swap over the row a request acts on,
\* or a delete.
LEMMA RowStep ==
    ASSUME TypeOK, RowsInv, [Next]_vars
    PROVE  \/ row' = row
           \/ row' = NoRow
           \/ \E r \in Requests :
                 /\ pc[r] \in {"locking", "saving", "failing"}
                 /\ seen[r] \in SessionRow /\ mine[r] \in SessionRow
                 /\ row = seen[r] /\ row' = mine[r]
                 /\ pc[r] # "locking" => pc'[r] \notin Owner
                 /\ pc[r] = "locking" => pc'[r] \in {"atIdp", "rereading"}
<1> DEFINE Swaps(r) ==
      /\ pc[r] \in {"locking", "saving", "failing"}
      /\ row = seen[r] /\ row' = mine[r]
      /\ pc[r] # "locking" => pc'[r] \notin Owner
      /\ pc[r] = "locking" => pc'[r] \in {"atIdp", "rereading"}
<1>1. ASSUME NEW r \in Requests, Refreshes(r)
      PROVE  row' = row \/ Swaps(r)
  <2>1. CASE Lock(r) \/ LockFails(r)
    <3>1. pc'[r] \in {"atIdp", "rereading"} /\ pc[r] = "locking"
      BY <2>1 DEF Lock, LockFails, Goto, TypeOK
    <3>2. row' = row \/ (row = seen[r] /\ row' = mine[r])
      BY <2>1 DEF Lock, LockFails, Swap, SwapFails, Store, storeVars
    <3>3. QED
      BY <3>1, <3>2
  <2>2. CASE Save(r) \/ MarkExpired(r)
    <3>1. pc'[r] = "done" /\ pc[r] \in {"saving", "failing"}
      <4>1. \E a \in Answer : Finish(r, a)
        BY <2>2 DEF Save, MarkExpired, Admit, Deny, Answer
      <4>2. QED
        BY <2>2, <4>1, FinishEffect DEF Save, MarkExpired
    <3>2. row' = row \/ (row = seen[r] /\ row' = mine[r])
      BY <2>2 DEF Save, MarkExpired, Swap, SwapFails, Store, storeVars
    <3>3. QED
      BY <3>1, <3>2 DEF Owner
  <2>3. CASE SaveFails(r)
    <3>1. pc'[r] = "rereading" /\ pc[r] = "saving"
      BY <2>3 DEF SaveFails, Goto, TypeOK
    <3>2. row' = row \/ (row = seen[r] /\ row' = mine[r])
      BY <2>3 DEF SaveFails, Swap, SwapFails, Store, storeVars
    <3>3. QED
      BY <3>1, <3>2 DEF Owner
  <2>4. CASE \/ \E rotated \in BOOLEAN : Grant(r, rotated)
             \/ \E spent \in BOOLEAN : Refuse(r, spent)
             \/ \E got \in Readable : Reread(r, got)
    BY <2>4 DEF Grant, Refuse, Reread, storeVars
  <2>5. QED
    BY <1>1, <2>1, <2>2, <2>3, <2>4 DEF Refreshes
<1>2. ASSUME NEW r \in Requests, SignsOut(r)
      PROVE  row' = row \/ row' = NoRow
  BY <1>2 DEF SignsOut, DeleteRow, DeleteFails, Revoke, Store, storeVars
<1>3. ASSUME NEW r \in Requests, NEW got \in Readable,
             \/ Start(r, got) \/ Poll(r, got)
             \/ Reject(r) \/ Accept(r) \/ GiveUp(r) \/ GetThrows(r)
             \/ Join(r) \/ Wait(r) \/ SendLock(r)
      PROVE  row' = row
  BY <1>3 DEF Start, Poll, Reject, Accept, GiveUp, GetThrows, Join, Wait, SendLock, storeVars
<1>4. row \in Readable
  BY DEF Readable
<1>5. CASE \/ \E c \in Containers : Crash(c)
           \/ Tick
           \/ UNCHANGED vars
  BY <1>5 DEF Crash, Tick, vars, storeVars
<1>6. CASE \E r \in Requests : (\E got \in Readable : Start(r, got)) \/ RequestStep(r)
  <2>1. PICK r \in Requests : (\E got \in Readable : Start(r, got)) \/ RequestStep(r)
    BY <1>6
  <2>2. row' = row \/ row' = NoRow \/ Swaps(r)
    BY <2>1, <1>1, <1>2, <1>3, <1>4 DEF RequestStep, Proceeds, Readable
  <2>3. Swaps(r) => seen[r] \in SessionRow /\ mine[r] \in SessionRow
    BY DEF RowsInv, Owner
  <2>4. QED
    BY <2>2, <2>3
<1>7. QED
  BY <1>5, <1>6 DEF Next

\* Once sign-out has deleted the row no refresh brings it back, whatever the
\* store, the provider and the containers do (signOutSession against _doRefresh).
THEOREM NeverResurrected == Spec => NoResurrection
<1>1. TypeOK /\ RowsInv /\ [Next]_vars => [row = NoRow => row' = NoRow]_vars
  BY RowStep, NoRowAssumption
<1>2. Spec => [](TypeOK /\ RowsInv)
  BY TypeInit, TypeStep, PTL DEF Spec
<1>3. QED
  BY <1>1, <1>2, PTL DEF Spec, NoResurrection

-------------------------------------------------------------------------------
(* One refresh at a time.                                                  *)

\* A step of one request ends the others or leaves them alone.
LEMMA OthersStay ==
    ASSUME TypeOK, NEW r \in Requests,
           (\E got \in Readable : Start(r, got)) \/ RequestStep(r)
    PROVE  /\ kind' = kind /\ now' = now
           /\ \A q \in Requests \ {r} :
                 \/ pc'[q] = "done"
                 \/ pc'[q] = pc[q] /\ seen'[q] = seen[q] /\ mine'[q] = mine[q]
<1> USE DEF idpVars, storeVars
<1>1. CASE \E a \in Answer : Finish(r, a)
  <2>1. now' = now
    BY <1>1 DEF Start, RequestStep, Proceeds, Readable, Refreshes, SignsOut, Reject, Accept, Join, Wait, SendLock,
       Lock, LockFails, Grant, Refuse, Save, SaveFails, MarkExpired, Reread, GetThrows, GiveUp,
       Poll, DeleteRow, DeleteFails, Revoke
  <2>2. QED
    BY <1>1, <2>1, FinishEffect
<1>2. CASE \/ \E got \in Readable : Start(r, got)
           \/ Join(r) \/ Wait(r) \/ SendLock(r)
           \/ Lock(r) \/ LockFails(r) \/ SaveFails(r)
           \/ \E rotated \in BOOLEAN : Grant(r, rotated)
           \/ \E spent \in BOOLEAN : Refuse(r, spent)
           \/ DeleteRow(r) /\ seen[r] # NoRow
  BY <1>2 DEF Start, Join, Wait, SendLock, Lock, LockFails, SaveFails, Grant, Refuse, DeleteRow,
     Goto, TypeOK
<1>3. CASE \/ Reject(r) \/ Accept(r) \/ Save(r) \/ MarkExpired(r)
           \/ \E got \in Readable : Reread(r, got) \/ Poll(r, got)
           \/ GetThrows(r) \/ GiveUp(r) \/ DeleteFails(r)
           \/ \E revoked \in BOOLEAN : Revoke(r, revoked)
           \/ DeleteRow(r) /\ seen[r] = NoRow
  BY <1>1, <1>3 DEF Reject, Accept, Save, MarkExpired, Reread, Poll, GetThrows, GiveUp,
     DeleteFails, Revoke, DeleteRow, Admit, Deny, Answer
<1>4. QED
  BY <1>2, <1>3 DEF RequestStep, Proceeds, Readable, Refreshes, SignsOut

\* How a request comes to want the lock, takes it and goes on with it.
LEMMA OwnerStep ==
    ASSUME TypeOK, [Next]_vars, NEW q \in Requests
    PROVE  \/ pc'[q] \notin Owner \cup {"locking", "deciding"}
           \/ pc'[q] = pc[q] /\ seen'[q] = seen[q] /\ mine'[q] = mine[q]
           \/ \E got \in Readable : Start(q, got)
           \/ SendLock(q) \/ Lock(q)
           \/ \E rotated \in BOOLEAN : Grant(q, rotated)
           \/ \E spent \in BOOLEAN : Refuse(q, spent)
<1>a. Owner \cup {"locking", "deciding"} = {"atIdp", "saving", "failing", "locking", "deciding"}
  BY DEF Owner
<1>1. ASSUME NEW r \in Requests, r # q, (\E got \in Readable : Start(r, got)) \/ RequestStep(r)
      PROVE  \/ pc'[q] \notin Owner \cup {"locking", "deciding"}
             \/ pc'[q] = pc[q] /\ seen'[q] = seen[q] /\ mine'[q] = mine[q]
  BY <1>1, <1>a, OthersStay
<1>2. ASSUME RequestStep(q)
      PROVE  \/ pc'[q] \notin Owner \cup {"locking", "deciding"}
             \/ SendLock(q) \/ Lock(q)
             \/ \E rotated \in BOOLEAN : Grant(q, rotated)
             \/ \E spent \in BOOLEAN : Refuse(q, spent)
  <2>1. CASE \E a \in Answer : Finish(q, a)
    BY <1>a, <2>1, FinishEffect
  <2>2. CASE \/ Join(q) \/ Wait(q) \/ LockFails(q) \/ SaveFails(q)
             \/ DeleteRow(q) /\ seen[q] # NoRow
    BY <1>a, <2>2 DEF Join, Wait, LockFails, SaveFails, DeleteRow, Goto, TypeOK
  <2>3. CASE \/ Reject(q) \/ Accept(q) \/ Save(q) \/ MarkExpired(q)
             \/ \E got \in Readable : Reread(q, got) \/ Poll(q, got)
             \/ GetThrows(q) \/ GiveUp(q) \/ DeleteFails(q)
             \/ \E revoked \in BOOLEAN : Revoke(q, revoked)
             \/ DeleteRow(q) /\ seen[q] = NoRow
    BY <2>1, <2>3 DEF Reject, Accept, Save, MarkExpired, Reread, Poll, GetThrows, GiveUp,
       DeleteFails, Revoke, DeleteRow, Admit, Deny, Answer
  <2>4. QED
    BY <1>2, <2>2, <2>3 DEF RequestStep, Proceeds, Readable, Refreshes, SignsOut
<1>3. ASSUME NEW c \in Containers, Crash(c)
      PROVE  \/ pc'[q] \notin Owner \cup {"locking", "deciding"}
             \/ pc'[q] = pc[q] /\ seen'[q] = seen[q] /\ mine'[q] = mine[q]
  BY <1>3, <1>a, CrashEffect
<1>4. CASE Tick \/ UNCHANGED vars
  BY <1>4 DEF Tick, vars
<1>5. QED
  BY <1>1, <1>2, <1>3, <1>4 DEF Next

\* Nobody changes what a request asks for, and time does not run back.
LEMMA ClockStep ==
    ASSUME TypeOK, [Next]_vars
    PROVE  kind' = kind /\ now' \in Nat /\ now <= now'
<1>1. CASE \E r \in Requests : (\E got \in Readable : Start(r, got)) \/ RequestStep(r)
  BY <1>1, OthersStay DEF TypeOK
<1>2. CASE \E c \in Containers : Crash(c)
  BY <1>2 DEF Crash, TypeOK
<1>3. CASE Tick \/ UNCHANGED vars
  BY <1>3 DEF Tick, vars, TypeOK
<1>4. QED
  BY <1>1, <1>2, <1>3 DEF Next

\* What a swap stores is further on than every lock at or behind the row it replaces.
LEMMA SwapForward ==
    ASSUME LockInv, NEW r \in Requests,
           pc[r] \in {"locking", "saving", "failing"},
           seen[r] \in SessionRow, mine[r] \in SessionRow, row = seen[r],
           NEW a \in SessionRow, IsLock(a), Behind(a, row)
    PROVE  Behind(a, mine[r]) /\ a # mine[r]
<1>1. /\ a.state = "refreshing" /\ a.expiresAt \in Nat /\ a.since \in Nat
      /\ seen[r].expiresAt \in Nat /\ seen[r].since \in Nat
      /\ mine[r].expiresAt \in Nat /\ mine[r].since \in Nat
      /\ STALE \in Nat \ {0}
  BY SessionAssumption DEF SessionRow, IsLock
<1>2. CASE pc[r] = "locking"
  <2>1. /\ seen[r].state \in {"ready", "refreshing"}
        /\ mine[r].state = "refreshing" /\ mine[r].expiresAt = seen[r].expiresAt
        /\ seen[r].state = "refreshing" => seen[r].since + STALE <= mine[r].since
    BY <1>2 DEF LockInv, OrderInv, IsLock, SessionRow
  <2>2. \/ a.expiresAt < seen[r].expiresAt
        \/ a.expiresAt = seen[r].expiresAt /\ Stage(a) <= Stage(seen[r])
    BY <2>1, NoRowAssumption DEF Behind
  <2>3. CASE a.expiresAt < seen[r].expiresAt
    BY <1>1, <2>1, <2>3 DEF Behind
  <2>4. CASE a.expiresAt = seen[r].expiresAt /\ Stage(a) <= Stage(seen[r])
    <3>1. seen[r].state = "refreshing"
      BY <1>1, <2>1, <2>4 DEF Stage
    <3>2. a.since < mine[r].since
      BY <1>1, <2>1, <2>4, <3>1 DEF Stage
    <3>3. Stage(a) <= Stage(mine[r]) /\ a # mine[r]
      BY <1>1, <2>1, <3>2 DEF Stage
    <3>4. QED
      BY <2>1, <2>4, <3>3 DEF Behind
  <2>5. QED
    BY <2>2, <2>3, <2>4
<1>3. CASE pc[r] = "saving"
  <2>1. /\ seen[r].state = "refreshing" /\ mine[r].state = "ready"
        /\ mine[r].expiresAt > seen[r].expiresAt
    BY <1>3 DEF LockInv, OrderInv, IsLock, HeldRow, Owner
  <2>2. a.expiresAt <= seen[r].expiresAt
    BY <1>1, <2>1, NoRowAssumption DEF Behind
  <2>3. a.expiresAt < mine[r].expiresAt
    BY <1>1, <2>1, <2>2
  <2>4. QED
    BY <1>1, <2>1, <2>3 DEF Behind
<1>4. CASE pc[r] = "failing"
  BY <1>1, <1>4 DEF LockInv, OrderInv, Behind
<1>5. QED
  BY <1>2, <1>3, <1>4

\* So a lock once replaced does not return.
LEMMA RowForward ==
    ASSUME LockInv, [Next]_vars, NEW a \in SessionRow, IsLock(a), Behind(a, row)
    PROVE  Behind(a, row') /\ (row' = row \/ a # row')
<1>1. TypeOK /\ RowsInv
  BY DEF LockInv
<1>2. CASE row' = row
  BY <1>2
<1>3. CASE row' = NoRow
  BY <1>3, NoRowAssumption DEF Behind
<1>4. CASE \E r \in Requests :
              /\ pc[r] \in {"locking", "saving", "failing"}
              /\ seen[r] \in SessionRow /\ mine[r] \in SessionRow
              /\ row = seen[r] /\ row' = mine[r]
  BY <1>4, SwapForward
<1>5. QED
  BY <1>1, <1>2, <1>3, <1>4, RowStep

\* The lock that a request is about to send, or sends on, is in order.
LEMMA OrderStep == LockInv /\ [Next]_vars => OrderInv'
<1> SUFFICES ASSUME LockInv, [Next]_vars, NEW q \in Requests
             PROVE  /\ pc'[q] = "deciding" => kind'[q] # "signOut"
                    /\ pc'[q] = "locking" =>
                          /\ seen'[q].state # "expired"
                          /\ IsLock(mine[q])'
                          /\ mine'[q].expiresAt = seen'[q].expiresAt
                          /\ seen'[q].state = "refreshing" =>
                                seen'[q].since + STALE <= mine'[q].since
                    /\ pc'[q] \in Owner => IsLock(HeldRow(q))' /\ Behind(HeldRow(q), row)'
                    /\ pc'[q] = "saving" =>
                          mine'[q].state = "ready" /\ mine'[q].expiresAt > seen'[q].expiresAt
                    /\ pc'[q] = "failing" => mine'[q].state = "expired"
  BY DEF OrderInv
<1>a. Owner = {"atIdp", "saving", "failing"}
  BY DEF Owner
<1>b. /\ TypeOK /\ RowsInv /\ Unforced /\ OrderInv
      /\ kind' = kind /\ now \in Nat /\ now' \in Nat /\ now <= now'
      /\ STALE \in Nat \ {0} /\ LIFETIME \in Nat \ {0}
  BY ClockStep, SessionAssumption DEF LockInv, TypeOK
<1>c. ASSUME NEW v \in SessionRow, IsLock(v)
      PROVE  v.state = "refreshing" /\ v.expiresAt <= v.since /\ v.since <= now'
  BY <1>b, <1>c DEF IsLock, SessionRow
<1>1. CASE pc'[q] \notin Owner \cup {"locking", "deciding"}
  BY <1>1, <1>a
<1>2. CASE pc'[q] = pc[q] /\ seen'[q] = seen[q] /\ mine'[q] = mine[q]
  <2>1. pc[q] \in Owner => HeldRow(q) \in SessionRow
    BY <1>a, <1>b DEF RowsInv, HeldRow
  <2>2. pc[q] \in Owner => IsLock(HeldRow(q)) /\ Behind(HeldRow(q), row)
    BY <1>b DEF OrderInv
  <2>3. HeldRow(q)' = HeldRow(q)
    BY <1>2 DEF HeldRow
  <2>4. pc'[q] \in Owner => IsLock(HeldRow(q))' /\ Behind(HeldRow(q), row)'
    BY <1>2, <1>c, <2>1, <2>2, <2>3, RowForward DEF IsLock, Behind, Stage
  <2>5. pc[q] = "locking" => IsLock(mine[q]) /\ mine[q] \in SessionRow
    BY <1>b DEF OrderInv, RowsInv
  <2>6. pc'[q] = "locking" => IsLock(mine[q])'
    BY <1>2, <1>c, <2>5 DEF IsLock
  <2>7. QED
    BY <1>2, <1>b, <2>4, <2>6 DEF OrderInv
<1>3. CASE \E got \in Readable : Start(q, got)
  <2>1. pc'[q] = IF kind[q] = "signOut" THEN "deleting" ELSE "deciding"
    BY <1>3, <1>b DEF Start, Goto, TypeOK
  <2>2. QED
    BY <1>a, <1>b, <2>1
<1>4. CASE SendLock(q)
  <2>1. /\ pc'[q] = "locking" /\ seen'[q] = seen[q]
        /\ mine'[q] = [seen[q] EXCEPT !.state = "refreshing", !.since = now]
    BY <1>4, <1>b DEF SendLock, Goto, TypeOK
  <2>2. kind[q] = "verify"
    BY <1>4, <1>b DEF SendLock, MustRefresh, OrderInv, Unforced, RequestKind, TypeOK
  <2>3. /\ seen[q] \in SessionRow /\ seen[q].state # "expired"
        /\ seen[q].expiresAt <= now
        /\ seen[q].state = "refreshing" => seen[q].since + STALE <= now
    BY <1>4, <1>b, <2>2 DEF SendLock, MustRefresh, Live, Held, TypeOK, SessionRow
  <2>4. /\ mine'[q].state = "refreshing" /\ mine'[q].since = now
        /\ mine'[q].expiresAt = seen[q].expiresAt
    BY <2>1, <2>3 DEF SessionRow
  <2>5. QED
    BY <1>a, <1>b, <2>1, <2>3, <2>4 DEF IsLock
<1>5. CASE Lock(q)
  <2>1. /\ pc[q] = "locking" /\ pc'[q] = "atIdp" /\ mine'[q] = mine[q] /\ row' = mine[q]
    BY <1>5, <1>b DEF Lock, Goto, Swap, Store, TypeOK
  <2>2. mine[q] \in SessionRow /\ IsLock(mine[q])
    BY <1>b, <2>1 DEF OrderInv, RowsInv
  <2>3. IsLock(mine[q])' /\ Behind(mine[q], row)'
    BY <1>c, <2>1, <2>2 DEF IsLock, Behind, Stage, SessionRow
  <2>4. QED
    BY <1>a, <2>1, <2>3 DEF HeldRow
<1>6. CASE \/ \E rotated \in BOOLEAN : Grant(q, rotated)
           \/ \E spent \in BOOLEAN : Refuse(q, spent)
  <2>1. /\ pc[q] = "atIdp" /\ pc'[q] \in {"saving", "failing"}
        /\ seen'[q] = mine[q] /\ row' = row
    BY <1>6, <1>b DEF Grant, Refuse, Goto, TypeOK, storeVars
  <2>2. /\ mine[q] \in SessionRow /\ IsLock(mine[q]) /\ Behind(mine[q], row)
        /\ mine[q].expiresAt \in Nat /\ mine[q].since \in Nat
    BY <1>a, <1>b, <2>1 DEF OrderInv, RowsInv, HeldRow, SessionRow
  <2>3. IsLock(HeldRow(q))' /\ Behind(HeldRow(q), row)'
    BY <1>c, <2>1, <2>2 DEF HeldRow, IsLock, Behind, Stage
  <2>4. pc'[q] = "saving" => mine'[q].state = "ready" /\ mine'[q].expiresAt = now + LIFETIME
    BY <1>6, <1>b, <2>1 DEF Grant, Refuse, Goto, Saved, TypeOK
  <2>5. mine[q].expiresAt < now + LIFETIME
    BY <1>b, <2>2 DEF IsLock
  <2>6. pc'[q] = "failing" => mine'[q].state = "expired"
    <3>1. ASSUME NEW spent \in BOOLEAN, Refuse(q, spent)
          PROVE  mine'[q] = [mine[q] EXCEPT !.state = "expired", !.since = 0]
      BY <3>1, <1>b DEF Refuse, TypeOK
    <3>2. ASSUME NEW rotated \in BOOLEAN, Grant(q, rotated)
          PROVE  pc'[q] = "saving"
      BY <3>2, <1>b DEF Grant, Goto, TypeOK
    <3>3. [mine[q] EXCEPT !.state = "expired", !.since = 0].state = "expired"
      BY <2>2 DEF SessionRow
    <3>4. QED
      BY <1>6, <3>1, <3>2, <3>3
  <2>7. QED
    BY <1>a, <2>1, <2>3, <2>4, <2>5, <2>6
<1>7. QED
  BY <1>1, <1>2, <1>3, <1>4, <1>5, <1>6, <1>b, OwnerStep

\* A lock that is put differs from the row it replaces.
LEMMA LockMoves ==
    ASSUME LockInv, NEW q \in Requests, Lock(q)
    PROVE  /\ row' = mine[q] /\ row' # row
           /\ pc[q] = "locking" /\ pc' = [pc EXCEPT ![q] = "atIdp"]
           /\ seen[q] \in SessionRow /\ mine[q] \in SessionRow /\ row = seen[q]
           /\ UNCHANGED <<seen, mine, now>>
<1>1. /\ pc[q] = "locking" /\ row = seen[q] /\ row' = mine[q]
      /\ pc' = [pc EXCEPT ![q] = "atIdp"]
      /\ UNCHANGED <<seen, mine, now>>
  BY DEF Lock, Swap, Store, Goto
<1>2. seen[q] \in SessionRow /\ mine[q] \in SessionRow
  BY <1>1 DEF LockInv, RowsInv
<1>3. /\ mine[q].state = "refreshing"
      /\ seen[q].state = "refreshing" => seen[q].since + STALE <= mine[q].since
  BY <1>1 DEF LockInv, OrderInv, IsLock
<1>4. seen[q] # mine[q]
  BY <1>2, <1>3, SessionAssumption DEF SessionRow
<1>5. QED
  BY <1>1, <1>2, <1>4

\* An owner after a step owned the same lock before it, or has just put it.
LEMMA OwnerBefore ==
    ASSUME TypeOK, [Next]_vars, NEW q \in Requests, pc'[q] \in Owner
    PROVE  \/ Lock(q)
           \/ pc[q] \in Owner /\ HeldRow(q)' = HeldRow(q)
<1>a. Owner = {"atIdp", "saving", "failing"}
  BY DEF Owner
<1>b. TypeOK
  OBVIOUS
<1>1. CASE pc'[q] = pc[q] /\ seen'[q] = seen[q] /\ mine'[q] = mine[q]
  BY <1>1 DEF HeldRow
<1>2. CASE \/ \E got \in Readable : Start(q, got)
           \/ SendLock(q)
  BY <1>2, <1>a, <1>b DEF Start, SendLock, Goto, TypeOK
<1>3. CASE \/ \E rotated \in BOOLEAN : Grant(q, rotated)
           \/ \E spent \in BOOLEAN : Refuse(q, spent)
  <2>1. /\ pc[q] = "atIdp" /\ pc'[q] \in {"saving", "failing"}
        /\ seen'[q] = mine[q]
    BY <1>3, <1>b DEF Grant, Refuse, Goto, TypeOK
  <2>2. QED
    BY <1>a, <2>1 DEF HeldRow
<1>4. QED
  BY <1>1, <1>2, <1>3, <1>a, <1>b, OwnerStep

\* A request at the token endpoint was there with the same lock, or has just put it.
LEMMA IdpBefore ==
    ASSUME LockInv, [Next]_vars, NEW q \in Requests, pc'[q] = "atIdp"
    PROVE  \/ Lock(q)
           \/ pc[q] = "atIdp" /\ mine'[q] = mine[q]
<1>1. TypeOK
  BY DEF LockInv
<1>2. CASE \/ \E got \in Readable : Start(q, got)
           \/ SendLock(q)
           \/ \E rotated \in BOOLEAN : Grant(q, rotated)
           \/ \E spent \in BOOLEAN : Refuse(q, spent)
  BY <1>2, <1>1 DEF Start, SendLock, Grant, Refuse, Goto, TypeOK
<1>3. QED
  BY <1>1, <1>2, OwnerStep DEF Owner

\* Nobody comes to share the stored lock.
LEMMA HolderStep == LockInv /\ [Next]_vars => OneHolder'
<1> SUFFICES ASSUME LockInv, [Next]_vars, NEW q \in Requests, NEW r \in Requests,
                    pc'[q] \in Owner, pc'[r] \in Owner,
                    HeldRow(q)' = row', HeldRow(r)' = row'
             PROVE  q = r
  BY DEF OneHolder
<1>a. ASSUME NEW p \in Requests, pc[p] \in Owner
      PROVE  HeldRow(p) \in SessionRow /\ IsLock(HeldRow(p)) /\ Behind(HeldRow(p), row)
  BY <1>a DEF LockInv, RowsInv, OrderInv, HeldRow, Owner
<1>1. CASE row' = row
  <2>1. ~Lock(q) /\ ~Lock(r)
    BY <1>1, LockMoves
  <2>2. QED
    BY <1>1, <2>1, OwnerBefore DEF LockInv, OneHolder
<1>2. CASE row' # row
  <2>1. ASSUME NEW p \in Requests, pc'[p] \in Owner, HeldRow(p)' = row'
        PROVE  Lock(p)
    <3>1. CASE pc[p] \in Owner /\ HeldRow(p)' = HeldRow(p)
      BY <1>2, <1>a, <2>1, <3>1, RowForward
    <3>2. QED
      BY <2>1, <3>1, OwnerBefore DEF LockInv
  <2>2. Lock(q) /\ Lock(r)
    BY <2>1
  <2>3. pc[r] = "locking" /\ pc' = [pc EXCEPT ![q] = "atIdp"]
    BY <2>2, LockMoves
  <2>4. pc'[r] # "locking"
    BY DEF Owner
  <2>5. QED
    BY <2>3, <2>4 DEF LockInv, TypeOK
<1>3. QED
  BY <1>1, <1>2

\* A lock that is not stale stays in the store, or goes with the session.
LEMMA YoungStep == LockInv /\ [Next]_vars => YoungInv'
<1> SUFFICES ASSUME LockInv, [Next]_vars, NEW q \in Requests, pc'[q] = "atIdp"
             PROVE  row' \in {mine'[q], NoRow} \/ now' >= mine'[q].since + STALE
  BY DEF YoungInv
<1>b. TypeOK /\ RowsInv /\ now \in Nat /\ now' \in Nat /\ now <= now' /\ STALE \in Nat \ {0}
  BY ClockStep, SessionAssumption DEF LockInv, TypeOK
<1>1. CASE Lock(q)
  BY <1>1, LockMoves
<1>2. CASE pc[q] = "atIdp" /\ mine'[q] = mine[q]
  <2>1. mine[q] \in SessionRow /\ mine[q].since \in Nat
    BY <1>2, <1>b DEF RowsInv, Owner, SessionRow
  <2>2. row \in {mine[q], NoRow} \/ now >= mine[q].since + STALE
    BY <1>2 DEF LockInv, YoungInv
  <2>3. CASE now >= mine[q].since + STALE
    BY <1>2, <1>b, <2>1, <2>3
  <2>4. CASE row' \in {row, NoRow} /\ row \in {mine[q], NoRow}
    BY <1>2, <2>4
  <2>5. ASSUME NEW r \in Requests,
               pc[r] \in {"locking", "saving", "failing"},
               seen[r] \in SessionRow, mine[r] \in SessionRow, row = seen[r],
               row = mine[q]
        PROVE  now >= mine[q].since + STALE
    <3>1. mine[q].state = "refreshing"
      BY <1>2 DEF LockInv, OrderInv, HeldRow, IsLock, Owner
    <3>2. CASE pc[r] = "locking"
      <4>1. seen[r].since + STALE <= mine[r].since /\ mine[r].since <= now
        BY <2>5, <3>1, <3>2 DEF LockInv, OrderInv, IsLock
      <4>2. mine[r].since \in Nat
        BY <2>5 DEF SessionRow
      <4>3. QED
        BY <1>b, <2>1, <2>5, <4>1, <4>2
    <3>3. CASE pc[r] \in {"saving", "failing"}
      BY <1>2, <2>5, <3>3 DEF LockInv, OneHolder, HeldRow, Owner
    <3>4. QED
      BY <2>5, <3>2, <3>3
  <2>6. CASE row = NoRow
    BY <1>b, <2>4, <2>6, RowStep, NoRowAssumption
  <2>7. QED
    BY <1>b, <2>2, <2>3, <2>4, <2>5, <2>6, RowStep
<1>3. QED
  BY <1>1, <1>2, IdpBefore

\* A second request goes to the token endpoint only when the first one's lock is stale.
LEMMA RefreshStep == LockInv /\ [Next]_vars => OneRefreshAtATime'
<1> SUFFICES ASSUME LockInv, [Next]_vars, NEW q \in Requests, NEW r \in Requests,
                    pc'[q] = "atIdp", pc'[r] = "atIdp", q # r
             PROVE  \E x \in {q, r} : now' >= mine'[x].since + STALE
  BY DEF OneRefreshAtATime
<1>b. TypeOK /\ RowsInv /\ now \in Nat /\ now' \in Nat /\ now <= now' /\ STALE \in Nat \ {0}
  BY ClockStep, SessionAssumption DEF LockInv, TypeOK
<1>c. ASSUME NEW x \in Requests, pc[x] = "atIdp"
      PROVE  mine[x].since \in Nat /\ mine[x].state = "refreshing"
  BY <1>b, <1>c DEF RowsInv, Owner, SessionRow, LockInv, OrderInv, HeldRow, IsLock
<1>1. ASSUME NEW x \in Requests, NEW y \in Requests, x # y,
             Lock(x), pc'[y] = "atIdp"
      PROVE  now' >= mine'[y].since + STALE
  <2>1. /\ pc[x] = "locking" /\ pc' = [pc EXCEPT ![x] = "atIdp"]
        /\ seen[x] \in SessionRow /\ mine[x] \in SessionRow /\ row = seen[x]
        /\ UNCHANGED <<seen, mine, now>>
    BY <1>1, LockMoves
  <2>2. pc[y] = "atIdp"
    BY <1>1, <1>b, <2>1 DEF TypeOK
  <2>3. row = mine[y] \/ now >= mine[y].since + STALE
    BY <2>1, <2>2, NoRowAssumption DEF LockInv, YoungInv
  <2>4. CASE row = mine[y]
    <3>1. seen[x].since + STALE <= mine[x].since /\ mine[x].since <= now
      BY <1>c, <2>1, <2>2, <2>4 DEF LockInv, OrderInv, IsLock
    <3>2. mine[x].since \in Nat /\ seen[x].since \in Nat
      BY <2>1 DEF SessionRow
    <3>3. QED
      BY <1>b, <2>1, <2>4, <3>1, <3>2
  <2>5. QED
    BY <2>1, <2>3, <2>4
<1>2. CASE Lock(q) \/ Lock(r)
  BY <1>1, <1>2
<1>3. CASE /\ pc[q] = "atIdp" /\ mine'[q] = mine[q]
           /\ pc[r] = "atIdp" /\ mine'[r] = mine[r]
  <2>1. PICK x \in {q, r} : now >= mine[x].since + STALE
    BY <1>3 DEF LockInv, OneRefreshAtATime
  <2>2. mine[x].since \in Nat /\ mine'[x] = mine[x]
    BY <1>3, <1>c
  <2>3. now' >= mine'[x].since + STALE
    BY <1>b, <2>1, <2>2
  <2>4. QED
    BY <2>3
<1>4. QED
  BY <1>2, <1>3, IdpBefore

\* Without a forced refresh the session's lock is sound.
LEMMA LockCorrect == Spec => [](Unforced => LockInv)
<1>1. Init => (Unforced => LockInv)
  <2> SUFFICES ASSUME Init, Unforced PROVE LockInv
    OBVIOUS
  <2>1. TypeOK /\ RowsInv
    BY TypeInit
  <2>2. \A r \in Requests : pc[r] = "idle"
    BY DEF Init
  <2>3. OrderInv /\ OneHolder /\ YoungInv /\ OneRefreshAtATime
    BY <2>2 DEF OrderInv, OneHolder, YoungInv, OneRefreshAtATime, Owner
  <2>4. QED
    BY <2>1, <2>3 DEF LockInv
<1>2. TypeOK /\ RowsInv /\ (Unforced => LockInv) /\ [Next]_vars => (Unforced => LockInv)'
  <2> SUFFICES ASSUME TypeOK, RowsInv, Unforced => LockInv, [Next]_vars, Unforced'
               PROVE  LockInv'
    OBVIOUS
  <2>1. TypeOK' /\ RowsInv' /\ kind' = kind
    BY TypeStep, ClockStep
  <2>2. LockInv
    BY <2>1 DEF Unforced
  <2>3. QED
    BY <2>1, <2>2, OrderStep, HolderStep, YoungStep, RefreshStep DEF LockInv
<1>3. QED
  BY <1>1, <1>2, TypeInit, TypeStep, PTL DEF Spec

\* No two refreshes of a session believe in the stored lock, whatever is lost or
\* taken over, as long as nobody forces a refresh (_doRefresh: "We own the lock").
THEOREM LockHasOneHolder == Spec => []OneHolder
<1>1. (Unforced => LockInv) => OneHolder
  BY DEF LockInv, OneHolder
<1>2. QED
  BY <1>1, LockCorrect, PTL

\* Two refreshes are at the token endpoint together only when one has outlived
\* its lock, however many containers serve the session (_doRefresh).
THEOREM EndpointNotCrowded == Spec => [](Unforced => OneRefreshAtATime)
<1>1. (Unforced => LockInv) => (Unforced => OneRefreshAtATime)
  BY DEF LockInv
<1>2. QED
  BY <1>1, LockCorrect, PTL

-------------------------------------------------------------------------------
(* One refresh in a container.                                             *)

\* The promise of a registered refresh is forgotten when it settles, not before.
LEMMA FinishRegistered ==
    ASSUME TypeOK, RegisteredInv, NEW r \in Requests, NEW a \in Answer, Finish(r, a)
    PROVE  RegisteredInv'
<1> SUFFICES ASSUME NEW q \in Requests, pc'[q] \in Busy PROVE inFlight'[home'[q]] = q
  BY DEF RegisteredInv
<1>1. q # r /\ pc'[q] = pc[q] /\ home' = home
  BY FinishEffect DEF Busy, Owner
<1>2. inFlight[home[q]] = q
  BY <1>1 DEF RegisteredInv
<1>3. inFlight[home[r]] = r => home[q] # home[r]
  BY <1>1, <1>2
<1>4. home[q] \in Containers /\ home[r] \in Containers
  BY DEF TypeOK
<1>5. inFlight'[home[q]] = inFlight[home[q]]
  BY <1>3, <1>4 DEF Finish, TypeOK
<1>6. QED
  BY <1>1, <1>2, <1>5

LEMMA RegisteredStep == TypeOK /\ RegisteredInv /\ [Next]_vars => RegisteredInv'
<1> SUFFICES ASSUME TypeOK, RegisteredInv, [Next]_vars PROVE RegisteredInv'
  OBVIOUS
<1>a. Busy = {"atIdp", "saving", "failing", "locking", "waiting", "rereading"}
  BY DEF Busy, Owner
<1>1. ASSUME NEW r \in Requests, (\E got \in Readable : Start(r, got)) \/ RequestStep(r)
      PROVE  RegisteredInv'
  <2>1. CASE \/ Reject(r) \/ Accept(r) \/ Save(r) \/ MarkExpired(r)
             \/ \E got \in Readable : Reread(r, got) \/ Poll(r, got)
             \/ GetThrows(r) \/ GiveUp(r) \/ DeleteFails(r)
             \/ \E revoked \in BOOLEAN : Revoke(r, revoked)
             \/ DeleteRow(r) /\ seen[r] = NoRow
    <3>1. \E a \in Answer : Finish(r, a)
      BY <2>1 DEF Reject, Accept, Save, MarkExpired, Reread, Poll, GetThrows, GiveUp,
         DeleteFails, Revoke, DeleteRow, Admit, Deny, Answer
    <3>2. QED
      BY <3>1, FinishRegistered
  <2>2. CASE Wait(r) \/ SendLock(r)
    <3>1. /\ inFlight[home[r]] = NoRequest
          /\ inFlight' = [inFlight EXCEPT ![home[r]] = r]
          /\ \A q \in Requests \ {r} : pc'[q] = pc[q]
          /\ home' = home /\ home \in [Requests -> Containers]
          /\ inFlight \in [Containers -> Requests \cup {NoRequest}]
      BY <2>2 DEF Wait, SendLock, Goto, TypeOK
    <3>2. \A q \in Requests \ {r} : pc[q] \in Busy => home[q] # home[r]
      BY <3>1, SessionAssumption DEF RegisteredInv
    <3>3. QED
      BY <3>1, <3>2 DEF RegisteredInv
  <2>3. CASE Lock(r) \/ LockFails(r) \/ SaveFails(r)
             \/ (\E rotated \in BOOLEAN : Grant(r, rotated))
             \/ (\E spent \in BOOLEAN : Refuse(r, spent))
    <3>1. /\ pc[r] \in Busy /\ UNCHANGED <<inFlight, home>>
          /\ \A q \in Requests \ {r} : pc'[q] = pc[q]
      BY <2>3, <1>a DEF Lock, LockFails, SaveFails, Grant, Refuse, Goto, TypeOK
    <3>2. QED
      BY <3>1 DEF RegisteredInv
  <2>4. CASE \/ \E got \in Readable : Start(r, got)
             \/ Join(r)
             \/ DeleteRow(r) /\ seen[r] # NoRow
    <3>1. /\ pc'[r] \notin Busy /\ UNCHANGED <<inFlight, home>>
          /\ \A q \in Requests \ {r} : pc'[q] = pc[q]
      BY <2>4, <1>a DEF Start, Join, DeleteRow, Goto, TypeOK
    <3>2. QED
      BY <3>1 DEF RegisteredInv
  <2>5. QED
    BY <1>1, <2>1, <2>2, <2>3, <2>4 DEF RequestStep, Proceeds, Readable, Refreshes, SignsOut
<1>2. ASSUME NEW c \in Containers, Crash(c)
      PROVE  RegisteredInv'
  <2>1. /\ home' = home /\ home \in [Requests -> Containers]
        /\ inFlight' = [inFlight EXCEPT ![c] = NoRequest]
        /\ inFlight \in [Containers -> Requests \cup {NoRequest}]
    BY <1>2 DEF Crash, TypeOK
  <2>2. \A q \in Requests : pc'[q] \in Busy => pc[q] = pc'[q]
    BY <1>2, <1>a, CrashEffect
  <2>3. \A q \in Requests : home[q] = c => pc'[q] \notin Busy
    <3> SUFFICES ASSUME NEW q \in Requests, home[q] = c PROVE pc'[q] \notin Busy
      OBVIOUS
    <3>1. CASE pc[q] \in {"idle", "done"}
      BY <3>1, <1>a, <2>2
    <3>2. CASE pc[q] \notin {"idle", "done"}
      <4>1. q \in {r \in Requests : home[r] = c /\ pc[r] \notin {"idle", "done"}}
        BY <3>2
      <4>2. pc'[q] = "done"
        BY <1>2, <4>1 DEF Crash
      <4>3. QED
        BY <1>a, <4>2
    <3>3. QED
      BY <3>1, <3>2
  <2>4. QED
    BY <2>1, <2>2, <2>3 DEF RegisteredInv
<1>3. CASE Tick \/ UNCHANGED vars
  BY <1>3 DEF Tick, vars, RegisteredInv
<1>4. QED
  BY <1>1, <1>2, <1>3 DEF Next

\* A container never runs two refreshes of the session (refreshInFlight).
THEOREM CallersCoalesce == Spec => []OnePerContainer
<1>1. Init => RegisteredInv
  BY DEF Init, RegisteredInv, Busy, Owner
<1>2. Spec => [](TypeOK /\ RowsInv)
  BY TypeInit, TypeStep, PTL DEF Spec
<1>3. RegisteredInv => OnePerContainer
  BY DEF RegisteredInv, OnePerContainer, Busy
<1>4. QED
  BY <1>1, <1>2, <1>3, RegisteredStep, PTL DEF Spec

-------------------------------------------------------------------------------
(* A session expires for a cause.                                          *)

\* A request's lock is the row it read, with the same token and a later start; a
\* sign-out revokes the token of a row that it has deleted.
ClaimInv ==
    \A r \in Requests :
        /\ pc[r] = "revoking" => row = NoRow
        /\ pc[r] \in {"locking", "atIdp"} => mine[r].refreshToken = seen[r].refreshToken
        /\ pc[r] = "locking" =>
              /\ mine[r].state = "refreshing"
              /\ seen[r].state = "refreshing" => seen[r].since < mine[r].since
        /\ pc[r] \in Owner => HeldRow(r).state = "refreshing"
        /\ pc[r] = "saving" => mine[r].state = "ready"

Owners == {r \in Requests : pc[r] \in Owner}

\* As long as nothing has gone wrong the stored token is good, or is spent by the
\* one request that holds the lock and has its successor to store.  A lock that
\* nobody holds any more can only be taken over; the locks it left behind are older.
CauseInv ==
    ~excuse /\ row # NoRow =>
        /\ row.state # "expired"
        /\ row.state = "ready" => row.refreshToken \in accepted /\ Owners = {}
        /\ \A r \in Owners : HeldRow(r) # row => HeldRow(r).since < row.since
        /\ \A r \in Owners : HeldRow(r) = row =>
              /\ Owners = {r}
              /\ pc[r] # "failing"
              /\ pc[r] = "atIdp" => seen[r].refreshToken \in accepted
              /\ pc[r] = "saving" => mine[r].refreshToken \in accepted

\* Only a sign-out that has deleted the row comes to revoke.
LEMMA RevokingStep ==
    ASSUME TypeOK, [Next]_vars, NEW q \in Requests, pc'[q] = "revoking"
    PROVE  pc[q] = "revoking" \/ row' = NoRow
<1>1. ASSUME NEW r \in Requests, r # q, (\E got \in Readable : Start(r, got)) \/ RequestStep(r)
      PROVE  pc'[q] = pc[q]
  BY <1>1, OthersStay
<1>2. CASE \E a \in Answer : Finish(q, a)
  BY <1>2, FinishEffect
<1>3. CASE (\E got \in Readable : Start(q, got)) \/ RequestStep(q)
  <2>1. CASE \/ \E got \in Readable : Start(q, got)
             \/ Join(q) \/ Wait(q) \/ SendLock(q)
             \/ Lock(q) \/ LockFails(q) \/ SaveFails(q)
             \/ \E rotated \in BOOLEAN : Grant(q, rotated)
             \/ \E spent \in BOOLEAN : Refuse(q, spent)
    BY <2>1 DEF Start, Join, Wait, SendLock, Lock, LockFails, SaveFails, Grant, Refuse,
       Goto, TypeOK
  <2>2. CASE DeleteRow(q)
    BY <2>2 DEF DeleteRow, Store
  <2>3. CASE \/ Reject(q) \/ Accept(q) \/ Save(q) \/ MarkExpired(q)
             \/ \E got \in Readable : Reread(q, got) \/ Poll(q, got)
             \/ GetThrows(q) \/ GiveUp(q) \/ DeleteFails(q)
             \/ \E revoked \in BOOLEAN : Revoke(q, revoked)
    BY <1>2, <2>3 DEF Reject, Accept, Save, MarkExpired, Reread, Poll, GetThrows, GiveUp,
       DeleteFails, Revoke, Admit, Deny, Answer
  <2>4. QED
    BY <1>3, <2>1, <2>2, <2>3 DEF RequestStep, Proceeds, Readable, Refreshes, SignsOut
<1>4. CASE \E c \in Containers : Crash(c)
  BY <1>4, CrashEffect
<1>5. CASE Tick \/ UNCHANGED vars
  BY <1>5 DEF Tick, vars
<1>6. QED
  BY <1>1, <1>3, <1>4, <1>5 DEF Next

\* Only the provider's answers and a revocation change the tokens it accepts, and
\* only they and a lock that is taken over are an excuse.
LEMMA ProviderStep ==
    ASSUME TypeOK, [Next]_vars
    PROVE  \/ UNCHANGED <<accepted, excuse>>
           \/ \E r \in Requests :
                 \/ pc[r] = "revoking" /\ row' = row
                 \/ Lock(r)
                 \/ \E rotated \in BOOLEAN : Grant(r, rotated)
                 \/ \E spent \in BOOLEAN : Refuse(r, spent)
<1> USE DEF idpVars, storeVars
<1>1. ASSUME NEW r \in Requests, RequestStep(r) \/ \E got \in Readable : Start(r, got)
      PROVE  \/ UNCHANGED <<accepted, excuse>>
             \/ pc[r] = "revoking" /\ row' = row
             \/ Lock(r)
             \/ \E rotated \in BOOLEAN : Grant(r, rotated)
             \/ \E spent \in BOOLEAN : Refuse(r, spent)
  <2>1. ASSUME NEW got \in Readable,
               \/ Start(r, got) \/ Poll(r, got) \/ Reread(r, got)
               \/ Reject(r) \/ Accept(r) \/ GiveUp(r) \/ GetThrows(r)
               \/ Join(r) \/ Wait(r) \/ SendLock(r)
        PROVE  UNCHANGED <<accepted, excuse>>
    BY <2>1 DEF Start, Poll, Reread, Reject, Accept, GiveUp, GetThrows, Join, Wait, SendLock
  <2>2. CASE \/ LockFails(r) \/ Save(r) \/ SaveFails(r) \/ MarkExpired(r)
             \/ DeleteRow(r) \/ DeleteFails(r)
    BY <2>2 DEF LockFails, Save, SaveFails, MarkExpired, DeleteRow, DeleteFails
  <2>3. CASE \E revoked \in BOOLEAN : Revoke(r, revoked)
    BY <2>3 DEF Revoke
  <2>4. row \in Readable
    BY DEF Readable
  <2>5. QED
    BY <1>1, <2>1, <2>2, <2>3, <2>4 DEF RequestStep, Proceeds, Refreshes, SignsOut
<1>2. CASE (\E c \in Containers : Crash(c)) \/ Tick \/ UNCHANGED vars
  BY <1>2 DEF Crash, Tick, vars
<1>3. QED
  BY <1>1, <1>2 DEF Next

LEMMA ClaimStep == TypeOK /\ RowsInv /\ ClaimInv /\ [Next]_vars => ClaimInv'
<1> SUFFICES ASSUME TypeOK, RowsInv, ClaimInv, [Next]_vars, NEW q \in Requests
             PROVE  /\ pc'[q] = "revoking" => row' = NoRow
                    /\ pc'[q] \in {"locking", "atIdp"} =>
                          mine'[q].refreshToken = seen'[q].refreshToken
                    /\ pc'[q] = "locking" =>
                          /\ mine'[q].state = "refreshing"
                          /\ seen'[q].state = "refreshing" => seen'[q].since < mine'[q].since
                    /\ pc'[q] \in Owner => HeldRow(q)'.state = "refreshing"
                    /\ pc'[q] = "saving" => mine'[q].state = "ready"
  BY DEF ClaimInv
<1>a. Owner = {"atIdp", "saving", "failing"}
  BY DEF Owner
<1>0. pc'[q] = "revoking" => row' = NoRow
  BY RevokingStep, RowStep, NoRowAssumption DEF ClaimInv
<1>1. CASE pc'[q] \notin Owner \cup {"locking", "deciding"}
  BY <1>0, <1>1, <1>a
<1>2. CASE pc'[q] = pc[q] /\ seen'[q] = seen[q] /\ mine'[q] = mine[q]
  <2>1. HeldRow(q)' = HeldRow(q)
    BY <1>2 DEF HeldRow
  <2>2. QED
    BY <1>0, <1>2, <2>1 DEF ClaimInv
<1>3. CASE \E got \in Readable : Start(q, got)
  BY <1>0, <1>3, <1>a DEF Start, Goto, TypeOK
<1>4. CASE SendLock(q)
  <2>1. /\ pc'[q] = "locking" /\ seen'[q] = seen[q] /\ seen[q] \in SessionRow
        /\ mine'[q] = [seen[q] EXCEPT !.state = "refreshing", !.since = now]
    BY <1>4 DEF SendLock, MustRefresh, Live, Goto, TypeOK
  <2>2. seen[q].state = "refreshing" => seen[q].since < now
    <3>1. seen[q].state = "refreshing" => ~(now < seen[q].since + STALE)
      BY <1>4 DEF SendLock, Held
    <3>2. seen[q].since \in Nat /\ now \in Nat /\ STALE \in Nat \ {0}
      BY <2>1, SessionAssumption DEF SessionRow, TypeOK
    <3>3. QED
      BY <3>1, <3>2
  <2>3. /\ mine'[q].state = "refreshing" /\ mine'[q].since = now
        /\ mine'[q].refreshToken = seen[q].refreshToken
    BY <2>1 DEF SessionRow
  <2>4. QED
    BY <1>0, <1>a, <2>1, <2>2, <2>3
<1>5. CASE Lock(q)
  <2>1. /\ pc[q] = "locking" /\ pc'[q] = "atIdp" /\ mine'[q] = mine[q] /\ seen'[q] = seen[q]
    BY <1>5 DEF Lock, Goto, TypeOK
  <2>2. QED
    BY <1>0, <2>1 DEF ClaimInv, HeldRow
<1>6. ASSUME NEW rotated \in BOOLEAN, Grant(q, rotated)
      PROVE  /\ pc'[q] = "saving" /\ HeldRow(q)'.state = "refreshing"
             /\ mine'[q].state = "ready"
  <2>1. pc[q] = "atIdp" /\ pc'[q] = "saving" /\ seen'[q] = mine[q]
    BY <1>6 DEF Grant, Goto, TypeOK
  <2>2. mine'[q].state = "ready"
    BY <1>6 DEF Grant, Saved, TypeOK
  <2>3. QED
    BY <1>a, <2>1, <2>2 DEF ClaimInv, HeldRow
<1>7. ASSUME NEW spent \in BOOLEAN, Refuse(q, spent)
      PROVE  pc'[q] = "failing" /\ HeldRow(q)'.state = "refreshing"
  <2>1. pc[q] = "atIdp" /\ pc'[q] = "failing" /\ seen'[q] = mine[q]
    BY <1>7 DEF Refuse, Goto, TypeOK
  <2>2. QED
    BY <1>a, <2>1 DEF ClaimInv, HeldRow
<1>8. QED
  BY <1>0, <1>1, <1>2, <1>3, <1>4, <1>5, <1>6, <1>7, OwnerStep

\* The owners after a step that takes no lock owned the same lock before it.
LEMMA OwnersShrink ==
    ASSUME TypeOK, [Next]_vars, \A r \in Requests : ~Lock(r)
    PROVE  /\ Owners' \subseteq Owners
           /\ \A r \in Owners' : HeldRow(r)' = HeldRow(r)
BY OwnerBefore DEF Owners

\* The provider's answer changes nobody's lock.
LEMMA AnswerStep ==
    ASSUME TypeOK, NEW r \in Requests,
           \/ \E rotated \in BOOLEAN : Grant(r, rotated)
           \/ \E spent \in BOOLEAN : Refuse(r, spent)
    PROVE  /\ pc[r] = "atIdp" /\ pc'[r] \in {"saving", "failing"} /\ row' = row
           /\ (\E rotated \in BOOLEAN : Grant(r, rotated)) => pc'[r] = "saving"
           /\ r \in Owners /\ Owners' \subseteq Owners
           /\ \A q \in Owners' : HeldRow(q)' = HeldRow(q)
<1>1. /\ pc[r] = "atIdp" /\ pc'[r] \in {"saving", "failing"} /\ row' = row
      /\ seen'[r] = mine[r]
      /\ \A q \in Requests \ {r} : pc'[q] = pc[q] /\ seen'[q] = seen[q] /\ mine'[q] = mine[q]
  BY DEF Grant, Refuse, Goto, TypeOK, storeVars
<1>2. (\E rotated \in BOOLEAN : Grant(r, rotated)) => pc'[r] = "saving"
  BY DEF Grant, Goto, TypeOK
<1>3. r \in Owners /\ Owners' \subseteq Owners
  BY <1>1 DEF Owners, Owner
<1>4. \A q \in Requests : HeldRow(q)' = HeldRow(q)
  BY <1>1 DEF HeldRow
<1>5. QED
  BY <1>1, <1>2, <1>3, <1>4 DEF Owners

LEMMA CauseStep == TypeOK /\ RowsInv /\ ClaimInv /\ CauseInv /\ [Next]_vars => CauseInv'
<1> SUFFICES ASSUME TypeOK, RowsInv, ClaimInv, CauseInv, [Next]_vars, ~excuse', row' # NoRow
             PROVE  CauseInv'
  BY DEF CauseInv
<1> DEFINE Answers(r) == \/ \E rotated \in BOOLEAN : Grant(r, rotated)
                         \/ \E spent \in BOOLEAN : Refuse(r, spent)
<1> HIDE DEF Answers
<1>a. TypeOK' /\ RowsInv' /\ ClaimInv'
  BY TypeStep, ClaimStep
<1>b. row \in SessionRow /\ row' \in SessionRow
  BY <1>a, RowStep, NoRowAssumption DEF TypeOK
<1>c. ~excuse
  BY ProviderStep, <1>b, NoRowAssumption DEF ClaimInv, Lock, Grant, Refuse
<1>d. ASSUME NEW r \in Owners
      PROVE  r \in Requests /\ HeldRow(r) \in SessionRow /\ HeldRow(r).state = "refreshing"
  BY <1>d DEF Owners, RowsInv, HeldRow, Owner, ClaimInv
<1>e. /\ row.state # "expired"
      /\ row.state = "ready" => row.refreshToken \in accepted /\ Owners = {}
      /\ \A r \in Owners : HeldRow(r) # row => HeldRow(r).since < row.since
      /\ \A r \in Owners : HeldRow(r) = row =>
            /\ Owners = {r}
            /\ pc[r] # "failing"
            /\ pc[r] = "atIdp" => seen[r].refreshToken \in accepted
            /\ pc[r] = "saving" => mine[r].refreshToken \in accepted
  BY <1>b, <1>c, NoRowAssumption DEF CauseInv
<1>1. ASSUME NEW r \in Requests, Lock(r)
      PROVE  CauseInv'
  <2>1. /\ pc[r] = "locking" /\ pc'[r] = "atIdp" /\ row = seen[r] /\ row' = mine[r]
        /\ UNCHANGED <<seen, mine, accepted>> /\ seen[r].state # "refreshing"
        /\ \A q \in Requests \ {r} : pc'[q] = pc[q]
    BY <1>1 DEF Lock, Swap, Store, Goto, TypeOK, idpVars
  <2>2. row.state = "ready"
    BY <1>b, <1>e, <2>1 DEF SessionRow
  <2>3. Owners' = {r}
    <3>1. pc'[r] \in Owner
      BY <2>1 DEF Owner
    <3>2. QED
      BY <1>e, <2>1, <2>2, <3>1 DEF Owners
  <2>4. HeldRow(r)' = row' /\ seen'[r].refreshToken \in accepted'
    BY <1>e, <2>1, <2>2 DEF HeldRow
  <2>5. row'.state = "refreshing"
    BY <2>1 DEF ClaimInv
  <2>6. QED
    BY <2>1, <2>3, <2>4, <2>5 DEF CauseInv
<1>2. ASSUME NEW r \in Requests, NEW rotated \in BOOLEAN, Grant(r, rotated)
      PROVE  CauseInv'
  <2>1. /\ pc[r] = "atIdp" /\ pc'[r] = "saving" /\ row' = row
        /\ r \in Owners /\ Owners' \subseteq Owners
        /\ \A q \in Owners' : HeldRow(q)' = HeldRow(q)
    BY <1>2, AnswerStep
  <2>2. mine'[r].refreshToken \in accepted'
    <3>1. mine'[r].refreshToken = IF rotated THEN issued + 1 ELSE mine[r].refreshToken
      BY <1>2 DEF Grant, Saved, TypeOK
    <3>2. mine[r].refreshToken = seen[r].refreshToken
      BY <2>1 DEF ClaimInv
    <3>3. QED
      BY <1>2, <3>1, <3>2 DEF Grant
  <2>3. row'.state = "refreshing"
    BY <1>b, <1>e, <2>1 DEF SessionRow
  <2>4. \A q \in Owners' : HeldRow(q)' = row' => Owners' = {q} /\ q = r
    BY <1>e, <2>1
  <2>5. QED
    BY <1>e, <2>1, <2>2, <2>3, <2>4 DEF CauseInv
<1>3. ASSUME NEW r \in Requests, NEW spent \in BOOLEAN, Refuse(r, spent)
      PROVE  CauseInv'
  <2>1. /\ pc[r] = "atIdp" /\ row' = row
        /\ r \in Owners /\ Owners' \subseteq Owners
        /\ \A q \in Owners' : HeldRow(q)' = HeldRow(q)
    BY <1>3, AnswerStep
  <2>2. seen[r].refreshToken \notin accepted
    BY <1>3 DEF Refuse
  <2>3. row'.state = "refreshing"
    BY <1>b, <1>e, <2>1 DEF SessionRow
  <2>4. \A q \in Owners' : HeldRow(q)' # row'
    BY <1>e, <2>1, <2>2
  <2>5. QED
    BY <1>e, <2>1, <2>3, <2>4 DEF CauseInv
<1>4. ASSUME \A r \in Requests : ~Lock(r) /\ ~Answers(r)
      PROVE  CauseInv'
  <2>1. accepted' = accepted
    <3>1. ASSUME NEW r \in Requests, pc[r] = "revoking", row' = row
          PROVE  FALSE
      BY <1>b, <3>1, NoRowAssumption DEF ClaimInv
    <3>2. QED
      BY <1>4, <3>1, ProviderStep DEF Answers
  <2>2. /\ Owners' \subseteq Owners
        /\ \A r \in Owners' : HeldRow(r)' = HeldRow(r)
    BY <1>4, OwnersShrink
  <2>3. \A r \in Owners' : pc'[r] = pc[r] /\ seen'[r] = seen[r] /\ mine'[r] = mine[r]
    <3> SUFFICES ASSUME NEW r \in Requests, pc'[r] \in Owner
                 PROVE  pc'[r] = pc[r] /\ seen'[r] = seen[r] /\ mine'[r] = mine[r]
      BY DEF Owners
    <3>1. CASE SendLock(r) \/ \E got \in Readable : Start(r, got)
      BY <3>1 DEF SendLock, Start, Goto, TypeOK, Owner
    <3>2. ~Lock(r) /\ ~Answers(r)
      BY <1>4
    <3>3. QED
      BY <3>1, <3>2, OwnerStep DEF Answers
  <2>4. CASE row' = row
    BY <1>e, <2>1, <2>2, <2>3, <2>4 DEF CauseInv
  <2>5. ASSUME NEW p \in Requests, pc[p] \in {"locking", "saving", "failing"},
               row = seen[p], row' = mine[p], pc[p] # "locking" => pc'[p] \notin Owner
        PROVE  CauseInv'
    <3>1. CASE pc[p] = "locking"
      <4>1. row'.state = "refreshing" /\ (row.state = "refreshing" => row.since < row'.since)
        BY <2>5, <3>1 DEF ClaimInv
      <4>2. ASSUME NEW q \in Owners'
            PROVE  HeldRow(q)'.since < row'.since /\ HeldRow(q)' # row'
        <5>1. q \in Owners /\ HeldRow(q)' = HeldRow(q)
          BY <2>2, <4>2
        <5>2. row.state = "refreshing"
          BY <1>b, <1>e, <5>1 DEF SessionRow
        <5>3. HeldRow(q) = row \/ HeldRow(q).since < row.since
          BY <1>e, <5>1
        <5>4. HeldRow(q).since \in Nat /\ row.since \in Nat /\ row'.since \in Nat
          BY <1>b, <1>d, <5>1 DEF SessionRow
        <5>5. HeldRow(q).since < row'.since
          BY <4>1, <5>2, <5>3, <5>4
        <5>6. QED
          BY <5>1, <5>4, <5>5
      <4>3. QED
        BY <4>1, <4>2 DEF CauseInv
    <3>2. CASE pc[p] # "locking"
      <4>1. p \in Owners /\ HeldRow(p) = row
        BY <2>5, <3>2 DEF Owners, Owner, HeldRow
      <4>2. pc[p] = "saving" /\ mine[p].refreshToken \in accepted
        BY <1>e, <2>5, <3>2, <4>1
      <4>3. Owners' = {}
        BY <1>e, <2>2, <2>5, <3>2, <4>1 DEF Owners
      <4>4. row'.state = "ready"
        BY <2>5, <4>2 DEF ClaimInv
      <4>5. QED
        BY <2>1, <2>5, <4>2, <4>3, <4>4 DEF CauseInv
    <3>3. QED
      BY <3>1, <3>2
  <2>6. QED
    BY <1>b, <2>4, <2>5, RowStep, NoRowAssumption
<1>5. QED
  BY <1>1, <1>2, <1>3, <1>4 DEF Answers

\* Through any interleaving of verifications, forced refreshes and sign-outs the
\* token in the stored row is good until its holder has spent it.
LEMMA CauseCorrect == Spec => [](ClaimInv /\ CauseInv)
<1>1. Init => ClaimInv /\ CauseInv
  BY DEF Init, ClaimInv, CauseInv, Owners, Owner
<1>2. Spec => [](TypeOK /\ RowsInv)
  BY TypeInit, TypeStep, PTL DEF Spec
<1>3. QED
  BY <1>1, <1>2, ClaimStep, CauseStep, PTL DEF Spec

\* A session is never ended by races alone: it expires only after the provider
\* failed, or a lock was taken over, whoever forces a refresh, signs out or crashes
\* (_doRefresh: the compare-and-swap keeps a token from being spent twice).
THEOREM EndsForCause == Spec => []ExpiredForCause
<1>1. CauseInv => ExpiredForCause
  BY DEF CauseInv, ExpiredForCause
<1>2. QED
  BY <1>1, CauseCorrect, PTL

\* Nor does the store ever offer a spent token: a ready row can be refreshed, unless
\* the provider failed or a lock was taken over (refreshStatefulSession).
THEOREM ReadyTokenIsGood ==
    Spec => [](row # NoRow /\ row.state = "ready" => row.refreshToken \in accepted \/ excuse)
<1>1. CauseInv => (row # NoRow /\ row.state = "ready" => row.refreshToken \in accepted \/ excuse)
  BY DEF CauseInv
<1>2. QED
  BY <1>1, CauseCorrect, PTL

================================================================================
