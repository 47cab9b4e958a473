---------------------------- MODULE AuthBasicProofs ----------------------------
(***************************************************************************)
(* Theorems about AuthBasic: whatever the number of requests, codes and   *)
(* attempts, and whatever reads are stale, calls fail and Lambdas die.    *)
(***************************************************************************)
EXTENDS AuthBasic, FiniteSetTheorems, TLAPS

Codeful == {"reserve", "evaluate", "consume", "reread"}
Userful == {"bump", "put", "write", "bump again", "put again"}

\* What a request holds, by the place it has reached.
Coherent(q) ==
    /\ q.pc \in Codeful => q.seen \in Row
    /\ q.pc \in Userful => q.seen \in User
    /\ q.pc \in {"bump", "put"} => q.seen.password = q.n

SeenInv == \A r \in Requests : Coherent(req[r])

\* A row that is there is that of an issued code, of no other purpose, and of one
\* that has let nobody through.
CodeInv ==
    /\ \A p \in Purposes : store.code[p] # None =>
        /\ store.code[p].id <= issued
        /\ verified[store.code[p].id] = 0
    /\ \A p, q \in Purposes :
        store.code[p] # None /\ store.code[q] # None /\ p # q => store.code[p].id # store.code[q].id
    /\ \A c \in Codes : c > issued => verified[c] = 0

\* The requests that have reserved an attempt and not used it yet.
Comparing(c) == {r \in Requests : req[r].pc = "evaluate" /\ req[r].seen.id = c}
Used == [c \in Codes |-> evaluated[c] + Cardinality(Comparing(c))]

\* Each comparison, made or to be made, has an attempt of the row to itself.
AttemptInv ==
    /\ \A p \in Purposes : store.code[p] # None => Used[store.code[p].id] <= store.code[p].attempts
    /\ \A c \in Codes : Used[c] <= MAX_CODE_ATTEMPTS
    /\ \A c \in Codes : c > issued => Used[c] = 0

\* The epoch only grows, and a session of the present epoch is after every bump.
EpochInv ==
    /\ old.epoch <= store.epoch
    /\ \A t \in tokens :
        /\ t.ep <= store.epoch
        /\ t.ep = store.epoch => bumped \subseteq t.after

\* A password that a reset chose is stored, or on its way, only after that reset's
\* first bump.
PasswordInv ==
    /\ \A view \in Views : view.user # None /\ view.user.password # 0 =>
        <<view.user.password, 1>> \in bumped
    /\ \A r \in Requests : req[r].pc = "write" /\ req[r].seen.password # 0 =>
        <<req[r].seen.password, 1>> \in bumped

-------------------------------------------------------------------------------
(* Types.                                                                  *)

LEMMA IdleTyped == Idle \in Request /\ Coherent(Idle)
BY AuthAssumption DEF Idle, Request, Op, Place, Coherent, Codeful, Userful

\* One request changes, into one that is typed and holds what its place asks for.
LEMMA OneRequest ==
    ASSUME TypeOK, SeenInv, NEW r \in Requests, NEW q \in Request, Coherent(q),
           req' = [req EXCEPT ![r] = q]
    PROVE  req' \in [Requests -> Request] /\ SeenInv'
BY DEF TypeOK, SeenInv

LEMMA EndTyped ==
    ASSUME TypeOK, SeenInv, NEW r \in Requests, End(r)
    PROVE  req' \in [Requests -> Request] /\ SeenInv'
BY IdleTyped, OneRequest DEF End

LEMMA BeginTyped ==
    ASSUME TypeOK, SeenInv, NEW r \in Requests, NEW op \in Op, NEW pc \in Place, NEW guess \in Nat,
           NEW seen \in Row \cup User \cup {None}, Starts(r), Begin(r, op, pc, guess, seen),
           pc \notin Userful, pc \in Codeful => seen \in Row
    PROVE  req' \in [Requests -> Request] /\ SeenInv' /\ started' \in 0..MAX_REQUESTS
<1> DEFINE q == [op |-> op, pc |-> pc, n |-> started + 1, guess |-> guess,
                 seen |-> seen, tries |-> 0]
<1>1. started + 1 \in 0..MAX_REQUESTS
  BY AuthAssumption DEF Starts, TypeOK
<1>2. q \in Request
  BY <1>1, AuthAssumption DEF Request
<1>3. Coherent(q)
  BY DEF Coherent, Userful
<1> QED
  BY <1>1, <1>2, <1>3, OneRequest DEF Begin, Starts

LEMMA GoTyped ==
    ASSUME TypeOK, SeenInv, NEW r \in Requests, NEW pc \in Place, Go(r, pc),
           pc \in Codeful => req[r].seen \in Row,
           pc \in Userful => req[r].seen \in User,
           pc \in {"bump", "put"} => req[r].seen.password = req[r].n
    PROVE  req' \in [Requests -> Request] /\ SeenInv'
<1> DEFINE q == [req[r] EXCEPT !.pc = pc]
<1>1. q \in Request
  BY DEF TypeOK, Request
<1>2. Coherent(q)
  BY DEF TypeOK, Request, Coherent
<1>3. req' = [req EXCEPT ![r] = q]
  BY DEF Go
<1> QED
  BY <1>1, <1>2, <1>3, OneRequest

LEMMA CodeTyped ==
    ASSUME TypeOK, NEW p \in Purposes, NEW row \in Row \cup {None}, SetCode(p, row)
    PROVE  store' \in Store
BY DEF TypeOK, Store, SetCode

\* Every request of a step of verifyCode stays typed.
LEMMA CodeStepTyped ==
    ASSUME TypeOK, SeenInv, NEW r \in Requests,
           DropSpent(r) \/ Reserve(r) \/ Evaluate(r) \/ Consume(r) \/ Reread(r)
    PROVE  TypeOK' /\ SeenInv'
<1> DEFINE q == req[r]
<1>1. q \in Request /\ Coherent(q) /\ Purpose(r) \in Purposes
  BY DEF TypeOK, SeenInv, Purpose, Purposes
<1>2. CASE DropSpent(r)
  <2>1. store' \in Store
    BY <1>1, <1>2, CodeTyped DEF DropSpent, TypeOK
  <2> QED
    BY <1>2, <2>1, EndTyped DEF DropSpent, TypeOK, ghosts
<1>3. CASE Reserve(r)
  <2>1. CASE store.code[Purpose(r)] = q.seen
    <3>1. q.seen \in Row /\ q.seen.attempts < MAX_CODE_ATTEMPTS
      BY <1>1, <1>3, AuthAssumption DEF Reserve, Coherent, Codeful, Spent, Row
    <3>2. Reserved(q.seen) \in Row
      BY <3>1, AuthAssumption DEF Reserved, Row
    <3> DEFINE n == [q EXCEPT !.pc = "evaluate", !.seen = Reserved(q.seen)]
    <3>3. n \in Request /\ Coherent(n)
      BY <1>1, <3>2 DEF Request, Place, Coherent, Codeful, Userful
    <3>4. req' = [req EXCEPT ![r] = n]
      BY <1>3, <2>1, <1>1 DEF Reserve, TypeOK, Request
    <3>5. store' \in Store
      BY <1>1, <1>3, <2>1, <3>2, CodeTyped DEF Reserve
    <3> QED
      BY <1>3, <3>3, <3>4, <3>5, OneRequest DEF Reserve, TypeOK, ghosts
  <2>2. CASE store.code[Purpose(r)] # q.seen
    BY <1>3, <2>2, EndTyped DEF Reserve, TypeOK, ghosts
  <2> QED
    BY <2>1, <2>2
<1>4. CASE Evaluate(r)
  <2>1. q.seen \in Row
    BY <1>1, <1>4 DEF Evaluate, Coherent, Codeful
  <2>2. req' \in [Requests -> Request] /\ SeenInv'
    BY <1>4, <2>1, EndTyped, GoTyped DEF Evaluate, Place, Userful
  <2>3. evaluated' \in [Codes -> Nat]
    BY <1>4, <2>1 DEF Evaluate, TypeOK, Row
  <2> QED
    BY <1>4, <2>2, <2>3 DEF Evaluate, TypeOK
<1>5. CASE Consume(r)
  <2>1. q.seen \in Row
    BY <1>1, <1>5 DEF Consume, Coherent, Codeful
  <2>2. req' \in [Requests -> Request] /\ SeenInv'
    BY <1>5, <2>1, GoTyped DEF Consume, LetThrough, Place, Userful, Codeful
  <2>3. verified' \in [Codes -> Nat]
    BY <1>5, <2>1 DEF Consume, LetThrough, TypeOK, Row
  <2>4. store' \in Store
    BY <1>1, <1>5, CodeTyped DEF Consume, TypeOK
  <2> QED
    BY <1>5, <2>2, <2>3, <2>4 DEF Consume, TypeOK
<1>6. CASE Reread(r)
  <2>1. PICK view \in Views :
          LET row == view.code[Purpose(r)]
          IN  IF row # None /\ row.id = q.seen.id
              THEN req' = [req EXCEPT ![r].pc = "consume", ![r].seen = row]
              ELSE End(r)
    BY <1>6 DEF Reread
  <2> DEFINE row == view.code[Purpose(r)]
             n == [q EXCEPT !.pc = "consume", !.seen = row]
  <2>2. row \in Row \cup {None}
    BY <1>1 DEF Views, TypeOK, Store
  <2>3. CASE row # None /\ row.id = q.seen.id
    <3>1. n \in Request /\ Coherent(n)
      BY <1>1, <2>2, <2>3 DEF Request, Place, Coherent, Codeful, Userful
    <3>2. req' = [req EXCEPT ![r] = n]
      BY <2>1, <2>3, <1>1 DEF TypeOK, Request
    <3> QED
      BY <1>6, <3>1, <3>2, OneRequest DEF Reread, TypeOK, ghosts
  <2>4. CASE ~(row # None /\ row.id = q.seen.id)
    BY <1>6, <2>1, <2>4, EndTyped DEF Reread, TypeOK, ghosts
  <2> QED
    BY <2>3, <2>4
<1> QED
  BY <1>2, <1>3, <1>4, <1>5, <1>6

LEMMA ViewTyped == ASSUME TypeOK, NEW view \in Views PROVE view \in Store
BY DEF TypeOK, Views

\* ... and so does every request on the user's record and the epoch.
LEMMA RecordStepTyped ==
    ASSUME TypeOK, SeenInv, NEW r \in Requests,
           \/ IssueSignUpCode(r) \/ GetUserRecord(r) \/ PutUserRecord(r)
           \/ ReadEpoch(r) \/ PutEpoch(r) \/ SetCookie(r)
    PROVE  TypeOK' /\ SeenInv'
<1> DEFINE q == req[r]
<1>1. q \in Request /\ Coherent(q)
  BY DEF TypeOK, SeenInv
<1>2. CASE IssueSignUpCode(r)
  <2>1. issued' \in 0..MAX_CODES /\ store' \in Store
    <3>1. CASE issued = MAX_CODES
      BY <1>2, <3>1 DEF IssueSignUpCode, TypeOK
    <3>2. CASE issued # MAX_CODES
      <4>1. [id |-> issued + 1, attempts |-> 0] \in Row /\ issued + 1 \in 0..MAX_CODES
        BY <1>2, <3>2, AuthAssumption DEF IssueSignUpCode, generateCode, TypeOK, Row, Codes
      <4> QED
        BY <1>2, <3>2, <4>1, CodeTyped DEF IssueSignUpCode, generateCode, Purposes
    <3> QED
      BY <3>1, <3>2
  <2> QED
    BY <1>2, <2>1, EndTyped DEF IssueSignUpCode, TypeOK, ghosts
<1>3. CASE GetUserRecord(r)
  <2>1. PICK view \in Views :
        IF view.user = None THEN End(r)
        ELSE req' = [req EXCEPT
                ![r].seen = IF q.op = "confirmSignUp"
                            THEN [view.user EXCEPT !.unconfirmed = FALSE]
                            ELSE [view.user EXCEPT !.password = q.n],
                ![r].pc = IF q.op = "confirmSignUp" THEN "write" ELSE "bump"]
    BY <1>3 DEF GetUserRecord
  <2>2. CASE view.user = None
    BY <1>3, <2>1, <2>2, EndTyped DEF GetUserRecord, TypeOK, ghosts
  <2>3. CASE view.user # None
    <3>1. view.user \in User
      BY <2>3, ViewTyped DEF Store
    <3> DEFINE seen == IF q.op = "confirmSignUp" THEN [view.user EXCEPT !.unconfirmed = FALSE]
                                                 ELSE [view.user EXCEPT !.password = q.n]
               pc == IF q.op = "confirmSignUp" THEN "write" ELSE "bump"
               n == [q EXCEPT !.seen = seen, !.pc = pc]
    <3>2. seen \in User /\ (q.op # "confirmSignUp" => seen.password = q.n)
      BY <1>1, <3>1 DEF User, Password, Request
    <3>3. n \in Request
      BY <1>1, <3>2 DEF Request, Place
    <3>4. Coherent(n)
      BY <1>1, <3>2 DEF Request, Coherent, Codeful, Userful
    <3>5. req' = [req EXCEPT ![r] = n]
      BY <2>1, <2>3, <1>1 DEF TypeOK, Request
    <3> QED
      BY <1>3, <3>3, <3>4, <3>5, OneRequest DEF GetUserRecord, TypeOK, ghosts
  <2> QED
    BY <2>2, <2>3
<1>4. CASE PutUserRecord(r)
  <2>1. q.seen \in User
    BY <1>1, <1>4 DEF PutUserRecord, Coherent, Userful
  <2>2. store' \in Store
    BY <1>4, <2>1 DEF PutUserRecord, TypeOK, Store
  <2>3. CASE q.op = "confirmSignUp"
    BY <1>4, <2>2, <2>3, EndTyped DEF PutUserRecord, TypeOK, ghosts
  <2>4. CASE q.op # "confirmSignUp"
    <3> DEFINE n == [q EXCEPT !.pc = "bump again", !.tries = 0]
    <3>1. n \in Request
      <4>1. 0 \in 0..MAX_EPOCH_BUMP_ATTEMPTS
        BY AuthAssumption
      <4> QED
        BY <1>1, <4>1 DEF Request, Place
    <3>2. Coherent(n)
      BY <1>1, <2>1 DEF Request, Coherent, Codeful, Userful
    <3>3. req' = [req EXCEPT ![r] = n]
      BY <1>4, <2>4, <1>1 DEF PutUserRecord, TypeOK, Request
    <3> QED
      BY <1>4, <2>2, <3>1, <3>2, <3>3, OneRequest DEF PutUserRecord, TypeOK, ghosts
  <2> QED
    BY <2>3, <2>4
<1>5. CASE ReadEpoch(r)
  <2>1. PICK view \in Views : req' = [req EXCEPT ![r].guess = view.epoch, ![r].pc = Then(@)]
    BY <1>5 DEF ReadEpoch
  <2>2. view.epoch \in Nat
    BY ViewTyped DEF Store
  <2> DEFINE n == [q EXCEPT !.guess = view.epoch, !.pc = Then(q.pc)]
  <2>3. n \in Request
    BY <1>1, <2>2 DEF Request, Place, Then
  <2>4. Coherent(n)
    BY <1>1, <1>5 DEF ReadEpoch, Request, Then, Coherent, Codeful, Userful
  <2>5. req' = [req EXCEPT ![r] = n]
    BY <2>1, <1>1 DEF TypeOK, Request
  <2> QED
    BY <1>5, <2>3, <2>4, <2>5, OneRequest DEF ReadEpoch, TypeOK, ghosts
<1>6. CASE PutEpoch(r)
  <2>1. q.seen \in User /\ (q.pc = "put" => q.seen.password = q.n)
    BY <1>1, <1>6 DEF PutEpoch, Coherent, Userful
  <2>2. CASE store.epoch = q.guess /\ BumpDone(r)
    <3>1. store' \in Store
      BY <1>1, <2>2 DEF BumpDone, TypeOK, Store, Request
    <3>2. bumped' \subseteq Bump
      BY <1>1, <2>2 DEF BumpDone, TypeOK, Bump, Password, Request
    <3>3. req' \in [Requests -> Request] /\ SeenInv'
      BY <2>1, <2>2, EndTyped, GoTyped DEF BumpDone, Place, Codeful
    <3> QED
      BY <1>6, <3>1, <3>2, <3>3 DEF PutEpoch, TypeOK
  <2>3. CASE BumpMissed(r)
    <3>1. CASE q.tries + 1 < MAX_EPOCH_BUMP_ATTEMPTS
      <4> DEFINE n == [q EXCEPT !.tries = @ + 1, !.pc = IF First(r) THEN "bump" ELSE "bump again"]
      <4>0. q.tries + 1 \in 0..MAX_EPOCH_BUMP_ATTEMPTS
        BY <1>1, <3>1, AuthAssumption DEF Request
      <4>1. n \in Request
        BY <1>1, <4>0 DEF Request, Place
      <4>2. Coherent(n)
        BY <1>1, <1>6, <2>1 DEF PutEpoch, Request, First, Coherent, Codeful, Userful
      <4>3. req' = [req EXCEPT ![r] = n]
        BY <2>3, <3>1, <1>1 DEF BumpMissed, TypeOK, Request
      <4> QED
        BY <1>6, <2>3, <4>1, <4>2, <4>3, OneRequest DEF PutEpoch, BumpMissed, TypeOK
    <3>2. CASE ~(q.tries + 1 < MAX_EPOCH_BUMP_ATTEMPTS)
      BY <1>6, <2>3, <3>2, EndTyped DEF PutEpoch, BumpMissed, TypeOK
    <3> QED
      BY <3>1, <3>2
  <2> QED
    BY <1>6, <2>2, <2>3 DEF PutEpoch
<1>7. CASE SetCookie(r)
  <2>1. PICK view \in Views :
          tokens' = tokens \cup {[ep |-> view.epoch, after |-> bumped]}
    BY <1>7 DEF SetCookie
  <2>2. [ep |-> view.epoch, after |-> bumped] \in Token
    BY <1>1, ViewTyped DEF Token, Store, TypeOK, Request
  <2> QED
    BY <1>7, <2>1, <2>2, EndTyped DEF SetCookie, TypeOK, ghosts
<1> QED
  BY <1>2, <1>3, <1>4, <1>5, <1>6, <1>7

\* ... and every request that arrives.
LEMMA ArriveTyped ==
    ASSUME TypeOK, SeenInv, NEW r \in Requests, Arrive(r)
    PROVE  TypeOK' /\ SeenInv'
<1>1. CASE SignUp(r)
  <2>1. CASE store.user = None
    <3>1. [password |-> 0, unconfirmed |-> TRUE] \in User
      BY AuthAssumption DEF User, Password
    <3>2. store' \in Store
      BY <1>1, <2>1, <3>1 DEF SignUp, TypeOK, Store
    <3>3. started' \in 0..MAX_REQUESTS /\ req' \in [Requests -> Request] /\ SeenInv'
      BY <1>1, <2>1, BeginTyped DEF SignUp, Op, Place, Userful, Codeful
    <3> QED
      BY <1>1, <3>2, <3>3 DEF SignUp, TypeOK, ghosts
  <2>2. CASE store.user # None
    BY <1>1, <2>2, AuthAssumption DEF SignUp, Starts, TypeOK, SeenInv, ghosts
  <2> QED
    BY <2>1, <2>2
<1>2. CASE ResetPassword(r)
  <2>1. store' \in Store /\ issued' \in 0..MAX_CODES
    <3>1. CASE generateCode("reset")
      <4>1. [id |-> issued + 1, attempts |-> 0] \in Row /\ issued + 1 \in 0..MAX_CODES
        BY <3>1, AuthAssumption DEF generateCode, TypeOK, Row, Codes
      <4> QED
        BY <3>1, <4>1, CodeTyped DEF generateCode, Purposes
    <3>2. CASE UNCHANGED <<store, issued>>
      BY <3>2 DEF TypeOK
    <3> QED
      BY <1>2, <3>1, <3>2 DEF ResetPassword
  <2> QED
    BY <1>2, <2>1, AuthAssumption DEF ResetPassword, Starts, TypeOK, SeenInv, ghosts
<1>3. ASSUME NEW op \in {"confirmSignUp", "confirmResetPassword"}, NEW guess \in 0..issued,
             VerifyCode(r, op, guess)
      PROVE  TypeOK' /\ SeenInv'
  <2>1. PICK view \in Views :
          LET row == view.code[IF op = "confirmSignUp" THEN "signup" ELSE "reset"]
          IN  IF row = None THEN UNCHANGED req ELSE Begin(r, op, "reserve", guess, row)
    BY <1>3 DEF VerifyCode
  <2> DEFINE row == view.code[IF op = "confirmSignUp" THEN "signup" ELSE "reset"]
  <2>2. row \in Row \cup {None} /\ guess \in Nat
    BY ViewTyped DEF Store, Purposes, TypeOK
  <2>3. CASE row = None
    BY <1>3, <2>1, <2>3, AuthAssumption DEF VerifyCode, Starts, TypeOK, SeenInv, ghosts
  <2>4. CASE row # None
    <3>1. started' \in 0..MAX_REQUESTS /\ req' \in [Requests -> Request] /\ SeenInv'
      BY <1>3, <2>1, <2>2, <2>4, BeginTyped DEF VerifyCode, Op, Place, Userful
    <3> QED
      BY <1>3, <3>1 DEF VerifyCode, TypeOK, ghosts
  <2> QED
    BY <2>3, <2>4
<1>4. ASSUME NEW password \in 0..started, SignIn(r, password)
      PROVE  TypeOK' /\ SeenInv'
  <2>1. CASE UNCHANGED req
    BY <1>4, <2>1, AuthAssumption DEF SignIn, Starts, TypeOK, SeenInv, ghosts
  <2>2. CASE Begin(r, "signIn", "stamp", 0, None)
    <3>1. started' \in 0..MAX_REQUESTS /\ req' \in [Requests -> Request] /\ SeenInv'
      BY <1>4, <2>2, BeginTyped DEF SignIn, Op, Place, Userful, Codeful
    <3> QED
      BY <1>4, <3>1 DEF SignIn, TypeOK, ghosts
  <2> QED
    BY <1>4, <2>1, <2>2 DEF SignIn
<1> QED
  BY <1>1, <1>2, <1>3, <1>4 DEF Arrive

\* What is not a step of a request leaves them all as they are.
Environment ==
    \/ \E c \in Codes : CodeExpires(c)
    \/ \E purpose \in Purposes : Reap(purpose)
    \/ CatchUp

LEMMA EnvironmentTyped ==
    ASSUME TypeOK, SeenInv, Environment
    PROVE  TypeOK' /\ SeenInv'
<1>1. ASSUME NEW c \in Codes, CodeExpires(c)
      PROVE  TypeOK' /\ SeenInv'
  BY <1>1 DEF CodeExpires, TypeOK, SeenInv, ghosts
<1>2. ASSUME NEW purpose \in Purposes, Reap(purpose)
      PROVE  TypeOK' /\ SeenInv'
  BY <1>2, CodeTyped DEF Reap, TypeOK, SeenInv, ghosts
<1>3. CASE CatchUp
  BY <1>3 DEF CatchUp, TypeOK, SeenInv, ghosts
<1> QED
  BY <1>1, <1>2, <1>3 DEF Environment

LEMMA InitTyped == Init => TypeOK /\ SeenInv
<1> SUFFICES ASSUME Init PROVE TypeOK /\ SeenInv
  OBVIOUS
<1>1. NoStore \in Store /\ Registered \in Store
  <2>1. [password |-> 0, unconfirmed |-> FALSE] \in User
    BY AuthAssumption DEF User, Password
  <2>2. NoStore \in Store
    BY DEF NoStore, Store
  <2> QED
    BY <2>1, <2>2 DEF Registered, Store
<1>2. req \in [Requests -> Request] /\ SeenInv
  BY IdleTyped DEF Init, SeenInv
<1>3. TypeOK
  BY <1>1, <1>2, AuthAssumption DEF Init, TypeOK
<1> QED
  BY <1>2, <1>3

LEMMA StepTyped == TypeOK /\ SeenInv /\ [Next]_vars => TypeOK' /\ SeenInv'
<1> SUFFICES ASSUME TypeOK, SeenInv, [Next]_vars PROVE TypeOK' /\ SeenInv'
  OBVIOUS
<1>1. ASSUME NEW r \in Requests, Step(r) PROVE TypeOK' /\ SeenInv'
  BY <1>1, CodeStepTyped, RecordStepTyped DEF Step
<1>2. ASSUME NEW r \in Requests, RequestDies(r) PROVE TypeOK' /\ SeenInv'
  BY <1>2, EndTyped DEF RequestDies, TypeOK, ghosts
<1>3. CASE UNCHANGED vars
  BY <1>3 DEF vars, TypeOK, SeenInv
<1> QED
  BY <1>1, <1>2, <1>3, ArriveTyped, EnvironmentTyped DEF Next, Environment

\* Every reachable state is well typed, and every request holds what its place
\* in the code asks for.
THEOREM AuthTypes == Spec => [](TypeOK /\ SeenInv)
BY InitTyped, StepTyped, PTL DEF Spec

-------------------------------------------------------------------------------
(* Codes.                                                                  *)

LEMMA NoneIsNoRow == None \notin Row
BY AuthAssumption DEF Row, Codes

\* The steps that touch no row, issue no code and let nobody through.
CodesKept == store'.code = store.code /\ UNCHANGED <<issued, verified>>

LEMMA CodesStay == CodeInv /\ CodesKept => CodeInv'
BY DEF CodeInv, CodesKept

\* A row may go, may be counted up, or may be replaced by that of a new code.
LEMMA RowChanges ==
    ASSUME TypeOK, CodeInv, NEW p \in Purposes, NEW row \in Row \cup {None}, SetCode(p, row),
           verified' = verified,
           \/ row = None /\ issued' = issued
           \/ row # None /\ store.code[p] # None /\ row.id = store.code[p].id /\ issued' = issued
           \/ row # None /\ row.id = issued + 1 /\ issued' = issued + 1
    PROVE  CodeInv'
<1>1. /\ store'.code \in [Purposes -> Row \cup {None}]
      /\ store'.code[p] = row
      /\ \A q \in Purposes : q # p => store'.code[q] = store.code[q]
  BY DEF SetCode, TypeOK, Store
<1>2. issued \in Nat /\ issued' \in Nat /\ \A r \in Row : r.id \in Nat /\ r.id \in Codes
  BY AuthAssumption DEF TypeOK, Row, Codes
<1>3. \A q \in Purposes : store.code[q] \in Row \cup {None}
  BY DEF TypeOK, Store
<1>4. CASE row = None
  BY <1>1, <1>2, <1>4 DEF CodeInv
<1>5. CASE row # None /\ store.code[p] # None /\ row.id = store.code[p].id /\ issued' = issued
  BY <1>1, <1>2, <1>5 DEF CodeInv
<1>6. CASE row # None /\ row.id = issued + 1 /\ issued' = issued + 1
  <2>1. verified[row.id] = 0
    BY <1>2, <1>6 DEF CodeInv
  <2>2. \A q \in Purposes : store.code[q] # None => store.code[q].id < row.id
    BY <1>2, <1>3, <1>6 DEF CodeInv
  <2>3. \A c \in Codes : c > issued + 1 => verified[c] = 0
    BY <1>2, AuthAssumption DEF CodeInv, Codes
  <2>4. \A q \in Purposes : store'.code[q] # None =>
            store'.code[q].id <= issued' /\ verified'[store'.code[q].id] = 0
    BY <1>1, <1>2, <1>3, <1>6, <2>1, <2>2 DEF CodeInv
  <2>5. \A q1, q2 \in Purposes :
            store'.code[q1] # None /\ store'.code[q2] # None /\ q1 # q2
            => store'.code[q1].id # store'.code[q2].id
    <3> SUFFICES ASSUME NEW q1 \in Purposes, NEW q2 \in Purposes, q1 # q2,
                        store'.code[q1] # None, store'.code[q2] # None
                 PROVE  store'.code[q1].id # store'.code[q2].id
      OBVIOUS
    <3>1. CASE q1 = p
      BY <1>1, <1>2, <1>3, <2>2, <3>1
    <3>2. CASE q2 = p
      BY <1>1, <1>2, <1>3, <2>2, <3>2
    <3>3. CASE q1 # p /\ q2 # p
      BY <1>1, <3>3 DEF CodeInv
    <3> QED
      BY <3>1, <3>2, <3>3
  <2> QED
    BY <1>6, <2>3, <2>4, <2>5 DEF CodeInv
<1> QED
  BY <1>4, <1>5, <1>6

LEMMA CodeIssued ==
    ASSUME TypeOK, CodeInv, NEW p \in Purposes, generateCode(p), verified' = verified
    PROVE  CodeInv'
<1>1. [id |-> issued + 1, attempts |-> 0] \in Row
  BY AuthAssumption DEF generateCode, TypeOK, Row, Codes
<1> QED
  BY <1>1, NoneIsNoRow, RowChanges DEF generateCode

\* The row a request compares with the stored one is a row, and its purpose is one.
LEMMA SeenRow ==
    ASSUME TypeOK, SeenInv, NEW r \in Requests, req[r].pc \in Codeful
    PROVE  req[r] \in Request /\ req[r].seen \in Row /\ Purpose(r) \in Purposes
BY DEF TypeOK, SeenInv, Coherent, Purpose, Purposes

\* Who deletes the row is let through, and is the first.
LEMMA ConsumeOnce ==
    ASSUME TypeOK, SeenInv, CodeInv, CodeUsedOnce, NEW r \in Requests, Consume(r)
    PROVE  CodeInv' /\ CodeUsedOnce'
<1> DEFINE p == Purpose(r)
           row == req[r].seen
<1>1. row \in Row /\ p \in Purposes
  BY SeenRow DEF Consume, Codeful
<1>2. CASE store.code[p] # row
  <2>1. CodesKept /\ verified' = verified
    BY <1>2 DEF Consume, CodesKept
  <2> QED
    BY <2>1, CodesStay DEF CodeUsedOnce
<1>3. CASE store.code[p] = row
  <2>1. SetCode(p, None) /\ issued' = issued /\ verified' = [verified EXCEPT ![row.id] = @ + 1]
    BY <1>3 DEF Consume, LetThrough
  <2>2. row # None /\ row.id \in Codes /\ row.id <= issued /\ verified[row.id] = 0
    BY <1>1, <1>3, NoneIsNoRow DEF CodeInv, Row
  <2>3. /\ store'.code \in [Purposes -> Row \cup {None}]
        /\ store'.code[p] = None
        /\ \A q \in Purposes : q # p => store'.code[q] = store.code[q]
    BY <1>1, <2>1 DEF SetCode, TypeOK, Store
  <2>4. \A c \in Codes : verified'[c] = IF c = row.id THEN 1 ELSE verified[c]
    BY <2>1, <2>2 DEF TypeOK
  <2>5. CodeUsedOnce'
    BY <2>4 DEF CodeUsedOnce
  <2>6. \A q \in Purposes : store'.code[q] # None =>
            store'.code[q].id <= issued' /\ verified'[store'.code[q].id] = 0
    <3> SUFFICES ASSUME NEW q \in Purposes, store'.code[q] # None
                 PROVE  store'.code[q].id <= issued' /\ verified'[store'.code[q].id] = 0
      OBVIOUS
    <3>1. q # p /\ store'.code[q] = store.code[q] /\ store.code[q] \in Row
      BY <2>3 DEF TypeOK, Store
    <3>2. store.code[q].id # row.id /\ store.code[q].id \in Codes
      BY <1>1, <1>3, <2>2, <3>1 DEF CodeInv, Row
    <3> QED
      BY <2>1, <2>4, <3>1, <3>2 DEF CodeInv
  <2>7. \A c \in Codes : c > issued' => verified'[c] = 0
    BY <2>1, <2>2, <2>4, AuthAssumption DEF CodeInv, TypeOK, Codes
  <2> QED
    BY <2>3, <2>5, <2>6, <2>7 DEF CodeInv
<1> QED
  BY <1>2, <1>3

LEMMA CodeStep ==
    TypeOK /\ SeenInv /\ CodeInv /\ CodeUsedOnce /\ [Next]_vars => CodeInv' /\ CodeUsedOnce'
<1> SUFFICES ASSUME TypeOK, SeenInv, CodeInv, CodeUsedOnce, [Next]_vars
             PROVE  CodeInv' /\ CodeUsedOnce'
  OBVIOUS
<1>1. verified' = verified => CodeUsedOnce'
  BY DEF CodeUsedOnce
<1>2. ASSUME NEW r \in Requests, DropSpent(r) PROVE CodeInv' /\ CodeUsedOnce'
  <2>1. Purpose(r) \in Purposes
    BY DEF Purpose, Purposes
  <2>2. CASE store.code[Purpose(r)] = req[r].seen
    BY <1>1, <1>2, <2>1, <2>2, RowChanges DEF DropSpent, ghosts
  <2>3. CASE store.code[Purpose(r)] # req[r].seen
    BY <1>1, <1>2, <2>3, CodesStay DEF DropSpent, CodesKept, ghosts
  <2> QED
    BY <2>2, <2>3
<1>3. ASSUME NEW r \in Requests, Reserve(r) PROVE CodeInv' /\ CodeUsedOnce'
  <2>1. Purpose(r) \in Purposes /\ req[r].seen \in Row
    BY <1>3, SeenRow DEF Reserve, Codeful
  <2>2. CASE store.code[Purpose(r)] = req[r].seen
    <3>1. Reserved(req[r].seen) \in Row /\ Reserved(req[r].seen).id = req[r].seen.id
      BY <1>3, <2>1, AuthAssumption DEF Reserve, Spent, Reserved, Row
    <3>2. store.code[Purpose(r)] # None
      BY <2>1, <2>2, NoneIsNoRow
    <3> QED
      BY <1>1, <1>3, <2>1, <2>2, <3>1, <3>2, NoneIsNoRow, RowChanges DEF Reserve, ghosts
  <2>3. CASE store.code[Purpose(r)] # req[r].seen
    BY <1>1, <1>3, <2>3, CodesStay DEF Reserve, CodesKept, ghosts
  <2> QED
    BY <2>2, <2>3
<1>4. ASSUME NEW r \in Requests, IssueSignUpCode(r) \/ ResetPassword(r)
      PROVE  CodeInv' /\ CodeUsedOnce'
  <2>1. verified' = verified
    BY <1>4 DEF IssueSignUpCode, ResetPassword, ghosts
  <2>2. UNCHANGED <<store, issued>> \/ \E p \in Purposes : generateCode(p)
    BY <1>4 DEF IssueSignUpCode, ResetPassword, Purposes
  <2> QED
    BY <1>1, <2>1, <2>2, CodeIssued, CodesStay DEF CodesKept
<1>5. ASSUME NEW p \in Purposes, Reap(p) PROVE CodeInv' /\ CodeUsedOnce'
  BY <1>1, <1>5, RowChanges DEF Reap, ghosts
<1>6. ASSUME NEW r \in Requests,
             \/ Evaluate(r) \/ Reread(r) \/ GetUserRecord(r) \/ PutUserRecord(r)
             \/ ReadEpoch(r) \/ PutEpoch(r) \/ SetCookie(r) \/ SignUp(r) \/ RequestDies(r)
             \/ \E op \in {"confirmSignUp", "confirmResetPassword"}, guess \in 0..issued :
                    VerifyCode(r, op, guess)
             \/ \E password \in 0..started : SignIn(r, password)
      PROVE  CodeInv' /\ CodeUsedOnce'
  <2>1. CodesKept
    BY <1>6 DEF Evaluate, Reread, GetUserRecord, PutUserRecord, ReadEpoch, PutEpoch, BumpDone,
       BumpMissed, SetCookie, SignUp, RequestDies, VerifyCode, SignIn, CodesKept, ghosts, TypeOK,
       Store
  <2> QED
    BY <1>1, <2>1, CodesStay DEF CodesKept
<1>7. CASE UNCHANGED vars \/ CatchUp \/ \E c \in Codes : CodeExpires(c)
  <2>1. CodesKept
    BY <1>7 DEF vars, CatchUp, CodeExpires, CodesKept, ghosts
  <2> QED
    BY <1>1, <2>1, CodesStay DEF CodesKept
<1> QED
  BY <1>2, <1>3, <1>4, <1>5, <1>6, <1>7, ConsumeOnce DEF Next, Step, Arrive

\* A code lets one request through at most (verifyCode: "succeed only if THIS request
\* consumes the row"), for any number of requests and any stale read.
THEOREM CodesUsedOnce == Spec => []CodeUsedOnce
<1> DEFINE IInv == TypeOK /\ SeenInv /\ CodeInv /\ CodeUsedOnce
<1>1. Init => IInv
  <2> SUFFICES ASSUME Init PROVE IInv
    OBVIOUS
  <2>1. \A p \in Purposes : store.code[p] = None
    BY DEF Init, NoStore, Registered
  <2> QED
    BY <2>1, InitTyped DEF Init, CodeInv, CodeUsedOnce
<1>2. IInv /\ [Next]_vars => IInv'
  BY StepTyped, CodeStep
<1>3. IInv => CodeUsedOnce
  OBVIOUS
<1> QED
  BY <1>1, <1>2, <1>3, PTL DEF Spec

-------------------------------------------------------------------------------
(* Sessions.                                                               *)

\* The requests with the record they are about to write are those that were.
SameWriters ==
    \A r \in Requests : req'[r].pc = "write" => req[r].pc = "write" /\ req'[r].seen = req[r].seen

\* What neither moves the epoch or the passwords nor makes a token keeps both.
SessionsKept ==
    /\ store'.epoch = store.epoch /\ store'.user = store.user
    /\ old' \in Views
    /\ UNCHANGED <<tokens, bumped>>
    /\ SameWriters

LEMMA EpochStays ==
    ASSUME TypeOK, EpochInv, store'.epoch = store.epoch, old' \in Views, UNCHANGED <<tokens, bumped>>
    PROVE  EpochInv'
BY DEF TypeOK, Store, Views, EpochInv

LEMMA PasswordsStay ==
    ASSUME PasswordInv, store'.user = store.user, old' \in Views, bumped \subseteq bumped', SameWriters
    PROVE  PasswordInv'
BY DEF PasswordInv, Views, SameWriters

LEMMA SessionsStay ==
    ASSUME TypeOK, EpochInv, PasswordInv, SessionsKept
    PROVE  EpochInv' /\ PasswordInv'
BY EpochStays, PasswordsStay DEF SessionsKept

\* A request that has gone on or ended is not one about to write, unless it says so.
LEMMA NotWriting ==
    ASSUME TypeOK, NEW r \in Requests, NEW pc, pc # "write", Go(r, pc) \/ End(r)
    PROVE  SameWriters
<1>1. \A s \in Requests : s # r => req'[s] = req[s]
  BY DEF TypeOK, Go, End
<1>2. req'[r].pc # "write"
  BY DEF TypeOK, Request, Go, End, Idle
<1> QED
  BY <1>1, <1>2 DEF SameWriters

LEMMA CodeStepKeepsSessions ==
    ASSUME TypeOK, NEW r \in Requests,
           \/ DropSpent(r) \/ Reserve(r) \/ Evaluate(r) \/ Consume(r) \/ Reread(r)
           \/ IssueSignUpCode(r) \/ RequestDies(r) \/ ReadEpoch(r)
    PROVE  SessionsKept
<1>1. SameWriters
  <2>1. CASE DropSpent(r) \/ Evaluate(r) \/ IssueSignUpCode(r) \/ RequestDies(r)
    BY <2>1, NotWriting DEF DropSpent, Evaluate, IssueSignUpCode, RequestDies
  <2>2. CASE Reserve(r) \/ Reread(r) \/ ReadEpoch(r)
    <3>1. \A s \in Requests : s # r => req'[s] = req[s]
      BY <2>2 DEF Reserve, Reread, ReadEpoch, End, TypeOK
    <3>2. req[r] \in Request
      BY DEF TypeOK
    <3>3. End(r) => req'[r].pc # "write"
      BY DEF End, Idle, TypeOK
    <3>4. ~End(r) => req'[r].pc # "write"
      <4>1. CASE Reserve(r)
        BY <3>2, <4>1 DEF Reserve, TypeOK, Request
      <4>2. CASE Reread(r)
        BY <3>2, <4>2 DEF Reread, TypeOK, Request
      <4>3. CASE ReadEpoch(r)
        BY <3>2, <4>3 DEF ReadEpoch, Then, TypeOK, Request
      <4> QED
        BY <2>2, <4>1, <4>2, <4>3
    <3> QED
      BY <3>1, <3>3, <3>4 DEF SameWriters
  <2>3. CASE Consume(r)
    BY <2>3, NotWriting DEF Consume, LetThrough
  <2> QED
    BY <2>1, <2>2, <2>3
<1>2. store'.epoch = store.epoch /\ store'.user = store.user
  BY DEF DropSpent, Reserve, Evaluate, Consume, Reread, IssueSignUpCode, generateCode, RequestDies,
     ReadEpoch, SetCode, TypeOK, Store
<1>3. UNCHANGED <<old, tokens, bumped>>
  BY DEF DropSpent, Reserve, Evaluate, Consume, LetThrough, Reread, IssueSignUpCode, RequestDies,
     ReadEpoch, ghosts
<1> QED
  BY <1>1, <1>2, <1>3 DEF SessionsKept, Views

LEMMA ArriveKeepsSessions ==
    ASSUME TypeOK, EpochInv, PasswordInv, NEW r \in Requests, Arrive(r)
    PROVE  EpochInv' /\ PasswordInv'
<1>1. UNCHANGED <<old, tokens, bumped>>
  BY DEF Arrive, SignUp, ResetPassword, VerifyCode, SignIn, ghosts
<1>2. SameWriters
  <2>1. UNCHANGED req \/ \E op, pc, guess, seen : pc # "write" /\ Begin(r, op, pc, guess, seen)
    BY DEF Arrive, SignUp, ResetPassword, VerifyCode, SignIn
  <2> QED
    BY <2>1 DEF Begin, TypeOK, SameWriters
<1>3. store'.epoch = store.epoch
  BY DEF Arrive, SignUp, ResetPassword, generateCode, SetCode, VerifyCode, SignIn, TypeOK, Store
<1>4. store'.user = store.user \/ store'.user = [password |-> 0, unconfirmed |-> TRUE]
  BY DEF Arrive, SignUp, ResetPassword, generateCode, SetCode, VerifyCode, SignIn, TypeOK, Store
<1>5. PasswordInv'
  BY <1>1, <1>2, <1>4 DEF PasswordInv, Views, SameWriters
<1> QED
  BY <1>1, <1>3, <1>5, EpochStays DEF Views

\* A bump moves the epoch past every session there is.
LEMMA BumpEndsSessions ==
    ASSUME TypeOK, SeenInv, EpochInv, PasswordInv, NEW r \in Requests, PutEpoch(r)
    PROVE  EpochInv' /\ PasswordInv'
<1> DEFINE q == req[r]
<1>1. /\ q \in Request /\ q.seen \in User /\ (q.pc = "put" => q.seen.password = q.n)
      /\ UNCHANGED <<old, tokens>>
  BY DEF PutEpoch, TypeOK, SeenInv, Coherent, Userful
<1>2. CASE store.epoch = q.guess /\ BumpDone(r)
  <2>1. store'.epoch = store.epoch + 1 /\ store'.user = store.user
    BY <1>2 DEF BumpDone, TypeOK, Store
  <2>2. EpochInv'
    BY <1>1, <2>1 DEF EpochInv, TypeOK, Store, Token
  <2>3. CASE First(r)
    <3>1. q.pc = "put" /\ <<q.seen.password, 1>> \in bumped' /\ bumped \subseteq bumped'
      BY <1>1, <1>2, <2>3 DEF PutEpoch, First, BumpDone
    <3>2. \A s \in Requests : s # r => req'[s] = req[s]
      BY <1>2, <2>3 DEF BumpDone, Go, TypeOK
    <3>3. req'[r].seen = q.seen
      BY <1>1, <1>2, <2>3 DEF BumpDone, Go, TypeOK, Request
    <3> QED
      BY <1>1, <2>1, <2>2, <3>1, <3>2, <3>3 DEF PasswordInv, Views
  <2>4. CASE ~First(r)
    <3>1. SameWriters /\ bumped \subseteq bumped'
      BY <1>2, <2>4, NotWriting DEF BumpDone
    <3> QED
      BY <1>1, <2>1, <2>2, <3>1, PasswordsStay DEF Views
  <2> QED
    BY <2>3, <2>4
<1>3. CASE BumpMissed(r)
  <2>1. SameWriters
    <3>1. \A s \in Requests : s # r => req'[s] = req[s]
      BY <1>3 DEF BumpMissed, End, TypeOK
    <3>2. req'[r].pc # "write"
      <4>1. CASE End(r)
        BY <4>1 DEF End, Idle, TypeOK
      <4>2. CASE req' = [req EXCEPT ![r].tries = @ + 1,
                                    ![r].pc = IF First(r) THEN "bump" ELSE "bump again"]
        BY <1>1, <4>2 DEF TypeOK, Request
      <4> QED
        BY <1>3, <4>1, <4>2 DEF BumpMissed
    <3> QED
      BY <3>1, <3>2 DEF SameWriters
  <2> QED
    BY <1>1, <1>3, <2>1, SessionsStay DEF BumpMissed, SessionsKept, Views
<1> QED
  BY <1>2, <1>3 DEF PutEpoch

\* The record that is written back carries a password whose reset has bumped.
LEMMA RecordKeepsSessions ==
    ASSUME TypeOK, SeenInv, EpochInv, PasswordInv, NEW r \in Requests,
           GetUserRecord(r) \/ PutUserRecord(r)
    PROVE  EpochInv' /\ PasswordInv'
<1> DEFINE q == req[r]
<1>1. q \in Request /\ UNCHANGED <<old, tokens, bumped>>
  BY DEF GetUserRecord, PutUserRecord, TypeOK, ghosts
<1>2. CASE GetUserRecord(r)
  <2>1. PICK view \in Views :
        IF view.user = None THEN End(r)
        ELSE req' = [req EXCEPT
                ![r].seen = IF q.op = "confirmSignUp"
                            THEN [view.user EXCEPT !.unconfirmed = FALSE]
                            ELSE [view.user EXCEPT !.password = q.n],
                ![r].pc = IF q.op = "confirmSignUp" THEN "write" ELSE "bump"]
    BY <1>2 DEF GetUserRecord
  <2>2. \A s \in Requests : s # r => req'[s] = req[s]
    BY <2>1 DEF End, TypeOK
  <2>3. store' = store
    BY <1>2 DEF GetUserRecord
  <2>4. req'[r].pc = "write" =>
          view.user # None /\ req'[r].seen = [view.user EXCEPT !.unconfirmed = FALSE]
    <3>1. CASE view.user = None
      BY <2>1, <3>1 DEF End, Idle, TypeOK
    <3>2. CASE view.user # None
      BY <1>1, <2>1, <3>2 DEF TypeOK, Request
    <3> QED
      BY <3>1, <3>2
  <2>5. view.user # None => view.user \in User
    BY ViewTyped DEF Store
  <2>6. req'[r].pc = "write" /\ req'[r].seen.password # 0 => <<req'[r].seen.password, 1>> \in bumped
    BY <2>4, <2>5 DEF User, PasswordInv
  <2> QED
    BY <1>1, <2>2, <2>3, <2>6, EpochStays DEF PasswordInv, Views
<1>3. CASE PutUserRecord(r)
  <2>1. q.pc = "write" /\ q.seen \in User
    BY <1>3 DEF PutUserRecord, SeenInv, Coherent, Userful
  <2>2. store'.user = q.seen /\ store'.epoch = store.epoch
    BY <1>3 DEF PutUserRecord, TypeOK, Store
  <2>3. SameWriters
    <3>1. \A s \in Requests : s # r => req'[s] = req[s]
      BY <1>3 DEF PutUserRecord, End, TypeOK
    <3>2. req'[r].pc # "write"
      <4>1. CASE End(r)
        BY <4>1 DEF End, Idle, TypeOK
      <4>2. CASE req' = [req EXCEPT ![r].pc = "bump again", ![r].tries = 0]
        BY <1>1, <4>2 DEF TypeOK, Request
      <4> QED
        BY <1>3, <4>1, <4>2 DEF PutUserRecord
    <3> QED
      BY <3>1, <3>2 DEF SameWriters
  <2> QED
    BY <1>1, <2>1, <2>2, <2>3, EpochStays DEF PasswordInv, Views, SameWriters
<1> QED
  BY <1>2, <1>3

LEMMA SessionStep ==
    TypeOK /\ SeenInv /\ EpochInv /\ PasswordInv /\ [Next]_vars => EpochInv' /\ PasswordInv'
<1> SUFFICES ASSUME TypeOK, SeenInv, EpochInv, PasswordInv, [Next]_vars
             PROVE  EpochInv' /\ PasswordInv'
  OBVIOUS
<1>1. ASSUME NEW r \in Requests, Step(r) \/ RequestDies(r) PROVE EpochInv' /\ PasswordInv'
  <2>1. CASE SetCookie(r)
    <3>1. PICK view \in Views : tokens' = tokens \cup {[ep |-> view.epoch, after |-> bumped]}
      BY <2>1 DEF SetCookie
    <3>2. UNCHANGED <<store, old, bumped>> /\ SameWriters
      BY <2>1, NotWriting DEF SetCookie, ghosts
    <3>3. view.epoch <= store.epoch
      BY DEF EpochInv, Views, TypeOK, Store
    <3>4. EpochInv'
      BY <3>1, <3>2, <3>3 DEF EpochInv
    <3> QED
      BY <3>2, <3>4, PasswordsStay DEF Views
  <2> QED
    BY <1>1, <2>1, CodeStepKeepsSessions, SessionsStay, BumpEndsSessions, RecordKeepsSessions DEF Step
<1>2. CASE UNCHANGED vars \/ Environment
  <2>1. SessionsKept
    BY <1>2 DEF vars, Environment, CodeExpires, Reap, SetCode, CatchUp, SessionsKept, SameWriters,
       Views, ghosts, TypeOK, Store
  <2> QED
    BY <2>1, SessionsStay
<1> QED
  BY <1>1, <1>2, ArriveKeepsSessions DEF Next, Environment

\* A reset that has changed the password has ended the sessions before it
\* (confirmResetPassword: "Invalidate every outstanding session BEFORE the new
\* password goes live"), for any number of requests, stale reads and lost comparisons.
THEOREM ResetEndsSessions == Spec => []NoSessionOutlivesReset
<1> DEFINE IInv == TypeOK /\ SeenInv /\ EpochInv /\ PasswordInv
<1>1. Init => IInv
  <2> SUFFICES ASSUME Init PROVE IInv
    OBVIOUS
  <2>1. store.user = None \/ store.user = [password |-> 0, unconfirmed |-> FALSE]
    <3>1. NoStore.user = None /\ Registered.user = [password |-> 0, unconfirmed |-> FALSE]
      BY DEF NoStore, Registered
    <3> QED
      BY <3>1 DEF Init
  <2>2. PasswordInv
    BY <2>1 DEF Init, PasswordInv, Views, Idle
  <2> QED
    BY <2>2, InitTyped DEF Init, EpochInv, TypeOK, Store
<1>2. IInv /\ [Next]_vars => IInv'
  BY StepTyped, SessionStep
<1>3. IInv => NoSessionOutlivesReset
  <2> SUFFICES ASSUME IInv, NEW t \in tokens, ~(t.ep < store.epoch)
               PROVE  /\ bumped \subseteq t.after
                      /\ store.user # None /\ store.user.password # 0
                            => <<store.user.password, 1>> \in t.after
    BY DEF NoSessionOutlivesReset
  <2>1. bumped \subseteq t.after
    BY DEF EpochInv, TypeOK, Token, Store
  <2> QED
    BY <2>1 DEF PasswordInv, Views
<1> QED
  BY <1>1, <1>2, <1>3, PTL DEF Spec

-------------------------------------------------------------------------------
(* Attempts.                                                               *)

\* Nobody else changes in the step of a request.
OthersStay(r) == \A s \in Requests : s # r => req'[s] = req[s]

LEMMA OneStepsAtATime ==
    ASSUME TypeOK, NEW r \in Requests, Arrive(r) \/ Step(r) \/ RequestDies(r)
    PROVE  OthersStay(r)
<1>1. CASE Arrive(r)
  BY <1>1 DEF Arrive, SignUp, ResetPassword, VerifyCode, SignIn, Begin, TypeOK, OthersStay
<1>2. CASE RequestDies(r)
  BY <1>2 DEF RequestDies, End, TypeOK, OthersStay
<1>3. CASE DropSpent(r) \/ Reserve(r) \/ Evaluate(r) \/ Consume(r) \/ Reread(r)
  BY <1>3 DEF DropSpent, Reserve, Evaluate, Consume, LetThrough, Reread, Go, End, TypeOK, OthersStay
<1>4. CASE IssueSignUpCode(r) \/ GetUserRecord(r) \/ PutUserRecord(r) \/ ReadEpoch(r)
             \/ PutEpoch(r) \/ SetCookie(r)
  BY <1>4 DEF IssueSignUpCode, GetUserRecord, PutUserRecord, ReadEpoch, PutEpoch, BumpDone,
     BumpMissed, SetCookie, Go, End, TypeOK, OthersStay
<1> QED
  BY <1>1, <1>2, <1>3, <1>4 DEF Step

\* Only a reservation lets a request look at its guess.
LEMMA NotComparing ==
    ASSUME TypeOK, NEW r \in Requests,
           \/ Arrive(r)
           \/ RequestDies(r)
           \/ Step(r) /\ ~Reserve(r)
           \/ Reserve(r) /\ store.code[Purpose(r)] # req[r].seen
    PROVE  req'[r].pc # "evaluate"
<1>1. req[r] \in Request
  BY DEF TypeOK
<1>2. End(r) => req'[r].pc # "evaluate"
  BY DEF End, Idle, TypeOK
<1>3. \A pc : Go(r, pc) => req'[r].pc = pc
  BY <1>1 DEF Go, TypeOK, Request
<1>4. CASE Arrive(r)
  <2>1. req[r].pc = "idle"
    BY <1>4 DEF Arrive, SignUp, ResetPassword, VerifyCode, SignIn, Starts
  <2>2. UNCHANGED req \/ \E op, pc, guess, seen : pc # "evaluate" /\ Begin(r, op, pc, guess, seen)
    BY <1>4 DEF Arrive, SignUp, ResetPassword, VerifyCode, SignIn
  <2> QED
    BY <2>1, <2>2 DEF Begin, TypeOK
<1>5. CASE DropSpent(r) \/ Evaluate(r) \/ Consume(r) \/ IssueSignUpCode(r) \/ SetCookie(r)
             \/ RequestDies(r) \/ (Reserve(r) /\ store.code[Purpose(r)] # req[r].seen)
  BY <1>2, <1>3, <1>5 DEF DropSpent, Reserve, Evaluate, Consume, LetThrough, IssueSignUpCode,
     SetCookie, RequestDies
<1>6. CASE Reread(r)
  <2>1. End(r) \/ \E row : req' = [req EXCEPT ![r].pc = "consume", ![r].seen = row]
    BY <1>6 DEF Reread
  <2> QED
    BY <1>1, <1>2, <2>1 DEF TypeOK, Request
<1>7. CASE GetUserRecord(r)
  <2>1. End(r) \/ \E user, pc : pc # "evaluate" /\ req' = [req EXCEPT ![r].seen = user, ![r].pc = pc]
    BY <1>7 DEF GetUserRecord
  <2> QED
    BY <1>1, <1>2, <2>1 DEF TypeOK, Request
<1>8. CASE PutUserRecord(r)
  <2>1. End(r) \/ req' = [req EXCEPT ![r].pc = "bump again", ![r].tries = 0]
    BY <1>8 DEF PutUserRecord
  <2>2. req' = [req EXCEPT ![r].pc = "bump again", ![r].tries = 0] => req'[r].pc = "bump again"
    BY <1>1 DEF TypeOK, Request
  <2> QED
    BY <1>2, <2>1, <2>2
<1>9. CASE ReadEpoch(r)
  BY <1>1, <1>9 DEF ReadEpoch, Then, TypeOK, Request
<1>10. CASE PutEpoch(r)
  <2>1. CASE BumpDone(r)
    BY <1>2, <1>3, <2>1 DEF BumpDone
  <2>2. CASE BumpMissed(r)
    <3>1. End(r) \/ req' = [req EXCEPT ![r].tries = @ + 1,
                                      ![r].pc = IF First(r) THEN "bump" ELSE "bump again"]
      BY <2>2 DEF BumpMissed
    <3> QED
      BY <1>1, <1>2, <3>1 DEF TypeOK, Request
  <2> QED
    BY <1>10, <2>1, <2>2 DEF PutEpoch
<1> QED
  BY <1>4, <1>5, <1>6, <1>7, <1>8, <1>9, <1>10 DEF Step

LEMMA ComparingFinite ==
    ASSUME NEW c
    PROVE  /\ Comparing(c) \subseteq Requests /\ IsFiniteSet(Comparing(c))
           /\ Cardinality(Comparing(c)) \in Nat
<1>1. Comparing(c) \subseteq Requests
  BY DEF Comparing
<1> QED
  BY <1>1, AuthAssumption, FS_Subset, FS_CardinalityType

\* Who stops comparing gives nothing back; who never did changes nothing.
LEMMA FewerCompare ==
    ASSUME TypeOK, NEW r \in Requests, OthersStay(r), req'[r].pc # "evaluate",
           evaluated' = evaluated, NEW c \in Codes
    PROVE  Used'[c] \in Nat /\ Used'[c] <= Used[c]
<1>1. Comparing(c)' \subseteq Comparing(c)
  BY DEF Comparing, OthersStay
<1>2. /\ Cardinality(Comparing(c)') \in Nat /\ Cardinality(Comparing(c)) \in Nat
      /\ Cardinality(Comparing(c)') <= Cardinality(Comparing(c))
  BY <1>1, ComparingFinite, FS_Subset, FS_CardinalityType
<1> QED
  BY <1>2 DEF Used, TypeOK

\* A comparison made is one that was reserved.
LEMMA EvaluateKeepsUsed ==
    ASSUME TypeOK, SeenInv, NEW r \in Requests, Evaluate(r), NEW c \in Codes
    PROVE  Used'[c] \in Nat /\ Used'[c] <= Used[c]
<1>1. OthersStay(r) /\ req'[r].pc # "evaluate" /\ req[r].pc = "evaluate"
  <2>1. Step(r) /\ ~Reserve(r)
    BY DEF Evaluate, Reserve, Step
  <2> QED
    BY <2>1, OneStepsAtATime, NotComparing DEF Evaluate
<1>2. req[r].seen.id \in Codes /\ evaluated[c] \in Nat
  BY <1>1, SeenRow DEF Codeful, Row, TypeOK
<1>3. CASE c = req[r].seen.id
  <2>1. r \in Comparing(c) /\ Comparing(c)' = Comparing(c) \ {r}
    BY <1>1, <1>3 DEF Comparing, OthersStay
  <2>2. /\ Cardinality(Comparing(c)') = Cardinality(Comparing(c)) - 1
        /\ Cardinality(Comparing(c)) \in Nat /\ Cardinality(Comparing(c)') \in Nat
    <3>1. IsFiniteSet(Comparing(c) \ {r})
      BY ComparingFinite, FS_Subset
    <3> QED
      BY <2>1, <3>1, ComparingFinite, FS_RemoveElement, FS_CardinalityType
  <2>3. evaluated'[c] = evaluated[c] + 1
    BY <1>3 DEF Evaluate, TypeOK
  <2> QED
    BY <1>2, <2>2, <2>3 DEF Used
<1>4. CASE c # req[r].seen.id
  <2>1. Comparing(c)' = Comparing(c)
    BY <1>1, <1>4 DEF Comparing, OthersStay
  <2>2. evaluated'[c] = evaluated[c]
    BY <1>4 DEF Evaluate, TypeOK
  <2> QED
    BY <1>2, <2>1, <2>2, ComparingFinite DEF Used
<1> QED
  BY <1>3, <1>4

\* A row that was there, or the one of a code nobody has guessed at.
LEMMA AttemptsStay ==
    ASSUME TypeOK, CodeInv, AttemptInv, issued' \in Nat,
           \A c \in Codes : Used'[c] \in Nat /\ Used'[c] <= Used[c],
           \A p \in Purposes :
             \/ store'.code[p] = None \/ store'.code[p] = store.code[p]
             \/ store'.code[p] = [id |-> issued + 1, attempts |-> 0] /\ issued < MAX_CODES,
           issued' >= issued
    PROVE  AttemptInv'
<1>1. \A c \in Codes : Used[c] \in Nat /\ c \in Nat
  BY ComparingFinite DEF Used, TypeOK, Codes
<1>2. issued \in Nat /\ MAX_CODE_ATTEMPTS \in Nat
  BY AuthAssumption DEF TypeOK
<1>3. \A c \in Codes : Used'[c] <= MAX_CODE_ATTEMPTS
  BY <1>1, <1>2 DEF AttemptInv
<1>4. \A c \in Codes : c > issued' => Used'[c] = 0
  BY <1>1, <1>2 DEF AttemptInv
<1>5. ASSUME NEW p \in Purposes, store'.code[p] # None
      PROVE  Used'[store'.code[p].id] <= store'.code[p].attempts
  <2>1. CASE store'.code[p] = store.code[p]
    <3>1. store.code[p] \in Row
      BY <1>5, <2>1 DEF TypeOK, Store
    <3> QED
      BY <1>1, <1>5, <2>1, <3>1, AuthAssumption DEF AttemptInv, Row
  <2>2. CASE store'.code[p] = [id |-> issued + 1, attempts |-> 0] /\ issued < MAX_CODES
    <3>1. issued + 1 \in Codes /\ Used[issued + 1] = 0
      BY <1>2, <2>2, AuthAssumption DEF Codes, AttemptInv
    <3> QED
      BY <1>1, <2>2, <3>1
  <2> QED
    BY <1>5, <2>1, <2>2
<1> QED
  BY <1>3, <1>4, <1>5 DEF AttemptInv

\* The attempt is counted in the row by the request that will use it.
LEMMA ReserveCounts ==
    ASSUME TypeOK, SeenInv, CodeInv, AttemptInv, NEW r \in Requests, Reserve(r),
           store.code[Purpose(r)] = req[r].seen
    PROVE  AttemptInv'
<1> DEFINE p == Purpose(r)
           row == req[r].seen
<1>1. row \in Row /\ p \in Purposes /\ req[r] \in Request /\ row # None
  BY SeenRow, NoneIsNoRow DEF Reserve, Codeful
<1>2. row.attempts < MAX_CODE_ATTEMPTS /\ row.id \in Codes /\ row.attempts \in Nat
  BY <1>1, AuthAssumption DEF Reserve, Spent, Row
<1>3. OthersStay(r) /\ req[r].pc = "reserve"
  BY OneStepsAtATime DEF Step, Reserve
<1>4. req' = [req EXCEPT ![r].pc = "evaluate", ![r].seen = Reserved(@)]
  BY DEF Reserve
<1>5. req'[r].pc = "evaluate" /\ req'[r].seen.id = row.id
  BY <1>1, <1>4 DEF TypeOK, Request, Reserved, Row
<1>6. evaluated' = evaluated /\ issued' = issued
  BY DEF Reserve, ghosts
<1>7. \A c \in Codes : c # row.id => Used'[c] = Used[c]
  <2> SUFFICES ASSUME NEW c \in Codes, c # row.id PROVE Used'[c] = Used[c]
    OBVIOUS
  <2>1. Comparing(c)' = Comparing(c)
    BY <1>3, <1>5 DEF Comparing, OthersStay
  <2> QED
    BY <1>6, <2>1 DEF Used
<1>8. Used'[row.id] = Used[row.id] + 1
  <2> SUFFICES ASSUME NEW c \in Codes, c = row.id PROVE Used'[c] = Used[c] + 1
    BY <1>2
  <2>1. r \notin Comparing(c) /\ Comparing(c)' = Comparing(c) \cup {r}
    BY <1>3, <1>5 DEF Comparing, OthersStay
  <2>2. Cardinality(Comparing(c) \cup {r}) = Cardinality(Comparing(c)) + 1
    BY <2>1, ComparingFinite, FS_AddElement
  <2>3. Cardinality(Comparing(c)) \in Nat /\ evaluated[c] \in Nat
    BY ComparingFinite DEF TypeOK
  <2>4. Used[c] = evaluated[c] + Cardinality(Comparing(c))
    BY DEF Used
  <2>5. Used'[c] = evaluated[c] + Cardinality(Comparing(c)')
    BY <1>6 DEF Used
  <2> QED
    BY <2>1, <2>2, <2>3, <2>4, <2>5
<1>9. \A c \in Codes : Used[c] \in Nat /\ c \in Nat
  BY ComparingFinite DEF Used, TypeOK, Codes
<1>10. Used[row.id] <= row.attempts /\ row.id <= issued
  BY <1>1 DEF AttemptInv, CodeInv
<1>11. /\ store'.code[p] = Reserved(row)
       /\ \A q \in Purposes : q # p => store'.code[q] = store.code[q]
  BY <1>1 DEF Reserve, SetCode, TypeOK, Store
<1>12. \A c \in Codes : Used'[c] <= MAX_CODE_ATTEMPTS
  BY <1>2, <1>7, <1>8, <1>9, <1>10, AuthAssumption DEF AttemptInv
<1>13. \A c \in Codes : c > issued' => Used'[c] = 0
  BY <1>2, <1>6, <1>7, <1>9, <1>10 DEF AttemptInv, TypeOK
<1>14. ASSUME NEW q \in Purposes, store'.code[q] # None
       PROVE  Used'[store'.code[q].id] <= store'.code[q].attempts
  <2>1. CASE q = p
    <3>1. Reserved(row).id = row.id /\ Reserved(row).attempts = row.attempts + 1
      BY <1>1 DEF Reserved, Row
    <3> QED
      BY <1>2, <1>8, <1>9, <1>10, <1>11, <2>1, <3>1
  <2>2. CASE q # p
    <3>1. store'.code[q] = store.code[q] /\ store.code[q] \in Row /\ store.code[q] # None
      BY <1>11, <1>14, <2>2 DEF TypeOK, Store
    <3>2. store.code[q].id # row.id /\ store.code[q].id \in Codes
      BY <1>1, <2>2, <3>1 DEF CodeInv, Row
    <3> QED
      BY <1>7, <3>1, <3>2 DEF AttemptInv
  <2> QED
    BY <2>1, <2>2
<1> QED
  BY <1>12, <1>13, <1>14 DEF AttemptInv

\* What a step of a request may do to the rows, the reservation apart.
RowsOK ==
    /\ issued' \in Nat /\ issued' >= issued
    /\ \A p \in Purposes :
        \/ store'.code[p] = None \/ store'.code[p] = store.code[p]
        \/ store'.code[p] = [id |-> issued + 1, attempts |-> 0] /\ issued < MAX_CODES

LEMMA SetCodeOK ==
    ASSUME TypeOK, NEW p \in Purposes, NEW row, SetCode(p, row),
           \/ row = None /\ issued' = issued
           \/ row = [id |-> issued + 1, attempts |-> 0] /\ issued < MAX_CODES /\ issued' = issued + 1
    PROVE  RowsOK
<1>1. \A q \in Purposes : store'.code[q] = IF q = p THEN row ELSE store.code[q]
  BY DEF SetCode, TypeOK, Store
<1>2. issued \in Nat
  BY AuthAssumption DEF TypeOK
<1> QED
  BY <1>1, <1>2 DEF RowsOK

LEMMA RowsStay ==
    ASSUME TypeOK, store'.code = store.code, issued' = issued
    PROVE  RowsOK
BY AuthAssumption DEF RowsOK, TypeOK

LEMMA StepRows ==
    ASSUME TypeOK, NEW r \in Requests,
           \/ Arrive(r)
           \/ RequestDies(r)
           \/ Step(r) /\ ~Reserve(r)
           \/ Reserve(r) /\ store.code[Purpose(r)] # req[r].seen
    PROVE  RowsOK
<1>1. Purpose(r) \in Purposes /\ Purposes = {"signup", "reset"}
  BY DEF Purpose, Purposes
<1>2. \A p \in Purposes : generateCode(p) => RowsOK
  BY SetCodeOK DEF generateCode
<1>3. CASE DropSpent(r) \/ Consume(r)
  <2>1. issued' = issued /\ (SetCode(Purpose(r), None) \/ UNCHANGED store)
    BY <1>3 DEF DropSpent, Consume
  <2> QED
    BY <1>1, <2>1, SetCodeOK, RowsStay
<1>4. CASE ResetPassword(r) \/ IssueSignUpCode(r)
  <2>1. UNCHANGED <<store, issued>> \/ \E p \in Purposes : generateCode(p)
    BY <1>1, <1>4 DEF ResetPassword, IssueSignUpCode
  <2> QED
    BY <1>2, <2>1, RowsStay
<1>5. CASE \/ Evaluate(r) \/ Reread(r) \/ GetUserRecord(r) \/ PutUserRecord(r)
           \/ ReadEpoch(r) \/ PutEpoch(r) \/ SetCookie(r) \/ SignUp(r) \/ RequestDies(r)
           \/ (Reserve(r) /\ store.code[Purpose(r)] # req[r].seen)
           \/ (\E op \in {"confirmSignUp", "confirmResetPassword"}, guess \in 0..issued :
                    VerifyCode(r, op, guess))
           \/ (\E password \in 0..started : SignIn(r, password))
  <2>1. store'.code = store.code /\ issued' = issued
    BY <1>5 DEF Evaluate, Reread, GetUserRecord, PutUserRecord, ReadEpoch, PutEpoch, BumpDone,
       BumpMissed, SetCookie, SignUp, RequestDies, Reserve, VerifyCode, SignIn, ghosts, TypeOK, Store
  <2> QED
    BY <2>1, RowsStay
<1> QED
  BY <1>3, <1>4, <1>5 DEF Step, Arrive

LEMMA AttemptStep ==
    TypeOK /\ SeenInv /\ CodeInv /\ AttemptInv /\ [Next]_vars => AttemptInv'
<1> SUFFICES ASSUME TypeOK, SeenInv, CodeInv, AttemptInv, [Next]_vars
             PROVE  AttemptInv'
  OBVIOUS
<1>1. ASSUME NEW r \in Requests, Arrive(r) \/ Step(r) \/ RequestDies(r)
      PROVE  AttemptInv'
  <2>1. CASE Reserve(r) /\ store.code[Purpose(r)] = req[r].seen
    BY <2>1, ReserveCounts
  <2>2. CASE ~(Reserve(r) /\ store.code[Purpose(r)] = req[r].seen)
    <3>1. RowsOK
      BY <1>1, <2>2, StepRows
    <3>2. \A c \in Codes : Used'[c] \in Nat /\ Used'[c] <= Used[c]
      <4>1. CASE Evaluate(r)
        BY <4>1, EvaluateKeepsUsed
      <4>2. CASE ~Evaluate(r)
        <5>1. evaluated' = evaluated
          BY <1>1, <4>2 DEF Arrive, SignUp, ResetPassword, VerifyCode, SignIn, Step, DropSpent,
             Reserve, Consume, Reread, IssueSignUpCode, GetUserRecord, PutUserRecord, ReadEpoch,
             PutEpoch, SetCookie, RequestDies, ghosts
        <5>2. OthersStay(r) /\ req'[r].pc # "evaluate"
          BY <1>1, <2>2, OneStepsAtATime, NotComparing
        <5> QED
          BY <5>1, <5>2, FewerCompare
      <4> QED
        BY <4>1, <4>2
    <3> QED
      BY <3>1, <3>2, AttemptsStay DEF RowsOK
  <2> QED
    BY <2>1, <2>2
<1>2. CASE UNCHANGED vars \/ Environment
  <2>1. RowsOK
    <3>1. CASE \E p \in Purposes : Reap(p)
      BY <3>1, SetCodeOK DEF Reap
    <3>2. CASE UNCHANGED vars \/ CatchUp \/ \E c \in Codes : CodeExpires(c)
      BY <3>2, RowsStay DEF vars, CatchUp, CodeExpires
    <3> QED
      BY <1>2, <3>1, <3>2 DEF Environment
  <2>2. req' = req /\ evaluated' = evaluated
    BY <1>2 DEF vars, Environment, CodeExpires, Reap, CatchUp, ghosts
  <2>3. \A c \in Codes : Used'[c] \in Nat /\ Used'[c] <= Used[c]
    <3> SUFFICES ASSUME NEW c \in Codes PROVE Used'[c] \in Nat /\ Used'[c] <= Used[c]
      OBVIOUS
    <3>1. Used'[c] = Used[c]
      BY <2>2 DEF Used, Comparing
    <3>2. Used[c] \in Nat
      BY ComparingFinite DEF Used, TypeOK
    <3> QED
      BY <3>1, <3>2
  <2> QED
    BY <2>1, <2>3, AttemptsStay DEF RowsOK
<1> QED
  BY <1>1, <1>2 DEF Next, Environment

\* The cap on guesses holds however many requests guess at the same time, for any cap
\* and whatever rows they have read (verifyCode reserves an attempt before it compares).
THEOREM AttemptsCapped == Spec => []AttemptsBounded
<1> DEFINE IInv == TypeOK /\ SeenInv /\ CodeInv /\ CodeUsedOnce /\ AttemptInv
<1>1. Init => IInv
  <2> SUFFICES ASSUME Init PROVE IInv
    OBVIOUS
  <2>1. \A p \in Purposes : store.code[p] = None
    BY DEF Init, NoStore, Registered
  <2>2. \A c \in Codes : Used[c] = 0
    <3> SUFFICES ASSUME NEW c \in Codes PROVE Used[c] = 0
      OBVIOUS
    <3>1. Comparing(c) = {}
      BY DEF Init, Idle, Comparing
    <3> QED
      BY <3>1, FS_EmptySet DEF Init, Used
  <2>3. AttemptInv
    BY <2>1, <2>2, AuthAssumption DEF AttemptInv
  <2> QED
    BY <2>1, <2>3, InitTyped DEF Init, CodeInv, CodeUsedOnce
<1>2. IInv /\ [Next]_vars => IInv'
  BY StepTyped, CodeStep, AttemptStep
<1>3. IInv => AttemptsBounded
  <2> SUFFICES ASSUME IInv, NEW c \in Codes PROVE evaluated[c] <= MAX_CODE_ATTEMPTS
    BY DEF AttemptsBounded
  <2>1. evaluated[c] \in Nat /\ Used[c] <= MAX_CODE_ATTEMPTS
    BY DEF AttemptInv, TypeOK
  <2> QED
    BY <2>1, ComparingFinite, AuthAssumption DEF Used
<1> QED
  BY <1>1, <1>2, <1>3, PTL DEF Spec

==============================================================================
