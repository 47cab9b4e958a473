------------------------------- MODULE AuthBasic -------------------------------
(***************************************************************************)
(* Codes, passwords and sessions of one user of AuthBasic                 *)
(* (bb-auth-basic/src/index.ts), as its requests run in many Lambdas over *)
(* one key-value store: the verification codes with their attempt cap,    *)
(* sign-up, sign-in, the password reset and the session epoch that ends   *)
(* every earlier session.                                                 *)
(*                                                                         *)
(* A conditional write is evaluated on the current value; a get is        *)
(* eventually consistent: it may return the value of an earlier snapshot. *)
(* A code is known by its issuance: two issuances are taken to differ.    *)
(***************************************************************************)
EXTENDS Naturals, FiniteSets

CONSTANTS
    Requests,                   \* requests that run at the same time
    MAX_REQUESTS,               \* requests in all
    MAX_CODE_ATTEMPTS,
    MAX_EPOCH_BUMP_ATTEMPTS,
    MAX_CODES,                  \* codes issued in all
    None

ASSUME AuthAssumption ==
    /\ IsFiniteSet(Requests)
    /\ {MAX_REQUESTS, MAX_CODES} \subseteq Nat
    /\ {MAX_CODE_ATTEMPTS, MAX_EPOCH_BUMP_ATTEMPTS} \subseteq Nat \ {0}
    /\ None \notin [id : 1..MAX_CODES, attempts : 0..MAX_CODE_ATTEMPTS]

VARIABLES
    store,      \* the code rows, the epoch (0: absent) and the user's record
    old,        \* a snapshot of the store a get may still see
    issued,     \* codes issued
    expired,    \* ... that are past their expiry
    started,    \* requests started
    req,        \* what each request does
    tokens,     \* session tokens
    evaluated,  \* ghost: guesses compared with each code
    verified,   \* ghost: requests that each code let through
    bumped      \* ghost: bumps of the epoch that were carried out

vars == <<store, old, issued, expired, started, req, tokens, evaluated, verified, bumped>>
ghosts == <<evaluated, verified, bumped>>

Codes == 1..MAX_CODES
Purposes == {"signup", "reset"}
Row == [id : Codes, attempts : 0..MAX_CODE_ATTEMPTS]
Password == 0..MAX_REQUESTS     \* 0, or the number of the reset that chose it
Bump == Password \X {1, 2}        \* the first and the second bump of a reset
User == [password : Password, unconfirmed : BOOLEAN]
Store == [code : [Purposes -> Row \cup {None}], epoch : Nat, user : User \cup {None}]
Token == [ep : Nat, after : SUBSET Bump]
Op == {"none", "signUp", "confirmSignUp", "confirmResetPassword", "signIn"}
Place == {"idle", "issue", "reserve", "evaluate", "consume", "reread", "record",
          "bump", "put", "write", "bump again", "put again", "stamp"}
Request == [op : Op, pc : Place, n : 0..MAX_REQUESTS, guess : Nat,
            seen : Row \cup User \cup {None}, tries : 0..MAX_EPOCH_BUMP_ATTEMPTS]
Idle == [op |-> "none", pc |-> "idle", n |-> 0, guess |-> 0, seen |-> None, tries |-> 0]

TypeOK ==
    /\ store \in Store /\ old \in Store
    /\ issued \in 0..MAX_CODES
    /\ expired \subseteq Codes
    /\ started \in 0..MAX_REQUESTS
    /\ req \in [Requests -> Request]
    /\ tokens \subseteq Token
    /\ evaluated \in [Codes -> Nat] /\ verified \in [Codes -> Nat]
    /\ bumped \subseteq Bump

\* What a get may return.
Views == {store, old}
Go(r, pc) == req' = [req EXCEPT ![r].pc = pc]
End(r) == req' = [req EXCEPT ![r] = Idle]
Starts(r) ==
    /\ req[r].pc = "idle" /\ started < MAX_REQUESTS
    /\ started' = started + 1
Begin(r, op, pc, guess, seen) ==
    req' = [req EXCEPT ![r] = [op |-> op, pc |-> pc, n |-> started + 1, guess |-> guess,
                               seen |-> seen, tries |-> 0]]
Purpose(r) == IF req[r].op = "confirmSignUp" THEN "signup" ELSE "reset"
SetCode(purpose, row) == store' = [store EXCEPT !.code[purpose] = row]

-------------------------------------------------------------------------------
(* Codes.                                                                  *)

generateCode(purpose) ==
    /\ issued < MAX_CODES
    /\ issued' = issued + 1
    /\ SetCode(purpose, [id |-> issued + 1, attempts |-> 0])

\* Time passes; the store reaps the row some time later.
CodeExpires(c) ==
    /\ c <= issued /\ c \notin expired
    /\ expired' = expired \cup {c}
    /\ UNCHANGED <<store, old, issued, started, req, tokens, ghosts>>

Reap(purpose) ==
    /\ store.code[purpose] # None /\ store.code[purpose].id \in expired
    /\ SetCode(purpose, None)
    /\ UNCHANGED <<old, issued, expired, started, req, tokens, ghosts>>

\* verifyCode reads the row.
VerifyCode(r, op, guess) ==
    /\ Starts(r)
    /\ \E view \in Views :
        LET row == view.code[IF op = "confirmSignUp" THEN "signup" ELSE "reset"]
        IN  IF row = None THEN UNCHANGED req ELSE Begin(r, op, "reserve", guess, row)
    /\ UNCHANGED <<store, old, issued, expired, tokens, ghosts>>

Spent(row) == row.id \in expired \/ row.attempts >= MAX_CODE_ATTEMPTS

\* A code that is spent goes, if it is still the one read.
DropSpent(r) ==
    /\ req[r].pc = "reserve" /\ Spent(req[r].seen)
    /\ IF store.code[Purpose(r)] = req[r].seen
       THEN SetCode(Purpose(r), None) ELSE UNCHANGED store
    /\ End(r)
    /\ UNCHANGED <<old, issued, expired, started, tokens, ghosts>>

Reserved(row) == [row EXCEPT !.attempts = @ + 1]

\* Faulty: the attempt is counted with a plain write.
ReservePlain(r) ==
    /\ req[r].pc = "reserve" /\ ~Spent(req[r].seen)
    /\ SetCode(Purpose(r), Reserved(req[r].seen))
    /\ req' = [req EXCEPT ![r].pc = "evaluate", ![r].seen = Reserved(@)]
    /\ UNCHANGED <<old, issued, expired, started, tokens, ghosts>>

\* The attempt is counted before the guess is looked at; whoever loses the
\* race is rejected without having it looked at.
Reserve(r) ==
    /\ req[r].pc = "reserve" /\ ~Spent(req[r].seen)
    /\ IF store.code[Purpose(r)] = req[r].seen
       THEN /\ SetCode(Purpose(r), Reserved(req[r].seen))
            /\ req' = [req EXCEPT ![r].pc = "evaluate", ![r].seen = Reserved(@)]
       ELSE End(r) /\ UNCHANGED store
    /\ UNCHANGED <<old, issued, expired, started, tokens, ghosts>>

Evaluate(r) ==
    /\ req[r].pc = "evaluate"
    /\ evaluated' = [evaluated EXCEPT ![req[r].seen.id] = @ + 1]
    /\ IF req[r].guess = req[r].seen.id THEN Go(r, "consume") ELSE End(r)
    /\ UNCHANGED <<store, old, issued, expired, started, tokens, verified, bumped>>

LetThrough(r) ==
    /\ verified' = [verified EXCEPT ![req[r].seen.id] = @ + 1]
    /\ Go(r, "record")

\* Faulty: a delete that finds another row counts as done.
ConsumeSwallow(r) ==
    /\ req[r].pc = "consume"
    /\ IF store.code[Purpose(r)] = req[r].seen
       THEN SetCode(Purpose(r), None) ELSE UNCHANGED store
    /\ LetThrough(r)
    /\ UNCHANGED <<old, issued, expired, started, tokens, evaluated, bumped>>

\* Only the request that deletes the row is let through.
Consume(r) ==
    /\ req[r].pc = "consume"
    /\ IF store.code[Purpose(r)] = req[r].seen
       THEN SetCode(Purpose(r), None) /\ LetThrough(r)
       ELSE Go(r, "reread") /\ UNCHANGED <<store, verified>>
    /\ UNCHANGED <<old, issued, expired, started, tokens, evaluated, bumped>>

\* Another guess has advanced the row, or it is gone, or a fresh one.
Reread(r) ==
    /\ req[r].pc = "reread"
    /\ \E view \in Views :
        LET row == view.code[Purpose(r)]
        IN  IF row # None /\ row.id = req[r].seen.id
            THEN req' = [req EXCEPT ![r].pc = "consume", ![r].seen = row]
            ELSE End(r)
    /\ UNCHANGED <<store, old, issued, expired, started, tokens, ghosts>>

-------------------------------------------------------------------------------
(* The user's record.                                                      *)

SignUp(r) ==
    /\ Starts(r)
    /\ IF store.user = None
       THEN /\ store' = [store EXCEPT !.user = [password |-> 0, unconfirmed |-> TRUE]]
            /\ Begin(r, "signUp", "issue", 0, None)
       ELSE UNCHANGED <<store, req>>
    /\ UNCHANGED <<old, issued, expired, tokens, ghosts>>

IssueSignUpCode(r) ==
    /\ req[r].pc = "issue"
    /\ IF issued = MAX_CODES THEN UNCHANGED <<store, issued>> ELSE generateCode("signup")
    /\ End(r)
    /\ UNCHANGED <<old, expired, started, tokens, ghosts>>

ResetPassword(r) ==
    /\ Starts(r)
    /\ \E view \in Views :
        IF view.user = None THEN UNCHANGED <<store, issued>> ELSE generateCode("reset")
    /\ UNCHANGED <<old, expired, req, tokens, ghosts>>

\* The record is read; it is written back later as a whole, by a plain put.
GetUserRecord(r) ==
    /\ req[r].pc = "record"
    /\ \E view \in Views :
        IF view.user = None THEN End(r)
        ELSE req' = [req EXCEPT
                ![r].seen = IF req[r].op = "confirmSignUp"
                            THEN [view.user EXCEPT !.unconfirmed = FALSE]
                            ELSE [view.user EXCEPT !.password = req[r].n],
                ![r].pc = IF req[r].op = "confirmSignUp" THEN "write" ELSE "bump"]
    /\ UNCHANGED <<store, old, issued, expired, started, tokens, ghosts>>

PutUserRecord(r) ==
    /\ req[r].pc = "write"
    /\ store' = [store EXCEPT !.user = req[r].seen]
    /\ IF req[r].op = "confirmSignUp" THEN End(r)
       ELSE req' = [req EXCEPT ![r].pc = "bump again", ![r].tries = 0]
    /\ UNCHANGED <<old, issued, expired, started, tokens, ghosts>>

-------------------------------------------------------------------------------
(* bumpSessionEpoch.  `guess`, done with, holds the epoch read.            *)

Then(pc) == IF pc = "bump" THEN "put" ELSE "put again"
First(r) == req[r].pc \in {"bump", "put"}

ReadEpoch(r) ==
    /\ req[r].pc \in {"bump", "bump again"}
    /\ \E view \in Views :
        req' = [req EXCEPT ![r].guess = view.epoch, ![r].pc = Then(@)]
    /\ UNCHANGED <<store, old, issued, expired, started, tokens, ghosts>>

BumpDone(r) ==
    /\ store' = [store EXCEPT !.epoch = req[r].guess + 1]
    /\ bumped' = bumped \cup {<<req[r].n, IF First(r) THEN 1 ELSE 2>>}
    /\ IF First(r) THEN Go(r, "write") ELSE End(r)

\* A lost comparison or an error of the store is tried again; the last one
\* fails the request, unless the password is already written.
BumpMissed(r) ==
    /\ IF req[r].tries + 1 < MAX_EPOCH_BUMP_ATTEMPTS
       THEN req' = [req EXCEPT ![r].tries = @ + 1,
                               ![r].pc = IF First(r) THEN "bump" ELSE "bump again"]
       ELSE End(r)
    /\ UNCHANGED <<store, bumped>>

\* Faulty: writes what it read plus one.
BumpPlain(r) ==
    /\ req[r].pc \in {"put", "put again"}
    /\ BumpDone(r)
    /\ UNCHANGED <<old, issued, expired, started, tokens, evaluated, verified>>

PutEpoch(r) ==
    /\ req[r].pc \in {"put", "put again"}
    /\ \/ store.epoch = req[r].guess /\ BumpDone(r)
       \/ BumpMissed(r)
    /\ UNCHANGED <<old, issued, expired, started, tokens, evaluated, verified>>

-------------------------------------------------------------------------------
(* Sessions.                                                               *)

SignIn(r, password) ==
    /\ Starts(r)
    /\ \E view \in Views :
        IF view.user = [password |-> password, unconfirmed |-> FALSE]
        THEN Begin(r, "signIn", "stamp", 0, None) ELSE UNCHANGED req
    /\ UNCHANGED <<store, old, issued, expired, tokens, ghosts>>

\* setCookie stamps the epoch it reads into the token.
SetCookie(r) ==
    /\ req[r].pc = "stamp"
    /\ \E view \in Views :
        tokens' = tokens \cup {[ep |-> view.epoch, after |-> bumped]}
    /\ End(r)
    /\ UNCHANGED <<store, old, issued, expired, started, ghosts>>

\* A Lambda dies, or a call of the store throws.
RequestDies(r) ==
    /\ req[r].pc # "idle"
    /\ End(r)
    /\ UNCHANGED <<store, old, issued, expired, started, tokens, ghosts>>

\* Replicas catch up.
CatchUp ==
    /\ old # store /\ old' = store
    /\ UNCHANGED <<store, issued, expired, started, req, tokens, ghosts>>

-------------------------------------------------------------------------------
NoStore == [code |-> [p \in Purposes |-> None], epoch |-> 0, user |-> None]
Registered == [NoStore EXCEPT !.user = [password |-> 0, unconfirmed |-> FALSE]]

Init ==
    /\ store \in {NoStore, Registered} /\ old = store
    /\ issued = 0 /\ expired = {} /\ started = 0
    /\ req = [r \in Requests |-> Idle]
    /\ tokens = {}
    /\ evaluated = [c \in Codes |-> 0] /\ verified = [c \in Codes |-> 0]
    /\ bumped = {}

Step(r) ==
    \/ DropSpent(r) \/ Reserve(r) \/ Evaluate(r) \/ Consume(r) \/ Reread(r)
    \/ IssueSignUpCode(r) \/ GetUserRecord(r) \/ PutUserRecord(r)
    \/ ReadEpoch(r) \/ PutEpoch(r) \/ SetCookie(r)

Arrive(r) ==
    \/ SignUp(r) \/ ResetPassword(r)
    \/ \E op \in {"confirmSignUp", "confirmResetPassword"}, guess \in 0..issued :
            VerifyCode(r, op, guess)
    \/ \E password \in 0..started : SignIn(r, password)

Next ==
    \/ \E r \in Requests : Arrive(r) \/ Step(r) \/ RequestDies(r)
    \/ \E c \in Codes : CodeExpires(c)
    \/ \E purpose \in Purposes : Reap(purpose)
    \/ CatchUp

Spec == Init /\ [][Next]_vars

-------------------------------------------------------------------------------
(* Properties.                                                             *)

\* However many requests guess at the same time, over whatever stale reads, at
\* most MAX_CODE_ATTEMPTS guesses are compared with one code.
AttemptsBounded == \A c \in Codes : evaluated[c] <= MAX_CODE_ATTEMPTS

\* A code lets one request through at most.
CodeUsedOnce == \A c \in Codes : verified[c] <= 1

\* A session that is still valid was stamped after every bump of the epoch and,
\* when a reset chose the password that is live, after that reset's: whatever
\* stale reads, lost comparisons and other resets there were, a reset that has
\* changed the password has ended the sessions before it.
NoSessionOutlivesReset ==
    \A t \in tokens :
        \/ t.ep < store.epoch
        \/ /\ bumped \subseteq t.after
           /\ store.user # None /\ store.user.password # 0
                => <<store.user.password, 1>> \in t.after

===============================================================================
