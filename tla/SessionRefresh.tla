---------------------------- MODULE SessionRefresh -----------------------------
(***************************************************************************)
(* SessionManager (bb-auth-oidc/src/engines/session-manager.ts): one      *)
(* session row that requests in several containers read, refresh at the   *)
(* identity provider and delete.  A refresh holds a lock: it swaps the    *)
(* row for one in state `refreshing`, calls the token endpoint, and swaps *)
(* in the result.  Every swap compares the whole row.  A lock older than  *)
(* staleLockTimeoutMs may be taken over.                                   *)
(*                                                                         *)
(* The store (a KVStore) and the identity provider are modelled from how  *)
(* the manager uses them.  Sessions share nothing, so one row suffices.   *)
(***************************************************************************)
EXTENDS Naturals, FiniteSets

CONSTANTS
    Requests,       \* the requests that carry the session's cookie
    Containers,     \* the processes that serve them
    Kinds,          \* what they ask for, among RequestKind
    STALE,          \* staleLockTimeoutMs, in clock ticks
    LIFETIME,       \* how long a granted access token is valid
    MAX_TIME,       \* bound: the clock stops there unless a request waits
    StaleReads,     \* TRUE: get may return an earlier value (DynamoDB)
    StoreErrors,    \* TRUE: a store call may fail, with or without effect
    IdpFaults,      \* TRUE: the provider may fail, or its reply be lost
    Crashes,        \* TRUE: a container may die
    NoRow,          \* no session is stored
    NoRequest       \* no refresh is in flight

RequestKind == {"verify", "refresh", "signOut"}

ASSUME SessionAssumption ==
    /\ NoRequest \notin Requests
    /\ Kinds \subseteq RequestKind
    /\ STALE \in Nat \ {0} /\ LIFETIME \in Nat \ {0} /\ MAX_TIME \in Nat
    /\ {StaleReads, StoreErrors, IdpFaults, Crashes} \subseteq BOOLEAN

\* A row without claims: since is 0 when refreshingSince is not set.
SessionRow ==
    [state : {"ready", "refreshing", "expired"}, refreshToken : Nat \ {0},
     expiresAt : Nat, since : Nat]

ASSUME NoRowAssumption == NoRow \notin SessionRow

VARIABLES
    row,        \* the stored row
    past,       \* earlier values a replica may still serve
    now,        \* the clock
    accepted,   \* the refresh tokens the provider accepts
    issued,     \* how many it has issued
    inFlight,   \* refreshInFlight: the request that refreshes in each container
    pc,         \* where each request is
    kind,       \* what it asks for
    home,       \* the container that serves it
    seen,       \* the row it acts on
    mine,       \* what it swapped, or wants to swap, in
    answer,     \* what it returned; "staleUser": from a row whose token had expired
    excuse      \* ghost: the provider has failed, or a lock was taken over

storeVars == <<row, past>>
idpVars == <<accepted, issued>>
vars == <<row, past, now, accepted, issued, inFlight, pc, kind, home, seen, mine,
          answer, excuse>>

\* A request owns the lock from its swap until it swaps again.
Owner == {"atIdp", "saving", "failing"}
Place == {"idle", "deciding", "joined", "waiting", "locking", "rereading",
          "deleting", "revoking", "done"} \cup Owner
Answer == {"none", "user", "staleUser", "null", "signedOut", "threw", "lost"}

-------------------------------------------------------------------------------
(* The session store.                                                      *)

Readable == {row} \cup (IF StaleReads THEN past ELSE {})

Store(value) == row' = value /\ past' = past \cup {row}

\* A conditional put of `value` over `expected` that takes effect.
Swap(expected, value) == row = expected /\ Store(value)

\* One that reports failure: the condition fails, or the call does, before or
\* after it took effect.
SwapFails(expected, value) ==
    \/ row # expected /\ UNCHANGED storeVars
    \/ StoreErrors /\ UNCHANGED storeVars
    \/ StoreErrors /\ Swap(expected, value)

-------------------------------------------------------------------------------
(* Answers.                                                                *)

\* The callers that a request answers: itself and those that share its promise.
Answered(r) ==
    {r} \cup (IF inFlight[home[r]] = r
              THEN {q \in Requests : pc[q] = "joined" /\ home[q] = home[r]} ELSE {})

\* The promise of r settles; if it is the one in flight the map forgets it.
Finish(r, a) ==
    /\ pc' = [q \in Requests |-> IF q \in Answered(r) THEN "done" ELSE pc[q]]
    /\ answer' = [q \in Requests |-> IF q \in Answered(r) THEN a ELSE answer[q]]
    /\ seen' = [q \in Requests |-> IF q \in Answered(r) THEN NoRow ELSE seen[q]]
    /\ mine' = [mine EXCEPT ![r] = NoRow]
    /\ inFlight' = IF inFlight[home[r]] = r
                   THEN [inFlight EXCEPT ![home[r]] = NoRequest] ELSE inFlight
    /\ UNCHANGED <<kind, home>>

Admit(r, from) == Finish(r, IF from.expiresAt > now THEN "user" ELSE "staleUser")
Deny(r) == Finish(r, "null")

Goto(r, place) ==
    /\ pc' = [pc EXCEPT ![r] = place]
    /\ UNCHANGED <<kind, home, answer>>

-------------------------------------------------------------------------------
(* verifyStatefulSession, forceRefresh.                                    *)

\* A request begins, and its get returns `got`.
Start(r, got) ==
    /\ pc[r] = "idle"
    /\ Goto(r, IF kind[r] = "signOut" THEN "deleting" ELSE "deciding")
    /\ seen' = [seen EXCEPT ![r] = got]
    /\ UNCHANGED <<storeVars, now, idpVars, inFlight, mine, excuse>>

\* A session that a failed refresh has not ended.
Live(value) == value # NoRow /\ value.state # "expired"

\* No session, or one that a failed refresh has ended.  forceRefresh tries
\* such a row once more.
Reject(r) ==
    /\ pc[r] = "deciding"
    /\ IF kind[r] = "verify" THEN ~Live(seen[r]) ELSE seen[r] = NoRow
    /\ Deny(r)
    /\ UNCHANGED <<storeVars, now, idpVars, excuse>>

Accept(r) ==
    /\ pc[r] = "deciding"
    /\ kind[r] = "verify" /\ Live(seen[r])
    /\ seen[r].expiresAt > now
    /\ Admit(r, seen[r])
    /\ UNCHANGED <<storeVars, now, idpVars, excuse>>

\* The calls that go on to refreshStatefulSession.
MustRefresh(r) ==
    /\ pc[r] = "deciding"
    /\ IF kind[r] = "verify" THEN Live(seen[r]) /\ seen[r].expiresAt <= now
       ELSE seen[r] # NoRow

\* A refresh is in flight in this container: share its promise.
Join(r) ==
    /\ MustRefresh(r)
    /\ inFlight[home[r]] # NoRequest
    /\ Goto(r, "joined")
    /\ seen' = [seen EXCEPT ![r] = NoRow]
    /\ UNCHANGED <<storeVars, now, idpVars, inFlight, mine, excuse>>

\* Faulty: every lock counts as stale.
HeldNever(value) == FALSE

\* Another holder's lock, not yet timed out.
Held(value) == value.state = "refreshing" /\ now < value.since + STALE

Wait(r) ==
    /\ MustRefresh(r)
    /\ inFlight[home[r]] = NoRequest
    /\ Held(seen[r])
    /\ Goto(r, "waiting")
    /\ inFlight' = [inFlight EXCEPT ![home[r]] = r]
    /\ UNCHANGED <<storeVars, now, idpVars, seen, mine, excuse>>

\* No lock is held, or a stale one: send the swap for it.
SendLock(r) ==
    /\ MustRefresh(r)
    /\ inFlight[home[r]] = NoRequest
    /\ ~Held(seen[r])
    /\ Goto(r, "locking")
    /\ inFlight' = [inFlight EXCEPT ![home[r]] = r]
    /\ mine' = [mine EXCEPT ![r] = [seen[r] EXCEPT !.state = "refreshing", !.since = now]]
    /\ UNCHANGED <<storeVars, now, idpVars, seen, excuse>>

-------------------------------------------------------------------------------
(* _doRefresh.                                                             *)

\* Faulty: the put of the lock is unconditional.
LockUnconditional(r) ==
    /\ pc[r] = "locking"
    /\ Store(mine[r])
    /\ Goto(r, "atIdp")
    /\ excuse' = (excuse \/ seen[r].state = "refreshing")
    /\ UNCHANGED <<now, idpVars, inFlight, seen, mine>>

Lock(r) ==
    /\ pc[r] = "locking"
    /\ Swap(seen[r], mine[r])
    /\ Goto(r, "atIdp")
    /\ excuse' = (excuse \/ seen[r].state = "refreshing")
    /\ UNCHANGED <<now, idpVars, inFlight, seen, mine>>

\* Any failure counts as a lost race.
LockFails(r) ==
    /\ pc[r] = "locking"
    /\ SwapFails(seen[r], mine[r])
    /\ Goto(r, "rereading")
    /\ UNCHANGED <<now, idpVars, inFlight, seen, mine, excuse>>

\* The row that ends the refresh.
Saved(r, token) ==
    [state |-> "ready", refreshToken |-> token, expiresAt |-> now + LIFETIME, since |-> 0]

\* The provider grants; it may replace the refresh token.
Grant(r, rotated) ==
    /\ pc[r] = "atIdp"
    /\ seen[r].refreshToken \in accepted
    /\ issued' = IF rotated THEN issued + 1 ELSE issued
    /\ accepted' = IF rotated THEN (accepted \ {seen[r].refreshToken}) \cup {issued + 1}
                   ELSE accepted
    /\ Goto(r, "saving")
    \* From here `seen` is the row the request holds, `mine` the one to store.
    /\ seen' = [seen EXCEPT ![r] = mine[r]]
    /\ mine' = [mine EXCEPT ![r] = Saved(r, IF rotated THEN issued + 1 ELSE @.refreshToken)]
    /\ UNCHANGED <<storeVars, now, inFlight, excuse>>

\* It refuses a token it does not accept, fails, or has its reply lost.
Refuse(r, spent) ==
    /\ pc[r] = "atIdp"
    /\ seen[r].refreshToken \in accepted => IdpFaults
    /\ spent => IdpFaults
    /\ accepted' = IF spent THEN accepted \ {seen[r].refreshToken} ELSE accepted
    /\ excuse' = (excuse \/ seen[r].refreshToken \in accepted)
    /\ Goto(r, "failing")
    /\ seen' = [seen EXCEPT ![r] = mine[r]]
    /\ mine' = [mine EXCEPT ![r] = [@ EXCEPT !.state = "expired", !.since = 0]]
    /\ UNCHANGED <<storeVars, now, issued, inFlight>>

\* Faulty: the result is stored whatever the row is.
SaveUnconditional(r) ==
    /\ pc[r] = "saving"
    /\ Store(mine[r])
    /\ Admit(r, mine[r])
    /\ UNCHANGED <<now, idpVars, excuse>>

Save(r) ==
    /\ pc[r] = "saving"
    /\ Swap(seen[r], mine[r])
    /\ Admit(r, mine[r])
    /\ UNCHANGED <<now, idpVars, excuse>>

SaveFails(r) ==
    /\ pc[r] = "saving"
    /\ SwapFails(seen[r], mine[r])
    /\ Goto(r, "rereading")
    /\ UNCHANGED <<now, idpVars, inFlight, seen, mine, excuse>>

\* Whether or not the row could be marked, the caller gets null.
MarkExpired(r) ==
    /\ pc[r] = "failing"
    /\ Swap(seen[r], mine[r]) \/ SwapFails(seen[r], mine[r])
    /\ Deny(r)
    /\ UNCHANGED <<now, idpVars, excuse>>

\* A swap has failed: answer from the row as it is now.
Reread(r, got) ==
    /\ pc[r] = "rereading"
    /\ IF got # NoRow /\ got.state = "ready" THEN Admit(r, got) ELSE Deny(r)
    /\ UNCHANGED <<storeVars, now, idpVars, excuse>>

\* waitForWinner: one get of the loop, which goes on while the row is locked.
Poll(r, got) ==
    /\ pc[r] = "waiting"
    /\ \/ got # NoRow /\ got.state = "ready" /\ Admit(r, got)
       \/ ~Live(got) /\ Deny(r)
    /\ UNCHANGED <<storeVars, now, idpVars, excuse>>

\* Faulty: the waiter never leaves its loop.
GiveUpNever(r) == FALSE /\ UNCHANGED vars

\* The deadline, when the lock it waits for becomes stale.
GiveUp(r) ==
    /\ pc[r] = "waiting"
    /\ now >= seen[r].since + STALE
    /\ Deny(r)
    /\ UNCHANGED <<storeVars, now, idpVars, excuse>>

\* A get throws, and so does the call.
GetThrows(r) ==
    /\ StoreErrors
    /\ pc[r] \in {"deciding", "rereading", "waiting"}
    /\ Finish(r, "threw")
    /\ UNCHANGED <<storeVars, now, idpVars, excuse>>

-------------------------------------------------------------------------------
(* signOutSession, and the revocation the engine makes after it.           *)

DeleteRow(r) ==
    /\ pc[r] = "deleting"
    /\ Store(NoRow)
    /\ IF seen[r] = NoRow THEN Finish(r, "signedOut")
       ELSE Goto(r, "revoking") /\ UNCHANGED <<inFlight, seen, mine>>
    /\ UNCHANGED <<now, idpVars, excuse>>

\* The get or the delete throws: the cookie is cleared all the same and no
\* token is handed to the engine.
DeleteFails(r) ==
    /\ pc[r] = "deleting"
    /\ StoreErrors
    /\ Store(NoRow) \/ UNCHANGED storeVars
    /\ Finish(r, "signedOut")
    /\ UNCHANGED <<now, idpVars, excuse>>

\* bestEffortRevoke.
Revoke(r, revoked) ==
    /\ pc[r] = "revoking"
    /\ ~revoked => IdpFaults
    /\ accepted' = IF revoked THEN accepted \ {seen[r].refreshToken} ELSE accepted
    /\ Finish(r, "signedOut")
    /\ UNCHANGED <<storeVars, now, issued, excuse>>

-------------------------------------------------------------------------------
(* The environment.                                                        *)

\* A container dies with the requests it serves.
Crash(c) ==
    /\ Crashes
    /\ \E r \in Requests : home[r] = c /\ pc[r] \notin {"idle", "done"}
    /\ LET dead == {r \in Requests : home[r] = c /\ pc[r] \notin {"idle", "done"}}
       IN  /\ pc' = [r \in Requests |-> IF r \in dead THEN "done" ELSE pc[r]]
           /\ answer' = [r \in Requests |-> IF r \in dead THEN "lost" ELSE answer[r]]
           /\ seen' = [r \in Requests |-> IF r \in dead THEN NoRow ELSE seen[r]]
           /\ mine' = [r \in Requests |-> IF r \in dead THEN NoRow ELSE mine[r]]
    /\ inFlight' = [inFlight EXCEPT ![c] = NoRequest]
    /\ UNCHANGED <<storeVars, now, idpVars, kind, home, excuse>>

Tick ==
    /\ now < MAX_TIME \/ \E r \in Requests : pc[r] = "waiting" /\ now < seen[r].since + STALE
    /\ now' = now + 1
    /\ UNCHANGED <<storeVars, idpVars, inFlight, pc, kind, home, seen, mine, answer, excuse>>

-------------------------------------------------------------------------------
\* The row writeStatefulSession stored, one tick before its access token expires.
Init ==
    /\ row = [state |-> "ready", refreshToken |-> 1, expiresAt |-> 1, since |-> 0]
    /\ past = {}
    /\ now = 0
    /\ accepted = {1}
    /\ issued = 1
    /\ inFlight = [c \in Containers |-> NoRequest]
    /\ pc = [r \in Requests |-> "idle"]
    /\ kind \in [Requests -> Kinds]
    /\ home \in [Requests -> Containers]
    /\ seen = [r \in Requests |-> NoRow]
    /\ mine = [r \in Requests |-> NoRow]
    /\ answer = [r \in Requests |-> "none"]
    /\ excuse = FALSE

Refreshes(r) ==
    \/ Lock(r) \/ LockFails(r)
    \/ \E rotated \in BOOLEAN : Grant(r, rotated)
    \/ \E spent \in BOOLEAN : Refuse(r, spent)
    \/ Save(r) \/ SaveFails(r) \/ MarkExpired(r)
    \/ \E got \in Readable : Reread(r, got)

SignsOut(r) ==
    \/ DeleteRow(r) \/ DeleteFails(r)
    \/ \E revoked \in BOOLEAN : Revoke(r, revoked)

Proceeds(r) ==
    \/ Reject(r) \/ Accept(r)
    \/ Join(r) \/ Wait(r) \/ SendLock(r)
    \/ Refreshes(r)
    \/ GiveUp(r) \/ Poll(r, row)
    \/ SignsOut(r)

RequestStep(r) == Proceeds(r) \/ GetThrows(r) \/ \E got \in Readable : Poll(r, got)

Next ==
    \/ \E r \in Requests : (\E got \in Readable : Start(r, got)) \/ RequestStep(r)
    \/ \E c \in Containers : Crash(c)
    \/ Tick

Spec == Init /\ [][Next]_vars

\* Node runs what is ready, store and provider calls settle, and time passes; that
\* a get throws, or reads an old row, is never owed to a request that waits.
FairSpec == Spec /\ WF_vars(Tick) /\ \A r \in Requests : WF_vars(Proceeds(r))

-------------------------------------------------------------------------------
(* Properties.                                                             *)

TypeOK ==
    /\ row \in SessionRow \cup {NoRow}
    /\ past \subseteq SessionRow \cup {NoRow}
    /\ now \in Nat
    /\ issued \in Nat \ {0} /\ accepted \subseteq 1..issued
    /\ inFlight \in [Containers -> Requests \cup {NoRequest}]
    /\ pc \in [Requests -> Place]
    /\ kind \in [Requests -> RequestKind]
    /\ home \in [Requests -> Containers]
    /\ seen \in [Requests -> SessionRow \cup {NoRow}]
    /\ mine \in [Requests -> SessionRow \cup {NoRow}]
    /\ answer \in [Requests -> Answer]
    /\ excuse \in BOOLEAN

\* The lock row a request in Owner believes it holds.
HeldRow(r) == IF pc[r] = "atIdp" THEN mine[r] ELSE seen[r]

\* No request asks for a refresh whatever the row says.
Unforced == \A r \in Requests : kind[r] # "refresh"

\* The stored lock belongs to one request: no two owners believe in the row that
\* is stored ("We own the lock", session-manager.ts:295), also when a reply is lost
\* or a stale lock is taken over.  A forced refresh may swap an expired row, and
\* then a row of the same value can return: without one the property holds.
OneHolder ==
    Unforced =>
        \A q, r \in Requests :
            /\ pc[q] \in Owner /\ HeldRow(q) = row
            /\ pc[r] \in Owner /\ HeldRow(r) = row
            => q = r

\* Two requests are at the token endpoint together only if the older lock has
\* outlived staleLockTimeoutMs (README: "so a request burst doesn't pile up on
\* the IdP's token endpoint").
OneRefreshAtATime ==
    \A q, r \in Requests :
        pc[q] = "atIdp" /\ pc[r] = "atIdp" /\ q # r =>
            \E x \in {q, r} : now >= mine[x].since + STALE

\* Once sign-out has deleted the row no refresh, however late, brings it back
\* (README: "Sign-out invalidates the session server-side").
NoResurrection == [][row = NoRow => row' = NoRow]_vars

\* A session is marked expired only if the provider failed it or a stale lock was
\* taken over: racing refreshes alone never spend a token twice and end it.
ExpiredForCause == row # NoRow /\ row.state = "expired" => excuse

\* In a container all callers share one refresh (refreshInFlight: "one refresh
\* per sessionId per container").
OnePerContainer ==
    \A q, r \in Requests :
        /\ pc[q] \in Owner \cup {"locking", "waiting", "rereading"}
        /\ pc[r] \in Owner \cup {"locking", "waiting", "rereading"}
        /\ home[q] = home[r]
        => q = r

\* Every request is answered, whatever its lock holder does (waitForWinner).
EveryRequestEnds == \A r \in Requests : pc[r] # "idle" ~> pc[r] = "done"

\* "CAS failed - someone else took the lock.  Re-read and use their result"
\* (session-manager.ts:288): nobody is turned away from a session that goes on.
LoserUsesResult ==
    [][\A r \in Requests :
          answer'[r] = "null" /\ answer[r] # "null" =>
              row' = NoRow \/ row'.state = "expired"]_vars
================================================================================
