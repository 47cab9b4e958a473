----------------------------- MODULE PgliteCluster -----------------------------
(***************************************************************************)
(* The one PGlite session that several Database blocks share locally      *)
(* (bb-database/src/engines/pglite-cluster.ts, engines/handle.ts,         *)
(* runtime/index.ts): a mutex per statement or transaction, the schema    *)
(* the session is switched to and the cluster's memory of it, sibling     *)
(* blocks and nested transactions as savepoints, rollback listeners, and  *)
(* the process-exit hook that closes the session while code may go on.    *)
(*                                                                         *)
(* A callback awaits each call before the next.  PostgreSQL: an error     *)
(* aborts the innermost (sub)transaction, in which every statement but a  *)
(* rollback then fails; COMMIT of an aborted transaction rolls it back    *)
(* and does not fail; SET is undone with the (sub)transaction it is in.   *)
(***************************************************************************)
EXTENDS Naturals, SequencesExt

CONSTANTS
    Tasks,              \* requests of the process
    Blocks,             \* blocks of the cluster, each with its schema
    MAX_CALLS,          \* calls of query() and transaction() from outside
    MAX_SAVEPOINTS,
    MAX_WORKS,          \* statements that change something
    None

ASSUME ClusterAssumption ==
    /\ {MAX_CALLS, MAX_SAVEPOINTS, MAX_WORKS} \subseteq Nat
    /\ None \notin Blocks

VARIABLES
    pc, block,          \* each task's place, and the block it calls
    queue,              \* the mutex: its holder, then those who wait
    session,            \* PGlite: not initialised yet, open, closed by the exit hook, or
                        \* broken, when reopening it could not even make an instance
    path,               \* the session's search_path
    aborted,            \* the open transaction has failed
    tx,                 \* the open transaction and its savepoints: the handle of each
                        \* with its listeners, the session's work in it, the path before
    currentSchema,      \* the cluster's memory of the path
    calls, savepoints,
    works,              \* statements that changed something
    ran,                \* ghost: of every statement run, the block it is made through,
                        \* the innermost block, and the path
    kept, fired,        \* ghost: work committed; listeners called
    silent              \* ghost: work undone by a COMMIT that reported success

clusterVars == <<queue, session, path, aborted, tx, currentSchema>>
counters == <<calls, savepoints, works>>
ghosts == <<ran, kept, fired, silent>>
vars == <<pc, block, clusterVars, counters, ghosts>>

Public == "public"
Works == 1..MAX_WORKS
Path == Blocks \cup {Public}
Frame == [owner : Blocks, path : Path, work : SUBSET Works, listeners : SUBSET Works]

Place == {"idle", "queue", "queueTx", "schema", "schemaTx", "run", "begin", "in"}

TypeOK ==
    /\ pc \in [Tasks -> Place]
    /\ block \in [Tasks -> Blocks]
    /\ queue \in Seq(Tasks)
    /\ session \in {"fresh", "open", "closed", "broken"}
    /\ path \in Path /\ aborted \in BOOLEAN
    /\ tx \in Seq(Frame)
    /\ currentSchema \in Blocks \cup {None}
    /\ calls \in 0..MAX_CALLS /\ savepoints \in 0..MAX_SAVEPOINTS
    /\ works \in 0..MAX_WORKS
    /\ ran \subseteq Blocks \X Blocks \X Path
    /\ {kept, fired, silent} \subseteq SUBSET Works

Go(t, place) == pc' = [pc EXCEPT ![t] = place]
Holds(t) == queue # <<>> /\ Head(queue) = t
Top == Last(tx)
Parent == tx[Len(tx) - 1]

\* Every call goes back to its caller with the mutex released.
Release(t) == queue' = Tail(queue) /\ Go(t, "idle")

-------------------------------------------------------------------------------
(* Calls from outside any transaction.                                     *)

\* query() or execute() waits for the mutex, and so does transaction().
Call(t, b) ==
    /\ pc[t] = "idle" /\ calls < MAX_CALLS
    /\ calls' = calls + 1
    /\ block' = [block EXCEPT ![t] = b]
    /\ queue' = Append(queue, t)
    /\ \E place \in {"queue", "queueTx"} : Go(t, place)
    /\ UNCHANGED <<session, path, aborted, tx, currentSchema, savepoints, works, ghosts>>

Acquire(t) ==
    /\ Holds(t) /\ pc[t] \in {"queue", "queueTx"}
    /\ Go(t, IF pc[t] = "queue" THEN "schema" ELSE "schemaTx")
    /\ UNCHANGED <<block, clusterVars, counters, ghosts>>

\* raw() opens the session, with the default path, before its statement.
Opened == IF session = "open" THEN path ELSE Public

\* ... unless the initialisation fails: the call throws, and the next one tries
\* again; but when createDb() throws while a closed session is reopened, the
\* rejected promise is kept, and every later call throws.
InitFails(t) ==
    /\ session # "open"
    /\ \/ pc[t] \in {"schema", "schemaTx"} /\ currentSchema # block[t]
       \/ pc[t] \in {"run", "begin"}
    /\ \/ session # "broken" /\ session' = "fresh"
       \/ session # "fresh" /\ session' = "broken"
    /\ Release(t)
    /\ UNCHANGED <<block, path, aborted, tx, currentSchema, counters, ghosts>>

\* Faulty: the path is remembered before SET has run.
UseSchemaEarly(t) ==
    /\ pc[t] \in {"schema", "schemaTx"}
    /\ currentSchema' = block[t]
    /\ \/ /\ currentSchema # block[t]
          /\ session' = "open" /\ path' = block[t]
          /\ Go(t, IF pc[t] = "schema" THEN "run" ELSE "begin") /\ UNCHANGED queue
       \/ /\ currentSchema # block[t] /\ session # "open"
          /\ Release(t) /\ UNCHANGED <<session, path>>
       \/ /\ currentSchema = block[t]
          /\ Go(t, IF pc[t] = "schema" THEN "run" ELSE "begin")
          /\ UNCHANGED <<queue, session, path>>
    /\ UNCHANGED <<block, aborted, tx, counters, ghosts>>

UseSchema(t) ==
    /\ pc[t] \in {"schema", "schemaTx"}
    /\ IF currentSchema = block[t] THEN UNCHANGED <<session, path, currentSchema>>
       ELSE /\ session # "broken"
            /\ session' = "open" /\ path' = block[t] /\ currentSchema' = block[t]
    /\ Go(t, IF pc[t] = "schema" THEN "run" ELSE "begin")
    /\ UNCHANGED <<block, queue, aborted, tx, counters, ghosts>>

\* The auto-commit statement, whether it fails or not.
Run(t) ==
    /\ pc[t] = "run" /\ session # "broken"
    /\ session' = "open" /\ path' = Opened
    /\ ran' = ran \cup {<<block[t], block[t], Opened>>}
    /\ Release(t)
    /\ UNCHANGED <<block, aborted, tx, currentSchema, counters, kept, fired, silent>>

Begin(t) ==
    /\ pc[t] = "begin" /\ session # "broken"
    /\ session' = "open" /\ path' = Opened
    /\ tx' = <<[owner |-> block[t], path |-> Opened, work |-> {}, listeners |-> {}]>>
    /\ Go(t, "in")
    /\ UNCHANGED <<block, queue, aborted, currentSchema, counters, ghosts>>

-------------------------------------------------------------------------------
(* Calls inside the callback.  The mutex is held: each is one step.        *)

With(frame, work, listeners) ==
    [owner |-> frame.owner, path |-> frame.path,
     work |-> frame.work \cup work, listeners |-> frame.listeners \cup listeners]

\* A statement made through the handle of any open transaction or savepoint, the
\* innermost or one around it: the path is not switched.  Its work is the
\* innermost's, and a change has a listener there, as a sibling's first build has.
Statement(t) ==
    /\ pc[t] = "in" /\ ~aborted /\ works < MAX_WORKS
    /\ \E i \in DOMAIN tx : ran' = ran \cup {<<tx[i].owner, Top.owner, path>>}
    /\ \/ /\ works' = works + 1
          /\ tx' = [tx EXCEPT ![Len(tx)] = With(@, {works + 1}, {works + 1})]
          /\ UNCHANGED aborted
       \/ aborted' = TRUE /\ UNCHANGED <<works, tx>>
    /\ UNCHANGED <<pc, block, queue, session, path, currentSchema, calls, savepoints,
                   kept, fired, silent>>

\* Another block's statement, or a nested transaction(), becomes a savepoint.
\* In an aborted transaction SAVEPOINT fails, and nothing changes.
Nest(t, b) ==
    /\ pc[t] = "in" /\ ~aborted /\ savepoints < MAX_SAVEPOINTS
    /\ savepoints' = savepoints + 1
    /\ tx' = Append(tx, [owner |-> b, path |-> path, work |-> {}, listeners |-> {}])
    /\ IF currentSchema = b THEN UNCHANGED <<path, currentSchema>>
       ELSE path' = b /\ currentSchema' = b
    /\ UNCHANGED <<pc, block, queue, session, aborted, calls, works, ghosts>>

\* ROLLBACK TO undoes the SET as well; the cluster forgets the path and sets
\* the parent's again.
rollbackToSavepoint ==
    /\ tx' = Front(tx)
    /\ fired' = fired \cup Top.listeners
    /\ path' = Parent.owner /\ currentSchema' = Parent.owner
    /\ aborted' = FALSE
    /\ UNCHANGED <<kept, silent>>

\* Faulty: the listeners of a released savepoint are dropped.
ReleaseDropsListeners ==
    [Front(tx) EXCEPT ![Len(tx) - 1] = With(@, Top.work, {})]

\* The released savepoint hands its work and its listeners to its parent.
Released ==
    [Front(tx) EXCEPT ![Len(tx) - 1] = With(@, Top.work, Top.listeners)]

\* A savepoint that a swallowed error has aborted is undone instead.
ReleaseSavepoint(t) ==
    /\ pc[t] = "in" /\ Len(tx) > 1
    /\ \/ aborted /\ rollbackToSavepoint
       \/ /\ ~aborted
          /\ tx' = Released
          /\ IF currentSchema = Parent.owner THEN UNCHANGED <<path, currentSchema>>
             ELSE path' = Parent.owner /\ currentSchema' = Parent.owner
          /\ UNCHANGED <<aborted, kept, fired, silent>>
    /\ UNCHANGED <<pc, block, queue, session, counters, ran>>

RollbackSavepoint(t) ==
    /\ pc[t] = "in" /\ Len(tx) > 1
    /\ rollbackToSavepoint
    /\ UNCHANGED <<pc, block, queue, session, counters, ran>>

\* The session after the transaction: what SET did in it is undone, or kept.
Undone == path' = Top.path /\ tx' = <<>> /\ aborted' = FALSE

\* COMMIT.  Of an aborted transaction it is a rollback nobody is told of.
Commit(t) ==
    /\ pc[t] = "in" /\ Len(tx) = 1
    /\ \/ /\ ~aborted
          /\ tx' = <<>> /\ kept' = kept \cup Top.work
          /\ UNCHANGED <<path, aborted, silent>>
       \/ /\ aborted
          /\ Undone /\ silent' = silent \cup Top.work
          /\ UNCHANGED kept
    /\ Release(t)
    /\ UNCHANGED <<block, session, currentSchema, counters, ran, fired>>

\* Faulty: only a successful COMMIT releases the mutex.
CommitFailsHolding(t) ==
    /\ pc[t] = "in" /\ Len(tx) = 1 /\ ~aborted
    /\ Undone
    /\ fired' = fired \cup Top.listeners
    /\ currentSchema' = Top.owner
    /\ Go(t, "idle") /\ UNCHANGED queue
    /\ UNCHANGED <<block, session, counters, ran, kept, silent>>

\* A COMMIT that fails has rolled the transaction back.
CommitFails(t) ==
    /\ pc[t] = "in" /\ Len(tx) = 1 /\ ~aborted
    /\ Undone
    /\ fired' = fired \cup Top.listeners
    /\ currentSchema' = Top.owner
    /\ Release(t)
    /\ UNCHANGED <<block, session, counters, ran, kept, silent>>

\* The callback has thrown.
Rollback(t) ==
    /\ pc[t] = "in" /\ Len(tx) = 1
    /\ Undone
    /\ fired' = fired \cup Top.listeners
    /\ currentSchema' = Top.owner
    /\ Release(t)
    /\ UNCHANGED <<block, session, counters, ran, kept, silent>>

-------------------------------------------------------------------------------
\* Faulty: the path of the closed session is still remembered.
CloseKeepsSchema ==
    /\ session # "closed" /\ \A t \in Tasks : pc[t] = "idle"
    /\ session' = "closed"
    /\ UNCHANGED <<pc, block, queue, path, aborted, tx, currentSchema, counters, ghosts>>

\* The exit hook runs when nothing else is left to do; later listeners may
\* still make calls.
CloseForExit ==
    /\ session # "closed" /\ \A t \in Tasks : pc[t] = "idle"
    /\ session' = "closed" /\ currentSchema' = None
    /\ UNCHANGED <<pc, block, queue, path, aborted, tx, counters, ghosts>>

Init ==
    /\ pc = [t \in Tasks |-> "idle"] /\ block \in [Tasks -> Blocks]
    /\ queue = <<>>
    /\ session = "fresh" /\ path = Public /\ aborted = FALSE /\ tx = <<>>
    /\ currentSchema = None
    /\ calls = 0 /\ savepoints = 0 /\ works = 0
    /\ ran = {} /\ kept = {} /\ fired = {} /\ silent = {}

Ends(t) ==
    ReleaseSavepoint(t) \/ RollbackSavepoint(t) \/ Commit(t) \/ CommitFails(t) \/ Rollback(t)

Step(t) ==
    \/ Acquire(t) \/ UseSchema(t) \/ InitFails(t) \/ Run(t) \/ Begin(t)
    \/ Statement(t) \/ \E b \in Blocks : Nest(t, b)
    \/ Ends(t)

Next ==
    \/ \E t \in Tasks : Step(t) \/ \E b \in Blocks : Call(t, b)
    \/ CloseForExit

Spec == Init /\ [][Next]_vars

\* PGlite answers, and callbacks return.
FairSpec == Spec /\ \A t \in Tasks : WF_vars(Step(t))

-------------------------------------------------------------------------------
(* Properties.                                                             *)

\* Every statement runs under the schema of the innermost block, which is its own
\* unless an outer handle is used in a nested callback, whatever nested calls,
\* swallowed errors, failed commits and initialisations and closed sessions came
\* before it (pglite-cluster.ts:138: "each block's statements switch `search_path`
\* to its schema").
InnermostSchema == \A statement \in ran : statement[3] = statement[2]

\* "a's statements still address a's schema, through tx and through the block"
\* (index.test.ts:399) of every awaited statement.  The code does not have this: an
\* outer `tx` used in a sibling's nested callback addresses the sibling's schema.
OwnSchema == \A statement \in ran : statement[3] = statement[1]

\* When no transaction is open every listener has been called whose work was
\* undone, and no other, however deep in savepoints it was registered; but not
\* for what an aborted transaction's COMMIT has undone silently.
ListenersMatch == tx = <<>> => fired = (1..works) \ (kept \cup silent)

\* Every call gets the mutex and returns.
CallsReturn == \A t \in Tasks : pc[t] # "idle" ~> pc[t] = "idle"

\* A transaction whose COMMIT is reported as done has its work kept.  The code
\* does not have this: see Commit.
NothingSilent == silent = {}
===============================================================================
