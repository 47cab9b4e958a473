------------------------------ MODULE GsiManager ------------------------------
(***************************************************************************)
(* The custom resource that keeps the secondary indexes of a              *)
(* DistributedTable in line with the deployed configuration               *)
(* (bb-distributed-table/src/gsi-manager-lambda.ts): onEvent, called once *)
(* per request, and isComplete, polled until the table matches; on a      *)
(* Delete the decision whether the indexes stay; and the sandbox's fast   *)
(* path, which drops the table and creates it again.                      *)
(*                                                                         *)
(* CloudFormation is modelled from how the code uses it: the requests an  *)
(* update, its cleanup, its rollback and a stack delete send, in which    *)
(* stack status and with which template.  DynamoDB changes one index at a *)
(* time and refuses a change while the table is busy.                     *)
(***************************************************************************)
EXTENDS Naturals, FiniteSets

CONSTANTS
    Names,          \* index names
    Keys,           \* key schemas
    Items,          \* items of the table, each a page of a scan
    MAX_DEPLOYS,    \* operations on the stack
    Sandbox,        \* the values SandboxMode may have
    Unreadable,     \* TRUE: the stack or its template may be unreadable
    Crashes,        \* TRUE: a Lambda may die, a request may time out
    None

ASSUME GsiAssumption ==
    /\ IsFiniteSet(Names)
    /\ None \notin Keys
    /\ MAX_DEPLOYS \in Nat
    /\ Sandbox \subseteq BOOLEAN
    /\ {Unreadable, Crashes} \subseteq BOOLEAN

VARIABLES
    stack,      \* CloudFormation's stack: its status, where it comes from and goes to
    deploys,    \* operations started on it
    table,      \* TableStatus
    gsi,        \* the key and IndexStatus of each index
    items,      \* what the table holds
    req,        \* the request under way, or the last one
    backup,     \* items the fast path holds in memory
    sandbox,    \* SandboxMode
    before,     \* ghost: the indexes to keep when the operation began
    owed        \* ghost: what was there when the scan began and no batch refused

vars == <<stack, deploys, table, gsi, items, req, backup, sandbox, before, owed>>
cfnVars == <<stack, deploys, before, sandbox>>
dataVars == <<items, backup, owed>>

Indexes == [Names -> Keys \cup {None}]
NoIndexes == [n \in Names |-> None]
Config == {c \in [table: BOOLEAN, indexes: Indexes] : ~c.table => c.indexes = NoIndexes}
Nothing == [table |-> FALSE, indexes |-> NoIndexes]
Gsi == [key: Keys \cup {None}, status: {"CREATING", "ACTIVE", "DELETING", "none"}]
NoGsi == [key |-> None, status |-> "none"]

Updating == {"creating", "updating"}
STACK_GOING_AWAY == {"deleting", "rollback create"}
UPDATE_CLEANUP == {"cleanup", "rollback cleanup"}
Recreating == {"scan", "drop", "dropping", "create", "wait", "restore"}

Stack == [status: {"none", "stable", "rolling back", "stuck"} \cup Updating
                      \cup STACK_GOING_AWAY \cup UPDATE_CLEANUP,
          from: Config, to: Config]
Request == [type: {"none", "Create", "Update", "Delete"}, want: Indexes, keep: BOOLEAN,
            phase: {"sent", "polling", "ok", "failed"} \cup Recreating]

TypeOK ==
    /\ stack \in Stack
    /\ deploys \in 0..MAX_DEPLOYS
    /\ table \in {"none", "creating", "active", "deleting"}
    /\ gsi \in [Names -> Gsi]
    /\ items \subseteq Items /\ backup \subseteq Items /\ owed \subseteq Items
    /\ req \in Request
    /\ sandbox \in BOOLEAN
    /\ before \in Indexes

Current == [n \in Names |-> gsi[n].key]
isTableBusy == table # "active" \/ \E n \in Names : gsi[n].status \notin {"ACTIVE", "none"}

\* Faulty: only the names are compared.
gsiMatchesNames(desired) == \A n \in Names : (Current[n] = None) = (desired[n] = None)

gsiMatchesDesired(desired) == Current = desired

\* Indexes that nobody is deleting.
Kept == [n \in Names |-> IF gsi[n].status = "DELETING" THEN None ELSE gsi[n].key]
HasResource(c) == c.indexes # NoIndexes
Desired == IF req.type = "Delete" THEN NoIndexes ELSE req.want

Send(type, want) == req' = [type |-> type, want |-> want, keep |-> FALSE, phase |-> "sent"]
NoRequest == req' = [type |-> "none", want |-> NoIndexes, keep |-> FALSE, phase |-> "ok"]
Phase(p) == req' = [req EXCEPT !.phase = p]
Ended == req.phase \in {"ok", "failed"}

-------------------------------------------------------------------------------
(* CloudFormation.                                                         *)

Status(s) == stack' = [stack EXCEPT !.status = s]

\* An update, or the first create, to configuration c.  A table the old
\* configuration lacks is created first, empty and without indexes.
Deploy(c) ==
    /\ stack.status \in {"none", "stable"} /\ deploys < MAX_DEPLOYS
    /\ c # stack.to /\ (stack.status = "none" => c.table)
    /\ stack' = [status |-> IF stack.status = "none" THEN "creating" ELSE "updating",
                 from |-> stack.to, to |-> c]
    /\ deploys' = deploys + 1
    /\ before' = Kept
    /\ IF c.table /\ ~stack.to.table
       THEN table' = "active" /\ items' = {} ELSE UNCHANGED <<table, items>>
    /\ IF c.indexes = stack.to.indexes \/ ~HasResource(c) THEN NoRequest
       ELSE Send(IF HasResource(stack.to) THEN "Update" ELSE "Create", c.indexes)
    /\ UNCHANGED <<gsi, backup, owed, sandbox>>

\* The update succeeds; a resource the new configuration lacks is deleted.
Cleanup ==
    /\ stack.status \in Updating /\ req.phase = "ok"
    /\ Status("cleanup")
    /\ IF HasResource(stack.from) /\ ~HasResource(stack.to)
       THEN Send("Delete", stack.from.indexes) ELSE UNCHANGED req
    /\ UNCHANGED <<deploys, before, sandbox, table, gsi, dataVars>>

\* This resource or another one has failed.
RollBack ==
    /\ stack.status \in Updating /\ Ended
    /\ IF stack.status = "creating"
       THEN /\ Status("rollback create")
            /\ IF HasResource(stack.to) THEN Send("Delete", stack.to.indexes) ELSE NoRequest
       ELSE /\ Status("rolling back")
            /\ IF req.type = "Update" THEN Send("Update", stack.from.indexes) ELSE NoRequest
    /\ UNCHANGED <<deploys, before, sandbox, table, gsi, dataVars>>

RollbackCleanup ==
    /\ stack.status = "rolling back" /\ req.phase = "ok"
    /\ Status("rollback cleanup")
    /\ IF HasResource(stack.to) /\ ~HasResource(stack.from)
       THEN Send("Delete", stack.to.indexes) ELSE UNCHANGED req
    /\ UNCHANGED <<deploys, before, sandbox, table, gsi, dataVars>>

DeleteStack ==
    /\ stack.status = "stable" /\ deploys < MAX_DEPLOYS
    /\ stack' = [status |-> "deleting", from |-> stack.to, to |-> Nothing]
    /\ deploys' = deploys + 1
    /\ before' = Kept
    /\ IF HasResource(stack.to) THEN Send("Delete", stack.to.indexes) ELSE NoRequest
    /\ UNCHANGED <<sandbox, table, gsi, dataVars>>

\* The operation ends; a table that is not in the configuration the stack
\* returns to leaves the stack with what indexes it has.
OperationEnds ==
    /\ stack.status \in UPDATE_CLEANUP \cup STACK_GOING_AWAY /\ Ended
    /\ stack.status \in UPDATE_CLEANUP \/ req.phase = "ok"
    /\ LET back == stack.status \in {"rollback cleanup", "rollback create"}
           config == IF back THEN stack.from ELSE stack.to
       IN /\ stack' = [status |-> IF stack.status \in STACK_GOING_AWAY THEN "none" ELSE "stable",
                       from |-> config, to |-> config]
          /\ IF config.table
             THEN UNCHANGED <<table, gsi, items>>
             ELSE /\ table' = "none" /\ items' = {}
                  /\ gsi' = [n \in Names |-> NoGsi]
    /\ UNCHANGED <<deploys, before, sandbox, backup, owed, req>>

\* A rollback or a stack delete whose request failed waits for an operator.
Stuck ==
    /\ stack.status \in {"rolling back"} \cup STACK_GOING_AWAY /\ req.phase = "failed"
    /\ Status("stuck")
    /\ UNCHANGED <<deploys, before, sandbox, table, gsi, dataVars, req>>

-------------------------------------------------------------------------------
(* DynamoDB.                                                               *)

IndexReady(n) ==
    /\ gsi[n].status \in {"CREATING", "DELETING"} /\ table = "active"
    /\ gsi' = [gsi EXCEPT ![n] =
                IF @.status = "CREATING" THEN [@ EXCEPT !.status = "ACTIVE"] ELSE NoGsi]
    /\ UNCHANGED <<cfnVars, table, dataVars, req>>

TableReady ==
    /\ \/ table = "creating" /\ table' = "active"
       \/ table = "deleting" /\ table' = "none"
    /\ UNCHANGED <<cfnVars, gsi, dataVars, req>>

\* The application writes.
Write(i) ==
    /\ table = "active" /\ i \notin items
    /\ items' = items \cup {i}
    /\ UNCHANGED <<cfnVars, table, gsi, req, backup, owed>>

-------------------------------------------------------------------------------
(* One change of one index.                                                *)

StartDelete(n) == gsi' = [gsi EXCEPT ![n].status = "DELETING"]
StartCreate(n, key) == gsi' = [gsi EXCEPT ![n] = [key |-> key, status |-> "CREATING"]]

Mismatched(d) == {n \in Names : Current[n] # None /\ d[n] # None /\ Current[n] # d[n]}
Missing(d) == {n \in Names : d[n] # None /\ Current[n] = None}
Extra(d) == {n \in Names : d[n] = None /\ Current[n] # None}

\* Faulty: deletions before creations.
initiateDeletionsFirst(d) ==
    \/ \E n \in Mismatched(d) \cup Extra(d) : StartDelete(n)
    \/ /\ Mismatched(d) \cup Extra(d) = {}
       /\ \E n \in Missing(d) : StartCreate(n, d[n])

\* Faulty: indexes that are no longer desired are forgotten.
initiateNoDeletion(d) ==
    \/ \E n \in Mismatched(d) : StartDelete(n)
    \/ Mismatched(d) = {} /\ \E n \in Missing(d) : StartCreate(n, d[n])
    \/ Mismatched(d) \cup Missing(d) = {} /\ UNCHANGED gsi

initiateNextChange(d) ==
    \/ \E n \in Mismatched(d) : StartDelete(n)
    \/ Mismatched(d) = {} /\ \E n \in Missing(d) : StartCreate(n, d[n])
    \/ Mismatched(d) \cup Missing(d) = {} /\ \E n \in Extra(d) : StartDelete(n)

-------------------------------------------------------------------------------
(* onEvent and isComplete.                                                 *)

\* Faulty: asks for the status of the stack only.
verdictsByStatus ==
    IF stack.status \in STACK_GOING_AWAY THEN {"keep"} ELSE {"drop"}

\* deleteKeepsIndexes: in a cleanup the current template is the one the stack
\* ends with.
deleteKeepsIndexes ==
    LET template == IF stack.status = "cleanup" THEN stack.to ELSE stack.from
    IN  (IF stack.status \in STACK_GOING_AWAY THEN {"keep"}
         ELSE IF template.table THEN {"drop"} ELSE {"keep"})
        \cup (IF Unreadable THEN {"keep"} ELSE {})
        \cup (IF Unreadable /\ stack.status \in UPDATE_CLEANUP THEN {"throw"} ELSE {})

\* A table that is gone has no indexes left to delete; a Create or an Update
\* fails on it.
MissingTable ==
    /\ table = "none"
    /\ Phase(IF req.type = "Delete" THEN "ok" ELSE "failed")
    /\ UNCHANGED gsi

KeepIndexes ==
    /\ req.phase = "sent" /\ req.type = "Delete"
    /\ \E v \in deleteKeepsIndexes :
        \/ v = "keep" /\ req' = [req EXCEPT !.keep = TRUE, !.phase = "polling"]
        \/ v = "throw" /\ Phase("failed")
    /\ UNCHANGED <<cfnVars, table, gsi, dataVars>>

OnEvent ==
    /\ req.phase = "sent"
    /\ req.type = "Delete" => "drop" \in deleteKeepsIndexes
    /\ \/ MissingTable
       \/ /\ table # "none"
          /\ \/ /\ gsiMatchesDesired(Desired) /\ ~isTableBusy
                /\ Phase("polling") /\ UNCHANGED gsi
             \/ /\ ~(gsiMatchesDesired(Desired) /\ ~isTableBusy)
                /\ \/ /\ sandbox /\ Desired # NoIndexes
                      /\ Phase("scan") /\ UNCHANGED gsi
                   \/ /\ ~(sandbox /\ Desired # NoIndexes) /\ isTableBusy
                      /\ Phase("polling") /\ UNCHANGED gsi
                   \/ /\ ~(sandbox /\ Desired # NoIndexes) /\ ~isTableBusy
                      /\ initiateNextChange(Desired) /\ Phase("polling")
    /\ owed' = items /\ backup' = {}
    /\ UNCHANGED <<cfnVars, table, items>>

IsComplete ==
    /\ req.phase = "polling"
    /\ \/ req.keep /\ Phase("ok") /\ UNCHANGED gsi
       \/ ~req.keep /\ MissingTable
       \/ /\ ~req.keep /\ table # "none" /\ ~isTableBusy
          /\ \/ gsiMatchesDesired(Desired) /\ Phase("ok") /\ UNCHANGED gsi
             \/ ~gsiMatchesDesired(Desired) /\ initiateNextChange(Desired) /\ UNCHANGED req
    /\ UNCHANGED <<cfnVars, table, dataVars>>

\* The Lambda dies, a call of it fails, or the Provider's two hours are over.
RequestFails ==
    /\ Crashes
    /\ ~Ended
    /\ Phase("failed")
    /\ backup' = {}
    /\ UNCHANGED <<cfnVars, table, gsi, items, owed>>

-------------------------------------------------------------------------------
(* The sandbox's fast path: recreateTableWithIndexes.                      *)

\* Faulty: takes the first page of the scan for all of it.
ScanOnePage(i) ==
    /\ req.phase = "scan"
    /\ backup' = {i} \cap items
    /\ Phase("drop")
    /\ UNCHANGED <<cfnVars, table, gsi, items, owed>>

\* One page of the scan, in any order; the last page ends it.
ScanPage(i) ==
    /\ req.phase = "scan"
    /\ i \in items \ backup
    /\ backup' = backup \cup {i}
    /\ UNCHANGED <<cfnVars, table, gsi, items, owed, req>>

\* Items written behind the scan's back are not in it.
ScanEnds ==
    /\ req.phase = "scan"
    /\ owed \subseteq backup
    /\ Phase("drop")
    /\ UNCHANGED <<cfnVars, table, gsi, dataVars>>

\* A busy table cannot be deleted.
DropTable ==
    /\ req.phase = "drop"
    /\ IF isTableBusy
       THEN /\ Phase("failed") /\ UNCHANGED <<table, gsi, items>>
       ELSE /\ Phase("dropping")
            /\ table' = "deleting" /\ items' = {}
            /\ gsi' = [n \in Names |-> NoGsi]
    /\ UNCHANGED <<cfnVars, backup, owed>>

CreateTable ==
    /\ req.phase = "dropping" /\ table = "none"
    /\ table' = "creating"
    /\ gsi' = [n \in Names |-> IF Desired[n] = None THEN NoGsi
                               ELSE [key |-> Desired[n], status |-> "CREATING"]]
    /\ Phase("wait")
    /\ UNCHANGED <<cfnVars, dataVars>>

WaitActive ==
    /\ req.phase = "wait" /\ ~isTableBusy
    /\ Phase("restore")
    /\ UNCHANGED <<cfnVars, table, gsi, dataVars>>

\* One item of a batch is written, or left in UnprocessedItems, which nobody
\* reads.
Restore(i) ==
    /\ req.phase = "restore"
    /\ i \in backup
    /\ \/ items' = items \cup {i} /\ UNCHANGED owed
       \/ owed' = owed \ {i} /\ UNCHANGED items
    /\ backup' = backup \ {i}
    /\ UNCHANGED <<cfnVars, table, gsi, req>>

RestoreEnds ==
    /\ req.phase = "restore" /\ backup = {}
    /\ Phase("polling")
    /\ UNCHANGED <<cfnVars, table, gsi, dataVars>>

-------------------------------------------------------------------------------
Init ==
    /\ stack = [status |-> "none", from |-> Nothing, to |-> Nothing]
    /\ deploys = 0
    /\ table = "none" /\ gsi = [n \in Names |-> NoGsi] /\ items = {}
    /\ req = [type |-> "none", want |-> NoIndexes, keep |-> FALSE, phase |-> "ok"]
    /\ backup = {} /\ owed = {}
    /\ sandbox \in Sandbox
    /\ before = NoIndexes

Cloudformation ==
    \/ \E c \in Config : Deploy(c)
    \/ DeleteStack \/ Cleanup \/ RollBack \/ RollbackCleanup \/ OperationEnds \/ Stuck

Dynamo == TableReady \/ \E n \in Names : IndexReady(n)

Recreate ==
    \/ ScanEnds \/ DropTable \/ CreateTable \/ WaitActive \/ RestoreEnds
    \/ \E i \in Items : ScanPage(i) \/ Restore(i)

Manager == KeepIndexes \/ OnEvent \/ IsComplete \/ Recreate

Next ==
    \/ Cloudformation \/ Dynamo \/ Manager \/ RequestFails
    \/ \E i \in Items : Write(i)

Spec == Init /\ [][Next]_vars

\* DynamoDB finishes what it starts, and the Provider calls the handlers.
FairSpec == Spec /\ WF_vars(Dynamo) /\ WF_vars(Manager)

-------------------------------------------------------------------------------
(* Properties.                                                             *)

\* A stack at rest has the indexes of its configuration on the table, whatever
\* half-made changes failed requests, rollbacks and kept indexes of earlier
\* operations had left behind, the fast path's included; only when the last
\* operation asked nothing of this resource, failed to clean up, or chose to
\* keep the indexes, may there be others.
RestMeansServed ==
    /\ stack.status = "stable" /\ stack.to.table
    /\ req.type # "none" /\ req.phase = "ok" /\ ~req.keep
    => Current = stack.to.indexes

\* A table that leaves the stack takes along every index that served, or was to
\* serve, when the operation began, whether its own removal or that of the whole stack makes
\* it leave (deleteKeepsIndexes).
OrphanKeepsIndexes ==
    [][/\ stack.status \in UPDATE_CLEANUP \cup STACK_GOING_AWAY
       /\ stack'.status \in {"none", "stable"} /\ ~stack'.to.table
       => \A n \in Names : before[n] # None /\ table # "none" => Current[n] = before[n]]_vars

\* The old access paths stay until the new ones serve: an index that is merely
\* no longer desired starts to be deleted only when every desired one is active.
OldServesUntilNew ==
    [][\A n \in Names :
        gsi[n].status = "ACTIVE" /\ gsi'[n].status = "DELETING" /\ Desired[n] = None =>
            \A w \in Names : Desired[w] # None =>
                gsi[w] = [key |-> Desired[w], status |-> "ACTIVE"]]_vars

\* When the items are back, the recreated table holds every one that was there
\* when the scan began, but for those a batch write left unprocessed.
NothingLost ==
    [][req.phase = "restore" /\ req'.phase = "polling" => owed \subseteq items]_vars

\* Every request ends, however its predecessors left the table.
RequestEnds == ~Ended ~> Ended
===============================================================================
