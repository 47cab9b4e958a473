--------------------------- MODULE GsiManagerProofs ---------------------------
(***************************************************************************)
(* Theorems about GsiManager, for any index names, key schemas and items, *)
(* any number of operations on the stack and any faults.                   *)
(***************************************************************************)
EXTENDS GsiManager, TLAPS

Resting == {"none", "stable"}

\* An index has a key as long as DynamoDB knows it, and a table that goes has none.
TableInv ==
    /\ \A n \in Names : gsi[n].key = None <=> gsi[n].status = "none"
    /\ table \in {"none", "deleting"} => \A n \in Names : gsi[n] = NoGsi

\* CloudFormation ends no operation with a request under way.
UnderWay == stack.status \in Resting \cup {"stuck"} => Ended

\* The items of a recreated table are in the table, in memory, or on their way back.
DataInv ==
    /\ req.phase = "scan" => owed \subseteq items
    /\ req.phase \in {"drop", "dropping", "create", "wait"} => owed \subseteq backup
    /\ req.phase = "restore" => owed \subseteq items \cup backup

\* What the last request wants is what the stack goes to, or goes back to.
WantInv ==
    /\ req.type = "none" => req.phase = "ok"
    /\ req.type # "none" =>
        /\ stack.status \in Updating => req.type # "Delete" /\ req.want = stack.to.indexes
        /\ stack.status \in {"cleanup", "stable"} => Desired = stack.to.indexes
        /\ stack.status = "rolling back" => req.type = "Update" /\ req.want = stack.from.indexes
        /\ stack.status = "rollback cleanup" => Desired = stack.from.indexes

\* A request that ended well, and kept nothing, left the indexes it wants.
ServedInv ==
    /\ req.type # "none" /\ req.phase = "ok" /\ ~req.keep
    /\ stack.status \in Resting => stack.to.table
    => \A n \in Names : Current[n] = Desired[n] /\ gsi[n].status # "DELETING"

\* The indexes of a table that is about to leave the stack are left alone.
OrphanInv ==
    /\ stack.status \in Resting /\ ~stack.to.table => \A n \in Names : gsi[n] = NoGsi
    /\ stack.status \notin Resting /\ ~stack.from.table => before = NoIndexes
    /\ stack.status \notin Resting /\ ~stack.to.table =>
        /\ \A n \in Names : before[n] # None => Current[n] = before[n] /\ gsi[n].status # "DELETING"
        /\ \/ req.type = "none"
           \/ /\ req.type = "Delete" /\ req.phase \in {"sent", "polling", "ok", "failed"}
              /\ req.phase = "polling" => req.keep
              /\ ~Ended => stack.status \in {"cleanup", "deleting"}

ManagerInv == TypeOK /\ TableInv /\ UnderWay /\ DataInv /\ WantInv /\ ServedInv /\ OrphanInv
-------------------------------------------------------------------------------
(* Types.                                                                  *)

LEMMA ConfigType ==
    /\ NoIndexes \in Indexes /\ Nothing \in Config
    /\ \A c \in Config : c.table \in BOOLEAN /\ c.indexes \in Indexes /\ (~c.table => c.indexes = NoIndexes)
    /\ TypeOK => Kept \in Indexes /\ Desired \in Indexes /\ req.want \in Indexes
BY DEF NoIndexes, Nothing, Config, Indexes, TypeOK, Kept, Gsi, Desired, Request

\* The fields of the variables that are records.
LEMMA Fields ==
    ASSUME TypeOK
    PROVE  /\ stack = [status |-> stack.status, from |-> stack.from, to |-> stack.to]
           /\ stack.from \in Config /\ stack.to \in Config
           /\ req = [type |-> req.type, want |-> req.want, keep |-> req.keep, phase |-> req.phase]
           /\ req.type \in {"none", "Create", "Update", "Delete"} /\ req.want \in Indexes
           /\ req.keep \in BOOLEAN
           /\ deploys \in 0..MAX_DEPLOYS
           /\ gsi \in [Names -> Gsi]
           /\ \A n \in Names : /\ gsi[n] = [key |-> gsi[n].key, status |-> gsi[n].status]
                               /\ gsi[n].key \in Keys \cup {None}
                               /\ gsi[n].status \in {"CREATING", "ACTIVE", "DELETING", "none"}
BY DEF TypeOK, Gsi, Stack, Request

\* One change of one index: an unwanted one begins to go, or a missing one to come, once
\* every other that has to come is there.
LEMMA OneChange ==
    ASSUME TypeOK, NEW d \in Indexes, initiateNextChange(d)
    PROVE  /\ gsi' \in [Names -> Gsi]
           /\ \E n \in Names :
                /\ \A k \in Names : k # n => gsi'[k] = gsi[k]
                /\ \/ /\ gsi[n].key # None /\ gsi[n].key # d[n]
                      /\ gsi'[n] = [key |-> gsi[n].key, status |-> "DELETING"]
                      /\ d[n] = None => \A k \in Names : d[k] # None => gsi[k].key = d[k]
                   \/ /\ gsi[n].key = None /\ d[n] # None
                      /\ gsi'[n] = [key |-> d[n], status |-> "CREATING"]
<1>1. gsi \in [Names -> Gsi] /\ \A n \in Names : d[n] \in Keys \cup {None}
  BY DEF TypeOK, Indexes
<1>2. \A n \in Names : Current[n] = gsi[n].key
  BY DEF Current
<1>3. ASSUME NEW n \in Mismatched(d) \cup Extra(d), StartDelete(n),
             n \in Extra(d) => Mismatched(d) \cup Missing(d) = {}
      PROVE  /\ gsi' \in [Names -> Gsi]
             /\ \A k \in Names : k # n => gsi'[k] = gsi[k]
             /\ n \in Names /\ gsi[n].key # None /\ gsi[n].key # d[n]
             /\ gsi'[n] = [key |-> gsi[n].key, status |-> "DELETING"]
             /\ d[n] = None => \A k \in Names : d[k] # None => gsi[k].key = d[k]
  <2>1. n \in Names /\ gsi[n].key # None /\ gsi[n].key # d[n] /\ (d[n] = None => n \in Extra(d))
    BY <1>2, <1>3 DEF Mismatched, Extra
  <2>2. d[n] = None => \A k \in Names : d[k] # None => gsi[k].key = d[k]
    BY <1>2, <1>3, <2>1 DEF Mismatched, Missing
  <2>3. gsi' = [gsi EXCEPT ![n] = [gsi[n] EXCEPT !.status = "DELETING"]]
    BY <1>1, <1>3, <2>1 DEF StartDelete
  <2>4. gsi[n].key \in Keys \cup {None} /\ gsi[n] = [key |-> gsi[n].key, status |-> gsi[n].status]
    BY <2>1, Fields
  <2>5. [gsi[n] EXCEPT !.status = "DELETING"] = [key |-> gsi[n].key, status |-> "DELETING"]
    BY <2>4
  <2>6. [key |-> gsi[n].key, status |-> "DELETING"] \in Gsi
    BY <2>4 DEF Gsi
  <2> QED
    BY <1>1, <2>1, <2>2, <2>3, <2>5, <2>6
<1>4. ASSUME NEW n \in Missing(d), StartCreate(n, d[n])
      PROVE  /\ gsi' \in [Names -> Gsi]
             /\ \A k \in Names : k # n => gsi'[k] = gsi[k]
             /\ n \in Names /\ gsi[n].key = None /\ d[n] # None
             /\ gsi'[n] = [key |-> d[n], status |-> "CREATING"]
  BY <1>1, <1>2, <1>4 DEF Missing, StartCreate, Gsi
<1>5. CASE \E n \in Missing(d) : StartCreate(n, d[n])
  BY <1>4, <1>5
<1>6. CASE \E n \in Mismatched(d) : StartDelete(n)
  <2>1. Mismatched(d) \cap Extra(d) = {}
    BY DEF Mismatched, Extra
  <2> QED
    BY <1>3, <1>6, <2>1
<1>7. CASE Mismatched(d) \cup Missing(d) = {} /\ \E n \in Extra(d) : StartDelete(n)
  BY <1>3, <1>7
<1> QED
  BY <1>5, <1>6, <1>7 DEF initiateNextChange

\* The handlers change an index by at most one such change.
LEMMA HandlerGsi ==
    ASSUME TypeOK, OnEvent \/ IsComplete
    PROVE  /\ gsi' \in [Names -> Gsi]
           /\ UNCHANGED gsi \/ (table # "none" /\ ~isTableBusy /\ initiateNextChange(Desired))
<1>1. UNCHANGED gsi \/ (table # "none" /\ ~isTableBusy /\ initiateNextChange(Desired))
  BY DEF OnEvent, IsComplete, MissingTable
<1> QED
  BY <1>1, OneChange, ConfigType DEF TypeOK

\* What a step may make of the request and of the indexes.
LEMMA Makes ==
    ASSUME TypeOK
    PROVE  /\ \A type \in {"none", "Create", "Update", "Delete"}, want \in Indexes, phase \in {"sent", "ok"} :
                [type |-> type, want |-> want, keep |-> FALSE, phase |-> phase] \in Request
           /\ \A phase \in {"sent", "polling", "ok", "failed"} \cup Recreating :
                [req EXCEPT !.phase = phase] \in Request
           /\ [req EXCEPT !.keep = TRUE, !.phase = "polling"] \in Request
           /\ NoGsi \in Gsi
           /\ \A key \in Keys \cup {None}, status \in {"CREATING", "ACTIVE", "DELETING"} :
                [key |-> key, status |-> status] \in Gsi
BY DEF TypeOK, Request, Gsi, NoGsi

LEMMA TypeStep == TypeOK /\ [Next]_vars => TypeOK'
<1> SUFFICES ASSUME TypeOK, [Next]_vars PROVE TypeOK'
  OBVIOUS
<1>0. /\ stack \in Stack /\ stack.from \in Config /\ stack.to \in Config
      /\ {NoIndexes, stack.from.indexes, stack.to.indexes, Kept} \subseteq Indexes
  BY Fields, ConfigType DEF TypeOK
<1>1. ASSUME NEW c \in Config, Deploy(c) PROVE TypeOK'
  <2>1. stack' \in Stack
    BY <1>0, <1>1 DEF Deploy, Updating, Stack
  <2>2. \E type \in {"none", "Create", "Update"}, want \in {NoIndexes, c.indexes}, phase \in {"sent", "ok"} :
            req' = [type |-> type, want |-> want, keep |-> FALSE, phase |-> phase]
    BY <1>1 DEF Deploy, NoRequest, Send
  <2>8. {NoIndexes, c.indexes} \subseteq Indexes
    BY ConfigType
  <2>3. req' \in Request
    BY <2>2, <2>8, Makes
  <2>4. deploys' = deploys + 1 /\ deploys < MAX_DEPLOYS
    BY <1>1 DEF Deploy
  <2>5. deploys' \in 0..MAX_DEPLOYS
    BY <2>4, Fields, GsiAssumption
  <2>6. before' \in Indexes /\ table' \in {table, "active"} /\ items' \in {items, {}}
    BY <1>0, <1>1 DEF Deploy
  <2>7. UNCHANGED <<gsi, backup, owed, sandbox>>
    BY <1>1 DEF Deploy
  <2> QED
    BY <2>1, <2>3, <2>5, <2>6, <2>7 DEF TypeOK
<1>2. CASE Cleanup \/ RollBack \/ RollbackCleanup \/ Stuck
  <2>1. PICK status \in {"rolling back", "stuck"} \cup STACK_GOING_AWAY \cup UPDATE_CLEANUP : Status(status)
    BY <1>2 DEF Cleanup, RollBack, RollbackCleanup, Stuck, STACK_GOING_AWAY, UPDATE_CLEANUP
  <2>2. stack' \in Stack
    BY <1>0, <2>1 DEF Status, Stack
  <2>3. \/ req' = req
        \/ \E type \in {"none", "Update", "Delete"}, phase \in {"sent", "ok"},
              want \in {NoIndexes, stack.from.indexes, stack.to.indexes} :
              req' = [type |-> type, want |-> want, keep |-> FALSE, phase |-> phase]
    BY <1>2 DEF Cleanup, RollBack, RollbackCleanup, Stuck, NoRequest, Send
  <2>4. req' \in Request
    BY <1>0, <2>3, Makes DEF TypeOK
  <2>5. UNCHANGED <<deploys, before, sandbox, table, gsi, dataVars>>
    BY <1>2 DEF Cleanup, RollBack, RollbackCleanup, Stuck
  <2> QED
    BY <2>2, <2>4, <2>5 DEF TypeOK, dataVars
<1>3. CASE DeleteStack
  <2>1. stack' \in Stack
    BY <1>0, <1>3, ConfigType DEF DeleteStack, Stack, STACK_GOING_AWAY
  <2>2. \E type \in {"none", "Delete"}, want \in {NoIndexes, stack.to.indexes}, phase \in {"sent", "ok"} :
            req' = [type |-> type, want |-> want, keep |-> FALSE, phase |-> phase]
    BY <1>3 DEF DeleteStack, NoRequest, Send
  <2>3. req' \in Request
    BY <1>0, <2>2, Makes
  <2>4. deploys' = deploys + 1 /\ deploys < MAX_DEPLOYS /\ before' = Kept
    BY <1>3 DEF DeleteStack
  <2>5. deploys' \in 0..MAX_DEPLOYS
    BY <2>4, Fields, GsiAssumption
  <2>6. UNCHANGED <<sandbox, table, gsi, dataVars>>
    BY <1>3 DEF DeleteStack
  <2> QED
    BY <1>0, <2>1, <2>3, <2>4, <2>5, <2>6 DEF TypeOK, dataVars
<1>4. CASE OperationEnds
  <2>1. PICK config \in {stack.from, stack.to}, status \in Resting :
             stack' = [status |-> status, from |-> config, to |-> config]
    BY <1>4 DEF OperationEnds, Resting
  <2>6. config \in Config
    BY <1>0
  <2>2. stack' \in Stack
    BY <2>1, <2>6 DEF Stack, Resting
  <2>3. table' \in {table, "none"} /\ items' \in {items, {}} /\ gsi' \in {gsi, [n \in Names |-> NoGsi]}
    BY <1>4 DEF OperationEnds
  <2>4. gsi' \in [Names -> Gsi]
    BY <2>3, Fields, Makes
  <2>5. UNCHANGED <<deploys, before, sandbox, backup, owed, req>>
    BY <1>4 DEF OperationEnds
  <2> QED
    BY <2>2, <2>3, <2>4, <2>5 DEF TypeOK
<1>5. CASE Dynamo \/ \E i \in Items : Write(i)
  <2>1. gsi' \in [Names -> Gsi]
    <3>1. ASSUME NEW n \in Names, IndexReady(n) PROVE gsi' \in [Names -> Gsi]
      <4>1. gsi' = [gsi EXCEPT ![n] = IF gsi[n].status = "CREATING"
                                      THEN [gsi[n] EXCEPT !.status = "ACTIVE"] ELSE NoGsi]
        BY <3>1, Fields DEF IndexReady
      <4>2. [gsi[n] EXCEPT !.status = "ACTIVE"] = [key |-> gsi[n].key, status |-> "ACTIVE"]
        BY Fields
      <4>3. [key |-> gsi[n].key, status |-> "ACTIVE"] \in Gsi /\ NoGsi \in Gsi
        BY Fields, Makes
      <4> QED
        BY <4>1, <4>2, <4>3, Fields
    <3> QED
      BY <1>5, <3>1, Fields DEF Dynamo, TableReady, Write
  <2>2. table' \in {"none", "creating", "active", "deleting"} /\ items' \subseteq Items
    BY <1>5 DEF Dynamo, TableReady, IndexReady, Write, TypeOK, dataVars
  <2>3. UNCHANGED <<cfnVars, req, backup, owed>>
    BY <1>5 DEF Dynamo, TableReady, IndexReady, Write, dataVars
  <2> QED
    BY <2>1, <2>2, <2>3 DEF TypeOK, cfnVars
<1>6. CASE Manager \/ RequestFails
  <2>1. UNCHANGED cfnVars
    BY <1>6 DEF Manager, KeepIndexes, OnEvent, IsComplete, Recreate, ScanEnds, DropTable, CreateTable,
                WaitActive, RestoreEnds, ScanPage, Restore, RequestFails
  <2>2. req' \in Request
    <3>1. \/ req' = [req EXCEPT !.keep = TRUE, !.phase = "polling"]
          \/ \E p \in {"sent", "polling", "ok", "failed"} \cup Recreating : Phase(p)
          \/ UNCHANGED req
      BY <1>6 DEF Manager, KeepIndexes, OnEvent, IsComplete, Recreate, ScanEnds, DropTable, CreateTable,
                WaitActive, RestoreEnds, ScanPage, Restore, RequestFails, MissingTable, Recreating
    <3> QED
      BY <3>1, Makes DEF Phase, TypeOK
  <2>3. gsi' \in [Names -> Gsi]
    <3>1. CASE OnEvent \/ IsComplete
      BY <3>1, HandlerGsi
    <3>2. CASE CreateTable
      <4>1. \A n \in Names : Desired[n] \in Keys \cup {None}
        BY ConfigType DEF Indexes
      <4> QED
        BY <3>2, <4>1, Makes DEF CreateTable
    <3>3. CASE Recreate \/ KeepIndexes \/ RequestFails
      BY <3>2, <3>3, Fields, Makes DEF KeepIndexes, Recreate, ScanEnds, DropTable,
                WaitActive, RestoreEnds, ScanPage, Restore, RequestFails
    <3> QED
      BY <1>6, <3>1, <3>3 DEF Manager
  <2>4. /\ table' \in {"none", "creating", "active", "deleting"}
        /\ items' \subseteq Items /\ backup' \subseteq Items /\ owed' \subseteq Items
    BY <1>6 DEF Manager, KeepIndexes, OnEvent, IsComplete, Recreate, ScanEnds, DropTable, CreateTable,
                WaitActive, RestoreEnds, ScanPage, Restore, RequestFails, dataVars, TypeOK
  <2> QED
    BY <2>1, <2>2, <2>3, <2>4 DEF TypeOK, cfnVars
<1>7. CASE UNCHANGED vars
  BY <1>7 DEF vars, TypeOK
<1> QED
  BY <1>1, <1>2, <1>3, <1>4, <1>5, <1>6, <1>7 DEF Next, Cloudformation
-------------------------------------------------------------------------------
(* What the steps of each side leave alone.                                *)

\* The handlers act on a request that is under way, and change only how far it is.
LEMMA ManagerFacts ==
    ASSUME TypeOK, Manager \/ RequestFails
    PROVE  /\ ~Ended /\ UNCHANGED <<stack, before>>
           /\ req'.type = req.type /\ req'.want = req.want
<1>1. \/ req' = [req EXCEPT !.keep = TRUE, !.phase = "polling"]
      \/ \E p \in {"sent", "polling", "ok", "failed"} \cup Recreating : Phase(p)
      \/ UNCHANGED req
  BY DEF Manager, KeepIndexes, OnEvent, IsComplete, Recreate, ScanEnds, DropTable, CreateTable,
         WaitActive, RestoreEnds, ScanPage, Restore, RequestFails, MissingTable, Recreating
<1>2. req'.type = req.type /\ req'.want = req.want
  BY <1>1, Fields DEF Phase
<1>3. ~Ended
  BY DEF Manager, KeepIndexes, OnEvent, IsComplete, Recreate, ScanEnds, DropTable, CreateTable,
         WaitActive, RestoreEnds, ScanPage, Restore, RequestFails, Ended
<1>4. UNCHANGED <<stack, before>>
  BY DEF Manager, KeepIndexes, OnEvent, IsComplete, Recreate, ScanEnds, DropTable, CreateTable,
         WaitActive, RestoreEnds, ScanPage, Restore, RequestFails, cfnVars
<1> QED
  BY <1>2, <1>3, <1>4

\* CloudFormation sends a request, withholds it, or keeps one that has ended.
LEMMA CfnFacts ==
    ASSUME TypeOK, UnderWay, Cloudformation
    PROVE  /\ Ended \/ req'.phase \in {"sent", "ok"}
           /\ req'.phase \in {"sent", "ok", "failed"}
           /\ req' = req \/ (~req'.keep /\ (req'.phase = "ok" <=> req'.type = "none"))
<1>1. \/ req' = req /\ Ended
      \/ NoRequest
      \/ \E type \in {"Create", "Update", "Delete"}, want \in Indexes : Send(type, want)
  <2>1. CASE \E c \in Config : Deploy(c)
    BY <2>1, ConfigType DEF Deploy
  <2>2. CASE DeleteStack \/ Cleanup \/ RollBack \/ RollbackCleanup
    BY <2>2, Fields, ConfigType DEF DeleteStack, Cleanup, RollBack, RollbackCleanup, Ended
  <2>3. CASE OperationEnds \/ Stuck
    BY <2>3 DEF OperationEnds, Stuck, Ended
  <2> QED
    BY <2>1, <2>2, <2>3 DEF Cloudformation
<1> QED
  BY <1>1 DEF NoRequest, Send, Ended

\* It takes indexes away only with the table.
LEMMA CfnTable ==
    ASSUME Cloudformation
    PROVE  \/ UNCHANGED <<table, gsi>>
           \/ UNCHANGED gsi /\ table' = "active"
           \/ table' = "none" /\ gsi' = [n \in Names |-> NoGsi]
BY DEF Cloudformation, Deploy, DeleteStack, Cleanup, RollBack, RollbackCleanup, OperationEnds, Stuck

\* DynamoDB finishes the change of one index, or of the table.
LEMMA DynamoFacts ==
    ASSUME TypeOK, TableInv, Dynamo
    PROVE  /\ UNCHANGED <<stack, req, before, items, backup, owed>>
           /\ \/ UNCHANGED gsi /\ table \in {"creating", "deleting"}
                 /\ table' = IF table = "creating" THEN "active" ELSE "none"
              \/ /\ UNCHANGED table /\ table = "active" /\ gsi' \in [Names -> Gsi]
                 /\ \A n \in Names :
                      \/ gsi'[n] = gsi[n]
                      \/ gsi[n].status = "CREATING" /\ gsi'[n] = [key |-> gsi[n].key, status |-> "ACTIVE"]
                      \/ gsi[n].status = "DELETING" /\ gsi'[n] = NoGsi
<1>1. CASE TableReady
  BY <1>1 DEF TableReady, cfnVars, dataVars
<1>2. ASSUME NEW n \in Names, IndexReady(n)
      PROVE  /\ UNCHANGED <<table, stack, req, before, items, backup, owed>> /\ table = "active"
             /\ gsi' \in [Names -> Gsi]
             /\ \A k \in Names :
                      \/ gsi'[k] = gsi[k]
                      \/ gsi[k].status = "CREATING" /\ gsi'[k] = [key |-> gsi[k].key, status |-> "ACTIVE"]
                      \/ gsi[k].status = "DELETING" /\ gsi'[k] = NoGsi
  <2>1. /\ gsi' = [gsi EXCEPT ![n] = IF gsi[n].status = "CREATING"
                                    THEN [gsi[n] EXCEPT !.status = "ACTIVE"] ELSE NoGsi]
        /\ gsi[n].status \in {"CREATING", "DELETING"} /\ table = "active"
        /\ UNCHANGED <<cfnVars, table, dataVars, req>>
    BY <1>2, Fields DEF IndexReady
  <2>2. [gsi[n] EXCEPT !.status = "ACTIVE"] = [key |-> gsi[n].key, status |-> "ACTIVE"]
    BY Fields
  <2>3. [key |-> gsi[n].key, status |-> "ACTIVE"] \in Gsi /\ NoGsi \in Gsi
    BY Fields, Makes
  <2> QED
    BY <2>1, <2>2, <2>3, Fields DEF cfnVars, dataVars
<1> QED
  BY <1>1, <1>2 DEF Dynamo

-------------------------------------------------------------------------------
(* The invariant is inductive.                                             *)

LEMMA TableStep == ManagerInv /\ [Next]_vars => TableInv'
<1> SUFFICES ASSUME ManagerInv, [Next]_vars PROVE TableInv'
  OBVIOUS
<1>0. TypeOK /\ TableInv
  BY DEF ManagerInv
<1>1. CASE Cloudformation
  BY <1>0, <1>1, CfnTable DEF TableInv, NoGsi
<1>2. CASE Dynamo
  <2>1. \A n \in Names : gsi'[n].key = None <=> gsi'[n].status = "none"
    <3>1. \A n \in Names :
            \/ gsi'[n] = gsi[n]
            \/ gsi[n].status = "CREATING" /\ gsi'[n] = [key |-> gsi[n].key, status |-> "ACTIVE"]
            \/ gsi'[n] = NoGsi
      BY <1>0, <1>2, DynamoFacts
    <3> SUFFICES ASSUME NEW n \in Names PROVE gsi'[n].key = None <=> gsi'[n].status = "none"
      OBVIOUS
    <3>2. gsi[n].key = None <=> gsi[n].status = "none"
      BY <1>0 DEF TableInv
    <3>3. CASE gsi'[n] = [key |-> gsi[n].key, status |-> "ACTIVE"] /\ gsi[n].status = "CREATING"
      BY <3>2, <3>3
    <3>4. CASE gsi'[n] = NoGsi
      BY <3>4 DEF NoGsi
    <3> QED
      BY <3>1, <3>2, <3>3, <3>4
  <2>2. UNCHANGED gsi \/ table' = "active"
    BY <1>0, <1>2, DynamoFacts
  <2>3. table' \in {"none", "deleting"} => table \in {"none", "deleting"}
    BY <1>0, <1>2, DynamoFacts
  <2> QED
    BY <1>0, <2>1, <2>2, <2>3 DEF TableInv
<1>3. CASE OnEvent \/ IsComplete
  <2>1. table' = table
    BY <1>3 DEF OnEvent, IsComplete
  <2>2. CASE UNCHANGED gsi
    BY <1>0, <2>1, <2>2 DEF TableInv
  <2>3. CASE ~isTableBusy /\ initiateNextChange(Desired)
    <3>1. table = "active"
      BY <2>3 DEF isTableBusy
    <3>3. Desired \in Indexes
      BY <1>0, ConfigType
    <3>2. PICK n \in Names :
                /\ \A k \in Names : k # n => gsi'[k] = gsi[k]
                /\ gsi'[n].key # None /\ gsi'[n].status # "none"
      <4> DEFINE d == Desired
      <4>1. d \in Indexes /\ initiateNextChange(d)
        BY <2>3, <3>3
      <4> HIDE DEF d
      <4>2. \E n \in Names :
                /\ \A k \in Names : k # n => gsi'[k] = gsi[k]
                /\ \/ gsi[n].key # None /\ gsi'[n] = [key |-> gsi[n].key, status |-> "DELETING"]
                   \/ d[n] # None /\ gsi'[n] = [key |-> d[n], status |-> "CREATING"]
        BY <1>0, <4>1, OneChange
      <4> QED
        BY <4>2
    <3> QED
      BY <1>0, <2>1, <3>1, <3>2 DEF TableInv
  <2> QED
    BY <1>0, <1>3, <2>2, <2>3, HandlerGsi
<1>4. CASE DropTable \/ CreateTable
  <2>1. CASE DropTable
    BY <1>0, <2>1 DEF DropTable, TableInv, NoGsi
  <2>2. CASE CreateTable
    BY <2>2 DEF CreateTable, TableInv, NoGsi
  <2> QED
    BY <1>4, <2>1, <2>2
<1>5. CASE KeepIndexes \/ RequestFails \/ ScanEnds \/ WaitActive \/ RestoreEnds
           \/ (\E i \in Items : ScanPage(i) \/ Restore(i) \/ Write(i)) \/ UNCHANGED vars
  <2>1. UNCHANGED <<table, gsi>>
    BY <1>5 DEF KeepIndexes, RequestFails, ScanEnds, WaitActive, RestoreEnds, ScanPage, Restore, Write, vars
  <2> QED
    BY <1>0, <2>1 DEF TableInv
<1> QED
  BY <1>1, <1>2, <1>3, <1>4, <1>5 DEF Next, Manager, Recreate

LEMMA UnderWayStep == ManagerInv /\ [Next]_vars => UnderWay'
<1> SUFFICES ASSUME ManagerInv, [Next]_vars PROVE UnderWay'
  OBVIOUS
<1>0. TypeOK /\ UnderWay /\ TableInv
  BY DEF ManagerInv
<1>1. CASE \E c \in Config : Deploy(c)
  BY <1>1 DEF Deploy, UnderWay, Resting
<1>2. CASE DeleteStack \/ Cleanup \/ RollBack \/ RollbackCleanup
  <2>1. CASE DeleteStack
    BY <2>1 DEF DeleteStack, UnderWay, Resting
  <2>2. CASE Cleanup \/ RollBack \/ RollbackCleanup
    <3>1. PICK status \in {"cleanup", "rollback create", "rolling back", "rollback cleanup"} : Status(status)
      BY <2>2 DEF Cleanup, RollBack, RollbackCleanup
    <3>2. stack'.status = status
      BY <1>0, <3>1, Fields DEF Status
    <3> QED
      BY <3>2 DEF UnderWay, Resting
  <2> QED
    BY <1>2, <2>1, <2>2
<1>3. CASE OperationEnds \/ Stuck
  BY <1>3 DEF OperationEnds, Stuck, UnderWay, Ended
<1>4. CASE Manager \/ RequestFails
  BY <1>0, <1>4, ManagerFacts DEF UnderWay
<1>5. CASE Dynamo \/ (\E i \in Items : Write(i)) \/ UNCHANGED vars
  <2>1. UNCHANGED <<stack, req>>
    BY <1>0, <1>5, DynamoFacts DEF Write, cfnVars, vars
  <2> QED
    BY <1>0, <2>1 DEF UnderWay, Ended
<1> QED
  BY <1>1, <1>2, <1>3, <1>4, <1>5 DEF Next, Cloudformation

LEMMA DataStep == ManagerInv /\ [Next]_vars => DataInv'
<1> SUFFICES ASSUME ManagerInv, [Next]_vars PROVE DataInv'
  OBVIOUS
<1>0. TypeOK /\ UnderWay /\ DataInv /\ TableInv
  BY DEF ManagerInv
<1>f. \A p : Phase(p) => req'.phase = p
  BY <1>0, Fields DEF Phase
<1>1. CASE Cloudformation
  BY <1>0, <1>1, CfnFacts DEF DataInv
<1>2. CASE Dynamo \/ (\E i \in Items : Write(i)) \/ UNCHANGED vars
  <2>1. UNCHANGED <<req, backup, owed>> /\ items \subseteq items'
    BY <1>0, <1>2, DynamoFacts DEF Write, vars
  <2> QED
    BY <1>0, <2>1 DEF DataInv
<1>3. CASE OnEvent
  <2>1. owed' = items /\ items' = items /\ req'.phase \in {"ok", "failed", "polling", "scan"}
    BY <1>3, <1>f DEF OnEvent, MissingTable
  <2> QED
    BY <2>1 DEF DataInv
<1>4. CASE IsComplete \/ RequestFails \/ KeepIndexes
  <2>1. req'.phase \in {"ok", "failed", "polling"}
    BY <1>4, <1>f, <1>0, Fields DEF IsComplete, RequestFails, KeepIndexes, MissingTable
  <2> QED
    BY <2>1 DEF DataInv
<1>5. ASSUME NEW i \in Items, ScanPage(i) \/ Restore(i) PROVE DataInv'
  BY <1>0, <1>5 DEF ScanPage, Restore, DataInv
<1>6. CASE ScanEnds
  BY <1>0, <1>6, <1>f DEF ScanEnds, DataInv, dataVars
<1>7. CASE DropTable
  BY <1>0, <1>7, <1>f DEF DropTable, DataInv
<1>8. CASE CreateTable
  BY <1>0, <1>8, <1>f DEF CreateTable, DataInv, dataVars
<1>9. CASE WaitActive
  BY <1>0, <1>9, <1>f DEF WaitActive, DataInv, dataVars
<1>10. CASE RestoreEnds
  BY <1>0, <1>10, <1>f DEF RestoreEnds, DataInv, dataVars
<1> QED
  BY <1>1, <1>2, <1>3, <1>4, <1>5, <1>6, <1>7, <1>8, <1>9, <1>10 DEF Next, Manager, Recreate
LEMMA WantStep == ManagerInv /\ [Next]_vars => WantInv'
<1> SUFFICES ASSUME ManagerInv, [Next]_vars PROVE WantInv'
  OBVIOUS
<1>0. TypeOK /\ UnderWay /\ WantInv /\ TableInv
  BY DEF ManagerInv
<1>s. \A status : Status(status) => stack'.status = status /\ stack'.from = stack.from /\ stack'.to = stack.to
  BY <1>0, Fields DEF Status
<1>1. ASSUME NEW c \in Config, Deploy(c) PROVE WantInv'
  <2>1. /\ stack'.status \in Updating /\ stack'.to = c
        /\ NoRequest \/ \E type \in {"Create", "Update"} : Send(type, c.indexes)
    BY <1>1 DEF Deploy, Updating
  <2>2. /\ req'.type = "none" => req'.phase = "ok"
        /\ req'.type # "none" => req'.type # "Delete" /\ req'.want = c.indexes
    BY <2>1 DEF NoRequest, Send
  <2>3. stack'.status \notin {"cleanup", "stable", "rolling back", "rollback cleanup"}
    BY <2>1 DEF Updating
  <2> QED
    BY <2>1, <2>2, <2>3 DEF WantInv
<1>2. CASE DeleteStack
  BY <1>2 DEF DeleteStack, WantInv, NoRequest, Send, Updating
<1>3. CASE Cleanup
  <2>1. /\ stack'.status = "cleanup" /\ stack'.to = stack.to /\ stack.status \in Updating
        /\ UNCHANGED req \/ (stack.to.indexes = NoIndexes /\ Send("Delete", stack.from.indexes))
    BY <1>3, <1>s DEF Cleanup, HasResource
  <2>2. CASE UNCHANGED req
    BY <1>0, <2>1, <2>2 DEF WantInv, Desired, Updating
  <2>3. CASE stack.to.indexes = NoIndexes /\ Send("Delete", stack.from.indexes)
    BY <2>1, <2>3 DEF WantInv, Desired, Updating, Send
  <2> QED
    BY <2>1, <2>2, <2>3
<1>4. CASE RollBack
  <2>1. \/ stack'.status = "rollback create"
           /\ (NoRequest \/ \E want \in Indexes : Send("Delete", want))
        \/ /\ stack'.status = "rolling back" /\ stack'.from = stack.from
           /\ NoRequest \/ Send("Update", stack.from.indexes)
    <3>1. stack.to.indexes \in Indexes
      BY <1>0, Fields, ConfigType
    <3> QED
      BY <1>4, <1>s, <3>1 DEF RollBack
  <2>5. NoRequest => req'.type = "none" /\ req'.phase = "ok"
    BY DEF NoRequest
  <2>6. \A want : Send("Delete", want) => req'.type = "Delete"
    BY DEF Send
  <2>7. Send("Update", stack.from.indexes) => req'.type = "Update" /\ req'.want = stack.from.indexes
    BY DEF Send
  <2>2. req'.type = "none" => req'.phase = "ok"
    BY <2>1, <2>5, <2>6, <2>7
  <2>3. CASE stack'.status = "rollback create"
    BY <2>2, <2>3 DEF WantInv, Updating
  <2>4. CASE stack'.status = "rolling back"
    <3>1. req'.type # "none" => req'.type = "Update" /\ req'.want = stack'.from.indexes
      BY <2>1, <2>4, <2>5, <2>7
    <3> QED
      BY <2>2, <2>4, <3>1 DEF WantInv, Updating
  <2> QED
    BY <2>1, <2>3, <2>4
<1>5. CASE RollbackCleanup
  <2>1. /\ stack'.status = "rollback cleanup" /\ stack'.from = stack.from /\ stack.status = "rolling back"
        /\ UNCHANGED req \/ (stack.from.indexes = NoIndexes /\ Send("Delete", stack.to.indexes))
    BY <1>5, <1>s DEF RollbackCleanup, HasResource
  <2>2. CASE UNCHANGED req
    BY <1>0, <2>1, <2>2 DEF WantInv, Desired, Updating
  <2>3. CASE stack.from.indexes = NoIndexes /\ Send("Delete", stack.to.indexes)
    BY <2>1, <2>3 DEF WantInv, Desired, Updating, Send
  <2> QED
    BY <2>1, <2>2, <2>3
<1>6. CASE OperationEnds
  <2>1. /\ req' = req
        /\ \/ stack'.status = "none"
           \/ stack'.status = "stable" /\ stack.status = "cleanup" /\ stack'.to = stack.to
           \/ stack'.status = "stable" /\ stack.status = "rollback cleanup" /\ stack'.to = stack.from
    BY <1>6 DEF OperationEnds, STACK_GOING_AWAY, UPDATE_CLEANUP
  <2> QED
    BY <1>0, <2>1 DEF WantInv, Desired, Updating
<1>7. CASE Stuck
  <2>1. stack'.status = "stuck" /\ req' = req
    BY <1>7, <1>s DEF Stuck
  <2> QED
    BY <1>0, <2>1 DEF WantInv, Updating
<1>8. CASE Manager \/ RequestFails
  <2>1. /\ ~Ended /\ stack' = stack /\ req'.type = req.type /\ req'.want = req.want
    BY <1>0, <1>8, ManagerFacts
  <2>2. req.type # "none"
    BY <1>0, <2>1 DEF WantInv, Ended
  <2> QED
    BY <1>0, <2>1, <2>2 DEF WantInv, Desired
<1>9. CASE Dynamo \/ (\E i \in Items : Write(i)) \/ UNCHANGED vars
  <2>1. UNCHANGED <<stack, req>>
    BY <1>0, <1>9, DynamoFacts DEF Write, cfnVars, vars
  <2> QED
    BY <1>0, <2>1 DEF WantInv, Desired
<1> QED
  BY <1>1, <1>2, <1>3, <1>4, <1>5, <1>6, <1>7, <1>8, <1>9 DEF Next, Cloudformation

LEMMA ServedStep == ManagerInv /\ [Next]_vars => ServedInv'
<1> SUFFICES ASSUME ManagerInv, [Next]_vars PROVE ServedInv'
  OBVIOUS
<1>0. TypeOK /\ UnderWay /\ ServedInv /\ WantInv /\ TableInv
  BY DEF ManagerInv
<1>f. \A p : Phase(p) => req'.phase = p /\ req'.keep = req.keep
  BY <1>0, Fields DEF Phase
<1>1. CASE Cloudformation
  <2>1. CASE UNCHANGED req /\ ~OperationEnds
    <3>1. UNCHANGED gsi
      BY <1>1, <2>1 DEF Cloudformation, Deploy, DeleteStack, Cleanup, RollBack, RollbackCleanup, Stuck
    <3>2. CASE stack.status \in Resting /\ ~stack.to.table
      <4>1. (\E c \in Config : Deploy(c)) \/ DeleteStack
        BY <1>1, <2>1, <3>2 DEF Cloudformation, Cleanup, RollBack, RollbackCleanup, Stuck, Resting,
               Updating, STACK_GOING_AWAY
      <4>2. req'.type # "none" => req'.phase = "sent"
        BY <4>1 DEF Deploy, DeleteStack, Send, NoRequest
      <4> QED
        BY <4>2 DEF ServedInv
    <3> QED
      BY <1>0, <2>1, <3>1, <3>2 DEF ServedInv, Current, Desired
  <2>2. CASE OperationEnds
    <3>1. /\ req' = req /\ stack'.status \in Resting /\ stack.status \notin Resting
          /\ stack'.to.table => UNCHANGED gsi
      BY <2>2 DEF OperationEnds, Resting, STACK_GOING_AWAY, UPDATE_CLEANUP
    <3> QED
      BY <1>0, <3>1 DEF ServedInv, Current, Desired
  <2>3. CASE req' # req
    BY <1>0, <1>1, <2>3, CfnFacts DEF ServedInv
  <2> QED
    BY <2>1, <2>2, <2>3
<1>2. CASE Dynamo
  <2>1. /\ UNCHANGED <<stack, req>>
        /\ \A n \in Names : gsi[n].status # "DELETING" =>
              gsi'[n].key = gsi[n].key /\ gsi'[n].status # "DELETING"
    <3>1. UNCHANGED <<stack, req>>
      BY <1>0, <1>2, DynamoFacts
    <3>2. ASSUME NEW n \in Names, gsi[n].status # "DELETING"
          PROVE  \/ gsi'[n] = gsi[n]
                 \/ gsi'[n] = [key |-> gsi[n].key, status |-> "ACTIVE"]
      BY <1>0, <1>2, <3>2, DynamoFacts
    <3>3. ASSUME NEW n \in Names, gsi[n].status # "DELETING"
          PROVE  gsi'[n].key = gsi[n].key /\ gsi'[n].status # "DELETING"
      <4>1. CASE gsi'[n] = gsi[n]
        BY <3>3, <4>1
      <4>2. CASE gsi'[n] = [key |-> gsi[n].key, status |-> "ACTIVE"]
        BY <4>2
      <4> QED
        BY <3>2, <3>3, <4>1, <4>2
    <3> QED
      BY <3>1, <3>3
  <2> QED
    BY <1>0, <2>1 DEF ServedInv, Current, Desired
<1>3. CASE (\E i \in Items : Write(i)) \/ UNCHANGED vars
  <2>1. UNCHANGED <<stack, req, gsi>>
    BY <1>3 DEF Write, cfnVars, vars
  <2> QED
    BY <1>0, <2>1 DEF ServedInv, Current, Desired
<1>4. CASE Manager \/ RequestFails
  <2>1. CASE req'.phase # "ok" \/ req'.keep
    BY <2>1 DEF ServedInv
  <2>2. CASE req'.phase = "ok" /\ ~req'.keep
    <3>1. /\ UNCHANGED gsi /\ ~req.keep
          /\ \/ table = "none" /\ req.type = "Delete"
             \/ ~isTableBusy /\ gsiMatchesDesired(Desired)
      <4>2. req.phase # "ok"
        BY <1>0, <1>4, ManagerFacts DEF Ended
      <4>3. KeepIndexes => req'.phase \in {"polling", "failed"}
        BY <1>0, <1>f, Fields DEF KeepIndexes
      <4>4. RequestFails => req'.phase = "failed"
        BY <1>f DEF RequestFails
      <4>5. Recreate => req'.phase # "ok"
        BY <1>f, <4>2 DEF Recreate, ScanEnds, DropTable, CreateTable, WaitActive, RestoreEnds,
                           ScanPage, Restore
      <4>1. OnEvent \/ IsComplete
        BY <1>4, <2>2, <4>3, <4>4, <4>5 DEF Manager
      <4> QED
        BY <1>f, <2>2, <4>1 DEF OnEvent, IsComplete, MissingTable
    <3>2. \A n \in Names : Current[n] = Desired[n] /\ gsi[n].status # "DELETING"
      <4>1. CASE table = "none" /\ req.type = "Delete"
        BY <1>0, <4>1 DEF TableInv, NoGsi, Current, Desired, NoIndexes
      <4>2. CASE ~isTableBusy /\ gsiMatchesDesired(Desired)
        BY <4>2 DEF isTableBusy, gsiMatchesDesired
      <4> QED
        BY <3>1, <4>1, <4>2
    <3>3. req'.type = req.type /\ req'.want = req.want
      BY <1>0, <1>4, ManagerFacts
    <3> QED
      BY <3>1, <3>2, <3>3 DEF ServedInv, Current, Desired
  <2> QED
    BY <2>1, <2>2
<1> QED
  BY <1>1, <1>2, <1>3, <1>4 DEF Next
\* A Delete of a table's own removal is told to keep the indexes.
LEMMA OrphanVerdict ==
    ASSUME ~stack.to.table, stack.status \in {"cleanup", "deleting"}
    PROVE  "drop" \notin deleteKeepsIndexes
BY DEF deleteKeepsIndexes, STACK_GOING_AWAY, UPDATE_CLEANUP

LEMMA OrphanStep == ManagerInv /\ [Next]_vars => OrphanInv'
<1> SUFFICES ASSUME ManagerInv, [Next]_vars PROVE OrphanInv'
  OBVIOUS
<1>0. TypeOK /\ UnderWay /\ OrphanInv /\ WantInv /\ TableInv
  BY DEF ManagerInv
<1>s. \A status : Status(status) => stack'.status = status /\ stack'.from = stack.from /\ stack'.to = stack.to
  BY <1>0, Fields DEF Status
<1>k. \A n \in Names : Kept[n] # None => Current[n] = Kept[n] /\ gsi[n].status # "DELETING"
  BY DEF Kept, Current
<1>n. (\A n \in Names : gsi[n] = NoGsi) => Kept = NoIndexes
  BY DEF Kept, NoGsi, NoIndexes
<1>c. /\ ~stack.to.table => ~HasResource(stack.to)
      /\ \A c \in Config : ~c.table => ~HasResource(c)
  BY <1>0, Fields, ConfigType DEF HasResource
<1>1. CASE (\E c \in Config : Deploy(c)) \/ DeleteStack
  <2>1. /\ stack.status \in Resting /\ stack'.status \notin Resting /\ stack'.from = stack.to
        /\ before' = Kept /\ UNCHANGED gsi
    BY <1>1 DEF Deploy, DeleteStack, Resting
  <2>2. stack'.status \notin Resting /\ ~stack'.from.table => before' = NoIndexes
    BY <1>0, <1>n, <2>1 DEF OrphanInv
  <2>3. ASSUME ~stack'.to.table
        PROVE  \/ req'.type = "none"
               \/ req'.type = "Delete" /\ req'.phase = "sent" /\ stack'.status = "deleting"
    <3>1. CASE \E c \in Config : Deploy(c)
      BY <1>c, <2>3, <3>1 DEF Deploy, NoRequest
    <3>2. CASE DeleteStack
      BY <3>2 DEF DeleteStack, NoRequest, Send
    <3> QED
      BY <1>1, <3>1, <3>2
  <2>4. \A n \in Names : before'[n] # None => Current'[n] = before'[n] /\ gsi'[n].status # "DELETING"
    BY <1>k, <2>1 DEF Current
  <2> QED
    BY <2>1, <2>2, <2>3, <2>4 DEF OrphanInv
<1>2. CASE Cleanup \/ RollBack \/ RollbackCleanup \/ Stuck
  <2>1. /\ stack.status \notin Resting /\ stack'.status \notin Resting
        /\ stack'.from = stack.from /\ stack'.to = stack.to /\ UNCHANGED <<before, gsi>>
    <3>1. \E status \in {"cleanup", "rollback create", "rolling back", "rollback cleanup", "stuck"} :
              Status(status)
      BY <1>2 DEF Cleanup, RollBack, RollbackCleanup, Stuck
    <3>2. stack.status \notin Resting /\ UNCHANGED <<before, gsi>>
      BY <1>2 DEF Cleanup, RollBack, RollbackCleanup, Stuck, Resting, Updating, STACK_GOING_AWAY
    <3> QED
      BY <1>s, <3>1, <3>2 DEF Resting
  <2>2. ASSUME ~stack.to.table
        PROVE  \/ req'.type = "none"
               \/ UNCHANGED req /\ Ended /\ req.type = "Delete"
               \/ req'.type = "Delete" /\ req'.phase = "sent" /\ stack'.status = "cleanup"
    <3>1. req.type \in {"none", "Delete"} /\ (stack.status \in Updating => req.type = "none")
      BY <1>0, <2>1, <2>2 DEF OrphanInv, WantInv
    <3>2. CASE Cleanup
      BY <1>s, <3>1, <3>2 DEF Cleanup, Send
    <3>3. CASE RollBack
      <4>1. req.type # "Update" /\ ~HasResource(stack.to)
        BY <1>c, <2>2, <3>1
      <4>2. NoRequest
        BY <3>3, <4>1 DEF RollBack
      <4> QED
        BY <4>2 DEF NoRequest
    <3>4. CASE RollbackCleanup \/ Stuck
      BY <1>c, <2>2, <3>1, <3>4 DEF RollbackCleanup, Stuck, Ended
    <3> QED
      BY <1>2, <3>2, <3>3, <3>4
  <2> QED
    BY <1>0, <2>1, <2>2 DEF OrphanInv, Current, Ended
<1>3. CASE OperationEnds
  <2>1. /\ stack'.status \in Resting
        /\ ~stack'.to.table => gsi' = [n \in Names |-> NoGsi]
    BY <1>3 DEF OperationEnds, Resting
  <2> QED
    BY <2>1 DEF OrphanInv
<1>4. CASE Dynamo
  <2>1. UNCHANGED <<stack, req, before>>
    BY <1>0, <1>4, DynamoFacts
  <2>2. ASSUME NEW n \in Names
        PROVE  /\ gsi[n] = NoGsi => gsi'[n] = NoGsi
               /\ gsi[n].status # "DELETING" => gsi'[n].key = gsi[n].key /\ gsi'[n].status # "DELETING"
    <3>1. \/ gsi'[n] = gsi[n]
          \/ gsi[n].status = "CREATING" /\ gsi'[n] = [key |-> gsi[n].key, status |-> "ACTIVE"]
          \/ gsi[n].status = "DELETING" /\ gsi'[n] = NoGsi
      BY <1>0, <1>4, DynamoFacts
    <3>2. CASE gsi[n].status = "CREATING" /\ gsi'[n] = [key |-> gsi[n].key, status |-> "ACTIVE"]
      BY <3>2 DEF NoGsi
    <3> QED
      BY <3>1, <3>2
  <2> QED
    BY <1>0, <2>1, <2>2 DEF OrphanInv, Current, Ended
<1>5. CASE Manager \/ RequestFails
  <2>1. /\ ~Ended /\ UNCHANGED <<stack, before>> /\ req'.type = req.type
        /\ stack.status \notin Resting
    BY <1>0, <1>5, ManagerFacts DEF UnderWay
  <2>2. CASE stack.to.table
    BY <1>0, <2>1, <2>2 DEF OrphanInv
  <2>3. CASE ~stack.to.table
    <3>1. /\ req.type = "Delete" /\ req.phase \in {"sent", "polling"}
          /\ req.phase = "polling" => req.keep
          /\ stack.status \in {"cleanup", "deleting"}
      BY <1>0, <2>1, <2>3 DEF OrphanInv, WantInv, Ended
    <3>2. ~OnEvent
      BY <2>3, <3>1, OrphanVerdict DEF OnEvent
    <3>3. ~Recreate
      BY <3>1 DEF Recreate, ScanEnds, DropTable, CreateTable, WaitActive, RestoreEnds, ScanPage, Restore
    <3>4. CASE KeepIndexes
      <4>1. UNCHANGED gsi /\ (Phase("failed") \/ req' = [req EXCEPT !.keep = TRUE, !.phase = "polling"])
        BY <3>4 DEF KeepIndexes
      <4>2. req'.phase = "failed" \/ (req'.phase = "polling" /\ req'.keep)
        BY <1>0, <4>1, Fields DEF Phase
      <4> QED
        BY <1>0, <2>1, <3>1, <4>1, <4>2 DEF OrphanInv, Current, Ended
    <3>5. CASE IsComplete \/ RequestFails
      <4>1. UNCHANGED gsi /\ (Phase("ok") \/ Phase("failed"))
        BY <3>1, <3>5 DEF IsComplete, RequestFails
      <4>2. req'.phase \in {"ok", "failed"}
        BY <1>0, <4>1, Fields DEF Phase
      <4> QED
        BY <1>0, <2>1, <3>1, <4>1, <4>2 DEF OrphanInv, Current, Ended
    <3> QED
      BY <1>5, <3>2, <3>3, <3>4, <3>5 DEF Manager
  <2> QED
    BY <2>2, <2>3
<1>6. CASE (\E i \in Items : Write(i)) \/ UNCHANGED vars
  <2>1. UNCHANGED <<stack, req, before, gsi>>
    BY <1>6 DEF Write, cfnVars, vars
  <2> QED
    BY <1>0, <2>1 DEF OrphanInv, Current, Ended
<1> QED
  BY <1>1, <1>2, <1>3, <1>4, <1>5, <1>6 DEF Next, Cloudformation

LEMMA InitInv == Init => ManagerInv
<1> SUFFICES ASSUME Init PROVE ManagerInv
  OBVIOUS
<1>1. TypeOK
  <2>1. stack \in Stack
    BY ConfigType DEF Init, Stack
  <2>2. gsi \in [Names -> Gsi]
    BY DEF Init, Gsi, NoGsi
  <2>3. req \in Request
    BY ConfigType DEF Init, Request
  <2> QED
    BY <2>1, <2>2, <2>3, ConfigType, GsiAssumption DEF Init, TypeOK
<1>2. TableInv
  BY DEF Init, TableInv, NoGsi
<1>3. UnderWay /\ DataInv /\ WantInv /\ ServedInv
  BY DEF Init, UnderWay, DataInv, WantInv, ServedInv, Ended, Updating
<1>4. OrphanInv
  BY DEF Init, OrphanInv, Resting
<1> QED
  BY <1>1, <1>2, <1>3, <1>4 DEF ManagerInv

LEMMA StepInv == ManagerInv /\ [Next]_vars => ManagerInv'
BY TypeStep, TableStep, UnderWayStep, DataStep, WantStep, ServedStep, OrphanStep DEF ManagerInv

-------------------------------------------------------------------------------
\* The invariant that all promises of the custom resource follow from.
THEOREM ManagerInvariant == Spec => []ManagerInv
BY InitInv, StepInv, PTL DEF Spec

\* A stack at rest is served by the indexes it asks for, whatever earlier requests, rollbacks
\* and deletions had left half done (gsi-manager-lambda.ts isComplete).
THEOREM RestIsServed == Spec => []RestMeansServed
<1>1. ManagerInv => RestMeansServed
  <2> SUFFICES ASSUME ManagerInv, stack.status = "stable", stack.to.table,
                      req.type # "none", req.phase = "ok", ~req.keep
               PROVE  Current = stack.to.indexes
    BY DEF RestMeansServed
  <2>1. Desired = stack.to.indexes
    BY DEF ManagerInv, WantInv
  <2>2. \A n \in Names : Current[n] = Desired[n]
    BY DEF ManagerInv, ServedInv
  <2>3. Current = [n \in Names |-> Current[n]] /\ Desired = [n \in Names |-> Desired[n]]
    BY ConfigType DEF Current, Indexes, ManagerInv
  <2> QED
    BY <2>1, <2>2, <2>3
<1> QED
  BY <1>1, ManagerInvariant, PTL

\* A table that leaves the stack keeps every index that served, or was to serve, when the
\* operation began (gsi-manager-lambda.ts deleteKeepsIndexes).
THEOREM OrphansKeepTheirs == Spec => OrphanKeepsIndexes
<1>1. ASSUME ManagerInv, [Next]_vars, stack.status \in UPDATE_CLEANUP \cup STACK_GOING_AWAY,
             stack'.status \in {"none", "stable"}, ~stack'.to.table,
             NEW n \in Names, before[n] # None
      PROVE  Current[n] = before[n]
  <2>0. TypeOK /\ UnderWay /\ OrphanInv /\ TableInv
    BY <1>1 DEF ManagerInv
  <2>1. stack.status \notin Resting /\ stack' # stack
    BY <1>1 DEF UPDATE_CLEANUP, STACK_GOING_AWAY, Resting
  <2>2. OperationEnds
    <3>1. Cloudformation
      BY <1>1, <2>0, <2>1, ManagerFacts, DynamoFacts DEF Next, Write, cfnVars, vars
    <3>2. \A status : Status(status) => stack'.status = status
      BY <2>0, Fields DEF Status
    <3> QED
      BY <1>1, <2>1, <3>1, <3>2
         DEF Cloudformation, Deploy, DeleteStack, Cleanup, RollBack, RollbackCleanup, Stuck, Resting
  <2>3. stack'.to = stack.from \/ stack'.to = stack.to
    BY <2>2 DEF OperationEnds
  <2>4. CASE stack'.to = stack.from
    BY <1>1, <2>0, <2>1, <2>4 DEF OrphanInv, NoIndexes
  <2>5. CASE stack'.to = stack.to
    BY <1>1, <2>0, <2>1, <2>5 DEF OrphanInv
  <2> QED
    BY <2>3, <2>4, <2>5
<1>2. ManagerInv /\ [Next]_vars =>
        [/\ stack.status \in UPDATE_CLEANUP \cup STACK_GOING_AWAY
         /\ stack'.status \in {"none", "stable"} /\ ~stack'.to.table
         => \A n \in Names : before[n] # None /\ table # "none" => Current[n] = before[n]]_vars
  BY <1>1
<1> QED
  BY <1>2, ManagerInvariant, PTL DEF Spec, OrphanKeepsIndexes

\* No access path goes before its replacement serves (gsi-manager-lambda.ts
\* initiateNextChange).
THEOREM OldServeUntilNew == Spec => OldServesUntilNew
<1>1. ASSUME ManagerInv, [Next]_vars, NEW n \in Names, gsi[n].status = "ACTIVE",
             gsi'[n].status = "DELETING", Desired[n] = None, NEW w \in Names, Desired[w] # None
      PROVE  gsi[w] = [key |-> Desired[w], status |-> "ACTIVE"]
  <2>0. TypeOK /\ TableInv
    BY <1>1 DEF ManagerInv
  <2>1. gsi' # gsi /\ gsi'[n] # NoGsi
    BY <1>1 DEF NoGsi
  <2>2. OnEvent \/ IsComplete
    <3>1. ~Cloudformation
      BY <2>1, CfnTable
    <3>2. ~Dynamo
      <4>1. ASSUME gsi'[n] = [key |-> gsi[n].key, status |-> "ACTIVE"] PROVE FALSE
        BY <1>1, <4>1
      <4> QED
        BY <1>1, <2>0, <2>1, <4>1, DynamoFacts
    <3>3. ~DropTable /\ ~CreateTable
      BY <1>1, <2>1 DEF DropTable, CreateTable
    <3> QED
      BY <1>1, <2>1, <3>1, <3>2, <3>3
         DEF Next, Manager, Recreate, KeepIndexes, RequestFails, ScanEnds, WaitActive, RestoreEnds,
             ScanPage, Restore, Write, vars
  <2>3. ~isTableBusy /\ initiateNextChange(Desired) /\ Desired \in Indexes
    BY <2>0, <2>1, <2>2, HandlerGsi, ConfigType
  <2> DEFINE d == Desired
  <2>4. d \in Indexes /\ initiateNextChange(d) /\ d[n] = None /\ d[w] # None
    BY <1>1, <2>3
  <2> HIDE DEF d
  <2>5. gsi[w].key = d[w]
    <3>1. PICK k \in Names :
                /\ \A j \in Names : j # k => gsi'[j] = gsi[j]
                /\ \/ d[k] = None => \A j \in Names : d[j] # None => gsi[j].key = d[j]
                   \/ gsi'[k] = [key |-> d[k], status |-> "CREATING"]
      BY <2>0, <2>4, OneChange
    <3>2. k = n
      BY <1>1, <3>1
    <3> QED
      BY <1>1, <2>4, <3>1, <3>2
  <2>6. gsi[w].status = "ACTIVE"
    BY <2>0, <2>3, <2>4, <2>5 DEF isTableBusy, TableInv
  <2> QED
    BY <2>0, <2>5, <2>6, Fields DEF d
<1>2. ManagerInv /\ [Next]_vars =>
        [\A n \in Names :
            gsi[n].status = "ACTIVE" /\ gsi'[n].status = "DELETING" /\ Desired[n] = None =>
                \A w \in Names : Desired[w] # None =>
                    gsi[w] = [key |-> Desired[w], status |-> "ACTIVE"]]_vars
  BY <1>1
<1> QED
  BY <1>2, ManagerInvariant, PTL DEF Spec, OldServesUntilNew

\* The recreated table holds every item there was when the scan began, but for those a batch
\* write left unprocessed (gsi-manager-lambda.ts recreateTableWithIndexes).
THEOREM NoItemLost == Spec => NothingLost
<1>1. ASSUME ManagerInv, [Next]_vars, req.phase = "restore", req'.phase = "polling"
      PROVE  owed \subseteq items
  <2>0. TypeOK /\ UnderWay /\ DataInv /\ TableInv
    BY <1>1 DEF ManagerInv
  <2>1. req' # req
    BY <1>1
  <2>2. RestoreEnds
    <3>1. ~Cloudformation
      BY <1>1, <2>0, CfnFacts
    <3>2. ~Dynamo
      BY <2>0, <2>1, DynamoFacts
    <3>3. ~RequestFails
      BY <1>1, <2>0, Fields DEF RequestFails, Phase
    <3> QED
      BY <1>1, <2>1, <3>1, <3>2, <3>3
         DEF Next, Manager, Recreate, KeepIndexes, OnEvent, IsComplete, ScanEnds, DropTable, CreateTable,
             WaitActive, ScanPage, Restore, Write, vars
  <2> QED
    BY <1>1, <2>0, <2>2 DEF RestoreEnds, DataInv
<1>2. ManagerInv /\ [Next]_vars => [req.phase = "restore" /\ req'.phase = "polling" => owed \subseteq items]_vars
  BY <1>1
<1> QED
  BY <1>2, ManagerInvariant, PTL DEF Spec, NothingLost
================================================================================
