------------------------- MODULE MigrationRunnerProofs -------------------------
(***************************************************************************)
(* Proofs about MigrationRunner, for every plan, number of texts and       *)
(* number of setbacks.  The invariant MigrationInv has three parts: what   *)
(* the tables and the catalog say of each other between steps (DbInv),     *)
(* how far the run is ahead of its progress row (RunInv), and types.       *)
(***************************************************************************)
EXTENDS MigrationRunner, TLAPS

\* The position a run would start the file at.
Recorded(f) ==
    IF progress[f] = NoRow THEN Start1
    ELSE [stmt |-> progress[f].stmt, waiting |-> progress[f].waiting, job |-> progress[f].job]

\* A wait for job j tells truly what became of statement s.
Linked(s, j) ==
    IF j = 0 THEN catalog[s] = "valid"
    ELSE /\ j \in DOMAIN jobs /\ jobs[j].of = s
         /\ jobs[j].status = "completed" => catalog[s] = "valid"
         /\ KindOf(s) = "index" =>
               \A i \in DOMAIN jobs : jobs[i].of = s /\ jobs[i].status = "running" => i = j

\* A statement that started a job, when it is recorded that it did.
Started(s, j) == KindOf(s) \in Async /\ effects[s] > 0 /\ Linked(s, j)

\* Files are applied in order, each as a whole, and opened in order.
FilesInOrder ==
    /\ \A f \in applied, g \in Files : g < f => g \in applied
    /\ \A s \in Statements : s[1] \in applied => Done(s)
    /\ \A s \in Statements, g \in Files : effects[s] > 0 /\ g < s[1] => g \in applied

\* What a row says of its file: behind it all is done, in front of it nothing has
\* run, and what it points at has run only if it is not a change of rows.
RowTells(f) ==
    /\ Recorded(f).stmt <= Len(plan[f]) + 1
    /\ Recorded(f).waiting =>
          Recorded(f).stmt <= Len(plan[f]) /\ Started(<<f, Recorded(f).stmt>>, Recorded(f).job)
    /\ \A k \in DOMAIN plan[f] :
          /\ k < Recorded(f).stmt => Done(<<f, k>>)
          /\ k > Recorded(f).stmt => effects[<<f, k>>] = 0
          /\ k = Recorded(f).stmt /\ KindOf(<<f, k>>) = "dml" => effects[<<f, k>>] = 0
          /\ progress[f] # NoRow /\ k > 1 /\ effects[<<f, k>>] > 0 =>
                origin[<<f, k>>] = progress[f].text

\* So does the row of every file that is not applied.
RowsTell == \A f \in Files : f \notin applied => RowTells(f)

\* A job is of a statement that ran; the index of a running one is invalid, and no
\* other job builds it.
JobsTell ==
    /\ \A j \in DOMAIN jobs : effects[jobs[j].of] > 0
    /\ \A j \in DOMAIN jobs : jobs[j].status = "running" /\ KindOf(jobs[j].of) = "index" =>
          /\ catalog[jobs[j].of] = "invalid"
          /\ \A i \in DOMAIN jobs :
                jobs[i].status = "running" /\ jobs[i].of = jobs[j].of => i = j

\* What is valid was built; an index that was not sent does not exist.
CatalogTells ==
    \A s \in Statements :
        /\ effects[s] = 0 => catalog[s] # "valid"
        /\ KindOf(s) = "index" /\ effects[s] = 0 => catalog[s] = "missing"
        /\ KindOf(s) = "validate" => catalog[s] # "missing"

\* The tables tell the truth, and rows are changed once, from one text.
DbInv ==
    /\ FilesInOrder /\ RowsTell /\ JobsTell /\ CatalogTells
    /\ DmlOnce /\ OneText

\* The run is at the position its file's row records.
AtRecord == at = Recorded(file) /\ batch = {}

\* A run is inside a file.
Active == pc \notin {"idle", "next"}

\* It works on the first file that is not applied, from the text that was partly run.
OnFile ==
    /\ file \in Files /\ file \notin applied
    /\ \A g \in Files : g < file => g \in applied
    /\ progress[file] # NoRow => progress[file].text = text[file]

\* The statements of the open transaction are those from the record to `last`.
BatchTo(last) ==
    /\ ~Recorded(file).waiting /\ ~at.waiting /\ ~resumed
    /\ \A s \in Statements : s \in batch <=> s[1] = file /\ Recorded(file).stmt <= s[2] /\ s[2] <= last
    /\ \A s \in batch : KindOf(s) = "dml"
    /\ Recorded(file).stmt <= last

\* In front of a change of rows, in the transaction of those before it.
InBatch ==
    /\ at.stmt <= Len(plan[file]) /\ KindOf(This) = "dml"
    /\ BatchTo(at.stmt - 1)

\* Behind the last change of rows of the transaction.
BatchDone ==
    /\ at.stmt <= Len(plan[file]) /\ KindOf(This) = "dml"
    /\ BatchTo(at.stmt)

\* A statement that is not resumed at has not run, unless it is the first.
FreshOrFirst ==
    ~resumed /\ ~at.waiting /\ at.stmt > 1 /\ at.stmt <= Len(plan[file]) => effects[This] = 0

\* The run is at a statement that starts a job.
AtAsync == AtRecord /\ ~at.waiting /\ at.stmt <= Len(plan[file]) /\ KindOf(This) \in Async

\* No job builds what this statement builds.
Unbuilt == \A j \in DOMAIN jobs : jobs[j].of = This => jobs[j].status # "running"

\* The statement may be sent: nothing builds what it builds.  The first of a file is
\* sent without a look.
Sendable == at.stmt > 1 /\ HasTarget(This) => Unbuilt /\ Accepts(This)

\* The run waits for a job that ended in one of these ways.
AtEndedJob(ends) ==
    /\ AtRecord /\ at.waiting /\ at.job # 0
    /\ jobs[at.job].status \in ends

\* One step ahead of the record: a statement done, or a job started.
OneAhead ==
    /\ batch = {} /\ ~resumed /\ Recorded(file).stmt <= Len(plan[file])
    /\ \/ /\ at = [stmt |-> Recorded(file).stmt + 1, waiting |-> FALSE, job |-> 0]
          /\ Done(<<file, Recorded(file).stmt>>)
       \/ /\ at.stmt = Recorded(file).stmt /\ at.waiting /\ ~Recorded(file).waiting
          /\ Started(This, at.job)

\* How far each step of runMigrationPlan is from the record.
RunInv ==
    /\ Active => OnFile
    /\ pc = "step" => (AtRecord /\ FreshOrFirst) \/ InBatch
    /\ pc = "committing" => BatchDone
    /\ pc \in {"catalog", "jobs"} => AtAsync /\ HasTarget(This)
    /\ pc = "dropping" => AtAsync /\ KindOf(This) = "index" /\ Unbuilt
    /\ pc = "issuing" => AtAsync /\ Sendable
    /\ pc = "verifying" => AtEndedJob({"purged"}) /\ HasTarget(This)
    /\ pc \in {"removing", "rewinding"} => AtEndedJob({"failed", "purged"})
    /\ pc = "saving" => OneAhead

\* The inductive invariant.
MigrationInv == TypeOK /\ DbInv /\ RunInv

-------------------------------------------------------------------------------
\* The shape of a plan.
LEMMA Layout ==
    ASSUME plan \in Plans
    PROVE  /\ Files = 1..Len(plan) /\ Len(plan) \in Nat
           /\ \A f \in Files : DOMAIN plan[f] = 1..Len(plan[f]) /\ Len(plan[f]) \in Nat
           /\ \A f \in Files : \A k \in DOMAIN plan[f] :
                 <<f, k>> \in Statements /\ KindOf(<<f, k>>) \in Kind
           /\ \A s \in Statements :
                 /\ s[1] \in Files /\ s[2] \in DOMAIN plan[s[1]] /\ s = <<s[1], s[2]>>
                 /\ KindOf(s) \in Kind
<1>1. plan \in Seq(Seq(Kind))
  BY PlansAssumption
<1>2. Files = 1..Len(plan) /\ Len(plan) \in Nat
  BY <1>1 DEF Files
<1>3. \A f \in Files : plan[f] \in Seq(Kind)
  BY <1>1, <1>2
<1>4. \A f \in Files : DOMAIN plan[f] = 1..Len(plan[f]) /\ Len(plan[f]) \in Nat
  BY <1>3
<1>5. \A f \in Files : \A k \in DOMAIN plan[f] : plan[f][k] \in Kind
  BY <1>3, <1>4
<1>6. \A f \in Files : \A k \in DOMAIN plan[f] :
         <<f, k>> \in Statements /\ KindOf(<<f, k>>) \in Kind
  BY <1>5 DEF Statements, KindOf
<1>7. \A s \in Statements :
         s[1] \in Files /\ s[2] \in DOMAIN plan[s[1]] /\ s = <<s[1], s[2]>>
  BY DEF Statements
<1>8. \A s \in Statements : KindOf(s) \in Kind
  BY <1>6, <1>7
<1>9. QED
  BY <1>2, <1>4, <1>6, <1>7, <1>8

\* What the tables tell depends on nothing else.
LEMMA DbKept ==
    ASSUME DbInv, UNCHANGED <<plan, applied, progress, catalog, jobs, effects, origin>>
    PROVE  DbInv'
BY DEF DbInv, FilesInOrder, RowsTell, RowTells, Recorded, Start1, Started, Linked, Done,
       JobsTell, CatalogTells, DmlOnce, OneText, KindOf, Files, Statements

\* Nor do the types of the tables.
LEMMA TypesKept ==
    ASSUME TypeOK, UNCHANGED <<plan, text, applied, progress, catalog, jobs, effects, origin>>,
           pc' \in Place, file' \in Nat \ {0}, at' \in Position, resumed' \in BOOLEAN,
           batch' \subseteq Statements, setbacks' \in 0..MAX_SETBACKS
    PROVE  TypeOK'
<1>1. Statements' = Statements /\ Files' = Files
  BY DEF Statements, Files
<1>2. QED
  BY <1>1 DEF TypeOK

\* The run moves on within its position.
LEMMA GotoTypes ==
    ASSUME TypeOK, UNCHANGED <<plan, text, applied, progress, catalog, jobs, effects, origin>>,
           NEW place \in Place, Goto(place), setbacks' \in 0..MAX_SETBACKS
    PROVE  TypeOK'
<1>1. /\ pc' \in Place /\ file' \in Nat \ {0} /\ at' \in Position /\ resumed' \in BOOLEAN
      /\ batch' \subseteq Statements
  BY DEF Goto, TypeOK
<1>2. QED
  BY <1>1, TypesKept

\* The run has done a step.
LEMMA SaveAsTypes ==
    ASSUME TypeOK, UNCHANGED <<plan, text, applied, progress, catalog, jobs, effects, origin>>,
           NEW p \in Position, SaveAs(p), setbacks' = setbacks
    PROVE  TypeOK'
<1>1. /\ pc' \in Place /\ file' \in Nat \ {0} /\ at' \in Position /\ resumed' \in BOOLEAN
      /\ batch' \subseteq Statements
  BY DEF SaveAs, TypeOK, Place
<1>2. setbacks' \in 0..MAX_SETBACKS
  BY DEF TypeOK
<1>3. QED
  BY <1>1, <1>2, TypesKept

\* The positions a step leads to.
LEMMA PositionTypes ==
    ASSUME TypeOK
    PROVE  /\ NextStatement \in Position
           /\ \A j \in Nat : WaitFor(j) \in Position
           /\ \A f \in Files : Recorded(f) \in Position
<1>1. at.stmt \in Nat \ {0} /\ at.waiting \in BOOLEAN /\ at.job \in Nat
  BY DEF TypeOK, Position
<1>2. at.stmt + 1 \in Nat \ {0}
  BY <1>1
<1>3. NextStatement \in Position
  BY <1>2 DEF NextStatement, Position
<1>4. \A j \in Nat : WaitFor(j) \in Position
  BY <1>1 DEF WaitFor, Position
<1>5. ASSUME NEW f \in Files PROVE Recorded(f) \in Position
  <2>1. CASE progress[f] = NoRow
    BY <2>1 DEF Recorded, Start1, Position
  <2>2. CASE progress[f] # NoRow
    <3>1. progress[f] \in Row
      BY <2>2 DEF TypeOK
    <3>2. QED
      BY <2>2, <3>1 DEF Recorded, Position, Row
  <2>3. QED
    BY <2>1, <2>2
<1>6. QED
  BY <1>3, <1>4, <1>5

\* A statement of the file the run is on.
LEMMA ThisStatement ==
    ASSUME TypeOK, OnFile, at.stmt <= Len(plan[file])
    PROVE  This \in Statements /\ at.stmt \in DOMAIN plan[file] /\ KindOf(This) \in Kind
<1>1. at.stmt \in Nat \ {0} /\ plan \in Plans
  BY DEF TypeOK, Position
<1>2. file \in Files /\ DOMAIN plan[file] = 1..Len(plan[file]) /\ Len(plan[file]) \in Nat
  BY <1>1, Layout DEF OnFile
<1>3. at.stmt \in DOMAIN plan[file]
  BY <1>1, <1>2
<1>4. QED
  BY <1>1, <1>2, <1>3, Layout DEF This

\* The run stays on its file while tables and files stay as they are.
LEMMA OnFileKept ==
    ASSUME OnFile, UNCHANGED <<plan, text, applied, progress, file>>
    PROVE  OnFile'
BY DEF OnFile, Files

\* At first nothing is recorded and nothing has run.
LEMMA MigrationInit == Init => MigrationInv
<1> SUFFICES ASSUME Init PROVE MigrationInv
  OBVIOUS
<1>0. plan \in Plans
  BY DEF Init
<1>l. /\ \A f \in Files : DOMAIN plan[f] = 1..Len(plan[f]) /\ Len(plan[f]) \in Nat
      /\ \A f \in Files : \A k \in DOMAIN plan[f] : <<f, k>> \in Statements
      /\ \A s \in Statements : s[1] \in Files
  BY <1>0, Layout
<1>1. TypeOK
  <2>1. text \in [Files -> 1..MAX_TEXT] /\ setbacks \in 0..MAX_SETBACKS
    BY BoundsAssumption DEF Init
  <2>2. progress \in [Files -> Row \cup {NoRow}] /\ applied \subseteq Files
    BY DEF Init
  <2>3. catalog \in [Statements -> {"missing", "invalid", "valid"}]
    BY DEF Init
  <2>4. effects \in [Statements -> Nat] /\ origin \in [Statements -> 0..MAX_TEXT]
    BY BoundsAssumption DEF Init
  <2>5. jobs \in Seq([of : Statements, status : JobStatus])
    BY DEF Init
  <2>6. pc \in Place
    BY DEF Init, Place
  <2>9. file \in Nat \ {0} /\ batch \subseteq Statements
    BY DEF Init
  <2>10. resumed \in BOOLEAN
    BY DEF Init
  <2>8. at \in Position
    BY DEF Init, Position, Start1
  <2>7. QED
    BY <1>0, <2>1, <2>2, <2>3, <2>4, <2>5, <2>6, <2>8, <2>9, <2>10 DEF TypeOK
<1>2. FilesInOrder
  BY <1>l DEF Init, FilesInOrder
<1>3. RowsTell
  BY <1>l DEF Init, RowsTell, RowTells, Recorded, Start1
<1>4. JobsTell /\ CatalogTells
  BY DEF Init, JobsTell, CatalogTells
<1>5. DmlOnce /\ OneText
  BY DEF Init, DmlOnce, OneText
<1>6. RunInv
  BY DEF Init, RunInv, Active
<1>7. QED
  BY <1>1, <1>2, <1>3, <1>4, <1>5, <1>6 DEF MigrationInv, DbInv

-------------------------------------------------------------------------------
(* Steps of the run that change no table.                                   *)

\* A run starts.
LEMMA StartKeeps ==
    ASSUME MigrationInv, Start
    PROVE  MigrationInv'
<1>d. DbInv'
  BY DbKept DEF MigrationInv, Start, dbVars
<1>1. Goto("next") /\ setbacks' \in 0..MAX_SETBACKS
  BY DEF MigrationInv, TypeOK, Start
<1>2. TypeOK'
  BY <1>1, GotoTypes DEF MigrationInv, Start, dbVars, Place
<1>3. RunInv'
  BY <1>1 DEF Goto, RunInv, Active
<1>4. QED
  BY <1>d, <1>2, <1>3 DEF MigrationInv


\* A run ends at an edited file.
LEMMA RefuseKeeps ==
    ASSUME MigrationInv, NEW f \in Files, Refuse(f)
    PROVE  MigrationInv'
<1>d. DbInv'
  BY DbKept DEF MigrationInv, Refuse, dbVars
<1>1. Goto("idle") /\ setbacks' \in 0..MAX_SETBACKS
  BY DEF MigrationInv, TypeOK, Refuse
<1>2. TypeOK'
  BY <1>1, GotoTypes DEF MigrationInv, Refuse, dbVars, Place
<1>3. RunInv'
  BY <1>1 DEF Goto, RunInv, Active
<1>4. QED
  BY <1>d, <1>2, <1>3 DEF MigrationInv


\* A run throws at a file whose row names no step.
LEMMA NoSuchStepKeeps ==
    ASSUME MigrationInv, NEW f \in Files, NoSuchStep(f)
    PROVE  MigrationInv'
<1>d. DbInv'
  BY DbKept DEF MigrationInv, NoSuchStep, dbVars
<1>1. Goto("idle") /\ setbacks' \in 0..MAX_SETBACKS
  BY DEF MigrationInv, TypeOK, NoSuchStep
<1>2. TypeOK'
  BY <1>1, GotoTypes DEF MigrationInv, NoSuchStep, dbVars, Place
<1>3. RunInv'
  BY <1>1 DEF Goto, RunInv, Active
<1>4. QED
  BY <1>d, <1>2, <1>3 DEF MigrationInv


\* A run ends.
LEMMA AllAppliedKeeps ==
    ASSUME MigrationInv, AllApplied
    PROVE  MigrationInv'
<1>d. DbInv'
  BY DbKept DEF MigrationInv, AllApplied, dbVars
<1>1. Goto("idle") /\ setbacks' \in 0..MAX_SETBACKS
  BY DEF MigrationInv, TypeOK, AllApplied
<1>2. TypeOK'
  BY <1>1, GotoTypes DEF MigrationInv, AllApplied, dbVars, Place
<1>3. RunInv'
  BY <1>1 DEF Goto, RunInv, Active
<1>4. QED
  BY <1>d, <1>2, <1>3 DEF MigrationInv


\* A run ends at a statement the database rejects.
LEMMA ExistsKeeps ==
    ASSUME MigrationInv, Exists
    PROVE  MigrationInv'
<1>d. DbInv'
  BY DbKept DEF MigrationInv, Exists, dbVars
<1>1. Goto("idle") /\ setbacks' \in 0..MAX_SETBACKS
  BY DEF MigrationInv, TypeOK, Exists
<1>2. TypeOK'
  BY <1>1, GotoTypes DEF MigrationInv, Exists, dbVars, Place
<1>3. RunInv'
  BY <1>1 DEF Goto, RunInv, Active
<1>4. QED
  BY <1>d, <1>2, <1>3 DEF MigrationInv


\* A run dies.
LEMMA AbortKeeps ==
    ASSUME MigrationInv, Abort
    PROVE  MigrationInv'
<1>d. DbInv'
  BY DbKept DEF MigrationInv, Abort, dbVars
<1>1. Goto("idle")
  BY DEF Abort
<1>2. setbacks' \in 0..MAX_SETBACKS
  BY BoundsAssumption DEF MigrationInv, TypeOK, Abort
<1>3. TypeOK'
  BY <1>1, <1>2, GotoTypes DEF MigrationInv, Abort, dbVars, Place
<1>4. RunInv'
  BY <1>1 DEF Goto, RunInv, Active
<1>5. QED
  BY <1>d, <1>3, <1>4 DEF MigrationInv


\* A run takes up a file.
LEMMA BeginKeeps ==
    ASSUME MigrationInv, NEW f \in Files, Begin(f)
    PROVE  MigrationInv'
<1>d. DbInv'
  BY DbKept DEF MigrationInv, Begin, dbVars
<1>1. at' = Recorded(f) /\ file' = f /\ pc' = "step" /\ batch' = {}
  BY DEF Begin, Recorded
<1>2. TypeOK'
  <2>1. at' \in Position
    BY <1>1, PositionTypes DEF MigrationInv
  <2>2. f \in Nat \ {0}
    BY Layout DEF MigrationInv, TypeOK
  <2>3. resumed' \in BOOLEAN /\ setbacks' \in 0..MAX_SETBACKS
    BY DEF Begin, MigrationInv, TypeOK
  <2>4. QED
    BY <1>1, <2>1, <2>2, <2>3, TypesKept DEF MigrationInv, Begin, dbVars, Place
<1>3. OnFile'
  BY <1>1 DEF Begin, Pending, OnFile, Files, dbVars
<1>4. AtRecord'
  BY <1>1 DEF AtRecord, Recorded, Begin, dbVars
<1>5. FreshOrFirst'
  <2>1. CASE progress[f] = NoRow
    <3>1. at'.stmt = 1
      BY <1>1, <2>1 DEF Recorded, Start1
    <3>2. QED
      BY <3>1 DEF FreshOrFirst
  <2>2. CASE progress[f] # NoRow
    <3>1. resumed'
      BY <2>2 DEF Begin
    <3>2. QED
      BY <3>1 DEF FreshOrFirst
  <2>3. QED
    BY <2>1, <2>2
<1>6. RunInv'
  BY <1>1, <1>3, <1>4, <1>5 DEF RunInv, Active
<1>7. QED
  BY <1>d, <1>2, <1>6 DEF MigrationInv


\* An ASYNC statement is looked up if the run resumed at it.
LEMMA ConsiderKeeps ==
    ASSUME MigrationInv, Consider
    PROVE  MigrationInv'
<1>d. DbInv'
  BY DbKept DEF MigrationInv, Consider, dbVars
<1>1. pc = "step" /\ ~at.waiting /\ at.stmt <= Len(plan[file]) /\ KindOf(This) \in Async
  <2>1. ~(at.stmt > Len(plan[file]))
    BY DEF Consider, AtStatement, Behind
  <2>2. OnFile
    BY DEF Consider, AtStatement, MigrationInv, RunInv, Active
  <2>3. Len(plan[file]) \in Nat /\ at.stmt \in Nat
    BY <2>2, Layout DEF MigrationInv, TypeOK, Position, OnFile
  <2>4. QED
    BY <2>1, <2>3 DEF Consider, AtStatement
<1>2. OnFile /\ AtRecord /\ FreshOrFirst
  BY <1>1 DEF MigrationInv, RunInv, Active, InBatch, Async
<1>3. AtAsync
  BY <1>1, <1>2 DEF AtAsync
<1>4. UNCHANGED <<plan, text, applied, progress, catalog, jobs, effects, origin, file, at, resumed, batch, setbacks>>
  BY DEF Consider, Goto, dbVars
<1>5. OnFile' /\ AtAsync' /\ HasTarget(This)' = HasTarget(This)
  BY <1>2, <1>3, <1>4, OnFileKept DEF AtAsync, AtRecord, Recorded, Start1, This, KindOf, HasTarget
<1>6. CASE resumed /\ HasTarget(This)
  <2>1. Goto("catalog")
    BY <1>6 DEF Consider
  <2>2. TypeOK'
    BY <2>1, <1>4, GotoTypes DEF MigrationInv, TypeOK, Place
  <2>3. RunInv'
    BY <1>5, <1>6, <2>1 DEF RunInv, Active, Goto
  <2>4. QED
    BY <1>d, <2>2, <2>3 DEF MigrationInv
<1>7. CASE ~(resumed /\ HasTarget(This))
  <2>1. Goto("issuing")
    BY <1>7 DEF Consider
  <2>2. TypeOK'
    BY <2>1, <1>4, GotoTypes DEF MigrationInv, TypeOK, Place
  <2>3. Sendable
    <3>1. SUFFICES ASSUME at.stmt > 1, HasTarget(This) PROVE Unbuilt /\ Accepts(This)
      BY DEF Sendable
    <3>2. effects[This] = 0
      BY <1>1, <1>2, <1>7, <3>1 DEF FreshOrFirst
    <3>3. Unbuilt
      BY <3>2 DEF Unbuilt, MigrationInv, DbInv, JobsTell
    <3>4. This \in Statements
      BY <1>1, <1>2, Layout DEF This, OnFile, MigrationInv, TypeOK, Position
    <3>5. Accepts(This)
      BY <3>2, <3>4 DEF Accepts, MigrationInv, DbInv, CatalogTells
    <3>6. QED
      BY <3>3, <3>5
  <2>4. Sendable'
    BY <2>3, <1>4 DEF Sendable, HasTarget, This, KindOf, Unbuilt, Accepts
  <2>5. RunInv'
    BY <1>5, <2>1, <2>4 DEF RunInv, Active, Goto
  <2>6. QED
    BY <1>d, <2>2, <2>5 DEF MigrationInv
<1>8. QED
  BY <1>6, <1>7

\* The next statement that is not in a transaction.
LEMMA StepAtStatement ==
    ASSUME MigrationInv, NEW kinds, AtStatement(kinds)
    PROVE  /\ pc = "step" /\ ~at.waiting /\ OnFile
           /\ at.stmt <= Len(plan[file]) /\ This \in Statements /\ KindOf(This) \in kinds
<1>1. OnFile
  BY DEF AtStatement, MigrationInv, RunInv, Active
<1>2. Len(plan[file]) \in Nat /\ at.stmt \in Nat
  BY <1>1, Layout DEF MigrationInv, TypeOK, Position, OnFile
<1>3. at.stmt <= Len(plan[file])
  BY <1>2 DEF AtStatement, Behind
<1>4. QED
  BY <1>1, <1>3, ThisStatement DEF AtStatement, MigrationInv

\* The run is at a wait: its row waits for the same job.
LEMMA StepAtWait ==
    ASSUME MigrationInv,
           AtWait \/ pc \in {"verifying", "removing", "rewinding"}
    PROVE  /\ OnFile /\ AtRecord /\ at.waiting /\ at.stmt <= Len(plan[file])
           /\ This \in Statements /\ Started(This, at.job)
<1>1. OnFile
  BY DEF AtWait, MigrationInv, RunInv, Active
<1>2. AtRecord /\ at.waiting
  BY DEF AtWait, MigrationInv, RunInv, AtEndedJob, InBatch, BatchTo
<1>3. RowTells(file)
  BY <1>1 DEF MigrationInv, DbInv, RowsTell, OnFile
<1>4. at.stmt <= Len(plan[file]) /\ Started(This, at.job)
  BY <1>2, <1>3 DEF RowTells, AtRecord, This
<1>5. QED
  BY <1>1, <1>2, <1>4, ThisStatement DEF MigrationInv

\* A step that leads one step ahead of the record, and no table changes.
LEMMA SaveKeeps ==
    ASSUME MigrationInv, OnFile, AtRecord, NEW p \in Position, SaveAs(p),
           at.stmt <= Len(plan[file]),
           UNCHANGED <<plan, text, applied, progress, catalog, jobs, effects, origin, setbacks>>,
           \/ p = NextStatement /\ Done(This)
           \/ p.stmt = at.stmt /\ p.waiting /\ ~at.waiting /\ Started(This, p.job)
    PROVE  MigrationInv'
<1>1. DbInv'
  BY DbKept DEF MigrationInv
<1>2. TypeOK'
  BY SaveAsTypes DEF MigrationInv
<1>3. pc' = "saving" /\ at' = p /\ file' = file /\ batch' = batch /\ ~resumed'
  BY DEF SaveAs
<1>4. OnFile'
  BY <1>3, OnFileKept
<1>5. Recorded(file)' = Recorded(file)
  BY <1>3 DEF Recorded, Start1
<1>6. OneAhead'
  <2>1. CASE p = NextStatement /\ Done(This)
    BY <1>3, <1>5, <2>1 DEF OneAhead, AtRecord, NextStatement, Done, This, KindOf
  <2>2. CASE p.stmt = at.stmt /\ p.waiting /\ ~at.waiting /\ Started(This, p.job)
    <3>1. This' = This
      BY <1>3, <2>2 DEF This
    <3>2. Started(This, p.job)'
      BY <2>2, <3>1, <1>3 DEF Started, Linked, KindOf, This
    <3>3. QED
      BY <1>3, <1>5, <2>2, <3>2 DEF OneAhead, AtRecord
  <2>3. QED
    BY <2>1, <2>2
<1>7. RunInv'
  BY <1>3, <1>4, <1>6 DEF RunInv, Active
<1>8. QED
  BY <1>1, <1>2, <1>7 DEF MigrationInv

\* A step that stays where it is, in another place, and no table changes.
LEMMA GotoKeeps ==
    ASSUME MigrationInv, OnFile, NEW place \in Place, Goto(place),
           UNCHANGED <<plan, text, applied, progress, catalog, jobs, effects, origin, setbacks>>,
           \/ place = "idle"
           \/ place = "jobs" /\ AtAsync /\ HasTarget(This)
           \/ place = "dropping" /\ AtAsync /\ KindOf(This) = "index" /\ Unbuilt
           \/ place = "issuing" /\ AtAsync /\ Sendable
           \/ place = "verifying" /\ AtEndedJob({"purged"}) /\ HasTarget(This)
           \/ place = "removing" /\ AtEndedJob({"failed", "purged"})
    PROVE  MigrationInv'
<1>1. DbInv'
  BY DbKept DEF MigrationInv
<1>2. TypeOK'
  BY GotoTypes DEF MigrationInv, TypeOK
<1>3. pc' = place /\ UNCHANGED <<file, at, resumed, batch>>
  BY DEF Goto
<1>4. OnFile'
  BY <1>3, OnFileKept
<1>5. Recorded(file)' = Recorded(file)
  BY <1>3 DEF Recorded, Start1
<1>6. /\ AtRecord' = AtRecord /\ This' = This /\ KindOf(This)' = KindOf(This)
      /\ HasTarget(This)' = HasTarget(This) /\ Accepts(This)' = Accepts(This)
      /\ Unbuilt' = Unbuilt
  BY <1>3, <1>5 DEF AtRecord, This, KindOf, HasTarget, Accepts, Unbuilt
<1>7. RunInv'
  BY <1>3, <1>4, <1>6 DEF RunInv, Active, AtAsync, Sendable, AtEndedJob
<1>8. QED
  BY <1>1, <1>2, <1>7 DEF MigrationInv

\* The catalog is read.
LEMMA ReadCatalogKeeps ==
    ASSUME MigrationInv, ReadCatalog
    PROVE  MigrationInv'
<1>1. OnFile /\ AtAsync /\ HasTarget(This)
  BY DEF ReadCatalog, MigrationInv, RunInv, Active
<1>2. AtRecord /\ ~at.waiting /\ at.stmt <= Len(plan[file]) /\ KindOf(This) \in Async
  BY <1>1 DEF AtAsync
<1>3. This \in Statements
  BY <1>1, <1>2, ThisStatement DEF MigrationInv
<1>4. UNCHANGED <<plan, text, applied, progress, catalog, jobs, effects, origin, setbacks>>
  BY DEF ReadCatalog, dbVars
<1>5. CASE catalog[This] = "valid" /\ SaveAs(WaitFor(0))
  <2>1. effects[This] > 0
    BY <1>3, <1>5 DEF MigrationInv, DbInv, CatalogTells, TypeOK
  <2>2. Started(This, 0)
    BY <1>2, <1>5, <2>1 DEF Started, Linked
  <2>3. WaitFor(0) \in Position
    BY PositionTypes DEF MigrationInv
  <2>4. WaitFor(0).stmt = at.stmt /\ WaitFor(0).waiting /\ WaitFor(0).job = 0
    BY DEF WaitFor
  <2>5. QED
    BY <1>1, <1>2, <1>4, <1>5, <2>2, <2>3, <2>4, SaveKeeps
<1>6. CASE catalog[This] = "invalid" /\ Goto("jobs")
  BY <1>1, <1>4, <1>6, GotoKeeps DEF Place
<1>7. CASE catalog[This] = "missing" /\ Goto("issuing")
  <2>1. KindOf(This) = "index"
    BY <1>1, <1>3, <1>7 DEF HasTarget, MigrationInv, DbInv, CatalogTells
  <2>2. Unbuilt
    BY <1>7, <2>1 DEF Unbuilt, MigrationInv, DbInv, JobsTell
  <2>3. Sendable
    BY <1>7, <2>2 DEF Sendable, Accepts
  <2>4. QED
    BY <1>1, <1>4, <1>7, <2>3, GotoKeeps DEF Place
<1>8. QED
  BY <1>5, <1>6, <1>7 DEF ReadCatalog

\* The jobs are read.
LEMMA ReadJobsKeeps ==
    ASSUME MigrationInv, ReadJobs
    PROVE  MigrationInv'
<1>1. OnFile /\ AtAsync /\ HasTarget(This)
  BY DEF ReadJobs, MigrationInv, RunInv, Active
<1>2. AtRecord /\ ~at.waiting /\ at.stmt <= Len(plan[file]) /\ KindOf(This) \in Async
  BY <1>1 DEF AtAsync
<1>3. UNCHANGED <<plan, text, applied, progress, catalog, jobs, effects, origin, setbacks>>
  BY DEF ReadJobs, dbVars
<1>4. ASSUME NEW j \in RunningJobs(This), SaveAs(WaitFor(j))
      PROVE  MigrationInv'
  <2>1. j \in DOMAIN jobs /\ jobs[j].of = This /\ jobs[j].status = "running"
    BY <1>4 DEF RunningJobs
  <2>2. j \in Nat /\ j # 0
    BY <2>1 DEF MigrationInv, TypeOK
  <2>3. Linked(This, j)
    BY <2>1, <2>2 DEF Linked, MigrationInv, DbInv, JobsTell
  <2>4. Started(This, j)
    BY <1>2, <2>1, <2>3 DEF Started, MigrationInv, DbInv, JobsTell
  <2>5. WaitFor(j) \in Position
    BY <2>2, PositionTypes DEF MigrationInv
  <2>6. WaitFor(j).stmt = at.stmt /\ WaitFor(j).waiting /\ WaitFor(j).job = j
    BY DEF WaitFor
  <2>7. QED
    BY <1>1, <1>2, <1>3, <1>4, <2>4, <2>5, <2>6, SaveKeeps
<1>5. CASE RunningJobs(This) = {} /\ Goto(IF KindOf(This) = "index" THEN "dropping" ELSE "issuing")
  <2>1. Unbuilt
    BY <1>5 DEF Unbuilt, RunningJobs
  <2>2. CASE KindOf(This) = "index"
    BY <1>1, <1>3, <1>5, <2>1, <2>2, GotoKeeps DEF Place
  <2>3. CASE KindOf(This) # "index"
    <3>1. Sendable
      BY <2>1, <2>3 DEF Sendable, Accepts
    <3>2. QED
      BY <1>1, <1>3, <1>5, <2>3, <3>1, GotoKeeps DEF Place
  <2>4. QED
    BY <2>2, <2>3
<1>6. QED
  BY <1>4, <1>5 DEF ReadJobs

\* A wait without a job.
LEMMA SkipWaitKeeps ==
    ASSUME MigrationInv, SkipWait
    PROVE  MigrationInv'
<1>1. OnFile /\ AtRecord /\ at.stmt <= Len(plan[file]) /\ Started(This, at.job)
  BY StepAtWait DEF SkipWait
<1>2. Done(This)
  BY <1>1 DEF SkipWait, Started, Linked, Done
<1>3. UNCHANGED <<plan, text, applied, progress, catalog, jobs, effects, origin, setbacks>> /\ SaveAs(NextStatement)
  BY DEF SkipWait, dbVars
<1>4. QED
  BY <1>1, <1>2, <1>3, PositionTypes, SaveKeeps DEF MigrationInv

\* The job is looked up.
LEMMA PollKeeps ==
    ASSUME MigrationInv, Poll
    PROVE  MigrationInv'
<1>1. OnFile /\ AtRecord /\ at.waiting /\ at.stmt <= Len(plan[file]) /\ Started(This, at.job)
  BY StepAtWait DEF Poll
<1>2. UNCHANGED <<plan, text, applied, progress, catalog, jobs, effects, origin, setbacks>> /\ at.job # 0
  BY DEF Poll, dbVars
<1>3. CASE jobs[at.job].status = "running" /\ Goto("idle")
  BY <1>1, <1>2, <1>3, GotoKeeps DEF Place
<1>4. CASE jobs[at.job].status = "completed" /\ SaveAs(NextStatement)
  <2>1. Done(This)
    BY <1>1, <1>2, <1>4 DEF Started, Linked, Done
  <2>2. QED
    BY <1>1, <1>2, <1>4, <2>1, PositionTypes, SaveKeeps DEF MigrationInv
<1>5. CASE jobs[at.job].status = "failed" /\ Goto("removing")
  BY <1>1, <1>2, <1>5, GotoKeeps DEF Place, AtEndedJob
<1>6. CASE jobs[at.job].status = "purged" /\ HasTarget(This) /\ Goto("verifying")
  BY <1>1, <1>2, <1>6, GotoKeeps DEF Place, AtEndedJob
<1>7. CASE jobs[at.job].status = "purged" /\ Goto("removing")
  BY <1>1, <1>2, <1>7, GotoKeeps DEF Place, AtEndedJob
<1>8. QED
  BY <1>3, <1>4, <1>5, <1>6, <1>7 DEF Poll

\* What a purged job has done is looked up.
LEMMA VerifyKeeps ==
    ASSUME MigrationInv, Verify
    PROVE  MigrationInv'
<1>1. OnFile /\ AtRecord /\ at.stmt <= Len(plan[file]) /\ Started(This, at.job)
  BY StepAtWait DEF Verify
<1>2. UNCHANGED <<plan, text, applied, progress, catalog, jobs, effects, origin, setbacks>>
  BY DEF Verify, dbVars
<1>3. AtEndedJob({"failed", "purged"})
  BY DEF Verify, MigrationInv, RunInv, AtEndedJob
<1>4. CASE catalog[This] = "valid" /\ SaveAs(NextStatement)
  <2>1. Done(This)
    BY <1>1, <1>4 DEF Started, Done
  <2>2. QED
    BY <1>1, <1>2, <1>4, <2>1, PositionTypes, SaveKeeps DEF MigrationInv
<1>5. CASE Goto("removing")
  BY <1>1, <1>2, <1>3, <1>5, GotoKeeps DEF Place
<1>6. QED
  BY <1>4, <1>5 DEF Verify

\* A change of rows in the open transaction.
LEMMA RunDmlKeeps ==
    ASSUME MigrationInv, RunDml
    PROVE  MigrationInv'
<1> DEFINE r == Recorded(file).stmt
<1>1. /\ pc = "step" /\ ~at.waiting /\ OnFile /\ at.stmt <= Len(plan[file])
      /\ This \in Statements /\ KindOf(This) = "dml"
  BY StepAtStatement DEF RunDml
<1>2. r \in Nat /\ at.stmt \in Nat /\ Len(plan[file]) \in Nat /\ plan \in Plans
  BY <1>1, PositionTypes, Layout DEF MigrationInv, TypeOK, Position, OnFile
<1>3. /\ ~Recorded(file).waiting /\ r <= at.stmt
      /\ \A s \in Statements : s \in batch <=> s[1] = file /\ r <= s[2] /\ s[2] <= at.stmt - 1
      /\ \A s \in batch : KindOf(s) = "dml"
  <2>1. CASE AtRecord
    <3>1. r = at.stmt /\ batch = {} /\ ~Recorded(file).waiting
      BY <1>1, <2>1 DEF AtRecord
    <3>2. \A s \in Statements : s[2] \in Nat
      BY <1>2, Layout
    <3>3. QED
      BY <1>2, <3>1, <3>2
  <2>2. CASE InBatch
    BY <1>2, <2>2 DEF InBatch, BatchTo
  <2>3. QED
    BY <1>1, <2>1, <2>2 DEF MigrationInv, RunInv
<1>4. /\ \A s \in Statements : s \in batch' <=> s[1] = file /\ r <= s[2] /\ s[2] <= at.stmt
      /\ \A s \in batch' : KindOf(s) = "dml"
  <2>1. batch' = batch \cup {This}
    BY DEF RunDml
  <2>2. \A s \in Statements : s = <<s[1], s[2]>> /\ s[2] \in Nat
    BY <1>2, Layout
  <2>3. \A s \in Statements : s = This <=> s[1] = file /\ s[2] = at.stmt
    BY <2>2 DEF This
  <2>4. QED
    BY <1>1, <1>2, <1>3, <2>1, <2>2, <2>3
<1>5. UNCHANGED <<plan, text, applied, progress, catalog, jobs, effects, origin, file, setbacks>>
  BY DEF RunDml, dbVars
<1>6. DbInv'
  BY <1>5, DbKept DEF MigrationInv
<1>7. /\ OnFile' /\ Recorded(file)' = Recorded(file) /\ Statements' = Statements /\ ~resumed'
  BY <1>1, <1>5, OnFileKept DEF Recorded, Start1, RunDml, Statements, Files
<1>8. at' \in Position /\ pc' \in Place
  BY PositionTypes DEF RunDml, MigrationInv, TypeOK, Place
<1>9. batch' \subseteq Statements /\ resumed' \in BOOLEAN /\ file' \in Nat \ {0} /\ setbacks' \in 0..MAX_SETBACKS
  BY <1>1, <1>5 DEF RunDml, MigrationInv, TypeOK
<1>10. TypeOK'
  BY <1>5, <1>8, <1>9, TypesKept DEF MigrationInv
<1>11. CASE pc' = "step" /\ at' = NextStatement
             /\ ~Behind(file, at.stmt + 1) /\ KindOf(<<file, at.stmt + 1>>) = "dml"
  <2>1. at'.stmt = at.stmt + 1 /\ ~at'.waiting
    BY <1>11 DEF NextStatement
  <2>2. at'.stmt <= Len(plan[file])
    BY <1>2, <1>11, <2>1 DEF Behind
  <2>3. KindOf(This)' = "dml"
    BY <1>5, <1>11, <2>1 DEF This, KindOf
  <2>4. at'.stmt - 1 = at.stmt
    BY <1>2, <2>1
  <2>5. BatchTo(at.stmt - 1)'
    BY <1>3, <1>4, <1>5, <1>7, <2>1, <2>4 DEF BatchTo, KindOf
  <2>6. InBatch'
    BY <1>5, <2>2, <2>3, <2>5 DEF InBatch
  <2>7. QED
    BY <1>6, <1>7, <1>10, <1>11, <2>6 DEF MigrationInv, RunInv, Active
<1>12. CASE pc' = "committing" /\ at' = at
  <2>1. BatchTo(at.stmt)'
    BY <1>1, <1>3, <1>4, <1>5, <1>7, <1>12 DEF BatchTo, KindOf
  <2>2. BatchDone'
    BY <1>1, <1>5, <1>12, <2>1 DEF BatchDone, This, KindOf
  <2>3. QED
    BY <1>6, <1>7, <1>10, <1>12, <2>2 DEF MigrationInv, RunInv, Active
<1>13. QED
  BY <1>11, <1>12 DEF RunDml

-------------------------------------------------------------------------------
(* Steps of the run that change the tables.                                *)

\* Statements of the file the run is on take effect, none behind its record.
LEMMA TookEffect ==
    ASSUME MigrationInv, OnFile, NEW S \in SUBSET Statements,
           \A s \in S : s[1] = file, Took(S), UNCHANGED <<plan, text, applied>>
    PROVE  /\ \A s \in Statements :
                 /\ s \in S => effects'[s] = effects[s] + 1 /\ origin'[s] = text[file]
                 /\ s \notin S => effects'[s] = effects[s] /\ origin'[s] = origin[s]
                 /\ effects[s] \in Nat /\ effects'[s] \in Nat
                 /\ effects'[s] >= effects[s]
           /\ \A k \in DOMAIN plan[file] : k > 1 /\ effects'[<<file, k>>] > 0 =>
                 \/ <<file, k>> \notin S /\ progress[file] = NoRow
                 \/ origin'[<<file, k>>] = text[file]
           /\ \A s \in Statements, g \in Files : effects'[s] > 0 /\ g < s[1] => g \in applied
           /\ effects' \in [Statements -> Nat] /\ origin' \in [Statements -> 0..MAX_TEXT]
           /\ OneText'
<1>1. effects \in [Statements -> Nat] /\ origin \in [Statements -> 0..MAX_TEXT] /\ text \in [Files -> 1..MAX_TEXT]
  BY DEF MigrationInv, TypeOK
<1>2. \A s \in Statements :
         /\ s \in S => effects'[s] = effects[s] + 1 /\ origin'[s] = text[file]
         /\ s \notin S => effects'[s] = effects[s] /\ origin'[s] = origin[s]
  BY DEF Took
<1>3. \A s \in Statements : effects[s] \in Nat /\ effects'[s] \in Nat /\ effects'[s] >= effects[s]
  BY <1>1, <1>2
<1>4. /\ \A f \in Files : DOMAIN plan[f] = 1..Len(plan[f]) /\ Len(plan[f]) \in Nat
      /\ \A f \in Files : \A k \in DOMAIN plan[f] : <<f, k>> \in Statements
      /\ \A s \in Statements : s[1] \in Files /\ s[2] \in DOMAIN plan[s[1]] /\ s = <<s[1], s[2]>>
  BY Layout DEF MigrationInv, TypeOK
<1>5. RowTells(file) /\ file \in Files
  BY DEF OnFile, MigrationInv, DbInv, RowsTell
<1>6. ASSUME NEW k \in DOMAIN plan[file], k > 1, effects'[<<file, k>>] > 0,
             <<file, k>> \in S \/ progress[file] # NoRow
      PROVE  origin'[<<file, k>>] = text[file]
  <2>1. <<file, k>> \in Statements
    BY <1>4, <1>5
  <2>2. CASE <<file, k>> \in S
    BY <1>2, <2>1, <2>2
  <2>3. CASE <<file, k>> \notin S /\ progress[file] # NoRow
    BY <1>2, <1>5, <1>6, <2>1, <2>3 DEF RowTells, OnFile
  <2>4. QED
    BY <1>6, <2>2, <2>3
<1>7. ASSUME NEW s \in Statements, NEW g \in Files, effects'[s] > 0, g < s[1]
      PROVE  g \in applied
  <2>1. CASE s \in S
    BY <1>7, <2>1 DEF OnFile
  <2>2. CASE s \notin S
    BY <1>2, <1>7, <2>2 DEF MigrationInv, DbInv, FilesInOrder
  <2>3. QED
    BY <2>1, <2>2
<1>8. effects' \in [Statements -> Nat]
  BY <1>1 DEF Took
<1>9. origin' \in [Statements -> 0..MAX_TEXT]
  <2>1. \A f \in Files : text[f] \in 0..MAX_TEXT
    BY <1>1, BoundsAssumption
  <2>2. QED
    BY <1>1, <1>4, <2>1 DEF Took
<1>10. OneText'
  <2>1. Statements' = Statements
    BY DEF Statements, Files
  <2>2. ASSUME NEW s \in Statements, NEW t \in Statements,
               s[1] = t[1], s[2] > 1, t[2] > 1, effects'[s] > 0, effects'[t] > 0
        PROVE  origin'[s] = origin'[t]
    <3>1. CASE s[1] # file
      <4>1. s \notin S /\ t \notin S
        BY <2>2, <3>1
      <4>2. QED
        BY <1>2, <2>2, <4>1 DEF MigrationInv, DbInv, OneText
    <3>2. CASE s[1] = file /\ progress[file] # NoRow
      <4>1. /\ s = <<file, s[2]>> /\ s[2] \in DOMAIN plan[file]
            /\ t = <<file, t[2]>> /\ t[2] \in DOMAIN plan[file]
        BY <1>4, <2>2, <3>2
      <4>2. origin'[<<file, s[2]>>] = text[file]
        BY <1>6, <2>2, <3>2, <4>1
      <4>3. origin'[<<file, t[2]>>] = text[file]
        BY <1>6, <2>2, <3>2, <4>1
      <4>4. QED
        BY <4>1, <4>2, <4>3
    <3>3. CASE s[1] = file /\ progress[file] = NoRow
      <4>1. Recorded(file).stmt = 1
        BY <3>3 DEF Recorded, Start1
      <4>2. ASSUME NEW u \in Statements, u[1] = file, u[2] > 1, effects'[u] > 0
            PROVE  u \in S
        BY <1>2, <1>4, <1>5, <4>1, <4>2 DEF RowTells
      <4>3. s \in S /\ t \in S
        BY <2>2, <3>3, <4>2
      <4>4. QED
        BY <1>2, <4>3
    <3>4. QED
      BY <3>1, <3>2, <3>3
  <2>3. QED
    BY <2>1, <2>2 DEF OneText
<1>11. QED
  BY <1>2, <1>3, <1>6, <1>7, <1>8, <1>9, <1>10

\* What a sequence holds is of its type.
LEMMA SeqElement ==
    ASSUME NEW S, NEW q \in Seq(S), NEW j \in DOMAIN q
    PROVE  q[j] \in S
OBVIOUS

\* What sys.jobs holds is well typed.
LEMMA JobTypes ==
    ASSUME TypeOK
    PROVE  /\ DOMAIN jobs = 1..Len(jobs) /\ Len(jobs) \in Nat
           /\ \A j \in DOMAIN jobs :
                 jobs[j].of \in Statements /\ jobs[j].status \in JobStatus /\ j \in Nat \ {0}
<1>1. jobs \in Seq([of : Statements, status : JobStatus])
  BY DEF TypeOK
<1>2. DOMAIN jobs = 1..Len(jobs) /\ Len(jobs) \in Nat
  BY <1>1
<1>3. \A j \in DOMAIN jobs : jobs[j] \in [of : Statements, status : JobStatus]
  BY <1>1, SeqElement
<1>4. QED
  BY <1>2, <1>3

\* The record of another file is as it was.
LEMMA OtherRecords ==
    ASSUME TypeOK, NEW v, progress' = [progress EXCEPT ![file] = v]
    PROVE  \A f \in Files \ {file} : progress'[f] = progress[f] /\ Recorded(f)' = Recorded(f)
BY DEF TypeOK, Recorded, Start1

\* The record of the file is the position that was saved.
LEMMA SavedRecord ==
    ASSUME TypeOK, OnFile, NEW p \in Position, progress' = [progress EXCEPT ![file] = RowAt(p)],
           file' = file
    PROVE  /\ Recorded(file)' = p
           /\ progress'[file] # NoRow /\ progress'[file].text = text[file]
           /\ progress' \in [Files -> Row \cup {NoRow}]
<1>1. text[file] \in Nat
  BY DEF TypeOK, OnFile
<1>2. RowAt(p) \in Row
  BY <1>1 DEF RowAt, Row, Position
<1>3. RowAt(p) # NoRow
  BY <1>2, NoRowAssumption
<1>4. progress'[file] = RowAt(p)
  BY DEF TypeOK, OnFile
<1>5. p = [stmt |-> p.stmt, waiting |-> p.waiting, job |-> p.job]
  BY DEF Position
<1>6. progress' \in [Files -> Row \cup {NoRow}]
  BY <1>2 DEF TypeOK
<1>7. Recorded(file)' = p
  BY <1>3, <1>4, <1>5 DEF Recorded, RowAt
<1>8. QED
  BY <1>3, <1>4, <1>6, <1>7 DEF RowAt

\* The open transaction commits, with the record.
LEMMA CommitKeeps ==
    ASSUME MigrationInv, Commit
    PROVE  MigrationInv'
<1> DEFINE r == Recorded(file).stmt
<1>1. OnFile /\ BatchDone
  BY DEF Commit, MigrationInv, RunInv, Active
<1>2. /\ r \in Nat \ {0} /\ at.stmt \in Nat \ {0} /\ plan \in Plans
      /\ file \in Files /\ RowTells(file)
  BY <1>1, PositionTypes DEF MigrationInv, TypeOK, Position, OnFile, DbInv, RowsTell
<1>3. /\ \A f \in Files : DOMAIN plan[f] = 1..Len(plan[f]) /\ Len(plan[f]) \in Nat
      /\ \A f \in Files : \A k \in DOMAIN plan[f] : <<f, k>> \in Statements
      /\ \A s \in Statements : s[1] \in Files /\ s[2] \in DOMAIN plan[s[1]] /\ s = <<s[1], s[2]>>
  BY <1>2, Layout
<1>4. /\ batch \subseteq Statements /\ r <= at.stmt /\ at.stmt <= Len(plan[file])
      /\ \A s \in Statements : s \in batch <=> s[1] = file /\ r <= s[2] /\ s[2] <= at.stmt
      /\ \A s \in batch : KindOf(s) = "dml"
  BY <1>1 DEF BatchDone, BatchTo, MigrationInv, TypeOK
<1>5. /\ Took(batch) /\ at' = NextStatement /\ pc' = "step" /\ batch' = {}
      /\ progress' = [progress EXCEPT ![file] = RowAt(NextStatement)]
      /\ UNCHANGED <<plan, text, applied, catalog, jobs, file, resumed, setbacks>>
  BY DEF Commit
<1>6. NextStatement \in Position /\ NextStatement.stmt = at.stmt + 1 /\ ~NextStatement.waiting
  BY PositionTypes DEF MigrationInv, NextStatement
<1>7. /\ \A s \in Statements :
            /\ s \in batch => effects'[s] = effects[s] + 1 /\ origin'[s] = text[file]
            /\ s \notin batch => effects'[s] = effects[s] /\ origin'[s] = origin[s]
            /\ effects[s] \in Nat /\ effects'[s] \in Nat
            /\ effects'[s] >= effects[s]
      /\ \A k \in DOMAIN plan[file] : k > 1 /\ effects'[<<file, k>>] > 0 =>
            \/ <<file, k>> \notin batch /\ progress[file] = NoRow
            \/ origin'[<<file, k>>] = text[file]
      /\ \A s \in Statements, g \in Files : effects'[s] > 0 /\ g < s[1] => g \in applied
      /\ effects' \in [Statements -> Nat] /\ origin' \in [Statements -> 0..MAX_TEXT]
      /\ OneText'
  BY <1>1, <1>4, <1>5, TookEffect
<1>8. /\ Recorded(file)' = NextStatement /\ progress'[file] # NoRow /\ progress'[file].text = text[file]
      /\ progress' \in [Files -> Row \cup {NoRow}]
  BY <1>1, <1>5, <1>6, SavedRecord DEF MigrationInv
<1>9. \A f \in Files \ {file} : progress'[f] = progress[f] /\ Recorded(f)' = Recorded(f)
  BY <1>5, OtherRecords DEF MigrationInv
<1>10. Statements' = Statements /\ Files' = Files
  BY <1>5 DEF Statements, Files
<1>11. \A s \in batch : effects[s] = 0
  BY <1>2, <1>3, <1>4 DEF RowTells
<1>12. TypeOK'
  BY <1>5, <1>6, <1>7, <1>8, <1>10 DEF MigrationInv, TypeOK, Place
<1>13. \A s \in Statements : Done(s) => Done(s)'
  BY <1>5, <1>7 DEF Done, KindOf
<1>14. FilesInOrder'
  BY <1>5, <1>7, <1>10, <1>13 DEF MigrationInv, DbInv, FilesInOrder
<1>15. RowTells(file)'
  <2>1. Recorded(file)'.stmt = at.stmt + 1 /\ ~Recorded(file)'.waiting
    BY <1>6, <1>8
  <2>2. at.stmt + 1 <= Len(plan[file]) + 1
    BY <1>2, <1>3, <1>4
  <2>3. ASSUME NEW k \in DOMAIN plan[file]
        PROVE  /\ k < at.stmt + 1 => Done(<<file, k>>)'
               /\ k > at.stmt => effects'[<<file, k>>] = 0
               /\ k > 1 /\ effects'[<<file, k>>] > 0 => origin'[<<file, k>>] = text[file]
    <3>1. <<file, k>> \in Statements /\ k \in Nat /\ <<file, k>>[1] = file /\ <<file, k>>[2] = k
      BY <1>2, <1>3
    <3>2. CASE k < r
      <4>1. Done(<<file, k>>) /\ k < at.stmt + 1
        BY <1>2, <1>4, <3>1, <3>2 DEF RowTells
      <4>2. progress[file] # NoRow \/ k <= 1
        BY <1>2, <3>1, <3>2 DEF Recorded, Start1
      <4>3. Done(<<file, k>>)'
        BY <1>5, <1>13, <3>1, <4>1
      <4>4. k > 1 /\ effects'[<<file, k>>] > 0 => origin'[<<file, k>>] = text[file]
        BY <1>7, <3>1, <4>2
      <4>5. ~(k > at.stmt)
        BY <1>2, <1>4, <3>1, <3>2
      <4>6. QED
        BY <4>3, <4>4, <4>5
    <3>3. CASE r <= k /\ k <= at.stmt
      <4>1. <<file, k>> \in batch
        BY <1>4, <3>1, <3>3
      <4>2. effects'[<<file, k>>] > 0 /\ KindOf(<<file, k>>) = "dml" /\ origin'[<<file, k>>] = text[file]
        BY <1>4, <1>7, <3>1, <4>1
      <4>3. Done(<<file, k>>)'
        BY <1>5, <4>2 DEF Done, KindOf, Async
      <4>4. QED
        BY <1>2, <3>1, <3>3, <4>2, <4>3
    <3>4. CASE k > at.stmt
      <4>1. <<file, k>> \notin batch /\ effects[<<file, k>>] = 0
        BY <1>2, <1>4, <3>1, <3>4 DEF RowTells
      <4>2. QED
        BY <1>2, <1>7, <3>1, <3>4, <4>1
    <3>5. QED
      BY <1>2, <3>1, <3>2, <3>3, <3>4
  <2>4. QED
    BY <1>2, <1>3, <1>5, <1>8, <2>1, <2>2, <2>3 DEF RowTells
<1>16. ASSUME NEW f \in Files, f \notin applied, f # file
       PROVE  RowTells(f)'
  <2>1. RowTells(f)
    BY <1>16 DEF MigrationInv, DbInv, RowsTell
  <2>2. \A k \in DOMAIN plan[f] : <<f, k>> \in Statements \ batch
    BY <1>3, <1>4, <1>16
  <2>3. \A k \in DOMAIN plan[f] :
           effects'[<<f, k>>] = effects[<<f, k>>] /\ origin'[<<f, k>>] = origin[<<f, k>>]
    BY <1>7, <2>2
  <2>4. Recorded(f).waiting => Recorded(f).stmt \in DOMAIN plan[f]
    BY <1>3, <1>16, <2>1, PositionTypes DEF RowTells, MigrationInv, Position
  <2>5. QED
    BY <1>5, <1>9, <1>16, <2>1, <2>3, <2>4 DEF RowTells, Started, Linked, Done, KindOf
<1>17. RowsTell'
  BY <1>5, <1>10, <1>15, <1>16 DEF RowsTell
<1>18. JobsTell' /\ CatalogTells'
  <2>1. \A j \in DOMAIN jobs : jobs[j].of \in Statements
    BY JobTypes DEF MigrationInv
  <2>2. QED
    BY <1>5, <1>7, <1>10, <2>1 DEF MigrationInv, DbInv, JobsTell, CatalogTells, KindOf
<1>19. DmlOnce'
  BY <1>5, <1>7, <1>10, <1>11 DEF MigrationInv, DbInv, DmlOnce, KindOf
<1>20. OnFile'
  BY <1>1, <1>5, <1>8, <1>10 DEF OnFile
<1>21. AtRecord' /\ FreshOrFirst'
  <2>1. AtRecord'
    BY <1>5, <1>8 DEF AtRecord
  <2>2. FreshOrFirst'
    <3>1. SUFFICES ASSUME at.stmt + 1 <= Len(plan[file]) PROVE effects'[<<file, at.stmt + 1>>] = 0
      BY <1>5, <1>6 DEF FreshOrFirst, This
    <3>2. at.stmt + 1 \in DOMAIN plan[file] /\ at.stmt + 1 > r /\ at.stmt + 1 > at.stmt
      BY <1>2, <1>3, <1>4, <3>1
    <3>3. <<file, at.stmt + 1>> \in Statements \ batch /\ effects[<<file, at.stmt + 1>>] = 0
      BY <1>2, <1>3, <1>4, <3>2 DEF RowTells
    <3>4. QED
      BY <1>7, <3>3
  <2>3. QED
    BY <2>1, <2>2
<1>22. RunInv'
  BY <1>5, <1>20, <1>21 DEF RunInv, Active
<1>23. QED
  BY <1>7, <1>12, <1>14, <1>17, <1>18, <1>19, <1>22 DEF MigrationInv, DbInv

\* A statement that takes effect alone: the tables go on telling the truth if what
\* it builds is in a state that fits.
LEMMA AloneKeeps ==
    ASSUME MigrationInv, OnFile, AtRecord, ~at.waiting, at.stmt <= Len(plan[file]),
           KindOf(This) # "dml", Took({This}),
           UNCHANGED <<plan, text, applied, progress, file>>,
           \A s \in Statements \ {This} : catalog'[s] = catalog[s],
           catalog'[This] = catalog[This] \/ catalog[This] = "missing",
           Len(jobs') \in Nat, DOMAIN jobs \subseteq DOMAIN jobs',
           \A j \in DOMAIN jobs : jobs'[j] = jobs[j],
           \A j \in DOMAIN jobs' \ DOMAIN jobs : jobs'[j].of = This
    PROVE  FilesInOrder' /\ RowsTell' /\ DmlOnce' /\ OneText' /\ OnFile'
<1>1. This \in Statements /\ RowTells(file) /\ file \in Files /\ file \notin applied /\ plan \in Plans
  BY ThisStatement DEF MigrationInv, OnFile, DbInv, RowsTell, TypeOK
<1>2. /\ \A f \in Files : DOMAIN plan[f] = 1..Len(plan[f]) /\ Len(plan[f]) \in Nat
      /\ \A f \in Files : \A k \in DOMAIN plan[f] : <<f, k>> \in Statements
      /\ \A s \in Statements : s[1] \in Files /\ s[2] \in DOMAIN plan[s[1]] /\ s = <<s[1], s[2]>>
  BY <1>1, Layout
<1>3. This[1] = file /\ This[2] = at.stmt /\ at.stmt \in Nat \ {0}
  BY DEF This, MigrationInv, TypeOK, Position
<1>4. /\ \A s \in Statements :
            /\ s \in {This} => effects'[s] = effects[s] + 1 /\ origin'[s] = text[file]
            /\ s \notin {This} => effects'[s] = effects[s] /\ origin'[s] = origin[s]
            /\ effects[s] \in Nat /\ effects'[s] \in Nat
            /\ effects'[s] >= effects[s]
      /\ \A k \in DOMAIN plan[file] : k > 1 /\ effects'[<<file, k>>] > 0 =>
            \/ <<file, k>> \notin {This} /\ progress[file] = NoRow
            \/ origin'[<<file, k>>] = text[file]
      /\ \A s \in Statements, g \in Files : effects'[s] > 0 /\ g < s[1] => g \in applied
      /\ OneText'
  <2> HIDE DEF This
  <2>1. {This} \in SUBSET Statements /\ \A s \in {This} : s[1] = file
    BY <1>1, <1>3
  <2>2. QED
    BY <2>1, TookEffect
<1>5. Statements' = Statements /\ Files' = Files
  BY DEF Statements, Files
<1>6. \A s \in Statements \ {This} : (Done(s) => Done(s)') /\ KindOf(s)' = KindOf(s)
  BY <1>4 DEF Done, KindOf
<1>7. FilesInOrder'
  <2>1. ASSUME NEW s \in Statements, s[1] \in applied PROVE Done(s)'
    <3>1. s # This
      BY <1>1, <1>3, <2>1
    <3>2. QED
      BY <1>6, <2>1, <3>1 DEF MigrationInv, DbInv, FilesInOrder
  <2>2. QED
    BY <1>4, <1>5, <2>1 DEF MigrationInv, DbInv, FilesInOrder
<1>8. \A f \in Files : progress'[f] = progress[f] /\ Recorded(f)' = Recorded(f)
  BY DEF Recorded, Start1
<1>9. RowTells(file)'
  <2>1. Recorded(file) = at /\ ~Recorded(file).waiting
    BY DEF AtRecord
  <2>2. ASSUME NEW k \in DOMAIN plan[file]
        PROVE  /\ k < at.stmt => Done(<<file, k>>)'
               /\ k > at.stmt => effects'[<<file, k>>] = 0
               /\ k = at.stmt => KindOf(<<file, k>>) # "dml"
               /\ progress[file] # NoRow /\ k > 1 /\ effects'[<<file, k>>] > 0 =>
                     origin'[<<file, k>>] = text[file]
    <3>1. <<file, k>> \in Statements /\ k \in Nat
      BY <1>1, <1>2
    <3>2. k # at.stmt => <<file, k>> # This
      BY <1>3
    <3>3. k = at.stmt => KindOf(<<file, k>>) # "dml"
      BY DEF This
    <3>4. k < at.stmt => Done(<<file, k>>) /\ <<file, k>> # This
      BY <1>1, <1>3, <2>1, <3>1, <3>2 DEF RowTells
    <3>5. k < at.stmt => Done(<<file, k>>)'
      BY <1>6, <3>1, <3>4
    <3>6. k > at.stmt => effects'[<<file, k>>] = 0
      BY <1>1, <1>3, <1>4, <2>1, <3>1, <3>2 DEF RowTells
    <3>7. QED
      BY <1>4, <3>3, <3>5, <3>6
  <2>3. QED
    BY <1>1, <1>8, <2>1, <2>2 DEF RowTells, OnFile, KindOf, Done
<1>10. ASSUME NEW f \in Files, f \notin applied, f # file
       PROVE  RowTells(f)'
  <2>1. RowTells(f)
    BY <1>10 DEF MigrationInv, DbInv, RowsTell
  <2>2. \A k \in DOMAIN plan[f] : <<f, k>> \in Statements \ {This}
    BY <1>2, <1>3, <1>10
  <2>3. \A k \in DOMAIN plan[f] :
           effects'[<<f, k>>] = effects[<<f, k>>] /\ origin'[<<f, k>>] = origin[<<f, k>>]
           /\ catalog'[<<f, k>>] = catalog[<<f, k>>]
    BY <1>4, <2>2
  <2>4. Recorded(f).waiting => Recorded(f).stmt \in DOMAIN plan[f]
    BY <1>2, <1>10, <2>1, PositionTypes DEF RowTells, MigrationInv, Position
  <2>5. Recorded(f).waiting => Started(<<f, Recorded(f).stmt>>, Recorded(f).job)'
    <3>1. SUFFICES ASSUME Recorded(f).waiting
                   PROVE  Started(<<f, Recorded(f).stmt>>, Recorded(f).job)'
      OBVIOUS
    <3> DEFINE s == <<f, Recorded(f).stmt>>
    <3>2. Started(s, Recorded(f).job)
      BY <2>1, <3>1 DEF RowTells
    <3>3. s # This /\ effects'[s] = effects[s] /\ catalog'[s] = catalog[s]
      BY <2>2, <2>3, <2>4, <3>1
    <3>4. Recorded(f)' = Recorded(f)
      BY <1>8, <1>10
    <3>5. QED
      BY <3>2, <3>3, <3>4 DEF Started, Linked, KindOf
  <2>6. QED
    BY <1>8, <1>10, <2>1, <2>3, <2>5 DEF RowTells, Done, KindOf
<1>11. RowsTell'
  BY <1>5, <1>9, <1>10 DEF RowsTell
<1>12. DmlOnce'
  BY <1>4, <1>5, <1>6 DEF MigrationInv, DbInv, DmlOnce, KindOf
<1>13. OnFile'
  BY OnFileKept
<1>14. QED
  BY <1>4, <1>7, <1>11, <1>12, <1>13

\* A statement that runs alone.
LEMMA RunDdlKeeps ==
    ASSUME MigrationInv, RunDdl
    PROVE  MigrationInv'
<1>1. /\ OnFile /\ ~at.waiting /\ at.stmt <= Len(plan[file])
      /\ This \in Statements /\ KindOf(This) = "ddl" /\ pc = "step"
  BY StepAtStatement DEF RunDdl
<1>2. AtRecord
  BY <1>1 DEF MigrationInv, RunInv, InBatch
<1>3. /\ Took({This}) /\ SaveAs(NextStatement)
      /\ UNCHANGED <<plan, text, applied, progress, catalog, jobs, file, batch, setbacks>>
      /\ pc' = "saving" /\ at' = NextStatement /\ ~resumed'
  BY DEF RunDdl, SaveAs
<1>4. FilesInOrder' /\ RowsTell' /\ DmlOnce' /\ OneText' /\ OnFile'
  <2>1. Len(jobs) \in Nat
    BY JobTypes DEF MigrationInv
  <2>2. QED
    BY <1>1, <1>2, <1>3, <2>1, AloneKeeps
<1>5. {This} \in SUBSET Statements /\ \A s \in {This} : s[1] = file
  BY <1>1 DEF This
<1>6. /\ \A s \in Statements : effects[s] \in Nat /\ effects'[s] \in Nat /\ effects'[s] >= effects[s]
      /\ effects'[This] = effects[This] + 1
      /\ effects' \in [Statements -> Nat] /\ origin' \in [Statements -> 0..MAX_TEXT]
  <2> HIDE DEF This
  <2>1. QED
    BY <1>1, <1>3, <1>5, TookEffect
<1>7. Statements' = Statements /\ Files' = Files
  BY <1>3 DEF Statements, Files
<1>8. TypeOK'
  <2>1. NextStatement \in Position
    BY PositionTypes DEF MigrationInv
  <2>2. resumed' \in BOOLEAN
    BY DEF RunDdl, SaveAs
  <2>3. QED
    BY <1>3, <1>6, <1>7, <2>1, <2>2 DEF MigrationInv, TypeOK, Place
<1>9. JobsTell' /\ CatalogTells'
  <2>1. \A j \in DOMAIN jobs : jobs[j].of \in Statements
    BY JobTypes DEF MigrationInv
  <2>2. \A j \in DOMAIN jobs : effects'[jobs[j].of] > 0
    BY <1>6, <2>1 DEF MigrationInv, DbInv, JobsTell
  <2>3. \A s \in Statements : effects'[s] = 0 => effects[s] = 0
    BY <1>6
  <2>4. QED
    BY <1>3, <1>7, <2>2, <2>3 DEF MigrationInv, DbInv, JobsTell, CatalogTells, KindOf
<1>10. OneAhead'
  <2>1. Recorded(file)' = at
    BY <1>2, <1>3 DEF AtRecord, Recorded, Start1
  <2>2. effects'[This] > 0
    BY <1>1, <1>6
  <2>3. Done(<<file, Recorded(file).stmt>>)'
    BY <1>1, <1>3, <2>1, <2>2 DEF Done, KindOf, This, Async
  <2>4. QED
    BY <1>1, <1>2, <1>3, <2>1, <2>3 DEF OneAhead, AtRecord, NextStatement
<1>11. RunInv'
  BY <1>3, <1>4, <1>10 DEF RunInv, Active
<1>12. QED
  BY <1>4, <1>8, <1>9, <1>11 DEF MigrationInv, DbInv

\* A statement starts a job.
LEMMA IssueKeeps ==
    ASSUME MigrationInv, Issue
    PROVE  MigrationInv'
<1> DEFINE n == Len(jobs) + 1
<1>1. OnFile /\ AtAsync
  BY DEF Issue, MigrationInv, RunInv, Active
<1>2. AtRecord /\ ~at.waiting /\ at.stmt <= Len(plan[file]) /\ KindOf(This) \in Async
  BY <1>1 DEF AtAsync
<1>3. This \in Statements
  BY <1>1, <1>2, ThisStatement DEF MigrationInv
<1>4. /\ Took({This}) /\ Accepts(This)
      /\ jobs' = Append(jobs, [of |-> This, status |-> "running"])
      /\ catalog' = [catalog EXCEPT ![This] = IF @ = "missing" THEN "invalid" ELSE @]
      /\ UNCHANGED <<plan, text, applied, progress, file, batch, setbacks>>
      /\ pc' = "saving" /\ at' = WaitFor(n) /\ ~resumed' /\ resumed' \in BOOLEAN
  BY DEF Issue, SaveAs
<1>5. /\ DOMAIN jobs = 1..Len(jobs) /\ Len(jobs) \in Nat
      /\ \A j \in DOMAIN jobs :
            jobs[j].of \in Statements /\ jobs[j].status \in JobStatus /\ j \in Nat \ {0}
  BY JobTypes DEF MigrationInv
<1>6. /\ Len(jobs') = n /\ DOMAIN jobs' = 1..n
      /\ \A j \in DOMAIN jobs : jobs'[j] = jobs[j]
      /\ jobs'[n] = [of |-> This, status |-> "running"]
      /\ jobs' \in Seq([of : Statements, status : JobStatus])
  <2>1. jobs \in Seq([of : Statements, status : JobStatus])
    BY DEF MigrationInv, TypeOK
  <2>2. [of |-> This, status |-> "running"] \in [of : Statements, status : JobStatus]
    BY <1>3 DEF JobStatus
  <2> HIDE DEF This
  <2>3. QED
    BY <1>4, <1>5, <2>1, <2>2
<1>7. \A j \in DOMAIN jobs' \ DOMAIN jobs : j = n
  BY <1>5, <1>6
<1>8. /\ \A s \in Statements \ {This} : catalog'[s] = catalog[s]
      /\ catalog'[This] = IF catalog[This] = "missing" THEN "invalid" ELSE catalog[This]
      /\ catalog' \in [Statements -> {"missing", "invalid", "valid"}]
  <2> HIDE DEF This
  <2>1. QED
    BY <1>3, <1>4 DEF MigrationInv, TypeOK
<1>9. {This} \in SUBSET Statements /\ \A s \in {This} : s[1] = file
  BY <1>3 DEF This
<1>10. /\ \A s \in Statements : effects[s] \in Nat /\ effects'[s] \in Nat /\ effects'[s] >= effects[s]
       /\ effects'[This] = effects[This] + 1
       /\ effects' \in [Statements -> Nat] /\ origin' \in [Statements -> 0..MAX_TEXT]
  <2> HIDE DEF This
  <2>1. QED
    BY <1>1, <1>3, <1>4, <1>9, TookEffect
<1>11. effects'[This] > 0
  BY <1>3, <1>10
<1>12. Statements' = Statements /\ Files' = Files
  BY <1>4 DEF Statements, Files
<1>13. TypeOK'
  <2>1. n \in Nat
    BY <1>5
  <2>2. at' \in Position
    BY <1>4, <2>1, PositionTypes DEF MigrationInv
  <2>3. QED
    BY <1>4, <1>6, <1>8, <1>10, <1>12, <2>2 DEF MigrationInv, TypeOK, Place
<1>14. FilesInOrder' /\ RowsTell' /\ DmlOnce' /\ OneText' /\ OnFile'
  <2>1. KindOf(This) # "dml"
    BY <1>2 DEF Async
  <2>2. catalog'[This] = catalog[This] \/ catalog[This] = "missing"
    BY <1>8
  <2>3. \A j \in DOMAIN jobs' \ DOMAIN jobs : jobs'[j].of = This
    BY <1>6, <1>7
  <2>4. Len(jobs') \in Nat /\ DOMAIN jobs \subseteq DOMAIN jobs'
    BY <1>5, <1>6
  <2>5. QED
    BY <1>1, <1>2, <1>4, <1>6, <1>8, <2>1, <2>2, <2>3, <2>4, AloneKeeps
<1>15. KindOf(This) = "index" =>
         \A j \in DOMAIN jobs : jobs[j].of = This => jobs[j].status # "running"
  BY <1>4 DEF Accepts, MigrationInv, DbInv, JobsTell
<1>16. JobsTell'
  <2>1. ASSUME NEW j \in DOMAIN jobs' PROVE effects'[jobs'[j].of] > 0
    <3>1. CASE j \in DOMAIN jobs
      BY <1>5, <1>6, <1>10, <3>1 DEF MigrationInv, DbInv, JobsTell
    <3>2. CASE j \notin DOMAIN jobs
      BY <1>6, <1>7, <1>11, <3>2
    <3>3. QED
      BY <3>1, <3>2
  <2>2. ASSUME NEW j \in DOMAIN jobs', jobs'[j].status = "running", KindOf(jobs'[j].of) = "index"
        PROVE  /\ catalog'[jobs'[j].of] = "invalid"
               /\ \A i \in DOMAIN jobs' :
                     jobs'[i].status = "running" /\ jobs'[i].of = jobs'[j].of => i = j
    <3>1. CASE j \in DOMAIN jobs
      <4>1. jobs'[j] = jobs[j] /\ jobs[j].of # This
        BY <1>6, <1>15, <2>2, <3>1
      <4>2. catalog'[jobs[j].of] = catalog[jobs[j].of]
        BY <1>5, <1>8, <3>1, <4>1
      <4>3. catalog[jobs[j].of] = "invalid"
        BY <2>2, <3>1, <4>1 DEF MigrationInv, DbInv, JobsTell
      <4>4. ASSUME NEW i \in DOMAIN jobs', jobs'[i].status = "running", jobs'[i].of = jobs'[j].of
            PROVE  i = j
        <5>1. i \in DOMAIN jobs
          BY <1>6, <1>7, <4>1, <4>4
        <5>2. QED
          BY <1>6, <2>2, <3>1, <4>1, <4>4, <5>1 DEF MigrationInv, DbInv, JobsTell
      <4>5. QED
        BY <4>1, <4>2, <4>3, <4>4
    <3>2. CASE j \notin DOMAIN jobs
      <4>1. j = n /\ jobs'[j].of = This
        BY <1>6, <1>7, <3>2
      <4>2. catalog'[This] = "invalid"
        BY <1>4, <1>8, <2>2, <4>1 DEF Accepts
      <4>3. ASSUME NEW i \in DOMAIN jobs', jobs'[i].status = "running", jobs'[i].of = jobs'[j].of
            PROVE  i = j
        <5>1. i \notin DOMAIN jobs
          BY <1>6, <1>15, <2>2, <4>1, <4>3
        <5>2. QED
          BY <1>7, <4>1, <5>1
      <4>4. QED
        BY <4>1, <4>2, <4>3
    <3>3. QED
      BY <3>1, <3>2
  <2>3. \A s \in Statements : KindOf(s)' = KindOf(s)
    BY <1>4 DEF KindOf
  <2>4. QED
    BY <1>4, <2>1, <2>2 DEF JobsTell, KindOf
<1>17. CatalogTells'
  <2>1. ASSUME NEW s \in Statements
        PROVE  /\ effects'[s] = 0 => catalog'[s] # "valid"
               /\ KindOf(s) = "index" /\ effects'[s] = 0 => catalog'[s] = "missing"
               /\ KindOf(s) = "validate" => catalog'[s] # "missing"
    <3>1. CASE s = This
      BY <1>8, <1>11, <3>1
    <3>2. CASE s # This
      <4>1. effects'[s] = 0 => effects[s] = 0
        BY <1>10
      <4>2. QED
        BY <1>8, <3>2, <4>1 DEF MigrationInv, DbInv, CatalogTells
    <3>3. QED
      BY <3>1, <3>2
  <2>2. QED
    BY <1>4, <1>12, <2>1 DEF CatalogTells, KindOf
<1>18. OneAhead'
  <2>1. Recorded(file)' = at
    BY <1>2, <1>4 DEF AtRecord, Recorded, Start1
  <2>2. at'.stmt = at.stmt /\ at'.waiting /\ at'.job = n /\ This' = This
    BY <1>4 DEF WaitFor, This
  <2>3. n # 0 /\ n \in DOMAIN jobs' /\ jobs'[n].of = This /\ jobs'[n].status = "running"
    BY <1>5, <1>6
  <2>4. KindOf(This) = "index" =>
           \A i \in DOMAIN jobs' : jobs'[i].of = This /\ jobs'[i].status = "running" => i = n
    BY <1>6, <1>7, <1>15
  <2>5. KindOf(This)' = KindOf(This)
    BY <1>4, <2>2 DEF KindOf
  <2>6. Linked(This, at.job)'
    BY <2>2, <2>3, <2>4, <2>5 DEF Linked
  <2>7. Started(This, at.job)'
    BY <1>2, <1>11, <2>2, <2>5, <2>6 DEF Started
  <2>8. QED
    BY <1>2, <1>4, <2>1, <2>2, <2>7 DEF OneAhead, AtRecord
<1>19. RunInv'
  BY <1>4, <1>14, <1>18 DEF RunInv, Active
<1>20. QED
  BY <1>13, <1>14, <1>16, <1>17, <1>19 DEF MigrationInv, DbInv

\* The index of the statement at the record is dropped, and no job that builds it runs.
DroppedIndex ==
    /\ AtRecord /\ This \in Statements /\ KindOf(This) = "index" /\ Unbuilt
    /\ at.waiting => at.job # 0 /\ jobs[at.job].status # "completed"
    /\ catalog' = [catalog EXCEPT ![This] = "missing"]
    /\ UNCHANGED <<plan, text, applied, progress, jobs, effects, origin, file, at>>

\* Removing an index nothing builds leaves the tables telling the truth.
LEMMA DroppedKeeps ==
    ASSUME MigrationInv, OnFile, DroppedIndex
    PROVE  /\ DbInv'
           /\ catalog' \in [Statements -> {"missing", "invalid", "valid"}]
           /\ catalog'[This] = "missing"
<1>1. This \in Statements /\ RowTells(file) /\ file \in Files /\ file \notin applied /\ plan \in Plans
  BY DEF DroppedIndex, MigrationInv, OnFile, DbInv, RowsTell, TypeOK
<1>2. /\ \A f \in Files : DOMAIN plan[f] = 1..Len(plan[f]) /\ Len(plan[f]) \in Nat
      /\ \A f \in Files : \A k \in DOMAIN plan[f] : <<f, k>> \in Statements
      /\ \A s \in Statements : s[1] \in Files /\ s[2] \in DOMAIN plan[s[1]] /\ s = <<s[1], s[2]>>
  BY <1>1, Layout
<1>3. This[1] = file /\ This[2] = at.stmt /\ at.stmt \in Nat \ {0}
  BY DEF This, MigrationInv, TypeOK, Position
<1>4. /\ \A s \in Statements \ {This} : catalog'[s] = catalog[s]
      /\ catalog'[This] = "missing"
      /\ catalog' \in [Statements -> {"missing", "invalid", "valid"}]
  <2> HIDE DEF This
  <2>1. QED
    BY <1>1 DEF DroppedIndex, MigrationInv, TypeOK
<1>5. /\ Statements' = Statements /\ Files' = Files
      /\ \A s \in Statements : KindOf(s)' = KindOf(s)
      /\ \A s \in Statements \ {This} : Done(s) => Done(s)'
      /\ \A f \in Files : progress'[f] = progress[f] /\ Recorded(f)' = Recorded(f)
  BY <1>4 DEF DroppedIndex, Statements, Files, KindOf, Done, Recorded, Start1
<1>6. FilesInOrder'
  <2>1. \A s \in Statements : s[1] \in applied => s # This
    BY <1>1, <1>3
  <2>2. QED
    BY <1>5, <2>1 DEF DroppedIndex, MigrationInv, DbInv, FilesInOrder
<1>7. ASSUME NEW f \in Files, f \notin applied
      PROVE  RowTells(f)'
  <2>1. RowTells(f)
    BY <1>7 DEF MigrationInv, DbInv, RowsTell
  <2>2. ASSUME NEW k \in DOMAIN plan[f], k < Recorded(f).stmt PROVE Done(<<f, k>>)'
    <3>1. <<f, k>> \in Statements /\ <<f, k>>[1] = f /\ <<f, k>>[2] = k /\ k \in Nat
      BY <1>2
    <3>2. Recorded(file).stmt = at.stmt
      BY DEF DroppedIndex, AtRecord
    <3>3. <<f, k>> # This
      BY <1>3, <2>2, <3>1, <3>2
    <3>4. QED
      BY <1>5, <2>1, <2>2, <3>1, <3>3 DEF RowTells
  <2>3. ASSUME Recorded(f).waiting
        PROVE  Started(<<f, Recorded(f).stmt>>, Recorded(f).job)'
    <3> DEFINE s == <<f, Recorded(f).stmt>>
    <3>1. Recorded(f).stmt \in DOMAIN plan[f]
      BY <1>2, <2>1, <2>3, PositionTypes DEF RowTells, MigrationInv, Position
    <3>2. s \in Statements /\ s[1] = f /\ s[2] = Recorded(f).stmt
      BY <1>2, <3>1
    <3>3. Started(s, Recorded(f).job)
      BY <2>1, <2>3 DEF RowTells
    <3>4. CASE s # This
      <4>1. catalog'[s] = catalog[s]
        BY <1>4, <3>2, <3>4
      <4>2. QED
        BY <1>5, <3>3, <4>1 DEF DroppedIndex, Started, Linked, KindOf
    <3>5. CASE s = This
      <4>1. f = file /\ Recorded(f).job = at.job /\ at.waiting
        BY <1>3, <2>3, <3>2, <3>5 DEF DroppedIndex, AtRecord
      <4>2. at.job # 0 /\ jobs[at.job].status # "completed"
        BY <4>1 DEF DroppedIndex
      <4>3. QED
        BY <1>5, <3>3, <4>1, <4>2 DEF DroppedIndex, Started, Linked, KindOf
    <3>6. QED
      BY <3>4, <3>5
  <2>4. QED
    BY <1>5, <1>7, <2>1, <2>2, <2>3 DEF DroppedIndex, RowTells, KindOf
<1>8. RowsTell'
  BY <1>5, <1>7 DEF DroppedIndex, RowsTell
<1>9. JobsTell'
  <2>1. \A j \in DOMAIN jobs : jobs[j].of \in Statements
    BY JobTypes DEF MigrationInv
  <2>2. \A j \in DOMAIN jobs : jobs[j].status = "running" => catalog'[jobs[j].of] = catalog[jobs[j].of]
    BY <1>4, <2>1 DEF DroppedIndex, Unbuilt
  <2>3. QED
    BY <1>5, <2>1, <2>2 DEF DroppedIndex, MigrationInv, DbInv, JobsTell, KindOf
<1>10. CatalogTells'
  BY <1>4, <1>5 DEF DroppedIndex, MigrationInv, DbInv, CatalogTells, KindOf
<1>11. DmlOnce' /\ OneText'
  BY <1>5 DEF DroppedIndex, MigrationInv, DbInv, DmlOnce, OneText, KindOf
<1>12. QED
  BY <1>4, <1>6, <1>8, <1>9, <1>10, <1>11 DEF DbInv

\* An index that no job builds is dropped before its statement is sent again.
LEMMA DropIndexKeeps ==
    ASSUME MigrationInv, DropIndex
    PROVE  MigrationInv'
<1>1. OnFile /\ AtAsync /\ KindOf(This) = "index" /\ Unbuilt
  BY DEF DropIndex, MigrationInv, RunInv, Active
<1>2. AtRecord /\ ~at.waiting /\ at.stmt <= Len(plan[file])
  BY <1>1 DEF AtAsync
<1>3. This \in Statements
  BY <1>1, <1>2, ThisStatement DEF MigrationInv
<1>4. /\ catalog' = [catalog EXCEPT ![This] = "missing"]
      /\ UNCHANGED <<plan, text, applied, progress, jobs, effects, origin, setbacks>>
      /\ pc' = "issuing" /\ UNCHANGED <<file, at, resumed, batch>>
  BY DEF DropIndex, Goto
<1>5. DroppedIndex
  BY <1>1, <1>2, <1>3, <1>4 DEF DroppedIndex, AtRecord, Unbuilt
<1>6. DbInv' /\ catalog' \in [Statements -> {"missing", "invalid", "valid"}] /\ catalog'[This] = "missing"
  BY <1>1, <1>5, DroppedKeeps
<1>7. TypeOK'
  <2>1. Statements' = Statements /\ Files' = Files
    BY <1>4 DEF Statements, Files
  <2>2. QED
    BY <1>4, <1>6, <2>1 DEF MigrationInv, TypeOK, Place
<1>8. OnFile'
  BY <1>1, <1>4, OnFileKept
<1>9. AtAsync'
  BY <1>1, <1>4 DEF AtAsync, AtRecord, Recorded, Start1, This, KindOf
<1>10. Sendable'
  BY <1>1, <1>4, <1>6 DEF Sendable, Unbuilt, Accepts, This, KindOf
<1>11. RunInv'
  BY <1>4, <1>8, <1>9, <1>10 DEF RunInv, Active
<1>12. QED
  BY <1>6, <1>7, <1>11 DEF MigrationInv

\* What a failed build left is dropped.
LEMMA RemoveKeeps ==
    ASSUME MigrationInv, Remove
    PROVE  MigrationInv'
<1>1. OnFile /\ AtRecord /\ at.waiting /\ This \in Statements /\ Started(This, at.job)
  BY StepAtWait DEF Remove
<1>2. AtEndedJob({"failed", "purged"})
  BY DEF Remove, MigrationInv, RunInv
<1>3. /\ UNCHANGED <<plan, text, applied, progress, jobs, effects, origin, setbacks>>
      /\ pc' = "rewinding" /\ UNCHANGED <<file, at, resumed, batch>>
  BY DEF Remove, Goto
<1>4. DbInv' /\ catalog' \in [Statements -> {"missing", "invalid", "valid"}]
  <2>1. CASE catalog' = catalog
    <3>1. DbInv'
      BY <1>3, <2>1, DbKept DEF MigrationInv
    <3>2. QED
      BY <2>1, <3>1 DEF MigrationInv, TypeOK
  <2>2. CASE KindOf(This) = "index" /\ catalog' = [catalog EXCEPT ![This] = "missing"]
    <3>1. at.job # 0 /\ jobs[at.job].status \notin {"running", "completed"}
      BY <1>2 DEF AtEndedJob
    <3>2. Unbuilt
      BY <1>1, <2>2, <3>1 DEF Started, Linked, Unbuilt
    <3>3. DroppedIndex
      BY <1>1, <1>3, <2>2, <3>1, <3>2 DEF DroppedIndex
    <3>4. QED
      BY <1>1, <3>3, DroppedKeeps
  <2>3. QED
    BY <2>1, <2>2 DEF Remove
<1>5. TypeOK'
  <2>1. Statements' = Statements /\ Files' = Files
    BY <1>3 DEF Statements, Files
  <2>2. QED
    BY <1>3, <1>4, <2>1 DEF MigrationInv, TypeOK, Place
<1>6. OnFile'
  BY <1>1, <1>3, OnFileKept
<1>7. AtEndedJob({"failed", "purged"})'
  BY <1>2, <1>3 DEF AtEndedJob, AtRecord, Recorded, Start1
<1>8. RunInv'
  BY <1>3, <1>6, <1>7 DEF RunInv, Active
<1>9. QED
  BY <1>4, <1>5, <1>8 DEF MigrationInv

\* A new record of the file tells of no other.
LEMMA RecordKeeps ==
    ASSUME MigrationInv, NEW v, progress' = [progress EXCEPT ![file] = v],
           applied \subseteq applied', FilesInOrder',
           file \in applied' \/ RowTells(file)',
           UNCHANGED <<plan, catalog, jobs, effects, origin, file>>
    PROVE  DbInv'
<1>1. \A f \in Files \ {file} : progress'[f] = progress[f] /\ Recorded(f)' = Recorded(f)
  BY OtherRecords DEF MigrationInv
<1>2. ASSUME NEW f \in Files, f \notin applied', f # file
      PROVE  RowTells(f)'
  <2>1. RowTells(f)
    BY <1>2 DEF MigrationInv, DbInv, RowsTell
  <2>2. QED
    BY <1>1, <1>2, <2>1 DEF RowTells, Started, Linked, Done, KindOf
<1>3. RowsTell'
  <2>1. Files' = Files
    BY DEF Files
  <2>2. ASSUME NEW f \in Files, f \notin applied' PROVE RowTells(f)'
    <3>1. CASE f = file
      BY <2>2, <3>1
    <3>2. CASE f # file
      BY <1>2, <2>2, <3>2
    <3>3. QED
      BY <3>1, <3>2
  <2>3. QED
    BY <2>1, <2>2 DEF RowsTell
<1>4. JobsTell' /\ CatalogTells' /\ DmlOnce' /\ OneText'
  BY DEF MigrationInv, DbInv, JobsTell, CatalogTells, DmlOnce, OneText, KindOf, Statements, Files
<1>5. QED
  BY <1>3, <1>4 DEF DbInv

\* The order of files does not depend on the progress rows.
LEMMA FilesKept ==
    ASSUME FilesInOrder, UNCHANGED <<plan, applied, catalog, effects>>
    PROVE  FilesInOrder'
BY DEF FilesInOrder, Done, KindOf, Statements, Files

\* The record catches up with the run.
LEMMA SaveTells ==
    ASSUME MigrationInv, Save
    PROVE  /\ Recorded(file)' = at /\ OnFile' /\ RowTells(file)' /\ FreshOrFirst'
           /\ progress' \in [Files -> Row \cup {NoRow}] /\ batch = {}
<1> DEFINE r == Recorded(file).stmt
<1>1. OnFile /\ OneAhead
  BY DEF Save, MigrationInv, RunInv, Active
<1>2. /\ file \in Files /\ RowTells(file) /\ plan \in Plans /\ r \in Nat \ {0}
      /\ at.stmt \in Nat \ {0} /\ at \in Position
  BY <1>1, PositionTypes DEF MigrationInv, TypeOK, Position, OnFile, DbInv, RowsTell
<1>3. /\ DOMAIN plan[file] = 1..Len(plan[file]) /\ Len(plan[file]) \in Nat /\ r <= Len(plan[file])
      /\ \A k \in DOMAIN plan[file] : effects[<<file, k>>] \in Nat
  BY <1>1, <1>2, Layout DEF OneAhead, MigrationInv, TypeOK
<1>4. /\ progress' = [progress EXCEPT ![file] = RowAt(at)]
      /\ UNCHANGED <<plan, text, applied, catalog, jobs, effects, origin, file, at, resumed, batch>>
  BY DEF Save, Goto
<1>5. /\ Recorded(file)' = at /\ progress'[file] # NoRow /\ progress'[file].text = text[file]
      /\ progress' \in [Files -> Row \cup {NoRow}]
  BY <1>1, <1>2, <1>4, SavedRecord DEF MigrationInv
<1>6. OnFile'
  BY <1>1, <1>4, <1>5 DEF OnFile, Files
<1>7. ASSUME NEW k \in DOMAIN plan[file], k > 1, effects[<<file, k>>] > 0
      PROVE  origin[<<file, k>>] = text[file]
  <2>1. CASE progress[file] = NoRow
    <3>1. r = 1
      BY <2>1 DEF Recorded, Start1
    <3>2. QED
      BY <1>2, <1>3, <1>7, <3>1 DEF RowTells
  <2>2. CASE progress[file] # NoRow
    BY <1>1, <1>2, <1>7, <2>2 DEF RowTells, OnFile
  <2>3. QED
    BY <2>1, <2>2
<1>8. CASE at = [stmt |-> r + 1, waiting |-> FALSE, job |-> 0] /\ Done(<<file, r>>)
  <2>1. at.stmt = r + 1 /\ ~at.waiting
    BY <1>8
  <2>2. ASSUME NEW k \in DOMAIN plan[file]
        PROVE  /\ k < r + 1 => Done(<<file, k>>)
               /\ k > r => effects[<<file, k>>] = 0
    <3>1. k < r \/ k = r \/ k > r
      BY <1>2, <1>3
    <3>2. k > r => ~(k < r + 1)
      BY <1>2, <1>3
    <3>3. QED
      BY <1>2, <1>8, <3>1, <3>2 DEF RowTells
  <2>3. r + 1 > r /\ r + 1 <= Len(plan[file]) + 1
    BY <1>2, <1>3
  <2>4. \A k \in DOMAIN plan[file] : k > r + 1 \/ k = r + 1 => k > r
    BY <1>2, <1>3
  <2>5. RowTells(file)'
    BY <1>4, <1>5, <1>7, <2>1, <2>2, <2>3, <2>4 DEF RowTells, Done, KindOf
  <2>6. FreshOrFirst'
    <3>1. SUFFICES ASSUME r + 1 <= Len(plan[file]) PROVE effects[<<file, r + 1>>] = 0
      BY <1>4, <2>1 DEF FreshOrFirst, This
    <3>2. r + 1 \in DOMAIN plan[file]
      BY <1>2, <1>3, <3>1
    <3>3. QED
      BY <2>2, <2>3, <3>2
  <2>7. QED
    BY <1>1, <1>4, <1>5, <1>6, <2>5, <2>6 DEF OneAhead
<1>9. CASE at.stmt = r /\ at.waiting /\ Started(This, at.job)
  <2>1. Started(<<file, r>>, at.job) /\ KindOf(<<file, r>>) # "dml"
    BY <1>9 DEF Started, Async, This
  <2>2. r <= Len(plan[file]) + 1
    BY <1>2, <1>3
  <2>3. RowTells(file)'
    BY <1>2, <1>3, <1>4, <1>5, <1>7, <1>9, <2>1, <2>2 DEF RowTells, Done, KindOf, Started, Linked
  <2>4. FreshOrFirst'
    BY <1>4, <1>9 DEF FreshOrFirst
  <2>5. QED
    BY <1>1, <1>4, <1>5, <1>6, <2>3, <2>4 DEF OneAhead
<1>10. QED
  BY <1>1, <1>8, <1>9 DEF OneAhead

\* recordProgress brings the row up to the run.
LEMMA SaveRecordKeeps ==
    ASSUME MigrationInv, Save
    PROVE  MigrationInv'
<1>1. /\ Recorded(file)' = at /\ OnFile' /\ RowTells(file)' /\ FreshOrFirst'
      /\ progress' \in [Files -> Row \cup {NoRow}] /\ batch = {}
  BY SaveTells
<1>2. /\ progress' = [progress EXCEPT ![file] = RowAt(at)]
      /\ UNCHANGED <<plan, text, applied, catalog, jobs, effects, origin, file, at, resumed, batch, setbacks>>
      /\ pc' = "step"
  BY DEF Save, Goto
<1>3. DbInv'
  <2>1. FilesInOrder'
    BY <1>2, FilesKept DEF MigrationInv, DbInv
  <2>2. QED
    BY <1>1, <1>2, <2>1, RecordKeeps
<1>4. TypeOK'
  <2>1. Statements' = Statements /\ Files' = Files
    BY <1>2 DEF Statements, Files
  <2>2. QED
    BY <1>1, <1>2, <2>1 DEF MigrationInv, TypeOK, Place
<1>5. AtRecord'
  BY <1>1, <1>2 DEF AtRecord
<1>6. RunInv'
  BY <1>1, <1>2, <1>5 DEF RunInv, Active
<1>7. QED
  BY <1>3, <1>4, <1>6 DEF MigrationInv

\* The record goes back to the statement whose job failed.
LEMMA RewindKeeps ==
    ASSUME MigrationInv, Rewind
    PROVE  MigrationInv'
<1> DEFINE p == [stmt |-> at.stmt, waiting |-> FALSE, job |-> 0]
           v == IF at.stmt = 1 THEN NoRow ELSE RowAt(p)
<1>1. OnFile /\ AtRecord /\ at.waiting /\ at.stmt <= Len(plan[file]) /\ Started(This, at.job)
  BY StepAtWait DEF Rewind
<1>2. RowTells(file) /\ file \in Files /\ at.stmt \in Nat \ {0}
  BY <1>1 DEF MigrationInv, TypeOK, Position, OnFile, DbInv, RowsTell
<1>3. /\ progress' = [progress EXCEPT ![file] = v]
      /\ UNCHANGED <<plan, text, applied, catalog, jobs, effects, origin, file, at, resumed, batch, setbacks>>
      /\ pc' = "idle"
  BY DEF Rewind, Goto
<1>4. p \in Position
  BY <1>2 DEF Position
<1>5. /\ Recorded(file)' = p /\ progress' \in [Files -> Row \cup {NoRow}]
      /\ progress'[file] # NoRow => progress[file] # NoRow /\ progress'[file].text = progress[file].text
  <2>1. CASE at.stmt = 1
    <3>1. progress'[file] = NoRow /\ progress' \in [Files -> Row \cup {NoRow}]
      BY <1>2, <1>3, <2>1 DEF MigrationInv, TypeOK
    <3>2. QED
      BY <1>3, <2>1, <3>1 DEF Recorded, Start1
  <2>2. CASE at.stmt # 1
    <3>1. progress' = [progress EXCEPT ![file] = RowAt(p)]
      BY <1>3, <2>2
    <3>2. /\ Recorded(file)' = p /\ progress'[file].text = text[file]
          /\ progress' \in [Files -> Row \cup {NoRow}]
      BY <1>1, <1>3, <1>4, <3>1, SavedRecord DEF MigrationInv
    <3>3. progress[file] # NoRow
      BY <1>1, <2>2 DEF AtRecord, Recorded, Start1
    <3>4. QED
      BY <1>1, <3>2, <3>3 DEF OnFile
  <2>3. QED
    BY <2>1, <2>2
<1>6. RowTells(file)'
  <2>1. KindOf(<<file, at.stmt>>) # "dml"
    BY <1>1 DEF Started, Async, This
  <2>2. p.stmt = Recorded(file).stmt /\ p.stmt = at.stmt /\ ~p.waiting
    BY <1>1 DEF AtRecord
  <2>3. QED
    BY <1>2, <1>3, <1>5, <2>1, <2>2 DEF RowTells, Done, KindOf
<1>7. DbInv'
  <2>1. FilesInOrder'
    BY <1>3, FilesKept DEF MigrationInv, DbInv
  <2>2. QED
    BY <1>3, <1>6, <2>1, RecordKeeps
<1>8. TypeOK'
  <2>1. Statements' = Statements /\ Files' = Files
    BY <1>3 DEF Statements, Files
  <2>2. QED
    BY <1>3, <1>5, <2>1 DEF MigrationInv, TypeOK, Place
<1>9. RunInv'
  BY <1>3 DEF RunInv, Active
<1>10. QED
  BY <1>7, <1>8, <1>9 DEF MigrationInv

\* The file is recorded as applied.
LEMMA FinishKeeps ==
    ASSUME MigrationInv, Finish
    PROVE  MigrationInv'
<1>1. OnFile /\ pc = "step" /\ ~at.waiting /\ Behind(file, at.stmt)
  BY DEF Finish, MigrationInv, RunInv, Active
<1>2. /\ file \in Files /\ RowTells(file) /\ plan \in Plans /\ at.stmt \in Nat
  BY <1>1 DEF MigrationInv, TypeOK, Position, OnFile, DbInv, RowsTell
<1>3. /\ \A f \in Files : DOMAIN plan[f] = 1..Len(plan[f]) /\ Len(plan[f]) \in Nat
      /\ \A s \in Statements : s[1] \in Files /\ s[2] \in DOMAIN plan[s[1]] /\ s = <<s[1], s[2]>>
  BY <1>2, Layout
<1>4. AtRecord
  BY <1>1, <1>2, <1>3 DEF MigrationInv, RunInv, InBatch, Behind
<1>5. /\ progress' = [progress EXCEPT ![file] = NoRow] /\ applied' = applied \cup {file}
      /\ UNCHANGED <<plan, text, catalog, jobs, effects, origin, file, at, resumed, batch, setbacks>>
      /\ pc' = "next"
  BY DEF Finish, Goto
<1>6. \A s \in Statements : s[1] = file => Done(s)
  <2>1. \A k \in DOMAIN plan[file] : k < Recorded(file).stmt
    BY <1>1, <1>2, <1>3, <1>4 DEF AtRecord, Behind
  <2>2. QED
    BY <1>2, <1>3, <2>1 DEF RowTells
<1>7. FilesInOrder'
  <2>1. /\ Statements' = Statements /\ Files' = Files
        /\ \A s \in Statements : Done(s)' = Done(s)
    BY <1>5 DEF Statements, Files, Done, KindOf
  <2>2. \A f \in applied', g \in Files : g < f => g \in applied'
    BY <1>1, <1>5 DEF OnFile, MigrationInv, DbInv, FilesInOrder
  <2>3. \A s \in Statements : s[1] \in applied' => Done(s)
    BY <1>5, <1>6 DEF MigrationInv, DbInv, FilesInOrder
  <2>4. \A s \in Statements, g \in Files : effects[s] > 0 /\ g < s[1] => g \in applied'
    BY <1>5 DEF MigrationInv, DbInv, FilesInOrder
  <2>5. QED
    BY <1>5, <2>1, <2>2, <2>3, <2>4 DEF FilesInOrder
<1>8. DbInv'
  BY <1>5, <1>7, RecordKeeps
<1>9. TypeOK'
  <2>1. Statements' = Statements /\ Files' = Files
    BY <1>5 DEF Statements, Files
  <2>2. progress' \in [Files -> Row \cup {NoRow}] /\ applied' \subseteq Files
    BY <1>2, <1>5 DEF MigrationInv, TypeOK
  <2>3. QED
    BY <1>5, <2>1, <2>2 DEF MigrationInv, TypeOK, Place
<1>10. RunInv'
  BY <1>5 DEF RunInv, Active
<1>11. QED
  BY <1>8, <1>9, <1>10 DEF MigrationInv

-------------------------------------------------------------------------------
(* The database and the author.                                            *)

\* One job is finished or purged; what was valid stays valid.
JobMoves(j) ==
    /\ j \in DOMAIN jobs
    /\ \E status \in JobStatus \ {"running"} :
          /\ jobs' = [jobs EXCEPT ![j].status = status]
          /\ \/ /\ jobs[j].status = "running" /\ status = "completed"
                /\ catalog' = [catalog EXCEPT ![jobs[j].of] = "valid"]
             \/ /\ status = "failed" /\ jobs[j].status = "running" /\ catalog' = catalog
             \/ /\ status = "purged" /\ jobs[j].status # "running" /\ catalog' = catalog
    /\ UNCHANGED <<plan, text, applied, progress, effects, origin, runVars>>

\* What a moving job leaves alone, and what it makes valid.
LEMMA JobMovesEffect ==
    ASSUME MigrationInv, NEW j \in DOMAIN jobs, JobMoves(j)
    PROVE  /\ DOMAIN jobs' = DOMAIN jobs
           /\ \A i \in DOMAIN jobs :
                 /\ jobs'[i].of = jobs[i].of
                 /\ i # j => jobs'[i] = jobs[i]
                 /\ jobs'[i].status = "running" => jobs[i].status = "running" /\ i # j
                 /\ jobs[i].status = "purged" => jobs'[i].status = "purged"
                 /\ jobs[i].status \in {"failed", "purged"} => jobs'[i].status \in {"failed", "purged"}
                 /\ jobs'[i].status = "completed" /\ jobs[i].status # "completed" =>
                       catalog'[jobs[i].of] = "valid"
           /\ \A s \in Statements :
                 /\ catalog[s] = "valid" => catalog'[s] = "valid"
                 /\ catalog'[s] # catalog[s] =>
                       jobs[j].of = s /\ jobs[j].status = "running" /\ catalog'[s] = "valid"
           /\ jobs' \in Seq([of : Statements, status : JobStatus])
           /\ catalog' \in [Statements -> {"missing", "invalid", "valid"}]
<1>1. /\ DOMAIN jobs = 1..Len(jobs) /\ Len(jobs) \in Nat
      /\ \A i \in DOMAIN jobs : jobs[i].of \in Statements /\ jobs[i].status \in JobStatus
      /\ jobs \in Seq([of : Statements, status : JobStatus])
  BY JobTypes DEF MigrationInv, TypeOK
<1>2. catalog \in [Statements -> {"missing", "invalid", "valid"}]
  BY DEF MigrationInv, TypeOK
<1>3. PICK status \in JobStatus \ {"running"} :
         /\ jobs' = [jobs EXCEPT ![j].status = status]
         /\ \/ /\ jobs[j].status = "running" /\ status = "completed"
               /\ catalog' = [catalog EXCEPT ![jobs[j].of] = "valid"]
            \/ /\ status = "failed" /\ jobs[j].status = "running" /\ catalog' = catalog
            \/ /\ status = "purged" /\ jobs[j].status # "running" /\ catalog' = catalog
  BY DEF JobMoves
<1>4. DOMAIN jobs' = DOMAIN jobs
  BY <1>3
<1>5. jobs'[j].status = status /\ jobs'[j].of = jobs[j].of
  BY <1>1, <1>3
<1>6. \A i \in DOMAIN jobs : i # j => jobs'[i] = jobs[i]
  BY <1>3
<1>7. /\ \A s \in Statements :
            /\ catalog[s] = "valid" => catalog'[s] = "valid"
            /\ catalog'[s] # catalog[s] =>
                  jobs[j].of = s /\ jobs[j].status = "running" /\ catalog'[s] = "valid"
      /\ catalog' \in [Statements -> {"missing", "invalid", "valid"}]
      /\ status = "completed" => catalog'[jobs[j].of] = "valid"
  BY <1>1, <1>2, <1>3
<1>8. jobs' \in Seq([of : Statements, status : JobStatus])
  <2>1. \A i \in DOMAIN jobs : jobs'[i] \in [of : Statements, status : JobStatus]
    <3>1. jobs[j] \in [of : Statements, status : JobStatus]
      BY <1>1, SeqElement
    <3>2. jobs'[j] = [jobs[j] EXCEPT !.status = status]
      BY <1>3
    <3>3. jobs'[j] \in [of : Statements, status : JobStatus]
      BY <3>1, <3>2
    <3>4. \A i \in DOMAIN jobs : jobs[i] \in [of : Statements, status : JobStatus]
      BY <1>1, SeqElement
    <3>5. QED
      BY <1>6, <3>3, <3>4
  <2>2. jobs' = [i \in 1..Len(jobs) |-> jobs'[i]]
    BY <1>1, <1>3
  <2>3. QED
    BY <1>1, <2>1, <2>2
<1>9. ASSUME NEW i \in DOMAIN jobs
      PROVE  /\ jobs'[i].of = jobs[i].of
             /\ jobs'[i].status = "running" => jobs[i].status = "running" /\ i # j
             /\ jobs[i].status = "purged" => jobs'[i].status = "purged"
             /\ jobs[i].status \in {"failed", "purged"} => jobs'[i].status \in {"failed", "purged"}
             /\ jobs'[i].status = "completed" /\ jobs[i].status # "completed" =>
                   catalog'[jobs[i].of] = "valid"
  <2>1. CASE i = j
    BY <1>3, <1>5, <1>7, <2>1
  <2>2. CASE i # j
    BY <1>6, <2>2
  <2>3. QED
    BY <2>1, <2>2
<1>10. QED
  BY <1>4, <1>6, <1>7, <1>8, <1>9

\* A job that ends or is purged disturbs neither the tables nor the run.
LEMMA JobMovesKeeps ==
    ASSUME MigrationInv, NEW j \in DOMAIN jobs, JobMoves(j), setbacks' \in 0..MAX_SETBACKS
    PROVE  MigrationInv'
<1>1. /\ DOMAIN jobs' = DOMAIN jobs
      /\ \A i \in DOMAIN jobs :
            /\ jobs'[i].of = jobs[i].of
            /\ i # j => jobs'[i] = jobs[i]
            /\ jobs'[i].status = "running" => jobs[i].status = "running" /\ i # j
            /\ jobs[i].status = "purged" => jobs'[i].status = "purged"
            /\ jobs[i].status \in {"failed", "purged"} => jobs'[i].status \in {"failed", "purged"}
            /\ jobs'[i].status = "completed" /\ jobs[i].status # "completed" =>
                  catalog'[jobs[i].of] = "valid"
      /\ \A s \in Statements :
            /\ catalog[s] = "valid" => catalog'[s] = "valid"
            /\ catalog'[s] # catalog[s] =>
                  jobs[j].of = s /\ jobs[j].status = "running" /\ catalog'[s] = "valid"
      /\ jobs' \in Seq([of : Statements, status : JobStatus])
      /\ catalog' \in [Statements -> {"missing", "invalid", "valid"}]
  BY JobMovesEffect
<1>2. /\ UNCHANGED <<plan, text, applied, progress, effects, origin>>
      /\ UNCHANGED <<pc, file, at, resumed, batch>>
  BY DEF JobMoves, runVars
<1>3. /\ \A f \in Files : DOMAIN plan[f] = 1..Len(plan[f]) /\ Len(plan[f]) \in Nat
      /\ \A f \in Files : \A k \in DOMAIN plan[f] : <<f, k>> \in Statements
      /\ \A s \in Statements : s[1] \in Files /\ s[2] \in DOMAIN plan[s[1]] /\ s = <<s[1], s[2]>>
  BY Layout DEF MigrationInv, TypeOK
<1>4. /\ Statements' = Statements /\ Files' = Files
      /\ \A s \in Statements : KindOf(s)' = KindOf(s) /\ (Done(s) => Done(s)')
      /\ \A f \in Files : Recorded(f)' = Recorded(f)
  BY <1>1, <1>2 DEF Statements, Files, KindOf, Done, Recorded, Start1
<1>5. ASSUME NEW s \in Statements, NEW i, Started(s, i)
      PROVE  KindOf(s) \in Async /\ effects[s] > 0
             /\ (i = 0 => catalog'[s] = "valid")
             /\ (i # 0 => /\ i \in DOMAIN jobs' /\ jobs'[i].of = s
                          /\ jobs'[i].status = "completed" => catalog'[s] = "valid"
                          /\ KindOf(s) = "index" =>
                                \A n \in DOMAIN jobs' :
                                   jobs'[n].of = s /\ jobs'[n].status = "running" => n = i)
  <2>1. KindOf(s) \in Async /\ effects[s] > 0 /\ Linked(s, i)
    BY <1>5 DEF Started
  <2>2. CASE i = 0
    BY <1>1, <2>1, <2>2 DEF Linked
  <2>3. CASE i # 0
    BY <1>1, <2>1, <2>3 DEF Linked
  <2>4. QED
    BY <2>1, <2>2, <2>3
<1>6. FilesInOrder'
  BY <1>2, <1>4 DEF MigrationInv, DbInv, FilesInOrder
<1>7. ASSUME NEW f \in Files, f \notin applied
      PROVE  RowTells(f)'
  <2>1. RowTells(f)
    BY <1>7 DEF MigrationInv, DbInv, RowsTell
  <2>2. \A k \in DOMAIN plan[f] : <<f, k>> \in Statements
    BY <1>3
  <2>3. ASSUME Recorded(f).waiting
        PROVE  Started(<<f, Recorded(f).stmt>>, Recorded(f).job)'
    <3>1. Recorded(f).stmt \in DOMAIN plan[f]
      BY <1>3, <2>1, <2>3, PositionTypes DEF RowTells, MigrationInv, Position
    <3>2. Started(<<f, Recorded(f).stmt>>, Recorded(f).job) /\ <<f, Recorded(f).stmt>> \in Statements
      BY <2>1, <2>2, <2>3, <3>1 DEF RowTells
    <3>3. QED
      BY <1>2, <1>4, <1>5, <3>2 DEF Started, Linked, KindOf
  <2>4. \A k \in DOMAIN plan[f] : k < Recorded(f).stmt => Done(<<f, k>>)'
    BY <1>4, <2>1, <2>2 DEF RowTells
  <2>5. QED
    BY <1>2, <1>4, <1>7, <2>1, <2>3, <2>4 DEF RowTells, KindOf
<1>8. RowsTell'
  BY <1>2, <1>4, <1>7 DEF RowsTell
<1>9. JobsTell'
  <2>1. \A i \in DOMAIN jobs : jobs[i].of \in Statements
    BY JobTypes DEF MigrationInv
  <2>2. ASSUME NEW i \in DOMAIN jobs, jobs'[i].status = "running", KindOf(jobs[i].of) = "index"
        PROVE  catalog'[jobs[i].of] = "invalid"
    <3>1. jobs[i].status = "running" /\ i # j
      BY <1>1, <2>2
    <3>2. catalog[jobs[i].of] = "invalid" /\ ~(jobs[j].status = "running" /\ jobs[j].of = jobs[i].of)
      BY <2>2, <3>1 DEF MigrationInv, DbInv, JobsTell
    <3>3. QED
      BY <1>1, <2>1, <3>2
  <2>3. ASSUME NEW i \in DOMAIN jobs, NEW n \in DOMAIN jobs,
               jobs'[i].status = "running", KindOf(jobs[i].of) = "index",
               jobs'[n].status = "running", jobs'[n].of = jobs'[i].of
        PROVE  n = i
    <3>1. jobs[i].status = "running" /\ jobs[n].status = "running" /\ jobs[n].of = jobs[i].of
      BY <1>1, <2>3
    <3>2. QED
      BY <2>3, <3>1 DEF MigrationInv, DbInv, JobsTell
  <2>4. \A i \in DOMAIN jobs' : jobs'[i].of = jobs[i].of /\ effects'[jobs'[i].of] > 0
    BY <1>1, <1>2 DEF MigrationInv, DbInv, JobsTell
  <2>5. QED
    BY <1>1, <1>2, <2>2, <2>3, <2>4 DEF JobsTell, KindOf
<1>10. CatalogTells'
  <2>1. effects[jobs[j].of] > 0
    BY DEF MigrationInv, DbInv, JobsTell
  <2>2. ASSUME NEW s \in Statements
        PROVE  /\ effects[s] = 0 => catalog'[s] # "valid"
               /\ KindOf(s) = "index" /\ effects[s] = 0 => catalog'[s] = "missing"
               /\ KindOf(s) = "validate" => catalog'[s] # "missing"
    <3>1. CASE catalog'[s] = catalog[s]
      BY <3>1 DEF MigrationInv, DbInv, CatalogTells
    <3>2. CASE catalog'[s] # catalog[s]
      BY <1>1, <2>1, <3>2
    <3>3. QED
      BY <3>1, <3>2
  <2>3. QED
    BY <1>2, <1>4, <2>2 DEF CatalogTells
<1>11. DmlOnce' /\ OneText'
  BY <1>2, <1>4 DEF MigrationInv, DbInv, DmlOnce, OneText
<1>12. TypeOK'
  BY <1>1, <1>2, <1>4 DEF MigrationInv, TypeOK
<1>13. RunInv'
  <2>1. /\ (OnFile => OnFile') /\ AtRecord' = AtRecord /\ FreshOrFirst' = FreshOrFirst
        /\ InBatch' = InBatch /\ BatchDone' = BatchDone
    BY <1>2, <1>4 DEF OnFile, AtRecord, FreshOrFirst, InBatch, BatchDone, BatchTo, Recorded, Start1, This, KindOf
  <2>2. /\ AtAsync' = AtAsync /\ HasTarget(This)' = HasTarget(This) /\ KindOf(This)' = KindOf(This)
        /\ This' = This
    BY <1>2, <2>1 DEF AtAsync, HasTarget, KindOf, This
  <2>3. Unbuilt => Unbuilt'
    BY <1>1, <2>2 DEF Unbuilt
  <2>4. ASSUME pc = "issuing", Sendable, OnFile, AtAsync PROVE Sendable'
    <3>1. This \in Statements
      BY <2>4, ThisStatement DEF AtAsync, MigrationInv
    <3>2. CASE at.stmt > 1 /\ HasTarget(This)
      <4>1. Unbuilt /\ Accepts(This)
        BY <2>4, <3>2 DEF Sendable
      <4>2. catalog'[This] = catalog[This]
        BY <1>1, <3>1, <4>1 DEF Unbuilt
      <4>3. Accepts(This)'
        BY <1>2, <2>2, <4>1, <4>2 DEF Accepts, KindOf
      <4>4. QED
        BY <2>3, <4>1, <4>3 DEF Sendable
    <3>3. CASE ~(at.stmt > 1 /\ HasTarget(This))
      BY <1>2, <2>2, <3>3 DEF Sendable
    <3>4. QED
      BY <3>2, <3>3
  <2>5. ASSUME AtRecord, OnFile, at.waiting, Started(This, at.job)
        PROVE  /\ AtEndedJob({"purged"}) => AtEndedJob({"purged"})'
               /\ AtEndedJob({"failed", "purged"}) => AtEndedJob({"failed", "purged"})'
    <3>1. at.job # 0 => at.job \in DOMAIN jobs
      BY <2>5 DEF Started, Linked
    <3>2. QED
      BY <1>1, <1>2, <2>1, <3>1 DEF AtEndedJob
  <2>6. ASSUME OneAhead, OnFile PROVE OneAhead'
    <3>1. file \in Files /\ Recorded(file)' = Recorded(file) /\ Recorded(file).stmt \in Nat \ {0}
      BY <1>2, <1>4, <2>6, PositionTypes DEF OnFile, MigrationInv, Position
    <3>2. <<file, Recorded(file).stmt>> \in Statements
      BY <1>3, <2>6, <3>1 DEF OneAhead
    <3>3. CASE at = [stmt |-> Recorded(file).stmt + 1, waiting |-> FALSE, job |-> 0]
               /\ Done(<<file, Recorded(file).stmt>>)
      <4>1. Done(<<file, Recorded(file).stmt>>)'
        BY <1>1, <1>2, <3>1, <3>2, <3>3 DEF Done, KindOf
      <4>2. QED
        BY <1>2, <2>6, <3>1, <3>3, <4>1 DEF OneAhead
    <3>4. CASE at.stmt = Recorded(file).stmt /\ at.waiting /\ ~Recorded(file).waiting
               /\ Started(This, at.job)
      <4>1. This \in Statements
        BY <3>2, <3>4 DEF This
      <4>2. Started(This, at.job)'
        BY <1>2, <1>5, <2>2, <3>4, <4>1 DEF Started, Linked
      <4>3. QED
        BY <1>2, <2>6, <3>1, <3>4, <4>2 DEF OneAhead
    <3>5. QED
      BY <2>6, <3>3, <3>4 DEF OneAhead
  <2>7. Active => OnFile
    BY DEF MigrationInv, RunInv
  <2>8. CASE pc \in {"idle", "next", "step", "committing", "catalog", "jobs", "dropping"}
    BY <1>2, <2>1, <2>2, <2>3, <2>7, <2>8 DEF MigrationInv, RunInv, Active
  <2>9. CASE pc \in {"issuing", "saving"}
    BY <1>2, <2>1, <2>2, <2>4, <2>6, <2>7, <2>9 DEF MigrationInv, RunInv, Active
  <2>10. CASE pc \in {"verifying", "removing", "rewinding"}
    <3>1. AtRecord /\ OnFile /\ at.waiting /\ Started(This, at.job)
      BY <2>10, StepAtWait
    <3>2. QED
      BY <1>2, <2>1, <2>2, <2>5, <2>10, <3>1 DEF MigrationInv, RunInv, Active
  <2>11. QED
    BY <2>8, <2>9, <2>10 DEF MigrationInv, TypeOK, Place
<1>14. QED
  BY <1>6, <1>8, <1>9, <1>10, <1>11, <1>12, <1>13 DEF MigrationInv, DbInv

\* Every step of the database and of the author.
LEMMA EnvironmentKeeps ==
    ASSUME MigrationInv,
           \/ \E j \in DOMAIN jobs : JobCompletes(j) \/ JobFails(j) \/ Purge(j)
           \/ \E f \in Files : Edit(f)
    PROVE  MigrationInv'
<1>1. ASSUME NEW j \in DOMAIN jobs, JobCompletes(j) \/ JobFails(j) \/ Purge(j)
      PROVE  MigrationInv'
  <2>1. JobMoves(j)
    BY <1>1 DEF JobMoves, JobCompletes, JobFails, Purge, JobStatus
  <2>2. setbacks' \in 0..MAX_SETBACKS
    BY <1>1, BoundsAssumption DEF MigrationInv, TypeOK, JobCompletes, JobFails, Purge
  <2>3. QED
    BY <2>1, <2>2, JobMovesKeeps
<1>2. ASSUME NEW f \in Files, Edit(f)
      PROVE  MigrationInv'
  <2>1. /\ UNCHANGED <<plan, applied, progress, catalog, jobs, effects, origin, setbacks>>
        /\ UNCHANGED <<pc, file, at, resumed, batch>> /\ pc = "idle"
    BY <1>2 DEF Edit, dbVars, runVars
  <2>2. DbInv'
    BY <2>1, DbKept DEF MigrationInv
  <2>3. TypeOK'
    <3>1. text' \in [Files -> 1..MAX_TEXT]
      BY <1>2 DEF Edit, MigrationInv, TypeOK
    <3>2. Statements' = Statements /\ Files' = Files
      BY <2>1 DEF Statements, Files
    <3>3. QED
      BY <2>1, <3>1, <3>2 DEF MigrationInv, TypeOK
  <2>4. RunInv'
    BY <2>1 DEF RunInv, Active
  <2>5. QED
    BY <2>2, <2>3, <2>4 DEF MigrationInv
<1>3. QED
  BY <1>1, <1>2

-------------------------------------------------------------------------------
(* The theorems.                                                           *)

\* Every step of the runner, the database and the author keeps the invariant.
LEMMA StepKeeps ==
    ASSUME MigrationInv, [Next]_vars
    PROVE  MigrationInv'
<1>1. CASE Start \/ AllApplied \/ (\E f \in Files : Begin(f) \/ Refuse(f) \/ NoSuchStep(f))
  BY <1>1, StartKeeps, AllAppliedKeeps, BeginKeeps, RefuseKeeps, NoSuchStepKeeps
<1>2. CASE RunDml \/ Commit \/ RunDdl
  BY <1>2, RunDmlKeeps, CommitKeeps, RunDdlKeeps
<1>3. CASE Consider \/ ReadCatalog \/ ReadJobs \/ DropIndex \/ Issue \/ Exists
  BY <1>3, ConsiderKeeps, ReadCatalogKeeps, ReadJobsKeeps, DropIndexKeeps, IssueKeeps, ExistsKeeps
<1>4. CASE Save \/ SkipWait \/ Poll \/ Verify
  BY <1>4, SaveRecordKeeps, SkipWaitKeeps, PollKeeps, VerifyKeeps
<1>5. CASE Remove \/ Rewind \/ Finish \/ Abort
  BY <1>5, RemoveKeeps, RewindKeeps, FinishKeeps, AbortKeeps
<1>6. CASE JobStep \/ (\E j \in DOMAIN jobs : Purge(j)) \/ (\E f \in Files : Edit(f))
  BY <1>6, EnvironmentKeeps DEF JobStep
<1>7. CASE UNCHANGED vars
  <2>1. /\ UNCHANGED <<plan, text, applied, progress, catalog, jobs, effects, origin, setbacks>>
        /\ UNCHANGED <<pc, file, at, resumed, batch>>
    BY <1>7 DEF vars, dbVars, runVars
  <2>2. DbInv'
    BY <2>1, DbKept DEF MigrationInv
  <2>3. TypeOK'
    BY <2>1, TypesKept DEF MigrationInv, TypeOK
  <2>4. RunInv'
    BY <2>1 DEF MigrationInv, RunInv, Active, OnFile, AtRecord, FreshOrFirst, InBatch, BatchDone,
             BatchTo, AtAsync, Unbuilt, Sendable, AtEndedJob, OneAhead, Started, Linked, Recorded,
             Start1, This, KindOf, HasTarget, Accepts, Done, Files, Statements
  <2>5. QED
    BY <2>2, <2>3, <2>4 DEF MigrationInv
<1>8. QED
  BY <1>1, <1>2, <1>3, <1>4, <1>5, <1>6, <1>7 DEF Next, RunStep

\* What the tables and the position of the run say of each other is true in every
\* reachable state of any plan.
THEOREM MigrationInvariant == Spec => []MigrationInv
<1>1. MigrationInv /\ [Next]_vars => MigrationInv'
  BY StepKeeps
<1>2. QED
  BY <1>1, MigrationInit, PTL DEF Spec

\* Every reachable state is well typed.
THEOREM MigrationTypes == Spec => []TypeOK
<1>1. MigrationInv => TypeOK
  BY DEF MigrationInv
<1>2. QED
  BY <1>1, MigrationInvariant, PTL

\* Statements take effect, and files count as applied, only when all in front of
\* them are done, whatever dies, fails or is purged.
THEOREM AlwaysInOrder == Spec => []InOrder
<1>1. ASSUME MigrationInv PROVE InOrder
  <2>1. /\ \A f \in Files : DOMAIN plan[f] = 1..Len(plan[f]) /\ Len(plan[f]) \in Nat
        /\ \A s \in Statements : s[1] \in Files /\ s[2] \in DOMAIN plan[s[1]] /\ s = <<s[1], s[2]>>
    BY <1>1, Layout DEF MigrationInv, TypeOK
  <2>2. \A s \in Statements : effects[s] \in Nat
    BY <1>1 DEF MigrationInv, TypeOK
  <2>3. ASSUME NEW s \in Statements, s[1] \in applied PROVE Done(s)
    BY <1>1, <2>3 DEF MigrationInv, DbInv, FilesInOrder
  <2>4. ASSUME NEW s \in Statements, NEW t \in Statements, Before(s, t), effects[t] > 0
        PROVE  Done(s)
    <3>1. CASE s[1] < t[1]
      <4>1. s[1] \in applied
        BY <1>1, <2>1, <2>4, <3>1 DEF MigrationInv, DbInv, FilesInOrder
      <4>2. QED
        BY <2>3, <4>1
    <3>2. CASE s[1] = t[1] /\ s[2] < t[2]
      <4>1. CASE t[1] \in applied
        BY <2>3, <3>2, <4>1
      <4>2. CASE t[1] \notin applied
        <5>1. RowTells(t[1]) /\ Recorded(t[1]).stmt \in Nat
          BY <1>1, <2>1, <4>2, PositionTypes DEF MigrationInv, DbInv, RowsTell, Position
        <5>2. ~(t[2] > Recorded(t[1]).stmt)
          BY <2>1, <2>4, <5>1 DEF RowTells
        <5>3. s[2] < Recorded(t[1]).stmt
          BY <2>1, <3>2, <5>1, <5>2
        <5>4. QED
          BY <2>1, <3>2, <5>1, <5>3 DEF RowTells
      <4>3. QED
        BY <4>1, <4>2
    <3>3. QED
      BY <2>4, <3>1, <3>2 DEF Before
  <2>5. QED
    BY <2>3, <2>4 DEF InOrder
<1>2. QED
  BY <1>1, MigrationInvariant, PTL

\* A change of rows takes effect once, however often its run is repeated.
THEOREM DmlRunsOnce == Spec => []DmlOnce
<1>1. MigrationInv => DmlOnce
  BY DEF MigrationInv, DbInv
<1>2. QED
  BY <1>1, MigrationInvariant, PTL

\* An ASYNC statement behind the first of its file is never sent while its job runs
\* or its index exists.
THEOREM NeverReissued == Spec => []NotReissued
<1>1. ASSUME MigrationInv PROVE NotReissued
  <2>1. pc = "issuing" /\ at.stmt > 1 /\ HasTarget(This) => Unbuilt /\ Accepts(This)
    BY <1>1 DEF MigrationInv, RunInv, Sendable
  <2>2. Unbuilt => RunningJobs(This) = {}
    BY DEF Unbuilt, RunningJobs
  <2>3. QED
    BY <2>1, <2>2 DEF NotReissued
<1>2. QED
  BY <1>1, MigrationInvariant, PTL

\* What ran behind the first statement of a file came from one text of it.
THEOREM AlwaysOneText == Spec => []OneText
<1>1. MigrationInv => OneText
  BY DEF MigrationInv, DbInv
<1>2. QED
  BY <1>1, MigrationInvariant, PTL
================================================================================
