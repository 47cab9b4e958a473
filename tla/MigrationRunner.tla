---------------------------- MODULE MigrationRunner ----------------------------
(***************************************************************************)
(* runMigrationPlan (bb-database/src/migrations/runner.ts): the files of a *)
(* plan are applied in order to an Aurora DSQL schema, a statement at a    *)
(* time, and a row of _migration_progress says where a partly applied file *)
(* goes on.  An ASYNC statement starts a job of the database and is        *)
(* followed by a step that waits for it.  A run may end anywhere; the next *)
(* one resumes.                                                            *)
(*                                                                         *)
(* One run at a time, as the CloudFormation provider calls it.  The         *)
(* database (catalog, sys.jobs, transactions) is modelled from how the      *)
(* runner uses it.                                                          *)
(***************************************************************************)
EXTENDS Naturals, Sequences

CONSTANTS
    Plans,          \* the plans to consider: for each file its kinds of statement
    MAX_TEXT,       \* bound: how many texts an author tries for a file
    MAX_SETBACKS,   \* bound: how often a run dies, a job fails or is purged
    NoRow           \* the file has no progress row

(* A statement shares a transaction with its neighbours ("dml"), runs alone *)
(* ("ddl"), or starts a job: the build of an index ("index"), of one whose  *)
(* name the runner cannot tell ("unnamed"), the validation of a constraint. *)
Async == {"index", "unnamed", "validate"}
Kind == {"dml", "ddl"} \cup Async

ASSUME PlansAssumption == Plans \subseteq Seq(Seq(Kind))
ASSUME BoundsAssumption == MAX_TEXT \in Nat \ {0} /\ MAX_SETBACKS \in Nat

\* The next step: a statement or, when waiting, the wait for the job it started.
Position == [stmt : Nat \ {0}, waiting : BOOLEAN, job : Nat]
Row == [stmt : Nat \ {0}, waiting : BOOLEAN, job : Nat, text : Nat]

ASSUME NoRowAssumption == NoRow \notin Row

VARIABLES
    plan,       \* the plan, chosen once
    text,       \* which text of each file is deployed; its file_hash
    applied,    \* _migrations
    progress,   \* _migration_progress
    catalog,    \* what an ASYNC statement builds: missing, invalid or valid
    jobs,       \* sys.jobs, with the jobs purged from it
    pc,         \* where the run is
    file,       \* the file it is at
    at,         \* its position there
    resumed,    \* this step is the one the run resumed at
    batch,      \* statements run in the open transaction
    effects,    \* ghost: how often each statement took effect
    origin,     \* ghost: the text it was run from, 0 if it never was
    setbacks

dbVars == <<applied, progress, catalog, jobs, effects, origin>>
runVars == <<pc, file, at, resumed, batch>>
vars == <<plan, text, dbVars, runVars, setbacks>>

Files == DOMAIN plan
Statements == UNION {{f} \X DOMAIN plan[f] : f \in Files}

Place == {"idle", "next", "step", "committing", "catalog", "jobs", "dropping", "issuing",
          "saving", "verifying", "removing", "rewinding"}
JobStatus == {"running", "completed", "failed", "purged"}

This == <<file, at.stmt>>
Behind(f, k) == k > Len(plan[f])
KindOf(s) == plan[s[1]][s[2]]
HasTarget(s) == KindOf(s) \in {"index", "validate"}
RunningJobs(s) == {j \in DOMAIN jobs : jobs[j].of = s /\ jobs[j].status = "running"}

Start1 == [stmt |-> 1, waiting |-> FALSE, job |-> 0]
NextStatement == [stmt |-> at.stmt + 1, waiting |-> FALSE, job |-> 0]
WaitFor(j) == [stmt |-> at.stmt, waiting |-> TRUE, job |-> j]
RowAt(p) == [stmt |-> p.stmt, waiting |-> p.waiting, job |-> p.job, text |-> text[file]]

AtStatement(kinds) ==
    pc = "step" /\ ~at.waiting /\ ~Behind(file, at.stmt) /\ KindOf(This) \in kinds
AtWait == pc = "step" /\ at.waiting

Took(S) ==
    /\ effects' = [s \in Statements |-> IF s \in S THEN effects[s] + 1 ELSE effects[s]]
    /\ origin' = [s \in Statements |-> IF s \in S THEN text[s[1]] ELSE origin[s]]

-------------------------------------------------------------------------------
(* The run.                                                                *)

Goto(place) == pc' = place /\ UNCHANGED <<file, at, resumed, batch>>

\* The step is done: record the position after it.
SaveAs(p) == pc' = "saving" /\ at' = p /\ resumed' = FALSE /\ UNCHANGED <<file, batch>>

\* A run starts and reads the tables, which nothing else writes.
Start ==
    /\ pc = "idle"
    /\ Goto("next")
    /\ UNCHANGED <<plan, text, dbVars, setbacks>>

\* The file the run is to go on with: the first one that is not applied.
Pending(f) == f \notin applied /\ \A g \in Files : g < f => g \in applied

\* Its row is saved behind its last statement, and it is not applied yet.
Exhausted(f) == progress[f] # NoRow /\ Behind(f, progress[f].stmt)

\* The next file, from its first step or where its row says.
Begin(f) ==
    /\ pc = "next" /\ Pending(f)
    /\ progress[f] # NoRow => progress[f].text = text[f]
    /\ ~Exhausted(f)
    /\ pc' = "step" /\ file' = f /\ batch' = {}
    /\ resumed' = (progress[f] # NoRow)
    /\ at' = IF progress[f] = NoRow THEN Start1
             ELSE [stmt |-> progress[f].stmt, waiting |-> progress[f].waiting,
                   job |-> progress[f].job]
    /\ UNCHANGED <<plan, text, dbVars, setbacks>>

\* Its text has changed since a part of it ran.
Refuse(f) ==
    /\ pc = "next" /\ Pending(f)
    /\ progress[f] # NoRow /\ progress[f].text # text[f]
    /\ Goto("idle")
    /\ UNCHANGED <<plan, text, dbVars, setbacks>>

\* statementPosition reads the kind of the step the row names, and there is none
\* behind the last: a TypeError, before the file's own try.
NoSuchStep(f) ==
    /\ pc = "next" /\ Pending(f)
    /\ progress[f] # NoRow /\ progress[f].text = text[f]
    /\ Exhausted(f)
    /\ Goto("idle")
    /\ UNCHANGED <<plan, text, dbVars, setbacks>>

AllApplied ==
    /\ pc = "next" /\ Files \subseteq applied
    /\ Goto("idle")
    /\ UNCHANGED <<plan, text, dbVars, setbacks>>

\* A DML statement in the open transaction, which ends before any other kind.
RunDml ==
    /\ AtStatement({"dml"})
    /\ batch' = batch \cup {This}
    /\ IF ~Behind(file, at.stmt + 1) /\ KindOf(<<file, at.stmt + 1>>) = "dml"
       THEN pc' = "step" /\ at' = NextStatement ELSE pc' = "committing" /\ UNCHANGED at
    /\ resumed' = FALSE
    /\ UNCHANGED <<plan, text, dbVars, file, setbacks>>

\* Faulty: the progress is saved after the commit.
CommitThenSave ==
    /\ pc = "committing"
    /\ Took(batch)
    /\ pc' = "saving" /\ at' = NextStatement /\ batch' = {}
    /\ UNCHANGED <<plan, text, applied, progress, catalog, jobs, file, resumed, setbacks>>

\* The batch and the progress after it commit together.
Commit ==
    /\ pc = "committing"
    /\ Took(batch)
    /\ progress' = [progress EXCEPT ![file] = RowAt(NextStatement)]
    /\ pc' = "step" /\ at' = NextStatement /\ batch' = {}
    /\ UNCHANGED <<plan, text, applied, catalog, jobs, file, resumed, setbacks>>

RunDdl ==
    /\ AtStatement({"ddl"})
    /\ effects[This] = 0
    /\ Took({This})
    /\ SaveAs(NextStatement)
    /\ UNCHANGED <<plan, text, applied, progress, catalog, jobs, setbacks>>

\* Faulty: an ASYNC statement is run without a look at the catalog.
ConsiderNever ==
    /\ AtStatement(Async)
    /\ Goto("issuing")
    /\ UNCHANGED <<plan, text, dbVars, setbacks>>

\* A run that resumes at an ASYNC statement may have run it already.
Consider ==
    /\ AtStatement(Async)
    /\ Goto(IF resumed /\ HasTarget(This) THEN "catalog" ELSE "issuing")
    /\ UNCHANGED <<plan, text, dbVars, setbacks>>

\* resumedAsyncDdl: first the catalog ...
ReadCatalog ==
    /\ pc = "catalog"
    /\ \/ catalog[This] = "valid" /\ SaveAs(WaitFor(0))
       \/ catalog[This] = "invalid" /\ Goto("jobs")
       \/ catalog[This] = "missing" /\ Goto("issuing")
    /\ UNCHANGED <<plan, text, dbVars, setbacks>>

\* ... then, for an invalid object, the jobs.
ReadJobs ==
    /\ pc = "jobs"
    /\ \/ \E j \in RunningJobs(This) : SaveAs(WaitFor(j))
       \/ RunningJobs(This) = {} /\ Goto(IF KindOf(This) = "index" THEN "dropping" ELSE "issuing")
    /\ UNCHANGED <<plan, text, dbVars, setbacks>>

DropIndex ==
    /\ pc = "dropping"
    /\ catalog' = [catalog EXCEPT ![This] = "missing"]
    /\ Goto("issuing")
    /\ UNCHANGED <<plan, text, applied, progress, jobs, effects, origin, setbacks>>

\* An index that exists cannot be created again.
Accepts(s) == KindOf(s) = "index" => catalog[s] = "missing"

Issue ==
    /\ pc = "issuing"
    /\ Accepts(This)
    /\ jobs' = Append(jobs, [of |-> This, status |-> "running"])
    /\ catalog' = [catalog EXCEPT ![This] = IF @ = "missing" THEN "invalid" ELSE @]
    /\ Took({This})
    /\ SaveAs(WaitFor(Len(jobs) + 1))
    /\ UNCHANGED <<plan, text, applied, progress, setbacks>>

\* The database rejects a statement whose object is there (42P07).
Exists ==
    /\ \/ pc = "issuing" /\ ~Accepts(This)
       \/ AtStatement({"ddl"}) /\ effects[This] > 0
    /\ Goto("idle")
    /\ UNCHANGED <<plan, text, dbVars, setbacks>>

Save ==
    /\ pc = "saving"
    /\ progress' = [progress EXCEPT ![file] = RowAt(at)]
    /\ Goto("step")
    /\ UNCHANGED <<plan, text, applied, catalog, jobs, effects, origin, setbacks>>

\* The wait step of a statement found to be done.
SkipWait ==
    /\ AtWait /\ at.job = 0
    /\ SaveAs(NextStatement)
    /\ UNCHANGED <<plan, text, dbVars, setbacks>>

\* Faulty: a job that is still running counts as done.
PollImpatient ==
    /\ AtWait /\ at.job # 0
    /\ LET status == jobs[at.job].status
       IN  \/ status \in {"running", "completed"} /\ SaveAs(NextStatement)
           \/ status = "failed" /\ Goto("removing")
           \/ status = "purged" /\ Goto(IF HasTarget(This) THEN "verifying" ELSE "removing")
    /\ UNCHANGED <<plan, text, dbVars, setbacks>>

\* jobStatus.  While the job runs, the run ends and leaves it to the next one.
Poll ==
    /\ AtWait /\ at.job # 0
    /\ LET status == jobs[at.job].status
       IN  \/ status = "running" /\ Goto("idle")
           \/ status = "completed" /\ SaveAs(NextStatement)
           \/ status = "failed" /\ Goto("removing")
           \/ status = "purged" /\ Goto(IF HasTarget(This) THEN "verifying" ELSE "removing")
    /\ UNCHANGED <<plan, text, dbVars, setbacks>>

\* purgedJobOutcome: the object tells what became of the job.
Verify ==
    /\ pc = "verifying"
    /\ IF catalog[This] = "valid" THEN SaveAs(NextStatement) ELSE Goto("removing")
    /\ UNCHANGED <<plan, text, dbVars, setbacks>>

\* abandonJob drops what a failed build left, whose state no job changes any more ...
Remove ==
    /\ pc = "removing"
    /\ catalog' = IF KindOf(This) = "index" /\ catalog[This] = "invalid"
                  THEN [catalog EXCEPT ![This] = "missing"] ELSE catalog
    /\ Goto("rewinding")
    /\ UNCHANGED <<plan, text, applied, progress, jobs, effects, origin, setbacks>>

\* Faulty: the row goes on naming the failed job.
RewindNever ==
    /\ pc = "rewinding"
    /\ Goto("idle")
    /\ UNCHANGED <<plan, text, dbVars, setbacks>>

\* ... and goes back to the statement; of a file at its first step nothing is left.
Rewind ==
    /\ pc = "rewinding"
    /\ progress' = [progress EXCEPT ![file] =
          IF at.stmt = 1 THEN NoRow
          ELSE RowAt([stmt |-> at.stmt, waiting |-> FALSE, job |-> 0])]
    /\ Goto("idle")
    /\ UNCHANGED <<plan, text, applied, catalog, jobs, effects, origin, setbacks>>

\* Every step is done: the file is recorded and its row deleted, in one transaction.
Finish ==
    /\ pc = "step" /\ ~at.waiting /\ Behind(file, at.stmt)
    /\ applied' = applied \cup {file}
    /\ progress' = [progress EXCEPT ![file] = NoRow]
    /\ Goto("next")
    /\ UNCHANGED <<plan, text, catalog, jobs, effects, origin, setbacks>>

\* A call fails, before or after it took effect, or the process dies; an open
\* transaction is rolled back.
Abort ==
    /\ pc # "idle" /\ setbacks < MAX_SETBACKS
    /\ setbacks' = setbacks + 1
    /\ Goto("idle")
    /\ UNCHANGED <<plan, text, dbVars>>

-------------------------------------------------------------------------------
(* The database and the author.                                            *)

JobCompletes(j) ==
    /\ jobs[j].status = "running"
    /\ jobs' = [jobs EXCEPT ![j].status = "completed"]
    /\ catalog' = [catalog EXCEPT ![jobs[j].of] = "valid"]
    /\ UNCHANGED <<plan, text, applied, progress, effects, origin, runVars, setbacks>>

\* The rows do not satisfy the index or the constraint.
JobFails(j) ==
    /\ jobs[j].status = "running" /\ setbacks < MAX_SETBACKS
    /\ setbacks' = setbacks + 1
    /\ jobs' = [jobs EXCEPT ![j].status = "failed"]
    /\ UNCHANGED <<plan, text, applied, progress, catalog, effects, origin, runVars>>

\* A finished job leaves sys.jobs after 30 minutes.
Purge(j) ==
    /\ jobs[j].status \in {"completed", "failed"} /\ setbacks < MAX_SETBACKS
    /\ setbacks' = setbacks + 1
    /\ jobs' = [jobs EXCEPT ![j].status = "purged"]
    /\ UNCHANGED <<plan, text, applied, progress, catalog, effects, origin, runVars>>

\* Between deploys an author changes a file that is not applied, or changes it
\* back.  The kinds of its statements stay the same.
Edit(f) ==
    /\ pc = "idle" /\ f \notin applied
    /\ \E t \in 1..MAX_TEXT : t # text[f] /\ text' = [text EXCEPT ![f] = t]
    /\ UNCHANGED <<plan, dbVars, runVars, setbacks>>

Init ==
    /\ plan \in Plans
    /\ text = [f \in Files |-> 1]
    /\ applied = {}
    /\ progress = [f \in Files |-> NoRow]
    /\ catalog = [s \in Statements |-> IF KindOf(s) = "validate" THEN "invalid" ELSE "missing"]
    /\ jobs = << >>
    /\ pc = "idle" /\ file = 1 /\ at = Start1 /\ resumed = FALSE /\ batch = {}
    /\ effects = [s \in Statements |-> 0]
    /\ origin = [s \in Statements |-> 0]
    /\ setbacks = 0

RunStep ==
    \/ Start \/ AllApplied
    \/ \E f \in Files : Begin(f) \/ Refuse(f) \/ NoSuchStep(f)
    \/ RunDml \/ Commit \/ RunDdl
    \/ Consider \/ ReadCatalog \/ ReadJobs \/ DropIndex \/ Issue \/ Exists
    \/ Save \/ SkipWait \/ Poll \/ Verify \/ Remove \/ Rewind
    \/ Finish

JobStep == \E j \in DOMAIN jobs : JobCompletes(j) \/ JobFails(j)

Next ==
    \/ RunStep \/ Abort
    \/ JobStep \/ \E j \in DOMAIN jobs : Purge(j)
    \/ \E f \in Files : Edit(f)

Spec == Init /\ [][Next]_vars

\* A run that was started goes on, a failed deploy is repeated, and a job ends.
FairSpec == Spec /\ WF_vars(RunStep) /\ WF_vars(JobStep)

-------------------------------------------------------------------------------
(* Properties.                                                             *)

TypeOK ==
    /\ plan \in Plans
    /\ text \in [Files -> 1..MAX_TEXT]
    /\ applied \subseteq Files
    /\ progress \in [Files -> Row \cup {NoRow}]
    /\ catalog \in [Statements -> {"missing", "invalid", "valid"}]
    /\ jobs \in Seq([of : Statements, status : JobStatus])
    /\ pc \in Place
    /\ file \in Nat \ {0} /\ at \in Position /\ resumed \in BOOLEAN
    /\ batch \subseteq Statements
    /\ effects \in [Statements -> Nat]
    /\ origin \in [Statements -> 0..MAX_TEXT]
    /\ setbacks \in 0..MAX_SETBACKS

\* The statement has taken effect and what it builds, if anything, is usable.
Done(s) == effects[s] > 0 /\ (KindOf(s) \in Async => catalog[s] = "valid")

Before(s, t) ==
    \/ s[1] < t[1]
    \/ s[1] = t[1] /\ s[2] < t[2]

\* No statement takes effect, and no file is recorded as applied, before those in
\* front are done: an index is built and valid before the statement after it runs,
\* wherever runs end, and also when its job was purged (README.md:155: "Files run
\* in name order, once each").
InOrder ==
    \A s \in Statements :
        \/ s[1] \in applied
        \/ \E t \in Statements : Before(s, t) /\ effects[t] > 0
        => Done(s)

\* Rows are changed once, however often a run dies around the commit of a batch.
DmlOnce == \A s \in Statements : KindOf(s) = "dml" => effects[s] <= 1

\* An ASYNC statement behind the first of its file is not issued while its index
\* exists or its job runs (runner.ts: "a run that dies here must not reissue the DDL").
NotReissued ==
    pc = "issuing" /\ at.stmt > 1 /\ HasTarget(This) =>
        RunningJobs(This) = {} /\ Accepts(This)

\* The statements behind the first are never taken from two texts of a file
\* (README.md:202: "The next deploy detects the edit, refuses the file").  At the
\* first the text may change: nothing that is recorded has run.
OneText ==
    \A s, t \in Statements :
        s[1] = t[1] /\ s[2] > 1 /\ t[2] > 1 /\ effects[s] > 0 /\ effects[t] > 0
        => origin[s] = origin[t]

\* Every statement of the plan can be run again, or is looked up before it is.
Resumable ==
    \A s \in Statements : KindOf(s) # "ddl" /\ (KindOf(s) = "index" => s[2] > 1)

\* The author leaves, or brings back, the text a file was partly run from.
Matching == \A f \in Files : progress[f] # NoRow => progress[f].text = text[f]

\* However runs die and jobs fail, deploying again applies every file in the end,
\* unless it stays at a file whose statements are all recorded and which is not
\* itself (README.md:202: "deploy again; the file resumes where it stopped").
Completes ==
    Resumable /\ <>[]Matching =>
        <>(Files \subseteq applied) \/ <>[](\E f \in Files : Pending(f) /\ Exhausted(f))

\* The same without the exception.  The code does not have this: a run that ends
\* between the last statement's save and the file's own record leaves a row no
\* later run gets past.
CompletesAlways == Resumable /\ <>[]Matching => <>(Files \subseteq applied)

\* "a run that resumes at such a statement reads the catalog before re-issuing it"
\* (DESIGN.md:84): no ASYNC statement is sent whose index exists.
IndexNotReissued == pc = "issuing" => Accepts(This)
================================================================================
