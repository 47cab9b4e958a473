# A verification development of AWS Blocks

AWS Blocks is a library of backend building blocks (jobs, sessions, databases,
realtime channels, authentication, …). Each block has an AWS implementation
(`index.aws.ts`), one for local development (`index.mock.ts`) and a CDK construct
(`index.cdk.ts`). Most blocks are thin wrappers of one service call. The ones below
are not: they keep state that several processes write, over services that redeliver,
lose replies, answer from stale replicas and die. Those are what this directory
models.

    <Module>.tla         the model of one component
    MC<Module>.tla       its instance for TLC
    <Run>.cfg            one run of TLC
    <Name>Proofs.tla     theorems about one or two components, checked by tlapm
    PROJECT.json         runs, mutants, hazards, theorems, and for each definition
                         the lines of source it models

    tlc -config TrackerAws.cfg MCJobStatusTracker     # a run
    tlapm JobRecordProofs.tla                         # proofs

## 1. The system

### Parts, their state and how they interact

| Part (under `src/packages/`) | State | Operations | What is hard |
|---|---|---|---|
| **AsyncJob status record**, `bb-async-job/src/status.ts` | one table row per job: state, transitions, submittedAt, version, TTL | `recordQueued`, `recordTransition`, `backdateSubmission`, `waitUntilComplete` | read-modify-write by every delivery and the submitter, no lock, stale reads, failing puts |
| **AsyncJob submit and Lambda delivery**, `bb-async-job/src/index.aws.ts`, `core/src/lambda-handler.ts` | the SQS message, the invocation | `submit`, `_processRecord`, `handleEventSourceRecords` | redelivery while a delivery still runs, a delivery that dies unrecorded |
| **Container poller**, `registerContainerPoller` in `bb-async-job/src/index.aws.ts`; `core/src/container-runtime.ts` | slots in use, the loop, the drain promise, one heartbeat per worker | poll, dispatch, heartbeat, delete, stop, drain | slot counting across awaits, reply against timeout, shutdown with work in flight |
| **Batch submit**, `submitBatch`, `sendChunksBounded`, `chunkBatch` | the requests, a shared counter, two result lists | cut, send, collect, record | workers that share a counter across awaits, partial answers, limits |
| **OIDC session manager**, `bb-auth-oidc/src/engines/session-manager.ts` | one session row (`ready`, `refreshing`, `expired`), a promise map per container | `verifyStatefulSession`, `forceRefresh`, `signOutSession` | a lock kept in the row, taken over when stale; rotation of refresh tokens; sign-out in between |
| **DSQL migration runner**, `bb-database/src/migrations/runner.ts`, `plan.ts`, `dialect/async-ddl.ts` | `_migrations`, `_migration_progress`, the catalog, `sys.jobs` | `runMigrationPlan` and its resumption | a run may end between any two calls; jobs outlive it; files are edited between runs |
| **GSI manager**, `bb-distributed-table/src/gsi-manager-lambda.ts` | a table, the key and status of its indexes; the items, in memory, while it is recreated | `onEvent`, `isComplete`, `deleteKeepsIndexes`, `recreateTableWithIndexes` | one index change per poll; rollbacks, cleanups and deletes that start from a half-made table |
| **Realtime client**, `bb-realtime/src/aws-middleware.ts` | a pool of connections, and in each the socket, timer, tokens, attempts, subscriptions | `subscribe`, `unsubscribe`, the socket's events, reconnect, token refresh | drops during resubscription, callbacks that call back, a moved endpoint |
| **Realtime server subscription**, `bb-realtime/src/server-subscribe.ts`, `index.aws.ts` | `live`, an emitter and a socket; the connections table | `subscribe`, `publish`, the WebSocket Lambda | the hand-over between two delivery paths |
| **Basic authentication**, `bb-auth-basic/src/index.ts` | code rows, the user's record, the session epoch | sign-up, confirmation, sign-in, `resetPassword`, `confirmResetPassword` | guesses in parallel, a code used twice, a reset among sign-ins |
| **PGlite cluster**, `bb-database/src/engines/pglite-cluster.ts`, `handle.ts` | one session: mutex, schema, transaction and savepoints, listeners | statements, `transaction`, nesting, the exit hook | the memory of the session's schema across failures |
| Cognito authentication, agent | challenges, conversations | sign-in flows, turns | most of the state machine is a service's |
| Key-value store, distributed table, settings, secrets, file bucket, email, logger, metrics, tracer | none of their own, or a cache | one service call each | they are the environment of the parts above |
| CDK constructs, hosting, pipeline, CLI, scaffolding, generators | none at run time | synthesis | nothing concurrent |

`submit` and `submitBatch` put messages on the queue and open the record. The Lambda
path or the container poller takes a message, runs the handler and calls
`recordTransition`; SQS hides, redelivers and dead-letters. `waitUntilComplete` polls
the record. The record lives in a distributed table, the session row and the rows of
basic authentication in a key-value store: they are read with eventually consistent
gets and written with conditional puts, so each is modelled as a value and older
values a read may return. `publish` reads the connections table through an index that
lags. The GSI manager answers CloudFormation, which sends its requests one after the
other, and drives DynamoDB, which changes one index at a time. The client's
connections talk to the Lambda that the server subscription talks to as well; the two
meet only in what API Gateway delivers. The other parts share nothing with these or
with each other. `PROJECT.json` lists every part with its status and every hazard at
its line.

### What makes each part correct

* Record: no entry is lost, the history is in time order up to the difference of the
  hosts' clocks, `submittedAt` and the first entry agree in every copy, versions identify records; all of it is an
  append-only log to its readers.
* Delivery, Lambda or container: a message is deleted only after its handler ran
  to the end, and dead-lettered only after all its attempts; one of the two happens.
* Poller: slots are bounded and returned, extensions keep a message from a second
  worker, a stopped task ends, and its drain waits for its workers.
* Batch: requests within both limits and as few as possible, one outcome per
  payload.
* Session: one owner of the lock, one refresh at a time, a deleted session stays
  deleted, a session expires only for a cause, every request is answered.
* Migrations: statements take effect in order, rows are changed once, statements
  are not reissued and are taken from one text, and the files are applied in the end
  (but for one place where the code gets stuck, section 5).
* GSI manager: a stack at rest has the indexes of its template, old indexes serve until
  the new ones do, a table that leaves the stack keeps its indexes, a recreated table has
  its items, and every request ends.
* Realtime client: a connection in use is on its way by exactly one of socket, timer and
  refresh, nobody is forgotten, only the owner leaves the pool, `established` settles.
* Server subscription: once per message while its side does not change, twice at most,
  never after `unsubscribe`.
* Basic authentication: guesses at a code are bounded, a code lets one request through,
  a reset ends the sessions before it.
* PGlite cluster: a statement runs under the schema of the innermost block, listeners hear of the
  work undone and of no other, every call returns.

## 2. The modules

| Module | Models | Uses |
|---|---|---|
| `JobHistory` | abstract: an append-only log whose first entry may move back | |
| `JobStatusTracker` | `status.ts` over a stale, failing table | implements `JobHistory` |
| `AtLeastOnce` | abstract: what is promised of a submitted message | |
| `JobDelivery` | `submit`, `_processRecord`, SQS, `waitUntilComplete` | extends `JobStatusTracker`; implements `AtLeastOnce` |
| `ContainerPoller` | the poller, its workers and the shutdown, for several tasks | implements `AtLeastOnce` |
| `BatchSubmit` | one `submitBatch` | |
| `SessionRefresh` | the session manager | |
| `MigrationRunner` | `runMigrationPlan` and DSQL | |
| `GsiManager` | the custom resource, CloudFormation and DynamoDB | |
| `RealtimeConnection` | the client's pooled connections | |
| `ServerSubscribe` | a server-side subscription and publishes around it | |
| `AuthBasic` | codes, record and epoch of one user | |
| `PgliteCluster` | the cluster's session | |
| `JobRecordProofs` | theorems | extends `JobDelivery`, and with it `JobStatusTracker` |
| `JobQueueProofs` | theorems | extends `ContainerPoller` and `BatchSubmit` |
| `RealtimeProofs` | theorems | extends `RealtimeConnection` and `ServerSubscribe` |
| `SessionRefreshProofs`, `MigrationRunnerProofs`, `GsiManagerProofs`, `AuthBasicProofs`, `PgliteClusterProofs` | theorems | extends the module each is named after |

Two components with a proof module in common share one name space there: the
specifications of `BatchSubmit` and `ServerSubscribe` are `BatchSpec` and `ServerSpec`.

A step of a model is what one process does between two awaits, or one call to a
service. A call that fails is two cases: it had no effect, or it took effect and its
reply was lost (`StoreErrors`, `LostReplies`, `SqsErrors`). Operators marked
*Faulty* in the modules are not part of a specification. Each is a plausible bug in
the definition that follows it, put in its place to see that a property notices.

**JobStatusTracker.** `rec` is the row, `past` what a replica may still return.
`Read` is the get of `recordTransition`; it keeps the time in `readAt`, because the
code takes `now` before its put. Each host stamps with its own clock: `clock` is the
slowest of them, and what `new Date()` says is up to `MaxSkew` ahead of it (`Readings`),
so two stamps of one moment may differ by that. `Swap` is the put, `SwapFails` every way it rejects,
`RetryOr` the loop counter. `Create*` are the outcomes of `recordQueued`'s put;
`ReadForBackdate`, `Backdate` and `BackdateFails` are `backdateSubmission`. `Expire`
is the TTL. `wrote` and `reaped` are ghosts.

**JobDelivery.** Writer *d* is the *d*-th delivery. `Receive`, `HandlerSucceeds`,
`HandlerThrows`, `Reject` and `Acknowledge` are `_processRecord` and the batch
response; each records by the actions of the tracker. `Lapse` (the visibility ends,
with `EarlyLapse` while a delivery runs) and `Redrive` are SQS. `Crash` is a Lambda
that times out. `calm` is a ghost that says no delivery has died or overlapped.
The record is not reaped here: deliveries take minutes, retention is a day.

**ContainerPoller.** `Poll` reads the free slots and sends the receive, `Serve` is
SQS's answer, `Dispatch` takes the slots. Between them lies the 20 s long poll.
`HandlerEnds`, `Reply`, `WorkerFails`, `TimesOut` and `Delete` are a worker thread and
`handleMessage`, `Heartbeat` is the interval. `Stop`, `Resolve`, `Exit` and `Kill` are
`runContainer` and ECS. Time is counted down in heartbeats. A delivery whose receipt
handle is no longer the latest may still delete or extend, or be ignored.

**BatchSubmit.** A payload is its position and size. `Running` is the state of
`chunkBatch`'s loop behind each position, one turn of which is `Add`. `Take`, `Answer`, `SendFails`, `Skip` and `StopWorker` are a worker of
`sendChunksBounded`, `Collect` and `Record` the end of `submitBatch`.

**SessionRefresh.** `Start`, `Reject`, `Accept`, `Join`, `Wait` and `SendLock` are the
way from the first get to the lock. `Lock`, `Grant`, `Refuse`, `Save` and `MarkExpired`
are `_doRefresh` with its two compare-and-swaps, `Reread` the way of a lost race,
`Poll` and `GiveUp` are `waitForWinner`, `DeleteRow` and `Revoke` are sign-out. A row is
its state, token, expiry and lock time; a token is the order in which it was issued.

**MigrationRunner.** A plan is a sequence of files, a file a sequence of kinds of
statement. `Consider`, `ReadCatalog`, `ReadJobs` and `DropIndex` are `resumedAsyncDdl`,
`Issue` and `Save` a statement and its progress, `Poll` and `Verify` the wait step,
`Remove` and `Rewind` are `abandonJob`, `Commit` and `Finish` the two transactions.
`Begin`, `Refuse` and `NoSuchStep` are the ways into a file: the last is the TypeError
of a row saved behind the file's last step.
`Abort` ends a run anywhere. `JobCompletes`, `JobFails` and `Purge` are DSQL, `Edit` is
the author. The ghosts `effects` and `origin` say how often a statement took effect
and from which text.

**GsiManager.** `stack` is CloudFormation: the status, the configuration an operation
starts from and the one it goes to. `Deploy`, `Cleanup`, `RollBack`, `RollbackCleanup`,
`DeleteStack`, `OperationEnds` and `Stuck` are modelled from the statuses and requests the
code tells apart. `req` is the custom resource's request; `OnEvent`, `KeepIndexes` and
`IsComplete` are the two handlers, `initiateNextChange` the choice of the one change, and
`ScanPage` to `RestoreEnds` the sandbox's `recreateTableWithIndexes`, a call at a time.
`RequestFails` is a Lambda that dies or a provider that gives up. `IndexReady` and
`TableReady` are DynamoDB. `before` and `owed` are ghosts: the indexes an operation
found, the items a scan owes.

**RealtimeConnection.** A connection is the record of the code, with the socket and its
unanswered subscribe frames; `pool` is `connections`, `promise` and `heard` are a
subscription's `established` and its last callback. `OnOpen`, `SubscribeSuccess`,
`SubscribeError` and `OnClose` are the socket's events, `OpenSocket` and `RefreshSettles`
the reconnect with its tokens. A handler that calls the application stops half-way:
`calling` names it, the application makes the calls of `Callbacks`, and `CloseEnds`,
`RefreshFails`, `GiveUp` or `DropChannel` is the rest of it.

**ServerSubscribe.** `Query`, `Post` and `Emit` are `publish`; `Store`, `Confirm` and
`Refuse` the Lambda's answer to the subscribe frame; `ServerOnOpen`, `OnMessage`,
`ServerOnClose` and `ServerUnsubscribe` the subscription. `row` is the table, `indexed` what a query sees of it,
`wire` what API Gateway has accepted. The ghost `side` says which path was to deliver.

**AuthBasic.** `store` is what a conditional write sees, `old` a snapshot a get may still
return. `VerifyCode`, `DropSpent`, `Reserve`, `Evaluate`, `Consume` and `Reread` are
`verifyCode`, each up to its next call; `GetUserRecord` and `PutUserRecord` the plain
read and write around the bumps, `ReadEpoch` and `PutEpoch` are `bumpSessionEpoch`,
`SignIn` and `SetCookie` the sign-in. A request dies anywhere. `evaluated`, `verified`
and `bumped` are ghosts.

**PgliteCluster.** `queue` is the mutex, `tx` the handle of the open transaction and those
of its savepoints, `path` the session's `search_path` and `currentSchema` the cluster's
memory of it. `Call`, `Acquire`, `UseSchema`, `Run` and `Begin` are a call from outside;
`Statement` and `Nest` happen in the callback. A statement is made through any open
handle, the innermost or one around it; the code asks no more and switches no path.
`ReleaseSavepoint`, `RollbackSavepoint`,
`Commit`, `CommitFails` and `Rollback` end what it opened. `CloseForExit` is the exit
hook, `InitFails` a session that cannot be opened; it is *broken* for good when a
reopening could not make an instance, as the rejected promise is then kept. `ran`, `kept`, `fired` and
`silent` are ghosts.

## 3. The runs

Deadlock is checked in `poller`, where a task is always there to poll. In the
other models a job, a call, a session, a plan or a bounded number of operations comes
to its end, and the runs say `CHECK_DEADLOCK FALSE`. Symmetry is used for writers and
for requests of `auth_basic`, which nothing orders, in two runs without a liveness
property.

| Run | Bounds | What it shows |
|---|---|---|
| `tracker_aws` | 2 writers, 2 tries of a swap (5 in the code), retention 1 tick, 1 tick of time, clocks that differ by up to 1, no call starts behind the first write | `SubmissionAgrees`, `SubmissionSettled` and `RefinesHistory`, with stale reads, failing puts, lost replies and a record that expires and starts again. Two writers and the submitter are every pair that can race; a third only repeats a lost race, which the exhausted retries include |
| `delivery` | 2 receives, 2 tries of a swap, one tick of one clock | Overlapping deliveries that die, status writes that fail or lose their races: `KeepsPromise`, `Resolves`, `SubmissionConverges`. Two deliveries are the pair that overlaps, and the last of them the one that records `failed`. `CalmPromise` is what the README promises, of calm jobs |
| `poller` | 2 tasks of 2 slots, batches of 2, 1 message received up to 3 times, a window of two heartbeats | `SlotsAccounted`, `OneHandlerAtATime` when extensions succeed, `KeepsPromise`, `EveryMessageResolves`, `StoppedTaskEnds` while receives and deletes fail, handlers time out and one task stops or dies. Three receives are a first delivery, its redelivery to the other task and the last one; more messages than slots are for the theorems of section 4 |
| `batch_outcomes` | lists of up to 5 bodies of 1, 2 or 4 bytes, limits of 4 bodies, 2 entries and 3 bytes, 2 workers | Each limit can be met and exceeded by one, requests fail as a whole or in part, also after they were carried out: `OneOutcomeEach`. `ChunksOptimal` compares with every other division of the list |
| `session` | 2 requests of any kind, in one container or in two, stale after 1 tick | `OneHolder`, `OneRefreshAtATime`, `ExpiredForCause`, `NoResurrection` and `EveryRequestEnds` with stale reads, failing store and provider, containers that die. Two requests are two that race, one that takes over from a dead one, or one that signs out under the other |
| `migration` | 4 plans, 2 texts of a file, 4 setbacks | `InOrder`, `DmlOnce`, `NotReissued`, `Completes` with its exception (section 5). A setback is a run that dies, a job that fails or one that is purged: four are enough to fail, lose the clean-up, lose the reissue and fail again |
| `gsi` | 2 names, 2 keys, 2 items, 3 operations on the stack, sandbox or not | `RestMeansServed`, `OrphanKeepsIndexes`, `OldServesUntilNew`, `NothingLost`, `RequestEnds`. Two keys change an index under its name, two names order a creation before a removal, three operations are a create, an update that fails or rolls back, and what meets its remains; two items are two pages |
| `realtime` | 2 subscriptions on 2 channels, one with a refresh, 2 endpoints, 2 attempts; callbacks unsubscribe | `OneWayForward`, `NobodyForgotten`, `EstablishedSettles`. One channel may settle while the other fails or leaves, one token be renewed and the other not, and a refresh may move the connection to an endpoint that is taken |
| `server_subscribe` | 2 messages of the process, 1 of another | `OnceWhenSteady`, `TwiceOnlyAtHandover`, `SilentAfterUnsubscribe`. One message may be ahead of the confirmation while the other is behind it, and the third loses the row |
| `auth_basic` | 2 requests at a time and 5 in all, 2 attempts, 2 bumps, 2 codes | `AttemptsBounded`, `CodeUsedOnce`, `NoSessionOutlivesReset`. Five requests are a reset, its confirmation, another reset and its confirmation, and a sign-in or a guess in between |
| `pglite` | 2 requests, 2 blocks, 3 calls, 3 savepoints, 2 changes | `InnermostSchema`, `ListenersMatch`, `CallsReturn`. Two changes are one in a frame and one in the frame around it. Three savepoints are a block inside another inside the first; three calls one before, one after a closed session, and one that waits |
| `realtime_eviction` | 1 endpoint, callbacks subscribe and unsubscribe | violated: `NoForeignEviction` |

Names of bounds that are not the code's: `MaxAttempt`, `MaxSkew`, `MaxClock`, `MaxWrites`
(tracker; `MaxSkew` is no bound of the model but of the hosts' clocks), `MaxPayloads` (batch), `MAX_TIME` (session), `MAX_TEXT`, `MAX_SETBACKS`
(migration), `MAX_DEPLOYS` (GSI manager), `MAX_REQUESTS`, `MAX_CODES`
(authentication), `MAX_CALLS`, `MAX_SAVEPOINTS`, `MAX_WORKS` (cluster). `JobDelivery`
runs without the tracker's bounds on attempts and writes: its retries are SQS's.
`MAX_TIME` does not stop a clock somebody waits for. In `session` `LIFETIME` exceeds
`MAX_TIME`, so a granted token does not expire a second time: one refresh cycle. The
row starts one tick before its token expires, so that requests see it both valid and
expired.

Some conditions are in the properties and not in the model. `OneHolder` and
`OneRefreshAtATime` speak of behaviours without `forceRefresh` (`Unforced`); section 5
says what a forced refresh can do. The README's promises on a job hold of *calm* ones.
`SubmissionConverges` is checked with strong reads. `Completes` speaks of plans whose
statements can be looked up before they are repeated (`Resumable`) and of authors who
keep, or restore, a text that partly ran (`Matching`), and it excepts a file that is
recorded to its end and not applied (`Exhausted`). `InnermostSchema` says of a statement
made through an outer handle what the code does, not what its block may expect
(`OwnSchema`). `OnceWhenSteady` speaks of messages
during which the subscription does not change sides, `ListenersMatch` of work that no
aborted transaction's COMMIT has undone, `NothingLost` of items no batch write refused.

### Fairness

* `JobDelivery`: an invocation goes on until it ends or dies (`Deliver`), SQS keeps
  offering and redriving what is not deleted (`Receive`, `Lapse`, `Redrive`), a caller
  whose send succeeded goes on with `submit`. Nobody has to submit, poll or crash.
* `ContainerPoller`: Node runs what is ready; a worker's handler is not fair, its
  limit is (`TimesOut`, part of `DeliveryStep`), which is why the run has `Timeouts`.
  SQS answers some receive if receives are repeated (strong fairness of `Serve`: a
  receive may fail again and again, but not for ever). Nothing forces a task to be
  stopped or killed.
* `SessionRefresh`: requests go on, calls settle, time passes. That a get throws, or
  reads an old row, is never owed to a request that waits, and nothing forces a
  request to start or a container to die.
* `MigrationRunner`: a run goes on and a failed deploy is repeated (`RunStep`), jobs
  end (`JobStep`). Nothing forces an edit, an abort or a purge.
* `GsiManager`: DynamoDB finishes what it starts, the provider goes on to call the
  handlers (`WF` of `Dynamo` and `Manager`). Nothing forces a deploy or a failure.
* `RealtimeConnection`: a timer fires, a refresh settles by its deadline, a socket
  that connects opens or fails, the server answers. Strong fairness, because the
  callbacks of another connection disable these in between. A handler that called the
  application returns. Nothing keeps a socket up: it may flap for ever.
* `PgliteCluster`: each task goes on; PGlite answers and a callback ends.
* `BatchSubmit`, `ServerSubscribe`, `AuthBasic` and the tracker alone: none, they have
  no liveness property.

## 4. The proofs

All theorems hold for any number of writers, messages, requests, tasks, containers,
payloads, subscriptions, indexes and blocks, any plans, any value of the limits and with
every fault enabled. They assume only what the modules' `ASSUME`s say: types of the
constants, and that `NoRecord`, `NoRow`, `NoRequest`, the submitter and the names of
frames and events are not what they must be told from. Five are conditional on constants
that say which behaviours are considered: `OneHandlerEver` on `Renewed`,
`SilenceAfterEnd` on `~EarlyUnsubscribe`, `ExactlyOneWay` and `OwnersAreNotEvicted` on
`NotBoth`, `NobodyIsForgotten` on callbacks that do not subscribe. For the last four
section 5 shows that the property fails without the condition. Every invariant and every
safety action property that a run expects to hold is the statement of a theorem.

**JobRecordProofs: the record.** `TrackerInv` is inductive: the type invariant, the five
properties, and what they need.

* `SnapshotsHeldInSwap`: a copy of the record is held only between a get and the swap
  it is compared in.
* `TimesPast`: no stored or held time is further in the future than a clock may be ahead,
  and that of a held copy was so when it was read (`StampedBy`). `OrderedUpToSkew` needs
  it: the swap stamps the entry with a time between the read and the put, on one of the
  clocks, and it succeeds only if the record is still the one read. With one clock
  (`MaxSkew` 0) it says that the history is in time order; with several it says by how
  much at most it is not.
* `SubmitterFirst`: a record without a handler's entry is the submitter's.
* `VersionIdentifies` is itself needed by the others. The code compares versions, and
  only equal records having equal versions makes that a comparison of records.

`ImplementsHistory` (`Spec => Log!Spec`) follows from the invariant: creation is `Open`,
a swap `Extend`, the correction `Correct`, expiry `Reap`, all else stutters.

**JobRecordProofs: its delivery.** `DeliveryKeepsPromise` (the refinement of `AtLeastOnce`) needs only
types and that a delivery with a stage was received (`QueueInv`). `DeliveryKeepsRecord`
lifts `TrackerInv` to the composition, whose deliveries start calls by other rules than
the tracker alone (lemma `StartInv`). `CalmJobKeepsPromise` rests on `CalmInv`: a terminal call
belongs to a delivery that has run (`CallsFit`), the queue ends with its last delivery
(`QueueEnds`), and while no delivery died or overlapped, they follow one another
(`CalmDeliveries`) and a terminal entry is the last one, in old copies too (`CalmRecord`).

**JobQueueProofs: the poller.** `PollerInv` is types, `Fresh` (nothing is known of a delivery
not yet made), `OneHost` and `SlotInv`: in use is one slot for each worker, and what was
asked for together with what is in use fits the limit. So the limit holds although it is
read before a receive and used after it. `OneHandlerEver` needs `HeldInv`: a worker's
delivery is the latest, and its window outlasts the time to the next heartbeat. It is
conditional on `Renewed`: the window is longer than the interval and no extension fails.

**JobQueueProofs: the batch.** `FewestRequests` is about what a loop computes from any list
of sizes. An induction over its turns is needed, and the library's induction theorem takes
an operator as a parameter. The proof goes by sets instead: a nonempty set of naturals has
a least element (`LeastNatural`, from the well-foundedness of the subsets of a finite set),
so a set with 0 that holds the successor of each of its members holds every natural
(`InductionSet`). The set of the positions up to which the loop has a state is such a set
(`LoopExists`), and so is that of the positions at which `LoopInv` holds: the requests cut
so far and the running one divide the positions seen (`Divides`), each within the limits,
and each but the first begins where its predecessor with one more payload would exceed one.
That no division has fewer requests (`CutsFewest`) is an injection: between two successive
cuts of the loop every other division has to cut. `OneOutcomeForEach` and `NothingSentTwice`
rest on `WorkInv` (two workers never have the same request, though they share the counter
across their awaits) and on `OutcomeInv` and `PutInv`: nothing of a request that is not
settled (`Open`) has an outcome or is on the queue.

**SessionRefreshProofs.** `NeverResurrected` needs types and `RowsInv`: what a request
is about to swap is a row and not its absence, so every swap fails on an absent one.
`CallersCoalesce` rests on `RegisteredInv`: a request that refreshes is the one
registered in its container. `LockHasOneHolder` and `EndpointNotCrowded` rest on
`LockInv`. Rows advance (`Behind`): every swap of an unforced refresh stores a row
with a later expiry, or the same expiry and a later lock, or ends the session
(`OrderInv`). So a lock that was replaced does not return, and a put that is still in
flight cannot put a second owner on a row (`OneHolder`). `YoungInv` says that a lock
is taken over only when stale, which gives `OneRefreshAtATime`. A forced refresh may
swap an expired row, and the order fails. `EndsForCause` and `ReadyTokenIsGood` rest on
`CauseInv`: while nothing has gone wrong, the stored token is one the provider accepts, or
is being spent by the one request that holds the lock; a lock left behind by an overtaken
request is older than the row. `ClaimInv` is what a request keeps of the row it read.

**MigrationRunnerProofs.** `MigrationInv` is types, `DbInv` and `RunInv`.

* `DbInv` says what the tables tell of one another between any two steps, so also when
  a run has just died. `RowTells`: behind the statement a progress row points at all is
  done, in front of it nothing has run, and the statement itself may have run only if
  it is not a change of rows; a row that waits names a job that did start.
  `JobsTell`, `CatalogTells`: a running job is the only one of its index, whose entry
  is invalid; what is valid was built.
* `RunInv` says how far a run may be ahead of its row, by its place in
  `runMigrationPlan`: not at all in front of a call, by the open transaction
  (`BatchTo`), or by the one statement that is about to be recorded (`OneAhead`).

`InOrder`, `DmlOnce` and `OneText` follow from `DbInv`. `NotReissued` is the condition
`Sendable`: a run that resumes at a statement has looked at the catalog and at the jobs,
and one that arrives at it from the statement in front finds it not yet sent
(`FreshOrFirst`). At the first statement of a file neither is known, as it may have run
with no row to say so: `NotReissued` and `OneText` exempt it, and `IndexNotReissued`
fails (section 5).

**GsiManagerProofs.** `ManagerInv` is inductive. `TableInv` and `UnderWay` say what a table
that goes has, and that an operation ends with its request. `WantInv` ties the request to
the configuration the stack goes, or goes back, to; `ServedInv` says that a request which
ended well left the indexes it wants; from the two `RestMeansServed` follows. `OrphanInv`
is for `OrphanKeepsIndexes`: while a table is about to leave the stack, its indexes are
left alone by whatever request is sent. `DataInv` finds the owed items in the table,
then in memory, then in both (`NothingLost`). `OldServesUntilNew` follows from the order
of `initiateNextChange` and from what a busy table is.

**AuthBasicProofs.** `SeenInv` says what a request holds at each place.
`CodesUsedOnce`: a row that is there is of a code that let nobody through, and a code
is in one row (`CodeInv`). `AttemptsCapped` counts, with the comparisons made, the
requests that have reserved one (`Used`): the sum is within the attempts of the row
and, once the row is gone, within the cap (`AttemptInv`). `ResetEndsSessions`: the
epoch only grows, and a session that carries the present one is after every bump
(`EpochInv`); a password chosen by a reset is stored, or held to be stored, only
behind that reset's first bump (`PasswordInv`).

**PgliteClusterProofs.** `MutexInv`: who has gone on is the head of the queue.
`SchemaInv`: what the cluster remembers is the session's path; in a transaction it is
that of the innermost block, and the path a rollback returns to is the outer block's.
`WorkInv`: each change is in one frame of the open transaction together with its
listener, or is settled, kept or undone, for good. `StatementsFindInnermostSchema`
follows from `SchemaInv`; that the innermost block is the statement's own cannot follow,
and is not so (section 5).

**RealtimeProofs: the server side.** `HandoverInv`. `WireInv`: a message is on the wire
once, and only if the query found the row. `SideInv`: while a message is under way and has
kept a side, `live` says that side. `RunsInv` counts: each path runs the handler at most
once, in its turn, and the path a subscription stays on does so in its turn. `EndInv`: who
has unsubscribed has no listener, and unless it was too early no open socket.

**RealtimeProofs: the client side.** `ClientInv` is types and, for each connection, `WayInv`
(one in use has exactly one of socket, timer and refresh, or is in a handler that will see
to it), `ConnectionInv`, `CallInv` (what a handler that calls the application may find when
it goes on) and `PoolInv` (the pool holds the connections in use, each under its endpoint).
An action changes one connection and leaves the others' shares alone (`ActLifts`), so there
is a lemma for each action about its own connection. The shares hold only if callbacks do not
both unsubscribe and subscribe (`NotBoth`): the two together put a successor in the pool
under a handler that has not ended. `NobodyIsForgotten` needs `ToldInv` besides: who is
subscribed is registered, or was told that it is down before a handler ended its
registration. A callback that subscribes registers behind the one that tells.

Some theorems state properties that no run has, because they cost the states of a run and
the proof covers them: `OrderedUpToSkew`, `NoEntryLost`, `VersionIdentifies` (tracker),
`SlotsBounded`, `DrainSettlesIdle` (poller), `SentOnce` (batch), `OnePerContainer`,
`ReadyTokenIsGood` (session), `OneText` (migration), and the type invariants.
`OwnersAreNotEvicted` is the other half of the run `realtime_eviction`: what that run
violates holds of every application whose callbacks do not do both.

Only model-checked is liveness, as the prover has no fairness or `ENABLED`: `Resolves`,
`SubmissionConverges`, `EveryMessageResolves`, `StoppedTaskEnds`, `EveryRequestEnds`,
`Completes`, `EstablishedSettles`, `RequestEnds` and `CallsReturn`. `HistorySettles` of
`JobDelivery` is stated and in no run. No proof
shows that the values of constants in a run are large enough; the theorems make the
question moot for what they state.

## 5. What the models refute

Three are findings of `PROJECT.json`. One has a run of its own. `NoForeignEviction`: the
terminal branch of `onclose` deletes the pool's key without asking who holds it. An
`onDisconnect` that unsubscribes the last channel and subscribes again has by then made
a successor, and it is the successor that is evicted (`aws-middleware.ts:553`, against
the comment at 582).

`CompletesAlways` is `Completes` without the exception. A run that dies after the last
save of a file, or whose recording transaction fails, leaves a row that names the step
behind the last one. `statementPosition` (`runner.ts:266`, `105-106`) reads the kind of
that step, and every later run ends in a TypeError: the file is never recorded and no
file behind it runs, against "the file resumes where it stopped"
(`bb-database/README.md:202`). TLC's counterexample: `Commit` of the last batch, `Abort`,
then `NoSuchStep` for ever.

`OwnSchema` says that each statement addresses its own block's schema.
`queryCountedInTransaction` (`pglite-cluster.ts:394`) asks only that the handle is open:
`a.transaction(async (txA) => b.transaction(async () => { await txA.execute(…) }))` runs
a's statement under b's `search_path`, although each call is awaited. `a.execute(…)` at
the same place nests and finds a's schema, so "run in it, as `tx` does. Prefer `tx`"
(`bb-database/README.md:211`) does not hold there.

Others met while modelling. Each follows from the formula and constants given; those with
a name are stated in their modules, without a run.

| Claim | Where | What refutes it |
|---|---|---|
| "A retry appends another `processing` entry rather than a second terminal state" (`bb-async-job/README.md:213`), `waitUntilComplete` "returns the final" status (26), `error` "Set when `state` is `failed`" (233) | `status.ts:318-325` | `CalmPromise` without `calm` in `delivery`: a delivery dies between `complete` and its acknowledgement, or two overlap |
| an absent record is "Gone" or "never tracked" (`status.ts:236`) | `status.ts:239` | with `StaleReads` the get of `backdateSubmission` misses a record that exists, and `submittedAt` is never corrected |
| "Stop pulling new work immediately" (`container-runtime.ts:312`) | `index.aws.ts:361` | the receive in flight at `Stop` is still dispatched |
| "the runtime exits before ECS force-kills it" (`container-runtime.ts:55`) | `container-runtime.ts:326` | `runContainer` returns after the grace period, and a worker that still runs keeps the process alive until `Kill` |
| the `null` indexes can be retried without double-enqueuing (`bb-async-job/DESIGN.md:82`) | `index.aws.ts:541` | with `LostReplies` a payload reported as failed is on the queue |
| "complete or failed once the job settles" (`types.ts:141`) | `status.ts:318` | `Settles`: a delivery that overlaps the last attempt records `processing` after that one's `failed` and then throws, which records nothing; no delivery died and no write failed |
| "Re-read and use their result" (`session-manager.ts:288`) | `session-manager.ts:291` | `LoserUsesResult`: the loser of the race for the lock reads the row once and, the winner being at the token endpoint, is denied |
| "the server still gates access by checking the stored row" (`session-manager.ts:111`) | `session-manager.ts:287` | with `StoreErrors` a failed put of the lock is taken for a lost race, and the row read next, though its token has expired, is admitted |
| "We own the lock" (`session-manager.ts:295`) | `session-manager.ts:286` | `OneHolder` without `Unforced`, 4 forced requests, 3 containers: a put delayed past the takeover reinstalls an equal lock |
| sign-out "invalidates the session server-side" (`bb-auth-oidc/README.md:201`), "revokes the refresh token" (403) | `session-manager.ts:180-185` | an error of the store is swallowed and the row stays; a stale read admits a later request; the token a concurrent refresh has just stored is not revoked |
| "The next deploy detects the edit" (`bb-database/README.md:202`) | `runner.ts:253` | `OneText` with the first statement included: its save was lost, no row holds the hash |
| "a run that resumes at such a statement reads the catalog before re-issuing it" (`bb-database/DESIGN.md:84`) | `runner.ts:288` | `IndexNotReissued`: a file that begins with `CREATE INDEX ASYNC` and loses the save behind it has no progress row; the statement is sent again and rejected, on every deploy |
| the one step that may run unrecorded is an ASYNC one (`bb-database/DESIGN.md:84`) | `runner.ts:298-302` | a DDL statement whose save is lost is sent again (`Exists`), on every deploy |
| dropped is "what a failed index job leaves behind" (`async-ddl.ts:97`) | `runner.ts:218-230` | a job that completes between `ReadCatalog` and `ReadJobs` has its valid index dropped and built again |
| "Overall delivery is still at-least-once" (`bb-realtime/DESIGN.md:90`), "exactly once" (`server-subscribe.ts:22`) | `server-subscribe.ts:43` | `AtLeastOnce` of `ServerSubscribe`: a message queried before the row is indexed and emitted after the socket is live is in neither path |
| an `unsubscribe` ends the subscription | `bb-realtime/src/index.aws.ts:400-410` | `SilentAfterUnsubscribe` with `EarlyUnsubscribe`: called before the secret has arrived it finds no socket to close; the one opened afterwards is nobody's and runs the handler |
| "once a subscription is established, each published message runs a server-side handler once" (`bb-realtime/DESIGN.md:88`) | `index.aws.ts:81`, `server-subscribe.ts` | `RowExpires`: only pings renew a row and a server-side subscription sends none; after `CHANNEL_TTL` publishes miss the socket, and with `live` still set the emitter does not take over |
| a connection that is subscribed to reconnects (`aws-middleware.ts:536`) | `aws-middleware.ts:276,309,553` | `OneWayForward` with callbacks that do both: the successor evicted in the finding above is not the pool's any more, so after its next drop the refresh ends without a socket, and its subscribers stay down with no attempt under way |
| `established` "Resolves when the server confirms", "Rejects on auth failure" (`bb-realtime/README.md:62`) | `aws-middleware.ts:600-617` | `NobodyForgotten` with a callback that subscribes: the give-up rejects what is pending, then calls `onDisconnect`; a `subscribe` made there joins the connection that is torn down next, hears nothing and its `established` neither resolves nor rejects |
| "A failed subscribe rejects only that subscription's `established`" (`bb-realtime/DESIGN.md:51`) | `aws-middleware.ts:472-481` | `SubscribeError`: the refusal of one `subscribe` drops every subscription of the channel, an established one too |
| "… items restored" (`gsi-manager-lambda.ts:282`) | `gsi-manager-lambda.ts:278-280` | `NothingLost` with the refused items owed: nobody reads `UnprocessedItems` |
| a rollback listener runs "if the work done inside this transaction is undone" (`pglite-cluster.ts:99`) | `pglite-cluster.ts:334-346` | `NothingSilent`: a callback that swallows a statement's error commits an aborted transaction, which PostgreSQL rolls back without an error; neither the caller nor the listeners hear of it |
| "Serialized per cluster" (`bb-database/DESIGN.md:122`) | `pglite-cluster.ts:138` | inside one callback only calls that are awaited one by one are. The model assumes that; a sibling's call that runs beside the block's own would share its savepoint and its schema |

## 6. Not modelled

* The mock runtimes, except where they are a special case (`StaleReads = FALSE`); the
  in-process queue of the mock, which runs no job twice at once.
* Several migration runs at a time. Nothing in the runner keeps them apart; the
  provider polls one at a time.
* Clock skew, except between the hosts that write a job's record: the session model has
  one clock, and a skew of `staleLockTimeoutMs` is a takeover of a fresh lock. The run
  `delivery` has one clock too; what its safety properties say holds for any `MaxSkew`
  (section 4), `SubmissionConverges` was checked with one clock only.
* Of the GSI manager: two requests at a time, which CloudFormation does not send; a
  table that is changed by hand. A Lambda that ends while the sandbox's table is dropped
  loses the items it holds in memory; `NothingLost` is about scans and restores that end.
* Of Realtime: minting and checking tokens, the sweep of the connections table, the mock
  server. The client's keep-alive is a flag of the connection. A frame of type `error`
  without a channel (`aws-middleware.ts:492`) is not sent by the server.
* Of basic authentication: the lockout counter of sign-in, the list of signed-out tokens,
  cookies, other users. Several users share no row. A sign-in that compared the password
  and stamps its token after the last bump carries the new epoch: `NoSessionOutlivesReset`
  is about stamps before it. It speaks of bumps that were carried out, so it does not
  notice the absence of the second one of a reset (`index.ts:671`).
* Of the cluster: `destroy()`, the recovery of the data directory, statements of one
  callback that are not awaited one by one; the Data API and DSQL engines.
* Contents: payloads, claims, SQL. Retention of one job's record during its delivery.
* The parts marked `not_modelled` in `PROJECT.json`, for the reasons given there. By lines
  most of the repository is among them: CDK constructs, the hosting adapters, generators,
  command-line tools, test applications and the flows of Cognito, whose state is in the
  service. They synthesise, format or forward; there is no protocol in them to check.

## 7. Plan

Done: the record, its delivery by both paths, batch submit, the session manager, the
migration runner, the GSI manager, both sides of Realtime, basic authentication and the
PGlite cluster, each with proofs of its safety properties.

1. The lockout counter and the list of signed-out tokens of basic authentication.
2. The in-process queue of the mock, with the promise of `AtLeastOnce`.
3. Abstract specifications of the PGlite cluster (blocks run one after the other) and of a
   session (a register that ends), with the refinements proved.
4. The agent's turns and the challenges of Cognito, as far as their state is in the code.
