# Lite2API in TLA+

Lite2API is a single-binary AI gateway written in Go.  Clients call an
OpenAI-compatible interface with a managed key; the gateway selects an upstream
account, rewrites and submits the request, fails over when that is safe, and
relays the answer.  An administrative interface changes the configuration,
client keys and accounts of the running process.

This directory holds TLA+ modules of the parts in which concurrency, failure or
order decide about correctness, TLC configurations that check them on small
instances, and TLAPS proofs of what matters most for every instance.

* `PROJECT.json` maps every definition to the lines it models, and lists the
  runs, the mutant that breaks each property, the hazards and the theorems.
* A run is `tlc -config <run>.cfg <module>`; a proof is `tlapm <module>_proofs.tla`.
  Some of these hold the proofs of a second module: `StreamRelay_proofs` of `Failover`,
  `Readiness_proofs` of `RequestLog`, `OAuthRecovery_proofs` of `AccountChanges`.  A module that is
  extended next to another has names of its own: `LogSpec`, `ChangesSpec`, `LogTypeOK`.

Paths below are relative to `src/internal/gateway/` unless they say otherwise.

## 1. Inventory

| Component | State | Operations | What is hard | Correct when | Module |
|---|---|---|---|---|---|
| Account leases, capacity queue (`runtime.go`) | active counters and notifier shared by all scheduler generations; one immutable scheduler per configuration | select, wait, acquire, release, reload | load and swap interleave; subscription, scan and sleep against release and broadcast; leases outlive reloads | counters exact; limits hold; no request sleeps through a release | `Scheduler`, `LeaseLedger` |
| Account health (`runtime.go`, `gateway.go`) | breaker per account and scope: failures, sequence fences, end of the circuit | begin attempt, success, failure, denial, reload | results arrive in any order and after reloads | the newest evidence decides; nothing counted twice or for another credential | `AccountHealth` |
| Failover loop (`gateway.go`, `oauthrecovery.go`) | attempt, excluded accounts, buffered answer, record | select, submit, refresh, classify, retry, relay | a submission may be executed after a timeout; earlier answers are replayed | work done at most once; truthful outcome and attribution; bounded cost | `Failover`, `SubmitOnce` |
| Managed client keys (`clientkeys.go`) | key file, snapshot, counters and a packed rate word for each key | create, update, delete, authenticate, complete | policy changes under admitted requests; crash between file and snapshot | counters exact; limits hold; revocation is final | `ClientKeys`, `CommitRegister` |
| Configuration commits (`gateway.go`, `admin.go`, `changecontrol.go`, `internal/config/config.go`) | file, published state, log configuration, authenticator generation | reload, update at a revision, save, publish | several administrators, an editor, failures at each step, crash, power loss | acknowledged changes add up, survive restarts, and are accompanied by the right log and sessions | `ConfigCommit`, `CommitRegister` |
| Body memory (`gateway.go`, `request_rewrite_operation.go`) | one byte counter, a lease for each request | charge, shrink, release | the transport may read a body after its call returned; limits change | counter exact; what is retained is charged; memory comes back | `BodyBudget` |
| Request log (`requestlog.go`) | queue, writer goroutine, file and backups | enqueue, rotate, reconfigure, close, recover | crashes between renames, failing file operations, close during a move | newest records retained in order and found again; close returns | `RequestLog` |
| OAuth recovery (`oauthrecovery.go`) | calls in flight and remembered, by credential | lead, follow, record, sweep | leaders whose client leaves, expiry, capacity | one refresh at a time; throttled; everyone answered | `OAuthRecovery` |
| Administrator sessions (`adminauth.go`) | generation, sessions, login failures | login, accept, reconfigure | login racing a commit | no session outlives the boundary it was made under | part of `ConfigCommit`; lockout and session limit planned |
| Observations and readiness (`stats.go`, `operations.go`, `server.go`) | ring of records, last observation per route, fingerprints | record, configure, probe | commit in two steps; eviction; probe reads in several steps | verdicts rest on evidence of the current route | `Readiness` |
| Routing order (`runtime.go`, `internal/config/route_profiles.go`) | cursor, sticky map | order candidates | ties and rotation | every candidate once; priority before load | planned (`Scheduler` allows every order) |
| Completion contracts (`completion_*.go`, `response_completion.go`) | parser state over the events of an answer | feed event, finish | truncated, duplicated and out-of-order events | an answer is taken for complete exactly when it is whole | `CompletionStream`; buffered documents planned |
| OAuth account mutations, imports (`oauthadapter.go`, `oauthimport.go`, `accountimport.go`) | credential files of the adapter, accounts and routes of the configuration, the job under `reloadMu` | delete, disable, enable, log in, import, compensate | two stores and no transaction: either fails, or does what it was asked and loses the answer; the adapter changes files by itself | both changed, or both as they were, or the job says that it could not | `AccountChanges`, `SourceSettings` |
| Capability discovery and verification (`capability*.go`, `internal/config/capab*.go`) | capabilities, evidence and exclusions of each account | poll catalogs, check a capability, merge, rename, move routes | catalogs and results come from calls made without a lock and are merged into a later configuration | evidence is of what is configured now; exclusions survive; a pool announces what it can serve | `Capabilities`, `AccountChanges` |
| Admission and lifecycle (`server.go`, `maintenance_admission.go`) | the in-flight counter client calls and maintenance probes share, signals | admit, probe, shut down | probes against calls at the limit; shutdown order | the limit holds and every slot comes back | planned |
| Stream relay (`gateway.go`, `response_completion.go`) | goroutine, body, channel, timers, preview | relay an answer, buffer a refusal | timer against a late chunk and a slow client; waiting for a goroutine that reads a stalled body | no goroutine outlives its lease; a success is whole; a small failure is hidden; every handler returns | `StreamRelay` |
| Request inspection (`request_inspector.go`, `request_requirements.go`, `continuation.go`) | none | detect features, match declarations | pure | a declared scope allows the credential that serves it | the match in `Capabilities`; detection not modelled |
| Adapters, tests, console, deployment | none, or data only | plumbing, browser code, scripts | data, not control | - | not modelled |

**How they interact.**  A request loads one published state (`gatewayState`) and
keeps it to its end: configuration, scheduler, authenticator generation.  It
authenticates its key (`ClientKeys`), charges its body (`BodyBudget`), runs the
loop (`Failover`), which takes leases (`Scheduler`), reports results
(`AccountHealth`), may join a credential refresh (`OAuthRecovery`), and finally
enqueues a record (`RequestLog`) and leaves an observation of its route, which the
probe of an orchestrator judges (`Readiness`).  The answer passes through a goroutine
and the handler to the client (`StreamRelay`, which extends `Failover`); before it counts
as one, its events are held against what the request asked for (`CompletionStream`).
Jobs that change credentials hold `reloadMu` over calls to the OAuth adapter and
the commit that follows, while catalogs are polled and capabilities checked without it
(`AccountChanges`).  A commit (`ConfigCommit`) publishes a new state;
the capacity registry, health objects of unchanged accounts, key counters and
log writer carry over.  Other modules share no variables: each abstracts its
neighbours by what it needs of them (`Scheduler` leaves circuits open,
`Failover` lets any eligible account be selected, `ConfigCommit` has the log
writer's configuration only).

## 2. Modules and code

Every variable is a field or a local of the code, or is marked *history* where it
records what happened for a property.  Compare-and-swap loops that swap in a
function of the very value they compared (`clientKeyRuntime`, body bytes) take
effect in one step, the successful swap: the failed rounds change nothing.
`tryAcquire` is different, because it returns to the caller between rounds, and
has its load and its swap as separate actions.

* **`Scheduler`**: `SelectForRequest` step by step (`Arrive`, `Subscribe`, `Consider`,
  `LoadActive`, `SwapSucceeds`/`SwapFails`, `FindFull`, `Sleep`, `WakeUp`, `GiveUp`),
  `Release` as decrement and `Broadcast`, `Reload` as replacement of the generation.  Requests stay on the
  generation they were pinned to.  `LeaseLedger` is what it promises: sets of
  leases granted under the limit of the request's own configuration and returned
  once.
* **`AccountHealth`**: one account in one scope, many attempts.  `BeginAttempt`
  draws a sequence number, the `Report*` actions run under the breaker's mutex,
  `Reload`/`Remove` keep or replace the health object by identity.
* **`Failover`**: the loop of `ServeGateway` for one request, with `targeted` for
  an explicit target chain; an upstream executes a submission whose headers were
  written at any later time.  `SubmitOnce` is its abstract specification.
* **`StreamRelay`**: `Failover` with the reading of answers spelled out.  The goroutine is
  `ReadReturns`, `ReadEnds` (its body was closed) and `OfferDropped`; the handler of `streamResponse` is `Take`,
  then `Spoilt`, `Hold`, `Show` or `ShowFails`, then `CarryOn` or one of its returns, each of which is `Leave` (the deferred
  functions) until `AwaitReader`; `bufferResponse` is the same with kind `refusal`.
  `StartRelay`, `Buffered` and `RelayReturns` take the steps of `Failover` that they
  decide, so that dropping the relay's variables gives back a behaviour of `Failover`.
* **`ClientKeys`**: `Persist` then `Publish`, `Sync` by the kernel, `Crash` and
  `PowerLoss`; `Lookup`, `Check`, `CountInMinute`, `TakeSlot`, `Complete` for a request.
* **`ConfigCommit`**: `Begin`, `StageLog`, `Save`, `SyncDirectory`, `Revoke`, `Publish` with the
  failures of each; `Edit` by hand, `Review` by administrators, `Visit`/`Login` by visitors.
* **`CommitRegister`**: what both stores promise, without counters, locks or stages: a value
  that is in use, at most one that is about to be, the file, and what a power failure
  would leave of it.  A change is made of the value in use (`Write`), seen as a whole (`Show`) or
  refused, and a restart finds the file or its durable content.  `ConfigCommit` implements it with
  `Syncs <- TRUE` (a change is durable before it is seen), `ClientKeys` with `Syncs <- FALSE` and
  without anybody else who writes the file.
* **`BodyBudget`**: every charge, shrink and release of `ServeGateway` and `doUpstream`;
  a lent body is read until the transport closes it or the context ends.
* **`RequestLog`**: `Enqueue` against the goroutine's `Take`, `Shift`, `Truncate`, `Write`,
  `Apply`, `Open`, `Finish`; `Fail` at any file operation, `LogRestart` at any point.
* **`OAuthRecovery`**: `Ask`, `Lead`/`Follow`, `Record`, `Sweep` inside the coordinator's lock.
* **`Readiness`**: `Send`, `End`, `Report` of a request (the fingerprint is taken first,
  the time when it ends, the observation is offered later), `Announce` and `Publish` of
  a commit, `Restart` with recovery from the log, and the probe as `ProbeBegins` (clock
  and state), `ProbeReadsStats`, `ProbeAnswers`.  Circuits are whatever the probe finds at
  each of its two looks.
* **`CompletionStream`**: `Observe` dispatches one event to `Feed`; `Accepts` and `After`
  are the error checks and the updates of `observeChatToolStream`,
  `observeResponsesToolStream` and `observeMessagesToolStream`, with the part of
  `sseEvent` that belongs to the protocol.  `Whole` is the reference: it looks at the
  history of all events and says which answers are whole, without a parser's state.
  Events go on being sent after a failure, so that a whole answer that was refused at
  its third event is noticed at its last.
* **`Capabilities`**: what an account declares, as operators on lists: `Reconciled` and
  `MergedSynced` merge a catalog, `Invalidated` drops evidence when a connection or key
  changes, `Recorded` adds the result of a check, `Allowed` and `Resolved` answer for a request.
* **`SourceSettings`**: accounts and routes together: `Valid` (what a commit refuses),
  `Reconciliation` and `Ensured` after a credential changed or came, `Discovered` after a
  poll with the routes that follow a renamed model, `WithImport`.
* **`AccountChanges`**: the processes.  A job is a record that goes through `Apply`, `ReadCatalog`,
  `Save`, and on an error or at its deadline (`Expire`) through `Restore`, `RestoreStatus`, `Verify` and
  `RestoreConfig`; an import through `Inspect`, `Snapshot`, `Upload` for each file and `Ensure`; a file may be named twice
  in an import and is read before it is replaced the first time only.
  `Poll`, `Read`, `PollCommit` and `Check`, `Probed`, `CheckCommit` run beside it, as do edits by
  administrators and what the adapter does by itself (`Adapter`).  Each call is answered, fails, or
  loses its answer.

## 3. Runs

| Run | Checks | Instance |
|---|---|---|
| `SchedulerQueue` | `LeasesExact`, `SleepersAreWatched`, `ImplementsLedger`, `FreedSlotIsNoticed` | two requests, two accounts, three configurations that raise a limit, lift it and remove an account |
| `HealthOrder` | `CountsExact`, `NewestEvidenceRules`, `HealthFollowsIdentity`, `ClosedByNewerSuccess` | two handlers, two identities, two health objects, three attempts each, threshold 2 |
| `FailoverPool` | `AttemptsAccounted`, `RelayTruthful`, `NoReplay`, `ImplementsSubmitOnce`, `Served` | module `StreamRelay`: two candidates, one behind the trusted adapter, three attempts, pooled and targeted, answers of up to three chunks, one of them held back |
| `KeysInUse` | `CountersExact`, `LimitsHold`, `SyncedRevocationHolds`, `ImplementsRegister` | three requests, two keys, three policies, three changes, two minutes |
| `KeysStraggler` | `RateEnforced` is violated | three requests, one key, two minutes |
| `ConfigChanges` | `WriterAgrees`, `SessionsKeepBoundary`, `RestartKeepsChanges`, `ImplementsRegister` | two administrators, two visitors, one setting of each kind, three transactions, one edit, one restart |
| `BodyLimits` | `ReservationsExact`, `NeverRefusedAlone`, `NobodyStuck` | two requests, limits of one and two units, two attempts |
| `LogFiles` | `LogConsistent`, `SuffixRetained`, `RestartRemembers`, `CloseReturns` | three configurations over two paths with three, one and no backups, five records, two failures, one restart, one reconfiguration |
| `RecoveryShared` | `CallsShared`, `Throttled`, `EveryoneAnswered` | two requests, two credentials, room for one call |
| `ReadinessEvidence` | `EvidenceIsCurrent`, `ReadyIsProven` | two requests, two routes in two configurations, room for one observation, one commit or restart, a clock of two values and evidence fresh at its own time only |
| `CompletionVerdict` | `CompleteIsWhole`, `WholeIsComplete` | fifteen requests of three protocols, up to seven events out of at most nine, one of which may come again where there are seven or fewer |
| `AccountChanges` | `ChangesAreWhole`, `VerifiedIsProven`, `PoolsDeclareWhatTheyServe`, `ExclusionsKept`, `DiscoveryIsQuiet` | module `MCAccountChanges`: a pool and a direct source, two models, three credential files, an import that names one of them twice, two configurations to start from (with a pool and without), three turns to spend on jobs, polls, checks, edits, changes by the adapter and faults |

**Why the bounds are enough.**  Each hazard needs few actors: two to race and
one to be the witness.  Limits are small enough to be hit (one slot, threshold
2, one remembered call, a queue of two, budgets of a few units), and every
counter is bounded above the point where its behaviour repeats: three sequence
numbers order an old success, a failure and a newer result; three transactions
let a refused change, an edit and a change meet; five records fill a file and
three backups and rotate once more, so that a crash in the middle of that can be told from none.  Seven events hold a whole answer with one call in
two pieces, with two calls, or with two choices, in each protocol; among the others
offered are those that must be refused next to it.  Three chunks are one held back, one that
fills the preview's place and one beyond; the proofs about the relay have no bound.  Three turns
are a job, something that races it, and a fault; jobs under one lock do not
race each other.  Every bound is a constant whose name begins
with `Max`, except `QueueSize`.  `CHECK_DEADLOCK FALSE` stands only where a bounded
clock, counter or number of events or turns ends the behaviours, where the gateway stays down on a broken
file, or where the log is closed.  Symmetry is used in safety runs only.

**Fairness.**  `Scheduler!FairSpec`: goroutines run and upstream calls end (their
timers are in `Failover`); the queue timer gets *no* fairness, the wake-up has
to come from the notifier.  `StreamRelay!RelayFairSpec`: the handler runs, because every wait
of it has a timer or a deadline (queue, refresh, response headers, error body, writes to the
client); timers run out; the goroutine runs once it has been told to stop or its body was
closed.  A `Read` on an open body is *not* fair: an upstream may stall for ever, and
`Served` says that the request ends all the same.  `BodyBudget` needs none: `NobodyStuck` says that
somebody other than the transport can always go on, and a request has finitely many steps.  `RequestLog!FairLogSpec`: the goroutine
runs.  `OAuthRecovery!FairSpec`: handlers run and a refresh ends within its 12
seconds.  Go's scheduler runs every runnable goroutine, which is what weak
fairness says.

**Mutants.**  Above an action stands a variant introduced by "What if", a
plausible bug of that code: a missing fence, a late subscription, a limit compared
one too late.  Each property of a passing run is violated under the run's own
configuration when one of them takes the action's place.

## 4. Theorems

| Module | Invariant | Results |
|---|---|---|
| `Scheduler_proofs` | `IInv == TypeOK /\ StageInv /\ LeasesCounted /\ WatchInv /\ BoundInv` | `LeasesExact` (`TypeOK`, `LeasesCounted`, `WithinSomeLimit`), `SleepersAreWatched` (`NoLostWakeup`, `SleeperHasWaker`), `ImplementsLedger` |
| `AccountHealth_proofs` | `IInv == TypeOK /\ CreatedInv /\ HealthFollowsIdentity /\ SequenceInv /\ FenceInv /\ CountInv` | `CountsExact` (`TypeOK`, `FailuresCounted`), `HealthFollowsIdentity`, `NewestEvidenceRules`, `ClosedByNewerSuccess` |
| `StreamRelay_proofs`, on `Failover` | `IInv == TypeOK /\ StageInv /\ SubmissionInv /\ ReportInv /\ ReportedOnce /\ AnswerAttributed /\ CostInv` | `AttemptsAccounted` (`TypeOK`, `ReportedOnce`, `AnswerAttributed`, `SubmissionsBounded`), `NoReplay`, `ImplementsSubmitOnce` |
| `StreamRelay_proofs`, on `StreamRelay` | `IInv /\ RelayInv`, `RelayInv == RelayTypeOK /\ StageOfRelay /\ ChunksInv /\ TimerInv /\ AnswerInv` | `RelaySpec => Spec` of `Failover`, with it the three results above, and `RelayTruthful` |
| `ClientKeys_proofs` | `IInv == TypeOK /\ ActiveCounted /\ PublishedIsPersisted /\ PolicyInv /\ WriterInv /\ RateInv /\ WithinSomePolicy` | `CountersExact`, `LimitsHold`, `PublishedIsPersisted`, `SyncedRevocationHolds`, `ImplementsRegister` |
| `ConfigCommit_proofs` | `IInv == TypeOK /\ WriterInv /\ TargetInv /\ DiskInv /\ GenerationInv /\ SessionInv /\ SettledInv` | `WriterAgrees`, `ChangesAddUp`, `SessionsKeepBoundary`, `RestartKeepsChanges`, `ImplementsRegister` |
| `BodyBudget_proofs` | `IInv == TypeOK /\ BytesAccounted /\ WithinSomeBudget`, and `Sound` of every request | `ReservationsExact`, `NeverRefusedAlone` |
| `OAuthRecovery_proofs` | `IInv == TypeOK`, finitely many calls remembered, `HandlerInv /\ CallInv /\ EntryInv /\ GoodInv /\ KeptInv /\ Coalesced /\ FreshEvidence` | `CallsShared`, `Throttled` |
| `Readiness_proofs` | `IInv == TypeOK /\ RequestInv /\ RecordsInv /\ NewestKept /\ CommitInv /\ ProbeInv` | `EvidenceIsCurrent`, `ReadyIsProven` |
| `Readiness_proofs`, on `RequestLog` | `LogInv == LogTypeInv /\ ActorInv /\ FlowInv /\ FilesInv /\ RecordsInOrder /\ OpenInv /\ SizeKnown /\ NothingVanishes` | `LogConsistent` (`LogTypeOK`, `RecordsInOrder`, `SizeKnown`, `NothingVanishes`) |
| | `KeptInv == LogInv /\ OnlyInv /\ NewestInv /\ EndInv /\ CountInv` | `SuffixRetained`, `RestartRemembers` |
| `OAuthRecovery_proofs`, on `AccountChanges` | `ChangesInv`: no job, or `JobTypeInv /\ StagesInv /\ AdapterInv /\ DocumentsInv` of the job | `ChangesAreWhole` |
| | `BackedInv`: `Backs` and `CurrentFacts` of the configurations in memory and on disk, `Backs` of the job's document, `PollInv`, `CheckInv` | `VerifiedIsProven` |
| | `DeclaredInv`: `Lists` of the file and of the job's document, relative to what is published, and `CatalogsInv` | `PoolsDeclareWhatTheyServe` |
| | `ExcludedInv`: `Hands` of a job, and which settings the file may hold meanwhile | `ExclusionsKept` |

They hold for any numbers of requests, accounts, configurations, limits,
attempts, thresholds, keys, policies, settings, body limits, credentials, routes, records,
backups, sizes of files, imports and configurations to start from that satisfy the assumption of the component's module.  The assumptions say what the code
gives: an account, a key or a request is never the value that stands for "none"; the
requests under way are finitely many where they are counted or summed, as are the scopes
of observations; a log has a size above zero and one of its configurations asks for the most
backups (there are finitely many); an import names at least one file, and the adapter knows of a file
what `FileStates` lists; the shared account and the pools are among the accounts; and no budget reaches the largest integer, as `internal/config/config.go:468`
refuses bodies above 256 MiB.
The invariants of the later modules were checked by TLC on the instances of the runs
before they were proved.  `PublishedIsPersisted` and `ChangesAddUp` are proved and in no run:
there, `ImplementsRegister` says as much without the history variable `agreed`.

* *Scheduler.*  `LeasesCounted` alone is not inductive for the wake-up:
  `StageInv` says which stages hold a lease and what they remember, `WatchInv` that
  a subscribed request which is not woken has seen each account it found full at its
  limit since it subscribed, or a releaser is about to broadcast.  A release lowers
  a counter and moves to `notify` in one step, so the second disjunct takes over until
  `Broadcast` wakes everybody.  `BoundInv` bounds the counters by some configuration's
  limit: the value loaded was under the pinned one, and the swap succeeds on it only.
* *Account health.*  `SequenceInv` bounds every recorded attempt by the breaker's
  sequence and tells the attempts in flight apart; `FenceInv` relates `latestSuccess`
  and the failure fence to the evidence delivered; `CountInv` is the exact count.
* *Failover.*  `SubmissionInv` says what may still be executed at each stage:
  nothing while an account is selected.  That is what `NoReplay` and the
  refinement of `SubmitOnce` need.  `CostInv` counts: the submissions of earlier attempts
  are theirs plus one for each trusted candidate already tried, and a refresh adds one
  for the candidate held now; an account that was tried is excluded, so each adds at most one.
* *Relay.*  `RelayImplementsFailover` shows that every step of `RelaySpec` is a step of `Failover` or
  leaves its variables alone, so what was proved there carries over.  `StageOfRelay` ties the
  stages of the handler to those of the loop, `ChunksInv` says where each chunk is
  (what was taken is shown or held back, but for the one in hand), `TimerInv` that the timer stands
  still while the client is served, `AnswerInv` what a finished relay has left to the record.
* *Client keys.*  `ActiveCounted` needs to know that a request goes on with a key and a
  policy it has read (`PolicyInv`), also when the key is deleted meanwhile; `WriterInv`
  that a change in progress never gives a policy to a revoked key, which is what makes a
  revocation final.  The rate is bounded through the packed word: `RateInv` says that it counts
  at least the requests of this minute and at most some policy's rate, unless a straggler
  set it back (`late`): that exception is the run `KeysStraggler`.
* *Configuration.*  Two facts are behind the results on what is kept: what is on the disk and on the
  medium at each stage of a transaction (`DiskInv`), and that its target is the agreed
  configuration with one change (`TargetInv`).  For the sessions, `GenerationInv` allows the
  authenticator to be ahead of the published state only between `Revoke` and `Publish`, and only
  for another boundary, and `SessionInv` says that whoever has the current generation, in
  a session or in a request pinned long ago, has the boundary of the state that runs.
* *Register.*  `ClientKeys` and `ConfigCommit` are mapped onto `CommitRegister` from their state
  alone, without the history variables of the other properties.  For the keys, `WriterInv`
  gives the step of `Publish`.  For the configuration, `TargetInv` makes a saved
  target a change of what runs, and `SettledInv` says that the file was synced, or edited
  since, before sessions end and the state is published.
* *Body memory.*  `BytesAccounted` compares a counter with a sum over all requests.  That
  one request's change changes the sum by as much is proved without induction over sets: a
  smallest set for which a sum would fail is empty or loses an element.  `Charged`, the
  main part of `Sound`, says for each stage what is held and that the reservation is its
  size and what is about to be encoded; a body is lent only during a call.
  `NeverRefusedAlone` follows because the pinned limit bounds each part and the budget
  covers two bodies, a rewrite and the growth of another.
* *Credential recovery.*  `EntryInv` and `HandlerInv` tie leaders to the entry the coordinator
  has for their credential, so two leaders would have the same call.  `KeptInv` says
  that a remembered result is still in the map until its memory is over: `Sweep` removes expired
  calls only.  `CallInv` bounds the age of a success a follower may use.
* *Readiness.*  `NewestKept` is inductive with `RecordsInv`: a record that gives way is the
  oldest of all, and the smallest time among finitely many is proved to exist; a commit removes
  records of routes that were replaced, and evidence for the new ones starts over.
  `ProbeInv` says that what the probe read was reported, `CommitInv` which routes are announced
  while a commit is between its two steps.
* *Request log.*  What order and accounting need is in `FlowInv`: numbers grow from the written
  records over the one in hand to the queue, so what is written next is newer than all that any
  file holds (`FilesInv`).  `OpenInv` says which file may still be open when an attempt to move has
  failed.  For what is retained, `OnlyInv` says where the one empty place of a rotation is, and that
  only full files are moved; with it `EndInv` follows the files through a rotation, also one that
  a crash cut short and a start does over: the records pushed out are older than all that are kept.
  `CountInv` counts them: a backup `m` that exists has `(m - restarts) * size` records at
  and below it, and one file more until it has been moved up.  Each restart may take one file of that,
  because the rotation that is done over moves the backups beyond the gap once more and drops the
  last of them.  `NewestInv` keeps the newest record in sight at each rename.
* *Account changes.*  The stages of a job are `Forward` or `Backward`.  Going forward, the
  configuration is what it was in memory and on disk (`DocumentsInv`), and of the
  adapter's files those in `order` are as asked, all others as before (`AdapterInv`).  Going
  backward, `order` gets shorter as files are put back: those that left it are as before, or the job
  has `failed` and will say that it is incomplete.  Lemma `JobUndoable` says that every stage is
  one from which compensation may begin, whatever happened to the call that failed.  Files that the adapter changed
  itself meanwhile (`touched`) are excepted.  Nothing is said of what the folds over accounts and
  routes compute: the proof needs only that the target is the one the job prepared.
* *What is verified.*  That claims are of the key in use (`CurrentFacts`) comes from the
  normalization before every commit; that they were proven has to be known of every document on its way
  there (`Backs`), as imports, catalogs and changes of name carry declarations between sources,
  names and positions before anything is invalidated.  Each operation on settings maps backed declarations
  to backed ones (`ReconciledType`, `MergedSyncedType`, `AllMovedType`, `NormalizedType` and the others).
* *What pools declare.*  A pool in use without a list of models serves every model (`config.go:764`), and the
  code allows it: an administrator may switch on a pool whose models were withdrawn, and an import file may
  name a pool without models.  The theorem says that nothing else makes one.  `DeclaredInv` therefore compares with what is
  published: neither the file nor the document of a job adds a pool without a list to those published so
  (`Lists`, for `Excused` pools), and every operation on settings keeps that.  What a poll saw withdrawn was declared
  when it read the settings and is not now (`WithdrawnInv`).  A poll changes only accounts
  whose catalogs it read, and its commit is refused when the account was changed meanwhile.
* *Exclusions.*  Declared evidence and facts may be bound to a connection (`key`), and an exclusion is one for
  the connections it is about.  On a direct source, what a catalog declared stays the catalog's, also when an operator
  wrote "unsupported" over it (`Bars`).  The property compares each commit with the configuration before it, so a
  job has to know that, on the connections its accounts have, its document excludes what the settings it was made
  from did (`ExcludedInv`, through `Hands`): all but what was declared for withdrawn models or for the
  imported account.  A change of a credential excludes nothing new either, so a compensation that writes the
  older settings back frees nothing.  For a poll, every merge of catalogs keeps a declaration that bars a
  model somewhere in the list.  Recording a check frees only an exclusion of the scope that passed, and
  `StillHolds` carries that scope back to the source as it was when the check began.  Administrators who
  delete an exclusion by hand are not among the edits of the model: `Exclude` and `ExcludeModel` add them,
  `RotateKey` ends those bound to the old key.
* *Folds.*  The library's `FoldLeft` is a recursive function over the sets of positions of a
  list, chosen with `CHOOSE`.  `IterationUnique`, `IterationExists` and what follows from them say
  that such a fold goes from step to step; from there each fold of the modules has a rule of its own
  (`AmongType`, `ReconciledFold`, `SyncedFold` and so on): what the step keeps in a set, the fold keeps in it.
  One rule for all would need the step as a parameter of the lemma.

**Only model-checked.**

* Liveness under fairness (`FreedSlotIsNoticed`, `Served`, `CloseReturns`,
  `EveryoneAnswered`), and `NobodyStuck`, which uses `ENABLED`: out of the prover's reach.
* `CompletionStream` (`CompleteIsWhole`, `WholeIsComplete`): they compare a parser's state with
  histories of events, through `SelectSeq` and concatenations of sequences of any length.
  What such recursive definitions compute would need induction with an operator as
  its hypothesis.
* `AccountChanges` (`DiscoveryIsQuiet`): that a second pass over the same evidence changes nothing
  depends on the order of what a fold computes, position by position and with the times of evidence.
  The rules for folds above say what is kept, not what the result is.
* `RateEnforced` does not hold (section 5).

## 5. Where the code and its words disagree

Checked by a run that is expected to find the violation:

* `RateEnforced` (`clientkeys.go:278`): a request that read the clock before the
  minute ended sets the packed word back, and the new minute starts over.

Seen while modelling, without a run of their own:

* `server.go:145`: stale evidence is answered with 503.  Where only ready instances get
  traffic, an idle instance, or one that recovered old observations after a restart,
  stays there: the deadlock that the comment at `server.go:155` avoids for routes that
  were never observed.
* `clientkeys.go:554`: the rename of the key file is not made durable, so a power failure
  may bring a revoked key back; the configuration file's is (`SyncDirectory`).
  `SyncedRevocationHolds` is therefore about revocations that reached the medium.
* `gateway.go:817`: a single 429 only counts towards the threshold;
  `docs/ARCHITECTURE.md:53` says it opens the circuit at once.
* `runtime.go:364`: a failure is fenced against newer successes, not against newer
  failures; reported late, it moves the end of the circuit that a newer failure set.
* `gateway.go:659`: `no_eligible_source` is also answered when every eligible account
  was tried and failed.
* `requestlog.go:222`: a rotation that fails after its renames is started over by the next
  record and moves the backups once more, so repeated failures use up the backups:
  `SuffixRetained` promises its minimum for runs without failing file operations.
* `requestlog.go:242`: a rotation that a crash cuts short leaves a gap among the backups.  The start
  finds the file still full, rotates again from the last backup, and drops that one although the
  gap had room: the minimum of `SuffixRetained` is one backup less for every crash.
* `capabilitysync.go:243`: when a logical name changes, the old one is kept "if another
  fallback target still depends on the old logical name", but not as soon as one
  route could follow the change: another that could not is left without its model, and validation
  refuses the whole poll.
* `capabilitysync.go:156`: the match by upstream model may rename a second logical name to the
  `@fast` profile of a model and take the route of the standard name along.
* `oauthadapter.go:1119`: a pool that lost its last model is disabled, because without a list it would serve every
  model; switched on again by an administrator (`admin.go:299`) it does, until a credential or a catalog gives it
  a list.  `PoolsDeclareWhatTheyServe` excepts exactly that step.
* `capabilitysync.go:512`: evidence is replaced wherever its source is `model_catalog`, whatever its
  status.  An operator who sets such a capability of a direct source to `unsupported` and leaves the source
  as it is finds it declared again after the next poll; of a pool it stays excluded (`capabilitysync.go:187`).
* `internal/config/capability_evidence.go:74`: an exclusion that carries a source identity becomes `unknown`, hence
  allowed, when the key changes, and stays so when the old key comes back.
* `oauthadapter.go:1105`: a capability whose model is withdrawn takes its exclusions with it; if the model
  comes back, it is allowed again.
* `capabilitysync.go:143`: a catalog read before the last credential of a family went, and
  committed after it, may announce a model that was never declared; so may one whose source was
  changed and changed back meanwhile.  `PoolsDeclareWhatTheyServe` is about models that were withdrawn.
* `accountimport.go:192`: when only the sync of the directory fails, the import takes its credential
  files back while the configuration file keeps the imported accounts.
* `accountimport.go:192`: the import lists the files once; a credential that a login stores
  under the same name afterwards is overwritten, or deleted by the compensation.  Likewise a token
  that was refreshed after the snapshot comes back as it was.
* `runtime.go:953`: a hash is multiplied by the weight only where that does not overflow, so a
  larger weight may give an account a smaller score and take sessions away from it.
* `runtime.go:940`: `round_robin` counts a turn for every pass over the candidates, those of
  retries and of woken waiters included.

## 6. Environment and abstractions

* Upstreams: one that answers 401, 402, 403, 429 or a targeted 404 did not and will not
  execute the work; nor did the trusted local adapter when it marks a failure as safe
  to retry; none executes a request whose headers were not completely written.
* Disks: a rename is atomic; a power failure falls back to the last synced directory
  for `ClientKeys` and `ConfigCommit`.  `RequestLog` crashes as a process: the page cache
  survives.  A record is written as a whole or not at all; removing a backup and
  renaming onto it are one step.
* A failed save before the rename changes nothing; a client key file that cannot be
  written refuses the change before anything is published.
* Names, bodies, models, tokens and times are model values or small numbers.
  Legacy keys of the configuration have no limits and no state and are left out.
* `CompletionStream` follows tool calls, reasons and ends.  The code does not demand that
  `message_start` precedes the blocks, nor that text deltas of Responses agree with the
  final document, and the reference does not either.  Sizes, JSON syntax and the framing
  of events into lines are left out, and an event carries one choice and one call.
* The OAuth adapter: an operation whose answer was lost is over before the next call reaches
  it.  Prefixes, priorities, the routing strategy, manual token refresh and the masked display of
  credentials are left out, as are reasoning efforts and `ModelMap` in capabilities.
* Relay: closing a body ends a `Read` under way, and a write to the client ends by its
  deadline.  A chunk is written as a whole or not; the capture of usage from the
  bytes and the wording of errors are left out.
* Pure data (inspection of JSON documents, parsing of catalogs), browser code,
  deployment scripts and vendored code are not modelled.

## 7. Plan

Done: leases, health, failover, keys, commits, body memory, log, recovery, readiness,
streamed verdicts, the relay, and account changes with capability discovery.  Left, in this order:

1. *Proofs*: `DiscoveryIsQuiet`, once the folds of discovery are stated as functions of one account each;
   the verdict on streamed answers.
2. *Routing order*: the strategies as operators, in a scheduler that tries candidates in their
   order and implements `Scheduler`, which allows every order.
3. *Buffered documents*: the verdict on documents that come as a whole.
4. *Admission and sessions*: the in-flight limit that calls and probes share, shutdown, login
   lockout and session limit.
