# Coppice verification

TLA+ models of the Coppice server (`src/`), the TLC configurations that check
them on small instances, and TLAPS proofs of the properties that matter most.

## 1. The system

Coppice is one Rust process: an Axum server over a relational database
(sea-orm), with background tasks on a Tokio runtime. Everything that is hard
about it is hard for one of three reasons: async handlers interleave at every
`await`; the database and the file system survive a restart while channels,
maps and tasks do not; and devices, workers and upstream services come and go.

| Part | Source | State it owns | What is hard about it |
|---|---|---|---|
| Remote worker queue | `crates/worker/src/{service,hub}.rs`, `apps/server/src/routers/api/v2/workers.rs`, `crates/models/src/entity/worker_job.rs` | `worker_jobs` rows, the hub's connections, the waiter map, uploaded bytes | offers race claims, disconnects, the claim sweep, cancels, local runs and restarts |
| Worker client | `crates/worker/src/{client,protocol}.rs` | the running job, the queue of accepted offers | reconnects forget both while the job goes on |
| Source hub (remote libraries) | `crates/worker/src/source_hub.rs`, `source_client.rs`, `source_protocol.rs` | connections, one-use read grants, tunnel channels | readiness, claim, expiry, chunks and disconnects in any order |
| Job runtime and scheduler | `crates/jobs/src/*`, `core/src/job` | the job queue, the running job, its cancellation token | pause, cancel and shutdown against a job in progress |
| Library watcher | `crates/watcher/src/watcher.rs` | pending paths, the debounce timer | a flush that fails half way |
| CrossPoint delivery | `core/src/crosspoint_delivery/service.rs`, `crates/crosspoint` | `crosspoint_deliveries` rows | retries, cancels and restarts against a transfer in progress |
| Component runtime | `core/src/component_runtime.rs` | installed components, the active version | replacing a component that is in use |
| Ingest | `crates/ingest/src/{coordinator,store,policy,staging}.rs` | source items, operations, staged files | multi-step publication with retries |
| MAM acquisition | `core/src/mam_acquisition.rs` | acquisitions and their torrents | a poller against user actions |
| Unified reading state | `core/src/reading_state.rs`, `crates/models/src/domain/reading_state` | progress per user and media, applied events | out of order and repeated reports of several clients |
| Compatibility APIs | `crates/{komga,kavita,abs,kobo,opds,koreader}`, `core/src/{kobo,opds}` | sessions, sync tokens | translation of one state into many protocols |
| Liseur sync | `crates/liseur-sync` | documents, versions | conflict detection |
| Annotation sync | `crates/annotation-sync`, `core/src/annotation_sync.rs` | a git working tree | merge and push against concurrent edits |
| Devices and pairing | `crates/devices` | devices, pairing codes | a code used twice, a code that expires while used |
| Providers | `crates/provider*`, `core/src/providers.rs` | health, challenges, cached pages | rate limits and back-off |
| Collections | `crates/collections` | shelves, rules | pure evaluation |
| Scanner and library | `crates/{scanner,library}`, `core/src/filesystem` | library rows | large walks over a file system |
| Notifications | `crates/{notify,email}`, `core/src/notification.rs` | queued notifications | delivery retries |
| GraphQL, REST, CLI, models, migrations, media tools | `crates/{graphql,models,migrations,media,tools,kepub,kindle,macros,cli,...}`, `apps/server` | none of their own | conversions and request plumbing |

Four groups of parts are modelled, each with its own modules:

| Group | Modules | Theorems |
|---|---|---|
| Remote worker queue (section 2) | `WorkerJobRow`, `WorkerJobLifecycle`, `WorkerJobs`, `MCWorkerJobs` | `WorkerJobsProofs` |
| Source hub (section 3) | `SourceGrant`, `SourceHub` | `SourceHubSteps`, `SourceHubProofs` |
| CrossPoint delivery (section 4) | `CrossPointDelivery`, `MCDelivery` | `DeliverySteps`, `DeliveryProofs` |
| Job runtime, library watcher, MAM acquisition (section 5) | `JobRuntime`, `LibraryWatcher`, `GrabRefresh`, `BackgroundJobs` | `BackgroundJobsProofs`, `ProducersProofs`, `CountsProofs` |

The groups share no state in the code either: a worker job, a source read, a
delivery and a background job have tables, maps and tasks of their own.

Every safety property and every refinement that a passing run checks is also a
theorem, proved for every value of the constants. What only TLC checks is
liveness; section 6 says why.

To check: `tlc -config <cfg> <module>` for the pairs under "runs" in
`PROJECT.json`, and `tlapm <module>.tla` for the modules in the last column.

## 2. The worker queue

### Modules

* `WorkerJobRow` — a row of `worker_jobs`: its status and its holder, and the
  predicates `is_terminal` and `is_assigned`.
* `WorkerJobLifecycle` — what the queue promises about one row: which moves of
  status and holder are possible at all. It mentions no task, hub or waiter.
* `WorkerJobs` — the server side in full.
* `MCWorkerJobs` — the instances TLC checks.
* `WorkerJobsProofs` — the proofs.

### How the model corresponds to the code

Every operation of the service is an async function, so it is a *task* with a
program counter and one step per await: a database statement, an access to the
hub or to the waiter map, a file operation. Between two steps any other task
may run. The routing tasks are

* the request that enqueued job `j` (`enqueue`, `enqueue_and_wait`), named `j`;
* the serve loop of a socket (`serve`, `attach_worker`, `handle_frame`,
  `detach_worker`), named by the epoch the hub gave it;
* the claim sweep, `Sweeper`.

They share the subroutine `dispatch_avoiding`/`offer`, whose program counters
are `DispatchPc`; `ret[t]` is where it returns to. Cancels (`cancel[j]`), the
spawned local run (`local[j]`) and uploads (`upload[w]`) have counters of their
own.

| Model | Code |
|---|---|
| `rows`, `Matches`, `SetRow` | the table and the guarded `UPDATE` of `update_status` and `finish` |
| `hub`, `epochs`, `device` | `WorkerHub::connections`, `epochs`; `hub[w] = s` is "the connection of `w` has epoch `s`" |
| `waiters`, `reply` | the `Waiters` map and what the caller got |
| `Prefer`, `Select`, `Send`, `Assign`, `Fallback` | `dispatch_avoiding` and `offer` |
| `Enqueue`, `Reread`, `Timeout`, `Abandon` | `enqueue_and_wait`, and its future being dropped |
| `Attach`, `ReadParked`, `NextParked`, `Unpark` | `attach_worker`, `on_worker_connected` |
| `Frame`, `ApplyClaim`, `ApplyProgress`, `Validate`, `Complete`, `DropBytes`, `WakeAfterFrame` | `handle_frame`, `apply`, `complete`, `finish` |
| `EndServe`, `Detach`, `ReadUnclaimed`, `Release` | the end of `serve`, `detach_worker`, `on_worker_disconnected` |
| `ReadExpired`, `Expire` | `start_claim_sweep`, `sweep_claim_deadlines` |
| `Cancel` ... `CancelWake`, `AbandonCancel` | `cancel`, and its request being dropped |
| `LocalStart` ... `LocalWake` | the task `run_locally` spawns |
| `Authorise`, `Publish` | `upload_path`, `upload_output` |
| `Restart` | the process dies: the table, the files and what callers already got are left |

The workers are the environment: a connected device may send any frame about
any job it holds at any time. Time is abstracted: a deadline may pass whenever
it could. Left out: the payloads (input, result, progress), change
notifications, and database errors.

### Properties and runs

| Run | Instance | Checks |
|---|---|---|
| `worker_routing` | 1 job, 2 capable workers, 2 sockets | `NoJobIsStranded`, `NewestSocketIsRegistered`, `ImplementsLifecycle` |
| `worker_faults` | 1 job with a local runner, 1 worker, 1 socket, cancels, uploads, 1 restart, 1 dropped request | `TypeOK`, `SingleRunner`, `NoJobIsStranded`, `NoWaiterIsForgotten`, `ImplementsLifecycle` |
| `worker_live` | 2 jobs (one awaited), 1 worker, 1 socket, fairness | `UnassignedIsRouted`, `OfferLeavesAbsentWorker`, `EndedJobFreesItsCaller` |
| `worker_lost_wakeup` | 1 job, 1 worker, 1 socket | `ParkedMeansNobodyCan` is violated |
| `worker_cancel_bytes` | the same, with a cancel and an upload | `DoneKeepsItsBytes` is violated |
| `worker_dead_connection` | the same, with a cancel | `HubHoldsSockets` is violated |
| `worker_restart` | the same, with a restart, fairness | `UnassignedIsRouted` is violated |

* `NoJobIsStranded`: an unassigned queued row is being dispatched or waits for
  a local run, a claimed row has a holder, a running row has a holder or a local
  run. It is conditional on no restart and no dropped request, because the code
  gives it up there: nothing re-reads unassigned rows (`worker_restart`).
* `SingleRunner`: a job with a local run underway is never claimed and never
  goes back on the queue.
* `NoWaiterIsForgotten`: a caller registered for an ended job is about to be
  woken by whoever ended it.
* `NewestSocketIsRegistered`: a stale socket never evicts its replacement.
* `ImplementsLifecycle`: `WorkerJobs` implements `WorkerJobLifecycle`.
* The three liveness properties are leads-to formulas under `Fairness`.

The violated properties are sentences of the repository's own documentation;
`PROJECT.json` quotes them. What happens:

* *Lost wake-up.* A dispatch finds no worker; a worker attaches, reads the parked
  rows and does not see this one; the dispatch parks it. It waits for the next
  `hello`.
* *Cancelled bytes.* `cancel` reads a running row, the result arrives and ends
  it, the cancel's `UPDATE` misses, and it removes the file all the same.
* *Dead connection.* `on_worker_connected` fails while re-dispatching a parked job
  that was cancelled meanwhile; `serve` returns without detaching.
* *Restart.* The process dies between the `INSERT` and the assignment.

### Bounds

Two sockets are what replacing a connection takes, and with two capable workers
`avoid_worker` has somewhere else to go. One job suffices for races on one row:
rows interact only through the loops that handle several (`worker_live` has two
jobs for that). One restart and one dropped request suffice for the properties
that have to survive them, which are about the state they leave behind. The
theorems hold for all values of every constant.

### Fairness

Weak fairness of every task's own steps: Tokio polls a woken task, and no step
waits for another task. Strong fairness of the sweep reading an offer of job
`j`: its interval keeps ticking and each tick reads every offer past its
deadline, so an offer that is unclaimed again and again is read sooner or
later. Nothing is assumed of operators, clients, workers or sockets.

### Proofs

`WorkerJobsProofs` proves, for any finite or infinite sets of jobs and workers and
any bounds, under the single assumption `ConstantsAreSane` (which TLC evaluates on
every run):

| Theorem | States |
|---|---|
| `TypeCorrect` | `Spec => [](TypeOK /\ TasksAreSane)` |
| `LifecycleRefined` | `Spec => ImplementsLifecycle` |
| `OneRunner` | `Spec => []SingleRunner` |
| `NothingIsStranded` | `Spec => []NoJobIsStranded` |
| `NobodyIsForgotten` | `Spec => []NoWaiterIsForgotten` |
| `NewestSocketWins` | `Spec => []NewestSocketIsRegistered` |

`TypeOK` alone is not inductive: a step of a dispatch writes `rows[job[t]]`, so
that `job[t]` is a job must be known of every program counter at which it is
used. `TasksAreSane` says that, and which kind of task may be at which counter and
where its dispatch returns to. `LocalIsSane` adds what the row of a job with a
local run can be (it makes `SingleRunner` inductive), and `HubIsSane` that the hub
only holds sessions that exist and that a session's device is the one it
attached with (it makes `NewestSocketIsRegistered` inductive). Each theorem then
has one lemma per group of actions, which rest on lemmas about the building
blocks (`GotoLemma`, `KeepLemma`, `DispatchLemma`, ...). For the refinement,
`UnchangedOrMoves` says that a step leaves the table alone or makes one move of
the lifecycle.

### Known weaknesses not stated as properties

* The holder check of a terminal frame and the terminal write are two
  statements; a withdrawn worker's frame can end a row offered to another.
* A cancel that loses to a result answers the awaiting caller with the
  status it read first.
* A row run locally may carry the `worker_id` of an offer that crossed it.
* Not every transition is announced to the change listener.

## 3. The source hub

A source worker gives the server read access to files on another machine. A read
is one *grant*: registered in the hub, sent to the worker over its control
socket, accepted by a readiness frame, and served either directly over HTTP or
through a tunnel, a second socket whose chunks go through a bounded channel to
the reader.

* `SourceGrant` — what the hub documents about a grant: it becomes ready once, is
  consumed once, its bytes never exceed its length, and an end is final.
* `SourceHub` — the registry, the control sockets, the tunnels, the readers and
  the worker's handling of grants.

| Model | Code (`source_hub.rs` unless named) |
|---|---|
| `pend`, `tracked`, `rx`, `buf` | `PendingTransfer` and `GrantMutable`, `PendingRegistry`, `tunnel_rx`, the tunnel's channel |
| `conn`, `epochs`, `out`, `sock` | `SourceHub::connections`, `epochs`, the outbound channel, the `serve_socket` tasks |
| `Register`, `Pick`, `Queue`, `Lookup`, `Arm`, `Look`, `Wake`, `ClaimTunnel`, `ConsumeDirect`, `Recv`, `Stall`, `Abandon` | the route: `issue_grant`, `wait_ready`, `claim_tunnel`, `consume_direct`, the receiver (`apps/server/.../source_workers.rs`) |
| `Hello`, `Install`, `Deliver`, `ReadFrame`, `HandleFrame`, `Leave`, `Detach` | `serve_socket`, `attach`, `detach` |
| `Push`, `PushSends`, `TunnelCloses`, `Finish` | `serve_tunnel`, `push_tunnel_chunk`, `finish_tunnel` |
| `Refuse`, `Accept`, `Connect`, `Write`, `CloseTunnel` | `source_client.rs`, `source_tunnel.rs` |
| `Expire`, `Reap` | the acceptance window, `reap` |

Simplifications: one device (grants of different devices meet only in the sweep,
which treats each on its own); bytes are counted in chunks; whether a grant is
direct is chosen in `Init`; `RegisterOther` stands for the registrations of
other grants, whose only effect here is the sweep they run; a full or closed
outbound channel is a refusal `Queue` may meet at any time; `fail_device_grants`
is one step per call; a request can be dropped only at an await. Manifests and
their reconciliation, the worker's scanner and the transfer after
`consume_direct` are not modelled.

| Run | Instance | Checks |
|---|---|---|
| `source_reads` | 1 grant of 2 chunks, channel and wire of 1 chunk, 2 control sockets; 523,706 states | `TypeOK`, `BytesAddUp`, `NoLostWakeup`, `EvictedIsOver`, `AttachSparesItsOwn`, `DetachOnlyItself`, `ImplementsGrant`, `ReadsEnd` |
| `source_stuck_push` | the same with 1 socket | `OverFreesTheTunnel` is violated |

Two chunks over a channel of one are what it takes for a push to wait with a
chunk in hand; two sockets are what a replacement takes. With two grants the
state space exceeds 70 million states; grants interact only through the socket
that carries them, and the theorems cover any number.

Fairness: `ReaderSpec` assumes that a reader's task is polled and that the
deadline of its grant passes. Nothing is assumed of the worker, the sockets or
the tunnel. `FairSpec` adds that the tunnel task is polled, so that
`source_stuck_push` is not a task that was simply never run.

*Stuck push.* `push_tunnel_chunk` waits for room while it holds the
`PendingTransfer` in which the unclaimed receiver sits. If the reader ends before it
claims the tunnel, nothing drops that receiver, so the wait never ends.

### Proofs

For any number of grants and sockets, any length and any capacities, from
`ConstantsAreSane`: `WellTyped`, `BytesAccounted`, `WakeupsReach`, `EvictionIsFinal`,
`AttachSpares`, `DetachRemovesItself` and the refinement `GrantsAreOneUse`. The
inductive invariant is

    IInv == TypeOK /\ ReceiverHeld /\ Served /\ ExpiredIsLate
            /\ BytesAddUp /\ NoLostWakeup /\ EvictedIsOver

`BytesAddUp` needs to know who holds the receiver (`ReceiverHeld`), and that a
grant is queued once and has one tunnel whose wire holds what was put on it
(`Served`): a second tunnel would push chunks that the first one has already
accounted for. `EvictedIsOver` needs that nothing expires before its time
(`ExpiredIsLate`). `SourceHubSteps` describes what a step can do to one grant, with
one lemma per group of actions; the invariant, the action properties and the
refinement all rest on these descriptions.

## 4. CrossPoint delivery

`CrossPointDelivery` models the durable queue of `core/src/crosspoint_delivery/service.rs`:
the rows and their attempts in the database, the polling loop that spawns one
worker per due row, the permit per device, the upload, a database error at any
query of a worker, the user, and a process that dies and recovers. `MCDelivery`
adds the symmetry of rows and devices for the safety run.

| Model | Code |
|---|---|
| `Enqueue`, `Retry`, `Cancel` | `enqueue`, `retry`, `cancel` |
| `Boot`, `RecoverOne`, `RecoverDone`, `RecoverFails` | `start`, `recover_inflight` |
| `Poll`, `Await`, `AwaitDone`, `AwaitFails` | `process_due` and the loop around it; the first error detaches the workers after it |
| `Acquire`, `ReadRow`, `Claim`, `InsertAttempt`, `Prepare`, `MarkTransferring`, `Upload`, `FinishAttempt`, `WriteOutcome` | `device_gate`, `process_one`, one step per statement |
| `DbError`, `Crash` | an error at a query of a worker; the process dies |

The staging of the file and the frames of the upload are one step each, with all
their outcomes (also the one where the device has the file and the answer was
lost). `MaxTasks` bounds the workers alive at once: an error detaches workers, so
the code has no such bound. Not modelled: `stop`, which nothing calls; the
removal of rows with their user or device; EPUB optimisation.

| Run | Instance | Checks |
|---|---|---|
| `delivery_queue` | 2 rows, 2 devices, 3 workers, 2 attempts, 1 retry by the user, 1 error, 1 crash; 1,498,120 states | `TypeOK`, `OneTransferPerDevice`, `InFlightIsOwned`, `BudgetHolds`, `CompletedWasDelivered`, `AttemptsRise`, `HistoryStands`, `RetryWaits` |
| `delivery_live` | 2 rows, 1 device, 2 workers, no retry by the user | `QueuedIsServed`, `DeliveriesSettle` |

Two rows are sent to one device or to two; a third worker is what a detached one
beside two of a new poll takes. `Bound` (in `MCDelivery`) keeps the run short: rows
that share a device meet the error and the crash in one behaviour, rows with
devices of their own only the one or the other. The proofs need no such limit.
Fairness: weak for the loop and for each worker,
which Tokio polls; strong for `Acquire`, because Tokio's semaphore is first in,
first out; weak for the passing of a retry's delay.

### Proofs

`DeliverySteps` and `DeliveryProofs` prove all eight safety properties, for any sets of
rows and devices and any bounds, from `DeliveryAssumption`: `TypeCorrect`,
`OneTransfer`, `Owned`, `Budget`, `DeliveredWhenCompleted`, `NumbersRise`, `History`,
`DelaysHold`. The inductive invariant is

    IInv == Types /\ GateHeld /\ Quiet /\ OwnerInFlight /\ InFlightIsOwned /\ BudgetHolds

A worker past the semaphore holds the permit of its device (`GateHeld`), no worker
runs during the recovery (`Quiet`), and a worker past its claim finds its row in
flight (`OwnerInFlight`): these three are why the unguarded updates of
`process_one` and `recover_inflight` overwrite nothing. `Recorded`, about the
attempts of a row, is inductive relative to `IInv` and gives
`CompletedWasDelivered` and `AttemptsRise`; `Listed` and `Sized` complete the types.

## 5. Background work

`JobRuntime` models the queue of jobs, both executors, a job's life, its row, its
token and the counts. `LibraryWatcher` and `GrabRefresh` extend it: each is a
producer of jobs that also has state of its own. `BackgroundJobs` composes them
with the shutdown and a restart. A server of the model is set up either for
watching or for acquisition (`deploy`): the two producers share nothing but the
runtime, whose properties hold under both.

| Model | Code |
|---|---|
| `Take`, `PersistStarted`, `Register`, `CodeReturns`, `PersistFinished`, `Finish`, `Panic`, `CancelJob`, `DeleteJob`, `Stops` | `crates/jobs/src/{runtime,worker,queue,inline_executor,apalis_executor,lifecycle}.rs`, `core/src/job/services.rs` |
| `Touch`, `ListenerRuns`, `FlushTaskWakes`, `Reconfigures` | `crates/watcher/src/watcher.rs`, `watcher_adapters.rs`, `patch_library_config` |
| `Tick`, `Query`, `Dispatch`, `Reload` | the maintenance loop of `scheduler.rs`, `dispatch_due` |
| `CheckActive`, `InsertRow`, `Post`, `SaveGrab` | `create_grab` |
| `Visit`, `Adopt`, `Ask`, `Apply`, `Stage` | `refresh_grabs`, `adopt_bridge_grab`, `stage_completed_grab` |
| `BridgeMoves`, `BridgeFails` | the bridge (external) |
| `ShutdownBegins`, `Restarts` | `cleanup` in `apps/server/src/http_server.rs`; the process dies |

Simplifications: a path is its library root; all rows are grabs of one torrent,
the case in which they interact; `downloading` stands for `queued` too and `error`
for all the bridge's bad ends; a job's id is used again once its job is over;
a `starting` row comes due only while no request is in progress (a request gives
up on the bridge after 30 s, `STARTING_STALE_AFTER` is 2 minutes); a reload
of the scheduler replaces its loop in one step; one configuration request at a
time. Not modelled: what a job's own code does, scheduled scans (`cron_loop`),
`DUE_BATCH_LIMIT`, the files copied into staging, a panic under Apalis.

`background_jobs` checks ten properties with 2 jobs, 1 task, 1 fault, 2 roots,
2 events, 1 request, 2 rows, 1 grab of the bridge and 2 attempts: 463,298 states.
Two jobs are what it takes to have one in flight and one waiting; two rows over
one grab of the bridge are what it takes for two followers to compete; one fault
is an error, a panic, a reload or a restart at any point.

* `CountsAddUp`: the counters that depth and idleness go by are the numbers of
  jobs that wait and that run.
* `RegistryIsTruthful`, `OneAtATime`: one token per open job; one job at a time.
* `RunningHasItsJob`: a row that says Running has a job in flight. The kinds that
  bypass `run_job` are exempt, because their rows are never written again
  (`services.rs:259`, against `crates/jobs/README.md:44`).
* `NoChangeIsForgotten`: a reported change is on its way to a scan.
* `RefreshOwnsItsRows`, `ClaimsAreHeld`: no row is in two refresh jobs, and no claim
  outlives its job unless an error or an aborted loop leaked it.
* `TrackedOnce`: no two rows have the id of the same grab of the bridge.
* `WorkGetsDone`: every change is scanned and every row settles.

Fairness: weak for the jobs (also that a job's own code returns), for the
producers' tasks, for the requests, for the passing of time and for the bridge
ending what it has begun. Errors, panics, cancels, events and requests are never
forced.

One thing the model shows is not stated as a property: an error or a crash
between adoption's two saves leaves a row that is `starting` and already has its
grab's id, which the comment at `mam_acquisition.rs:1283` excludes. The next refresh
finds the grab tracked, by the row itself, and the row ends in `error`.

### Proofs

All nine safety properties are proved, for any sets of jobs, roots, rows and
grabs of the bridge and any bounds on events and faults, from `RuntimeAssumption`
(`MaxTasks` is a natural number) and `GrabAssumption` (at least one attempt):

| Theorem | Property | Module | Rests on |
|---|---|---|---|
| `RunsSerially`, `RegistryHolds`, `RefreshIsExclusive` | `OneAtATime`, `RegistryIsTruthful`, `RefreshOwnsItsRows` | `BackgroundJobsProofs` | `IInv` |
| `RunningIsInFlight` | `RunningHasItsJob` | `BackgroundJobsProofs` | `Ledger` |
| `ClaimsHeld` | `ClaimsAreHeld` | `BackgroundJobsProofs` | `Held`, `Control` |
| `NothingForgotten` | `NoChangeIsForgotten` | `ProducersProofs` | `WInv` |
| `FollowedOnce` | `TrackedOnce` | `ProducersProofs` | `GInv` |
| `CountsHold` | `CountsAddUp` | `CountsProofs` | `Counts` |
| `TypesHold` | `TypeOK` | `ProducersProofs` | `Lefts`, `Numbers`, `Attempts`, `Rooted`, `Control` |

The base is

    IInv == JobInv /\ Sending /\ RefreshOwnsItsRows /\ Noted
    JobInv == Types /\ QueueHolds /\ Serial /\ RegistryIsTruthful

A queued id is in the queue once and its job waits there (`QueueHolds`), the executor
is idle only when no job is in flight (`Serial`), the maintenance loop sends a job
that is counted and not yet queued (`Sending`), and the claims its query leaves
out are all there are (`Noted`): without the last one a row could be claimed
between the query and the claim. Every step of the system is one of a few
*effects* on the jobs (`Submits`, `Waits`, `Opens`, `Works`, `Ends`, `Loses`, `Dies`, `Renews`
or none), and each of the later invariants is preserved by each effect:

* `Ledger` adds that only direct kinds reach the body, and that a row that says
  Running has a job in flight that still has its final write to come.
* `Held` adds that a claim belongs to a refresh job, with `Control` to know how far
  the shutdown has come.
* `WInv` adds the shape of the listener's state: a pending root has a flush to
  come or a flush task asleep (`Window`), the listener holds nothing between two
  commands (`Resting`), and the job it is enqueuing is its own (`Submitting`).
* `GInv` adds that an answer still to be saved belongs to no row and to no other
  request (`Saving`), that a request in progress has its row to itself
  (`Requested`), and that a refresh visits only rows whose request is over and
  adopts only while no request is in progress (`Batches`, `Visiting`): this is what
  makes `TrackedOnce` inductive, and where the timing assumption about `ComesDue`
  is used.
* `Counts` says that each count is the cardinality of a finite set; the cases are
  one job joining, leaving or moving between two of these sets. (That the counts
  are natural numbers, `Numbers`, needs none of this: the code's decrement saturates.
  `CountsAddUp` says that it never has to.)
* `Attempts` says that a row has an attempt left or has spent its last one and is in
  error, and that rows still to be dealt with have one left: this bounds the
  attempts by `HANDOFF_MAX_ATTEMPTS`.

## 6. What is only model-checked

Liveness is out of the prover's reach (it has neither `ENABLED` nor fairness):
`UnassignedIsRouted`, `OfferLeavesAbsentWorker`, `EndedJobFreesItsCaller`, `ReadsEnd`,
`QueuedIsServed`, `DeliveriesSettle`, `WorkGetsDone`. The five violated properties are
refuted on the smallest instance that shows the behaviour.

## 7. What is not modelled

The other parts of section 1 are listed in `PROJECT.json` with the reason. In
short: the compatibility APIs, GraphQL, REST and media tools have no state
machine of their own; the scanner, annotation sync and the component runtime
keep their state in the file system or in git; pairing, collections, Liseur
sync and the reading state do each update in one transaction, where what is
interesting is arithmetic on positions or the comparison of versions; ingest and
providers are candidates for a later model. The worker client's own job slot is
not modelled: in `WorkerJobs` a worker may send any frame about any job it holds,
which covers every order a client can produce.
