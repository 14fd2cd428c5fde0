# The Skiff Router and its durable tasks: models, checks and proofs

Skiff is a language with a compiler, a Runtime that executes compiled services,
and a Router in front of many Runtimes. The Router is where the concurrency is: it
keeps sessions to Runtimes, places requests on them, owns the map from actors to
Runtimes, serves WebSocket clients, and runs *durable tasks*, calls that are stored,
started no earlier than a due time, retried when the infrastructure loses them, and
ended exactly once. This directory holds TLA+ models of those parts, the TLC runs
that check them and TLAPS proofs of their safety properties. Paths are relative to the
repository root (`src/` here).

## Inventory

| Component | State it keeps | Operations | Modelled in |
|---|---|---|---|
| Task store (`task-control/src/{store,reducer,mongo,memory,model}.rs`) | one record per task: state, due time, lease, outcome, retry not-before; the store authority clock | create, scan_due, claim, renew, settle, cancel, recover_expired_lease, release, close | `TaskStore` |
| Scheduler replica (`task-control/src/scheduler/mod.rs`) | `active_leases`, and across awaits the clock reading and the batch it works on | recover_once, renew_active_leases, scan_once, handle_decision, forget_active_lease | `TaskScheduler`, its due scan over many tasks in `TaskBatch` |
| Backoff (`task-control/src/scheduler/backoff.rs`) | a jitter generator | delay_millis | `BackoffPolicy`; a set of delays in `TaskScheduler` |
| Task control plane (`router/src/task/control.rs`) | bounded event channel, deadline tracking | on_terminal, on_actor_terminal, enqueue, handle_event, forget_now | `TaskDispatch` |
| Task admission (`router/src/task/admission.rs`, `actor_plan.rs`, `actor_attempt.rs`) | none of its own | admit | decision nondeterministic in `TaskDispatch`; actor branch in `ActorActivation`, `ActorInvocation` |
| Submit / cancel handlers (`router/src/task/sink.rs`), adapter retry (`task-control/src/retry.rs`) | a handler's position and retry count | handle_submit, handle_cancel, create_once, cancel_once | `TaskSubmission` |
| Runtime sessions (`router/src/session`) | handshake phase, registration directory, frame writers and facts, terminal mailboxes, close barrier, pre-auth pool | accept, publish_pending, mark_registered, request_close, close_session, consume, shutdown | `RuntimeSession`, abstracted by `SessionLife` |
| Request dispatcher (`router/src/dispatch`) and HTTP dispatch (`router/src/supervisor/http.rs`) | pending requests, permits per session, response channels | submit, on_start / chunk / end / error, timeout, disconnect, backpressure, on_session_closed, register, relay | `RequestDispatch` over `RuntimeSession` |
| Actor plane (`router/src/actor`, `router/src/supervisor/actor*.rs`) | owner fences, reservations, activation claims and waiters, idle marks and evictions, relay pendings, correlations | getOrCreate, ACK, timeout, sweep, remove, invoke, forward, cancel, deadline, on_session_closed | `ActorActivation`, `ActorInvocation` |
| WebSocket clients (`router/src/ws`, `router/src/supervisor/{ws,sinks}.rs`, `router/src/listener.rs`) | connection index and business order, generations, pins and connect correlations, requests in both directions with tombstones, write budget | upgrade, connect, admit, attach, finish, finalize, request, call, cancel, deadline, send | `WsConnections`, `WsRequests`, `WsLocks`, `WsWriteBudget` |
| Runtime scheduler (`runtime/scheduler`) | pending native calls, resources | submit, resume, cancel | not modelled |
| Router HTTP server, config, health, telemetry, release, bootstrap | wiring | - | not modelled |
| Runtime host / VM / linker / service database, compiler, artifact model, deployment, tooling | mostly pure data | - | not modelled |

How they interact. A submitter sends `task.submit` to any Router, whose handler
inserts a record into the shared store. Every Router process runs one scheduler
replica. A replica's cycle recovers expired leases (anyone's), renews its own, then
advances due records and claims them one by one; the admission hands the attempt to
a Runtime through the dispatcher. When the attempt ends, the dispatcher calls the
control plane back, which enqueues a *settle* or *release* event for its worker, or
stops renewing so that expiry brings the task back. Replicas share nothing but the
store.

Inside one Router everything hangs on the Runtime sessions. A session is a task that
shakes hands, publishes itself in the directory (replacing an older session of the
same replica) and becomes a candidate for work. Dispatcher, actor plane, health
ledger and WebSocket lane are *consumers* of its end: when it closes it gives up its
writer and facts, delivers one terminal to every consumer's mailbox, waits for
their acknowledgements and only then drops its record. Requests, actor claims,
invocations and client connections are each tied to one exact session and must end
with it. Every plane guards its maps with mutexes of its own and calls the others
between critical sections.

What is hard here: every store call is an await between which other replicas, the
submitter and the clock move; replies are lost after they were applied; a Router may
crash at any await. In the Router, state read under one mutex is used after it was
released; an answer may overtake the entry it answers; a deadline, a cancel, a
disconnect and a late answer race for the same entry; the old session of a replica
closes while the new one works; queues, permits and budgets run full; handlers call
back into a lane whose lock they hold. `PROJECT.json` lists these hazards at the
lines where they bite, with the properties that watch them.

What makes it correct. Tasks: a terminal record is final, an attempt is never early, a lease
fences, the outcome is the one of the last attempt, a live attempt stays renewed,
expired leases are recovered, due tasks are claimed, answers to submitters are true.
Sessions: one current session per replica, and what the lanes may assume of a session is what it
does. Requests: a permit per pending request and none besides, no pending on a closed
session, no gap in a stream, no caller that waits for ever. Actors: a broker claim exactly
with a registry reservation, an unowned actor can be activated again, claims and waits
end; a call ends once. Clients: the business order and limit are exact, a first terminal
stays, a generation has its connection; permits and counters of calls are exact, and a
result reaches the call that asked for it, once.

## Modules

The task core:

* `TaskLifecycle` - the abstract specification: a task waits, runs attempts one at a
  time, and ends once. No clock, lease or retry.
* `TaskStore` - the store. The reducer of `reducer.rs` is a set of operators on a
  record (`Claimable`/`Claimed`, `HoldsLease`/`Renewed`, `Settleable`/`Settled`,
  `Cancelable`/`Canceled`, `LeaseExpired`/`BackToReady`), and each method of the
  store port is one action. The Mongo adapter performs the same condition and write
  as a single `find_one_and_update`, so one action stands for both adapters. A call
  whose condition fails writes nothing; the rejections callers branch on are
  `RenewRejection`, `CancelResult` and `StatusKind`. `Tick` and `Rollback` are the
  authority clock. The attempt id is generated with the lease id and compared with
  it everywhere, so the two are one number. The absent document is the state
  "absent".
* `TaskScheduler` - a replica: one action per await. `pc` is the await the replica is
  at; `snow`, `work` and `cur` are the locals that live across awaits (clock
  reading, rest of the batch, attempt being admitted); `active` is `active_leases`.
  A failed clock read or scan ends its phase (`PhaseFails`); a failed per-item call
  goes on with the next item. A call that changed the store may lose its answer.
* `TaskDispatch` - composition of replicas, store, control planes and attempts.
  `inflight` is the dispatcher's pending set, `queue` the bounded event channel. An
  accepted attempt is in `inflight` *before* the scheduler hears of it, as in
  the code, where `task_attempt_submit` registers it. `fate` (what each attempt was found to
  do) and `ranOut` (leases that have expired at some time) are history
  variables: nothing reads them but the properties. `ClockSetBack` is the store clock set
  back, at most `MaxSetback` times. `Crash` loses everything a Router keeps in memory.
* `TaskSubmission` - the submit and cancel handlers over the Mongo adapter at the
  grain of its driver calls: `create` is an insert and, on a duplicate key, a read
  and a comparison; `cancel` is a conditional update and, when refused, a read that
  classifies. Either call may fail, applied or not, and is retried at most
  `MaxAttempts` times. All other users of the store are `StoreNext`, and they may create a
  record under the same id: the Router draws ids from a counter that starts again with the
  process (`sink.rs:209`, `418`).
* `BackoffPolicy`, `TaskBatch` - `delay_millis` in saturating integers of a given
  width, and the due scan of one replica over more tasks than a batch holds. Time is
  relative (`wait`, `since`), so it never stops, and the only failure is an admission
  that is provably rejected, which releases the task with the policy's delay counted from the
  clock the scan had read.

The Router:

* `RuntimeSession` - one `phase` per connection from the accepted socket through the
  handshake and the stages of the close. The directory is `record` and `current`, the
  writer task its two handshake frames (`boot`, `ack`) and its error report. `spawned`
  holds the connections whose task runs while `accept` has not stored its handle yet.
  A consumer's mailbox is bounded by `MaxConcurrency`; a terminal that does not fit or
  a timed-out barrier sets `failStop`.
* `SessionLife` - the abstract specification: a session as one consumer sees it. It binds
  a replica, may become a candidate once, leaves, unwinds, reports its terminal, and is
  forgotten only after the consumer has processed it, unless the Router gives up.
  `RuntimeSession` implements it (`ImplementsLife`), and the actor and WebSocket modules
  extend it, so what they assume of sessions is checked.
* `RequestDispatch` - dispatcher and HTTP phases on top of the *detailed* session layer.
  The dispatcher's mutex is `submitting`: a submit holds it from its candidate view
  through reservation, revalidation, reselection and writer lookup to the
  insertion, while session tasks go on. A session task relays the events of its
  requests in order (`relay`) into channels that the HTTP phase registers only after
  submit has returned. A `feed` is a stream that may go on for ever; the timer of a stream
  is started again for every event, that of a unary request or a task attempt is not.
* `ActorActivation` - registry (`entry`, `owner`, `evicting`, `reservation`), activation broker
  (`claim`, `outcome`), scheduler (`idle`, `evictions`), frame sink (`rpc`, `waiters`) and
  session consumer (`closing`, `toRelease`); an action is what runs under one mutex. Lease,
  idle window and deadline count down, so time needs no bound.
* `ActorInvocation` - the relay's `pending`, the sink's `corr`, and the steps of a
  handler between them, for a caller's frame and for a durable task's attempt.
* `WsConnections` - a client from reservation, connect admission and upgrade to
  attach, finish and finalizer; business policies, replacement and the high-water fence.
  Connects and calls take their permits from one pool, so a connect may find it used up by
  the calls of other clients (`MayBeBusy`).
* `WsRequests` - `connection.request` of a Runtime to a client and JSON-RPC calls of a
  client to the Runtime, over the broker and the dispatch store, with tombstones, limits of
  the broker and of each generation, and deadline timers. The permits of a session are shared
  with the connects of other clients (`connecting`). Ids of a client may be
  reused; an execution number tells the
  calls apart.
* `WsLocks` - the same lane as sequences of lock and unlock steps of each operation on
  the three `std::sync::Mutex`es, which are not reentrant.
* `WsWriteBudget` - one client's slow-client budget: threads reserve under the index
  mutex, enqueue, and only then count in the atomic that the writer task decrements,
  modulo the width of the counter.
* `*Proofs` - theorems and proofs about the module named: `TaskStore`, `TaskDispatch`,
  `TaskSubmission`, `RequestDispatch` (with `RuntimeSession`), `ActorActivation`,
  `ActorInvocation`, `WsConnections`, `WsRequests`.
* `MC*` - symmetry sets and constants for TLC.

Operators that stand directly before a definition and resemble it
(`ClaimableBeforeDue` before `Claimable`, `HoldsAnyLease` before `HoldsLease`,
`FinishAgain` before `Finish`, ...) are the faulty variants used for
mutation: `PROJECT.json` pairs each property with one that must break it. Nothing in
the specifications refers to them.

## Runs

| Run | Instance | Shows |
|---|---|---|
| `submission` | 1 task, 2 owners, time 0..2, 2 claims, 2 driver attempts; arbitrary other users, also of the same id, clock set back | record consistency, final terminals, no early claim, dead expired leases, monotone backoff, refinement of `TaskLifecycle`; an accepted id has its record, cancel answers are true, a begun submission is answered |
| `replicas` | 1 task, 2 replicas, time 0..1, 2 claims, 2 outcomes, channel of 1, clock set back once | outcome of the last attempt, live attempts stay renewed, a live lease is changed by its holder alone |
| `progress` | 1 task, 1 replica, time 0..1, 2 claims, clock set back once, fairness | expired leases are recovered, due tasks are claimed |
| `placement` | 2 connections, 2 replicas, 1 request, 1 permit per session | a live session is current; permits pair with pendings; no pending on a closed session or without its record |
| `request_progress` | 1 connection, 1 request: unary, up to 3 chunks through a channel of 2, an endless feed, or a task; fairness | no gap in a stream; callers end unless events keep coming; the control plane is told how each attempt ended; `RuntimeSession` implements `SessionLife` |
| `actor` | 1 actor, 2 calls, 2 versions, 1 claim, 1 eviction retry, fairness | claim and reservation agree; a free key can be reserved; claims settle; calls that wait for a claim, of a Runtime or a task, end |
| `invocation` | 2 connections, 2 replicas, 1 call, fairness | a call ends once; a closed caller leaves nothing; a pending call ends |
| `ws_clients` | 2 clients, 2 keys, ranked, unranked and keyless acceptances, 1 session | order and limit of a key, generations with owners, first terminal stays |
| `ws_rpc` | 1 client, 2 requests, 2 reusable ids with 2 executions, 1 request and 1 call per generation, pool of 2 permits shared with connects | exact counters and permits; one reply each; a result is its own call's |
| `batch_full` | 2 tasks no Runtime takes, batch of 2, relative time, fairness | finding |
| `ws_lock_store` | 2 threads | finding |
| `ws_budget_spent` | 1 thread, budget of 4 | finding |

Further instances, kept for changes in those areas, run the same way
(`tlc -config X.cfg M`). They pass: `MCSessions` (all session invariants with two
consumers, 137,526 states), `MCSessionProgress` (`ImplementsLife` and liveness with two
connections of one replica), both of `MCRuntimeSession`; `MCWsProgress` (finalizers, loss of a Runtime), of
`MCWsConnections`; `MCWsLocksEnd` (seven operations of two threads neither deadlock nor
hang), of `MCWsLocks`; `MCWsBudget` (counter and queue bound with three
writers), of `MCWsWriteBudget`. The statements `RequestTypeOK`, `NoOrphanPending`,
`InvocationTypeOK`, `HandlerEnds`, `RpcTypeOK` and `PendingHasOwners` hold on the instance of
their module's run; `CallEnds` and `RequestEndsWithClient` hold under `FairRpcSpec` on that of
`MCWsRpc` with one request, one id and no symmetry.

Bounds. `MaxTime` stops the clock, `MaxLease` the number of claims, `QueueCap` is
the channel's capacity, `BatchLimit` the scan's. Two claims are enough for an
old attempt to meet a new one. In `submission` two ticks with a lease of one let a lease be
granted, renewed and expire; in `replicas` one tick is enough, since the clock may be set back once
(`MaxSetback`) and go on: a lease that ran out is live again, and a reading may be ahead of
the clock. A delay of 0 is a backoff shorter than a tick. With time 0..2, one outcome and a
delay of 1 the run passes too (4,930,838 states). A capacity of one makes the full
channel happen at once. Crashes, lost replies and failed calls are not
bounded. Timestamps callers pass range over `Stamp`, which contains everything the
actors compute from the clock (`SchedulerAssumption`, `DispatchAssumption`). Two
connections are what a replacement and a reselection need, one request what a permit
needs; three chunks overflow a channel of two and meet its terminal. Two getOrCreate
calls let one join the claim of the other. One call suffices for the races that end
it: every property of a call relates its own entries. Two requests and two ids meet a limit
of one per generation, and two permits let a connect and a call hold one each. Two
executions under one id are the reuse. `MaxClaims`, `MaxChunks`, `MaxExecutions` and `MaxWrites` bound fresh ids and
work, never failures. Symmetry is used over tasks, replicas, sockets and keys, and only
where no liveness property is checked; owners are picked with `CHOOSE`, so the actor
modules use none. Deadlock is not checked in the Router's runs: a Router without peers,
calls or clients has nothing to do, and bounded ids run out.

Fairness. In `FairSpec` the scheduler loop, the admission and the event worker are
weakly fair: the loops are spawned for the life of the process, every store call is
bounded by the driver's and the adapter's deadlines, and admission has activation
and request deadlines. `StoreAnswers` is strong fairness of the successful outcomes
of the calls: a store asked again and again does not fail every time. Without it an outage
could last for ever and nothing could be promised. In `TaskSubmission` a handler that
began runs on, since its driver calls time out. `TaskBatch` assumes that the loop goes on
and time passes. In the Router the tasks that wait for nobody else are weakly fair: a
session task whose close was requested or whose handshake deadline passed, a
close in progress, consumers draining mailboxes, handlers between two critical sections,
timer pumps, finalizers, the sweep of attempt deadlines, the HTTP phase's registration, its
taking the next event (the body's sink has a drain timeout) and its timeout while no event
is there. The timeout of a stream is not fair beyond that: each event starts it again. A mutex that is
released again and again is not withheld for ever (strong fairness in `WsLocks` and
for the lock-guarded steps of `WsRequests`). Nothing is assumed of submitters, peers, Runtimes
or clients: attempts may stay pending, frames unanswered and sockets unread for ever.
The one exception is in `WsFairness`, which only `MCWsProgress` uses: a client answers a
close frame.

## Findings

Each is a violation run whose property is a statement made by the repository.

* `batch_full` - `task-control/src/scheduler/mod.rs:299`: a task whose admission is
  provably rejected is ready again, in backoff, before the next scan, is returned ahead of
  every task due later and counts against `batch_limit`; a batch full of such tasks starves
  everything behind them. `scheduler/mod.rs:266` says that scans go on "until a scan no longer
  saturates its batch". With one fewer (`BatchLimit` = 3 in the same
  instance) the property holds.
* `ws_lock_store` - `router/src/supervisor/ws.rs:814`: `on_session_closed` holds the
  store's mutex while it completes calls at the broker, and a client's call takes the
  store's mutex under the broker's. The two wait for each other; line 811 promises that
  every pending call of the Runtime is failed.
* `ws_budget_spent` - `router/src/ws/index.rs:737`: the bytes of a successful write are
  never taken off `observed_write_bytes`, so a frame that fits is refused with nothing queued
  or in flight, and the client finished as too slow, once it was sent the budget in total. The
  lifecycle contract (line 91) counts writes in flight.

### Further deviations

These statements of the repository do not hold of its code either. Each is a property of
the module named; where no cfg of its own exists, put the property in place of the ones of
the instance given. `c-actor`, `c-ws` and `c-client` stand for
`doc/implementation/router-rust-migration/contracts/router-rust-migration-c-{actor,ws,client-lifecycle}-contract.md`.

| Property (module) | Instance | Code | What happens; who says otherwise |
|---|---|---|---|
| `RetryPaced` (`TaskDispatch`) | `MCDispatchRetryPacing` | `scheduler/mod.rs:303` | the backoff is tested on the scan's copy and not again at the claim; a second replica may have written a new not-before. `model.rs:382`. It holds of a lone replica |
| `EndedAttemptIsReleased` (`TaskDispatch`) | `MCDispatchStuckLease` | `task/control.rs:294` | a settlement the store did not take, or a full channel dropped, is not retried and its lease is renewed until the process dies. `scheduler/mod.rs:159` |
| `ForgottenStaysForgotten` (`TaskDispatch`) | `MCDispatchForgotten` | `scheduler/mod.rs:459` | a disconnect reported before `handle_decision` finds nothing to forget; the lease is then renewed. `task/control.rs:500` |
| `RejectedCreatesNothing` (`TaskSubmission`) | `MCSubmissionDeviations` | `mongo.rs:191` | a retried create meets its own record, already advanced, and answers a definite rejection. `store.rs:23` |
| `AlreadyTerminalIsTerminal` (`TaskSubmission`) | `MCSubmissionDeviations` | `mongo.rs:440` | a cancel refused by a lease answers alreadyTerminal when the lease was given back before its second read. `store.rs:43` |
| `AcceptedIsOwn` (`TaskSubmission`) | `MCSubmissionDeviations` | `task/sink.rs:418` | a submission without an id draws one from a counter that starts at 0 with the process (line 209); when its create fails, the status query may find an earlier task's record under the id, and accepted is answered for that. `sink.rs:498` takes such a record for the commit of this submission |
| `CancelHonoursRetention` (`TaskStore`) | `MCTaskSubmission` | `mongo.rs:411` | cancel ignores the retention in both adapters. `store.rs:45` |
| `ReplacedSessionCloses` (`RuntimeSession`) | `MCSessionProgress`, `MaxConcurrency` = 2 | `session/layer.rs:351` | a session replaced before its handle is stored is marked cancelled and never closed. `session/directory.rs:71` |
| `RoutableOnlyAfterAck` (`RuntimeSession`) | `MCSessionProgress` | `session/task.rs:42` | a dropped completion sender counts as a write, so a session whose ACK was never written becomes routable. `session/directory.rs:117` |
| `TerminalSlotIsReserved` (`RuntimeSession`) | `MCSessionProgress` | `session/consumer.rs:135` | the lane holds `maxConcurrency` terminals but the permit bounding sessions is returned at registration; a full lane fail-stops the Router. `session/consumer.rs:133` |
| `UndeliveredMeansGone` (`RequestDispatch`) | `MCRequestProgress` | `supervisor/http.rs:567` | an event between submit and register is undeliverable and ends the request with backpressure. `supervisor/http.rs:113` |
| `StreamEnds` (`RequestDispatch`) | `MCRequestProgress` | `supervisor/http.rs:689` | the timer of a stream is started again for every event, so a stream that goes on has no deadline. `router-rust-migration-c-dispatch-contract.md:277` |
| `WaiterIsAnswered` (`ActorActivation`) | `MCActor`, one call | `supervisor/actor_sink.rs:305` | a claim that ends before the handler has inserted its waiter leaves the call unanswered. `actor_sink.rs:431`, c-actor:137 |
| `AckedEvictionReleases` (`ActorActivation`) | `MCActor` | `actor/control.rs:136` | `send_control` has no caller outside tests, so the ACK of an eviction releases nothing. c-actor:141 |
| `OldFinalizerKeepsReplacement` (`ActorActivation`) | `MCActor`, two connections, one call | `supervisor/actor.rs:340` | the close of an old session releases fences granted on its replacement. c-actor:144 |
| `FreshIdleWindow` (`ActorActivation`) | `MCActor`, `ActorSpec`, two lineages, two claims | `supervisor/actor_sink.rs:587` | an actor removed and activated again inherits the old idle clock. `actor/lease.rs:220` |
| `CallerLearnsOutcome` (`ActorInvocation`) | `MCInvocationSilent` | `supervisor/actor.rs:384` | the caller is told nothing of a deadline or of a lost owner. c-actor:139, 142 |
| `InvokeReachesOwner` (`ActorInvocation`) | `MCInvocations` | `task/admission.rs:963` | a task's invocation is written to the picked candidate, not to the owner the frame names; the Runtime refuses it. `task/admission.rs:791` |
| `CorrelationIsLive` (`ActorInvocation`) | `MCInvocations` | `supervisor/actor.rs:314` | an attempt correlated between the two halves of a close keeps its correlation. `actor_sink.rs:455` |
| `FailedWriteClosesItsTarget` (`ActorInvocation`) | `MCInvocations` | `supervisor/actor_sink.rs:716` | a failed write to the owner ends the caller's session. c-actor:127 |
| `HigherRankStays` (`WsConnections`) | `MCWsClients`, three sockets, one key, `MCRanked` | `ws/index.rs:530` | replacing the last connection of a key removes the fence just written. c-client:80 |
| `EndedClientIsForgotten` (`WsConnections`) | `MCWsProgress` | `listener.rs:855`, `987` | a client that ends before it is attached, or without a close frame, stays indexed. `supervisor/ws.rs:482` |
| `ConnectPermitReturned` (`WsConnections`) | `MCWsProgress` | `listener.rs:781` | a handler dropped while it waits leaves its admission taken. `dispatch/admission.rs:241` |
| `NoConnectionOnLostRuntime` (`WsConnections`) | `MCWsProgress` | `ws/index.rs:360` | a client attached after the loss of its Runtime was processed stays. c-client:183 |
| `ConnectAnswerIsKept` (`WsConnections`) | `MCWsProgress` | `supervisor/ws.rs:653` | an answer that comes before its correlation is dropped. `supervisor/http.rs:219` |
| `AbortedSocketEnds` (`WsConnections`) | `MCWsProgress` | `listener.rs:932` | the socket of an aborted writer stays open for its reader. `listener.rs:930` |
| `WriterFailureIsContained` (`WsRequests`) | `MCWsRpc` | `supervisor/sinks.rs:78` | a failed write to a client ends the Runtime session that asked. c-ws:119 |
| `RequestDeadlineEnds` (`WsRequests`) | `MCWsRpc`, `FairRpcSpec`, one request, one id, no symmetry | `ws/broker.rs:1044` | `fire_deadline` has no caller: a request outlives its deadline. c-ws:135 |
| `TimedOutCallReturnsPermit` (`WsRequests`) | as above | `supervisor/ws.rs:760` | a timed-out call keeps its permit until the Runtime answers or is lost, and one inserted after its answer or its loss (line 749) for good. c-client:142 |
| `SlowClientIsFinished` (`WsLocks`) | `MCWsLockStore`, `Operations` and `Slow` = {"runtimeRequest"} | `ws/index.rs:727` | an over-budget write inside the broker locks the broker again. c-client:102 |
| `AttachReturns` (`WsLocks`) | `MCWsLockStore`, `Operations` = {"runtimeRequest", "attachUnknown"} | `ws/index.rs:365` | attach takes the broker's mutex under the index's, against everyone else's order. c-client:62 |
| `BudgetIsMeasured` (`WsWriteBudget`) | `MCWsBudget` | `listener.rs:907` | the writer task may subtract before the writer has added; another writer reads a huge counter and finishes the client. c-client:92. Holds with one thread |
| `FinishedTransportEnds` (`WsWriteBudget`) | `MCWsBudgetSpent`, `FairBudgetSpec` | `listener.rs:925` | the close frame waits behind frames the client does not read. c-client:103 |

## Proofs

All theorems hold for every value of the constants: any number of tasks, replicas,
connections, requests, actors, clients and claims, any clock bound and capacity. They rest on
the named assumptions that the constants have their types and that the marks for "none" are
not members of the sets they stand beside (`StoreAssumption` ... `WsRequestAssumption`,
`TaskAssumption`); `SchedulerAssumption`, `DispatchAssumption` and `SubmissionAssumption` also
say that a timestamp computed from the clock is one callers may pass. Every safety property of the passing runs is
stated by a theorem.

`TaskStoreProofs`, about `StoreSpec`:

* `TypeCorrect`, `Consistent`, `Fenced`: `TypeOK`, `RecordsConsistent` and `LeaseIdsUnique`
  (a statement about two tasks, which the one-task runs leave to the proof) are invariants.
  None is inductive alone: that a settled record's outcome fits its
  state needs the types, that a claim leaves lease ids unique needs every id in the store to
  be at most `leases` and every record without a lease to hold `NoLease`, and both need that
  a task id without a document is blank. `StoreInv` is their conjunction with
  `AbsentIsBlank`, and is inductive.
* `TerminalFinal`, `NotEarly`, `ExpiredDead`, `BackoffMonotone`: the action properties. One
  lemma states the effect of each store step on one record; the properties follow from it
  without looking at the actions again.
* `Refinement`: the store implements `TaskLifecycle`, with `PhaseOf(record)` for the phase and
  the claim generation for the attempts. The scan and the renewal stutter, recovery and
  release are both the abstract `Yield`.

`TaskDispatchProofs`, about the composed `Spec`:

* `DispatchTypeCorrect`: types of all actors, the channel within its capacity.
* `DispatchSafe`: the store's action properties and the refinement hold of the whole system. The
  lemma `DispatchUsesStore` shows that its steps are store steps; it needs `DispatchInv` (the
  store's invariant and the types), since the store only accepts a lease it handed out, hence
  one with an id in range, however stale the caller.
* `OutcomeFenced`: `OutcomeOfLastAttempt`. The property speaks of finished
  tasks only, so its induction needs to follow a lease on its way there. `FencingInv` says that
  the lease in a record is the last one handed out for its task; that an
  attempt whose outcome is unknown is pending in one place of one Router; that a report on its
  way to the store says what its attempt did; and that a
  finished task carries the outcome of its last lease. A step is a claim, which
  makes one attempt pending; a finding, which ends one pending attempt and
  creates at most one report; or quiet. Nothing
  in the argument needs the lease to be renewed in time or the reports to arrive.
* `LiveAttemptsRenewed`: `LiveAttemptIsRenewed`, on top of `FencingInv`. What could drop a
  fresh entry is a removal with an old lease id, or an older entry that overwrites it;
  `RenewalInv` adds that what a replica has in flight is older than what it is admitting. The
  clock may be set back, so a lease that ran out may become live again after its holder stopped
  renewing it; the property is about leases that never ran out (`ranOut`).
* `LeasesKeptByHolders`: `LeaseIsItsHolders`. A renewal, a settlement or a release carries a
  lease id from some awaits ago. `HolderInv` says that every id a Router keeps (renewal list,
  batch, admission, pending attempts, channel) goes back to a claim of its own: a record
  that carries the id has this Router as owner. Lease ids are never used again, so
  the conditional write of a stale id changes no other lease; recovery and claims fail on a
  live one.

`TaskSubmissionProofs`:

* `SubmissionUsesStore`: the handlers' driver calls are store steps, so the store's
  guarantees hold beside them.
* `AcceptedDurable`, `CancelAnswersTrue`. The answer is given some steps after the write or
  read it rests on, and others may create the record under the same id. `SubmissionInv` keeps:
  a record this handler inserted carries the times it built, an id answered accepted has a
  record, and a leased record was claimed; the
  answers then stay true because no transition of the reducer rewrites those fields or removes
  a record, and a canceled record is final.

`RequestDispatchProofs`, about `SessionSpec` and `RequestSpec`:

* `SessionsStayCurrent`, and `DispatchedSessionsStayCurrent` with the dispatcher on top.
  `SessionInv` adds what ties the record to the phase of the connection (a session cancelled
  while its loop runs was replaced) and that a terminal is in a consumer's mailbox once, at the end of the close,
  and not after its acknowledgement.
* `SessionsImplementLife`, `DispatchImplementsLife`: the refinement of `SessionLife`, step by
  step; the handshake, the writer and the other consumers' mailboxes stutter.
* `PermitsPaired`, `NoneLeftOnClosedSession`, `PendingsRecorded`, from one invariant `DispatchInv`. A submit
  works with a candidate view that sessions leave behind; what it may rely on is
  `LeaseIsOpen`: no session it can still choose is closed to the dispatcher. That closed sessions get no
  pending and open ones have their record rests on `BarrierCovers`: the dispatcher acknowledges a
  terminal only after it closed the session for itself. The counts are cardinalities, so the
  invariant also carries that the pending sets are finite.
* `StreamsWhole`: a chunk is in the dispatcher, in the relay of a session task, in a
  channel or in the body. `StreamInv` gives the sequence number of an event by its place in each, says who may have
  the relay, and that a request which lost an event has no pending that could send more.

`ActorActivationProofs`: `ActorTypesCorrect`, `ClaimsReserved`, `FreeKeysReservable`, `OwnerNotReplaced`,
`ClaimsBounded`, from `ActorInv`. Broker and registry are written in different critical
sections of the same handler; the strengthening is that a recorded eviction has an owner, and
that what was picked for a call has announced its replica, so that a granted fence names one.

`ActorInvocationProofs`: `InvocationTypesCorrect`, `CallsEndOnce`, `ClosedCallersForgotten`. `EndsOnce` counts
three ways to end (answer told, report to the task plane, cancel) in two maps. `PlaceInv` says
where a call can be after each step of its handler and that
whoever took it out of the relay is alone with it; it needs that a session handles one frame
at a time and is open while it does (`OneHandler`, `BusyIsOpen`), and the second theorem that
the consumer which is between sink and relay leaves no calls behind (`ForgottenInv`).

`WsConnectionsProofs`: `WsTypesCorrect`, `OrdersIndexed`, `BusinessLimited`, `GenerationsOwned`,
`TerminalsStay`, from `WsInv`. `Fits` relates the record, finalizer, terminal and
acceptance of a socket to the place its handler has reached. What
`order.retain` leaves of a sequence is a recursive function; its facts (members, order, no
repetition, length) are proved by induction, in the form that a set of naturals that is not empty has
a least member.

`WsRequestsProofs`: `RpcWithinLimits`, `RpcCountersExact`, `RpcSettledOnce`, `RpcResultsOwn`, `RpcPendingOwned`,
from `RpcInv`. `RpcWithinLimits` covers the limits of the broker, of each generation and of a
session's pool. The counters equal cardinalities in every place that adds or removes an entry, the
permits those of calls and connects together; that a
reused id is not confused needs that an execution token not drawn yet is nowhere
(`FreshTokens`), that who takes a call from the broker is alone with it (`ToldOnce`), and that a
result left frame and store of its own execution behind (`OwnResult`).

## Only model-checked

* Liveness, in every module: it needs fairness and `ENABLED`, which are out of the proof
  system's reach.
* The length of the tombstone rings in `RpcTypeOK`: they are folds over orders of a set, and
  the library's theorems about folds take an operator, which none of the provers instantiates. `RpcWithinLimits`
  states the rest of `RpcTypeOK`.
* `CloseIsToldOnce` of `WsConnections`, and `ObservationHasRecord`, `NoWriterAfterTerminal` and `PreAuthIsExact` of
  `RuntimeSession`, which further instances check.
* `BackoffPolicy`, `TaskBatch`, `WsLocks` and `WsWriteBudget`, which are about the findings.

## Not modelled, and why

The repository has about 400,000 lines of implementation, most of it compiler, VM,
linker, artifact formats and a service database: functions from data to data whose inputs
(programs, bytecode images, documents) have no small bounded set that would exercise them,
and whose correctness is about that data. A model would restate them. The protocol state
of the system is in the task crate and the Router, and these models cover its sessions,
dispatch, actors, clients and tasks; the Runtime's own scheduler is the largest part with
protocol state that is left.

Tasks:

* The Mongo `update_many` of `scan_due` is one step; documents are in fact updated
  one after the other. Each advance is independent of the others and idempotent, and
  no property relates two tasks' advances.
* The clock is set back at most `MaxSetback` times in the composed model (the store alone has
  no such bound). That a renewal never shortens a lease is not claimed: after a set-back it may.
* At the exact retention horizon the in-memory adapter answers expired and Mongo
  does not; the model follows Mongo.
* The clock of `handle_event`'s release is read before the write; the model lets it
  be any earlier time.
* `Scheduler` is `Clone`, and its comment (`scheduler/mod.rs:151`) speaks of shared
  state; the model has one `active_leases` per Router, which is how the Router uses it.
* The broadcast of first admissions to test-case submitters, logging, metrics and
  `observe_backlog` change no protocol state.
* How `admit` reaches its decision (images, candidate scoring, framing): each decision
  is possible at any time.
* How a task id is drawn: the model follows the submissions of one id, whoever else uses it.

Router:

* `shutdown` of the dispatcher, the actor brokers and the WebSocket lane, and the control
  broker's `send_control`, have no caller outside tests.
* Frame decoding, byte budgets of a session's outbound queue (a write may fail at any
  time), HTTP headers and status codes, JSON-RPC encoding.
* ABI, implementation and build identity of an actor agree or differ together: `Versions`
  stands for all three. `advance_incarnation` has no caller, so there is one epoch.
* The age of a tombstone: it may expire at any time.
* Candidate order: any candidate may come first.
* The HTTP server, configuration, health, telemetry, release and bootstrap: wiring and
  I/O, without protocol state beyond what sessions and dispatcher keep.

## Plan

Done: the task core; sessions, dispatch, actor plane and WebSocket clients as models and
runs; the due scan in relative time; theorems for the safety properties of all runs that
pass. Next, in order:

1. `TaskDispatch`'s pending set refined by `RequestDispatch`, so that an attempt's reports
   are the dispatcher's terminals.
2. `CloseIsToldOnce`, `NoWriterAfterTerminal` and `PreAuthIsExact` as theorems.
3. The Runtime scheduler's pending native calls, cancellation and resource ownership.
