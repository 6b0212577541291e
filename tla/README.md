# DeskPilot: a TLA+ model of its durable task execution

DeskPilot (`src/`) lets a user ask for something in natural language, plans it
with a model, and runs Tools on a Windows machine behind a policy engine and
one-shot approvals. Its hard part is not the planning but the bookkeeping: a
Tool that moves a file must run only when it was authorized, at most once per
grant, and whatever happens in between - a crash, a lost lease, an impatient
user, an answer that never comes - the database must say truthfully what was
done, what was not, and what nobody knows.

This directory models that bookkeeping. All paths below are relative to
`src/backend/src/deskpilot/` unless they start with `doc/` (that is
`src/doc/`) or `frontend/`.

## The system

| Part | State | Operations | Who else touches it |
| --- | --- | --- | --- |
| **Task ledger** (`application/task_service.py`) | rows of the task: status, event sequence, Tool calls, policy decisions, approvals, reconciliation cases, checkpoint | about forty public methods, each one transaction under the per-task `asyncio.Lock` | worker, HTTP routes, expiry timers, startup |
| **Effect graph** (same file) | graph, nodes, edges, attempts, effects, lease columns | node transitions, claims, reductions, compensation plans | every instance, through lease, fencing token and revision |
| **Task processor** (`application/processor.py`) | `_runtimes`: stage, node, mode, call, approval, stop flag, lease per task | nine stages, suspend, pause, resume, cancel, restore | one worker coroutine per task, HTTP routes |
| **DAG dispatcher, trusted executor** (`effect_dag_dispatcher.py`, `trusted_effect_dag.py`) | claims in flight, cancel flag | claim, execute in parallel, reduce, compensate in waves | admission, Runner |
| **Admission** (`effect_dag_admission.py`, `effect_dag_cluster_admission.py`) | queue, permits, shards | register, schedule, renew, release, withdraw | dispatchers of every instance |
| **Graph control router** (`effect_graph_control_router.py`) | mailbox of cancel commands | insert, route, claim, apply, acknowledge, retry | instances, lease owner |
| **Outbox, inbox, RabbitMQ** (`outbox_publisher.py`, `inbox_consumer.py`, `infrastructure/rabbitmq_transport.py`) | message rows, claims, attempts, inbox keys | claim, publish, mark, dead-letter, consume | every transaction writes an outbox row |
| **Runner client and supervisor** (`runner_client.py`, `runner_supervisor.py`) | generation, pending calls, breaker | start, call, time out, cancel, restart | processor, Runner process |
| **Runner** (`runner/`) | consumed grants, prepared commits, receipts | verify, isolate, commit, receipt, recover | file system |
| **Model gateway** (`model_gateway.py`) | registry, breaker, cooldown and half-open slot per provider, reserved and spent cost per task | complete with retries and fallback, reconfigure | processor, provider management |
| **Provider management, health** (`provider_management_service.py`, `provider_management_repository.py`, `provider_health_service.py`) | catalog with version, idempotency rows, audit; health cache, probes in flight | create, update, enable, disable, make default, delete, probe | settings page, other processes on the same database |
| **Runtime operations** (`effect_runtime_operations.py`) | retention marks, alerts, audit export | inspect, clean, notify, freeze | operators |
| **HTTP/WebSocket API, startup, shutdown** (`api/`, `main.py`) | none of their own | control, approval, reconciliation routes; startup order | frontend |
| **Frontend** (`frontend/`) | event list, control and approval state | reconnect, deduplicate, submit, poll | API |

What makes it hard:

* *Interleaving.* A worker coroutine, HTTP requests and timers run between each
  other's `await`s. The task lock covers one transaction, not a request: what a
  request read before is stale when it writes.
* *Crash and restart.* Between two transactions the process may end. Startup
  decides from the rows alone: restore, fail, or ask a person
  (`main.py:319-341`: `prepare_durable_recovery`, `recover_pending_approvals`,
  `recover_incomplete_tool_calls`, `activate_durable_recovery`).
* *Several instances.* A lease with a fencing token guards the graph; reads and
  conditional writes of two instances interleave.
* *Unknown outcomes.* A Tool that was dispatched and did not answer may have
  acted. Nothing may repeat it; a person decides.
* *Unreliable neighbours.* The Runner process, the broker, the page and the model
  providers come and go; every message may be lost, repeated or late.

What makes each modelled part correct is stated at the end of its module; the
list of what can go wrong, line by line, is `hazards` in `PROJECT.json`.

## The modules

| Module | Models | Composition |
| --- | --- | --- |
| `ToolLedger` | the rows of one task; one action per method (or per branch of a method) of `TaskService` | - |
| `EffectGraphLease` | lease columns and fenced mutation of the graph row, several instances | implements `FencedGraph` |
| `FencedGraph` | what a lease promises: one holder, one change on top of the other | abstract |
| `EffectGraphLeaseProofs` | theorems about it | extends `EffectGraphLease` |
| `SagaExecution` | `TaskProcessor` on a version 1 graph, with the routes, timers, crash and startup | extends and implements `ToolLedger` |
| `SagaExecutionProofs` | theorems about it and about `ToolLedger` | extends `SagaExecution` |
| `EffectDag` | a version 2 graph: its tables, ready projection and compensation plan, and the worker with preparer, dispatcher and executors | - |
| `EffectDagProofs` | theorems about it | extends `EffectDag` |
| `GraphControl` | the mailbox of cancels, its routers, and the workers and lease they meet | the inside of a node is `EffectDag` |
| `GraphControlProofs` | theorems about it | extends `GraphControl` |
| `Admission` | cluster admission: tickets, scheduler, permits | the dispatchers around it are those of `EffectDag`, reduced to acquire, run, release |
| `AdmissionProofs` | theorems about it | extends `Admission` |
| `RunnerCalls` | supervisor, client, server loop, commit threads, receipt journal and files of the Runner | its answers are those `SagaExecution` and `EffectDag` assume |
| `RunnerCallsProofs` | theorems about it | extends `RunnerCalls` |
| `Delivery` | outbox, publishers, broker, inbox, fan-out, WebSocket and page | its events are those the ledger appends |
| `DeliveryProofs` | theorems about it | extends `Delivery` |
| `ModelGateway` | the gateway of one process | - |
| `ProviderManagement` | catalog, commands, health service, restart | extends `ModelGateway`: the composed specification is here |
| `ProviderManagementProofs` | theorems about it and about `ModelGateway` | extends `ProviderManagement` |
| `MC*` | constants for TLC | |

A definition has the name of the method it models, or of the branch
(`resolve_approval_expired`). A definition whose comment starts with "Mutant"
is a broken variant of the definition after it; no specification uses it.

### ToolLedger

One task, a set `Calls` of call identities. The variables are the status
columns of the task, of each call, policy decision, approval and case, two
facts about time and spending (`lapsed`: `expires_at` is past; `consumed`:
`consumed_at` is set), and the checkpoint row reduced to what startup asks of
it: is there one, and is its `event_seq` the task's last (`bound`) or older
(`stale`). Every appended event makes it stale; the methods that write or
rebind it in the same transaction make it bound (`Journal`, `JournalBound`).

A method that raises changes nothing and is no step. Any method may come at any
time while the process serves: the callers' discipline is left to
`SagaExecution`, so what holds here does not depend on it. Startup runs in its
order; what it does with a requested call depends on the runtime that was
restored, here a free choice `keep`. A startup whose status change is refused
raises out of the lifespan handler and the process does not come up
(`recover_incomplete_tool_calls_raises`).

Left out: event payloads, digests of arguments and previews (a decision that
does not match its preview is refused and changes nothing), idempotency keys
(a repeated request is answered without change).

### EffectGraphLease

`acquire_effect_graph_lease` reads the row and then writes with a conditional
`UPDATE`; `begin` is the read and `acquire_*` the write, and the workers of
other instances act in between. A mutation (`_fence_effect_mutation`) is the
same: its `UPDATE` holds the row lock to the commit, so the change of the graph
lands with it. Renew and release are single statements. Workers of one instance
share its identity and its task lock. In PostgreSQL `CURRENT_TIMESTAMP` is the
start of the transaction, in SQLite the statement; conditions may be judged at
either (`t`). Every process start draws a fresh identity, so a crash ends an
instance for good and a restart is another one.

A consequence worth knowing: with the time of the transaction's start a fenced
write can land after the lease has run out on the wall. It is harmless as long
as nobody took the lease over, and then the revision refuses it; the refinement
of `FencedGraph` includes it.

### SagaExecution

The processor's stages 0 to 8 for a saga of `NodeCount` moves, or for the one
call of any other version 1 request (`IsSaga = FALSE`). `rt` holds the fields
of `_TaskRuntime` a checkpoint carries, `saved` the checkpoint's payload,
`worker` the point between two transactions where the coroutine is. Every step
that writes the ledger *is* the action of `ToolLedger` of that name, and the
`saga` run checks that nothing else is ever written (`LedgerSpec`).

* `Serving`: `asyncio.Lock` is first in, first out, and a route that resumes the
  worker goes from its commit to `_start_worker` without another `await`; so
  between the two only steps without the lock are taken. That is where `pause`
  may read the status and find no worker.
* A verdict commits in one step and the worker starts in a later one. In between
  (`recovering`) the request loads the checkpoint (`recovery_loads`) and checks it
  against graph, call and approval (`recovery_starts`), both without the lock, so
  that a pause, a cancel or a crash may come first. The same request may be sent again later (`recover_graph_repeated`).
* An approved decision may be repeated while its grant is not spent. That starts
  the worker whatever the status of the task, paused included
  (`approve_replayed`; `approvals.py:120-139` asks for no more than an open task).
* The Runner answers success, failure, cancelled or nothing trustworthy.
  The policy engine answers anything, and the same for the same call.
* A lost lease is one flag: the renewal was refused, every fenced write is.
* A graceful shutdown is a pause of the worker and the end of the process.
* A cancel of a task whose runtime is gone is sent to the owner of the graph
  through the mailbox, which for a version 1 graph never succeeds.

Left out: model answers and plans (stage 1 raises or goes on), receipts and
effect rows (they follow the node), the version 2 branch of every stage
(`EffectDag`); and a repeated verdict that overlaps the first one's restore, or
the last step of a worker that raised (*Disagreements*).

### EffectDag

`tables` are the rows of the graph: status and cancel intent, node statuses and
claims, attempts with the answer of the policy, branch decisions, the rows and
the count of the ready projection, the waves of the compensation plan. `driver`
is where `_run_trusted_effect_dag` stands (`at`) and what it remembers there:
the head of its loop (`idle`), preparation, `run_until_idle` with
`max_rounds = 1`, the wave dispatcher. One action is one transaction; between
two of them come answers of the Runner, approvals, cancels, the router.

* Only the holder of the lease writes (`EffectGraphLease`), so there is one
  driver. A lost lease ends it (`lose_lease`); a lost claim or permit takes one
  node from it (`lose_claim`).
* `Record` is `_record_effect_transition`: whoever changes nodes also moves the
  projection, incrementally (`RowsAfter`, `CountAfter`). `ReadySet` is the
  definition it replaces.
* The executors of a batch are independent; `attempt` stands for the attempt row
  and its Tool call together, `grant` for decision and approval.
* A cancel is a stop for the worker (`cancel_local`), an intent in the database
  while a dispatcher runs, or a message applied by the owner of the lease or by a
  router that takes it (`control_*`). For the graph a pause is the same stop.
* Admission is external: it lets some nonempty part of the nodes through.
* `Waves` builds the compensation plan as the code does, wave after wave of the
  effects whose successors are all in earlier waves (`Taken`).
* A denial in the middle of a batch can move a node into the selection that was
  never prepared; its executor has no call and falls back to an unknown node
  (`result_refused`).

Left out: pages after the first and digests (the claim's proof can only be
outdated by a cancel, which the model checks as such), the resolver of Tool
arguments, restart of the process, the verdict on an unknown node, pause as a
status of the task.

### GraphControl

One version 2 graph and its control row. `router[i]` is where the router of
instance `i` stands between two transactions of a pass (`route_pending`,
`claim_for_owner`, the handler, `mark_applied` or `retry`), `rt[i]` the task's
runtime there. A handler that finds a dispatcher hands the cancel over and waits;
one that finds none takes or keeps the lease, persists the intent, cancels the
task and reduces the graph. Leases and claims are live until `lease_lapses` or
`claim_lapses`, which cannot happen while a heartbeat renews them unless a fault
is spent. Fencing tokens are drawn as the least number nobody remembers: only
their equality is ever asked for.

### Admission

A dispatcher registers a batch, waits, claims what was granted, runs and
releases. One run of the scheduler is one transaction; the two databases have
their own (`_schedule_once` orders batches by the last grant of their graph,
`_schedule_postgresql_once` takes the shard whose turn it is). `served` and
`turns` are the grant sequences reduced to an order. `GrantAll` is the granting
loop of SQLite and `GrantNext` one turn of either, `WithdrawRest` what is
withdrawn of a batch that was partly granted.

A change of configuration is refused while anybody holds a live ticket. With
SQLite that is one step, since the transaction begins with its write
(`_lock_scheduler`). With PostgreSQL the transaction runs at READ COMMITTED: it
locks the state row (`changing`), counts (`count_live`) and writes
(`write_configuration`). Withdrawals, cancels and other changes wait for the row;
registrations, the scheduler (which reads the row without a lock), renewals and
releases do not. In the same way `acquire_batch` sees its configuration in force
and registers in a transaction of its own. A run of the scheduler is placed at
its snapshot; that its clock may be a moment behind that of the count (a ticket
lapses in between and is granted nevertheless) is left out. The controller of a
single process (`effect_dag_admission.py`) is not modelled.

### RunnerCalls

`file.move` from the caller to the disk and back. The server is one loop, the
threads of its pool commit concurrently, and they meet in the commit boundary
and the cancellation event only; so completion, expiry and cancel are steps of
the loop, and every call into the journal or the file system is a step of a
thread. `moved` and `row` outlive the process, everything else of it is gone
with `Exit`. Another program may touch the files at any time (`meddle`).

The control plane sends a call once, so the refusals of a repeated call id
(`TOOL_CALL_ID_REUSED`, an existing stage) have no action. The journal relies on
a single Runner at a time, as `doc/33`, section 7, says; the supervisor waits
for the old process before it starts the next.

### Delivery

The life of an event row from `append_event` to the page. `hand[i]` is the batch
a publisher works through, `flights` the running `_consume_message`, `broker` all
that RabbitMQ holds. Publishing (confirm), marking, the inbox transaction, the
live push and the ack are steps of their own, and a crash or a lost connection
comes between any two. With the local transport the publisher pushes to its own
fan-out. The page opens a socket with the last sequence it has, the server
subscribes before it reads the backlog, and a full queue drops its oldest event.

### ModelGateway and ProviderManagement

The gateway runs on one event loop, so all that happens between two awaits is
one step: `Continue` runs the loop of `complete` until the request calls a
provider, sleeps or ends. `Route` is what role, privacy and capabilities leave,
`Price` the upper bound a call reserves. An input token is taken to be at least
one byte, as `_input_token_upper_bound` does; a provider that reports more would
be charged more than was reserved. Deadlines are a choice: the deadline may have
passed whenever a request comes back to the loop (`late`).

A management call looks for its receipt, reads the catalog, prepares the
candidate, commits, reconfigures, invalidates; between these steps come the calls
of other processes, requests, probes and the end of the process. Only the
gateway of one process is modelled. A behaviour chooses one `Deployment`: what
takes part, so that each mix stays small.

## What is checked

| Run | Instance | Properties |
| --- | --- | --- |
| `ledger` | two calls, one of them of the effect graph; 284,224 states | `AuthorizedDispatch`, `UnknownHasCase`, `WaitingIsBacked`, `RejectionClosesBatch`, `GrantSpentOnce`, `SettledFactsStay` |
| `lease` | two instances, three workers, tokens to 3, two mutations, clock to 4 | `TokenHasOneInstance`, `FencedSpec` |
| `saga` | two moves, every request, loss and crash; 1,035,245 states | `OutcomeMatchesGraph`, `EffectHasEvidence`, `CrashBetweenStagesIsHarmless`, `BoundCheckpointFits`, `LedgerSpec` |
| `saga_order` | three moves, without pause, cancel and lost leases; 734,936 states | `CompensationInReverse`, `ForwardStopsAfterFailure` |
| `single_call` | one call, fairness; 19,032 states | `WorkerSettles`, `CancelEnds` |
| `dag` | five nodes, two at a time, one branch, one node that cannot be reversed, one lost claim, permit or lease; 111,527 states | `ProjectionExact`, `ForwardInOrder`, `CompensationInWaves`, `EndIsTruthful`, `DriverSettles` |
| `graph_control` | two instances, none, one or both with a runtime, one crash or two other faults; 387,333 states | `AppliedUnderIntent`, `ControlSettles` |
| `admission` | two instances, two graphs, three nodes, two tools, both databases, one fault, alone or with a second configuration (there with one node per graph); 161,091 states | `CapacityHeld`, `AcquireEnds` |
| `runner` | one call against three failures of the process or two mishaps of disk and journal, two calls against one thread or a full Runner; 293,176 states | `AnswerIsTruthful`, `ReceiptIsTruthful`, `MovedIsRecorded`, `RunnerReturns` |
| `delivery` | two instances, two events, both transports, up to two faults, one requeue, one receipt forgotten, a page that connects twice; 625,431 states | `AppliedOnce`, `PublishedIsNotLost`, `PublishedInOrder`, `BacklogMeetsLive`, `EventSettles` |
| `model_gateway` | three requests of two tasks over two providers; seven commands in four mixes from one or two processes, one restart; 63,675 states | `BudgetHeld`, `SlotBacked`, `CompleteEnds`, `AuditExplainsCatalog`, `ServesCatalog` |
| `dag_compensation` | the graph of `dag`; violation | `CompensationNotInterrupted`, see *Disagreements* |

Most modules have a type invariant (`TypeOK`, `SagaTypeOK`) that documents their
state. All but that of `GraphControl` are proved instead of checked (those of
`Admission`, `ModelGateway` and `ProviderManagement` are the first parts of their
inductive invariants); so are three properties that are not in a run's list any
more (`EndedHasNoCheckpoint`, `RevisionIdentifiesRow`, `NoTakeoverOfLiveLease`),
which the runs' properties rest on.

Bounds. Two calls are enough for every interaction of a batch: the batch
actions treat all siblings alike, and the theorems lift the result to any
number. The lease needs two instances (rivals), two workers in one of them
(same identity, different tokens), three tokens (taken over twice) and two
mutations (one lost would show). Two nodes give the saga its first compensation;
three are needed to see an order, and there the requests that do not change the
order are left out to keep the run short. The DAG has two roots, a node that
needs both and a branch, its alternative, and a node on its own: with two at a
time it is the smallest in which nodes of different depth are in flight, a
failure comes after several successes, and the plan has two waves, one of two
nodes. Approvals and denials are given to the nodes where they meet parallel
siblings. One loss per behaviour is enough to lose a claim, a permit or the
lease at every point.

The faults of the newer models are budgets of a deployment: every fault can come
at any point, and the combinations that matter are deployments of their own. A
second fault is there where the code reacts to the first (a takeover that dies as
well, a Runner that fails until its circuit opens: three failures for a threshold
of two). The limits (`QueueSize`, `MaxAttempts`, `Threshold`, the admission
limits, `Limit`) are the smallest that can be both reached and missed.

The deadlock check is on for the ledger, the saga and the DAG, which end in a
step of their own or never. The lease stops at the bounds on clock and tokens,
the other models when their events, calls and faults are used up.

Fairness (`FairSagaSpec`). The event loop runs every coroutine that is ready;
the Runner client answers or times out (`runner_client.py` bounds every call),
so the worker is fair; a request waiting for the worker is woken when it ends;
and the lock's waiters are served in turn, so a step that needs the lock is
taken if it can be taken again and again (strong fairness). In `EffectDag` the
steps of the driver are weakly fair for the same reasons. No user, timer,
crash or recovery is assumed to act.

In the other models the loops that the code starts with the process are weakly
fair: publisher, consumer, router, server loop, pool threads, reader and
supervisor poll or are woken for ever, and each has an exception handler that
keeps it going. The admission scheduler has no loop of its own: a dispatcher
that waits runs it at every poll, and only that is fair. A lease, claim, ticket,
backoff, cooldown or window that nobody renews runs out. A provider answers,
fails or is timed out by the gateway. Faults are never fair, and each liveness
property says what happens if they stop.

## What is proved

With TLAPS, for every value of the constants:

* `SagaExecutionProofs`, the ledger: the six properties of the `ledger` run, type
  correctness and `EndedHasNoCheckpoint`, for any set of calls. Together they are
  inductive once one fact is added, `SpentIsDispatched`: a spent grant is approved and
  its call has left `requested`. Without it the ledger could cancel the approval of
  a running call or spend a grant twice. `RejectionClosesBatch` is why the whole batch
  must be closed in one transaction: with one sibling left open, the next approval
  would set a cancelled task running.
* `EffectGraphLeaseProofs`: the two properties of the `lease` run, type
  correctness, `RevisionIdentifiesRow` and `NoTakeoverOfLiveLease` for any
  instances, workers and bounds, including that the lease implements
  `FencedGraph`. The heart is that the revision identifies the row: it grows
  with every change except an extension of the expiry, so a conditional write
  that finds the revision it read acts on the row it read, and the next token
  has never been issued.

* `SagaExecutionProofs`, the execution: type correctness, `OutcomeMatchesGraph`,
  `EffectHasEvidence`, `CompensationInReverse`, `ForwardStopsAfterFailure` and the
  refinement `LedgerSpec`, for any number of nodes. The refinement makes every
  theorem of the ledger one of the saga (`SagaDispatchAuthorized`). The invariant
  hangs on the checkpoint: at any moment, crashes included, the durable state is
  the one its payload describes (`Fits`), give or take what the current stage has
  written: the nodes before its index have succeeded, those after it are untouched
  or taken back, its own node and call are where the stage may have brought them.
  A runtime in memory is that payload or the next one. That is why stage 7 may look
  at one node and speak for all of them, and why a crash cannot make it lie.
* `SagaExecutionProofs`, crash and restart: `CrashBetweenStagesIsHarmless` and
  `BoundCheckpointFits`, from a second invariant on top of the first. `ResumeInv` says
  what a restart and a repeated approval count on: between two stages the checkpoint
  is bound to the last event and the call is the one the next stage expects; a
  payload knows whether its call needs an approval, and such a call has one that is
  pending or granted; a task waits for an approval only from the suspension of its
  worker to the answer; the mode of the graph is that of a dispatched call, which is
  why a verdict may resume in the mode of its payload; a worker was told to stop by a
  pause, by a lost lease, or not at all; and a runtime nobody drives has a pause, a
  resume or its approval ahead. Most of it holds only until a cancel request has closed
  a call (`Calm`): a cancel closes a requested call under a suspended worker, and what
  is left then is not restorable, nor needs to be. `BoundCheckpointFits` is inductive
  on top of it: the binding to the last event is a promise about every other row,
  because a writer that leaves the payload behind appends an event, and each that
  rebinds the row (stage, pause, resume, approval, verdict) has brought task, node,
  call and grant where the payload says. `Loaded` carries it over the restore after a
  verdict: a checkpoint that was bound when it was loaded is not stale when the
  worker starts from it. The property exempts a paused task (the pause binds whatever
  payload there is), a task that waits for a verdict, a call at the Runner and a call
  a cancel has closed: there the startup relies on the other checks of
  `_runtime_from_checkpoint`, which the model has as well.
* `EffectDagProofs`: type correctness, `ProjectionExact`, `ForwardInOrder`,
  `CompensationInWaves` and `EndIsTruthful` for every valid DAG, every policy and
  every bound. The invariant has two layers: `Core` about the tables alone (the
  status of a node fits its attempts, what runs forward runs in order, the plan
  covers exactly the effects that stand, in waves that respect the edges) and
  `Drive` about the places the driver may be at, given the tables: a status it has
  read in one transaction is still true when the next one acts on it. The counter
  of the projection is proved to be the cardinality of the ready set.
* `GraphControlProofs`: `AppliedUnderIntent` and type correctness, for any instances
  and deployments. Neither leases nor claims are in the invariant: the place of a
  router says what it has written or seen (`UnderIntent`, `ClosedBeforeMarking`), and
  that lasts, because no step of a worker, a rival router or a crash withdraws an
  intent, reopens a graph or revives a task. So a router that lost lease and claim may
  go on to the end and does no harm. Type correctness includes that the fencing tokens
  of the model never run out (`FreshToken`): reusing those that nobody remembers
  restricts no behaviour, however many instances there are.
* `DeliveryProofs`: type correctness, `AppliedOnce`, `PublishedIsNotLost`,
  `PublishedInOrder` and `BacklogMeetsLive`, for any tasks, instances, deployments
  and bounds. Each needs a fact about something on its way: a handler that has its
  receipt and has not pushed yet, a publisher that has its confirm and has not
  marked yet, a claim that is not used yet, a socket that has read its backlog and
  not sent it.
* `RunnerCallsProofs`: type correctness, `AnswerIsTruthful`, `ReceiptIsTruthful` and
  that a committed row stays committed and a call reported failed or cancelled moves
  no file afterwards (`AnswersStand`), for any calls, deployments and thresholds.
  The invariant ties together what the pool thread, its commit boundary, the row of
  the journal, the file and the frames in the pipes know of a call. The heart is
  `NeverMoves`: what must be true of a call, and stay true, before `failed` or
  `cancelled` may be written to the pipe.
* `AdmissionProofs`: `CapacityHeld` for any instances, graphs, nodes, tools and
  limits. The invariant is that the live permits, whenever there are any, fit the
  configurations that count (`Limiting`): with SQLite that of the state row, which
  changes only while there are none; with PostgreSQL those of all instances, which
  never change, because there the row may be rewritten under live permits. The
  granting loop is shown to keep it turn by turn, for any number of turns.
* `ProviderManagementProofs`, the administration: `AuditExplainsCatalog` and
  `ServesCatalog`, for any processes, commands and providers. A command that commits
  was prepared from the catalog it replaces, because what it has read is not older
  than what its client saw, and the client's version is compared in the transaction;
  the mutation lock keeps the process the only one that is on its way from the
  database to its gateway; a probe that runs is of the adapter that is registered.
* `ProviderManagementProofs`, the gateway: `BudgetHeld` and `SlotBacked`, for any
  requests, providers, prices and limits. `GatewayInv` says that what is reserved for
  a task is *exactly* the number of micros its calls in flight may still cost (a bound
  would not do: `_release_cost` stops at zero, so one micro released twice would be
  one reserved too little), and that a taken half-open slot belongs to a call in
  flight of a registered provider (otherwise the answer of an unregistered one would
  leave it taken). `Holds` is the same of the state in which one request runs its
  loop; each turn keeps it.

The properties of the model are stated over sums and counters as cardinalities
(`AtStake`, `Active`, `ReadySet`): that is what makes them provable without
induction over the data. Where a loop of the code is a recursive function
(`GrantAll`, `Continue`, `Replayed`, `Taken`), its proof picks the least turn at
which the claim fails (`LeastNat`), since the induction rules of the library take an
operator as a parameter, which no backend can instantiate.

Assumptions on constants, all evaluated by TLC in the runs:

* ledger, lease: `EffectCalls` is a subset of `Calls`; `NoOwner` is no instance,
  every worker has an instance, the lease has a positive duration;
* saga: a saga has at least two nodes, any other request one, each with a call in
  each direction;
* DAG: `ValidDag`, which is what `_validate_effect_dag` accepts (finite, acyclic,
  a branch has an outcome that is not the empty value), positive concurrency, and a
  policy that has an answer for every attempt;
* delivery, Runner: well-formed deployments, positive bounds, at least one call;
* admission: finitely many instances and nodes, positive limits;
* gateway, management: finitely many requests, a nonempty list of providers, routes of
  configured providers only, natural prices, commands of the shape the API accepts.

Only model-checked is liveness (`WorkerSettles`, `CancelEnds`, `DriverSettles`,
`ControlSettles`, `AcquireEnds`, `MovedIsRecorded`, `RunnerReturns`, `EventSettles`,
`CompleteEnds`), which is out of the prover's reach.

## Disagreements

One statement of the documents is refuted by a run, with a shortest trace:

* `CompensationNotInterrupted` (`doc/45`:51 and 85). A routed cancel that finds no
  dispatcher is persisted and followed by `reduce_effect_dag`, also while the
  graph is compensating. With no node in flight the result is `cancelled`, and
  the waves that are left never run.

The others below were found while modelling and are recorded without a run.
TLC gave the trace of each of the first eight when their statement was checked
as a property of the model; the rest follow from reading the code the models
translate.

Tasks and graphs:

* An unknown outcome blocks its graph (`doc/39`:38). A crash during a dispatch
  leaves a checkpoint whose call is no longer `requested`.
  `prepare_durable_recovery` therefore fails the task, and
  `recover_incomplete_tool_calls`, two steps later, makes the call unknown but
  skips the graph of a terminal task. The case is pending, the graph stays
  `active`, and `recover_reconciliation_graph` refuses it.
* A paused task can be resumed (`doc/03`:125, `doc/26`:9). `approval_id` is not
  cleared when the approval is spent, and `can_resume` refuses a runtime that
  has one. A task paused after its approved move can only be cancelled.
* Every open task can be cancelled (`doc/03`:126). A version 1 task without a
  runtime (its lease was contended at startup, or lost) sends its cancel through
  the mailbox, and the owner's `request_effect_dag_cancel` refuses a version 1
  graph.
* A dispatched call is never disguised as not dispatched (`doc/27`:18 and 140).
  A lease lost during a dispatch keeps the result out. The cancel that was
  waiting for the worker closes the running call as
  `TOOL_CALL_CANCELLED_BEFORE_DISPATCH`, without a case.
* An unknown node blocks its DAG (`doc/43`:49). After one unknown result the
  task waits for reconciliation. A second one in the same batch is refused, and
  so is the policy decision for the next node to be prepared; either exception
  makes the task `failed`, and the graph stays `active`.
* An acknowledged cancel has stopped its graph (`doc/47`, step 5). A cancel
  handed to a dispatcher that has just left its round is acknowledged although
  `_apply_pending_cancel` no longer writes it; `AppliedUnderIntent` shows that
  this is the only such case.
* Only an idle admission changes its configuration, and the last writer cannot
  change the limits of the cluster (`doc/48`:14 and 79). With PostgreSQL
  `ensure_configuration` counts the live tickets and then writes, at READ
  COMMITTED (`effect_dag_cluster_admission.py:123-148`); a batch registered and
  granted in between then runs under limits it exceeds. `CapacityHeld` says what
  is left of the promise.
* An expired admission ticket is settled by every scheduling transaction
  (`doc/48`:34). With PostgreSQL `schedule` returns before it settles anything
  when no shard has live pending tickets (`effect_dag_cluster_admission.py:295`),
  so a dispatcher whose tickets have all lapsed waits until somebody else's
  ticket wakes the scheduler. A shard also uses up its turn when its tool is
  full (`doc/59`:55): two graphs that compete for a turn can starve each other
  (`Overtaken`).
* A pause that reads `running` between the commit of a resume (or approval) and
  the start of its worker finds no worker, commits `paused`, and the worker then
  starts the Tool: `start_tool_call` only asks that the task has not ended
  (`doc/03`:124 excludes such a window).
* An approval that commits while the worker, having read it as pending, returns,
  starts nobody. The task runs, its runtime waits, and it stays so until the
  approval is repeated or the process restarts; no property excludes it.
* A repeated approval starts the worker of a task that was paused after the first
  one (`approvals.py:120-139`, `approve_replayed`), and its Tool runs under the
  paused task (`doc/03`:124).
* A verdict has committed before its request restores the worker
  (`processor.py:643-668`). A pause before the checkpoint is loaded leaves a
  paused task without a runtime, which no resume accepts until the process
  restarts; after it the worker starts under the paused task. A check that fails
  leaves a running task without a runtime. And a second request with the same key that gets
  between the first one's check of `_runtimes` and its start of the worker
  restores a second runtime, so two workers drive one task; this overlap is not
  modelled.
* `transition_effect_node` does not ask whether the task has ended: a worker that
  a resume starts during a cancel appends node events after `task.cancelled`
  (`doc/03`:126).
* An approval that commits before the worker has saved stage 6 rebinds the
  checkpoint of stage 5 to the newest event. After a crash stage 5 is repeated
  and the unique key of the approval fails the task, where `doc/38`:5 promises
  that approved tasks continue.
* A pause of a running DAG sets the same stop as a cancel, and the head of the
  loop answers it with `_cancel_inactive_effect_dag`: the graph is cancelled
  under a paused task (`doc/03`:124-125).
* A stop while nodes wait for approval leaves the graph active, and the loop
  repeats the cancel until its 100 rounds are used up and the task fails
  (`stop_reduces`).
* A routed cancel that arrives after the end rewrites a `succeeded` or
  `compensated` graph to `cancelled`: neither `request_effect_dag_cancel` nor
  `reduce_effect_dag` asks whether the graph has ended.
* An approval that expires at the dispatch of its node cancels the task under the
  running siblings of the batch; their results are refused, and the executor
  turns the node that never ran into `unknown` (`result_refused`).

Delivery:

* A consumer that crashes between the inbox commit and the live push never
  pushes the event: the redelivery finds the receipt. The page gets it with the
  next backlog only.
* A live event that arrives out of order (after a dead letter was requeued) is
  behind the cursor of the socket and skipped; the page reconnects with its
  latest sequence, so the gap stays (`doc/07`:65, `doc/57`:27).
* A publisher that crashes between publishing and marking counts no attempt: a
  row that kills its publisher is tried for ever.
* Retention may delete a published row before it is consumed; the delivery is
  then rejected for good.

Runner:

* On POSIX `_move_no_replace` checks and then renames; another program may put a
  file there in between (`meddle`). The receipt is judged by what is found
  afterwards, so it stays truthful.

Model gateway:

* A call in flight when its provider is removed may finish (`doc/23`:172), but
  `_record_success` and `_record_failure` raise `KeyError`, and the answer is
  lost.
* Half-open lets one probe through (`doc/25`, section 7). A late failure or a
  cancel of an older call gives back the slot of somebody else's probe, and a
  second one can start. `SlotBacked` is the other direction.
* A request past its deadline records a timeout for every fallback it selects
  and never calls, which may open their circuits.
* A late success clears a newer Retry-After.
* `stream` has no caller. Closed early it would keep its reservation and slot.
* `reconfigure` reaches the process that committed only; `doc/23`:227 assumes a
  single API process, and so does `ServesCatalog`.

## Plan

1. *(done)* Ledger, lease, saga: specifications, runs, proofs of the first two.
2. *(done)* `EffectDag` with the ready projection.
3. *(done)* `Delivery`, `RunnerCalls`, `Admission`, `GraphControl`,
   `ModelGateway` with `ProviderManagement`.
4. *(done)* Proofs of all invariants and action properties of the passing runs
   (*What is proved*).
5. Abstract specifications: an event is applied once or dead-lettered
   (`Delivery`); a call acts at most once and its receipt is truthful
   (`RunnerCalls`).
6. What is left of the code: restart and verdicts in `EffectDag`, the
   follow-up tasks of a reconciliation, local admission, runtime operations.

## Not modelled

The Windows sandbox, ACL, DPAPI and credential code are calls of the operating
system without a protocol of their own. The policy engine and the Tools are
functions whose every answer the model allows (`file.move` excepted, whose
commit is part of `RunnerCalls`). Runtime operations
(`effect_runtime_operations.py`) sweep over rows other components own, one
bounded batch after the other; what retention does to outbox and inbox is in
`Delivery`, alerts, archive and audit export are not modelled. `stream` of the
gateway has no caller. Payload formats, digests, migrations and the look of the
frontend carry no state that a property is about. Parts that are not or only
partly modelled are listed with their reason in `PROJECT.json`.
