# A TLA+ model of yascheduler

yascheduler runs calculations ("tasks") on machines it reaches over SSH, static
ones and virtual machines it creates in clouds. One asyncio daemon works on a
PostgreSQL database that clients and administrators also write to. This
directory models that daemon in TLA+, checks it with TLC and proves its safety
properties with TLAPS. Paths below are relative to `src/yascheduler/`.

## Inventory

| Component | State | Operations | What makes it correct |
|---|---|---|---|
| Task life cycle, `domain/model.py` | status, node, outcome of a task | run, reject, complete, fail, abandon | only TO_DO → RUNNING → DONE, one outcome, one terminal event |
| `UniqueQueue`, `application/queue.py` | queue, pending ids, unfinished count, put lock | put, get, item_done, join | an id is queued or processed once at a time; no message or putter waits forever; join counts exactly |
| Orchestrator, `application/orchestrator.py` | four queues with a producer loop and workers each; `_occupancy_started`, `_consuming`, `_connect_failures`, `machine_not_found` | connect, allocate, consume, deallocate, start, stop | the phases do not undo each other's work; stop drains |
| Allocation, `application/allocate_task.py` | claim (uncommitted row), tracker entry, tmp node row | engine check, pick a free machine, claim, deploy, commit; or provision a cloud node | a task is started once, on a machine of its own; capacity is never exceeded |
| Consumption, `application/consume_task.py` | – | download, finalise, defer | outputs are taken after the process ended, the outcome is recorded once |
| Deallocation, `application/deallocate_nodes.py` | busy-node snapshot, teardown per node | disable idle, disconnect, delete VM, remove row | no VM is deleted under a task; no VM without a row |
| Abandonment, `application/abandon_node.py` | – | disable, delete VM, remove row, drop tracker entries | a node that never connects stops costing |
| Sessions, `infra/ssh/session.py`, `repository.py` | FREE/BUSY, monitor, closed flag, node → session | connect, disconnect, occupy, release, install_monitor | a BUSY session is released exactly when its process has ended |
| Operations, `infra/ssh/operations/` | remote directory, process | deploy, occupancy check, download | failures undo what was done |
| Unit of work, `infra/persistence/` | transaction, saved tasks, rows with FK and CHECK | save (guarded or not), commit, rollback, event dispatch | a lost claim starts nothing; events follow commits |
| Cloud, `infra/cloud/` | VMs, allocation lock, provider limits | select, create, set up, delete | count ≤ max_nodes; no billed VM is forgotten |
| Providers, `infra/cloud/providers/` | attempts and deadlines of a call, Vultr's key lock; the cloud's machines, keys, addresses | create_node (key, POST, wait, clean up, reconcile by label), delete_node (find, DELETE, verify) | a create that raised leaves nothing or says so; a delete that returned left nothing |
| Node administration, `entrypoints/cli/manage_node.py` | the command in progress | add, remove softly, remove hard | safe while the daemon runs |
| Schema, `infra/persistence/postgres_schema.py`, `postgres_migrations.py`, `sql/` | tables, tracker of applied migrations | create, migrate, check before the daemon starts | each migration once, in order; no database is stuck; the daemon runs on the full schema only |
| Daemon, `entrypoints/cli/daemon_common.py`, `Orchestrator.start`, `stop` | `_bg_jobs`, `_stopped`, `_cancellation_event`, the loop's tasks | start, a signal, drain, stop | a signal ends the daemon; nothing works while stop closes what it works with; what is open gets closed |
| Submission, queries, `entrypoints/` | – | submit, list | – |

Interactions. Every phase is a *producer* that reads the database periodically
and puts messages into its `UniqueQueue`, and *workers* that take them. Phases
share the sessions (memory), the task and node rows (database) and the machines.
Nothing is handed over directly: the consume phase learns of a started task from
its RUNNING row, the allocate phase of a released machine from its session.

What is hard here: messages and snapshots that are stale when they are used
(each `await` lets another phase run); database and memory that change in
different steps; failures between a remote effect and its commit; restarts, which
lose sessions, monitors and counters but not processes; teardown of machines
others are using; sessions that outlive their machine or are replaced under a
worker; cloud answers that are lost, late or ambiguous; interrupts in the middle of
a clean-up; commands that change rows the daemon has read; signals while phases are
launched or drained. `PROJECT.json` lists each such place under `hazards`.

## Modules

**`UniqueQueue`** models `queue.py` with its callers in
`Orchestrator._create_producer_consumers`. A message is its id (the only field
equality looks at). `put()` is split at its suspension points: waiting for
`_put_lock` (`CallPut`) and waiting for room with the lock held
(`WaitForRoom`, `PutAfterWait`). Cancellation may hit either. `Get` and
`ItemDone` are the worker loop.

**`TaskLifecycle`** is the abstract specification: the typestate of
`domain/model.py` as a promise about committed rows.

**`Scheduler`** is the core: allocate, consume and deallocate of one daemon with
the sessions, monitors, machines and rows they share. An action is the code
between two awaits at which another coroutine can change what this one reads:

| Code | Actions |
|---|---|
| `_connect_machine_producer`, `repository.connect` | `Connect` |
| `install_monitor`, `occupancy_check` | `InstallMonitor`, `MonitorFrees`, `EngineRuns` |
| `allocate_task`, `_find_free_machines`, `_validate_engine` | `Pick`, `Reject`, `GiveUp` |
| `_try_start_on_machine`, `start_task_on_machine` | `Claim`, `Occupy`, `OccupyFails`, `Spawn`, `SpawnFails`, `DeployFails`, `Commit`, `CommitFails`, `StartMonitor` |
| `_task_consumer_producer` | `ListRunning`, `PutRunning` |
| `_task_consumer_consumer` | `MachineGone`, `Abandon`, `StartOccupancy`, `NotConsumable`, `Finalised` |
| `consume_task`, `download_outputs` | `BeginConsume`, `SkipConsumed`, `Download`, `DownloadFails`, `DownloadDefers`, `RmtreeFails`, `Finalise`, `FinaliseFails` |
| `deallocate_nodes` | `PickIdle`, `DisableIdle`, `CollectDisabled` |
| `deallocate_node` | `SkipBusy`, `CloseSession`, `DisableForDelete`, `DeleteVm`, `DeleteFails`, `RemoveRow` |
| death and start of the daemon | `Restart` |

Decisions a reader should know:

- Dedup in `UniqueQueue` means that a task (a node) is with at most one worker of
  a phase, so a worker's local state is a function of the task (the node). That is
  what `UniqueQueue_proofs` proves.
- A message may wait arbitrarily long between the read of its row and its put,
  because a put waits behind other messages of a full queue (the defaults are a
  queue length of 1). The few tasks of an instance are the interesting ones; the
  ones that fill the queue are not represented.
- A claim is the guarded UPDATE in an open transaction: visible to others only
  after `Commit`, but its key-share lock on the node row blocks `RemoveRow`
  (`RowLocked`). The foreign key's `ON DELETE SET NULL` against the CHECK on
  RUNNING rows makes the removal of a used node's row fail.
- `list_free()` and the read of the rows are one step, and candidates are tried
  in any order. Platforms are left out: every engine runs on every node.
- `allocated` keeps the node of a DONE task, because late messages carry it.
- `run_bg` may raise after it started the process: the confirmation is lost, or the
  wait of its grace window fails (session.py:216). `SpawnFails` is that exit of a
  deploy; deployment.py:229 releases the session and re-raises, the claim is rolled
  back, and allocate_task.py:201 tries the next machine. The history variable `lost`
  holds the processes the daemon has no record of since: after `SpawnFails`, a
  failing COMMIT or a restart.
- A webhook is awaited inside `commit()`, so `StartMonitor` and `Finalised` are
  steps after `Commit` and `Finalise`.
- Only deleted machines stop answering. A machine that does not answer is
  presumed busy (`MonitorFrees` needs the VM).
- Operators named as mutants in their comments are wrong variants of the
  definition that follows them. They are used only to see that a property
  notices such an error.

**`CloudAllocation`** is the other half of `allocate_task`: a task without a free
machine gets a VM, and VMs go away again. Here starting a task on a machine is
one step (`Start`; `Scheduler` has its parts).

| Code | Actions |
|---|---|
| `allocate_task`, free machine part | `Start`, `Miss`, `StartFails`, `CommitFails` |
| `_task_consumer_consumer` (occupancy check) | `Unstick` |
| `AllocationTracker.add`, `discard` | `BeginCloud`, `Deduped` |
| `_select_and_insert_tmp`, `select_provider` | `Select`, `SelectNone`, `InsertTmp`, `InsertFails` |
| `CloudProvisionerImpl.allocate` | `Acquire`, `Create`, `CreateFails`, `Setup`, `SetupFails`, `Undo`, `UndoFails` |
| `_persist_node_with_cleanup` | `Persist`, `PersistFails`, `Unpersist`, `UnpersistFails` |
| `_cleanup_tmp_node_best_effort`, the `finally` of `allocate_task` | `Cleanup`, `CleanupFails`, `Final`, `FinalFails` |
| connect phase | `Connect`, `GraceExceeded` |
| `abandon_node` | `AbandonDisable`, `AbandonDelete`, `AbandonRemove`, `AbandonDiscard`, and the failures of the second and third |
| `deallocate_nodes`, `deallocate_node` | `DisableIdle`, `Reap`, `ReapDisable`, `ReapDelete`, `ReapRemove`, and failures |
| death and start of the daemon | `Restart` |

A claim whose COMMIT fails leaves its session BUSY, without monitor or RUNNING row
(`conn` "stuck"). `deallocate_node` looks at the session again and skips such a node
in every cycle (deallocate_nodes.py:56), so `Reap` does not take it and
`DisabledIsReaped` excuses it; only a consume message of an earlier task of the
node, or a restart, gives it a check again (`Unstick`).

What it takes as given: a COMMIT that fails had no effect; deleting a VM that is
gone succeeds, and `deallocate()` does not return with a warning only
(manager.py:240-275), which needs a configuration that changed under the node; the
provider's answer is final (a `create_node` that raises left
no VM: that is what `MachineContract` promises); a failed
`nodes.disable` is left out, as the node is then as it was. A restart may leave
the VM of a request that was out. Ids are never reused. An engine without
platforms never gets to the cloud part and is not represented. `LongTolerance`
says that an idle machine is disabled only while no allocator could have used it.
Time does not appear otherwise: any machine may be idle, any node unreachable for
its grace.

**`MachineContract`** is the abstract specification of a provider: a machine
bills only from inside its own `create_node`; a DTO names a machine that exists;
a `create_node` that raised leaves nothing that bills, or told the operator, or was
interrupted; a `delete_node` returns only for a machine that no longer bills.

**`ProviderCall`** holds what the five providers share: a *call* is the life of
one machine, one `create_node` and then as many `delete_node` as it takes, each
with its stage, attempts and pending exception, and the cloud's side: machines that
appear in listings late, removals that settle late, addresses that are handed out
again, keys. Every request may be answered, refused, or lost before or after it
took effect. The provider modules are their protocols:

| Module | Code | What is particular |
|---|---|---|
| `HetznerProvider` | `hetzner.py` | `HetznerPost`, `HetznerReconcile` (listing by label, each orphan removed with its own attempts), `HetznerVerify` (404 must follow) |
| `VultrProvider` | `vultr.py` | key upload under a lock of the loop (`VultrLockKeys`), `VultrAwaitActive`, a clean-up guarded by its own `except BaseException`, presumed removal when GETs fail |
| `VastAIProvider` | `vastai.py` | offers, `VastAIAwaitReady` (status and ports), a contract the host may withdraw (`VastAIWithdraw`), reconciliation by label |
| `UpCloudProvider` | `upcloud.py` | a thread behind a coroutine, stop and DELETE in attempts, storage removed after the server |
| `AzureProvider` | `az.py` | NIC first, tagged, then the VM; a delete finds the VM by the address of its NIC, powers it off, deletes it and then the NIC |

`Providers` puts them behind `resolve_adapter`: a behaviour is about one of them.
Images, locations and prices are data. UpCloud and Azure keep an address as the
node's external id, so a repeated delete may find another machine
(`ForeignOnlyAfterOwn` says when). The listings of UpCloud and Azure are always
current here; those of the other three may lag.

**`Connection`** is the life of sessions, with the phases that use them as few steps:

| Code | Actions |
|---|---|
| `_connect_machine_producer` | `ConnectProduce`, `PutPending` |
| `_connect_machine_consumer`, `repository.connect` | `Open`, `Connected`, `ConnectFails`, `GraceOver` |
| `abandon_node` | `AbandonDisable`, `AbandonDelete`, `AbandonDeleteFails`, `AbandonRemove`, `AbandonEnds` |
| a connection or machine that dies | `ConnectionDies` |
| `allocate_task` | `Claim`, `Commit`, `StartMonitor`, `ClaimFails`, `EndClaim` |
| `_task_consumer_consumer`, message of a RUNNING task | `StartOccupancy`, `BeginConsume`, `Finalise`, `ConsumeFails`, `AbandonTask` |
| the same, message of a task that is finished by now | `StartOccupancyLate`, `SkipConsumed` |
| `deallocate_nodes`, `deallocate_node` | `CycleStarts`, `DisableIdle`, `CollectDisabled`, `SkipBusy`, `Disconnect`, `DeleteVm`, `DeleteVmFails`, `RemoveRow` |
| session monitor; death of the daemon | `MonitorFrees`; `Restart` |

A claim is one step with its pick (`Scheduler` has them apart), as the subject here
is the session a worker holds and the one that is registered; so one worker at a time
opens a claim on a node. COMMIT succeeds, a start is confirmed, and all tasks have one
engine: the failing COMMIT that leaves a session BUSY is in `CloudAllocation` and
`Scheduler`, the unconfirmed start in `Scheduler`. The consumer installs the node's
check before it looks at the task's status (orchestrator.py:551), so a message that
was read while its task was RUNNING starts one also when the task is finished
(`StartOccupancyLate`): once, as a finished task is not read again (`settled`). The
history variable `stale` holds the nodes where that has happened since the daemon's
start. Connecting again over
a live session replaces it: the old one's monitor goes, its holder keeps working
on it (`replaced`). A session whose connection is lost (`dead`) stays registered.

**`NodeAdmin`** EXTENDS `Connection` with yasetnode, one command at a time, in its
transactions: `AddInsert`, `AddConnected`, `AddConnectFails`, `AddSetup`,
`AddStops`, `AddEnable`; `SoftRead`, `SoftDisable`, `SoftRemove`; `HardRead`,
`HardRemove`. A host that is added again has a new id and is a new node.

**`Migrations`** has the schema as a set of features (a column, a constraint, a
type, or a group that comes together) and a migration as what its statements need,
refuse to find, drop and add. The legacy schema is the one of
`tests/integration/test_migrations.py:141`. `SchemaLooks` and `SchemaCommits` are
`schema.sql` with its bootstrap of the tracker; `ReadLast`, `ApplySql`, `PyMigrate`,
`PyRecord`, `PyRecordRetry`, `Done` the run of the migrations; `Interrupt`, `Fails`
and `RunAgain` what may happen to it; `StartDaemon` the check of `daemon_common.py`.
A transaction with DDL holds its locks to the end and is one step; what
`schema.sql` looked up before it waits for a lock is a step of its own. The
repository has no `.py` migration yet: 014 stands for a packaged one of either kind.
Column types and nullability are left out.

**`Daemon`** is the start and the stop:

| Code | Actions |
|---|---|
| `make_daemon`, `start` | `Init`, `FirstMachine`, `BarrierEnds` |
| `_print_stats` | `StatsLoop` |
| `_create_producer_consumers`: coordinator | `CoordinatorStarts`, `Produce`, `Put`, `NextTick`, `NeverStarts` |
| its `except CancelledError` | `BeginDrain`, `DrainEnds`, `DrainCancelled`, `Gathered` |
| its workers | `WorkerStarts`, `Get`, `ItemDone`, `Interrupted`, `Suppressed` |
| `on_signal`, `stop` | `FirstSignal`, `LaterSignal`, `NextJob`, `SetChanged`, `LoopEnds`, `CloseSession`, `CloseRaises`, `SessionsClosed`, `CloseHttp` (and the handler's cancels after it) |
| `asyncio.run` | `BarrierEnds` (it cancels what is left), `Exit` |

A job is a task of `_bg_jobs` with the place it waits at; `cancelling` has the jobs
that were cancelled and have not run since. The messages of a phase are a number. The
loop of `stop()` passes over a job that has ended without an await, and takes the others
in any order, as a set does.
`sessions` are open connections, those that `disconnect()` has popped but not closed
yet included. A cancellation that arrives while a consumer or `stop()` awaits a
session's monitor is suppressed (session.py:431): `Suppressed`, `CancelsStop`. A
later signal's handler returns from `stop()` at once and cancels every task but the
main one, also the first handler. Cancelled waits of `_await_first_machine` count as
its 30 seconds being over (`FirstMachine`). A `start()` that raises is left out.

**`MCScheduler`, `MCCloudAllocation`, `MCMigrations`** give the constants their
values that a configuration cannot write.

**`UniqueQueue_proofs`, `Scheduler_proofs`, `Lifecycle_proofs`,
`CloudAllocation_proofs`, `NodeAdmin_proofs`, `Migrations_proofs`, `Providers_proofs`,
`Daemon_proofs`** hold the theorems.

## Runs

| Run | Question | Answer |
|---|---|---|
| `UniqueQueue` | dedup, exact counts; messages are processed; 4 ids, 2 putters, 2 workers, 2 slots | hold |
| `Scheduler_single` | one allocator worker, 2 static nodes, a failing deploy, unconfirmed start or failing download: a second start only after a lost one, separate nodes, refinement of `TaskLifecycle`; every task ends, every BUSY session is released | hold |
| `Scheduler_teardown` | two allocators and the teardown of one cloud node: RUNNING rows sound, no orphan process but a lost one, no lost session | hold |
| `Scheduler_restart` | the rows through a restart, failing commits, clean-ups and VM deletions | hold |
| `CloudAllocation` | capacity, no forgotten VM, one VM per task, slots given back, disabled nodes torn down unless stuck; 2 tasks, 2 providers, 2 failures or restarts | hold |
| `Providers` | each provider implements `MachineContract`; no silent orphan, one key, no foreign removal, every call ends; 2 machines, 2 attempts per loop, 2 interrupts | hold |
| `NodeAdmin` | a cloud and a static node under one command and one fault: hosts are used once set up, outputs are taken after the exit, static nodes stay, drains and finished tasks end | hold |
| `Migrations` | two yainit processes, interrupted anywhere and run again, on every cohort of database: the daemon starts on the full schema only, each migration once, no upgrade stuck | hold |
| `Daemon` | two signals at any time, closes that raise: nothing works during the clean-up, a clean-up that ends has closed everything, a `stop()` that finds every phase begun ends the daemon, with consumers of any duration | hold |
| `CloudAllocation_deduped` | no task is deduped because of a node that is gone; 3 tasks, 1 worker, no failures | violated |
| `Scheduler_delete_running` | no VM is deleted under a RUNNING task | violated |
| `Daemon_exit` | the process ends after all sessions are closed | violated: `start()` returns when the jobs have ended, the `finally`'s `stop()` is a no-op, and `asyncio.run()` cancels the handler that is closing |

The violations are disagreements between the code and its own documentation;
`PROJECT.json` quotes both sides under `findings`. Those of `Daemon`, here and below,
were also seen with a small asyncio program of the same structure.

More properties stated in the modules do not hold. Each has a configuration that
shows it (`tlc -config <name>.cfg` on the module):

| Configuration (module) | Property | What happens |
|---|---|---|
| `Scheduler_two_allocators` (`MCScheduler`) | `SeparateNodes` | both pick a free node; the task one of them starts there ends before the other's occupy, which then starts its own: two RUNNING rows on one node |
| `Scheduler_late_message` (`MCScheduler`) | `CompletedAfterExit` | a message of a finished task, put late, starts an occupancy check on the node while another task is deployed to it; it finds no process and frees the session, so that task is consumed while it runs |
| `Scheduler_abandon_done` (`MCScheduler`) | `DoneIsFinal` | a late message of a completed task whose session was closed is abandoned; the save has no status guard |
| `Scheduler_missing_engine` (`MCScheduler`) | `MissingEngineFinalised` | no occupancy check is started for an engine that left the configuration, so nothing is consumed and the branch that fails such a task (consume_task.py:262) is not reached |
| `Scheduler_unconfirmed` (`MCScheduler`) | `NoDuplicate` | the process runs, its confirmation is lost, and the task is started on the next machine too: the "duplicate on retry" session.py:214 rules out by a single attempt. `FailureLeavesNothing` fails on the same trace, although allocate_task.py:82 promises that a failure leaves no side effects |
| `CloudAllocation_stuck` (`MCCloudAllocation`) | `SkippedIsReaped` | a claim on an idle node that is being disabled fails to COMMIT; its session stays BUSY and every cycle skips the teardown |
| `NodeAdmin_late_message` (`NodeAdmin`) | `ConsumedWhenFree` | the trace of `Scheduler_late_message` with whole sessions: no fault and no command is needed |
| `Providers_upcloud` (`Providers`) | `GoneIsNoError` | an attempt to delete a server had its effect and its answer was an error; the next one finds no server and breaks out, and the kept exception is raised all the same (upcloud.py:226), although upcloud.py:188 says "SERVER_NOT_FOUND = idempotent success"; the storage stays |
| `NodeAdmin_added` (`NodeAdmin`) | `AddedStays` | yasetnode inserts a static host disabled before it connects (manage_node.py:336); the teardown that collected the row then removes the node after it was set up, enabled and reported as added |
| `Daemon_early` (`Daemon`) | `ExitsOnAnySignal` | a signal comes while `start()` waits for its first machine: `_bg_jobs` grows under the loop of `stop()` (orchestrator.py:846), whose RuntimeError leaves jobs uncancelled; later signals find `_stopped` set, and a worker in `get()` waits on, although orchestrator.py:71 says "Bounded so shutdown always completes" |
| `Daemon_drain` (`Daemon`) | `DrainLeavesNothing` | `stop()` sets the event before it cancels (orchestrator.py:843), a worker looks at it before each get (line 673) and leaves, so the drain of line 664 ("gracefully drain work on shutdown") ends with what is queued dropped |
| `Providers_az` (`Providers`) | `PartialCreateIsCleanedUp` | a NIC that was created stays, without a log, when tagging it or reading its address fails (az.py:131): create_nic is called (az.py:270) before the `try` of az.py:283, although az.py:260 promises a clean-up on any failure after it |
| `NodeAdmin_late_put` (`NodeAdmin`) | `YieldsUnconnected` | the producer yields a node that got its session while the put waited (orchestrator.py:260); with a queue of one place `ConsumedAfterExit` fails for that reason |
| `Migrations_py` (`MCMigrations`) | `AppliedIffRecorded` | when the COMMIT of a `.py` migration's record fails, the retry records it without its effect (postgres_migrations.py:281) |

With the default limits (20 allocators, 20 consumers, queues of length 1) none of
the orders in the scheduler is excluded.

Other facts met while modelling, which no property states:

- When the claim's COMMIT fails after the spawn, the process runs on and the
  session stays BUSY without a monitor (`BusyHasReason` with `"commit"` in `Faults`).
- A clean-up that fails half-way counts as transient (`RmtreeFails`), so a task
  whose outputs were stored can end failed (`FailedKeepsDir` with `"rmtree"`). A
  permanent download error leaves the remote directory, which ARCHITECTURE.md:308
  says is removed.
- After a restart `connect_grace` starts anew and `abandon_node` does not look at the
  tasks of a node: it deletes the VM of a cloud node whose RUNNING task is still
  calculating (abandon_node.py:67).
- Hetzner's `_reconcile` "never raises" except when a sleep or a DELETE in it is
  cancelled; VastAI's clean-up is not guarded against cancellation, as documented;
  a cancelled UpCloud coroutine drops the result of its thread. `Interrupted`
  excuses these three. UpCloud may leave a storage.
- VastAI draws among the five cheapest offers, the specification says the cheapest;
  the specification's table has Vultr's identity as an address, the code uses the
  instance id.
- `--remove-hard` leaves the session, the monitor and the process behind; a soft
  removal of an idle cloud node forgets its VM.
- A legacy task that is RUNNING on no node makes migration 011 refuse, which stops
  the upgrade (`orphans`); of two concurrent yainit the loser fails loudly and may
  run again; a transaction that a deadlock aborted cannot be retried by a new BEGIN.

### Bounds

Two tasks and two nodes are enough for every race of two actors over one machine
and for a second attempt on another machine. `MaxFaults` and `MaxRestarts` are 1
or 2 and any step may be the failing one; `BrokenPasses` is 1 for the code's 20, so
that the abandonment is reached. The state space of `Scheduler` is finite without
further bounds, as tasks are: 331 450 states (`Scheduler_single`), 2 145 297
(`Scheduler_teardown`) and 982 353 (`Scheduler_restart`).

`CloudAllocation` has two node ids for two providers with `max_nodes` 1, so the
second task finds the better provider full or busy; `MaxFaults` 2 counts failures
and restarts, enough for a failure and the failure of its clean-up, or of a
tear-down after a restart; 433 801 states. A node that cannot be reached is not counted. A third
request is cut off by `MaxNode`.

`Providers` has two machines for the races over keys, locks and addresses, two
attempts and two polls for each loop of the code (3 to 60), so that a loop is
entered, repeated and exhausted, and two interrupts, the second of which hits the
clean-up after the first. Failed requests are not bounded: 74 577 states.

`NodeAdmin` has one cloud and one static node, one task, one command and one fault
(a dropped connection, a failed deletion or a restart): every pair of them meets. The
queue has a place for every node (the default is ten), see `NodeAdmin_late_put` for
less; 638 401 states. With one task the late message of another one does not occur:
`NodeAdmin_late_message` has two tasks, and the proof any number.

`Migrations` has two processes without a bound on how often they run, one `.py`
migration and failures of its recording; 63 397 states.

`Daemon` has the phase that `start()` waits for and one of those launched after it,
with one worker each and queues of one place (the default of three of the four): a
job that `stop()` has cancelled meets one it has not reached, and one that does not
exist yet. The second signal hits the drain or the clean-up of the first; two
machines let one close raise and another follow: 958 613 states. The violations need
one signal and one machine.

Deadlock is checked in the runs of `UniqueQueue`, `Scheduler` and `Migrations`:
those systems never stop by themselves. Elsewhere tasks, machines and commands
are finite and a behaviour may end when they are used up; a daemon may exit.

### Fairness

Every coroutine is resumed by the event loop and every phase loop runs again after
its sleep: weak fairness of the allocator's and consumer's steps, of the producers,
the monitors, and the teardown of a node. The failing exits of a deploy or a download
are exits, and count as the step's end. A calculation ends and an enabled machine
gets connected. Failures, restarts and which machines count as idle are not fair.
`Scheduler_single` has no cloud nodes, because nothing makes the daemon create a new
one there. In `UniqueQueue` the wake-up order of `asyncio.Lock` is first-in
first-out, which is strong fairness of getting the lock.

In `CloudAllocation` an allocation, once begun, goes on (weak fairness; failures
are not part of it), and a waiter of `allocation_lock` or of a provider's
semaphore gets it in the end, as asyncio wakes waiters in order (strong
fairness). Connecting, abandoning and tearing down go on, too. Ids being finite and
used once, `SlotIsReleased` and `DisabledIsReaped` say "infinitely often" of all
nodes together, which is cheaper for TLC than a leads-to for each. Nothing makes a
task end or a machine idle.

In `Providers` only a running call is scheduled again, with whatever answer; nothing
is assumed of the cloud, the callers or interrupts. In `NodeAdmin` the loops of the
daemon run on, calculations end, and a host that is tried again and again is
reached at some time (strong fairness of `Connected`); a command that was begun
ends, but none need begin. `FinishedIsFinalised` and `Reaped` excuse a node whose
session is dead: nothing evicts it. `Migrations` has no liveness: an operator need
not run yainit again; `CanUpgrade` says that a further run would not be stuck.

In `Daemon` the event loop goes on while some task can: the first machine is waited for
30 seconds, a consumer returns. One weak fairness of all these steps is enough, it does
not matter which task is resumed. A cancelled task gets its CancelledError before it does
anything else. Signals are not fair.

## Refinement

- `Scheduler` implements `TaskLifecycle`: the committed columns are its variables.
  Checked by `Scheduler_single`, proved without cloud nodes; a teardown breaks it
  (`Scheduler_abandon_done`).
- `Providers` implements `MachineContract`: a machine is owned from the return of
  `create_node` to that of `delete_node`, and an interrupt on the three providers
  named above excuses it. `CloudAllocation` takes a provider for this contract.

## Proofs

The proofs rest on the named assumptions of the modules and what a theorem itself
assumes. Each uses a frame lemma that says what a step may change without
disturbing the invariant, and treats the steps that do more one by one.

`UniqueQueue_proofs`: all safety properties of the queue for any ids, putters,
workers and maxsize. The strengthening is `LockedIdIsNew`: a put that waits for
room inserts without repeating its membership test, and may, because only the
holder of `_put_lock` inserts.

`Scheduler_proofs`, for any numbers of tasks, nodes, engines, workers, failures and
restarts:

- `TypeCorrect`: types, and that a machine is bound to an allocator exactly from
  `Claim` to `StartMonitor` and to every RUNNING row.
- `RunningTasksSpawned`: by `SpawnBeforeCommit`, what the allocator holds between
  spawn and commit.
- `RunningTasksHaveRow`: by `ClaimedHasRow`, the row of a claimed node stays
  because its key is locked.
- `OneWorkerSeparates`: only for `AllocateLimit = 1` and finitely many tasks. What
  was free when it was picked stays free of RUNNING tasks (`FreshPick`), because
  nobody else commits in between (`OneAllocating`). The configuration
  `Scheduler_two_allocators` shows that the assumption is needed.

`Lifecycle_proofs` says under which restriction `Scheduler` keeps the rest:

- `BusySessionsHaveReason`: a BUSY session has a monitor or a holder
  (`BusyHasHolder`), unless a COMMIT fails.
- `ProcessesAreKnown`, `TasksSpawnedOnce`: through any failures and restarts, what
  was spawned and not lost is what an allocator holds or what a row names
  (`SpawnedIsKnown`); that needs that a claimed task is TO_DO and one the consumer
  handles is not (`HandledInv`). What is lost is said by `lost`, which only an
  unconfirmed start, a failing COMMIT and a restart extend: that those do leave
  processes behind is what `NoDuplicate` and `FailureLeavesNothing` show.
- `ImplementsLifecycle`: without cloud nodes, any failures and restarts. No session
  is closed, so a task that is consumed is RUNNING and connected
  (`ConsumingIsRunning`), and a late message of a task that is DONE either finds a
  session and is dropped or was abandoned before (`LateMessageHarmless`).
- `FailedTasksKeepDir`: with static nodes and without failing COMMITs, clean-ups and
  restarts, a directory that was removed belongs to a task that is completed or about
  to be (`RemovedIsCompleted`).

`CloudAllocation_proofs`, for any tasks, providers, limits, failures and restarts:

- `TypeCorrect`.
- `CapacityNotExceeded`: only `InsertTmp` adds a counted row; its caller is alone
  since it counted (`OneInserting`) and what it counted leaves room
  (`RoomForInsert`). Every other step shrinks the set of counted rows
  (`Shrinks`). For `Persist` that needs `HeldInv`: the row it enables is still
  the tmp row it inserted, since nobody else has it and only enabled nodes are
  torn down.
- `OneNodePerTask`: until a restart no task has two live nodes. The tracker holds the
  live node of every task that waits (`Deduplicated`); an entry goes only when its
  task starts, its allocation gave the node up, or nobody wants the node
  (`AbandonedNotLive`).
- `NoUnknownVm`: by what the allocator knows before it cleans up a row
  (`CleanedUp`) and the teardown before it removes one (`Deleted`).

`NodeAdmin_proofs`, for any nodes, tasks, queue sizes, limits, commands and faults:

- `TypeCorrect`.
- `HostsAreReady`: a row is enabled, and a session claimed, only for hosts that were
  set up; sessions of rows that are still being added are used by nobody.
- `StaticNodesKept`: no outage, grace, restart or idleness takes an enabled static node
  out of use: the connect phase abandons cloud nodes only, and only cloud nodes are
  disabled for being idle. Two ways are left and named in the statement: the command
  in progress on the node, and a teardown past its disconnect, which was collected
  while the row was disabled. The second may hit a node that was enabled since; the
  stronger `AddedStays` is violated (`NodeAdmin_added`).
- `OutputsTakenAfterExit`: if the connection queue has room for every node
  (`RoomAssumption`; the default is ten places, `NodeAdmin_late_put` shows that the
  assumption is needed), and except on nodes where the message of a finished task
  started a check (`stale`; `NodeAdmin_late_message` shows that the exception is
  needed). With room a put never waits and the producer yields only what is
  unconnected now (`ConnectInv`). An open claim has the node to itself and its session
  BUSY without a monitor (`OpenInv`), a monitor frees once (`MonitorInv`), and the
  session of a node that was checked stays BUSY while its task runs (`CheckedInv`).
  It is about the claims of `Connection`: picked and opened in one step, committed,
  of one engine.

`Migrations_proofs`, for any processes, packaged `.py` migrations, failures and
interrupts:

- `MigrationsAppliedOnce`: a transaction that recorded a migration has inserted its
  key into the tracker, and no step removes a key.
- `MigrationsTypeOK`, `UpgradeNeverBlocked`: processes do not exclude each other, but
  the primary key lets them record only the row after the last one, so the schema is at
  the version of the last row, up to what `schema.sql` creates ahead of time
  (`UpgradeInv`). What the 13 statements need of it is shown one by one.
- `SuccessMeansHead`, `PreflightSound`: the tracker, and with it the schema, is at the
  head when a process reports success or the daemon passes its check. Both assume that
  the COMMIT of a `.py` record does not fail (`"commit" \notin RecordFailures`): the
  retry would record what was rolled back, see `Migrations_py`.

`Providers_proofs`, for any number of calls, addresses, attempts and interrupts, and
each of the five providers:

- `ProvidersInvariant`: what each stage of a call knows (`StageInv`), what it may have
  left at the cloud (`MachineInv`), that an address has one holder (`AddressInv`),
  and that who uploads a key holds the lock and has found none (`KeyInv`).
- `ProvidersTypeOK`, `OrphansAreTold`, `OneKey`, `OwnMachineFirst`,
  `ErrorsPropagate` (about Azure and Vultr only: Hetzner and VastAI may replace the
  exception they clean up after), and `ProvidersKeepContract`, the refinement of `MachineContract`.
  A step is one call's; each provider module is shown once to make only moves of a
  few kinds (`Step`), and the rest argues about those. The other calls see
  nothing but machines, addresses and keys (`Others`).
- Two places of the model were too weak for the proof and wrong: Azure creates a VM only
  while the NIC it names exists (`AzAccept`), and on UpCloud a left-over storage
  holds no address (`HoldsAddress`). TLC checked the invariant also with three
  Azure machines on one address and three UpCloud machines on two.

`Daemon_proofs`, for any phases, workers, queue sizes, machines and signals at any time:

- `DaemonInvariant`, `DaemonTypeOK`.
- `CleanupIsQuiet`: the loop of `stop()` ends only when every job in `_bg_jobs` has, and
  then none is at work. What `start()` launches afterwards finds the event set at its
  first look (`AfterInv`). That needs every job to be in `_bg_jobs` from the step that
  creates it (`RegisteredInv`; for workers orchestrator.py:702).
- `StopClosesAll`: the clouds and the orchestrator share one repository, so a close
  that raises ends the first pass only, and the second takes what is left.

Every invariant and every action property of a passing run is proved; several under the
restrictions said above, which the theorems state. The type invariants of `Providers`,
`NodeAdmin`, `Migrations` and `Daemon` are proved and not among the properties of the
runs. Only model-checked is the liveness
(`QueuedIsProcessed`, `AllDone`, `BusyIsReleased`, `SlotIsReleased`,
`DisabledIsReaped`, `FinishedIsFinalised`, `Reaped`, `CallsEnd`, `ExitsOnSignal`):
fairness and ENABLED are out of the prover's reach.

## Plan

Done: `UniqueQueue`, `TaskLifecycle`, `Scheduler`, `CloudAllocation`,
`MachineContract` with the five providers, `Connection`, `NodeAdmin`, `Migrations`,
`Daemon`, and the theorems above.

Left, in this order:

1. Several daemons on one database: the guarded claim against the unguarded saves,
   `allocation_lock`s that do not exclude each other.
2. The drain's cancellations inside an allocation: what `_persist_node_with_cleanup`
   keeps.
3. Event handlers: webhooks after commits, retries.

## Not modelled

- What a stop interrupts: in `Scheduler`, `Connection` and `CloudAllocation` the daemon's
  end is a crash (`Restart`), which leaves what a stop leaves, or less. The SysV
  launcher's PID file is not modelled.
- Event dispatch and webhooks: a failing handler is logged, and the others run. Only
  the await of the webhooks inside `commit()` is a step, because other coroutines run
  meanwhile.
- `shared/retry.py` is a loop around one call; a failure in `Scheduler` or
  `Connection` is one that is left after its retries.
- SSH platform adapters, logging, configuration parsing and the AiiDA plugin: input
  and output, or sequential code without state.
- Submission and queries insert or read one row; they are the initial states.
- Remaining time, idle tolerance and intervals are nondeterministic choices.
