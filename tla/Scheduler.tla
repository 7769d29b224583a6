------------------------------ MODULE Scheduler ------------------------------
(***************************************************************************)
(* One daemon running tasks on connected machines: the allocate, consume   *)
(* and deallocate phases of the orchestrator, the sessions they share and  *)
(* the rows they read and write.                                           *)
(*                                                                         *)
(*   allocate    allocate_task.py: pick a free machine, claim the task row *)
(*               in a unit of work, occupy the session, spawn, commit      *)
(*   consume     orchestrator.py, consume_task.py: start the occupancy     *)
(*               check, download the outputs of a free machine, finalise   *)
(*   deallocate  deallocate_nodes.py: disable idle cloud nodes, tear down  *)
(*   occupancy   occupancy.py, session.py: the monitor that frees a        *)
(*               session when no process of its engine is left             *)
(*                                                                         *)
(* The coroutines share one event loop, so an action is the code between   *)
(* two awaits at which another coroutine can change what this one reads.   *)
(* UniqueQueue lets at most one message of a task or node be queued or in  *)
(* process, so the consumer state is a function of the task (the node).    *)
(***************************************************************************)
EXTENDS Integers, FiniteSets

CONSTANTS Tasks, Nodes,
          CloudNodes,     \* nodes with cloud # None: they have a VM to delete
          Engines, EngineOf,
          AllocateLimit,  \* allocate_limit: number of allocator workers
          BrokenPasses,   \* broken_tasks_passes
          Faults,         \* which operations may fail
          MaxFaults,      \* bound: failures in a behaviour
          MaxRestarts,    \* bound: daemon restarts in a behaviour
          NoNode, NoEngine

ASSUME NodesAssumption == CloudNodes \subseteq Nodes /\ NoNode \notin Nodes
ASSUME EnginesAssumption == EngineOf \in [Tasks -> Engines] /\ NoEngine \notin Engines
ASSUME BoundsAssumption ==
    /\ AllocateLimit \in Nat
    /\ BrokenPasses \in Nat
    /\ MaxFaults \in Nat
    /\ MaxRestarts \in Nat
    /\ Faults \subseteq {"deploy", "spawn", "commit", "download", "rmtree", "delete"}

VARIABLES
    (* database, committed *)
    status,      \* yascheduler_tasks.status
    allocated,   \* allocated_node_id
    outcome,     \* which terminal transition was recorded
    rows,        \* rows of yascheduler_nodes
    enabled,     \* those with enabled = TRUE
    (* machines *)
    vms,         \* machines that exist
    procs,       \* <<task, node>> of the processes that run
    spawned,     \* <<task, node>> of the processes ever started
    lost,        \* those whose last start nobody recorded (history variable)
    removed,     \* tasks whose remote directory is gone, at least in part
    (* sessions of the repository *)
    conn,        \* "none": not connected; else the MachineState
    monitor,     \* engine the session's monitor checks for
    (* allocator, per task *)
    alloc, cands, target,
    allocClosed, \* tasks whose allocator holds a closed session
    (* consumer, per task *)
    listed,      \* RUNNING tasks read by the producer, not yet put
    consume,
    consClosed,  \* tasks whose consumer holds a closed session
    gone,        \* machine_not_found
    occupancyStarted,
    (* deallocator *)
    dealloc, busyNodes, toDisable, teardown,
    (* environment *)
    configured,  \* engines in the config of the running daemon
    faults, restarts

db == <<status, allocated, outcome, rows, enabled>>
tasksDb == <<status, allocated, outcome>>
machines == <<vms, procs, spawned, lost, removed>>
sessions == <<conn, monitor>>
allocator == <<alloc, cands, target, allocClosed>>
consumer == <<listed, consume, consClosed, gone, occupancyStarted>>
deallocator == <<dealloc, busyNodes, toDisable, teardown>>
environment == <<configured, faults, restarts>>
vars == <<db, machines, sessions, allocator, consumer, deallocator, environment>>

Outcomes == {"none", "rejected", "completed", "failed", "abandoned"}

AllocStates == {"idle", "picked", "claimed", "deploying", "spawned", "committed"}

ConsumeStates == {"none", "queued", "abandoning", "downloading",
                  "completing", "failing", "saved"}

TypeOK ==
    /\ status \in [Tasks -> {"TO_DO", "RUNNING", "DONE"}]
    /\ allocated \in [Tasks -> Nodes \cup {NoNode}]
    /\ outcome \in [Tasks -> Outcomes]
    /\ rows \in SUBSET Nodes
    /\ enabled \in SUBSET rows
    /\ vms \in SUBSET Nodes
    /\ procs \in SUBSET spawned
    /\ spawned \in SUBSET (Tasks \X Nodes)
    /\ lost \in SUBSET (Tasks \X Nodes)
    /\ removed \in SUBSET Tasks
    /\ conn \in [Nodes -> {"none", "FREE", "BUSY"}]
    /\ monitor \in [Nodes -> Engines \cup {NoEngine}]
    /\ alloc \in [Tasks -> AllocStates]
    /\ cands \in [Tasks -> SUBSET Nodes]
    /\ target \in [Tasks -> Nodes \cup {NoNode}]
    /\ allocClosed \in SUBSET Tasks
    /\ listed \in SUBSET Tasks
    /\ consume \in [Tasks -> ConsumeStates]
    /\ consClosed \in SUBSET Tasks
    /\ gone \in [Tasks -> 0..(BrokenPasses + 1)]
    /\ occupancyStarted \in SUBSET Nodes
    /\ dealloc \in {"idle", "disabling"}
    /\ busyNodes \in SUBSET Nodes
    /\ toDisable \in SUBSET Nodes
    /\ teardown \in [Nodes -> {"none", "queued", "closed", "disabled", "deleted"}]
    /\ configured \in SUBSET Engines
    /\ faults \in 0..MaxFaults
    /\ restarts \in 0..MaxRestarts
    \* a machine is bound exactly while one is being set up, and while RUNNING
    /\ \A t \in Tasks :
          /\ alloc[t] \notin {"idle", "picked"} <=> target[t] \in Nodes
          /\ status[t] = "RUNNING" => allocated[t] \in Nodes
          /\ (t \in listed \/ consume[t] # "none") => allocated[t] \in Nodes

\* Submitted tasks and enabled nodes; the daemon has just started.
Init ==
    /\ status = [t \in Tasks |-> "TO_DO"]
    /\ allocated = [t \in Tasks |-> NoNode]
    /\ outcome = [t \in Tasks |-> "none"]
    /\ rows = Nodes
    /\ enabled = Nodes
    /\ vms = Nodes
    /\ procs = {}
    /\ spawned = {}
    /\ lost = {}
    /\ removed = {}
    /\ conn = [n \in Nodes |-> "none"]
    /\ monitor = [n \in Nodes |-> NoEngine]
    /\ alloc = [t \in Tasks |-> "idle"]
    /\ cands = [t \in Tasks |-> {}]
    /\ target = [t \in Tasks |-> NoNode]
    /\ allocClosed = {}
    /\ listed = {}
    /\ consume = [t \in Tasks |-> "none"]
    /\ consClosed = {}
    /\ gone = [t \in Tasks |-> 0]
    /\ occupancyStarted = {}
    /\ dealloc = "idle"
    /\ busyNodes = {}
    /\ toDisable = {}
    /\ teardown = [n \in Nodes |-> "none"]
    /\ configured = Engines
    /\ faults = 0
    /\ restarts = 0

Running == {t \in Tasks : status[t] = "RUNNING"}
BusyNodeIds == {allocated[t] : t \in Running}

\* A failure of the given kind happens (a bounded number of times).
Fault(kind) ==
    /\ kind \in Faults
    /\ faults < MaxFaults
    /\ faults' = faults + 1
    /\ UNCHANGED <<configured, restarts>>

-----------------------------------------------------------------------------
(* Connect phase and machines. *)

\* The connect consumer registers a FREE session for a node that is enabled
\* or drains a RUNNING task (_connect_machine_producer, connect()).
Connect(n) ==
    /\ conn[n] = "none"
    /\ n \in vms /\ n \in rows
    /\ n \in enabled \cup BusyNodeIds
    /\ conn' = [conn EXCEPT ![n] = "FREE"]
    /\ monitor' = [monitor EXCEPT ![n] = NoEngine]
    /\ UNCHANGED <<db, machines, allocator, consumer, deallocator, environment>>

\* A calculation ends on its own.
ProcessExits(t, n) ==
    /\ <<t, n>> \in procs
    /\ procs' = procs \ {<<t, n>>}
    /\ UNCHANGED <<db, vms, spawned, lost, removed, sessions, allocator, consumer,
                   deallocator, environment>>

\* What pgrep for the engine's process name answers on the machine.
EngineRuns(e, n) == \E t \in Tasks : EngineOf[t] = e /\ <<t, n>> \in procs

\* start_occupancy_check() on an open session: occupy if FREE, and replace
\* whatever monitor the session has.
InstallMonitor(n, e) ==
    /\ conn' = [conn EXCEPT ![n] = "BUSY"]
    /\ monitor' = [monitor EXCEPT ![n] = e]

\* Mutant: the monitor loop ends without calling on_free().
MonitorForgetsRelease(n) ==
    /\ monitor[n] # NoEngine
    /\ n \in vms
    /\ ~EngineRuns(monitor[n], n)
    /\ monitor' = [monitor EXCEPT ![n] = NoEngine]
    /\ UNCHANGED <<db, machines, conn, allocator, consumer, deallocator, environment>>

\* The check finds no process: on_free() releases the session, the loop ends.
\* A machine that does not answer is presumed busy.
MonitorFrees(n) ==
    /\ monitor[n] # NoEngine
    /\ n \in vms
    /\ ~EngineRuns(monitor[n], n)
    /\ conn' = [conn EXCEPT ![n] = "FREE"]
    /\ monitor' = [monitor EXCEPT ![n] = NoEngine]
    /\ UNCHANGED <<db, machines, allocator, consumer, deallocator, environment>>

-----------------------------------------------------------------------------
(* Allocate phase. *)

Allocating == {t \in Tasks : alloc[t] # "idle"}

\* Mutant: the nodes of RUNNING tasks are not subtracted.
FreeMachinesWithBusy == {n \in enabled : conn[n] = "FREE"}

\* list_free() joined with the enabled rows, minus the nodes of RUNNING
\* tasks.  A session that is free later than the rows are read is one that
\* was free at the read or was released since, so reading both in one step
\* loses no pair.
FreeMachines ==
    {n \in enabled : conn[n] = "FREE" /\ n \notin BusyNodeIds}

\* The engine is not in the config: reject(), save, commit.
Reject(t) ==
    /\ alloc[t] = "idle"
    /\ status[t] = "TO_DO"
    /\ EngineOf[t] \notin configured
    /\ status' = [status EXCEPT ![t] = "DONE"]
    /\ outcome' = [outcome EXCEPT ![t] = "rejected"]
    /\ UNCHANGED <<allocated, rows, enabled, machines, sessions, allocator,
                   consumer, deallocator, environment>>

\* get_todo(), _validate_engine(), _find_free_machines().  With no free
\* machine allocate_task() goes on to the clouds; the task stays TO_DO.
Pick(t) ==
    /\ alloc[t] = "idle"
    /\ Cardinality(Allocating) < AllocateLimit
    /\ status[t] = "TO_DO"
    /\ EngineOf[t] \in configured
    /\ FreeMachines # {}
    /\ alloc' = [alloc EXCEPT ![t] = "picked"]
    /\ cands' = [cands EXCEPT ![t] = FreeMachines]
    /\ UNCHANGED <<db, machines, sessions, target, allocClosed, consumer,
                   deallocator, environment>>

\* _try_start_on_machine() up to the guarded save: UPDATE ... WHERE status =
\* TO_DO takes the row lock; the claim is visible to this transaction only.
\* A lost claim or a node row that is gone raises, and the next pair is tried
\* (the longest idle machine first; any order here).
Claim(t, n) ==
    /\ alloc[t] = "picked"
    /\ n \in cands[t]
    /\ cands' = [cands EXCEPT ![t] = @ \ {n}]
    /\ IF status[t] = "TO_DO" /\ n \in rows
       THEN /\ alloc' = [alloc EXCEPT ![t] = "claimed"]
            /\ target' = [target EXCEPT ![t] = n]
       ELSE UNCHANGED <<alloc, target>>
    /\ UNCHANGED <<db, machines, sessions, allocClosed, consumer, deallocator,
                   environment>>

\* Rollback of the claim; the exception is logged and the loop goes on.
RollBack(t) ==
    /\ alloc' = [alloc EXCEPT ![t] = "picked"]
    /\ target' = [target EXCEPT ![t] = NoNode]
    /\ allocClosed' = allocClosed \ {t}
    /\ UNCHANGED cands

\* After the unit of work of _start_task_on_machine(): session.occupy().
Occupy(t) ==
    /\ alloc[t] = "claimed"
    /\ t \notin allocClosed
    /\ conn[target[t]] = "FREE"
    /\ conn' = [conn EXCEPT ![target[t]] = "BUSY"]
    /\ alloc' = [alloc EXCEPT ![t] = "deploying"]
    /\ UNCHANGED <<db, machines, monitor, cands, target, allocClosed, consumer,
                   deallocator, environment>>

\* MachineBusyError, or the session was closed under the allocator.
OccupyFails(t) ==
    /\ alloc[t] = "claimed"
    /\ t \in allocClosed \/ conn[target[t]] = "BUSY"
    /\ RollBack(t)
    /\ UNCHANGED <<db, machines, sessions, consumer, deallocator, environment>>

\* Inputs uploaded, process started on the machine.  What run_bg() awaits
\* afterwards, and the COMMIT, are still ahead.
Spawn(t) ==
    /\ alloc[t] = "deploying"
    /\ t \notin allocClosed /\ target[t] \in vms
    /\ procs' = procs \cup {<<t, target[t]>>}
    /\ spawned' = spawned \cup {<<t, target[t]>>}
    /\ lost' = lost \ {<<t, target[t]>>}
    /\ alloc' = [alloc EXCEPT ![t] = "spawned"]
    /\ UNCHANGED <<db, vms, removed, sessions, cands, target, allocClosed,
                   consumer, deallocator, environment>>

\* Mutant: the session stays BUSY when the deploy fails.
DeployFailsBusy(t) ==
    /\ alloc[t] = "deploying"
    /\ Fault("deploy")
    /\ RollBack(t)
    /\ UNCHANGED <<db, machines, sessions, consumer, deallocator>>

\* Upload or spawn fails before a process exists, on its own or because the
\* session was closed or the VM deleted.  On an open session the machine is
\* released, whatever its state; a closed one is left alone.
DeployFails(t) ==
    /\ alloc[t] = "deploying"
    /\ IF t \in allocClosed
       THEN UNCHANGED <<conn, environment>>
       ELSE /\ IF target[t] \in vms THEN Fault("deploy") ELSE UNCHANGED environment
            /\ conn' = [conn EXCEPT ![target[t]] = "FREE"]
    /\ RollBack(t)
    /\ UNCHANGED <<db, machines, monitor, consumer, deallocator>>

\* The process runs, but its confirmation is lost, or the grace wait or the
\* redirection of stderr raises: the deploy fails like one that started none.
SpawnFails(t) ==
    /\ alloc[t] = "spawned"
    /\ IF t \in allocClosed
       THEN UNCHANGED <<conn, environment>>
       ELSE /\ IF target[t] \in vms THEN Fault("spawn") ELSE UNCHANGED environment
            /\ conn' = [conn EXCEPT ![target[t]] = "FREE"]
    /\ lost' = lost \cup {<<t, target[t]>>}
    /\ RollBack(t)
    /\ UNCHANGED <<db, vms, procs, spawned, removed, monitor, consumer, deallocator>>

\* Mutant: the claim is committed before the process is started.
CommitBeforeSpawn(t) ==
    /\ alloc[t] \in {"deploying", "spawned"}
    /\ status' = [status EXCEPT ![t] = "RUNNING"]
    /\ allocated' = [allocated EXCEPT ![t] = target[t]]
    /\ alloc' = [alloc EXCEPT ![t] = "committed"]
    /\ UNCHANGED <<outcome, rows, enabled, machines, sessions, cands, target,
                   allocClosed, consumer, deallocator, environment>>

\* Mutant: the save forgets allocated_node_id.
CommitUnbound(t) ==
    /\ alloc[t] = "spawned"
    /\ status' = [status EXCEPT ![t] = "RUNNING"]
    /\ alloc' = [alloc EXCEPT ![t] = "committed"]
    /\ UNCHANGED <<allocated, outcome, rows, enabled, machines, sessions, cands,
                   target, allocClosed, consumer, deallocator, environment>>

\* commit(): the claim becomes visible; the webhooks of TaskStarted are
\* awaited before commit() returns.
Commit(t) ==
    /\ alloc[t] = "spawned"
    /\ status' = [status EXCEPT ![t] = "RUNNING"]
    /\ allocated' = [allocated EXCEPT ![t] = target[t]]
    /\ alloc' = [alloc EXCEPT ![t] = "committed"]
    /\ UNCHANGED <<outcome, rows, enabled, machines, sessions, cands, target,
                   allocClosed, consumer, deallocator, environment>>

\* COMMIT fails: the claim is rolled back, the process and the session are
\* left as they are.
CommitFails(t) ==
    /\ alloc[t] = "spawned"
    /\ Fault("commit")
    /\ lost' = lost \cup {<<t, target[t]>>}
    /\ RollBack(t)
    /\ UNCHANGED <<db, vms, procs, spawned, removed, sessions, consumer, deallocator>>

\* start_occupancy_check() after commit(); a no-op on a closed session.
StartMonitor(t) ==
    /\ alloc[t] = "committed"
    /\ IF t \in allocClosed
       THEN UNCHANGED sessions
       ELSE InstallMonitor(target[t], EngineOf[t])
    /\ alloc' = [alloc EXCEPT ![t] = "idle"]
    /\ cands' = [cands EXCEPT ![t] = {}]
    /\ target' = [target EXCEPT ![t] = NoNode]
    /\ allocClosed' = allocClosed \ {t}
    /\ UNCHANGED <<db, machines, consumer, deallocator, environment>>

\* No pair is left: on to the clouds, the task stays TO_DO.
GiveUp(t) ==
    /\ alloc[t] = "picked"
    /\ cands[t] = {}
    /\ alloc' = [alloc EXCEPT ![t] = "idle"]
    /\ UNCHANGED <<db, machines, sessions, cands, target, allocClosed, consumer,
                   deallocator, environment>>

-----------------------------------------------------------------------------
(* Consume phase. *)

\* _task_consumer_producer() reads the RUNNING tasks ...
ListRunning ==
    /\ listed = {}
    /\ Running # {}
    /\ listed' = Running
    /\ UNCHANGED <<db, machines, sessions, allocator, consume, consClosed, gone,
                   occupancyStarted, deallocator, environment>>

\* ... and puts them one by one, however late: a put waits on a full queue.
\* An id that is queued or in process (so also one in _consuming) is skipped.
PutRunning(t) ==
    /\ t \in listed
    /\ listed' = listed \ {t}
    /\ consume' = IF consume[t] = "none"
                  THEN [consume EXCEPT ![t] = "queued"]
                  ELSE consume
    /\ UNCHANGED <<db, machines, sessions, allocator, consClosed, gone,
                   occupancyStarted, deallocator, environment>>

\* get_session() is None: count the pass; after BrokenPasses passes abandon.
MachineGone(t) ==
    /\ consume[t] = "queued"
    /\ conn[allocated[t]] = "none"
    /\ gone' = [gone EXCEPT ![t] = IF @ > BrokenPasses THEN @ ELSE @ + 1]
    /\ consume' = [consume EXCEPT ![t] =
                      IF gone'[t] > BrokenPasses THEN "abandoning" ELSE "none"]
    /\ UNCHANGED <<db, machines, sessions, allocator, listed, consClosed,
                   occupancyStarted, deallocator, environment>>

\* Mutant: a task whose machine is gone is put back to be allocated again.
AbandonRequeues(t) ==
    /\ consume[t] = "abandoning"
    /\ status' = [status EXCEPT ![t] = "TO_DO"]
    /\ consume' = [consume EXCEPT ![t] = "none"]
    /\ UNCHANGED <<allocated, outcome, rows, enabled, machines, sessions, allocator,
                   listed, consClosed, gone, occupancyStarted, deallocator, environment>>

\* abandon(), save without a status guard, commit.  The save writes the node
\* id of the message: the foreign key refuses it when the row is gone.
Abandon(t) ==
    /\ consume[t] = "abandoning"
    /\ IF allocated[t] \in rows
       THEN /\ status' = [status EXCEPT ![t] = "DONE"]
            /\ outcome' = [outcome EXCEPT ![t] = "abandoned"]
       ELSE UNCHANGED <<status, outcome>>
    /\ consume' = [consume EXCEPT ![t] = "none"]
    /\ UNCHANGED <<allocated, rows, enabled, machines, sessions, allocator, listed,
                   consClosed, gone, occupancyStarted, deallocator, environment>>

\* First pass over the node: start the occupancy check with the engine of
\* the message's task.  The session is BUSY afterwards, so nothing is consumed.
StartOccupancy(t) ==
    LET n == allocated[t] IN
    /\ consume[t] = "queued"
    /\ conn[n] # "none"
    /\ n \notin occupancyStarted
    /\ EngineOf[t] \in configured
    /\ InstallMonitor(n, EngineOf[t])
    /\ occupancyStarted' = occupancyStarted \cup {n}
    /\ consume' = [consume EXCEPT ![t] = "none"]
    /\ UNCHANGED <<db, machines, allocator, listed, consClosed, gone, deallocator,
                   environment>>

\* FREE, and the occupancy check of the node was started.
Consumable(t) ==
    /\ consume[t] = "queued"
    /\ conn[allocated[t]] = "FREE"
    /\ allocated[t] \in occupancyStarted

\* The message is dropped: the machine is BUSY, or no check was started
\* because the engine of the task is not configured.
NotConsumable(t) ==
    /\ consume[t] = "queued"
    /\ \/ conn[allocated[t]] = "BUSY" /\ allocated[t] \in occupancyStarted
       \/ conn[allocated[t]] # "none" /\ allocated[t] \notin occupancyStarted
          /\ EngineOf[t] \notin configured
    /\ consume' = [consume EXCEPT ![t] = "none"]
    /\ UNCHANGED <<db, machines, sessions, allocator, listed, consClosed, gone,
                   occupancyStarted, deallocator, environment>>

\* Mutant: the task is read by its id, whatever its status.
BeginConsumeAnyStatus(t) ==
    /\ Consumable(t)
    /\ consume' = [consume EXCEPT ![t] = "downloading"]
    /\ UNCHANGED <<db, machines, sessions, allocator, listed, consClosed, gone,
                   occupancyStarted, deallocator, environment>>

\* get_running() finds the task: download, or fail it if its engine is gone.
BeginConsume(t) ==
    /\ Consumable(t)
    /\ status[t] = "RUNNING"
    /\ consume' = [consume EXCEPT ![t] =
                      IF EngineOf[t] \in configured THEN "downloading"
                      ELSE "failing"]
    /\ UNCHANGED <<db, machines, sessions, allocator, listed, consClosed, gone,
                   occupancyStarted, deallocator, environment>>

\* get_running() is None, the message was stale: finalised, vacuously.
SkipConsumed(t) ==
    /\ Consumable(t)
    /\ status[t] # "RUNNING"
    /\ consume' = [consume EXCEPT ![t] = "none"]
    /\ occupancyStarted' = occupancyStarted \ {allocated[t]}
    /\ UNCHANGED <<db, machines, sessions, allocator, listed, consClosed, gone,
                   deallocator, environment>>

\* The session still reaches the machine.
Reachable(t) == t \notin consClosed /\ allocated[t] \in vms

\* download_outputs() ends without errors: the outputs are stored and the
\* remote directory is removed, before the outcome is committed.
Download(t) ==
    /\ consume[t] = "downloading"
    /\ Reachable(t)
    /\ t \notin removed
    /\ removed' = removed \cup {t}
    /\ consume' = [consume EXCEPT ![t] = "completing"]
    /\ UNCHANGED <<db, vms, procs, spawned, lost, sessions, allocator, listed,
                   consClosed, gone, occupancyStarted, deallocator, environment>>

\* Mutant: the remote directory is removed although a file failed.
DownloadFailsUngated(t) ==
    /\ consume[t] = "downloading"
    /\ Reachable(t)
    /\ Fault("download")
    /\ removed' = removed \cup {t}
    /\ consume' = [consume EXCEPT ![t] = "failing"]
    /\ UNCHANGED <<db, vms, procs, spawned, lost, sessions, allocator, listed,
                   consClosed, gone, occupancyStarted, deallocator>>

\* Some error is permanent, as when the files are gone: going to fail.
DownloadFails(t) ==
    /\ consume[t] = "downloading"
    /\ Reachable(t)
    /\ IF t \in removed THEN UNCHANGED environment ELSE Fault("download")
    /\ consume' = [consume EXCEPT ![t] = "failing"]
    /\ UNCHANGED <<db, machines, sessions, allocator, listed, consClosed, gone,
                   occupancyStarted, deallocator>>

\* Mutant: a deferred task goes back to TO_DO.
DownloadRequeues(t) ==
    /\ consume[t] = "downloading"
    /\ Fault("download")
    /\ status' = [status EXCEPT ![t] = "TO_DO"]
    /\ consume' = [consume EXCEPT ![t] = "none"]
    /\ UNCHANGED <<allocated, outcome, rows, enabled, machines, sessions, allocator,
                   listed, consClosed, gone, occupancyStarted, deallocator>>

\* Only transient errors, a closed session or a deleted machine among them:
\* the task is deferred.
DownloadDefers(t) ==
    /\ consume[t] = "downloading"
    /\ \/ Reachable(t) /\ Fault("download") /\ UNCHANGED removed
       \/ ~Reachable(t) /\ UNCHANGED <<environment, removed>>
    /\ consume' = [consume EXCEPT ![t] = "none"]
    /\ consClosed' = consClosed \ {t}
    /\ UNCHANGED <<db, vms, procs, spawned, lost, sessions, allocator, listed, gone,
                   occupancyStarted, deallocator>>

\* All files are stored, then rmtree fails half-way: "transient", deferred.
RmtreeFails(t) ==
    /\ consume[t] = "downloading"
    /\ t \notin removed
    /\ IF Reachable(t) THEN Fault("rmtree") ELSE UNCHANGED environment
    /\ removed' = removed \cup {t}
    /\ consume' = [consume EXCEPT ![t] = "none"]
    /\ consClosed' = consClosed \ {t}
    /\ UNCHANGED <<db, vms, procs, spawned, lost, sessions, allocator, listed, gone,
                   occupancyStarted, deallocator>>

\* complete() or fail(), save without a status guard, commit; the webhooks
\* of the terminal event are awaited.
Finalise(t) ==
    /\ consume[t] \in {"completing", "failing"}
    /\ status' = [status EXCEPT ![t] = "DONE"]
    /\ outcome' = [outcome EXCEPT ![t] =
                      IF consume[t] = "completing" THEN "completed" ELSE "failed"]
    /\ consume' = [consume EXCEPT ![t] = "saved"]
    /\ UNCHANGED <<allocated, rows, enabled, machines, sessions, allocator, listed,
                   consClosed, gone, occupancyStarted, deallocator, environment>>

\* COMMIT fails: the worker logs it, the task is listed again.
FinaliseFails(t) ==
    /\ consume[t] \in {"completing", "failing"}
    /\ Fault("commit")
    /\ consume' = [consume EXCEPT ![t] = "none"]
    /\ consClosed' = consClosed \ {t}
    /\ UNCHANGED <<db, machines, sessions, allocator, listed, gone,
                   occupancyStarted, deallocator>>

\* consume_task() returned True: the node's next task starts its own check.
Finalised(t) ==
    /\ consume[t] = "saved"
    /\ consume' = [consume EXCEPT ![t] = "none"]
    /\ consClosed' = consClosed \ {t}
    /\ occupancyStarted' = occupancyStarted \ {allocated[t]}
    /\ UNCHANGED <<db, machines, sessions, allocator, listed, gone, deallocator,
                   environment>>

-----------------------------------------------------------------------------
(* Deallocate phase. *)

\* The producer picks connected FREE cloud nodes past their idle tolerance
\* (which of them are is left open) and reads the busy nodes, once.
PickIdle ==
    /\ dealloc = "idle"
    /\ dealloc' = "disabling"
    /\ busyNodes' = BusyNodeIds
    /\ \E idle \in SUBSET {n \in FreeMachines : n \in CloudNodes} :
          toDisable' = idle
    /\ UNCHANGED <<db, machines, sessions, allocator, consumer, teardown,
                   environment>>

\* disable() and commit, one unit of work per node.
DisableIdle(n) ==
    /\ dealloc = "disabling"
    /\ n \in toDisable
    /\ enabled' = enabled \ {n}
    /\ toDisable' = toDisable \ {n}
    /\ UNCHANGED <<tasksDb, rows, machines, sessions, allocator, consumer, dealloc,
                   busyNodes, teardown, environment>>

\* list_disabled() minus the busy nodes read by PickIdle; the consumer queue.
CollectDisabled ==
    /\ dealloc = "disabling"
    /\ toDisable = {}
    /\ teardown' = [n \in Nodes |->
                      IF teardown[n] = "none" /\ n \in (rows \ enabled) \ busyNodes
                      THEN "queued" ELSE teardown[n]]
    /\ dealloc' = "idle"
    /\ busyNodes' = {}
    /\ UNCHANGED <<db, machines, sessions, allocator, consumer, toDisable,
                   environment>>

\* deallocate_node(): BUSY at entry, skip.
SkipBusy(n) ==
    /\ teardown[n] = "queued"
    /\ conn[n] = "BUSY"
    /\ teardown' = [teardown EXCEPT ![n] = "none"]
    /\ UNCHANGED <<db, machines, sessions, allocator, consumer, dealloc, busyNodes,
                   toDisable, environment>>

\* disconnect(): the session leaves the repository closed, with its monitor
\* cancelled.  Coroutines that hold it fail on it from now on.
CloseSession(n) ==
    /\ teardown[n] = "queued"
    /\ conn[n] # "BUSY"
    /\ conn' = [conn EXCEPT ![n] = "none"]
    /\ monitor' = [monitor EXCEPT ![n] = NoEngine]
    /\ allocClosed' = allocClosed \cup {t \in Tasks : target[t] = n}
    /\ cands' = [t \in Tasks |-> cands[t] \ {n}]
    /\ consClosed' = consClosed \cup
          {t \in Tasks : consume[t] = "downloading" /\ allocated[t] = n}
    /\ teardown' = [teardown EXCEPT ![n] = "closed"]
    /\ UNCHANGED <<db, machines, alloc, target, listed, consume, gone,
                   occupancyStarted, dealloc, busyNodes, toDisable, environment>>

\* Cloud nodes: disable() again, in its own unit of work.
DisableForDelete(n) ==
    /\ teardown[n] = "closed"
    /\ n \in CloudNodes
    /\ enabled' = enabled \ {n}
    /\ teardown' = [teardown EXCEPT ![n] = "disabled"]
    /\ UNCHANGED <<tasksDb, rows, machines, sessions, allocator, consumer, dealloc,
                   busyNodes, toDisable, environment>>

\* clouds.deallocate(): the VM is gone with what ran on it.
DeleteVm(n) ==
    /\ teardown[n] = "disabled"
    /\ vms' = vms \ {n}
    /\ procs' = {p \in procs : p[2] # n}
    /\ teardown' = [teardown EXCEPT ![n] = "deleted"]
    /\ UNCHANGED <<db, spawned, lost, removed, sessions, allocator, consumer, dealloc,
                   busyNodes, toDisable, environment>>

\* clouds.deallocate() raises: the consumer logs it, the next cycle retries.
DeleteFails(n) ==
    /\ teardown[n] = "disabled"
    /\ Fault("delete")
    /\ teardown' = [teardown EXCEPT ![n] = "none"]
    /\ UNCHANGED <<db, machines, sessions, allocator, consumer, dealloc, busyNodes,
                   toDisable>>

\* Uncommitted claims hold a key-share lock on the row of their node.
RowLocked(n) == \E t \in Tasks : target[t] = n /\ alloc[t] # "committed"

\* Mutant: the row is removed under a claim that is not committed.
RemoveRowUnlocked(n) ==
    /\ teardown[n] = IF n \in CloudNodes THEN "deleted" ELSE "closed"
    /\ IF n \in BusyNodeIds
       THEN UNCHANGED <<rows, enabled>>
       ELSE rows' = rows \ {n} /\ enabled' = enabled \ {n}
    /\ teardown' = [teardown EXCEPT ![n] = "none"]
    /\ UNCHANGED <<tasksDb, machines, sessions, allocator, consumer, dealloc,
                   busyNodes, toDisable, environment>>

\* remove(): ON DELETE SET NULL on a RUNNING task violates the CHECK of
\* yascheduler_tasks; the failure is logged and the row stays, disabled.
\* (allocated keeps the node of a DONE task: a message may still carry it.)
RemoveRow(n) ==
    /\ teardown[n] = IF n \in CloudNodes THEN "deleted" ELSE "closed"
    /\ ~RowLocked(n)
    /\ IF n \in BusyNodeIds
       THEN UNCHANGED <<rows, enabled>>
       ELSE rows' = rows \ {n} /\ enabled' = enabled \ {n}
    /\ teardown' = [teardown EXCEPT ![n] = "none"]
    /\ UNCHANGED <<tasksDb, machines, sessions, allocator, consumer, dealloc,
                   busyNodes, toDisable, environment>>

-----------------------------------------------------------------------------

\* The daemon dies and is started again, perhaps with engines removed from
\* its config.  Only the database, committed, and the machines survive.
Restart ==
    /\ restarts < MaxRestarts
    /\ restarts' = restarts + 1
    /\ \E es \in SUBSET configured : configured' = es
    /\ lost' = lost \cup {<<t, target[t]>> : t \in {u \in Tasks : alloc[u] = "spawned"}}
    /\ conn' = [n \in Nodes |-> "none"]
    /\ monitor' = [n \in Nodes |-> NoEngine]
    /\ alloc' = [t \in Tasks |-> "idle"]
    /\ cands' = [t \in Tasks |-> {}]
    /\ target' = [t \in Tasks |-> NoNode]
    /\ allocClosed' = {}
    /\ listed' = {}
    /\ consume' = [t \in Tasks |-> "none"]
    /\ consClosed' = {}
    /\ gone' = [t \in Tasks |-> 0]
    /\ occupancyStarted' = {}
    /\ dealloc' = "idle"
    /\ busyNodes' = {}
    /\ toDisable' = {}
    /\ teardown' = [n \in Nodes |-> "none"]
    /\ UNCHANGED <<db, vms, procs, spawned, removed, faults>>

AllocateStep(t) ==
    \/ Pick(t) \/ Occupy(t) \/ OccupyFails(t) \/ Spawn(t) \/ Commit(t)
    \/ StartMonitor(t) \/ GiveUp(t) \/ Reject(t)
    \/ \E n \in Nodes : Claim(t, n)

ConsumeStep(t) ==
    \/ MachineGone(t) \/ Abandon(t) \/ StartOccupancy(t) \/ NotConsumable(t)
    \/ BeginConsume(t) \/ SkipConsumed(t) \/ Download(t) \/ Finalise(t)
    \/ Finalised(t)

FaultStep(t) ==
    DeployFails(t) \/ SpawnFails(t) \/ CommitFails(t) \/ DownloadFails(t) 
    \/ DownloadDefers(t) \/ RmtreeFails(t) \/ FinaliseFails(t)

DeallocateStep(n) ==
    \/ DisableIdle(n) \/ SkipBusy(n) \/ CloseSession(n) \/ DisableForDelete(n)
    \/ DeleteVm(n) \/ DeleteFails(n) \/ RemoveRow(n)

Next ==
    \/ \E t \in Tasks : AllocateStep(t) \/ ConsumeStep(t) \/ FaultStep(t) \/ PutRunning(t)
    \/ \E n \in Nodes : Connect(n) \/ MonitorFrees(n) \/ DeallocateStep(n)
    \/ \E t \in Tasks, n \in Nodes : ProcessExits(t, n)
    \/ ListRunning
    \/ PickIdle
    \/ CollectDisabled
    \/ Restart

Spec == Init /\ [][Next]_vars

(***************************************************************************)
(* Fairness: every coroutine of the event loop is resumed and every phase  *)
(* loop runs again (weak fairness; where the next step of one can only be  *)
(* a failure, as on a closed session, that failure comes); a calculation   *)
(* ends; an enabled node that exists is connected.  Faults, restarts and   *)
(* the choice of idle nodes are not fair.                                  *)
(***************************************************************************)
Fairness ==
    /\ \A t \in Tasks :
          /\ WF_vars(AllocateStep(t) \/ (DeployFails(t) /\ UNCHANGED faults))
          /\ WF_vars(\/ ConsumeStep(t)
                     \/ (DownloadFails(t) \/ DownloadDefers(t)) /\ UNCHANGED faults)
          /\ WF_vars(PutRunning(t))
          /\ WF_vars(\E n \in Nodes : ProcessExits(t, n))
    /\ WF_vars(ListRunning)
    /\ \A n \in Nodes :
          /\ WF_vars(Connect(n))
          /\ WF_vars(MonitorFrees(n))
          /\ WF_vars(SkipBusy(n) \/ CloseSession(n) \/ DisableForDelete(n)
                     \/ DeleteVm(n) \/ RemoveRow(n))

FairSpec == Spec /\ Fairness

-----------------------------------------------------------------------------
(* Properties. *)

\* A RUNNING row has a process behind it that was started on that node: the
\* claim is committed only after the spawn (allocate_task.py:107-116), through
\* failed deploys, closed sessions and restarts.
RunningWasSpawned == \A t \in Running : <<t, allocated[t]>> \in spawned

\* A RUNNING task never loses its node row, whatever the order of the claim
\* and of the teardown of the node: the row lock, the foreign key and the
\* CHECK of schema.sql close the races the deallocator leaves open.
RunningHasRow == BusyNodeIds \subseteq rows

\* Every process that runs is one somebody knows: its allocator is about to
\* commit it, or the committed row names its machine.  The only others are
\* those whose start ended in an exception or with the daemon: no sequence of
\* claims, failed deploys, teardowns and reconnections leaves one (the claim is
\* taken before the spawn and rolled back without one, allocate_task.py:103).
NoOrphanProcess ==
    \A p \in procs \ lost :
        \/ alloc[p[1]] = "spawned" /\ target[p[1]] = p[2]
        \/ status[p[1]] # "TO_DO" /\ allocated[p[1]] = p[2]

\* A task is started on one machine only, however often it is tried, starts
\* that ended in an exception or with the daemon aside: the guarded claim lets
\* one allocator through, and no transition leads back to TO_DO.
SpawnedOnce ==
    \A t \in Tasks : Cardinality({n \in Nodes : <<t, n>> \in spawned \ lost}) <= 1

\* "On failure returns False without side effects" (allocate_task.py:82): a
\* process of a task that is TO_DO belongs to an allocator about to commit it.
FailureLeavesNothing ==
    \A p \in procs : status[p[1]] = "TO_DO" =>
        alloc[p[1]] = "spawned" /\ target[p[1]] = p[2]

\* A "duplicate" of a start whose confirmation was lost is never made
\* (session.py:214): no task has processes on two machines.
NoDuplicate == \A p, q \in procs : p[1] = q[1] => p[2] = q[2]

\* A BUSY session is going to be released: a monitor watches it, or an
\* allocator is between occupy() and start_occupancy_check().
BusyHasReason ==
    \A n \in Nodes : conn[n] = "BUSY" =>
        \/ monitor[n] # NoEngine
        \/ \E t \in Tasks \ allocClosed :
              target[t] = n /\ alloc[t] \in {"deploying", "spawned", "committed"}

\* Two RUNNING tasks are never allocated to one machine: the pick excludes
\* nodes of RUNNING tasks (_find_free_machines, allocate_task.py:136).
SeparateNodes ==
    \A t, u \in Running : allocated[t] = allocated[u] => t = u

\* Outputs are downloaded, and the remote directory removed, only after the
\* process that writes them has exited (occupancy.py:106-109).
CompletedAfterExit ==
    \A t \in Tasks : outcome[t] = "completed" => <<t, allocated[t]>> \notin procs

\* A task that ends failed keeps its remote directory, for a retry or for
\* debugging (download.py:97): no error is recorded for a task whose outputs
\* were all stored and cleaned up before.
FailedKeepsDir == \A t \in Tasks : outcome[t] = "failed" => t \notin removed

\* A VM is deleted only when no RUNNING task is allocated to it
\* (deallocate_nodes.py:35, 45-55).
DeleteSparesRunning == [][\A n \in vms \ vms' : n \notin BusyNodeIds]_vms

\* The committed task rows implement the life cycle of the domain model: in
\* particular a DONE row never changes, although its save is not guarded.
Lifecycle == INSTANCE TaskLifecycle WITH
    Tasks <- Tasks, Nodes <- Nodes, NoNode <- NoNode,
    status <- status, allocated <- allocated, outcome <- outcome
LifecycleSpec == Lifecycle!Spec

\* What is DONE stays as it was recorded: abandon() and the other terminal
\* transitions start from RUNNING (model.py:384, orchestrator.py:521).
DoneIsFinal ==
    [][\A t \in Tasks : status[t] = "DONE" =>
          status'[t] = "DONE" /\ outcome'[t] = outcome[t]]_tasksDb

\* A BUSY session becomes FREE again (session.py, occupancy.py): no machine is
\* lost to a failed deploy or to a replaced monitor.
BusyIsReleased == \A n \in Nodes : []<>(conn[n] # "BUSY")

\* Eventually every submitted task is DONE.
AllDone == <>(\A t \in Tasks : status[t] = "DONE")

\* A RUNNING task whose engine was removed from the config is finalised
\* (consume_task.py:202, 262-264).
MissingEngineFinalised ==
    \A t \in Tasks :
        (status[t] = "RUNNING" /\ EngineOf[t] \notin configured) ~> (status[t] = "DONE")

=============================================================================
