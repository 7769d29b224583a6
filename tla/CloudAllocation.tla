--------------------------- MODULE CloudAllocation ---------------------------
(***************************************************************************)
(* Cloud nodes: how a task without a free machine gets a VM, and how the   *)
(* VM goes away again.                                                     *)
(*                                                                         *)
(*   allocate_task      reserve a slot with a tmp row under the allocation *)
(*                      lock, create and set up the VM, enable the row;    *)
(*                      undo all of it when a step fails                   *)
(*   AllocationTracker  which tasks have a VM on its way, and which node   *)
(*   abandon_node       a node that cannot be connected                    *)
(*   deallocate_nodes   a node that is idle                                *)
(*                                                                         *)
(* How a task is started on a machine is one step here (see Scheduler).    *)
(***************************************************************************)
EXTENDS Integers, FiniteSets

CONSTANTS Tasks,
          MaxNode,        \* bound: node ids handed out by the database
          Providers,
          Suitable,       \* providers that support the platforms of a task's engine
          Priority, MaxNodes, OpLimit,  \* settings of a provider
          AllocateLimit,  \* allocate_limit: number of allocator workers
          LongTolerance,  \* idle_tolerance is longer than a cycle of the allocator
          Faults,         \* which operations may fail; "restart": the daemon
          MaxFaults,      \* bound: failures and restarts in a behaviour
          NoNode, NoTask, Untracked, NoProvider

Nodes == 1..MaxNode

ASSUME ProvidersAssumption ==
    /\ Suitable \in [Tasks -> SUBSET Providers]
    /\ Priority \in [Providers -> Int]
    /\ MaxNodes \in [Providers -> Nat]
    /\ OpLimit \in [Providers -> Nat]
    /\ NoProvider \notin Providers
    /\ NoTask \notin Tasks
ASSUME NodesAssumption ==
    /\ MaxNode \in Nat
    /\ NoNode \notin Nodes
    /\ Untracked \notin Nodes \cup {NoNode}
ASSUME BoundsAssumption ==
    /\ AllocateLimit \in Nat
    /\ LongTolerance \in BOOLEAN
    /\ MaxFaults \in Nat
    /\ Faults \subseteq {"create", "setup", "delete", "db", "connect", "deploy",
                  "commit", "restart"}

VARIABLES
    (* database, committed *)
    status,     \* status of a task
    allocated,  \* allocated_node_id
    row,        \* "new": id not handed out yet; "gone": row removed
    cloud,      \* provider of a node
    requester,  \* history: the task a node was requested for
    (* clouds *)
    vm,         \* "none", "up", "deleted"
    reported,   \* VMs the log asks the operator to delete
    (* daemon *)
    alloc,      \* where the allocator is with a task
    choice,     \* selected.name
    tmp,        \* tmp_node_id
    tracker,    \* AllocationTracker._entries
    conn,       \* the session of a node; "stuck": BUSY, with no monitor
    abandon, reap,
    (* environment *)
    faults, restarted

taskRows == <<status, allocated>>
nodeRows == <<row, cloud, requester>>
clouds == <<vm, reported>>
allocator == <<alloc, choice, tmp, tracker>>
teardown == <<abandon, reap>>
environment == <<faults, restarted>>
vars == <<taskRows, nodeRows, clouds, allocator, conn, teardown, environment>>

AllocStates == {"idle", "missed", "lock", "insert", "acquire", "creating", "setup",
                "undo", "persist", "unpersist", "cleanup", "final"}

\* Rows that count for the capacity of a provider.
Counted == {"tmp", "enabled", "disabled"}

\* From the tmp row's commit on, a task's allocator has a node.
Reserved == AllocStates \ {"idle", "missed", "lock", "insert"}

TypeOK ==
    /\ status \in [Tasks -> {"TO_DO", "RUNNING", "DONE"}]
    /\ allocated \in [Tasks -> Nodes \cup {NoNode}]
    /\ row \in [Nodes -> {"new", "gone"} \cup Counted]
    /\ cloud \in [Nodes -> Providers \cup {NoProvider}]
    /\ requester \in [Nodes -> Tasks \cup {NoTask}]
    /\ vm \in [Nodes -> {"none", "up", "deleted"}]
    /\ reported \in SUBSET Nodes
    /\ alloc \in [Tasks -> AllocStates]
    /\ choice \in [Tasks -> Providers \cup {NoProvider}]
    /\ tmp \in [Tasks -> Nodes \cup {NoNode}]
    /\ tracker \in [Tasks -> Nodes \cup {NoNode, Untracked}]
    /\ conn \in [Nodes -> {"none", "open", "stuck"}]
    /\ abandon \in [Nodes -> {"none", "disable", "delete", "remove", "discard"}]
    /\ reap \in [Nodes -> {"none", "disable", "delete", "remove"}]
    /\ faults \in 0..MaxFaults
    /\ restarted \in BOOLEAN
    \* what the allocator holds
    /\ \A t \in Tasks :
          /\ alloc[t] = "insert" <=> choice[t] \in Providers
          /\ alloc[t] \in Reserved <=> tmp[t] \in Nodes

Init ==
    /\ status = [t \in Tasks |-> "TO_DO"]
    /\ allocated = [t \in Tasks |-> NoNode]
    /\ row = [n \in Nodes |-> "new"]
    /\ cloud = [n \in Nodes |-> NoProvider]
    /\ requester = [n \in Nodes |-> NoTask]
    /\ vm = [n \in Nodes |-> "none"]
    /\ reported = {}
    /\ alloc = [t \in Tasks |-> "idle"]
    /\ choice = [t \in Tasks |-> NoProvider]
    /\ tmp = [t \in Tasks |-> NoNode]
    /\ tracker = [t \in Tasks |-> Untracked]
    /\ conn = [n \in Nodes |-> "none"]
    /\ abandon = [n \in Nodes |-> "none"]
    /\ reap = [n \in Nodes |-> "none"]
    /\ faults = 0
    /\ restarted = FALSE

-----------------------------------------------------------------------------

Mishap(kind) ==
    /\ kind \in Faults
    /\ faults < MaxFaults
    /\ faults' = faults + 1

\* An operation fails, where this instance lets it.
Fails(kind) == Mishap(kind) /\ UNCHANGED restarted

Used(n) == \E t \in Tasks : status[t] = "RUNNING" /\ allocated[t] = n

\* The next value of the identity column.
NextId(n) == row[n] = "new" /\ \A m \in Nodes : m < n => row[m] # "new"

\* An allocator worker is free to take the next message.
WorkerFree == Cardinality({t \in Tasks : alloc[t] # "idle"}) < AllocateLimit

-----------------------------------------------------------------------------
(* Allocation of a VM for a task *)

Waiting(t) == status[t] = "TO_DO" /\ alloc[t] = "idle"

\* A machine in the intersection of list_free() and the enabled, unused nodes.
Free(n) == row[n] = "enabled" /\ conn[n] = "open" /\ ~Used(n)

\* _allocate_free_machine finds none.
Miss(t) ==
    /\ Waiting(t)
    /\ WorkerFree
    /\ \A n \in Nodes : ~Free(n)
    /\ alloc' = [alloc EXCEPT ![t] = "missed"]
    /\ UNCHANGED <<taskRows, nodeRows, clouds, choice, tmp, tracker, conn, teardown, environment>>

\* No free machine lets the task start on it; the cloud branch follows.
StartFails(t) ==
    /\ Waiting(t)
    /\ WorkerFree
    /\ \E n \in Nodes : Free(n)
    /\ Fails("deploy")
    /\ alloc' = [alloc EXCEPT ![t] = "missed"]
    /\ UNCHANGED <<taskRows, nodeRows, clouds, choice, tmp, tracker, conn, teardown>>

\* The COMMIT of a claim fails: the session that was occupied for it stays
\* BUSY without a monitor.  The node may have been disabled since it was picked.
CommitFails(t, n) ==
    /\ Waiting(t)
    /\ WorkerFree
    /\ row[n] \in {"enabled", "disabled"} /\ conn[n] = "open" /\ ~Used(n)
    /\ Fails("commit")
    /\ conn' = [conn EXCEPT ![n] = "stuck"]
    /\ alloc' = [alloc EXCEPT ![t] = "missed"]
    /\ UNCHANGED <<taskRows, nodeRows, clouds, choice, tmp, tracker, teardown>>

\* Mutant: no dedup of the request.
BeginCloudAgain(t) ==
    /\ alloc[t] = "missed"
    /\ tracker' = [tracker EXCEPT ![t] = NoNode]
    /\ alloc' = [alloc EXCEPT ![t] = "lock"]
    /\ UNCHANGED <<taskRows, nodeRows, clouds, choice, tmp, conn, teardown, environment>>

\* tracker.add(): no VM is on its way for the task.
BeginCloud(t) ==
    /\ alloc[t] = "missed"
    /\ tracker[t] = Untracked
    /\ tracker' = [tracker EXCEPT ![t] = NoNode]
    /\ alloc' = [alloc EXCEPT ![t] = "lock"]
    /\ UNCHANGED <<taskRows, nodeRows, clouds, choice, tmp, conn, teardown, environment>>

Deduped(t) ==
    /\ alloc[t] = "missed"
    /\ tracker[t] # Untracked
    /\ alloc' = [alloc EXCEPT ![t] = "idle"]
    /\ UNCHANGED <<taskRows, nodeRows, clouds, choice, tmp, tracker, conn, teardown, environment>>

NodesOf(p) == {n \in Nodes : row[n] \in Counted /\ cloud[n] = p}

\* _count_nodes_by_cloud over the committed rows.
Count(p) == Cardinality(NodesOf(p))

\* Allocations that hold the semaphore of a provider.
Operating(p) == {t \in Tasks : alloc[t] \in {"creating", "setup", "undo"} /\ cloud[tmp[t]] = p}

\* select_provider_pure: room, a supported platform, and the highest priority.
Selectable(t) ==
    LET suitable == {p \in Suitable[t] : Count(p) < MaxNodes[p]}
    IN {p \in suitable : \A q \in suitable : Priority[q] <= Priority[p]}

\* get_op_semaphore().locked()
Throttled(p) == Cardinality(Operating(p)) >= OpLimit[p]

\* allocation_lock is held from the read of the rows to the commit of the tmp row.
LockFree == \A t \in Tasks : alloc[t] # "insert"

\* Mutant: the rows are read before the lock is taken.
SelectUnlocked(t) ==
    /\ alloc[t] = "lock"
    /\ \E p \in Selectable(t) :
          /\ ~Throttled(p)
          /\ choice' = [choice EXCEPT ![t] = p]
    /\ alloc' = [alloc EXCEPT ![t] = "insert"]
    /\ UNCHANGED <<taskRows, nodeRows, clouds, tmp, tracker, conn, teardown, environment>>

\* The lock is taken, the rows are read, a provider is selected.
Select(t) ==
    /\ alloc[t] = "lock"
    /\ LockFree
    /\ \E p \in Selectable(t) :
          /\ ~Throttled(p)
          /\ choice' = [choice EXCEPT ![t] = p]
    /\ alloc' = [alloc EXCEPT ![t] = "insert"]
    /\ UNCHANGED <<taskRows, nodeRows, clouds, tmp, tracker, conn, teardown, environment>>

\* No provider has room, or the selected one is busy.  A waiter that was just
\* woken makes a semaphore look locked, too.
SelectNone(t) ==
    /\ alloc[t] = "lock"
    /\ LockFree
    /\ \/ Selectable(t) = {}
       \/ \E p \in Selectable(t) :
             \/ Throttled(p)
             \/ \E u \in Tasks : alloc[u] = "acquire" /\ cloud[tmp[u]] = p
    /\ alloc' = [alloc EXCEPT ![t] = "idle"]
    /\ tracker' = [tracker EXCEPT ![t] = Untracked]
    /\ UNCHANGED <<taskRows, nodeRows, clouds, choice, tmp, conn, teardown, environment>>

\* The tmp row is committed and the lock released.
InsertTmp(t) ==
    /\ alloc[t] = "insert"
    /\ \E n \in Nodes :
          /\ NextId(n)
          /\ row' = [row EXCEPT ![n] = "tmp"]
          /\ cloud' = [cloud EXCEPT ![n] = choice[t]]
          /\ requester' = [requester EXCEPT ![n] = t]
          /\ tmp' = [tmp EXCEPT ![t] = n]
          /\ tracker' = [tracker EXCEPT ![t] = n]
    /\ choice' = [choice EXCEPT ![t] = NoProvider]
    /\ alloc' = [alloc EXCEPT ![t] = "acquire"]
    /\ UNCHANGED <<taskRows, clouds, conn, teardown, environment>>

\* The insert fails: the entry of the tracker is discarded.
InsertFails(t) ==
    /\ alloc[t] = "insert"
    /\ Fails("db")
    /\ choice' = [choice EXCEPT ![t] = NoProvider]
    /\ tracker' = [tracker EXCEPT ![t] = Untracked]
    /\ alloc' = [alloc EXCEPT ![t] = "idle"]
    /\ UNCHANGED <<taskRows, nodeRows, clouds, tmp, conn, teardown>>

\* CloudProvisionerImpl.allocate enters the provider's semaphore.
Acquire(t) ==
    /\ alloc[t] = "acquire"
    /\ ~Throttled(cloud[tmp[t]])
    /\ alloc' = [alloc EXCEPT ![t] = "creating"]
    /\ UNCHANGED <<taskRows, nodeRows, clouds, choice, tmp, tracker, conn, teardown, environment>>

\* adapter.create_node returns a VM.
Create(t) ==
    /\ alloc[t] = "creating"
    /\ vm' = [vm EXCEPT ![tmp[t]] = "up"]
    /\ alloc' = [alloc EXCEPT ![t] = "setup"]
    /\ UNCHANGED <<taskRows, nodeRows, reported, choice, tmp, tracker, conn, teardown, environment>>

\* CloudAllocateError: there is no VM.
CreateFails(t) ==
    /\ alloc[t] = "creating"
    /\ Fails("create")
    /\ alloc' = [alloc EXCEPT ![t] = "cleanup"]
    /\ UNCHANGED <<taskRows, nodeRows, clouds, choice, tmp, tracker, conn, teardown>>

\* _setup_vm connects (the session is registered), waits for cloud-init and
\* installs the engines.  The semaphore is released.
Setup(t) ==
    /\ alloc[t] = "setup"
    /\ conn' = [conn EXCEPT ![tmp[t]] = "open"]
    /\ alloc' = [alloc EXCEPT ![t] = "persist"]
    /\ UNCHANGED <<taskRows, nodeRows, clouds, choice, tmp, tracker, teardown, environment>>

\* CloudSetupError: the session, if any, is closed.
SetupFails(t) ==
    /\ alloc[t] = "setup"
    /\ Fails("setup")
    /\ alloc' = [alloc EXCEPT ![t] = "undo"]
    /\ UNCHANGED <<taskRows, nodeRows, clouds, choice, tmp, tracker, conn, teardown>>

\* The VM of a failed set-up is deleted.
Undo(t) ==
    /\ alloc[t] = "undo"
    /\ vm' = [vm EXCEPT ![tmp[t]] = "deleted"]
    /\ alloc' = [alloc EXCEPT ![t] = "cleanup"]
    /\ UNCHANGED <<taskRows, nodeRows, reported, choice, tmp, tracker, conn, teardown, environment>>

\* Mutant: the failed deletion is swallowed without a word.
UndoFailsSilently(t) ==
    /\ alloc[t] = "undo"
    /\ Fails("delete")
    /\ alloc' = [alloc EXCEPT ![t] = "cleanup"]
    /\ UNCHANGED <<taskRows, nodeRows, clouds, choice, tmp, tracker, conn, teardown>>

\* The deletion fails; the log asks for a manual one.
UndoFails(t) ==
    /\ alloc[t] = "undo"
    /\ Fails("delete")
    /\ reported' = reported \cup {tmp[t]}
    /\ alloc' = [alloc EXCEPT ![t] = "cleanup"]
    /\ UNCHANGED <<taskRows, nodeRows, vm, choice, tmp, tracker, conn, teardown>>

\* The row gets the data of the VM and is enabled.  The tracker keeps its entry.
Persist(t) ==
    /\ alloc[t] = "persist"
    /\ row' = [row EXCEPT ![tmp[t]] = "enabled"]
    /\ tmp' = [tmp EXCEPT ![t] = NoNode]
    /\ alloc' = [alloc EXCEPT ![t] = "idle"]
    /\ UNCHANGED <<taskRows, cloud, requester, clouds, choice, tracker, conn, teardown, environment>>

PersistFails(t) ==
    /\ alloc[t] = "persist"
    /\ Fails("db")
    /\ alloc' = [alloc EXCEPT ![t] = "unpersist"]
    /\ UNCHANGED <<taskRows, nodeRows, clouds, choice, tmp, tracker, conn, teardown>>

\* The VM that could not be persisted is deleted; its session is not closed.
Unpersist(t) ==
    /\ alloc[t] = "unpersist"
    /\ vm' = [vm EXCEPT ![tmp[t]] = "deleted"]
    /\ alloc' = [alloc EXCEPT ![t] = "cleanup"]
    /\ UNCHANGED <<taskRows, nodeRows, reported, choice, tmp, tracker, conn, teardown, environment>>

UnpersistFails(t) ==
    /\ alloc[t] = "unpersist"
    /\ Fails("delete")
    /\ reported' = reported \cup {tmp[t]}
    /\ alloc' = [alloc EXCEPT ![t] = "cleanup"]
    /\ UNCHANGED <<taskRows, nodeRows, vm, choice, tmp, tracker, conn, teardown>>

\* Mutant: the error is swallowed after the clean-up, and the finally forgotten.
CleanupSwallows(t) ==
    /\ alloc[t] = "cleanup"
    /\ row' = [row EXCEPT ![tmp[t]] = "gone"]
    /\ alloc' = [alloc EXCEPT ![t] = "idle"]
    /\ UNCHANGED <<taskRows, cloud, requester, clouds, choice, tmp, tracker, conn, teardown, environment>>

\* _cleanup_tmp_node_best_effort of the step that failed.
Cleanup(t) ==
    /\ alloc[t] = "cleanup"
    /\ row' = [row EXCEPT ![tmp[t]] = "gone"]
    /\ alloc' = [alloc EXCEPT ![t] = "final"]
    /\ UNCHANGED <<taskRows, cloud, requester, clouds, choice, tmp, tracker, conn, teardown, environment>>

CleanupFails(t) ==
    /\ alloc[t] = "cleanup"
    /\ Fails("db")
    /\ alloc' = [alloc EXCEPT ![t] = "final"]
    /\ UNCHANGED <<taskRows, nodeRows, clouds, choice, tmp, tracker, conn, teardown>>

\* Mutant: no second clean-up in the finally.
FinalOnlyDiscards(t) ==
    /\ alloc[t] = "final"
    /\ tracker' = [tracker EXCEPT ![t] = Untracked]
    /\ tmp' = [tmp EXCEPT ![t] = NoNode]
    /\ alloc' = [alloc EXCEPT ![t] = "idle"]
    /\ UNCHANGED <<taskRows, nodeRows, clouds, choice, conn, teardown, environment>>

\* The finally of allocate_task: discard the entry, remove the row if it is there.
Final(t) ==
    /\ alloc[t] = "final"
    /\ tracker' = [tracker EXCEPT ![t] = Untracked]
    /\ row' = [row EXCEPT ![tmp[t]] = "gone"]
    /\ tmp' = [tmp EXCEPT ![t] = NoNode]
    /\ alloc' = [alloc EXCEPT ![t] = "idle"]
    /\ UNCHANGED <<taskRows, cloud, requester, clouds, choice, conn, teardown, environment>>

\* It fails as well: a row that is still there stays.
FinalFails(t) ==
    /\ alloc[t] = "final"
    /\ Fails("db")
    /\ tracker' = [tracker EXCEPT ![t] = Untracked]
    /\ tmp' = [tmp EXCEPT ![t] = NoNode]
    /\ alloc' = [alloc EXCEPT ![t] = "idle"]
    /\ UNCHANGED <<taskRows, nodeRows, clouds, choice, conn, teardown>>

-----------------------------------------------------------------------------
(* Tasks on machines, and connections *)

\* A free machine is found for the task (Scheduler has the steps).
Start(t, n) ==
    /\ Waiting(t)
    /\ WorkerFree
    /\ Free(n)
    /\ status' = [status EXCEPT ![t] = "RUNNING"]
    /\ allocated' = [allocated EXCEPT ![t] = n]
    /\ tracker' = [tracker EXCEPT ![t] = Untracked]
    /\ UNCHANGED <<nodeRows, clouds, alloc, choice, tmp, conn, teardown, environment>>

\* The task is finalised: consumed, or abandoned with its machine.
Finish(t) ==
    /\ status[t] = "RUNNING"
    /\ status' = [status EXCEPT ![t] = "DONE"]
    /\ tracker' = [tracker EXCEPT ![t] = Untracked]
    /\ UNCHANGED <<allocated, nodeRows, clouds, alloc, choice, tmp, conn, teardown, environment>>

\* The connect phase wants every enabled node, and those with a RUNNING task.
Wanted(n) ==
    /\ \/ row[n] = "enabled"
       \/ row[n] = "disabled" /\ Used(n)
    /\ conn[n] = "none"
    /\ abandon[n] = "none"

Connect(n) ==
    /\ Wanted(n)
    /\ vm[n] = "up"
    /\ conn' = [conn EXCEPT ![n] = "open"]
    /\ UNCHANGED <<taskRows, nodeRows, clouds, allocator, teardown, environment>>

\* A late consume message of an earlier task of the node starts a monitor on
\* its session, which frees it (Scheduler has the steps).
Unstick(n) ==
    /\ conn[n] = "stuck"
    /\ \E t \in Tasks : status[t] = "DONE" /\ allocated[t] = n
    /\ conn' = [conn EXCEPT ![n] = "open"]
    /\ UNCHANGED <<taskRows, nodeRows, clouds, allocator, teardown, environment>>

\* The VM is gone, or cannot be reached for longer than connect_grace (not
\* counted as a failure).  A session is only lost in a restart or a teardown.
GraceExceeded(n) ==
    /\ Wanted(n)
    /\ vm[n] = "up" => "connect" \in Faults
    /\ abandon' = [abandon EXCEPT ![n] = "disable"]
    /\ UNCHANGED <<taskRows, nodeRows, clouds, allocator, conn, reap, environment>>

-----------------------------------------------------------------------------
(* abandon_node *)

\* NodeRowNotFoundError, if the row is gone, ends it.
AbandonDisable(n) ==
    /\ abandon[n] = "disable"
    /\ IF row[n] = "gone"
       THEN abandon' = [abandon EXCEPT ![n] = "discard"] /\ UNCHANGED row
       ELSE /\ abandon' = [abandon EXCEPT ![n] = "delete"]
            /\ row' = [row EXCEPT ![n] = "disabled"]
    /\ UNCHANGED <<taskRows, cloud, requester, clouds, allocator, conn, reap, environment>>

AbandonDelete(n) ==
    /\ abandon[n] = "delete"
    /\ vm' = [vm EXCEPT ![n] = "deleted"]
    /\ abandon' = [abandon EXCEPT ![n] = "remove"]
    /\ UNCHANGED <<taskRows, nodeRows, reported, allocator, conn, reap, environment>>

AbandonDeleteFails(n) ==
    /\ abandon[n] = "delete"
    /\ Fails("delete")
    /\ abandon' = [abandon EXCEPT ![n] = "discard"]
    /\ UNCHANGED <<taskRows, nodeRows, clouds, allocator, conn, reap>>

\* The row of a RUNNING task's node cannot be removed (schema.sql).
RemoveRow(n) == row' = IF Used(n) THEN row ELSE [row EXCEPT ![n] = "gone"]

AbandonRemove(n) ==
    /\ abandon[n] = "remove"
    /\ RemoveRow(n)
    /\ abandon' = [abandon EXCEPT ![n] = "discard"]
    /\ UNCHANGED <<taskRows, cloud, requester, clouds, allocator, conn, reap, environment>>

AbandonRemoveFails(n) ==
    /\ abandon[n] = "remove"
    /\ Fails("db")
    /\ abandon' = [abandon EXCEPT ![n] = "discard"]
    /\ UNCHANGED <<taskRows, nodeRows, clouds, allocator, conn, reap>>

\* discard_by_node in the finally.
AbandonDiscard(n) ==
    /\ abandon[n] = "discard"
    /\ tracker' = [t \in Tasks |-> IF tracker[t] = n THEN Untracked ELSE tracker[t]]
    /\ abandon' = [abandon EXCEPT ![n] = "none"]
    /\ UNCHANGED <<taskRows, nodeRows, clouds, alloc, choice, tmp, conn, reap, environment>>

-----------------------------------------------------------------------------
(* deallocate_nodes, deallocate_node *)

\* An enabled machine was FREE for idle_tolerance, so no allocator had the time
\* to use it, if that is long.
DisableIdle(n) ==
    /\ Free(n)
    /\ LongTolerance /\ WorkerFree => \A t \in Tasks : ~Waiting(t)
    /\ row' = [row EXCEPT ![n] = "disabled"]
    /\ UNCHANGED <<taskRows, cloud, requester, clouds, allocator, conn, teardown, environment>>

\* Mutant: only connected nodes are torn down.
ReapConnected(n) ==
    /\ row[n] = "disabled"
    /\ ~Used(n)
    /\ conn[n] = "open"
    /\ reap[n] = "none"
    /\ conn' = [conn EXCEPT ![n] = "none"]
    /\ reap' = [reap EXCEPT ![n] = "disable"]
    /\ UNCHANGED <<taskRows, nodeRows, clouds, allocator, abandon, environment>>

\* deallocate_nodes collects a disabled node without a RUNNING task.  While its
\* session is BUSY every cycle skips it; for ever, if nothing releases it.  A
\* session that is not BUSY is closed.
Reap(n) ==
    /\ row[n] = "disabled"
    /\ ~Used(n)
    /\ conn[n] # "stuck"
    /\ reap[n] = "none"
    /\ conn' = [conn EXCEPT ![n] = "none"]
    /\ reap' = [reap EXCEPT ![n] = "disable"]
    /\ UNCHANGED <<taskRows, nodeRows, clouds, allocator, abandon, environment>>

ReapDisable(n) ==
    /\ reap[n] = "disable"
    /\ reap' = [reap EXCEPT ![n] = IF row[n] = "gone" THEN "none" ELSE "delete"]
    /\ UNCHANGED <<taskRows, nodeRows, clouds, allocator, conn, abandon, environment>>

ReapDelete(n) ==
    /\ reap[n] = "delete"
    /\ vm' = [vm EXCEPT ![n] = "deleted"]
    /\ reap' = [reap EXCEPT ![n] = "remove"]
    /\ UNCHANGED <<taskRows, nodeRows, reported, allocator, conn, abandon, environment>>

\* The error propagates; a later cycle finds the row again.
ReapDeleteFails(n) ==
    /\ reap[n] = "delete"
    /\ Fails("delete")
    /\ reap' = [reap EXCEPT ![n] = "none"]
    /\ UNCHANGED <<taskRows, nodeRows, clouds, allocator, conn, abandon>>

ReapRemove(n) ==
    /\ reap[n] = "remove"
    /\ RemoveRow(n)
    /\ reap' = [reap EXCEPT ![n] = "none"]
    /\ UNCHANGED <<taskRows, cloud, requester, clouds, allocator, conn, abandon, environment>>

ReapRemoveFails(n) ==
    /\ reap[n] = "remove"
    /\ Fails("db")
    /\ reap' = [reap EXCEPT ![n] = "none"]
    /\ UNCHANGED <<taskRows, nodeRows, clouds, allocator, conn, abandon>>

-----------------------------------------------------------------------------

\* The daemon dies and starts again; a request that is out may still create its VM.
Restart ==
    /\ Mishap("restart")
    /\ restarted' = TRUE
    /\ \E created \in SUBSET {tmp[t] : t \in {u \in Tasks : alloc[u] = "creating"}} :
          vm' = [n \in Nodes |-> IF n \in created THEN "up" ELSE vm[n]]
    /\ alloc' = [t \in Tasks |-> "idle"]
    /\ choice' = [t \in Tasks |-> NoProvider]
    /\ tmp' = [t \in Tasks |-> NoNode]
    /\ tracker' = [t \in Tasks |-> Untracked]
    /\ conn' = [n \in Nodes |-> "none"]
    /\ abandon' = [n \in Nodes |-> "none"]
    /\ reap' = [n \in Nodes |-> "none"]
    /\ UNCHANGED <<taskRows, nodeRows, reported>>

AllocateStep(t) ==
    \/ Miss(t) \/ BeginCloud(t) \/ Deduped(t) \/ Select(t) \/ SelectNone(t) \/ InsertTmp(t)
    \/ Acquire(t) \/ Create(t) \/ Setup(t) \/ Undo(t) \/ Persist(t) \/ Unpersist(t)
    \/ Cleanup(t) \/ Final(t)

AllocateFault(t) ==
    \/ StartFails(t) \/ InsertFails(t) \/ CreateFails(t) \/ SetupFails(t) \/ UndoFails(t)
    \/ PersistFails(t) \/ UnpersistFails(t) \/ CleanupFails(t) \/ FinalFails(t)

AbandonStep(n) == AbandonDisable(n) \/ AbandonDelete(n) \/ AbandonRemove(n) \/ AbandonDiscard(n)

ReapStep(n) == Reap(n) \/ ReapDisable(n) \/ ReapDelete(n) \/ ReapRemove(n)

NodeFault(n) ==
    \/ AbandonDeleteFails(n) \/ AbandonRemoveFails(n)
    \/ ReapDeleteFails(n) \/ ReapRemoveFails(n)

Next ==
    \/ \E t \in Tasks :
          \/ AllocateStep(t)
          \/ AllocateFault(t)
          \/ \E n \in Nodes : Start(t, n) \/ CommitFails(t, n)
          \/ Finish(t)
    \/ \E n \in Nodes :
          \/ Connect(n)
          \/ Unstick(n)
          \/ GraceExceeded(n)
          \/ AbandonStep(n)
          \/ DisableIdle(n)
          \/ ReapStep(n)
          \/ NodeFault(n)
    \/ Restart

Spec == Init /\ [][Next]_vars

(***************************************************************************)
(* Fairness.  Every coroutine is resumed and every phase polls again.  A   *)
(* waiter of the lock or of a semaphore is woken in order, so it is not    *)
(* overtaken for ever: strong fairness.  Nothing makes a machine idle, a   *)
(* task finish, an operation fail or the daemon restart.                   *)
(***************************************************************************)
Fairness ==
    /\ \A t \in Tasks :
          /\ SF_vars(Select(t) \/ SelectNone(t) \/ Acquire(t))
          /\ WF_vars(\/ Miss(t)
                     \/ \E n \in Nodes : Start(t, n)
                     \/ alloc[t] \notin {"idle", "lock", "acquire"} /\ AllocateStep(t))
    /\ \A n \in Nodes :
          /\ WF_vars(Connect(n))
          /\ WF_vars(AbandonStep(n))
          /\ WF_vars(ReapStep(n))

FairSpec == Spec /\ Fairness

-----------------------------------------------------------------------------
(* Properties. *)

\* Concurrent allocations never reserve more nodes of a provider than its
\* max_nodes (_select_and_insert_tmp, allocate_task.py:227-229).
CapacityRespected == \A p \in Providers : Count(p) <= MaxNodes[p]

\* Some allocation is working on the node.
InHand(n) == \E t \in Tasks : tmp[t] = n

\* A VM that bills is never unknown: a row leads to it, an allocation holds
\* it, or the log asked to delete it.  Only a restart leaves a VM with nothing
\* but its tmp row (allocate_task.py:335, manager.py:170-205, deallocate_nodes.py:85).
VmIsKnown ==
    \A n \in Nodes : vm[n] = "up" =>
        \/ row[n] \in {"enabled", "disabled"}
        \/ InHand(n)
        \/ n \in reported
        \/ restarted /\ row[n] = "tmp"

\* A node that an allocation works on, or that the connect phase wants.
Live(n) == row[n] = "enabled" \/ InHand(n)

\* A daemon never has two live nodes for one task, however many operations
\* fail: the dedup outlives the allocation until the task is started or the
\* node abandoned (AllocationTracker; allocate_task.py:441-444).  A tmp row
\* that two failed clean-ups left behind is not live: nothing enables it.
RequestedOnce ==
    \A m, n \in Nodes :
        /\ requester[m] = requester[n]
        /\ Live(m) /\ Live(n)
        /\ ~restarted
        => m = n

\* Every reserved slot is given back or becomes a node, through two failures:
\* only a restart leaves a tmp row behind (allocate_task.py:476-488).  An id is
\* reserved once, so "again and again no slot is merely reserved" says this.
SlotIsReleased == []<>(\A n \in Nodes : row[n] = "tmp" => restarted)

\* Every disabled node is torn down when it has no task, whatever failed and
\* whoever else works on it (deallocate_nodes.py:29-35); but a node whose
\* session a failed COMMIT left BUSY is skipped in every cycle (:56-62).
DisabledIsReaped ==
    []<>(\A n \in Nodes : row[n] = "disabled" => Used(n) \/ conn[n] = "stuck")

\* "The node stays disabled [...], and a later deallocate cycle reaps it once the
\* slot is FREE again" (deallocate_nodes.py:54): it always is, some day.
SkippedIsReaped == []<>(\A n \in Nodes : row[n] = "disabled" => Used(n))

\* An entry of the tracker does not outlive its node, or the task is "falsely
\* deduped" (allocation_tracker.py METHOD_discard_by_node): no VM is ever
\* requested for it again.
NotFalselyDeduped ==
    \A t \in Tasks :
        (\E n \in Nodes : tracker[t] = n /\ row[n] = "gone")
        ~> (\A n \in Nodes : tracker[t] = n => row[n] # "gone")

=============================================================================
