------------------------------ MODULE Connection ------------------------------
(***************************************************************************)
(* The sessions of one daemon: how a node gets one, loses one and is given *)
(* up.                                                                     *)
(*                                                                         *)
(*   connect     orchestrator.py, repository.py, abandon_node.py: read the *)
(*               nodes without a session, connect, retry within            *)
(*               connect_grace, abandon                                    *)
(*   monitor     session.py: the check that frees a session                *)
(*   teardown    deallocate_nodes.py: disconnect, delete the VM, drop the  *)
(*               row                                                       *)
(*                                                                         *)
(* Allocation and consumption, which Scheduler has step by step, are here  *)
(* the few steps that use a session: a node is picked, claimed and         *)
(* occupied in one step, by one worker at a time, a start is confirmed and *)
(* its COMMIT succeeds, and the tasks share one engine (what workers do to *)
(* each other's picks, starts that are not confirmed and a failing COMMIT  *)
(* are in Scheduler and CloudAllocation).  Node ids are never reused: a    *)
(* host that is removed and added again is a new node.  A node dies for    *)
(* its session when the connection drops or the VM is deleted; nothing     *)
(* evicts such a session.                                                  *)
(***************************************************************************)
EXTENDS Integers, FiniteSets

CONSTANTS Nodes, Tasks,
          CloudNodes,    \* nodes with cloud # None: they have a VM to delete
          NewNodes,      \* nodes that may be added while the daemon runs
          QueueSize,     \* conn_machine_pending
          ConnectLimit,  \* conn_machine_limit: connect workers
          MaxFaults,     \* bound: dropped connections, failed VM deletions, restarts
          NoNode, NoTask

ASSUME NodesAssumption ==
    /\ CloudNodes \subseteq Nodes /\ NewNodes \subseteq Nodes
    /\ CloudNodes \cap NewNodes = {}
    /\ NoNode \notin Nodes /\ NoTask \notin Tasks
ASSUME LimitsAssumption ==
    /\ QueueSize \in Nat \ {0} /\ ConnectLimit \in Nat \ {0}
    /\ MaxFaults \in Nat

VARIABLES
    (* database *)
    row,        \* yascheduler_nodes: "absent", "disabled" or "enabled"
    status, at, \* yascheduler_tasks: status, allocated_node_id
    (* machines *)
    vm,         \* nodes whose machine exists
    procs,      \* tasks whose process runs, on the machine of at[t]
    (* repository *)
    session,    \* "none", "FREE" or "BUSY"
    dead,       \* nodes whose registered session has lost its machine
    monitored,  \* nodes whose registered session has a live monitor
    (* connect phase *)
    pending,    \* nodes read by the producer and not yet put
    connect,    \* per node: idle, queued, opening, or a step of abandon_node
    timer,      \* _connect_failures: first failure not seen, seen, too old
    (* allocator and consumer *)
    claim,      \* per node: the task of the open claim
    replaced,   \* nodes whose claim holds a session no longer registered
    started,    \* _occupancy_started
    consuming,  \* tasks whose outputs are being downloaded
    settled,    \* finished tasks of which no consume message is left
    stale,      \* nodes checked for a finished task (history variable)
    (* deallocator *)
    snapshot,   \* of the running cycle: nodes of RUNNING tasks; idle clouds
    teardown,   \* per node: idle, queued, closed, deleted
    faults      \* so far

database == <<row, status, at>>
machines == <<vm, procs>>
repository == <<session, dead, monitored>>
connects == <<pending, connect, timer>>
work == <<claim, replaced, started, consuming, settled, stale>>
deallocator == <<snapshot, teardown>>
connectionVars ==
    <<database, machines, repository, connects, work, deallocator, faults>>

NoCycle == [phase |-> "idle", busy |-> {}, idle |-> {}]

ConnectionTypeOK ==
    /\ row \in [Nodes -> {"absent", "disabled", "enabled"}]
    /\ status \in [Tasks -> {"TO_DO", "RUNNING", "DONE"}]
    /\ at \in [Tasks -> Nodes \cup {NoNode}]
    /\ \A t \in Tasks : status[t] = "RUNNING" => at[t] \in Nodes
    /\ vm \subseteq Nodes
    /\ procs \subseteq {t \in Tasks : at[t] \in Nodes}
    /\ session \in [Nodes -> {"none", "FREE", "BUSY"}]
    /\ dead \subseteq {n \in Nodes : session[n] # "none"}
    /\ monitored \subseteq {n \in Nodes : session[n] # "none"}
    /\ pending \subseteq Nodes
    /\ connect \in [Nodes -> {"idle", "queued", "opening", "disabled", "deleted"}]
    /\ timer \in [Nodes -> {"unset", "running", "expired"}]
    /\ claim \in [Nodes -> Tasks \cup {NoTask}]
    /\ replaced \subseteq {n \in Nodes : claim[n] # NoTask}
    /\ started \subseteq Nodes
    /\ consuming \subseteq Tasks
    /\ settled \subseteq Tasks
    /\ stale \subseteq Nodes
    /\ snapshot \in [phase : {"idle", "disabling"}, busy : SUBSET Nodes,
                     idle : SUBSET Nodes]
    /\ teardown \in [Nodes -> {"idle", "queued", "closed", "deleted"}]
    /\ faults \in 0..MaxFaults

\* Enabled nodes, some of NewNodes among them, and submitted tasks; the daemon
\* has just started.
ConnectionInit ==
    /\ row \in [Nodes -> {"absent", "enabled"}]
    /\ \A n \in Nodes \ NewNodes : row[n] = "enabled"
    /\ status = [t \in Tasks |-> "TO_DO"]
    /\ at = [t \in Tasks |-> NoNode]
    /\ vm = Nodes
    /\ procs = {}
    /\ session = [n \in Nodes |-> "none"]
    /\ dead = {} /\ monitored = {}
    /\ pending = {}
    /\ connect = [n \in Nodes |-> "idle"]
    /\ timer = [n \in Nodes |-> "unset"]
    /\ claim = [n \in Nodes |-> NoTask]
    /\ replaced = {} /\ started = {} /\ consuming = {}
    /\ settled = {} /\ stale = {}
    /\ snapshot = NoCycle
    /\ teardown = [n \in Nodes |-> "idle"]
    /\ faults = 0

Running == {t \in Tasks : status[t] = "RUNNING"}
RunningOn(n) == {t \in Running : at[t] = n}
BusyNodeIds == {at[t] : t \in Running}
Enabled == {n \in Nodes : row[n] = "enabled"}
Disabled == {n \in Nodes : row[n] = "disabled"}
Registered == {n \in Nodes : session[n] # "none"}

\* UPDATE ... SET enabled = FALSE; a missing row raises NodeRowNotFoundError.
Disable(n) == row[n] # "absent" /\ row' = [row EXCEPT ![n] = "disabled"]

\* The claim on the node, if there is one, is not committed.
Uncommitted(n) == claim[n] # NoTask /\ status[claim[n]] = "TO_DO"

\* DELETE waits for the key-share lock of an uncommitted claim on the node.
RowLocked(n) == Uncommitted(n)

\* ON DELETE SET NULL empties allocated_node_id, which the CHECK refuses for
\* a RUNNING task.
Removable(n) == row[n] # "absent" /\ RunningOn(n) = {}

Fault == faults < MaxFaults /\ faults' = faults + 1

-----------------------------------------------------------------------------
(* Connect phase. *)

\* What _connect_machine_producer() yields: enabled nodes and disabled nodes
\* with a RUNNING task, without a session.
Unconnected == (Enabled \cup (Disabled \cap BusyNodeIds)) \ Registered

Queued == {n \in Nodes : connect[n] = "queued"}
Room == QueueSize - Cardinality(Queued)

\* One cycle of the producer: messages are put while the queue has room, then
\* the producer waits.  A node that is queued or in process is skipped.
ConnectProduce ==
    /\ pending = {}
    /\ \E put \in SUBSET {n \in Unconnected : connect[n] = "idle"} :
          /\ Cardinality(put) <= Room
          /\ IF Cardinality({n \in Unconnected : connect[n] = "idle"}) <= Room
             THEN put = {n \in Unconnected : connect[n] = "idle"} /\ pending' = {}
             ELSE Cardinality(put) = Room /\ pending' = Unconnected \ put
          /\ put # {} \/ pending' # {}
          /\ connect' = [n \in Nodes |-> IF n \in put THEN "queued" ELSE connect[n]]
    /\ UNCHANGED <<database, machines, repository, timer, work, deallocator, faults>>

\* The waiting producer goes on: it puts what it read, connected since or not.
PutPending(n) ==
    /\ n \in pending
    /\ Room > 0
    /\ pending' = pending \ {n}
    /\ connect' = [connect EXCEPT ![n] = IF @ = "idle" THEN "queued" ELSE @]
    /\ UNCHANGED <<database, machines, repository, timer, work, deallocator, faults>>

\* A worker takes the message and opens a connection.
Open(n) ==
    /\ connect[n] = "queued"
    /\ Cardinality({m \in Nodes : connect[m] \notin {"idle", "queued"}}) < ConnectLimit
    /\ connect' = [connect EXCEPT ![n] = "opening"]
    /\ UNCHANGED <<database, machines, repository, pending, timer, work, deallocator,
                   faults>>

\* connect(): a new FREE session is registered, over a session that is
\* registered already if there is one; the failure timer is dropped.
Connected(n) ==
    /\ connect[n] = "opening"
    /\ n \in vm
    /\ session' = [session EXCEPT ![n] = "FREE"]
    /\ dead' = dead \ {n}
    /\ monitored' = monitored \ {n}
    /\ replaced' = IF claim[n] = NoTask THEN replaced ELSE replaced \cup {n}
    /\ connect' = [connect EXCEPT ![n] = "idle"]
    /\ timer' = [timer EXCEPT ![n] = "unset"]
    /\ UNCHANGED <<database, machines, pending, claim, started, consuming, settled,
                   stale, deallocator, faults>>

\* Mutant: a static node enters the grace check like a cloud node.
GracedAny(n) == n \in Nodes

\* Nodes whose failures are timed: those with a machine to give back.
Graced(n) == n \in CloudNodes

\* MachineConnectionError is answered by a retry in a later cycle: always for
\* a static node, within connect_grace of the first failure for a cloud node.
Retries(n) == Graced(n) => timer[n] # "expired"

ConnectFails(n) ==
    /\ connect[n] = "opening"
    /\ Retries(n)
    /\ connect' = [connect EXCEPT ![n] = "idle"]
    /\ timer' = [timer EXCEPT ![n] = IF Graced(n) THEN "running" ELSE @]
    /\ UNCHANGED <<database, machines, repository, pending, work, deallocator, faults>>

\* connect_grace seconds have passed since the first failure.
GraceOver(n) ==
    /\ timer[n] = "running"
    /\ timer' = [timer EXCEPT ![n] = "expired"]
    /\ UNCHANGED <<database, machines, repository, pending, connect, work,
                   deallocator, faults>>

\* The connect consumer is done with a node it abandoned, or failed to.
AbandonEnds(n) ==
    /\ connect' = [connect EXCEPT ![n] = "idle"]
    /\ timer' = [timer EXCEPT ![n] = "unset"]
    /\ UNCHANGED pending

\* abandon_node(): disable the row first ...
AbandonDisable(n) ==
    /\ connect[n] = "opening"
    /\ ~Retries(n)
    /\ IF row[n] = "absent"
       THEN AbandonEnds(n) /\ UNCHANGED row
       ELSE /\ Disable(n)
            /\ connect' = [connect EXCEPT ![n] = "disabled"]
            /\ UNCHANGED <<pending, timer>>
    /\ UNCHANGED <<status, at, machines, repository, work, deallocator, faults>>

\* ... delete the machine ...
AbandonDelete(n) ==
    /\ connect[n] = "disabled"
    /\ vm' = vm \ {n}
    /\ dead' = dead \cup ({n} \cap Registered)
    /\ connect' = [connect EXCEPT ![n] = "deleted"]
    /\ UNCHANGED <<database, procs, session, monitored, pending, timer, work,
                   deallocator, faults>>

\* ... which may fail: the row stays disabled for the deallocator ...
AbandonDeleteFails(n) ==
    /\ connect[n] = "disabled"
    /\ Fault
    /\ AbandonEnds(n)
    /\ UNCHANGED <<database, machines, repository, work, deallocator>>

\* ... and drop the row, which the database refuses while a task is RUNNING.
AbandonRemove(n) ==
    /\ connect[n] = "deleted"
    /\ ~RowLocked(n)
    /\ row' = IF Removable(n) THEN [row EXCEPT ![n] = "absent"] ELSE row
    /\ AbandonEnds(n)
    /\ UNCHANGED <<status, at, machines, repository, work, deallocator, faults>>

-----------------------------------------------------------------------------
(* Machines and monitors. *)

ProcessExits(t) ==
    /\ t \in procs
    /\ procs' = procs \ {t}
    /\ UNCHANGED <<database, vm, repository, connects, work, deallocator, faults>>

\* The connection of a registered session drops, for good.
ConnectionDies(n) ==
    /\ n \in Registered \ dead
    /\ Fault
    /\ dead' = dead \cup {n}
    /\ UNCHANGED <<database, machines, session, monitored, connects, work, deallocator>>

\* What pgrep finds on the machine.
IsQuiet(n) == \A t \in procs : at[t] # n

\* Mutant: a check that fails counts as free.
MonitorFreesOnError(n) ==
    /\ n \in monitored
    /\ n \in dead \/ IsQuiet(n)
    /\ session' = [session EXCEPT ![n] = "FREE"]
    /\ monitored' = monitored \ {n}
    /\ UNCHANGED <<database, machines, dead, connects, work, deallocator, faults>>

\* The check finds no process: on_free() releases, the monitor ends.  A check
\* that fails is presumed busy.
MonitorFrees(n) ==
    /\ n \in monitored \ dead
    /\ IsQuiet(n)
    /\ session' = [session EXCEPT ![n] = "FREE"]
    /\ monitored' = monitored \ {n}
    /\ UNCHANGED <<database, machines, dead, connects, work, deallocator, faults>>

-----------------------------------------------------------------------------
(* The work that uses a session. *)

\* A free machine of an enabled node is claimed and occupied.
Claim(t, n) ==
    /\ status[t] = "TO_DO"
    /\ \A m \in Nodes : claim[m] # t
    /\ n \in Enabled
    /\ session[n] = "FREE"
    /\ RunningOn(n) = {}
    /\ claim[n] = NoTask
    /\ claim' = [claim EXCEPT ![n] = t]
    /\ session' = [session EXCEPT ![n] = "BUSY"]
    /\ UNCHANGED <<database, machines, dead, monitored, connects, replaced, started,
                   consuming, settled, stale, deallocator, faults>>

EndClaim(n) ==
    /\ claim' = [claim EXCEPT ![n] = NoTask]
    /\ replaced' = replaced \ {n}
    /\ UNCHANGED <<started, consuming, settled, stale>>

\* The process runs and the claim is committed; the webhooks are awaited.
Commit(n) ==
    LET t == claim[n] IN
    /\ Uncommitted(n)
    /\ n \in vm \ dead
    /\ status' = [status EXCEPT ![t] = "RUNNING"]
    /\ at' = [at EXCEPT ![t] = n]
    /\ procs' = procs \cup {t}
    /\ UNCHANGED <<row, vm, repository, connects, work, deallocator, faults>>

\* start_occupancy_check() on the session the allocator holds: occupy if FREE,
\* install the monitor; a no-op if that session is not the registered one.
StartMonitor(n) ==
    /\ claim[n] # NoTask /\ ~Uncommitted(n)
    /\ IF n \in replaced
       THEN UNCHANGED <<session, monitored>>
       ELSE /\ session' = [session EXCEPT ![n] = "BUSY"]
            /\ monitored' = monitored \cup {n}
    /\ EndClaim(n)
    /\ UNCHANGED <<database, machines, dead, connects, deallocator, faults>>

\* The deploy fails: rollback and release, also of a session that has been
\* given a monitor meanwhile.
ClaimFails(n) ==
    /\ Uncommitted(n)
    /\ n \in replaced \/ n \notin vm \ dead
    /\ session' = IF n \in replaced THEN session ELSE [session EXCEPT ![n] = "FREE"]
    /\ EndClaim(n)
    /\ UNCHANGED <<database, machines, dead, monitored, connects, deallocator, faults>>

\* Mutant: the session is occupied, but no monitor installed.
StartOccupancyUnmonitored(t) ==
    /\ t \in Running
    /\ at[t] \in Registered \ started
    /\ session' = [session EXCEPT ![at[t]] = "BUSY"]
    /\ started' = started \cup {at[t]}
    /\ UNCHANGED <<database, machines, dead, monitored, connects, claim, replaced,
                   consuming, settled, stale, deallocator, faults>>

\* First pass of the consumer over the node: occupy and monitor, whatever the
\* status of the message's task is by now.
CheckStarts(n) ==
    /\ n \in Registered \ started
    /\ session' = [session EXCEPT ![n] = "BUSY"]
    /\ monitored' = monitored \cup {n}
    /\ started' = started \cup {n}
    /\ UNCHANGED <<database, machines, dead, connects, claim, replaced, consuming,
                   deallocator, faults>>

\* The message of a RUNNING task: there is one again in every cycle.
StartOccupancy(t) ==
    /\ t \in Running
    /\ CheckStarts(at[t])
    /\ UNCHANGED <<settled, stale>>

\* A message that was read while its task was RUNNING may be handled when the
\* task is finished; once, since the task is not read again.
Late(t) == status[t] = "DONE" /\ t \notin settled

StartOccupancyLate(t) ==
    /\ Late(t)
    /\ CheckStarts(at[t])
    /\ settled' = settled \cup {t}
    /\ stale' = stale \cup {at[t]}

\* FREE and checked, but get_running() is None: finalised, vacuously.
SkipConsumed(t) ==
    /\ Late(t)
    /\ session[at[t]] = "FREE"
    /\ at[t] \in started
    /\ started' = started \ {at[t]}
    /\ settled' = settled \cup {t}
    /\ UNCHANGED <<database, machines, repository, connects, claim, replaced, consuming,
                   stale, deallocator, faults>>

\* FREE and checked: consume_task() downloads, with the session it was given.
BeginConsume(t) ==
    /\ t \in Running \ consuming
    /\ session[at[t]] = "FREE"
    /\ at[t] \in started
    /\ consuming' = consuming \cup {t}
    /\ UNCHANGED <<database, machines, repository, connects, claim, replaced, started,
                   settled, stale, deallocator, faults>>

\* The outputs are there: DONE, saved with the node id of the loaded task.
Finalise(t) ==
    /\ t \in consuming
    /\ at[t] \in Registered \ dead
    /\ row[at[t]] # "absent"
    /\ status' = [status EXCEPT ![t] = "DONE"]
    /\ consuming' = consuming \ {t}
    /\ started' = started \ {at[t]}
    /\ UNCHANGED <<row, at, machines, repository, connects, claim, replaced, settled,
                   stale, deallocator, faults>>

\* The machine does not answer, its session was closed, or the foreign key
\* refuses the save: the task is consumed again in a later cycle.
ConsumeFails(t) ==
    /\ t \in consuming
    /\ at[t] \notin Registered \ dead \/ row[at[t]] = "absent"
    /\ consuming' = consuming \ {t}
    /\ UNCHANGED <<database, machines, repository, connects, claim, replaced, started,
                   settled, stale, deallocator, faults>>

\* The session has been missing for broken_tasks_passes passes (any number).
AbandonTask(t) ==
    /\ t \in Running
    /\ session[at[t]] = "none"
    /\ status' = [status EXCEPT ![t] = "DONE"]
    /\ UNCHANGED <<row, at, machines, repository, connects, work, deallocator, faults>>

-----------------------------------------------------------------------------
(* Deallocator. *)

\* deallocate_nodes(): the nodes of RUNNING tasks and the idle enabled ones.
\* Whether idle_tolerance has passed is left open.
CycleStarts ==
    /\ snapshot.phase = "idle"
    /\ snapshot' = [phase |-> "disabling", busy |-> BusyNodeIds,
                    idle |-> {n \in Enabled \cap CloudNodes :
                                 session[n] = "FREE" /\ RunningOn(n) = {}}]
    /\ UNCHANGED <<database, machines, repository, connects, work, teardown, faults>>

\* One transaction per idle cloud node; a row that is gone ends the cycle.
DisableIdle(n) ==
    /\ n \in snapshot.idle
    /\ IF row[n] = "absent"
       THEN snapshot' = NoCycle /\ UNCHANGED row
       ELSE Disable(n) /\ snapshot' = [snapshot EXCEPT !.idle = @ \ {n}]
    /\ UNCHANGED <<status, at, machines, repository, connects, work, teardown, faults>>

\* Mutant: only cloud nodes are collected.
CollectDisabledClouds ==
    /\ snapshot.phase = "disabling"
    /\ teardown' = [n \in Nodes |->
                       IF n \in (Disabled \cap CloudNodes) \ snapshot.busy
                          /\ teardown[n] = "idle"
                       THEN "queued" ELSE teardown[n]]
    /\ snapshot' = NoCycle
    /\ UNCHANGED <<database, machines, repository, connects, work, faults>>

\* list_disabled() minus the nodes that were busy when the cycle started.
CollectDisabled ==
    /\ snapshot.phase = "disabling"
    /\ teardown' = [n \in Nodes |->
                       IF n \in Disabled \ snapshot.busy /\ teardown[n] = "idle"
                       THEN "queued" ELSE teardown[n]]
    /\ snapshot' = NoCycle
    /\ UNCHANGED <<database, machines, repository, connects, work, faults>>

\* deallocate_node(): a BUSY session is left alone ...
SkipBusy(n) ==
    /\ teardown[n] = "queued"
    /\ session[n] = "BUSY"
    /\ teardown' = [teardown EXCEPT ![n] = "idle"]
    /\ UNCHANGED <<database, machines, repository, connects, work, snapshot, faults>>

\* ... any other is closed ...
Disconnect(n) ==
    /\ teardown[n] = "queued"
    /\ session[n] # "BUSY"
    /\ session' = [session EXCEPT ![n] = "none"]
    /\ dead' = dead \ {n}
    /\ monitored' = monitored \ {n}
    /\ replaced' = IF claim[n] = NoTask THEN replaced ELSE replaced \cup {n}
    /\ teardown' = [teardown EXCEPT ![n] = "closed"]
    /\ UNCHANGED <<database, machines, connects, claim, started, consuming, settled,
                   stale, snapshot, faults>>

\* ... the machine of a cloud node deleted, its row disabled first; with no
\* row left disable() raises ...
DeleteVm(n) ==
    /\ teardown[n] = "closed"
    /\ n \in CloudNodes
    /\ IF row[n] = "absent"
       THEN teardown' = [teardown EXCEPT ![n] = "idle"] /\ UNCHANGED <<row, vm, dead>>
       ELSE /\ Disable(n)
            /\ vm' = vm \ {n}
            /\ dead' = dead \cup ({n} \cap Registered)
            /\ teardown' = [teardown EXCEPT ![n] = "deleted"]
    /\ UNCHANGED <<status, at, procs, session, monitored, connects, work, snapshot, faults>>

DeleteVmFails(n) ==
    /\ teardown[n] = "closed"
    /\ n \in CloudNodes
    /\ row[n] # "absent"
    /\ Fault
    /\ Disable(n)
    /\ teardown' = [teardown EXCEPT ![n] = "idle"]
    /\ UNCHANGED <<status, at, machines, repository, connects, work, snapshot>>

\* ... and the row dropped, whatever became of it since it was read.
RemoveRow(n) ==
    /\ teardown[n] = IF n \in CloudNodes THEN "deleted" ELSE "closed"
    /\ ~RowLocked(n)
    /\ row' = IF Removable(n) THEN [row EXCEPT ![n] = "absent"] ELSE row
    /\ teardown' = [teardown EXCEPT ![n] = "idle"]
    /\ UNCHANGED <<status, at, machines, repository, connects, work, snapshot, faults>>

-----------------------------------------------------------------------------

\* The daemon stops and starts: what is in memory is lost, the timers and the
\* started checks with it.
Restart ==
    /\ Fault
    /\ session' = [n \in Nodes |-> "none"]
    /\ dead' = {} /\ monitored' = {}
    /\ pending' = {}
    /\ connect' = [n \in Nodes |-> "idle"]
    /\ timer' = [n \in Nodes |-> "unset"]
    /\ claim' = [n \in Nodes |-> NoTask]
    /\ replaced' = {} /\ started' = {} /\ consuming' = {}
    /\ settled' = {t \in Tasks : status[t] = "DONE"} /\ stale' = {}
    /\ snapshot' = NoCycle
    /\ teardown' = [n \in Nodes |-> "idle"]
    /\ UNCHANGED <<database, machines>>

ConnectStep(n) ==
    \/ PutPending(n) \/ Open(n) \/ Connected(n) \/ ConnectFails(n)
    \/ AbandonDisable(n) \/ AbandonDelete(n) \/ AbandonDeleteFails(n) \/ AbandonRemove(n)

SessionStep(n) ==
    MonitorFrees(n) \/ Commit(n) \/ StartMonitor(n) \/ ClaimFails(n)

TaskStep(t) ==
    \/ StartOccupancy(t) \/ BeginConsume(t) \/ Finalise(t) \/ ConsumeFails(t)
    \/ AbandonTask(t)

TeardownStep(n) ==
    SkipBusy(n) \/ Disconnect(n) \/ DeleteVm(n) \/ DeleteVmFails(n) \/ RemoveRow(n)

ConnectionNext ==
    \/ ConnectProduce \/ CycleStarts \/ CollectDisabled \/ Restart
    \/ \E n \in Nodes : ConnectStep(n) \/ SessionStep(n) \/ TeardownStep(n)
                        \/ GraceOver(n) \/ ConnectionDies(n) \/ DisableIdle(n)
    \/ \E t \in Tasks : TaskStep(t) \/ ProcessExits(t)
                        \/ StartOccupancyLate(t) \/ SkipConsumed(t)
                        \/ \E n \in Nodes : Claim(t, n)

\* The loops of the daemon keep running and calculations end.  A host that is
\* tried for ever is reached for ever (a transient outage), hence SF.
ConnectionFairness ==
    /\ WF_connectionVars(ConnectProduce)
    /\ WF_connectionVars(CycleStarts \/ CollectDisabled)
    /\ \A n \in Nodes :
          /\ WF_connectionVars(ConnectStep(n))
          /\ SF_connectionVars(Connected(n))
          /\ WF_connectionVars(SessionStep(n))
          /\ WF_connectionVars(TeardownStep(n))
    /\ \A t \in Tasks :
          /\ WF_connectionVars(TaskStep(t))
          /\ WF_connectionVars(ProcessExits(t))
=============================================================================
