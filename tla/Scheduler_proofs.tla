-------------------------- MODULE Scheduler_proofs --------------------------
(***************************************************************************)
(* Safety of Scheduler for any tasks, nodes, engines, failures and         *)
(* restarts, and for any number of allocator workers unless it is said.    *)
(*                                                                         *)
(*   TypeCorrect            every variable keeps its type                  *)
(*   RunningTasksSpawned    a RUNNING row has a process behind it          *)
(*   RunningTasksHaveRow    a RUNNING task keeps the row of its node       *)
(*   OneWorkerSeparates     with ONE allocator worker no two RUNNING tasks *)
(*                          share a node (with two they may)               *)
(*                                                                         *)
(* The three properties speak about committed rows; none is inductive,     *)
(* since the row is written from what the allocator has held since Claim.  *)
(* Each invariant below adds what is true of a claim before its commit.    *)
(***************************************************************************)
EXTENDS Scheduler, FiniteSetTheorems, TLAPS

\* The groups of variables, to expand UNCHANGED.
USE DEF db, tasksDb, machines, sessions, allocator, consumer, deallocator, environment

-----------------------------------------------------------------------------
(* Types. *)

LEMMA AllocateType ==
    ASSUME TypeOK, NEW t \in Tasks, AllocateStep(t)
    PROVE  TypeOK'
  <1> USE NodesAssumption, EnginesAssumption, BoundsAssumption
      DEF TypeOK, Outcomes, AllocStates, ConsumeStates
  <1>1. CASE Pick(t)
    BY <1>1 DEF Pick, FreeMachines
  <1>2. CASE Occupy(t)
    BY <1>2 DEF Occupy
  <1>3. CASE OccupyFails(t)
    BY <1>3 DEF OccupyFails, RollBack
  <1>4. CASE Spawn(t)
    BY <1>4 DEF Spawn
  <1>5. CASE Commit(t)
    BY <1>5 DEF Commit
  <1>6. CASE StartMonitor(t)
    BY <1>6 DEF StartMonitor, InstallMonitor
  <1>7. CASE GiveUp(t)
    BY <1>7 DEF GiveUp
  <1>8. CASE Reject(t)
    BY <1>8 DEF Reject
  <1>9. CASE \E n \in Nodes : Claim(t, n)
    BY <1>9 DEF Claim
  <1> QED
    BY <1>1, <1>2, <1>3, <1>4, <1>5, <1>6, <1>7, <1>8, <1>9 DEF AllocateStep

LEMMA ConsumeType ==
    ASSUME TypeOK, NEW t \in Tasks, ConsumeStep(t)
    PROVE  TypeOK'
  <1> USE NodesAssumption, EnginesAssumption, BoundsAssumption
      DEF TypeOK, Outcomes, AllocStates, ConsumeStates
  <1>1. CASE MachineGone(t)
    BY <1>1 DEF MachineGone
  <1>2. CASE Abandon(t)
    BY <1>2 DEF Abandon
  <1>3. CASE StartOccupancy(t)
    BY <1>3 DEF StartOccupancy, InstallMonitor
  <1>4. CASE NotConsumable(t)
    BY <1>4 DEF NotConsumable
  <1>5. CASE BeginConsume(t)
    BY <1>5 DEF BeginConsume, Consumable
  <1>6. CASE SkipConsumed(t)
    BY <1>6 DEF SkipConsumed, Consumable
  <1>7. CASE Download(t)
    BY <1>7 DEF Download
  <1>8. CASE Finalise(t)
    BY <1>8 DEF Finalise
  <1>9. CASE Finalised(t)
    BY <1>9 DEF Finalised
  <1> QED
    BY <1>1, <1>2, <1>3, <1>4, <1>5, <1>6, <1>7, <1>8, <1>9 DEF ConsumeStep

LEMMA FaultType ==
    ASSUME TypeOK, NEW t \in Tasks, FaultStep(t)
    PROVE  TypeOK'
  <1> USE NodesAssumption, EnginesAssumption, BoundsAssumption
      DEF TypeOK, Outcomes, AllocStates, ConsumeStates
  <1>1. CASE DeployFails(t)
    BY <1>1 DEF DeployFails, RollBack, Fault
  <1>2. CASE CommitFails(t)
    BY <1>2 DEF CommitFails, RollBack, Fault
  <1>3. CASE DownloadFails(t)
    BY <1>3 DEF DownloadFails, Fault
  <1>4. CASE DownloadDefers(t)
    BY <1>4 DEF DownloadDefers, Fault
  <1>5. CASE RmtreeFails(t)
    BY <1>5 DEF RmtreeFails, Fault
  <1>6. CASE FinaliseFails(t)
    BY <1>6 DEF FinaliseFails, Fault
  <1>7. CASE SpawnFails(t)
    BY <1>7 DEF SpawnFails, RollBack, Fault
  <1> QED
    BY <1>1, <1>2, <1>3, <1>4, <1>5, <1>6, <1>7 DEF FaultStep

LEMMA DeallocateType ==
    ASSUME TypeOK, NEW n \in Nodes, DeallocateStep(n)
    PROVE  TypeOK'
  <1> USE NodesAssumption, EnginesAssumption, BoundsAssumption
      DEF TypeOK, Outcomes, AllocStates, ConsumeStates
  <1>1. CASE DisableIdle(n)
    BY <1>1 DEF DisableIdle
  <1>2. CASE SkipBusy(n)
    BY <1>2 DEF SkipBusy
  <1>3. CASE CloseSession(n)
    BY <1>3 DEF CloseSession
  <1>4. CASE DisableForDelete(n)
    BY <1>4 DEF DisableForDelete
  <1>5. CASE DeleteVm(n)
    BY <1>5 DEF DeleteVm
  <1>6. CASE DeleteFails(n)
    BY <1>6 DEF DeleteFails, Fault
  <1>7. CASE RemoveRow(n)
    BY <1>7 DEF RemoveRow
  <1> QED
    BY <1>1, <1>2, <1>3, <1>4, <1>5, <1>6, <1>7 DEF DeallocateStep

\* The steps of no phase of their own: connecting, the monitors, the
\* producers, the processes, a restart.
OtherStep ==
    \/ \E t \in Tasks : PutRunning(t)
    \/ \E n \in Nodes : Connect(n) \/ MonitorFrees(n)
    \/ \E t \in Tasks, n \in Nodes : ProcessExits(t, n)
    \/ ListRunning \/ PickIdle \/ CollectDisabled \/ Restart

LEMMA OtherType == ASSUME TypeOK, OtherStep PROVE TypeOK'
  <1> USE NodesAssumption, EnginesAssumption, BoundsAssumption
      DEF TypeOK, Outcomes, AllocStates, ConsumeStates
  <1>1. CASE \E t \in Tasks : PutRunning(t)
    BY <1>1 DEF PutRunning
  <1>2. CASE \E n \in Nodes : Connect(n)
    BY <1>2 DEF Connect
  <1>3. CASE \E n \in Nodes : MonitorFrees(n)
    BY <1>3 DEF MonitorFrees
  <1>4. CASE \E t \in Tasks, n \in Nodes : ProcessExits(t, n)
    BY <1>4 DEF ProcessExits
  <1>5. CASE ListRunning
    BY <1>5 DEF ListRunning, Running
  <1>6. CASE PickIdle
    BY <1>6 DEF PickIdle, FreeMachines, BusyNodeIds, Running
  <1>7. CASE CollectDisabled
    BY <1>7 DEF CollectDisabled
  <1>8. CASE Restart
    BY <1>8 DEF Restart
  <1> QED
    BY <1>1, <1>2, <1>3, <1>4, <1>5, <1>6, <1>7, <1>8 DEF OtherStep

\* Every step is one of these, or a stutter.
LEMMA Steps ==
    ASSUME [Next]_vars
    PROVE  \/ \E t \in Tasks : AllocateStep(t) \/ ConsumeStep(t) \/ FaultStep(t)
           \/ \E n \in Nodes : DeallocateStep(n)
           \/ OtherStep
           \/ UNCHANGED vars
  BY DEF Next, OtherStep

LEMMA InitType == Init => TypeOK
  BY NodesAssumption, EnginesAssumption, BoundsAssumption
  DEF Init, TypeOK, Outcomes, AllocStates, ConsumeStates

LEMMA NextType == TypeOK /\ [Next]_vars => TypeOK'
  <1> SUFFICES ASSUME TypeOK, [Next]_vars PROVE TypeOK'
    OBVIOUS
  <1>1. CASE UNCHANGED vars
    BY <1>1 DEF TypeOK, vars
  <1> QED
    BY <1>1, Steps, AllocateType, ConsumeType, FaultType, DeallocateType, OtherType

\* Every variable keeps its type; a machine is bound to an allocator exactly
\* from Claim to StartMonitor, and to every RUNNING row.
THEOREM TypeCorrect == Spec => []TypeOK
  <1> QED
    BY InitType, NextType, PTL DEF Spec

-----------------------------------------------------------------------------
(* A RUNNING row has a process behind it. *)

\* Between the spawn and its commit the allocator holds the machine on which
\* the process was started.
SpawnBeforeCommit ==
    \A t \in Tasks : alloc[t] = "spawned" => <<t, target[t]>> \in spawned

SpawnInv == TypeOK /\ SpawnBeforeCommit /\ RunningWasSpawned

\* What the two conjuncts read stays as it is, or a task stops RUNNING, or
\* an allocation is rolled back.
LEMMA SpawnFrame ==
    ASSUME SpawnInv, TypeOK', spawned \subseteq spawned',
           \A t \in Tasks : alloc'[t] = "spawned" =>
              alloc[t] = "spawned" /\ target'[t] = target[t],
           \A t \in Tasks : status'[t] = "RUNNING" =>
              status[t] = "RUNNING" /\ allocated'[t] = allocated[t]
    PROVE  SpawnInv'
  BY DEF SpawnInv, SpawnBeforeCommit, RunningWasSpawned, Running

LEMMA InitSpawn == Init => SpawnInv
  BY InitType DEF SpawnInv, SpawnBeforeCommit, RunningWasSpawned, Running, Init

LEMMA NextSpawn == SpawnInv /\ [Next]_vars => SpawnInv'
  <1> SUFFICES ASSUME SpawnInv, [Next]_vars PROVE SpawnInv'
    OBVIOUS
  <1> USE DEF TypeOK
  <1>1. TypeOK /\ TypeOK'
    BY NextType DEF SpawnInv
  <1>2. ASSUME NEW t \in Tasks, Spawn(t) PROVE SpawnInv'
    <2>1. SpawnBeforeCommit'
      BY <1>1, <1>2 DEF Spawn, SpawnInv, SpawnBeforeCommit
    <2>2. RunningWasSpawned'
      BY <1>2 DEF Spawn, SpawnInv, RunningWasSpawned, Running
    <2> QED
      BY <1>1, <2>1, <2>2 DEF SpawnInv
  <1>3. ASSUME NEW t \in Tasks, Commit(t) PROVE SpawnInv'
    <2>1. <<t, target[t]>> \in spawned
      BY <1>3 DEF Commit, SpawnInv, SpawnBeforeCommit
    <2>2. SpawnBeforeCommit'
      BY <1>1, <1>3 DEF Commit, SpawnInv, SpawnBeforeCommit
    <2>3. RunningWasSpawned'
      BY <1>1, <1>3, <2>1 DEF Commit, SpawnInv, RunningWasSpawned, Running
    <2> QED
      BY <1>1, <2>2, <2>3 DEF SpawnInv
  <1>4. ASSUME NEW t \in Tasks, AllocateStep(t), ~Spawn(t), ~Commit(t) PROVE SpawnInv'
    BY <1>1, <1>4, SpawnFrame DEF AllocateStep, Pick, Claim, Occupy, OccupyFails,
       RollBack, StartMonitor, GiveUp, Reject
  <1>5. ASSUME NEW t \in Tasks, ConsumeStep(t) PROVE SpawnInv'
    BY <1>1, <1>5, SpawnFrame DEF ConsumeStep, MachineGone, Abandon, StartOccupancy,
       NotConsumable, BeginConsume, SkipConsumed, Download, Finalise, Finalised
  <1>6. ASSUME NEW t \in Tasks, FaultStep(t) PROVE SpawnInv'
    BY <1>1, <1>6, SpawnFrame DEF FaultStep, DeployFails, SpawnFails, CommitFails, RollBack,
       DownloadFails, DownloadDefers, RmtreeFails, FinaliseFails
  <1>7. ASSUME NEW n \in Nodes, DeallocateStep(n) PROVE SpawnInv'
    BY <1>1, <1>7, SpawnFrame DEF DeallocateStep, DisableIdle, SkipBusy, CloseSession,
       DisableForDelete, DeleteVm, DeleteFails, RemoveRow
  <1>8. ASSUME OtherStep PROVE SpawnInv'
    <2>1. CASE Restart
      BY <1>1, <2>1, SpawnFrame DEF Restart
    <2>2. CASE ~Restart
      BY <1>1, <1>8, <2>2, SpawnFrame DEF OtherStep, PutRunning, Connect, MonitorFrees,
         ProcessExits, ListRunning, PickIdle, CollectDisabled
    <2> QED
      BY <2>1, <2>2
  <1>9. CASE UNCHANGED vars
    BY <1>1, <1>9, SpawnFrame DEF vars
  <1> QED
    BY <1>2, <1>3, <1>4, <1>5, <1>6, <1>7, <1>8, <1>9, Steps

\* The claim is committed only after the spawn (allocate_task.py:107-116): a
\* RUNNING row always names a node on which a process of the task was started,
\* through failed deploys and commits, torn down nodes and restarts.
THEOREM RunningTasksSpawned == Spec => []RunningWasSpawned
  <1>1. SpawnInv => RunningWasSpawned
    BY DEF SpawnInv
  <1> QED
    BY <1>1, InitSpawn, NextSpawn, PTL DEF Spec

-----------------------------------------------------------------------------
(* A RUNNING task keeps the row of its node. *)

Claimed == {t \in Tasks : alloc[t] \in {"claimed", "deploying", "spawned"}}

\* The row of a node somebody claims cannot go: its key is share-locked.
ClaimedHasRow == \A t \in Claimed : target[t] \in rows

RowInv == TypeOK /\ ClaimedHasRow /\ RunningHasRow

\* What is claimed was claimed, what is RUNNING was RUNNING or claimed, and
\* the rows of those nodes stay.
LEMMA RowFrame ==
    ASSUME RowInv, TypeOK',
           \A t \in Claimed' : t \in Claimed /\ target'[t] = target[t],
           \A t \in Running' : \/ t \in Running /\ allocated'[t] = allocated[t]
                               \/ t \in Claimed /\ allocated'[t] = target[t],
           rows \ rows' \subseteq {n \in Nodes : n \notin BusyNodeIds /\ ~RowLocked(n)}
    PROVE  RowInv'
  <1> USE DEF RowInv, TypeOK
  <1>1. ASSUME NEW t \in Claimed PROVE target[t] \in rows'
    BY DEF ClaimedHasRow, Claimed, RowLocked
  <1>2. ASSUME NEW t \in Running PROVE allocated[t] \in rows'
    <2>1. allocated[t] \in BusyNodeIds
      BY <1>2 DEF BusyNodeIds
    <2>2. allocated[t] \in rows
      BY <2>1 DEF RunningHasRow
    <2> QED
      BY <2>1, <2>2
  <1>3. ClaimedHasRow'
    BY <1>1 DEF ClaimedHasRow
  <1>4. RunningHasRow'
    BY <1>1, <1>2 DEF RunningHasRow, BusyNodeIds
  <1> QED
    BY <1>3, <1>4

LEMMA InitRow == Init => RowInv
  BY InitType DEF RowInv, ClaimedHasRow, Claimed, RunningHasRow, BusyNodeIds, Running, Init

LEMMA NextRow == RowInv /\ [Next]_vars => RowInv'
  <1> SUFFICES ASSUME RowInv, [Next]_vars PROVE RowInv'
    OBVIOUS
  <1> USE DEF TypeOK, Claimed, Running
  <1>1. TypeOK /\ TypeOK'
    BY NextType DEF RowInv
  <1>2. ASSUME NEW t \in Tasks, NEW n \in Nodes, Claim(t, n) PROVE RowInv'
    <2>1. ClaimedHasRow'
      BY <1>1, <1>2 DEF Claim, RowInv, ClaimedHasRow
    <2>2. RunningHasRow'
      BY <1>2 DEF Claim, RowInv, RunningHasRow, BusyNodeIds
    <2> QED
      BY <1>1, <2>1, <2>2 DEF RowInv
  <1>3. ASSUME NEW t \in Tasks, AllocateStep(t), ~\E n \in Nodes : Claim(t, n)
        PROVE  RowInv'
    BY <1>1, <1>3, RowFrame DEF AllocateStep, Pick, Occupy, OccupyFails, RollBack,
       Spawn, Commit, StartMonitor, GiveUp, Reject
  <1>4. ASSUME NEW t \in Tasks, ConsumeStep(t) PROVE RowInv'
    BY <1>1, <1>4, RowFrame DEF ConsumeStep, MachineGone, Abandon, StartOccupancy,
       NotConsumable, BeginConsume, SkipConsumed, Download, Finalise, Finalised
  <1>5. ASSUME NEW t \in Tasks, FaultStep(t) PROVE RowInv'
    BY <1>1, <1>5, RowFrame DEF FaultStep, DeployFails, SpawnFails, CommitFails, RollBack,
       DownloadFails, DownloadDefers, RmtreeFails, FinaliseFails
  <1>6. ASSUME NEW n \in Nodes, DeallocateStep(n) PROVE RowInv'
    BY <1>1, <1>6, RowFrame DEF DeallocateStep, DisableIdle, SkipBusy, CloseSession,
       DisableForDelete, DeleteVm, DeleteFails, RemoveRow
  <1>7. ASSUME OtherStep PROVE RowInv'
    <2>1. CASE Restart
      BY <1>1, <2>1, RowFrame DEF Restart
    <2>2. CASE ~Restart
      BY <1>1, <1>7, <2>2, RowFrame DEF OtherStep, PutRunning, Connect, MonitorFrees,
         ProcessExits, ListRunning, PickIdle, CollectDisabled
    <2> QED
      BY <2>1, <2>2
  <1>8. CASE UNCHANGED vars
    BY <1>1, <1>8, RowFrame DEF vars
  <1> QED
    BY <1>2, <1>3, <1>4, <1>5, <1>6, <1>7, <1>8, Steps

\* The lock an uncommitted claim holds on the row of its node, the foreign key
\* and the CHECK of schema.sql close the races between an allocator and the
\* teardown of the node: no RUNNING task loses the row it points to.
THEOREM RunningTasksHaveRow == Spec => []RunningHasRow
  <1>1. RowInv => RunningHasRow
    BY DEF RowInv
  <1> QED
    BY <1>1, InitRow, NextRow, PTL DEF Spec

-----------------------------------------------------------------------------
(* With one allocator worker, RUNNING tasks are on separate nodes. *)

\* The tasks whose allocator relies on what it picked.
Picking == {t \in Tasks : alloc[t] \in {"picked", "claimed", "deploying", "spawned"}}

OneAllocating == \A t, u \in Allocating : t = u

\* What was free when it was picked has no RUNNING task since: only this
\* allocator makes tasks RUNNING.
FreshPick ==
    \A t \in Picking : cands[t] \cap BusyNodeIds = {} /\ target[t] \notin BusyNodeIds

SeparateInv == TypeOK /\ OneAllocating /\ FreshPick /\ SeparateNodes

\* Nobody starts to allocate or becomes RUNNING; a claim takes a candidate.
LEMMA SeparateFrame ==
    ASSUME SeparateInv, TypeOK',
           Allocating' \subseteq Allocating,
           \A t \in Picking' :
              /\ t \in Picking
              /\ cands'[t] \subseteq cands[t]
              /\ target'[t] \in cands[t] \cup {target[t], NoNode},
           \A t \in Running' : t \in Running /\ allocated'[t] = allocated[t]
    PROVE  SeparateInv'
  <1> USE DEF SeparateInv
  <1>1. BusyNodeIds' \subseteq BusyNodeIds /\ NoNode \notin BusyNodeIds
    BY NodesAssumption DEF BusyNodeIds, Running, TypeOK
  <1>2. FreshPick'
    BY <1>1 DEF FreshPick
  <1>3. OneAllocating'
    BY DEF OneAllocating
  <1>4. SeparateNodes'
    BY DEF SeparateNodes
  <1> QED
    BY <1>2, <1>3, <1>4

LEMMA InitSeparate == Init => SeparateInv
  BY InitType DEF SeparateInv, OneAllocating, Allocating, FreshPick, Picking,
     SeparateNodes, Running, Init

LEMMA NextSeparate ==
    ASSUME IsFiniteSet(Tasks), AllocateLimit = 1
    PROVE  SeparateInv /\ [Next]_vars => SeparateInv'
  <1> SUFFICES ASSUME SeparateInv, [Next]_vars PROVE SeparateInv'
    OBVIOUS
  <1> USE DEF TypeOK, Allocating, Picking, Running
  <1>1. TypeOK /\ TypeOK'
    BY NextType DEF SeparateInv
  <1>2. ASSUME NEW t \in Tasks, Pick(t) PROVE SeparateInv'
    <2>1. Allocating = {}
      <3>1. IsFiniteSet(Allocating) /\ Cardinality(Allocating) < 1
        BY <1>2, FS_Subset DEF Pick
      <3>2. Cardinality(Allocating) = 0
        BY <3>1, FS_CardinalityType
      <3> QED
        BY <3>1, <3>2, FS_EmptySet
    <2>2. \A u \in Allocating' : u = t
      BY <1>1, <1>2, <2>1 DEF Pick
    <2>3. BusyNodeIds' = BusyNodeIds
      BY <1>2 DEF Pick, BusyNodeIds
    <2>4. /\ cands'[t] \cap BusyNodeIds = {}
          /\ target'[t] \notin BusyNodeIds
      <3>1. target'[t] \notin Nodes
        BY <1>1, <1>2 DEF Pick
      <3> QED
        BY <1>1, <1>2, <3>1 DEF Pick, FreeMachines, BusyNodeIds
    <2>5. FreshPick'
      BY <2>2, <2>3, <2>4 DEF FreshPick
    <2>6. OneAllocating'
      BY <2>2 DEF OneAllocating
    <2>7. SeparateNodes'
      BY <1>2 DEF Pick, SeparateInv, SeparateNodes
    <2> QED
      BY <1>1, <2>5, <2>6, <2>7 DEF SeparateInv
  <1>3. ASSUME NEW t \in Tasks, Commit(t) PROVE SeparateInv'
    <2>1. target[t] \notin BusyNodeIds
      BY <1>3 DEF Commit, SeparateInv, FreshPick
    <2>2. SeparateNodes'
      BY <1>1, <1>3, <2>1 DEF Commit, SeparateInv, SeparateNodes, BusyNodeIds
    <2>3. Picking' = {}
      BY <1>1, <1>3 DEF Commit, SeparateInv, OneAllocating
    <2>4. OneAllocating'
      BY <1>1, <1>3 DEF Commit, SeparateInv, OneAllocating
    <2> QED
      BY <1>1, <2>2, <2>3, <2>4 DEF SeparateInv, FreshPick
  <1>4. ASSUME NEW t \in Tasks, AllocateStep(t), ~Pick(t), ~Commit(t)
        PROVE  SeparateInv'
    BY <1>1, <1>4, SeparateFrame DEF AllocateStep, Claim, Occupy, OccupyFails,
       RollBack, Spawn, StartMonitor, GiveUp, Reject
  <1>5. ASSUME NEW t \in Tasks, ConsumeStep(t) PROVE SeparateInv'
    BY <1>1, <1>5, SeparateFrame DEF ConsumeStep, MachineGone, Abandon,
       StartOccupancy, NotConsumable, BeginConsume, SkipConsumed, Download, Finalise,
       Finalised
  <1>6. ASSUME NEW t \in Tasks, FaultStep(t) PROVE SeparateInv'
    BY <1>1, <1>6, SeparateFrame DEF FaultStep, DeployFails, SpawnFails, CommitFails, RollBack,
       DownloadFails, DownloadDefers, RmtreeFails, FinaliseFails
  <1>7. ASSUME NEW n \in Nodes, DeallocateStep(n) PROVE SeparateInv'
    BY <1>1, <1>7, SeparateFrame DEF DeallocateStep, DisableIdle, SkipBusy,
       CloseSession, DisableForDelete, DeleteVm, DeleteFails, RemoveRow
  <1>8. ASSUME OtherStep PROVE SeparateInv'
    <2>1. CASE Restart
      BY <1>1, <2>1, SeparateFrame DEF Restart
    <2>2. CASE ~Restart
      BY <1>1, <1>8, <2>2, SeparateFrame DEF OtherStep, PutRunning, Connect,
         MonitorFrees, ProcessExits, ListRunning, PickIdle, CollectDisabled
    <2> QED
      BY <2>1, <2>2
  <1>9. CASE UNCHANGED vars
    BY <1>1, <1>9, SeparateFrame DEF vars
  <1> QED
    BY <1>2, <1>3, <1>4, <1>5, <1>6, <1>7, <1>8, <1>9, Steps

\* Free-machine selection (_find_free_machines, allocate_task.py:136) keeps
\* RUNNING tasks on separate nodes when a single worker allocates: between its
\* pick and its commit nobody else can make a task RUNNING.
THEOREM OneWorkerSeparates ==
    ASSUME IsFiniteSet(Tasks), AllocateLimit = 1
    PROVE  Spec => []SeparateNodes
  <1>1. SeparateInv => SeparateNodes
    BY DEF SeparateInv
  <1>2. SeparateInv /\ [Next]_vars => SeparateInv'
    BY NextSeparate
  <1> QED
    BY <1>1, <1>2, InitSeparate, PTL DEF Spec

=============================================================================
