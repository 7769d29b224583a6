-------------------------- MODULE Lifecycle_proofs --------------------------
(***************************************************************************)
(* What Scheduler keeps of its claims and sessions, and the restriction    *)
(* each property needs: the theorems say where the code's promises end.    *)
(*                                                                         *)
(*   ProcessesAreKnown,      none; the starts that ended in an exception   *)
(*   TasksSpawnedOnce        or with the daemon are excepted by name       *)
(*   BusySessionsHaveReason  no COMMIT of a claim fails                    *)
(*   ImplementsLifecycle     no node is torn down (no cloud nodes)         *)
(*   FailedTasksKeepDir      no cloud nodes, no restart, and no COMMIT     *)
(*                           or clean-up fails                             *)
(*                                                                         *)
(* All hold for any numbers of tasks, nodes, workers and other failures.   *)
(***************************************************************************)
EXTENDS Scheduler_proofs

\* The groups of variables, to expand UNCHANGED.
USE DEF db, tasksDb, machines, sessions, allocator, consumer, deallocator, environment

-----------------------------------------------------------------------------
(* A BUSY session has a reason. *)

\* An allocator has occupied the session of n and still holds it open.
Holds(t, n) ==
    /\ t \notin allocClosed
    /\ target[t] = n
    /\ alloc[t] \in {"deploying", "spawned", "committed"}

BusyHasHolder ==
    \A n \in Nodes : conn[n] = "BUSY" =>
        monitor[n] # NoEngine \/ \E t \in Tasks : Holds(t, n)

BusyInv == TypeOK /\ BusyHasHolder

\* No session becomes BUSY, and those that stay so keep their reason.
LEMMA BusyFrame ==
    ASSUME BusyInv, TypeOK',
           \A n \in Nodes : conn'[n] = "BUSY" => conn[n] = "BUSY" /\ monitor'[n] = monitor[n],
           \A t \in Tasks, n \in Nodes : conn'[n] = "BUSY" /\ Holds(t, n) => Holds(t, n)'
    PROVE  BusyInv'
  BY DEF BusyInv, BusyHasHolder

LEMMA InitBusy == Init => BusyInv
  BY InitType DEF BusyInv, BusyHasHolder, Init

LEMMA NextBusy ==
    ASSUME "commit" \notin Faults
    PROVE  BusyInv /\ [Next]_vars => BusyInv'
  <1> SUFFICES ASSUME BusyInv, [Next]_vars PROVE BusyInv'
    OBVIOUS
  <1> USE DEF TypeOK
  <1>1. TypeOK /\ TypeOK'
    BY NextType DEF BusyInv
  <1>2. ASSUME NEW t \in Tasks, AllocateStep(t) PROVE BusyInv'
    <2>1. CASE Occupy(t)
      <3>1. /\ conn' = [conn EXCEPT ![target[t]] = "BUSY"]
            /\ \A n \in Nodes : n = target[t] => Holds(t, n)'
        BY <1>1, <2>1 DEF Occupy, Holds
      <3>2. \A u \in Tasks, n \in Nodes : Holds(u, n) => Holds(u, n)'
        BY <1>1, <2>1 DEF Occupy, Holds
      <3> QED
        <4>1. ASSUME NEW n \in Nodes, conn'[n] = "BUSY", n # target[t]
              PROVE  monitor'[n] # NoEngine \/ \E u \in Tasks : Holds(u, n)'
          <5>1. conn[n] = "BUSY" /\ monitor' = monitor
            BY <2>1, <3>1, <4>1 DEF Occupy
          <5> QED
            BY <3>2, <5>1 DEF BusyInv, BusyHasHolder
        <4>2. BusyHasHolder'
          BY <3>1, <4>1 DEF BusyHasHolder
        <4> QED
          BY <1>1, <4>2 DEF BusyInv
    <2>2. CASE Spawn(t)
      BY <1>1, <2>2, BusyFrame DEF Spawn, Holds
    <2>3. CASE Commit(t)
      BY <1>1, <2>3, BusyFrame DEF Holds, Commit
    <2>4. CASE StartMonitor(t)
      <3>0. EngineOf[t] # NoEngine /\ DOMAIN monitor = Nodes /\ DOMAIN conn = Nodes
        BY <1>1, EnginesAssumption
      <3>1. \A u \in Tasks, n \in Nodes : Holds(u, n) /\ u # t => Holds(u, n)'
        BY <1>1, <2>4 DEF StartMonitor, Holds
      <3>2. ASSUME NEW n \in Nodes, Holds(t, n) PROVE monitor'[n] # NoEngine
        BY <2>4, <3>0, <3>2 DEF StartMonitor, InstallMonitor, Holds
      <3>3. ASSUME NEW n \in Nodes, conn'[n] = "BUSY"
            PROVE  \/ monitor'[n] # NoEngine
                   \/ conn[n] = "BUSY" /\ monitor'[n] = monitor[n]
        BY <2>4, <3>0, <3>3 DEF StartMonitor, InstallMonitor
      <3>4. BusyHasHolder'
        BY <3>1, <3>2, <3>3 DEF BusyInv, BusyHasHolder
      <3> QED
        BY <1>1, <3>4 DEF BusyInv
    <2>5. CASE Pick(t) \/ OccupyFails(t) \/ GiveUp(t) \/ Reject(t) \/ \E n \in Nodes : Claim(t, n)
      BY <1>1, <2>5, BusyFrame DEF Holds, Pick, OccupyFails, RollBack, GiveUp, Reject, Claim
    <2> QED
      BY <1>2, <2>1, <2>2, <2>3, <2>4, <2>5 DEF AllocateStep
  <1>3. ASSUME NEW t \in Tasks, ConsumeStep(t) PROVE BusyInv'
    <2>1. CASE StartOccupancy(t)
      <3>1. \A u \in Tasks, n \in Nodes : Holds(u, n) => Holds(u, n)'
        BY <2>1 DEF StartOccupancy, Holds
      <3>2. EngineOf[t] # NoEngine /\ DOMAIN monitor = Nodes /\ DOMAIN conn = Nodes
        BY <1>1, EnginesAssumption
      <3>3. ASSUME NEW n \in Nodes, conn'[n] = "BUSY"
            PROVE  \/ monitor'[n] # NoEngine
                   \/ conn[n] = "BUSY" /\ monitor'[n] = monitor[n]
        BY <2>1, <3>2, <3>3 DEF StartOccupancy, InstallMonitor
      <3>4. BusyHasHolder'
        BY <3>1, <3>3 DEF BusyInv, BusyHasHolder
      <3> QED
        BY <1>1, <3>4 DEF BusyInv
    <2>2. CASE ~StartOccupancy(t)
      BY <1>1, <1>3, <2>2, BusyFrame DEF ConsumeStep, Holds, MachineGone, Abandon, NotConsumable,
         BeginConsume, SkipConsumed, Download, Finalise, Finalised
    <2> QED
      BY <2>1, <2>2
  <1>4. ASSUME NEW t \in Tasks, FaultStep(t) PROVE BusyInv'
    <2>1. CASE DeployFails(t) \/ SpawnFails(t)
      BY <1>1, <2>1, BusyFrame DEF Holds, DeployFails, SpawnFails, RollBack
    <2>2. ~CommitFails(t)
      BY DEF CommitFails, Fault
    <2>3. CASE DownloadFails(t) \/ DownloadDefers(t) \/ RmtreeFails(t) \/ FinaliseFails(t)
      BY <1>1, <2>3, BusyFrame DEF Holds, DownloadFails, DownloadDefers, RmtreeFails, FinaliseFails
    <2> QED
      BY <1>4, <2>1, <2>2, <2>3 DEF FaultStep
  <1>5. ASSUME NEW n \in Nodes, DeallocateStep(n) PROVE BusyInv'
    <2>1. CASE CloseSession(n)
      BY <1>1, <2>1, BusyFrame DEF Holds, CloseSession
    <2>2. CASE ~CloseSession(n)
      BY <1>1, <1>5, <2>2, BusyFrame DEF DeallocateStep, Holds, DisableIdle, SkipBusy,
         DisableForDelete, DeleteVm, DeleteFails, RemoveRow
    <2> QED
      BY <2>1, <2>2
  <1>6. ASSUME OtherStep PROVE BusyInv'
    <2>1. CASE \E n \in Nodes : Connect(n) \/ MonitorFrees(n)
      BY <1>1, <2>1, BusyFrame DEF Holds, Connect, MonitorFrees
    <2>2. CASE Restart
      BY <1>1, <2>2, BusyFrame DEF Holds, Restart
    <2>3. CASE ~Restart /\ ~\E n \in Nodes : Connect(n) \/ MonitorFrees(n)
      BY <1>1, <1>6, <2>3, BusyFrame DEF OtherStep, Holds, PutRunning, ProcessExits,
         ListRunning, PickIdle, CollectDisabled
    <2> QED
      BY <2>1, <2>2, <2>3
  <1>7. CASE UNCHANGED vars
    BY <1>1, <1>7, BusyFrame DEF Holds, vars
  <1> QED
    BY <1>2, <1>3, <1>4, <1>5, <1>6, <1>7, Steps

\* Between occupy() and start_occupancy_check() the allocator holds a BUSY
\* session, afterwards a monitor does (allocate_task.py:100-118): no session
\* stays BUSY without anybody to release it, through restarts, closed sessions
\* and failed deploys, as long as the COMMIT of a claim does not fail.
THEOREM BusySessionsHaveReason ==
    ASSUME "commit" \notin Faults
    PROVE  Spec => []BusyHasReason
  <1>1. BusyInv => BusyHasReason
    BY DEF BusyInv, BusyHasHolder, BusyHasReason, Holds
  <1>2. BusyInv /\ [Next]_vars => BusyInv'
    BY NextBusy
  <1> QED
    BY <1>1, <1>2, InitBusy, PTL DEF Spec

-----------------------------------------------------------------------------
(* Who works on a task knows its status. *)

\* The tasks the consume phase has read: their rows were RUNNING then.
Handled == {t \in Tasks : t \in listed \/ consume[t] # "none"}

ClaimedIsTodo == \A t \in Claimed : status[t] = "TO_DO"
HandledRan == \A t \in Handled : status[t] # "TO_DO"

HandledInv == TypeOK /\ ClaimedIsTodo /\ HandledRan

\* Only TO_DO tasks are claimed and only RUNNING ones are listed; a row leaves
\* TO_DO with its claim, or is finalised by who handles it.
LEMMA HandledFrame ==
    ASSUME HandledInv, TypeOK',
           \A t \in Claimed' : t \in Claimed \/ status[t] = "TO_DO",
           \A t \in Handled' : t \in Handled \/ status[t] = "RUNNING",
           \A t \in Tasks : \/ status'[t] = status[t]
                            \/ status'[t] # "TO_DO" /\ (t \in Handled \/ t \notin Claimed')
    PROVE  HandledInv'
  <1>1. ASSUME NEW t \in Claimed' PROVE status'[t] = "TO_DO"
    <2>1. t \in Tasks /\ status[t] = "TO_DO"
      BY DEF Claimed, HandledInv, ClaimedIsTodo
    <2> QED
      BY <2>1 DEF HandledInv, HandledRan
  <1>2. ASSUME NEW t \in Handled' PROVE status'[t] # "TO_DO"
    <2>1. t \in Tasks /\ status[t] # "TO_DO"
      BY DEF Handled, HandledInv, HandledRan
    <2> QED
      BY <2>1
  <1> QED
    BY <1>1, <1>2 DEF HandledInv, ClaimedIsTodo, HandledRan

LEMMA InitHandled == Init => HandledInv
  BY InitType DEF HandledInv, ClaimedIsTodo, HandledRan, Handled, Claimed, Init

LEMMA NextHandled == HandledInv /\ [Next]_vars => HandledInv'
  <1> SUFFICES ASSUME HandledInv, [Next]_vars PROVE HandledInv'
    OBVIOUS
  <1> USE DEF TypeOK, Claimed, Handled
  <1>1. TypeOK /\ TypeOK'
    BY NextType DEF HandledInv
  <1>2. ASSUME NEW t \in Tasks, AllocateStep(t) PROVE HandledInv'
    BY <1>1, <1>2, HandledFrame DEF AllocateStep, Pick, Claim, Occupy, OccupyFails,
       RollBack, Spawn, Commit, StartMonitor, GiveUp, Reject
  <1>3. ASSUME NEW t \in Tasks, ConsumeStep(t) PROVE HandledInv'
    BY <1>1, <1>3, HandledFrame DEF ConsumeStep, MachineGone, Abandon, StartOccupancy,
       NotConsumable, Consumable, BeginConsume, SkipConsumed, Download, Finalise, Finalised
  <1>4. ASSUME NEW t \in Tasks, FaultStep(t) PROVE HandledInv'
    BY <1>1, <1>4, HandledFrame DEF FaultStep, DeployFails, SpawnFails, CommitFails, RollBack,
       DownloadFails, DownloadDefers, RmtreeFails, FinaliseFails
  <1>5. ASSUME NEW n \in Nodes, DeallocateStep(n) PROVE HandledInv'
    BY <1>1, <1>5, HandledFrame DEF DeallocateStep, DisableIdle, SkipBusy, CloseSession,
       DisableForDelete, DeleteVm, DeleteFails, RemoveRow
  <1>6. ASSUME OtherStep PROVE HandledInv'
    <2>1. CASE ListRunning
      BY <1>1, <2>1, HandledFrame DEF ListRunning, Running
    <2>2. CASE Restart
      BY <1>1, <2>2, HandledFrame DEF Restart
    <2>3. CASE \E t \in Tasks : PutRunning(t)
      BY <1>1, <2>3, HandledFrame DEF PutRunning
    <2>4. CASE \/ \E n \in Nodes : Connect(n) \/ MonitorFrees(n)
               \/ \E t \in Tasks, n \in Nodes : ProcessExits(t, n)
               \/ PickIdle \/ CollectDisabled
      BY <1>1, <2>4, HandledFrame DEF Connect, MonitorFrees, ProcessExits, PickIdle,
         CollectDisabled
    <2> QED
      BY <1>6, <2>1, <2>2, <2>3, <2>4 DEF OtherStep
  <1>7. CASE UNCHANGED vars
    BY <1>1, <1>7, HandledFrame DEF vars
  <1> QED
    BY <1>2, <1>3, <1>4, <1>5, <1>6, <1>7, Steps

-----------------------------------------------------------------------------
(* Every process that was started is known. *)

\* Its allocator is about to commit it, its row names its machine, or its
\* start ended in an exception or with the daemon.
SpawnedIsKnown ==
    \A t \in Tasks, n \in Nodes : <<t, n>> \in spawned \ lost =>
        \/ alloc[t] = "spawned" /\ target[t] = n
        \/ status[t] # "TO_DO" /\ allocated[t] = n

KnownInv == HandledInv /\ SpawnedIsKnown

\* Nothing is started, and nobody forgets what was: an allocator that gives a
\* process up does so with an exception.
LEMMA KnownFrame ==
    ASSUME KnownInv, HandledInv', spawned' = spawned, lost \subseteq lost',
           \A t \in Tasks : alloc[t] = "spawned" =>
              \/ alloc'[t] = "spawned" /\ target'[t] = target[t]
              \/ <<t, target[t]>> \in lost',
           \A t \in Tasks : status[t] # "TO_DO" =>
              status'[t] # "TO_DO" /\ allocated'[t] = allocated[t]
    PROVE  KnownInv'
  BY DEF KnownInv, SpawnedIsKnown

LEMMA InitKnown == Init => KnownInv
  BY InitHandled DEF KnownInv, SpawnedIsKnown, Init

LEMMA NextKnown == KnownInv /\ [Next]_vars => KnownInv'
  <1> SUFFICES ASSUME KnownInv, [Next]_vars PROVE KnownInv'
    OBVIOUS
  <1> USE DEF TypeOK
  <1>1. TypeOK /\ HandledInv /\ HandledInv'
    BY NextHandled DEF KnownInv, HandledInv
  <1>2. ASSUME NEW t \in Tasks, Spawn(t) PROVE KnownInv'
    <2>1. status[t] = "TO_DO" /\ alloc[t] = "deploying"
      BY <1>1, <1>2 DEF Spawn, HandledInv, ClaimedIsTodo, Claimed
    <2>2. \A n \in Nodes : <<t, n>> \notin spawned \ lost
      BY <2>1 DEF KnownInv, SpawnedIsKnown
    <2>3. SpawnedIsKnown'
      BY <1>1, <1>2, <2>2 DEF Spawn, KnownInv, SpawnedIsKnown
    <2> QED
      BY <1>1, <2>3 DEF KnownInv
  <1>3. ASSUME NEW t \in Tasks, Commit(t) PROVE KnownInv'
    <2>1. status[t] = "TO_DO"
      BY <1>1, <1>3 DEF Commit, HandledInv, ClaimedIsTodo, Claimed
    <2>2. SpawnedIsKnown'
      BY <1>1, <1>3, <2>1 DEF Commit, KnownInv, SpawnedIsKnown
    <2> QED
      BY <1>1, <2>2 DEF KnownInv
  <1>4. ASSUME NEW t \in Tasks, AllocateStep(t), ~Spawn(t), ~Commit(t) PROVE KnownInv'
    BY <1>1, <1>4, KnownFrame DEF AllocateStep, Pick, Claim, Occupy, OccupyFails,
       RollBack, StartMonitor, GiveUp, Reject
  <1>5. ASSUME NEW t \in Tasks, ConsumeStep(t) PROVE KnownInv'
    BY <1>1, <1>5, KnownFrame DEF ConsumeStep, MachineGone, Abandon, StartOccupancy,
       NotConsumable, BeginConsume, SkipConsumed, Download, Finalise, Finalised
  <1>6. ASSUME NEW t \in Tasks, FaultStep(t) PROVE KnownInv'
    BY <1>1, <1>6, KnownFrame DEF FaultStep, DeployFails, SpawnFails, CommitFails, RollBack,
       DownloadFails, DownloadDefers, RmtreeFails, FinaliseFails
  <1>7. ASSUME NEW n \in Nodes, DeallocateStep(n) PROVE KnownInv'
    BY <1>1, <1>7, KnownFrame DEF DeallocateStep, DisableIdle, SkipBusy, CloseSession,
       DisableForDelete, DeleteVm, DeleteFails, RemoveRow
  <1>8. ASSUME OtherStep PROVE KnownInv'
    <2>1. CASE Restart
      BY <1>1, <2>1, KnownFrame DEF Restart
    <2>2. CASE ~Restart
      BY <1>1, <1>8, <2>2, KnownFrame DEF OtherStep, PutRunning, Connect, MonitorFrees,
         ProcessExits, ListRunning, PickIdle, CollectDisabled
    <2> QED
      BY <2>1, <2>2
  <1>9. CASE UNCHANGED vars
    BY <1>1, <1>9, KnownFrame DEF vars
  <1> QED
    BY <1>2, <1>3, <1>4, <1>5, <1>6, <1>7, <1>8, <1>9, Steps

\* The claim is taken before the spawn and committed after it
\* (allocate_task.py:103-116), so every process that runs is held by an
\* allocator or named by the row of its task, except those whose start ended
\* in an exception or with the daemon: for any number of allocators, failures
\* and restarts, and with nodes being torn down.
THEOREM ProcessesAreKnown == Spec => []NoOrphanProcess
  <1>1. ASSUME KnownInv PROVE NoOrphanProcess
    <2> SUFFICES ASSUME NEW t \in Tasks, NEW n \in Nodes, <<t, n>> \in procs \ lost
                 PROVE  \/ alloc[t] = "spawned" /\ target[t] = n
                        \/ status[t] # "TO_DO" /\ allocated[t] = n
      BY <1>1 DEF NoOrphanProcess, KnownInv, HandledInv, TypeOK
    <2> QED
      BY <1>1 DEF KnownInv, HandledInv, TypeOK, SpawnedIsKnown
  <1>2. KnownInv /\ [Next]_vars => KnownInv'
    BY NextKnown
  <1> QED
    BY <1>1, <1>2, InitKnown, PTL DEF Spec

\* The guarded claim (postgres.py:141) lets one allocator through, and what it
\* started is recorded unless that ends in an exception or with the daemon:
\* other than those, a task is started on one machine in its life, for any
\* number of allocators, failures and restarts.
THEOREM TasksSpawnedOnce == Spec => []SpawnedOnce
  <1>1. ASSUME KnownInv, NEW t \in Tasks
        PROVE  Cardinality({n \in Nodes : <<t, n>> \in spawned \ lost}) <= 1
    <2> DEFINE S == {n \in Nodes : <<t, n>> \in spawned \ lost}
    <2>1. ASSUME NEW m \in S, NEW n \in S PROVE m = n
      <3>1. /\ \/ alloc[t] = "spawned" /\ target[t] = m
               \/ status[t] # "TO_DO" /\ allocated[t] = m
            /\ \/ alloc[t] = "spawned" /\ target[t] = n
               \/ status[t] # "TO_DO" /\ allocated[t] = n
        BY <1>1 DEF KnownInv, SpawnedIsKnown
      <3>2. alloc[t] = "spawned" => status[t] = "TO_DO"
        BY <1>1 DEF KnownInv, HandledInv, ClaimedIsTodo, Claimed
      <3> QED
        BY <3>1, <3>2
    <2> HIDE DEF S
    <2>2. ASSUME S = {} PROVE Cardinality(S) <= 1
      BY <2>2, FS_EmptySet
    <2>3. ASSUME S # {} PROVE Cardinality(S) <= 1
      <3>1. PICK m : m \in S
        BY <2>3
      <3>2. S = {m}
        BY <2>1, <3>1
      <3> QED
        BY <3>2, FS_Singleton
    <2>4. Cardinality(S) <= 1
      BY <2>2, <2>3
    <2> QED
      BY <2>4 DEF S
  <1>2. KnownInv => SpawnedOnce
    BY <1>1 DEF SpawnedOnce
  <1>3. KnownInv /\ [Next]_vars => KnownInv'
    BY NextKnown
  <1> QED
    BY <1>2, <1>3, InitKnown, PTL DEF Spec

-----------------------------------------------------------------------------
(* The rows implement the life cycle, where no node is torn down. *)

\* Nothing is ever disabled, so no session is closed.
StaticNodes ==
    /\ enabled = rows
    /\ toDisable = {}
    /\ \A n \in Nodes : teardown[n] = "none"

Connected(t) == conn[allocated[t]] # "none"

\* A task is taken for consumption on a session, which only a restart ends.
ConsumingIsRunning ==
    \A t \in Tasks : consume[t] \in {"downloading", "completing", "failing"} =>
        status[t] = "RUNNING" /\ Connected(t)

\* A late message of a finalised task does not find its machine gone; one of
\* an abandoned task may, and records the same once more.
LateMessageHarmless ==
    /\ \A t \in Handled : status[t] = "DONE" => outcome[t] = "abandoned" \/ Connected(t)
    /\ \A t \in Tasks : consume[t] = "abandoning" =>
          status[t] = "RUNNING" \/ outcome[t] = "abandoned"

LifeInv == HandledInv /\ StaticNodes /\ ConsumingIsRunning /\ LateMessageHarmless

\* The rows stay as they are, no session ends and no message is taken on.
LEMMA LifeFrame ==
    ASSUME LifeInv, HandledInv', StaticNodes', UNCHANGED tasksDb,
           \A n \in Nodes : conn[n] # "none" => conn'[n] # "none",
           \A t \in Tasks : consume'[t] \in {"none", "queued", "saved", consume[t]},
           \A t \in Handled' : t \in Handled \/ status[t] = "RUNNING"
    PROVE  LifeInv'
  <1>1. ASSUME NEW t \in Tasks, Connected(t), t \in Handled PROVE Connected(t)'
    BY <1>1 DEF Connected, LifeInv, HandledInv, TypeOK, Handled
  <1>2. ConsumingIsRunning'
    BY <1>1 DEF LifeInv, ConsumingIsRunning, Handled
  <1>3. LateMessageHarmless'
    BY <1>1 DEF LifeInv, LateMessageHarmless, Handled
  <1> QED
    BY <1>2, <1>3 DEF LifeInv

LEMMA InitLife == Init => LifeInv
  BY InitHandled DEF LifeInv, StaticNodes, ConsumingIsRunning, LateMessageHarmless,
     Handled, Init

\* Without cloud nodes the deallocate phase finds nothing to do.
LEMMA NextStatic ==
    ASSUME CloudNodes = {}, TypeOK, StaticNodes, [Next]_vars
    PROVE  /\ StaticNodes'
           /\ \A n \in Nodes : ~DeallocateStep(n)
  <1> USE DEF TypeOK, StaticNodes
  <1>1. ASSUME NEW n \in Nodes, DeallocateStep(n) PROVE FALSE
    BY <1>1 DEF DeallocateStep, DisableIdle, SkipBusy, CloseSession, DisableForDelete,
       DeleteVm, DeleteFails, RemoveRow
  <1>2. ASSUME NEW t \in Tasks, AllocateStep(t) PROVE StaticNodes'
    BY <1>2 DEF AllocateStep, Pick, Claim, Occupy, OccupyFails, RollBack, Spawn, Commit,
       StartMonitor, GiveUp, Reject
  <1>3. ASSUME NEW t \in Tasks, ConsumeStep(t) PROVE StaticNodes'
    BY <1>3 DEF ConsumeStep, MachineGone, Abandon, StartOccupancy, NotConsumable,
       BeginConsume, SkipConsumed, Download, Finalise, Finalised
  <1>4. ASSUME NEW t \in Tasks, FaultStep(t) PROVE StaticNodes'
    BY <1>4 DEF FaultStep, DeployFails, SpawnFails, CommitFails, RollBack, DownloadFails,
       DownloadDefers, RmtreeFails, FinaliseFails
  <1>5. ASSUME OtherStep PROVE StaticNodes'
    <2>1. CASE PickIdle
      BY <2>1 DEF PickIdle
    <2>2. CASE CollectDisabled
      BY <2>2 DEF CollectDisabled
    <2>3. CASE ~PickIdle /\ ~CollectDisabled
      BY <1>5, <2>3 DEF OtherStep, PutRunning, Connect, MonitorFrees, ProcessExits,
         ListRunning, Restart
    <2> QED
      BY <2>1, <2>2, <2>3
  <1>6. ASSUME UNCHANGED vars PROVE StaticNodes'
    BY <1>6 DEF vars
  <1> QED
    BY <1>1, <1>2, <1>3, <1>4, <1>5, <1>6, Steps

\* What each step does to the rows, and that it keeps the invariant.
LEMMA NextLife ==
    ASSUME CloudNodes = {}, LifeInv, [Next]_vars
    PROVE  LifeInv' /\ [Lifecycle!Next]_(Lifecycle!vars)
  <1> USE DEF TypeOK
  <1>1. TypeOK /\ TypeOK' /\ HandledInv /\ HandledInv' /\ StaticNodes /\ StaticNodes'
    BY NextHandled, NextStatic DEF LifeInv, HandledInv
  <1>2. ASSUME UNCHANGED tasksDb PROVE UNCHANGED Lifecycle!vars
    BY <1>2 DEF Lifecycle!vars
  <1>3. ASSUME NEW t \in Tasks, Commit(t)
        PROVE  LifeInv' /\ Lifecycle!Next
    <2>1. status[t] = "TO_DO" /\ t \notin Handled /\ target[t] \in Nodes
      BY <1>1, <1>3 DEF Commit, HandledInv, HandledRan, ClaimedIsTodo, Claimed
    <2>2. Lifecycle!Run(t, target[t])
      BY <1>3, <2>1 DEF Commit, Lifecycle!Run
    <2>3. \A u \in Tasks : u # t =>
             status'[u] = status[u] /\ allocated'[u] = allocated[u]
      BY <1>1, <1>3 DEF Commit
    <2>4. UNCHANGED <<conn, consume, listed, outcome>>
      BY <1>3 DEF Commit
    <2>5. consume[t] = "none" /\ t \notin listed
      BY <2>1 DEF Handled
    <2>6. ConsumingIsRunning'
      BY <2>3, <2>4, <2>5 DEF LifeInv, ConsumingIsRunning, Connected
    <2>7. LateMessageHarmless'
      BY <2>3, <2>4, <2>5 DEF LifeInv, LateMessageHarmless, Connected, Handled
    <2> QED
      BY <1>1, <2>1, <2>2, <2>6, <2>7 DEF LifeInv, Lifecycle!Next
  <1>4. ASSUME NEW t \in Tasks, Reject(t)
        PROVE  LifeInv' /\ Lifecycle!Next
    <2>1. status[t] = "TO_DO" /\ consume[t] = "none" /\ t \notin listed
      BY <1>1, <1>4 DEF Reject, HandledInv, HandledRan, Handled
    <2>2. Lifecycle!Reject(t)
      BY <1>4 DEF Reject, Lifecycle!Reject
    <2>3. \A u \in Tasks : u # t => status'[u] = status[u] /\ outcome'[u] = outcome[u]
      BY <1>1, <1>4 DEF Reject
    <2>4. UNCHANGED <<conn, consume, listed, allocated>>
      BY <1>4 DEF Reject
    <2>5. ConsumingIsRunning'
      BY <2>1, <2>3, <2>4 DEF LifeInv, ConsumingIsRunning, Connected
    <2>6. LateMessageHarmless'
      BY <2>1, <2>3, <2>4 DEF LifeInv, LateMessageHarmless, Connected, Handled
    <2> QED
      BY <1>1, <2>2, <2>5, <2>6 DEF LifeInv, Lifecycle!Next
  <1>5. ASSUME NEW t \in Tasks, Finalise(t)
        PROVE  LifeInv' /\ Lifecycle!Next
    <2>1. status[t] = "RUNNING" /\ Connected(t)
      BY <1>5 DEF Finalise, LifeInv, ConsumingIsRunning
    <2>2. \E how \in {"completed", "failed", "abandoned"} : Lifecycle!Finish(t, how)
      BY <1>5, <2>1 DEF Finalise, Lifecycle!Finish
    <2>3. \A u \in Tasks : u # t =>
             /\ status'[u] = status[u] /\ outcome'[u] = outcome[u]
             /\ consume'[u] = consume[u]
      BY <1>1, <1>5 DEF Finalise
    <2>4. UNCHANGED <<conn, listed, allocated>> /\ consume'[t] = "saved"
      BY <1>1, <1>5 DEF Finalise
    <2>5. ConsumingIsRunning'
      BY <2>3, <2>4 DEF LifeInv, ConsumingIsRunning, Connected
    <2>6. LateMessageHarmless'
      BY <2>1, <2>3, <2>4 DEF LifeInv, LateMessageHarmless, Connected, Handled
    <2> QED
      BY <1>1, <2>2, <2>5, <2>6 DEF LifeInv, Lifecycle!Next
  <1>6. ASSUME NEW t \in Tasks, Abandon(t)
        PROVE  LifeInv' /\ [Lifecycle!Next]_(Lifecycle!vars)
    <2>1. consume[t] = "abandoning" /\ status[t] # "TO_DO"
      BY <1>1, <1>6 DEF Abandon, HandledInv, HandledRan, Handled
    <2>2. \/ status[t] = "RUNNING"
          \/ status[t] = "DONE" /\ outcome[t] = "abandoned"
      BY <1>1, <2>1 DEF LifeInv, LateMessageHarmless
    <2>3. CASE allocated[t] \notin rows
      BY <1>1, <1>2, <1>6, <2>3, LifeFrame DEF Abandon, Handled
    <2>4. CASE allocated[t] \in rows
      <3>1. /\ status' = [status EXCEPT ![t] = "DONE"]
            /\ outcome' = [outcome EXCEPT ![t] = "abandoned"]
            /\ consume' = [consume EXCEPT ![t] = "none"]
            /\ UNCHANGED <<conn, listed, allocated>>
        BY <1>6, <2>4 DEF Abandon
      <3>2. ASSUME status[t] = "RUNNING" PROVE Lifecycle!Next
        <4>1. Lifecycle!Finish(t, "abandoned")
          BY <3>1, <3>2 DEF Lifecycle!Finish
        <4> QED
          BY <4>1 DEF Lifecycle!Next
      <3>3. ASSUME status[t] = "DONE", outcome[t] = "abandoned"
            PROVE  UNCHANGED Lifecycle!vars
        BY <1>1, <3>1, <3>3 DEF Lifecycle!vars
      <3>4. \A u \in Tasks : u # t =>
               /\ status'[u] = status[u] /\ outcome'[u] = outcome[u]
               /\ consume'[u] = consume[u]
        BY <1>1, <3>1
      <3>5. consume'[t] = "none" /\ outcome'[t] = "abandoned"
        BY <1>1, <3>1
      <3>6. ConsumingIsRunning'
        BY <3>1, <3>4, <3>5 DEF LifeInv, ConsumingIsRunning, Connected
      <3>7. LateMessageHarmless'
        BY <3>1, <3>4, <3>5 DEF LifeInv, LateMessageHarmless, Connected, Handled
      <3> QED
        BY <1>1, <2>2, <3>2, <3>3, <3>6, <3>7 DEF LifeInv
    <2> QED
      BY <2>3, <2>4
  <1>7. ASSUME NEW t \in Tasks, AllocateStep(t), ~Commit(t), ~Reject(t)
        PROVE  LifeInv' /\ UNCHANGED tasksDb
    <2>1. UNCHANGED tasksDb
      BY <1>7 DEF AllocateStep, Pick, Claim, Occupy, OccupyFails, RollBack, Spawn,
         StartMonitor, GiveUp
    <2>2. UNCHANGED <<listed, consume>>
      BY <1>7 DEF AllocateStep, Pick, Claim, Occupy, OccupyFails, RollBack, Spawn,
         StartMonitor, GiveUp
    <2>3. \A n \in Nodes : conn[n] # "none" => conn'[n] # "none"
      BY <1>1, <1>7 DEF AllocateStep, Pick, Claim, Occupy, OccupyFails, RollBack, Spawn,
         StartMonitor, InstallMonitor, GiveUp
    <2> QED
      BY <1>1, <2>1, <2>2, <2>3, LifeFrame DEF Handled
  <1>8. ASSUME NEW t \in Tasks, BeginConsume(t) \/ Download(t) \/ MachineGone(t)
        PROVE  LifeInv' /\ UNCHANGED tasksDb
    <2>1. UNCHANGED <<status, allocated, outcome, conn, listed>>
      BY <1>8 DEF BeginConsume, Download, MachineGone
    <2>2. \A u \in Tasks : u # t => consume'[u] = consume[u]
      BY <1>1, <1>8 DEF BeginConsume, Download, MachineGone
    <2>3. t \in Handled /\ status[t] # "TO_DO"
      BY <1>1, <1>8 DEF BeginConsume, Consumable, Download, MachineGone, Handled,
         HandledInv, HandledRan
    <2>4. \/ /\ consume'[t] \in {"downloading", "completing", "failing"}
             /\ status[t] = "RUNNING" /\ Connected(t)
          \/ consume'[t] = "abandoning" /\ ~Connected(t)
          \/ consume'[t] = "none"
      BY <1>1, <1>8 DEF BeginConsume, Consumable, Download, MachineGone, Connected,
         LifeInv, ConsumingIsRunning
    <2>5. ConsumingIsRunning'
      BY <2>1, <2>2, <2>4 DEF LifeInv, ConsumingIsRunning, Connected
    <2>6. LateMessageHarmless'
      BY <1>1, <2>1, <2>2, <2>3, <2>4 DEF LifeInv, LateMessageHarmless, Connected, Handled
    <2> QED
      BY <1>1, <2>1, <2>5, <2>6 DEF LifeInv
  <1>9. ASSUME NEW t \in Tasks,
               StartOccupancy(t) \/ NotConsumable(t) \/ SkipConsumed(t) \/ Finalised(t)
        PROVE  LifeInv' /\ UNCHANGED tasksDb
    BY <1>1, <1>9, LifeFrame DEF StartOccupancy, InstallMonitor, NotConsumable,
       SkipConsumed, Finalised, Handled
  <1>10. ASSUME NEW t \in Tasks, FaultStep(t), ~DownloadFails(t)
         PROVE  LifeInv' /\ UNCHANGED tasksDb
    BY <1>1, <1>10, LifeFrame DEF FaultStep, DeployFails, SpawnFails, CommitFails, RollBack,
       DownloadDefers, RmtreeFails, FinaliseFails, Handled
  <1>11. ASSUME NEW t \in Tasks, DownloadFails(t)
         PROVE  LifeInv' /\ UNCHANGED tasksDb
    <2>1. UNCHANGED <<status, allocated, outcome, conn, listed>>
      BY <1>11 DEF DownloadFails
    <2>2. consume[t] = "downloading" /\ consume' = [consume EXCEPT ![t] = "failing"]
      BY <1>11 DEF DownloadFails
    <2>3. ConsumingIsRunning' /\ LateMessageHarmless'
      BY <1>1, <2>1, <2>2 DEF LifeInv, ConsumingIsRunning, LateMessageHarmless, Connected,
         Handled
    <2> QED
      BY <1>1, <2>1, <2>3 DEF LifeInv
  <1>12. ASSUME OtherStep
         PROVE  LifeInv' /\ UNCHANGED tasksDb
    <2>1. CASE Restart
      BY <1>1, <2>1 DEF Restart, LifeInv, ConsumingIsRunning, LateMessageHarmless, Handled
    <2>2. CASE ListRunning \/ \E t \in Tasks : PutRunning(t)
      BY <1>1, <2>2, LifeFrame DEF ListRunning, Running, PutRunning, Handled
    <2>3. ASSUME NEW n \in Nodes, Connect(n) \/ MonitorFrees(n)
          PROVE  LifeInv' /\ UNCHANGED tasksDb
      BY <1>1, <2>3, LifeFrame DEF Connect, MonitorFrees, Handled
    <2>4. CASE \/ \E t \in Tasks, n \in Nodes : ProcessExits(t, n)
               \/ PickIdle \/ CollectDisabled
      <3>1. UNCHANGED <<tasksDb, conn, listed, consume>>
        BY <2>4 DEF ProcessExits, PickIdle, CollectDisabled
      <3> QED
        BY <1>1, <3>1, LifeFrame DEF Handled
    <2> QED
      BY <1>12, <2>1, <2>2, <2>3, <2>4 DEF OtherStep
  <1>13. ASSUME UNCHANGED vars
         PROVE  LifeInv' /\ UNCHANGED tasksDb
    BY <1>1, <1>13, LifeFrame DEF vars, Handled
  <1>14. ASSUME NEW t \in Tasks, ConsumeStep(t)
         PROVE  LifeInv' /\ [Lifecycle!Next]_(Lifecycle!vars)
    BY <1>2, <1>5, <1>6, <1>8, <1>9, <1>14 DEF ConsumeStep
  <1>15. ASSUME NEW t \in Tasks, AllocateStep(t)
         PROVE  LifeInv' /\ [Lifecycle!Next]_(Lifecycle!vars)
    BY <1>2, <1>3, <1>4, <1>7, <1>15
  <1>16. \A n \in Nodes : ~DeallocateStep(n)
    BY <1>1, NextStatic
  <1> QED
    BY <1>2, <1>10, <1>11, <1>12, <1>13, <1>14, <1>15, <1>16, Steps

\* With static nodes only, every step of the daemon does to the committed rows
\* what one transition of the domain model allows (model.py), or nothing: TO_DO,
\* RUNNING on one node, DONE with one outcome, for any number of allocators,
\* failures and restarts, although the saves of the consume phase carry no
\* status guard (orchestrator.py:521, consume_task.py:262).
THEOREM ImplementsLifecycle ==
    ASSUME CloudNodes = {}
    PROVE  Spec => LifecycleSpec
  <1>1. Init => Lifecycle!Init
    BY DEF Init, Lifecycle!Init
  <1>2. LifeInv /\ [Next]_vars => LifeInv' /\ [Lifecycle!Next]_(Lifecycle!vars)
    BY NextLife
  <1> QED
    BY <1>1, <1>2, InitLife, PTL DEF Spec, LifecycleSpec, Lifecycle!Spec

-----------------------------------------------------------------------------
(* A task that ends failed keeps its remote directory. *)

\* Nobody loses a machine, and what was cleaned up is as good as completed.
RemovedIsCompleted ==
    /\ vms = Nodes /\ consClosed = {}
    /\ \A t \in Tasks : status[t] # "DONE" => outcome[t] = "none"
    /\ \A t \in removed : \/ consume[t] = "completing"
                          \/ status[t] = "DONE" /\ outcome[t] # "failed"

KeepInv == LifeInv /\ RemovedIsCompleted

\* No directory is removed and no outcome recorded.
LEMMA KeepFrame ==
    ASSUME KeepInv, LifeInv', UNCHANGED <<tasksDb, vms, consClosed, removed>>,
           \A t \in Tasks : consume[t] = "completing" => consume'[t] = "completing"
    PROVE  KeepInv'
  BY DEF KeepInv, RemovedIsCompleted, LifeInv, HandledInv, TypeOK

LEMMA InitKeep == Init => KeepInv
  BY InitLife DEF KeepInv, RemovedIsCompleted, Init

LEMMA NextKeep ==
    ASSUME CloudNodes = {}, MaxRestarts = 0, "commit" \notin Faults, "rmtree" \notin Faults
    PROVE  KeepInv /\ [Next]_vars => KeepInv'
  <1> SUFFICES ASSUME KeepInv, [Next]_vars PROVE KeepInv'
    OBVIOUS
  <1> USE DEF TypeOK
  <1>1. TypeOK /\ TypeOK' /\ StaticNodes /\ LifeInv /\ LifeInv'
    BY NextLife DEF KeepInv, LifeInv, HandledInv
  <1>2. ASSUME NEW t \in Tasks, AllocateStep(t) PROVE KeepInv'
    <2>1. UNCHANGED <<vms, consClosed, removed, consume>>
      BY <1>2 DEF AllocateStep, Pick, Claim, Occupy, OccupyFails, RollBack, Spawn,
         Commit, StartMonitor, GiveUp, Reject
    <2>2. CASE Commit(t)
      <3>1. status[t] = "TO_DO" /\ consume[t] = "none"
        BY <1>1, <2>2 DEF Commit, LifeInv, HandledInv, HandledRan, ClaimedIsTodo, Claimed,
           Handled
      <3>2. UNCHANGED outcome /\ status' = [status EXCEPT ![t] = "RUNNING"]
        BY <2>2 DEF Commit
      <3>3. RemovedIsCompleted'
        BY <1>1, <2>1, <3>1, <3>2 DEF KeepInv, RemovedIsCompleted
      <3> QED
        BY <1>1, <3>3 DEF KeepInv
    <2>3. CASE Reject(t)
      <3>1. RemovedIsCompleted'
        BY <1>1, <2>1, <2>3 DEF Reject, KeepInv, RemovedIsCompleted
      <3> QED
        BY <1>1, <3>1 DEF KeepInv
    <2>4. CASE ~Commit(t) /\ ~Reject(t)
      <3>1. UNCHANGED tasksDb
        BY <1>2, <2>4 DEF AllocateStep, Pick, Claim, Occupy, OccupyFails, RollBack, Spawn,
           StartMonitor, GiveUp
      <3> QED
        BY <1>1, <2>1, <3>1, KeepFrame
    <2> QED
      BY <2>2, <2>3, <2>4
  <1>3. ASSUME NEW t \in Tasks, ConsumeStep(t) PROVE KeepInv'
    <2>1. UNCHANGED vms
      BY <1>3 DEF ConsumeStep, MachineGone, Abandon, StartOccupancy, NotConsumable,
         BeginConsume, SkipConsumed, Download, Finalise, Finalised
    <2>2. consClosed' = {}
      BY <1>3 DEF ConsumeStep, MachineGone, Abandon, StartOccupancy, NotConsumable,
         BeginConsume, SkipConsumed, Download, Finalise, Finalised, KeepInv,
         RemovedIsCompleted
    <2>3. CASE Download(t)
      <3>1. /\ removed' = removed \cup {t}
            /\ consume' = [consume EXCEPT ![t] = "completing"]
            /\ UNCHANGED tasksDb
        BY <2>3 DEF Download
      <3>2. RemovedIsCompleted'
        BY <1>1, <2>1, <2>2, <3>1 DEF KeepInv, RemovedIsCompleted
      <3> QED
        BY <1>1, <3>2 DEF KeepInv
    <2>4. CASE Finalise(t)
      <3>1. status[t] = "RUNNING"
        BY <1>1, <2>4 DEF Finalise, LifeInv, ConsumingIsRunning
      <3>2. RemovedIsCompleted'
        BY <1>1, <2>1, <2>2, <2>4, <3>1 DEF Finalise, KeepInv, RemovedIsCompleted
      <3> QED
        BY <1>1, <3>2 DEF KeepInv
    <2>5. CASE Abandon(t)
      <3>1. RemovedIsCompleted'
        BY <1>1, <2>1, <2>2, <2>5 DEF Abandon, KeepInv, RemovedIsCompleted
      <3> QED
        BY <1>1, <3>1 DEF KeepInv
    <2>6. CASE ~Download(t) /\ ~Finalise(t) /\ ~Abandon(t)
      <3>1. UNCHANGED <<tasksDb, removed>>
        BY <1>3, <2>6 DEF ConsumeStep, MachineGone, StartOccupancy, NotConsumable,
           BeginConsume, SkipConsumed, Finalised
      <3>2. \A u \in Tasks : consume[u] = "completing" => consume'[u] = "completing"
        BY <1>1, <1>3, <2>6 DEF ConsumeStep, MachineGone, StartOccupancy, NotConsumable,
           BeginConsume, SkipConsumed, Consumable, Finalised
      <3>3. consClosed' = consClosed
        BY <2>2 DEF KeepInv, RemovedIsCompleted
      <3> QED
        BY <1>1, <2>1, <3>1, <3>2, <3>3, KeepFrame
    <2> QED
      BY <2>3, <2>4, <2>5, <2>6
  <1>4. ASSUME NEW t \in Tasks, FaultStep(t) PROVE KeepInv'
    <2>1. ~CommitFails(t) /\ ~FinaliseFails(t)
      BY DEF CommitFails, FinaliseFails, Fault
    <2>2. ~RmtreeFails(t)
      BY <1>1 DEF RmtreeFails, Reachable, Fault, KeepInv, RemovedIsCompleted
    <2>3. DeployFails(t) \/ SpawnFails(t) \/ DownloadFails(t) \/ DownloadDefers(t)
      BY <1>4, <2>1, <2>2 DEF FaultStep
    <2>4. UNCHANGED <<tasksDb, vms, removed>> /\ consClosed' = consClosed
      BY <2>3 DEF DeployFails, SpawnFails, DownloadFails, DownloadDefers, KeepInv,
         RemovedIsCompleted
    <2>5. \A u \in Tasks : consume[u] = "completing" => consume'[u] = "completing"
      BY <1>1, <2>3 DEF DeployFails, SpawnFails, DownloadFails, DownloadDefers
    <2> QED
      BY <1>1, <2>4, <2>5, KeepFrame
  <1>5. \A n \in Nodes : ~DeallocateStep(n)
    BY <1>1, NextStatic
  <1>6. ASSUME OtherStep PROVE KeepInv'
    <2>1. ~Restart
      BY <1>1 DEF Restart
    <2>2. UNCHANGED <<tasksDb, vms, consClosed, removed>>
      BY <1>6, <2>1 DEF OtherStep, PutRunning, Connect, MonitorFrees, ProcessExits,
         ListRunning, PickIdle, CollectDisabled
    <2>3. \A u \in Tasks : consume[u] = "completing" => consume'[u] = "completing"
      <3>1. ASSUME NEW t \in Tasks, PutRunning(t)
            PROVE  \A u \in Tasks : consume[u] = "completing" => consume'[u] = "completing"
        <4>1. \/ UNCHANGED consume
              \/ consume[t] = "none" /\ consume' = [consume EXCEPT ![t] = "queued"]
          BY <3>1 DEF PutRunning
        <4>2. DOMAIN consume = Tasks
          BY <1>1
        <4> QED
          BY ONLY <4>1, <4>2
      <3>2. CASE \A t \in Tasks : ~PutRunning(t)
        <4>1. UNCHANGED consume
          BY <1>6, <2>1, <3>2 DEF OtherStep, Connect, MonitorFrees, ProcessExits,
             ListRunning, PickIdle, CollectDisabled
        <4> QED
          BY <4>1
      <3> QED
        BY <3>1, <3>2
    <2> QED
      BY <1>1, <2>2, <2>3, KeepFrame
  <1>7. ASSUME UNCHANGED vars PROVE KeepInv'
    BY <1>1, <1>7, KeepFrame DEF vars
  <1> QED
    BY <1>2, <1>3, <1>4, <1>5, <1>6, <1>7, Steps

\* The directory goes only when all files are stored (download.py:97), and
\* then the task is completed: unless a COMMIT or a clean-up fails, or the
\* daemon dies, in between, no task ends failed without its directory.
THEOREM FailedTasksKeepDir ==
    ASSUME CloudNodes = {}, MaxRestarts = 0, "commit" \notin Faults, "rmtree" \notin Faults
    PROVE  Spec => []FailedKeepsDir
  <1>1. ASSUME KeepInv PROVE FailedKeepsDir
    BY <1>1 DEF KeepInv, RemovedIsCompleted, LifeInv, ConsumingIsRunning, FailedKeepsDir
  <1>2. KeepInv /\ [Next]_vars => KeepInv'
    BY NextKeep
  <1> QED
    BY <1>1, <1>2, InitKeep, PTL DEF Spec

=============================================================================
