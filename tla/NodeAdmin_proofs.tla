--------------------------- MODULE NodeAdmin_proofs ---------------------------
(***************************************************************************)
(* yasetnode beside the daemon, for any nodes, tasks, queue sizes, workers *)
(* and numbers of faults and commands.                                     *)
(*                                                                         *)
(*   TypeCorrect            every variable keeps its type                  *)
(*   HostsAreReady          tasks run, or are about to, on set-up hosts    *)
(*   StaticNodesKept        no outage or idleness takes an enabled static  *)
(*                          node out of use                                *)
(*   OutputsTakenAfterExit  no download while the calculation runs, but on *)
(*                          nodes checked for a finished task, if the      *)
(*                          connect queue has room for every node          *)
(*                                                                         *)
(* None of the properties is inductive.  ReadyInv adds what makes a row    *)
(* enabled, StaticInv who can be in the steps that disable one, ExitInv    *)
(* whose session a claim holds and who frees it.                           *)
(***************************************************************************)
EXTENDS NodeAdmin, FiniteSetTheorems, TLAPS

\* The groups of variables, to expand UNCHANGED.
USE DEF database, machines, repository, connects, work, deallocator, connectionVars,
        cliVars, vars

\* A row is enabled, or about to be, for a set-up host only, and what is
\* claimed or RUNNING was enabled.
ReadyInv ==
    /\ ReadyBeforeUse
    /\ Enabled \subseteq ready
    /\ cli.next = "enable" => cli.node \in ready

\* Only cloud nodes are abandoned or disabled for being idle.
StaticInv ==
    /\ \A n \in Nodes : connect[n] \in {"disabled", "deleted"} => n \in CloudNodes
    /\ snapshot.idle \subseteq CloudNodes

Inv == TypeOK /\ ReadyInv /\ StaticInv

-----------------------------------------------------------------------------
(* Types of the daemon's steps. *)

LEMMA ConnectType ==
    ASSUME TypeOK, NEW n \in Nodes, ConnectStep(n)
    PROVE  ConnectionTypeOK'
  <1> USE NodesAssumption, LimitsAssumption
      DEF TypeOK, ConnectionTypeOK, AbandonEnds, Disable, Fault, Registered
  <1>1. CASE PutPending(n)
    BY <1>1 DEF PutPending
  <1>2. CASE Open(n)
    BY <1>2 DEF Open
  <1>3. CASE Connected(n)
    BY <1>3 DEF Connected
  <1>4. CASE ConnectFails(n)
    BY <1>4 DEF ConnectFails
  <1>5. CASE AbandonDisable(n)
    BY <1>5 DEF AbandonDisable
  <1>6. CASE AbandonDelete(n)
    BY <1>6 DEF AbandonDelete
  <1>7. CASE AbandonDeleteFails(n)
    BY <1>7 DEF AbandonDeleteFails
  <1>8. CASE AbandonRemove(n)
    BY <1>8 DEF AbandonRemove
  <1> QED
    BY <1>1, <1>2, <1>3, <1>4, <1>5, <1>6, <1>7, <1>8 DEF ConnectStep

LEMMA SessionType ==
    ASSUME TypeOK, NEW n \in Nodes, SessionStep(n)
    PROVE  ConnectionTypeOK'
  <1> USE NodesAssumption, LimitsAssumption
      DEF TypeOK, ConnectionTypeOK, AbandonEnds, Disable, Fault, Registered
  <1>1. CASE MonitorFrees(n)
    BY <1>1 DEF MonitorFrees
  <1>2. CASE Commit(n)
    BY <1>2 DEF Commit, Uncommitted
  <1>3. CASE StartMonitor(n)
    BY <1>3 DEF StartMonitor, EndClaim
  <1>4. CASE ClaimFails(n)
    BY <1>4 DEF ClaimFails, EndClaim
  <1> QED
    BY <1>1, <1>2, <1>3, <1>4 DEF SessionStep

LEMMA TaskType ==
    ASSUME TypeOK, NEW t \in Tasks, TaskStep(t)
    PROVE  ConnectionTypeOK'
  <1> USE NodesAssumption, LimitsAssumption
      DEF TypeOK, ConnectionTypeOK, AbandonEnds, Disable, Fault, Registered
  <1>1. CASE BeginConsume(t)
    BY <1>1 DEF BeginConsume, Running
  <1>2. CASE Finalise(t)
    BY <1>2 DEF Finalise
  <1>3. CASE ConsumeFails(t)
    BY <1>3 DEF ConsumeFails
  <1>4. CASE AbandonTask(t)
    BY <1>4 DEF AbandonTask
  <1>5. CASE StartOccupancy(t)
    BY <1>5 DEF StartOccupancy, CheckStarts
  <1> QED
    BY <1>1, <1>2, <1>3, <1>4, <1>5 DEF TaskStep

LEMMA LateType ==
    ASSUME TypeOK, NEW t \in Tasks, StartOccupancyLate(t) \/ SkipConsumed(t)
    PROVE  ConnectionTypeOK'
  <1> USE NodesAssumption, LimitsAssumption DEF TypeOK, ConnectionTypeOK, Registered
  <1>1. CASE StartOccupancyLate(t)
    BY <1>1 DEF StartOccupancyLate, CheckStarts
  <1>2. CASE SkipConsumed(t)
    BY <1>2 DEF SkipConsumed
  <1> QED
    BY <1>1, <1>2

LEMMA TeardownType ==
    ASSUME TypeOK, NEW n \in Nodes, TeardownStep(n)
    PROVE  ConnectionTypeOK'
  <1> USE NodesAssumption, LimitsAssumption
      DEF TypeOK, ConnectionTypeOK, AbandonEnds, Disable, Fault, Registered
  <1>1. CASE SkipBusy(n)
    BY <1>1 DEF SkipBusy
  <1>2. CASE Disconnect(n)
    BY <1>2 DEF Disconnect
  <1>3. CASE DeleteVm(n)
    BY <1>3 DEF DeleteVm
  <1>4. CASE DeleteVmFails(n)
    BY <1>4 DEF DeleteVmFails
  <1>5. CASE RemoveRow(n)
    BY <1>5 DEF RemoveRow
  <1> QED
    BY <1>1, <1>2, <1>3, <1>4, <1>5 DEF TeardownStep

LEMMA DaemonType ==
    ASSUME TypeOK, ConnectionNext
    PROVE  ConnectionTypeOK'
  <1>1. CASE ConnectProduce
    BY <1>1, NodesAssumption, LimitsAssumption
    DEF TypeOK, ConnectionTypeOK, Disable, Fault, Registered, ConnectProduce, Unconnected, Enabled, Disabled
  <1>2. CASE CycleStarts
    BY <1>2, NodesAssumption, LimitsAssumption
    DEF TypeOK, ConnectionTypeOK, Disable, Fault, Registered, CycleStarts, BusyNodeIds, Running, Enabled
  <1>3. CASE CollectDisabled
    BY <1>3, NodesAssumption, LimitsAssumption
    DEF TypeOK, ConnectionTypeOK, Disable, Fault, Registered, CollectDisabled, NoCycle
  <1>4. CASE Restart
    BY <1>4, NodesAssumption, LimitsAssumption
    DEF TypeOK, ConnectionTypeOK, Disable, Fault, Registered, Restart, NoCycle
  <1>5. CASE \E n \in Nodes : ConnectStep(n)
    BY <1>5, ConnectType
  <1>6. CASE \E n \in Nodes : SessionStep(n)
    BY <1>6, SessionType
  <1>7. CASE \E t \in Tasks : TaskStep(t)
    BY <1>7, TaskType
  <1>8. CASE \E n \in Nodes : TeardownStep(n)
    BY <1>8, TeardownType
  <1>9. CASE \E n \in Nodes : GraceOver(n)
    BY <1>9, NodesAssumption, LimitsAssumption
    DEF TypeOK, ConnectionTypeOK, Disable, Fault, Registered, GraceOver
  <1>10. CASE \E n \in Nodes : ConnectionDies(n)
    BY <1>10, NodesAssumption, LimitsAssumption
    DEF TypeOK, ConnectionTypeOK, Disable, Fault, Registered, ConnectionDies
  <1>11. CASE \E n \in Nodes : DisableIdle(n)
    BY <1>11, NodesAssumption, LimitsAssumption
    DEF TypeOK, ConnectionTypeOK, Disable, Fault, Registered, DisableIdle, NoCycle
  <1>12. CASE \E t \in Tasks : ProcessExits(t)
    BY <1>12, NodesAssumption, LimitsAssumption
    DEF TypeOK, ConnectionTypeOK, Disable, Fault, Registered, ProcessExits
  <1>13. CASE \E t \in Tasks, n \in Nodes : Claim(t, n)
    BY <1>13, NodesAssumption, LimitsAssumption
    DEF TypeOK, ConnectionTypeOK, Disable, Fault, Registered, Claim
  <1>14. CASE \E t \in Tasks : StartOccupancyLate(t) \/ SkipConsumed(t)
    BY <1>14, LateType
  <1> QED
    BY <1>1, <1>2, <1>3, <1>4, <1>5, <1>6, <1>7, <1>8, <1>9,
       <1>10, <1>11, <1>12, <1>13, <1>14 DEF ConnectionNext

-----------------------------------------------------------------------------
(* Types of the commands. *)

\* A command changes rows and task statuses at most; tasks only end.
LEMMA CommandFrame ==
    ASSUME Command
    PROVE  /\ UNCHANGED <<at, machines, repository, connects, work, deallocator, faults>>
           /\ \/ UNCHANGED status
              \/ status' = [t \in Tasks |-> IF t \in RunningOn(cli.node) THEN "DONE"
                                         ELSE status[t]]
  BY DEF Command, SoftDisable, SoftRemove, HardRemove, AddConnected, AddConnectFails,
         AddSetup, AddStops, AddEnable, SoftRead, HardRead, AddInsert, OnlyRows

LEMMA CommandRows ==
    ASSUME TypeOK, Command
    PROVE  row' \in [Nodes -> {"absent", "disabled", "enabled"}]
  <1> USE DEF TypeOK, ConnectionTypeOK
  <1>1. CASE SoftDisable
    <2>1. row' \in {row, [row EXCEPT ![cli.node] = "disabled"]}
      BY <1>1 DEF SoftDisable, Disable
    <2> QED
      BY <2>1
  <1>2. CASE SoftRemove
    <2>1. row' \in {row, [row EXCEPT ![cli.node] = "absent"]}
      BY <1>2 DEF SoftRemove
    <2> QED
      BY <2>1
  <1>3. CASE HardRemove
    <2>1. row' \in {row, [row EXCEPT ![cli.node] = "absent"]}
      BY <1>3 DEF HardRemove
    <2> QED
      BY <2>1
  <1>4. CASE AddConnected
    BY <1>4 DEF AddConnected
  <1>5. CASE AddConnectFails
    BY <1>5 DEF AddConnectFails
  <1>6. CASE AddSetup
    BY <1>6 DEF AddSetup
  <1>7. CASE AddStops
    BY <1>7 DEF AddStops
  <1>8. CASE AddEnable
    BY <1>8 DEF AddEnable
  <1>9. CASE \E n \in Nodes : SoftRead(n)
    BY <1>9 DEF SoftRead
  <1>10. CASE \E n \in Nodes : HardRead(n)
    BY <1>10 DEF HardRead
  <1>11. CASE \E n \in Nodes : AddInsert(n)
    BY <1>11 DEF AddInsert
  <1> QED
    BY <1>1, <1>2, <1>3, <1>4, <1>5, <1>6, <1>7, <1>8, <1>9,
       <1>10, <1>11 DEF Command

LEMMA BeginType ==
    ASSUME TypeOK, NEW s \in Steps, s # "none", NEW n \in Nodes, NEW ts \in SUBSET Tasks,
           Begin(s, n, ts)
    PROVE  /\ cli' \in [next : Steps, node : Nodes \cup {NoNode}, tasks : SUBSET Tasks]
           /\ cli'.next = "none" <=> cli'.node = NoNode
           /\ ready' \subseteq Nodes
           /\ cliRemoved' \subseteq Nodes
           /\ commands' \in 0..MaxCommands
  <1>1. cli' \in [next : Steps, node : Nodes \cup {NoNode}, tasks : SUBSET Tasks]
    BY DEF Begin
  <1>2. cli'.next # "none" /\ cli'.node # NoNode
    BY NodesAssumption DEF Begin
  <1>3. commands' \in 0..MaxCommands
    BY CommandsAssumption DEF Begin, TypeOK
  <1> QED
    BY <1>1, <1>2, <1>3 DEF Begin, TypeOK

LEMMA CommandCli ==
    ASSUME TypeOK, Command
    PROVE  /\ cli' \in [next : Steps, node : Nodes \cup {NoNode}, tasks : SUBSET Tasks]
           /\ cli'.next = "none" <=> cli'.node = NoNode
           /\ ready' \subseteq Nodes
           /\ cliRemoved' \subseteq Nodes
           /\ commands' \in 0..MaxCommands
  <1>a. cli.next # "none" => cli.node \in Nodes
    BY DEF TypeOK
  <1>b. \A n \in Nodes : RunningOn(n) \subseteq Tasks
    BY DEF RunningOn, Running
  <1> USE NodesAssumption, CommandsAssumption
      DEF TypeOK, Steps, NoCommand, Begin, Ends, Goes
  <1>1. CASE SoftDisable
    BY <1>1, <1>a DEF SoftDisable
  <1>2. CASE SoftRemove
    BY <1>2, <1>a DEF SoftRemove
  <1>3. CASE HardRemove
    BY <1>3, <1>a DEF HardRemove
  <1>4. CASE AddConnected
    BY <1>4, <1>a DEF AddConnected
  <1>5. CASE AddConnectFails
    BY <1>5, <1>a DEF AddConnectFails
  <1>6. CASE AddSetup
    BY <1>6, <1>a DEF AddSetup
  <1>7. CASE AddStops
    BY <1>7, <1>a DEF AddStops
  <1>8. CASE AddEnable
    BY <1>8, <1>a DEF AddEnable
  <1>9. CASE \E n \in Nodes : SoftRead(n)
    BY <1>9, <1>b, BeginType DEF SoftRead
  <1>10. CASE \E n \in Nodes : HardRead(n)
    BY <1>10, <1>b, BeginType DEF HardRead
  <1>11. CASE \E n \in Nodes : AddInsert(n)
    BY <1>11, <1>b, BeginType DEF AddInsert
  <1> QED
    BY <1>1, <1>2, <1>3, <1>4, <1>5, <1>6, <1>7, <1>8, <1>9,
       <1>10, <1>11 DEF Command

LEMMA CommandType ==
    ASSUME TypeOK, Command
    PROVE  TypeOK'
  <1>1. /\ status' \in [Tasks -> {"TO_DO", "RUNNING", "DONE"}]
        /\ \A t \in Tasks : status'[t] = "RUNNING" => status[t] = "RUNNING"
    BY CommandFrame DEF TypeOK, ConnectionTypeOK
  <1>2. ConnectionTypeOK'
    BY <1>1, CommandFrame, CommandRows DEF TypeOK, ConnectionTypeOK
  <1> QED
    BY <1>2, CommandCli DEF TypeOK

LEMMA StepType ==
    ASSUME TypeOK, [Next]_vars
    PROVE  TypeOK'
  <1>1. CASE Command
    BY <1>1, CommandType
  <1>2. CASE ConnectionNext /\ UNCHANGED cliVars
    BY <1>2, DaemonType DEF TypeOK
  <1>3. CASE UNCHANGED vars
    BY <1>3 DEF TypeOK, ConnectionTypeOK
  <1> QED
    BY <1>1, <1>2, <1>3 DEF Next

-----------------------------------------------------------------------------
(* Set-up hosts. *)

\* What keeps ReadyInv: no row becomes enabled, no claim is opened, no task
\* RUNNING on a new node, and the command stays where it is or leaves.
LEMMA ReadyFrame ==
    ASSUME ReadyInv,
           ready \subseteq ready',
           Enabled' \subseteq Enabled,
           BusyNodeIds' \subseteq BusyNodeIds,
           \A n \in Nodes : claim'[n] # NoTask => claim[n] # NoTask,
           cli'.next = "enable" => cli'.node \in ready'
    PROVE  ReadyInv'
  BY DEF ReadyInv, ReadyBeforeUse

LEMMA ReadyDaemon ==
    ASSUME TypeOK, ReadyInv, ConnectionNext, UNCHANGED cliVars
    PROVE  ReadyInv'
  <1> USE DEF TypeOK, ConnectionTypeOK
  <1>1. CASE \E n \in Nodes : ConnectStep(n)
    BY <1>1, ReadyFrame
    DEF ReadyInv, Enabled, BusyNodeIds, Running, ConnectStep, PutPending, Open, Connected,
        ConnectFails, AbandonDisable, AbandonDelete, AbandonDeleteFails, AbandonRemove,
        Disable
  <1>2. CASE \E n \in Nodes : MonitorFrees(n) \/ StartMonitor(n)
    BY <1>2, ReadyFrame
    DEF ReadyInv, Enabled, BusyNodeIds, Running, MonitorFrees, StartMonitor, EndClaim
  <1>3. CASE \E n \in Nodes : Commit(n)
    BY <1>3
    DEF ReadyInv, ReadyBeforeUse, Enabled, BusyNodeIds, Running, Commit, Uncommitted
  <1>4. CASE \E n \in Nodes : ClaimFails(n)
    BY <1>4, ReadyFrame
    DEF ReadyInv, Enabled, BusyNodeIds, Running, ClaimFails, EndClaim
  <1>5. CASE \E t \in Tasks : TaskStep(t)
    BY <1>5, ReadyFrame
    DEF ReadyInv, Enabled, BusyNodeIds, Running, TaskStep, StartOccupancy,
        CheckStarts, BeginConsume, Finalise, ConsumeFails, AbandonTask
  <1>6. CASE \E n \in Nodes : TeardownStep(n)
    BY <1>6, ReadyFrame
    DEF ReadyInv, Enabled, BusyNodeIds, Running, TeardownStep, SkipBusy, Disconnect,
        DeleteVm, DeleteVmFails, RemoveRow, Disable
  <1>7. CASE \E n \in Nodes : GraceOver(n) \/ ConnectionDies(n) \/ DisableIdle(n)
    BY <1>7, ReadyFrame
    DEF ReadyInv, Enabled, BusyNodeIds, Running, GraceOver, ConnectionDies, DisableIdle,
        Disable
  <1>8. CASE ConnectProduce \/ CycleStarts \/ CollectDisabled
    BY <1>8, ReadyFrame
    DEF ReadyInv, Enabled, BusyNodeIds, Running, ConnectProduce, CycleStarts,
        CollectDisabled
  <1>9. CASE \E t \in Tasks : ProcessExits(t)
    BY <1>9, ReadyFrame
    DEF ReadyInv, Enabled, BusyNodeIds, Running, ProcessExits
  <1>10. CASE \E t \in Tasks, n \in Nodes : Claim(t, n)
    BY <1>10
    DEF ReadyInv, ReadyBeforeUse, Enabled, BusyNodeIds, Running, Claim
  <1>11. CASE Restart
    BY <1>11, ReadyFrame
    DEF ReadyInv, Enabled, BusyNodeIds, Running, Restart
  <1>12. CASE \E t \in Tasks : StartOccupancyLate(t) \/ SkipConsumed(t)
    BY <1>12, ReadyFrame
    DEF ReadyInv, Enabled, BusyNodeIds, Running, StartOccupancyLate, CheckStarts,
        SkipConsumed
  <1> QED
    BY <1>1, <1>2, <1>3, <1>4, <1>5, <1>6, <1>7, <1>8, <1>9, <1>10, <1>11, <1>12
    DEF ConnectionNext, SessionStep

LEMMA BeginNext ==
    ASSUME NEW s, NEW n, NEW ts, Begin(s, n, ts)
    PROVE  cli'.next = s /\ UNCHANGED ready
  BY DEF Begin

LEMMA ReadyCommand ==
    ASSUME TypeOK, ReadyInv, Command
    PROVE  ReadyInv'
  <1>1. /\ BusyNodeIds' \subseteq BusyNodeIds
        /\ \A n \in Nodes : claim'[n] # NoTask => claim[n] # NoTask
    BY CommandFrame DEF TypeOK, ConnectionTypeOK, BusyNodeIds, Running
  <1> USE DEF TypeOK, ConnectionTypeOK, ReadyInv, Enabled, Ends, Goes, NoCommand
  <1>2. CASE SoftDisable
    <2>1. UNCHANGED row \/ \E m : row' = [row EXCEPT ![m] = "disabled"]
      BY <1>2 DEF SoftDisable, Disable
    <2>3. UNCHANGED ready /\ row \in [Nodes -> {"absent", "disabled", "enabled"}]
      BY <1>2 DEF SoftDisable
    <2>4. Enabled' \subseteq Enabled
      BY ONLY <2>1, <2>3 DEF Enabled
    <2>2. cli'.next # "enable"
      BY <1>2 DEF SoftDisable, Disable
    <2> QED
      BY <1>1, <2>2, <2>3, <2>4, ReadyFrame
  <1>3. CASE SoftRemove
    <2>1. UNCHANGED row \/ \E m : row' = [row EXCEPT ![m] = "absent"]
      BY <1>3 DEF SoftRemove
    <2>3. UNCHANGED ready /\ row \in [Nodes -> {"absent", "disabled", "enabled"}]
      BY <1>3 DEF SoftRemove
    <2>4. Enabled' \subseteq Enabled
      BY ONLY <2>1, <2>3 DEF Enabled
    <2>2. cli'.next # "enable"
      BY <1>3 DEF SoftRemove
    <2> QED
      BY <1>1, <2>2, <2>3, <2>4, ReadyFrame
  <1>4. CASE HardRemove
    <2>1. row' \in {row, [row EXCEPT ![cli.node] = "absent"]}
      BY <1>4 DEF HardRemove
    <2>2. UNCHANGED ready /\ cli'.next # "enable"
      BY <1>4 DEF HardRemove
    <2>3. row \in [Nodes -> {"absent", "disabled", "enabled"}]
      OBVIOUS
    <2>4. Enabled' \subseteq Enabled
      BY ONLY <2>1, <2>3 DEF Enabled
    <2> QED
      BY <1>1, <2>2, <2>4, ReadyFrame
  <1>5. CASE AddConnected
    BY <1>1, <1>5, ReadyFrame DEF AddConnected
  <1>6. CASE AddConnectFails
    BY <1>1, <1>6, ReadyFrame DEF AddConnectFails
  <1>7. CASE AddSetup
    BY <1>1, <1>7, ReadyFrame DEF AddSetup
  <1>8. CASE AddStops
    BY <1>1, <1>8, ReadyFrame DEF AddStops
  <1>9. CASE AddEnable
    BY <1>1, <1>9, CommandFrame DEF AddEnable, ReadyBeforeUse
  <1>10. CASE \E n \in Nodes : SoftRead(n)
    <2>1. PICK n \in Nodes : SoftRead(n)
      BY <1>10
    <2>2. cli'.next # "enable" /\ UNCHANGED ready
      BY ONLY <2>1 DEF SoftRead, Begin
    <2>3. UNCHANGED row
      BY ONLY <2>1 DEF SoftRead, connectionVars, database
    <2> QED
      BY <1>1, <2>2, <2>3, ReadyFrame
  <1>11. CASE \E n \in Nodes : HardRead(n)
    <2>1. PICK n \in Nodes : HardRead(n)
      BY <1>11
    <2>2. cli'.next # "enable" /\ UNCHANGED ready
      BY ONLY <2>1 DEF HardRead, Begin
    <2>3. UNCHANGED row
      BY ONLY <2>1 DEF HardRead, connectionVars, database
    <2> QED
      BY <1>1, <2>2, <2>3, ReadyFrame
  <1>12. CASE \E n \in Nodes : AddInsert(n)
    BY <1>1, <1>12, BeginNext, ReadyFrame DEF AddInsert
  <1> QED
    BY <1>2, <1>3, <1>4, <1>5, <1>6, <1>7, <1>8, <1>9, <1>10, <1>11, <1>12 DEF Command

-----------------------------------------------------------------------------
(* Static nodes. *)

LEMMA StaticDaemon ==
    ASSUME TypeOK, StaticInv, ConnectionNext
    PROVE  StaticInv'
  <1> USE DEF TypeOK, ConnectionTypeOK, StaticInv
  <1>1. CASE \E n \in Nodes : ConnectStep(n)
    BY <1>1
    DEF ConnectStep, PutPending, Open, Connected, ConnectFails, Retries, Graced,
        AbandonDisable, AbandonDelete, AbandonDeleteFails, AbandonRemove, AbandonEnds
  <1>2. CASE \E n \in Nodes : SessionStep(n)
    BY <1>2
    DEF SessionStep, MonitorFrees, Commit, StartMonitor, ClaimFails
  <1>3. CASE \E t \in Tasks : TaskStep(t)
    BY <1>3
    DEF TaskStep, StartOccupancy, CheckStarts, BeginConsume, Finalise, ConsumeFails,
        AbandonTask
  <1>4. CASE \E n \in Nodes : TeardownStep(n)
    BY <1>4
    DEF TeardownStep, SkipBusy, Disconnect, DeleteVm, DeleteVmFails, RemoveRow
  <1>5. CASE \E n \in Nodes : GraceOver(n) \/ ConnectionDies(n) \/ DisableIdle(n)
    BY <1>5
    DEF GraceOver, ConnectionDies, DisableIdle, NoCycle
  <1>6. CASE ConnectProduce
    BY <1>6
    DEF ConnectProduce
  <1>7. CASE CycleStarts
    BY <1>7
    DEF CycleStarts
  <1>8. CASE CollectDisabled
    BY <1>8
    DEF CollectDisabled, NoCycle
  <1>9. CASE \E t \in Tasks : ProcessExits(t)
    BY <1>9
    DEF ProcessExits
  <1>10. CASE \E t \in Tasks, n \in Nodes : Claim(t, n)
    BY <1>10
    DEF Claim
  <1>11. CASE Restart
    BY <1>11
    DEF Restart, NoCycle
  <1>12. CASE \E t \in Tasks : StartOccupancyLate(t) \/ SkipConsumed(t)
    BY <1>12
    DEF StartOccupancyLate, CheckStarts, SkipConsumed
  <1> QED
    BY <1>1, <1>2, <1>3, <1>4, <1>5, <1>6, <1>7, <1>8, <1>9, <1>10, <1>11, <1>12
    DEF ConnectionNext

\* Who may take an enabled static node out of use.
LEMMA StaticStep ==
    ASSUME TypeOK, StaticInv, [Next]_vars, NEW n \in Nodes \ CloudNodes,
           row[n] = "enabled", row'[n] # "enabled"
    PROVE  cli.node = n \/ teardown[n] = "closed"
  <1> USE DEF TypeOK, ConnectionTypeOK, StaticInv, Disable
  <1>1. CASE \E m \in Nodes : AbandonDisable(m) \/ AbandonRemove(m)
    BY <1>1 DEF AbandonDisable, AbandonRemove, Retries, Graced
  <1>2. CASE \E m \in Nodes : DisableIdle(m)
    BY <1>2 DEF DisableIdle
  <1>3. CASE \E m \in Nodes : DeleteVm(m) \/ DeleteVmFails(m)
    BY <1>3 DEF DeleteVm, DeleteVmFails
  <1>4. CASE \E m \in Nodes : RemoveRow(m)
    BY <1>4 DEF RemoveRow
  <1>5. CASE SoftDisable
    <2>1. row' \in {row, [row EXCEPT ![cli.node] = "disabled"]}
      BY <1>5 DEF SoftDisable
    <2> QED
      BY <2>1
  <1>6. CASE SoftRemove
    <2>1. row' \in {row, [row EXCEPT ![cli.node] = "absent"]}
      BY <1>6 DEF SoftRemove
    <2> QED
      BY <2>1
  <1>7. CASE HardRemove
    <2>1. row' \in {row, [row EXCEPT ![cli.node] = "absent"]}
      BY <1>7 DEF HardRemove
    <2> QED
      BY <2>1
  <1>8. CASE AddConnectFails
    BY <1>8 DEF AddConnectFails
  <1>9. CASE AddEnable
    BY <1>9 DEF AddEnable
  <1>10. CASE \E m \in Nodes : AddInsert(m)
    BY <1>10 DEF AddInsert
  <1>11. CASE UNCHANGED row
    BY <1>11
  <1> QED
    BY <1>1, <1>2, <1>3, <1>4, <1>5, <1>6, <1>7, <1>8, <1>9, <1>10, <1>11
    DEF Next, Command, ConnectionNext, ConnectStep, SessionStep, TaskStep, TeardownStep,
        ConnectProduce, CycleStarts, CollectDisabled, Restart, PutPending, Open, Connected,
        ConnectFails, AbandonDelete, AbandonDeleteFails, MonitorFrees, Commit,
        StartMonitor, ClaimFails, StartOccupancy, StartOccupancyLate, CheckStarts,
        SkipConsumed, BeginConsume, Finalise, ConsumeFails, AbandonTask, SkipBusy,
        Disconnect, GraceOver, ConnectionDies, ProcessExits, Claim, SoftRead, HardRead,
        AddConnected, AddSetup, AddStops

-----------------------------------------------------------------------------
(* The theorems. *)

LEMMA InitInv == Init => Inv
  <1> SUFFICES ASSUME Init PROVE Inv
    OBVIOUS
  <1> USE NodesAssumption, LimitsAssumption, CommandsAssumption
  <1>1. TypeOK
    BY DEF Init, ConnectionInit, TypeOK, ConnectionTypeOK, NoCommand, Steps, NoCycle, Enabled
  <1>2. ReadyInv
    BY DEF Init, ConnectionInit, ReadyInv, ReadyBeforeUse, NoCommand, BusyNodeIds, Running
  <1>3. StaticInv
    BY DEF Init, ConnectionInit, StaticInv, NoCycle
  <1> QED
    BY <1>1, <1>2, <1>3 DEF Inv

LEMMA StepInv == Inv /\ [Next]_vars => Inv'
  <1> SUFFICES ASSUME Inv, [Next]_vars PROVE Inv'
    OBVIOUS
  <1>1. TypeOK'
    BY StepType DEF Inv
  <1>2. ReadyInv'
    <2>1. CASE Command
      BY <2>1, ReadyCommand DEF Inv
    <2>2. CASE ConnectionNext /\ UNCHANGED cliVars
      BY <2>2, ReadyDaemon DEF Inv
    <2>3. CASE UNCHANGED vars
      BY <2>3 DEF Inv, ReadyInv, ReadyBeforeUse, Enabled, BusyNodeIds, Running
    <2> QED
      BY <2>1, <2>2, <2>3 DEF Next
  <1>3. StaticInv'
    <2>1. CASE Command
      BY <2>1, CommandFrame DEF Inv, StaticInv
    <2>2. CASE ConnectionNext
      BY <2>2, StaticDaemon DEF Inv
    <2>3. CASE UNCHANGED vars
      BY <2>3 DEF Inv, StaticInv
    <2> QED
      BY <2>1, <2>2, <2>3 DEF Next
  <1> QED
    BY <1>1, <1>2, <1>3 DEF Inv

\* Types of every variable, whatever fails and whatever the operator does.
THEOREM TypeCorrect == Spec => []TypeOK
  <1>1. Inv => TypeOK
    BY DEF Inv
  <1> QED
    BY InitInv, StepInv, <1>1, PTL DEF Spec

\* No task is started on a host yasetnode has not set up, although the row is
\* there before (_add_node, _find_free_machines).
THEOREM HostsAreReady == Spec => []ReadyBeforeUse
  <1>1. Inv => ReadyBeforeUse
    BY DEF Inv, ReadyInv
  <1> QED
    BY InitInv, StepInv, <1>1, PTL DEF Spec

\* What the daemon decides of an unreachable or idle node (BLOCK_static_node_retry,
\* deallocate_nodes) leaves an enabled static node in use.  Left are the commands
\* and a teardown already under way, which was collected while the row was
\* disabled: that one may also hit a node which yasetnode has enabled since.
THEOREM StaticNodesKept == Spec => StaticKept
  <1>1. Inv /\ [Next]_vars =>
            [\A n \in Nodes \ CloudNodes :
                row[n] = "enabled" /\ row'[n] # "enabled"
                => cli.node = n \/ teardown[n] = "closed"]_vars
    BY StaticStep DEF Inv
  <1> QED
    BY InitInv, StepInv, <1>1, PTL DEF Spec, StaticKept

-----------------------------------------------------------------------------
(* Outputs are taken after the exit, as long as the connect queue has room *)
(* for every node: a producer that waits for room puts what it read, and a *)
(* node connected meanwhile gets a second session over the first.  Nodes   *)
(* that a finished task's message started to check are excepted: of those  *)
(* the invariant says nothing.                                             *)

RoomAssumption == IsFiniteSet(Nodes) /\ Cardinality(Nodes) <= QueueSize

\* A node that is being connected has no session, and the session of a claim is
\* there until it is replaced.
ConnectInv ==
    /\ pending = {}
    /\ \A n \in Nodes : connect[n] # "idle" => session[n] = "none"
    /\ \A n \in Nodes : claim[n] # NoTask /\ n \notin replaced => session[n] # "none"

\* A task is claimed once, before it runs, and consumed after it was started.
PhaseInv ==
    /\ \A n \in Nodes : claim[n] # NoTask =>
          Uncommitted(n) \/ at[claim[n]] = n
    /\ \A m, n \in Nodes : claim[m] # NoTask /\ claim[m] = claim[n] => m = n
    /\ \A t \in consuming : status[t] # "TO_DO"

\* Until it is committed a claim has the node to itself, and a BUSY session that
\* nothing frees.
OpenInv ==
    \A n \in Nodes : Uncommitted(n) =>
        /\ RunningOn(n) = {}
        /\ n \notin stale =>
              session[n] = "BUSY" /\ n \notin monitored /\ n \notin replaced

\* A monitor ends when it frees the session.
MonitorInv == \A n \in monitored \ stale : session[n] = "BUSY"

\* The session of a node that was checked stays BUSY while its task runs.
CheckedInv ==
    \A t \in procs :
        status[t] = "RUNNING" /\ at[t] \in started \ stale => session[at[t]] = "BUSY"

ExitInv ==
    /\ TypeOK /\ ConnectInv /\ PhaseInv /\ OpenInv /\ MonitorInv /\ CheckedInv
    /\ ConsumedAfterExit

LEMMA RoomForAll ==
    ASSUME RoomAssumption, TypeOK, pending = {}, [Next]_vars
    PROVE  pending' = {}
  <1>1. CASE ConnectProduce
    <2> DEFINE idle == {n \in Unconnected : connect[n] = "idle"}
    <2>1. idle \subseteq Nodes /\ Queued \subseteq Nodes /\ idle \cap Queued = {}
      BY DEF Unconnected, Enabled, Disabled, Queued
    <2>2. IsFiniteSet(idle) /\ IsFiniteSet(Queued)
      BY <2>1, FS_Subset DEF RoomAssumption
    <2>3. /\ Cardinality(idle) \in Nat /\ Cardinality(Queued) \in Nat
          /\ Cardinality(Nodes) \in Nat /\ QueueSize \in Nat
      BY <2>2, FS_CardinalityType, LimitsAssumption DEF RoomAssumption
    <2>4. Cardinality(idle \cup Queued) <= Cardinality(Nodes)
      BY <2>1, FS_Subset DEF RoomAssumption
    <2>5. Cardinality(idle \cup Queued) = Cardinality(idle) + Cardinality(Queued)
      <3>1. Cardinality(idle \cap Queued) = 0
        BY <2>1, FS_EmptySet
      <3> HIDE DEF idle
      <3>2. Cardinality(idle \cup Queued)
            = Cardinality(idle) + Cardinality(Queued) - Cardinality(idle \cap Queued)
        BY <2>2, FS_Union
      <3> QED
        BY <2>3, <3>1, <3>2
    <2>6. Cardinality(idle) <= Room
      <3> HIDE DEF idle
      <3> QED
        BY <2>3, <2>4, <2>5 DEF RoomAssumption, Room
    <2> QED
      BY <1>1, <2>6 DEF ConnectProduce
  <1>2. CASE \E n \in Nodes : ConnectStep(n)
    BY <1>2
    DEF ConnectStep, PutPending, Open, Connected, ConnectFails, AbandonDisable,
        AbandonDelete, AbandonDeleteFails, AbandonRemove, AbandonEnds
  <1>3. CASE Command
    BY <1>3, CommandFrame
  <1>4. CASE \E n \in Nodes : SessionStep(n)
    BY <1>4 DEF SessionStep, MonitorFrees, Commit, StartMonitor, ClaimFails
  <1>5. CASE \E n \in Nodes : TeardownStep(n)
    BY <1>5 DEF TeardownStep, SkipBusy, Disconnect, DeleteVm, DeleteVmFails, RemoveRow
  <1>6. CASE \E t \in Tasks : TaskStep(t)
    BY <1>6 DEF TaskStep, StartOccupancy, CheckStarts, BeginConsume, Finalise, ConsumeFails,
                AbandonTask
  <1>7. CASE \E t \in Tasks : StartOccupancyLate(t) \/ SkipConsumed(t)
    BY <1>7 DEF StartOccupancyLate, CheckStarts, SkipConsumed
  <1>8. CASE UNCHANGED vars
    BY <1>8
  <1> QED
    BY <1>1, <1>2, <1>3, <1>4, <1>5, <1>6, <1>7, <1>8
    DEF Next, ConnectionNext, CycleStarts, CollectDisabled, Restart, GraceOver,
        ConnectionDies, DisableIdle, ProcessExits, Claim

\* What starts no task, frees no session, installs no monitor and begins no
\* download.
LEMMA ExitFrame ==
    ASSUME ExitInv, TypeOK', pending' = {},
           \A n \in Nodes : connect'[n] # "idle" => connect[n] # "idle" \/ session[n] = "none",
           \A n \in Nodes : session[n] = "none" <=> session'[n] = "none",
           \A n \in Nodes : session[n] = "BUSY" => session'[n] = "BUSY",
           UNCHANGED <<at, claim, replaced, stale>>, monitored' \subseteq monitored,
           \A t \in Tasks : /\ status'[t] = "RUNNING" => status[t] = "RUNNING"
                            /\ status'[t] = "TO_DO" <=> status[t] = "TO_DO",
           procs' \subseteq procs, started' \subseteq started, consuming' \subseteq consuming
    PROVE  ExitInv'
  <1> USE DEF ExitInv, TypeOK, ConnectionTypeOK
  <1>0. \A n \in Nodes : Uncommitted(n)' <=> Uncommitted(n)
    BY DEF Uncommitted
  <1>1. ConnectInv'
    BY DEF ConnectInv
  <1>2. PhaseInv'
    BY <1>0 DEF PhaseInv
  <1>3. OpenInv'
    BY <1>0 DEF OpenInv, RunningOn, Running
  <1>4. MonitorInv'
    BY DEF MonitorInv
  <1>5. CheckedInv'
    BY DEF CheckedInv
  <1>6. ConsumedAfterExit'
    BY DEF ConsumedAfterExit
  <1> QED
    BY <1>1, <1>2, <1>3, <1>4, <1>5, <1>6

\* Sessions that come and go: a claim that is not committed keeps its own.
LEMMA ExitSessions ==
    ASSUME ExitInv, TypeOK', pending' = {}, NEW n \in Nodes, Connected(n) \/ Disconnect(n)
    PROVE  ExitInv'
  <1> USE DEF ExitInv, TypeOK, ConnectionTypeOK
  <1>1. /\ session[n] # "BUSY"
        /\ session' \in {[session EXCEPT ![n] = "FREE"], [session EXCEPT ![n] = "none"]}
        /\ monitored' = monitored \ {n}
        /\ replaced' = IF claim[n] = NoTask THEN replaced ELSE replaced \cup {n}
        /\ UNCHANGED <<status, at, procs, claim, started, consuming, stale>>
    BY DEF Connected, Disconnect, ConnectInv
  <1>0. \A m \in Nodes : Uncommitted(m)' <=> Uncommitted(m)
    BY <1>1 DEF Uncommitted
  <1>2. ConnectInv'
    BY <1>1 DEF Connected, Disconnect, ConnectInv
  <1>3. PhaseInv'
    BY <1>0, <1>1 DEF PhaseInv
  <1>4. OpenInv'
    BY <1>0, <1>1 DEF OpenInv, RunningOn, Running
  <1>5. MonitorInv'
    BY <1>1 DEF MonitorInv
  <1>6. CheckedInv'
    BY <1>1 DEF CheckedInv
  <1>7. ConsumedAfterExit'
    BY <1>1 DEF ConsumedAfterExit
  <1> QED
    BY <1>2, <1>3, <1>4, <1>5, <1>6, <1>7

\* Claims.
LEMMA ExitClaims ==
    ASSUME ExitInv, TypeOK', pending' = {}, NEW n \in Nodes
    PROVE  /\ \A t \in Tasks : Claim(t, n) => ExitInv'
           /\ Commit(n) => ExitInv'
           /\ StartMonitor(n) => ExitInv'
           /\ ClaimFails(n) => ExitInv'
  <1> USE DEF ExitInv, TypeOK, ConnectionTypeOK
  <1>1. ASSUME NEW t \in Tasks, Claim(t, n) PROVE ExitInv'
    <2>1. /\ status[t] = "TO_DO" /\ session[n] = "FREE" /\ claim[n] = NoTask
          /\ n \notin replaced /\ RunningOn(n) = {} /\ \A m \in Nodes : claim[m] # t
          /\ claim' = [claim EXCEPT ![n] = t]
          /\ session' = [session EXCEPT ![n] = "BUSY"]
          /\ UNCHANGED <<status, at, procs, monitored, connect, replaced, started,
                         consuming, stale>>
      BY <1>1 DEF Claim
    <2>2. \A m \in Nodes : Uncommitted(m)' <=> m = n \/ Uncommitted(m)
      BY <2>1, NodesAssumption DEF Uncommitted
    <2>3. ConnectInv'
      BY <2>1 DEF ConnectInv
    <2>4. PhaseInv'
      BY <2>1, <2>2, NodesAssumption DEF PhaseInv
    <2>5. OpenInv'
      BY <2>1, <2>2 DEF OpenInv, MonitorInv, RunningOn, Running
    <2>6. MonitorInv' /\ CheckedInv' /\ ConsumedAfterExit'
      BY <2>1 DEF MonitorInv, CheckedInv, ConsumedAfterExit
    <2> QED
      BY <2>3, <2>4, <2>5, <2>6
  <1>2. ASSUME Commit(n) PROVE ExitInv'
    <2> DEFINE t == claim[n]
    <2>1. /\ t \in Tasks /\ status[t] = "TO_DO" /\ t \notin consuming
          /\ \A m \in Nodes : claim[m] = t => m = n
          /\ n \notin stale => session[n] = "BUSY"
          /\ status' = [status EXCEPT ![t] = "RUNNING"]
          /\ at' = [at EXCEPT ![t] = n]
          /\ procs' = procs \cup {t}
          /\ UNCHANGED <<session, monitored, connect, claim, replaced, started,
                         consuming, stale>>
      BY <1>2 DEF Commit, Uncommitted, PhaseInv, OpenInv
    <2> HIDE DEF t
    <2>2. \A m \in Nodes : Uncommitted(m)' <=> m # n /\ Uncommitted(m)
      BY <2>1, NodesAssumption DEF Uncommitted, t
    <2>3. ConnectInv'
      BY <2>1 DEF ConnectInv
    <2>4. PhaseInv'
      BY <2>1, <2>2 DEF PhaseInv, t
    <2>5. \A m \in Nodes \ {n} : RunningOn(m)' = RunningOn(m)
      BY <2>1 DEF RunningOn, Running
    <2>6. OpenInv'
      BY <2>1, <2>2, <2>5 DEF OpenInv
    <2>7. MonitorInv'
      BY <2>1 DEF MonitorInv
    <2>8. CheckedInv'
      BY <2>1 DEF CheckedInv
    <2>9. ConsumedAfterExit'
      BY <2>1 DEF ConsumedAfterExit
    <2> QED
      BY <2>3, <2>4, <2>6, <2>7, <2>8, <2>9
  <1>3. ASSUME StartMonitor(n) PROVE ExitInv'
    <2>1. /\ ~Uncommitted(n) /\ claim[n] # NoTask
          /\ claim' = [claim EXCEPT ![n] = NoTask] /\ replaced' = replaced \ {n}
          /\ \/ UNCHANGED <<session, monitored>>
             \/ /\ session[n] # "none"
                /\ session' = [session EXCEPT ![n] = "BUSY"]
                /\ monitored' = monitored \cup {n}
          /\ UNCHANGED <<status, at, procs, connect, started, consuming, stale>>
      BY <1>3 DEF StartMonitor, EndClaim, ConnectInv
    <2>2. \A m \in Nodes : Uncommitted(m)' <=> Uncommitted(m)
      BY <2>1 DEF Uncommitted
    <2>3. ConnectInv'
      BY <2>1 DEF ConnectInv
    <2>4. PhaseInv'
      BY <2>1, <2>2 DEF PhaseInv
    <2>5. OpenInv'
      BY <2>1, <2>2 DEF OpenInv, RunningOn, Running
    <2>6. MonitorInv' /\ CheckedInv' /\ ConsumedAfterExit'
      BY <2>1 DEF MonitorInv, CheckedInv, ConsumedAfterExit
    <2> QED
      BY <2>3, <2>4, <2>5, <2>6
  <1>4. ASSUME ClaimFails(n) PROVE ExitInv'
    <2>1. /\ Uncommitted(n) /\ RunningOn(n) = {} /\ claim[n] # NoTask
          /\ n \in monitored => n \in stale
          /\ claim' = [claim EXCEPT ![n] = NoTask] /\ replaced' = replaced \ {n}
          /\ \/ UNCHANGED session
             \/ session[n] # "none" /\ session' = [session EXCEPT ![n] = "FREE"]
          /\ UNCHANGED <<status, at, procs, monitored, connect, started, consuming, stale>>
      BY <1>4 DEF ClaimFails, EndClaim, ConnectInv, OpenInv, Uncommitted
    <2>2. \A m \in Nodes : Uncommitted(m)' <=> m # n /\ Uncommitted(m)
      BY <2>1 DEF Uncommitted
    <2>3. ConnectInv'
      BY <2>1 DEF ConnectInv
    <2>4. PhaseInv'
      BY <2>1, <2>2 DEF PhaseInv
    <2>5. OpenInv'
      BY <2>1, <2>2 DEF OpenInv, RunningOn, Running
    <2>6. MonitorInv'
      BY <2>1 DEF MonitorInv
    <2>7. CheckedInv'
      BY <2>1 DEF CheckedInv, RunningOn, Running
    <2>8. ConsumedAfterExit'
      BY <2>1 DEF ConsumedAfterExit
    <2> QED
      BY <2>3, <2>4, <2>5, <2>6, <2>7, <2>8
  <1> QED
    BY <1>1, <1>2, <1>3, <1>4

\* Checks start: for a RUNNING task, whose node has no uncommitted claim, or for
\* a finished one, which makes the node an exception.
LEMMA ExitChecks ==
    ASSUME ExitInv, TypeOK', pending' = {}, NEW t \in Tasks,
           StartOccupancy(t) \/ StartOccupancyLate(t)
    PROVE  ExitInv'
  <1> USE DEF ExitInv, TypeOK, ConnectionTypeOK
  <1> DEFINE n == at[t]
  <1>1. /\ n \in Nodes /\ session[n] # "none"
        /\ session' = [session EXCEPT ![n] = "BUSY"]
        /\ monitored' = monitored \cup {n}
        /\ started' = started \cup {n}
        /\ stale \subseteq stale'
        /\ n \notin stale' => ~Uncommitted(n)
        /\ UNCHANGED <<status, at, procs, connect, claim, replaced, consuming>>
    <2>1. CASE StartOccupancy(t)
      BY <2>1 DEF StartOccupancy, CheckStarts, Registered, OpenInv, RunningOn
    <2>2. CASE StartOccupancyLate(t)
      BY <2>2 DEF StartOccupancyLate, CheckStarts, Registered
    <2> QED
      BY <2>1, <2>2
  <1> HIDE DEF n
  <1>2. \A m \in Nodes : Uncommitted(m)' <=> Uncommitted(m)
    BY <1>1 DEF Uncommitted
  <1>3. ConnectInv'
    BY <1>1 DEF ConnectInv
  <1>4. PhaseInv'
    BY <1>1, <1>2 DEF PhaseInv
  <1>5. OpenInv'
    BY <1>1, <1>2 DEF OpenInv, RunningOn, Running
  <1>6. MonitorInv'
    BY <1>1 DEF MonitorInv
  <1>7. CheckedInv'
    BY <1>1 DEF CheckedInv
  <1>8. ConsumedAfterExit'
    BY <1>1 DEF ConsumedAfterExit
  <1> QED
    BY <1>3, <1>4, <1>5, <1>6, <1>7, <1>8

\* A session is freed on a quiet machine, a download begins on a FREE one, a
\* restart forgets both.
LEMMA ExitSteps ==
    ASSUME ExitInv, TypeOK', pending' = {},
           \/ \E n \in Nodes : MonitorFrees(n)
           \/ \E t \in Tasks : BeginConsume(t)
           \/ Restart
    PROVE  ExitInv'
  <1> USE DEF ExitInv, TypeOK, ConnectionTypeOK
  <1>1. ASSUME NEW n \in Nodes, MonitorFrees(n) PROVE ExitInv'
    <2>1. /\ n \in monitored /\ IsQuiet(n) /\ session[n] # "none"
          /\ session' = [session EXCEPT ![n] = "FREE"]
          /\ monitored' = monitored \ {n}
          /\ UNCHANGED <<status, at, procs, connect, claim, replaced, started,
                         consuming, stale>>
      BY <1>1 DEF MonitorFrees
    <2>2. \A m \in Nodes : Uncommitted(m)' <=> Uncommitted(m)
      BY <2>1 DEF Uncommitted
    <2>3. ConnectInv'
      BY <2>1 DEF ConnectInv
    <2>4. PhaseInv' /\ MonitorInv' /\ ConsumedAfterExit'
      BY <2>1, <2>2 DEF PhaseInv, MonitorInv, ConsumedAfterExit
    <2>5. OpenInv'
      BY <2>1, <2>2 DEF OpenInv, RunningOn, Running
    <2>6. CheckedInv'
      BY <2>1 DEF CheckedInv, IsQuiet
    <2> QED
      BY <2>3, <2>4, <2>5, <2>6
  <1>2. ASSUME NEW t \in Tasks, BeginConsume(t) PROVE ExitInv'
    <2>1. /\ status[t] # "TO_DO"
          /\ t \in procs => at[t] \in stale
          /\ consuming' = consuming \cup {t}
          /\ UNCHANGED <<status, at, procs, session, monitored, connect, claim, replaced,
                         started, stale>>
      BY <1>2 DEF BeginConsume, CheckedInv, Running
    <2>2. \A m \in Nodes : Uncommitted(m)' <=> Uncommitted(m)
      BY <2>1 DEF Uncommitted
    <2>3. ConnectInv' /\ MonitorInv' /\ CheckedInv'
      BY <2>1 DEF ConnectInv, MonitorInv, CheckedInv
    <2>4. PhaseInv'
      BY <2>1, <2>2 DEF PhaseInv
    <2>5. OpenInv'
      BY <2>1, <2>2 DEF OpenInv, RunningOn, Running
    <2>6. ConsumedAfterExit'
      BY <2>1 DEF ConsumedAfterExit
    <2> QED
      BY <2>3, <2>4, <2>5, <2>6
  <1>3. CASE Restart
    <2>1. \A m \in Nodes : ~Uncommitted(m)'
      BY <1>3 DEF Restart, Uncommitted
    <2> QED
      BY <1>3, <2>1
      DEF Restart, ConnectInv, PhaseInv, OpenInv, MonitorInv, CheckedInv, ConsumedAfterExit
  <1> QED
    BY <1>1, <1>2, <1>3

LEMMA InitExit == Init => ExitInv
  BY InitInv DEF Init, ConnectionInit, Inv, ExitInv, ConnectInv, PhaseInv, OpenInv, MonitorInv,
                 CheckedInv, ConsumedAfterExit, Uncommitted

LEMMA StepExit ==
    ASSUME RoomAssumption, ExitInv, [Next]_vars
    PROVE  ExitInv'
  <1>1. TypeOK' /\ pending' = {}
    BY StepType, RoomForAll DEF ExitInv, ConnectInv
  <1>2. CASE \E n \in Nodes : Connected(n) \/ Disconnect(n)
    BY <1>1, <1>2, ExitSessions
  <1>3. CASE ConnectProduce
    BY <1>1, <1>3, ExitFrame
    DEF ConnectProduce, Unconnected, Registered, Enabled, Disabled, ExitInv,
        TypeOK, ConnectionTypeOK
  <1>4. CASE \E n \in Nodes : ConnectStep(n) /\ ~Connected(n)
    BY <1>1, <1>4, ExitFrame
    DEF ConnectStep, PutPending, Open, ConnectFails, AbandonDisable, AbandonDelete,
        AbandonDeleteFails, AbandonRemove, AbandonEnds, ExitInv, ConnectInv,
        TypeOK, ConnectionTypeOK
  <1>5. CASE \E n \in Nodes : TeardownStep(n) /\ ~Disconnect(n)
    BY <1>1, <1>5, ExitFrame DEF TeardownStep, SkipBusy, DeleteVm, DeleteVmFails, RemoveRow
  <1>6. CASE \E t \in Tasks : Finalise(t) \/ ConsumeFails(t) \/ AbandonTask(t) \/ SkipConsumed(t)
    BY <1>1, <1>6, ExitFrame
    DEF Finalise, ConsumeFails, AbandonTask, SkipConsumed, Running, ExitInv, PhaseInv,
        TypeOK, ConnectionTypeOK
  <1>7. CASE \/ \E n \in Nodes : GraceOver(n) \/ ConnectionDies(n) \/ DisableIdle(n)
             \/ \E t \in Tasks : ProcessExits(t)
             \/ CycleStarts \/ CollectDisabled \/ UNCHANGED vars
    BY <1>1, <1>7, ExitFrame
    DEF GraceOver, ConnectionDies, DisableIdle, ProcessExits, CycleStarts, CollectDisabled
  <1>8. CASE Command
    <2>1. \A t \in Tasks : /\ status'[t] = "RUNNING" => status[t] = "RUNNING"
                           /\ status'[t] = "TO_DO" <=> status[t] = "TO_DO"
      BY <1>8, CommandFrame DEF RunningOn, Running
    <2> QED
      BY <1>1, <1>8, <2>1, CommandFrame, ExitFrame
  <1>9. CASE \E n \in Nodes : \/ Commit(n) \/ StartMonitor(n) \/ ClaimFails(n)
                              \/ \E t \in Tasks : Claim(t, n)
    BY <1>1, <1>9, ExitClaims
  <1>10. CASE \E t \in Tasks : StartOccupancy(t) \/ StartOccupancyLate(t)
    BY <1>1, <1>10, ExitChecks
  <1> QED
    BY <1>1, <1>2, <1>3, <1>4, <1>5, <1>6, <1>7, <1>8, <1>9, <1>10, ExitSteps
    DEF Next, ConnectionNext, TaskStep, SessionStep

\* Outputs are downloaded after the calculation has ended, through teardowns,
\* lost connections, restarts and commands, on every node but those for which
\* the message of a finished task started a check; if the connect queue has room
\* for every node (_task_consumer_consumer, _connect_machine_producer).
THEOREM OutputsTakenAfterExit ==
    ASSUME RoomAssumption
    PROVE  Spec => []ConsumedAfterExit
  <1>1. ExitInv => ConsumedAfterExit
    BY DEF ExitInv
  <1>2. ExitInv /\ [Next]_vars => ExitInv'
    BY StepExit
  <1> QED
    BY InitExit, <1>1, <1>2, PTL DEF Spec

=============================================================================
