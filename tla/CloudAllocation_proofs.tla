----------------------- MODULE CloudAllocation_proofs -----------------------
(***************************************************************************)
(* Safety of CloudAllocation for any tasks, providers, limits, failures    *)
(* and restarts.                                                           *)
(*                                                                         *)
(*   TypeCorrect           every variable keeps its type                   *)
(*   CapacityNotExceeded   the rows of a provider never exceed max_nodes   *)
(*   NoUnknownVm           no VM is left that nothing leads to             *)
(*   OneNodePerTask        no task has two live nodes                      *)
(*                                                                         *)
(* Capacity is a matter of who adds rows.  Only InsertTmp does, its caller *)
(* is alone between the count and the insert (OneInserting), and every     *)
(* other step may only shrink the set of counted rows.  For Persist this   *)
(* needs HeldInv: the row it enables is still the tmp row it inserted.     *)
(* One node per task is a matter of who discards tracker entries: only the *)
(* end of an allocation, whose node is not live any more, the start of the *)
(* task, and abandon_node, which has disabled the node (AbandonedNotLive). *)
(***************************************************************************)
EXTENDS CloudAllocation, FiniteSetTheorems, TLAPS

\* The groups of variables, to expand UNCHANGED.
USE DEF taskRows, nodeRows, clouds, allocator, teardown, environment

-----------------------------------------------------------------------------
(* Types. *)

LEMMA AllocateType ==
    ASSUME TypeOK, NEW t \in Tasks, AllocateStep(t)
    PROVE  TypeOK'
  <1> USE NodesAssumption, BoundsAssumption, ProvidersAssumption
      DEF TypeOK, Counted, Reserved, AllocStates
  <1>1. CASE Miss(t)
    BY <1>1 DEF Miss, Waiting
  <1>2. CASE BeginCloud(t)
    BY <1>2 DEF BeginCloud
  <1>3. CASE Deduped(t)
    BY <1>3 DEF Deduped
  <1>4. CASE Select(t)
    BY <1>4 DEF Select, Selectable
  <1>5. CASE SelectNone(t)
    BY <1>5 DEF SelectNone
  <1>6. CASE InsertTmp(t)
    BY <1>6 DEF InsertTmp, NextId
  <1>7. CASE Acquire(t)
    BY <1>7 DEF Acquire
  <1>8. CASE Create(t)
    BY <1>8 DEF Create
  <1>9. CASE Setup(t)
    BY <1>9 DEF Setup
  <1>10. CASE Undo(t)
    BY <1>10 DEF Undo
  <1>11. CASE Persist(t)
    BY <1>11 DEF Persist
  <1>12. CASE Unpersist(t)
    BY <1>12 DEF Unpersist
  <1>13. CASE Cleanup(t)
    BY <1>13 DEF Cleanup
  <1>14. CASE Final(t)
    BY <1>14 DEF Final
  <1> QED
    BY <1>1, <1>2, <1>3, <1>4, <1>5, <1>6, <1>7, <1>8, <1>9, <1>10, <1>11, <1>12, <1>13, <1>14 DEF AllocateStep

LEMMA FaultType ==
    ASSUME TypeOK, NEW t \in Tasks, AllocateFault(t)
    PROVE  TypeOK'
  <1> USE NodesAssumption, BoundsAssumption, ProvidersAssumption
      DEF TypeOK, Counted, Reserved, AllocStates
  <1>1. CASE StartFails(t)
    BY <1>1 DEF StartFails, Waiting, Fails, Mishap
  <1>2. CASE InsertFails(t)
    BY <1>2 DEF InsertFails, Fails, Mishap
  <1>3. CASE CreateFails(t)
    BY <1>3 DEF CreateFails, Fails, Mishap
  <1>4. CASE SetupFails(t)
    BY <1>4 DEF SetupFails, Fails, Mishap
  <1>5. CASE UndoFails(t)
    BY <1>5 DEF UndoFails, Fails, Mishap
  <1>6. CASE PersistFails(t)
    BY <1>6 DEF PersistFails, Fails, Mishap
  <1>7. CASE UnpersistFails(t)
    BY <1>7 DEF UnpersistFails, Fails, Mishap
  <1>8. CASE CleanupFails(t)
    BY <1>8 DEF CleanupFails, Fails, Mishap
  <1>9. CASE FinalFails(t)
    BY <1>9 DEF FinalFails, Fails, Mishap
  <1> QED
    BY <1>1, <1>2, <1>3, <1>4, <1>5, <1>6, <1>7, <1>8, <1>9 DEF AllocateFault

LEMMA AbandonType ==
    ASSUME TypeOK, NEW n \in Nodes, AbandonStep(n)
    PROVE  TypeOK'
  <1> USE NodesAssumption, BoundsAssumption, ProvidersAssumption
      DEF TypeOK, Counted, Reserved, AllocStates
  <1>1. CASE AbandonDisable(n)
    BY <1>1 DEF AbandonDisable
  <1>2. CASE AbandonDelete(n)
    BY <1>2 DEF AbandonDelete
  <1>3. CASE AbandonRemove(n)
    BY <1>3 DEF AbandonRemove, RemoveRow
  <1>4. CASE AbandonDiscard(n)
    BY <1>4 DEF AbandonDiscard
  <1> QED
    BY <1>1, <1>2, <1>3, <1>4 DEF AbandonStep

LEMMA ReapType ==
    ASSUME TypeOK, NEW n \in Nodes, ReapStep(n)
    PROVE  TypeOK'
  <1> USE NodesAssumption, BoundsAssumption, ProvidersAssumption
      DEF TypeOK, Counted, Reserved, AllocStates
  <1>1. CASE Reap(n)
    BY <1>1 DEF Reap
  <1>2. CASE ReapDisable(n)
    BY <1>2 DEF ReapDisable
  <1>3. CASE ReapDelete(n)
    BY <1>3 DEF ReapDelete
  <1>4. CASE ReapRemove(n)
    BY <1>4 DEF ReapRemove, RemoveRow
  <1> QED
    BY <1>1, <1>2, <1>3, <1>4 DEF ReapStep

LEMMA NodeFaultType ==
    ASSUME TypeOK, NEW n \in Nodes, NodeFault(n)
    PROVE  TypeOK'
  <1> USE NodesAssumption, BoundsAssumption, ProvidersAssumption
      DEF TypeOK, Counted, Reserved, AllocStates
  <1>1. CASE AbandonDeleteFails(n)
    BY <1>1 DEF AbandonDeleteFails, Fails, Mishap
  <1>2. CASE AbandonRemoveFails(n)
    BY <1>2 DEF AbandonRemoveFails, Fails, Mishap
  <1>3. CASE ReapDeleteFails(n)
    BY <1>3 DEF ReapDeleteFails, Fails, Mishap
  <1>4. CASE ReapRemoveFails(n)
    BY <1>4 DEF ReapRemoveFails, Fails, Mishap
  <1> QED
    BY <1>1, <1>2, <1>3, <1>4 DEF NodeFault

\* The remaining steps: tasks on machines, connections, a restart.
OtherStep ==
    \/ \E t \in Tasks, n \in Nodes : Start(t, n)
    \/ \E t \in Tasks : Finish(t)
    \/ \E n \in Nodes : Connect(n)
    \/ \E n \in Nodes : GraceExceeded(n)
    \/ \E n \in Nodes : DisableIdle(n)
    \/ Restart
    \/ \E t \in Tasks, n \in Nodes : CommitFails(t, n)
    \/ \E n \in Nodes : Unstick(n)

LEMMA OtherType == ASSUME TypeOK, OtherStep PROVE TypeOK'
  <1> USE NodesAssumption, BoundsAssumption, ProvidersAssumption
      DEF TypeOK, Counted, Reserved, AllocStates
  <1>1. CASE \E t \in Tasks, n \in Nodes : Start(t, n)
    BY <1>1 DEF Start
  <1>2. CASE \E t \in Tasks : Finish(t)
    BY <1>2 DEF Finish
  <1>3. CASE \E n \in Nodes : Connect(n)
    BY <1>3 DEF Connect
  <1>4. CASE \E n \in Nodes : GraceExceeded(n)
    BY <1>4 DEF GraceExceeded, Wanted
  <1>5. CASE \E n \in Nodes : DisableIdle(n)
    BY <1>5 DEF DisableIdle, Free
  <1>6. CASE Restart
    BY <1>6 DEF Restart, Mishap
  <1>7. CASE \E t \in Tasks, n \in Nodes : CommitFails(t, n)
    BY <1>7 DEF CommitFails, Waiting, Fails, Mishap
  <1>8. CASE \E n \in Nodes : Unstick(n)
    BY <1>8 DEF Unstick
  <1> QED
    BY <1>1, <1>2, <1>3, <1>4, <1>5, <1>6, <1>7, <1>8 DEF OtherStep

\* A step belongs to one of the groups.
LEMMA Steps ==
    ASSUME [Next]_vars
    PROVE  \/ \E t \in Tasks : AllocateStep(t) \/ AllocateFault(t)
           \/ \E n \in Nodes : AbandonStep(n) \/ ReapStep(n) \/ NodeFault(n)
           \/ OtherStep
           \/ UNCHANGED vars
  BY DEF Next, OtherStep

LEMMA InitType == Init => TypeOK
  <1> SUFFICES ASSUME Init PROVE TypeOK
    OBVIOUS
  <1>1. restarted \in BOOLEAN
    BY Zenon DEF Init
  <1>2. \A t \in Tasks :
           /\ alloc[t] = "insert" <=> choice[t] \in Providers
           /\ alloc[t] \in Reserved <=> tmp[t] \in Nodes
    BY NodesAssumption, ProvidersAssumption DEF Init, Reserved, AllocStates
  <1> QED
    BY <1>1, <1>2, BoundsAssumption DEF Init, TypeOK, AllocStates, Counted

LEMMA NextType == TypeOK /\ [Next]_vars => TypeOK'
  <1> SUFFICES ASSUME TypeOK, [Next]_vars PROVE TypeOK'
    OBVIOUS
  <1>1. ASSUME NEW t \in Tasks, AllocateStep(t) PROVE TypeOK'
    BY <1>1, AllocateType
  <1>2. ASSUME NEW t \in Tasks, AllocateFault(t) PROVE TypeOK'
    BY <1>2, FaultType
  <1>3. ASSUME NEW n \in Nodes, AbandonStep(n) PROVE TypeOK'
    BY <1>3, AbandonType
  <1>4. ASSUME NEW n \in Nodes, ReapStep(n) PROVE TypeOK'
    BY <1>4, ReapType
  <1>5. ASSUME NEW n \in Nodes, NodeFault(n) PROVE TypeOK'
    BY <1>5, NodeFaultType
  <1>6. CASE OtherStep
    BY <1>6, OtherType
  <1>7. CASE UNCHANGED vars
    BY <1>7 DEF vars, TypeOK
  <1> QED
    BY <1>1, <1>2, <1>3, <1>4, <1>5, <1>6, <1>7, Steps

\* All variables keep their types; an allocator has a provider exactly while it
\* holds allocation_lock, and a node exactly from the tmp row's commit on.
THEOREM TypeCorrect == Spec => []TypeOK
  <1>1. Init => TypeOK
    BY InitType
  <1>2. TypeOK /\ [Next]_vars => TypeOK'
    BY NextType
  <1> QED
    BY <1>1, <1>2, PTL DEF Spec

-----------------------------------------------------------------------------
(* The rows in hand. *)

\* Until the clean-up, an allocation's row is the tmp row it inserted.
HeldIsTmp ==
    \A t \in Tasks : alloc[t] \in Reserved =>
        /\ row[tmp[t]] # "new"
        /\ alloc[t] # "final" => row[tmp[t]] = "tmp"
        /\ alloc[t] = "final" => row[tmp[t]] \in {"tmp", "gone"}

\* No two allocations hold a row.
HeldOnce == \A t, u \in Tasks : tmp[t] = tmp[u] /\ tmp[t] # NoNode => t = u

\* Only nodes that were enabled are torn down.
TornDown ==
    \A n \in Nodes :
        abandon[n] # "none" \/ reap[n] # "none" => row[n] \notin {"new", "tmp"}

HeldInv == TypeOK /\ HeldIsTmp /\ HeldOnce /\ TornDown

LEMMA AllocateHeld ==
    ASSUME HeldInv, NEW t \in Tasks, AllocateStep(t)
    PROVE  HeldInv'
  <1>0. TypeOK'
    BY AllocateType DEF HeldInv
  <1> USE <1>0, NodesAssumption DEF HeldInv, HeldIsTmp, HeldOnce, TornDown, TypeOK, Counted,
      Reserved, AllocStates
  <1>1. CASE Miss(t)
    BY <1>1 DEF Miss, Waiting
  <1>2. CASE BeginCloud(t)
    BY <1>2 DEF BeginCloud
  <1>3. CASE Deduped(t)
    BY <1>3 DEF Deduped
  <1>4. CASE Select(t)
    BY <1>4 DEF Select, Selectable
  <1>5. CASE SelectNone(t)
    BY <1>5 DEF SelectNone
  <1>6. CASE InsertTmp(t)
    BY <1>6 DEF InsertTmp, NextId
  <1>7. CASE Acquire(t)
    BY <1>7 DEF Acquire
  <1>8. CASE Create(t)
    BY <1>8 DEF Create
  <1>9. CASE Setup(t)
    BY <1>9 DEF Setup
  <1>10. CASE Undo(t)
    BY <1>10 DEF Undo
  <1>11. CASE Persist(t)
    BY <1>11 DEF Persist
  <1>12. CASE Unpersist(t)
    BY <1>12 DEF Unpersist
  <1>13. CASE Cleanup(t)
    BY <1>13 DEF Cleanup
  <1>14. CASE Final(t)
    BY <1>14 DEF Final
  <1> QED
    BY <1>1, <1>2, <1>3, <1>4, <1>5, <1>6, <1>7, <1>8, <1>9, <1>10, <1>11, <1>12, <1>13, <1>14 DEF AllocateStep

LEMMA FaultHeld ==
    ASSUME HeldInv, NEW t \in Tasks, AllocateFault(t)
    PROVE  HeldInv'
  <1>0. TypeOK'
    BY FaultType DEF HeldInv
  <1> USE <1>0, NodesAssumption DEF HeldInv, HeldIsTmp, HeldOnce, TornDown, TypeOK, Counted,
      Reserved, AllocStates
  <1>1. CASE StartFails(t)
    BY <1>1 DEF StartFails, Waiting, Fails, Mishap
  <1>2. CASE InsertFails(t)
    BY <1>2 DEF InsertFails, Fails, Mishap
  <1>3. CASE CreateFails(t)
    BY <1>3 DEF CreateFails, Fails, Mishap
  <1>4. CASE SetupFails(t)
    BY <1>4 DEF SetupFails, Fails, Mishap
  <1>5. CASE UndoFails(t)
    BY <1>5 DEF UndoFails, Fails, Mishap
  <1>6. CASE PersistFails(t)
    BY <1>6 DEF PersistFails, Fails, Mishap
  <1>7. CASE UnpersistFails(t)
    BY <1>7 DEF UnpersistFails, Fails, Mishap
  <1>8. CASE CleanupFails(t)
    BY <1>8 DEF CleanupFails, Fails, Mishap
  <1>9. CASE FinalFails(t)
    BY <1>9 DEF FinalFails, Fails, Mishap
  <1> QED
    BY <1>1, <1>2, <1>3, <1>4, <1>5, <1>6, <1>7, <1>8, <1>9 DEF AllocateFault

LEMMA AbandonHeld ==
    ASSUME HeldInv, NEW n \in Nodes, AbandonStep(n)
    PROVE  HeldInv'
  <1>0. TypeOK'
    BY AbandonType DEF HeldInv
  <1> USE <1>0, NodesAssumption DEF HeldInv, HeldIsTmp, HeldOnce, TornDown, TypeOK, Counted,
      Reserved, AllocStates
  <1>1. CASE AbandonDisable(n)
    BY <1>1 DEF AbandonDisable
  <1>2. CASE AbandonDelete(n)
    BY <1>2 DEF AbandonDelete
  <1>3. CASE AbandonRemove(n)
    BY <1>3 DEF AbandonRemove, RemoveRow
  <1>4. CASE AbandonDiscard(n)
    BY <1>4 DEF AbandonDiscard
  <1> QED
    BY <1>1, <1>2, <1>3, <1>4 DEF AbandonStep

LEMMA ReapHeld ==
    ASSUME HeldInv, NEW n \in Nodes, ReapStep(n)
    PROVE  HeldInv'
  <1>0. TypeOK'
    BY ReapType DEF HeldInv
  <1> USE <1>0, NodesAssumption DEF HeldInv, HeldIsTmp, HeldOnce, TornDown, TypeOK, Counted,
      Reserved, AllocStates
  <1>1. CASE Reap(n)
    BY <1>1 DEF Reap
  <1>2. CASE ReapDisable(n)
    BY <1>2 DEF ReapDisable
  <1>3. CASE ReapDelete(n)
    BY <1>3 DEF ReapDelete
  <1>4. CASE ReapRemove(n)
    BY <1>4 DEF ReapRemove, RemoveRow
  <1> QED
    BY <1>1, <1>2, <1>3, <1>4 DEF ReapStep

LEMMA NodeFaultHeld ==
    ASSUME HeldInv, NEW n \in Nodes, NodeFault(n)
    PROVE  HeldInv'
  <1>0. TypeOK'
    BY NodeFaultType DEF HeldInv
  <1> USE <1>0, NodesAssumption DEF HeldInv, HeldIsTmp, HeldOnce, TornDown, TypeOK, Counted,
      Reserved, AllocStates
  <1>1. CASE AbandonDeleteFails(n)
    BY <1>1 DEF AbandonDeleteFails, Fails, Mishap
  <1>2. CASE AbandonRemoveFails(n)
    BY <1>2 DEF AbandonRemoveFails, Fails, Mishap
  <1>3. CASE ReapDeleteFails(n)
    BY <1>3 DEF ReapDeleteFails, Fails, Mishap
  <1>4. CASE ReapRemoveFails(n)
    BY <1>4 DEF ReapRemoveFails, Fails, Mishap
  <1> QED
    BY <1>1, <1>2, <1>3, <1>4 DEF NodeFault

LEMMA OtherHeld == ASSUME HeldInv, OtherStep PROVE HeldInv'
  <1>0. TypeOK'
    BY OtherType DEF HeldInv
  <1> USE <1>0, NodesAssumption DEF HeldInv, HeldIsTmp, HeldOnce, TornDown, TypeOK, Counted,
      Reserved, AllocStates
  <1>1. CASE \E t \in Tasks, n \in Nodes : Start(t, n)
    BY <1>1 DEF Start
  <1>2. CASE \E t \in Tasks : Finish(t)
    BY <1>2 DEF Finish
  <1>3. CASE \E n \in Nodes : Connect(n)
    BY <1>3 DEF Connect
  <1>4. CASE \E n \in Nodes : GraceExceeded(n)
    BY <1>4 DEF GraceExceeded, Wanted
  <1>5. CASE \E n \in Nodes : DisableIdle(n)
    BY <1>5 DEF DisableIdle, Free
  <1>6. CASE Restart
    BY <1>6 DEF Restart, Mishap
  <1>7. CASE \E t \in Tasks, n \in Nodes : CommitFails(t, n)
    BY <1>7 DEF CommitFails, Waiting, Fails, Mishap
  <1>8. CASE \E n \in Nodes : Unstick(n)
    BY <1>8 DEF Unstick
  <1> QED
    BY <1>1, <1>2, <1>3, <1>4, <1>5, <1>6, <1>7, <1>8 DEF OtherStep

LEMMA InitHeld == Init => HeldInv
  BY InitType, NodesAssumption DEF Init, HeldInv, HeldIsTmp, HeldOnce, TornDown, Reserved

LEMMA NextHeld == HeldInv /\ [Next]_vars => HeldInv'
  <1> SUFFICES ASSUME HeldInv, [Next]_vars PROVE HeldInv'
    OBVIOUS
  <1>1. ASSUME NEW t \in Tasks, AllocateStep(t) PROVE HeldInv'
    BY <1>1, AllocateHeld
  <1>2. ASSUME NEW t \in Tasks, AllocateFault(t) PROVE HeldInv'
    BY <1>2, FaultHeld
  <1>3. ASSUME NEW n \in Nodes, AbandonStep(n) PROVE HeldInv'
    BY <1>3, AbandonHeld
  <1>4. ASSUME NEW n \in Nodes, ReapStep(n) PROVE HeldInv'
    BY <1>4, ReapHeld
  <1>5. ASSUME NEW n \in Nodes, NodeFault(n) PROVE HeldInv'
    BY <1>5, NodeFaultHeld
  <1>6. CASE OtherStep
    BY <1>6, OtherHeld
  <1>7. CASE UNCHANGED vars
    BY <1>7 DEF vars, HeldInv, HeldIsTmp, HeldOnce, TornDown, TypeOK
  <1> QED
    BY <1>1, <1>2, <1>3, <1>4, <1>5, <1>6, <1>7, Steps

-----------------------------------------------------------------------------
(* Capacity. *)

\* One allocator at a time is between the count and the insert.
OneInserting == \A t, u \in Tasks : alloc[t] = "insert" /\ alloc[u] = "insert" => t = u

\* What it counted leaves room for its row.
RoomForInsert ==
    \A t \in Tasks : alloc[t] = "insert" => Count(choice[t]) < MaxNodes[choice[t]]

CapacityInv == HeldInv /\ OneInserting /\ RoomForInsert /\ CapacityRespected

\* The set of nodes of a provider is finite.
LEMMA CountType ==
    ASSUME NEW p
    PROVE  IsFiniteSet(NodesOf(p)) /\ Count(p) \in Nat
  <1>1. IsFiniteSet(Nodes)
    BY FS_Interval, NodesAssumption DEF Nodes
  <1>2. IsFiniteSet(NodesOf(p))
    BY <1>1, FS_Subset DEF NodesOf
  <1> QED
    BY <1>2, FS_CardinalityType DEF Count

\* Steps that add no row and select no provider.
Shrinks ==
    /\ cloud' = cloud
    /\ \A n \in Nodes : row'[n] \in Counted => row[n] \in Counted
    /\ \A t \in Tasks : alloc'[t] = "insert" => alloc[t] = "insert" /\ choice'[t] = choice[t]

LEMMA CountShrinks ==
    ASSUME NEW p, NodesOf(p)' \subseteq NodesOf(p)
    PROVE  Count(p)' \in Nat /\ Count(p)' <= Count(p)
  <1>1. /\ IsFiniteSet(NodesOf(p)')
        /\ Cardinality(NodesOf(p)') <= Cardinality(NodesOf(p))
    BY CountType, FS_Subset
  <1> QED
    BY <1>1, FS_CardinalityType DEF Count

LEMMA CapacityFrame ==
    ASSUME CapacityInv, HeldInv', Shrinks
    PROVE  CapacityInv'
  <1>1. ASSUME NEW p \in Providers
        PROVE  Count(p) \in Nat /\ Count(p)' \in Nat /\ Count(p)' <= Count(p)
    <2>1. NodesOf(p)' \subseteq NodesOf(p)
      BY DEF NodesOf, Shrinks
    <2> QED
      BY <2>1, CountShrinks, CountType
  <1>2. CapacityRespected'
    BY <1>1, ProvidersAssumption DEF CapacityInv, CapacityRespected
  <1>3. OneInserting'
    BY DEF CapacityInv, OneInserting, Shrinks
  <1>4. ASSUME NEW t \in Tasks, alloc'[t] = "insert"
        PROVE  Count(choice[t])' < MaxNodes[choice'[t]]
    <2>1. alloc[t] = "insert" /\ choice'[t] = choice[t] /\ choice[t] \in Providers
      BY <1>4 DEF Shrinks, CapacityInv, HeldInv, TypeOK
    <2>2. Count(choice[t]) < MaxNodes[choice[t]]
      BY <2>1 DEF CapacityInv, RoomForInsert
    <2> QED
      BY <1>1, <2>1, <2>2, ProvidersAssumption
  <1>5. RoomForInsert'
    BY <1>4 DEF RoomForInsert, Count, NodesOf
  <1> QED
    BY <1>2, <1>3, <1>5 DEF CapacityInv

LEMMA FaultShrinks ==
    ASSUME HeldInv, NEW t \in Tasks, AllocateFault(t)
    PROVE  Shrinks
  <1> USE NodesAssumption, ProvidersAssumption
      DEF HeldInv, HeldIsTmp, TornDown, TypeOK, Counted,
      Reserved, AllocStates, Shrinks
  <1>1. CASE StartFails(t)
    BY <1>1 DEF StartFails, Waiting, Fails, Mishap
  <1>2. CASE InsertFails(t)
    BY <1>2 DEF InsertFails, Fails, Mishap
  <1>3. CASE CreateFails(t)
    BY <1>3 DEF CreateFails, Fails, Mishap
  <1>4. CASE SetupFails(t)
    BY <1>4 DEF SetupFails, Fails, Mishap
  <1>5. CASE UndoFails(t)
    BY <1>5 DEF UndoFails, Fails, Mishap
  <1>6. CASE PersistFails(t)
    BY <1>6 DEF PersistFails, Fails, Mishap
  <1>7. CASE UnpersistFails(t)
    BY <1>7 DEF UnpersistFails, Fails, Mishap
  <1>8. CASE CleanupFails(t)
    BY <1>8 DEF CleanupFails, Fails, Mishap
  <1>9. CASE FinalFails(t)
    BY <1>9 DEF FinalFails, Fails, Mishap
  <1> QED
    BY <1>1, <1>2, <1>3, <1>4, <1>5, <1>6, <1>7, <1>8, <1>9 DEF AllocateFault

LEMMA AbandonShrinks ==
    ASSUME HeldInv, NEW n \in Nodes, AbandonStep(n)
    PROVE  Shrinks
  <1> USE NodesAssumption, ProvidersAssumption
      DEF HeldInv, HeldIsTmp, TornDown, TypeOK, Counted,
      Reserved, AllocStates, Shrinks
  <1>1. CASE AbandonDisable(n)
    BY <1>1 DEF AbandonDisable
  <1>2. CASE AbandonDelete(n)
    BY <1>2 DEF AbandonDelete
  <1>3. CASE AbandonRemove(n)
    BY <1>3 DEF AbandonRemove, RemoveRow
  <1>4. CASE AbandonDiscard(n)
    BY <1>4 DEF AbandonDiscard
  <1> QED
    BY <1>1, <1>2, <1>3, <1>4 DEF AbandonStep

LEMMA ReapShrinks ==
    ASSUME HeldInv, NEW n \in Nodes, ReapStep(n)
    PROVE  Shrinks
  <1> USE NodesAssumption, ProvidersAssumption
      DEF HeldInv, HeldIsTmp, TornDown, TypeOK, Counted,
      Reserved, AllocStates, Shrinks
  <1>1. CASE Reap(n)
    BY <1>1 DEF Reap
  <1>2. CASE ReapDisable(n)
    BY <1>2 DEF ReapDisable
  <1>3. CASE ReapDelete(n)
    BY <1>3 DEF ReapDelete
  <1>4. CASE ReapRemove(n)
    BY <1>4 DEF ReapRemove, RemoveRow
  <1> QED
    BY <1>1, <1>2, <1>3, <1>4 DEF ReapStep

LEMMA NodeFaultShrinks ==
    ASSUME HeldInv, NEW n \in Nodes, NodeFault(n)
    PROVE  Shrinks
  <1> USE NodesAssumption, ProvidersAssumption
      DEF HeldInv, HeldIsTmp, TornDown, TypeOK, Counted,
      Reserved, AllocStates, Shrinks
  <1>1. CASE AbandonDeleteFails(n)
    BY <1>1 DEF AbandonDeleteFails, Fails, Mishap
  <1>2. CASE AbandonRemoveFails(n)
    BY <1>2 DEF AbandonRemoveFails, Fails, Mishap
  <1>3. CASE ReapDeleteFails(n)
    BY <1>3 DEF ReapDeleteFails, Fails, Mishap
  <1>4. CASE ReapRemoveFails(n)
    BY <1>4 DEF ReapRemoveFails, Fails, Mishap
  <1> QED
    BY <1>1, <1>2, <1>3, <1>4 DEF NodeFault

LEMMA OtherShrinks == ASSUME HeldInv, OtherStep PROVE Shrinks
  <1> USE NodesAssumption, ProvidersAssumption
      DEF HeldInv, HeldIsTmp, TornDown, TypeOK, Counted,
      Reserved, AllocStates, Shrinks
  <1>1. CASE \E t \in Tasks, n \in Nodes : Start(t, n)
    BY <1>1 DEF Start
  <1>2. CASE \E t \in Tasks : Finish(t)
    BY <1>2 DEF Finish
  <1>3. CASE \E n \in Nodes : Connect(n)
    BY <1>3 DEF Connect
  <1>4. CASE \E n \in Nodes : GraceExceeded(n)
    BY <1>4 DEF GraceExceeded, Wanted
  <1>5. CASE \E n \in Nodes : DisableIdle(n)
    BY <1>5 DEF DisableIdle, Free
  <1>6. CASE Restart
    BY <1>6 DEF Restart, Mishap
  <1>7. CASE \E t \in Tasks, n \in Nodes : CommitFails(t, n)
    BY <1>7 DEF CommitFails, Waiting, Fails, Mishap
  <1>8. CASE \E n \in Nodes : Unstick(n)
    BY <1>8 DEF Unstick
  <1> QED
    BY <1>1, <1>2, <1>3, <1>4, <1>5, <1>6, <1>7, <1>8 DEF OtherStep

LEMMA AllocateShrinks ==
    ASSUME HeldInv, NEW t \in Tasks, AllocateStep(t), ~Select(t), ~InsertTmp(t)
    PROVE  Shrinks
  <1> USE NodesAssumption, ProvidersAssumption
      DEF HeldInv, HeldIsTmp, TornDown, TypeOK, Counted,
      Reserved, AllocStates, Shrinks
  <1>1. CASE Miss(t)
    BY <1>1 DEF Miss, Waiting
  <1>2. CASE BeginCloud(t)
    BY <1>2 DEF BeginCloud
  <1>3. CASE Deduped(t)
    BY <1>3 DEF Deduped
  <1>4. CASE SelectNone(t)
    BY <1>4 DEF SelectNone
  <1>5. CASE Acquire(t)
    BY <1>5 DEF Acquire
  <1>6. CASE Create(t)
    BY <1>6 DEF Create
  <1>7. CASE Setup(t)
    BY <1>7 DEF Setup
  <1>8. CASE Undo(t)
    BY <1>8 DEF Undo
  <1>9. CASE Persist(t)
    BY <1>9 DEF Persist
  <1>10. CASE Unpersist(t)
    BY <1>10 DEF Unpersist
  <1>11. CASE Cleanup(t)
    BY <1>11 DEF Cleanup
  <1>12. CASE Final(t)
    BY <1>12 DEF Final
  <1> QED
    BY <1>1, <1>2, <1>3, <1>4, <1>5, <1>6, <1>7, <1>8, <1>9, <1>10, <1>11, <1>12 DEF AllocateStep

\* The selection counts the rows and takes the lock.
LEMMA SelectCapacity ==
    ASSUME CapacityInv, HeldInv', NEW t \in Tasks, Select(t)
    PROVE  CapacityInv'
  <1>1. row' = row /\ cloud' = cloud
    BY DEF Select
  <1>2. \A p : Count(p)' = Count(p)
    BY <1>1 DEF Count, NodesOf
  <1>3. PICK p \in Selectable(t) : choice' = [choice EXCEPT ![t] = p]
    BY DEF Select
  <1>4. p \in Providers /\ Count(p) < MaxNodes[p]
    BY ProvidersAssumption DEF Selectable
  <1>5. /\ alloc' = [alloc EXCEPT ![t] = "insert"]
        /\ \A u \in Tasks : alloc[u] # "insert"
    BY DEF Select, LockFree
  <1>6. CapacityRespected'
    BY <1>2 DEF CapacityInv, CapacityRespected
  <1>7. OneInserting'
    BY <1>5 DEF CapacityInv, HeldInv, TypeOK, OneInserting
  <1>8. ASSUME NEW u \in Tasks, alloc'[u] = "insert"
        PROVE  Count(choice'[u]) < MaxNodes[choice'[u]]
    <2>1. u = t
      BY <1>5, <1>8 DEF CapacityInv, HeldInv, TypeOK
    <2>2. choice'[u] = p
      BY <1>3, <2>1 DEF CapacityInv, HeldInv, TypeOK
    <2> QED
      BY <1>4, <2>2
  <1>9. RoomForInsert'
    BY <1>1, <1>8 DEF RoomForInsert, Count, NodesOf
  <1> QED
    BY <1>6, <1>7, <1>9 DEF CapacityInv

\* The tmp row takes the room that was counted.
LEMMA InsertCapacity ==
    ASSUME CapacityInv, HeldInv', NEW t \in Tasks, InsertTmp(t)
    PROVE  CapacityInv'
  <1>1. /\ alloc[t] = "insert"
        /\ alloc' = [alloc EXCEPT ![t] = "acquire"]
    BY DEF InsertTmp
  <1>2. PICK p \in Providers : p = choice[t] /\ Count(p) < MaxNodes[p]
    BY <1>1 DEF CapacityInv, HeldInv, TypeOK, RoomForInsert
  <1>3. PICK n \in Nodes :
           /\ row[n] = "new"
           /\ row' = [row EXCEPT ![n] = "tmp"]
           /\ cloud' = [cloud EXCEPT ![n] = p]
    BY <1>2 DEF InsertTmp, NextId
  <1>4. Count(p)' \in Nat /\ Count(p)' <= MaxNodes[p]
    <2>1. NodesOf(p)' \subseteq NodesOf(p) \cup {n}
      BY <1>3 DEF NodesOf, CapacityInv, HeldInv, TypeOK
    <2>2. /\ IsFiniteSet(NodesOf(p) \cup {n})
          /\ Cardinality(NodesOf(p) \cup {n}) <= Count(p) + 1
      <3>1. IsFiniteSet(NodesOf(p)) /\ Cardinality(NodesOf(p)) \in Nat
        BY CountType DEF Count
      <3>2. /\ IsFiniteSet(NodesOf(p) \cup {n})
            /\ Cardinality(NodesOf(p) \cup {n}) =
                  IF n \in NodesOf(p) THEN Cardinality(NodesOf(p))
                                     ELSE Cardinality(NodesOf(p)) + 1
        BY <3>1, FS_AddElement, Zenon
      <3> QED
        BY <3>1, <3>2 DEF Count
    <2>3. /\ IsFiniteSet(NodesOf(p)')
          /\ Cardinality(NodesOf(p)') <= Cardinality(NodesOf(p) \cup {n})
      BY <2>1, <2>2, FS_Subset
    <2>4. Count(p)' \in Nat /\ Cardinality(NodesOf(p) \cup {n}) \in Nat
      BY <2>2, <2>3, FS_CardinalityType DEF Count
    <2>5. Count(p)' <= Cardinality(NodesOf(p) \cup {n})
      BY <2>3 DEF Count
    <2> QED
      BY <1>2, <2>2, <2>4, <2>5, CountType, ProvidersAssumption
  <1>5. ASSUME NEW q \in Providers, q # p
        PROVE  Count(q)' \in Nat /\ Count(q)' <= Count(q)
    <2>1. NodesOf(q)' \subseteq NodesOf(q)
      BY <1>3, <1>5 DEF NodesOf, CapacityInv, HeldInv, TypeOK
    <2> QED
      BY <2>1, CountShrinks
  <1>6. ASSUME NEW q \in Providers PROVE Count(q)' <= MaxNodes[q]
    <2>1. CASE q = p
      BY <1>4, <2>1
    <2>2. CASE q # p
      <3>1. Count(q) <= MaxNodes[q]
        BY DEF CapacityInv, CapacityRespected
      <3> QED
        BY <1>5, <2>2, <3>1, CountType, ProvidersAssumption
    <2> QED
      BY <2>1, <2>2
  <1>7. CapacityRespected'
    BY <1>6 DEF CapacityRespected
  <1>8. \A u \in Tasks : alloc'[u] # "insert"
    BY <1>1 DEF CapacityInv, HeldInv, TypeOK, OneInserting
  <1> QED
    BY <1>7, <1>8 DEF CapacityInv, OneInserting, RoomForInsert

LEMMA InitCapacity == Init => CapacityInv
  <1> SUFFICES ASSUME Init PROVE CapacityInv
    OBVIOUS
  <1>1. HeldInv
    BY InitHeld
  <1>2. ASSUME NEW p \in Providers PROVE Count(p) <= MaxNodes[p]
    <2>1. NodesOf(p) = {}
      BY DEF Init, NodesOf, Counted
    <2> QED
      BY <2>1, FS_EmptySet, ProvidersAssumption DEF Count
  <1> QED
    BY <1>1, <1>2 DEF Init, CapacityInv, OneInserting, RoomForInsert, CapacityRespected

LEMMA NextCapacity == CapacityInv /\ [Next]_vars => CapacityInv'
  <1> SUFFICES ASSUME CapacityInv, [Next]_vars PROVE CapacityInv'
    OBVIOUS
  <1>0. HeldInv /\ HeldInv'
    BY NextHeld DEF CapacityInv
  <1>1. ASSUME NEW t \in Tasks, Select(t) PROVE CapacityInv'
    BY <1>0, <1>1, SelectCapacity
  <1>2. ASSUME NEW t \in Tasks, InsertTmp(t) PROVE CapacityInv'
    BY <1>0, <1>2, InsertCapacity
  <1>3. ASSUME NEW t \in Tasks, AllocateStep(t), ~Select(t), ~InsertTmp(t) PROVE Shrinks
    BY <1>0, <1>3, AllocateShrinks
  <1>4. ASSUME NEW t \in Tasks, AllocateFault(t) PROVE Shrinks
    BY <1>0, <1>4, FaultShrinks
  <1>5. ASSUME NEW n \in Nodes, AbandonStep(n) \/ ReapStep(n) \/ NodeFault(n) PROVE Shrinks
    BY <1>0, <1>5, AbandonShrinks, ReapShrinks, NodeFaultShrinks
  <1>6. ASSUME OtherStep PROVE Shrinks
    BY <1>0, <1>6, OtherShrinks
  <1>7. Shrinks => CapacityInv'
    BY <1>0, CapacityFrame
  <1>8. UNCHANGED vars => Shrinks
    BY DEF vars, Shrinks
  <1> QED
    BY <1>1, <1>2, <1>3, <1>4, <1>5, <1>6, <1>7, <1>8, Steps

\* Concurrent allocations of one daemon never reserve more nodes of a provider
\* than its max_nodes, whatever fails and however often it restarts: the rows are
\* counted and the tmp row is inserted under allocation_lock.
THEOREM CapacityNotExceeded == Spec => []CapacityRespected
  <1>1. Init => CapacityInv
    BY InitCapacity
  <1>2. CapacityInv /\ [Next]_vars => CapacityInv'
    BY NextCapacity
  <1>3. CapacityInv => CapacityRespected
    BY DEF CapacityInv
  <1> QED
    BY <1>1, <1>2, <1>3, PTL DEF Spec

-----------------------------------------------------------------------------
(* VMs. *)

\* A row that was not handed to a provider yet has no VM.
NoVmYet ==
    /\ \A n \in Nodes : row[n] = "new" => vm[n] = "none"
    /\ \A t \in Tasks : alloc[t] \in {"acquire", "creating"} => vm[tmp[t]] = "none"

\* Before its row is cleaned up, the VM was deleted, or the deletion reported.
CleanedUp ==
    \A t \in Tasks :
        alloc[t] \in {"cleanup", "final"} => vm[tmp[t]] # "up" \/ tmp[t] \in reported

\* So it is for the rows of torn-down nodes.
Deleted ==
    \A n \in Nodes : abandon[n] = "remove" \/ reap[n] = "remove" => vm[n] # "up"

VmInv == HeldInv /\ VmIsKnown /\ NoVmYet /\ CleanedUp /\ Deleted

LEMMA AllocateVm ==
    ASSUME VmInv, NEW t \in Tasks, AllocateStep(t)
    PROVE  VmInv'
  <1>0. HeldInv'
    BY AllocateHeld DEF VmInv
  <1> USE <1>0, NodesAssumption DEF VmInv, VmIsKnown, InHand, NoVmYet, CleanedUp, Deleted, HeldInv,
      HeldIsTmp, HeldOnce, TornDown, TypeOK, Counted, Reserved, AllocStates
  <1>1. CASE Miss(t)
    BY <1>1 DEF Miss, Waiting
  <1>2. CASE BeginCloud(t)
    BY <1>2 DEF BeginCloud
  <1>3. CASE Deduped(t)
    BY <1>3 DEF Deduped
  <1>4. CASE Select(t)
    BY <1>4 DEF Select, Selectable
  <1>5. CASE SelectNone(t)
    BY <1>5 DEF SelectNone
  <1>6. CASE InsertTmp(t)
    BY <1>6 DEF InsertTmp, NextId
  <1>7. CASE Acquire(t)
    BY <1>7 DEF Acquire
  <1>8. CASE Create(t)
    BY <1>8 DEF Create
  <1>9. CASE Setup(t)
    BY <1>9 DEF Setup
  <1>10. CASE Undo(t)
    BY <1>10 DEF Undo
  <1>11. CASE Persist(t)
    BY <1>11 DEF Persist
  <1>12. CASE Unpersist(t)
    BY <1>12 DEF Unpersist
  <1>13. CASE Cleanup(t)
    BY <1>13 DEF Cleanup
  <1>14. CASE Final(t)
    BY <1>14 DEF Final
  <1> QED
    BY <1>1, <1>2, <1>3, <1>4, <1>5, <1>6, <1>7, <1>8, <1>9, <1>10, <1>11, <1>12, <1>13, <1>14 DEF AllocateStep

LEMMA FaultVm ==
    ASSUME VmInv, NEW t \in Tasks, AllocateFault(t)
    PROVE  VmInv'
  <1>0. HeldInv'
    BY FaultHeld DEF VmInv
  <1> USE <1>0, NodesAssumption DEF VmInv, VmIsKnown, InHand, NoVmYet, CleanedUp, Deleted, HeldInv,
      HeldIsTmp, HeldOnce, TornDown, TypeOK, Counted, Reserved, AllocStates
  <1>1. CASE StartFails(t)
    BY <1>1 DEF StartFails, Waiting, Fails, Mishap
  <1>2. CASE InsertFails(t)
    BY <1>2 DEF InsertFails, Fails, Mishap
  <1>3. CASE CreateFails(t)
    BY <1>3 DEF CreateFails, Fails, Mishap
  <1>4. CASE SetupFails(t)
    BY <1>4 DEF SetupFails, Fails, Mishap
  <1>5. CASE UndoFails(t)
    BY <1>5 DEF UndoFails, Fails, Mishap
  <1>6. CASE PersistFails(t)
    BY <1>6 DEF PersistFails, Fails, Mishap
  <1>7. CASE UnpersistFails(t)
    BY <1>7 DEF UnpersistFails, Fails, Mishap
  <1>8. CASE CleanupFails(t)
    BY <1>8 DEF CleanupFails, Fails, Mishap
  <1>9. CASE FinalFails(t)
    BY <1>9 DEF FinalFails, Fails, Mishap
  <1> QED
    BY <1>1, <1>2, <1>3, <1>4, <1>5, <1>6, <1>7, <1>8, <1>9 DEF AllocateFault

LEMMA AbandonVm ==
    ASSUME VmInv, NEW n \in Nodes, AbandonStep(n)
    PROVE  VmInv'
  <1>0. HeldInv'
    BY AbandonHeld DEF VmInv
  <1> USE <1>0, NodesAssumption DEF VmInv, VmIsKnown, InHand, NoVmYet, CleanedUp, Deleted, HeldInv,
      HeldIsTmp, HeldOnce, TornDown, TypeOK, Counted, Reserved, AllocStates
  <1>1. CASE AbandonDisable(n)
    BY <1>1 DEF AbandonDisable
  <1>2. CASE AbandonDelete(n)
    BY <1>2 DEF AbandonDelete
  <1>3. CASE AbandonRemove(n)
    BY <1>3 DEF AbandonRemove, RemoveRow
  <1>4. CASE AbandonDiscard(n)
    BY <1>4 DEF AbandonDiscard
  <1> QED
    BY <1>1, <1>2, <1>3, <1>4 DEF AbandonStep

LEMMA ReapVm ==
    ASSUME VmInv, NEW n \in Nodes, ReapStep(n)
    PROVE  VmInv'
  <1>0. HeldInv'
    BY ReapHeld DEF VmInv
  <1> USE <1>0, NodesAssumption DEF VmInv, VmIsKnown, InHand, NoVmYet, CleanedUp, Deleted, HeldInv,
      HeldIsTmp, HeldOnce, TornDown, TypeOK, Counted, Reserved, AllocStates
  <1>1. CASE Reap(n)
    BY <1>1 DEF Reap
  <1>2. CASE ReapDisable(n)
    BY <1>2 DEF ReapDisable
  <1>3. CASE ReapDelete(n)
    BY <1>3 DEF ReapDelete
  <1>4. CASE ReapRemove(n)
    BY <1>4 DEF ReapRemove, RemoveRow
  <1> QED
    BY <1>1, <1>2, <1>3, <1>4 DEF ReapStep

LEMMA NodeFaultVm ==
    ASSUME VmInv, NEW n \in Nodes, NodeFault(n)
    PROVE  VmInv'
  <1>0. HeldInv'
    BY NodeFaultHeld DEF VmInv
  <1> USE <1>0, NodesAssumption DEF VmInv, VmIsKnown, InHand, NoVmYet, CleanedUp, Deleted, HeldInv,
      HeldIsTmp, HeldOnce, TornDown, TypeOK, Counted, Reserved, AllocStates
  <1>1. CASE AbandonDeleteFails(n)
    BY <1>1 DEF AbandonDeleteFails, Fails, Mishap
  <1>2. CASE AbandonRemoveFails(n)
    BY <1>2 DEF AbandonRemoveFails, Fails, Mishap
  <1>3. CASE ReapDeleteFails(n)
    BY <1>3 DEF ReapDeleteFails, Fails, Mishap
  <1>4. CASE ReapRemoveFails(n)
    BY <1>4 DEF ReapRemoveFails, Fails, Mishap
  <1> QED
    BY <1>1, <1>2, <1>3, <1>4 DEF NodeFault

LEMMA OtherVm == ASSUME VmInv, OtherStep PROVE VmInv'
  <1>0. HeldInv'
    BY OtherHeld DEF VmInv
  <1> USE <1>0, NodesAssumption DEF VmInv, VmIsKnown, InHand, NoVmYet, CleanedUp, Deleted, HeldInv,
      HeldIsTmp, HeldOnce, TornDown, TypeOK, Counted, Reserved, AllocStates
  <1>1. CASE \E t \in Tasks, n \in Nodes : Start(t, n)
    BY <1>1 DEF Start
  <1>2. CASE \E t \in Tasks : Finish(t)
    BY <1>2 DEF Finish
  <1>3. CASE \E n \in Nodes : Connect(n)
    BY <1>3 DEF Connect
  <1>4. CASE \E n \in Nodes : GraceExceeded(n)
    BY <1>4 DEF GraceExceeded, Wanted
  <1>5. CASE \E n \in Nodes : DisableIdle(n)
    BY <1>5 DEF DisableIdle, Free
  <1>6. CASE Restart
    BY <1>6 DEF Restart, Mishap
  <1>7. CASE \E t \in Tasks, n \in Nodes : CommitFails(t, n)
    BY <1>7 DEF CommitFails, Waiting, Fails, Mishap
  <1>8. CASE \E n \in Nodes : Unstick(n)
    BY <1>8 DEF Unstick
  <1> QED
    BY <1>1, <1>2, <1>3, <1>4, <1>5, <1>6, <1>7, <1>8 DEF OtherStep

LEMMA InitVm == Init => VmInv
  BY InitHeld DEF Init, VmInv, VmIsKnown, InHand, NoVmYet, CleanedUp, Deleted

LEMMA NextVm == VmInv /\ [Next]_vars => VmInv'
  <1> SUFFICES ASSUME VmInv, [Next]_vars PROVE VmInv'
    OBVIOUS
  <1>1. ASSUME NEW t \in Tasks, AllocateStep(t) PROVE VmInv'
    BY <1>1, AllocateVm
  <1>2. ASSUME NEW t \in Tasks, AllocateFault(t) PROVE VmInv'
    BY <1>2, FaultVm
  <1>3. ASSUME NEW n \in Nodes, AbandonStep(n) PROVE VmInv'
    BY <1>3, AbandonVm
  <1>4. ASSUME NEW n \in Nodes, ReapStep(n) PROVE VmInv'
    BY <1>4, ReapVm
  <1>5. ASSUME NEW n \in Nodes, NodeFault(n) PROVE VmInv'
    BY <1>5, NodeFaultVm
  <1>6. CASE OtherStep
    BY <1>6, OtherVm
  <1>7. CASE UNCHANGED vars
    BY <1>7 DEF vars, VmInv, VmIsKnown, InHand, NoVmYet, CleanedUp, Deleted,
         HeldInv, HeldIsTmp, HeldOnce, TornDown, TypeOK
  <1> QED
    BY <1>1, <1>2, <1>3, <1>4, <1>5, <1>6, <1>7, Steps

\* A VM that bills is never unknown, whatever fails: it has a row that leads to its
\* deletion, or an allocation in hand, or the log reports it; after a restart
\* perhaps only its tmp row.
THEOREM NoUnknownVm == Spec => []VmIsKnown
  <1>1. Init => VmInv
    BY InitVm
  <1>2. VmInv /\ [Next]_vars => VmInv'
    BY NextVm
  <1>3. VmInv => VmIsKnown
    BY DEF VmInv
  <1> QED
    BY <1>1, <1>2, <1>3, PTL DEF Spec

-----------------------------------------------------------------------------
(* One node for one task. *)

\* The row of an allocation was inserted for its task, which still waits.
RequestedBy ==
    /\ \A t \in Tasks : tmp[t] # NoNode => requester[tmp[t]] = t
    /\ \A n \in Nodes : row[n] = "enabled" => requester[n] \in Tasks
    /\ \A t \in Tasks : alloc[t] # "idle" => status[t] = "TO_DO"

\* When abandon_node discards the entry of a node, nothing wants the node.
AbandonedNotLive ==
    \A n \in Nodes : abandon[n] # "none" =>
        ~InHand(n) /\ (abandon[n] # "disable" => row[n] # "enabled")

\* The tracker holds the live node of every task that waits.
Deduplicated ==
    /\ \A t \in Tasks : alloc[t] \in {"lock", "insert"} => tracker[t] = NoNode
    /\ ~restarted =>
          \A n \in Nodes : Live(n) /\ status[requester[n]] = "TO_DO" =>
              tracker[requester[n]] = n

RequestInv == HeldInv /\ RequestedBy /\ AbandonedNotLive /\ Deduplicated /\ RequestedOnce

LEMMA LiveRequester ==
    ASSUME RequestInv, NEW n \in Nodes, Live(n)
    PROVE  requester[n] \in Tasks
  BY NodesAssumption DEF RequestInv, RequestedBy, Live, InHand

\* An allocation that ends gives up the entry of the only live node it had.
LEMMA FinalRequest ==
    ASSUME RequestInv, HeldInv', NEW t \in Tasks, Final(t) \/ FinalFails(t)
    PROVE  RequestInv'
  <1> USE NodesAssumption DEF HeldInv, TypeOK
  <1>1. /\ alloc[t] = "final" /\ alloc' = [alloc EXCEPT ![t] = "idle"]
        /\ tmp[t] \in Nodes /\ tmp' = [tmp EXCEPT ![t] = NoNode]
        /\ tracker' = [tracker EXCEPT ![t] = Untracked]
        /\ UNCHANGED <<status, requester, abandon, restarted>>
    BY DEF Final, FinalFails, Fails, Mishap, RequestInv, Reserved, AllocStates
  <1>2. UNCHANGED row \/ row' = [row EXCEPT ![tmp[t]] = "gone"]
    BY DEF Final, FinalFails
  <1>3. row[tmp[t]] # "enabled"
    BY <1>1 DEF RequestInv, HeldIsTmp, Reserved, AllocStates
  <1>4. ASSUME NEW n \in Nodes, Live(n)' PROVE Live(n) /\ n # tmp[t]
    BY <1>1, <1>2, <1>3, <1>4 DEF Live, InHand, RequestInv, HeldOnce
  <1>5. RequestedBy' /\ AbandonedNotLive'
    BY <1>1, <1>2, <1>4 DEF RequestInv, RequestedBy, AbandonedNotLive, Live, InHand
  <1>6. RequestedOnce'
    BY <1>1, <1>4 DEF RequestInv, RequestedOnce
  <1>7. ASSUME ~restarted', NEW n \in Nodes, Live(n)', status'[requester'[n]] = "TO_DO"
        PROVE  tracker'[requester'[n]] = n
    <2>1. Live(n) /\ requester[n] \in Tasks /\ tracker[requester[n]] = n
      BY <1>1, <1>4, <1>7, LiveRequester DEF RequestInv, Deduplicated
    <2>2. Live(tmp[t]) /\ requester[tmp[t]] = t /\ status[t] = "TO_DO"
      BY <1>1 DEF RequestInv, RequestedBy, Live, InHand
    <2>3. requester[n] # t
      BY <1>1, <1>4, <1>7, <2>1, <2>2 DEF RequestInv, Deduplicated
    <2> QED
      BY <1>1, <2>1, <2>3
  <1>8. Deduplicated'
    BY <1>1, <1>7 DEF RequestInv, Deduplicated
  <1> QED
    BY <1>5, <1>6, <1>8 DEF RequestInv

LEMMA AllocateRequest ==
    ASSUME RequestInv, NEW t \in Tasks, AllocateStep(t)
    PROVE  RequestInv'
  <1>0. HeldInv'
    BY AllocateHeld DEF RequestInv
  <1> USE <1>0, NodesAssumption, ProvidersAssumption DEF RequestInv, RequestedBy, AbandonedNotLive,
      Deduplicated, RequestedOnce, Live, InHand, HeldInv, HeldIsTmp, HeldOnce, TornDown,
      TypeOK, Counted, Reserved, AllocStates
  <1>1. CASE Miss(t)
    BY <1>1 DEF Miss, Waiting
  <1>2. CASE BeginCloud(t)
    BY <1>2 DEF BeginCloud
  <1>3. CASE Deduped(t)
    BY <1>3 DEF Deduped
  <1>4. CASE Select(t)
    BY <1>4 DEF Select, Selectable
  <1>5. CASE SelectNone(t)
    BY <1>5 DEF SelectNone
  <1>6. CASE InsertTmp(t)
    BY <1>6 DEF InsertTmp, NextId
  <1>7. CASE Acquire(t)
    BY <1>7 DEF Acquire
  <1>8. CASE Create(t)
    BY <1>8 DEF Create
  <1>9. CASE Setup(t)
    BY <1>9 DEF Setup
  <1>10. CASE Undo(t)
    BY <1>10 DEF Undo
  <1>11. CASE Persist(t)
    BY <1>11 DEF Persist
  <1>12. CASE Unpersist(t)
    BY <1>12 DEF Unpersist
  <1>13. CASE Cleanup(t)
    BY <1>13 DEF Cleanup
  <1>14. CASE Final(t)
    BY <1>0, <1>14, FinalRequest
  <1> QED
    BY <1>1, <1>2, <1>3, <1>4, <1>5, <1>6, <1>7, <1>8, <1>9, <1>10, <1>11, <1>12, <1>13, <1>14 DEF AllocateStep

LEMMA FaultRequest ==
    ASSUME RequestInv, NEW t \in Tasks, AllocateFault(t)
    PROVE  RequestInv'
  <1>0. HeldInv'
    BY FaultHeld DEF RequestInv
  <1> USE <1>0, NodesAssumption, ProvidersAssumption DEF RequestInv, RequestedBy, AbandonedNotLive,
      Deduplicated, RequestedOnce, Live, InHand, HeldInv, HeldIsTmp, HeldOnce, TornDown,
      TypeOK, Counted, Reserved, AllocStates
  <1>1. CASE StartFails(t)
    BY <1>1 DEF StartFails, Waiting, Fails, Mishap
  <1>2. CASE InsertFails(t)
    BY <1>2 DEF InsertFails, Fails, Mishap
  <1>3. CASE CreateFails(t)
    BY <1>3 DEF CreateFails, Fails, Mishap
  <1>4. CASE SetupFails(t)
    BY <1>4 DEF SetupFails, Fails, Mishap
  <1>5. CASE UndoFails(t)
    BY <1>5 DEF UndoFails, Fails, Mishap
  <1>6. CASE PersistFails(t)
    BY <1>6 DEF PersistFails, Fails, Mishap
  <1>7. CASE UnpersistFails(t)
    BY <1>7 DEF UnpersistFails, Fails, Mishap
  <1>8. CASE CleanupFails(t)
    BY <1>8 DEF CleanupFails, Fails, Mishap
  <1>9. CASE FinalFails(t)
    BY <1>0, <1>9, FinalRequest
  <1> QED
    BY <1>1, <1>2, <1>3, <1>4, <1>5, <1>6, <1>7, <1>8, <1>9 DEF AllocateFault

LEMMA AbandonRequest ==
    ASSUME RequestInv, NEW n \in Nodes, AbandonStep(n)
    PROVE  RequestInv'
  <1>0. HeldInv'
    BY AbandonHeld DEF RequestInv
  <1> USE <1>0, NodesAssumption, ProvidersAssumption DEF RequestInv, RequestedBy, AbandonedNotLive,
      Deduplicated, RequestedOnce, Live, InHand, HeldInv, HeldIsTmp, HeldOnce, TornDown,
      TypeOK, Counted, Reserved, AllocStates
  <1>1. CASE AbandonDisable(n)
    <2>1. /\ row' \in {row, [row EXCEPT ![n] = "disabled"]}
          /\ abandon' \in {[abandon EXCEPT ![n] = "discard"], [abandon EXCEPT ![n] = "delete"]}
          /\ abandon'[n] = "discard" => row'[n] # "enabled"
          /\ UNCHANGED <<taskRows, requester, alloc, choice, tmp, tracker, restarted>>
      BY <1>1 DEF AbandonDisable
    <2>2. \A m \in Nodes : Live(m)' => Live(m)
      BY <2>1
    <2>3. RequestedBy' /\ RequestedOnce'
      BY <2>1, <2>2
    <2>4. Deduplicated'
      BY <2>1, <2>2
    <2>5. AbandonedNotLive'
      BY <1>1, <2>1, <2>2 DEF AbandonDisable
    <2> QED
      BY <1>0, <2>3, <2>4, <2>5
  <1>2. CASE AbandonDelete(n)
    BY <1>2 DEF AbandonDelete
  <1>3. CASE AbandonRemove(n)
    BY <1>3 DEF AbandonRemove, RemoveRow
  <1>4. CASE AbandonDiscard(n)
    <2>1. /\ tracker' = [t \in Tasks |-> IF tracker[t] = n THEN Untracked ELSE tracker[t]]
          /\ abandon' = [abandon EXCEPT ![n] = "none"]
          /\ UNCHANGED <<taskRows, nodeRows, alloc, tmp, restarted>>
      BY <1>4 DEF AbandonDiscard
    <2>2. ~Live(n)
      BY <1>4 DEF AbandonDiscard
    <2>3. \A m \in Nodes : Live(m)' <=> Live(m)
      BY <2>1
    <2>4. RequestedBy' /\ AbandonedNotLive' /\ RequestedOnce'
      BY <2>1
    <2>5. ASSUME ~restarted', NEW m \in Nodes, Live(m)', status'[requester'[m]] = "TO_DO"
          PROVE  tracker'[requester'[m]] = m
      <3>1. Live(m) /\ m # n
        BY ONLY <2>2, <2>3, <2>5
      <3>2. requester[m] \in Tasks
        BY <3>1, LiveRequester
      <3>3. tracker[requester[m]] = m
        BY ONLY <2>1, <2>5, <3>1, RequestInv DEF RequestInv, Deduplicated
      <3> QED
        BY ONLY <2>1, <3>1, <3>2, <3>3
    <2>6. \A t \in Tasks : alloc'[t] \in {"lock", "insert"} => tracker'[t] = NoNode
      BY <2>1
    <2>7. Deduplicated'
      BY ONLY <2>5, <2>6 DEF Deduplicated
    <2> QED
      BY ONLY <1>0, <2>4, <2>7 DEF RequestInv
  <1> QED
    BY <1>1, <1>2, <1>3, <1>4 DEF AbandonStep

LEMMA ReapRequest ==
    ASSUME RequestInv, NEW n \in Nodes, ReapStep(n)
    PROVE  RequestInv'
  <1>0. HeldInv'
    BY ReapHeld DEF RequestInv
  <1> USE <1>0, NodesAssumption, ProvidersAssumption DEF RequestInv, RequestedBy, AbandonedNotLive,
      Deduplicated, RequestedOnce, Live, InHand, HeldInv, HeldIsTmp, HeldOnce, TornDown,
      TypeOK, Counted, Reserved, AllocStates
  <1>1. CASE Reap(n) \/ ReapDisable(n) \/ ReapDelete(n)
    <2>1. UNCHANGED <<taskRows, nodeRows, alloc, choice, tmp, tracker, abandon, restarted>>
      BY <1>1 DEF Reap, ReapDisable, ReapDelete
    <2>2. RequestedBy' /\ AbandonedNotLive' /\ Deduplicated' /\ RequestedOnce'
      BY <2>1
    <2> QED
      BY <1>0, <2>2
  <1>2. CASE ReapRemove(n)
    <2>1. /\ row' \in {row, [row EXCEPT ![n] = "gone"]}
          /\ UNCHANGED <<status, requester, alloc, tmp, tracker, abandon, restarted>>
      BY <1>2 DEF ReapRemove, RemoveRow
    <2>2. \A m \in Nodes : Live(m)' => Live(m)
      BY <2>1
    <2>3. RequestedBy' /\ AbandonedNotLive' /\ RequestedOnce'
      BY <2>1, <2>2
    <2>4. Deduplicated'
      BY <2>1, <2>2
    <2> QED
      BY <1>0, <2>3, <2>4
  <1> QED
    BY <1>1, <1>2 DEF ReapStep

LEMMA NodeFaultRequest ==
    ASSUME RequestInv, NEW n \in Nodes, NodeFault(n)
    PROVE  RequestInv'
  <1>0. HeldInv'
    BY NodeFaultHeld DEF RequestInv
  <1> USE <1>0, NodesAssumption, ProvidersAssumption DEF RequestInv, RequestedBy, AbandonedNotLive,
      Deduplicated, RequestedOnce, Live, InHand, HeldInv, HeldIsTmp, HeldOnce, TornDown,
      TypeOK, Counted, Reserved, AllocStates
  <1>1. CASE AbandonDeleteFails(n)
    BY <1>1 DEF AbandonDeleteFails, Fails, Mishap
  <1>2. CASE AbandonRemoveFails(n)
    BY <1>2 DEF AbandonRemoveFails, Fails, Mishap
  <1>3. CASE ReapDeleteFails(n)
    BY <1>3 DEF ReapDeleteFails, Fails, Mishap
  <1>4. CASE ReapRemoveFails(n)
    BY <1>4 DEF ReapRemoveFails, Fails, Mishap
  <1> QED
    BY <1>1, <1>2, <1>3, <1>4 DEF NodeFault

LEMMA OtherRequest == ASSUME RequestInv, OtherStep PROVE RequestInv'
  <1>0. HeldInv'
    BY OtherHeld DEF RequestInv
  <1> USE <1>0, NodesAssumption, ProvidersAssumption DEF RequestInv, RequestedBy, AbandonedNotLive,
      Deduplicated, RequestedOnce, Live, InHand, HeldInv, HeldIsTmp, HeldOnce, TornDown,
      TypeOK, Counted, Reserved, AllocStates
  <1>1. CASE \E t \in Tasks, n \in Nodes : Start(t, n)
    BY <1>1 DEF Start, Waiting
  <1>2. CASE \E t \in Tasks : Finish(t)
    BY <1>2 DEF Finish
  <1>3. CASE \E n \in Nodes : Connect(n)
    BY <1>3 DEF Connect
  <1>4. CASE \E n \in Nodes : GraceExceeded(n)
    BY <1>4 DEF GraceExceeded, Wanted
  <1>5. CASE \E n \in Nodes : DisableIdle(n)
    BY <1>5 DEF DisableIdle, Free
  <1>6. CASE Restart
    BY <1>6 DEF Restart, Mishap
  <1>7. CASE \E t \in Tasks, n \in Nodes : CommitFails(t, n)
    BY <1>7 DEF CommitFails, Waiting, Fails, Mishap
  <1>8. CASE \E n \in Nodes : Unstick(n)
    BY <1>8 DEF Unstick
  <1> QED
    BY <1>1, <1>2, <1>3, <1>4, <1>5, <1>6, <1>7, <1>8 DEF OtherStep

LEMMA InitRequest == Init => RequestInv
  <1> SUFFICES ASSUME Init PROVE RequestInv
    OBVIOUS
  <1>1. \A n \in Nodes : ~Live(n)
    BY NodesAssumption DEF Init, Live, InHand
  <1>2. RequestedBy /\ AbandonedNotLive
    BY <1>1 DEF Init, RequestedBy, AbandonedNotLive, Live
  <1>3. Deduplicated /\ RequestedOnce
    BY <1>1 DEF Init, Deduplicated, RequestedOnce
  <1> QED
    BY <1>2, <1>3, InitHeld DEF RequestInv

LEMMA NextRequest == RequestInv /\ [Next]_vars => RequestInv'
  <1> SUFFICES ASSUME RequestInv, [Next]_vars PROVE RequestInv'
    OBVIOUS
  <1>1. ASSUME NEW t \in Tasks, AllocateStep(t) PROVE RequestInv'
    BY <1>1, AllocateRequest
  <1>2. ASSUME NEW t \in Tasks, AllocateFault(t) PROVE RequestInv'
    BY <1>2, FaultRequest
  <1>3. ASSUME NEW n \in Nodes, AbandonStep(n) PROVE RequestInv'
    BY <1>3, AbandonRequest
  <1>4. ASSUME NEW n \in Nodes, ReapStep(n) PROVE RequestInv'
    BY <1>4, ReapRequest
  <1>5. ASSUME NEW n \in Nodes, NodeFault(n) PROVE RequestInv'
    BY <1>5, NodeFaultRequest
  <1>6. CASE OtherStep
    BY <1>6, OtherRequest
  <1>7. CASE UNCHANGED vars
    BY <1>7 DEF vars, RequestInv, RequestedBy, AbandonedNotLive, Deduplicated, RequestedOnce,
       Live, InHand, HeldInv, HeldIsTmp, HeldOnce, TornDown, TypeOK
  <1> QED
    BY <1>1, <1>2, <1>3, <1>4, <1>5, <1>6, <1>7, Steps

\* A daemon that does not restart never has two live nodes for one task, for any
\* tasks, workers, providers and failures: between the request and the start of
\* the task the tracker holds the one node there is.
THEOREM OneNodePerTask == Spec => []RequestedOnce
  <1>1. Init => RequestInv
    BY InitRequest
  <1>2. RequestInv /\ [Next]_vars => RequestInv'
    BY NextRequest
  <1>3. RequestInv => RequestedOnce
    BY DEF RequestInv
  <1> QED
    BY <1>1, <1>2, <1>3, PTL DEF Spec

=============================================================================
