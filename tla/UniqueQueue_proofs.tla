------------------------- MODULE UniqueQueue_proofs -------------------------
(***************************************************************************)
(* The safety properties of UniqueQueue for any number of ids, putters,    *)
(* workers and any maxsize.                                                *)
(*                                                                         *)
(* NoDuplicates is not inductive: a put that waits for room inserts its id *)
(* without looking again.  It may, because it holds _put_lock and nobody   *)
(* inserts without that lock: LockedIdIsNew states what the holder relies  *)
(* on, and Inv adds it to the properties.                                  *)
(***************************************************************************)
EXTENDS UniqueQueue, FiniteSetTheorems, TLAPS

\* The id of a put that waits for room with _put_lock held is neither queued
\* nor being processed: the test made before the wait is still true after it.
LockedIdIsNew ==
    putLock # None =>
        /\ putting[putLock] # None
        /\ ~AlreadyAdded(putting[putLock])

Inv ==
    /\ TypeOK
    /\ IsFiniteSet(donePending)
    /\ NoDuplicates
    /\ OneWorkerPerId
    /\ PendingIsHeld
    /\ UnfinishedIsExact
    /\ WithinMaxSize
    /\ LockedIdIsNew

-----------------------------------------------------------------------------
(* What inserting and taking do to the queue. *)

\* Insert(id) appends one element: length, contents and, for a new id, the
\* absence of duplicates.
LEMMA InsertLemma ==
    ASSUME queue \in Seq(Ids), NEW id \in Ids, queue' = Append(queue, id),
           id \notin Queued, \A i, j \in 1..Len(queue) : queue[i] = queue[j] => i = j
    PROVE  /\ queue' \in Seq(Ids)
           /\ Len(queue') = Len(queue) + 1
           /\ Queued' = Queued \cup {id}
           /\ \A i, j \in 1..Len(queue') : queue'[i] = queue'[j] => i = j
  <1>1. queue' \in Seq(Ids) /\ Len(queue') = Len(queue) + 1
    OBVIOUS
  <1>2. \A i \in 1..Len(queue) : queue'[i] = queue[i]
    OBVIOUS
  <1>3. queue'[Len(queue) + 1] = id
    OBVIOUS
  <1>4. Len(queue) \in Nat
    OBVIOUS
  <1>5. Queued' = Queued \cup {id}
    BY <1>1, <1>2, <1>3, <1>4 DEF Queued
  <1>6. \A i, j \in 1..Len(queue') : queue'[i] = queue'[j] => i = j
    BY <1>1, <1>2, <1>3, <1>4 DEF Queued
  <1> QED
    BY <1>1, <1>5, <1>6

\* get() takes the head: the other ids stay, each once.
LEMMA TakeLemma ==
    ASSUME queue \in Seq(Ids), queue # <<>>, queue' = Tail(queue),
           \A i, j \in 1..Len(queue) : queue[i] = queue[j] => i = j
    PROVE  /\ queue' \in Seq(Ids)
           /\ Len(queue') = Len(queue) - 1
           /\ Head(queue) \in Queued
           /\ Queued' = Queued \ {Head(queue)}
           /\ \A i, j \in 1..Len(queue') : queue'[i] = queue'[j] => i = j
  <1>1. queue' \in Seq(Ids) /\ Len(queue') = Len(queue) - 1 /\ Len(queue) \in Nat \ {0}
    OBVIOUS
  <1>2. \A i \in 1..Len(queue') : queue'[i] = queue[i + 1]
    BY <1>1
  <1>3. Head(queue) = queue[1]
    OBVIOUS
  <1>4. \A i, j \in 1..Len(queue') : queue'[i] = queue'[j] => i = j
    BY <1>1, <1>2
  <1>5. Queued' \subseteq Queued \ {Head(queue)}
    BY <1>1, <1>2, <1>3 DEF Queued
  <1>6. ASSUME NEW id \in Queued \ {Head(queue)}
        PROVE  id \in Queued'
    <2>1. PICK i \in 1..Len(queue) : queue[i] = id
      BY DEF Queued
    <2>2. i # 1
      BY <1>3, <1>6, <2>1
    <2>3. i - 1 \in 1..Len(queue') /\ queue'[i - 1] = id
      BY <1>1, <1>2, <2>1, <2>2
    <2> QED
      BY <2>3 DEF Queued
  <1>7. Head(queue) \in Queued
    BY <1>1, <1>3 DEF Queued
  <1> QED
    BY <1>1, <1>4, <1>5, <1>6, <1>7

-----------------------------------------------------------------------------

LEMMA InitInv == Init => Inv
  <1> SUFFICES ASSUME Init PROVE Inv
    OBVIOUS
  <1>1. Queued = {} /\ Len(queue) = 0
    BY DEF Init, Queued
  <1>2. Cardinality(donePending) = 0 /\ IsFiniteSet(donePending)
    BY FS_EmptySet DEF Init
  <1> QED
    BY <1>1, <1>2, MaxSizeAssumption DEF Init, Inv, TypeOK, NoDuplicates,
       OneWorkerPerId, PendingIsHeld, UnfinishedIsExact, WithinMaxSize, LockedIdIsNew

\* An insertion by the holder of an id that is new keeps the invariant: the
\* step PutNew and PutAfterWait share.
LEMMA InsertInv ==
    ASSUME Inv, NEW p \in Putters, NEW id \in Ids,
           putting[p] = id, ~AlreadyAdded(id), ~Full, Insert(id),
           putLock' = None, putting' = [putting EXCEPT ![p] = None],
           UNCHANGED <<donePending, msg>>
    PROVE  Inv'
  <1> USE DEF Inv, TypeOK
  <1>1. /\ queue' \in Seq(Ids) /\ Len(queue') = Len(queue) + 1
        /\ Queued' = Queued \cup {id}
        /\ \A i, j \in 1..Len(queue') : queue'[i] = queue'[j] => i = j
    <2>1. id \notin Queued
      BY DEF AlreadyAdded
    <2> QED
      BY <2>1, InsertLemma DEF Insert, NoDuplicates
  <1>2. TypeOK' /\ IsFiniteSet(donePending)'
    BY <1>1 DEF Insert
  <1>3. NoDuplicates'
    BY <1>1 DEF NoDuplicates, AlreadyAdded
  <1>4. OneWorkerPerId' /\ PendingIsHeld'
    BY DEF OneWorkerPerId, PendingIsHeld
  <1>5. Len(queue) \in Nat /\ Cardinality(donePending) \in Nat
    BY FS_CardinalityType
  <1>6. UnfinishedIsExact'
    BY <1>1, <1>5 DEF UnfinishedIsExact, Insert
  <1>7. WithinMaxSize'
    BY <1>1, <1>5, MaxSizeAssumption DEF WithinMaxSize, Full
  <1>8. LockedIdIsNew'
    BY DEF LockedIdIsNew
  <1> QED
    BY <1>2, <1>3, <1>4, <1>6, <1>7, <1>8

\* The steps of a putter that insert nothing.
LEMMA PutterInv ==
    ASSUME Inv, NEW p \in Putters,
           \/ \E id \in Ids : CallPut(p, id)
           \/ SkipDuplicate(p)
           \/ WaitForRoom(p)
           \/ CancelPut(p)
    PROVE  Inv'
  <1> USE DEF Inv, TypeOK
  <1>1. UNCHANGED <<queue, donePending, unfinished, msg>> /\ Queued' = Queued
    BY DEF CallPut, SkipDuplicate, WaitForRoom, CancelPut, Queued
  <1>2. TypeOK'
    BY <1>1 DEF CallPut, SkipDuplicate, WaitForRoom, CancelPut
  <1>3. /\ IsFiniteSet(donePending)' /\ NoDuplicates' /\ OneWorkerPerId'
        /\ PendingIsHeld' /\ UnfinishedIsExact' /\ WithinMaxSize'
    BY <1>1 DEF NoDuplicates, OneWorkerPerId, PendingIsHeld, UnfinishedIsExact,
                WithinMaxSize
  <1>4. LockedIdIsNew'
    <2>1. CASE \E id \in Ids : CallPut(p, id)
      BY <1>1, <2>1 DEF CallPut, LockedIdIsNew, AlreadyAdded
    <2>2. CASE SkipDuplicate(p)
      BY <1>1, <2>2 DEF SkipDuplicate, LockedIdIsNew, AlreadyAdded
    <2>3. CASE WaitForRoom(p)
      BY <1>1, <2>3 DEF WaitForRoom, LockedIdIsNew, AlreadyAdded
    <2>4. CASE CancelPut(p)
      BY <1>1, <2>4 DEF CancelPut, LockedIdIsNew, AlreadyAdded
    <2> QED
      BY <2>1, <2>2, <2>3, <2>4
  <1> QED
    BY <1>2, <1>3, <1>4

\* get(): the head moves from the queue to the ids being processed.
LEMMA GetInv == ASSUME Inv, NEW w \in Workers, Get(w) PROVE Inv'
  <1> DEFINE id == Head(queue)
  <1> USE DEF Inv, TypeOK
  <1>1. /\ queue' \in Seq(Ids) /\ Len(queue') = Len(queue) - 1
        /\ id \in Queued /\ Queued' = Queued \ {id}
        /\ \A i, j \in 1..Len(queue') : queue'[i] = queue'[j] => i = j
    BY TakeLemma DEF Get, NoDuplicates
  <1>2. id \in Ids /\ id # None /\ Len(queue) \in Nat
    BY NoneAssumption DEF Get
  <1>3. donePending' = donePending \cup {id} /\ id \notin donePending
    BY <1>1 DEF Get, NoDuplicates
  <1>4. /\ IsFiniteSet(donePending')
        /\ Cardinality(donePending') = Cardinality(donePending) + 1
        /\ Cardinality(donePending) \in Nat
    BY <1>3, FS_AddElement, FS_CardinalityType
  <1>5. TypeOK'
    BY <1>1, <1>2, <1>3 DEF Get
  <1>6. NoDuplicates'
    BY <1>1, <1>3 DEF NoDuplicates
  <1>7. msg' = [msg EXCEPT ![w] = id] /\ msg[w] = None
    BY DEF Get
  <1>8. \A v \in Workers : msg[v] # id
    BY <1>2, <1>3 DEF PendingIsHeld
  <1>9. OneWorkerPerId'
    BY <1>7, <1>8 DEF OneWorkerPerId
  <1>10. PendingIsHeld'
    BY <1>2, <1>3, <1>7 DEF PendingIsHeld
  <1>11. UnfinishedIsExact' /\ WithinMaxSize'
    BY <1>1, <1>2, <1>4, MaxSizeAssumption DEF UnfinishedIsExact, WithinMaxSize, Get
  <1>12. LockedIdIsNew'
    BY <1>1, <1>3 DEF LockedIdIsNew, AlreadyAdded, Get
  <1> QED
    BY <1>4, <1>5, <1>6, <1>9, <1>10, <1>11, <1>12

\* item_done(): the id a worker held is not processed any more.
LEMMA ItemDoneInv == ASSUME Inv, NEW w \in Workers, ItemDone(w) PROVE Inv'
  <1> DEFINE id == msg[w]
  <1> USE DEF Inv, TypeOK
  <1>1. /\ donePending' = donePending \ {id} /\ msg' = [msg EXCEPT ![w] = None]
        /\ id # None /\ queue' = queue /\ Queued' = Queued
    BY DEF ItemDone, Queued
  <1>2. id \in donePending
    BY <1>1 DEF PendingIsHeld
  <1>3. /\ IsFiniteSet(donePending')
        /\ Cardinality(donePending') = Cardinality(donePending) - 1
        /\ Cardinality(donePending') \in Nat
        /\ Cardinality(donePending) \in Nat
    BY <1>1, <1>2, FS_RemoveElement, FS_CardinalityType
  <1>4. Len(queue) \in Nat
    OBVIOUS
  <1>5. UnfinishedIsExact'
    BY <1>1, <1>3, <1>4 DEF UnfinishedIsExact, ItemDone
  <1>6. TypeOK'
    BY <1>1, <1>3, <1>4, <1>5 DEF ItemDone, UnfinishedIsExact
  <1>7. NoDuplicates' /\ WithinMaxSize'
    BY <1>1 DEF NoDuplicates, WithinMaxSize
  <1>8. OneWorkerPerId'
    BY <1>1 DEF OneWorkerPerId
  <1>9. PendingIsHeld'
    BY <1>1, NoneAssumption DEF PendingIsHeld, OneWorkerPerId
  <1>10. LockedIdIsNew'
    BY <1>1 DEF LockedIdIsNew, AlreadyAdded, ItemDone
  <1> QED
    BY <1>3, <1>5, <1>6, <1>7, <1>8, <1>9, <1>10

-----------------------------------------------------------------------------

LEMMA NextInv == Inv /\ [Next]_vars => Inv'
  <1> SUFFICES ASSUME Inv, [Next]_vars PROVE Inv'
    OBVIOUS
  <1>1. CASE UNCHANGED vars
    BY <1>1 DEF vars, Inv, TypeOK, NoDuplicates, OneWorkerPerId, PendingIsHeld,
       UnfinishedIsExact, WithinMaxSize, LockedIdIsNew, AlreadyAdded, Queued
  <1>2. ASSUME NEW p \in Putters,
               \/ \E id \in Ids : CallPut(p, id)
               \/ SkipDuplicate(p) \/ WaitForRoom(p) \/ CancelPut(p)
        PROVE  Inv'
    BY <1>2, PutterInv
  <1>3. ASSUME NEW p \in Putters, PutNew(p) PROVE Inv'
    <2>1. putting[p] \in Ids
      BY <1>3 DEF PutNew, Inv, TypeOK
    <2> QED
      BY <1>3, <2>1, InsertInv DEF PutNew
  <1>4. ASSUME NEW p \in Putters, PutAfterWait(p) PROVE Inv'
    <2>1. putLock = p /\ putLock # None
      BY <1>4, NoneAssumption DEF PutAfterWait
    <2>2. putting[p] \in Ids /\ ~AlreadyAdded(putting[p])
      BY <2>1 DEF Inv, TypeOK, LockedIdIsNew
    <2> QED
      BY <1>4, <2>2, InsertInv DEF PutAfterWait
  <1>5. ASSUME NEW w \in Workers, Get(w) \/ ItemDone(w) PROVE Inv'
    BY <1>5, GetInv, ItemDoneInv
  <1> QED
    BY <1>1, <1>2, <1>3, <1>4, <1>5 DEF Next

\* The inductive invariant holds in every reachable state of the queue.
THEOREM Invariant == Spec => []Inv
  <1> QED
    BY InitInv, NextInv, PTL DEF Spec

\* The dedup promise of the queue (queue.py:53-54): an id is queued at most
\* once and never while it is being processed.
THEOREM Deduplicates == Spec => []NoDuplicates
  <1>1. Inv => NoDuplicates
    BY DEF Inv
  <1> QED
    BY <1>1, Invariant, PTL

\* No two workers of a phase have the same id: what Scheduler relies on when it
\* makes a worker's state a function of the task (queue.py:53).
THEOREM OneWorker == Spec => []OneWorkerPerId
  <1>1. Inv => OneWorkerPerId
    BY DEF Inv
  <1> QED
    BY <1>1, Invariant, PTL

\* The bookkeeping of the worker loop (get, item_done): the pending ids are
\* those some worker holds, and join() waits for exactly what is left.
THEOREM CountsAreExact == Spec => [](PendingIsHeld /\ UnfinishedIsExact)
  <1>1. Inv => PendingIsHeld /\ UnfinishedIsExact
    BY DEF Inv
  <1> QED
    BY <1>1, Invariant, PTL

\* A bounded queue holds at most maxsize messages (put() of a suspended putter
\* included), and every variable keeps its type.
THEOREM Bounded == Spec => [](TypeOK /\ WithinMaxSize)
  <1>1. Inv => TypeOK /\ WithinMaxSize
    BY DEF Inv
  <1> QED
    BY <1>1, Invariant, PTL

=============================================================================
