----------------------------- MODULE UniqueQueue -----------------------------
(***************************************************************************)
(* The deduplicating queue between a producer and the workers of one       *)
(* orchestrator phase (yascheduler/application/queue.py), with the callers *)
(* that use it in Orchestrator._create_producer_consumers: putters run     *)
(* `await queue.put(msg)`, workers loop over `msg = await queue.get()`,    *)
(* `consumer(msg)` and `finally: queue.item_done(msg)`.                    *)
(*                                                                         *)
(* A message is represented by its id, the only field __eq__ and __hash__  *)
(* look at.  One action is the code that runs between two suspension       *)
(* points of the event loop.                                               *)
(***************************************************************************)
EXTENDS Integers, Sequences, FiniteSets

CONSTANTS Ids,       \* message ids
          Putters,   \* coroutines that call put()
          Workers,   \* worker coroutines
          MaxSize,   \* maxsize of the queue; 0 means unbounded
          None

ASSUME MaxSizeAssumption == MaxSize \in Nat
ASSUME NoneAssumption == None \notin Ids /\ None \notin Putters

VARIABLES queue,       \* asyncio.Queue._queue
          donePending, \* _done_pending: taken, item_done() not yet called
          unfinished,  \* asyncio.Queue._unfinished_tasks, what join() waits on
          putLock,     \* holder of _put_lock
          putting,     \* the id a putter is putting
          msg          \* the id a worker is processing

vars == <<queue, donePending, unfinished, putLock, putting, msg>>

Queued == {queue[i] : i \in 1..Len(queue)}
Full == MaxSize > 0 /\ Len(queue) >= MaxSize

\* Mutant: only the queue is looked at.
AlreadyQueued(id) == id \in Queued

\* The membership test of put(), made under _put_lock.
AlreadyAdded(id) == id \in Queued \cup donePending

TypeOK ==
    /\ queue \in Seq(Ids)
    /\ donePending \in SUBSET Ids
    /\ unfinished \in Nat
    /\ putLock \in Putters \cup {None}
    /\ putting \in [Putters -> Ids \cup {None}]
    /\ msg \in [Workers -> Ids \cup {None}]

Init ==
    /\ queue = <<>>
    /\ donePending = {}
    /\ unfinished = 0
    /\ putLock = None
    /\ putting = [p \in Putters |-> None]
    /\ msg = [w \in Workers |-> None]

-----------------------------------------------------------------------------
(* put(): `async with self._put_lock`, the membership test, super().put(). *)

\* put(id) is called; it first has to get _put_lock.
CallPut(p, id) ==
    /\ putting[p] = None
    /\ putting' = [putting EXCEPT ![p] = id]
    /\ UNCHANGED <<queue, donePending, unfinished, putLock, msg>>

Insert(id) ==
    /\ queue' = Append(queue, id)
    /\ unfinished' = unfinished + 1

\* The lock is free and the id is known: put() returns without inserting.
SkipDuplicate(p) ==
    /\ putting[p] # None
    /\ putLock = None
    /\ AlreadyAdded(putting[p])
    /\ putting' = [putting EXCEPT ![p] = None]
    /\ UNCHANGED <<queue, donePending, unfinished, putLock, msg>>

\* Mutant: put() does not take _put_lock.
PutNewUnlocked(p) ==
    /\ putting[p] # None
    /\ putLock # p
    /\ ~AlreadyAdded(putting[p])
    /\ ~Full
    /\ Insert(putting[p])
    /\ putting' = [putting EXCEPT ![p] = None]
    /\ UNCHANGED <<donePending, putLock, msg>>

\* The lock is free, the id is new and there is room: put() returns.
PutNew(p) ==
    /\ putting[p] # None
    /\ putLock = None
    /\ ~AlreadyAdded(putting[p])
    /\ ~Full
    /\ Insert(putting[p])
    /\ putting' = [putting EXCEPT ![p] = None]
    /\ UNCHANGED <<donePending, putLock, msg>>

\* The queue is full: asyncio's put() suspends with _put_lock held.
WaitForRoom(p) ==
    /\ putting[p] # None
    /\ putLock = None
    /\ ~AlreadyAdded(putting[p])
    /\ Full
    /\ putLock' = p
    /\ UNCHANGED <<queue, donePending, unfinished, putting, msg>>

\* A slot is free: the suspended put() inserts.  The membership test is
\* not made again.
PutAfterWait(p) ==
    /\ putLock = p
    /\ ~Full
    /\ Insert(putting[p])
    /\ putLock' = None
    /\ putting' = [putting EXCEPT ![p] = None]
    /\ UNCHANGED <<donePending, msg>>

\* Cancellation at either suspension point; `async with` frees the lock.
CancelPut(p) ==
    /\ putting[p] # None
    /\ putLock' = IF putLock = p THEN None ELSE putLock
    /\ putting' = [putting EXCEPT ![p] = None]
    /\ UNCHANGED <<queue, donePending, unfinished, msg>>

-----------------------------------------------------------------------------
(* The worker loop. *)

\* get(): _get() moves the head into _done_pending.
Get(w) ==
    /\ msg[w] = None
    /\ queue # <<>>
    /\ queue' = Tail(queue)
    /\ donePending' = donePending \cup {Head(queue)}
    /\ msg' = [msg EXCEPT ![w] = Head(queue)]
    /\ UNCHANGED <<unfinished, putLock, putting>>

\* Mutant: super().task_done() is not called.
ItemDoneUncounted(w) ==
    /\ msg[w] # None
    /\ donePending' = donePending \ {msg[w]}
    /\ msg' = [msg EXCEPT ![w] = None]
    /\ UNCHANGED <<queue, unfinished, putLock, putting>>

\* Mutant: task_done() is called by the worker as well.
ItemDoneTwice(w) ==
    /\ msg[w] # None
    /\ donePending' = donePending \ {msg[w]}
    /\ unfinished' = unfinished - 2
    /\ msg' = [msg EXCEPT ![w] = None]
    /\ UNCHANGED <<queue, putLock, putting>>

\* Mutant: the exception of a consumer ends its worker.
ItemDoneEndsWorker(w) ==
    /\ msg[w] \in donePending
    /\ donePending' = donePending \ {msg[w]}
    /\ unfinished' = unfinished - 1
    /\ UNCHANGED <<queue, msg, putLock, putting>>

\* The consumer returned, raised or was cancelled: item_done() in `finally`.
ItemDone(w) ==
    /\ msg[w] # None
    /\ donePending' = donePending \ {msg[w]}
    /\ unfinished' = unfinished - 1
    /\ msg' = [msg EXCEPT ![w] = None]
    /\ UNCHANGED <<queue, putLock, putting>>

-----------------------------------------------------------------------------

AcquirePut(p) == SkipDuplicate(p) \/ PutNew(p) \/ WaitForRoom(p)

Next ==
    \/ \E p \in Putters :
          \/ \E id \in Ids : CallPut(p, id)
          \/ SkipDuplicate(p)
          \/ PutNew(p)
          \/ WaitForRoom(p)
          \/ PutAfterWait(p)
          \/ CancelPut(p)
    \/ \E w \in Workers : Get(w) \/ ItemDone(w)

Spec == Init /\ [][Next]_vars

(***************************************************************************)
(* Fairness.  asyncio.Lock wakes its waiters in order, so a putter that    *)
(* waits while the lock is freed again and again gets it: strong fairness. *)
(* A suspended put and the workers are resumed by the event loop, and a    *)
(* consumer returns: weak fairness.  A worker that competes for the head   *)
(* is not singled out: some worker takes it.  Nobody has to call put() or  *)
(* to cancel it.                                                           *)
(***************************************************************************)
Fairness ==
    /\ \A p \in Putters : SF_vars(AcquirePut(p)) /\ WF_vars(PutAfterWait(p))
    /\ WF_vars(\E w \in Workers : Get(w))
    /\ \A w \in Workers : WF_vars(ItemDone(w))

FairSpec == Spec /\ Fairness

-----------------------------------------------------------------------------
(* Properties. *)

\* An id is at most once in the queue and never both queued and being
\* processed: the dedup of put() survives the suspension of a put on a full
\* queue and the workers that run meanwhile (queue.py:54, CLASS_UniqueQueue).
NoDuplicates ==
    /\ \A i, j \in 1..Len(queue) : queue[i] = queue[j] => i = j
    /\ Queued \cap donePending = {}

\* No two workers process the same id, so no task event is handled twice at
\* the same time by overlapping producer cycles (queue.py:53).
OneWorkerPerId ==
    \A v, w \in Workers : msg[v] = msg[w] /\ msg[v] # None => v = w

\* The ids marked as pending are exactly those some worker holds: item_done()
\* never raises KeyError and no id stays blocked after its worker is done
\* (the worker's finally, orchestrator.py:688-689).
PendingIsHeld == donePending = {msg[w] : w \in Workers} \ {None}

\* join() waits for exactly the messages that are queued or in process, so
\* the drain at shutdown neither returns early nor hangs on lost counts.
UnfinishedIsExact == unfinished = Len(queue) + Cardinality(donePending)

\* A bounded queue never exceeds maxsize, although a suspended put inserts
\* without looking at the membership or the lock again.
WithinMaxSize == MaxSize > 0 => Len(queue) <= MaxSize

\* A queued message reaches a worker.
QueuedIsProcessed == \A id \in Ids : (id \in Queued) ~> (id \in donePending)

=============================================================================
