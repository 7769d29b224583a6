------------------------------- MODULE Daemon -------------------------------
(***************************************************************************)
(* Start and stop of the daemon: run_daemon with its signal handlers       *)
(* (yascheduler/entrypoints/cli/daemon_common.py), Orchestrator.start and  *)
(* stop, and the coroutines of _create_producer_consumers as background    *)
(* jobs (yascheduler/application/orchestrator.py).                         *)
(*                                                                         *)
(* A phase is its coordinator, which runs the producer, its workers, and   *)
(* the number of messages in its queue; what the messages do is modelled   *)
(* in Scheduler and Connection.  One action is the code between two awaits.*)
(***************************************************************************)
EXTENDS Integers, FiniteSets

CONSTANTS Phases,        \* the producer-consumer loops
          First,         \* the connect phase, launched before the others
          Limit,         \* workers of a phase
          QueueSize,     \* maxsize of a phase's queue
          Nodes,         \* machines that may be connected
          MaxSignals,    \* SIGTERM and SIGINT received
          EarlySignals,  \* may they come while start() still launches phases?
          SlowConsumers  \* may a message take longer than _DRAIN_TIMEOUT?

ASSUME PhasesAssumption == IsFiniteSet(Phases) /\ First \in Phases /\ "stats" \notin Phases
ASSUME BoundsAssumption == Limit \in Nat \ {0} /\ QueueSize \in Nat \ {0} /\ MaxSignals \in Nat
ASSUME SwitchesAssumption == EarlySignals \in BOOLEAN /\ SlowConsumers \in BOOLEAN

\* The tasks of _bg_jobs.
Stats == <<"stats", 0>>
Coordinator(p) == <<p, 0>>
Coordinators == {Coordinator(p) : p \in Phases}
Workers(p) == {p} \X (1..Limit)
AllWorkers == Phases \X (1..Limit)
Jobs == {Stats} \cup Coordinators \cup AllWorkers

VARIABLES main,        \* the task of run_daemon
          barrier,     \* what _shutdown_barrier() gathers
          bgJobs,      \* _bg_jobs
          job,         \* where each job is
          cancelling,  \* jobs with a CancelledError still to be delivered
          queued,      \* messages in each phase's queue
          stopped,     \* _stopped, and the _cancellation_event that goes with it
          stopAt,      \* where the one stop() that runs its body is
          iteration,   \* its `for task in self._bg_jobs`
          signals,     \* signals received
          sessions,    \* open connections of the repository all components share
          http,        \* is the webhooks' client session open?
          closeFaults  \* closes of a connection that raised

startVars == <<main, barrier>>
jobVars == <<bgJobs, job, cancelling, queued>>
stopVars == <<stopped, stopAt, iteration, signals>>
resources == <<sessions, http, closeFaults>>
vars == <<startVars, jobVars, stopVars, resources>>

Cleaning == {"clouds", "gateway", "http"}
Finished == {"ended", "cancelled"}
Done(j) == job[j] \in Finished
Live == {j \in Jobs : job[j] \notin Finished \cup {"none"}}
\* A job that is at work: it reads the database, uses sessions or the client.
Working == {j \in Jobs : job[j] \in {"produce", "put", "busy"}}

TypeOK ==
    /\ main \in {"first", "barrier", "exiting", "exited"}
    /\ barrier \subseteq Jobs
    /\ bgJobs \subseteq Jobs
    /\ job \in [Jobs -> {"none", "new", "sleep", "produce", "put", "drain", "gather",
                         "get", "busy"} \cup Finished]
    /\ cancelling \subseteq Jobs
    /\ queued \in [Phases -> 0..QueueSize]
    /\ stopped \in BOOLEAN
    /\ stopAt \in {"idle", "loop", "over", "aborted"} \cup Cleaning
    /\ iteration \in [size : Nat, awaited : Jobs]
    /\ signals \in 0..MaxSignals
    /\ sessions \subseteq Nodes
    /\ http \in BOOLEAN
    /\ closeFaults \in Nat

-----------------------------------------------------------------------------
(* start(). *)

\* What is left of the loop of stop() before and after it.
NoIteration == [size |-> 0, awaited |-> Stats]

\* The daemon is built and start() waits for a first machine: the statistics
\* and the connect phase are created as tasks.
Init ==
    /\ main = "first"
    /\ barrier = {}
    /\ bgJobs = {Stats, Coordinator(First)}
    /\ job = [j \in Jobs |-> IF j = Stats THEN "sleep"
                            ELSE IF j = Coordinator(First) THEN "new" ELSE "none"]
    /\ cancelling = {}
    /\ queued = [p \in Phases |-> 0]
    /\ stopped = FALSE
    /\ stopAt = "idle"
    /\ iteration = NoIteration
    /\ signals = 0
    /\ sessions = {}
    /\ http = TRUE
    /\ closeFaults = 0

Launched == {Coordinator(p) : p \in Phases \ {First}}

\* A machine is connected, 30 seconds have passed, or both waits are
\* cancelled: start() goes on, whether or not stop() runs.
FirstMachine ==
    /\ main = "first"
    /\ main' = "barrier"
    /\ bgJobs' = bgJobs \cup Launched
    /\ barrier' = bgJobs'
    /\ job' = [j \in Jobs |-> IF j \in Launched THEN "new" ELSE job[j]]
    /\ UNCHANGED <<cancelling, queued, stopVars, resources>>

\* A CancelledError ends the clean-up of stop() where it awaits a close, unless
\* the wait for a session's monitor suppresses it (session.py:431).  In stop()'s
\* loop it is taken for the awaited job's.
Closing == (stopAt \in {"clouds", "gateway"} /\ sessions # {}) \/ stopAt = "http"

CancelsStop == stopAt' = stopAt \/ (Closing /\ stopAt' = "aborted")

\* Everything the barrier gathered has ended: start() returns, the stop() of
\* the finally finds _stopped set, and asyncio.run() cancels every other task.
BarrierEnds ==
    /\ main = "barrier"
    /\ \A j \in barrier : Done(j)
    /\ main' = "exiting"
    /\ cancelling' = cancelling \cup Live
    /\ CancelsStop
    /\ UNCHANGED <<barrier, bgJobs, job, queued, stopped, iteration, signals, resources>>

\* asyncio.run() returns when the tasks it cancelled have ended.
Exit ==
    /\ main = "exiting"
    /\ Live = {}
    /\ stopAt \notin Cleaning \cup {"loop"}
    /\ main' = "exited"
    /\ UNCHANGED <<barrier, jobVars, stopVars, resources>>

-----------------------------------------------------------------------------
(* The background jobs. *)

Goes(j, to) == job' = [job EXCEPT ![j] = to]

JobStep(j, from, to) ==
    /\ job[j] = from
    /\ j \notin cancelling
    /\ Goes(j, to)

\* _print_stats(): a pass that changes nothing and a sleep, until the event is
\* set.  Before its first pass it is at the same test as after a sleep.
StatsLoop ==
    /\ stopped
    /\ JobStep(Stats, "sleep", "ended")
    /\ UNCHANGED <<startVars, bgJobs, cancelling, queued, stopVars, resources>>

\* Mutant: the workers are kept in the local set only.
CoordinatorStartsLocally(p) ==
    /\ job[Coordinator(p)] = "new"
    /\ Coordinator(p) \notin cancelling
    /\ bgJobs' = bgJobs
    /\ job' = [j \in Jobs |->
                 IF j \in Workers(p) THEN "new"
                 ELSE IF j = Coordinator(p) THEN (IF stopped THEN "ended" ELSE "produce")
                 ELSE job[j]]
    /\ UNCHANGED <<startVars, cancelling, queued, stopVars, resources>>

\* The coordinator registers its workers before it looks at the event.
CoordinatorStarts(p) ==
    /\ job[Coordinator(p)] = "new"
    /\ Coordinator(p) \notin cancelling
    /\ bgJobs' = bgJobs \cup Workers(p)
    /\ job' = [j \in Jobs |->
                 IF j \in Workers(p) THEN "new"
                 ELSE IF j = Coordinator(p) THEN (IF stopped THEN "ended" ELSE "produce")
                 ELSE job[j]]
    /\ UNCHANGED <<startVars, cancelling, queued, stopVars, resources>>

\* The producer yields a message, or has none left or fails.
Produce(p) ==
    /\ \/ JobStep(Coordinator(p), "produce", "put")
       \/ JobStep(Coordinator(p), "produce", "sleep")
    /\ UNCHANGED <<startVars, bgJobs, cancelling, queued, stopVars, resources>>

\* The put of a message waits for room.
Put(p) ==
    /\ queued[p] < QueueSize
    /\ JobStep(Coordinator(p), "put", "produce")
    /\ queued' = [queued EXCEPT ![p] = @ + 1]
    /\ UNCHANGED <<startVars, bgJobs, cancelling, stopVars, resources>>

\* After its sleep a coordinator that sees the event returns; its workers are
\* left to see it too.
NextTick(p) ==
    /\ JobStep(Coordinator(p), "sleep", IF stopped THEN "ended" ELSE "produce")
    /\ UNCHANGED <<startVars, bgJobs, cancelling, queued, stopVars, resources>>

WorkerStarts(w) ==
    /\ JobStep(w, "new", IF stopped THEN "ended" ELSE "get")
    /\ UNCHANGED <<startVars, bgJobs, cancelling, queued, stopVars, resources>>

Get(w) ==
    /\ queued[w[1]] > 0
    /\ JobStep(w, "get", "busy")
    /\ queued' = [queued EXCEPT ![w[1]] = @ - 1]
    /\ UNCHANGED <<startVars, bgJobs, cancelling, stopVars, resources>>

\* The consumer returns or fails; one of the connect phase may have connected
\* a machine, one of the others leaves the sessions as they are.
ItemDone(w) ==
    /\ JobStep(w, "busy", IF stopped THEN "ended" ELSE "get")
    /\ \/ sessions' = sessions
       \/ w[1] = First /\ \E n \in Nodes : sessions' = sessions \cup {n}
    /\ UNCHANGED <<startVars, bgJobs, cancelling, queued, stopVars, http, closeFaults>>

\* A CancelledError reaches a worker or the statistics: they end.  item_done()
\* runs on the way.
Interrupted(j) ==
    /\ j \in cancelling \ Coordinators
    /\ job[j] \in {"new", "sleep", "get", "busy"}
    /\ Goes(j, "cancelled")
    /\ cancelling' = cancelling \ {j}
    /\ UNCHANGED <<startVars, bgJobs, queued, stopVars, resources>>

\* The consumer suppresses it while it closes a session (session.py:431), and
\* goes on to its end.
Suppressed(w) ==
    /\ w \in cancelling
    /\ job[w] = "busy"
    /\ cancelling' = cancelling \ {w}
    /\ UNCHANGED <<startVars, bgJobs, job, queued, stopVars, resources>>

\* A coordinator that had not begun never does.
NeverStarts(p) ==
    /\ Coordinator(p) \in cancelling
    /\ job[Coordinator(p)] = "new"
    /\ Goes(Coordinator(p), "cancelled")
    /\ cancelling' = cancelling \ {Coordinator(p)}
    /\ UNCHANGED <<startVars, bgJobs, queued, stopVars, resources>>

LetWorkersGo(p) ==
    /\ Goes(Coordinator(p), "gather")
    /\ cancelling' = (cancelling \ {Coordinator(p)}) \cup (Workers(p) \cap Live)

\* A CancelledError in the producer, the put or the sleep (the rest of the tick
\* is slept first) leads to the drain, unless the queue is empty.
BeginDrain(p) ==
    /\ Coordinator(p) \in cancelling
    /\ job[Coordinator(p)] \in {"produce", "put", "sleep"}
    /\ IF queued[p] = 0
       THEN LetWorkersGo(p)
       ELSE /\ Goes(Coordinator(p), "drain")
            /\ cancelling' = cancelling \ {Coordinator(p)}
    /\ UNCHANGED <<startVars, bgJobs, queued, stopVars, resources>>

\* join() returns when every message taken is done with and none is queued.
Joined(p) == queued[p] = 0 /\ \A w \in Workers(p) : job[w] # "busy"

\* Workers that could still take a message, or have one.
Draining(p) == \E w \in Workers(p) : job[w] = "busy" \/ (job[w] \in {"new", "get"} /\ queued[p] > 0)

\* Mutant: join() without wait_for().
DrainEndsByJoin(p) ==
    /\ job[Coordinator(p)] = "drain"
    /\ Coordinator(p) \notin cancelling
    /\ Joined(p)
    /\ LetWorkersGo(p)
    /\ UNCHANGED <<startVars, bgJobs, queued, stopVars, resources>>

DrainEnds(p) ==
    /\ job[Coordinator(p)] = "drain"
    /\ Coordinator(p) \notin cancelling
    /\ Joined(p) \/ SlowConsumers \/ ~Draining(p)
    /\ LetWorkersGo(p)
    /\ UNCHANGED <<startVars, bgJobs, queued, stopVars, resources>>

\* A second CancelledError in the drain or the gather leaves the workers alone.
DrainCancelled(p) ==
    /\ Coordinator(p) \in cancelling
    /\ job[Coordinator(p)] \in {"drain", "gather"}
    /\ Goes(Coordinator(p), "cancelled")
    /\ cancelling' = cancelling \ {Coordinator(p)}
    /\ UNCHANGED <<startVars, bgJobs, queued, stopVars, resources>>

Gathered(p) ==
    /\ \A w \in Workers(p) : Done(w)
    /\ JobStep(Coordinator(p), "gather", "ended")
    /\ UNCHANGED <<startVars, bgJobs, cancelling, queued, stopVars, resources>>

-----------------------------------------------------------------------------
(* Signals and stop(). *)

\* start() has launched every phase, and their coordinators have begun.
Up == main = "barrier" /\ \A p \in Phases : job[Coordinator(p)] \notin {"none", "new"}

Receives ==
    /\ signals < MaxSignals
    /\ main \in {"first", "barrier"}
    /\ EarlySignals \/ Up
    /\ signals' = signals + 1

\* stop() cancels the next of its jobs and awaits it.  What it does to one that
\* has ended has no effect, and no await.
Cancels(j) ==
    /\ iteration' = [size |-> Cardinality(bgJobs), awaited |-> j]
    /\ cancelling' = cancelling \cup {j}

\* The first signal: its handler runs the body of stop().
FirstSignal ==
    /\ Receives
    /\ ~stopped
    /\ stopped' = TRUE
    /\ stopAt' = "loop"
    /\ \E j \in bgJobs \cap Live : Cancels(j)
    /\ UNCHANGED <<startVars, bgJobs, job, queued, resources>>

\* A later one: its stop() returns at once, and it cancels every task but the
\* main one, also the handler that is in stop().
LaterSignal ==
    /\ Receives
    /\ stopped
    /\ cancelling' = cancelling \cup Live
    /\ CancelsStop
    /\ UNCHANGED <<startVars, bgJobs, job, queued, stopped, iteration, resources>>

\* The awaited job has ended and _bg_jobs has not grown: the loop goes on.
Iterates == stopAt = "loop" /\ Done(iteration.awaited) /\ Cardinality(bgJobs) = iteration.size

NextJob ==
    /\ Iterates
    /\ \E j \in bgJobs \cap Live : Cancels(j)
    /\ UNCHANGED <<startVars, bgJobs, job, queued, stopped, stopAt, signals, resources>>

\* "Set changed size during iteration": the RuntimeError leaves stop() and its
\* handler, which cancels nothing.
SetChanged ==
    /\ stopAt = "loop"
    /\ Done(iteration.awaited)
    /\ Cardinality(bgJobs) # iteration.size
    /\ stopAt' = "aborted"
    /\ iteration' = NoIteration
    /\ UNCHANGED <<startVars, jobVars, stopped, signals, resources>>

LoopEnds ==
    /\ Iterates
    /\ bgJobs \cap Live = {}
    /\ stopAt' = "clouds"
    /\ iteration' = NoIteration
    /\ UNCHANGED <<startVars, jobVars, stopped, signals, resources>>

\* Mutant: one try around both passes.
FollowingEnds == [clouds |-> "http", gateway |-> "http"]

\* clouds.stop() and disconnect_all() close the sessions of one repository.
Following == [clouds |-> "gateway", gateway |-> "http"]

CloseSession(n) ==
    /\ stopAt \in {"clouds", "gateway"}
    /\ n \in sessions
    /\ sessions' = sessions \ {n}
    /\ UNCHANGED <<startVars, jobVars, stopVars, http, closeFaults>>

\* A close that raises ends the step and not the stop.
CloseRaises(n) ==
    /\ stopAt \in {"clouds", "gateway"}
    /\ n \in sessions
    /\ sessions' = sessions \ {n}
    /\ closeFaults' = closeFaults + 1
    /\ stopAt' = Following[stopAt]
    /\ UNCHANGED <<startVars, jobVars, stopped, iteration, signals, http>>

SessionsClosed ==
    /\ stopAt \in {"clouds", "gateway"}
    /\ sessions = {}
    /\ stopAt' = Following[stopAt]
    /\ UNCHANGED <<startVars, jobVars, stopped, iteration, signals, resources>>

\* stop() returns, and the handler cancels what is outstanding.
CloseHttp ==
    /\ stopAt = "http"
    /\ http' = FALSE
    /\ stopAt' = "over"
    /\ cancelling' = cancelling \cup Live
    /\ UNCHANGED <<startVars, bgJobs, job, queued, stopped, iteration, signals, sessions, closeFaults>>

-----------------------------------------------------------------------------
CoordinatorStep(p) ==
    \/ CoordinatorStarts(p) \/ Produce(p) \/ Put(p) \/ NextTick(p)
    \/ NeverStarts(p) \/ BeginDrain(p) \/ DrainEnds(p) \/ DrainCancelled(p) \/ Gathered(p)

WorkerStep(w) == WorkerStarts(w) \/ Get(w) \/ ItemDone(w) \/ Suppressed(w)

StartStep == FirstMachine \/ BarrierEnds \/ Exit

StopStep ==
    \/ NextJob \/ SetChanged \/ LoopEnds
    \/ \E n \in Nodes : CloseSession(n) \/ CloseRaises(n)
    \/ SessionsClosed \/ CloseHttp

EventLoop ==
    \/ StartStep
    \/ StatsLoop
    \/ \E p \in Phases : CoordinatorStep(p)
    \/ \E w \in AllWorkers : WorkerStep(w)
    \/ \E j \in Jobs : Interrupted(j)
    \/ StopStep

Next == EventLoop \/ FirstSignal \/ LaterSignal

Spec == Init /\ [][Next]_vars

\* The event loop goes on while some task can: the first machine is waited for
\* 30 seconds, a consumer returns.  Which task is resumed does not matter, and
\* nobody need send a signal.
Fairness == WF_vars(EventLoop)

FairSpec == Spec /\ Fairness

-----------------------------------------------------------------------------
(* Properties. *)

\* When the clean-up of stop() begins, and ever after, no producer and no
\* worker is at work: no session is closed under a deployment, none is opened
\* behind disconnect_all(), no webhook is sent on a closed client, however many
\* signals shorten the drains and whatever start() launches meanwhile.
QuietCleanup == stopAt \in Cleaning \cup {"over"} => Working = {}

\* A stop() that returns has closed everything, although a close may raise: the
\* second pass over the shared repository takes what the first one left.
NothingLeftOpen ==
    stopAt = "over" => ~http /\ (sessions = {} \/ closeFaults > 1)

\* "Bounded so shutdown always completes" (orchestrator.py:71): once stop() goes
\* through a _bg_jobs that no phase will add to, the daemon ends, whatever its
\* jobs were doing, in whatever order they are cancelled, and whether or not a
\* later signal cancels a drain.
ExitsOnSignal ==
    stopAt = "loop" /\ iteration.size = Cardinality(Jobs) ~> main = "exited"

\* The same of every signal, also of one that finds phases still to begin.
ExitsOnAnySignal == stopped ~> main = "exited"

\* "on stop the in-flight items drain and all SSH connections close"
\* (openspec/specs/orchestrator/spec.md:22): the process does not end before.
ExitAfterCleanup == main = "exited" => sessions = {}

\* "gracefully drain work on shutdown" (orchestrator.py:664): a drain whose
\* workers nobody cancelled empties the queue.
DrainLeavesNothing ==
    [][\A p \in Phases :
        /\ job[Coordinator(p)] = "drain" /\ Coordinator(p) \notin cancelling
        /\ job'[Coordinator(p)] # "drain"
        /\ \A w \in Workers(p) : w \notin cancelling /\ job[w] # "cancelled"
        => queued[p] = 0]_vars
=============================================================================
