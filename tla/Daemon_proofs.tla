--------------------------- MODULE Daemon_proofs ---------------------------
(***************************************************************************)
(* Theorems about start and stop of the daemon, for any phases, workers,   *)
(* queue sizes, machines and signals, at any time.                         *)
(*                                                                         *)
(* The loop of stop() ends when every registered job has, and a job is     *)
(* registered in the step that creates it (RegisteredInv).  What start()   *)
(* launches later has the event set before it begins, so once the loop is  *)
(* over no job gets further than its first look at the event (AfterInv),   *)
(* and sessions are only closed.                                           *)
(***************************************************************************)
EXTENDS Daemon, FiniteSetTheorems, TLAPS

After == Cleaning \cup {"over"}

RegisteredInv == \A j \in Jobs : j \in bgJobs <=> job[j] # "none"

LaunchInv == main = "first" => \A p \in Phases \ {First} : job[Coordinator(p)] = "none"

WorkersInv ==
    \A p \in Phases : job[Coordinator(p)] \in {"none", "new"} =>
        \A w \in Workers(p) : job[w] = "none"

AfterInv == stopAt \in After => \A j \in Jobs : job[j] \in {"none", "new"} \cup Finished

JobsInv == RegisteredInv /\ LaunchInv /\ WorkersInv /\ AfterInv

StoppedInv == stopAt # "idle" => stopped

ClosedInv ==
    /\ stopAt = "gateway" => sessions = {} \/ closeFaults >= 1
    /\ stopAt \in {"http", "over"} => sessions = {} \/ closeFaults >= 2
    /\ stopAt = "over" => ~http

DaemonInv == TypeOK /\ JobsInv /\ StoppedInv /\ ClosedInv

-----------------------------------------------------------------------------
(* The jobs. *)

\* The statistics, the coordinators and the workers are different tasks.
LEMMA JobKinds ==
    /\ Stats \in Jobs
    /\ \A p \in Phases : Coordinator(p) \in Jobs /\ Coordinator(p) # Stats
    /\ \A p, q \in Phases : Coordinator(p) = Coordinator(q) => p = q
    /\ \A p \in Phases : Workers(p) \subseteq AllWorkers
    /\ AllWorkers \subseteq Jobs
    /\ \A w \in AllWorkers : w[1] \in Phases /\ w \in Workers(w[1]) /\ w # Stats
    /\ \A w \in AllWorkers, p \in Phases : w # Coordinator(p)
    /\ \A p, q \in Phases : \A w \in Workers(p) : w \in Workers(q) => p = q
<1> USE PhasesAssumption, BoundsAssumption DEF Stats, Coordinator, Workers, AllWorkers
<1>1. Stats \in Jobs
  BY DEF Jobs
<1>2. \A p \in Phases : Coordinator(p) \in Jobs /\ Coordinator(p) # Stats
  BY DEF Jobs, Coordinators
<1>3. \A p, q \in Phases : Coordinator(p) = Coordinator(q) => p = q
  OBVIOUS
<1>4. \A p \in Phases : Workers(p) \subseteq AllWorkers
  OBVIOUS
<1>5. AllWorkers \subseteq Jobs
  BY DEF Jobs
<1>6. ASSUME NEW w \in AllWorkers PROVE w[1] \in Phases /\ w \in Workers(w[1]) /\ w # Stats
  <2>1. PICK p \in Phases, i \in 1..Limit : w = <<p, i>>
    OBVIOUS
  <2> QED BY <2>1
<1>7. \A w \in AllWorkers, p \in Phases : w # Coordinator(p)
  OBVIOUS
<1>8. \A p, q \in Phases : \A w \in Workers(p) : w \in Workers(q) => p = q
  OBVIOUS
<1> HIDE DEF Stats, Coordinator, Workers, AllWorkers
<1> QED BY <1>1, <1>2, <1>3, <1>4, <1>5, <1>6, <1>7, <1>8

\* There are finitely many tasks, so the size of _bg_jobs is a number.
LEMMA JobsFinite == \A S \in SUBSET Jobs : IsFiniteSet(S) /\ Cardinality(S) \in Nat
<1>1. IsFiniteSet(1..Limit)
  BY BoundsAssumption, FS_Interval
<1>2. IsFiniteSet(AllWorkers)
  BY <1>1, PhasesAssumption, FS_Product DEF AllWorkers
<1>3. IsFiniteSet({Stats})
  BY FS_Singleton
<1>4. IsFiniteSet(Coordinators)
  <2>1. Coordinators = Phases \X {0}
    BY DEF Coordinators, Coordinator
  <2> QED BY <2>1, PhasesAssumption, FS_Product, FS_Singleton
<1>5. IsFiniteSet(Jobs)
  BY <1>2, <1>3, <1>4, FS_Union DEF Jobs
<1> QED BY <1>5, FS_Subset, FS_CardinalityType

\* One job goes on from a state of its own.  Once stop() has left its loop it
\* may only end.
LEMMA JobMoves ==
    ASSUME DaemonInv, NEW j \in Jobs, NEW to,
           job[j] \notin Finished \cup {"none"}, to \notin {"none", "new"},
           job' = [job EXCEPT ![j] = to], stopAt \in After => to \in Finished,
           UNCHANGED <<startVars, bgJobs, stopAt>>
    PROVE  JobsInv'
<1> USE DEF DaemonInv, JobsInv, TypeOK
<1>1. \A i \in Jobs : job'[i] = IF i = j THEN to ELSE job[i]
  OBVIOUS
<1>2. \A i \in Jobs : (job'[i] = "none" <=> job[i] = "none") /\ (job'[i] = "new" => job[i] = "new")
  BY <1>1
<1>3. RegisteredInv'
  BY <1>2 DEF RegisteredInv
<1>4. LaunchInv'
  BY <1>2, JobKinds DEF LaunchInv, startVars
<1>5. WorkersInv'
  BY <1>2, JobKinds DEF WorkersInv
<1>6. AfterInv'
  BY <1>1 DEF AfterInv, After, Cleaning
<1> QED BY <1>3, <1>4, <1>5, <1>6

\* A step that touches neither the jobs nor what stop() knows of them.
LEMMA JobsStay ==
    ASSUME JobsInv, UNCHANGED <<main, bgJobs, job, stopAt>>
    PROVE  JobsInv'
BY DEF JobsInv, RegisteredInv, LaunchInv, WorkersInv, AfterInv, Done

-----------------------------------------------------------------------------
(* The initial states and each step. *)

LEMMA InitInv == Init => DaemonInv
<1> SUFFICES ASSUME Init PROVE DaemonInv
  OBVIOUS
<1>1. TypeOK
  <2>1. iteration \in [size : Nat, awaited : Jobs]
    BY JobKinds DEF Init, NoIteration
  <2>2. queued \in [Phases -> 0..QueueSize]
    BY BoundsAssumption DEF Init
  <2>3. bgJobs \subseteq Jobs
    BY JobKinds, PhasesAssumption DEF Init
  <2>4. job \in [Jobs -> {"none", "new", "sleep"}]
    BY DEF Init
  <2>5. signals \in 0..MaxSignals /\ closeFaults \in Nat
    BY BoundsAssumption DEF Init
  <2>6. /\ main \in {"first", "barrier", "exiting", "exited"}
        /\ barrier \subseteq Jobs /\ cancelling \subseteq Jobs
        /\ stopped \in BOOLEAN /\ http \in BOOLEAN /\ sessions \subseteq Nodes
        /\ stopAt \in {"idle", "loop", "over", "aborted"} \cup Cleaning
    BY DEF Init
  <2> QED BY <2>1, <2>2, <2>3, <2>4, <2>5, <2>6 DEF TypeOK
<1>2. RegisteredInv
  BY DEF Init, RegisteredInv
<1>3. AfterInv
  BY DEF Init, AfterInv, After, Cleaning
<1>4. LaunchInv
  BY JobKinds, PhasesAssumption DEF Init, LaunchInv
<1>5. ASSUME NEW p \in Phases, NEW w \in Workers(p) PROVE job[w] = "none"
  BY JobKinds, PhasesAssumption DEF Init
<1>6. WorkersInv
  BY <1>5 DEF WorkersInv
<1>7. StoppedInv /\ ClosedInv
  BY DEF Init, StoppedInv, ClosedInv
<1> QED BY <1>1, <1>2, <1>3, <1>4, <1>6, <1>7 DEF DaemonInv, JobsInv

\* start() launches the other phases, and run_daemon leaves.
LEMMA StartSteps == DaemonInv /\ StartStep => DaemonInv'
<1> SUFFICES ASSUME DaemonInv, StartStep PROVE DaemonInv'
  OBVIOUS
<1> USE DEF DaemonInv
<1>1. CASE FirstMachine
  <2> USE <1>1 DEF FirstMachine
  <2>1. Launched \subseteq Jobs /\ \A j \in Launched : job[j] = "none" /\ j \notin AllWorkers
    BY JobKinds DEF Launched, JobsInv, LaunchInv
  <2>2. \A j \in Jobs : job'[j] = IF j \in Launched THEN "new" ELSE job[j]
    OBVIOUS
  <2>3. TypeOK'
    BY <2>1, <2>2 DEF TypeOK, stopVars, resources
  <2>4. RegisteredInv' /\ LaunchInv'
    BY <2>1, <2>2 DEF JobsInv, RegisteredInv, LaunchInv
  <2>5. WorkersInv'
    BY <2>1, <2>2, JobKinds DEF JobsInv, WorkersInv
  <2>6. AfterInv'
    BY <2>2 DEF JobsInv, AfterInv, stopVars
  <2>7. StoppedInv' /\ ClosedInv'
    BY DEF StoppedInv, ClosedInv, stopVars, resources
  <2> QED BY <2>3, <2>4, <2>5, <2>6, <2>7 DEF JobsInv
<1>2. CASE BarrierEnds
  <2> USE <1>2 DEF BarrierEnds, CancelsStop, Closing
  <2>1. TypeOK'
    BY DEF TypeOK, Live, resources, Cleaning
  <2>2. JobsInv'
    BY DEF JobsInv, RegisteredInv, LaunchInv, WorkersInv, AfterInv, After, Cleaning, Done
  <2>3. StoppedInv' /\ ClosedInv'
    BY DEF StoppedInv, ClosedInv, resources
  <2> QED BY <2>1, <2>2, <2>3
<1>3. CASE Exit
  <2> USE <1>3 DEF Exit, jobVars, stopVars, resources
  <2>1. JobsInv'
    BY DEF JobsInv, RegisteredInv, LaunchInv, WorkersInv, AfterInv, Done
  <2> QED BY <2>1 DEF TypeOK, StoppedInv, ClosedInv
<1> QED BY <1>1, <1>2, <1>3 DEF StartStep

\* What a step of one job leaves alone; the workers of the connect phase may
\* connect a machine.
LEMMA OneJobMoves ==
    ASSUME DaemonInv, NEW j \in Jobs, NEW to,
           job[j] \notin Finished \cup {"none"},
           to \in {"sleep", "produce", "put", "drain", "gather", "get", "busy"} \cup Finished,
           Goes(j, to), stopAt \in After => to \in Finished,
           cancelling' \subseteq Jobs, queued' \in [Phases -> 0..QueueSize],
           UNCHANGED <<startVars, bgJobs, stopVars, resources>>
    PROVE  DaemonInv'
<1>1. JobsInv'
  BY JobMoves DEF Goes, stopVars, Finished
<1>2. TypeOK'
  BY DEF DaemonInv, TypeOK, Goes, startVars, stopVars, resources
<1>3. StoppedInv' /\ ClosedInv'
  BY DEF DaemonInv, StoppedInv, ClosedInv, stopVars, resources
<1> QED BY <1>1, <1>2, <1>3 DEF DaemonInv

\* Nothing is queued, taken or produced once stop() has left its loop.
LEMMA Quiet ==
    ASSUME DaemonInv, stopAt \in After
    PROVE  stopped /\ \A j \in Jobs : job[j] \in {"none", "new"} \cup Finished
BY DEF DaemonInv, JobsInv, AfterInv, StoppedInv, After, Cleaning

LEMMA StatsSteps == DaemonInv /\ StatsLoop => DaemonInv'
<1> SUFFICES ASSUME DaemonInv, StatsLoop PROVE DaemonInv'
  OBVIOUS
<1>1. /\ Goes(Stats, "ended")
      /\ job[Stats] \notin Finished \cup {"none"}
      /\ cancelling' \subseteq Jobs /\ queued' \in [Phases -> 0..QueueSize]
      /\ UNCHANGED <<startVars, bgJobs, stopVars, resources>>
  BY DEF StatsLoop, JobStep, Finished, DaemonInv, TypeOK
<1> QED BY <1>1, OneJobMoves, JobKinds DEF Finished

LEMMA CoordinatorSteps == ASSUME DaemonInv, NEW p \in Phases, CoordinatorStep(p) PROVE DaemonInv'
<1> DEFINE c == Coordinator(p)
<1>1. c \in Jobs /\ Workers(p) \subseteq Jobs /\ c \notin AllWorkers
  BY JobKinds
<1>2. cancelling \subseteq Jobs /\ queued \in [Phases -> 0..QueueSize] /\ QueueSize \in Nat
  BY BoundsAssumption DEF DaemonInv, TypeOK
<1>3. CASE CoordinatorStarts(p)
  <2> USE <1>3 DEF CoordinatorStarts
  <2>1. job[c] = "new" /\ \A w \in Workers(p) : job[w] = "none"
    BY DEF DaemonInv, JobsInv, WorkersInv
  <2>2. \A j \in Jobs : job'[j] = IF j \in Workers(p) THEN "new"
                                  ELSE IF j = c THEN (IF stopped THEN "ended" ELSE "produce")
                                  ELSE job[j]
    OBVIOUS
  <2>3. TypeOK'
    BY <1>1, <2>2 DEF DaemonInv, TypeOK, startVars, stopVars, resources, Finished
  <2>4. RegisteredInv'
    BY <1>1, <2>1, <2>2 DEF DaemonInv, JobsInv, RegisteredInv
  <2>5. LaunchInv'
    BY <1>1, <2>1, <2>2, JobKinds DEF DaemonInv, JobsInv, LaunchInv, startVars
  <2>6. WorkersInv'
    BY <1>1, <2>1, <2>2, JobKinds DEF DaemonInv, JobsInv, WorkersInv
  <2>7. AfterInv'
    BY <2>2, Quiet DEF AfterInv, stopVars, Finished
  <2>8. StoppedInv' /\ ClosedInv'
    BY DEF DaemonInv, StoppedInv, ClosedInv, stopVars, resources
  <2> QED BY <2>3, <2>4, <2>5, <2>6, <2>7, <2>8 DEF DaemonInv, JobsInv
<1>4. CASE Produce(p)
  <2>1. PICK to \in {"put", "sleep"} : JobStep(c, "produce", to)
    BY <1>4 DEF Produce
  <2>2. stopAt \notin After /\ job[c] = "produce" /\ Goes(c, to)
    BY <1>1, <2>1, Quiet DEF JobStep, Finished
  <2> QED BY <1>1, <1>2, <1>4, <2>2, OneJobMoves DEF Produce, Finished
<1>5. CASE Put(p)
  <2>1. stopAt \notin After /\ job[c] = "put" /\ Goes(c, "produce")
    BY <1>1, <1>5, Quiet DEF Put, JobStep, Finished
  <2>2. queued' \in [Phases -> 0..QueueSize]
    BY <1>2, <1>5 DEF Put
  <2> QED BY <1>1, <1>2, <1>5, <2>1, <2>2, OneJobMoves DEF Put, Finished
<1>6. CASE NextTick(p)
  <2>1. stopAt \notin After /\ job[c] = "sleep"
        /\ Goes(c, IF stopped THEN "ended" ELSE "produce")
    BY <1>1, <1>6, Quiet DEF NextTick, JobStep, Finished
  <2>2. (IF stopped THEN "ended" ELSE "produce") \in {"ended", "produce"}
    OBVIOUS
  <2> QED BY <1>1, <1>2, <1>6, <2>1, <2>2, OneJobMoves DEF NextTick, Finished
<1>7. CASE NeverStarts(p)
  BY <1>1, <1>2, <1>7, OneJobMoves DEF NeverStarts, Finished
<1>8. CASE BeginDrain(p)
  <2>1. stopAt \notin After
    BY <1>1, <1>8, Quiet DEF BeginDrain, Finished
  <2>2. PICK to \in {"gather", "drain"} : Goes(c, to) /\ cancelling' \subseteq Jobs
    BY <1>1, <1>2, <1>8 DEF BeginDrain, LetWorkersGo
  <2> QED BY <1>1, <1>2, <1>8, <2>1, <2>2, OneJobMoves DEF BeginDrain, Finished
<1>9. CASE DrainEnds(p)
  <2>1. stopAt \notin After
    BY <1>1, <1>9, Quiet DEF DrainEnds, Finished
  <2>2. Goes(c, "gather") /\ cancelling' \subseteq Jobs
    BY <1>1, <1>2, <1>9 DEF DrainEnds, LetWorkersGo
  <2> QED BY <1>1, <1>2, <1>9, <2>1, <2>2, OneJobMoves DEF DrainEnds, Finished
<1>10. CASE DrainCancelled(p)
  BY <1>1, <1>2, <1>10, OneJobMoves DEF DrainCancelled, Finished
<1>11. CASE Gathered(p)
  BY <1>1, <1>2, <1>11, OneJobMoves DEF Gathered, JobStep, Finished
<1> QED BY <1>3, <1>4, <1>5, <1>6, <1>7, <1>8, <1>9, <1>10, <1>11, CoordinatorStep(p)
        DEF CoordinatorStep

LEMMA WorkerSteps == ASSUME DaemonInv, NEW w \in AllWorkers, WorkerStep(w) PROVE DaemonInv'
<1>1. w \in Jobs /\ w[1] \in Phases
  BY JobKinds
<1>2. cancelling \subseteq Jobs /\ queued \in [Phases -> 0..QueueSize] /\ QueueSize \in Nat
  BY BoundsAssumption DEF DaemonInv, TypeOK
<1>3. CASE WorkerStarts(w)
  <2>1. job[w] = "new" /\ Goes(w, IF stopped THEN "ended" ELSE "get")
    BY <1>3 DEF WorkerStarts, JobStep
  <2>2. stopAt \in After => stopped
    BY Quiet
  <2>3. (IF stopped THEN "ended" ELSE "get") \in {"ended", "get"}
    OBVIOUS
  <2> QED BY <1>1, <1>2, <1>3, <2>1, <2>2, <2>3, OneJobMoves DEF WorkerStarts, Finished
<1>4. CASE Get(w)
  <2>1. stopAt \notin After /\ job[w] = "get" /\ Goes(w, "busy")
    BY <1>1, <1>4, Quiet DEF Get, JobStep, Finished
  <2>2. queued' \in [Phases -> 0..QueueSize]
    BY <1>1, <1>2, <1>4 DEF Get
  <2> QED BY <1>1, <1>2, <1>4, <2>1, <2>2, OneJobMoves DEF Get, Finished
<1>5. CASE ItemDone(w)
  <2>1. stopAt \notin After /\ job[w] = "busy" /\ Goes(w, IF stopped THEN "ended" ELSE "get")
    BY <1>1, <1>5, Quiet DEF ItemDone, JobStep, Finished
  <2>2. (IF stopped THEN "ended" ELSE "get") \in {"ended", "get"}
    OBVIOUS
  <2>3. /\ UNCHANGED <<startVars, bgJobs, cancelling, queued, stopVars, http, closeFaults>>
        /\ sessions' \subseteq Nodes
    BY <1>5 DEF ItemDone, DaemonInv, TypeOK
  <2>4. JobsInv'
    BY <1>1, <2>1, <2>2, <2>3, JobMoves DEF Goes, stopVars, Finished
  <2>5. TypeOK'
    BY <1>1, <2>1, <2>2, <2>3 DEF DaemonInv, TypeOK, Goes, startVars, stopVars, Finished
  <2>6. StoppedInv' /\ ClosedInv'
    BY <2>1, <2>3 DEF DaemonInv, StoppedInv, ClosedInv, stopVars, After, Cleaning
  <2> QED BY <2>4, <2>5, <2>6 DEF DaemonInv
<1>6. CASE Suppressed(w)
  <2> USE <1>6 DEF Suppressed, startVars, stopVars, resources
  <2>1. JobsInv'
    BY JobsStay DEF DaemonInv
  <2> QED BY <1>2, <2>1 DEF DaemonInv, TypeOK, StoppedInv, ClosedInv
<1> QED BY <1>3, <1>4, <1>5, <1>6, WorkerStep(w) DEF WorkerStep

LEMMA InterruptSteps == ASSUME DaemonInv, NEW j \in Jobs, Interrupted(j) PROVE DaemonInv'
<1>1. cancelling' \subseteq Jobs /\ queued' \in [Phases -> 0..QueueSize]
  BY DEF DaemonInv, TypeOK, Interrupted
<1> QED BY <1>1, OneJobMoves DEF Interrupted, Finished

\* A signal begins the loop of stop(), or cancels what runs.
LEMMA SignalSteps == DaemonInv /\ (FirstSignal \/ LaterSignal) => DaemonInv'
<1> SUFFICES ASSUME DaemonInv, FirstSignal \/ LaterSignal PROVE DaemonInv'
  OBVIOUS
<1>1. signals' \in 0..MaxSignals
  BY BoundsAssumption DEF FirstSignal, LaterSignal, Receives, DaemonInv, TypeOK
<1>2. CASE FirstSignal
  <2> USE <1>2 DEF FirstSignal
  <2>1. PICK j \in bgJobs : Cancels(j)
    OBVIOUS
  <2>2. iteration' \in [size : Nat, awaited : Jobs] /\ cancelling' \subseteq Jobs
    BY <2>1, JobsFinite DEF Cancels, DaemonInv, TypeOK
  <2>3. TypeOK'
    BY <1>1, <2>2 DEF DaemonInv, TypeOK, startVars, resources
  <2>4. JobsInv'
    BY DEF DaemonInv, JobsInv, RegisteredInv, LaunchInv, WorkersInv, AfterInv, After, Cleaning,
           startVars
  <2>5. stopAt = "idle"
    BY DEF DaemonInv, StoppedInv
  <2> QED BY <2>3, <2>4, <2>5 DEF DaemonInv, StoppedInv, ClosedInv, resources
<1>3. CASE LaterSignal
  <2> USE <1>3 DEF LaterSignal, CancelsStop, Closing
  <2>1. TypeOK'
    BY <1>1 DEF DaemonInv, TypeOK, Live, startVars, resources
  <2>2. JobsInv'
    BY DEF DaemonInv, JobsInv, RegisteredInv, LaunchInv, WorkersInv, AfterInv, After,
           Cleaning, Done, startVars
  <2> QED BY <2>1, <2>2 DEF DaemonInv, StoppedInv, ClosedInv, resources
<1> QED BY <1>2, <1>3

\* stop() awaits one job after the other, then closes what is open.
LEMMA StopSteps == DaemonInv /\ StopStep => DaemonInv'
<1> SUFFICES ASSUME DaemonInv, StopStep PROVE DaemonInv'
  OBVIOUS
<1>1. CASE NextJob
  <2> USE <1>1 DEF NextJob
  <2>1. PICK j \in bgJobs : Cancels(j)
    OBVIOUS
  <2>2. iteration' \in [size : Nat, awaited : Jobs] /\ cancelling' \subseteq Jobs
    BY <2>1, JobsFinite DEF Cancels, DaemonInv, TypeOK
  <2>3. TypeOK'
    BY <2>2 DEF DaemonInv, TypeOK, startVars, resources
  <2>4. JobsInv'
    BY JobsStay DEF DaemonInv, startVars
  <2> QED BY <2>3, <2>4 DEF DaemonInv, StoppedInv, ClosedInv, resources
<1>2. CASE LoopEnds
  <2> USE <1>2 DEF LoopEnds, startVars, jobVars, resources
  <2>1. \A j \in Jobs : job[j] \in {"none"} \cup Finished
    BY DEF DaemonInv, JobsInv, RegisteredInv, Live
  <2>2. JobsInv'
    BY <2>1 DEF DaemonInv, JobsInv, RegisteredInv, LaunchInv, WorkersInv, AfterInv
  <2> QED BY <2>2, JobKinds
          DEF DaemonInv, TypeOK, NoIteration, Iterates, StoppedInv, ClosedInv, Cleaning
<1>3. CASE SetChanged
  <2> USE <1>3 DEF SetChanged, startVars, jobVars, resources
  <2>1. JobsInv'
    BY DEF DaemonInv, JobsInv, RegisteredInv, LaunchInv, WorkersInv, AfterInv, After,
           Cleaning
  <2> QED BY <2>1, JobKinds DEF DaemonInv, TypeOK, NoIteration, StoppedInv, ClosedInv
<1>4. CASE \E n \in Nodes : CloseSession(n)
  <2> USE <1>4 DEF CloseSession, startVars, jobVars, stopVars
  <2>1. JobsInv'
    BY JobsStay DEF DaemonInv
  <2>2. TypeOK'
    BY DEF DaemonInv, TypeOK
  <2> QED BY <2>1, <2>2 DEF DaemonInv, StoppedInv, ClosedInv
<1>5. CASE \E n \in Nodes : CloseRaises(n)
  <2> USE <1>5 DEF CloseRaises, Following, startVars, jobVars
  <2>1. JobsInv'
    BY DEF DaemonInv, JobsInv, RegisteredInv, LaunchInv, WorkersInv, AfterInv, After,
           Cleaning
  <2>2. TypeOK'
    BY DEF DaemonInv, TypeOK, Cleaning
  <2>3. ClosedInv'
    BY DEF DaemonInv, TypeOK, ClosedInv
  <2> QED BY <2>1, <2>2, <2>3 DEF DaemonInv, StoppedInv
<1>6. CASE SessionsClosed
  <2> USE <1>6 DEF SessionsClosed, Following, startVars, jobVars, resources
  <2>1. JobsInv'
    BY DEF DaemonInv, JobsInv, RegisteredInv, LaunchInv, WorkersInv, AfterInv, After,
           Cleaning
  <2> QED BY <2>1 DEF DaemonInv, TypeOK, StoppedInv, ClosedInv, Cleaning
<1>7. CASE CloseHttp
  <2> USE <1>7 DEF CloseHttp, startVars, jobVars
  <2>1. JobsInv'
    BY DEF DaemonInv, JobsInv, RegisteredInv, LaunchInv, WorkersInv, AfterInv, After,
           Cleaning
  <2> QED BY <2>1 DEF DaemonInv, TypeOK, StoppedInv, ClosedInv, Cleaning, Live
<1> QED BY <1>1, <1>2, <1>3, <1>4, <1>5, <1>6, <1>7 DEF StopStep

LEMMA NextInv == DaemonInv /\ [Next]_vars => DaemonInv'
<1> SUFFICES ASSUME DaemonInv, [Next]_vars PROVE DaemonInv'
  OBVIOUS
<1>1. CASE UNCHANGED vars
  <2> USE <1>1 DEF vars, startVars, jobVars, stopVars, resources
  <2>1. JobsInv'
    BY JobsStay DEF DaemonInv
  <2> QED BY <2>1 DEF DaemonInv, TypeOK, StoppedInv, ClosedInv
<1> QED BY <1>1, StartSteps, StatsSteps, CoordinatorSteps, WorkerSteps, InterruptSteps,
           SignalSteps, StopSteps DEF Next, EventLoop

-----------------------------------------------------------------------------
(* Theorems. *)

\* The inductive invariant holds of every behaviour of run_daemon, start() and
\* stop().
THEOREM DaemonInvariant == Spec => []DaemonInv
BY InitInv, NextInv, PTL DEF Spec

\* Every task, queue and step of stop() stays in its type.
THEOREM DaemonTypeOK == Spec => []TypeOK
<1>1. DaemonInv => TypeOK
  BY DEF DaemonInv
<1> QED BY <1>1, DaemonInvariant, PTL

\* No producer or worker is at work once stop() closes sessions and clients,
\* however many signals arrive and whenever they do (orchestrator.py:845-884).
THEOREM CleanupIsQuiet == Spec => []QuietCleanup
<1>1. DaemonInv => QuietCleanup
  BY DEF DaemonInv, JobsInv, AfterInv, After, QuietCleanup, Working, Finished
<1> QED BY <1>1, DaemonInvariant, PTL

\* A stop() that returns has closed every session, unless both of its passes
\* met a close that raised, and the client in any case.
THEOREM StopClosesAll == Spec => []NothingLeftOpen
<1>1. DaemonInv => NothingLeftOpen
  BY DEF DaemonInv, TypeOK, ClosedInv, NothingLeftOpen
<1> QED BY <1>1, DaemonInvariant, PTL
=============================================================================
