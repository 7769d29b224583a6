--------------------------- MODULE Providers_proofs ---------------------------
(***************************************************************************)
(* Proofs about Providers: the shape of the state and the bound on every   *)
(* loop, what is left billing and who was told, the one upload of the key, *)
(* whose machine a delete_node removes, the exception that is raised, and  *)
(* that each provider implements MachineContract.                          *)
(*                                                                         *)
(* Every step is the step of one call.  Its part of call' is one of a few  *)
(* moves (Went, Threw, Warned, ...), of which the lemmas of the first      *)
(* section say what they change; a provider's lemma then says of each of   *)
(* its actions which moves it makes, and what follows for the invariant    *)
(* and for the contract (Step).  StepKeeps and StepContracts put that      *)
(* together, whichever the provider.                                       *)
(***************************************************************************)
EXTENDS Providers, FiniteSetTheorems, TLAPS

----------------------------------------------------------------------------
(* The moves of a call *)

\* TypeOK in parts: the calls, and what the cloud keeps.
CallType == [at : Stages, tries : Nat, rounds : 0 .. ReconcileAttempts - 1,
             raised : {"none", "api", "cancel"}, told : BOOLEAN,
             target : Calls \cup {NoCall}]

CallsTyped ==
    /\ call \in [Calls -> CallType]
    /\ \A c \in Calls : call[c].tries < Attempts(call[c].at)

CloudTyped ==
    /\ vm \in [Calls -> {"none", "up", "deleting", "gone"}]
    /\ listed \in [Calls -> BOOLEAN]
    /\ part \in [Calls -> {"none", "bare", "up", "gone"}]
    /\ addr \in [Calls -> Addresses \cup {NoAddress}]

\* A step of call c: where it is afterwards.
Moved(c, stage) ==
    /\ CallsTyped'
    /\ \A d \in Calls \ {c} : call'[d] = call[d]
    /\ call'[c].at = stage

\* ... with nothing else of it changed but its counters.
Went(c, stage) ==
    /\ Moved(c, stage)
    /\ call'[c].raised = call[c].raised
    /\ call'[c].told = call[c].told
    /\ call'[c].target = call[c].target

\* ... because of an exception.
Threw(c, kind, stage) ==
    /\ Moved(c, stage)
    /\ call'[c].raised = kind
    /\ call'[c].told = call[c].told
    /\ call'[c].target = call[c].target

\* ... because of an exception, which a log told of.
ThrewWarned(c, kind, stage) ==
    /\ Moved(c, stage)
    /\ call'[c].raised = kind
    /\ call'[c].told = TRUE
    /\ call'[c].target = call[c].target

\* ... after a log that names the machine.
Warned(c, stage) ==
    /\ Moved(c, stage)
    /\ call'[c].raised = call[c].raised
    /\ call'[c].told = TRUE
    /\ call'[c].target = call[c].target

\* ... with a machine found.
Aimed(c, d, stage) ==
    /\ Moved(c, stage)
    /\ call'[c].raised = call[c].raised
    /\ call'[c].told = call[c].told
    /\ call'[c].target = d

\* TypeOK is the conjunction of its parts.
LEMMA TypesOf ==
    TypeOK <=> /\ provider \in Modelled
               /\ CallsTyped /\ CloudTyped
               /\ keys \in Nat /\ lock \in Calls \cup {NoCall} /\ cancels \in Nat
BY DEF TypeOK, CallsTyped, CallType, CloudTyped

\* The parts after a step make TypeOK after it.
LEMMA TypesAfter ==
    ASSUME provider' \in Modelled, CallsTyped', CloudTyped', keys' \in Nat,
           lock' \in Calls \cup {NoCall}, cancels' \in Nat
    PROVE  TypeOK'
BY DEF TypeOK, CallsTyped, CallType, CloudTyped

\* The count of interrupts stays a number.
LEMMA InterruptTyped ==
    ASSUME cancels \in Nat, Interrupt \/ NoInterrupt
    PROVE  cancels' \in Nat
BY DEF Interrupt, NoInterrupt

\* Every stage has at least one attempt.
LEMMA AttemptsArePositive ==
    \A stage : Attempts(stage) \in Nat \ {0}
BY AttemptsAssumption DEF Attempts

\* The attempts of the stages that loop.
LEMMA AttemptsOf ==
    /\ Attempts("reap") = DeleteAttempts /\ Attempts("remove") = DeleteAttempts
    /\ Attempts("list") = ReconcileAttempts
    /\ Attempts("ready") = Polls /\ Attempts("verify") = Polls
BY DEF Attempts

\* A call whose record is replaced by a typed one: the others are untouched.
LEMMA Stepping ==
    ASSUME CallsTyped, NEW c \in Calls, NEW next, next \in CallType,
           next.tries < Attempts(next.at), call' = [call EXCEPT ![c] = next]
    PROVE  Moved(c, next.at) /\ call'[c] = next
BY DEF CallsTyped, Moved

\* Goto moves on with fresh counters and changes nothing else of the call.
LEMMA GotoMoves ==
    ASSUME CallsTyped, NEW c \in Calls, NEW stage \in Stages, Goto(c, stage)
    PROVE  Went(c, stage)
<1> DEFINE next == [call[c] EXCEPT !.at = stage, !.tries = 0]
<1>1. call[c] \in CallType BY DEF CallsTyped
<1>2. /\ next \in CallType
      /\ next.tries = 0 /\ next.at = stage
      /\ next.raised = call[c].raised /\ next.told = call[c].told /\ next.target = call[c].target
  BY <1>1 DEF CallType
<1>3. next.tries < Attempts(next.at)
  BY <1>2, AttemptsArePositive
<1>4. call' = [call EXCEPT ![c] = next] BY <1>1 DEF Goto, CallsTyped
<1>5. Moved(c, next.at) /\ call'[c] = next
  <2> HIDE DEF next
  <2> QED BY <1>2, <1>3, <1>4, Stepping
<1> QED BY <1>2, <1>5 DEF Went, Moved

\* Raise, of an exception no log told of.
LEMMA RaiseMoves ==
    ASSUME CallsTyped, NEW c \in Calls, NEW stage \in Stages, NEW kind \in {"api", "cancel"},
           Raise(c, kind, stage, FALSE)
    PROVE  Threw(c, kind, stage)
<1> DEFINE next == [call[c] EXCEPT !.at = stage, !.tries = 0, !.raised = kind,
                                 !.told = @ \/ FALSE]
<1>1. call[c] \in CallType BY DEF CallsTyped
<1>2. /\ next \in CallType
      /\ next.tries = 0 /\ next.at = stage
      /\ next.raised = kind /\ next.told = call[c].told /\ next.target = call[c].target
  BY <1>1 DEF CallType
<1>3. next.tries < Attempts(next.at)
  BY <1>2, AttemptsArePositive
<1>4. call' = [call EXCEPT ![c] = next] BY <1>1 DEF Raise, CallsTyped
<1>5. Moved(c, next.at) /\ call'[c] = next
  <2> HIDE DEF next
  <2> QED BY <1>2, <1>3, <1>4, Stepping
<1> QED BY <1>2, <1>5 DEF Threw, Moved

\* Raise, with the log that names the machine.
LEMMA RaiseToldMoves ==
    ASSUME CallsTyped, NEW c \in Calls, NEW stage \in Stages, NEW kind \in {"api", "cancel"},
           Raise(c, kind, stage, TRUE)
    PROVE  ThrewWarned(c, kind, stage)
<1> DEFINE next == [call[c] EXCEPT !.at = stage, !.tries = 0, !.raised = kind, !.told = @ \/ TRUE]
<1>1. call[c] \in CallType BY DEF CallsTyped
<1>2. /\ next \in CallType
      /\ next.tries = 0 /\ next.at = stage
      /\ next.raised = kind /\ next.told = TRUE /\ next.target = call[c].target
  BY <1>1 DEF CallType
<1>3. next.tries < Attempts(next.at)
  BY <1>2, AttemptsArePositive
<1>4. call' = [call EXCEPT ![c] = next] BY <1>1 DEF Raise, CallsTyped
<1>5. Moved(c, next.at) /\ call'[c] = next
  <2> HIDE DEF next
  <2> QED BY <1>2, <1>3, <1>4, Stepping
<1> QED BY <1>2, <1>5 DEF ThrewWarned, Moved

\* Tell moves on after a log that names the machine.
LEMMA TellMoves ==
    ASSUME CallsTyped, NEW c \in Calls, NEW stage \in Stages, Tell(c, stage)
    PROVE  Warned(c, stage)
<1> DEFINE next == [call[c] EXCEPT !.at = stage, !.tries = 0, !.told = TRUE]
<1>1. call[c] \in CallType BY DEF CallsTyped
<1>2. /\ next \in CallType
      /\ next.tries = 0 /\ next.at = stage
      /\ next.raised = call[c].raised /\ next.told = TRUE /\ next.target = call[c].target
  BY <1>1 DEF CallType
<1>3. next.tries < Attempts(next.at)
  BY <1>2, AttemptsArePositive
<1>4. call' = [call EXCEPT ![c] = next] BY <1>1 DEF Tell, CallsTyped
<1>5. Moved(c, next.at) /\ call'[c] = next
  <2> HIDE DEF next
  <2> QED BY <1>2, <1>3, <1>4, Stepping
<1> QED BY <1>2, <1>5 DEF Warned, Moved

\* Target moves on with the machine found.
LEMMA TargetMoves ==
    ASSUME CallsTyped, NEW c \in Calls, NEW d \in Calls, NEW stage \in Stages, Target(c, d, stage)
    PROVE  Aimed(c, d, stage)
<1> DEFINE next == [call[c] EXCEPT !.at = stage, !.tries = 0, !.target = d]
<1>1. call[c] \in CallType BY DEF CallsTyped
<1>2. /\ next \in CallType
      /\ next.tries = 0 /\ next.at = stage
      /\ next.raised = call[c].raised /\ next.told = call[c].told /\ next.target = d
  BY <1>1 DEF CallType
<1>3. next.tries < Attempts(next.at)
  BY <1>2, AttemptsArePositive
<1>4. call' = [call EXCEPT ![c] = next] BY <1>1 DEF Target, CallsTyped
<1>5. Moved(c, next.at) /\ call'[c] = next
  <2> HIDE DEF next
  <2> QED BY <1>2, <1>3, <1>4, Stepping
<1> QED BY <1>2, <1>5 DEF Aimed, Moved

\* Another turn of a loop, short of its last one.
LEMMA AgainMoves ==
    ASSUME CallsTyped, NEW c \in Calls, NEW limit, Attempts(call[c].at) = limit,
           Again(c), ~LastTry(c, limit)
    PROVE  Went(c, call[c].at)
<1> DEFINE next == [call[c] EXCEPT !.tries = @ + 1]
<1>1. call[c] \in CallType BY DEF CallsTyped
<1>2. /\ next \in CallType
      /\ next.tries = call[c].tries + 1 /\ next.at = call[c].at
      /\ next.raised = call[c].raised /\ next.told = call[c].told /\ next.target = call[c].target
  BY <1>1 DEF CallType
<1>3. next.tries < Attempts(next.at)
  BY <1>1, <1>2, AttemptsArePositive DEF LastTry, CallType
<1>4. call' = [call EXCEPT ![c] = next] BY <1>1 DEF Again, CallsTyped
<1>5. Moved(c, next.at) /\ call'[c] = next
  <2> HIDE DEF next
  <2> QED BY <1>2, <1>3, <1>4, Stepping
<1> QED BY <1>2, <1>5 DEF Went, Moved

\* Hetzner: another round of a clean-up's removal, or the end of them.
LEMMA NextRoundMoves ==
    ASSUME CallsTyped, NEW c \in Calls, HetznerNextRound(c)
    PROVE  Warned(c, "reap") \/ Warned(c, "failed")
<1>1. CASE call[c].rounds + 1 < ReconcileAttempts
  <2> DEFINE next == [call[c] EXCEPT !.at = "reap", !.tries = 0, !.told = TRUE, !.rounds = @ + 1]
  <2>0. "reap" \in Stages BY DEF Stages, RemovalStages
  <2>1. call[c] \in CallType BY DEF CallsTyped
  <2>2. /\ next \in CallType
        /\ next.tries = 0 /\ next.at = "reap"
        /\ next.raised = call[c].raised /\ next.told = TRUE /\ next.target = call[c].target
    <3>1. call[c].rounds \in 0 .. ReconcileAttempts - 1 BY <2>1 DEF CallType
    <3>2. call[c].rounds + 1 \in 0 .. ReconcileAttempts - 1 BY <3>1, <1>1, AttemptsAssumption
    <3> QED BY <2>0, <2>1, <3>2 DEF CallType
  <2>3. next.tries < Attempts(next.at) BY <2>2, AttemptsArePositive
  <2>4. call' = [call EXCEPT ![c] = next] BY <1>1, <2>1 DEF HetznerNextRound, CallsTyped
  <2>5. Moved(c, next.at) /\ call'[c] = next
    <3> HIDE DEF next
    <3> QED BY <2>2, <2>3, <2>4, Stepping
  <2> QED BY <2>2, <2>5 DEF Warned
<1>2. CASE ~(call[c].rounds + 1 < ReconcileAttempts)
  <2>1. "failed" \in Stages BY DEF Stages, Resting
  <2>2. Tell(c, "failed") BY <1>2 DEF HetznerNextRound
  <2> QED BY <2>1, <2>2, TellMoves
<1> QED BY <1>1, <1>2

----------------------------------------------------------------------------
(* The inductive invariant *)

\* The stages of a create_node whose request for the machine is not answered.
Unasked == {"idle", "lock", "keys", "newkey", "offers", "nic", "tag", "post"}

\* The stages of a call no exception has been raised in, and of one that cleans
\* up after an exception; a removal belongs to either.
Unraised == Unasked \cup {"ready", "created", "deleted"} \cup DeleteStages
Raised == {"list", "reapvm", "reapnic", "destroy", "failed"}

\* The exception of a call, and the machine it looks for.
StageInv(c) ==
    /\ call[c].at \in Unraised => ~CleaningUp(c)
    /\ call[c].at \in Raised => CleaningUp(c)
    /\ call[c].at \in {"stop", "remove", "leftover"} => call[c].target # NoCall
    /\ call[c].at \in Unasked => call[c].target = NoCall
    /\ provider = "az" /\ At(c, "tag") => part[c] = "bare"

\* When the machine of a call is known to be gone, and when someone knows that
\* it may not be.
MachineInv(c) ==
    /\ call[c].at \in Unasked \cup {"leftover", "findnic", "deleted"} => Gone(c)
    /\ call[c].target \notin {NoCall, c} => ByAddress /\ Gone(c)
    /\ At(c, "reapnic") /\ Billing(c) => call[c].told
    /\ At(c, "failed") /\ Billing(c) => call[c].told \/ Interrupted(c)

\* No two machines have an address: what ForeignOnlyAfterOwn rests on.
AddressInv ==
    ByAddress =>
        \A c, d \in Calls : c # d /\ HoldsAddress(c) /\ HoldsAddress(d) => addr[c] # addr[d]

\* One call at a time looks for the key where it can be added twice, and it
\* found none.
KeyInv ==
    /\ keys <= 1
    /\ provider = "vultr" => \A c \in Calls : call[c].at \in {"keys", "newkey"} => lock = c
    /\ provider = "vastai" => \A c, d \in Calls : Creating(c) /\ Creating(d) => c = d
    /\ provider \in {"vultr", "vastai"} => \A c \in Calls : At(c, "newkey") => keys = 0

ProvidersInv ==
    /\ TypeOK
    /\ \A c \in Calls : StageInv(c) /\ MachineInv(c)
    /\ AddressInv
    /\ KeyInv

----------------------------------------------------------------------------
(* One step of a call *)

\* What a step of call c leaves the others.
Others(c) ==
    /\ provider' = provider
    /\ \A d \in Calls \ {c} :
        /\ call'[d] = call[d]
        /\ Gone(d) => Gone(d)'
        /\ HoldsAddress(d)' => HoldsAddress(d)
        /\ addr'[d] = addr[d]
        /\ provider = "az" /\ part[d] = "bare" => part'[d] = "bare"

\* An address is held on to, or is one that was free.
OwnAddress(c) ==
    HoldsAddress(c)' =>
        \/ HoldsAddress(c) /\ addr'[c] = addr[c]
        \/ addr'[c] \in FreeAddresses

\* The step as the contract sees it.
Promise(c) ==
    \/ /\ NodeOf(c) = "none"
       /\ call[c].told => call'[c].told
       /\ \/ NodeOf(c)' = "none"
          \/ NodeOf(c)' = "owned" /\ Billing(c)'
          \/ NodeOf(c)' = "failed"
       /\ \A d \in Calls \ {c} : Billing(d)' = Billing(d)
    \/ /\ NodeOf(c) = "owned" /\ NodeOf(c)' = "released"
       /\ ~Billing(c)'
       /\ call'[c].told = call[c].told /\ call'[c].raised = call[c].raised
       /\ \A d \in Calls \ {c} : Billing(d)' = Billing(d)
    \/ /\ NodeOf(c)' = NodeOf(c)
       /\ call'[c].told = call[c].told /\ call'[c].raised = call[c].raised
       /\ \E x \in Calls :
             /\ Billing(x)' => Billing(x)
             /\ \A d \in Calls \ {x} : Billing(d)' = Billing(d)

Kept(c) == provider \in {"az", "vultr"} /\ CleaningUp(c) => call'[c].raised = call[c].raised

Step(c) ==
    /\ TypeOK'
    /\ Others(c)
    /\ StageInv(c)' /\ MachineInv(c)'
    /\ ByAddress => OwnAddress(c)
    /\ Promise(c)
    /\ Kept(c)

\* A step that asks nothing of the cloud keeps the shape of the state, and
\* leaves the machines alone.
LEMMA QuietSteps ==
    ASSUME TypeOK, NEW c \in Calls, UNCHANGED <<provider, vm, listed, part, addr>>,
           CallsTyped', \A d \in Calls \ {c} : call'[d] = call[d],
           keys' \in Nat, lock' \in Calls \cup {NoCall}, cancels' \in Nat
    PROVE  TypeOK' /\ Others(c) /\ (ByAddress => OwnAddress(c))
<1>1. CloudTyped' BY TypesOf DEF CloudTyped
<1>2. TypeOK' BY <1>1, TypesOf, TypesAfter
<1>3. Others(c) /\ OwnAddress(c)
  BY DEF Others, OwnAddress, HoldsAddress, HasPart, Gone, Billing
<1> QED BY <1>2, <1>3

\* What the answers mean: a success is one, and only a 404 says gone.
LEMMA HetznerOutcomes ==
    ASSUME NEW r \in Replies
    PROVE  /\ HetznerOutcome(r, TRUE) = "ok" \/ HetznerOutcome(r, FALSE) = "ok" => DidIt(r)
           /\ HetznerOutcome(r, TRUE) = "gone" \/ HetznerOutcome(r, FALSE) = "gone"
                  => r.status = 404
BY DEF HetznerOutcome, HetznerTransient, Replies, DidIt

\* The same for VastAI.
LEMMA VastAIOutcomes ==
    ASSUME NEW r \in Replies
    PROVE  /\ VastAIOutcome(r, TRUE) = "ok" \/ VastAIOutcome(r, FALSE) = "ok" => DidIt(r)
           /\ VastAIOutcome(r, TRUE) = "gone" \/ VastAIOutcome(r, FALSE) = "gone"
                  => r.status = 404
BY DEF VastAIOutcome, VastAITransient, Replies, DidIt

\* The same for Vultr.
LEMMA VultrOutcomes ==
    ASSUME NEW r \in Replies
    PROVE  /\ VultrOutcome(r, TRUE) = "ok" \/ VultrOutcome(r, FALSE) = "ok" => DidIt(r)
           /\ VultrOutcome(r, TRUE) = "gone" \/ VultrOutcome(r, FALSE) = "gone"
                  => r.status = 404
BY DEF VultrOutcome, VultrTransient, Replies, DidIt

\* How a removal ends, of a clean-up and of a delete_node.
LEMMA RemovedMoves ==
    ASSUME CallsTyped, NEW c \in Calls, Removed(c)
    PROVE  Went(c, IF CleaningUp(c) THEN "failed" ELSE "deleted")
<1>1. "failed" \in Stages /\ "deleted" \in Stages BY DEF Stages, Resting
<1>2. CASE CleaningUp(c) BY <1>1, <1>2, GotoMoves DEF Removed
<1>3. CASE ~CleaningUp(c) BY <1>1, <1>3, GotoMoves DEF Removed
<1> QED BY <1>2, <1>3

\* A removal that did not confirm the machine gone.
LEMMA NotRemovedMoves ==
    ASSUME CallsTyped, NEW c \in Calls, NotRemoved(c)
    PROVE  \/ CleaningUp(c) /\ Warned(c, "failed")
           \/ ~CleaningUp(c) /\ Went(c, "created")
<1>1. "failed" \in Stages /\ "created" \in Stages BY DEF Stages, Resting
<1>2. CASE CleaningUp(c) BY <1>1, <1>2, TellMoves DEF NotRemoved
<1>3. CASE ~CleaningUp(c) BY <1>1, <1>3, GotoMoves DEF NotRemoved, RaiseDelete
<1> QED BY <1>2, <1>3

\* The same for Hetzner, whose clean-up goes another round.
LEMMA HetznerNotRemovedMoves ==
    ASSUME CallsTyped, NEW c \in Calls, HetznerNotRemoved(c)
    PROVE  \/ CleaningUp(c) /\ (Warned(c, "reap") \/ Warned(c, "failed"))
           \/ ~CleaningUp(c) /\ Went(c, "created")
<1>1. "created" \in Stages BY DEF Stages, Resting
<1>2. CASE CleaningUp(c) BY <1>2, NextRoundMoves DEF HetznerNotRemoved
<1>3. CASE ~CleaningUp(c) BY <1>1, <1>3, GotoMoves DEF HetznerNotRemoved, RaiseDelete
<1> QED BY <1>2, <1>3

\* An interrupt of a removal on Hetzner.
LEMMA HetznerInterruptedMoves ==
    ASSUME CallsTyped, NEW c \in Calls, HetznerInterrupted(c)
    PROVE  \/ CleaningUp(c) /\ Threw(c, "cancel", "failed")
           \/ ~CleaningUp(c) /\ Went(c, "created")
<1>1. "failed" \in Stages /\ "created" \in Stages BY DEF Stages, Resting
<1>2. CASE CleaningUp(c) BY <1>1, <1>2, RaiseMoves DEF HetznerInterrupted
<1>3. CASE ~CleaningUp(c) BY <1>1, <1>3, GotoMoves DEF HetznerInterrupted, RaiseDelete
<1> QED BY <1>2, <1>3

\* An interrupt of a call on VastAI.
LEMMA VastAIInterruptedMoves ==
    ASSUME CallsTyped, NEW c \in Calls, VastAIInterrupted(c)
    PROVE  \/ Creating(c) /\ Threw(c, "cancel", "failed")
           \/ ~Creating(c) /\ Went(c, "created")
<1>1. "failed" \in Stages /\ "created" \in Stages BY DEF Stages, Resting
<1>2. CASE Creating(c) BY <1>1, <1>2, RaiseMoves DEF VastAIInterrupted
<1>3. CASE ~Creating(c) BY <1>1, <1>3, GotoMoves DEF VastAIInterrupted, RaiseDelete
<1> QED BY <1>2, <1>3

\* Who looks for its machine by address finds it, or another once it has gone.
LEMMA FoundByAddress ==
    ASSUME AddressInv, ByAddress, NEW c \in Calls
    PROVE  /\ MachinesAt(addr[c]) = {} => Gone(c)
           /\ \A d \in MachinesAt(addr[c]) : d # NoCall /\ Billing(d) /\ (d # c => Gone(c))
BY CallsAssumption DEF MachinesAt, AddressInv, HoldsAddress, Gone

----------------------------------------------------------------------------
(* Azure *)

\* Every step of a call on Azure does what Step says.
LEMMA AzSteps ==
    ASSUME ProvidersInv, NEW c \in Calls, provider = "az", AzStep(c)
    PROVE  Step(c) /\ KeyInv'
<1>0. TypeOK /\ CallsTyped /\ CloudTyped /\ StageInv(c) /\ MachineInv(c) /\ AddressInv /\ KeyInv
  BY TypesOf DEF ProvidersInv
<1>1. CASE AzCreateNic(c)
  <2>1. At(c, "nic") /\ UNCHANGED <<provider, vm, listed, keys, lock>>
    BY <1>1 DEF AzCreateNic, sharedVars, cloudVars
  <2>2. "tag" \in Stages /\ "failed" \in Stages
    BY DEF Stages, Resting, CreateStages, RemovalStages, DeleteStages
  <2>3. \/ Went(c, "tag") /\ AzNewNic(c)
        \/ Threw(c, "api", "failed") /\ (AzNewNic(c) \/ UNCHANGED <<part, addr>>)
        \/ Threw(c, "cancel", "failed") /\ (AzNewNic(c) \/ UNCHANGED <<part, addr>>)
    BY <1>0, <1>1, <2>1, <2>2, GotoMoves, RaiseMoves
    DEF AzCreateNic, AzRaise
  <2>4. Interrupt \/ NoInterrupt
    BY <1>1 DEF AzCreateNic, AzRaise
  <2>5. CloudTyped'
    BY <1>0, <2>1, <2>3 DEF CloudTyped, AzNewNic, FreeAddresses
  <2>6. TypeOK'
    BY <1>0, <2>1, <2>3, <2>5, TypesOf, <2>4, InterruptTyped, TypesAfter DEF Went, Threw, Moved
  <2>7. Others(c) /\ (ByAddress => OwnAddress(c))
    BY <1>0, <2>1, <2>3
    DEF Others, OwnAddress, Went, Threw, Moved, CloudTyped, HoldsAddress, HasPart, Gone,
        Billing, ByAddress, StageInv, At, AzNewNic, FreeAddresses
  <2>8. StageInv(c)' /\ MachineInv(c)'
    BY <1>0, <2>1, <2>3
    DEF StageInv, MachineInv, Went, Threw, Moved, CloudTyped, Gone, Billing, At, CleaningUp,
        Unraised, Raised, Unasked, DeleteStages, ByAddress, Interrupted, AzNewNic, FreeAddresses
  <2>9. Promise(c)
    BY <1>0, <2>1, <2>3
    DEF Promise, Went, Threw, Moved, CloudTyped, NodeOf, Creating, CleaningUp, At,
        CreateStages, RemovalStages, Gone, Billing, StageInv, MachineInv,
        Unraised, Raised, Unasked, DeleteStages, AzNewNic, FreeAddresses
  <2>10. Kept(c)
    BY <1>0, <2>1, <2>3
    DEF Kept, Went, Threw, Moved, StageInv, At, Unraised, Unasked, DeleteStages
  <2>11. KeyInv'
    BY <1>0, <2>1, <2>3 DEF KeyInv, Went, Threw, Moved, At
  <2> QED BY <2>6, <2>7, <2>8, <2>9, <2>10, <2>11 DEF Step
<1>2. CASE AzTagNic(c)
  <2>1. At(c, "tag") /\ UNCHANGED <<provider, vm, listed, addr, keys, lock>>
    BY <1>2 DEF AzTagNic, sharedVars, cloudVars
  <2>2. "post" \in Stages /\ "failed" \in Stages
    BY DEF Stages, Resting, CreateStages, RemovalStages, DeleteStages
  <2>3. /\ part' = [part EXCEPT ![c] = "up"] \/ UNCHANGED part
        /\ Went(c, "post") \/ Threw(c, "api", "failed") \/ Threw(c, "cancel", "failed")
    BY <1>0, <1>2, <2>1, <2>2, GotoMoves, RaiseMoves
    DEF AzTagNic, AzRaise
  <2>4. Interrupt \/ NoInterrupt
    BY <1>2 DEF AzTagNic, AzRaise
  <2>5. CloudTyped'
    BY <1>0, <2>1, <2>3 DEF CloudTyped
  <2>6. TypeOK'
    BY <1>0, <2>1, <2>3, <2>5, TypesOf, <2>4, InterruptTyped, TypesAfter DEF Went, Threw, Moved
  <2>7. Others(c) /\ (ByAddress => OwnAddress(c))
    BY <1>0, <2>1, <2>3
    DEF Others, OwnAddress, Went, Threw, Moved, CloudTyped, HoldsAddress, HasPart, Gone,
        Billing, ByAddress, StageInv, At
  <2>8. StageInv(c)' /\ MachineInv(c)'
    BY <1>0, <2>1, <2>3
    DEF StageInv, MachineInv, Went, Threw, Moved, CloudTyped, Gone, Billing, At, CleaningUp,
        Unraised, Raised, Unasked, DeleteStages, ByAddress, Interrupted
  <2>9. Promise(c)
    BY <1>0, <2>1, <2>3
    DEF Promise, Went, Threw, Moved, CloudTyped, NodeOf, Creating, CleaningUp, At,
        CreateStages, RemovalStages, Gone, Billing, StageInv, MachineInv,
        Unraised, Raised, Unasked, DeleteStages
  <2>10. Kept(c)
    BY <1>0, <2>1, <2>3
    DEF Kept, Went, Threw, Moved, StageInv, At, Unraised, Unasked, DeleteStages
  <2>11. KeyInv'
    BY <1>0, <2>1, <2>3 DEF KeyInv, Went, Threw, Moved, At
  <2> QED BY <2>6, <2>7, <2>8, <2>9, <2>10, <2>11 DEF Step
<1>3. CASE AzCreateVm(c)
  <2>1. At(c, "post") /\ UNCHANGED <<provider, part, addr, keys, lock>>
    BY <1>3 DEF AzCreateVm, sharedVars, cloudVars
  <2>2. "created" \in Stages /\ "reapvm" \in Stages
    BY DEF Stages, Resting, CreateStages, RemovalStages, DeleteStages
  <2>3. \/ AzAccept(c) /\ Went(c, "created")
        \/ /\ AzAccept(c) \/ UNCHANGED <<vm, listed>>
           /\ Threw(c, "api", "reapvm") \/ Threw(c, "cancel", "reapvm")
    BY <1>0, <1>3, <2>1, <2>2, GotoMoves, RaiseMoves
    DEF AzCreateVm, AzRaise
  <2>4. Interrupt \/ NoInterrupt
    BY <1>3 DEF AzCreateVm, AzRaise
  <2>5. CloudTyped'
    BY <1>0, <2>1, <2>3 DEF CloudTyped, AzAccept, Accept
  <2>6. TypeOK'
    BY <1>0, <2>1, <2>3, <2>5, TypesOf, <2>4, InterruptTyped, TypesAfter DEF Went, Threw, Moved
  <2>7. Others(c) /\ (ByAddress => OwnAddress(c))
    BY <1>0, <2>1, <2>3
    DEF Others, OwnAddress, Went, Threw, Moved, CloudTyped, HoldsAddress, HasPart, Gone,
        Billing, ByAddress, StageInv, At, AzAccept, Accept
  <2>8. StageInv(c)' /\ MachineInv(c)'
    BY <1>0, <2>1, <2>3
    DEF StageInv, MachineInv, Went, Threw, Moved, CloudTyped, Gone, Billing, At, CleaningUp,
        Unraised, Raised, Unasked, DeleteStages, ByAddress, Interrupted, AzAccept, Accept
  <2>9. Promise(c)
    BY <1>0, <2>1, <2>3
    DEF Promise, Went, Threw, Moved, CloudTyped, NodeOf, Creating, CleaningUp, At,
        CreateStages, RemovalStages, Gone, Billing, StageInv, MachineInv,
        Unraised, Raised, Unasked, DeleteStages, AzAccept, Accept
  <2>10. Kept(c)
    BY <1>0, <2>1, <2>3
    DEF Kept, Went, Threw, Moved, StageInv, At, Unraised, Unasked, DeleteStages
  <2>11. KeyInv'
    BY <1>0, <2>1, <2>3 DEF KeyInv, Went, Threw, Moved, At
  <2> QED BY <2>6, <2>7, <2>8, <2>9, <2>10, <2>11 DEF Step
<1>4. CASE AzCleanUpVm(c)
  <2>1. At(c, "reapvm") /\ UNCHANGED <<provider, listed, part, addr, keys, lock>>
    BY <1>4 DEF AzCleanUpVm, sharedVars, cloudVars
  <2>2. "reapnic" \in Stages
    BY DEF Stages, Resting, CreateStages, RemovalStages, DeleteStages
  <2>3. \/ Drop(c, TRUE) /\ Went(c, "reapnic")
        \/ DropOrNot(c, TRUE) /\ Warned(c, "reapnic")
    BY <1>0, <1>4, <2>1, <2>2, GotoMoves, TellMoves
    DEF AzCleanUpVm
  <2>4. Interrupt \/ NoInterrupt
    BY <1>4 DEF AzCleanUpVm
  <2>5. CloudTyped'
    BY <1>0, <2>1, <2>3 DEF CloudTyped, Drop, DropOrNot
  <2>6. TypeOK'
    BY <1>0, <2>1, <2>3, <2>5, TypesOf, <2>4, InterruptTyped, TypesAfter DEF Went, Warned, Moved
  <2>7. Others(c) /\ (ByAddress => OwnAddress(c))
    BY <1>0, <2>1, <2>3
    DEF Others, OwnAddress, Went, Warned, Moved, CloudTyped, HoldsAddress, HasPart, Gone,
        Billing, ByAddress, StageInv, At, Drop, DropOrNot
  <2>8. StageInv(c)' /\ MachineInv(c)'
    BY <1>0, <2>1, <2>3
    DEF StageInv, MachineInv, Went, Warned, Moved, CloudTyped, Gone, Billing, At, CleaningUp,
        Unraised, Raised, Unasked, DeleteStages, ByAddress, Interrupted, Drop, DropOrNot
  <2>9. Promise(c)
    BY <1>0, <2>1, <2>3
    DEF Promise, Went, Warned, Moved, CloudTyped, NodeOf, Creating, CleaningUp, At,
        CreateStages, RemovalStages, Gone, Billing, StageInv, MachineInv,
        Unraised, Raised, Unasked, DeleteStages, Drop, DropOrNot
  <2>10. Kept(c)
    BY <1>0, <2>1, <2>3
    DEF Kept, Went, Warned, Moved, StageInv, At, Unraised, Unasked, DeleteStages
  <2>11. KeyInv'
    BY <1>0, <2>1, <2>3 DEF KeyInv, Went, Warned, Moved, At
  <2> QED BY <2>6, <2>7, <2>8, <2>9, <2>10, <2>11 DEF Step
<1>5. CASE AzCleanUpNic(c)
  <2>1. At(c, "reapnic") /\ UNCHANGED <<provider, vm, listed, addr, keys, lock>>
    BY <1>5 DEF AzCleanUpNic, sharedVars, cloudVars
  <2>2. "failed" \in Stages
    BY DEF Stages, Resting, CreateStages, RemovalStages, DeleteStages
  <2>3. /\ UNCHANGED part \/ part' = [part EXCEPT ![c] = "gone"]
        /\ (~Billing(c) /\ Went(c, "failed")) \/ Warned(c, "failed")
    BY <1>0, <1>5, <2>1, <2>2, GotoMoves, TellMoves
    DEF AzCleanUpNic
  <2>4. Interrupt \/ NoInterrupt
    BY <1>5 DEF AzCleanUpNic
  <2>5. CloudTyped'
    BY <1>0, <2>1, <2>3 DEF CloudTyped
  <2>6. TypeOK'
    BY <1>0, <2>1, <2>3, <2>5, TypesOf, <2>4, InterruptTyped, TypesAfter DEF Went, Warned, Moved
  <2>7. Others(c) /\ (ByAddress => OwnAddress(c))
    BY <1>0, <2>1, <2>3
    DEF Others, OwnAddress, Went, Warned, Moved, CloudTyped, HoldsAddress, HasPart, Gone,
        Billing, ByAddress, StageInv, At
  <2>8. StageInv(c)' /\ MachineInv(c)'
    BY <1>0, <2>1, <2>3
    DEF StageInv, MachineInv, Went, Warned, Moved, CloudTyped, Gone, Billing, At, CleaningUp,
        Unraised, Raised, Unasked, DeleteStages, ByAddress, Interrupted
  <2>9. Promise(c)
    BY <1>0, <2>1, <2>3
    DEF Promise, Went, Warned, Moved, CloudTyped, NodeOf, Creating, CleaningUp, At,
        CreateStages, RemovalStages, Gone, Billing, StageInv, MachineInv,
        Unraised, Raised, Unasked, DeleteStages
  <2>10. Kept(c)
    BY <1>0, <2>1, <2>3
    DEF Kept, Went, Warned, Moved, StageInv, At, Unraised, Unasked, DeleteStages
  <2>11. KeyInv'
    BY <1>0, <2>1, <2>3 DEF KeyInv, Went, Warned, Moved, At
  <2> QED BY <2>6, <2>7, <2>8, <2>9, <2>10, <2>11 DEF Step
<1>6. CASE AzFindVm(c)
  <2>1. At(c, "find") /\ UNCHANGED <<provider, vm, listed, part, addr, keys, lock>>
    BY <1>6 DEF AzFindVm, sharedVars, cloudVars
  <2>2. "stop" \in Stages /\ "findnic" \in Stages /\ "created" \in Stages
    BY DEF Stages, Resting, CreateStages, RemovalStages, DeleteStages
  <2>3. \/ \E d \in MachinesAt(addr[c]) : Aimed(c, d, "stop")
        \/ MachinesAt(addr[c]) = {} /\ Went(c, "findnic")
        \/ Went(c, "created")
    BY <1>0, <1>6, <2>1, <2>2, GotoMoves, TargetMoves
    DEF AzFindVm, AzRaiseDelete, RaiseDelete, MachinesAt
  <2>4. Interrupt \/ NoInterrupt
    BY <1>6 DEF AzFindVm, AzRaiseDelete, RaiseDelete
  <2>5. CallsTyped' /\ \A d \in Calls \ {c} : call'[d] = call[d]
    BY <2>3 DEF Went, Aimed, Moved
  <2>6. TypeOK' /\ Others(c) /\ (ByAddress => OwnAddress(c))
    BY <1>0, <2>1, <2>3, <2>5, <2>4, InterruptTyped, QuietSteps, TypesOf
  <2>7. /\ MachinesAt(addr[c]) = {} => Gone(c)
        /\ \A d \in MachinesAt(addr[c]) : d # NoCall /\ Billing(d) /\ (d # c => Gone(c))
    BY <1>0, FoundByAddress DEF ByAddress
  <2>8. StageInv(c)' /\ MachineInv(c)'
    BY <1>0, <2>1, <2>3, <2>7
    DEF StageInv, MachineInv, Went, Aimed, Moved, CloudTyped, Gone, Billing, At, CleaningUp,
        Unraised, Raised, Unasked, DeleteStages, ByAddress, Interrupted
  <2>9. Promise(c)
    BY <1>0, <2>1, <2>3
    DEF Promise, Went, Aimed, Moved, CloudTyped, NodeOf, Creating, CleaningUp, At,
        CreateStages, RemovalStages, Gone, Billing, StageInv, MachineInv,
        Unraised, Raised, Unasked, DeleteStages, MachinesAt
  <2>10. Kept(c)
    BY <1>0, <2>1, <2>3
    DEF Kept, Went, Aimed, Moved, StageInv, At, Unraised, Unasked, DeleteStages
  <2>11. KeyInv'
    BY <1>0, <2>1, <2>3 DEF KeyInv, Went, Aimed, Moved, At
  <2> QED BY <2>5, <2>6, <2>8, <2>9, <2>10, <2>11 DEF Step
<1>7. CASE AzPowerOff(c)
  <2>1. At(c, "stop") /\ UNCHANGED <<provider, vm, listed, part, addr, keys, lock>>
    BY <1>7 DEF AzPowerOff, sharedVars, cloudVars
  <2>2. "remove" \in Stages /\ "created" \in Stages
    BY DEF Stages, Resting, CreateStages, RemovalStages, DeleteStages
  <2>3. Went(c, "remove") \/ Went(c, "created")
    BY <1>0, <1>7, <2>1, <2>2, GotoMoves
    DEF AzPowerOff, AzRaiseDelete, RaiseDelete
  <2>4. Interrupt \/ NoInterrupt
    BY <1>7 DEF AzPowerOff, AzRaiseDelete, RaiseDelete
  <2>5. CallsTyped' /\ \A d \in Calls \ {c} : call'[d] = call[d]
    BY <2>3 DEF Went, Moved
  <2>6. TypeOK' /\ Others(c) /\ (ByAddress => OwnAddress(c))
    BY <1>0, <2>1, <2>3, <2>5, <2>4, InterruptTyped, QuietSteps, TypesOf
  <2>7. StageInv(c)' /\ MachineInv(c)'
    BY <1>0, <2>1, <2>3
    DEF StageInv, MachineInv, Went, Moved, CloudTyped, Gone, Billing, At, CleaningUp,
        Unraised, Raised, Unasked, DeleteStages, ByAddress, Interrupted
  <2>8. Promise(c)
    BY <1>0, <2>1, <2>3
    DEF Promise, Went, Moved, CloudTyped, NodeOf, Creating, CleaningUp, At, CreateStages,
        RemovalStages, Gone, Billing, StageInv, MachineInv,
        Unraised, Raised, Unasked, DeleteStages
  <2>9. Kept(c)
    BY <1>0, <2>1, <2>3 DEF Kept, Went, Moved, StageInv, At, Unraised, Unasked, DeleteStages
  <2>10. KeyInv'
    BY <1>0, <2>1, <2>3 DEF KeyInv, Went, Moved, At
  <2> QED BY <2>5, <2>6, <2>7, <2>8, <2>9, <2>10 DEF Step
<1>8. CASE AzDeleteVm(c)
  <2>1. At(c, "remove") /\ UNCHANGED <<provider, listed, part, addr, keys, lock>>
    BY <1>8 DEF AzDeleteVm, sharedVars, cloudVars
  <2>2. "findnic" \in Stages /\ "created" \in Stages
    BY DEF Stages, Resting, CreateStages, RemovalStages, DeleteStages
  <2>3. \/ Drop(call[c].target, TRUE) /\ Went(c, "findnic")
        \/ DropOrNot(call[c].target, TRUE) /\ Went(c, "created")
    BY <1>0, <1>8, <2>1, <2>2, GotoMoves
    DEF AzDeleteVm, AzRaiseDelete, RaiseDelete
  <2>4. Interrupt \/ NoInterrupt
    BY <1>8 DEF AzDeleteVm, AzRaiseDelete, RaiseDelete
  <2>5. CloudTyped'
    BY <1>0, <2>1, <2>3 DEF CloudTyped, Drop, DropOrNot
  <2>6. TypeOK'
    BY <1>0, <2>1, <2>3, <2>5, TypesOf, <2>4, InterruptTyped, TypesAfter DEF Went, Moved
  <2>7. Others(c) /\ (ByAddress => OwnAddress(c))
    BY <1>0, <2>1, <2>3
    DEF Others, OwnAddress, Went, Moved, CloudTyped, HoldsAddress, HasPart, Gone, Billing,
        ByAddress, StageInv, At, Drop, DropOrNot
  <2>8. StageInv(c)' /\ MachineInv(c)'
    BY <1>0, <2>1, <2>3
    DEF StageInv, MachineInv, Went, Moved, CloudTyped, Gone, Billing, At, CleaningUp,
        Unraised, Raised, Unasked, DeleteStages, ByAddress, Interrupted, Drop, DropOrNot
  <2>9. Promise(c)
    BY <1>0, <2>1, <2>3
    DEF Promise, Went, Moved, CloudTyped, NodeOf, Creating, CleaningUp, At, CreateStages,
        RemovalStages, Gone, Billing, StageInv, MachineInv,
        Unraised, Raised, Unasked, DeleteStages, Drop, DropOrNot
  <2>10. Kept(c)
    BY <1>0, <2>1, <2>3 DEF Kept, Went, Moved, StageInv, At, Unraised, Unasked, DeleteStages
  <2>11. KeyInv'
    BY <1>0, <2>1, <2>3 DEF KeyInv, Went, Moved, At
  <2> QED BY <2>6, <2>7, <2>8, <2>9, <2>10, <2>11 DEF Step
<1>9. CASE AzDeleteNic(c)
  <2>1. At(c, "findnic") /\ UNCHANGED <<provider, vm, listed, addr, keys, lock>>
    BY <1>9 DEF AzDeleteNic, sharedVars, cloudVars
  <2>2. "deleted" \in Stages /\ "created" \in Stages
    BY DEF Stages, Resting, CreateStages, RemovalStages, DeleteStages
  <2>3. /\ \/ UNCHANGED part
           \/ \E d \in Calls : part[d] = "up" /\ part' = [part EXCEPT ![d] = "gone"]
        /\ Went(c, "deleted") \/ Went(c, "created")
    BY <1>0, <1>9, <2>1, <2>2, GotoMoves
    DEF AzDeleteNic, AzRaiseDelete, RaiseDelete
  <2>4. Interrupt \/ NoInterrupt
    BY <1>9 DEF AzDeleteNic, AzRaiseDelete, RaiseDelete
  <2>5. CloudTyped'
    BY <1>0, <2>1, <2>3 DEF CloudTyped
  <2>6. TypeOK'
    BY <1>0, <2>1, <2>3, <2>5, TypesOf, <2>4, InterruptTyped, TypesAfter DEF Went, Moved
  <2>7. Others(c) /\ (ByAddress => OwnAddress(c))
    BY <1>0, <2>1, <2>3
    DEF Others, OwnAddress, Went, Moved, CloudTyped, HoldsAddress, HasPart, Gone, Billing,
        ByAddress, StageInv, At
  <2>8. StageInv(c)' /\ MachineInv(c)'
    BY <1>0, <2>1, <2>3
    DEF StageInv, MachineInv, Went, Moved, CloudTyped, Gone, Billing, At, CleaningUp,
        Unraised, Raised, Unasked, DeleteStages, ByAddress, Interrupted
  <2>9. Promise(c)
    BY <1>0, <2>1, <2>3
    DEF Promise, Went, Moved, CloudTyped, NodeOf, Creating, CleaningUp, At, CreateStages,
        RemovalStages, Gone, Billing, StageInv, MachineInv,
        Unraised, Raised, Unasked, DeleteStages
  <2>10. Kept(c)
    BY <1>0, <2>1, <2>3 DEF Kept, Went, Moved, StageInv, At, Unraised, Unasked, DeleteStages
  <2>11. KeyInv'
    BY <1>0, <2>1, <2>3 DEF KeyInv, Went, Moved, At
  <2> QED BY <2>6, <2>7, <2>8, <2>9, <2>10, <2>11 DEF Step
<1> QED
  BY <1>1, <1>2, <1>3, <1>4, <1>5, <1>6, <1>7, <1>8, <1>9 DEF AzStep

----------------------------------------------------------------------------
(* UpCloud *)

\* Every step of a call on UpCloud does what Step says.
LEMMA UpSteps ==
    ASSUME ProvidersInv, NEW c \in Calls, provider = "upcloud", UpStep(c)
    PROVE  Step(c) /\ KeyInv'
<1>0. TypeOK /\ CallsTyped /\ CloudTyped /\ StageInv(c) /\ MachineInv(c) /\ AddressInv /\ KeyInv
  BY TypesOf DEF ProvidersInv
<1>1. CASE UpCreate(c)
  <2>1. At(c, "post") /\ UNCHANGED <<provider, keys, lock>>
    BY <1>1 DEF UpCreate, sharedVars, cloudVars
  <2>2. "created" \in Stages /\ "failed" \in Stages /\ "destroy" \in Stages
    BY DEF Stages, Resting, CreateStages, RemovalStages, DeleteStages
  <2>3. \/ /\ UpNewServer(c)
           /\ \/ Went(c, "created") \/ Threw(c, "cancel", "failed")
              \/ Threw(c, "api", "destroy")
        \/ /\ UpNewServer(c) \/ UNCHANGED <<vm, listed, part, addr>>
           /\ ThrewWarned(c, "api", "failed")
    BY <1>0, <1>1, <2>1, <2>2, GotoMoves, RaiseMoves, RaiseToldMoves
    DEF UpCreate
  <2>4. Interrupt \/ NoInterrupt
    BY <1>1 DEF UpCreate
  <2>5. CloudTyped'
    <3>1. CASE UNCHANGED <<vm, listed, part, addr>>
      BY <1>0, <3>1 DEF CloudTyped
    <3>2. CASE UpNewServer(c)
      <4>1. PICK a \in FreeAddresses : /\ Accept(c)
                                       /\ part' = [part EXCEPT ![c] = "up"]
                                       /\ addr' = [addr EXCEPT ![c] = a]
        BY <3>2 DEF UpNewServer
      <4> QED BY <1>0, <4>1 DEF CloudTyped, Accept, FreeAddresses
    <3> QED BY <2>3, <3>1, <3>2
  <2>6. TypeOK'
    BY <1>0, <2>1, <2>3, <2>5, TypesOf, <2>4, InterruptTyped, TypesAfter
    DEF Went, Threw, ThrewWarned, Moved
  <2>7. Others(c) /\ (ByAddress => OwnAddress(c))
    BY <1>0, <2>1, <2>3
    DEF Others, OwnAddress, Went, Threw, ThrewWarned, Moved, CloudTyped, HoldsAddress, HasPart,
        Gone, Billing, ByAddress, StageInv, At, UpNewServer, Accept, FreeAddresses
  <2>8. StageInv(c)' /\ MachineInv(c)'
    BY <1>0, <2>1, <2>3
    DEF StageInv, MachineInv, Went, Threw, ThrewWarned, Moved, CloudTyped, Gone, Billing, At,
        CleaningUp,
        Unraised, Raised, Unasked, DeleteStages, ByAddress, Interrupted, UpNewServer, Accept,
        FreeAddresses, LeavesSilently
  <2>9. Promise(c)
    BY <1>0, <2>1, <2>3
    DEF Promise, Went, Threw, ThrewWarned, Moved, CloudTyped, NodeOf, Creating, CleaningUp, At,
        CreateStages, RemovalStages, Gone, Billing, StageInv, MachineInv,
        Unraised, Raised, Unasked, DeleteStages, UpNewServer, Accept, FreeAddresses
  <2>10. Kept(c)
    BY <1>0, <2>1, <2>3
    DEF Kept, Went, Threw, ThrewWarned, Moved, StageInv, At, Unraised, Unasked, DeleteStages
  <2>11. KeyInv'
    BY <1>0, <2>1, <2>3 DEF KeyInv, Went, Threw, ThrewWarned, Moved, At
  <2> QED BY <2>6, <2>7, <2>8, <2>9, <2>10, <2>11 DEF Step
<1>2. CASE UpDestroyCreated(c)
  <2>1. At(c, "destroy") /\ UNCHANGED <<provider, listed, addr, keys, lock, cancels>>
    BY <1>2 DEF UpDestroyCreated, sharedVars, cloudVars
  <2>2. "failed" \in Stages
    BY DEF Stages, Resting, CreateStages, RemovalStages, DeleteStages
  <2>3. /\ UNCHANGED part \/ part' = [part EXCEPT ![c] = "gone"]
        /\ \/ Drop(c, TRUE) /\ Went(c, "failed")
           \/ DropOrNot(c, TRUE) /\ Warned(c, "failed")
    BY <1>0, <1>2, <2>1, <2>2, GotoMoves, TellMoves
    DEF UpDestroyCreated
  <2>4. CloudTyped'
    BY <1>0, <2>1, <2>3 DEF CloudTyped, Drop, DropOrNot
  <2>5. TypeOK'
    BY <1>0, <2>1, <2>3, <2>4, TypesOf, TypesAfter DEF Went, Warned, Moved
  <2>6. Others(c) /\ (ByAddress => OwnAddress(c))
    BY <1>0, <2>1, <2>3
    DEF Others, OwnAddress, Went, Warned, Moved, CloudTyped, HoldsAddress, HasPart, Gone,
        Billing, ByAddress, StageInv, At, Drop, DropOrNot
  <2>7. StageInv(c)' /\ MachineInv(c)'
    BY <1>0, <2>1, <2>3
    DEF StageInv, MachineInv, Went, Warned, Moved, CloudTyped, Gone, Billing, At, CleaningUp,
        Unraised, Raised, Unasked, DeleteStages, ByAddress, Interrupted, Drop, DropOrNot
  <2>8. Promise(c)
    BY <1>0, <2>1, <2>3
    DEF Promise, Went, Warned, Moved, CloudTyped, NodeOf, Creating, CleaningUp, At,
        CreateStages, RemovalStages, Gone, Billing, StageInv, MachineInv,
        Unraised, Raised, Unasked, DeleteStages, Drop, DropOrNot
  <2>9. Kept(c)
    BY <1>0, <2>1, <2>3
    DEF Kept, Went, Warned, Moved, StageInv, At, Unraised, Unasked, DeleteStages
  <2>10. KeyInv'
    BY <1>0, <2>1, <2>3 DEF KeyInv, Went, Warned, Moved, At
  <2> QED BY <2>5, <2>6, <2>7, <2>8, <2>9, <2>10 DEF Step
<1>3. CASE UpFind(c)
  <2>1. At(c, "find") /\ UNCHANGED <<provider, vm, listed, part, addr, keys, lock, cancels>>
    BY <1>3 DEF UpFind, sharedVars, cloudVars
  <2>2. "stop" \in Stages /\ "deleted" \in Stages /\ "created" \in Stages
    BY DEF Stages, Resting, CreateStages, RemovalStages, DeleteStages
  <2>3. \/ \E d \in MachinesAt(addr[c]) : Aimed(c, d, "stop")
        \/ MachinesAt(addr[c]) = {} /\ Went(c, "deleted")
        \/ Went(c, "created")
    BY <1>0, <1>3, <2>1, <2>2, GotoMoves, TargetMoves
    DEF UpFind, RaiseDelete, MachinesAt
  <2>4. CallsTyped' /\ \A d \in Calls \ {c} : call'[d] = call[d]
    BY <2>3 DEF Went, Aimed, Moved
  <2>5. TypeOK' /\ Others(c) /\ (ByAddress => OwnAddress(c))
    BY <1>0, <2>1, <2>3, <2>4, QuietSteps, TypesOf
  <2>6. /\ MachinesAt(addr[c]) = {} => Gone(c)
        /\ \A d \in MachinesAt(addr[c]) : d # NoCall /\ Billing(d) /\ (d # c => Gone(c))
    BY <1>0, FoundByAddress DEF ByAddress
  <2>7. StageInv(c)' /\ MachineInv(c)'
    BY <1>0, <2>1, <2>3, <2>6
    DEF StageInv, MachineInv, Went, Aimed, Moved, CloudTyped, Gone, Billing, At, CleaningUp,
        Unraised, Raised, Unasked, DeleteStages, ByAddress, Interrupted
  <2>8. Promise(c)
    BY <1>0, <2>1, <2>3
    DEF Promise, Went, Aimed, Moved, CloudTyped, NodeOf, Creating, CleaningUp, At,
        CreateStages, RemovalStages, Gone, Billing, StageInv, MachineInv,
        Unraised, Raised, Unasked, DeleteStages, MachinesAt
  <2>9. Kept(c)
    BY <1>0, <2>1, <2>3
    DEF Kept, Went, Aimed, Moved, StageInv, At, Unraised, Unasked, DeleteStages
  <2>10. KeyInv'
    BY <1>0, <2>1, <2>3 DEF KeyInv, Went, Aimed, Moved, At
  <2> QED BY <2>4, <2>5, <2>7, <2>8, <2>9, <2>10 DEF Step
<1>4. CASE UpStop(c)
  <2>1. At(c, "stop") /\ UNCHANGED <<provider, vm, listed, part, addr, keys, lock, cancels>>
    BY <1>4 DEF UpStop, sharedVars, cloudVars
  <2>2. "remove" \in Stages /\ "created" \in Stages
    BY DEF Stages, Resting, CreateStages, RemovalStages, DeleteStages
  <2>3. Went(c, "remove") \/ Went(c, "created")
    BY <1>0, <1>4, <2>1, <2>2, GotoMoves
    DEF UpStop, RaiseDelete
  <2>4. CallsTyped' /\ \A d \in Calls \ {c} : call'[d] = call[d]
    BY <2>3 DEF Went, Moved
  <2>5. TypeOK' /\ Others(c) /\ (ByAddress => OwnAddress(c))
    BY <1>0, <2>1, <2>3, <2>4, QuietSteps, TypesOf
  <2>6. StageInv(c)' /\ MachineInv(c)'
    BY <1>0, <2>1, <2>3
    DEF StageInv, MachineInv, Went, Moved, CloudTyped, Gone, Billing, At, CleaningUp,
        Unraised, Raised, Unasked, DeleteStages, ByAddress, Interrupted
  <2>7. Promise(c)
    BY <1>0, <2>1, <2>3
    DEF Promise, Went, Moved, CloudTyped, NodeOf, Creating, CleaningUp, At, CreateStages,
        RemovalStages, Gone, Billing, StageInv, MachineInv,
        Unraised, Raised, Unasked, DeleteStages
  <2>8. Kept(c)
    BY <1>0, <2>1, <2>3 DEF Kept, Went, Moved, StageInv, At, Unraised, Unasked, DeleteStages
  <2>9. KeyInv'
    BY <1>0, <2>1, <2>3 DEF KeyInv, Went, Moved, At
  <2> QED BY <2>4, <2>5, <2>6, <2>7, <2>8, <2>9 DEF Step
<1>5. CASE UpDestroy(c)
  <2>1. At(c, "remove") /\ UNCHANGED <<provider, listed, part, addr, keys, lock, cancels>>
    BY <1>5 DEF UpDestroy, sharedVars, cloudVars
  <2>2. "leftover" \in Stages /\ "created" \in Stages /\ "deleted" \in Stages
    BY DEF Stages, Resting, CreateStages, RemovalStages, DeleteStages
  <2>3. Attempts(call[c].at) = DeleteAttempts BY <2>1, AttemptsOf DEF At
  <2>4. \/ Drop(call[c].target, TRUE) /\ Went(c, "leftover")
        \/ DropOrNot(call[c].target, TRUE) /\ (Went(c, "remove") \/ Went(c, "created"))
        \/ Gone(call[c].target) /\ UNCHANGED vm /\ (Went(c, "deleted") \/ Went(c, "created"))
    BY <1>0, <1>5, <2>1, <2>2, <2>3, GotoMoves, AgainMoves
    DEF UpDestroy, RaiseDelete, At
  <2>5. CloudTyped'
    BY <1>0, <2>1, <2>4 DEF CloudTyped, Drop, DropOrNot
  <2>6. TypeOK'
    BY <1>0, <2>1, <2>4, <2>5, TypesOf, TypesAfter DEF Went, Moved
  <2>7. Others(c) /\ (ByAddress => OwnAddress(c))
    BY <1>0, <2>1, <2>4
    DEF Others, OwnAddress, Went, Moved, CloudTyped, HoldsAddress, HasPart, Gone, Billing,
        ByAddress, StageInv, At, Drop, DropOrNot
  <2>8. StageInv(c)' /\ MachineInv(c)'
    BY <1>0, <2>1, <2>4
    DEF StageInv, MachineInv, Went, Moved, CloudTyped, Gone, Billing, At, CleaningUp,
        Unraised, Raised, Unasked, DeleteStages, ByAddress, Interrupted, Drop, DropOrNot
  <2>9. Promise(c)
    BY <1>0, <2>1, <2>4
    DEF Promise, Went, Moved, CloudTyped, NodeOf, Creating, CleaningUp, At, CreateStages,
        RemovalStages, Gone, Billing, StageInv, MachineInv,
        Unraised, Raised, Unasked, DeleteStages, Drop, DropOrNot
  <2>10. Kept(c)
    BY <1>0, <2>1, <2>4 DEF Kept, Went, Moved, StageInv, At, Unraised, Unasked, DeleteStages
  <2>11. KeyInv'
    BY <1>0, <2>1, <2>4 DEF KeyInv, Went, Moved, At
  <2> QED BY <2>6, <2>7, <2>8, <2>9, <2>10, <2>11 DEF Step
<1>6. CASE UpDestroyStorage(c)
  <2>1. At(c, "leftover") /\ UNCHANGED <<provider, vm, listed, addr, keys, lock>>
    BY <1>6 DEF UpDestroyStorage, sharedVars, cloudVars
  <2>2. "created" \in Stages /\ "deleted" \in Stages
    BY DEF Stages, Resting, CreateStages, RemovalStages, DeleteStages
  <2>3. /\ UNCHANGED part \/ part' = [part EXCEPT ![call[c].target] = "gone"]
        /\ Went(c, "deleted") \/ Went(c, "created")
    BY <1>0, <1>6, <2>1, <2>2, GotoMoves
    DEF UpDestroyStorage, RaiseDelete
  <2>4. Interrupt \/ NoInterrupt
    BY <1>6 DEF UpDestroyStorage, RaiseDelete
  <2>5. CloudTyped'
    BY <1>0, <2>1, <2>3 DEF CloudTyped
  <2>6. TypeOK'
    BY <1>0, <2>1, <2>3, <2>5, TypesOf, <2>4, InterruptTyped, TypesAfter DEF Went, Moved
  <2>7. Others(c) /\ (ByAddress => OwnAddress(c))
    BY <1>0, <2>1, <2>3
    DEF Others, OwnAddress, Went, Moved, CloudTyped, HoldsAddress, HasPart, Gone, Billing,
        ByAddress, StageInv, At
  <2>8. StageInv(c)' /\ MachineInv(c)'
    BY <1>0, <2>1, <2>3
    DEF StageInv, MachineInv, Went, Moved, CloudTyped, Gone, Billing, At, CleaningUp,
        Unraised, Raised, Unasked, DeleteStages, ByAddress, Interrupted
  <2>9. Promise(c)
    BY <1>0, <2>1, <2>3
    DEF Promise, Went, Moved, CloudTyped, NodeOf, Creating, CleaningUp, At, CreateStages,
        RemovalStages, Gone, Billing, StageInv, MachineInv,
        Unraised, Raised, Unasked, DeleteStages
  <2>10. Kept(c)
    BY <1>0, <2>1, <2>3 DEF Kept, Went, Moved, StageInv, At, Unraised, Unasked, DeleteStages
  <2>11. KeyInv'
    BY <1>0, <2>1, <2>3 DEF KeyInv, Went, Moved, At
  <2> QED BY <2>6, <2>7, <2>8, <2>9, <2>10, <2>11 DEF Step
<1> QED
  BY <1>1, <1>2, <1>3, <1>4, <1>5, <1>6 DEF UpStep

----------------------------------------------------------------------------
(* Hetzner *)

\* Every step of a call on Hetzner does what Step says.
LEMMA HetznerSteps ==
    ASSUME ProvidersInv, NEW c \in Calls, provider = "hetzner", HetznerStep(c)
    PROVE  Step(c) /\ KeyInv'
<1>0. TypeOK /\ CallsTyped /\ CloudTyped /\ StageInv(c) /\ MachineInv(c) /\ AddressInv /\ KeyInv
  BY TypesOf DEF ProvidersInv
<1>1. CASE HetznerFindKey(c)
  <2>1. At(c, "keys") /\ UNCHANGED <<provider, vm, listed, part, addr, keys, lock>>
    BY <1>1 DEF HetznerFindKey, sharedVars, cloudVars
  <2>2. "post" \in Stages /\ "newkey" \in Stages /\ "failed" \in Stages
    BY DEF Stages, Resting, CreateStages, RemovalStages, DeleteStages
  <2>3. \/ Went(c, "post") \/ Went(c, "newkey")
        \/ Threw(c, "api", "failed") \/ Threw(c, "cancel", "failed")
    BY <1>0, <1>1, <2>1, <2>2, GotoMoves, RaiseMoves
    DEF HetznerFindKey
  <2>4. Interrupt \/ NoInterrupt
    BY <1>1 DEF HetznerFindKey
  <2>5. CallsTyped' /\ \A d \in Calls \ {c} : call'[d] = call[d]
    BY <2>3 DEF Went, Threw, Moved
  <2>6. TypeOK' /\ Others(c) /\ (ByAddress => OwnAddress(c))
    BY <1>0, <2>1, <2>3, <2>5, <2>4, InterruptTyped, QuietSteps, TypesOf
  <2>7. StageInv(c)' /\ MachineInv(c)'
    BY <1>0, <2>1, <2>3
    DEF StageInv, MachineInv, Went, Threw, Moved, CloudTyped, Gone, Billing, At, CleaningUp,
        Unraised, Raised, Unasked, DeleteStages, ByAddress, Interrupted
  <2>8. Promise(c)
    BY <1>0, <2>1, <2>3
    DEF Promise, Went, Threw, Moved, CloudTyped, NodeOf, Creating, CleaningUp, At,
        CreateStages, RemovalStages, Gone, Billing, StageInv, MachineInv,
        Unraised, Raised, Unasked, DeleteStages
  <2>9. Kept(c)
    BY <1>0, <2>1, <2>3
    DEF Kept, Went, Threw, Moved, StageInv, At, Unraised, Unasked, DeleteStages
  <2>10. KeyInv'
    BY <1>0, <2>1, <2>3 DEF KeyInv, Went, Threw, Moved, At
  <2> QED BY <2>5, <2>6, <2>7, <2>8, <2>9, <2>10 DEF Step
<1>2. CASE HetznerAddKey(c)
  <2>1. At(c, "newkey") /\ UNCHANGED <<provider, vm, listed, part, addr, lock>>
    BY <1>2 DEF HetznerAddKey, sharedVars, cloudVars
  <2>2. "post" \in Stages /\ "failed" \in Stages
    BY DEF Stages, Resting, CreateStages, RemovalStages, DeleteStages
  <2>3. ~KeyKnown => keys = 0 BY <1>0 DEF TypeOK, KeyKnown
  <2>4. /\ Goto(c, "post") => Went(c, "post")
        /\ Raise(c, "api", "failed", FALSE) => Threw(c, "api", "failed")
        /\ Raise(c, "cancel", "failed", FALSE) => Threw(c, "cancel", "failed")
    BY <1>0, <2>2, GotoMoves, RaiseMoves
  <2>5. UNCHANGED keys \/ (keys = 0 /\ keys' = 1)
    <3>1. UNCHANGED keys \/ (~KeyKnown /\ AddKey) BY <1>2 DEF HetznerAddKey, KeyAdded
    <3> QED BY <2>3, <3>1 DEF AddKey
  <2>6. /\ UNCHANGED keys \/ (keys = 0 /\ keys' = 1)
        /\ Went(c, "post") \/ Threw(c, "api", "failed") \/ Threw(c, "cancel", "failed")
    BY <1>2, <2>4, <2>5
    DEF HetznerAddKey
  <2>7. Interrupt \/ NoInterrupt
    BY <1>2 DEF HetznerAddKey
  <2>8. CallsTyped' /\ \A d \in Calls \ {c} : call'[d] = call[d]
    BY <2>6 DEF Went, Threw, Moved
  <2>9. TypeOK' /\ Others(c) /\ (ByAddress => OwnAddress(c))
    BY <1>0, <2>1, <2>6, <2>8, <2>7, InterruptTyped, QuietSteps, TypesOf
  <2>10. StageInv(c)' /\ MachineInv(c)'
    BY <1>0, <2>1, <2>6
    DEF StageInv, MachineInv, Went, Threw, Moved, CloudTyped, Gone, Billing, At, CleaningUp,
        Unraised, Raised, Unasked, DeleteStages, ByAddress, Interrupted
  <2>11. Promise(c)
    BY <1>0, <2>1, <2>6
    DEF Promise, Went, Threw, Moved, CloudTyped, NodeOf, Creating, CleaningUp, At,
        CreateStages, RemovalStages, Gone, Billing, StageInv, MachineInv,
        Unraised, Raised, Unasked, DeleteStages
  <2>12. Kept(c)
    BY <1>0, <2>1, <2>6
    DEF Kept, Went, Threw, Moved, StageInv, At, Unraised, Unasked, DeleteStages
  <2>13. KeyInv'
    BY <1>0, <2>1, <2>6 DEF KeyInv, Went, Threw, Moved, At
  <2> QED BY <2>8, <2>9, <2>10, <2>11, <2>12, <2>13 DEF Step
<1>3. CASE HetznerPost(c)
  <2>1. At(c, "post") /\ UNCHANGED <<provider, part, addr, keys, lock>>
    BY <1>3 DEF HetznerPost, sharedVars, cloudVars
  <2>2. "created" \in Stages /\ "list" \in Stages
    BY DEF Stages, Resting, CreateStages, RemovalStages, DeleteStages
  <2>3. \/ Accept(c) /\ Went(c, "created")
        \/ /\ Accept(c) \/ UNCHANGED <<vm, listed>>
           /\ Threw(c, "api", "list") \/ Threw(c, "cancel", "list")
    BY <1>0, <1>3, <2>1, <2>2, GotoMoves, RaiseMoves, HetznerOutcomes
    DEF HetznerPost, Requested, AcceptOrRefuse
  <2>4. Interrupt \/ NoInterrupt
    BY <1>3 DEF HetznerPost
  <2>5. CloudTyped'
    BY <1>0, <2>1, <2>3 DEF CloudTyped, Accept
  <2>6. TypeOK'
    BY <1>0, <2>1, <2>3, <2>5, TypesOf, <2>4, InterruptTyped, TypesAfter DEF Went, Threw, Moved
  <2>7. Others(c) /\ (ByAddress => OwnAddress(c))
    BY <1>0, <2>1, <2>3
    DEF Others, OwnAddress, Went, Threw, Moved, CloudTyped, HoldsAddress, HasPart, Gone,
        Billing, ByAddress, StageInv, At, Accept
  <2>8. StageInv(c)' /\ MachineInv(c)'
    BY <1>0, <2>1, <2>3
    DEF StageInv, MachineInv, Went, Threw, Moved, CloudTyped, Gone, Billing, At, CleaningUp,
        Unraised, Raised, Unasked, DeleteStages, ByAddress, Interrupted, Accept
  <2>9. Promise(c)
    BY <1>0, <2>1, <2>3
    DEF Promise, Went, Threw, Moved, CloudTyped, NodeOf, Creating, CleaningUp, At,
        CreateStages, RemovalStages, Gone, Billing, StageInv, MachineInv,
        Unraised, Raised, Unasked, DeleteStages, Accept
  <2>10. Kept(c)
    BY <1>0, <2>1, <2>3
    DEF Kept, Went, Threw, Moved, StageInv, At, Unraised, Unasked, DeleteStages
  <2>11. KeyInv'
    BY <1>0, <2>1, <2>3 DEF KeyInv, Went, Threw, Moved, At
  <2> QED BY <2>6, <2>7, <2>8, <2>9, <2>10, <2>11 DEF Step
<1>4. CASE HetznerReconcile(c)
  <2>1. At(c, "list") /\ UNCHANGED <<provider, vm, listed, part, addr, keys, lock>>
    BY <1>4 DEF HetznerReconcile, sharedVars, cloudVars
  <2>2. "reap" \in Stages /\ "list" \in Stages /\ "failed" \in Stages
    BY DEF Stages, Resting, CreateStages, RemovalStages, DeleteStages
  <2>3. Attempts(call[c].at) = ReconcileAttempts BY <2>1, AttemptsOf DEF At
  <2>4. \/ Went(c, "reap") \/ Went(c, "list")
        \/ Warned(c, "failed") \/ Threw(c, "cancel", "failed")
    BY <1>0, <1>4, <2>1, <2>2, <2>3, GotoMoves, RaiseMoves, TellMoves, AgainMoves
    DEF HetznerReconcile, HetznerNoMatch, At
  <2>5. Interrupt \/ NoInterrupt
    BY <1>4 DEF HetznerReconcile, HetznerNoMatch
  <2>6. CallsTyped' /\ \A d \in Calls \ {c} : call'[d] = call[d]
    BY <2>4 DEF Went, Threw, Warned, Moved
  <2>7. TypeOK' /\ Others(c) /\ (ByAddress => OwnAddress(c))
    BY <1>0, <2>1, <2>4, <2>6, <2>5, InterruptTyped, QuietSteps, TypesOf
  <2>8. StageInv(c)' /\ MachineInv(c)'
    BY <1>0, <2>1, <2>4
    DEF StageInv, MachineInv, Went, Threw, Warned, Moved, CloudTyped, Gone, Billing, At,
        CleaningUp,
        Unraised, Raised, Unasked, DeleteStages, ByAddress, Interrupted, LeavesSilently
  <2>9. Promise(c)
    BY <1>0, <2>1, <2>4
    DEF Promise, Went, Threw, Warned, Moved, CloudTyped, NodeOf, Creating, CleaningUp, At,
        CreateStages, RemovalStages, Gone, Billing, StageInv, MachineInv,
        Unraised, Raised, Unasked, DeleteStages
  <2>10. Kept(c)
    BY <1>0, <2>1, <2>4
    DEF Kept, Went, Threw, Warned, Moved, StageInv, At, Unraised, Unasked, DeleteStages
  <2>11. KeyInv'
    BY <1>0, <2>1, <2>4 DEF KeyInv, Went, Threw, Warned, Moved, At
  <2> QED BY <2>6, <2>7, <2>8, <2>9, <2>10, <2>11 DEF Step
<1>5. CASE HetznerRemove(c)
  <2>1. At(c, "reap") /\ UNCHANGED <<provider, listed, part, addr, keys, lock>>
    BY <1>5 DEF HetznerRemove, sharedVars, cloudVars
  <2>2. /\ "verify" \in Stages /\ "reap" \in Stages /\ "created" \in Stages
        /\ "deleted" \in Stages /\ "failed" \in Stages
    BY DEF Stages, Resting, CreateStages, RemovalStages, DeleteStages
  <2>3. Attempts(call[c].at) = DeleteAttempts BY <2>1, AttemptsOf DEF At
  <2>4. \A r \in RepliesAbout(c) :
           /\ HetznerOutcome(r, FALSE) = "gone" => Gone(c)
           /\ Deletion(c, r, FALSE) => DropOrNot(c, FALSE)
           /\ HetznerOutcome(r, FALSE) = "gone" /\ Deletion(c, r, FALSE)
                  => UNCHANGED vm /\ Gone(c)'
    BY <1>0
    DEF HetznerOutcome, HetznerTransient, RepliesAbout, Replies, Deletion, DropOrNot, DidIt,
        MayHaveDone, Gone, Billing, Drop, CloudTyped
  <2>5. /\ Removed(c) => Went(c, IF CleaningUp(c) THEN "failed" ELSE "deleted")
        /\ HetznerNotRemoved(c) =>
              \/ CleaningUp(c) /\ (Warned(c, "reap") \/ Warned(c, "failed"))
              \/ ~CleaningUp(c) /\ Went(c, "created")
        /\ HetznerInterrupted(c) =>
              \/ CleaningUp(c) /\ Threw(c, "cancel", "failed")
              \/ ~CleaningUp(c) /\ Went(c, "created")
        /\ Again(c) /\ ~LastTry(c, DeleteAttempts) => Went(c, "reap")
        /\ Goto(c, "verify") => Went(c, "verify")
    BY <1>0, <2>1, <2>2, <2>3, RemovedMoves, HetznerNotRemovedMoves, HetznerInterruptedMoves,
        AgainMoves, GotoMoves
    DEF At
  <2>6. \/ /\ Gone(c)' /\ (UNCHANGED vm)
           /\ Went(c, IF CleaningUp(c) THEN "failed" ELSE "deleted")
        \/ /\ DropOrNot(c, FALSE)
           /\ \/ Went(c, "verify") \/ Went(c, "reap")
              \/ /\ CleaningUp(c)
                 /\ \/ Warned(c, "reap") \/ Warned(c, "failed")
                    \/ Threw(c, "cancel", "failed")
              \/ ~CleaningUp(c) /\ Went(c, "created")
    BY <1>5, <2>4, <2>5
    DEF HetznerRemove
  <2>7. Interrupt \/ NoInterrupt
    BY <1>5 DEF HetznerRemove, HetznerInterrupted
  <2>8. CloudTyped'
    BY <1>0, <2>1, <2>6 DEF CloudTyped, Drop, DropOrNot
  <2>9. TypeOK'
    BY <1>0, <2>1, <2>6, <2>8, TypesOf, <2>7, InterruptTyped, TypesAfter
    DEF Went, Threw, Warned, Moved
  <2>10. Others(c) /\ (ByAddress => OwnAddress(c))
    BY <1>0, <2>1, <2>6
    DEF Others, OwnAddress, Went, Threw, Warned, Moved, CloudTyped, HoldsAddress, HasPart,
        Gone, Billing, ByAddress, StageInv, At, Drop, DropOrNot
  <2>11. StageInv(c)' /\ MachineInv(c)'
    BY <1>0, <2>1, <2>6
    DEF StageInv, MachineInv, Went, Threw, Warned, Moved, CloudTyped, Gone, Billing, At,
        CleaningUp,
        Unraised, Raised, Unasked, DeleteStages, ByAddress, Interrupted, Drop, DropOrNot,
        LeavesSilently
  <2>12. Promise(c)
    BY <1>0, <2>1, <2>6
    DEF Promise, Went, Threw, Warned, Moved, CloudTyped, NodeOf, Creating, CleaningUp, At,
        CreateStages, RemovalStages, Gone, Billing, StageInv, MachineInv,
        Unraised, Raised, Unasked, DeleteStages, Drop, DropOrNot
  <2>13. Kept(c)
    BY <1>0, <2>1, <2>6
    DEF Kept, Went, Threw, Warned, Moved, StageInv, At, Unraised, Unasked, DeleteStages
  <2>14. KeyInv'
    BY <1>0, <2>1, <2>6 DEF KeyInv, Went, Threw, Warned, Moved, At
  <2> QED BY <2>9, <2>10, <2>11, <2>12, <2>13, <2>14 DEF Step
<1>6. CASE HetznerVerify(c)
  <2>1. At(c, "verify") /\ UNCHANGED <<provider, vm, listed, part, addr, keys, lock>>
    BY <1>6 DEF HetznerVerify, sharedVars, cloudVars
  <2>2. /\ "verify" \in Stages /\ "reap" \in Stages /\ "created" \in Stages
        /\ "deleted" \in Stages /\ "failed" \in Stages
    BY DEF Stages, Resting, CreateStages, RemovalStages, DeleteStages
  <2>3. Attempts(call[c].at) = Polls BY <2>1, AttemptsOf DEF At
  <2>4. \A r \in RepliesAbout(c) :
           /\ HetznerOutcome(r, TRUE) = "gone" => Gone(c)
    BY DEF HetznerOutcome, HetznerTransient, RepliesAbout, Replies
  <2>5. /\ Removed(c) => Went(c, IF CleaningUp(c) THEN "failed" ELSE "deleted")
        /\ HetznerNotRemoved(c) =>
              \/ CleaningUp(c) /\ (Warned(c, "reap") \/ Warned(c, "failed"))
              \/ ~CleaningUp(c) /\ Went(c, "created")
        /\ HetznerInterrupted(c) =>
              \/ CleaningUp(c) /\ Threw(c, "cancel", "failed")
              \/ ~CleaningUp(c) /\ Went(c, "created")
        /\ Again(c) /\ ~LastTry(c, Polls) => Went(c, "verify")
    BY <1>0, <2>1, <2>2, <2>3, RemovedMoves, HetznerNotRemovedMoves, HetznerInterruptedMoves,
        AgainMoves
    DEF At
  <2>6. \/ Gone(c) /\ Went(c, IF CleaningUp(c) THEN "failed" ELSE "deleted")
        \/ Went(c, "verify")
        \/ /\ CleaningUp(c)
           /\ \/ Warned(c, "reap") \/ Warned(c, "failed")
              \/ Threw(c, "cancel", "failed")
        \/ ~CleaningUp(c) /\ Went(c, "created")
    BY <1>6, <2>4, <2>5
    DEF HetznerVerify
  <2>7. Interrupt \/ NoInterrupt
    BY <1>6 DEF HetznerVerify, HetznerInterrupted
  <2>8. CallsTyped' /\ \A d \in Calls \ {c} : call'[d] = call[d]
    BY <2>6 DEF Went, Threw, Warned, Moved
  <2>9. TypeOK' /\ Others(c) /\ (ByAddress => OwnAddress(c))
    BY <1>0, <2>1, <2>6, <2>8, <2>7, InterruptTyped, QuietSteps, TypesOf
  <2>10. StageInv(c)' /\ MachineInv(c)'
    BY <1>0, <2>1, <2>6
    DEF StageInv, MachineInv, Went, Threw, Warned, Moved, CloudTyped, Gone, Billing, At,
        CleaningUp,
        Unraised, Raised, Unasked, DeleteStages, ByAddress, Interrupted, LeavesSilently
  <2>11. Promise(c)
    BY <1>0, <2>1, <2>6
    DEF Promise, Went, Threw, Warned, Moved, CloudTyped, NodeOf, Creating, CleaningUp, At,
        CreateStages, RemovalStages, Gone, Billing, StageInv, MachineInv,
        Unraised, Raised, Unasked, DeleteStages
  <2>12. Kept(c)
    BY <1>0, <2>1, <2>6
    DEF Kept, Went, Threw, Warned, Moved, StageInv, At, Unraised, Unasked, DeleteStages
  <2>13. KeyInv'
    BY <1>0, <2>1, <2>6 DEF KeyInv, Went, Threw, Warned, Moved, At
  <2> QED BY <2>8, <2>9, <2>10, <2>11, <2>12, <2>13 DEF Step
<1> QED
  BY <1>1, <1>2, <1>3, <1>4, <1>5, <1>6 DEF HetznerStep

----------------------------------------------------------------------------
(* VastAI *)

\* Every step of a call on VastAI does what Step says.
LEMMA VastAISteps ==
    ASSUME ProvidersInv, NEW c \in Calls, provider = "vastai", VastAIStep(c)
    PROVE  Step(c) /\ KeyInv'
<1>0. TypeOK /\ CallsTyped /\ CloudTyped /\ StageInv(c) /\ MachineInv(c) /\ AddressInv /\ KeyInv
  BY TypesOf DEF ProvidersInv
<1>1. CASE VastAIFindKey(c)
  <2>1. At(c, "keys") /\ UNCHANGED <<provider, vm, listed, part, addr, keys, lock>>
    BY <1>1 DEF VastAIFindKey, sharedVars, cloudVars
  <2>2. "offers" \in Stages /\ "newkey" \in Stages /\ "failed" \in Stages
    BY DEF Stages, Resting, CreateStages, RemovalStages, DeleteStages
  <2>3. ~KeyKnown => keys = 0 BY <1>0 DEF TypeOK, KeyKnown
  <2>4. \/ Went(c, "offers") \/ (keys = 0 /\ Went(c, "newkey"))
        \/ Threw(c, "api", "failed") \/ Threw(c, "cancel", "failed")
    BY <1>0, <1>1, <2>1, <2>2, <2>3, GotoMoves, RaiseMoves, VastAIInterruptedMoves
    DEF VastAIFindKey, Creating, At, CreateStages
  <2>5. Interrupt \/ NoInterrupt
    BY <1>1 DEF VastAIFindKey, VastAIInterrupted
  <2>6. CallsTyped' /\ \A d \in Calls \ {c} : call'[d] = call[d]
    BY <2>4 DEF Went, Threw, Moved
  <2>7. TypeOK' /\ Others(c) /\ (ByAddress => OwnAddress(c))
    BY <1>0, <2>1, <2>4, <2>6, <2>5, InterruptTyped, QuietSteps, TypesOf
  <2>8. StageInv(c)' /\ MachineInv(c)'
    BY <1>0, <2>1, <2>4
    DEF StageInv, MachineInv, Went, Threw, Moved, CloudTyped, Gone, Billing, At, CleaningUp,
        Unraised, Raised, Unasked, DeleteStages, ByAddress, Interrupted
  <2>9. Promise(c)
    BY <1>0, <2>1, <2>4
    DEF Promise, Went, Threw, Moved, CloudTyped, NodeOf, Creating, CleaningUp, At,
        CreateStages, RemovalStages, Gone, Billing, StageInv, MachineInv,
        Unraised, Raised, Unasked, DeleteStages
  <2>10. Kept(c)
    BY <1>0, <2>1, <2>4
    DEF Kept, Went, Threw, Moved, StageInv, At, Unraised, Unasked, DeleteStages
  <2>11. Creating(c)' => Creating(c)
    BY <1>0, <2>1, <2>4
    DEF Went, Threw, Warned, Moved, At, Creating, CleaningUp, CreateStages,
        RemovalStages, StageInv, Raised
  <2>12. \A d \in Calls \ {c} : Creating(d)' = Creating(d)
    BY <2>4 DEF Went, Threw, Warned, Moved, Creating, CleaningUp
  <2>13. KeyInv'
    BY <1>0, <2>1, <2>4, <2>11, <2>12 DEF KeyInv, Went, Threw, Moved, At
  <2> QED BY <2>6, <2>7, <2>8, <2>9, <2>10, <2>13 DEF Step
<1>2. CASE VastAIAddKey(c)
  <2>1. At(c, "newkey") /\ UNCHANGED <<provider, vm, listed, part, addr, lock>>
    BY <1>2 DEF VastAIAddKey, sharedVars, cloudVars
  <2>2. "offers" \in Stages /\ "failed" \in Stages
    BY DEF Stages, Resting, CreateStages, RemovalStages, DeleteStages
  <2>3. /\ UNCHANGED keys \/ keys' = keys + 1
        /\ Went(c, "offers") \/ Threw(c, "api", "failed") \/ Threw(c, "cancel", "failed")
    BY <1>0, <1>2, <2>1, <2>2, GotoMoves, RaiseMoves, VastAIInterruptedMoves
    DEF VastAIAddKey, KeyAdded, AddKey, Creating, At, CreateStages
  <2>4. Interrupt \/ NoInterrupt
    BY <1>2 DEF VastAIAddKey, VastAIInterrupted
  <2>5. CallsTyped' /\ \A d \in Calls \ {c} : call'[d] = call[d]
    BY <2>3 DEF Went, Threw, Moved
  <2>6. TypeOK' /\ Others(c) /\ (ByAddress => OwnAddress(c))
    BY <1>0, <2>1, <2>3, <2>5, <2>4, InterruptTyped, QuietSteps, TypesOf
  <2>7. StageInv(c)' /\ MachineInv(c)'
    BY <1>0, <2>1, <2>3
    DEF StageInv, MachineInv, Went, Threw, Moved, CloudTyped, Gone, Billing, At, CleaningUp,
        Unraised, Raised, Unasked, DeleteStages, ByAddress, Interrupted
  <2>8. Promise(c)
    BY <1>0, <2>1, <2>3
    DEF Promise, Went, Threw, Moved, CloudTyped, NodeOf, Creating, CleaningUp, At,
        CreateStages, RemovalStages, Gone, Billing, StageInv, MachineInv,
        Unraised, Raised, Unasked, DeleteStages
  <2>9. Kept(c)
    BY <1>0, <2>1, <2>3
    DEF Kept, Went, Threw, Moved, StageInv, At, Unraised, Unasked, DeleteStages
  <2>10. Creating(c)' => Creating(c)
    BY <1>0, <2>1, <2>3
    DEF Went, Threw, Warned, Moved, At, Creating, CleaningUp, CreateStages,
        RemovalStages, StageInv, Raised
  <2>11. \A d \in Calls \ {c} : Creating(d)' = Creating(d)
    BY <2>3 DEF Went, Threw, Warned, Moved, Creating, CleaningUp
  <2>12. \A d \in Calls \ {c} : ~At(d, "newkey")
    BY <1>0, <2>1 DEF KeyInv, Creating, At, CreateStages
  <2>13. KeyInv'
    BY <1>0, <2>1, <2>3, <2>10, <2>11, <2>12 DEF KeyInv, Went, Threw, Moved, At
  <2> QED BY <2>5, <2>6, <2>7, <2>8, <2>9, <2>13 DEF Step
<1>3. CASE VastAISelectOffer(c)
  <2>1. At(c, "offers") /\ UNCHANGED <<provider, vm, listed, part, addr, keys, lock>>
    BY <1>3 DEF VastAISelectOffer, sharedVars, cloudVars
  <2>2. "post" \in Stages /\ "failed" \in Stages
    BY DEF Stages, Resting, CreateStages, RemovalStages, DeleteStages
  <2>3. Went(c, "post") \/ Threw(c, "api", "failed") \/ Threw(c, "cancel", "failed")
    BY <1>0, <1>3, <2>1, <2>2, GotoMoves, RaiseMoves, VastAIInterruptedMoves
    DEF VastAISelectOffer, Creating, At, CreateStages
  <2>4. Interrupt \/ NoInterrupt
    BY <1>3 DEF VastAISelectOffer, VastAIInterrupted
  <2>5. CallsTyped' /\ \A d \in Calls \ {c} : call'[d] = call[d]
    BY <2>3 DEF Went, Threw, Moved
  <2>6. TypeOK' /\ Others(c) /\ (ByAddress => OwnAddress(c))
    BY <1>0, <2>1, <2>3, <2>5, <2>4, InterruptTyped, QuietSteps, TypesOf
  <2>7. StageInv(c)' /\ MachineInv(c)'
    BY <1>0, <2>1, <2>3
    DEF StageInv, MachineInv, Went, Threw, Moved, CloudTyped, Gone, Billing, At, CleaningUp,
        Unraised, Raised, Unasked, DeleteStages, ByAddress, Interrupted
  <2>8. Promise(c)
    BY <1>0, <2>1, <2>3
    DEF Promise, Went, Threw, Moved, CloudTyped, NodeOf, Creating, CleaningUp, At,
        CreateStages, RemovalStages, Gone, Billing, StageInv, MachineInv,
        Unraised, Raised, Unasked, DeleteStages
  <2>9. Kept(c)
    BY <1>0, <2>1, <2>3
    DEF Kept, Went, Threw, Moved, StageInv, At, Unraised, Unasked, DeleteStages
  <2>10. Creating(c)' => Creating(c)
    BY <1>0, <2>1, <2>3
    DEF Went, Threw, Warned, Moved, At, Creating, CleaningUp, CreateStages,
        RemovalStages, StageInv, Raised
  <2>11. \A d \in Calls \ {c} : Creating(d)' = Creating(d)
    BY <2>3 DEF Went, Threw, Warned, Moved, Creating, CleaningUp
  <2>12. KeyInv'
    BY <1>0, <2>1, <2>3, <2>10, <2>11 DEF KeyInv, Went, Threw, Moved, At
  <2> QED BY <2>5, <2>6, <2>7, <2>8, <2>9, <2>12 DEF Step
<1>4. CASE VastAIPost(c)
  <2>1. At(c, "post") /\ UNCHANGED <<provider, part, addr, keys, lock>>
    BY <1>4 DEF VastAIPost, sharedVars, cloudVars
  <2>2. "ready" \in Stages /\ "list" \in Stages
    BY DEF Stages, Resting, CreateStages, RemovalStages, DeleteStages
  <2>3. \/ Accept(c) /\ Went(c, "ready")
        \/ /\ Accept(c) \/ UNCHANGED <<vm, listed>>
           /\ Threw(c, "api", "list") \/ Threw(c, "cancel", "list")
    BY <1>0, <1>4, <2>1, <2>2, GotoMoves, RaiseMoves, VastAIOutcomes
    DEF VastAIPost, Requested, AcceptOrRefuse
  <2>4. Interrupt \/ NoInterrupt
    BY <1>4 DEF VastAIPost
  <2>5. CloudTyped'
    BY <1>0, <2>1, <2>3 DEF CloudTyped, Accept
  <2>6. TypeOK'
    BY <1>0, <2>1, <2>3, <2>5, TypesOf, <2>4, InterruptTyped, TypesAfter DEF Went, Threw, Moved
  <2>7. Others(c) /\ (ByAddress => OwnAddress(c))
    BY <1>0, <2>1, <2>3
    DEF Others, OwnAddress, Went, Threw, Moved, CloudTyped, HoldsAddress, HasPart, Gone,
        Billing, ByAddress, StageInv, At, Accept
  <2>8. StageInv(c)' /\ MachineInv(c)'
    BY <1>0, <2>1, <2>3
    DEF StageInv, MachineInv, Went, Threw, Moved, CloudTyped, Gone, Billing, At, CleaningUp,
        Unraised, Raised, Unasked, DeleteStages, ByAddress, Interrupted, Accept
  <2>9. Promise(c)
    BY <1>0, <2>1, <2>3
    DEF Promise, Went, Threw, Moved, CloudTyped, NodeOf, Creating, CleaningUp, At,
        CreateStages, RemovalStages, Gone, Billing, StageInv, MachineInv,
        Unraised, Raised, Unasked, DeleteStages, Accept
  <2>10. Kept(c)
    BY <1>0, <2>1, <2>3
    DEF Kept, Went, Threw, Moved, StageInv, At, Unraised, Unasked, DeleteStages
  <2>11. Creating(c)' => Creating(c)
    BY <1>0, <2>1, <2>3
    DEF Went, Threw, Warned, Moved, At, Creating, CleaningUp, CreateStages,
        RemovalStages, StageInv, Raised
  <2>12. \A d \in Calls \ {c} : Creating(d)' = Creating(d)
    BY <2>3 DEF Went, Threw, Warned, Moved, Creating, CleaningUp
  <2>13. KeyInv'
    BY <1>0, <2>1, <2>3, <2>11, <2>12 DEF KeyInv, Went, Threw, Moved, At
  <2> QED BY <2>6, <2>7, <2>8, <2>9, <2>10, <2>13 DEF Step
<1>5. CASE VastAIAwaitReady(c)
  <2>1. At(c, "ready") /\ UNCHANGED <<provider, vm, listed, part, addr, keys, lock>>
    BY <1>5 DEF VastAIAwaitReady, sharedVars, cloudVars
  <2>2. "created" \in Stages /\ "ready" \in Stages /\ "reap" \in Stages
    BY DEF Stages, Resting, CreateStages, RemovalStages, DeleteStages
  <2>3. Attempts(call[c].at) = Polls BY <2>1, AttemptsOf DEF At
  <2>4. \/ ~Gone(c) /\ Went(c, "created")
        \/ Went(c, "ready")
        \/ Threw(c, "api", "reap") \/ Threw(c, "cancel", "reap")
    BY <1>0, <1>5, <2>1, <2>2, <2>3, GotoMoves, RaiseMoves, AgainMoves
    DEF VastAIAwaitReady, At
  <2>5. Interrupt \/ NoInterrupt
    BY <1>5 DEF VastAIAwaitReady
  <2>6. CallsTyped' /\ \A d \in Calls \ {c} : call'[d] = call[d]
    BY <2>4 DEF Went, Threw, Moved
  <2>7. TypeOK' /\ Others(c) /\ (ByAddress => OwnAddress(c))
    BY <1>0, <2>1, <2>4, <2>6, <2>5, InterruptTyped, QuietSteps, TypesOf
  <2>8. StageInv(c)' /\ MachineInv(c)'
    BY <1>0, <2>1, <2>4
    DEF StageInv, MachineInv, Went, Threw, Moved, CloudTyped, Gone, Billing, At, CleaningUp,
        Unraised, Raised, Unasked, DeleteStages, ByAddress, Interrupted
  <2>9. Promise(c)
    BY <1>0, <2>1, <2>4
    DEF Promise, Went, Threw, Moved, CloudTyped, NodeOf, Creating, CleaningUp, At,
        CreateStages, RemovalStages, Gone, Billing, StageInv, MachineInv,
        Unraised, Raised, Unasked, DeleteStages
  <2>10. Kept(c)
    BY <1>0, <2>1, <2>4
    DEF Kept, Went, Threw, Moved, StageInv, At, Unraised, Unasked, DeleteStages
  <2>11. Creating(c)' => Creating(c)
    BY <1>0, <2>1, <2>4
    DEF Went, Threw, Warned, Moved, At, Creating, CleaningUp, CreateStages,
        RemovalStages, StageInv, Raised
  <2>12. \A d \in Calls \ {c} : Creating(d)' = Creating(d)
    BY <2>4 DEF Went, Threw, Warned, Moved, Creating, CleaningUp
  <2>13. KeyInv'
    BY <1>0, <2>1, <2>4, <2>11, <2>12 DEF KeyInv, Went, Threw, Moved, At
  <2> QED BY <2>6, <2>7, <2>8, <2>9, <2>10, <2>13 DEF Step
<1>6. CASE VastAIReconcile(c)
  <2>1. At(c, "list") /\ UNCHANGED <<provider, vm, listed, part, addr, keys, lock>>
    BY <1>6 DEF VastAIReconcile, sharedVars, cloudVars
  <2>2. "reap" \in Stages /\ "list" \in Stages /\ "failed" \in Stages
    BY DEF Stages, Resting, CreateStages, RemovalStages, DeleteStages
  <2>3. Attempts(call[c].at) = ReconcileAttempts BY <2>1, AttemptsOf DEF At
  <2>4. \/ Went(c, "reap") \/ Went(c, "list")
        \/ Warned(c, "failed") \/ Threw(c, "cancel", "failed")
    BY <1>0, <1>6, <2>1, <2>2, <2>3, GotoMoves, TellMoves, AgainMoves, VastAIInterruptedMoves
    DEF VastAIReconcile, VastAINoMatch, At, Creating, CreateStages
  <2>5. Interrupt \/ NoInterrupt
    BY <1>6 DEF VastAIReconcile, VastAIInterrupted, VastAINoMatch
  <2>6. CallsTyped' /\ \A d \in Calls \ {c} : call'[d] = call[d]
    BY <2>4 DEF Went, Threw, Warned, Moved
  <2>7. TypeOK' /\ Others(c) /\ (ByAddress => OwnAddress(c))
    BY <1>0, <2>1, <2>4, <2>6, <2>5, InterruptTyped, QuietSteps, TypesOf
  <2>8. StageInv(c)' /\ MachineInv(c)'
    BY <1>0, <2>1, <2>4
    DEF StageInv, MachineInv, Went, Threw, Warned, Moved, CloudTyped, Gone, Billing, At,
        CleaningUp,
        Unraised, Raised, Unasked, DeleteStages, ByAddress, Interrupted, LeavesSilently
  <2>9. Promise(c)
    BY <1>0, <2>1, <2>4
    DEF Promise, Went, Threw, Warned, Moved, CloudTyped, NodeOf, Creating, CleaningUp, At,
        CreateStages, RemovalStages, Gone, Billing, StageInv, MachineInv,
        Unraised, Raised, Unasked, DeleteStages
  <2>10. Kept(c)
    BY <1>0, <2>1, <2>4
    DEF Kept, Went, Threw, Warned, Moved, StageInv, At, Unraised, Unasked, DeleteStages
  <2>11. Creating(c)' => Creating(c)
    BY <1>0, <2>1, <2>4
    DEF Went, Threw, Warned, Moved, At, Creating, CleaningUp, CreateStages,
        RemovalStages, StageInv, Raised
  <2>12. \A d \in Calls \ {c} : Creating(d)' = Creating(d)
    BY <2>4 DEF Went, Threw, Warned, Moved, Creating, CleaningUp
  <2>13. KeyInv'
    BY <1>0, <2>1, <2>4, <2>11, <2>12 DEF KeyInv, Went, Threw, Warned, Moved, At
  <2> QED BY <2>6, <2>7, <2>8, <2>9, <2>10, <2>13 DEF Step
<1>7. CASE VastAIRemove(c)
  <2>1. At(c, "reap") /\ UNCHANGED <<provider, listed, part, addr, keys, lock>>
    BY <1>7 DEF VastAIRemove, sharedVars, cloudVars
  <2>2. /\ "reap" \in Stages /\ "created" \in Stages /\ "deleted" \in Stages
        /\ "failed" \in Stages
    BY DEF Stages, Resting, CreateStages, RemovalStages, DeleteStages
  <2>3. Attempts(call[c].at) = DeleteAttempts BY <2>1, AttemptsOf DEF At
  <2>4. \A r \in RepliesAbout(c) :
           /\ VastAIOutcome(r, FALSE) = "gone" => Gone(c)
           /\ Deletion(c, r, TRUE) => DropOrNot(c, TRUE)
           /\ VastAIOutcome(r, FALSE) = "gone" /\ Deletion(c, r, TRUE)
                  => UNCHANGED vm /\ Gone(c)'
           /\ VastAIOutcome(r, FALSE) = "ok" /\ Deletion(c, r, TRUE) => Drop(c, TRUE) /\ Gone(c)'
    BY <1>0
    DEF VastAIOutcome, VastAITransient, RepliesAbout, Replies, Deletion, DropOrNot, DidIt,
        MayHaveDone, Gone, Billing, Drop, CloudTyped
  <2>5. /\ Removed(c) => Went(c, IF CleaningUp(c) THEN "failed" ELSE "deleted")
        /\ NotRemoved(c) =>
              \/ CleaningUp(c) /\ Warned(c, "failed")
              \/ ~CleaningUp(c) /\ Went(c, "created")
        /\ VastAIInterrupted(c) =>
              \/ CleaningUp(c) /\ Threw(c, "cancel", "failed")
              \/ ~CleaningUp(c) /\ Went(c, "created")
        /\ Again(c) /\ ~LastTry(c, DeleteAttempts) => Went(c, "reap")
    BY <1>0, <2>1, <2>2, <2>3, RemovedMoves, NotRemovedMoves, VastAIInterruptedMoves, AgainMoves
    DEF At, Creating, CreateStages, RemovalStages
  <2>6. \/ /\ Gone(c)' /\ (UNCHANGED vm \/ Drop(c, TRUE))
           /\ Went(c, IF CleaningUp(c) THEN "failed" ELSE "deleted")
        \/ /\ DropOrNot(c, TRUE)
           /\ \/ Went(c, "reap")
              \/ CleaningUp(c) /\ (Warned(c, "failed") \/ Threw(c, "cancel", "failed"))
              \/ ~CleaningUp(c) /\ Went(c, "created")
    BY <1>7, <2>4, <2>5
    DEF VastAIRemove
  <2>7. Interrupt \/ NoInterrupt
    BY <1>7 DEF VastAIRemove, VastAIInterrupted
  <2>8. CloudTyped'
    BY <1>0, <2>1, <2>6 DEF CloudTyped, Drop, DropOrNot
  <2>9. TypeOK'
    BY <1>0, <2>1, <2>6, <2>8, TypesOf, <2>7, InterruptTyped, TypesAfter
    DEF Went, Threw, Warned, Moved
  <2>10. Others(c) /\ (ByAddress => OwnAddress(c))
    BY <1>0, <2>1, <2>6
    DEF Others, OwnAddress, Went, Threw, Warned, Moved, CloudTyped, HoldsAddress, HasPart,
        Gone, Billing, ByAddress, StageInv, At, Drop, DropOrNot
  <2>11. StageInv(c)' /\ MachineInv(c)'
    BY <1>0, <2>1, <2>6
    DEF StageInv, MachineInv, Went, Threw, Warned, Moved, CloudTyped, Gone, Billing, At,
        CleaningUp,
        Unraised, Raised, Unasked, DeleteStages, ByAddress, Interrupted, Drop, DropOrNot,
        LeavesSilently
  <2>12. Promise(c)
    BY <1>0, <2>1, <2>6
    DEF Promise, Went, Threw, Warned, Moved, CloudTyped, NodeOf, Creating, CleaningUp, At,
        CreateStages, RemovalStages, Gone, Billing, StageInv, MachineInv,
        Unraised, Raised, Unasked, DeleteStages, Drop, DropOrNot
  <2>13. Kept(c)
    BY <1>0, <2>1, <2>6
    DEF Kept, Went, Threw, Warned, Moved, StageInv, At, Unraised, Unasked, DeleteStages
  <2>14. Creating(c)' => Creating(c)
    BY <1>0, <2>1, <2>6
    DEF Went, Threw, Warned, Moved, At, Creating, CleaningUp, CreateStages,
        RemovalStages, StageInv, Raised
  <2>15. \A d \in Calls \ {c} : Creating(d)' = Creating(d)
    BY <2>6 DEF Went, Threw, Warned, Moved, Creating, CleaningUp
  <2>16. KeyInv'
    BY <1>0, <2>1, <2>6, <2>14, <2>15 DEF KeyInv, Went, Threw, Warned, Moved, At
  <2> QED BY <2>9, <2>10, <2>11, <2>12, <2>13, <2>16 DEF Step
<1> QED
  BY <1>1, <1>2, <1>3, <1>4, <1>5, <1>6, <1>7 DEF VastAIStep

----------------------------------------------------------------------------
(* Vultr *)

\* Every step of a call on Vultr does what Step says.
LEMMA VultrSteps ==
    ASSUME ProvidersInv, NEW c \in Calls, provider = "vultr", VultrStep(c)
    PROVE  Step(c) /\ KeyInv'
<1>0. TypeOK /\ CallsTyped /\ CloudTyped /\ StageInv(c) /\ MachineInv(c) /\ AddressInv /\ KeyInv
  BY TypesOf DEF ProvidersInv
<1>1. CASE VultrLockKeys(c)
  <2>1. At(c, "lock") /\ UNCHANGED <<provider, vm, listed, part, addr, keys, cancels>>
    BY <1>1 DEF VultrLockKeys, sharedVars, cloudVars
  <2>2. "keys" \in Stages
    BY DEF Stages, Resting, CreateStages, RemovalStages, DeleteStages
  <2>3. lock = NoCall /\ lock' = c /\ Went(c, "keys")
    BY <1>0, <1>1, <2>1, <2>2, GotoMoves
    DEF VultrLockKeys
  <2>4. CallsTyped' /\ \A d \in Calls \ {c} : call'[d] = call[d]
    BY <2>3 DEF Went, Moved
  <2>5. TypeOK' /\ Others(c) /\ (ByAddress => OwnAddress(c))
    BY <1>0, <2>1, <2>3, <2>4, QuietSteps, TypesOf
  <2>6. StageInv(c)' /\ MachineInv(c)'
    BY <1>0, <2>1, <2>3
    DEF StageInv, MachineInv, Went, Moved, CloudTyped, Gone, Billing, At, CleaningUp,
        Unraised, Raised, Unasked, DeleteStages, ByAddress, Interrupted
  <2>7. Promise(c)
    BY <1>0, <2>1, <2>3
    DEF Promise, Went, Moved, CloudTyped, NodeOf, Creating, CleaningUp, At, CreateStages,
        RemovalStages, Gone, Billing, StageInv, MachineInv,
        Unraised, Raised, Unasked, DeleteStages
  <2>8. Kept(c)
    BY <1>0, <2>1, <2>3 DEF Kept, Went, Moved, StageInv, At, Unraised, Unasked, DeleteStages
  <2>9. KeyInv'
    BY <1>0, <2>1, <2>3, CallsAssumption DEF KeyInv, Went, Moved, At
  <2> QED BY <2>4, <2>5, <2>6, <2>7, <2>8, <2>9 DEF Step
<1>2. CASE VultrFindKey(c)
  <2>1. At(c, "keys") /\ UNCHANGED <<provider, vm, listed, part, addr, keys, cancels>>
    BY <1>2 DEF VultrFindKey, sharedVars, cloudVars
  <2>2. "post" \in Stages /\ "newkey" \in Stages /\ "failed" \in Stages
    BY DEF Stages, Resting, CreateStages, RemovalStages, DeleteStages
  <2>3. ~KeyKnown => keys = 0 BY <1>0 DEF TypeOK, KeyKnown
  <2>4. \/ lock' = NoCall /\ (Went(c, "post") \/ Threw(c, "api", "failed"))
        \/ lock' = lock /\ keys = 0 /\ Went(c, "newkey")
    BY <1>0, <1>2, <2>1, <2>2, <2>3, GotoMoves, RaiseMoves
    DEF VultrFindKey, VultrLeaveKeyLock
  <2>5. CallsTyped' /\ \A d \in Calls \ {c} : call'[d] = call[d]
    BY <2>4 DEF Went, Threw, Moved
  <2>6. TypeOK' /\ Others(c) /\ (ByAddress => OwnAddress(c))
    BY <1>0, <2>1, <2>4, <2>5, QuietSteps, TypesOf
  <2>7. StageInv(c)' /\ MachineInv(c)'
    BY <1>0, <2>1, <2>4
    DEF StageInv, MachineInv, Went, Threw, Moved, CloudTyped, Gone, Billing, At, CleaningUp,
        Unraised, Raised, Unasked, DeleteStages, ByAddress, Interrupted
  <2>8. Promise(c)
    BY <1>0, <2>1, <2>4
    DEF Promise, Went, Threw, Moved, CloudTyped, NodeOf, Creating, CleaningUp, At,
        CreateStages, RemovalStages, Gone, Billing, StageInv, MachineInv,
        Unraised, Raised, Unasked, DeleteStages
  <2>9. Kept(c)
    BY <1>0, <2>1, <2>4
    DEF Kept, Went, Threw, Moved, StageInv, At, Unraised, Unasked, DeleteStages
  <2>10. KeyInv'
    BY <1>0, <2>1, <2>4 DEF KeyInv, Went, Threw, Moved, At
  <2> QED BY <2>5, <2>6, <2>7, <2>8, <2>9, <2>10 DEF Step
<1>3. CASE VultrAddKey(c)
  <2>1. At(c, "newkey") /\ UNCHANGED <<provider, vm, listed, part, addr, cancels>>
    BY <1>3 DEF VultrAddKey, sharedVars, cloudVars
  <2>2. "post" \in Stages /\ "failed" \in Stages
    BY DEF Stages, Resting, CreateStages, RemovalStages, DeleteStages
  <2>3. /\ lock' = NoCall
        /\ UNCHANGED keys \/ keys' = keys + 1
        /\ Went(c, "post") \/ Threw(c, "api", "failed")
    BY <1>0, <1>3, <2>1, <2>2, GotoMoves, RaiseMoves
    DEF VultrAddKey, VultrLeaveKeyLock, KeyAdded, AddKey
  <2>4. CallsTyped' /\ \A d \in Calls \ {c} : call'[d] = call[d]
    BY <2>3 DEF Went, Threw, Moved
  <2>5. TypeOK' /\ Others(c) /\ (ByAddress => OwnAddress(c))
    BY <1>0, <2>1, <2>3, <2>4, QuietSteps, TypesOf
  <2>6. StageInv(c)' /\ MachineInv(c)'
    BY <1>0, <2>1, <2>3
    DEF StageInv, MachineInv, Went, Threw, Moved, CloudTyped, Gone, Billing, At, CleaningUp,
        Unraised, Raised, Unasked, DeleteStages, ByAddress, Interrupted
  <2>7. Promise(c)
    BY <1>0, <2>1, <2>3
    DEF Promise, Went, Threw, Moved, CloudTyped, NodeOf, Creating, CleaningUp, At,
        CreateStages, RemovalStages, Gone, Billing, StageInv, MachineInv,
        Unraised, Raised, Unasked, DeleteStages
  <2>8. Kept(c)
    BY <1>0, <2>1, <2>3
    DEF Kept, Went, Threw, Moved, StageInv, At, Unraised, Unasked, DeleteStages
  <2>9. KeyInv'
    BY <1>0, <2>1, <2>3 DEF KeyInv, Went, Threw, Moved, At
  <2> QED BY <2>4, <2>5, <2>6, <2>7, <2>8, <2>9 DEF Step
<1>4. CASE VultrKeyInterrupted(c)
  <2>1. /\ call[c].at \in {"lock", "keys", "newkey"}
        /\ UNCHANGED <<provider, vm, listed, part, addr>>
    BY <1>4 DEF VultrKeyInterrupted, sharedVars, cloudVars
  <2>2. "failed" \in Stages
    BY DEF Stages, Resting, CreateStages, RemovalStages, DeleteStages
  <2>3. /\ Threw(c, "cancel", "failed")
        /\ \/ At(c, "lock") /\ UNCHANGED <<keys, lock>>
           \/ At(c, "keys") /\ lock' = NoCall /\ UNCHANGED keys
           \/ At(c, "newkey") /\ lock' = NoCall /\ (UNCHANGED keys \/ keys' = keys + 1)
    BY <1>0, <1>4, <2>1, <2>2, RaiseMoves
    DEF VultrKeyInterrupted, VultrLeaveKeyLock, AddKey, At
  <2>4. Interrupt \/ NoInterrupt
    BY <1>4 DEF VultrKeyInterrupted
  <2>5. CallsTyped' /\ \A d \in Calls \ {c} : call'[d] = call[d]
    BY <2>3 DEF Threw, Moved
  <2>6. TypeOK' /\ Others(c) /\ (ByAddress => OwnAddress(c))
    BY <1>0, <2>1, <2>3, <2>5, <2>4, InterruptTyped, QuietSteps, TypesOf
  <2>7. StageInv(c)' /\ MachineInv(c)'
    BY <1>0, <2>1, <2>3
    DEF StageInv, MachineInv, Threw, Moved, CloudTyped, Gone, Billing, At, CleaningUp,
        Unraised, Raised, Unasked, DeleteStages, ByAddress, Interrupted
  <2>8. Promise(c)
    BY <1>0, <2>1, <2>3
    DEF Promise, Threw, Moved, CloudTyped, NodeOf, Creating, CleaningUp, At, CreateStages,
        RemovalStages, Gone, Billing, StageInv, MachineInv,
        Unraised, Raised, Unasked, DeleteStages
  <2>9. Kept(c)
    BY <1>0, <2>1, <2>3 DEF Kept, Threw, Moved, StageInv, At, Unraised, Unasked, DeleteStages
  <2>10. KeyInv'
    BY <1>0, <2>1, <2>3 DEF KeyInv, Threw, Moved, At
  <2> QED BY <2>5, <2>6, <2>7, <2>8, <2>9, <2>10 DEF Step
<1>5. CASE VultrPost(c)
  <2>1. At(c, "post") /\ UNCHANGED <<provider, part, addr, keys, lock>>
    BY <1>5 DEF VultrPost, sharedVars, cloudVars
  <2>2. "ready" \in Stages /\ "list" \in Stages
    BY DEF Stages, Resting, CreateStages, RemovalStages, DeleteStages
  <2>3. \/ Accept(c) /\ Went(c, "ready")
        \/ /\ Accept(c) \/ UNCHANGED <<vm, listed>>
           /\ Threw(c, "api", "list") \/ Threw(c, "cancel", "list")
    BY <1>0, <1>5, <2>1, <2>2, GotoMoves, RaiseMoves, VultrOutcomes
    DEF VultrPost, Requested, AcceptOrRefuse
  <2>4. Interrupt \/ NoInterrupt
    BY <1>5 DEF VultrPost
  <2>5. CloudTyped'
    BY <1>0, <2>1, <2>3 DEF CloudTyped, Accept
  <2>6. TypeOK'
    BY <1>0, <2>1, <2>3, <2>5, TypesOf, <2>4, InterruptTyped, TypesAfter DEF Went, Threw, Moved
  <2>7. Others(c) /\ (ByAddress => OwnAddress(c))
    BY <1>0, <2>1, <2>3
    DEF Others, OwnAddress, Went, Threw, Moved, CloudTyped, HoldsAddress, HasPart, Gone,
        Billing, ByAddress, StageInv, At, Accept
  <2>8. StageInv(c)' /\ MachineInv(c)'
    BY <1>0, <2>1, <2>3
    DEF StageInv, MachineInv, Went, Threw, Moved, CloudTyped, Gone, Billing, At, CleaningUp,
        Unraised, Raised, Unasked, DeleteStages, ByAddress, Interrupted, Accept
  <2>9. Promise(c)
    BY <1>0, <2>1, <2>3
    DEF Promise, Went, Threw, Moved, CloudTyped, NodeOf, Creating, CleaningUp, At,
        CreateStages, RemovalStages, Gone, Billing, StageInv, MachineInv,
        Unraised, Raised, Unasked, DeleteStages, Accept
  <2>10. Kept(c)
    BY <1>0, <2>1, <2>3
    DEF Kept, Went, Threw, Moved, StageInv, At, Unraised, Unasked, DeleteStages
  <2>11. KeyInv'
    BY <1>0, <2>1, <2>3 DEF KeyInv, Went, Threw, Moved, At
  <2> QED BY <2>6, <2>7, <2>8, <2>9, <2>10, <2>11 DEF Step
<1>6. CASE VultrAwaitActive(c)
  <2>1. At(c, "ready") /\ UNCHANGED <<provider, vm, listed, part, addr, keys, lock>>
    BY <1>6 DEF VultrAwaitActive, sharedVars, cloudVars
  <2>2. "created" \in Stages /\ "ready" \in Stages /\ "reap" \in Stages
    BY DEF Stages, Resting, CreateStages, RemovalStages, DeleteStages
  <2>3. Attempts(call[c].at) = Polls BY <2>1, AttemptsOf DEF At
  <2>4. \A r \in RepliesAbout(c) : VultrOutcome(r, TRUE) = "ok" => ~Gone(c)
    BY DEF VultrOutcome, VultrTransient, RepliesAbout, Replies
  <2>5. /\ Goto(c, "created") => Went(c, "created")
        /\ Again(c) /\ ~LastTry(c, Polls) => Went(c, "ready")
        /\ Raise(c, "api", "reap", FALSE) => Threw(c, "api", "reap")
        /\ Raise(c, "cancel", "reap", FALSE) => Threw(c, "cancel", "reap")
    BY <1>0, <2>1, <2>2, <2>3, GotoMoves, RaiseMoves, AgainMoves DEF At
  <2>6. \/ ~Gone(c) /\ Went(c, "created")
        \/ Went(c, "ready")
        \/ Threw(c, "api", "reap") \/ Threw(c, "cancel", "reap")
    BY <1>6, <2>4, <2>5
    DEF VultrAwaitActive
  <2>7. Interrupt \/ NoInterrupt
    BY <1>6 DEF VultrAwaitActive
  <2>8. CallsTyped' /\ \A d \in Calls \ {c} : call'[d] = call[d]
    BY <2>6 DEF Went, Threw, Moved
  <2>9. TypeOK' /\ Others(c) /\ (ByAddress => OwnAddress(c))
    BY <1>0, <2>1, <2>6, <2>8, <2>7, InterruptTyped, QuietSteps, TypesOf
  <2>10. StageInv(c)' /\ MachineInv(c)'
    BY <1>0, <2>1, <2>6
    DEF StageInv, MachineInv, Went, Threw, Moved, CloudTyped, Gone, Billing, At, CleaningUp,
        Unraised, Raised, Unasked, DeleteStages, ByAddress, Interrupted
  <2>11. Promise(c)
    BY <1>0, <2>1, <2>6
    DEF Promise, Went, Threw, Moved, CloudTyped, NodeOf, Creating, CleaningUp, At,
        CreateStages, RemovalStages, Gone, Billing, StageInv, MachineInv,
        Unraised, Raised, Unasked, DeleteStages
  <2>12. Kept(c)
    BY <1>0, <2>1, <2>6
    DEF Kept, Went, Threw, Moved, StageInv, At, Unraised, Unasked, DeleteStages
  <2>13. KeyInv'
    BY <1>0, <2>1, <2>6 DEF KeyInv, Went, Threw, Moved, At
  <2> QED BY <2>8, <2>9, <2>10, <2>11, <2>12, <2>13 DEF Step
<1>7. CASE VultrReconcile(c)
  <2>1. At(c, "list") /\ UNCHANGED <<provider, vm, listed, part, addr, keys, lock>>
    BY <1>7 DEF VultrReconcile, sharedVars, cloudVars
  <2>2. "reap" \in Stages /\ "list" \in Stages /\ "failed" \in Stages
    BY DEF Stages, Resting, CreateStages, RemovalStages, DeleteStages
  <2>3. Attempts(call[c].at) = ReconcileAttempts BY <2>1, AttemptsOf DEF At
  <2>4. \/ Went(c, "reap") \/ Went(c, "list") \/ Warned(c, "failed")
    BY <1>0, <1>7, <2>1, <2>2, <2>3, GotoMoves, TellMoves, AgainMoves
    DEF VultrReconcile, VultrNoMatch, VultrCleanUpCut, At
  <2>5. Interrupt \/ NoInterrupt
    BY <1>7 DEF VultrReconcile, VultrNoMatch, VultrCleanUpCut
  <2>6. CallsTyped' /\ \A d \in Calls \ {c} : call'[d] = call[d]
    BY <2>4 DEF Went, Warned, Moved
  <2>7. TypeOK' /\ Others(c) /\ (ByAddress => OwnAddress(c))
    BY <1>0, <2>1, <2>4, <2>6, <2>5, InterruptTyped, QuietSteps, TypesOf
  <2>8. StageInv(c)' /\ MachineInv(c)'
    BY <1>0, <2>1, <2>4
    DEF StageInv, MachineInv, Went, Warned, Moved, CloudTyped, Gone, Billing, At, CleaningUp,
        Unraised, Raised, Unasked, DeleteStages, ByAddress, Interrupted
  <2>9. Promise(c)
    BY <1>0, <2>1, <2>4
    DEF Promise, Went, Warned, Moved, CloudTyped, NodeOf, Creating, CleaningUp, At,
        CreateStages, RemovalStages, Gone, Billing, StageInv, MachineInv,
        Unraised, Raised, Unasked, DeleteStages
  <2>10. Kept(c)
    BY <1>0, <2>1, <2>4
    DEF Kept, Went, Warned, Moved, StageInv, At, Unraised, Unasked, DeleteStages
  <2>11. KeyInv'
    BY <1>0, <2>1, <2>4 DEF KeyInv, Went, Warned, Moved, At
  <2> QED BY <2>6, <2>7, <2>8, <2>9, <2>10, <2>11 DEF Step
<1>8. CASE VultrRemove(c)
  <2>1. At(c, "reap") /\ UNCHANGED <<provider, listed, part, addr, keys, lock>>
    BY <1>8 DEF VultrRemove, sharedVars, cloudVars
  <2>2. /\ "verify" \in Stages /\ "reap" \in Stages /\ "created" \in Stages
        /\ "deleted" \in Stages /\ "failed" \in Stages
    BY DEF Stages, Resting, CreateStages, RemovalStages, DeleteStages
  <2>3. Attempts(call[c].at) = DeleteAttempts BY <2>1, AttemptsOf DEF At
  <2>4. \A r \in RepliesAbout(c) :
           /\ VultrOutcome(r, FALSE) = "gone" => Gone(c)
           /\ Deletion(c, r, FALSE) => DropOrNot(c, FALSE)
           /\ VultrOutcome(r, FALSE) = "gone" /\ Deletion(c, r, FALSE)
                  => UNCHANGED vm /\ Gone(c)'
    BY <1>0
    DEF VultrOutcome, VultrTransient, RepliesAbout, Replies, Deletion, DropOrNot, DidIt,
        MayHaveDone, Gone, Billing, Drop, CloudTyped
  <2>5. /\ Removed(c) => Went(c, IF CleaningUp(c) THEN "failed" ELSE "deleted")
        /\ NotRemoved(c) =>
              \/ CleaningUp(c) /\ Warned(c, "failed")
              \/ ~CleaningUp(c) /\ Went(c, "created")
        /\ Again(c) /\ ~LastTry(c, DeleteAttempts) => Went(c, "reap")
        /\ Goto(c, "verify") => Went(c, "verify")
    BY <1>0, <2>1, <2>2, <2>3, RemovedMoves, NotRemovedMoves, AgainMoves, GotoMoves
    DEF At
  <2>6. \/ /\ Gone(c)' /\ (UNCHANGED vm)
           /\ Went(c, IF CleaningUp(c) THEN "failed" ELSE "deleted")
        \/ /\ DropOrNot(c, FALSE)
           /\ \/ Went(c, "verify") \/ Went(c, "reap")
              \/ CleaningUp(c) /\ (Warned(c, "failed"))
              \/ ~CleaningUp(c) /\ Went(c, "created")
    BY <1>8, <2>4, <2>5
    DEF VultrRemove
  <2>7. Interrupt \/ NoInterrupt
    BY <1>8 DEF VultrRemove
  <2>8. CloudTyped'
    BY <1>0, <2>1, <2>6 DEF CloudTyped, Drop, DropOrNot
  <2>9. TypeOK'
    BY <1>0, <2>1, <2>6, <2>8, TypesOf, <2>7, InterruptTyped, TypesAfter DEF Went, Warned, Moved
  <2>10. Others(c) /\ (ByAddress => OwnAddress(c))
    BY <1>0, <2>1, <2>6
    DEF Others, OwnAddress, Went, Warned, Moved, CloudTyped, HoldsAddress, HasPart, Gone,
        Billing, ByAddress, StageInv, At, Drop, DropOrNot
  <2>11. StageInv(c)' /\ MachineInv(c)'
    BY <1>0, <2>1, <2>6
    DEF StageInv, MachineInv, Went, Warned, Moved, CloudTyped, Gone, Billing, At, CleaningUp,
        Unraised, Raised, Unasked, DeleteStages, ByAddress, Interrupted, Drop, DropOrNot
  <2>12. Promise(c)
    BY <1>0, <2>1, <2>6
    DEF Promise, Went, Warned, Moved, CloudTyped, NodeOf, Creating, CleaningUp, At,
        CreateStages, RemovalStages, Gone, Billing, StageInv, MachineInv,
        Unraised, Raised, Unasked, DeleteStages, Drop, DropOrNot
  <2>13. Kept(c)
    BY <1>0, <2>1, <2>6
    DEF Kept, Went, Warned, Moved, StageInv, At, Unraised, Unasked, DeleteStages
  <2>14. KeyInv'
    BY <1>0, <2>1, <2>6 DEF KeyInv, Went, Warned, Moved, At
  <2> QED BY <2>9, <2>10, <2>11, <2>12, <2>13, <2>14 DEF Step
<1>9. CASE VultrVerify(c)
  <2>1. At(c, "verify") /\ UNCHANGED <<provider, vm, listed, part, addr, keys, lock>>
    BY <1>9 DEF VultrVerify, sharedVars, cloudVars
  <2>2. /\ "verify" \in Stages /\ "created" \in Stages /\ "deleted" \in Stages
        /\ "failed" \in Stages
    BY DEF Stages, Resting, CreateStages, RemovalStages, DeleteStages
  <2>3. Attempts(call[c].at) = Polls BY <2>1, AttemptsOf DEF At
  <2>4. \A r \in RepliesAbout(c) :
           /\ VultrOutcome(r, TRUE) = "gone" => Gone(c)
    BY DEF VultrOutcome, VultrTransient, RepliesAbout, Replies
  <2>5. /\ Removed(c) => Went(c, IF CleaningUp(c) THEN "failed" ELSE "deleted")
        /\ NotRemoved(c) =>
              \/ CleaningUp(c) /\ Warned(c, "failed")
              \/ ~CleaningUp(c) /\ Went(c, "created")
        /\ Again(c) /\ ~LastTry(c, Polls) => Went(c, "verify")
    BY <1>0, <2>1, <2>2, <2>3, RemovedMoves, NotRemovedMoves, AgainMoves
    DEF At
  <2>6. \/ Gone(c) /\ Went(c, IF CleaningUp(c) THEN "failed" ELSE "deleted")
        \/ Went(c, "verify")
        \/ CleaningUp(c) /\ Warned(c, "failed")
        \/ ~CleaningUp(c) /\ Went(c, "created")
    BY <1>9, <2>4, <2>5
    DEF VultrVerify, VultrStillThere
  <2>7. Interrupt \/ NoInterrupt
    BY <1>9 DEF VultrVerify, VultrStillThere
  <2>8. CallsTyped' /\ \A d \in Calls \ {c} : call'[d] = call[d]
    BY <2>6 DEF Went, Warned, Moved
  <2>9. TypeOK' /\ Others(c) /\ (ByAddress => OwnAddress(c))
    BY <1>0, <2>1, <2>6, <2>8, <2>7, InterruptTyped, QuietSteps, TypesOf
  <2>10. StageInv(c)' /\ MachineInv(c)'
    BY <1>0, <2>1, <2>6
    DEF StageInv, MachineInv, Went, Warned, Moved, CloudTyped, Gone, Billing, At, CleaningUp,
        Unraised, Raised, Unasked, DeleteStages, ByAddress, Interrupted
  <2>11. Promise(c)
    BY <1>0, <2>1, <2>6
    DEF Promise, Went, Warned, Moved, CloudTyped, NodeOf, Creating, CleaningUp, At,
        CreateStages, RemovalStages, Gone, Billing, StageInv, MachineInv,
        Unraised, Raised, Unasked, DeleteStages
  <2>12. Kept(c)
    BY <1>0, <2>1, <2>6
    DEF Kept, Went, Warned, Moved, StageInv, At, Unraised, Unasked, DeleteStages
  <2>13. KeyInv'
    BY <1>0, <2>1, <2>6 DEF KeyInv, Went, Warned, Moved, At
  <2> QED BY <2>8, <2>9, <2>10, <2>11, <2>12, <2>13 DEF Step
<1> QED
  BY <1>1, <1>2, <1>3, <1>4, <1>5, <1>6, <1>7, <1>8, <1>9 DEF VultrStep

----------------------------------------------------------------------------
(* The allocator and the cloud *)

\* VastAI: a create that begins is the only one.
LEMMA BeginCreateSteps ==
    ASSUME ProvidersInv, NEW c \in Calls, BeginCreate(c)
    PROVE  Step(c) /\ KeyInv'
<1>0. TypeOK /\ CallsTyped /\ CloudTyped /\ StageInv(c) /\ MachineInv(c) /\ KeyInv
  BY TypesOf DEF ProvidersInv
<1>1. /\ At(c, "idle")
      /\ UNCHANGED <<provider, vm, listed, part, addr, keys, lock, cancels>>
  BY DEF BeginCreate, sharedVars, cloudVars
<1>2. /\ FirstStage \in {"lock", "keys", "nic", "post"} \cap Stages
      /\ FirstStage = "keys" => provider # "vultr"
      /\ FirstStage # "tag"
  BY DEF FirstStage, Stages, CreateStages
<1>3. Went(c, FirstStage)
  BY <1>0, <1>2, GotoMoves DEF BeginCreate
<1>4. TypeOK'
  BY <1>0, <1>1, <1>3, TypesOf, TypesAfter DEF Went, Moved, CloudTyped
<1>5. Others(c) /\ (ByAddress => OwnAddress(c))
  BY <1>0, <1>1, <1>3
  DEF Others, OwnAddress, Went, Moved, HoldsAddress, HasPart, Gone, Billing
<1>6. StageInv(c)' /\ MachineInv(c)'
  BY <1>0, <1>1, <1>2, <1>3
  DEF StageInv, MachineInv, Went, Moved, Gone, Billing, At, CleaningUp, Unraised, Raised,
      Unasked, DeleteStages, ByAddress
<1>7. Promise(c)
  BY <1>0, <1>1, <1>2, <1>3
  DEF Promise, Went, Moved, NodeOf, Creating, At, CreateStages, Billing
<1>8. Kept(c)
  BY <1>0, <1>1 DEF Kept, StageInv, At, Unraised, Unasked
<1>9. KeyInv'
  <2>1. CASE provider = "vastai"
    <3>1. Cardinality({d \in Calls : Creating(d)}) < 1
      BY <2>1 DEF BeginCreate, OpLimit
    <3>2. IsFiniteSet({d \in Calls : Creating(d)})
      BY CallsAssumption, FS_Subset
    <3>3. {d \in Calls : Creating(d)} = {}
      BY <3>1, <3>2, FS_CardinalityType, FS_EmptySet
    <3>4. \A d \in Calls \ {c} : ~Creating(d)'
      BY <1>3, <3>3 DEF Went, Moved, Creating, CleaningUp
    <3>5. \A d \in Calls : ~At(d, "newkey")'
      BY <1>2, <1>3, <3>3, <3>4 DEF Went, Moved, At, Creating, CreateStages
    <3> QED BY <1>0, <1>1, <2>1, <3>4, <3>5 DEF KeyInv
  <2>2. CASE provider # "vastai"
    BY <1>0, <1>1, <1>2, <1>3, <2>2 DEF KeyInv, Went, Moved, At
  <2> QED BY <2>1, <2>2
<1> QED BY <1>4, <1>5, <1>6, <1>7, <1>8, <1>9 DEF Step

\* A delete_node that begins has no exception to clean up after.
LEMMA BeginDeleteSteps ==
    ASSUME ProvidersInv, NEW c \in Calls, BeginDelete(c)
    PROVE  Step(c) /\ KeyInv'
<1>0. TypeOK /\ CallsTyped /\ CloudTyped /\ StageInv(c) /\ MachineInv(c) /\ KeyInv
  BY TypesOf DEF ProvidersInv
<1>1. /\ At(c, "created")
      /\ UNCHANGED <<provider, vm, listed, part, addr, keys, lock, cancels>>
  BY DEF BeginDelete, sharedVars, cloudVars
<1>2. "find" \in Stages /\ "reap" \in Stages
  BY DEF Stages, DeleteStages, RemovalStages
<1>3. Went(c, "find") \/ Went(c, "reap")
  BY <1>0, <1>2, GotoMoves DEF BeginDelete
<1>4. TypeOK'
  BY <1>0, <1>1, <1>3, TypesOf, TypesAfter DEF Went, Moved, CloudTyped
<1>5. Others(c) /\ (ByAddress => OwnAddress(c))
  BY <1>0, <1>1, <1>3
  DEF Others, OwnAddress, Went, Moved, HoldsAddress, HasPart, Gone, Billing
<1>6. StageInv(c)' /\ MachineInv(c)'
  BY <1>0, <1>1, <1>3
  DEF StageInv, MachineInv, Went, Moved, Gone, Billing, At, CleaningUp, Unraised, Raised,
      Unasked, DeleteStages, ByAddress
<1>7. Promise(c)
  BY <1>0, <1>1, <1>3
  DEF Promise, Went, Moved, NodeOf, Creating, CleaningUp, At, CreateStages, RemovalStages,
      Billing, StageInv, Unraised
<1>8. Kept(c)
  BY <1>0, <1>1 DEF Kept, StageInv, At, Unraised, Unasked
<1>9. KeyInv'
  <2>1. ~Creating(c)' /\ \A d \in Calls \ {c} : Creating(d)' = Creating(d)
    BY <1>0, <1>1, <1>3
    DEF Went, Moved, Creating, CleaningUp, At, CreateStages, RemovalStages, StageInv, Unraised
  <2> QED BY <1>0, <1>1, <1>3, <2>1 DEF KeyInv, Went, Moved, At
<1> QED BY <1>4, <1>5, <1>6, <1>7, <1>8, <1>9 DEF Step

\* What the cloud does of its own only lets a machine go or shows it.
LEMMA CloudSteps ==
    ASSUME ProvidersInv, NEW c \in Calls, Cloud(c)
    PROVE  Step(c) /\ KeyInv'
<1>0. TypeOK /\ CallsTyped /\ CloudTyped /\ StageInv(c) /\ MachineInv(c) /\ KeyInv
  BY TypesOf DEF ProvidersInv
<1>1. /\ UNCHANGED <<provider, call, part, addr, keys, lock, cancels>>
      /\ \/ UNCHANGED vm /\ listed' = [listed EXCEPT ![c] = TRUE]
         \/ UNCHANGED listed /\ vm' = [vm EXCEPT ![c] = "gone"]
  BY DEF Cloud, Appear, Settle, VastAIWithdraw, Drop, sharedVars
<1>2. CallsTyped'
  BY <1>0, <1>1 DEF CallsTyped
<1>3. CloudTyped'
  BY <1>0, <1>1 DEF CloudTyped
<1>4. TypeOK'
  BY <1>0, <1>1, <1>2, <1>3, TypesOf, TypesAfter
<1>5. Others(c) /\ (ByAddress => OwnAddress(c))
  BY <1>0, <1>1 DEF Others, OwnAddress, HoldsAddress, HasPart, Gone, Billing, CloudTyped
<1>6. StageInv(c)' /\ MachineInv(c)'
  BY <1>0, <1>1
  DEF StageInv, MachineInv, Gone, Billing, At, CleaningUp, ByAddress, Interrupted, CloudTyped
<1>7. Promise(c)
  <2>1. NodeOf(c)' = NodeOf(c)
    BY <1>1 DEF NodeOf, Creating, CleaningUp, At
  <2>2. (Billing(c)' => Billing(c)) /\ \A d \in Calls \ {c} : Billing(d)' = Billing(d)
    BY <1>0, <1>1 DEF Billing, CloudTyped
  <2> QED BY <1>1, <2>1, <2>2 DEF Promise
<1>8. Kept(c)
  BY <1>1 DEF Kept
<1>9. KeyInv'
  BY <1>0, <1>1 DEF KeyInv, At, Creating, CleaningUp
<1> QED BY <1>4, <1>5, <1>6, <1>7, <1>8, <1>9 DEF Step

----------------------------------------------------------------------------
(* The invariant *)

\* Whatever the step, it is the step of some call.
LEMMA NextSteps ==
    ASSUME ProvidersInv, Next
    PROVE  \E c \in Calls : Step(c) /\ KeyInv'
<1>1. PICK c \in Calls : BeginCreate(c) \/ BeginDelete(c) \/ ProviderStep(c) \/ Cloud(c)
  BY DEF Next
<1>2. CASE BeginCreate(c) BY <1>2, BeginCreateSteps
<1>3. CASE BeginDelete(c) BY <1>3, BeginDeleteSteps
<1>4. CASE Cloud(c) BY <1>4, CloudSteps
<1>5. CASE ProviderStep(c)
  BY <1>5, AzSteps, HetznerSteps, UpSteps, VastAISteps, VultrSteps DEF ProviderStep
<1> QED BY <1>1, <1>2, <1>3, <1>4, <1>5

\* The other calls keep their part of the invariant, and addresses stay apart: a
\* new one was free.
LEMMA StepKeeps ==
    ASSUME ProvidersInv, NEW c \in Calls, Step(c), KeyInv'
    PROVE  ProvidersInv'
<1>1. TypeOK'
  BY DEF Step
<1>2. ASSUME NEW d \in Calls PROVE StageInv(d)' /\ MachineInv(d)'
  <2>1. CASE d = c BY <2>1 DEF Step
  <2>2. CASE d # c
    <3>1. /\ call'[d] = call[d] /\ provider' = provider
          /\ Gone(d) => Gone(d)'
          /\ provider = "az" /\ part[d] = "bare" => part'[d] = "bare"
      BY <2>2 DEF Step, Others
    <3>2. StageInv(d) /\ MachineInv(d)
      BY DEF ProvidersInv
    <3>3. StageInv(d)'
      BY <3>1, <3>2 DEF StageInv, At, CleaningUp
    <3>4. MachineInv(d)'
      BY <3>1, <3>2 DEF MachineInv, At, ByAddress, Interrupted, Gone
    <3> QED BY <3>3, <3>4
  <2> QED BY <2>1, <2>2
<1>3. AddressInv'
  <2>1. SUFFICES ASSUME ByAddress, NEW d \in Calls, NEW e \in Calls, d # e,
                        HoldsAddress(d)', HoldsAddress(e)'
                 PROVE  addr'[d] # addr'[e]
    BY DEF AddressInv, ByAddress, Step, Others
  <2>2. AddressInv /\ Others(c) /\ OwnAddress(c)
    BY <2>1 DEF ProvidersInv, Step
  <2>3. \A x \in Calls : HoldsAddress(x) => addr[x] \notin FreeAddresses
    BY DEF FreeAddresses
  <2>4. CASE d = c
    <3>1. HoldsAddress(e) /\ addr'[e] = addr[e]
      BY <2>1, <2>2, <2>4 DEF Others
    <3>2. HoldsAddress(c) /\ addr'[c] = addr[c] => addr'[d] # addr'[e]
      BY <2>1, <2>2, <2>4, <3>1 DEF AddressInv
    <3> QED BY <2>1, <2>2, <2>3, <2>4, <3>1, <3>2 DEF OwnAddress
  <2>5. CASE e = c
    <3>1. HoldsAddress(d) /\ addr'[d] = addr[d]
      BY <2>1, <2>2, <2>5 DEF Others
    <3>2. HoldsAddress(c) /\ addr'[c] = addr[c] => addr'[d] # addr'[e]
      BY <2>1, <2>2, <2>5, <3>1 DEF AddressInv
    <3> QED BY <2>1, <2>2, <2>3, <2>5, <3>1, <3>2 DEF OwnAddress
  <2>6. CASE d # c /\ e # c
    BY <2>1, <2>2, <2>6 DEF Others, AddressInv
  <2> QED BY <2>4, <2>5, <2>6
<1> QED BY <1>1, <1>2, <1>3 DEF ProvidersInv

\* The invariant holds when nothing was asked for.
LEMMA InitHolds == ProviderInit => ProvidersInv
<1> SUFFICES ASSUME ProviderInit PROVE ProvidersInv OBVIOUS
<1>1. TypeOK
  <2>1. IdleCall \in CallType /\ IdleCall.tries < Attempts(IdleCall.at)
    <3>1. 0 < Attempts("idle") /\ 0 \in 0 .. ReconcileAttempts - 1
      BY AttemptsArePositive, AttemptsAssumption
    <3> QED BY <3>1 DEF IdleCall, CallType, Stages, Resting
  <2>2. CallsTyped
    BY <2>1 DEF ProviderInit, CallsTyped
  <2>3. CloudTyped
    BY DEF ProviderInit, CloudTyped
  <2> QED BY <2>2, <2>3, TypesOf DEF ProviderInit
<1>2. \A c \in Calls : StageInv(c) /\ MachineInv(c)
  BY DEF ProviderInit, IdleCall, StageInv, MachineInv, At, CleaningUp, Gone, Billing, Raised
<1>3. AddressInv
  BY DEF ProviderInit, AddressInv, HoldsAddress, HasPart, Billing
<1>4. KeyInv
  BY DEF ProviderInit, IdleCall, KeyInv, At, Creating, CreateStages, RemovalStages
<1> QED BY <1>1, <1>2, <1>3, <1>4 DEF ProvidersInv

\* The invariant is about the variables only.
LEMMA StutterKeeps ==
    ASSUME ProvidersInv, UNCHANGED vars
    PROVE  ProvidersInv'
<1>1. TypeOK' BY DEF ProvidersInv, TypeOK, vars
<1>2. \A c \in Calls : StageInv(c)' /\ MachineInv(c)'
  BY DEF ProvidersInv, vars, StageInv, MachineInv, At, CleaningUp, Gone, Billing, ByAddress,
         Interrupted
<1>3. AddressInv'
  BY DEF ProvidersInv, vars, AddressInv, ByAddress, HoldsAddress, HasPart, Billing
<1>4. KeyInv'
  BY DEF ProvidersInv, vars, KeyInv, At, Creating, CleaningUp
<1> QED BY <1>1, <1>2, <1>3, <1>4 DEF ProvidersInv

\* What is known of every call in every reachable state, on which the theorems
\* below rest.
THEOREM ProvidersInvariant == Spec => []ProvidersInv
<1>1. ProvidersInv /\ [Next]_vars => ProvidersInv'
  BY NextSteps, StepKeeps, StutterKeeps
<1> QED BY InitHolds, <1>1, PTL DEF Spec

\* The state has its shape, and no loop of a call makes more attempts than the
\* constants of its provider allow.
THEOREM ProvidersTypeOK == Spec => []TypeOK
<1>1. ProvidersInv => TypeOK BY DEF ProvidersInv
<1> QED BY <1>1, ProvidersInvariant, PTL

\* Whatever the cloud answers and whenever a call is interrupted, a machine
\* that bills after its create_node raised is one a log has named, or one of an
\* interrupted call on a provider that leaves its clean-up then.
THEOREM OrphansAreTold == Spec => []NoSilentOrphan
<1>1. ProvidersInv => NoSilentOrphan BY DEF ProvidersInv, MachineInv, NoSilentOrphan
<1> QED BY <1>1, ProvidersInvariant, PTL

\* However many creates look for the scheduler's key at a time, it is uploaded
\* once.
THEOREM OneKey == Spec => []KeyUploadedOnce
<1>1. ProvidersInv => KeyUploadedOnce BY DEF ProvidersInv, KeyInv, KeyUploadedOnce
<1> QED BY <1>1, ProvidersInvariant, PTL

\* A delete_node that removes another call's machine is one whose own has gone.
THEOREM OwnMachineFirst == Spec => []ForeignOnlyAfterOwn
<1>1. ProvidersInv => ForeignOnlyAfterOwn
  BY DEF ProvidersInv, MachineInv, ForeignOnlyAfterOwn
<1> QED BY <1>1, ProvidersInvariant, PTL

\* On Azure and Vultr no step of a clean-up replaces the exception it follows.
THEOREM ErrorsPropagate == Spec => OriginalErrorPropagates
<1>1. ASSUME ProvidersInv, [Next]_vars
      PROVE  [\A c \in Calls : provider \in {"az", "vultr"} /\ CleaningUp(c)
                                   => call'[c].raised = call[c].raised]_vars
  <2>1. CASE UNCHANGED vars BY <2>1
  <2>2. CASE Next
    <3>1. PICK c \in Calls : Step(c) BY <1>1, <2>2, NextSteps
    <3>2. \A d \in Calls : provider \in {"az", "vultr"} /\ CleaningUp(d)
                               => call'[d].raised = call[d].raised
      BY <3>1 DEF Step, Others, Kept
    <3> QED BY <3>2
  <2> QED BY <1>1, <2>1, <2>2
<1> QED BY <1>1, ProvidersInvariant, PTL DEF Spec, OriginalErrorPropagates

----------------------------------------------------------------------------
(* The refinement of MachineContract *)

\* A step of a call is a step of the contract, or none.
LEMMA StepContracts ==
    ASSUME ProvidersInv, ProvidersInv', NEW c \in Calls, Step(c)
    PROVE  Contract!Next \/ UNCHANGED Contract!vars
<1>1. \A d \in Calls \ {c} : /\ NodeOf(d)' = NodeOf(d) /\ call'[d].told = call[d].told
                             /\ Interrupted(d)' = Interrupted(d)
  BY DEF Step, Others, NodeOf, Creating, CleaningUp, At, Interrupted
<1>2. call'[c].raised = call[c].raised => Interrupted(c)' = Interrupted(c)
  BY DEF Step, Others, Interrupted
<1>3. CASE /\ NodeOf(c) = "none"
           /\ call[c].told => call'[c].told
           /\ \/ NodeOf(c)' = "none"
              \/ NodeOf(c)' = "owned" /\ Billing(c)'
              \/ NodeOf(c)' = "failed"
           /\ \A d \in Calls \ {c} : Billing(d)' = Billing(d)
  <2>1. NodeOf(c)' = "failed" => At(c, "failed")'
    BY DEF NodeOf
  <2>2. NodeOf(c)' = "failed" /\ Billing(c)' => call'[c].told \/ Interrupted(c)'
    BY <2>1 DEF ProvidersInv, MachineInv
  <2>3. Contract!Create(c)
    BY <1>1, <1>3, <2>2 DEF Contract!Create, Contract!Others
  <2> QED BY <2>3 DEF Contract!Next
<1>4. CASE /\ NodeOf(c) = "owned" /\ NodeOf(c)' = "released"
           /\ ~Billing(c)'
           /\ call'[c].told = call[c].told /\ call'[c].raised = call[c].raised
           /\ \A d \in Calls \ {c} : Billing(d)' = Billing(d)
  <2>1. Contract!Release(c)
    BY <1>1, <1>2, <1>4 DEF Contract!Release, Contract!Others
  <2> QED BY <2>1 DEF Contract!Next
<1>5. CASE /\ NodeOf(c)' = NodeOf(c)
           /\ call'[c].told = call[c].told /\ call'[c].raised = call[c].raised
           /\ \E x \in Calls :
                 /\ Billing(x)' => Billing(x)
                 /\ \A d \in Calls \ {x} : Billing(d)' = Billing(d)
  <2>1. \A d \in Calls : /\ NodeOf(d)' = NodeOf(d) /\ call'[d].told = call[d].told
                         /\ Interrupted(d)' = Interrupted(d)
    BY <1>1, <1>2, <1>5
  <2>2. PICK x \in Calls : /\ Billing(x)' => Billing(x)
                           /\ \A d \in Calls \ {x} : Billing(d)' = Billing(d)
    BY <1>5
  <2>3. CASE Billing(x) /\ ~Billing(x)'
    <3>1. Contract!Lapse(x)
      BY <2>1, <2>2, <2>3 DEF Contract!Lapse, Contract!Others
    <3> QED BY <3>1 DEF Contract!Next
  <2>4. CASE Billing(x)' = Billing(x)
    <3>1. \A d \in Calls : Billing(d)' = Billing(d) BY <2>2, <2>4
    <3> QED BY <2>1, <3>1 DEF Contract!vars
  <2> QED BY <2>2, <2>3, <2>4 DEF Billing
<1> QED BY <1>3, <1>4, <1>5 DEF Step, Promise

\* Each provider is what the allocator takes it for: no machine begins to bill
\* outside its create_node, a DTO names a machine that exists, a create_node
\* that raised leaves nothing untold, and delete_node returns only when the
\* machine no longer bills.
THEOREM ProvidersKeepContract == Spec => KeepsContract
<1>1. ProviderInit => Contract!Init
  <2> SUFFICES ASSUME ProviderInit PROVE Contract!Init OBVIOUS
  <2>1. \A c \in Calls : call[c].at = "idle" /\ call[c].raised = "none" /\ call[c].told = FALSE
    BY DEF ProviderInit, IdleCall
  <2>2. \A c \in Calls : NodeOf(c) = "none" BY <2>1 DEF NodeOf, At
  <2>3. \A c \in Calls : Billing(c) = FALSE /\ Interrupted(c) = FALSE
    BY <2>1 DEF ProviderInit, Billing, Interrupted
  <2> QED BY <2>1, <2>2, <2>3 DEF Contract!Init
<1>2. ASSUME ProvidersInv, ProvidersInv', [Next]_vars
      PROVE  [Contract!Next]_(Contract!vars)
  <2>1. CASE Next
    BY <1>2, <2>1, NextSteps, StepContracts
  <2>2. CASE UNCHANGED vars
    BY <2>2 DEF vars, Contract!vars, NodeOf, Creating, CleaningUp, At, Billing, Interrupted
  <2> QED BY <1>2, <2>1, <2>2
<1> QED BY <1>1, <1>2, ProvidersInvariant, PTL DEF Spec, KeepsContract, Contract!Spec
=============================================================================
