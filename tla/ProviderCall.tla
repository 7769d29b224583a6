----------------------------- MODULE ProviderCall -----------------------------
(***************************************************************************)
(* What the five cloud providers of infra/cloud/providers share: calls to  *)
(* create_node and delete_node that run against a cloud API whose answers  *)
(* may be lost, and the machines that API keeps.                           *)
(*                                                                         *)
(* A call c stands for the life of one machine: one create_node, and then  *)
(* as many delete_node as it takes (manager.allocate's teardown or the     *)
(* deallocator, which tries again in its next cycle).  A machine has a     *)
(* label of its own (get_rnd_name), so the machine of a call is the one    *)
(* that carries its label.  The cloud API is not part of the repository:   *)
(* it is modelled by the answers the code is prepared for.  An error may   *)
(* follow any request, however many failed before; what bounds a call is   *)
(* only its own attempt counters and deadlines.                            *)
(***************************************************************************)
EXTENDS Integers, FiniteSets

CONSTANTS
    Calls,              \* the machines the allocator asks for
    Modelled,           \* the providers a behaviour may be about
    DeleteAttempts,     \* DELETE requests per removal
    ReconcileAttempts,  \* listings, and removals of a found orphan
    Polls,              \* GET requests that fit in a deadline
    MaxCancels,         \* cancellations (shutdown, a repeated interrupt)
    Addresses,          \* addresses the cloud hands out
    NoAddress,
    NoCall

ProviderNames == {"az", "hetzner", "upcloud", "vastai", "vultr"}

ASSUME CallsAssumption == Calls # {} /\ NoCall \notin Calls /\ IsFiniteSet(Calls)
ASSUME ModelledAssumption == Modelled # {} /\ Modelled \subseteq ProviderNames
ASSUME AttemptsAssumption ==
    /\ DeleteAttempts \in Nat \ {0}
    /\ ReconcileAttempts \in Nat \ {0}
    /\ Polls \in Nat \ {0}
    /\ MaxCancels \in Nat
ASSUME AddressAssumption == NoAddress \notin Addresses

VARIABLES
    provider,   \* the provider of this behaviour
    call,       \* per call: where it is, its counters, its exception, its log
    vm,         \* per call: the machine with its label
    listed,     \* per call: listings show that machine
    part,       \* per call: a second resource (Azure NIC, UpCloud storage)
    addr,       \* per call: the address of its machine
    keys,       \* how often the scheduler's public key is on the account
    lock,       \* the call that holds Vultr's key lock
    cancels     \* cancellations so far

cloudVars == <<vm, listed, part, addr>>
sharedVars == <<keys, lock>>
vars == <<provider, call, vm, listed, part, addr, keys, lock, cancels>>

\* Where a call rests: not made yet, DTO returned, create_node raised,
\* delete_node returned.  A delete_node that raised leaves the row, and the
\* call, as created.
Resting == {"idle", "created", "failed", "deleted"}

CreateStages ==
    {"lock", "keys", "newkey", "offers", "nic", "tag", "post", "list", "ready",
     "reapvm", "reapnic", "destroy"}

\* Stages of a removal, which create_node's clean-up and delete_node share.
RemovalStages == {"reap", "verify"}

DeleteStages == {"find", "stop", "remove", "leftover", "findnic"}

At(c, stage) == call[c].at = stage

\* The exception a create_node is cleaning up after; none in a delete_node.
CleaningUp(c) == call[c].raised # "none"

Creating(c) ==
    \/ call[c].at \in CreateStages
    \/ call[c].at \in RemovalStages /\ CleaningUp(c)

\* A machine bills until it is gone, also after its DELETE was accepted.
Billing(c) == vm[c] \in {"up", "deleting"}
Gone(c) == ~Billing(c)

\* The row's external id is the address of the machine, not an id of it.
ByAddress == provider \in {"az", "upcloud"}

----------------------------------------------------------------------------
(* Moves of a call *)

\* On to the next stage, with fresh counters.
Goto(c, stage) == call' = [call EXCEPT ![c].at = stage, ![c].tries = 0]

\* Another turn of the loop the call is in.
Again(c) == call' = [call EXCEPT ![c].tries = @ + 1]

\* An exception: the stage that handles it, and whether a log told that the
\* machine may still bill.
Raise(c, kind, stage, told) ==
    call' = [call EXCEPT ![c].at = stage, ![c].tries = 0, ![c].raised = kind,
                         ![c].told = @ \/ told]

\* A log that names the machine for a manual check.
Tell(c, stage) == call' = [call EXCEPT ![c].at = stage, ![c].tries = 0, ![c].told = TRUE]

LastTry(c, limit) == call[c].tries + 1 >= limit

\* What a delete_node that raised leaves: the row, and another cycle.
RaiseDelete(c) == Goto(c, "created")

\* The end of a removal that confirmed the machine gone, and of one that did
\* not: a clean-up logs it, a delete_node raises.
Removed(c) == Goto(c, IF CleaningUp(c) THEN "failed" ELSE "deleted")
NotRemoved(c) == IF CleaningUp(c) THEN Tell(c, "failed") ELSE RaiseDelete(c)

\* One more cancellation reaches an await.
Interrupt == cancels < MaxCancels /\ cancels' = cancels + 1
NoInterrupt == UNCHANGED cancels

----------------------------------------------------------------------------
(* The cloud API *)

\* A reply to an HTTP request: its status, 0 when the transport broke or timed
\* out, and its body: JSON of the expected shape, nothing, JSON whose subject is
\* null, or no JSON.
Replies ==
    [status : {200}, body : {"good", "none", "null", "odd"}]
        \cup [status : {0, 400, 404, 429, 500}, body : {"none"}]

\* Whether the cloud did what it was asked: a broken transport and a 5xx leave
\* it open.
DidIt(r) == r.status = 200
MayHaveDone(r) == r.status \in {0, 200, 500}

\* A machine the cloud accepts to create bills at once; listings may show it
\* later.
Accept(c) ==
    /\ vm' = [vm EXCEPT ![c] = "up"]
    /\ \E seen \in IF ByAddress THEN {TRUE} ELSE BOOLEAN : listed' = [listed EXCEPT ![c] = seen]

AcceptOrRefuse(c) == Accept(c) \/ UNCHANGED <<vm, listed>>

\* What a create request with reply r has done.
Requested(c, r) ==
    \/ MayHaveDone(r) /\ Accept(c)
    \/ ~DidIt(r) /\ UNCHANGED <<vm, listed>>

InListing(c) == Billing(c) /\ listed[c]

\* A DELETE that had its effect: the machine is gone (`now`), or will be.
Drop(c, now) == vm' = [vm EXCEPT ![c] = IF now THEN "gone" ELSE "deleting"]
DropOrNot(c, now) == (~Gone(c) /\ Drop(c, now)) \/ UNCHANGED vm

\* What a DELETE with reply r has done.
Deletion(c, r, now) ==
    \/ MayHaveDone(r) /\ ~Gone(c) /\ Drop(c, now)
    \/ ~DidIt(r) /\ UNCHANGED vm

\* Replies about a machine: 404 if it is gone, success if it is not, any other
\* failure at any time.
RepliesAbout(c) ==
    {r \in Replies : (r.status = 404 => Gone(c)) /\ (r.status = 200 => ~Gone(c))}

\* An address is handed out again once nothing holds it: the machine, or the
\* NIC on Azure.
HasPart(d) == part[d] \in {"bare", "up"}
HoldsAddress(d) == Billing(d) \/ (provider = "az" /\ HasPart(d))
FreeAddresses == Addresses \ {addr[d] : d \in {e \in Calls : HoldsAddress(e)}}

\* Mutant: any machine will do.
MachinesAnywhere(a) == {d \in Calls : Billing(d)}

\* Azure and UpCloud look a machine up by the address in the row.
MachinesAt(a) == {d \in Calls : Billing(d) /\ addr[d] = a}
Target(c, d, stage) ==
    call' = [call EXCEPT ![c].at = stage, ![c].tries = 0, ![c].target = d]

\* Listings catch up, and a deletion that was accepted completes.
Appear(c) ==
    /\ Billing(c) /\ ~listed[c]
    /\ listed' = [listed EXCEPT ![c] = TRUE]
    /\ UNCHANGED <<provider, call, vm, part, addr, sharedVars, cancels>>

Settle(c) ==
    /\ vm[c] = "deleting"
    /\ vm' = [vm EXCEPT ![c] = "gone"]
    /\ UNCHANGED <<provider, call, listed, part, addr, sharedVars, cancels>>

\* The scheduler's key is on the account; a second POST adds it once more
\* (Vultr, VastAI), or fails (Hetzner's keys are unique).
KeyKnown == keys > 0
AddKey == keys' = keys + 1
KeyAdded(r) == (MayHaveDone(r) /\ AddKey) \/ (~DidIt(r) /\ UNCHANGED keys)

----------------------------------------------------------------------------
(* The calls *)

\* adapters.py: creates in flight per provider (manager.allocate's semaphore).
OpLimit ==
    CASE provider \in {"az", "hetzner"} -> 5
      [] provider = "vultr" -> 2
      [] OTHER -> 1

FirstStage ==
    CASE provider = "vultr" -> "lock"
      [] provider \in {"hetzner", "vastai"} -> "keys"
      [] provider = "az" -> "nic"
      [] OTHER -> "post"

BeginCreate(c) ==
    /\ At(c, "idle")
    /\ Cardinality({d \in Calls : Creating(d)}) < OpLimit
    /\ Goto(c, FirstStage)
    /\ UNCHANGED <<provider, cloudVars, sharedVars, cancels>>

\* manager.allocate after a setup that failed, or manager.deallocate.
BeginDelete(c) ==
    /\ At(c, "created")
    /\ Goto(c, IF ByAddress THEN "find" ELSE "reap")
    /\ UNCHANGED <<provider, cloudVars, sharedVars, cancels>>

IdleCall == [at |-> "idle", tries |-> 0, rounds |-> 0, raised |-> "none", told |-> FALSE,
             target |-> NoCall]

ProviderInit ==
    /\ provider \in Modelled
    /\ call = [c \in Calls |-> IdleCall]
    /\ vm = [c \in Calls |-> "none"]
    /\ listed = [c \in Calls |-> FALSE]
    /\ part = [c \in Calls |-> "none"]
    /\ addr = [c \in Calls |-> NoAddress]
    /\ keys = 0
    /\ lock = NoCall
    /\ cancels = 0
=============================================================================
