------------------------------ MODULE Providers ------------------------------
(***************************************************************************)
(* The five providers behind adapters.py: a behaviour is about one of      *)
(* them.  MachineContract is what the rest of the program (CloudAllocation)*)
(* takes each of them for.                                                 *)
(***************************************************************************)
EXTENDS AzureProvider, HetznerProvider, UpCloudProvider, VastAIProvider, VultrProvider

\* resolve_adapter: the prefix of the configuration picks the functions.
ProviderStep(c) ==
    \/ provider = "az" /\ AzStep(c)
    \/ provider = "hetzner" /\ HetznerStep(c)
    \/ provider = "upcloud" /\ UpStep(c)
    \/ provider = "vastai" /\ VastAIStep(c)
    \/ provider = "vultr" /\ VultrStep(c)

Cloud(c) ==
    \/ Appear(c)
    \/ Settle(c)
    \/ provider = "vastai" /\ VastAIWithdraw(c)

Next == \E c \in Calls : BeginCreate(c) \/ BeginDelete(c) \/ ProviderStep(c) \/ Cloud(c)

Spec == ProviderInit /\ [][Next]_vars

\* A call that runs is scheduled again: every await of it has a time-out of its
\* own (the HTTP client's, the SDK's).  Nothing is assumed of the cloud, of the
\* allocator that makes the calls, or of interrupts.
FairSpec == Spec /\ \A c \in Calls : WF_vars(NoInterrupt /\ ProviderStep(c))

----------------------------------------------------------------------------
(* Properties *)

Stages == Resting \cup CreateStages \cup RemovalStages \cup DeleteStages

\* The attempts a stage has, of the constants at the head of each provider.
Attempts(stage) ==
    CASE stage \in {"reap", "remove"} -> DeleteAttempts
      [] stage = "list" -> ReconcileAttempts
      [] stage \in {"ready", "verify"} -> Polls
      [] OTHER -> 1

\* The shape of the state: the machine is in a state the API knows, and no loop
\* of a call makes more attempts than the constants of its provider allow
\* (_DELETE_ATTEMPTS, _RECONCILE_ATTEMPTS, the deadlines).
TypeOK ==
    /\ provider \in Modelled
    /\ call \in [Calls -> [at : Stages, tries : Nat, rounds : 0 .. ReconcileAttempts - 1,
                           raised : {"none", "api", "cancel"}, told : BOOLEAN,
                           target : Calls \cup {NoCall}]]
    /\ \A c \in Calls : call[c].tries < Attempts(call[c].at)
    /\ vm \in [Calls -> {"none", "up", "deleting", "gone"}]
    /\ listed \in [Calls -> BOOLEAN]
    /\ part \in [Calls -> {"none", "bare", "up", "gone"}]
    /\ addr \in [Calls -> Addresses \cup {NoAddress}]
    /\ keys \in Nat
    /\ lock \in Calls \cup {NoCall}
    /\ cancels \in Nat

\* The clean-ups that a repeated interrupt leaves without a log: Hetzner's
\* sleeps and DELETEs, all of VastAI's, and UpCloud's thread, whose result is
\* dropped.
LeavesSilently == {"hetzner", "upcloud", "vastai"}

Interrupted(c) == call[c].raised = "cancel" /\ provider \in LeavesSilently

\* No machine bills unaccounted: when create_node raised and its machine still
\* bills, a log has named the machine, unless the call was interrupted on a
\* provider that leaves its clean-up then (the except BaseException blocks of
\* every create_node, and the reconciliation by label).
NoSilentOrphan ==
    \A c \in Calls : At(c, "failed") /\ Billing(c) => call[c].told \/ Interrupted(c)

\* The scheduler's key is uploaded once, however many creates look for it at a
\* time: Vultr's under the lock of the loop (get_ssh_key_id), Hetzner's because
\* the API refuses the second one, VastAI's because there is one create at a
\* time (op_limit).
KeyUploadedOnce == keys <= 1

\* Azure and UpCloud remove what has the address of the row.  It is another
\* call's machine only when the call's own has gone: a delete_node whose answer
\* was lost, repeated after the address was handed out again.
ForeignOnlyAfterOwn ==
    \A c \in Calls : call[c].target \notin {NoCall, c} => ByAddress /\ Gone(c)

\* The exception create_node began with is the one it ends with, also when its
\* clean-up is interrupted (vultr.py, az.py: the clean-up is guarded by an
\* except BaseException of its own).
OriginalErrorPropagates ==
    [][\A c \in Calls :
        provider \in {"az", "vultr"} /\ CleaningUp(c) => call'[c].raised = call[c].raised]_vars

\* Every call ends, whatever the API answers and however often it fails: the
\* attempt counters and deadlines bound each loop, and the key lock is let go
\* on every way out.
CallsEnd == \A c \in Calls : []<>(call[c].at \in Resting)

NodeOf(c) ==
    CASE At(c, "failed") -> "failed"
      [] At(c, "deleted") -> "released"
      [] At(c, "idle") \/ Creating(c) -> "none"
      [] OTHER -> "owned"

Contract == INSTANCE MachineContract WITH
    Calls <- Calls,
    node <- [c \in Calls |-> NodeOf(c)],
    bills <- [c \in Calls |-> Billing(c)],
    told <- [c \in Calls |-> call[c].told],
    excused <- [c \in Calls |-> Interrupted(c)]

\* Each provider implements the contract: no machine begins to bill outside its
\* create_node, a DTO names a machine that exists, and delete_node returns only
\* when the machine no longer bills.
KeepsContract == Contract!Spec

\* A delete of a server UpCloud no longer knows returns without raising.
GoneIsNoError ==
    [][\A c \in Calls :
        At(c, "remove") /\ Gone(call[c].target) => call'[c].at # "created"]_vars

\* Azure: a create_node that raised leaves no resource without a log.
PartialCreateIsCleanedUp ==
    \A c \in Calls : At(c, "failed") /\ HasPart(c) => call[c].told
=============================================================================
