---------------------------- MODULE AzureProvider ----------------------------
(***************************************************************************)
(* providers/az.py: a NIC first, then the VM on it; delete_node finds both *)
(* by the tag that holds the address.  A NIC is "bare" until it is tagged. *)
(***************************************************************************)
EXTENDS ProviderCall

\* An exception of an awaited SDK call, or a cancellation of it.
AzRaise(c, stage) ==
    \/ Raise(c, "api", stage, FALSE) /\ NoInterrupt
    \/ Raise(c, "cancel", stage, FALSE) /\ Interrupt

AzRaiseDelete(c) == RaiseDelete(c) /\ (NoInterrupt \/ Interrupt)

AzNewNic(c) ==
    \E a \in FreeAddresses :
        /\ part' = [part EXCEPT ![c] = "bare"]
        /\ addr' = [addr EXCEPT ![c] = a]

\* create_nic up to the address: subnet, security group, the NIC itself.
AzCreateNic(c) ==
    /\ At(c, "nic")
    /\ \/ AzNewNic(c) /\ Goto(c, "tag") /\ NoInterrupt
       \/ AzNewNic(c) /\ AzRaise(c, "failed")
       \/ UNCHANGED <<part, addr>> /\ AzRaise(c, "failed")
    /\ UNCHANGED <<provider, vm, listed, sharedVars>>

\* update_tags, by which delete_node will find the NIC.
AzTagNic(c) ==
    /\ At(c, "tag")
    /\ \/ part' = [part EXCEPT ![c] = "up"] /\ Goto(c, "post") /\ NoInterrupt
       \/ (part' = [part EXCEPT ![c] = "up"] \/ UNCHANGED part) /\ AzRaise(c, "failed")
    /\ UNCHANGED <<provider, vm, listed, addr, sharedVars>>

\* The VM refers to its NIC by id: Azure refuses one whose NIC has gone, which
\* a delete_node of the address's last holder may have taken for its own.
AzAccept(c) == HasPart(c) /\ Accept(c)

\* begin_create_or_update of the VM.
AzCreateVm(c) ==
    /\ At(c, "post")
    /\ \/ AzAccept(c) /\ Goto(c, "created") /\ NoInterrupt
       \/ (AzAccept(c) \/ UNCHANGED <<vm, listed>>) /\ AzRaise(c, "reapvm")
    /\ UNCHANGED <<provider, part, addr, sharedVars>>

\* _cleanup_vm_and_nic: whatever is raised is logged and the next resource
\* tried.  Azure keeps a NIC whose VM is still there.
AzCleanUpVm(c) ==
    /\ At(c, "reapvm")
    /\ \/ Drop(c, TRUE) /\ Goto(c, "reapnic") /\ NoInterrupt
       \/ DropOrNot(c, TRUE) /\ Tell(c, "reapnic") /\ (NoInterrupt \/ Interrupt)
    /\ UNCHANGED <<provider, listed, part, addr, sharedVars>>

AzCleanUpNic(c) ==
    /\ At(c, "reapnic")
    /\ \/ ~Billing(c) /\ part' = [part EXCEPT ![c] = "gone"] /\ Goto(c, "failed") /\ NoInterrupt
       \/ /\ UNCHANGED part \/ (~Billing(c) /\ part' = [part EXCEPT ![c] = "gone"])
          /\ Tell(c, "failed") /\ (NoInterrupt \/ Interrupt)
    /\ UNCHANGED <<provider, vm, listed, addr, sharedVars>>

\* delete_node: the VM whose tag is the address in the row.
AzFindVm(c) ==
    /\ At(c, "find")
    /\ \/ \E d \in MachinesAt(addr[c]) : Target(c, d, "stop") /\ NoInterrupt
       \/ MachinesAt(addr[c]) = {} /\ Goto(c, "findnic") /\ NoInterrupt
       \/ AzRaiseDelete(c)
    /\ UNCHANGED <<provider, cloudVars, sharedVars>>

AzPowerOff(c) ==
    /\ At(c, "stop")
    /\ (Goto(c, "remove") /\ NoInterrupt) \/ AzRaiseDelete(c)
    /\ UNCHANGED <<provider, cloudVars, sharedVars>>

AzDeleteVm(c) ==
    /\ At(c, "remove")
    /\ \/ Drop(call[c].target, TRUE) /\ Goto(c, "findnic") /\ NoInterrupt
       \/ DropOrNot(call[c].target, TRUE) /\ AzRaiseDelete(c)
    /\ UNCHANGED <<provider, listed, part, addr, sharedVars>>

\* The tagged NIC with the address, searched whether or not a VM was found.
AzDeleteNic(c) ==
    LET found == {d \in Calls : part[d] = "up" /\ addr[d] = addr[c]}
        unplug == \E d \in found : ~Billing(d) /\ part' = [part EXCEPT ![d] = "gone"]
    IN
    /\ At(c, "findnic")
    /\ \/ unplug /\ Goto(c, "deleted") /\ NoInterrupt
       \/ found = {} /\ UNCHANGED part /\ Goto(c, "deleted") /\ NoInterrupt
       \/ (unplug \/ UNCHANGED part) /\ AzRaiseDelete(c)
    /\ UNCHANGED <<provider, vm, listed, addr, sharedVars>>

AzStep(c) ==
    \/ AzCreateNic(c) \/ AzTagNic(c) \/ AzCreateVm(c) \/ AzCleanUpVm(c) \/ AzCleanUpNic(c)
    \/ AzFindVm(c) \/ AzPowerOff(c) \/ AzDeleteVm(c) \/ AzDeleteNic(c)
=============================================================================
