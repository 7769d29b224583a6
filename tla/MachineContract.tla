--------------------------- MODULE MachineContract ---------------------------
(***************************************************************************)
(* What a provider promises the allocator, whichever it is: a machine      *)
(* bills only from inside its own create_node; a DTO is returned for a     *)
(* machine that exists; a create_node that raised either leaves nothing,   *)
(* or has told the operator, or was interrupted; a delete_node returns     *)
(* only for a machine that no longer bills.                                *)
(***************************************************************************)
CONSTANT Calls

VARIABLES
    node,       \* per call: "none", "owned" (a DTO returned), "failed", "released"
    bills,      \* per call: its machine bills
    told,       \* per call: a log names the machine for a manual check
    excused     \* per call: the call was interrupted

vars == <<node, bills, told, excused>>

Others(c) ==
    \A d \in Calls \ {c} :
        /\ node'[d] = node[d] /\ bills'[d] = bills[d]
        /\ told'[d] = told[d] /\ excused'[d] = excused[d]

\* A step of create_node: the request is accepted, a log is written, and the
\* call may return or raise.
Create(c) ==
    /\ node[c] = "none"
    /\ told[c] => told'[c]
    /\ \/ node'[c] = "none"
       \/ node'[c] = "owned" /\ bills'[c]
       \/ node'[c] = "failed" /\ (bills'[c] => told'[c] \/ excused'[c])
    /\ Others(c)

\* delete_node returns.
Release(c) ==
    /\ node[c] = "owned" /\ node'[c] = "released"
    /\ ~bills'[c]
    /\ told'[c] = told[c] /\ excused'[c] = excused[c]
    /\ Others(c)

\* The machine stops billing: removed by a step of delete_node, by the cloud,
\* or by hand.
Lapse(c) ==
    /\ bills[c] /\ ~bills'[c]
    /\ node'[c] = node[c] /\ told'[c] = told[c] /\ excused'[c] = excused[c]
    /\ Others(c)

Init ==
    /\ node = [c \in Calls |-> "none"]
    /\ bills = [c \in Calls |-> FALSE]
    /\ told = [c \in Calls |-> FALSE]
    /\ excused = [c \in Calls |-> FALSE]

Next == \E c \in Calls : Create(c) \/ Release(c) \/ Lapse(c)

Spec == Init /\ [][Next]_vars
=============================================================================
