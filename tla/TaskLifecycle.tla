---------------------------- MODULE TaskLifecycle ----------------------------
(***************************************************************************)
(* What the rows of yascheduler_tasks promise a submitter, whatever the    *)
(* daemon does in between: the typestate of domain/model.py (TO_DO, then   *)
(* RUNNING on one node, then DONE with one outcome) carried over to the    *)
(* committed rows.  Each transition asserts the state it starts from       *)
(* (TaskNotTodoError, TaskNotRunningError), and Done has no transition.    *)
(***************************************************************************)
CONSTANTS Tasks, Nodes, NoNode

VARIABLES status, allocated, outcome

vars == <<status, allocated, outcome>>

Init ==
    /\ status = [t \in Tasks |-> "TO_DO"]
    /\ allocated = [t \in Tasks |-> NoNode]
    /\ outcome = [t \in Tasks |-> "none"]

\* Task.run(): the task is bound to a node.
Run(t, n) ==
    /\ status[t] = "TO_DO"
    /\ status' = [status EXCEPT ![t] = "RUNNING"]
    /\ allocated' = [allocated EXCEPT ![t] = n]
    /\ UNCHANGED outcome

\* Task.reject(): a task ends without having run.
Reject(t) ==
    /\ status[t] = "TO_DO"
    /\ status' = [status EXCEPT ![t] = "DONE"]
    /\ outcome' = [outcome EXCEPT ![t] = "rejected"]
    /\ UNCHANGED allocated

\* Task.complete(), Task.fail() and Task.abandon().
Finish(t, how) ==
    /\ status[t] = "RUNNING"
    /\ status' = [status EXCEPT ![t] = "DONE"]
    /\ outcome' = [outcome EXCEPT ![t] = how]
    /\ UNCHANGED allocated

Next ==
    \E t \in Tasks :
        \/ \E n \in Nodes : Run(t, n)
        \/ Reject(t)
        \/ \E how \in {"completed", "failed", "abandoned"} : Finish(t, how)

Spec == Init /\ [][Next]_vars
=============================================================================
