------------------------------ MODULE NodeAdmin ------------------------------
(***************************************************************************)
(* yasetnode (manage_node.py) at work beside the daemon of Connection: the *)
(* operator adds a node, or removes one softly or hard, while the daemon   *)
(* connects, allocates, consumes and tears down on the same rows.  The     *)
(* operator runs one yasetnode at a time; each of its transactions reads   *)
(* first and writes and commits later.                                     *)
(***************************************************************************)
EXTENDS Connection

CONSTANT MaxCommands  \* bound: commands the operator runs

ASSUME CommandsAssumption == MaxCommands \in Nat

VARIABLES
    cli,         \* the command in progress: what it does next, to which node
    ready,       \* nodes whose host was set up (or came with the database)
    cliRemoved,  \* nodes whose row the operator removed
    commands     \* commands started

cliVars == <<cli, ready, cliRemoved, commands>>
vars == <<connectionVars, cliVars>>

NoCommand == [next |-> "none", node |-> NoNode, tasks |-> {}]

Steps == {"none", "soft remove", "soft disable", "hard remove",
          "connect", "setup", "enable"}

\* The states are well formed, and no more rows are known than ids handed out.
TypeOK ==
    /\ ConnectionTypeOK
    /\ cli \in [next : Steps, node : Nodes \cup {NoNode}, tasks : SUBSET Tasks]
    /\ cli.next = "none" <=> cli.node = NoNode
    /\ ready \subseteq Nodes
    /\ cliRemoved \subseteq Nodes
    /\ commands \in 0..MaxCommands

Init ==
    /\ ConnectionInit
    /\ cli = NoCommand
    /\ ready = Enabled
    /\ cliRemoved = {}
    /\ commands = 0

Begin(step, n, tasks) ==
    /\ cli = NoCommand
    /\ commands < MaxCommands
    /\ commands' = commands + 1
    /\ cli' = [next |-> step, node |-> n, tasks |-> tasks]
    /\ UNCHANGED <<ready, cliRemoved>>

\* The command is over, with an error or without.
Ends == cli' = NoCommand /\ UNCHANGED commands

Goes(step) == cli' = [cli EXCEPT !.next = step] /\ UNCHANGED <<ready, cliRemoved, commands>>

\* The connection and tables other than the node rows are left alone.
OnlyRows == UNCHANGED <<status, at, machines, repository, connects, work, deallocator,
                        faults>>

-----------------------------------------------------------------------------
(* --remove-soft *)

\* The node is resolved (an unknown one is refused) and the ids of its
\* RUNNING tasks read.
SoftRead(n) ==
    /\ row[n] # "absent"
    /\ Begin(IF RunningOn(n) = {} THEN "soft remove" ELSE "soft disable", n, RunningOn(n))
    /\ UNCHANGED connectionVars

\* Busy: only disable; a row that is gone meanwhile is an error.
SoftDisable ==
    /\ cli.next = "soft disable"
    /\ Disable(cli.node) \/ (row[cli.node] = "absent" /\ UNCHANGED row)
    /\ Ends /\ UNCHANGED <<ready, cliRemoved>> /\ OnlyRows

\* Idle: remove.  Refused by the database if a task is RUNNING by now.
SoftRemove ==
    /\ cli.next = "soft remove"
    /\ ~RowLocked(cli.node)
    /\ IF Removable(cli.node)
       THEN /\ row' = [row EXCEPT ![cli.node] = "absent"]
            /\ cliRemoved' = cliRemoved \cup {cli.node}
       ELSE UNCHANGED <<row, cliRemoved>>
    /\ Ends /\ UNCHANGED ready /\ OnlyRows

-----------------------------------------------------------------------------
(* --remove-hard *)

HardRead(n) ==
    /\ row[n] # "absent"
    /\ Begin("hard remove", n, RunningOn(n))
    /\ UNCHANGED connectionVars

\* The tasks of the list that are still RUNNING are abandoned and the row is
\* removed, in one transaction: a task that was started since the list was
\* read makes the database refuse all of it.  Nothing tells the daemon: its
\* session, its monitor and the process stay.
HardRemove ==
    LET n == cli.node IN
    /\ cli.next = "hard remove"
    /\ ~RowLocked(n)
    /\ IF row[n] # "absent" /\ RunningOn(n) \subseteq cli.tasks
       THEN /\ status' = [t \in Tasks |-> IF t \in RunningOn(n) THEN "DONE" ELSE status[t]]
            /\ row' = [row EXCEPT ![n] = "absent"]
            /\ cliRemoved' = cliRemoved \cup {n}
       ELSE UNCHANGED <<row, status, cliRemoved>>
    /\ Ends /\ UNCHANGED ready
    /\ UNCHANGED <<at, machines, repository, connects, work, deallocator, faults>>

-----------------------------------------------------------------------------
(* Add. *)

\* Mutant: the row is inserted enabled.
AddInsertEnabled(n) ==
    /\ n \in NewNodes \ (cliRemoved \cup ready) /\ row[n] = "absent"
    /\ row' = [row EXCEPT ![n] = "enabled"]
    /\ Begin("connect", n, {})
    /\ OnlyRows

\* The host is in no row: insert one under a new id, disabled, with the real
\* hostname.
AddInsert(n) ==
    /\ n \in NewNodes \ (cliRemoved \cup ready) /\ row[n] = "absent"
    /\ row' = [row EXCEPT ![n] = "disabled"]
    /\ Begin("connect", n, {})
    /\ OnlyRows

AddConnected ==
    /\ cli.next = "connect"
    /\ Goes("setup")
    /\ UNCHANGED connectionVars

\* The host does not answer: best effort removal of the row.
AddConnectFails ==
    /\ cli.next = "connect"
    /\ row' = [row EXCEPT ![cli.node] = "absent"]
    /\ cliRemoved' = cliRemoved \cup {cli.node}
    /\ Ends /\ UNCHANGED ready /\ OnlyRows

\* setup_node() is done (or skipped: the operator vouches for the host).
AddSetup ==
    /\ cli.next = "setup"
    /\ cli' = [cli EXCEPT !.next = "enable"]
    /\ ready' = ready \cup {cli.node}
    /\ UNCHANGED <<connectionVars, cliRemoved, commands>>

\* Setup fails, or the command is interrupted: the disabled row stays.
AddStops ==
    /\ cli.next \in {"connect", "setup", "enable"}
    /\ Ends
    /\ UNCHANGED <<connectionVars, ready, cliRemoved>>

\* UPDATE ... enabled = TRUE; a missing row raises, the add has failed.
AddEnable ==
    /\ cli.next = "enable"
    /\ row' = [row EXCEPT ![cli.node] = IF @ = "absent" THEN @ ELSE "enabled"]
    /\ Ends /\ UNCHANGED <<ready, cliRemoved>> /\ OnlyRows

-----------------------------------------------------------------------------

Command ==
    \/ SoftDisable \/ SoftRemove \/ HardRemove
    \/ AddConnected \/ AddConnectFails \/ AddSetup \/ AddStops \/ AddEnable
    \/ \E n \in Nodes : SoftRead(n) \/ HardRead(n) \/ AddInsert(n)

Next == Command \/ (ConnectionNext /\ UNCHANGED cliVars)

\* A command that was started ends; the operator need not start one.
Fairness ==
    /\ ConnectionFairness
    /\ WF_vars(SoftDisable \/ SoftRemove \/ HardRemove)
    /\ WF_vars(AddConnected \/ AddConnectFails \/ AddSetup \/ AddStops \/ AddEnable)

Spec == Init /\ [][Next]_vars
FairSpec == Spec /\ Fairness

-----------------------------------------------------------------------------
(* Properties. *)

\* Tasks run, or are about to, on hosts that were set up only: add_node makes
\* the row visible to the daemon's connect phase before the host is ready, but
\* not to its allocator.
ReadyBeforeUse ==
    /\ BusyNodeIds \subseteq ready
    /\ \A n \in Nodes : claim[n] # NoTask => n \in ready

\* Outputs are not downloaded while the calculation writes them, whatever
\* sessions come and go: a new session starts FREE.  Excepted are nodes for
\* which the message of a finished task started a check (orchestrator.py:551-560):
\* there that check can free the session of the next task.
ConsumedAfterExit == \A t \in consuming \cap procs : at[t] \in stale

\* An enabled static node stays enabled while it is unreachable or idle: it is
\* retried for ever (BLOCK_static_node_retry).  Only the command in progress on
\* it, or a teardown that was collected while its row was disabled, ends that.
StaticKept ==
    [][\A n \in Nodes \ CloudNodes :
          row[n] = "enabled" /\ row'[n] # "enabled"
          => cli.node = n \/ teardown[n] = "closed"]_vars

\* A task whose process has ended is finalised, whatever happens to its node,
\* unless the connection of the node's session is dead: nothing evicts that.
FinishedIsFinalised ==
    \A t \in Tasks : []<>(status[t] # "RUNNING" \/ t \in procs \/ at[t] \in dead)

\* A disabled node is reaped once its task is done, or enabled by the command
\* that added it: a drain ends.
Reaped == \A n \in Nodes : []<>(row[n] # "disabled" \/ n \in dead)

\* "must not silently delete an operator's static-node row": nor one that
\* yasetnode has just enabled.
AddedStays ==
    [][\A n \in Nodes \ CloudNodes :
          row[n] = "enabled" /\ row'[n] # "enabled" => cli.node = n]_vars

\* "download outputs from a free machine" (orchestrator.py:502), the machines with
\* checks of finished tasks included: no calculation runs during its download.
ConsumedWhenFree == consuming \cap procs = {}

\* "whose node_id is absent from self._repository (not already connected)":
\* what the connect producer yields.
YieldsUnconnected ==
    [][\A n \in Nodes : connect[n] = "idle" /\ connect'[n] = "queued" =>
          session[n] = "none"]_vars
=============================================================================
