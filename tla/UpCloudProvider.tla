--------------------------- MODULE UpCloudProvider ---------------------------
(***************************************************************************)
(* providers/upcloud.py: a synchronous SDK in an executor thread, which a  *)
(* cancellation of the awaiting coroutine does not stop: only its result   *)
(* is dropped.  delete_node finds the server by its public address; its    *)
(* storage is a resource of its own.                                       *)
(***************************************************************************)
EXTENDS ProviderCall

UpNewServer(c) ==
    \E a \in FreeAddresses :
        /\ Accept(c)
        /\ part' = [part EXCEPT ![c] = "up"]
        /\ addr' = [addr EXCEPT ![c] = a]

\* create_server and get_public_ip: a server with an address, one without,
\* or an exception after which only its hostname is known.
UpCreate(c) ==
    /\ At(c, "post")
    /\ \/ UpNewServer(c) /\ Goto(c, "created") /\ NoInterrupt
       \/ UpNewServer(c) /\ Raise(c, "cancel", "failed", FALSE) /\ Interrupt
       \/ UpNewServer(c) /\ Raise(c, "api", "destroy", FALSE) /\ NoInterrupt
       \/ /\ UpNewServer(c) \/ UNCHANGED <<vm, listed, part, addr>>
          /\ Raise(c, "api", "failed", TRUE) /\ NoInterrupt
    /\ UNCHANGED <<provider, sharedVars>>

\* _destroy_created_server_best_effort: one attempt, a failure of which is
\* logged.
UpDestroyCreated(c) ==
    /\ At(c, "destroy")
    /\ \/ Drop(c, TRUE) /\ part' = [part EXCEPT ![c] = "gone"] /\ Goto(c, "failed")
       \/ DropOrNot(c, TRUE) /\ UNCHANGED part /\ Tell(c, "failed")
    /\ UNCHANGED <<provider, listed, addr, sharedVars, cancels>>

\* delete_node: the server with the address in the row; an unknown one is no
\* error.
UpFind(c) ==
    /\ At(c, "find")
    /\ \/ \E d \in MachinesAt(addr[c]) : Target(c, d, "stop")
       \/ MachinesAt(addr[c]) = {} /\ Goto(c, "deleted")
       \/ RaiseDelete(c)
    /\ UNCHANGED <<provider, cloudVars, sharedVars, cancels>>

UpStop(c) ==
    /\ At(c, "stop")
    /\ Goto(c, "remove") \/ RaiseDelete(c)
    /\ UNCHANGED <<provider, cloudVars, sharedVars, cancels>>

\* The destroy attempts.  SERVER_NOT_FOUND ends them, and the exception of an
\* earlier attempt, which is still kept, is raised.
UpDestroy(c) ==
    LET d == call[c].target IN
    /\ At(c, "remove")
    /\ \/ ~Gone(d) /\ Drop(d, TRUE) /\ Goto(c, "leftover")
       \/ ~Gone(d) /\ DropOrNot(d, TRUE) /\ ~LastTry(c, DeleteAttempts) /\ Again(c)
       \/ ~Gone(d) /\ DropOrNot(d, TRUE) /\ LastTry(c, DeleteAttempts) /\ RaiseDelete(c)
       \/ Gone(d) /\ UNCHANGED vm /\ Goto(c, IF call[c].tries = 0 THEN "deleted" ELSE "created")
    /\ UNCHANGED <<provider, listed, part, addr, sharedVars, cancels>>

\* The storage devices of a server this call has destroyed.
UpDestroyStorage(c) ==
    /\ At(c, "leftover")
    /\ \/ /\ part' = [part EXCEPT ![call[c].target] = "gone"]
          /\ Goto(c, "deleted") /\ NoInterrupt
       \/ UNCHANGED part /\ RaiseDelete(c) /\ NoInterrupt
       \/ /\ part' = [part EXCEPT ![call[c].target] = "gone"]
          /\ RaiseDelete(c) /\ Interrupt
    /\ UNCHANGED <<provider, vm, listed, addr, sharedVars>>

UpStep(c) ==
    \/ UpCreate(c) \/ UpDestroyCreated(c)
    \/ UpFind(c) \/ UpStop(c) \/ UpDestroy(c) \/ UpDestroyStorage(c)
=============================================================================
