---------------------------- MODULE VultrProvider ----------------------------
(***************************************************************************)
(* providers/vultr.py: bare-metal machines, at most two creates at a time. *)
(* A DELETE is asynchronous, so a removal is verified by polling GET; the  *)
(* registration of the SSH key is serialised by a lock.                    *)
(***************************************************************************)
EXTENDS ProviderCall

\* APIError.transient: 429, 5xx and transport failures.
VultrTransient(r) == r.status \in {0, 429, 500}

\* VultrClient._request and the validators of the shapes: what a request is
\* answered with.  A success whose body is no JSON, or has another shape than
\* the caller expects, has no status and so counts as transient.
VultrOutcome(r, shaped) ==
    CASE r.status = 404 -> "gone"
      [] VultrTransient(r) -> "transient"
      [] r.status # 200 -> "permanent"
      [] r.body = "odd" \/ (shaped /\ r.body # "good") -> "transient"
      [] OTHER -> "ok"

\* Mutant: the lock is not released.
VultrKeepKeyLock == UNCHANGED lock

VultrLeaveKeyLock == lock' = NoCall

\* Mutant: get_ssh_key_id without the lock.
VultrSkipKeyLock(c) ==
    /\ At(c, "lock")
    /\ Goto(c, "keys")
    /\ UNCHANGED <<provider, cloudVars, sharedVars, cancels>>

\* get_ssh_key_id: the lock of this event loop.
VultrLockKeys(c) ==
    /\ At(c, "lock") /\ lock = NoCall
    /\ lock' = c
    /\ Goto(c, "keys")
    /\ UNCHANGED <<provider, cloudVars, keys, cancels>>

\* get_ssh_keys: all pages, until the scheduler's public key is found.
VultrFindKey(c) ==
    \E r \in Replies :
        /\ At(c, "keys")
        /\ IF VultrOutcome(r, TRUE) # "ok"
           THEN Raise(c, "api", "failed", FALSE) /\ VultrLeaveKeyLock
           ELSE IF KeyKnown THEN Goto(c, "post") /\ VultrLeaveKeyLock
           ELSE Goto(c, "newkey") /\ UNCHANGED lock
        /\ UNCHANGED <<provider, cloudVars, keys, cancels>>

\* create_ssh_key, still under the lock.
VultrAddKey(c) ==
    \E r \in Replies :
        /\ At(c, "newkey")
        /\ KeyAdded(r)
        /\ IF VultrOutcome(r, TRUE) = "ok" THEN Goto(c, "post") ELSE Raise(c, "api", "failed", FALSE)
        /\ VultrLeaveKeyLock
        /\ UNCHANGED <<provider, cloudVars, cancels>>

\* A cancellation in get_ssh_key_id lets the lock go.
VultrKeyInterrupted(c) ==
    /\ call[c].at \in {"lock", "keys", "newkey"}
    /\ Interrupt
    /\ IF At(c, "newkey") THEN AddKey \/ UNCHANGED keys ELSE UNCHANGED keys
    /\ IF At(c, "lock") THEN UNCHANGED lock ELSE VultrLeaveKeyLock
    /\ Raise(c, "cancel", "failed", FALSE)
    /\ UNCHANGED <<provider, cloudVars>>

\* POST bare-metals.  Whatever is raised, a cancellation included, leads to
\* the listing for the label.
VultrPost(c) ==
    /\ At(c, "post")
    /\ \/ \E r \in Replies :
              /\ Requested(c, r) /\ NoInterrupt
              /\ IF VultrOutcome(r, TRUE) = "ok" THEN Goto(c, "ready")
                 ELSE Raise(c, "api", "list", FALSE)
       \/ AcceptOrRefuse(c) /\ Raise(c, "cancel", "list", FALSE) /\ Interrupt
    /\ UNCHANGED <<provider, part, addr, sharedVars>>

\* The poll for an active machine with an address: a transient error is one
\* turn without news, a permanent one and the deadline raise.
VultrAwaitActive(c) ==
    /\ At(c, "ready")
    /\ \/ \E r \in RepliesAbout(c), active \in BOOLEAN :
              LET outcome == VultrOutcome(r, TRUE) IN
              /\ NoInterrupt
              /\ IF outcome = "ok" /\ active THEN Goto(c, "created")
                 ELSE IF outcome \in {"ok", "transient"} /\ ~LastTry(c, Polls) THEN Again(c)
                 ELSE Raise(c, "api", "reap", FALSE)
       \/ Raise(c, "cancel", "reap", FALSE) /\ Interrupt
    /\ UNCHANGED <<provider, cloudVars, sharedVars>>

\* Mutant: the last attempt leaves without a log.
VultrNoMatchQuiet(c) == IF LastTry(c, ReconcileAttempts) THEN Goto(c, "failed") ELSE Again(c)

VultrNoMatch(c) == IF LastTry(c, ReconcileAttempts) THEN Tell(c, "failed") ELSE Again(c)

\* Mutant: nothing guards the clean-up, its exception replaces the first one.
VultrCleanUpRaises(c) == Raise(c, "cancel", "failed", TRUE)

\* create_node's guard of the clean-up: an exception of it is logged.
VultrCleanUpCut(c) == Tell(c, "failed")

\* _reconcile_orphan_by_label: a listing that fails, or is cancelled, counts
\* as an attempt; a cancelled sleep leaves it, which its caller logs.
VultrReconcile(c) ==
    /\ At(c, "list")
    /\ \/ \E r \in Replies :
              /\ NoInterrupt
              /\ IF VultrOutcome(r, TRUE) = "ok" /\ InListing(c) THEN Goto(c, "reap")
                 ELSE VultrNoMatch(c)
       \/ VultrNoMatch(c) /\ Interrupt
       \/ call[c].tries > 0 /\ Interrupt /\ VultrCleanUpCut(c)
    /\ UNCHANGED <<provider, cloudVars, sharedVars>>

\* _delete_and_verify, the DELETE requests.  An interrupted clean-up is logged
\* by create_node, an interrupted delete_node leaves the row.
VultrRemove(c) ==
    /\ At(c, "reap")
    /\ \/ \E r \in RepliesAbout(c) :
              LET outcome == VultrOutcome(r, FALSE) IN
              /\ Deletion(c, r, FALSE) /\ NoInterrupt
              /\ CASE outcome = "ok" -> Goto(c, "verify")
                   [] outcome = "gone" -> Removed(c)
                   [] outcome = "transient" /\ ~LastTry(c, DeleteAttempts) -> Again(c)
                   [] OTHER -> NotRemoved(c)
       \/ DropOrNot(c, FALSE) /\ NotRemoved(c) /\ Interrupt
    /\ UNCHANGED <<provider, listed, part, addr, sharedVars>>

\* Mutant: delete_node does not look at the result.
VultrPresumeGone(c) ==
    IF ~LastTry(c, Polls) THEN Again(c)
    ELSE IF CleaningUp(c) THEN Tell(c, "failed") ELSE Goto(c, "deleted")

\* Still there, or nobody knows; the deadline is logged.
VultrStillThere(c) == IF LastTry(c, Polls) THEN NotRemoved(c) ELSE Again(c)

\* _verify_instance_gone: only a 404 confirms.
VultrVerify(c) ==
    /\ At(c, "verify")
    /\ \/ \E r \in RepliesAbout(c) :
              /\ NoInterrupt
              /\ IF VultrOutcome(r, TRUE) = "gone" THEN Removed(c) ELSE VultrStillThere(c)
       \/ NotRemoved(c) /\ Interrupt
    /\ UNCHANGED <<provider, cloudVars, sharedVars>>

VultrStep(c) ==
    \/ VultrLockKeys(c) \/ VultrFindKey(c) \/ VultrAddKey(c) \/ VultrKeyInterrupted(c)
    \/ VultrPost(c) \/ VultrAwaitActive(c)
    \/ VultrReconcile(c) \/ VultrRemove(c) \/ VultrVerify(c)
=============================================================================
