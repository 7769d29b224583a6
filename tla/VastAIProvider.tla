---------------------------- MODULE VastAIProvider ----------------------------
(***************************************************************************)
(* providers/vastai.py: marketplace instances, one create at a time.  A    *)
(* DELETE is synchronous and trusted; a cancellation leaves every clean-up *)
(* at its first await.                                                     *)
(***************************************************************************)
EXTENDS ProviderCall

\* VastAIError.transient.
VastAITransient(r) == r.status \in {0, 429, 500}

\* VastAIClient and the validators of the shapes.
VastAIOutcome(r, shaped) ==
    CASE r.status = 404 -> "gone"
      [] VastAITransient(r) -> "transient"
      [] r.status # 200 -> "permanent"
      [] r.body = "odd" \/ (shaped /\ r.body # "good") -> "transient"
      [] OTHER -> "ok"

VastAIInterrupted(c) ==
    /\ Interrupt
    /\ IF Creating(c) THEN Raise(c, "cancel", "failed", FALSE) ELSE RaiseDelete(c)

\* ensure_ssh_key: the keys of the account.
VastAIFindKey(c) ==
    /\ At(c, "keys")
    /\ \/ \E r \in Replies :
              /\ NoInterrupt
              /\ IF VastAIOutcome(r, TRUE) = "ok" THEN Goto(c, IF KeyKnown THEN "offers" ELSE "newkey")
                 ELSE Raise(c, "api", "failed", FALSE)
       \/ VastAIInterrupted(c)
    /\ UNCHANGED <<provider, cloudVars, sharedVars>>

\* The POST of a missing one; {"success": false} is a refusal.
VastAIAddKey(c) ==
    /\ At(c, "newkey")
    /\ \/ \E r \in Replies, success \in BOOLEAN :
              /\ IF success THEN KeyAdded(r) ELSE UNCHANGED keys
              /\ IF VastAIOutcome(r, TRUE) = "ok" /\ success THEN Goto(c, "offers")
                 ELSE Raise(c, "api", "failed", FALSE)
              /\ NoInterrupt
       \/ (AddKey \/ UNCHANGED keys) /\ VastAIInterrupted(c)
    /\ UNCHANGED <<provider, cloudVars, lock>>

\* search_offers and select_cheapest_offer: no offer, or a drawn one above the
\* ceiling, raises before anything is rented.
VastAISelectOffer(c) ==
    /\ At(c, "offers")
    /\ \/ \E r \in Replies, affordable \in BOOLEAN :
              /\ NoInterrupt
              /\ IF VastAIOutcome(r, TRUE) = "ok" /\ affordable THEN Goto(c, "post")
                 ELSE Raise(c, "api", "failed", FALSE)
       \/ VastAIInterrupted(c)
    /\ UNCHANGED <<provider, cloudVars, sharedVars>>

\* PUT asks/{offer}: any exception leads to the listing for the label.
VastAIPost(c) ==
    /\ At(c, "post")
    /\ \/ \E r \in Replies :
              /\ Requested(c, r) /\ NoInterrupt
              /\ IF VastAIOutcome(r, TRUE) = "ok" THEN Goto(c, "ready")
                 ELSE Raise(c, "api", "list", FALSE)
       \/ AcceptOrRefuse(c) /\ Raise(c, "cancel", "list", FALSE) /\ Interrupt
    /\ UNCHANGED <<provider, part, addr, sharedVars>>

\* An instance that is gone is a success without an instance.
VastAIShown(c) ==
    {r \in Replies : r.status # 404 /\ (r.status = 200 => (r.body = "null" <=> Gone(c)))}

\* wait_until_ready: a transient error and a running instance without its SSH
\* endpoint are turns without news; a terminal status, a permanent error, an
\* instance that is gone and the deadline raise.
VastAIAwaitReady(c) ==
    /\ At(c, "ready")
    /\ \/ \E r \in VastAIShown(c), status \in {"running", "loading", "terminal"} :
              LET outcome == VastAIOutcome(r, ~Gone(c)) IN
              /\ NoInterrupt
              /\ IF outcome = "ok" /\ ~Gone(c) /\ status = "running" THEN Goto(c, "created")
                 ELSE IF \/ outcome = "transient"
                         \/ outcome = "ok" /\ ~Gone(c) /\ status = "loading"
                      THEN IF LastTry(c, Polls) THEN Raise(c, "api", "reap", FALSE) ELSE Again(c)
                 ELSE Raise(c, "api", "reap", FALSE)
       \/ Raise(c, "cancel", "reap", FALSE) /\ Interrupt
    /\ UNCHANGED <<provider, cloudVars, sharedVars>>

\* The host withdraws the instance while it is polled for.
VastAIWithdraw(c) ==
    /\ At(c, "ready") /\ Billing(c)
    /\ Drop(c, TRUE)
    /\ UNCHANGED <<provider, call, listed, part, addr, sharedVars, cancels>>

VastAINoMatch(c) == IF LastTry(c, ReconcileAttempts) THEN Tell(c, "failed") ELSE Again(c)

\* _reconcile_orphan_by_label.
VastAIReconcile(c) ==
    /\ At(c, "list")
    /\ \/ \E r \in Replies :
              /\ NoInterrupt
              /\ IF VastAIOutcome(r, TRUE) = "ok" /\ InListing(c) THEN Goto(c, "reap")
                 ELSE VastAINoMatch(c)
       \/ VastAIInterrupted(c)
    /\ UNCHANGED <<provider, cloudVars, sharedVars>>

\* _delete_instance.
VastAIRemove(c) ==
    /\ At(c, "reap")
    /\ \/ \E r \in RepliesAbout(c) :
              LET outcome == VastAIOutcome(r, FALSE) IN
              /\ Deletion(c, r, TRUE) /\ NoInterrupt
              /\ CASE outcome \in {"ok", "gone"} -> Removed(c)
                   [] outcome = "transient" /\ ~LastTry(c, DeleteAttempts) -> Again(c)
                   [] OTHER -> NotRemoved(c)
       \/ DropOrNot(c, TRUE) /\ VastAIInterrupted(c)
    /\ UNCHANGED <<provider, listed, part, addr, sharedVars>>

VastAIStep(c) ==
    \/ VastAIFindKey(c) \/ VastAIAddKey(c) \/ VastAISelectOffer(c) \/ VastAIPost(c)
    \/ VastAIAwaitReady(c) \/ VastAIReconcile(c) \/ VastAIRemove(c)
=============================================================================
