--------------------------- MODULE HetznerProvider ---------------------------
(***************************************************************************)
(* providers/hetzner.py: servers, up to five creates at a time.  The       *)
(* address comes with the answer of POST, so there is no poll for          *)
(* readiness; a found orphan is removed in several rounds.                 *)
(***************************************************************************)
EXTENDS ProviderCall

\* HetznerError.transient.
HetznerTransient(r) == r.status \in {0, 429, 500}

\* HetznerClient and the validators of the shapes.  An error without a status,
\* one of shape included, counts as transient.
HetznerOutcome(r, shaped) ==
    CASE r.status = 404 -> "gone"
      [] HetznerTransient(r) -> "transient"
      [] r.status # 200 -> "permanent"
      [] r.body = "odd" \/ (shaped /\ r.body # "good") -> "transient"
      [] OTHER -> "ok"

\* _resolve_ssh_key_by_fingerprint.
HetznerFindKey(c) ==
    /\ At(c, "keys")
    /\ \/ \E r \in Replies :
              /\ NoInterrupt
              /\ IF HetznerOutcome(r, TRUE) = "ok" THEN Goto(c, IF KeyKnown THEN "post" ELSE "newkey")
                 ELSE Raise(c, "api", "failed", FALSE)
       \/ Raise(c, "cancel", "failed", FALSE) /\ Interrupt
    /\ UNCHANGED <<provider, cloudVars, sharedVars>>

\* ensure_ssh_key on a miss.  Nothing serialises the calls: a key that another
\* one has added meanwhile is refused, and the create fails.
HetznerAddKey(c) ==
    /\ At(c, "newkey")
    /\ \/ \E r \in Replies :
              /\ KeyKnown => ~DidIt(r)
              /\ IF KeyKnown THEN UNCHANGED keys ELSE KeyAdded(r)
              /\ IF HetznerOutcome(r, TRUE) = "ok" THEN Goto(c, "post")
                 ELSE Raise(c, "api", "failed", FALSE)
              /\ NoInterrupt
       \/ /\ (~KeyKnown /\ AddKey) \/ UNCHANGED keys
          /\ Raise(c, "cancel", "failed", FALSE) /\ Interrupt
    /\ UNCHANGED <<provider, cloudVars, lock>>

\* POST servers.  An exception, and a server without an IPv4, lead to the
\* listing for the label.
HetznerPost(c) ==
    /\ At(c, "post")
    /\ \/ \E r \in Replies, address \in BOOLEAN :
              /\ Requested(c, r) /\ NoInterrupt
              /\ IF HetznerOutcome(r, TRUE) = "ok" /\ address THEN Goto(c, "created")
                 ELSE Raise(c, "api", "list", FALSE)
       \/ AcceptOrRefuse(c) /\ Raise(c, "cancel", "list", FALSE) /\ Interrupt
    /\ UNCHANGED <<provider, part, addr, sharedVars>>

HetznerNoMatch(c) == IF LastTry(c, ReconcileAttempts) THEN Tell(c, "failed") ELSE Again(c)

\* _reconcile_orphan_by_label, phase 1.  A cancelled listing counts as an
\* attempt; a cancelled sleep leaves the clean-up without a word.
HetznerReconcile(c) ==
    /\ At(c, "list")
    /\ \/ \E r \in Replies :
              /\ NoInterrupt
              /\ IF HetznerOutcome(r, TRUE) = "ok" /\ InListing(c) THEN Goto(c, "reap")
                 ELSE HetznerNoMatch(c)
       \/ HetznerNoMatch(c) /\ Interrupt
       \/ call[c].tries > 0 /\ Interrupt /\ Raise(c, "cancel", "failed", FALSE)
    /\ UNCHANGED <<provider, cloudVars, sharedVars>>

\* Phase 2: another round of the removal, or the end of them.
HetznerNextRound(c) ==
    IF call[c].rounds + 1 < ReconcileAttempts
    THEN call' = [call EXCEPT ![c].at = "reap", ![c].tries = 0, ![c].told = TRUE,
                              ![c].rounds = @ + 1]
    ELSE Tell(c, "failed")

HetznerNotRemoved(c) == IF CleaningUp(c) THEN HetznerNextRound(c) ELSE RaiseDelete(c)

HetznerInterrupted(c) ==
    /\ Interrupt
    /\ IF CleaningUp(c) THEN Raise(c, "cancel", "failed", FALSE) ELSE RaiseDelete(c)

\* _delete_and_verify, the DELETE requests.
HetznerRemove(c) ==
    /\ At(c, "reap")
    /\ \/ \E r \in RepliesAbout(c) :
              LET outcome == HetznerOutcome(r, FALSE) IN
              /\ Deletion(c, r, FALSE) /\ NoInterrupt
              /\ CASE outcome = "ok" -> Goto(c, "verify")
                   [] outcome = "gone" -> Removed(c)
                   [] outcome = "transient" /\ ~LastTry(c, DeleteAttempts) -> Again(c)
                   [] OTHER -> HetznerNotRemoved(c)
       \/ DropOrNot(c, FALSE) /\ HetznerInterrupted(c)
    /\ UNCHANGED <<provider, listed, part, addr, sharedVars>>

\* _verify_server_gone.
HetznerVerify(c) ==
    /\ At(c, "verify")
    /\ \/ \E r \in RepliesAbout(c) :
              /\ NoInterrupt
              /\ IF HetznerOutcome(r, TRUE) = "gone" THEN Removed(c)
                 ELSE IF LastTry(c, Polls) THEN HetznerNotRemoved(c) ELSE Again(c)
       \/ HetznerInterrupted(c)
    /\ UNCHANGED <<provider, cloudVars, sharedVars>>

HetznerStep(c) ==
    \/ HetznerFindKey(c) \/ HetznerAddKey(c) \/ HetznerPost(c)
    \/ HetznerReconcile(c) \/ HetznerRemove(c) \/ HetznerVerify(c)
=============================================================================
