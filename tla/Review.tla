------------------------------- MODULE Review -------------------------------
(***************************************************************************)
(* record_review_decision(): one operator decision on one target.  The     *)
(* console serves each POST on a thread of its own, so several reviewers   *)
(* may be inside the function for the same target; each keeps what it read *)
(* in local variables while the rows change under it.                      *)
(***************************************************************************)
EXTENDS PipelineDB

CONSTANTS
    Reviewer,       \* threads serving POST /review/decision
    SerialReviews,  \* TRUE: the operators submit one decision at a time
    MaxReviews,     \* bound on review rows of a target a new decision may see
    MaxRevisions    \* bound on revisions of a target a new edit may see

ASSUME ReviewAssumption ==
    /\ SerialReviews \in BOOLEAN
    /\ MaxReviews \in Nat
    /\ MaxRevisions \in Nat

VARIABLE rv  \* what each reviewer thread is doing

\* Where a decision stands: each value but "idle" names the next read or
\* commit of the function.
ReviewPC == {"idle", "state", "switch", "latest", "edit", "gate", "listed",
             "suppress", "decide", "move", "audit"}

\* ref is decision_draft_ref, the revision the decision will name.
ReviewerLocal == [pc : ReviewPC, tgt : Target, dec : Decision, ref : Nat]

ReviewTypeOK == rv \in [Reviewer -> ReviewerLocal]

IdleReviewer == [pc |-> "idle", tgt |-> CHOOSE t \in Target : TRUE,
                 dec |-> "approve", ref |-> 0]

ReviewInit == rv = [r \in Reviewer |-> IdleReviewer]

\* _DECISION_TRANSITIONS
DecisionTransition(d) ==
    CASE d \in APPROVAL_DECISIONS -> "approved"
      [] d = "reject" -> "not_target"
      [] d = "reject_and_suppress" -> "suppressed"
      [] d = "escalate" -> "researched"

At(r, pc) == rv[r].pc = pc

Goto(r, pc) == rv' = [rv EXCEPT ![r].pc = pc]

\* The function returns: the locals are gone.
Return(r) == rv' = [rv EXCEPT ![r] = IdleReviewer]

\* Every refusal returns without touching a row.
Refuse(r) == Return(r) /\ UNCHANGED dbVars

-----------------------------------------------------------------------------
Submit(r, t, d) ==
    /\ At(r, "idle")
    /\ SerialReviews => \A q \in Reviewer : At(q, "idle")
    /\ Len(reviews[t]) < MaxReviews
    /\ d = "approve_with_edits" => Len(revisions[t]) < MaxRevisions
    /\ rv' = [rv EXCEPT ![r] = [pc |-> "state", tgt |-> t, dec |-> d, ref |-> 0]]
    /\ UNCHANGED dbVars

\* Faulty variant: the decision is accepted in whatever state the target is.
CheckStateBlind(r) ==
    /\ At(r, "state")
    /\ Goto(r, "switch") /\ UNCHANGED dbVars

\* Check 2: only a target in awaiting_review may be decided.
CheckState(r) ==
    /\ At(r, "state")
    /\ IF tstate[rv[r].tgt] = "awaiting_review"
       THEN Goto(r, "switch") /\ UNCHANGED dbVars
       ELSE Refuse(r)

\* Check 3: an engaged switch refuses the two decisions that lead to a send.
CheckSwitch(r) ==
    /\ At(r, "switch")
    /\ IF Engaged /\ rv[r].dec \in APPROVAL_DECISIONS
       THEN Refuse(r)
       ELSE Goto(r, "latest") /\ UNCHANGED dbVars

\* Faulty variant: the reverse write order, transition before decision row.
ReadLatestMovesFirst(r) ==
    /\ At(r, "latest")
    /\ \E i \in DOMAIN revisions[rv[r].tgt] :
           /\ IsLatestRevision(rv[r].tgt, i)
           /\ rv' = [rv EXCEPT ![r].pc = "move", ![r].ref = i]
    /\ UNCHANGED dbVars

\* Faulty variant: the revision written last, whatever its number.
ReadLatestWritten(r) ==
    /\ At(r, "latest")
    /\ LET t == rv[r].tgt
           d == rv[r].dec
           after == CASE d = "approve_with_edits" -> "edit"
                      [] d = "reject_and_suppress" -> "listed"
                      [] OTHER -> "decide"
       IN  /\ revisions[t] # <<>>
           /\ rv' = [rv EXCEPT ![r].pc = after, ![r].ref = Len(revisions[t])]
    /\ UNCHANGED dbVars

\* Check 4: the latest revision, then the branch for the decision's extra
\* effect.  An edit with a blank subject or body, and a suppression of a
\* contact without an address, are refused.
ReadLatest(r) ==
    /\ At(r, "latest")
    /\ LET t == rv[r].tgt
           d == rv[r].dec
           after == CASE d = "approve_with_edits" -> "edit"
                      [] d = "reject_and_suppress" -> "listed"
                      [] OTHER -> "decide"
       IN  \/ /\ ~(d = "reject_and_suppress" /\ profile[t] = "no_contact")
              /\ \E i \in DOMAIN revisions[t] :
                     /\ IsLatestRevision(t, i)
                     /\ rv' = [rv EXCEPT ![r].pc = after, ![r].ref = i]
              /\ UNCHANGED dbVars
           \/ /\ \/ revisions[t] = <<>>
                 \/ d = "reject_and_suppress" /\ profile[t] = "no_contact"
                 \/ d = "approve_with_edits"
              /\ Refuse(r)

\* approve_with_edits: a new revision numbered one above the latest read,
\* with both gate columns NULL.
InsertEdit(r) ==
    /\ At(r, "edit")
    /\ LET t == rv[r].tgt
           base == revisions[t][rv[r].ref]
       IN  /\ revisions' = [revisions EXCEPT
                  ![t] = Append(@, [num |-> base.num + 1, passed |-> FALSE])]
           /\ rv' = [rv EXCEPT ![r].pc = "gate", ![r].ref = Len(revisions[t]) + 1]
    /\ UNCHANGED <<tstate, transitions, reviews, emailSupp, domainSupp, killFile,
                   profile, gateLog, outbox, messages>>

\* run_draft_gate(): the verdict depends on the text; an exception leaves the
\* columns NULL and the decision goes on.
RunDraftGate(r) ==
    /\ At(r, "gate")
    /\ \E b \in BOOLEAN :
           revisions' = [revisions EXCEPT ![rv[r].tgt][rv[r].ref].passed = b]
    /\ Goto(r, "decide")
    /\ UNCHANGED <<tstate, transitions, reviews, emailSupp, domainSupp, killFile,
                   profile, gateLog, outbox, messages>>

\* reject_and_suppress: the idempotency read.
CheckListed(r) ==
    /\ At(r, "listed")
    /\ Goto(r, IF rv[r].tgt \in emailSupp THEN "decide" ELSE "suppress")
    /\ UNCHANGED dbVars

\* The INSERT fails on the UNIQUE column when the address has been listed in
\* the meantime; the request ends in that exception (see CutReview).
InsertSuppression(r) ==
    /\ At(r, "suppress")
    /\ rv[r].tgt \notin emailSupp
    /\ emailSupp' = emailSupp \cup {rv[r].tgt}
    /\ Goto(r, "decide")
    /\ UNCHANGED <<tstate, transitions, revisions, reviews, domainSupp, killFile,
                   profile, gateLog, outbox, messages>>

\* Faulty variant: the row stores the state the decision leads to.
InsertReviewOutcome(r) ==
    /\ At(r, "decide")
    /\ reviews' = [reviews EXCEPT ![rv[r].tgt] =
           Append(@, [decision |-> DecisionTransition(rv[r].dec), revision |-> rv[r].ref])]
    /\ Goto(r, "move")
    /\ UNCHANGED <<tstate, transitions, revisions, emailSupp, domainSupp, killFile,
                   profile, gateLog, outbox, messages>>

InsertReview(r) ==
    /\ At(r, "decide")
    /\ reviews' = [reviews EXCEPT ![rv[r].tgt] =
           Append(@, [decision |-> rv[r].dec, revision |-> rv[r].ref])]
    /\ Goto(r, "move")
    /\ UNCHANGED <<tstate, transitions, revisions, emailSupp, domainSupp, killFile,
                   profile, gateLog, outbox, messages>>

MoveDecided(r) ==
    /\ At(r, "move")
    /\ UpdateState(rv[r].tgt, "awaiting_review", DecisionTransition(rv[r].dec))
    /\ Goto(r, "audit")
    /\ UNCHANGED <<transitions, revisions, reviews, emailSupp, domainSupp, killFile,
                   profile, gateLog, outbox, messages>>

AuditDecided(r) ==
    /\ At(r, "audit")
    /\ InsertTransition(rv[r].tgt, "awaiting_review", DecisionTransition(rv[r].dec))
    /\ Return(r)
    /\ UNCHANGED <<tstate, revisions, reviews, emailSupp, domainSupp, killFile,
                   profile, gateLog, outbox, messages>>

\* The process dies, or a commit raises and the request ends in a 500: what
\* was committed stays, the locals are gone.
CutReview(r) ==
    /\ ~At(r, "idle")
    /\ Refuse(r)

ReviewStep(r) ==
    \/ \E t \in Target, d \in Decision : Submit(r, t, d)
    \/ CheckState(r) \/ CheckSwitch(r) \/ ReadLatest(r)
    \/ InsertEdit(r) \/ RunDraftGate(r)
    \/ CheckListed(r) \/ InsertSuppression(r)
    \/ InsertReview(r) \/ MoveDecided(r) \/ AuditDecided(r)
    \/ CutReview(r)

ReviewNext == \E r \in Reviewer : ReviewStep(r)
=============================================================================
