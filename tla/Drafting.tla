------------------------------ MODULE Drafting ------------------------------
(***************************************************************************)
(* draft_cli (and the taskmaster's draft tool): select the targets that    *)
(* are scored, or routed with a positive reply, and run each through the   *)
(* writer/critic loop of run_target_through_draft().  The two agents are   *)
(* outside: each answer they give is a choice.                             *)
(***************************************************************************)
EXTENDS ConversationDB

CONSTANTS
    Drafter,      \* processes running a draft batch
    MaxRounds,    \* DRAFT_MAX_ITERATIONS
    MaxFollowUps  \* MAX_FOLLOW_UP_DRAFTS_PER_THREAD

ASSUME DraftingAssumption ==
    /\ MaxRounds \in Nat \ {0} /\ MaxFollowUps \in Nat
    /\ IsFiniteSet(Drafter) /\ Drafter # {}

VARIABLE dr  \* what each drafter is doing

\* "next" .. "enter" are the preconditions; "round" .. "persist" the loop;
\* "finish" .. "verdict" what follows it; the rest is the crash handler.
DraftPC == {"idle", "next", "reply", "cap", "enter", "round", "hop", "hopaudit",
            "persist", "finish", "finishaudit", "latest", "verdict",
            "died", "failmove", "failaudit"}

\* from: the state read at the start, later the one the handler read.  round:
\* draft_revision of the session.  ref: the revision the gate will judge.
\* caught: the batch's own handler is at work, not that of the timeout.
DrafterLocal == [pc : DraftPC, queue : SUBSET Target, tgt : Target, from : State,
                 round : Nat, ref : Nat, caught : BOOLEAN]

DraftingTypeOK == dr \in [Drafter -> DrafterLocal]

IdleDrafter == [pc |-> "idle", queue |-> {}, tgt |-> CHOOSE t \in Target : TRUE,
                from |-> "new", round |-> 0, ref |-> 0, caught |-> FALSE]

DraftingInit == dr = [d \in Drafter |-> IdleDrafter]

DraftAt(d, pc) == dr[d].pc = pc

DraftGoto(d, pc) == dr' = [dr EXCEPT ![d].pc = pc]

\* Back to the loop head with the rest of the batch.
NextDraft(d) ==
    dr' = [dr EXCEPT ![d] = [IdleDrafter EXCEPT !.pc = "next", !.queue = dr[d].queue]]

\* A refusal changes no row.
RefuseDraft(d) == NextDraft(d) /\ UNCHANGED convVars

Draftable == {t \in Target : \/ tstate[t] = "scored"
                             \/ tstate[t] = "routed" /\ QueuesFollowUp(t)}

-----------------------------------------------------------------------------
SelectDrafts(d) ==
    /\ DraftAt(d, "idle")
    /\ Draftable # {}
    /\ dr' = [dr EXCEPT ![d].pc = "next", ![d].queue = Draftable]
    /\ UNCHANGED convVars

\* Preconditions 1 and 2: the state now, and the policy decision, which is an
\* allow for a fit target and may be anything for another.
ReadDraftTarget(d) ==
    /\ DraftAt(d, "next")
    /\ \E t \in dr[d].queue :
           LET start(pc) == dr' = [dr EXCEPT ![d].pc = pc, ![d].queue = @ \ {t},
                                             ![d].tgt = t, ![d].from = tstate[t]]
           IN  \/ tstate[t] = "scored" /\ start("enter")
               \/ tstate[t] = "routed" /\ start("reply")
               \/ /\ tstate[t] \notin {"scored", "routed"} \/ profile[t] # "fit"
                  /\ dr' = [dr EXCEPT ![d].queue = @ \ {t}]
    /\ UNCHANGED convVars

EndDrafts(d) ==
    /\ DraftAt(d, "next")
    /\ dr[d].queue = {}
    /\ dr' = [dr EXCEPT ![d] = IdleDrafter]
    /\ UNCHANGED convVars

ReadReply(d) ==
    /\ DraftAt(d, "reply")
    /\ IF QueuesFollowUp(dr[d].tgt)
       THEN DraftGoto(d, "cap") /\ UNCHANGED convVars
       ELSE RefuseDraft(d)

\* Faulty variant: one follow-up more than the cap.
CheckCapOffByOne(d) ==
    /\ DraftAt(d, "cap")
    /\ IF FollowUps(dr[d].tgt) <= MaxFollowUps
       THEN DraftGoto(d, "enter") /\ UNCHANGED convVars
       ELSE RefuseDraft(d)

\* Precondition 3: the follow-up cap.
CheckCap(d) ==
    /\ DraftAt(d, "cap")
    /\ IF FollowUps(dr[d].tgt) < MaxFollowUps
       THEN DraftGoto(d, "enter") /\ UNCHANGED convVars
       ELSE RefuseDraft(d)

\* The guardrail at the entry of the loop: a halted loop persists nothing.
EnterLoop(d) ==
    /\ DraftAt(d, "enter")
    /\ IF Engaged
       THEN RefuseDraft(d)
       ELSE DraftGoto(d, "round") /\ UNCHANGED convVars

\* Writer and critic have answered.  Output that does not validate ends the
\* loop: with nothing persisted yet the target stays where it was.
Answer(d) ==
    /\ DraftAt(d, "round")
    /\ \/ DraftGoto(d, IF dr[d].round = 0 THEN "hop" ELSE "persist")
       \/ dr[d].round = 0 /\ NextDraft(d)
       \/ dr[d].round > 0 /\ DraftGoto(d, "finish")
    /\ UNCHANGED convVars

MoveDrafted(d) ==
    /\ DraftAt(d, "hop")
    /\ UpdateState(dr[d].tgt, dr[d].from, "drafted")
    /\ DraftGoto(d, "hopaudit")
    /\ UNCHANGED <<transitions, revisions, reviews, emailSupp, domainSupp, killFile,
                   profile, gateLog, outbox, messages, replies, inbox>>

AuditDrafted(d) ==
    /\ DraftAt(d, "hopaudit")
    /\ InsertTransition(dr[d].tgt, dr[d].from, "drafted")
    /\ DraftGoto(d, "persist")
    /\ UNCHANGED <<tstate, revisions, reviews, emailSupp, domainSupp, killFile,
                   profile, gateLog, outbox, messages, replies, inbox>>

\* The revision is numbered by the round of this run, and its gate columns are
\* NULL.  The critic's verdict or the last round ends the loop.
InsertDraft(d) ==
    /\ DraftAt(d, "persist")
    /\ revisions' = [revisions EXCEPT
           ![dr[d].tgt] = Append(@, [num |-> dr[d].round + 1, passed |-> FALSE])]
    /\ \E pc \in {"round", "finish"} :
           /\ dr[d].round + 1 >= MaxRounds => pc = "finish"
           /\ dr' = [dr EXCEPT ![d].pc = pc, ![d].round = @ + 1]
    /\ UNCHANGED <<tstate, transitions, reviews, emailSupp, domainSupp, killFile,
                   profile, gateLog, outbox, messages, replies, inbox>>

MoveToReview(d) ==
    /\ DraftAt(d, "finish")
    /\ UpdateState(dr[d].tgt, "drafted", "awaiting_review")
    /\ DraftGoto(d, "finishaudit")
    /\ UNCHANGED <<transitions, revisions, reviews, emailSupp, domainSupp, killFile,
                   profile, gateLog, outbox, messages, replies, inbox>>

AuditToReview(d) ==
    /\ DraftAt(d, "finishaudit")
    /\ InsertTransition(dr[d].tgt, "drafted", "awaiting_review")
    /\ DraftGoto(d, "latest")
    /\ UNCHANGED <<tstate, revisions, reviews, emailSupp, domainSupp, killFile,
                   profile, gateLog, outbox, messages, replies, inbox>>

\* The revision to judge is looked up by number.
PickLatest(d) ==
    /\ DraftAt(d, "latest")
    /\ \E i \in DOMAIN revisions[dr[d].tgt] :
           /\ IsLatestRevision(dr[d].tgt, i)
           /\ dr' = [dr EXCEPT ![d].pc = "verdict", ![d].ref = i]
    /\ UNCHANGED convVars

\* run_draft_gate(): a verdict, or an exception that writes nothing.
JudgeDraft(d) ==
    /\ DraftAt(d, "verdict")
    /\ \/ \E b \in BOOLEAN :
              revisions' = [revisions EXCEPT ![dr[d].tgt][dr[d].ref].passed = b]
       \/ UNCHANGED revisions
    /\ NextDraft(d)
    /\ UNCHANGED <<tstate, transitions, reviews, emailSupp, domainSupp, killFile,
                   profile, gateLog, outbox, messages, replies, inbox>>

-----------------------------------------------------------------------------
\* An exception anywhere in the run, or a timeout.
RaiseInDraft(d) ==
    /\ dr[d].pc \notin {"idle", "next", "died", "failmove", "failaudit"}
    /\ \E b \in BOOLEAN : dr' = [dr EXCEPT ![d].pc = "died", ![d].caught = b]
    /\ UNCHANGED convVars

ReadDraftDied(d) ==
    /\ DraftAt(d, "died")
    /\ dr' = [dr EXCEPT ![d].pc = "failmove", ![d].from = tstate[dr[d].tgt]]
    /\ UNCHANGED convVars

MoveDraftFailed(d) ==
    /\ DraftAt(d, "failmove")
    /\ UpdateState(dr[d].tgt, dr[d].from, "failed")
    /\ DraftGoto(d, "failaudit")
    /\ UNCHANGED <<transitions, revisions, reviews, emailSupp, domainSupp, killFile,
                   profile, gateLog, outbox, messages, replies, inbox>>

AuditDraftFailed(d) ==
    /\ DraftAt(d, "failaudit")
    /\ InsertTransition(dr[d].tgt, dr[d].from, "failed")
    /\ NextDraft(d)
    /\ UNCHANGED <<tstate, revisions, reviews, emailSupp, domainSupp, killFile,
                   profile, gateLog, outbox, messages, replies, inbox>>

\* Faulty variant: a handler that raises is run again.
RetryDraftHandler(d) ==
    /\ dr[d].pc \in {"died", "failmove", "failaudit"}
    /\ DraftGoto(d, "died")
    /\ UNCHANGED convVars

\* The handler raises in its turn.  That of the timeout is inside the run, so
\* the batch's handler starts over; that of the batch gives the target up.
RaiseInDraftHandler(d) ==
    /\ dr[d].pc \in {"died", "failmove", "failaudit"}
    /\ IF dr[d].caught
       THEN NextDraft(d)
       ELSE dr' = [dr EXCEPT ![d].pc = "died", ![d].caught = TRUE]
    /\ UNCHANGED convVars

\* The process is killed.
CutDraft(d) ==
    /\ ~DraftAt(d, "idle")
    /\ dr' = [dr EXCEPT ![d] = IdleDrafter]
    /\ UNCHANGED convVars

DraftStep(d) ==
    \/ SelectDrafts(d) \/ ReadDraftTarget(d) \/ EndDrafts(d)
    \/ ReadReply(d) \/ CheckCap(d) \/ EnterLoop(d)
    \/ Answer(d) \/ MoveDrafted(d) \/ AuditDrafted(d) \/ InsertDraft(d)
    \/ MoveToReview(d) \/ AuditToReview(d) \/ PickLatest(d) \/ JudgeDraft(d)
    \/ RaiseInDraft(d) \/ ReadDraftDied(d) \/ MoveDraftFailed(d) \/ AuditDraftFailed(d)
    \/ RaiseInDraftHandler(d) \/ CutDraft(d)

DraftingNext == \E d \in Drafter : DraftStep(d)
=============================================================================
