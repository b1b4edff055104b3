------------------------------ MODULE Replying ------------------------------
(***************************************************************************)
(* reply_cli (and the taskmaster's reply tool): fetch_inbox() inserts a    *)
(* row for every file of the inbox that answers a known message, and then  *)
(* each new row is classified and routed.  The classifier is outside: its  *)
(* verdict is a choice.                                                    *)
(***************************************************************************)
EXTENDS ConversationDB

CONSTANTS
    Replier,    \* processes running a reply batch
    MaxReplies  \* bound on the reply rows of a target a new batch may see

ASSUME ReplyingAssumption == MaxReplies \in Nat

VARIABLE rp  \* what each replier is doing

\* "fetch" .. "linkaudit" are fetch_inbox(); "next" is the head of the second
\* loop; "enter" .. "suppaudit" classify and route one reply; the rest is the
\* handler that marks the target failed.
ReplyPC == {"idle", "fetch", "linked", "link", "linkaudit", "next", "enter", "model",
            "route", "verdict", "routed", "routedaudit", "listed", "unsubscribe",
            "supp", "suppaudit", "died", "failmove", "failaudit"}

\* files: still to fetch.  queue: rows created, still to classify, in that
\* order.  tgt and row: the reply at hand.  st: targets.state as last known.
\* action: the routed_action decided.  caught: as in Drafting.
ReplierLocal == [pc : ReplyPC, files : SUBSET InboxFile,
                 queue : Seq(Target \X Nat), tgt : Target, row : Nat,
                 st : State, action : RoutedAction, caught : BOOLEAN]

ReplyingTypeOK == rp \in [Replier -> ReplierLocal]

IdleReplier == [pc |-> "idle", files |-> {}, queue |-> <<>>,
                tgt |-> CHOOSE t \in Target : TRUE, row |-> 0, st |-> "new",
                action |-> "none", caught |-> FALSE]

ReplyingInit == rp = [p \in Replier |-> IdleReplier]

ReplyAt(p, pc) == rp[p].pc = pc

ReplyGoto(p, pc) == rp' = [rp EXCEPT ![p].pc = pc]

\* Back to the head of the second loop with the rows still to classify.
NextReply(p) ==
    rp' = [rp EXCEPT ![p] = [IdleReplier EXCEPT !.pc = "next", !.queue = rp[p].queue]]

Terminal == {"suppressed", "not_target", "failed"}

-----------------------------------------------------------------------------
\* The directory is listed once.
StartReplies(p) ==
    /\ ReplyAt(p, "idle")
    /\ inbox # {}
    /\ \A t \in Target : Len(replies[t]) < MaxReplies
    /\ rp' = [rp EXCEPT ![p].pc = "fetch", ![p].files = inbox]
    /\ UNCHANGED convVars

\* A file that matches no message is skipped; any other gets its row.
FetchFile(p) ==
    /\ ReplyAt(p, "fetch")
    /\ \E f \in rp[p].files :
           LET t == f.target
           IN  \/ /\ \E m \in messages : m.target = t
                  /\ replies' = [replies EXCEPT
                         ![t] = Append(@, [action |-> "none", own |-> f.own])]
                  /\ rp' = [rp EXCEPT ![p].pc = "linked", ![p].files = @ \ {f},
                                      ![p].tgt = t,
                                      ![p].queue = Append(@, <<t, Len(replies[t]) + 1>>)]
               \/ /\ ~\E m \in messages : m.target = t
                  /\ rp' = [rp EXCEPT ![p].files = @ \ {f}]
                  /\ UNCHANGED replies
    /\ UNCHANGED <<dbVars, inbox>>

EndFetch(p) ==
    /\ ReplyAt(p, "fetch")
    /\ rp[p].files = {}
    /\ ReplyGoto(p, "next")
    /\ UNCHANGED convVars

\* Only a target in dry_run_sent moves.
ReadLinked(p) ==
    /\ ReplyAt(p, "linked")
    /\ ReplyGoto(p, IF tstate[rp[p].tgt] = "dry_run_sent" THEN "link" ELSE "fetch")
    /\ UNCHANGED convVars

MoveReplied(p) ==
    /\ ReplyAt(p, "link")
    /\ UpdateState(rp[p].tgt, "dry_run_sent", "replied")
    /\ ReplyGoto(p, "linkaudit")
    /\ UNCHANGED <<transitions, revisions, reviews, emailSupp, domainSupp, killFile,
                   profile, gateLog, outbox, messages, replies, inbox>>

AuditReplied(p) ==
    /\ ReplyAt(p, "linkaudit")
    /\ InsertTransition(rp[p].tgt, "dry_run_sent", "replied")
    /\ ReplyGoto(p, "fetch")
    /\ UNCHANGED <<tstate, revisions, reviews, emailSupp, domainSupp, killFile,
                   profile, gateLog, outbox, messages, replies, inbox>>

-----------------------------------------------------------------------------
PickReply(p) ==
    /\ ReplyAt(p, "next")
    /\ rp[p].queue # <<>>
    /\ LET q == Head(rp[p].queue)
       IN  rp' = [rp EXCEPT ![p] = [IdleReplier EXCEPT
                      !.pc = "enter", !.queue = Tail(rp[p].queue),
                      !.tgt = q[1], !.row = q[2]]]
    /\ UNCHANGED convVars

EndReplies(p) ==
    /\ ReplyAt(p, "next")
    /\ rp[p].queue = <<>>
    /\ rp' = [rp EXCEPT ![p] = IdleReplier]
    /\ UNCHANGED convVars

\* The guardrail at the entry of the pipeline: a halted reply stays
\* unclassified.
EnterPipeline(p) ==
    /\ ReplyAt(p, "enter")
    /\ IF Engaged THEN NextReply(p) ELSE ReplyGoto(p, "model")
    /\ UNCHANGED convVars

\* Faulty variant: an answer that does not validate is asked for again.
ClassifyRetries(p) ==
    /\ ReplyAt(p, "model")
    /\ \/ \E a \in RoutedAction \ {"none"} :
              rp' = [rp EXCEPT ![p].pc = "route", ![p].action = a]
       \/ ReplyGoto(p, "enter")
    /\ UNCHANGED convVars

\* The classifier has answered, and decide_route() has mapped its answer; an
\* answer that does not validate leaves the reply unclassified.
Classify(p) ==
    /\ ReplyAt(p, "model")
    /\ \/ \E a \in RoutedAction \ {"none"} :
              rp' = [rp EXCEPT ![p].pc = "route", ![p].action = a]
       \/ NextReply(p)
    /\ UNCHANGED convVars

ReadRoute(p) ==
    /\ ReplyAt(p, "route")
    /\ rp' = [rp EXCEPT ![p].pc = "verdict", ![p].st = tstate[rp[p].tgt]]
    /\ UNCHANGED convVars

\* Only an unsubscribe has an effect of its own once the target is routed.
AfterRouting(p) == IF rp[p].action = "auto_suppress" THEN "listed" ELSE "next"

RecordVerdict(p) ==
    /\ ReplyAt(p, "verdict")
    /\ replies' = [replies EXCEPT ![rp[p].tgt][rp[p].row].action = rp[p].action]
    /\ ReplyGoto(p, CASE rp[p].st = "replied" -> "routed"
                      [] rp[p].st \in Terminal -> "next"
                      [] OTHER -> AfterRouting(p))
    /\ UNCHANGED <<dbVars, inbox>>

MoveRouted(p) ==
    /\ ReplyAt(p, "routed")
    /\ UpdateState(rp[p].tgt, "replied", "routed")
    /\ ReplyGoto(p, "routedaudit")
    /\ UNCHANGED <<transitions, revisions, reviews, emailSupp, domainSupp, killFile,
                   profile, gateLog, outbox, messages, replies, inbox>>

AuditRouted(p) ==
    /\ ReplyAt(p, "routedaudit")
    /\ InsertTransition(rp[p].tgt, "replied", "routed")
    /\ rp' = [rp EXCEPT ![p].pc = AfterRouting(p), ![p].st = "routed"]
    /\ UNCHANGED <<tstate, revisions, reviews, emailSupp, domainSupp, killFile,
                   profile, gateLog, outbox, messages, replies, inbox>>

\* What is listed is the sender of the reply, who need not be the contact: a
\* file is matched by the message it answers before its sender is looked at.
SenderIsContact(p) == replies[rp[p].tgt][rp[p].row].own

\* Faulty variant: the target is moved before the address is listed.
CheckReplyListedMovesFirst(p) ==
    /\ ReplyAt(p, "listed")
    /\ ReplyGoto(p, "supp")
    /\ UNCHANGED convVars

CheckReplyListed(p) ==
    /\ ReplyAt(p, "listed")
    /\ \/ /\ SenderIsContact(p) => rp[p].tgt \in emailSupp
          /\ ReplyGoto(p, "supp")
       \/ /\ SenderIsContact(p) => rp[p].tgt \notin emailSupp
          /\ ReplyGoto(p, "unsubscribe")
    /\ UNCHANGED convVars

InsertUnsubscribe(p) ==
    /\ ReplyAt(p, "unsubscribe")
    /\ SenderIsContact(p) => rp[p].tgt \notin emailSupp
    /\ emailSupp' = emailSupp \cup IF SenderIsContact(p) THEN {rp[p].tgt} ELSE {}
    /\ ReplyGoto(p, "supp")
    /\ UNCHANGED <<tstate, transitions, revisions, reviews, domainSupp, killFile,
                   profile, gateLog, outbox, messages, replies, inbox>>

MoveSuppressed(p) ==
    /\ ReplyAt(p, "supp")
    /\ UpdateState(rp[p].tgt, rp[p].st, "suppressed")
    /\ ReplyGoto(p, "suppaudit")
    /\ UNCHANGED <<transitions, revisions, reviews, emailSupp, domainSupp, killFile,
                   profile, gateLog, outbox, messages, replies, inbox>>

AuditSuppressed(p) ==
    /\ ReplyAt(p, "suppaudit")
    /\ InsertTransition(rp[p].tgt, rp[p].st, "suppressed")
    /\ NextReply(p)
    /\ UNCHANGED <<tstate, revisions, reviews, emailSupp, domainSupp, killFile,
                   profile, gateLog, outbox, messages, replies, inbox>>

-----------------------------------------------------------------------------
\* An exception anywhere in the pipeline, or a timeout.
RaiseInReply(p) ==
    /\ rp[p].pc \in {"enter", "model", "route", "verdict", "routed", "routedaudit",
                     "listed", "unsubscribe", "supp", "suppaudit"}
    /\ \E b \in BOOLEAN : rp' = [rp EXCEPT ![p].pc = "died", ![p].caught = b]
    /\ UNCHANGED convVars

\* Faulty variant: the handler goes by the state the router has read.
ReadReplyDiedStale(p) ==
    /\ ReplyAt(p, "died")
    /\ ReplyGoto(p, "failmove")
    /\ UNCHANGED convVars

ReadReplyDied(p) ==
    /\ ReplyAt(p, "died")
    /\ rp' = [rp EXCEPT ![p].pc = "failmove", ![p].st = tstate[rp[p].tgt]]
    /\ UNCHANGED convVars

MoveReplyFailed(p) ==
    /\ ReplyAt(p, "failmove")
    /\ UpdateState(rp[p].tgt, rp[p].st, "failed")
    /\ ReplyGoto(p, "failaudit")
    /\ UNCHANGED <<transitions, revisions, reviews, emailSupp, domainSupp, killFile,
                   profile, gateLog, outbox, messages, replies, inbox>>

AuditReplyFailed(p) ==
    /\ ReplyAt(p, "failaudit")
    /\ InsertTransition(rp[p].tgt, rp[p].st, "failed")
    /\ NextReply(p)
    /\ UNCHANGED <<tstate, revisions, reviews, emailSupp, domainSupp, killFile,
                   profile, gateLog, outbox, messages, replies, inbox>>

\* As in RaiseInDraftHandler: the timeout's handler is inside the run.
RaiseInReplyHandler(p) ==
    /\ rp[p].pc \in {"died", "failmove", "failaudit"}
    /\ IF rp[p].caught
       THEN NextReply(p)
       ELSE rp' = [rp EXCEPT ![p].pc = "died", ![p].caught = TRUE]
    /\ UNCHANGED convVars

\* The process is killed, or fetch_inbox() raises: no handler surrounds it.
CutReplies(p) ==
    /\ ~ReplyAt(p, "idle")
    /\ rp' = [rp EXCEPT ![p] = IdleReplier]
    /\ UNCHANGED convVars

ReplyStep(p) ==
    \/ StartReplies(p) \/ FetchFile(p) \/ EndFetch(p)
    \/ ReadLinked(p) \/ MoveReplied(p) \/ AuditReplied(p)
    \/ PickReply(p) \/ EndReplies(p) \/ EnterPipeline(p) \/ Classify(p)
    \/ ReadRoute(p) \/ RecordVerdict(p) \/ MoveRouted(p) \/ AuditRouted(p)
    \/ CheckReplyListed(p) \/ InsertUnsubscribe(p) \/ MoveSuppressed(p) \/ AuditSuppressed(p)
    \/ RaiseInReply(p) \/ ReadReplyDied(p) \/ MoveReplyFailed(p) \/ AuditReplyFailed(p)
    \/ RaiseInReplyHandler(p) \/ CutReplies(p)

ReplyingNext == \E p \in Replier : ReplyStep(p)
=============================================================================
