---------------------------- MODULE Conversation ----------------------------
(***************************************************************************)
(* The whole cycle of a target that has been scored: draft, review, send,  *)
(* reply, and the follow-up draft a positive reply queues.  The stages     *)
(* are the modules of their own; with OneStage they take turns, as when a  *)
(* single operator runs one command after the other.                       *)
(***************************************************************************)
EXTENDS Review, Sending, Drafting, Replying

CONSTANTS
    OneStage,  \* TRUE: a process starts only when no other is running
    Switching, \* TRUE: an operator may flip the kill switch at any time
    MaxFiles   \* bound on the replies that arrive for a target

ASSUME ConversationAssumption ==
    OneStage \in BOOLEAN /\ Switching \in BOOLEAN /\ MaxFiles \in Nat

vars == <<convVars, rv, sd, dr, rp>>

-----------------------------------------------------------------------------
NoReview == \A r \in Reviewer : At(r, "idle")
NoSend == \A s \in Sender : SendAt(s, "idle")
NoDraft == \A d \in Drafter : DraftAt(d, "idle")
NoReply == \A p \in Replier : ReplyAt(p, "idle")

\* The contact, or a colleague the message was forwarded to, answers: a file
\* appears in the inbox directory.
Arrive(t) ==
    /\ \E m \in messages : m.target = t
    /\ LET n == Cardinality({f \in inbox : f.target = t})
       IN  /\ n < MaxFiles
           /\ \E b \in BOOLEAN :
                  inbox' = inbox \cup {[target |-> t, no |-> n + 1, own |-> b]}
    /\ UNCHANGED <<dbVars, replies, rv, sd, dr, rp>>

\* write_kill_switch()
FlipSwitch ==
    /\ Switching
    /\ killFile' = IF Engaged THEN "off" ELSE "on"
    /\ UNCHANGED <<tstate, transitions, revisions, reviews, emailSupp, domainSupp,
                   profile, gateLog, outbox, messages, replies, inbox, rv, sd, dr, rp>>

\* Phase 1 has scored the target and recorded its policy decision.
Init ==
    /\ tstate = [t \in Target |-> "scored"]
    /\ revisions = [t \in Target |-> <<>>]
    /\ transitions = [t \in Target |-> <<>>]
    /\ reviews = [t \in Target |-> <<>>]
    /\ replies = [t \in Target |-> <<>>]
    /\ emailSupp = {} /\ domainSupp = {}
    /\ killFile = "off"
    /\ profile \in [Target -> Profiles]
    /\ gateLog = <<>> /\ outbox = {} /\ messages = {} /\ inbox = {}
    /\ ReviewInit /\ SendingInit /\ DraftingInit /\ ReplyingInit

\* One step of a process; with OneStage, only while the other stages rest.
ReviewTurn(r) ==
    /\ ReviewStep(r) /\ UNCHANGED <<replies, inbox, sd, dr, rp>>
    /\ OneStage => NoSend /\ NoDraft /\ NoReply
SendTurn(s) ==
    /\ SendStep(s) /\ UNCHANGED <<replies, inbox, rv, dr, rp>>
    /\ OneStage => NoReview /\ NoDraft /\ NoReply
DraftTurn(d) ==
    /\ DraftStep(d) /\ UNCHANGED <<rv, sd, rp>>
    /\ OneStage => NoReview /\ NoSend /\ NoReply
ReplyTurn(p) ==
    /\ ReplyStep(p) /\ UNCHANGED <<rv, sd, dr>>
    /\ OneStage => NoReview /\ NoSend /\ NoDraft

Next ==
    \/ \E r \in Reviewer : ReviewTurn(r)
    \/ \E s \in Sender : SendTurn(s)
    \/ \E d \in Drafter : DraftTurn(d)
    \/ \E p \in Replier : ReplyTurn(p)
    \/ \E t \in Target : Arrive(t)
    \/ FlipSwitch

Spec == Init /\ [][Next]_vars

\* A process that has started goes on: no step waits for another process, and
\* every model call ends, with an answer, an exception or the timeout.
FairSpec ==
    /\ Spec
    /\ \A s \in Sender : WF_vars(~SendAt(s, "idle") /\ SendTurn(s))
    /\ \A d \in Drafter : WF_vars(~DraftAt(d, "idle") /\ DraftTurn(d))
    /\ \A p \in Replier : WF_vars(~ReplyAt(p, "idle") /\ ReplyTurn(p))

-----------------------------------------------------------------------------
\* Rows, files and the locals of every process have their types.
TypeOK == /\ DBTypeOK /\ ConversationTypeOK
          /\ ReviewTypeOK /\ SendingTypeOK /\ DraftingTypeOK /\ ReplyingTypeOK

\* A thread gets at most MaxFollowUps follow-up drafts, and one more for each
\* drafter that may read the count before another has added to it: the bound is
\* kept by counting audit rows that are written after the move they record.
FollowUpCap == MaxFollowUps + Cardinality(Drafter) - 1

FollowUpsCapped == \A t \in Target : FollowUps(t) <= FollowUpCap

\* The contact of a suppressed target is listed, the list being written before
\* the state by review and reply router alike, unless it was somebody else who
\* unsubscribed: then the target is suppressed and that other address listed.
SuppressedIsListed ==
    \A t \in Target : tstate[t] = "suppressed" =>
        \/ t \in emailSupp
        \/ \E i \in DOMAIN replies[t] :
               replies[t][i] = [action |-> "auto_suppress", own |-> FALSE]

\* What an approved target was approved for is what the send gate will take
\* for the newest revision, in the first round and in every later one.
ApprovalNamesLatest ==
    \A t \in Target : tstate[t] = "approved" =>
        /\ reviews[t] # <<>>
        /\ LatestReview(t).decision \in APPROVAL_DECISIONS
        /\ IsLatestRevision(t, LatestReview(t).revision)

\* Once an address is listed, by an operator or by an unsubscribe reply, no
\* message is recorded for it.
ListedGetsNoMessage ==
    [][\A m \in messages' \ messages : m.target \notin emailSupp]_vars

\* The whole cycle keeps what Campaign promises a contact: its texts are those
\* the target is approved for at the time, one for the first round and one for
\* each follow-up, however the stages are cut off and retried.
Offered == [t \in Target |-> IF tstate[t] = "approved"
                            THEN {LatestReview(t).revision} ELSE {}]
Sent == [t \in Target |-> {m.revision : m \in {n \in messages : n.target = t}}]
Begun == [t \in Target |-> FollowUps(t)]

C == INSTANCE Campaign WITH
    Cap <- FollowUpCap,
    offer <- Offered, texts <- Sent, followUps <- Begun, listed <- emailSupp

KeepsCampaign == C!Spec

\* The row a process has still to write: it stands between the two commits of a
\* transition.
ReviewDue(l) ==
    IF l.pc = "audit"
    THEN {[from |-> "awaiting_review", to |-> DecisionTransition(l.dec)]} ELSE {}
SendDue(l) ==
    CASE l.pc = "audit" -> {[from |-> "approved", to |-> "dry_run_sent"]}
      [] l.pc = "failaudit" -> {[from |-> l.st, to |-> "failed"]}
      [] OTHER -> {}
DraftDue(l) ==
    CASE l.pc = "hopaudit" -> {[from |-> l.from, to |-> "drafted"]}
      [] l.pc = "finishaudit" -> {[from |-> "drafted", to |-> "awaiting_review"]}
      [] l.pc = "failaudit" -> {[from |-> l.from, to |-> "failed"]}
      [] OTHER -> {}
ReplyDue(l) ==
    CASE l.pc = "linkaudit" -> {[from |-> "dry_run_sent", to |-> "replied"]}
      [] l.pc = "routedaudit" -> {[from |-> "replied", to |-> "routed"]}
      [] l.pc = "suppaudit" -> {[from |-> l.st, to |-> "suppressed"]}
      [] l.pc = "failaudit" -> {[from |-> l.st, to |-> "failed"]}
      [] OTHER -> {}

RowsDue(t) ==
    {row \in TransitionRow :
         \/ \E r \in Reviewer : rv[r].tgt = t /\ row \in ReviewDue(rv[r])
         \/ \E s \in Sender : sd[s].tgt = t /\ row \in SendDue(sd[s])
         \/ \E d \in Drafter : dr[d].tgt = t /\ row \in DraftDue(dr[d])
         \/ \E p \in Replier : rp[p].tgt = t /\ row \in ReplyDue(rp[p])}

\* The trail follows the state, although it is written one commit later: a state
\* changes along the table only, by a process that has the row of that very change
\* still to write, and a row is written while its target is where the row says.
TrailFollowsState ==
    [][\A t \in Target :
           /\ tstate'[t] # tstate[t] =>
                  /\ IsValid(tstate[t], tstate'[t])
                  /\ [from |-> tstate[t], to |-> tstate'[t]] \in RowsDue(t)'
           /\ transitions'[t] # transitions[t] =>
                  LET row == transitions'[t][Len(transitions'[t])]
                  IN  row \in RowsDue(t) /\ row.to = tstate[t]]_vars

\* A draft batch comes to its end, whatever its targets run into: a refusal, a
\* failure and a failure of the failure handler all go on to the next target.
DraftsEnd == \A d \in Drafter : []<>DraftAt(d, "idle")

\* So does a send batch.
SendsEnd == \A s \in Sender : []<>SendAt(s, "idle")

\* So does a reply batch, although files go on arriving while it runs.
RepliesEnd == \A p \in Replier : []<>ReplyAt(p, "idle")

\* The revision under review, and the one the draft gate judges, is the one
\* the latest draft run or edit has written.
FreshDraftIsLatest ==
    \A t \in Target : tstate[t] = "awaiting_review" /\ NoDraft /\ NoReview =>
        IsLatestRevision(t, Len(revisions[t]))

\* A terminal state is never overridden by a later reply: no step that handles
\* a reply other than an unsubscribe, the failure handlers included, takes the
\* target out of one.
TerminalIsFinal ==
    [][\A p \in Replier : rp'[p] # rp[p] /\ rp[p].action # "auto_suppress" =>
           \A t \in Target : tstate[t] \in Terminal => tstate'[t] = tstate[t]]_vars
=============================================================================
