----------------------- MODULE ConversationInvariants -----------------------
(***************************************************************************)
(* The inductive invariants behind the properties of Conversation.         *)
(* ListInv is for any processes side by side: review and reply router      *)
(* write the list before the state, and the row of a reply, once its       *)
(* verdict is recorded, is never written again.  RowTypes has the other    *)
(* types and CapHolds counts follow-ups, again for any processes;          *)
(* ListHolds and ApprovalInv are for stages that take turns, TextsInv for  *)
(* sends that do so too, TrailInv for one process of each kind.            *)
(***************************************************************************)
EXTENDS Conversation

\* The types the argument needs; an edit starts from a revision that exists.
ListTypes ==
    /\ tstate \in [Target -> State]
    /\ revisions \in [Target -> Seq(Revision)]
    /\ ConversationTypeOK /\ IsFiniteSet(inbox)
    /\ ReviewTypeOK /\ DraftingTypeOK /\ ReplyingTypeOK
    /\ \A r \in Reviewer : rv[r].pc = "edit" => rv[r].ref \in DOMAIN revisions[rv[r].tgt]

\* The contact is listed, or it was another address that unsubscribed.
Listed(t) ==
    \/ t \in emailSupp
    \/ \E i \in DOMAIN replies[t] :
           replies[t][i] = [action |-> "auto_suppress", own |-> FALSE]

\* A decision to suppress that is past its suppression has listed the contact.
ReviewLists ==
    \A r \in Reviewer :
        /\ rv[r].pc \in {"edit", "gate"} => rv[r].dec = "approve_with_edits"
        /\ rv[r].pc \in {"decide", "move", "audit"}
           /\ rv[r].dec = "reject_and_suppress" => rv[r].tgt \in emailSupp

\* A reply is open until its verdict is recorded, and settled from then on.
OpenPC == {"enter", "model", "route", "verdict"}
SettledPC == {"routed", "routedaudit", "listed", "unsubscribe"}

\* The row at hand is there; it has no action while it is open, and the action
\* decided once it is settled.
RowAtHand ==
    \A p \in Replier :
        /\ rp[p].pc \in OpenPC \cup SettledPC =>
               rp[p].row \in DOMAIN replies[rp[p].tgt]
        /\ rp[p].pc \in OpenPC => replies[rp[p].tgt][rp[p].row].action = "none"
        /\ rp[p].pc \in {"route", "verdict"} \cup SettledPC => rp[p].action # "none"
        /\ rp[p].pc \in SettledPC =>
               replies[rp[p].tgt][rp[p].row].action = rp[p].action
        /\ rp[p].pc \in {"listed", "unsubscribe"} => rp[p].action = "auto_suppress"

\* The router moves to suppressed only a target that is listed.
ReplyLists ==
    \A p \in Replier : rp[p].pc \in {"supp", "suppaudit"} => Listed(rp[p].tgt)

\* The rows a replier has created and not yet taken up are open.
QueueIsOpen ==
    \A p \in Replier : \A k \in DOMAIN rp[p].queue :
        LET q == rp[p].queue[k]
        IN  q[2] \in DOMAIN replies[q[1]] /\ replies[q[1]][q[2]].action = "none"

\* Replier p will record the verdict of row x.
Holds(p, x) ==
    \/ \E k \in DOMAIN rp[p].queue : rp[p].queue[k] = x
    \/ rp[p].pc \in OpenPC /\ x = <<rp[p].tgt, rp[p].row>>

\* One replier records the verdict of a row, and does it once.
RowsAreOwned ==
    /\ \A p, q \in Replier : \A x \in Target \X Nat :
           Holds(p, x) /\ Holds(q, x) => p = q
    /\ \A p \in Replier : \A j, k \in DOMAIN rp[p].queue :
           rp[p].queue[j] = rp[p].queue[k] => j = k
    /\ \A p \in Replier : rp[p].pc \in OpenPC =>
           \A k \in DOMAIN rp[p].queue : rp[p].queue[k] # <<rp[p].tgt, rp[p].row>>

ListInv ==
    /\ ListTypes
    /\ SuppressedIsListed
    /\ ReviewLists
    /\ RowAtHand
    /\ ReplyLists
    /\ QueueIsOpen
    /\ RowsAreOwned

-----------------------------------------------------------------------------
\* The rest of the types.  A send that goes by a review has found its row.
ReviewSeen(l) == \/ l.pc \in {"revision", "newest", "reread"}
                 \/ l.pc = "record" /\ l.clean

RowTypes ==
    /\ DBTypeOK /\ SendingTypeOK
    /\ \A s \in Sender : ReviewSeen(sd[s]) => reviews[sd[s].tgt] # <<>>

\* A follow-up run past the cap check holds a place until its row, which is what
\* the next check counts, is written; rows and places together stay in the cap.
OneDrafter == \A d, e \in Drafter : d = e

BeforeRow(l) == \/ l.pc \in {"enter", "hop", "hopaudit"}
                \/ l.pc = "round" /\ l.round = 0

HoldsPlace(l, t) == BeforeRow(l) /\ l.from = "routed" /\ l.tgt = t

Places(t) == {d \in Drafter : HoldsPlace(dr[d], t)}

CapHolds == \A t \in Target : FollowUps(t) + Cardinality(Places(t)) <= FollowUpCap

-----------------------------------------------------------------------------
\* At most one stage is at work.
Turns ==
    /\ NoReview \/ (NoSend /\ NoDraft /\ NoReply)
    /\ NoSend \/ (NoDraft /\ NoReply)
    /\ NoDraft \/ NoReply

\* A send that has passed the look-up of the address: it is not listed still.
PastListCheck(l) ==
    \/ l.pc \in {"domain", "review", "revision", "newest", "record"} /\ l.clean
    \/ l.pc \in {"reread", "file", "message"}

ListHolds == \A s \in Sender : PastListCheck(sd[s]) => sd[s].tgt \notin emailSupp

-----------------------------------------------------------------------------
OneReview == \A r, q \in Reviewer : At(r, "idle") \/ At(q, "idle") \/ r = q

\* A decision past its state check keeps its target under review until it moves
\* it, and the revision it will name is the latest all the while.
DecisionHolds ==
    \A r \in Reviewer :
        /\ rv[r].pc \notin {"idle", "state", "audit"} =>
               tstate[rv[r].tgt] = "awaiting_review"
        /\ rv[r].pc \in {"edit", "gate", "listed", "suppress", "decide", "move"} =>
               /\ rv[r].ref \in DOMAIN revisions[rv[r].tgt]
               /\ IsLatestRevision(rv[r].tgt, rv[r].ref)
        /\ At(r, "move") =>
               /\ reviews[rv[r].tgt] # <<>>
               /\ LatestReview(rv[r].tgt) = [decision |-> rv[r].dec, revision |-> rv[r].ref]

\* No draft run is at work on an approved target.
DraftsKeepOff ==
    \A d \in Drafter : dr[d].pc \notin {"idle", "next"} => tstate[dr[d].tgt] # "approved"

ApprovalInv ==
    Turns /\ OneReview /\ DecisionHolds /\ DraftsKeepOff /\ ApprovalNamesLatest

-----------------------------------------------------------------------------
OneSend == \A s, q \in Sender : SendAt(s, "idle") \/ SendAt(q, "idle") \/ s = q

\* A send finds its target as its gate has read it, and composes the text that
\* the target is approved for.
SendReads(l) ==
    /\ l.pc \in {"switch", "email", "domain", "review"} => tstate[l.tgt] = l.st
    /\ ReviewSeen(l) \/ l.pc \in {"file", "message"} => tstate[l.tgt] = "approved"
    /\ l.pc \in {"file", "message"} => Offered[l.tgt] = {l.text}

\* A draft run starts on a target that was sent nothing or on one in routed, and
\* once its row is written each text sent was followed by a follow-up.
AfterRow(l) == \/ l.pc \in {"persist", "finish"}
               \/ l.pc = "round" /\ l.round > 0

DraftOwes(l) ==
    /\ l.pc \in {"idle", "next", "reply", "cap", "enter"} => l.round = 0
    /\ l.pc \in {"reply", "cap"} => l.from = "routed"
    /\ BeforeRow(l) => l.from = "routed" \/ Sent[l.tgt] = {}
    /\ AfterRow(l) => Cardinality(Sent[l.tgt]) <= Begun[l.tgt]

\* The texts of a contact, the one on offer included, are one more than the
\* follow-ups at most, and no more than these while the target is under review.
TextsCount ==
    \A t \in Target :
        /\ IsFiniteSet(Sent[t])
        /\ Cardinality(Sent[t] \cup Offered[t]) <= Begun[t] + 1

ReviewCount ==
    \A t \in Target :
        /\ tstate[t] = "scored" => Sent[t] = {}
        /\ tstate[t] = "awaiting_review" => Cardinality(Sent[t]) <= Begun[t]

TextsInv ==
    /\ OneSend /\ TextsCount /\ ReviewCount
    /\ \A s \in Sender : SendReads(sd[s])
    /\ \A d \in Drafter : DraftOwes(dr[d])

-----------------------------------------------------------------------------
OneReplier == \A p, q \in Replier : p = q

\* What a process takes the state of its target to be, it is: until a move, the
\* state it has read or brought the target to, and after it the state of its row.
ReviewKnows(l) == \A row \in ReviewDue(l) : tstate[l.tgt] = row.to

SendKnows(l) ==
    /\ l.pc = "move" => tstate[l.tgt] = "approved"
    /\ l.pc = "failmove" => tstate[l.tgt] = l.st
    /\ \A row \in SendDue(l) : tstate[l.tgt] = row.to

DraftKnows(l) ==
    /\ l.pc \in {"reply", "cap", "enter", "hop", "failmove"} => tstate[l.tgt] = l.from
    /\ l.pc = "round" => tstate[l.tgt] = IF l.round = 0 THEN l.from ELSE "drafted"
    /\ l.pc \in {"persist", "finish"} => tstate[l.tgt] = "drafted"
    /\ \A row \in DraftDue(l) : tstate[l.tgt] = row.to

ReplyKnows(l) ==
    /\ l.pc = "link" => tstate[l.tgt] = "dry_run_sent"
    /\ l.pc \in {"verdict", "listed", "unsubscribe", "supp", "failmove"} => tstate[l.tgt] = l.st
    /\ l.pc = "routed" => tstate[l.tgt] = "replied"
    /\ \A row \in ReplyDue(l) : tstate[l.tgt] = row.to

TrailInv ==
    /\ \A r \in Reviewer : ReviewKnows(rv[r])
    /\ \A s \in Sender : SendKnows(sd[s])
    /\ \A d \in Drafter : DraftKnows(dr[d])
    /\ \A p \in Replier : ReplyKnows(rp[p])
=============================================================================
