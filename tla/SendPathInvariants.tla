------------------------- MODULE SendPathInvariants -------------------------
(***************************************************************************)
(* The inductive invariants behind the safety properties of SendPath.      *)
(* Inv holds however many reviewers and senders run side by side.          *)
(***************************************************************************)
EXTENDS SendPath

Pending == {"edit", "gate", "listed", "suppress", "decide", "move", "audit"}

\* What a process remembers of the rows still points at rows: none is ever
\* deleted.
RefsExist ==
    /\ \A t \in Target : \A i \in DOMAIN reviews[t] :
           reviews[t][i].revision \in DOMAIN revisions[t]
    /\ \A r \in Reviewer : rv[r].pc \in Pending =>
           rv[r].ref \in DOMAIN revisions[rv[r].tgt]

\* A decision about to approve a target has its row.
DecidedFirst ==
    \A r \in Reviewer : At(r, "move") /\ rv[r].dec \in APPROVAL_DECISIONS =>
        \E i \in DOMAIN reviews[rv[r].tgt] :
            reviews[rv[r].tgt][i].decision \in APPROVAL_DECISIONS

\* The content checks run once on a revision, by the reviewer that wrote it.
GateRunsOnce ==
    \A r \in Reviewer : At(r, "gate") =>
        /\ ~revisions[rv[r].tgt][rv[r].ref].passed
        /\ \A q \in Reviewer \ {r} :
               At(q, "gate") => <<rv[q].tgt, rv[q].ref>> # <<rv[r].tgt, rv[r].ref>>

ApprovedRef(t, v) ==
    \E j \in DOMAIN reviews[t] : /\ reviews[t][j].decision \in APPROVAL_DECISIONS
                                 /\ reviews[t][j].revision = v

\* What a gate evaluation with nothing missing has established so far.
EvaluationSoFar ==
    \A s \in Sender :
        /\ sd[s].pc \in {"review", "revision", "newest", "record"} /\ sd[s].clean =>
               profile[sd[s].tgt] = "fit"
        /\ \/ sd[s].pc \in {"revision", "newest"}
           \/ sd[s].pc = "record" /\ sd[s].clean
           => ApprovedRef(sd[s].tgt, sd[s].ref)
        /\ sd[s].pc \in {"newest", "record"} /\ sd[s].clean =>
               revisions[sd[s].tgt][sd[s].ref].passed

\* A send past its gate finds a review row, and works in the order artifact,
\* message row, transition.
SendOrder ==
    \A s \in Sender :
        /\ sd[s].pc \in {"reread", "file", "message"} => reviews[sd[s].tgt] # <<>>
        /\ SendAt(s, "message") => Artifact(s) \in outbox
        /\ SendAt(s, "move") => \E m \in messages : m.target = sd[s].tgt

Inv ==
    /\ TypeOK
    /\ RefsExist
    /\ DecidedFirst /\ ApprovedWasDecided
    /\ GateRunsOnce /\ EvaluationSoFar /\ AllowanceWasEarned
    /\ SendOrder /\ SentHasEvidence

-----------------------------------------------------------------------------
\* The parts below hold when decisions are submitted one at a time.
OneReviewer ==
    \A r, q \in Reviewer : r # q => At(r, "idle") \/ At(q, "idle")

\* The state a decision has checked is still the state when it moves.
StillUnderReview ==
    \A r \in Reviewer :
        /\ rv[r].pc \in (Pending \ {"audit"}) \cup {"switch", "latest"} =>
               tstate[rv[r].tgt] = "awaiting_review"
        /\ At(r, "audit") => tstate[rv[r].tgt] # "awaiting_review"

\* What a batch works on has left review for good.
LeftReview ==
    \A s \in Sender :
        /\ \A t \in sd[s].queue : tstate[t] # "awaiting_review"
        /\ sd[s].pc \notin {"idle", "next"} => tstate[sd[s].tgt] # "awaiting_review"
        /\ sd[s].pc \in {"failmove", "failaudit"} => sd[s].st # "awaiting_review"

GateAllowed(s, v) ==
    /\ sd[s].step \in DOMAIN gateLog
    /\ gateLog[sd[s].step] = [target |-> sd[s].tgt, allowed |-> TRUE, verified |-> v]

\* The revision the gate verified is the one the second look-up finds, and
\* the one the message is composed from.
TextIsFrozen ==
    \A s \in Sender :
        /\ \/ sd[s].pc \in {"revision", "newest"}
           \/ sd[s].pc = "record" /\ sd[s].clean
           => /\ reviews[sd[s].tgt] # <<>>
              /\ LatestReview(sd[s].tgt).revision = sd[s].ref
        /\ SendAt(s, "reread") => GateAllowed(s, LatestReview(sd[s].tgt).revision)
        /\ sd[s].pc \in {"file", "message"} => GateAllowed(s, sd[s].text)

FromReview(t) == {i \in DOMAIN transitions[t] : transitions[t][i].from = "awaiting_review"}

\* A transition out of review is recorded at most once, after the move.
DecisionRows ==
    /\ \A t \in Target : FromReview(t) # {} => tstate[t] # "awaiting_review"
    /\ \A r \in Reviewer : At(r, "audit") => FromReview(rv[r].tgt) = {}

SerialInv ==
    /\ OneReviewer /\ StillUnderReview /\ LeftReview
    /\ TextIsFrozen /\ SentTextWasVerified
    /\ DecisionRows /\ DecidedOnce

\* The parts below hold when batches, too, run one at a time.
OneSender == \A s, q \in Sender : s # q => SendAt(s, "idle") \/ SendAt(q, "idle")

\* The state a send has read is the state until it moves the target itself,
\* and it is approved once the review check has passed.
StateIsKnown ==
    \A s \in Sender :
        /\ sd[s].pc \in {"switch", "email", "domain", "review", "revision", "newest",
                         "record", "reread", "file", "message", "move", "failmove"} =>
               tstate[sd[s].tgt] = sd[s].st
        /\ \/ sd[s].pc \in {"revision", "newest", "reread", "file", "message", "move"}
           \/ sd[s].pc = "record" /\ sd[s].clean
           => sd[s].st = "approved"

SoloInv == SerialInv /\ OneSender /\ StateIsKnown
=============================================================================
