------------------------------ MODULE SendPath ------------------------------
(***************************************************************************)
(* The path from a draft under review to a recorded message: reviewers and *)
(* senders side by side on one database, while operators flip the kill     *)
(* switch and edit the suppression list.                                   *)
(***************************************************************************)
EXTENDS Review, Sending

CONSTANT Edits  \* what operators edit meanwhile: "switch", "email", "domain"

ASSUME EditsAssumption == Edits \subseteq {"switch", "email", "domain"}

vars == <<dbVars, rv, sd>>

-----------------------------------------------------------------------------
\* write_kill_switch(): os.replace() makes the rewrite one step.
ToggleSwitch(v) ==
    /\ "switch" \in Edits
    /\ killFile' = v
    /\ UNCHANGED <<tstate, transitions, revisions, reviews, emailSupp, domainSupp,
                   profile, gateLog, outbox, messages, rv, sd>>

\* The file is deleted or edited by hand into something the reader rejects.
SpoilSwitch ==
    /\ "switch" \in Edits
    /\ killFile' = "bad"
    /\ UNCHANGED <<tstate, transitions, revisions, reviews, emailSupp, domainSupp,
                   profile, gateLog, outbox, messages, rv, sd>>

\* add_suppression.py and its --remove: each run names an address or a
\* domain, and is a no-op when there is nothing to do.
EditEmailSuppressions ==
    /\ "email" \in Edits
    /\ \E t \in Target : emailSupp' \in {emailSupp \cup {t}, emailSupp \ {t}}
    /\ UNCHANGED <<tstate, transitions, revisions, reviews, domainSupp, killFile,
                   profile, gateLog, outbox, messages, rv, sd>>

EditDomainSuppressions ==
    /\ "domain" \in Edits
    /\ \E d \in Domain : domainSupp' \in {domainSupp \cup {d}, domainSupp \ {d}}
    /\ UNCHANGED <<tstate, transitions, revisions, reviews, emailSupp, killFile,
                   profile, gateLog, outbox, messages, rv, sd>>

OperatorNext ==
    \/ \E v \in {"on", "off"} : ToggleSwitch(v)
    \/ SpoilSwitch
    \/ EditEmailSuppressions
    \/ EditDomainSuppressions

Init == DBInit /\ ReviewInit /\ SendingInit

Next ==
    \/ ReviewNext /\ UNCHANGED sd
    \/ SendingNext /\ UNCHANGED rv
    \/ OperatorNext

Spec == Init /\ [][Next]_vars

-----------------------------------------------------------------------------
\* The rows, the files and the locals of every process have their types.
TypeOK == DBTypeOK /\ ReviewTypeOK /\ SendingTypeOK

\* No path reaches approved without a recorded operator approval, however many
\* reviewers decide at once and wherever one of them is cut off: the decision
\* row of record_review_decision() is committed before its transition.
ApprovedWasDecided ==
    \A t \in Target : tstate[t] = "approved" =>
        \E i \in DOMAIN reviews[t] : reviews[t][i].decision \in APPROVAL_DECISIONS

\* A recorded allowance of evaluate_send_gate() is about a revision that some
\* operator decision approved and whose content checks passed, for a target
\* whose address and fit pass: reads of one evaluation are spread over many
\* steps of other processes.
AllowanceWasEarned ==
    \A i \in DOMAIN gateLog : gateLog[i].allowed =>
        LET t == gateLog[i].target
            v == gateLog[i].verified
        IN  /\ profile[t] = "fit"
            /\ v \in DOMAIN revisions[t]
            /\ revisions[t][v].passed
            /\ \E j \in DOMAIN reviews[t] :
                   /\ reviews[t][j].decision \in APPROVAL_DECISIONS
                   /\ reviews[t][j].revision = v

\* A sent target has its message row and every message row has its artifact,
\* in every state a cut or an exception can leave behind: the write order of
\* send_email().
SentHasEvidence ==
    /\ messages \subseteq outbox
    /\ \A t \in Target : tstate[t] = "dry_run_sent" =>
           \E m \in messages : m.target = t

\* The text of every recorded message is the text the gate verified in the
\* same send, although send_email() looks the approved revision up a second
\* time after the gate has answered.
SentTextWasVerified ==
    \A m \in messages :
        /\ m.step \in DOMAIN gateLog
        /\ gateLog[m.step].allowed
        /\ gateLog[m.step].target = m.target
        /\ gateLog[m.step].verified = m.revision

\* One decision takes a target out of awaiting_review: a form submitted twice
\* does not decide twice.
DecidedOnce ==
    \A t \in Target : \A i, j \in DOMAIN transitions[t] :
        /\ transitions[t][i].from = "awaiting_review"
        /\ transitions[t][j].from = "awaiting_review"
        => i = j

\* The from_state that a decision and a send record is the state their UPDATE
\* overwrites, although the UPDATE does not ask for it.
TruthfulMoves ==
    [][/\ \A r \in Reviewer : At(r, "move") /\ rv'[r].pc = "audit" =>
              tstate[rv[r].tgt] = "awaiting_review"
       /\ \A s \in Sender : SendAt(s, "move") /\ sd'[s].pc = "audit" =>
              tstate[sd[s].tgt] = "approved"]_vars

\* The crash handler of the send batch re-reads the state for the row it is
\* about to write, so that the row says where the target was when it died.
CrashRowTellsState ==
    [][\A s \in Sender : SendAt(s, "failmove") /\ sd'[s].pc = "failaudit" =>
           tstate[sd[s].tgt] = sd[s].st]_vars

\* The detailed processes implement the promise of Outreach: states move along
\* the transition table, and messages are recorded only for approved targets.
O == INSTANCE Outreach WITH delivered <- {m.target : m \in messages}

KeepsPromise == O!Spec
=============================================================================
