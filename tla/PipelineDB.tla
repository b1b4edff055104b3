----------------------------- MODULE PipelineDB -----------------------------
(***************************************************************************)
(* The state the review and send stages share: the rows of the database,   *)
(* the kill-switch file and the outbox directory.  Every process opens its *)
(* own connection in autocommit mode, so each SELECT sees the newest       *)
(* committed rows and each write-gate commit is one atomic step; nothing   *)
(* groups two of them.  The component modules extend this one and model    *)
(* one action per SELECT of changing data and per commit.                  *)
(***************************************************************************)
EXTENDS Naturals, Sequences, FiniteSets, StateMachine

CONSTANTS
    Target,      \* targets, each with its own account and contact
    Domain,      \* e-mail domains
    DomainOf,    \* the domain of a target's contact address
    Profiles     \* the profiles an instance starts from

ASSUME TargetAssumption == IsFiniteSet(Target) /\ Target # {}
ASSUME DomainAssumption == DomainOf \in [Target -> Domain]

ASSUME ProfilesAssumption == Profiles \subseteq {"fit", "unfit", "no_contact"}

VARIABLES
    tstate,       \* targets.state
    transitions,  \* state_transitions, one sequence per target
    revisions,    \* message_draft_versions, in insert_seq order
    reviews,      \* review_decisions, in insert_seq order
    emailSupp,    \* targets whose contact address is in suppressions
    domainSupp,   \* domains in suppressions
    killFile,     \* contents of the kill-switch file
    profile,      \* what import and phase 1 left behind for the gate to read
    gateLog,      \* send_gate_decisions
    outbox,       \* .eml files
    messages      \* messages rows (direction outbound, status dry_run_sent)

dbVars == <<tstate, transitions, revisions, reviews, emailSupp, domainSupp,
            killFile, profile, gateLog, outbox, messages>>

-----------------------------------------------------------------------------
Decision == {"approve", "approve_with_edits", "reject",
             "reject_and_suppress", "escalate"}

APPROVAL_DECISIONS == {"approve", "approve_with_edits"}

\* The two gate columns of a revision are written by one UPDATE and read by
\* one SELECT, so they are one flag here: TRUE when both are 1, FALSE while no
\* check has run or when one failed.
Revision == [num : Nat, passed : BOOLEAN]

\* A review row names the revision it decides by its position.
ReviewRow == [decision : Decision, revision : Nat]

TransitionRow == [from : State, to : State]

\* "fit": contact address verified, fit label and score, a strong signal and
\* an allow policy decision.  "unfit": the contact exists but at least one of
\* these is missing.  "no_contact": targets.contact_id is NULL.
Profile == {"fit", "unfit", "no_contact"}

\* verified is not a column: it keeps which revision the evaluation read.
GateRow == [target : Target, allowed : BOOLEAN, verified : Nat]

\* step is the send's step_id, shared by the gate row, the file and the row.
Message == [target : Target, revision : Nat, step : Nat]

\* "bad" is every file the reader cannot use: missing, unreadable, not JSON,
\* not an object, no boolean "enabled".
KillFile == {"off", "on", "bad"}

DBTypeOK ==
    /\ tstate \in [Target -> State]
    /\ transitions \in [Target -> Seq(TransitionRow)]
    /\ revisions \in [Target -> Seq(Revision)]
    /\ reviews \in [Target -> Seq(ReviewRow)]
    /\ emailSupp \subseteq Target
    /\ domainSupp \subseteq Domain
    /\ killFile \in KillFile
    /\ profile \in [Target -> Profile]
    /\ gateLog \in Seq(GateRow)
    /\ outbox \subseteq Message
    /\ messages \subseteq Message

\* A draft run has left its last revision and its gate verdict, and moved the
\* target to awaiting_review.
DBInit ==
    /\ tstate = [t \in Target |-> "awaiting_review"]
    /\ transitions = [t \in Target |-> <<>>]
    /\ revisions \in [Target -> {<<[num |-> 1, passed |-> b]>> : b \in BOOLEAN}]
    /\ reviews = [t \in Target |-> <<>>]
    /\ emailSupp = {}
    /\ domainSupp = {}
    /\ killFile \in KillFile
    /\ profile \in [Target -> Profiles]
    /\ gateLog = <<>>
    /\ outbox = {}
    /\ messages = {}

-----------------------------------------------------------------------------
\* read_kill_switch(): engaged unless the file says, as a JSON boolean, no.
Engaged == killFile # "off"

\* ORDER BY insert_seq DESC LIMIT 1
LatestReview(t) == reviews[t][Len(reviews[t])]

\* ORDER BY revision_number DESC, insert_seq DESC LIMIT 1 returns revision i.
IsLatestRevision(t, i) ==
    \A j \in DOMAIN revisions[t] :
        \/ revisions[t][j].num < revisions[t][i].num
        \/ revisions[t][j].num = revisions[t][i].num /\ j <= i

\* SELECT MAX(revision_number)
HasMaxNumber(t, i) ==
    \A j \in DOMAIN revisions[t] : revisions[t][j].num <= revisions[t][i].num

\* The two commits of transition(): the UPDATE of targets.state, which names
\* no expected old state, and the INSERT of the audit row.
UpdateState(t, from, to) ==
    /\ IsValid(from, to)
    /\ tstate' = [tstate EXCEPT ![t] = to]

InsertTransition(t, from, to) ==
    transitions' = [transitions EXCEPT ![t] = Append(@, [from |-> from, to |-> to])]
=============================================================================
