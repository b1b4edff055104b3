------------------------------ MODULE IntakeDB ------------------------------
(***************************************************************************)
(* The tables that import and research write, each write a transaction of  *)
(* its own.  The two switches an operator works at any time, the kill       *)
(* switch file and the registry row of the ICP judge, are left out: every   *)
(* reading of them may go either way.                                       *)
(***************************************************************************)
EXTENDS StateMachine, Scoring, Sequences, FiniteSets

CONSTANTS
    Proc,      \* operating system processes, each with a connection
    Domain,    \* normalized company domains
    Switch,    \* positions the kill switch may be read in, of "on" and "off"
    JudgeRow   \* readings of the judge's enabled column, of TRUE and FALSE

ASSUME IntakeAssumption ==
    Switch \subseteq {"on", "off"} /\ JudgeRow \subseteq BOOLEAN

VARIABLES
    accounts,    \* accounts: a function on the domains that have a row
    targets,     \* targets, in the order of their creation
    policy       \* the latest policy_decisions row of each target, or "none"

intakeDB == <<accounts, targets, policy>>

\* What score_lead and the judge have written to the row; "none" is NULL.
Account == [summary : BOOLEAN, label : FitLabel \cup {"none"}, score : Int,
            judge : FitLabel \cup {"none"}]

NewAccount == [summary |-> FALSE, label |-> "none", score |-> 0, judge |-> "none"]

\* contact: contact_id is not NULL.
TargetRow == [domain : Domain, contact : BOOLEAN, state : State, score : Int]

PolicyDecision == {"none", "allow", "deny", "review_required"}

DBInit ==
    /\ accounts = <<>> /\ targets = <<>> /\ policy = <<>>

DBTypeOK ==
    /\ DOMAIN accounts \subseteq Domain
    /\ \A d \in DOMAIN accounts : accounts[d] \in Account
    /\ targets \in Seq(TargetRow)
    /\ \A i \in DOMAIN targets : targets[i].domain \in DOMAIN accounts
    /\ policy \in [DOMAIN targets -> PolicyDecision]

-----------------------------------------------------------------------------
AccountOf(i) == targets[i].domain

\* UPDATE accounts SET field = value.
SetAccount(i, row) == accounts' = [accounts EXCEPT ![AccountOf(i)] = row]

\* transition(): the pair is checked against the table of valid ones, and the
\* row is updated whatever state it is in.
Move(i, from, to) ==
    /\ IsValid(from, to)
    /\ targets' = [targets EXCEPT ![i].state = to]

\* Faulty: a scored target is taken for one to research.
PendingOrScored == {i \in DOMAIN targets : targets[i].state \in {"new", "scored"}}

\* Targets that were imported and never researched.
Pending == {i \in DOMAIN targets : targets[i].state = "new"}

\* Targets the draft stage selects; only those with an allow decision pass it.
DraftEligible == {i \in DOMAIN targets : targets[i].state = "scored"}
Allowed(i) == policy[i] = "allow"

\* The first n of the set, by creation.
First(n, set) == {i \in set : Cardinality({j \in set : j < i}) < n}
=============================================================================
