------------------------------- MODULE Intake -------------------------------
(***************************************************************************)
(* Programs that import and research targets over one database.             *)
(***************************************************************************)
EXTENDS Taskmaster

VARIABLES
    contested,  \* targets two programs had at hand at a time
    cut,        \* targets whose run was dropped halfway
    counted,    \* how many targets there were at a loop's first count
    stranded    \* companies whose import stopped between account and target

watched == <<contested, cut, counted, stranded>>
vars == <<intakeDB, taskVars, watched>>

\* What a program has at hand.
Work(p) == im[p].made \cup wk[p].todo
               \cup (IF RsAt(p, "idle") THEN {} ELSE {rs[p].tgt})

\* Runs that end without a result and without failing their target.
CutRuns ==
    {i \in DOMAIN targets : \E p \in Proc :
         /\ rs[p].tgt = i /\ rs[p].pc \notin {"idle", "return", "report"}
         /\ rs'[p].pc = "idle" /\ targets'[i].state # "failed"}

Init ==
    /\ DBInit /\ TaskInit
    /\ contested = {} /\ cut = {} /\ counted = [p \in Proc |-> 0] /\ stranded = {}

\* The four watch the steps; no step depends on them.
Watch ==
    /\ contested' = contested \cup
           {i \in DOMAIN targets' : \E p, q \in Proc : p # q /\ i \in Work(p)' \cap Work(q)'}
    /\ cut' = cut \cup CutRuns
    /\ counted' = [p \in Proc |-> IF WkAt(p, "count_research") THEN Len(targets)
                                  ELSE IF WkAt(p, "count_drafts") THEN counted[p] ELSE 0]
    /\ stranded' = stranded \cup
           {d \in Domain : \E p \in Proc :
               ImAt(p, "target") /\ CurrentRow(p).domain = d /\ im'[p].pc \in {"raised", "none"}}

Next ==
    \E p \in Proc : TaskStep(p) /\ Watch

Spec == Init /\ [][Next]_vars

-----------------------------------------------------------------------------
\* Rows, programs and runs have their types; a run belongs to a batch.
TypeOK == DBTypeOK /\ TaskTypeOK

Solo == DOMAIN targets \ contested

Account0(i) == accounts[AccountOf(i)]

\* The label that routed a target: the judge's if there is one.
FinalLabel(i) == IF Account0(i).judge # "none" THEN Account0(i).judge ELSE Account0(i).label

InRun(i) == \E p \in Proc : rs[p].pc # "idle" /\ rs[p].tgt = i

\* An allow decision, which the draft stage acts on, is about what the tables
\* say: the formula's score, the same in both of them, clears the floor and
\* has the label of a fit, whatever the judge said, and the summary is there.
\* Two runs that had the target at hand may each have written a part.
AllowedScoreClears ==
    \A i \in Solo : Allowed(i) =>
        /\ targets[i].score >= POLICY_FLOOR
        /\ Account0(i).score = targets[i].score
        /\ Account0(i).label \in {"strong_fit", "good_fit"}
        /\ Account0(i).summary

\* A decided target is where its final label put it, unless it was failed: a
\* fit in scored or further, the others in the state of their label.
RoutedByFinalLabel ==
    \A i \in Solo : policy[i] # "none" /\ targets[i].state # "failed" =>
        StateOf(FinalLabel(i)) =
            IF targets[i].state \in {"watchlist", "not_target"}
            THEN targets[i].state ELSE "scored"

\* No signal is stored without its evidence: the findings of its run are in
\* the sources table, and a raw page too when its tier is "source".
EvidenceIsStored ==
    \A p \in Proc : rs[p].tiers # {} =>
        /\ "findings" \in rs[p].stored
        /\ "source" \in rs[p].tiers => "page" \in rs[p].stored

\* A run tells its batch what the tables say: a target that was reported in a
\* final state is in it and decided; one reported failed has failed, or is
\* still new because the kill switch halted the run.
ReportsAreTrue ==
    \A p \in Proc : rs[p].pc \in {"return", "report"} /\ rs[p].tgt \in Solo =>
        LET state == targets[rs[p].tgt].state IN
        \/ rs[p].result = state /\ (state # "failed" => policy[rs[p].tgt] # "none")
        \/ rs[p].result = "failed" /\ state = "new" /\ policy[rs[p].tgt] = "none"

\* Research decides a target once: when its run is over, no later run takes it
\* up again, and only the draft stage moves it on.
SettledStaysSettled ==
    [][\A i \in DOMAIN targets :
           policy[i] # "none" /\ ~InRun(i) /\ i \notin contested' =>
               /\ ~InRun(i)' /\ policy'[i] = policy[i]
               /\ targets'[i] # targets[i] => targets[i].state = "scored"]_vars

\* Nothing of it is left to do: failed, or decided and not waiting for a draft.
Concluded(i) ==
    \/ targets[i].state = "failed"
    \/ /\ policy[i] # "none" /\ targets[i].state \notin {"new", "researched"}
       /\ ~(targets[i].state = "scored" /\ Allowed(i))

\* No company disappears between import and draft.  Whoever imports it, and
\* however many runs have its target at hand at a time, it has a target which
\* a later program selects, or which is concluded or in a run; or an import is
\* at its row.  What is left are the two ways to lose it: an import that stops
\* between account and target, and a run that is dropped halfway.
NoCompanyIsLost ==
    \A d \in DOMAIN accounts :
        \/ d \in stranded
        \/ \E p \in Proc : ImAt(p, "target") /\ CurrentRow(p).domain = d
        \/ \E i \in DOMAIN targets :
               /\ AccountOf(i) = d
               /\ \/ i \in Pending \/ (i \in DraftEligible /\ Allowed(i))
                  \/ Concluded(i) \/ InRun(i) \/ i \in cut

\* When the loop prints that the run is complete, every target that it counted
\* is concluded, or another program has it at hand, or its run was dropped
\* halfway: those the loop does not find again.
CompleteOrCut ==
    [][\A p \in Proc : ~WkAt(p, "complete") /\ wk'[p].pc = "complete" =>
           \A i \in 1..counted[p] :
               Concluded(i) \/ i \in cut \/ \E q \in Proc : i \in Work(q)]_vars

\* "An operator can disable the judge and the pipeline degrades to the
\* deterministic label" (agents_registry.py:107): with the judge disabled and
\* nothing else raising, no run crashes.
DisabledJudgeDegrades ==
    JudgeRow = {FALSE} /\ ~Faults => \A p \in Proc : ~RsAt(p, "crashed")
=============================================================================
