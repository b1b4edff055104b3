------------------------------ MODULE Research ------------------------------
(***************************************************************************)
(* One target through phase 1: research, bookkeeping, summarize, detect,   *)
(* score, policy gate.  Each step ends with one committed write, and takes *)
(* along the model call or the reading that leads to it; between two steps *)
(* another process may write, the process may be killed, or an exception   *)
(* may be raised.  A deadline is noticed only where the coroutine awaits.  *)
(* The models answer what they like, and a call that is repeated once is   *)
(* one that succeeds or fails.                                             *)
(***************************************************************************)
EXTENDS IntakeDB

CONSTANTS
    Profiles,     \* what summarize_company may extract
    SignalLists,  \* what detect_signals may extract
    Verdicts,     \* labels the judge may answer with
    Faults        \* whether a step may raise for a reason of its own

ASSUME ResearchAssumption ==
    /\ Profiles \subseteq CompanyProfile /\ Verdicts \subseteq FitLabel
    /\ Faults \in BOOLEAN
    /\ \A s \in SignalLists : IsSignalList(s)

VARIABLE rs       \* what each process's research run is doing

ResearchPC ==
    {"idle", "enter", "gather", "persist", "summarize", "detect", "signals",
     "score", "score_target", "score_move", "judge", "route", "gate", "return",
     "timed_out", "report", "crashed"}

\* "findings" stands for "unverified" too: nothing here tells them apart.
Tier == {"source", "findings"}

NoProfile == [summary |-> FALSE, industry |-> FALSE, size |-> FALSE, confidence |-> 0]

\* stored, tiers: this run's rows of sources and of signals, which carry its
\* run_id and are read in this run only.  hits: types of signals still to be
\* inserted.  label: the final label.
NoRun == [pc |-> "idle", tgt |-> 0, profile |-> NoProfile, sigs |-> <<>>,
          stored |-> {}, tiers |-> {}, hits |-> {}, label |-> "none", result |-> "none"]

RsInit == rs = [p \in Proc |-> NoRun]

RsTypeOK ==
    \A p \in Proc : /\ rs[p].pc \in ResearchPC
                    /\ rs[p].pc # "idle" => rs[p].tgt \in DOMAIN targets
                    /\ rs[p].stored \subseteq {"page", "findings"}
                    /\ rs[p].tiers \subseteq Tier
                    /\ rs[p].label \in FitLabel \cup {"none"}
                    /\ rs[p].result \in State \cup {"none"}

RsAt(p, pc) == rs[p].pc = pc
RsGoto(p, pc) == rs' = [rs EXCEPT ![p].pc = pc]

\* The run is over but for its result; all else is forgotten.
Conclude(p, pc, result) ==
    rs' = [rs EXCEPT ![p] = [NoRun EXCEPT !.pc = pc, !.tgt = rs[p].tgt, !.result = result]]

StartResearch(p, i) == rs' = [rs EXCEPT ![p] = [NoRun EXCEPT !.pc = "enter", !.tgt = i]]

EndResearch(p) == rs' = [rs EXCEPT ![p] = NoRun]

-----------------------------------------------------------------------------
\* The guardrail of the pipeline: halted at its entry, the run reports a
\* failure and writes nothing to the target.
EnterPipeline(p) ==
    /\ RsAt(p, "enter")
    /\ \/ "on" \in Switch /\ Conclude(p, "return", "failed")
       \/ "off" \in Switch /\ RsGoto(p, "gather")
    /\ UNCHANGED intakeDB

\* The research agent fetches a page; its text becomes a row.
FetchPage(p) ==
    /\ RsAt(p, "gather")
    /\ rs' = [rs EXCEPT ![p].stored = @ \cup {"page"}]
    /\ UNCHANGED intakeDB

\* The agent ends with findings, or with nothing or the sentinel; the
\* bookkeeping node asserts that the target is new.
Book(p) ==
    /\ RsAt(p, "gather")
    /\ \/ /\ Move(rs[p].tgt, "new", "researched")
          /\ RsGoto(p, "persist")
       \/ /\ Move(rs[p].tgt, "new", "failed")
          /\ Conclude(p, "return", "failed")
    /\ UNCHANGED <<accounts, policy>>

PersistFindings(p) ==
    /\ RsAt(p, "persist")
    /\ rs' = [rs EXCEPT ![p].pc = "summarize", ![p].stored = @ \cup {"findings"}]
    /\ UNCHANGED intakeDB

\* Faulty: the target is left as it is.
ModelFailsQuietly(p) ==
    /\ rs[p].pc \in {"summarize", "detect"}
    /\ Conclude(p, "return", "failed")
    /\ UNCHANGED intakeDB

\* Neither attempt of summarize or of detect gave an answer.
ModelFails(p) ==
    /\ rs[p].pc \in {"summarize", "detect"}
    /\ Move(rs[p].tgt, "researched", "failed")
    /\ Conclude(p, "return", "failed")
    /\ UNCHANGED <<accounts, policy>>

Summarize(p) ==
    LET i == rs[p].tgt IN
    /\ RsAt(p, "summarize")
    /\ \E profile \in Profiles :
           /\ SetAccount(i, [accounts[AccountOf(i)] EXCEPT !.summary = profile.summary])
           /\ rs' = [rs EXCEPT ![p].pc = "detect", ![p].profile = profile]
    /\ UNCHANGED <<targets, policy>>

DetectSignals(p) ==
    /\ RsAt(p, "detect")
    /\ \E sigs \in SignalLists :
           rs' = [rs EXCEPT ![p].pc = IF DOMAIN sigs = {} THEN "score" ELSE "signals",
                            ![p].sigs = sigs, ![p].hits = DOMAIN sigs]
    /\ UNCHANGED intakeDB

\* Faulty: the findings count as a page.
HasAnySource(p) == rs[p].stored # {}

\* _load_raw_source_texts: the pages this run has stored.
HasRawSource(p) == "page" \in rs[p].stored

\* A quote is looked for in the raw pages first, then in the findings.
InsertSignal(p) ==
    /\ RsAt(p, "signals")
    /\ \E type \in rs[p].hits, tier \in Tier :
           /\ tier = "source" => HasRawSource(p)
           /\ rs' = [rs EXCEPT ![p].hits = @ \ {type}, ![p].tiers = @ \cup {tier},
                               ![p].pc = IF rs[p].hits = {type} THEN "score" ELSE @]
    /\ UNCHANGED intakeDB

-----------------------------------------------------------------------------
\* What the formula says: in memory, from what this run extracted.
Score(p) == FitScore(rs[p].profile, rs[p].sigs, targets[rs[p].tgt].contact)

ScoreAccount(p) ==
    LET i == rs[p].tgt IN
    /\ RsAt(p, "score")
    /\ SetAccount(i, [accounts[AccountOf(i)] EXCEPT !.label = FitLabelOf(Score(p)),
                                                    !.score = Score(p)])
    /\ rs' = [rs EXCEPT ![p].pc = "score_target", ![p].stored = {}, ![p].tiers = {}]
    /\ UNCHANGED <<targets, policy>>

ScoreTarget(p) ==
    /\ RsAt(p, "score_target")
    /\ targets' = [targets EXCEPT ![rs[p].tgt].score = Score(p)]
    /\ RsGoto(p, "score_move")
    /\ UNCHANGED <<accounts, policy>>

ScoreMove(p) ==
    /\ RsAt(p, "score_move")
    /\ Move(rs[p].tgt, "researched", "scored")
    /\ RsGoto(p, "judge")
    /\ UNCHANGED <<accounts, policy>>

\* Faulty: without a verdict the run has no label.
JudgeFailsUnlabelled(p) ==
    /\ RsAt(p, "judge")
    /\ RsGoto(p, "route")
    /\ UNCHANGED intakeDB

\* Without a verdict, a wrong echo being none, the deterministic label stands.
JudgeFails(p) ==
    /\ RsAt(p, "judge")
    /\ rs' = [rs EXCEPT ![p].pc = "route", ![p].label = FitLabelOf(Score(p))]
    /\ UNCHANGED intakeDB

\* The verdict is written in the name of the judge: the write gate refuses it
\* when the judge is disabled, and nothing on the way up catches that.
Judge(p) ==
    LET i == rs[p].tgt IN
    /\ RsAt(p, "judge")
    /\ \/ /\ TRUE \in JudgeRow
          /\ \E label \in Verdicts :
                 /\ SetAccount(i, [accounts[AccountOf(i)] EXCEPT !.judge = label])
                 /\ rs' = [rs EXCEPT ![p].pc = "route", ![p].label = label]
       \/ FALSE \in JudgeRow /\ Conclude(p, "crashed", "none") /\ UNCHANGED accounts
    /\ UNCHANGED <<targets, policy>>

\* Faulty: the formula's label routes, whatever the judge said.
RouteByFormula(p) ==
    LET to == StateOf(FitLabelOf(Score(p))) IN
    /\ RsAt(p, "route")
    /\ \/ to # "scored" /\ Move(rs[p].tgt, "scored", to)
       \/ to = "scored" /\ UNCHANGED targets
    /\ rs' = [rs EXCEPT ![p].pc = "gate", ![p].label = "none", ![p].result = to]
    /\ UNCHANGED <<accounts, policy>>

\* apply_final_fit_label: a fit stays in scored.
Route(p) ==
    LET to == StateOf(rs[p].label) IN
    /\ RsAt(p, "route")
    /\ \/ to # "scored" /\ Move(rs[p].tgt, "scored", to)
       \/ to = "scored" /\ UNCHANGED targets
    /\ rs' = [rs EXCEPT ![p].pc = "gate", ![p].label = "none", ![p].result = to]
    /\ UNCHANGED <<accounts, policy>>

\* policy_check_phase1 reads the kill switch, which denies whatever the score.
PolicyGate(p) ==
    LET i == rs[p].tgt IN
    /\ RsAt(p, "gate")
    /\ \/ "on" \in Switch /\ policy' = [policy EXCEPT ![i] = "deny"]
       \/ "off" \in Switch
              /\ policy' = [policy EXCEPT ![i] = Decision(rs[p].profile, Score(p))]
    /\ Conclude(p, "return", rs[p].result)
    /\ UNCHANGED <<accounts, targets>>

-----------------------------------------------------------------------------
\* Where the coroutine of a run awaits: the research agent's calls, and the
\* hand-over from one node of the sequence to the next.
Awaiting(p) ==
    rs[p].pc \in {"enter", "gather", "summarize", "detect", "score", "gate", "return"}

Timeout(p) ==
    /\ Awaiting(p)
    /\ Conclude(p, "timed_out", "none")
    /\ UNCHANGED intakeDB

\* _record_phase1_timeout reads the state and asserts it.
RecordTimeout(p) ==
    LET i == rs[p].tgt IN
    /\ RsAt(p, "timed_out")
    /\ Move(i, targets[i].state, "failed")
    /\ Conclude(p, "report", "failed")
    /\ UNCHANGED <<accounts, policy>>

\* Any other exception, the timeout's own bookkeeping included.
Raise(p) ==
    /\ Faults
    /\ rs[p].pc \notin {"idle", "report", "crashed"}
    /\ Conclude(p, "crashed", "none")
    /\ UNCHANGED intakeDB

\* The batch's handler: it fails the target, or gives that up when the
\* bookkeeping raises too.
RecordCrash(p) ==
    LET i == rs[p].tgt IN
    /\ RsAt(p, "crashed")
    /\ \/ Move(i, targets[i].state, "failed")
       \/ Faults /\ UNCHANGED targets
    /\ EndResearch(p)
    /\ UNCHANGED <<accounts, policy>>

\* The run returns its result to the batch.
Return(p) ==
    /\ rs[p].pc \in {"return", "report"}
    /\ EndResearch(p)
    /\ UNCHANGED intakeDB

RsStep(p) ==
    \/ EnterPipeline(p) \/ FetchPage(p) \/ Book(p) \/ PersistFindings(p)
    \/ ModelFails(p) \/ Summarize(p) \/ DetectSignals(p) \/ InsertSignal(p)
    \/ ScoreAccount(p) \/ ScoreTarget(p) \/ ScoreMove(p) \/ JudgeFails(p)
    \/ Judge(p) \/ Route(p) \/ PolicyGate(p)
    \/ Timeout(p) \/ RecordTimeout(p) \/ Raise(p) \/ RecordCrash(p) \/ Return(p)
=============================================================================
