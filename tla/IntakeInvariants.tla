-------------------------- MODULE IntakeInvariants --------------------------
(***************************************************************************)
(* The inductive invariant behind the properties of Intake.                *)
(***************************************************************************)
EXTENDS Intake

\* Shapes of the three local states of a process.
IsRun(r) ==
    /\ DOMAIN r = {"pc", "tgt", "profile", "sigs", "stored", "tiers", "hits", "label", "result"}
    /\ r.pc \in ResearchPC /\ r.tgt \in Nat
    /\ r.profile \in CompanyProfile /\ IsSignalList(r.sigs) /\ r.hits \subseteq DOMAIN r.sigs
    /\ r.stored \subseteq {"page", "findings"} /\ r.tiers \subseteq Tier
    /\ r.label \in FitLabel \cup {"none"} /\ r.result \in State \cup {"none"}

ImportLocal == [pc : ImportPC, rows : Seq(CsvRow), made : SUBSET Nat]

IsWork(w) ==
    /\ DOMAIN w = {"pc", "program", "limit", "todo", "calls", "iteration", "pending"}
    /\ w.pc \in WorkerPC /\ w.program \in Program /\ w.limit \in Nat
    /\ w.todo \subseteq Nat /\ w.iteration \in Nat /\ w.pending \in Nat

\* A process is inside of one thing at a time, and what it has at hand exists.
Types ==
    /\ accounts \in [DOMAIN accounts -> Account] /\ DOMAIN accounts \subseteq Domain
    /\ targets \in Seq(TargetRow)
    /\ policy \in [DOMAIN targets -> PolicyDecision] /\ policy \in Seq(PolicyDecision)
    /\ rs = [p \in Proc |-> rs[p]] /\ im \in [Proc -> ImportLocal] /\ wk = [p \in Proc |-> wk[p]]
    /\ counted \in [Proc -> Nat]
    /\ \A p \in Proc :
           /\ IsRun(rs[p]) /\ IsWork(wk[p])
           /\ Work(p) \subseteq DOMAIN targets
           /\ rs[p].pc # "idle" => wk[p].pc = "research" /\ rs[p].tgt \notin wk[p].todo
           /\ im[p].pc # "none" => wk[p].pc = "import"
           /\ im[p].made # {} => wk[p].pc = "import"
           /\ wk[p].todo # {} => wk[p].pc \in {"research", "draft"}
           /\ counted[p] <= Len(targets)

-----------------------------------------------------------------------------
\* Between account and target a row is its importer's own: nobody else gets
\* past the UNIQUE domain.
RowsAreClaimed ==
    /\ \A i \in DOMAIN targets : AccountOf(i) \in DOMAIN accounts
    /\ \A p \in Proc : ImAt(p, "target") =>
           /\ im[p].rows # <<>> /\ CurrentRow(p).domain \in DOMAIN accounts
           /\ \A i \in DOMAIN targets : AccountOf(i) # CurrentRow(p).domain
           /\ \A q \in Proc : ImAt(q, "target") /\ CurrentRow(q).domain = CurrentRow(p).domain => p = q

\* A company has one target: the UNIQUE domain again.
OneTargetPerDomain ==
    \A i, j \in DOMAIN targets : AccountOf(i) = AccountOf(j) => i = j

\* An account has its target, or waits for it, or is known to have none.
AccountsAreUsed ==
    \A d \in DOMAIN accounts :
        \/ d \in stranded
        \/ \E p \in Proc : ImAt(p, "target") /\ CurrentRow(p).domain = d
        \/ \E i \in DOMAIN targets : AccountOf(i) = d

\* An account nobody has a target for has not been judged.
UnclaimedIsUnjudged ==
    \A d \in DOMAIN accounts :
        (\A i \in DOMAIN targets : AccountOf(i) # d) => accounts[d].judge = "none"

\* Two programs have a target at hand only where that was noticed.
ContestIsKnown ==
    \A p, q \in Proc : p # q => Work(p) \cap Work(q) \subseteq contested

\* Signals are inserted while the run still has its sources.
SourcesAreKept ==
    \A p \in Proc : rs[p].pc \in {"summarize", "detect", "signals", "score"} =>
        "findings" \in rs[p].stored

-----------------------------------------------------------------------------
\* The parts below are about targets that were at hand of one program at a
\* time.  The places of a run, by what it has written already.
Unbooked == {"enter", "gather"}
Researched == {"persist", "summarize", "detect", "signals", "score", "score_target", "score_move"}
Summarized == {"detect", "signals", "score", "score_target", "score_move", "judge", "route", "gate"}
ScoredAccount == {"score_target", "score_move", "judge", "route", "gate"}
ScoredTarget == {"score_move", "judge", "route", "gate"}
Undecided == Unbooked \cup Researched \cup {"judge", "route", "gate"}

\* A new target has no decision and no verdict; a batch of research waits for
\* new ones only.
NewIsFresh ==
    /\ \A i \in Solo : targets[i].state = "new" => policy[i] = "none" /\ Account0(i).judge = "none"
    /\ \A p \in Proc : \A i \in Solo \cap (im[p].made \cup wk[p].todo) :
           wk[p].pc # "draft" => targets[i].state = "new"

\* What a run has written is what the tables say, up to where it is.
RunFacts(p, i) ==
    /\ rs[p].pc \in Unbooked => targets[i].state = "new"
    /\ rs[p].pc \in Researched => targets[i].state = "researched" /\ Account0(i).judge = "none"
    /\ RsAt(p, "judge") => targets[i].state = "scored" /\ Account0(i).judge = "none"
    /\ RsAt(p, "route") => targets[i].state = "scored" /\ rs[p].label = FinalLabel(i)
    /\ RsAt(p, "gate") =>
           targets[i].state = rs[p].result /\ rs[p].result = StateOf(FinalLabel(i))
    /\ rs[p].pc \in Undecided => policy[i] = "none"
    /\ rs[p].pc \in Summarized => Account0(i).summary = rs[p].profile.summary
    /\ rs[p].pc \in ScoredAccount =>
           Account0(i).label = FitLabelOf(Score(p)) /\ Account0(i).score = Score(p)
    /\ rs[p].pc \in ScoredTarget => targets[i].score = Score(p)

RunIsStored ==
    \A p \in Proc, i \in Solo : ~RsAt(p, "idle") /\ rs[p].tgt = i => RunFacts(p, i)

-----------------------------------------------------------------------------
\* A target left between its booking and its decision is at hand of a run, one
\* that may be about to crash, or of none that was cut.
Unfinished == Researched \cup {"timed_out", "crashed"}

HalfwayIsHeld ==
    \A i \in DOMAIN targets :
        /\ targets[i].state = "researched" =>
               i \in cut \/ \E p \in Proc : rs[p].tgt = i /\ rs[p].pc \in Unfinished
        /\ targets[i].state \notin {"new", "failed"} /\ policy[i] = "none" =>
               i \in cut \/ \E p \in Proc : /\ rs[p].tgt = i
                                           /\ rs[p].pc \in Unfinished \cup {"judge", "route", "gate"}

\* The first count of the loop still holds at the second.
CountHolds ==
    \A p \in Proc : WkAt(p, "count_drafts") /\ wk[p].pending = 0 =>
        \A i \in 1..counted[p] : targets[i].state # "new"

Inv ==
    /\ Types
    /\ RowsAreClaimed /\ OneTargetPerDomain /\ AccountsAreUsed /\ UnclaimedIsUnjudged
    /\ ContestIsKnown /\ SourcesAreKept /\ EvidenceIsStored
    /\ NewIsFresh /\ RunIsStored /\ AllowedScoreClears /\ RoutedByFinalLabel /\ ReportsAreTrue
    /\ HalfwayIsHeld /\ CountHolds
=============================================================================
