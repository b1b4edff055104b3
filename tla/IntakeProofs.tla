---------------------------- MODULE IntakeProofs ----------------------------
(***************************************************************************)
(* Inv is inductive, and the properties of Intake follow from it: any      *)
(* number of programs and targets, any files, any answers of the models.   *)
(***************************************************************************)
EXTENDS IntakeInvariants, SequenceTheorems, FiniteSetTheorems, TLAPS

\* The formula's score is a number.
LEMMA ScoreType ==
  ASSUME NEW profile \in CompanyProfile, NEW signals, IsSignalList(signals),
         NEW contact \in BOOLEAN
  PROVE  FitScore(profile, signals, contact) \in Int
<1>1. \A type \in SignalType : Strength(signals, type) \in Int
  BY DEF Strength, IsSignalList
<1>2. SignalScore(signals) \in Int
  <2>1. ASSUME NEW n \in Int PROVE Rounded(n) \in Int
    BY DEF Rounded
  <2>2. ASSUME NEW n \in Int PROVE AtMost(n, 25) \in Int
    BY DEF AtMost
  <2>3. \A a, b, c, d \in Int : 8 * a + 7 * b + 5 * c + 5 * d \in Int
    OBVIOUS
  <2>4. QED BY <1>1, <2>1, <2>2, <2>3 DEF SignalScore, SignalType
<1>3. CompanyFitScore(profile) \in Int
  BY DEF CompanyFitScore, AtMost, CompanyProfile
<1>4. /\ PersonaFitScore(contact) \in Int /\ DataCompletenessScore(profile, contact) \in Int
      /\ EvidenceQualityScore(signals, profile) \in Int
  BY DEF PersonaFitScore, DataCompletenessScore, EvidenceQualityScore
<1>5. QED BY <1>2, <1>3, <1>4 DEF FitScore

\* A score has one label; those that clear the floor have the label of a fit.
LEMMA LabelType ==
  ASSUME NEW n \in Int
  PROVE  /\ FitLabelOf(n) \in FitLabel
         /\ n >= POLICY_FLOOR => FitLabelOf(n) \in {"strong_fit", "good_fit"}
  BY DEF FitLabelOf, FitLabel, POLICY_FLOOR, STRONG_FIT_THRESHOLD, GOOD_FIT_THRESHOLD,
         WATCHLIST_THRESHOLD

LEMMA DecisionType ==
  ASSUME NEW profile \in CompanyProfile, NEW n \in Int
  PROVE  /\ Decision(profile, n) \in {"allow", "deny", "review_required"}
         /\ Decision(profile, n) = "allow" => n >= POLICY_FLOOR /\ profile.summary
  BY DEF Decision, POLICY_FLOOR, CompanyProfile

LEMMA StateOfType ==
  ASSUME NEW label
  PROVE  /\ StateOf(label) = "scored" \/ (StateOf(label) = label /\ label \in {"watchlist", "not_target"})
         /\ StateOf(label) \in State
  BY DEF StateOf, State

\* Nothing at hand.
LEMMA EmptyShapes ==
  /\ IsRun(NoRun) /\ NoRun.pc = "idle" /\ NoRun.tiers = {}
  /\ NoImport \in ImportLocal /\ NoImport.pc = "none" /\ NoImport.made = {}
  /\ IsWork(NoWork) /\ NoWork.pc = "off" /\ NoWork.todo = {}
<1>1. NoProfile \in CompanyProfile
  BY DEF NoProfile, CompanyProfile
<1>2. IsSignalList(<<>>) /\ DOMAIN <<>> = {}
  BY DEF IsSignalList
<1>3. IsRun(NoRun) /\ NoRun.pc = "idle" /\ NoRun.tiers = {}
  BY <1>1, <1>2 DEF IsRun, NoRun, ResearchPC
<1>4. NoImport \in ImportLocal /\ NoImport.pc = "none" /\ NoImport.made = {}
  BY DEF NoImport, ImportLocal, ImportPC
<1>5. IsWork(NoWork) /\ NoWork.pc = "off" /\ NoWork.todo = {}
  BY DEF IsWork, NoWork, WorkerPC, Program
<1>6. QED BY <1>3, <1>4, <1>5

-----------------------------------------------------------------------------
\* What a step does to the process that takes it.
Same(p) == rs'[p] = rs[p] /\ im'[p] = im[p] /\ wk'[p] = wk[p]

Runs(p) == WkAt(p, "research") /\ RsStep(p) /\ im'[p] = im[p] /\ wk'[p] = wk[p]

Takes(p) ==
    /\ WkAt(p, "research") /\ RsAt(p, "idle") /\ im'[p] = im[p] /\ UNCHANGED intakeDB
    /\ \E i \in wk[p].todo : /\ rs'[p] = [NoRun EXCEPT !.pc = "enter", !.tgt = i]
                            /\ wk'[p] = [wk[p] EXCEPT !.todo = wk[p].todo \ {i}]

Drops(p) ==
    /\ rs'[p] = NoRun /\ wk'[p].todo = {} /\ wk'[p].pc \in {"off", "count_research"}
    /\ im'[p].made = {} /\ im'[p].pc = "none" /\ UNCHANGED intakeDB

Imports(p) == WkAt(p, "import") /\ ImStep(p) /\ rs'[p] = rs[p] /\ wk'[p] = wk[p]

Loads(p) ==
    /\ RsAt(p, "idle") /\ rs'[p] = rs[p] /\ UNCHANGED intakeDB
    /\ im'[p].made = {} /\ im'[p].pc = "none"
    /\ \/ /\ wk'[p].pc = "research"
          /\ wk'[p].todo \subseteq Pending \/ (WkAt(p, "import") /\ wk'[p].todo \subseteq im[p].made)
       \/ wk'[p].pc = "draft" /\ wk'[p].todo \subseteq DraftEligible

Drafts(p) ==
    /\ WkAt(p, "draft") /\ wk'[p].pc = "draft" /\ rs'[p] = rs[p] /\ im'[p] = im[p]
    /\ UNCHANGED <<accounts, policy>>
    /\ \E i \in wk[p].todo :
           /\ wk'[p].todo = wk[p].todo \ {i}
           /\ \/ /\ targets[i].state = "scored" /\ Allowed(i)
                 /\ \E to \in {"awaiting_review", "failed"} :
                        targets' = [targets EXCEPT ![i].state = to]
              \/ UNCHANGED targets

Counts(p) ==
    /\ WkAt(p, "count_research") /\ wk'[p].pc = "count_drafts"
    /\ wk'[p].pending = Cardinality(Pending)

Finds(p) ==
    /\ WkAt(p, "count_drafts") /\ wk'[p].pc = "complete"
    /\ wk[p].pending + Cardinality({i \in DraftEligible : Allowed(i)}) = 0

Idles(p) ==
    /\ RsAt(p, "idle") /\ rs'[p] = rs[p] /\ UNCHANGED intakeDB
    /\ wk'[p].todo = {} /\ wk'[p].pc \notin {"research", "draft"}
    /\ im'[p].made = {} /\ im'[p].pc \in {"none", "row"}
    /\ im'[p].pc = "row" => wk'[p].pc = "import" /\ im[p].pc = "none"
    /\ wk'[p].pc = "count_drafts" => Counts(p)
    /\ wk'[p].pc = "complete" => Finds(p)

Moves(p) == Runs(p) \/ Takes(p) \/ Drops(p) \/ Imports(p) \/ Loads(p) \/ Drafts(p) \/ Idles(p)

\* Only p's own state moves.
Own(p) ==
    /\ rs' = [rs EXCEPT ![p] = rs'[p]]
    /\ im' = [im EXCEPT ![p] = im'[p]] /\ im'[p] \in ImportLocal
    /\ wk' = [wk EXCEPT ![p] = wk'[p]] /\ IsWork(wk'[p])

LEMMA OthersStay ==
  ASSUME Types, NEW p \in Proc, Own(p), NEW q \in Proc \ {p}
  PROVE  Same(q)
  BY DEF Types, Own, Same

LEMMA SetsWork ==
  ASSUME Types, NEW p \in Proc, NEW w, wk' = [wk EXCEPT ![p] = w]
  PROVE  wk'[p] = w /\ wk' = [wk EXCEPT ![p] = wk'[p]]
  BY DEF Types

LEMMA SetsImport ==
  ASSUME Types, NEW p \in Proc, NEW w \in ImportLocal, im' = [im EXCEPT ![p] = w]
  PROVE  im'[p] = w /\ im' = [im EXCEPT ![p] = im'[p]] /\ im'[p] \in ImportLocal
  BY DEF Types

LEMMA SetsRun ==
  ASSUME Types, NEW p \in Proc, NEW w, rs' = [rs EXCEPT ![p] = w]
  PROVE  rs'[p] = w /\ rs' = [rs EXCEPT ![p] = rs'[p]]
  BY DEF Types

LEMMA Keep ==
  ASSUME Types, NEW p \in Proc
  PROVE  /\ UNCHANGED rs => rs' = [rs EXCEPT ![p] = rs'[p]] /\ rs'[p] = rs[p]
         /\ UNCHANGED im => im' = [im EXCEPT ![p] = im'[p]] /\ im'[p] = im[p] /\ im'[p] \in ImportLocal
         /\ UNCHANGED wk => wk' = [wk EXCEPT ![p] = wk'[p]] /\ wk'[p] = wk[p] /\ IsWork(wk'[p])
  BY DEF Types

\* New shapes of a program.
LEMMA WorkShapes ==
  ASSUME NEW w, IsWork(w)
  PROVE  /\ \A pc \in WorkerPC : IsWork([w EXCEPT !.pc = pc])
         /\ \A t \in SUBSET Nat : IsWork([w EXCEPT !.todo = t])
                                  /\ [w EXCEPT !.todo = t].todo = t
                                  /\ [w EXCEPT !.todo = t].pc = w.pc
         /\ \A pc \in WorkerPC : [w EXCEPT !.pc = pc].pc = pc /\ [w EXCEPT !.pc = pc].todo = w.todo
  BY DEF IsWork

\* Where the invocation of the Taskmaster and a batch leave a program.
LEMMA LeaveShape ==
  ASSUME Types, NEW p \in Proc, Leave(p)
  PROVE  /\ wk' = [wk EXCEPT ![p] = wk'[p]] /\ IsWork(wk'[p])
         /\ wk'[p].todo = {} /\ wk'[p].pc \in {"off", "count_research"}
<1> DEFINE w == IF wk[p].program = "autonomous"
                THEN [NoWork EXCEPT !.pc = "count_research", !.program = "autonomous",
                                    !.iteration = wk[p].iteration]
                ELSE NoWork
<1>1. wk' = [wk EXCEPT ![p] = w]
  BY DEF Leave
<1>2. wk'[p] = w /\ wk' = [wk EXCEPT ![p] = wk'[p]]
  BY <1>1 DEF Types
<1>3. wk[p].iteration \in Nat
  BY DEF Types, IsWork
<1>4. IsWork(w) /\ w.todo = {} /\ w.pc \in {"off", "count_research"}
  BY <1>3 DEF NoWork, IsWork, WorkerPC, Program
<1>5. QED BY <1>2, <1>4

LEMMA BatchDoneShape ==
  ASSUME Types, NEW p \in Proc, BatchDone(p), wk[p].pc \in {"import", "research", "draft"}
  PROVE  /\ wk' = [wk EXCEPT ![p] = wk'[p]] /\ IsWork(wk'[p])
         /\ wk'[p].todo \in {wk[p].todo, {}} /\ wk'[p].pc \in {"off", "choose"}
<1> DEFINE w == IF IsCli(p) THEN NoWork ELSE [wk[p] EXCEPT !.pc = "choose", !.limit = 0]
<1>1. wk' = [wk EXCEPT ![p] = w]
  BY DEF BatchDone, Types
<1>2. wk'[p] = w /\ wk' = [wk EXCEPT ![p] = wk'[p]]
  BY <1>1 DEF Types
<1>3. IsWork(wk[p])
  BY DEF Types
<1>4. IsWork(w) /\ w.todo \in {wk[p].todo, {}} /\ w.pc \in {"off", "choose"}
  BY <1>3 DEF NoWork, IsWork, WorkerPC, Program
<1>5. QED BY <1>2, <1>4

\* Programs start with nothing at hand.
LEMMA StartMoves ==
  ASSUME Types, NEW p \in Proc,
         \/ \E rows \in Files : StartCli(p, rows)
         \/ StartTaskmaster(p) \/ StartAutonomous(p)
  PROVE  Own(p) /\ Idles(p)
<1>1. /\ WkAt(p, "off") /\ RsAt(p, "idle") /\ im[p] \in ImportLocal
      /\ im[p].pc = "none" /\ im[p].made = {} /\ UNCHANGED <<intakeDB, rs>>
  BY DEF Types, StartCli, StartTaskmaster, StartAutonomous, WkAt, RsAt, ImportLocal
<1>2. rs' = [rs EXCEPT ![p] = rs'[p]] /\ rs'[p] = rs[p]
  BY <1>1, Keep
<1>3. ASSUME NEW rows \in Files, StartCli(p, rows)
      PROVE  Own(p) /\ Idles(p)
  <2> DEFINE w == [NoWork EXCEPT !.pc = "import", !.limit = Len(rows)]
             m == [NoImport EXCEPT !.pc = "row", !.rows = rows]
  <2>1. rows \in Seq(CsvRow) /\ Len(rows) \in Nat
    BY TaskmasterAssumption
  <2>2. IsWork(w) /\ w.pc = "import" /\ w.todo = {}
    BY <2>1 DEF NoWork, IsWork, WorkerPC, Program
  <2>3. m \in ImportLocal /\ m.pc = "row" /\ m.made = {}
    BY <2>1 DEF NoImport, ImportLocal, ImportPC
  <2>4. wk'[p] = w /\ wk' = [wk EXCEPT ![p] = wk'[p]]
    BY <1>3 DEF StartCli, Types
  <2>5. im'[p] = m /\ im' = [im EXCEPT ![p] = im'[p]]
    BY <1>3 DEF StartCli, StartImport, Types
  <2>6. QED BY <1>1, <1>2, <2>2, <2>3, <2>4, <2>5 DEF Own, Idles
<1>4. CASE StartTaskmaster(p) \/ StartAutonomous(p)
  <2> DEFINE w == IF StartTaskmaster(p)
                  THEN [NoWork EXCEPT !.pc = "guard", !.program = "taskmaster_cli"]
                  ELSE [NoWork EXCEPT !.pc = "count_research", !.program = "autonomous"]
  <2>1. wk' = [wk EXCEPT ![p] = w]
    BY <1>4 DEF StartTaskmaster, StartAutonomous
  <2>2. IsWork(w) /\ w.pc \in {"guard", "count_research"} /\ w.todo = {}
    BY DEF NoWork, IsWork, WorkerPC, Program
  <2>3. wk'[p] = w /\ wk' = [wk EXCEPT ![p] = wk'[p]]
    BY <2>1 DEF Types
  <2>4. im' = [im EXCEPT ![p] = im'[p]] /\ im'[p] = im[p]
    BY <1>4, Keep DEF StartTaskmaster, StartAutonomous
  <2>5. QED BY <1>1, <1>2, <2>2, <2>3, <2>4 DEF Own, Idles
<1>5. QED BY <1>3, <1>4

LEMMA FiniteTargets ==
  ASSUME Types, NEW S, S \subseteq DOMAIN targets
  PROVE  IsFiniteSet(S) /\ Cardinality(S) \in Nat
<1>1. DOMAIN targets = 1..Len(targets) /\ Len(targets) \in Nat
  BY DEF Types
<1>2. IsFiniteSet(1..Len(targets))
  BY <1>1, FS_Interval
<1>3. S \subseteq 1..Len(targets)
  BY <1>1
<1>4. QED BY <1>2, <1>3, FS_Subset, FS_CardinalityType

\* A program between two pieces of work.
Unladen(p) ==
    /\ RsAt(p, "idle") /\ im[p] \in ImportLocal /\ im[p].pc = "none" /\ im[p].made = {}
    /\ wk[p].todo = {} /\ IsWork(wk[p])

LEMMA UnladenHere ==
  ASSUME Types, NEW p \in Proc, wk[p].pc \notin {"import", "research", "draft"}
  PROVE  Unladen(p)
  BY DEF Types, Unladen, RsAt

LEMMA CountMoves ==
  ASSUME Types, NEW p \in Proc, CountResearch(p) \/ CountDrafts(p)
  PROVE  Own(p) /\ Idles(p)
<1>1. Unladen(p) /\ UNCHANGED <<intakeDB, im, rs>>
  BY UnladenHere DEF CountResearch, CountDrafts, WkAt
<1>2. /\ rs' = [rs EXCEPT ![p] = rs'[p]] /\ rs'[p] = rs[p]
      /\ im' = [im EXCEPT ![p] = im'[p]] /\ im'[p] = im[p] /\ im'[p] \in ImportLocal
  BY <1>1, Keep
<1>3. IsWork(wk[p]) /\ wk[p].iteration \in Nat
  BY DEF Types, IsWork
<1>4. CASE CountResearch(p)
  <2> DEFINE w == [wk[p] EXCEPT !.pc = "count_drafts", !.pending = Cardinality(Pending)]
  <2>1. Cardinality(Pending) \in Nat
    BY FiniteTargets DEF Pending
  <2>2. IsWork(w) /\ w.pc = "count_drafts" /\ w.pending = Cardinality(Pending) /\ w.todo = wk[p].todo
    BY <1>3, <2>1 DEF IsWork, WorkerPC
  <2>3. wk' = [wk EXCEPT ![p] = w] /\ WkAt(p, "count_research")
    BY <1>4 DEF CountResearch, Types
  <2>4. wk'[p] = w /\ wk' = [wk EXCEPT ![p] = wk'[p]]
    BY <2>3 DEF Types
  <2>5. QED BY <1>1, <1>2, <2>2, <2>3, <2>4 DEF Own, Idles, Counts, Unladen
<1>5. CASE CountDrafts(p)
  <2> DEFINE next == [NoWork EXCEPT !.pc = "guard", !.program = "autonomous",
                                    !.iteration = wk[p].iteration + 1]
             n == wk[p].pending + Cardinality({i \in DraftEligible : Allowed(i)})
  <2>1. WkAt(p, "count_drafts")
        /\ \/ n = 0 /\ wk' = [wk EXCEPT ![p] = [wk[p] EXCEPT !.pc = "complete"]]
           \/ wk' = [wk EXCEPT ![p] = [wk[p] EXCEPT !.pc = "bound"]]
           \/ wk' = [wk EXCEPT ![p] = next]
    BY <1>5 DEF CountDrafts, WkGoto, Types
  <2>2. IsWork(next) /\ next.pc = "guard" /\ next.todo = {}
    BY <1>3 DEF NoWork, IsWork, WorkerPC, Program
  <2>3. \A pc \in {"complete", "bound"} :
            LET w == [wk[p] EXCEPT !.pc = pc] IN IsWork(w) /\ w.pc = pc /\ w.todo = wk[p].todo
    BY <1>3 DEF IsWork, WorkerPC
  <2>4. \A w : wk' = [wk EXCEPT ![p] = w] => wk'[p] = w /\ wk' = [wk EXCEPT ![p] = wk'[p]]
    BY DEF Types
  <2>5. CASE n = 0 /\ wk' = [wk EXCEPT ![p] = [wk[p] EXCEPT !.pc = "complete"]]
    <3>1. Finds(p)
      <4>1. wk'[p] = [wk[p] EXCEPT !.pc = "complete"]
        BY <2>4, <2>5
      <4>2. wk'[p].pc = "complete"
        BY <2>3, <4>1
      <4>3. QED BY <2>1, <2>5, <4>2 DEF Finds
    <3>2. QED BY <1>1, <1>2, <2>3, <2>4, <2>5, <3>1 DEF Own, Idles, Unladen
  <2>6. CASE wk' = [wk EXCEPT ![p] = [wk[p] EXCEPT !.pc = "bound"]]
    BY <1>1, <1>2, <2>3, <2>4, <2>6 DEF Own, Idles, Unladen
  <2>7. CASE wk' = [wk EXCEPT ![p] = next]
    BY <1>1, <1>2, <2>2, <2>4, <2>7 DEF Own, Idles, Unladen
  <2>8. QED BY <2>1, <2>5, <2>6, <2>7
<1>6. QED BY <1>4, <1>5

\* The Taskmaster's model reports, calls a tool that refuses, or is halted.
LEMMA TalkMoves ==
  ASSUME Types, NEW p \in Proc, Exit(p) \/ EnterTaskmaster(p) \/ RefusedCall(p) \/ Report(p)
  PROVE  Own(p) /\ Idles(p)
<1>1. Unladen(p) /\ UNCHANGED <<intakeDB, im, rs>>
  BY UnladenHere DEF Exit, EnterTaskmaster, RefusedCall, ToolCall, Report, WkAt
<1>2. /\ rs' = [rs EXCEPT ![p] = rs'[p]] /\ rs'[p] = rs[p]
      /\ im' = [im EXCEPT ![p] = im'[p]] /\ im'[p] = im[p] /\ im'[p] \in ImportLocal
  BY <1>1, Keep
<1>3. \A w : wk' = [wk EXCEPT ![p] = w] => wk'[p] = w /\ wk' = [wk EXCEPT ![p] = wk'[p]]
  BY DEF Types
<1>4. IsWork(wk[p])
  BY DEF Types
<1>5. /\ wk' = [wk EXCEPT ![p] = wk'[p]] /\ IsWork(wk'[p]) /\ wk'[p].todo = {}
      /\ wk'[p].pc \in {"off", "count_research", "choose"}
  <2>1. CASE Exit(p)
    BY <1>3, <2>1, EmptyShapes DEF Exit
  <2>2. CASE Leave(p)
    BY <2>2, LeaveShape
  <2>3. CASE EnterTaskmaster(p) /\ ~Leave(p)
    <3>1. wk' = [wk EXCEPT ![p] = [wk[p] EXCEPT !.pc = "choose"]]
      BY <2>3 DEF EnterTaskmaster, WkGoto, Types
    <3>2. LET w == [wk[p] EXCEPT !.pc = "choose"]
          IN IsWork(w) /\ w.pc = "choose" /\ w.todo = wk[p].todo
      BY <1>4 DEF IsWork, WorkerPC
    <3>3. QED BY <1>1, <1>3, <3>1, <3>2 DEF Unladen
  <2>4. CASE RefusedCall(p)
    <3> DEFINE w == [wk[p] EXCEPT !.calls = wk[p].calls + 1]
    <3>1. wk' = [wk EXCEPT ![p] = w] /\ wk[p].pc = "choose"
      BY <2>4 DEF RefusedCall, ToolCall, WkAt, Types
    <3>2. IsWork(w) /\ w.pc = wk[p].pc /\ w.todo = wk[p].todo
      BY <1>4 DEF IsWork
    <3>3. QED BY <1>1, <1>3, <3>1, <3>2 DEF Unladen
  <2>5. QED BY <2>1, <2>2, <2>3, <2>4 DEF Report
<1>6. QED BY <1>1, <1>2, <1>5 DEF Own, Idles, Unladen

\* A tool takes up a batch.
LEMMA ToolMoves ==
  ASSUME Types, NEW p \in Proc,
         \/ \E rows \in Files, limit \in 0..MAX_BATCH_SIZE + 1 : ImportAndResearch(p, rows, limit)
         \/ \E limit \in 0..MAX_BATCH_SIZE + 1 :
                ResumePendingResearch(p, limit) \/ DraftForScored(p, limit)
  PROVE  Own(p) /\ (Idles(p) \/ Loads(p))
<1>1. Unladen(p) /\ UNCHANGED <<intakeDB, rs>> /\ MAX_BATCH_SIZE \in Nat
  BY UnladenHere, TaskmasterAssumption
     DEF ImportAndResearch, ResumePendingResearch, DraftForScored, ToolCall, WkAt
<1>2. rs' = [rs EXCEPT ![p] = rs'[p]] /\ rs'[p] = rs[p]
  BY <1>1, Keep
<1>3. \A w : wk' = [wk EXCEPT ![p] = w] => wk'[p] = w /\ wk' = [wk EXCEPT ![p] = wk'[p]]
  BY DEF Types
<1>4. IsWork(wk[p])
  BY DEF Types
<1>5. ASSUME NEW rows \in Files, NEW limit \in 0..MAX_BATCH_SIZE + 1,
             ImportAndResearch(p, rows, limit)
      PROVE  Own(p) /\ Idles(p)
  <2> DEFINE w == [wk[p] EXCEPT !.pc = "import", !.calls = wk[p].calls + 1, !.limit = limit]
             m == [NoImport EXCEPT !.pc = "row", !.rows = rows]
  <2>1. rows \in Seq(CsvRow) /\ limit \in Nat
    BY <1>1, TaskmasterAssumption
  <2>2. IsWork(w) /\ w.pc = "import" /\ w.todo = wk[p].todo
    BY <1>4, <2>1 DEF IsWork, WorkerPC
  <2>3. m \in ImportLocal /\ m.pc = "row" /\ m.made = {}
    BY <2>1 DEF NoImport, ImportLocal, ImportPC
  <2>4. wk' = [wk EXCEPT ![p] = w]
    BY <1>5 DEF ImportAndResearch, Types
  <2>5. im'[p] = m /\ im' = [im EXCEPT ![p] = im'[p]]
    BY <1>5 DEF ImportAndResearch, StartImport, Types
  <2>6. QED BY <1>1, <1>2, <1>3, <2>2, <2>3, <2>4, <2>5 DEF Own, Idles, Unladen
<1>6. ASSUME NEW limit \in 0..MAX_BATCH_SIZE + 1,
             ResumePendingResearch(p, limit) \/ DraftForScored(p, limit)
      PROVE  Own(p) /\ Loads(p)
  <2> DEFINE pc == IF ResumePendingResearch(p, limit) THEN "research" ELSE "draft"
             todo == First(limit, IF ResumePendingResearch(p, limit) THEN Pending ELSE DraftEligible)
             w == [wk[p] EXCEPT !.pc = pc, !.calls = wk[p].calls + 1, !.todo = todo]
  <2>1. wk' = [wk EXCEPT ![p] = w]
    <3>1. CASE ResumePendingResearch(p, limit)
      BY <3>1 DEF ResumePendingResearch, Types
    <3>2. CASE ~ResumePendingResearch(p, limit)
      BY <1>6, <3>2 DEF DraftForScored, Types
    <3>3. QED BY <3>1, <3>2
  <2>2. todo \subseteq IF ResumePendingResearch(p, limit) THEN Pending ELSE DraftEligible
    BY DEF First
  <2>3. todo \subseteq Nat
    <3>1. DOMAIN targets = 1..Len(targets) /\ Len(targets) \in Nat
      BY DEF Types
    <3>2. todo \subseteq DOMAIN targets
      BY <2>2 DEF Pending, DraftEligible
    <3>3. QED BY <3>1, <3>2
  <2>4. IsWork(w) /\ w.pc = pc /\ w.todo = todo
    BY <1>4, <2>3 DEF IsWork, WorkerPC
  <2>5. im' = [im EXCEPT ![p] = im'[p]] /\ im'[p] = im[p] /\ im'[p] \in ImportLocal
    BY <1>6, Keep DEF ResumePendingResearch, DraftForScored
  <2>6. wk'[p] = w /\ wk' = [wk EXCEPT ![p] = wk'[p]]
    BY <1>3, <2>1
  <2>7. Own(p)
    BY <1>2, <2>4, <2>5, <2>6 DEF Own
  <2>8. Loads(p)
    <3>1. \/ wk'[p].pc = "research" /\ wk'[p].todo \subseteq Pending
          \/ wk'[p].pc = "draft" /\ wk'[p].todo \subseteq DraftEligible
      BY <2>2, <2>4, <2>6
    <3>2. QED BY <1>1, <1>2, <2>5, <3>1 DEF Loads, Unladen
  <2>9. QED BY <2>7, <2>8
<1>7. QED BY <1>5, <1>6

\* A row of a file: the import moves on, and at its end hands its targets over.
LEMMA ImportMoves ==
  ASSUME Types, NEW p \in Proc, ImportStep(p)
  PROVE  Own(p) /\ (Imports(p) \/ Loads(p) \/ Idles(p))
<1>1. /\ WkAt(p, "import") /\ RsAt(p, "idle") /\ wk[p].todo = {} /\ UNCHANGED rs
      /\ im[p] \in ImportLocal /\ IsWork(wk[p])
  BY DEF ImportStep, WkAt, RsAt, Types
<1>2. rs' = [rs EXCEPT ![p] = rs'[p]] /\ rs'[p] = rs[p]
  BY <1>1, Keep
<1>3. CASE ImStep(p) /\ UNCHANGED wk
  <2>1. im' = [im EXCEPT ![p] = im'[p]] /\ im'[p] \in ImportLocal
    <3>1. CASE EndOfFile(p) \/ InsertAccount(p)
      <4>1. \E pc \in ImportPC : im' = [im EXCEPT ![p] = [im[p] EXCEPT !.pc = pc]]
        BY <3>1 DEF EndOfFile, InsertAccount, ImGoto, ImportPC, Types
      <4>2. \A pc \in ImportPC : [im[p] EXCEPT !.pc = pc] \in ImportLocal
        BY <1>1 DEF ImportLocal
      <4>3. QED BY <4>1, <4>2, SetsImport
    <3>2. CASE InsertTarget(p)
      <4>1. CASE ~CurrentRow(p).flag
        <5>1. im' = [im EXCEPT ![p] = [im[p] EXCEPT !.pc = "raised"]]
          BY <3>2, <4>1 DEF InsertTarget, ImGoto, Types
        <5>2. [im[p] EXCEPT !.pc = "raised"] \in ImportLocal
          BY <1>1 DEF ImportLocal, ImportPC
        <5>3. QED BY <5>1, <5>2, SetsImport
      <4>2. CASE CurrentRow(p).flag
        <5>1. Tail(im[p].rows) \in Seq(CsvRow)
          <6>1. im[p].rows \in Seq(CsvRow)
            BY <1>1 DEF ImportLocal
          <6>2. CASE im[p].rows = <<>>
            <7>1. Tail(<<>>) = <<>>
              OBVIOUS
            <7>2. QED BY <6>2, <7>1
          <6>3. CASE im[p].rows # <<>>
            BY <6>1, <6>3
          <6>4. QED BY <6>2, <6>3
        <5>2. im[p].made \cup {Len(targets) + 1} \subseteq Nat
          BY <1>1 DEF ImportLocal, Types
        <5>3. im' = [im EXCEPT ![p] = [im[p] EXCEPT !.pc = "row", !.rows = Tail(im[p].rows),
                                           !.made = im[p].made \cup {Len(targets) + 1}]]
          BY <3>2, <4>2 DEF InsertTarget, Types
        <5>4. [im[p] EXCEPT !.pc = "row", !.rows = Tail(im[p].rows),
                            !.made = im[p].made \cup {Len(targets) + 1}] \in ImportLocal
          BY <1>1, <5>1, <5>2 DEF ImportLocal, ImportPC
        <5>5. QED BY <5>3, <5>4, SetsImport
      <4>3. QED BY <4>1, <4>2
    <3>3. QED BY <1>3, <3>1, <3>2 DEF ImStep
  <2>2. wk' = [wk EXCEPT ![p] = wk'[p]] /\ wk'[p] = wk[p]
    BY <1>3, Keep
  <2>3. QED BY <1>1, <1>2, <1>3, <2>1, <2>2 DEF Own, Imports
<1>4. CASE ImAt(p, "done") /\ ~ImStep(p)
  <2> DEFINE w == [wk[p] EXCEPT !.pc = "research", !.limit = 0,
                                !.todo = First(wk[p].limit, im[p].made)]
  <2>1. wk' = [wk EXCEPT ![p] = w] /\ im' = [im EXCEPT ![p] = NoImport] /\ UNCHANGED intakeDB
    BY <1>4 DEF ImportStep, ImAt, Types
  <2>2. First(wk[p].limit, im[p].made) \subseteq im[p].made /\ im[p].made \subseteq Nat
    BY <1>1 DEF First, ImportLocal
  <2>3. IsWork(w) /\ w.pc = "research" /\ w.todo \subseteq im[p].made
    BY <1>1, <2>2 DEF IsWork, WorkerPC
  <2>4. wk'[p] = w /\ wk' = [wk EXCEPT ![p] = wk'[p]]
    BY <2>1 DEF Types
  <2>5. im'[p] = NoImport /\ im' = [im EXCEPT ![p] = im'[p]]
    BY <2>1, EmptyShapes, SetsImport
  <2>6. QED BY <1>1, <1>2, <2>1, <2>3, <2>4, <2>5, EmptyShapes DEF Own, Loads
<1>5. CASE ImAt(p, "raised") /\ ~ImStep(p)
  <2>1. BatchDone(p) /\ im' = [im EXCEPT ![p] = NoImport] /\ UNCHANGED intakeDB
    BY <1>5 DEF ImportStep, ImAt
  <2>2. /\ wk' = [wk EXCEPT ![p] = wk'[p]] /\ IsWork(wk'[p])
        /\ wk'[p].todo = {} /\ wk'[p].pc \in {"off", "choose"}
    BY <1>1, <2>1, BatchDoneShape DEF WkAt
  <2>3. im'[p] = NoImport /\ im' = [im EXCEPT ![p] = im'[p]]
    BY <2>1, EmptyShapes, SetsImport
  <2>4. QED BY <1>1, <1>2, <2>1, <2>2, <2>3, EmptyShapes DEF Own, Idles
<1>6. ImStep(p) => ~ImAt(p, "done") /\ ~ImAt(p, "raised")
  BY DEF ImStep, EndOfFile, InsertAccount, InsertTarget, ImAt
<1>7. QED BY <1>3, <1>4, <1>5, <1>6 DEF ImportStep

LEMMA DraftMoves ==
  ASSUME Types, NEW p \in Proc, DraftStep(p)
  PROVE  Own(p) /\ (Drafts(p) \/ Idles(p))
<1>1. /\ WkAt(p, "draft") /\ RsAt(p, "idle") /\ IsWork(wk[p])
      /\ im[p].pc = "none" /\ im[p].made = {}
      /\ UNCHANGED rs /\ UNCHANGED im /\ UNCHANGED <<accounts, policy>>
  BY DEF DraftStep, WkAt, RsAt, Types
<1>2. /\ rs' = [rs EXCEPT ![p] = rs'[p]] /\ rs'[p] = rs[p]
      /\ im' = [im EXCEPT ![p] = im'[p]] /\ im'[p] = im[p] /\ im'[p] \in ImportLocal
  BY <1>1, Keep
<1>3. ASSUME NEW i \in wk[p].todo,
             \/ /\ targets[i].state = "scored" /\ Allowed(i)
                /\ \E to \in {"awaiting_review", "failed"} :
                       targets' = [targets EXCEPT ![i].state = to]
             \/ UNCHANGED targets,
             wk' = [wk EXCEPT ![p].todo = @ \ {i}]
      PROVE  Own(p) /\ Drafts(p)
  <2> DEFINE w == [wk[p] EXCEPT !.todo = wk[p].todo \ {i}]
  <2>1. wk' = [wk EXCEPT ![p] = w]
    BY <1>3 DEF Types
  <2>2. IsWork(w) /\ w.pc = "draft" /\ w.todo = wk[p].todo \ {i}
    BY <1>1 DEF IsWork, WkAt
  <2>3. wk'[p] = w /\ wk' = [wk EXCEPT ![p] = wk'[p]]
    BY <2>1 DEF Types
  <2>4. QED BY <1>1, <1>2, <1>3, <2>2, <2>3 DEF Own, Drafts
<1>4. CASE wk[p].todo = {} /\ BatchDone(p) /\ UNCHANGED targets
  <2>1. /\ wk' = [wk EXCEPT ![p] = wk'[p]] /\ IsWork(wk'[p])
        /\ wk'[p].todo = {} /\ wk'[p].pc \in {"off", "choose"}
    BY <1>1, <1>4, BatchDoneShape DEF WkAt
  <2>2. QED BY <1>1, <1>2, <1>4, <2>1 DEF Own, Idles, intakeDB
<1>5. QED BY <1>3, <1>4 DEF DraftStep

\* The deadline and the kill forget what the process had at hand.
LEMMA EndMoves ==
  ASSUME Types, NEW p \in Proc, Cancel(p) \/ Kill(p)
  PROVE  Own(p) /\ Drops(p)
<1>1. rs' = [rs EXCEPT ![p] = NoRun] /\ UNCHANGED intakeDB
  BY DEF Cancel, Kill, EndResearch
<1>2. rs'[p] = NoRun /\ rs' = [rs EXCEPT ![p] = rs'[p]]
  BY <1>1, SetsRun
<1>3. CASE Kill(p)
  <2>1. wk'[p] = NoWork /\ wk' = [wk EXCEPT ![p] = wk'[p]]
    BY <1>3, SetsWork DEF Kill
  <2>2. im'[p] = NoImport /\ im' = [im EXCEPT ![p] = im'[p]]
    BY <1>3, EmptyShapes, SetsImport DEF Kill
  <2>3. QED BY <1>1, <1>2, <2>1, <2>2, EmptyShapes DEF Own, Drops
<1>4. CASE Cancel(p)
  <2>1. im[p] \in ImportLocal /\ im[p].pc = "none" /\ im[p].made = {} /\ UNCHANGED im
    BY <1>4 DEF Cancel, WkAt, Types
  <2>2. im' = [im EXCEPT ![p] = im'[p]] /\ im'[p] = im[p]
    BY <2>1, Keep
  <2>3. /\ wk' = [wk EXCEPT ![p] = wk'[p]] /\ IsWork(wk'[p])
        /\ wk'[p].todo = {} /\ wk'[p].pc \in {"off", "count_research"}
    BY <1>4, LeaveShape DEF Cancel
  <2>4. QED BY <1>1, <1>2, <2>1, <2>2, <2>3 DEF Own, Drops
<1>5. QED BY <1>3, <1>4

\* Each step of a run rewrites the run's own state.
LEMMA RunOwns ==
  ASSUME Types, NEW p \in Proc, RsStep(p)
  PROVE  rs' = [rs EXCEPT ![p] = rs'[p]]
<1>1. \A r : rs' = [rs EXCEPT ![p] = r] => rs'[p] = r
  BY DEF Types
<1>2. ASSUME NEW pc, RsGoto(p, pc) PROVE rs' = [rs EXCEPT ![p] = rs'[p]]
  BY <1>1, <1>2 DEF RsGoto, Types
<1>3. ASSUME NEW pc, NEW result, Conclude(p, pc, result) PROVE rs' = [rs EXCEPT ![p] = rs'[p]]
  BY <1>1, <1>3 DEF Conclude
<1>4. ASSUME EndResearch(p) PROVE rs' = [rs EXCEPT ![p] = rs'[p]]
  BY <1>1, <1>4 DEF EndResearch
<1>5. CASE EnterPipeline(p) \/ Book(p) \/ ModelFails(p) \/ ScoreTarget(p) \/ ScoreMove(p)
           \/ PolicyGate(p) \/ Timeout(p) \/ RecordTimeout(p) \/ Raise(p) \/ RecordCrash(p)
           \/ Return(p)
  BY <1>2, <1>3, <1>4, <1>5 DEF EnterPipeline, Book, ModelFails, ScoreTarget, ScoreMove, PolicyGate,
     Timeout, RecordTimeout, Raise, RecordCrash, Return
<1>6. CASE FetchPage(p) \/ PersistFindings(p)
  BY <1>6 DEF FetchPage, PersistFindings, Types
<1>7. CASE Summarize(p) \/ DetectSignals(p) \/ InsertSignal(p)
  BY <1>7 DEF Summarize, DetectSignals, InsertSignal, Types
<1>8. CASE ScoreAccount(p) \/ JudgeFails(p) \/ Route(p)
  BY <1>8 DEF ScoreAccount, JudgeFails, Route, Types
<1>9. CASE Judge(p)
  BY <1>3, <1>9 DEF Judge, Types
<1>10. QED BY <1>5, <1>6, <1>7, <1>8, <1>9 DEF RsStep

LEMMA ResearchMoves ==
  ASSUME Types, NEW p \in Proc, ResearchStep(p)
  PROVE  Own(p) /\ (Runs(p) \/ Takes(p) \/ Idles(p))
<1>1. /\ WkAt(p, "research") /\ IsWork(wk[p]) /\ UNCHANGED im
      /\ im[p].pc = "none" /\ im[p].made = {}
  BY DEF ResearchStep, WkAt, Types
<1>2. im' = [im EXCEPT ![p] = im'[p]] /\ im'[p] = im[p] /\ im'[p] \in ImportLocal
  BY <1>1, Keep
<1>3. CASE RsStep(p) /\ UNCHANGED wk
  BY <1>1, <1>2, <1>3, Keep, RunOwns DEF Own, Runs
<1>4. ASSUME RsAt(p, "idle"), UNCHANGED intakeDB, NEW i \in wk[p].todo,
             StartResearch(p, i), wk' = [wk EXCEPT ![p].todo = @ \ {i}]
      PROVE  Own(p) /\ Takes(p)
  <2> DEFINE w == [wk[p] EXCEPT !.todo = wk[p].todo \ {i}]
  <2>1. wk' = [wk EXCEPT ![p] = w]
    BY <1>4 DEF Types
  <2>2. IsWork(w)
    BY <1>1 DEF IsWork
  <2>3. wk'[p] = w /\ wk' = [wk EXCEPT ![p] = wk'[p]]
    BY <2>1 DEF Types
  <2>4. /\ rs'[p] = [NoRun EXCEPT !.pc = "enter", !.tgt = i]
        /\ rs' = [rs EXCEPT ![p] = rs'[p]]
    BY <1>4 DEF StartResearch, Types
  <2>5. QED BY <1>1, <1>2, <1>4, <2>2, <2>3, <2>4 DEF Own, Takes
<1>5. CASE RsAt(p, "idle") /\ wk[p].todo = {} /\ BatchDone(p) /\ UNCHANGED <<intakeDB, rs>>
  <2>1. /\ wk' = [wk EXCEPT ![p] = wk'[p]] /\ IsWork(wk'[p])
        /\ wk'[p].todo = {} /\ wk'[p].pc \in {"off", "choose"}
    BY <1>1, <1>5, BatchDoneShape DEF WkAt
  <2>2. QED BY <1>1, <1>2, <1>5, <2>1, Keep DEF Own, Idles
<1>6. QED BY <1>3, <1>4, <1>5 DEF ResearchStep

LEMMA StepMoves ==
  ASSUME Types, NEW p \in Proc, TaskStep(p)
  PROVE  Own(p) /\ Moves(p)
BY StartMoves, CountMoves, TalkMoves, ToolMoves, ImportMoves, ResearchMoves, DraftMoves, EndMoves
   DEF TaskStep, Moves

-----------------------------------------------------------------------------
\* What a run writes, one row of one table at a time.
RunWrites(p) ==
    \/ UNCHANGED intakeDB
    \/ /\ UNCHANGED <<accounts, policy>>
       /\ \E state \in State : targets' = [targets EXCEPT ![rs[p].tgt].state = state]
    \/ /\ UNCHANGED <<accounts, policy>>
       /\ \E score \in Int : targets' = [targets EXCEPT ![rs[p].tgt].score = score]
    \/ /\ UNCHANGED <<targets, policy>>
       /\ \E row \in Account : SetAccount(rs[p].tgt, row)
    \/ /\ UNCHANGED <<accounts, targets>>
       /\ \E d \in PolicyDecision : policy' = [policy EXCEPT ![rs[p].tgt] = d]

\* The target and the account of a run in progress.
LEMMA RunTarget ==
  ASSUME Types, RowsAreClaimed, NEW p \in Proc, ~RsAt(p, "idle")
  PROVE  /\ rs[p].tgt \in DOMAIN targets /\ targets[rs[p].tgt] \in TargetRow
         /\ AccountOf(rs[p].tgt) \in DOMAIN accounts /\ Account0(rs[p].tgt) \in Account
         /\ policy[rs[p].tgt] \in PolicyDecision
         /\ Score(p) \in Int
<1>1. rs[p].tgt \in DOMAIN targets
  BY DEF Types, Work
<1>2. targets[rs[p].tgt] \in TargetRow
  BY <1>1 DEF Types
<1>3. AccountOf(rs[p].tgt) \in DOMAIN accounts /\ Account0(rs[p].tgt) \in Account
  BY <1>1 DEF RowsAreClaimed, Types, Account0
<1>4. policy[rs[p].tgt] \in PolicyDecision
  BY <1>1 DEF Types
<1>5. Score(p) \in Int
  BY <1>2, ScoreType DEF Score, Types, IsRun, TargetRow
<1>6. QED BY <1>1, <1>2, <1>3, <1>4, <1>5

\* The new state of a run, by how an action sets it.
LEMMA GotoType ==
  ASSUME Types, NEW p \in Proc, NEW pc \in ResearchPC, RsGoto(p, pc)
  PROVE  rs'[p] = [rs[p] EXCEPT !.pc = pc] /\ IsRun(rs'[p]) /\ rs'[p].tgt = rs[p].tgt
<1>1. rs'[p] = [rs[p] EXCEPT !.pc = pc] /\ IsRun(rs[p])
  BY DEF Types, RsGoto
<1>2. QED BY <1>1 DEF IsRun

LEMMA ConcludeType ==
  ASSUME Types, NEW p \in Proc, NEW pc \in ResearchPC, NEW result \in State \cup {"none"},
         Conclude(p, pc, result)
  PROVE  /\ IsRun(rs'[p]) /\ rs'[p].pc = pc /\ rs'[p].tgt = rs[p].tgt
         /\ rs'[p].result = result /\ rs'[p].tiers = {}
<1>1. rs'[p] = [NoRun EXCEPT !.pc = pc, !.tgt = rs[p].tgt, !.result = result]
  BY DEF Types, Conclude
<1>2. IsRun(NoRun) /\ NoRun.tiers = {} /\ rs[p].tgt \in Nat
  BY EmptyShapes DEF Types, IsRun
<1>3. QED BY <1>1, <1>2 DEF IsRun

LEMMA EndType ==
  ASSUME Types, NEW p \in Proc, EndResearch(p)
  PROVE  rs'[p] = NoRun /\ IsRun(rs'[p]) /\ rs'[p].pc = "idle" /\ rs'[p].tiers = {}
BY EmptyShapes DEF Types, EndResearch

LEMMA MoveType ==
  ASSUME NEW i, NEW from, NEW to, Move(i, from, to)
  PROVE  /\ to \in State /\ to # "new" /\ targets' = [targets EXCEPT ![i].state = to]
<1>1. \A t \in VALID_TRANSITIONS : t[2] \in State \ {"new"}
  BY DEF VALID_TRANSITIONS, State
<1>2. to \in State \ {"new"}
  BY <1>1 DEF Move, IsValid, ANY_TARGET_TRANSITIONS, State
<1>3. QED BY <1>2 DEF Move

LEMMA RunTypes ==
  ASSUME Types, RowsAreClaimed, NEW p \in Proc, RsStep(p)
  PROVE  /\ RunWrites(p) /\ IsRun(rs'[p])
         /\ ~RsAt(p, "idle") /\ (rs'[p].pc # "idle" => rs'[p].tgt = rs[p].tgt)
<1> DEFINE Goal == /\ RunWrites(p) /\ IsRun(rs'[p])
                   /\ rs'[p].pc # "idle" => rs'[p].tgt = rs[p].tgt
<1>1. ~RsAt(p, "idle")
  BY DEF RsStep, RsAt, EnterPipeline, FetchPage, Book, PersistFindings, ModelFails, Summarize,
         DetectSignals, InsertSignal, ScoreAccount, ScoreTarget, ScoreMove, JudgeFails, Judge, Route,
         PolicyGate, Timeout, Awaiting, RecordTimeout, Raise, RecordCrash, Return
<1>2. /\ rs[p].tgt \in DOMAIN targets /\ targets[rs[p].tgt] \in TargetRow
      /\ AccountOf(rs[p].tgt) \in DOMAIN accounts /\ Account0(rs[p].tgt) \in Account
      /\ Score(p) \in Int
  BY <1>1, RunTarget
<1>3. IsRun(rs[p])
  BY DEF Types
<1>4. SUFFICES Goal
  BY <1>1
<1>5. ASSUME NEW pc \in ResearchPC,
             RsGoto(p, pc) \/ \E result \in State \cup {"none"} : Conclude(p, pc, result)
      PROVE  IsRun(rs'[p]) /\ rs'[p].tgt = rs[p].tgt
  BY <1>5, GotoType, ConcludeType
<1>6. CASE EnterPipeline(p) \/ Timeout(p) \/ Raise(p)
  <2>1. \E pc \in ResearchPC : RsGoto(p, pc) \/ \E result \in State \cup {"none"} : Conclude(p, pc, result)
    BY <1>6 DEF EnterPipeline, Timeout, Raise, ResearchPC, State
  <2>2. UNCHANGED intakeDB
    BY <1>6 DEF EnterPipeline, Timeout, Raise
  <2>3. QED BY <1>5, <2>1, <2>2 DEF RunWrites
<1>7. CASE Return(p)
  BY <1>7, EndType DEF Return, RunWrites
<1>8. CASE FetchPage(p) \/ PersistFindings(p)
  <2>1. \/ rs'[p] = [rs[p] EXCEPT !.stored = rs[p].stored \cup {"page"}]
        \/ rs'[p] = [rs[p] EXCEPT !.pc = "summarize", !.stored = rs[p].stored \cup {"findings"}]
    BY <1>8 DEF FetchPage, PersistFindings, Types
  <2>2. IsRun(rs'[p]) /\ rs'[p].tgt = rs[p].tgt
    <3>1. CASE rs'[p] = [rs[p] EXCEPT !.stored = rs[p].stored \cup {"page"}]
      BY <1>3, <3>1 DEF IsRun
    <3>2. CASE rs'[p] = [rs[p] EXCEPT !.pc = "summarize", !.stored = rs[p].stored \cup {"findings"}]
      BY <1>3, <3>2 DEF IsRun, ResearchPC
    <3>3. QED BY <2>1, <3>1, <3>2
  <2>3. QED BY <1>8, <2>2 DEF FetchPage, PersistFindings, RunWrites
<1>9. CASE Book(p) \/ ModelFails(p) \/ ScoreMove(p) \/ RecordTimeout(p) \/ RecordCrash(p)
  <2>1. \/ \E pc \in ResearchPC :
               RsGoto(p, pc) \/ \E result \in State \cup {"none"} : Conclude(p, pc, result)
        \/ EndResearch(p)
    BY <1>9 DEF Book, ModelFails, ScoreMove, RecordTimeout, RecordCrash, ResearchPC, State
  <2>2. /\ UNCHANGED <<accounts, policy>>
        /\ UNCHANGED targets \/ \E from, to : Move(rs[p].tgt, from, to)
    BY <1>9 DEF Book, ModelFails, ScoreMove, RecordTimeout, RecordCrash
  <2>3. RunWrites(p)
    BY <2>2, MoveType DEF RunWrites, intakeDB
  <2>4. QED BY <1>5, <2>1, <2>3, EndType
<1>10. CASE Summarize(p)
  <2>1. PICK profile \in Profiles :
            /\ SetAccount(rs[p].tgt, [Account0(rs[p].tgt) EXCEPT !.summary = profile.summary])
            /\ rs' = [rs EXCEPT ![p].pc = "detect", ![p].profile = profile]
    BY <1>10 DEF Summarize, Account0
  <2>2. profile \in CompanyProfile
    BY ResearchAssumption
  <2>3. [Account0(rs[p].tgt) EXCEPT !.summary = profile.summary] \in Account
    BY <1>2, <2>2 DEF Account, CompanyProfile
  <2>4. rs'[p] = [rs[p] EXCEPT !.pc = "detect", !.profile = profile]
    BY <2>1 DEF Types
  <2>5. RunWrites(p)
    BY <1>10, <2>1, <2>3 DEF Summarize, RunWrites
  <2>6. QED BY <1>3, <2>2, <2>4, <2>5 DEF IsRun, ResearchPC
<1>11. CASE DetectSignals(p)
  <2>1. PICK sigs \in SignalLists :
            rs' = [rs EXCEPT ![p].pc = IF DOMAIN sigs = {} THEN "score" ELSE "signals",
                             ![p].sigs = sigs, ![p].hits = DOMAIN sigs]
    BY <1>11 DEF DetectSignals
  <2>2. IsSignalList(sigs)
    BY ResearchAssumption
  <2>3. PICK pc \in ResearchPC :
            rs'[p] = [rs[p] EXCEPT !.pc = pc, !.sigs = sigs, !.hits = DOMAIN sigs]
    BY <2>1 DEF Types, ResearchPC
  <2>4. IsRun(rs'[p]) /\ rs'[p].tgt = rs[p].tgt
    BY <1>3, <2>2, <2>3 DEF IsRun
  <2>5. QED BY <1>11, <2>4 DEF DetectSignals, RunWrites
<1>12. CASE InsertSignal(p)
  <2>1. PICK type \in rs[p].hits, tier \in Tier :
            rs' = [rs EXCEPT ![p].hits = @ \ {type}, ![p].tiers = @ \cup {tier},
                             ![p].pc = IF rs[p].hits = {type} THEN "score" ELSE @]
    BY <1>12 DEF InsertSignal
  <2>2. PICK pc \in ResearchPC :
            rs'[p] = [rs[p] EXCEPT !.hits = rs[p].hits \ {type},
                                   !.tiers = rs[p].tiers \cup {tier}, !.pc = pc]
    <3>1. rs[p].pc \in ResearchPC /\ "score" \in ResearchPC
      BY <1>3 DEF IsRun, ResearchPC
    <3>2. QED BY <2>1, <3>1 DEF Types
  <2>3. IsRun(rs'[p]) /\ rs'[p].tgt = rs[p].tgt
    BY <1>3, <2>2 DEF IsRun
  <2>4. QED BY <1>12, <2>3 DEF InsertSignal, RunWrites
<1>13. CASE ScoreAccount(p)
  <2> DEFINE row == [Account0(rs[p].tgt) EXCEPT !.label = FitLabelOf(Score(p)), !.score = Score(p)]
  <2>1. row \in Account
    BY <1>2, LabelType DEF Account
  <2>2. SetAccount(rs[p].tgt, row) /\ UNCHANGED <<targets, policy>>
    BY <1>13 DEF ScoreAccount, Account0
  <2>3. rs'[p] = [rs[p] EXCEPT !.pc = "score_target", !.stored = {}, !.tiers = {}]
    BY <1>13 DEF ScoreAccount, Types
  <2>4. RunWrites(p)
    BY <2>1, <2>2 DEF RunWrites
  <2>5. QED BY <1>3, <2>3, <2>4 DEF IsRun, ResearchPC
<1>14. CASE ScoreTarget(p)
  <2>1. RunWrites(p)
    BY <1>2, <1>14 DEF ScoreTarget, RunWrites
  <2>2. RsGoto(p, "score_move")
    BY <1>14 DEF ScoreTarget
  <2>3. "score_move" \in ResearchPC
    BY DEF ResearchPC
  <2>4. QED BY <1>5, <2>1, <2>2, <2>3
<1>15. CASE JudgeFails(p)
  <2>1. rs'[p] = [rs[p] EXCEPT !.pc = "route", !.label = FitLabelOf(Score(p))]
    BY <1>15 DEF JudgeFails, Types
  <2>2. FitLabelOf(Score(p)) \in FitLabel
    BY <1>2, LabelType
  <2>3. IsRun(rs'[p]) /\ rs'[p].tgt = rs[p].tgt
    BY <1>3, <2>1, <2>2 DEF IsRun, ResearchPC
  <2>4. QED BY <1>15, <2>3 DEF JudgeFails, RunWrites
<1>16. CASE Judge(p)
  <2>1. CASE Conclude(p, "crashed", "none") /\ UNCHANGED accounts
    <3>1. RunWrites(p)
      BY <1>16, <2>1 DEF Judge, RunWrites, intakeDB
    <3>2. "crashed" \in ResearchPC
      BY DEF ResearchPC
    <3>3. QED BY <1>5, <2>1, <3>1, <3>2
  <2>2. ASSUME NEW label \in Verdicts,
               SetAccount(rs[p].tgt, [Account0(rs[p].tgt) EXCEPT !.judge = label]),
               rs' = [rs EXCEPT ![p].pc = "route", ![p].label = label]
        PROVE  Goal
    <3>1. label \in FitLabel
      BY ResearchAssumption
    <3>2. [Account0(rs[p].tgt) EXCEPT !.judge = label] \in Account
      BY <1>2, <3>1 DEF Account
    <3>3. RunWrites(p)
      BY <1>16, <2>2, <3>2 DEF Judge, RunWrites
    <3>4. rs'[p] = [rs[p] EXCEPT !.pc = "route", !.label = label]
      BY <2>2 DEF Types
    <3>5. QED BY <1>3, <3>1, <3>3, <3>4 DEF IsRun, ResearchPC
  <2>3. QED BY <1>16, <2>1, <2>2 DEF Judge, Account0
<1>17. CASE Route(p)
  <2>1. rs'[p] = [rs[p] EXCEPT !.pc = "gate", !.label = "none", !.result = StateOf(rs[p].label)]
    BY <1>17 DEF Route, Types
  <2>2. RunWrites(p)
    BY <1>17, MoveType DEF Route, RunWrites, intakeDB
  <2>3. QED BY <1>3, <2>1, <2>2, StateOfType DEF IsRun, ResearchPC
<1>18. CASE PolicyGate(p)
  <2>1. Decision(rs[p].profile, Score(p)) \in PolicyDecision
    BY <1>2, <1>3, DecisionType DEF IsRun, PolicyDecision
  <2>2. RunWrites(p)
    BY <1>18, <2>1 DEF PolicyGate, RunWrites, PolicyDecision
  <2>3. Conclude(p, "return", rs[p].result) /\ rs[p].result \in State \cup {"none"}
    BY <1>3, <1>18 DEF PolicyGate, IsRun
  <2>4. "return" \in ResearchPC
    BY DEF ResearchPC
  <2>5. QED BY <1>5, <2>2, <2>3, <2>4
<1>19. QED
  BY <1>6, <1>7, <1>8, <1>9, <1>10, <1>11, <1>12, <1>13, <1>14, <1>15, <1>16, <1>17, <1>18 DEF RsStep

-----------------------------------------------------------------------------
\* What a step leaves of the tables.
Frame(p) ==
    /\ accounts' \in [DOMAIN accounts' -> Account]
    /\ DOMAIN accounts \subseteq DOMAIN accounts' /\ DOMAIN accounts' \subseteq Domain
    /\ targets' \in Seq(TargetRow) /\ Len(targets) <= Len(targets')
    /\ policy' \in [DOMAIN targets' -> PolicyDecision] /\ policy' \in Seq(PolicyDecision)
    /\ \A i \in DOMAIN targets :
           /\ targets'[i].domain = targets[i].domain /\ targets'[i].contact = targets[i].contact
           /\ i \notin Work(p) => targets'[i] = targets[i] /\ policy'[i] = policy[i]

LEMMA UnchangedFrame ==
  ASSUME Types, UNCHANGED intakeDB, NEW p
  PROVE  Frame(p)
BY DEF Types, Frame, intakeDB

LEMMA SetsTarget ==
  ASSUME Types, NEW p \in Proc, UNCHANGED <<accounts, policy>>, NEW i \in DOMAIN targets \cap Work(p),
         \/ \E state \in State : targets' = [targets EXCEPT ![i].state = state]
         \/ \E score \in Int : targets' = [targets EXCEPT ![i].score = score]
  PROVE  Frame(p) /\ Len(targets') = Len(targets)
<1>1. targets[i] \in TargetRow
  BY DEF Types
<1>2. PICK row \in TargetRow : /\ targets' = [targets EXCEPT ![i] = row]
                               /\ row.domain = targets[i].domain /\ row.contact = targets[i].contact
  <2>1. CASE \E state \in State : targets' = [targets EXCEPT ![i].state = state]
    <3>1. PICK state \in State : targets' = [targets EXCEPT ![i].state = state]
      BY <2>1
    <3>2. [targets[i] EXCEPT !.state = state] \in TargetRow
      BY <1>1 DEF TargetRow
    <3>3. QED BY <1>1, <3>1, <3>2 DEF TargetRow
  <2>2. CASE \E score \in Int : targets' = [targets EXCEPT ![i].score = score]
    <3>1. PICK score \in Int : targets' = [targets EXCEPT ![i].score = score]
      BY <2>2
    <3>2. [targets[i] EXCEPT !.score = score] \in TargetRow
      BY <1>1 DEF TargetRow
    <3>3. QED BY <1>1, <3>1, <3>2 DEF TargetRow
  <2>3. QED BY <2>1, <2>2
<1>3. targets \in Seq(TargetRow)
  BY DEF Types
<1>4. /\ targets' \in Seq(TargetRow) /\ Len(targets') = Len(targets) /\ DOMAIN targets' = DOMAIN targets
      /\ \A j \in DOMAIN targets : targets'[j] = IF j = i THEN row ELSE targets[j]
  BY <1>2, <1>3
<1>5. QED BY <1>2, <1>4 DEF Types, Frame

LEMMA MoveFrame ==
  ASSUME Types, RowsAreClaimed, NEW p \in Proc, Moves(p)
  PROVE  Frame(p)
<1>1. CASE UNCHANGED intakeDB
  BY <1>1, UnchangedFrame
<1>2. CASE Runs(p)
  <2>1. RunWrites(p) /\ ~RsAt(p, "idle")
    BY <1>2, RunTypes DEF Runs
  <2>2. rs[p].tgt \in DOMAIN targets /\ rs[p].tgt \in Work(p) /\ AccountOf(rs[p].tgt) \in DOMAIN accounts
    BY <2>1, RunTarget DEF Work
  <2>3. CASE /\ UNCHANGED <<targets, policy>>
             /\ \E row \in Account : SetAccount(rs[p].tgt, row)
    <3>1. PICK row \in Account : accounts' = [accounts EXCEPT ![AccountOf(rs[p].tgt)] = row]
      BY <2>3 DEF SetAccount
    <3>2. accounts' \in [DOMAIN accounts' -> Account] /\ DOMAIN accounts' = DOMAIN accounts
      BY <3>1 DEF Types
    <3>3. QED BY <2>3, <3>2 DEF Types, Frame
  <2>4. CASE /\ UNCHANGED <<accounts, targets>>
             /\ \E d \in PolicyDecision : policy' = [policy EXCEPT ![rs[p].tgt] = d]
    <3>1. policy' \in [DOMAIN targets' -> PolicyDecision] /\ policy' \in Seq(PolicyDecision)
      <4>1. PICK d \in PolicyDecision : policy' = [policy EXCEPT ![rs[p].tgt] = d]
        BY <2>4
      <4>2. policy \in Seq(PolicyDecision) /\ policy \in [DOMAIN targets -> PolicyDecision]
        BY DEF Types
      <4>3. policy' \in Seq(PolicyDecision)
        BY <2>2, <4>1, <4>2, ExceptSeq
      <4>4. policy' \in [DOMAIN targets -> PolicyDecision]
        BY <4>1, <4>2
      <4>5. QED BY <2>4, <4>3, <4>4
    <3>2. \A i \in DOMAIN targets : i # rs[p].tgt => policy'[i] = policy[i]
      BY <2>4 DEF Types
    <3>3. QED BY <2>2, <2>4, <3>1, <3>2 DEF Types, Frame
  <2>5. QED BY <1>1, <2>1, <2>2, <2>3, <2>4, SetsTarget DEF RunWrites
<1>3. CASE Drafts(p)
  <2>1. PICK i \in wk[p].todo :
            \/ /\ targets[i].state = "scored" /\ Allowed(i)
               /\ \E to \in {"awaiting_review", "failed"} : targets' = [targets EXCEPT ![i].state = to]
            \/ UNCHANGED targets
    BY <1>3 DEF Drafts
  <2>2. i \in Work(p) /\ i \in DOMAIN targets
    BY DEF Types, Work
  <2>3. CASE UNCHANGED targets
    BY <1>1, <1>3, <2>3 DEF Drafts, intakeDB
  <2>4. CASE \E state \in State : targets' = [targets EXCEPT ![i].state = state]
    BY <1>3, <2>2, <2>4, SetsTarget DEF Drafts
  <2>5. {"awaiting_review", "failed"} \subseteq State
    BY DEF State
  <2>6. QED BY <2>1, <2>3, <2>4, <2>5
<1>4. CASE Imports(p) /\ ~UNCHANGED intakeDB
  <2> DEFINE row == CurrentRow(p)
  <2>1. WkAt(p, "import") /\ im[p] \in ImportLocal
    BY <1>4 DEF Imports, Types
  <2>2. CASE InsertAccount(p)
    <3>1. /\ im[p].rows # <<>> /\ UNCHANGED <<targets, policy>>
          /\ accounts' = [e \in DOMAIN accounts \cup {row.domain} |->
                              IF e = row.domain THEN NewAccount ELSE accounts[e]]
      BY <1>4, <2>2 DEF InsertAccount, intakeDB
    <3>2. row \in CsvRow
      BY <2>1, <3>1 DEF ImportLocal, CurrentRow
    <3>3. NewAccount \in Account
      BY DEF NewAccount, Account
    <3>4. /\ accounts' \in [DOMAIN accounts' -> Account]
          /\ DOMAIN accounts \subseteq DOMAIN accounts' /\ DOMAIN accounts' \subseteq Domain
      BY <3>1, <3>2, <3>3 DEF Types, CsvRow
    <3>5. targets' = targets /\ policy' = policy
      BY <3>1
    <3>6. /\ targets \in Seq(TargetRow) /\ Len(targets) <= Len(targets)
          /\ policy \in [DOMAIN targets -> PolicyDecision] /\ policy \in Seq(PolicyDecision)
      BY DEF Types
    <3>7. QED BY <3>4, <3>5, <3>6 DEF Frame
  <2>3. CASE InsertTarget(p)
    <3> DEFINE new == [domain |-> row.domain, contact |-> row.contact, state |-> "new", score |-> 0]
    <3>1. /\ targets' = Append(targets, new) /\ policy' = Append(policy, "none")
          /\ UNCHANGED accounts /\ ImAt(p, "target")
      BY <1>4, <2>3 DEF InsertTarget, intakeDB
    <3>2. row \in CsvRow
      BY <2>1, <3>1 DEF RowsAreClaimed, ImportLocal, CurrentRow
    <3>3. new \in TargetRow
      BY <3>2 DEF CsvRow, TargetRow, State
    <3>4. /\ targets \in Seq(TargetRow) /\ policy \in Seq(PolicyDecision)
          /\ DOMAIN policy = DOMAIN targets /\ "none" \in PolicyDecision
      BY DEF Types, PolicyDecision
    <3>5. /\ targets' \in Seq(TargetRow) /\ Len(targets') = Len(targets) + 1
          /\ \A i \in DOMAIN targets : targets'[i] = targets[i]
      BY <3>1, <3>3, <3>4
    <3>6. /\ policy' \in Seq(PolicyDecision) /\ Len(policy') = Len(policy) + 1
          /\ \A i \in DOMAIN targets : policy'[i] = policy[i]
      BY <3>1, <3>4
    <3>7. DOMAIN policy' = DOMAIN targets'
      BY <3>4, <3>5, <3>6
    <3>8. policy' \in [DOMAIN targets' -> PolicyDecision]
      BY <3>6, <3>7
    <3>9. QED BY <3>1, <3>5, <3>6, <3>8 DEF Types, Frame
  <2>4. QED BY <1>4, <2>2, <2>3 DEF Imports, ImStep, EndOfFile
<1>5. QED BY <1>1, <1>2, <1>3, <1>4 DEF Moves, Takes, Drops, Loads, Idles

-----------------------------------------------------------------------------
\* Types: what a process has at hand.
Hands(p) ==
    /\ IsRun(rs[p]) /\ IsWork(wk[p])
    /\ Work(p) \subseteq DOMAIN targets
    /\ rs[p].pc # "idle" => wk[p].pc = "research" /\ rs[p].tgt \notin wk[p].todo
    /\ im[p].pc # "none" => wk[p].pc = "import"
    /\ im[p].made # {} => wk[p].pc = "import"
    /\ wk[p].todo # {} => wk[p].pc \in {"research", "draft"}

LEMMA RowIsMade ==
  ASSUME Types, NEW p \in Proc, Imports(p)
  PROVE  /\ rs'[p] = rs[p] /\ wk'[p] = wk[p] /\ wk[p].pc = "import"
         /\ \/ im'[p].made = im[p].made
            \/ /\ InsertTarget(p) /\ im'[p].made = im[p].made \cup {Len(targets) + 1}
               /\ targets' # targets
<1>1. /\ rs'[p] = rs[p] /\ wk'[p] = wk[p] /\ wk[p].pc = "import" /\ ImStep(p)
      /\ im[p] \in ImportLocal
  BY DEF Imports, WkAt, Types
<1>2. CASE EndOfFile(p) \/ InsertAccount(p) \/ (InsertTarget(p) /\ ~CurrentRow(p).flag)
  BY <1>1, <1>2 DEF EndOfFile, InsertAccount, InsertTarget, ImGoto, Types, ImportLocal
<1>3. CASE InsertTarget(p) /\ CurrentRow(p).flag
  <2>1. /\ \E row : targets' = Append(targets, row)
        /\ im' = [im EXCEPT ![p] = [im[p] EXCEPT !.pc = "row", !.rows = Tail(im[p].rows),
                                           !.made = im[p].made \cup {Len(targets) + 1}]]
    BY <1>3 DEF InsertTarget, Types
  <2>2. im'[p].made = im[p].made \cup {Len(targets) + 1}
    BY <1>1, <2>1 DEF Types, ImportLocal
  <2>3. targets' # targets
    BY <2>1 DEF Types
  <2>4. QED BY <1>1, <1>3, <2>2, <2>3
<1>4. QED BY <1>1, <1>2, <1>3 DEF ImStep

LEMMA HandsStep ==
  ASSUME Types, RowsAreClaimed, NEW p \in Proc, Own(p), Moves(p)
  PROVE  Hands(p)'
<1>1. Frame(p) /\ DOMAIN targets \subseteq DOMAIN targets'
  BY MoveFrame DEF Frame, Types
<1>2. Hands(p) /\ IsWork(wk'[p]) /\ im'[p] \in ImportLocal
  BY DEF Types, Hands, Own
<1>3. CASE Runs(p)
  <2>1. IsRun(rs'[p]) /\ ~RsAt(p, "idle") /\ (rs'[p].pc # "idle" => rs'[p].tgt = rs[p].tgt)
    BY <1>3, RunTypes DEF Runs
  <2>2. QED BY <1>1, <1>2, <1>3, <2>1 DEF Hands, Runs, Work, RsAt
<1>4. CASE Takes(p)
  <2>1. PICK i \in wk[p].todo : /\ rs'[p] = [NoRun EXCEPT !.pc = "enter", !.tgt = i]
                               /\ wk'[p] = [wk[p] EXCEPT !.todo = wk[p].todo \ {i}]
    BY <1>4 DEF Takes
  <2>2. IsRun(NoRun) /\ i \in Nat
    BY <1>2, EmptyShapes DEF Hands, IsWork
  <2>3. IsRun(rs'[p]) /\ rs'[p].tgt = i
    BY <2>1, <2>2 DEF IsRun, ResearchPC
  <2>4. wk'[p].todo = wk[p].todo \ {i} /\ wk'[p].pc = wk[p].pc /\ im'[p] = im[p] /\ wk[p].pc = "research"
    BY <1>2, <1>4, <2>1 DEF Hands, IsWork, Takes, WkAt
  <2>5. QED BY <1>1, <1>2, <2>3, <2>4 DEF Hands, Work, RsAt
<1>5. CASE Drops(p)
  BY <1>2, <1>5, EmptyShapes DEF Drops, Hands, Work, RsAt
<1>6. CASE Imports(p)
  <2>1. /\ rs'[p] = rs[p] /\ wk'[p] = wk[p] /\ wk[p].pc = "import"
        /\ \/ im'[p].made = im[p].made
           \/ im'[p].made = im[p].made \cup {Len(targets) + 1} /\ targets' # targets
    BY <1>6, RowIsMade
  <2>2. CASE im'[p].made = im[p].made
    BY <1>1, <1>2, <2>1, <2>2 DEF Hands, Work, RsAt
  <2>3. CASE im'[p].made = im[p].made \cup {Len(targets) + 1} /\ InsertTarget(p) /\ targets' # targets
    <3>1. \E row : targets' = Append(targets, row)
      BY <2>3 DEF InsertTarget
    <3>2. Len(targets) + 1 \in DOMAIN targets'
      BY <3>1 DEF Types
    <3>3. QED BY <1>1, <1>2, <2>1, <2>3, <3>2 DEF Hands, Work, RsAt
  <2>4. QED BY <1>6, <2>2, <2>3, RowIsMade
<1>7. CASE Loads(p)
  <2>1. wk'[p].todo \subseteq DOMAIN targets
    BY <1>2, <1>7 DEF Loads, Pending, DraftEligible, Hands, Work
  <2>2. QED BY <1>1, <1>2, <1>7, <2>1 DEF Loads, Hands, Work, RsAt
<1>8. CASE Drafts(p)
  BY <1>1, <1>2, <1>8 DEF Drafts, Hands, Work, RsAt, WkAt
<1>9. CASE Idles(p)
  BY <1>1, <1>2, <1>9 DEF Idles, Hands, Work, RsAt
<1>10. QED BY <1>3, <1>4, <1>5, <1>6, <1>7, <1>8, <1>9 DEF Moves

LEMMA TypesStep ==
  ASSUME Types, RowsAreClaimed, NEW p \in Proc, Own(p), Moves(p), Watch
  PROVE  Types'
<1>1. Frame(p)
  BY MoveFrame
<1>2. DOMAIN targets \subseteq DOMAIN targets' /\ Len(targets) \in Nat /\ Len(targets') \in Nat
      /\ Len(targets) <= Len(targets')
  BY <1>1 DEF Frame, Types
<1>3. \A q \in Proc : Hands(q)'
  <2>1. TAKE q \in Proc
  <2>2. CASE q # p
    <3>1. Same(q) /\ Hands(q)
      BY <2>2, OthersStay DEF Types, Hands
    <3>2. QED BY <1>2, <3>1 DEF Same, Hands, Work, RsAt
  <2>3. QED BY <2>2, HandsStep
<1>4. /\ rs' = [q \in Proc |-> rs'[q]] /\ wk' = [q \in Proc |-> wk'[q]]
      /\ im' \in [Proc -> ImportLocal]
  BY DEF Types, Own
<1>5. counted' \in [Proc -> Nat] /\ \A q \in Proc : counted'[q] <= Len(targets')
  <2>1. \A q \in Proc : counted[q] \in Nat /\ counted[q] <= Len(targets)
    BY DEF Types
  <2>2. QED BY <1>2, <2>1 DEF Watch
<1>6. QED BY <1>1, <1>3, <1>4, <1>5 DEF Types, Frame, Hands

-----------------------------------------------------------------------------
\* A company has one account and one target.  What a step does to the keys of
\* the tables: an account is claimed, its target is added, or neither.
Claims(p) ==
    LET d == CurrentRow(p).domain IN
    /\ im[p].rows # <<>> /\ d \notin DOMAIN accounts
    /\ accounts' = [e \in DOMAIN accounts \cup {d} |-> IF e = d THEN NewAccount ELSE accounts[e]]
    /\ UNCHANGED <<targets, policy>>
    /\ im'[p].pc = "target" /\ im'[p].rows = im[p].rows /\ im'[p].made = im[p].made

Adds(p) ==
    /\ ImAt(p, "target") /\ UNCHANGED accounts
    /\ targets' = Append(targets, [domain |-> CurrentRow(p).domain,
                                   contact |-> CurrentRow(p).contact,
                                   state |-> "new", score |-> 0])
    /\ policy' = Append(policy, "none")
    /\ im'[p].pc = "row" /\ im'[p].made = im[p].made \cup {Len(targets) + 1}

Passes(p) ==
    /\ UNCHANGED intakeDB /\ im'[p].pc # "target" /\ im'[p].made = im[p].made
    /\ ImAt(p, "target") => im'[p].pc = "raised"

LEMMA ImportKinds ==
  ASSUME Types, NEW p \in Proc, Imports(p)
  PROVE  Claims(p) \/ Adds(p) \/ Passes(p)
<1>1. im[p] \in ImportLocal /\ ImStep(p)
  BY DEF Imports, Types
<1>2. \A pc : ImGoto(p, pc) => /\ im'[p].pc = pc /\ im'[p].rows = im[p].rows
                              /\ im'[p].made = im[p].made
  BY <1>1 DEF Types, ImportLocal, ImGoto
<1>3. CASE EndOfFile(p)
  BY <1>2, <1>3 DEF EndOfFile, Passes, ImAt
<1>4. CASE InsertAccount(p)
  BY <1>2, <1>4 DEF InsertAccount, Passes, Claims, intakeDB, ImAt
<1>5. CASE InsertTarget(p)
  <2>1. CASE ImGoto(p, "raised") /\ UNCHANGED <<targets, policy>>
    BY <1>2, <1>5, <2>1 DEF InsertTarget, Passes, intakeDB
  <2>2. CASE im' = [im EXCEPT ![p].pc = "row", ![p].rows = Tail(@),
                              ![p].made = @ \cup {Len(targets) + 1}]
    <3>1. im'[p].pc = "row" /\ im'[p].made = im[p].made \cup {Len(targets) + 1}
      BY <1>1, <2>2 DEF Types, ImportLocal
    <3>2. CASE CurrentRow(p).flag
      BY <1>5, <3>1, <3>2 DEF InsertTarget, Adds
    <3>3. CASE ~CurrentRow(p).flag
      BY <1>2, <1>5, <3>1, <3>3 DEF InsertTarget, Passes, intakeDB
    <3>4. QED BY <3>2, <3>3
  <2>3. QED BY <1>5, <2>1, <2>2 DEF InsertTarget
<1>6. QED BY <1>1, <1>3, <1>4, <1>5 DEF ImStep

\* Neither: only a run writes to an account, its own.
Keeps(p) ==
    /\ DOMAIN targets' = DOMAIN targets /\ DOMAIN accounts' = DOMAIN accounts
    /\ im'[p].pc # "target"
    /\ ImAt(p, "target") => im'[p].pc \in {"raised", "none"}
    /\ \A d \in DOMAIN accounts :
           accounts'[d] = accounts[d] \/ (Runs(p) /\ ~RsAt(p, "idle") /\ d = AccountOf(rs[p].tgt))

LEMMA KeyMoves ==
  ASSUME Types, RowsAreClaimed, NEW p \in Proc, Moves(p)
  PROVE  Keeps(p) \/ (Imports(p) /\ (Claims(p) \/ Adds(p)))
<1>1. im[p].pc # "none" => wk[p].pc = "import"
  BY DEF Types
<1>2. CASE Runs(p)
  <2>1. RunWrites(p) /\ ~RsAt(p, "idle")
    BY <1>2, RunTypes DEF Runs
  <2>2. im'[p].pc # "target" /\ ~ImAt(p, "target")
    BY <1>1, <1>2 DEF Runs, WkAt, ImAt
  <2>3. DOMAIN targets' = DOMAIN targets
    BY <2>1 DEF RunWrites, Types, intakeDB
  <2>4. /\ DOMAIN accounts' = DOMAIN accounts
        /\ \A d \in DOMAIN accounts : accounts'[d] = accounts[d] \/ d = AccountOf(rs[p].tgt)
    BY <2>1 DEF RunWrites, SetAccount, Types, intakeDB
  <2>5. QED BY <1>2, <2>1, <2>2, <2>3, <2>4 DEF Keeps
<1>3. CASE Imports(p)
  <2>1. Passes(p) => Keeps(p)
    BY DEF Passes, Keeps, intakeDB
  <2>2. QED BY <1>3, <2>1, ImportKinds
<1>4. CASE Drafts(p)
  <2>1. DOMAIN targets' = DOMAIN targets /\ UNCHANGED accounts
    BY <1>4 DEF Drafts, Types
  <2>2. im'[p].pc # "target" /\ ~ImAt(p, "target")
    BY <1>1, <1>4 DEF Drafts, WkAt, ImAt
  <2>3. QED BY <2>1, <2>2 DEF Keeps
<1>5. CASE Takes(p) \/ Drops(p) \/ Loads(p) \/ Idles(p)
  <2>1. UNCHANGED intakeDB
    BY <1>5 DEF Takes, Drops, Loads, Idles
  <2>2. im'[p].pc # "target" /\ (ImAt(p, "target") => im'[p].pc = "none")
    BY <1>1, <1>5 DEF Takes, Drops, Loads, Idles, WkAt, ImAt
  <2>3. QED BY <2>1, <2>2 DEF Keeps, intakeDB
<1>6. QED BY <1>2, <1>3, <1>4, <1>5 DEF Moves

LEMMA AddsRow ==
  ASSUME Types, NEW p, Adds(p)
  PROVE  /\ Len(targets') = Len(targets) + 1
         /\ DOMAIN targets' = DOMAIN targets \cup {Len(targets) + 1}
         /\ \A i \in DOMAIN targets : targets'[i] = targets[i] /\ policy'[i] = policy[i]
         /\ targets'[Len(targets) + 1] =
                [domain |-> CurrentRow(p).domain, contact |-> CurrentRow(p).contact,
                 state |-> "new", score |-> 0]
         /\ policy'[Len(targets) + 1] = "none"
         /\ Len(targets) \in Nat /\ Len(targets) + 1 \notin DOMAIN targets
<1> DEFINE new == [domain |-> CurrentRow(p).domain, contact |-> CurrentRow(p).contact,
                   state |-> "new", score |-> 0]
<1>1. /\ targets' = Append(targets, new) /\ policy' = Append(policy, "none")
      /\ targets \in Seq(TargetRow) /\ policy \in Seq(PolicyDecision) /\ DOMAIN policy = DOMAIN targets
  BY DEF Adds, Types
<1> HIDE DEF new
<1>2. /\ Len(targets') = Len(targets) + 1 /\ Len(targets) \in Nat
      /\ \A i \in DOMAIN targets : targets'[i] = targets[i]
      /\ targets'[Len(targets) + 1] = new
      /\ DOMAIN targets' = DOMAIN targets \cup {Len(targets) + 1}
      /\ Len(targets) + 1 \notin DOMAIN targets
  BY <1>1
<1>3. Len(policy) = Len(targets)
  BY <1>1
<1>4. /\ \A i \in DOMAIN targets : policy'[i] = policy[i]
      /\ policy'[Len(targets) + 1] = "none"
  BY <1>1, <1>3
<1>5. QED BY <1>2, <1>4 DEF new

LEMMA ClaimStep ==
  ASSUME Types, RowsAreClaimed, OneTargetPerDomain, UnclaimedIsUnjudged,
         NEW p \in Proc, Own(p), Moves(p)
  PROVE  RowsAreClaimed' /\ OneTargetPerDomain' /\ UnclaimedIsUnjudged'
<1>1. \A i \in DOMAIN targets : targets'[i].domain = targets[i].domain
  BY MoveFrame DEF Frame
<1>2. \A q \in Proc : q # p => im'[q] = im[q]
  BY OthersStay DEF Same
<1>3. CASE Keeps(p)
  <2>1. RowsAreClaimed'
    BY <1>1, <1>2, <1>3 DEF Keeps, RowsAreClaimed, AccountOf, ImAt, CurrentRow
  <2>2. OneTargetPerDomain'
    BY <1>1, <1>3 DEF Keeps, OneTargetPerDomain, AccountOf
  <2>3. UnclaimedIsUnjudged'
    <3>1. Runs(p) /\ ~RsAt(p, "idle") => rs[p].tgt \in DOMAIN targets
      BY RunTarget
    <3>2. QED BY <1>1, <1>3, <3>1 DEF Keeps, UnclaimedIsUnjudged, AccountOf
  <2>4. QED BY <2>1, <2>2, <2>3
<1>4. CASE Claims(p)
  <2> DEFINE d == CurrentRow(p).domain
  <2>1. /\ DOMAIN accounts' = DOMAIN accounts \cup {d} /\ d \notin DOMAIN accounts
        /\ targets' = targets /\ im'[p].rows # <<>> /\ CurrentRow(p)' = CurrentRow(p)
        /\ accounts'[d] = NewAccount
        /\ \A e \in DOMAIN accounts : accounts'[e] = accounts[e]
    BY <1>4 DEF Claims, CurrentRow
  <2>2. \A i \in DOMAIN targets : AccountOf(i) # d
    BY <2>1 DEF RowsAreClaimed
  <2>3. \A q \in Proc : q # p /\ ImAt(q, "target") => CurrentRow(q).domain # d
    BY <2>1 DEF RowsAreClaimed
  <2>4. RowsAreClaimed'
    <3>1. \A i \in DOMAIN targets' : AccountOf(i)' \in DOMAIN accounts'
      BY <2>1 DEF RowsAreClaimed, AccountOf
    <3>2. \A q \in Proc : q # p /\ ImAt(q, "target")' =>
              ImAt(q, "target") /\ im'[q] = im[q] /\ CurrentRow(q).domain' = CurrentRow(q).domain
      BY <1>2 DEF ImAt, CurrentRow
    <3>3. CurrentRow(p).domain' = d
      BY <2>1
    <3>4. ASSUME NEW q \in Proc, ImAt(q, "target")', q # p
          PROVE  /\ im'[q].rows # <<>> /\ CurrentRow(q).domain' \in DOMAIN accounts'
                 /\ CurrentRow(q).domain' # d
                 /\ \A i \in DOMAIN targets' : AccountOf(i)' # CurrentRow(q).domain'
      BY <2>1, <2>3, <3>2, <3>4 DEF RowsAreClaimed, AccountOf
    <3>5. \A i \in DOMAIN targets' : AccountOf(i)' # d
      BY <2>1, <2>2 DEF AccountOf
    <3>6. ASSUME NEW q \in Proc, NEW r \in Proc, ImAt(q, "target")', ImAt(r, "target")',
                 CurrentRow(r).domain' = CurrentRow(q).domain'
          PROVE  q = r
      BY <3>2, <3>3, <3>4, <3>6 DEF RowsAreClaimed
    <3>7. ASSUME NEW q \in Proc, ImAt(q, "target")'
          PROVE  /\ im'[q].rows # <<>> /\ CurrentRow(q).domain' \in DOMAIN accounts'
                 /\ \A i \in DOMAIN targets' : AccountOf(i)' # CurrentRow(q).domain'
      BY <2>1, <3>3, <3>4, <3>5, <3>7
    <3>8. QED BY <3>1, <3>6, <3>7 DEF RowsAreClaimed
  <2>5. OneTargetPerDomain'
    BY <2>1 DEF OneTargetPerDomain, AccountOf
  <2>6. NewAccount.judge = "none"
    BY DEF NewAccount
  <2>7. UnclaimedIsUnjudged'
    BY <2>1, <2>6 DEF UnclaimedIsUnjudged, AccountOf
  <2>8. QED BY <2>4, <2>5, <2>7
<1>5. CASE Adds(p)
  <2> DEFINE d == CurrentRow(p).domain
             n == Len(targets) + 1
  <2>1. /\ DOMAIN targets' = DOMAIN targets \cup {n} /\ targets'[n].domain = d
        /\ n \notin DOMAIN targets
    <3>1. /\ DOMAIN targets' = DOMAIN targets \cup {n} /\ n \notin DOMAIN targets
          /\ targets'[n] = [domain |-> d, contact |-> CurrentRow(p).contact,
                             state |-> "new", score |-> 0]
      BY <1>5, AddsRow
    <3>2. QED BY <3>1
  <2>2. /\ ImAt(p, "target") /\ im'[p].pc # "target" /\ accounts' = accounts
    BY <1>5 DEF Adds
  <2>3. /\ d \in DOMAIN accounts /\ \A i \in DOMAIN targets : AccountOf(i) # d
        /\ \A q \in Proc : q # p /\ ImAt(q, "target") => CurrentRow(q).domain # d
    BY <2>2 DEF RowsAreClaimed
  <2> HIDE DEF d, n
  <2>4. RowsAreClaimed'
    <3>1. \A i \in DOMAIN targets' : AccountOf(i)' \in DOMAIN accounts'
      BY <1>1, <2>1, <2>2, <2>3 DEF RowsAreClaimed, AccountOf
    <3>2. \A q \in Proc : ImAt(q, "target")' =>
              /\ q # p /\ ImAt(q, "target") /\ im'[q] = im[q]
              /\ CurrentRow(q).domain' = CurrentRow(q).domain
      BY <1>2, <2>2 DEF ImAt, CurrentRow
    <3>3. ASSUME NEW q \in Proc, ImAt(q, "target")'
          PROVE  /\ im'[q].rows # <<>> /\ CurrentRow(q).domain' \in DOMAIN accounts'
                 /\ \A r \in Proc : ImAt(r, "target")' /\ CurrentRow(r).domain' = CurrentRow(q).domain' => q = r
      BY <2>2, <3>2, <3>3 DEF RowsAreClaimed
    <3>4. ASSUME NEW q \in Proc, ImAt(q, "target")', NEW i \in DOMAIN targets'
          PROVE  AccountOf(i)' # CurrentRow(q).domain'
      <4>1. CurrentRow(q).domain' = CurrentRow(q).domain /\ ImAt(q, "target") /\ q # p
        BY <3>2, <3>4
      <4>2. CASE i \in DOMAIN targets
        BY <1>1, <4>1, <4>2 DEF RowsAreClaimed, AccountOf
      <4>3. CASE i = n
        BY <2>1, <2>3, <4>1, <4>3 DEF AccountOf
      <4>4. QED BY <2>1, <4>2, <4>3
    <3>5. QED BY <3>1, <3>3, <3>4 DEF RowsAreClaimed
  <2>5. OneTargetPerDomain'
    BY <1>1, <2>1, <2>3 DEF OneTargetPerDomain, AccountOf
  <2>6. UnclaimedIsUnjudged'
    BY <1>1, <2>1, <2>2 DEF UnclaimedIsUnjudged, AccountOf
  <2>7. QED BY <2>4, <2>5, <2>6
<1>6. QED BY <1>3, <1>4, <1>5, KeyMoves

\* An account without a target is one that an import stands at, or left.
LEMMA UsedStep ==
  ASSUME Types, RowsAreClaimed, AccountsAreUsed, NEW p \in Proc, Own(p), Moves(p), Watch
  PROVE  AccountsAreUsed'
<1> SUFFICES ASSUME NEW d \in DOMAIN accounts'
             PROVE  \/ d \in stranded'
                    \/ \E q \in Proc : ImAt(q, "target")' /\ CurrentRow(q).domain' = d
                    \/ \E i \in DOMAIN targets' : AccountOf(i)' = d
  BY DEF AccountsAreUsed
<1>1. \A i \in DOMAIN targets : i \in DOMAIN targets' /\ targets'[i].domain = targets[i].domain
  BY MoveFrame DEF Frame
<1>2. \A q \in Proc : q # p => im'[q] = im[q]
  BY OthersStay DEF Same
<1>3. CASE d \notin DOMAIN accounts
  <2>1. Claims(p)
    BY <1>3, KeyMoves DEF Keeps, Adds
  <2>2. d = CurrentRow(p).domain /\ ImAt(p, "target")' /\ CurrentRow(p)' = CurrentRow(p)
    BY <1>3, <2>1 DEF Claims, ImAt, CurrentRow
  <2>3. QED BY <2>2
<1>4. CASE d \in stranded
  BY <1>4 DEF Watch
<1>5. CASE \E i \in DOMAIN targets : AccountOf(i) = d
  BY <1>1, <1>5 DEF AccountOf
<1>6. ASSUME NEW q \in Proc, ImAt(q, "target"), CurrentRow(q).domain = d, d \in DOMAIN accounts
      PROVE  \/ d \in stranded'
             \/ \E r \in Proc : ImAt(r, "target")' /\ CurrentRow(r).domain' = d
             \/ \E i \in DOMAIN targets' : AccountOf(i)' = d
  <2>1. CASE q # p
    <3>1. ImAt(q, "target")' /\ CurrentRow(q).domain' = d
      BY <1>2, <1>6, <2>1 DEF ImAt, CurrentRow
    <3>2. QED BY <3>1
  <2>2. CASE q = p /\ Keeps(p)
    <3>1. im'[p].pc \in {"raised", "none"} /\ d \in Domain
      BY <1>6, <2>2 DEF Keeps, Types
    <3>2. QED BY <1>6, <2>2, <3>1 DEF Watch
  <2>3. CASE q = p /\ Claims(p)
    BY <1>6, <2>3 DEF Claims
  <2>4. CASE q = p /\ Adds(p)
    <3> DEFINE n == Len(targets) + 1
    <3>1. /\ n \in DOMAIN targets'
          /\ targets'[n] = [domain |-> CurrentRow(p).domain, contact |-> CurrentRow(p).contact,
                            state |-> "new", score |-> 0]
      BY <2>4, AddsRow
    <3>2. targets'[n].domain = d
      BY <1>6, <2>4, <3>1
    <3>3. QED BY <3>1, <3>2 DEF AccountOf
  <2>5. QED BY <2>1, <2>2, <2>3, <2>4, KeyMoves
<1>7. QED BY <1>3, <1>4, <1>5, <1>6 DEF AccountsAreUsed

-----------------------------------------------------------------------------
\* Only a run writes to its target, and the draft stage to one that it may
\* write to.
Drafted(p, i) ==
    /\ Drafts(p) /\ i \in Work(p) /\ targets[i].state = "scored" /\ Allowed(i)
    /\ \E to \in {"awaiting_review", "failed"} : targets'[i] = [targets[i] EXCEPT !.state = to]

Running(p, i) == Runs(p) /\ ~RsAt(p, "idle") /\ rs[p].tgt = i

LEMMA RowFrame ==
  ASSUME Types, RowsAreClaimed, OneTargetPerDomain, NEW p \in Proc, Moves(p),
         NEW i \in DOMAIN targets, ~Running(p, i)
  PROVE  /\ policy'[i] = policy[i] /\ Account0(i)' = Account0(i)
         /\ targets'[i] = targets[i] \/ Drafted(p, i)
<1>1. Account0(i)' = Account0(i)
  <2>1. targets'[i].domain = targets[i].domain
    BY MoveFrame DEF Frame
  <2>2. AccountOf(i) \in DOMAIN accounts
    BY DEF RowsAreClaimed
  <2>3. CASE Keeps(p)
    <3>1. Runs(p) /\ ~RsAt(p, "idle") /\ AccountOf(i) = AccountOf(rs[p].tgt) => i = rs[p].tgt
      BY RunTarget DEF OneTargetPerDomain
    <3>2. QED BY <2>1, <2>2, <2>3, <3>1 DEF Keeps, Running, Account0, AccountOf
  <2>4. CASE Claims(p)
    BY <2>1, <2>2, <2>4 DEF Claims, Account0, AccountOf
  <2>5. CASE Adds(p)
    BY <2>1, <2>2, <2>5 DEF Adds, Account0, AccountOf
  <2>6. QED BY <2>3, <2>4, <2>5, KeyMoves
<1>2. CASE UNCHANGED intakeDB
  BY <1>1, <1>2 DEF intakeDB
<1>3. CASE Runs(p)
  <2>1. RunWrites(p) /\ ~RsAt(p, "idle")
    BY <1>3, RunTypes DEF Runs
  <2>2. rs[p].tgt # i
    BY <1>3, <2>1 DEF Running
  <2>3. targets'[i] = targets[i] /\ policy'[i] = policy[i]
    BY <2>1, <2>2 DEF RunWrites, Types, intakeDB
  <2>4. QED BY <1>1, <2>3
<1>4. CASE Drafts(p)
  <2>1. PICK j \in wk[p].todo :
            \/ /\ targets[j].state = "scored" /\ Allowed(j)
               /\ \E to \in {"awaiting_review", "failed"} : targets' = [targets EXCEPT ![j].state = to]
            \/ UNCHANGED targets
    BY <1>4 DEF Drafts
  <2>2. j \in Work(p)
    BY DEF Work
  <2>3. targets'[i] = targets[i] \/ Drafted(p, i)
    BY <1>4, <2>1, <2>2 DEF Drafted, Types
  <2>4. QED BY <1>1, <1>4, <2>3 DEF Drafts
<1>5. CASE Imports(p)
  <2>1. targets'[i] = targets[i] /\ policy'[i] = policy[i]
    BY <1>5, ImportKinds, AddsRow DEF Claims, Passes, intakeDB
  <2>2. QED BY <1>1, <2>1
<1>6. QED BY <1>2, <1>3, <1>4, <1>5 DEF Moves, Takes, Drops, Loads, Idles

\* A row that is not at hand of the process, and a new one.
LEMMA Untouched ==
  ASSUME Types, RowsAreClaimed, OneTargetPerDomain, NEW p \in Proc, Moves(p),
         NEW i \in DOMAIN targets, i \notin Work(p)
  PROVE  /\ targets'[i] = targets[i] /\ policy'[i] = policy[i] /\ Account0(i)' = Account0(i)
         /\ FinalLabel(i)' = FinalLabel(i)
<1>1. ~Running(p, i) /\ ~Drafted(p, i)
  BY DEF Running, Drafted, Work
<1>2. targets'[i] = targets[i] /\ policy'[i] = policy[i] /\ Account0(i)' = Account0(i)
  BY <1>1, RowFrame
<1>3. QED BY <1>2 DEF FinalLabel

LEMMA NewRow ==
  ASSUME Types, RowsAreClaimed, UnclaimedIsUnjudged, NEW p \in Proc, Moves(p),
         NEW i \in DOMAIN targets' \ DOMAIN targets
  PROVE  /\ targets'[i].state = "new" /\ policy'[i] = "none" /\ Account0(i)'.judge = "none"
         /\ Imports(p) /\ Adds(p) /\ i = Len(targets) + 1
<1>1. Imports(p) /\ Adds(p)
  BY KeyMoves DEF Keeps, Claims
<1>2. /\ i = Len(targets) + 1 /\ policy'[i] = "none"
      /\ targets'[i] = [domain |-> CurrentRow(p).domain, contact |-> CurrentRow(p).contact,
                        state |-> "new", score |-> 0]
  BY <1>1, AddsRow
<1>3. targets'[i].state = "new" /\ targets'[i].domain = CurrentRow(p).domain
  BY <1>2
<1>4. accounts[CurrentRow(p).domain].judge = "none" /\ UNCHANGED accounts
  BY <1>1 DEF Adds, RowsAreClaimed, UnclaimedIsUnjudged
<1>5. QED BY <1>1, <1>2, <1>3, <1>4 DEF Account0, AccountOf

\* Nothing becomes new again.
LEMMA NeverNew ==
  ASSUME Types, RowsAreClaimed, OneTargetPerDomain, NEW p \in Proc, Moves(p),
         NEW i \in DOMAIN targets, targets'[i].state = "new"
  PROVE  targets[i].state = "new"
<1>1. targets[i] \in TargetRow
  BY DEF Types
<1>2. CASE Running(p, i)
  <2>1. RunWrites(p) /\ RsStep(p)
    BY <1>2, RunTypes DEF Running, Runs
  <2>2. \/ UNCHANGED targets
        \/ \E from, to : Move(i, from, to)
        \/ \E score : targets' = [targets EXCEPT ![i].score = score]
    BY <1>2, <2>1 DEF Running, RsStep, EnterPipeline, FetchPage, Book, PersistFindings, ModelFails,
           Summarize, DetectSignals, InsertSignal, ScoreAccount, ScoreTarget, ScoreMove, JudgeFails,
           Judge, Route, PolicyGate, Timeout, RecordTimeout, Raise, RecordCrash, Return, intakeDB
  <2>3. CASE \E from, to : Move(i, from, to)
    <3>1. PICK to : to # "new" /\ targets' = [targets EXCEPT ![i].state = to]
      BY <2>3, MoveType
    <3>2. targets'[i].state = to
      BY <1>1, <3>1 DEF Types, TargetRow
    <3>3. QED BY <3>1, <3>2
  <2>4. CASE \E score : targets' = [targets EXCEPT ![i].score = score]
    <3>1. PICK score : targets' = [targets EXCEPT ![i].score = score]
      BY <2>4
    <3>2. targets'[i] = [targets[i] EXCEPT !.score = score]
      BY <3>1 DEF Types
    <3>3. QED BY <1>1, <3>2 DEF TargetRow
  <2>5. QED BY <2>2, <2>3, <2>4
<1>3. CASE ~Running(p, i)
  <2>1. targets'[i] = targets[i] \/ Drafted(p, i)
    BY <1>3, RowFrame
  <2>2. ~Drafted(p, i)
    BY <1>1 DEF Drafted, TargetRow
  <2>3. QED BY <2>1, <2>2
<1>4. QED BY <1>2, <1>3

-----------------------------------------------------------------------------
\* The watched sets, and the count.
LEMMA ContestStep ==
  ASSUME Types', Watch
  PROVE  /\ ContestIsKnown' /\ contested \subseteq contested' /\ cut \subseteq cut'
BY DEF Types, Watch, ContestIsKnown

LEMMA CountStep ==
  ASSUME Types, RowsAreClaimed, OneTargetPerDomain, CountHolds, NEW p \in Proc, Own(p), Moves(p), Watch
  PROVE  CountHolds'
<1> SUFFICES ASSUME NEW q \in Proc, WkAt(q, "count_drafts")', wk'[q].pending = 0,
                    NEW i \in 1..counted'[q]
             PROVE  targets'[i].state # "new"
  BY DEF CountHolds
<1>1. counted'[q] = IF WkAt(q, "count_research") THEN Len(targets)
                    ELSE IF WkAt(q, "count_drafts") THEN counted[q] ELSE 0
  BY DEF Watch
<1>2. counted[q] \in Nat /\ counted[q] <= Len(targets) /\ Len(targets) \in Nat
  BY DEF Types
<1>3. i \in DOMAIN targets
  BY <1>1, <1>2 DEF Types
<1>4. CASE q # p \/ ~Counts(p)
  <2>1. WkAt(q, "count_drafts") /\ wk[q].pending = 0
    <3>1. CASE q # p
      BY <3>1, OthersStay DEF Same, WkAt
    <3>2. CASE q = p
      BY <1>4, <3>2 DEF Moves, Runs, Takes, Drops, Imports, Loads, Drafts, Idles, WkAt, Types, IsWork
    <3>3. QED BY <3>1, <3>2
  <2>2. targets[i].state # "new"
    BY <1>1, <2>1 DEF CountHolds, WkAt
  <2>3. QED BY <1>3, <2>2, NeverNew
<1>5. CASE Counts(p) /\ q = p
  <2>1. Cardinality(Pending) = 0
    BY <1>5 DEF Counts
  <2>2. Pending = {}
    BY <2>1, FiniteTargets, FS_EmptySet DEF Pending
  <2>3. QED BY <1>3, <2>2, NeverNew DEF Pending
<1>6. QED BY <1>4, <1>5

-----------------------------------------------------------------------------
\* The state of a run after each of its actions.
Over(p, pc, result) == [NoRun EXCEPT !.pc = pc, !.tgt = rs[p].tgt, !.result = result]

LEMMA RunRecords ==
  ASSUME Types, NEW p \in Proc
  PROVE  /\ \A pc : RsGoto(p, pc) => rs'[p] = [rs[p] EXCEPT !.pc = pc]
         /\ \A pc, result : Conclude(p, pc, result) => rs'[p] = Over(p, pc, result)
         /\ EndResearch(p) => rs'[p] = NoRun
         /\ FetchPage(p) => rs'[p] = [rs[p] EXCEPT !.stored = rs[p].stored \cup {"page"}]
         /\ PersistFindings(p) =>
                rs'[p] = [rs[p] EXCEPT !.pc = "summarize", !.stored = rs[p].stored \cup {"findings"}]
         /\ DetectSignals(p) =>
                \E pc \in {"score", "signals"}, sigs \in SignalLists :
                    rs'[p] = [rs[p] EXCEPT !.pc = pc, !.sigs = sigs, !.hits = DOMAIN sigs]
         /\ ScoreAccount(p) =>
                rs'[p] = [rs[p] EXCEPT !.pc = "score_target", !.stored = {}, !.tiers = {}]
         /\ JudgeFails(p) => rs'[p] = [rs[p] EXCEPT !.pc = "route", !.label = FitLabelOf(Score(p))]
         /\ Route(p) => rs'[p] = [rs[p] EXCEPT !.pc = "gate", !.label = "none",
                                               !.result = StateOf(rs[p].label)]
<1>1. \A r : rs' = [rs EXCEPT ![p] = r] => rs'[p] = r
  BY DEF Types
<1>2. \A pc : RsGoto(p, pc) => rs'[p] = [rs[p] EXCEPT !.pc = pc]
  BY DEF RsGoto, Types
<1>3. /\ \A pc, result : Conclude(p, pc, result) => rs'[p] = Over(p, pc, result)
      /\ EndResearch(p) => rs'[p] = NoRun
  BY <1>1 DEF Conclude, Over, EndResearch
<1>4. /\ FetchPage(p) => rs'[p] = [rs[p] EXCEPT !.stored = rs[p].stored \cup {"page"}]
      /\ PersistFindings(p) =>
             rs'[p] = [rs[p] EXCEPT !.pc = "summarize", !.stored = rs[p].stored \cup {"findings"}]
  BY DEF FetchPage, PersistFindings, Types
<1>5. DetectSignals(p) =>
          \E pc \in {"score", "signals"}, sigs \in SignalLists :
              rs'[p] = [rs[p] EXCEPT !.pc = pc, !.sigs = sigs, !.hits = DOMAIN sigs]
  BY DEF DetectSignals, Types
<1>6. ScoreAccount(p) =>
          rs'[p] = [rs[p] EXCEPT !.pc = "score_target", !.stored = {}, !.tiers = {}]
  BY DEF ScoreAccount, Types
<1>7. JudgeFails(p) => rs'[p] = [rs[p] EXCEPT !.pc = "route", !.label = FitLabelOf(Score(p))]
  BY DEF JudgeFails, Types
<1>8. Route(p) => rs'[p] = [rs[p] EXCEPT !.pc = "gate", !.label = "none",
                                         !.result = StateOf(rs[p].label)]
  BY DEF Route, Types
<1>9. QED BY <1>2, <1>3, <1>4, <1>5, <1>6, <1>7, <1>8

LEMMA OverFields ==
  ASSUME NEW p, NEW pc, NEW result
  PROVE  /\ Over(p, pc, result).pc = pc /\ Over(p, pc, result).tgt = rs[p].tgt
         /\ Over(p, pc, result).result = result /\ Over(p, pc, result).tiers = {}
  BY DEF Over, NoRun

-----------------------------------------------------------------------------
\* Evidence.
SourcesFor(p) ==
    /\ rs[p].pc \in {"summarize", "detect", "signals", "score"} => "findings" \in rs[p].stored
    /\ rs[p].tiers # {} => /\ "findings" \in rs[p].stored
                           /\ "source" \in rs[p].tiers => "page" \in rs[p].stored

LEMMA SourcesRun ==
  ASSUME Types, NEW p \in Proc, RsStep(p), SourcesFor(p)
  PROVE  SourcesFor(p)'
<1>1. IsRun(rs[p]) /\ NoRun.pc = "idle" /\ NoRun.tiers = {}
  BY EmptyShapes DEF Types
<1>2. ASSUME NEW pc \in {"return", "timed_out", "report", "crashed"}, NEW result, Conclude(p, pc, result)
      PROVE  SourcesFor(p)'
  <2>1. rs'[p] = Over(p, pc, result)
    BY <1>2 DEF Conclude, Over, Types
  <2>2. rs'[p].pc = pc /\ rs'[p].tiers = {}
    BY <2>1, OverFields
  <2>3. QED BY <2>2 DEF SourcesFor
<1>3. EndResearch(p) => SourcesFor(p)'
  BY <1>1, RunRecords DEF SourcesFor
<1>4. ASSUME NEW pc, RsGoto(p, pc), pc \notin {"summarize", "detect", "signals", "score"}
      PROVE  SourcesFor(p)'
  <2>1. rs'[p] = [rs[p] EXCEPT !.pc = pc]
    BY <1>4, RunRecords
  <2>2. QED BY <1>1, <1>4, <2>1 DEF IsRun, SourcesFor
<1>5. CASE EnterPipeline(p) \/ Book(p) \/ ModelFails(p) \/ ScoreTarget(p) \/ ScoreMove(p) \/ PolicyGate(p)
           \/ Timeout(p) \/ RecordTimeout(p) \/ Raise(p) \/ RecordCrash(p) \/ Return(p)
  BY <1>2, <1>3, <1>4, <1>5 DEF EnterPipeline, Book, ModelFails, ScoreTarget, ScoreMove, PolicyGate,
     Timeout, RecordTimeout, Raise, RecordCrash, Return
<1>6. CASE FetchPage(p)
  <2>1. rs'[p] = [rs[p] EXCEPT !.stored = rs[p].stored \cup {"page"}]
    BY <1>6, RunRecords
  <2>2. QED BY <1>1, <2>1 DEF SourcesFor, IsRun
<1>7. CASE PersistFindings(p)
  <2>1. rs'[p] = [rs[p] EXCEPT !.pc = "summarize", !.stored = rs[p].stored \cup {"findings"}]
    BY <1>7, RunRecords
  <2>2. QED BY <1>1, <2>1 DEF SourcesFor, IsRun
<1>8. CASE Summarize(p)
  <2>1. RsAt(p, "summarize") /\ \E profile : rs' = [rs EXCEPT ![p].pc = "detect", ![p].profile = profile]
    BY <1>8 DEF Summarize
  <2>2. \E profile : rs'[p] = [rs[p] EXCEPT !.pc = "detect", !.profile = profile]
    BY <2>1 DEF Types
  <2>3. QED BY <1>1, <2>1, <2>2 DEF SourcesFor, IsRun, RsAt
<1>9. CASE DetectSignals(p)
  <2>1. PICK pc \in {"score", "signals"}, sigs \in SignalLists :
            rs'[p] = [rs[p] EXCEPT !.pc = pc, !.sigs = sigs, !.hits = DOMAIN sigs]
    BY <1>9, RunRecords
  <2>2. RsAt(p, "detect")
    BY <1>9 DEF DetectSignals
  <2>3. QED BY <1>1, <2>1, <2>2 DEF SourcesFor, IsRun, RsAt
<1>10. CASE InsertSignal(p)
  <2>1. PICK type \in rs[p].hits, tier \in Tier :
            /\ tier = "source" => HasRawSource(p)
            /\ rs' = [rs EXCEPT ![p].hits = @ \ {type}, ![p].tiers = @ \cup {tier},
                             ![p].pc = IF rs[p].hits = {type} THEN "score" ELSE @]
    BY <1>10 DEF InsertSignal
  <2>2. \E pc : rs'[p] = [rs[p] EXCEPT !.hits = rs[p].hits \ {type},
                                       !.tiers = rs[p].tiers \cup {tier}, !.pc = pc]
    <3>1. PICK pc : rs' = [rs EXCEPT ![p] = [rs[p] EXCEPT !.hits = rs[p].hits \ {type},
                                                         !.tiers = rs[p].tiers \cup {tier}, !.pc = pc]]
      BY <2>1 DEF Types
    <3>2. QED BY <3>1 DEF Types
  <2>3. rs'[p].tiers = rs[p].tiers \cup {tier} /\ rs'[p].stored = rs[p].stored
    BY <1>1, <2>2 DEF IsRun
  <2>4. "findings" \in rs[p].stored
    BY <1>10 DEF InsertSignal, RsAt, SourcesFor
  <2>5. tier = "source" => "page" \in rs[p].stored
    BY <2>1 DEF HasRawSource
  <2>6. QED BY <2>3, <2>4, <2>5 DEF SourcesFor
<1>11. CASE ScoreAccount(p)
  <2>1. rs'[p] = [rs[p] EXCEPT !.pc = "score_target", !.stored = {}, !.tiers = {}]
    BY <1>11, RunRecords
  <2>2. QED BY <1>1, <2>1 DEF SourcesFor, IsRun
<1>12. CASE JudgeFails(p)
  <2>1. rs'[p] = [rs[p] EXCEPT !.pc = "route", !.label = FitLabelOf(Score(p))]
    BY <1>12, RunRecords
  <2>2. QED BY <1>1, <2>1 DEF SourcesFor, IsRun
<1>13. CASE Judge(p)
  <2>1. CASE \E label : rs' = [rs EXCEPT ![p].pc = "route", ![p].label = label]
    <3>1. \E label : rs'[p] = [rs[p] EXCEPT !.pc = "route", !.label = label]
      BY <2>1 DEF Types
    <3>2. QED BY <1>1, <3>1 DEF SourcesFor, IsRun
  <2>2. QED BY <1>2, <1>13, <2>1 DEF Judge
<1>14. CASE Route(p)
  <2>1. rs'[p] = [rs[p] EXCEPT !.pc = "gate", !.label = "none", !.result = StateOf(rs[p].label)]
    BY <1>14, RunRecords
  <2>2. QED BY <1>1, <2>1 DEF SourcesFor, IsRun
<1>15. QED
  BY <1>5, <1>6, <1>7, <1>8, <1>9, <1>10, <1>11, <1>12, <1>13, <1>14 DEF RsStep

LEMMA SourcesStep ==
  ASSUME Types, SourcesAreKept, EvidenceIsStored, NEW p \in Proc, Own(p), Moves(p)
  PROVE  SourcesAreKept' /\ EvidenceIsStored'
<1>1. \A q \in Proc : SourcesFor(q)
  BY DEF SourcesAreKept, EvidenceIsStored, SourcesFor
<1>2. ASSUME NEW q \in Proc PROVE SourcesFor(q)'
  <2>1. CASE rs'[q] = rs[q]
    BY <1>1, <2>1 DEF SourcesFor
  <2>2. CASE rs'[q] # rs[q]
    <3>1. q = p
      BY <2>2, OthersStay DEF Same
    <3>2. CASE Runs(p)
      BY <1>1, <3>1, <3>2, SourcesRun DEF Runs
    <3>3. CASE Takes(p) \/ Drops(p)
      <4>1. ASSUME NEW i, rs'[p] = [NoRun EXCEPT !.pc = "enter", !.tgt = i]
            PROVE  rs'[p].tiers = {} /\ rs'[p].pc = "enter"
        BY <4>1 DEF NoRun
      <4>2. rs'[p].tiers = {} /\ rs'[p].pc \in {"idle", "enter"}
        BY <3>3, <4>1, EmptyShapes DEF Takes, Drops
      <4>3. QED BY <3>1, <4>2 DEF SourcesFor
    <3>4. QED BY <2>2, <3>1, <3>2, <3>3 DEF Moves, Imports, Loads, Drafts, Idles
  <2>3. QED BY <2>1, <2>2
<1>3. QED BY <1>2 DEF SourcesAreKept, EvidenceIsStored, SourcesFor

-----------------------------------------------------------------------------
\* A run whose target is at hand of nobody else.
FreshAt(i) == targets[i].state = "new" => policy[i] = "none" /\ Account0(i).judge = "none"

AllowedAt(i) ==
    Allowed(i) => /\ targets[i].score >= POLICY_FLOOR
                  /\ Account0(i).score = targets[i].score
                  /\ Account0(i).label \in {"strong_fit", "good_fit"}
                  /\ Account0(i).summary

RoutedAt(i) ==
    policy[i] # "none" /\ targets[i].state # "failed" =>
        StateOf(FinalLabel(i)) =
            IF targets[i].state \in {"watchlist", "not_target"}
            THEN targets[i].state ELSE "scored"

ReportAt(p, i) ==
    rs[p].pc \in {"return", "report"} =>
        \/ rs[p].result = targets[i].state /\ (targets[i].state # "failed" => policy[i] # "none")
        \/ rs[p].result = "failed" /\ targets[i].state = "new" /\ policy[i] = "none"

Sound(i) == FreshAt(i) /\ AllowedAt(i) /\ RoutedAt(i)

\* Over, whatever the tables say.
LEMMA NoFacts ==
  ASSUME NEW p, NEW i, rs[p].pc \in {"return", "timed_out", "report", "crashed"}
  PROVE  RunFacts(p, i)
  BY DEF RunFacts, RsAt, Unbooked, Researched, Undecided, Summarized, ScoredAccount, ScoredTarget

\* The row of the target and that of its account.
SameRow(i) ==
    targets'[i] = targets[i] /\ policy'[i] = policy[i] /\ Account0(i)' = Account0(i)

LEMMA SoundStays ==
  ASSUME NEW i, Sound(i), SameRow(i)
  PROVE  Sound(i)'
  BY DEF Sound, SameRow, FreshAt, AllowedAt, RoutedAt, Allowed, FinalLabel

LEMMA SameTables ==
  ASSUME NEW i, UNCHANGED intakeDB
  PROVE  SameRow(i)
  BY DEF SameRow, intakeDB, Account0, AccountOf

\* The state of the row is set.
LEMMA StateIsSet ==
  ASSUME Types, NEW i \in DOMAIN targets, NEW from, NEW to, Move(i, from, to),
         UNCHANGED <<accounts, policy>>
  PROVE  /\ targets'[i].state = to /\ targets'[i].score = targets[i].score /\ to # "new"
         /\ policy'[i] = policy[i] /\ Account0(i)' = Account0(i)
<1>1. targets[i] \in TargetRow /\ targets' = [targets EXCEPT ![i].state = to] /\ to # "new"
  BY MoveType DEF Types
<1>2. targets'[i] = [targets[i] EXCEPT !.state = to]
  BY <1>1 DEF Types
<1>3. targets'[i].state = to /\ targets'[i].score = targets[i].score /\ targets'[i].domain = targets[i].domain
  BY <1>1, <1>2 DEF TargetRow
<1>4. QED BY <1>1, <1>3 DEF Account0, AccountOf

LEMMA FailedIsSound ==
  ASSUME Types, NEW i \in DOMAIN targets, NEW from, Move(i, from, "failed"), Sound(i),
         UNCHANGED <<accounts, policy>>
  PROVE  Sound(i)' /\ targets'[i].state = "failed"
<1>1. /\ targets'[i].state = "failed" /\ targets'[i].score = targets[i].score
      /\ policy'[i] = policy[i] /\ Account0(i)' = Account0(i)
  BY StateIsSet
<1>2. QED BY <1>1 DEF Sound, FreshAt, AllowedAt, RoutedAt, Allowed

LEMMA AccountIsSet ==
  ASSUME Types, RowsAreClaimed, NEW i \in DOMAIN targets, NEW row, SetAccount(i, row),
         UNCHANGED <<targets, policy>>
  PROVE  Account0(i)' = row /\ targets'[i] = targets[i] /\ policy'[i] = policy[i]
  BY DEF Types, RowsAreClaimed, SetAccount, Account0, AccountOf

\* A run goes on with what it has extracted.
Goes(p, pc) ==
    /\ rs'[p].pc = pc /\ rs'[p].tgt = rs[p].tgt /\ rs'[p].profile = rs[p].profile
    /\ rs'[p].label = rs[p].label /\ rs'[p].sigs = rs[p].sigs

LEMMA GotoGoes ==
  ASSUME Types, NEW p \in Proc, NEW pc, RsGoto(p, pc)
  PROVE  Goes(p, pc)
<1>1. rs'[p] = [rs[p] EXCEPT !.pc = pc] /\ IsRun(rs[p])
  BY DEF Types, RsGoto
<1>2. QED BY <1>1 DEF Goes, IsRun

LEMMA ScoreStays ==
  ASSUME Types, RowsAreClaimed, NEW p \in Proc, Moves(p), ~RsAt(p, "idle"), NEW pc, Goes(p, pc)
  PROVE  Score(p)' = Score(p)
<1>1. rs[p].tgt \in DOMAIN targets /\ targets'[rs[p].tgt].contact = targets[rs[p].tgt].contact
  BY RunTarget, MoveFrame DEF Frame
<1>2. QED BY <1>1 DEF Score, Goes

\* The run ends, or is about to.
LEMMA SoloEnds ==
  ASSUME Types, RowsAreClaimed, NEW p \in Proc, Runs(p), NEW i, i = rs[p].tgt,
         RunFacts(p, i), Sound(i), ReportAt(p, i),
         \/ EnterPipeline(p) /\ ~RsGoto(p, "gather")
         \/ Book(p) /\ ~RsGoto(p, "persist")
         \/ ModelFails(p) \/ Timeout(p) \/ RecordTimeout(p) \/ Raise(p) \/ RecordCrash(p) \/ Return(p)
  PROVE  Sound(i)' /\ (rs'[p].pc # "idle" => RunFacts(p, i)' /\ ReportAt(p, i)')
<1>1. RsStep(p) /\ ~RsAt(p, "idle") /\ i \in DOMAIN targets
  BY RunTypes, RunTarget DEF Runs
<1>2. \A pc \in ResearchPC, result \in State \cup {"none"} : Conclude(p, pc, result) =>
          /\ rs'[p].pc = pc /\ rs'[p].result = result
          /\ pc \in {"return", "timed_out", "report", "crashed"} => RunFacts(p, i)'
  BY ConcludeType, NoFacts DEF RunFacts, RsAt, Unbooked, Researched, Undecided, Summarized, ScoredAccount, ScoredTarget
<1>3. {"return", "timed_out", "report", "crashed"} \subseteq ResearchPC /\ "failed" \in State \cup {"none"}
  BY DEF ResearchPC, State
<1>4. EndResearch(p) => rs'[p].pc = "idle"
  BY EndType
<1>5. CASE EnterPipeline(p) /\ ~RsGoto(p, "gather")
  <2>1. Conclude(p, "return", "failed") /\ UNCHANGED intakeDB /\ RsAt(p, "enter")
    BY <1>5 DEF EnterPipeline
  <2>2. SameRow(i) /\ Sound(i)'
    BY <2>1, SameTables, SoundStays
  <2>3. targets[i].state = "new" /\ policy[i] = "none"
    BY <2>1 DEF RunFacts, Unbooked, Undecided, RsAt
  <2>4. rs'[p].pc = "return" /\ rs'[p].result = "failed" /\ RunFacts(p, i)'
    BY <1>2, <1>3, <2>1
  <2>5. QED BY <2>2, <2>3, <2>4 DEF ReportAt, SameRow
<1>6. CASE \/ Book(p) /\ ~RsGoto(p, "persist")
           \/ ModelFails(p)
           \/ RecordTimeout(p)
  <2>1. PICK pc \in {"return", "report"} : Conclude(p, pc, "failed")
    BY <1>6 DEF Book, ModelFails, RecordTimeout
  <2>2. UNCHANGED <<accounts, policy>> /\ \E from : Move(i, from, "failed")
    BY <1>6 DEF Book, ModelFails, RecordTimeout
  <2>3. Sound(i)' /\ targets'[i].state = "failed"
    BY <1>1, <2>2, FailedIsSound
  <2>4. rs'[p].result = "failed" /\ RunFacts(p, i)'
    BY <1>2, <1>3, <2>1
  <2>5. QED BY <2>3, <2>4 DEF ReportAt
<1>7. CASE Timeout(p) \/ Raise(p)
  <2>1. UNCHANGED intakeDB /\ \E pc \in {"timed_out", "crashed"} : Conclude(p, pc, "none")
    BY <1>7 DEF Timeout, Raise
  <2>2. Sound(i)'
    BY <2>1, SameTables, SoundStays
  <2>3. rs'[p].pc \in {"timed_out", "crashed"} /\ RunFacts(p, i)'
    BY <1>2, <1>3, <2>1
  <2>4. QED BY <2>2, <2>3 DEF ReportAt
<1>8. CASE RecordCrash(p)
  <2>1. /\ UNCHANGED <<accounts, policy>> /\ EndResearch(p)
        /\ UNCHANGED targets \/ \E from : Move(i, from, "failed")
    BY <1>8 DEF RecordCrash
  <2>2. Sound(i)'
    BY <1>1, <2>1, FailedIsSound, SameTables, SoundStays DEF intakeDB
  <2>3. QED BY <1>4, <2>1, <2>2
<1>9. CASE Return(p)
  BY <1>4, <1>9, SameTables, SoundStays DEF Return
<1>10. QED BY <1>5, <1>6, <1>7, <1>8, <1>9

\* The run goes on: what it writes is what it says.
LEMMA SoloReads ==
  ASSUME Types, RowsAreClaimed, NEW p \in Proc, Runs(p), NEW i, i = rs[p].tgt,
         RunFacts(p, i), Sound(i),
         \/ RsGoto(p, "gather") /\ EnterPipeline(p)
         \/ FetchPage(p) \/ PersistFindings(p) \/ DetectSignals(p) \/ InsertSignal(p)
         \/ JudgeFails(p)
  PROVE  Sound(i)' /\ RunFacts(p, i)' /\ ReportAt(p, i)'
<1>1. RsStep(p) /\ ~RsAt(p, "idle") /\ i \in DOMAIN targets /\ IsRun(rs[p])
  BY RunTypes, RunTarget DEF Runs, Types
<1>2. UNCHANGED intakeDB
  BY DEF EnterPipeline, FetchPage, PersistFindings, DetectSignals, InsertSignal, JudgeFails
<1>3. SameRow(i) /\ Sound(i)' /\ FinalLabel(i)' = FinalLabel(i)
  BY <1>2, SameTables, SoundStays DEF SameRow, FinalLabel
<1>4. CASE RsGoto(p, "gather") /\ EnterPipeline(p)
  <2>1. Goes(p, "gather") /\ rs[p].pc = "enter"
    BY <1>4, GotoGoes DEF EnterPipeline, RsAt
  <2>2. QED
    BY <1>3, <2>1 DEF Goes, RunFacts, ReportAt, SameRow, RsAt, Unbooked, Researched, Undecided,
           Summarized, ScoredAccount, ScoredTarget
<1>5. CASE FetchPage(p)
  <2>1. rs'[p] = [rs[p] EXCEPT !.stored = rs[p].stored \cup {"page"}] /\ rs[p].pc = "gather"
    BY <1>5, RunRecords DEF FetchPage, RsAt
  <2>2. Goes(p, "gather")
    BY <1>1, <2>1 DEF IsRun, Goes
  <2>3. QED
    BY <1>3, <2>1, <2>2 DEF Goes, RunFacts, ReportAt, SameRow, RsAt, Unbooked, Researched, Undecided,
           Summarized, ScoredAccount, ScoredTarget
<1>6. CASE PersistFindings(p)
  <2>1. /\ rs'[p] = [rs[p] EXCEPT !.pc = "summarize", !.stored = rs[p].stored \cup {"findings"}]
        /\ rs[p].pc = "persist"
    BY <1>6, RunRecords DEF PersistFindings, RsAt
  <2>2. Goes(p, "summarize")
    BY <1>1, <2>1 DEF IsRun, Goes
  <2>3. QED
    BY <1>3, <2>1, <2>2 DEF Goes, RunFacts, ReportAt, SameRow, RsAt, Unbooked, Researched, Undecided,
           Summarized, ScoredAccount, ScoredTarget
<1>7. CASE DetectSignals(p) \/ InsertSignal(p)
  <2>1. /\ rs[p].pc \in {"detect", "signals"} /\ rs'[p].pc \in {"signals", "score"}
        /\ rs'[p].tgt = i /\ rs'[p].profile = rs[p].profile
    <3>1. CASE DetectSignals(p)
      <4>1. PICK pc \in {"score", "signals"}, sigs \in SignalLists :
                rs'[p] = [rs[p] EXCEPT !.pc = pc, !.sigs = sigs, !.hits = DOMAIN sigs]
        BY <3>1, RunRecords
      <4>2. QED BY <1>1, <3>1, <4>1 DEF IsRun, DetectSignals, RsAt
    <3>2. CASE InsertSignal(p)
      <4>1. PICK type \in rs[p].hits, tier \in Tier :
                rs' = [rs EXCEPT ![p].hits = @ \ {type}, ![p].tiers = @ \cup {tier},
                                 ![p].pc = IF rs[p].hits = {type} THEN "score" ELSE @]
        BY <3>2 DEF InsertSignal
      <4>2. rs[p].pc = "signals"
        BY <3>2 DEF InsertSignal, RsAt
      <4>3. PICK pc \in {"signals", "score"} :
                rs'[p] = [rs[p] EXCEPT !.hits = rs[p].hits \ {type},
                                       !.tiers = rs[p].tiers \cup {tier}, !.pc = pc]
        BY <4>1, <4>2 DEF Types
      <4>4. QED BY <1>1, <4>2, <4>3 DEF IsRun
    <3>3. QED BY <1>7, <3>1, <3>2
  <2>2. QED
    BY <1>3, <2>1 DEF RunFacts, ReportAt, SameRow, RsAt, Unbooked, Researched, Undecided,
           Summarized, ScoredAccount, ScoredTarget
<1>8. CASE JudgeFails(p)
  <2>1. /\ rs'[p] = [rs[p] EXCEPT !.pc = "route", !.label = FitLabelOf(Score(p))]
        /\ rs[p].pc = "judge"
    BY <1>8, RunRecords DEF JudgeFails, RsAt
  <2>2. /\ rs'[p].pc = "route" /\ rs'[p].label = FitLabelOf(Score(p)) /\ rs'[p].tgt = i
        /\ rs'[p].profile = rs[p].profile /\ rs'[p].sigs = rs[p].sigs
    BY <1>1, <2>1 DEF IsRun
  <2>3. Score(p)' = Score(p)
    BY <1>2, <2>2 DEF Score, intakeDB
  <2>4. FinalLabel(i) = FitLabelOf(Score(p))
    BY <2>1 DEF RunFacts, RsAt, ScoredAccount, FinalLabel
  <2>5. QED
    BY <1>3, <2>1, <2>2, <2>3, <2>4 DEF RunFacts, ReportAt, SameRow, RsAt, Unbooked, Researched,
           Undecided, Summarized, ScoredAccount, ScoredTarget
<1>9. QED BY <1>4, <1>5, <1>6, <1>7, <1>8

LEMMA SoloWrites ==
  ASSUME Types, RowsAreClaimed, NEW p \in Proc, Runs(p), NEW i, i = rs[p].tgt,
         RunFacts(p, i), Sound(i),
         \/ RsGoto(p, "persist") /\ Book(p)
         \/ Summarize(p) \/ ScoreAccount(p) \/ ScoreTarget(p) \/ ScoreMove(p)
  PROVE  Sound(i)' /\ RunFacts(p, i)' /\ ReportAt(p, i)'
<1>1. RsStep(p) /\ ~RsAt(p, "idle") /\ i \in DOMAIN targets /\ IsRun(rs[p]) /\ Moves(p)
      /\ Account0(i) \in Account /\ targets[i] \in TargetRow /\ Score(p) \in Int
  BY RunTypes, RunTarget DEF Runs, Types, Moves
<1>2. CASE RsGoto(p, "persist") /\ Book(p)
  <2>1. Goes(p, "persist") /\ rs[p].pc = "gather" /\ UNCHANGED <<accounts, policy>>
    BY <1>2, GotoGoes DEF Book, RsAt
  <2>2. ~Conclude(p, "return", "failed")
    <3>1. Conclude(p, "return", "failed") => rs'[p].pc = "return"
      BY ConcludeType DEF ResearchPC, State
    <3>2. QED BY <2>1, <3>1 DEF Goes
  <2>3. Move(i, "new", "researched")
    BY <1>2, <2>2 DEF Book
  <2>4. /\ targets'[i].state = "researched" /\ policy'[i] = policy[i] /\ Account0(i)' = Account0(i)
    BY <1>1, <2>1, <2>3, StateIsSet
  <2>5. targets[i].state = "new" /\ policy[i] = "none" /\ Account0(i).judge = "none"
    BY <2>1 DEF RunFacts, Unbooked, Undecided, Sound, FreshAt
  <2>6. QED
    BY <2>1, <2>4, <2>5 DEF Goes, Sound, FreshAt, AllowedAt, RoutedAt, Allowed, RunFacts, ReportAt, RsAt,
           Unbooked, Researched, Undecided, Summarized, ScoredAccount, ScoredTarget
<1>3. CASE Summarize(p)
  <2>1. PICK profile \in Profiles :
            /\ SetAccount(i, [Account0(i) EXCEPT !.summary = profile.summary])
            /\ rs' = [rs EXCEPT ![p].pc = "detect", ![p].profile = profile]
    BY <1>3 DEF Summarize, Account0
  <2>2. rs[p].pc = "summarize" /\ UNCHANGED <<targets, policy>>
    BY <1>3 DEF Summarize, RsAt
  <2>3. rs'[p] = [rs[p] EXCEPT !.pc = "detect", !.profile = profile]
    BY <2>1 DEF Types
  <2>4. rs'[p].pc = "detect" /\ rs'[p].profile = profile /\ rs'[p].tgt = i
    BY <1>1, <2>3 DEF IsRun
  <2>5. /\ Account0(i)' = [Account0(i) EXCEPT !.summary = profile.summary]
        /\ targets'[i] = targets[i] /\ policy'[i] = policy[i]
    BY <1>1, <2>1, <2>2, AccountIsSet
  <2>6. Account0(i)'.summary = profile.summary /\ Account0(i)'.judge = Account0(i).judge
    BY <1>1, <2>5 DEF Account
  <2>7. policy[i] = "none" /\ targets[i].state = "researched" /\ Account0(i).judge = "none"
    BY <2>2 DEF RunFacts, Undecided, Researched
  <2>8. QED
    BY <2>4, <2>5, <2>6, <2>7 DEF Sound, FreshAt, AllowedAt, RoutedAt, Allowed, RunFacts, ReportAt, RsAt,
           Unbooked, Researched, Undecided, Summarized, ScoredAccount, ScoredTarget
<1>4. CASE ScoreAccount(p)
  <2> DEFINE row == [Account0(i) EXCEPT !.label = FitLabelOf(Score(p)), !.score = Score(p)]
  <2>1. SetAccount(i, row) /\ rs[p].pc = "score" /\ UNCHANGED <<targets, policy>>
    BY <1>4 DEF ScoreAccount, RsAt, Account0
  <2>2. rs'[p] = [rs[p] EXCEPT !.pc = "score_target", !.stored = {}, !.tiers = {}]
    BY <1>4, RunRecords
  <2>3. Goes(p, "score_target")
    BY <1>1, <2>2 DEF IsRun, Goes
  <2>4. Score(p)' = Score(p)
    BY <1>1, <2>3, ScoreStays
  <2>5. Account0(i)' = row /\ targets'[i] = targets[i] /\ policy'[i] = policy[i]
    BY <1>1, <2>1, AccountIsSet
  <2>6. /\ Account0(i)'.label = FitLabelOf(Score(p)) /\ Account0(i)'.score = Score(p)
        /\ Account0(i)'.judge = Account0(i).judge /\ Account0(i)'.summary = Account0(i).summary
    BY <1>1, <2>5 DEF Account
  <2>7. /\ policy[i] = "none" /\ targets[i].state = "researched" /\ Account0(i).judge = "none"
        /\ Account0(i).summary = rs[p].profile.summary
    BY <2>1 DEF RunFacts, Undecided, Researched, Summarized
  <2>8. QED
    BY <2>3, <2>4, <2>5, <2>6, <2>7 DEF Goes, Sound, FreshAt, AllowedAt, RoutedAt, Allowed, RunFacts,
           ReportAt, RsAt, Unbooked, Researched, Undecided, Summarized, ScoredAccount, ScoredTarget
<1>5. CASE ScoreTarget(p)
  <2>1. /\ targets' = [targets EXCEPT ![i].score = Score(p)] /\ UNCHANGED <<accounts, policy>>
        /\ rs[p].pc = "score_target" /\ RsGoto(p, "score_move")
    BY <1>5 DEF ScoreTarget, RsAt
  <2>2. Goes(p, "score_move")
    BY <2>1, GotoGoes
  <2>3. Score(p)' = Score(p)
    BY <1>1, <2>2, ScoreStays
  <2>4. targets'[i] = [targets[i] EXCEPT !.score = Score(p)]
    BY <1>1, <2>1 DEF Types
  <2>5. /\ targets'[i].score = Score(p) /\ targets'[i].state = targets[i].state
        /\ targets'[i].domain = targets[i].domain
    BY <1>1, <2>4 DEF TargetRow
  <2>6. policy'[i] = policy[i] /\ Account0(i)' = Account0(i)
    BY <2>1, <2>5 DEF Account0, AccountOf
  <2>7. /\ policy[i] = "none" /\ targets[i].state = "researched" /\ Account0(i).judge = "none"
        /\ Account0(i).summary = rs[p].profile.summary
        /\ Account0(i).label = FitLabelOf(Score(p)) /\ Account0(i).score = Score(p)
    BY <2>1 DEF RunFacts, Undecided, Researched, Summarized, ScoredAccount
  <2>8. QED
    BY <2>2, <2>3, <2>5, <2>6, <2>7 DEF Goes, Sound, FreshAt, AllowedAt, RoutedAt, Allowed, RunFacts,
           ReportAt, RsAt, Unbooked, Researched, Undecided, Summarized, ScoredAccount, ScoredTarget
<1>6. CASE ScoreMove(p)
  <2>1. /\ Move(i, "researched", "scored") /\ UNCHANGED <<accounts, policy>>
        /\ rs[p].pc = "score_move" /\ RsGoto(p, "judge")
    BY <1>6 DEF ScoreMove, RsAt
  <2>2. Goes(p, "judge")
    BY <2>1, GotoGoes
  <2>3. Score(p)' = Score(p)
    BY <1>1, <2>2, ScoreStays
  <2>4. /\ targets'[i].state = "scored" /\ targets'[i].score = targets[i].score
        /\ policy'[i] = policy[i] /\ Account0(i)' = Account0(i)
    BY <1>1, <2>1, StateIsSet
  <2>5. /\ policy[i] = "none" /\ Account0(i).judge = "none"
        /\ Account0(i).summary = rs[p].profile.summary
        /\ Account0(i).label = FitLabelOf(Score(p)) /\ Account0(i).score = Score(p)
        /\ targets[i].score = Score(p)
    BY <2>1 DEF RunFacts, Undecided, Researched, Summarized, ScoredAccount, ScoredTarget
  <2>6. QED
    BY <2>2, <2>3, <2>4, <2>5 DEF Goes, Sound, FreshAt, AllowedAt, RoutedAt, Allowed, RunFacts,
           ReportAt, RsAt, Unbooked, Researched, Undecided, Summarized, ScoredAccount, ScoredTarget
<1>7. QED BY <1>2, <1>3, <1>4, <1>5, <1>6

LEMMA SoloDecides ==
  ASSUME Types, RowsAreClaimed, NEW p \in Proc, Runs(p), NEW i, i = rs[p].tgt,
         RunFacts(p, i), Sound(i), Judge(p) \/ Route(p) \/ PolicyGate(p)
  PROVE  Sound(i)' /\ RunFacts(p, i)' /\ ReportAt(p, i)'
<1>1. RsStep(p) /\ ~RsAt(p, "idle") /\ i \in DOMAIN targets /\ IsRun(rs[p]) /\ Moves(p)
      /\ Account0(i) \in Account /\ targets[i] \in TargetRow /\ Score(p) \in Int
  BY RunTypes, RunTarget DEF Runs, Types, Moves
<1>2. /\ Account0(i).summary = rs[p].profile.summary
      /\ Account0(i).label = FitLabelOf(Score(p)) /\ Account0(i).score = Score(p)
      /\ targets[i].score = Score(p) /\ policy[i] = "none" /\ rs[p].pc \in {"judge", "route", "gate"}
  BY DEF Judge, Route, PolicyGate, RunFacts, RsAt, Undecided, Summarized, ScoredAccount, ScoredTarget
<1>3. CASE Judge(p)
  <2>1. rs[p].pc = "judge" /\ UNCHANGED <<targets, policy>> /\ targets[i].state = "scored"
    BY <1>3 DEF Judge, RsAt, RunFacts
  <2>2. CASE Conclude(p, "crashed", "none") /\ UNCHANGED accounts
    <3>1. rs'[p].pc = "crashed"
      BY <2>2, ConcludeType DEF ResearchPC, State
    <3>2. RunFacts(p, i)' /\ ReportAt(p, i)'
      BY <3>1 DEF RunFacts, ReportAt, RsAt, Unbooked, Researched, Undecided, Summarized, ScoredAccount,
             ScoredTarget
    <3>3. QED BY <2>1, <2>2, <3>2, SameTables, SoundStays DEF intakeDB
  <2>3. ASSUME NEW label \in Verdicts,
               SetAccount(i, [Account0(i) EXCEPT !.judge = label]),
               rs' = [rs EXCEPT ![p].pc = "route", ![p].label = label]
        PROVE  Sound(i)' /\ RunFacts(p, i)' /\ ReportAt(p, i)'
    <3>1. label # "none"
      BY ResearchAssumption DEF FitLabel
    <3>2. rs'[p] = [rs[p] EXCEPT !.pc = "route", !.label = label]
      BY <2>3 DEF Types
    <3>3. /\ rs'[p].pc = "route" /\ rs'[p].label = label /\ rs'[p].tgt = i
          /\ rs'[p].profile = rs[p].profile /\ rs'[p].sigs = rs[p].sigs
      BY <1>1, <3>2 DEF IsRun
    <3>4. Score(p)' = Score(p)
      BY <2>1, <3>3 DEF Score
    <3>5. /\ Account0(i)' = [Account0(i) EXCEPT !.judge = label]
          /\ targets'[i] = targets[i] /\ policy'[i] = policy[i]
      BY <1>1, <2>1, <2>3, AccountIsSet
    <3>6. /\ Account0(i)'.judge = label /\ Account0(i)'.label = Account0(i).label
          /\ Account0(i)'.score = Account0(i).score /\ Account0(i)'.summary = Account0(i).summary
      BY <1>1, <3>5 DEF Account
    <3>7. FinalLabel(i)' = label
      BY <3>1, <3>6 DEF FinalLabel
    <3>8. QED
      BY <1>2, <2>1, <3>3, <3>4, <3>5, <3>6, <3>7 DEF Sound, FreshAt, AllowedAt, RoutedAt, Allowed,
             RunFacts, ReportAt, RsAt, Unbooked, Researched, Undecided, Summarized, ScoredAccount,
             ScoredTarget
  <2>4. QED BY <1>3, <2>2, <2>3 DEF Judge, Account0
<1>4. CASE Route(p)
  <2> DEFINE to == StateOf(rs[p].label)
  <2>1. /\ rs[p].pc = "route" /\ targets[i].state = "scored" /\ rs[p].label = FinalLabel(i)
        /\ UNCHANGED <<accounts, policy>>
    BY <1>4 DEF Route, RsAt, RunFacts
  <2>2. rs'[p] = [rs[p] EXCEPT !.pc = "gate", !.label = "none", !.result = to]
    BY <1>4, RunRecords
  <2>3. /\ rs'[p].pc = "gate" /\ rs'[p].result = to /\ rs'[p].tgt = i
        /\ rs'[p].profile = rs[p].profile /\ rs'[p].sigs = rs[p].sigs
    BY <1>1, <2>2 DEF IsRun
  <2>4. /\ targets'[i].state = to /\ targets'[i].score = targets[i].score
        /\ policy'[i] = policy[i] /\ Account0(i)' = Account0(i)
    <3>1. CASE Move(i, "scored", to)
      BY <1>1, <2>1, <3>1, StateIsSet
    <3>2. CASE to = "scored" /\ UNCHANGED targets
      BY <2>1, <3>2 DEF Account0, AccountOf
    <3>3. QED BY <1>4, <3>1, <3>2 DEF Route
  <2>5. FinalLabel(i)' = FinalLabel(i)
    BY <2>4 DEF FinalLabel
  <2>6. targets'[i].contact = targets[i].contact
    BY <1>1, MoveFrame DEF Frame
  <2>7. Score(p)' = Score(p)
    BY <2>3, <2>6 DEF Score
  <2>8. to # "new"
    BY StateOfType
  <2>9. QED
    BY <1>2, <2>1, <2>3, <2>4, <2>5, <2>7, <2>8 DEF Sound, FreshAt, AllowedAt, RoutedAt, Allowed, RunFacts,
           ReportAt, RsAt, Unbooked, Researched, Undecided, Summarized, ScoredAccount, ScoredTarget
<1>5. CASE PolicyGate(p)
  <2> DEFINE result == StateOf(FinalLabel(i))
  <2>1. /\ rs[p].pc = "gate" /\ UNCHANGED <<accounts, targets>>
        /\ targets[i].state = result /\ rs[p].result = result
    BY <1>5 DEF PolicyGate, RsAt, RunFacts
  <2>2. PICK d \in {"deny", Decision(rs[p].profile, Score(p))} : policy' = [policy EXCEPT ![i] = d]
    BY <1>5 DEF PolicyGate
  <2>3. /\ d # "none"
        /\ d = "allow" => Score(p) >= POLICY_FLOOR /\ rs[p].profile.summary
    BY <1>1, DecisionType DEF IsRun
  <2>4. policy'[i] = d /\ targets'[i] = targets[i] /\ Account0(i)' = Account0(i)
    BY <1>1, <2>1, <2>2 DEF Types, Account0, AccountOf
  <2>5. FinalLabel(i)' = FinalLabel(i)
    BY <2>4 DEF FinalLabel
  <2>6. /\ rs'[p].pc = "return" /\ rs'[p].result = result
    <3>1. Conclude(p, "return", rs[p].result)
      BY <1>5 DEF PolicyGate
    <3>2. rs[p].result \in State \cup {"none"}
      BY <1>1 DEF IsRun
    <3>3. QED BY <2>1, <3>1, <3>2, ConcludeType DEF ResearchPC
  <2>7. /\ result = "scored" \/ result \in {"watchlist", "not_target"}
        /\ result # "new"
    BY StateOfType
  <2>8. Score(p) >= POLICY_FLOOR => Account0(i).label \in {"strong_fit", "good_fit"}
    BY <1>1, <1>2, LabelType
  <2>9. Sound(i)'
    BY <1>2, <2>1, <2>3, <2>4, <2>5, <2>7, <2>8 DEF Sound, FreshAt, AllowedAt, RoutedAt, Allowed
  <2>10. RunFacts(p, i)' /\ ReportAt(p, i)'
    BY <2>1, <2>3, <2>4, <2>6 DEF RunFacts, ReportAt, RsAt, Unbooked, Researched, Undecided, Summarized,
           ScoredAccount, ScoredTarget
  <2>11. QED BY <2>9, <2>10
<1>6. QED BY <1>3, <1>4, <1>5

LEMMA SoloRun ==
  ASSUME Types, RowsAreClaimed, NEW p \in Proc, Runs(p), NEW i, i = rs[p].tgt,
         RunFacts(p, i), Sound(i), ReportAt(p, i)
  PROVE  Sound(i)' /\ (rs'[p].pc # "idle" => RunFacts(p, i)' /\ ReportAt(p, i)')
<1>1. RsStep(p)
  BY DEF Runs
<1>2. QED BY <1>1, SoloEnds, SoloReads, SoloWrites, SoloDecides DEF RsStep

-----------------------------------------------------------------------------
\* The parts about targets that were at hand of one program at a time.
LEMMA HandOfOne ==
  ASSUME ContestIsKnown, NEW p \in Proc, NEW q \in Proc, q # p, NEW i \in Work(q), i \notin contested
  PROVE  i \notin Work(p)
  BY DEF ContestIsKnown

\* A run is one that went on, or was taken up.
LEMMA NotIdle ==
  ASSUME Types, RowsAreClaimed, NEW p \in Proc, Moves(p), rs'[p].pc # "idle"
  PROVE  \/ Runs(p) /\ ~RsAt(p, "idle") /\ rs'[p].tgt = rs[p].tgt
         \/ Takes(p)
<1>1. CASE Drops(p)
  BY <1>1, EmptyShapes DEF Drops
<1>2. CASE Imports(p) \/ Loads(p) \/ Drafts(p) \/ Idles(p)
  BY <1>2 DEF Imports, Loads, Drafts, Idles, WkAt, RsAt, Types
<1>3. CASE Runs(p)
  BY <1>3, RunTypes DEF Runs
<1>4. QED BY <1>1, <1>2, <1>3 DEF Moves

LEMMA SoundStep ==
  ASSUME Types, RowsAreClaimed, OneTargetPerDomain, UnclaimedIsUnjudged,
         NewIsFresh, RunIsStored, AllowedScoreClears, RoutedByFinalLabel, ReportsAreTrue,
         NEW p \in Proc, Moves(p), contested \subseteq contested', NEW i \in Solo'
  PROVE  Sound(i)'
<1>1. CASE i \notin DOMAIN targets
  <2>1. targets'[i].state = "new" /\ policy'[i] = "none" /\ Account0(i)'.judge = "none"
    BY <1>1, NewRow DEF Solo
  <2>2. QED BY <2>1 DEF Sound, FreshAt, AllowedAt, RoutedAt, Allowed
<1>2. CASE i \in DOMAIN targets
  <2>1. i \in Solo
    BY <1>2 DEF Solo
  <2>2. Sound(i)
    BY <2>1 DEF NewIsFresh, AllowedScoreClears, RoutedByFinalLabel, Sound, FreshAt, AllowedAt, RoutedAt
  <2>3. CASE Running(p, i)
    <3>1. RunFacts(p, i) /\ ReportAt(p, i)
      BY <2>1, <2>3 DEF Running, RunIsStored, ReportsAreTrue, ReportAt
    <3>2. QED BY <2>2, <2>3, <3>1, SoloRun DEF Running
  <2>4. CASE ~Running(p, i)
    <3>1. /\ policy'[i] = policy[i] /\ Account0(i)' = Account0(i)
          /\ targets'[i] = targets[i] \/ Drafted(p, i)
      BY <1>2, <2>4, RowFrame
    <3>2. CASE targets'[i] = targets[i]
      BY <2>2, <3>1, <3>2, SoundStays DEF SameRow
    <3>3. CASE Drafted(p, i)
      <4>1. PICK to \in {"awaiting_review", "failed"} : targets'[i] = [targets[i] EXCEPT !.state = to]
        BY <3>3 DEF Drafted
      <4>2. targets[i] \in TargetRow
        BY <1>2 DEF Types
      <4>3. targets'[i].state = to /\ targets'[i].score = targets[i].score
        BY <4>1, <4>2 DEF TargetRow
      <4>4. StateOf(FinalLabel(i)) = "scored" /\ policy[i] = "allow"
        BY <2>2, <3>3 DEF Drafted, Allowed, Sound, RoutedAt
      <4>5. FinalLabel(i)' = FinalLabel(i)
        BY <3>1 DEF FinalLabel
      <4>6. QED
        BY <2>2, <3>1, <4>3, <4>4, <4>5 DEF Sound, FreshAt, AllowedAt, RoutedAt, Allowed
    <3>4. QED BY <3>1, <3>2, <3>3
  <2>5. QED BY <2>3, <2>4
<1>3. QED BY <1>1, <1>2

LEMMA RunStep ==
  ASSUME Types, RowsAreClaimed, OneTargetPerDomain, ContestIsKnown,
         NewIsFresh, RunIsStored, AllowedScoreClears, RoutedByFinalLabel, ReportsAreTrue,
         NEW p \in Proc, Own(p), Moves(p), contested \subseteq contested',
         NEW q \in Proc, rs'[q].pc # "idle", NEW i \in Solo', i = rs'[q].tgt
  PROVE  RunFacts(q, i)' /\ ReportAt(q, i)'
<1>1. CASE q # p
  <2>1. rs'[q] = rs[q] /\ i = rs[q].tgt
    BY <1>1, OthersStay DEF Same
  <2>2. i \in Work(q) /\ i \in DOMAIN targets /\ i \in Solo /\ ~RsAt(q, "idle")
    BY <2>1 DEF Work, RsAt, Types, Solo
  <2>3. RunFacts(q, i) /\ ReportAt(q, i)
    BY <2>1, <2>2 DEF RunIsStored, ReportsAreTrue, ReportAt
  <2>4. i \notin Work(p)
    BY <1>1, <2>2, HandOfOne DEF Solo
  <2>5. /\ targets'[i] = targets[i] /\ policy'[i] = policy[i] /\ Account0(i)' = Account0(i)
        /\ FinalLabel(i)' = FinalLabel(i)
    BY <2>2, <2>4, Untouched
  <2>6. Score(q)' = Score(q)
    BY <2>1, <2>5 DEF Score
  <2>7. QED BY <2>1, <2>3, <2>5, <2>6 DEF RunFacts, ReportAt, RsAt
<1>2. CASE q = p /\ Runs(p) /\ ~RsAt(p, "idle") /\ rs'[p].tgt = rs[p].tgt
  <2>1. i \in Solo /\ i = rs[p].tgt
    BY <1>2, RunTarget DEF Solo
  <2>2. RunFacts(p, i) /\ ReportAt(p, i) /\ Sound(i)
    BY <1>2, <2>1 DEF RunIsStored, ReportsAreTrue, ReportAt, NewIsFresh, AllowedScoreClears,
       RoutedByFinalLabel, Sound, FreshAt, AllowedAt, RoutedAt, RsAt
  <2>3. QED BY <1>2, <2>1, <2>2, SoloRun
<1>3. CASE q = p /\ Takes(p)
  <2>1. PICK j \in wk[p].todo : rs'[p] = [NoRun EXCEPT !.pc = "enter", !.tgt = j]
    BY <1>3 DEF Takes
  <2>2. rs'[p].pc = "enter" /\ i = j
    BY <1>3, <2>1 DEF NoRun
  <2>3. UNCHANGED intakeDB /\ wk[p].pc = "research"
    BY <1>3 DEF Takes, WkAt
  <2>4. i \in Solo
    BY <2>3 DEF Solo, intakeDB
  <2>5. targets[i].state = "new" /\ policy[i] = "none"
    BY <2>2, <2>3, <2>4 DEF NewIsFresh
  <2>6. targets'[i].state = "new" /\ policy'[i] = "none"
    BY <2>3, <2>5 DEF intakeDB
  <2>7. QED
    BY <1>3, <2>2, <2>6 DEF RunFacts, ReportAt, RsAt, Unbooked, Researched, Undecided, Summarized,
           ScoredAccount, ScoredTarget
<1>4. QED BY <1>1, <1>2, <1>3, NotIdle

LEMMA FreshStep ==
  ASSUME Types, RowsAreClaimed, OneTargetPerDomain, UnclaimedIsUnjudged, ContestIsKnown, NewIsFresh,
         NEW p \in Proc, Own(p), Moves(p), contested \subseteq contested',
         NEW q \in Proc, NEW i \in Solo' \cap (im'[q].made \cup wk'[q].todo), wk'[q].pc # "draft"
  PROVE  targets'[i].state = "new"
<1>1. CASE i \notin DOMAIN targets
  BY <1>1, NewRow DEF Solo
<1>2. CASE i \in DOMAIN targets /\ q # p
  <2>1. Same(q) /\ i \in Solo /\ i \in Work(q)
    BY <1>2, OthersStay DEF Same, Solo, Work
  <2>2. targets[i].state = "new" /\ i \notin Work(p)
    BY <1>2, <2>1, HandOfOne DEF Same, NewIsFresh, Solo
  <2>3. QED BY <1>2, <2>2, Untouched
<1>3. CASE i \in DOMAIN targets /\ q = p
  <2>1. i \in Solo
    BY <1>3 DEF Solo
  <2>2. CASE Runs(p)
    <3>1. i \in im[p].made \cup wk[p].todo /\ wk[p].pc = "research" /\ ~RsAt(p, "idle")
      BY <1>3, <2>2, RunTypes DEF Runs, WkAt
    <3>2. i # rs[p].tgt
      BY <3>1 DEF Types, RsAt
    <3>3. targets'[i] = targets[i] \/ Drafted(p, i)
      BY <1>3, <3>2, RowFrame DEF Running
    <3>4. ~Drafted(p, i)
      BY <3>1 DEF Drafted, Drafts, WkAt
    <3>5. QED BY <2>1, <3>1, <3>3, <3>4 DEF NewIsFresh
  <2>3. CASE Takes(p)
    <3>1. i \in im[p].made \cup wk[p].todo /\ wk[p].pc = "research" /\ targets' = targets
      <4>1. PICK j \in wk[p].todo : wk'[p] = [wk[p] EXCEPT !.todo = wk[p].todo \ {j}]
        BY <2>3 DEF Takes
      <4>2. wk'[p].todo = wk[p].todo \ {j}
        BY <4>1 DEF Types, IsWork
      <4>3. QED BY <1>3, <2>3, <4>2 DEF Takes, WkAt, intakeDB
    <3>2. QED BY <2>1, <3>1 DEF NewIsFresh
  <2>4. CASE Imports(p)
    <3>1. i \in im[p].made \cup wk[p].todo
      <4>1. i \in im[p].made \cup wk[p].todo \/ i = Len(targets) + 1
        BY <1>3, <2>4, RowIsMade
      <4>2. Len(targets) + 1 \notin DOMAIN targets
        BY DEF Types
      <4>3. QED BY <1>3, <4>1, <4>2
    <3>2. wk[p].pc = "import"
      BY <2>4, RowIsMade
    <3>3. targets'[i] = targets[i] \/ Drafted(p, i)
      BY <1>3, <3>2, RowFrame DEF Running, Runs, WkAt
    <3>4. ~Drafted(p, i)
      BY <3>2 DEF Drafted, Drafts, WkAt
    <3>5. QED BY <2>1, <3>1, <3>2, <3>3, <3>4 DEF NewIsFresh
  <2>5. CASE Loads(p)
    <3>1. UNCHANGED intakeDB /\ i \in wk'[p].todo /\ wk'[p].pc = "research"
      BY <1>3, <2>5 DEF Loads
    <3>2. i \in Pending \/ (wk[p].pc = "import" /\ i \in im[p].made)
      BY <2>5, <3>1 DEF Loads, WkAt
    <3>3. targets[i].state = "new"
      BY <2>1, <3>2 DEF Pending, NewIsFresh
    <3>4. QED BY <3>1, <3>3 DEF intakeDB
  <2>6. QED BY <1>3, <2>2, <2>3, <2>4, <2>5 DEF Moves, Drops, Drafts, Idles
<1>4. QED BY <1>1, <1>2, <1>3

LEMMA SoloStep ==
  ASSUME Types, RowsAreClaimed, OneTargetPerDomain, UnclaimedIsUnjudged, ContestIsKnown,
         NewIsFresh, RunIsStored, AllowedScoreClears, RoutedByFinalLabel, ReportsAreTrue,
         NEW p \in Proc, Own(p), Moves(p), contested \subseteq contested'
  PROVE  NewIsFresh' /\ RunIsStored' /\ AllowedScoreClears' /\ RoutedByFinalLabel' /\ ReportsAreTrue'
<1>1. \A i \in Solo' : Sound(i)'
  BY SoundStep
<1>2. AllowedScoreClears' /\ RoutedByFinalLabel'
  BY <1>1 DEF AllowedScoreClears, RoutedByFinalLabel, Sound, AllowedAt, RoutedAt
<1>3. NewIsFresh'
  BY <1>1, FreshStep DEF NewIsFresh, Sound, FreshAt
<1>4. ASSUME NEW q \in Proc, rs'[q].pc # "idle", NEW i \in Solo', i = rs'[q].tgt
      PROVE  RunFacts(q, i)' /\ ReportAt(q, i)'
  BY <1>4, RunStep
<1>5. RunIsStored'
  BY <1>4 DEF RunIsStored, RsAt
<1>6. ReportsAreTrue'
  BY <1>4 DEF ReportsAreTrue, ReportAt
<1>7. QED BY <1>2, <1>3, <1>5, <1>6

-----------------------------------------------------------------------------
\* Targets that are left halfway.
HalfwayAt(i, pcs) == i \in cut \/ \E p \in Proc : rs[p].tgt = i /\ rs[p].pc \in pcs

Undecideds == Unfinished \cup {"judge", "route", "gate"}

\* A run leaves the places where its target is halfway by writing to it, or
\* is noticed.
LEMMA HalfwayRun ==
  ASSUME Types, RowsAreClaimed, NEW p \in Proc, Own(p), Moves(p), Watch, NEW i, Running(p, i)
  PROVE  \/ rs'[p].tgt = i /\ rs'[p].pc \in Unfinished
         \/ targets'[i].state = "failed"
         \/ i \in cut'
         \/ /\ targets'[i].state \notin {"new", "researched"}
            /\ \/ rs'[p].tgt = i /\ rs'[p].pc \in {"judge", "route", "gate"}
               \/ policy'[i] # "none"
         \/ /\ targets'[i] = targets[i]
            /\ rs[p].pc \notin Unfinished
            /\ \/ rs'[p].tgt = i /\ rs'[p].pc \in {"judge", "route", "gate"}
               \/ policy'[i] # "none"
               \/ policy'[i] = policy[i] /\ rs[p].pc \notin Undecideds
<1> DEFINE Goal ==
         \/ rs'[p].tgt = i /\ rs'[p].pc \in Unfinished
         \/ targets'[i].state = "failed"
         \/ i \in cut'
         \/ /\ targets'[i].state \notin {"new", "researched"}
            /\ \/ rs'[p].tgt = i /\ rs'[p].pc \in {"judge", "route", "gate"}
               \/ policy'[i] # "none"
         \/ /\ targets'[i] = targets[i]
            /\ rs[p].pc \notin Unfinished
            /\ \/ rs'[p].tgt = i /\ rs'[p].pc \in {"judge", "route", "gate"}
               \/ policy'[i] # "none"
               \/ policy'[i] = policy[i] /\ rs[p].pc \notin Undecideds
<1>1. /\ RsStep(p) /\ ~RsAt(p, "idle") /\ i = rs[p].tgt /\ i \in DOMAIN targets /\ IsRun(rs[p])
      /\ Runs(p)
  BY RunTypes, RunTarget DEF Running, Runs, Types
<1>2. rs'[p].pc # "idle" => rs'[p].tgt = i
  BY <1>1, RunTypes
<1>3. \A pc \in ResearchPC : /\ RsGoto(p, pc) => rs'[p].pc = pc
                             /\ \A result \in State \cup {"none"} :
                                    Conclude(p, pc, result) => rs'[p].pc = pc
  BY <1>1, GotoType, ConcludeType, GotoGoes DEF Goes
<1>4. ResearchPC = {"idle", "enter", "gather", "persist", "summarize", "detect", "signals",
                    "score", "score_target", "score_move", "judge", "route", "gate", "return",
                    "timed_out", "report", "crashed"}
  BY DEF ResearchPC
<1>5. {"failed", "scored", "researched"} \subseteq State
  BY DEF State
<1>6. UNCHANGED intakeDB => targets'[i] = targets[i] /\ policy'[i] = policy[i]
  BY DEF intakeDB
<1>7. CASE EnterPipeline(p)
  <2>1. UNCHANGED intakeDB /\ rs[p].pc = "enter"
    BY <1>7 DEF EnterPipeline, RsAt
  <2>2. QED BY <1>6, <2>1 DEF Unfinished, Researched, Undecideds
<1>8. CASE FetchPage(p)
  <2>1. UNCHANGED intakeDB /\ rs[p].pc = "gather"
    BY <1>8 DEF FetchPage, RsAt
  <2>2. QED BY <1>6, <2>1 DEF Unfinished, Researched, Undecideds
<1>9. CASE Book(p) \/ ModelFails(p) \/ RecordTimeout(p)
  <2>1. CASE Move(i, "new", "researched") /\ RsGoto(p, "persist")
    BY <1>2, <1>3, <1>4, <2>1 DEF Unfinished, Researched
  <2>2. CASE \E from : Move(i, from, "failed")
    <3>1. UNCHANGED <<accounts, policy>>
      BY <1>9 DEF Book, ModelFails, RecordTimeout
    <3>2. targets'[i].state = "failed"
      BY <1>1, <2>2, <3>1, StateIsSet
    <3>3. QED BY <3>2
  <2>3. QED BY <1>1, <1>9, <2>1, <2>2 DEF Book, ModelFails, RecordTimeout
<1>10. CASE PersistFindings(p) \/ Summarize(p) \/ DetectSignals(p) \/ InsertSignal(p) \/ ScoreAccount(p)
  <2>1. rs'[p].pc \in {"summarize", "detect", "signals", "score", "score_target"}
    <3>1. CASE PersistFindings(p)
      <4>1. rs'[p] = [rs[p] EXCEPT !.pc = "summarize", !.stored = rs[p].stored \cup {"findings"}]
        BY <3>1, RunRecords
      <4>2. QED BY <1>1, <4>1 DEF IsRun
    <3>2. CASE Summarize(p)
      <4>1. PICK profile \in Profiles : rs' = [rs EXCEPT ![p].pc = "detect", ![p].profile = profile]
        BY <3>2 DEF Summarize
      <4>2. rs'[p] = [rs[p] EXCEPT !.pc = "detect", !.profile = profile]
        BY <4>1 DEF Types
      <4>3. QED BY <1>1, <4>2 DEF IsRun
    <3>3. CASE DetectSignals(p)
      <4>1. \E pc \in {"score", "signals"}, sigs \in SignalLists :
                rs'[p] = [rs[p] EXCEPT !.pc = pc, !.sigs = sigs, !.hits = DOMAIN sigs]
        BY <3>3, RunRecords
      <4>2. QED BY <1>1, <4>1 DEF IsRun
    <3>4. CASE InsertSignal(p)
      <4>1. PICK type, tier :
                rs' = [rs EXCEPT ![p].hits = @ \ {type}, ![p].tiers = @ \cup {tier},
                                 ![p].pc = IF rs[p].hits = {type} THEN "score" ELSE @]
        BY <3>4 DEF InsertSignal
      <4>2. rs[p].pc = "signals"
        BY <3>4 DEF InsertSignal, RsAt
      <4>3. \E pc \in {"score", "signals"} :
                rs'[p] = [rs[p] EXCEPT !.hits = rs[p].hits \ {type},
                                       !.tiers = rs[p].tiers \cup {tier}, !.pc = pc]
        BY <4>1, <4>2 DEF Types
      <4>4. QED BY <1>1, <4>3 DEF IsRun
    <3>5. CASE ScoreAccount(p)
      <4>1. rs'[p] = [rs[p] EXCEPT !.pc = "score_target", !.stored = {}, !.tiers = {}]
        BY <3>5, RunRecords
      <4>2. QED BY <1>1, <4>1 DEF IsRun
    <3>6. QED BY <1>10, <3>1, <3>2, <3>3, <3>4, <3>5
  <2>2. QED BY <1>2, <2>1 DEF Unfinished, Researched
<1>11. CASE ScoreTarget(p)
  BY <1>2, <1>3, <1>4, <1>11 DEF ScoreTarget, Unfinished, Researched
<1>12. CASE ScoreMove(p)
  <2>1. /\ Move(i, "researched", "scored") /\ UNCHANGED <<accounts, policy>> /\ RsGoto(p, "judge")
    BY <1>1, <1>12 DEF ScoreMove
  <2>2. targets'[i].state = "scored" /\ rs'[p].pc = "judge"
    BY <1>1, <1>3, <1>4, <2>1, StateIsSet
  <2>3. QED BY <1>2, <2>2
<1>13. CASE JudgeFails(p) \/ Judge(p)
  <2>1. targets'[i] = targets[i] /\ rs[p].pc = "judge"
    BY <1>13 DEF JudgeFails, Judge, RsAt, intakeDB
  <2>2. rs'[p].pc \in {"route", "crashed"}
    <3>1. CASE Conclude(p, "crashed", "none")
      BY <1>3, <1>4, <3>1
    <3>2. CASE \E label : rs' = [rs EXCEPT ![p].pc = "route", ![p].label = label]
      BY <1>1, <3>2 DEF Types, IsRun
    <3>3. QED BY <1>13, <3>1, <3>2 DEF JudgeFails, Judge
  <2>3. QED BY <1>2, <2>1, <2>2 DEF Unfinished, Researched
<1>14. CASE Route(p)
  <2>1. rs'[p].pc = "gate"
    <3>1. rs'[p] = [rs[p] EXCEPT !.pc = "gate", !.label = "none", !.result = StateOf(rs[p].label)]
      BY <1>14, RunRecords
    <3>2. QED BY <1>1, <3>1 DEF IsRun
  <2>2. CASE UNCHANGED targets
    BY <1>2, <1>14, <2>1, <2>2 DEF Route, RsAt, Unfinished, Researched
  <2>3. CASE Move(i, "scored", StateOf(rs[p].label)) /\ StateOf(rs[p].label) # "scored"
    <3>1. targets'[i].state = StateOf(rs[p].label)
      BY <1>1, <1>14, <2>3, StateIsSet DEF Route
    <3>2. QED BY <1>2, <2>1, <2>3, <3>1, StateOfType
  <2>4. QED BY <1>1, <1>14, <2>2, <2>3 DEF Route
<1>15. CASE PolicyGate(p)
  <2>1. targets'[i] = targets[i] /\ rs[p].pc = "gate"
    BY <1>15 DEF PolicyGate, RsAt
  <2>2. Decision(rs[p].profile, Score(p)) # "none"
    BY <1>1, RunTarget, DecisionType DEF IsRun
  <2>3. policy'[i] # "none"
    BY <1>1, <1>15, <2>2 DEF PolicyGate, Types
  <2>4. QED BY <2>1, <2>3 DEF Unfinished, Researched
<1>16. CASE Timeout(p) \/ Raise(p)
  BY <1>2, <1>3, <1>4, <1>16 DEF Timeout, Raise, Unfinished
<1>17. CASE RecordCrash(p)
  <2>1. rs[p].pc = "crashed" /\ rs'[p].pc = "idle"
    BY <1>17, EndType DEF RecordCrash, RsAt
  <2>2. targets'[i].state # "failed" => i \in CutRuns
    BY <1>1, <2>1 DEF CutRuns
  <2>3. QED BY <2>2 DEF Watch
<1>18. CASE Return(p)
  <2>1. UNCHANGED intakeDB /\ rs[p].pc \in {"return", "report"}
    BY <1>18 DEF Return
  <2>2. QED BY <1>6, <2>1 DEF Unfinished, Researched, Undecideds
<1>19. QED
  BY <1>1, <1>7, <1>8, <1>9, <1>10, <1>11, <1>12, <1>13, <1>14, <1>15, <1>16, <1>17, <1>18 DEF RsStep

\* One that a program does not run stays at the hands it was in.
LEMMA HalfwayOther ==
  ASSUME Types, RowsAreClaimed, NEW p \in Proc, Own(p), Moves(p), Watch, NEW i \in DOMAIN targets,
         ~Running(p, i), targets'[i].state # "failed", NEW pcs, pcs \subseteq Undecideds,
         HalfwayAt(i, pcs)
  PROVE  HalfwayAt(i, pcs)'
<1>1. cut \subseteq cut'
  BY DEF Watch
<1>2. ASSUME NEW q \in Proc, rs[q].tgt = i, rs[q].pc \in pcs
      PROVE  HalfwayAt(i, pcs)'
  <2>1. CASE rs'[q] = rs[q]
    BY <1>2, <2>1 DEF HalfwayAt
  <2>2. CASE rs'[q] # rs[q]
    <3>1. q = p
      BY <2>2, OthersStay DEF Same
    <3>2. rs[p].pc \notin {"idle", "return", "report"}
      BY <1>2, <3>1 DEF Undecideds, Unfinished, Researched
    <3>3. Drops(p)
      BY <1>2, <2>2, <3>1, <3>2 DEF Moves, Running, RsAt, Takes, Imports, Loads, Drafts, Idles
    <3>4. rs'[p].pc = "idle"
      BY <3>3, EmptyShapes DEF Drops
    <3>5. i \in CutRuns
      BY <1>2, <3>1, <3>2, <3>4 DEF CutRuns
    <3>6. QED BY <3>5 DEF Watch, HalfwayAt
  <2>3. QED BY <2>1, <2>2
<1>3. QED BY <1>1, <1>2 DEF HalfwayAt

LEMMA HalfwayStep ==
  ASSUME Types, RowsAreClaimed, OneTargetPerDomain, UnclaimedIsUnjudged, HalfwayIsHeld,
         NEW p \in Proc, Own(p), Moves(p), Watch
  PROVE  HalfwayIsHeld'
<1> SUFFICES ASSUME NEW i \in DOMAIN targets'
             PROVE  /\ targets'[i].state = "researched" => HalfwayAt(i, Unfinished)'
                    /\ targets'[i].state \notin {"new", "failed"} /\ policy'[i] = "none" =>
                           HalfwayAt(i, Undecideds)'
  BY DEF HalfwayIsHeld, HalfwayAt, Undecideds
<1>1. CASE i \notin DOMAIN targets
  BY <1>1, NewRow
<1>2. CASE i \in DOMAIN targets /\ Running(p, i)
  <2>1. \A pcs : i \in cut' \/ (rs'[p].tgt = i /\ rs'[p].pc \in pcs) => HalfwayAt(i, pcs)'
    BY DEF HalfwayAt
  <2>2. Unfinished \subseteq Undecideds /\ {"judge", "route", "gate"} \subseteq Undecideds
    BY DEF Undecideds
  <2>3. CASE /\ targets'[i] = targets[i]
             /\ rs[p].pc \notin Unfinished
             /\ \/ rs'[p].tgt = i /\ rs'[p].pc \in {"judge", "route", "gate"}
                \/ policy'[i] # "none"
                \/ policy'[i] = policy[i] /\ rs[p].pc \notin Undecideds
    <3>1. ASSUME NEW pcs, HalfwayAt(i, pcs), rs[p].pc \notin pcs
          PROVE  HalfwayAt(i, pcs)'
      <4>1. \A q \in Proc : q # p => rs'[q] = rs[q]
        BY OthersStay DEF Same
      <4>2. cut \subseteq cut'
        BY DEF Watch
      <4>3. QED BY <3>1, <4>1, <4>2 DEF HalfwayAt
    <3>2. targets'[i].state = "researched" => HalfwayAt(i, Unfinished)'
      BY <1>2, <2>3, <3>1 DEF HalfwayIsHeld, HalfwayAt
    <3>3. targets'[i].state \notin {"new", "failed"} /\ policy'[i] = "none" => HalfwayAt(i, Undecideds)'
      <4>1. CASE rs'[p].tgt = i /\ rs'[p].pc \in {"judge", "route", "gate"}
        BY <2>1, <2>2, <4>1
      <4>2. CASE policy'[i] = policy[i] /\ rs[p].pc \notin Undecideds
        <5>1. targets'[i].state \notin {"new", "failed"} /\ policy'[i] = "none" => HalfwayAt(i, Undecideds)
          BY <1>2, <2>3, <4>2 DEF HalfwayIsHeld, HalfwayAt, Undecideds
        <5>2. QED BY <3>1, <4>2, <5>1
      <4>3. QED BY <2>3, <4>1, <4>2
    <3>4. QED BY <3>2, <3>3
  <2>4. QED BY <1>2, <2>1, <2>2, <2>3, HalfwayRun
<1>3. CASE i \in DOMAIN targets /\ ~Running(p, i)
  <2>1. /\ policy'[i] = policy[i]
        /\ targets'[i] = targets[i] \/ Drafted(p, i)
    BY <1>3, RowFrame
  <2>2. CASE targets'[i] = targets[i]
    <3>1. /\ targets'[i].state = "researched" => HalfwayAt(i, Unfinished)
          /\ targets'[i].state \notin {"new", "failed"} /\ policy'[i] = "none" =>
                 HalfwayAt(i, Undecideds)
      BY <1>3, <2>1, <2>2 DEF HalfwayIsHeld, HalfwayAt, Undecideds
    <3>2. Unfinished \subseteq Undecideds
      BY DEF Undecideds
    <3>3. QED BY <1>3, <3>1, <3>2, HalfwayOther
  <2>3. CASE Drafted(p, i)
    <3>1. \E to \in {"awaiting_review", "failed"} : targets'[i] = [targets[i] EXCEPT !.state = to]
      BY <2>3 DEF Drafted
    <3>2. targets'[i].state # "researched"
      BY <1>3, <3>1 DEF Types, TargetRow
    <3>3. policy'[i] # "none"
      BY <2>1, <2>3 DEF Drafted, Allowed
    <3>4. QED BY <3>2, <3>3
  <2>4. QED BY <2>1, <2>2, <2>3
<1>4. QED BY <1>1, <1>2, <1>3

-----------------------------------------------------------------------------
\* The invariant.
LEMMA InvInit ==
  ASSUME Init
  PROVE  Inv
<1>1. /\ accounts = <<>> /\ targets = <<>> /\ policy = <<>>
      /\ im = [p \in Proc |-> NoImport] /\ rs = [p \in Proc |-> NoRun] /\ wk = [p \in Proc |-> NoWork]
      /\ contested = {} /\ cut = {} /\ counted = [p \in Proc |-> 0]
  BY DEF Init, DBInit, TaskInit, ImInit, RsInit
<1>2. /\ DOMAIN accounts = {} /\ DOMAIN targets = {} /\ Len(targets) = 0
  BY <1>1
<1>3. accounts \in [DOMAIN accounts -> Account] /\ targets \in Seq(TargetRow) /\ policy \in Seq(PolicyDecision)
      /\ policy \in [DOMAIN targets -> PolicyDecision]
  <2>1. accounts \in [DOMAIN accounts -> Account]
    BY <1>1, <1>2
  <2>2. targets \in Seq(TargetRow) /\ policy \in Seq(PolicyDecision)
    BY <1>1
  <2>3. policy \in [DOMAIN targets -> PolicyDecision]
    BY <1>1, <1>2
  <2>4. QED BY <2>1, <2>2, <2>3
<1>4. \A p \in Proc : rs[p] = NoRun /\ im[p] = NoImport /\ wk[p] = NoWork
  BY <1>1
<1>5. \A p \in Proc : Hands(p)
  BY <1>4, EmptyShapes DEF Hands, Work, RsAt
<1>6. Types
  <2>1. im \in [Proc -> ImportLocal]
    BY <1>1, EmptyShapes
  <2>2. \A p \in Proc : counted[p] <= Len(targets)
    BY <1>1, <1>2
  <2>3. QED BY <1>1, <1>2, <1>3, <1>5, <2>1, <2>2 DEF Types, Hands
<1>7. RowsAreClaimed /\ OneTargetPerDomain /\ AccountsAreUsed /\ UnclaimedIsUnjudged
  BY <1>2, <1>4, EmptyShapes
     DEF RowsAreClaimed, OneTargetPerDomain, AccountsAreUsed, UnclaimedIsUnjudged, ImAt
<1>8. ContestIsKnown /\ SourcesAreKept /\ EvidenceIsStored
  BY <1>4, EmptyShapes DEF ContestIsKnown, SourcesAreKept, EvidenceIsStored, Work, RsAt
<1>9. NewIsFresh /\ RunIsStored /\ AllowedScoreClears /\ RoutedByFinalLabel /\ ReportsAreTrue
  BY <1>2, <1>4, EmptyShapes DEF NewIsFresh, RunIsStored, AllowedScoreClears, RoutedByFinalLabel,
     ReportsAreTrue, Solo, RsAt
<1>10. HalfwayIsHeld /\ CountHolds
  BY <1>2, <1>4, EmptyShapes DEF HalfwayIsHeld, CountHolds, WkAt
<1>11. QED BY <1>6, <1>7, <1>8, <1>9, <1>10 DEF Inv

LEMMA InvStep ==
  ASSUME Inv, NEW p \in Proc, TaskStep(p), Watch
  PROVE  Inv'
<1>1. Own(p) /\ Moves(p)
  BY StepMoves DEF Inv
<1>2. Types'
  BY <1>1, TypesStep DEF Inv
<1>3. ContestIsKnown' /\ contested \subseteq contested'
  BY <1>2, ContestStep
<1>4. RowsAreClaimed' /\ OneTargetPerDomain' /\ UnclaimedIsUnjudged'
  BY <1>1, ClaimStep DEF Inv
<1>5. SourcesAreKept' /\ EvidenceIsStored'
  BY <1>1, SourcesStep DEF Inv
<1>6. NewIsFresh' /\ RunIsStored' /\ AllowedScoreClears' /\ RoutedByFinalLabel' /\ ReportsAreTrue'
  BY <1>1, <1>3, SoloStep DEF Inv
<1>7. HalfwayIsHeld'
  BY <1>1, HalfwayStep DEF Inv
<1>8. CountHolds'
  BY <1>1, CountStep DEF Inv
<1>9. AccountsAreUsed'
  BY <1>1, UsedStep DEF Inv
<1>10. QED BY <1>2, <1>3, <1>4, <1>5, <1>6, <1>7, <1>8, <1>9 DEF Inv

LEMMA InvStutter ==
  ASSUME Inv, UNCHANGED vars
  PROVE  Inv'
<1>1. UNCHANGED <<accounts, targets, policy, im, rs, wk, contested, cut, counted, stranded>>
  BY DEF vars, intakeDB, taskVars, watched
<1>2. Types'
  BY <1>1 DEF Inv, Types, Work, RsAt
<1>3. RowsAreClaimed' /\ OneTargetPerDomain' /\ AccountsAreUsed' /\ UnclaimedIsUnjudged'
  BY <1>1 DEF Inv, RowsAreClaimed, OneTargetPerDomain, AccountsAreUsed, UnclaimedIsUnjudged,
     AccountOf, ImAt, CurrentRow
<1>4. ContestIsKnown' /\ SourcesAreKept' /\ EvidenceIsStored'
  BY <1>1 DEF Inv, ContestIsKnown, SourcesAreKept, EvidenceIsStored, Work, RsAt
<1>5. NewIsFresh' /\ AllowedScoreClears' /\ RoutedByFinalLabel' /\ ReportsAreTrue'
  BY <1>1 DEF Inv, NewIsFresh, AllowedScoreClears, RoutedByFinalLabel, ReportsAreTrue, Solo, Allowed,
     Account0, AccountOf, FinalLabel
<1>6. RunIsStored'
  <2> SUFFICES ASSUME NEW q \in Proc, NEW i \in Solo', ~RsAt(q, "idle")', rs'[q].tgt = i
               PROVE  RunFacts(q, i)'
    BY DEF RunIsStored
  <2>1. RunFacts(q, i)
    BY <1>1 DEF Inv, RunIsStored, Solo, RsAt
  <2>2. Score(q)' = Score(q)
    BY <1>1 DEF Score
  <2>3. Account0(i)' = Account0(i) /\ FinalLabel(i)' = FinalLabel(i)
    BY <1>1 DEF Account0, AccountOf, FinalLabel
  <2>4. QED BY <1>1, <2>1, <2>2, <2>3 DEF RunFacts, RsAt
<1>7. HalfwayIsHeld' /\ CountHolds'
  BY <1>1 DEF Inv, HalfwayIsHeld, CountHolds, WkAt
<1>8. QED BY <1>2, <1>3, <1>4, <1>5, <1>6, <1>7 DEF Inv

LEMMA NextInv ==
  ASSUME Inv, [Next]_vars
  PROVE  Inv'
BY InvStep, InvStutter DEF Next

\* Inv is an invariant: of any number of programs, whatever the models answer
\* and whenever a process is killed.
THEOREM IntakeInvariant == Spec => []Inv
<1>1. Init => Inv
  BY InvInit
<1>2. Inv /\ [Next]_vars => Inv'
  BY NextInv
<1>3. QED BY <1>1, <1>2, PTL DEF Spec

\* Rows, programs and runs have their types.
THEOREM IntakeTypes == Spec => []TypeOK
<1>1. Inv => TypeOK
  <2> SUFFICES ASSUME Inv PROVE TypeOK
    OBVIOUS
  <2>1. Types /\ RowsAreClaimed
    BY DEF Inv
  <2>2. DBTypeOK
    BY <2>1 DEF Types, RowsAreClaimed, DBTypeOK, AccountOf
  <2>3. ASSUME NEW p \in Proc
        PROVE  /\ im[p].pc \in ImportPC /\ im[p].rows \in Seq(CsvRow) /\ im[p].made \subseteq DOMAIN targets
               /\ wk[p].todo \subseteq DOMAIN targets
               /\ rs[p].pc # "idle" => rs[p].tgt \in DOMAIN targets
    BY <2>1 DEF Types, ImportLocal, Work, RsAt
  <2>4. TaskTypeOK
    BY <2>1, <2>3 DEF Types, TaskTypeOK, ImTypeOK, RsTypeOK, IsRun, IsWork
  <2>5. QED BY <2>2, <2>4 DEF TypeOK
<1>2. QED BY <1>1, IntakeInvariant, PTL

\* An allow decision is about what the tables say.
THEOREM AllowIsEarned == Spec => []AllowedScoreClears
<1>1. Inv => AllowedScoreClears
  BY DEF Inv
<1>2. QED BY <1>1, IntakeInvariant, PTL

\* A decided target is where its final label put it.
THEOREM FinalLabelRoutes == Spec => []RoutedByFinalLabel
<1>1. Inv => RoutedByFinalLabel
  BY DEF Inv
<1>2. QED BY <1>1, IntakeInvariant, PTL

\* No signal without its evidence.
THEOREM SignalsHaveEvidence == Spec => []EvidenceIsStored
<1>1. Inv => EvidenceIsStored
  BY DEF Inv
<1>2. QED BY <1>1, IntakeInvariant, PTL

\* No company disappears between import and draft, but by an import or a run
\* that was stopped halfway: for any number of programs, and for targets that
\* several of them have at hand at a time.
THEOREM CompaniesStayFindable == Spec => []NoCompanyIsLost
<1>1. Inv => NoCompanyIsLost
  <2> SUFFICES ASSUME Inv, NEW i \in DOMAIN targets
               PROVE  \/ i \in Pending \/ (i \in DraftEligible /\ Allowed(i))
                      \/ Concluded(i) \/ InRun(i) \/ i \in cut
    BY DEF Inv, AccountsAreUsed, NoCompanyIsLost
  <2>1. "idle" \notin Unfinished \cup {"judge", "route", "gate"}
    BY DEF Unfinished, Researched
  <2>2. CASE targets[i].state = "researched"
    BY <2>1, <2>2 DEF Inv, HalfwayIsHeld, InRun
  <2>3. CASE targets[i].state \notin {"new", "failed"} /\ policy[i] = "none"
    BY <2>1, <2>3 DEF Inv, HalfwayIsHeld, InRun
  <2>4. CASE targets[i].state \in {"new", "failed"}
    BY <2>4 DEF Pending, Concluded
  <2>5. CASE targets[i].state \notin {"new", "researched"} /\ policy[i] # "none"
    BY <2>5 DEF Concluded, DraftEligible
  <2>6. QED BY <2>2, <2>3, <2>4, <2>5
<1>2. QED BY <1>1, IntakeInvariant, PTL

\* A run tells its batch what the tables say.
THEOREM RunsTellTheTruth == Spec => []ReportsAreTrue
<1>1. Inv => ReportsAreTrue
  BY DEF Inv
<1>2. QED BY <1>1, IntakeInvariant, PTL

-----------------------------------------------------------------------------
\* What a step may never do.
LEMMA SettledStep ==
  ASSUME Inv, NEW p \in Proc, TaskStep(p), Watch,
         NEW i \in DOMAIN targets, policy[i] # "none", ~InRun(i), i \notin contested'
  PROVE  /\ ~InRun(i)' /\ policy'[i] = policy[i]
         /\ targets'[i] # targets[i] => targets[i].state = "scored"
<1>1. Types /\ RowsAreClaimed /\ OneTargetPerDomain /\ NewIsFresh /\ Own(p) /\ Moves(p)
  BY StepMoves DEF Inv
<1>2. i \in Solo
  BY DEF Watch, Solo
<1>3. ~Running(p, i)
  BY DEF InRun, Running, RsAt
<1>4. policy'[i] = policy[i] /\ (targets'[i] # targets[i] => targets[i].state = "scored")
  BY <1>1, <1>3, RowFrame DEF Drafted
<1>5. ASSUME NEW q \in Proc, rs'[q].pc # "idle", rs'[q].tgt = i
      PROVE  FALSE
  <2>1. rs'[q] # rs[q]
    BY <1>5 DEF InRun
  <2>2. q = p
    BY <1>1, <2>1, OthersStay DEF Same
  <2>3. Takes(p)
    BY <1>1, <1>3, <1>5, <2>2, NotIdle DEF Running
  <2>4. PICK j \in wk[p].todo : rs'[p] = [NoRun EXCEPT !.pc = "enter", !.tgt = j]
    BY <2>3 DEF Takes
  <2>5. i = j
    BY <1>5, <2>2, <2>4 DEF NoRun
  <2>6. targets[i].state = "new"
    BY <1>1, <1>2, <2>3, <2>5 DEF NewIsFresh, Takes, WkAt
  <2>7. QED BY <1>1, <1>2, <2>6 DEF NewIsFresh
<1>6. QED BY <1>4, <1>5 DEF InRun

\* Research decides a target once.
THEOREM DecidedOnce == Spec => SettledStaysSettled
<1> DEFINE Act == \A i \in DOMAIN targets :
                      policy[i] # "none" /\ ~InRun(i) /\ i \notin contested' =>
                          /\ ~InRun(i)' /\ policy'[i] = policy[i]
                          /\ targets'[i] # targets[i] => targets[i].state = "scored"
<1>1. Inv /\ [Next]_vars => [Act]_vars
  BY SettledStep DEF Next
<1>2. QED BY <1>1, IntakeInvariant, PTL DEF Spec, SettledStaysSettled

LEMMA CompleteStep ==
  ASSUME Inv, NEW r \in Proc, TaskStep(r), Watch,
         NEW p \in Proc, ~WkAt(p, "complete"), wk'[p].pc = "complete", NEW i \in 1..counted[p]
  PROVE  Concluded(i) \/ i \in cut \/ \E q \in Proc : i \in Work(q)
<1>1. Types /\ Own(r) /\ Moves(r) /\ HalfwayIsHeld /\ CountHolds
  BY StepMoves DEF Inv
<1>2. p = r
  BY <1>1, OthersStay DEF Same, WkAt
<1>3. Finds(p)
  BY <1>1, <1>2 DEF Moves, Runs, Takes, Drops, Imports, Loads, Drafts, Idles, WkAt, Types, IsWork
<1>4. i \in DOMAIN targets
  BY <1>1 DEF Types
<1>5. wk[p].pending = 0 /\ ~(targets[i].state = "scored" /\ Allowed(i))
  <2> DEFINE ready == {j \in DraftEligible : Allowed(j)}
  <2>1. wk[p].pending \in Nat /\ IsFiniteSet(ready) /\ Cardinality(ready) \in Nat
    BY <1>1, FiniteTargets DEF Types, IsWork, DraftEligible
  <2>2. wk[p].pending = 0 /\ Cardinality(ready) = 0
    BY <1>3, <2>1 DEF Finds
  <2>3. ready = {}
    BY <2>1, <2>2, FS_EmptySet
  <2>4. QED BY <1>4, <2>2, <2>3 DEF DraftEligible
<1>6. targets[i].state # "new"
  BY <1>1, <1>3, <1>5 DEF CountHolds, Finds
<1>7. ASSUME i \notin cut, NEW q \in Proc, rs[q].tgt = i, rs[q].pc # "idle"
      PROVE  i \in Work(q)
  BY <1>7 DEF Work, RsAt
<1>8. CASE targets[i].state = "researched"
  BY <1>1, <1>4, <1>7, <1>8 DEF HalfwayIsHeld, Unfinished, Researched
<1>9. CASE targets[i].state \notin {"failed", "researched"} /\ policy[i] = "none"
  BY <1>1, <1>4, <1>6, <1>7, <1>9 DEF HalfwayIsHeld, Unfinished, Researched
<1>10. QED BY <1>5, <1>6, <1>8, <1>9 DEF Concluded

\* When the loop says it is done, what it counted is concluded, at hand of
\* another program, or was dropped halfway.
THEOREM CompleteMeansConcluded == Spec => CompleteOrCut
<1> DEFINE Act == \A p \in Proc : ~WkAt(p, "complete") /\ wk'[p].pc = "complete" =>
                      \A i \in 1..counted[p] :
                          Concluded(i) \/ i \in cut \/ \E q \in Proc : i \in Work(q)
<1>1. Inv /\ [Next]_vars => [Act]_vars
  BY CompleteStep DEF Next
<1>2. QED BY <1>1, IntakeInvariant, PTL DEF Spec, CompleteOrCut
=============================================================================
