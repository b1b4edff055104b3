----------------------------- MODULE Taskmaster -----------------------------
(***************************************************************************)
(* The three programs that run import and research: phase1_cli, one        *)
(* invocation of the Taskmaster, whose model chooses the tools, and the     *)
(* loop that invokes the Taskmaster until it counts no pending work.        *)
(***************************************************************************)
EXTENDS Importing, Research

CONSTANTS
    Files,          \* the files there are to import
    MAX_BATCH_SIZE,
    MaxCalls,       \* _TASKMASTER_MAX_TOOL_CALLS
    MaxIterations,  \* --max-iterations
    MaxStarts       \* bound: programs started

ASSUME TaskmasterAssumption ==
    /\ Files \subseteq Seq(CsvRow)
    /\ {MAX_BATCH_SIZE, MaxCalls, MaxIterations, MaxStarts} \subseteq Nat \ {0}

VARIABLES
    wk,      \* the programs
    starts   \* programs started so far

taskVars == <<im, rs, wk, starts>>

Program == {"phase1_cli", "taskmaster_cli", "autonomous"}

WorkerPC == {"off", "count_research", "count_drafts", "guard", "choose",
             "import", "research", "draft", "complete", "bound"}

\* limit: the tool call's limit.  todo: targets still to be run.  pending: the
\* first of the loop's two counts.
NoWork == [pc |-> "off", program |-> "phase1_cli", limit |-> 0,
           todo |-> {}, calls |-> 0, iteration |-> 0, pending |-> 0]

TaskInit ==
    /\ ImInit /\ RsInit
    /\ wk = [p \in Proc |-> NoWork] /\ starts = 0

TaskTypeOK ==
    /\ ImTypeOK /\ RsTypeOK
    /\ \A p \in Proc : /\ wk[p].pc \in WorkerPC /\ wk[p].program \in Program
                       /\ wk[p].todo \subseteq DOMAIN targets
                       /\ rs[p].pc # "idle" => wk[p].pc = "research"
                       /\ im[p].pc # "none" => wk[p].pc = "import"

WkAt(p, pc) == wk[p].pc = pc
WkGoto(p, pc) == wk' = [wk EXCEPT ![p].pc = pc]
IsCli(p) == wk[p].program = "phase1_cli"

\* A batch is worked on by creation.
IsNext(i, set) == i \in set /\ \A j \in set : i <= j

-----------------------------------------------------------------------------
\* phase1_cli counts the rows of its file before it opens the database.
StartCli(p, rows) ==
    /\ WkAt(p, "off") /\ starts < MaxStarts
    /\ Len(rows) <= MAX_BATCH_SIZE
    /\ wk' = [wk EXCEPT ![p] = [NoWork EXCEPT !.pc = "import",
                                              !.limit = Len(rows)]]
    /\ StartImport(p, rows)
    /\ starts' = starts + 1
    /\ UNCHANGED <<intakeDB, rs>>

StartTaskmaster(p) ==
    /\ WkAt(p, "off") /\ starts < MaxStarts
    /\ wk' = [wk EXCEPT ![p] = [NoWork EXCEPT !.pc = "guard",
                                              !.program = "taskmaster_cli"]]
    /\ starts' = starts + 1
    /\ UNCHANGED <<intakeDB, im, rs>>

StartAutonomous(p) ==
    /\ WkAt(p, "off") /\ starts < MaxStarts
    /\ wk' = [wk EXCEPT ![p] = [NoWork EXCEPT !.pc = "count_research",
                                              !.program = "autonomous"]]
    /\ starts' = starts + 1
    /\ UNCHANGED <<intakeDB, im, rs>>

\* _pending_count: two queries, no transaction around them.
CountResearch(p) ==
    /\ WkAt(p, "count_research")
    /\ wk' = [wk EXCEPT ![p].pc = "count_drafts", ![p].pending = Cardinality(Pending)]
    /\ UNCHANGED <<intakeDB, im, rs, starts>>

\* Faulty: only the drafts count.
CountDraftsOnly(p) ==
    LET n == Cardinality({i \in DraftEligible : Allowed(i)}) IN
    /\ WkAt(p, "count_drafts")
    /\ \/ n = 0 /\ WkGoto(p, "complete")
       \/ n > 0 /\ wk[p].iteration = MaxIterations /\ WkGoto(p, "bound")
       \/ /\ n > 0 /\ wk[p].iteration < MaxIterations
          /\ wk' = [wk EXCEPT ![p] = [NoWork EXCEPT !.pc = "guard",
                                          !.program = "autonomous",
                                          !.iteration = wk[p].iteration + 1]]
    /\ UNCHANGED <<intakeDB, im, rs, starts>>

\* Nothing pending ends the loop, and so does its bound; otherwise the next
\* invocation starts.  The exit code of the last one is not looked at.
CountDrafts(p) ==
    LET n == wk[p].pending + Cardinality({i \in DraftEligible : Allowed(i)}) IN
    /\ WkAt(p, "count_drafts")
    /\ \/ n = 0 /\ WkGoto(p, "complete")
       \/ n > 0 /\ wk[p].iteration = MaxIterations /\ WkGoto(p, "bound")
       \/ /\ n > 0 /\ wk[p].iteration < MaxIterations
          /\ wk' = [wk EXCEPT ![p] = [NoWork EXCEPT !.pc = "guard",
                                          !.program = "autonomous",
                                          !.iteration = wk[p].iteration + 1]]
    /\ UNCHANGED <<intakeDB, im, rs, starts>>

Exit(p) ==
    /\ wk[p].pc \in {"complete", "bound"}
    /\ wk' = [wk EXCEPT ![p] = NoWork]
    /\ UNCHANGED <<intakeDB, im, rs, starts>>

-----------------------------------------------------------------------------
\* The process's invocation of the Taskmaster is over, however it ended.
Leave(p) ==
    wk' = [wk EXCEPT ![p] =
               IF @.program = "autonomous"
               THEN [NoWork EXCEPT !.pc = "count_research", !.program = "autonomous",
                                   !.iteration = wk[p].iteration]
               ELSE NoWork]

\* The guardrail at the Taskmaster's entry; a halted run exits with 0.
EnterTaskmaster(p) ==
    /\ WkAt(p, "guard")
    /\ \/ "on" \in Switch /\ Leave(p)
       \/ "off" \in Switch /\ WkGoto(p, "choose")
    /\ UNCHANGED <<intakeDB, im, rs, starts>>

\* The model calls a tool: what the tool refuses, and what only reports, uses
\* up a call and nothing else.
ToolCall(p) == WkAt(p, "choose") /\ wk[p].calls < MaxCalls

Refuses(limit) == limit < 1 \/ limit > MAX_BATCH_SIZE

RefusedCall(p) ==
    /\ ToolCall(p)
    /\ wk' = [wk EXCEPT ![p].calls = @ + 1]
    /\ UNCHANGED <<intakeDB, im, rs, starts>>

ImportAndResearch(p, rows, limit) ==
    /\ ToolCall(p) /\ ~Refuses(limit) /\ Len(rows) <= MAX_BATCH_SIZE
    /\ wk' = [wk EXCEPT ![p].pc = "import", ![p].calls = @ + 1, ![p].limit = limit]
    /\ StartImport(p, rows)
    /\ UNCHANGED <<intakeDB, rs, starts>>

\* The state of a target is not looked at again when its turn comes.
ResumePendingResearch(p, limit) ==
    /\ ToolCall(p) /\ ~Refuses(limit) /\ Pending # {}
    /\ wk' = [wk EXCEPT ![p].pc = "research", ![p].calls = @ + 1,
                        ![p].todo = First(limit, Pending)]
    /\ UNCHANGED <<intakeDB, im, rs, starts>>

DraftForScored(p, limit) ==
    /\ ToolCall(p) /\ ~Refuses(limit) /\ DraftEligible # {}
    /\ wk' = [wk EXCEPT ![p].pc = "draft", ![p].calls = @ + 1,
                        ![p].todo = First(limit, DraftEligible)]
    /\ UNCHANGED <<intakeDB, im, rs, starts>>

\* The model writes its report.
Report(p) ==
    /\ WkAt(p, "choose")
    /\ Leave(p)
    /\ UNCHANGED <<intakeDB, im, rs, starts>>

\* A batch is done: phase1_cli exits, the Taskmaster's model goes on.
BatchDone(p) ==
    wk' = [wk EXCEPT ![p] = IF IsCli(p) THEN NoWork
                            ELSE [@ EXCEPT !.pc = "choose", !.limit = 0]]

-----------------------------------------------------------------------------
\* The new targets, up to the limit, become the batch; an import that raised
\* ends the program or the tool call.
ImportStep(p) ==
    /\ WkAt(p, "import")
    /\ \/ ImStep(p) /\ UNCHANGED <<wk, rs>>
       \/ /\ ImAt(p, "done")
          /\ wk' = [wk EXCEPT ![p].pc = "research", ![p].limit = 0,
                              ![p].todo = First(wk[p].limit, im[p].made)]
          /\ im' = [im EXCEPT ![p] = NoImport]
          /\ UNCHANGED <<intakeDB, rs>>
       \/ /\ ImAt(p, "raised")
          /\ BatchDone(p)
          /\ im' = [im EXCEPT ![p] = NoImport]
          /\ UNCHANGED <<intakeDB, rs>>
    /\ UNCHANGED <<starts>>

\* One target after the other; the next one starts when the run has returned.
ResearchStep(p) ==
    /\ WkAt(p, "research")
    /\ \/ RsStep(p) /\ UNCHANGED wk
       \/ /\ RsAt(p, "idle")
          /\ \E i \in wk[p].todo : /\ IsNext(i, wk[p].todo)
                                  /\ StartResearch(p, i)
                                  /\ wk' = [wk EXCEPT ![p].todo = @ \ {i}]
          /\ UNCHANGED intakeDB
       \/ RsAt(p, "idle") /\ wk[p].todo = {} /\ BatchDone(p) /\ UNCHANGED <<intakeDB, rs>>
    /\ UNCHANGED <<im, starts>>

\* One target through the draft stage, which looks at its state and at its
\* decision again.  In one step: the module Drafting has the stage in detail.
DraftStep(p) ==
    /\ WkAt(p, "draft")
    /\ \/ \E i \in wk[p].todo :
              /\ IsNext(i, wk[p].todo)
              /\ \/ /\ targets[i].state = "scored" /\ Allowed(i)
                    /\ \E to \in {"awaiting_review", "failed"} :
                           targets' = [targets EXCEPT ![i].state = to]
                 \/ UNCHANGED targets
              /\ wk' = [wk EXCEPT ![p].todo = @ \ {i}]
       \/ wk[p].todo = {} /\ BatchDone(p) /\ UNCHANGED targets
    /\ UNCHANGED <<accounts, policy, im, rs, starts>>

-----------------------------------------------------------------------------
\* The deadline of an invocation, which is noticed at an await and passes
\* through the handlers of the batch: the target at hand stays as it is.
Cancel(p) ==
    /\ ~IsCli(p)
    /\ \/ wk[p].pc \in {"choose", "draft"}
       \/ WkAt(p, "research") /\ (Awaiting(p) \/ RsAt(p, "idle"))
    /\ Leave(p) /\ EndResearch(p)
    /\ UNCHANGED <<intakeDB, im, starts>>

\* Faulty: the run goes on without its batch.
KillTheBatch(p) ==
    /\ ~WkAt(p, "off")
    /\ wk' = [wk EXCEPT ![p] = NoWork]
    /\ im' = [im EXCEPT ![p] = NoImport]
    /\ UNCHANGED <<intakeDB, rs, starts>>

\* The process is killed.
Kill(p) ==
    /\ ~WkAt(p, "off")
    /\ wk' = [wk EXCEPT ![p] = NoWork]
    /\ im' = [im EXCEPT ![p] = NoImport]
    /\ EndResearch(p)
    /\ UNCHANGED <<intakeDB, starts>>

TaskStep(p) ==
    \/ \E rows \in Files : StartCli(p, rows)
    \/ StartTaskmaster(p) \/ StartAutonomous(p)
    \/ CountResearch(p) \/ CountDrafts(p) \/ Exit(p) \/ EnterTaskmaster(p)
    \/ RefusedCall(p)
    \/ \E rows \in Files, limit \in 0..MAX_BATCH_SIZE + 1 : ImportAndResearch(p, rows, limit)
    \/ \E limit \in 0..MAX_BATCH_SIZE + 1 :
           ResumePendingResearch(p, limit) \/ DraftForScored(p, limit)
    \/ Report(p) \/ ImportStep(p) \/ ResearchStep(p) \/ DraftStep(p)
    \/ Cancel(p) \/ Kill(p)
=============================================================================
