# Verification of the outbound pipeline

The program finds companies, researches and scores them, drafts a first
e-mail, puts the draft before an operator, and records a simulated ("dry-run")
send; replies are read from an inbox directory and routed. Every stage is a
process of its own (`phase1_cli`, `draft_cli`, `send_cli`, `reply_cli`, the
taskmaster, the FastAPI console, `scripts/add_suppression.py`) and all of them
work on one database, without a lock or a queue between them. This directory
holds TLA+ models of those processes, the TLC runs that check them on small
instances, and TLAPS proofs of the results that matter most.

## 1. Inventory

| Part (source) | State it keeps | Operations | Interacts by | What makes it correct |
|---|---|---|---|---|
| Target state machine (`app/state_machine.py`) | `targets.state`, `state_transitions` | `transition()`: check the pair, UPDATE, audit INSERT | called by every stage | a state changes only along the table; the audit row tells the truth |
| Write gate (`app/write_gate.py`, `app/agents_registry.py`) | `write_log`, `agent_registry` | `commit()`: check agent and action, one transaction with its audit row | under every write | no write without its row; nothing by an agent that may not |
| Database (`app/db.py`) | all tables | `connect`, `begin_write`, migrations | each process has its own autocommit connection | each SELECT sees the newest commits; each commit is atomic |
| Review gate (`app/review.py`) | `review_decisions`, edited revisions, suppressions | `record_review_decision()` | console threads; read by the send gate | no approval without a decision; a target is decided once |
| Draft gate (`app/draft_gate.py`) | the two gate columns of a revision | `run_draft_gate()` | called after a draft and after an edit | a crash is not a pass |
| Send gate (`app/send_gate.py`) | `send_gate_decisions` | `evaluate_send_gate()` | first step of `send_email()` | an allowance is about the approved, checked revision |
| Send (`app/tools/send_email.py`, `app/send_cli.py`) | `messages`, `.eml` files | gate, file, message row, transition; batch loop with crash handler | reads what review wrote | no sent target without its message; the text is the verified one |
| Kill switch (`app/kill_switch.py`) | a JSON file | fail-closed read, atomic rewrite | read by review, send gate, agent callback | an engaged switch stops what has not passed it |
| Suppressions (`scripts/add_suppression.py`) | `suppressions` | add, remove | read by send gate, written by review and replies | a listed address gets no more mail |
| Draft stage (`app/agents/draft.py`, `app/draft_cli.py`) | `message_draft_versions` | writer/critic loop, revision numbers, follow-up cap | reads replies and policy, feeds review | the reviewed revision is the one just drafted; at most two follow-ups |
| Replies (`app/tools/fetch_inbox.py`, `app/agents/reply.py`) | `replies` | match, insert, route, unsubscribe | moves a target to `routed`, feeds the draft stage | an unsubscribe suppresses; a reply is routed once |
| Research pipeline (`app/agents/phase1.py` and its tools, `app/policy.py`) | `accounts`, `signals`, `sources`, `policy_decisions` | fetch, summarise, detect, score, policy | feeds the draft stage | a scored target has its policy decision |
| Import (`app/tools/get_targets.py`) | `accounts`, `contacts`, `targets` | `import_csv()` | start of the pipeline | no imported company is lost |
| Meetings (`app/tools/schedule_meeting.py`) | `meetings` | `schedule_meeting()` | after a meeting request | one meeting per target, one per slot |
| Taskmaster (`app/agents/taskmaster.py`, `app/autonomous_taskmaster.py`) | none of its own | calls the stages, loops until nothing is pending | tools around the stages | the loop ends when nothing can be done |
| Console (`app/console/`) | none of its own | pages, decision POST, switch POST | threads into review gate and switch | — |

The hard behaviours all come from one design: every SELECT and every commit is
a step of its own, several processes and console threads interleave between
them, any step may raise, and any process may be killed between two steps.
`UPDATE targets SET state` never asks what the state was. The hazards this
leads to are listed with their lines in `PROJECT.json`, and so is the status of
every part: modelled, partly, or not.

## 2. What is modelled

Four compositions, each the part of the system in which one family of promises
is made.

- `SendPath`: from a draft under review to a recorded message. Only approved
  text, only to people who may be written to, never after the switch; any number
  of reviewers and senders run at once.
- `Conversation`: the whole cycle of a scored target: draft, review, send, reply,
  and the follow-up draft a positive reply queues. What does one round leave
  behind for the next, and what does a kill between two steps of any stage do?
- `Intake`: import and research, run by three programs (`phase1_cli`, one
  invocation of the Taskmaster, the autonomous loop) over one database. Is what
  the tables say of a target true, and does the loop stop only when it should?
- `Booking`: draft processes that reserve meetings through the write gate, while
  an operator disables the scheduling agent. What does a check made before BEGIN,
  and a list of free slots that a model takes its time to answer, still promise?

| Module | Models |
|---|---|
| `StateMachine` | the states, the transition table, the test of a pair |
| `PipelineDB` | the tables, the switch file and the outbox as variables; the queries as operators; the two commits of `transition()` |
| `Review` | `record_review_decision()`, for a set of reviewer threads |
| `Sending` | `send_cli`'s batch with `send_email()` and `evaluate_send_gate()` inside, for a set of sender processes |
| `SendPath` | the two side by side, with operators editing switch and suppressions; the properties |
| `SendMonitor` | `SendPath` with two history variables for the counting properties |
| `Outreach` | the abstract contract of the path |
| `ConversationDB` | the replies table and the inbox directory, added to `PipelineDB` |
| `Drafting` | `draft_cli`'s batch with `run_target_through_draft()` and its writer/critic loop, for a set of drafters |
| `Replying` | `reply_cli`'s batch: `fetch_inbox()`, then classifier and router for each new row, for a set of repliers |
| `Conversation` | the four stages over one database, side by side or, with `OneStage`, in turns; arriving replies; the switch; fairness; the properties |
| `Campaign` | the abstract contract of the cycle with a contact: a text goes out only while it is on offer and the address is not listed; a second text is offered only after a follow-up has begun; there are at most `Cap` follow-ups |
| `Scoring` | the fit score, its label, the routing of a label and the policy decision: pure arithmetic, rounding included |
| `IntakeDB` | accounts, targets and policy decisions, and their queries |
| `Importing` | `import_csv()`, row by row and write by write |
| `Research` | one target through phase 1: research, bookkeeping, summarise, detect, score, judge, route, policy gate; timeout and crash handler |
| `Taskmaster` | the three programs: batch selection, limits and budget, the two pending counts of the loop, crash and kill |
| `Intake` | programs side by side, four history variables, the properties |
| `WriteGate` | `commit()`: registry check, BEGIN, statement, audit row, COMMIT, for either dialect |
| `Scheduling` | `schedule_meeting()` and the seeding run of every process, for a set of processes |
| `Booking` | the two with the operator's edit and the clock, three history variables, the properties |
| `Ledger` | the abstract contract of the gate: a row and its audit row appear in one step, under a permit that was given while the agent was enabled and is good for one write |
| `SendPathInvariants`, `ConversationInvariants`, `IntakeInvariants`, `BookingInvariants` | the inductive invariants |
| `SendPathProofs`, `SendPathSerialProofs`, `SendPathRefinement`, `SendMonitorProofs`, `ConversationProofs`, `CampaignProofs`, `IntakeProofs`, `BookingProofs` | the proofs |
| `MCSendPath`, `MCSendMonitor`, `MCConversation`, `MCIntake`, `MCBooking` | the instances TLC checks |

How state corresponds. A row table is a sequence per target in `insert_seq`
order (`reviews`, `revisions`, `transitions`) or one sequence (`gateLog`); rows
that are only ever added and looked for are sets (`messages`, `outbox`). A row
that names a revision names its position. The pairs of gate columns of a
revision are written together and read together and are one flag. The inputs of
the send gate that phase 1 and the import have settled before review are one
`profile` per target: `fit`, `unfit` (a contact, but at least one requirement
missing) and `no_contact`. `fit` is reachable: `import_csv` takes an
`email_verified` column from the operator. The kill-switch file has three
contents; `bad` is everything the reader fails closed on.

How actions correspond. One action per read of a row that others may change and
per commit, in the order of the source; the reads of rows that no longer
change are part of the step beside them. Local variables of a function that
survive a step are fields of the process record (`rv[r]`, `sd[s]`), with the
place as `pc`. Every refusal is a return that changes no row. `CutReview`
is a dead process or an exception that ends a request; `CutSend` is a killed
batch; `RaiseInSend` is an exception in any step of `send_email()`, after which
the crash handler of the batch runs as three steps of its own, any of which may
raise in turn. An exception after the second commit of `transition()` but before
`send_email()` returns (the step log) is included: the handler then moves a
sent target to `failed`, as the code does. Drafters (`dr[d]`) and repliers
(`rp[p]`) are built the same way, with one difference: the timeout handler of
the draft and reply runs is inside the run, so when it raises, the crash handler
of the batch starts over (`RaiseInDraftHandler`, `RaiseInReplyHandler`), and
`fetch_inbox()` has no handler, so an exception there ends the batch
(`CutReplies`). What an agent answers is a choice: whether its output validates
and whether the critic is content (`Answer`, `InsertDraft`), and the routed
action (`Classify`). `Conversation` starts where phase 1 ends, with a scored
target; its earlier transition rows are left out, for nothing reads them.

A reply is matched to a message by its headers before its sender is looked at,
so a file carries whether its sender is the contact (`own`); the address an
unsubscribe lists is the sender's.

Left out of these two, and why it does not matter to the properties: the rate
limits and the cool-down count only messages whose status is not `dry_run_sent`,
and no code writes such a message; the order of a batch and its `--limit` (any
order of the approved targets is allowed); the step trace; the write gate's check
of the agent, which the seeded registry always passes; e-mail addresses are
present whenever a contact is, and each target has its own. `schedule_meeting()`,
called for the footer of a follow-up, is in `Booking`.

Intake. `accounts`, `targets` and `policy` are the tables; `im[p]`, `rs[p]` and
`wk[p]` are the import, the research run and the program of process `p`, each
with its `pc`. A step is one committed write together with the reading and the
model call that lead to it; model calls answer what they like, and the two
attempts of a call are one that succeeds or fails. A deadline is noticed only
where the coroutine awaits. An exception, a timeout and a kill each may come
between any two steps; the crash handlers of `phase1_cli` and of the Taskmaster's tools
(`_record_target_crash`) write the state they find, the deadline of an invocation goes
past them, and a kill takes the whole batch. The kill switch and the
judge's registry row are operated by others at any time, so every reading of them
may go either way (`Switch`, `JudgeRow`). Sources and signals carry a `run_id`
and are kept per run. A batch is a set of targets and is taken in the order of their
creation (`IsNext`), which stands for `created_at`: ties are not modelled. Contact rows
and audit rows are left out. The draft tool is
one step per target, since `Drafting` has the stage; so a draft cut off in `drafted` is
outside `CompleteOrCut`. Tool calls of one model turn run one after another: that is an
assumption about the agent framework, which is not part of the repository.

Booking. `registry`, `meetings` and `writeLog` hold what is committed; `tx[c]`
is the call of `commit()` that connection `c` is in; inside a transaction nobody
sees the row, so the statement takes effect with the COMMIT (`Apply` in
`Commit`), and its lock is held from `Execute` on. On SQLite the lock is taken at
BEGIN, so its behaviours are among those of Postgres, and the properties are checked
there. The occurrences of the weekly template are numbered in the order of time;
entry `e` recurs at `e + k * Template`, and `now` moves at any time up to
`MaxNow`. `created_at` counts whole seconds, so of several meetings of a target
the latest may be any. `listed`, `seen` and `how` of a meeting are no columns: they
record how many meetings there were when its process made its list of open slots and
when it last read the table, be it for a second look that failed, and why it took
the slot.

## 3. Runs

| Run | Instance | Shows |
|---|---|---|
| `send_concurrent` | 1 target, 2 reviewers, 1 sender, unserialised | the invariants that hold whatever runs side by side |
| `send_batch` | 1 target of any profile, 1 reviewer, 1 sender, two decisions with an edit, two batches, every operator edit at any time | with decisions and batches one at a time: verified text is sent text, a target is decided once; recorded from-states are true, the crash row tells the state; a block in force lets at most the message in flight through; each extra message needs a send cut off at its transition; the path implements `Outreach`; `Inv` and `SoloInv` are worth proving |
| `conversation` | 1 target (fit), 1 process per stage, stages in turn; drafts of up to 2 rounds, 1 follow-up, 2 reviews, 2 sends, 2 reply rows, 1 file | the follow-up cap holds; the list is written before the state; an approval names the revision the gate takes for the newest; a listed contact gets nothing more; the cycle implements `Campaign`; the transition rows follow the states |
| `batches_end` | 1 target (fit or not), 1 process per stage, stages in turn, the switch flips at any time, one review, one send, 2 files | a draft, a send and a reply batch come to their end |
| `intake` | 2 programs started (any of the three), 1 domain, files of 1 or 2 rows, scores of 40, 48, 60 and 68, either position of switch and judge, faults and kills | an allow decision is about the scores in the tables; routing follows the final label; no signal without its evidence; no company drops out between import and draft; a run's report is true; a settled target stays settled; the loop's "complete" is about everything it counted |
| `meetings` | 2 processes, 3 targets, 3 calls, a window of one or two slots, Postgres | seeding never undoes a disable; a disable lets at most one write per process through; every offer is reserved; a target has one offer; a chosen slot is shared only with a row that came in after the last look, a fallback's only with one that came in after its list was made; the gate implements `Ledger`; `Inv` is worth proving |
| `draft_is_latest`, `terminal_is_final` | as `conversation` | counterexamples to two sentences of the source, see findings |
| `double_decide` | as `send_concurrent` | likewise |
| `slots_shared` | 1 process, SQLite, 3 targets, a full calendar | likewise |
| `scheduler_degrades` | 1 process, SQLite, the agent disabled at any time | likewise |
| `judge_degrades` | 1 program, judge disabled, no faults | likewise |

Bounds. `MaxReviews` (review rows a new decision may see), `MaxRevisions`
(revisions a new edit may see) and `MaxGateRows` (gate rows a new batch may see)
bound how often work starts; work in progress is never cut by a bound. Two
reviewers are enough for every race of two decisions, since a decision conflicts
with another only through the state it read and the rows it appended. More
than one target in a batch, and two batches on one target, are left to the
theorems, which hold for any of both. `MaxReviews = 2` lets a reject follow an
approval that a cut kept from taking effect; a second batch is enough for a second
message. Reviewer and sender names are symmetric; the symmetry set is used only
where a run checks invariants. Both passing runs are of `SendMonitor`, whose module
`MCSendMonitor` gives TLC a VIEW that merges only what no action and no property of
the runs tells apart: an unusable switch file and an engaged one, the kinds of a
refusal in a review row, files of sends that are over, and the transition rows but
for the number of decisions that moved the target.

For the cycle, one follow-up with `MaxFollowUps = 1` reaches the cap and a
second positive reply tries to pass it; two rounds and two reviews, edits
included, are the least with which revision numbers of two runs overlap. One
file suffices since every batch reads it again. `MCConversation` gives TLC a
VIEW: of the tables that only grow it keeps what actions and properties read
(how many follow-ups, review rows and gate rows there are, the latest review,
who was sent which text), so that states that differ in finished history are
explored once. `TrailFollowsState` reads of a step only the row that this step writes.

For import and research two programs are the least with a race, and any two of
the three kinds are tried; the loop's `MaxIterations = 1` reaches both of its
ends, `MaxCalls = 1` the budget of an invocation. `Inv` of `IntakeInvariants` is checked
beside the properties, being the invariant that is proved. The profiles and signals are chosen so
that the scores fall on a threshold and beside it (60 and 40 are the
lowest scores of a good fit and of the watchlist). One domain forces every
import to collide with the one before; two domains with a single program were
checked as well and show nothing more. For meetings, a template of one entry and
a window of one week make every calendar full after a meeting or two, three
calls let a target come again after two others, and `MaxNow = 1` lets the window
move under a running call.

Deadlock is not checked: once the bounds on work are reached, or a target is
decided and sent, the system rests.

Fairness. Safety is checked and proved without any. `batches_end`
uses `FairSpec`: each sender, drafter and replier that has started
goes on, one weak fairness condition per process over all its steps together.
The code justifies it: none of the three loops waits for another process, and
the only open-ended calls, those of the models, sit under a timeout, whose
handler is a step like any other. Nothing is assumed of which step is taken (a
model may fail to answer every time), of starting a batch, of reviewers, of
arriving replies or of the switch. What makes the property worth checking is
that the failure handlers may raise in their turn: a handler that tried again
would let a batch run forever (`RetryDraftHandler`, `RetryBookkeeping`).

## 4. Findings

The first concerns unserialised use, which the console permits: its handlers are
plain `def` functions, so FastAPI runs each POST on a thread of its pool with a
connection of its own.

1. `double_decide`: two POSTs for one target both read `awaiting_review` and
   both decide. `app/review.py:195-197` says the second is refused.

With one decision at a time the statement is proved (`DecisionIsSingle`), and so
is that of `app/tools/send_email.py:255-258` that the text sent is "guaranteed to
be the text the gate verified" (`SentTextIsVerified`); with two at a time a
decision row that lands between the gate and the second look-up of
`send_email()` changes the text. Likewise the crash row
of a send batch tells where the target was (`CrashRowTellsState`, quoted from
`app/send_cli.py:135-139`) only while no other batch can move the target
between the handler's read and its UPDATE; with one batch at a time it is
proved. The other findings need no concurrency at all:

2. `draft_is_latest`: revision numbers start at 1 in every draft run
   (`app/agents/draft.py:891`), and the latest revision is looked up by number.
   A follow-up of fewer rounds than the first run is shadowed by the old text:
   the draft gate judges the old revision, the console shows it, an approval
   names it and a send would compose it. What was approved is still what is
   sent: `ApprovalNamesLatest` holds, since all look-ups agree on the number.
3. `terminal_is_final`: a suppressed target answers again and the classifier
   times out or raises; the handler moves it to `failed`.
   `app/agents/reply.py:37-39` and `app/tools/fetch_inbox.py:46-47` say a
   terminal state is never overridden by an inbound message. The suppression
   row stays, so no message follows from it.
4. `slots_shared`: with every slot of the window taken, `schedule_meeting()`
   reserves the slot after the window without looking at the table
   (`app/tools/schedule_meeting.py:326-342`), so the next target gets the same
   one. Lines 239-245 say that a slot is "JUST re-verified free" and only a race could
   double-book. The degraded pick is against the same lines in another way, which needs
   two processes and is not this run's trace: the second look (lines 364-369) finds
   the pick taken by another target, and after the next failure line 409 reserves the
   first slot of the list made before, which may be the very slot it has seen
   taken. An instance with two targets and two open slots shows it when the
   `degraded` case of `SharedSlotsExplained` asks for `seen` where it asks for `listed`.
   What the code does keep is checked and proved (`SharedSlots`): a slot a model chose is
   shared only with a row that came in after the last look, the fallback's only
   with one that came in after the list was made; with a single process only the full
   calendar is left.
5. `judge_degrades`: with the judge disabled in the registry, the write gate
   refuses the verdict's row and the exception is caught by nobody
   (`app/tools/judge_icp.py:322`), so the run crashes and the target fails.
   `app/agents_registry.py:107-110` says the pipeline degrades to the
   deterministic label.
6. `scheduler_degrades`: with the scheduling agent disabled, the row of the fallback
   is refused as well, being written in the agent's name
   (`app/tools/schedule_meeting.py:262`), and the call raises through
   `app/agents/draft.py:610`. `app/agents_registry.py:203-206` says it degrades
   to the earliest slot and never fails the target. `DisableStopsWrites`, which
   holds, is about the same refusal: the switch stops every write of the agent.

One comment is at odds with the schema and with other comments, without a run of its own:
`app/tools/get_targets.py:302-306` says that there is no de-duplication by domain and that
each import row is an independent account, but `normalized_domain` is UNIQUE
(`app/db.py:230`), so the second row of a domain raises at line 326 and ends the import
with the rows before it in the tables (`InsertAccount` has it so). `app/agents/phase1.py:1072-1074`
and `app/agents/taskmaster.py:627-631` count on the refusal. `NoCompanyIsLost` says what
such an import leaves behind.

Two observations that no sentence of the source contradicts. Every reply batch
inserts a row for every file still in the inbox, so a positive reply is routed
again after each follow-up, until the cap. And a research run that is cut off in an
invocation of the Taskmaster leaves its target in `researched`, or in `scored`
without a decision, which nothing resumes, while the autonomous loop reports that
the run is complete (`app/autonomous_taskmaster.py:142` counts only `new` and
allowed `scored` targets): `CompleteOrCut` names exactly these as the exception.

## 5. Proofs

The theorems hold for every value of the constants that the named assumptions
of the modules allow: any targets, domains and processes of every stage, any
bounds, any files, pages, scores and model answers, any calendar. TLC evaluates
the assumptions for the instances of section 3.

**Send path** (`TargetAssumption`: finitely many targets, at least one).

- `Inv` (module `SendPathInvariants`) holds in `SendPath` without any
  assumption on concurrency: `Invariance`. The safety properties alone are not
  inductive: that an approved target has an approving row needs `DecidedFirst`
  (the reviewer about to move has written its row); that an allowance was
  earned needs `EvaluationSoFar` (what a clean evaluation has established, place
  by place) and `GateRunsOnce` (a checked revision is not checked again while
  somebody relies on it), and both need `RefsExist`; that a sent target has its
  message needs `SendOrder`. `TypeCorrect`, `ApprovalIsRecorded`,
  `AllowanceIsEarned` and `SendLeavesEvidence` follow.
- `SerialInv` holds when `SerialReviews`: `SerialInvariance`. The argument: a
  decision that has passed its state check keeps its target under review until
  it moves it (`StillUnderReview`); nothing returns a target to review, so what
  a batch works on stays out of it (`LeftReview`) and no decision row can
  appear between gate and message (`TextIsFrozen`); a transition row out of
  review is written after the move, once (`DecisionRows`). `SentTextIsVerified`
  and `DecisionIsSingle` follow.
- `SoloInv` holds when `SerialSends` too: `SoloInvariance`. It adds that a state
  a process remembers is the state (`StateIsKnown`). `MovesAreTruthful`,
  `CrashRowIsTruthful` and `Refinement` (`Spec` implements `Outreach!Spec` under
  `delivered <- {m.target : m \in messages}`) follow.
- The counting properties (`SendMonitorProofs`, `SenderAssumption`: finitely many
  senders). `BlocksStop` needs no assumption on concurrency: a sender is armed
  against a block while its gate has read the value from before it, and
  `SendsRunOut` says that the messages since the block and the armed senders
  together are no more than the senders, since nobody is armed while the block
  lasts. `DuplicatesAreCuts` is for serial use: `CutsAreCounted` says that a
  target's messages are at most the cuts, plus one once it is in `dry_run_sent` or
  `failed` or a sender stands between message and move.

**Conversation.** `ListInv` (module `ConversationInvariants`) holds without any
assumption on concurrency: `ListInvariance`. `SuppressedIsListed` alone is not
inductive. Both writers of `suppressed` must have listed the address first
(`ReviewLists`, `ReplyLists`); what the reply router lists depends on the row
it reads again after recording its verdict, so a row with a verdict must never
change (`RowAtHand`); and that holds since a row without one is held by a
single replier, in its queue or at hand, exactly once (`QueueIsOpen`,
`RowsAreOwned`). `SuppressionIsListed` follows.

The other properties of the cycle need one more invariant each:

- `RowTypes` completes the types, also for any concurrency: a send that goes by a
  review has found its row. With `ListInv` it gives `ConversationTypes`.
- `CapHolds`, for any concurrency: a follow-up run holds a place from its cap check
  until the row the next check counts is written, and rows and places together are
  at most `FollowUpCap`, which is `MaxFollowUps` and one more for each drafter beyond
  the first. A check that counts fewer than `MaxFollowUps` rows finds at most the other
  drafters in places, so it may take one more (`PlaceTaken`); the row turns a place
  into a count (`PlaceCounted`); a cut run gives its place up. `FollowUpsStayCapped`
  follows, and with a single drafter the cap of the code itself
  (`OneDrafterKeepsCap`). Drafters that all pass the check before any writes do reach
  `FollowUpCap`.
- `Turns` and `ListHolds`, with `OneStage`: while a sender stands behind the
  look-up of the address nobody can list it. `ListedStaysOut` follows, as the one
  step that records a message stands there.
- `ApprovalInv`, with `OneStage` and `SerialReviews`: a decision past its state
  check keeps its target under review and names the latest revision until it
  moves it (`DecisionHolds`), the review row it wrote being the one the move relies
  on, and no draft run is at work on an approved target (`DraftsKeepOff`).
  `ApprovalIsOfLatest` follows; run `double_decide` shows what two decisions at
  a time do to it.
- `TextsInv`, with `SerialSends` too and any number of drafters and repliers. It is what the
  stages owe one another across rounds. Offering a text to a target must not
  exceed one text per follow-up, so a target under review was sent no more texts
  than follow-ups have begun (`ReviewCount`); that is the debt of the draft run that
  brought it there (`DraftOwes`: before its row the target was sent nothing or came from
  `routed`, after its row the count has gone up), and a send owes that the text it
  composes is the one on offer when it records the message, although it looked it up
  three steps before (`SendReads`). `TextsCount` counts the text on offer with those
  sent, since the send of a text is no step of any counter.

`CycleKeepsCampaign` shows from these that `Conversation` implements `Campaign!Spec`
under `offer <- Offered` (the revision named by the latest review of an approved
target), `texts <- Sent`, `followUps <- Begun` (the audit rows from `routed` to `drafted`)
and `listed <- emailSupp`. A step changes at most one of the four: a decision, a failed
send and a draft row are `Approve`, `Close` and `FollowUp`, the insert of a message is `Send`,
a suppression `List`, everything else stutters. `TextsStayCapped` follows: a contact is
sent at most one text and one more for each follow-up of the cap, however often
the stages are cut off and run again. That a text is sent only while it is approved
is what a batch resending after a cut, or an old revision number that comes back in a
follow-up round (`draft_is_latest`), could have broken.

`TrailInv` is for one process of each kind at work, stages in turn. `transition()`
moves the state and writes its row in two commits, with no condition on the old state in
either, so the rows are true only if what each process takes the state of its target to be
is the state: as read a few steps before and carried along (`hop` of a draft run,
`link` and `supp` of the router), as it brought the target there itself, or as the row
it has still to write says. The crash handlers are where that is fragile: they read
the state again, since the step that raised may stand before or behind a move of its
own. For sends and decisions the invariant leans on `SendReads` and `DecisionHolds`. `TrailIsTrue` follows: no state
changes off the table or without its row being due, and no row is written that the
state does not bear out. A state no row explains is thus the mark of a process that failed or was
cut off between its two commits, and of nothing else. The theorem is for any targets,
reviewers and senders (`SerialReviews` and `SerialSends` let one of them work at a
time), and a single drafter and replier, which have no such switch.

**Intake** (`IntakeAssumption`, `ResearchAssumption`, `TaskmasterAssumption`). `Inv`
(module `IntakeInvariants`) is inductive for any number of programs:
`IntakeInvariant`. Its parts, and what needs them:

- `OneTargetPerDomain` (a company has at most one target) needs `RowsAreClaimed`:
  between its two writes an import is the only one at its company, for the UNIQUE
  domain stops the others; `UnclaimedIsUnjudged` carries that to a fresh target's
  account. `AccountsAreUsed` is the other half: an account without a target has an
  import at it or is `stranded`.
- `ContestIsKnown` makes "two programs had it at hand" a fact of the history
  variable `contested`. Everything about a target's scores is about the others.
- `RunIsStored` is the heart: at each place of a run, what the run has written so
  far is what the tables say (`RunFacts`). It starts from `NewIsFresh` (a target in
  `new` was not judged or decided, and batches wait for such targets only),
  and `AllowedScoreClears`, `RoutedByFinalLabel` and `ReportsAreTrue` are what is
  left of it when the run is over. `SourcesAreKept` does the same for
  `EvidenceIsStored`.
- `HalfwayIsHeld` (a target between its booking and its decision is in a run or was
  cut) and `CountHolds` (the first count of the loop is still true at the second,
  as no step returns a target to `new`) give `CompleteMeansConcluded`, and the first of them
  with `AccountsAreUsed` also `CompaniesStayFindable`.

The step proof sorts the actions by what they do to a program's hands (`Runs`,
`Takes`, `Drops`, `Imports`, `Loads`, `Drafts`, `Idles`), with frame lemmas for what a
step leaves alone. `IntakeTypes`, `AllowIsEarned`, `FinalLabelRoutes`,
`SignalsHaveEvidence`, `CompaniesStayFindable`, `RunsTellTheTruth`, `DecidedOnce` and
`CompleteMeansConcluded` follow.

**Booking** (`ConnAssumption`, `CalendarAssumption`, `DialectAssumption`). `Inv` (module
`BookingInvariants`) is inductive on either dialect: `BookingInvariant`. A call of
`commit()` and what its caller waits for belong together (`CallsMatch`); the registry
says what the operator wished, since seeding inserts and never updates
(`WishIsKept`): `DisableSurvives`. `WritesRunOut` counts, with the theorems about finite
sets, the writes since the disable and the transactions that were armed before
it, at most one per process: `DisableStops`. `CommitIsStored` (a call that returned
has its row) gives `OffersReserved`. `SlotWasFree` gives `SharedSlots`: none of the
rows there were at the last look held a chosen slot, and none of those there were
when the list was made held one of its slots, in a call at work, in a transaction
and in the table; as the numbers of rows only grow, the row that shares the slot is a
later one. `OverlapIsKnown` (calls that ran at a time are
recorded as such) and `OneMeeting` give `OffersStay`.
`GateKeepsLedger` shows that `Spec` implements `Ledger!Spec`: the registry check of a
call is `Grant`, a refusal or an end without a commit is `Drop`, the commit is
`Record` or `Register`, the operator's edit is `Switch`, and every other step
stutters.

Only model-checked: the counterexamples and the liveness properties. What a theorem says of
more processes than a run has was checked too while the invariants were found: `CapHolds` and
`TextsInv` on an instance with two drafters, which takes more time than a run should.
Out of reach of the prover and left to TLC: liveness (`DraftsEnd`, `SendsEnd`,
`RepliesEnd`) and anything about ENABLED.

## 6. Plan

1. What concurrency of stages leaves of the properties of `Conversation` that are
   proved for stages in turn (a reply batch beside a review, a send beside a
   reply).
2. The migrations of `app/db.py:1611-1868` and what a reader sees when two
   processes open an old database at a time.
3. `insert_seq` on Postgres (`app/db.py:1209-1230`, `app/state_machine.py:261`): two
   transactions that compute the same MAX + 1. The models take the SQLite order.

Known limits of the present model: in `SendPath` targets enter at
`awaiting_review` with one revision and do not come back to review, which only
`Conversation` has; `Conversation` is checked with one target and with stages in
turn, and nobody edits its suppression list
but the stages, so that `SuppressedIsListed` says nothing of an address an
operator has removed; in `Intake` the draft stage is one step and follow-ups do
not exist, so the hazard that the loop counts a target at its cap as pending
(`app/autonomous_taskmaster.py:72-118`) is not covered; `FetchAndNormalizeNode`
is used by no stage; live sends do not exist in the code.

Not planned: page rendering, model calls and text matching, demo data,
simulations, deployment and exports: they decide nothing about a target's state.
