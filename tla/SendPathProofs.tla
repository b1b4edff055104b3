--------------------------- MODULE SendPathProofs ---------------------------
(***************************************************************************)
(* What holds on the send path however many reviewers and senders run side *)
(* by side: Inv is inductive, and the safety properties follow.            *)
(***************************************************************************)
EXTENDS SendPathInvariants, SequenceTheorems, TLAPS

\* Every decision leads to a state of the table.
LEMMA DecisionTransitionType ==
    \A d \in Decision : DecisionTransition(d) \in State
  BY DEF Decision, DecisionTransition, APPROVAL_DECISIONS, State

\* The locals of an idle reviewer and an idle sender are well typed.
LEMMA IdleTypes == IdleReviewer \in ReviewerLocal /\ IdleSender \in SenderLocal
  BY TargetAssumption, Zenon
     DEF IdleReviewer, ReviewerLocal, ReviewPC, Decision, IdleSender, SenderLocal, SendPC, State

\* A reviewer that only moves on keeps its locals typed.
LEMMA GotoType ==
  ASSUME ReviewTypeOK, NEW r \in Reviewer, NEW pc \in ReviewPC, Goto(r, pc)
  PROVE  ReviewTypeOK'
  BY DEF ReviewTypeOK, Goto, ReviewerLocal

\* A reviewer that returns has typed locals.
LEMMA ReturnType ==
  ASSUME ReviewTypeOK, NEW r \in Reviewer, Return(r)
  PROVE  ReviewTypeOK'
  BY IdleTypes DEF ReviewTypeOK, Return

\* A row appended to one of a family of row sequences.
LEMMA AppendRow ==
  ASSUME NEW Row, NEW rows \in [Target -> Seq(Row)], NEW t \in Target, NEW row \in Row
  PROVE  [rows EXCEPT ![t] = Append(@, row)] \in [Target -> Seq(Row)]
<1>1. Append(rows[t], row) \in Seq(Row)
  BY AppendProperties
<1>2. QED BY <1>1

\* Init: the rows a draft run leaves are well typed.
LEMMA TypeInit == Init => TypeOK
<1> SUFFICES ASSUME Init PROVE TypeOK
  OBVIOUS
<1>1. tstate \in [Target -> State]
  BY DEF Init, DBInit, State
<1>2. /\ transitions \in [Target -> Seq(TransitionRow)]
      /\ reviews \in [Target -> Seq(ReviewRow)]
      /\ gateLog \in Seq(GateRow)
  BY DEF Init, DBInit
<1>3. revisions \in [Target -> Seq(Revision)]
  <2>1. \A b \in BOOLEAN : <<[num |-> 1, passed |-> b]>> \in Seq(Revision)
    BY DEF Revision
  <2>2. QED BY <2>1 DEF Init, DBInit
<1>4. /\ emailSupp \subseteq Target /\ domainSupp \subseteq Domain
      /\ killFile \in KillFile /\ profile \in [Target -> Profile]
      /\ outbox \subseteq Message /\ messages \subseteq Message
  BY ProfilesAssumption DEF Init, DBInit, KillFile, Profile
<1>5. ReviewTypeOK /\ SendingTypeOK
  BY IdleTypes DEF Init, ReviewInit, SendingInit, ReviewTypeOK, SendingTypeOK
<1>6. QED BY <1>1, <1>2, <1>3, <1>4, <1>5 DEF TypeOK, DBTypeOK

\* Steps of record_review_decision() keep the types; RefsExist is needed
\* because an edit reads the number of the revision it is based on.
LEMMA ReviewTypeStep ==
  ASSUME TypeOK, RefsExist, NEW r \in Reviewer, UNCHANGED sd,
         ReviewStep(r)
  PROVE  TypeOK'
<1> USE DEF TypeOK, At
<1> DEFINE t == rv[r].tgt
<1>a. /\ SendingTypeOK'
      /\ UNCHANGED dbVars => DBTypeOK'
  BY DEF dbVars, DBTypeOK, SendingTypeOK
<1>b. t \in Target /\ rv[r].dec \in Decision /\ rv[r].ref \in Nat
  BY DEF ReviewTypeOK, ReviewerLocal
<1>c. {"state", "switch", "latest", "edit", "gate", "listed", "suppress", "decide",
       "move", "audit"} \subseteq ReviewPC
  BY DEF ReviewPC
<1>1. ASSUME NEW u \in Target, NEW d \in Decision, Submit(r, u, d) PROVE TypeOK'
  BY <1>1, <1>a DEF Submit, ReviewTypeOK, ReviewerLocal, ReviewPC
<1>2. CASE CheckState(r)
  BY <1>2, <1>a, <1>c, GotoType, ReturnType DEF CheckState, Refuse
<1>3. CASE CheckSwitch(r)
  BY <1>3, <1>a, <1>c, GotoType, ReturnType DEF CheckSwitch, Refuse
<1>4. CASE ReadLatest(r)
  <2>1. CASE Refuse(r)
    BY <2>1, <1>a, ReturnType DEF Refuse
  <2>2. ASSUME NEW i \in DOMAIN revisions[t], NEW pc \in {"edit", "listed", "decide"},
               rv' = [rv EXCEPT ![r].pc = pc, ![r].ref = i]
        PROVE  ReviewTypeOK'
    <3>1. i \in Nat
      BY <1>b DEF DBTypeOK
    <3>2. QED BY <2>2, <3>1, <1>c DEF ReviewTypeOK, ReviewerLocal
  <2>3. QED
    BY <1>4, <1>a, <2>1, <2>2 DEF ReadLatest
<1>5. CASE InsertEdit(r)
  <2>1. revisions[t] \in Seq(Revision) /\ revisions[t][rv[r].ref] \in Revision
    BY <1>5, <1>b DEF InsertEdit, DBTypeOK, RefsExist, Pending
  <2>2. Len(revisions[t]) + 1 \in Nat
    BY <2>1
  <2>3. ReviewTypeOK'
    BY <1>5, <1>c, <2>2 DEF InsertEdit, ReviewTypeOK, ReviewerLocal
  <2>4. [num |-> revisions[t][rv[r].ref].num + 1, passed |-> FALSE] \in Revision
    BY <2>1 DEF Revision
  <2>5. revisions' \in [Target -> Seq(Revision)]
    BY <1>5, <1>b, <2>4, AppendRow DEF InsertEdit, DBTypeOK
  <2>6. QED
    BY <1>5, <1>a, <2>3, <2>5 DEF InsertEdit, DBTypeOK
<1>6. CASE RunDraftGate(r)
  <2>1. rv[r].ref \in DOMAIN revisions[t]
    BY <1>6 DEF RunDraftGate, RefsExist, Pending
  <2>2. revisions[t] \in Seq(Revision) /\ revisions[t][rv[r].ref] \in Revision
    BY <1>b, <2>1 DEF DBTypeOK
  <2>3. ASSUME NEW b \in BOOLEAN
        PROVE  [revisions[t][rv[r].ref] EXCEPT !.passed = b] \in Revision
    BY <2>2 DEF Revision
  <2>4. PICK b \in BOOLEAN : revisions' = [revisions EXCEPT ![t][rv[r].ref].passed = b]
    BY <1>6 DEF RunDraftGate
  <2>5. revisions' \in [Target -> Seq(Revision)]
    BY <2>1, <2>2, <2>3, <2>4, <1>b DEF DBTypeOK
  <2>6. QED
    BY <1>6, <1>a, <1>c, <2>5, GotoType DEF RunDraftGate, DBTypeOK
<1>7. CASE CheckListed(r)
  BY <1>7, <1>a, <1>c, GotoType DEF CheckListed
<1>8. CASE InsertSuppression(r)
  BY <1>8, <1>a, <1>b, <1>c, GotoType DEF InsertSuppression, DBTypeOK
<1>9. CASE InsertReview(r)
  <2>1. [decision |-> rv[r].dec, revision |-> rv[r].ref] \in ReviewRow
    BY <1>b DEF ReviewRow
  <2>2. reviews' \in [Target -> Seq(ReviewRow)]
    BY <1>9, <1>b, <2>1, AppendRow DEF InsertReview, DBTypeOK
  <2>3. QED
    BY <1>9, <1>a, <1>c, <2>2, GotoType DEF InsertReview, DBTypeOK
<1>10. CASE MoveDecided(r)
  BY <1>10, <1>a, <1>b, <1>c, DecisionTransitionType, GotoType
     DEF MoveDecided, UpdateState, DBTypeOK
<1>11. CASE AuditDecided(r)
  <2>1. transitions' \in [Target -> Seq(TransitionRow)]
    BY <1>11, <1>b, DecisionTransitionType
       DEF AuditDecided, InsertTransition, DBTypeOK, TransitionRow, State
  <2>2. QED
    BY <1>11, <1>a, <2>1, ReturnType DEF AuditDecided, DBTypeOK
<1>12. CASE CutReview(r)
  BY <1>12, <1>a, ReturnType DEF CutReview, Refuse
<1>13. QED
  BY <1>1, <1>2, <1>3, <1>4, <1>5, <1>6, <1>7, <1>8, <1>9, <1>10, <1>11, <1>12
  DEF ReviewStep

\* A sender that only moves on keeps its locals typed.
LEMMA SendGotoType ==
  ASSUME SendingTypeOK, NEW s \in Sender, NEW pc \in SendPC, SendGoto(s, pc)
  PROVE  SendingTypeOK'
  BY DEF SendingTypeOK, SendGoto, SenderLocal

\* A gate check keeps the locals typed.
LEMMA CheckType ==
  ASSUME SendingTypeOK, NEW s \in Sender, NEW pc \in SendPC, NEW ok \in BOOLEAN,
         sd' = [sd EXCEPT ![s].pc = pc, ![s].clean = @ /\ ok]
  PROVE  SendingTypeOK'
  BY DEF SendingTypeOK, SenderLocal

\* Going back to the loop head keeps the locals typed.
LEMMA NextTargetType ==
  ASSUME SendingTypeOK, NEW s \in Sender, NextTarget(s)
  PROVE  SendingTypeOK'
<1>1. /\ "next" \in SendPC
      /\ sd[s].queue \in SUBSET Target
  BY DEF SendPC, SendingTypeOK, SenderLocal
<1>2. [IdleSender EXCEPT !.pc = "next", !.queue = sd[s].queue] \in SenderLocal
  BY <1>1, IdleTypes DEF SenderLocal
<1>3. QED BY <1>2 DEF NextTarget, SendingTypeOK

\* Steps of the send batch keep the types; RefsExist gives the gate a
\* revision to look at.
LEMMA SendTypeStep ==
  ASSUME TypeOK, RefsExist, SendOrder, NEW s \in Sender, UNCHANGED rv,
         SendStep(s)
  PROVE  TypeOK'
<1> USE DEF TypeOK, SendAt
<1> DEFINE t == sd[s].tgt
<1>a. /\ ReviewTypeOK'
      /\ UNCHANGED dbVars => DBTypeOK'
  BY DEF dbVars, DBTypeOK, ReviewTypeOK
<1>b. /\ t \in Target /\ sd[s].queue \in SUBSET Target /\ sd[s].st \in State
      /\ sd[s].clean \in BOOLEAN /\ sd[s].ref \in Nat /\ sd[s].text \in Nat
      /\ sd[s].step \in Nat
  BY DEF SendingTypeOK, SenderLocal
<1>c. SendPC = {"idle", "next", "switch", "email", "domain", "review", "revision",
                "newest", "record", "reread", "file", "message", "move", "audit",
                "log", "died", "failmove", "failaudit"}
  BY DEF SendPC
<1>d. Artifact(s) \in Message
  BY <1>b DEF Artifact, Message
<1>e. reviews[t] # <<>> =>
        LatestReview(t) \in ReviewRow /\ LatestReview(t).revision \in Nat
  <2>1. reviews[t] \in Seq(ReviewRow)
    BY <1>b DEF DBTypeOK
  <2>2. reviews[t] # <<>> => reviews[t][Len(reviews[t])] \in ReviewRow
    BY <2>1
  <2>3. QED BY <2>2 DEF LatestReview, ReviewRow
<1>f. /\ "next" \in SendPC /\ "switch" \in SendPC /\ "log" \in SendPC
      /\ "revision" \in SendPC /\ "record" \in SendPC
      /\ "reread" \in SendPC /\ "file" \in SendPC /\ "failmove" \in SendPC
  BY <1>c
<1>1. CASE Select(s)
  <2>1. SendingTypeOK'
    BY <1>1, <1>f DEF Select, Approved, SendingTypeOK, SenderLocal
  <2>2. QED BY <1>1, <1>a, <2>1 DEF Select
<1>2. CASE ReadTarget(s)
  <2>1. PICK u \in sd[s].queue :
           \/ sd' = [sd EXCEPT ![s].pc = "log", ![s].queue = @ \ {u}, ![s].tgt = u]
           \/ sd' = [sd EXCEPT ![s].pc = "switch", ![s].queue = @ \ {u},
                               ![s].tgt = u, ![s].st = tstate[u], ![s].clean = TRUE]
    BY <1>2 DEF ReadTarget
  <2>2. u \in Target /\ tstate[u] \in State
    BY <1>b DEF DBTypeOK
  <2>3. SendingTypeOK'
    BY <2>1, <2>2, <1>f DEF SendingTypeOK, SenderLocal
  <2>4. QED BY <1>2, <1>a, <2>3 DEF ReadTarget
<1>3. CASE EndBatch(s)
  BY <1>3, <1>a, IdleTypes DEF EndBatch, SendingTypeOK
<1>4. CASE GateSwitch(s)
  BY <1>4, <1>a, <1>c, CheckType DEF GateSwitch, Check
<1>5. CASE GateEmail(s)
  BY <1>5, <1>a, <1>c, CheckType DEF GateEmail, Check
<1>6. CASE GateDomain(s)
  BY <1>6, <1>a, <1>c, CheckType DEF GateDomain, Check
<1>7. CASE GateReview(s)
  <2>1. ASSUME reviews[t] # <<>>,
               sd' = [sd EXCEPT ![s].pc = "revision", ![s].ref = LatestReview(t).revision]
        PROVE  SendingTypeOK'
    BY <2>1, <1>e, <1>f DEF SendingTypeOK, SenderLocal
  <2>2. ASSUME sd' = [sd EXCEPT ![s].pc = "record", ![s].clean = FALSE]
        PROVE  SendingTypeOK'
    BY <2>2, <1>f DEF SendingTypeOK, SenderLocal
  <2>3. QED BY <1>7, <1>a, <2>1, <2>2 DEF GateReview
<1>8. CASE GateRevision(s)
  BY <1>8, <1>a, <1>c, CheckType DEF GateRevision, Check
<1>9. CASE GateNewest(s)
  BY <1>9, <1>a, <1>c, CheckType DEF GateNewest, Check
<1>10. CASE RecordGate(s)
  <2>1. Len(gateLog) + 1 \in Nat
    BY DEF DBTypeOK
  <2>2. ASSUME sd' = [sd EXCEPT ![s].pc = "reread", ![s].step = Len(gateLog) + 1]
        PROVE  SendingTypeOK'
    BY <2>1, <2>2, <1>f DEF SendingTypeOK, SenderLocal
  <2>3. ASSUME SendGoto(s, "log") PROVE SendingTypeOK'
    BY <2>3, <1>f, SendGotoType
  <2>4. SendingTypeOK'
    BY <1>10, <2>2, <2>3 DEF RecordGate
  <2>5. [target |-> t, allowed |-> sd[s].clean, verified |-> sd[s].ref] \in GateRow
    BY <1>b DEF GateRow
  <2>6. gateLog' \in Seq(GateRow)
    BY <1>10, <2>5, AppendProperties DEF RecordGate, DBTypeOK
  <2>7. QED BY <1>10, <1>a, <2>4, <2>6 DEF RecordGate, DBTypeOK
<1>11. CASE RereadReview(s)
  <2>1. LatestReview(t).revision \in Nat
    BY <1>11, <1>e DEF RereadReview, SendOrder
  <2>2. SendingTypeOK'
    BY <1>11, <1>f, <2>1 DEF RereadReview, SendingTypeOK, SenderLocal
  <2>3. QED BY <1>11, <1>a, <2>2 DEF RereadReview
<1>12. CASE WriteArtifact(s)
  BY <1>12, <1>a, <1>c, <1>d, SendGotoType DEF WriteArtifact, DBTypeOK
<1>13. CASE InsertMessage(s)
  BY <1>13, <1>a, <1>c, <1>d, SendGotoType DEF InsertMessage, DBTypeOK
<1>14. CASE MoveSent(s)
  BY <1>14, <1>a, <1>b, <1>c, SendGotoType DEF MoveSent, UpdateState, DBTypeOK, State
<1>15. CASE AuditSent(s)
  <2>1. [from |-> "approved", to |-> "dry_run_sent"] \in TransitionRow
    BY DEF TransitionRow, State
  <2>2. QED
    BY <1>15, <1>a, <1>b, <1>c, <2>1, AppendRow, SendGotoType
       DEF AuditSent, InsertTransition, DBTypeOK
<1>16. CASE LogSend(s)
  BY <1>16, <1>a, NextTargetType DEF LogSend
<1>17. CASE RaiseInSend(s)
  BY <1>17, <1>a, <1>c, SendGotoType DEF RaiseInSend
<1>18. CASE ReadDied(s)
  <2>1. tstate[t] \in State
    BY <1>b DEF DBTypeOK
  <2>2. SendingTypeOK'
    BY <1>18, <1>f, <2>1 DEF ReadDied, SendingTypeOK, SenderLocal
  <2>3. QED BY <1>18, <1>a, <2>2 DEF ReadDied
<1>19. CASE MoveFailed(s)
  BY <1>19, <1>a, <1>b, <1>c, SendGotoType DEF MoveFailed, UpdateState, DBTypeOK, State
<1>20. CASE AuditFailed(s)
  <2>1. [from |-> sd[s].st, to |-> "failed"] \in TransitionRow
    BY <1>b DEF TransitionRow, State
  <2>2. QED
    BY <1>20, <1>a, <1>b, <2>1, AppendRow, NextTargetType
       DEF AuditFailed, InsertTransition, DBTypeOK
<1>21. CASE RaiseInBookkeeping(s)
  BY <1>21, <1>a, NextTargetType DEF RaiseInBookkeeping
<1>22. CASE CutSend(s)
  BY <1>22, <1>a, IdleTypes DEF CutSend, SendingTypeOK
<1>23. QED
  BY <1>1, <1>2, <1>3, <1>4, <1>5, <1>6, <1>7, <1>8, <1>9, <1>10, <1>11, <1>12,
     <1>13, <1>14, <1>15, <1>16, <1>17, <1>18, <1>19, <1>20, <1>21, <1>22
  DEF SendStep

\* Operator edits keep the types.
LEMMA OperatorTypeStep ==
  ASSUME TypeOK, OperatorNext
  PROVE  TypeOK'
  BY DEF TypeOK, OperatorNext, ToggleSwitch, SpoilSwitch, EditEmailSuppressions,
         EditDomainSuppressions, DBTypeOK, ReviewTypeOK, SendingTypeOK, KillFile

\* Every step keeps the types.
LEMMA TypeStep ==
  ASSUME TypeOK, RefsExist, SendOrder, [Next]_vars
  PROVE  TypeOK'
<1>1. CASE ReviewNext /\ UNCHANGED sd
  BY <1>1, ReviewTypeStep DEF ReviewNext
<1>2. CASE SendingNext /\ UNCHANGED rv
  BY <1>2, SendTypeStep DEF SendingNext
<1>3. CASE OperatorNext
  BY <1>3, OperatorTypeStep
<1>4. CASE UNCHANGED vars
  BY <1>4 DEF vars, dbVars, TypeOK, DBTypeOK, ReviewTypeOK, SendingTypeOK
<1>5. QED BY <1>1, <1>2, <1>3, <1>4 DEF Next

-----------------------------------------------------------------------------
\* Rows and files are only added, and what a check passed stays passed.
LEMMA RowsStay ==
  ASSUME TypeOK, RefsExist, GateRunsOnce, [Next]_vars, NEW t \in Target
  PROVE  /\ \A i \in DOMAIN reviews[t] :
               i \in DOMAIN reviews'[t] /\ reviews'[t][i] = reviews[t][i]
         /\ \A i \in DOMAIN revisions[t] :
               /\ i \in DOMAIN revisions'[t]
               /\ revisions[t][i].passed => revisions'[t][i].passed
         /\ profile' = profile
         /\ messages \subseteq messages' /\ outbox \subseteq outbox'
<1> USE DEF TypeOK, DBTypeOK
<1>1. /\ reviews[t] \in Seq(ReviewRow) /\ revisions[t] \in Seq(Revision)
      /\ \A u \in Target : reviews[u] \in Seq(ReviewRow) /\ revisions[u] \in Seq(Revision)
  OBVIOUS
<1>2. ASSUME NEW r \in Reviewer, ReviewStep(r), UNCHANGED sd
      PROVE  /\ profile' = profile
             /\ messages' = messages /\ outbox' = outbox
             /\ \/ InsertEdit(r) \/ RunDraftGate(r) \/ InsertReview(r)
                \/ reviews' = reviews /\ revisions' = revisions
  BY <1>2 DEF ReviewStep, Submit, CheckState, CheckSwitch, ReadLatest, InsertEdit, RunDraftGate,
     CheckListed, InsertSuppression, InsertReview, MoveDecided, AuditDecided, CutReview,
     Refuse, dbVars
<1>3. ASSUME NEW s \in Sender, SendStep(s)
      PROVE  /\ profile' = profile /\ reviews' = reviews /\ revisions' = revisions
             /\ messages \subseteq messages' /\ outbox \subseteq outbox'
  BY <1>3 DEF SendStep, Select, ReadTarget, EndBatch, GateSwitch, GateEmail, GateDomain, Check,
     GateReview, GateRevision, GateNewest, RecordGate, RereadReview, WriteArtifact,
     InsertMessage, MoveSent, AuditSent, LogSend, RaiseInSend, ReadDied, MoveFailed,
     AuditFailed, RaiseInBookkeeping, CutSend, dbVars
<1>4. ASSUME OperatorNext
      PROVE  /\ profile' = profile /\ reviews' = reviews /\ revisions' = revisions
             /\ messages' = messages /\ outbox' = outbox
  BY <1>4 DEF OperatorNext, ToggleSwitch, SpoilSwitch, EditEmailSuppressions,
     EditDomainSuppressions
<1>5. ASSUME NEW r \in Reviewer, InsertEdit(r)
      PROVE  \A i \in DOMAIN revisions[t] :
                 i \in DOMAIN revisions'[t] /\ revisions'[t][i] = revisions[t][i]
  <2>1. CASE t = rv[r].tgt
    <3>1. PICK row : revisions'[t] = Append(revisions[t], row)
      BY <1>5, <2>1 DEF InsertEdit
    <3>2. QED BY <3>1, <1>1
  <2>2. CASE t # rv[r].tgt
    BY <1>5, <2>2, <1>1 DEF InsertEdit
  <2>3. QED BY <2>1, <2>2
<1>6. ASSUME NEW r \in Reviewer, RunDraftGate(r)
      PROVE  \A i \in DOMAIN revisions[t] :
                 /\ i \in DOMAIN revisions'[t]
                 /\ revisions[t][i].passed => revisions'[t][i].passed
  <2>1. PICK b \in BOOLEAN : revisions' = [revisions EXCEPT ![rv[r].tgt][rv[r].ref].passed = b]
    BY <1>6 DEF RunDraftGate
  <2>2. ~revisions[rv[r].tgt][rv[r].ref].passed
    BY <1>6 DEF RunDraftGate, GateRunsOnce
  <2>3. QED BY <2>1, <2>2, <1>1
<1>7. ASSUME NEW r \in Reviewer, InsertReview(r)
      PROVE  \A i \in DOMAIN reviews[t] :
                 i \in DOMAIN reviews'[t] /\ reviews'[t][i] = reviews[t][i]
  <2>1. CASE t = rv[r].tgt
    <3>1. PICK row : reviews'[t] = Append(reviews[t], row)
      BY <1>7, <2>1 DEF InsertReview
    <3>2. QED BY <3>1, <1>1
  <2>2. CASE t # rv[r].tgt
    BY <1>7, <2>2, <1>1 DEF InsertReview
  <2>3. QED BY <2>1, <2>2
<1>8. ASSUME NEW r \in Reviewer, ReviewStep(r), UNCHANGED sd
      PROVE  /\ \A i \in DOMAIN reviews[t] :
                   i \in DOMAIN reviews'[t] /\ reviews'[t][i] = reviews[t][i]
             /\ \A i \in DOMAIN revisions[t] :
                   /\ i \in DOMAIN revisions'[t]
                   /\ revisions[t][i].passed => revisions'[t][i].passed
  <2>1. CASE InsertEdit(r)
    BY <2>1, <1>5 DEF InsertEdit
  <2>2. CASE RunDraftGate(r)
    BY <2>2, <1>6 DEF RunDraftGate
  <2>3. CASE InsertReview(r)
    BY <2>3, <1>7 DEF InsertReview
  <2>4. QED BY <2>1, <2>2, <2>3, <1>2, <1>8
<1>9. QED
  BY <1>2, <1>3, <1>4, <1>8 DEF Next, ReviewNext, SendingNext, vars, dbVars

-----------------------------------------------------------------------------
\* What one thread does leaves the locals of the others alone.
LEMMA OtherReviewers ==
  ASSUME TypeOK, NEW r \in Reviewer, ReviewStep(r), NEW q \in Reviewer \ {r}
  PROVE  rv'[q] = rv[q]
  BY DEF TypeOK, ReviewTypeOK, ReviewStep, Submit, CheckState, CheckSwitch, ReadLatest,
     InsertEdit, RunDraftGate, CheckListed, InsertSuppression, InsertReview, MoveDecided,
     AuditDecided, CutReview, Refuse, Return, Goto

\* A step of one sender leaves the locals of the others alone.
LEMMA OtherSenders ==
  ASSUME TypeOK, NEW s \in Sender, SendStep(s), NEW q \in Sender \ {s}
  PROVE  sd'[q] = sd[q]
  BY DEF TypeOK, SendingTypeOK, SendStep, Select, ReadTarget, EndBatch, GateSwitch, GateEmail,
     GateDomain, Check, GateReview, GateRevision, GateNewest, RecordGate, RereadReview,
     WriteArtifact, InsertMessage, MoveSent, AuditSent, LogSend, RaiseInSend, ReadDied,
     MoveFailed, AuditFailed, RaiseInBookkeeping, CutSend, SendGoto, NextTarget

\* The locals of a reviewer that moves on inside a decision: its target and
\* decision stay, and its revision changes only where the code reads or
\* writes one.
LEMMA ReviewerMoves ==
  ASSUME TypeOK, NEW r \in Reviewer, ReviewStep(r), rv'[r].pc \in Pending
  PROVE  /\ rv'[r].tgt = rv[r].tgt /\ rv'[r].dec = rv[r].dec
         /\ \/ ReadLatest(r) /\ rv'[r].ref \in DOMAIN revisions[rv[r].tgt]
            \/ InsertEdit(r) /\ rv'[r].ref = Len(revisions[rv[r].tgt]) + 1
            \/ rv[r].pc \in Pending /\ rv'[r].ref = rv[r].ref
         /\ rv'[r].pc = "gate" => InsertEdit(r)
         /\ rv'[r].pc = "move" => InsertReview(r)
<1> USE DEF TypeOK, ReviewTypeOK, ReviewerLocal, Pending, At
<1>1. ASSUME NEW t \in Target, NEW d \in Decision, Submit(r, t, d) PROVE FALSE
  BY <1>1 DEF Submit
<1>2. CASE CheckState(r) \/ CheckSwitch(r) \/ CutReview(r) \/ AuditDecided(r)
  BY <1>2 DEF CheckState, CheckSwitch, CutReview, AuditDecided, Goto, Refuse, Return,
     IdleReviewer
<1>3. CASE ReadLatest(r)
  BY <1>3 DEF ReadLatest, Refuse, Return, IdleReviewer
<1>4. CASE InsertEdit(r)
  BY <1>4 DEF InsertEdit
<1>5. CASE RunDraftGate(r) \/ CheckListed(r) \/ InsertSuppression(r)
  BY <1>5 DEF RunDraftGate, CheckListed, InsertSuppression, Goto
<1>6. CASE InsertReview(r) \/ MoveDecided(r)
  BY <1>6 DEF InsertReview, MoveDecided, Goto
<1>7. QED BY <1>1, <1>2, <1>3, <1>4, <1>5, <1>6 DEF ReviewStep

\* Only the thread itself changes its locals.
LEMMA ReviewerActs ==
  ASSUME TypeOK, [Next]_vars, NEW r \in Reviewer, rv'[r] # rv[r]
  PROVE  ReviewStep(r) /\ UNCHANGED sd
<1>1. ~UNCHANGED rv
  OBVIOUS
<1>2. PICK q \in Reviewer : ReviewStep(q) /\ UNCHANGED sd
  BY <1>1 DEF Next, ReviewNext, OperatorNext, ToggleSwitch, SpoilSwitch,
     EditEmailSuppressions, EditDomainSuppressions, vars
<1>3. q = r
  BY <1>2, OtherReviewers
<1>4. QED BY <1>2, <1>3

\* A sender whose locals changed is the one that took the step.
LEMMA SenderActs ==
  ASSUME TypeOK, [Next]_vars, NEW s \in Sender, sd'[s] # sd[s]
  PROVE  SendStep(s) /\ UNCHANGED rv
<1>1. ~UNCHANGED sd
  OBVIOUS
<1>2. PICK q \in Sender : SendStep(q) /\ UNCHANGED rv
  BY <1>1 DEF Next, SendingNext, OperatorNext, ToggleSwitch, SpoilSwitch,
     EditEmailSuppressions, EditDomainSuppressions, vars
<1>3. q = s
  BY <1>2, OtherSenders
<1>4. QED BY <1>2, <1>3

\* A new review row comes from InsertReview.
LEMMA ReviewsGrowOnlyByInsert ==
  ASSUME TypeOK, [Next]_vars, NEW t \in Target, reviews'[t] # reviews[t]
  PROVE  \E r \in Reviewer : InsertReview(r) /\ rv[r].tgt = t
<1>1. PICK r \in Reviewer : InsertReview(r)
  BY DEF Next, ReviewNext, ReviewStep, Submit, CheckState, CheckSwitch, ReadLatest, InsertEdit,
     RunDraftGate, CheckListed, InsertSuppression, MoveDecided, AuditDecided, CutReview, Refuse,
     SendingNext, SendStep, Select, ReadTarget, EndBatch, GateSwitch, GateEmail, GateDomain,
     Check, GateReview, GateRevision, GateNewest, RecordGate, RereadReview, WriteArtifact,
     InsertMessage, MoveSent, AuditSent, LogSend, RaiseInSend, ReadDied, MoveFailed, AuditFailed,
     RaiseInBookkeeping, CutSend, OperatorNext, ToggleSwitch, SpoilSwitch,
     EditEmailSuppressions, EditDomainSuppressions, vars, dbVars
<1>2. rv[r].tgt = t
  BY <1>1 DEF InsertReview, TypeOK, DBTypeOK
<1>3. QED BY <1>1, <1>2

\* Revisions change by an edit and by its content checks.
LEMMA RevisionsChange ==
  ASSUME [Next]_vars, revisions' # revisions
  PROVE  \E r \in Reviewer : InsertEdit(r) \/ RunDraftGate(r)
  BY DEF Next, ReviewNext, ReviewStep, Submit, CheckState, CheckSwitch, ReadLatest,
     CheckListed, InsertSuppression, InsertReview, MoveDecided, AuditDecided, CutReview, Refuse,
     SendingNext, SendStep, Select, ReadTarget, EndBatch, GateSwitch, GateEmail, GateDomain,
     Check, GateReview, GateRevision, GateNewest, RecordGate, RereadReview, WriteArtifact,
     InsertMessage, MoveSent, AuditSent, LogSend, RaiseInSend, ReadDied, MoveFailed, AuditFailed,
     RaiseInBookkeeping, CutSend, OperatorNext, ToggleSwitch, SpoilSwitch,
     EditEmailSuppressions, EditDomainSuppressions, vars, dbVars

\* The send gate's log grows by its one commit.
LEMMA GateLogGrows ==
  ASSUME [Next]_vars, gateLog' # gateLog
  PROVE  \E s \in Sender : RecordGate(s)
  BY DEF Next, ReviewNext, ReviewStep, Submit, CheckState, CheckSwitch, ReadLatest, InsertEdit, RunDraftGate,
     CheckListed, InsertSuppression, InsertReview, MoveDecided, AuditDecided, CutReview,
     Refuse, SendingNext, SendStep, Select, ReadTarget, EndBatch, GateSwitch, GateEmail,
     GateDomain, Check, GateReview, GateRevision, GateNewest, RereadReview,
     WriteArtifact, InsertMessage, MoveSent, AuditSent, LogSend, RaiseInSend, ReadDied,
     MoveFailed, AuditFailed, RaiseInBookkeeping, CutSend, OperatorNext, ToggleSwitch,
     SpoilSwitch, EditEmailSuppressions, EditDomainSuppressions, vars, dbVars

\* Message rows come from InsertMessage.
LEMMA MessagesGrow ==
  ASSUME [Next]_vars, messages' # messages
  PROVE  \E s \in Sender : InsertMessage(s)
  BY DEF Next, ReviewNext, ReviewStep, Submit, CheckState, CheckSwitch, ReadLatest, InsertEdit, RunDraftGate,
     CheckListed, InsertSuppression, InsertReview, MoveDecided, AuditDecided, CutReview,
     Refuse, SendingNext, SendStep, Select, ReadTarget, EndBatch, GateSwitch, GateEmail,
     GateDomain, Check, GateReview, GateRevision, GateNewest, RecordGate, RereadReview,
     WriteArtifact, MoveSent, AuditSent, LogSend, RaiseInSend, ReadDied, MoveFailed,
     AuditFailed, RaiseInBookkeeping, CutSend, OperatorNext, ToggleSwitch, SpoilSwitch,
     EditEmailSuppressions, EditDomainSuppressions, vars, dbVars

\* States change by a decision, a send and the crash handler.
LEMMA StateChanges ==
  ASSUME [Next]_vars, tstate' # tstate
  PROVE  \/ \E r \in Reviewer : MoveDecided(r)
         \/ \E s \in Sender : MoveSent(s) \/ MoveFailed(s)
  BY DEF Next, ReviewNext, ReviewStep, Submit, CheckState, CheckSwitch, ReadLatest, InsertEdit, RunDraftGate,
     CheckListed, InsertSuppression, InsertReview, AuditDecided, CutReview, Refuse,
     SendingNext, SendStep, Select, ReadTarget, EndBatch, GateSwitch, GateEmail,
     GateDomain, Check, GateReview, GateRevision, GateNewest, RecordGate, RereadReview,
     WriteArtifact, InsertMessage, AuditSent, LogSend, RaiseInSend, ReadDied,
     AuditFailed, RaiseInBookkeeping, CutSend, OperatorNext, ToggleSwitch, SpoilSwitch,
     EditEmailSuppressions, EditDomainSuppressions, vars, dbVars

\* Only a send makes a target dry_run_sent.
LEMMA SentBySend ==
  ASSUME TypeOK, [Next]_vars, NEW t \in Target,
         tstate[t] # "dry_run_sent", tstate'[t] = "dry_run_sent"
  PROVE  \E s \in Sender : MoveSent(s) /\ sd[s].tgt = t
<1>1. ASSUME NEW r \in Reviewer PROVE ~MoveDecided(r)
  <2>1. DecisionTransition(rv[r].dec) # "dry_run_sent"
    BY DEF DecisionTransition, TypeOK, ReviewTypeOK, ReviewerLocal, Decision, APPROVAL_DECISIONS
  <2>2. QED BY <2>1 DEF MoveDecided, UpdateState, TypeOK, DBTypeOK
<1>2. ASSUME NEW s \in Sender PROVE ~MoveFailed(s)
  BY DEF MoveFailed, UpdateState, TypeOK, DBTypeOK
<1>3. PICK s \in Sender : MoveSent(s)
  BY <1>1, <1>2, StateChanges
<1>4. sd[s].tgt = t
  BY <1>3 DEF MoveSent, UpdateState, TypeOK, DBTypeOK
<1>5. QED BY <1>3, <1>4

\* Only an approving decision makes a target approved.
LEMMA ApprovedByDecision ==
  ASSUME TypeOK, [Next]_vars, NEW t \in Target, tstate[t] # "approved", tstate'[t] = "approved"
  PROVE  \E r \in Reviewer : /\ MoveDecided(r) /\ rv[r].tgt = t
                             /\ rv[r].dec \in APPROVAL_DECISIONS
<1>1. \/ \E r \in Reviewer : MoveDecided(r)
      \/ \E s \in Sender : MoveSent(s) \/ MoveFailed(s)
  BY StateChanges
<1>2. ~ \E s \in Sender : MoveSent(s) \/ MoveFailed(s)
  BY DEF MoveSent, MoveFailed, UpdateState, TypeOK, DBTypeOK
<1>3. PICK r \in Reviewer : MoveDecided(r)
  BY <1>1, <1>2
<1>4. rv[r].tgt = t /\ DecisionTransition(rv[r].dec) = "approved" /\ rv[r].dec \in Decision
  BY <1>3 DEF MoveDecided, UpdateState, TypeOK, DBTypeOK, ReviewTypeOK, ReviewerLocal
<1>5. rv[r].dec \in APPROVAL_DECISIONS
  BY <1>4 DEF DecisionTransition, Decision, APPROVAL_DECISIONS
<1>6. QED BY <1>3, <1>4, <1>5

\* Every reference to a revision stays valid: revisions are only appended.
LEMMA RefsExistStep ==
  ASSUME TypeOK, RefsExist, GateRunsOnce, [Next]_vars
  PROVE  RefsExist'
<1> USE DEF TypeOK
<1>1. ASSUME NEW t \in Target, NEW i \in DOMAIN reviews'[t]
      PROVE  reviews'[t][i].revision \in DOMAIN revisions'[t]
  <2>1. CASE i \in DOMAIN reviews[t]
    BY <2>1, RowsStay DEF RefsExist
  <2>2. CASE i \notin DOMAIN reviews[t]
    <3>1. PICK r \in Reviewer : InsertReview(r) /\ rv[r].tgt = t
      BY <2>2, ReviewsGrowOnlyByInsert
    <3>2. /\ reviews[t] \in Seq(ReviewRow)
          /\ reviews'[t] = Append(reviews[t], [decision |-> rv[r].dec,
                                               revision |-> rv[r].ref])
      BY <3>1 DEF InsertReview, DBTypeOK
    <3>3. reviews'[t][i].revision = rv[r].ref
      BY <2>2, <3>2
    <3>4. rv[r].ref \in DOMAIN revisions[t]
      BY <3>1 DEF InsertReview, At, RefsExist, Pending
    <3>5. QED BY <3>3, <3>4, RowsStay
  <2>3. QED BY <2>1, <2>2
<1>2. ASSUME NEW r \in Reviewer, rv'[r].pc \in Pending
      PROVE  rv'[r].ref \in DOMAIN revisions'[rv'[r].tgt]
  <2>1. rv[r].tgt \in Target
    BY DEF ReviewTypeOK, ReviewerLocal
  <2>2. CASE rv'[r] = rv[r]
    BY <1>2, <2>1, <2>2, RowsStay DEF RefsExist
  <2>3. CASE rv'[r] # rv[r]
    <3>1. ReviewStep(r) /\ UNCHANGED sd
      BY <2>3, ReviewerActs
    <3>2. CASE InsertEdit(r) /\ rv'[r].ref = Len(revisions[rv[r].tgt]) + 1
      <4>1. /\ revisions[rv[r].tgt] \in Seq(Revision)
            /\ \E row : revisions'[rv[r].tgt] = Append(revisions[rv[r].tgt], row)
        BY <2>1, <3>2 DEF InsertEdit, DBTypeOK
      <4>2. QED BY <1>2, <3>1, <3>2, <4>1, ReviewerMoves
    <3>3. CASE rv'[r].ref \in DOMAIN revisions[rv[r].tgt]
      BY <1>2, <2>1, <3>1, <3>3, RowsStay, ReviewerMoves
    <3>4. CASE rv[r].pc \in Pending /\ rv'[r].ref = rv[r].ref
      BY <1>2, <2>1, <3>1, <3>4, RowsStay, ReviewerMoves DEF RefsExist
    <3>5. QED BY <1>2, <3>1, <3>2, <3>3, <3>4, ReviewerMoves
  <2>4. QED BY <2>2, <2>3
<1>3. QED BY <1>1, <1>2 DEF RefsExist

\* A decision row is there before the transition it explains.
LEMMA DecidedFirstStep ==
  ASSUME TypeOK, RefsExist, GateRunsOnce, DecidedFirst, [Next]_vars
  PROVE  DecidedFirst'
<1> SUFFICES ASSUME NEW r \in Reviewer, rv'[r].pc = "move",
                    rv'[r].dec \in APPROVAL_DECISIONS
             PROVE  \E i \in DOMAIN reviews'[rv'[r].tgt] :
                        reviews'[rv'[r].tgt][i].decision \in APPROVAL_DECISIONS
  BY DEF DecidedFirst, At
<1>1. rv[r].tgt \in Target
  BY DEF TypeOK, ReviewTypeOK, ReviewerLocal
<1>2. CASE rv'[r] = rv[r]
  BY <1>1, <1>2, RowsStay DEF DecidedFirst, At
<1>3. CASE rv'[r] # rv[r]
  <2>1. ReviewStep(r) /\ UNCHANGED sd
    BY <1>3, ReviewerActs
  <2>2. InsertReview(r) /\ rv'[r].tgt = rv[r].tgt /\ rv'[r].dec = rv[r].dec
    BY <2>1, ReviewerMoves DEF Pending
  <2>3. /\ reviews[rv[r].tgt] \in Seq(ReviewRow)
        /\ reviews'[rv[r].tgt] = Append(reviews[rv[r].tgt],
               [decision |-> rv[r].dec, revision |-> rv[r].ref])
    BY <1>1, <2>2 DEF InsertReview, TypeOK, DBTypeOK
  <2>4. LET last == Len(reviews[rv[r].tgt]) + 1
        IN  /\ last \in DOMAIN reviews'[rv[r].tgt]
            /\ reviews'[rv[r].tgt][last].decision = rv[r].dec
    BY <2>3
  <2>5. QED BY <2>2, <2>4
<1>4. QED BY <1>2, <1>3

\* The only way into approved is a move that follows its decision row.
LEMMA ApprovedWasDecidedStep ==
  ASSUME TypeOK, RefsExist, GateRunsOnce, DecidedFirst, ApprovedWasDecided, [Next]_vars
  PROVE  ApprovedWasDecided'
<1> SUFFICES ASSUME NEW t \in Target, tstate'[t] = "approved"
             PROVE  \E i \in DOMAIN reviews'[t] :
                        reviews'[t][i].decision \in APPROVAL_DECISIONS
  BY DEF ApprovedWasDecided
<1>1. CASE tstate[t] = "approved"
  BY <1>1, RowsStay DEF ApprovedWasDecided
<1>2. CASE tstate[t] # "approved"
  <2>1. PICK r \in Reviewer : MoveDecided(r) /\ rv[r].tgt = t /\ rv[r].dec \in APPROVAL_DECISIONS
    BY <1>2, ApprovedByDecision
  <2>2. \E i \in DOMAIN reviews[t] : reviews[t][i].decision \in APPROVAL_DECISIONS
    BY <2>1 DEF DecidedFirst, MoveDecided
  <2>3. QED BY <2>2, RowsStay
<1>3. QED BY <1>1, <1>2

\* A revision is checked by the gate before a decision names it.
LEMMA GateRunsOnceStep ==
  ASSUME TypeOK, RefsExist, GateRunsOnce, [Next]_vars
  PROVE  GateRunsOnce'
<1> USE DEF At
<1>t. ASSUME NEW r \in Reviewer PROVE rv[r].tgt \in Target /\ revisions[rv[r].tgt] \in Seq(Revision)
  BY DEF TypeOK, ReviewTypeOK, ReviewerLocal, DBTypeOK
\* A reviewer found at its content checks has just written its revision, or
\* was there before and nobody else touches that revision.
<1>1. ASSUME NEW r \in Reviewer, rv'[r].pc = "gate", rv'[r] # rv[r]
      PROVE  /\ InsertEdit(r) /\ UNCHANGED sd /\ rv'[r].tgt = rv[r].tgt
             /\ rv'[r].ref = Len(revisions[rv[r].tgt]) + 1
             /\ rv'[r].ref \notin DOMAIN revisions[rv[r].tgt]
             /\ ~revisions'[rv[r].tgt][rv'[r].ref].passed
  <2>1. ReviewStep(r) /\ UNCHANGED sd
    BY <1>1, ReviewerActs
  <2>2. InsertEdit(r) /\ rv'[r].tgt = rv[r].tgt
    BY <1>1, <2>1, ReviewerMoves DEF Pending
  <2>3. rv'[r].ref = Len(revisions[rv[r].tgt]) + 1
    BY <2>2 DEF InsertEdit, TypeOK, ReviewTypeOK, ReviewerLocal
  <2>4. PICK row : row.passed = FALSE /\ revisions'[rv[r].tgt] = Append(revisions[rv[r].tgt], row)
    BY <2>2, <1>t DEF InsertEdit, TypeOK, DBTypeOK
  <2>5. QED BY <2>1, <2>2, <2>3, <2>4, <1>t
<1>2. ASSUME NEW r \in Reviewer, rv'[r].pc = "gate", rv'[r] = rv[r]
      PROVE  ~revisions'[rv'[r].tgt][rv'[r].ref].passed
  <2>1. rv[r].ref \in DOMAIN revisions[rv[r].tgt] /\ ~revisions[rv[r].tgt][rv[r].ref].passed
    BY <1>2 DEF RefsExist, Pending, GateRunsOnce
  <2>2. CASE revisions' = revisions
    BY <1>2, <2>1, <2>2
  <2>3. CASE revisions' # revisions
    <3>1. PICK q \in Reviewer : InsertEdit(q) \/ RunDraftGate(q)
      BY <2>3, RevisionsChange
    <3>2. CASE InsertEdit(q)
      <4>1. CASE rv[q].tgt = rv[r].tgt
        <5>1. PICK row : revisions'[rv[r].tgt] = Append(revisions[rv[r].tgt], row)
          BY <3>2, <4>1, <1>t DEF InsertEdit, TypeOK, DBTypeOK
        <5>2. revisions'[rv[r].tgt][rv[r].ref] = revisions[rv[r].tgt][rv[r].ref]
          <6>1. revisions[rv[r].tgt] \in Seq(Revision)
            BY <1>t
          <6>2. QED BY <5>1, <6>1, <2>1
        <5>3. QED BY <5>2, <2>1, <1>2
      <4>2. CASE rv[q].tgt # rv[r].tgt
        BY <3>2, <4>2, <2>1, <1>2, <1>t DEF InsertEdit, TypeOK, DBTypeOK
      <4>3. QED BY <4>1, <4>2
    <3>3. CASE RunDraftGate(q)
      <4>1. q # r
        BY <3>3, <1>2 DEF RunDraftGate, Goto, TypeOK, ReviewTypeOK, ReviewerLocal
      <4>2. <<rv[q].tgt, rv[q].ref>> # <<rv[r].tgt, rv[r].ref>>
        BY <3>3, <4>1, <1>2 DEF RunDraftGate, GateRunsOnce
      <4>3. PICK b \in BOOLEAN :
               revisions' = [revisions EXCEPT ![rv[q].tgt][rv[q].ref].passed = b]
        BY <3>3 DEF RunDraftGate
      <4>4. revisions'[rv[r].tgt][rv[r].ref] = revisions[rv[r].tgt][rv[r].ref]
        BY <4>2, <4>3, <2>1, <1>t DEF TypeOK, DBTypeOK
      <4>5. QED BY <4>4, <2>1, <1>2
    <3>4. QED BY <3>1, <3>2, <3>3
  <2>4. QED BY <2>2, <2>3
<1>3. ASSUME NEW r \in Reviewer, NEW q \in Reviewer \ {r},
             rv'[r].pc = "gate", rv'[q].pc = "gate"
      PROVE  <<rv'[q].tgt, rv'[q].ref>> # <<rv'[r].tgt, rv'[r].ref>>
  <2>1. CASE rv'[r] = rv[r] /\ rv'[q] = rv[q]
    BY <2>1, <1>3 DEF GateRunsOnce
  <2>2. CASE rv'[r] # rv[r] /\ rv'[q] = rv[q]
    BY <2>2, <1>3, <1>1 DEF RefsExist, Pending
  <2>3. CASE rv'[r] = rv[r] /\ rv'[q] # rv[q]
    BY <2>3, <1>3, <1>1 DEF RefsExist, Pending
  <2>4. CASE rv'[r] # rv[r] /\ rv'[q] # rv[q]
    BY <2>4, ReviewerActs, OtherReviewers
  <2>5. QED BY <2>1, <2>2, <2>3, <2>4
<1>4. ASSUME NEW r \in Reviewer, rv'[r].pc = "gate"
      PROVE  ~revisions'[rv'[r].tgt][rv'[r].ref].passed
  BY <1>4, <1>1, <1>2
<1>5. QED BY <1>3, <1>4 DEF GateRunsOnce

-----------------------------------------------------------------------------
\* Where in send_email() each point is reached from, and that the target is
\* the same throughout.
LEMMA SenderMoves ==
  ASSUME TypeOK, NEW s \in Sender, SendStep(s),
         sd'[s].pc \in {"review", "revision", "newest", "record",
                        "reread", "file", "message", "move"}
  PROVE  /\ sd'[s].tgt = sd[s].tgt
         /\ sd'[s].pc = "review" => GateDomain(s)
         /\ sd'[s].pc = "revision" => GateReview(s)
         /\ sd'[s].pc = "newest" => GateRevision(s)
         /\ sd'[s].pc = "record" =>
                GateNewest(s) \/ ((GateSwitch(s) \/ GateReview(s)) /\ ~sd'[s].clean)
         /\ sd'[s].pc = "reread" => RecordGate(s) /\ sd[s].clean
         /\ sd'[s].pc = "file" => RereadReview(s)
         /\ sd'[s].pc = "message" => WriteArtifact(s)
         /\ sd'[s].pc = "move" => InsertMessage(s)
<1>t. sd \in [Sender -> SenderLocal]
  BY DEF TypeOK, SendingTypeOK
<1>u. /\ DOMAIN sd[s] = {"pc", "queue", "tgt", "st", "clean", "ref", "text", "step"}
      /\ sd[s].clean \in BOOLEAN
  BY <1>t DEF SenderLocal
<1>v. IdleSender.pc = "idle"
  BY DEF IdleSender
<1>w. ASSUME NextTarget(s) PROVE sd'[s].pc = "next"
  BY <1>t, <1>w DEF NextTarget, IdleSender
<1> USE <1>t, <1>u DEF SendAt
<1>0. CASE ReadTarget(s)
  <2>1. sd'[s].pc \in {"log", "switch"}
    BY <1>0 DEF ReadTarget
  <2>2. QED BY <2>1
<1>1. CASE Select(s) \/ EndBatch(s)
  BY <1>1, <1>v DEF Select, EndBatch
<1>2. CASE GateSwitch(s) \/ GateEmail(s) \/ GateDomain(s)
  BY <1>2 DEF GateSwitch, GateEmail, GateDomain, Check
<1>3. CASE GateReview(s)
  <2>1. CASE sd' = [sd EXCEPT ![s].pc = "revision", ![s].ref = LatestReview(sd[s].tgt).revision]
    BY <1>3, <2>1
  <2>2. CASE sd' = [sd EXCEPT ![s].pc = "record", ![s].clean = FALSE]
    BY <1>3, <2>2
  <2>3. QED BY <1>3, <2>1, <2>2 DEF GateReview
<1>4. CASE GateRevision(s) \/ GateNewest(s)
  BY <1>4 DEF GateRevision, GateNewest, Check
<1>5. CASE RecordGate(s)
  <2>1. CASE sd[s].clean /\ sd' = [sd EXCEPT ![s].pc = "reread", ![s].step = Len(gateLog) + 1]
    BY <1>5, <2>1
  <2>2. CASE SendGoto(s, "log")
    BY <1>5, <2>2 DEF SendGoto
  <2>3. QED BY <1>5, <2>1, <2>2 DEF RecordGate
<1>6. CASE RereadReview(s) \/ WriteArtifact(s) \/ InsertMessage(s)
  BY <1>6 DEF RereadReview, WriteArtifact, InsertMessage, SendGoto
<1>7. CASE MoveSent(s) \/ AuditSent(s) \/ RaiseInSend(s) \/ ReadDied(s) \/ MoveFailed(s)
  BY <1>7 DEF MoveSent, AuditSent, RaiseInSend, ReadDied, MoveFailed, SendGoto
<1>8. CASE LogSend(s) \/ AuditFailed(s) \/ RaiseInBookkeeping(s) \/ CutSend(s)
  BY <1>8, <1>v, <1>w DEF LogSend, AuditFailed, RaiseInBookkeeping, CutSend
<1>9. QED BY <1>0, <1>1, <1>2, <1>3, <1>4, <1>5, <1>6, <1>7, <1>8 DEF SendStep

\* A clean evaluation has passed every check made so far, and none of them
\* can be undone by another process.
LEMMA EvaluationSoFarStep ==
  ASSUME TypeOK, RefsExist, GateRunsOnce, EvaluationSoFar, [Next]_vars
  PROVE  EvaluationSoFar'
<1> SUFFICES ASSUME NEW s \in Sender
             PROVE  /\ /\ sd'[s].pc \in {"review", "revision", "newest", "record"}
                       /\ sd'[s].clean
                       => profile'[sd'[s].tgt] = "fit"
                    /\ \/ sd'[s].pc \in {"revision", "newest"}
                       \/ sd'[s].pc = "record" /\ sd'[s].clean
                       => \E j \in DOMAIN reviews'[sd'[s].tgt] :
                              /\ reviews'[sd'[s].tgt][j].decision \in APPROVAL_DECISIONS
                              /\ reviews'[sd'[s].tgt][j].revision = sd'[s].ref
                    /\ sd'[s].pc \in {"newest", "record"} /\ sd'[s].clean =>
                           revisions'[sd'[s].tgt][sd'[s].ref].passed
  BY DEF EvaluationSoFar, ApprovedRef
<1> DEFINE t == sd[s].tgt
           v == sd[s].ref
<1>1. t \in Target
  BY DEF TypeOK, SendingTypeOK, SenderLocal
<1>2. profile' = profile
  BY <1>1, RowsStay
\* Both facts about an approved revision survive the step.
<1>3. ASSUME NEW w, ApprovedRef(t, w)
      PROVE  /\ \E j \in DOMAIN reviews'[t] :
                    /\ reviews'[t][j].decision \in APPROVAL_DECISIONS
                    /\ reviews'[t][j].revision = w
             /\ w \in DOMAIN revisions[t]
  <2>1. PICK j \in DOMAIN reviews[t] : /\ reviews[t][j].decision \in APPROVAL_DECISIONS
                                       /\ reviews[t][j].revision = w
    BY <1>3 DEF ApprovedRef
  <2>2. j \in DOMAIN reviews'[t] /\ reviews'[t][j] = reviews[t][j]
    BY <1>1, RowsStay
  <2>3. QED BY <2>1, <2>2, <1>1 DEF RefsExist
<1>4. ApprovedRef(t, v) /\ revisions[t][v].passed => revisions'[t][v].passed
  BY <1>1, <1>3, RowsStay
<1>5. CASE sd'[s] = sd[s]
  BY <1>2, <1>3, <1>4, <1>5 DEF EvaluationSoFar
<1>6. CASE sd'[s] # sd[s]
  <2>1. SendStep(s) /\ UNCHANGED rv
    BY <1>6, SenderActs
  <2>2. CASE sd'[s].pc = "review"
    <3>1. GateDomain(s) /\ sd'[s].tgt = t
      BY <2>1, <2>2, SenderMoves
    <3>2. sd'[s].clean => profile[t] = "fit"
      BY <3>1 DEF GateDomain, Check, TypeOK, SendingTypeOK, SenderLocal
    <3>3. QED BY <2>2, <3>1, <3>2, <1>2
  <2>3. CASE sd'[s].pc = "revision"
    <3>1. GateReview(s) /\ sd'[s].tgt = t
      BY <2>1, <2>3, SenderMoves
    <3>2. /\ sd'[s].ref = LatestReview(t).revision /\ sd'[s].clean = sd[s].clean
          /\ reviews[t] # <<>> /\ LatestReview(t).decision \in APPROVAL_DECISIONS
      BY <2>3, <3>1 DEF GateReview, TypeOK, SendingTypeOK, SenderLocal
    <3>3. reviews[t] \in Seq(ReviewRow)
      BY <1>1 DEF TypeOK, DBTypeOK
    <3>4. ApprovedRef(t, sd'[s].ref)
      BY <3>2, <3>3 DEF ApprovedRef, LatestReview
    <3>5. sd'[s].clean => profile[t] = "fit"
      BY <3>1, <3>2 DEF GateReview, SendAt, EvaluationSoFar
    <3>6. QED BY <2>3, <3>1, <3>4, <3>5, <1>2, <1>3
  <2>4. CASE sd'[s].pc = "newest"
    <3>1. GateRevision(s) /\ sd'[s].tgt = t
      BY <2>1, <2>4, SenderMoves
    <3>2. /\ sd'[s].ref = v
          /\ sd'[s].clean => sd[s].clean /\ revisions[t][v].passed
      BY <3>1 DEF GateRevision, Check, TypeOK, SendingTypeOK, SenderLocal
    <3>3. ApprovedRef(t, v) /\ (sd[s].clean => profile[t] = "fit")
      BY <3>1 DEF GateRevision, SendAt, EvaluationSoFar
    <3>4. QED BY <2>4, <3>1, <3>2, <3>3, <1>2, <1>3, <1>4
  <2>5. CASE sd'[s].pc = "record" /\ sd'[s].clean
    <3>1. GateNewest(s) /\ sd'[s].tgt = t
      BY <2>1, <2>5, SenderMoves
    <3>2. sd'[s].ref = v /\ sd[s].clean
      BY <2>5, <3>1 DEF GateNewest, Check, TypeOK, SendingTypeOK, SenderLocal
    <3>3. ApprovedRef(t, v) /\ profile[t] = "fit" /\ revisions[t][v].passed
      BY <3>1, <3>2 DEF GateNewest, SendAt, EvaluationSoFar
    <3>4. QED BY <2>5, <3>1, <3>2, <3>3, <1>2, <1>3, <1>4
  <2>6. QED BY <2>2, <2>3, <2>4, <2>5
<1>7. QED BY <1>5, <1>6

\* Every gate row appended with allowed = TRUE was earned.
LEMMA AllowanceWasEarnedStep ==
  ASSUME TypeOK, RefsExist, GateRunsOnce, EvaluationSoFar, AllowanceWasEarned, [Next]_vars
  PROVE  AllowanceWasEarned'
<1> DEFINE Earned(row) == /\ profile[row.target] = "fit"
                          /\ row.verified \in DOMAIN revisions[row.target]
                          /\ revisions[row.target][row.verified].passed
                          /\ ApprovedRef(row.target, row.verified)
<1> SUFFICES ASSUME NEW i \in DOMAIN gateLog', gateLog'[i].allowed
             PROVE  LET t == gateLog'[i].target
                        v == gateLog'[i].verified
                    IN  /\ profile'[t] = "fit"
                        /\ v \in DOMAIN revisions'[t]
                        /\ revisions'[t][v].passed
                        /\ \E j \in DOMAIN reviews'[t] :
                               /\ reviews'[t][j].decision \in APPROVAL_DECISIONS
                               /\ reviews'[t][j].revision = v
  BY DEF AllowanceWasEarned
<1>1. gateLog \in Seq(GateRow)
  BY DEF TypeOK, DBTypeOK
<1>2. gateLog'[i].target \in Target /\ Earned(gateLog'[i])
  <2>1. CASE gateLog' = gateLog
    <3>1. gateLog'[i] = gateLog[i] /\ gateLog[i] \in GateRow /\ i \in DOMAIN gateLog
      BY <1>1, <2>1
    <3>2. QED BY <3>1 DEF AllowanceWasEarned, ApprovedRef, GateRow
  <2>2. CASE gateLog' # gateLog
    <3>1. PICK s \in Sender : RecordGate(s)
      BY <2>2, GateLogGrows
    <3>2. gateLog' = Append(gateLog, [target |-> sd[s].tgt, allowed |-> sd[s].clean,
                                      verified |-> sd[s].ref])
      BY <3>1 DEF RecordGate
    <3>3. CASE i \in DOMAIN gateLog
      <4>1. gateLog'[i] = gateLog[i] /\ gateLog[i] \in GateRow
        BY <1>1, <3>2, <3>3
      <4>2. QED BY <3>3, <4>1 DEF AllowanceWasEarned, ApprovedRef, GateRow
    <3>4. CASE i \notin DOMAIN gateLog
      <4>1. gateLog'[i] = [target |-> sd[s].tgt, allowed |-> sd[s].clean,
                           verified |-> sd[s].ref]
        BY <1>1, <3>2, <3>4
      <4>2. /\ profile[sd[s].tgt] = "fit" /\ ApprovedRef(sd[s].tgt, sd[s].ref)
            /\ revisions[sd[s].tgt][sd[s].ref].passed
        BY <3>1, <4>1 DEF RecordGate, SendAt, EvaluationSoFar
      <4>3. sd[s].tgt \in Target
        BY DEF TypeOK, SendingTypeOK, SenderLocal
      <4>4. sd[s].ref \in DOMAIN revisions[sd[s].tgt]
        BY <4>2, <4>3 DEF ApprovedRef, RefsExist
      <4>5. QED BY <4>1, <4>2, <4>3, <4>4
    <3>5. QED BY <3>3, <3>4
  <2>3. QED BY <2>1, <2>2
<1>3. QED
  <2> DEFINE t == gateLog'[i].target
             v == gateLog'[i].verified
  <2>1. PICK j \in DOMAIN reviews[t] : /\ reviews[t][j].decision \in APPROVAL_DECISIONS
                                       /\ reviews[t][j].revision = v
    BY <1>2 DEF ApprovedRef
  <2>2. j \in DOMAIN reviews'[t] /\ reviews'[t][j] = reviews[t][j]
    BY <1>2, RowsStay
  <2>3. profile'[t] = "fit" /\ v \in DOMAIN revisions'[t] /\ revisions'[t][v].passed
    BY <1>2, RowsStay
  <2>4. QED BY <2>1, <2>2, <2>3

\* The place of a sender tells which of its artifacts exist.
LEMMA SendOrderStep ==
  ASSUME TypeOK, RefsExist, GateRunsOnce, EvaluationSoFar, SendOrder, [Next]_vars
  PROVE  SendOrder'
<1> SUFFICES ASSUME NEW s \in Sender
             PROVE  /\ sd'[s].pc \in {"reread", "file", "message"} => reviews'[sd'[s].tgt] # <<>>
                    /\ sd'[s].pc = "message" => Artifact(s)' \in outbox'
                    /\ sd'[s].pc = "move" => \E m \in messages' : m.target = sd'[s].tgt
  BY DEF SendOrder, SendAt
<1>1. sd[s].tgt \in Target
  BY DEF TypeOK, SendingTypeOK, SenderLocal
<1>2. outbox \subseteq outbox' /\ messages \subseteq messages'
  BY <1>1, RowsStay
<1>3. reviews[sd[s].tgt] # <<>> => reviews'[sd[s].tgt] # <<>>
  <2>1. reviews[sd[s].tgt] \in Seq(ReviewRow)
    BY <1>1 DEF TypeOK, DBTypeOK
  <2>2. ASSUME reviews[sd[s].tgt] # <<>> PROVE 1 \in DOMAIN reviews'[sd[s].tgt]
    <3>1. 1 \in DOMAIN reviews[sd[s].tgt]
      BY <2>1, <2>2
    <3>2. QED BY <3>1, <1>1, RowsStay
  <2>3. QED BY <2>2
<1>4. CASE sd'[s] = sd[s]
  BY <1>2, <1>3, <1>4 DEF SendOrder, SendAt, Artifact
<1>5. CASE sd'[s] # sd[s]
  <2>1. SendStep(s)
    BY <1>5, SenderActs
  <2>2. CASE sd'[s].pc = "reread"
    <3>1. RecordGate(s) /\ sd[s].clean /\ sd'[s].tgt = sd[s].tgt
      BY <2>1, <2>2, SenderMoves
    <3>2. \E j \in DOMAIN reviews[sd[s].tgt] : TRUE
      BY <3>1 DEF RecordGate, SendAt, EvaluationSoFar, ApprovedRef
    <3>3. QED BY <2>2, <3>1, <3>2, <1>3
  <2>3. CASE sd'[s].pc = "file"
    <3>1. RereadReview(s) /\ sd'[s].tgt = sd[s].tgt
      BY <2>1, <2>3, SenderMoves
    <3>2. QED BY <2>3, <3>1, <1>3 DEF RereadReview, SendAt, SendOrder
  <2>4. CASE sd'[s].pc = "message"
    <3>1. WriteArtifact(s) /\ sd'[s].tgt = sd[s].tgt
      BY <2>1, <2>4, SenderMoves
    <3>2. Artifact(s) \in outbox'
      BY <3>1 DEF WriteArtifact
    <3>3. Artifact(s)' = Artifact(s)
      BY <3>1 DEF WriteArtifact, SendGoto, Artifact, TypeOK, SendingTypeOK, SenderLocal
    <3>4. QED BY <2>4, <3>1, <3>2, <3>3, <1>3 DEF WriteArtifact, SendAt, SendOrder
  <2>5. CASE sd'[s].pc = "move"
    <3>1. InsertMessage(s) /\ sd'[s].tgt = sd[s].tgt
      BY <2>1, <2>5, SenderMoves
    <3>2. Artifact(s) \in messages' /\ Artifact(s).target = sd[s].tgt
      BY <3>1 DEF InsertMessage, Artifact
    <3>3. QED BY <2>5, <3>1, <3>2
  <2>6. QED BY <2>2, <2>3, <2>4, <2>5
<1>6. QED BY <1>4, <1>5

\* The only way into dry_run_sent follows the message row.
LEMMA SentHasEvidenceStep ==
  ASSUME TypeOK, RefsExist, GateRunsOnce, SendOrder, SentHasEvidence, [Next]_vars
  PROVE  SentHasEvidence'
<1>1. messages' \subseteq outbox'
  <2>1. \E t \in Target : TRUE
    BY TargetAssumption
  <2>2. messages \subseteq outbox /\ outbox \subseteq outbox'
    BY <2>1, RowsStay DEF SentHasEvidence
  <2>3. CASE messages' = messages
    BY <2>2, <2>3
  <2>4. CASE messages' # messages
    <3>1. PICK s \in Sender : InsertMessage(s)
      BY <2>4, MessagesGrow
    <3>2. messages' = messages \cup {Artifact(s)} /\ Artifact(s) \in outbox
      BY <3>1 DEF InsertMessage, SendOrder
    <3>3. QED BY <2>2, <3>2
  <2>5. QED BY <2>3, <2>4
<1>2. ASSUME NEW t \in Target, tstate'[t] = "dry_run_sent"
      PROVE  \E m \in messages' : m.target = t
  <2>1. CASE tstate[t] = "dry_run_sent"
    BY <2>1, RowsStay DEF SentHasEvidence
  <2>2. CASE tstate[t] # "dry_run_sent"
    <3>1. PICK s \in Sender : MoveSent(s) /\ sd[s].tgt = t
      BY <1>2, <2>2, SentBySend
    <3>2. \E m \in messages : m.target = t
      BY <3>1 DEF MoveSent, SendOrder
    <3>3. QED BY <3>2, RowsStay
  <2>3. QED BY <2>1, <2>2
<1>3. QED BY <1>1, <1>2 DEF SentHasEvidence

-----------------------------------------------------------------------------
\* Init: nothing has been decided or sent.
LEMMA InvInit == Init => Inv
<1> SUFFICES ASSUME Init PROVE Inv
  OBVIOUS
<1>1. TypeOK
  BY TypeInit
<1>2. /\ tstate = [t \in Target |-> "awaiting_review"]
      /\ reviews = [t \in Target |-> <<>>]
      /\ gateLog = <<>> /\ messages = {}
      /\ \A r \in Reviewer : rv[r].pc = "idle"
      /\ \A s \in Sender : sd[s].pc = "idle"
  BY DEF Init, DBInit, ReviewInit, SendingInit, IdleReviewer, IdleSender
<1>3. RefsExist /\ DecidedFirst /\ GateRunsOnce /\ EvaluationSoFar /\ SendOrder
  BY <1>2 DEF RefsExist, Pending, DecidedFirst, At, GateRunsOnce, EvaluationSoFar, SendOrder, SendAt
<1>4. ApprovedWasDecided /\ AllowanceWasEarned /\ SentHasEvidence
  BY <1>2 DEF ApprovedWasDecided, AllowanceWasEarned, SentHasEvidence
<1>5. QED BY <1>1, <1>3, <1>4 DEF Inv

\* Every step preserves the conjunction.
LEMMA InvStep == Inv /\ [Next]_vars => Inv'
  BY TypeStep, RefsExistStep, DecidedFirstStep, ApprovedWasDecidedStep, GateRunsOnceStep,
     EvaluationSoFarStep, AllowanceWasEarnedStep, SendOrderStep, SentHasEvidenceStep
  DEF Inv

\* However many reviewers and senders run side by side, and wherever they are
\* cut off, the inductive invariant of the send path holds.
THEOREM Invariance == Spec => []Inv
  BY InvInit, InvStep, PTL DEF Spec

\* Every row and every local of the review and send code keeps its type.
THEOREM TypeCorrect == Spec => []TypeOK
<1>1. Inv => TypeOK
  BY DEF Inv
<1>2. QED BY <1>1, Invariance, PTL

\* record_review_decision() never leaves an approved target without a
\* recorded approval, whatever is cut off and whoever decides at once.
THEOREM ApprovalIsRecorded == Spec => []ApprovedWasDecided
<1>1. Inv => ApprovedWasDecided
  BY DEF Inv
<1>2. QED BY <1>1, Invariance, PTL

\* evaluate_send_gate() never records an allowance for a revision without an
\* approval of its own and passed content checks, although its reads are
\* spread over the steps of the other processes.
THEOREM AllowanceIsEarned == Spec => []AllowanceWasEarned
<1>1. Inv => AllowanceWasEarned
  BY DEF Inv
<1>2. QED BY <1>1, Invariance, PTL

\* send_email() never leaves a sent target without its message row, or a
\* message row without its artifact.
THEOREM SendLeavesEvidence == Spec => []SentHasEvidence
<1>1. Inv => SentHasEvidence
  BY DEF Inv
<1>2. QED BY <1>1, Invariance, PTL
=============================================================================
