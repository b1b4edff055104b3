------------------------- MODULE ConversationProofs -------------------------
(***************************************************************************)
(* Over the whole cycle, with any number of processes of every stage side  *)
(* by side, a suppressed target is listed, every row has its type and the  *)
(* follow-ups stay in their cap; and when the stages take turns, a listed  *)
(* contact gets no further message and an approval names the latest        *)
(* revision.                                                               *)
(***************************************************************************)
EXTENDS ConversationInvariants, SequenceTheorems, FiniteSetTheorems, TLAPS

\* The locals of idle processes are well typed.
LEMMA IdleLocals ==
  /\ IdleReviewer \in ReviewerLocal
  /\ IdleDrafter \in DrafterLocal
  /\ IdleReplier \in ReplierLocal
<1>1. (CHOOSE t \in Target : TRUE) \in Target
  BY TargetAssumption
<1>2. <<>> \in Seq(Target \X Nat)
  OBVIOUS
<1>3. QED
  BY <1>1, <1>2 DEF IdleReviewer, ReviewerLocal, ReviewPC, Decision, IdleDrafter,
     DrafterLocal, DraftPC, IdleReplier, ReplierLocal, ReplyPC, RoutedAction, State

\* A row appended to one of a family of row sequences.
LEMMA AppendedRow ==
  ASSUME NEW Row, NEW rows \in [Target -> Seq(Row)], NEW t \in Target, NEW row \in Row
  PROVE  /\ [rows EXCEPT ![t] = Append(@, row)] \in [Target -> Seq(Row)]
         /\ DOMAIN Append(rows[t], row) = DOMAIN rows[t] \cup {Len(rows[t]) + 1}
         /\ \A i \in DOMAIN rows[t] : Append(rows[t], row)[i] = rows[t][i]
         /\ Append(rows[t], row)[Len(rows[t]) + 1] = row
         /\ Len(rows[t]) + 1 \notin DOMAIN rows[t]
<1>1. rows[t] \in Seq(Row)
  OBVIOUS
<1>2. Append(rows[t], row) \in Seq(Row)
  BY <1>1, AppendProperties
<1>3. QED BY <1>1, <1>2, AppendProperties

\* One row of such a family rewritten.
LEMMA RewrittenRow ==
  ASSUME NEW Row, NEW rows \in [Target -> Seq(Row)], NEW t \in Target,
         NEW i \in DOMAIN rows[t], NEW row \in Row
  PROVE  [rows EXCEPT ![t] = [@ EXCEPT ![i] = row]] \in [Target -> Seq(Row)]
<1>1. [rows[t] EXCEPT ![i] = row] \in Seq(Row)
  BY ExceptSeq
<1>2. QED BY <1>1

\* A revision whose gate columns are written.
LEMMA JudgedRevision ==
  ASSUME NEW revs \in [Target -> Seq(Revision)], NEW t \in Target, NEW i \in Nat,
         NEW b \in BOOLEAN, NEW new, new = [revs EXCEPT ![t][i].passed = b]
  PROVE  /\ new \in [Target -> Seq(Revision)]
         /\ \A u \in Target : DOMAIN new[u] = DOMAIN revs[u]
<1>1. /\ DOMAIN new = Target
      /\ \A u \in Target \ {t} : new[u] = revs[u]
      /\ new[t] = [revs[t] EXCEPT ![i].passed = b]
  OBVIOUS
<1>2. CASE i \in DOMAIN revs[t]
  <2>1. revs[t] \in Seq(Revision) /\ revs[t][i] \in Revision
    BY <1>2
  <2>2. [revs[t][i] EXCEPT !.passed = b] \in Revision
    BY <2>1 DEF Revision
  <2>3. [revs[t] EXCEPT ![i] = [revs[t][i] EXCEPT !.passed = b]] \in Seq(Revision)
    BY <1>2, <2>1, <2>2, ExceptSeq
  <2>4. new[t] = [revs[t] EXCEPT ![i] = [revs[t][i] EXCEPT !.passed = b]]
    BY <1>1
  <2>5. new[t] \in Seq(Revision) /\ DOMAIN new[t] = DOMAIN revs[t]
    BY <2>1, <2>3, <2>4
  <2>6. new = [u \in Target |-> new[u]]
    OBVIOUS
  <2>7. QED BY <1>1, <2>5, <2>6
<1>3. CASE i \notin DOMAIN revs[t]
  <2>1. new[t] = revs[t]
    BY <1>1, <1>3
  <2>2. QED BY <1>1, <2>1
<1>4. QED BY <1>2, <1>3

-----------------------------------------------------------------------------
\* Steps that leave reply rows and repliers alone and list, if anything, more.
LEMMA QuietStep ==
  ASSUME ListInv, UNCHANGED <<replies, rp>>, emailSupp \subseteq emailSupp'
  PROVE  /\ RowAtHand' /\ ReplyLists' /\ QueueIsOpen' /\ RowsAreOwned'
         /\ \A t \in Target : Listed(t) => Listed(t)'
<1>1. \A t \in Target : Listed(t) => Listed(t)'
  BY DEF Listed
<1>2. RowAtHand' /\ QueueIsOpen'
  BY DEF ListInv, RowAtHand, QueueIsOpen
<1>3. ReplyLists'
  BY <1>1 DEF ListInv, ReplyLists, ListTypes, ReplyingTypeOK, ReplierLocal
<1>4. RowsAreOwned'
  BY DEF ListInv, RowsAreOwned, Holds
<1>5. QED BY <1>1, <1>2, <1>3, <1>4

\* A target becomes suppressed only when it is listed.
LEMMA MoveKeeps ==
  ASSUME ListInv, \A t \in Target : Listed(t) => Listed(t)',
         NEW t \in Target, NEW to \in State, to = "suppressed" => Listed(t),
         tstate' = [tstate EXCEPT ![t] = to]
  PROVE  SuppressedIsListed' /\ tstate' \in [Target -> State]
  BY DEF ListInv, ListTypes, SuppressedIsListed, Listed

\* A state that stays keeps the property.
LEMMA StayKeeps ==
  ASSUME ListInv, \A t \in Target : Listed(t) => Listed(t)', UNCHANGED tstate
  PROVE  SuppressedIsListed' /\ tstate' \in [Target -> State]
  BY DEF ListInv, ListTypes, SuppressedIsListed, Listed

-----------------------------------------------------------------------------
\* Where a reviewer may stand: what its decision has done to the list by then.
ReviewerStands(l, listed, revs) ==
    /\ l.pc \in {"edit", "gate"} => l.dec = "approve_with_edits"
    /\ l.pc \in {"decide", "move", "audit"} /\ l.dec = "reject_and_suppress" => l.tgt \in listed
    /\ l.pc = "edit" => l.ref \in DOMAIN revs[l.tgt]

\* What one step of a reviewer does.
ReviewEffect(r) ==
    /\ emailSupp \subseteq emailSupp'
    /\ rv' = [rv EXCEPT ![r] = rv'[r]]
    /\ rv'[r] \in ReviewerLocal
    /\ ReviewerStands(rv'[r], emailSupp', revisions')
    /\ revisions' \in [Target -> Seq(Revision)]
    /\ \A t \in Target : DOMAIN revisions[t] \subseteq DOMAIN revisions'[t]
    /\ \/ UNCHANGED tstate
       \/ \E t \in Target, to \in State :
              /\ tstate' = [tstate EXCEPT ![t] = to]
              /\ to = "suppressed" => t \in emailSupp

LEMMA ReviewEffects ==
  ASSUME ListInv, NEW r \in Reviewer, ReviewStep(r)
  PROVE  ReviewEffect(r)
<1> DEFINE l == rv[r]
<1>0. /\ l \in ReviewerLocal /\ ReviewerStands(l, emailSupp, revisions)
      /\ rv \in [Reviewer -> ReviewerLocal]
      /\ revisions \in [Target -> Seq(Revision)]
      /\ IdleReviewer \in ReviewerLocal
  BY IdleLocals DEF ListInv, ListTypes, ReviewTypeOK, ReviewLists, ReviewerStands
<1>1. ASSUME UNCHANGED <<emailSupp, revisions, tstate>>, NEW m \in ReviewerLocal,
             ReviewerStands(m, emailSupp, revisions), rv' = [rv EXCEPT ![r] = m]
      PROVE  ReviewEffect(r)
  <2>1. rv'[r] = m
    BY <1>0, <1>1
  <2>2. QED BY <1>0, <1>1, <2>1 DEF ReviewEffect
<1>2. ASSUME Refuse(r) PROVE ReviewEffect(r)
  <2>1. ReviewerStands(IdleReviewer, emailSupp, revisions)
    BY DEF ReviewerStands, IdleReviewer
  <2>2. QED BY <1>0, <1>1, <1>2, <2>1 DEF Refuse, Return, dbVars
<1>3. ASSUME NEW t \in Target, NEW d \in Decision, Submit(r, t, d)
      PROVE  ReviewEffect(r)
  <2> DEFINE m == [pc |-> "state", tgt |-> t, dec |-> d, ref |-> 0]
  <2>1. m \in ReviewerLocal /\ ReviewerStands(m, emailSupp, revisions)
    BY DEF ReviewerLocal, ReviewPC, ReviewerStands
  <2>2. QED BY <1>1, <1>3, <2>1 DEF Submit, dbVars
\* A move of the program counter that changes nothing else.
<1>4. ASSUME NEW pc \in ReviewPC, rv' = [rv EXCEPT ![r].pc = pc]
      PROVE  /\ rv' = [rv EXCEPT ![r] = [l EXCEPT !.pc = pc]]
             /\ [l EXCEPT !.pc = pc] \in ReviewerLocal
  BY <1>0, <1>4 DEF ReviewerLocal
<1>5. CASE CheckState(r)
  <2>1. CASE Goto(r, "switch") /\ UNCHANGED dbVars
    <3>1. ReviewerStands([l EXCEPT !.pc = "switch"], emailSupp, revisions)
      BY <1>0 DEF ReviewerStands, ReviewerLocal
    <3>2. QED BY <1>1, <1>4, <2>1, <3>1 DEF Goto, dbVars, ReviewPC
  <2>2. QED BY <1>2, <1>5, <2>1 DEF CheckState
<1>6. CASE CheckSwitch(r)
  <2>1. CASE Goto(r, "latest") /\ UNCHANGED dbVars
    <3>1. ReviewerStands([l EXCEPT !.pc = "latest"], emailSupp, revisions)
      BY <1>0 DEF ReviewerStands, ReviewerLocal
    <3>2. QED BY <1>1, <1>4, <2>1, <3>1 DEF Goto, dbVars, ReviewPC
  <2>2. QED BY <1>2, <1>6, <2>1 DEF CheckSwitch
<1>7. CASE ReadLatest(r)
  <2>1. ASSUME NEW pc \in {"edit", "listed", "decide"}, NEW i \in DOMAIN revisions[l.tgt],
               pc = CASE l.dec = "approve_with_edits" -> "edit"
                      [] l.dec = "reject_and_suppress" -> "listed"
                      [] OTHER -> "decide",
               rv' = [rv EXCEPT ![r].pc = pc, ![r].ref = i], UNCHANGED dbVars
        PROVE  ReviewEffect(r)
    <3> DEFINE m == [l EXCEPT !.pc = pc, !.ref = i]
    <3>1. i \in Nat
      BY <1>0, <2>1 DEF ReviewerLocal
    <3>2. m \in ReviewerLocal
      BY <1>0, <2>1, <3>1 DEF ReviewerLocal, ReviewPC
    <3>3. ReviewerStands(m, emailSupp, revisions)
      BY <1>0, <2>1 DEF ReviewerStands, ReviewerLocal
    <3>4. rv' = [rv EXCEPT ![r] = m]
      BY <1>0, <2>1
    <3>5. QED BY <1>1, <2>1, <3>2, <3>3, <3>4 DEF dbVars
  <2>2. QED BY <1>2, <1>7, <2>1 DEF ReadLatest
<1>8. CASE InsertEdit(r)
  <2> DEFINE t == l.tgt
             row == [num |-> revisions[t][l.ref].num + 1, passed |-> FALSE]
             m == [l EXCEPT !.pc = "gate", !.ref = Len(revisions[t]) + 1]
  <2>1. t \in Target /\ l.ref \in DOMAIN revisions[t] /\ revisions[t] \in Seq(Revision)
    BY <1>0, <1>8 DEF InsertEdit, At, ReviewerStands, ReviewerLocal
  <2>2. revisions[t][l.ref] \in Revision
    BY <2>1
  <2>3. row \in Revision
    BY <2>2 DEF Revision
  <2>4. revisions' = [revisions EXCEPT ![t] = Append(@, row)]
    BY <1>8 DEF InsertEdit
  <2>5. /\ revisions' \in [Target -> Seq(Revision)]
        /\ \A u \in Target : DOMAIN revisions[u] \subseteq DOMAIN revisions'[u]
    <3> HIDE DEF row, t
    <3> QED BY <1>0, <2>1, <2>3, <2>4, AppendedRow
  <2>6. Len(revisions[t]) + 1 \in Nat
    BY <2>1
  <2>7. m \in ReviewerLocal /\ ReviewerStands(m, emailSupp, revisions')
    BY <1>0, <1>8, <2>6 DEF ReviewerLocal, ReviewPC, ReviewerStands, InsertEdit, At
  <2>8. rv' = [rv EXCEPT ![r] = m] /\ rv'[r] = m
    BY <1>0, <1>8 DEF InsertEdit
  <2>9. UNCHANGED <<tstate, emailSupp>>
    BY <1>8 DEF InsertEdit
  <2>10. QED BY <2>5, <2>7, <2>8, <2>9 DEF ReviewEffect
<1>9. CASE RunDraftGate(r)
  <2>1. PICK b \in BOOLEAN : revisions' = [revisions EXCEPT ![l.tgt][l.ref].passed = b]
    BY <1>9 DEF RunDraftGate
  <2>2. /\ revisions' \in [Target -> Seq(Revision)]
        /\ \A u \in Target : DOMAIN revisions[u] \subseteq DOMAIN revisions'[u]
    BY <1>0, <2>1, JudgedRevision DEF ReviewerLocal
  <2> DEFINE m == [l EXCEPT !.pc = "decide"]
  <2>3. m \in ReviewerLocal /\ rv' = [rv EXCEPT ![r] = m] /\ rv'[r] = m
    BY <1>0, <1>4, <1>9 DEF RunDraftGate, Goto, ReviewPC
  <2>4. ReviewerStands(m, emailSupp, revisions')
    BY <1>0, <1>9 DEF ReviewerStands, ReviewerLocal, RunDraftGate, At
  <2>5. UNCHANGED <<tstate, emailSupp>>
    BY <1>9 DEF RunDraftGate
  <2>6. QED BY <2>2, <2>3, <2>4, <2>5 DEF ReviewEffect
<1>10. CASE CheckListed(r)
  <2> DEFINE pc == IF l.tgt \in emailSupp THEN "decide" ELSE "suppress"
  <2>1. ReviewerStands([l EXCEPT !.pc = pc], emailSupp, revisions)
    BY <1>0 DEF ReviewerStands, ReviewerLocal
  <2>2. pc \in ReviewPC /\ rv' = [rv EXCEPT ![r].pc = pc]
    BY <1>10 DEF CheckListed, Goto, ReviewPC
  <2>3. QED BY <1>1, <1>4, <1>10, <2>1, <2>2 DEF CheckListed, dbVars
<1>11. CASE InsertSuppression(r)
  <2> DEFINE m == [l EXCEPT !.pc = "decide"]
  <2>1. m \in ReviewerLocal /\ rv' = [rv EXCEPT ![r] = m] /\ rv'[r] = m
    BY <1>0, <1>4, <1>11 DEF InsertSuppression, Goto, ReviewPC
  <2>2. UNCHANGED <<tstate, revisions>> /\ emailSupp' = emailSupp \cup {l.tgt}
    BY <1>11 DEF InsertSuppression
  <2>3. ReviewerStands(m, emailSupp', revisions')
    BY <1>0, <2>2 DEF ReviewerStands, ReviewerLocal
  <2>4. QED BY <1>0, <2>1, <2>2, <2>3 DEF ReviewEffect
<1>12. CASE InsertReview(r)
  <2>1. ReviewerStands([l EXCEPT !.pc = "move"], emailSupp, revisions)
    BY <1>0, <1>12 DEF ReviewerStands, ReviewerLocal, InsertReview, At
  <2>2. QED BY <1>1, <1>4, <1>12, <2>1 DEF InsertReview, Goto, ReviewPC
<1>13. CASE MoveDecided(r)
  <2> DEFINE m == [l EXCEPT !.pc = "audit"]
             to == DecisionTransition(l.dec)
  <2>1. m \in ReviewerLocal /\ rv' = [rv EXCEPT ![r] = m] /\ rv'[r] = m
    BY <1>0, <1>4, <1>13 DEF MoveDecided, Goto, ReviewPC
  <2>2. ReviewerStands(m, emailSupp, revisions)
    BY <1>0, <1>13 DEF ReviewerStands, ReviewerLocal, MoveDecided, At
  <2>3. UNCHANGED <<revisions, emailSupp>> /\ tstate' = [tstate EXCEPT ![l.tgt] = to]
    BY <1>13 DEF MoveDecided, UpdateState
  <2>4. l.tgt \in Target /\ l.dec \in Decision
    BY <1>0 DEF ReviewerLocal
  <2>5. to \in State /\ (to = "suppressed" => l.dec = "reject_and_suppress")
    BY <2>4 DEF Decision, DecisionTransition, APPROVAL_DECISIONS, State
  <2>6. to = "suppressed" => l.tgt \in emailSupp
    BY <1>0, <1>13, <2>5 DEF ReviewerStands, MoveDecided, At
  <2> HIDE DEF to
  <2>7. QED BY <1>0, <2>1, <2>2, <2>3, <2>4, <2>5, <2>6 DEF ReviewEffect
<1>14. CASE AuditDecided(r)
  BY <1>0, <1>1, <1>14 DEF AuditDecided, Return, IdleReviewer, ReviewerStands
<1>15. CASE CutReview(r)
  BY <1>2, <1>15 DEF CutReview
<1>16. QED
  BY <1>3, <1>5, <1>6, <1>7, <1>8, <1>9, <1>10, <1>11, <1>12, <1>13, <1>14, <1>15
  DEF ReviewStep

LEMMA ReviewKeeps ==
  ASSUME ListInv, NEW r \in Reviewer, ReviewTurn(r)
  PROVE  ListInv'
<1>1. ReviewEffect(r) /\ UNCHANGED <<replies, inbox, dr, rp>>
  BY ReviewEffects DEF ReviewTurn
<1>2. /\ RowAtHand' /\ ReplyLists' /\ QueueIsOpen' /\ RowsAreOwned'
      /\ \A t \in Target : Listed(t) => Listed(t)'
  BY <1>1, QuietStep DEF ReviewEffect
<1>3. SuppressedIsListed' /\ tstate' \in [Target -> State]
  <2>1. CASE UNCHANGED tstate
    BY <1>2, <2>1, StayKeeps
  <2>2. ASSUME NEW t \in Target, NEW to \in State, tstate' = [tstate EXCEPT ![t] = to],
               to = "suppressed" => t \in emailSupp
        PROVE  SuppressedIsListed' /\ tstate' \in [Target -> State]
    <3>1. to = "suppressed" => Listed(t)
      BY <2>2 DEF Listed
    <3>2. QED BY <1>2, <2>2, <3>1, MoveKeeps
  <2>3. QED BY <1>1, <2>1, <2>2 DEF ReviewEffect
<1>4. rv \in [Reviewer -> ReviewerLocal]
  BY DEF ListInv, ListTypes, ReviewTypeOK
<1>5. /\ \A q \in Reviewer : q # r => rv'[q] = rv[q]
      /\ rv' \in [Reviewer -> ReviewerLocal]
  BY <1>1, <1>4 DEF ReviewEffect
<1>6. ListTypes'
  <2>1. \A q \in Reviewer : rv'[q].pc = "edit" => rv'[q].ref \in DOMAIN revisions'[rv'[q].tgt]
    <3>1. \A q \in Reviewer : q # r => rv'[q].tgt \in Target
      BY <1>4, <1>5 DEF ReviewerLocal
    <3>2. QED
      BY <1>1, <1>5, <3>1 DEF ReviewEffect, ReviewerStands, ListInv, ListTypes
  <2>2. ConversationTypeOK' /\ ReviewTypeOK' /\ DraftingTypeOK' /\ ReplyingTypeOK'
    BY <1>1, <1>5 DEF ListInv, ListTypes, ConversationTypeOK, ReviewTypeOK,
       DraftingTypeOK, ReplyingTypeOK
  <2>3. QED BY <1>1, <1>3, <2>1, <2>2 DEF ReviewEffect, ListInv, ListTypes
<1>7. ReviewLists'
  BY <1>1, <1>5 DEF ReviewEffect, ReviewerStands, ListInv, ReviewLists
<1>8. QED BY <1>2, <1>3, <1>6, <1>7 DEF ListInv

-----------------------------------------------------------------------------
\* Steps of the draft and send stages: they write revisions and states.
LEMMA OtherStage ==
  ASSUME ListInv, UNCHANGED <<emailSupp, replies, inbox, rv, rp>>, DraftingTypeOK',
         revisions' \in [Target -> Seq(Revision)],
         \A t \in Target : DOMAIN revisions[t] \subseteq DOMAIN revisions'[t],
         SuppressedIsListed' /\ tstate' \in [Target -> State]
  PROVE  ListInv'
<1>1. RowAtHand' /\ ReplyLists' /\ QueueIsOpen' /\ RowsAreOwned'
  BY QuietStep
<1>2. \A r \in Reviewer : rv[r].tgt \in Target
  BY DEF ListInv, ListTypes, ReviewTypeOK, ReviewerLocal
<1>3. ListTypes'
  BY <1>2 DEF ListInv, ListTypes, ConversationTypeOK, ReviewTypeOK, ReplyingTypeOK
<1>4. ReviewLists'
  BY DEF ListInv, ReviewLists
<1>5. QED BY <1>1, <1>3, <1>4 DEF ListInv

\* A process of another stage takes a target to some other state, or to none.
LEMMA StatesMove ==
  ASSUME ListInv, UNCHANGED <<emailSupp, revisions, replies, inbox, rv, rp>>,
         DraftingTypeOK', NEW t \in Target, NEW to \in State \ {"suppressed"},
         \/ UNCHANGED tstate
         \/ tstate' = [tstate EXCEPT ![t] = to]
  PROVE  ListInv'
<1>1. \A u \in Target : Listed(u) => Listed(u)'
  BY QuietStep
<1>2. SuppressedIsListed' /\ tstate' \in [Target -> State]
  BY <1>1, MoveKeeps, StayKeeps
<1>3. QED BY <1>2, OtherStage DEF ListInv, ListTypes

LEMMA SendKeeps ==
  ASSUME ListInv, NEW s \in Sender, SendTurn(s)
  PROVE  ListInv'
<1>1. SendStep(s) /\ UNCHANGED <<replies, inbox, rv, dr, rp>>
  BY DEF SendTurn
<1>2. UNCHANGED <<emailSupp, revisions>>
  BY <1>1 DEF SendStep, Select, ReadTarget, EndBatch, GateSwitch, GateEmail, GateDomain,
     GateReview, GateRevision, GateNewest, RecordGate, RereadReview, WriteArtifact,
     InsertMessage, MoveSent, AuditSent, LogSend, RaiseInSend, ReadDied, MoveFailed,
     AuditFailed, RaiseInBookkeeping, CutSend, Check, dbVars
<1>3. \/ UNCHANGED tstate
      \/ MoveSent(s) \/ MoveFailed(s)
  BY <1>1 DEF SendStep, Select, ReadTarget, EndBatch, GateSwitch, GateEmail, GateDomain,
     GateReview, GateRevision, GateNewest, RecordGate, RereadReview, WriteArtifact,
     InsertMessage, AuditSent, LogSend, RaiseInSend, ReadDied,
     AuditFailed, RaiseInBookkeeping, CutSend, Check, dbVars
<1>4. DraftingTypeOK'
  BY <1>1 DEF ListInv, ListTypes, DraftingTypeOK
\* The target moved need not be known to be one: no other row is.
<1>5. PICK to \in {"dry_run_sent", "failed"} :
          \/ UNCHANGED tstate
          \/ tstate' = [tstate EXCEPT ![sd[s].tgt] = to]
  BY <1>3 DEF MoveSent, MoveFailed, UpdateState
<1>6. CASE sd[s].tgt \in Target
  BY <1>1, <1>2, <1>4, <1>5, <1>6, StatesMove DEF State
<1>7. CASE sd[s].tgt \notin Target
  <2>1. UNCHANGED tstate
    BY <1>5, <1>7 DEF ListInv, ListTypes
  <2>2. PICK t \in Target : TRUE
    BY TargetAssumption
  <2>3. QED BY <1>1, <1>2, <1>4, <2>1, <2>2, StatesMove DEF State
<1>8. QED BY <1>6, <1>7

-----------------------------------------------------------------------------
\* What one step of a drafter does.
DraftEffect(d) ==
    /\ UNCHANGED <<emailSupp, replies, inbox>>
    /\ DraftingTypeOK'
    /\ revisions' \in [Target -> Seq(Revision)]
    /\ \A t \in Target : DOMAIN revisions[t] \subseteq DOMAIN revisions'[t]
    /\ \/ UNCHANGED tstate
       \/ \E to \in {"drafted", "awaiting_review", "failed"} :
              tstate' = [tstate EXCEPT ![dr[d].tgt] = to]

LEMMA DraftEffects ==
  ASSUME ListInv, NEW d \in Drafter, DraftStep(d)
  PROVE  DraftEffect(d)
<1> DEFINE l == dr[d]
<1>0. /\ l \in DrafterLocal /\ dr \in [Drafter -> DrafterLocal]
      /\ revisions \in [Target -> Seq(Revision)]
      /\ tstate \in [Target -> State]
      /\ IdleDrafter \in DrafterLocal
  BY IdleLocals DEF ListInv, ListTypes, DraftingTypeOK
\* Steps whose only effect on these rows is a state.
<1>1. ASSUME UNCHANGED <<emailSupp, replies, inbox, revisions>>,
             NEW m \in DrafterLocal, dr' = [dr EXCEPT ![d] = m],
             \/ UNCHANGED tstate
             \/ \E to \in {"drafted", "awaiting_review", "failed"} :
                    tstate' = [tstate EXCEPT ![l.tgt] = to]
      PROVE  DraftEffect(d)
  BY <1>0, <1>1 DEF DraftEffect, DraftingTypeOK
<1>2. ASSUME NEW pc \in DraftPC, DraftGoto(d, pc)
      PROVE  /\ dr' = [dr EXCEPT ![d] = [l EXCEPT !.pc = pc]]
             /\ [l EXCEPT !.pc = pc] \in DrafterLocal
  BY <1>0, <1>2 DEF DraftGoto, DrafterLocal
<1>3. ASSUME NextDraft(d)
      PROVE  /\ dr' = [dr EXCEPT ![d] = [IdleDrafter EXCEPT !.pc = "next", !.queue = l.queue]]
             /\ [IdleDrafter EXCEPT !.pc = "next", !.queue = l.queue] \in DrafterLocal
  BY <1>0, <1>3 DEF NextDraft, DrafterLocal, DraftPC
<1>4. ASSUME UNCHANGED convVars, NEW pc \in DraftPC, DraftGoto(d, pc)
      PROVE  DraftEffect(d)
  BY <1>1, <1>2, <1>4 DEF convVars, dbVars
<1>5. ASSUME UNCHANGED convVars, NextDraft(d)
      PROVE  DraftEffect(d)
  BY <1>1, <1>3, <1>5 DEF convVars, dbVars
<1>6. ASSUME UNCHANGED convVars, NEW m \in DrafterLocal, dr' = [dr EXCEPT ![d] = m]
      PROVE  DraftEffect(d)
  BY <1>1, <1>6 DEF convVars, dbVars
<1>7. CASE SelectDrafts(d)
  <2>1. [l EXCEPT !.pc = "next", !.queue = Draftable] \in DrafterLocal
    BY <1>0 DEF DrafterLocal, DraftPC, Draftable
  <2>2. dr' = [dr EXCEPT ![d] = [l EXCEPT !.pc = "next", !.queue = Draftable]]
    BY <1>0, <1>7 DEF SelectDrafts
  <2>3. QED BY <1>6, <1>7, <2>1, <2>2 DEF SelectDrafts
<1>8. CASE ReadDraftTarget(d)
  <2>1. ASSUME NEW t \in l.queue, NEW pc \in {"enter", "reply"},
               dr' = [dr EXCEPT ![d].pc = pc, ![d].queue = @ \ {t},
                                ![d].tgt = t, ![d].from = tstate[t]]
        PROVE  DraftEffect(d)
    <3> DEFINE m == [l EXCEPT !.pc = pc, !.queue = l.queue \ {t}, !.tgt = t,
                              !.from = tstate[t]]
    <3>1. t \in Target /\ tstate[t] \in State
      BY <1>0, <2>1 DEF DrafterLocal
    <3>2. m \in DrafterLocal
      BY <1>0, <2>1, <3>1 DEF DrafterLocal, DraftPC
    <3>3. dr' = [dr EXCEPT ![d] = m]
      BY <1>0, <2>1
    <3>4. QED BY <1>6, <1>8, <3>2, <3>3 DEF ReadDraftTarget
  <2>2. ASSUME NEW t \in l.queue, dr' = [dr EXCEPT ![d].queue = @ \ {t}]
        PROVE  DraftEffect(d)
    <3>1. [l EXCEPT !.queue = l.queue \ {t}] \in DrafterLocal
      BY <1>0 DEF DrafterLocal
    <3>2. dr' = [dr EXCEPT ![d] = [l EXCEPT !.queue = l.queue \ {t}]]
      BY <1>0, <2>2
    <3>3. QED BY <1>6, <1>8, <3>1, <3>2 DEF ReadDraftTarget
  <2>3. QED BY <1>8, <2>1, <2>2 DEF ReadDraftTarget
<1>9. CASE EndDrafts(d)
  BY <1>0, <1>6, <1>9 DEF EndDrafts
<1>10. CASE ReadReply(d) \/ CheckCap(d) \/ EnterLoop(d)
  BY <1>4, <1>5, <1>10 DEF ReadReply, CheckCap, EnterLoop, RefuseDraft, DraftPC
<1>11. CASE Answer(d)
  BY <1>4, <1>5, <1>11 DEF Answer, DraftPC
<1>12. CASE MoveDrafted(d) \/ AuditDrafted(d) \/ MoveToReview(d) \/ AuditToReview(d)
            \/ MoveDraftFailed(d)
  BY <1>1, <1>2, <1>12 DEF MoveDrafted, AuditDrafted, MoveToReview, AuditToReview,
     MoveDraftFailed, UpdateState, DraftPC
<1>13. CASE AuditDraftFailed(d)
  BY <1>1, <1>3, <1>13 DEF AuditDraftFailed
<1>14. CASE InsertDraft(d)
  <2> DEFINE row == [num |-> l.round + 1, passed |-> FALSE]
  <2>1. l.tgt \in Target /\ row \in Revision /\ l.round + 1 \in Nat
    BY <1>0 DEF DrafterLocal, Revision
  <2>2. revisions' = [revisions EXCEPT ![l.tgt] = Append(@, row)]
    BY <1>14 DEF InsertDraft
  <2>3. /\ revisions' \in [Target -> Seq(Revision)]
        /\ \A t \in Target : DOMAIN revisions[t] \subseteq DOMAIN revisions'[t]
    <3> HIDE DEF row
    <3> QED BY <1>0, <2>1, <2>2, AppendedRow
  <2>4. PICK pc \in {"round", "finish"} :
            dr' = [dr EXCEPT ![d].pc = pc, ![d].round = @ + 1]
    BY <1>14 DEF InsertDraft
  <2>5. /\ dr' = [dr EXCEPT ![d] = [l EXCEPT !.pc = pc, !.round = l.round + 1]]
        /\ [l EXCEPT !.pc = pc, !.round = l.round + 1] \in DrafterLocal
    BY <1>0, <2>1, <2>4 DEF DrafterLocal, DraftPC
  <2>6. DraftingTypeOK'
    BY <1>0, <2>5 DEF DraftingTypeOK
  <2>7. QED BY <1>14, <2>3, <2>6 DEF InsertDraft, DraftEffect
<1>15. CASE PickLatest(d)
  <2>1. PICK i \in DOMAIN revisions[l.tgt] :
            dr' = [dr EXCEPT ![d].pc = "verdict", ![d].ref = i]
    BY <1>15 DEF PickLatest
  <2>2. i \in Nat
    BY <1>0, <2>1 DEF DrafterLocal
  <2>3. /\ dr' = [dr EXCEPT ![d] = [l EXCEPT !.pc = "verdict", !.ref = i]]
        /\ [l EXCEPT !.pc = "verdict", !.ref = i] \in DrafterLocal
    BY <1>0, <2>1, <2>2 DEF DrafterLocal, DraftPC
  <2>4. QED BY <1>6, <1>15, <2>3 DEF PickLatest
<1>16. CASE JudgeDraft(d)
  <2>1. /\ revisions' \in [Target -> Seq(Revision)]
        /\ \A t \in Target : DOMAIN revisions[t] \subseteq DOMAIN revisions'[t]
    <3>1. CASE UNCHANGED revisions
      BY <1>0, <3>1
    <3>2. ASSUME NEW b \in BOOLEAN,
                 revisions' = [revisions EXCEPT ![l.tgt][l.ref].passed = b]
          PROVE  /\ revisions' \in [Target -> Seq(Revision)]
                 /\ \A t \in Target : DOMAIN revisions[t] \subseteq DOMAIN revisions'[t]
      <4>1. l.tgt \in Target /\ l.ref \in Nat
        BY <1>0 DEF DrafterLocal
      <4>2. QED BY <1>0, <3>2, <4>1, JudgedRevision
    <3>3. QED BY <1>16, <3>1, <3>2 DEF JudgeDraft
  <2>2. DraftingTypeOK'
    BY <1>0, <1>3, <1>16 DEF JudgeDraft, DraftingTypeOK
  <2>3. QED BY <1>16, <2>1, <2>2 DEF JudgeDraft, DraftEffect
<1>17. CASE RaiseInDraft(d)
  <2>1. PICK b \in BOOLEAN : dr' = [dr EXCEPT ![d].pc = "died", ![d].caught = b]
    BY <1>17 DEF RaiseInDraft
  <2>2. /\ dr' = [dr EXCEPT ![d] = [l EXCEPT !.pc = "died", !.caught = b]]
        /\ [l EXCEPT !.pc = "died", !.caught = b] \in DrafterLocal
    BY <1>0, <2>1 DEF DrafterLocal, DraftPC
  <2>3. QED BY <1>6, <1>17, <2>2 DEF RaiseInDraft
<1>18. CASE ReadDraftDied(d)
  <2> DEFINE m == [l EXCEPT !.pc = "failmove", !.from = tstate[l.tgt]]
  <2>1. tstate[l.tgt] \in State
    BY <1>0 DEF DrafterLocal
  <2>2. dr' = [dr EXCEPT ![d] = m] /\ m \in DrafterLocal
    BY <1>0, <1>18, <2>1 DEF ReadDraftDied, DrafterLocal, DraftPC
  <2>3. QED BY <1>6, <1>18, <2>2 DEF ReadDraftDied
<1>19. CASE RaiseInDraftHandler(d)
  <2>1. CASE NextDraft(d)
    BY <1>5, <1>19, <2>1 DEF RaiseInDraftHandler
  <2>2. CASE dr' = [dr EXCEPT ![d].pc = "died", ![d].caught = TRUE]
    <3>1. /\ dr' = [dr EXCEPT ![d] = [l EXCEPT !.pc = "died", !.caught = TRUE]]
          /\ [l EXCEPT !.pc = "died", !.caught = TRUE] \in DrafterLocal
      BY <1>0, <2>2 DEF DrafterLocal, DraftPC
    <3>2. QED BY <1>6, <1>19, <3>1 DEF RaiseInDraftHandler
  <2>3. QED BY <1>19, <2>1, <2>2 DEF RaiseInDraftHandler
<1>20. CASE CutDraft(d)
  BY <1>0, <1>6, <1>20 DEF CutDraft
<1>21. QED
  BY <1>7, <1>8, <1>9, <1>10, <1>11, <1>12, <1>13, <1>14, <1>15, <1>16, <1>17,
     <1>18, <1>19, <1>20 DEF DraftStep

LEMMA DraftKeeps ==
  ASSUME ListInv, NEW d \in Drafter, DraftTurn(d)
  PROVE  ListInv'
<1>1. DraftEffect(d) /\ UNCHANGED <<rv, sd, rp>>
  BY DraftEffects DEF DraftTurn
<1>2. \A t \in Target : Listed(t) => Listed(t)'
  BY <1>1, QuietStep DEF DraftEffect
<1>3. dr[d].tgt \in Target
  BY DEF ListInv, ListTypes, DraftingTypeOK, DrafterLocal
<1>4. SuppressedIsListed' /\ tstate' \in [Target -> State]
  <2>1. CASE UNCHANGED tstate
    BY <1>2, <2>1, StayKeeps
  <2>2. ASSUME NEW to \in {"drafted", "awaiting_review", "failed"},
               tstate' = [tstate EXCEPT ![dr[d].tgt] = to]
        PROVE  SuppressedIsListed' /\ tstate' \in [Target -> State]
    BY <1>2, <1>3, <2>2, MoveKeeps DEF State
  <2>3. QED BY <1>1, <2>1, <2>2 DEF DraftEffect
<1>5. QED BY <1>1, <1>4, OtherStage DEF DraftEffect

-----------------------------------------------------------------------------
\* Listed, over given reply rows and a given list.
ListedIn(t, rows, listed) ==
    \/ t \in listed
    \/ \E i \in DOMAIN rows[t] : rows[t][i] = [action |-> "auto_suppress", own |-> FALSE]

\* Where a replier may stand.
ReplierStands(l, rows, listed) ==
    /\ l.pc \in OpenPC \cup SettledPC => l.row \in DOMAIN rows[l.tgt]
    /\ l.pc \in OpenPC => rows[l.tgt][l.row].action = "none"
    /\ l.pc \in {"route", "verdict"} \cup SettledPC => l.action # "none"
    /\ l.pc \in SettledPC => rows[l.tgt][l.row].action = l.action
    /\ l.pc \in {"listed", "unsubscribe"} => l.action = "auto_suppress"
    /\ l.pc \in {"supp", "suppaudit"} => ListedIn(l.tgt, rows, listed)
    /\ \A k \in DOMAIN l.queue :
           /\ l.queue[k][2] \in DOMAIN rows[l.queue[k][1]]
           /\ rows[l.queue[k][1]][l.queue[k][2]].action = "none"

LEMMA Standing ==
  /\ (RowAtHand /\ ReplyLists /\ QueueIsOpen) <=>
         \A p \in Replier : ReplierStands(rp[p], replies, emailSupp)
  /\ (\A p \in Replier : ReplierStands(rp'[p], replies', emailSupp')) =>
         (RowAtHand /\ ReplyLists /\ QueueIsOpen)'
<1>1. (RowAtHand /\ ReplyLists /\ QueueIsOpen) =>
          \A p \in Replier : ReplierStands(rp[p], replies, emailSupp)
  BY DEF RowAtHand, ReplyLists, QueueIsOpen, Listed, ReplierStands, ListedIn
<1>2. ASSUME \A p \in Replier : ReplierStands(rp[p], replies, emailSupp)
      PROVE  RowAtHand /\ ReplyLists /\ QueueIsOpen
  <2>1. RowAtHand
    BY <1>2 DEF RowAtHand, ReplierStands
  <2>2. ReplyLists
    BY <1>2 DEF ReplyLists, Listed, ReplierStands, ListedIn
  <2>3. QueueIsOpen
    BY <1>2 DEF QueueIsOpen, ReplierStands
  <2>4. QED BY <2>1, <2>2, <2>3
<1>3. ASSUME \A p \in Replier : ReplierStands(rp'[p], replies', emailSupp')
      PROVE  (RowAtHand /\ ReplyLists /\ QueueIsOpen)'
  <2>1. RowAtHand'
    BY <1>3 DEF RowAtHand, ReplierStands
  <2>2. ReplyLists'
    BY <1>3 DEF ReplyLists, Listed, ReplierStands, ListedIn
  <2>3. QueueIsOpen'
    BY <1>3 DEF QueueIsOpen, ReplierStands
  <2>4. QED BY <2>1, <2>2, <2>3
<1>4. QED BY <1>1, <1>2, <1>3

\* A replier between two replies, or handling a failure.
LEMMA StandsBetween ==
  ASSUME NEW l \in ReplierLocal, NEW rows, NEW listed, ReplierStands(l, rows, listed),
         NEW pc \in ReplyPC \ (OpenPC \cup SettledPC \cup {"supp", "suppaudit"})
  PROVE  ReplierStands([l EXCEPT !.pc = pc], rows, listed)
<1> DEFINE m == [l EXCEPT !.pc = pc]
<1>1. m.pc = pc /\ m.queue = l.queue
  BY DEF ReplierLocal
<1> HIDE DEF m
<1>2. ReplierStands(m, rows, listed)
  BY <1>1 DEF ReplierStands, OpenPC, SettledPC
<1>3. QED BY <1>2 DEF m

\* The step of a replier that writes no reply row, and leaves the replier with
\* the queue and the open row it had, or without.
LEMMA ReplyQuiet ==
  ASSUME ListInv, NEW p \in Replier, NEW m \in ReplierLocal,
         UNCHANGED <<replies, inbox, revisions, rv, dr>>, emailSupp \subseteq emailSupp',
         rp' = [rp EXCEPT ![p] = m],
         ReplierStands(m, replies, emailSupp'),
         m.queue = rp[p].queue \/ m.queue = <<>>,
         m.pc \in OpenPC => rp[p].pc \in OpenPC /\ m.tgt = rp[p].tgt /\ m.row = rp[p].row,
         SuppressedIsListed' /\ tstate' \in [Target -> State]
  PROVE  ListInv'
<1>1. rp \in [Replier -> ReplierLocal]
  BY DEF ListInv, ListTypes, ReplyingTypeOK
<1>2. rp'[p] = m /\ rp' \in [Replier -> ReplierLocal]
      /\ \A q \in Replier : q # p => rp'[q] = rp[q]
  BY <1>1
<1>3. \A q \in Replier : ReplierStands(rp'[q], replies', emailSupp')
  <2>1. \A q \in Replier : ReplierStands(rp[q], replies, emailSupp')
    BY Standing DEF ListInv, ReplierStands, ListedIn
  <2>2. QED BY <1>2, <2>1
<1>4. (RowAtHand /\ ReplyLists /\ QueueIsOpen)'
  BY <1>3, Standing
<1>5. \A q \in Replier : \A x \in Target \X Nat : Holds(q, x)' => Holds(q, x)
  BY <1>2 DEF Holds
<1>6. RowsAreOwned'
  <2>1. \A q, o \in Replier : \A x \in Target \X Nat : Holds(q, x)' /\ Holds(o, x)' => q = o
    BY <1>5 DEF ListInv, RowsAreOwned
  <2>2. \A q \in Replier : \A j, k \in DOMAIN rp'[q].queue :
            rp'[q].queue[j] = rp'[q].queue[k] => j = k
    BY <1>2 DEF ListInv, RowsAreOwned
  <2>3. \A q \in Replier : rp'[q].pc \in OpenPC =>
            \A k \in DOMAIN rp'[q].queue : rp'[q].queue[k] # <<rp'[q].tgt, rp'[q].row>>
    BY <1>2 DEF ListInv, RowsAreOwned
  <2>4. QED BY <2>1, <2>2, <2>3 DEF RowsAreOwned
<1>7. ListTypes' /\ ReviewLists'
  BY <1>2 DEF ListInv, ListTypes, ConversationTypeOK, ReviewTypeOK, DraftingTypeOK,
     ReplyingTypeOK, ReviewLists
<1>8. QED BY <1>4, <1>6, <1>7 DEF ListInv

\* A new row joins the queue of the replier that created it.
LEMMA FetchKeeps ==
  ASSUME ListInv, NEW p \in Replier, NEW t \in Target, NEW own \in BOOLEAN,
         UNCHANGED <<tstate, emailSupp, inbox, revisions, rv, dr>>,
         rp[p].pc \notin OpenPC,
         NEW m \in ReplierLocal, rp' = [rp EXCEPT ![p] = m],
         m.pc = "linked",
         m.queue = Append(rp[p].queue, <<t, Len(replies[t]) + 1>>),
         replies' = [replies EXCEPT ![t] = Append(@, [action |-> "none", own |-> own])]
  PROVE  ListInv'
<1> DEFINE row == [action |-> "none", own |-> own]
           new == <<t, Len(replies[t]) + 1>>
           queue == rp[p].queue
<1>0. /\ rp \in [Replier -> ReplierLocal]
      /\ replies \in [Target -> Seq(Reply)]
      /\ \A q \in Replier : ReplierStands(rp[q], replies, emailSupp)
      /\ row \in Reply
  BY Standing DEF ListInv, ListTypes, ReplyingTypeOK, ConversationTypeOK, Reply, RoutedAction
<1>1. rp'[p] = m /\ rp' \in [Replier -> ReplierLocal]
      /\ \A q \in Replier : q # p => rp'[q] = rp[q]
  BY <1>0
<1>2. /\ replies' \in [Target -> Seq(Reply)]
      /\ DOMAIN replies'[t] = DOMAIN replies[t] \cup {Len(replies[t]) + 1}
      /\ \A i \in DOMAIN replies[t] : replies'[t][i] = replies[t][i]
      /\ replies'[t][Len(replies[t]) + 1] = row
      /\ Len(replies[t]) + 1 \notin DOMAIN replies[t]
      /\ \A u \in Target : u # t => replies'[u] = replies[u]
  <2>1. replies' = [replies EXCEPT ![t] = Append(@, row)]
    OBVIOUS
  <2> HIDE DEF row
  <2>2. replies'[t] = Append(replies[t], row)
    BY <1>0, <2>1
  <2>3. QED BY <1>0, <2>1, <2>2, AppendedRow
<1>3. \A u \in Target : \A i \in DOMAIN replies[u] :
          i \in DOMAIN replies'[u] /\ replies'[u][i] = replies[u][i]
  BY <1>2
<1> HIDE DEF row
<1>4. \A q \in Replier : ReplierStands(rp[q], replies', emailSupp')
  <2>1. ASSUME NEW q \in Replier PROVE ReplierStands(rp[q], replies', emailSupp')
    <3>1. rp[q].tgt \in Target /\ rp[q].queue \in Seq(Target \X Nat)
      BY <1>0 DEF ReplierLocal
    <3>2. \A k \in DOMAIN rp[q].queue : rp[q].queue[k][1] \in Target
      BY <3>1
    <3>3. ReplierStands(rp[q], replies, emailSupp)
      BY <1>0
    <3>4. ListedIn(rp[q].tgt, replies, emailSupp) => ListedIn(rp[q].tgt, replies', emailSupp')
      BY <1>3, <3>1 DEF ListedIn
    <3>5. rp[q].pc \in OpenPC \cup SettledPC =>
              /\ rp[q].row \in DOMAIN replies'[rp[q].tgt]
              /\ replies'[rp[q].tgt][rp[q].row] = replies[rp[q].tgt][rp[q].row]
      BY <1>3, <3>1, <3>3 DEF ReplierStands
    <3>6. \A k \in DOMAIN rp[q].queue :
              /\ rp[q].queue[k][2] \in DOMAIN replies'[rp[q].queue[k][1]]
              /\ replies'[rp[q].queue[k][1]][rp[q].queue[k][2]].action = "none"
      <4>1. SUFFICES ASSUME NEW k \in DOMAIN rp[q].queue
                     PROVE  /\ rp[q].queue[k][2] \in DOMAIN replies'[rp[q].queue[k][1]]
                            /\ replies'[rp[q].queue[k][1]][rp[q].queue[k][2]].action = "none"
        OBVIOUS
      <4>2. /\ rp[q].queue[k][2] \in DOMAIN replies[rp[q].queue[k][1]]
            /\ replies[rp[q].queue[k][1]][rp[q].queue[k][2]].action = "none"
        BY <3>3 DEF ReplierStands
      <4>3. QED BY <1>3, <3>2, <4>2
    <3>7. QED BY <3>3, <3>4, <3>5, <3>6 DEF ReplierStands
  <2>2. QED BY <2>1
<1>5. queue \in Seq(Target \X Nat) /\ Len(replies[t]) + 1 \in Nat /\ new \in Target \X Nat
  <2>1. queue \in Seq(Target \X Nat)
    BY <1>0 DEF ReplierLocal
  <2>2. Len(replies[t]) + 1 \in Nat
    BY <1>0
  <2>3. QED BY <2>1, <2>2
<1>6. /\ DOMAIN m.queue = DOMAIN queue \cup {Len(queue) + 1}
      /\ \A k \in DOMAIN queue : m.queue[k] = queue[k]
      /\ m.queue[Len(queue) + 1] = new
      /\ Len(queue) + 1 \notin DOMAIN queue
  <2>1. m.queue = Append(queue, new)
    OBVIOUS
  <2> HIDE DEF queue, new
  <2>2. queue \in Seq(Target \X Nat) /\ new \in Target \X Nat
    BY <1>5
  <2> DEFINE Held == Target \X Nat
  <2> HIDE DEF Held
  <2>3. queue \in Seq(Held) /\ new \in Held
    BY <2>2 DEF Held
  <2>4. /\ m.queue \in Seq(Held)
        /\ Len(m.queue) = Len(queue) + 1
        /\ \A k \in 1 .. Len(queue) : m.queue[k] = queue[k]
        /\ m.queue[Len(queue) + 1] = new
    <3>1. /\ Append(queue, new) \in Seq(Held)
          /\ Len(Append(queue, new)) = Len(queue) + 1
          /\ \A k \in 1 .. Len(queue) : Append(queue, new)[k] = queue[k]
          /\ Append(queue, new)[Len(queue) + 1] = new
      BY ONLY <2>3, AppendProperties
    <3>2. QED BY ONLY <2>1, <3>1, Zenon
  <2>5. /\ DOMAIN queue = 1 .. Len(queue) /\ DOMAIN m.queue = 1 .. Len(m.queue)
        /\ Len(queue) \in Nat
    BY <2>3, <2>4
  <2>6. QED BY <2>4, <2>5
\* Nobody holds a row that was not there.
<1>7. \A q \in Replier : ~Holds(q, new)
  BY <1>0, <1>2 DEF Holds, ReplierStands
<1>8. new[1] = t /\ new[2] = Len(replies[t]) + 1
  OBVIOUS
<1> HIDE DEF new, queue
<1>9. ReplierStands(m, replies', emailSupp')
  <2>1. ReplierStands(rp[p], replies', emailSupp')
    BY <1>4
  <2>2. /\ new[2] \in DOMAIN replies'[new[1]]
        /\ replies'[new[1]][new[2]].action = "none"
    BY <1>2, <1>8 DEF row
  <2>3. QED BY <1>6, <2>1, <2>2 DEF ReplierStands, OpenPC, SettledPC, queue
<1>10. (RowAtHand /\ ReplyLists /\ QueueIsOpen)'
  BY <1>1, <1>4, <1>9, Standing
<1>11. \A q \in Replier : \A x \in Target \X Nat :
           Holds(q, x)' => Holds(q, x) \/ (q = p /\ x = new)
  BY <1>1, <1>6 DEF Holds, OpenPC, queue
<1>12. RowsAreOwned'
  <2>1. \A q, o \in Replier : \A x \in Target \X Nat : Holds(q, x)' /\ Holds(o, x)' => q = o
    BY <1>7, <1>11 DEF ListInv, RowsAreOwned
  <2>2. \A q \in Replier : \A j, k \in DOMAIN rp'[q].queue :
            rp'[q].queue[j] = rp'[q].queue[k] => j = k
    <3>1. \A j, k \in DOMAIN m.queue : m.queue[j] = m.queue[k] => j = k
      <4>1. \A k \in DOMAIN queue : queue[k] # new
        BY <1>7 DEF Holds, queue
      <4>2. \A j, k \in DOMAIN queue : queue[j] = queue[k] => j = k
        BY DEF ListInv, RowsAreOwned, queue
      <4>3. QED BY <1>6, <4>1, <4>2
    <3>2. \A q \in Replier : \A j, k \in DOMAIN rp[q].queue :
              rp[q].queue[j] = rp[q].queue[k] => j = k
      BY DEF ListInv, RowsAreOwned
    <3>3. ASSUME NEW q \in Replier
          PROVE  \A j, k \in DOMAIN rp'[q].queue : rp'[q].queue[j] = rp'[q].queue[k] => j = k
      <4>1. CASE q = p
        BY <1>1, <3>1, <4>1
      <4>2. CASE q # p
        BY <1>1, <3>2, <4>2
      <4>3. QED BY <4>1, <4>2
    <3>4. QED BY <3>3
  <2>3. \A q \in Replier : rp'[q].pc \in OpenPC =>
            \A k \in DOMAIN rp'[q].queue : rp'[q].queue[k] # <<rp'[q].tgt, rp'[q].row>>
    BY <1>1 DEF ListInv, RowsAreOwned, OpenPC
  <2>4. QED BY <2>1, <2>2, <2>3 DEF RowsAreOwned
<1>13. SuppressedIsListed'
  BY <1>3 DEF ListInv, SuppressedIsListed
<1>14. ListTypes' /\ ReviewLists'
  BY <1>1, <1>2 DEF ListInv, ListTypes, ConversationTypeOK, ReviewTypeOK, DraftingTypeOK,
     ReplyingTypeOK, ReviewLists
<1>15. QED BY <1>10, <1>12, <1>13, <1>14 DEF ListInv

\* The row at the head of the queue is taken up.
LEMMA PickKeeps ==
  ASSUME ListInv, NEW p \in Replier, PickReply(p), UNCHANGED <<rv, dr>>
  PROVE  ListInv'
<1> DEFINE queue == rp[p].queue
           q1 == Head(queue)
           m == [IdleReplier EXCEPT !.pc = "enter", !.queue = Tail(queue),
                                    !.tgt = q1[1], !.row = q1[2]]
<1>0. /\ rp \in [Replier -> ReplierLocal]
      /\ \A q \in Replier : ReplierStands(rp[q], replies, emailSupp)
      /\ IdleReplier \in ReplierLocal
      /\ queue \in Seq(Target \X Nat) /\ queue # <<>>
      /\ rp[p].pc = "next"
  BY Standing, IdleLocals DEF ListInv, ListTypes, ReplyingTypeOK, ReplierLocal, PickReply, ReplyAt
<1>1. /\ UNCHANGED <<tstate, emailSupp, replies, inbox, revisions>>
      /\ rp' = [rp EXCEPT ![p] = m]
  BY DEF PickReply, convVars, dbVars
<1>2. /\ q1 = queue[1] /\ q1 \in Target \X Nat /\ 1 \in DOMAIN queue
      /\ Tail(queue) \in Seq(Target \X Nat)
      /\ \A k \in DOMAIN Tail(queue) : k + 1 \in DOMAIN queue /\ k + 1 # 1
                                        /\ Tail(queue)[k] = queue[k + 1]
      /\ DOMAIN Tail(queue) \subseteq Nat
  <2> DEFINE Held == Target \X Nat
  <2> HIDE DEF Held
  <2>1. queue \in Seq(Held) /\ queue # <<>>
    BY <1>0 DEF Held
  <2> HIDE DEF queue
  <2>2. /\ q1 = queue[1] /\ q1 \in Held /\ 1 \in DOMAIN queue
        /\ Tail(queue) \in Seq(Held)
        /\ \A k \in DOMAIN Tail(queue) : k + 1 \in DOMAIN queue /\ k + 1 # 1
                                          /\ Tail(queue)[k] = queue[k + 1]
        /\ DOMAIN Tail(queue) \subseteq Nat
    BY ONLY <2>1
  <2>3. QED BY <2>2 DEF Held
<1>3. /\ m.pc = "enter" /\ m.queue = Tail(queue) /\ m.tgt = q1[1] /\ m.row = q1[2]
      /\ m.action = "none" /\ m \in ReplierLocal
  BY <1>0, <1>2 DEF IdleReplier, ReplierLocal, ReplyPC
<1>4. q1 = <<m.tgt, m.row>>
  BY <1>2, <1>3
<1> DEFINE tail == m.queue
<1>5. /\ queue = rp[p].queue
      /\ \A k \in DOMAIN tail : /\ k + 1 \in DOMAIN queue /\ k + 1 # 1 /\ k \in Nat
                               /\ tail[k] = queue[k + 1]
  BY <1>2, <1>3
<1> HIDE DEF m, q1, tail, queue
<1>6. tail = m.queue
  BY DEF tail
<1>7. \A j, k \in DOMAIN queue : queue[j] = queue[k] => j = k
  BY <1>5 DEF ListInv, RowsAreOwned
<1>8. rp'[p] = m /\ rp' \in [Replier -> ReplierLocal]
      /\ \A q \in Replier : q # p => rp'[q] = rp[q]
  BY <1>0, <1>1, <1>3
<1>9. ReplierStands(m, replies, emailSupp)
  <2>1. ReplierStands(rp[p], replies, emailSupp)
    BY <1>0
  <2>2. /\ m.row \in DOMAIN replies[m.tgt]
        /\ replies[m.tgt][m.row].action = "none"
    BY <1>2, <1>3, <1>5, <2>1 DEF ReplierStands
  <2>3. \A k \in DOMAIN tail :
            /\ tail[k][2] \in DOMAIN replies[tail[k][1]]
            /\ replies[tail[k][1]][tail[k][2]].action = "none"
    BY <1>5, <2>1 DEF ReplierStands
  <2>4. \A k \in DOMAIN m.queue :
            /\ m.queue[k][2] \in DOMAIN replies[m.queue[k][1]]
            /\ replies[m.queue[k][1]][m.queue[k][2]].action = "none"
    BY <1>6, <2>3
  <2>5. QED BY <1>3, <2>2, <2>4 DEF ReplierStands, OpenPC, SettledPC
<1>10. (RowAtHand /\ ReplyLists /\ QueueIsOpen)'
  BY <1>0, <1>1, <1>8, <1>9, Standing
<1>11. \A q \in Replier : \A x \in Target \X Nat : Holds(q, x)' => Holds(q, x)
  <2>1. \A x \in Target \X Nat : Holds(p, x)' => \E k \in DOMAIN queue : queue[k] = x
    <3>1. \A x \in Target \X Nat : Holds(p, x)' =>
              (\E k \in DOMAIN tail : tail[k] = x) \/ x = q1
      BY <1>4, <1>8, <1>6 DEF Holds
    <3>2. QED BY <1>2, <1>5, <3>1
  <2>2. \A x \in Target \X Nat : Holds(p, x)' => Holds(p, x)
    BY <1>5, <2>1 DEF Holds
  <2>3. QED BY <1>8, <2>2 DEF Holds
<1>12. RowsAreOwned'
  <2>1. \A q, o \in Replier : \A x \in Target \X Nat : Holds(q, x)' /\ Holds(o, x)' => q = o
    BY <1>11 DEF ListInv, RowsAreOwned
  <2>3. \A q \in Replier : \A j, k \in DOMAIN rp'[q].queue :
            rp'[q].queue[j] = rp'[q].queue[k] => j = k
    <3>1. \A j, k \in DOMAIN tail : tail[j] = tail[k] => j + 1 = k + 1
      BY <1>5, <1>7
    <3>2. \A j, k \in DOMAIN tail : j \in Nat /\ k \in Nat
      BY <1>5
    <3>3. \A j, k \in DOMAIN tail : tail[j] = tail[k] => j = k
      BY <3>1, <3>2
    <3>4. QED BY <1>8, <1>6, <3>3 DEF ListInv, RowsAreOwned
  <2>4. \A q \in Replier : rp'[q].pc \in OpenPC =>
            \A k \in DOMAIN rp'[q].queue : rp'[q].queue[k] # <<rp'[q].tgt, rp'[q].row>>
    <3>1. \A k \in DOMAIN tail : tail[k] # q1
      BY <1>2, <1>5, <1>7
    <3>2. QED BY <1>4, <1>8, <1>6, <3>1 DEF ListInv, RowsAreOwned
  <2>5. QED BY <2>1, <2>3, <2>4 DEF RowsAreOwned
<1>13. SuppressedIsListed' /\ ListTypes' /\ ReviewLists'
  BY <1>1, <1>8 DEF ListInv, SuppressedIsListed, ListTypes, ConversationTypeOK,
     ReviewTypeOK, DraftingTypeOK, ReplyingTypeOK, ReviewLists
<1>14. QED BY <1>10, <1>12, <1>13 DEF ListInv

\* The verdict is recorded: the only rewriting of a reply row.
LEMMA RecordKeeps ==
  ASSUME ListInv, NEW p \in Replier, RecordVerdict(p), UNCHANGED <<rv, dr>>
  PROVE  ListInv'
<1> DEFINE t == rp[p].tgt
           i == rp[p].row
           a == rp[p].action
           row == [replies[t][i] EXCEPT !.action = a]
<1>0. /\ rp \in [Replier -> ReplierLocal]
      /\ replies \in [Target -> Seq(Reply)]
      /\ \A q \in Replier : ReplierStands(rp[q], replies, emailSupp)
  BY Standing DEF ListInv, ListTypes, ReplyingTypeOK, ConversationTypeOK
<1>1. /\ rp[p].pc = "verdict" /\ t \in Target /\ i \in Nat /\ a \in RoutedAction
      /\ i \in DOMAIN replies[t] /\ replies[t][i].action = "none" /\ a # "none"
      /\ replies[t] \in Seq(Reply) /\ replies[t][i] \in Reply
  <2>1. rp[p].pc = "verdict" /\ t \in Target /\ i \in Nat /\ a \in RoutedAction
    BY <1>0 DEF RecordVerdict, ReplyAt, ReplierLocal
  <2>2. ReplierStands(rp[p], replies, emailSupp)
    BY <1>0
  <2>3. QED BY <1>0, <2>1, <2>2 DEF ReplierStands, OpenPC
<1>2. UNCHANGED <<tstate, emailSupp, inbox, revisions>>
  BY DEF RecordVerdict, dbVars
<1>3. row \in Reply /\ row.action = a
  BY <1>1 DEF Reply
<1>4. replies' = [replies EXCEPT ![t] = [@ EXCEPT ![i] = row]]
  <2>1. replies' = [replies EXCEPT ![t][i].action = a]
    BY DEF RecordVerdict
  <2>2. QED BY <1>0, <1>1, <2>1
<1> HIDE DEF row
<1>5. /\ replies' \in [Target -> Seq(Reply)]
      /\ \A u \in Target : DOMAIN replies'[u] = DOMAIN replies[u]
      /\ replies'[t][i] = row
      /\ \A u \in Target : \A j \in DOMAIN replies[u] :
             ~(u = t /\ j = i) => replies'[u][j] = replies[u][j]
  BY <1>0, <1>1, <1>3, <1>4, RewrittenRow
\* The row leaves the hand of p, and nobody else holds it.
<1>6. PICK pc \in {"routed", "next", "listed"} :
          rp' = [rp EXCEPT ![p].pc = pc] /\ (pc = "listed" => a = "auto_suppress")
  <2> DEFINE to == CASE rp[p].st = "replied" -> "routed"
                     [] rp[p].st \in Terminal -> "next"
                     [] OTHER -> AfterRouting(p)
  <2>1. rp' = [rp EXCEPT ![p].pc = to]
    BY DEF RecordVerdict, ReplyGoto
  <2>2. to \in {"routed", "next", "listed"} /\ (to = "listed" => a = "auto_suppress")
    BY DEF AfterRouting, Terminal
  <2>3. QED BY <2>1, <2>2
<1> DEFINE m == [rp[p] EXCEPT !.pc = pc]
<1>7. /\ m \in ReplierLocal /\ rp'[p] = m /\ rp' \in [Replier -> ReplierLocal]
      /\ \A q \in Replier : q # p => rp'[q] = rp[q]
  <2>1. rp[p] \in ReplierLocal
    BY <1>0
  <2>2. m \in ReplierLocal
    BY <2>1, <1>6 DEF ReplierLocal, ReplyPC
  <2>3. rp' = [rp EXCEPT ![p] = m]
    BY <1>0, <1>6
  <2> HIDE DEF m
  <2>4. QED BY <1>0, <2>2, <2>3
<1>8. /\ m.pc = pc /\ m.queue = rp[p].queue /\ m.tgt = t /\ m.row = i /\ m.action = a
  BY <1>0 DEF ReplierLocal
<1> HIDE DEF m
<1>9. Holds(p, <<t, i>>) /\ <<t, i>> \in Target \X Nat
  BY <1>1 DEF Holds, OpenPC
<1>10. \A u \in Target : ListedIn(u, replies, emailSupp) => ListedIn(u, replies', emailSupp')
  <2>1. SUFFICES ASSUME NEW u \in Target, ListedIn(u, replies, emailSupp)
                 PROVE  ListedIn(u, replies', emailSupp')
    OBVIOUS
  <2>2. CASE u \in emailSupp
    BY <1>2, <2>2 DEF ListedIn
  <2>3. ASSUME NEW j \in DOMAIN replies[u],
               replies[u][j] = [action |-> "auto_suppress", own |-> FALSE]
        PROVE  ListedIn(u, replies', emailSupp')
    <3>1. replies[u][j].action = "auto_suppress"
      BY <2>3
    <3>2. ~(u = t /\ j = i)
      BY <1>1, <3>1
    <3>3. replies'[u][j] = replies[u][j] /\ j \in DOMAIN replies'[u]
      BY <1>5, <3>2
    <3>4. QED BY <2>3, <3>3 DEF ListedIn
  <2>4. QED BY <2>1, <2>2, <2>3 DEF ListedIn
<1>11. \A q \in Replier : \A k \in DOMAIN rp[q].queue :
           /\ rp[q].queue[k] # <<t, i>> /\ rp[q].queue[k] \in Target \X Nat
  <2>1. \A k \in DOMAIN rp[p].queue : rp[p].queue[k] # <<t, i>>
    BY <1>1 DEF ListInv, RowsAreOwned, OpenPC
  <2>2. ASSUME NEW q \in Replier, q # p, NEW k \in DOMAIN rp[q].queue
        PROVE  rp[q].queue[k] # <<t, i>>
    BY <1>9, <2>2 DEF ListInv, RowsAreOwned, Holds
  <2>3. \A q \in Replier : rp[q].queue \in Seq(Target \X Nat)
    BY <1>0 DEF ReplierLocal
  <2>4. \A q \in Replier : \A k \in DOMAIN rp[q].queue : rp[q].queue[k] \in Target \X Nat
    BY <2>3
  <2>5. QED BY <2>1, <2>2, <2>4
<1>12. ASSUME NEW q \in Replier
       PROVE  \A k \in DOMAIN rp[q].queue :
                 /\ rp[q].queue[k][2] \in DOMAIN replies'[rp[q].queue[k][1]]
                 /\ replies'[rp[q].queue[k][1]][rp[q].queue[k][2]].action = "none"
  <2>1. ReplierStands(rp[q], replies, emailSupp)
    BY <1>0
  <2>2. ASSUME NEW k \in DOMAIN rp[q].queue
        PROVE  /\ rp[q].queue[k][2] \in DOMAIN replies'[rp[q].queue[k][1]]
               /\ replies'[rp[q].queue[k][1]][rp[q].queue[k][2]].action = "none"
    <3>1. PICK u \in Target, j \in Nat : rp[q].queue[k] = <<u, j>>
      BY <1>11
    <3>2. <<u, j>> # <<t, i>>
      BY <1>11, <3>1
    <3>3. j \in DOMAIN replies[u] /\ replies[u][j].action = "none"
      BY <2>1, <3>1 DEF ReplierStands
    <3>4. QED BY <1>5, <3>1, <3>2, <3>3
  <2>3. QED BY <2>2
<1>13. ASSUME NEW q \in Replier, q # p
       PROVE  ReplierStands(rp'[q], replies', emailSupp')
  <2>1. ReplierStands(rp[q], replies, emailSupp) /\ rp[q].tgt \in Target /\ rp[q].row \in Nat
    BY <1>0 DEF ReplierLocal
  <2>2. rp[q].pc \in OpenPC => <<rp[q].tgt, rp[q].row>> # <<t, i>>
    <3>1. rp[q].pc \in OpenPC => Holds(q, <<rp[q].tgt, rp[q].row>>)
      BY DEF Holds
    <3>2. QED BY <1>9, <1>13, <3>1 DEF ListInv, RowsAreOwned
  <2>3. rp[q].pc \in SettledPC => <<rp[q].tgt, rp[q].row>> # <<t, i>>
    BY <1>1, <2>1 DEF ReplierStands
  <2>4. rp[q].pc \in OpenPC \cup SettledPC =>
            /\ rp[q].row \in DOMAIN replies'[rp[q].tgt]
            /\ replies'[rp[q].tgt][rp[q].row] = replies[rp[q].tgt][rp[q].row]
    BY <1>5, <2>1, <2>2, <2>3 DEF ReplierStands
  <2>5. QED BY <1>7, <1>10, <1>12, <1>13, <2>1, <2>4 DEF ReplierStands
<1>14. ReplierStands(m, replies', emailSupp')
  <2>1. \A k \in DOMAIN m.queue :
            /\ m.queue[k][2] \in DOMAIN replies'[m.queue[k][1]]
            /\ replies'[m.queue[k][1]][m.queue[k][2]].action = "none"
    BY <1>8, <1>12
  <2>2. QED BY <1>1, <1>3, <1>5, <1>6, <1>8, <2>1 DEF ReplierStands, OpenPC, SettledPC
<1>15. (RowAtHand /\ ReplyLists /\ QueueIsOpen)'
  BY <1>7, <1>13, <1>14, Standing
<1>16. RowsAreOwned'
  <2>1. \A q \in Replier : \A x \in Target \X Nat : Holds(q, x)' => Holds(q, x)
    BY <1>6, <1>7, <1>8 DEF Holds, OpenPC
  <2>2. \A q, o \in Replier : \A x \in Target \X Nat : Holds(q, x)' /\ Holds(o, x)' => q = o
    BY <2>1 DEF ListInv, RowsAreOwned
  <2>3. \A q \in Replier : \A j, k \in DOMAIN rp'[q].queue :
            rp'[q].queue[j] = rp'[q].queue[k] => j = k
    BY <1>7, <1>8 DEF ListInv, RowsAreOwned
  <2>4. \A q \in Replier : rp'[q].pc \in OpenPC =>
            \A k \in DOMAIN rp'[q].queue : rp'[q].queue[k] # <<rp'[q].tgt, rp'[q].row>>
    BY <1>6, <1>7, <1>8 DEF ListInv, RowsAreOwned, OpenPC
  <2>5. QED BY <2>2, <2>3, <2>4 DEF RowsAreOwned
<1>17. SuppressedIsListed'
  BY <1>2, <1>10 DEF ListInv, SuppressedIsListed, ListedIn
<1>18. ListTypes' /\ ReviewLists'
  BY <1>2, <1>5, <1>7 DEF ListInv, ListTypes, ConversationTypeOK, ReviewTypeOK,
     DraftingTypeOK, ReplyingTypeOK, ReviewLists
<1>19. QED BY <1>15, <1>16, <1>17, <1>18 DEF ListInv

-----------------------------------------------------------------------------
LEMMA ReplyKeeps ==
  ASSUME ListInv, NEW p \in Replier, ReplyTurn(p)
  PROVE  ListInv'
<1> DEFINE l == rp[p]
<1>0. /\ l \in ReplierLocal /\ rp \in [Replier -> ReplierLocal]
      /\ tstate \in [Target -> State]
      /\ inbox \subseteq InboxFile
      /\ replies \in [Target -> Seq(Reply)]
      /\ ReplierStands(l, replies, emailSupp)
      /\ IdleReplier \in ReplierLocal
      /\ ReplyStep(p) /\ UNCHANGED <<rv, sd, dr>>
  BY Standing, IdleLocals DEF ListInv, ListTypes, ReplyingTypeOK, ConversationTypeOK, ReplyTurn
<1>1. l.tgt \in Target /\ l.queue \in Seq(Target \X Nat)
  BY <1>0 DEF ReplierLocal
\* Steps that write no row but, at most, a target's state.
<1>2. ASSUME UNCHANGED <<replies, inbox, revisions, emailSupp>>,
             NEW m \in ReplierLocal, rp' = [rp EXCEPT ![p] = m],
             ReplierStands(m, replies, emailSupp),
             m.queue = l.queue \/ m.queue = <<>>,
             m.pc \in OpenPC => l.pc \in OpenPC /\ m.tgt = l.tgt /\ m.row = l.row,
             NEW to \in State, to = "suppressed" => Listed(l.tgt),
             UNCHANGED tstate \/ tstate' = [tstate EXCEPT ![l.tgt] = to]
      PROVE  ListInv'
  <2>1. \A t \in Target : Listed(t) => Listed(t)'
    BY <1>2 DEF Listed
  <2>2. SuppressedIsListed' /\ tstate' \in [Target -> State]
    BY <1>1, <1>2, <2>1, MoveKeeps, StayKeeps
  <2>3. QED BY <1>0, <1>2, <2>2, ReplyQuiet
\* Steps that write no row.
<1>3. ASSUME UNCHANGED convVars, NEW m \in ReplierLocal, rp' = [rp EXCEPT ![p] = m],
             ReplierStands(m, replies, emailSupp),
             m.queue = l.queue \/ m.queue = <<>>,
             m.pc \in OpenPC => l.pc \in OpenPC /\ m.tgt = l.tgt /\ m.row = l.row
      PROVE  ListInv'
  <2>1. "failed" \in State /\ "failed" # "suppressed"
    BY DEF State
  <2>2. QED BY <1>2, <1>3, <2>1 DEF convVars, dbVars
<1>4. ASSUME NEW pc \in ReplyPC, ReplyGoto(p, pc)
      PROVE  /\ rp' = [rp EXCEPT ![p] = [l EXCEPT !.pc = pc]]
             /\ [l EXCEPT !.pc = pc] \in ReplierLocal
             /\ [l EXCEPT !.pc = pc].queue = l.queue
             /\ [l EXCEPT !.pc = pc].tgt = l.tgt
             /\ [l EXCEPT !.pc = pc].row = l.row
             /\ [l EXCEPT !.pc = pc].pc = pc
             /\ [l EXCEPT !.pc = pc].action = l.action
  BY <1>0, <1>4 DEF ReplyGoto, ReplierLocal
<1> DEFINE head == [IdleReplier EXCEPT !.pc = "next", !.queue = l.queue]
<1>5. /\ head \in ReplierLocal /\ head.queue = l.queue /\ head.pc = "next"
      /\ ReplierStands(head, replies, emailSupp)
  <2>1. head \in ReplierLocal /\ head.queue = l.queue /\ head.pc = "next"
    BY <1>0, <1>1 DEF ReplierLocal, ReplyPC
  <2> HIDE DEF head
  <2>2. QED BY <1>0, <2>1 DEF ReplierStands, OpenPC, SettledPC
<1>6. NextReply(p) => rp' = [rp EXCEPT ![p] = head]
  BY DEF NextReply
<1> HIDE DEF head
<1>7. ASSUME UNCHANGED convVars, NextReply(p) PROVE ListInv'
  BY <1>3, <1>5, <1>6, <1>7 DEF OpenPC
\* Steps that only go on within the code that reads and settles one reply.
<1>8. ASSUME UNCHANGED convVars, NEW pc \in ReplyPC, ReplyGoto(p, pc),
             pc \in OpenPC => l.pc \in OpenPC,
             ReplierStands([l EXCEPT !.pc = pc], replies, emailSupp)
      PROVE  ListInv'
  BY <1>3, <1>4, <1>8
<1>9. ReplierStands(IdleReplier, replies, emailSupp) /\ IdleReplier.pc = "idle"
      /\ IdleReplier.queue = <<>>
  BY DEF ReplierStands, IdleReplier, OpenPC, SettledPC
<1>10. ASSUME UNCHANGED convVars, rp' = [rp EXCEPT ![p] = IdleReplier]
       PROVE  ListInv'
  BY <1>0, <1>3, <1>9, <1>10 DEF OpenPC
\* A move of the target, to a state that needs no listing.
<1>11. ASSUME NEW pc \in {"linkaudit", "routedaudit", "failaudit", "suppaudit"},
              ReplyGoto(p, pc), NEW from \in State, NEW to \in State,
              UpdateState(l.tgt, from, to), to = "suppressed" => Listed(l.tgt),
              UNCHANGED <<replies, inbox, revisions, emailSupp>>,
              ReplierStands([l EXCEPT !.pc = pc], replies, emailSupp)
       PROVE  ListInv'
  <2> DEFINE m == [l EXCEPT !.pc = pc]
  <2>1. pc \in ReplyPC /\ pc \notin OpenPC /\ ReplyGoto(p, pc)
    BY <1>11 DEF ReplyPC, OpenPC
  <2>2. m \in ReplierLocal /\ rp' = [rp EXCEPT ![p] = m] /\ m.queue = l.queue /\ m.pc = pc
    BY <1>4, <2>1
  <2>3. ReplierStands(m, replies, emailSupp) /\ tstate' = [tstate EXCEPT ![l.tgt] = to]
    BY <1>11 DEF UpdateState
  <2> HIDE DEF m
  <2>4. m.pc \notin OpenPC
    BY <2>1, <2>2
  <2>5. QED BY <1>2, <1>11, <2>2, <2>3, <2>4
<1>12. CASE StartReplies(p)
  <2> DEFINE m == [l EXCEPT !.pc = "fetch", !.files = inbox]
  <2>1. m \in ReplierLocal /\ m.pc = "fetch" /\ m.queue = l.queue
    BY <1>0 DEF ReplierLocal, ReplyPC
  <2>2. rp' = [rp EXCEPT ![p] = m] /\ UNCHANGED convVars
    BY <1>0, <1>12 DEF StartReplies
  <2> HIDE DEF m
  <2>3. ReplierStands(m, replies, emailSupp)
    BY <1>0, <2>1 DEF ReplierStands, OpenPC, SettledPC
  <2>4. QED BY <1>3, <2>1, <2>2, <2>3 DEF OpenPC
<1>13. CASE FetchFile(p)
  <2>1. PICK f \in l.files :
            \/ /\ replies' = [replies EXCEPT
                     ![f.target] = Append(@, [action |-> "none", own |-> f.own])]
               /\ rp' = [rp EXCEPT ![p].pc = "linked", ![p].files = @ \ {f},
                                   ![p].tgt = f.target,
                                   ![p].queue = Append(@, <<f.target, Len(replies[f.target]) + 1>>)]
            \/ /\ rp' = [rp EXCEPT ![p].files = @ \ {f}]
               /\ UNCHANGED replies
    BY <1>13 DEF FetchFile
  <2>2. f.target \in Target /\ f.own \in BOOLEAN
    BY <1>0, <2>1 DEF ReplierLocal, InboxFile
  <2>3. UNCHANGED <<tstate, emailSupp, inbox, revisions>> /\ l.pc = "fetch"
    BY <1>13 DEF FetchFile, dbVars, ReplyAt
  <2>4. CASE /\ rp' = [rp EXCEPT ![p].files = @ \ {f}]
             /\ UNCHANGED replies
    <3> DEFINE m == [l EXCEPT !.files = l.files \ {f}]
    <3>1. m \in ReplierLocal /\ m.pc = "fetch" /\ m.queue = l.queue
      BY <1>0, <2>3 DEF ReplierLocal
    <3>2. rp' = [rp EXCEPT ![p] = m] /\ UNCHANGED convVars
      BY <1>0, <1>13, <2>4 DEF FetchFile, convVars
    <3> HIDE DEF m
    <3>3. ReplierStands(m, replies, emailSupp)
      BY <1>0, <3>1 DEF ReplierStands, OpenPC, SettledPC
    <3>4. QED BY <1>3, <3>1, <3>2, <3>3 DEF OpenPC
  <2>5. CASE /\ replies' = [replies EXCEPT
                     ![f.target] = Append(@, [action |-> "none", own |-> f.own])]
             /\ rp' = [rp EXCEPT ![p].pc = "linked", ![p].files = @ \ {f},
                                 ![p].tgt = f.target,
                                 ![p].queue = Append(@, <<f.target, Len(replies[f.target]) + 1>>)]
    <3> DEFINE queue == Append(l.queue, <<f.target, Len(replies[f.target]) + 1>>)
               m == [l EXCEPT !.pc = "linked", !.files = l.files \ {f},
                              !.tgt = f.target, !.queue = queue]
    <3>1. Len(replies[f.target]) + 1 \in Nat
      BY <1>0, <2>2
    <3>2. queue \in Seq(Target \X Nat)
      BY <1>1, <2>2, <3>1
    <3>3. m \in ReplierLocal /\ m.pc = "linked" /\ m.queue = queue
      <4> HIDE DEF queue
      <4>1. QED BY <1>0, <2>2, <3>2 DEF ReplierLocal, ReplyPC
    <3>4. rp' = [rp EXCEPT ![p] = m]
      BY <1>0, <2>5
    <3>5. l.pc \notin OpenPC
      BY <2>3 DEF OpenPC
    <3> HIDE DEF m
    <3>6. m.queue = Append(l.queue, <<f.target, Len(replies[f.target]) + 1>>)
      BY <3>3
    <3> HIDE DEF queue
    <3>7. PICK t \in Target, own \in BOOLEAN : t = f.target /\ own = f.own
      BY <2>2
    <3>8. /\ replies' = [replies EXCEPT ![t] = Append(@, [action |-> "none", own |-> own])]
          /\ m.queue = Append(l.queue, <<t, Len(replies[t]) + 1>>)
      BY <2>5, <3>6, <3>7
    <3>9. UNCHANGED <<rv, dr>>
      BY <1>0
    <3>10. QED BY ONLY ListInv, <2>3, <3>3, <3>4, <3>5, <3>8, <3>9, FetchKeeps, p \in Replier
  <2>6. QED BY <2>1, <2>4, <2>5
<1>14. CASE EndFetch(p) \/ ReadLinked(p)
  <2>1. PICK pc \in {"next", "link", "fetch"} : ReplyGoto(p, pc) /\ UNCHANGED convVars
    BY <1>14 DEF EndFetch, ReadLinked
  <2>2. pc \in ReplyPC \ (OpenPC \cup SettledPC \cup {"supp", "suppaudit"})
    BY <2>1 DEF ReplyPC, OpenPC, SettledPC
  <2>3. QED BY <1>0, <1>8, <2>1, <2>2, StandsBetween
<1>15. CASE MoveReplied(p)
  <2>1. ReplyGoto(p, "linkaudit") /\ UpdateState(l.tgt, "dry_run_sent", "replied")
        /\ UNCHANGED <<replies, inbox, revisions, emailSupp>>
    BY <1>15 DEF MoveReplied
  <2>2. ReplierStands([l EXCEPT !.pc = "linkaudit"], replies, emailSupp)
    BY <1>0, StandsBetween DEF ReplyPC, OpenPC, SettledPC
  <2>3. QED BY <1>11, <2>1, <2>2 DEF State
<1>16. CASE AuditReplied(p)
  <2>1. ReplyGoto(p, "fetch") /\ UNCHANGED <<tstate, replies, inbox, revisions, emailSupp>>
    BY <1>16 DEF AuditReplied
  <2>2. ReplierStands([l EXCEPT !.pc = "fetch"], replies, emailSupp)
    BY <1>0, StandsBetween DEF ReplyPC, OpenPC, SettledPC
  <2>3. "failed" \in State /\ "failed" # "suppressed"
    BY DEF State
  <2>4. QED BY <1>2, <1>4, <2>1, <2>2, <2>3 DEF OpenPC, ReplyPC
<1>17. CASE PickReply(p)
  BY <1>0, <1>17, PickKeeps
<1>18. CASE EndReplies(p) \/ CutReplies(p)
  BY <1>10, <1>18 DEF EndReplies, CutReplies
<1>19. CASE EnterPipeline(p)
  <2>1. CASE NextReply(p)
    BY <1>7, <1>19, <2>1 DEF EnterPipeline
  <2>2. CASE ReplyGoto(p, "model")
    <3>1. l.pc = "enter" /\ UNCHANGED convVars
      BY <1>19 DEF EnterPipeline, ReplyAt
    <3> DEFINE m == [l EXCEPT !.pc = "model"]
    <3>2. /\ m \in ReplierLocal /\ rp' = [rp EXCEPT ![p] = m] /\ m.pc = "model"
          /\ m.queue = l.queue /\ m.tgt = l.tgt /\ m.row = l.row
      BY <1>4, <2>2 DEF ReplyPC
    <3> HIDE DEF m
    <3>3. ReplierStands(m, replies, emailSupp)
      BY <1>0, <3>1, <3>2 DEF ReplierStands, OpenPC, SettledPC
    <3>4. QED BY <1>3, <3>1, <3>2, <3>3 DEF OpenPC
  <2>3. QED BY <1>19, <2>1, <2>2 DEF EnterPipeline
<1>20. CASE Classify(p)
  <2>1. CASE NextReply(p)
    BY <1>7, <1>20, <2>1 DEF Classify
  <2>2. ASSUME NEW a \in RoutedAction \ {"none"},
               rp' = [rp EXCEPT ![p].pc = "route", ![p].action = a]
        PROVE  ListInv'
    <3> DEFINE m == [l EXCEPT !.pc = "route", !.action = a]
    <3>1. /\ m \in ReplierLocal /\ m.pc = "route" /\ m.queue = l.queue
          /\ m.tgt = l.tgt /\ m.row = l.row /\ m.action = a
      BY <1>0, <2>2 DEF ReplierLocal, ReplyPC
    <3>2. rp' = [rp EXCEPT ![p] = m] /\ UNCHANGED convVars /\ l.pc = "model"
      BY <1>0, <1>20, <2>2 DEF Classify, ReplyAt
    <3> HIDE DEF m
    <3>3. ReplierStands(m, replies, emailSupp)
      BY <1>0, <2>2, <3>1, <3>2 DEF ReplierStands, OpenPC, SettledPC
    <3>4. QED BY <1>3, <3>1, <3>2, <3>3 DEF OpenPC
  <2>3. QED BY <1>20, <2>1, <2>2 DEF Classify
<1>21. CASE ReadRoute(p)
  <2> DEFINE m == [l EXCEPT !.pc = "verdict", !.st = tstate[l.tgt]]
  <2>1. tstate[l.tgt] \in State
    BY <1>0, <1>1
  <2>2. /\ m \in ReplierLocal /\ m.pc = "verdict" /\ m.queue = l.queue
        /\ m.tgt = l.tgt /\ m.row = l.row /\ m.action = l.action
    BY <1>0, <2>1 DEF ReplierLocal, ReplyPC
  <2>3. rp' = [rp EXCEPT ![p] = m] /\ UNCHANGED convVars /\ l.pc = "route"
    BY <1>0, <1>21 DEF ReadRoute, ReplyAt
  <2> HIDE DEF m
  <2>4. ReplierStands(m, replies, emailSupp)
    BY <1>0, <2>2, <2>3 DEF ReplierStands, OpenPC, SettledPC
  <2>5. QED BY <1>3, <2>2, <2>3, <2>4 DEF OpenPC
<1>22. CASE RecordVerdict(p)
  BY <1>0, <1>22, RecordKeeps
<1>23. CASE MoveRouted(p)
  <2>1. l.pc = "routed" /\ ReplyGoto(p, "routedaudit") /\ UpdateState(l.tgt, "replied", "routed")
        /\ UNCHANGED <<replies, inbox, revisions, emailSupp>>
    BY <1>23 DEF MoveRouted, ReplyAt
  <2> DEFINE m == [l EXCEPT !.pc = "routedaudit"]
  <2>2. /\ m.pc = "routedaudit" /\ m.queue = l.queue /\ m.tgt = l.tgt /\ m.row = l.row
        /\ m.action = l.action
    BY <1>4, <2>1 DEF ReplyPC
  <2> HIDE DEF m
  <2>3. ReplierStands(m, replies, emailSupp)
    BY <1>0, <2>1, <2>2 DEF ReplierStands, OpenPC, SettledPC
  <2>4. ReplierStands([l EXCEPT !.pc = "routedaudit"], replies, emailSupp)
    BY <2>3 DEF m
  <2>5. QED BY <1>11, <2>1, <2>4 DEF State
<1>24. CASE AuditRouted(p)
  <2> DEFINE m == [l EXCEPT !.pc = AfterRouting(p), !.st = "routed"]
  <2>1. /\ AfterRouting(p) \in {"listed", "next"}
        /\ AfterRouting(p) = "listed" => l.action = "auto_suppress"
    BY DEF AfterRouting
  <2>2. /\ m \in ReplierLocal /\ m.pc = AfterRouting(p) /\ m.queue = l.queue
        /\ m.tgt = l.tgt /\ m.row = l.row /\ m.action = l.action
    BY <1>0, <2>1 DEF ReplierLocal, ReplyPC, State
  <2>3. /\ rp' = [rp EXCEPT ![p] = m] /\ l.pc = "routedaudit"
        /\ UNCHANGED <<tstate, replies, inbox, revisions, emailSupp>>
    BY <1>0, <1>24 DEF AuditRouted, ReplyAt
  <2> HIDE DEF m
  <2>4. ReplierStands(m, replies, emailSupp)
    BY <1>0, <2>1, <2>2, <2>3 DEF ReplierStands, OpenPC, SettledPC
  <2>5. "failed" \in State /\ m.pc \notin OpenPC
    BY <2>1, <2>2 DEF State, OpenPC
  <2>6. QED BY <1>2, <2>2, <2>3, <2>4, <2>5
\* The row at hand is an unsubscribe; its sender is the contact or is not.
<1>25. l.pc \in {"listed", "unsubscribe"} /\ ~SenderIsContact(p) =>
           \A listed : ListedIn(l.tgt, replies, listed)
  <2>1. SUFFICES ASSUME l.pc \in {"listed", "unsubscribe"}, ~SenderIsContact(p), NEW listed
                 PROVE  ListedIn(l.tgt, replies, listed)
    OBVIOUS
  <2>2. l.row \in DOMAIN replies[l.tgt] /\ replies[l.tgt][l.row].action = "auto_suppress"
    BY <1>0, <2>1 DEF ReplierStands, SettledPC
  <2>3. replies[l.tgt][l.row] \in Reply
    BY <1>0, <1>1, <2>2
  <2>4. replies[l.tgt][l.row] = [action |-> "auto_suppress", own |-> FALSE]
    BY <2>1, <2>2, <2>3 DEF Reply, SenderIsContact
  <2>5. QED BY <2>2, <2>4 DEF ListedIn
<1>26. CASE CheckReplyListed(p)
  <2>1. CASE ReplyGoto(p, "supp") /\ (SenderIsContact(p) => l.tgt \in emailSupp)
    <3>1. ListedIn(l.tgt, replies, emailSupp)
      BY <1>25, <1>26, <2>1 DEF CheckReplyListed, ReplyAt, ListedIn
    <3>2. QED
      BY <1>0, <1>4, <1>8, <1>26, <2>1, <3>1
      DEF CheckReplyListed, ReplierStands, OpenPC, SettledPC, ReplyPC
  <2>2. CASE ReplyGoto(p, "unsubscribe")
    BY <1>0, <1>4, <1>8, <1>26, <2>2
    DEF CheckReplyListed, ReplyAt, ReplierStands, OpenPC, SettledPC, ReplyPC
  <2>3. QED BY <1>26, <2>1, <2>2 DEF CheckReplyListed
<1>27. CASE InsertUnsubscribe(p)
  <2> DEFINE m == [l EXCEPT !.pc = "supp"]
  <2>1. /\ emailSupp' = emailSupp \cup IF SenderIsContact(p) THEN {l.tgt} ELSE {}
        /\ UNCHANGED <<tstate, replies, inbox, revisions>>
        /\ l.pc = "unsubscribe" /\ ReplyGoto(p, "supp")
    BY <1>27 DEF InsertUnsubscribe, ReplyAt
  <2>2. /\ m \in ReplierLocal /\ m.pc = "supp" /\ m.queue = l.queue
        /\ m.tgt = l.tgt /\ rp' = [rp EXCEPT ![p] = m]
    BY <1>0, <1>4, <2>1 DEF ReplyPC
  <2> HIDE DEF m
  <2>3. ListedIn(l.tgt, replies, emailSupp')
    BY <1>25, <2>1 DEF ListedIn
  <2>4. ReplierStands(m, replies, emailSupp')
    BY <1>0, <2>2, <2>3 DEF ReplierStands, OpenPC, SettledPC
  <2>5. emailSupp \subseteq emailSupp'
    BY <2>1
  <2>6. SuppressedIsListed' /\ tstate' \in [Target -> State]
    <3>1. \A t \in Target : Listed(t) => Listed(t)'
      BY <2>1, <2>5 DEF Listed
    <3>2. QED BY <2>1, <3>1, StayKeeps
  <2>7. m.pc \notin OpenPC
    BY <2>2 DEF OpenPC
  <2>8. QED BY <1>0, <2>1, <2>2, <2>4, <2>5, <2>6, <2>7, ReplyQuiet
<1>28. CASE MoveSuppressed(p)
  <2>1. l.pc = "supp" /\ ReplyGoto(p, "suppaudit") /\ UpdateState(l.tgt, l.st, "suppressed")
        /\ UNCHANGED <<replies, inbox, revisions, emailSupp>>
    BY <1>28 DEF MoveSuppressed, ReplyAt
  <2>2. ListedIn(l.tgt, replies, emailSupp)
    BY <1>0, <2>1 DEF ReplierStands
  <2>3. Listed(l.tgt) /\ l.st \in State
    BY <1>0, <2>2 DEF Listed, ListedIn, ReplierLocal
  <2>4. ReplierStands([l EXCEPT !.pc = "suppaudit"], replies, emailSupp)
    BY <1>0, <1>4, <2>1, <2>2 DEF ReplierStands, OpenPC, SettledPC, ReplyPC
  <2>5. QED BY <1>11, <2>1, <2>3, <2>4 DEF State
<1>29. CASE AuditSuppressed(p) \/ AuditReplyFailed(p)
  <2>1. UNCHANGED <<tstate, replies, inbox, revisions, emailSupp>> /\ NextReply(p)
    BY <1>29 DEF AuditSuppressed, AuditReplyFailed
  <2>2. "failed" \in State /\ "failed" # "suppressed"
    BY DEF State
  <2>3. QED BY <1>2, <1>5, <1>6, <2>1, <2>2 DEF OpenPC
\* The failure handler has let go of the row.
<1>30. ASSUME UNCHANGED convVars, NEW b \in BOOLEAN,
              rp' = [rp EXCEPT ![p].pc = "died", ![p].caught = b]
       PROVE  ListInv'
  <2> DEFINE m == [l EXCEPT !.pc = "died", !.caught = b]
  <2>1. m \in ReplierLocal /\ m.pc = "died" /\ m.queue = l.queue
    BY <1>0 DEF ReplierLocal, ReplyPC
  <2>2. rp' = [rp EXCEPT ![p] = m]
    BY <1>0, <1>30
  <2> HIDE DEF m
  <2>3. ReplierStands(m, replies, emailSupp)
    BY <1>0, <2>1 DEF ReplierStands, OpenPC, SettledPC
  <2>4. QED BY <1>3, <1>30, <2>1, <2>2, <2>3 DEF OpenPC
<1>31. CASE RaiseInReply(p)
  BY <1>30, <1>31 DEF RaiseInReply
<1>32. CASE RaiseInReplyHandler(p)
  BY <1>7, <1>30, <1>32 DEF RaiseInReplyHandler
<1>33. CASE ReadReplyDied(p)
  <2> DEFINE m == [l EXCEPT !.pc = "failmove", !.st = tstate[l.tgt]]
  <2>1. tstate[l.tgt] \in State
    BY <1>0, <1>1
  <2>2. m \in ReplierLocal /\ m.pc = "failmove" /\ m.queue = l.queue
    BY <1>0, <2>1 DEF ReplierLocal, ReplyPC
  <2>3. rp' = [rp EXCEPT ![p] = m] /\ UNCHANGED convVars
    BY <1>0, <1>33 DEF ReadReplyDied
  <2> HIDE DEF m
  <2>4. ReplierStands(m, replies, emailSupp)
    BY <1>0, <2>2 DEF ReplierStands, OpenPC, SettledPC
  <2>5. QED BY <1>3, <2>2, <2>3, <2>4 DEF OpenPC
<1>34. CASE MoveReplyFailed(p)
  <2>1. ReplierStands([l EXCEPT !.pc = "failaudit"], replies, emailSupp)
    BY <1>0, StandsBetween DEF ReplyPC, OpenPC, SettledPC
  <2>2. l.st \in State
    BY <1>0 DEF ReplierLocal
  <2>3. QED BY <1>11, <1>34, <2>1, <2>2 DEF MoveReplyFailed, State
<1>35. QED
  BY <1>0, <1>12, <1>13, <1>14, <1>15, <1>16, <1>17, <1>18, <1>19, <1>20, <1>21,
     <1>22, <1>23, <1>24, <1>26, <1>27, <1>28, <1>29, <1>31, <1>32, <1>33, <1>34
  DEF ReplyStep

-----------------------------------------------------------------------------
LEMMA ListInit == Init => ListInv
<1>1. SUFFICES ASSUME Init PROVE ListInv
  OBVIOUS
<1>2. /\ rv = [r \in Reviewer |-> IdleReviewer]
      /\ dr = [d \in Drafter |-> IdleDrafter]
      /\ rp = [p \in Replier |-> IdleReplier]
      /\ tstate = [t \in Target |-> "scored"]
      /\ revisions = [t \in Target |-> <<>>] /\ replies = [t \in Target |-> <<>>]
      /\ emailSupp = {} /\ inbox = {}
  BY <1>1 DEF Init, ReviewInit, DraftingInit, ReplyingInit
<1>3. ListTypes
  <2>1. tstate \in [Target -> State]
    BY <1>2 DEF State
  <2>2. revisions \in [Target -> Seq(Revision)] /\ replies \in [Target -> Seq(Reply)]
    BY <1>2
  <2>3. inbox \subseteq InboxFile /\ IsFiniteSet(inbox)
    BY <1>2, FS_EmptySet
  <2>4. ReviewTypeOK /\ DraftingTypeOK /\ ReplyingTypeOK
    BY <1>2, IdleLocals DEF ReviewTypeOK, DraftingTypeOK, ReplyingTypeOK
  <2>5. \A r \in Reviewer : rv[r].pc = "edit" => rv[r].ref \in DOMAIN revisions[rv[r].tgt]
    BY <1>2 DEF IdleReviewer
  <2>6. QED BY <2>1, <2>2, <2>3, <2>4, <2>5 DEF ListTypes, ConversationTypeOK
<1>4. SuppressedIsListed
  BY <1>2 DEF SuppressedIsListed
<1>5. ReviewLists
  BY <1>2 DEF ReviewLists, IdleReviewer
<1>6. RowAtHand /\ ReplyLists /\ QueueIsOpen /\ RowsAreOwned
  BY <1>2 DEF RowAtHand, ReplyLists, QueueIsOpen, RowsAreOwned, Holds, OpenPC, SettledPC,
     IdleReplier
<1>7. QED BY <1>3, <1>4, <1>5, <1>6 DEF ListInv

LEMMA ListNext == ListInv /\ [Next]_vars => ListInv'
<1>1. SUFFICES ASSUME ListInv, [Next]_vars PROVE ListInv'
  OBVIOUS
<1>2. ASSUME UNCHANGED <<tstate, emailSupp, revisions, replies, rv, dr, rp>>,
             inbox' \subseteq InboxFile, IsFiniteSet(inbox')
      PROVE  ListInv'
  <2>1. /\ RowAtHand' /\ ReplyLists' /\ QueueIsOpen' /\ RowsAreOwned'
        /\ \A t \in Target : Listed(t) => Listed(t)'
    BY <1>1, <1>2, QuietStep
  <2>2. SuppressedIsListed'
    BY <1>1, <1>2, <2>1, StayKeeps
  <2>3. ListTypes' /\ ReviewLists'
    BY <1>1, <1>2 DEF ListInv, ListTypes, ConversationTypeOK, ReviewTypeOK, DraftingTypeOK,
       ReplyingTypeOK, ReviewLists
  <2>4. QED BY <2>1, <2>2, <2>3 DEF ListInv
<1>3. inbox \subseteq InboxFile /\ IsFiniteSet(inbox)
  BY <1>1 DEF ListInv, ListTypes, ConversationTypeOK
<1>4. CASE UNCHANGED vars
  BY <1>2, <1>3, <1>4 DEF vars, convVars, dbVars
<1>5. CASE FlipSwitch
  BY <1>2, <1>3, <1>5 DEF FlipSwitch
<1>6. ASSUME NEW t \in Target, Arrive(t) PROVE ListInv'
  <2>1. PICK b \in BOOLEAN :
            LET n == Cardinality({f \in inbox : f.target = t})
            IN  n < MaxFiles
                /\ inbox' = inbox \cup {[target |-> t, no |-> n + 1, own |-> b]}
    BY <1>6 DEF Arrive
  <2> DEFINE n == Cardinality({f \in inbox : f.target = t})
             file == [target |-> t, no |-> n + 1, own |-> b]
  <2>2. n \in Nat
    BY <1>3, FS_Subset, FS_CardinalityType
  <2>3. inbox' = inbox \cup {file}
    BY <2>1
  <2> HIDE DEF n
  <2>4. file \in InboxFile
    BY <2>2 DEF InboxFile
  <2> HIDE DEF file
  <2>5. inbox' \subseteq InboxFile /\ IsFiniteSet(inbox')
    BY <1>3, <2>3, <2>4, FS_AddElement
  <2>6. QED BY <1>2, <1>6, <2>5 DEF Arrive, dbVars
<1>7. QED
  BY <1>1, <1>4, <1>5, <1>6, ReviewKeeps, SendKeeps, DraftKeeps, ReplyKeeps DEF Next

\* What every process of the cycle keeps, whatever runs beside it.
THEOREM ListInvariance == Spec => []ListInv
BY ListInit, ListNext, PTL DEF Spec

\* A suppressed target is listed, or another address unsubscribed for it, with
\* any number of reviewers, senders, drafters and repliers side by side.
THEOREM SuppressionIsListed == Spec => []SuppressedIsListed
<1>1. ListInv => SuppressedIsListed
  BY DEF ListInv
<1>2. QED BY <1>1, ListInvariance, PTL

-----------------------------------------------------------------------------
\* The other rows.  An audit row has states of the table.
LEMMA AuditRow ==
  ASSUME RowTypes, NEW t \in Target, NEW from \in State, NEW to \in State,
         InsertTransition(t, from, to)
  PROVE  transitions' \in [Target -> Seq(TransitionRow)]
<1> DEFINE row == [from |-> from, to |-> to]
<1>1. row \in TransitionRow
  BY DEF TransitionRow
<1>2. transitions' = [transitions EXCEPT ![t] = Append(@, row)]
  BY DEF InsertTransition
<1> HIDE DEF row
<1>3. QED BY <1>1, <1>2, AppendedRow DEF RowTypes, DBTypeOK

\* Steps of the other stages: they append to the audit trail and the decisions
\* and list addresses.
LEMMA RowsStay ==
  ASSUME RowTypes, tstate' \in [Target -> State], revisions' \in [Target -> Seq(Revision)],
         UNCHANGED <<domainSupp, profile, gateLog, outbox, messages, sd>>,
         killFile' \in KillFile, emailSupp' \subseteq Target,
         transitions' \in [Target -> Seq(TransitionRow)],
         reviews' \in [Target -> Seq(ReviewRow)],
         \A t \in Target : reviews[t] # <<>> => reviews'[t] # <<>>
  PROVE  RowTypes'
<1>1. DBTypeOK' /\ SendingTypeOK'
  BY DEF RowTypes, DBTypeOK, SendingTypeOK
<1>2. \A s \in Sender : sd[s].tgt \in Target
  BY DEF RowTypes, SendingTypeOK, SenderLocal
<1>3. QED BY <1>1, <1>2 DEF RowTypes

LEMMA ReviewRows ==
  ASSUME ListInv, ListInv', RowTypes, NEW r \in Reviewer, ReviewTurn(r)
  PROVE  RowTypes'
<1>1. /\ ReviewStep(r) /\ UNCHANGED sd
      /\ rv[r] \in ReviewerLocal /\ rv[r].tgt \in Target
      /\ tstate' \in [Target -> State] /\ revisions' \in [Target -> Seq(Revision)]
  BY DEF ReviewTurn, ListInv, ListTypes, ReviewTypeOK, ReviewerLocal
<1>2. UNCHANGED <<domainSupp, profile, gateLog, outbox, messages, killFile>>
  BY <1>1 DEF ReviewStep, Submit, CheckState, CheckSwitch, ReadLatest, InsertEdit,
     RunDraftGate, CheckListed, InsertSuppression, InsertReview, MoveDecided, AuditDecided,
     CutReview, Refuse, dbVars
<1>3. /\ InsertSuppression(r) \/ UNCHANGED emailSupp
      /\ AuditDecided(r) \/ UNCHANGED transitions
      /\ InsertReview(r) \/ UNCHANGED reviews
  BY <1>1 DEF ReviewStep, Submit, CheckState, CheckSwitch, ReadLatest, InsertEdit,
     RunDraftGate, CheckListed, InsertSuppression, InsertReview, MoveDecided, AuditDecided,
     CutReview, Refuse, dbVars
<1>4. emailSupp' \subseteq Target
  BY <1>1, <1>3 DEF InsertSuppression, RowTypes, DBTypeOK
<1>5. transitions' \in [Target -> Seq(TransitionRow)]
  <2>1. rv[r].dec \in Decision
    BY <1>1 DEF ReviewerLocal
  <2>2. DecisionTransition(rv[r].dec) \in State /\ "awaiting_review" \in State
    BY <2>1 DEF DecisionTransition, Decision, APPROVAL_DECISIONS, State
  <2>3. QED BY <1>1, <1>3, <2>2, AuditRow DEF AuditDecided, RowTypes, DBTypeOK
<1>6. /\ reviews' \in [Target -> Seq(ReviewRow)]
      /\ \A t \in Target : reviews[t] # <<>> => reviews'[t] # <<>>
  <2>1. CASE UNCHANGED reviews
    BY <2>1 DEF RowTypes, DBTypeOK
  <2>2. CASE InsertReview(r)
    <3> DEFINE row == [decision |-> rv[r].dec, revision |-> rv[r].ref]
    <3>1. row \in ReviewRow
      BY <1>1 DEF ReviewRow, ReviewerLocal
    <3>2. reviews' = [reviews EXCEPT ![rv[r].tgt] = Append(@, row)]
      BY <2>2 DEF InsertReview
    <3>3. reviews \in [Target -> Seq(ReviewRow)]
      BY DEF RowTypes, DBTypeOK
    <3> HIDE DEF row
    <3>4. reviews' \in [Target -> Seq(ReviewRow)]
      BY <1>1, <3>1, <3>2, <3>3, AppendedRow
    <3>5. reviews'[rv[r].tgt] # <<>>
      <4>1. reviews[rv[r].tgt] \in Seq(ReviewRow)
        BY <1>1, <3>3
      <4>2. reviews'[rv[r].tgt] = Append(reviews[rv[r].tgt], row)
        BY <1>1, <3>2, <3>3
      <4>3. QED BY <3>1, <4>1, <4>2, AppendProperties
    <3>6. QED BY <1>1, <3>2, <3>3, <3>4, <3>5
  <2>3. QED BY <1>3, <2>1, <2>2
<1>7. QED BY <1>1, <1>2, <1>4, <1>5, <1>6, RowsStay DEF RowTypes, DBTypeOK

LEMMA DraftRows ==
  ASSUME ListInv, ListInv', RowTypes, NEW d \in Drafter, DraftTurn(d)
  PROVE  RowTypes'
<1>1. /\ DraftStep(d) /\ UNCHANGED sd
      /\ dr[d].tgt \in Target /\ dr[d].from \in State
      /\ tstate' \in [Target -> State] /\ revisions' \in [Target -> Seq(Revision)]
  BY DEF DraftTurn, ListInv, ListTypes, DraftingTypeOK, DrafterLocal
<1>2. /\ UNCHANGED <<emailSupp, domainSupp, profile, gateLog, outbox, messages, killFile, reviews>>
      /\ AuditDrafted(d) \/ AuditToReview(d) \/ AuditDraftFailed(d) \/ UNCHANGED transitions
  BY <1>1 DEF DraftStep, SelectDrafts, ReadDraftTarget, EndDrafts, ReadReply, CheckCap,
     EnterLoop, Answer, MoveDrafted, AuditDrafted, InsertDraft, MoveToReview, AuditToReview,
     PickLatest, JudgeDraft, RaiseInDraft, ReadDraftDied, MoveDraftFailed, AuditDraftFailed,
     RaiseInDraftHandler, CutDraft, RefuseDraft, convVars, dbVars
<1>3. transitions' \in [Target -> Seq(TransitionRow)]
  <2>1. {"drafted", "awaiting_review", "failed"} \subseteq State
    BY DEF State
  <2>2. QED
    BY <1>1, <1>2, <2>1, AuditRow DEF AuditDrafted, AuditToReview, AuditDraftFailed,
       RowTypes, DBTypeOK
<1>4. QED BY <1>1, <1>2, <1>3, RowsStay DEF RowTypes, DBTypeOK

LEMMA ReplyRows ==
  ASSUME ListInv, ListInv', RowTypes, NEW p \in Replier, ReplyTurn(p)
  PROVE  RowTypes'
<1>1. /\ ReplyStep(p) /\ UNCHANGED sd
      /\ rp[p].tgt \in Target /\ rp[p].st \in State
      /\ tstate' \in [Target -> State] /\ revisions' \in [Target -> Seq(Revision)]
  BY DEF ReplyTurn, ListInv, ListTypes, ReplyingTypeOK, ReplierLocal
<1>2. /\ UNCHANGED <<domainSupp, profile, gateLog, outbox, messages, killFile, reviews>>
      /\ \/ AuditReplied(p) \/ AuditRouted(p) \/ AuditSuppressed(p) \/ AuditReplyFailed(p)
         \/ UNCHANGED transitions
      /\ InsertUnsubscribe(p) \/ UNCHANGED emailSupp
  BY <1>1 DEF ReplyStep, StartReplies, FetchFile, EndFetch, ReadLinked, MoveReplied,
     AuditReplied, PickReply, EndReplies, EnterPipeline, Classify, ReadRoute, RecordVerdict,
     MoveRouted, AuditRouted, CheckReplyListed, InsertUnsubscribe, MoveSuppressed,
     AuditSuppressed, RaiseInReply, ReadReplyDied, MoveReplyFailed, AuditReplyFailed,
     RaiseInReplyHandler, CutReplies, convVars, dbVars
<1>3. transitions' \in [Target -> Seq(TransitionRow)]
  <2>1. {"dry_run_sent", "replied", "routed", "suppressed", "failed"} \subseteq State
    BY DEF State
  <2>2. QED
    BY <1>1, <1>2, <2>1, AuditRow DEF AuditReplied, AuditRouted, AuditSuppressed,
       AuditReplyFailed, RowTypes, DBTypeOK
<1>4. emailSupp' \subseteq Target
  BY <1>1, <1>2 DEF InsertUnsubscribe, RowTypes, DBTypeOK
<1>5. QED BY <1>1, <1>2, <1>3, <1>4, RowsStay DEF RowTypes, DBTypeOK

LEMMA SendRows ==
  ASSUME ListInv', RowTypes, NEW s \in Sender, SendTurn(s)
  PROVE  RowTypes'
<1> DEFINE l == sd[s]
<1>0. /\ SendStep(s) /\ l \in SenderLocal /\ sd \in [Sender -> SenderLocal] /\ DBTypeOK
      /\ l.tgt \in Target /\ (ReviewSeen(l) => reviews[l.tgt] # <<>>)
      /\ tstate' \in [Target -> State]
  BY DEF RowTypes, SendingTypeOK, SendTurn, SenderLocal, ListInv, ListTypes
\* The rows but those of the send stage stay.
<1>1. ASSUME DBTypeOK', UNCHANGED reviews, NEW m \in SenderLocal, sd' = [sd EXCEPT ![s] = m],
             ReviewSeen(m) => m.tgt = l.tgt /\ reviews[l.tgt] # <<>>
      PROVE  RowTypes'
  <2>1. SendingTypeOK'
    BY <1>0, <1>1 DEF SendingTypeOK
  <2>2. sd'[s] = m /\ \A q \in Sender \ {s} : sd'[q] = sd[q]
    BY <1>0, <1>1
  <2>3. \A q \in Sender : ReviewSeen(sd'[q]) => reviews'[sd'[q].tgt] # <<>>
    BY <1>0, <1>1, <2>2 DEF RowTypes
  <2>4. QED BY <1>1, <2>1, <2>3 DEF RowTypes
<1>2. ASSUME UNCHANGED dbVars PROVE DBTypeOK' /\ UNCHANGED reviews
  BY <1>0, <1>2 DEF dbVars, DBTypeOK
\* Only the place changes, and it is not one behind the review check.
<1>3. ASSUME DBTypeOK', UNCHANGED reviews, NEW pc \in SendPC, SendGoto(s, pc),
             pc \notin {"revision", "newest", "reread", "record"}
      PROVE  RowTypes'
  <2> DEFINE m == [l EXCEPT !.pc = pc]
  <2>1. m \in SenderLocal /\ sd' = [sd EXCEPT ![s] = m] /\ ~ReviewSeen(m)
    BY <1>0, <1>3 DEF SendGoto, SenderLocal, ReviewSeen
  <2> HIDE DEF m
  <2>2. QED BY <1>1, <1>3, <2>1
<1>4. ASSUME NEW ok \in BOOLEAN, NEW pc \in SendPC, Check(s, ok, pc),
             pc \in {"revision", "newest"} => ReviewSeen(l),
             pc = "record" /\ ok => ReviewSeen(l), pc # "reread"
      PROVE  RowTypes'
  <2> DEFINE m == [l EXCEPT !.pc = pc, !.clean = l.clean /\ ok]
  <2>1. m \in SenderLocal /\ sd' = [sd EXCEPT ![s] = m]
    BY <1>0, <1>4 DEF Check, SenderLocal
  <2>2. /\ m.pc = pc /\ m.tgt = l.tgt
        /\ m.clean => ok
    BY <1>0 DEF SenderLocal
  <2>3. ReviewSeen(m) => m.tgt = l.tgt /\ reviews[l.tgt] # <<>>
    <3> HIDE DEF m
    <3> QED BY <1>0, <1>4, <2>2 DEF ReviewSeen
  <2> HIDE DEF m
  <2>4. QED BY <1>1, <1>2, <1>4, <2>1, <2>3 DEF Check
<1>5. IdleSender \in SenderLocal
  BY TargetAssumption DEF IdleSender, SenderLocal, SendPC, State
<1>6. ASSUME DBTypeOK', UNCHANGED reviews, NextTarget(s) PROVE RowTypes'
  <2> DEFINE m == [IdleSender EXCEPT !.pc = "next", !.queue = l.queue]
  <2>1. m \in SenderLocal /\ m.pc = "next"
    BY <1>0, <1>5 DEF SenderLocal, SendPC
  <2>2. sd' = [sd EXCEPT ![s] = m]
    BY <1>6 DEF NextTarget
  <2> HIDE DEF m
  <2>3. QED BY <1>1, <1>6, <2>1, <2>2 DEF ReviewSeen
<1>7. CASE Select(s)
  <2> DEFINE m == [l EXCEPT !.pc = "next", !.queue = Approved]
  <2>1. m \in SenderLocal /\ m.pc = "next" /\ sd' = [sd EXCEPT ![s] = m]
    BY <1>0, <1>7 DEF Select, SenderLocal, SendPC, Approved
  <2> HIDE DEF m
  <2>2. QED BY <1>1, <1>2, <1>7, <2>1 DEF Select, ReviewSeen
<1>8. CASE ReadTarget(s)
  <2>1. PICK t \in l.queue, m \in SenderLocal :
            sd' = [sd EXCEPT ![s] = m] /\ m.pc \in {"log", "switch"}
    <3>1. PICK t \in l.queue :
             \/ sd' = [sd EXCEPT ![s].pc = "log", ![s].queue = @ \ {t}, ![s].tgt = t]
             \/ sd' = [sd EXCEPT ![s].pc = "switch", ![s].queue = @ \ {t},
                                 ![s].tgt = t, ![s].st = tstate[t], ![s].clean = TRUE]
      BY <1>8 DEF ReadTarget
    <3>2. t \in Target /\ tstate[t] \in State
      BY <1>0 DEF SenderLocal, DBTypeOK
    <3> DEFINE m1 == [l EXCEPT !.pc = "log", !.queue = l.queue \ {t}, !.tgt = t]
               m2 == [l EXCEPT !.pc = "switch", !.queue = l.queue \ {t}, !.tgt = t,
                               !.st = tstate[t], !.clean = TRUE]
    <3>3. m1 \in SenderLocal /\ m2 \in SenderLocal /\ m1.pc = "log" /\ m2.pc = "switch"
      BY <1>0, <3>2 DEF SenderLocal, SendPC
    <3>4. sd' = [sd EXCEPT ![s] = m1] \/ sd' = [sd EXCEPT ![s] = m2]
      BY <1>0, <3>1
    <3> HIDE DEF m1, m2
    <3>5. QED BY <3>3, <3>4
  <2>2. QED BY <1>1, <1>2, <1>8, <2>1 DEF ReadTarget, ReviewSeen
<1>9. CASE EndBatch(s) \/ CutSend(s)
  <2>1. IdleSender.pc = "idle"
    BY DEF IdleSender
  <2>2. QED BY <1>1, <1>2, <1>5, <1>9, <2>1 DEF EndBatch, CutSend, ReviewSeen
<1>10. CASE GateSwitch(s)
  <2>1. CASE Engaged
    BY <1>4, <1>10, <2>1 DEF GateSwitch, SendPC
  <2>2. CASE ~Engaged
    BY <1>4, <1>10, <2>2 DEF GateSwitch, SendPC
  <2>3. QED BY <2>1, <2>2
<1>11. CASE GateEmail(s)
  BY <1>4, <1>11 DEF GateEmail, SendPC
<1>12. CASE GateDomain(s)
  BY <1>4, <1>12 DEF GateDomain, SendPC
<1>13. CASE GateReview(s)
  <2> DEFINE m1 == [l EXCEPT !.pc = "revision", !.ref = LatestReview(l.tgt).revision]
             m2 == [l EXCEPT !.pc = "record", !.clean = FALSE]
  <2>1. CASE reviews[l.tgt] # <<>> /\ sd' = [sd EXCEPT ![s] = m1]
    <3>1. LatestReview(l.tgt) \in ReviewRow
      <4>1. reviews[l.tgt] \in Seq(ReviewRow) /\ reviews[l.tgt] # <<>>
        BY <1>0, <2>1 DEF DBTypeOK
      <4>2. Len(reviews[l.tgt]) \in DOMAIN reviews[l.tgt]
        BY <4>1, EmptySeq, LenProperties
      <4>3. QED BY <4>1, <4>2 DEF LatestReview
    <3>2. m1 \in SenderLocal /\ m1.tgt = l.tgt
      BY <1>0, <3>1 DEF SenderLocal, SendPC, ReviewRow
    <3> HIDE DEF m1
    <3>3. QED BY <1>1, <1>2, <1>13, <2>1, <3>2 DEF GateReview
  <2>2. CASE sd' = [sd EXCEPT ![s] = m2]
    <3>1. m2 \in SenderLocal /\ m2.pc = "record" /\ m2.clean = FALSE
      BY <1>0 DEF SenderLocal, SendPC
    <3> HIDE DEF m2
    <3>2. QED BY <1>1, <1>2, <1>13, <2>2, <3>1 DEF GateReview, ReviewSeen
  <2>3. QED BY <1>0, <1>13, <2>1, <2>2 DEF GateReview
<1>14. CASE GateRevision(s) \/ GateNewest(s)
  <2>1. ReviewSeen(l)
    BY <1>14 DEF GateRevision, GateNewest, SendAt, ReviewSeen
  <2>2. CASE GateRevision(s)
    <3> DEFINE ok == revisions[l.tgt][l.ref].passed
               m == [l EXCEPT !.pc = "newest", !.clean = l.clean /\ ok]
    <3>1. m \in SenderLocal /\ m.tgt = l.tgt
      BY <1>0 DEF SenderLocal, SendPC
    <3>2. sd' = [sd EXCEPT ![s] = m]
      BY <1>0, <2>2 DEF GateRevision, Check
    <3> HIDE DEF m
    <3>3. QED BY <1>0, <1>1, <1>2, <2>1, <2>2, <3>1, <3>2 DEF GateRevision, Check
  <2>3. CASE GateNewest(s)
    <3>1. HasMaxNumber(l.tgt, l.ref) \in BOOLEAN
      BY DEF HasMaxNumber
    <3>2. QED BY <1>4, <2>1, <2>3, <3>1 DEF GateNewest, SendPC
  <2>4. QED BY <1>14, <2>2, <2>3
<1>15. CASE RecordGate(s)
  <2> DEFINE row == [target |-> l.tgt, allowed |-> l.clean, verified |-> l.ref]
  <2>1. row \in GateRow
    BY <1>0 DEF GateRow, SenderLocal
  <2>2. gateLog \in Seq(GateRow) /\ Len(gateLog) + 1 \in Nat
    BY <1>0, LenProperties DEF DBTypeOK
  <2>3. gateLog' = Append(gateLog, row)
    BY <1>15 DEF RecordGate
  <2> HIDE DEF row
  <2>4. gateLog' \in Seq(GateRow)
    BY <2>1, <2>2, <2>3, AppendProperties
  <2>5. DBTypeOK' /\ UNCHANGED reviews
    BY <1>0, <1>15, <2>4 DEF RecordGate, DBTypeOK
  <2>6. CASE l.clean
    <3> DEFINE m == [l EXCEPT !.pc = "reread", !.step = Len(gateLog) + 1]
    <3>1. m \in SenderLocal /\ m.tgt = l.tgt /\ sd' = [sd EXCEPT ![s] = m]
      BY <1>0, <1>15, <2>2, <2>6 DEF RecordGate, SenderLocal, SendPC
    <3>2. reviews[l.tgt] # <<>>
      BY <1>0, <1>15, <2>6 DEF RecordGate, SendAt, ReviewSeen
    <3> HIDE DEF m
    <3>3. QED BY <1>1, <2>5, <3>1, <3>2
  <2>7. CASE ~l.clean
    BY <1>3, <1>15, <2>5, <2>7 DEF RecordGate, SendPC
  <2>8. QED BY <2>6, <2>7
<1>16. CASE RereadReview(s)
  <2> DEFINE m == [l EXCEPT !.pc = "file", !.text = LatestReview(l.tgt).revision]
  <2>1. LatestReview(l.tgt) \in ReviewRow
    <3>1. reviews[l.tgt] \in Seq(ReviewRow) /\ reviews[l.tgt] # <<>>
      BY <1>0, <1>16 DEF DBTypeOK, RereadReview, SendAt, ReviewSeen
    <3>2. Len(reviews[l.tgt]) \in DOMAIN reviews[l.tgt]
      BY <3>1, EmptySeq, LenProperties
    <3>3. QED BY <3>1, <3>2 DEF LatestReview
  <2>2. m \in SenderLocal /\ m.pc = "file" /\ sd' = [sd EXCEPT ![s] = m]
    BY <1>0, <1>16, <2>1 DEF RereadReview, SenderLocal, SendPC, ReviewRow
  <2> HIDE DEF m
  <2>3. QED BY <1>1, <1>2, <1>16, <2>2 DEF RereadReview, ReviewSeen
<1>17. Artifact(s) \in Message
  BY <1>0 DEF Artifact, Message, SenderLocal
<1>18. CASE WriteArtifact(s) \/ InsertMessage(s)
  <2>1. DBTypeOK' /\ UNCHANGED reviews
    BY <1>0, <1>17, <1>18 DEF WriteArtifact, InsertMessage, DBTypeOK
  <2>2. QED BY <1>3, <1>18, <2>1 DEF WriteArtifact, InsertMessage, SendPC
<1>19. CASE MoveSent(s) \/ MoveFailed(s)
  <2>1. DBTypeOK' /\ UNCHANGED reviews
    BY <1>0, <1>19 DEF MoveSent, MoveFailed, DBTypeOK
  <2>2. QED BY <1>3, <1>19, <2>1 DEF MoveSent, MoveFailed, SendPC
<1>20. CASE AuditSent(s) \/ AuditFailed(s)
  <2>1. transitions' \in [Target -> Seq(TransitionRow)]
    <3>1. {"approved", "dry_run_sent", "failed"} \subseteq State /\ l.st \in State
      BY <1>0 DEF State, SenderLocal
    <3>2. QED BY <1>0, <1>20, <3>1, AuditRow DEF AuditSent, AuditFailed
  <2>2. DBTypeOK' /\ UNCHANGED reviews
    BY <1>0, <1>20, <2>1 DEF AuditSent, AuditFailed, DBTypeOK
  <2>3. QED BY <1>3, <1>6, <1>20, <2>2 DEF AuditSent, AuditFailed, SendPC
<1>21. CASE LogSend(s) \/ RaiseInBookkeeping(s)
  BY <1>2, <1>6, <1>21 DEF LogSend, RaiseInBookkeeping
<1>22. CASE RaiseInSend(s)
  BY <1>2, <1>3, <1>22 DEF RaiseInSend, SendPC
<1>23. CASE ReadDied(s)
  <2> DEFINE m == [l EXCEPT !.pc = "failmove", !.st = tstate[l.tgt]]
  <2>1. m \in SenderLocal /\ m.pc = "failmove" /\ sd' = [sd EXCEPT ![s] = m]
    <3>1. tstate[l.tgt] \in State
      BY <1>0 DEF DBTypeOK
    <3>2. QED BY <1>0, <1>23, <3>1 DEF ReadDied, SenderLocal, SendPC
  <2> HIDE DEF m
  <2>2. QED BY <1>1, <1>2, <1>23, <2>1 DEF ReadDied, ReviewSeen
<1>24. QED
  BY <1>0, <1>7, <1>8, <1>9, <1>10, <1>11, <1>12, <1>13, <1>14, <1>15, <1>16, <1>18,
     <1>19, <1>20, <1>21, <1>22, <1>23 DEF SendStep

LEMMA RowsInit == Init => RowTypes
<1>1. SUFFICES ASSUME Init PROVE RowTypes
  OBVIOUS
<1>2. DBTypeOK
  <2>1. /\ tstate \in [Target -> State] /\ profile \in [Target -> Profile]
        /\ emailSupp \subseteq Target /\ domainSupp \subseteq Domain /\ killFile \in KillFile
        /\ outbox \subseteq Message /\ messages \subseteq Message
    BY <1>1, ProfilesAssumption DEF Init, State, Profile, KillFile
  <2>2. /\ transitions \in [Target -> Seq(TransitionRow)]
        /\ revisions \in [Target -> Seq(Revision)]
        /\ reviews \in [Target -> Seq(ReviewRow)] /\ gateLog \in Seq(GateRow)
    BY <1>1 DEF Init
  <2>3. QED BY <2>1, <2>2 DEF DBTypeOK
<1>3. IdleSender \in SenderLocal /\ IdleSender.pc = "idle"
  BY TargetAssumption DEF IdleSender, SenderLocal, SendPC, State
<1>4. SendingTypeOK /\ \A s \in Sender : ~ReviewSeen(sd[s])
  BY <1>1, <1>3 DEF Init, SendingInit, SendingTypeOK, ReviewSeen
<1>5. QED BY <1>2, <1>4 DEF RowTypes

LEMMA RowsNext == ListInv /\ ListInv' /\ RowTypes /\ [Next]_vars => RowTypes'
<1>1. SUFFICES ASSUME ListInv, ListInv', RowTypes, [Next]_vars PROVE RowTypes'
  OBVIOUS
<1>2. ASSUME UNCHANGED <<tstate, transitions, revisions, reviews, emailSupp, domainSupp,
                         profile, gateLog, outbox, messages, sd>>, killFile' \in KillFile
      PROVE  RowTypes'
  BY <1>1, <1>2, RowsStay DEF RowTypes, DBTypeOK
<1>3. killFile \in KillFile
  BY <1>1 DEF RowTypes, DBTypeOK
<1>4. CASE UNCHANGED vars
  BY <1>2, <1>3, <1>4 DEF vars, convVars, dbVars
<1>5. CASE FlipSwitch
  BY <1>2, <1>5 DEF FlipSwitch, KillFile
<1>6. ASSUME NEW t \in Target, Arrive(t) PROVE RowTypes'
  BY <1>2, <1>3, <1>6 DEF Arrive, dbVars
<1>7. QED
  BY <1>1, <1>4, <1>5, <1>6, ReviewRows, SendRows, DraftRows, ReplyRows DEF Next

LEMMA RowsAreTyped == Spec => []RowTypes
BY ListInvariance, RowsInit, RowsNext, PTL DEF Spec

\* Rows, files and locals keep their types, whatever runs side by side.
THEOREM ConversationTypes == Spec => []TypeOK
<1>1. ListInv /\ RowTypes => TypeOK
  BY DEF ListInv, ListTypes, RowTypes, TypeOK
<1>2. QED BY <1>1, ListInvariance, RowsAreTyped, PTL

-----------------------------------------------------------------------------
\* The rows the cap counts.
LEMMA CountedRows ==
  ASSUME RowTypes, NEW t \in Target
  PROVE  /\ FollowUps(t) \in Nat
         /\ transitions'[t] = transitions[t] => FollowUps(t)' = FollowUps(t)
<1> DEFINE n == Len(transitions[t])
           rows == {i \in DOMAIN transitions[t] :
                        transitions[t][i] = [from |-> "routed", to |-> "drafted"]}
<1>1. transitions[t] \in Seq(TransitionRow)
  BY DEF RowTypes, DBTypeOK
<1>2. n \in Nat /\ DOMAIN transitions[t] = 1..n
  BY <1>1, LenProperties
<1>3. IsFiniteSet(rows)
  <2>1. IsFiniteSet(1..n)
    BY <1>2, FS_Interval
  <2>2. rows \subseteq 1..n
    BY <1>2
  <2>3. QED BY <2>1, <2>2, FS_Subset
<1>4. Cardinality(rows) \in Nat
  BY <1>3, FS_CardinalityType
<1>5. QED BY <1>4 DEF FollowUps

LEMMA CountedInsert ==
  ASSUME RowTypes, NEW t \in Target, NEW from \in State, NEW to \in State,
         InsertTransition(t, from, to)
  PROVE  /\ FollowUps(t)' \in Nat /\ FollowUps(t)' <= FollowUps(t) + 1
         /\ FollowUps(t)' = IF from = "routed" /\ to = "drafted"
                            THEN FollowUps(t) + 1 ELSE FollowUps(t)
         /\ \A u \in Target \ {t} : FollowUps(u)' = FollowUps(u)
<1> DEFINE row == [from |-> from, to |-> to]
           drafted == [from |-> "routed", to |-> "drafted"]
           n == Len(transitions[t])
           rows == {i \in DOMAIN transitions[t] : transitions[t][i] = drafted}
           more == {i \in DOMAIN transitions'[t] : transitions'[t][i] = drafted}
<1>1. /\ row \in TransitionRow
      /\ transitions \in [Target -> Seq(TransitionRow)] /\ transitions[t] \in Seq(TransitionRow)
      /\ transitions' = [transitions EXCEPT ![t] = Append(@, row)]
      /\ row = drafted <=> from = "routed" /\ to = "drafted"
  BY DEF InsertTransition, RowTypes, DBTypeOK, TransitionRow
<1> HIDE DEF row, drafted
<1>2. \A u \in Target \ {t} : FollowUps(u)' = FollowUps(u)
  BY <1>1, CountedRows
<1>3. /\ n \in Nat /\ n + 1 \notin 1..n
      /\ DOMAIN transitions[t] = 1..n /\ DOMAIN transitions'[t] = 1..n \cup {n + 1}
      /\ \A i \in 1..n : transitions'[t][i] = transitions[t][i]
      /\ transitions'[t][n + 1] = row
  BY <1>1, AppendedRow, LenProperties
<1>4. IsFiniteSet(rows)
  <2>1. IsFiniteSet(1..n)
    BY <1>3, FS_Interval
  <2>2. rows \subseteq 1..n
    BY <1>3
  <2>3. QED BY <2>1, <2>2, FS_Subset
<1>5. Cardinality(rows) = FollowUps(t) /\ Cardinality(more) = FollowUps(t)'
  BY DEF FollowUps, drafted
<1>6. CASE row # drafted
  <2>1. more = rows
    BY <1>3, <1>6
  <2>2. FollowUps(t)' = FollowUps(t) /\ FollowUps(t) \in Nat
    BY <1>5, <2>1, CountedRows
  <2>3. QED BY <1>1, <1>2, <1>6, <2>2
<1>7. CASE row = drafted
  <2>1. more = rows \cup {n + 1} /\ n + 1 \notin rows
    BY <1>3, <1>7
  <2>2. Cardinality(more) = Cardinality(rows) + 1
    BY <1>4, <2>1, FS_AddElement
  <2>3. FollowUps(t)' \in Nat /\ FollowUps(t)' = FollowUps(t) + 1 /\ FollowUps(t) \in Nat
    BY <1>5, <2>2, CountedRows
  <2>4. QED BY <1>1, <1>2, <1>7, <2>3
<1>8. QED BY <1>6, <1>7

\* The places are held by drafters, so there are no more than drafters.
LEMMA PlacesCount ==
  ASSUME NEW t \in Target
  PROVE  /\ Cardinality(Drafter) \in Nat /\ Cardinality(Drafter) >= 1
         /\ FollowUpCap \in Nat /\ FollowUpCap = MaxFollowUps + Cardinality(Drafter) - 1
         /\ \A P \in SUBSET Drafter :
                /\ IsFiniteSet(P) /\ Cardinality(P) \in Nat
                /\ Cardinality(P) <= Cardinality(Drafter)
                /\ \A Q \in SUBSET P : Cardinality(Q) <= Cardinality(P)
<1>1. IsFiniteSet(Drafter) /\ Drafter # {} /\ MaxFollowUps \in Nat
  BY DraftingAssumption
<1>2. Cardinality(Drafter) \in Nat /\ Cardinality(Drafter) # 0
  BY <1>1, FS_CardinalityType, FS_EmptySet
<1>3. FollowUpCap \in Nat /\ FollowUpCap = MaxFollowUps + Cardinality(Drafter) - 1
  BY <1>1, <1>2 DEF FollowUpCap
<1>4. ASSUME NEW P \in SUBSET Drafter
      PROVE  /\ IsFiniteSet(P) /\ Cardinality(P) \in Nat
             /\ Cardinality(P) <= Cardinality(Drafter)
             /\ \A Q \in SUBSET P : Cardinality(Q) <= Cardinality(P)
  BY <1>1, FS_Subset, FS_CardinalityType
<1>5. QED BY <1>2, <1>3, <1>4

\* Steps of the other stages count for nothing.
LEMMA CapStays ==
  ASSUME CapHolds, UNCHANGED dr, \A t \in Target : FollowUps(t)' = FollowUps(t)
  PROVE  CapHolds'
<1>1. \A t \in Target : Places(t)' = Places(t)
  BY DEF Places
<1>2. QED BY <1>1 DEF CapHolds, FollowUpCap

\* One drafter goes on: it may take a place while the count is below the cap.
LEMMA PlaceTaken ==
  ASSUME RowTypes, CapHolds, NEW d \in Drafter, NEW m, dr \in [Drafter -> DrafterLocal],
         dr' = [dr EXCEPT ![d] = m], \A t \in Target : FollowUps(t)' = FollowUps(t),
         \A t \in Target : HoldsPlace(m, t) =>
             HoldsPlace(dr[d], t) \/ FollowUps(t) < MaxFollowUps
  PROVE  CapHolds'
<1>1. SUFFICES ASSUME NEW t \in Target
               PROVE  FollowUps(t)' + Cardinality(Places(t)') <= FollowUpCap
  BY DEF CapHolds, FollowUpCap
<1>2. /\ FollowUps(t) \in Nat /\ MaxFollowUps \in Nat /\ FollowUps(t)' = FollowUps(t)
      /\ FollowUps(t) + Cardinality(Places(t)) <= FollowUpCap
  BY CountedRows, DraftingAssumption DEF CapHolds
<1>3. Places(t) \in SUBSET Drafter /\ Places(t)' \in SUBSET Drafter
  BY DEF Places
<1>4. dr'[d] = m /\ \A e \in Drafter \ {d} : dr'[e] = dr[e]
  OBVIOUS
<1>5. CASE FollowUps(t) < MaxFollowUps
  <2>1. Cardinality(Places(t)') <= Cardinality(Drafter) /\ Cardinality(Places(t)') \in Nat
    BY <1>3, PlacesCount
  <2>2. QED BY <1>2, <1>5, <2>1, PlacesCount
<1>6. CASE HoldsPlace(m, t) => HoldsPlace(dr[d], t)
  <2>1. Places(t)' \subseteq Places(t)
    BY <1>4, <1>6 DEF Places
  <2>2. /\ Cardinality(Places(t)') <= Cardinality(Places(t))
        /\ Cardinality(Places(t)') \in Nat /\ Cardinality(Places(t)) \in Nat
    BY <1>3, <2>1, PlacesCount
  <2>3. QED BY <1>2, <2>2, PlacesCount
<1>7. QED BY <1>5, <1>6

\* The row is written and the place given up.
LEMMA PlaceCounted ==
  ASSUME RowTypes, CapHolds, NEW d \in Drafter, NEW m, dr \in [Drafter -> DrafterLocal],
         dr' = [dr EXCEPT ![d] = m], \A t \in Target : ~HoldsPlace(m, t),
         NEW u \in Target, \A t \in Target \ {u} : FollowUps(t)' = FollowUps(t),
         FollowUps(u)' \in Nat, FollowUps(u)' <= FollowUps(u) + 1,
         HoldsPlace(dr[d], u) \/ FollowUps(u)' = FollowUps(u)
  PROVE  CapHolds'
<1>1. SUFFICES ASSUME NEW t \in Target
               PROVE  FollowUps(t)' + Cardinality(Places(t)') <= FollowUpCap
  BY DEF CapHolds, FollowUpCap
<1>2. /\ FollowUps(t) \in Nat /\ FollowUps(t) + Cardinality(Places(t)) <= FollowUpCap
  BY CountedRows DEF CapHolds
<1>3. Places(t) \in SUBSET Drafter /\ Places(t)' = Places(t) \ {d}
  BY DEF Places
<1>4. /\ IsFiniteSet(Places(t)) /\ Cardinality(Places(t)) \in Nat
      /\ Cardinality(Places(t)') \in Nat
      /\ Cardinality(Places(t)') <= Cardinality(Places(t))
  BY <1>3, PlacesCount
<1>5. CASE FollowUps(t)' = FollowUps(t)
  BY <1>2, <1>4, <1>5, PlacesCount
<1>6. CASE t = u /\ HoldsPlace(dr[d], u)
  <2>1. d \in Places(t)
    BY <1>6 DEF Places
  <2>2. Cardinality(Places(t)') = Cardinality(Places(t)) - 1
    BY <1>3, <1>4, <2>1, FS_RemoveElement
  <2>3. QED BY <1>2, <1>4, <1>6, <2>2, PlacesCount
<1>7. QED BY <1>5, <1>6

LEMMA OtherRow ==
  ASSUME RowTypes, NEW t \in Target, NEW from \in State, NEW to \in State \ {"drafted"},
         UNCHANGED transitions \/ InsertTransition(t, from, to)
  PROVE  \A u \in Target : FollowUps(u)' = FollowUps(u)
<1>1. CASE UNCHANGED transitions
  BY <1>1, CountedRows
<1>2. CASE InsertTransition(t, from, to)
  BY <1>2, CountedInsert
<1>3. QED BY <1>1, <1>2

LEMMA ReviewCounts ==
  ASSUME ListInv, RowTypes, NEW r \in Reviewer, ReviewStep(r)
  PROVE  \A t \in Target : FollowUps(t)' = FollowUps(t)
<1>1. rv[r] \in ReviewerLocal /\ rv[r].tgt \in Target
  BY DEF ListInv, ListTypes, ReviewTypeOK, ReviewerLocal
<1>2. AuditDecided(r) \/ UNCHANGED transitions
  BY DEF ReviewStep, Submit, CheckState, CheckSwitch, ReadLatest, InsertEdit,
     RunDraftGate, CheckListed, InsertSuppression, InsertReview, MoveDecided, CutReview,
     Refuse, dbVars
<1>3. rv[r].dec \in Decision
  BY <1>1 DEF ReviewerLocal
<1>4. DecisionTransition(rv[r].dec) \in State \ {"drafted"} /\ "awaiting_review" \in State
  BY <1>3 DEF DecisionTransition, Decision, APPROVAL_DECISIONS, State
<1>5. QED BY <1>1, <1>2, <1>4, OtherRow DEF AuditDecided

LEMMA SendCounts ==
  ASSUME RowTypes, NEW s \in Sender, SendStep(s)
  PROVE  \A t \in Target : FollowUps(t)' = FollowUps(t)
<1>1. sd[s].tgt \in Target /\ sd[s].st \in State
  BY DEF RowTypes, SendingTypeOK, SenderLocal
<1>2. AuditSent(s) \/ AuditFailed(s) \/ UNCHANGED transitions
  BY DEF SendStep, Select, ReadTarget, EndBatch, GateSwitch, GateEmail, GateDomain,
     GateReview, GateRevision, GateNewest, RecordGate, RereadReview, WriteArtifact,
     InsertMessage, MoveSent, LogSend, RaiseInSend, ReadDied, MoveFailed,
     RaiseInBookkeeping, CutSend, Check, dbVars
<1>3. {"dry_run_sent", "failed"} \subseteq State \ {"drafted"} /\ "approved" \in State
  BY DEF State
<1>4. QED BY <1>1, <1>2, <1>3, OtherRow DEF AuditSent, AuditFailed

LEMMA ReplyCounts ==
  ASSUME ListInv, RowTypes, NEW p \in Replier, ReplyStep(p)
  PROVE  \A t \in Target : FollowUps(t)' = FollowUps(t)
<1>1. rp[p].tgt \in Target /\ rp[p].st \in State
  BY DEF ListInv, ListTypes, ReplyingTypeOK, ReplierLocal
<1>2. \/ AuditReplied(p) \/ AuditRouted(p) \/ AuditSuppressed(p) \/ AuditReplyFailed(p)
      \/ UNCHANGED transitions
  BY DEF ReplyStep, StartReplies, FetchFile, EndFetch, ReadLinked, MoveReplied,
     PickReply, EndReplies, EnterPipeline, Classify, ReadRoute, RecordVerdict,
     MoveRouted, CheckReplyListed, InsertUnsubscribe, MoveSuppressed,
     RaiseInReply, ReadReplyDied, MoveReplyFailed, RaiseInReplyHandler, CutReplies,
     convVars, dbVars
<1>3. /\ {"replied", "routed", "suppressed", "failed"} \subseteq State \ {"drafted"}
      /\ {"dry_run_sent", "replied"} \subseteq State
  BY DEF State
<1>4. QED
  BY <1>1, <1>2, <1>3, OtherRow DEF AuditReplied, AuditRouted, AuditSuppressed,
     AuditReplyFailed

\* A drafter passes the cap check before it writes the row.
LEMMA DraftCap ==
  ASSUME ListInv, RowTypes, CapHolds, NEW d \in Drafter, DraftStep(d)
  PROVE  CapHolds'
<1> DEFINE l == dr[d]
<1>0. l \in DrafterLocal /\ dr \in [Drafter -> DrafterLocal] /\ l.tgt \in Target
  BY DEF ListInv, ListTypes, DraftingTypeOK, DrafterLocal
<1>1. ASSUME UNCHANGED transitions, NEW m, dr' = [dr EXCEPT ![d] = m],
             \/ ~BeforeRow(m) \/ m.from # "routed"
             \/ HoldsPlace(l, m.tgt) \/ FollowUps(m.tgt) < MaxFollowUps
      PROVE  CapHolds'
  <2>1. \A t \in Target : FollowUps(t)' = FollowUps(t)
    BY <1>1, CountedRows
  <2>2. \A t \in Target : HoldsPlace(m, t) => HoldsPlace(l, t) \/ FollowUps(t) < MaxFollowUps
    BY <1>1 DEF HoldsPlace
  <2>3. QED BY <1>0, <1>1, <2>1, <2>2, PlaceTaken
<1>2. ASSUME UNCHANGED transitions, NEW pc, DraftGoto(d, pc),
             \/ ~BeforeRow([l EXCEPT !.pc = pc])
             \/ BeforeRow(l) \/ FollowUps(l.tgt) < MaxFollowUps
      PROVE  CapHolds'
  <2> DEFINE m == [l EXCEPT !.pc = pc]
  <2>1. m.tgt = l.tgt /\ m.from = l.from /\ dr' = [dr EXCEPT ![d] = m]
    BY <1>0, <1>2 DEF DrafterLocal, DraftGoto
  <2>2. ~BeforeRow(m) \/ BeforeRow(l) \/ FollowUps(l.tgt) < MaxFollowUps
    BY <1>2
  <2> HIDE DEF m
  <2>3. \/ ~BeforeRow(m) \/ m.from # "routed"
        \/ HoldsPlace(l, m.tgt) \/ FollowUps(m.tgt) < MaxFollowUps
    BY <2>1, <2>2 DEF HoldsPlace
  <2>4. QED BY <1>1, <1>2, <2>1, <2>3
<1> DEFINE head == [IdleDrafter EXCEPT !.pc = "next", !.queue = l.queue]
<1>3. /\ head.tgt \in Target /\ ~BeforeRow(head)
      /\ IdleDrafter.tgt \in Target /\ ~BeforeRow(IdleDrafter)
  BY TargetAssumption DEF IdleDrafter, BeforeRow
<1>4. NextDraft(d) => dr' = [dr EXCEPT ![d] = head]
  BY DEF NextDraft
<1> HIDE DEF head
<1>5. ASSUME UNCHANGED transitions, NextDraft(d) PROVE CapHolds'
  BY <1>1, <1>3, <1>4, <1>5
<1>6. ASSUME UNCHANGED convVars PROVE UNCHANGED transitions
  BY <1>6 DEF convVars, dbVars
<1>7. ASSUME UNCHANGED transitions, NEW m, dr' = [dr EXCEPT ![d] = m],
             m.tgt \in Target, ~BeforeRow(m)
      PROVE  CapHolds'
  BY <1>1, <1>7
<1>8. CASE SelectDrafts(d)
  <2> DEFINE m == [l EXCEPT !.pc = "next", !.queue = Draftable]
  <2>1. m.tgt = l.tgt /\ m.pc = "next" /\ dr' = [dr EXCEPT ![d] = m]
    BY <1>0, <1>8 DEF SelectDrafts, DrafterLocal
  <2> HIDE DEF m
  <2>2. QED BY <1>0, <1>6, <1>7, <1>8, <2>1 DEF SelectDrafts, BeforeRow
<1>9. CASE ReadDraftTarget(d)
  <2>1. PICK t \in l.queue :
           \/ /\ tstate[t] = "scored"
              /\ dr' = [dr EXCEPT ![d].pc = "enter", ![d].queue = @ \ {t},
                                  ![d].tgt = t, ![d].from = tstate[t]]
           \/ dr' = [dr EXCEPT ![d].pc = "reply", ![d].queue = @ \ {t},
                               ![d].tgt = t, ![d].from = tstate[t]]
           \/ dr' = [dr EXCEPT ![d].queue = @ \ {t}]
    BY <1>9 DEF ReadDraftTarget
  <2>2. t \in Target /\ l.pc = "next" /\ UNCHANGED transitions
    BY <1>0, <1>6, <1>9 DEF DrafterLocal, ReadDraftTarget, DraftAt
  <2> DEFINE m1 == [l EXCEPT !.pc = "enter", !.queue = l.queue \ {t}, !.tgt = t,
                             !.from = tstate[t]]
             m2 == [l EXCEPT !.pc = "reply", !.queue = l.queue \ {t}, !.tgt = t,
                             !.from = tstate[t]]
             m3 == [l EXCEPT !.queue = l.queue \ {t}]
  <2>3. /\ m1.tgt = t /\ m1.from = tstate[t]
        /\ m2.tgt = t /\ m2.pc = "reply"
        /\ m3.tgt = l.tgt /\ m3.pc = "next"
    BY <1>0, <2>2 DEF DrafterLocal
  <2>4. \/ tstate[t] = "scored" /\ dr' = [dr EXCEPT ![d] = m1]
        \/ dr' = [dr EXCEPT ![d] = m2]
        \/ dr' = [dr EXCEPT ![d] = m3]
    BY <1>0, <2>1
  <2> HIDE DEF m1, m2, m3
  <2>5. QED BY <1>0, <1>1, <1>7, <2>2, <2>3, <2>4 DEF BeforeRow
<1>10. CASE EndDrafts(d) \/ CutDraft(d)
  BY <1>3, <1>6, <1>7, <1>10 DEF EndDrafts, CutDraft
<1>11. ASSUME UNCHANGED transitions, NEW pc, DraftGoto(d, pc),
              pc \notin {"enter", "hop", "hopaudit", "round"}
       PROVE  CapHolds' /\ ~BeforeRow(dr'[d])
  <2>1. [l EXCEPT !.pc = pc].pc = pc /\ dr'[d] = [l EXCEPT !.pc = pc]
    BY <1>0, <1>11 DEF DrafterLocal, DraftGoto
  <2>2. ~BeforeRow([l EXCEPT !.pc = pc])
    BY <1>11, <2>1 DEF BeforeRow
  <2>3. QED BY <1>2, <1>11, <2>1, <2>2
<1>12. CASE ReadReply(d)
  BY <1>5, <1>6, <1>11, <1>12 DEF ReadReply, RefuseDraft
<1>13. CASE CheckCap(d)
  BY <1>2, <1>5, <1>6, <1>13 DEF CheckCap, RefuseDraft
<1>14. CASE EnterLoop(d) \/ MoveDrafted(d)
  <2>1. BeforeRow(l)
    BY <1>14 DEF EnterLoop, MoveDrafted, DraftAt, BeforeRow
  <2>2. QED BY <1>0, <1>2, <1>5, <1>6, <1>14, <2>1 DEF EnterLoop, MoveDrafted, RefuseDraft
<1>15. CASE Answer(d)
  <2>1. l.round = 0 => BeforeRow(l)
    BY <1>15 DEF Answer, DraftAt, BeforeRow
  <2>2. CASE NextDraft(d)
    BY <1>5, <1>6, <1>15, <2>2 DEF Answer
  <2>3. CASE l.round = 0 /\ DraftGoto(d, "hop")
    BY <1>0, <1>2, <1>6, <1>15, <2>1, <2>3 DEF Answer
  <2>4. CASE DraftGoto(d, "persist") \/ DraftGoto(d, "finish")
    BY <1>6, <1>11, <1>15, <2>4 DEF Answer
  <2>5. QED BY <1>15, <2>2, <2>3, <2>4 DEF Answer
<1>16. CASE AuditDrafted(d)
  <2> DEFINE m == [l EXCEPT !.pc = "persist"]
  <2>1. m.pc = "persist" /\ m.tgt = l.tgt /\ dr' = [dr EXCEPT ![d] = m]
    BY <1>0, <1>16 DEF AuditDrafted, DraftGoto, DrafterLocal
  <2> HIDE DEF m
  <2>2. BeforeRow(l) /\ l.from \in State /\ "drafted" \in State
    BY <1>0, <1>16 DEF AuditDrafted, DraftAt, BeforeRow, DrafterLocal, State
  <2>3. PICK t \in Target : t = l.tgt
    BY <1>0
  <2>4. /\ FollowUps(t)' <= FollowUps(t) + 1
        /\ l.from # "routed" => FollowUps(t)' = FollowUps(t)
        /\ \A u \in Target \ {t} : FollowUps(u)' = FollowUps(u)
        /\ FollowUps(t) \in Nat /\ FollowUps(t)' \in Nat
    <3>1. InsertTransition(t, l.from, "drafted")
      BY <1>16, <2>3 DEF AuditDrafted
    <3>2. QED BY <2>2, <3>1, CountedInsert, CountedRows
  <2>5. ~BeforeRow(m)
    BY <2>1 DEF BeforeRow
  <2>6. (\A u \in Target : ~HoldsPlace(m, u)) /\ (l.from = "routed" => HoldsPlace(l, t))
    BY <2>2, <2>3, <2>5 DEF HoldsPlace
  <2>7. QED BY <1>0, <2>1, <2>4, <2>6, PlaceCounted
<1>17. CASE InsertDraft(d)
  <2>1. PICK pc \in {"round", "finish"} :
            dr' = [dr EXCEPT ![d].pc = pc, ![d].round = @ + 1]
    BY <1>17 DEF InsertDraft
  <2> DEFINE m == [l EXCEPT !.pc = pc, !.round = l.round + 1]
  <2>2. /\ m.tgt = l.tgt /\ m.pc = pc /\ m.round = l.round + 1 /\ l.round \in Nat
        /\ dr' = [dr EXCEPT ![d] = m]
    BY <1>0, <2>1 DEF DrafterLocal
  <2> HIDE DEF m
  <2>3. ~BeforeRow(m)
    BY <2>2 DEF BeforeRow
  <2>4. QED BY <1>0, <1>7, <1>17, <2>2, <2>3 DEF InsertDraft
<1>18. CASE MoveToReview(d) \/ MoveDraftFailed(d)
  BY <1>11, <1>18 DEF MoveToReview, MoveDraftFailed
<1>19. CASE AuditToReview(d) \/ AuditDraftFailed(d)
  <2>1. \A u \in Target : FollowUps(u)' = FollowUps(u)
    <3>1. {"awaiting_review", "failed"} \subseteq State \ {"drafted"} /\ "drafted" \in State
          /\ l.from \in State
      BY <1>0 DEF State, DrafterLocal
    <3>2. QED BY <1>0, <1>19, <3>1, OtherRow DEF AuditToReview, AuditDraftFailed
  <2>2. ~BeforeRow(dr'[d])
    <3>1. CASE AuditToReview(d)
      <4>1. dr'[d] = [l EXCEPT !.pc = "latest"] /\ [l EXCEPT !.pc = "latest"].pc = "latest"
        BY <1>0, <3>1 DEF AuditToReview, DraftGoto, DrafterLocal
      <4>2. QED BY <4>1 DEF BeforeRow
    <3>2. CASE AuditDraftFailed(d)
      <4>1. dr'[d] = head
        BY <1>0, <1>4, <3>2 DEF AuditDraftFailed
      <4>2. QED BY <1>3, <4>1
    <3>3. QED BY <1>19, <3>1, <3>2
  <2>3. dr' = [dr EXCEPT ![d] = dr'[d]]
    BY <1>0, <1>4, <1>19 DEF AuditToReview, AuditDraftFailed, DraftGoto
  <2>4. \A u \in Target : ~HoldsPlace(dr'[d], u)
    BY <2>2 DEF HoldsPlace
  <2>5. QED BY <1>0, <2>1, <2>3, <2>4, PlaceTaken
<1>20. CASE PickLatest(d)
  <2>1. PICK i : dr' = [dr EXCEPT ![d].pc = "verdict", ![d].ref = i]
    BY <1>20 DEF PickLatest
  <2> DEFINE m == [l EXCEPT !.pc = "verdict", !.ref = i]
  <2>2. m.tgt = l.tgt /\ m.pc = "verdict" /\ dr' = [dr EXCEPT ![d] = m]
    BY <1>0, <2>1 DEF DrafterLocal
  <2> HIDE DEF m
  <2>3. QED BY <1>0, <1>6, <1>7, <1>20, <2>2 DEF PickLatest, BeforeRow
<1>21. CASE JudgeDraft(d)
  BY <1>5, <1>21 DEF JudgeDraft
<1>22. ASSUME UNCHANGED transitions, NEW b,
              dr' = [dr EXCEPT ![d].pc = "died", ![d].caught = b]
       PROVE  CapHolds'
  <2> DEFINE m == [l EXCEPT !.pc = "died", !.caught = b]
  <2>1. m.tgt = l.tgt /\ m.pc = "died" /\ dr' = [dr EXCEPT ![d] = m]
    BY <1>0, <1>22 DEF DrafterLocal
  <2> HIDE DEF m
  <2>2. QED BY <1>0, <1>7, <1>22, <2>1 DEF BeforeRow
<1>23. CASE RaiseInDraft(d)
  BY <1>6, <1>22, <1>23 DEF RaiseInDraft
<1>24. CASE RaiseInDraftHandler(d)
  BY <1>5, <1>6, <1>22, <1>24 DEF RaiseInDraftHandler
<1>25. CASE ReadDraftDied(d)
  <2> DEFINE m == [l EXCEPT !.pc = "failmove", !.from = tstate[l.tgt]]
  <2>1. m.tgt = l.tgt /\ m.pc = "failmove" /\ dr' = [dr EXCEPT ![d] = m]
    BY <1>0, <1>25 DEF DrafterLocal, ReadDraftDied
  <2> HIDE DEF m
  <2>2. QED BY <1>0, <1>6, <1>7, <1>25, <2>1 DEF ReadDraftDied, BeforeRow
<1>26. QED
  BY <1>8, <1>9, <1>10, <1>12, <1>13, <1>14, <1>15, <1>16, <1>17, <1>18, <1>19, <1>20,
     <1>21, <1>23, <1>24, <1>25 DEF DraftStep

LEMMA NoHopYet == Init => \A t \in Target : FollowUps(t) = 0
<1>1. SUFFICES ASSUME Init, NEW t \in Target PROVE FollowUps(t) = 0
  OBVIOUS
<1>2. {i \in DOMAIN transitions[t] :
           transitions[t][i] = [from |-> "routed", to |-> "drafted"]} = {}
  BY <1>1 DEF Init
<1>3. QED BY <1>2, FS_EmptySet DEF FollowUps

LEMMA CapInit == Init => CapHolds
<1>1. SUFFICES ASSUME Init PROVE CapHolds
  OBVIOUS
<1>2. \A d \in Drafter : ~BeforeRow(dr[d])
  BY <1>1 DEF Init, DraftingInit, IdleDrafter, BeforeRow
<1>3. \A t \in Target : Places(t) = {}
  BY <1>2 DEF Places, HoldsPlace
<1>4. QED BY <1>1, <1>3, NoHopYet, PlacesCount, FS_EmptySet DEF CapHolds

LEMMA CapNext == ListInv /\ RowTypes /\ CapHolds /\ [Next]_vars => CapHolds'
<1>1. SUFFICES ASSUME ListInv, RowTypes, CapHolds, [Next]_vars
               PROVE  CapHolds'
  OBVIOUS
<1>2. ASSUME UNCHANGED <<transitions, dr>> PROVE CapHolds'
  BY <1>1, <1>2, CountedRows, CapStays
<1>3. CASE UNCHANGED vars
  BY <1>2, <1>3 DEF vars, convVars, dbVars
<1>4. CASE FlipSwitch
  BY <1>2, <1>4 DEF FlipSwitch
<1>5. ASSUME NEW t \in Target, Arrive(t) PROVE CapHolds'
  BY <1>2, <1>5 DEF Arrive, dbVars
<1>6. ASSUME NEW r \in Reviewer, ReviewTurn(r) PROVE CapHolds'
  BY <1>1, <1>6, ReviewCounts, CapStays DEF ReviewTurn
<1>7. ASSUME NEW s \in Sender, SendTurn(s) PROVE CapHolds'
  BY <1>1, <1>7, SendCounts, CapStays DEF SendTurn
<1>8. ASSUME NEW d \in Drafter, DraftTurn(d) PROVE CapHolds'
  BY <1>1, <1>8, DraftCap DEF DraftTurn
<1>9. ASSUME NEW p \in Replier, ReplyTurn(p) PROVE CapHolds'
  BY <1>1, <1>9, ReplyCounts, CapStays DEF ReplyTurn
<1>10. QED BY <1>1, <1>3, <1>4, <1>5, <1>6, <1>7, <1>8, <1>9 DEF Next

LEMMA CapInvariance == Spec => []CapHolds
<1>1. ListInv /\ RowTypes /\ CapHolds /\ [Next]_vars => CapHolds'
  BY CapNext
<1>2. QED BY <1>1, CapInit, ListInvariance, RowsAreTyped, PTL DEF Spec

\* Wherever its runs are cut off, a thread gets no more follow-up drafts than the
\* cap, and one more for each drafter beyond the first.
THEOREM FollowUpsStayCapped == Spec => []FollowUpsCapped
<1>1. RowTypes /\ CapHolds => FollowUpsCapped
  <2>1. SUFFICES ASSUME RowTypes, CapHolds, NEW t \in Target
                 PROVE  FollowUps(t) <= FollowUpCap
    BY DEF FollowUpsCapped
  <2>2. Places(t) \in SUBSET Drafter
    BY DEF Places
  <2>3. Cardinality(Places(t)) \in Nat /\ FollowUpCap \in Nat /\ FollowUps(t) \in Nat
    BY <2>1, <2>2, PlacesCount, CountedRows
  <2>4. QED BY <2>1, <2>3 DEF CapHolds
<1>2. QED BY <1>1, CapInvariance, RowsAreTyped, PTL

\* With a single draft process, whatever runs beside it, the cap itself holds.
THEOREM OneDrafterKeepsCap ==
  ASSUME OneDrafter
  PROVE  Spec => [](\A t \in Target : FollowUps(t) <= MaxFollowUps)
<1>1. FollowUpCap = MaxFollowUps
  <2>1. PICK d : Drafter = {d}
    BY DraftingAssumption DEF OneDrafter
  <2>2. Cardinality(Drafter) = 1
    BY <2>1, FS_Singleton
  <2>3. QED BY <2>2, DraftingAssumption DEF FollowUpCap
<1>2. FollowUpsCapped => \A t \in Target : FollowUps(t) <= MaxFollowUps
  BY <1>1 DEF FollowUpsCapped
<1>3. QED BY <1>2, FollowUpsStayCapped, PTL

-----------------------------------------------------------------------------
\* Stages that take turns.
LEMMA TurnsInit == Init => Turns
BY DEF Init, Turns, ReviewInit, SendingInit, DraftingInit, ReplyingInit, NoReview, NoSend,
   NoDraft, NoReply, At, SendAt, DraftAt, ReplyAt, IdleReviewer, IdleSender, IdleDrafter,
   IdleReplier

LEMMA TurnsNext == OneStage /\ Turns /\ [Next]_vars => Turns'
<1>1. SUFFICES ASSUME OneStage, Turns, [Next]_vars PROVE Turns'
  OBVIOUS
<1>2. /\ UNCHANGED rv => (NoReview => NoReview')
      /\ UNCHANGED sd => (NoSend => NoSend')
      /\ UNCHANGED dr => (NoDraft => NoDraft')
      /\ UNCHANGED rp => (NoReply => NoReply')
  BY DEF NoReview, NoSend, NoDraft, NoReply, At, SendAt, DraftAt, ReplyAt
<1>3. ASSUME UNCHANGED <<rv, sd, dr, rp>> PROVE Turns'
  BY <1>1, <1>2, <1>3 DEF Turns
<1>4. CASE UNCHANGED vars
  BY <1>3, <1>4 DEF vars
<1>5. CASE FlipSwitch \/ \E t \in Target : Arrive(t)
  BY <1>3, <1>5 DEF FlipSwitch, Arrive
<1>6. CASE \E r \in Reviewer : ReviewTurn(r)
  BY <1>1, <1>2, <1>6 DEF ReviewTurn, Turns
<1>7. CASE \E s \in Sender : SendTurn(s)
  BY <1>1, <1>2, <1>7 DEF SendTurn, Turns
<1>8. CASE \E d \in Drafter : DraftTurn(d)
  BY <1>1, <1>2, <1>8 DEF DraftTurn, Turns
<1>9. CASE \E p \in Replier : ReplyTurn(p)
  BY <1>1, <1>2, <1>9 DEF ReplyTurn, Turns
<1>10. QED BY <1>1, <1>4, <1>5, <1>6, <1>7, <1>8, <1>9 DEF Next

LEMMA SendLists ==
  ASSUME RowTypes, ListHolds, NEW s \in Sender, SendStep(s)
  PROVE  ListHolds'
<1> DEFINE l == sd[s]
<1>0. /\ l \in SenderLocal /\ sd \in [Sender -> SenderLocal]
      /\ (PastListCheck(l) => l.tgt \notin emailSupp)
  BY DEF RowTypes, SendingTypeOK, ListHolds
<1>1. UNCHANGED emailSupp
  BY DEF SendStep, Select, ReadTarget, EndBatch, GateSwitch, GateEmail, GateDomain,
     GateReview, GateRevision, GateNewest, RecordGate, RereadReview, WriteArtifact,
     InsertMessage, MoveSent, AuditSent, LogSend, RaiseInSend, ReadDied, MoveFailed,
     AuditFailed, RaiseInBookkeeping, CutSend, Check, dbVars
<1>2. ASSUME NEW m, sd' = [sd EXCEPT ![s] = m], PastListCheck(m) => m.tgt \notin emailSupp
      PROVE  ListHolds'
  BY <1>0, <1>1, <1>2 DEF ListHolds
<1>3. ASSUME NEW m, sd' = [sd EXCEPT ![s] = m],
             m.pc \in {"idle", "next", "switch", "email", "log", "move", "audit", "died",
                       "failmove", "failaudit"}
      PROVE  ListHolds'
  BY <1>2, <1>3 DEF PastListCheck
<1>4. ASSUME NEW pc, SendGoto(s, pc),
             \/ pc \in {"log", "move", "audit", "died", "failmove", "failaudit"}
             \/ PastListCheck(l) /\ pc \in {"file", "message"}
      PROVE  ListHolds'
  <2> DEFINE m == [l EXCEPT !.pc = pc]
  <2>1. m.pc = pc /\ m.tgt = l.tgt /\ sd' = [sd EXCEPT ![s] = m]
    BY <1>0, <1>4 DEF SendGoto, SenderLocal
  <2> HIDE DEF m
  <2>2. QED BY <1>0, <1>2, <1>3, <1>4, <2>1
<1>5. ASSUME NEW ok \in BOOLEAN, NEW pc, Check(s, ok, pc),
             pc \notin {"reread", "file", "message"},
             \/ pc = "email"
             \/ ok => l.tgt \notin emailSupp
             \/ l.clean => PastListCheck(l)
      PROVE  ListHolds'
  <2> DEFINE m == [l EXCEPT !.pc = pc, !.clean = l.clean /\ ok]
  <2>1. /\ m.pc = pc /\ m.tgt = l.tgt /\ sd' = [sd EXCEPT ![s] = m]
        /\ (m.clean => l.clean /\ ok)
    BY <1>0, <1>5 DEF Check, SenderLocal
  <2> HIDE DEF m
  <2>2. PastListCheck(m) => m.tgt \notin emailSupp
    BY <1>0, <1>5, <2>1 DEF PastListCheck
  <2>3. QED BY <1>2, <2>1, <2>2
<1> DEFINE head == [IdleSender EXCEPT !.pc = "next", !.queue = l.queue]
<1>6. head.pc = "next" /\ IdleSender.pc = "idle"
  BY DEF IdleSender
<1> HIDE DEF head
<1>7. ASSUME NextTarget(s) PROVE ListHolds'
  <2>1. sd' = [sd EXCEPT ![s] = head]
    BY <1>7 DEF NextTarget, head
  <2>2. QED BY <1>3, <1>6, <2>1
<1>8. CASE Select(s)
  <2> DEFINE m == [l EXCEPT !.pc = "next", !.queue = Approved]
  <2>1. m.pc = "next" /\ sd' = [sd EXCEPT ![s] = m]
    BY <1>0, <1>8 DEF Select, SenderLocal
  <2> HIDE DEF m
  <2>2. QED BY <1>3, <2>1
<1>9. CASE ReadTarget(s)
  <2>1. PICK t \in l.queue :
           \/ sd' = [sd EXCEPT ![s].pc = "log", ![s].queue = @ \ {t}, ![s].tgt = t]
           \/ sd' = [sd EXCEPT ![s].pc = "switch", ![s].queue = @ \ {t},
                               ![s].tgt = t, ![s].st = tstate[t], ![s].clean = TRUE]
    BY <1>9 DEF ReadTarget
  <2> DEFINE m1 == [l EXCEPT !.pc = "log", !.queue = l.queue \ {t}, !.tgt = t]
             m2 == [l EXCEPT !.pc = "switch", !.queue = l.queue \ {t}, !.tgt = t,
                             !.st = tstate[t], !.clean = TRUE]
  <2>2. m1.pc = "log" /\ m2.pc = "switch"
    BY <1>0 DEF SenderLocal
  <2>3. sd' = [sd EXCEPT ![s] = m1] \/ sd' = [sd EXCEPT ![s] = m2]
    BY <1>0, <2>1
  <2> HIDE DEF m1, m2
  <2>4. QED BY <1>3, <2>2, <2>3
<1>10. CASE EndBatch(s) \/ CutSend(s)
  BY <1>3, <1>6, <1>10 DEF EndBatch, CutSend
<1>11. CASE GateSwitch(s)
  <2>1. CASE Engaged
    BY <1>5, <1>11, <2>1 DEF GateSwitch
  <2>2. CASE ~Engaged
    BY <1>5, <1>11, <2>2 DEF GateSwitch
  <2>3. QED BY <2>1, <2>2
<1>12. CASE GateEmail(s)
  BY <1>5, <1>12 DEF GateEmail
<1>13. CASE GateDomain(s)
  <2>1. l.clean => PastListCheck(l)
    BY <1>13 DEF GateDomain, SendAt, PastListCheck
  <2>2. QED BY <1>5, <1>13, <2>1 DEF GateDomain
<1>14. CASE GateReview(s)
  <2>1. l.clean => PastListCheck(l)
    BY <1>14 DEF GateReview, SendAt, PastListCheck
  <2> DEFINE m1 == [l EXCEPT !.pc = "revision", !.ref = LatestReview(l.tgt).revision]
             m2 == [l EXCEPT !.pc = "record", !.clean = FALSE]
  <2>2. /\ m1.pc = "revision" /\ m1.tgt = l.tgt /\ m1.clean = l.clean
        /\ m2.pc = "record" /\ m2.clean = FALSE
    BY <1>0 DEF SenderLocal
  <2>3. sd' = [sd EXCEPT ![s] = m1] \/ sd' = [sd EXCEPT ![s] = m2]
    BY <1>0, <1>14 DEF GateReview
  <2> HIDE DEF m1, m2
  <2>4. QED BY <1>0, <1>2, <2>1, <2>2, <2>3 DEF PastListCheck
<1>15. CASE GateRevision(s)
  <2> DEFINE m == [l EXCEPT !.pc = "newest",
                            !.clean = l.clean /\ revisions[l.tgt][l.ref].passed]
  <2>1. l.clean => PastListCheck(l)
    BY <1>15 DEF GateRevision, SendAt, PastListCheck
  <2>2. m.pc = "newest" /\ m.tgt = l.tgt /\ (m.clean => l.clean)
    BY <1>0 DEF SenderLocal
  <2>3. sd' = [sd EXCEPT ![s] = m]
    BY <1>0, <1>15 DEF GateRevision, Check
  <2> HIDE DEF m
  <2>4. QED BY <1>0, <1>2, <2>1, <2>2, <2>3 DEF PastListCheck
<1>16. CASE GateNewest(s)
  <2>1. l.clean => PastListCheck(l)
    BY <1>16 DEF GateNewest, SendAt, PastListCheck
  <2>2. HasMaxNumber(l.tgt, l.ref) \in BOOLEAN
    BY DEF HasMaxNumber
  <2>3. QED BY <1>5, <1>16, <2>1, <2>2 DEF GateNewest
<1>17. CASE RecordGate(s)
  <2>1. CASE l.clean
    <3> DEFINE m == [l EXCEPT !.pc = "reread", !.step = Len(gateLog) + 1]
    <3>1. m.tgt = l.tgt /\ sd' = [sd EXCEPT ![s] = m]
      BY <1>0, <1>17, <2>1 DEF RecordGate, SenderLocal
    <3>2. PastListCheck(l)
      BY <1>17, <2>1 DEF RecordGate, SendAt, PastListCheck
    <3> HIDE DEF m
    <3>3. QED BY <1>0, <1>2, <3>1, <3>2
  <2>2. CASE ~l.clean
    BY <1>4, <1>17, <2>2 DEF RecordGate
  <2>3. QED BY <2>1, <2>2
<1>18. CASE RereadReview(s)
  <2> DEFINE m == [l EXCEPT !.pc = "file", !.text = LatestReview(l.tgt).revision]
  <2>1. m.tgt = l.tgt /\ sd' = [sd EXCEPT ![s] = m]
    BY <1>0, <1>18 DEF RereadReview, SenderLocal
  <2>2. PastListCheck(l)
    BY <1>18 DEF RereadReview, SendAt, PastListCheck
  <2> HIDE DEF m
  <2>3. QED BY <1>0, <1>2, <2>1, <2>2
<1>19. CASE WriteArtifact(s)
  <2>1. PastListCheck(l)
    BY <1>19 DEF WriteArtifact, SendAt, PastListCheck
  <2>2. QED BY <1>4, <1>19, <2>1 DEF WriteArtifact
<1>20. CASE InsertMessage(s) \/ MoveSent(s) \/ AuditSent(s) \/ RaiseInSend(s) \/ MoveFailed(s)
  BY <1>4, <1>20 DEF InsertMessage, MoveSent, AuditSent, RaiseInSend, MoveFailed
<1>21. CASE AuditFailed(s) \/ LogSend(s) \/ RaiseInBookkeeping(s)
  BY <1>7, <1>21 DEF AuditFailed, LogSend, RaiseInBookkeeping
<1>22. CASE ReadDied(s)
  <2> DEFINE m == [l EXCEPT !.pc = "failmove", !.st = tstate[l.tgt]]
  <2>1. m.pc = "failmove" /\ sd' = [sd EXCEPT ![s] = m]
    BY <1>0, <1>22 DEF ReadDied, SenderLocal
  <2> HIDE DEF m
  <2>2. QED BY <1>3, <2>1
<1>23. QED
  BY <1>8, <1>9, <1>10, <1>11, <1>12, <1>13, <1>14, <1>15, <1>16, <1>17, <1>18, <1>19,
     <1>20, <1>21, <1>22 DEF SendStep

LEMMA ListHoldsNext ==
  OneStage /\ RowTypes /\ Turns /\ ListHolds /\ [Next]_vars => ListHolds'
<1>1. SUFFICES ASSUME OneStage, RowTypes, Turns, ListHolds, [Next]_vars PROVE ListHolds'
  OBVIOUS
\* Nobody else works while a sender does.
<1>2. ASSUME NoSend, UNCHANGED sd PROVE ListHolds'
  BY <1>2 DEF NoSend, SendAt, ListHolds, PastListCheck
<1>3. ASSUME UNCHANGED <<sd, emailSupp>> PROVE ListHolds'
  BY <1>1, <1>3 DEF ListHolds
<1>4. CASE UNCHANGED vars
  BY <1>3, <1>4 DEF vars, convVars, dbVars
<1>5. CASE FlipSwitch
  BY <1>3, <1>5 DEF FlipSwitch
<1>6. ASSUME NEW t \in Target, Arrive(t) PROVE ListHolds'
  BY <1>3, <1>6 DEF Arrive, dbVars
<1>7. ASSUME NEW r \in Reviewer, ReviewTurn(r) PROVE ListHolds'
  BY <1>1, <1>2, <1>7 DEF ReviewTurn
<1>8. ASSUME NEW d \in Drafter, DraftTurn(d) PROVE ListHolds'
  BY <1>1, <1>2, <1>8 DEF DraftTurn
<1>9. ASSUME NEW p \in Replier, ReplyTurn(p) PROVE ListHolds'
  BY <1>1, <1>2, <1>9 DEF ReplyTurn
<1>10. ASSUME NEW s \in Sender, SendTurn(s) PROVE ListHolds'
  BY <1>1, <1>10, SendLists DEF SendTurn
<1>11. QED BY <1>1, <1>4, <1>5, <1>6, <1>7, <1>8, <1>9, <1>10 DEF Next

\* The one step that records a message stands behind the look-up of the list.
LEMMA MessageStep ==
  ASSUME RowTypes, ListHolds, [Next]_vars, NEW m \in messages' \ messages
  PROVE  m.target \notin emailSupp
<1>1. PICK s \in Sender : InsertMessage(s)
  <2>1. ASSUME NEW s \in Sender, SendTurn(s) PROVE InsertMessage(s) \/ UNCHANGED messages
    BY <2>1 DEF SendTurn, SendStep, Select, ReadTarget, EndBatch, GateSwitch, GateEmail,
       GateDomain, GateReview, GateRevision, GateNewest, RecordGate, RereadReview,
       WriteArtifact, MoveSent, AuditSent, LogSend, RaiseInSend, ReadDied, MoveFailed,
       AuditFailed, RaiseInBookkeeping, CutSend, Check, dbVars
  <2>2. ASSUME NEW r \in Reviewer, ReviewTurn(r) PROVE UNCHANGED messages
    BY <2>2 DEF ReviewTurn, ReviewStep, Submit, CheckState, CheckSwitch, ReadLatest,
       InsertEdit, RunDraftGate, CheckListed, InsertSuppression, InsertReview, MoveDecided,
       AuditDecided, CutReview, Refuse, dbVars
  <2>3. ASSUME NEW d \in Drafter, DraftTurn(d) PROVE UNCHANGED messages
    BY <2>3 DEF DraftTurn, DraftStep, SelectDrafts, ReadDraftTarget, EndDrafts, ReadReply,
       CheckCap, EnterLoop, Answer, MoveDrafted, AuditDrafted, InsertDraft, MoveToReview,
       AuditToReview, PickLatest, JudgeDraft, RaiseInDraft, ReadDraftDied, MoveDraftFailed,
       AuditDraftFailed, RaiseInDraftHandler, CutDraft, RefuseDraft, convVars, dbVars
  <2>4. ASSUME NEW p \in Replier, ReplyTurn(p) PROVE UNCHANGED messages
    BY <2>4 DEF ReplyTurn, ReplyStep, StartReplies, FetchFile, EndFetch, ReadLinked,
       MoveReplied, AuditReplied, PickReply, EndReplies, EnterPipeline, Classify, ReadRoute,
       RecordVerdict, MoveRouted, AuditRouted, CheckReplyListed, InsertUnsubscribe,
       MoveSuppressed, AuditSuppressed, RaiseInReply, ReadReplyDied, MoveReplyFailed,
       AuditReplyFailed, RaiseInReplyHandler, CutReplies, convVars, dbVars
  <2>5. ASSUME FlipSwitch \/ (\E t \in Target : Arrive(t)) \/ UNCHANGED vars
        PROVE  UNCHANGED messages
    BY <2>5 DEF FlipSwitch, Arrive, vars, convVars, dbVars
  <2>6. QED BY <2>1, <2>2, <2>3, <2>4, <2>5 DEF Next
<1>2. m.target = sd[s].tgt
  BY <1>1 DEF InsertMessage, Artifact
<1>3. PastListCheck(sd[s])
  BY <1>1 DEF InsertMessage, SendAt, PastListCheck
<1>4. QED BY <1>2, <1>3 DEF ListHolds

LEMMA ListStaysRead ==
  ASSUME OneStage
  PROVE  Spec => []ListHolds
<1>1. Turns /\ [Next]_vars => Turns'
  BY TurnsNext
<1>2. Spec => []Turns
  BY <1>1, TurnsInit, PTL DEF Spec
<1>3. Init => ListHolds
  BY DEF Init, SendingInit, IdleSender, ListHolds, PastListCheck
<1>4. RowTypes /\ Turns /\ ListHolds /\ [Next]_vars => ListHolds'
  BY ListHoldsNext
<1>5. QED BY <1>2, <1>3, <1>4, RowsAreTyped, PTL DEF Spec

\* When stages take turns, a contact that is listed gets no further message.
THEOREM ListedStaysOut ==
  ASSUME OneStage
  PROVE  Spec => ListedGetsNoMessage
<1> DEFINE Act == \A m \in messages' \ messages : m.target \notin emailSupp
<1>1. RowTypes /\ ListHolds /\ [Next]_vars => [Act]_vars
  BY MessageStep
<1>2. QED BY <1>1, ListStaysRead, RowsAreTyped, PTL DEF Spec, ListedGetsNoMessage

-----------------------------------------------------------------------------
\* What was approved.  Rows of an approved target that stay keep the promise.
LEMMA ApprovalStays ==
  ASSUME ApprovalNamesLatest,
         \A t \in Target : tstate'[t] = "approved" =>
             /\ tstate[t] = "approved"
             /\ revisions'[t] = revisions[t] /\ reviews'[t] = reviews[t]
  PROVE  ApprovalNamesLatest'
BY DEF ApprovalNamesLatest, LatestReview, IsLatestRevision

\* A state that a process moves its target to.
LEMMA MovedNotApproved ==
  ASSUME tstate \in [Target -> State], NEW t \in Target, NEW to \in State \ {"approved"},
         UNCHANGED tstate \/ tstate' = [tstate EXCEPT ![t] = to]
  PROVE  \A u \in Target : tstate'[u] = "approved" => tstate[u] = "approved"
OBVIOUS

\* One more than the latest number is the latest number.
LEMMA EditIsLatest ==
  ASSUME NEW t \in Target, revisions \in [Target -> Seq(Revision)],
         NEW i \in DOMAIN revisions[t], IsLatestRevision(t, i),
         revisions' = [revisions EXCEPT ![t] =
             Append(@, [num |-> revisions[t][i].num + 1, passed |-> FALSE])]
  PROVE  /\ Len(revisions[t]) + 1 \in DOMAIN revisions'[t]
         /\ \A j \in DOMAIN revisions'[t] :
                \/ revisions'[t][j].num < revisions'[t][Len(revisions[t]) + 1].num
                \/ /\ revisions'[t][j].num = revisions'[t][Len(revisions[t]) + 1].num
                   /\ j <= Len(revisions[t]) + 1
<1> DEFINE n == Len(revisions[t])
           row == [num |-> revisions[t][i].num + 1, passed |-> FALSE]
<1>1. /\ revisions[t] \in Seq(Revision) /\ n \in Nat /\ DOMAIN revisions[t] = 1..n
      /\ \A j \in 1..n : revisions[t][j] \in Revision /\ revisions[t][j].num \in Nat
  <2>1. revisions[t] \in Seq(Revision)
    OBVIOUS
  <2>2. n \in Nat /\ DOMAIN revisions[t] = 1..n
    BY <2>1, LenProperties
  <2>3. \A j \in 1..n : revisions[t][j] \in Revision
    BY <2>1, <2>2
  <2>4. QED BY <2>1, <2>2, <2>3 DEF Revision
<1>2. row \in Revision /\ row.num = revisions[t][i].num + 1
  BY <1>1 DEF Revision
<1>3. revisions' = [revisions EXCEPT ![t] = Append(@, row)]
  OBVIOUS
<1> HIDE DEF row
<1>4. /\ DOMAIN revisions'[t] = 1..n \cup {n + 1}
      /\ \A j \in 1..n : revisions'[t][j] = revisions[t][j]
      /\ revisions'[t][n + 1] = row
  BY <1>1, <1>2, <1>3, AppendedRow
<1>5. ASSUME NEW j \in 1..n PROVE revisions[t][j].num <= revisions[t][i].num
  <2>1. revisions[t][j].num \in Nat /\ revisions[t][i].num \in Nat
    BY <1>1
  <2>2. \/ revisions[t][j].num < revisions[t][i].num
        \/ revisions[t][j].num = revisions[t][i].num
    BY <1>1 DEF IsLatestRevision
  <2>3. QED BY <2>1, <2>2
<1>6. QED BY <1>1, <1>2, <1>4, <1>5

\* Writing the gate columns leaves the numbers.
LEMMA NumbersStay ==
  ASSUME NEW t \in Target, revisions \in [Target -> Seq(Revision)],
         NEW i \in DOMAIN revisions[t], NEW b \in BOOLEAN,
         revisions' = [revisions EXCEPT ![t][i].passed = b]
  PROVE  /\ DOMAIN revisions'[t] = DOMAIN revisions[t]
         /\ \A j \in DOMAIN revisions[t] : revisions'[t][j].num = revisions[t][j].num
         /\ \A u \in Target \ {t} : revisions'[u] = revisions[u]
<1>1. revisions[t] \in Seq(Revision)
  OBVIOUS
<1>2. revisions'[t] = [revisions[t] EXCEPT ![i].passed = b]
  OBVIOUS
<1>3. revisions[t][i] \in Revision
  BY <1>1
<1>4. [revisions[t][i] EXCEPT !.passed = b].num = revisions[t][i].num
  BY <1>3 DEF Revision
<1>5. QED BY <1>1, <1>2, <1>4

\* A decision stands as the rows have it.
DecisionStands(l) ==
    /\ l.pc \notin {"idle", "state", "audit"} => tstate[l.tgt] = "awaiting_review"
    /\ l.pc \in {"edit", "gate", "listed", "suppress", "decide", "move"} =>
           l.ref \in DOMAIN revisions[l.tgt] /\ IsLatestRevision(l.tgt, l.ref)
    /\ l.pc = "move" =>
           /\ reviews[l.tgt] # <<>>
           /\ LatestReview(l.tgt) = [decision |-> l.dec, revision |-> l.ref]

LEMMA DecisionsStand == DecisionHolds <=> \A r \in Reviewer : DecisionStands(rv[r])
BY DEF DecisionHolds, DecisionStands, At

\* While one reviewer works the others rest.
LEMMA ReviewAlone ==
  ASSUME ListInv, SerialReviews, OneReview, NEW r \in Reviewer, ReviewStep(r)
  PROVE  /\ \A q \in Reviewer \ {r} : rv[q].pc = "idle" /\ rv'[q] = rv[q]
         /\ OneReview'
<1>1. rv' = [rv EXCEPT ![r] = rv'[r]] /\ rv \in [Reviewer -> ReviewerLocal]
  BY ReviewEffects DEF ReviewEffect, ListInv, ListTypes, ReviewTypeOK
<1>2. (\E t \in Target, d \in Decision : Submit(r, t, d)) \/ rv[r].pc # "idle"
  BY DEF ReviewStep, CheckState, CheckSwitch, ReadLatest, InsertEdit, RunDraftGate,
     CheckListed, InsertSuppression, InsertReview, MoveDecided, AuditDecided, CutReview, At
<1>3. \A q \in Reviewer \ {r} : rv[q].pc = "idle" /\ rv'[q] = rv[q]
  BY <1>1, <1>2 DEF Submit, OneReview, At
<1>4. QED BY <1>3 DEF OneReview, At

LEMMA ReviewApproves ==
  ASSUME ListInv, RowTypes, SerialReviews, OneReview, DecisionHolds, ApprovalNamesLatest,
         NEW r \in Reviewer, ReviewStep(r)
  PROVE  DecisionHolds' /\ ApprovalNamesLatest'
<1> DEFINE l == rv[r]
<1>0. /\ l \in ReviewerLocal /\ rv \in [Reviewer -> ReviewerLocal] /\ l.tgt \in Target
      /\ tstate \in [Target -> State] /\ revisions \in [Target -> Seq(Revision)]
      /\ reviews \in [Target -> Seq(ReviewRow)]
      /\ DecisionStands(l)
  BY DecisionsStand DEF ListInv, ListTypes, ReviewTypeOK, ReviewerLocal, RowTypes, DBTypeOK
\* Only the decision at hand needs a look.
<1>1. ASSUME rv' = [rv EXCEPT ![r] = rv'[r]], DecisionStands(rv[r])' PROVE DecisionHolds'
  <2>1. \A q \in Reviewer \ {r} : rv'[q].pc = "idle"
    BY ReviewAlone
  <2>2. \A q \in Reviewer : DecisionStands(rv[q])'
    BY <1>1, <2>1 DEF DecisionStands
  <2>3. QED BY <2>2 DEF DecisionHolds, DecisionStands, At
<1>2. rv' = [rv EXCEPT ![r] = rv'[r]] /\ rv'[r] \in ReviewerLocal
  BY ReviewEffects DEF ReviewEffect
<1>3. ASSUME UNCHANGED <<tstate, revisions, reviews>>, NEW m, rv'[r] = m, DecisionStands(m)
      PROVE  DecisionHolds' /\ ApprovalNamesLatest'
  <2>1. DecisionStands(rv[r])'
    BY <1>3 DEF DecisionStands, IsLatestRevision, LatestReview
  <2>2. ApprovalNamesLatest'
    BY <1>3, ApprovalStays
  <2>3. QED BY <1>1, <1>2, <2>1, <2>2
<1>4. ASSUME UNCHANGED dbVars PROVE UNCHANGED <<tstate, revisions, reviews>>
  BY <1>4 DEF dbVars
<1>5. ASSUME NEW pc, Goto(r, pc)
      PROVE  /\ rv'[r] = [l EXCEPT !.pc = pc] /\ [l EXCEPT !.pc = pc].pc = pc
             /\ [l EXCEPT !.pc = pc].tgt = l.tgt /\ [l EXCEPT !.pc = pc].ref = l.ref
             /\ [l EXCEPT !.pc = pc].dec = l.dec
  BY <1>0, <1>5 DEF Goto, ReviewerLocal
<1>6. ASSUME Refuse(r) PROVE DecisionHolds' /\ ApprovalNamesLatest'
  <2>1. rv'[r] = IdleReviewer /\ IdleReviewer.pc = "idle"
    BY <1>0, <1>6 DEF Refuse, Return, IdleReviewer
  <2>2. DecisionStands(IdleReviewer)
    BY <2>1 DEF DecisionStands
  <2>3. QED BY <1>3, <1>4, <1>6, <2>1, <2>2 DEF Refuse
\* Steps on in the same function that read only.
<1>7. ASSUME UNCHANGED <<tstate, revisions, reviews>>, NEW pc, Goto(r, pc),
             \/ pc = "switch" /\ tstate[l.tgt] = "awaiting_review"
             \/ pc = "latest" /\ l.pc = "switch"
             \/ pc \in {"decide", "suppress"} /\ l.pc \in {"listed", "suppress"}
      PROVE  DecisionHolds' /\ ApprovalNamesLatest'
  <2> DEFINE m == [l EXCEPT !.pc = pc]
  <2>1. rv'[r] = m /\ m.pc = pc /\ m.tgt = l.tgt /\ m.ref = l.ref
    BY <1>5, <1>7
  <2> HIDE DEF m
  <2>2. DecisionStands(m)
    BY <1>0, <1>7, <2>1 DEF DecisionStands
  <2>3. QED BY <1>3, <1>7, <2>1, <2>2
<1>8. CASE \E t \in Target, d \in Decision : Submit(r, t, d)
  <2>1. PICK t \in Target, d \in Decision : Submit(r, t, d)
    BY <1>8
  <2>2. rv'[r].pc = "state"
    BY <1>0, <2>1 DEF Submit
  <2>3. DecisionStands(rv'[r])
    BY <2>2 DEF DecisionStands
  <2>4. QED BY <1>3, <1>4, <2>1, <2>3 DEF Submit
<1>9. CASE CheckState(r)
  BY <1>4, <1>6, <1>7, <1>9 DEF CheckState
<1>10. CASE CheckSwitch(r)
  BY <1>4, <1>6, <1>7, <1>10 DEF CheckSwitch, At
<1>11. CASE ReadLatest(r)
  <2>1. CASE Refuse(r)
    BY <1>6, <2>1
  <2>2. CASE ~Refuse(r)
    <3>1. PICK pc \in {"edit", "listed", "decide"}, i \in DOMAIN revisions[l.tgt] :
              /\ IsLatestRevision(l.tgt, i)
              /\ rv' = [rv EXCEPT ![r].pc = pc, ![r].ref = i]
              /\ UNCHANGED dbVars
      BY <1>11, <2>2 DEF ReadLatest
    <3> DEFINE m == [l EXCEPT !.pc = pc, !.ref = i]
    <3>2. m.pc = pc /\ m.tgt = l.tgt /\ m.ref = i /\ rv'[r] = m
      BY <1>0, <3>1 DEF ReviewerLocal
    <3>3. tstate[l.tgt] = "awaiting_review"
      BY <1>0, <1>11 DEF ReadLatest, At, DecisionStands
    <3> HIDE DEF m
    <3>4. DecisionStands(m)
      BY <3>1, <3>2, <3>3 DEF DecisionStands
    <3>5. QED BY <1>3, <1>4, <3>1, <3>2, <3>4
  <2>3. QED BY <2>1, <2>2
<1>12. CASE CheckListed(r)
  BY <1>4, <1>7, <1>12 DEF CheckListed, At
<1>13. CASE InsertSuppression(r)
  BY <1>7, <1>13 DEF InsertSuppression, At
<1>14. CASE InsertEdit(r)
  <2>1. PICK t \in Target : t = l.tgt
    BY <1>0
  <2>2. PICK i \in DOMAIN revisions[t] : i = l.ref /\ IsLatestRevision(t, i)
    BY <1>0, <1>14, <2>1 DEF InsertEdit, At, DecisionStands
  <2>3. revisions' = [revisions EXCEPT ![t] =
            Append(@, [num |-> revisions[t][i].num + 1, passed |-> FALSE])]
    BY <1>14, <2>1, <2>2 DEF InsertEdit
  <2>4. /\ rv'[r].pc = "gate" /\ rv'[r].tgt = t /\ rv'[r].ref = Len(revisions[t]) + 1
        /\ UNCHANGED <<tstate, reviews>> /\ tstate[t] = "awaiting_review"
    BY <1>0, <1>14, <2>1 DEF InsertEdit, At, ReviewerLocal, DecisionStands
  <2> DEFINE k == Len(revisions[t]) + 1
  <2>5. /\ k \in DOMAIN revisions'[t]
        /\ \A j \in DOMAIN revisions'[t] :
               \/ revisions'[t][j].num < revisions'[t][k].num
               \/ revisions'[t][j].num = revisions'[t][k].num /\ j <= k
    BY <1>0, <2>2, <2>3, EditIsLatest
  <2>6. rv'[r].ref = k
    BY <2>4
  <2> HIDE DEF k
  <2>7. rv'[r].pc = "gate" /\ rv'[r].tgt = t /\ tstate'[t] = "awaiting_review"
    BY <2>4
  <2>8. DecisionStands(rv[r])'
    BY <2>5, <2>6, <2>7 DEF DecisionStands, IsLatestRevision
  <2>9. ApprovalNamesLatest'
    BY <1>0, <2>3, <2>4, ApprovalStays
  <2>10. QED BY <1>1, <1>2, <2>8, <2>9
<1>15. CASE RunDraftGate(r)
  <2>1. PICK t \in Target : t = l.tgt
    BY <1>0
  <2>2. PICK i \in DOMAIN revisions[t] : i = l.ref /\ IsLatestRevision(t, i)
    BY <1>0, <1>15, <2>1 DEF RunDraftGate, At, DecisionStands
  <2>3. PICK b \in BOOLEAN : revisions' = [revisions EXCEPT ![t][i].passed = b]
    BY <1>15, <2>1, <2>2 DEF RunDraftGate
  <2>4. /\ rv'[r].pc = "decide" /\ rv'[r].tgt = t /\ rv'[r].ref = i
        /\ UNCHANGED <<tstate, reviews>> /\ tstate[t] = "awaiting_review"
    BY <1>0, <1>5, <1>15, <2>1, <2>2 DEF RunDraftGate, At, DecisionStands
  <2>5. /\ DOMAIN revisions'[t] = DOMAIN revisions[t]
        /\ \A j \in DOMAIN revisions[t] : revisions'[t][j].num = revisions[t][j].num
        /\ \A u \in Target \ {t} : revisions'[u] = revisions[u]
    BY <1>0, <2>3, NumbersStay
  <2>6. DecisionStands(rv[r])'
    BY <2>2, <2>4, <2>5 DEF DecisionStands, IsLatestRevision
  <2>7. ApprovalNamesLatest'
    BY <2>4, <2>5, ApprovalStays
  <2>8. QED BY <1>1, <1>2, <2>6, <2>7
<1>16. CASE InsertReview(r)
  <2>1. PICK t \in Target : t = l.tgt
    BY <1>0
  <2> DEFINE row == [decision |-> l.dec, revision |-> l.ref]
  <2>2. /\ rv'[r].pc = "move" /\ rv'[r].tgt = t /\ rv'[r].ref = l.ref /\ rv'[r].dec = l.dec
        /\ UNCHANGED <<tstate, revisions>> /\ tstate[t] = "awaiting_review"
        /\ reviews' = [reviews EXCEPT ![t] = Append(@, row)]
        /\ l.ref \in DOMAIN revisions[t] /\ IsLatestRevision(t, l.ref)
    <3>1. /\ tstate[t] = "awaiting_review"
          /\ l.ref \in DOMAIN revisions[t] /\ IsLatestRevision(t, l.ref)
      BY <1>0, <1>16, <2>1 DEF InsertReview, At, DecisionStands
    <3>2. /\ rv'[r].pc = "move" /\ rv'[r].tgt = t
          /\ rv'[r].ref = l.ref /\ rv'[r].dec = l.dec
      BY <1>5, <1>16, <2>1 DEF InsertReview
    <3>3. /\ UNCHANGED <<tstate, revisions>>
          /\ reviews' = [reviews EXCEPT ![t] = Append(@, row)]
      BY <1>16, <2>1 DEF InsertReview
    <3>4. QED BY <3>1, <3>2, <3>3
  <2>3. reviews'[t] # <<>> /\ reviews'[t][Len(reviews'[t])] = row
    <3>1. row \in ReviewRow /\ reviews[t] \in Seq(ReviewRow)
      BY <1>0 DEF ReviewRow, ReviewerLocal
    <3>2. reviews'[t] = Append(reviews[t], row)
      BY <1>0, <2>2
    <3> HIDE DEF row
    <3>3. QED BY <3>1, <3>2, AppendProperties
  <2>4. DecisionStands(rv[r])'
    BY <2>2, <2>3 DEF DecisionStands, IsLatestRevision, LatestReview
  <2>5. ApprovalNamesLatest'
    BY <1>0, <2>2, ApprovalStays
  <2>6. QED BY <1>1, <1>2, <2>4, <2>5
<1>17. CASE MoveDecided(r)
  <2>1. PICK t \in Target : t = l.tgt
    BY <1>0
  <2>2. /\ rv'[r].pc = "audit" /\ UNCHANGED <<revisions, reviews>>
        /\ tstate' = [tstate EXCEPT ![t] = DecisionTransition(l.dec)]
        /\ reviews[t] # <<>> /\ IsLatestRevision(t, l.ref)
        /\ LatestReview(t) = [decision |-> l.dec, revision |-> l.ref]
    BY <1>0, <1>5, <1>17, <2>1 DEF MoveDecided, UpdateState, At, DecisionStands
  <2>3. DecisionStands(rv[r])'
    BY <2>2 DEF DecisionStands
  <2>4. DecisionTransition(l.dec) = "approved" => l.dec \in APPROVAL_DECISIONS
    BY <1>0 DEF ReviewerLocal, Decision, DecisionTransition, APPROVAL_DECISIONS
  <2>5. ApprovalNamesLatest'
    <3>1. SUFFICES ASSUME NEW u \in Target, tstate'[u] = "approved"
                   PROVE  /\ reviews[u] # <<>>
                          /\ LatestReview(u).decision \in APPROVAL_DECISIONS
                          /\ IsLatestRevision(u, LatestReview(u).revision)
      BY <2>2 DEF ApprovalNamesLatest, LatestReview, IsLatestRevision
    <3>2. CASE u = t
      BY <1>0, <2>2, <2>4, <3>1, <3>2
    <3>3. CASE u # t
      BY <1>0, <2>2, <3>1, <3>3 DEF ApprovalNamesLatest
    <3>4. QED BY <3>2, <3>3
  <2>6. QED BY <1>1, <1>2, <2>3, <2>5
<1>18. CASE AuditDecided(r)
  <2>1. rv'[r] = IdleReviewer /\ IdleReviewer.pc = "idle"
    BY <1>0, <1>18 DEF AuditDecided, Return, IdleReviewer
  <2>2. DecisionStands(IdleReviewer)
    BY <2>1 DEF DecisionStands
  <2>3. QED BY <1>3, <1>18, <2>1, <2>2 DEF AuditDecided
<1>19. CASE CutReview(r)
  BY <1>6, <1>19 DEF CutReview
<1>20. QED
  BY <1>8, <1>9, <1>10, <1>11, <1>12, <1>13, <1>14, <1>15, <1>16, <1>17, <1>18, <1>19
  DEF ReviewStep

\* A draft run writes revisions of its own target, which is not approved.
LEMMA DraftApproves ==
  ASSUME ListInv, DraftsKeepOff, ApprovalNamesLatest, NEW d \in Drafter, DraftStep(d)
  PROVE  DraftsKeepOff' /\ ApprovalNamesLatest'
<1> DEFINE l == dr[d]
<1>0. /\ l \in DrafterLocal /\ dr \in [Drafter -> DrafterLocal] /\ l.tgt \in Target
      /\ tstate \in [Target -> State] /\ revisions \in [Target -> Seq(Revision)]
      /\ \A e \in Drafter : dr[e].tgt \in Target
      /\ (l.pc \notin {"idle", "next"} => tstate[l.tgt] # "approved")
  BY DEF ListInv, ListTypes, DraftingTypeOK, DrafterLocal, DraftsKeepOff
<1>1. \A u \in Target : tstate'[u] = "approved" => tstate[u] = "approved"
  BY <1>0, DraftEffects, MovedNotApproved DEF DraftEffect, State
<1>2. UNCHANGED reviews
  BY DEF DraftStep, SelectDrafts, ReadDraftTarget, EndDrafts, ReadReply, CheckCap,
     EnterLoop, Answer, MoveDrafted, AuditDrafted, InsertDraft, MoveToReview, AuditToReview,
     PickLatest, JudgeDraft, RaiseInDraft, ReadDraftDied, MoveDraftFailed, AuditDraftFailed,
     RaiseInDraftHandler, CutDraft, RefuseDraft, convVars, dbVars
<1>3. \A u \in Target : tstate[u] = "approved" => revisions'[u] = revisions[u]
  <2>1. InsertDraft(d) \/ JudgeDraft(d) \/ UNCHANGED revisions
    BY DEF DraftStep, SelectDrafts, ReadDraftTarget, EndDrafts, ReadReply, CheckCap,
       EnterLoop, Answer, MoveDrafted, AuditDrafted, MoveToReview, AuditToReview,
       PickLatest, RaiseInDraft, ReadDraftDied, MoveDraftFailed, AuditDraftFailed,
       RaiseInDraftHandler, CutDraft, RefuseDraft, convVars, dbVars
  <2>2. InsertDraft(d) \/ JudgeDraft(d) => tstate[l.tgt] # "approved"
    BY <1>0 DEF InsertDraft, JudgeDraft, DraftAt
  <2>3. InsertDraft(d) \/ JudgeDraft(d) => \A u \in Target \ {l.tgt} : revisions'[u] = revisions[u]
    BY <1>0 DEF InsertDraft, JudgeDraft
  <2>4. QED BY <2>1, <2>2, <2>3
<1>4. ApprovalNamesLatest'
  BY <1>1, <1>2, <1>3, ApprovalStays
<1>5. dr' = [dr EXCEPT ![d] = dr'[d]]
  BY <1>0 DEF DraftStep, SelectDrafts, ReadDraftTarget, EndDrafts, ReadReply, CheckCap,
     EnterLoop, Answer, MoveDrafted, AuditDrafted, InsertDraft, MoveToReview, AuditToReview,
     PickLatest, JudgeDraft, RaiseInDraft, ReadDraftDied, MoveDraftFailed, AuditDraftFailed,
     RaiseInDraftHandler, CutDraft, RefuseDraft, DraftGoto, NextDraft
\* A run keeps its target; a new one was scored or routed.
<1>6. \/ dr'[d].pc \in {"idle", "next"}
      \/ l.pc \notin {"idle", "next"} /\ dr'[d].tgt = l.tgt
      \/ dr'[d].tgt \in Target /\ tstate[dr'[d].tgt] # "approved"
  <2>1. ASSUME NEW pc, DraftGoto(d, pc) PROVE dr'[d].tgt = l.tgt
    BY <1>0, <2>1 DEF DraftGoto, DrafterLocal
  <2>2. ASSUME NextDraft(d) PROVE dr'[d].pc = "next"
    BY <1>0, <2>2 DEF NextDraft, IdleDrafter
  <2>3. CASE SelectDrafts(d) \/ EndDrafts(d) \/ CutDraft(d)
    BY <1>0, <2>3 DEF SelectDrafts, EndDrafts, CutDraft, IdleDrafter, DrafterLocal
  <2>4. CASE ReadDraftTarget(d)
    <3>1. PICK t \in l.queue :
             \/ /\ tstate[t] \in {"scored", "routed"}
                /\ \E pc \in {"enter", "reply"} :
                       dr' = [dr EXCEPT ![d].pc = pc, ![d].queue = @ \ {t},
                                        ![d].tgt = t, ![d].from = tstate[t]]
             \/ dr' = [dr EXCEPT ![d].queue = @ \ {t}]
      BY <2>4 DEF ReadDraftTarget
    <3>2. t \in Target /\ l.pc = "next"
      BY <1>0, <2>4 DEF DrafterLocal, ReadDraftTarget, DraftAt
    <3>3. QED BY <1>0, <3>1, <3>2 DEF DrafterLocal
  <2>5. CASE \/ ReadReply(d) \/ CheckCap(d) \/ EnterLoop(d) \/ Answer(d) \/ MoveDrafted(d)
             \/ AuditDrafted(d) \/ MoveToReview(d) \/ AuditToReview(d) \/ MoveDraftFailed(d)
             \/ AuditDraftFailed(d) \/ JudgeDraft(d)
    <3>1. l.pc \notin {"idle", "next"}
      BY <2>5 DEF ReadReply, CheckCap, EnterLoop, Answer, MoveDrafted, AuditDrafted,
         MoveToReview, AuditToReview, MoveDraftFailed, AuditDraftFailed, JudgeDraft, DraftAt
    <3>2. NextDraft(d) \/ \E pc : DraftGoto(d, pc)
      BY <2>5 DEF ReadReply, CheckCap, EnterLoop, Answer, MoveDrafted, AuditDrafted,
         MoveToReview, AuditToReview, MoveDraftFailed, AuditDraftFailed, JudgeDraft,
         RefuseDraft
    <3>3. QED BY <2>1, <2>2, <3>1, <3>2
  <2>6. CASE InsertDraft(d) \/ PickLatest(d) \/ RaiseInDraft(d) \/ ReadDraftDied(d)
    <3>1. l.pc \notin {"idle", "next"}
      BY <2>6 DEF InsertDraft, PickLatest, RaiseInDraft, ReadDraftDied, DraftAt
    <3>2. dr'[d].tgt = l.tgt
      BY <1>0, <2>6 DEF InsertDraft, PickLatest, RaiseInDraft, ReadDraftDied, DrafterLocal
    <3>3. QED BY <3>1, <3>2
  <2>7. CASE RaiseInDraftHandler(d)
    <3>1. l.pc \notin {"idle", "next"}
      BY <2>7 DEF RaiseInDraftHandler
    <3>2. NextDraft(d) \/ dr'[d].tgt = l.tgt
      BY <1>0, <2>7 DEF RaiseInDraftHandler, DrafterLocal
    <3>3. QED BY <2>2, <3>1, <3>2
  <2>8. QED BY <2>3, <2>4, <2>5, <2>6, <2>7 DEF DraftStep
<1>7. dr'[d].pc \notin {"idle", "next"} => tstate'[dr'[d].tgt] # "approved"
  BY <1>0, <1>1, <1>6
<1>8. DraftsKeepOff'
  BY <1>0, <1>1, <1>5, <1>7 DEF DraftsKeepOff
<1>9. QED BY <1>4, <1>8

\* The other two stages write neither revisions nor decisions, and approve
\* nothing.
LEMMA SendApproves ==
  ASSUME RowTypes, NEW s \in Sender, SendStep(s)
  PROVE  /\ UNCHANGED <<revisions, reviews>>
         /\ \A u \in Target : tstate'[u] = "approved" => tstate[u] = "approved"
<1>1. UNCHANGED <<revisions, reviews>> /\ (MoveSent(s) \/ MoveFailed(s) \/ UNCHANGED tstate)
  BY DEF SendStep, Select, ReadTarget, EndBatch, GateSwitch, GateEmail, GateDomain,
     GateReview, GateRevision, GateNewest, RecordGate, RereadReview, WriteArtifact,
     InsertMessage, MoveSent, AuditSent, LogSend, RaiseInSend, ReadDied, MoveFailed,
     AuditFailed, RaiseInBookkeeping, CutSend, Check, dbVars
<1>2. sd[s].tgt \in Target /\ tstate \in [Target -> State]
  BY DEF RowTypes, SendingTypeOK, SenderLocal, DBTypeOK
<1>3. {"dry_run_sent", "failed"} \subseteq State \ {"approved"}
  BY DEF State
<1>4. QED BY <1>1, <1>2, <1>3, MovedNotApproved DEF MoveSent, MoveFailed, UpdateState

LEMMA ReplyApproves ==
  ASSUME ListInv, NEW p \in Replier, ReplyStep(p)
  PROVE  /\ UNCHANGED <<revisions, reviews>>
         /\ \A u \in Target : tstate'[u] = "approved" => tstate[u] = "approved"
<1>1. /\ UNCHANGED <<revisions, reviews>>
      /\ \/ MoveReplied(p) \/ MoveRouted(p) \/ MoveSuppressed(p) \/ MoveReplyFailed(p)
         \/ UNCHANGED tstate
  BY DEF ReplyStep, StartReplies, FetchFile, EndFetch, ReadLinked, MoveReplied,
     AuditReplied, PickReply, EndReplies, EnterPipeline, Classify, ReadRoute, RecordVerdict,
     MoveRouted, AuditRouted, CheckReplyListed, InsertUnsubscribe, MoveSuppressed,
     AuditSuppressed, RaiseInReply, ReadReplyDied, MoveReplyFailed, AuditReplyFailed,
     RaiseInReplyHandler, CutReplies, convVars, dbVars
<1>2. rp[p].tgt \in Target /\ tstate \in [Target -> State]
  BY DEF ListInv, ListTypes, ReplyingTypeOK, ReplierLocal
<1>3. {"replied", "routed", "suppressed", "failed"} \subseteq State \ {"approved"}
  BY DEF State
<1>4. QED
  BY <1>1, <1>2, <1>3, MovedNotApproved DEF MoveReplied, MoveRouted, MoveSuppressed,
     MoveReplyFailed, UpdateState

LEMMA ApprovalInit == Init => ApprovalInv
<1>1. SUFFICES ASSUME Init PROVE ApprovalInv
  OBVIOUS
<1>2. OneReview /\ DecisionHolds /\ DraftsKeepOff
  BY <1>1 DEF Init, ReviewInit, DraftingInit, IdleReviewer, IdleDrafter, OneReview,
     DecisionHolds, DraftsKeepOff, At
<1>3. ApprovalNamesLatest
  BY <1>1 DEF Init, ApprovalNamesLatest
<1>4. QED BY <1>1, <1>2, <1>3, TurnsInit DEF ApprovalInv

LEMMA ApprovalNext ==
  ASSUME OneStage, SerialReviews, ListInv, RowTypes, ApprovalInv, [Next]_vars
  PROVE  ApprovalInv'
<1>1. Turns' /\ Turns /\ OneReview /\ DecisionHolds /\ DraftsKeepOff /\ ApprovalNamesLatest
  BY TurnsNext DEF ApprovalInv
\* A stage that rests has no part in this.
<1>2. ASSUME NoReview, UNCHANGED rv PROVE OneReview' /\ DecisionHolds'
  BY <1>2 DEF NoReview, At, OneReview, DecisionHolds
<1>3. ASSUME NoDraft, UNCHANGED dr PROVE DraftsKeepOff'
  BY <1>3 DEF NoDraft, DraftAt, DraftsKeepOff
<1>4. ASSUME UNCHANGED <<tstate, revisions, reviews, rv, dr>> PROVE ApprovalInv'
  <2>1. OneReview' /\ DraftsKeepOff'
    BY <1>1, <1>4 DEF OneReview, DraftsKeepOff, At
  <2>2. DecisionHolds'
    BY <1>1, <1>4 DEF DecisionHolds, At, IsLatestRevision, LatestReview
  <2>3. ApprovalNamesLatest'
    BY <1>1, <1>4, ApprovalStays
  <2>4. QED BY <1>1, <2>1, <2>2, <2>3 DEF ApprovalInv
<1>5. CASE UNCHANGED vars
  BY <1>4, <1>5 DEF vars, convVars, dbVars
<1>6. CASE FlipSwitch
  BY <1>4, <1>6 DEF FlipSwitch
<1>7. ASSUME NEW t \in Target, Arrive(t) PROVE ApprovalInv'
  BY <1>4, <1>7 DEF Arrive, dbVars
<1>8. ASSUME NEW r \in Reviewer, ReviewTurn(r) PROVE ApprovalInv'
  <2>1. ReviewStep(r) /\ UNCHANGED dr /\ NoDraft
    BY <1>8 DEF ReviewTurn
  <2>2. OneReview' /\ DecisionHolds' /\ ApprovalNamesLatest'
    BY <1>1, <2>1, ReviewAlone, ReviewApproves
  <2>3. QED BY <1>1, <1>3, <2>1, <2>2 DEF ApprovalInv
<1>9. ASSUME NEW s \in Sender, SendTurn(s) PROVE ApprovalInv'
  <2>1. SendStep(s) /\ UNCHANGED <<rv, dr>> /\ NoReview /\ NoDraft
    BY <1>9 DEF SendTurn
  <2>2. ApprovalNamesLatest'
    BY <1>1, <2>1, SendApproves, ApprovalStays
  <2>3. QED BY <1>1, <1>2, <1>3, <2>1, <2>2 DEF ApprovalInv
<1>10. ASSUME NEW d \in Drafter, DraftTurn(d) PROVE ApprovalInv'
  <2>1. DraftStep(d) /\ UNCHANGED rv /\ NoReview
    BY <1>10 DEF DraftTurn
  <2>2. DraftsKeepOff' /\ ApprovalNamesLatest'
    BY <1>1, <2>1, DraftApproves
  <2>3. QED BY <1>1, <1>2, <2>1, <2>2 DEF ApprovalInv
<1>11. ASSUME NEW p \in Replier, ReplyTurn(p) PROVE ApprovalInv'
  <2>1. ReplyStep(p) /\ UNCHANGED <<rv, dr>> /\ NoReview /\ NoDraft
    BY <1>11 DEF ReplyTurn
  <2>2. ApprovalNamesLatest'
    BY <1>1, <2>1, ReplyApproves, ApprovalStays
  <2>3. QED BY <1>1, <1>2, <1>3, <2>1, <2>2 DEF ApprovalInv
<1>12. QED BY <1>5, <1>6, <1>7, <1>8, <1>9, <1>10, <1>11 DEF Next

LEMMA ApprovalInvariance ==
  ASSUME OneStage, SerialReviews
  PROVE  Spec => []ApprovalInv
<1>1. ListInv /\ RowTypes /\ ApprovalInv /\ [Next]_vars => ApprovalInv'
  BY ApprovalNext
<1>2. QED BY <1>1, ApprovalInit, ListInvariance, RowsAreTyped, PTL DEF Spec

\* When stages take turns and decisions are submitted one at a time, the
\* approval of an approved target names the revision the gate will look for.
THEOREM ApprovalIsOfLatest ==
  ASSUME OneStage, SerialReviews
  PROVE  Spec => []ApprovalNamesLatest
<1>1. ApprovalInv => ApprovalNamesLatest
  BY DEF ApprovalInv
<1>2. QED BY <1>1, ApprovalInvariance, PTL
=============================================================================
