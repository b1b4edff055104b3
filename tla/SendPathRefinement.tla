------------------------- MODULE SendPathRefinement -------------------------
(***************************************************************************)
(* With one decision and one batch at a time the send path implements      *)
(* Outreach, and every audit row of a move names the state it overwrites.  *)
(***************************************************************************)
EXTENDS SendPathSerialProofs

\* Serial batches: a second batch starts only when none is running.
LEMMA OneSenderStep ==
  ASSUME SerialSends, Inv, OneSender, [Next]_vars
  PROVE  OneSender'
<1> USE DEF SendAt
<1>1. ASSUME NEW s \in Sender, sd'[s] # sd[s], sd[s].pc = "idle"
      PROVE  \A q \in Sender : sd[q].pc = "idle"
  <2>1. SendStep(s)
    BY <1>1, SenderActs DEF Inv
  <2>2. Select(s)
    BY <1>1, <2>1 DEF SendStep, ReadTarget, EndBatch, GateSwitch, GateEmail, GateDomain,
       GateReview, GateRevision, GateNewest, RecordGate, RereadReview, WriteArtifact,
       InsertMessage, MoveSent, AuditSent, LogSend, RaiseInSend, InSend, ReadDied, MoveFailed,
       AuditFailed, RaiseInBookkeeping, CutSend
  <2>3. QED BY <2>2 DEF Select
<1>2. ASSUME NEW s \in Sender, NEW q \in Sender, s # q, sd'[s] # sd[s]
      PROVE  sd'[q] = sd[q]
  BY <1>2, SenderActs, OtherSenders DEF Inv
<1>3. ASSUME NEW s \in Sender, NEW q \in Sender, s # q
      PROVE  sd'[s].pc = "idle" \/ sd'[q].pc = "idle"
  BY <1>1, <1>2, <1>3 DEF OneSender
<1>4. QED BY <1>3 DEF OneSender

\* Where the batch knows the state of its target.
Known == {"switch", "email", "domain", "review", "revision", "newest", "record",
          "reread", "file", "message", "move", "failmove"}

Cleared(s) == \/ sd[s].pc \in {"revision", "newest", "reread", "file", "message", "move"}
              \/ sd[s].pc = "record" /\ sd[s].clean

\* A sender that remembers a state has just read it, or has not moved the
\* target since.
LEMMA KnownState ==
  ASSUME TypeOK, NEW s \in Sender, SendStep(s), sd'[s].pc \in Known
  PROVE  /\ tstate' = tstate
         /\ \/ sd'[s].st = tstate[sd'[s].tgt]
            \/ sd[s].pc \in Known /\ sd'[s].tgt = sd[s].tgt /\ sd'[s].st = sd[s].st
         /\ \/ sd'[s].pc \in {"revision", "newest", "reread", "file", "message", "move"}
            \/ sd'[s].pc = "record" /\ sd'[s].clean
            => sd'[s].st = "approved" \/ (Cleared(s) /\ sd'[s].st = sd[s].st)
<1>1. /\ sd \in [Sender -> SenderLocal]
      /\ DOMAIN sd[s] = {"pc", "queue", "tgt", "st", "clean", "ref", "text", "step"}
      /\ sd[s].clean \in BOOLEAN
  BY DEF TypeOK, SendingTypeOK, SenderLocal
<1>2. IdleSender.pc = "idle"
  BY DEF IdleSender
<1>3. ASSUME NextTarget(s) PROVE sd'[s].pc = "next"
  BY <1>1, <1>3 DEF NextTarget, IdleSender
<1> USE <1>1 DEF SendAt, Known, Cleared, dbVars
<1>4. CASE Select(s) \/ EndBatch(s) \/ CutSend(s)
  BY <1>4, <1>2 DEF Select, EndBatch, CutSend
<1>5. CASE ReadTarget(s)
  <2>1. PICK u \in sd[s].queue :
           \/ sd' = [sd EXCEPT ![s].pc = "log", ![s].queue = @ \ {u}, ![s].tgt = u]
           \/ sd' = [sd EXCEPT ![s].pc = "switch", ![s].queue = @ \ {u},
                               ![s].tgt = u, ![s].st = tstate[u], ![s].clean = TRUE]
    BY <1>5 DEF ReadTarget
  <2>2. tstate' = tstate
    BY <1>5 DEF ReadTarget
  <2>3. sd'[s].pc = "switch" /\ sd'[s].tgt = u /\ sd'[s].st = tstate[u]
    BY <2>1
  <2>4. QED BY <2>2, <2>3
<1>6. CASE GateSwitch(s) \/ GateEmail(s) \/ GateDomain(s)
  BY <1>6 DEF GateSwitch, GateEmail, GateDomain, Check
<1>7. CASE GateReview(s)
  <2>1. tstate' = tstate /\ sd[s].pc = "review"
    BY <1>7 DEF GateReview
  <2>2. CASE /\ sd[s].st = "approved"
             /\ sd' = [sd EXCEPT ![s].pc = "revision", ![s].ref = LatestReview(sd[s].tgt).revision]
    BY <2>1, <2>2
  <2>3. CASE sd' = [sd EXCEPT ![s].pc = "record", ![s].clean = FALSE]
    BY <2>1, <2>3
  <2>4. QED BY <1>7, <2>2, <2>3 DEF GateReview
<1>8. CASE GateRevision(s) \/ GateNewest(s)
  BY <1>8 DEF GateRevision, GateNewest, Check
<1>9. CASE RecordGate(s)
  <2>1. tstate' = tstate /\ sd[s].pc = "record"
    BY <1>9 DEF RecordGate
  <2>2. CASE sd[s].clean /\ sd' = [sd EXCEPT ![s].pc = "reread", ![s].step = Len(gateLog) + 1]
    BY <2>1, <2>2
  <2>3. CASE SendGoto(s, "log")
    BY <2>3 DEF SendGoto
  <2>4. QED BY <1>9, <2>2, <2>3 DEF RecordGate
<1>10. CASE RereadReview(s) \/ WriteArtifact(s) \/ InsertMessage(s)
  BY <1>10 DEF RereadReview, WriteArtifact, InsertMessage, SendGoto
<1>11. CASE MoveSent(s) \/ AuditSent(s) \/ RaiseInSend(s) \/ MoveFailed(s)
  BY <1>11 DEF MoveSent, AuditSent, RaiseInSend, MoveFailed, SendGoto
<1>12. CASE ReadDied(s)
  BY <1>12 DEF ReadDied
<1>13. CASE LogSend(s) \/ AuditFailed(s) \/ RaiseInBookkeeping(s)
  BY <1>13, <1>3 DEF LogSend, AuditFailed, RaiseInBookkeeping
<1>14. QED
  BY <1>4, <1>5, <1>6, <1>7, <1>8, <1>9, <1>10, <1>11, <1>12, <1>13 DEF SendStep

\* What a handler remembers of a target stays its state.
LEMMA StateIsKnownStep ==
  ASSUME Inv, SerialInv, OneSender, StateIsKnown, [Next]_vars
  PROVE  StateIsKnown'
<1> SUFFICES ASSUME NEW s \in Sender
             PROVE  /\ sd'[s].pc \in Known => tstate'[sd'[s].tgt] = sd'[s].st
                    /\ \/ sd'[s].pc \in {"revision", "newest", "reread", "file", "message", "move"}
                       \/ sd'[s].pc = "record" /\ sd'[s].clean
                       => sd'[s].st = "approved"
  BY DEF StateIsKnown, Known
<1>1. TypeOK /\ sd[s].tgt \in Target /\ LeftReview /\ StillUnderReview
  BY DEF Inv, SerialInv, TypeOK, SendingTypeOK, SenderLocal
<1>2. CASE sd'[s] # sd[s]
  <2>1. SendStep(s)
    BY <1>1, <1>2, SenderActs
  <2>2. QED BY <1>1, <2>1, KnownState DEF StateIsKnown, Known, Cleared
<1>3. CASE sd'[s] = sd[s]
  <2>1. ASSUME sd[s].pc \in Known PROVE tstate'[sd[s].tgt] = tstate[sd[s].tgt]
    <3>1. SUFFICES ASSUME tstate'[sd[s].tgt] # tstate[sd[s].tgt] PROVE FALSE
      OBVIOUS
    <3>2. tstate[sd[s].tgt] # "awaiting_review" /\ sd[s].pc # "idle"
      BY <1>1, <2>1 DEF LeftReview, Known
    <3>3. CASE \E r \in Reviewer : MoveDecided(r)
      <4>1. PICK r \in Reviewer : MoveDecided(r)
        BY <3>3
      <4>2. tstate[rv[r].tgt] = "awaiting_review"
        BY <4>1, <1>1 DEF MoveDecided, At, StillUnderReview, Pending
      <4>3. rv[r].tgt = sd[s].tgt
        BY <4>1, <3>1, <1>1 DEF MoveDecided, UpdateState, TypeOK, DBTypeOK
      <4>4. QED BY <4>2, <4>3, <3>2
    <3>4. CASE \E q \in Sender : MoveSent(q) \/ MoveFailed(q)
      <4>1. PICK q \in Sender : MoveSent(q) \/ MoveFailed(q)
        BY <3>4
      <4>2. sd'[q] # sd[q] /\ sd[q].pc # "idle"
        BY <4>1, <1>1 DEF MoveSent, MoveFailed, SendGoto, SendAt, TypeOK, SendingTypeOK, SenderLocal
      <4>3. QED BY <1>3, <3>2, <4>2 DEF OneSender, SendAt
    <3>5. QED BY <3>1, <3>3, <3>4, StateChanges
  <2>2. QED BY <1>3, <2>1 DEF StateIsKnown, Known
<1>4. QED BY <1>2, <1>3

\* Init: nobody is running.
LEMMA SoloInvInit == Init => SoloInv
<1>1. Init => \A s \in Sender : sd[s].pc = "idle"
  BY DEF Init, SendingInit, IdleSender
<1>2. QED BY <1>1, SerialInvInit DEF SoloInv, OneSender, StateIsKnown, SendAt

\* With one decision and one batch at a time, SoloInv always holds.
THEOREM SoloInvariance ==
  ASSUME SerialReviews, SerialSends
  PROVE  Spec => []SoloInv
<1>1. Inv /\ SoloInv /\ [Next]_vars => SoloInv'
  BY SerialInvStep, OneSenderStep, StateIsKnownStep DEF SoloInv
<1>2. QED BY <1>1, SoloInvInit, Invariance, PTL DEF Spec

-----------------------------------------------------------------------------
\* The from_state of every recorded decision and send is the state its UPDATE
\* overwrites.
THEOREM MovesAreTruthful ==
  ASSUME SerialReviews, SerialSends
  PROVE  Spec => TruthfulMoves
<1> DEFINE Truthful ==
      /\ \A r \in Reviewer : At(r, "move") /\ rv'[r].pc = "audit" =>
             tstate[rv[r].tgt] = "awaiting_review"
      /\ \A s \in Sender : SendAt(s, "move") /\ sd'[s].pc = "audit" =>
             tstate[sd[s].tgt] = "approved"
<1>1. SoloInv /\ [Next]_vars => [Truthful]_vars
  BY DEF SoloInv, SerialInv, StillUnderReview, Pending, StateIsKnown, At, SendAt
<1>2. QED BY <1>1, SoloInvariance, PTL DEF Spec, TruthfulMoves

\* The crash handler's row says where the target was when its send died.
THEOREM CrashRowIsTruthful ==
  ASSUME SerialReviews, SerialSends
  PROVE  Spec => CrashRowTellsState
<1> DEFINE Truthful ==
      \A s \in Sender : SendAt(s, "failmove") /\ sd'[s].pc = "failaudit" =>
          tstate[sd[s].tgt] = sd[s].st
<1>1. SoloInv /\ [Next]_vars => [Truthful]_vars
  BY DEF SoloInv, StateIsKnown, SendAt
<1>2. QED BY <1>1, SoloInvariance, PTL DEF Spec, CrashRowTellsState

-----------------------------------------------------------------------------
Delivered == {m.target : m \in messages}

\* The abstract specification uses the same transition table.
LEMMA SameTable ==
    /\ O!State = State
    /\ \A from, to : O!IsValid(from, to) <=> IsValid(from, to)
<1>1. O!VALID_TRANSITIONS = VALID_TRANSITIONS
  BY Zenon DEF O!VALID_TRANSITIONS, VALID_TRANSITIONS
<1>2. O!ANY_TARGET_TRANSITIONS = ANY_TARGET_TRANSITIONS
  BY DEF O!ANY_TARGET_TRANSITIONS, ANY_TARGET_TRANSITIONS
<1>3. QED BY <1>1, <1>2 DEF O!State, State, O!IsValid, IsValid

\* Every step is a step of Outreach or leaves its variables alone.
LEMMA PromiseStep ==
  ASSUME Inv, SoloInv, [Next]_vars
  PROVE  [O!Next]_<<tstate, Delivered>>
<1> USE DEF Delivered
<1>1. /\ TypeOK /\ LeftReview /\ StillUnderReview /\ StateIsKnown /\ SendOrder
      /\ tstate \in [Target -> State]
  BY DEF Inv, SoloInv, SerialInv, TypeOK, DBTypeOK
<1>2. ASSUME NEW r \in Reviewer, MoveDecided(r) PROVE O!Next
  <2> DEFINE t == rv[r].tgt
             to == DecisionTransition(rv[r].dec)
  <2>1. t \in Target /\ to \in State /\ to # "dry_run_sent"
    BY <1>1 DEF TypeOK, ReviewTypeOK, ReviewerLocal, DecisionTransition, Decision,
       APPROVAL_DECISIONS, State
  <2>2. tstate[t] = "awaiting_review"
    BY <1>1, <1>2 DEF MoveDecided, At, StillUnderReview, Pending
  <2>3. O!Move(t, to)
    BY <1>2, <2>1, <2>2, SameTable DEF O!Move, MoveDecided, UpdateState
  <2>4. QED BY <2>1, <2>3, SameTable DEF O!Next
<1>3. ASSUME NEW s \in Sender, MoveSent(s) PROVE O!Next
  <2>1. sd[s].tgt \in Target /\ "dry_run_sent" \in State
    BY <1>1 DEF TypeOK, SendingTypeOK, SenderLocal, State
  <2>2. tstate[sd[s].tgt] = "approved"
    BY <1>1, <1>3 DEF MoveSent, SendAt, StateIsKnown
  <2>3. sd[s].tgt \in Delivered
    BY <1>1, <1>3 DEF MoveSent, SendOrder
  <2>4. O!Move(sd[s].tgt, "dry_run_sent")
    BY <1>3, <2>2, <2>3, SameTable DEF O!Move, MoveSent, UpdateState
  <2>5. QED BY <2>1, <2>4, SameTable DEF O!Next
<1>4. ASSUME NEW s \in Sender, MoveFailed(s) PROVE O!Next
  <2>1. sd[s].tgt \in Target /\ "failed" \in State
    BY <1>1 DEF TypeOK, SendingTypeOK, SenderLocal, State
  <2>2. O!Move(sd[s].tgt, "failed")
    <3>1. IsValid(tstate[sd[s].tgt], "failed")
      BY DEF IsValid, ANY_TARGET_TRANSITIONS
    <3>2. QED BY <1>4, <3>1, SameTable DEF O!Move, MoveFailed, UpdateState
  <2>3. QED BY <2>1, <2>2, SameTable DEF O!Next
<1>5. ASSUME NEW s \in Sender, InsertMessage(s) PROVE O!Next
  <2>1. sd[s].tgt \in Target
    BY <1>1 DEF TypeOK, SendingTypeOK, SenderLocal
  <2>2. tstate[sd[s].tgt] = "approved"
    BY <1>1, <1>5 DEF InsertMessage, SendAt, StateIsKnown
  <2>3. Delivered' = Delivered \cup {sd[s].tgt}
    <3>1. messages' = messages \cup {Artifact(s)} /\ Artifact(s).target = sd[s].tgt
      BY <1>5 DEF InsertMessage, Artifact
    <3>2. QED BY <3>1
  <2>4. QED BY <1>5, <2>1, <2>2, <2>3 DEF O!Next, O!Deliver, InsertMessage
<1>6. QED
  BY <1>2, <1>3, <1>4, <1>5, StateChanges, MessagesGrow

\* The review and send code implements the promise of Outreach.
THEOREM Refinement ==
  ASSUME SerialReviews, SerialSends
  PROVE  Spec => KeepsPromise
<1>1. Init => O!Init
  <2>1. SUFFICES ASSUME Init PROVE O!Init
    OBVIOUS
  <2>2. tstate \in [Target -> State]
    BY <2>1, TypeInit DEF TypeOK, DBTypeOK
  <2>3. messages = {}
    BY <2>1 DEF Init, DBInit
  <2>4. QED BY <2>2, <2>3, SameTable DEF O!Init
<1>2. Inv /\ SoloInv /\ [Next]_vars => [O!Next]_<<tstate, Delivered>>
  BY PromiseStep
<1>3. QED
  BY <1>1, <1>2, Invariance, SoloInvariance, PTL DEF Spec, KeepsPromise, O!Spec, Delivered
=============================================================================
