------------------------- MODULE SendMonitorProofs -------------------------
(***************************************************************************)
(* The counting properties of the send path.  A block in force lets no     *)
(* further send past the check of it, so the messages recorded since then   *)
(* and the sends still past it are no more than the processes.  With one    *)
(* batch at a time a message of a target is followed by its transition or   *)
(* by a cut.                                                                *)
(***************************************************************************)
EXTENDS SendMonitor, SendPathRefinement, FiniteSetTheorems

\* Where a gate evaluation is that has the check of block b behind it.
Behind(b) ==
    CASE b = "switch" -> {"email", "domain", "review", "revision", "newest", "record"}
      [] b = "email" -> {"domain", "review", "revision", "newest", "record"}
      [] b = "domain" -> {"review", "revision", "newest", "record"}

\* Sends of t that passed the check of b and have not recorded a message.
Armed(t, b) ==
    {s \in Sender : /\ sd[s].tgt = t
                    /\ \/ sd[s].pc \in {"reread", "file", "message"}
                       \/ sd[s].pc \in Behind(b) /\ sd[s].clean}

SendsRunOut ==
    /\ late \in [Target -> [Block -> Nat]]
    /\ \A t \in Target, b \in Block :
           IF InForce(t, b)
           THEN late[t][b] + Cardinality(Armed(t, b)) <= Cardinality(Sender)
           ELSE late[t][b] <= Cardinality(Sender)

SentTo(t) == {m \in messages : m.target = t}

\* The target's last message is accounted for: its send has moved the target,
\* which a crash may have failed since, or is about to.
Settled(t) == \/ tstate[t] \in {"dry_run_sent", "failed"}
              \/ \E s \in Sender : SendAt(s, "move") /\ sd[s].tgt = t

CutsAreCounted ==
    /\ IsFiniteSet(messages) /\ cut \in [Target -> Nat]
    /\ \A t \in Target :
           Cardinality(SentTo(t)) <= cut[t] + (IF Settled(t) THEN 1 ELSE 0)

\* The history variables do not restrict the send path.
LEMMA MonitorStep == [MonitorNext]_<<vars, late, cut>> => [Next]_vars
  BY DEF MonitorNext

LEMMA MonitorImplementsSpec == MonitorSpec => Spec
<1>1. MonitorInit => Init
  BY DEF MonitorInit
<1>2. QED BY <1>1, MonitorStep, PTL DEF MonitorSpec, Spec

LEMMA ArmedIsFinite ==
  ASSUME NEW t, NEW b
  PROVE  /\ IsFiniteSet(Armed(t, b)) /\ Cardinality(Armed(t, b)) \in Nat
         /\ Cardinality(Armed(t, b)) <= Cardinality(Sender)
         /\ Cardinality(Sender) \in Nat
<1>1. Armed(t, b) \subseteq Sender
  BY DEF Armed
<1>2. QED BY <1>1, SenderAssumption, FS_Subset, FS_CardinalityType

\* What a step adds to the messages of a target.
LEMMA NewMessage ==
  ASSUME TypeOK, [Next]_vars, NEW t \in Target
  PROVE  \/ NewMessages(t) = 0 /\ SentTo(t)' = SentTo(t)
         \/ /\ NewMessages(t) = 1
            /\ \E s \in Sender :
                   /\ InsertMessage(s) /\ sd[s].tgt = t /\ Artifact(s) \notin messages
                   /\ SentTo(t)' = SentTo(t) \cup {Artifact(s)}
<1> DEFINE New == {m \in messages' \ messages : m.target = t}
<1>1. CASE messages' = messages
  <2>1. New = {}
    BY <1>1
  <2>2. QED BY <1>1, <2>1, FS_EmptySet DEF NewMessages, SentTo
<1>2. CASE messages' # messages
  <2>1. PICK s \in Sender : InsertMessage(s)
    BY <1>2, MessagesGrow
  <2>2. messages' = messages \cup {Artifact(s)} /\ Artifact(s) \notin messages
    BY <1>2, <2>1 DEF InsertMessage
  <2>3. Artifact(s).target = sd[s].tgt
    BY DEF Artifact
  <2>4. CASE sd[s].tgt = t
    <3>1. New = {Artifact(s)}
      BY <2>2, <2>3, <2>4
    <3>2. NewMessages(t) = 1
      BY <3>1, FS_Singleton DEF NewMessages
    <3>3. SentTo(t)' = SentTo(t) \cup {Artifact(s)}
      BY <2>2, <2>3, <2>4 DEF SentTo
    <3>4. QED BY <2>1, <2>2, <2>4, <3>2, <3>3
  <2>5. CASE sd[s].tgt # t
    <3>1. New = {} /\ SentTo(t)' = SentTo(t)
      BY <2>2, <2>3, <2>5 DEF SentTo
    <3>2. QED BY <3>1, FS_EmptySet DEF NewMessages
  <2>6. QED BY <2>4, <2>5
<1>3. QED BY <1>1, <1>2

-----------------------------------------------------------------------------
\* While a block is in force nobody gets past the check of it.
LEMMA ArmedShrinks ==
  ASSUME TypeOK, [Next]_vars, NEW t \in Target, NEW b \in Block, InForce(t, b)
  PROVE  Armed(t, b)' \subseteq Armed(t, b)
<1> SUFFICES ASSUME NEW s \in Sender, s \in Armed(t, b)'
             PROVE  s \in Armed(t, b)
  BY DEF Armed
<1>1. CASE sd'[s] = sd[s]
  BY <1>1 DEF Armed
<1>2. CASE sd'[s] # sd[s]
  <2>1. SendStep(s)
    BY <1>2, SenderActs
  <2>2. /\ sd \in [Sender -> SenderLocal] /\ sd[s].clean \in BOOLEAN
        /\ DOMAIN sd[s] = {"pc", "queue", "tgt", "st", "clean", "ref", "text", "step"}
    BY DEF TypeOK, SendingTypeOK, SenderLocal
  <2>3. sd'[s].pc \in {"reread", "file", "message"} \cup Behind(b)
    BY DEF Armed
  <2>4. sd'[s].pc \notin {"idle", "next", "switch", "log", "move", "audit", "died",
                          "failmove", "failaudit"}
    BY <2>3 DEF Behind, Block
  <2>5. \/ GateSwitch(s) \/ GateEmail(s) \/ GateDomain(s) \/ GateReview(s)
        \/ GateRevision(s) \/ GateNewest(s) \/ RecordGate(s) \/ RereadReview(s)
        \/ WriteArtifact(s)
    <3>1. ~(Select(s) \/ ReadTarget(s))
      <4>1. Select(s) => sd'[s].pc = "next"
        BY <2>2 DEF Select
      <4>2. ReadTarget(s) => sd'[s].pc \in {"log", "switch"}
        BY <2>2 DEF ReadTarget
      <4>3. QED BY <2>4, <4>1, <4>2
    <3>2. ~(InsertMessage(s) \/ MoveSent(s) \/ RaiseInSend(s) \/ ReadDied(s) \/ MoveFailed(s))
      BY <2>2, <2>4 DEF InsertMessage, MoveSent, RaiseInSend, ReadDied, MoveFailed, SendGoto
    <3>3. ~AuditSent(s)
      BY <2>2, <2>4 DEF AuditSent, SendGoto
    <3>4. IdleSender.pc = "idle"
          /\ [IdleSender EXCEPT !.pc = "next", !.queue = sd[s].queue].pc = "next"
      BY DEF IdleSender
    <3>5. ~(EndBatch(s) \/ CutSend(s) \/ NextTarget(s))
      BY <2>2, <2>4, <3>4 DEF EndBatch, CutSend, NextTarget
    <3>6. QED BY <2>1, <3>1, <3>2, <3>3, <3>5
              DEF SendStep, LogSend, AuditFailed, RaiseInBookkeeping
  <2>6. CASE GateSwitch(s)
    BY <2>2, <2>6 DEF GateSwitch, Check, SendAt, Armed, Behind, Block, InForce
  <2>7. CASE GateEmail(s)
    BY <2>2, <2>7 DEF GateEmail, Check, SendAt, Armed, Behind, Block, InForce
  <2>8. CASE GateDomain(s)
    BY <2>2, <2>8 DEF GateDomain, Check, SendAt, Armed, Behind, Block, InForce
  <2>9. CASE GateReview(s)
    BY <2>2, <2>9 DEF GateReview, SendAt, Armed, Behind, Block
  <2>10. CASE GateRevision(s) \/ GateNewest(s)
    BY <2>2, <2>10 DEF GateRevision, GateNewest, Check, SendAt, Armed, Behind, Block
  <2>11. CASE RecordGate(s)
    BY <2>2, <2>11 DEF RecordGate, SendGoto, SendAt, Armed, Behind, Block
  <2>12. CASE RereadReview(s) \/ WriteArtifact(s)
    BY <2>2, <2>12 DEF RereadReview, WriteArtifact, SendGoto, SendAt, Armed
  <2>13. QED BY <2>5, <2>6, <2>7, <2>8, <2>9, <2>10, <2>11, <2>12
<1>3. QED BY <1>1, <1>2

LEMMA SendsRunOutStep ==
  ASSUME TypeOK, SendsRunOut, MonitorNext
  PROVE  SendsRunOut'
<1>1. [Next]_vars
  BY DEF MonitorNext, Watch
<1>2. \A t \in Target : NewMessages(t) \in Nat
  BY <1>1, NewMessage
<1>3. late \in [Target -> [Block -> Nat]]
  BY DEF SendsRunOut
<1>4. ASSUME NEW t \in Target, NEW b \in Block
      PROVE  late'[t][b] = IF InForce(t, b) THEN late[t][b] + NewMessages(t) ELSE 0
  BY DEF MonitorNext, Watch
<1>5. late' \in [Target -> [Block -> Nat]]
  <2>1. ASSUME NEW t \in Target, NEW b \in Block
        PROVE  (IF InForce(t, b) THEN late[t][b] + NewMessages(t) ELSE 0) \in Nat
    BY <1>2, <1>3
  <2>2. QED BY <2>1 DEF MonitorNext, Watch
<1>6. ASSUME NEW t \in Target, NEW b \in Block
      PROVE  late'[t][b] + Cardinality(Armed(t, b)') <= Cardinality(Sender)
  <2>1. /\ IsFiniteSet(Armed(t, b)) /\ Cardinality(Armed(t, b)) \in Nat
        /\ Cardinality(Sender) \in Nat
    BY ArmedIsFinite
  <2>2. /\ Armed(t, b)' \subseteq Sender /\ IsFiniteSet(Armed(t, b)')
        /\ Cardinality(Armed(t, b)') \in Nat
        /\ Cardinality(Armed(t, b)') <= Cardinality(Sender)
    <3>1. Armed(t, b)' \subseteq Sender
      BY DEF Armed
    <3>2. QED BY <3>1, SenderAssumption, FS_Subset, FS_CardinalityType
  <2>3. CASE ~InForce(t, b)
    BY <1>4, <2>2, <2>3
  <2>4. CASE InForce(t, b) /\ NewMessages(t) = 0
    <3>1. Cardinality(Armed(t, b)') <= Cardinality(Armed(t, b))
      BY <1>1, <2>1, <2>4, ArmedShrinks, FS_Subset
    <3>2. late[t][b] + Cardinality(Armed(t, b)) <= Cardinality(Sender)
      BY <2>4 DEF SendsRunOut
    <3>3. late'[t][b] = late[t][b] /\ late[t][b] \in Nat
      BY <1>3, <1>4, <2>4
    <3>4. QED BY <2>1, <2>2, <3>1, <3>2, <3>3
  <2>5. CASE InForce(t, b) /\ NewMessages(t) # 0
    <3>1. PICK s \in Sender : InsertMessage(s) /\ sd[s].tgt = t /\ NewMessages(t) = 1
      BY <1>1, <2>5, NewMessage
    <3>2. s \in Armed(t, b)
      BY <3>1 DEF InsertMessage, SendAt, Armed
    <3>3. s \notin Armed(t, b)'
      <4>1. sd'[s].pc = "move"
        BY <3>1 DEF InsertMessage, SendGoto, TypeOK, SendingTypeOK, SenderLocal
      <4>2. "move" \notin Behind(b)
        BY DEF Behind, Block
      <4>3. QED BY <4>1, <4>2 DEF Armed
    <3>4. Armed(t, b)' \subseteq Armed(t, b) \ {s}
      BY <1>1, <2>5, <3>3, ArmedShrinks
    <3>5. /\ Cardinality(Armed(t, b) \ {s}) = Cardinality(Armed(t, b)) - 1
          /\ IsFiniteSet(Armed(t, b) \ {s})
      BY <2>1, <3>2, FS_RemoveElement
    <3>6. Cardinality(Armed(t, b)') <= Cardinality(Armed(t, b) \ {s})
      BY <3>4, <3>5, FS_Subset
    <3>7. late[t][b] + Cardinality(Armed(t, b)) <= Cardinality(Sender)
      BY <2>5 DEF SendsRunOut
    <3>8. late'[t][b] = late[t][b] + 1 /\ late[t][b] \in Nat
      BY <1>3, <1>4, <2>5, <3>1
    <3>9. QED BY <2>1, <2>2, <3>5, <3>6, <3>7, <3>8
  <2>6. QED BY <2>3, <2>4, <2>5
<1>7. ASSUME NEW t \in Target, NEW b \in Block
      PROVE  late'[t][b] <= Cardinality(Sender)
  <2>1. Armed(t, b)' \subseteq Sender
    BY DEF Armed
  <2>2. Cardinality(Armed(t, b)') \in Nat /\ Cardinality(Sender) \in Nat
    BY <2>1, SenderAssumption, FS_Subset, FS_CardinalityType
  <2>3. QED BY <1>5, <1>6, <2>2
<1>8. \A t \in Target, b \in Block :
          IF InForce(t, b)'
          THEN late'[t][b] + Cardinality(Armed(t, b)') <= Cardinality(Sender)
          ELSE late'[t][b] <= Cardinality(Sender)
  BY <1>6, <1>7, Zenon
<1>9. QED BY <1>5, <1>8, Zenon DEF SendsRunOut

\* Nothing of it depends on more than the state of the send path.
LEMMA SendsRunOutStutter ==
  ASSUME SendsRunOut, UNCHANGED <<vars, late, cut>>
  PROVE  SendsRunOut'
BY DEF vars, dbVars, SendsRunOut, InForce, Engaged, Armed

LEMMA SendsRunOutInit == MonitorInit => SendsRunOut
<1> SUFFICES ASSUME MonitorInit PROVE SendsRunOut
  OBVIOUS
<1>1. /\ late = [t \in Target |-> [b \in Block |-> 0]]
      /\ \A s \in Sender : sd[s].pc = "idle"
  BY DEF MonitorInit, Init, SendingInit, IdleSender
<1>2. ASSUME NEW t \in Target, NEW b \in Block PROVE Armed(t, b) = {}
  BY <1>1 DEF Armed, Behind, Block
<1>3. Cardinality({}) = 0 /\ Cardinality(Sender) \in Nat
  BY SenderAssumption, FS_EmptySet, FS_CardinalityType
<1>4. ASSUME NEW t \in Target, NEW b \in Block
      PROVE  /\ late[t][b] + Cardinality(Armed(t, b)) <= Cardinality(Sender)
             /\ late[t][b] <= Cardinality(Sender)
  <2>1. late[t][b] = 0
    BY <1>1
  <2>2. Cardinality(Armed(t, b)) = 0
    BY <1>2, <1>3
  <2>3. QED BY <1>3, <2>1, <2>2
<1>5. late \in [Target -> [Block -> Nat]]
  BY <1>1
<1>6. QED BY <1>4, <1>5, Zenon DEF SendsRunOut

\* A block stops the sends: once the switch is engaged or the address or the
\* domain is listed, evaluate_send_gate() lets at most one message more per
\* process through, whatever the processes were in the middle of.
THEOREM BlocksStop == MonitorSpec => []BlocksStopSends
<1>1. SendsRunOut => BlocksStopSends
  <2> SUFFICES ASSUME SendsRunOut, NEW t \in Target, NEW b \in Block
               PROVE  late[t][b] <= Cardinality(Sender)
    BY DEF BlocksStopSends
  <2>1. late[t][b] \in Nat
    BY DEF SendsRunOut
  <2>2. QED BY <2>1, ArmedIsFinite DEF SendsRunOut
<1>2. TypeOK /\ SendsRunOut /\ [MonitorNext]_<<vars, late, cut>> => SendsRunOut'
  BY SendsRunOutStep, SendsRunOutStutter
<1>3. MonitorSpec => []TypeOK
  BY MonitorImplementsSpec, TypeCorrect, PTL
<1>4. QED BY <1>1, <1>2, <1>3, SendsRunOutInit, PTL DEF MonitorSpec

-----------------------------------------------------------------------------
\* A send that is cut off is counted.
LEMMA CutIsCounted ==
  ASSUME NEW t \in Target
  PROVE  /\ CutOff(t) \in Nat
         /\ \A s \in Sender : /\ sd[s].tgt = t /\ sd[s].pc = "move"
                               /\ sd'[s].pc \notin {"move", "audit"} => CutOff(t) >= 1
<1> DEFINE Off == {s \in Sender : /\ sd[s].tgt = t /\ sd[s].pc = "move"
                                  /\ sd'[s].pc \notin {"move", "audit"}}
<1>1. IsFiniteSet(Off) /\ Cardinality(Off) \in Nat
  BY SenderAssumption, FS_Subset, FS_CardinalityType
<1>2. ASSUME NEW s \in Off PROVE Cardinality(Off) >= 1
  <2>1. Cardinality(Off) # 0
    BY <1>1, FS_EmptySet
  <2>2. QED BY <1>1, <2>1
<1>3. QED BY <1>1, <1>2 DEF CutOff

\* A target that has its message stays settled unless the send is cut off.
LEMMA SettledStays ==
  ASSUME Inv, SoloInv, [Next]_vars, NEW t \in Target, Settled(t)
  PROVE  Settled(t)' \/ CutOff(t) >= 1
<1>1. /\ TypeOK /\ StillUnderReview /\ StateIsKnown
      /\ tstate \in [Target -> State] /\ sd \in [Sender -> SenderLocal]
  BY DEF Inv, TypeOK, DBTypeOK, SendingTypeOK, SoloInv, SerialInv
<1>2. CASE tstate[t] \in {"dry_run_sent", "failed"}
  <2>1. CASE tstate'[t] = tstate[t]
    BY <1>2, <2>1 DEF Settled
  <2>2. CASE tstate'[t] # tstate[t]
    <3>1. \/ \E r \in Reviewer : MoveDecided(r)
          \/ \E s \in Sender : MoveSent(s) \/ MoveFailed(s)
      BY <2>2, StateChanges
    <3>2. CASE \E r \in Reviewer : MoveDecided(r)
      <4>1. PICK r \in Reviewer : MoveDecided(r)
        BY <3>2
      <4>2. rv[r].tgt = t
        BY <1>1, <2>2, <4>1 DEF MoveDecided, UpdateState
      <4>3. tstate[t] = "awaiting_review"
        BY <1>1, <4>1, <4>2 DEF MoveDecided, At, StillUnderReview, Pending
      <4>4. QED BY <1>2, <4>3
    <3>3. CASE \E s \in Sender : MoveSent(s) \/ MoveFailed(s)
      BY <1>1, <2>2, <3>3 DEF MoveSent, MoveFailed, UpdateState, Settled
    <3>4. QED BY <3>1, <3>2, <3>3
  <2>3. QED BY <2>1, <2>2
<1>3. CASE \E s \in Sender : SendAt(s, "move") /\ sd[s].tgt = t
  <2>1. PICK s \in Sender : SendAt(s, "move") /\ sd[s].tgt = t
    BY <1>3
  <2>2. CASE sd'[s] = sd[s]
    BY <2>1, <2>2 DEF Settled, SendAt
  <2>3. CASE MoveSent(s)
    BY <1>1, <2>1, <2>3 DEF MoveSent, UpdateState, Settled
  <2>4. CASE sd'[s] # sd[s] /\ ~MoveSent(s)
    <3>1. SendStep(s)
      BY <1>1, <2>4, SenderActs
    <3>2. RaiseInSend(s) \/ CutSend(s)
      BY <2>1, <2>4, <3>1 DEF SendStep, SendAt, Select, ReadTarget, EndBatch, GateSwitch,
         GateEmail, GateDomain, GateReview, GateRevision, GateNewest, RecordGate,
         RereadReview, WriteArtifact, InsertMessage, AuditSent, LogSend, ReadDied,
         MoveFailed, AuditFailed, RaiseInBookkeeping
    <3>3. sd'[s].pc \in {"died", "idle"}
      BY <1>1, <3>2 DEF RaiseInSend, CutSend, SendGoto, IdleSender, SenderLocal
    <3>4. QED BY <2>1, <3>3, CutIsCounted DEF SendAt
  <2>5. QED BY <2>2, <2>3, <2>4
<1>4. QED BY <1>2, <1>3 DEF Settled

LEMMA CutsAreCountedStep ==
  ASSUME Inv, SoloInv, CutsAreCounted, MonitorNext
  PROVE  CutsAreCounted'
<1>1. /\ [Next]_vars /\ TypeOK /\ StateIsKnown /\ OneSender
      /\ cut \in [Target -> Nat] /\ IsFiniteSet(messages)
      /\ sd \in [Sender -> SenderLocal]
  BY DEF MonitorNext, Inv, SoloInv, CutsAreCounted, TypeOK, SendingTypeOK
<1>2. /\ cut' \in [Target -> Nat]
      /\ \A t \in Target : cut'[t] = cut[t] + CutOff(t) /\ cut[t] \in Nat /\ CutOff(t) \in Nat
  BY <1>1, CutIsCounted DEF MonitorNext, Watch
<1>3. IsFiniteSet(messages')
  <2>1. CASE messages' = messages
    BY <1>1, <2>1
  <2>2. CASE messages' # messages
    BY <1>1, <2>2, MessagesGrow, FS_AddElement DEF InsertMessage
  <2>3. QED BY <2>1, <2>2
<1>4. ASSUME NEW t \in Target
      PROVE  Cardinality(SentTo(t)') <= cut'[t] + (IF Settled(t)' THEN 1 ELSE 0)
  <2>1. /\ IsFiniteSet(SentTo(t)) /\ Cardinality(SentTo(t)) \in Nat
        /\ IsFiniteSet(SentTo(t)') /\ Cardinality(SentTo(t)') \in Nat
        /\ Cardinality(SentTo(t)) <= cut[t] + (IF Settled(t) THEN 1 ELSE 0)
    <3>1. SentTo(t) \subseteq messages /\ SentTo(t)' \subseteq messages'
      BY DEF SentTo
    <3>2. QED BY <1>1, <1>3, <3>1, FS_Subset, FS_CardinalityType DEF CutsAreCounted
  <2>2. CASE SentTo(t)' = SentTo(t)
    <3>1. Settled(t) => Settled(t)' \/ CutOff(t) >= 1
      BY <1>1, SettledStays
    <3>2. QED BY <1>2, <2>1, <2>2, <3>1
  <2>3. CASE SentTo(t)' # SentTo(t)
    <3>1. PICK s \in Sender :
              /\ InsertMessage(s) /\ sd[s].tgt = t /\ Artifact(s) \notin messages
              /\ SentTo(t)' = SentTo(t) \cup {Artifact(s)}
      BY <1>1, <2>3, NewMessage
    <3>2. Cardinality(SentTo(t)') = Cardinality(SentTo(t)) + 1
      <4>1. Artifact(s) \notin SentTo(t)
        BY <3>1 DEF SentTo
      <4>2. QED BY <2>1, <3>1, <4>1, FS_AddElement
    <3>3. ~Settled(t)
      <4>1. tstate[t] = "approved"
        BY <1>1, <3>1 DEF InsertMessage, SendAt, StateIsKnown
      <4>2. \A q \in Sender : ~(SendAt(q, "move") /\ sd[q].tgt = t)
        BY <1>1, <3>1 DEF InsertMessage, SendAt, OneSender
      <4>3. QED BY <4>1, <4>2 DEF Settled
    <3>4. Settled(t)'
      <4>1. sd'[s].pc = "move" /\ sd'[s].tgt = t
        BY <1>1, <3>1 DEF InsertMessage, SendGoto, SenderLocal
      <4>2. QED BY <4>1 DEF Settled, SendAt
    <3>5. QED BY <1>2, <2>1, <3>2, <3>3, <3>4
  <2>4. QED BY <2>2, <2>3
<1>5. QED BY <1>2, <1>3, <1>4 DEF CutsAreCounted

LEMMA CutsAreCountedStutter ==
  ASSUME CutsAreCounted, UNCHANGED <<vars, late, cut>>
  PROVE  CutsAreCounted'
BY DEF vars, dbVars, CutsAreCounted, Settled, SendAt, SentTo

LEMMA CutsAreCountedInit == MonitorInit => CutsAreCounted
<1> SUFFICES ASSUME MonitorInit PROVE CutsAreCounted
  OBVIOUS
<1>1. messages = {} /\ cut = [t \in Target |-> 0]
  BY DEF MonitorInit, Init, DBInit
<1>2. \A t \in Target : SentTo(t) = {}
  BY <1>1 DEF SentTo
<1>3. QED BY <1>1, <1>2, FS_EmptySet DEF CutsAreCounted

\* With one decision and one batch at a time, every message of a target after
\* its first is owed to a send cut off between its message row and its
\* transition.
THEOREM DuplicatesAreCuts ==
  ASSUME SerialReviews, SerialSends
  PROVE  MonitorSpec => []DuplicatesNeedACut
<1>1. CutsAreCounted => DuplicatesNeedACut
  <2> SUFFICES ASSUME CutsAreCounted, NEW t \in Target
               PROVE  Cardinality({m \in messages : m.target = t}) <= 1 + cut[t]
    BY DEF DuplicatesNeedACut
  <2>1. IsFiniteSet(SentTo(t)) /\ Cardinality(SentTo(t)) \in Nat /\ cut[t] \in Nat
    BY FS_Subset, FS_CardinalityType DEF CutsAreCounted, SentTo
  <2>2. Cardinality(SentTo(t)) <= cut[t] + (IF Settled(t) THEN 1 ELSE 0)
    BY DEF CutsAreCounted
  <2>3. QED BY <2>1, <2>2 DEF SentTo
<1>2. Inv /\ SoloInv /\ CutsAreCounted /\ [MonitorNext]_<<vars, late, cut>> => CutsAreCounted'
  BY CutsAreCountedStep, CutsAreCountedStutter
<1>3. MonitorSpec => []Inv
  BY MonitorImplementsSpec, Invariance, PTL
<1>4. MonitorSpec => []SoloInv
  BY MonitorImplementsSpec, SoloInvariance, PTL
<1>5. QED BY <1>1, <1>2, <1>3, <1>4, CutsAreCountedInit, PTL DEF MonitorSpec
=============================================================================
