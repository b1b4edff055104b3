------------------------ MODULE SendPathSerialProofs ------------------------
(***************************************************************************)
(* What the send path guarantees when decisions are submitted one at a     *)
(* time: the two claims of the code that fail without that assumption.     *)
(***************************************************************************)
EXTENDS SendPathProofs

\* Serial submission: a second decision starts only when none is running.
LEMMA OneReviewerStep ==
  ASSUME SerialReviews, Inv, OneReviewer, [Next]_vars
  PROVE  OneReviewer'
<1> USE DEF At
<1>1. ASSUME NEW r \in Reviewer, rv'[r] # rv[r], rv[r].pc = "idle"
      PROVE  \A q \in Reviewer : rv[q].pc = "idle"
  <2>1. ReviewStep(r)
    BY <1>1, ReviewerActs DEF Inv
  <2>2. \E t \in Target, d \in Decision : Submit(r, t, d)
    BY <1>1, <2>1 DEF ReviewStep, CheckState, CheckSwitch, ReadLatest, InsertEdit, RunDraftGate,
       CheckListed, InsertSuppression, InsertReview, MoveDecided, AuditDecided, CutReview
  <2>3. QED BY <2>2 DEF Submit
<1>2. ASSUME NEW r \in Reviewer, NEW q \in Reviewer, r # q, rv'[r] # rv[r]
      PROVE  rv'[q] = rv[q]
  BY <1>2, ReviewerActs, OtherReviewers DEF Inv
<1>3. ASSUME NEW r \in Reviewer, NEW q \in Reviewer, r # q
      PROVE  rv'[r].pc = "idle" \/ rv'[q].pc = "idle"
  BY <1>1, <1>2, <1>3 DEF OneReviewer
<1>4. QED BY <1>3 DEF OneReviewer

\* Nothing brings a target back to review, and only a decision takes one out
\* of it while no batch works on it.
LEMMA ReviewIsLeftOnce ==
  ASSUME Inv, LeftReview, [Next]_vars, NEW t \in Target, tstate'[t] # tstate[t]
  PROVE  /\ tstate'[t] # "awaiting_review"
         /\ tstate[t] = "awaiting_review" =>
                \E r \in Reviewer : MoveDecided(r) /\ rv[r].tgt = t
<1> USE DEF Inv, TypeOK, DBTypeOK
<1>1. CASE \E r \in Reviewer : MoveDecided(r)
  <2>1. PICK r \in Reviewer : MoveDecided(r)
    BY <1>1
  <2>2. DecisionTransition(rv[r].dec) # "awaiting_review"
    BY DEF DecisionTransition, ReviewTypeOK, ReviewerLocal, Decision, APPROVAL_DECISIONS
  <2>3. QED BY <2>1, <2>2 DEF MoveDecided, UpdateState
<1>2. CASE \E s \in Sender : MoveSent(s) \/ MoveFailed(s)
  <2>1. PICK s \in Sender : MoveSent(s) \/ MoveFailed(s)
    BY <1>2
  <2>2. sd[s].tgt = t /\ tstate'[t] # "awaiting_review"
    BY <2>1 DEF MoveSent, MoveFailed, UpdateState
  <2>3. tstate[t] # "awaiting_review"
    BY <2>1, <2>2 DEF MoveSent, MoveFailed, SendAt, LeftReview
  <2>4. QED BY <2>2, <2>3
<1>3. QED BY <1>1, <1>2, StateChanges

\* A step of a batch takes the next target, ends the work on one, or stays
\* with its target and its batch.
LEMMA SenderStays ==
  ASSUME TypeOK, NEW s \in Sender, SendStep(s)
  PROVE  \/ Select(s) \/ ReadTarget(s) \/ ReadDied(s) \/ NextTarget(s)
         \/ sd'[s] = IdleSender
         \/ /\ sd'[s].queue = sd[s].queue /\ sd'[s].tgt = sd[s].tgt
            /\ sd[s].pc \notin {"idle", "next"}
            /\ sd'[s].pc \in {"failmove", "failaudit"} =>
                   sd[s].pc = "failmove" /\ sd'[s].st = sd[s].st
<1>1. /\ sd \in [Sender -> SenderLocal]
      /\ DOMAIN sd[s] = {"pc", "queue", "tgt", "st", "clean", "ref", "text", "step"}
  BY DEF TypeOK, SendingTypeOK, SenderLocal
<1> USE <1>1 DEF SendAt
<1>2. CASE EndBatch(s) \/ CutSend(s)
  BY <1>2 DEF EndBatch, CutSend
<1>3. CASE GateSwitch(s) \/ GateEmail(s) \/ GateDomain(s) \/ GateRevision(s) \/ GateNewest(s)
  BY <1>3 DEF GateSwitch, GateEmail, GateDomain, GateRevision, GateNewest, Check
<1>4. CASE GateReview(s)
  <2>1. CASE sd' = [sd EXCEPT ![s].pc = "revision", ![s].ref = LatestReview(sd[s].tgt).revision]
    BY <1>4, <2>1 DEF GateReview
  <2>2. CASE sd' = [sd EXCEPT ![s].pc = "record", ![s].clean = FALSE]
    BY <1>4, <2>2 DEF GateReview
  <2>3. QED BY <1>4, <2>1, <2>2 DEF GateReview
<1>5. CASE RecordGate(s)
  <2>1. CASE sd' = [sd EXCEPT ![s].pc = "reread", ![s].step = Len(gateLog) + 1]
    BY <1>5, <2>1 DEF RecordGate
  <2>2. CASE SendGoto(s, "log")
    BY <1>5, <2>2 DEF RecordGate, SendGoto
  <2>3. QED BY <1>5, <2>1, <2>2 DEF RecordGate
<1>6. CASE RereadReview(s) \/ WriteArtifact(s) \/ InsertMessage(s)
  BY <1>6 DEF RereadReview, WriteArtifact, InsertMessage, SendGoto
<1>7. CASE MoveSent(s) \/ AuditSent(s) \/ RaiseInSend(s) \/ MoveFailed(s)
  BY <1>7 DEF MoveSent, AuditSent, RaiseInSend, InSend, MoveFailed, SendGoto
<1>8. CASE LogSend(s) \/ AuditFailed(s) \/ RaiseInBookkeeping(s)
  BY <1>8 DEF LogSend, AuditFailed, RaiseInBookkeeping
<1>9. QED BY <1>2, <1>3, <1>4, <1>5, <1>6, <1>7, <1>8 DEF SendStep

\* No step puts a target back under review, so what a batch works on stays
\* out of it.
LEMMA LeftReviewStep ==
  ASSUME Inv, LeftReview, [Next]_vars
  PROVE  LeftReview'
<1> USE DEF Inv, TypeOK, SendingTypeOK
<1>1. ASSUME NEW t \in Target, tstate[t] # "awaiting_review"
      PROVE  tstate'[t] # "awaiting_review"
  BY <1>1, ReviewIsLeftOnce
<1> SUFFICES ASSUME NEW s \in Sender
             PROVE  /\ \A t \in sd'[s].queue : tstate'[t] # "awaiting_review"
                    /\ sd'[s].pc \notin {"idle", "next"} => tstate'[sd'[s].tgt] # "awaiting_review"
                    /\ sd'[s].pc \in {"failmove", "failaudit"} => sd'[s].st # "awaiting_review"
  BY DEF LeftReview
<1>2. /\ sd[s].tgt \in Target /\ sd[s].queue \subseteq Target
      /\ DOMAIN sd[s] = {"pc", "queue", "tgt", "st", "clean", "ref", "text", "step"}
  BY DEF SenderLocal
<1>3. CASE sd'[s] = sd[s]
  BY <1>1, <1>2, <1>3 DEF LeftReview
<1>4. CASE sd'[s] # sd[s]
  <2>1. SendStep(s)
    BY <1>4, SenderActs
  <2>2. CASE Select(s)
    BY <2>2, <1>1, <1>2 DEF Select, Approved, dbVars
  <2>3. CASE ReadTarget(s)
    <3>1. PICK u \in sd[s].queue :
             /\ sd'[s].queue = sd[s].queue \ {u} /\ sd'[s].tgt = u
             /\ sd'[s].pc \in {"log", "switch"}
      BY <2>3, <1>2 DEF ReadTarget
    <3>2. QED BY <3>1, <1>1, <1>2 DEF LeftReview
  <2>4. CASE sd'[s] = IdleSender
    BY <2>4 DEF IdleSender
  <2>5. CASE NextTarget(s)
    BY <2>5, <1>1, <1>2 DEF NextTarget, IdleSender, LeftReview
  <2>6. CASE ReadDied(s)
    BY <2>6, <1>1, <1>2 DEF ReadDied, SendAt, LeftReview
  <2>7. CASE /\ sd'[s].queue = sd[s].queue /\ sd'[s].tgt = sd[s].tgt
             /\ sd[s].pc \notin {"idle", "next"}
             /\ sd'[s].pc \in {"failmove", "failaudit"} =>
                    sd[s].pc = "failmove" /\ sd'[s].st = sd[s].st
    BY <2>7, <1>1, <1>2 DEF LeftReview
  <2>8. QED BY <2>1, <2>2, <2>3, <2>4, <2>5, <2>6, <2>7, SenderStays
<1>5. QED BY <1>3, <1>4

-----------------------------------------------------------------------------
Checked == (Pending \ {"audit"}) \cup {"switch", "latest"}

\* How a decision comes to each point of the function.
LEMMA ReviewerPath ==
  ASSUME TypeOK, NEW r \in Reviewer, ReviewStep(r)
  PROVE  /\ rv'[r].pc \in Checked =>
                /\ tstate' = tstate /\ rv'[r].tgt = rv[r].tgt
                /\ \/ rv[r].pc = "state" /\ tstate[rv[r].tgt] = "awaiting_review"
                   \/ rv[r].pc \in Checked
         /\ rv'[r].pc = "audit" => MoveDecided(r) /\ rv'[r].tgt = rv[r].tgt
<1>1. /\ rv \in [Reviewer -> ReviewerLocal]
      /\ DOMAIN rv[r] = {"pc", "tgt", "dec", "ref"}
  BY DEF TypeOK, ReviewTypeOK, ReviewerLocal
<1>2. ASSUME Return(r) PROVE rv'[r].pc = "idle"
  BY <1>1, <1>2 DEF Return, IdleReviewer
<1> USE <1>1 DEF At, Checked, Pending
<1>3. ASSUME NEW t \in Target, NEW d \in Decision, Submit(r, t, d) PROVE rv'[r].pc = "state"
  BY <1>3 DEF Submit
<1>4. CASE CheckState(r)
  BY <1>2, <1>4 DEF CheckState, Goto, Refuse, dbVars
<1>5. CASE CheckSwitch(r)
  BY <1>2, <1>5 DEF CheckSwitch, Goto, Refuse, dbVars
<1>6. CASE ReadLatest(r)
  BY <1>2, <1>6 DEF ReadLatest, Refuse, dbVars
<1>7. CASE InsertEdit(r) \/ RunDraftGate(r) \/ InsertReview(r)
  BY <1>7 DEF InsertEdit, RunDraftGate, InsertReview, Goto
<1>8. CASE CheckListed(r) \/ InsertSuppression(r)
  BY <1>8 DEF CheckListed, InsertSuppression, Goto, dbVars
<1>9. CASE MoveDecided(r)
  BY <1>9 DEF MoveDecided, Goto
<1>10. CASE AuditDecided(r) \/ CutReview(r)
  BY <1>2, <1>10 DEF AuditDecided, CutReview, Refuse
<1>11. QED BY <1>3, <1>4, <1>5, <1>6, <1>7, <1>8, <1>9, <1>10 DEF ReviewStep

\* The target of a decision that has passed its state check is still under
\* review until the decision moves it.
LEMMA StillUnderReviewStep ==
  ASSUME Inv, OneReviewer, LeftReview, StillUnderReview, [Next]_vars
  PROVE  StillUnderReview'
<1> SUFFICES ASSUME NEW r \in Reviewer
             PROVE  /\ rv'[r].pc \in Checked => tstate'[rv'[r].tgt] = "awaiting_review"
                    /\ rv'[r].pc = "audit" => tstate'[rv'[r].tgt] # "awaiting_review"
  BY DEF StillUnderReview, Checked, At
<1>1. rv[r].tgt \in Target /\ TypeOK
  BY DEF Inv, TypeOK, ReviewTypeOK, ReviewerLocal
<1>2. CASE rv'[r] = rv[r]
  <2>1. CASE rv[r].pc = "audit"
    BY <1>1, <1>2, <2>1, ReviewIsLeftOnce DEF StillUnderReview, At, Checked, Pending
  <2>2. CASE rv[r].pc \in Checked
    <3>1. tstate[rv[r].tgt] = "awaiting_review"
      BY <2>2 DEF StillUnderReview, Checked
    <3>2. ASSUME tstate'[rv[r].tgt] # tstate[rv[r].tgt] PROVE FALSE
      <4>1. PICK q \in Reviewer : MoveDecided(q)
        BY <1>1, <3>1, <3>2, ReviewIsLeftOnce
      <4>2. q # r
        BY <1>1, <1>2, <4>1 DEF MoveDecided, At, Goto, TypeOK, ReviewTypeOK, ReviewerLocal
      <4>3. rv[q].pc = "move" /\ rv[r].pc # "idle"
        BY <2>2, <4>1 DEF MoveDecided, At, Checked, Pending
      <4>4. QED BY <4>2, <4>3 DEF OneReviewer, At
    <3>3. QED BY <1>2, <2>2, <3>1, <3>2 DEF Checked, Pending
  <2>3. QED BY <1>2, <2>1, <2>2
<1>3. CASE rv'[r] # rv[r]
  <2>1. ReviewStep(r)
    BY <1>1, <1>3, ReviewerActs
  <2>2. CASE rv'[r].pc \in Checked
    BY <1>1, <2>1, <2>2, ReviewerPath DEF StillUnderReview, Checked, Pending
  <2>3. CASE rv'[r].pc = "audit"
    <3>1. MoveDecided(r) /\ rv'[r].tgt = rv[r].tgt
      BY <1>1, <2>1, <2>3, ReviewerPath
    <3>2. tstate[rv[r].tgt] = "awaiting_review"
      BY <3>1 DEF MoveDecided, At, StillUnderReview, Pending
    <3>3. tstate'[rv[r].tgt] # tstate[rv[r].tgt]
      <4>1. DecisionTransition(rv[r].dec) # "awaiting_review"
        BY <1>1 DEF DecisionTransition, TypeOK, ReviewTypeOK, ReviewerLocal, Decision,
           APPROVAL_DECISIONS
      <4>2. QED BY <1>1, <3>1, <3>2, <4>1 DEF MoveDecided, UpdateState, TypeOK, DBTypeOK
    <3>4. QED BY <2>3, <3>1, <3>2, <3>3 DEF Checked, Pending
  <2>4. QED BY <2>2, <2>3
<1>4. QED BY <1>2, <1>3

-----------------------------------------------------------------------------
\* Gate rows are never changed, only appended.
LEMMA LogStays ==
  ASSUME TypeOK, [Next]_vars, NEW i \in DOMAIN gateLog
  PROVE  i \in DOMAIN gateLog' /\ gateLog'[i] = gateLog[i]
<1>1. gateLog \in Seq(GateRow)
  BY DEF TypeOK, DBTypeOK
<1>2. CASE gateLog' # gateLog
  <2>1. PICK row : gateLog' = Append(gateLog, row)
    BY <1>2, GateLogGrows DEF RecordGate
  <2>2. QED BY <1>1, <2>1
<1>3. QED BY <1>1, <1>2

\* No decision lands on a target a batch works on.
LEMMA ReviewsAreFrozen ==
  ASSUME Inv, StillUnderReview, LeftReview, [Next]_vars,
         NEW s \in Sender, sd[s].pc \notin {"idle", "next"}
  PROVE  reviews'[sd[s].tgt] = reviews[sd[s].tgt]
<1>1. sd[s].tgt \in Target /\ tstate[sd[s].tgt] # "awaiting_review" /\ TypeOK
  BY DEF Inv, TypeOK, SendingTypeOK, SenderLocal, LeftReview
<1>2. ASSUME NEW r \in Reviewer, InsertReview(r)
      PROVE  tstate[rv[r].tgt] = "awaiting_review"
  BY <1>2 DEF InsertReview, At, StillUnderReview, Pending
<1>3. QED BY <1>1, <1>2, ReviewsGrowOnlyByInsert

\* What the gate wrote under a step id stays.
LEMMA AllowanceStays ==
  ASSUME TypeOK, [Next]_vars, NEW s \in Sender, NEW v, GateAllowed(s, v)
  PROVE  /\ sd[s].step \in DOMAIN gateLog'
         /\ gateLog'[sd[s].step] = [target |-> sd[s].tgt, allowed |-> TRUE, verified |-> v]
  BY LogStays DEF GateAllowed

\* Between the gate and the message no decision row of the target appears:
\* the target is approved, and only one under review can be decided.
LEMMA TextIsFrozenStep ==
  ASSUME Inv, StillUnderReview, LeftReview, TextIsFrozen, [Next]_vars
  PROVE  TextIsFrozen'
<1> DEFINE Row(t, v) == [target |-> t, allowed |-> TRUE, verified |-> v]
           Newest(t) == reviews[t][Len(reviews[t])].revision
           Newest1(t) == reviews'[t][Len(reviews'[t])].revision
<1> SUFFICES ASSUME NEW s \in Sender
             PROVE  /\ \/ sd'[s].pc \in {"revision", "newest"}
                       \/ sd'[s].pc = "record" /\ sd'[s].clean
                       => reviews'[sd'[s].tgt] # <<>> /\ Newest1(sd'[s].tgt) = sd'[s].ref
                    /\ sd'[s].pc = "reread" =>
                          /\ sd'[s].step \in DOMAIN gateLog'
                          /\ gateLog'[sd'[s].step] = Row(sd'[s].tgt, Newest1(sd'[s].tgt))
                    /\ sd'[s].pc \in {"file", "message"} =>
                          /\ sd'[s].step \in DOMAIN gateLog'
                          /\ gateLog'[sd'[s].step] = Row(sd'[s].tgt, sd'[s].text)
  BY DEF TextIsFrozen, GateAllowed, SendAt, LatestReview
<1> DEFINE t == sd[s].tgt
<1>1. /\ sd \in [Sender -> SenderLocal] /\ t \in Target /\ TypeOK /\ gateLog \in Seq(GateRow)
      /\ DOMAIN sd[s] = {"pc", "queue", "tgt", "st", "clean", "ref", "text", "step"}
      /\ sd[s].clean \in BOOLEAN
  BY DEF Inv, TypeOK, DBTypeOK, SendingTypeOK, SenderLocal
<1>2. sd[s].pc \notin {"idle", "next"} => Newest1(t) = Newest(t) /\ reviews'[t] = reviews[t]
  BY ReviewsAreFrozen
<1>3. CASE sd'[s] = sd[s]
  <2>1. CASE \/ sd[s].pc \in {"revision", "newest"}
             \/ sd[s].pc = "record" /\ sd[s].clean
    BY <1>2, <1>3, <2>1 DEF TextIsFrozen, LatestReview
  <2>2. CASE sd[s].pc = "reread"
    BY <1>1, <1>2, <1>3, <2>2, AllowanceStays DEF TextIsFrozen, SendAt, LatestReview
  <2>3. CASE sd[s].pc \in {"file", "message"}
    BY <1>1, <1>3, <2>3, AllowanceStays DEF TextIsFrozen
  <2>4. QED BY <1>3, <2>1, <2>2, <2>3
<1>4. CASE sd'[s] # sd[s]
  <2>1. SendStep(s) /\ rv' = rv
    BY <1>1, <1>4, SenderActs
  <2>2. CASE sd'[s].pc = "revision"
    <3>1. GateReview(s) /\ sd'[s].tgt = t
      BY <1>1, <2>1, <2>2, SenderMoves
    <3>2. reviews[t] # <<>> /\ sd'[s].ref = Newest(t) /\ sd[s].pc = "review"
      BY <1>1, <2>2, <3>1 DEF GateReview, LatestReview, SendAt
    <3>3. QED BY <1>2, <2>2, <3>1, <3>2
  <2>3. CASE sd'[s].pc = "newest"
    <3>1. GateRevision(s) /\ sd'[s].tgt = t
      BY <1>1, <2>1, <2>3, SenderMoves
    <3>2. sd'[s].ref = sd[s].ref /\ sd[s].pc = "revision"
      BY <1>1, <3>1 DEF GateRevision, Check, SendAt
    <3>3. QED BY <1>2, <2>3, <3>1, <3>2 DEF TextIsFrozen, LatestReview
  <2>4. CASE sd'[s].pc = "record" /\ sd'[s].clean
    <3>1. GateNewest(s) /\ sd'[s].tgt = t
      BY <1>1, <2>1, <2>4, SenderMoves
    <3>2. sd'[s].ref = sd[s].ref /\ sd[s].pc = "newest"
      BY <1>1, <3>1 DEF GateNewest, Check, SendAt
    <3>3. QED BY <1>2, <2>4, <3>1, <3>2 DEF TextIsFrozen, LatestReview
  <2>5. CASE sd'[s].pc = "reread"
    <3>1. RecordGate(s) /\ sd[s].clean /\ sd'[s].tgt = t /\ sd[s].pc = "record"
      BY <1>1, <2>1, <2>5, SenderMoves DEF RecordGate, SendAt
    <3>2. /\ gateLog' = Append(gateLog, [target |-> t, allowed |-> sd[s].clean,
                                         verified |-> sd[s].ref])
          /\ sd'[s].step = Len(gateLog) + 1
      BY <1>1, <3>1 DEF RecordGate
    <3>3. sd'[s].step \in DOMAIN gateLog' /\ gateLog'[sd'[s].step] = Row(t, sd[s].ref)
      BY <1>1, <3>1, <3>2
    <3>4. Newest(t) = sd[s].ref
      BY <3>1 DEF TextIsFrozen, LatestReview
    <3>5. QED BY <1>2, <2>5, <3>1, <3>3, <3>4
  <2>6. CASE sd'[s].pc = "file"
    <3>1. RereadReview(s) /\ sd'[s].tgt = t
      BY <1>1, <2>1, <2>6, SenderMoves
    <3>2. sd'[s].text = Newest(t) /\ sd'[s].step = sd[s].step /\ sd[s].pc = "reread"
      BY <1>1, <3>1 DEF RereadReview, SendAt, LatestReview
    <3>3. GateAllowed(s, Newest(t))
      BY <3>2 DEF TextIsFrozen, SendAt, LatestReview
    <3>4. QED BY <1>1, <2>6, <3>1, <3>2, <3>3, AllowanceStays
  <2>7. CASE sd'[s].pc = "message"
    <3>1. WriteArtifact(s) /\ sd'[s].tgt = t
      BY <1>1, <2>1, <2>7, SenderMoves
    <3>2. sd'[s].text = sd[s].text /\ sd'[s].step = sd[s].step /\ sd[s].pc = "file"
      BY <1>1, <3>1 DEF WriteArtifact, SendGoto, SendAt
    <3>3. GateAllowed(s, sd[s].text)
      BY <3>2 DEF TextIsFrozen
    <3>4. QED BY <1>1, <2>7, <3>1, <3>2, <3>3, AllowanceStays
  <2>8. QED BY <2>2, <2>3, <2>4, <2>5, <2>6, <2>7
<1>5. QED BY <1>3, <1>4

\* A message row carries the revision its gate row verified.
LEMMA SentTextWasVerifiedStep ==
  ASSUME Inv, TextIsFrozen, SentTextWasVerified, [Next]_vars
  PROVE  SentTextWasVerified'
<1> SUFFICES ASSUME NEW m \in messages'
             PROVE  /\ m.step \in DOMAIN gateLog' /\ gateLog'[m.step].allowed
                    /\ gateLog'[m.step].target = m.target
                    /\ gateLog'[m.step].verified = m.revision
  BY DEF SentTextWasVerified
<1>1. TypeOK
  BY DEF Inv
<1>2. CASE m \in messages
  BY <1>1, <1>2, LogStays DEF SentTextWasVerified
<1>3. CASE m \notin messages
  <2>1. PICK s \in Sender : InsertMessage(s)
    BY <1>3, MessagesGrow
  <2>2. m = Artifact(s)
    BY <1>3, <2>1 DEF InsertMessage
  <2>3. GateAllowed(s, sd[s].text)
    BY <2>1 DEF InsertMessage, SendAt, TextIsFrozen
  <2>4. m.step = sd[s].step /\ m.target = sd[s].tgt /\ m.revision = sd[s].text
    BY <2>2 DEF Artifact
  <2>5. /\ sd[s].step \in DOMAIN gateLog'
        /\ gateLog'[sd[s].step] = [target |-> sd[s].tgt, allowed |-> TRUE,
                                   verified |-> sd[s].text]
    BY <1>1, <2>3, AllowanceStays
  <2>6. QED BY <2>4, <2>5
<1>4. QED BY <1>2, <1>3

-----------------------------------------------------------------------------
\* Audit rows come from a decision, a send and the crash handler.
LEMMA AuditRowsGrow ==
  ASSUME [Next]_vars, transitions' # transitions
  PROVE  \/ \E r \in Reviewer : AuditDecided(r)
         \/ \E s \in Sender : (AuditSent(s) \/ AuditFailed(s)) /\ UNCHANGED rv
  BY DEF Next, ReviewNext, ReviewStep, Submit, CheckState, CheckSwitch, ReadLatest,
     InsertEdit, RunDraftGate, CheckListed, InsertSuppression, InsertReview,
     MoveDecided, CutReview, Refuse, SendingNext, SendStep, Select, ReadTarget,
     EndBatch, GateSwitch, GateEmail, GateDomain, Check, GateReview, GateRevision,
     GateNewest, RecordGate, RereadReview, WriteArtifact, InsertMessage, MoveSent,
     LogSend, RaiseInSend, ReadDied, MoveFailed, RaiseInBookkeeping, CutSend,
     OperatorNext, ToggleSwitch, SpoilSwitch, EditEmailSuppressions,
     EditDomainSuppressions, vars, dbVars

\* A target that has left review has at most one row out of it.
LEMMA DecisionRowsStep ==
  ASSUME Inv, OneReviewer, StillUnderReview, LeftReview, DecisionRows, DecidedOnce, [Next]_vars
  PROVE  DecisionRows' /\ DecidedOnce'
<1>1. /\ TypeOK /\ transitions \in [Target -> Seq(TransitionRow)]
      /\ \A t \in Target : transitions[t] \in Seq(TransitionRow)
  BY DEF Inv, TypeOK, DBTypeOK
<1>2. CASE transitions' = transitions
  <2>1. ASSUME NEW t \in Target, FromReview(t) # {} PROVE tstate'[t] # "awaiting_review"
    BY <2>1, ReviewIsLeftOnce DEF DecisionRows
  <2>2. ASSUME NEW r \in Reviewer, rv'[r].pc = "audit" PROVE FromReview(rv'[r].tgt) = {}
    <3>1. CASE rv'[r] = rv[r]
      BY <2>2, <3>1 DEF DecisionRows, At
    <3>2. CASE rv'[r] # rv[r]
      <4>1. MoveDecided(r) /\ rv'[r].tgt = rv[r].tgt
        BY <1>1, <2>2, <3>2, ReviewerActs, ReviewerPath
      <4>2. tstate[rv[r].tgt] = "awaiting_review" /\ rv[r].tgt \in Target
        BY <4>1, <1>1 DEF MoveDecided, At, StillUnderReview, Pending, TypeOK, ReviewTypeOK, ReviewerLocal
      <4>3. QED BY <4>1, <4>2 DEF DecisionRows
    <3>3. QED BY <3>1, <3>2
  <2>3. QED BY <1>2, <2>1, <2>2 DEF DecisionRows, DecidedOnce, FromReview, At
<1>3. ASSUME NEW r \in Reviewer, AuditDecided(r)
      PROVE  DecisionRows' /\ DecidedOnce'
  <2> DEFINE u == rv[r].tgt
  <2>1. /\ u \in Target /\ FromReview(u) = {} /\ tstate[u] # "awaiting_review"
        /\ tstate' = tstate /\ rv[r].pc = "audit"
    BY <1>1, <1>3 DEF AuditDecided, At, DecisionRows, StillUnderReview, TypeOK, ReviewTypeOK, ReviewerLocal
  <2>2. PICK row : /\ transitions' = [transitions EXCEPT ![u] = Append(@, row)]
    BY <1>3 DEF AuditDecided, InsertTransition
  <2>3. ASSUME NEW q \in Reviewer PROVE rv'[q].pc = "idle"
    BY <1>1, <1>3, <2>1, <2>3 DEF AuditDecided, Return, IdleReviewer, OneReviewer, At, TypeOK, ReviewTypeOK
  <2>4. ASSUME NEW t \in Target, t # u PROVE transitions'[t] = transitions[t]
    BY <1>1, <2>2, <2>4
  <2>5. ASSUME NEW i \in DOMAIN transitions'[u], transitions'[u][i].from = "awaiting_review"
        PROVE  i = Len(transitions[u]) + 1
    <3>1. transitions[u] \in Seq(TransitionRow) /\ transitions'[u] = Append(transitions[u], row)
      BY <1>1, <2>1, <2>2
    <3>2. QED BY <2>1, <2>5, <3>1 DEF FromReview
  <2>6. DecidedOnce'
    BY <2>1, <2>4, <2>5 DEF DecidedOnce
  <2>7. DecisionRows'
    BY <2>1, <2>3, <2>4 DEF DecisionRows, FromReview, At
  <2>8. QED BY <2>6, <2>7
<1>4. ASSUME NEW s \in Sender, AuditSent(s) \/ AuditFailed(s), UNCHANGED rv
      PROVE  DecisionRows' /\ DecidedOnce'
  <2> DEFINE u == sd[s].tgt
  <2>1. u \in Target /\ tstate' = tstate /\ rv' = rv
    BY <1>1, <1>4 DEF AuditSent, AuditFailed, TypeOK, SendingTypeOK, SenderLocal
  <2>2. PICK row : /\ transitions' = [transitions EXCEPT ![u] = Append(@, row)]
                   /\ row.from # "awaiting_review"
    BY <1>4 DEF AuditSent, AuditFailed, InsertTransition, SendAt, LeftReview
  <2>3. ASSUME NEW t \in Target, NEW i
        PROVE  i \in DOMAIN transitions'[t] /\ transitions'[t][i].from = "awaiting_review"
               <=> i \in DOMAIN transitions[t] /\ transitions[t][i].from = "awaiting_review"
    <3>1. CASE t = u
      <4>1. transitions[u] \in Seq(TransitionRow) /\ transitions'[u] = Append(transitions[u], row)
        BY <1>1, <2>1, <2>2
      <4>2. QED BY <2>2, <3>1, <4>1
    <3>2. CASE t # u
      BY <1>1, <2>2, <3>2
    <3>3. QED BY <3>1, <3>2
  <2>4. DecidedOnce'
    BY <2>3 DEF DecidedOnce
  <2>5. ASSUME NEW t \in Target PROVE {i \in DOMAIN transitions'[t] :
                   transitions'[t][i].from = "awaiting_review"} = FromReview(t)
    BY <2>3 DEF FromReview
  <2>6. \A r \in Reviewer : rv[r].tgt \in Target
    BY <1>1 DEF TypeOK, ReviewTypeOK, ReviewerLocal
  <2>7. DecisionRows'
    BY <2>1, <2>5, <2>6 DEF DecisionRows, FromReview, At
  <2>8. QED BY <2>4, <2>7
<1>5. QED BY <1>2, <1>3, <1>4, AuditRowsGrow

-----------------------------------------------------------------------------
\* Init: no decision has been made.
LEMMA SerialInvInit == Init => SerialInv
<1> SUFFICES ASSUME Init PROVE SerialInv
  OBVIOUS
<1>1. /\ transitions = [t \in Target |-> <<>>] /\ messages = {}
      /\ \A r \in Reviewer : rv[r].pc = "idle"
      /\ \A s \in Sender : sd[s].pc = "idle" /\ sd[s].queue = {}
  BY DEF Init, DBInit, ReviewInit, SendingInit, IdleReviewer, IdleSender
<1>2. OneReviewer /\ StillUnderReview /\ LeftReview
  BY <1>1 DEF OneReviewer, At, StillUnderReview, Pending, LeftReview
<1>3. TextIsFrozen /\ SentTextWasVerified
  BY <1>1 DEF TextIsFrozen, SendAt, SentTextWasVerified
<1>4. \A r \in Reviewer : ~At(r, "audit")
  BY <1>1 DEF At
<1>5. DecisionRows /\ DecidedOnce
  BY <1>1, <1>4 DEF DecisionRows, FromReview, DecidedOnce
<1>6. QED BY <1>2, <1>3, <1>5 DEF SerialInv

\* Every step preserves the serial invariant.
LEMMA SerialInvStep ==
  ASSUME SerialReviews, Inv, SerialInv, [Next]_vars
  PROVE  SerialInv'
  BY OneReviewerStep, StillUnderReviewStep, LeftReviewStep, TextIsFrozenStep,
     SentTextWasVerifiedStep, DecisionRowsStep
  DEF SerialInv

\* With one decision at a time, and any number of batches side by side, the
\* serial invariant holds.
THEOREM SerialInvariance ==
  ASSUME SerialReviews
  PROVE  Spec => []SerialInv
<1>1. Inv /\ SerialInv /\ [Next]_vars => SerialInv'
  BY SerialInvStep
<1>2. QED BY <1>1, SerialInvInit, Invariance, PTL DEF Spec

\* The second look-up of send_email() finds the revision the gate verified.
THEOREM SentTextIsVerified ==
  ASSUME SerialReviews
  PROVE  Spec => []SentTextWasVerified
<1>1. SerialInv => SentTextWasVerified
  BY DEF SerialInv
<1>2. QED BY <1>1, SerialInvariance, PTL

\* A form submitted twice decides once.
THEOREM DecisionIsSingle ==
  ASSUME SerialReviews
  PROVE  Spec => []DecidedOnce
<1>1. SerialInv => DecidedOnce
  BY DEF SerialInv
<1>2. QED BY <1>1, SerialInvariance, PTL
=============================================================================
