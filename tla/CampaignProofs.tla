--------------------------- MODULE CampaignProofs ---------------------------
(***************************************************************************)
(* The conversation cycle implements Campaign, for stages that take turns  *)
(* and any number of drafters and repliers.  A step changes at most one of *)
(* the four things Campaign sees; TextsInv says what each stage owes the   *)
(* others when it does.  The second part proves, for one process of each   *)
(* kind, that the trail of transition rows follows the states.             *)
(***************************************************************************)
EXTENDS ConversationProofs

Mapped == <<Offered, Sent, Begun, emailSupp>>

-----------------------------------------------------------------------------
\* When the four of them stay.
LEMMA SameTexts ==
  ASSUME UNCHANGED messages
  PROVE  UNCHANGED Sent
BY DEF Sent

LEMMA SameCounts ==
  ASSUME \A t \in Target : FollowUps(t)' = FollowUps(t)
  PROVE  UNCHANGED Begun
BY DEF Begun

LEMMA SameOffers ==
  ASSUME \A t \in Target : \/ tstate'[t] = tstate[t] /\ reviews'[t] = reviews[t]
                           \/ tstate'[t] # "approved" /\ tstate[t] # "approved"
  PROVE  UNCHANGED Offered
<1>1. SUFFICES ASSUME NEW t \in Target
               PROVE  (IF tstate'[t] = "approved" THEN {LatestReview(t).revision}' ELSE {})
                    = (IF tstate[t] = "approved" THEN {LatestReview(t).revision} ELSE {})
  BY DEF Offered
<1>2. CASE tstate'[t] = tstate[t] /\ reviews'[t] = reviews[t]
  BY <1>2 DEF LatestReview
<1>3. CASE tstate'[t] # "approved" /\ tstate[t] # "approved"
  BY <1>3
<1>4. QED BY <1>2, <1>3

\* Campaign counts as this module does.
LEMMA SameCardinality ==
  ASSUME NEW S
  PROVE  C!Cardinality(S) = Cardinality(S)
BY DEF C!Cardinality, Cardinality

\* A step that none of them shows in.
LEMMA Stutters ==
  ASSUME UNCHANGED <<tstate, reviews, messages, emailSupp>>,
         \A t \in Target : FollowUps(t)' = FollowUps(t)
  PROVE  UNCHANGED Mapped
BY SameTexts, SameCounts, SameOffers DEF Mapped

\* A move to any other state takes the text off offer, if it was on.
LEMMA MoveCloses ==
  ASSUME tstate \in [Target -> State], NEW t \in Target, NEW to \in State \ {"approved"},
         tstate' = [tstate EXCEPT ![t] = to],
         UNCHANGED <<reviews, messages, emailSupp>>,
         \A u \in Target : FollowUps(u)' = FollowUps(u)
  PROVE  C!Next
<1>1. Offered' = [Offered EXCEPT ![t] = {}]
  BY DEF Offered, LatestReview
<1>2. UNCHANGED <<Sent, Begun, emailSupp>>
  BY SameTexts, SameCounts
<1>3. C!Close(t)
  BY <1>1, <1>2 DEF C!Close
<1>4. QED BY <1>3 DEF C!Next

\* The bound is that of Campaign: each of its actions keeps it.
LEMMA CountFollows ==
  ASSUME RowTypes, TextsCount, C!Next \/ UNCHANGED Mapped
  PROVE  TextsCount'
<1>1. \A t \in Target : Begun[t] \in Nat
  BY CountedRows DEF Begun
<1>2. CASE UNCHANGED Mapped
  BY <1>2 DEF Mapped, TextsCount
<1>3. ASSUME NEW t \in Target, C!Approve(t) PROVE TextsCount'
  <2>1. PICK text : Offered' = [Offered EXCEPT ![t] = {text}]
    BY <1>3 DEF C!Approve
  <2>2. UNCHANGED <<Sent, Begun>> /\ Cardinality(Sent[t]) <= Begun[t]
    BY <1>3, SameCardinality DEF C!Approve
  <2>3. /\ Cardinality(Sent[t] \cup {text}) <= Cardinality(Sent[t]) + 1
        /\ Cardinality(Sent[t] \cup {text}) \in Nat /\ Cardinality(Sent[t]) \in Nat
    <3>1. IsFiniteSet(Sent[t])
      BY DEF TextsCount
    <3>2. IsFiniteSet(Sent[t] \cup {text}) /\ Cardinality(Sent[t]) \in Nat
      BY <3>1, FS_AddElement, FS_CardinalityType
    <3>3. Cardinality(Sent[t] \cup {text}) =
              IF text \in Sent[t] THEN Cardinality(Sent[t]) ELSE Cardinality(Sent[t]) + 1
      BY <3>1, FS_AddElement
    <3>4. QED BY <3>2, <3>3
  <2>4. Cardinality(Sent[t] \cup {text}) <= Begun[t] + 1
    BY <1>1, <2>2, <2>3
  <2>5. Offered'[t] = {text} /\ \A u \in Target \ {t} : Offered'[u] = Offered[u]
    BY <2>1 DEF Offered
  <2>6. QED BY <2>2, <2>4, <2>5 DEF TextsCount
<1>4. ASSUME NEW t \in Target, C!Close(t) PROVE TextsCount'
  <2>1. /\ UNCHANGED <<Sent, Begun>> /\ IsFiniteSet(Sent[t])
        /\ Cardinality(Sent[t] \cup Offered[t]) <= Begun[t] + 1
    BY <1>4 DEF C!Close, TextsCount
  <2>2. Offered'[t] = {} /\ \A u \in Target \ {t} : Offered'[u] = Offered[u]
    BY <1>4 DEF C!Close, Offered
  <2>3. Cardinality(Sent[t]) <= Cardinality(Sent[t] \cup Offered[t])
        /\ Cardinality(Sent[t]) \in Nat /\ Cardinality(Sent[t] \cup Offered[t]) \in Nat
    <3>1. IsFiniteSet(Offered[t])
      BY FS_Singleton, FS_EmptySet DEF Offered
    <3>2. IsFiniteSet(Sent[t] \cup Offered[t])
      BY <2>1, <3>1, FS_Union
    <3>3. QED BY <2>1, <3>2, FS_Subset, FS_CardinalityType
  <2>4. Cardinality(Sent[t]) <= Begun[t] + 1
    BY <1>1, <2>1, <2>3
  <2>5. Sent[t] \cup {} = Sent[t]
    OBVIOUS
  <2>6. QED BY <2>1, <2>2, <2>4, <2>5 DEF TextsCount
<1>5. ASSUME NEW t \in Target, C!Send(t) PROVE TextsCount'
  <2>1. /\ UNCHANGED <<Offered, Begun>>
        /\ Sent' = [Sent EXCEPT ![t] = Sent[t] \cup Offered[t]]
    BY <1>5 DEF C!Send
  <2>2. Sent'[t] = Sent[t] \cup Offered[t] /\ \A u \in Target \ {t} : Sent'[u] = Sent[u]
    BY <2>1 DEF Sent
  <2>3. (Sent[t] \cup Offered[t]) \cup Offered[t] = Sent[t] \cup Offered[t]
    OBVIOUS
  <2>4. IsFiniteSet(Sent[t] \cup Offered[t])
    BY FS_Union, FS_Singleton, FS_EmptySet DEF TextsCount, Offered
  <2>5. QED BY <2>1, <2>2, <2>3, <2>4 DEF TextsCount
<1>6. ASSUME NEW t \in Target, C!FollowUp(t) PROVE TextsCount'
  <2>1. UNCHANGED <<Offered, Sent>> /\ Begun' = [Begun EXCEPT ![t] = @ + 1]
    BY <1>6 DEF C!FollowUp
  <2>2. \A u \in Target : Begun'[u] \in Nat /\ Begun[u] <= Begun'[u]
    <3>1. Begun = [u \in Target |-> Begun[u]]
      BY DEF Begun
    <3>2. QED BY <1>1, <2>1, <3>1
  <2>3. ASSUME NEW u \in Target PROVE Cardinality(Sent[u] \cup Offered[u]) <= Begun'[u] + 1
    <3>1. IsFiniteSet(Sent[u] \cup Offered[u])
      BY FS_Union, FS_Singleton, FS_EmptySet DEF TextsCount, Offered
    <3>2. Cardinality(Sent[u] \cup Offered[u]) \in Nat
      BY <3>1, FS_CardinalityType
    <3>3. QED BY <1>1, <2>2, <3>2 DEF TextsCount
  <2>4. QED BY <2>1, <2>3 DEF TextsCount
<1>7. ASSUME NEW t \in Target, C!List(t) PROVE TextsCount'
  BY <1>7 DEF C!List, TextsCount
<1>8. QED BY <1>2, <1>3, <1>4, <1>5, <1>6, <1>7 DEF C!Next

\* The count of a target under review, from the last text and the last hop.
LEMMA ReviewCountStays ==
  ASSUME ReviewCount, UNCHANGED <<Sent, Begun>>,
         \A t \in Target : tstate'[t] = "scored" => tstate[t] = "scored",
         \A t \in Target : tstate'[t] = "awaiting_review" =>
             tstate[t] = "awaiting_review" \/ Cardinality(Sent[t]) <= Begun[t]
  PROVE  ReviewCount'
BY DEF ReviewCount

-----------------------------------------------------------------------------
\* Review: a decision offers a text, or lists an address.
LEMMA ReviewCampaign ==
  ASSUME ListInv, RowTypes, DecisionHolds, ReviewCount, NEW r \in Reviewer, ReviewStep(r)
  PROVE  (C!Next \/ UNCHANGED Mapped) /\ ReviewCount'
<1> DEFINE t == rv[r].tgt
           to == DecisionTransition(rv[r].dec)
<1>1. /\ rv[r] \in ReviewerLocal /\ t \in Target /\ rv[r].dec \in Decision
      /\ tstate \in [Target -> State] /\ reviews \in [Target -> Seq(ReviewRow)]
  BY DEF ListInv, ListTypes, ReviewTypeOK, ReviewerLocal, RowTypes, DBTypeOK
<1>2. \A u \in Target : FollowUps(u)' = FollowUps(u)
  BY ReviewCounts
<1>3. /\ UNCHANGED messages
      /\ \/ MoveDecided(r) \/ InsertReview(r) \/ InsertSuppression(r)
         \/ UNCHANGED <<tstate, reviews, emailSupp>>
  BY DEF ReviewStep, Submit, CheckState, CheckSwitch, ReadLatest, InsertEdit, RunDraftGate,
     CheckListed, InsertSuppression, InsertReview, MoveDecided, AuditDecided, CutReview,
     Refuse, dbVars
<1>4. UNCHANGED <<Sent, Begun>>
  BY <1>2, <1>3, SameTexts, SameCounts
<1>5. CASE MoveDecided(r)
  <2>1. /\ tstate[t] = "awaiting_review" /\ tstate' = [tstate EXCEPT ![t] = to]
        /\ UNCHANGED <<reviews, emailSupp>>
    BY <1>1, <1>5 DEF MoveDecided, UpdateState, DecisionHolds, At
  <2>2. to \in State \ {"scored", "awaiting_review"}
    BY <1>1 DEF DecisionTransition, Decision, APPROVAL_DECISIONS, State
  <2>3. \A u \in Target : /\ tstate'[u] = "scored" => tstate[u] = "scored"
                          /\ tstate'[u] = "awaiting_review" => tstate[u] = "awaiting_review"
    BY <1>1, <2>1, <2>2
  <2>4. ReviewCount'
    BY <1>4, <2>3, ReviewCountStays
  <2>5. CASE to # "approved"
    <3>1. to \in State \ {"approved"}
      BY <2>2, <2>5
    <3>2. C!Next
      BY <1>1, <1>2, <1>3, <2>1, <3>1, MoveCloses
    <3>3. QED BY <2>4, <3>2
  <2>6. CASE to = "approved"
    <3>1. Offered' = [Offered EXCEPT ![t] = {LatestReview(t).revision}]
      BY <1>1, <2>1, <2>6 DEF Offered, LatestReview
    <3>2. Offered[t] = {} /\ Offered'[t] = {LatestReview(t).revision}
      BY <1>1, <2>1, <3>1 DEF Offered
    <3>3. C!Cardinality(Sent[t]) <= Begun[t]
      BY <1>1, <2>1, SameCardinality DEF ReviewCount
    <3>4. C!Approve(t)
      BY <1>4, <2>1, <3>1, <3>2, <3>3 DEF C!Approve
    <3>5. QED BY <1>1, <2>4, <3>4 DEF C!Next
  <2>7. QED BY <2>4, <2>5, <2>6
<1>6. CASE InsertReview(r)
  <2>1. tstate[t] = "awaiting_review" /\ UNCHANGED <<tstate, emailSupp>>
    BY <1>6 DEF InsertReview, DecisionHolds, At
  <2>2. \A u \in Target \ {t} : reviews'[u] = reviews[u]
    BY <1>1, <1>6 DEF InsertReview
  <2>3. UNCHANGED Offered
    BY <2>1, <2>2, SameOffers
  <2>4. ReviewCount'
    BY <1>4, <2>1, ReviewCountStays
  <2>5. QED BY <1>4, <2>1, <2>3, <2>4 DEF Mapped
<1>7. CASE InsertSuppression(r)
  <2>1. emailSupp' = emailSupp \cup {t} /\ UNCHANGED <<tstate, reviews>>
    BY <1>7 DEF InsertSuppression
  <2>2. UNCHANGED Offered /\ ReviewCount'
    BY <1>4, <2>1, SameOffers, ReviewCountStays
  <2>3. C!List(t)
    BY <1>4, <2>1, <2>2 DEF C!List
  <2>4. QED BY <1>1, <2>2, <2>3 DEF C!Next
<1>8. CASE UNCHANGED <<tstate, reviews, emailSupp>>
  <2>1. ReviewCount'
    BY <1>4, <1>8, ReviewCountStays
  <2>2. QED BY <1>2, <1>3, <1>8, <2>1, Stutters
<1>9. QED BY <1>3, <1>5, <1>6, <1>7, <1>8

\* Reply: an unsubscribe lists an address; no move puts a text on offer.
LEMMA ReplyCampaign ==
  ASSUME ListInv, RowTypes, ReviewCount, NEW p \in Replier, ReplyStep(p)
  PROVE  (C!Next \/ UNCHANGED Mapped) /\ ReviewCount'
<1> DEFINE t == rp[p].tgt
<1>1. t \in Target /\ tstate \in [Target -> State]
  BY DEF ListInv, ListTypes, ReplyingTypeOK, ReplierLocal
<1>2. \A u \in Target : FollowUps(u)' = FollowUps(u)
  BY ReplyCounts
<1>3. /\ UNCHANGED <<reviews, messages>>
      /\ \/ (MoveReplied(p) \/ MoveRouted(p) \/ MoveSuppressed(p) \/ MoveReplyFailed(p))
            /\ UNCHANGED emailSupp
         \/ InsertUnsubscribe(p) /\ UNCHANGED tstate
         \/ UNCHANGED <<tstate, emailSupp>>
  BY DEF ReplyStep, StartReplies, FetchFile, EndFetch, ReadLinked, MoveReplied,
     AuditReplied, PickReply, EndReplies, EnterPipeline, Classify, ReadRoute, RecordVerdict,
     MoveRouted, AuditRouted, CheckReplyListed, InsertUnsubscribe, MoveSuppressed,
     AuditSuppressed, RaiseInReply, ReadReplyDied, MoveReplyFailed, AuditReplyFailed,
     RaiseInReplyHandler, CutReplies, convVars, dbVars
<1>4. UNCHANGED <<Sent, Begun>>
  BY <1>2, <1>3, SameTexts, SameCounts
<1>5. ASSUME NEW to \in State \ {"scored", "awaiting_review", "approved"},
             tstate' = [tstate EXCEPT ![t] = to], UNCHANGED emailSupp
      PROVE  C!Next /\ ReviewCount'
  <2>1. \A u \in Target : /\ tstate'[u] = "scored" => tstate[u] = "scored"
                          /\ tstate'[u] = "awaiting_review" => tstate[u] = "awaiting_review"
    BY <1>1, <1>5
  <2>2. ReviewCount'
    BY <1>4, <2>1, ReviewCountStays
  <2>3. QED BY <1>1, <1>2, <1>3, <1>5, <2>2, MoveCloses
<1>6. {"replied", "routed", "suppressed", "failed"}
          \subseteq State \ {"scored", "awaiting_review", "approved"}
  BY DEF State
<1>7. CASE /\ MoveReplied(p) \/ MoveRouted(p) \/ MoveSuppressed(p) \/ MoveReplyFailed(p)
           /\ UNCHANGED emailSupp
  BY <1>5, <1>6, <1>7 DEF MoveReplied, MoveRouted, MoveSuppressed, MoveReplyFailed,
     UpdateState
<1>8. ASSUME UNCHANGED tstate PROVE ReviewCount'
  BY <1>4, <1>8, ReviewCountStays
<1>9. CASE InsertUnsubscribe(p) /\ UNCHANGED tstate
  <2>1. emailSupp' = emailSupp \/ emailSupp' = emailSupp \cup {t}
    BY <1>9 DEF InsertUnsubscribe
  <2>2. UNCHANGED Offered
    BY <1>3, <1>9, SameOffers
  <2>3. CASE emailSupp' = emailSupp
    BY <1>4, <1>8, <1>9, <2>2, <2>3 DEF Mapped
  <2>4. CASE emailSupp' = emailSupp \cup {t}
    <3>1. C!List(t)
      BY <1>4, <2>2, <2>4 DEF C!List
    <3>2. QED BY <1>1, <1>8, <1>9, <3>1 DEF C!Next
  <2>5. QED BY <2>1, <2>3, <2>4
<1>10. CASE UNCHANGED <<tstate, emailSupp>>
  BY <1>2, <1>3, <1>8, <1>10, Stutters
<1>11. QED BY <1>3, <1>7, <1>9, <1>10

-----------------------------------------------------------------------------
\* Send: a message carries the text on offer to an address that is not listed.
LEMMA SendCampaign ==
  ASSUME RowTypes, ListHolds, ReviewCount, NEW s \in Sender, SendReads(sd[s]), SendStep(s)
  PROVE  (C!Next \/ UNCHANGED Mapped) /\ ReviewCount'
<1> DEFINE t == sd[s].tgt
           text == sd[s].text
<1>1. /\ t \in Target /\ tstate \in [Target -> State]
  BY DEF RowTypes, DBTypeOK, SendingTypeOK, SenderLocal
<1>2. (\A u \in Target : FollowUps(u)' = FollowUps(u)) /\ UNCHANGED Begun
  BY SendCounts, SameCounts
<1>3. /\ UNCHANGED <<reviews, emailSupp>>
      /\ \/ (MoveSent(s) \/ MoveFailed(s)) /\ UNCHANGED messages
         \/ InsertMessage(s) /\ UNCHANGED tstate
         \/ UNCHANGED <<tstate, messages>>
  BY DEF SendStep, Select, ReadTarget, EndBatch, GateSwitch, GateEmail, GateDomain,
     GateReview, GateRevision, GateNewest, RecordGate, RereadReview, WriteArtifact,
     InsertMessage, MoveSent, AuditSent, LogSend, RaiseInSend, ReadDied, MoveFailed,
     AuditFailed, RaiseInBookkeeping, CutSend, Check, dbVars
<1>4. CASE (MoveSent(s) \/ MoveFailed(s)) /\ UNCHANGED messages
  <2>1. PICK to \in {"dry_run_sent", "failed"} : tstate' = [tstate EXCEPT ![t] = to]
    BY <1>4 DEF MoveSent, MoveFailed, UpdateState
  <2>2. to \in State \ {"scored", "awaiting_review", "approved"}
    BY DEF State
  <2>3. \A u \in Target : /\ tstate'[u] = "scored" => tstate[u] = "scored"
                          /\ tstate'[u] = "awaiting_review" => tstate[u] = "awaiting_review"
    BY <1>1, <2>1, <2>2
  <2>4. ReviewCount'
    BY <1>2, <1>4, <2>3, SameTexts, ReviewCountStays
  <2>5. C!Next
    BY <1>1, <1>2, <1>3, <1>4, <2>1, <2>2, MoveCloses
  <2>6. QED BY <2>4, <2>5
<1>5. CASE InsertMessage(s) /\ UNCHANGED tstate
  <2>1. sd[s].pc = "message" /\ messages' = messages \cup {Artifact(s)}
    BY <1>5 DEF InsertMessage, SendAt
  <2>2. tstate[t] = "approved" /\ Offered[t] = {text} /\ t \notin emailSupp
    BY <2>1 DEF SendReads, ListHolds, PastListCheck
  <2>3. Artifact(s).target = t /\ Artifact(s).revision = text
    BY DEF Artifact
  <2>4. Sent' = [Sent EXCEPT ![t] = Sent[t] \cup {text}]
    <3>1. Sent'[t] = Sent[t] \cup {text}
      BY <1>1, <2>1, <2>3 DEF Sent
    <3>2. ASSUME NEW u \in Target \ {t} PROVE Sent'[u] = Sent[u]
      <4>1. {n \in messages' : n.target = u} = {n \in messages : n.target = u}
        BY <2>1, <2>3
      <4>2. QED BY <4>1 DEF Sent
    <3>3. Sent = [u \in Target |-> Sent[u]] /\ Sent' = [u \in Target |-> Sent'[u]]
      BY DEF Sent
    <3>4. QED BY <1>1, <3>1, <3>2, <3>3
  <2>5. UNCHANGED Offered
    BY <1>3, <1>5, SameOffers
  <2>6. C!Send(t)
    BY <1>2, <1>3, <2>2, <2>4, <2>5 DEF C!Send
  <2>7. \A u \in Target \ {t} : Sent'[u] = Sent[u]
    BY <2>4 DEF Sent
  <2>8. ReviewCount'
    BY <1>2, <1>5, <2>2, <2>7 DEF ReviewCount
  <2>9. QED BY <1>1, <2>6, <2>8 DEF C!Next
<1>6. CASE UNCHANGED <<tstate, messages>>
  <2>1. ReviewCount'
    BY <1>2, <1>6, SameTexts, ReviewCountStays
  <2>2. QED BY <1>2, <1>3, <1>6, <2>1, Stutters
<1>7. QED BY <1>3, <1>4, <1>5, <1>6

\* Draft: the row of a follow-up is the follow-up, and a place below the cap was
\* held for it; no text is on offer while a run is at work.
LEMMA DraftCampaign ==
  ASSUME ListInv, RowTypes, CapHolds, DraftsKeepOff, TextsCount, ReviewCount,
         NEW d \in Drafter, DraftOwes(dr[d]), DraftStep(d)
  PROVE  (C!Next \/ UNCHANGED Mapped) /\ ReviewCount'
<1> DEFINE l == dr[d]
           t == l.tgt
<1>1. /\ l \in DrafterLocal /\ t \in Target /\ l.from \in State
      /\ tstate \in [Target -> State]
  BY DEF ListInv, ListTypes, DraftingTypeOK, DrafterLocal
<1>2. /\ UNCHANGED <<reviews, messages, emailSupp>>
      /\ \/ (MoveDrafted(d) \/ MoveToReview(d) \/ MoveDraftFailed(d)) /\ UNCHANGED transitions
         \/ (AuditDrafted(d) \/ AuditToReview(d) \/ AuditDraftFailed(d)) /\ UNCHANGED tstate
         \/ UNCHANGED <<tstate, transitions>>
  BY DEF DraftStep, SelectDrafts, ReadDraftTarget, EndDrafts, ReadReply, CheckCap,
     EnterLoop, Answer, MoveDrafted, AuditDrafted, InsertDraft, MoveToReview, AuditToReview,
     PickLatest, JudgeDraft, RaiseInDraft, ReadDraftDied, MoveDraftFailed, AuditDraftFailed,
     RaiseInDraftHandler, CutDraft, RefuseDraft, convVars, dbVars
<1>3. UNCHANGED Sent
  BY <1>2, SameTexts
<1>4. ASSUME \A u \in Target : FollowUps(u)' = FollowUps(u), UNCHANGED tstate
      PROVE  (C!Next \/ UNCHANGED Mapped) /\ ReviewCount'
  BY <1>2, <1>3, <1>4, SameCounts, Stutters, ReviewCountStays
<1>5. CASE /\ MoveDrafted(d) \/ MoveToReview(d) \/ MoveDraftFailed(d)
           /\ UNCHANGED transitions
  <2>1. \A u \in Target : FollowUps(u)' = FollowUps(u)
    BY <1>5, CountedRows
  <2>2. PICK to \in {"drafted", "awaiting_review", "failed"} :
            /\ tstate' = [tstate EXCEPT ![t] = to]
            /\ to = "awaiting_review" => l.pc = "finish"
    BY <1>5 DEF MoveDrafted, MoveToReview, MoveDraftFailed, UpdateState, DraftAt
  <2>3. to \in State \ {"scored", "approved"}
    BY DEF State
  <2>4. l.pc = "finish" => Cardinality(Sent[t]) <= Begun[t]
    BY DEF DraftOwes, AfterRow
  <2>5. \A u \in Target : /\ tstate'[u] = "scored" => tstate[u] = "scored"
                          /\ tstate'[u] = "awaiting_review" =>
                                 \/ tstate[u] = "awaiting_review"
                                 \/ Cardinality(Sent[u]) <= Begun[u]
    BY <1>1, <2>2, <2>3, <2>4
  <2>6. ReviewCount'
    BY <1>3, <2>1, <2>5, SameCounts, ReviewCountStays
  <2>7. C!Next
    BY <1>1, <1>2, <2>1, <2>2, <2>3, MoveCloses
  <2>8. QED BY <2>6, <2>7
<1>6. CASE AuditToReview(d) \/ AuditDraftFailed(d)
  <2>1. /\ {"awaiting_review", "failed"} \subseteq State \ {"drafted"}
        /\ "drafted" \in State
    BY DEF State
  <2>2. \A u \in Target : FollowUps(u)' = FollowUps(u)
    BY <1>1, <1>6, <2>1, OtherRow DEF AuditToReview, AuditDraftFailed
  <2>3. UNCHANGED tstate
    BY <1>6 DEF AuditToReview, AuditDraftFailed
  <2>4. QED BY <1>4, <2>2, <2>3
<1>7. CASE AuditDrafted(d)
  <2>1. /\ l.pc = "hopaudit" /\ InsertTransition(t, l.from, "drafted") /\ "drafted" \in State
        /\ UNCHANGED tstate
    BY <1>7 DEF AuditDrafted, DraftAt, State
  <2>2. PICK u \in Target : u = t
    BY <1>1
  <2>3. /\ FollowUps(u)' = IF l.from = "routed" THEN FollowUps(u) + 1 ELSE FollowUps(u)
        /\ \A v \in Target \ {u} : FollowUps(v)' = FollowUps(v)
    BY <1>1, <2>1, <2>2, CountedInsert
  <2>4. CASE l.from # "routed"
    <3>1. \A v \in Target : FollowUps(v)' = FollowUps(v)
      BY <2>3, <2>4
    <3>2. QED BY <1>4, <2>1, <3>1
  <2>5. CASE l.from = "routed"
    <3>1. Begun'[u] = Begun[u] + 1 /\ \A v \in Target \ {u} : Begun'[v] = Begun[v]
      BY <2>3, <2>5 DEF Begun
    <3>2. Begun' = [Begun EXCEPT ![u] = @ + 1]
      <4>1. Begun = [v \in Target |-> Begun[v]] /\ Begun' = [v \in Target |-> Begun'[v]]
        BY DEF Begun
      <4>2. QED BY <3>1, <4>1
    <3>3. Offered[u] = {} /\ UNCHANGED Offered
      <4>1. tstate[u] # "approved"
        BY <2>1, <2>2 DEF DraftsKeepOff
      <4>2. QED BY <1>2, <2>1, <4>1, SameOffers DEF Offered
    <3>4. Begun[u] < FollowUpCap
      <4>1. HoldsPlace(l, u)
        BY <2>1, <2>2, <2>5 DEF HoldsPlace, BeforeRow
      <4>2. {d} \subseteq Places(u) /\ Places(u) \in SUBSET Drafter
        BY <4>1 DEF Places
      <4>3. Cardinality({d}) = 1
        BY FS_Singleton
      <4>4. Cardinality(Places(u)) \in Nat /\ 1 <= Cardinality(Places(u)) /\ FollowUpCap \in Nat
        BY <4>2, <4>3, PlacesCount
      <4>5. FollowUps(u) \in Nat /\ FollowUps(u) + Cardinality(Places(u)) <= FollowUpCap
        BY CountedRows DEF CapHolds
      <4>6. QED BY <4>4, <4>5 DEF Begun
    <3>5. C!FollowUp(u)
      BY <1>2, <1>3, <3>2, <3>3, <3>4 DEF C!FollowUp
    <3>6. \A v \in Target : Begun[v] \in Nat
      BY CountedRows DEF Begun
    <3>7. ASSUME NEW v \in Target, tstate[v] = "awaiting_review"
          PROVE  Cardinality(Sent[v]) <= Begun'[v]
      <4>1. Cardinality(Sent[v]) <= Begun[v] /\ Cardinality(Sent[v]) \in Nat
        BY <3>7, FS_CardinalityType DEF ReviewCount, TextsCount
      <4>2. Begun[v] <= Begun'[v] /\ Begun'[v] \in Nat
        BY <3>1, <3>6
      <4>3. QED BY <3>6, <4>1, <4>2
    <3>8. ReviewCount'
      BY <1>3, <2>1, <3>7 DEF ReviewCount
    <3>9. QED BY <3>5, <3>8 DEF C!Next
  <2>6. QED BY <2>4, <2>5
<1>8. CASE UNCHANGED <<tstate, transitions>>
  BY <1>4, <1>8, CountedRows
<1>9. QED BY <1>2, <1>5, <1>6, <1>7, <1>8

-----------------------------------------------------------------------------
\* A sender that is alone finds its target as it has read it.
LEMMA SendAlone ==
  ASSUME SerialSends, OneSend, NEW s \in Sender, SendStep(s)
  PROVE  \A q \in Sender \ {s} : sd[q].pc = "idle"
<1>1. Select(s) \/ sd[s].pc # "idle"
  BY DEF SendStep, ReadTarget, EndBatch, GateSwitch, GateEmail, GateDomain, GateReview,
     GateRevision, GateNewest, RecordGate, RereadReview, WriteArtifact, InsertMessage,
     MoveSent, AuditSent, LogSend, RaiseInSend, InSend, ReadDied, MoveFailed, AuditFailed,
     RaiseInBookkeeping, CutSend, SendAt
<1>2. QED BY <1>1 DEF Select, OneSend, SendAt

\* The others do not move.
LEMMA SendOthers ==
  ASSUME RowTypes, SerialSends, OneSend, NEW s \in Sender, SendStep(s)
  PROVE  \A q \in Sender \ {s} : sd'[q].pc = "idle"
<1>1. sd \in [Sender -> SenderLocal]
  BY DEF RowTypes, SendingTypeOK
<1> DEFINE Others == \A q \in Sender \ {s} : sd'[q] = sd[q]
<1>2. ASSUME NEW ok, NEW pc, Check(s, ok, pc) PROVE Others
  BY <1>1, <1>2 DEF Check
<1>3. ASSUME NEW pc, SendGoto(s, pc) PROVE Others
  BY <1>1, <1>3 DEF SendGoto
<1>4. NextTarget(s) => Others
  BY <1>1 DEF NextTarget
<1> HIDE DEF Others
<1>5. ASSUME Select(s) \/ EndBatch(s) \/ CutSend(s) \/ ReadTarget(s) PROVE Others
  <2>1. Select(s) => Others
    BY <1>1 DEF Select, Others
  <2>2. ReadTarget(s) => Others
    BY <1>1 DEF ReadTarget, Others
  <2>3. EndBatch(s) \/ CutSend(s) => Others
    BY <1>1 DEF EndBatch, CutSend, Others
  <2>4. QED BY <1>5, <2>1, <2>2, <2>3
<1>6. ASSUME GateSwitch(s) \/ GateEmail(s) \/ GateDomain(s) \/ GateRevision(s) \/ GateNewest(s)
      PROVE  Others
  BY <1>2, <1>6 DEF GateSwitch, GateEmail, GateDomain, GateRevision, GateNewest
<1>7. ASSUME GateReview(s) \/ RecordGate(s) \/ RereadReview(s) \/ ReadDied(s) PROVE Others
  BY <1>1, <1>3, <1>7 DEF GateReview, RecordGate, RereadReview, ReadDied, Others
<1>8. ASSUME \/ WriteArtifact(s) \/ InsertMessage(s) \/ MoveSent(s) \/ AuditSent(s)
             \/ RaiseInSend(s) \/ MoveFailed(s)
      PROVE  Others
  BY <1>3, <1>8 DEF WriteArtifact, InsertMessage, MoveSent, AuditSent, RaiseInSend, MoveFailed
<1>9. ASSUME LogSend(s) \/ AuditFailed(s) \/ RaiseInBookkeeping(s) PROVE Others
  BY <1>4, <1>9 DEF LogSend, AuditFailed, RaiseInBookkeeping
<1>10. Others
  BY <1>5, <1>6, <1>7, <1>8, <1>9 DEF SendStep
<1>11. QED BY <1>10, SendAlone DEF Others

LEMMA SendReadsKept ==
  ASSUME RowTypes, SerialSends, OneSend, NEW s \in Sender, SendReads(sd[s]), SendStep(s)
  PROVE  OneSend' /\ \A q \in Sender : SendReads(sd[q])'
<1> DEFINE l == sd[s]
           t == l.tgt
<1>0. l \in SenderLocal /\ sd \in [Sender -> SenderLocal] /\ t \in Target
  BY DEF RowTypes, SendingTypeOK, SenderLocal
<1>1. \A q \in Sender \ {s} : sd[q].pc = "idle"
  BY SendAlone
<1>2. UNCHANGED reviews
  BY SendApproves
\* Any local state will do that is past the send or reads what is there.
<1>3. ASSUME NEW m, sd' = [sd EXCEPT ![s] = m],
             \/ m.pc \in {"idle", "next", "log", "move", "audit", "died", "failmove",
                          "failaudit"}
             \/ m.pc = "record" /\ ~m.clean
             \/ SendReads(m) /\ UNCHANGED tstate
      PROVE  OneSend' /\ \A q \in Sender : SendReads(sd[q])'
  <2>1. sd'[s] = m /\ \A q \in Sender \ {s} : sd'[q].pc = "idle"
    BY <1>0, <1>1, <1>3
  <2>2. OneSend'
    BY <2>1 DEF OneSend, SendAt
  <2>3. \A q \in Sender \ {s} : SendReads(sd[q])'
    BY <2>1 DEF SendReads, ReviewSeen
  <2>4. SendReads(sd[s])'
    <3>1. CASE SendReads(m) /\ UNCHANGED tstate
      <4>1. UNCHANGED Offered
        BY <1>2, <3>1, SameOffers
      <4>2. QED BY <2>1, <3>1, <4>1 DEF SendReads, ReviewSeen
    <3>2. CASE ~SendReads(m) \/ tstate' # tstate
      BY <1>3, <2>1, <3>2 DEF SendReads, ReviewSeen
    <3>3. QED BY <3>1, <3>2
  <2>5. QED BY <2>2, <2>3, <2>4
<1> DEFINE Goal == OneSend' /\ \A q \in Sender : SendReads(sd[q])'
<1>4. ASSUME NEW pc \in {"log", "move", "audit", "died", "failmove", "failaudit"},
             SendGoto(s, pc)
      PROVE  Goal
  <2> DEFINE m == [l EXCEPT !.pc = pc]
  <2>1. m.pc = pc /\ sd' = [sd EXCEPT ![s] = m]
    BY <1>0, <1>4 DEF SendGoto, SenderLocal
  <2> HIDE DEF m
  <2>2. QED BY <1>3, <2>1
<1>5. ASSUME NEW ok \in BOOLEAN, NEW pc, Check(s, ok, pc), UNCHANGED tstate,
             \/ pc = "record" /\ ~ok
             \/ pc \in {"email", "domain", "review"} /\ tstate[t] = l.st
             \/ pc \in {"newest", "record"} /\ (l.clean /\ ok => tstate[t] = "approved")
                                            /\ (pc = "newest" => tstate[t] = "approved")
      PROVE  Goal
  <2> DEFINE m == [l EXCEPT !.pc = pc, !.clean = l.clean /\ ok]
  <2>1. /\ m.pc = pc /\ m.tgt = t /\ m.st = l.st /\ sd' = [sd EXCEPT ![s] = m]
        /\ (m.clean => l.clean /\ ok)
    BY <1>0, <1>5 DEF Check, SenderLocal
  <2> HIDE DEF m
  <2>2. (m.pc = "record" /\ ~m.clean) \/ SendReads(m)
    BY <1>5, <2>1 DEF SendReads, ReviewSeen
  <2>3. QED BY <1>3, <1>5, <2>1, <2>2
<1> DEFINE head == [IdleSender EXCEPT !.pc = "next", !.queue = l.queue]
<1>6. head.pc = "next" /\ IdleSender.pc = "idle"
  BY DEF IdleSender
<1> HIDE DEF head
<1>7. ASSUME NextTarget(s) PROVE Goal
  <2>1. sd' = [sd EXCEPT ![s] = head]
    BY <1>7 DEF NextTarget, head
  <2>2. QED BY <1>3, <1>6, <2>1
<1>8. ASSUME UNCHANGED dbVars PROVE UNCHANGED tstate
  BY <1>8 DEF dbVars
<1>9. CASE Select(s)
  <2> DEFINE m == [l EXCEPT !.pc = "next", !.queue = Approved]
  <2>1. m.pc = "next" /\ sd' = [sd EXCEPT ![s] = m]
    BY <1>0, <1>9 DEF Select, SenderLocal
  <2> HIDE DEF m
  <2>2. QED BY <1>3, <2>1
<1>10. CASE ReadTarget(s)
  <2>1. PICK u \in l.queue :
           \/ sd' = [sd EXCEPT ![s].pc = "log", ![s].queue = @ \ {u}, ![s].tgt = u]
           \/ sd' = [sd EXCEPT ![s].pc = "switch", ![s].queue = @ \ {u},
                               ![s].tgt = u, ![s].st = tstate[u], ![s].clean = TRUE]
    BY <1>10 DEF ReadTarget
  <2> DEFINE m1 == [l EXCEPT !.pc = "log", !.queue = l.queue \ {u}, !.tgt = u]
             m2 == [l EXCEPT !.pc = "switch", !.queue = l.queue \ {u}, !.tgt = u,
                             !.st = tstate[u], !.clean = TRUE]
  <2>2. m1.pc = "log" /\ m2.pc = "switch" /\ m2.tgt = u /\ m2.st = tstate[u]
    BY <1>0 DEF SenderLocal
  <2>3. sd' = [sd EXCEPT ![s] = m1] \/ sd' = [sd EXCEPT ![s] = m2]
    BY <1>0, <2>1
  <2> HIDE DEF m1, m2
  <2>4. SendReads(m2) /\ UNCHANGED tstate
    BY <1>8, <1>10, <2>2 DEF ReadTarget, SendReads, ReviewSeen
  <2>5. QED BY <1>3, <2>2, <2>3, <2>4
<1>11. CASE EndBatch(s) \/ CutSend(s)
  BY <1>3, <1>6, <1>11 DEF EndBatch, CutSend
<1>12. CASE GateSwitch(s)
  <2>1. tstate[t] = l.st /\ UNCHANGED tstate
    BY <1>8, <1>12 DEF GateSwitch, SendAt, SendReads, Check
  <2>2. CASE Engaged
    BY <1>5, <1>12, <2>1, <2>2 DEF GateSwitch
  <2>3. CASE ~Engaged
    BY <1>5, <1>12, <2>1, <2>3 DEF GateSwitch
  <2>4. QED BY <2>2, <2>3
<1>13. CASE GateEmail(s) \/ GateDomain(s)
  <2>1. tstate[t] = l.st /\ UNCHANGED tstate
    BY <1>8, <1>13 DEF GateEmail, GateDomain, SendAt, SendReads, Check
  <2>2. QED BY <1>5, <1>13, <2>1 DEF GateEmail, GateDomain
<1>14. CASE GateReview(s)
  <2>1. tstate[t] = l.st /\ UNCHANGED tstate
    BY <1>8, <1>14 DEF GateReview, SendAt, SendReads
  <2> DEFINE m1 == [l EXCEPT !.pc = "revision", !.ref = LatestReview(t).revision]
             m2 == [l EXCEPT !.pc = "record", !.clean = FALSE]
  <2>2. m1.pc = "revision" /\ m1.tgt = t /\ m2.pc = "record" /\ m2.clean = FALSE
    BY <1>0 DEF SenderLocal
  <2>3. \/ sd' = [sd EXCEPT ![s] = m1] /\ l.st = "approved"
        \/ sd' = [sd EXCEPT ![s] = m2]
    BY <1>0, <1>14 DEF GateReview
  <2> HIDE DEF m1, m2
  <2>4. CASE sd' = [sd EXCEPT ![s] = m1] /\ l.st = "approved"
    <3>1. SendReads(m1)
      BY <2>1, <2>2, <2>4 DEF SendReads, ReviewSeen
    <3>2. QED BY <1>3, <2>1, <2>4, <3>1
  <2>5. CASE sd' = [sd EXCEPT ![s] = m2]
    BY <1>3, <2>2, <2>5
  <2>6. QED BY <2>3, <2>4, <2>5
<1>15. CASE GateRevision(s)
  <2> DEFINE ok == revisions[t][l.ref].passed
             m == [l EXCEPT !.pc = "newest", !.clean = l.clean /\ ok]
  <2>1. m.pc = "newest" /\ m.tgt = t /\ sd' = [sd EXCEPT ![s] = m]
    BY <1>0, <1>15 DEF GateRevision, Check, SenderLocal
  <2> HIDE DEF m
  <2>2. SendReads(m) /\ UNCHANGED tstate
    BY <1>8, <1>15, <2>1 DEF GateRevision, Check, SendAt, SendReads, ReviewSeen
  <2>3. QED BY <1>3, <2>1, <2>2
<1>16. CASE GateNewest(s)
  <2>1. tstate[t] = "approved" /\ UNCHANGED tstate
    BY <1>8, <1>16 DEF GateNewest, Check, SendAt, SendReads, ReviewSeen
  <2>2. HasMaxNumber(t, l.ref) \in BOOLEAN
    BY DEF HasMaxNumber
  <2>3. QED BY <1>5, <1>16, <2>1, <2>2 DEF GateNewest
<1>17. CASE RecordGate(s)
  <2>1. CASE l.clean
    <3> DEFINE m == [l EXCEPT !.pc = "reread", !.step = Len(gateLog) + 1]
    <3>1. m.pc = "reread" /\ m.tgt = t /\ sd' = [sd EXCEPT ![s] = m]
      BY <1>0, <1>17, <2>1 DEF RecordGate, SenderLocal
    <3> HIDE DEF m
    <3>2. SendReads(m) /\ UNCHANGED tstate
      BY <1>17, <2>1, <3>1 DEF RecordGate, SendAt, SendReads, ReviewSeen
    <3>3. QED BY <1>3, <3>1, <3>2
  <2>2. CASE ~l.clean
    BY <1>4, <1>17, <2>2 DEF RecordGate
  <2>3. QED BY <2>1, <2>2
<1>18. CASE RereadReview(s)
  <2> DEFINE m == [l EXCEPT !.pc = "file", !.text = LatestReview(t).revision]
  <2>1. /\ m.pc = "file" /\ m.tgt = t /\ m.text = LatestReview(t).revision
        /\ sd' = [sd EXCEPT ![s] = m]
    BY <1>0, <1>18 DEF RereadReview, SenderLocal
  <2> HIDE DEF m
  <2>2. tstate[t] = "approved" /\ UNCHANGED tstate
    BY <1>8, <1>18 DEF RereadReview, SendAt, SendReads, ReviewSeen
  <2>3. Offered[t] = {LatestReview(t).revision}
    BY <1>0, <2>2 DEF Offered
  <2>4. SendReads(m)
    BY <2>1, <2>2, <2>3 DEF SendReads, ReviewSeen
  <2>5. QED BY <1>3, <2>1, <2>2, <2>4
<1>19. CASE WriteArtifact(s)
  <2> DEFINE m == [l EXCEPT !.pc = "message"]
  <2>1. m.pc = "message" /\ m.tgt = t /\ m.text = l.text /\ sd' = [sd EXCEPT ![s] = m]
    BY <1>0, <1>19 DEF WriteArtifact, SendGoto, SenderLocal
  <2> HIDE DEF m
  <2>2. SendReads(m) /\ UNCHANGED tstate
    BY <1>19, <2>1 DEF WriteArtifact, SendAt, SendReads, ReviewSeen
  <2>3. QED BY <1>3, <2>1, <2>2
<1>20. CASE InsertMessage(s) \/ MoveSent(s) \/ AuditSent(s) \/ RaiseInSend(s) \/ MoveFailed(s)
  BY <1>4, <1>20 DEF InsertMessage, MoveSent, AuditSent, RaiseInSend, MoveFailed
<1>21. CASE AuditFailed(s) \/ LogSend(s) \/ RaiseInBookkeeping(s)
  BY <1>7, <1>21 DEF AuditFailed, LogSend, RaiseInBookkeeping
<1>22. CASE ReadDied(s)
  <2> DEFINE m == [l EXCEPT !.pc = "failmove", !.st = tstate[t]]
  <2>1. m.pc = "failmove" /\ sd' = [sd EXCEPT ![s] = m]
    BY <1>0, <1>22 DEF ReadDied, SenderLocal
  <2> HIDE DEF m
  <2>2. QED BY <1>3, <2>1
<1>23. QED
  BY <1>9, <1>10, <1>11, <1>12, <1>13, <1>14, <1>15, <1>16, <1>17, <1>18, <1>19, <1>20,
     <1>21, <1>22 DEF SendStep

-----------------------------------------------------------------------------
\* What the loop does with the next target of its queue.
LEMMA ReadsTarget ==
  ASSUME NEW d \in Drafter, ReadDraftTarget(d)
  PROVE  \E u \in dr[d].queue :
           \/ /\ tstate[u] = "scored"
              /\ dr' = [dr EXCEPT ![d].pc = "enter", ![d].queue = @ \ {u},
                                  ![d].tgt = u, ![d].from = tstate[u]]
           \/ /\ tstate[u] = "routed"
              /\ dr' = [dr EXCEPT ![d].pc = "reply", ![d].queue = @ \ {u},
                                  ![d].tgt = u, ![d].from = tstate[u]]
           \/ dr' = [dr EXCEPT ![d].queue = @ \ {u}]
  BY DEF ReadDraftTarget

\* What a draft run owes, from the state it starts in to the row it writes.
LEMMA DraftOwesKept ==
  ASSUME ListInv, RowTypes, TextsCount, ReviewCount, NEW d \in Drafter,
         \A e \in Drafter : DraftOwes(dr[e]), DraftStep(d)
  PROVE  \A e \in Drafter : DraftOwes(dr[e])'
<1> DEFINE l == dr[d]
           t == l.tgt
           Goal == \A e \in Drafter : DraftOwes(dr[e])'
<1>0. /\ l \in DrafterLocal /\ dr \in [Drafter -> DrafterLocal]
      /\ t \in Target /\ l.from \in State /\ l.round \in Nat
      /\ \A e \in Drafter : dr[e].tgt \in Target
      /\ DraftOwes(l)
  BY DEF ListInv, ListTypes, DraftingTypeOK, DrafterLocal
<1>1. UNCHANGED Sent /\ \A u \in Target : Begun[u] \in Nat
  <2>1. UNCHANGED messages
    BY DEF DraftStep, SelectDrafts, ReadDraftTarget, EndDrafts, ReadReply, CheckCap,
       EnterLoop, Answer, MoveDrafted, AuditDrafted, InsertDraft, MoveToReview, AuditToReview,
       PickLatest, JudgeDraft, RaiseInDraft, ReadDraftDied, MoveDraftFailed, AuditDraftFailed,
       RaiseInDraftHandler, CutDraft, RefuseDraft, convVars, dbVars
  <2>2. QED BY <2>1, SameTexts, CountedRows DEF Begun
<1>2. \A u \in Target : /\ Cardinality(Sent[u]) \in Nat
                        /\ Begun'[u] \in Nat /\ Begun[u] <= Begun'[u]
  <2>1. \A u \in Target : Cardinality(Sent[u]) \in Nat
    BY FS_CardinalityType DEF TextsCount
  <2>2. CASE UNCHANGED transitions
    <3>1. UNCHANGED Begun
      BY <2>2, CountedRows, SameCounts
    <3>2. QED BY <1>1, <2>1, <3>1
  <2>3. CASE AuditDrafted(d) \/ AuditToReview(d) \/ AuditDraftFailed(d)
    <3>1. PICK u \in Target : u = t
      BY <1>0
    <3>2. PICK from \in State, to \in State : InsertTransition(u, from, to)
      BY <1>0, <2>3, <3>1 DEF AuditDrafted, AuditToReview, AuditDraftFailed, State
    <3>3. /\ FollowUps(u)' \in {FollowUps(u), FollowUps(u) + 1}
          /\ \A v \in Target \ {u} : FollowUps(v)' = FollowUps(v)
      BY <3>2, CountedInsert
    <3>4. /\ Begun'[u] \in {Begun[u], Begun[u] + 1}
          /\ \A v \in Target \ {u} : Begun'[v] = Begun[v]
      BY <3>3 DEF Begun
    <3>5. QED BY <1>1, <2>1, <3>4
  <2>4. QED
    BY <2>2, <2>3 DEF DraftStep, SelectDrafts, ReadDraftTarget, EndDrafts, ReadReply,
       CheckCap, EnterLoop, Answer, MoveDrafted, InsertDraft, MoveToReview, PickLatest,
       JudgeDraft, RaiseInDraft, ReadDraftDied, MoveDraftFailed, RaiseInDraftHandler,
       CutDraft, RefuseDraft, convVars, dbVars
\* A debt that was paid before a step is paid after it.
<1>3. ASSUME NEW m, dr' = [dr EXCEPT ![d] = m], m.tgt \in Target,
             \/ DraftOwes(m)
             \/ m.pc = "persist" /\ Cardinality(Sent[m.tgt]) <= Begun'[m.tgt]
      PROVE  Goal
  <2>1. dr'[d] = m /\ \A e \in Drafter \ {d} : dr'[e] = dr[e]
    BY <1>0, <1>3
  <2>2. ASSUME NEW n, DraftOwes(n), n.tgt \in Target
        PROVE  AfterRow(n) => Cardinality(Sent[n.tgt]) <= Begun'[n.tgt]
    BY <1>1, <1>2, <2>2 DEF DraftOwes
  <2>3. \A e \in Drafter \ {d} : DraftOwes(dr[e])'
    <3>1. SUFFICES ASSUME NEW e \in Drafter \ {d} PROVE DraftOwes(dr[e])'
      OBVIOUS
    <3>2. DraftOwes(dr[e]) /\ dr'[e] = dr[e] /\ dr[e].tgt \in Target
      BY <1>0, <2>1
    <3>3. AfterRow(dr[e]) => Cardinality(Sent[dr[e].tgt]) <= Begun'[dr[e].tgt]
      BY <2>2, <3>2
    <3>4. QED BY <1>1, <3>2, <3>3 DEF DraftOwes, AfterRow, BeforeRow
  <2>4. DraftOwes(dr[d])'
    <3>1. CASE DraftOwes(m)
      <4>1. AfterRow(m) => Cardinality(Sent[m.tgt]) <= Begun'[m.tgt]
        BY <1>3, <2>2, <3>1
      <4>2. QED BY <1>1, <2>1, <3>1, <4>1 DEF DraftOwes, AfterRow, BeforeRow
    <3>2. CASE m.pc = "persist" /\ Cardinality(Sent[m.tgt]) <= Begun'[m.tgt]
      BY <1>1, <2>1, <3>2 DEF DraftOwes, AfterRow, BeforeRow
    <3>3. QED BY <1>3, <3>1, <3>2
  <2>5. QED BY <2>3, <2>4
<1>4. ASSUME NEW m, dr' = [dr EXCEPT ![d] = m], m.tgt \in Target,
             m.pc \in {"finishaudit", "latest", "verdict", "died", "failmove", "failaudit"}
      PROVE  Goal
  <2>1. DraftOwes(m)
    BY <1>4 DEF DraftOwes, AfterRow, BeforeRow
  <2>2. QED BY <1>3, <1>4, <2>1
<1> DEFINE head == [IdleDrafter EXCEPT !.pc = "next", !.queue = l.queue]
<1>5. /\ head.pc = "next" /\ head.round = 0 /\ head.tgt \in Target
      /\ IdleDrafter.pc = "idle" /\ IdleDrafter.round = 0 /\ IdleDrafter.tgt \in Target
  BY TargetAssumption DEF IdleDrafter
<1> HIDE DEF head
<1>6. DraftOwes(head) /\ DraftOwes(IdleDrafter)
  BY <1>5 DEF DraftOwes, AfterRow, BeforeRow
<1>7. ASSUME NextDraft(d) PROVE Goal
  <2>1. dr' = [dr EXCEPT ![d] = head]
    BY <1>7 DEF NextDraft, head
  <2>2. QED BY <1>3, <1>5, <1>6, <2>1
<1>8. ASSUME NEW pc, DraftGoto(d, pc),
             \/ pc \in {"finishaudit", "latest", "failaudit"}
             \/ <<l.pc, pc>> \in {<<"reply", "cap">>, <<"cap", "enter">>, <<"enter", "round">>}
             \/ pc \in {"hop", "hopaudit"} /\ BeforeRow(l)
             \/ pc \in {"persist", "finish"} /\ AfterRow(l)
      PROVE  Goal
  <2> DEFINE m == [l EXCEPT !.pc = pc]
  <2>1. /\ m.pc = pc /\ m.tgt = t /\ m.from = l.from /\ m.round = l.round
        /\ dr' = [dr EXCEPT ![d] = m]
    BY <1>0, <1>8 DEF DraftGoto, DrafterLocal
  <2> HIDE DEF m
  <2>2. DraftOwes(m)
    BY <1>0, <1>8, <2>1 DEF DraftOwes, AfterRow, BeforeRow
  <2>3. QED BY <1>0, <1>3, <2>1, <2>2
<1>9. CASE SelectDrafts(d)
  <2> DEFINE m == [l EXCEPT !.pc = "next", !.queue = Draftable]
  <2>1. m.pc = "next" /\ m.tgt = t /\ m.round = l.round /\ dr' = [dr EXCEPT ![d] = m]
    BY <1>0, <1>9 DEF SelectDrafts, DrafterLocal
  <2> HIDE DEF m
  <2>2. l.round = 0
    BY <1>0, <1>9 DEF SelectDrafts, DraftAt, DraftOwes
  <2>3. DraftOwes(m)
    BY <2>1, <2>2 DEF DraftOwes, AfterRow, BeforeRow
  <2>4. QED BY <1>0, <1>3, <2>1, <2>3
<1>10. CASE ReadDraftTarget(d)
  <2>1. PICK u \in l.queue :
           \/ /\ tstate[u] = "scored"
              /\ dr' = [dr EXCEPT ![d].pc = "enter", ![d].queue = @ \ {u},
                                  ![d].tgt = u, ![d].from = tstate[u]]
           \/ /\ tstate[u] = "routed"
              /\ dr' = [dr EXCEPT ![d].pc = "reply", ![d].queue = @ \ {u},
                                  ![d].tgt = u, ![d].from = tstate[u]]
           \/ dr' = [dr EXCEPT ![d].queue = @ \ {u}]
    BY <1>10, ReadsTarget
  <2>2. u \in Target /\ l.pc = "next" /\ l.round = 0
    BY <1>0, <1>10 DEF DrafterLocal, ReadDraftTarget, DraftAt, DraftOwes
  <2> DEFINE m1 == [l EXCEPT !.pc = "enter", !.queue = l.queue \ {u}, !.tgt = u,
                             !.from = tstate[u]]
             m2 == [l EXCEPT !.pc = "reply", !.queue = l.queue \ {u}, !.tgt = u,
                             !.from = tstate[u]]
             m3 == [l EXCEPT !.queue = l.queue \ {u}]
  <2>3. /\ m1.pc = "enter" /\ m1.tgt = u /\ m1.round = 0
        /\ m2.pc = "reply" /\ m2.tgt = u /\ m2.round = 0 /\ m2.from = tstate[u]
        /\ m3.pc = "next" /\ m3.tgt = t /\ m3.round = 0
    BY <1>0, <2>2 DEF DrafterLocal
  <2>4. \/ tstate[u] = "scored" /\ dr' = [dr EXCEPT ![d] = m1]
        \/ tstate[u] = "routed" /\ dr' = [dr EXCEPT ![d] = m2]
        \/ dr' = [dr EXCEPT ![d] = m3]
    BY <1>0, <2>1
  <2> HIDE DEF m1, m2, m3
  <2>5. /\ tstate[u] = "scored" => DraftOwes(m1)
        /\ tstate[u] = "routed" => DraftOwes(m2)
        /\ DraftOwes(m3)
    BY <2>2, <2>3 DEF DraftOwes, AfterRow, BeforeRow, ReviewCount
  <2>6. m1.tgt \in Target /\ m2.tgt \in Target /\ m3.tgt \in Target
    BY <1>0, <2>2, <2>3
  <2>7. QED BY <1>3, <2>4, <2>5, <2>6
<1>11. CASE EndDrafts(d) \/ CutDraft(d)
  BY <1>3, <1>5, <1>6, <1>11 DEF EndDrafts, CutDraft
<1>12. CASE ReadReply(d) \/ CheckCap(d) \/ EnterLoop(d)
  BY <1>7, <1>8, <1>12 DEF ReadReply, CheckCap, EnterLoop, RefuseDraft, DraftAt
<1>13. CASE Answer(d)
  <2>1. l.round = 0 => BeforeRow(l)
    BY <1>13 DEF Answer, DraftAt, BeforeRow
  <2>2. l.round # 0 => AfterRow(l)
    BY <1>0, <1>13 DEF Answer, DraftAt, AfterRow
  <2>3. \/ NextDraft(d)
        \/ l.round = 0 /\ DraftGoto(d, "hop")
        \/ l.round # 0 /\ (DraftGoto(d, "persist") \/ DraftGoto(d, "finish"))
    BY <1>0, <1>13 DEF Answer
  <2>4. QED BY <1>7, <1>8, <2>1, <2>2, <2>3
<1>14. CASE MoveDrafted(d)
  BY <1>8, <1>14 DEF MoveDrafted, DraftAt, BeforeRow
<1>15. CASE AuditDrafted(d)
  <2> DEFINE m == [l EXCEPT !.pc = "persist"]
  <2>1. m.pc = "persist" /\ m.tgt = t /\ dr' = [dr EXCEPT ![d] = m]
    BY <1>0, <1>15 DEF AuditDrafted, DraftGoto, DrafterLocal
  <2> HIDE DEF m
  <2>2. PICK u \in Target : u = t
    BY <1>0
  <2>3. l.from = "routed" \/ Sent[u] = {}
    BY <1>0, <1>15, <2>2 DEF AuditDrafted, DraftAt, DraftOwes, BeforeRow
  <2>4. CASE l.from = "routed"
    <3>1. Begun'[u] = Begun[u] + 1
      <4>1. InsertTransition(u, l.from, "drafted") /\ "drafted" \in State
        BY <1>15, <2>2 DEF AuditDrafted, State
      <4>2. FollowUps(u)' = FollowUps(u) + 1
        BY <1>0, <2>4, <4>1, CountedInsert
      <4>3. QED BY <4>2 DEF Begun
    <3>2. IsFiniteSet(Sent[u] \cup Offered[u]) /\ Sent[u] \subseteq Sent[u] \cup Offered[u]
      BY FS_Union, FS_Singleton, FS_EmptySet DEF TextsCount, Offered
    <3>3. /\ Cardinality(Sent[u]) <= Cardinality(Sent[u] \cup Offered[u])
          /\ Cardinality(Sent[u] \cup Offered[u]) \in Nat
      BY <3>2, FS_Subset, FS_CardinalityType
    <3>4. Cardinality(Sent[u] \cup Offered[u]) <= Begun[u] + 1
      BY DEF TextsCount
    <3>5. Cardinality(Sent[u]) <= Begun'[u]
      BY <1>1, <1>2, <3>1, <3>3, <3>4
    <3>6. QED BY <1>0, <1>3, <2>1, <2>2, <3>5
  <2>5. CASE Sent[u] = {}
    <3>1. Cardinality(Sent[u]) <= Begun'[u]
      BY <1>2, <2>5, FS_EmptySet
    <3>2. QED BY <1>0, <1>3, <2>1, <2>2, <3>1
  <2>6. QED BY <2>3, <2>4, <2>5
<1>16. CASE InsertDraft(d)
  <2>1. PICK pc \in {"round", "finish"} :
            dr' = [dr EXCEPT ![d].pc = pc, ![d].round = @ + 1]
    BY <1>16 DEF InsertDraft
  <2> DEFINE m == [l EXCEPT !.pc = pc, !.round = l.round + 1]
  <2>2. /\ m.tgt = t /\ m.pc = pc /\ m.round = l.round + 1
        /\ dr' = [dr EXCEPT ![d] = m]
    BY <1>0, <2>1 DEF DrafterLocal
  <2> HIDE DEF m
  <2>3. AfterRow(l)
    BY <1>16 DEF InsertDraft, DraftAt, AfterRow
  <2>4. DraftOwes(m)
    BY <1>0, <2>2, <2>3 DEF DraftOwes, AfterRow, BeforeRow
  <2>5. QED BY <1>0, <1>3, <2>2, <2>4
<1>17. CASE MoveToReview(d) \/ MoveDraftFailed(d) \/ AuditToReview(d)
  BY <1>8, <1>17 DEF MoveToReview, MoveDraftFailed, AuditToReview
<1>18. CASE JudgeDraft(d) \/ AuditDraftFailed(d)
  BY <1>7, <1>18 DEF JudgeDraft, AuditDraftFailed
<1>19. CASE PickLatest(d)
  <2>1. PICK i : dr' = [dr EXCEPT ![d].pc = "verdict", ![d].ref = i]
    BY <1>19 DEF PickLatest
  <2> DEFINE m == [l EXCEPT !.pc = "verdict", !.ref = i]
  <2>2. m.tgt = t /\ m.pc = "verdict" /\ dr' = [dr EXCEPT ![d] = m]
    BY <1>0, <2>1 DEF DrafterLocal
  <2> HIDE DEF m
  <2>3. QED BY <1>0, <1>4, <2>2
<1>20. ASSUME NEW b, dr' = [dr EXCEPT ![d].pc = "died", ![d].caught = b] PROVE Goal
  <2> DEFINE m == [l EXCEPT !.pc = "died", !.caught = b]
  <2>1. m.tgt = t /\ m.pc = "died" /\ dr' = [dr EXCEPT ![d] = m]
    BY <1>0, <1>20 DEF DrafterLocal
  <2> HIDE DEF m
  <2>2. QED BY <1>0, <1>4, <2>1
<1>21. CASE RaiseInDraft(d)
  BY <1>20, <1>21 DEF RaiseInDraft
<1>22. CASE RaiseInDraftHandler(d)
  BY <1>7, <1>20, <1>22 DEF RaiseInDraftHandler
<1>23. CASE ReadDraftDied(d)
  <2> DEFINE m == [l EXCEPT !.pc = "failmove", !.from = tstate[t]]
  <2>1. m.tgt = t /\ m.pc = "failmove" /\ dr' = [dr EXCEPT ![d] = m]
    BY <1>0, <1>23 DEF DrafterLocal, ReadDraftDied
  <2> HIDE DEF m
  <2>2. QED BY <1>0, <1>4, <2>1
<1>24. QED
  BY <1>9, <1>10, <1>11, <1>12, <1>13, <1>14, <1>15, <1>16, <1>17, <1>18, <1>19, <1>21,
     <1>22, <1>23 DEF DraftStep

-----------------------------------------------------------------------------
LEMMA TextsInit == Init => TextsInv
<1>1. SUFFICES ASSUME Init PROVE TextsInv
  OBVIOUS
<1>2. \A t \in Target : tstate[t] = "scored" /\ Sent[t] = {} /\ Offered[t] = {}
  BY <1>1 DEF Init, Sent, Offered
<1>3. \A t \in Target : FollowUps(t) = 0
  BY <1>1, NoHopYet
<1>4. TextsCount
  <2>1. ASSUME NEW t \in Target
        PROVE  IsFiniteSet(Sent[t]) /\ Cardinality(Sent[t] \cup Offered[t]) = 0 /\ Begun[t] = 0
    <3>1. Sent[t] = {} /\ Sent[t] \cup Offered[t] = {}
      BY <1>2
    <3>2. QED BY <1>3, <3>1, FS_EmptySet DEF Begun
  <2>2. QED BY <2>1 DEF TextsCount
<1>5. ReviewCount
  BY <1>2 DEF ReviewCount
<1>6. OneSend /\ \A s \in Sender : SendReads(sd[s])
  BY <1>1 DEF Init, SendingInit, IdleSender, OneSend, SendReads, ReviewSeen, SendAt
<1>7. \A d \in Drafter : DraftOwes(dr[d])
  BY <1>1 DEF Init, DraftingInit, IdleDrafter, DraftOwes, BeforeRow, AfterRow
<1>8. QED BY <1>4, <1>5, <1>6, <1>7 DEF TextsInv

\* Every step is one of Campaign's or none, and leaves the debts paid.
LEMMA CampaignStep ==
  ASSUME OneStage, SerialSends, ListInv, RowTypes, CapHolds, ListHolds, ApprovalInv,
         TextsInv, [Next]_vars
  PROVE  (C!Next \/ UNCHANGED Mapped) /\ TextsInv'
<1> DEFINE Sends == OneSend /\ \A s \in Sender : SendReads(sd[s])
           Drafts == \A d \in Drafter : DraftOwes(dr[d])
           Step == (C!Next \/ UNCHANGED Mapped) /\ ReviewCount'
<1>1. /\ Turns /\ DecisionHolds /\ DraftsKeepOff
      /\ TextsCount /\ ReviewCount /\ Sends /\ Drafts
  BY DEF ApprovalInv, TextsInv
<1>2. ASSUME NoSend, UNCHANGED sd PROVE Sends'
  BY <1>2 DEF NoSend, SendAt, OneSend, SendReads, ReviewSeen
<1>3. ASSUME NoDraft, UNCHANGED dr PROVE Drafts'
  BY <1>1, <1>3 DEF NoDraft, DraftAt, DraftOwes, BeforeRow, AfterRow
<1>4. ASSUME Step, Sends', Drafts' PROVE (C!Next \/ UNCHANGED Mapped) /\ TextsInv'
  BY <1>1, <1>4, CountFollows DEF TextsInv
<1>5. ASSUME UNCHANGED <<tstate, transitions, reviews, messages, emailSupp, sd, dr>>
      PROVE  Step /\ Sends' /\ Drafts'
  <2>1. UNCHANGED <<Offered, Sent, Begun>>
    BY <1>5, CountedRows, SameOffers, SameTexts, SameCounts
  <2>2. Step
    BY <1>1, <1>5, <2>1, ReviewCountStays DEF Mapped
  <2>3. Sends'
    BY <1>1, <1>5, <2>1 DEF OneSend, SendAt, SendReads, ReviewSeen
  <2>4. Drafts'
    BY <1>1, <1>5, <2>1 DEF DraftOwes, BeforeRow, AfterRow
  <2>5. QED BY <2>2, <2>3, <2>4
<1>6. CASE UNCHANGED vars
  BY <1>4, <1>5, <1>6 DEF vars, convVars, dbVars
<1>7. CASE FlipSwitch
  BY <1>4, <1>5, <1>7 DEF FlipSwitch
<1>8. ASSUME NEW t \in Target, Arrive(t) PROVE (C!Next \/ UNCHANGED Mapped) /\ TextsInv'
  BY <1>4, <1>5, <1>8 DEF Arrive, dbVars
<1>9. ASSUME NEW r \in Reviewer, ReviewTurn(r)
      PROVE  (C!Next \/ UNCHANGED Mapped) /\ TextsInv'
  <2>1. ReviewStep(r) /\ UNCHANGED <<sd, dr>> /\ NoSend /\ NoDraft
    BY <1>9 DEF ReviewTurn
  <2>2. Step
    BY <1>1, <2>1, ReviewCampaign
  <2>3. QED BY <1>2, <1>3, <1>4, <2>1, <2>2
<1>10. ASSUME NEW s \in Sender, SendTurn(s)
       PROVE  (C!Next \/ UNCHANGED Mapped) /\ TextsInv'
  <2>1. SendStep(s) /\ UNCHANGED dr /\ NoDraft
    BY <1>10 DEF SendTurn
  <2>2. Step
    BY <1>1, <2>1, SendCampaign
  <2>3. Sends'
    BY <1>1, <2>1, SendReadsKept
  <2>4. QED BY <1>3, <1>4, <2>1, <2>2, <2>3
<1>11. ASSUME NEW d \in Drafter, DraftTurn(d)
       PROVE  (C!Next \/ UNCHANGED Mapped) /\ TextsInv'
  <2>1. DraftStep(d) /\ UNCHANGED sd /\ NoSend
    BY <1>11 DEF DraftTurn
  <2>2. Step
    BY <1>1, <2>1, DraftCampaign
  <2>3. Drafts'
    BY <1>1, <2>1, DraftOwesKept
  <2>4. QED BY <1>2, <1>4, <2>1, <2>2, <2>3
<1>12. ASSUME NEW p \in Replier, ReplyTurn(p)
       PROVE  (C!Next \/ UNCHANGED Mapped) /\ TextsInv'
  <2>1. ReplyStep(p) /\ UNCHANGED <<sd, dr>> /\ NoSend /\ NoDraft
    BY <1>12 DEF ReplyTurn
  <2>2. Step
    BY <1>1, <2>1, ReplyCampaign
  <2>3. QED BY <1>2, <1>3, <1>4, <2>1, <2>2
<1>13. QED BY <1>6, <1>7, <1>8, <1>9, <1>10, <1>11, <1>12 DEF Next

LEMMA TextsInvariance ==
  ASSUME OneStage, SerialReviews, SerialSends
  PROVE  Spec => []TextsInv
<1>1. ListInv /\ RowTypes /\ CapHolds /\ ListHolds /\ ApprovalInv /\ TextsInv /\ [Next]_vars
          => TextsInv'
  BY CampaignStep
<1>2. QED
  BY <1>1, TextsInit, ListInvariance, RowsAreTyped, CapInvariance, ListStaysRead,
     ApprovalInvariance, PTL DEF Spec

\* When stages take turns, decisions and sends among them, the whole cycle keeps
\* the promises of Campaign, wherever its runs are cut off and retried.
THEOREM CycleKeepsCampaign ==
  ASSUME OneStage, SerialReviews, SerialSends
  PROVE  Spec => KeepsCampaign
<1>1. Init => C!Init
  <2>1. SUFFICES ASSUME Init PROVE C!Init
    OBVIOUS
  <2>2. Offered = [t \in Target |-> {}] /\ Sent = [t \in Target |-> {}] /\ emailSupp = {}
    BY <2>1 DEF Init, Offered, Sent
  <2>3. \A t \in Target : FollowUps(t) = 0
    BY <2>1, NoHopYet
  <2>4. Begun = [t \in Target |-> 0]
    BY <2>3 DEF Begun
  <2>5. QED BY <2>2, <2>4 DEF C!Init
<1>2. ListInv /\ RowTypes /\ CapHolds /\ ListHolds /\ ApprovalInv /\ TextsInv /\ [Next]_vars
          => [C!Next]_<<Offered, Sent, Begun, emailSupp>>
  BY CampaignStep DEF Mapped
<1>3. QED
  BY <1>1, <1>2, ListInvariance, RowsAreTyped, CapInvariance, ListStaysRead,
     ApprovalInvariance, TextsInvariance, PTL DEF Spec, KeepsCampaign, C!Spec, C!vars

\* And so a contact is sent at most the first text and one for each follow-up,
\* MaxFollowUps of them if there is a single drafter.
THEOREM TextsStayCapped ==
  ASSUME OneStage, SerialReviews, SerialSends
  PROVE  Spec => []C!TextsCapped
<1>1. RowTypes /\ FollowUpsCapped /\ TextsInv => C!TextsCapped
  <2>1. SUFFICES ASSUME RowTypes, FollowUpsCapped, TextsCount, NEW t \in Target
                 PROVE  C!Cardinality(Sent[t]) <= 1 + FollowUpCap
    BY DEF C!TextsCapped, TextsInv
  <2>2. /\ IsFiniteSet(Sent[t]) /\ IsFiniteSet(Sent[t] \cup Offered[t])
        /\ Sent[t] \subseteq Sent[t] \cup Offered[t]
    <3>1. IsFiniteSet(Sent[t])
      BY <2>1 DEF TextsCount
    <3>2. IsFiniteSet(Offered[t])
      BY FS_Singleton, FS_EmptySet DEF Offered
    <3>3. QED BY <3>1, <3>2, FS_Union
  <2>3. /\ Cardinality(Sent[t]) <= Cardinality(Sent[t] \cup Offered[t])
        /\ Cardinality(Sent[t]) \in Nat /\ Cardinality(Sent[t] \cup Offered[t]) \in Nat
    BY <2>2, FS_Subset, FS_CardinalityType
  <2>4. /\ Cardinality(Sent[t] \cup Offered[t]) <= FollowUps(t) + 1
        /\ FollowUps(t) <= FollowUpCap /\ FollowUps(t) \in Nat /\ FollowUpCap \in Nat
    <3>1. Begun[t] = FollowUps(t) /\ FollowUps(t) \in Nat /\ FollowUpCap \in Nat
      BY <2>1, CountedRows, PlacesCount DEF Begun
    <3>2. QED BY <2>1, <3>1 DEF TextsCount, FollowUpsCapped
  <2>5. Cardinality(Sent[t]) <= 1 + FollowUpCap
    BY <2>3, <2>4
  <2>6. QED BY <2>5, SameCardinality
<1>2. QED BY <1>1, RowsAreTyped, FollowUpsStayCapped, TextsInvariance, PTL

-----------------------------------------------------------------------------
\* The trail.  What a step may do to the state and the rows of a target.
TrailStep ==
    \A t \in Target :
        /\ tstate'[t] # tstate[t] =>
               /\ IsValid(tstate[t], tstate'[t])
               /\ [from |-> tstate[t], to |-> tstate'[t]] \in RowsDue(t)'
        /\ transitions'[t] # transitions[t] =>
               LET row == transitions'[t][Len(transitions'[t])]
               IN  row \in RowsDue(t) /\ row.to = tstate[t]

LEMMA QuietTrail ==
  ASSUME UNCHANGED <<tstate, transitions>>
  PROVE  TrailStep
BY DEF TrailStep

\* The first commit of a transition, by a process that knows where its target is.
LEMMA MovesTrail ==
  ASSUME RowTypes, NEW t \in Target, NEW from \in State, NEW to \in State,
         tstate[t] = from, UpdateState(t, from, to), UNCHANGED transitions,
         [from |-> from, to |-> to] \in RowsDue(t)'
  PROVE  TrailStep /\ tstate'[t] = to
<1>1. tstate \in [Target -> State]
  BY DEF RowTypes, DBTypeOK
<1>2. tstate'[t] = to /\ \A u \in Target \ {t} : tstate'[u] = tstate[u]
  BY <1>1 DEF UpdateState
<1>3. IsValid(from, to)
  BY DEF UpdateState
<1>4. QED BY <1>2, <1>3 DEF TrailStep

\* The second.
LEMMA RecordsTrail ==
  ASSUME RowTypes, NEW t \in Target, NEW from \in State, NEW to \in State,
         tstate[t] = to, InsertTransition(t, from, to), UNCHANGED tstate,
         [from |-> from, to |-> to] \in RowsDue(t)
  PROVE  TrailStep
<1> DEFINE row == [from |-> from, to |-> to]
<1>1. transitions[t] \in Seq(TransitionRow) /\ row \in TransitionRow /\ row.to = to
      /\ transitions \in [Target -> Seq(TransitionRow)]
  BY DEF RowTypes, DBTypeOK, TransitionRow
<1>2. /\ transitions'[t] = Append(transitions[t], row)
      /\ \A u \in Target \ {t} : transitions'[u] = transitions[u]
  BY <1>1 DEF InsertTransition
<1>3. transitions'[t][Len(transitions'[t])] = row
  BY <1>1, <1>2
<1>4. QED BY <1>1, <1>2, <1>3 DEF TrailStep

LEMMA DueRows ==
  ASSUME NEW t \in Target, NEW from \in State, NEW to \in State
  PROVE  LET row == [from |-> from, to |-> to]
         IN  /\ \A r \in Reviewer :
                    /\ rv[r].tgt = t /\ row \in ReviewDue(rv[r]) => row \in RowsDue(t)
                    /\ rv'[r].tgt = t /\ row \in ReviewDue(rv[r])' => row \in RowsDue(t)'
             /\ \A s \in Sender :
                    /\ sd[s].tgt = t /\ row \in SendDue(sd[s]) => row \in RowsDue(t)
                    /\ sd'[s].tgt = t /\ row \in SendDue(sd[s])' => row \in RowsDue(t)'
             /\ \A d \in Drafter :
                    /\ dr[d].tgt = t /\ row \in DraftDue(dr[d]) => row \in RowsDue(t)
                    /\ dr'[d].tgt = t /\ row \in DraftDue(dr[d])' => row \in RowsDue(t)'
             /\ \A p \in Replier :
                    /\ rp[p].tgt = t /\ row \in ReplyDue(rp[p]) => row \in RowsDue(t)
                    /\ rp'[p].tgt = t /\ row \in ReplyDue(rp[p])' => row \in RowsDue(t)'
BY DEF RowsDue, TransitionRow

\* A decision.
LEMMA ReviewTrail ==
  ASSUME ListInv, RowTypes, DecisionHolds, NEW r \in Reviewer, ReviewKnows(rv[r]),
         ReviewStep(r)
  PROVE  TrailStep /\ ReviewKnows(rv[r])'
<1> DEFINE l == rv[r]
           t == l.tgt
           to == DecisionTransition(l.dec)
<1>0. /\ l \in ReviewerLocal /\ rv \in [Reviewer -> ReviewerLocal] /\ t \in Target
      /\ l.dec \in Decision
  BY DEF ListInv, ListTypes, ReviewTypeOK, ReviewerLocal
<1>1. ASSUME UNCHANGED <<tstate, transitions>>, rv'[r].pc # "audit"
      PROVE  TrailStep /\ ReviewKnows(rv[r])'
  BY <1>1, QuietTrail DEF ReviewKnows, ReviewDue
<1>2. ASSUME NEW pc, Goto(r, pc) PROVE rv'[r] = [l EXCEPT !.pc = pc] /\ rv'[r].pc = pc
  BY <1>0, <1>2 DEF Goto, ReviewerLocal
<1>3. ASSUME Return(r) PROVE rv'[r].pc = "idle"
  BY <1>0, <1>3 DEF Return, IdleReviewer
<1>4. ASSUME Refuse(r) PROVE TrailStep /\ ReviewKnows(rv[r])'
  BY <1>1, <1>3, <1>4 DEF Refuse, dbVars
<1>5. to \in State /\ "awaiting_review" \in State
  BY <1>0 DEF DecisionTransition, Decision, APPROVAL_DECISIONS, State
<1>6. ASSUME NEW u \in Target, NEW d \in Decision, Submit(r, u, d)
      PROVE  TrailStep /\ ReviewKnows(rv[r])'
  BY <1>0, <1>1, <1>6 DEF Submit, dbVars
<1>7. CASE CheckState(r) \/ CheckSwitch(r) \/ CheckListed(r)
  <2>1. \/ Refuse(r)
        \/ UNCHANGED dbVars /\ \E pc \in {"switch", "latest", "decide", "suppress"} : Goto(r, pc)
    BY <1>7 DEF CheckState, CheckSwitch, CheckListed
  <2>2. QED BY <1>1, <1>2, <1>4, <2>1 DEF dbVars
<1>8. CASE ReadLatest(r)
  <2>1. ASSUME NEW pc \in {"edit", "listed", "decide"}, NEW i,
               rv' = [rv EXCEPT ![r].pc = pc, ![r].ref = i]
        PROVE  rv'[r].pc = pc
    BY <1>0, <2>1 DEF ReviewerLocal
  <2>2. Refuse(r) \/ (rv'[r].pc # "audit" /\ UNCHANGED dbVars)
    BY <1>8, <2>1 DEF ReadLatest
  <2>3. QED BY <1>1, <1>4, <2>2 DEF dbVars
<1>9. CASE InsertEdit(r) \/ RunDraftGate(r) \/ InsertSuppression(r) \/ InsertReview(r)
  <2>1. CASE InsertEdit(r)
    BY <1>0, <1>1, <2>1 DEF InsertEdit, ReviewerLocal
  <2>2. CASE RunDraftGate(r) \/ InsertSuppression(r) \/ InsertReview(r)
    <3>1. UNCHANGED <<tstate, transitions>> /\ \E pc \in {"decide", "move"} : Goto(r, pc)
      BY <2>2 DEF RunDraftGate, InsertSuppression, InsertReview
    <3>2. QED BY <1>1, <1>2, <3>1
  <2>3. QED BY <1>9, <2>1, <2>2
<1>10. CASE MoveDecided(r)
  <2>1. UpdateState(t, "awaiting_review", to) /\ UNCHANGED transitions
        /\ tstate[t] = "awaiting_review"
    BY <1>10 DEF MoveDecided, DecisionHolds, At
  <2>2. rv'[r].pc = "audit" /\ rv'[r].tgt = t /\ rv'[r].dec = l.dec
    BY <1>0, <1>10 DEF MoveDecided, Goto, ReviewerLocal
  <2>3. ReviewDue(rv[r])' = {[from |-> "awaiting_review", to |-> to]}
    BY <2>2 DEF ReviewDue, DecisionTransition
  <2>4. TrailStep /\ tstate'[t] = to
    BY <1>0, <1>5, <2>1, <2>2, <2>3, DueRows, MovesTrail
  <2>5. QED BY <2>2, <2>3, <2>4 DEF ReviewKnows
<1>11. CASE AuditDecided(r)
  <2>1. InsertTransition(t, "awaiting_review", to) /\ UNCHANGED tstate /\ l.pc = "audit"
        /\ rv'[r].pc = "idle"
    BY <1>3, <1>11 DEF AuditDecided, At
  <2>2. ReviewDue(l) = {[from |-> "awaiting_review", to |-> to]}
    BY <2>1 DEF ReviewDue
  <2>3. tstate[t] = to
    BY <2>2 DEF ReviewKnows
  <2>4. TrailStep
    BY <1>0, <1>5, <2>1, <2>2, <2>3, DueRows, RecordsTrail
  <2>5. QED BY <2>1, <2>4 DEF ReviewKnows, ReviewDue
<1>12. CASE CutReview(r)
  BY <1>4, <1>12 DEF CutReview
<1>13. QED
  BY <1>6, <1>7, <1>8, <1>9, <1>10, <1>11, <1>12 DEF ReviewStep

\* A send.
LEMMA SendTrail ==
  ASSUME RowTypes, NEW s \in Sender, SendReads(sd[s]), SendKnows(sd[s]), SendStep(s)
  PROVE  TrailStep /\ SendKnows(sd[s])'
<1> DEFINE l == sd[s]
           t == l.tgt
           Goal == TrailStep /\ SendKnows(sd[s])'
           Quiet == {"idle", "next", "switch", "email", "domain", "review", "revision",
                     "newest", "record", "reread", "file", "message", "log", "died"}
<1>0. /\ l \in SenderLocal /\ sd \in [Sender -> SenderLocal] /\ t \in Target
      /\ l.st \in State /\ tstate[t] \in State
  BY DEF RowTypes, DBTypeOK, SendingTypeOK, SenderLocal
<1>1. ASSUME UNCHANGED <<tstate, transitions>>, sd'[s].pc \in Quiet PROVE Goal
  BY <1>1, QuietTrail DEF SendKnows, SendDue
<1>2. ASSUME NEW pc, SendGoto(s, pc)
      PROVE  sd'[s].pc = pc /\ sd'[s].tgt = t /\ sd'[s].st = l.st
  BY <1>0, <1>2 DEF SendGoto, SenderLocal
<1>3. ASSUME NextTarget(s) PROVE sd'[s].pc = "next"
  BY <1>0, <1>3 DEF NextTarget, IdleSender
<1>4. ASSUME NEW ok, NEW pc, Check(s, ok, pc) PROVE sd'[s].pc = pc
  BY <1>0, <1>4 DEF Check, SenderLocal
<1>5. ASSUME UNCHANGED dbVars PROVE UNCHANGED <<tstate, transitions>>
  BY <1>5 DEF dbVars
<1>6. CASE Select(s) \/ EndBatch(s) \/ CutSend(s)
  <2>1. sd'[s].pc \in Quiet
    BY <1>0, <1>6 DEF Select, EndBatch, CutSend, IdleSender, SenderLocal
  <2>2. QED BY <1>1, <1>5, <1>6, <2>1 DEF Select, EndBatch, CutSend
<1>7. CASE ReadTarget(s)
  <2>1. sd'[s].pc \in Quiet
    BY <1>0, <1>7 DEF ReadTarget, SenderLocal
  <2>2. QED BY <1>1, <1>5, <1>7, <2>1 DEF ReadTarget
<1>8. CASE GateSwitch(s) \/ GateEmail(s) \/ GateDomain(s) \/ GateRevision(s) \/ GateNewest(s)
  <2>1. sd'[s].pc \in Quiet
    BY <1>4, <1>8 DEF GateSwitch, GateEmail, GateDomain, GateRevision, GateNewest
  <2>2. UNCHANGED dbVars
    BY <1>8 DEF GateSwitch, GateEmail, GateDomain, GateRevision, GateNewest, Check
  <2>3. QED BY <1>1, <1>5, <2>1, <2>2
<1>9. CASE GateReview(s) \/ RereadReview(s)
  <2>1. sd'[s].pc \in Quiet
    BY <1>0, <1>9 DEF GateReview, RereadReview, SenderLocal
  <2>2. QED BY <1>1, <1>5, <1>9, <2>1 DEF GateReview, RereadReview
<1>10. CASE RecordGate(s) \/ WriteArtifact(s)
  <2>1. sd'[s].pc \in Quiet
    BY <1>0, <1>2, <1>10 DEF RecordGate, WriteArtifact, SenderLocal
  <2>2. QED BY <1>1, <1>10, <2>1 DEF RecordGate, WriteArtifact
<1>11. CASE LogSend(s) \/ RaiseInSend(s) \/ RaiseInBookkeeping(s)
  <2>1. sd'[s].pc \in Quiet
    BY <1>2, <1>3, <1>11 DEF LogSend, RaiseInSend, RaiseInBookkeeping
  <2>2. QED BY <1>1, <1>5, <1>11, <2>1 DEF LogSend, RaiseInSend, RaiseInBookkeeping
<1>12. CASE InsertMessage(s)
  <2>1. /\ sd'[s].pc = "move" /\ sd'[s].tgt = t /\ UNCHANGED <<tstate, transitions>>
        /\ tstate[t] = "approved"
    BY <1>2, <1>12 DEF InsertMessage, SendAt, SendReads
  <2>2. QED BY <2>1, QuietTrail DEF SendKnows, SendDue
<1>13. CASE ReadDied(s)
  <2>1. /\ sd'[s].pc = "failmove" /\ sd'[s].tgt = t /\ sd'[s].st = tstate[t]
        /\ UNCHANGED <<tstate, transitions>>
    BY <1>0, <1>13 DEF ReadDied, SenderLocal, dbVars
  <2>2. QED BY <2>1, QuietTrail DEF SendKnows, SendDue
<1>14. ASSUME NEW from \in State, NEW to \in State, UpdateState(t, from, to), tstate[t] = from,
              UNCHANGED transitions, SendDue(sd[s])' = {[from |-> from, to |-> to]},
              sd'[s].pc \in {"audit", "failaudit"}, sd'[s].tgt = t
       PROVE  Goal
  <2>1. [from |-> from, to |-> to] \in RowsDue(t)'
    BY <1>0, <1>14, DueRows
  <2>2. TrailStep /\ tstate'[t] = to
    BY <1>0, <1>14, <2>1, MovesTrail
  <2>3. QED BY <1>14, <2>2 DEF SendKnows
<1>15. CASE MoveSent(s)
  <2>1. sd'[s].pc = "audit" /\ sd'[s].tgt = t
    BY <1>2, <1>15 DEF MoveSent
  <2>2. SendDue(sd[s])' = {[from |-> "approved", to |-> "dry_run_sent"]}
    BY <2>1 DEF SendDue
  <2>3. UpdateState(t, "approved", "dry_run_sent") /\ UNCHANGED transitions
        /\ tstate[t] = "approved"
    BY <1>15 DEF MoveSent, SendAt, SendKnows
  <2>4. QED BY <1>14, <2>1, <2>2, <2>3 DEF State
<1>16. CASE MoveFailed(s)
  <2>1. PICK from \in State : from = l.st
    BY <1>0
  <2>2. sd'[s].pc = "failaudit" /\ sd'[s].tgt = t /\ sd'[s].st = from
    BY <1>2, <1>16, <2>1 DEF MoveFailed
  <2>3. SendDue(sd[s])' = {[from |-> from, to |-> "failed"]}
    BY <2>2 DEF SendDue
  <2>4. UpdateState(t, from, "failed") /\ UNCHANGED transitions /\ tstate[t] = from
    BY <1>16, <2>1 DEF MoveFailed, SendAt, SendKnows
  <2>5. QED BY <1>14, <2>2, <2>3, <2>4 DEF State
<1>17. CASE AuditSent(s) \/ AuditFailed(s)
  <2> DEFINE from == IF l.pc = "audit" THEN "approved" ELSE l.st
             to == IF l.pc = "audit" THEN "dry_run_sent" ELSE "failed"
  <2>1. /\ InsertTransition(t, from, to) /\ UNCHANGED tstate
        /\ l.pc \in {"audit", "failaudit"} /\ sd'[s].pc \in Quiet
    BY <1>2, <1>3, <1>17 DEF AuditSent, AuditFailed, SendAt
  <2>2. SendDue(l) = {[from |-> from, to |-> to]}
    BY <2>1 DEF SendDue
  <2>3. tstate[t] = to
    BY <2>2 DEF SendKnows
  <2>4. from \in State /\ to \in State
    BY <1>0 DEF State
  <2> HIDE DEF from, to
  <2>5. TrailStep
    BY <1>0, <2>1, <2>2, <2>3, <2>4, DueRows, RecordsTrail
  <2>6. QED BY <2>1, <2>5 DEF SendKnows, SendDue
<1>18. QED
  BY <1>6, <1>7, <1>8, <1>9, <1>10, <1>11, <1>12, <1>13, <1>15, <1>16, <1>17
  DEF SendStep

\* A draft run.
LEMMA DraftTrail ==
  ASSUME ListInv, RowTypes, NEW d \in Drafter, DraftOwes(dr[d]), DraftKnows(dr[d]),
         DraftStep(d)
  PROVE  TrailStep /\ DraftKnows(dr[d])'
<1> DEFINE l == dr[d]
           t == l.tgt
           Goal == TrailStep /\ DraftKnows(dr[d])'
<1>0. /\ l \in DrafterLocal /\ dr \in [Drafter -> DrafterLocal] /\ t \in Target
      /\ l.from \in State /\ l.round \in Nat /\ l.queue \subseteq Target
      /\ tstate \in [Target -> State] /\ tstate[t] \in State
  BY DEF ListInv, ListTypes, DraftingTypeOK, DrafterLocal
<1>1. ASSUME UNCHANGED <<tstate, transitions>>,
             dr'[d].pc \in {"idle", "next", "latest", "verdict", "died"}
      PROVE  Goal
  BY <1>1, QuietTrail DEF DraftKnows, DraftDue
<1>2. ASSUME NEW pc, DraftGoto(d, pc)
      PROVE  /\ dr'[d].pc = pc /\ dr'[d].tgt = t /\ dr'[d].from = l.from
             /\ dr'[d].round = l.round
  BY <1>0, <1>2 DEF DraftGoto, DrafterLocal
<1>3. ASSUME NextDraft(d) PROVE dr'[d].pc = "next"
  BY <1>0, <1>3 DEF NextDraft, IdleDrafter
<1>4. ASSUME UNCHANGED convVars PROVE UNCHANGED <<tstate, transitions>>
  BY <1>4 DEF convVars, dbVars
\* The run goes on from the state it has read, or in drafted.
<1>5. ASSUME UNCHANGED convVars, NEW pc, DraftGoto(d, pc),
             \/ pc \in {"cap", "enter", "hop"} /\ tstate[t] = l.from
             \/ pc = "round" /\ l.round = 0 /\ tstate[t] = l.from
             \/ pc \in {"persist", "finish"} /\ tstate[t] = "drafted"
      PROVE  Goal
  BY <1>2, <1>4, <1>5, QuietTrail DEF DraftKnows, DraftDue
<1>6. ASSUME NEW from \in State, NEW to \in State, UpdateState(t, from, to), tstate[t] = from,
             UNCHANGED transitions, DraftDue(dr[d])' = {[from |-> from, to |-> to]},
             dr'[d].pc \in {"hopaudit", "finishaudit", "failaudit"}, dr'[d].tgt = t
      PROVE  Goal
  <2>1. [from |-> from, to |-> to] \in RowsDue(t)'
    BY <1>0, <1>6, DueRows
  <2>2. TrailStep /\ tstate'[t] = to
    BY <1>0, <1>6, <2>1, MovesTrail
  <2>3. QED BY <1>6, <2>2 DEF DraftKnows
<1>7. ASSUME NEW from \in State, NEW to \in State, InsertTransition(t, from, to),
             UNCHANGED tstate, DraftDue(l) = {[from |-> from, to |-> to]}
      PROVE  TrailStep /\ tstate'[t] = to
  <2>1. tstate[t] = to
    BY <1>7 DEF DraftKnows
  <2>2. [from |-> from, to |-> to] \in RowsDue(t)
    BY <1>0, <1>7, DueRows
  <2>3. QED BY <1>0, <1>7, <2>1, <2>2, RecordsTrail
<1>8. PICK src \in State : src = l.from
  BY <1>0
<1>9. CASE SelectDrafts(d) \/ EndDrafts(d) \/ CutDraft(d)
  <2>1. dr'[d].pc \in {"idle", "next"}
    BY <1>0, <1>9 DEF SelectDrafts, EndDrafts, CutDraft, IdleDrafter, DrafterLocal
  <2>2. QED BY <1>1, <1>4, <1>9, <2>1 DEF SelectDrafts, EndDrafts, CutDraft
<1>10. CASE ReadDraftTarget(d)
  <2>1. PICK u \in l.queue :
           \/ /\ tstate[u] = "scored"
              /\ dr' = [dr EXCEPT ![d].pc = "enter", ![d].queue = @ \ {u},
                                  ![d].tgt = u, ![d].from = tstate[u]]
           \/ /\ tstate[u] = "routed"
              /\ dr' = [dr EXCEPT ![d].pc = "reply", ![d].queue = @ \ {u},
                                  ![d].tgt = u, ![d].from = tstate[u]]
           \/ dr' = [dr EXCEPT ![d].queue = @ \ {u}]
    BY <1>10, ReadsTarget
  <2>2. UNCHANGED <<tstate, transitions>> /\ l.pc = "next"
    BY <1>4, <1>10 DEF ReadDraftTarget, DraftAt
  <2>3. \/ dr'[d].pc \in {"enter", "reply"} /\ dr'[d].tgt = u /\ dr'[d].from = tstate[u]
        \/ dr'[d].pc = "next"
    BY <1>0, <2>1, <2>2 DEF DrafterLocal
  <2>4. QED BY <1>1, <2>2, <2>3, QuietTrail DEF DraftKnows, DraftDue
<1>11. CASE ReadReply(d) \/ CheckCap(d) \/ EnterLoop(d)
  <2>1. \/ NextDraft(d)
        \/ l.pc \in {"reply", "cap"} /\ \E pc \in {"cap", "enter"} : DraftGoto(d, pc)
        \/ l.pc = "enter" /\ DraftGoto(d, "round")
    BY <1>11 DEF ReadReply, CheckCap, EnterLoop, RefuseDraft, DraftAt
  <2>2. UNCHANGED convVars
    BY <1>11 DEF ReadReply, CheckCap, EnterLoop, RefuseDraft
  <2>3. /\ l.pc \in {"reply", "cap", "enter"} => tstate[t] = l.from
        /\ l.pc = "enter" => l.round = 0
    BY DEF DraftKnows, DraftOwes
  <2>4. QED BY <1>1, <1>3, <1>4, <1>5, <2>1, <2>2, <2>3
<1>12. CASE Answer(d)
  <2>1. /\ UNCHANGED convVars
        /\ \/ NextDraft(d)
           \/ l.round = 0 /\ DraftGoto(d, "hop")
           \/ l.round # 0 /\ \E pc \in {"persist", "finish"} : DraftGoto(d, pc)
    BY <1>0, <1>12 DEF Answer
  <2>2. tstate[t] = IF l.round = 0 THEN l.from ELSE "drafted"
    BY <1>12 DEF Answer, DraftAt, DraftKnows
  <2>3. QED BY <1>1, <1>3, <1>4, <1>5, <2>1, <2>2
<1>13. CASE MoveDrafted(d)
  <2>1. dr'[d].pc = "hopaudit" /\ dr'[d].tgt = t /\ dr'[d].from = src
    BY <1>2, <1>8, <1>13 DEF MoveDrafted
  <2>2. DraftDue(dr[d])' = {[from |-> src, to |-> "drafted"]}
    BY <2>1 DEF DraftDue
  <2>3. UpdateState(t, src, "drafted") /\ UNCHANGED transitions /\ tstate[t] = src
    BY <1>8, <1>13 DEF MoveDrafted, DraftAt, DraftKnows
  <2>4. QED BY <1>6, <2>1, <2>2, <2>3 DEF State
<1>14. CASE AuditDrafted(d)
  <2>1. InsertTransition(t, src, "drafted") /\ UNCHANGED tstate /\ l.pc = "hopaudit"
    BY <1>8, <1>14 DEF AuditDrafted, DraftAt
  <2>2. DraftDue(l) = {[from |-> src, to |-> "drafted"]}
    BY <1>8, <2>1 DEF DraftDue
  <2>3. TrailStep /\ tstate'[t] = "drafted"
    BY <1>7, <2>1, <2>2 DEF State
  <2>4. dr'[d].pc = "persist" /\ dr'[d].tgt = t
    BY <1>2, <1>14 DEF AuditDrafted
  <2>5. QED BY <2>3, <2>4 DEF DraftKnows, DraftDue
<1>15. CASE InsertDraft(d)
  <2>1. PICK pc \in {"round", "finish"} :
            dr' = [dr EXCEPT ![d].pc = pc, ![d].round = @ + 1]
    BY <1>15 DEF InsertDraft
  <2>2. dr'[d].pc = pc /\ dr'[d].tgt = t /\ dr'[d].round = l.round + 1
    BY <1>0, <2>1 DEF DrafterLocal
  <2>3. UNCHANGED <<tstate, transitions>> /\ tstate[t] = "drafted"
    BY <1>15 DEF InsertDraft, DraftAt, DraftKnows
  <2>4. l.round + 1 # 0
    BY <1>0
  <2>5. QED BY <2>2, <2>3, <2>4, QuietTrail DEF DraftKnows, DraftDue
<1>16. CASE MoveToReview(d)
  <2>1. dr'[d].pc = "finishaudit" /\ dr'[d].tgt = t
    BY <1>2, <1>16 DEF MoveToReview
  <2>2. DraftDue(dr[d])' = {[from |-> "drafted", to |-> "awaiting_review"]}
    BY <2>1 DEF DraftDue
  <2>3. UpdateState(t, "drafted", "awaiting_review") /\ UNCHANGED transitions
        /\ tstate[t] = "drafted"
    BY <1>16 DEF MoveToReview, DraftAt, DraftKnows
  <2>4. QED BY <1>6, <2>1, <2>2, <2>3 DEF State
<1>17. CASE AuditToReview(d)
  <2>1. InsertTransition(t, "drafted", "awaiting_review") /\ UNCHANGED tstate
        /\ l.pc = "finishaudit"
    BY <1>17 DEF AuditToReview, DraftAt
  <2>2. DraftDue(l) = {[from |-> "drafted", to |-> "awaiting_review"]}
    BY <2>1 DEF DraftDue
  <2>3. TrailStep
    BY <1>7, <2>1, <2>2 DEF State
  <2>4. dr'[d].pc = "latest"
    BY <1>2, <1>17 DEF AuditToReview
  <2>5. QED BY <2>3, <2>4 DEF DraftKnows, DraftDue
<1>18. CASE PickLatest(d) \/ JudgeDraft(d)
  <2>1. dr'[d].pc \in {"next", "verdict"}
    BY <1>0, <1>3, <1>18 DEF PickLatest, JudgeDraft, DrafterLocal
  <2>2. UNCHANGED <<tstate, transitions>>
    BY <1>18 DEF PickLatest, JudgeDraft, convVars, dbVars
  <2>3. QED BY <1>1, <2>1, <2>2
<1>19. CASE RaiseInDraft(d) \/ RaiseInDraftHandler(d)
  <2>1. dr'[d].pc \in {"next", "died"}
    BY <1>0, <1>3, <1>19 DEF RaiseInDraft, RaiseInDraftHandler, DrafterLocal
  <2>2. QED BY <1>1, <1>4, <1>19, <2>1 DEF RaiseInDraft, RaiseInDraftHandler
<1>20. CASE ReadDraftDied(d)
  <2>1. /\ dr'[d].pc = "failmove" /\ dr'[d].tgt = t /\ dr'[d].from = tstate[t]
        /\ UNCHANGED <<tstate, transitions>>
    BY <1>0, <1>4, <1>20 DEF ReadDraftDied, DrafterLocal
  <2>2. QED BY <2>1, QuietTrail DEF DraftKnows, DraftDue
<1>21. CASE MoveDraftFailed(d)
  <2>1. dr'[d].pc = "failaudit" /\ dr'[d].tgt = t /\ dr'[d].from = src
    BY <1>2, <1>8, <1>21 DEF MoveDraftFailed
  <2>2. DraftDue(dr[d])' = {[from |-> src, to |-> "failed"]}
    BY <2>1 DEF DraftDue
  <2>3. UpdateState(t, src, "failed") /\ UNCHANGED transitions /\ tstate[t] = src
    BY <1>8, <1>21 DEF MoveDraftFailed, DraftAt, DraftKnows
  <2>4. QED BY <1>6, <2>1, <2>2, <2>3 DEF State
<1>22. CASE AuditDraftFailed(d)
  <2>1. InsertTransition(t, src, "failed") /\ UNCHANGED tstate /\ l.pc = "failaudit"
    BY <1>8, <1>22 DEF AuditDraftFailed, DraftAt
  <2>2. DraftDue(l) = {[from |-> src, to |-> "failed"]}
    BY <1>8, <2>1 DEF DraftDue
  <2>3. TrailStep
    BY <1>7, <2>1, <2>2 DEF State
  <2>4. dr'[d].pc = "next"
    BY <1>3, <1>22 DEF AuditDraftFailed
  <2>5. QED BY <2>3, <2>4 DEF DraftKnows, DraftDue
<1>23. QED
  BY <1>9, <1>10, <1>11, <1>12, <1>13, <1>14, <1>15, <1>16, <1>17, <1>18, <1>19, <1>20,
     <1>21, <1>22 DEF DraftStep

\* A reply batch.
LEMMA ReplyTrail ==
  ASSUME ListInv, RowTypes, NEW p \in Replier, ReplyKnows(rp[p]), ReplyStep(p)
  PROVE  TrailStep /\ ReplyKnows(rp[p])'
<1> DEFINE l == rp[p]
           t == l.tgt
           Goal == TrailStep /\ ReplyKnows(rp[p])'
           Quiet == {"idle", "fetch", "linked", "next", "enter", "model", "route", "died"}
<1>0. /\ l \in ReplierLocal /\ rp \in [Replier -> ReplierLocal] /\ t \in Target
      /\ l.st \in State /\ tstate \in [Target -> State] /\ tstate[t] \in State
  BY DEF ListInv, ListTypes, ReplyingTypeOK, ReplierLocal
<1>1. ASSUME UNCHANGED <<tstate, transitions>>, rp'[p].pc \in Quiet PROVE Goal
  BY <1>1, QuietTrail DEF ReplyKnows, ReplyDue
<1>2. ASSUME NEW pc, ReplyGoto(p, pc)
      PROVE  rp'[p].pc = pc /\ rp'[p].tgt = t /\ rp'[p].st = l.st
  BY <1>0, <1>2 DEF ReplyGoto, ReplierLocal
<1>3. ASSUME NextReply(p) PROVE rp'[p].pc = "next"
  BY <1>0, <1>3 DEF NextReply, IdleReplier
<1>4. ASSUME UNCHANGED convVars PROVE UNCHANGED <<tstate, transitions>>
  BY <1>4 DEF convVars, dbVars
<1>5. ASSUME UNCHANGED dbVars PROVE UNCHANGED <<tstate, transitions>>
  BY <1>5 DEF dbVars
<1>6. ASSUME NEW from \in State, NEW to \in State, UpdateState(t, from, to), tstate[t] = from,
             UNCHANGED transitions, ReplyDue(rp[p])' = {[from |-> from, to |-> to]},
             rp'[p].pc \in {"linkaudit", "routedaudit", "suppaudit", "failaudit"},
             rp'[p].tgt = t
      PROVE  Goal
  <2>1. [from |-> from, to |-> to] \in RowsDue(t)'
    BY <1>0, <1>6, DueRows
  <2>2. TrailStep /\ tstate'[t] = to
    BY <1>0, <1>6, <2>1, MovesTrail
  <2>3. QED BY <1>6, <2>2 DEF ReplyKnows
<1>7. ASSUME NEW from \in State, NEW to \in State, InsertTransition(t, from, to),
             UNCHANGED tstate, ReplyDue(l) = {[from |-> from, to |-> to]}
      PROVE  TrailStep /\ tstate'[t] = to
  <2>1. tstate[t] = to
    BY <1>7 DEF ReplyKnows
  <2>2. [from |-> from, to |-> to] \in RowsDue(t)
    BY <1>0, <1>7, DueRows
  <2>3. QED BY <1>0, <1>7, <2>1, <2>2, RecordsTrail
<1>8. PICK st \in State : st = l.st
  BY <1>0
\* What the router has read goes with it to the effect of an unsubscribe.
<1>9. ASSUME UNCHANGED <<tstate, transitions>>, rp'[p].tgt = t, rp'[p].st = tstate[t],
             rp'[p].pc \in {"verdict", "listed", "unsubscribe", "supp", "failmove"}
      PROVE  Goal
  BY <1>9, QuietTrail DEF ReplyKnows, ReplyDue
<1>10. CASE StartReplies(p) \/ EndReplies(p) \/ CutReplies(p) \/ PickReply(p)
  <2>1. PickReply(p) => rp'[p].pc = "enter"
    BY <1>0 DEF PickReply, IdleReplier
  <2>2. StartReplies(p) \/ EndReplies(p) \/ CutReplies(p) => rp'[p].pc \in {"fetch", "idle"}
    BY <1>0 DEF StartReplies, EndReplies, CutReplies, IdleReplier, ReplierLocal
  <2>3. rp'[p].pc \in Quiet
    BY <1>10, <2>1, <2>2
  <2>4. QED BY <1>1, <1>4, <1>10, <2>3 DEF StartReplies, EndReplies, CutReplies, PickReply
<1>11. CASE FetchFile(p)
  <2>1. l.pc = "fetch" /\ UNCHANGED dbVars
    BY <1>11 DEF FetchFile, ReplyAt
  <2>2. rp'[p].pc \in Quiet
    BY <1>0, <1>11, <2>1 DEF FetchFile, ReplierLocal
  <2>3. QED BY <1>1, <1>5, <2>1, <2>2
<1>12. CASE EndFetch(p) \/ EnterPipeline(p) \/ Classify(p) \/ RaiseInReply(p) \/ RaiseInReplyHandler(p)
  <2>1. rp'[p].pc \in Quiet
    BY <1>0, <1>2, <1>3, <1>12 DEF EndFetch, EnterPipeline, Classify, RaiseInReply,
       RaiseInReplyHandler, ReplierLocal
  <2>2. QED
    BY <1>1, <1>4, <1>12, <2>1 DEF EndFetch, EnterPipeline, Classify, RaiseInReply,
       RaiseInReplyHandler
<1>13. CASE ReadLinked(p)
  <2>1. UNCHANGED <<tstate, transitions>> /\ rp'[p].tgt = t
        /\ rp'[p].pc = IF tstate[t] = "dry_run_sent" THEN "link" ELSE "fetch"
    BY <1>2, <1>4, <1>13 DEF ReadLinked
  <2>2. QED BY <1>1, <2>1, QuietTrail DEF ReplyKnows, ReplyDue
<1>14. CASE MoveReplied(p)
  <2>1. rp'[p].pc = "linkaudit" /\ rp'[p].tgt = t
    BY <1>2, <1>14 DEF MoveReplied
  <2>2. ReplyDue(rp[p])' = {[from |-> "dry_run_sent", to |-> "replied"]}
    BY <2>1 DEF ReplyDue
  <2>3. UpdateState(t, "dry_run_sent", "replied") /\ UNCHANGED transitions
        /\ tstate[t] = "dry_run_sent"
    BY <1>14 DEF MoveReplied, ReplyAt, ReplyKnows
  <2>4. QED BY <1>6, <2>1, <2>2, <2>3 DEF State
<1>15. CASE AuditReplied(p)
  <2>1. InsertTransition(t, "dry_run_sent", "replied") /\ UNCHANGED tstate
        /\ l.pc = "linkaudit"
    BY <1>15 DEF AuditReplied, ReplyAt
  <2>2. ReplyDue(l) = {[from |-> "dry_run_sent", to |-> "replied"]}
    BY <2>1 DEF ReplyDue
  <2>3. TrailStep
    BY <1>7, <2>1, <2>2 DEF State
  <2>4. rp'[p].pc = "fetch"
    BY <1>2, <1>15 DEF AuditReplied
  <2>5. QED BY <2>3, <2>4 DEF ReplyKnows, ReplyDue
<1>16. CASE ReadRoute(p) \/ ReadReplyDied(p)
  <2>1. /\ rp'[p].pc \in {"verdict", "failmove"} /\ rp'[p].tgt = t /\ rp'[p].st = tstate[t]
        /\ UNCHANGED <<tstate, transitions>>
    BY <1>0, <1>4, <1>16 DEF ReadRoute, ReadReplyDied, ReplierLocal
  <2>2. QED BY <1>9, <2>1
<1>17. CASE RecordVerdict(p)
  <2>1. /\ UNCHANGED <<tstate, transitions>> /\ tstate[t] = l.st
    BY <1>5, <1>17 DEF RecordVerdict, ReplyAt, ReplyKnows
  <2>2. \/ l.st = "replied" /\ ReplyGoto(p, "routed")
        \/ ReplyGoto(p, "next") \/ ReplyGoto(p, "listed")
    BY <1>17 DEF RecordVerdict, AfterRouting
  <2>3. \/ l.st = "replied" /\ rp'[p].pc = "routed"
        \/ rp'[p].pc = "next" \/ rp'[p].pc = "listed"
    BY <1>2, <2>2
  <2>4. rp'[p].tgt = t /\ rp'[p].st = l.st
    BY <1>2, <2>2
  <2>5. CASE rp'[p].pc = "routed" /\ l.st = "replied"
    BY <2>1, <2>4, <2>5, QuietTrail DEF ReplyKnows, ReplyDue
  <2>6. QED BY <1>1, <1>9, <2>1, <2>3, <2>4, <2>5
<1>18. CASE MoveRouted(p)
  <2>1. rp'[p].pc = "routedaudit" /\ rp'[p].tgt = t
    BY <1>2, <1>18 DEF MoveRouted
  <2>2. ReplyDue(rp[p])' = {[from |-> "replied", to |-> "routed"]}
    BY <2>1 DEF ReplyDue
  <2>3. UpdateState(t, "replied", "routed") /\ UNCHANGED transitions /\ tstate[t] = "replied"
    BY <1>18 DEF MoveRouted, ReplyAt, ReplyKnows
  <2>4. QED BY <1>6, <2>1, <2>2, <2>3 DEF State
<1>19. CASE AuditRouted(p)
  <2>1. InsertTransition(t, "replied", "routed") /\ UNCHANGED tstate /\ l.pc = "routedaudit"
    BY <1>19 DEF AuditRouted, ReplyAt
  <2>2. ReplyDue(l) = {[from |-> "replied", to |-> "routed"]}
    BY <2>1 DEF ReplyDue
  <2>3. TrailStep /\ tstate'[t] = "routed"
    BY <1>7, <2>1, <2>2 DEF State
  <2>4. rp'[p].pc \in {"next", "listed"} /\ rp'[p].tgt = t /\ rp'[p].st = "routed"
    BY <1>0, <1>19 DEF AuditRouted, AfterRouting, ReplierLocal
  <2>5. QED BY <2>3, <2>4 DEF ReplyKnows, ReplyDue
<1>20. CASE CheckReplyListed(p) \/ InsertUnsubscribe(p)
  <2>1. /\ UNCHANGED <<tstate, transitions>> /\ tstate[t] = l.st
        /\ \E pc \in {"supp", "unsubscribe"} : ReplyGoto(p, pc)
    BY <1>4, <1>20 DEF CheckReplyListed, InsertUnsubscribe, ReplyAt, ReplyKnows
  <2>2. QED BY <1>2, <1>9, <2>1
<1>21. CASE MoveSuppressed(p)
  <2>1. rp'[p].pc = "suppaudit" /\ rp'[p].tgt = t /\ rp'[p].st = st
    BY <1>2, <1>8, <1>21 DEF MoveSuppressed
  <2>2. ReplyDue(rp[p])' = {[from |-> st, to |-> "suppressed"]}
    BY <2>1 DEF ReplyDue
  <2>3. UpdateState(t, st, "suppressed") /\ UNCHANGED transitions /\ tstate[t] = st
    BY <1>8, <1>21 DEF MoveSuppressed, ReplyAt, ReplyKnows
  <2>4. QED BY <1>6, <2>1, <2>2, <2>3 DEF State
<1>22. CASE MoveReplyFailed(p)
  <2>1. rp'[p].pc = "failaudit" /\ rp'[p].tgt = t /\ rp'[p].st = st
    BY <1>2, <1>8, <1>22 DEF MoveReplyFailed
  <2>2. ReplyDue(rp[p])' = {[from |-> st, to |-> "failed"]}
    BY <2>1 DEF ReplyDue
  <2>3. UpdateState(t, st, "failed") /\ UNCHANGED transitions /\ tstate[t] = st
    BY <1>8, <1>22 DEF MoveReplyFailed, ReplyAt, ReplyKnows
  <2>4. QED BY <1>6, <2>1, <2>2, <2>3 DEF State
<1>23. CASE AuditSuppressed(p)
  <2>1. InsertTransition(t, st, "suppressed") /\ UNCHANGED tstate /\ l.pc = "suppaudit"
    BY <1>8, <1>23 DEF AuditSuppressed, ReplyAt
  <2>2. ReplyDue(l) = {[from |-> st, to |-> "suppressed"]}
    BY <1>8, <2>1 DEF ReplyDue
  <2>3. TrailStep
    BY <1>7, <2>1, <2>2 DEF State
  <2>4. rp'[p].pc = "next"
    BY <1>3, <1>23 DEF AuditSuppressed
  <2>5. QED BY <2>3, <2>4 DEF ReplyKnows, ReplyDue
<1>24. CASE AuditReplyFailed(p)
  <2>1. InsertTransition(t, st, "failed") /\ UNCHANGED tstate /\ l.pc = "failaudit"
    BY <1>8, <1>24 DEF AuditReplyFailed, ReplyAt
  <2>2. ReplyDue(l) = {[from |-> st, to |-> "failed"]}
    BY <1>8, <2>1 DEF ReplyDue
  <2>3. TrailStep
    BY <1>7, <2>1, <2>2 DEF State
  <2>4. rp'[p].pc = "next"
    BY <1>3, <1>24 DEF AuditReplyFailed
  <2>5. QED BY <2>3, <2>4 DEF ReplyKnows, ReplyDue
<1>25. QED
  BY <1>10, <1>11, <1>12, <1>13, <1>14, <1>15, <1>16, <1>17, <1>18, <1>19, <1>20, <1>21,
     <1>22, <1>23, <1>24 DEF ReplyStep

-----------------------------------------------------------------------------
LEMMA TrailInit == Init => TrailInv
BY DEF Init, TrailInv, ReviewInit, SendingInit, DraftingInit, ReplyingInit, IdleReviewer,
   IdleSender, IdleDrafter, IdleReplier, ReviewKnows, SendKnows, DraftKnows, ReplyKnows,
   ReviewDue, SendDue, DraftDue, ReplyDue

LEMMA TrailNext ==
  ASSUME OneStage, SerialReviews, SerialSends, OneDrafter, OneReplier,
         ListInv, RowTypes, ApprovalInv, TextsInv, TrailInv, [Next]_vars
  PROVE  TrailStep /\ TrailInv'
<1>1. /\ DecisionHolds /\ OneReview /\ OneSend
      /\ \A s \in Sender : SendReads(sd[s])
      /\ \A d \in Drafter : DraftOwes(dr[d])
  BY DEF ApprovalInv, TextsInv
\* A process at rest knows nothing that could be wrong.
<1>2. /\ \A r \in Reviewer : rv'[r].pc = "idle" => ReviewKnows(rv[r])'
      /\ \A s \in Sender : sd'[s].pc = "idle" => SendKnows(sd[s])'
      /\ \A d \in Drafter : dr'[d].pc = "idle" => DraftKnows(dr[d])'
      /\ \A p \in Replier : rp'[p].pc = "idle" => ReplyKnows(rp[p])'
  BY DEF ReviewKnows, SendKnows, DraftKnows, ReplyKnows, ReviewDue, SendDue, DraftDue, ReplyDue
<1>3. /\ NoReview /\ UNCHANGED rv => \A r \in Reviewer : ReviewKnows(rv[r])'
      /\ NoSend /\ UNCHANGED sd => \A s \in Sender : SendKnows(sd[s])'
      /\ NoDraft /\ UNCHANGED dr => \A d \in Drafter : DraftKnows(dr[d])'
      /\ NoReply /\ UNCHANGED rp => \A p \in Replier : ReplyKnows(rp[p])'
  BY <1>2 DEF NoReview, NoSend, NoDraft, NoReply, At, SendAt, DraftAt, ReplyAt
<1>4. ASSUME UNCHANGED <<tstate, transitions, rv, sd, dr, rp>> PROVE TrailStep /\ TrailInv'
  BY <1>4, QuietTrail DEF TrailInv, ReviewKnows, SendKnows, DraftKnows, ReplyKnows,
     ReviewDue, SendDue, DraftDue, ReplyDue
<1>5. CASE UNCHANGED vars
  BY <1>4, <1>5 DEF vars, convVars, dbVars
<1>6. CASE FlipSwitch \/ \E t \in Target : Arrive(t)
  BY <1>4, <1>6 DEF FlipSwitch, Arrive, dbVars
<1>7. ASSUME NEW r \in Reviewer, ReviewTurn(r) PROVE TrailStep /\ TrailInv'
  <2>1. ReviewStep(r) /\ UNCHANGED <<sd, dr, rp>> /\ NoSend /\ NoDraft /\ NoReply
    BY <1>7 DEF ReviewTurn
  <2>2. TrailStep /\ ReviewKnows(rv[r])'
    BY <1>1, <2>1, ReviewTrail DEF TrailInv
  <2>3. \A q \in Reviewer \ {r} : ReviewKnows(rv[q])'
    BY <1>1, <1>2, <2>1, ReviewAlone
  <2>4. QED BY <1>3, <2>1, <2>2, <2>3 DEF TrailInv
<1>8. ASSUME NEW s \in Sender, SendTurn(s) PROVE TrailStep /\ TrailInv'
  <2>1. SendStep(s) /\ UNCHANGED <<rv, dr, rp>> /\ NoReview /\ NoDraft /\ NoReply
    BY <1>8 DEF SendTurn
  <2>2. TrailStep /\ SendKnows(sd[s])'
    BY <1>1, <2>1, SendTrail DEF TrailInv
  <2>3. \A q \in Sender \ {s} : SendKnows(sd[q])'
    BY <1>1, <1>2, <2>1, SendOthers
  <2>4. QED BY <1>3, <2>1, <2>2, <2>3 DEF TrailInv
<1>9. ASSUME NEW d \in Drafter, DraftTurn(d) PROVE TrailStep /\ TrailInv'
  <2>1. DraftStep(d) /\ UNCHANGED <<rv, sd, rp>> /\ NoReview /\ NoSend /\ NoReply
    BY <1>9 DEF DraftTurn
  <2>2. TrailStep /\ DraftKnows(dr[d])'
    BY <1>1, <2>1, DraftTrail DEF TrailInv
  <2>3. \A e \in Drafter : DraftKnows(dr[e])'
    BY <2>2 DEF OneDrafter
  <2>4. QED BY <1>3, <2>1, <2>2, <2>3 DEF TrailInv
<1>10. ASSUME NEW p \in Replier, ReplyTurn(p) PROVE TrailStep /\ TrailInv'
  <2>1. ReplyStep(p) /\ UNCHANGED <<rv, sd, dr>> /\ NoReview /\ NoSend /\ NoDraft
    BY <1>10 DEF ReplyTurn
  <2>2. TrailStep /\ ReplyKnows(rp[p])'
    BY <1>1, <2>1, ReplyTrail DEF TrailInv
  <2>3. \A q \in Replier : ReplyKnows(rp[q])'
    BY <2>2 DEF OneReplier
  <2>4. QED BY <1>3, <2>1, <2>2, <2>3 DEF TrailInv
<1>11. QED BY <1>5, <1>6, <1>7, <1>8, <1>9, <1>10 DEF Next

\* With one process of each kind and stages that take turns, every change of a
\* state is along the table and has its row coming, which tells the truth if it
\* is written: a state without a row is the work of a process that failed or was
\* cut off between the two commits.
THEOREM TrailIsTrue ==
  ASSUME OneStage, SerialReviews, SerialSends, OneDrafter, OneReplier
  PROVE  Spec => TrailFollowsState
<1>1. ListInv /\ RowTypes /\ ApprovalInv /\ TextsInv /\ TrailInv /\ [Next]_vars => TrailInv'
  BY TrailNext
<1>2. ListInv /\ RowTypes /\ ApprovalInv /\ TextsInv /\ TrailInv /\ [Next]_vars
          => [TrailStep]_vars
  BY TrailNext
<1>3. Spec => [][TrailStep]_vars
  BY <1>1, <1>2, TrailInit, ListInvariance, RowsAreTyped, ApprovalInvariance,
     TextsInvariance, PTL DEF Spec
<1>4. QED BY <1>3 DEF TrailFollowsState, TrailStep
=============================================================================
