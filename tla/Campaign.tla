------------------------------ MODULE Campaign ------------------------------
(***************************************************************************)
(* What the whole cycle promises the contact of a target: a text reaches   *)
(* it only while that text is on offer and the address is not listed, a    *)
(* second text is offered only after a follow-up has begun for it, and     *)
(* there are at most Cap follow-ups.                                       *)
(***************************************************************************)
EXTENDS Naturals, FiniteSets

CONSTANTS Target, Cap

VARIABLES
    offer,      \* the text each target is approved for, a set of at most one
    texts,      \* the texts each contact has been sent
    followUps,  \* the follow-ups begun for each target
    listed      \* targets whose contact address is suppressed

vars == <<offer, texts, followUps, listed>>

Init ==
    /\ offer = [t \in Target |-> {}]
    /\ texts = [t \in Target |-> {}]
    /\ followUps = [t \in Target |-> 0]
    /\ listed = {}

\* Any one text is offered, once every text sent was followed by a follow-up.
Approve(t) ==
    /\ offer[t] = {}
    /\ Cardinality(texts[t]) <= followUps[t]
    /\ \E text \in offer'[t] : offer' = [offer EXCEPT ![t] = {text}]
    /\ UNCHANGED <<texts, followUps, listed>>

Close(t) ==
    /\ offer' = [offer EXCEPT ![t] = {}]
    /\ UNCHANGED <<texts, followUps, listed>>

Send(t) ==
    /\ offer[t] # {} /\ t \notin listed
    /\ texts' = [texts EXCEPT ![t] = @ \cup offer[t]]
    /\ UNCHANGED <<offer, followUps, listed>>

FollowUp(t) ==
    /\ offer[t] = {} /\ followUps[t] < Cap
    /\ followUps' = [followUps EXCEPT ![t] = @ + 1]
    /\ UNCHANGED <<offer, texts, listed>>

List(t) ==
    /\ listed' = listed \cup {t}
    /\ UNCHANGED <<offer, texts, followUps>>

Next ==
    \E t \in Target :
        Approve(t) \/ Close(t) \/ Send(t) \/ FollowUp(t) \/ List(t)

Spec == Init /\ [][Next]_vars

\* A contact gets one text, and at most one more for each follow-up.
TextsCapped == \A t \in Target : Cardinality(texts[t]) <= 1 + Cap
=============================================================================
