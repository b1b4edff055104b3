----------------------------- MODULE MCSendPath -----------------------------
(***************************************************************************)
(* Small instances of the send path.                                       *)
(***************************************************************************)
EXTENDS SendPathInvariants, TLC

CONSTANTS t1, d1

OneTarget == {t1}
OneDomain == {d1}

\* All targets of an instance share one domain.
MCDomainOf == [t \in Target |-> d1]

\* The threads run the same code; used in runs that check invariants only.
ThreadSymmetry == Permutations(Reviewer) \cup Permutations(Sender)

\* Of a review row the actions and the properties read whether it approves, and
\* what.
ReviewsRead ==
    [t \in Target |-> [i \in DOMAIN reviews[t] |->
        <<reviews[t][i].decision \in APPROVAL_DECISIONS, reviews[t][i].revision>>]]

\* What they read of the files: those of the messages, and of the sends at work.
FilesRead ==
    <<messages \subseteq outbox, {f \in outbox : \E s \in Sender : f.step = sd[s].step}>>

\* And of the transition rows: how many decisions have moved the target; of the
\* switch: whether it is engaged.  The VIEW of the instances.
Readable ==
    <<tstate, [t \in Target |-> Cardinality(FromReview(t))], revisions, ReviewsRead, emailSupp,
      domainSupp, Engaged, profile, gateLog, FilesRead, messages, rv, sd>>
=============================================================================
