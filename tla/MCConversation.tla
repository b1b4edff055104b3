--------------------------- MODULE MCConversation ---------------------------
(***************************************************************************)
(* Small instances of the conversation cycle, with one process of each     *)
(* kind.                                                                   *)
(***************************************************************************)
EXTENDS Conversation, TLC

CONSTANTS t1, t2, d1

OneTarget == {t1}
TwoTargets == {t1, t2}
OneDomain == {d1}
MCDomainOf == [t \in Target |-> d1]

\* What the actions and the properties read of the growing tables: the number
\* of follow-ups, the number of review and gate rows with the latest review,
\* and who was sent which text.
Readable == <<tstate, [t \in Target |-> FollowUps(t)], revisions,
              [t \in Target |-> <<Len(reviews[t]),
                                  {LatestReview(t) : i \in DOMAIN reviews[t]}>>],
              emailSupp, domainSupp, killFile, profile, Len(gateLog),
              {<<m.target, m.revision>> : m \in messages}, replies, inbox, rv, sd, dr, rp>>
=============================================================================
