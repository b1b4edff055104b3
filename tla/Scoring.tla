------------------------------ MODULE Scoring -------------------------------
(***************************************************************************)
(* The fit score of a target: pure arithmetic on what the models extracted *)
(* and on the imported contact.  Confidences and strengths are probabilities*)
(* in tenths.  A list of signals is abstracted to a function on the types   *)
(* it has, giving the strengths of the signals of the type added up.        *)
(***************************************************************************)
EXTENDS Integers

SignalType == {"hiring_relevant_role", "product_or_ops_change",
               "recent_launch_or_expansion", "workflow_complexity_evidence"}

\* summary, industry, size: whether the field is filled in.
CompanyProfile == [summary : BOOLEAN, industry : BOOLEAN, size : BOOLEAN,
                   confidence : 0..10]

IsSignalList(s) == DOMAIN s \subseteq SignalType /\ \A t \in DOMAIN s : s[t] \in Nat

FitLabel == {"strong_fit", "good_fit", "watchlist", "not_target"}

\* The four disjoint cases of a label, by its lowest score.
STRONG_FIT_THRESHOLD == 80
GOOD_FIT_THRESHOLD == 60
WATCHLIST_THRESHOLD == 40

-----------------------------------------------------------------------------
AtMost(n, cap) == IF n > cap THEN cap ELSE n

\* round() of tenths: a half goes to the even neighbour.
Rounded(tenths) ==
    LET whole == tenths \div 10
        rest == tenths % 10
    IN  IF rest > 5 \/ (rest = 5 /\ whole % 2 = 1) THEN whole + 1 ELSE whole

Strength(signals, type) ==
    IF type \in DOMAIN signals THEN signals[type] ELSE 0

CompanyFitScore(profile) ==
    AtMost((IF profile.industry THEN 10 ELSE 0) + (IF profile.size THEN 10 ELSE 0)
               + profile.confidence, 30)

PersonaFitScore(contact) == IF contact THEN 15 ELSE 0

SignalScore(signals) ==
    AtMost(Rounded(8 * Strength(signals, "hiring_relevant_role")
                   + 7 * Strength(signals, "product_or_ops_change")
                   + 5 * Strength(signals, "recent_launch_or_expansion")
                   + 5 * Strength(signals, "workflow_complexity_evidence")), 25)

DataCompletenessScore(profile, contact) ==
    (IF profile.summary THEN 5 ELSE 0) + (IF contact THEN 5 ELSE 0)

EvidenceQualityScore(signals, profile) ==
    IF DOMAIN signals # {} /\ profile.confidence >= 5 THEN 10 ELSE 5

FitScore(profile, signals, contact) ==
    CompanyFitScore(profile) + PersonaFitScore(contact) + SignalScore(signals)
        + DataCompletenessScore(profile, contact)
        + EvidenceQualityScore(signals, profile)

FitLabelOf(score) ==
    CASE score >= STRONG_FIT_THRESHOLD -> "strong_fit"
      [] score >= GOOD_FIT_THRESHOLD /\ score < STRONG_FIT_THRESHOLD -> "good_fit"
      [] score >= WATCHLIST_THRESHOLD /\ score < GOOD_FIT_THRESHOLD -> "watchlist"
      [] score < WATCHLIST_THRESHOLD -> "not_target"

\* Where the routing hop puts a target with this label.
StateOf(label) == IF label \in {"watchlist", "not_target"} THEN label ELSE "scored"

-----------------------------------------------------------------------------
\* The rules of policy_check_phase1 with the kill switch open: a score below
\* the floor outranks a missing field.
POLICY_FLOOR == 60

\* Faulty: no floor.
DecisionNoFloor(profile, score) == IF profile.summary THEN "allow" ELSE "review_required"

Decision(profile, score) ==
    CASE score < POLICY_FLOOR -> "deny"
      [] score >= POLICY_FLOOR /\ ~profile.summary -> "review_required"
      [] score >= POLICY_FLOOR /\ profile.summary -> "allow"
=============================================================================
