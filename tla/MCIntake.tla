------------------------------ MODULE MCIntake ------------------------------
(***************************************************************************)
(* Small instances of import and research.                                 *)
(***************************************************************************)
EXTENDS IntakeInvariants, TLC

Row(d, contact) == [domain |-> d, offer |-> TRUE, flag |-> TRUE, contact |-> contact]

\* One row with and without a contact, and one that raises on its offer or on
\* its flag; two rows, of which the second raises if the domain is the same.
SomeFiles ==
    UNION {{<<Row(d, TRUE)>>, <<Row(d, FALSE)>>,
            <<[Row(d, TRUE) EXCEPT !.offer = FALSE]>>,
            <<[Row(d, TRUE) EXCEPT !.flag = FALSE]>>} : d \in Domain}
        \cup {<<Row(d, TRUE), Row(e, FALSE)>> : d, e \in Domain}

\* With the one signal list: 60 with a contact and 40 without one; 68 and 48.
Full == [summary |-> TRUE, industry |-> TRUE, size |-> TRUE, confidence |-> 2]
NoSummary == [Full EXCEPT !.summary = FALSE, !.confidence = 10]

SomeProfiles == {Full, NoSummary}
SomeSignals == {[t \in {"hiring_relevant_role"} |-> 10]}
SomeVerdicts == {"good_fit", "not_target"}

IntakeSymmetry == Permutations(Proc) \cup Permutations(Domain)
=============================================================================
