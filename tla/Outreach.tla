------------------------------ MODULE Outreach ------------------------------
(***************************************************************************)
(* What the review and send stages promise of a target, whatever processes *)
(* take part: its state moves only along the transition table, a message   *)
(* is recorded for it only while it is approved, and it is dry_run_sent    *)
(* only when one was.                                                      *)
(***************************************************************************)
EXTENDS StateMachine

CONSTANT Target

VARIABLES
    tstate,     \* the state of each target
    delivered   \* targets with a recorded message

Init == tstate \in [Target -> State] /\ delivered = {}

Deliver(t) ==
    /\ tstate[t] = "approved"
    /\ delivered' = delivered \cup {t}
    /\ UNCHANGED tstate

Move(t, to) ==
    /\ IsValid(tstate[t], to)
    /\ to = "dry_run_sent" => t \in delivered
    /\ tstate' = [tstate EXCEPT ![t] = to]
    /\ UNCHANGED delivered

Next == \E t \in Target : Deliver(t) \/ \E to \in State : Move(t, to)

Spec == Init /\ [][Next]_<<tstate, delivered>>
=============================================================================
