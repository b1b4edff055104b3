------------------------------ MODULE MCBooking -----------------------------
(***************************************************************************)
(* Small instances of meeting scheduling.                                  *)
(***************************************************************************)
EXTENDS BookingInvariants, TLC

\* Processes and targets are interchangeable, and no property of the runs is a
\* liveness property.
BookingSymmetry == Permutations(Conn) \cup Permutations(Target)
=============================================================================
