----------------------------- MODULE MCSendMonitor ----------------------------
(***************************************************************************)
(* Small instances of the send path with its history variables.            *)
(***************************************************************************)
EXTENDS MCSendPath, SendMonitor

\* The VIEW of the instances.
ReadableAndWatched == <<Readable, late, cut>>
=============================================================================
