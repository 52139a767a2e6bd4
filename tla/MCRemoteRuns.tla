---------------------------- MODULE MCRemoteRuns ----------------------------
(* Small instances of RemoteRuns for TLC. *)
EXTENDS RemoteRuns

CONSTANTS r1
=============================================================================
