---------------------------- MODULE MCIssueRuns ----------------------------
(* Small instances of IssueRuns for TLC. *)
EXTENDS IssueRuns
=============================================================================
