--------------------------- MODULE MCCandidateAttempt ---------------------------
(***************************************************************************)
(* TLC instance of CandidateAttempt: reports of the two deterministic      *)
(* checks.  A report names one owner, mixes two owners, or contains a      *)
(* violation no generated stage owns.                                      *)
(***************************************************************************)
EXTENDS CandidateAttempt

Owned(s) == [owner |-> s, retryable |-> TRUE, length |-> FALSE]
Unowned == [owner |-> NoOwner, retryable |-> FALSE, length |-> FALSE]

MCPrebehaviorReports == {{}, {Owned(Tree)}, {Owned(Actor), Owned(Tree)}, {Owned(Tree), Unowned}}
MCAdmissionReports ==
  {{}, {Owned(Behavior)}, {Owned(Behavior), Owned(Tree)}, {Owned(Actor), Unowned}}
================================================================================
