---------------------------- MODULE TargetSettlement ----------------------------
(***************************************************************************)
(* What the finalization of a coverage plan promises for every target: its *)
(* ordered choices are tried one after the other, each at most once, until *)
(* one is admitted or all were rejected.  A settled target stays settled.  *)
(*                                                                         *)
(*   tried    how many of the target's ordered choices were attempted;     *)
(*   verdict  "open" between two attempts, "trying" during one, then       *)
(*            "admitted" or "exhausted".                                   *)
(***************************************************************************)
EXTENDS Naturals

CONSTANTS Targets, Choices      \* Choices[t]: length of the ordered queue of t

VARIABLES tried, verdict

vars == <<tried, verdict>>

Verdicts == {"open", "trying", "admitted", "exhausted"}

Init ==
  /\ tried = [t \in Targets |-> 0]
  /\ verdict = [t \in Targets |-> "open"]

Try(t) ==
  /\ verdict[t] = "open" /\ tried[t] < Choices[t]
  /\ tried' = [tried EXCEPT ![t] = @ + 1]
  /\ verdict' = [verdict EXCEPT ![t] = "trying"]

Admit(t) ==
  /\ verdict[t] = "trying"
  /\ verdict' = [verdict EXCEPT ![t] = "admitted"]
  /\ UNCHANGED tried

Reject(t) ==
  /\ verdict[t] = "trying"
  /\ verdict' = [verdict EXCEPT ![t] = "open"]
  /\ UNCHANGED tried

Exhaust(t) ==
  /\ verdict[t] = "open" /\ tried[t] = Choices[t]
  /\ verdict' = [verdict EXCEPT ![t] = "exhausted"]
  /\ UNCHANGED tried

Next == \E t \in Targets : Try(t) \/ Admit(t) \/ Reject(t) \/ Exhaust(t)

Spec == Init /\ [][Next]_vars

\* No target is given up on: as long as one is not settled, something happens.
FairSpec == Spec /\ WF_vars(Next)
================================================================================
