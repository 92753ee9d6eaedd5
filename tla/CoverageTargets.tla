---------------------------- MODULE CoverageTargets ----------------------------
(***************************************************************************)
(* The coverage plan and the finalization inventory as data.               *)
(*                                                                         *)
(* A coverage plan (coverage-plan.json) gives every target an ordered      *)
(* queue of candidates.  The finalization inventory                        *)
(* (finalization-inventory.json) records which candidates were attempted   *)
(* and how each was decided.  The queue fields of the plan are never       *)
(* edited: the persistence adapter derives them from the inventory on      *)
(* every commit (DerivePlan), and the plan's own validators (QueueValid)   *)
(* accept or refuse the result.                                            *)
(***************************************************************************)
EXTENDS Naturals, Sequences, FiniteSets, SequenceSelection

CONSTANTS
  Targets,          \* coverage targets (effective_target_id)
  Candidates,       \* qualified candidates (candidate_id)
  OrderedChoices,   \* [Targets -> Seq(Candidates)], the durable queues
  MAX_TARGET_CHOICES

None == "none"      \* Python's None for a candidate id

ChoiceIds(t) == {OrderedChoices[t][i] : i \in DOMAIN OrderedChoices[t]}

\* What the plan validators demand of the queues when the plan is first built.
ASSUME ChoicesAssumption ==
  /\ MAX_TARGET_CHOICES \in Nat
  /\ None \notin Candidates
  /\ OrderedChoices \in [Targets -> Seq(Candidates)]
  /\ \A t \in Targets : Len(OrderedChoices[t]) <= MAX_TARGET_CHOICES
  /\ \A t, u \in Targets :
       \A i \in DOMAIN OrderedChoices[t], j \in DOMAIN OrderedChoices[u] :
         OrderedChoices[t][i] = OrderedChoices[u][j] => t = u /\ i = j

(***************************************************************************)
(* attempted[t] lists the CandidateAttemptRecords of target t in sequence  *)
(* order; decisions[c].outcome is "undecided" until an                     *)
(* AdmissionDecisionRecord of c is durable.                                *)
(***************************************************************************)
Decided(decisions, c) == decisions[c].outcome # "undecided"
IsAdmitted(decisions, c) == decisions[c].outcome = "admitted"

\* The attempted candidates of one target that were admitted.
AdmittedIn(queue, decisions) ==
  {i \in DOMAIN queue : IsAdmitted(decisions, queue[i])}

\* The first admitted candidate of the attempts, or None.
AdmittedId(queue, decisions) ==
  IF AdmittedIn(queue, decisions) = {} THEN None
  ELSE queue[CHOOSE i \in AdmittedIn(queue, decisions) :
               \A j \in AdmittedIn(queue, decisions) : i <= j]

TargetTerminal(queue, decisions) ==
  queue # << >> /\ \A i \in DOMAIN queue : Decided(decisions, queue[i])

\* target_state and fallback_available of one plan entry.
TargetState(t, queue, decisions) ==
  IF AdmittedId(queue, decisions) # None THEN "admitted"
  ELSE IF \/ queue = OrderedChoices[t] /\ TargetTerminal(queue, decisions)
          \/ OrderedChoices[t] = << >>
       THEN "exhausted"
       ELSE "selected"

FallbackAvailable(t, queue, decisions) ==
  IF TargetState(t, queue, decisions) = "selected"
  THEN SubSeq(OrderedChoices[t], Len(queue) + 1, Len(OrderedChoices[t]))
  ELSE << >>

DerivePlan(attempted, decisions) ==
  [t \in Targets |->
     [attempted |-> attempted[t],
      admitted  |-> AdmittedId(attempted[t], decisions),
      state     |-> TargetState(t, attempted[t], decisions),
      fallback  |-> FallbackAvailable(t, attempted[t], decisions)]]

(***************************************************************************)
(* The validators of one plan entry.  Each conjunct is a validator of      *)
(* CoverageTargetEntry that depends on mutable fields.                     *)
(***************************************************************************)
AttemptedPrefixValid(t, entry) ==
  /\ Len(entry.attempted) <= Len(OrderedChoices[t])
  /\ entry.attempted = SubSeq(OrderedChoices[t], 1, Len(entry.attempted))

AdmittedValid(t, entry) ==
  IF entry.admitted = None
  THEN entry.state # "admitted"
  ELSE /\ entry.state = "admitted"
       /\ entry.attempted # << >>
       /\ entry.attempted[Len(entry.attempted)] = entry.admitted

ExhaustedValid(t, entry) ==
  /\ OrderedChoices[t] = << >> => entry.state = "exhausted"
  /\ entry.state = "exhausted" => /\ entry.admitted = None
                                  /\ entry.attempted = OrderedChoices[t]

FallbackValid(t, entry) ==
  entry.fallback =
    IF entry.state = "admitted" THEN << >>
    ELSE Without(OrderedChoices[t], {entry.attempted[i] : i \in DOMAIN entry.attempted})

QueueValid(plan) ==
  \A t \in Targets : /\ AttemptedPrefixValid(t, plan[t])
                     /\ AdmittedValid(t, plan[t])
                     /\ ExhaustedValid(t, plan[t])
                     /\ FallbackValid(t, plan[t])
================================================================================
