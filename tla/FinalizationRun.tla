---------------------------- MODULE FinalizationRun -----------------------------
(***************************************************************************)
(* run_target_finalization: one process works through the targets of the   *)
(* coverage plan, and in each target through its ordered choices, until    *)
(* every target is admitted or exhausted; a crash may end the process at   *)
(* any point, and a resume starts the loop over from the durable state.    *)
(*                                                                         *)
(* One commit of the persistence adapter is one step (FinalizationJournal  *)
(* shows that a commit is atomic), and a candidate attempt is its          *)
(* reservation and its decision (CandidateAttempt has what lies between).  *)
(* The loop works on what it read when the process started: the plan       *)
(* entries (view), the attempted ids (reserved) and the decided ids        *)
(* (terminal) are not read again, only kept up by the loop itself.         *)
(***************************************************************************)
EXTENDS CoverageTargets, Functions

CONSTANTS
  TargetOrder,    \* the targets in the order of coverage_plan.targets
  MaxCrashes      \* bound: crashes of the run

ASSUME TargetOrderAssumption ==
  /\ TargetOrder \in Seq(Targets)
  /\ Range(TargetOrder) = Targets
  /\ IsInjective(TargetOrder)
ASSUME CrashBoundAssumption == MaxCrashes \in Nat

VARIABLES
  \* durable: the inventory
  attempted,      \* candidate attempts of each target, in sequence order
  decisions,      \* admission decision of each candidate
  trace,          \* states the target's transitions led to, in order
  \* the process
  pc,
  at,             \* position in TargetOrder
  view,           \* plan entries as read when the process started
  reserved,       \* attempted_candidate_ids
  terminal,       \* terminal_ids
  refs,           \* choices the machine of the target has not looked at yet
  resumed,        \* candidate whose attempt the machine resumes, or None
  state,          \* machine.state
  crashes

durable == <<attempted, decisions, trace>>
process == <<at, view, reserved, terminal, refs, resumed, state>>
vars == <<durable, pc, process, crashes>>

\* Lifecycle states of a target; "active" stands for the states of an attempt.
LifecycleStates == {"pending", "active", "rejected", "admitted", "exhausted"}

DurablePlan == DerivePlan(attempted, decisions)

Attempted == UNION {Range(attempted[t]) : t \in Targets}
\* Where the target's transitions have led, pending before the first one.
StateOf(t) == IF trace[t] = << >> THEN "pending" ELSE trace[t][Len(trace[t])]

\* A transition of target t is appended, and the machine moves with it.
Transition(t, next) ==
  /\ trace' = [trace EXCEPT ![t] = Append(@, next)]
  /\ state' = next

DecidedIds == {c \in Candidates : Decided(decisions, c)}

TypeOK ==
  /\ attempted \in [Targets -> Seq(Candidates)]
  /\ decisions \in [Candidates -> [outcome : {"undecided", "admitted", "rejected"}]]
  /\ trace \in [Targets -> Seq(LifecycleStates)]
  /\ pc \in {"opening", "target", "machine", "attempting", "settled", "down"}
  /\ at \in Nat
  /\ DOMAIN view = Targets
  /\ reserved \subseteq Candidates
  /\ terminal \subseteq Candidates
  /\ refs \in Seq(Candidates)
  /\ resumed \in Candidates \cup {None}
  /\ state \in LifecycleStates
  /\ crashes \in Nat

Init ==
  /\ attempted = [t \in Targets |-> << >>]
  /\ decisions = [c \in Candidates |-> [outcome |-> "undecided"]]
  /\ trace = [t \in Targets |-> << >>]
  /\ pc = "opening"
  /\ at = 1 /\ view = DurablePlan
  /\ reserved = {} /\ terminal = {}
  /\ refs = << >> /\ resumed = None /\ state = "pending"
  /\ crashes = 0

\* The process has opened the persisted state.
Open ==
  /\ pc = "opening"
  /\ pc' = "target"
  /\ at' = 1
  /\ view' = DurablePlan
  /\ reserved' = Attempted
  /\ terminal' = DecidedIds
  /\ UNCHANGED <<durable, refs, resumed, state, crashes>>

Target == TargetOrder[at]
AtTarget == pc = "target" /\ at <= Len(TargetOrder)

NextTarget == pc' = "target" /\ at' = at + 1

\* Faulty variants: an exhausted target is worked on again; one whose last
\* choice was rejected counts as settled without its transition.
SettledWhenAdmitted == view[Target].state = "admitted"
SettledByPlan == view[Target].state \in {"admitted", "exhausted"}

\* The two early returns of _finalize_target.
Settled ==
  \/ view[Target].state = "admitted"
  \/ view[Target].state = "exhausted" /\ "exhausted" \in Range(trace[Target])

SkipTarget ==
  /\ AtTarget /\ Settled
  /\ NextTarget
  /\ UNCHANGED <<durable, view, reserved, terminal, refs, resumed, state, crashes>>

\* Faulty variant: interrupted attempts are forgotten.
NoActiveAttempt == None

\* _active_candidate_attempt: the latest attempt of the target without decision.
ActiveAttempt ==
  LET open == {i \in DOMAIN attempted[Target] : attempted[Target][i] \notin terminal}
  IN  IF open = {} THEN None
      ELSE attempted[Target][CHOOSE i \in open : \A j \in open : j <= i]

Primary(t) == OrderedChoices[t][1]

\* Faulty variants: the primary is tried last; a resumed candidate is put into
\* the queue when there is none.
ChoiceRefsPrimaryLast(t, candidate) ==
  LET rest == Without(view[t].fallback, {Primary(t), candidate})
  IN  IF OrderedChoices[t] = << >> THEN << >> ELSE Append(rest, Primary(t))

ChoiceRefsWithNone(t, candidate) ==
  IF OrderedChoices[t] = << >> THEN << >>
  ELSE <<Primary(t), candidate>>
         \o Without(view[t].fallback, {Primary(t), candidate})

\* ordered_target_choice_refs of the entry _legacy_plan_entry builds: the
\* primary, then the resumed candidate, then what else was available.
ChoiceRefs(t, candidate) ==
  LET rest == Without(view[t].fallback, {Primary(t), candidate})
      head == IF candidate \in {None, Primary(t)} THEN << >> ELSE <<candidate>>
      all  == <<Primary(t)>> \o head \o rest
      bound == IF Len(all) < MAX_TARGET_CHOICES THEN Len(all) ELSE MAX_TARGET_CHOICES
  IN  IF OrderedChoices[t] = << >> THEN << >> ELSE SubSeq(all, 1, bound)

StartMachine(candidate) ==
  /\ pc' = "machine"
  /\ resumed' = candidate
  /\ refs' = ChoiceRefs(Target, candidate)

\* Faulty variant: the machine of a resumed target starts from scratch.
PendingState == "pending"

\* _machine_initial_state: the machine starts where the target's trace stands.
MachineInitialState == StateOf(Target)

BeginTarget ==
  /\ AtTarget /\ ~Settled
  /\ StartMachine(ActiveAttempt)
  /\ state' = MachineInitialState
  /\ UNCHANGED <<durable, at, view, reserved, terminal, crashes>>

\* _recover_resume_candidate_state finds an unknown outcome or a spent budget
\* and decides the interrupted attempt on the spot.
RefuseInterrupted ==
  /\ AtTarget /\ ~Settled
  /\ ActiveAttempt # None
  /\ decisions' = [decisions EXCEPT ![ActiveAttempt].outcome = "rejected"]
  /\ Transition(Target, "rejected")
  /\ terminal' = terminal \cup {ActiveAttempt}
  /\ StartMachine(None)
  /\ UNCHANGED <<attempted, at, view, reserved, crashes>>

AtChoice == pc = "machine" /\ refs # << >>

SkipChoice ==
  /\ AtChoice
  /\ Head(refs) \in reserved /\ Head(refs) # resumed
  /\ refs' = Tail(refs)
  /\ UNCHANGED <<durable, pc, at, view, reserved, terminal, resumed, state, crashes>>

\* The transition and the attempt record are durable before the id is reserved.
Reserve ==
  /\ AtChoice
  /\ Head(refs) \notin reserved /\ Head(refs) # resumed
  /\ attempted' = [attempted EXCEPT ![Target] = Append(@, Head(refs))]
  /\ Transition(Target, "active")
  /\ reserved' = reserved \cup {Head(refs)}
  /\ pc' = "attempting"
  /\ UNCHANGED <<decisions, at, view, terminal, refs, resumed, crashes>>

ContinueAttempt ==
  /\ AtChoice
  /\ Head(refs) = resumed
  /\ pc' = "attempting"
  /\ UNCHANGED <<durable, process, crashes>>

\* Faulty variant: a rejected candidate ends the target as well.
DecideFinally(outcome) ==
  /\ pc = "attempting"
  /\ decisions' = [decisions EXCEPT ![Head(refs)].outcome = outcome]
  /\ Transition(Target, outcome)
  /\ NextTarget
  /\ UNCHANGED <<attempted, view, reserved, terminal, refs, resumed, crashes>>

\* _record_terminal; an admitted candidate ends the target.
Decide(outcome) ==
  /\ pc = "attempting"
  /\ decisions' = [decisions EXCEPT ![Head(refs)].outcome = outcome]
  /\ Transition(Target, outcome)
  /\ IF outcome = "admitted"
     THEN NextTarget /\ UNCHANGED refs
     ELSE pc' = "machine" /\ refs' = Tail(refs) /\ UNCHANGED at
  /\ UNCHANGED <<attempted, view, reserved, terminal, resumed, crashes>>

Exhaust ==
  /\ pc = "machine" /\ refs = << >>
  /\ Transition(Target, "exhausted")
  /\ NextTarget
  /\ UNCHANGED <<attempted, decisions, view, reserved, terminal, refs, resumed, crashes>>

\* The loop is over; the run goes on to its completion.
Finish ==
  /\ pc = "target" /\ at > Len(TargetOrder)
  /\ pc' = "settled"
  /\ UNCHANGED <<durable, process, crashes>>

\* The process dies; what it has read is gone with it.
Crash ==
  /\ pc # "down"
  /\ crashes < MaxCrashes
  /\ crashes' = crashes + 1
  /\ pc' = "down"
  /\ UNCHANGED <<durable, process>>

Resume ==
  /\ pc = "down"
  /\ pc' = "opening"
  /\ UNCHANGED <<durable, process, crashes>>

Loop ==
  \/ Open \/ SkipTarget \/ BeginTarget \/ RefuseInterrupted \/ Finish
  \/ SkipChoice \/ Reserve \/ ContinueAttempt \/ Exhaust
  \/ \E outcome \in {"admitted", "rejected"} : Decide(outcome)

Next == Loop \/ Crash \/ Resume

Spec == Init /\ [][Next]_vars

\* A live process keeps working: every attempt ends (CandidateAttempt) and no
\* step of the loop waits for anything else.  An interrupted run is resumed.
FairSpec == Spec /\ WF_vars(Loop) /\ WF_vars(Resume)

--------------------------------------------------------------------------------
(***************************************************************************)
(* Properties.                                                             *)
(***************************************************************************)

\* The plan derived at any commit passes the validators of the plan, so no
\* commit is refused: attempts are an exact prefix of the choices, nothing
\* follows an admission, and exactly the untried choices stay available.
PlanAccepted == QueueValid(DurablePlan)

\* Of all targets together, at most one candidate is attempted and undecided:
\* a resume finishes or refuses the interrupted attempt before it starts another.
OneAttemptOpen ==
  \A c, d \in Attempted :
    ~Decided(decisions, c) /\ ~Decided(decisions, d) => c = d

\* The edges of the lifecycle validator, with an attempt as one state.
LegalEdges ==
  {<<"pending", "active">>, <<"rejected", "active">>, <<"active", "admitted">>,
   <<"active", "rejected">>, <<"pending", "exhausted">>, <<"rejected", "exhausted">>}

\* Every target's trace is one the lifecycle validator accepts: it starts from
\* pending, takes legal edges only, and has one segment for each attempt.
TraceLegal ==
  \A t \in Targets :
    /\ \A i \in DOMAIN trace[t] :
         <<IF i = 1 THEN "pending" ELSE trace[t][i - 1], trace[t][i]>> \in LegalEdges
    /\ Cardinality({i \in DOMAIN trace[t] : trace[t][i] = "active"}) = Len(attempted[t])

\* The machine's own state never drifts from the durable trace of its target,
\* also when it was built after an interrupted attempt was refused.
MachineMatchesTrace ==
  pc \in {"machine", "attempting"} => state = StateOf(Target)

\* When the loop is over, the checks of a completed manifest on every target
\* pass: it is admitted or exhausted, and its last transition says the same.
CompletionAccepted ==
  pc = "settled" =>
    \A t \in Targets :
      /\ DurablePlan[t].state \in {"admitted", "exhausted"}
      /\ StateOf(t) = DurablePlan[t].state

\* No validator refuses what the loop commits: neither the plan at any commit,
\* nor the trace of a target, nor the outcome when the loop is over.
ValidatorsAccept == PlanAccepted /\ TraceLegal /\ CompletionAccepted

\* The loop settles every target, in spite of crashes.
Settlement == INSTANCE TargetSettlement WITH
  Choices <- [t \in Targets |-> Len(OrderedChoices[t])],
  tried   <- [t \in Targets |-> Len(attempted[t])],
  verdict <- [t \in Targets |->
               CASE StateOf(t) = "active" -> "trying"
                 [] StateOf(t) \in {"pending", "rejected"} -> "open"
                 [] OTHER -> StateOf(t)]

ImplementsTargetSettlement == Settlement!FairSpec
================================================================================
