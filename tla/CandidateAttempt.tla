---------------------------- MODULE CandidateAttempt ----------------------------
(***************************************************************************)
(* One candidate attempt of a coverage target: the lifecycle machine that  *)
(* generates the stages, finalizes the tree, admits the scenario and       *)
(* spends the retry budgets, and the resume that rebuilds the machine from *)
(* the durable trace after a crash.                                        *)
(*                                                                         *)
(* Durable state is the trace: transitions, stage attempt records, the     *)
(* admission decision, and the rows of calls.jsonl.  One commit of the     *)
(* persistence adapter is one step here; FinalizationJournal shows that a  *)
(* commit is atomic.  Everything else is memory of the process, and is     *)
(* lost in a crash.                                                        *)
(*                                                                         *)
(* Revalidation, the prebehavior finalizer and admission are deterministic *)
(* functions of persisted data.  What they will say of an artifact is      *)
(* therefore chosen when the artifact is generated (the field verdict of   *)
(* its record) and stays the same however often a resume asks again.       *)
(***************************************************************************)
EXTENDS Integers, Sequences, FiniteSets, FiniteSetsExt

CONSTANTS
  Behavior,                     \* number of stages; stages are 1..Behavior
  MAX_OWNER_RETRIES,
  MAX_COMPLETION_LENGTH_RETRIES,
  PrebehaviorReports,           \* what the finalizer may report: sets of violations
  AdmissionReports,             \* what admission may report
  MaxCrashes                    \* bound: crashes of one attempt

Actor == 1
Tree == Behavior - 1
Stages == Actor .. Behavior
NoOwner == 0

Violations == [owner : Stages \cup {NoOwner}, retryable : BOOLEAN, length : BOOLEAN]

ASSUME StagesAssumption == Behavior \in Nat /\ Behavior >= 2
ASSUME BudgetsAssumption ==
  MAX_OWNER_RETRIES \in Nat /\ MAX_COMPLETION_LENGTH_RETRIES \in Nat
ASSUME ReportsAssumption ==
  /\ {} \in PrebehaviorReports /\ {} \in AdmissionReports
  /\ \A r \in PrebehaviorReports : \A v \in r :
       v \in Violations /\ ~v.length /\ v.owner # Behavior
  /\ \A r \in AdmissionReports : \A v \in r : v \in Violations /\ ~v.length
ASSUME CrashBoundAssumption == MaxCrashes \in Nat

States == {"pending_candidate", "revalidating_candidate", "generating",
           "finalizing_prebehavior", "admitting",
           "candidate_rejected", "admitted"}

\* A lifecycle state; generating_<stage> carries its stage.
Lifecycle(name) == [name |-> name, stage |-> NoOwner]
Generating(s) == [name |-> "generating", stage |-> s]
LifecycleStates ==
  {Lifecycle(n) : n \in States \ {"generating"}} \cup {Generating(s) : s \in Stages}

Codes == {"none", "lifecycle", "unknown_invocation_outcome", "owner_retry_exhausted"}

VARIABLES
  \* durable
  edge,          \* the last TransitionRecord: [index, previous, current]
  records,       \* StageAttemptRecords of the candidate, in order
  invoked,       \* number of generating transitions
  rows,          \* rows of calls.jsonl, as attempt ids
  decision,      \* the AdmissionDecisionRecord: [status, code]
  \* fixed by the candidate
  qualified,     \* what authoritative revalidation says
  \* the machine
  pc,            \* next thing the process does, "down" when it is dead
  state,         \* machine.state
  index,         \* transition_index_offset + len(transitions)
  cursor,        \* stage to advance next
  artifacts,     \* stages whose artifact the machine holds
  snapshot,      \* a final tree snapshot is held
  suppress,      \* suppress_durable_boundary
  invocations, ownerRetries, lengthRetries,   \* per stage
  failure,       \* violations a terminal result will carry
  code,          \* code of a terminal result decided without running
  crashes

durable == <<edge, records, invoked, rows, decision>>
counters == <<invocations, ownerRetries, lengthRetries>>
local == <<state, index, cursor, artifacts, snapshot, suppress, counters, failure, code>>
vars == <<durable, qualified, pc, local, crashes>>

AttemptIds == Stages \X Nat
Records ==
  [stage : Stages, invocation_index : Nat, owner_retry_index : Nat,
   violations : SUBSET Violations, verdict : SUBSET Violations]

Undecided == [status |-> "undecided", code |-> "none"]
Statuses == {"undecided", "admitted", "rejected", "generation_or_finalization_failed"}

PCs == {"start", "revalidate", "advance", "calling", "recording", "finalizing",
        "admitting", "terminal", "done", "down"}

TypeOK ==
  /\ edge \in [index : Int, previous : LifecycleStates, current : LifecycleStates]
  /\ records \in Seq(Records)
  /\ invoked \in Nat
  /\ rows \in Seq(AttemptIds)
  /\ decision \in [status : Statuses, code : Codes]
  /\ qualified \in BOOLEAN
  /\ pc \in PCs
  /\ state \in LifecycleStates
  /\ index \in Int
  /\ cursor \in Stages
  /\ artifacts \subseteq Stages
  /\ snapshot \in BOOLEAN /\ suppress \in BOOLEAN
  /\ invocations \in [Stages -> Nat]
  /\ ownerRetries \in [Stages -> Nat]
  /\ lengthRetries \in [Stages -> Nat]
  /\ failure \subseteq Violations
  /\ code \in Codes
  /\ crashes \in Nat

Zero == [s \in Stages |-> 0]

Init ==
  /\ edge = [index |-> -1, previous |-> Lifecycle("pending_candidate"),
             current |-> Lifecycle("pending_candidate")]
  /\ records = << >> /\ invoked = 0 /\ rows = << >>
  /\ decision = Undecided
  /\ qualified \in BOOLEAN
  /\ pc = "start"
  /\ state = Lifecycle("pending_candidate") /\ index = 0
  /\ cursor = Actor /\ artifacts = {} /\ snapshot = FALSE
  /\ suppress = FALSE
  /\ invocations = Zero /\ ownerRetries = Zero /\ lengthRetries = Zero
  /\ failure = {} /\ code = "none"
  /\ crashes = 0

--------------------------------------------------------------------------------
(***************************************************************************)
(* Transitions and retry routing.                                          *)
(***************************************************************************)

\* _transition: the record is durable before the machine moves.
Transition(next) ==
  /\ edge' = [index |-> index, previous |-> state, current |-> next]
  /\ state' = next
  /\ index' = index + 1

\* Faulty variant: a violation that is not retryable is overlooked.
EarliestNamedOwner(violations) ==
  IF \E v \in violations : v.owner = NoOwner THEN NoOwner
  ELSE Min({v.owner : v \in violations})

\* earliest_generated_owner
EarliestOwner(violations) ==
  IF \E v \in violations : ~v.retryable \/ v.owner = NoOwner THEN NoOwner
  ELSE Min({v.owner : v \in violations})

\* Faulty variant: a length failure is taken for a semantic one.
IsFinalLength(owner, violations) ==
  \E v \in violations : v.owner = owner /\ v.length /\ ~v.retryable

IsLength(owner, violations) == \E v \in violations : v.owner = owner /\ v.length

\* _route_violations grants a retry of this owner.
Retries(owner, violations) ==
  /\ owner # NoOwner
  /\ IF IsLength(owner, violations)
     THEN lengthRetries[owner] < MAX_COMPLETION_LENGTH_RETRIES
     ELSE ownerRetries[owner] < MAX_OWNER_RETRIES

\* invalidate_from: the owner's artifact and everything after it go.
Invalidated(owner) == {s \in artifacts : s < owner}

\* _route_violations and what its callers do with the answer: back to the owner,
\* with everything from it on invalidated, or on to a terminal result.
Route(violations) ==
  LET owner == EarliestOwner(violations)
  IN  \/ /\ Retries(owner, violations)
         /\ IF IsLength(owner, violations)
            THEN /\ lengthRetries' = [lengthRetries EXCEPT ![owner] = @ + 1]
                 /\ UNCHANGED ownerRetries
            ELSE /\ ownerRetries' = [ownerRetries EXCEPT ![owner] = @ + 1]
                 /\ UNCHANGED lengthRetries
         /\ artifacts' = Invalidated(owner)
         /\ snapshot' = (snapshot /\ owner = Behavior)
         /\ cursor' = owner
         /\ pc' = "advance"
         /\ UNCHANGED failure
      \/ /\ ~Retries(owner, violations)
         /\ failure' = violations
         /\ pc' = "terminal"
         /\ UNCHANGED <<ownerRetries, lengthRetries, artifacts, snapshot, cursor>>

--------------------------------------------------------------------------------
(***************************************************************************)
(* The machine.                                                            *)
(***************************************************************************)

\* _fresh_candidate_state
Start ==
  /\ pc = "start"
  /\ Transition(Lifecycle("revalidating_candidate"))
  /\ pc' = "revalidate"
  /\ UNCHANGED <<records, invoked, rows, decision, qualified, cursor, artifacts, snapshot,
                 suppress, counters, failure, code, crashes>>

\* _attempt_candidate: the candidate is revalidated, on a resume as well.
Revalidate ==
  /\ pc = "revalidate"
  /\ IF qualified
     THEN pc' = "advance" /\ UNCHANGED failure
     ELSE /\ pc' = "terminal"
          /\ failure' = {[owner |-> NoOwner, retryable |-> FALSE, length |-> FALSE]}
  /\ UNCHANGED <<durable, qualified, state, index, cursor, artifacts, snapshot, suppress,
                 counters, code, crashes>>

\* Faulty variant: the last stage is not recognised.
BeyondBehavior == cursor > Behavior

AtBehavior == cursor = Behavior
BehaviorReady == AtBehavior /\ snapshot /\ Behavior \in artifacts

\* _invoke_stage up to the provider call: the generating edge is durable first.
\* An artifact of behavior that is already durable is not generated again.
BeginInvocation ==
  /\ pc = "advance"
  /\ AtBehavior => snapshot /\ Behavior \notin artifacts
  /\ Transition(Generating(cursor))
  /\ invoked' = invoked + 1
  /\ invocations' = [invocations EXCEPT ![cursor] = @ + 1]
  /\ pc' = "calling"
  /\ UNCHANGED <<records, rows, decision, qualified, cursor, artifacts, snapshot, suppress,
                 ownerRetries, lengthRetries, failure, code, crashes>>

\* The attempt in progress.
Attempt == <<cursor, invocations[cursor] - 1>>

\* The call returns, or fails; record_stage_result appends its row to
\* calls.jsonl before it commits the record.
AppendCallRow ==
  /\ pc = "calling"
  /\ rows' = Append(rows, Attempt)
  /\ pc' = "recording"
  /\ UNCHANGED <<edge, records, invoked, decision, qualified, local, crashes>>

\* What one stage call can end with.  A failure is owned by its stage; a length
\* failure past the budget becomes a failure that is not retryable.
StageFailure(retryable, length) ==
  {[owner |-> cursor, retryable |-> retryable, length |-> length]}

\* Faulty variant: one length failure too many is still retryable.
StageOutcomesOffByOne ==
  {{}, StageFailure(TRUE, FALSE), StageFailure(FALSE, FALSE),
   IF lengthRetries[cursor] > MAX_COMPLETION_LENGTH_RETRIES
   THEN StageFailure(FALSE, FALSE) ELSE StageFailure(TRUE, TRUE)}

StageOutcomes ==
  {{}, StageFailure(TRUE, FALSE), StageFailure(FALSE, FALSE),
   IF lengthRetries[cursor] >= MAX_COMPLETION_LENGTH_RETRIES
   THEN StageFailure(FALSE, FALSE) ELSE StageFailure(TRUE, TRUE)}

\* What the deterministic check of a new artifact will say, each time.
Verdicts(violations) ==
  IF violations # {} THEN {{}}
  ELSE IF cursor = Tree THEN PrebehaviorReports
  ELSE IF cursor = Behavior THEN AdmissionReports ELSE {{}}

\* The stage record becomes durable; then the machine adopts the artifact or
\* routes the violations.
RecordStage ==
  /\ pc = "recording"
  /\ \E violations \in StageOutcomes : \E verdict \in Verdicts(violations) :
       /\ records' = Append(records,
            [stage |-> cursor, invocation_index |-> Attempt[2],
             owner_retry_index |-> ownerRetries[cursor],
             violations |-> violations, verdict |-> verdict])
       /\ \/ /\ violations # {}
             /\ Route(violations)
          \/ /\ violations = {}
             /\ artifacts' = artifacts \cup {cursor}
             /\ cursor' = IF AtBehavior THEN cursor ELSE cursor + 1
             /\ pc' = "advance"
             /\ UNCHANGED <<ownerRetries, lengthRetries, snapshot, failure>>
  /\ UNCHANGED <<edge, invoked, rows, decision, qualified, state, index, suppress,
                 invocations, code, crashes>>

\* The last record of a stage; the artifact the machine holds comes from it.
LastOf(s) ==
  LET here == {i \in DOMAIN records : records[i].stage = s}
  IN  records[Max(here)]

\* What the two deterministic checks say of the artifacts the machine holds.
AdmissionReport == LastOf(Behavior).verdict

\* Faulty variant: what the tree stage itself owns is overlooked.
ReportBeforeTree == {v \in LastOf(Tree).verdict : v.owner < Tree}
PrebehaviorReport == LastOf(Tree).verdict

\* _finalize_prebehavior: the boundary is entered once, a resume that finds it
\* crossed does not record it again.
EnterFinalizing ==
  /\ pc = "advance" /\ AtBehavior /\ ~snapshot
  /\ \/ suppress /\ UNCHANGED <<edge, state, index>>
     \/ ~suppress /\ Transition(Lifecycle("finalizing_prebehavior"))
  /\ suppress' = FALSE
  /\ pc' = "finalizing"
  /\ UNCHANGED <<records, invoked, rows, decision, qualified, cursor, artifacts, snapshot,
                 counters, failure, code, crashes>>

FinalizePrebehavior ==
  /\ pc = "finalizing"
  /\ LET report == PrebehaviorReport
     IN  \/ /\ report # {}
            /\ Route(report)
         \/ /\ report = {}
            /\ snapshot' = TRUE
            /\ pc' = "advance"
            /\ UNCHANGED <<cursor, artifacts, ownerRetries, lengthRetries, failure>>
  /\ UNCHANGED <<durable, qualified, state, index, suppress, invocations, code,
                 crashes>>

\* Faulty variant: a trace that is at admitting already has nowhere to go.
EnterAdmittingOnce ==
  /\ pc = "advance" /\ BehaviorReady
  /\ state # Lifecycle("admitting") /\ Transition(Lifecycle("admitting"))
  /\ pc' = "admitting"
  /\ UNCHANGED <<records, invoked, rows, decision, qualified, cursor, artifacts, snapshot,
                 suppress, counters, failure, code, crashes>>

\* _admission_views: the edge to admitting, unless the trace is already there.
EnterAdmitting ==
  /\ pc = "advance" /\ BehaviorReady
  /\ \/ state = Lifecycle("admitting") /\ UNCHANGED <<edge, state, index>>
     \/ state # Lifecycle("admitting") /\ Transition(Lifecycle("admitting"))
  /\ pc' = "admitting"
  /\ UNCHANGED <<records, invoked, rows, decision, qualified, cursor, artifacts, snapshot,
                 suppress, counters, failure, code, crashes>>

Admit ==
  /\ pc = "admitting"
  /\ LET report == AdmissionReport
     IN  \/ /\ report # {}
            /\ Route(report)
         \/ /\ report = {}
            /\ failure' = {}
            /\ pc' = "terminal"
            /\ UNCHANGED <<cursor, artifacts, snapshot, ownerRetries, lengthRetries>>
  /\ UNCHANGED <<durable, qualified, state, index, suppress, invocations, code,
                 crashes>>

\* The status of the terminal result.
TerminalStatus ==
  IF failure = {} THEN "admitted"
  ELSE IF state \in {Lifecycle("admitting"), Lifecycle("revalidating_candidate")}
          /\ code = "none"
       THEN "rejected" ELSE "generation_or_finalization_failed"

TerminalState ==
  Lifecycle(IF failure = {} THEN "admitted" ELSE "candidate_rejected")

\* record_candidate_result: the terminal edge and the decision in one commit.
\* The adapter continues the durable trace; the machine then moves with it.
RecordTerminal ==
  /\ pc = "terminal"
  /\ edge' = [index |-> edge.index + 1, previous |-> edge.current, current |-> TerminalState]
  /\ decision' = [status |-> TerminalStatus,
                  code |-> IF code = "none" THEN "lifecycle" ELSE code]
  /\ state' = TerminalState
  /\ index' = index + 1
  /\ pc' = "done"
  /\ UNCHANGED <<records, invoked, rows, qualified, cursor, artifacts, snapshot, suppress,
                 counters, failure, code, crashes>>

--------------------------------------------------------------------------------
(***************************************************************************)
(* Crash and resume.                                                       *)
(***************************************************************************)
Crash ==
  /\ pc \notin {"down", "done"}
  /\ crashes < MaxCrashes
  /\ crashes' = crashes + 1
  /\ pc' = "down"
  /\ state' = Lifecycle("pending_candidate") /\ index' = 0
  /\ cursor' = Actor /\ artifacts' = {} /\ snapshot' = FALSE
  /\ suppress' = FALSE
  /\ invocations' = Zero /\ ownerRetries' = Zero /\ lengthRetries' = Zero
  /\ failure' = {} /\ code' = "none"
  /\ UNCHANGED <<durable, qualified>>

LastRecord == records[Len(records)]
LastViolated == records # << >> /\ LastRecord.violations # {}

OfStage(s) == {i \in DOMAIN records : records[i].stage = s}

\* Faulty variant: invocations start over.
NoInvocations(s) == 0

\* _resume_invocation_counts
ResumedInvocations(s) == Cardinality(OfStage(s))

\* Faulty variant: the failure the crash interrupted is not counted.
ResumedOwnerRetriesWithoutCredit(s) ==
  Max({records[i].owner_retry_index : i \in OfStage(s)} \cup {0})

\* _resume_owner_retry_counts: the highest index seen, one more when the last
\* record of all violated, for whatever reason.
ResumedOwnerRetries(s) ==
  LET credit(i) == records[i].owner_retry_index
                     + IF i = Len(records) /\ LastViolated THEN 1 ELSE 0
      credits == {credit(i) : i \in OfStage(s)} \cup {0}
  IN  Max(credits)

\* resume_completion_length_counts looks at the latest record only.
ResumedLengthRetries(s) ==
  IF /\ LastViolated /\ LastRecord.stage = s
     /\ \E v \in LastRecord.violations : v.length
  THEN 1 ELSE 0

\* _replay_causal_stage_artifacts: every record supersedes its stage and all
\* later ones; a stage without violations supplies its artifact.
ResumedArtifacts ==
  {s \in Stages : \E i \in OfStage(s) :
     /\ records[i].violations = {}
     /\ \A j \in DOMAIN records : j > i => records[j].stage > s}

\* Faulty variant: a resume starts over.
ResumedAtActor == Actor

\* The stage that failed last, or the first one without an artifact.
ResumedStage ==
  IF LastViolated THEN LastRecord.stage
  ELSE IF Stages \subseteq ResumedArtifacts THEN Behavior
  ELSE Min(Stages \ ResumedArtifacts)

OpenInvocation == invoked = Len(records) + 1

\* Faulty variant: a call whose outcome is unknown is simply repeated.
RefusalCodeOfBudget ==
  IF LastViolated /\ LastRecord.owner_retry_index >= MAX_OWNER_RETRIES
  THEN "owner_retry_exhausted" ELSE "none"

\* _recover_resume_candidate_state: a call whose outcome is unknown, or a budget
\* the trace shows as spent, ends the attempt without another call.
RefusalCode ==
  IF OpenInvocation THEN "unknown_invocation_outcome"
  ELSE IF LastViolated /\ LastRecord.owner_retry_index >= MAX_OWNER_RETRIES
  THEN "owner_retry_exhausted" ELSE "none"

\* Faulty variant: the index of the last transition is used again.
LastTransitionIndex == edge.index

\* _transition_index_offset
TransitionIndexOffset == edge.index + 1

\* Faulty variant: the boundary is recorded again by every resume.
BoundaryNeverCrossed == FALSE

\* _suppress_durable_boundary
BoundaryCrossed ==
  edge.current \in {Lifecycle("finalizing_prebehavior"), Generating(Behavior),
                    Lifecycle("admitting")}

Resume ==
  /\ pc = "down"
  /\ state' = edge.current
  /\ index' = TransitionIndexOffset
  /\ invocations' = [s \in Stages |-> ResumedInvocations(s)]
  /\ ownerRetries' = [s \in Stages |-> ResumedOwnerRetries(s)]
  /\ lengthRetries' = [s \in Stages |-> ResumedLengthRetries(s)]
  /\ UNCHANGED <<durable, qualified, crashes, snapshot>>
  /\ \/ \* the attempt was never reserved
        /\ edge.current = Lifecycle("pending_candidate")
        /\ pc' = "start"
        /\ UNCHANGED <<cursor, artifacts, suppress, failure, code>>
     \/ /\ edge.current # Lifecycle("pending_candidate")
        /\ RefusalCode # "none"
        /\ pc' = "terminal"
        /\ code' = RefusalCode
        /\ failure' = {[owner |-> NoOwner, retryable |-> FALSE, length |-> FALSE]}
        /\ UNCHANGED <<cursor, artifacts, suppress>>
     \/ /\ edge.current # Lifecycle("pending_candidate")
        /\ RefusalCode = "none"
        /\ pc' = "revalidate"
        /\ cursor' = ResumedStage
        /\ artifacts' = {s \in ResumedArtifacts : LastViolated => s < ResumedStage}
        /\ suppress' = BoundaryCrossed
        /\ UNCHANGED <<failure, code>>

Machine ==
  \/ Start \/ Revalidate \/ BeginInvocation \/ AppendCallRow \/ RecordStage
  \/ EnterFinalizing \/ FinalizePrebehavior \/ EnterAdmitting \/ Admit \/ RecordTerminal

Next == Machine \/ Crash \/ Resume

Spec == Init /\ [][Next]_vars

\* A live process keeps working (a provider call returns or times out), and an
\* interrupted run is resumed.
FairSpec == Spec /\ WF_vars(Machine) /\ WF_vars(Resume)

--------------------------------------------------------------------------------
(***************************************************************************)
(* Properties.                                                             *)
(***************************************************************************)

\* The machine's own view of the trace never drifts from the durable one, also
\* after a resume has terminalized an attempt behind its back: the next
\* transition it records carries the right predecessor and index.
MachineMatchesTrace ==
  pc # "down" => state = edge.current /\ index = edge.index + 1

\* The edges _check_candidate_lifecycle_trace accepts; a commit with any other
\* edge would be refused and take the whole run down.
Active ==
  {Generating(s) : s \in Stages} \cup
  {Lifecycle("finalizing_prebehavior"), Lifecycle("admitting")}

LegalEdges ==
  {<<Lifecycle("pending_candidate"), Lifecycle("revalidating_candidate")>>,
   <<Lifecycle("revalidating_candidate"), Generating(Actor)>>,
   <<Lifecycle("revalidating_candidate"), Lifecycle("candidate_rejected")>>,
   <<Generating(Tree), Lifecycle("finalizing_prebehavior")>>,
   <<Lifecycle("finalizing_prebehavior"), Generating(Behavior)>>,
   <<Generating(Behavior), Lifecycle("admitting")>>,
   <<Lifecycle("admitting"), Lifecycle("admitted")>>}
  \cup {<<a, Generating(s)>> : a \in Active, s \in Stages}
  \cup {<<a, Lifecycle("candidate_rejected")>> : a \in Active}

\* Every recorded transition continues the durable trace of the candidate by a
\* legal edge, across any number of crashes and resumes.
TraceContinues ==
  [][edge' # edge =>
       /\ edge'.index = edge.index + 1
       /\ edge'.previous = edge.current
       /\ <<edge.current, edge'.current>> \in LegalEdges]_vars

\* calls.jsonl and the stage records agree: each attempt id occurs once, every
\* record has its row, and only an invocation whose result was never recorded
\* can have a row without a record.
RecordIds ==
  [i \in DOMAIN records |-> <<records[i].stage, records[i].invocation_index>>]

CallLogMatchesTrace ==
  /\ \A i, j \in DOMAIN rows : rows[i] = rows[j] => i = j
  /\ \/ rows = RecordIds
     \/ /\ OpenInvocation
        /\ rows # << >>
        /\ RecordIds = SubSeq(rows, 1, Len(rows) - 1)

\* An invocation whose outcome a crash has hidden is not repeated: once the
\* process is back, the attempt is on its way to that very decision.
UnknownOutcomeIsTerminal ==
  OpenInvocation /\ pc \notin {"calling", "recording", "down"} =>
    /\ pc \in {"terminal", "done"}
    /\ code = "unknown_invocation_outcome"

\* A provider call is made only for the stage the durable trace calls for: the
\* first missing one when nothing objects to what is there, the owner of the
\* last failure, or the owner the deterministic checks name.  In particular a
\* durable behavior artifact that admission accepts is never generated again.
CalledFor(s) ==
  IF LastViolated THEN LastRecord.stage = s
  ELSE IF records # << >> /\ LastRecord.verdict # {}
  THEN EarliestOwner(LastRecord.verdict) = s
  ELSE s \notin ResumedArtifacts /\ Actor .. (s - 1) \subseteq ResumedArtifacts

CallsAreCalledFor ==
  [][invoked' # invoked => CalledFor(cursor)]_vars

\* An admitted scenario consists of one artifact per stage, none older than a
\* stage it was derived from, and both checks accept exactly these artifacts.
AdmittedIsComplete ==
  decision.status = "admitted" =>
    /\ qualified
    /\ ResumedArtifacts = Stages
    /\ LastOf(Tree).verdict = {} /\ LastOf(Behavior).verdict = {}

Failures(s, length) ==
  {i \in OfStage(s) : /\ records[i].violations # {}
                      /\ (\E v \in records[i].violations : v.length) <=> length}

\* The semantic owner-retry budget of a stage bounds its failures other than
\* length failures, in one process as well as across resumes.
SemanticBudgetKept ==
  \A s \in Stages :
    /\ Cardinality(Failures(s, FALSE)) <= MAX_OWNER_RETRIES + 1
    /\ \A i \in OfStage(s) : records[i].owner_retry_index <= MAX_OWNER_RETRIES

\* A stage has at most MAX_COMPLETION_LENGTH_RETRIES completion-length failures;
\* the next one is recorded under the terminal code.
LengthFailureBudget ==
  \A s \in Stages : Cardinality(Failures(s, TRUE)) <= MAX_COMPLETION_LENGTH_RETRIES

\* A completion-length failure does not consume semantic owner-retry budget: the
\* invocation that follows it has the same owner retry index.
LengthSparesOwnerBudget ==
  \A i \in DOMAIN records :
    (i + 1) \in DOMAIN records /\ i \in Failures(records[i].stage, TRUE) =>
      records[i + 1].owner_retry_index = records[i].owner_retry_index

\* A stage failure that is not retryable ends the candidate: no further stage is
\* recorded after it.
NonRetryableIsTerminal ==
  \A i \in DOMAIN records :
    (\E v \in records[i].violations : ~v.retryable) => i = Len(records)

\* The two length budgets and the non-retryable rule hold as long as the process
\* does not die: what breaks them is a resume, as the runs length_budget_crash,
\* length_owner_crash and nonretryable_crash show.
CrashFreeRetryBudgets ==
  crashes = 0 => LengthFailureBudget /\ LengthSparesOwnerBudget /\ NonRetryableIsTerminal

\* However often the process dies and is resumed, the attempt gets its decision.
EventuallyDecided == <>(decision # Undecided)
================================================================================
