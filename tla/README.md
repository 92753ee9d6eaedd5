# Formal models of the asago scenario generator

TLA+ modules for the parts of the scenario generator whose correctness depends
on the order of steps, on retries and on what survives a crash; TLC
configurations that model-check them on small instances; and theorems about
them, proved with TLAPS. File names below are relative to
`src/asago_scenario_generator/` of the repository (`pipeline/...`, `manifest.py`,
...).

## 1. The system

### 1.1 Components

| Component | State it keeps | Operations | Hard behaviour | What makes it correct |
|---|---|---|---|---|
| **Candidate filter**: `pipeline/candidate_filter.py` | in memory: one future per seed, merged results, call rows | two attempts per seed, reconcile each answer with what was submitted, merge, escalate | tasks run in a pool and are merged in completion order; failures mixed with successes; three failure modes | every candidate has one fate, the same in any order; the call rows prove it |
| **Coverage planning**: `pipeline/coverage_planning*.py` | in memory until the plan is written | fallback queues; min-cost flow for the primaries; capped round robin; the plan | three objectives in one integer cost; an augmentation undoes earlier choices; a cap cuts a lap short | the assignment is optimal; a cap is shared out; each candidate is offered once |
| **Candidate expansion and projection**: `pipeline/candidate_expansion.py`, `candidate_rules.py`, `candidate_capping.py`, `projection*.py` | none | expand catalog x profile, qualify a projection | none (sequential) | (tests) |
| **Coverage plan queues**: `pipeline/persistence_plan.py`, `persistence_adapter_state.py` | `coverage-plan.json`: for every target the queue, the attempted prefix, admitted id, fallback, state | derived from the finalization inventory by every commit; validated on every load | the loop keeps its own copy of what it read | the derived plan always passes its validators |
| **Finalization persistence**: `pipeline/persistence.py`, `persistence_files.py`, `persistence_journal.py`, `persistence_adapter_*.py` | `.finalization-state.json` (journal), `finalization-inventory.json`, `coverage-plan.json`, published scenario, feature and quarantine files | bootstrap, one commit per event, recovery | crash, power loss or I/O error between any two writes | the directory always equals a whole number of events; nothing published is unknown; recovery ends |
| **Candidate lifecycle machine**: `pipeline/finalization.py`, `finalization_contracts.py` | machine state, stage cursor, artifacts, two retry budgets per stage | revalidate, invoke a stage, finalize prebehavior, admit, record the terminal result | retries lead back to earlier stages from three places | budgets hold; artifacts are never stale; each attempt is decided |
| **Target loop and resume**: `pipeline/runner_finalization.py` | plan entries, attempted and decided ids read once | settle every target; rebuild an interrupted attempt from the trace | the rebuilt machine must equal the one that died; a call whose outcome is unknown must not be repeated | one open attempt; choices in order and once; same decision rules across resumes |
| **Finalization validators**: `pipeline/persistence_validation.py`, `persistence_plan.py` | none | accept or refuse an inventory: lifecycle edges, contiguous indices, receipts, terminal states | refuse at commit time, taking the run down | accept everything the writers can legally produce |
| **Pipeline runner**: `pipeline/runner.py`, `runner_run.py`, `runner_resume.py` | `run-manifest.yaml` status STARTED, COMPLETED, FAILED | fresh run, resume, failed-run evidence, completion | a failing run writes evidence over a possibly pending journal; completion is several writes | FAILED and COMPLETED manifests describe a settled directory |
| **Manifest and completion**: `manifest*.py`, the completion tail of `pipeline/runner.py` | `run-manifest.yaml`, inventory of the directory | start, checkpoint, complete, fail; evaluation and report in two passes; strict inventory with an orphan check | death between the manifest writes; products of an earlier pass or process; `*.tmp` leftovers of crashed atomic writes; notes that only live in memory | a final manifest is exactly its directory, of one pass; a persisted plan can be resumed; what went wrong is declared |
| **Generation stages**: `pipeline/generate/` | none across calls | one provider request per invocation: actor, narrative, tree, behavior | typed failures: correctable, final, completion length | one request per invocation; typed outcome |
| **Prebehavior finalizer, admission gates**: `pipeline/finalization_prebehavior.py`, `finalization_admission.py`, `finalization_gates.py` | none | deterministic report on an artifact | none (pure) | the same artifact gets the same report |
| **STPA pipeline**: `stpa/` | run directory, call log | stages in order, parallel LLM calls, degradation | pool of calls sharing one log, partial failure | results keep the order of the input; the log has each call once |
| **Evaluation, reports, catalog qualification, LLM client, CLI, data** | files they read | metrics, rendering, validation, I/O | none that a model checker reaches | (tests) |

### 1.2 How they interact

`run_pipeline` writes the started manifest, plans the targets and bootstraps the
finalization state. `run_target_finalization` then walks the targets. For each it
builds a `TargetFinalizationMachine`, which calls back into the persistence
adapter for every transition, stage record and terminal result; each of these
calls is one *commit*. A commit writes the journal, publishes files, writes the
inventory and the plan, unlinks the journal and fsyncs the directory. When the
loop is over the runner completes the manifest. If an exception reaches a fresh
run, `_recover_and_reraise_failed_run` finishes a pending journal and writes a
FAILED manifest. `resume_pipeline` opens the same directory: it finishes a
pending journal, loads the documents, and starts the loop over; the loop rebuilds
an interrupted attempt from the durable trace.

Before any of this the candidates are filtered, which is where the program is
concurrent: one task per seed in a thread pool, merged by the calling thread.
There is no concurrency inside finalization: one process, one thread. The
interleavings there are those of a process with its own death, with power loss
and with I/O errors, at every write.

## 2. Modules

| Module | Models | Used by |
|---|---|---|
| `CandidateFilter` | `filter_candidates`: the tasks of the pool, their attempts, reconciliation, the merge, the failure modes | |
| `CoveragePlanning` | `plan_generation`: queues, the flow path by path, the round robin turn by turn, the plan | |
| `CoverageTargets` | plan and inventory as data: `DerivePlan` and the plan validators | the finalization modules but `CandidateAttempt` |
| `FinalizationInventory` | the inventory as a value and the events that may be committed on it | `AtomicInventory`, `FinalizationJournal` |
| `AtomicInventory` | **abstract**: the finalization state is one value that changes by whole events | refined by `FinalizationJournal` |
| `FinalizationJournal` | the commit protocol, bootstrap, recovery, failed-run evidence; every write a step; crash, power loss, I/O error | |
| `CandidateAttempt` | one candidate attempt: the lifecycle machine, retry routing, and the resume that rebuilds it | |
| `TargetSettlement` | **abstract**: choices are tried in order and once, each target is settled | refined by `FinalizationRun` |
| `FinalizationRun` | the loop over targets and choices with what it reads once, crash and resume | |
| `ManifestLifecycle` | the manifest and the run directory from creation to a final status, over failures, deaths and resumes | |
| `SequenceSelection` | the loops over lists that proofs need results about: a filtering comprehension (`Without`), repeated `extend` (`Extended`) and a running total (`Total`) | `CoverageTargets`, `FinalizationRun`, `CandidateFilter`, `CoveragePlanning` |
| `SequenceSelectionProofs`, `FinalizationJournalProofs`, `FinalizationRunProofs`, `CandidateAttemptProofs`, `CandidateAttemptOutcomeProofs`, `ManifestLifecycleProofs`, `CandidateFilterProofs`, `CoveragePlanningProofs` | lemmas and theorems | |
| `MC...` | TLC instances | |

The state machines follow one run from its candidates to its manifest.
`CandidateFilter` decides which candidates there are; `CoveragePlanning` turns
them into targets with disjoint, bounded queues (`PlanIsUsable`), which is what
`CoverageTargets` assumes of its `Queue`. The three finalization modules are
layers of one program: `FinalizationJournal` shows that a commit is atomic, so
`CandidateAttempt` and `FinalizationRun` take one commit as one step, and
`CandidateAttempt` shows that every attempt gets a decision, so `FinalizationRun`
takes an attempt as its reservation and its decision. `ManifestLifecycle` lies
around them: what finalization leaves in the directory is one content, and it
follows the files the manifest has to name.

Operators commented "Faulty variant" are not part of a specification. Each is a
plausible slip in the code (a write skipped, a count without its credit, a report
not consulted) that a property is known to catch when it replaces the definition
that follows it.

### 2.1 FinalizationJournal

| Variable | Code |
|---|---|
| `journal`, `inventory`, `plan`, `files` | `.finalization-state.json`, `finalization-inventory.json`, `coverage-plan.json`, published files |
| `unsynced` | a journal that was unlinked but whose directory entry is not fsynced; `PowerLoss` brings it back |
| `manifest`, `launch` | status in `run-manifest.yaml`; `run_pipeline` or `resume_pipeline` |
| `phase`, `write` | where the process is; the document being published, the next write and who asked for it |
| `adapter` | the inventory held by the live `PersistenceAdapter` |

The document's inventory, plan and publication are values; the digest that binds
them is modelled by equality. `atomic_write_text` and `_exclusive_create` are
durable when they return (both fsync file and directory), so each is one step.
The unlink is not: `_publish_journal` unlinks and the adapter fsyncs later. A
commit's content is any event the caller may legally make on the inventory,
`CommittableJournals`, and a commit the plan validators refuse raises before
anything is written.

### 2.2 CandidateAttempt

Durable: `edge` (the last transition), `records`, `invoked`, `rows` (of
`calls.jsonl`), `decision`. The rest is the memory of the machine. One action per
step of `_attempt_candidate`: `Start`, `Revalidate`, `BeginInvocation`,
`AppendCallRow`, `RecordStage`, `EnterFinalizing`, `FinalizePrebehavior`,
`EnterAdmitting`, `Admit`, `RecordTerminal`; `Crash` drops the memory and `Resume`
is `_recover_resume_candidate_state` with everything it calls.

The finalizer, admission and revalidation are deterministic functions of
persisted data. What they will say of an artifact is chosen when it is generated
(`verdict`) and never changes, so a resume that asks again gets the same answer.

### 2.3 FinalizationRun

Durable: `attempted`, `decisions` and the target's `trace`, an attempt being one
state of it. `view`, `reserved`, `terminal` are the plan entries, attempted ids
and decided ids that the code reads once in `run_target_finalization` and passes
down. The loop keeps up `reserved`, and `terminal` when it refuses an interrupted
attempt; a resumed process reads all of them anew. `refs` are the choices the machine has left, built from `view`, not from
the plan on disk.

### 2.4 ManifestLifecycle

| Variable | Code |
|---|---|
| `disk` | the files of the run directory, each with its content: what it was made from, by which process |
| `manifest` | `run-manifest.yaml`: status, and the inventory as file -> content hash |
| `pc`, `mode`, `life` | the next step of the live process, fresh run or resume, which process of the run it is (1, 2, ...) |
| `pub`, `after` | the finalization state being published, and what follows its publication |
| `evalOk`, `reportOk`, `noted` | `eval_success`, `report_success`, the filter's entry of `generation_notes` |
| `filterDown` | history: the filter was in fact unavailable |

One action per write of `run_pipeline` and of the completion tail, in the order of
the code: sentinel manifest, log, support files, checkpoint, STARTED manifest with
the support inventory, finalization state, coverage report, stale products
removed, provisional evaluation and report, authoritative evaluation and report,
final manifest. A content carries its provenance (`made`, `life`, `from`), so that
a report rendered from another scorecard, or a file of an earlier process, is a
different content. `Raise` is an exception at any step that is not caught: a fresh
run recovers the journal and writes a FAILED manifest, a resume leaves the manifest
as it is. `Crash` is the death of the process; a plain write may be cut short
(`CutShort`), an atomic one leaves a temporary file (`stray`), which nothing
removes and the strict inventory refuses.

### 2.5 CandidateFilter

`queued`, `calling`, `rows`, `future` are the tasks: waiting for a worker, in the
attempt loop, the answers they got (`seed_call_logs`), their outcome. `collected`,
`results`, `rejected`, `callLog`, `errors`, `quarantined` belong to the calling
thread, which merges the outcomes in any order (`as_completed`). `mode` is one of
the three ways to treat a failed seed: `raise`, `quarantine`, `advisory`.

The three wire formats of an answer (V3 map, V2 ordinals, typed) come down to one
batch of verdicts under a seed; `Reconciled` is what all of them must satisfy. A
batch that does not reconcile, content that does not parse, and a call that raised
are malformed answers; the second one ends the task with evidence (`protocol`).
Every other failure has no reconciliation evidence. It is `broken` before the first
call (`StartBroken`), or when reconciled verdicts do not resolve (`AnswerReconciled`),
then with its rows. It is `unlogged` when an exception leaves the attempt loop
(`AnswerBreaks`): `_build_call_log_entry` is not guarded and the parser's guard lists
four types, so anything else reaches the handler that makes a failure with
`call_log_entries=[]`, and the rows of the calls already made are gone.

The filter ends in one of three ways. `Return` and `Raise` are
`_escalate_protocol_errors`. The third is `AdmissionBreaks`: in advisory mode, the one
the runner uses, a failed seed's candidates are rebuilt as filtered seeds inside the
`except` clauses, where nothing catches what that raises, such as the validation error
that broke the task in the first place. The exception leaves `filter_candidates` with
no result and no row, also not those of the other seeds; the runner persists rows only
for a `FilterProtocolError` (`pipeline/runner_run.py:714`), so that run fails without
the evidence of its filter calls. `EveryCallEvidenced` is therefore about the two
other endings, and about the rows a task hands over (`HandedOver`).

### 2.6 CoveragePlanning

A behaviour is one call of `plan_generation`; the input is any corpus of qualified
candidates, any cap, either mode. `queues` and `ranks` are the fallback queues and
the edge costs; `assigned` is the flow; `selected`, `pattern`, `turn`, `progressed`
are the round robin; `plan` is the result. `Augment` is one round of the solver, an
augmenting path of least cost in the residual network: the source and sink edges
are implied by where a path may start and by what one more unit into a pattern
costs. Of equally short paths the code takes the one its queue meets first, the
model any. `Take` and `Pass` are one turn of the round robin. `PlanIsUsable` says of
both modes exactly what they report as limited: in coverage mode (`CoverageLimits`) the
targets a pattern serves beyond the first `cap`, in exhaustive mode
(`ExhaustiveLimits`) the ingresses that have a candidate but no target. Identifiers are
numbered in their sort order: the code only compares them.

## 3. Runs

| Run | Configuration | Shows |
|---|---|---|
| `journal` | `FinalizationJournal.cfg` | documents and files agree whenever no journal is pending; nothing published is unknown; exclusive creates never collide; a resume is never refused after a first commit; a FAILED manifest is settled; a journal only goes away completed; the protocol implements `AtomicInventory` |
| `journal_live` | `FinalizationJournal_live.cfg` | opening a run ends: recovery does not loop |
| `attempt` | `CandidateAttempt.cfg` | across crashes: machine and trace agree, edges are legal and contiguous, `calls.jsonl` matches the records, an unknown outcome is never repeated, calls are made only for the stage the trace calls for, admitted scenarios are complete and not stale, the semantic budget holds, the attempt is decided; without a crash, the three rules of section 6 hold |
| `run` | `FinalizationRun.cfg` | no validator refuses what the loop commits or how it ends, one attempt is open, the machine's state is the trace's, the loop implements `TargetSettlement` with its liveness |
| `lifecycle` | `ManifestLifecycle.cfg` | a final manifest is exactly its directory; the products of an authoritative status are of one pass of one process; a FAILED manifest is settled evidence; a persisted plan is resumable; warnings are declared; a final run is not touched; a resumable run gets a final manifest unless a temporary file is left |
| `filter` | `CandidateFilter.cfg` | every candidate has one fate; kept and rejected are justified by a reconciled answer or a declared outage; when it returns or raises its own error, the call log holds all rows the tasks handed over, once and in order |
| `planning` | `CoveragePlanning.cfg` | the flow finds the optimum of a definition by enumeration; a cap is kept, used up and shared out; each candidate is offered once, every ingress is served or uncovered, and limited are exactly those the cap is the reason for |
| `length_budget_crash`, `length_owner_crash`, `nonretryable_crash` | `CandidateAttempt_<property>.cfg` | the first three disagreements of section 6 |
| `filter_warning_crash` | `ManifestLifecycle_FilterWarningKept.cfg` | the fourth |
| `filter_quarantine` | `CandidateFilter_NoSeedDropped.cfg` | the fifth |

### 3.1 Bounds

* `journal`: two targets, one with a fallback and one without, so that a target
  is exhausted, admitted by its fallback, or both are decided; two contents, so
  that a second publication could differ from the first; 12 records, past the
  longest sequence of attempts and decisions; 3 crashes or power losses, so that a
  recovery can itself be interrupted and interrupted again; 2 I/O errors, so that
  the failed-run evidence can fail after the commit has. `Contents` is a symmetry
  set; no liveness property is checked under symmetry.
* `attempt`: `Behavior = 3` stages (a plain one, the tree, behavior). Narrative
  behaves like actor in every rule: only the tree and behavior are special, and
  the theorems of section 4 hold for any number of stages. The budgets are the
  code's (1 and 1). Reports name one owner, two owners, or a violation nobody
  owns. Two crashes cover a crash of a resumed attempt, which is where rebuilt
  counters are rebuilt again.
* `run`: a queue of the full `MAX_TARGET_CHOICES` length, an empty one and one of
  length two; four crashes, so that a target can be interrupted in its attempt, in
  the resumed attempt, and between its last rejection and its exhausted transition.
* `lifecycle`: two deaths, so that a resume can die as well, and one exception
  (every refused finalization is an exception of its own, without a bound);
  `MaxLives` is more processes than these can end.
* `filter`: a seed with two candidates and one with one; batches that are right, in
  another order, and wrong in each way the reconciliation looks for: a candidate
  left out, one twice, one unknown, the other seed's, nothing at all; unparsable
  content and a call that raises; an exception at any answer, after any reconciled one
  and at any advisory admission; both tasks may run at once; all three modes.
* `planning`: every way three targets can rank up to three patterns, so that a path
  can undo two earlier choices, and every five candidates of two patterns on two
  ingresses with a third ingress that has none, so that a queue of three is cut and
  a cap ends in the middle of a lap; caps 1, 2 and none. Rank bounds matter for the
  cost scale, and they depend on the length of a queue (3), not on the corpus.

### 3.2 Fairness and deadlock

`filter` and `planning` check deadlock: a call always gets to its end, the stuttering
step `Over` or `Planned`. The others have `CHECK_DEADLOCK FALSE`: these programs end
(a decided attempt, a settled run, a final manifest). `journal_live` assumes that a
running process takes its next write and nothing else; it does not assume that
anyone resumes. `attempt`, `run` and `lifecycle` assume in addition that an
interrupted run is resumed; `attempt` also that a provider call ends, which the
client's timeout provides; `lifecycle` that a process whose finalization is refused
raises. Crashes are bounded, which stands for "the process does not die forever".

## 4. Proofs

### 4.1 Sequences

`SequenceSelectionProofs` says what `Without`, `Extended` and `Total` return: `Without`
keeps exactly the elements outside the set, in a sequence no longer than the
given one (`WithoutElements`), commutes with concatenation (`WithoutConcat`), and
taking an attempted prefix out of a duplicate-free queue leaves its rest
(`WithoutPrefix`); `Extended` starts with the sequence it extends, and its
when only one of the lists it is extended by has anything `Without` keeps, that is
what `Without` keeps of the whole (`ExtendedPrefix`, `ExtendedSelects`). A `Total` is
unfolded term by term (`TotalUnfolds`), is monotone and linear (`TotalMonotone`,
`TotalPlus`), and changes by what one term changes (`TotalChange`). All are
recursive functions. The induction theorems of the library take an operator and
cannot be instantiated here, so `Induction` states the principle for a set of
numbers, from the existence of a least counterexample (`LeastNumber`), and a proof
instantiates it with the set of the numbers that have the property.

### 4.2 The commit protocol

`FinalizationJournalProofs` proves, for any targets, candidates, queues, contents
and bounds:

* `DerivePlanType`: `DerivePlan` is total; for any attempts and decisions of the
  right type it returns an entry of the right type;
* `Invariance`: the inductive invariant `IInv`;
* every safety property of the run `journal`: `TypeCorrect`, `Quiescent`,
  `NoOrphans`, `NoCollisions`, `NeverRefused`, `FailedSettled`, `CompletedFirst`;
* `Refinement`: the protocol implements `AtomicInventory`.

None of the checked properties is inductive alone: `QuiescentConsistent` speaks of
the moments without a journal, and says nothing of what a journal that is half
published leads to. `IInv` adds what holds in between. The inventory in memory,
on disk and in every journal is well formed, with its digest the plan derived
from it (`InventoryOK`, `JournalOK`); while a journal is pending, the files lie
between what the receipts before it and after it name (`FilesBetween`), so that
publishing again is harmless; each write step knows what the steps before it
left (`WriteProgress`); a journal that may come back after a power loss has
content the documents already have (`Undoable`); the adapter holds the committed
inventory (`AdapterCurrent`). There is one lemma per action. The step of
`Commit` rests on `CommittableOK`: an event legal on an inventory gives a journal
that is well formed with respect to it, whose publication cannot collide because
a candidate is decided once.

### 4.3 The target loop

`FinalizationRunProofs` proves, for any targets, candidates, queues and any number
of crashes and processes:

* `RunInvariance`: the inductive invariant `IInv`;
* every invariant of the run `run`: `RunTypeCorrect`, `OneOpenAttempt`,
  `MachineFollowsTrace`, `NothingRefused` (`ValidatorsAccept`);
* `RefinesSettlement`: the loop implements `TargetSettlement` without its fairness.
  Every step of the loop is a step of the abstract settlement or a stutter.

The loop decides by what it read once (`view`, `reserved`, `terminal`) and what its
machine holds (`refs`), while the validators look at what is on disk; `IInv` is what
ties the two together. `DurableInv` is about the disk alone and survives a crash:
the attempts of a target are a prefix of its queue in which everything but the last
is rejected (`PrefixTried`), the state its trace ends in says how the latest attempt
stands (`StateTells`), the trace has only edges the lifecycle validator accepts, one
segment per attempt (`TraceLegal`), and no target is begun before its
predecessors are settled (`InOrder`). The rest is about a live process: where the
loop stands (`Position`), that the targets it has yet to reach are as it read them
(`ReadsCurrent`), that the ids it has reserved are exactly those attempted
on disk (`ReservedKnown`), and that the choices the machine has left are the untried
rest of the durable queue, behind at most the primary and the attempt it resumes
(`ChoicesLeft`). `ValidatorsAccept` follows from these by
`WithoutPrefix`: the derived fallback and the one the validator expects are the same
rest of the queue.

### 4.4 The attempt

`CandidateAttemptProofs` proves, for any number of stages (at least two), any
retry budgets, any reports of the two checks and any number of crashes:

* `AttemptInvariance`: the inductive invariant `IInv`;
* `AttemptTypeCorrect`, `MachineFollowsTrace`, `UnknownOutcomeEnds`: the
  invariants `TypeOK`, `MachineMatchesTrace`, `UnknownOutcomeIsTerminal`;
* `TraceAlwaysContinues`: the action property `TraceContinues`, so that no crash
  makes a later commit one the validators refuse.

The difficulty is `Resume`: it has to establish the whole invariant, boundaries
and artifacts included, from the durable part. `IInv` therefore says what the
trace alone determines: which stage the last record is of, given where the last
transition leads (`TraceShape`), and that this record has an artifact of every
earlier stage under it (`PrefixKept`). From these, `ResumedStageFacts` shows that
a resume continues where the trace can be continued: a missing stage is only ever
the one after the last record, so a boundary that was not crossed yet is met
right after the tree. `Control` is the machine's half of the invariant.

`CandidateAttemptOutcomeProofs` adds five invariants on top of `IInv`:

* `LogInv`, for `CallLogAgrees` (`CallLogMatchesTrace`): a live process has made as
  many invocations of a stage as there are records of it, plus the open one
  (`Counted`); the records of a stage carry the numbers below their count
  (`Numbered`); the rows are the records' ids, plus at most the open invocation's
  (`RowsKept`). A resume counts the records again and arrives at the same number.
* `AdmitInv`, for `AdmissionIsComplete` (`AdmittedIsComplete`): a snapshot means
  that the last tree had no objection, and every way past the boundary that the
  candidate is qualified.
* `CallInv`, for the action property `OnlyCalledFor` (`CallsAreCalledFor`): where
  the machine stands before a call (`MayCall`), and what it still has to ask again
  after a resume in front of behavior (`AfterTree`).

* `BudgetInv`, for `SemanticBudget` (`SemanticBudgetKept`). The counters die with the
  process, so the argument is about the records: a semantic failure is followed by a
  record of its stage with a higher owner retry index (`FailuresRaise`), indices of a
  stage never fall (`Rising`) and never exceed the budget (`Within`). So the failures
  of a stage inject into `0 .. MAX_OWNER_RETRIES`, and there are at most one more than
  the budget (`RisingAreFew`). What a resume rebuilds is never behind the records
  (`Covered`), and counts the last failure even though no record shows its retry
  (`LastCounted`). That is exactly the credit that also counts length failures
  (section 6): it errs on the safe side of this budget.
* `FreshInv`, for `BudgetsOfOneProcess` (`CrashFreeRetryBudgets`): as long as nothing
  has crashed the counters are what was spent, a length failure is charged to its own
  counter only, and after a failure that is not retryable the machine is past every
  call. This is what shows that the three disagreements of section 6 come from the
  resume and not from the machine.

### 4.5 The manifest, the filter, the plan

`ManifestLifecycleProofs` proves every safety property of the run `lifecycle` for
any number of deaths, exceptions and processes. `TypeOK` with four more conjuncts is
inductive (`LifecycleInvariance`): whatever is started or persisted stands on
support files the manifest binds, before that nothing is persisted
(`SupportBound`); only a process of a run that is not final works, and only a
fresh one collects evidence, with no journal left (`ProcessIsLive`); from the
second pass on the products are of this process and agree, whatever was in the
directory before (`SecondPass`); the first process knows what it noted
(`FirstProcessNotes`). `FinalInventory`, `OneSecondPass`, `FailedIsEvidence`,
`AlwaysResumable`, `WarningsAreDeclared` and the action property `FinalIsForever`
follow.

`CandidateFilterProofs` proves `CandidatesDecided` (`EveryCandidateDecided`) for any
seeds, batches, number of workers and order of completion. `FilterInv` says that a
task leaves pool and attempt loop exactly when it has an outcome (`TasksSettle`),
that a decided outcome splits its seed's candidates in two (`DecisionsSplit`, from
`Reconciled`), and that membership in what is merged is determined by which
outcomes are merged and not by their order (`MergeFollowsOutcomes`,
`ErrorsFollowOutcomes`); `ReturnIsComplete` carries this over the return.

It also proves `FilterTypeCorrect`, `CallsEvidenced` (`EveryCallEvidenced`) and
`ResultIsEvidenced` (`OutputIsEvidenced`). `EvidenceInv` follows the rows of the calls:
those of an open task are the answers it got, those of a settled one are in its
outcome and justify it (`DecidedBy`), unless it failed inside the attempt loop and its
outcome has none, and the shared log holds, seed by seed, the
calls of the merged outcomes that are no failure to escalate, and in the end all that
were handed over, each of them once (`CallsMerged`, `MergedOnce`). Rows of one seed are added by steps
of another only behind them, which is what `WithoutConcat` and `ExtendedSelects` are for.
That a reconciled answer has as many verdicts as the seed has candidates
(`ReconciledLength`) is the bijection behind "no duplicate, none missing".

`CoveragePlanningProofs` proves every invariant of the run `planning` for any corpus,
cap and number of targets: `CapShared` (`CapIsFair`), `PlanningTypeCorrect`,
`PlanUsable` (`PlanIsUsable`) and `AssignmentOptimal` (`AssignmentIsOptimal`).

`PlanInv` has the queues sorted, disjoint and bounded (`QueuesBuilt`), the edges those
of the queues, none with a tie-break above 2 (`EdgesBuilt`), and the flow on the edges
(`FlowOnEdges`). `RankedSorts` shows that ranking a finite set by a strict order lists
each element once, in order: the rank is an injection of the set into as many numbers.
`NoPathLeft` is why the flow serves everyone: an edge of a target without flow is an
augmenting path. With these `CoverageChoices` says what a target may attempt, which is
one half of `PlanIsUsable`. The other half is what the plan reports: `FirstOnes` shows
that those of a finite set of numbers with fewer than k below them are its first k, or
all of it, so the targets of a pattern that are not limited are as many as the cap
allows and come before all others (`FirstAssignees`).

`CapInv` describes the middle of a lap: who had a turn in
lap L has L + 1 candidates or none left, who has not has L or none left (`Lap`).
`WeightsAreLexicographic` is the arithmetic on which the flow's one integer cost
rests: with tie-breaks of at most 2 per target, the scale `2 n + 1` keeps any sum of
them below one shared pair of targets, and the penalty `n * n + 1` keeps all pairs
below one target over the cap.

`AssignmentOptimal` is the correctness of the shortest-path method. The textbook
invariant, that the residual network has no negative cycle, speaks of cycles of any
length; `FlowInv` states its witness instead, prices of the patterns (`Prices`): no target
would rather have another of its patterns at that one's price, and the price of a pattern
lies between the costs of its last and its next unit. TLC cannot check it, since prices
are unbounded; the run `planning` checks what follows from it.
The proof goes in six steps.

1. *A path is a route.* `Route` describes an augmenting path over functions on the
   numbers, which inductions can cut (`RoutePrefix`) and extend (`ReachClosed`);
   `PathIsRoute`, `RouteIsPath` and `RunsAlike` carry routes, their costs and the
   assignment they lead to over to the paths of the model.
2. *Prices survive a round.* Among the prices of the flow, take those at which the start
   of the path pays most (`HighestPrices`; there are such, since no price exceeds the
   cost of the pattern's next unit).
   At these prices some route gains nothing anywhere and ends at a pattern whose next
   unit costs its price, or else the prices of all patterns so reached could be raised
   (`TightRouteEnds`). Hence so does every cheapest route (`CheapIsTight`), and
   augmenting along it leaves the prices in place (`ShortestKeepsPrices`).
3. *A priced flow is cheapest* (`PricedIsCheapest`), among all flows of the same
   targets: what targets pay beyond the prices is a sum over patterns of convex
   surpluses (`SurplusByPattern`), each least at the load the flow has
   (`SurplusLeast`).
4. *One flow for all objectives.* The invariant holds the prices for the weighted costs
   and for every convex cost of the loads alone (`Priced`). A cheapest route also ends at
   a pattern of least load among all its target could reach (`LeastLoad`): a further
   unit costs a whole `ConcentrationScale` more, the tie-breaks of two flows differ by
   at most 2 per target (`TieBound`). This is where the scale of `2 n + 1` and the bound on
   the queue, set in different files of the code, meet.
5. *Objectives are totals.* Overflow and concentration, defined by enumeration, are what
   the units of a pattern cost in turn (`OverflowIsTotal`, `ConcentrationIsTotal`,
   `PaidIsWeighted`).
6. *The plan.* With cost k for unit k step 3 says that no assignment is less
   concentrated, with cost 1 beyond the cap that none overflows less (`PricedIsSpread`),
   and with the weighted costs that of those that equal it in both none has a lower
   tie-break. The first two hold without regard to each other, so the penalty for the
   overflow only confirms what spreading does already.

`RoundsServeMore` adds that a round serves one more target and drops none, whatever it
moves: the solver needs no more rounds than there are targets.

### 4.6 Assumptions, and what is only model-checked

The assumptions are those the modules name, and every passing run evaluates them
on its instance: queues are disjoint, duplicate free and no longer than
`MAX_TARGET_CHOICES`, `none` is not a candidate, an absent document is not a
document, bounds and budgets are naturals, the finalizer never reports a violation
that behavior owns (it runs before behavior exists); a candidate belongs to one
seed and every seed has one; a batch is a seed and a sequence of verdicts, each accept or
reject; malformed answers are not batches; a corpus is finite and its ids are different; `None` is neither a pattern, nor a candidate, nor a plan.

Model-checked only is liveness (`OpeningEnds`, `EventuallyDecided`,
`ResumableRunSettles`, the fair part of `TargetSettlement`), which TLAPS does not reach.

Every other property of a passing run is proved.

## 5. What the models leave out

* Idempotent replay of an event id (`_replayed`): the modelled callers never send
  an event twice. `record_repair` is never reached through the prebehavior
  finalizer that is wired in; it is one more progress event of `FinalizationJournal`.
* A stage callback that raises something else than a typed failure
  (`lifecycle_callback_exception`); a deterministic repair that changes the tree.
* `calls.jsonl` is appended without an fsync, so `CallLogMatchesTrace` is about the
  death of the process and not about power loss.
* `write_failed_manifest` falls back to a plain write when the atomic one fails.
* A crash between the started manifest and the bootstrap journal leaves a run that
  every resume refuses; `ResumeNeverRefused` and `PlanPersistedIsResumable` start
  at the first journal. A run directory in which an atomic write died has a
  temporary file, and no resume can complete it: `ResumableRunSettles` says so.
* Files changed by someone else than the program, and two processes resuming one
  directory: the code takes no lock and promises nothing.
* Hashes, report bytes and evidence cross-checks of the validators; the text of
  prompts, feedback and artifacts; the shape of a manifest beyond status and
  inventory, provenance capture, funnel counts.
* In the filter: candidates whose seed is not one of those passed in, which
  `expand_candidates` rules out; rationales and resolved metadata. In planning:
  the coverage universe, plan references and their revalidation, the gap report.
* The STPA pipeline: its stages are sequential and idempotent over files, and its
  one concurrent part is a parallel map. Expansion, rules, capping, projection,
  diversity, evaluation, catalog qualification: sequential functions of their
  input, which tests reach. Reports, LLM client, CLI, data loading: I/O. The
  acceptance runtime and the tests are not part of the program.

## 6. Where the code and its documents disagree

The first three need a crash in the middle of an attempt: `CrashFreeRetryBudgets`
in the run `attempt` shows that an uninterrupted machine keeps the rules. The
fourth needs one in the completion tail, the fifth none.

1. *The length-retry budget is forgotten.* A resume derives the spent length
   retries from the latest record only (`pipeline/runner_finalization.py:306`). A
   length failure followed by any other record and a crash lets the stage have a
   second retryable completion-length failure; the feature file and
   `pipeline/finalization.py:276` allow one.
2. *A length failure consumes owner-retry budget.* The credit for the last
   violation is given whatever its kind (`runner_finalization.py:1262`); the feature
   file and `finalization.py:278` say a length failure never consumes it.
3. *A final failure is called again.* A crash between the record of a failure that
   is not retryable and the decision lets the resume call the stage again
   (`runner_finalization.py:988` looks at the index only); the comment at
   `finalization.py:154` says such failures terminate.
4. *A warning is lost by a resume.* The note that the candidate filter was
   unavailable lives in the memory of the process that filtered; a resume
   completes the run with `generation_notes=[]` (`pipeline/runner.py:919`), so a
   run that would have ended COMPLETED_WITH_WARNINGS ends COMPLETED. A test
   (`tests/test_projection_runner_integration.py:1610`) says the resumed tail
   "receives the exact production evidence". Notes of presentation fallbacks are
   not lost: they are read again from the admitted scenarios.
5. *Quarantine drops seeds.* With `quarantine_on_failure` only a failure that has
   reconciliation evidence is quarantined (`pipeline/candidate_filter.py:637`). A
   seed whose task broke otherwise is in none of the lists the filter returns;
   the comment at `candidate_filter.py:802` says such a failure makes the run
   "fail cleanly with evidence rather than silently dropping a seed".

## 7. Plan

What is left, in this order; the hazards are those of `PROJECT.json` that have no
property.

1. Callback exceptions and repairs in `CandidateAttempt`, with the terminal result
   that does not fit the open edge (`persistence_adapter_events.py:232`).
2. `StpaRun`: the stages over their files, and the parallel map with its shared
   call log.
3. Projection allocation and diversity selection as operators with a reference
   definition; the gap report as a function of the plan and the inventory.
4. The start of a run in `ManifestLifecycle` together with the bootstrap of
   `FinalizationJournal`, as one composition instead of two views of one directory.

Theorems to come are those of the modules above: every safety property of a passing run
is proved.
