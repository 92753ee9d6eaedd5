--------------------------- MODULE CandidateFilter ---------------------------
(***************************************************************************)
(* The LLM candidate filter, pipeline/candidate_filter.py: one task per    *)
(* seed in a bounded thread pool, at most two calls per seed, every answer *)
(* reconciled against the exact submitted ID set, and the per-seed         *)
(* outcomes merged by the calling thread in the order they complete.       *)
(*                                                                         *)
(* Abstracted: prompts, rationales and the metadata resolved from the      *)
(* candidate lookup; the three wire formats of an answer (V3 map, V2       *)
(* ordinals, typed) are one batch of verdicts.  A candidate's seed is      *)
(* always one of the seeds passed in, as expand_candidates guarantees.     *)
(***************************************************************************)
EXTENDS Naturals, Sequences, FiniteSets, SequencesExt, SequenceSelection

CONSTANTS
  Seeds,       \* seed identifiers that have candidates
  Candidates,  \* candidate identifiers submitted to the filter
  SeedOf,      \* the seed of each candidate
  Batches,     \* the parsed answers a client may give
  Garbage,     \* an answer whose content cannot be parsed (or is None)
  Failure,     \* a call that raised: no answer at all
  Unavailable, \* the row that declares a seed's filter unavailable
  Workers      \* max_workers of the pool

Modes == {"raise", "quarantine", "advisory"}

Ids(b) == {b.verdicts[i].id : i \in DOMAIN b.verdicts}

\* An answer that parses: the seed it names and one verdict per entry.
IsBatch(b) ==
  /\ DOMAIN b = {"seed", "verdicts"}
  /\ b.verdicts \in Seq([id : Ids(b), verdict : {"accept", "reject"}])

Group(s) == {c \in Candidates : SeedOf[c] = s}

ASSUME WorkersAssumption == Workers \in Nat \ {0}
ASSUME SeedOfAssumption == SeedOf \in [Candidates -> Seeds]
ASSUME GroupAssumption == \A s \in Seeds : Group(s) # {}
ASSUME BatchAssumption == \A b \in Batches : IsBatch(b)
ASSUME AnswerAssumption ==
  /\ Garbage \notin Batches /\ Failure \notin Batches
  /\ Unavailable \notin Batches \cup {Garbage, Failure}
  /\ Garbage # Failure

Answers == Batches \cup {Garbage, Failure}

VARIABLES
  mode,        \* quarantine_on_failure / advisory_on_failure
  queued,      \* seeds whose task no worker has taken yet
  calling,     \* seeds whose worker is in the attempt loop
  rows,        \* the calls of each task: their answers, in attempt order
  future,      \* the outcome of each finished task
  collected,   \* seeds whose outcome the caller has merged
  results,     \* candidates of the filtered seeds
  rejected,    \* candidates of all_rejected_verdicts
  callLog,     \* call_log_entries
  errors,      \* protocol_errors, by seed, in completion order
  quarantined, \* seeds of quarantined_seeds
  status       \* "running", "returned", "raised" or "escaped"

vars == <<mode, queued, calling, rows, future, collected, results, rejected,
          callLog, errors, quarantined, status>>
task == <<queued, calling, rows, future>>
merge == <<collected, results, rejected, callLog, errors>>

----------------------------------------------------------------------------
\* The outcome of a task.  A "protocol" failure carries reconciliation
\* evidence, so it can be quarantined; a "broken" task carries the rows of its
\* calls only, an "unlogged" one, failed inside the attempt loop, not even
\* those.
Pending == [kind |-> "pending"]
Decided(accepted, refused, log) ==
  [kind |-> "decided", accepted |-> accepted, rejected |-> refused, log |-> log]
Failed(kind, log) == [kind |-> kind, log |-> log]
IsFailed(f) == f.kind \in {"protocol", "broken", "unlogged"}

Row(s, attempt, answer) == [seed |-> s, attempt |-> attempt, answer |-> answer]
RowsOf(s, answers) == [i \in DOMAIN answers |-> Row(s, i, answers[i])]

With(b, verdict) ==
  {b.verdicts[i].id : i \in {j \in DOMAIN b.verdicts :
                               b.verdicts[j].verdict = verdict}}

NoDuplicates(b) ==
  \A i, j \in DOMAIN b.verdicts :
    b.verdicts[i].id = b.verdicts[j].id => i = j

\* Faulty variant: a batch that leaves a candidate out is taken as it is.
ReconciledPartially(b, s) ==
  b \in Batches /\ b.seed = s /\ NoDuplicates(b) /\ Ids(b) \subseteq Group(s)

\* _reconcile_filter_response on an answer that parsed: the expected seed and
\* exactly one verdict per submitted candidate, in any order.
Reconciled(b, s) ==
  b \in Batches /\ b.seed = s /\ NoDuplicates(b) /\ Ids(b) = Group(s)

Init ==
  /\ mode \in Modes
  /\ queued = Seeds
  /\ calling = {}
  /\ rows = [s \in Seeds |-> <<>>]
  /\ future = [s \in Seeds |-> Pending]
  /\ collected = {}
  /\ results = {} /\ rejected = {} /\ callLog = <<>> /\ errors = <<>>
  /\ quarantined = {}
  /\ status = "running"

----------------------------------------------------------------------------
\* A worker takes a queued task: _duplicate_submitted_ids and
\* _submitted_snapshot pass and the prompt is rendered.
Start(s) ==
  /\ s \in queued /\ Cardinality(calling) < Workers
  /\ queued' = queued \ {s}
  /\ calling' = calling \cup {s}
  /\ UNCHANGED <<mode, rows, future, merge, quarantined, status>>

\* The submission is refused before any call: a duplicated candidate ID, a
\* candidate that does not revalidate, a prompt that does not render.
StartBroken(s) ==
  /\ s \in queued /\ Cardinality(calling) < Workers
  /\ queued' = queued \ {s}
  /\ future' = [future EXCEPT ![s] = Failed("broken", <<>>)]
  /\ UNCHANGED <<mode, calling, rows, merge, quarantined, status>>

\* The task of s ends with outcome f, its rows being log.
Finish(s, log, f) ==
  /\ rows' = [rows EXCEPT ![s] = log]
  /\ calling' = calling \ {s}
  /\ future' = [future EXCEPT ![s] = f]

\* Faulty variant: the exception of _post_reconciliation_results is not
\* wrapped, so the caller sees an infrastructure failure without evidence.
BrokenAfterUnwrapped(s, log) == Failed("broken", <<>>)

\* _post_reconciliation_results raised; the exception carries the rows.
BrokenAfter(s, log) == Failed("broken", RowsOf(s, log))

\* One call returns and is logged; its answer reconciles.  Resolving the
\* verdicts then succeeds or raises.
AnswerReconciled(s, b) ==
  LET log == Append(rows[s], b) IN
  /\ s \in calling /\ Reconciled(b, s)
  /\ \/ Finish(s, log, Decided(With(b, "accept"), With(b, "reject"),
                               RowsOf(s, log)))
     \/ Finish(s, log, BrokenAfter(s, log))
  /\ UNCHANGED <<mode, queued, merge, quarantined, status>>

\* Faulty variant: a third attempt is made.
AttemptsThree == 3

\* `for attempt in (1, 2)`: a malformed answer is retried exactly once.
Attempts == 2

\* One call returns, or raises, and is logged; no usable batch came of it: the
\* content did not parse, with one of the errors _validate_filter_content
\* catches, or did not reconcile.
AnswerMalformed(s, a) ==
  LET log == Append(rows[s], a) IN
  /\ s \in calling /\ ~Reconciled(a, s)
  /\ IF Len(log) < Attempts
     THEN /\ rows' = [rows EXCEPT ![s] = log]
          /\ UNCHANGED <<calling, future>>
     ELSE Finish(s, log, Failed("protocol", RowsOf(s, log)))
  /\ UNCHANGED <<mode, queued, merge, quarantined, status>>

\* One call returns, and handling its answer raises: _build_call_log_entry is
\* not guarded, and _validate_filter_content catches four kinds of error only.
\* The exception leaves the task as it is, and _iter_filter_futures makes a
\* failure of it that carries no rows, of this call or of an earlier one.
AnswerBreaks(s, a) ==
  /\ s \in calling /\ a # Failure
  /\ Finish(s, Append(rows[s], a), Failed("unlogged", <<>>))
  /\ UNCHANGED <<mode, queued, merge, quarantined, status>>

\* Faulty variant: the seed is retained, its filter is not declared missing.
AdvisoryRowsSilently(s) == future[s].log

\* The rows of an advisory admission: the task's, then the declaration.
AdvisoryRows(s) == Append(future[s].log, Row(s, 0, Unavailable))

\* The deltas of _iter_filter_futures, merged by filter_candidates in the
\* order the futures complete; where building one raises, AdmissionBreaks.
Collect(s) ==
  /\ status = "running"
  /\ future[s].kind # "pending" /\ s \notin collected
  /\ collected' = collected \cup {s}
  /\ CASE future[s].kind = "decided" ->
            /\ results' = results \cup future[s].accepted
            /\ rejected' = rejected \cup future[s].rejected
            /\ callLog' = callLog \o future[s].log
            /\ errors' = errors
       [] IsFailed(future[s]) /\ mode = "advisory" ->
            /\ results' = results \cup Group(s)
            /\ callLog' = callLog \o AdvisoryRows(s)
            /\ UNCHANGED <<rejected, errors>>
       [] OTHER ->
            /\ errors' = Append(errors, s)
            /\ UNCHANGED <<results, rejected, callLog>>
  /\ UNCHANGED <<mode, task, quarantined, status>>

\* The advisory admission of a failed seed raises: a FilteredSeed that
\* _rule_eligible_filtered_seeds rebuilds does not validate.  It is called in
\* the except clauses of _iter_filter_futures, so the exception, which is no
\* FilterProtocolError, leaves filter_candidates: the caller gets nothing, not
\* the results and rows already merged either.  The pool is shut down first,
\* which waits for its tasks: those queued still run.
AdmissionBreaks(s) ==
  /\ status = "running" /\ mode = "advisory"
  /\ IsFailed(future[s]) /\ s \notin collected
  /\ status' = "escaped"
  /\ results' = {} /\ rejected' = {} /\ callLog' = <<>>
  /\ UNCHANGED <<mode, task, collected, errors, quarantined>>

\* Faulty variant: only the first failure's rows travel with the exception.
EscalatedRowsOfFirst ==
  IF errors = <<>> THEN callLog ELSE callLog \o future[errors[1]].log

\* All rows: those merged so far, then those of every recorded failure.
EscalatedRows ==
  Extended(callLog, [i \in DOMAIN errors |-> future[errors[i]].log])

\* _escalate_protocol_errors with quarantine on, or no failure to escalate.
Return ==
  /\ status = "running" /\ collected = Seeds
  /\ errors = <<>> \/ mode = "quarantine"
  /\ callLog' = EscalatedRows
  /\ quarantined' = {s \in ToSet(errors) : future[s].kind = "protocol"}
  /\ status' = "returned"
  /\ UNCHANGED <<mode, task, collected, results, rejected, errors>>

\* _escalate_protocol_errors with quarantine off: the caller gets the rows
\* and nothing else.
Raise ==
  /\ status = "running" /\ collected = Seeds
  /\ errors # <<>> /\ mode # "quarantine"
  /\ callLog' = EscalatedRows
  /\ results' = {} /\ rejected' = {}
  /\ status' = "raised"
  /\ UNCHANGED <<mode, task, collected, errors, quarantined>>

Step(s) ==
  \/ Start(s) \/ StartBroken(s)
  \/ \E a \in Answers :
       AnswerReconciled(s, a) \/ AnswerMalformed(s, a) \/ AnswerBreaks(s, a)
  \/ Collect(s) \/ AdmissionBreaks(s)

\* The call is over.
Over == status # "running" /\ UNCHANGED vars

Next == (\E s \in Seeds : Step(s)) \/ Return \/ Raise \/ Over

Spec == Init /\ [][Next]_vars

----------------------------------------------------------------------------
LogRows == [seed : Seeds, attempt : 0 .. Attempts, answer : Answers \cup {Unavailable}]
Logs == Seq(LogRows)

\* The types of the state; a task makes at most two calls, and a seed is in
\* the pool, in the attempt loop, or finished.
TypeOK ==
  /\ mode \in Modes
  /\ queued \subseteq Seeds /\ calling \subseteq Seeds
  /\ Cardinality(calling) <= Workers
  /\ \A s \in Seeds :
       /\ rows[s] \in Seq(Answers) /\ Len(rows[s]) <= 2
       /\ future[s].kind \in {"pending", "decided", "protocol", "broken", "unlogged"}
       /\ future[s].kind = "pending" <=> s \in queued \cup calling
       /\ future[s].kind # "pending" => future[s].log \in Logs
  /\ queued \cap calling = {}
  /\ collected \subseteq {s \in Seeds : future[s].kind # "pending"}
  /\ results \subseteq Candidates /\ rejected \subseteq Candidates
  /\ callLog \in Logs
  /\ errors \in Seq(Seeds) /\ ToSet(errors) \subseteq collected
  /\ quarantined \subseteq Seeds
  /\ status \in {"running", "returned", "raised", "escaped"}

\* The fate of a candidate in the result of the filter.
Fates(c) == {f \in {"kept", "rejected", "quarantined"} :
               CASE f = "kept" -> c \in results
                 [] f = "rejected" -> c \in rejected
                 [] OTHER -> SeedOf[c] \in quarantined}

\* When the filter returns, every submitted candidate is exactly one of kept,
\* rejected and quarantined, whatever the answers, the failures and the order
\* in which the futures complete.  Left out is what the run
\* filter_quarantine shows: a task broken by something other than the
\* protocol, with quarantine on.
EveryCandidateDecided ==
  status = "returned" =>
    \A c \in Candidates :
      \/ Cardinality(Fates(c)) = 1
      \/ mode = "quarantine" /\ future[SeedOf[c]].kind \in {"broken", "unlogged"}

\* "Convert to FilterProtocolError so the run fails cleanly with evidence
\* rather than silently dropping a seed" (candidate_filter.py:802-805): no
\* candidate disappears when the filter returns.  The code violates it.
NoSeedDropped ==
  status = "returned" => \A c \in Candidates : Fates(c) # {}

\* The call log holds an answer for s that gives every candidate of s exactly
\* one verdict, and c this one.
EvidencedVerdict(c, verdict) ==
  \E i \in DOMAIN callLog :
    LET r == callLog[i] IN
    /\ r.seed = SeedOf[c] /\ r.answer \in Batches
    /\ r.answer.seed = SeedOf[c]
    /\ Len(r.answer.verdicts) = Cardinality(Group(SeedOf[c]))
    /\ \A d \in Group(SeedOf[c]) :
         \E k \in DOMAIN r.answer.verdicts : r.answer.verdicts[k].id = d
    /\ \E k \in DOMAIN r.answer.verdicts :
         r.answer.verdicts[k] = [id |-> c, verdict |-> verdict]

DeclaredUnavailable(s) ==
  \E i \in DOMAIN callLog : callLog[i].seed = s /\ callLog[i].answer = Unavailable

\* The call log the caller persists justifies the result: a kept candidate was
\* accepted by a reconciled answer, or the filter of its seed is declared
\* unavailable (the row the run's warning note is made from); a rejected one
\* was rejected by a reconciled answer, never by a malformed batch.
OutputIsEvidenced ==
  status = "returned" =>
    /\ \A c \in results :
         EvidencedVerdict(c, "accept") \/ DeclaredUnavailable(SeedOf[c])
    /\ \A c \in rejected : EvidencedVerdict(c, "reject")

\* The rows of the call log that are calls of s.
NotCallsOf(s) == {r \in LogRows : r.seed # s \/ r.answer = Unavailable}
CallRows(s) == Without(callLog, NotCallsOf(s))

\* The rows a task hands over with its outcome: all its calls, or none if it
\* failed inside the attempt loop.
HandedOver(s) == IF future[s].kind = "unlogged" THEN <<>> ELSE RowsOf(s, rows[s])

\* Whether the filter returns its result or raises FilterProtocolError, the
\* call log it gives the caller holds the calls each task handed over, all of
\* them, once and in the order they were made: also when another seed fails
\* the run, and when the task fails after its verdicts reconciled.  There are
\* no rows where the code keeps none: of a task that an unexpected exception
\* ended inside its attempt loop (AnswerBreaks), and when an exception of
\* another kind leaves the filter (AdmissionBreaks).
EveryCallEvidenced ==
  status \in {"returned", "raised"} => \A s \in Seeds : CallRows(s) = HandedOver(s)
=============================================================================
