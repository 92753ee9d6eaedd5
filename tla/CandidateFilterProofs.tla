------------------------- MODULE CandidateFilterProofs -------------------------
(***************************************************************************)
(* The candidate filter, for any seeds, answers, failures, number of       *)
(* workers and order in which the futures complete:                        *)
(*   - no candidate is lost or decided twice.  The argument follows one    *)
(*     candidate: its fate is the one the outcome of its seed gives it,    *)
(*     once that outcome is merged (FilterInv);                            *)
(*   - what is returned is justified by the call log.  The argument        *)
(*     follows the rows: a task hands the rows of its calls over with its  *)
(*     outcome, except one that failed inside its attempt loop; the merge  *)
(*     appends those of a decided seed, and escalation those of the        *)
(*     recorded failures (EvidenceInv).                                    *)
(***************************************************************************)
EXTENDS CandidateFilter, SequenceSelectionProofs, FiniteSetTheorems

\* A task leaves the pool and the attempt loop when its future has an outcome.
TasksSettle ==
  /\ mode \in Modes /\ status \in {"running", "returned", "raised", "escaped"}
  /\ queued \subseteq Seeds /\ calling \subseteq Seeds /\ queued \cap calling = {}
  /\ future = [s \in Seeds |-> future[s]]
  /\ \A s \in Seeds : future[s].kind \in {"pending", "decided", "protocol", "broken", "unlogged"}
  /\ \A s \in Seeds : future[s].kind = "pending" <=> s \in queued \cup calling
  /\ collected \subseteq {s \in Seeds : future[s].kind # "pending"}

\* A decided outcome splits the candidates of its seed.
Splits(f, s) ==
  f.kind = "decided" =>
    f.accepted \cup f.rejected = Group(s) /\ f.accepted \cap f.rejected = {}

DecisionsSplit == \A s \in Seeds : Splits(future[s], s)

\* What is merged is what the collected outcomes say.
MergeFollowsOutcomes ==
  status \notin {"raised", "escaped"} =>
    \A c \in Candidates :
      LET f == future[SeedOf[c]]
          merged == SeedOf[c] \in collected
      IN  /\ c \in results <=>
               \/ merged /\ f.kind = "decided" /\ c \in f.accepted
               \/ merged /\ IsFailed(f) /\ mode = "advisory"
          /\ c \in rejected <=> merged /\ f.kind = "decided" /\ c \in f.rejected

ErrorsFollowOutcomes ==
  /\ errors \in Seq(Seeds)
  /\ \A s \in Seeds :
       s \in ToSet(errors) <=>
         s \in collected /\ IsFailed(future[s]) /\ mode # "advisory"

\* The call returns when every outcome is merged, and escalates or
\* quarantines every failure.
ReturnIsComplete ==
  status = "returned" =>
    /\ collected = Seeds
    /\ mode = "quarantine" \/ errors = <<>>
    /\ quarantined = {s \in ToSet(errors) : future[s].kind = "protocol"}

FilterInv ==
  /\ TasksSettle
  /\ DecisionsSplit
  /\ MergeFollowsOutcomes
  /\ ErrorsFollowOutcomes
  /\ ReturnIsComplete

-----------------------------------------------------------------------------
LEMMA SeedOfType == ASSUME NEW c \in Candidates PROVE SeedOf[c] \in Seeds
BY SeedOfAssumption

\* The entries of a batch are a sequence of verdicts.
LEMMA BatchEntries ==
  ASSUME NEW b, IsBatch(b)
  PROVE  /\ Len(b.verdicts) \in Nat /\ DOMAIN b.verdicts = 1 .. Len(b.verdicts)
         /\ \A i \in DOMAIN b.verdicts :
              /\ b.verdicts[i].verdict \in {"accept", "reject"}
              /\ b.verdicts[i] = [id |-> b.verdicts[i].id, verdict |-> b.verdicts[i].verdict]
<1>1. PICK ids : b.verdicts \in Seq([id : ids, verdict : {"accept", "reject"}])
  BY DEF IsBatch
<1> DEFINE entries == [id : ids, verdict : {"accept", "reject"}]
<1>2. PICK v \in Seq(entries) : v = b.verdicts
  BY <1>1
<1>3. Len(v) \in Nat /\ DOMAIN v = 1 .. Len(v)
  OBVIOUS
<1>4. ASSUME NEW i \in DOMAIN v
      PROVE  /\ v[i].verdict \in {"accept", "reject"}
             /\ v[i] = [id |-> v[i].id, verdict |-> v[i].verdict]
  <2>1. v[i] \in entries
    <3> HIDE DEF entries
    <3> QED
      BY <1>3, <1>4, ElementOfSeq
  <2> QED
    BY <2>1
<1> QED
  BY <1>2, <1>3, <1>4

\* A batch that reconciles gives every candidate of the seed one verdict.
LEMMA ReconciledSplits ==
  ASSUME NEW b, NEW s \in Seeds, Reconciled(b, s), NEW log
  PROVE  Splits(Decided(With(b, "accept"), With(b, "reject"), log), s)
<1>1. IsBatch(b) /\ NoDuplicates(b) /\ Ids(b) = Group(s)
  BY BatchAssumption DEF Reconciled
<1>4. \A i \in DOMAIN b.verdicts : b.verdicts[i].verdict \in {"accept", "reject"}
  BY <1>1, BatchEntries
<1>2. With(b, "accept") \cup With(b, "reject") = Ids(b)
  BY <1>4 DEF With, Ids
<1>3. With(b, "accept") \cap With(b, "reject") = {}
  BY <1>1 DEF With, NoDuplicates
<1> QED
  BY <1>1, <1>2, <1>3 DEF Splits, Decided

\* What a step of a task changes: the future of a seed that is not collected,
\* once, to an outcome that splits its candidates.
LEMMA TaskStep ==
  ASSUME FilterInv, NEW s \in Seeds,
         \/ Start(s) \/ StartBroken(s)
         \/ \E a \in Answers :
              AnswerReconciled(s, a) \/ AnswerMalformed(s, a) \/ AnswerBreaks(s, a)
  PROVE  /\ UNCHANGED <<mode, collected, results, rejected, errors, quarantined, status>>
         /\ s \notin collected
         /\ future' = [future EXCEPT ![s] = future'[s]]
         /\ Splits(future'[s], s)
         /\ TasksSettle'
<1> USE DEF FilterInv, TasksSettle, merge
<1>1. CASE Start(s)
  <2>1. future' = future /\ UNCHANGED <<mode, collected, status>>
    BY <1>1 DEF Start
  <2>2. queued' = queued \ {s} /\ calling' = calling \cup {s} /\ s \in queued
    BY <1>1 DEF Start
  <2>3. TasksSettle'
    BY <2>1, <2>2
  <2>4. future' = [future EXCEPT ![s] = future'[s]]
    BY <2>1
  <2> QED
    BY <1>1, <2>1, <2>2, <2>3, <2>4 DEF Start, DecisionsSplit
<1>2. CASE StartBroken(s)
  <2>1. /\ future' = [future EXCEPT ![s] = Failed("broken", <<>>)]
        /\ UNCHANGED <<mode, collected, status>>
    BY <1>2 DEF StartBroken
  <2>2. queued' = queued \ {s} /\ calling' = calling /\ s \in queued
    BY <1>2 DEF StartBroken
  <2>3. future'[s].kind = "broken"
    BY <2>1 DEF Failed
  <2>4. \A r \in Seeds \ {s} : future'[r] = future[r]
    BY <2>1
  <2>5. TasksSettle'
    BY <2>1, <2>2, <2>3, <2>4
  <2>6. Splits(future'[s], s)
    BY <2>3 DEF Splits
  <2> QED
    BY <1>2, <2>1, <2>2, <2>5, <2>6 DEF StartBroken
<1>3. ASSUME NEW a \in Answers, AnswerReconciled(s, a)
      PROVE  /\ UNCHANGED <<mode, queued, collected, results, rejected, errors,
                            quarantined, status>>
             /\ s \in calling /\ calling' = calling \ {s}
             /\ \E f : /\ future' = [future EXCEPT ![s] = f]
                       /\ f.kind \in {"decided", "broken"} /\ Splits(f, s)
  <2>1. Reconciled(a, s)
    BY <1>3 DEF AnswerReconciled
  <2>2. \A log : Splits(Decided(With(a, "accept"), With(a, "reject"), log), s)
    BY <2>1, ReconciledSplits
  <2>3. \A log : Splits(BrokenAfter(s, log), s) /\ BrokenAfter(s, log).kind = "broken"
    BY DEF BrokenAfter, Failed, Splits
  <2>4. \A accepted, refused, log : Decided(accepted, refused, log).kind = "decided"
    BY DEF Decided
  <2> HIDE DEF FilterInv, TasksSettle
  <2> QED
    BY <1>3, <2>2, <2>3, <2>4 DEF AnswerReconciled, Finish
<1>4. ASSUME NEW a \in Answers, AnswerMalformed(s, a)
      PROVE  /\ UNCHANGED <<mode, queued, collected, results, rejected, errors,
                            quarantined, status>>
             /\ s \in calling
             /\ \/ UNCHANGED <<calling, future>>
                \/ /\ calling' = calling \ {s}
                   /\ \E f : /\ future' = [future EXCEPT ![s] = f]
                             /\ f.kind = "protocol" /\ Splits(f, s)
  <2>1. \A log : Failed("protocol", log).kind = "protocol"
                   /\ Splits(Failed("protocol", log), s)
    BY DEF Failed, Splits
  <2> HIDE DEF FilterInv, TasksSettle
  <2> QED
    BY <1>4, <2>1 DEF AnswerMalformed, Finish
<1>6. ASSUME NEW a \in Answers, AnswerBreaks(s, a)
      PROVE  /\ UNCHANGED <<mode, queued, collected, results, rejected, errors,
                            quarantined, status>>
             /\ s \in calling /\ calling' = calling \ {s}
             /\ \E f : /\ future' = [future EXCEPT ![s] = f]
                       /\ f.kind = "unlogged" /\ Splits(f, s)
  <2>1. Failed("unlogged", <<>>).kind = "unlogged" /\ Splits(Failed("unlogged", <<>>), s)
    BY DEF Failed, Splits
  <2> HIDE DEF FilterInv, TasksSettle
  <2> QED
    BY <1>6, <2>1 DEF AnswerBreaks, Finish
<1>5. CASE \E a \in Answers :
             AnswerReconciled(s, a) \/ AnswerMalformed(s, a) \/ AnswerBreaks(s, a)
  <2>1. /\ UNCHANGED <<mode, queued, collected, results, rejected, errors,
                       quarantined, status>>
        /\ s \in calling
    BY <1>3, <1>4, <1>5, <1>6
  <2>2. \/ UNCHANGED <<calling, future>>
        \/ /\ calling' = calling \ {s}
           /\ \E f : /\ future' = [future EXCEPT ![s] = f]
                     /\ f.kind \in {"decided", "protocol", "broken", "unlogged"}
                     /\ Splits(f, s)
    BY <1>3, <1>4, <1>5, <1>6
  <2>3. s \notin collected /\ s \notin queued'
    BY <2>1, <2>2
  <2> QED
    BY <2>1, <2>2, <2>3 DEF DecisionsSplit
<1> QED
  BY <1>1, <1>2, <1>5

\* A task's step leaves the merge alone, and the merge looks at collected
\* futures only.
LEMMA TaskStepInv ==
  ASSUME FilterInv, NEW s \in Seeds,
         \/ Start(s) \/ StartBroken(s)
         \/ \E a \in Answers :
              AnswerReconciled(s, a) \/ AnswerMalformed(s, a) \/ AnswerBreaks(s, a)
  PROVE  FilterInv'
<1>1. /\ UNCHANGED <<mode, collected, results, rejected, errors, quarantined, status>>
      /\ s \notin collected
      /\ future' = [future EXCEPT ![s] = future'[s]]
      /\ Splits(future'[s], s)
      /\ TasksSettle'
  BY TaskStep
<1>2. \A r \in Seeds \ {s} : future'[r] = future[r]
  BY <1>1 DEF FilterInv, TasksSettle
<1>3. DecisionsSplit'
  BY <1>1, <1>2 DEF FilterInv, DecisionsSplit, Splits
<1>4. MergeFollowsOutcomes'
  BY <1>1, <1>2, SeedOfType DEF FilterInv, MergeFollowsOutcomes
<1>5. ErrorsFollowOutcomes'
  BY <1>1, <1>2 DEF FilterInv, ErrorsFollowOutcomes
<1>6. ReturnIsComplete'
  BY <1>1, <1>2 DEF FilterInv, ReturnIsComplete
<1> QED
  BY <1>1, <1>3, <1>4, <1>5, <1>6 DEF FilterInv

\* The elements of a sequence with one appended.
LEMMA ToSetAppend ==
  ASSUME NEW seq \in Seq(Seeds), NEW s \in Seeds
  PROVE  /\ Append(seq, s) \in Seq(Seeds)
         /\ ToSet(Append(seq, s)) = ToSet(seq) \cup {s}
<1>1. /\ Append(seq, s) \in Seq(Seeds) /\ Len(Append(seq, s)) = Len(seq) + 1
      /\ \A i \in 1 .. Len(seq) : Append(seq, s)[i] = seq[i]
      /\ Append(seq, s)[Len(seq) + 1] = s
  BY AppendProperties
<1>2. DOMAIN seq = 1 .. Len(seq) /\ DOMAIN Append(seq, s) = 1 .. Len(seq) + 1
      /\ Len(seq) \in Nat
  BY <1>1, LenProperties
<1>3. ASSUME NEW x PROVE x \in ToSet(Append(seq, s)) <=> x \in ToSet(seq) \cup {s}
  <2>1. ASSUME NEW i \in 1 .. Len(seq) + 1, x = Append(seq, s)[i]
        PROVE  x \in ToSet(seq) \cup {s}
    <3>1. CASE i = Len(seq) + 1
      BY <1>1, <2>1, <3>1
    <3>2. CASE i \in 1 .. Len(seq)
      BY <1>1, <1>2, <2>1, <3>2 DEF ToSet
    <3> QED
      BY <1>2, <3>1, <3>2
  <2>2. ASSUME NEW i \in 1 .. Len(seq), x = seq[i]
        PROVE  \E j \in 1 .. Len(seq) + 1 : x = Append(seq, s)[j]
    BY <1>1, <1>2, <2>2
  <2>3. x = s => \E j \in 1 .. Len(seq) + 1 : x = Append(seq, s)[j]
    BY <1>1, <1>2
  <2> HIDE <1>1
  <2> QED
    BY <1>2, <2>1, <2>2, <2>3 DEF ToSet
<1> QED
  BY <1>1, <1>3

\* Merging one outcome extends the merge by what the outcome says.
LEMMA CollectInv ==
  ASSUME FilterInv, NEW s \in Seeds, Collect(s)
  PROVE  FilterInv'
<1> DEFINE f == future[s]
<1>1. /\ status = "running" /\ f.kind # "pending" /\ s \notin collected
      /\ collected' = collected \cup {s}
      /\ UNCHANGED <<mode, queued, calling, future, quarantined, status>>
  BY DEF Collect, task
<1>2. TasksSettle'
  BY <1>1 DEF FilterInv, TasksSettle
<1>3. DecisionsSplit'
  BY <1>1 DEF FilterInv, DecisionsSplit, Splits
<1>4. ReturnIsComplete'
  BY <1>1 DEF ReturnIsComplete
<1>5. f.kind = "decided" \/ IsFailed(f)
  BY <1>1 DEF FilterInv, TasksSettle, IsFailed
<1>6. f.kind = "decided" => ~IsFailed(f)
  BY DEF IsFailed
<1>7. errors \in Seq(Seeds)
  BY DEF FilterInv, ErrorsFollowOutcomes
<1>8. Splits(f, s)
  BY DEF FilterInv, DecisionsSplit
<1>9. CASE f.kind = "decided"
  <2>1. /\ results' = results \cup f.accepted /\ rejected' = rejected \cup f.rejected
        /\ errors' = errors
    BY <1>6, <1>9 DEF Collect
  <2>2. \A c \in f.accepted \cup f.rejected : SeedOf[c] = s
    BY <1>8, <1>9 DEF Splits, Group
  <2>3. MergeFollowsOutcomes'
    BY <1>1, <1>6, <1>9, <2>1, <2>2, SeedOfType DEF FilterInv, MergeFollowsOutcomes
  <2>4. ErrorsFollowOutcomes'
    BY <1>1, <1>6, <1>9, <2>1 DEF FilterInv, ErrorsFollowOutcomes
  <2> QED
    BY <1>2, <1>3, <1>4, <2>3, <2>4 DEF FilterInv
<1>10. CASE IsFailed(f) /\ mode = "advisory"
  <2>1. results' = results \cup Group(s) /\ UNCHANGED <<rejected, errors>>
    BY <1>6, <1>10 DEF Collect
  <2>2. MergeFollowsOutcomes'
    BY <1>1, <1>6, <1>10, <2>1, SeedOfType DEF FilterInv, MergeFollowsOutcomes, Group
  <2>3. ErrorsFollowOutcomes'
    BY <1>1, <1>10, <2>1 DEF FilterInv, ErrorsFollowOutcomes
  <2> QED
    BY <1>2, <1>3, <1>4, <2>2, <2>3 DEF FilterInv
<1>11. CASE IsFailed(f) /\ mode # "advisory"
  <2>1. errors' = Append(errors, s) /\ UNCHANGED <<results, rejected>>
    BY <1>6, <1>11 DEF Collect
  <2>2. MergeFollowsOutcomes'
    BY <1>1, <1>6, <1>11, <2>1, SeedOfType DEF FilterInv, MergeFollowsOutcomes
  <2>3. errors' \in Seq(Seeds) /\ ToSet(errors') = ToSet(errors) \cup {s}
    BY <1>7, <2>1, ToSetAppend
  <2>4. ErrorsFollowOutcomes'
    BY <1>1, <1>11, <2>3 DEF FilterInv, ErrorsFollowOutcomes
  <2> QED
    BY <1>2, <1>3, <1>4, <2>2, <2>4 DEF FilterInv
<1> QED
  BY <1>5, <1>9, <1>10, <1>11

\* An exception that leaves the filter leaves its tasks alone.
LEMMA EscapeInv ==
  ASSUME FilterInv, NEW s \in Seeds, AdmissionBreaks(s)
  PROVE  FilterInv'
<1>1. /\ UNCHANGED <<mode, queued, calling, future, collected, errors>>
      /\ status' = "escaped"
  BY DEF AdmissionBreaks, task
<1>2. DecisionsSplit' /\ ErrorsFollowOutcomes'
  BY <1>1 DEF FilterInv, DecisionsSplit, Splits, ErrorsFollowOutcomes
<1> QED
  BY <1>1, <1>2 DEF FilterInv, TasksSettle, MergeFollowsOutcomes, ReturnIsComplete

-----------------------------------------------------------------------------
\* FilterInv is an invariant, for any seeds, answers and number of workers.
THEOREM FilterInvariance == Spec => []FilterInv
<1>1. Init => FilterInv
  <2> SUFFICES ASSUME Init PROVE FilterInv
    OBVIOUS
  <2>1. TasksSettle
    BY DEF Init, TasksSettle, Pending
  <2>2. DecisionsSplit
    BY DEF Init, DecisionsSplit, Splits, Pending
  <2>3. MergeFollowsOutcomes
    BY DEF Init, MergeFollowsOutcomes
  <2>4. ErrorsFollowOutcomes
    BY DEF Init, ErrorsFollowOutcomes, ToSet
  <2>5. ReturnIsComplete
    BY DEF Init, ReturnIsComplete
  <2> QED
    BY <2>1, <2>2, <2>3, <2>4, <2>5 DEF FilterInv
<1>2. FilterInv /\ [Next]_vars => FilterInv'
  <2> SUFFICES ASSUME FilterInv, [Next]_vars PROVE FilterInv'
    OBVIOUS
  <2>1. ASSUME NEW s \in Seeds, Step(s) PROVE FilterInv'
    BY <2>1, TaskStepInv, CollectInv, EscapeInv DEF Step
  <2>2. CASE Return
    <3>1. UNCHANGED <<mode, queued, calling, future, collected, results, rejected, errors>>
      BY <2>2 DEF Return, task
    <3>2. status = "running" /\ status' = "returned"
      BY <2>2 DEF Return
    <3>3. ReturnIsComplete'
      BY <2>2, <3>1 DEF Return, ReturnIsComplete
    <3>4. DecisionsSplit' /\ ErrorsFollowOutcomes'
      BY <3>1 DEF FilterInv, DecisionsSplit, Splits, ErrorsFollowOutcomes
    <3> QED
      BY <3>1, <3>2, <3>3, <3>4 DEF FilterInv, TasksSettle, MergeFollowsOutcomes
  <2>3. CASE Raise
    <3>1. UNCHANGED <<mode, queued, calling, future, collected, errors>>
      BY <2>3 DEF Raise, task
    <3>2. status' = "raised"
      BY <2>3 DEF Raise
    <3>3. DecisionsSplit' /\ ErrorsFollowOutcomes'
      BY <3>1 DEF FilterInv, DecisionsSplit, Splits, ErrorsFollowOutcomes
    <3> QED
      BY <3>1, <3>2, <3>3 DEF FilterInv, TasksSettle, MergeFollowsOutcomes, ReturnIsComplete
  <2>4. CASE UNCHANGED vars
    BY <2>4 DEF vars, FilterInv, TasksSettle, DecisionsSplit, Splits, MergeFollowsOutcomes,
                ErrorsFollowOutcomes, ReturnIsComplete
  <2> QED
    BY <2>1, <2>2, <2>3, <2>4 DEF Next, Over
<1> QED
  BY <1>1, <1>2, PTL DEF Spec

\* When the filter returns, every candidate is exactly one of kept, rejected
\* and quarantined, a seed broken under quarantine left out.
THEOREM CandidatesDecided == Spec => []EveryCandidateDecided
<1>1. FilterInv => EveryCandidateDecided
  <2> SUFFICES ASSUME FilterInv, status = "returned", NEW c \in Candidates,
                      ~(/\ mode = "quarantine"
                        /\ future[SeedOf[c]].kind \in {"broken", "unlogged"})
               PROVE  Cardinality(Fates(c)) = 1
    BY DEF EveryCandidateDecided
  <2> DEFINE f == future[SeedOf[c]]
  <2>1. SeedOf[c] \in Seeds /\ SeedOf[c] \in collected
    BY SeedOfType DEF FilterInv, ReturnIsComplete
  <2>2. f.kind = "decided" \/ IsFailed(f)
    BY <2>1 DEF FilterInv, TasksSettle, IsFailed
  <2>3. f.kind = "decided" => ~IsFailed(f)
    BY DEF IsFailed
  <2>4. /\ c \in results <=> \/ f.kind = "decided" /\ c \in f.accepted
                             \/ IsFailed(f) /\ mode = "advisory"
        /\ c \in rejected <=> f.kind = "decided" /\ c \in f.rejected
    BY <2>1 DEF FilterInv, MergeFollowsOutcomes
  <2>5. SeedOf[c] \in quarantined <=> f.kind = "protocol" /\ mode # "advisory"
    BY <2>1 DEF FilterInv, ReturnIsComplete, ErrorsFollowOutcomes, IsFailed
  <2>6. f.kind = "decided" => (c \in f.accepted <=> c \notin f.rejected)
    BY <2>1 DEF FilterInv, DecisionsSplit, Splits, Group
  <2>7. IsFailed(f) => mode # "raise"
    <3> SUFFICES ASSUME IsFailed(f), mode = "raise" PROVE FALSE
      OBVIOUS
    <3>1. SeedOf[c] \in ToSet(errors)
      BY <2>1 DEF FilterInv, ErrorsFollowOutcomes
    <3>2. errors = <<>>
      BY DEF FilterInv, ReturnIsComplete
    <3> QED
      BY <3>1, <3>2 DEF ToSet
  <2>8. Fates(c) = {"kept"} \/ Fates(c) = {"rejected"} \/ Fates(c) = {"quarantined"}
    <3>1. CASE f.kind = "decided"
      BY <2>3, <2>4, <2>5, <2>6, <3>1 DEF Fates
    <3>2. CASE IsFailed(f) /\ mode = "advisory"
      BY <2>3, <2>4, <2>5, <3>2 DEF Fates
    <3>3. CASE IsFailed(f) /\ mode = "quarantine"
      BY <2>3, <2>4, <2>5, <3>3 DEF Fates, IsFailed
    <3> QED
      BY <2>2, <2>7, <3>1, <3>2, <3>3 DEF FilterInv, TasksSettle, Modes
  <2> QED
    BY <2>8, FS_Singleton
<1> QED
  BY <1>1, FilterInvariance, PTL

-----------------------------------------------------------------------------
(***************************************************************************)
(* The call log and what it proves of the result.  Tasks and caller are    *)
(* apart: TasksLog says what a task has logged when its outcome appears,   *)
(* MergedOnce, CallsMerged and RowsMerged what the merge has made of the   *)
(* outcomes so far, in whatever order they came.                           *)
(***************************************************************************)
\* What a decided outcome is made of: an answer that reconciles, in its rows.
DecidedBy(f, s) ==
  f.kind = "decided" =>
    \E b \in Batches :
      /\ Reconciled(b, s)
      /\ f.accepted = With(b, "accept") /\ f.rejected = With(b, "reject")
      /\ \E i \in DOMAIN f.log : f.log[i].seed = s /\ f.log[i].answer = b

\* Tasks count their calls, and an outcome carries the rows handed over.
TasksLog ==
  /\ rows \in [Seeds -> Seq(Answers)]
  /\ IsFiniteSet(calling) /\ Cardinality(calling) <= Workers
  /\ \A s \in queued : rows[s] = << >>
  /\ \A s \in calling : Len(rows[s]) < Attempts
  /\ \A s \in Seeds : Len(rows[s]) <= Attempts
  /\ \A s \in Seeds : future[s].kind # "pending" => future[s].log = HandedOver(s)
  /\ \A s \in Seeds : DecidedBy(future[s], s)

\* The caller merges every outcome once.
MergedOnce ==
  /\ callLog \in Logs
  /\ results \subseteq Candidates /\ rejected \subseteq Candidates
  /\ quarantined \subseteq Seeds
  /\ status \in {"returned", "raised"} => collected = Seeds
  /\ \A i, j \in DOMAIN errors : errors[i] = errors[j] => i = j

\* While outcomes are merged, the log holds the rows of those that are no
\* failure to escalate; in the end it holds all that were handed over.
CallsMerged ==
  status # "escaped" =>
    \A s \in Seeds :
      CallRows(s) = IF status # "running" \/ (s \in collected /\ s \notin ToSet(errors))
                    THEN HandedOver(s) ELSE << >>

\* The log holds row r.
Holds(r) == \E j \in DOMAIN callLog : callLog[j] = r

\* What is merged has its rows in the log.
RowsMerged ==
  status # "escaped" =>
    \A s \in collected :
      /\ future[s].kind = "decided" =>
           \A i \in DOMAIN future[s].log : Holds(future[s].log[i])
      /\ IsFailed(future[s]) /\ mode = "advisory" => Holds(Row(s, 0, Unavailable))

EvidenceInv == TasksLog /\ MergedOnce /\ CallsMerged /\ RowsMerged

\* The rows of a task are calls of its seed, and of no other.
LEMMA CalledRows ==
  ASSUME NEW r \in Seeds, NEW q \in Seq(Answers), Len(q) <= Attempts
  PROVE  /\ RowsOf(r, q) \in Logs /\ Len(RowsOf(r, q)) = Len(q)
         /\ \A i \in 1 .. Len(q) : RowsOf(r, q)[i] = Row(r, i, q[i])
         /\ \A s \in Seeds : Without(RowsOf(r, q), NotCallsOf(s)) =
                               IF r = s THEN RowsOf(r, q) ELSE << >>
<1> DEFINE log == RowsOf(r, q)
<1>1. /\ Len(q) \in Nat /\ DOMAIN q = 1 .. Len(q)
      /\ \A i \in 1 .. Len(q) : q[i] \in Answers
  OBVIOUS
<1>2. ASSUME NEW i \in 1 .. Len(q) PROVE Row(r, i, q[i]) \in LogRows
  <2>1. i \in 0 .. Attempts
    BY <1>1 DEF Attempts
  <2>2. q[i] \in Answers
    BY <1>1
  <2> QED
    BY <2>1, <2>2 DEF Row, LogRows
<1>3. log = [i \in 1 .. Len(q) |-> Row(r, i, q[i])]
  BY <1>1 DEF RowsOf
<1>4. log \in [1 .. Len(q) -> LogRows]
  BY <1>2, <1>3
<1>5. log \in Seq(LogRows) /\ Len(log) = Len(q)
  BY <1>1, <1>4
<1>6. ASSUME NEW s \in Seeds, NEW i \in 1 .. Len(log)
      PROVE  log[i] \in NotCallsOf(s) <=> r # s
  <2>1. log[i] = Row(r, i, q[i]) /\ log[i] \in LogRows /\ q[i] \in Answers
    BY <1>1, <1>2, <1>3, <1>5
  <2>2. log[i].seed = r /\ log[i].answer = q[i] /\ q[i] # Unavailable
    BY <2>1, AnswerAssumption DEF Row, Answers
  <2> QED
    BY <2>1, <2>2 DEF NotCallsOf
<1> HIDE DEF log
<1>7. ASSUME NEW s \in Seeds PROVE Without(log, NotCallsOf(s)) = IF r = s THEN log ELSE << >>
  BY <1>5, <1>6, WithoutAllOrNone
<1> QED
  BY <1>3, <1>5, <1>7 DEF log, Logs

\* So are the rows it hands over.
LEMMA HandedRows ==
  ASSUME NEW r \in Seeds, rows[r] \in Seq(Answers), Len(rows[r]) <= Attempts
  PROVE  /\ HandedOver(r) \in Logs
         /\ \A s \in Seeds : Without(HandedOver(r), NotCallsOf(s)) =
                               IF r = s THEN HandedOver(r) ELSE << >>
<1>1. PICK q \in Seq(Answers) : q = rows[r] /\ Len(q) <= Attempts
  OBVIOUS
<1>2. /\ RowsOf(r, q) \in Logs
      /\ \A s \in Seeds : Without(RowsOf(r, q), NotCallsOf(s)) =
                            IF r = s THEN RowsOf(r, q) ELSE << >>
  BY <1>1, CalledRows
<1>3. << >> \in Logs /\ \A s \in Seeds : Without(<< >>, NotCallsOf(s)) = << >>
  <2>1. << >> \in Seq(LogRows)
    OBVIOUS
  <2>2. PICK e \in Seq(LogRows) : e = << >>
    BY <2>1
  <2>3. \A s \in Seeds : Without(e, NotCallsOf(s)) = << >>
    <3> SUFFICES ASSUME NEW s \in Seeds PROVE Without(e, NotCallsOf(s)) = << >>
      OBVIOUS
    <3>1. \A i \in 1 .. Len(e) : e[i] \in NotCallsOf(s)
      BY <2>2
    <3> QED
      BY <3>1, WithoutAllOrNone
  <2> QED
    BY <2>2, <2>3 DEF Logs
<1>4. CASE future[r].kind = "unlogged"
  <2>1. HandedOver(r) = << >>
    BY <1>4 DEF HandedOver
  <2> QED
    BY <1>3, <2>1
<1>5. CASE future[r].kind # "unlogged"
  <2>1. HandedOver(r) = RowsOf(r, q)
    BY <1>1, <1>5 DEF HandedOver
  <2> QED
    BY <1>2, <2>1
<1> QED
  BY <1>4, <1>5

\* An append to the calls of a task.
LEMMA OneMoreCall ==
  ASSUME TasksLog, NEW s \in calling, s \in Seeds, NEW a \in Answers
  PROVE  /\ Append(rows[s], a) \in Seq(Answers)
         /\ Len(Append(rows[s], a)) = Len(rows[s]) + 1 /\ Len(rows[s]) \in Nat
         /\ Len(Append(rows[s], a)) <= Attempts
         /\ Append(rows[s], a)[Len(rows[s]) + 1] = a
<1>1. rows[s] \in Seq(Answers) /\ Len(rows[s]) < Attempts
  BY DEF TasksLog
<1>2. PICK q \in Seq(Answers) : q = rows[s]
  BY <1>1
<1>3. /\ Append(q, a) \in Seq(Answers) /\ Len(Append(q, a)) = Len(q) + 1
      /\ Append(q, a)[Len(q) + 1] = a /\ Len(q) \in Nat
  BY AppendProperties
<1> QED
  BY <1>1, <1>2, <1>3 DEF Attempts

\* A task that ends leaves its rows in its outcome.
LEMMA FinishLogs ==
  ASSUME FilterInv, TasksLog, NEW s \in calling, NEW log, NEW f,
         log \in Seq(Answers), Len(log) <= Attempts, Finish(s, log, f), queued' = queued,
         f.log = (IF f.kind = "unlogged" THEN << >> ELSE RowsOf(s, log)), DecidedBy(f, s)
  PROVE  /\ TasksLog'
         /\ \A r \in Seeds \ {s} : rows'[r] = rows[r] /\ future'[r] = future[r]
<1>1. /\ s \in Seeds /\ s \notin queued /\ calling \subseteq Seeds /\ queued \subseteq Seeds
      /\ future = [r \in Seeds |-> future[r]]
  BY DEF FilterInv, TasksSettle
<1>2. /\ rows' = [rows EXCEPT ![s] = log] /\ calling' = calling \ {s}
      /\ future' = [future EXCEPT ![s] = f]
  BY DEF Finish
<1>3. rows \in [Seeds -> Seq(Answers)]
  BY DEF TasksLog
<1>4. /\ rows' \in [Seeds -> Seq(Answers)] /\ rows'[s] = log /\ future'[s] = f
      /\ \A r \in Seeds \ {s} : rows'[r] = rows[r] /\ future'[r] = future[r]
  BY <1>1, <1>2, <1>3
<1>5. IsFiniteSet(calling') /\ Cardinality(calling') <= Workers
  <2>1. /\ IsFiniteSet(calling) /\ Cardinality(calling) \in Nat
        /\ Cardinality(calling) <= Workers
    BY FS_CardinalityType DEF TasksLog
  <2>2. IsFiniteSet(calling') /\ Cardinality(calling') = Cardinality(calling) - 1
    BY <1>2, <2>1, FS_RemoveElement
  <2> QED
    BY <2>1, <2>2, WorkersAssumption
<1>6. /\ \A r \in queued' : rows'[r] = << >>
      /\ \A r \in calling' : Len(rows'[r]) < Attempts
      /\ \A r \in Seeds : Len(rows'[r]) <= Attempts
  BY <1>1, <1>2, <1>4 DEF TasksLog
<1>7. \A r \in Seeds :
        future'[r].kind # "pending" =>
          future'[r].log = IF future'[r].kind = "unlogged" THEN << >> ELSE RowsOf(r, rows'[r])
  BY <1>1, <1>4 DEF TasksLog, HandedOver
<1>8. \A r \in Seeds : DecidedBy(future'[r], r)
  BY <1>1, <1>4 DEF TasksLog
<1> QED
  BY <1>4, <1>5, <1>6, <1>7, <1>8 DEF TasksLog, DecidedBy, HandedOver

\* A step of a task keeps what tasks log, and touches no other task.
LEMMA TaskRows ==
  ASSUME FilterInv, TasksLog, NEW s \in Seeds,
         \/ Start(s) \/ StartBroken(s)
         \/ \E a \in Answers :
              AnswerReconciled(s, a) \/ AnswerMalformed(s, a) \/ AnswerBreaks(s, a)
  PROVE  /\ TasksLog' /\ callLog' = callLog
         /\ \A r \in Seeds \ {s} : rows'[r] = rows[r] /\ future'[r] = future[r]
<1>1. /\ queued \subseteq Seeds /\ calling \subseteq Seeds /\ queued \cap calling = {}
      /\ future = [r \in Seeds |-> future[r]]
      /\ rows \in [Seeds -> Seq(Answers)]
  BY DEF FilterInv, TasksSettle, TasksLog
<1>2. IsFiniteSet(calling) /\ Cardinality(calling) \in Nat
  BY FS_CardinalityType DEF TasksLog
<1>3. CASE Start(s)
  <2>1. /\ s \in queued /\ Cardinality(calling) < Workers /\ queued' = queued \ {s}
        /\ calling' = calling \cup {s} /\ UNCHANGED <<rows, future, callLog>>
    BY <1>3 DEF Start, merge
  <2>2. s \notin calling
    BY <1>1, <2>1
  <2>3. IsFiniteSet(calling') /\ Cardinality(calling') <= Workers
    <3>1. IsFiniteSet(calling') /\ Cardinality(calling') = Cardinality(calling) + 1
      BY <1>2, <2>1, <2>2, FS_AddElement
    <3> QED
      BY <1>2, <2>1, <3>1, WorkersAssumption
  <2>4. rows[s] = << >> /\ Len(<< >>) = 0 /\ 0 < Attempts
    BY <2>1 DEF TasksLog, Attempts
  <2>5. \A r \in calling' : Len(rows[r]) < Attempts
    BY <2>1, <2>4 DEF TasksLog
  <2> QED
    BY <2>1, <2>3, <2>5 DEF TasksLog, DecidedBy, HandedOver
<1>4. CASE StartBroken(s)
  <2>1. /\ s \in queued /\ queued' = queued \ {s}
        /\ future' = [future EXCEPT ![s] = Failed("broken", << >>)]
        /\ UNCHANGED <<calling, rows, callLog>>
    BY <1>4 DEF StartBroken, merge
  <2>2. /\ future'[s] = Failed("broken", << >>)
        /\ \A r \in Seeds \ {s} : future'[r] = future[r]
    BY <1>1, <2>1
  <2>3. rows[s] = << >>
    BY <2>1 DEF TasksLog
  <2>4. RowsOf(s, << >>) = << >>
    BY DEF RowsOf
  <2>5. future'[s].log = RowsOf(s, rows[s]) /\ future'[s].kind = "broken"
    BY <2>2, <2>3, <2>4 DEF Failed
  <2>6. \A r \in Seeds :
          future'[r].kind # "pending" =>
            future'[r].log = IF future'[r].kind = "unlogged" THEN << >> ELSE RowsOf(r, rows[r])
    BY <2>2, <2>5 DEF TasksLog, HandedOver
  <2>7. \A r \in Seeds : DecidedBy(future'[r], r)
    BY <2>2, <2>5 DEF TasksLog, DecidedBy
  <2> QED
    BY <2>1, <2>2, <2>6, <2>7 DEF TasksLog, DecidedBy, HandedOver
<1>5. ASSUME NEW a \in Answers, AnswerReconciled(s, a)
      PROVE  TasksLog' /\ \A r \in Seeds \ {s} : rows'[r] = rows[r] /\ future'[r] = future[r]
  <2>1. PICK log : log = Append(rows[s], a)
    OBVIOUS
  <2>2. s \in calling /\ Reconciled(a, s) /\ a \in Batches /\ queued' = queued
    BY <1>5 DEF AnswerReconciled, Reconciled
  <2>3. /\ log \in Seq(Answers) /\ Len(log) = Len(rows[s]) + 1 /\ Len(rows[s]) \in Nat
        /\ Len(log) <= Attempts /\ log[Len(rows[s]) + 1] = a
    BY <2>1, <2>2, OneMoreCall
  <2>4. CASE Finish(s, log, BrokenAfter(s, log))
    <3>1. /\ BrokenAfter(s, log).log = RowsOf(s, log) /\ BrokenAfter(s, log).kind = "broken"
          /\ DecidedBy(BrokenAfter(s, log), s)
      BY DEF BrokenAfter, Failed, DecidedBy
    <3> QED
      BY <2>2, <2>3, <2>4, <3>1, FinishLogs
  <2>5. CASE Finish(s, log, Decided(With(a, "accept"), With(a, "reject"), RowsOf(s, log)))
    <3> DEFINE f == Decided(With(a, "accept"), With(a, "reject"), RowsOf(s, log))
    <3>1. /\ f.log = RowsOf(s, log) /\ f.kind = "decided"
          /\ f.accepted = With(a, "accept") /\ f.rejected = With(a, "reject")
      BY DEF Decided
    <3>2. \E i \in DOMAIN f.log : f.log[i].seed = s /\ f.log[i].answer = a
      <4>1. PICK i \in Nat : i = Len(log) /\ i = Len(rows[s]) + 1
        BY <2>3
      <4>2. i \in DOMAIN log /\ log[i] = a
        BY <2>3, <4>1
      <4>3. i \in DOMAIN RowsOf(s, log) /\ RowsOf(s, log)[i] = Row(s, i, a)
        BY <4>2 DEF RowsOf
      <4> QED
        BY <3>1, <4>3 DEF Row
    <3>3. DecidedBy(f, s)
      BY <2>2, <3>1, <3>2 DEF DecidedBy
    <3>4. Finish(s, log, f)
      BY <2>5
    <3> HIDE DEF f
    <3> QED
      BY <2>2, <2>3, <3>1, <3>3, <3>4, FinishLogs
  <2> QED
    BY <1>5, <2>1, <2>4, <2>5 DEF AnswerReconciled
<1>6. ASSUME NEW a \in Answers, AnswerMalformed(s, a)
      PROVE  TasksLog' /\ \A r \in Seeds \ {s} : rows'[r] = rows[r] /\ future'[r] = future[r]
  <2>1. PICK log : log = Append(rows[s], a)
    OBVIOUS
  <2>2. s \in calling /\ queued' = queued
    BY <1>6 DEF AnswerMalformed
  <2>3. log \in Seq(Answers) /\ Len(log) <= Attempts
    BY <2>1, <2>2, OneMoreCall
  <2>4. CASE Finish(s, log, Failed("protocol", RowsOf(s, log)))
    <3>1. /\ Failed("protocol", RowsOf(s, log)).log = RowsOf(s, log)
          /\ Failed("protocol", RowsOf(s, log)).kind = "protocol"
          /\ DecidedBy(Failed("protocol", RowsOf(s, log)), s)
      BY DEF Failed, DecidedBy
    <3> QED
      BY <2>2, <2>3, <2>4, <3>1, FinishLogs
  <2>5. CASE /\ Len(log) < Attempts /\ rows' = [rows EXCEPT ![s] = log]
             /\ UNCHANGED <<calling, future>>
    <3>1. /\ rows' \in [Seeds -> Seq(Answers)] /\ rows'[s] = log
          /\ \A r \in Seeds \ {s} : rows'[r] = rows[r]
      BY <1>1, <2>3, <2>5
    <3>2. future[s].kind = "pending" /\ s \notin queued
      BY <1>1, <2>2 DEF FilterInv, TasksSettle
    <3>3. /\ \A r \in queued' : rows'[r] = << >>
          /\ \A r \in calling' : Len(rows'[r]) < Attempts
          /\ \A r \in Seeds : Len(rows'[r]) <= Attempts
      BY <1>1, <2>2, <2>3, <2>5, <3>1, <3>2 DEF TasksLog
    <3>4. \A r \in Seeds :
            future'[r].kind # "pending" =>
              future'[r].log = IF future'[r].kind = "unlogged" THEN << >> ELSE RowsOf(r, rows'[r])
      BY <2>5, <3>1, <3>2 DEF TasksLog, HandedOver
    <3> QED
      BY <2>5, <3>1, <3>3, <3>4 DEF TasksLog, DecidedBy, HandedOver
  <2> QED
    BY <1>6, <2>1, <2>4, <2>5 DEF AnswerMalformed
<1>10. ASSUME NEW a \in Answers, AnswerBreaks(s, a)
       PROVE  TasksLog' /\ \A r \in Seeds \ {s} : rows'[r] = rows[r] /\ future'[r] = future[r]
  <2>1. PICK log : log = Append(rows[s], a)
    OBVIOUS
  <2>2. s \in calling /\ queued' = queued /\ Finish(s, log, Failed("unlogged", << >>))
    BY <1>10, <2>1 DEF AnswerBreaks
  <2>3. log \in Seq(Answers) /\ Len(log) <= Attempts
    BY <2>1, <2>2, OneMoreCall
  <2>4. /\ Failed("unlogged", << >>).log = << >> /\ Failed("unlogged", << >>).kind = "unlogged"
        /\ DecidedBy(Failed("unlogged", << >>), s)
    BY DEF Failed, DecidedBy
  <2> QED
    BY <2>2, <2>3, <2>4, FinishLogs
<1>7. CASE \E a \in Answers :
             AnswerReconciled(s, a) \/ AnswerMalformed(s, a) \/ AnswerBreaks(s, a)
  <2>1. callLog' = callLog
    BY <1>7 DEF AnswerReconciled, AnswerMalformed, AnswerBreaks, merge
  <2> QED
    BY <1>5, <1>6, <1>7, <1>10, <2>1
<1>8. Start(s) \/ StartBroken(s) => callLog' = callLog
  BY DEF Start, StartBroken, merge
<1>9. CASE Start(s)
  BY <1>3, <1>8, <1>9 DEF Start
<1> QED
  BY <1>3, <1>4, <1>7, <1>8, <1>9

\* Nothing is merged while a task takes a step.
LEMMA TaskKeepsEvidence ==
  ASSUME FilterInv, EvidenceInv, NEW s \in Seeds,
         \/ Start(s) \/ StartBroken(s)
         \/ \E a \in Answers :
              AnswerReconciled(s, a) \/ AnswerMalformed(s, a) \/ AnswerBreaks(s, a)
  PROVE  EvidenceInv'
<1>1. /\ UNCHANGED <<mode, collected, results, rejected, errors, quarantined, status>>
      /\ s \notin collected
  BY TaskStep
<1>2. /\ TasksLog' /\ callLog' = callLog
      /\ \A r \in Seeds \ {s} : rows'[r] = rows[r] /\ future'[r] = future[r]
  BY TaskRows DEF EvidenceInv
<1>3. MergedOnce'
  BY <1>1, <1>2 DEF EvidenceInv, MergedOnce
<1>4. CallsMerged'
  <2>1. status \in {"running", "escaped"}
    BY <1>1 DEF FilterInv, TasksSettle, EvidenceInv, MergedOnce
  <2> QED
    BY <1>1, <1>2, <2>1 DEF EvidenceInv, CallsMerged, CallRows, HandedOver
<1>5. RowsMerged'
  <2>1. collected \subseteq Seeds \ {s}
    BY <1>1 DEF FilterInv, TasksSettle
  <2> QED
    BY <1>1, <1>2, <2>1 DEF EvidenceInv, RowsMerged, Holds, IsFailed
<1> QED
  BY <1>2, <1>3, <1>4, <1>5 DEF EvidenceInv

-----------------------------------------------------------------------------
\* A log that grows at its end loses no row.
LEMMA RowsKept ==
  ASSUME NEW p \in Logs, NEW q \in Logs
  PROVE  /\ p \o q \in Logs
         /\ \A x : (\E i \in DOMAIN p : p[i] = x) \/ (\E i \in DOMAIN q : q[i] = x)
                  => \E j \in DOMAIN (p \o q) : (p \o q)[j] = x
<1>1. /\ p \o q \in Logs /\ Len(p \o q) = Len(p) + Len(q)
      /\ \A i \in 1 .. Len(p) + Len(q) :
           (p \o q)[i] = IF i <= Len(p) THEN p[i] ELSE q[i - Len(p)]
  BY ConcatProperties DEF Logs
<1>2. /\ Len(p) \in Nat /\ Len(q) \in Nat /\ DOMAIN p = 1 .. Len(p) /\ DOMAIN q = 1 .. Len(q)
      /\ DOMAIN (p \o q) = 1 .. Len(p) + Len(q)
  BY <1>1, LenProperties DEF Logs
<1>3. ASSUME NEW i \in 1 .. Len(p) PROVE \E j \in DOMAIN (p \o q) : (p \o q)[j] = p[i]
  <2>1. i \in 1 .. Len(p) + Len(q) /\ i <= Len(p)
    BY <1>2
  <2> QED
    BY <1>1, <1>2, <2>1
<1>4. ASSUME NEW i \in 1 .. Len(q) PROVE \E j \in DOMAIN (p \o q) : (p \o q)[j] = q[i]
  <2>1. /\ Len(p) + i \in 1 .. Len(p) + Len(q) /\ ~ (Len(p) + i <= Len(p))
        /\ (Len(p) + i) - Len(p) = i
    BY <1>2
  <2>2. (p \o q)[Len(p) + i] = q[i]
    BY <1>1, <2>1
  <2> QED
    BY <1>2, <2>1, <2>2
<1> QED
  BY <1>1, <1>2, <1>3, <1>4

LEMMA LogGrows ==
  ASSUME callLog \in Logs, NEW more \in Logs, callLog' = callLog \o more
  PROVE  /\ callLog' \in Logs
         /\ \A x : Holds(x) \/ (\E i \in DOMAIN more : more[i] = x) => Holds(x)'
<1>1. PICK p \in Logs : p = callLog
  OBVIOUS
<1>2. /\ p \o more \in Logs
      /\ \A x : (\E i \in DOMAIN p : p[i] = x) \/ (\E i \in DOMAIN more : more[i] = x)
               => \E j \in DOMAIN (p \o more) : (p \o more)[j] = x
  BY RowsKept
<1>3. callLog' = p \o more
  BY <1>1
<1>4. ASSUME NEW x, Holds(x) \/ \E i \in DOMAIN more : more[i] = x
      PROVE  Holds(x)'
  <2>1. (\E i \in DOMAIN p : p[i] = x) \/ \E i \in DOMAIN more : more[i] = x
    BY <1>1, <1>4 DEF Holds
  <2>2. \E j \in DOMAIN (p \o more) : (p \o more)[j] = x
    BY <1>2, <2>1
  <2> QED
    BY <1>3, <2>2 DEF Holds
<1> QED
  BY <1>2, <1>3, <1>4

\* The rows of an advisory admission: the calls, and a row that is none.
LEMMA AdvisoryLog ==
  ASSUME NEW s \in Seeds, NEW log \in Logs
  PROVE  LET more == Append(log, Row(s, 0, Unavailable))
         IN  /\ more \in Logs
             /\ \E i \in DOMAIN more : more[i] = Row(s, 0, Unavailable)
             /\ \A t \in Seeds : Without(more, NotCallsOf(t)) = Without(log, NotCallsOf(t))
<1>1. PICK r \in LogRows : r = Row(s, 0, Unavailable)
  <2>1. 0 \in 0 .. Attempts
    BY DEF Attempts
  <2>2. Row(s, 0, Unavailable) \in LogRows
    BY <2>1 DEF Row, LogRows
  <2> QED
    BY <2>2
<1>2. /\ Append(log, r) \in Logs /\ Append(log, r) = log \o <<r>>
      /\ Len(Append(log, r)) = Len(log) + 1 /\ Append(log, r)[Len(log) + 1] = r
      /\ Len(log) \in Nat
  BY AppendProperties, AppendIsConcat, LenProperties DEF Logs
<1>3. \E i \in DOMAIN Append(log, r) : Append(log, r)[i] = r
  <2>1. DOMAIN Append(log, r) = 1 .. Len(Append(log, r))
    BY <1>2, LenProperties DEF Logs
  <2>2. Len(log) + 1 \in 1 .. Len(log) + 1
    BY <1>2
  <2> QED
    BY <1>2, <2>1, <2>2
<1>4. ASSUME NEW t \in Seeds
      PROVE  Without(log \o <<r>>, NotCallsOf(t)) = Without(log, NotCallsOf(t))
  <2>1. r \in NotCallsOf(t)
    BY <1>1 DEF NotCallsOf, Row
  <2>2. PICK u \in Seq(LogRows) : u = <<r>> /\ Len(u) = 1 /\ u[1] = r
    <3>1. <<r>> \in Seq(LogRows)
      OBVIOUS
    <3>2. Len(<<r>>) = 1 /\ <<r>>[1] = r
      OBVIOUS
    <3> QED
      BY <3>1, <3>2
  <2>3. Without(u, NotCallsOf(t)) = << >>
    <3>1. \A i \in 1 .. Len(u) : u[i] \in NotCallsOf(t)
      BY <2>1, <2>2
    <3> QED
      BY <3>1, WithoutAllOrNone
  <2>4. Without(log \o u, NotCallsOf(t)) =
          Without(log, NotCallsOf(t)) \o Without(u, NotCallsOf(t))
    BY WithoutConcat DEF Logs
  <2>5. Without(log, NotCallsOf(t)) \in Seq(LogRows)
    BY WithoutElements DEF Logs
  <2> QED
    BY <2>2, <2>3, <2>4, <2>5, ConcatEmptySeq
<1> QED
  BY <1>1, <1>2, <1>3, <1>4

\* The log extended by lists that hold the calls of s and nothing of other seeds.
LEMMA CallsAppended ==
  ASSUME EvidenceInv, status = "running", status' = status, NEW s \in Seeds,
         s \notin collected, collected' = collected \cup {s}, errors' = errors,
         s \notin ToSet(errors), UNCHANGED <<rows, future>>,
         NEW more \in Logs, callLog' = callLog \o more,
         \A t \in Seeds : Without(more, NotCallsOf(t)) =
                            IF s = t THEN HandedOver(s) ELSE << >>
  PROVE  CallsMerged'
<1> SUFFICES ASSUME NEW t \in Seeds
             PROVE  Without(callLog', NotCallsOf(t)) =
                      IF t \in collected' /\ t \notin ToSet(errors)
                      THEN HandedOver(t) ELSE << >>
  BY DEF CallsMerged, CallRows, HandedOver
<1>1. callLog \in Seq(LogRows) /\ more \in Seq(LogRows)
  BY DEF EvidenceInv, MergedOnce, Logs
<1>2. Without(callLog', NotCallsOf(t)) =
        Without(callLog, NotCallsOf(t)) \o Without(more, NotCallsOf(t))
  BY <1>1, WithoutConcat
<1>3. Without(callLog, NotCallsOf(t)) =
        IF t \in collected /\ t \notin ToSet(errors) THEN HandedOver(t) ELSE << >>
  BY DEF EvidenceInv, CallsMerged, CallRows
<1>4. /\ Without(callLog, NotCallsOf(t)) \in Seq(LogRows)
      /\ Without(more, NotCallsOf(t)) \in Seq(LogRows)
  BY <1>1, WithoutElements
<1>5. CASE s = t
  BY <1>2, <1>3, <1>4, <1>5, ConcatEmptySeq
<1>6. CASE s # t
  BY <1>2, <1>3, <1>4, <1>6, ConcatEmptySeq
<1> QED
  BY <1>5, <1>6

\* Merging an outcome merges its rows, and those of no other task.
LEMMA CollectKeepsEvidence ==
  ASSUME FilterInv, EvidenceInv, NEW s \in Seeds, Collect(s)
  PROVE  EvidenceInv'
<1> DEFINE f == future[s]
           log == HandedOver(s)
<1>1. /\ status = "running" /\ f.kind # "pending" /\ s \notin collected
      /\ collected' = collected \cup {s} /\ collected \subseteq Seeds
      /\ UNCHANGED <<mode, queued, calling, rows, future, quarantined, status>>
  BY DEF Collect, task, FilterInv, TasksSettle
<1>2. f.kind = "decided" \/ IsFailed(f)
  BY <1>1 DEF FilterInv, TasksSettle, IsFailed
<1>3. f.kind = "decided" => ~IsFailed(f)
  BY DEF IsFailed
<1>4. /\ rows[s] \in Seq(Answers) /\ Len(rows[s]) <= Attempts
      /\ f.log = log /\ callLog \in Logs
  BY <1>1 DEF EvidenceInv, TasksLog, MergedOnce
<1>5. /\ log \in Logs
      /\ \A t \in Seeds : Without(log, NotCallsOf(t)) = IF s = t THEN log ELSE << >>
  BY <1>4, HandedRows
<1>6. s \notin ToSet(errors) /\ errors \in Seq(Seeds)
  BY <1>1 DEF FilterInv, ErrorsFollowOutcomes
<1>7. f.kind = "decided" => f.accepted \subseteq Candidates /\ f.rejected \subseteq Candidates
  BY DEF FilterInv, DecisionsSplit, Splits, Group
<1>8. TasksLog'
  BY <1>1 DEF EvidenceInv, TasksLog, DecidedBy, HandedOver
<1>9. \A t \in collected :
        /\ t # s
        /\ future[t].kind = "decided" =>
             \A i \in DOMAIN future[t].log : Holds(future[t].log[i])
        /\ IsFailed(future[t]) /\ mode = "advisory" => Holds(Row(t, 0, Unavailable))
  BY <1>1 DEF EvidenceInv, RowsMerged
<1> HIDE DEF log, f
<1>10. CASE f.kind = "decided"
  <2>1. /\ callLog' = callLog \o log /\ errors' = errors
        /\ results' = results \cup f.accepted /\ rejected' = rejected \cup f.rejected
    BY <1>3, <1>4, <1>10 DEF Collect, f
  <2>2. /\ callLog' \in Logs
        /\ \A x : Holds(x) \/ (\E i \in DOMAIN log : log[i] = x) => Holds(x)'
    BY <1>4, <1>5, <2>1, LogGrows
  <2>3. (\A x : Holds(x) => Holds(x)') /\ \A i \in DOMAIN log : \E x : x = log[i] /\ Holds(x)'
    BY <2>2
  <2>4. CallsMerged'
    BY <1>1, <1>5, <1>6, <2>1, CallsAppended DEF log
  <2>5. MergedOnce'
    BY <1>1, <1>7, <1>10, <2>1, <2>2 DEF EvidenceInv, MergedOnce
  <2>6. RowsMerged'
    <3> SUFFICES ASSUME NEW t \in collected'
                 PROVE  /\ future[t].kind = "decided" =>
                             \A i \in DOMAIN future[t].log :
                               \E x : x = future[t].log[i] /\ Holds(x)'
                        /\ IsFailed(future[t]) /\ mode = "advisory" =>
                             Holds(Row(t, 0, Unavailable))'
      BY <1>1 DEF RowsMerged, IsFailed, Holds
    <3>1. CASE t = s
      BY <1>3, <1>4, <1>10, <2>3, <3>1 DEF f
    <3>2. CASE t \in collected
      BY <1>9, <2>3, <3>2
    <3> QED
      BY <1>1, <3>1, <3>2
  <2> QED
    BY <1>8, <2>4, <2>5, <2>6 DEF EvidenceInv
<1>11. CASE IsFailed(f) /\ mode = "advisory"
  <2> DEFINE more == Append(log, Row(s, 0, Unavailable))
  <2>1. /\ callLog' = callLog \o more /\ errors' = errors
        /\ results' = results \cup Group(s) /\ rejected' = rejected
    BY <1>3, <1>4, <1>11 DEF Collect, AdvisoryRows, f
  <2>2. /\ more \in Logs
        /\ \E i \in DOMAIN more : more[i] = Row(s, 0, Unavailable)
        /\ \A t \in Seeds : Without(more, NotCallsOf(t)) = IF s = t THEN log ELSE << >>
    BY <1>5, AdvisoryLog
  <2> HIDE DEF more
  <2>3. /\ callLog' \in Logs
        /\ \A x : Holds(x) \/ (\E i \in DOMAIN more : more[i] = x) => Holds(x)'
    BY <1>4, <2>1, <2>2, LogGrows
  <2>4. (\A x : Holds(x) => Holds(x)') /\ Holds(Row(s, 0, Unavailable))'
    BY <2>2, <2>3
  <2>5. CallsMerged'
    BY <1>1, <1>6, <2>1, <2>2, CallsAppended DEF log
  <2>6. MergedOnce'
    BY <1>1, <2>1, <2>3 DEF EvidenceInv, MergedOnce, Group
  <2>7. RowsMerged'
    <3> SUFFICES ASSUME NEW t \in collected'
                 PROVE  /\ future[t].kind = "decided" =>
                             \A i \in DOMAIN future[t].log :
                               \E x : x = future[t].log[i] /\ Holds(x)'
                        /\ IsFailed(future[t]) /\ mode = "advisory" =>
                             Holds(Row(t, 0, Unavailable))'
      BY <1>1 DEF RowsMerged, IsFailed, Holds
    <3>1. CASE t = s
      BY <1>3, <1>11, <2>4, <3>1 DEF f
    <3>2. CASE t \in collected
      BY <1>9, <2>4, <3>2
    <3> QED
      BY <1>1, <3>1, <3>2
  <2> QED
    BY <1>8, <2>5, <2>6, <2>7 DEF EvidenceInv
<1>12. CASE IsFailed(f) /\ mode # "advisory"
  <2>1. errors' = Append(errors, s) /\ UNCHANGED <<results, rejected, callLog>>
    BY <1>3, <1>12 DEF Collect, f
  <2>2. ToSet(errors') = ToSet(errors) \cup {s}
    BY <1>6, <2>1, ToSetAppend
  <2>3. CallsMerged'
    BY <1>1, <2>1, <2>2 DEF EvidenceInv, CallsMerged, CallRows, HandedOver
  <2>4. \A i, j \in DOMAIN errors' : errors'[i] = errors'[j] => i = j
    <3>1. /\ DOMAIN errors' = DOMAIN errors \cup {Len(errors) + 1}
          /\ \A i \in DOMAIN errors : errors'[i] = errors[i] /\ errors[i] # s
          /\ errors'[Len(errors) + 1] = s
      <4>1. \A i \in DOMAIN errors : errors[i] \in ToSet(errors)
        BY DEF ToSet
      <4>2. /\ \A i \in 1 .. Len(errors) : errors'[i] = errors[i]
            /\ errors'[Len(errors) + 1] = s /\ Len(errors') = Len(errors) + 1
            /\ errors' \in Seq(Seeds) /\ Len(errors) \in Nat
        BY <1>6, <2>1, AppendProperties
      <4>3. DOMAIN errors = 1 .. Len(errors) /\ DOMAIN errors' = 1 .. Len(errors) + 1
        BY <1>6, <4>2, LenProperties
      <4>4. 1 .. Len(errors) + 1 = (1 .. Len(errors)) \cup {Len(errors) + 1}
        BY <4>2
      <4> QED
        BY <1>6, <4>1, <4>2, <4>3, <4>4
    <3> QED
      BY <3>1 DEF EvidenceInv, MergedOnce
  <2>5. MergedOnce'
    BY <1>1, <2>1, <2>4 DEF EvidenceInv, MergedOnce
  <2>6. RowsMerged'
    BY <1>1, <1>3, <1>9, <1>12, <2>1 DEF RowsMerged, Holds, IsFailed, f
  <2> QED
    BY <1>8, <2>3, <2>5, <2>6 DEF EvidenceInv
<1> QED
  BY <1>2, <1>10, <1>11, <1>12

\* At the end the rows of every failure to escalate join the log.
LEMMA EscalationKeepsEvidence ==
  ASSUME FilterInv, EvidenceInv, status = "running", collected = Seeds,
         callLog' = EscalatedRows, status' \notin {"running", "escaped"},
         UNCHANGED <<mode, task, collected, errors>>,
         results' \subseteq Candidates, rejected' \subseteq Candidates,
         quarantined' \subseteq Seeds
  PROVE  EvidenceInv'
<1>1. UNCHANGED <<queued, calling, rows, future>>
  BY DEF task
<1>2. TasksLog'
  BY <1>1 DEF EvidenceInv, TasksLog, DecidedBy, HandedOver
<1>3. /\ errors \in Seq(Seeds) /\ Len(errors) \in Nat /\ DOMAIN errors = 1 .. Len(errors)
      /\ \A i \in 1 .. Len(errors) : errors[i] \in Seeds
  BY LenProperties, ElementOfSeq DEF FilterInv, ErrorsFollowOutcomes
<1>4. \A s \in Seeds :
        /\ rows[s] \in Seq(Answers) /\ Len(rows[s]) <= Attempts
        /\ future[s].log = HandedOver(s)
  BY DEF FilterInv, TasksSettle, EvidenceInv, TasksLog
<1>5. \A r \in Seeds :
        /\ HandedOver(r) \in Logs
        /\ \A s \in Seeds : Without(HandedOver(r), NotCallsOf(s)) =
                              IF r = s THEN HandedOver(r) ELSE << >>
  BY <1>4, HandedRows
<1> DEFINE q == [i \in DOMAIN errors |-> future[errors[i]].log]
<1>6. /\ q \in Seq(Logs) /\ Len(q) = Len(errors)
      /\ \A i \in 1 .. Len(q) : q[i] = HandedOver(errors[i])
  <2>1. \A i \in 1 .. Len(errors) : future[errors[i]].log \in Logs
    BY <1>3, <1>4, <1>5
  <2>2. q \in [1 .. Len(errors) -> Logs]
    BY <1>3, <2>1
  <2>3. q \in Seq(Logs) /\ Len(q) = Len(errors)
    BY <1>3, <2>2
  <2> QED
    BY <1>3, <1>4, <2>3
<1>7. callLog' = Extended(callLog, q) /\ callLog \in Logs
  BY DEF EscalatedRows, EvidenceInv, MergedOnce
<1> HIDE DEF q
<1>13. PICK base \in Seq(LogRows), p \in Seq(Seq(LogRows)) : base = callLog /\ p = q
  BY <1>6, <1>7 DEF Logs
<1>8. CallsMerged'
  <2> SUFFICES ASSUME NEW s \in Seeds
               PROVE  Without(callLog', NotCallsOf(s)) = HandedOver(s)
    BY <1>1 DEF CallsMerged, CallRows, HandedOver
  <2>1. Without(callLog, NotCallsOf(s)) =
          IF s \notin ToSet(errors) THEN HandedOver(s) ELSE << >>
    BY DEF EvidenceInv, CallsMerged, CallRows
  <2>2. CASE s \in ToSet(errors)
    <3>1. PICK k \in 1 .. Len(errors) : errors[k] = s
      BY <1>3, <2>2 DEF ToSet
    <3>2. \A i \in 1 .. Len(q) : i # k => Without(q[i], NotCallsOf(s)) = << >>
      <4> SUFFICES ASSUME NEW i \in 1 .. Len(q), i # k
                   PROVE  Without(q[i], NotCallsOf(s)) = << >>
        OBVIOUS
      <4>1. errors[i] # s /\ errors[i] \in Seeds
        BY <1>3, <1>6, <3>1 DEF EvidenceInv, MergedOnce
      <4> QED
        BY <1>5, <1>6, <4>1
    <3>3. Without(q[k], NotCallsOf(s)) = HandedOver(s)
      BY <1>5, <1>6, <3>1
    <3>4. k \in 0 .. Len(q) /\ k # 0
      BY <1>3, <1>6, <3>1
    <3>5. Without(Extended(callLog, q), NotCallsOf(s)) =
            Without(callLog, NotCallsOf(s)) \o Without(q[k], NotCallsOf(s))
      <4>1. /\ k \in 0 .. Len(p)
            /\ \A i \in 1 .. Len(p) : i # k => Without(p[i], NotCallsOf(s)) = << >>
        BY <1>13, <3>2, <3>4
      <4>2. Without(Extended(base, p), NotCallsOf(s)) =
              Without(base, NotCallsOf(s)) \o Without(p[k], NotCallsOf(s))
        BY <3>4, <4>1, ExtendedSelects
      <4> QED
        BY <1>13, <4>2
    <3> QED
      BY <1>5, <1>7, <2>1, <2>2, <3>3, <3>5, ConcatEmptySeq DEF Logs
  <2>3. CASE s \notin ToSet(errors)
    <3>1. \A i \in 1 .. Len(q) : i # 0 => Without(q[i], NotCallsOf(s)) = << >>
      <4> SUFFICES ASSUME NEW i \in 1 .. Len(q)
                   PROVE  Without(q[i], NotCallsOf(s)) = << >>
        OBVIOUS
      <4>1. errors[i] # s /\ errors[i] \in Seeds
        BY <1>3, <1>6, <2>3 DEF ToSet
      <4> QED
        BY <1>5, <1>6, <4>1
    <3>2. 0 \in 0 .. Len(q)
      BY <1>3, <1>6
    <3>3. Without(Extended(callLog, q), NotCallsOf(s)) = Without(callLog, NotCallsOf(s))
      <4>1. /\ 0 \in 0 .. Len(p)
            /\ \A i \in 1 .. Len(p) : i # 0 => Without(p[i], NotCallsOf(s)) = << >>
        BY <1>13, <3>1, <3>2
      <4>2. Without(Extended(base, p), NotCallsOf(s)) = Without(base, NotCallsOf(s))
        BY <4>1, ExtendedSelects
      <4> QED
        BY <1>13, <4>2
    <3> QED
      BY <1>7, <2>1, <2>3, <3>3
  <2> QED
    BY <2>2, <2>3
<1>9. /\ callLog' \in Logs
      /\ \A i \in 1 .. Len(callLog) : i \in 1 .. Len(callLog') /\ callLog'[i] = callLog[i]
  <2>1. /\ Extended(base, p) \in Seq(LogRows)
        /\ \A i \in 1 .. Len(base) :
             i \in 1 .. Len(Extended(base, p)) /\ Extended(base, p)[i] = base[i]
    BY ExtendedPrefix
  <2> QED
    BY <1>7, <1>13, <2>1 DEF Logs
<1>10. \A x : Holds(x) => Holds(x)'
  <2>1. DOMAIN callLog = 1 .. Len(callLog) /\ DOMAIN callLog' = 1 .. Len(callLog')
    BY <1>7, <1>9, LenProperties DEF Logs
  <2> QED
    BY <1>9, <2>1 DEF Holds
<1>11. RowsMerged'
  BY <1>1, <1>10 DEF EvidenceInv, RowsMerged
<1>12. MergedOnce'
  BY <1>9 DEF EvidenceInv, MergedOnce
<1> QED
  BY <1>2, <1>8, <1>11, <1>12 DEF EvidenceInv

\* An exception that leaves the filter empties the log, and touches no task.
LEMMA EscapeKeepsEvidence ==
  ASSUME EvidenceInv, NEW s \in Seeds, AdmissionBreaks(s)
  PROVE  EvidenceInv'
<1>1. /\ UNCHANGED <<queued, calling, rows, future, errors, quarantined>>
      /\ status' = "escaped" /\ results' = {} /\ rejected' = {} /\ callLog' = << >>
  BY DEF AdmissionBreaks, task
<1>2. TasksLog'
  BY <1>1 DEF EvidenceInv, TasksLog, DecidedBy, HandedOver
<1>3. MergedOnce'
  BY <1>1 DEF EvidenceInv, MergedOnce, Logs
<1> QED
  BY <1>1, <1>2, <1>3 DEF EvidenceInv, CallsMerged, RowsMerged

-----------------------------------------------------------------------------
\* EvidenceInv is an invariant, for any seeds, answers and number of workers.
THEOREM EvidenceInvariance == Spec => []EvidenceInv
<1>1. Init => EvidenceInv
  <2> SUFFICES ASSUME Init PROVE EvidenceInv
    OBVIOUS
  <2>1. /\ queued = Seeds /\ calling = {} /\ rows = [s \in Seeds |-> << >>]
        /\ future = [s \in Seeds |-> Pending] /\ collected = {} /\ callLog = << >>
        /\ results = {} /\ rejected = {} /\ errors = << >> /\ quarantined = {}
        /\ status = "running"
    BY DEF Init
  <2>2. TasksLog
    <3>1. IsFiniteSet(calling) /\ Cardinality(calling) <= Workers
      <4>1. IsFiniteSet(calling) /\ Cardinality(calling) = 0
        BY <2>1, FS_EmptySet
      <4> QED
        BY <4>1, WorkersAssumption
    <3>2. Len(<< >>) = 0 /\ 0 <= Attempts /\ << >> \in Seq(Answers)
      BY DEF Attempts
    <3>3. \A s \in Seeds : future[s].kind = "pending" /\ rows[s] = << >>
      BY <2>1 DEF Pending
    <3> QED
      BY <2>1, <3>1, <3>2, <3>3 DEF TasksLog, DecidedBy
  <2>3. MergedOnce
    BY <2>1 DEF MergedOnce, Logs
  <2>4. CallsMerged
    <3> SUFFICES ASSUME NEW s \in Seeds PROVE CallRows(s) = << >>
      BY <2>1 DEF CallsMerged
    <3>1. << >> \in Seq(LogRows) /\ \A i \in 1 .. Len(<< >>) : << >>[i] \in NotCallsOf(s)
      OBVIOUS
    <3>2. Without(<< >>, NotCallsOf(s)) = << >>
      BY <3>1, WithoutAllOrNone
    <3> QED
      BY <2>1, <3>2 DEF CallRows
  <2>5. RowsMerged
    BY <2>1 DEF RowsMerged
  <2> QED
    BY <2>2, <2>3, <2>4, <2>5 DEF EvidenceInv
<1>2. FilterInv /\ EvidenceInv /\ [Next]_vars => EvidenceInv'
  <2> SUFFICES ASSUME FilterInv, EvidenceInv, [Next]_vars PROVE EvidenceInv'
    OBVIOUS
  <2>1. ASSUME NEW s \in Seeds, Step(s) PROVE EvidenceInv'
    BY <2>1, TaskKeepsEvidence, CollectKeepsEvidence, EscapeKeepsEvidence DEF Step
  <2>2. CASE Return
    <3>1. /\ status = "running" /\ collected = Seeds /\ callLog' = EscalatedRows
          /\ status' \notin {"running", "escaped"} /\ UNCHANGED <<mode, task, collected, errors>>
          /\ results' = results /\ rejected' = rejected
          /\ quarantined' \subseteq ToSet(errors)
      BY <2>2 DEF Return
    <3>2. quarantined' \subseteq Seeds
      BY <3>1 DEF FilterInv, ErrorsFollowOutcomes, ToSet
    <3>3. results' \subseteq Candidates /\ rejected' \subseteq Candidates
      BY <3>1 DEF EvidenceInv, MergedOnce
    <3> QED
      BY <3>1, <3>2, <3>3, EscalationKeepsEvidence
  <2>3. CASE Raise
    <3>1. /\ status = "running" /\ collected = Seeds /\ callLog' = EscalatedRows
          /\ status' \notin {"running", "escaped"} /\ UNCHANGED <<mode, task, collected, errors>>
          /\ results' = {} /\ rejected' = {} /\ quarantined' = quarantined
      BY <2>3 DEF Raise
    <3>2. quarantined' \subseteq Seeds
      BY <3>1 DEF EvidenceInv, MergedOnce
    <3> QED
      BY <3>1, <3>2, EscalationKeepsEvidence
  <2>4. CASE UNCHANGED vars
    BY <2>4 DEF vars, EvidenceInv, TasksLog, DecidedBy, HandedOver, MergedOnce, CallsMerged,
                CallRows, RowsMerged, Holds, IsFailed
  <2> QED
    BY <2>1, <2>2, <2>3, <2>4 DEF Next, Over
<1> QED
  BY <1>1, <1>2, FilterInvariance, PTL DEF Spec

\* The types of the state; no task makes more than two calls, and a seed is in the
\* pool, in the attempt loop or finished.
THEOREM FilterTypeCorrect == Spec => []TypeOK
<1>1. FilterInv /\ EvidenceInv => TypeOK
  <2> SUFFICES ASSUME FilterInv, EvidenceInv PROVE TypeOK
    OBVIOUS
  <2>1. ASSUME NEW s \in Seeds
        PROVE  /\ rows[s] \in Seq(Answers) /\ Len(rows[s]) <= 2
               /\ future[s].kind \in {"pending", "decided", "protocol", "broken", "unlogged"}
               /\ future[s].kind = "pending" <=> s \in queued \cup calling
               /\ future[s].kind # "pending" => future[s].log \in Logs
    <3>1. rows[s] \in Seq(Answers) /\ Len(rows[s]) <= Attempts
      BY DEF EvidenceInv, TasksLog
    <3>2. HandedOver(s) \in Logs
      BY <3>1, HandedRows
    <3> QED
      BY <3>1, <3>2 DEF FilterInv, TasksSettle, EvidenceInv, TasksLog, Attempts
  <2>2. ToSet(errors) \subseteq collected /\ errors \in Seq(Seeds)
    <3>1. errors \in Seq(Seeds)
      BY DEF FilterInv, ErrorsFollowOutcomes
    <3>2. ToSet(errors) \subseteq Seeds
      BY <3>1 DEF ToSet
    <3> QED
      BY <3>1, <3>2 DEF FilterInv, ErrorsFollowOutcomes
  <2> QED
    BY <2>1, <2>2 DEF TypeOK, FilterInv, TasksSettle, EvidenceInv, TasksLog, MergedOnce
<1> QED
  BY <1>1, FilterInvariance, EvidenceInvariance, PTL

\* When the filter returns or raises FilterProtocolError, its call log holds the
\* calls each task handed over, all of them, once and in the order they were made.
\* Two endings keep none: a task that an unexpected exception ended inside its
\* attempt loop hands no rows over, and an exception of another kind that leaves
\* the filter takes the log with it.
THEOREM CallsEvidenced == Spec => []EveryCallEvidenced
<1>1. EvidenceInv => EveryCallEvidenced
  BY DEF EvidenceInv, CallsMerged, EveryCallEvidenced
<1> QED
  BY <1>1, EvidenceInvariance, PTL

\* A batch that reconciles has as many verdicts as the seed has candidates.
LEMMA ReconciledLength ==
  ASSUME NEW b, NEW s \in Seeds, Reconciled(b, s)
  PROVE  Len(b.verdicts) = Cardinality(Group(s))
<1>1. IsBatch(b) /\ NoDuplicates(b) /\ Ids(b) = Group(s)
  BY BatchAssumption DEF Reconciled
<1>2. PICK n \in Nat : n = Len(b.verdicts) /\ DOMAIN b.verdicts = 1 .. n
  BY <1>1, BatchEntries
<1> DEFINE f == [i \in 1 .. n |-> b.verdicts[i].id]
<1>3. f \in [1 .. n -> Group(s)]
  BY <1>1, <1>2 DEF Ids
<1>4. \A i, j \in 1 .. n : f[i] = f[j] => i = j
  BY <1>1, <1>2 DEF NoDuplicates
<1>5. \A c \in Group(s) : \E i \in 1 .. n : f[i] = c
  BY <1>1, <1>2 DEF Ids
<1> HIDE DEF f
<1>6. f \in Surjection(1 .. n, Group(s)) /\ f \in Injection(1 .. n, Group(s))
  BY <1>3, <1>4, <1>5 DEF Surjection, Injection, IsInjective
<1>7. IsFiniteSet(1 .. n) /\ Cardinality(1 .. n) = n
  <2>1. 1 \in Int /\ n \in Int
    BY <1>2
  <2>2. IsFiniteSet(1 .. n) /\ Cardinality(1 .. n) = IF 1 > n THEN 0 ELSE n - 1 + 1
    BY ONLY <2>1, FS_Interval
  <2>3. PICK k : k = Cardinality(1 .. n)
    OBVIOUS
  <2>4. k = IF 1 > n THEN 0 ELSE n - 1 + 1
    BY <2>2, <2>3
  <2>5. n \in Nat
    BY <1>2
  <2>6. k = n
    BY ONLY <2>4, <2>5
  <2> QED
    BY <2>2, <2>3, <2>6
<1>8. Cardinality(Group(s)) = Cardinality(1 .. n)
  BY <1>6, <1>7, FS_Surjection
<1> QED
  BY <1>2, <1>7, <1>8

\* What the filter returns is justified by the call log: a verdict by an answer
\* that reconciled, a retained seed by the declaration that its filter was missing.
THEOREM ResultIsEvidenced == Spec => []OutputIsEvidenced
<1>1. FilterInv /\ EvidenceInv => OutputIsEvidenced
  <2> SUFFICES ASSUME FilterInv, EvidenceInv, status = "returned"
               PROVE  /\ \A c \in results :
                           EvidencedVerdict(c, "accept") \/ DeclaredUnavailable(SeedOf[c])
                      /\ \A c \in rejected : EvidencedVerdict(c, "reject")
    BY DEF OutputIsEvidenced
  <2>1. ASSUME NEW c \in Candidates, future[SeedOf[c]].kind = "decided",
               SeedOf[c] \in collected, NEW verdict \in {"accept", "reject"},
               verdict = "accept" => c \in future[SeedOf[c]].accepted,
               verdict = "reject" => c \in future[SeedOf[c]].rejected
        PROVE  EvidencedVerdict(c, verdict)
    <3>1. PICK s \in Seeds : s = SeedOf[c]
      BY SeedOfType
    <3>2. PICK b \in Batches :
            /\ Reconciled(b, s)
            /\ future[s].accepted = With(b, "accept") /\ future[s].rejected = With(b, "reject")
            /\ \E i \in DOMAIN future[s].log :
                 future[s].log[i].seed = s /\ future[s].log[i].answer = b
      BY <2>1, <3>1 DEF EvidenceInv, TasksLog, DecidedBy
    <3>3. \A i \in DOMAIN future[s].log : Holds(future[s].log[i])
      BY <2>1, <3>1 DEF EvidenceInv, RowsMerged
    <3>4. PICK j \in DOMAIN callLog : callLog[j].seed = s /\ callLog[j].answer = b
      BY <3>2, <3>3 DEF Holds
    <3>5. IsBatch(b) /\ b.seed = s /\ Ids(b) = Group(s)
      BY <3>2, BatchAssumption DEF Reconciled
    <3>6. Len(b.verdicts) = Cardinality(Group(s))
      BY <3>2, ReconciledLength
    <3>7. \A d \in Group(s) : \E k \in DOMAIN b.verdicts : b.verdicts[k].id = d
      BY <3>5 DEF Ids
    <3>8. \E k \in DOMAIN b.verdicts : b.verdicts[k] = [id |-> c, verdict |-> verdict]
      <4>1. c \in With(b, verdict)
        BY <2>1, <3>1, <3>2
      <4>2. PICK k \in DOMAIN b.verdicts : b.verdicts[k].id = c /\ b.verdicts[k].verdict = verdict
        BY <4>1 DEF With
      <4> QED
        BY <3>5, <4>2, BatchEntries
    <3> QED
      BY <3>1, <3>4, <3>5, <3>6, <3>7, <3>8 DEF EvidencedVerdict
  <2>2. ASSUME NEW c \in Candidates, IsFailed(future[SeedOf[c]]), mode = "advisory",
               SeedOf[c] \in collected
        PROVE  DeclaredUnavailable(SeedOf[c])
    <3>1. Holds(Row(SeedOf[c], 0, Unavailable))
      BY <2>2 DEF EvidenceInv, RowsMerged
    <3> QED
      BY <3>1 DEF Holds, Row, DeclaredUnavailable
  <2>3. results \subseteq Candidates /\ rejected \subseteq Candidates
    BY DEF EvidenceInv, MergedOnce
  <2>4. ASSUME NEW c \in results
        PROVE  EvidencedVerdict(c, "accept") \/ DeclaredUnavailable(SeedOf[c])
    <3>1. /\ c \in Candidates /\ SeedOf[c] \in collected
          /\ \/ future[SeedOf[c]].kind = "decided" /\ c \in future[SeedOf[c]].accepted
             \/ IsFailed(future[SeedOf[c]]) /\ mode = "advisory"
      BY <2>3, <2>4 DEF FilterInv, MergeFollowsOutcomes
    <3> QED
      BY <2>1, <2>2, <3>1
  <2>5. ASSUME NEW c \in rejected PROVE EvidencedVerdict(c, "reject")
    <3>1. /\ c \in Candidates /\ SeedOf[c] \in collected
          /\ future[SeedOf[c]].kind = "decided" /\ c \in future[SeedOf[c]].rejected
      BY <2>3, <2>5 DEF FilterInv, MergeFollowsOutcomes
    <3> QED
      BY <2>1, <3>1
  <2> QED
    BY <2>4, <2>5
<1> QED
  BY <1>1, FilterInvariance, EvidenceInvariance, PTL
================================================================================
