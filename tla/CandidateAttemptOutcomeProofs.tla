---------------------- MODULE CandidateAttemptOutcomeProofs ----------------------
(***************************************************************************)
(* What an attempt does and leaves behind, for any number of stages, any   *)
(* budgets, any reports and any number of crashes: a call log that agrees  *)
(* with the stage records, an admission only of artifacts that are         *)
(* complete, current and accepted, no call but the one the trace calls     *)
(* for, and failures of a stage within its budgets.                        *)
(*                                                                         *)
(* All of it rests on the invariant IInv of CandidateAttemptProofs:        *)
(*   - LogInv counts.  The number of the next invocation of a stage is the *)
(*     number of its records, so an attempt id is new when it is used, and *)
(*     stays new across a resume, which counts the records again;          *)
(*   - AdmitInv follows what the machine has been told.  A snapshot means  *)
(*     that the last tree had no objection, an artifact of behavior that   *)
(*     the trace supplies it, and every way on that the candidate is       *)
(*     qualified;                                                          *)
(*   - CallInv says where the machine is about to call.  In front of       *)
(*     behavior it may know less than the trace: after a resume the        *)
(*     finalizer is asked again before anything else happens (AfterTree);  *)
(*   - BudgetInv relates the owner retry indices of the records to one     *)
(*     another and to the counters, also those a resume derives;           *)
(*   - FreshInv says more of a process that has never died: no failure is  *)
(*     left unanswered, and the length counters cover the records.         *)
(***************************************************************************)
EXTENDS CandidateAttemptProofs, SequenceTheorems

--------------------------------------------------------------------------------
(***************************************************************************)
(* The call log.                                                           *)
(***************************************************************************)
InCall == pc \in {"calling", "recording"}

\* Invocations the machine has made are records, and the one in progress.
Counted ==
  pc # "down" =>
    \A s \in Stages :
      invocations[s] = Cardinality(OfStage(s)) + IF InCall /\ s = cursor THEN 1 ELSE 0

\* The records of a stage carry different numbers, all of them used up.
Numbered ==
  /\ \A s \in Stages : \A i \in OfStage(s) :
       records[i].invocation_index < Cardinality(OfStage(s))
  /\ \A i, j \in DOMAIN records :
       /\ records[i].stage = records[j].stage
       /\ records[i].invocation_index = records[j].invocation_index
       => i = j

\* The row of an open invocation carries the next number of its stage.
NextId(s) == <<s, Cardinality(OfStage(s))>>

RowsKept ==
  /\ rows = RecordIds \/ (OpenInvocation /\ \E s \in Stages : rows = Append(RecordIds, NextId(s)))
  /\ pc = "calling" => rows = RecordIds
  /\ pc = "recording" => rows = Append(RecordIds, Attempt)

LogInv == Counted /\ Numbered /\ RowsKept

LEMMA OfStageFinite ==
  ASSUME records \in Seq(Records), NEW s \in Stages
  PROVE  /\ IsFiniteSet(OfStage(s)) /\ Cardinality(OfStage(s)) \in Nat
         /\ Len(records) + 1 \notin OfStage(s)
<1>1. Len(records) \in Nat /\ DOMAIN records = 1 .. Len(records)
  OBVIOUS
<1>2. IsFiniteSet(1 .. Len(records))
  BY <1>1, FS_Interval
<1>3. OfStage(s) \in SUBSET (1 .. Len(records))
  BY <1>1 DEF OfStage
<1>4. IsFiniteSet(OfStage(s))
  BY <1>2, <1>3, FS_Subset
<1> QED
  BY <1>1, <1>3, <1>4, FS_CardinalityType

\* The records as attempt ids are a sequence as long as the records.
LEMMA IdsFacts ==
  ASSUME records \in Seq(Records)
  PROVE  /\ RecordIds \in Seq(AttemptIds) /\ Len(RecordIds) = Len(records)
         /\ DOMAIN RecordIds = DOMAIN records
<1>1. Len(records) \in Nat /\ DOMAIN records = 1 .. Len(records)
  OBVIOUS
<1>2. \A i \in DOMAIN records : <<records[i].stage, records[i].invocation_index>> \in AttemptIds
  <2> TAKE i \in DOMAIN records
  <2>1. records[i] \in Records
    OBVIOUS
  <2> QED
    BY <2>1 DEF Records, AttemptIds
<1>3. RecordIds \in [1 .. Len(records) -> AttemptIds]
  BY <1>1, <1>2 DEF RecordIds
<1> QED
  BY <1>1, <1>3

LEMMA SequenceAsFunction ==
  ASSUME NEW S, NEW q \in Seq(S)
  PROVE  q = [i \in 1 .. Len(q) |-> q[i]]
  OBVIOUS

\* A new record: one more of its stage, no more of the others, its id at the end.
LEMMA RecordAppended ==
  ASSUME records \in Seq(Records), NEW r \in Records, records' = Append(records, r)
  PROVE  /\ \A s \in Stages :
              Cardinality(OfStage(s)') =
                Cardinality(OfStage(s)) + IF s = r.stage THEN 1 ELSE 0
         /\ RecordIds' = Append(RecordIds, <<r.stage, r.invocation_index>>)
<1>1. /\ Len(records') = Len(records) + 1 /\ Len(records) \in Nat
      /\ DOMAIN records = 1 .. Len(records)
      /\ DOMAIN records' = DOMAIN records \cup {Len(records) + 1}
      /\ \A i \in DOMAIN records : records'[i] = records[i]
      /\ records'[Len(records) + 1] = r
  OBVIOUS
<1>2. ASSUME NEW s \in Stages
      PROVE  Cardinality(OfStage(s)') =
               Cardinality(OfStage(s)) + IF s = r.stage THEN 1 ELSE 0
  <2>1. /\ IsFiniteSet(OfStage(s)) /\ Cardinality(OfStage(s)) \in Nat
        /\ Len(records) + 1 \notin OfStage(s)
    BY OfStageFinite
  <2>2. CASE s = r.stage
    <3>1. OfStage(s)' = OfStage(s) \cup {Len(records) + 1}
      BY <1>1, <2>2 DEF OfStage
    <3>2. Cardinality(OfStage(s) \cup {Len(records) + 1}) = Cardinality(OfStage(s)) + 1
      BY <2>1, FS_AddElement
    <3> QED
      BY <2>2, <3>1, <3>2
  <2>3. CASE s # r.stage
    <3>1. OfStage(s)' = OfStage(s)
      BY <1>1, <2>3 DEF OfStage
    <3> QED
      BY <2>1, <2>3, <3>1
  <2> QED
    BY <2>2, <2>3
<1>3. RecordIds' = Append(RecordIds, <<r.stage, r.invocation_index>>)
  <2> DEFINE id == <<r.stage, r.invocation_index>>
  <2>1. /\ RecordIds \in Seq(AttemptIds) /\ Len(RecordIds) = Len(records)
        /\ DOMAIN RecordIds = DOMAIN records
    BY IdsFacts
  <2>2. id \in AttemptIds
    BY DEF Records, AttemptIds
  <2>3. records' \in Seq(Records)
    OBVIOUS
  <2>4. RecordIds' = [i \in DOMAIN records' |-> <<records'[i].stage, records'[i].invocation_index>>]
    BY DEF RecordIds
  <2>5. \A i \in DOMAIN records : RecordIds'[i] = RecordIds[i]
    BY <1>1, <2>4 DEF RecordIds
  <2>6. RecordIds'[Len(records) + 1] = id
    BY <1>1, <2>4
  <2> HIDE DEF id
  <2>7. DOMAIN RecordIds' = 1 .. (Len(records) + 1)
    BY <1>1, <2>4
  <2>8. \A i \in 1 .. Len(records) : Append(RecordIds, id)[i] = RecordIds[i]
    BY <2>1, <2>2
  <2>9. /\ Append(RecordIds, id) \in Seq(AttemptIds)
         /\ Len(Append(RecordIds, id)) = Len(records) + 1
         /\ Append(RecordIds, id)[Len(records) + 1] = id
    BY <2>1, <2>2, AppendProperties
  <2>10. /\ Append(RecordIds, id)[Len(records) + 1] = id
        /\ Append(RecordIds, id) = [i \in 1 .. (Len(records) + 1) |-> Append(RecordIds, id)[i]]
    BY <2>9, SequenceAsFunction
  <2>11. \A i \in 1 .. (Len(records) + 1) : RecordIds'[i] = Append(RecordIds, id)[i]
    <3> TAKE i \in 1 .. (Len(records) + 1)
    <3>1. CASE i \in 1 .. Len(records)
      BY <1>1, <2>5, <2>8, <3>1
    <3>2. CASE i = Len(records) + 1
      BY <2>6, <2>10, <3>2
    <3>3. i \in 1 .. Len(records) \/ i = Len(records) + 1
      BY <1>1
    <3> QED
      BY <3>1, <3>2, <3>3
  <2>12. RecordIds' = [i \in 1 .. (Len(records) + 1) |-> RecordIds'[i]]
    BY <2>4, <2>7
  <2> QED
    BY <2>10, <2>11, <2>12 DEF id
<1> QED
  BY <1>2, <1>3

LEMMA SameLog ==
  ASSUME records' = records
  PROVE  /\ \A s \in Stages : OfStage(s)' = OfStage(s) /\ NextId(s)' = NextId(s)
         /\ RecordIds' = RecordIds
         /\ Numbered => Numbered'
  BY DEF OfStage, NextId, RecordIds, Numbered

\* A step that makes no call and writes no record keeps the log.
LEMMA QuietKeepsLog ==
  ASSUME records \in Seq(Records), LogInv, UNCHANGED <<records, invoked, rows>>,
         pc' \notin {"calling", "recording"},
         \/ pc' = "down"
         \/ pc \notin {"down", "calling", "recording"} /\ invocations' = invocations
         \/ invocations' = [s \in Stages |-> ResumedInvocations(s)]
  PROVE  LogInv'
<1>1. /\ \A s \in Stages : OfStage(s)' = OfStage(s) /\ NextId(s)' = NextId(s)
      /\ RecordIds' = RecordIds /\ Numbered'
  BY SameLog DEF LogInv
<1>2. RowsKept'
  BY <1>1 DEF LogInv, RowsKept, OpenInvocation
<1>3. Counted'
  <2> SUFFICES ASSUME pc' # "down" PROVE Counted'
    BY DEF Counted
  <2>1. \A s \in Stages : Cardinality(OfStage(s)) \in Nat /\ OfStage(s)' = OfStage(s)
    BY <1>1, OfStageFinite
  <2>2. ASSUME NEW s \in Stages PROVE invocations'[s] = Cardinality(OfStage(s))
    <3>0. Cardinality(OfStage(s)) \in Nat
      BY <2>1
    <3>1. CASE pc \notin {"down", "calling", "recording"} /\ invocations' = invocations
      <4>1. /\ ~InCall
            /\ invocations[s] = Cardinality(OfStage(s)) + IF InCall /\ s = cursor THEN 1 ELSE 0
        BY <3>1 DEF LogInv, Counted, InCall
      <4> QED
        BY <3>0, <3>1, <4>1
    <3>2. CASE invocations' = [t \in Stages |-> ResumedInvocations(t)]
      BY <3>2 DEF ResumedInvocations
    <3> QED
      BY <3>1, <3>2
  <2>3. ~InCall'
    BY DEF InCall
  <2> QED
    BY <2>1, <2>2, <2>3 DEF Counted
<1> QED
  BY <1>1, <1>2, <1>3 DEF LogInv

LEMMA InitLog == Init => LogInv
<1> SUFFICES ASSUME Init PROVE LogInv
  OBVIOUS
<1>1. records = << >> /\ rows = << >> /\ pc = "start" /\ invocations = Zero
  BY DEF Init
<1>2. \A s \in Stages : Cardinality(OfStage(s)) = 0
  <2> TAKE s \in Stages
  <2>1. OfStage(s) = {}
    BY <1>1 DEF OfStage
  <2> QED
    BY <2>1, FS_EmptySet
<1>3. Counted
  BY <1>1, <1>2 DEF Counted, InCall, Zero
<1>4. Numbered
  BY <1>1 DEF Numbered, OfStage
<1>5. RecordIds = << >>
  BY <1>1 DEF RecordIds
<1> QED
  BY <1>1, <1>3, <1>4, <1>5 DEF LogInv, RowsKept

\* A call begins: every record has its row, and the count is one ahead.
LEMMA BeginKeepsLog == IInv /\ LogInv /\ BeginInvocation => LogInv'
<1> SUFFICES ASSUME IInv, LogInv, BeginInvocation PROVE LogInv'
  OBVIOUS
<1>1. /\ pc = "advance" /\ pc' = "calling" /\ cursor \in Stages
      /\ invocations' = [invocations EXCEPT ![cursor] = @ + 1]
      /\ UNCHANGED <<records, rows, cursor>>
  BY DEF BeginInvocation, IInv, TypeOK
<1>2. records \in Seq(Records) /\ invocations \in [Stages -> Nat]
  BY DEF IInv, TypeOK
<1>3. /\ \A s \in Stages : OfStage(s)' = OfStage(s)
      /\ RecordIds' = RecordIds /\ Numbered'
  BY <1>1, SameLog DEF LogInv
<1>4. rows = RecordIds
  <2>1. ~OpenInvocation
    BY <1>1, <1>2 DEF IInv, Control, Ready, OpenInvocation
  <2> QED
    BY <2>1 DEF LogInv, RowsKept
<1>5. RowsKept'
  BY <1>1, <1>3, <1>4 DEF RowsKept
<1>6. Counted'
  <2>1. InCall' /\ ~InCall
    BY <1>1 DEF InCall
  <2>2. ASSUME NEW s \in Stages
        PROVE  invocations'[s] = Cardinality(OfStage(s)) + IF s = cursor THEN 1 ELSE 0
    <3>1. invocations[s] = Cardinality(OfStage(s)) + 0 /\ Cardinality(OfStage(s)) \in Nat
      BY <1>1, <1>2, <2>1, OfStageFinite DEF LogInv, Counted
    <3> QED
      BY <1>1, <1>2, <3>1
  <2> QED
    BY <1>1, <1>3, <2>1, <2>2 DEF Counted
<1> QED
  BY <1>3, <1>5, <1>6 DEF LogInv

\* The id of the attempt in progress is the next one of its stage.
LEMMA AttemptIsNext ==
  ASSUME IInv, LogInv, InCall
  PROVE  Attempt = NextId(cursor) /\ Attempt \in AttemptIds /\ cursor \in Stages
<1>1. cursor \in Stages /\ records \in Seq(Records)
  BY DEF IInv, TypeOK
<1>2. PICK s \in Stages : s = cursor
  BY <1>1
<1>3. Cardinality(OfStage(s)) \in Nat
  BY <1>1, OfStageFinite
<1>4. invocations[s] = Cardinality(OfStage(s)) + 1
  BY <1>2 DEF LogInv, Counted, InCall
<1>5. invocations[s] - 1 = Cardinality(OfStage(s))
  BY <1>3, <1>4
<1> QED
  BY <1>2, <1>3, <1>5 DEF Attempt, NextId, AttemptIds

LEMMA AppendRowKeepsLog == IInv /\ LogInv /\ AppendCallRow => LogInv'
<1> SUFFICES ASSUME IInv, LogInv, AppendCallRow PROVE LogInv'
  OBVIOUS
<1>1. /\ pc = "calling" /\ pc' = "recording" /\ rows' = Append(rows, Attempt)
      /\ UNCHANGED <<records, invoked, cursor, invocations>>
  BY DEF AppendCallRow, local, counters
<1>2. /\ \A s \in Stages : OfStage(s)' = OfStage(s) /\ NextId(s)' = NextId(s)
      /\ RecordIds' = RecordIds /\ Numbered'
  BY <1>1, SameLog DEF LogInv
<1>3. Counted'
  BY <1>1, <1>2 DEF LogInv, Counted, InCall
<1>4. rows = RecordIds /\ OpenInvocation
  BY <1>1 DEF LogInv, RowsKept, IInv, Control
<1>5. Attempt = NextId(cursor) /\ cursor \in Stages
  BY <1>1, AttemptIsNext DEF InCall
<1>6. OpenInvocation' /\ Attempt' = Attempt
  BY <1>1, <1>4 DEF OpenInvocation, Attempt
<1>7. \E s \in Stages : rows' = Append(RecordIds, NextId(s))
  BY <1>1, <1>4, <1>5
<1>8. RowsKept'
  BY <1>1, <1>2, <1>4, <1>6, <1>7 DEF RowsKept
<1> QED
  BY <1>2, <1>3, <1>8 DEF LogInv

\* The record of a call takes the number its row has.
LEMMA RecordKeepsLog == IInv /\ LogInv /\ RecordStage => LogInv'
<1> SUFFICES ASSUME IInv, LogInv, RecordStage PROVE LogInv'
  OBVIOUS
<1>1. /\ pc = "recording" /\ InCall
      /\ UNCHANGED <<invoked, rows, invocations>>
      /\ records \in Seq(Records) /\ cursor \in Stages
  BY DEF RecordStage, InCall, IInv, TypeOK
<1>2. Attempt = NextId(cursor) /\ Attempt \in AttemptIds
  BY <1>1, AttemptIsNext
<1>3. PICK violations \in StageOutcomes : \E verdict \in Verdicts(violations) :
        /\ records' = Append(records,
             [stage |-> cursor, invocation_index |-> Attempt[2],
              owner_retry_index |-> ownerRetries[cursor],
              violations |-> violations, verdict |-> verdict])
        /\ \/ violations # {} /\ Route(violations)
           \/ violations = {} /\ pc' = "advance"
  BY DEF RecordStage
<1>4. PICK verdict \in Verdicts(violations) :
        records' = Append(records,
             [stage |-> cursor, invocation_index |-> Attempt[2],
              owner_retry_index |-> ownerRetries[cursor],
              violations |-> violations, verdict |-> verdict])
  BY <1>3
<1> DEFINE r == [stage |-> cursor, invocation_index |-> Attempt[2],
                 owner_retry_index |-> ownerRetries[cursor],
                 violations |-> violations, verdict |-> verdict]
<1>5. pc' \in {"advance", "terminal"}
  BY <1>3 DEF Route
<1>6. /\ r \in Records /\ r.stage = cursor
      /\ r.invocation_index = Cardinality(OfStage(cursor))
  <2>1. violations \in SUBSET Violations /\ verdict \in SUBSET Violations
    BY <1>1, <1>4, OutcomeFacts
  <2>2. ownerRetries[cursor] \in Nat
    BY <1>1 DEF IInv, TypeOK
  <2>3. Attempt[2] = Cardinality(OfStage(cursor)) /\ Attempt[2] \in Nat
    BY <1>1, <1>2, OfStageFinite DEF NextId
  <2> QED
    BY <1>1, <2>1, <2>2, <2>3 DEF Records
<1>7. records' = Append(records, r)
  BY <1>4
<1> HIDE DEF r
<1>8. /\ \A s \in Stages :
           Cardinality(OfStage(s)') = Cardinality(OfStage(s)) + IF s = r.stage THEN 1 ELSE 0
      /\ RecordIds' = Append(RecordIds, <<r.stage, r.invocation_index>>)
  BY <1>1, <1>6, <1>7, RecordAppended
<1>9. \A s \in Stages : Cardinality(OfStage(s)) \in Nat
  BY <1>1, OfStageFinite
<1>10. Counted'
  <2>1. \A s \in Stages :
          invocations[s] = Cardinality(OfStage(s)) + IF s = cursor THEN 1 ELSE 0
    BY <1>1 DEF LogInv, Counted
  <2>2. \A s \in Stages : invocations'[s] = Cardinality(OfStage(s)')
    BY <1>1, <1>6, <1>8, <2>1
  <2>3. \A s \in Stages : Cardinality(OfStage(s)') \in Nat
    BY <1>8, <1>9
  <2>4. ~InCall'
    BY <1>5 DEF InCall
  <2> QED
    BY <2>2, <2>3, <2>4 DEF Counted
<1>11. RowsKept'
  <2>1. rows = Append(RecordIds, Attempt)
    BY <1>1 DEF LogInv, RowsKept
  <2>2. Attempt = <<r.stage, r.invocation_index>>
    BY <1>2, <1>6 DEF NextId
  <2> QED
    BY <1>1, <1>5, <1>8, <2>1, <2>2 DEF RowsKept
<1>12. Numbered'
  <2>1. /\ DOMAIN records' = DOMAIN records \cup {Len(records) + 1}
        /\ \A i \in DOMAIN records : records'[i] = records[i]
        /\ records'[Len(records) + 1] = r
    BY <1>1, <1>7
  <2>2. \A i \in DOMAIN records : records[i].stage \in Stages /\ records[i].invocation_index \in Nat
    <3> TAKE i \in DOMAIN records
    <3>1. records[i] \in Records
      BY <1>1
    <3> QED
      BY <3>1 DEF Records
  <2>3. \A s \in Stages : \A i \in OfStage(s) :
          records[i].invocation_index < Cardinality(OfStage(s))
    BY DEF LogInv, Numbered
  <2>4. ASSUME NEW s \in Stages, NEW i \in DOMAIN records', records'[i].stage = s
        PROVE  records'[i].invocation_index < Cardinality(OfStage(s)')
    <3>1. CASE i \in DOMAIN records
      <4>1. i \in OfStage(s) /\ records'[i] = records[i]
        BY <2>1, <2>4, <3>1 DEF OfStage
      <4>2. records[i].invocation_index < Cardinality(OfStage(s))
        BY <2>3, <4>1
      <4> QED
        BY <1>8, <1>9, <2>2, <3>1, <4>1, <4>2
    <3>2. CASE i = Len(records) + 1
      <4>1. s = cursor /\ records'[i] = r
        BY <1>6, <2>1, <2>4, <3>2
      <4> QED
        BY <1>6, <1>8, <1>9, <4>1
    <3> QED
      BY <2>1, <3>1, <3>2
  <2>5. ASSUME NEW i \in DOMAIN records, records[i].stage = r.stage
        PROVE  records[i].invocation_index # r.invocation_index
    <3>1. i \in OfStage(cursor) /\ cursor \in Stages
      BY <1>1, <1>6, <2>5 DEF OfStage
    <3> QED
      BY <1>6, <1>9, <2>2, <2>3, <3>1
  <2>6. ASSUME NEW i \in DOMAIN records', NEW j \in DOMAIN records',
               records'[i].stage = records'[j].stage,
               records'[i].invocation_index = records'[j].invocation_index
        PROVE  i = j
    <3>1. CASE i \in DOMAIN records /\ j \in DOMAIN records
      BY <2>1, <2>6, <3>1 DEF LogInv, Numbered
    <3>2. CASE i \notin DOMAIN records \/ j \notin DOMAIN records
      BY <2>1, <2>5, <2>6, <3>2
    <3> QED
      BY <3>1, <3>2
  <2>7. \A s \in Stages : \A i \in OfStage(s)' :
          records'[i].invocation_index < Cardinality(OfStage(s)')
    BY <2>4 DEF OfStage
  <2> QED
    BY <2>6, <2>7 DEF Numbered
<1> QED
  BY <1>10, <1>11, <1>12 DEF LogInv

LEMMA StepKeepsLog == IInv /\ LogInv /\ [Next]_vars => LogInv'
<1> SUFFICES ASSUME IInv, LogInv, [Next]_vars PROVE LogInv'
  OBVIOUS
<1>1. records \in Seq(Records)
  BY DEF IInv, TypeOK
<1>2. CASE Start \/ Revalidate \/ EnterFinalizing \/ EnterAdmitting \/ RecordTerminal
  <2>1. /\ UNCHANGED <<records, invoked, rows>> /\ invocations' = invocations
        /\ pc \notin {"down", "calling", "recording"}
        /\ pc' \notin {"calling", "recording"}
    BY <1>2 DEF Start, Revalidate, EnterFinalizing, EnterAdmitting, RecordTerminal, durable,
                counters
  <2> QED
    BY <1>1, <2>1, QuietKeepsLog
<1>3. CASE FinalizePrebehavior \/ Admit
  <2>1. /\ UNCHANGED <<records, invoked, rows>> /\ invocations' = invocations
        /\ pc \notin {"down", "calling", "recording"}
        /\ pc' \notin {"calling", "recording"}
    BY <1>3 DEF FinalizePrebehavior, Admit, Route, durable
  <2> QED
    BY <1>1, <2>1, QuietKeepsLog
<1>4. CASE Crash
  <2>1. pc' = "down" /\ UNCHANGED <<records, invoked, rows>>
    BY <1>4 DEF Crash, durable
  <2> QED
    BY <1>1, <2>1, QuietKeepsLog
<1>5. CASE Resume
  <2>1. /\ invocations' = [s \in Stages |-> ResumedInvocations(s)]
        /\ UNCHANGED <<records, invoked, rows>>
        /\ pc' \notin {"calling", "recording"}
    BY <1>5 DEF Resume, durable
  <2> QED
    BY <1>1, <2>1, QuietKeepsLog
<1>6. CASE UNCHANGED vars
  <2>1. UNCHANGED <<records, invoked, rows, pc, invocations, cursor>>
    BY <1>6 DEF vars, durable, local, counters
  <2>2. /\ \A s \in Stages : OfStage(s)' = OfStage(s) /\ NextId(s)' = NextId(s)
        /\ RecordIds' = RecordIds /\ Numbered'
    BY <2>1, SameLog DEF LogInv
  <2> QED
    BY <2>1, <2>2 DEF LogInv, Counted, InCall, RowsKept, OpenInvocation, Attempt
<1> QED
  BY <1>2, <1>3, <1>4, <1>5, <1>6, BeginKeepsLog, AppendRowKeepsLog, RecordKeepsLog
  DEF Next, Machine

\* The call log and the stage records agree: every attempt id has one row, every
\* record its row, and only a call that a crash has cut off has a row alone.
THEOREM CallLogAgrees == Spec => []CallLogMatchesTrace
<1>1. IInv /\ LogInv => CallLogMatchesTrace
  <2> SUFFICES ASSUME IInv, LogInv PROVE CallLogMatchesTrace
    OBVIOUS
  <2>1. records \in Seq(Records) /\ Len(records) \in Nat
    BY DEF IInv, TypeOK
  <2>2. /\ RecordIds \in Seq(AttemptIds) /\ Len(RecordIds) = Len(records)
        /\ DOMAIN RecordIds = DOMAIN records
    BY <2>1, IdsFacts
  <2>3. ASSUME NEW i \in DOMAIN records, NEW j \in DOMAIN records, RecordIds[i] = RecordIds[j]
        PROVE  i = j
    BY <2>3 DEF RecordIds, LogInv, Numbered
  <2>4. CASE rows = RecordIds
    BY <2>2, <2>3, <2>4 DEF CallLogMatchesTrace
  <2>5. ASSUME OpenInvocation, NEW s \in Stages, rows = Append(RecordIds, NextId(s))
        PROVE  CallLogMatchesTrace
    <3>1. NextId(s) \in AttemptIds
      BY <2>1, OfStageFinite DEF NextId, AttemptIds
    <3> DEFINE id == NextId(s)
    <3> HIDE DEF id
    <3>2. id \in AttemptIds /\ rows = Append(RecordIds, id)
      BY <2>5, <3>1 DEF id
    <3>3. /\ rows \in Seq(AttemptIds) /\ rows # << >> /\ Len(rows) = Len(RecordIds) + 1
          /\ \A i \in 1 .. Len(RecordIds) : rows[i] = RecordIds[i]
          /\ rows[Len(RecordIds) + 1] = id
      BY <2>2, <3>2, AppendProperties
    <3>4. ASSUME NEW i \in DOMAIN records PROVE RecordIds[i] # id
      <4>1. records[i] \in Records
        BY <2>1
      <4>2. \A j \in OfStage(s) : records[j].invocation_index < Cardinality(OfStage(s))
        BY DEF LogInv, Numbered
      <4>3. CASE records[i].stage = s
        <5>1. records[i].invocation_index # Cardinality(OfStage(s))
          BY <2>1, <4>1, <4>2, <4>3, OfStageFinite DEF Records, OfStage
        <5> QED
          BY <5>1 DEF RecordIds, NextId, id
      <4>4. CASE records[i].stage # s
        BY <4>4 DEF RecordIds, NextId, id
      <4> QED
        BY <4>3, <4>4
    <3>5. \A i, j \in DOMAIN rows : rows[i] = rows[j] => i = j
      <4> SUFFICES ASSUME NEW i \in DOMAIN rows, NEW j \in DOMAIN rows, rows[i] = rows[j]
                   PROVE  i = j
        OBVIOUS
      <4>1. DOMAIN rows = 1 .. Len(records) + 1 /\ DOMAIN records = 1 .. Len(records)
        BY <2>1, <2>2, <3>3
      <4>2. CASE i \in DOMAIN records /\ j \in DOMAIN records
        BY <2>2, <2>3, <3>3, <4>1, <4>2
      <4>3. CASE i \notin DOMAIN records \/ j \notin DOMAIN records
        BY <2>1, <2>2, <3>3, <3>4, <4>1, <4>3
      <4> QED
        BY <4>2, <4>3
    <3>6. RecordIds = SubSeq(rows, 1, Len(rows) - 1)
      <4>1. Len(rows) - 1 = Len(RecordIds) /\ Len(RecordIds) \in Nat
        BY <2>2, <3>3
      <4>2. \A i \in 1 .. Len(RecordIds) : rows[i] \in AttemptIds
        BY <2>2, <3>3
      <4>3. /\ SubSeq(rows, 1, Len(RecordIds)) \in Seq(AttemptIds)
            /\ Len(SubSeq(rows, 1, Len(RecordIds))) = Len(RecordIds)
            /\ \A i \in 1 .. Len(RecordIds) : SubSeq(rows, 1, Len(RecordIds))[i] = rows[i]
        BY <4>1, <4>2
      <4> QED
        BY <2>2, <3>3, <4>1, <4>3, SeqEqual
    <3> QED
      BY <2>5, <3>3, <3>5, <3>6 DEF CallLogMatchesTrace
  <2> QED
    BY <2>4, <2>5 DEF LogInv, RowsKept
<1> QED
  BY <1>1, InitLog, StepKeepsLog, AttemptInvariance, PTL DEF Spec

--------------------------------------------------------------------------------
(***************************************************************************)
(* Admission.                                                              *)
(***************************************************************************)

\* What an admission needs: the candidate is qualified, each stage has its
\* artifact, and neither check objects.
Complete ==
  /\ qualified
  /\ ResumedArtifacts = Stages
  /\ LastOf(Tree).verdict = {} /\ LastOf(Behavior).verdict = {}

AdmitInv ==
  /\ pc \in {"advance", "calling", "recording", "finalizing", "admitting"} => qualified
  /\ snapshot => cursor = Behavior /\ LastOf(Tree).verdict = {}
  /\ Behavior \in artifacts => Behavior \in ResumedArtifacts
  /\ pc = "admitting" => Behavior \in artifacts
  /\ pc \in {"terminal", "done"} /\ failure = {} => Complete
  /\ pc # "done" => decision = Undecided
  /\ decision.status = "admitted" => Complete

LEMMA SameReports ==
  ASSUME records' = records
  PROVE  /\ ResumedArtifacts' = ResumedArtifacts
         /\ LastOf(Tree)' = LastOf(Tree) /\ LastOf(Behavior)' = LastOf(Behavior)
         /\ qualified' = qualified => Complete' = Complete
<1>1. /\ ResumedArtifacts' = ResumedArtifacts
      /\ LastOf(Tree)' = LastOf(Tree) /\ LastOf(Behavior)' = LastOf(Behavior)
  BY DEF ResumedArtifacts, OfStage, LastOf
<1> QED
  BY <1>1 DEF Complete

\* A record of another stage is not what is said of the tree.
LEMMA TreeReportStays ==
  ASSUME records \in Seq(Records), NEW r \in Records, records' = Append(records, r),
         r.stage # Tree
  PROVE  LastOf(Tree)' = LastOf(Tree) \/ OfStage(Tree) = {}
<1>1. /\ DOMAIN records = 1 .. Len(records) /\ Len(records) \in Nat
      /\ DOMAIN records' = DOMAIN records \cup {Len(records) + 1}
      /\ \A i \in DOMAIN records : records'[i] = records[i]
      /\ records'[Len(records) + 1] = r
  OBVIOUS
<1>2. OfStage(Tree)' = OfStage(Tree)
  BY <1>1 DEF OfStage
<1>3. LastOf(Tree) = records[Max(OfStage(Tree))]
  BY DEF LastOf, OfStage
<1>4. LastOf(Tree)' = records'[Max(OfStage(Tree))]
  BY <1>2 DEF LastOf, OfStage
<1> SUFFICES ASSUME OfStage(Tree) # {} PROVE LastOf(Tree)' = LastOf(Tree)
  OBVIOUS
<1>5. OfStage(Tree) \in SUBSET Nat /\ \A x \in OfStage(Tree) : x <= Len(records)
  BY <1>1 DEF OfStage
<1>6. Max(OfStage(Tree)) \in DOMAIN records
  BY <1>1, <1>5, MaxOf DEF OfStage
<1> QED
  BY <1>1, <1>3, <1>4, <1>6

\* A check with objections takes nothing on: it retries, or ends the attempt.
LEMMA RouteKeepsAdmission ==
  ASSUME IInv, AdmitInv, NEW report \in SUBSET Violations, report # {}, Route(report),
         pc \in {"finalizing", "admitting"},
         UNCHANGED <<records, decision, qualified>>
  PROVE  AdmitInv'
<1>1. /\ artifacts' \subseteq artifacts
      /\ \/ /\ pc' = "advance" /\ failure' = failure
            /\ Behavior \notin artifacts'
            /\ snapshot' = (snapshot /\ cursor' = Behavior)
         \/ /\ pc' = "terminal" /\ failure' = report
            /\ artifacts' = artifacts /\ snapshot' = snapshot /\ cursor' = cursor
  BY RouteFacts DEF IInv
<1>2. /\ ResumedArtifacts' = ResumedArtifacts
      /\ LastOf(Tree)' = LastOf(Tree) /\ LastOf(Behavior)' = LastOf(Behavior)
      /\ Complete' = Complete
  BY SameReports
<1>3. qualified' /\ decision' = Undecided
  BY DEF AdmitInv
<1>4. snapshot' => cursor' = Behavior /\ LastOf(Tree)'.verdict = {}
  BY <1>1, <1>2 DEF AdmitInv
<1>5. Behavior \in artifacts' => Behavior \in ResumedArtifacts'
  BY <1>1, <1>2 DEF AdmitInv
<1>6. \/ pc' = "advance"
      \/ pc' = "terminal" /\ failure' # {}
  BY <1>1
<1> QED
  BY <1>3, <1>4, <1>5, <1>6 DEF AdmitInv, Undecided

LEMMA InitAdmission == Init => AdmitInv
  BY StageFacts DEF Init, AdmitInv, Undecided

\* Steps that touch neither records nor what the machine has been told.
LEMMA QuietKeepsAdmission ==
  IInv /\ AdmitInv /\ (Start \/ BeginInvocation \/ AppendCallRow \/ EnterFinalizing) => AdmitInv'
<1> SUFFICES ASSUME IInv, AdmitInv,
                    Start \/ BeginInvocation \/ AppendCallRow \/ EnterFinalizing
             PROVE  AdmitInv'
  OBVIOUS
<1>1. /\ UNCHANGED <<records, decision, qualified, cursor, artifacts, snapshot>>
      /\ \/ pc = "start" /\ pc' = "revalidate"
         \/ pc = "advance" /\ pc' = "calling"
         \/ pc = "calling" /\ pc' = "recording"
         \/ pc = "advance" /\ pc' = "finalizing"
  BY DEF Start, BeginInvocation, AppendCallRow, EnterFinalizing, local, counters
<1>2. /\ ResumedArtifacts' = ResumedArtifacts /\ LastOf(Tree)' = LastOf(Tree)
      /\ Complete' = Complete
  BY <1>1, SameReports
<1> QED
  BY <1>1, <1>2 DEF AdmitInv

LEMMA RevalidateKeepsAdmission == IInv /\ AdmitInv /\ Revalidate => AdmitInv'
<1> SUFFICES ASSUME IInv, AdmitInv, Revalidate PROVE AdmitInv'
  OBVIOUS
<1>1. /\ UNCHANGED <<records, decision, qualified, cursor, artifacts, snapshot>>
      /\ pc = "revalidate"
      /\ \/ pc' = "advance" /\ qualified
         \/ pc' = "terminal" /\ failure' # {}
  BY DEF Revalidate, durable
<1>2. /\ ResumedArtifacts' = ResumedArtifacts /\ LastOf(Tree)' = LastOf(Tree)
      /\ Complete' = Complete
  BY <1>1, SameReports
<1> QED
  BY <1>1, <1>2 DEF AdmitInv

\* A new record: behavior's supplies the artifact, and only the tree's changes
\* what the finalizer was asked about.
LEMMA RecordKeepsAdmission == IInv /\ AdmitInv /\ RecordStage => AdmitInv'
<1> SUFFICES ASSUME IInv, AdmitInv, RecordStage PROVE AdmitInv'
  OBVIOUS
<1>1. /\ pc = "recording" /\ UNCHANGED <<decision, qualified>>
      /\ records \in Seq(Records) /\ cursor \in Stages
  BY DEF RecordStage, IInv, TypeOK
<1>2. /\ Behavior \notin artifacts /\ Below(cursor) \subseteq ResumedArtifacts
      /\ cursor = Behavior => snapshot
  BY <1>1 DEF IInv, Control
<1>3. PICK violations \in StageOutcomes : \E verdict \in Verdicts(violations) :
        /\ records' = Append(records,
             [stage |-> cursor, invocation_index |-> Attempt[2],
              owner_retry_index |-> ownerRetries[cursor],
              violations |-> violations, verdict |-> verdict])
        /\ \/ violations # {} /\ Route(violations)
           \/ /\ violations = {}
              /\ artifacts' = artifacts \cup {cursor}
              /\ cursor' = IF AtBehavior THEN cursor ELSE cursor + 1
              /\ pc' = "advance"
              /\ UNCHANGED <<ownerRetries, lengthRetries, snapshot, failure>>
  BY DEF RecordStage
<1>4. PICK verdict \in Verdicts(violations) :
        records' = Append(records,
             [stage |-> cursor, invocation_index |-> Attempt[2],
              owner_retry_index |-> ownerRetries[cursor],
              violations |-> violations, verdict |-> verdict])
  BY <1>3
<1> DEFINE r == [stage |-> cursor, invocation_index |-> Attempt[2],
                 owner_retry_index |-> ownerRetries[cursor],
                 violations |-> violations, verdict |-> verdict]
<1>5. /\ violations \in SUBSET Violations /\ verdict \in SUBSET Violations
      /\ \A v \in violations : v.owner = cursor
  BY <1>1, <1>4, OutcomeFacts
<1>6. r \in Records
  <2>1. ownerRetries[cursor] \in Nat
    BY <1>1 DEF IInv, TypeOK
  <2>2. invocations[cursor] \in Nat /\ invocations[cursor] >= 1
    BY <1>1 DEF IInv, TypeOK, Control
  <2>3. Attempt[2] \in Nat
    BY <2>2 DEF Attempt
  <2> QED
    BY <1>1, <1>5, <2>1, <2>3 DEF Records
<1>7. records' = Append(records, r)
  BY <1>4
<1>8. r.stage = cursor /\ r.violations = violations
  OBVIOUS
<1> HIDE DEF r
<1>9. violations = {} => cursor \in ResumedArtifacts'
  BY <1>1, <1>6, <1>7, <1>8, ArtifactsAppend
<1>10. qualified' /\ decision' = Undecided
  BY <1>1 DEF AdmitInv
<1>11. snapshot => LastOf(Tree)'.verdict = {}
  <2> SUFFICES ASSUME snapshot PROVE LastOf(Tree)'.verdict = {}
    OBVIOUS
  <2>1. cursor = Behavior /\ LastOf(Tree).verdict = {}
    BY DEF AdmitInv
  <2>2. Tree \in ResumedArtifacts
    BY <1>2, <2>1, StageFacts DEF Below
  <2>3. OfStage(Tree) # {}
    BY <2>2 DEF ResumedArtifacts
  <2>4. r.stage # Tree
    BY <1>8, <2>1, StageFacts
  <2> QED
    BY <1>1, <1>6, <1>7, <2>1, <2>3, <2>4, TreeReportStays
<1>12. CASE violations # {} /\ Route(violations)
  <2>1. /\ artifacts' \subseteq artifacts
        /\ \/ /\ pc' = "advance" /\ snapshot' = (snapshot /\ cursor' = Behavior)
           \/ /\ pc' = "terminal" /\ failure' = violations
              /\ snapshot' = snapshot /\ cursor' = cursor
    BY <1>5, <1>12, RouteFacts DEF IInv
  <2>2. Behavior \notin artifacts'
    BY <1>2, <2>1
  <2>3. snapshot' => snapshot /\ cursor' = Behavior
    BY <2>1 DEF AdmitInv
  <2> QED
    BY <1>10, <1>11, <1>12, <2>1, <2>2, <2>3 DEF AdmitInv, Undecided
<1>13. CASE /\ violations = {}
            /\ artifacts' = artifacts \cup {cursor}
            /\ cursor' = IF AtBehavior THEN cursor ELSE cursor + 1
            /\ pc' = "advance"
            /\ UNCHANGED <<ownerRetries, lengthRetries, snapshot, failure>>
  <2>1. Behavior \in artifacts' => Behavior \in ResumedArtifacts'
    BY <1>2, <1>9, <1>13
  <2>2. snapshot' => snapshot /\ cursor' = Behavior
    BY <1>13 DEF AdmitInv, AtBehavior
  <2> QED
    BY <1>10, <1>11, <1>13, <2>1, <2>2 DEF AdmitInv, Undecided
<1> QED
  BY <1>3, <1>12, <1>13

LEMMA FinalizeKeepsAdmission == IInv /\ AdmitInv /\ FinalizePrebehavior => AdmitInv'
<1> SUFFICES ASSUME IInv, AdmitInv, FinalizePrebehavior PROVE AdmitInv'
  OBVIOUS
<1>1. /\ pc = "finalizing" /\ UNCHANGED <<records, decision, qualified>>
      /\ Ready /\ cursor = Behavior
  BY DEF FinalizePrebehavior, durable, IInv, Control
<1>2. PrebehaviorReport \in SUBSET Violations
  <2>1. Tree \in ResumedArtifacts
    BY <1>1, StageFacts DEF Ready, Below
  <2>2. OfStage(Tree) # {}
    BY <2>1 DEF ResumedArtifacts
  <2>3. PICK i \in DOMAIN records : records[i].stage = Tree /\ LastOf(Tree) = records[i]
    BY <2>2, LastOfStage, StageFacts DEF IInv, TypeOK
  <2>4. records[i] \in Records
    BY DEF IInv, TypeOK
  <2> QED
    BY <2>3, <2>4 DEF PrebehaviorReport, Records
<1>3. CASE PrebehaviorReport # {}
  <2>1. Route(PrebehaviorReport)
    BY <1>3 DEF FinalizePrebehavior
  <2> QED
    BY <1>1, <1>2, <1>3, <2>1, RouteKeepsAdmission
<1>4. CASE PrebehaviorReport = {}
  <2>1. /\ pc' = "advance" /\ UNCHANGED <<cursor, artifacts, failure>>
    BY <1>4 DEF FinalizePrebehavior
  <2>2. /\ ResumedArtifacts' = ResumedArtifacts /\ LastOf(Tree)' = LastOf(Tree)
        /\ Complete' = Complete
    BY <1>1, SameReports
  <2>3. LastOf(Tree)'.verdict = {}
    BY <1>4, <2>2 DEF PrebehaviorReport
  <2>4. qualified' /\ cursor' = Behavior /\ decision' = Undecided
    BY <1>1, <2>1 DEF AdmitInv
  <2>5. Behavior \in artifacts' => Behavior \in ResumedArtifacts'
    BY <2>1, <2>2 DEF AdmitInv
  <2> QED
    BY <2>1, <2>3, <2>4, <2>5 DEF AdmitInv, Undecided
<1> QED
  BY <1>3, <1>4

LEMMA EnterAdmittingKeepsAdmission == IInv /\ AdmitInv /\ EnterAdmitting => AdmitInv'
<1> SUFFICES ASSUME IInv, AdmitInv, EnterAdmitting PROVE AdmitInv'
  OBVIOUS
<1>1. /\ pc = "advance" /\ pc' = "admitting" /\ Behavior \in artifacts
      /\ UNCHANGED <<records, decision, qualified, cursor, artifacts, snapshot>>
  BY DEF EnterAdmitting, BehaviorReady
<1>2. /\ ResumedArtifacts' = ResumedArtifacts /\ LastOf(Tree)' = LastOf(Tree)
      /\ Complete' = Complete
  BY <1>1, SameReports
<1> QED
  BY <1>1, <1>2 DEF AdmitInv

\* Admission has nothing to object to: everything it needs is there.
LEMMA AdmitKeepsAdmission == IInv /\ AdmitInv /\ Admit => AdmitInv'
<1> SUFFICES ASSUME IInv, AdmitInv, Admit PROVE AdmitInv'
  OBVIOUS
<1>1. /\ pc = "admitting" /\ UNCHANGED <<records, decision, qualified>>
      /\ Ready /\ cursor = Behavior /\ snapshot
  BY DEF Admit, durable, IInv, Control
<1>2. /\ ResumedArtifacts' = ResumedArtifacts /\ LastOf(Tree)' = LastOf(Tree)
      /\ Complete' = Complete
  BY <1>1, SameReports
<1>3. Behavior \in ResumedArtifacts
  BY <1>1 DEF AdmitInv
<1>4. AdmissionReport \in SUBSET Violations
  <2>1. OfStage(Behavior) # {}
    BY <1>3 DEF ResumedArtifacts
  <2>2. PICK i \in DOMAIN records : LastOf(Behavior) = records[i]
    BY <2>1, LastOfStage, StageFacts DEF IInv, TypeOK
  <2>3. records[i] \in Records
    BY DEF IInv, TypeOK
  <2> QED
    BY <2>2, <2>3 DEF AdmissionReport, Records
<1>5. CASE AdmissionReport # {}
  <2>1. Route(AdmissionReport)
    BY <1>5 DEF Admit
  <2> QED
    BY <1>1, <1>4, <1>5, <2>1, RouteKeepsAdmission
<1>6. CASE AdmissionReport = {}
  <2>1. /\ pc' = "terminal" /\ UNCHANGED <<cursor, artifacts, snapshot>>
    BY <1>6 DEF Admit
  <2>2. ResumedArtifacts = Stages
    <3>1. \A s \in Stages : s \in Below(Behavior) \/ s = Behavior
      BY StageFacts DEF Below
    <3> QED
      BY <1>1, <1>3, <3>1 DEF Ready, ResumedArtifacts
  <2>3. Complete
    BY <1>1, <1>6, <2>2 DEF Complete, AdmitInv, AdmissionReport
  <2> QED
    BY <1>1, <1>2, <2>1, <2>3 DEF AdmitInv
<1> QED
  BY <1>5, <1>6

LEMMA TerminalKeepsAdmission == IInv /\ AdmitInv /\ RecordTerminal => AdmitInv'
<1> SUFFICES ASSUME IInv, AdmitInv, RecordTerminal PROVE AdmitInv'
  OBVIOUS
<1>1. /\ pc = "terminal" /\ pc' = "done"
      /\ decision'.status = TerminalStatus
      /\ UNCHANGED <<records, qualified, cursor, artifacts, snapshot, failure>>
  BY DEF RecordTerminal
<1>2. /\ ResumedArtifacts' = ResumedArtifacts /\ LastOf(Tree)' = LastOf(Tree)
      /\ Complete' = Complete
  BY <1>1, SameReports
<1>3. failure = {} => Complete
  BY <1>1 DEF AdmitInv
<1>4. TerminalStatus = "admitted" => failure = {}
  BY DEF TerminalStatus
<1> QED
  BY <1>1, <1>2, <1>3, <1>4 DEF AdmitInv

\* A crash takes the snapshot; a resume starts from what the trace supplies.
LEMMA CrashAndResumeKeepAdmission == IInv /\ AdmitInv /\ (Crash \/ Resume) => AdmitInv'
<1> SUFFICES ASSUME IInv, AdmitInv, Crash \/ Resume PROVE AdmitInv'
  OBVIOUS
<1>1. UNCHANGED <<records, decision, qualified>> /\ pc # "done"
  BY DEF Crash, Resume, durable
<1>2. /\ ResumedArtifacts' = ResumedArtifacts /\ LastOf(Tree)' = LastOf(Tree)
      /\ Complete' = Complete
  BY <1>1, SameReports
<1>3. decision' = Undecided
  BY <1>1 DEF AdmitInv
<1>4. CASE Crash
  <2>1. pc' = "down" /\ artifacts' = {} /\ snapshot' = FALSE
    BY <1>4 DEF Crash
  <2> QED
    BY <1>3, <2>1 DEF AdmitInv, Undecided
<1>5. CASE Resume
  <2>1. /\ snapshot' = FALSE /\ pc' \in {"start", "terminal", "revalidate"}
        /\ pc' = "terminal" => failure' # {}
        /\ artifacts' = artifacts \/ artifacts' \subseteq ResumedArtifacts
    <3>1. pc = "down" /\ ~snapshot /\ snapshot \in BOOLEAN
      BY <1>5 DEF Resume, IInv, Control, Blank, TypeOK
    <3> QED
      BY <1>5, <3>1 DEF Resume
  <2>2. Behavior \in artifacts' => Behavior \in ResumedArtifacts'
    BY <1>2, <2>1 DEF AdmitInv
  <2> QED
    BY <1>3, <2>1, <2>2 DEF AdmitInv, Undecided
<1> QED
  BY <1>4, <1>5

LEMMA StepKeepsAdmission == IInv /\ AdmitInv /\ [Next]_vars => AdmitInv'
<1> SUFFICES ASSUME IInv, AdmitInv, [Next]_vars PROVE AdmitInv'
  OBVIOUS
<1>1. CASE Next
  BY <1>1, QuietKeepsAdmission, RevalidateKeepsAdmission, RecordKeepsAdmission,
     FinalizeKeepsAdmission, EnterAdmittingKeepsAdmission, AdmitKeepsAdmission,
     TerminalKeepsAdmission, CrashAndResumeKeepAdmission DEF Next, Machine
<1>2. CASE UNCHANGED vars
  <2>1. UNCHANGED <<records, decision, qualified, pc, cursor, artifacts, snapshot, failure>>
    BY <1>2 DEF vars, durable, local, counters
  <2>2. /\ ResumedArtifacts' = ResumedArtifacts /\ LastOf(Tree)' = LastOf(Tree)
        /\ Complete' = Complete
    BY <2>1, SameReports
  <2> QED
    BY <2>1, <2>2 DEF AdmitInv
<1> QED
  BY <1>1, <1>2

\* An admitted scenario has an artifact of every stage, none of them superseded,
\* both checks accept exactly these artifacts, and the candidate was qualified,
\* however often the attempt was interrupted on the way.
THEOREM AdmissionIsComplete == Spec => []AdmittedIsComplete
<1>1. AdmitInv => AdmittedIsComplete
  BY DEF AdmitInv, AdmittedIsComplete, Complete
<1> QED
  BY <1>1, InitAdmission, StepKeepsAdmission, AttemptInvariance, PTL DEF Spec

--------------------------------------------------------------------------------
(***************************************************************************)
(* Calls.                                                                  *)
(***************************************************************************)

\* At the boundary in front of behavior: the tree has just been accepted by its
\* stage, or behavior was tried already and failed, or it is there.
AfterTree ==
  /\ records # << >> /\ LastRecord.stage \in {Tree, Behavior}
  /\ LastViolated => LastRecord.stage = Behavior
  /\ LastRecord.stage = Behavior /\ ~LastViolated => Behavior \in artifacts

\* The machine would call a provider next, were the guard of BeginInvocation all.
MayCall == cursor = Behavior => snapshot /\ Behavior \notin artifacts

CallInv ==
  /\ pc \in {"revalidate", "advance"} /\ MayCall => CalledFor(cursor)
  /\ pc \in {"revalidate", "advance", "finalizing"} /\ cursor = Behavior /\ ~snapshot => AfterTree
  /\ pc = "finalizing" => ~snapshot
  /\ records # << >> /\ LastRecord.stage = Behavior => LastOf(Tree).verdict = {}
  /\ records # << >> /\ LastRecord.verdict # {} => LastRecord.stage \in {Tree, Behavior}

LEMMA BelowIsRange == \A s \in Stages : Actor .. (s - 1) = Below(s)
  BY StagesAssumption DEF Below, Stages, Actor

\* The last record is the last one of its stage.
LEMMA LastOfLast ==
  ASSUME records \in Seq(Records), records # << >>
  PROVE  LastOf(LastRecord.stage) = LastRecord
<1>1. /\ Len(records) \in DOMAIN records /\ LastRecord = records[Len(records)]
      /\ LastRecord.stage \in Stages /\ Len(records) \in Nat
  BY LastRecordType
<1>2. PICK s \in Stages : s = LastRecord.stage
  BY <1>1
<1>3. /\ Len(records) \in OfStage(s) /\ OfStage(s) \in SUBSET Nat
      /\ \A x \in OfStage(s) : x <= Len(records)
  BY <1>1, <1>2 DEF OfStage
<1>4. Max(OfStage(s)) \in OfStage(s) /\ Len(records) <= Max(OfStage(s))
  BY <1>1, <1>3, MaxOf
<1>5. Max(OfStage(s)) = Len(records)
  BY <1>1, <1>3, <1>4
<1>6. LastOf(s) = records[Max(OfStage(s))]
  BY DEF LastOf, OfStage
<1> QED
  BY <1>1, <1>2, <1>5, <1>6

\* A stage that is not superseded and was recorded last did not fail.
LEMMA LastArtifact ==
  ASSUME records \in Seq(Records), records # << >>, LastRecord.stage \in ResumedArtifacts
  PROVE  ~LastViolated
<1>1. /\ Len(records) \in DOMAIN records /\ LastRecord = records[Len(records)]
      /\ LastRecord.stage \in Stages
  BY LastRecordType
<1>2. PICK i \in OfStage(LastRecord.stage) :
        /\ records[i].violations = {}
        /\ \A j \in DOMAIN records : j > i => records[j].stage > LastRecord.stage
  BY DEF ResumedArtifacts
<1>3. i = Len(records) \/ Len(records) > i
  BY DEF OfStage
<1>4. i = Len(records)
  <2> SUFFICES ASSUME Len(records) > i PROVE FALSE
    BY <1>3
  <2>1. LastRecord.stage > LastRecord.stage /\ LastRecord.stage \in Nat
    BY <1>1, <1>2, StageFacts
  <2> QED
    BY <2>1
<1> QED
  BY <1>1, <1>2, <1>4 DEF LastViolated

\* Everything below is there, the stage itself is superseded or was never there,
\* and nobody objects: the stage is called for.
LEMMA NextIsCalledFor ==
  ASSUME IInv, Below(cursor) \subseteq ResumedArtifacts, ~LastViolated,
         records # << >> => cursor > LastRecord.stage /\ LastRecord.verdict = {}
  PROVE  CalledFor(cursor)
<1>1. records \in Seq(Records) /\ cursor \in Stages
  BY DEF IInv, TypeOK
<1>2. PICK s \in Stages : s = cursor
  BY <1>1
<1>3. s \notin ResumedArtifacts
  <2>1. CASE records = << >>
    BY <2>1 DEF ResumedArtifacts, OfStage
  <2>2. CASE records # << >>
    BY <1>1, <1>2, <2>2, Superseded
  <2> QED
    BY <2>1, <2>2
<1> QED
  BY <1>2, <1>3, BelowIsRange DEF CalledFor

\* The same fact for the state after a step.
NextCall ==
  IInv /\ Below(cursor) \subseteq ResumedArtifacts /\ ~LastViolated
  /\ (records # << >> => cursor > LastRecord.stage /\ LastRecord.verdict = {})
  => CalledFor(cursor)

LEMMA NextCallAfter == NextCall'
<1>1. NextCall
  BY NextIsCalledFor DEF NextCall
<1> QED
  BY <1>1, PTL

LEMMA SameCalls ==
  ASSUME records' = records
  PROVE  /\ LastRecord' = LastRecord /\ LastViolated' = LastViolated
         /\ ResumedArtifacts' = ResumedArtifacts /\ LastOf(Tree)' = LastOf(Tree)
         /\ cursor' = cursor => CalledFor(cursor)' = CalledFor(cursor)
<1>1. /\ LastRecord' = LastRecord /\ LastViolated' = LastViolated
      /\ ResumedArtifacts' = ResumedArtifacts /\ LastOf(Tree)' = LastOf(Tree)
  BY DEF LastRecord, LastViolated, ResumedArtifacts, OfStage, LastOf
<1> QED
  BY <1>1 DEF CalledFor

LEMMA InitCalls == Init => CallInv
  BY DEF Init, CallInv

\* Steps that leave the records and do not decide where to go on.
LEMMA QuietKeepsCalls ==
  ASSUME IInv, CallInv, UNCHANGED <<records, cursor, artifacts, snapshot>>,
         \/ pc \in {"revalidate", "advance"} /\ pc' = "advance"
         \/ pc = "advance" /\ pc' = "finalizing" /\ ~snapshot
         \/ pc' \notin {"revalidate", "advance", "finalizing"}
         \/ pc' = pc
  PROVE  CallInv'
<1>1. /\ LastRecord' = LastRecord /\ LastViolated' = LastViolated
      /\ LastOf(Tree)' = LastOf(Tree) /\ CalledFor(cursor)' = CalledFor(cursor)
  BY SameCalls
<1>2. MayCall' = MayCall /\ AfterTree' = AfterTree
  BY <1>1 DEF MayCall, AfterTree
<1> QED
  BY <1>1, <1>2 DEF CallInv

LEMMA StartKeepsCalls == IInv /\ CallInv /\ Start => CallInv'
<1> SUFFICES ASSUME IInv, CallInv, Start PROVE CallInv'
  OBVIOUS
<1>1. IInv'
  BY StartStep
<1>2. /\ records' = << >> /\ pc' = "revalidate" /\ cursor' = Actor
  BY DEF Start, IInv, Control, Blank, TraceShape
<1>3. (Below(cursor) \subseteq ResumedArtifacts)' /\ ~LastViolated'
  BY <1>2, StageFacts DEF Below, LastViolated
<1>4. CalledFor(cursor)'
  BY <1>1, <1>2, <1>3, NextCallAfter DEF NextCall
<1>5. cursor' # Behavior
  BY <1>2, StageFacts
<1> QED
  BY <1>2, <1>4, <1>5 DEF CallInv

\* After a record: the stage again, the next one, or a check that will decide.
LEMMA RecordKeepsCalls == IInv /\ AdmitInv /\ CallInv /\ RecordStage => CallInv'
<1> SUFFICES ASSUME IInv, AdmitInv, CallInv, RecordStage PROVE CallInv'
  OBVIOUS
<1>1. /\ pc = "recording" /\ records \in Seq(Records) /\ cursor \in Stages
      /\ IInv' /\ AdmitInv'
  BY RecordStageStep, RecordKeepsAdmission DEF RecordStage, IInv, TypeOK
<1>2. cursor = Behavior => snapshot
  BY <1>1 DEF IInv, Control
<1>3. PICK violations \in StageOutcomes : \E verdict \in Verdicts(violations) :
        /\ records' = Append(records,
             [stage |-> cursor, invocation_index |-> Attempt[2],
              owner_retry_index |-> ownerRetries[cursor],
              violations |-> violations, verdict |-> verdict])
        /\ \/ violations # {} /\ Route(violations)
           \/ /\ violations = {}
              /\ artifacts' = artifacts \cup {cursor}
              /\ cursor' = IF AtBehavior THEN cursor ELSE cursor + 1
              /\ pc' = "advance"
              /\ UNCHANGED <<ownerRetries, lengthRetries, snapshot, failure>>
  BY DEF RecordStage
<1>4. PICK verdict \in Verdicts(violations) :
        records' = Append(records,
             [stage |-> cursor, invocation_index |-> Attempt[2],
              owner_retry_index |-> ownerRetries[cursor],
              violations |-> violations, verdict |-> verdict])
  BY <1>3
<1> DEFINE r == [stage |-> cursor, invocation_index |-> Attempt[2],
                 owner_retry_index |-> ownerRetries[cursor],
                 violations |-> violations, verdict |-> verdict]
<1>5. /\ violations \in SUBSET Violations /\ verdict \in SUBSET Violations
      /\ \A v \in violations : v.owner = cursor
  BY <1>1, <1>4, OutcomeFacts
<1>6. verdict # {} => violations = {} /\ cursor \in {Tree, Behavior}
  BY <1>4 DEF Verdicts
<1>7. records' = Append(records, r) /\ r.stage = cursor /\ r.violations = violations
      /\ r.verdict = verdict
  BY <1>4
<1> HIDE DEF r
<1>8. records' # << >> /\ LastRecord' = r
  <2>1. /\ Len(records') = Len(records) + 1 /\ Len(records) \in Nat
        /\ records'[Len(records) + 1] = r
    BY <1>1, <1>7
  <2> QED
    BY <2>1 DEF LastRecord
<1>9. LastViolated' = (violations # {})
  BY <1>7, <1>8 DEF LastViolated
<1>10. LastRecord'.stage = Behavior => LastOf(Tree)'.verdict = {}
  <2> SUFFICES ASSUME cursor = Behavior PROVE LastOf(Tree)'.verdict = {}
    BY <1>7, <1>8
  <2>1. snapshot /\ LastOf(Tree).verdict = {}
    BY <1>2 DEF AdmitInv
  <2>2. Tree \in ResumedArtifacts
    BY <1>1, StageFacts DEF IInv, Control, Below
  <2>3. OfStage(Tree) # {}
    BY <2>2 DEF ResumedArtifacts
  <2>4. r \in Records
    <3>1. LastRecord' \in Records
      <4>1. records' \in Seq(Records)
        BY <1>1 DEF IInv, TypeOK
      <4>2. LastRecord' = records'[Len(records')]
        BY DEF LastRecord
      <4> QED
        BY <1>8, <4>1, <4>2
    <3> QED
      BY <1>8, <3>1
  <2> QED
    BY <1>1, <1>7, <2>1, <2>3, <2>4, StageFacts, TreeReportStays
<1>11. LastRecord'.verdict # {} => LastRecord'.stage \in {Tree, Behavior}
  BY <1>6, <1>7, <1>8
<1>12. CASE violations # {} /\ Route(violations)
  <2>1. \/ pc' = "terminal"
        \/ /\ pc' = "advance" /\ \E v \in violations : v.owner = cursor'
           /\ snapshot' = (snapshot /\ cursor' = Behavior)
    BY <1>5, <1>12, RouteFacts DEF IInv
  <2>2. CASE pc' = "advance"
    <3>1. cursor' = cursor /\ (cursor' = Behavior => snapshot')
      BY <1>2, <1>5, <2>1, <2>2
    <3>2. CalledFor(cursor)'
      BY <1>7, <1>8, <1>9, <1>12, <3>1 DEF CalledFor
    <3> QED
      BY <1>10, <1>11, <2>2, <3>1, <3>2 DEF CallInv
  <2> QED
    BY <1>10, <1>11, <2>1, <2>2 DEF CallInv
<1>13. CASE /\ violations = {}
            /\ artifacts' = artifacts \cup {cursor}
            /\ cursor' = IF AtBehavior THEN cursor ELSE cursor + 1
            /\ pc' = "advance"
            /\ UNCHANGED <<ownerRetries, lengthRetries, snapshot, failure>>
  <2>1. MayCall' => CalledFor(cursor)'
    <3> SUFFICES ASSUME MayCall' PROVE CalledFor(cursor)'
      OBVIOUS
    <3>1. cursor # Behavior
      BY <1>13 DEF MayCall, AtBehavior
    <3>2. cursor' = cursor + 1 /\ cursor' > cursor /\ ~snapshot
      BY <1>1, <1>13, <3>1, StageFacts DEF AtBehavior, AdmitInv
    <3>3. cursor # Tree
      BY <1>13, <3>2, StageFacts DEF MayCall
    <3>4. verdict = {}
      BY <1>6, <3>1, <3>3
    <3>5. (Below(cursor) \subseteq ResumedArtifacts)'
      BY <1>1, <1>13 DEF IInv, Control, Ready
    <3> QED
      BY <1>1, <1>7, <1>8, <1>9, <1>13, <3>2, <3>4, <3>5, NextCallAfter DEF NextCall
  <2>2. cursor' = Behavior => AfterTree'
    <3> SUFFICES ASSUME cursor' = Behavior PROVE AfterTree'
      OBVIOUS
    <3>1. cursor \in {Tree, Behavior}
      <4>1. cursor = Behavior \/ cursor + 1 = Behavior
        BY <1>13 DEF AtBehavior
      <4>2. cursor \in Nat /\ Behavior \in Nat /\ Tree = Behavior - 1
        BY <1>1, StageFacts
      <4> QED
        BY <4>1, <4>2
    <3> QED
      BY <1>7, <1>8, <1>9, <1>13, <3>1 DEF AfterTree
  <2> QED
    BY <1>10, <1>11, <1>13, <2>1, <2>2 DEF CallInv
<1> QED
  BY <1>3, <1>12, <1>13

\* What a check said of the last record is what routes its owner.
LEMMA RouteKeepsCalls ==
  ASSUME IInv, CallInv, NEW report \in SUBSET Violations, report # {}, Route(report),
         UNCHANGED records, records # << >>, ~LastViolated, LastRecord.verdict = report,
         snapshot \/ \A v \in report : v.owner # Behavior
  PROVE  CallInv'
<1>1. /\ LastRecord' = LastRecord /\ LastViolated' = LastViolated
      /\ ResumedArtifacts' = ResumedArtifacts /\ LastOf(Tree)' = LastOf(Tree)
  BY SameCalls
<1>2. \/ pc' = "terminal"
      \/ /\ pc' = "advance" /\ \E v \in report : v.owner = cursor'
         /\ snapshot' = (snapshot /\ cursor' = Behavior)
  BY RouteFacts DEF IInv
<1>3. CASE pc' = "advance"
  <2>1. cursor' = EarliestOwner(report)
    BY <1>3 DEF Route
  <2>2. CalledFor(cursor)'
    BY <1>1, <2>1 DEF CalledFor, EarliestOwner
  <2>3. cursor' = Behavior => snapshot'
    BY <1>2, <1>3
  <2> QED
    BY <1>1, <1>3, <2>2, <2>3 DEF CallInv
<1> QED
  BY <1>1, <1>2, <1>3 DEF CallInv

LEMMA FinalizeKeepsCalls == IInv /\ CallInv /\ FinalizePrebehavior => CallInv'
<1> SUFFICES ASSUME IInv, CallInv, FinalizePrebehavior PROVE CallInv'
  OBVIOUS
<1>1. /\ pc = "finalizing" /\ records' = records /\ records \in Seq(Records)
      /\ Ready /\ cursor = Behavior
  BY DEF FinalizePrebehavior, durable, IInv, Control, TypeOK
<1>2. /\ LastRecord' = LastRecord /\ LastViolated' = LastViolated
      /\ LastOf(Tree)' = LastOf(Tree)
      /\ cursor' = cursor => CalledFor(cursor)' = CalledFor(cursor)
  BY <1>1, SameCalls
<1>3. PrebehaviorReport \in PrebehaviorReports
  <2>1. Tree \in ResumedArtifacts
    BY <1>1, StageFacts DEF Ready, Below
  <2>2. OfStage(Tree) # {}
    BY <2>1 DEF ResumedArtifacts
  <2>3. \E i \in DOMAIN records : records[i].stage = Tree /\ LastOf(Tree) = records[i]
    BY <1>1, <2>2, LastOfStage, StageFacts
  <2> QED
    BY <2>3 DEF PrebehaviorReport, IInv, VerdictsKept
<1>4. AfterTree
  BY <1>1 DEF CallInv
<1>5. CASE PrebehaviorReport # {}
  <2>1. Route(PrebehaviorReport)
    BY <1>5 DEF FinalizePrebehavior
  <2>2. /\ PrebehaviorReport \in SUBSET Violations
        /\ \A v \in PrebehaviorReport : v.owner # Behavior
    BY <1>3, ReportsAssumption
  <2>3. LastRecord.stage = Tree
    BY <1>5, <1>4 DEF AfterTree, CallInv, PrebehaviorReport
  <2>4. ~LastViolated /\ LastRecord.verdict = PrebehaviorReport
    BY <1>1, <1>4, <2>3, LastOfLast, StageFacts DEF AfterTree, PrebehaviorReport
  <2> QED
    BY <1>1, <1>5, <1>4, <2>1, <2>2, <2>4, RouteKeepsCalls DEF AfterTree
<1>6. CASE PrebehaviorReport = {}
  <2>1. snapshot' /\ pc' = "advance" /\ UNCHANGED <<cursor, artifacts>>
    BY <1>6 DEF FinalizePrebehavior
  <2>2. MayCall' => CalledFor(cursor)
    <3> SUFFICES ASSUME Behavior \notin artifacts PROVE CalledFor(cursor)
      BY <1>1, <2>1 DEF MayCall
    <3>1. CASE LastRecord.stage = Behavior
      BY <1>1, <1>4, <3>1 DEF AfterTree, CalledFor
    <3>2. CASE LastRecord.stage = Tree
      <4>1. ~LastViolated
        BY <1>4, <3>2, StageFacts DEF AfterTree
      <4>2. LastRecord.verdict = {}
        BY <1>1, <1>4, <1>6, <3>2, LastOfLast DEF AfterTree, PrebehaviorReport
      <4>3. cursor > LastRecord.stage
        BY <1>1, <3>2, StageFacts
      <4> QED
        BY <1>1, <4>1, <4>2, <4>3, NextIsCalledFor DEF Ready
    <3> QED
      BY <1>4, <3>1, <3>2 DEF AfterTree
  <2> QED
    BY <1>1, <1>2, <2>1, <2>2 DEF CallInv
<1> QED
  BY <1>5, <1>6

LEMMA AdmitKeepsCalls == IInv /\ AdmitInv /\ CallInv /\ Admit => CallInv'
<1> SUFFICES ASSUME IInv, AdmitInv, CallInv, Admit PROVE CallInv'
  OBVIOUS
<1>1. /\ pc = "admitting" /\ records' = records /\ records \in Seq(Records)
      /\ snapshot /\ Behavior \in artifacts /\ edge.current = Admitting
  BY DEF Admit, durable, IInv, Control, TypeOK, AdmitInv
<1>2. LastIs(Behavior)
  BY <1>1 DEF IInv, TraceShape
<1>3. LastOf(Behavior) = LastRecord /\ ~LastViolated
  BY <1>1, <1>2, LastOfLast, LastArtifact DEF LastIs, AdmitInv
<1>4. CASE AdmissionReport # {}
  <2>1. Route(AdmissionReport) /\ LastRecord.verdict = AdmissionReport
    BY <1>3, <1>4 DEF Admit, AdmissionReport
  <2>2. AdmissionReport \in SUBSET Violations
    <3>1. Len(records) \in DOMAIN records /\ LastRecord = records[Len(records)]
      BY <1>1, <1>2, LastRecordType DEF LastIs
    <3>2. LastRecord \in Records
      BY <1>1, <3>1
    <3> QED
      BY <2>1, <3>2 DEF Records
  <2> QED
    BY <1>1, <1>2, <1>3, <1>4, <2>1, <2>2, RouteKeepsCalls DEF LastIs
<1>5. CASE AdmissionReport = {}
  <2>1. pc' = "terminal" /\ UNCHANGED <<records, cursor, artifacts, snapshot>>
    BY <1>1, <1>5 DEF Admit
  <2> QED
    BY <2>1, QuietKeepsCalls
<1> QED
  BY <1>4, <1>5

\* A resume goes on with the stage the trace calls for, or in front of behavior.
LEMMA ResumeKeepsCalls == IInv /\ CallInv /\ Resume => CallInv'
<1> SUFFICES ASSUME IInv, CallInv, Resume PROVE CallInv'
  OBVIOUS
<1>1. /\ records' = records /\ records \in Seq(Records) /\ pc = "down"
      /\ snapshot' = FALSE /\ IInv'
  <2>1. pc = "down" /\ ~snapshot /\ snapshot \in BOOLEAN
    BY DEF Resume, IInv, Control, Blank, TypeOK
  <2> QED
    BY <2>1, ResumeStep DEF Resume, durable, IInv, TypeOK
<1>2. /\ LastRecord' = LastRecord /\ LastViolated' = LastViolated
      /\ ResumedArtifacts' = ResumedArtifacts /\ LastOf(Tree)' = LastOf(Tree)
  BY <1>1, SameCalls
<1>3. \/ pc' \in {"start", "terminal"}
      \/ /\ pc' = "revalidate" /\ cursor' = ResumedStage
         /\ artifacts' = {s \in ResumedArtifacts : LastViolated => s < ResumedStage}
  BY DEF Resume
<1>4. CASE pc' \in {"start", "terminal"}
  BY <1>1, <1>2, <1>4 DEF CallInv
<1>5. CASE /\ pc' = "revalidate" /\ cursor' = ResumedStage
           /\ artifacts' = {s \in ResumedArtifacts : LastViolated => s < ResumedStage}
  <2>1. /\ ResumedStage \in Stages
        /\ Below(ResumedStage) \subseteq ResumedArtifacts
        /\ records = << >> => ResumedStage = Actor
        /\ records # << >> /\ LastRecord.stage # Behavior /\ ResumedStage = Behavior
             => LastRecord.stage = Tree
    BY <1>1, ResumedStageFacts DEF IInv
  <2>2. LastViolated => ResumedStage = LastRecord.stage
    BY DEF ResumedStage
  <2>3. ASSUME ResumedStage = Behavior PROVE AfterTree'
    <3>1. records # << >> /\ LastRecord.stage \in {Tree, Behavior}
      BY <2>1, <2>3, StageFacts
    <3>2. ASSUME LastRecord.stage = Behavior, ~LastViolated PROVE Behavior \in artifacts'
      <4>1. LastRecord.violations = {}
        BY <3>1, <3>2 DEF LastViolated
      <4>2. Behavior \in ResumedArtifacts
        <5>1. /\ Len(records) \in DOMAIN records /\ LastRecord = records[Len(records)]
              /\ \A j \in DOMAIN records : ~ (j > Len(records))
          BY <1>1, <3>1, LastRecordType
        <5>2. Len(records) \in OfStage(Behavior)
          BY <3>2, <5>1 DEF OfStage
        <5> QED
          BY <4>1, <5>1, <5>2, StageFacts DEF ResumedArtifacts
      <4> QED
        BY <1>5, <3>2, <4>2
    <3> QED
      BY <1>1, <1>2, <2>2, <2>3, <3>1, <3>2 DEF AfterTree
  <2>4. ASSUME ResumedStage # Behavior PROVE CalledFor(cursor)'
    <3>1. CASE LastViolated
      BY <1>2, <1>5, <2>2, <3>1 DEF CalledFor
    <3>2. CASE ~LastViolated
      <4>1. ResumedStage = Min(Stages \ ResumedArtifacts) /\ ~ (Stages \subseteq ResumedArtifacts)
        BY <2>4, <3>2 DEF ResumedStage
      <4>2. ResumedStage \notin ResumedArtifacts
        <5>1. Stages \ ResumedArtifacts \in SUBSET Nat /\ Stages \ ResumedArtifacts # {}
          BY <4>1, StageFacts
        <5> QED
          BY <4>1, <5>1, MinOf
      <4>3. records # << >> => LastRecord.verdict = {}
        <5> SUFFICES ASSUME records # << >>, LastRecord.verdict # {} PROVE FALSE
          OBVIOUS
        <5>1. LastRecord.stage \in {Tree, Behavior} /\ LastRecord.violations = {}
          BY <3>2 DEF CallInv, LastViolated
        <5>2. /\ Len(records) \in DOMAIN records /\ LastRecord = records[Len(records)]
              /\ \A j \in DOMAIN records : ~ (j > Len(records))
          BY <1>1, LastRecordType
        <5>3. LastRecord.stage \in ResumedArtifacts
          BY <5>1, <5>2, StageFacts DEF ResumedArtifacts, OfStage
        <5>4. Below(LastRecord.stage) \subseteq ResumedArtifacts
          BY DEF IInv, PrefixKept
        <5>5. Below(Behavior) \subseteq ResumedArtifacts
          <6>1. \A s \in Stages : s < Behavior => s = Tree \/ s < Tree
            BY StageFacts
          <6> QED
            BY <5>1, <5>3, <5>4, <6>1 DEF Below
        <5>6. ResumedStage \in Below(Behavior)
          BY <2>1, <2>4, StageFacts DEF Below
        <5> QED
          BY <4>2, <5>5, <5>6
      <4>4. CalledFor(ResumedStage)
        BY <2>1, <3>2, <4>2, <4>3, BelowIsRange DEF CalledFor
      <4> QED
        BY <1>2, <1>5, <1>1, <4>4 DEF CalledFor
    <3> QED
      BY <3>1, <3>2
  <2> QED
    BY <1>1, <1>2, <1>5, <2>3, <2>4 DEF CallInv, MayCall
<1> QED
  BY <1>3, <1>4, <1>5

LEMMA StepKeepsCalls == IInv /\ AdmitInv /\ CallInv /\ [Next]_vars => CallInv'
<1> SUFFICES ASSUME IInv, AdmitInv, CallInv, [Next]_vars PROVE CallInv'
  OBVIOUS
<1>1. CASE \/ Revalidate \/ BeginInvocation \/ AppendCallRow
           \/ EnterFinalizing \/ EnterAdmitting \/ RecordTerminal
  <2>1. /\ UNCHANGED <<records, cursor, artifacts, snapshot>>
        /\ \/ pc \in {"revalidate", "advance"} /\ pc' = "advance"
           \/ pc = "advance" /\ pc' = "finalizing" /\ ~snapshot
           \/ pc' \notin {"revalidate", "advance", "finalizing"}
    BY <1>1 DEF Revalidate, BeginInvocation, AppendCallRow, EnterFinalizing, EnterAdmitting,
                RecordTerminal, durable, local
  <2> QED
    BY <2>1, QuietKeepsCalls
<1>2. CASE Crash
  <2>1. pc' = "down" /\ records' = records
    BY <1>2 DEF Crash, durable
  <2>2. LastRecord' = LastRecord /\ LastOf(Tree)' = LastOf(Tree)
    BY <2>1, SameCalls
  <2> QED
    BY <2>1, <2>2 DEF CallInv
<1>3. CASE UNCHANGED vars
  <2>1. UNCHANGED <<records, cursor, artifacts, snapshot, pc>>
    BY <1>3 DEF vars, durable, local
  <2> QED
    BY <2>1, QuietKeepsCalls
<1> QED
  BY <1>1, <1>2, <1>3, StartKeepsCalls, RecordKeepsCalls, FinalizeKeepsCalls, AdmitKeepsCalls,
     ResumeKeepsCalls DEF Next, Machine

\* A provider is called only for the stage the durable trace calls for: the one
\* that failed last, the one a check names, or the first that is missing; a
\* behavior that is durable and accepted is never generated again.
THEOREM OnlyCalledFor == Spec => CallsAreCalledFor
<1>1. IInv /\ CallInv /\ [Next]_vars => [invoked' # invoked => CalledFor(cursor)]_vars
  <2> SUFFICES ASSUME IInv, CallInv, Next, invoked' # invoked PROVE CalledFor(cursor)
    OBVIOUS
  <2>1. CASE BeginInvocation
    BY <2>1 DEF BeginInvocation, AtBehavior, CallInv, MayCall
  <2>2. CASE ~BeginInvocation
    <3>1. invoked' = invoked
      BY <2>2 DEF Next, Machine, Start, Revalidate, AppendCallRow, RecordStage,
                  EnterFinalizing, FinalizePrebehavior, EnterAdmitting, Admit, RecordTerminal,
                  Crash, Resume, durable
    <3> QED
      BY <3>1
  <2> QED
    BY <2>1, <2>2
<1> QED
  BY <1>1, InitAdmission, StepKeepsAdmission, InitCalls, StepKeepsCalls, AttemptInvariance, PTL
  DEF Spec, CallsAreCalledFor

--------------------------------------------------------------------------------
(***************************************************************************)
(* The semantic owner-retry budget holds for any number of stages, any     *)
(* budgets and any number of crashes, although a resume does not read the  *)
(* retry counters but derives them from the records.                       *)
(*                                                                         *)
(* A failure that is not a length failure is followed by a record of the   *)
(* same stage with a higher owner retry index, and these indices never     *)
(* fall (FailuresRaise, Rising).  So the semantic failures of one stage    *)
(* carry different indices, none above the budget (Within), and there are  *)
(* at most one more of them than the budget allows retries.                *)
(***************************************************************************)

\* Record i is a failure that consumes semantic budget.
Semantic(i) ==
  records[i].violations # {} /\ ~ \E v \in records[i].violations : v.length

\* The process has an attempt in hand that may still call a provider.
Working ==
  pc \in {"start", "revalidate", "advance", "calling", "recording", "finalizing", "admitting"}

Within == \A i \in DOMAIN records : records[i].owner_retry_index <= MAX_OWNER_RETRIES

Rising ==
  \A i, j \in DOMAIN records :
    i < j /\ records[i].stage = records[j].stage =>
      records[i].owner_retry_index <= records[j].owner_retry_index

FailuresRaise ==
  \A i \in DOMAIN records :
    i # Len(records) /\ Semantic(i) =>
      /\ records[i + 1].stage = records[i].stage
      /\ records[i + 1].owner_retry_index > records[i].owner_retry_index

\* The counters of a live process are not behind the records.
Covered ==
  pc # "down" =>
    \A i \in DOMAIN records : records[i].owner_retry_index <= ownerRetries[records[i].stage]

\* A failure that is still to be answered has been counted.
LastCounted ==
  Working /\ records # << >> /\ Semantic(Len(records)) =>
    ownerRetries[LastRecord.stage] > LastRecord.owner_retry_index

InBudget == Working => \A s \in Stages : ownerRetries[s] <= MAX_OWNER_RETRIES

FailureRepeats == pc \in {"calling", "recording"} /\ LastViolated => cursor = LastRecord.stage

BudgetInv ==
  /\ Within /\ Rising /\ FailuresRaise
  /\ Covered /\ LastCounted /\ InBudget /\ FailureRepeats

--------------------------------------------------------------------------------
(***************************************************************************)
(* From the invariant to the budget.                                       *)
(***************************************************************************)

\* The semantic failures of a stage carry different retry indices.
LEMMA FailuresDiffer ==
  ASSUME records \in Seq(Records), Rising, FailuresRaise, NEW s \in Stages,
         NEW i \in Failures(s, FALSE), NEW j \in Failures(s, FALSE), i < j
  PROVE  records[i].owner_retry_index < records[j].owner_retry_index
<1>1. /\ i \in DOMAIN records /\ j \in DOMAIN records
      /\ records[i].stage = s /\ records[j].stage = s /\ Semantic(i)
  BY DEF Failures, OfStage, Semantic
<1>2. DOMAIN records = 1 .. Len(records) /\ Len(records) \in Nat
  OBVIOUS
<1>3. i # Len(records) /\ i + 1 \in DOMAIN records /\ (i + 1 = j \/ i + 1 < j)
  BY <1>1, <1>2
<1>4. /\ records[i + 1].stage = s
      /\ records[i + 1].owner_retry_index > records[i].owner_retry_index
  BY <1>1, <1>3 DEF FailuresRaise
<1>5. records[i + 1].owner_retry_index <= records[j].owner_retry_index
  <2>1. \A k \in DOMAIN records : records[k].owner_retry_index \in Nat
    <3> TAKE k \in DOMAIN records
    <3>1. records[k] \in Records
      OBVIOUS
    <3> QED
      BY <3>1 DEF Records
  <2>2. CASE i + 1 = j
    BY <1>1, <2>1, <2>2
  <2>3. CASE i + 1 < j
    BY <1>1, <1>3, <1>4, <2>3 DEF Rising
  <2> QED
    BY <1>3, <2>2, <2>3
<1>6. \A k \in DOMAIN records : records[k].owner_retry_index \in Nat
  <2> TAKE k \in DOMAIN records
  <2>1. records[k] \in Records
    OBVIOUS
  <2> QED
    BY <2>1 DEF Records
<1> QED
  BY <1>1, <1>3, <1>4, <1>5, <1>6

\* Rising values below a bound are few.
LEMMA RisingAreFew ==
  ASSUME NEW S \in SUBSET Nat, NEW n \in Nat, NEW f \in [S -> 0 .. n],
         \A i, j \in S : i < j => f[i] < f[j]
  PROVE  Cardinality(S) <= n + 1
<1>1. ASSUME NEW i \in S, NEW j \in S, f[i] = f[j] PROVE i = j
  <2>1. i \in Nat /\ j \in Nat /\ f[i] \in Nat /\ f[j] \in Nat
    OBVIOUS
  <2>2. ~ (i < j) /\ ~ (j < i)
    BY <1>1, <2>1
  <2> QED
    BY <2>1, <2>2
<1>2. f \in Injection(S, 0 .. n)
  BY <1>1 DEF Injection, IsInjective
<1>3. IsFiniteSet(0 .. n) /\ Cardinality(0 .. n) = n + 1
  BY FS_Interval
<1>4. Cardinality(S) <= Cardinality(0 .. n)
  BY <1>2, <1>3, FS_Injection
<1> QED
  BY <1>3, <1>4

LEMMA BudgetFollows ==
  ASSUME records \in Seq(Records), Within, Rising, FailuresRaise
  PROVE  SemanticBudgetKept
<1>1. \A k \in DOMAIN records : records[k].owner_retry_index \in Nat
  <2> TAKE k \in DOMAIN records
  <2>1. records[k] \in Records
    OBVIOUS
  <2> QED
    BY <2>1 DEF Records
<1> SUFFICES ASSUME NEW s \in Stages
             PROVE  /\ Cardinality(Failures(s, FALSE)) <= MAX_OWNER_RETRIES + 1
                    /\ \A i \in OfStage(s) : records[i].owner_retry_index <= MAX_OWNER_RETRIES
  BY DEF SemanticBudgetKept
<1>2. \A i \in OfStage(s) : records[i].owner_retry_index <= MAX_OWNER_RETRIES
  BY DEF Within, OfStage
<1> DEFINE F == Failures(s, FALSE)
           f == [i \in F |-> records[i].owner_retry_index]
<1>3. F \subseteq OfStage(s) /\ OfStage(s) \subseteq DOMAIN records /\ DOMAIN records \subseteq Nat
  BY DEF Failures, OfStage
<1>4. ASSUME NEW i \in F PROVE records[i].owner_retry_index \in 0 .. MAX_OWNER_RETRIES
  <2>1. i \in DOMAIN records /\ i \in OfStage(s)
    BY <1>3
  <2>2. /\ records[i].owner_retry_index \in Nat
        /\ records[i].owner_retry_index <= MAX_OWNER_RETRIES
    BY <1>1, <1>2, <2>1
  <2> QED
    BY <2>2, BudgetsAssumption
<1>5. ASSUME NEW i \in F, NEW j \in F, i < j
      PROVE  records[i].owner_retry_index < records[j].owner_retry_index
  BY <1>5, FailuresDiffer
<1> HIDE DEF F
<1>6. f \in [F -> 0 .. MAX_OWNER_RETRIES] /\ \A i, j \in F : i < j => f[i] < f[j]
  BY <1>4, <1>5
<1>7. F \in SUBSET Nat
  BY <1>3
<1> HIDE DEF f
<1>8. Cardinality(F) <= MAX_OWNER_RETRIES + 1
  BY <1>6, <1>7, BudgetsAssumption, RisingAreFew
<1> QED
  BY <1>2, <1>8 DEF F

--------------------------------------------------------------------------------
(***************************************************************************)
(* What routing and resuming do to the counters.                           *)
(***************************************************************************)

\* Routing counts up, within the budget, and counts a retry that is not for
\* length.
LEMMA RouteCounts ==
  ASSUME TypeOK, NEW violations \in SUBSET Violations, violations # {}, Route(violations)
  PROVE  /\ \A s \in Stages : ownerRetries'[s] >= ownerRetries[s] /\ ownerRetries'[s] \in Nat
         /\ \A s \in Stages : ownerRetries[s] <= MAX_OWNER_RETRIES
                                => ownerRetries'[s] <= MAX_OWNER_RETRIES
         /\ pc' \in {"advance", "terminal"}
         /\ pc' = "advance" /\ (\A v \in violations : ~v.length) =>
              ownerRetries'[cursor'] = ownerRetries[cursor'] + 1
<1> DEFINE owner == EarliestOwner(violations)
<1>1. ownerRetries \in [Stages -> Nat]
  BY DEF TypeOK
<1>2. CASE ~Retries(owner, violations)
  <2>1. ownerRetries' = ownerRetries /\ pc' = "terminal"
    BY <1>2 DEF Route
  <2> QED
    BY <1>1, <2>1
<1>3. CASE Retries(owner, violations)
  <2>1. owner \in Stages
    BY <1>3, OwnerOf DEF Retries
  <2>2. cursor' = owner /\ pc' = "advance"
    BY <1>3 DEF Route
  <2>3. CASE IsLength(owner, violations)
    <3>1. ownerRetries' = ownerRetries /\ \E v \in violations : v.length
      BY <1>3, <2>3 DEF Route, IsLength
    <3> QED
      BY <1>1, <2>2, <3>1
  <2>4. CASE ~IsLength(owner, violations)
    <3>1. /\ ownerRetries' = [ownerRetries EXCEPT ![owner] = @ + 1]
          /\ ownerRetries[owner] < MAX_OWNER_RETRIES
      BY <1>3, <2>4 DEF Route, Retries
    <3> HIDE DEF owner
    <3>2. /\ \A s \in Stages : s # owner => ownerRetries'[s] = ownerRetries[s]
          /\ ownerRetries'[owner] = ownerRetries[owner] + 1
          /\ ownerRetries[owner] + 1 <= MAX_OWNER_RETRIES
      BY <1>1, <2>1, <3>1, BudgetsAssumption
    <3>3. \A s \in Stages : ownerRetries[s] \in Nat
      BY <1>1
    <3> QED
      BY <2>1, <2>2, <3>2, <3>3
  <2> QED
    BY <2>3, <2>4
<1> QED
  BY <1>2, <1>3

\* The counter a resume derives for a stage: the greatest credit of its records.
Credit(i) == records[i].owner_retry_index + IF i = Len(records) /\ LastViolated THEN 1 ELSE 0

LEMMA ResumedRetries ==
  ASSUME records \in Seq(Records), NEW s \in Stages
  PROVE  /\ ResumedOwnerRetries(s) \in Nat
         /\ \A i \in OfStage(s) : Credit(i) \in Nat /\ Credit(i) <= ResumedOwnerRetries(s)
         /\ ResumedOwnerRetries(s) = 0 \/ \E i \in OfStage(s) : ResumedOwnerRetries(s) = Credit(i)
<1>1. Len(records) \in Nat /\ DOMAIN records = 1 .. Len(records)
  OBVIOUS
<1> DEFINE f == [i \in 1 .. Len(records) |-> Credit(i)]
           credits == {Credit(i) : i \in OfStage(s)} \cup {0}
<1>2. \A i \in 1 .. Len(records) : Credit(i) \in Nat
  <2> TAKE i \in 1 .. Len(records)
  <2>1. records[i] \in Records
    BY <1>1
  <2>2. records[i].owner_retry_index \in Nat
    BY <2>1 DEF Records
  <2> QED
    BY <2>2 DEF Credit
<1>3. f \in [1 .. Len(records) -> Nat]
  BY <1>2
<1>4. PICK b \in Nat : \A i \in 1 .. Len(records) : f[i] <= b
  BY <1>1, <1>3, Bounded
<1>5. OfStage(s) \subseteq 1 .. Len(records)
  BY <1>1 DEF OfStage
<1>6. credits \in SUBSET Nat /\ credits # {} /\ \A x \in credits : x <= b
  BY <1>2, <1>4, <1>5
<1>7. Max(credits) \in credits /\ \A y \in credits : y <= Max(credits)
  BY <1>6, MaxOf
<1>8. ResumedOwnerRetries(s) = Max(credits)
  BY DEF ResumedOwnerRetries, Credit
<1> QED
  BY <1>2, <1>5, <1>6, <1>7, <1>8

--------------------------------------------------------------------------------
(***************************************************************************)
(* The steps.                                                              *)
(***************************************************************************)
RecordPart == Within /\ Rising /\ FailuresRaise

LEMMA SameRetries ==
  ASSUME records' = records
  PROVE  /\ LastRecord' = LastRecord /\ LastViolated' = LastViolated
         /\ \A i : Semantic(i)' = Semantic(i)
         /\ RecordPart => RecordPart'
  BY DEF LastRecord, LastViolated, Semantic, RecordPart, Within, Rising, FailuresRaise

LEMMA RecordNumbers ==
  ASSUME records \in Seq(Records)
  PROVE  /\ \A i \in DOMAIN records :
              records[i].stage \in Stages /\ records[i].owner_retry_index \in Nat
         /\ records # << >> => Len(records) \in DOMAIN records
<1>1. \A i \in DOMAIN records : records[i] \in Records
  OBVIOUS
<1> QED
  BY <1>1 DEF Records

LEMMA InitBudget == Init => BudgetInv
<1> SUFFICES ASSUME Init PROVE BudgetInv
  OBVIOUS
<1>1. records = << >> /\ ownerRetries = Zero /\ pc = "start"
  BY DEF Init
<1>2. \A s \in Stages : ownerRetries[s] <= MAX_OWNER_RETRIES
  BY <1>1, BudgetsAssumption DEF Zero
<1>3. RecordPart
  BY <1>1 DEF RecordPart, Within, Rising, FailuresRaise
<1> QED
  BY <1>1, <1>2, <1>3 DEF BudgetInv, RecordPart, Covered, LastCounted, InBudget, FailureRepeats

\* Steps that write no record and count nothing.
LEMMA QuietKeepsBudget ==
  ASSUME IInv, BudgetInv, UNCHANGED <<records, ownerRetries>>,
         pc # "down", Working' => Working,
         \/ pc' \notin {"calling", "recording"}
         \/ pc \in {"calling", "recording"} /\ cursor' = cursor
         \/ cursor' = cursor /\ CalledFor(cursor)
  PROVE  BudgetInv'
<1>1. /\ LastRecord' = LastRecord /\ LastViolated' = LastViolated
      /\ Semantic(Len(records))' = Semantic(Len(records))
      /\ RecordPart'
  BY SameRetries DEF BudgetInv, RecordPart
<1>2. Covered' /\ LastCounted' /\ InBudget'
  BY <1>1 DEF BudgetInv, Covered, LastCounted, InBudget
<1>3. FailureRepeats'
  BY <1>1 DEF BudgetInv, FailureRepeats, CalledFor
<1> QED
  BY <1>1, <1>2, <1>3 DEF BudgetInv, RecordPart

\* A report of a check counts up or ends the attempt.
LEMMA RouteKeepsBudget ==
  ASSUME IInv, BudgetInv, pc \in {"finalizing", "admitting"}, UNCHANGED records,
         NEW report \in SUBSET Violations, report # {}, Route(report)
  PROVE  BudgetInv'
<1>1. /\ LastRecord' = LastRecord /\ Semantic(Len(records))' = Semantic(Len(records))
      /\ RecordPart'
  BY SameRetries DEF BudgetInv, RecordPart
<1>2. /\ \A s \in Stages : ownerRetries'[s] >= ownerRetries[s] /\ ownerRetries'[s] \in Nat
      /\ \A s \in Stages : ownerRetries[s] <= MAX_OWNER_RETRIES
                             => ownerRetries'[s] <= MAX_OWNER_RETRIES
      /\ pc' \in {"advance", "terminal"}
  BY RouteCounts DEF IInv
<1>3. /\ records \in Seq(Records) /\ ownerRetries \in [Stages -> Nat]
      /\ \A i \in DOMAIN records :
           records[i].stage \in Stages /\ records[i].owner_retry_index \in Nat
      /\ records # << >> => Len(records) \in DOMAIN records
  BY RecordNumbers DEF IInv, TypeOK
<1>4. \A s \in Stages : ownerRetries[s] \in Nat
  BY <1>3
<1>5. Working /\ pc # "down"
  BY DEF Working
<1>6. Covered'
  <2> SUFFICES ASSUME NEW i \in DOMAIN records
               PROVE  records[i].owner_retry_index <= ownerRetries'[records[i].stage]
    BY DEF Covered
  <2>1. records[i].owner_retry_index <= ownerRetries[records[i].stage]
    BY <1>5 DEF BudgetInv, Covered
  <2> QED
    BY <1>2, <1>3, <1>4, <2>1
<1>7. LastCounted'
  <2> SUFFICES ASSUME records # << >>, Semantic(Len(records))
               PROVE  ownerRetries'[LastRecord.stage] > LastRecord.owner_retry_index
    BY <1>1 DEF LastCounted
  <2>1. ownerRetries[LastRecord.stage] > LastRecord.owner_retry_index
    BY <1>5 DEF BudgetInv, LastCounted
  <2>2. LastRecord.stage \in Stages /\ LastRecord.owner_retry_index \in Nat
    BY <1>3 DEF LastRecord
  <2> QED
    BY <1>2, <1>4, <2>1, <2>2
<1>8. InBudget' /\ FailureRepeats'
  BY <1>2, <1>5 DEF BudgetInv, InBudget, FailureRepeats
<1> QED
  BY <1>1, <1>6, <1>7, <1>8 DEF BudgetInv, RecordPart

LEMMA ChecksKeepBudget == IInv /\ BudgetInv /\ (FinalizePrebehavior \/ Admit) => BudgetInv'
<1> SUFFICES ASSUME IInv, BudgetInv, FinalizePrebehavior \/ Admit PROVE BudgetInv'
  OBVIOUS
<1>1. /\ records' = records /\ records \in Seq(Records)
      /\ pc \in {"finalizing", "admitting"} /\ Working /\ pc # "down"
  BY DEF FinalizePrebehavior, Admit, durable, Working, IInv, TypeOK
<1>2. Ready /\ cursor = Behavior
  BY <1>1 DEF IInv, Control
<1>3. ASSUME NEW s \in Stages, OfStage(s) # {} PROVE LastOf(s).verdict \in SUBSET Violations
  <2>1. PICK i \in DOMAIN records : LastOf(s) = records[i]
    BY <1>1, <1>3, LastOfStage
  <2>2. records[i] \in Records
    BY <1>1
  <2> QED
    BY <2>1, <2>2 DEF Records
<1>4. CASE FinalizePrebehavior
  <2>1. PrebehaviorReport \in SUBSET Violations
    <3>1. Tree \in ResumedArtifacts
      BY <1>2, StageFacts DEF Ready, Below
    <3>2. OfStage(Tree) # {}
      BY <3>1 DEF ResumedArtifacts
    <3> QED
      BY <1>3, <3>2, StageFacts DEF PrebehaviorReport
  <2>2. CASE PrebehaviorReport # {}
    <3>1. Route(PrebehaviorReport)
      BY <1>4, <2>2 DEF FinalizePrebehavior
    <3> QED
      BY <1>1, <2>1, <2>2, <3>1, RouteKeepsBudget
  <2>3. CASE PrebehaviorReport = {}
    <3>1. ownerRetries' = ownerRetries /\ pc' = "advance"
      BY <1>4, <2>3 DEF FinalizePrebehavior
    <3> QED
      BY <1>1, <3>1, QuietKeepsBudget
  <2> QED
    BY <2>2, <2>3
<1>5. CASE Admit
  <2>1. AdmissionReport \in SUBSET Violations
    <3>1. pc = "admitting"
      BY <1>5 DEF Admit
    <3>2. LastIs(Behavior)
      BY <3>1 DEF IInv, Control, TraceShape
    <3>3. OfStage(Behavior) # {}
      BY <1>1, <3>2, LastRecordType DEF LastIs, OfStage
    <3> QED
      BY <1>3, <3>3, StageFacts DEF AdmissionReport
  <2>2. CASE AdmissionReport # {}
    <3>1. Route(AdmissionReport)
      BY <1>5, <2>2 DEF Admit
    <3> QED
      BY <1>1, <2>1, <2>2, <3>1, RouteKeepsBudget
  <2>3. CASE AdmissionReport = {}
    <3>1. ownerRetries' = ownerRetries /\ pc' = "terminal"
      BY <1>5, <2>3 DEF Admit
    <3> QED
      BY <1>1, <3>1, QuietKeepsBudget
  <2> QED
    BY <2>2, <2>3
<1> QED
  BY <1>4, <1>5

\* A new record carries the counter of its stage, and a failure that consumes
\* budget is counted before the stage is tried again.
LEMMA RecordKeepsBudget == IInv /\ BudgetInv /\ RecordStage => BudgetInv'
<1> SUFFICES ASSUME IInv, BudgetInv, RecordStage PROVE BudgetInv'
  OBVIOUS
<1>1. /\ pc = "recording" /\ records \in Seq(Records) /\ cursor \in Stages
      /\ ownerRetries \in [Stages -> Nat] /\ Working /\ records' \in Seq(Records)
  BY RecordStageStep DEF RecordStage, Working, IInv, TypeOK
<1>2. PICK violations \in StageOutcomes : \E verdict \in Verdicts(violations) :
        /\ records' = Append(records,
             [stage |-> cursor, invocation_index |-> Attempt[2],
              owner_retry_index |-> ownerRetries[cursor],
              violations |-> violations, verdict |-> verdict])
        /\ \/ violations # {} /\ Route(violations)
           \/ /\ violations = {}
              /\ artifacts' = artifacts \cup {cursor}
              /\ cursor' = IF AtBehavior THEN cursor ELSE cursor + 1
              /\ pc' = "advance"
              /\ UNCHANGED <<ownerRetries, lengthRetries, snapshot, failure>>
  BY DEF RecordStage
<1>3. PICK verdict \in Verdicts(violations) :
        records' = Append(records,
             [stage |-> cursor, invocation_index |-> Attempt[2],
              owner_retry_index |-> ownerRetries[cursor],
              violations |-> violations, verdict |-> verdict])
  BY <1>2
<1> DEFINE r == [stage |-> cursor, invocation_index |-> Attempt[2],
                 owner_retry_index |-> ownerRetries[cursor],
                 violations |-> violations, verdict |-> verdict]
<1>4. /\ violations \in SUBSET Violations
      /\ \A v \in violations : v.owner = cursor
  BY <1>1, <1>3, OutcomeFacts
<1>5. /\ records' = Append(records, r) /\ r.stage = cursor /\ r.violations = violations
      /\ r.owner_retry_index = ownerRetries[cursor]
  BY <1>3
<1> HIDE DEF r
<1>0. PICK n \in Nat : n = Len(records) + 1
  BY <1>1
<1>6. /\ Len(records') = n /\ Len(records) \in Nat /\ n \in Nat
      /\ DOMAIN records = 1 .. Len(records)
      /\ DOMAIN records' = DOMAIN records \cup {n}
      /\ \A i \in DOMAIN records : records'[i] = records[i] /\ i # n /\ i < n
      /\ records'[n] = r
  BY <1>0, <1>1, <1>5
<1>7. LastRecord' = r /\ (Semantic(n)' => violations # {} /\ \A v \in violations : ~v.length)
  <2>1. LastRecord' = records'[Len(records')]
    BY DEF LastRecord
  <2> QED
    BY <1>5, <1>6, <2>1 DEF Semantic
<1>8. /\ \A i \in DOMAIN records :
           records[i].stage \in Stages /\ records[i].owner_retry_index \in Nat
      /\ records # << >> => Len(records) \in DOMAIN records
      /\ ownerRetries[cursor] \in Nat /\ ownerRetries[cursor] <= MAX_OWNER_RETRIES
  BY <1>1, RecordNumbers DEF BudgetInv, InBudget
<1>9. \A i \in DOMAIN records : records[i].owner_retry_index <= ownerRetries[records[i].stage]
  BY <1>1 DEF BudgetInv, Covered
<1>10. Within'
  BY <1>5, <1>6, <1>8 DEF BudgetInv, Within
<1>11. Rising'
  <2> SUFFICES ASSUME NEW i \in DOMAIN records', NEW j \in DOMAIN records', i < j,
                      records'[i].stage = records'[j].stage
               PROVE  records'[i].owner_retry_index <= records'[j].owner_retry_index
    BY DEF Rising
  <2>1. i \in DOMAIN records
    BY <1>6
  <2>2. CASE j \in DOMAIN records
    BY <1>6, <2>1, <2>2 DEF BudgetInv, Rising
  <2>3. CASE j = n
    BY <1>5, <1>6, <1>9, <2>1, <2>3
  <2> QED
    BY <1>6, <2>2, <2>3
<1>12. FailuresRaise'
  <2> SUFFICES ASSUME NEW i \in DOMAIN records', i # n, Semantic(i)'
               PROVE  /\ records'[i + 1].stage = records'[i].stage
                      /\ records'[i + 1].owner_retry_index > records'[i].owner_retry_index
    BY <1>6 DEF FailuresRaise
  <2>1. i \in DOMAIN records /\ records'[i] = records[i]
    BY <1>6
  <2>2. Semantic(i)
    BY <2>1 DEF Semantic
  <2>3. CASE i = Len(records)
    <3>1. records # << >> /\ LastRecord = records[i] /\ i + 1 = n
      <4>1. records # << >>
        BY <2>1
      <4>2. i + 1 = n
        BY <1>0, <2>3
      <4> QED
        BY <2>3, <4>1, <4>2 DEF LastRecord
    <3>2. LastViolated
      BY <2>2, <3>1 DEF LastViolated, Semantic
    <3>3. LastRecord.stage = cursor
      BY <1>1, <3>2 DEF BudgetInv, FailureRepeats
    <3>4. ownerRetries[LastRecord.stage] > LastRecord.owner_retry_index
      BY <1>1, <2>2, <2>3, <3>1 DEF BudgetInv, LastCounted
    <3> QED
      BY <1>5, <1>6, <2>1, <3>1, <3>3, <3>4
  <2>4. CASE i # Len(records)
    <3>1. i + 1 \in DOMAIN records
      BY <1>6, <2>1, <2>4
    <3>2. /\ records[i + 1].stage = records[i].stage
          /\ records[i + 1].owner_retry_index > records[i].owner_retry_index
      BY <2>1, <2>2, <2>4 DEF BudgetInv, FailuresRaise
    <3> QED
      BY <1>6, <2>1, <3>1, <3>2
  <2> QED
    BY <2>3, <2>4
<1>13. /\ \A s \in Stages : ownerRetries'[s] >= ownerRetries[s] /\ ownerRetries'[s] \in Nat
       /\ \A s \in Stages : ownerRetries[s] <= MAX_OWNER_RETRIES
                              => ownerRetries'[s] <= MAX_OWNER_RETRIES
       /\ pc' \in {"advance", "terminal"}
       /\ pc' = "advance" /\ Semantic(n)' => ownerRetries'[cursor] = ownerRetries[cursor] + 1
  <2>1. CASE violations # {} /\ Route(violations)
    <3>1. /\ \A s \in Stages : ownerRetries'[s] >= ownerRetries[s] /\ ownerRetries'[s] \in Nat
          /\ \A s \in Stages : ownerRetries[s] <= MAX_OWNER_RETRIES
                                 => ownerRetries'[s] <= MAX_OWNER_RETRIES
          /\ pc' \in {"advance", "terminal"}
          /\ pc' = "advance" /\ (\A v \in violations : ~v.length) =>
               ownerRetries'[cursor'] = ownerRetries[cursor'] + 1
      BY <1>4, <2>1, RouteCounts DEF IInv
    <3>2. pc' = "advance" => cursor' = cursor
      <4>1. pc' = "advance" => \E v \in violations : v.owner = cursor'
        BY <1>4, <2>1, RouteFacts DEF IInv
      <4> QED
        BY <1>4, <4>1
    <3> QED
      BY <1>7, <3>1, <3>2
  <2>2. CASE violations = {} /\ pc' = "advance" /\ ownerRetries' = ownerRetries
    <3>1. \A s \in Stages : ownerRetries[s] \in Nat
      BY <1>1
    <3> QED
      BY <1>7, <2>2, <3>1
  <2> QED
    BY <1>2, <2>1, <2>2
<1>14. Covered'
  <2> SUFFICES ASSUME NEW i \in DOMAIN records'
               PROVE  records'[i].owner_retry_index <= ownerRetries'[records'[i].stage]
    BY DEF Covered
  <2>1. CASE i \in DOMAIN records
    <3>1. ownerRetries[records[i].stage] \in Nat
      BY <1>1, <1>8, <2>1
    <3> QED
      BY <1>6, <1>8, <1>9, <1>13, <2>1, <3>1
  <2>2. CASE i = n
    BY <1>1, <1>5, <1>6, <1>8, <1>13, <2>2
  <2> QED
    BY <1>6, <2>1, <2>2
<1>15. LastCounted'
  <2> SUFFICES ASSUME pc' = "advance", Semantic(n)'
               PROVE  ownerRetries'[cursor] > ownerRetries[cursor]
    <3>1. ASSUME Semantic(Len(records))' PROVE Semantic(n)'
      BY <1>6, <3>1 DEF Semantic
    <3>2. Working' => pc' = "advance"
      BY <1>13 DEF Working
    <3> QED
      BY <1>5, <1>7, <3>1, <3>2 DEF LastCounted
  <2> QED
    BY <1>8, <1>13
<1>16. InBudget' /\ FailureRepeats'
  BY <1>1, <1>13 DEF BudgetInv, InBudget, FailureRepeats
<1> QED
  BY <1>10, <1>11, <1>12, <1>14, <1>15, <1>16 DEF BudgetInv

\* The credits of a resume cover the records, count the failure the crash has cut
\* off, and stay within the budget unless the resume refuses to go on.
LEMMA ResumeKeepsBudget == IInv /\ BudgetInv /\ Resume => BudgetInv'
<1> SUFFICES ASSUME IInv, BudgetInv, Resume PROVE BudgetInv'
  OBVIOUS
<1>1. /\ records' = records /\ records \in Seq(Records)
      /\ ownerRetries' = [s \in Stages |-> ResumedOwnerRetries(s)]
      /\ pc = "down"
      /\ \/ pc' = "start" /\ edge.current = Pending
         \/ pc' = "terminal"
         \/ pc' = "revalidate" /\ RefusalCode = "none"
  BY DEF Resume, durable, IInv, TypeOK, Pending
<1>2. /\ LastRecord' = LastRecord /\ Semantic(Len(records))' = Semantic(Len(records))
      /\ RecordPart'
  BY <1>1, SameRetries DEF BudgetInv, RecordPart
<1>3. /\ \A i \in DOMAIN records :
           records[i].stage \in Stages /\ records[i].owner_retry_index \in Nat
      /\ records # << >> => Len(records) \in DOMAIN records
  BY <1>1, RecordNumbers
<1>4. ASSUME NEW i \in DOMAIN records
      PROVE  /\ Credit(i) \in Nat /\ Credit(i) <= ResumedOwnerRetries(records[i].stage)
             /\ ResumedOwnerRetries(records[i].stage) \in Nat
             /\ records[i].owner_retry_index <= Credit(i)
  <2>1. PICK s \in Stages : s = records[i].stage
    BY <1>3
  <2>2. i \in OfStage(s)
    BY <2>1 DEF OfStage
  <2>3. records[i].owner_retry_index <= Credit(i)
    BY <1>3 DEF Credit
  <2> QED
    BY <1>1, <2>1, <2>2, <2>3, ResumedRetries
<1>5. Covered'
  <2>1. \A i \in DOMAIN records :
          records[i].owner_retry_index <= ResumedOwnerRetries(records[i].stage)
    BY <1>3, <1>4
  <2> QED
    BY <1>1, <1>3, <2>1 DEF Covered
<1>6. LastCounted'
  <2> SUFFICES ASSUME records # << >>, Semantic(Len(records))
               PROVE  ownerRetries'[LastRecord.stage] > LastRecord.owner_retry_index
    BY <1>1, <1>2 DEF LastCounted
  <2>1. LastRecord = records[Len(records)] /\ Len(records) \in DOMAIN records /\ LastViolated
    BY <1>3 DEF LastRecord, LastViolated, Semantic
  <2>2. Credit(Len(records)) = LastRecord.owner_retry_index + 1
    BY <2>1 DEF Credit
  <2> QED
    BY <1>1, <1>3, <1>4, <2>1, <2>2
<1>7. InBudget'
  <2> SUFFICES ASSUME pc' \in {"start", "revalidate"}, NEW s \in Stages
               PROVE  ResumedOwnerRetries(s) <= MAX_OWNER_RETRIES
    BY <1>1 DEF InBudget, Working
  <2>1. \A i \in OfStage(s) : Credit(i) <= MAX_OWNER_RETRIES
    <3> TAKE i \in OfStage(s)
    <3>1. i \in DOMAIN records /\ records[i].owner_retry_index <= MAX_OWNER_RETRIES
      BY DEF OfStage, BudgetInv, Within
    <3>2. CASE i = Len(records) /\ LastViolated
      <4>1. records # << >>
        BY <3>2 DEF LastViolated
      <4>2. edge.current # Pending
        BY <4>1 DEF IInv, TraceShape
      <4>3. RefusalCode = "none"
        BY <1>1, <4>2
      <4>4. ~ (LastRecord.owner_retry_index >= MAX_OWNER_RETRIES)
        BY <3>2, <4>3 DEF RefusalCode
      <4>5. Credit(i) = records[i].owner_retry_index + 1 /\ LastRecord = records[i]
        BY <3>2 DEF Credit, LastRecord
      <4> QED
        BY <1>3, <3>1, <4>4, <4>5, BudgetsAssumption
    <3>3. CASE ~ (i = Len(records) /\ LastViolated)
      <4>1. Credit(i) = records[i].owner_retry_index
        BY <1>3, <3>1, <3>3 DEF Credit
      <4> QED
        BY <3>1, <4>1
    <3> QED
      BY <3>2, <3>3
  <2> QED
    BY <1>1, <2>1, ResumedRetries, BudgetsAssumption
<1>8. FailureRepeats'
  BY <1>1 DEF FailureRepeats
<1> QED
  BY <1>2, <1>5, <1>6, <1>7, <1>8 DEF BudgetInv, RecordPart

LEMMA StepKeepsBudget == IInv /\ CallInv /\ BudgetInv /\ [Next]_vars => BudgetInv'
<1> SUFFICES ASSUME IInv, CallInv, BudgetInv, [Next]_vars PROVE BudgetInv'
  OBVIOUS
<1>1. CASE BeginInvocation
  <2>1. CalledFor(cursor)
    BY <1>1 DEF BeginInvocation, AtBehavior, CallInv, MayCall
  <2>2. /\ UNCHANGED <<records, ownerRetries, cursor>> /\ pc # "down" /\ Working
    BY <1>1 DEF BeginInvocation, Working
  <2> QED
    BY <2>1, <2>2, QuietKeepsBudget
<1>2. CASE Start \/ Revalidate \/ EnterFinalizing \/ EnterAdmitting \/ RecordTerminal
  <2>1. /\ UNCHANGED <<records, ownerRetries>> /\ pc # "down"
        /\ pc' \notin {"calling", "recording"}
        /\ Working' => Working
    BY <1>2 DEF Start, Revalidate, EnterFinalizing, EnterAdmitting, RecordTerminal, Working,
                durable, counters
  <2> QED
    BY <2>1, QuietKeepsBudget
<1>3. CASE AppendCallRow
  <2>1. /\ UNCHANGED <<records, ownerRetries, cursor>> /\ pc = "calling" /\ Working
    BY <1>3 DEF AppendCallRow, local, counters, Working
  <2> QED
    BY <2>1, QuietKeepsBudget
<1>4. CASE Crash
  <2>1. pc' = "down" /\ records' = records
    BY <1>4 DEF Crash, durable
  <2>2. RecordPart'
    BY <2>1, SameRetries DEF BudgetInv, RecordPart
  <2> QED
    BY <2>1, <2>2
    DEF BudgetInv, RecordPart, Covered, LastCounted, InBudget, FailureRepeats, Working
<1>5. CASE UNCHANGED vars
  <2>1. UNCHANGED <<records, ownerRetries, cursor, pc>>
    BY <1>5 DEF vars, durable, local, counters
  <2>2. /\ LastRecord' = LastRecord /\ LastViolated' = LastViolated
        /\ Semantic(Len(records))' = Semantic(Len(records)) /\ RecordPart'
    BY <2>1, SameRetries DEF BudgetInv, RecordPart
  <2> QED
    BY <2>1, <2>2
    DEF BudgetInv, RecordPart, Covered, LastCounted, InBudget, FailureRepeats, Working
<1> QED
  BY <1>1, <1>2, <1>3, <1>4, <1>5, RecordKeepsBudget, ChecksKeepBudget, ResumeKeepsBudget
  DEF Next, Machine

\* The semantic owner-retry budget of a stage bounds its failures, in one process
\* and across any number of resumes.
THEOREM SemanticBudget == Spec => []SemanticBudgetKept
<1>1. IInv /\ BudgetInv => SemanticBudgetKept
  BY BudgetFollows DEF BudgetInv, IInv, TypeOK
<1> QED
  BY <1>1, InitAdmission, StepKeepsAdmission, InitCalls, StepKeepsCalls, InitBudget,
     StepKeepsBudget, AttemptInvariance, PTL DEF Spec

--------------------------------------------------------------------------------
(***************************************************************************)
(* The length budgets and the terminal failures, as long as the process    *)
(* does not die.                                                           *)
(*                                                                         *)
(* The counter of length failures then is not behind the records, and a    *)
(* failure is answered before anything else happens: by the next call of   *)
(* the same stage, with the same owner retry index when it was for length, *)
(* or by the end of the attempt when it is not retryable.  A resume keeps  *)
(* none of this, which the violation runs show.                            *)
(***************************************************************************)
\* The last record is a length failure; it has a failure that is not retryable.
LastLength == LastViolated /\ \E v \in LastRecord.violations : v.length
LastFinal == records # << >> /\ \E v \in LastRecord.violations : ~v.retryable

\* The counters of length failures are not behind the records.
LengthsCounted ==
  \A s \in Stages : /\ Cardinality(Failures(s, TRUE)) <= lengthRetries[s]
                    /\ lengthRetries[s] <= MAX_COMPLETION_LENGTH_RETRIES

\* A failure is answered by the next call of its stage.
FailureAnswered ==
  LastViolated /\ Working =>
    /\ pc \in {"advance", "calling", "recording"}
    /\ cursor = LastRecord.stage /\ cursor \notin artifacts
    /\ cursor = Behavior => snapshot

\* A length failure has not been counted as a semantic one.
Spared ==
  LastLength /\ Working => ownerRetries[LastRecord.stage] = LastRecord.owner_retry_index

\* The checks report nothing about length.
VerdictsSpareLength == \A i \in DOMAIN records : \A v \in records[i].verdict : ~v.length

FreshInv ==
  /\ VerdictsSpareLength
  /\ crashes = 0 =>
    /\ pc # "down"
    /\ LengthsCounted /\ LengthSparesOwnerBudget /\ NonRetryableIsTerminal
    /\ LastFinal => pc \in {"terminal", "done"}
    /\ FailureAnswered /\ Spared

LEMMA SameFresh ==
  ASSUME records' = records
  PROVE  /\ LastRecord' = LastRecord /\ LastViolated' = LastViolated
         /\ LastLength' = LastLength /\ LastFinal' = LastFinal
         /\ \A s \in Stages : Failures(s, TRUE)' = Failures(s, TRUE)
         /\ LengthSparesOwnerBudget' = LengthSparesOwnerBudget
         /\ NonRetryableIsTerminal' = NonRetryableIsTerminal
         /\ VerdictsSpareLength' = VerdictsSpareLength
BY DEF LastRecord, LastViolated, LastLength, LastFinal, Failures, OfStage,
       LengthSparesOwnerBudget, NonRetryableIsTerminal, VerdictsSpareLength

LEMMA InitFresh == Init => FreshInv
<1> SUFFICES ASSUME Init PROVE FreshInv
  OBVIOUS
<1>1. records = << >> /\ lengthRetries = Zero /\ pc = "start"
  BY DEF Init
<1>2. LengthsCounted
  <2> SUFFICES ASSUME NEW s \in Stages
               PROVE  /\ Cardinality(Failures(s, TRUE)) <= lengthRetries[s]
                      /\ lengthRetries[s] <= MAX_COMPLETION_LENGTH_RETRIES
    BY DEF LengthsCounted
  <2>1. Failures(s, TRUE) = {}
    BY <1>1 DEF Failures, OfStage
  <2>2. lengthRetries[s] = 0
    BY <1>1 DEF Zero
  <2>3. Cardinality(Failures(s, TRUE)) = 0
    BY <2>1, FS_EmptySet
  <2>4. 0 <= 0 /\ 0 <= MAX_COMPLETION_LENGTH_RETRIES
    BY BudgetsAssumption
  <2> QED
    BY <2>2, <2>3, <2>4
<1> QED
  BY <1>1, <1>2 DEF FreshInv, LengthSparesOwnerBudget, NonRetryableIsTerminal, LastFinal,
                    LastViolated, LastLength, FailureAnswered, Spared, VerdictsSpareLength

\* Steps that write no record and count nothing.
LEMMA QuietKeepsFresh ==
  ASSUME IInv, FreshInv, UNCHANGED <<records, ownerRetries, lengthRetries, crashes>>,
         pc # "down" => pc' # "down",
         pc \in {"terminal", "done"} => pc' \in {"terminal", "done"},
         ~LastViolated \/ ~Working'
           \/ (pc' \in {"advance", "calling", "recording"} /\ Working
                 /\ UNCHANGED <<cursor, artifacts, snapshot>>)
  PROVE  FreshInv'
<1>1. /\ LastRecord' = LastRecord /\ LastViolated' = LastViolated
      /\ LastLength' = LastLength /\ LastFinal' = LastFinal
      /\ \A s \in Stages : Failures(s, TRUE)' = Failures(s, TRUE)
      /\ LengthSparesOwnerBudget' = LengthSparesOwnerBudget
      /\ NonRetryableIsTerminal' = NonRetryableIsTerminal
      /\ VerdictsSpareLength'
  BY SameFresh DEF FreshInv
<1> SUFFICES ASSUME crashes = 0
             PROVE  /\ pc' # "down"
                    /\ LengthsCounted' /\ LengthSparesOwnerBudget' /\ NonRetryableIsTerminal'
                    /\ LastFinal' => pc' \in {"terminal", "done"}
                    /\ FailureAnswered' /\ Spared'
  BY <1>1 DEF FreshInv
<1>2. LengthsCounted'
  BY <1>1 DEF FreshInv, LengthsCounted
<1>3. FailureAnswered'
  BY <1>1 DEF FreshInv, FailureAnswered
<1>4. Spared'
  BY <1>1 DEF FreshInv, Spared, LastLength
<1> QED
  BY <1>1, <1>2, <1>3, <1>4 DEF FreshInv

\* The deterministic checks are asked only when nothing is left to answer, and
\* what they report is never about length.
LEMMA ChecksKeepFresh == IInv /\ CallInv /\ FreshInv /\ (FinalizePrebehavior \/ Admit) => FreshInv'
<1> SUFFICES ASSUME IInv, CallInv, FreshInv, FinalizePrebehavior \/ Admit PROVE FreshInv'
  OBVIOUS
<1>1. /\ records' = records /\ crashes' = crashes /\ Working /\ pc \in {"finalizing", "admitting"}
      /\ pc' \in {"advance", "terminal"}
  BY DEF FinalizePrebehavior, Admit, Route, durable, Working
<1>2. /\ LastRecord' = LastRecord /\ LastViolated' = LastViolated
      /\ LastLength' = LastLength /\ LastFinal' = LastFinal
      /\ \A s \in Stages : Failures(s, TRUE)' = Failures(s, TRUE)
      /\ LengthSparesOwnerBudget' = LengthSparesOwnerBudget
      /\ NonRetryableIsTerminal' = NonRetryableIsTerminal
      /\ VerdictsSpareLength'
  BY <1>1, SameFresh DEF FreshInv
<1> SUFFICES ASSUME crashes = 0
             PROVE  /\ pc' # "down"
                    /\ LengthsCounted' /\ LengthSparesOwnerBudget' /\ NonRetryableIsTerminal'
                    /\ LastFinal' => pc' \in {"terminal", "done"}
                    /\ FailureAnswered' /\ Spared'
  BY <1>1, <1>2 DEF FreshInv
<1>3. ~LastViolated
  BY <1>1 DEF FreshInv, FailureAnswered
<1>4. ~LastFinal /\ ~LastLength
  BY <1>1, <1>3 DEF FreshInv, LastLength
<1>5. lengthRetries' = lengthRetries
  <2>1. ASSUME NEW report, Route(report), \A v \in report : ~v.length
        PROVE  lengthRetries' = lengthRetries
    <3>1. ~IsLength(EarliestOwner(report), report)
      BY <2>1 DEF IsLength
    <3> QED
      BY <2>1, <3>1 DEF Route
  <2>2. ASSUME NEW s \in Stages, OfStage(s) # {}
        PROVE  \A v \in LastOf(s).verdict : ~v.length
    <3>1. PICK i \in DOMAIN records : LastOf(s) = records[i]
      BY <2>2, LastOfStage DEF IInv, TypeOK
    <3> QED
      BY <3>1 DEF FreshInv, VerdictsSpareLength
  <2>3. CASE FinalizePrebehavior
    <3>1. Ready /\ cursor = Behavior
      BY <2>3 DEF FinalizePrebehavior, IInv, Control
    <3>2. Tree \in Stages /\ OfStage(Tree) # {}
      BY <3>1, StageFacts DEF Ready, Below, ResumedArtifacts
    <3>3. \A v \in PrebehaviorReport : ~v.length
      BY <2>2, <3>2 DEF PrebehaviorReport
    <3> QED
      BY <2>1, <2>3, <3>3 DEF FinalizePrebehavior
  <2>4. CASE Admit
    <3>1. LastIs(Behavior)
      BY <2>4 DEF Admit, IInv, Control, TraceShape
    <3>2. Behavior \in Stages /\ OfStage(Behavior) # {}
      BY <3>1, LastRecordType, StageFacts DEF LastIs, OfStage, IInv, TypeOK
    <3>3. \A v \in AdmissionReport : ~v.length
      BY <2>2, <3>2 DEF AdmissionReport
    <3> QED
      BY <2>1, <2>4, <3>3 DEF Admit
  <2> QED
    BY <2>3, <2>4
<1>6. LengthsCounted'
  BY <1>2, <1>5 DEF FreshInv, LengthsCounted
<1> QED
  BY <1>1, <1>2, <1>3, <1>4, <1>6 DEF FreshInv, FailureAnswered, Spared

\* A failed stage call is tried again by the same stage, within the budget of its
\* kind, or is final.
LEMMA FailureRoutes ==
  ASSUME TypeOK, NEW violations \in StageOutcomes, violations # {}, Route(violations)
  PROVE  /\ (\E v \in violations : v.length) =>
              /\ pc' = "advance" /\ ownerRetries' = ownerRetries
              /\ lengthRetries[cursor] < MAX_COMPLETION_LENGTH_RETRIES
              /\ lengthRetries' = [lengthRetries EXCEPT ![cursor] = @ + 1]
         /\ (\A v \in violations : ~v.length) => lengthRetries' = lengthRetries
         /\ (\E v \in violations : ~v.retryable) => pc' = "terminal"
         /\ pc' \in {"advance", "terminal"}
         /\ pc' = "advance" =>
              /\ cursor' = cursor /\ cursor \notin artifacts'
              /\ cursor = Behavior => snapshot' = snapshot
<1>1. /\ cursor \in Stages /\ cursor \in Nat /\ cursor # NoOwner /\ snapshot \in BOOLEAN
      /\ lengthRetries[cursor] \in Nat
  BY StageFacts DEF TypeOK
<1>2. PICK retryable \in BOOLEAN, length \in BOOLEAN :
        /\ violations = StageFailure(retryable, length)
        /\ length => retryable /\ ~ (lengthRetries[cursor] >= MAX_COMPLETION_LENGTH_RETRIES)
  BY DEF StageOutcomes
<1>3. /\ \A v \in violations : v.owner = cursor /\ v.retryable = retryable /\ v.length = length
      /\ \E v \in violations : v.owner = cursor
      /\ {v.owner : v \in violations} = {cursor}
  BY <1>2 DEF StageFailure
<1>4. Min({cursor}) = cursor
  BY <1>1, MinOf
<1>5. EarliestOwner(violations) = IF retryable THEN cursor ELSE NoOwner
  BY <1>1, <1>3, <1>4 DEF EarliestOwner
<1>6. IsLength(cursor, violations) = length
  BY <1>3 DEF IsLength
<1>7. CASE ~retryable
  <2>1. ~Retries(EarliestOwner(violations), violations)
    BY <1>5, <1>7 DEF Retries
  <2>2. pc' = "terminal" /\ UNCHANGED <<ownerRetries, lengthRetries>>
    BY <2>1 DEF Route
  <2> QED
    BY <1>2, <1>3, <1>7, <2>2
<1>8. CASE retryable
  <2>1. EarliestOwner(violations) = cursor
    BY <1>5, <1>8
  <2>2. CASE pc' = "advance" /\ Retries(cursor, violations)
    <3>1. /\ IF length
             THEN /\ lengthRetries' = [lengthRetries EXCEPT ![cursor] = @ + 1]
                  /\ ownerRetries' = ownerRetries
             ELSE lengthRetries' = lengthRetries
          /\ artifacts' = Invalidated(cursor) /\ snapshot' = (snapshot /\ cursor = Behavior)
          /\ cursor' = cursor
      BY <1>6, <2>1, <2>2 DEF Route
    <3>2. cursor \notin artifacts'
      BY <1>1, <3>1 DEF Invalidated
    <3>3. length => lengthRetries[cursor] < MAX_COMPLETION_LENGTH_RETRIES
      BY <1>6, <2>2 DEF Retries
    <3> QED
      BY <1>1, <1>3, <1>8, <2>2, <3>1, <3>2, <3>3
  <2>3. CASE pc' = "terminal" /\ ~Retries(cursor, violations)
    <3>1. ~length
      <4>1. length => lengthRetries[cursor] < MAX_COMPLETION_LENGTH_RETRIES
        BY <1>1, <1>2, BudgetsAssumption
      <4> QED
        BY <1>1, <1>6, <2>3, <4>1 DEF Retries
    <3>2. lengthRetries' = lengthRetries
      BY <2>1, <2>3 DEF Route
    <3> QED
      BY <1>3, <1>8, <2>3, <3>1, <3>2
  <2>4. (pc' = "advance" /\ Retries(cursor, violations))
          \/ (pc' = "terminal" /\ ~Retries(cursor, violations))
    BY <2>1 DEF Route
  <2> QED
    BY <2>2, <2>3, <2>4
<1> QED
  BY <1>7, <1>8

LEMMA RecordKeepsFresh == IInv /\ BudgetInv /\ FreshInv /\ RecordStage => FreshInv'
<1> SUFFICES ASSUME IInv, BudgetInv, FreshInv, RecordStage PROVE FreshInv'
  OBVIOUS
<1>1. /\ pc = "recording" /\ records \in Seq(Records) /\ cursor \in Stages /\ Working
      /\ lengthRetries \in [Stages -> Nat] /\ crashes' = crashes
      /\ cursor = Behavior => snapshot
  BY DEF RecordStage, Working, IInv, TypeOK, Control
<1>2. PICK violations \in StageOutcomes : \E verdict \in Verdicts(violations) :
        /\ records' = Append(records,
             [stage |-> cursor, invocation_index |-> Attempt[2],
              owner_retry_index |-> ownerRetries[cursor],
              violations |-> violations, verdict |-> verdict])
        /\ \/ violations # {} /\ Route(violations)
           \/ /\ violations = {}
              /\ artifacts' = artifacts \cup {cursor}
              /\ cursor' = IF AtBehavior THEN cursor ELSE cursor + 1
              /\ pc' = "advance"
              /\ UNCHANGED <<ownerRetries, lengthRetries, snapshot, failure>>
  BY DEF RecordStage
<1>3. PICK verdict \in Verdicts(violations) :
        records' = Append(records,
             [stage |-> cursor, invocation_index |-> Attempt[2],
              owner_retry_index |-> ownerRetries[cursor],
              violations |-> violations, verdict |-> verdict])
  BY <1>2
<1> DEFINE r == [stage |-> cursor, invocation_index |-> Attempt[2],
                 owner_retry_index |-> ownerRetries[cursor],
                 violations |-> violations, verdict |-> verdict]
<1>4. /\ records' = Append(records, r) /\ r.stage = cursor /\ r.violations = violations
      /\ r.owner_retry_index = ownerRetries[cursor] /\ r.verdict = verdict
  BY <1>3
<1> HIDE DEF r
<1>5. PICK n \in Nat : n = Len(records) + 1
  BY <1>1
<1>6. /\ Len(records') = n /\ Len(records) \in Nat
      /\ DOMAIN records = 1 .. Len(records)
      /\ DOMAIN records' = DOMAIN records \cup {n}
      /\ \A i \in DOMAIN records : records'[i] = records[i] /\ i # n
      /\ records'[n] = r
  BY <1>1, <1>4, <1>5
<1>7. LastRecord' = r /\ records' # << >>
  <2>1. LastRecord' = records'[Len(records')]
    BY DEF LastRecord
  <2> QED
    BY <1>4, <1>6, <2>1
<1>8. VerdictsSpareLength'
  <2>1. \A v \in verdict : ~v.length
    BY ReportsAssumption DEF Verdicts
  <2> QED
    BY <1>4, <1>6, <2>1 DEF FreshInv, VerdictsSpareLength
<1> SUFFICES ASSUME crashes = 0
             PROVE  /\ pc' # "down"
                    /\ LengthsCounted' /\ LengthSparesOwnerBudget' /\ NonRetryableIsTerminal'
                    /\ LastFinal' => pc' \in {"terminal", "done"}
                    /\ FailureAnswered' /\ Spared'
  BY <1>1, <1>8 DEF FreshInv
<1>9. /\ LengthsCounted /\ LengthSparesOwnerBudget /\ NonRetryableIsTerminal
      /\ ~LastFinal /\ FailureAnswered /\ Spared
  BY <1>1 DEF FreshInv
<1> DEFINE long == \E v \in violations : v.length
<1>10. /\ pc' \in {"advance", "terminal"}
       /\ (\E v \in violations : ~v.retryable) => pc' = "terminal"
       /\ pc' = "advance" /\ violations # {} =>
            /\ cursor' = cursor /\ cursor \notin artifacts'
            /\ cursor = Behavior => snapshot' = snapshot
       /\ long => /\ ownerRetries' = ownerRetries
                  /\ lengthRetries[cursor] < MAX_COMPLETION_LENGTH_RETRIES
                  /\ lengthRetries' = [lengthRetries EXCEPT ![cursor] = @ + 1]
       /\ ~long => lengthRetries' = lengthRetries
  <2>1. CASE violations # {} /\ Route(violations)
    BY <2>1, FailureRoutes DEF IInv
  <2>2. CASE violations = {} /\ pc' = "advance" /\ UNCHANGED <<ownerRetries, lengthRetries>>
    BY <2>2
  <2> QED
    BY <1>2, <2>1, <2>2
<1>11. NonRetryableIsTerminal'
  <2> SUFFICES ASSUME NEW i \in DOMAIN records', \E v \in records'[i].violations : ~v.retryable
               PROVE  i = n
    BY <1>6 DEF NonRetryableIsTerminal
  <2>1. CASE i \in DOMAIN records
    <3>1. \E v \in records[i].violations : ~v.retryable
      BY <1>6, <2>1
    <3>2. i = Len(records) /\ records # << >>
      BY <1>9, <2>1, <3>1 DEF NonRetryableIsTerminal
    <3> QED
      BY <1>9, <3>1, <3>2 DEF LastFinal, LastRecord
  <2> QED
    BY <1>6, <2>1
<1>12. LengthSparesOwnerBudget'
  <2> SUFFICES ASSUME NEW i \in DOMAIN records', (i + 1) \in DOMAIN records',
                      records'[i].violations # {}, \E v \in records'[i].violations : v.length
               PROVE  records'[i + 1].owner_retry_index = records'[i].owner_retry_index
    BY DEF LengthSparesOwnerBudget, Failures
  <2>1. i \in DOMAIN records
    BY <1>5, <1>6
  <2>2. /\ i \in Failures(records[i].stage, TRUE) /\ records[i].violations # {}
        /\ \E v \in records[i].violations : v.length
    BY <1>6, <2>1 DEF Failures, OfStage
  <2>3. CASE (i + 1) \in DOMAIN records
    BY <1>6, <1>9, <2>1, <2>2, <2>3 DEF LengthSparesOwnerBudget
  <2>4. CASE i + 1 = n
    <3>1. i = Len(records)
      BY <1>5, <1>6, <2>1, <2>4
    <3>2. records # << >> /\ LastRecord = records[i]
      BY <2>1, <3>1 DEF LastRecord
    <3>3. LastLength /\ LastViolated
      BY <2>2, <3>2 DEF LastLength, LastViolated
    <3>4. cursor = LastRecord.stage /\ ownerRetries[cursor] = LastRecord.owner_retry_index
      BY <1>1, <1>9, <3>3 DEF FailureAnswered, Spared
    <3> QED
      BY <1>4, <1>6, <2>1, <2>4, <3>2, <3>4
  <2> QED
    BY <1>6, <2>3, <2>4
<1>13. LengthsCounted'
  <2> SUFFICES ASSUME NEW s \in Stages
               PROVE  /\ Cardinality(Failures(s, TRUE)') <= lengthRetries'[s]
                      /\ lengthRetries'[s] <= MAX_COMPLETION_LENGTH_RETRIES
    BY DEF LengthsCounted
  <2>1. /\ Cardinality(Failures(s, TRUE)) <= lengthRetries[s] /\ lengthRetries[s] \in Nat
        /\ lengthRetries[s] <= MAX_COMPLETION_LENGTH_RETRIES
    BY <1>1, <1>9 DEF LengthsCounted
  <2>2. CASE long /\ s = cursor
    <3>1. /\ IsFiniteSet(Failures(s, TRUE)) /\ Cardinality(Failures(s, TRUE)) \in Nat
          /\ n \notin Failures(s, TRUE)
      BY <1>1, <1>5, OfStageFinite, FS_Subset, FS_CardinalityType DEF Failures
    <3>2. Failures(s, TRUE)' = Failures(s, TRUE) \cup {n}
      BY <1>4, <1>6, <2>2 DEF Failures, OfStage
    <3>3. Cardinality(Failures(s, TRUE)') = Cardinality(Failures(s, TRUE)) + 1
      BY <3>1, <3>2, FS_AddElement
    <3>4. /\ lengthRetries'[s] = lengthRetries[s] + 1
          /\ lengthRetries[s] < MAX_COMPLETION_LENGTH_RETRIES
      BY <1>1, <1>10, <2>2
    <3>5. PICK k \in Nat : k = Cardinality(Failures(s, TRUE))
      BY <3>1
    <3>6. k <= lengthRetries[s]
      BY <2>1, <3>5
    <3>7. Cardinality(Failures(s, TRUE)') = k + 1
      BY <3>3, <3>5
    <3>8. /\ k + 1 <= lengthRetries[s] + 1
          /\ lengthRetries[s] + 1 <= MAX_COMPLETION_LENGTH_RETRIES
      BY <2>1, <3>4, <3>6, BudgetsAssumption
    <3> QED
      BY <3>4, <3>7, <3>8
  <2>3. CASE ~ (long /\ s = cursor)
    <3>1. Failures(s, TRUE)' = Failures(s, TRUE)
      BY <1>4, <1>6, <2>3 DEF Failures, OfStage
    <3>2. lengthRetries'[s] = lengthRetries[s]
      BY <1>1, <1>10, <2>3
    <3>3. Cardinality(Failures(s, TRUE)') = Cardinality(Failures(s, TRUE))
      BY <3>1
    <3>4. Cardinality(Failures(s, TRUE)') <= lengthRetries[s]
      BY <2>1, <3>3
    <3> QED
      BY <2>1, <3>2, <3>4
  <2> QED
    BY <2>2, <2>3
<1>14. LastFinal' => pc' = "terminal"
  BY <1>4, <1>7, <1>10 DEF LastFinal
<1>15. FailureAnswered'
  <2> SUFFICES ASSUME LastViolated', Working'
               PROVE  /\ pc' \in {"advance", "calling", "recording"}
                      /\ cursor' = LastRecord'.stage /\ cursor' \notin artifacts'
                      /\ cursor' = Behavior => snapshot'
    BY DEF FailureAnswered
  <2>1. violations # {} /\ pc' = "advance"
    BY <1>4, <1>7, <1>10 DEF LastViolated, Working
  <2> QED
    BY <1>1, <1>4, <1>7, <1>10, <2>1
<1>16. Spared'
  <2> SUFFICES ASSUME LastLength'
               PROVE  ownerRetries'[LastRecord'.stage] = LastRecord'.owner_retry_index
    BY DEF Spared
  <2>1. long
    BY <1>4, <1>7 DEF LastLength
  <2> QED
    BY <1>4, <1>7, <1>10, <2>1
<1> QED
  BY <1>10, <1>11, <1>12, <1>13, <1>14, <1>15, <1>16

LEMMA StepKeepsFresh ==
  IInv /\ AdmitInv /\ CallInv /\ BudgetInv /\ FreshInv /\ [Next]_vars => FreshInv'
<1> SUFFICES ASSUME IInv, AdmitInv, CallInv, BudgetInv, FreshInv, [Next]_vars PROVE FreshInv'
  OBVIOUS
<1>1. CASE Start \/ BeginInvocation \/ AppendCallRow \/ Revalidate
  <2>1. /\ UNCHANGED <<records, ownerRetries, lengthRetries, crashes, cursor, artifacts, snapshot>>
        /\ pc # "down" /\ pc' # "down" /\ pc \notin {"terminal", "done"} /\ Working
        /\ pc \in {"start", "revalidate"} \/ pc' \in {"advance", "calling", "recording"}
    BY <1>1 DEF Start, BeginInvocation, AppendCallRow, Revalidate, Working, durable, local,
                counters
  <2>2. CASE crashes = 0 /\ pc \in {"start", "revalidate"}
    <3>1. ~LastViolated
      BY <2>1, <2>2 DEF FreshInv, FailureAnswered
    <3> QED
      BY <2>1, <3>1, QuietKeepsFresh
  <2>3. CASE crashes # 0
    <3>1. VerdictsSpareLength'
      BY <2>1, SameFresh DEF FreshInv
    <3> QED
      BY <2>1, <2>3, <3>1 DEF FreshInv
  <2>4. CASE pc' \in {"advance", "calling", "recording"}
    BY <2>1, <2>4, QuietKeepsFresh
  <2> QED
    BY <2>1, <2>2, <2>3, <2>4
<1>2. CASE EnterFinalizing \/ EnterAdmitting
  <2>1. /\ UNCHANGED <<records, ownerRetries, lengthRetries, crashes>>
        /\ pc = "advance" /\ pc' # "down" /\ Working
        /\ cursor = Behavior /\ (~snapshot \/ Behavior \in artifacts)
    BY <1>2 DEF EnterFinalizing, EnterAdmitting, BehaviorReady, AtBehavior, Working, counters
  <2>2. CASE crashes = 0
    <3>1. ~LastViolated
      BY <2>1, <2>2 DEF FreshInv, FailureAnswered
    <3> QED
      BY <2>1, <3>1, QuietKeepsFresh
  <2>3. CASE crashes # 0
    <3>1. VerdictsSpareLength'
      BY <2>1, SameFresh DEF FreshInv
    <3> QED
      BY <2>1, <2>3, <3>1 DEF FreshInv
  <2> QED
    BY <2>2, <2>3
<1>3. CASE RecordTerminal
  <2>1. /\ UNCHANGED <<records, ownerRetries, lengthRetries, crashes>>
        /\ pc' = "done" /\ ~Working'
    BY <1>3 DEF RecordTerminal, Working, counters
  <2> QED
    BY <2>1, QuietKeepsFresh
<1>4. CASE Crash \/ Resume
  <2>1. records' = records /\ crashes' # 0
    <3>1. CASE Crash
      <4>1. crashes' = crashes + 1 /\ crashes \in Nat /\ records' = records
        BY <3>1 DEF Crash, durable, IInv, TypeOK
      <4> QED
        BY <4>1
    <3>2. CASE Resume
      <4>1. pc = "down" /\ crashes' = crashes /\ records' = records
        BY <3>2 DEF Resume, durable
      <4> QED
        BY <4>1 DEF FreshInv
    <3> QED
      BY <1>4, <3>1, <3>2
  <2>2. VerdictsSpareLength'
    BY <2>1, SameFresh DEF FreshInv
  <2> QED
    BY <2>1, <2>2 DEF FreshInv
<1>5. CASE UNCHANGED vars
  <2>1. UNCHANGED <<records, ownerRetries, lengthRetries, crashes, cursor, artifacts, snapshot, pc>>
    BY <1>5 DEF vars, durable, local, counters
  <2>2. /\ LastRecord' = LastRecord /\ LastViolated' = LastViolated
        /\ LastLength' = LastLength /\ LastFinal' = LastFinal
        /\ \A s \in Stages : Failures(s, TRUE)' = Failures(s, TRUE)
        /\ LengthSparesOwnerBudget' = LengthSparesOwnerBudget
        /\ NonRetryableIsTerminal' = NonRetryableIsTerminal
        /\ VerdictsSpareLength' = VerdictsSpareLength
    BY <2>1, SameFresh
  <2>3. LengthsCounted' = LengthsCounted
    BY <2>1, <2>2 DEF LengthsCounted
  <2> QED
    BY <2>1, <2>2, <2>3 DEF FreshInv, FailureAnswered, Spared, Working
<1> QED
  BY <1>1, <1>2, <1>3, <1>4, <1>5, RecordKeepsFresh, ChecksKeepFresh DEF Next, Machine

\* As long as the process does not die, the records show the budgets the stages
\* have: length failures within theirs, none of them charged to the semantic
\* budget, and nothing after a failure that is not retryable.
THEOREM BudgetsOfOneProcess == Spec => []CrashFreeRetryBudgets
<1>1. IInv /\ FreshInv => CrashFreeRetryBudgets
  <2> SUFFICES ASSUME IInv, FreshInv, crashes = 0
               PROVE  LengthFailureBudget /\ LengthSparesOwnerBudget /\ NonRetryableIsTerminal
    BY DEF CrashFreeRetryBudgets
  <2>1. ASSUME NEW s \in Stages
        PROVE  Cardinality(Failures(s, TRUE)) <= MAX_COMPLETION_LENGTH_RETRIES
    <3>1. /\ Cardinality(Failures(s, TRUE)) <= lengthRetries[s]
          /\ lengthRetries[s] <= MAX_COMPLETION_LENGTH_RETRIES
      BY DEF FreshInv, LengthsCounted
    <3>2. Cardinality(Failures(s, TRUE)) \in Nat /\ lengthRetries[s] \in Nat
      BY OfStageFinite, FS_Subset, FS_CardinalityType DEF Failures, IInv, TypeOK
    <3>3. PICK k \in Nat : k = Cardinality(Failures(s, TRUE))
      BY <3>2
    <3>4. k <= lengthRetries[s]
      BY <3>1, <3>3
    <3>5. k <= MAX_COMPLETION_LENGTH_RETRIES
      BY <3>1, <3>2, <3>4, BudgetsAssumption
    <3> QED
      BY <3>3, <3>5
  <2> QED
    BY <2>1 DEF FreshInv, LengthFailureBudget
<1> QED
  BY <1>1, InitAdmission, StepKeepsAdmission, InitCalls, StepKeepsCalls, InitBudget,
     StepKeepsBudget, InitFresh, StepKeepsFresh, AttemptInvariance, PTL DEF Spec
================================================================================
