------------------------ MODULE ManifestLifecycleProofs ------------------------
(***************************************************************************)
(* The safety of the run directory's life, for any number of deaths,       *)
(* exceptions and processes.  The inductive invariant IInv says, step by   *)
(* step of a process, what it may rely on in the directory.                *)
(***************************************************************************)
EXTENDS ManifestLifecycle, TLAPS

\* Up to the manifest that binds the support files, and from there on.
BeforeStart ==
  pc \in {"sentinel", "support", "checkpoint", "started"} \/ (pc = "log" /\ mode = "fresh")
AfterStart ==
  \/ pc \in {"journal", "docs", "unlink", "generate", "load", "gaps", "clean", "eval",
             "report", "review", "rereport", "finalize"}
  \/ pc = "log" /\ mode = "resume"

Persisted == disk["journal"] # Absent \/ disk["docs"] # Absent
Bound == manifest.status = "STARTED" /\ SupportValid

\* Whatever is started or persisted stands on support files the manifest binds.
SupportBound ==
  /\ BeforeStart => mode = "fresh" /\ ~Persisted
  /\ AfterStart => Bound
  /\ manifest.status \notin Final /\ Persisted => Bound

\* Only a live process of a run that is not final works; the failure path is a
\* fresh run's, and it collects evidence when no journal and no stray is left.
ProcessIsLive ==
  /\ manifest.status \in Final => pc = "idle"
  /\ pc = "evidence" => mode = "fresh" /\ disk["journal"] = Absent
  /\ mode = "fresh" /\ pc # "idle" => disk["stray"] = Absent
  /\ after = "log" => mode = "resume"
  /\ pc \in {"journal", "docs", "unlink"} /\ after = "evidence" => mode = "fresh"

\* The steps of a process that has opened its log.
Logging ==
  \/ pc \in {"support", "checkpoint", "started", "generate", "load", "gaps", "clean",
             "eval", "report", "review", "rereport", "finalize"}
  \/ pc \in {"journal", "docs", "unlink"} /\ after \in {"generate", "load"}

OnePass ==
  /\ disk["scorecard"].made = "authoritative"
  /\ disk["report"].made = "authoritative"
  /\ disk["report"].from =
       [made |-> disk["scorecard"].made, life |-> disk["scorecard"].life]
  /\ disk["report"].life = disk["log"].life

\* The second pass: the log is this process's, the scorecard is authoritative
\* when the report is rendered, and both count only when they are of one pass.
SecondPass ==
  /\ Logging => disk["log"].life = life
  /\ pc = "rereport" => disk["scorecard"].made = "authoritative"
  /\ pc = "finalize" /\ evalOk /\ reportOk => OnePass

\* The first process remembers what its filter did.
FirstProcessNotes == life >= 1 /\ (life = 1 => noted = filterDown)

IInv ==
  /\ TypeOK
  /\ SupportBound
  /\ ProcessIsLive
  /\ SecondPass
  /\ FirstProcessNotes
  /\ FinalInventoryIsExact
  /\ ProductsAreOfOnePass
  /\ FailedManifestIsEvidence
  /\ WarningsDeclared

-----------------------------------------------------------------------------
\* The contents a step writes are contents.
LEMMA ContentTypes ==
  /\ Absent \in Contents /\ Torn \in Contents
  /\ \A m \in Makings : life \in Nat => Wrote(m) \in Contents
  /\ \A m \in Makings, c \in Contents : life \in Nat => ReportFrom(m, c) \in Contents
  /\ Outcomes \subseteq Makings
BY DEF Absent, Torn, Wrote, ReportFrom, Contents, Sources, NoSource, Makings, Outcomes

\* What a plain write can leave half written is a file of its own step.
LEMMA CutShortFiles ==
  ASSUME NEW step, NEW f \in CutShort(step)
  PROVE  /\ f \in {"log", "support", "gaps", "scorecard", "report"}
         /\ f = "support" => step = "support"
         /\ f = "log" => step = "log"
<1>1. CASE step = "log" BY <1>1 DEF CutShort
<1>2. CASE step = "support" BY <1>2 DEF CutShort
<1>3. CASE step = "gaps" BY <1>3 DEF CutShort
<1>4. CASE step \in {"eval", "review"} BY <1>4 DEF CutShort
<1>5. CASE step \in {"report", "rereport"} BY <1>5 DEF CutShort
<1>6. CASE step \notin {"log", "support", "gaps", "eval", "review", "report", "rereport"}
  BY <1>6 DEF CutShort
<1> QED
  BY <1>1, <1>2, <1>3, <1>4, <1>5, <1>6

\* The type invariant is inductive.
LEMMA TypeStep == TypeOK /\ [Next]_vars => TypeOK'
<1> SUFFICES ASSUME TypeOK, [Next]_vars PROVE TypeOK'
  OBVIOUS
<1> USE ContentTypes DEF TypeOK, Files, Steps, Goto, Write, memory, history, Final
<1>1. CASE WriteSentinel BY <1>1 DEF WriteSentinel, Hashes
<1>2. CASE OpenLog BY <1>2 DEF OpenLog, Makings
<1>3. CASE WriteSupport BY <1>3 DEF WriteSupport, Makings
<1>4. CASE WriteCheckpoint BY <1>4 DEF WriteCheckpoint, Makings
<1>5. CASE WriteStartedManifest BY <1>5 DEF WriteStartedManifest, Hashes, Support
<1>6. CASE WriteJournal BY <1>6 DEF WriteJournal, Makings
<1>7. CASE WriteDocs BY <1>7 DEF WriteDocs
<1>8. CASE UnlinkJournal BY <1>8 DEF UnlinkJournal
<1>9. CASE Generate BY <1>9 DEF Generate, Outcomes
<1>10. CASE LoadTailInputs BY <1>10 DEF LoadTailInputs
<1>11. CASE WriteCoverageReport BY <1>11 DEF WriteCoverageReport, Contents
<1>12. CASE RemoveStaleProducts BY <1>12 DEF RemoveStaleProducts
<1>13. CASE ProvisionalEval
  <2>1. evalOk' \in BOOLEAN
    BY <1>13 DEF ProvisionalEval
  <2>2. disk' \in [Files -> Contents]
    BY <1>13 DEF ProvisionalEval, Makings
  <2> QED
    BY <1>13, <2>1, <2>2 DEF ProvisionalEval
<1>14. CASE ProvisionalReport BY <1>14 DEF ProvisionalReport, Makings
<1>0. CASE DropProducts
  <2>1. disk' \in [Files -> Contents]
    BY <1>0 DEF DropProducts
  <2>2. {evalOk', reportOk'} \subseteq BOOLEAN
    BY <1>0 DEF DropProducts
  <2> QED
    BY <1>0, <2>1, <2>2 DEF DropProducts
<1>15. CASE AuthoritativeEval
  <2>1. CASE DropProducts
    BY <2>1, <1>0
  <2>2. CASE ~DropProducts
    <3>0. Wrote("authoritative") \in Contents
      BY DEF Makings
    <3>1. disk' \in [Files -> Contents]
      BY <1>15, <2>2, <3>0 DEF AuthoritativeEval
    <3>2. pc' \in Steps /\ UNCHANGED <<manifest, mode, life, pub, after>>
      BY <1>15, <2>2 DEF AuthoritativeEval
    <3>3. UNCHANGED <<evalOk, reportOk, noted, history>>
      BY <1>15, <2>2 DEF AuthoritativeEval
    <3> QED
      BY <3>1, <3>2, <3>3
  <2> QED
    BY <2>1, <2>2
<1>16. CASE AuthoritativeReport
  <2>1. CASE DropProducts
    BY <2>1, <1>0
  <2>2. CASE ~DropProducts
    <3>0. ReportFrom("authoritative", disk["scorecard"]) \in Contents
      BY DEF Makings
    <3>1. disk' \in [Files -> Contents]
      BY <1>16, <2>2, <3>0 DEF AuthoritativeReport
    <3>2. pc' \in Steps /\ UNCHANGED <<manifest, mode, life, pub, after>>
      BY <1>16, <2>2 DEF AuthoritativeReport
    <3>3. UNCHANGED <<evalOk, reportOk, noted, history>>
      BY <1>16, <2>2 DEF AuthoritativeReport
    <3> QED
      BY <3>1, <3>2, <3>3
  <2> QED
    BY <2>1, <2>2
<1>17. CASE FinalizeManifest BY <1>17 DEF FinalizeManifest, FinalStatus, Expected, Support, Hashes
<1>18. CASE WriteFailedManifest BY <1>18 DEF WriteFailedManifest, Hashes, Present
<1>19. CASE Raise BY <1>19, CutShortFiles DEF Raise, FailurePath
<1>20. CASE Crash BY <1>20, CutShortFiles DEF Crash, Makings
<1>21. CASE Resume
  <2>1. life' \in Nat
    BY <1>21 DEF Resume
  <2>3. noted' \in BOOLEAN
    BY <1>21 DEF Resume
  <2>2. pc' \in Steps /\ UNCHANGED <<disk, manifest>>
    BY <1>21 DEF Resume
  <2> QED
    BY <1>21, <2>1, <2>2, <2>3 DEF Resume
<1>22. CASE UNCHANGED vars BY <1>22 DEF vars
<1> QED
  BY <1>1, <1>2, <1>3, <1>4, <1>5, <1>6, <1>7, <1>8, <1>9, <1>10, <1>11, <1>12,
     <1>13, <1>14, <1>15, <1>16, <1>17, <1>18, <1>19, <1>20, <1>21, <1>22
  DEF Next, Proceed

\* No step touches a bound support file, and nothing is persisted before the
\* manifest binds them.
LEMMA SupportStep ==
  TypeOK /\ SupportBound /\ ProcessIsLive /\ [Next]_vars => SupportBound'
<1> SUFFICES ASSUME TypeOK, SupportBound, ProcessIsLive, [Next]_vars PROVE SupportBound'
  OBVIOUS
<1> USE DEF TypeOK, Files, Steps, Goto, Write, memory, history, Final, SupportBound,
        BeforeStart, AfterStart, Persisted, Bound, SupportValid, Matches, Support,
        ProcessIsLive
<1>1. CASE WriteSentinel BY <1>1 DEF WriteSentinel
<1>2. CASE OpenLog BY <1>2 DEF OpenLog
<1>3. CASE WriteSupport BY <1>3 DEF WriteSupport
<1>4. CASE WriteCheckpoint BY <1>4 DEF WriteCheckpoint
<1>5. CASE WriteStartedManifest BY <1>5 DEF WriteStartedManifest, Hashes
<1>6. CASE WriteJournal BY <1>6 DEF WriteJournal
<1>7. CASE WriteDocs BY <1>7 DEF WriteDocs
<1>8. CASE UnlinkJournal BY <1>8 DEF UnlinkJournal
<1>9. CASE Generate BY <1>9 DEF Generate
<1>10. CASE LoadTailInputs BY <1>10 DEF LoadTailInputs
<1>11. CASE WriteCoverageReport BY <1>11 DEF WriteCoverageReport
<1>12. CASE RemoveStaleProducts BY <1>12 DEF RemoveStaleProducts
<1>13. CASE ProvisionalEval BY <1>13 DEF ProvisionalEval
<1>14. CASE ProvisionalReport BY <1>14 DEF ProvisionalReport
<1>15. CASE AuthoritativeEval BY <1>15 DEF AuthoritativeEval, DropProducts
<1>16. CASE AuthoritativeReport BY <1>16 DEF AuthoritativeReport, DropProducts
<1>17. CASE FinalizeManifest BY <1>17 DEF FinalizeManifest, FinalStatus
<1>18. CASE WriteFailedManifest BY <1>18 DEF WriteFailedManifest
<1>19. CASE Raise
  <2>1. /\ \A f \in {"checkpoint", "journal", "docs", "stray"} : disk'[f] = disk[f]
        /\ pc # "support" => disk'["support"] = disk["support"]
        /\ UNCHANGED manifest
    BY <1>19, CutShortFiles DEF Raise
  <2>2. pc # "idle" /\ FailurePath /\ UNCHANGED mode
    BY <1>19 DEF Raise, CaughtSteps
  <2>3. CASE pc = "support"
    BY <2>1, <2>2, <2>3 DEF FailurePath
  <2>4. CASE pc # "support"
    <3>1. Bound' <=> Bound
      BY <2>1, <2>4
    <3>2. Persisted' <=> Persisted
      BY <2>1
    <3> HIDE DEF Bound, Persisted
    <3> QED
      BY <2>1, <2>2, <3>1, <3>2 DEF FailurePath, Bound, Persisted
  <2> QED
    BY <2>3, <2>4
<1>20. CASE Crash BY <1>20, CutShortFiles DEF Crash
<1>21. CASE Resume BY <1>21 DEF Resume, Resumable
<1>22. CASE UNCHANGED vars BY <1>22 DEF vars
<1> QED
  BY <1>1, <1>2, <1>3, <1>4, <1>5, <1>6, <1>7, <1>8, <1>9, <1>10, <1>11, <1>12, <1>13, <1>14,
     <1>15, <1>16, <1>17, <1>18, <1>19, <1>20, <1>21, <1>22
  DEF Next, Proceed

\* Only a live process of a run that is not final takes a step.
LEMMA LiveStep ==
  TypeOK /\ SupportBound /\ ProcessIsLive /\ [Next]_vars => ProcessIsLive'
<1> SUFFICES ASSUME TypeOK, SupportBound, ProcessIsLive, [Next]_vars PROVE ProcessIsLive'
  OBVIOUS
<1> USE DEF TypeOK, Files, Steps, Goto, Write, memory, history, Final, SupportBound,
        BeforeStart, AfterStart, Persisted, Bound, Support, ProcessIsLive
<1>1. CASE WriteSentinel BY <1>1 DEF WriteSentinel
<1>2. CASE OpenLog BY <1>2 DEF OpenLog
<1>3. CASE WriteSupport BY <1>3 DEF WriteSupport
<1>4. CASE WriteCheckpoint BY <1>4 DEF WriteCheckpoint
<1>5. CASE WriteStartedManifest BY <1>5 DEF WriteStartedManifest
<1>6. CASE WriteJournal BY <1>6 DEF WriteJournal
<1>7. CASE WriteDocs BY <1>7 DEF WriteDocs
<1>8. CASE UnlinkJournal BY <1>8 DEF UnlinkJournal
<1>9. CASE Generate BY <1>9 DEF Generate
<1>10. CASE LoadTailInputs BY <1>10 DEF LoadTailInputs
<1>11. CASE WriteCoverageReport BY <1>11 DEF WriteCoverageReport
<1>12. CASE RemoveStaleProducts BY <1>12 DEF RemoveStaleProducts
<1>13. CASE ProvisionalEval BY <1>13 DEF ProvisionalEval
<1>14. CASE ProvisionalReport BY <1>14 DEF ProvisionalReport
<1>15. CASE AuthoritativeEval BY <1>15 DEF AuthoritativeEval, DropProducts
<1>16. CASE AuthoritativeReport BY <1>16 DEF AuthoritativeReport, DropProducts
<1>17. CASE FinalizeManifest BY <1>17 DEF FinalizeManifest
<1>18. CASE WriteFailedManifest BY <1>18 DEF WriteFailedManifest
<1>19. CASE Raise
  <2>1. /\ \A f \in {"checkpoint", "journal", "docs", "stray"} : disk'[f] = disk[f]
        /\ pc # "support" => disk'["support"] = disk["support"]
        /\ UNCHANGED manifest
    BY <1>19, CutShortFiles DEF Raise
  <2>2. pc # "idle" /\ FailurePath /\ UNCHANGED mode
    BY <1>19 DEF Raise, CaughtSteps
  <2> QED
    BY <2>1, <2>2 DEF FailurePath
<1>20. CASE Crash BY <1>20, CutShortFiles DEF Crash
<1>21. CASE Resume BY <1>21 DEF Resume, Resumable
<1>22. CASE UNCHANGED vars BY <1>22 DEF vars
<1> QED
  BY <1>1, <1>2, <1>3, <1>4, <1>5, <1>6, <1>7, <1>8, <1>9, <1>10, <1>11, <1>12, <1>13, <1>14,
     <1>15, <1>16, <1>17, <1>18, <1>19, <1>20, <1>21, <1>22
  DEF Next, Proceed

\* The second pass is one process's own.
LEMMA PassStep ==
  TypeOK /\ SecondPass /\ [Next]_vars => SecondPass'
<1> SUFFICES ASSUME TypeOK, SecondPass, [Next]_vars PROVE SecondPass'
  OBVIOUS
<1> USE DEF TypeOK, Files, Steps, Goto, Write, memory, history, SecondPass, Logging,
        OnePass
<1>1. CASE WriteSentinel BY <1>1 DEF WriteSentinel
<1>2. CASE OpenLog BY <1>2 DEF OpenLog, Wrote, ReportFrom
<1>3. CASE WriteSupport BY <1>3 DEF WriteSupport, Wrote, ReportFrom
<1>4. CASE WriteCheckpoint BY <1>4 DEF WriteCheckpoint, Wrote, ReportFrom
<1>5. CASE WriteStartedManifest BY <1>5 DEF WriteStartedManifest
<1>6. CASE WriteJournal BY <1>6 DEF WriteJournal
<1>7. CASE WriteDocs BY <1>7 DEF WriteDocs
<1>8. CASE UnlinkJournal BY <1>8 DEF UnlinkJournal
<1>9. CASE Generate BY <1>9 DEF Generate
<1>10. CASE LoadTailInputs BY <1>10 DEF LoadTailInputs
<1>11. CASE WriteCoverageReport BY <1>11 DEF WriteCoverageReport, Wrote, ReportFrom
<1>12. CASE RemoveStaleProducts BY <1>12 DEF RemoveStaleProducts
<1>13. CASE ProvisionalEval BY <1>13 DEF ProvisionalEval, Wrote, ReportFrom
<1>14. CASE ProvisionalReport BY <1>14 DEF ProvisionalReport, Wrote, ReportFrom
<1>15. CASE AuthoritativeEval
  <2>1. CASE DropProducts
    BY <1>15, <2>1 DEF AuthoritativeEval, DropProducts
  <2>2. CASE ~DropProducts
    <3>1. /\ disk'["scorecard"] = Wrote("authoritative")
          /\ \A g \in Files \ {"scorecard"} : disk'[g] = disk[g]
      BY <1>15, <2>2 DEF AuthoritativeEval
    <3>2. pc = "review" /\ pc' = "rereport" /\ UNCHANGED <<life, after>>
      BY <1>15, <2>2 DEF AuthoritativeEval
    <3> QED
      BY <3>1, <3>2 DEF Wrote, ReportFrom
  <2> QED
    BY <2>1, <2>2
<1>16. CASE AuthoritativeReport
  <2>1. CASE DropProducts
    BY <1>16, <2>1 DEF AuthoritativeReport, DropProducts
  <2>2. CASE ~DropProducts
    <3>1. /\ disk'["report"] = ReportFrom("authoritative", disk["scorecard"])
          /\ \A g \in Files \ {"report"} : disk'[g] = disk[g]
      BY <1>16, <2>2 DEF AuthoritativeReport
    <3>2. pc = "rereport" /\ pc' = "finalize" /\ UNCHANGED <<life, after>>
      BY <1>16, <2>2 DEF AuthoritativeReport
    <3> QED
      BY <3>1, <3>2 DEF Wrote, ReportFrom
  <2> QED
    BY <2>1, <2>2
<1>17. CASE FinalizeManifest BY <1>17 DEF FinalizeManifest
<1>18. CASE WriteFailedManifest BY <1>18 DEF WriteFailedManifest
<1>19. CASE Raise BY <1>19, CutShortFiles DEF Raise, FailurePath
<1>20. CASE Crash BY <1>20, CutShortFiles DEF Crash
<1>21. CASE Resume BY <1>21 DEF Resume
<1>22. CASE UNCHANGED vars BY <1>22 DEF vars
<1> QED
  BY <1>1, <1>2, <1>3, <1>4, <1>5, <1>6, <1>7, <1>8, <1>9, <1>10, <1>11, <1>12, <1>13, <1>14,
     <1>15, <1>16, <1>17, <1>18, <1>19, <1>20, <1>21, <1>22
  DEF Next, Proceed

\* Only the filter of the first process makes a note, and only it keeps one.
LEMMA NotesStep ==
  TypeOK /\ FirstProcessNotes /\ [Next]_vars => FirstProcessNotes'
<1> SUFFICES ASSUME TypeOK, FirstProcessNotes, [Next]_vars PROVE FirstProcessNotes'
  OBVIOUS
<1> USE DEF TypeOK, FirstProcessNotes, Goto, memory, history
<1>1. CASE WriteSupport
  BY <1>1 DEF WriteSupport
<1>2. CASE Resume
  BY <1>2 DEF Resume
<1>3. CASE UNCHANGED <<life, noted, filterDown>>
  BY <1>3
<1> QED
  BY <1>1, <1>2, <1>3
  DEF Next, Proceed, vars,
         WriteSentinel, OpenLog, WriteCheckpoint, WriteStartedManifest, WriteJournal,
         WriteDocs, UnlinkJournal, Generate, LoadTailInputs, WriteCoverageReport,
         RemoveStaleProducts, ProvisionalEval, ProvisionalReport, AuthoritativeEval,
         AuthoritativeReport, FinalizeManifest, WriteFailedManifest, Raise, Crash,
         DropProducts

\* A run has a final manifest only after one of the two steps that publish it.
LEMMA FinalStep ==
  ASSUME TypeOK, ProcessIsLive, [Next]_vars, manifest'.status \in Final
  PROVE  \/ FinalizeManifest
         \/ WriteFailedManifest
         \/ UNCHANGED vars /\ manifest.status \in Final
<1> USE DEF TypeOK, ProcessIsLive, Final
<1>1. CASE manifest.status \in Final
  <2>1. pc = "idle"
    BY <1>1
  <2>2. CASE Crash
    BY <2>1, <2>2 DEF Crash
  <2>3. CASE Resume
    BY <1>1, <2>3 DEF Resume, Resumable
  <2>4. CASE Raise
    BY <2>1, <2>4 DEF Raise, CaughtSteps
  <2>5. CASE Proceed
    BY <2>1, <2>5
    DEF Proceed,
        WriteSentinel, OpenLog, WriteSupport, WriteCheckpoint, WriteStartedManifest,
        WriteJournal, WriteDocs, UnlinkJournal, Generate, LoadTailInputs,
        WriteCoverageReport, RemoveStaleProducts, ProvisionalEval, ProvisionalReport,
        AuthoritativeEval, AuthoritativeReport, FinalizeManifest, WriteFailedManifest
  <2>6. CASE UNCHANGED vars
    BY <1>1, <2>6 DEF vars
  <2> QED
    BY <2>2, <2>3, <2>4, <2>5, <2>6 DEF Next
<1>2. CASE manifest.status \notin Final
  <2>1. CASE WriteSentinel \/ WriteStartedManifest
    BY <2>1 DEF WriteSentinel, WriteStartedManifest
  <2>2. CASE UNCHANGED manifest
    BY <1>2, <2>2
  <2> QED
    BY <2>1, <2>2
    DEF Next, Proceed, vars, DropProducts,
        OpenLog, WriteSupport, WriteCheckpoint, WriteJournal, WriteDocs,
        UnlinkJournal, Generate, LoadTailInputs, WriteCoverageReport,
        RemoveStaleProducts, ProvisionalEval, ProvisionalReport, AuthoritativeEval,
        AuthoritativeReport, Raise, Crash, Resume
<1> QED
  BY <1>1, <1>2

\* What the final manifest says, when it is published and afterwards.
LEMMA PropertyStep ==
  ASSUME IInv, [Next]_vars
  PROVE  /\ FinalInventoryIsExact' /\ ProductsAreOfOnePass'
         /\ FailedManifestIsEvidence' /\ WarningsDeclared'
<1> USE DEF IInv
<1>1. CASE FinalizeManifest
  <2>1. /\ pc = "finalize" /\ Present = Expected(evalOk, reportOk)
        /\ UNCHANGED <<disk, life, filterDown, evalEnabled>>
        /\ manifest' = [status |-> FinalStatus, inventory |-> Hashes(Present)]
    BY <1>1 DEF FinalizeManifest, Strict, Goto, history
  <2>2. FinalStatus \in Final \ {"FAILED"}
    BY DEF FinalStatus, Final
  <2>3. Hashes(Present)' = Hashes(Present)
    BY <2>1 DEF Hashes, Present
  <2>4. FinalStatus \in Authoritative => evalOk /\ reportOk
    BY DEF FinalStatus, Authoritative
  <2>5. FinalStatus \in Authoritative => OnePass
    BY <2>1, <2>4 DEF SecondPass
  <2>6. FinalStatus = "COMPLETED" => ~noted /\ disk["docs"].made # "fallback"
    BY DEF FinalStatus
  <2>7. FinalInventoryIsExact'
    BY <2>1, <2>3 DEF FinalInventoryIsExact
  <2>8. ProductsAreOfOnePass'
    BY <2>1, <2>5 DEF ProductsAreOfOnePass, OnePass, Authoritative
  <2>9. FailedManifestIsEvidence'
    BY <2>1, <2>2 DEF FailedManifestIsEvidence
  <2>10. WarningsDeclared'
    BY <2>1, <2>6 DEF WarningsDeclared, FirstProcessNotes
  <2> QED
    BY <2>7, <2>8, <2>9, <2>10
<1>2. CASE WriteFailedManifest
  <2>1. disk["journal"] = Absent /\ disk["stray"] = Absent
    BY <1>2 DEF WriteFailedManifest, ProcessIsLive
  <2>2. Present \ {"stray", "journal"} = Present
    BY <2>1 DEF Present
  <2>3. UNCHANGED disk /\ manifest' = [status |-> "FAILED", inventory |-> Hashes(Present)]
    BY <1>2, <2>2 DEF WriteFailedManifest
  <2>4. Hashes(Present)' = Hashes(Present)
    BY <2>3 DEF Hashes, Present
  <2> QED
    BY <2>1, <2>3, <2>4
    DEF FinalInventoryIsExact, ProductsAreOfOnePass, FailedManifestIsEvidence,
        WarningsDeclared, Authoritative
<1>3. CASE UNCHANGED vars
  BY <1>3
  DEF vars, memory, FinalInventoryIsExact, ProductsAreOfOnePass,
      FailedManifestIsEvidence, WarningsDeclared, Hashes, Present
<1>4. CASE manifest'.status \notin Final
  BY <1>4
  DEF Final, FinalInventoryIsExact, ProductsAreOfOnePass, FailedManifestIsEvidence,
      WarningsDeclared, Authoritative
<1> QED
  BY <1>1, <1>2, <1>3, <1>4, FinalStep

-----------------------------------------------------------------------------
\* IInv holds initially and is preserved by every step.
LEMMA InitIInv == Init => IInv
<1> SUFFICES ASSUME Init PROVE IInv
  OBVIOUS
<1> USE DEF Init
<1>1. TypeOK
  <2>1. disk \in [Files -> Contents] /\ DOMAIN manifest.inventory = {}
    BY ContentTypes
  <2>2. evalOk \in BOOLEAN /\ reportOk \in BOOLEAN
    OBVIOUS
  <2>3. filterDown \in BOOLEAN /\ noted \in BOOLEAN
    OBVIOUS
  <2>4. manifest.status = "none" /\ life \in Nat /\ crashes \in Nat /\ failures \in Nat
    OBVIOUS
  <2>5. evalEnabled \in BOOLEAN /\ pc \in Steps
    BY DEF Steps
  <2> QED
    BY <2>1, <2>2, <2>3, <2>4, <2>5 DEF TypeOK
<1>2. SupportBound /\ ProcessIsLive /\ SecondPass /\ FirstProcessNotes
  <2>1. \A f \in Files : disk[f] = Absent
    OBVIOUS
  <2>2. noted = filterDown /\ life = 1
    OBVIOUS
  <2>3. FirstProcessNotes
    BY <2>2 DEF FirstProcessNotes
  <2>4. SupportBound
    BY <2>1 DEF SupportBound, BeforeStart, AfterStart, Persisted, Files
  <2>5. ProcessIsLive
    BY <2>1 DEF ProcessIsLive, Files, Final
  <2>6. SecondPass
    BY DEF SecondPass, Logging
  <2> QED
    BY <2>3, <2>4, <2>5, <2>6
<1>3. /\ FinalInventoryIsExact /\ ProductsAreOfOnePass
      /\ FailedManifestIsEvidence /\ WarningsDeclared
  BY DEF FinalInventoryIsExact, ProductsAreOfOnePass, FailedManifestIsEvidence,
         WarningsDeclared, Final, Authoritative
<1> QED
  BY <1>1, <1>2, <1>3 DEF IInv

\* The strengthening of the safety properties is an invariant, for every
\* number of deaths, exceptions and processes.
THEOREM LifecycleInvariance == Spec => []IInv
<1>1. IInv /\ [Next]_vars => IInv'
  <2> SUFFICES ASSUME IInv, [Next]_vars PROVE IInv'
    OBVIOUS
  <2>1. TypeOK' /\ SupportBound' /\ ProcessIsLive' /\ SecondPass' /\ FirstProcessNotes'
    BY TypeStep, SupportStep, LiveStep, PassStep, NotesStep DEF IInv
  <2> QED
    BY <2>1, PropertyStep DEF IInv
<1> QED
  BY InitIInv, <1>1, PTL DEF Spec

\* Type correctness of the run directory's life.
THEOREM LifecycleTypeCorrect == Spec => []TypeOK
<1>1. IInv => TypeOK
  BY DEF IInv
<1> QED
  BY <1>1, LifecycleInvariance, PTL

\* A completed run's inventory is exactly its directory (Strict, the orphan
\* check of the manifest resolver, refuses every other one).
THEOREM FinalInventory == Spec => []FinalInventoryIsExact
<1>1. IInv => FinalInventoryIsExact
  BY DEF IInv
<1> QED
  BY <1>1, LifecycleInvariance, PTL

\* An authoritative status stands for a scorecard and a report of one second
\* pass of the process that published it.
THEOREM OneSecondPass == Spec => []ProductsAreOfOnePass
<1>1. IInv => ProductsAreOfOnePass
  BY DEF IInv
<1> QED
  BY <1>1, LifecycleInvariance, PTL

\* The failed manifest of a fresh run describes a settled directory.
THEOREM FailedIsEvidence == Spec => []FailedManifestIsEvidence
<1>1. IInv => FailedManifestIsEvidence
  BY DEF IInv
<1> QED
  BY <1>1, LifecycleInvariance, PTL

\* A run interrupted once its plan is persisted passes every check
\* resume_pipeline makes.
THEOREM AlwaysResumable == Spec => []PlanPersistedIsResumable
<1>1. IInv => PlanPersistedIsResumable
  BY DEF IInv, SupportBound, Persisted, Bound, PlanPersistedIsResumable, Resumable, Final
<1> QED
  BY <1>1, LifecycleInvariance, PTL

\* COMPLETED hides no presentation fallback, nor, in a run one process
\* finishes, an unavailable candidate filter.
THEOREM WarningsAreDeclared == Spec => []WarningsDeclared
<1>1. IInv => WarningsDeclared
  BY DEF IInv
<1> QED
  BY <1>1, LifecycleInvariance, PTL

\* Nothing touches a run with a final manifest: no late step of its process,
\* no resume.
THEOREM FinalIsForever == Spec => FinalRunUntouched
<1>1. IInv /\ [Next]_vars
        => [manifest.status \in Final => UNCHANGED <<disk, manifest>>]_vars
  <2> SUFFICES ASSUME IInv, [Next]_vars, manifest.status \in Final
               PROVE  UNCHANGED <<disk, manifest>>
    OBVIOUS
  <2>1. pc = "idle"
    BY DEF IInv, ProcessIsLive
  <2>2. ~Proceed
    BY <2>1
    DEF Proceed, WriteSentinel, OpenLog, WriteSupport, WriteCheckpoint,
        WriteStartedManifest, WriteJournal, WriteDocs, UnlinkJournal, Generate,
        LoadTailInputs, WriteCoverageReport, RemoveStaleProducts, ProvisionalEval,
        ProvisionalReport, AuthoritativeEval, AuthoritativeReport, FinalizeManifest,
        WriteFailedManifest
  <2>3. ~Raise /\ ~Crash
    BY <2>1 DEF Raise, CaughtSteps, Crash
  <2>4. ~Resume
    BY DEF Resume, Resumable, Final
  <2>5. UNCHANGED vars
    BY <2>2, <2>3, <2>4 DEF Next
  <2> QED
    BY <2>5 DEF vars
<1> QED
  BY <1>1, LifecycleInvariance, PTL DEF Spec, FinalRunUntouched
=============================================================================
