--------------------------- MODULE ManifestLifecycle ---------------------------
(***************************************************************************)
(* The life of one run directory as its manifest tells it: run_pipeline    *)
(* creates the directory, checkpoints a resumable manifest, generates, and *)
(* runs the completion tail (coverage report, provisional and then         *)
(* authoritative evaluation and report, final manifest); an exception of a *)
(* fresh run ends in a failed manifest; a process that dies anywhere       *)
(* leaves a STARTED manifest that resume_pipeline picks up in place.       *)
(*                                                                         *)
(* A content stands for the bytes of a file: what they were made from and  *)
(* by which process of the run.  "support" is use-case.txt,                *)
(* capability-profile.yaml and threat-surface.yaml; "docs" is              *)
(* coverage-plan.json with finalization-inventory.json, whose publication  *)
(* through the journal FinalizationJournal models write by write; "stray"  *)
(* is a *.tmp file of an atomic write whose process died.                  *)
(***************************************************************************)
EXTENDS Naturals

CONSTANTS
  MaxCrashes,   \* bound: processes killed or interrupted
  MaxFailures,  \* bound: exceptions raised outside the guarded products
  MaxLives      \* bound: processes that work on the run directory

ASSUME BoundsAssumption == {MaxCrashes, MaxFailures, MaxLives} \subseteq Nat

VARIABLES
  disk,        \* content of every file of the run directory
  manifest,    \* run-manifest.yaml: status and inventory (file -> content)
  pc,          \* the next step of the live process, "idle" when there is none
  mode,        \* "fresh" for run_pipeline, "resume" for resume_pipeline
  life,        \* which process of the run this is
  pub,         \* the state the process is publishing
  after,       \* the step after that publication
  evalEnabled, \* the persisted eval option
  evalOk, reportOk,  \* eval_success and report_success of the tail
  filterDown,  \* history: the candidate filter was unavailable
  noted,       \* generation_notes holds the note that says so
  crashes, failures

memory == <<pc, mode, life, pub, after, evalOk, reportOk, noted>>
vars == <<disk, manifest, memory, evalEnabled, filterDown, crashes, failures>>

Files == {"log", "support", "checkpoint", "journal", "docs", "gaps",
          "scorecard", "report", "stray"}
Outcomes == {"clean", "fallback", "flawed"}
Makings == {"absent", "torn", "written", "empty", "provisional", "authoritative"}
             \cup Outcomes
Sources == [made : Makings, life : Nat]
NoSource == [made |-> "absent", life |-> 0]
Contents == [made : Makings, life : Nat, from : Sources]

Absent == [made |-> "absent", life |-> 0, from |-> NoSource]
Torn == [made |-> "torn", life |-> 0, from |-> NoSource]
Wrote(m) == [made |-> m, life |-> life, from |-> NoSource]
\* Faulty variant: the report takes the scorecard over as it is.
ReportOf(m, c) == [made |-> m, life |-> life, from |-> c]
\* A report rendered by this process from the scorecard content c.
ReportFrom(m, c) ==
  [made |-> m, life |-> life, from |-> [made |-> c.made, life |-> c.life]]

Present == {f \in Files : disk[f] # Absent}
Hashes(fs) == [f \in fs |-> disk[f]]
Support == {"support", "checkpoint"}
Final == {"COMPLETED", "COMPLETED_WITH_WARNINGS", "COMPLETED_WITH_ERRORS", "FAILED"}
Authoritative == {"COMPLETED", "COMPLETED_WITH_WARNINGS"}
NoManifest == [status |-> "none", inventory |-> Hashes({})]

Steps == {"idle", "sentinel", "log", "support", "checkpoint", "started", "journal",
          "docs", "unlink", "generate", "load", "gaps", "clean", "eval", "report",
          "review", "rereport", "finalize", "evidence"}

TypeOK ==
  /\ disk \in [Files -> Contents]
  /\ manifest.status \in Final \cup {"none", "STARTED"}
  /\ DOMAIN manifest.inventory \subseteq Files
  /\ \A f \in DOMAIN manifest.inventory : manifest.inventory[f] \in Contents
  /\ pc \in Steps /\ mode \in {"fresh", "resume"} /\ life \in Nat
  /\ pub \in Outcomes \cup {"empty"} /\ after \in {"generate", "load", "log", "evidence"}
  /\ {evalEnabled, evalOk, reportOk, filterDown, noted} \subseteq BOOLEAN
  /\ {crashes, failures} \subseteq Nat

Init ==
  /\ disk = [f \in Files |-> Absent]
  /\ manifest = [status |-> "none", inventory |-> [f \in {} |-> Absent]]
  /\ pc = "sentinel" /\ mode = "fresh" /\ life = 1
  /\ pub = "empty" /\ after = "generate"
  /\ evalEnabled \in BOOLEAN
  /\ evalOk = FALSE /\ reportOk = FALSE
  /\ filterDown = FALSE /\ noted = FALSE
  /\ crashes = 0 /\ failures = 0

history == <<evalEnabled, filterDown, crashes, failures>>
Goto(step) == pc' = step /\ UNCHANGED <<mode, life, pub, after, evalOk, reportOk, noted>>
Write(f, c) == disk' = [disk EXCEPT ![f] = c]

-----------------------------------------------------------------------------
(* A fresh run up to its resumable checkpoint.                               *)

\* The directory exists; its first manifest names the run and nothing else.
WriteSentinel ==
  /\ pc = "sentinel"
  /\ manifest' = [status |-> "STARTED", inventory |-> Hashes({})]
  /\ Goto("log")
  /\ UNCHANGED <<disk, history>>

\* pipeline.log is opened for writing, by a resume as by a fresh run.
OpenLog ==
  /\ pc = "log"
  /\ Write("log", Wrote("written"))
  /\ Goto(IF mode = "fresh" THEN "support"
          ELSE IF disk["docs"].made = "empty" THEN "generate" ELSE "load")
  /\ UNCHANGED <<manifest, history>>

\* Profile, threat surface and candidates; a filter that stays unavailable
\* keeps every candidate and leaves a warning in generation_notes.
WriteSupport ==
  /\ pc = "support"
  /\ Write("support", Wrote("written"))
  /\ filterDown' \in BOOLEAN
  /\ noted' = filterDown'
  /\ pc' = "checkpoint"
  /\ UNCHANGED <<manifest, mode, life, pub, after, evalOk, reportOk,
                 evalEnabled, crashes, failures>>

WriteCheckpoint ==
  /\ pc = "checkpoint"
  /\ Write("checkpoint", Wrote("written"))
  /\ Goto("started")
  /\ UNCHANGED <<manifest, history>>

\* Faulty variant: the checkpointed manifest binds only the checkpoint.
WriteStartedManifestUnbound ==
  /\ pc = "started"
  /\ manifest' = [status |-> "STARTED", inventory |-> Hashes({"checkpoint"})]
  /\ Goto("journal")
  /\ UNCHANGED <<disk, history>>

\* The STARTED manifest is replaced by one that binds the support files.
WriteStartedManifest ==
  /\ pc = "started"
  /\ manifest' = [status |-> "STARTED", inventory |-> Hashes(Support)]
  /\ Goto("journal")
  /\ UNCHANGED <<disk, history>>

-----------------------------------------------------------------------------
(* Publishing the finalization state: journal, documents, unlink.            *)

WriteJournal ==
  /\ pc = "journal"
  /\ Write("journal", Wrote(pub))
  /\ Goto("docs")
  /\ UNCHANGED <<manifest, history>>

WriteDocs ==
  /\ pc = "docs"
  /\ Write("docs", disk["journal"])
  /\ Goto("unlink")
  /\ UNCHANGED <<manifest, history>>

UnlinkJournal ==
  /\ pc = "unlink"
  /\ Write("journal", Absent)
  /\ Goto(after)
  /\ UNCHANGED <<manifest, history>>

\* run_target_finalization settles every target; its outcome is published.
Generate ==
  /\ pc = "generate"
  /\ pub' \in Outcomes
  /\ pc' = "journal" /\ after' = "load"
  /\ UNCHANGED <<disk, manifest, mode, life, evalOk, reportOk, noted, history>>

-----------------------------------------------------------------------------
(* The completion tail.                                                      *)

\* The files an inventory names match their recorded hashes.
Matches(inventory) ==
  \A f \in DOMAIN inventory : disk[f] = inventory[f]

Expected(withEval, withReport) ==
  Support \cup {"log", "docs", "gaps"}
    \cup (IF withEval THEN {"scorecard"} ELSE {})
    \cup (IF withReport THEN {"report"} ELSE {})

\* The strict resolver: every file is inventoried and every entry is a file.
Strict(withEval, withReport) == Present = Expected(withEval, withReport)

LoadTailInputs ==
  /\ pc = "load"
  /\ manifest.status = "STARTED"
  /\ Matches(manifest.inventory)
  /\ Goto("gaps")
  /\ UNCHANGED <<disk, manifest, history>>

WriteCoverageReport ==
  /\ pc = "gaps"
  /\ Write("gaps", Wrote(disk["docs"].made))
  /\ Goto("clean")
  /\ UNCHANGED <<manifest, history>>

RemoveStaleProducts ==
  /\ pc = "clean"
  /\ disk' = [disk EXCEPT !["scorecard"] = Absent, !["report"] = Absent]
  /\ Goto("eval")
  /\ UNCHANGED <<manifest, history>>

\* An evaluation that raises is caught and its scorecard removed.
ProvisionalEval ==
  /\ pc = "eval"
  /\ evalOk' \in {FALSE, evalEnabled}
  /\ IF evalOk' THEN Write("scorecard", Wrote("provisional"))
     ELSE IF evalEnabled THEN Write("scorecard", Absent) ELSE UNCHANGED disk
  /\ pc' = "report"
  /\ UNCHANGED <<manifest, mode, life, pub, after, reportOk, noted, history>>

ProvisionalReport ==
  /\ pc = "report"
  /\ reportOk' \in BOOLEAN
  /\ Write("report", IF reportOk' THEN ReportFrom("provisional", disk["scorecard"])
                     ELSE Absent)
  /\ pc' = IF evalOk /\ reportOk' THEN "review" ELSE "finalize"
  /\ UNCHANGED <<manifest, mode, life, pub, after, evalOk, noted, history>>

\* Any exception of the second pass removes both products.
DropProducts ==
  /\ disk' = [disk EXCEPT !["scorecard"] = Absent, !["report"] = Absent]
  /\ evalOk' = FALSE /\ reportOk' = FALSE
  /\ pc' = "finalize"
  /\ UNCHANGED <<manifest, mode, life, pub, after, noted, history>>

\* Faulty variant: the report of the first pass is taken over.
AuthoritativeEvalKeepingReport ==
  /\ pc = "review"
  /\ \/ DropProducts
     \/ /\ Strict(TRUE, TRUE)
        /\ Write("scorecard", Wrote("authoritative"))
        /\ Goto("finalize")
        /\ UNCHANGED <<manifest, history>>

AuthoritativeEval ==
  /\ pc = "review"
  /\ \/ DropProducts
     \/ /\ Strict(TRUE, TRUE)
        /\ Write("scorecard", Wrote("authoritative"))
        /\ Goto("rereport")
        /\ UNCHANGED <<manifest, history>>

AuthoritativeReport ==
  /\ pc = "rereport"
  /\ \/ DropProducts
     \/ /\ Strict(TRUE, TRUE)
        /\ Write("report", ReportFrom("authoritative", disk["scorecard"]))
        /\ Goto("finalize")
        /\ UNCHANGED <<manifest, history>>

\* Faulty variant: only presentation fallbacks count as warnings.
FinalStatusWithoutNotes ==
  IF ~(evalEnabled /\ evalOk /\ reportOk /\ disk["docs"].made # "flawed")
    THEN "COMPLETED_WITH_ERRORS"
  ELSE IF disk["docs"].made = "fallback" THEN "COMPLETED_WITH_WARNINGS"
  ELSE "COMPLETED"

\* presentation_fallback notes are collected again from the admitted
\* scenarios, the filter's note only lives in the process that made it.
FinalStatus ==
  IF ~(evalEnabled /\ evalOk /\ reportOk /\ disk["docs"].made # "flawed")
    THEN "COMPLETED_WITH_ERRORS"
  ELSE IF noted \/ disk["docs"].made = "fallback" THEN "COMPLETED_WITH_WARNINGS"
  ELSE "COMPLETED"

\* Faulty variant: the final inventory is published without the orphan check.
FinalizeUnchecked ==
  /\ pc = "finalize"
  /\ Expected(evalOk, reportOk) \subseteq Present
  /\ manifest' = [status |-> FinalStatus, inventory |-> Hashes(Expected(evalOk, reportOk))]
  /\ Goto("idle")
  /\ UNCHANGED <<disk, history>>

FinalizeManifest ==
  /\ pc = "finalize"
  /\ Strict(evalOk, reportOk)
  /\ manifest' = [status |-> FinalStatus, inventory |-> Hashes(Expected(evalOk, reportOk))]
  /\ Goto("idle")
  /\ UNCHANGED <<disk, history>>

-----------------------------------------------------------------------------
(* Exceptions, deaths and resumes.                                           *)

\* What a plain write leaves half written when it is cut short.
CutShort(step) ==
  CASE step = "log" -> {"log"}
    [] step = "support" -> {"support"}
    [] step = "gaps" -> {"gaps"}
    [] step \in {"eval", "review"} -> {"scorecard"}
    [] step \in {"report", "rereport"} -> {"report"}
    [] OTHER -> {}

\* atomic_write_text and _exclusive_create go through a temporary file, which
\* an exception removes and the death of the process does not.
AtomicSteps == {"sentinel", "checkpoint", "started", "journal", "docs",
                "finalize", "evidence"}

SupportValid == DOMAIN manifest.inventory = Support /\ Matches(manifest.inventory)

\* Faulty variant: the evidence is collected without recovering the journal.
FailurePathWithoutRecovery ==
  /\ after' = "evidence"
  /\ pc' = IF mode = "resume" \/ pc = "sentinel" \/ after = "evidence" THEN "idle"
           ELSE "evidence"

\* The failure path of a fresh run settles the journal before it inventories
\* what there is; when it fails itself the manifest stays as it was.
FailurePath ==
  /\ after' = "evidence"
  /\ pc' = IF mode = "resume" \/ pc = "sentinel" \/ after = "evidence" THEN "idle"
           ELSE IF SupportValid /\ disk["journal"] # Absent THEN "docs"
           ELSE "evidence"

CaughtSteps == {"idle", "clean", "eval", "report", "review", "rereport"}
Refused == pc = "finalize" /\ ~Strict(evalOk, reportOk)

Raise ==
  /\ pc \notin CaughtSteps
  /\ IF Refused THEN UNCHANGED failures
     ELSE failures < MaxFailures /\ failures' = failures + 1
  /\ FailurePath
  /\ \/ UNCHANGED disk
     \/ \E f \in CutShort(pc) : Write(f, Torn)
  /\ UNCHANGED <<manifest, mode, life, pub, evalOk, reportOk, noted,
                 evalEnabled, filterDown, crashes>>

\* write_failed_manifest: every recognised file that exists is evidence.
WriteFailedManifest ==
  /\ pc = "evidence"
  /\ manifest' = [status |-> "FAILED", inventory |-> Hashes(Present \ {"stray", "journal"})]
  /\ Goto("idle")
  /\ UNCHANGED <<disk, history>>

Crash ==
  /\ pc # "idle"
  /\ crashes < MaxCrashes
  /\ crashes' = crashes + 1
  /\ \/ UNCHANGED disk
     \/ \E f \in CutShort(pc) : Write(f, Torn)
     \/ pc \in AtomicSteps /\ Write("stray", Wrote("written"))
  /\ Goto("idle")
  /\ UNCHANGED <<manifest, evalEnabled, filterDown, failures>>

\* Faulty variant: the status of the manifest is not looked at.
ResumableAnyStatus ==
  /\ Support \subseteq DOMAIN manifest.inventory
  /\ \A f \in Support : disk[f] = manifest.inventory[f]
  /\ disk["journal"] # Absent \/ disk["docs"] # Absent

\* What resume_pipeline requires of the directory before it changes anything,
\* and of the finalization state once the journal is recovered.
Resumable ==
  /\ manifest.status = "STARTED"
  /\ SupportValid
  /\ disk["journal"] # Absent \/ disk["docs"] # Absent

\* Faulty variant: a resume leaves the journal for the adapter to find.
ResumeWithoutRecovery ==
  /\ pc = "idle"
  /\ life < MaxLives
  /\ Resumable /\ disk["docs"] # Absent
  /\ mode' = "resume" /\ life' = life + 1 /\ noted' = FALSE
  /\ after' = "log" /\ pc' = "log"
  /\ UNCHANGED <<disk, manifest, pub, evalOk, reportOk, history>>

Resume ==
  /\ pc = "idle"
  /\ life < MaxLives
  /\ Resumable
  /\ mode' = "resume" /\ life' = life + 1 /\ noted' = FALSE
  /\ after' = "log"
  /\ pc' = IF disk["journal"] # Absent THEN "docs" ELSE "log"
  /\ UNCHANGED <<disk, manifest, pub, evalOk, reportOk, history>>

Proceed ==
  \/ WriteSentinel \/ OpenLog \/ WriteSupport \/ WriteCheckpoint
  \/ WriteStartedManifest \/ WriteJournal \/ WriteDocs \/ UnlinkJournal
  \/ Generate \/ LoadTailInputs \/ WriteCoverageReport \/ RemoveStaleProducts
  \/ ProvisionalEval \/ ProvisionalReport \/ AuthoritativeEval
  \/ AuthoritativeReport \/ FinalizeManifest \/ WriteFailedManifest

Next == Proceed \/ Raise \/ Crash \/ Resume

Spec == Init /\ [][Next]_vars

\* A live process goes on (a refused finalization by its exception), and an
\* interrupted run that can be resumed is resumed.
FairSpec ==
  Spec /\ WF_vars(Proceed) /\ WF_vars(Refused /\ Raise) /\ WF_vars(Resume)

-----------------------------------------------------------------------------
(* Properties.                                                               *)

\* A run that ends completed, with or without errors, has an inventory that
\* is exactly its directory: no temporary file of a process that died, no
\* journal, no stale product, and every recorded hash is that of the file.
FinalInventoryIsExact ==
  manifest.status \in Final \ {"FAILED"} =>
    manifest.inventory = Hashes(Present)

\* An authoritative status stands for products of one second pass: the
\* report was rendered from the very scorecard in the directory, and both
\* were made by the process that published the manifest.
ProductsAreOfOnePass ==
  manifest.status \in Authoritative =>
    /\ disk["scorecard"].made = "authoritative"
    /\ disk["report"].made = "authoritative"
    /\ disk["report"].from =
         [made |-> disk["scorecard"].made, life |-> disk["scorecard"].life]
    /\ disk["report"].life = disk["log"].life

\* A failed manifest is settled evidence: the journal has been recovered, and
\* every other file the run left is inventoried with its present hash.
FailedManifestIsEvidence ==
  manifest.status = "FAILED" =>
    /\ disk["journal"] = Absent
    /\ manifest.inventory = Hashes(Present)

\* "This keeps a crash immediately after plan persistence resumable": once
\* any of the finalization state is on disk, a run that has no process and no
\* final manifest can be resumed.
PlanPersistedIsResumable ==
  (pc = "idle" /\ manifest.status = "STARTED"
     /\ (disk["journal"] # Absent \/ disk["docs"] # Absent)) => Resumable

\* A run completes without a warning only if nothing was synthesised in an
\* admitted scenario and, when the process that began it finishes it, its
\* candidate filter was available.
WarningsDeclared ==
  manifest.status = "COMPLETED" =>
    /\ disk["docs"].made # "fallback"
    /\ life = 1 => ~filterDown

\* The same without regard to who finishes the run: a resume completes it
\* with the evidence of the interrupted process.
FilterWarningKept == manifest.status = "COMPLETED" => ~filterDown

\* A finished run is never touched again, not by a resume either.
FinalRunUntouched ==
  [][manifest.status \in Final => UNCHANGED <<disk, manifest>>]_vars

\* A run that can be resumed gets a final manifest, unless a process died
\* inside an atomic write: the temporary file it left makes every strict
\* inventory fail.
ResumableRunSettles ==
  (pc = "idle" /\ Resumable) ~> (manifest.status \in Final \/ disk["stray"] # Absent)

=============================================================================
