-------------------------- MODULE FinalizationJournal --------------------------
(***************************************************************************)
(* How the finalization state of one run directory is written: the commit  *)
(* protocol of the persistence adapter, the bootstrap of a fresh run, the  *)
(* journal recovery a resume and a failing run perform, and the crashes,   *)
(* power losses and I/O errors that can hit any write.                     *)
(*                                                                         *)
(* The run directory holds the journal .finalization-state.json, the       *)
(* documents finalization-inventory.json and coverage-plan.json, and the   *)
(* published files (scenario YAML and feature, quarantine bundle).  Each   *)
(* document is replaced by one atomic_write_text and each published file   *)
(* appears by one exclusive link, both durable when the call returns; only *)
(* the unlink of the journal waits for a later directory fsync.            *)
(***************************************************************************)
EXTENDS FinalizationInventory

CONSTANTS
  NoDoc,        \* an absent file, or no object in memory
  MaxRecords,   \* bound: records in the inventory
  MaxCrashes,   \* bound: crashes and power losses
  MaxErrors     \* bound: I/O errors and other exceptions of a run

ASSUME NoDocAssumption == NoDoc \notin Inventories \cup Plans \cup Journals
ASSUME BoundsAssumption == {MaxRecords, MaxCrashes, MaxErrors} \subseteq Nat

VARIABLES
  journal,      \* .finalization-state.json
  inventory,    \* finalization-inventory.json
  plan,         \* coverage-plan.json
  files,        \* published files
  unsynced,     \* a journal whose unlink is not yet fsynced
  manifest,     \* status in run-manifest.yaml
  launch,       \* "fresh" for run_pipeline, "resume" for resume_pipeline
  phase,        \* where the process is, "down" when there is none
  write,        \* the publication in progress: [doc, step, why]
  adapter,      \* inventory held by the live adapter
  crashes, errors

disk == <<journal, inventory, plan, files, unsynced>>
vars == <<disk, manifest, launch, phase, write, adapter, crashes, errors>>

WriteSteps ==
  {"journal", "quarantine", "yaml", "feature", "inventory", "plan", "unlink", "fsync"}
Reasons == {"bootstrap", "commit", "recover", "evidence"}
NoWrite == [doc |-> NoDoc, step |-> "fsync", why |-> "commit"]
Writes == [doc : Journals, step : WriteSteps, why : Reasons] \cup {NoWrite}

TypeOK ==
  /\ journal \in Journals \cup {NoDoc}
  /\ inventory \in Inventories \cup {NoDoc}
  /\ plan \in Plans \cup {NoDoc}
  /\ files \subseteq Files
  /\ unsynced \in Journals \cup {NoDoc}
  /\ manifest \in {"STARTED", "FAILED"}
  /\ launch \in {"fresh", "resume"}
  /\ phase \in {"down", "opening", "idle", "publishing", "failing"}
  /\ write \in Writes
  /\ adapter \in Inventories \cup {NoDoc}
  /\ crashes \in Nat
  /\ errors \in Nat

\* write_started_manifest has made the run resumable; nothing else is there yet.
Init ==
  /\ journal = NoDoc /\ inventory = NoDoc /\ plan = NoDoc
  /\ files = {} /\ unsynced = NoDoc
  /\ manifest = "STARTED" /\ launch = "fresh" /\ phase = "opening"
  /\ write = NoWrite /\ adapter = NoDoc
  /\ crashes = 0 /\ errors = 0

(***************************************************************************)
(* Publishing a journal document, one write at a time.                     *)
(***************************************************************************)
Kinds(doc) == {f.kind : f \in doc.publication}

\* The first write after the journal itself: the files, if there are any.
FirstStep(doc) ==
  IF "quarantine" \in Kinds(doc) THEN "quarantine"
  ELSE IF "yaml" \in Kinds(doc) THEN "yaml" ELSE "inventory"

\* Faulty variant: the journal goes before the plan is written.
StepAfterSkippingPlan(doc, step) ==
  CASE step = "journal"   -> FirstStep(doc)
    [] step = "yaml"      -> "feature"
    [] step \in {"quarantine", "feature"} -> "inventory"
    [] step = "inventory" -> "unlink"
    [] OTHER              -> "fsync"

StepAfter(doc, step) ==
  CASE step = "journal"   -> FirstStep(doc)
    [] step = "yaml"      -> "feature"
    [] step \in {"quarantine", "feature"} -> "inventory"
    [] step = "inventory" -> "plan"
    [] step = "plan"      -> "unlink"
    [] OTHER              -> "fsync"

\* Faulty variant: the files are published before there is a journal.
StartWithoutJournal(doc, step, why) ==
  /\ phase' = "publishing"
  /\ write' = [doc |-> doc, why |-> why,
               step |-> IF step = "journal" THEN FirstStep(doc) ELSE step]

StartWrite(doc, step, why) ==
  /\ phase' = "publishing"
  /\ write' = [doc |-> doc, step |-> step, why |-> why]

AtStep(step) == phase = "publishing" /\ write.step = step

StepDone ==
  /\ write' = [write EXCEPT !.step = StepAfter(write.doc, write.step)]
  /\ UNCHANGED <<manifest, launch, phase, adapter, crashes, errors>>

WriteJournal ==
  /\ AtStep("journal")
  /\ journal' = write.doc
  /\ unsynced' = NoDoc
  /\ UNCHANGED <<inventory, plan, files>>
  /\ StepDone

\* _exclusive_create: the name must be free, or hold the same bytes already.
Collides(f) == \E g \in files : /\ g.kind = f.kind
                                /\ g.candidate = f.candidate
                                /\ g.content # f.content

FilesOfStep == {f \in write.doc.publication : f.kind = write.step}

WriteFile ==
  /\ phase = "publishing"
  /\ write.step \in {"quarantine", "yaml", "feature"}
  /\ \A f \in FilesOfStep : ~Collides(f)
  /\ files' = files \cup FilesOfStep
  /\ UNCHANGED <<journal, inventory, plan, unsynced>>
  /\ StepDone

WriteInventory ==
  /\ AtStep("inventory")
  /\ inventory' = write.doc.inventory
  /\ unsynced' = NoDoc
  /\ UNCHANGED <<journal, plan, files>>
  /\ StepDone

WritePlan ==
  /\ AtStep("plan")
  /\ plan' = write.doc.plan
  /\ unsynced' = NoDoc
  /\ UNCHANGED <<journal, inventory, files>>
  /\ StepDone

\* Faulty variant: a completed journal stays where it is.
KeepJournal ==
  /\ AtStep("unlink")
  /\ UNCHANGED disk
  /\ StepDone

UnlinkJournal ==
  /\ AtStep("unlink")
  /\ journal' = NoDoc
  /\ unsynced' = journal
  /\ UNCHANGED <<inventory, plan, files>>
  /\ StepDone

\* Faulty variant: the adapter is not refreshed by its own commit.
FsyncWithoutRefresh ==
  /\ AtStep("fsync")
  /\ unsynced' = NoDoc
  /\ write' = NoWrite
  /\ phase' = CASE write.why = "commit"   -> "idle"
                [] write.why = "evidence" -> "failing"
                [] OTHER                  -> "opening"
  /\ UNCHANGED <<journal, inventory, plan, files, manifest, launch, adapter, crashes, errors>>

\* The directory fsync; then the publication returns to whoever asked for it.
\* A commit refreshes the adapter; a bootstrap or a recovery goes on to open the
\* state it has completed; a failing run goes on to write its manifest.
FsyncDirectory ==
  /\ AtStep("fsync")
  /\ unsynced' = NoDoc
  /\ write' = NoWrite
  /\ phase' = CASE write.why = "commit"   -> "idle"
                [] write.why = "evidence" -> "failing"
                [] OTHER                  -> "opening"
  /\ adapter' = IF write.why = "commit" THEN write.doc.inventory ELSE adapter
  /\ UNCHANGED <<journal, inventory, plan, files, manifest, launch, crashes, errors>>

(***************************************************************************)
(* Opening the run: make_finalization_persistence_adapter.                 *)
(***************************************************************************)
Bootstrap ==
  /\ phase = "opening" /\ launch = "fresh"
  /\ journal = NoDoc /\ inventory = NoDoc /\ plan = NoDoc
  /\ StartWrite(EmptyJournal, "journal", "bootstrap")
  /\ UNCHANGED <<disk, manifest, launch, adapter, crashes, errors>>

\* Faulty variant: recovery replays the documents and forgets the files.
RecoverDocumentsOnly ==
  /\ phase = "opening" /\ journal # NoDoc
  /\ StartWrite(journal, "inventory", "recover")
  /\ UNCHANGED <<disk, manifest, launch, adapter, crashes, errors>>

Recover ==
  /\ phase = "opening" /\ journal # NoDoc
  /\ StartWrite(journal, FirstStep(journal), "recover")
  /\ UNCHANGED <<disk, manifest, launch, adapter, crashes, errors>>

Loadable ==
  /\ inventory # NoDoc /\ plan # NoDoc
  /\ inventory.digest = plan

Load ==
  /\ phase = "opening" /\ journal = NoDoc
  /\ Loadable
  /\ phase' = "idle"
  /\ adapter' = inventory
  /\ UNCHANGED <<disk, manifest, launch, write, crashes, errors>>

\* resume_pipeline raises: a document is missing or they do not belong together.
RefuseResume ==
  /\ phase = "opening" /\ launch = "resume" /\ journal = NoDoc
  /\ ~Loadable
  /\ phase' = "down"
  /\ UNCHANGED <<disk, manifest, launch, write, adapter, crashes, errors>>

(***************************************************************************)
(* The live adapter: one call of the lifecycle machine that commits.       *)
(***************************************************************************)
Commit ==
  /\ phase = "idle"
  /\ journal = NoDoc
  /\ \E doc \in CommittableJournals(adapter) :
       /\ doc.inventory.records <= MaxRecords
       /\ StartWrite(doc, "journal", "commit")
  /\ UNCHANGED <<disk, manifest, launch, adapter, crashes, errors>>

(***************************************************************************)
(* Failures.  An exception of a fresh run reaches                          *)
(* _recover_and_reraise_failed_run; resume_pipeline has no handler, and an *)
(* exception while the failed manifest is prepared is swallowed: in both   *)
(* cases the process ends and the manifest stays STARTED.                  *)
(***************************************************************************)
Raise(handled) ==
  /\ errors < MaxErrors
  /\ errors' = errors + 1
  /\ phase' = IF handled THEN "failing" ELSE "down"
  /\ write' = NoWrite
  /\ adapter' = NoDoc
  /\ UNCHANGED <<disk, manifest, launch, crashes>>

WriteRaises ==
  /\ phase = "publishing"
  /\ Raise(launch = "fresh" /\ write.why # "evidence")

RunRaises ==
  /\ phase = "idle"
  /\ Raise(launch = "fresh")

RecoverForEvidence ==
  /\ phase = "failing" /\ journal # NoDoc
  /\ StartWrite(journal, FirstStep(journal), "evidence")
  /\ UNCHANGED <<disk, manifest, launch, adapter, crashes, errors>>

\* Faulty variant: the failed manifest does not wait for the recovery.
WriteFailedManifestAtOnce ==
  /\ phase = "failing"
  /\ manifest' = "FAILED"
  /\ phase' = "down"
  /\ unsynced' = NoDoc
  /\ UNCHANGED <<journal, inventory, plan, files, launch, write, adapter, crashes, errors>>

WriteFailedManifest ==
  /\ phase = "failing" /\ journal = NoDoc
  /\ manifest' = "FAILED"
  /\ phase' = "down"
  /\ unsynced' = NoDoc
  /\ UNCHANGED <<journal, inventory, plan, files, launch, write, adapter, crashes, errors>>

\* The process dies between two writes; the directory keeps what it shows.
Crash ==
  /\ phase # "down"
  /\ crashes < MaxCrashes
  /\ crashes' = crashes + 1
  /\ phase' = "down"
  /\ write' = NoWrite
  /\ adapter' = NoDoc
  /\ UNCHANGED <<disk, manifest, launch, errors>>

\* The machine loses power: an unlink that was never fsynced may be undone.
PowerLoss ==
  /\ crashes < MaxCrashes
  /\ unsynced # NoDoc
  /\ crashes' = crashes + 1
  /\ journal' = unsynced
  /\ unsynced' = NoDoc
  /\ phase' = "down"
  /\ write' = NoWrite
  /\ adapter' = NoDoc
  /\ UNCHANGED <<inventory, plan, files, manifest, launch, errors>>

\* resume_pipeline on a run directory whose manifest is still STARTED.
Resume ==
  /\ phase = "down" /\ manifest = "STARTED"
  /\ launch' = "resume"
  /\ phase' = "opening"
  /\ UNCHANGED <<disk, manifest, write, adapter, crashes, errors>>

Publish ==
  \/ WriteJournal \/ WriteFile \/ WriteInventory \/ WritePlan
  \/ UnlinkJournal \/ FsyncDirectory

Open == Bootstrap \/ Recover \/ Load \/ RefuseResume

Fail == WriteRaises \/ RunRaises \/ RecoverForEvidence \/ WriteFailedManifest

Next == Publish \/ Open \/ Commit \/ Fail \/ Crash \/ PowerLoss \/ Resume

\* A running process takes its next write; nobody is obliged to call the
\* adapter, to resume a run, or to fail.
Fairness == WF_vars(Publish \/ Open \/ RecoverForEvidence \/ WriteFailedManifest)

Spec == Init /\ [][Next]_vars
FairSpec == Spec /\ Fairness

(***************************************************************************)
(* Properties.                                                             *)
(***************************************************************************)

\* What a restart would come back with: the journal is the commit point.
Committed == IF journal # NoDoc THEN journal.inventory ELSE inventory

\* Whenever no journal is pending, the two documents belong together and the
\* published files are exactly the ones the inventory has receipts for,
\* whatever crash or error came before: recovery leaves neither half.
QuiescentConsistent ==
  journal = NoDoc /\ inventory # NoDoc =>
    /\ plan = inventory.digest
    /\ files = ReceiptsOf(inventory)

\* At no moment does the directory hold a published file that the state a
\* restart would recover knows nothing about.
NoOrphanPublication ==
  files \subseteq IF Committed = NoDoc THEN {} ELSE ReceiptsOf(Committed)

\* An exclusive create never meets other bytes under its name, also when a
\* recovery publishes again what a crashed commit had already published.
NoImmutableCollision ==
  phase = "publishing" => \A f \in write.doc.publication : ~Collides(f)

\* A run that has a journal or an inventory is never refused when it is resumed.
ResumeNeverRefused ==
  phase = "opening" /\ Committed # NoDoc => journal # NoDoc \/ Loadable

\* The evidence inventory of a FAILED manifest is taken from a settled state:
\* no journal is pending and none can come back.
FailedManifestSettled ==
  manifest = "FAILED" => journal = NoDoc /\ unsynced = NoDoc

\* A pending journal is completed, never overwritten by another event: from
\* pending it only goes to absent, and its inventory is durable by then.
JournalCompletedFirst ==
  [][journal # NoDoc /\ journal' # journal =>
       /\ journal' = NoDoc
       /\ inventory = journal.inventory /\ plan = journal.plan
       /\ journal.publication \subseteq files]_vars

\* A process that opens the run gets to work or ends; recovery never loops.
OpeningEnds == phase = "opening" ~> phase \in {"idle", "down"}

\* The adapter implements the atomic inventory.
Atomic == INSTANCE AtomicInventory WITH committed <- Committed, acked <- adapter
ImplementsAtomicInventory == Atomic!Spec
================================================================================
