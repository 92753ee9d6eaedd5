----------------------- MODULE FinalizationJournalProofs ------------------------
(***************************************************************************)
(* The commit protocol is correct for every coverage plan, every number of *)
(* contents, crashes, errors and records.                                  *)
(*                                                                         *)
(* The invariant IInv says of every moment what is on disk:                *)
(*   - a pending journal is a whole event, and the files are between those *)
(*     before and those after it (Pending);                                *)
(*   - without one, the documents and the files agree (Settled);           *)
(*   - a journal a power loss could bring back says what the inventory     *)
(*     already says (Undoable);                                            *)
(*   - a publication has written exactly what its step has behind it       *)
(*     (WriteProgress);                                                    *)
(*   - the adapter holds what was last confirmed (AdapterCurrent).         *)
(***************************************************************************)
EXTENDS FinalizationJournal, SequenceSelectionProofs

-----------------------------------------------------------------------------
\* Facts about the derived coverage plan: DerivePlan is total.  For any attempts
\* and decisions it returns one entry per target, of the entry's type, also for
\* combinations no run ever writes.

\* The admitted candidate of a target is one of its attempts, or there is none.
LEMMA AdmittedIdType ==
  ASSUME NEW queue \in Seq(Candidates), NEW decisions
  PROVE  /\ AdmittedId(queue, decisions) \in Candidates \cup {None}
         /\ AdmittedId(queue, decisions) # None =>
              \E i \in DOMAIN queue : /\ queue[i] = AdmittedId(queue, decisions)
                                      /\ IsAdmitted(decisions, queue[i])
<1> DEFINE S == AdmittedIn(queue, decisions)
<1>1. CASE S = {}
  BY <1>1 DEF AdmittedId
<1>2. CASE S # {}
  <2> DEFINE first == CHOOSE i \in S : \A j \in S : i <= j
  <2>1. S \subseteq Nat
    BY DEF AdmittedIn
  <2>2. \E i \in S : \A j \in S : i <= j
    BY <1>2, <2>1, LeastNumber
  <2>3. first \in S
    BY <2>2
  <2>4. AdmittedId(queue, decisions) = queue[first]
    BY <1>2 DEF AdmittedId
  <2>5. first \in DOMAIN queue /\ IsAdmitted(decisions, queue[first])
    BY <2>3 DEF AdmittedIn
  <2>6. queue[first] \in Candidates
    BY <2>5
  <2> QED
    BY <2>4, <2>5, <2>6
<1> QED
  BY <1>1, <1>2

\* The choices a target still has after an attempted prefix form a queue again.
LEMMA FallbackType ==
  ASSUME NEW t \in Targets, NEW queue \in Seq(Candidates), NEW decisions
  PROVE  FallbackAvailable(t, queue, decisions) \in Seq(Candidates)
<1> DEFINE choices == OrderedChoices[t]
<1>1. choices \in Seq(Candidates)
  BY ChoicesAssumption
<1>2. SubSeq(choices, Len(queue) + 1, Len(choices)) \in Seq(Candidates)
  <2>1. \A i \in (Len(queue) + 1) .. Len(choices) : choices[i] \in Candidates
    BY <1>1
  <2>2. Len(queue) + 1 \in Int /\ Len(choices) \in Int
    BY <1>1
  <2> HIDE DEF choices
  <2> QED
    BY <2>1, <2>2, SubSeqProperties
<1>3. << >> \in Seq(Candidates)
  OBVIOUS
<1> QED
  BY <1>2, <1>3 DEF FallbackAvailable

\* The type of the derived plan.
THEOREM DerivePlanType ==
  ASSUME NEW attempted \in [Targets -> Seq(Candidates)], NEW decisions
  PROVE  DerivePlan(attempted, decisions) \in
           [Targets -> [attempted : Seq(Candidates), admitted : Candidates \cup {None},
                        state : {"selected", "admitted", "exhausted"},
                        fallback : Seq(Candidates)]]
<1> SUFFICES ASSUME NEW t \in Targets
             PROVE  [attempted |-> attempted[t],
                     admitted  |-> AdmittedId(attempted[t], decisions),
                     state     |-> TargetState(t, attempted[t], decisions),
                     fallback  |-> FallbackAvailable(t, attempted[t], decisions)] \in
                    [attempted : Seq(Candidates), admitted : Candidates \cup {None},
                     state : {"selected", "admitted", "exhausted"},
                     fallback : Seq(Candidates)]
  BY DEF DerivePlan
<1>1. attempted[t] \in Seq(Candidates)
  OBVIOUS
<1>2. TargetState(t, attempted[t], decisions) \in {"selected", "admitted", "exhausted"}
  BY DEF TargetState
<1> QED
  BY <1>1, <1>2, AdmittedIdType, FallbackType

-----------------------------------------------------------------------------
\* The commit protocol.

\* A decision names at most one content, and none before it is made.
InventoryOK(inv) ==
  /\ inv \in Inventories
  /\ \A c \in Candidates :
       /\ ~Decided(inv.decisions, c) => inv.decisions[c].content = {}
       /\ \A x, y \in inv.decisions[c].content : x = y

\* A journal document is one whole event.
JournalOK(doc) ==
  /\ doc \in Journals
  /\ InventoryOK(doc.inventory)
  /\ doc.plan = doc.inventory.digest
  /\ doc.publication \subseteq ReceiptsOf(doc.inventory)
  /\ "quarantine" \in Kinds(doc) => Kinds(doc) = {"quarantine"}
  /\ "feature" \in Kinds(doc) => "yaml" \in Kinds(doc)

FilesBetween(doc) ==
  /\ files \subseteq ReceiptsOf(doc.inventory)
  /\ ReceiptsOf(doc.inventory) \subseteq files \cup doc.publication

Pending ==
  journal # NoDoc => /\ JournalOK(journal)
                     /\ FilesBetween(journal)
                     /\ unsynced = NoDoc

Settled ==
  journal = NoDoc =>
    IF inventory = NoDoc THEN plan = NoDoc /\ files = {} /\ unsynced = NoDoc
    ELSE /\ InventoryOK(inventory)
         /\ plan = inventory.digest
         /\ files = ReceiptsOf(inventory)

Undoable ==
  unsynced # NoDoc => /\ journal = NoDoc
                      /\ JournalOK(unsynced)
                      /\ inventory = unsynced.inventory

NotStarted ==
  /\ journal = NoDoc
  /\ \/ /\ write.why = "bootstrap"
        /\ write.doc = EmptyJournal
        /\ inventory = NoDoc
     \/ /\ write.why = "commit"
        /\ inventory # NoDoc /\ adapter = inventory
        /\ write.doc \in CommittableJournals(inventory)

FilesWritten ==
  CASE write.step = "quarantine" -> Kinds(write.doc) = {"quarantine"}
    [] write.step = "yaml"       -> "quarantine" \notin Kinds(write.doc)
    [] write.step = "feature"    -> \A f \in write.doc.publication :
                                      f.kind # "feature" => f \in files
    [] OTHER                     -> write.doc.publication \subseteq files

WriteProgress ==
  phase = "publishing" =>
    /\ write # NoWrite
    /\ write.why # "commit" => adapter = NoDoc
    /\ \/ /\ write.step = "journal"
          /\ NotStarted
       \/ /\ write.step \notin {"journal", "fsync"}
          /\ journal = write.doc
          /\ FilesWritten
          /\ write.step \in {"plan", "unlink"} => inventory = write.doc.inventory
          /\ write.step = "unlink" => plan = write.doc.plan
       \/ /\ write.step = "fsync"
          /\ journal = NoDoc
          /\ JournalOK(write.doc)
          /\ inventory = write.doc.inventory

AdapterCurrent ==
  /\ phase \in {"down", "opening", "failing"} => adapter = NoDoc
  /\ phase = "idle" => journal = NoDoc /\ inventory # NoDoc /\ adapter = inventory

Ended == manifest = "FAILED" => phase = "down" /\ journal = NoDoc /\ unsynced = NoDoc

IInv ==
  /\ TypeOK
  /\ Pending /\ Settled /\ Undoable
  /\ WriteProgress /\ AdapterCurrent /\ Ended

--------------------------------------------------------------------------------
(***************************************************************************)
(* Facts about the documents.                                              *)
(***************************************************************************)

\* Every journal the adapter builds from typed parts is a Journals value.
LEMMA JournalForType ==
  ASSUME NEW attempted \in [Targets -> Seq(Candidates)],
         NEW decisions \in [Candidates -> Decisions],
         NEW records \in Nat,
         NEW publication \in SUBSET Files
  PROVE  JournalFor(attempted, decisions, records, publication) \in Journals
<1>1. DerivePlan(attempted, decisions) \in Plans
  BY DerivePlanType DEF Plans
<1> QED
  BY <1>1 DEF JournalFor, Journals, Inventories

\* An undecided candidate has no published file.
LEMMA NothingPublished ==
  \A c \in Candidates, outcome \in Outcomes \cup {"undecided"} :
    PublicationOf(c, outcome, {}) = {}
BY DEF PublicationOf

\* The journal of a fresh run is a whole event that publishes nothing.
LEMMA EmptyJournalOK ==
  /\ JournalOK(EmptyJournal)
  /\ ReceiptsOf(EmptyJournal.inventory) = {}
  /\ EmptyJournal.publication = {}
<1> DEFINE attempted == [t \in Targets |-> << >>]
           decisions == [c \in Candidates |-> Undecided]
<1>1. attempted \in [Targets -> Seq(Candidates)]
  OBVIOUS
<1>2. Undecided \in Decisions
  BY DEF Undecided, Decisions
<1>3. decisions \in [Candidates -> Decisions]
  BY <1>2
<1>4. EmptyJournal \in Journals
  BY <1>1, <1>3, JournalForType DEF EmptyJournal
<1>5. /\ EmptyJournal.publication = {}
      /\ EmptyJournal.inventory.decisions = decisions
      /\ EmptyJournal.plan = EmptyJournal.inventory.digest
  BY DEF EmptyJournal, JournalFor
<1>6. ReceiptsOf(EmptyJournal.inventory) = {}
  BY <1>5, NothingPublished DEF ReceiptsOf, Undecided
<1>7. InventoryOK(EmptyJournal.inventory)
  BY <1>4, <1>5 DEF InventoryOK, Journals, Undecided, Decided
<1>8. Kinds(EmptyJournal) = {}
  BY <1>5 DEF Kinds
<1> QED
  BY <1>4, <1>5, <1>6, <1>7, <1>8 DEF JournalOK

\* Membership in the receipts, candidate by candidate.
LEMMA ReceiptsMember ==
  ASSUME NEW inv, NEW f
  PROVE  f \in ReceiptsOf(inv) <=>
           \E c \in Candidates :
             f \in PublicationOf(c, inv.decisions[c].outcome, inv.decisions[c].content)
BY DEF ReceiptsOf

\* The files of one decision are typed, belong to its candidate, and carry its
\* contents; a rejection has only a quarantine bundle, an admission both files.
LEMMA PublicationFacts ==
  ASSUME NEW c \in Candidates, NEW outcome, NEW contents \in SUBSET Contents
  PROVE  /\ PublicationOf(c, outcome, contents) \subseteq Files
         /\ \A f \in PublicationOf(c, outcome, contents) :
              /\ f.candidate = c /\ f.content \in contents
              /\ f.kind = "quarantine" <=> outcome # "admitted"
         /\ \A x \in contents : outcome = "admitted" =>
              [kind |-> "yaml", candidate |-> c, content |-> x] \in
                PublicationOf(c, outcome, contents)
BY DEF PublicationOf, Files

\* What one call commits is a whole event on top of the inventory it starts
\* from: the receipts grow by exactly the files it publishes.
LEMMA CommittableOK ==
  ASSUME NEW inv, InventoryOK(inv), NEW doc \in CommittableJournals(inv)
  PROVE  /\ JournalOK(doc)
         /\ ReceiptsOf(doc.inventory) = ReceiptsOf(inv) \cup doc.publication
<1>1. /\ inv \in Inventories
      /\ inv.attempted \in [Targets -> Seq(Candidates)]
      /\ inv.decisions \in [Candidates -> Decisions]
      /\ inv.records \in Nat
  BY DEF InventoryOK, Inventories
<1>2. CASE doc \in ProgressJournals(inv)
  <2>1. /\ doc = JournalFor(inv.attempted, inv.decisions, inv.records + 1, {})
        /\ doc.inventory.decisions = inv.decisions
        /\ doc.publication = {}
        /\ doc.plan = doc.inventory.digest
    BY <1>2 DEF ProgressJournals, JournalFor
  <2>2. doc \in Journals
    BY <1>1, <2>1, JournalForType
  <2>3. ReceiptsOf(doc.inventory) = ReceiptsOf(inv)
    BY <2>1 DEF ReceiptsOf
  <2>4. InventoryOK(doc.inventory)
    BY <2>1, <2>2 DEF InventoryOK, Journals
  <2>5. Kinds(doc) = {}
    BY <2>1 DEF Kinds
  <2> QED
    BY <2>1, <2>2, <2>3, <2>4, <2>5 DEF JournalOK
<1>3. CASE doc \in AttemptJournals(inv)
  <2>t. PICK t \in Targets : \E c \in Startable(inv, t) : doc = AttemptJournal(inv, t, c)
    BY <1>3 DEF AttemptJournals
  <2>d. PICK c \in Startable(inv, t) : doc = AttemptJournal(inv, t, c)
    BY <2>t
  <2>1. doc = JournalFor([inv.attempted EXCEPT ![t] = Append(@, c)], inv.decisions,
                         inv.records + 2, {})
    BY <2>d DEF AttemptJournal
  <2> DEFINE attempted == [inv.attempted EXCEPT ![t] = Append(@, c)]
  <2>c. c \in Candidates
    BY ChoicesAssumption DEF Startable, ChoiceIds
  <2>2. /\ doc.inventory.decisions = inv.decisions
        /\ doc.publication = {}
        /\ doc.plan = doc.inventory.digest
    BY <2>1 DEF JournalFor
  <2>3. attempted \in [Targets -> Seq(Candidates)]
    BY <1>1, <2>c
  <2>4. doc \in Journals
    <3>1. {} \in SUBSET Files /\ inv.records + 2 \in Nat
      BY <1>1
    <3>2. doc = JournalFor(attempted, inv.decisions, inv.records + 2, {})
      BY <2>1
    <3> HIDE DEF attempted
    <3> QED
      BY <1>1, <2>3, <3>1, <3>2, JournalForType
  <2>5. ReceiptsOf(doc.inventory) = ReceiptsOf(inv)
    BY <2>2 DEF ReceiptsOf
  <2>6. InventoryOK(doc.inventory)
    BY <2>2, <2>4 DEF InventoryOK, Journals
  <2>7. Kinds(doc) = {}
    BY <2>2 DEF Kinds
  <2> QED
    BY <2>2, <2>4, <2>5, <2>6, <2>7 DEF JournalOK
<1>4. CASE doc \in DecisionJournals(inv)
  <2>1. PICK d \in [c : Candidates, outcome : Outcomes, content : Contents] :
          /\ ~Decided(inv.decisions, d.c)
          /\ doc = JournalFor(inv.attempted,
               [inv.decisions EXCEPT ![d.c] = [outcome |-> d.outcome, content |-> {d.content}]],
               inv.records + 2, PublicationOf(d.c, d.outcome, {d.content}))
    BY <1>4 DEF DecisionJournals
  <2> DEFINE decision == [outcome |-> d.outcome, content |-> {d.content}]
             decisions == [inv.decisions EXCEPT ![d.c] = decision]
             publication == PublicationOf(d.c, d.outcome, {d.content})
  <2>2. /\ d.c \in Candidates /\ d.outcome \in Outcomes /\ d.content \in Contents
        /\ {d.content} \in SUBSET Contents
    OBVIOUS
  <2>3. decisions \in [Candidates -> Decisions]
    BY <1>1, <2>2 DEF Decisions
  <2>4. publication \subseteq Files
    BY <2>2, PublicationFacts
  <2>5. doc \in Journals
    <3>1. inv.records + 2 \in Nat
      BY <1>1
    <3>2. doc = JournalFor(inv.attempted, decisions, inv.records + 2, publication)
      BY <2>1
    <3> HIDE DEF decisions, publication
    <3> QED
      BY <1>1, <2>3, <2>4, <3>1, <3>2, JournalForType
  <2>6. /\ doc.inventory.decisions = decisions
        /\ doc.publication = publication
        /\ doc.plan = doc.inventory.digest
    BY <2>1 DEF JournalFor
  <2>7. /\ decisions[d.c] = decision
        /\ \A c \in Candidates \ {d.c} : decisions[c] = inv.decisions[c]
    BY <1>1, <2>2
  <2>8. inv.decisions[d.c].content = {}
    BY <2>1, <2>2 DEF InventoryOK
  <2>p. publication = PublicationOf(d.c, decisions[d.c].outcome, decisions[d.c].content)
    BY <2>7
  <2> HIDE DEF decisions
  <2>9. ReceiptsOf(doc.inventory) = ReceiptsOf(inv) \cup doc.publication
    <3>1. PublicationOf(d.c, inv.decisions[d.c].outcome, inv.decisions[d.c].content) = {}
      BY <2>8 DEF PublicationOf
    <3>2. ASSUME NEW f
          PROVE  f \in ReceiptsOf(doc.inventory) <=> f \in ReceiptsOf(inv) \cup publication
      <4>1. f \in ReceiptsOf(doc.inventory) <=>
              \/ f \in publication
              \/ \E c \in Candidates \ {d.c} :
                   f \in PublicationOf(c, inv.decisions[c].outcome, inv.decisions[c].content)
        <5>1. f \in ReceiptsOf(doc.inventory) <=>
                \E c \in Candidates :
                  f \in PublicationOf(c, decisions[c].outcome, decisions[c].content)
          BY <2>6, ReceiptsMember
        <5> HIDE DEF publication
        <5> QED
          BY <2>2, <2>7, <2>p, <5>1
      <4>2. f \in ReceiptsOf(inv) <=>
              \E c \in Candidates \ {d.c} :
                f \in PublicationOf(c, inv.decisions[c].outcome, inv.decisions[c].content)
        BY <2>2, <3>1, ReceiptsMember
      <4> QED
        BY <4>1, <4>2
    <3> QED
      BY <2>6, <3>2
  <2>10. InventoryOK(doc.inventory)
    <3>1. doc.inventory \in Inventories
      BY <2>5 DEF Journals
    <3>2. ASSUME NEW c \in Candidates
          PROVE  /\ ~Decided(decisions, c) => decisions[c].content = {}
                 /\ \A x, y \in decisions[c].content : x = y
      <4>1. CASE c = d.c
        BY <4>1, <2>2, <2>7 DEF Decided, Outcomes
      <4>2. CASE c # d.c
        BY <4>2, <2>7 DEF Decided, InventoryOK
      <4> QED
        BY <4>1, <4>2
    <3> QED
      BY <2>6, <3>1, <3>2 DEF InventoryOK
  <2>11. /\ "quarantine" \in Kinds(doc) => Kinds(doc) = {"quarantine"}
         /\ "feature" \in Kinds(doc) => "yaml" \in Kinds(doc)
    <3>1. \A f \in publication : f.kind = "quarantine" <=> d.outcome # "admitted"
      BY <2>2, PublicationFacts
    <3>2. Kinds(doc) = {f.kind : f \in publication}
      BY <2>6 DEF Kinds
    <3>3. d.outcome = "admitted" => "yaml" \in Kinds(doc)
      <4>1. d.outcome = "admitted" =>
              [kind |-> "yaml", candidate |-> d.c, content |-> d.content] \in publication
        BY <2>2, PublicationFacts
      <4> QED
        BY <3>2, <4>1
    <3> HIDE DEF publication
    <3> QED
      BY <3>1, <3>2, <3>3
  <2> QED
    BY <2>5, <2>6, <2>9, <2>10, <2>11 DEF JournalOK
<1> QED
  BY <1>2, <1>3, <1>4 DEF CommittableJournals

\* No file of a whole event meets other bytes among the files it allows.
LEMMA NoCollision ==
  ASSUME NEW doc, JournalOK(doc), files \subseteq ReceiptsOf(doc.inventory)
  PROVE  \A f \in doc.publication : ~Collides(f)
<1> SUFFICES ASSUME NEW f \in doc.publication, NEW g \in files, g.candidate = f.candidate
             PROVE  g.content = f.content
  BY DEF Collides
<1> DEFINE decisions == doc.inventory.decisions
<1>1. f \in ReceiptsOf(doc.inventory) /\ g \in ReceiptsOf(doc.inventory)
  BY DEF JournalOK
<1>2. \A c \in Candidates : decisions[c].content \in SUBSET Contents
  BY DEF JournalOK, InventoryOK, Inventories, Decisions
<1>3. ASSUME NEW h, h \in ReceiptsOf(doc.inventory)
      PROVE  h.candidate \in Candidates /\ h.content \in decisions[h.candidate].content
  <2>1. PICK c \in Candidates : h \in PublicationOf(c, decisions[c].outcome, decisions[c].content)
    BY <1>3, ReceiptsMember
  <2> QED
    BY <2>1, <1>2, PublicationFacts
<1> QED
  BY <1>1, <1>3 DEF JournalOK, InventoryOK

\* The first step of a publication skips only files the event does not have.
LEMMA FirstStepOK ==
  ASSUME NEW doc, JournalOK(doc)
  PROVE  /\ FirstStep(doc) \in {"quarantine", "yaml", "inventory"}
         /\ FirstStep(doc) = "quarantine" => Kinds(doc) = {"quarantine"}
         /\ FirstStep(doc) = "yaml" => "quarantine" \notin Kinds(doc)
         /\ FirstStep(doc) = "inventory" => doc.publication = {}
<1>1. \A f \in doc.publication : f.kind \in {"yaml", "feature", "quarantine"} /\ f.kind \in Kinds(doc)
  BY DEF JournalOK, Journals, Files, Kinds
<1> QED
  BY <1>1 DEF FirstStep, JournalOK

--------------------------------------------------------------------------------
(***************************************************************************)
(* The invariant is inductive: one lemma per action.                       *)
(***************************************************************************)

LEMMA InitEstablishes == Init => IInv
BY BoundsAssumption
   DEF Init, IInv, TypeOK, Pending, Settled, Undoable, WriteProgress, AdapterCurrent, Ended,
       Writes

\* What a publication in progress is.
LEMMA WriteType ==
  ASSUME IInv, phase = "publishing"
  PROVE  /\ write \in [doc : Journals, step : WriteSteps, why : Reasons]
         /\ write.doc # NoDoc
         /\ write.doc.inventory \in Inventories /\ write.doc.inventory # NoDoc
         /\ write.doc.plan \in Plans
BY NoDocAssumption DEF IInv, TypeOK, WriteProgress, Writes, Journals

\* The step of a publication moves on; document and reason stay.
LEMMA StepDoneType ==
  ASSUME IInv, phase = "publishing", StepDone
  PROVE  /\ write'.doc = write.doc /\ write'.why = write.why
         /\ write'.step = StepAfter(write.doc, write.step)
         /\ write' \in Writes /\ write' # NoWrite
<1>1. StepAfter(write.doc, write.step) \in WriteSteps
  BY WriteType DEF StepAfter, FirstStep, WriteSteps
<1> QED
  BY <1>1, WriteType, NoDocAssumption DEF StepDone, Writes, NoWrite

\* A document about to be published as a new event is a whole event, and the
\* files on disk are those from before it.
LEMMA NotStartedOK ==
  ASSUME IInv, phase = "publishing", NotStarted
  PROVE  JournalOK(write.doc) /\ FilesBetween(write.doc)
<1>1. CASE inventory = NoDoc
  BY <1>1, EmptyJournalOK, WriteType DEF NotStarted, IInv, Settled, FilesBetween
<1>2. CASE inventory # NoDoc
  BY <1>2, CommittableOK DEF NotStarted, IInv, Settled, FilesBetween
<1> QED
  BY <1>1, <1>2

LEMMA WriteJournalStep == IInv /\ WriteJournal => IInv'
<1> SUFFICES ASSUME IInv, WriteJournal PROVE IInv'
  OBVIOUS
<1> USE DEF WriteJournal, AtStep
<1>1. NotStarted
  BY DEF IInv, WriteProgress
<1>2. JournalOK(write.doc) /\ FilesBetween(write.doc)
  BY <1>1, NotStartedOK
<1>3. /\ journal' = write.doc /\ journal' # NoDoc /\ unsynced' = NoDoc
      /\ phase' = "publishing" /\ write'.doc = write.doc /\ write'.why = write.why
      /\ write'.step = FirstStep(write.doc)
      /\ write' \in Writes /\ write' # NoWrite
      /\ UNCHANGED <<inventory, plan, files, manifest, launch, adapter, crashes, errors>>
  BY WriteType, StepDoneType DEF StepDone, StepAfter
<1>4. TypeOK'
  BY <1>3, WriteType DEF IInv, TypeOK
<1>5. Pending'
  BY <1>2, <1>3 DEF Pending, FilesBetween, JournalOK, Kinds
<1>6. Settled' /\ Undoable'
  BY <1>3 DEF Settled, Undoable
<1>7. WriteProgress'
  <2>1. FilesWritten'
    BY <1>2, <1>3, FirstStepOK DEF FilesWritten, Kinds
  <2>2. write.why # "commit" => adapter = NoDoc
    BY DEF IInv, WriteProgress
  <2>3. FirstStep(write.doc) \in {"quarantine", "yaml", "inventory"}
    BY <1>2, FirstStepOK
  <2> QED
    BY <1>3, <2>1, <2>2, <2>3 DEF WriteProgress
<1>8. AdapterCurrent' /\ Ended'
  BY <1>3 DEF IInv, AdapterCurrent, Ended
<1> QED
  BY <1>4, <1>5, <1>6, <1>7, <1>8 DEF IInv
\* Once the journal is written, the publication works on the pending journal.
LEMMA InPublication ==
  ASSUME IInv, phase = "publishing", write.step \notin {"journal", "fsync"}
  PROVE  /\ journal = write.doc /\ journal # NoDoc /\ unsynced = NoDoc
         /\ JournalOK(journal) /\ FilesBetween(journal)
         /\ FilesWritten
         /\ write.why # "commit" => adapter = NoDoc
         /\ manifest # "FAILED"
BY WriteType DEF IInv, WriteProgress, Pending, Ended

LEMMA WriteFileStep == IInv /\ WriteFile => IInv'
<1> SUFFICES ASSUME IInv, WriteFile PROVE IInv'
  OBVIOUS
<1> DEFINE doc == write.doc
<1>1. /\ phase = "publishing" /\ write.step \in {"quarantine", "yaml", "feature"}
      /\ files' = files \cup FilesOfStep
      /\ UNCHANGED <<journal, inventory, plan, unsynced>>
      /\ StepDone
  BY DEF WriteFile
<1>2. /\ journal = doc /\ journal # NoDoc /\ unsynced = NoDoc
      /\ JournalOK(journal) /\ FilesBetween(journal)
      /\ FilesWritten
      /\ write.why # "commit" => adapter = NoDoc
      /\ manifest # "FAILED"
  BY <1>1, InPublication
<1>3. /\ write'.doc = doc /\ write'.why = write.why
      /\ write'.step = StepAfter(doc, write.step)
      /\ write' \in Writes /\ write' # NoWrite
      /\ UNCHANGED <<manifest, launch, phase, adapter, crashes, errors>>
  BY <1>1, StepDoneType DEF StepDone
<1>4. FilesOfStep \subseteq doc.publication /\ doc.publication \subseteq Files
  BY <1>2 DEF FilesOfStep, JournalOK, Journals
<1>5. TypeOK'
  BY <1>1, <1>3, <1>4 DEF IInv, TypeOK
<1>6. Pending'
  BY <1>1, <1>2, <1>4 DEF Pending, FilesBetween, JournalOK, Kinds
<1>7. Settled' /\ Undoable'
  BY <1>1, <1>2 DEF Settled, Undoable
<1>8. WriteProgress'
  <2>1. \A f \in doc.publication :
          f.kind \in {"yaml", "feature", "quarantine"} /\ f.kind \in Kinds(doc)
    BY <1>4 DEF Files, Kinds
  <2>2. FilesWritten'
    <3>1. CASE write.step = "quarantine"
      <4>1. write'.step = "inventory"
        BY <1>3, <3>1 DEF StepAfter
      <4>2. doc.publication \subseteq files'
        BY <1>1, <1>2, <2>1, <3>1 DEF FilesWritten, FilesOfStep
      <4> QED
        BY <1>3, <4>1, <4>2 DEF FilesWritten
    <3>2. CASE write.step = "yaml"
      <4>1. write'.step = "feature"
        BY <1>3, <3>2 DEF StepAfter
      <4>2. \A f \in doc.publication : f.kind # "feature" => f \in files'
        BY <1>1, <1>2, <2>1, <3>2 DEF FilesWritten, FilesOfStep
      <4> QED
        BY <1>3, <4>1, <4>2 DEF FilesWritten
    <3>3. CASE write.step = "feature"
      <4>1. write'.step = "inventory"
        BY <1>3, <3>3 DEF StepAfter
      <4>2. doc.publication \subseteq files'
        BY <1>1, <1>2, <2>1, <3>3 DEF FilesWritten, FilesOfStep
      <4> QED
        BY <1>3, <4>1, <4>2 DEF FilesWritten
    <3> QED
      BY <1>1, <3>1, <3>2, <3>3
  <2>3. write'.step \in {"feature", "inventory"}
    BY <1>1, <1>3 DEF StepAfter
  <2> QED
    BY <1>1, <1>2, <1>3, <2>2, <2>3 DEF WriteProgress
<1>9. AdapterCurrent' /\ Ended'
  BY <1>1, <1>3 DEF IInv, AdapterCurrent, Ended
<1> QED
  BY <1>5, <1>6, <1>7, <1>8, <1>9 DEF IInv

LEMMA WriteInventoryStep == IInv /\ WriteInventory => IInv'
<1> SUFFICES ASSUME IInv, WriteInventory PROVE IInv'
  OBVIOUS
<1> DEFINE doc == write.doc
<1>1. /\ phase = "publishing" /\ write.step = "inventory"
      /\ inventory' = doc.inventory /\ unsynced' = NoDoc
      /\ UNCHANGED <<journal, plan, files>>
      /\ StepDone
  BY DEF WriteInventory, AtStep
<1>2. /\ journal = doc /\ journal # NoDoc
      /\ JournalOK(journal) /\ FilesBetween(journal)
      /\ doc.publication \subseteq files
      /\ write.why # "commit" => adapter = NoDoc
      /\ manifest # "FAILED"
  BY <1>1, InPublication DEF FilesWritten
<1>3. /\ write'.doc = doc /\ write'.why = write.why /\ write'.step = "plan"
      /\ write' \in Writes /\ write' # NoWrite
      /\ UNCHANGED <<manifest, launch, phase, adapter, crashes, errors>>
  BY <1>1, StepDoneType DEF StepDone, StepAfter
<1>4. TypeOK'
  BY <1>1, <1>3, WriteType DEF IInv, TypeOK
<1>5. Pending'
  BY <1>1, <1>2 DEF Pending, FilesBetween, JournalOK, Kinds
<1>6. Settled' /\ Undoable'
  BY <1>1, <1>2 DEF Settled, Undoable
<1>7. WriteProgress'
  BY <1>1, <1>2, <1>3 DEF WriteProgress, FilesWritten
<1>8. AdapterCurrent' /\ Ended'
  BY <1>1, <1>2, <1>3 DEF IInv, AdapterCurrent, Ended
<1> QED
  BY <1>4, <1>5, <1>6, <1>7, <1>8 DEF IInv

LEMMA WritePlanStep == IInv /\ WritePlan => IInv'
<1> SUFFICES ASSUME IInv, WritePlan PROVE IInv'
  OBVIOUS
<1> DEFINE doc == write.doc
<1>1. /\ phase = "publishing" /\ write.step = "plan"
      /\ plan' = doc.plan /\ unsynced' = NoDoc
      /\ UNCHANGED <<journal, inventory, files>>
      /\ StepDone
  BY DEF WritePlan, AtStep
<1>2. /\ journal = doc /\ journal # NoDoc
      /\ JournalOK(journal) /\ FilesBetween(journal)
      /\ doc.publication \subseteq files
      /\ inventory = doc.inventory
      /\ write.why # "commit" => adapter = NoDoc
      /\ manifest # "FAILED"
  BY <1>1, InPublication DEF FilesWritten, IInv, WriteProgress
<1>3. /\ write'.doc = doc /\ write'.why = write.why /\ write'.step = "unlink"
      /\ write' \in Writes /\ write' # NoWrite
      /\ UNCHANGED <<manifest, launch, phase, adapter, crashes, errors>>
  BY <1>1, StepDoneType DEF StepDone, StepAfter
<1>4. TypeOK'
  BY <1>1, <1>3, WriteType DEF IInv, TypeOK
<1>5. Pending'
  BY <1>1, <1>2 DEF Pending, FilesBetween, JournalOK, Kinds
<1>6. Settled' /\ Undoable'
  BY <1>1, <1>2 DEF Settled, Undoable
<1>7. WriteProgress'
  BY <1>1, <1>2, <1>3 DEF WriteProgress, FilesWritten
<1>8. AdapterCurrent' /\ Ended'
  BY <1>1, <1>2, <1>3 DEF IInv, AdapterCurrent, Ended
<1> QED
  BY <1>4, <1>5, <1>6, <1>7, <1>8 DEF IInv

LEMMA UnlinkJournalStep == IInv /\ UnlinkJournal => IInv'
<1> SUFFICES ASSUME IInv, UnlinkJournal PROVE IInv'
  OBVIOUS
<1> DEFINE doc == write.doc
<1>1. /\ phase = "publishing" /\ write.step = "unlink"
      /\ journal' = NoDoc /\ unsynced' = journal
      /\ UNCHANGED <<inventory, plan, files>>
      /\ StepDone
  BY DEF UnlinkJournal, AtStep
<1>2. /\ journal = doc /\ journal # NoDoc
      /\ JournalOK(journal) /\ FilesBetween(journal)
      /\ doc.publication \subseteq files
      /\ inventory = doc.inventory /\ plan = doc.plan
      /\ write.why # "commit" => adapter = NoDoc
      /\ manifest # "FAILED"
  BY <1>1, InPublication DEF FilesWritten, IInv, WriteProgress
<1>3. /\ write'.doc = doc /\ write'.why = write.why /\ write'.step = "fsync"
      /\ write' \in Writes /\ write' # NoWrite
      /\ UNCHANGED <<manifest, launch, phase, adapter, crashes, errors>>
  BY <1>1, StepDoneType DEF StepDone, StepAfter
<1>4. inventory # NoDoc
  BY <1>1, <1>2, WriteType
<1>5. TypeOK'
  BY <1>1, <1>3 DEF IInv, TypeOK
<1>6. Pending' /\ Undoable'
  BY <1>1, <1>2 DEF Pending, Undoable, JournalOK, Kinds
<1>7. Settled'
  <2>1. InventoryOK(inventory) /\ plan = inventory.digest
    BY <1>2 DEF JournalOK
  <2>2. files = ReceiptsOf(inventory)
    BY <1>2 DEF FilesBetween
  <2> QED
    BY <1>1, <1>4, <2>1, <2>2 DEF Settled, InventoryOK, ReceiptsOf
<1>8. WriteProgress'
  BY <1>1, <1>2, <1>3 DEF WriteProgress
<1>9. AdapterCurrent' /\ Ended'
  BY <1>1, <1>2, <1>3 DEF IInv, AdapterCurrent, Ended
<1> QED
  BY <1>5, <1>6, <1>7, <1>8, <1>9 DEF IInv

LEMMA FsyncDirectoryStep == IInv /\ FsyncDirectory => IInv'
<1> SUFFICES ASSUME IInv, FsyncDirectory PROVE IInv'
  OBVIOUS
<1>1. /\ phase = "publishing" /\ write.step = "fsync"
      /\ unsynced' = NoDoc /\ write' = NoWrite
      /\ phase' = CASE write.why = "commit"   -> "idle"
                    [] write.why = "evidence" -> "failing"
                    [] OTHER                  -> "opening"
      /\ adapter' = IF write.why = "commit" THEN write.doc.inventory ELSE adapter
      /\ UNCHANGED <<journal, inventory, plan, files, manifest, launch, crashes, errors>>
  BY DEF FsyncDirectory, AtStep
<1>2. /\ journal = NoDoc /\ inventory = write.doc.inventory /\ inventory # NoDoc
      /\ write.why # "commit" => adapter = NoDoc
      /\ manifest # "FAILED"
      /\ write.why \in Reasons
  BY <1>1, WriteType DEF IInv, WriteProgress, Ended
<1>3. phase' \in {"idle", "failing", "opening"} /\ (phase' = "idle" <=> write.why = "commit")
  BY <1>1
<1>4. TypeOK'
  BY <1>1, <1>3, WriteType DEF IInv, TypeOK, Writes
<1>5. Pending' /\ Settled' /\ Undoable'
  BY <1>1, <1>2 DEF IInv, Pending, Settled, Undoable
<1>6. WriteProgress'
  BY <1>3 DEF WriteProgress
<1>7. AdapterCurrent' /\ Ended'
  BY <1>1, <1>2, <1>3 DEF AdapterCurrent, Ended
<1> QED
  BY <1>4, <1>5, <1>6, <1>7 DEF IInv
\* What the invariant says of the disk holds as long as the disk stays.
LEMMA DiskUnchanged ==
  ASSUME IInv, UNCHANGED disk
  PROVE  Pending' /\ Settled' /\ Undoable'
<1>1. /\ journal' = journal /\ inventory' = inventory /\ plan' = plan
      /\ files' = files /\ unsynced' = unsynced
  BY DEF disk
<1>2. Pending'
  BY <1>1 DEF IInv, Pending, FilesBetween
<1>3. Settled'
  BY <1>1 DEF IInv, Settled
<1>4. Undoable'
  BY <1>1 DEF IInv, Undoable
<1> QED
  BY <1>2, <1>3, <1>4

\* A recovery, of a resume or of a failing run, starts over with the files of
\* the pending journal.
LEMMA RecoveryStarts ==
  ASSUME IInv, phase \in {"opening", "failing"}, journal # NoDoc, adapter = NoDoc,
         NEW why \in Reasons \ {"commit"},
         StartWrite(journal, FirstStep(journal), why),
         UNCHANGED <<disk, manifest, launch, adapter, crashes, errors>>
  PROVE  IInv'
<1>1. /\ phase' = "publishing"
      /\ write' = [doc |-> journal, step |-> FirstStep(journal), why |-> why]
      /\ UNCHANGED <<journal, inventory, plan, files, unsynced>>
  BY DEF StartWrite, disk
<1>2. JournalOK(journal) /\ journal \in Journals /\ manifest # "FAILED"
  BY DEF IInv, Pending, JournalOK, Ended
<1>3. FirstStep(journal) \in {"quarantine", "yaml", "inventory"}
  BY <1>2, FirstStepOK
<1>4. write' \in Writes /\ write' # NoWrite
  BY <1>1, <1>2, <1>3 DEF Writes, NoWrite, WriteSteps
<1>5. TypeOK'
  BY <1>1, <1>4 DEF IInv, TypeOK
<1>6. Pending' /\ Settled' /\ Undoable'
  BY DiskUnchanged
<1>7. FilesWritten'
  BY <1>1, <1>2, <1>3, FirstStepOK DEF FilesWritten, Kinds
<1>8. WriteProgress'
  BY <1>1, <1>3, <1>4, <1>7 DEF WriteProgress
<1>9. AdapterCurrent' /\ Ended'
  BY <1>1, <1>2 DEF AdapterCurrent, Ended
<1> QED
  BY <1>5, <1>6, <1>8, <1>9 DEF IInv

LEMMA OpenStep == IInv /\ Open => IInv'
<1> SUFFICES ASSUME IInv, Open PROVE IInv'
  OBVIOUS
<1>1. CASE Bootstrap
  <2>1. /\ phase = "opening" /\ journal = NoDoc /\ inventory = NoDoc
        /\ phase' = "publishing"
        /\ write' = [doc |-> EmptyJournal, step |-> "journal", why |-> "bootstrap"]
        /\ UNCHANGED <<disk, manifest, launch, adapter, crashes, errors>>
    BY <1>1 DEF Bootstrap, StartWrite
  <2>2. EmptyJournal \in Journals /\ EmptyJournal # NoDoc
    BY EmptyJournalOK, NoDocAssumption DEF JournalOK
  <2>3. write' \in Writes /\ write' # NoWrite
    BY <2>1, <2>2 DEF Writes, NoWrite, WriteSteps, Reasons
  <2>4. adapter = NoDoc /\ manifest # "FAILED"
    BY <2>1 DEF IInv, AdapterCurrent, Ended
  <2>5. TypeOK'
    BY <2>1, <2>3 DEF IInv, TypeOK, disk
  <2>6. Pending' /\ Settled' /\ Undoable'
    BY <2>1, DiskUnchanged
  <2>7. WriteProgress'
    BY <2>1, <2>3, <2>4 DEF WriteProgress, NotStarted, disk
  <2>8. AdapterCurrent' /\ Ended'
    BY <2>1, <2>4 DEF AdapterCurrent, Ended
  <2> QED
    BY <2>5, <2>6, <2>7, <2>8 DEF IInv
<1>2. CASE Recover
  <2>1. phase = "opening" /\ journal # NoDoc /\ StartWrite(journal, FirstStep(journal), "recover")
        /\ UNCHANGED <<disk, manifest, launch, adapter, crashes, errors>>
    BY <1>2 DEF Recover
  <2>2. adapter = NoDoc
    BY <2>1 DEF IInv, AdapterCurrent
  <2> QED
    BY <2>1, <2>2, RecoveryStarts DEF Reasons
<1>3. CASE Load
  <2>1. /\ phase = "opening" /\ journal = NoDoc /\ inventory # NoDoc
        /\ phase' = "idle" /\ adapter' = inventory
        /\ UNCHANGED <<disk, manifest, launch, write, crashes, errors>>
    BY <1>3 DEF Load, Loadable
  <2>2. TypeOK'
    BY <2>1 DEF IInv, TypeOK, disk
  <2>3. Pending' /\ Settled' /\ Undoable'
    BY <2>1, DiskUnchanged
  <2>4. WriteProgress' /\ AdapterCurrent' /\ Ended'
    BY <2>1 DEF IInv, WriteProgress, AdapterCurrent, Ended, disk
  <2> QED
    BY <2>2, <2>3, <2>4 DEF IInv
<1>4. CASE RefuseResume
  <2>1. /\ phase = "opening" /\ phase' = "down"
        /\ UNCHANGED <<disk, manifest, launch, write, adapter, crashes, errors>>
    BY <1>4 DEF RefuseResume
  <2>2. TypeOK'
    BY <2>1 DEF IInv, TypeOK, disk
  <2>3. Pending' /\ Settled' /\ Undoable'
    BY <2>1, DiskUnchanged
  <2>4. WriteProgress' /\ AdapterCurrent' /\ Ended'
    BY <2>1 DEF IInv, WriteProgress, AdapterCurrent, Ended, disk
  <2> QED
    BY <2>2, <2>3, <2>4 DEF IInv
<1> QED
  BY <1>1, <1>2, <1>3, <1>4 DEF Open

LEMMA CommitStep == IInv /\ Commit => IInv'
<1> SUFFICES ASSUME IInv, Commit PROVE IInv'
  OBVIOUS
<1>1. PICK doc \in CommittableJournals(adapter) :
        /\ phase = "idle" /\ journal = NoDoc
        /\ phase' = "publishing"
        /\ write' = [doc |-> doc, step |-> "journal", why |-> "commit"]
        /\ UNCHANGED <<disk, manifest, launch, adapter, crashes, errors>>
  BY DEF Commit, StartWrite
<1>2. /\ inventory # NoDoc /\ adapter = inventory /\ InventoryOK(inventory)
      /\ manifest # "FAILED"
  BY <1>1 DEF IInv, AdapterCurrent, Settled, Ended
<1>3. doc \in Journals /\ doc # NoDoc
  BY <1>2, CommittableOK, NoDocAssumption DEF JournalOK
<1>4. write' \in Writes /\ write' # NoWrite
  BY <1>1, <1>3 DEF Writes, NoWrite, WriteSteps, Reasons
<1>5. TypeOK'
  BY <1>1, <1>4 DEF IInv, TypeOK, disk
<1>6. Pending' /\ Settled' /\ Undoable'
  BY <1>1, DiskUnchanged
<1>7. NotStarted'
  <2>1. CommittableJournals(inventory)' = CommittableJournals(inventory)
    BY <1>1 DEF disk
  <2> QED
    BY <1>1, <1>2, <2>1 DEF NotStarted, disk
<1>8. WriteProgress'
  BY <1>1, <1>4, <1>7 DEF WriteProgress
<1>9. AdapterCurrent' /\ Ended'
  BY <1>1, <1>2 DEF AdapterCurrent, Ended
<1> QED
  BY <1>5, <1>6, <1>8, <1>9 DEF IInv

LEMMA FailStep == IInv /\ Fail => IInv'
<1> SUFFICES ASSUME IInv, Fail PROVE IInv'
  OBVIOUS
<1>1. CASE WriteRaises \/ RunRaises
  <2>1. /\ phase \in {"publishing", "idle"}
        /\ phase' \in {"failing", "down"}
        /\ write' = NoWrite /\ adapter' = NoDoc /\ errors' = errors + 1
        /\ UNCHANGED <<disk, manifest, launch, crashes>>
    BY <1>1 DEF WriteRaises, RunRaises, Raise
  <2>2. TypeOK'
    BY <2>1 DEF IInv, TypeOK, disk, Writes
  <2>3. Pending' /\ Settled' /\ Undoable'
    BY <2>1, DiskUnchanged
  <2>4. WriteProgress' /\ AdapterCurrent' /\ Ended'
    BY <2>1 DEF IInv, WriteProgress, AdapterCurrent, Ended, disk
  <2> QED
    BY <2>2, <2>3, <2>4 DEF IInv
<1>2. CASE RecoverForEvidence
  <2>1. phase = "failing" /\ journal # NoDoc
        /\ StartWrite(journal, FirstStep(journal), "evidence")
        /\ UNCHANGED <<disk, manifest, launch, adapter, crashes, errors>>
    BY <1>2 DEF RecoverForEvidence
  <2>2. adapter = NoDoc
    BY <2>1 DEF IInv, AdapterCurrent
  <2> QED
    BY <2>1, <2>2, RecoveryStarts DEF Reasons
<1>3. CASE WriteFailedManifest
  <2>1. /\ phase = "failing" /\ journal = NoDoc
        /\ manifest' = "FAILED" /\ phase' = "down" /\ unsynced' = NoDoc
        /\ UNCHANGED <<journal, inventory, plan, files, launch, write, adapter, crashes, errors>>
    BY <1>3 DEF WriteFailedManifest
  <2>2. TypeOK'
    BY <2>1 DEF IInv, TypeOK
  <2>3. Pending' /\ Settled' /\ Undoable'
    BY <2>1 DEF IInv, Pending, Settled, Undoable
  <2>4. WriteProgress' /\ AdapterCurrent' /\ Ended'
    BY <2>1 DEF IInv, WriteProgress, AdapterCurrent, Ended
  <2> QED
    BY <2>2, <2>3, <2>4 DEF IInv
<1> QED
  BY <1>1, <1>2, <1>3 DEF Fail

LEMMA CrashStep == IInv /\ (Crash \/ PowerLoss) => IInv'
<1> SUFFICES ASSUME IInv, Crash \/ PowerLoss PROVE IInv'
  OBVIOUS
<1>1. /\ phase' = "down" /\ write' = NoWrite /\ adapter' = NoDoc
      /\ crashes' = crashes + 1
      /\ UNCHANGED <<inventory, plan, files, manifest, launch, errors>>
      /\ \/ UNCHANGED <<journal, unsynced>>
         \/ unsynced # NoDoc /\ journal' = unsynced /\ unsynced' = NoDoc
  BY DEF Crash, PowerLoss, disk
<1>2. TypeOK'
  BY <1>1 DEF IInv, TypeOK, Writes
<1>3. CASE UNCHANGED <<journal, unsynced>>
  <2>1. Pending' /\ Settled' /\ Undoable' /\ Ended'
    BY <1>1, <1>3, DiskUnchanged DEF disk, IInv, Ended
  <2> QED
    BY <1>1, <1>2, <2>1 DEF IInv, WriteProgress, AdapterCurrent
<1>4. CASE unsynced # NoDoc /\ journal' = unsynced /\ unsynced' = NoDoc
  <2>1. /\ journal = NoDoc /\ JournalOK(unsynced) /\ inventory = unsynced.inventory
        /\ manifest # "FAILED"
    BY <1>4 DEF IInv, Undoable, Ended
  <2>2. inventory # NoDoc
    BY <2>1, NoDocAssumption DEF JournalOK, InventoryOK
  <2>3. files = ReceiptsOf(unsynced.inventory)
    BY <2>1, <2>2 DEF IInv, Settled
  <2>4. Pending'
    BY <1>1, <1>4, <2>1, <2>3 DEF Pending, FilesBetween
  <2>5. Settled' /\ Undoable' /\ Ended'
    BY <1>1, <1>4, <2>1 DEF Settled, Undoable, Ended
  <2> QED
    BY <1>1, <1>2, <2>4, <2>5 DEF IInv, WriteProgress, AdapterCurrent
<1> QED
  BY <1>1, <1>3, <1>4

LEMMA ResumeStep == IInv /\ Resume => IInv'
<1> SUFFICES ASSUME IInv, Resume PROVE IInv'
  OBVIOUS
<1>1. /\ phase = "down" /\ manifest = "STARTED"
      /\ launch' = "resume" /\ phase' = "opening"
      /\ UNCHANGED <<disk, manifest, write, adapter, crashes, errors>>
  BY DEF Resume
<1>2. TypeOK'
  BY <1>1 DEF IInv, TypeOK, disk
<1>3. Pending' /\ Settled' /\ Undoable'
  BY <1>1, DiskUnchanged
<1>4. WriteProgress' /\ AdapterCurrent' /\ Ended'
  BY <1>1 DEF IInv, WriteProgress, AdapterCurrent, Ended, disk
<1> QED
  BY <1>2, <1>3, <1>4 DEF IInv

LEMMA StutterStep == IInv /\ UNCHANGED vars => IInv'
BY DEF vars, disk, IInv, TypeOK, Pending, Settled, Undoable, WriteProgress, AdapterCurrent,
       Ended, FilesBetween, NotStarted, FilesWritten, CommittableJournals
--------------------------------------------------------------------------------
(***************************************************************************)
(* Theorems.                                                               *)
(***************************************************************************)

\* The inductive invariant: at every moment, whatever writes, crashes, power
\* losses and errors came before, the disk is what IInv says it is.
THEOREM Invariance == Spec => []IInv
<1>1. IInv /\ [Next]_vars => IInv'
  <2> SUFFICES ASSUME IInv, [Next]_vars PROVE IInv'
    OBVIOUS
  <2>1. CASE Publish
    BY <2>1, WriteJournalStep, WriteFileStep, WriteInventoryStep, WritePlanStep,
       UnlinkJournalStep, FsyncDirectoryStep DEF Publish
  <2>2. CASE Open
    BY <2>2, OpenStep
  <2>3. CASE Commit
    BY <2>3, CommitStep
  <2>4. CASE Fail
    BY <2>4, FailStep
  <2>5. CASE Crash \/ PowerLoss
    BY <2>5, CrashStep
  <2>6. CASE Resume
    BY <2>6, ResumeStep
  <2>7. CASE UNCHANGED vars
    BY <2>7, StutterStep
  <2> QED
    BY <2>1, <2>2, <2>3, <2>4, <2>5, <2>6, <2>7 DEF Next
<1> QED
  BY <1>1, InitEstablishes, PTL DEF Spec

\* Type correctness.
THEOREM TypeCorrect == Spec => []TypeOK
<1>1. IInv => TypeOK
  BY DEF IInv
<1> QED
  BY <1>1, Invariance, PTL

\* Without a pending journal the two documents belong together and exactly the
\* receipted files are published.
THEOREM Quiescent == Spec => []QuiescentConsistent
<1>1. IInv => QuiescentConsistent
  BY DEF IInv, Settled, QuiescentConsistent
<1> QED
  BY <1>1, Invariance, PTL

\* No file is published that the recoverable state has no receipt for.
THEOREM NoOrphans == Spec => []NoOrphanPublication
<1>1. IInv => NoOrphanPublication
  <2> SUFFICES ASSUME IInv PROVE NoOrphanPublication
    OBVIOUS
  <2>1. CASE journal # NoDoc
    <3>1. Committed = journal.inventory /\ files \subseteq ReceiptsOf(journal.inventory)
      BY <2>1 DEF IInv, Pending, FilesBetween, Committed
    <3>2. journal.inventory # NoDoc
      BY <2>1, NoDocAssumption DEF IInv, Pending, JournalOK, InventoryOK
    <3> QED
      BY <3>1, <3>2 DEF NoOrphanPublication
  <2>2. CASE journal = NoDoc
    BY <2>2 DEF IInv, Settled, Committed, NoOrphanPublication
  <2> QED
    BY <2>1, <2>2
<1> QED
  BY <1>1, Invariance, PTL

\* An exclusive create never meets other bytes, also when a recovery repeats it.
THEOREM NoCollisions == Spec => []NoImmutableCollision
<1>1. IInv => NoImmutableCollision
  <2> SUFFICES ASSUME IInv, phase = "publishing"
               PROVE  \A f \in write.doc.publication : ~Collides(f)
    BY DEF NoImmutableCollision
  <2>1. CASE NotStarted
    BY <2>1, NotStartedOK, NoCollision DEF FilesBetween
  <2>2. CASE write.step \notin {"journal", "fsync"}
    BY <2>2, InPublication, NoCollision DEF FilesBetween
  <2>3. CASE write.step = "fsync"
    <3>1. /\ journal = NoDoc /\ JournalOK(write.doc)
          /\ inventory = write.doc.inventory /\ inventory # NoDoc
      BY <2>3, WriteType DEF IInv, WriteProgress
    <3>2. files = ReceiptsOf(write.doc.inventory)
      BY <3>1 DEF IInv, Settled
    <3> QED
      BY <3>1, <3>2, NoCollision
  <2> QED
    BY <2>1, <2>2, <2>3 DEF IInv, WriteProgress
<1> QED
  BY <1>1, Invariance, PTL

\* A run that has a journal or an inventory is never refused by a resume.
THEOREM NeverRefused == Spec => []ResumeNeverRefused
<1>1. IInv => ResumeNeverRefused
  <2> SUFFICES ASSUME IInv, Committed # NoDoc, journal = NoDoc PROVE Loadable
    BY DEF ResumeNeverRefused
  <2>1. /\ inventory # NoDoc /\ inventory \in Inventories
        /\ plan = inventory.digest
    BY DEF Committed, IInv, Settled, InventoryOK
  <2>2. plan # NoDoc
    BY <2>1, NoDocAssumption DEF Inventories
  <2> QED
    BY <2>1, <2>2 DEF Loadable
<1> QED
  BY <1>1, Invariance, PTL

\* A FAILED manifest describes a state no journal can change any more.
THEOREM FailedSettled == Spec => []FailedManifestSettled
<1>1. IInv => FailedManifestSettled
  BY DEF IInv, Ended, FailedManifestSettled
<1> QED
  BY <1>1, Invariance, PTL

\* A pending journal is completed before another event is written.
THEOREM CompletedFirst == Spec => JournalCompletedFirst
<1> DEFINE Completes ==
      journal # NoDoc /\ journal' # journal =>
        /\ journal' = NoDoc
        /\ inventory = journal.inventory /\ plan = journal.plan
        /\ journal.publication \subseteq files
<1>1. IInv /\ [Next]_vars => [Completes]_vars
  <2> SUFFICES ASSUME IInv, Next, journal # NoDoc, journal' # journal
               PROVE  Completes
    OBVIOUS
  <2>1. CASE WriteJournal
    BY <2>1 DEF WriteJournal, AtStep, IInv, WriteProgress, NotStarted
  <2>2. CASE UnlinkJournal
    <3>1. phase = "publishing" /\ write.step = "unlink" /\ journal' = NoDoc
      BY <2>2 DEF UnlinkJournal, AtStep
    <3>2. /\ journal = write.doc
          /\ inventory = write.doc.inventory /\ plan = write.doc.plan
          /\ write.doc.publication \subseteq files
      BY <3>1, InPublication DEF FilesWritten, IInv, WriteProgress
    <3> QED
      BY <3>1, <3>2
  <2>3. CASE PowerLoss
    BY <2>3 DEF PowerLoss, IInv, Pending
  <2> QED
    BY <2>1, <2>2, <2>3
    DEF Next, Publish, WriteFile, WriteInventory, WritePlan, FsyncDirectory, Open, Bootstrap,
        Recover, Load, RefuseResume, Commit, Fail, WriteRaises, RunRaises, Raise,
        RecoverForEvidence, WriteFailedManifest, Crash, Resume, disk
<1> QED
  BY <1>1, Invariance, PTL DEF Spec, JournalCompletedFirst

\* The events the abstract specification allows are those of this module.
LEMMA SameEvents ==
  /\ Atomic!EmptyJournal = EmptyJournal
  /\ \A inv : Atomic!CommittableJournals(inv) = CommittableJournals(inv)
<1>1. \A queue, decisions : Atomic!AdmittedId(queue, decisions) = AdmittedId(queue, decisions)
  BY DEF Atomic!AdmittedId, AdmittedId, Atomic!AdmittedIn, AdmittedIn, Atomic!IsAdmitted,
         IsAdmitted, Atomic!None, None
<1>2. \A t, queue, decisions :
        Atomic!TargetState(t, queue, decisions) = TargetState(t, queue, decisions)
  BY <1>1 DEF Atomic!TargetState, TargetState, Atomic!TargetTerminal, TargetTerminal,
              Atomic!Decided, Decided, Atomic!None, None
<1>3. \A t, queue, decisions :
        Atomic!FallbackAvailable(t, queue, decisions) = FallbackAvailable(t, queue, decisions)
  BY <1>2 DEF Atomic!FallbackAvailable, FallbackAvailable
<1>4. \A attempted, decisions :
        Atomic!DerivePlan(attempted, decisions) = DerivePlan(attempted, decisions)
  BY <1>1, <1>2, <1>3 DEF Atomic!DerivePlan, DerivePlan
<1>5. \A attempted, decisions, records, publication :
        Atomic!JournalFor(attempted, decisions, records, publication)
          = JournalFor(attempted, decisions, records, publication)
  BY <1>4 DEF Atomic!JournalFor, JournalFor
<1>6. \A p : Atomic!QueueValid(p) = QueueValid(p)
  <2>1. \A s, S : Atomic!Without(s, S) = Without(s, S)
    BY DEF Atomic!Without, Without
  <2> QED
    BY <2>1
    DEF Atomic!QueueValid, QueueValid, Atomic!AttemptedPrefixValid, AttemptedPrefixValid,
        Atomic!AdmittedValid, AdmittedValid, Atomic!ExhaustedValid, ExhaustedValid,
        Atomic!FallbackValid, FallbackValid, Atomic!None, None
<1>7. Atomic!EmptyJournal = EmptyJournal
  BY <1>5 DEF Atomic!EmptyJournal, EmptyJournal, Atomic!Undecided, Undecided
<1>8. \A inv : Atomic!ProgressJournals(inv) = ProgressJournals(inv)
  BY <1>5 DEF Atomic!ProgressJournals, ProgressJournals
<1>9. ASSUME NEW inv PROVE Atomic!AttemptJournals(inv) = AttemptJournals(inv)
  <2>1. \A t : Atomic!Startable(inv, t) = Startable(inv, t)
    BY DEF Atomic!Startable, Startable, Atomic!ChoiceIds, ChoiceIds, Atomic!Decided, Decided
  <2>2. ASSUME NEW t, NEW c
        PROVE  Atomic!AttemptJournal(inv, t, c) = AttemptJournal(inv, t, c)
    BY <1>5, Zenon DEF Atomic!AttemptJournal, AttemptJournal
  <2> QED
    BY <2>1, <2>2 DEF Atomic!AttemptJournals, AttemptJournals
<1>10. ASSUME NEW inv PROVE Atomic!DecisionJournals(inv) = DecisionJournals(inv)
  <2>1. \A c, outcome, contents :
          Atomic!PublicationOf(c, outcome, contents) = PublicationOf(c, outcome, contents)
    BY DEF Atomic!PublicationOf, PublicationOf
  <2>2. \A c : Atomic!Decided(inv.decisions, c) = Decided(inv.decisions, c)
    BY DEF Atomic!Decided, Decided
  <2>3. Atomic!Outcomes = Outcomes
    BY DEF Atomic!Outcomes, Outcomes
  <2> QED
    BY <1>5, <2>1, <2>2, <2>3 DEF Atomic!DecisionJournals, DecisionJournals
<1> QED
  BY <1>6, <1>7, <1>8, <1>9, <1>10 DEF Atomic!CommittableJournals, CommittableJournals

\* The commit protocol implements the atomic inventory: whatever happens between
\* two writes, a restart sees whole events only and loses none that was confirmed.
THEOREM Refinement == Spec => ImplementsAtomicInventory
<1>1. Init => Atomic!Init
  BY DEF Init, Atomic!Init, Committed
<1>2. IInv /\ [Next]_vars => [Atomic!Next]_(Atomic!vars)
  <2> SUFFICES ASSUME IInv, [Next]_vars
               PROVE  \/ Atomic!Create \/ Atomic!Commit \/ Atomic!Acknowledge \/ Atomic!Lose
                      \/ UNCHANGED <<Committed, adapter>>
    BY DEF Atomic!Next, Atomic!vars
  <2>1. CASE WriteJournal
    <3>1. /\ phase = "publishing" /\ write.step = "journal"
          /\ journal' = write.doc /\ UNCHANGED <<inventory, adapter>>
          /\ NotStarted
          /\ write.why # "commit" => adapter = NoDoc
      BY <2>1 DEF WriteJournal, AtStep, StepDone, IInv, WriteProgress
    <3>2. Committed = inventory /\ Committed' = write.doc.inventory
      BY <3>1, WriteType DEF NotStarted, Committed
    <3>3. CASE write.why = "bootstrap"
      BY <3>1, <3>2, <3>3, SameEvents DEF NotStarted, Atomic!Create
    <3>4. CASE write.why = "commit"
      BY <3>1, <3>2, <3>4, SameEvents DEF NotStarted, Atomic!Commit
    <3> QED
      BY <3>1, <3>3, <3>4 DEF NotStarted
  <2>2. CASE WriteFile \/ WritePlan \/ Bootstrap \/ Recover \/ RefuseResume \/ Commit
             \/ RecoverForEvidence \/ WriteFailedManifest \/ Resume \/ UNCHANGED vars
    BY <2>2 DEF WriteFile, WritePlan, StepDone, Bootstrap, Recover, StartWrite, RefuseResume,
                Commit, RecoverForEvidence, WriteFailedManifest, Resume, vars, disk, Committed
  <2>3. CASE WriteInventory
    <3>1. phase = "publishing" /\ write.step = "inventory" /\ UNCHANGED <<journal, adapter>>
      BY <2>3 DEF WriteInventory, AtStep, StepDone
    <3> QED
      BY <3>1, InPublication DEF Committed
  <2>4. CASE UnlinkJournal
    <3>1. /\ phase = "publishing" /\ write.step = "unlink" /\ journal' = NoDoc
          /\ UNCHANGED <<inventory, adapter>>
      BY <2>4 DEF UnlinkJournal, AtStep, StepDone
    <3>2. journal = write.doc /\ journal # NoDoc /\ inventory = write.doc.inventory
      BY <3>1, InPublication DEF IInv, WriteProgress
    <3> QED
      BY <3>1, <3>2 DEF Committed
  <2>5. CASE FsyncDirectory
    <3>1. /\ phase = "publishing" /\ write.step = "fsync"
          /\ adapter' = IF write.why = "commit" THEN write.doc.inventory ELSE adapter
          /\ UNCHANGED <<journal, inventory>>
      BY <2>5 DEF FsyncDirectory, AtStep
    <3>2. journal = NoDoc /\ inventory = write.doc.inventory /\ inventory # NoDoc
      BY <3>1, WriteType DEF IInv, WriteProgress
    <3> QED
      BY <3>1, <3>2 DEF Committed, Atomic!Acknowledge
  <2>6. CASE Load
    BY <2>6 DEF Load, Loadable, disk, Committed, Atomic!Acknowledge
  <2>7. CASE WriteRaises \/ RunRaises \/ Crash
    BY <2>7 DEF WriteRaises, RunRaises, Raise, Crash, disk, Committed, Atomic!Lose
  <2>8. CASE PowerLoss
    BY <2>8 DEF PowerLoss, IInv, Undoable, Committed, Atomic!Lose
  <2> QED
    BY <2>1, <2>2, <2>3, <2>4, <2>5, <2>6, <2>7, <2>8 DEF Next, Publish, Open, Fail
<1> QED
  BY <1>1, <1>2, Invariance, PTL DEF Spec, ImplementsAtomicInventory, Atomic!Spec
================================================================================
