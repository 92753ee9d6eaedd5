------------------------- MODULE FinalizationInventory -------------------------
(***************************************************************************)
(* The finalization inventory as a value, and the events the persistence   *)
(* adapter appends to it.  One event is one call of the adapter that       *)
(* commits: a transition, stage result or repair; the transition that      *)
(* starts a candidate, which adds its CandidateAttemptRecord to the same   *)
(* commit; or a terminal result, which adds the terminal transition, the   *)
(* AdmissionDecisionRecord and the receipts of the published files.        *)
(***************************************************************************)
EXTENDS CoverageTargets

CONSTANT Contents   \* bytes of a published file, as far as equality tells them apart

ASSUME ContentsAssumption == Contents # {}

Outcomes == {"admitted", "rejected"}

\* A decision carries the content its receipts name; an undecided one names none.
Undecided == [outcome |-> "undecided", content |-> {}]
Decisions == [outcome : {"undecided"} \cup Outcomes, content : SUBSET Contents]

Files == [kind : {"yaml", "feature", "quarantine"}, candidate : Candidates, content : Contents]

Plans ==
  [Targets -> [attempted : Seq(Candidates), admitted : Candidates \cup {None},
               state : {"selected", "admitted", "exhausted"},
               fallback : Seq(Candidates)]]

Inventories ==
  [attempted : [Targets -> Seq(Candidates)], decisions : [Candidates -> Decisions],
   records : Nat, digest : Plans]

Journals == [inventory : Inventories, plan : Plans, publication : SUBSET Files]

\* The files the receipts of one decision name: an admitted candidate has its
\* scenario YAML and feature, a rejected one its quarantine bundle.
PublicationOf(c, outcome, contents) ==
  {[kind |-> k, candidate |-> c, content |-> x] :
     k \in IF outcome = "admitted" THEN {"yaml", "feature"} ELSE {"quarantine"},
     x \in contents}

ReceiptsOf(inv) ==
  UNION {PublicationOf(c, inv.decisions[c].outcome, inv.decisions[c].content) :
           c \in Candidates}

\* The journal of a commit: the next inventory, bound by digest to the plan
\* derived from it, and the files to publish with it.
JournalFor(attempted, decisions, records, publication) ==
  LET plan == DerivePlan(attempted, decisions)
  IN  [inventory   |-> [attempted |-> attempted, decisions |-> decisions,
                        records |-> records, digest |-> plan],
       plan        |-> plan,
       publication |-> publication]

EmptyJournal ==
  JournalFor([t \in Targets |-> << >>], [c \in Candidates |-> Undecided], 0, {})

\* Faulty variant: the sequence counter steps the wrong way.
ProgressBackwards(inv) ==
  {JournalFor(inv.attempted, inv.decisions, inv.records - 1, {})}

\* A transition, a stage result or a repair: no plan field depends on it.
ProgressJournals(inv) ==
  {JournalFor(inv.attempted, inv.decisions, inv.records + 1, {})}

\* Candidates of target t that can be started: not yet attempted, while every
\* earlier attempt of the target is decided.  Lifecycle edges lead into
\* revalidating_candidate only from pending_candidate and candidate_rejected.
Startable(inv, t) ==
  {c \in ChoiceIds(t) : \A i \in DOMAIN inv.attempted[t] :
     inv.attempted[t][i] # c /\ Decided(inv.decisions, inv.attempted[t][i])}

\* The transition into revalidating_candidate: it adds the attempt record.
AttemptJournal(inv, t, c) ==
  JournalFor([inv.attempted EXCEPT ![t] = Append(@, c)], inv.decisions, inv.records + 2, {})

AttemptJournals(inv) ==
  UNION {{AttemptJournal(inv, t, c) : c \in Startable(inv, t)} : t \in Targets}

\* record_candidate_result: terminal transition, decision and receipts at once.
DecisionJournals(inv) ==
  {JournalFor(inv.attempted,
              [inv.decisions EXCEPT ![d.c] = [outcome |-> d.outcome, content |-> {d.content}]],
              inv.records + 2,
              PublicationOf(d.c, d.outcome, {d.content})) :
     d \in {e \in [c : Candidates, outcome : Outcomes, content : Contents] :
              /\ ~Decided(inv.decisions, e.c)
              /\ \E t \in Targets : \E i \in DOMAIN inv.attempted[t] :
                   inv.attempted[t][i] = e.c}}

\* What one call may commit: the derived plan has to pass the plan's validators,
\* otherwise the call raises before anything is written.
CommittableJournals(inv) ==
  {j \in ProgressJournals(inv) \cup AttemptJournals(inv) \cup DecisionJournals(inv) :
     QueueValid(j.plan)}
================================================================================
