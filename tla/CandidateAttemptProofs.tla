------------------------- MODULE CandidateAttemptProofs -------------------------
(***************************************************************************)
(* The lifecycle machine and its resume agree on the trace, for any number *)
(* of stages, any budgets, any reports and any number of crashes.          *)
(*                                                                         *)
(* The invariant IInv relates three things:                                *)
(*   - the durable trace to itself: where the last transition leads says   *)
(*     which stage the last record is of (TraceShape), and that record     *)
(*     has an artifact of every earlier stage under it (PrefixKept);       *)
(*   - the memory of the machine to the trace (Control): where the machine *)
(*     is, the trace allows every transition it may record next;           *)
(*   - the machine's copy of state and index (MachineMatchesTrace).        *)
(* A resume has to establish all of it from the durable part alone.        *)
(***************************************************************************)
EXTENDS CandidateAttempt, FiniteSetTheorems, NaturalsInduction, WellFoundedInduction, TLAPS

Pending == Lifecycle("pending_candidate")
Revalidating == Lifecycle("revalidating_candidate")
Finalizing == Lifecycle("finalizing_prebehavior")
Admitting == Lifecycle("admitting")
Terminals == {Lifecycle("candidate_rejected"), Lifecycle("admitted")}

\* Every invocation has its record, and the last record is one of stage s.
LastIs(s) ==
  invoked = Len(records) /\ records # << >> /\ LastRecord.stage = s

TraceShape ==
  /\ edge.current \in {Pending, Revalidating} => records = << >> /\ invoked = 0
  /\ \A s \in Stages : edge.current = Generating(s) => OpenInvocation \/ LastIs(s)
  /\ edge.current = Finalizing => LastIs(Tree)
  /\ edge.current = Admitting => LastIs(Behavior)

Below(s) == {r \in Stages : r < s}

PrefixKept == records # << >> => Below(LastRecord.stage) \subseteq ResumedArtifacts

\* What the finalizer said of a tree is a report of the finalizer.
VerdictsKept ==
  \A i \in DOMAIN records :
    records[i].stage = Tree => records[i].verdict \in PrebehaviorReports

\* Where the machine may be when it decides what to do next.
Ready ==
  /\ edge.current \in Active \cup {Revalidating}
  /\ invoked = Len(records)
  /\ Below(cursor) \subseteq ResumedArtifacts
  /\ edge.current = Revalidating => cursor = Actor
  /\ Behavior \in artifacts => /\ cursor = Behavior
                               /\ edge.current \in {Generating(Behavior), Admitting}

\* The boundary in front of behavior is recorded only right after the tree.
BoundaryAhead ==
  cursor = Behavior /\ ~snapshot /\ ~suppress => edge.current = Generating(Tree)

\* The memory of a process that has read nothing yet.
Blank == cursor = Actor /\ artifacts = {} /\ ~snapshot /\ ~suppress /\ failure = {} /\ code = "none"

Control ==
  /\ pc \in {"down", "start"} => Blank /\ edge.current \notin Terminals
  /\ pc = "start" => edge.current = Pending
  /\ pc \in {"revalidate", "advance"} => Ready /\ BoundaryAhead
  /\ pc \in {"calling", "recording"} =>
       /\ edge.current = Generating(cursor)
       /\ OpenInvocation /\ invocations[cursor] >= 1
       /\ Below(cursor) \subseteq ResumedArtifacts
       /\ cursor = Behavior => snapshot
       /\ Behavior \notin artifacts
  /\ pc = "finalizing" => Ready /\ cursor = Behavior /\ edge.current \in Active
  /\ pc = "admitting" =>
       Ready /\ cursor = Behavior /\ snapshot /\ edge.current = Admitting
  /\ pc = "terminal" =>
       /\ edge.current \in Active \cup {Revalidating}
       /\ failure = {} => edge.current = Admitting
  /\ pc \in {"terminal", "done"} /\ OpenInvocation => code = "unknown_invocation_outcome"

IInv == TypeOK /\ MachineMatchesTrace /\ TraceShape /\ PrefixKept /\ VerdictsKept /\ Control

--------------------------------------------------------------------------------
(***************************************************************************)
(* Least and greatest numbers.                                             *)
(***************************************************************************)

\* The owner of a retry is a least stage: Min returns a least element.
LEMMA MinOf ==
  ASSUME NEW S \in SUBSET Nat, S # {}
  PROVE  Min(S) \in S /\ \A y \in S : Min(S) <= y
<1>1. PICK x \in S : \A y \in S : ~ (<<y, x>> \in OpToRel(<, Nat))
  BY NatLessThanWellFounded, WFMin
<1>2. \A y \in S : ~ (y < x)
  BY <1>1 DEF OpToRel
<1>3. \E m \in S : \A y \in S : m <= y
  BY <1>2
<1> QED
  BY <1>3 DEF Min

\* The last record of a stage is a greatest index: Max returns one.
LEMMA MaxOf ==
  ASSUME NEW S \in SUBSET Nat, S # {}, NEW n \in Nat, \A x \in S : x <= n
  PROVE  Max(S) \in S /\ \A y \in S : y <= Max(S)
<1> DEFINE gaps == {n - x : x \in S}
<1>1. gaps \in SUBSET Nat /\ gaps # {}
  OBVIOUS
<1>2. Min(gaps) \in gaps /\ \A y \in gaps : Min(gaps) <= y
  BY <1>1, MinOf
<1>3. PICK m \in S : Min(gaps) = n - m
  BY <1>2
<1>4. \A y \in S : n - m <= n - y
  BY <1>2, <1>3
<1>5. \A y \in S : m >= y
  BY <1>4
<1> QED
  BY <1>5 DEF Max

\* Finitely many numbers have an upper bound (the retry indices of a trace).
LEMMA Bounded ==
  ASSUME NEW n \in Nat, NEW f \in [1 .. n -> Nat]
  PROVE  \E b \in Nat : \A i \in 1 .. n : f[i] <= b
<1> DEFINE Good(k) == \E b \in Nat : \A i \in 1 .. k : f[i] <= b
           bad == {k \in 0 .. n : ~Good(k)}
<1>1. CASE n \notin bad
  BY <1>1
<1>2. CASE n \in bad
  <2>1. bad \in SUBSET Nat /\ bad # {}
    <3> HIDE DEF Good
    <3> QED
      BY <1>2
  <2>2. PICK k \in bad : \A y \in bad : k <= y
    BY <2>1, MinOf
  <2>3. k \in 0 .. n /\ ~Good(k)
    OBVIOUS
  <2>4. k # 0
    <3>1. \A i \in 1 .. 0 : f[i] <= 0
      OBVIOUS
    <3>2. Good(0)
      BY <3>1
    <3> QED
      BY <3>2, <2>3
  <2>5. k - 1 \in 0 .. n /\ k \in 1 .. n
    BY <2>3, <2>4
  <2>6. Good(k - 1)
    <3> HIDE DEF Good
    <3> SUFFICES ASSUME k - 1 \in bad PROVE FALSE
      BY <2>5
    <3>1. k <= k - 1
      BY <2>2
    <3> QED
      BY <3>1, <2>5
  <2>7. PICK b \in Nat : \A i \in 1 .. (k - 1) : f[i] <= b
    BY <2>6
  <2>8. f[k] \in Nat /\ b + f[k] \in Nat
    BY <2>5
  <2>9. \A i \in 1 .. k : f[i] <= b + f[k]
    <3> TAKE i \in 1 .. k
    <3>1. CASE i = k
      BY <2>8, <3>1
    <3>2. CASE i # k
      <4>1. i \in 1 .. (k - 1) /\ i \in 1 .. n
        BY <3>2, <2>5
      <4>2. f[i] \in Nat
        BY <4>1
      <4>3. f[i] <= b
        BY <4>1, <2>7
      <4> QED
        BY <2>8, <4>2, <4>3
    <3> QED
      BY <3>1, <3>2
  <2>10. Good(k)
    BY <2>8, <2>9
  <2> QED
    BY <2>3, <2>10
<1> QED
  BY <1>1, <1>2

--------------------------------------------------------------------------------
(***************************************************************************)
(* Stages, owners and the artifacts the trace supplies.                    *)
(***************************************************************************)
LEMMA StageFacts ==
  /\ Behavior \in Nat /\ Behavior \in Stages /\ Tree \in Stages /\ Actor \in Stages
  /\ Tree # Behavior /\ Actor # Behavior /\ Tree = Behavior - 1
  /\ Stages \subseteq Nat /\ NoOwner \notin Stages
  /\ \A s \in Stages : s # Behavior => s + 1 \in Stages /\ s < Behavior
  /\ \A s \in Stages : s <= Behavior
  /\ Below(Actor) = {}
  BY StagesAssumption DEF Actor, Tree, Stages, NoOwner, Below

\* An owner of violations is a stage that one of them names, or there is none.
LEMMA OwnerOf ==
  ASSUME NEW violations \in SUBSET Violations, violations # {}
  PROVE  LET owner == EarliestOwner(violations)
         IN  /\ owner \in Stages \cup {NoOwner}
             /\ owner # NoOwner => \E v \in violations : v.owner = owner
<1>1. CASE \E v \in violations : ~v.retryable \/ v.owner = NoOwner
  BY <1>1 DEF EarliestOwner
<1>2. CASE \A v \in violations : v.retryable /\ v.owner # NoOwner
  <2> DEFINE owners == {v.owner : v \in violations}
  <2>1. \A v \in violations : v.owner \in Stages
    BY <1>2 DEF Violations
  <2>2. owners \in SUBSET Nat /\ owners # {}
    BY <2>1, StageFacts
  <2>3. EarliestOwner(violations) = Min(owners)
    BY <1>2 DEF EarliestOwner
  <2>4. Min(owners) \in owners
    BY <2>2, MinOf
  <2> QED
    BY <2>1, <2>3, <2>4
<1> QED
  BY <1>1, <1>2

\* A counter per stage stays one.
LEMMA Incremented ==
  ASSUME NEW count \in [Stages -> Nat], NEW s \in Stages
  PROVE  [count EXCEPT ![s] = @ + 1] \in [Stages -> Nat]
<1>1. count[s] + 1 \in Nat
  OBVIOUS
<1> QED
  BY <1>1

\* What routing leaves behind: a retry of an owner that loses its artifact and
\* every later one, or a failure that keeps everything.
LEMMA RouteFacts ==
  ASSUME TypeOK, NEW violations \in SUBSET Violations, violations # {}, Route(violations)
  PROVE  /\ ownerRetries' \in [Stages -> Nat] /\ lengthRetries' \in [Stages -> Nat]
         /\ cursor' \in Stages /\ artifacts' \subseteq artifacts
         /\ snapshot' \in BOOLEAN /\ failure' \in SUBSET Violations
         /\ \/ /\ pc' = "advance" /\ failure' = failure
               /\ \E v \in violations : v.owner = cursor'
               /\ Behavior \notin artifacts'
               /\ snapshot' = (snapshot /\ cursor' = Behavior)
            \/ /\ pc' = "terminal" /\ failure' = violations
               /\ artifacts' = artifacts /\ snapshot' = snapshot /\ cursor' = cursor
<1> DEFINE owner == EarliestOwner(violations)
<1>1. CASE Retries(owner, violations)
  <2>1. owner \in Stages /\ \E v \in violations : v.owner = owner
    BY <1>1, OwnerOf DEF Retries
  <2>2. /\ cursor' = owner /\ pc' = "advance" /\ failure' = failure
        /\ artifacts' = Invalidated(owner)
        /\ snapshot' = (snapshot /\ owner = Behavior)
    BY <1>1 DEF Route
  <2>3. \/ /\ lengthRetries' = [lengthRetries EXCEPT ![owner] = @ + 1]
           /\ ownerRetries' = ownerRetries
        \/ /\ ownerRetries' = [ownerRetries EXCEPT ![owner] = @ + 1]
           /\ lengthRetries' = lengthRetries
    BY <1>1 DEF Route
  <2> HIDE DEF owner
  <2>4. ownerRetries' \in [Stages -> Nat] /\ lengthRetries' \in [Stages -> Nat]
    <3>1. ownerRetries \in [Stages -> Nat] /\ lengthRetries \in [Stages -> Nat]
      BY DEF TypeOK
    <3>2. /\ [ownerRetries EXCEPT ![owner] = @ + 1] \in [Stages -> Nat]
          /\ [lengthRetries EXCEPT ![owner] = @ + 1] \in [Stages -> Nat]
      BY <2>1, <3>1, Incremented
    <3> QED
      BY <2>3, <3>1, <3>2
  <2>6. artifacts' \subseteq artifacts /\ Behavior \notin artifacts'
    BY <2>1, <2>2, StageFacts DEF Invalidated
  <2>5. snapshot' \in BOOLEAN /\ failure' \in SUBSET Violations
    BY <2>2 DEF TypeOK
  <2> QED
    BY <2>1, <2>2, <2>4, <2>5, <2>6
<1>2. CASE ~Retries(owner, violations)
  BY <1>2 DEF Route, TypeOK
<1> QED
  BY <1>1, <1>2

\* A record supersedes the artifacts of its own and of all later stages.
LEMMA ArtifactsAppend ==
  ASSUME records \in Seq(Records), NEW r \in Records, records' = Append(records, r)
  PROVE  /\ Below(r.stage) \subseteq ResumedArtifacts =>
              Below(r.stage) \subseteq ResumedArtifacts'
         /\ r.violations = {} => r.stage \in ResumedArtifacts'
         /\ records' # << >> /\ LastRecord' = r /\ Len(records') = Len(records) + 1
<1>1. /\ Len(records') = Len(records) + 1
      /\ \A i \in DOMAIN records : records'[i] = records[i]
      /\ records'[Len(records) + 1] = r
      /\ DOMAIN records' = DOMAIN records \cup {Len(records) + 1}
      /\ DOMAIN records = 1 .. Len(records) /\ Len(records) \in Nat
  OBVIOUS
<1>2. records' # << >> /\ LastRecord' = r
  BY <1>1 DEF LastRecord
<1>3. ASSUME Below(r.stage) \subseteq ResumedArtifacts, NEW s \in Below(r.stage)
      PROVE  s \in ResumedArtifacts'
  <2>1. s \in Stages /\ s < r.stage
    BY DEF Below
  <2>2. s \in ResumedArtifacts
    BY <1>3
  <2>3. PICK i \in OfStage(s) : /\ records[i].violations = {}
                                /\ \A j \in DOMAIN records : j > i => records[j].stage > s
    BY <2>2 DEF ResumedArtifacts
  <2>4. i \in DOMAIN records /\ records[i].stage = s
    BY DEF OfStage
  <2>5. i \in OfStage(s)' /\ records'[i].violations = {}
    BY <1>1, <2>3, <2>4 DEF OfStage
  <2>6. \A j \in DOMAIN records' : j > i => records'[j].stage > s
    BY <1>1, <2>1, <2>3, StageFacts DEF Records
  <2> QED
    BY <2>1, <2>5, <2>6 DEF ResumedArtifacts
<1>4. ASSUME r.violations = {} PROVE r.stage \in ResumedArtifacts'
  <2>1. r.stage \in Stages
    BY DEF Records
  <2>2. Len(records) + 1 \in OfStage(r.stage)' /\ records'[Len(records) + 1].violations = {}
    BY <1>1, <1>4 DEF OfStage
  <2>3. \A j \in DOMAIN records' : ~ (j > Len(records) + 1)
    BY <1>1
  <2> QED
    BY <2>1, <2>2, <2>3 DEF ResumedArtifacts
<1> QED
  BY <1>1, <1>2, <1>3, <1>4

--------------------------------------------------------------------------------
(***************************************************************************)
(* Lifecycle states.                                                       *)
(***************************************************************************)
LEMMA StatesTyped ==
  /\ \A n \in States \ {"generating"} : Lifecycle(n) \in LifecycleStates
  /\ \A s \in Stages : Generating(s) \in LifecycleStates
  BY DEF LifecycleStates

LEMMA StatesDiffer ==
  /\ Pending # Revalidating
  /\ Finalizing \notin {Pending, Revalidating, Admitting}
  /\ Admitting \notin {Pending, Revalidating}
  /\ Terminals \cap {Pending, Revalidating, Finalizing, Admitting} = {}
  /\ \A s \in Stages :
       Generating(s) \notin {Pending, Revalidating, Finalizing, Admitting} \cup Terminals
  /\ \A r, s \in Stages : Generating(r) = Generating(s) => r = s
  /\ Active = {Generating(s) : s \in Stages} \cup {Finalizing, Admitting}
  BY DEF Pending, Revalidating, Finalizing, Admitting, Terminals, Lifecycle, Generating, Active

\* What is said of the records stays true while they stay.
LEMMA SameRecords ==
  ASSUME records' = records
  PROVE  /\ ResumedArtifacts' = ResumedArtifacts /\ LastRecord' = LastRecord
         /\ VerdictsKept => VerdictsKept'
         /\ PrefixKept => PrefixKept'
  BY DEF ResumedArtifacts, OfStage, LastRecord, VerdictsKept, PrefixKept, Below

LEMMA SameTrace ==
  ASSUME records' = records, invoked' = invoked, edge' = edge, TraceShape
  PROVE  TraceShape'
  BY DEF TraceShape, OpenInvocation, LastIs, LastRecord

LEMMA InitEstablishes == Init => IInv
<1> SUFFICES ASSUME Init PROVE IInv
  OBVIOUS
<1>1. TypeOK
  <2>1. Pending \in LifecycleStates
    BY StatesTyped DEF States, Pending
  <2>2. Zero \in [Stages -> Nat] /\ Actor \in Stages
    BY StageFacts DEF Zero
  <2>3. /\ edge \in [index : Int, previous : LifecycleStates, current : LifecycleStates]
        /\ state \in LifecycleStates
    BY <2>1 DEF Init, Pending
  <2>4. records \in Seq(Records) /\ rows \in Seq(AttemptIds)
    BY DEF Init
  <2>5. decision \in [status : Statuses, code : Codes]
    BY DEF Init, Undecided, Statuses, Codes
  <2>6. /\ invoked \in Nat /\ pc \in PCs /\ index \in Int
        /\ artifacts \subseteq Stages
        /\ failure \subseteq Violations /\ code \in Codes /\ crashes \in Nat
    BY DEF Init, PCs, Codes
  <2>8. qualified \in BOOLEAN /\ snapshot \in BOOLEAN /\ suppress \in BOOLEAN
    BY DEF Init
  <2>7. /\ cursor \in Stages /\ invocations \in [Stages -> Nat]
        /\ ownerRetries \in [Stages -> Nat] /\ lengthRetries \in [Stages -> Nat]
    BY <2>2 DEF Init
  <2> QED
    BY <2>3, <2>4, <2>5, <2>6, <2>7, <2>8 DEF TypeOK
<1>2. MachineMatchesTrace
  BY DEF Init, MachineMatchesTrace
<1>3. TraceShape
  BY StatesDiffer DEF Init, TraceShape, Pending
<1>4. PrefixKept /\ VerdictsKept
  BY DEF Init, PrefixKept, VerdictsKept
<1>5. Control
  BY StatesDiffer DEF Init, Control, Blank, Pending, Terminals, OpenInvocation
<1> QED
  BY <1>1, <1>2, <1>3, <1>4, <1>5 DEF IInv

\* The first transition of an attempt.
LEMMA StartStep == IInv /\ Start => IInv'
<1> SUFFICES ASSUME IInv, Start PROVE IInv'
  OBVIOUS
<1>1. /\ pc = "start" /\ pc' = "revalidate"
      /\ edge' = [index |-> index, previous |-> state, current |-> Revalidating]
      /\ state' = Revalidating /\ index' = index + 1
      /\ UNCHANGED <<records, invoked, rows, decision, qualified, cursor, artifacts, snapshot,
                     suppress, counters, failure, code, crashes>>
  BY DEF Start, Transition, Revalidating
<1>2. TypeOK'
  <2>1. Revalidating \in LifecycleStates
    BY StatesTyped DEF States, Revalidating
  <2> QED
    BY <1>1, <2>1 DEF IInv, TypeOK, PCs, counters
<1>3. /\ records = << >> /\ invoked = 0 /\ cursor = Actor /\ artifacts = {}
  BY <1>1 DEF IInv, Control, Blank, TraceShape
<1>4. MachineMatchesTrace'
  BY <1>1 DEF MachineMatchesTrace
<1>5. TraceShape'
  BY <1>1, <1>3, StatesDiffer DEF TraceShape
<1>6. PrefixKept' /\ VerdictsKept'
  <2>1. records' = records
    BY <1>1
  <2> QED
    BY <2>1, SameRecords DEF IInv
<1>7. Control'
  BY <1>1, <1>3, StageFacts, StatesDiffer
  DEF Control, Ready, BoundaryAhead, Below
<1> QED
  BY <1>2, <1>4, <1>5, <1>6, <1>7 DEF IInv

\* Revalidation leaves the trace alone; a refusal is not an admission.
LEMMA RevalidateStep == IInv /\ Revalidate => IInv'
<1> SUFFICES ASSUME IInv, Revalidate PROVE IInv'
  OBVIOUS
<1> DEFINE refusal == [owner |-> NoOwner, retryable |-> FALSE, length |-> FALSE]
<1>1. /\ pc = "revalidate"
      /\ \/ pc' = "advance" /\ failure' = failure
         \/ pc' = "terminal" /\ failure' = {refusal}
      /\ UNCHANGED <<edge, records, invoked, rows, decision, qualified, state, index, cursor,
                     artifacts, snapshot, suppress, invocations, ownerRetries, lengthRetries,
                     code, crashes>>
  BY DEF Revalidate, durable, counters
<1>2. TypeOK'
  <2>1. refusal \in Violations
    BY DEF Violations
  <2>2. failure' \subseteq Violations /\ pc' \in PCs
    BY <1>1, <2>1 DEF IInv, TypeOK, PCs
  <2> HIDE DEF refusal
  <2> QED
    BY <1>1, <2>2 DEF IInv, TypeOK
<1>3. records' = records /\ invoked' = invoked /\ edge' = edge
  BY <1>1
<1>4. MachineMatchesTrace'
  BY <1>1 DEF IInv, MachineMatchesTrace
<1>5. TraceShape' /\ PrefixKept' /\ VerdictsKept'
  BY <1>3, SameTrace, SameRecords DEF IInv
<1>6. Control'
  <2>1. Ready /\ BoundaryAhead
    BY <1>1 DEF IInv, Control
  <2>2. ResumedArtifacts' = ResumedArtifacts /\ invoked = Len(records)
    BY <1>3, <2>1, SameRecords DEF Ready
  <2>3. Ready' /\ BoundaryAhead'
    BY <1>1, <2>1, <2>2 DEF Ready, BoundaryAhead, Below
  <2>4. ~OpenInvocation'
    BY <1>3, <2>2 DEF OpenInvocation, IInv, TypeOK
  <2> QED
    BY <1>1, <2>3, <2>4 DEF Control, Ready
<1> QED
  BY <1>2, <1>4, <1>5, <1>6 DEF IInv

\* A generating edge is recorded before the provider is called.
LEMMA BeginInvocationStep == IInv /\ BeginInvocation => IInv'
<1> SUFFICES ASSUME IInv, BeginInvocation PROVE IInv'
  OBVIOUS
<1>1. /\ pc = "advance" /\ pc' = "calling"
      /\ cursor = Behavior => snapshot /\ Behavior \notin artifacts
      /\ edge' = [index |-> index, previous |-> state, current |-> Generating(cursor)]
      /\ state' = Generating(cursor) /\ index' = index + 1
      /\ invoked' = invoked + 1
      /\ invocations' = [invocations EXCEPT ![cursor] = @ + 1]
      /\ UNCHANGED <<records, rows, decision, qualified, cursor, artifacts, snapshot, suppress,
                     ownerRetries, lengthRetries, failure, code, crashes>>
  BY DEF BeginInvocation, Transition, AtBehavior
<1>2. cursor \in Stages
  BY DEF IInv, TypeOK
<1>3. TypeOK'
  <2>1. Generating(cursor) \in LifecycleStates
    BY <1>2, StatesTyped
  <2>2. invocations \in [Stages -> Nat]
    BY DEF IInv, TypeOK
  <2>3. invocations' \in [Stages -> Nat]
    BY <1>1, <1>2, <2>2, Incremented
  <2>4. /\ edge' \in [index : Int, previous : LifecycleStates, current : LifecycleStates]
        /\ state' \in LifecycleStates /\ index' \in Int /\ invoked' \in Nat /\ pc' \in PCs
    BY <1>1, <2>1 DEF IInv, TypeOK, PCs
  <2> QED
    BY <1>1, <2>3, <2>4 DEF IInv, TypeOK
<1>4. MachineMatchesTrace'
  BY <1>1 DEF MachineMatchesTrace
<1>5. Ready
  BY <1>1 DEF IInv, Control
<1>6. OpenInvocation'
  BY <1>1, <1>5 DEF Ready, OpenInvocation
<1>7. TraceShape'
  BY <1>1, <1>2, <1>6, StatesDiffer DEF TraceShape
<1>8. ResumedArtifacts' = ResumedArtifacts /\ PrefixKept' /\ VerdictsKept'
  <2>1. records' = records
    BY <1>1
  <2> QED
    BY <2>1, SameRecords DEF IInv
<1>9. Control'
  <2>1. invocations'[cursor] >= 1
    BY <1>1, <1>2 DEF IInv, TypeOK
  <2> QED
    BY <2>1, <1>1, <1>2, <1>5, <1>6, <1>8, StatesDiffer DEF Control, Ready, Below
<1> QED
  BY <1>3, <1>4, <1>7, <1>8, <1>9 DEF IInv

\* The row of a call is no part of the trace.
LEMMA AppendCallRowStep == IInv /\ AppendCallRow => IInv'
<1> SUFFICES ASSUME IInv, AppendCallRow PROVE IInv'
  OBVIOUS
<1>1. /\ pc = "calling" /\ pc' = "recording"
      /\ rows' = Append(rows, Attempt)
      /\ UNCHANGED <<edge, records, invoked, decision, qualified, state, index, cursor,
                     artifacts, snapshot, suppress, invocations, ownerRetries, lengthRetries,
                     failure, code, crashes>>
  BY DEF AppendCallRow, local, counters
<1>2. /\ edge.current = Generating(cursor) /\ OpenInvocation /\ invocations[cursor] >= 1
      /\ Below(cursor) \subseteq ResumedArtifacts
      /\ cursor = Behavior => snapshot
      /\ Behavior \notin artifacts
  BY <1>1 DEF IInv, Control
<1>3. records' = records /\ invoked' = invoked /\ edge' = edge
  BY <1>1
<1>4. ResumedArtifacts' = ResumedArtifacts /\ TraceShape' /\ PrefixKept' /\ VerdictsKept'
  BY <1>3, SameTrace, SameRecords DEF IInv
<1>5. MachineMatchesTrace'
  BY <1>1 DEF IInv, MachineMatchesTrace
<1>6. Control'
  BY <1>1, <1>2, <1>4 DEF Control, OpenInvocation, Below
<1>7. TypeOK'
  <2>1. Attempt \in AttemptIds
    <3>1. cursor \in Stages /\ invocations[cursor] \in Nat
      BY DEF IInv, TypeOK
    <3> QED
      BY <1>2, <3>1 DEF Attempt, AttemptIds
  <2>2. rows' \in Seq(AttemptIds) /\ pc' \in PCs
    BY <1>1, <2>1 DEF IInv, TypeOK, PCs
  <2> QED
    BY <1>1, <2>2 DEF IInv, TypeOK
<1> QED
  BY <1>4, <1>5, <1>6, <1>7 DEF IInv

\* A failure of a stage call is owned by that stage, and no verdict goes with it.
LEMMA OutcomeFacts ==
  ASSUME cursor \in Stages, NEW violations \in StageOutcomes, NEW verdict \in Verdicts(violations)
  PROVE  /\ violations \in SUBSET Violations /\ verdict \in SUBSET Violations
         /\ \A v \in violations : v.owner = cursor
         /\ cursor = Tree => verdict \in PrebehaviorReports
<1>1. \A retryable, length \in BOOLEAN :
        /\ StageFailure(retryable, length) \in SUBSET Violations
        /\ \A v \in StageFailure(retryable, length) : v.owner = cursor
  BY DEF StageFailure, Violations
<1>2. violations \in SUBSET Violations /\ \A v \in violations : v.owner = cursor
  BY <1>1 DEF StageOutcomes
<1>3. /\ \A r \in PrebehaviorReports \cup AdmissionReports : r \in SUBSET Violations
      /\ {} \in PrebehaviorReports
  BY ReportsAssumption
<1>4. verdict \in SUBSET Violations
  BY <1>3 DEF Verdicts
<1>5. cursor = Tree => verdict \in PrebehaviorReports
  BY <1>3 DEF Verdicts
<1> QED
  BY <1>2, <1>4, <1>5

\* A stage record becomes durable, and the machine goes on or back.
LEMMA RecordStageStep == IInv /\ RecordStage => IInv'
<1> SUFFICES ASSUME IInv, RecordStage PROVE IInv'
  OBVIOUS
<1>1. /\ pc = "recording"
      /\ UNCHANGED <<edge, invoked, rows, decision, qualified, state, index, suppress,
                     invocations, code, crashes>>
  BY DEF RecordStage
<1>2. PICK violations \in StageOutcomes : \E verdict \in Verdicts(violations) :
        /\ records' = Append(records,
             [stage |-> cursor, invocation_index |-> Attempt[2],
              owner_retry_index |-> ownerRetries[cursor],
              violations |-> violations, verdict |-> verdict])
        /\ \/ violations # {} /\ Route(violations)
           \/ /\ violations = {}
              /\ artifacts' = artifacts \cup {cursor}
              /\ cursor' = IF AtBehavior THEN cursor ELSE cursor + 1
              /\ pc' = "advance"
              /\ UNCHANGED <<ownerRetries, lengthRetries, snapshot, failure>>
  BY DEF RecordStage
<1>3. PICK verdict \in Verdicts(violations) :
        records' = Append(records,
             [stage |-> cursor, invocation_index |-> Attempt[2],
              owner_retry_index |-> ownerRetries[cursor],
              violations |-> violations, verdict |-> verdict])
  BY <1>2
<1> DEFINE r == [stage |-> cursor, invocation_index |-> Attempt[2],
                 owner_retry_index |-> ownerRetries[cursor],
                 violations |-> violations, verdict |-> verdict]
<1>4. /\ edge.current = Generating(cursor) /\ OpenInvocation /\ invocations[cursor] >= 1
      /\ Below(cursor) \subseteq ResumedArtifacts
      /\ cursor = Behavior => snapshot
      /\ Behavior \notin artifacts
      /\ cursor \in Stages /\ artifacts \subseteq Stages
  BY <1>1 DEF IInv, Control, TypeOK
<1>5. /\ violations \in SUBSET Violations /\ verdict \in SUBSET Violations
      /\ \A v \in violations : v.owner = cursor
      /\ cursor = Tree => verdict \in PrebehaviorReports
  BY <1>3, <1>4, OutcomeFacts
<1>6. r \in Records
  <2>1. ownerRetries[cursor] \in Nat /\ Attempt[2] \in Nat
    BY <1>4 DEF IInv, TypeOK, Attempt
  <2> QED
    BY <1>4, <1>5, <2>1 DEF Records
<1>7. records \in Seq(Records) /\ records' = Append(records, r)
  BY <1>3 DEF IInv, TypeOK
<1> HIDE DEF r
<1>8. /\ r.stage = cursor /\ r.violations = violations /\ r.verdict = verdict
  BY DEF r
<1>9. /\ Below(cursor) \subseteq ResumedArtifacts'
      /\ violations = {} => cursor \in ResumedArtifacts'
      /\ records' # << >> /\ LastRecord'.stage = cursor /\ Len(records') = Len(records) + 1
  BY <1>4, <1>6, <1>7, <1>8, ArtifactsAppend
<1>10. invoked' = Len(records')
  BY <1>1, <1>4, <1>9 DEF OpenInvocation
<1>11. TraceShape'
  <2>1. PICK s \in Stages : s = cursor
    BY <1>4
  <2>2. LastIs(s)' /\ edge'.current = Generating(s)
    BY <2>1, <1>1, <1>4, <1>9, <1>10 DEF LastIs
  <2> QED
    BY <2>2, StatesDiffer DEF TraceShape
<1>12. PrefixKept'
  BY <1>9 DEF PrefixKept, Below
<1>13. VerdictsKept'
  <2> SUFFICES ASSUME NEW i \in DOMAIN records', records'[i].stage = Tree
               PROVE  records'[i].verdict \in PrebehaviorReports
    BY DEF VerdictsKept
  <2>1. CASE i \in DOMAIN records
    <3>1. records'[i] = records[i]
      BY <1>7, <2>1
    <3> QED
      BY <2>1, <3>1 DEF IInv, VerdictsKept
  <2>2. CASE i \notin DOMAIN records
    <3>1. records'[i] = r
      BY <1>7, <2>2
    <3> QED
      BY <3>1, <1>5, <1>8
  <2> QED
    BY <2>1, <2>2
<1>14. MachineMatchesTrace'
  BY <1>1 DEF IInv, MachineMatchesTrace
<1>15. CASE violations # {} /\ Route(violations)
  <2>1. /\ ownerRetries' \in [Stages -> Nat] /\ lengthRetries' \in [Stages -> Nat]
        /\ cursor' \in Stages /\ artifacts' \subseteq artifacts
        /\ snapshot' \in BOOLEAN /\ failure' \in SUBSET Violations
        /\ \/ /\ pc' = "advance" /\ failure' = failure
              /\ \E v \in violations : v.owner = cursor'
              /\ Behavior \notin artifacts'
              /\ snapshot' = (snapshot /\ cursor' = Behavior)
           \/ /\ pc' = "terminal" /\ failure' = violations
              /\ artifacts' = artifacts /\ snapshot' = snapshot /\ cursor' = cursor
    BY <1>5, <1>15, RouteFacts DEF IInv
  <2>2. records' \in Seq(Records) /\ pc' \in PCs
    BY <1>6, <1>7, <2>1 DEF PCs
  <2>3. TypeOK'
    BY <1>1, <2>1, <2>2 DEF IInv, TypeOK
  <2>4. CASE pc' = "advance"
    <3>1. cursor' = cursor /\ Behavior \notin artifacts' /\ (cursor = Behavior => snapshot')
      BY <1>4, <1>5, <2>1, <2>4
    <3>2. Ready' /\ BoundaryAhead'
      BY <1>1, <1>4, <1>9, <1>10, <3>1, StatesDiffer DEF Ready, BoundaryAhead, Below
    <3> QED
      BY <1>11, <1>12, <1>13, <1>14, <2>3, <2>4, <3>2 DEF IInv, Control
  <2>5. CASE pc' = "terminal"
    <3>1. ~OpenInvocation' /\ failure' # {} /\ edge'.current \in Active
      BY <1>1, <1>4, <1>7, <1>10, <1>15, <2>1, <2>2, <2>5, StatesDiffer DEF OpenInvocation
    <3> QED
      BY <1>11, <1>12, <1>13, <1>14, <2>3, <2>5, <3>1 DEF IInv, Control
  <2> QED
    BY <2>1, <2>4, <2>5
<1>16. CASE /\ violations = {}
            /\ artifacts' = artifacts \cup {cursor}
            /\ cursor' = IF AtBehavior THEN cursor ELSE cursor + 1
            /\ pc' = "advance"
            /\ UNCHANGED <<ownerRetries, lengthRetries, snapshot, failure>>
  <2>1. /\ cursor' = IF cursor = Behavior THEN cursor ELSE cursor + 1
        /\ artifacts' = artifacts \cup {cursor} /\ pc' = "advance"
        /\ UNCHANGED <<ownerRetries, lengthRetries, snapshot, failure>>
    BY <1>16 DEF AtBehavior
  <2>2. cursor' \in Stages /\ artifacts' \subseteq Stages
    BY <1>4, <2>1, StageFacts
  <2>3. records' \in Seq(Records) /\ pc' \in PCs
    BY <1>6, <1>7, <2>1 DEF PCs
  <2>4. TypeOK'
    BY <1>1, <2>1, <2>2, <2>3 DEF IInv, TypeOK
  <2>5. Below(cursor') \subseteq ResumedArtifacts'
    <3>1. Below(cursor') \subseteq Below(cursor) \cup {cursor}
      BY <1>4, <2>1, StageFacts DEF Below
    <3> QED
      BY <1>9, <1>16, <3>1
  <2>6. Ready'
    <3>1. Behavior \in artifacts' => cursor = Behavior /\ cursor' = Behavior
      BY <1>4, <2>1
    <3>2. edge'.current = Generating(cursor)
      BY <1>1, <1>4
    <3>3. Below(cursor)' \subseteq ResumedArtifacts'
      BY <2>5 DEF Below
    <3> QED
      BY <1>4, <1>10, <2>1, <3>1, <3>2, <3>3, StatesDiffer DEF Ready
  <2>7. BoundaryAhead'
    <3>1. cursor' = Behavior /\ ~snapshot' => cursor = Tree
      BY <1>4, <2>1, StageFacts
    <3> QED
      BY <1>1, <1>4, <3>1 DEF BoundaryAhead
  <2> QED
    BY <1>11, <1>12, <1>13, <1>14, <2>1, <2>4, <2>6, <2>7 DEF IInv, Control
<1> QED
  BY <1>2, <1>15, <1>16

\* The boundary in front of behavior: recorded after the tree, or already there.
LEMMA EnterFinalizingStep == IInv /\ EnterFinalizing => IInv'
<1> SUFFICES ASSUME IInv, EnterFinalizing PROVE IInv'
  OBVIOUS
<1>1. /\ pc = "advance" /\ pc' = "finalizing" /\ cursor = Behavior /\ ~snapshot
      /\ ~suppress'
      /\ \/ suppress /\ UNCHANGED <<edge, state, index>>
         \/ /\ ~suppress
            /\ edge' = [index |-> index, previous |-> state, current |-> Finalizing]
            /\ state' = Finalizing /\ index' = index + 1
      /\ UNCHANGED <<records, invoked, rows, decision, qualified, cursor, artifacts, snapshot,
                     invocations, ownerRetries, lengthRetries, failure, code, crashes>>
  BY DEF EnterFinalizing, Transition, AtBehavior, Finalizing, counters
<1>2. Ready /\ BoundaryAhead
  BY <1>1 DEF IInv, Control
<1>3. suppress' \in BOOLEAN
  BY DEF EnterFinalizing
<1>4. TypeOK'
  <2>1. Finalizing \in LifecycleStates
    BY StatesTyped DEF States, Finalizing
  <2>2. /\ edge' \in [index : Int, previous : LifecycleStates, current : LifecycleStates]
        /\ state' \in LifecycleStates /\ index' \in Int /\ pc' \in PCs
    BY <1>1, <2>1 DEF IInv, TypeOK, PCs
  <2> QED
    BY <1>1, <1>3, <2>2 DEF IInv, TypeOK
<1>5. MachineMatchesTrace'
  BY <1>1 DEF IInv, MachineMatchesTrace
<1>6. ResumedArtifacts' = ResumedArtifacts /\ LastRecord' = LastRecord /\ PrefixKept' /\ VerdictsKept'
  <2>1. records' = records
    BY <1>1
  <2> QED
    BY <2>1, SameRecords DEF IInv
<1>7. CASE edge' = edge
  <2>1. edge.current \in Active
    BY <1>1, <1>2, StageFacts DEF Ready
  <2>2. TraceShape'
    BY <1>1, <1>7, SameTrace DEF IInv
  <2>3. Ready'
    BY <1>1, <1>2, <1>6, <1>7 DEF Ready, Below
  <2> QED
    BY <1>1, <1>4, <1>5, <1>6, <1>7, <2>1, <2>2, <2>3 DEF IInv, Control
<1>8. CASE /\ ~suppress
           /\ edge' = [index |-> index, previous |-> state, current |-> Finalizing]
  <2>1. edge.current = Generating(Tree)
    BY <1>1, <1>2, <1>8 DEF BoundaryAhead
  <2>2. LastIs(Tree)
    <3>1. ~OpenInvocation
      BY <1>2 DEF OpenInvocation, Ready, IInv, TypeOK
    <3> QED
      BY <2>1, <3>1, StageFacts DEF IInv, TraceShape
  <2>3. LastIs(Tree)'
    BY <1>1, <1>6, <2>2 DEF LastIs
  <2>4. TraceShape'
    BY <1>8, <2>3, StatesDiffer DEF TraceShape
  <2>5. Behavior \notin artifacts
    BY <1>2, <2>1, StageFacts, StatesDiffer DEF Ready
  <2>6. Ready' /\ edge'.current \in Active
    BY <1>1, <1>2, <1>6, <1>8, <2>5, StatesDiffer DEF Ready, Below
  <2> QED
    BY <1>1, <1>4, <1>5, <1>6, <2>4, <2>6 DEF IInv, Control
<1> QED
  BY <1>1, <1>7, <1>8

\* The report about a stage that has a record is what its last record says.
LEMMA LastOfStage ==
  ASSUME records \in Seq(Records), NEW s \in Stages, OfStage(s) # {}
  PROVE  \E i \in DOMAIN records : records[i].stage = s /\ LastOf(s) = records[i]
<1>1. OfStage(s) \in SUBSET Nat /\ \A x \in OfStage(s) : x <= Len(records)
  BY DEF OfStage
<1>2. Max(OfStage(s)) \in OfStage(s)
  BY <1>1, MaxOf
<1>3. LastOf(s) = records[Max(OfStage(s))]
  BY DEF LastOf, OfStage
<1> QED
  BY <1>2, <1>3 DEF OfStage

\* A check at behavior with objections sends the machine back or ends it.
LEMMA RouteAtBehavior ==
  ASSUME IInv, Ready, cursor = Behavior, edge.current \in Active,
         NEW report \in SUBSET Violations, report # {}, Route(report),
         (\A v \in report : v.owner # Behavior) \/ snapshot,
         UNCHANGED <<durable, qualified, state, index, suppress, invocations, code, crashes>>
  PROVE  IInv'
<1>1. UNCHANGED <<edge, records, invoked, rows, decision, qualified, state, index, suppress,
                  invocations, code, crashes>>
  BY DEF durable
<1>2. /\ ownerRetries' \in [Stages -> Nat] /\ lengthRetries' \in [Stages -> Nat]
      /\ cursor' \in Stages /\ artifacts' \subseteq artifacts
      /\ snapshot' \in BOOLEAN /\ failure' \in SUBSET Violations
      /\ \/ /\ pc' = "advance" /\ failure' = failure
            /\ \E v \in report : v.owner = cursor'
            /\ Behavior \notin artifacts'
            /\ snapshot' = (snapshot /\ cursor' = Behavior)
         \/ /\ pc' = "terminal" /\ failure' = report
            /\ artifacts' = artifacts /\ snapshot' = snapshot /\ cursor' = cursor
  BY RouteFacts DEF IInv
<1>3. pc' \in PCs
  BY <1>2 DEF PCs
<1>4. TypeOK'
  BY <1>1, <1>2, <1>3 DEF IInv, TypeOK
<1>5. MachineMatchesTrace'
  <2>1. pc # "down"
    BY StatesDiffer, StageFacts DEF IInv, Control, Blank
  <2> QED
    BY <1>1, <2>1 DEF IInv, MachineMatchesTrace
<1>6. records' = records /\ invoked' = invoked /\ edge' = edge
  BY <1>1
<1>7. ResumedArtifacts' = ResumedArtifacts /\ TraceShape' /\ PrefixKept' /\ VerdictsKept'
  BY <1>6, SameTrace, SameRecords DEF IInv
<1>8. ~OpenInvocation'
  BY <1>6 DEF OpenInvocation, Ready, IInv, TypeOK
<1>9. CASE pc' = "advance"
  <2>1. Below(cursor') \subseteq Below(cursor)
    <3>1. \A s \in Stages : s < cursor' => s < Behavior
      <4> TAKE s \in Stages
      <4>1. s \in Nat /\ cursor' \in Nat /\ Behavior \in Nat /\ cursor' <= Behavior
        BY <1>2, StageFacts
      <4> QED
        BY <4>1
    <3> QED
      BY <3>1 DEF Below
  <2>2. Below(cursor)' \subseteq ResumedArtifacts'
    BY <1>7, <2>1 DEF Below, Ready
  <2>3. Behavior \notin artifacts' /\ (cursor' = Behavior => snapshot')
    BY <1>2, <1>9
  <2>4. edge.current # Revalidating
    BY StatesDiffer
  <2>5. Ready' /\ BoundaryAhead'
    BY <1>6, <2>2, <2>3, <2>4 DEF Ready, BoundaryAhead
  <2> QED
    BY <1>4, <1>5, <1>7, <1>9, <2>5 DEF IInv, Control
<1>10. CASE pc' = "terminal"
  BY <1>2, <1>4, <1>5, <1>6, <1>7, <1>8, <1>10 DEF IInv, Control
<1> QED
  BY <1>2, <1>9, <1>10

\* The finalizer reports on the tree.
LEMMA FinalizePrebehaviorStep == IInv /\ FinalizePrebehavior => IInv'
<1> SUFFICES ASSUME IInv, FinalizePrebehavior PROVE IInv'
  OBVIOUS
<1>1. /\ pc = "finalizing"
      /\ UNCHANGED <<durable, qualified, state, index, suppress, invocations, code, crashes>>
  BY DEF FinalizePrebehavior
<1>2. Ready /\ cursor = Behavior /\ edge.current \in Active
  BY <1>1 DEF IInv, Control
<1>3. PrebehaviorReport \in PrebehaviorReports
  <2>1. Tree \in ResumedArtifacts
    BY <1>2, StageFacts DEF Ready, Below
  <2>2. OfStage(Tree) # {}
    BY <2>1 DEF ResumedArtifacts
  <2>3. \E i \in DOMAIN records : records[i].stage = Tree /\ LastOf(Tree) = records[i]
    BY <2>2, LastOfStage, StageFacts DEF IInv, TypeOK
  <2> QED
    BY <2>3 DEF PrebehaviorReport, IInv, VerdictsKept
<1>4. /\ PrebehaviorReport \in SUBSET Violations
      /\ \A v \in PrebehaviorReport : v.owner # Behavior
  BY <1>3, ReportsAssumption
<1>5. CASE PrebehaviorReport # {}
  <2>1. Route(PrebehaviorReport)
    BY <1>5 DEF FinalizePrebehavior
  <2> QED
    BY <1>1, <1>2, <1>4, <1>5, <2>1, RouteAtBehavior
<1>6. CASE PrebehaviorReport = {}
  <2>1. /\ snapshot' = TRUE /\ pc' = "advance"
        /\ UNCHANGED <<edge, records, invoked, rows, decision, qualified, state, index, cursor,
                       artifacts, suppress, invocations, ownerRetries, lengthRetries, failure,
                       code, crashes>>
    BY <1>1, <1>6 DEF FinalizePrebehavior, durable
  <2>2. TypeOK'
    BY <2>1 DEF IInv, TypeOK, PCs
  <2>3. MachineMatchesTrace'
    BY <1>1, <2>1 DEF IInv, MachineMatchesTrace
  <2>4. records' = records /\ invoked' = invoked /\ edge' = edge
    BY <2>1
  <2>5. ResumedArtifacts' = ResumedArtifacts /\ TraceShape' /\ PrefixKept' /\ VerdictsKept'
    BY <2>4, SameTrace, SameRecords DEF IInv
  <2>6. Ready' /\ BoundaryAhead'
    BY <1>2, <2>1, <2>5 DEF Ready, BoundaryAhead, Below
  <2> QED
    BY <2>1, <2>2, <2>3, <2>5, <2>6 DEF IInv, Control
<1> QED
  BY <1>5, <1>6

\* The boundary in front of admission, entered from behavior or already there.
LEMMA EnterAdmittingStep == IInv /\ EnterAdmitting => IInv'
<1> SUFFICES ASSUME IInv, EnterAdmitting PROVE IInv'
  OBVIOUS
<1>1. /\ pc = "advance" /\ pc' = "admitting"
      /\ cursor = Behavior /\ snapshot /\ Behavior \in artifacts
      /\ \/ state = Admitting /\ UNCHANGED <<edge, state, index>>
         \/ /\ state # Admitting
            /\ edge' = [index |-> index, previous |-> state, current |-> Admitting]
            /\ state' = Admitting /\ index' = index + 1
      /\ UNCHANGED <<records, invoked, rows, decision, qualified, cursor, artifacts, snapshot,
                     suppress, invocations, ownerRetries, lengthRetries, failure, code, crashes>>
  BY DEF EnterAdmitting, Transition, BehaviorReady, AtBehavior, Admitting, counters
<1>2. Ready /\ state = edge.current
  BY <1>1 DEF IInv, Control, MachineMatchesTrace
<1>3. TypeOK'
  <2>1. Admitting \in LifecycleStates
    BY StatesTyped DEF States, Admitting
  <2>2. /\ edge' \in [index : Int, previous : LifecycleStates, current : LifecycleStates]
        /\ state' \in LifecycleStates /\ index' \in Int /\ pc' \in PCs
    BY <1>1, <2>1 DEF IInv, TypeOK, PCs
  <2> QED
    BY <1>1, <2>2 DEF IInv, TypeOK
<1>4. MachineMatchesTrace'
  BY <1>1 DEF IInv, MachineMatchesTrace
<1>5. ResumedArtifacts' = ResumedArtifacts /\ LastRecord' = LastRecord /\ PrefixKept' /\ VerdictsKept'
  <2>1. records' = records
    BY <1>1
  <2> QED
    BY <2>1, SameRecords DEF IInv
<1>6. edge'.current = Admitting
  BY <1>1, <1>2
<1>7. LastIs(Behavior)
  <2>1. ~OpenInvocation
    BY <1>2 DEF OpenInvocation, Ready, IInv, TypeOK
  <2>2. edge.current \in {Generating(Behavior), Admitting}
    BY <1>1, <1>2 DEF Ready
  <2> QED
    BY <2>1, <2>2, StageFacts DEF IInv, TraceShape
<1>8. TraceShape'
  <2>1. LastIs(Behavior)'
    BY <1>1, <1>5, <1>7 DEF LastIs
  <2> QED
    BY <1>6, <2>1, StatesDiffer DEF TraceShape
<1>9. Ready'
  BY <1>1, <1>2, <1>5, <1>6, StatesDiffer DEF Ready, Below
<1> QED
  BY <1>1, <1>3, <1>4, <1>5, <1>6, <1>8, <1>9 DEF IInv, Control

\* Admission reports on behavior; without an objection the attempt ends well.
LEMMA AdmitStep == IInv /\ Admit => IInv'
<1> SUFFICES ASSUME IInv, Admit PROVE IInv'
  OBVIOUS
<1>1. /\ pc = "admitting"
      /\ UNCHANGED <<durable, qualified, state, index, suppress, invocations, code, crashes>>
  BY DEF Admit
<1>2. Ready /\ cursor = Behavior /\ snapshot /\ edge.current = Admitting
  BY <1>1 DEF IInv, Control
<1>3. edge.current \in Active
  BY <1>2, StatesDiffer
<1>4. AdmissionReport \in SUBSET Violations
  <2>1. LastIs(Behavior) /\ records \in Seq(Records)
    BY <1>2 DEF IInv, TraceShape, TypeOK
  <2>2. Len(records) \in OfStage(Behavior)
    BY <2>1 DEF LastIs, LastRecord, OfStage
  <2>3. PICK i \in DOMAIN records : LastOf(Behavior) = records[i]
    BY <2>1, <2>2, LastOfStage, StageFacts
  <2>4. records[i] \in Records
    BY <2>1
  <2> QED
    BY <2>3, <2>4 DEF AdmissionReport, Records
<1>5. CASE AdmissionReport # {}
  <2>1. Route(AdmissionReport)
    BY <1>5 DEF Admit
  <2> QED
    BY <1>1, <1>2, <1>3, <1>4, <1>5, <2>1, RouteAtBehavior
<1>6. CASE AdmissionReport = {}
  <2>1. /\ failure' = {} /\ pc' = "terminal"
        /\ UNCHANGED <<edge, records, invoked, rows, decision, qualified, state, index, cursor,
                       artifacts, snapshot, suppress, invocations, ownerRetries, lengthRetries,
                       code, crashes>>
    BY <1>1, <1>6 DEF Admit, durable
  <2>2. TypeOK'
    BY <2>1 DEF IInv, TypeOK, PCs
  <2>3. MachineMatchesTrace'
    BY <1>1, <2>1 DEF IInv, MachineMatchesTrace
  <2>4. records' = records /\ invoked' = invoked /\ edge' = edge
    BY <2>1
  <2>5. TraceShape' /\ PrefixKept' /\ VerdictsKept'
    BY <2>4, SameTrace, SameRecords DEF IInv
  <2>6. ~OpenInvocation'
    BY <1>2, <2>4 DEF OpenInvocation, Ready, IInv, TypeOK
  <2> QED
    BY <1>2, <1>3, <2>1, <2>2, <2>3, <2>5, <2>6 DEF IInv, Control
<1> QED
  BY <1>5, <1>6

\* The terminal edge and the decision.
LEMMA RecordTerminalStep == IInv /\ RecordTerminal => IInv'
<1> SUFFICES ASSUME IInv, RecordTerminal PROVE IInv'
  OBVIOUS
<1>1. /\ pc = "terminal" /\ pc' = "done"
      /\ edge' = [index |-> edge.index + 1, previous |-> edge.current, current |-> TerminalState]
      /\ decision' = [status |-> TerminalStatus,
                      code |-> IF code = "none" THEN "lifecycle" ELSE code]
      /\ state' = TerminalState /\ index' = index + 1
      /\ UNCHANGED <<records, invoked, rows, qualified, cursor, artifacts, snapshot, suppress,
                     invocations, ownerRetries, lengthRetries, failure, code, crashes>>
  BY DEF RecordTerminal, counters
<1>2. TerminalState \in Terminals /\ TerminalState \in LifecycleStates
  BY StatesTyped DEF TerminalState, Terminals, States
<1>3. TypeOK'
  <2>1. decision' \in [status : Statuses, code : Codes]
    <3>1. TerminalStatus \in Statuses
      BY DEF TerminalStatus, Statuses
    <3>2. (IF code = "none" THEN "lifecycle" ELSE code) \in Codes
      BY DEF IInv, TypeOK, Codes
    <3> QED
      BY <1>1, <3>1, <3>2
  <2>2. /\ edge' \in [index : Int, previous : LifecycleStates, current : LifecycleStates]
        /\ state' \in LifecycleStates /\ index' \in Int /\ pc' \in PCs
    BY <1>1, <1>2 DEF IInv, TypeOK, PCs
  <2> QED
    BY <1>1, <2>1, <2>2 DEF IInv, TypeOK
<1>4. MachineMatchesTrace'
  BY <1>1 DEF IInv, MachineMatchesTrace, TypeOK
<1>5. TraceShape'
  BY <1>1, <1>2, StatesDiffer DEF TraceShape
<1>6. PrefixKept' /\ VerdictsKept'
  <2>1. records' = records
    BY <1>1
  <2> QED
    BY <2>1, SameRecords DEF IInv
<1>7. Control'
  BY <1>1 DEF IInv, Control, OpenInvocation
<1> QED
  BY <1>3, <1>4, <1>5, <1>6, <1>7 DEF IInv

\* A crash takes the memory and leaves the trace.
LEMMA CrashStep == IInv /\ Crash => IInv'
<1> SUFFICES ASSUME IInv, Crash PROVE IInv'
  OBVIOUS
<1>1. /\ pc \notin {"down", "done"} /\ pc' = "down"
      /\ crashes' = crashes + 1
      /\ state' = Pending /\ index' = 0 /\ cursor' = Actor /\ artifacts' = {}
      /\ ~snapshot' /\ ~suppress'
      /\ failure' = {} /\ code' = "none"
      /\ UNCHANGED <<edge, records, invoked, rows, decision, qualified>>
  BY DEF Crash, durable, Pending
<1>2. /\ invocations' = Zero /\ ownerRetries' = Zero /\ lengthRetries' = Zero
      /\ snapshot' \in BOOLEAN /\ suppress' \in BOOLEAN
  BY DEF Crash
<1>3. TypeOK'
  <2>1. Zero \in [Stages -> Nat] /\ Actor \in Stages /\ Pending \in LifecycleStates
    BY StageFacts, StatesTyped DEF Zero, States, Pending
  <2>2. pc' \in PCs /\ code' \in Codes /\ index' \in Int /\ crashes' \in Nat
    BY <1>1 DEF IInv, TypeOK, PCs, Codes
  <2> QED
    BY <1>1, <1>2, <2>1, <2>2 DEF IInv, TypeOK
<1>4. MachineMatchesTrace'
  BY <1>1 DEF MachineMatchesTrace
<1>5. records' = records /\ invoked' = invoked /\ edge' = edge
  BY <1>1
<1>6. TraceShape' /\ PrefixKept' /\ VerdictsKept'
  BY <1>5, SameTrace, SameRecords DEF IInv
<1>7. edge.current \notin Terminals
  BY <1>1, StatesDiffer DEF IInv, TypeOK, PCs, Control, Ready
<1> QED
  BY <1>1, <1>3, <1>4, <1>6, <1>7 DEF IInv, Control, Blank, Terminals

LEMMA StutterStep == IInv /\ UNCHANGED vars => IInv'
<1> SUFFICES ASSUME IInv, UNCHANGED vars PROVE IInv'
  OBVIOUS
<1>1. UNCHANGED <<edge, records, invoked, rows, decision, qualified, pc, state, index, cursor,
                  artifacts, snapshot, suppress, invocations, ownerRetries, lengthRetries,
                  failure, code, crashes>>
  BY DEF vars, durable, local, counters
<1>2. TypeOK' /\ MachineMatchesTrace'
  BY <1>1 DEF IInv, TypeOK, MachineMatchesTrace
<1>3. records' = records /\ invoked' = invoked /\ edge' = edge
  BY <1>1
<1>4. ResumedArtifacts' = ResumedArtifacts /\ TraceShape' /\ PrefixKept' /\ VerdictsKept'
  BY <1>3, SameTrace, SameRecords DEF IInv
<1>5. Control'
  BY <1>1, <1>4 DEF IInv, Control, Ready, BoundaryAhead, Below, Blank, OpenInvocation
<1> QED
  BY <1>2, <1>4, <1>5 DEF IInv

--------------------------------------------------------------------------------
(***************************************************************************)
(* Resume: everything from the trace.                                      *)
(***************************************************************************)

\* The counters a resume derives are numbers.
LEMMA ResumedCounters ==
  ASSUME records \in Seq(Records)
  PROVE  /\ [s \in Stages |-> ResumedInvocations(s)] \in [Stages -> Nat]
         /\ [s \in Stages |-> ResumedOwnerRetries(s)] \in [Stages -> Nat]
         /\ [s \in Stages |-> ResumedLengthRetries(s)] \in [Stages -> Nat]
<1>1. Len(records) \in Nat /\ DOMAIN records = 1 .. Len(records)
  OBVIOUS
<1>2. ASSUME NEW s \in Stages PROVE ResumedInvocations(s) \in Nat
  <2>1. IsFiniteSet(1 .. Len(records))
    BY <1>1, FS_Interval
  <2>2. OfStage(s) \in SUBSET (1 .. Len(records))
    BY <1>1 DEF OfStage
  <2>3. IsFiniteSet(OfStage(s))
    BY <2>1, <2>2, FS_Subset
  <2> QED
    BY <2>3, FS_CardinalityType DEF ResumedInvocations
<1>3. ASSUME NEW s \in Stages PROVE ResumedOwnerRetries(s) \in Nat
  <2> DEFINE credit(i) == records[i].owner_retry_index
                            + IF i = Len(records) /\ LastViolated THEN 1 ELSE 0
             f == [i \in 1 .. Len(records) |-> credit(i)]
             credits == {credit(i) : i \in OfStage(s)} \cup {0}
  <2>1. \A i \in 1 .. Len(records) : credit(i) \in Nat
    <3> TAKE i \in 1 .. Len(records)
    <3>1. records[i] \in Records
      BY <1>1
    <3>2. records[i].owner_retry_index \in Nat
      BY <3>1 DEF Records
    <3> QED
      BY <3>2
  <2> HIDE DEF credit
  <2>2. f \in [1 .. Len(records) -> Nat]
    BY <2>1
  <2>3. PICK b \in Nat : \A i \in 1 .. Len(records) : f[i] <= b
    BY <1>1, <2>2, Bounded
  <2>4. OfStage(s) \subseteq 1 .. Len(records)
    BY <1>1 DEF OfStage
  <2>5. credits \in SUBSET Nat /\ credits # {} /\ \A x \in credits : x <= b
    BY <2>1, <2>3, <2>4
  <2>6. Max(credits) \in credits
    BY <2>5, MaxOf
  <2>7. ResumedOwnerRetries(s) = Max(credits)
    BY DEF ResumedOwnerRetries, credit
  <2> QED
    BY <2>5, <2>6, <2>7
<1>4. ASSUME NEW s \in Stages PROVE ResumedLengthRetries(s) \in Nat
  BY DEF ResumedLengthRetries
<1> QED
  BY <1>2, <1>3, <1>4

LEMMA LastRecordType ==
  ASSUME records \in Seq(Records), records # << >>
  PROVE  /\ Len(records) \in DOMAIN records /\ LastRecord = records[Len(records)]
         /\ LastRecord.stage \in Stages
<1>1. Len(records) \in DOMAIN records /\ LastRecord = records[Len(records)]
  BY DEF LastRecord
<1>2. LastRecord \in Records
  BY <1>1
<1> QED
  BY <1>1, <1>2 DEF Records

\* The last record supersedes the artifacts of all later stages.
LEMMA Superseded ==
  ASSUME records \in Seq(Records), records # << >>, NEW s \in Stages, s > LastRecord.stage
  PROVE  s \notin ResumedArtifacts
<1>1. /\ Len(records) \in DOMAIN records /\ LastRecord = records[Len(records)]
      /\ LastRecord.stage \in Stages
  BY LastRecordType
<1> SUFFICES ASSUME NEW i \in DOMAIN records, records[i].stage = s,
                    \A j \in DOMAIN records : j > i => records[j].stage > s
             PROVE  FALSE
  BY DEF ResumedArtifacts, OfStage
<1>2. s \in Nat /\ LastRecord.stage \in Nat
  BY <1>1, StageFacts
<1>3. i = Len(records) \/ Len(records) > i
  OBVIOUS
<1> QED
  BY <1>1, <1>2, <1>3

\* The stage a resume goes on with: all earlier ones have their artifacts.
LEMMA ResumedStageFacts ==
  ASSUME records \in Seq(Records), PrefixKept
  PROVE  /\ ResumedStage \in Stages
         /\ Below(ResumedStage) \subseteq ResumedArtifacts
         /\ records = << >> => ResumedStage = Actor
         /\ records # << >> /\ LastRecord.stage # Behavior /\ ResumedStage = Behavior
              => LastRecord.stage = Tree
         /\ Behavior \in ResumedArtifacts /\ ~LastViolated
              => ResumedStage = Behavior
<1> DEFINE missing == Stages \ ResumedArtifacts
<1>1. records # << >> => LastRecord.stage \in Stages
  BY LastRecordType
<1>2. CASE LastViolated
  <2>1. records # << >> /\ ResumedStage = LastRecord.stage
    BY <1>2 DEF ResumedStage, LastViolated
  <2> QED
    BY <1>1, <1>2, <2>1 DEF PrefixKept
<1>3. CASE ~LastViolated /\ Stages \subseteq ResumedArtifacts
  <2>1. ResumedStage = Behavior
    BY <1>3 DEF ResumedStage
  <2>2. records # << >>
    BY <1>3, StageFacts DEF ResumedArtifacts, OfStage
  <2>3. ~ (Behavior > LastRecord.stage)
    BY <1>3, <2>2, Superseded, StageFacts
  <2>4. LastRecord.stage = Behavior
    BY <1>1, <2>2, <2>3, StageFacts
  <2> QED
    BY <1>3, <2>1, <2>2, <2>4, StageFacts DEF Below
<1>4. CASE ~LastViolated /\ ~ (Stages \subseteq ResumedArtifacts)
  <2>1. missing \in SUBSET Nat /\ missing # {}
    BY <1>4, StageFacts
  <2>2. ResumedStage = Min(missing)
    BY <1>4 DEF ResumedStage
  <2>3. ResumedStage \in missing /\ \A y \in missing : ResumedStage <= y
    BY <2>1, <2>2, MinOf
  <2>4. Below(ResumedStage) \subseteq ResumedArtifacts
    <3> SUFFICES ASSUME NEW r \in Stages, r < ResumedStage, r \in missing PROVE FALSE
      BY DEF Below
    <3>1. r \in Nat /\ ResumedStage \in Nat /\ ResumedStage <= r
      BY <2>1, <2>3
    <3> QED
      BY <3>1
  <2>5. records = << >> => ResumedStage = Actor
    <3> SUFFICES ASSUME records = << >> PROVE ResumedStage = Actor
      OBVIOUS
    <3>1. Actor \in missing
      BY StageFacts DEF ResumedArtifacts, OfStage
    <3>2. ResumedStage <= 1 /\ ResumedStage \in Stages
      BY <2>3, <3>1 DEF Actor
    <3> QED
      BY <3>2, StagesAssumption DEF Stages, Actor
  <2>6. ASSUME records # << >>, LastRecord.stage # Behavior, ResumedStage = Behavior
        PROVE  LastRecord.stage = Tree
    <3>1. /\ LastRecord.stage \in Stages /\ LastRecord.stage + 1 \in Stages
          /\ LastRecord.stage \in Nat /\ LastRecord.stage < Behavior
      BY <1>1, <2>6, StageFacts
    <3>2. LastRecord.stage + 1 \in missing
      BY <2>6, <3>1, Superseded
    <3>3. Behavior <= LastRecord.stage + 1
      BY <2>3, <2>6, <3>2
    <3> QED
      BY <3>1, <3>3, StageFacts
  <2>7. Behavior \notin ResumedArtifacts
    <3> SUFFICES ASSUME Behavior \in ResumedArtifacts PROVE FALSE
      OBVIOUS
    <3>1. records # << >>
      BY DEF ResumedArtifacts, OfStage
    <3>2. LastRecord.stage = Behavior
      BY <1>1, <3>1, Superseded, StageFacts
    <3>3. Below(Behavior) \subseteq ResumedArtifacts
      BY <3>1, <3>2 DEF PrefixKept
    <3>4. Stages \subseteq ResumedArtifacts
      BY <3>3, StageFacts DEF Below
    <3> QED
      BY <1>4, <3>4
  <2> QED
    BY <2>3, <2>4, <2>5, <2>6, <2>7
<1> QED
  BY <1>2, <1>3, <1>4

\* Between the reservation and the decision there is an attempt to resume.
LEMMA ActiveAtResume ==
  ASSUME edge.current \in LifecycleStates, edge.current \notin Terminals, edge.current # Pending
  PROVE  edge.current \in Active \cup {Revalidating}
  BY DEF LifecycleStates, States, Terminals, Pending, Revalidating, Active

\* A resume establishes the whole invariant from the trace alone.
LEMMA ResumeStep == IInv /\ Resume => IInv'
<1> SUFFICES ASSUME IInv, Resume PROVE IInv'
  OBVIOUS
<1>1. /\ pc = "down"
      /\ state' = edge.current /\ index' = edge.index + 1
      /\ invocations' = [s \in Stages |-> ResumedInvocations(s)]
      /\ ownerRetries' = [s \in Stages |-> ResumedOwnerRetries(s)]
      /\ lengthRetries' = [s \in Stages |-> ResumedLengthRetries(s)]
      /\ UNCHANGED <<edge, records, invoked, rows, decision, qualified, crashes, snapshot>>
  BY DEF Resume, durable, TransitionIndexOffset
<1>2. Blank /\ edge.current \notin Terminals
  BY <1>1 DEF IInv, Control
<1>3. records \in Seq(Records)
  BY DEF IInv, TypeOK
<1>4. /\ edge' \in [index : Int, previous : LifecycleStates, current : LifecycleStates]
      /\ records' \in Seq(Records) /\ invoked' \in Nat /\ rows' \in Seq(AttemptIds)
      /\ decision' \in [status : Statuses, code : Codes]
      /\ qualified' \in BOOLEAN /\ snapshot' \in BOOLEAN /\ crashes' \in Nat
      /\ state' \in LifecycleStates /\ index' \in Int
  BY <1>1 DEF IInv, TypeOK
<1>5. /\ invocations' \in [Stages -> Nat] /\ ownerRetries' \in [Stages -> Nat]
      /\ lengthRetries' \in [Stages -> Nat]
  BY <1>1, <1>3, ResumedCounters
<1>6. MachineMatchesTrace'
  BY <1>1 DEF MachineMatchesTrace
<1>7. records' = records /\ invoked' = invoked /\ edge' = edge
  BY <1>1
<1>8. ResumedArtifacts' = ResumedArtifacts /\ TraceShape' /\ PrefixKept' /\ VerdictsKept'
  BY <1>7, SameTrace, SameRecords DEF IInv
<1>9. CASE edge.current = Pending
  <2>1. /\ pc' = "start"
        /\ UNCHANGED <<cursor, artifacts, suppress, failure, code>>
    BY <1>9 DEF Resume, Pending
  <2>2. TypeOK'
    BY <1>4, <1>5, <2>1 DEF IInv, TypeOK, PCs
  <2>3. Control'
    BY <1>1, <1>2, <1>9, <2>1 DEF Control, Blank, Terminals
  <2> QED
    BY <1>6, <1>8, <2>2, <2>3 DEF IInv
<1>10. CASE edge.current # Pending /\ RefusalCode # "none"
  <2> DEFINE refusal == [owner |-> NoOwner, retryable |-> FALSE, length |-> FALSE]
  <2>1. /\ pc' = "terminal" /\ code' = RefusalCode /\ failure' = {refusal}
        /\ UNCHANGED <<cursor, artifacts, suppress>>
    BY <1>10 DEF Resume, Pending
  <2>2. refusal \in Violations
    BY DEF Violations
  <2> HIDE DEF refusal
  <2>3. RefusalCode \in Codes /\ (OpenInvocation => RefusalCode = "unknown_invocation_outcome")
    BY DEF RefusalCode, Codes
  <2>4. TypeOK'
    <3>1. pc' \in PCs /\ code' \in Codes /\ failure' \subseteq Violations
      BY <2>1, <2>2, <2>3 DEF PCs
    <3> QED
      BY <1>4, <1>5, <2>1, <3>1 DEF IInv, TypeOK
  <2>5. edge.current \in Active \cup {Revalidating}
    BY <1>2, <1>10, ActiveAtResume DEF IInv, TypeOK
  <2>6. OpenInvocation' = OpenInvocation
    BY <1>7 DEF OpenInvocation
  <2>7. Control'
    BY <1>7, <2>1, <2>3, <2>5, <2>6 DEF Control
  <2> QED
    BY <1>6, <1>8, <2>4, <2>7 DEF IInv
<1>11. CASE edge.current # Pending /\ RefusalCode = "none"
  <2>1. /\ pc' = "revalidate"
        /\ cursor' = ResumedStage
        /\ artifacts' = {s \in ResumedArtifacts : LastViolated => s < ResumedStage}
        /\ suppress' = BoundaryCrossed
        /\ UNCHANGED <<failure, code>>
    BY <1>11 DEF Resume, Pending
  <2>2. ~OpenInvocation
    BY <1>11 DEF RefusalCode
  <2>3. edge.current \in Active \cup {Revalidating}
    BY <1>2, <1>11, ActiveAtResume DEF IInv, TypeOK
  <2>4. /\ ResumedStage \in Stages
        /\ Below(ResumedStage) \subseteq ResumedArtifacts
        /\ records = << >> => ResumedStage = Actor
        /\ records # << >> /\ LastRecord.stage # Behavior /\ ResumedStage = Behavior
             => LastRecord.stage = Tree
        /\ Behavior \in ResumedArtifacts /\ ~LastViolated => ResumedStage = Behavior
    BY <1>3, ResumedStageFacts DEF IInv
  <2>5. TypeOK'
    <3>1. ResumedArtifacts \subseteq Stages
      BY DEF ResumedArtifacts
    <3>2. suppress' \in BOOLEAN
      BY <2>1 DEF BoundaryCrossed
    <3>3. pc' \in PCs /\ cursor' \in Stages /\ artifacts' \subseteq Stages
      BY <2>1, <2>4, <3>1 DEF PCs
    <3> QED
      BY <1>4, <1>5, <2>1, <3>2, <3>3 DEF IInv, TypeOK
  <2>6. invoked = Len(records)
    <3>1. Len(<< >>) = 0
      OBVIOUS
    <3> QED
      BY <2>2, <2>3, <3>1, StatesDiffer DEF IInv, TraceShape, LastIs
  <2>7. \/ edge.current = Revalidating /\ records = << >>
        \/ \E s \in Stages : edge.current = Generating(s) /\ LastIs(s)
        \/ edge.current = Finalizing /\ LastIs(Tree)
        \/ edge.current = Admitting /\ LastIs(Behavior)
    BY <2>2, <2>3, StatesDiffer DEF IInv, TraceShape
  <2>8. BoundaryAhead'
    <3> SUFFICES ASSUME ResumedStage = Behavior, ~BoundaryCrossed
                 PROVE  edge.current = Generating(Tree)
      BY <1>7, <2>1 DEF BoundaryAhead
    <3>1. edge.current \notin {Finalizing, Generating(Behavior), Admitting}
      BY DEF BoundaryCrossed, Finalizing, Admitting
    <3>2. records # << >>
      BY <2>4, StageFacts
    <3>3. PICK s \in Stages : edge.current = Generating(s) /\ LastIs(s)
      BY <2>7, <3>1, <3>2
    <3>4. s # Behavior /\ LastRecord.stage = s
      BY <3>1, <3>3 DEF LastIs
    <3> QED
      BY <2>4, <3>2, <3>3, <3>4
  <2>9. ASSUME Behavior \in artifacts'
        PROVE  ResumedStage = Behavior /\ edge.current \in {Generating(Behavior), Admitting}
    <3>1. Behavior \in ResumedArtifacts /\ (LastViolated => Behavior < ResumedStage)
      BY <2>1, <2>9
    <3>2. ~LastViolated
      <4>1. ResumedStage \in Nat /\ Behavior \in Nat /\ ResumedStage <= Behavior
        BY <2>4, StageFacts
      <4> QED
        BY <3>1, <4>1
    <3>3. records # << >>
      BY <3>1 DEF ResumedArtifacts, OfStage
    <3>4. ~ (Behavior > LastRecord.stage)
      BY <1>3, <3>1, <3>3, Superseded, StageFacts
    <3>5. LastRecord.stage = Behavior
      BY <1>3, <3>3, <3>4, LastRecordType, StageFacts
    <3> QED
      BY <2>4, <2>7, <3>1, <3>2, <3>3, <3>5, StageFacts DEF LastIs
  <2>10. Ready'
    <3>1. Below(cursor)' \subseteq ResumedArtifacts'
      BY <1>8, <2>1, <2>4 DEF Below
    <3>2. edge.current = Revalidating => ResumedStage = Actor
      BY <2>4, <2>7, StatesDiffer
    <3> QED
      BY <1>7, <2>1, <2>3, <2>6, <2>9, <3>1, <3>2 DEF Ready
  <2>11. Control'
    BY <2>1, <2>8, <2>10 DEF Control
  <2> QED
    BY <1>6, <1>8, <2>5, <2>11 DEF IInv
<1> QED
  BY <1>9, <1>10, <1>11

--------------------------------------------------------------------------------
(***************************************************************************)
(* The theorems.                                                           *)
(***************************************************************************)
LEMMA StepKeepsIInv == IInv /\ [Next]_vars => IInv'
<1> SUFFICES ASSUME IInv, [Next]_vars PROVE IInv'
  OBVIOUS
<1>1. CASE Machine
  BY <1>1, StartStep, RevalidateStep, BeginInvocationStep, AppendCallRowStep, RecordStageStep,
     EnterFinalizingStep, FinalizePrebehaviorStep, EnterAdmittingStep, AdmitStep,
     RecordTerminalStep DEF Machine
<1>2. CASE Crash
  BY <1>2, CrashStep
<1>3. CASE Resume
  BY <1>3, ResumeStep
<1>4. CASE UNCHANGED vars
  BY <1>4, StutterStep
<1> QED
  BY <1>1, <1>2, <1>3, <1>4 DEF Next

\* The inductive invariant: trace and machine fit at every moment, in every
\* process that works on the attempt.
THEOREM AttemptInvariance == Spec => []IInv
<1> QED
  BY InitEstablishes, StepKeepsIInv, PTL DEF Spec

\* Type correctness of the lifecycle machine.
THEOREM AttemptTypeCorrect == Spec => []TypeOK
<1>1. IInv => TypeOK
  BY DEF IInv
<1> QED
  BY <1>1, AttemptInvariance, PTL

\* The machine's state and index are those of the durable trace, also after any
\* number of resumes: its next commit carries the right predecessor and index.
THEOREM MachineFollowsTrace == Spec => []MachineMatchesTrace
<1>1. IInv => MachineMatchesTrace
  BY DEF IInv
<1> QED
  BY <1>1, AttemptInvariance, PTL

\* A call whose outcome a crash has hidden is never repeated.
THEOREM UnknownOutcomeEnds == Spec => []UnknownOutcomeIsTerminal
<1>1. IInv => UnknownOutcomeIsTerminal
  <2> SUFFICES ASSUME IInv, OpenInvocation, pc \notin {"calling", "recording", "down"}
               PROVE  pc \in {"terminal", "done"} /\ code = "unknown_invocation_outcome"
    BY DEF UnknownOutcomeIsTerminal
  <2>1. Len(records) \in Nat /\ invoked = Len(records) + 1
    BY DEF IInv, TypeOK, OpenInvocation
  <2>2. ~Ready
    BY <2>1 DEF Ready
  <2>3. pc # "start"
    BY <2>1 DEF IInv, Control, TraceShape
  <2>4. pc \in {"terminal", "done"}
    BY <2>2, <2>3 DEF IInv, Control, TypeOK, PCs
  <2> QED
    BY <2>4 DEF IInv, Control
<1> QED
  BY <1>1, AttemptInvariance, PTL

\* Every transition continues the durable trace by an edge the validator of the
\* finalization inventory accepts, so no crash makes a later commit refused.
THEOREM TraceAlwaysContinues == Spec => TraceContinues
<1> DEFINE Continues == edge' # edge =>
      /\ edge'.index = edge.index + 1
      /\ edge'.previous = edge.current
      /\ <<edge.current, edge'.current>> \in LegalEdges
<1>1. IInv /\ [Next]_vars => [Continues]_vars
  <2> SUFFICES ASSUME IInv, Next, edge' # edge PROVE Continues
    BY DEF vars, durable
  <2>1. \A a \in Active : \A s \in Stages : <<a, Generating(s)>> \in LegalEdges
    BY DEF LegalEdges
  <2>2. CASE Start
    <3>1. pc = "start" /\ edge.current = Pending
      BY <2>2 DEF Start, IInv, Control
    <3> QED
      BY <2>2, <3>1 DEF Start, Transition, IInv, MachineMatchesTrace, LegalEdges, Pending
  <2>3. CASE BeginInvocation
    <3>1. /\ state = edge.current /\ index = edge.index + 1 /\ Ready /\ cursor \in Stages
          /\ edge' = [index |-> index, previous |-> state, current |-> Generating(cursor)]
      BY <2>3 DEF BeginInvocation, Transition, IInv, MachineMatchesTrace, Control, TypeOK
    <3>2. CASE edge.current = Revalidating
      BY <3>1, <3>2 DEF Ready, LegalEdges, Revalidating
    <3>3. CASE edge.current # Revalidating
      BY <2>1, <3>1, <3>3 DEF Ready
    <3> QED
      BY <3>2, <3>3
  <2>4. CASE EnterFinalizing
    <3>1. /\ pc = "advance" /\ cursor = Behavior /\ ~snapshot /\ ~suppress
          /\ edge' = [index |-> index, previous |-> state, current |-> Finalizing]
      BY <2>4 DEF EnterFinalizing, Transition, AtBehavior, Finalizing
    <3>2. /\ edge.current = Generating(Tree)
          /\ state = edge.current /\ index = edge.index + 1
      BY <3>1 DEF IInv, Control, BoundaryAhead, MachineMatchesTrace
    <3> QED
      BY <3>1, <3>2 DEF LegalEdges, Finalizing
  <2>5. CASE EnterAdmitting
    <3>1. /\ pc = "advance" /\ Behavior \in artifacts /\ state # Admitting
          /\ edge' = [index |-> index, previous |-> state, current |-> Admitting]
      BY <2>5 DEF EnterAdmitting, Transition, BehaviorReady, Admitting
    <3>2. /\ edge.current = Generating(Behavior)
          /\ state = edge.current /\ index = edge.index + 1
      BY <3>1 DEF IInv, Control, Ready, MachineMatchesTrace
    <3> QED
      BY <3>1, <3>2 DEF LegalEdges, Admitting
  <2>6. CASE RecordTerminal
    <3>1. /\ edge.current \in Active \cup {Revalidating}
          /\ failure = {} => edge.current = Admitting
          /\ edge' = [index |-> edge.index + 1, previous |-> edge.current,
                      current |-> TerminalState]
      BY <2>6 DEF RecordTerminal, IInv, Control
    <3>2. CASE failure = {}
      BY <3>1, <3>2 DEF LegalEdges, TerminalState, Admitting
    <3>3. CASE failure # {}
      BY <3>1, <3>3 DEF LegalEdges, TerminalState, Revalidating
    <3> QED
      BY <3>2, <3>3
  <2>7. CASE \/ Revalidate \/ AppendCallRow \/ RecordStage \/ FinalizePrebehavior \/ Admit
             \/ Crash \/ Resume
    BY <2>7 DEF Revalidate, AppendCallRow, RecordStage, FinalizePrebehavior, Admit, Crash,
                Resume, durable
  <2> QED
    BY <2>2, <2>3, <2>4, <2>5, <2>6, <2>7 DEF Next, Machine
<1> QED
  BY <1>1, AttemptInvariance, PTL DEF Spec, TraceContinues

================================================================================
