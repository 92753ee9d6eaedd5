------------------------- MODULE FinalizationRunProofs -------------------------
(***************************************************************************)
(* The loop over the targets, for any targets, queues and crashes.         *)
(*                                                                         *)
(* The durable half of the invariant relates queue, decisions and trace of *)
(* each target, and says that targets are begun in order.  The process     *)
(* half says what the copies read at the start are still good for: they    *)
(* are current for the targets to come, and the choices left to the        *)
(* machine are those not tried, behind at most the primary and the attempt *)
(* it resumes.                                                             *)
(***************************************************************************)
EXTENDS FinalizationRun, SequenceSelectionProofs, FiniteSetTheorems

Tried(t) == Len(attempted[t])
Outcome(c) == decisions[c].outcome
Latest(t) == OrderedChoices[t][Tried(t)]
\* The choices of a target that have not been tried.
Rest(t) == SubSeq(OrderedChoices[t], Tried(t) + 1, Len(OrderedChoices[t]))
Done(t) == StateOf(t) \in {"admitted", "exhausted"}

\* The attempts are a prefix of the choices; all but the latest are rejected,
\* and nothing beyond them is decided.
PrefixTried ==
  \A t \in Targets :
    /\ Tried(t) <= Len(OrderedChoices[t])
    /\ attempted[t] = SubSeq(OrderedChoices[t], 1, Tried(t))
    /\ \A i \in 1 .. Len(OrderedChoices[t]) :
         /\ i < Tried(t) => Outcome(OrderedChoices[t][i]) = "rejected"
         /\ i > Tried(t) => Outcome(OrderedChoices[t][i]) = "undecided"

\* The last transition of a target says how its latest attempt stands.
StateTells ==
  \A t \in Targets :
    /\ StateOf(t) = "pending" => Tried(t) = 0
    /\ StateOf(t) = "active" => Tried(t) > 0 /\ Outcome(Latest(t)) = "undecided"
    /\ StateOf(t) = "admitted" => Tried(t) > 0 /\ Outcome(Latest(t)) = "admitted"
    /\ StateOf(t) = "rejected" => Tried(t) > 0 /\ Outcome(Latest(t)) = "rejected"
    /\ StateOf(t) = "exhausted" =>
         /\ Tried(t) = Len(OrderedChoices[t])
         /\ Tried(t) > 0 => Outcome(Latest(t)) = "rejected"

\* A target is begun when all targets before it are done.
InOrder ==
  \A i, j \in DOMAIN TargetOrder :
    i < j /\ trace[TargetOrder[j]] # << >> => Done(TargetOrder[i])

DurableInv == PrefixTried /\ StateTells /\ TraceLegal /\ InOrder

Working == pc \in {"machine", "attempting"}

\* The loop has passed done targets only, and works on one that is not.
Position ==
  /\ pc \in {"target", "machine", "attempting", "settled"} =>
       /\ at \in 1 .. Len(TargetOrder) + 1
       /\ \A i \in DOMAIN TargetOrder : i < at => Done(TargetOrder[i])
  /\ Working => at <= Len(TargetOrder) /\ ~Done(Target)
  /\ pc = "settled" => at = Len(TargetOrder) + 1

\* What the process read when it started is current for the targets to come.
ReadsCurrent ==
  \A i \in DOMAIN TargetOrder :
    LET t == TargetOrder[i] IN
    (pc = "target" /\ i >= at) \/ (Working /\ i > at) =>
      /\ view[t] = DurablePlan[t]
      /\ \A k \in DOMAIN attempted[t] :
           attempted[t][k] \in terminal <=> Decided(decisions, attempted[t][k])

ReservedKnown == pc \in {"target", "machine", "attempting"} => reserved = Attempted

\* The choices the machine has left are those not tried, behind at most the
\* primary and the attempt it resumes.
Left(t) ==
  IF StateOf(t) = "active"
  THEN /\ resumed = Latest(t)
       /\ \/ refs = <<Latest(t)>> \o Rest(t)
          \/ /\ Primary(t) # Latest(t)
             /\ refs = <<Primary(t)>> \o (<<Latest(t)>> \o Rest(t))
  ELSE \/ refs = Rest(t) /\ resumed \in {None} \cup Range(attempted[t])
       \/ refs = <<Primary(t)>> \o Rest(t) /\ resumed = None /\ Tried(t) > 0

ChoicesLeft ==
  /\ pc = "machine" => Left(Target)
  /\ pc = "attempting" =>
       /\ StateOf(Target) = "active"
       /\ refs = <<Latest(Target)>> \o Rest(Target)
       /\ resumed \in {None} \cup Range(attempted[Target])

IInv ==
  /\ TypeOK /\ DurableInv
  /\ Position /\ ReadsCurrent /\ ReservedKnown /\ ChoicesLeft /\ MachineMatchesTrace

--------------------------------------------------------------------------------
(***************************************************************************)
(* Queues and traces.                                                      *)
(***************************************************************************)

LEMMA QueueFacts ==
  ASSUME NEW t \in Targets
  PROVE  /\ OrderedChoices[t] \in Seq(Candidates)
         /\ Len(OrderedChoices[t]) \in Nat /\ Len(OrderedChoices[t]) <= MAX_TARGET_CHOICES
         /\ \A i \in 1 .. Len(OrderedChoices[t]) :
              OrderedChoices[t][i] \in Candidates /\ OrderedChoices[t][i] # None
<1>1. OrderedChoices[t] \in Seq(Candidates) /\ Len(OrderedChoices[t]) <= MAX_TARGET_CHOICES
  BY ChoicesAssumption
<1>2. Len(OrderedChoices[t]) \in Nat
  BY <1>1
<1>3. \A i \in 1 .. Len(OrderedChoices[t]) : OrderedChoices[t][i] \in Candidates
  BY <1>1, ElementOfSeq
<1> QED
  BY <1>1, <1>2, <1>3, ChoicesAssumption

\* A candidate stands in one place of one queue.
LEMMA OnePlace ==
  ASSUME NEW t \in Targets, NEW u \in Targets,
         NEW i \in 1 .. Len(OrderedChoices[t]), NEW j \in 1 .. Len(OrderedChoices[u]),
         OrderedChoices[t][i] = OrderedChoices[u][j]
  PROVE  t = u /\ i = j
<1>1. i \in DOMAIN OrderedChoices[t] /\ j \in DOMAIN OrderedChoices[u]
  BY QueueFacts
<1> QED
  BY <1>1, ChoicesAssumption

\* The attempts of a target, position by position.
LEMMA AttemptFacts ==
  ASSUME TypeOK, PrefixTried, NEW t \in Targets
  PROVE  /\ attempted[t] \in Seq(Candidates)
         /\ Tried(t) \in Nat /\ Tried(t) <= Len(OrderedChoices[t])
         /\ DOMAIN attempted[t] = 1 .. Tried(t)
         /\ \A i \in 1 .. Tried(t) : attempted[t][i] = OrderedChoices[t][i]
         /\ \A i \in 1 .. Tried(t) : i \in 1 .. Len(OrderedChoices[t])
<1>1. attempted[t] \in Seq(Candidates)
  BY DEF TypeOK
<1>2. Tried(t) \in Nat /\ DOMAIN attempted[t] = 1 .. Tried(t)
  BY <1>1 DEF Tried
<1>3. Tried(t) <= Len(OrderedChoices[t]) /\ attempted[t] = SubSeq(OrderedChoices[t], 1, Tried(t))
  BY DEF PrefixTried
<1>4. \A i \in 1 .. Tried(t) : i \in 1 .. Len(OrderedChoices[t])
  BY <1>2, <1>3, QueueFacts
<1>5. \A i \in 1 .. Tried(t) : attempted[t][i] = OrderedChoices[t][i]
  <2>1. \A i \in 1 .. Tried(t) : OrderedChoices[t][i] \in Candidates
    BY <1>4, QueueFacts
  <2>2. \A i \in 1 .. Tried(t) - 1 + 1 :
          SubSeq(OrderedChoices[t], 1, Tried(t))[i] = OrderedChoices[t][1 + i - 1]
    BY <1>2, <2>1, SubSeqProperties
  <2> QED
    BY <1>2, <1>3, <2>2
<1> QED
  BY <1>1, <1>2, <1>3, <1>4, <1>5

LEMMA StateType ==
  ASSUME TypeOK, NEW t \in Targets
  PROVE  /\ trace[t] \in Seq(LifecycleStates) /\ StateOf(t) \in LifecycleStates
         /\ Len(trace[t]) \in Nat /\ DOMAIN trace[t] = 1 .. Len(trace[t])
         /\ trace[t] # << >> => StateOf(t) = trace[t][Len(trace[t])] /\ Len(trace[t]) > 0
<1>1. trace[t] \in Seq(LifecycleStates)
  BY DEF TypeOK
<1>2. Len(trace[t]) \in Nat /\ DOMAIN trace[t] = 1 .. Len(trace[t])
  BY <1>1
<1>3. trace[t] # << >> => Len(trace[t]) > 0
  BY <1>1, <1>2
<1>4. trace[t] # << >> => trace[t][Len(trace[t])] \in LifecycleStates
  BY <1>1, <1>2, <1>3, ElementOfSeq
<1> QED
  BY <1>1, <1>2, <1>3, <1>4 DEF StateOf, LifecycleStates

\* Nothing follows exhausted.
LEMMA ExhaustedIsLast ==
  ASSUME TypeOK, TraceLegal, NEW t \in Targets
  PROVE  "exhausted" \in Range(trace[t]) <=> StateOf(t) = "exhausted"
<1>1. /\ Len(trace[t]) \in Nat /\ DOMAIN trace[t] = 1 .. Len(trace[t])
      /\ trace[t] # << >> => StateOf(t) = trace[t][Len(trace[t])] /\ Len(trace[t]) > 0
  BY StateType
<1>2. ASSUME StateOf(t) = "exhausted" PROVE "exhausted" \in Range(trace[t])
  <2>1. trace[t] # << >>
    BY <1>2 DEF StateOf
  <2>2. Len(trace[t]) \in DOMAIN trace[t] /\ trace[t][Len(trace[t])] = "exhausted"
    BY <1>1, <1>2, <2>1
  <2> QED
    BY <2>2 DEF Range
<1>3. ASSUME NEW i \in DOMAIN trace[t], trace[t][i] = "exhausted"
      PROVE  StateOf(t) = "exhausted"
  <2>1. CASE i = Len(trace[t])
    <3>1. trace[t] # << >>
      BY <1>3
    <3> QED
      BY <1>1, <1>3, <2>1, <3>1
  <2>2. CASE i # Len(trace[t])
    <3>1. i + 1 \in DOMAIN trace[t] /\ i + 1 # 1 /\ (i + 1) - 1 = i
      BY <1>1, <1>3, <2>2
    <3>2. <<trace[t][i], trace[t][i + 1]>> \in LegalEdges
      BY <3>1 DEF TraceLegal
    <3> QED
      BY <1>3, <3>2 DEF LegalEdges
  <2> QED
    BY <2>1, <2>2
<1> QED
  BY <1>2, <1>3 DEF Range

--------------------------------------------------------------------------------
(***************************************************************************)
(* The derived plan of a target, case by case.                             *)
(***************************************************************************)
LatestAdmitted(t) == Tried(t) > 0 /\ Outcome(Latest(t)) = "admitted"
AllRejected(t) ==
  /\ Tried(t) = Len(OrderedChoices[t])
  /\ Tried(t) > 0 => Outcome(Latest(t)) = "rejected"

LEMMA OutcomeType ==
  ASSUME TypeOK, NEW t \in Targets, NEW i \in 1 .. Len(OrderedChoices[t])
  PROVE  Outcome(OrderedChoices[t][i]) \in {"undecided", "admitted", "rejected"}
<1>1. OrderedChoices[t][i] \in Candidates
  BY QueueFacts
<1>2. decisions[OrderedChoices[t][i]] \in [outcome : {"undecided", "admitted", "rejected"}]
  BY <1>1 DEF TypeOK
<1> QED
  BY <1>2 DEF Outcome

LEMMA PlanEntry ==
  ASSUME TypeOK, PrefixTried, NEW t \in Targets
  PROVE  /\ DurablePlan[t].attempted = attempted[t]
         /\ LatestAdmitted(t) =>
              /\ DurablePlan[t].admitted = Latest(t) /\ DurablePlan[t].state = "admitted"
              /\ DurablePlan[t].fallback = << >>
         /\ ~LatestAdmitted(t) => DurablePlan[t].admitted = None
         /\ AllRejected(t) =>
              DurablePlan[t].state = "exhausted" /\ DurablePlan[t].fallback = << >>
         /\ ~LatestAdmitted(t) /\ ~AllRejected(t) =>
              DurablePlan[t].state = "selected" /\ DurablePlan[t].fallback = Rest(t)
<1> DEFINE queue == attempted[t]
           n == Tried(t)
           choices == OrderedChoices[t]
<1>1. DurablePlan[t] = [attempted |-> queue,
                        admitted  |-> AdmittedId(queue, decisions),
                        state     |-> TargetState(t, queue, decisions),
                        fallback  |-> FallbackAvailable(t, queue, decisions)]
  BY DEF DurablePlan, DerivePlan
<1>2. /\ queue \in Seq(Candidates) /\ n \in Nat /\ n <= Len(choices)
      /\ DOMAIN queue = 1 .. n /\ \A i \in 1 .. n : queue[i] = choices[i]
      /\ \A i \in 1 .. n : i \in 1 .. Len(choices)
  BY AttemptFacts
<1>3. \A i \in 1 .. n : i < n => decisions[queue[i]].outcome = "rejected"
  BY <1>2 DEF PrefixTried, Outcome
<1>4. n > 0 => /\ n \in 1 .. n /\ Latest(t) = queue[n]
               /\ Latest(t) \in Candidates /\ Latest(t) # None
               /\ Outcome(Latest(t)) \in {"undecided", "admitted", "rejected"}
               /\ decisions[queue[n]].outcome = Outcome(Latest(t))
  <2> SUFFICES ASSUME n > 0 PROVE /\ n \in 1 .. n /\ Latest(t) = queue[n]
               /\ Latest(t) \in Candidates /\ Latest(t) # None
               /\ Outcome(Latest(t)) \in {"undecided", "admitted", "rejected"}
               /\ decisions[queue[n]].outcome = Outcome(Latest(t))
    OBVIOUS
  <2>1. n \in 1 .. n
    BY <1>2
  <2>2. n \in 1 .. Len(choices) /\ Latest(t) = queue[n] /\ Latest(t) = choices[n]
    BY <1>2, <2>1 DEF Latest
  <2>3. Latest(t) \in Candidates /\ Latest(t) # None
    BY <2>2, QueueFacts
  <2>4. Outcome(Latest(t)) \in {"undecided", "admitted", "rejected"}
    BY <2>2, OutcomeType
  <2> QED
    BY <2>1, <2>2, <2>3, <2>4 DEF Outcome
<1> HIDE DEF queue, n, choices
<1>5. CASE LatestAdmitted(t)
  <2>1. n > 0 /\ decisions[queue[n]].outcome = "admitted"
    BY <1>4, <1>5 DEF LatestAdmitted, n
  <2>2. AdmittedIn(queue, decisions) = {n}
    BY <1>2, <1>3, <2>1 DEF AdmittedIn, IsAdmitted
  <2>3. AdmittedId(queue, decisions) = queue[n]
    <3>1. (CHOOSE i \in {n} : \A j \in {n} : i <= j) = n
      BY <1>2
    <3> QED
      BY <2>2, <3>1 DEF AdmittedId
  <2>4. TargetState(t, queue, decisions) = "admitted"
    BY <1>4, <2>1, <2>3 DEF TargetState
  <2>5. FallbackAvailable(t, queue, decisions) = << >>
    BY <2>4 DEF FallbackAvailable
  <2>6. ~AllRejected(t)
    BY <1>5 DEF LatestAdmitted, AllRejected
  <2> QED
    BY <1>1, <1>4, <1>5, <2>1, <2>3, <2>4, <2>5, <2>6 DEF queue
<1>6. CASE ~LatestAdmitted(t)
  <2>1. AdmittedIn(queue, decisions) = {}
    <3>1. ASSUME NEW i \in 1 .. n, decisions[queue[i]].outcome = "admitted" PROVE FALSE
      <4>1. ~ (i < n)
        BY <1>3, <3>1
      <4>2. i = n /\ n > 0
        BY <1>2, <4>1
      <4> QED
        BY <1>4, <1>6, <3>1, <4>2 DEF LatestAdmitted, n
    <3> QED
      BY <1>2, <3>1 DEF AdmittedIn, IsAdmitted
  <2>2. AdmittedId(queue, decisions) = None
    BY <2>1 DEF AdmittedId
  <2>3. (queue = choices /\ TargetTerminal(queue, decisions)) \/ choices = << >> <=> AllRejected(t)
    <3>1. choices \in Seq(Candidates) /\ Len(choices) \in Nat
      BY QueueFacts DEF choices
    <3>2. queue = choices <=> n = Len(choices)
      <4>1. Len(queue) = n
        BY DEF queue, n, Tried
      <4>2. n = Len(choices) => \A i \in 1 .. Len(queue) : queue[i] = choices[i]
        BY <1>2, <4>1
      <4> QED
        BY <1>2, <3>1, <4>1, <4>2, SeqEqual
    <3>3. choices = << >> <=> Len(choices) = 0
      BY <3>1
    <3>4. queue # << >> <=> n > 0
      <4>1. Len(queue) = n
        BY DEF queue, n, Tried
      <4> QED
        BY <1>2, <4>1
    <3>5. TargetTerminal(queue, decisions) <=> n > 0 /\ Outcome(Latest(t)) = "rejected"
      <4>1. ASSUME n > 0, Outcome(Latest(t)) = "rejected", NEW i \in DOMAIN queue
            PROVE  decisions[queue[i]].outcome # "undecided"
        <5>1. i \in 1 .. n
          BY <1>2
        <5>2. CASE i < n
          BY <1>3, <5>1, <5>2
        <5>3. CASE ~ (i < n)
          <6>1. i = n
            BY <1>2, <5>1, <5>3
          <6> QED
            BY <1>4, <4>1, <6>1
        <5> QED
          BY <5>2, <5>3
      <4>2. ASSUME n > 0, Outcome(Latest(t)) # "rejected"
            PROVE  \E i \in DOMAIN queue : ~ (decisions[queue[i]].outcome # "undecided")
        <5>1. Outcome(Latest(t)) = "undecided"
          BY <1>4, <1>6, <4>2 DEF LatestAdmitted, n
        <5> QED
          BY <1>2, <1>4, <4>2, <5>1
      <4> QED
        BY <3>4, <4>1, <4>2 DEF TargetTerminal, Decided
    <3> QED
      BY <1>2, <3>1, <3>2, <3>3, <3>5 DEF AllRejected, n, choices
  <2>4. TargetState(t, queue, decisions) = IF AllRejected(t) THEN "exhausted" ELSE "selected"
    BY <2>2, <2>3 DEF TargetState, choices
  <2>5. FallbackAvailable(t, queue, decisions) = IF AllRejected(t) THEN << >> ELSE Rest(t)
    BY <2>4 DEF FallbackAvailable, Rest, Tried, queue
  <2> QED
    BY <1>1, <1>6, <2>2, <2>4, <2>5 DEF queue
<1> QED
  BY <1>5, <1>6

\* The plan derived at any commit is one its validators accept.
LEMMA AcceptedPlan ==
  ASSUME TypeOK, PrefixTried
  PROVE  PlanAccepted
<1> SUFFICES ASSUME NEW t \in Targets
             PROVE  /\ AttemptedPrefixValid(t, DurablePlan[t])
                    /\ AdmittedValid(t, DurablePlan[t])
                    /\ ExhaustedValid(t, DurablePlan[t])
                    /\ FallbackValid(t, DurablePlan[t])
  BY DEF PlanAccepted, QueueValid
<1> DEFINE entry == DurablePlan[t]
<1>1. /\ entry.attempted = attempted[t]
      /\ LatestAdmitted(t) => /\ entry.admitted = Latest(t) /\ entry.state = "admitted"
                              /\ entry.fallback = << >>
      /\ ~LatestAdmitted(t) => entry.admitted = None
      /\ AllRejected(t) => entry.state = "exhausted" /\ entry.fallback = << >>
      /\ ~LatestAdmitted(t) /\ ~AllRejected(t) =>
           entry.state = "selected" /\ entry.fallback = Rest(t)
  BY PlanEntry
<1> HIDE DEF entry
<1>2. /\ attempted[t] \in Seq(Candidates) /\ Tried(t) \in Nat /\ Tried(t) <= Len(OrderedChoices[t])
      /\ DOMAIN attempted[t] = 1 .. Tried(t)
      /\ \A i \in 1 .. Tried(t) : attempted[t][i] = OrderedChoices[t][i]
      /\ \A i \in 1 .. Tried(t) : i \in 1 .. Len(OrderedChoices[t])
  BY AttemptFacts
<1>3. /\ OrderedChoices[t] \in Seq(Candidates) /\ Len(OrderedChoices[t]) \in Nat
  BY QueueFacts
<1>4. Len(attempted[t]) = Tried(t) /\ attempted[t] = SubSeq(OrderedChoices[t], 1, Tried(t))
  BY DEF Tried, PrefixTried
<1>5. AttemptedPrefixValid(t, entry)
  BY <1>1, <1>2, <1>4 DEF AttemptedPrefixValid
<1>6. AdmittedValid(t, entry)
  <2>1. CASE LatestAdmitted(t)
    <3>1. Tried(t) \in 1 .. Tried(t)
      BY <1>2, <2>1 DEF LatestAdmitted
    <3>2. attempted[t][Len(attempted[t])] = Latest(t) /\ attempted[t] # << >>
      BY <1>2, <1>4, <3>1 DEF Latest
    <3>3. Latest(t) # None
      BY <1>2, <3>1, QueueFacts DEF Latest
    <3> QED
      BY <1>1, <2>1, <3>2, <3>3 DEF AdmittedValid
  <2>2. CASE ~LatestAdmitted(t)
    BY <1>1, <2>2 DEF AdmittedValid
  <2> QED
    BY <2>1, <2>2
<1>7. ExhaustedValid(t, entry)
  <2>1. OrderedChoices[t] = << >> => AllRejected(t)
    BY <1>2, <1>3 DEF AllRejected
  <2>2. AllRejected(t) => attempted[t] = OrderedChoices[t] /\ ~LatestAdmitted(t)
    <3>1. AllRejected(t) => attempted[t] = OrderedChoices[t]
      BY <1>3, <1>4, SubSeqFull DEF AllRejected
    <3> QED
      BY <3>1 DEF AllRejected, LatestAdmitted
  <2> QED
    BY <1>1, <2>1, <2>2 DEF ExhaustedValid
<1>8. FallbackValid(t, entry)
  <2> DEFINE tried == {entry.attempted[i] : i \in DOMAIN entry.attempted}
  <2>1. tried = {attempted[t][i] : i \in 1 .. Tried(t)}
    BY <1>1, <1>2
  <2>2. \A i \in 1 .. Len(OrderedChoices[t]) : OrderedChoices[t][i] \in tried <=> i <= Tried(t)
    <3> HIDE DEF tried
    <3> TAKE i \in 1 .. Len(OrderedChoices[t])
    <3>1. ASSUME i <= Tried(t) PROVE OrderedChoices[t][i] \in tried
      BY <1>2, <2>1, <3>1
    <3>2. ASSUME OrderedChoices[t][i] \in tried PROVE i <= Tried(t)
      <4>1. PICK j \in 1 .. Tried(t) : OrderedChoices[t][i] = attempted[t][j]
        BY <2>1, <3>2
      <4>2. j \in 1 .. Len(OrderedChoices[t]) /\ OrderedChoices[t][i] = OrderedChoices[t][j]
        BY <1>2, <4>1
      <4>3. i = j
        BY <4>2, OnePlace
      <4> QED
        BY <1>2, <4>1, <4>3
    <3> QED
      BY <3>1, <3>2
  <2> HIDE DEF tried
  <2>3. Without(OrderedChoices[t], tried) = Rest(t)
    <3>1. Tried(t) \in 0 .. Len(OrderedChoices[t])
      BY <1>2, <1>3
    <3> QED
      BY <1>3, <2>2, <3>1, WithoutPrefix DEF Rest
  <2>4. AllRejected(t) => Rest(t) = << >>
    BY <1>2, <1>3, SubSeqEmpty DEF AllRejected, Rest
  <2>5. entry.fallback = IF entry.state = "admitted" THEN << >> ELSE Rest(t)
    BY <1>1, <2>4 DEF AllRejected, LatestAdmitted
  <2> QED
    BY <2>3, <2>5 DEF FallbackValid, tried
<1> QED
  BY <1>5, <1>6, <1>7, <1>8 DEF entry

--------------------------------------------------------------------------------
(***************************************************************************)
(* What a commit does to the durable half of the invariant.                *)
(***************************************************************************)

\* Target t is the one at work: all before it are done, and it is not.
AtWork(t) ==
  /\ at \in DOMAIN TargetOrder /\ t = Target
  /\ \A i \in DOMAIN TargetOrder : i < at => Done(TargetOrder[i])
  /\ ~Done(t)

Moves(t, next) == trace' = [trace EXCEPT ![t] = Append(@, next)]
Records(c, outcome) == decisions' = [decisions EXCEPT ![c].outcome = outcome]

LEMMA OrderFacts ==
  /\ Len(TargetOrder) \in Nat /\ DOMAIN TargetOrder = 1 .. Len(TargetOrder)
  /\ \A i \in DOMAIN TargetOrder : TargetOrder[i] \in Targets
  /\ \A t \in Targets : \E i \in DOMAIN TargetOrder : TargetOrder[i] = t
  /\ \A i, j \in DOMAIN TargetOrder : TargetOrder[i] = TargetOrder[j] => i = j
<1>1. TargetOrder \in Seq(Targets) /\ Range(TargetOrder) = Targets /\ IsInjective(TargetOrder)
  BY TargetOrderAssumption
<1>2. Len(TargetOrder) \in Nat /\ DOMAIN TargetOrder = 1 .. Len(TargetOrder)
  BY <1>1
<1>3. \A i \in DOMAIN TargetOrder : TargetOrder[i] \in Targets
  BY <1>1, <1>2, ElementOfSeq
<1>4. \A t \in Targets : \E i \in DOMAIN TargetOrder : TargetOrder[i] = t
  BY <1>1 DEF Range
<1>5. \A i, j \in DOMAIN TargetOrder : TargetOrder[i] = TargetOrder[j] => i = j
  BY <1>1 DEF IsInjective
<1> QED
  BY <1>2, <1>3, <1>4, <1>5

LEMMA TransitionFacts ==
  ASSUME TypeOK, NEW t \in Targets, NEW next \in LifecycleStates, Moves(t, next)
  PROVE  /\ trace' \in [Targets -> Seq(LifecycleStates)]
         /\ trace'[t] = Append(trace[t], next)
         /\ trace'[t] # << >> /\ StateOf(t)' = next
         /\ \A u \in Targets : u # t => trace'[u] = trace[u] /\ StateOf(u)' = StateOf(u)
<1>1. trace \in [Targets -> Seq(LifecycleStates)] /\ trace[t] \in Seq(LifecycleStates)
  BY DEF TypeOK
<1>2. trace'[t] = Append(trace[t], next) /\ \A u \in Targets : u # t => trace'[u] = trace[u]
  BY <1>1 DEF Moves
<1>3. /\ Append(trace[t], next) \in Seq(LifecycleStates) /\ Append(trace[t], next) # << >>
      /\ Len(Append(trace[t], next)) = Len(trace[t]) + 1
      /\ Append(trace[t], next)[Len(trace[t]) + 1] = next
  BY <1>1, AppendProperties
<1>4. trace' \in [Targets -> Seq(LifecycleStates)]
  BY <1>1, <1>3 DEF Moves
<1>5. StateOf(t)' = next
  BY <1>2, <1>3 DEF StateOf
<1>6. \A u \in Targets : u # t => StateOf(u)' = StateOf(u)
  BY <1>2 DEF StateOf
<1> QED
  BY <1>2, <1>3, <1>4, <1>5, <1>6

\* A legal edge, and a new segment exactly with a new attempt, keep a trace legal.
LEMMA LegalTransition ==
  ASSUME TypeOK, TraceLegal, NEW t \in Targets, NEW next \in LifecycleStates, Moves(t, next),
         <<StateOf(t), next>> \in LegalEdges,
         Len(attempted'[t]) = Tried(t) + (IF next = "active" THEN 1 ELSE 0),
         \A u \in Targets : u # t => attempted'[u] = attempted[u]
  PROVE  TraceLegal'
<1>1. /\ trace'[t] = Append(trace[t], next)
      /\ \A u \in Targets : u # t => trace'[u] = trace[u]
  BY TransitionFacts
<1> SUFFICES ASSUME NEW u \in Targets
             PROVE  /\ \A i \in DOMAIN trace'[u] :
                         <<IF i = 1 THEN "pending" ELSE trace'[u][i - 1], trace'[u][i]>> \in LegalEdges
                    /\ Cardinality({i \in DOMAIN trace'[u] : trace'[u][i] = "active"}) = Len(attempted'[u])
  BY DEF TraceLegal
<1>2. CASE u # t
  BY <1>1, <1>2 DEF TraceLegal
<1>3. CASE u = t
  <2> DEFINE old == trace[t]
             new == trace'[t]
             n == Len(old)
             OldActive == {i \in DOMAIN old : old[i] = "active"}
             NewActive == {i \in DOMAIN new : new[i] = "active"}
  <2>1. /\ old \in Seq(LifecycleStates) /\ n \in Nat /\ DOMAIN old = 1 .. n
        /\ old # << >> => StateOf(t) = old[n] /\ n > 0
    BY StateType
  <2>2. /\ new \in Seq(LifecycleStates) /\ Len(new) = n + 1
        /\ \A i \in 1 .. n : new[i] = old[i]
        /\ new[n + 1] = next
    BY <1>1, <2>1, AppendProperties
  <2>3. DOMAIN new = 1 .. n + 1
    BY <2>1, <2>2
  <2>4. old = << >> => StateOf(t) = "pending" /\ n = 0
    BY DEF StateOf
  <2>5. old # << >> => n # 0
    BY <2>1
  <2>6. \A i \in 1 .. n : <<IF i = 1 THEN "pending" ELSE old[i - 1], old[i]>> \in LegalEdges
    BY <2>1 DEF TraceLegal
  <2>7. Cardinality(OldActive) = Tried(t)
    BY DEF TraceLegal, Tried
  <2> HIDE DEF old, new, n
  <2>8. ASSUME NEW i \in 1 .. n + 1
        PROVE  <<IF i = 1 THEN "pending" ELSE new[i - 1], new[i]>> \in LegalEdges
    <3>1. CASE i \in 1 .. n
      <4>1. i # 1 => i - 1 \in 1 .. n
        BY <2>1, <3>1
      <4> QED
        BY <2>2, <2>6, <3>1, <4>1
    <3>2. CASE i = n + 1 /\ n = 0
      BY <2>1, <2>2, <2>4, <2>5, <3>2
    <3>3. CASE i = n + 1 /\ n # 0
      <4>1. i # 1 /\ i - 1 = n /\ n \in 1 .. n
        BY <2>1, <3>3
      <4>2. new[n] = StateOf(t)
        BY <2>1, <2>2, <2>4, <3>3, <4>1
      <4> QED
        BY <2>2, <3>3, <4>1, <4>2
    <3> QED
      BY <2>1, <3>1, <3>2, <3>3
  <2>9. Cardinality(NewActive) = Tried(t) + (IF next = "active" THEN 1 ELSE 0)
    <3>1. IsFiniteSet(OldActive)
      <4>1. IsFiniteSet(1 .. n) /\ OldActive \subseteq 1 .. n
        BY <2>1, FS_Interval
      <4> HIDE DEF OldActive
      <4> QED
        BY <4>1, FS_Subset
    <3>2. CASE next = "active"
      <4>1. NewActive = OldActive \cup {n + 1} /\ n + 1 \notin OldActive
        BY <2>1, <2>2, <2>3, <3>2
      <4> HIDE DEF OldActive, NewActive
      <4> QED
        BY <2>7, <3>1, <3>2, <4>1, FS_AddElement
    <3>3. CASE next # "active"
      <4>1. NewActive = OldActive
        BY <2>1, <2>2, <2>3, <3>3
      <4>2. Cardinality(OldActive) \in Nat
        BY <3>1, FS_CardinalityType
      <4> HIDE DEF OldActive, NewActive
      <4> QED
        BY <2>7, <3>3, <4>1, <4>2
    <3> QED
      BY <3>2, <3>3
  <2> QED
    BY <1>3, <2>3, <2>8, <2>9 DEF new
<1> QED
  BY <1>2, <1>3

\* The target at work moves on: it stays the first that is not done.
LEMMA OrderKept ==
  ASSUME TypeOK, InOrder, NEW t \in Targets, AtWork(t),
         NEW next \in LifecycleStates, Moves(t, next)
  PROVE  InOrder'
<1>1. /\ trace'[t] # << >>
      /\ \A u \in Targets : u # t => trace'[u] = trace[u] /\ StateOf(u)' = StateOf(u)
  BY TransitionFacts
<1>2. \A u \in Targets : u # t => (Done(u)' <=> Done(u))
  BY <1>1 DEF Done
<1> SUFFICES ASSUME NEW i \in DOMAIN TargetOrder, NEW j \in DOMAIN TargetOrder,
                    i < j, trace'[TargetOrder[j]] # << >>
             PROVE  Done(TargetOrder[i])'
  BY DEF InOrder
<1>3. TargetOrder[i] \in Targets /\ TargetOrder[j] \in Targets
  BY OrderFacts
<1>4. i # j
  BY OrderFacts
<1>5. CASE TargetOrder[j] = t
  <2>1. j = at
    BY <1>5, OrderFacts DEF AtWork, Target
  <2>2. Done(TargetOrder[i]) /\ TargetOrder[i] # t
    BY <1>4, <1>5, <2>1, OrderFacts DEF AtWork
  <2> QED
    BY <1>2, <1>3, <2>2
<1>6. CASE TargetOrder[j] # t
  <2>1. trace[TargetOrder[j]] # << >>
    BY <1>1, <1>3, <1>6
  <2>2. Done(TargetOrder[i])
    BY <2>1 DEF InOrder
  <2>3. TargetOrder[i] # t
    BY <2>2 DEF AtWork
  <2> QED
    BY <1>2, <1>3, <2>2, <2>3
<1> QED
  BY <1>5, <1>6

\* The targets after the one at work have not been begun.
LEMMA LaterUntouched ==
  ASSUME TypeOK, DurableInv, NEW t \in Targets, AtWork(t),
         NEW i \in DOMAIN TargetOrder, i > at
  PROVE  /\ TargetOrder[i] \in Targets /\ TargetOrder[i] # t
         /\ StateOf(TargetOrder[i]) = "pending" /\ Tried(TargetOrder[i]) = 0
<1>1. TargetOrder[i] \in Targets /\ TargetOrder[i] # t
  <2>1. at \in Nat /\ i \in Nat /\ i # at /\ at \in DOMAIN TargetOrder
    BY OrderFacts DEF AtWork
  <2> QED
    BY <2>1, OrderFacts DEF AtWork, Target
<1>2. trace[TargetOrder[i]] = << >>
  <2>1. at < i /\ at \in DOMAIN TargetOrder /\ ~Done(TargetOrder[at])
    BY OrderFacts DEF AtWork, Target
  <2> QED
    BY <2>1 DEF DurableInv, InOrder
<1>3. StateOf(TargetOrder[i]) = "pending"
  BY <1>2 DEF StateOf
<1> QED
  BY <1>1, <1>3 DEF DurableInv, StateTells

LEMMA ReserveKeeps ==
  ASSUME TypeOK, DurableInv, NEW t \in Targets, AtWork(t),
         StateOf(t) \in {"pending", "rejected"}, Tried(t) < Len(OrderedChoices[t]),
         attempted' = [attempted EXCEPT ![t] = Append(@, OrderedChoices[t][Tried(t) + 1])],
         Moves(t, "active"), decisions' = decisions
  PROVE  /\ DurableInv'
         /\ Tried(t)' = Tried(t) + 1 /\ StateOf(t)' = "active"
         /\ attempted' \in [Targets -> Seq(Candidates)]
<1> DEFINE n == Tried(t)
           c == OrderedChoices[t][n + 1]
<1>1. /\ attempted[t] \in Seq(Candidates) /\ n \in Nat /\ Len(attempted[t]) = n
      /\ \A i \in 1 .. n : attempted[t][i] = OrderedChoices[t][i]
      /\ \A i \in 1 .. n : i \in 1 .. Len(OrderedChoices[t])
  BY AttemptFacts DEF DurableInv, Tried
<1>2. OrderedChoices[t] \in Seq(Candidates) /\ Len(OrderedChoices[t]) \in Nat
  BY QueueFacts
<1>3. n + 1 \in 1 .. Len(OrderedChoices[t]) /\ c \in Candidates
  BY <1>1, <1>2, QueueFacts
<1>4. attempted'[t] = Append(attempted[t], c) /\ \A u \in Targets : u # t => attempted'[u] = attempted[u]
  BY DEF TypeOK
<1> HIDE DEF c
<1>5. /\ Append(attempted[t], c) \in Seq(Candidates) /\ Len(Append(attempted[t], c)) = n + 1
      /\ \A i \in 1 .. n : Append(attempted[t], c)[i] = attempted[t][i]
      /\ Append(attempted[t], c)[n + 1] = c
  BY <1>1, <1>3, AppendProperties
<1>6. attempted' \in [Targets -> Seq(Candidates)]
  <2>1. attempted' = [attempted EXCEPT ![t] = Append(@, c)]
    BY DEF c
  <2> QED
    BY <1>5, <2>1 DEF TypeOK
<1>7. Tried(t)' = n + 1 /\ \A u \in Targets : u # t => Tried(u)' = Tried(u)
  BY <1>4, <1>5 DEF Tried
<1>8. /\ StateOf(t)' = "active"
      /\ \A u \in Targets : u # t => StateOf(u)' = StateOf(u)
  <2>1. "active" \in LifecycleStates
    BY DEF LifecycleStates
  <2> QED
    BY <2>1, TransitionFacts
<1>9. PrefixTried'
  <2> SUFFICES ASSUME NEW u \in Targets
               PROVE  /\ Tried(u)' <= Len(OrderedChoices[u])
                      /\ attempted'[u] = SubSeq(OrderedChoices[u], 1, Tried(u)')
                      /\ \A i \in 1 .. Len(OrderedChoices[u]) :
                           /\ i < Tried(u)' => Outcome(OrderedChoices[u][i]) = "rejected"
                           /\ i > Tried(u)' => Outcome(OrderedChoices[u][i]) = "undecided"
    BY DEF PrefixTried, Outcome
  <2>1. CASE u # t
    BY <1>4, <1>7, <2>1 DEF DurableInv, PrefixTried
  <2>2. CASE u = t
    <3>1. attempted'[t] = SubSeq(OrderedChoices[t], 1, n + 1)
      <4>1. /\ SubSeq(OrderedChoices[t], 1, n + 1) \in Seq(Candidates)
            /\ Len(SubSeq(OrderedChoices[t], 1, n + 1)) = n + 1
            /\ \A i \in 1 .. n + 1 : SubSeq(OrderedChoices[t], 1, n + 1)[i] = OrderedChoices[t][i]
        <5>1. \A i \in 1 .. n + 1 : OrderedChoices[t][i] \in Candidates
          BY <1>1, <1>3, QueueFacts
        <5> HIDE DEF n
        <5> QED
          BY <1>1, <5>1, SubSeqProperties
      <4>2. \A i \in 1 .. n + 1 : Append(attempted[t], c)[i] = OrderedChoices[t][i]
        BY <1>1, <1>5 DEF c
      <4> QED
        BY <1>1, <1>4, <1>5, <4>1, <4>2, SeqEqual
    <3>2. ASSUME NEW i \in 1 .. Len(OrderedChoices[t]), i < n + 1
          PROVE  Outcome(OrderedChoices[t][i]) = "rejected"
      <4>1. CASE i < n
        BY <4>1 DEF DurableInv, PrefixTried
      <4>2. CASE ~ (i < n)
        <5>1. i = n /\ n > 0
          BY <1>1, <3>2, <4>2
        <5>2. StateOf(t) = "rejected"
          BY <5>1 DEF DurableInv, StateTells
        <5> QED
          BY <5>1, <5>2 DEF DurableInv, StateTells, Latest
      <4> QED
        BY <4>1, <4>2
    <3>3. \A i \in 1 .. Len(OrderedChoices[t]) : i > n + 1 => Outcome(OrderedChoices[t][i]) = "undecided"
      BY <1>1 DEF DurableInv, PrefixTried
    <3>4. n + 1 <= Len(OrderedChoices[t])
      BY <1>3
    <3> QED
      BY <1>7, <2>2, <3>1, <3>2, <3>3, <3>4
  <2> QED
    BY <2>1, <2>2
<1>10. StateTells'
  <2> SUFFICES ASSUME NEW u \in Targets
               PROVE  (/\ StateOf(u) = "pending" => Tried(u) = 0
                       /\ StateOf(u) = "active" => Tried(u) > 0 /\ Outcome(Latest(u)) = "undecided"
                       /\ StateOf(u) = "admitted" => Tried(u) > 0 /\ Outcome(Latest(u)) = "admitted"
                       /\ StateOf(u) = "rejected" => Tried(u) > 0 /\ Outcome(Latest(u)) = "rejected"
                       /\ StateOf(u) = "exhausted" =>
                            /\ Tried(u) = Len(OrderedChoices[u])
                            /\ Tried(u) > 0 => Outcome(Latest(u)) = "rejected")'
    BY DEF StateTells
  <2>1. CASE u # t
    BY <1>7, <1>8, <2>1 DEF DurableInv, StateTells, Latest, Outcome
  <2>2. CASE u = t
    <3>1. Outcome(OrderedChoices[t][n + 1]) = "undecided"
      BY <1>1, <1>3 DEF DurableInv, PrefixTried
    <3>2. Outcome(Latest(t))' = "undecided" /\ Tried(t)' > 0
      BY <1>1, <1>7, <3>1 DEF Latest, Outcome
    <3> QED
      BY <1>8, <2>2, <3>2
  <2> QED
    BY <2>1, <2>2
<1>11. TraceLegal'
  <2>1. <<StateOf(t), "active">> \in LegalEdges /\ "active" \in LifecycleStates
    BY DEF LegalEdges, LifecycleStates
  <2>2. Len(attempted'[t]) = Tried(t) + (IF "active" = "active" THEN 1 ELSE 0)
    BY <1>4, <1>5
  <2> QED
    BY <1>4, <2>1, <2>2, LegalTransition DEF DurableInv
<1>12. InOrder'
  <2>1. "active" \in LifecycleStates
    BY DEF LifecycleStates
  <2> QED
    BY <2>1, OrderKept DEF DurableInv
<1> QED
  BY <1>6, <1>7, <1>8, <1>9, <1>10, <1>11, <1>12 DEF DurableInv

LEMMA DecideKeeps ==
  ASSUME TypeOK, DurableInv, NEW t \in Targets, AtWork(t), StateOf(t) = "active",
         NEW outcome \in {"admitted", "rejected"},
         Records(Latest(t), outcome), Moves(t, outcome), attempted' = attempted
  PROVE  /\ DurableInv'
         /\ StateOf(t)' = outcome
         /\ decisions' \in [Candidates -> [outcome : {"undecided", "admitted", "rejected"}]]
         /\ \A u \in Targets : \A i \in 1 .. Len(OrderedChoices[u]) :
              u # t => Outcome(OrderedChoices[u][i])' = Outcome(OrderedChoices[u][i])
<1> DEFINE n == Tried(t)
<1>1. n \in Nat /\ n > 0 /\ n \in 1 .. Len(OrderedChoices[t])
  <2>1. n \in Nat /\ n > 0
    BY AttemptFacts DEF DurableInv, StateTells
  <2>2. n \in 1 .. n
    BY <2>1
  <2> QED
    BY <2>1, <2>2, AttemptFacts DEF DurableInv
<1>2. Latest(t) \in Candidates /\ Latest(t) = OrderedChoices[t][n]
  BY <1>1, QueueFacts DEF Latest
<1>3. \A c \in Candidates : decisions'[c] = IF c = Latest(t) THEN [decisions[c] EXCEPT !.outcome = outcome]
                                             ELSE decisions[c]
  BY DEF TypeOK, Records
<1>4. decisions' \in [Candidates -> [outcome : {"undecided", "admitted", "rejected"}]]
  BY <1>2 DEF TypeOK, Records
<1>5. Outcome(Latest(t))' = outcome
  <2>1. decisions[Latest(t)] \in [outcome : {"undecided", "admitted", "rejected"}]
    BY <1>2 DEF TypeOK
  <2>2. decisions'[Latest(t)].outcome = outcome
    BY <1>2, <1>3, <2>1
  <2>3. Latest(t)' = Latest(t)
    BY DEF Latest, Tried
  <2> QED
    BY <2>2, <2>3 DEF Outcome
<1>6. \A u \in Targets : \A i \in 1 .. Len(OrderedChoices[u]) :
        u # t \/ i # n =>
          decisions'[OrderedChoices[u][i]].outcome = decisions[OrderedChoices[u][i]].outcome
  <2> TAKE u \in Targets
  <2> TAKE i \in 1 .. Len(OrderedChoices[u])
  <2>1. u # t \/ i # n => OrderedChoices[u][i] # Latest(t)
    BY <1>1, <1>2, OnePlace
  <2>2. OrderedChoices[u][i] \in Candidates
    BY QueueFacts
  <2> QED
    BY <1>3, <2>1, <2>2
<1>7. /\ StateOf(t)' = outcome /\ outcome \in LifecycleStates
      /\ \A u \in Targets : u # t => StateOf(u)' = StateOf(u)
  <2>1. outcome \in LifecycleStates
    BY DEF LifecycleStates
  <2> QED
    BY <2>1, TransitionFacts
<1>8. \A u \in Targets : Tried(u)' = Tried(u)
  BY DEF Tried
<1>9. PrefixTried'
  <2> SUFFICES ASSUME NEW u \in Targets
               PROVE  /\ Tried(u)' <= Len(OrderedChoices[u])
                      /\ attempted'[u] = SubSeq(OrderedChoices[u], 1, Tried(u)')
                      /\ \A i \in 1 .. Len(OrderedChoices[u]) :
                           /\ i < Tried(u)' => Outcome(OrderedChoices[u][i])' = "rejected"
                           /\ i > Tried(u)' => Outcome(OrderedChoices[u][i])' = "undecided"
    BY DEF PrefixTried, Outcome
  <2>1. Tried(u) \in Nat
    BY AttemptFacts DEF DurableInv
  <2>2. /\ Tried(u)' <= Len(OrderedChoices[u])
        /\ attempted'[u] = SubSeq(OrderedChoices[u], 1, Tried(u)')
    BY <1>8 DEF DurableInv, PrefixTried
  <2>3. ASSUME NEW i \in 1 .. Len(OrderedChoices[u]), i < Tried(u) \/ i > Tried(u)
        PROVE  Outcome(OrderedChoices[u][i])' = Outcome(OrderedChoices[u][i])
    <3>1. i # Tried(u)
      BY <2>1, <2>3
    <3> QED
      BY <1>6, <3>1 DEF Outcome
  <2> QED
    BY <1>8, <2>2, <2>3 DEF DurableInv, PrefixTried
<1>10. StateTells'
  <2> SUFFICES ASSUME NEW u \in Targets
               PROVE  (/\ StateOf(u) = "pending" => Tried(u) = 0
                       /\ StateOf(u) = "active" => Tried(u) > 0 /\ Outcome(Latest(u)) = "undecided"
                       /\ StateOf(u) = "admitted" => Tried(u) > 0 /\ Outcome(Latest(u)) = "admitted"
                       /\ StateOf(u) = "rejected" => Tried(u) > 0 /\ Outcome(Latest(u)) = "rejected"
                       /\ StateOf(u) = "exhausted" =>
                            /\ Tried(u) = Len(OrderedChoices[u])
                            /\ Tried(u) > 0 => Outcome(Latest(u)) = "rejected")'
    BY DEF StateTells
  <2>1. CASE u # t
    <3>1. Tried(u) > 0 => Outcome(Latest(u))' = Outcome(Latest(u))
      <4> SUFFICES ASSUME Tried(u) > 0 PROVE Outcome(Latest(u))' = Outcome(Latest(u))
        OBVIOUS
      <4>1. Tried(u) \in 1 .. Tried(u)
        BY AttemptFacts DEF DurableInv
      <4>2. Tried(u) \in 1 .. Len(OrderedChoices[u])
        BY <4>1, AttemptFacts DEF DurableInv
      <4>3. Latest(u)' = OrderedChoices[u][Tried(u)] /\ Latest(u) = OrderedChoices[u][Tried(u)]
        BY <1>8 DEF Latest
      <4>4. decisions'[OrderedChoices[u][Tried(u)]].outcome
              = decisions[OrderedChoices[u][Tried(u)]].outcome
        BY <1>6, <2>1, <4>2
      <4> QED
        BY <4>3, <4>4 DEF Outcome
    <3> QED
      BY <1>7, <1>8, <2>1, <3>1 DEF DurableInv, StateTells
  <2>2. CASE u = t
    BY <1>1, <1>5, <1>7, <1>8, <2>2
  <2> QED
    BY <2>1, <2>2
<1>11. TraceLegal'
  <2>1. <<StateOf(t), outcome>> \in LegalEdges
    BY DEF LegalEdges
  <2>2. Len(attempted'[t]) = Tried(t) + (IF outcome = "active" THEN 1 ELSE 0)
    <3>1. Len(attempted'[t]) = Tried(t) /\ outcome # "active"
      BY DEF Tried
    <3> QED
      BY <1>1, <3>1
  <2> QED
    BY <1>7, <2>1, <2>2, LegalTransition DEF DurableInv
<1>12. InOrder'
  BY <1>7, OrderKept DEF DurableInv
<1> QED
  BY <1>4, <1>6, <1>7, <1>9, <1>10, <1>11, <1>12 DEF DurableInv, Outcome

LEMMA ExhaustKeeps ==
  ASSUME TypeOK, DurableInv, NEW t \in Targets, AtWork(t),
         StateOf(t) \in {"pending", "rejected"}, Tried(t) = Len(OrderedChoices[t]),
         Moves(t, "exhausted"), UNCHANGED <<attempted, decisions>>
  PROVE  DurableInv' /\ StateOf(t)' = "exhausted"
<1>1. "exhausted" \in LifecycleStates
  BY DEF LifecycleStates
<1>2. /\ StateOf(t)' = "exhausted"
      /\ \A u \in Targets : u # t => StateOf(u)' = StateOf(u)
  BY <1>1, TransitionFacts
<1>3. PrefixTried'
  BY DEF DurableInv, PrefixTried, Tried, Outcome
<1>4. StateTells'
  <2> SUFFICES ASSUME NEW u \in Targets
               PROVE  (/\ StateOf(u) = "pending" => Tried(u) = 0
                       /\ StateOf(u) = "active" => Tried(u) > 0 /\ Outcome(Latest(u)) = "undecided"
                       /\ StateOf(u) = "admitted" => Tried(u) > 0 /\ Outcome(Latest(u)) = "admitted"
                       /\ StateOf(u) = "rejected" => Tried(u) > 0 /\ Outcome(Latest(u)) = "rejected"
                       /\ StateOf(u) = "exhausted" =>
                            /\ Tried(u) = Len(OrderedChoices[u])
                            /\ Tried(u) > 0 => Outcome(Latest(u)) = "rejected")'
    BY DEF StateTells
  <2>1. Tried(u)' = Tried(u) /\ Outcome(Latest(u))' = Outcome(Latest(u))
    BY DEF Tried, Latest, Outcome
  <2>2. CASE u # t
    BY <1>2, <2>1, <2>2 DEF DurableInv, StateTells
  <2>3. CASE u = t
    <3>1. Tried(t) > 0 => StateOf(t) = "rejected"
      BY DEF DurableInv, StateTells
    <3> QED
      BY <1>2, <2>1, <2>3, <3>1 DEF DurableInv, StateTells
  <2> QED
    BY <2>2, <2>3
<1>5. TraceLegal'
  <2>1. <<StateOf(t), "exhausted">> \in LegalEdges
    BY DEF LegalEdges
  <2>2. Len(attempted'[t]) = Tried(t) + (IF "exhausted" = "active" THEN 1 ELSE 0)
    <3>1. Tried(t) \in Nat
      BY AttemptFacts DEF DurableInv
    <3> QED
      BY <3>1 DEF Tried
  <2> QED
    BY <1>1, <2>1, <2>2, LegalTransition DEF DurableInv
<1>6. InOrder'
  BY <1>1, OrderKept DEF DurableInv
<1> QED
  BY <1>2, <1>3, <1>4, <1>5, <1>6 DEF DurableInv

--------------------------------------------------------------------------------
(***************************************************************************)
(* What the process has read about the target it begins.                   *)
(***************************************************************************)

LEMMA ConsFacts ==
  ASSUME NEW S, NEW a \in S, NEW s \in Seq(S)
  PROVE  /\ <<a>> \o s \in Seq(S) /\ <<a>> \o s # << >>
         /\ Len(<<a>> \o s) = Len(s) + 1
         /\ Head(<<a>> \o s) = a /\ Tail(<<a>> \o s) = s
<1>1. <<a>> \in Seq(S) /\ Len(<<a>>) = 1 /\ <<a>>[1] = a /\ Len(s) \in Nat
  OBVIOUS
<1>2. /\ <<a>> \o s \in Seq(S) /\ Len(<<a>> \o s) = Len(s) + 1
      /\ \A i \in 1 .. Len(s) + 1 : (<<a>> \o s)[i] = IF i <= 1 THEN a ELSE s[i - 1]
  BY <1>1, ConcatProperties
<1> DEFINE c == <<a>> \o s
<1> HIDE DEF c
<1>3. c \in Seq(S) /\ Len(c) = Len(s) + 1 /\ \A i \in 1 .. Len(s) + 1 : c[i] = IF i <= 1 THEN a ELSE s[i - 1]
  BY <1>2 DEF c
<1>4. c # << >>
  BY <1>1, <1>3
<1>5. Head(c) = a
  BY <1>1, <1>3, <1>4
<1>6. Tail(c) = s
  <2>1. /\ Tail(c) \in Seq(S) /\ Len(Tail(c)) = Len(s)
        /\ \A i \in 1 .. Len(s) : Tail(c)[i] = c[i + 1]
    BY <1>1, <1>3, <1>4, HeadTailProperties
  <2>2. \A i \in 1 .. Len(s) : c[i + 1] = s[i]
    BY <1>1, <1>3
  <2> QED
    BY <2>1, <2>2, SeqEqual
<1> QED
  BY <1>2, <1>4, <1>5, <1>6 DEF c

\* The untried choices, their first and the others.
LEMMA RestFacts ==
  ASSUME TypeOK, PrefixTried, NEW t \in Targets
  PROVE  /\ Rest(t) \in Seq(Candidates)
         /\ Rest(t) = << >> <=> Tried(t) = Len(OrderedChoices[t])
         /\ Tried(t) < Len(OrderedChoices[t]) =>
              /\ Tried(t) + 1 \in 1 .. Len(OrderedChoices[t])
              /\ Head(Rest(t)) = OrderedChoices[t][Tried(t) + 1]
              /\ Rest(t) = <<OrderedChoices[t][Tried(t) + 1]>>
                             \o SubSeq(OrderedChoices[t], Tried(t) + 2, Len(OrderedChoices[t]))
<1> DEFINE choices == OrderedChoices[t]
           n == Tried(t)
           L == Len(choices)
<1>1. choices \in Seq(Candidates) /\ L \in Nat /\ \A i \in 1 .. L : choices[i] \in Candidates
  BY QueueFacts
<1>2. n \in Nat /\ n <= L
  BY AttemptFacts
<1>3. Rest(t) = SubSeq(choices, n + 1, L)
  BY DEF Rest
<1> HIDE DEF choices, n, L
<1>4. Rest(t) \in Seq(Candidates)
  <2>1. \A i \in n + 1 .. L : choices[i] \in Candidates
    BY <1>1, <1>2
  <2> QED
    BY <1>1, <1>2, <1>3, <2>1, SubSeqProperties
<1>5. n = L => Rest(t) = << >>
  BY <1>1, <1>2, <1>3, SubSeqEmpty
<1>6. ASSUME n < L
      PROVE  /\ n + 1 \in 1 .. L /\ choices[n + 1] \in Candidates
             /\ Rest(t) = <<choices[n + 1]>> \o SubSeq(choices, n + 2, L)
             /\ Head(Rest(t)) = choices[n + 1] /\ Rest(t) # << >>
  <2>1. n + 1 \in 1 .. L /\ L \in n + 1 .. L
    BY <1>1, <1>2, <1>6
  <2>2. SubSeq(choices, n + 1, L) = <<choices[n + 1]>> \o SubSeq(choices, (n + 1) + 1, L)
    BY <1>1, <2>1, SubSeqRecursiveFirst DEF L
  <2>3. (n + 1) + 1 = n + 2
    BY <1>2
  <2>4. SubSeq(choices, n + 2, L) \in Seq(Candidates)
    <3>1. \A i \in n + 2 .. L : choices[i] \in Candidates
      BY <1>1, <1>2
    <3>2. n + 2 \in Int /\ L \in Int
      BY <1>1, <1>2
    <3> QED
      BY <3>1, <3>2, SubSeqProperties
  <2>5. choices[n + 1] \in Candidates
    BY <1>1, <2>1
  <2>6. Rest(t) = <<choices[n + 1]>> \o SubSeq(choices, n + 2, L)
    BY <1>3, <2>2, <2>3
  <2> QED
    BY <2>1, <2>4, <2>5, <2>6, ConsFacts
<1>7. n = L \/ n < L
  BY <1>1, <1>2
<1> QED
  BY <1>2, <1>4, <1>5, <1>6, <1>7 DEF n, L, choices

\* The plan entry and the trace of a target agree on how it stands.
LEMMA PlanTells ==
  ASSUME TypeOK, DurableInv, NEW t \in Targets
  PROVE  /\ DurablePlan[t].state = "admitted" <=> StateOf(t) = "admitted"
         /\ StateOf(t) = "exhausted" => DurablePlan[t].state = "exhausted"
         /\ StateOf(t) # "admitted" => DurablePlan[t].fallback = Rest(t)
<1>1. Tried(t) \in Nat
  BY AttemptFacts DEF DurableInv
<1>2. StateOf(t) \in LifecycleStates
  BY StateType
<1>3. LatestAdmitted(t) <=> StateOf(t) = "admitted"
  BY <1>1, <1>2 DEF DurableInv, StateTells, LatestAdmitted, LifecycleStates
<1>4. StateOf(t) = "exhausted" => AllRejected(t)
  BY DEF DurableInv, StateTells, AllRejected
<1>5. AllRejected(t) => Rest(t) = << >>
  BY RestFacts DEF DurableInv, AllRejected
<1>6. /\ LatestAdmitted(t) => DurablePlan[t].state = "admitted"
      /\ AllRejected(t) => DurablePlan[t].state = "exhausted" /\ DurablePlan[t].fallback = << >>
      /\ ~LatestAdmitted(t) /\ ~AllRejected(t) =>
           DurablePlan[t].state = "selected" /\ DurablePlan[t].fallback = Rest(t)
  BY PlanEntry DEF DurableInv
<1> QED
  BY <1>3, <1>4, <1>5, <1>6

\* The early returns are taken for the targets that are done, and the attempt
\* to resume is the latest one when the trace of the target stands at it.
LEMMA ReadFacts ==
  ASSUME IInv, AtTarget
  PROVE  /\ at \in DOMAIN TargetOrder /\ Target \in Targets
         /\ view[Target] = DurablePlan[Target]
         /\ Settled <=> Done(Target)
         /\ ActiveAttempt = IF StateOf(Target) = "active" THEN Latest(Target) ELSE None
<1> DEFINE t == Target
           n == Tried(t)
<1>1. at \in DOMAIN TargetOrder /\ t \in Targets
  BY OrderFacts DEF IInv, Position, AtTarget, Target
<1>2. /\ view[t] = DurablePlan[t]
      /\ \A k \in DOMAIN attempted[t] : attempted[t][k] \in terminal <=> Decided(decisions, attempted[t][k])
  <2>1. pc = "target" /\ at >= at
    BY <1>1, OrderFacts DEF AtTarget
  <2> QED
    BY <1>1, <2>1 DEF IInv, ReadsCurrent, Target
<1>3. Settled <=> Done(t)
  <2>1. "exhausted" \in Range(trace[t]) <=> StateOf(t) = "exhausted"
    BY <1>1, ExhaustedIsLast DEF IInv, DurableInv
  <2>2. /\ DurablePlan[t].state = "admitted" <=> StateOf(t) = "admitted"
        /\ StateOf(t) = "exhausted" => DurablePlan[t].state = "exhausted"
    BY <1>1, PlanTells DEF IInv
  <2> QED
    BY <1>2, <2>1, <2>2 DEF Settled, Done
<1> DEFINE open == {i \in DOMAIN attempted[t] : attempted[t][i] \notin terminal}
<1>4. ActiveAttempt = IF open = {} THEN None
                      ELSE attempted[t][CHOOSE i \in open : \A j \in open : j <= i]
  BY DEF ActiveAttempt
<1>5. /\ n \in Nat /\ DOMAIN attempted[t] = 1 .. n
      /\ \A i \in 1 .. n : attempted[t][i] = OrderedChoices[t][i]
      /\ \A i \in 1 .. n : i \in 1 .. Len(OrderedChoices[t])
  BY <1>1, AttemptFacts DEF IInv, DurableInv
<1>6. \A i \in 1 .. n : i \in open <=> Outcome(OrderedChoices[t][i]) = "undecided"
  BY <1>2, <1>5 DEF Decided, Outcome
<1>7. \A i \in 1 .. n : i < n => Outcome(OrderedChoices[t][i]) = "rejected"
  BY <1>1, <1>5 DEF IInv, DurableInv, PrefixTried
<1>8. StateOf(t) \in LifecycleStates
  BY <1>1, StateType DEF IInv
<1>9. open \subseteq 1 .. n
  BY <1>5
<1> HIDE DEF open, n
<1>10. CASE StateOf(t) = "active"
  <2>1. n > 0 /\ Outcome(OrderedChoices[t][n]) = "undecided"
    BY <1>1, <1>10 DEF IInv, DurableInv, StateTells, Latest, n
  <2>2. n \in 1 .. n
    BY <1>5, <2>1
  <2>3. open = {n}
    BY <1>5, <1>6, <1>7, <1>9, <2>1, <2>2
  <2>4. (CHOOSE i \in open : \A j \in open : j <= i) = n
    BY <1>5, <2>3
  <2>5. ActiveAttempt = OrderedChoices[t][n]
    BY <1>4, <1>5, <2>2, <2>3, <2>4
  <2> QED
    BY <1>1, <1>2, <1>3, <1>10, <2>5 DEF Latest, n
<1>11. CASE StateOf(t) # "active"
  <2>1. ASSUME NEW i \in open PROVE FALSE
    <3>1. i \in 1 .. n /\ Outcome(OrderedChoices[t][i]) = "undecided"
      BY <1>6, <1>9, <2>1
    <3>2. i = n /\ n > 0
      BY <1>5, <1>7, <3>1
    <3>3. Outcome(Latest(t)) = "undecided"
      BY <3>1, <3>2 DEF Latest, n
    <3>4. Tried(t) # 0
      BY <1>5, <3>2 DEF n
    <3> QED
      BY <1>1, <1>8, <1>11, <3>3, <3>4 DEF IInv, DurableInv, StateTells, LifecycleStates
  <2>2. open = {}
    BY <2>1
  <2> QED
    BY <1>1, <1>2, <1>3, <1>4, <1>11, <2>2
<1> QED
  BY <1>10, <1>11

\* The choices a machine starts with are those not tried, behind the primary
\* when it was tried, and behind the attempt to resume.
LEMMA RefsBuilt ==
  ASSUME TypeOK, PrefixTried, NEW t \in Targets, view[t].fallback = Rest(t)
  PROVE  /\ ChoiceRefs(t, None) = IF Tried(t) = 0 THEN Rest(t) ELSE <<Primary(t)>> \o Rest(t)
         /\ Tried(t) > 0 =>
              ChoiceRefs(t, Latest(t)) =
                IF Latest(t) = Primary(t) THEN <<Latest(t)>> \o Rest(t)
                ELSE <<Primary(t)>> \o (<<Latest(t)>> \o Rest(t))
<1> DEFINE choices == OrderedChoices[t]
           n == Tried(t)
           L == Len(choices)
           p == choices[1]
<1>1. /\ choices \in Seq(Candidates) /\ L \in Nat /\ L <= MAX_TARGET_CHOICES
      /\ \A i \in 1 .. L : choices[i] \in Candidates /\ choices[i] # None
  BY QueueFacts
<1>2. n \in Nat /\ n <= L
  BY AttemptFacts
<1>3. MAX_TARGET_CHOICES \in Nat
  BY ChoicesAssumption
<1>4. Rest(t) \in Seq(Candidates) /\ Rest(t) = SubSeq(choices, n + 1, L)
  BY RestFacts DEF Rest
<1>5. choices = << >> <=> L = 0
  BY <1>1
<1>6. \A i, j \in 1 .. L : choices[i] = choices[j] => i = j
  BY OnePlace
<1>7. Primary(t) = p /\ Latest(t) = choices[n]
  BY DEF Primary, Latest
<1> DEFINE first(c) == IF c \in {None, Primary(t)} THEN << >> ELSE <<c>>
           all(c) == <<Primary(t)>> \o first(c) \o Without(view[t].fallback, {Primary(t), c})
           bound(c) == IF Len(all(c)) < MAX_TARGET_CHOICES THEN Len(all(c)) ELSE MAX_TARGET_CHOICES
<1>8. \A c : ChoiceRefs(t, c) = IF choices = << >> THEN << >> ELSE SubSeq(all(c), 1, bound(c))
  BY DEF ChoiceRefs
<1>9. \A c : all(c) = <<p>> \o first(c) \o Without(Rest(t), {p, c})
  BY <1>7
<1>10. ASSUME NEW c, all(c) \in Seq(Candidates), Len(all(c)) <= L
       PROVE  SubSeq(all(c), 1, bound(c)) = all(c)
  <2>1. bound(c) = Len(all(c))
    <3>1. Len(all(c)) \in Nat
      BY <1>10
    <3> HIDE DEF all
    <3> QED
      BY <1>1, <1>3, <1>10, <3>1
  <2> HIDE DEF all, bound
  <2> QED
    BY <1>10, <2>1, SubSeqFull
<1> HIDE DEF all, bound, choices, n, L, p
<1>11. CASE L = 0
  <2>1. ChoiceRefs(t, None) = << >> /\ n = 0
    BY <1>2, <1>5, <1>8, <1>11
  <2>2. Rest(t) = << >>
    BY <1>11, <2>1, RestFacts DEF n, L, choices
  <2> QED
    BY <1>2, <2>1, <2>2 DEF n
<1>12. CASE L > 0
  <2>1. 1 \in 1 .. L /\ p \in Candidates /\ p # None /\ choices # << >>
    BY <1>1, <1>5, <1>12 DEF p
  <2>2. CASE n = 0
    <3>1. Rest(t) = choices
      BY <1>1, <1>4, <2>2, SubSeqFull DEF L
    <3>2. \A i \in 1 .. Len(choices) : choices[i] \in {p, None} <=> i <= 1
      BY <1>1, <1>6, <2>1 DEF p, L
    <3>3. Without(choices, {p, None}) = SubSeq(choices, 1 + 1, L)
      <4>1. 1 \in 0 .. Len(choices)
        BY <1>1, <1>12 DEF L
      <4> QED
        BY <1>1, <3>2, <4>1, WithoutPrefix DEF L
    <3>4. first(None) = << >>
      OBVIOUS
    <3>5. SubSeq(choices, 1, L) = <<p>> \o SubSeq(choices, 1 + 1, L)
      <4>1. L \in 1 .. L
        BY <1>1, <1>12
      <4> QED
        BY <1>1, <2>1, <4>1, SubSeqRecursiveFirst DEF L, p
    <3>6. all(None) = choices
      <4>1. <<p>> \o << >> = <<p>>
        BY <2>1, ConcatEmptySeq
      <4>2. all(None) = <<p>> \o first(None) \o Without(Rest(t), {p, None})
        BY <1>9
      <4>3. all(None) = <<p>> \o Without(Rest(t), {p, None})
        BY <3>4, <4>1, <4>2
      <4>4. all(None) = <<p>> \o SubSeq(choices, 1 + 1, L)
        BY <3>1, <3>3, <4>3
      <4>5. SubSeq(choices, 1, L) = choices
        BY <1>1, SubSeqFull DEF L
      <4> QED
        BY <3>5, <4>4, <4>5
    <3>7. ChoiceRefs(t, None) = choices
      <4>1. all(None) \in Seq(Candidates) /\ Len(all(None)) <= L
        BY <1>1, <3>6 DEF L
      <4> QED
        BY <1>8, <1>10, <2>1, <3>6, <4>1
    <3> QED
      BY <2>2, <3>1, <3>7 DEF n
  <2>3. CASE n > 0
    <3>1. n \in 1 .. L /\ choices[n] \in Candidates /\ choices[n] # None
      <4>1. n \in 1 .. L
        BY <1>2, <2>3
      <4> QED
        BY <1>1, <4>1
    <3>2. Len(Rest(t)) = L - n /\ \A i \in 1 .. L - n : Rest(t)[i] = choices[n + i]
      <4>1. n + 1 \in Int /\ L \in Int /\ \A i \in n + 1 .. L : choices[i] \in Candidates
        BY <1>1, <1>2
      <4>2. /\ Len(SubSeq(choices, n + 1, L)) = IF n + 1 <= L THEN L - (n + 1) + 1 ELSE 0
            /\ \A i \in 1 .. L - (n + 1) + 1 : SubSeq(choices, n + 1, L)[i] = choices[(n + 1) + i - 1]
        BY <4>1, SubSeqProperties
      <4>3. L - (n + 1) + 1 = L - n /\ (~ (n + 1 <= L) => L - n = 0)
        BY <1>1, <1>2
      <4>4. \A i \in 1 .. L - n : (n + 1) + i - 1 = n + i
        BY <1>1, <1>2
      <4> QED
        BY <1>4, <4>2, <4>3, <4>4
    <3>3. ASSUME NEW c, c = None \/ c = choices[n]
          PROVE  Without(Rest(t), {p, c}) = Rest(t)
      <4>1. \A i \in 1 .. Len(Rest(t)) : Rest(t)[i] \in {p, c} <=> i <= 0
        <5> TAKE i \in 1 .. Len(Rest(t))
        <5>1. i \in 1 .. L - n
          BY <3>2
        <5>2. /\ n + i \in 1 .. L /\ n + i # 1 /\ n + i # n /\ ~ (i <= 0)
          BY <1>1, <1>2, <2>3, <5>1
        <5>3. choices[n + i] # p /\ choices[n + i] # choices[n] /\ choices[n + i] # None
          BY <1>1, <1>6, <2>1, <3>1, <5>2 DEF p
        <5> QED
          BY <3>2, <3>3, <5>1, <5>2, <5>3
      <4>2. 0 \in 0 .. Len(Rest(t))
        BY <1>1, <1>2, <3>2
      <4>3. Without(Rest(t), {p, c}) = SubSeq(Rest(t), 0 + 1, Len(Rest(t)))
        BY <1>4, <4>1, <4>2, WithoutPrefix
      <4>4. Rest(t) \in Seq(Candidates) /\ 0 + 1 = 1
        BY <1>4
      <4> QED
        BY <4>3, <4>4, SubSeqFull
    <3>4. /\ <<p>> \o Rest(t) \in Seq(Candidates)
          /\ Len(<<p>> \o Rest(t)) = (L - n) + 1
      BY <1>4, <2>1, <3>2, ConsFacts
    <3>5. <<p>> \o << >> = <<p>>
      BY <2>1, ConcatEmptySeq
    <3>6. (L - n) + 1 <= L
      BY <1>1, <1>2, <2>3
    <3>7. ASSUME NEW c, c = None \/ c = choices[n], c \in {None, p}
          PROVE  ChoiceRefs(t, c) = <<p>> \o Rest(t)
      <4>1. first(c) = << >>
        BY <1>7, <3>7
      <4>2. all(c) = <<p>> \o Rest(t)
        BY <1>9, <3>3, <3>5, <3>7, <4>1
      <4>3. all(c) \in Seq(Candidates) /\ Len(all(c)) <= L
        BY <3>4, <3>6, <4>2
      <4> QED
        BY <1>8, <1>10, <2>1, <4>2, <4>3
    <3>8. ASSUME choices[n] # p
          PROVE  ChoiceRefs(t, choices[n]) = <<p>> \o (<<choices[n]>> \o Rest(t))
      <4> DEFINE c == choices[n]
      <4>1. first(c) = <<c>>
        BY <1>7, <3>1, <3>8
      <4>2. (<<p>> \o <<c>>) \o Rest(t) = <<p>> \o (<<c>> \o Rest(t))
        <5>1. <<p>> \in Seq(Candidates) /\ <<c>> \in Seq(Candidates)
          BY <2>1, <3>1
        <5> QED
          BY <1>4, <5>1, ConcatAssociative
      <4>3. all(c) = <<p>> \o (<<c>> \o Rest(t))
        BY <1>9, <3>3, <4>1, <4>2
      <4>4. <<c>> \o Rest(t) \in Seq(Candidates) /\ Len(<<c>> \o Rest(t)) = (L - n) + 1
        BY <1>4, <3>1, <3>2, ConsFacts
      <4>5. /\ <<p>> \o (<<c>> \o Rest(t)) \in Seq(Candidates)
            /\ Len(<<p>> \o (<<c>> \o Rest(t))) = ((L - n) + 1) + 1
        BY <2>1, <4>4, ConsFacts
      <4>6. n # 1
        BY <3>8 DEF p
      <4>7. ((L - n) + 1) + 1 <= L
        BY <1>1, <1>2, <2>3, <4>6
      <4> QED
        BY <1>8, <1>10, <2>1, <4>3, <4>5, <4>7
    <3>9. ChoiceRefs(t, None) = <<p>> \o Rest(t)
      BY <3>7
    <3>10. ChoiceRefs(t, choices[n]) = IF choices[n] = p THEN <<choices[n]>> \o Rest(t)
                                       ELSE <<p>> \o (<<choices[n]>> \o Rest(t))
      BY <3>7, <3>8
    <3>11. n # 0
      BY <2>3
    <3> QED
      BY <1>7, <3>9, <3>10, <3>11 DEF n
  <2> QED
    BY <1>2, <2>2, <2>3
<1> QED
  BY <1>1, <1>11, <1>12

LEMMA AttemptedFacts ==
  ASSUME TypeOK, PrefixTried, NEW t \in Targets, NEW i \in 1 .. Len(OrderedChoices[t])
  PROVE  OrderedChoices[t][i] \in Attempted <=> i <= Tried(t)
<1>1. ASSUME i <= Tried(t) PROVE OrderedChoices[t][i] \in Attempted
  <2>1. i \in 1 .. Tried(t) /\ i \in DOMAIN attempted[t] /\ attempted[t][i] = OrderedChoices[t][i]
    <3>1. i \in 1 .. Tried(t)
      BY <1>1, AttemptFacts, QueueFacts
    <3> QED
      BY <3>1, AttemptFacts
  <2> QED
    BY <2>1 DEF Attempted, Range
<1>2. ASSUME OrderedChoices[t][i] \in Attempted PROVE i <= Tried(t)
  <2>0. PICK u \in Targets : OrderedChoices[t][i] \in Range(attempted[u])
    BY <1>2 DEF Attempted
  <2>1. PICK j \in DOMAIN attempted[u] : OrderedChoices[t][i] = attempted[u][j]
    BY <2>0 DEF Range
  <2>2. /\ j \in 1 .. Tried(u) /\ j \in 1 .. Len(OrderedChoices[u])
        /\ attempted[u][j] = OrderedChoices[u][j]
    BY AttemptFacts
  <2>3. u = t /\ j = i
    BY <2>1, <2>2, OnePlace
  <2> QED
    BY <2>2, <2>3, AttemptFacts
<1> QED
  BY <1>1, <1>2

LEMMA RangeAttempted ==
  ASSUME TypeOK, PrefixTried, NEW t \in Targets
  PROVE  /\ Range(attempted[t]) \subseteq Attempted
         /\ Range(attempted[t]) \subseteq Candidates
         /\ Attempted \subseteq Candidates
         /\ None \notin Range(attempted[t])
         /\ Tried(t) > 0 =>
              /\ 1 \in 1 .. Len(OrderedChoices[t]) /\ Tried(t) \in 1 .. Len(OrderedChoices[t])
              /\ Primary(t) \in Range(attempted[t]) /\ Latest(t) \in Range(attempted[t])
<1>1. \A u \in Targets : Range(attempted[u]) \subseteq Candidates
  <2> TAKE u \in Targets
  <2>1. attempted[u] \in Seq(Candidates)
    BY DEF TypeOK
  <2> QED
    BY <2>1, RangeOfSeq DEF Range
<1>2. Attempted \subseteq Candidates
  BY <1>1 DEF Attempted
<1>3. ASSUME Tried(t) > 0
      PROVE  /\ 1 \in 1 .. Len(OrderedChoices[t]) /\ Tried(t) \in 1 .. Len(OrderedChoices[t])
             /\ Primary(t) \in Range(attempted[t]) /\ Latest(t) \in Range(attempted[t])
  <2>1. 1 \in 1 .. Tried(t) /\ Tried(t) \in 1 .. Tried(t)
    BY <1>3, AttemptFacts
  <2>2. /\ 1 \in 1 .. Len(OrderedChoices[t]) /\ Tried(t) \in 1 .. Len(OrderedChoices[t])
        /\ 1 \in DOMAIN attempted[t] /\ Tried(t) \in DOMAIN attempted[t]
        /\ attempted[t][1] = Primary(t) /\ attempted[t][Tried(t)] = Latest(t)
    BY <2>1, AttemptFacts DEF Primary, Latest
  <2> QED
    BY <2>2 DEF Range
<1> QED
  BY <1>1, <1>2, <1>3, ChoicesAssumption DEF Attempted

\* What stands at the head of the choices left, for each way the machine may go.
LEMMA LeftFacts ==
  ASSUME TypeOK, DurableInv, NEW t \in Targets, ~Done(t), Left(t), reserved = Attempted
  PROVE  /\ refs = << >> =>
              StateOf(t) \in {"pending", "rejected"} /\ Tried(t) = Len(OrderedChoices[t])
         /\ refs # << >> /\ Head(refs) \in reserved /\ Head(refs) # resumed =>
              IF StateOf(t) = "active"
              THEN Tail(refs) = <<Latest(t)>> \o Rest(t) /\ resumed = Latest(t)
              ELSE Tail(refs) = Rest(t) /\ resumed = None
         /\ refs # << >> /\ Head(refs) \notin reserved /\ Head(refs) # resumed =>
              /\ StateOf(t) \in {"pending", "rejected"}
              /\ Tried(t) < Len(OrderedChoices[t])
              /\ Head(refs) = OrderedChoices[t][Tried(t) + 1]
              /\ refs = <<OrderedChoices[t][Tried(t) + 1]>>
                          \o SubSeq(OrderedChoices[t], Tried(t) + 2, Len(OrderedChoices[t]))
              /\ resumed \in {None} \cup Range(attempted[t])
         /\ refs # << >> /\ Head(refs) = resumed =>
              /\ StateOf(t) = "active" /\ refs = <<Latest(t)>> \o Rest(t)
              /\ resumed = Latest(t)
<1>1. StateOf(t) \in {"pending", "active", "rejected"}
  BY StateType DEF Done, LifecycleStates
<1>2. Tried(t) \in Nat /\ Tried(t) <= Len(OrderedChoices[t]) /\ Len(OrderedChoices[t]) \in Nat
  BY AttemptFacts, QueueFacts DEF DurableInv
<1>3. /\ Rest(t) \in Seq(Candidates)
      /\ Rest(t) = << >> <=> Tried(t) = Len(OrderedChoices[t])
      /\ Tried(t) < Len(OrderedChoices[t]) =>
           /\ Tried(t) + 1 \in 1 .. Len(OrderedChoices[t])
           /\ Head(Rest(t)) = OrderedChoices[t][Tried(t) + 1]
           /\ Rest(t) = <<OrderedChoices[t][Tried(t) + 1]>>
                          \o SubSeq(OrderedChoices[t], Tried(t) + 2, Len(OrderedChoices[t]))
  BY RestFacts DEF DurableInv
<1>4. /\ Range(attempted[t]) \subseteq Attempted /\ Range(attempted[t]) \subseteq Candidates
      /\ None \notin Range(attempted[t])
      /\ Tried(t) > 0 => Primary(t) \in Range(attempted[t]) /\ Latest(t) \in Range(attempted[t])
  BY RangeAttempted DEF DurableInv
<1>5. CASE StateOf(t) = "active"
  <2>1. Tried(t) > 0
    BY <1>5 DEF DurableInv, StateTells
  <2>2. Primary(t) \in Candidates /\ Latest(t) \in Candidates /\ Primary(t) \in reserved
    BY <1>4, <2>1
  <2>3. /\ <<Latest(t)>> \o Rest(t) \in Seq(Candidates) /\ <<Latest(t)>> \o Rest(t) # << >>
        /\ Head(<<Latest(t)>> \o Rest(t)) = Latest(t)
    BY <1>3, <2>2, ConsFacts
  <2>4. resumed = Latest(t)
    BY <1>5 DEF Left
  <2>5. CASE refs = <<Latest(t)>> \o Rest(t)
    BY <1>5, <2>3, <2>4, <2>5
  <2>6. CASE Primary(t) # Latest(t) /\ refs = <<Primary(t)>> \o (<<Latest(t)>> \o Rest(t))
    <3>1. refs # << >> /\ Head(refs) = Primary(t) /\ Tail(refs) = <<Latest(t)>> \o Rest(t)
      BY <2>2, <2>3, <2>6, ConsFacts
    <3> QED
      BY <1>5, <2>2, <2>4, <2>6, <3>1
  <2> QED
    BY <1>5, <2>5, <2>6 DEF Left
<1>6. CASE StateOf(t) # "active"
  <2>1. StateOf(t) \in {"pending", "rejected"}
    BY <1>1, <1>6
  <2>2. CASE refs = Rest(t) /\ resumed \in {None} \cup Range(attempted[t])
    <3>1. CASE Tried(t) = Len(OrderedChoices[t])
      BY <1>3, <2>1, <2>2, <3>1
    <3>2. CASE Tried(t) < Len(OrderedChoices[t])
      <4>1. Tried(t) + 1 \in 1 .. Len(OrderedChoices[t]) /\ ~ (Tried(t) + 1 <= Tried(t))
        BY <1>2, <1>3, <3>2
      <4>2. OrderedChoices[t][Tried(t) + 1] \notin Attempted
        BY <4>1, AttemptedFacts DEF DurableInv
      <4>3. OrderedChoices[t][Tried(t) + 1] # None
        BY <4>1, QueueFacts
      <4>4. OrderedChoices[t][Tried(t) + 1] # resumed
        BY <1>4, <2>2, <4>2, <4>3
      <4>5. refs # << >>
        BY <1>2, <1>3, <2>2, <3>2
      <4> QED
        BY <1>3, <1>6, <2>1, <2>2, <3>2, <4>2, <4>4, <4>5
    <3> QED
      BY <1>2, <3>1, <3>2
  <2>3. CASE refs = <<Primary(t)>> \o Rest(t) /\ resumed = None /\ Tried(t) > 0
    <3>1. Primary(t) \in Candidates /\ Primary(t) \in reserved /\ Primary(t) # None
      BY <1>4, <2>3
    <3>2. refs # << >> /\ Head(refs) = Primary(t) /\ Tail(refs) = Rest(t)
      BY <1>3, <2>3, <3>1, ConsFacts
    <3> QED
      BY <1>6, <2>3, <3>1, <3>2
  <2> QED
    BY <1>6, <2>2, <2>3 DEF Left
<1> QED
  BY <1>5, <1>6

--------------------------------------------------------------------------------
(***************************************************************************)
(* Every step keeps the invariant.                                         *)
(***************************************************************************)

LEMMA PlanType ==
  ASSUME TypeOK
  PROVE  DOMAIN DurablePlan = Targets
BY DEF DurablePlan, DerivePlan

\* A commit for the target at work is invisible to the targets to come.
LEMMA CommitKeepsReads ==
  ASSUME TypeOK, DurableInv, ReadsCurrent, NEW t \in Targets, AtWork(t),
         pc = "target" \/ Working, view' = view,
         \A u \in Targets : u # t => attempted'[u] = attempted[u],
         pc' = "target" => at' = at + 1, Working' => at' = at,
         at' \in Nat
  PROVE  ReadsCurrent'
<1> SUFFICES ASSUME NEW i \in DOMAIN TargetOrder,
                    (pc' = "target" /\ i >= at') \/ (Working' /\ i > at')
             PROVE  /\ view'[TargetOrder[i]] = DurablePlan'[TargetOrder[i]]
                    /\ \A k \in DOMAIN attempted'[TargetOrder[i]] :
                         attempted'[TargetOrder[i]][k] \in terminal' <=>
                           Decided(decisions', attempted'[TargetOrder[i]][k])
  BY DEF ReadsCurrent
<1> DEFINE u == TargetOrder[i]
<1>1. i > at
  <2>1. at \in Nat /\ i \in Nat
    BY OrderFacts DEF AtWork
  <2> QED
    BY <2>1
<1>2. u \in Targets /\ u # t /\ Tried(u) = 0
  BY <1>1, LaterUntouched
<1>3. attempted[u] = << >> /\ attempted'[u] = << >>
  <2>1. attempted[u] \in Seq(Candidates) /\ Len(attempted[u]) = 0
    BY <1>2 DEF TypeOK, Tried
  <2>2. attempted[u] = << >>
    BY <2>1
  <2> QED
    BY <1>2, <2>2
<1>4. view[u] = DurablePlan[u]
  <2>1. (pc = "target" /\ i >= at) \/ (Working /\ i > at)
    <3>1. i >= at
      BY <1>1, OrderFacts DEF AtWork
    <3> QED
      BY <1>1, <3>1
  <2> QED
    BY <2>1 DEF ReadsCurrent
<1>5. DurablePlan'[u] = DurablePlan[u]
  <2>1. AdmittedIn(<< >>, decisions) = {} /\ AdmittedIn(<< >>, decisions') = {}
    BY DEF AdmittedIn
  <2>2. AdmittedId(<< >>, decisions) = None /\ AdmittedId(<< >>, decisions') = None
    BY <2>1 DEF AdmittedId
  <2>3. TargetState(u, << >>, decisions') = TargetState(u, << >>, decisions)
    BY <2>2 DEF TargetState, TargetTerminal
  <2>4. FallbackAvailable(u, << >>, decisions') = FallbackAvailable(u, << >>, decisions)
    BY <2>3 DEF FallbackAvailable
  <2> QED
    BY <1>2, <1>3, <2>2, <2>3, <2>4 DEF DurablePlan, DerivePlan
<1> QED
  BY <1>3, <1>4, <1>5

\* A commit that ends its target leaves the loop at the next one.
LEMMA DoneMovesOn ==
  ASSUME TypeOK, NEW t \in Targets, AtWork(t), at \in DOMAIN TargetOrder,
         NEW next \in {"admitted", "exhausted"}, Moves(t, next),
         pc' = "target", at' = at + 1
  PROVE  Position'
<1>1. next \in LifecycleStates
  BY DEF LifecycleStates
<1>2. StateOf(t)' = next /\ \A u \in Targets : u # t => StateOf(u)' = StateOf(u)
  BY <1>1, TransitionFacts
<1>3. at' \in 1 .. Len(TargetOrder) + 1
  BY OrderFacts
<1>4. ASSUME NEW i \in DOMAIN TargetOrder, i < at' PROVE Done(TargetOrder[i])'
  <2>1. CASE i = at
    BY <1>2, <2>1 DEF Done, AtWork, Target
  <2>2. CASE i # at
    <3>1. i < at /\ TargetOrder[i] \in Targets
      BY <1>4, <2>2, OrderFacts
    <3>2. Done(TargetOrder[i]) /\ TargetOrder[i] # t
      BY <3>1 DEF AtWork
    <3> QED
      BY <1>2, <3>1, <3>2 DEF Done
  <2> QED
    BY <2>1, <2>2
<1> QED
  BY <1>3, <1>4 DEF Position, Working

\* A commit that does not end its target leaves it at work.
LEMMA WorkGoesOn ==
  ASSUME TypeOK, NEW t \in Targets, AtWork(t), at \in DOMAIN TargetOrder,
         NEW next \in {"active", "rejected"}, Moves(t, next),
         pc' \in {"machine", "attempting"}, at' = at
  PROVE  Position'
<1>1. next \in LifecycleStates
  BY DEF LifecycleStates
<1>2. StateOf(t)' = next /\ \A u \in Targets : u # t => StateOf(u)' = StateOf(u)
  BY <1>1, TransitionFacts
<1>3. at' \in 1 .. Len(TargetOrder) + 1 /\ at' <= Len(TargetOrder)
  BY OrderFacts
<1>4. ASSUME NEW i \in DOMAIN TargetOrder, i < at' PROVE Done(TargetOrder[i])'
  <2>1. Done(TargetOrder[i]) /\ TargetOrder[i] # t /\ TargetOrder[i] \in Targets
    BY <1>4, OrderFacts DEF AtWork
  <2> QED
    BY <1>2, <2>1 DEF Done
<1>5. ~Done(Target)'
  <2>1. Target' = t
    BY DEF AtWork, Target
  <2> QED
    BY <1>2, <2>1 DEF Done
<1> QED
  BY <1>3, <1>4, <1>5 DEF Position, Working

LEMMA BeginFacts ==
  ASSUME IInv, (pc = "target" /\ at <= Len(TargetOrder) /\ ~Settled) \/ Working
  PROVE  at \in DOMAIN TargetOrder /\ Target \in Targets /\ AtWork(Target)
<1>1. at \in DOMAIN TargetOrder
  BY OrderFacts DEF IInv, Position, Working
<1>2. Target \in Targets
  BY <1>1, OrderFacts DEF Target
<1>3. ~Done(Target)
  BY ReadFacts DEF IInv, Position, AtTarget
<1> QED
  BY <1>1, <1>2, <1>3 DEF IInv, Position, AtWork, Working

LEMMA InitKeeps == Init => IInv
<1> SUFFICES ASSUME Init PROVE IInv
  OBVIOUS
<1>1. TypeOK
  <2>1. << >> \in Seq(Candidates) /\ << >> \in Seq(LifecycleStates)
    BY EmptySeq
  <2>2. DOMAIN view = Targets
    BY DEF Init, DurablePlan, DerivePlan
  <2> QED
    BY <2>1, <2>2 DEF Init, TypeOK, LifecycleStates
<1>2. \A t \in Targets : /\ attempted[t] = << >> /\ Tried(t) = 0
                         /\ trace[t] = << >> /\ StateOf(t) = "pending"
  BY DEF Init, Tried, StateOf
<1>3. PrefixTried
  <2> SUFFICES ASSUME NEW t \in Targets
               PROVE  /\ Tried(t) <= Len(OrderedChoices[t])
                      /\ attempted[t] = SubSeq(OrderedChoices[t], 1, Tried(t))
                      /\ \A i \in 1 .. Len(OrderedChoices[t]) :
                           /\ i < Tried(t) => Outcome(OrderedChoices[t][i]) = "rejected"
                           /\ i > Tried(t) => Outcome(OrderedChoices[t][i]) = "undecided"
    BY DEF PrefixTried
  <2>1. SubSeq(OrderedChoices[t], 1, 0) = << >>
    BY SubSeqEmpty
  <2>2. \A i \in 1 .. Len(OrderedChoices[t]) : Outcome(OrderedChoices[t][i]) = "undecided"
    BY QueueFacts DEF Init, Outcome
  <2>3. \A i \in 1 .. Len(OrderedChoices[t]) : ~ (i < 0)
    BY QueueFacts
  <2>4. Tried(t) = 0 /\ attempted[t] = SubSeq(OrderedChoices[t], 1, Tried(t))
    BY <1>2, <2>1
  <2>5. Tried(t) <= Len(OrderedChoices[t])
    BY <2>4, QueueFacts
  <2> QED
    BY <2>2, <2>3, <2>4, <2>5
<1>4. StateTells
  BY <1>2 DEF StateTells
<1>5. TraceLegal
  <2> SUFFICES ASSUME NEW t \in Targets
               PROVE  Cardinality({i \in DOMAIN trace[t] : trace[t][i] = "active"}) = Len(attempted[t])
    BY <1>2 DEF TraceLegal
  <2>1. {i \in DOMAIN trace[t] : trace[t][i] = "active"} = {}
    BY <1>2
  <2>2. Len(attempted[t]) = 0
    BY <1>2
  <2> QED
    BY <2>1, <2>2, FS_EmptySet
<1>6. InOrder
  BY <1>2, OrderFacts DEF InOrder
<1>7. Position /\ ReadsCurrent /\ ReservedKnown /\ ChoicesLeft /\ MachineMatchesTrace
  BY DEF Init, Position, ReadsCurrent, ReservedKnown, ChoicesLeft, MachineMatchesTrace, Working
<1> QED
  BY <1>1, <1>3, <1>4, <1>5, <1>6, <1>7 DEF IInv, DurableInv

LEMMA DurableSame ==
  ASSUME DurableInv, UNCHANGED durable
  PROVE  /\ DurableInv' /\ DurablePlan' = DurablePlan /\ Attempted' = Attempted
         /\ \A t \in Targets : /\ StateOf(t)' = StateOf(t) /\ Done(t)' = Done(t)
                               /\ Tried(t)' = Tried(t) /\ Latest(t)' = Latest(t) /\ Rest(t)' = Rest(t)
<1>1. attempted' = attempted /\ decisions' = decisions /\ trace' = trace
  BY DEF durable
<1>2. PrefixTried' /\ StateTells'
  BY <1>1 DEF DurableInv, PrefixTried, StateTells, Tried, Latest, Outcome, StateOf
<1>3. TraceLegal' /\ InOrder'
  BY <1>1 DEF DurableInv, TraceLegal, InOrder, Done, StateOf
<1>4. DurablePlan' = DurablePlan /\ Attempted' = Attempted
  BY <1>1 DEF DurablePlan, Attempted
<1> QED
  BY <1>1, <1>2, <1>3, <1>4 DEF DurableInv, StateOf, Done, Tried, Latest, Rest

LEMMA OpenStep == IInv /\ Open => IInv'
<1> SUFFICES ASSUME IInv, Open PROVE IInv'
  OBVIOUS
<1>1. /\ DurableInv' /\ DurablePlan' = DurablePlan /\ Attempted' = Attempted
      /\ pc' = "target" /\ at' = 1 /\ view' = DurablePlan /\ terminal' = DecidedIds
      /\ attempted' = attempted /\ decisions' = decisions
  BY DurableSame DEF IInv, Open, durable
<1>2. TypeOK'
  <2>1. Attempted \subseteq Candidates
    <3>1. \A t \in Targets : Range(attempted[t]) \subseteq Candidates
      BY RangeAttempted DEF IInv, DurableInv
    <3> QED
      BY <3>1 DEF Attempted
  <2> QED
    BY <2>1, PlanType DEF IInv, TypeOK, Open, durable, DecidedIds
<1>3. Position'
  <2>1. \A i \in DOMAIN TargetOrder : ~ (i < 1)
    BY OrderFacts
  <2>2. 1 \in 1 .. Len(TargetOrder) + 1
    BY OrderFacts
  <2> QED
    BY <1>1, <2>1, <2>2 DEF Position, Working
<1>4. ReadsCurrent'
  <2> SUFFICES ASSUME NEW i \in DOMAIN TargetOrder
               PROVE  \A k \in DOMAIN attempted[TargetOrder[i]] :
                        attempted[TargetOrder[i]][k] \in DecidedIds <=>
                          Decided(decisions, attempted[TargetOrder[i]][k])
    BY <1>1 DEF ReadsCurrent
  <2>1. TargetOrder[i] \in Targets
    BY OrderFacts
  <2>2. \A k \in DOMAIN attempted[TargetOrder[i]] : attempted[TargetOrder[i]][k] \in Candidates
    BY <2>1, RangeAttempted DEF IInv, DurableInv, Range
  <2> QED
    BY <2>2 DEF DecidedIds
<1>5. ReservedKnown' /\ ChoicesLeft' /\ MachineMatchesTrace'
  BY <1>1 DEF Open, ReservedKnown, ChoicesLeft, MachineMatchesTrace
<1> QED
  BY <1>1, <1>2, <1>3, <1>4, <1>5 DEF IInv

LEMMA SkipTargetStep == IInv /\ SkipTarget => IInv'
<1> SUFFICES ASSUME IInv, SkipTarget PROVE IInv'
  OBVIOUS
<1>1. /\ DurableInv' /\ DurablePlan' = DurablePlan /\ Attempted' = Attempted
      /\ pc' = "target" /\ at' = at + 1 /\ view' = view /\ terminal' = terminal
      /\ attempted' = attempted /\ decisions' = decisions
      /\ \A t \in Targets : Done(t)' = Done(t)
  BY DurableSame DEF IInv, SkipTarget, NextTarget, durable
<1>2. at \in DOMAIN TargetOrder /\ Target \in Targets /\ Done(Target) /\ pc = "target"
  BY ReadFacts DEF SkipTarget, AtTarget
<1>3. TypeOK'
  BY <1>1 DEF IInv, TypeOK, SkipTarget, durable
<1>4. Position'
  <2>1. ASSUME NEW i \in DOMAIN TargetOrder, i < at + 1 PROVE Done(TargetOrder[i])
    <3>1. i < at \/ i = at
      BY <1>2, <2>1, OrderFacts
    <3> QED
      BY <1>2, <3>1 DEF IInv, Position, Target
  <2>2. at + 1 \in 1 .. Len(TargetOrder) + 1
    BY <1>2, OrderFacts
  <2> QED
    BY <1>1, <2>1, <2>2, OrderFacts DEF Position, Working
<1>5. ReadsCurrent'
  <2>1. \A i \in DOMAIN TargetOrder : i >= at + 1 => i >= at
    BY <1>2, OrderFacts
  <2> QED
    BY <1>1, <1>2, <2>1 DEF IInv, ReadsCurrent, Working
<1>6. ReservedKnown' /\ ChoicesLeft' /\ MachineMatchesTrace'
  BY <1>1, <1>2 DEF IInv, SkipTarget, ReservedKnown, ChoicesLeft, MachineMatchesTrace
<1> QED
  BY <1>1, <1>3, <1>4, <1>5, <1>6 DEF IInv

\* The choices of a machine that is started are choices.
LEMMA RefsType ==
  ASSUME TypeOK, PrefixTried, NEW t \in Targets
  PROVE  /\ Rest(t) \in Seq(Candidates)
         /\ Tried(t) > 0 =>
              /\ <<Primary(t)>> \o Rest(t) \in Seq(Candidates)
              /\ <<Latest(t)>> \o Rest(t) \in Seq(Candidates)
              /\ <<Primary(t)>> \o (<<Latest(t)>> \o Rest(t)) \in Seq(Candidates)
<1>1. Rest(t) \in Seq(Candidates)
  BY RestFacts
<1>2. ASSUME Tried(t) > 0
      PROVE  /\ <<Primary(t)>> \o Rest(t) \in Seq(Candidates)
             /\ <<Latest(t)>> \o Rest(t) \in Seq(Candidates)
             /\ <<Primary(t)>> \o (<<Latest(t)>> \o Rest(t)) \in Seq(Candidates)
  <2>1. Primary(t) \in Candidates /\ Latest(t) \in Candidates
    BY <1>2, RangeAttempted
  <2>2. <<Latest(t)>> \o Rest(t) \in Seq(Candidates)
    BY <1>1, <2>1, ConsFacts
  <2> QED
    BY <1>1, <2>1, <2>2, ConsFacts
<1> QED
  BY <1>1, <1>2

LEMMA BeginTargetStep == IInv /\ BeginTarget => IInv'
<1> SUFFICES ASSUME IInv, BeginTarget PROVE IInv'
  OBVIOUS
<1> DEFINE t == Target
<1>1. /\ DurableInv' /\ DurablePlan' = DurablePlan /\ Attempted' = Attempted
      /\ pc' = "machine" /\ at' = at /\ view' = view /\ terminal' = terminal /\ reserved' = reserved
      /\ attempted' = attempted /\ decisions' = decisions /\ state' = StateOf(t)
      /\ refs' = ChoiceRefs(t, ActiveAttempt) /\ resumed' = ActiveAttempt
      /\ \A u \in Targets : /\ Done(u)' = Done(u) /\ StateOf(u)' = StateOf(u)
                            /\ Tried(u)' = Tried(u) /\ Latest(u)' = Latest(u) /\ Rest(u)' = Rest(u)
      /\ \A u \in Targets : Primary(u)' = Primary(u)
  BY DurableSame DEF IInv, BeginTarget, StartMachine, MachineInitialState, durable, Primary
<1>2. /\ at \in DOMAIN TargetOrder /\ t \in Targets /\ pc = "target"
      /\ view[t] = DurablePlan[t] /\ ~Done(t)
      /\ ActiveAttempt = IF StateOf(t) = "active" THEN Latest(t) ELSE None
  BY ReadFacts DEF BeginTarget, AtTarget
<1>3. Target' = t
  BY <1>1 DEF Target
<1>4. view[t].fallback = Rest(t)
  <2>1. StateOf(t) # "admitted"
    BY <1>2 DEF Done
  <2> QED
    BY <1>2, <2>1, PlanTells DEF IInv
<1>5. /\ ChoiceRefs(t, None) = IF Tried(t) = 0 THEN Rest(t) ELSE <<Primary(t)>> \o Rest(t)
      /\ Tried(t) > 0 =>
           ChoiceRefs(t, Latest(t)) =
             IF Latest(t) = Primary(t) THEN <<Latest(t)>> \o Rest(t)
             ELSE <<Primary(t)>> \o (<<Latest(t)>> \o Rest(t))
  BY <1>2, <1>4, RefsBuilt DEF IInv, DurableInv
<1>6. Tried(t) \in Nat /\ (StateOf(t) = "active" => Tried(t) > 0)
  BY <1>2, AttemptFacts DEF IInv, DurableInv, StateTells
<1>7. /\ Rest(t) \in Seq(Candidates)
      /\ Tried(t) > 0 =>
           /\ <<Primary(t)>> \o Rest(t) \in Seq(Candidates)
           /\ <<Latest(t)>> \o Rest(t) \in Seq(Candidates)
           /\ <<Primary(t)>> \o (<<Latest(t)>> \o Rest(t)) \in Seq(Candidates)
  BY <1>2, RefsType DEF IInv, DurableInv
<1>8. refs' \in Seq(Candidates) /\ resumed' \in Candidates \cup {None}
  <2>1. Tried(t) > 0 => Latest(t) \in Candidates
    BY <1>2, RangeAttempted DEF IInv, DurableInv
  <2>2. resumed' \in Candidates \cup {None}
    BY <1>1, <1>2, <1>6, <2>1
  <2>3. \/ refs' = Rest(t)
        \/ Tried(t) > 0 /\ refs' = <<Primary(t)>> \o Rest(t)
        \/ Tried(t) > 0 /\ refs' = <<Latest(t)>> \o Rest(t)
        \/ Tried(t) > 0 /\ refs' = <<Primary(t)>> \o (<<Latest(t)>> \o Rest(t))
    BY <1>1, <1>2, <1>5, <1>6
  <2> QED
    BY <1>7, <2>2, <2>3
<1>9. TypeOK'
  <2>1. StateOf(t) \in LifecycleStates
    BY <1>2, StateType DEF IInv
  <2> QED
    BY <1>1, <1>8, <2>1 DEF IInv, TypeOK, BeginTarget, durable
<1>10. Left(t)'
  <2>1. CASE StateOf(t) = "active"
    <3>1. resumed' = Latest(t)
      BY <1>1, <1>2, <2>1
    <3>2. \/ refs' = <<Latest(t)>> \o Rest(t)
          \/ /\ Primary(t) # Latest(t)
             /\ refs' = <<Primary(t)>> \o (<<Latest(t)>> \o Rest(t))
      BY <1>1, <1>2, <1>5, <1>6, <2>1
    <3> QED
      BY <1>1, <1>2, <1>3, <2>1, <3>1, <3>2 DEF Left
  <2>2. CASE StateOf(t) # "active"
    <3>1. resumed' = None
      BY <1>1, <1>2, <2>2
    <3>2. \/ refs' = Rest(t)
          \/ refs' = <<Primary(t)>> \o Rest(t) /\ Tried(t) > 0
      BY <1>1, <1>2, <1>5, <1>6, <2>2
    <3> QED
      BY <1>1, <1>2, <1>3, <2>2, <3>1, <3>2 DEF Left
  <2> QED
    BY <2>1, <2>2
<1>11. Position'
  BY <1>1, <1>2, <1>3, OrderFacts DEF IInv, Position, Working
<1>12. ReadsCurrent'
  <2>1. \A i \in DOMAIN TargetOrder : i > at => i >= at
    BY <1>2, OrderFacts
  <2> QED
    BY <1>1, <1>2, <2>1 DEF IInv, ReadsCurrent, Working
<1>13. ReservedKnown' /\ ChoicesLeft' /\ MachineMatchesTrace'
  <2>1. ReservedKnown'
    BY <1>1, <1>2 DEF IInv, ReservedKnown
  <2>2. ChoicesLeft'
    BY <1>1, <1>3, <1>10 DEF ChoicesLeft
  <2>3. MachineMatchesTrace'
    BY <1>1, <1>2, <1>3 DEF MachineMatchesTrace
  <2> QED
    BY <2>1, <2>2, <2>3
<1> QED
  BY <1>1, <1>9, <1>11, <1>12, <1>13 DEF IInv

LEMMA RefuseInterruptedStep == IInv /\ RefuseInterrupted => IInv'
<1> SUFFICES ASSUME IInv, RefuseInterrupted PROVE IInv'
  OBVIOUS
<1>0. PICK t \in Targets : t = Target
  BY BeginFacts DEF RefuseInterrupted, AtTarget
<1>1. /\ at \in DOMAIN TargetOrder /\ AtWork(t)
      /\ view[t] = DurablePlan[t] /\ ~Done(t) /\ pc = "target"
      /\ ActiveAttempt = IF StateOf(t) = "active" THEN Latest(t) ELSE None
  BY <1>0, ReadFacts, BeginFacts DEF RefuseInterrupted, AtTarget
<1>2. StateOf(t) = "active" /\ ActiveAttempt = Latest(t)
  BY <1>1 DEF RefuseInterrupted
<1>3. /\ Records(Latest(t), "rejected") /\ Moves(t, "rejected") /\ state' = "rejected" /\ attempted' = attempted
      /\ terminal' = terminal \cup {Latest(t)}
      /\ pc' = "machine" /\ resumed' = None /\ refs' = ChoiceRefs(t, None)
      /\ at' = at /\ view' = view /\ reserved' = reserved /\ crashes' = crashes
  BY <1>0, <1>2 DEF RefuseInterrupted, Transition, Moves, Records, StartMachine
<1>4. /\ DurableInv' /\ StateOf(t)' = "rejected"
      /\ decisions' \in [Candidates -> [outcome : {"undecided", "admitted", "rejected"}]]
  <2>1. TypeOK /\ DurableInv /\ "rejected" \in {"admitted", "rejected"}
    BY DEF IInv
  <2> QED
    BY <1>1, <1>2, <1>3, <2>1, DecideKeeps
<1>5. Tried(t) \in Nat /\ Tried(t) > 0 /\ Tried(t)' = Tried(t) /\ Rest(t)' = Rest(t) /\ Primary(t)' = Primary(t)
  <2>1. Tried(t) \in Nat
    BY <1>1, AttemptFacts DEF IInv, DurableInv
  <2>2. Tried(t) > 0
    BY <1>1, <1>2 DEF IInv, DurableInv, StateTells
  <2>3. Tried(t)' = Tried(t) /\ Rest(t)' = Rest(t) /\ Primary(t)' = Primary(t)
    BY <1>3 DEF Tried, Rest, Primary
  <2> QED
    BY <2>1, <2>2, <2>3
<1>6. /\ Latest(t) \in Candidates /\ Rest(t) \in Seq(Candidates)
      /\ <<Primary(t)>> \o Rest(t) \in Seq(Candidates)
  BY <1>1, <1>5, RangeAttempted, RefsType DEF IInv, DurableInv
<1>7. view[t].fallback = Rest(t)
  BY <1>1, <1>2, PlanTells DEF IInv
<1>8. refs' = <<Primary(t)>> \o Rest(t)
  <2>1. ChoiceRefs(t, None) = IF Tried(t) = 0 THEN Rest(t) ELSE <<Primary(t)>> \o Rest(t)
    BY <1>1, <1>7, RefsBuilt DEF IInv, DurableInv
  <2> QED
    BY <1>3, <1>5, <2>1
<1>9. Target' = t
  BY <1>0, <1>3 DEF Target
<1>10. TypeOK'
  <2>1. "rejected" \in LifecycleStates
    BY DEF LifecycleStates
  <2>2. trace' \in [Targets -> Seq(LifecycleStates)]
    BY <1>1, <1>3, <2>1, TransitionFacts DEF IInv
  <2> QED
    BY <1>3, <1>4, <1>6, <1>8, <2>1, <2>2 DEF IInv, TypeOK
<1>11. Position'
  BY <1>1, <1>3, WorkGoesOn DEF IInv
<1>12. ReadsCurrent'
  BY <1>1, <1>3, <1>10, CommitKeepsReads DEF IInv, Working, TypeOK
<1>13. ReservedKnown'
  BY <1>1, <1>3 DEF IInv, ReservedKnown, Attempted
<1>14. ChoicesLeft'
  <2>1. Left(t)'
    BY <1>3, <1>4, <1>5, <1>8, <1>9 DEF Left
  <2> QED
    BY <1>3, <1>9, <2>1 DEF ChoicesLeft
<1>15. MachineMatchesTrace'
  BY <1>3, <1>4, <1>9 DEF MachineMatchesTrace
<1> QED
  BY <1>4, <1>10, <1>11, <1>12, <1>13, <1>14, <1>15 DEF IInv

LEMMA FinishStep == IInv /\ Finish => IInv'
<1> SUFFICES ASSUME IInv, Finish PROVE IInv'
  OBVIOUS
<1>1. /\ UNCHANGED durable /\ UNCHANGED process /\ crashes' = crashes
      /\ pc = "target" /\ at > Len(TargetOrder) /\ pc' = "settled"
  BY DEF Finish
<1>2. DurableInv' /\ \A t \in Targets : Done(t)' = Done(t)
  BY <1>1, DurableSame DEF IInv
<1>3. TypeOK'
  BY <1>1 DEF IInv, TypeOK, durable, process
<1>4. Position'
  <2>1. at = Len(TargetOrder) + 1
    BY <1>1, OrderFacts DEF IInv, Position
  <2> QED
    BY <1>1, <1>2, <2>1, OrderFacts DEF IInv, Position, Working, process
<1>5. ReadsCurrent' /\ ReservedKnown' /\ ChoicesLeft' /\ MachineMatchesTrace'
  BY <1>1 DEF ReadsCurrent, Working, ReservedKnown, ChoicesLeft, MachineMatchesTrace
<1> QED
  BY <1>2, <1>3, <1>4, <1>5 DEF IInv

\* What every step of the machine starts from.
LEMMA MachineFacts ==
  ASSUME IInv, Working
  PROVE  /\ at \in DOMAIN TargetOrder /\ Target \in Targets /\ AtWork(Target) /\ ~Done(Target)
         /\ reserved = Attempted /\ state = StateOf(Target)
         /\ pc = "machine" => Left(Target)
BY BeginFacts DEF IInv, Working, ReservedKnown, MachineMatchesTrace, ChoicesLeft, AtWork

\* A step of the machine that commits nothing.
LEMMA QuietStep ==
  ASSUME IInv, Working, UNCHANGED durable,
         pc' \in {"machine", "attempting"},
         at' = at /\ view' = view /\ terminal' = terminal /\ reserved' = reserved
           /\ state' = state /\ resumed' = resumed /\ crashes' = crashes,
         refs' \in Seq(Candidates), ChoicesLeft'
  PROVE  IInv'
<1>1. /\ DurableInv' /\ DurablePlan' = DurablePlan /\ Attempted' = Attempted
      /\ \A u \in Targets : StateOf(u)' = StateOf(u) /\ Done(u)' = Done(u)
  BY DurableSame DEF IInv
<1>2. /\ at \in DOMAIN TargetOrder /\ Target \in Targets
      /\ reserved = Attempted /\ state = StateOf(Target)
  BY MachineFacts
<1>3. Target' = Target
  BY DEF Target
<1>4. attempted' = attempted /\ decisions' = decisions /\ trace' = trace
  BY DEF durable
<1>5. TypeOK'
  BY <1>4 DEF IInv, TypeOK
<1>6. Position'
  BY <1>1, <1>2, <1>3, OrderFacts DEF IInv, Position, Working
<1>7. ReadsCurrent'
  BY <1>1, <1>4 DEF IInv, ReadsCurrent, Working
<1>8. ReservedKnown' /\ MachineMatchesTrace'
  BY <1>1, <1>2, <1>3 DEF ReservedKnown, MachineMatchesTrace
<1> QED
  BY <1>1, <1>5, <1>6, <1>7, <1>8 DEF IInv

LEMMA SkipChoiceStep == IInv /\ SkipChoice => IInv'
<1> SUFFICES ASSUME IInv, SkipChoice PROVE IInv'
  OBVIOUS
<1> DEFINE t == Target
<1>1. /\ pc = "machine" /\ Working /\ refs # << >> /\ refs' = Tail(refs) /\ pc' = pc
      /\ Head(refs) \in reserved /\ Head(refs) # resumed
      /\ UNCHANGED durable
      /\ at' = at /\ view' = view /\ terminal' = terminal /\ reserved' = reserved
      /\ state' = state /\ resumed' = resumed /\ crashes' = crashes
  BY DEF SkipChoice, AtChoice, Working
<1>2. t \in Targets /\ ~Done(t) /\ Left(t) /\ reserved = Attempted
  BY <1>1, MachineFacts
<1>3. IF StateOf(t) = "active"
      THEN Tail(refs) = <<Latest(t)>> \o Rest(t) /\ resumed = Latest(t)
      ELSE Tail(refs) = Rest(t) /\ resumed = None
  BY <1>1, <1>2, LeftFacts DEF IInv
<1>4. Tail(refs) \in Seq(Candidates)
  BY <1>1, HeadTailProperties DEF IInv, TypeOK
<1>5. /\ StateOf(t)' = StateOf(t) /\ Latest(t)' = Latest(t) /\ Rest(t)' = Rest(t)
      /\ Target' = t
  BY <1>1, <1>2, DurableSame DEF IInv, Target
<1>6. ChoicesLeft'
  <2>1. Left(t)'
    BY <1>1, <1>3, <1>5 DEF Left
  <2> QED
    BY <1>1, <1>5, <2>1 DEF ChoicesLeft
<1> QED
  BY <1>1, <1>4, <1>6, QuietStep

LEMMA ContinueAttemptStep == IInv /\ ContinueAttempt => IInv'
<1> SUFFICES ASSUME IInv, ContinueAttempt PROVE IInv'
  OBVIOUS
<1> DEFINE t == Target
<1>1. /\ pc = "machine" /\ Working /\ refs # << >> /\ refs' = refs /\ pc' = "attempting"
      /\ Head(refs) = resumed
      /\ UNCHANGED durable
      /\ at' = at /\ view' = view /\ terminal' = terminal /\ reserved' = reserved
      /\ state' = state /\ resumed' = resumed /\ crashes' = crashes
  BY DEF ContinueAttempt, AtChoice, Working, process
<1>2. t \in Targets /\ ~Done(t) /\ Left(t) /\ reserved = Attempted
  BY <1>1, MachineFacts
<1>3. StateOf(t) = "active" /\ refs = <<Latest(t)>> \o Rest(t) /\ resumed = Latest(t)
  BY <1>1, <1>2, LeftFacts DEF IInv
<1>4. Latest(t) \in Range(attempted[t])
  <2>1. Tried(t) > 0
    BY <1>2, <1>3 DEF IInv, DurableInv, StateTells
  <2> QED
    BY <1>2, <2>1, RangeAttempted DEF IInv, DurableInv
<1>5. /\ StateOf(t)' = StateOf(t) /\ Latest(t)' = Latest(t) /\ Rest(t)' = Rest(t)
      /\ Target' = t /\ attempted' = attempted
  BY <1>1, <1>2, DurableSame DEF IInv, Target, durable
<1>6. ChoicesLeft'
  BY <1>1, <1>3, <1>4, <1>5 DEF ChoicesLeft
<1> QED
  BY <1>1, <1>6, QuietStep DEF IInv, TypeOK

LEMMA ReserveStep == IInv /\ Reserve => IInv'
<1> SUFFICES ASSUME IInv, Reserve PROVE IInv'
  OBVIOUS
<1>0. Working /\ pc = "machine" /\ refs # << >> /\ Head(refs) \notin reserved /\ Head(refs) # resumed
  BY DEF Reserve, AtChoice, Working
<1>1. PICK t \in Targets : t = Target
  BY <1>0, MachineFacts
<1>2. /\ at \in DOMAIN TargetOrder /\ AtWork(t) /\ ~Done(t)
      /\ reserved = Attempted /\ Left(t)
  BY <1>0, <1>1, MachineFacts
<1> DEFINE choices == OrderedChoices[t]
           n == Tried(t)
           c == choices[n + 1]
<1>3. /\ StateOf(t) \in {"pending", "rejected"} /\ n < Len(choices)
      /\ Head(refs) = c
      /\ refs = <<c>> \o SubSeq(choices, n + 2, Len(choices))
      /\ resumed \in {None} \cup Range(attempted[t])
  BY <1>0, <1>2, LeftFacts DEF IInv
<1>4. /\ attempted' = [attempted EXCEPT ![t] = Append(@, c)]
      /\ Moves(t, "active") /\ state' = "active" /\ decisions' = decisions
      /\ reserved' = reserved \cup {c} /\ pc' = "attempting"
      /\ refs' = refs /\ resumed' = resumed
      /\ at' = at /\ view' = view /\ terminal' = terminal /\ crashes' = crashes
  BY <1>1, <1>3 DEF Reserve, Transition, Moves
<1>5. /\ DurableInv' /\ Tried(t)' = n + 1 /\ StateOf(t)' = "active"
      /\ attempted' \in [Targets -> Seq(Candidates)]
  BY <1>2, <1>3, <1>4, ReserveKeeps DEF IInv
<1>6. n \in Nat /\ n + 1 \in 1 .. Len(choices) /\ c \in Candidates
  <2>1. n \in Nat
    BY AttemptFacts DEF IInv, DurableInv
  <2>2. n + 1 \in 1 .. Len(choices)
    BY <1>3, <2>1, QueueFacts
  <2> QED
    BY <2>1, <2>2, QueueFacts
<1>7. Target' = t
  BY <1>1, <1>4 DEF Target
<1>8. TypeOK'
  <2>1. "active" \in LifecycleStates
    BY DEF LifecycleStates
  <2>2. trace' \in [Targets -> Seq(LifecycleStates)]
    BY <1>4, <2>1, TransitionFacts DEF IInv
  <2> QED
    BY <1>4, <1>5, <1>6, <2>1, <2>2 DEF IInv, TypeOK
<1>9. Position'
  BY <1>2, <1>4, WorkGoesOn DEF IInv
<1>10. attempted'[t] = Append(attempted[t], c) /\ \A u \in Targets : u # t => attempted'[u] = attempted[u]
  BY <1>4 DEF IInv, TypeOK
<1>11. ReadsCurrent'
  BY <1>0, <1>2, <1>4, <1>8, <1>10, CommitKeepsReads DEF IInv, Working, TypeOK
<1>12. Range(attempted'[t]) = Range(attempted[t]) \cup {c}
  <2>1. attempted[t] \in Seq(Candidates) /\ Len(attempted[t]) = n
    BY DEF IInv, TypeOK, Tried
  <2> HIDE DEF c, n, choices
  <2>2. /\ Append(attempted[t], c) \in Seq(Candidates)
        /\ Len(Append(attempted[t], c)) = n + 1
        /\ \A i \in 1 .. n : Append(attempted[t], c)[i] = attempted[t][i]
        /\ Append(attempted[t], c)[n + 1] = c
    BY <1>6, <2>1, AppendProperties
  <2>3. DOMAIN Append(attempted[t], c) = 1 .. n + 1 /\ DOMAIN attempted[t] = 1 .. n
    BY <2>1, <2>2, LenProperties
  <2>4. \A i \in 1 .. n + 1 : i \in 1 .. n \/ i = n + 1
    BY <1>6
  <2>5. \A i \in 1 .. n : i \in 1 .. n + 1
    BY <1>6
  <2>6. n + 1 \in 1 .. n + 1
    BY <1>6
  <2> QED
    BY <1>10, <2>2, <2>3, <2>4, <2>5, <2>6 DEF Range
<1>13. ReservedKnown'
  <2>1. Attempted' = Attempted \cup {c}
    BY <1>10, <1>12 DEF Attempted
  <2> QED
    BY <1>2, <1>4, <2>1 DEF ReservedKnown
<1>14. ChoicesLeft'
  <2>1. Latest(t)' = c
    BY <1>5 DEF Latest
  <2>2. Rest(t)' = SubSeq(choices, (n + 1) + 1, Len(choices))
    BY <1>5 DEF Rest
  <2>3. (n + 1) + 1 = n + 2
    BY <1>6
  <2>4. refs' = (<<Latest(t)>> \o Rest(t))'
    BY <1>3, <1>4, <2>1, <2>2, <2>3
  <2>5. resumed' \in {None} \cup Range(attempted'[t])
    BY <1>3, <1>4, <1>12
  <2> QED
    BY <1>4, <1>5, <1>7, <2>4, <2>5 DEF ChoicesLeft
<1>15. MachineMatchesTrace'
  BY <1>4, <1>5, <1>7 DEF MachineMatchesTrace
<1> QED
  BY <1>5, <1>8, <1>9, <1>11, <1>13, <1>14, <1>15 DEF IInv

LEMMA DecideStep == ASSUME NEW outcome \in {"admitted", "rejected"}, IInv, Decide(outcome)
                    PROVE  IInv'
<1>0. Working /\ pc = "attempting"
  BY DEF Decide, Working
<1>1. PICK t \in Targets : t = Target
  BY <1>0, MachineFacts
<1>2. at \in DOMAIN TargetOrder /\ AtWork(t) /\ reserved = Attempted
  BY <1>0, <1>1, MachineFacts
<1>3. /\ StateOf(t) = "active" /\ refs = <<Latest(t)>> \o Rest(t)
      /\ resumed \in {None} \cup Range(attempted[t])
  BY <1>0, <1>1 DEF IInv, ChoicesLeft
<1>4. Tried(t) \in Nat /\ Tried(t) > 0
  <2>1. Tried(t) > 0
    BY <1>3 DEF IInv, DurableInv, StateTells
  <2> QED
    BY <2>1, AttemptFacts DEF IInv, DurableInv
<1>5. /\ Latest(t) \in Candidates /\ Rest(t) \in Seq(Candidates)
      /\ Head(refs) = Latest(t) /\ Tail(refs) = Rest(t)
  <2>1. Latest(t) \in Candidates /\ Rest(t) \in Seq(Candidates)
    BY <1>4, RangeAttempted, RefsType DEF IInv, DurableInv
  <2> QED
    BY <1>3, <2>1, ConsFacts
<1>6. /\ Records(Latest(t), outcome) /\ Moves(t, outcome) /\ state' = outcome
      /\ attempted' = attempted /\ view' = view /\ reserved' = reserved /\ terminal' = terminal
      /\ resumed' = resumed /\ crashes' = crashes
      /\ IF outcome = "admitted"
         THEN pc' = "target" /\ at' = at + 1 /\ refs' = refs
         ELSE pc' = "machine" /\ refs' = Rest(t) /\ at' = at
  BY <1>1, <1>5 DEF Decide, Transition, Moves, Records, NextTarget
<1>7. /\ DurableInv' /\ StateOf(t)' = outcome
      /\ decisions' \in [Candidates -> [outcome : {"undecided", "admitted", "rejected"}]]
  BY <1>2, <1>3, <1>6, DecideKeeps DEF IInv
<1>8. outcome \in LifecycleStates
  BY DEF LifecycleStates
<1>9. TypeOK'
  <2>1. trace' \in [Targets -> Seq(LifecycleStates)]
    BY <1>6, <1>8, TransitionFacts DEF IInv
  <2>2. at' \in Nat /\ refs' \in Seq(Candidates)
           /\ pc' \in {"opening", "target", "machine", "attempting", "settled", "down"}
    BY <1>5, <1>6 DEF IInv, TypeOK
  <2> QED
    BY <1>6, <1>7, <1>8, <2>1, <2>2 DEF IInv, TypeOK
<1>10. Position'
  <2>1. CASE outcome = "admitted"
    BY <1>2, <1>6, <2>1, DoneMovesOn DEF IInv
  <2>2. CASE outcome = "rejected"
    BY <1>2, <1>6, <2>2, WorkGoesOn DEF IInv
  <2> QED
    BY <2>1, <2>2
<1>11. ReadsCurrent'
  <2>1. pc' = "target" => at' = at + 1
    BY <1>6
  <2>2. Working' => at' = at
    BY <1>6 DEF Working
  <2> QED
    BY <1>0, <1>2, <1>6, <1>9, <2>1, <2>2, CommitKeepsReads DEF IInv, TypeOK
<1>12. ReservedKnown'
  BY <1>2, <1>6 DEF ReservedKnown, Attempted
<1>13. ChoicesLeft' /\ MachineMatchesTrace'
  <2>1. CASE outcome = "admitted"
    BY <1>6, <2>1 DEF ChoicesLeft, MachineMatchesTrace
  <2>2. CASE outcome = "rejected"
    <3>1. Target' = t
      BY <1>1, <1>6, <2>2 DEF Target
    <3>2. refs' = Rest(t)' /\ StateOf(t)' = "rejected" /\ state' = "rejected" /\ pc' = "machine"
      BY <1>6, <1>7, <2>2 DEF Rest, Tried
    <3>3. resumed' \in {None} \cup Range(attempted'[t])
      BY <1>3, <1>6
    <3>4. Left(t)'
      BY <3>2, <3>3 DEF Left
    <3> QED
      BY <3>1, <3>2, <3>4 DEF ChoicesLeft, MachineMatchesTrace
  <2> QED
    BY <2>1, <2>2
<1> QED
  BY <1>7, <1>9, <1>10, <1>11, <1>12, <1>13 DEF IInv

LEMMA ExhaustStep == IInv /\ Exhaust => IInv'
<1> SUFFICES ASSUME IInv, Exhaust PROVE IInv'
  OBVIOUS
<1>0. Working /\ pc = "machine" /\ refs = << >>
  BY DEF Exhaust, Working
<1>1. PICK t \in Targets : t = Target
  BY <1>0, MachineFacts
<1>2. /\ at \in DOMAIN TargetOrder /\ AtWork(t) /\ ~Done(t)
      /\ reserved = Attempted /\ Left(t)
  BY <1>0, <1>1, MachineFacts
<1>3. StateOf(t) \in {"pending", "rejected"} /\ Tried(t) = Len(OrderedChoices[t])
  BY <1>0, <1>2, LeftFacts DEF IInv
<1>4. /\ Moves(t, "exhausted") /\ state' = "exhausted"
      /\ attempted' = attempted /\ decisions' = decisions
      /\ pc' = "target" /\ at' = at + 1
      /\ view' = view /\ reserved' = reserved /\ terminal' = terminal /\ refs' = refs
      /\ resumed' = resumed /\ crashes' = crashes
  BY <1>1 DEF Exhaust, Transition, Moves, NextTarget
<1>5. DurableInv' /\ StateOf(t)' = "exhausted"
  BY <1>2, <1>3, <1>4, ExhaustKeeps DEF IInv
<1>6. TypeOK'
  <2>1. "exhausted" \in LifecycleStates
    BY DEF LifecycleStates
  <2>2. trace' \in [Targets -> Seq(LifecycleStates)]
    BY <1>4, <2>1, TransitionFacts DEF IInv
  <2> QED
    BY <1>4, <2>1, <2>2 DEF IInv, TypeOK
<1>7. Position'
  BY <1>2, <1>4, DoneMovesOn DEF IInv
<1>8. ReadsCurrent'
  <2>1. ~Working'
    BY <1>4 DEF Working
  <2> QED
    BY <1>0, <1>2, <1>4, <1>6, <2>1, CommitKeepsReads DEF IInv, TypeOK
<1>9. ReservedKnown' /\ ChoicesLeft' /\ MachineMatchesTrace'
  BY <1>2, <1>4 DEF ReservedKnown, ChoicesLeft, MachineMatchesTrace, Attempted
<1> QED
  BY <1>5, <1>6, <1>7, <1>8, <1>9 DEF IInv

\* A process that is not running has nothing to keep.
LEMMA CrashResumeStep == IInv /\ (Crash \/ Resume) => IInv'
<1> SUFFICES ASSUME IInv, Crash \/ Resume PROVE IInv'
  OBVIOUS
<1>1. /\ UNCHANGED durable /\ UNCHANGED process
      /\ pc' \in {"down", "opening"} /\ crashes' \in Nat
  BY DEF Crash, Resume, IInv, TypeOK
<1>2. DurableInv'
  BY <1>1, DurableSame DEF IInv
<1>3. TypeOK'
  BY <1>1 DEF IInv, TypeOK, durable, process
<1>4. Position' /\ ReadsCurrent' /\ ReservedKnown' /\ ChoicesLeft' /\ MachineMatchesTrace'
  BY <1>1 DEF Position, ReadsCurrent, ReservedKnown, ChoicesLeft, MachineMatchesTrace, Working
<1> QED
  BY <1>2, <1>3, <1>4 DEF IInv

LEMMA StutterStep == IInv /\ UNCHANGED vars => IInv'
<1> SUFFICES ASSUME IInv, UNCHANGED vars PROVE IInv'
  OBVIOUS
<1>1. UNCHANGED durable /\ UNCHANGED process /\ pc' = pc /\ crashes' = crashes
  BY DEF vars
<1>2. DurableInv' /\ DurablePlan' = DurablePlan /\ Attempted' = Attempted
  BY <1>1, DurableSame DEF IInv
<1>3. TypeOK'
  BY <1>1 DEF IInv, TypeOK, durable, process
<1>4. Position' /\ ReadsCurrent'
  BY <1>1, <1>2 DEF IInv, Position, ReadsCurrent, Working, Target, Done, StateOf, durable, process
<1>5. ReservedKnown' /\ MachineMatchesTrace'
  BY <1>1, <1>2 DEF IInv, ReservedKnown, MachineMatchesTrace, Target, StateOf, durable, process
<1>6. ChoicesLeft'
  BY <1>1 DEF IInv, ChoicesLeft, Left, Latest, Rest, Tried, Primary, Target, StateOf, durable, process
<1> QED
  BY <1>2, <1>3, <1>4, <1>5, <1>6 DEF IInv

--------------------------------------------------------------------------------
(***************************************************************************)
(* Theorems.                                                               *)
(***************************************************************************)

LEMMA NextKeeps == IInv /\ [Next]_vars => IInv'
<1> SUFFICES ASSUME IInv, [Next]_vars PROVE IInv'
  OBVIOUS
<1>1. CASE Open
  BY <1>1, OpenStep
<1>2. CASE SkipTarget
  BY <1>2, SkipTargetStep
<1>3. CASE BeginTarget
  BY <1>3, BeginTargetStep
<1>4. CASE RefuseInterrupted
  BY <1>4, RefuseInterruptedStep
<1>5. CASE Finish
  BY <1>5, FinishStep
<1>6. CASE SkipChoice
  BY <1>6, SkipChoiceStep
<1>7. CASE Reserve
  BY <1>7, ReserveStep
<1>8. CASE ContinueAttempt
  BY <1>8, ContinueAttemptStep
<1>9. CASE Exhaust
  BY <1>9, ExhaustStep
<1>10. ASSUME NEW outcome \in {"admitted", "rejected"}, Decide(outcome) PROVE IInv'
  BY <1>10, DecideStep
<1>11. CASE Crash \/ Resume
  BY <1>11, CrashResumeStep
<1>12. CASE UNCHANGED vars
  BY <1>12, StutterStep
<1> QED
  BY <1>1, <1>2, <1>3, <1>4, <1>5, <1>6, <1>7, <1>8, <1>9, <1>10, <1>11, <1>12 DEF Next, Loop

\* The durable state and the copies the process works on fit each other in
\* every state of run_target_finalization and of its resumes.
THEOREM RunInvariance == Spec => []IInv
BY InitKeeps, NextKeeps, PTL DEF Spec

\* Every variable of the loop keeps its type.
THEOREM RunTypeCorrect == Spec => []TypeOK
<1>1. IInv => TypeOK
  BY DEF IInv
<1> QED
  BY <1>1, RunInvariance, PTL

\* At most one candidate of all targets is attempted and undecided: a resume
\* settles the interrupted attempt before another one is reserved.
THEOREM OneOpenAttempt == Spec => []OneAttemptOpen
<1>1. IInv => OneAttemptOpen
  <2> SUFFICES ASSUME IInv, NEW c \in Attempted, NEW d \in Attempted,
                      ~Decided(decisions, c), ~Decided(decisions, d)
               PROVE  c = d
    BY DEF OneAttemptOpen
  <2>1. ASSUME NEW e \in Attempted, ~Decided(decisions, e)
        PROVE  \E i \in DOMAIN TargetOrder :
                 /\ StateOf(TargetOrder[i]) = "active" /\ trace[TargetOrder[i]] # << >>
                 /\ e = Latest(TargetOrder[i])
    <3>1. PICK t \in Targets : e \in Range(attempted[t])
      BY <2>1 DEF Attempted
    <3>2. PICK k \in DOMAIN attempted[t] : e = attempted[t][k]
      BY <3>1 DEF Range
    <3>3. /\ Tried(t) \in Nat /\ k \in 1 .. Tried(t) /\ k \in 1 .. Len(OrderedChoices[t])
          /\ e = OrderedChoices[t][k]
      BY <3>2, AttemptFacts DEF IInv, DurableInv
    <3>4. Outcome(OrderedChoices[t][k]) = "undecided"
      BY <2>1, <3>3 DEF Decided, Outcome
    <3>5. k = Tried(t)
      <4>1. ~ (k < Tried(t))
        BY <3>3, <3>4 DEF IInv, DurableInv, PrefixTried
      <4>2. Tried(t) \in Nat /\ k \in 1 .. Tried(t)
        BY <3>3
      <4> QED
        BY <4>1, <4>2
    <3>6. e = Latest(t) /\ Outcome(Latest(t)) = "undecided" /\ Tried(t) > 0
      BY <3>3, <3>4, <3>5 DEF Latest
    <3>7. StateOf(t) = "active"
      <4>1. StateOf(t) \in LifecycleStates
        BY StateType DEF IInv
      <4> QED
        BY <3>6, <4>1 DEF IInv, DurableInv, StateTells, LifecycleStates
    <3>8. trace[t] # << >>
      BY <3>7 DEF StateOf
    <3> QED
      BY <3>6, <3>7, <3>8, OrderFacts
  <2>2. PICK i \in DOMAIN TargetOrder :
          /\ StateOf(TargetOrder[i]) = "active" /\ trace[TargetOrder[i]] # << >>
          /\ c = Latest(TargetOrder[i])
    BY <2>1
  <2>3. PICK j \in DOMAIN TargetOrder :
          /\ StateOf(TargetOrder[j]) = "active" /\ trace[TargetOrder[j]] # << >>
          /\ d = Latest(TargetOrder[j])
    BY <2>1
  <2>4. ~ (i < j) /\ ~ (j < i)
    BY <2>2, <2>3 DEF IInv, DurableInv, InOrder, Done
  <2>5. i = j
    BY <2>4, OrderFacts
  <2> QED
    BY <2>2, <2>3, <2>5
<1> QED
  BY <1>1, RunInvariance, PTL

\* The state a machine starts from and keeps is where the durable trace of its
\* target stands, also after an interrupted attempt was refused.
THEOREM MachineFollowsTrace == Spec => []MachineMatchesTrace
<1>1. IInv => MachineMatchesTrace
  BY DEF IInv
<1> QED
  BY <1>1, RunInvariance, PTL

\* No validator refuses what the loop commits: the derived plan, the trace of
\* every target, and the manifest when the loop is over.
THEOREM NothingRefused == Spec => []ValidatorsAccept
<1>1. IInv => ValidatorsAccept
  <2> SUFFICES ASSUME IInv PROVE ValidatorsAccept
    OBVIOUS
  <2>1. PlanAccepted
    BY AcceptedPlan DEF IInv, DurableInv
  <2>2. TraceLegal
    BY DEF IInv, DurableInv
  <2>3. CompletionAccepted
    <3> SUFFICES ASSUME pc = "settled", NEW t \in Targets
                 PROVE  /\ DurablePlan[t].state \in {"admitted", "exhausted"}
                        /\ StateOf(t) = DurablePlan[t].state
      BY DEF CompletionAccepted
    <3>1. PICK i \in DOMAIN TargetOrder : TargetOrder[i] = t
      BY OrderFacts
    <3>2. i < at
      BY OrderFacts DEF IInv, Position
    <3>3. Done(t)
      BY <3>1, <3>2 DEF IInv, Position
    <3>4. /\ DurablePlan[t].state = "admitted" <=> StateOf(t) = "admitted"
          /\ StateOf(t) = "exhausted" => DurablePlan[t].state = "exhausted"
      BY PlanTells DEF IInv
    <3> QED
      BY <3>3, <3>4 DEF Done
  <2> QED
    BY <2>1, <2>2, <2>3 DEF ValidatorsAccept
<1> QED
  BY <1>1, RunInvariance, PTL

(***************************************************************************)
(* The loop implements the settlement of targets.                          *)
(***************************************************************************)
VerdictOf(s) == CASE s = "active" -> "trying"
                  [] s \in {"pending", "rejected"} -> "open"
                  [] OTHER -> s
Verdict == [t \in Targets |-> VerdictOf(StateOf(t))]
TriedMap == [t \in Targets |-> Len(attempted[t])]

LEMMA VerdictMoves ==
  ASSUME TypeOK, NEW t \in Targets, NEW next \in LifecycleStates, Moves(t, next)
  PROVE  Verdict' = [Verdict EXCEPT ![t] = VerdictOf(next)]
<1>1. StateOf(t)' = next /\ \A u \in Targets : u # t => StateOf(u)' = StateOf(u)
  BY TransitionFacts
<1>2. \A u \in Targets : Verdict'[u] = IF u = t THEN VerdictOf(next) ELSE Verdict[u]
  BY <1>1 DEF Verdict
<1> QED
  BY <1>2 DEF Verdict

LEMMA VerdictSame ==
  ASSUME UNCHANGED durable
  PROVE  Verdict' = Verdict /\ TriedMap' = TriedMap
BY DEF durable, Verdict, VerdictOf, StateOf, TriedMap

\* Every step of the loop is a step of the settlement or leaves it unchanged:
\* choices are tried in order and once each, a decision only ends a try, and a
\* target is given up only when all its choices were tried.  (Without the
\* fairness, which stays with the model checker.)
THEOREM RefinesSettlement == Spec => Settlement!Spec
<1>1. Init => Settlement!Init
  <2> SUFFICES ASSUME Init PROVE Settlement!Init
    OBVIOUS
  <2>1. \A t \in Targets : Len(attempted[t]) = 0 /\ StateOf(t) = "pending"
    BY DEF Init, StateOf
  <2> QED
    BY <2>1 DEF Settlement!Init
<1>2. IInv /\ [Next]_vars => [Settlement!Next]_(Settlement!vars)
  <2> SUFFICES ASSUME IInv, [Next]_vars PROVE Settlement!Next \/ UNCHANGED Settlement!vars
    OBVIOUS
  <2> DEFINE Quiet == UNCHANGED Settlement!vars
  <2>1. UNCHANGED durable => Quiet
    BY VerdictSame DEF Settlement!vars, Verdict, VerdictOf, TriedMap
  <2> HIDE DEF Quiet
  <2>2. CASE \/ Open \/ SkipTarget \/ BeginTarget \/ Finish \/ SkipChoice
             \/ ContinueAttempt \/ Crash \/ Resume \/ UNCHANGED vars
    <3>1. UNCHANGED durable
      BY <2>2 DEF Open, SkipTarget, BeginTarget, Finish, SkipChoice, ContinueAttempt,
                  Crash, Resume, vars
    <3> QED
      BY <2>1, <3>1 DEF Quiet
  <2>3. ASSUME NEW t \in Targets, StateOf(t) = "active", NEW outcome \in {"admitted", "rejected"},
               Moves(t, outcome), attempted' = attempted
        PROVE  Settlement!Next
    <3>1. outcome \in LifecycleStates
      BY DEF LifecycleStates
    <3>2. Verdict' = [Verdict EXCEPT ![t] = VerdictOf(outcome)]
      BY <2>3, <3>1, VerdictMoves DEF IInv
    <3>3. Verdict[t] = "trying"
      BY <2>3 DEF Verdict, VerdictOf
    <3>4. VerdictOf(outcome) = IF outcome = "admitted" THEN "admitted" ELSE "open"
      BY DEF VerdictOf
    <3>5. TriedMap' = TriedMap
      BY <2>3 DEF TriedMap
    <3>6. Settlement!Admit(t) \/ Settlement!Reject(t)
      BY <3>2, <3>3, <3>4, <3>5
         DEF Settlement!Admit, Settlement!Reject, Verdict, VerdictOf, TriedMap
    <3> QED
      BY <3>6 DEF Settlement!Next
  <2>4. CASE RefuseInterrupted
    <3>1. PICK t \in Targets : t = Target
      BY <2>4, BeginFacts DEF RefuseInterrupted, AtTarget
    <3>2. StateOf(t) = "active"
      BY <2>4, <3>1, ReadFacts DEF RefuseInterrupted
    <3>3. Moves(t, "rejected") /\ attempted' = attempted
      BY <2>4, <3>1 DEF RefuseInterrupted, Transition, Moves
    <3> QED
      BY <2>3, <3>2, <3>3
  <2>5. ASSUME NEW outcome \in {"admitted", "rejected"}, Decide(outcome) PROVE Settlement!Next
    <3>1. Working /\ pc = "attempting"
      BY <2>5 DEF Decide, Working
    <3>2. PICK t \in Targets : t = Target
      BY <3>1, MachineFacts
    <3>3. StateOf(t) = "active"
      BY <3>1, <3>2 DEF IInv, ChoicesLeft
    <3>4. Moves(t, outcome) /\ attempted' = attempted
      BY <2>5, <3>2 DEF Decide, Transition, Moves
    <3> QED
      BY <2>3, <3>3, <3>4
  <2>6. CASE Reserve
    <3>1. Working /\ pc = "machine" /\ refs # << >> /\ Head(refs) \notin reserved /\ Head(refs) # resumed
      BY <2>6 DEF Reserve, AtChoice, Working
    <3>2. PICK t \in Targets : t = Target
      BY <3>1, MachineFacts
    <3>3. ~Done(t) /\ reserved = Attempted /\ Left(t)
      BY <3>1, <3>2, MachineFacts
    <3>4. /\ StateOf(t) \in {"pending", "rejected"} /\ Tried(t) < Len(OrderedChoices[t])
          /\ Head(refs) = OrderedChoices[t][Tried(t) + 1]
      BY <3>1, <3>3, LeftFacts DEF IInv
    <3>5. Moves(t, "active") /\ attempted' = [attempted EXCEPT ![t] = Append(@, Head(refs))]
      BY <2>6, <3>2 DEF Reserve, Transition, Moves
    <3>6. "active" \in LifecycleStates
      BY DEF LifecycleStates
    <3>7. Verdict' = [Verdict EXCEPT ![t] = "trying"]
      BY <3>5, <3>6, VerdictMoves DEF IInv, VerdictOf
    <3>8. Verdict[t] = "open"
      BY <3>4 DEF Verdict, VerdictOf
    <3>9. TriedMap' = [TriedMap EXCEPT ![t] = @ + 1]
      <4>1. attempted[t] \in Seq(Candidates) /\ Head(refs) \in Candidates
        BY <3>1, HeadTailProperties DEF IInv, TypeOK
      <4>2. Len(Append(attempted[t], Head(refs))) = Len(attempted[t]) + 1
        BY <4>1, AppendProperties
      <4>3. /\ attempted'[t] = Append(attempted[t], Head(refs))
            /\ \A u \in Targets : u # t => attempted'[u] = attempted[u]
        BY <3>5 DEF IInv, TypeOK
      <4>4. \A u \in Targets : Len(attempted'[u]) = IF u = t THEN Len(attempted[t]) + 1 ELSE Len(attempted[u])
        BY <4>2, <4>3
      <4> QED
        BY <4>4 DEF TriedMap
    <3>10. TriedMap[t] < Len(OrderedChoices[t])
      BY <3>4 DEF TriedMap, Tried
    <3>11. Settlement!Try(t)
      BY <3>7, <3>8, <3>9, <3>10 DEF Settlement!Try, Verdict, VerdictOf, TriedMap
    <3> QED
      BY <3>11 DEF Settlement!Next
  <2>7. CASE Exhaust
    <3>1. Working /\ pc = "machine" /\ refs = << >>
      BY <2>7 DEF Exhaust, Working
    <3>2. PICK t \in Targets : t = Target
      BY <3>1, MachineFacts
    <3>3. ~Done(t) /\ reserved = Attempted /\ Left(t)
      BY <3>1, <3>2, MachineFacts
    <3>4. StateOf(t) \in {"pending", "rejected"} /\ Tried(t) = Len(OrderedChoices[t])
      BY <3>1, <3>3, LeftFacts DEF IInv
    <3>5. Moves(t, "exhausted") /\ attempted' = attempted
      BY <2>7, <3>2 DEF Exhaust, Transition, Moves
    <3>6. "exhausted" \in LifecycleStates
      BY DEF LifecycleStates
    <3>7. Verdict' = [Verdict EXCEPT ![t] = "exhausted"]
      BY <3>5, <3>6, VerdictMoves DEF IInv, VerdictOf
    <3>8. Verdict[t] = "open" /\ TriedMap' = TriedMap /\ TriedMap[t] = Len(OrderedChoices[t])
      BY <3>4, <3>5 DEF Verdict, VerdictOf, TriedMap, Tried
    <3>9. Settlement!Exhaust(t)
      BY <3>7, <3>8 DEF Settlement!Exhaust, Verdict, VerdictOf, TriedMap
    <3> QED
      BY <3>9 DEF Settlement!Next
  <2> QED
    BY <2>2, <2>4, <2>5, <2>6, <2>7 DEF Next, Loop, Quiet
<1> QED
  BY <1>1, <1>2, RunInvariance, PTL DEF Spec, Settlement!Spec
================================================================================
