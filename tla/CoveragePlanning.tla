--------------------------- MODULE CoveragePlanning ---------------------------
(***************************************************************************)
(* plan_generation, pipeline/coverage_planning.py, with the min-cost flow  *)
(* of pipeline/coverage_planning_flow.py.  Coverage mode assigns one       *)
(* primary candidate to every feasible ingress by successive shortest      *)
(* paths; exhaustive mode makes one target per candidate, taking the       *)
(* candidates of each pattern round-robin when a cap is set.  A behaviour  *)
(* is one call; a step is one iteration of the loops.                      *)
(*                                                                         *)
(* Identifiers are numbered in their sort order, which is all the code     *)
(* uses of them.  Abstracted: projections, provenance, names, the          *)
(* universe's evidence.  Where several augmenting paths are equally short, *)
(* the one the queue order of _spfa_shortest_path finds is any of them.    *)
(***************************************************************************)
EXTENDS Integers, Sequences, FiniteSets, SequencesExt, FiniteSetsExt, SequenceSelection

CONSTANTS
  Ingresses,   \* entry points of the feasible targets, 1 .. n
  Patterns,    \* attack pattern identifiers, 1 .. m
  Corpora,     \* the sets of qualified candidates to plan for
  Caps,        \* the values of max_per_pattern
  NoCap,       \* max_per_pattern = None
  None         \* no pattern, no candidate, no plan

MaxFallbackChoices == 3   \* MAX_FALLBACK_CHOICES

IsCandidate(c) ==
  c.id \in Nat /\ c.pattern \in Patterns /\ c.ingress \in Ingresses

\* The coverage plans over the candidates of q.
Plans(q) ==
  [entries : SUBSET [target : {"ingress", "candidate"} \X Nat, ingress : Ingresses,
                     choices : Seq(q), primary : q \cup {None}, fallback : Seq(q)],
   limited : SUBSET Ingresses,
   uncovered : SUBSET Ingresses]

ASSUME IngressesAssumption ==
  IsFiniteSet(Ingresses) /\ Ingresses # {} /\ Ingresses = 1 .. Cardinality(Ingresses)
ASSUME PatternsAssumption ==
  IsFiniteSet(Patterns) /\ Patterns # {} /\ Patterns = 1 .. Cardinality(Patterns)
ASSUME CapsAssumption == \A k \in Caps : k = NoCap \/ k \in Nat \ {0}
ASSUME CorporaAssumption ==
  \A q \in Corpora :
    /\ IsFiniteSet(q)
    /\ \A c \in q : IsCandidate(c)
    /\ \A c, d \in q : c.id = d.id => c = d
ASSUME NoneAssumption ==
  None \notin Patterns /\ \A q \in Corpora : None \notin q /\ None \notin Plans(q)

VARIABLES
  mode,        \* GenerationMode
  cap,         \* max_per_pattern
  qualified,   \* the qualified candidates
  queues,      \* the fallback queue of each feasible ingress
  ranks,       \* the cost of each target's edges, by pattern
  assigned,    \* the pattern the flow carries for each ingress, or None
  selected,    \* candidates selected so far (exhaustive mode)
  pattern,     \* the pattern being capped
  turn,        \* the ingress whose turn it is
  progressed,  \* whether this lap took a candidate
  phase,       \* "queues", "flow", "rounds" or "planned"
  plan         \* the coverage plan

vars == <<mode, cap, qualified, queues, ranks, assigned, selected, pattern, turn,
          progressed, phase, plan>>
input == <<mode, cap, qualified>>
network == <<queues, ranks>>
ring == <<selected, pattern, turn, progressed>>

----------------------------------------------------------------------------
At(p, e) == {c \in qualified : c.pattern = p /\ c.ingress = e}

\* _qualified_sort_key: by pattern, then by candidate ID.
Before(c, d) == c.pattern < d.pattern \/ (c.pattern = d.pattern /\ c.id < d.id)

\* S in the order of _qualified_sort_key: a candidate's position is its rank.
Ranked(S) ==
  [i \in 1 .. Cardinality(S) |->
     CHOOSE c \in S : Cardinality({d \in S : Before(d, c)}) = i - 1]

\* Faulty variant: the queue is not bounded.
QueueUnbounded(e) == Ranked({c \in qualified : c.ingress = e})

\* build_fallback_queues for one ingress.
Queue(e) ==
  LET ranked == Ranked({c \in qualified : c.ingress = e})
  IN  SubSeq(ranked, 1, Min({MaxFallbackChoices, Len(ranked)}))

QueueSet(e) == ToSet(queues[e])
Coverable == {e \in Ingresses : queues[e] # <<>>}
TargetCount == Cardinality(Coverable)

\* _best_candidate_per_target_pattern, over the choices of a queue.
Best(choices, p) ==
  CHOOSE c \in choices :
    c.pattern = p /\ \A d \in choices : d.pattern = p => c.id <= d.id

\* The edges of a target, each pattern in its queue with its tie-break cost:
\* the rank of the pattern by the ID of the best candidate
\* (_add_target_pattern_edges).
EdgesOf(choices) ==
  LET patterns == {c.pattern : c \in choices}
      bestId == [p \in patterns |-> Best(choices, p).id]
  IN  [p \in patterns |-> Cardinality({q \in patterns : bestId[q] < bestId[p]})]

Edges(e) == DOMAIN ranks[e]

\* Faulty variant: the tie-break is not bounded by the scale.
ConcentrationScaleByTarget == TargetCount

ConcentrationScale == 2 * TargetCount + 1
CapOverflowPenalty == TargetCount * TargetCount + 1

\* _convex_pattern_cost: the cost of the k-th unit (from 0) into a pattern.
UnitCost(k) ==
  k * ConcentrationScale
    + (IF cap # NoCap /\ k >= cap THEN CapOverflowPenalty * ConcentrationScale
                                  ELSE 0)

Load(a, p) == Cardinality({e \in Ingresses : a[e] = p})

----------------------------------------------------------------------------
\* An augmenting path of the residual network leads from a target without flow
\* to a pattern, leaves each pattern but the last by undoing the edge of a
\* target assigned to it, and fills the edge from targets[i] to patterns[i].
Path(targets, last) ==
  [targets |-> targets,
   patterns |-> [i \in DOMAIN targets |->
                   IF i = Len(targets) THEN last ELSE assigned[targets[i + 1]]]]

IsPath(path) ==
  /\ assigned[path.targets[1]] = None
  /\ IsInjective(path.targets) /\ IsInjective(path.patterns)
  /\ \A i \in DOMAIN path.targets : path.patterns[i] \in Edges(path.targets[i])

Routes == UNION {[1 .. n -> Ingresses] : n \in 1 .. Cardinality(Ingresses)}
Paths == {path \in {Path(r, p) : r \in Routes, p \in Patterns} : IsPath(path)}

\* The cost of a path, arc by arc (_relax_node): every target but the first is
\* left by undoing its edge before another edge of it is filled.
PathCost(path) ==
  LET length == Len(path.targets)
      Fill(i) == ranks[path.targets[i]][path.patterns[i]]
      Undo(i) == ranks[path.targets[i]][path.patterns[i - 1]]
      arcs == [i \in 1 .. length |-> IF i = 1 THEN Fill(1) ELSE Fill(i) - Undo(i)]
  IN  Total(arcs, length) + UnitCost(Load(assigned, path.patterns[length]))

Init ==
  /\ mode \in {"coverage", "exhaustive"}
  /\ cap \in Caps
  /\ qualified \in Corpora
  /\ queues = [e \in Ingresses |-> <<>>]
  /\ ranks = [e \in Ingresses |-> <<>>]
  /\ assigned = [e \in Ingresses |-> None]
  /\ selected = {}
  /\ pattern = 1 /\ turn = 1 /\ progressed = FALSE
  /\ phase = "queues"
  /\ plan = None

\* plan_generation builds the fallback queues in both modes.
BuildQueues ==
  /\ phase = "queues"
  /\ queues' = [e \in Ingresses |-> Queue(e)]
  /\ ranks' = [e \in Ingresses |-> EdgesOf(ToSet(queues'[e]))]
  /\ phase' = IF mode = "coverage" THEN "flow" ELSE "rounds"
  /\ UNCHANGED <<input, assigned, ring, plan>>

\* The augmenting paths of least cost.
ShortestPaths ==
  LET cost == [path \in Paths |-> PathCost(path)]
  IN  {path \in Paths : \A other \in Paths : cost[path] <= cost[other]}

\* One round of _solve_min_cost_assignment: _spfa_shortest_path, then
\* _augment_path.
Augment ==
  /\ phase = "flow"
  /\ \E path \in ShortestPaths :
       assigned' = [e \in Ingresses |->
                      IF e \in ToSet(path.targets)
                      THEN path.patterns[CHOOSE i \in DOMAIN path.targets :
                                           path.targets[i] = e]
                      ELSE assigned[e]]
  /\ UNCHANGED <<input, network, ring, phase, plan>>

----------------------------------------------------------------------------
Entry(target, e, choices, primary, fallback) ==
  [target |-> target, ingress |-> e, choices |-> choices,
   primary |-> primary, fallback |-> fallback]

\* The target IDs: an ingress, or the digest of a candidate ID.
IngressTarget(e) == <<"ingress", e>>
CandidateTarget(c) == <<"candidate", c.id>>

Assignees(p) == {e \in Ingresses : assigned[e] = p}

\* Faulty variant: the first target beyond the cap counts as within it.
OverflowingFromNext ==
  IF cap = NoCap THEN {}
  ELSE {e \in Ingresses :
          /\ assigned[e] # None
          /\ Cardinality({d \in Assignees(assigned[e]) : d < e}) > cap}

\* _derive_selection_limitations: of the targets assigned to a pattern, those
\* after the first max_per_pattern.
Overflowing ==
  IF cap = NoCap THEN {}
  ELSE {e \in Ingresses :
          /\ assigned[e] # None
          /\ Cardinality({d \in Assignees(assigned[e]) : d < e}) >= cap}

Primary(e) == IF assigned[e] = None THEN None ELSE Best(QueueSet(e), assigned[e])
Primaries == {Primary(e) : e \in Ingresses} \ {None}

\* Faulty variant: only the target's own primary is taken out, by position.
FallbackAfterFirst(e) == IF queues[e] = <<>> THEN <<>> ELSE Tail(queues[e])

\* The choices no target attempts, in rank order (_plan_entry_for_target).
Fallback(e) == Without(queues[e], Primaries)

\* The loop ends when every target carries flow or no path is left; then
\* _extract_assignment, _build_primary_selection and build_coverage_plan.
PlanCoverage ==
  /\ phase = "flow" /\ Paths = {}
  /\ plan' = [entries |-> {Entry(IngressTarget(e), e, queues[e], Primary(e),
                                 Fallback(e)) : e \in Ingresses},
              limited |-> Overflowing,
              uncovered |-> {e \in Ingresses : assigned[e] = None}]
  /\ phase' = "planned"
  /\ UNCHANGED <<input, network, assigned, ring>>

----------------------------------------------------------------------------
Taken(p) == {c \in selected : c.pattern = p}
LastIngress == Max(Ingresses)
LastPattern == Max(Patterns)

NextPattern == pattern' = pattern + 1 /\ turn' = 1 /\ progressed' = FALSE

\* Without a cap the whole corpus is selected.
SelectAll ==
  /\ phase = "rounds" /\ cap = NoCap /\ pattern <= LastPattern
  /\ selected' = qualified
  /\ pattern' = LastPattern + 1
  /\ UNCHANGED <<input, network, assigned, turn, progressed, phase, plan>>

\* Faulty variant: an ingress keeps its turn until it has no candidate left.
TakeGreedily ==
  LET left == At(pattern, turn) \ selected IN
  /\ phase = "rounds" /\ cap # NoCap /\ pattern <= LastPattern
  /\ left # {}
  /\ selected' = selected \cup {CHOOSE c \in left : \A d \in left : c.id <= d.id}
  /\ IF Cardinality(Taken(pattern)) + 1 >= cap
     THEN NextPattern
     ELSE progressed' = TRUE /\ UNCHANGED <<pattern, turn>>
  /\ UNCHANGED <<input, network, assigned, phase, plan>>

PassTurn(took) ==
  IF turn < LastIngress
  THEN turn' = turn + 1 /\ progressed' = took /\ UNCHANGED pattern
  ELSE IF took
  THEN turn' = 1 /\ progressed' = FALSE /\ UNCHANGED pattern
  ELSE NextPattern

\* One turn of _round_robin_within_pattern: the ingress gives its next
\* candidate, until the pattern is full.
Take ==
  LET left == At(pattern, turn) \ selected IN
  /\ phase = "rounds" /\ cap # NoCap /\ pattern <= LastPattern
  /\ left # {}
  /\ selected' = selected \cup {CHOOSE c \in left : \A d \in left : c.id <= d.id}
  /\ IF Cardinality(Taken(pattern)) + 1 >= cap THEN NextPattern ELSE PassTurn(TRUE)
  /\ UNCHANGED <<input, network, assigned, phase, plan>>

\* An ingress without a candidate left is passed; a lap without progress ends
\* the pattern.
Pass ==
  /\ phase = "rounds" /\ cap # NoCap /\ pattern <= LastPattern
  /\ At(pattern, turn) \ selected = {}
  /\ PassTurn(progressed)
  /\ UNCHANGED <<input, network, assigned, selected, phase, plan>>

Unserved == Ingresses \ {c.ingress : c \in selected}

\* _exhaustive_target_entries, _uncovered_exhaustive_entries and
\* _cap_limited_target_ids.
PlanExhaustive ==
  /\ phase = "rounds" /\ pattern > LastPattern
  /\ plan' = [entries |->
                {Entry(CandidateTarget(c), c.ingress, <<c>>, c, <<>>)
                   : c \in selected}
                \cup {Entry(IngressTarget(e), e, <<>>, None, <<>>)
                        : e \in Unserved},
              limited |-> {e \in Unserved : queues[e] # <<>>},
              uncovered |-> Unserved]
  /\ phase' = "planned"
  /\ UNCHANGED <<input, network, assigned, ring>>

Planned == phase = "planned" /\ UNCHANGED vars

Next ==
  \/ BuildQueues \/ Augment \/ PlanCoverage
  \/ SelectAll \/ Take \/ Pass \/ PlanExhaustive
  \/ Planned

Spec == Init /\ [][Next]_vars

----------------------------------------------------------------------------
\* The types of the state.  Every tie-break rank is at most 2, which is what
\* makes ConcentrationScale exceed the tie-breaks of all targets together: the
\* bound depends on the size of the queues, set in another file.
TypeOK ==
  /\ mode \in {"coverage", "exhaustive"} /\ cap \in Caps
  /\ \A c \in qualified : IsCandidate(c)
  /\ \A e \in Ingresses :
       /\ queues[e] \in Seq(qualified) /\ Len(queues[e]) <= MaxFallbackChoices
       /\ DOMAIN ranks[e] \subseteq Patterns
       /\ \A p \in DOMAIN ranks[e] : ranks[e][p] \in 0 .. 2
       /\ assigned[e] \in DOMAIN ranks[e] \cup {None}
  /\ selected \subseteq qualified
  /\ pattern \in 1 .. LastPattern + 1 /\ turn \in Ingresses
  /\ progressed \in BOOLEAN
  /\ phase \in {"queues", "flow", "rounds", "planned"}
  /\ IF phase = "planned" THEN plan \in Plans(qualified) ELSE plan = None

\* Every feasible assignment of all coverable targets.
Assignments ==
  {a \in [Coverable -> Patterns] : \A e \in Coverable : a[e] \in Edges(e)}

\* The targets beyond the cap of their pattern, and the pairs of targets that
\* share a pattern.
Overflow(a) ==
  IF cap = NoCap THEN 0
  ELSE Cardinality({e \in DOMAIN a :
         Cardinality({d \in DOMAIN a : d < e /\ a[d] = a[e]}) >= cap})
Concentration(a) ==
  Cardinality({x \in (DOMAIN a) \X (DOMAIN a) : x[1] < x[2] /\ a[x[1]] = a[x[2]]})
TieBreak(a) ==
  Total([e \in Ingresses |-> IF e \in DOMAIN a THEN ranks[e][a[e]] ELSE 0], LastIngress)

\* "A deterministic min-cost flow finds the globally optimal assignment"
\* (select_with_coverage_priority): in the plan every target with a candidate
\* has a primary, no assignment of all of them overflows the cap less, none
\* is less concentrated, and none that does as well on both has a lower
\* tie-break.  The first two objectives never conflict, so the order in which
\* the two docstrings name them does not matter.
AssignmentIsOptimal ==
  phase = "planned" /\ mode = "coverage" =>
    LET mine == [e \in Coverable |-> assigned[e]]
        excess == Overflow(mine)
        density == Concentration(mine)
        rank == TieBreak(mine)
    IN  /\ mine \in Assignments
        /\ \A a \in Assignments :
             /\ excess <= Overflow(a)
             /\ density <= Concentration(a)
             /\ Overflow(a) = excess /\ Concentration(a) = density
                  => rank <= TieBreak(a)

\* A cap is respected, used up, and shared out: no pattern selects more than
\* the cap nor fewer than it could, and of two ingresses none has two
\* candidates more than the other unless the other has no more to give.
CapIsFair ==
  phase = "planned" /\ mode = "exhaustive" /\ cap # NoCap =>
    \A p \in Patterns :
      LET all == {c \in qualified : c.pattern = p}
          Share(e) == Cardinality(Taken(p) \cap At(p, e))
      IN  /\ Cardinality(Taken(p)) = Min({cap, Cardinality(all)})
          /\ \A d, e \in Ingresses :
               Share(d) >= Share(e) + 2 => At(p, e) \subseteq selected

\* The candidates a target may attempt.
Offered(x) == ToSet(x.fallback) \cup ({x.primary} \ {None})

\* The targets of the plan whose primary is of pattern p.
ServedBy(p) ==
  {x.ingress : x \in {y \in plan.entries : y.primary # None /\ y.primary.pattern = p}}

\* What the plan of coverage mode reports as limited: of the targets a pattern
\* serves, as many are within the cap as it allows, the first ones, and all the
\* others are limited, also those with no other choice.  A target without a
\* primary has no candidate, and is not limited.
CoverageLimits ==
  /\ \A e \in plan.uncovered :
       e \notin plan.limited /\ \A c \in qualified : c.ingress # e
  /\ cap = NoCap => plan.limited = {}
  /\ cap # NoCap =>
       \A p \in Patterns :
         LET within == ServedBy(p) \ plan.limited
         IN  /\ Cardinality(within) = Min({cap, Cardinality(ServedBy(p))})
             /\ \A d \in within, e \in ServedBy(p) \ within : d < e

\* What the plan of exhaustive mode reports as limited: the ingresses that have
\* a candidate but got no target, which only a cap can do.
ExhaustiveLimits ==
  /\ plan.limited = {e \in plan.uncovered : \E c \in qualified : c.ingress = e}
  /\ cap = NoCap => plan.limited = {}

\* What finalization relies on: each candidate the run may generate appears
\* in one place of the plan only, as the primary or a fallback of one target
\* of its own ingress; a feasible ingress is either served or reported
\* uncovered; and what the cap did is reported as the mode defines it.
PlanIsUsable ==
  phase = "planned" =>
    /\ \A x \in plan.entries :
         /\ \A c \in Offered(x) : c.ingress = x.ingress
         /\ x.primary \notin ToSet(x.fallback)
         /\ Offered(x) = ToSet(x.choices)
         /\ Len(x.choices) <= MaxFallbackChoices
         /\ x.primary = None <=> x.ingress \in plan.uncovered
    /\ \A x, y \in plan.entries :
         x.target = y.target \/ Offered(x) \cap Offered(y) # {} => x = y
    /\ {x.ingress : x \in plan.entries} = Ingresses
    /\ IF mode = "coverage" THEN CoverageLimits ELSE ExhaustiveLimits
=============================================================================
