------------------------ MODULE CoveragePlanningProofs -------------------------
(***************************************************************************)
(* plan_generation for any number of targets, patterns and candidates:     *)
(*   - a cap is respected, used up and shared out (CapIsFair): in the      *)
(*     middle of a lap an ingress that has candidates left has been served *)
(*     exactly as often as the laps say (CapInv);                          *)
(*   - the edge costs order assignments lexicographically;                 *)
(*   - the plan is one finalization can rely on (PlanIsUsable): the queues *)
(*     are disjoint, the flow runs on their edges, and it ends only when   *)
(*     every target with a candidate has one (PlanInv);                    *)
(*   - the assignment is optimal (AssignmentIsOptimal): after every round  *)
(*     there are prices of the patterns under which no target prefers      *)
(*     another pattern (FlowInv), and a priced flow is the cheapest that   *)
(*     serves its targets.                                                 *)
(***************************************************************************)
EXTENDS CoveragePlanning, SequenceSelectionProofs, FiniteSetTheorems

Shares(p) == [e \in Ingresses |-> Cardinality(Taken(p) \cap At(p, e))]
Spent(p) == {e \in Ingresses : At(p, e) \subseteq selected}

\* In lap L, when it is t's turn: what each ingress has been given, and who of
\* those served has nothing left when the lap has made no progress yet.
Lap(share, spent, t, prog, L) ==
  \A e \in Ingresses :
    LET due == IF e < t THEN L + 1 ELSE L IN
    /\ share[e] <= due
    /\ e \in spent \/ share[e] = due
    /\ prog \/ (e < t => e \in spent)

\* The share of a pattern that is done.
Fair(p) ==
  LET all == {c \in qualified : c.pattern = p}
      Share(e) == Cardinality(Taken(p) \cap At(p, e))
  IN  /\ Cardinality(Taken(p)) = Min({cap, Cardinality(all)})
      /\ \A d, e \in Ingresses :
           Share(d) >= Share(e) + 2 => At(p, e) \subseteq selected

CapInv ==
  /\ mode \in {"coverage", "exhaustive"} /\ cap \in Caps /\ qualified \in Corpora
  /\ phase \in {"queues", "flow", "rounds", "planned"}
  /\ phase = "flow" => mode = "coverage"
  /\ selected \subseteq qualified
  /\ pattern \in 1 .. LastPattern + 1 /\ turn \in Ingresses /\ progressed \in BOOLEAN
  /\ phase = "queues" => selected = {} /\ pattern = 1 /\ turn = 1 /\ progressed = FALSE
  /\ phase = "planned" /\ mode = "exhaustive" => pattern = LastPattern + 1
  /\ mode = "exhaustive" /\ cap # NoCap =>
       /\ \A p \in Patterns : p < pattern => Fair(p)
       /\ \A p \in Patterns : p > pattern => Taken(p) = {}
       /\ pattern \in Patterns =>
            /\ Cardinality(Taken(pattern)) < cap
            /\ \E L \in Nat : Lap(Shares(pattern), Spent(pattern), turn, progressed, L)

-----------------------------------------------------------------------------
\* The largest ingress and the largest pattern are their numbers.
LEMMA Largest ==
  /\ LastIngress \in Nat \ {0} /\ Ingresses = 1 .. LastIngress
  /\ LastPattern \in Nat \ {0} /\ Patterns = 1 .. LastPattern
<1>1. ASSUME NEW S, IsFiniteSet(S), S # {}, S = 1 .. Cardinality(S)
      PROVE  Max(S) = Cardinality(S) /\ Cardinality(S) \in Nat \ {0}
  <2>1. Cardinality(S) \in Nat
    BY <1>1, FS_CardinalityType
  <2>2. Cardinality(S) # 0
    BY <1>1, FS_EmptySet
  <2> DEFINE n == Cardinality(S)
  <2>3. n \in S /\ \A y \in S : n >= y
    BY <1>1, <2>1, <2>2
  <2>4. \A x \in S : (\A y \in S : x >= y) => x = n
    BY <1>1, <2>1, <2>3
  <2> HIDE DEF n
  <2>5. Max(S) = n
    BY <2>3, <2>4 DEF Max
  <2> QED
    BY <2>1, <2>2, <2>5 DEF n
<1> QED
  BY <1>1, IngressesAssumption, PatternsAssumption DEF LastIngress, LastPattern

\* Every ingress with candidates left has one of least ID.
LEMMA LeastLeft ==
  ASSUME NEW S, S # {}, \A c \in S : c.id \in Nat
  PROVE  \E c \in S : \A d \in S : c.id <= d.id
<1> DEFINE ids == {c.id : c \in S}
<1>1. ids \in SUBSET Nat /\ ids # {}
  OBVIOUS
<1> HIDE DEF ids
<1>2. PICK n \in ids : \A m \in ids : n <= m
  BY <1>1, LeastNumber
<1> QED
  BY <1>2 DEF ids

\* The turn after the last leads to a lap more, or to the end of the pattern.
LEMMA LapEnds ==
  ASSUME NEW share \in [Ingresses -> Nat], NEW spent, NEW prog \in BOOLEAN, NEW L \in Nat,
         Lap(share, spent, LastIngress + 1, prog, L)
  PROVE  /\ Lap(share, spent, 1, FALSE, L + 1)
         /\ ~prog => Ingresses \subseteq spent
BY Largest DEF Lap

\* The turn of t, which takes (took) a candidate or has none left.
LEMMA TurnTaken ==
  ASSUME NEW share \in [Ingresses -> Nat], NEW spent, NEW share2 \in [Ingresses -> Nat],
         NEW spent2, NEW t \in Ingresses, NEW prog, NEW L \in Nat,
         Lap(share, spent, t, prog, L), t \notin spent,
         share2 = [share EXCEPT ![t] = share[t] + 1],
         spent \subseteq spent2, spent2 \subseteq spent \cup {t}
  PROVE  Lap(share2, spent2, t + 1, TRUE, L)
BY Largest DEF Lap

LEMMA TurnPassed ==
  ASSUME NEW share \in [Ingresses -> Nat], NEW spent, NEW t \in Ingresses,
         NEW prog \in BOOLEAN, NEW L \in Nat,
         Lap(share, spent, t, prog, L), t \in spent
  PROVE  Lap(share, spent, t + 1, prog, L)
BY Largest DEF Lap

\* Within a lap no share exceeds that of an ingress with candidates left by two.
LEMMA LapIsFair ==
  ASSUME NEW share \in [Ingresses -> Nat], NEW spent, NEW t \in Nat,
         NEW prog, NEW L \in Nat, Lap(share, spent, t, prog, L),
         NEW d \in Ingresses, NEW e \in Ingresses, share[d] >= share[e] + 2
  PROVE  e \in spent
BY Largest DEF Lap

\* The candidates of a corpus are finitely many, of the right type.
LEMMA CorpusFacts ==
  ASSUME CapInv
  PROVE  /\ IsFiniteSet(qualified) /\ IsFiniteSet(selected)
         /\ \A c \in qualified : c.id \in Nat /\ c.pattern \in Patterns
                                  /\ c.ingress \in Ingresses
         /\ \A p : Taken(p) \subseteq selected /\ IsFiniteSet(Taken(p))
         /\ \A p : Shares(p) \in [Ingresses -> Nat]
<1>1. IsFiniteSet(qualified)
  BY CorporaAssumption DEF CapInv
<1>2. \A c \in qualified : IsCandidate(c)
  BY CorporaAssumption DEF CapInv
<1>3. IsFiniteSet(selected)
  BY <1>1, FS_Subset DEF CapInv
<1>4. \A p : Taken(p) \subseteq selected /\ IsFiniteSet(Taken(p))
  BY <1>3, FS_Subset DEF Taken
<1>5. \A p, e : Cardinality(Taken(p) \cap At(p, e)) \in Nat
  <2> TAKE p, e
  <2>1. IsFiniteSet(Taken(p) \cap At(p, e))
    BY <1>4, FS_Subset
  <2> QED
    BY <2>1, FS_CardinalityType
<1> QED
  BY <1>1, <1>2, <1>3, <1>4, <1>5 DEF IsCandidate, Shares

\* Fair, Taken, Shares and Spent of a pattern are about its candidates only.
LEMMA OtherPatterns ==
  ASSUME CapInv, NEW c \in qualified, selected' = selected \cup {c},
         UNCHANGED <<qualified, cap>>, NEW p \in Patterns, p # c.pattern
  PROVE  Taken(p)' = Taken(p) /\ (Fair(p) => Fair(p)')
<1>1. Taken(p)' = Taken(p)
  BY DEF Taken
<1>2. \A e \in Ingresses : At(p, e)' = At(p, e)
  BY DEF At
<1>3. \A e \in Ingresses : At(p, e) \subseteq selected => At(p, e) \subseteq selected'
  OBVIOUS
<1> QED
  BY <1>1, <1>2, <1>3 DEF Fair

\* What taking a candidate of the pattern's turn changes.
LEMMA TakeOne ==
  ASSUME CapInv, NEW p \in Patterns, NEW t \in Ingresses,
         NEW c \in At(p, t) \ selected, selected' = selected \cup {c},
         UNCHANGED <<qualified, cap>>
  PROVE  /\ Cardinality(Taken(p))' = Cardinality(Taken(p)) + 1
         /\ Shares(p)' = [Shares(p) EXCEPT ![t] = Shares(p)[t] + 1]
         /\ t \notin Spent(p) /\ Spent(p) \subseteq Spent(p)'
         /\ Spent(p)' \subseteq Spent(p) \cup {t}
<1>1. c \in qualified /\ c.pattern = p /\ c.ingress = t /\ c \notin selected
  BY DEF At
<1> DEFINE T == {d \in selected : d.pattern = p}
           T2 == {d \in selected \cup {c} : d.pattern = p}
           A(e) == {d \in qualified : d.pattern = p /\ d.ingress = e}
<1>3. T2 = T \cup {c} /\ c \notin T
  BY <1>1
<1>4. Taken(p) = T /\ IsFiniteSet(T)
  BY CorpusFacts DEF Taken
<1>5. {d \in selected' : d.pattern = p} = T2
  OBVIOUS
<1>6. Cardinality(T2) = Cardinality(T) + 1
  BY <1>3, <1>4, FS_AddElement
<1>7. \A e \in Ingresses \ {t} : T2 \cap A(e) = T \cap A(e)
  BY <1>1
<1>8. Cardinality(T2 \cap A(t)) = Cardinality(T \cap A(t)) + 1
  <2>1. T2 \cap A(t) = (T \cap A(t)) \cup {c}
    BY <1>1
  <2>2. IsFiniteSet(T \cap A(t)) /\ c \notin T \cap A(t)
    BY <1>3, <1>4, FS_Subset
  <2> HIDE DEF T, T2, A
  <2> QED
    BY <2>1, <2>2, FS_AddElement
<1>9. t \notin Spent(p)
  BY <1>1 DEF Spent, At
<1>10. \A e \in Ingresses \ {t} : A(e) \subseteq selected \cup {c} <=> A(e) \subseteq selected
  BY <1>1
<1>11. {e \in Ingresses : A(e) \subseteq selected \cup {c}}
         \subseteq {e \in Ingresses : A(e) \subseteq selected} \cup {t}
  BY <1>10
<1>12. Shares(p) = [e \in Ingresses |-> Cardinality(T \cap A(e))]
  BY DEF Shares, Taken, At
<1>13. [e \in Ingresses |-> Cardinality(T2 \cap A(e))]
         = [Shares(p) EXCEPT ![t] = Shares(p)[t] + 1]
  <2> HIDE DEF T, T2, A
  <2> QED
    BY <1>7, <1>8, <1>12
<1> QED
  BY <1>4, <1>6, <1>9, <1>11, <1>13 DEF Taken, Shares, Spent, At

\* CapInv for a pattern in its rounds, spelled out for a constant.
RoundsOf(p) ==
  /\ \A q \in Patterns : q < p => Fair(q)
  /\ \A q \in Patterns : q > p => Taken(q) = {}
  /\ p \in Patterns =>
       /\ Cardinality(Taken(p)) < cap
       /\ \E L \in Nat : Lap(Shares(p), Spent(p), turn, progressed, L)

\* A step of the rounds keeps CapInv when RoundsOf the next pattern holds.
LEMMA RoundsStep ==
  ASSUME CapInv, phase = "rounds", UNCHANGED <<mode, cap, qualified, phase>>,
         selected' \subseteq qualified, turn' \in Ingresses, progressed' \in BOOLEAN,
         NEW q \in 1 .. LastPattern + 1, q = pattern', RoundsOf(q)'
  PROVE  CapInv'
BY DEF CapInv, RoundsOf, Shares, Spent, Taken

\* The pattern p is done, the next one has given nothing.
LEMMA PatternEnds ==
  ASSUME CapInv, phase = "rounds", mode = "exhaustive", cap # NoCap,
         UNCHANGED <<mode, cap, qualified, phase>>, selected' \subseteq qualified,
         NEW p \in Patterns, p = pattern, NextPattern, Fair(p)',
         \A q \in Patterns \ {p} : Taken(q)' = Taken(q) /\ (Fair(q) => Fair(q)')
  PROVE  CapInv'
<1>1. p + 1 \in 1 .. LastPattern + 1 /\ p + 1 = pattern' /\ p \in Nat
  BY Largest DEF NextPattern
<1>2. turn' = 1 /\ progressed' = FALSE /\ 1 \in Ingresses
  BY Largest DEF NextPattern
<1>3. \A q \in Patterns : q < p + 1 => Fair(q)'
  <2> TAKE q \in Patterns
  <2>1. q < p + 1 => q = p \/ q < p
    BY <1>1, Largest
  <2> QED
    BY <2>1 DEF CapInv
<1>4. \A q \in Patterns : q > p => Taken(q)' = {}
  <2> TAKE q \in Patterns
  <2>1. q > p => q # p /\ Taken(q) = {}
    BY <1>1, Largest DEF CapInv
  <2> QED
    BY <2>1
<1>5. ASSUME p + 1 \in Patterns
      PROVE  /\ Cardinality(Taken(p + 1))' < cap
             /\ Lap(Shares(p + 1)', Spent(p + 1)', 1, FALSE, 0)
  <2>1. Taken(p + 1)' = {}
    BY <1>1, <1>4, <1>5
  <2>2. cap \in Nat \ {0}
    BY CapsAssumption DEF CapInv
  <2>3. \A e \in Ingresses : Shares(p + 1)'[e] = 0
    <3>1. \A X : {} \cap X = {}
      OBVIOUS
    <3> QED
      BY <2>1, <3>1, FS_EmptySet DEF Shares
  <2>4. \A e \in Ingresses : ~ (e < 1)
    BY Largest
  <2>5. Cardinality(Taken(p + 1))' = 0
    BY <2>1, FS_EmptySet
  <2> QED
    BY <2>2, <2>3, <2>4, <2>5 DEF Lap
<1>6. \A q \in Patterns : q > p + 1 => Taken(q)' = {}
  BY <1>1, <1>4, Largest
<1>7. RoundsOf(p + 1)'
  BY <1>2, <1>3, <1>5, <1>6 DEF RoundsOf
<1> QED
  BY <1>1, <1>2, <1>7, RoundsStep

\* The turn of an ingress is over, and the pattern has room left.
LEMMA TurnEnds ==
  ASSUME CapInv, phase = "rounds", mode = "exhaustive", cap # NoCap,
         UNCHANGED <<mode, cap, qualified, phase>>, selected' \subseteq qualified,
         NEW p \in Patterns, p = pattern, NEW prog \in BOOLEAN, PassTurn(prog),
         \A q \in Patterns \ {p} : Taken(q)' = Taken(q) /\ (Fair(q) => Fair(q)'),
         Cardinality(Taken(p))' < cap, Shares(p)' \in [Ingresses -> Nat],
         NEW L \in Nat, Lap(Shares(p)', Spent(p)', turn + 1, prog, L),
         (turn = LastIngress /\ ~prog) => Fair(p)'
  PROVE  CapInv'
<1>1. p \in Nat /\ p \in 1 .. LastPattern + 1 /\ turn \in Ingresses
  BY Largest DEF CapInv
<1>2. \A q \in Patterns : q < p => q # p /\ Fair(q)
  BY <1>1, Largest DEF CapInv
<1>3. \A q \in Patterns : q > p => q # p /\ Taken(q) = {}
  BY <1>1, Largest DEF CapInv
<1>4. (\A q \in Patterns : q < p => Fair(q)') /\ (\A q \in Patterns : q > p => Taken(q)' = {})
  BY <1>2, <1>3
<1>5. CASE turn < LastIngress
  <2>1. pattern' = p /\ turn' = turn + 1 /\ progressed' = prog /\ turn' \in Ingresses
    BY <1>1, <1>5, Largest DEF PassTurn
  <2>2. RoundsOf(p)'
    BY <1>4, <2>1 DEF RoundsOf
  <2> QED
    BY <1>1, <2>1, <2>2, RoundsStep
<1>6. CASE turn = LastIngress /\ prog
  <2>0. ~(turn < LastIngress) /\ 1 \in Ingresses
    BY <1>6, Largest
  <2>1. pattern' = p /\ turn' = 1 /\ progressed' = FALSE
    BY <1>6, <2>0 DEF PassTurn
  <2>2. Lap(Shares(p)', Spent(p)', 1, FALSE, L + 1)
    BY <1>6, LapEnds
  <2>3. Lap(Shares(p)', Spent(p)', turn', progressed', L + 1)
    BY <2>1, <2>2, Zenon
  <2>5. L + 1 \in Nat
    OBVIOUS
  <2>4. RoundsOf(p)'
    BY <1>4, <2>3, <2>5 DEF RoundsOf
  <2> QED
    BY <1>1, <2>0, <2>1, <2>4, RoundsStep
<1>7. CASE turn = LastIngress /\ ~prog
  <2>1. NextPattern
    BY <1>7, Largest DEF PassTurn
  <2> QED
    BY <1>7, <2>1, PatternEnds
<1> QED
  BY <1>1, <1>5, <1>6, <1>7, Largest

\* A pattern whose ingresses have nothing left is fairly shared.
LEMMA SpentIsFair ==
  ASSUME CapInv, cap # NoCap, NEW p \in Patterns, Cardinality(Taken(p)) <= cap,
         Ingresses \subseteq Spent(p)
  PROVE  Fair(p)
<1> DEFINE all == {c \in qualified : c.pattern = p}
<1>1. Taken(p) = all
  <2>1. \A c \in all : c.ingress \in Ingresses /\ c \in At(p, c.ingress)
    BY CorpusFacts DEF At
  <2>2. \A e \in Ingresses : At(p, e) \subseteq selected
    BY DEF Spent
  <2> QED
    BY <2>1, <2>2 DEF Taken, CapInv
<1>2. Cardinality(all) \in Nat /\ cap \in Nat
  <2>1. IsFiniteSet(all)
    BY <1>1, CorpusFacts
  <2> HIDE DEF all
  <2> QED
    BY <2>1, FS_CardinalityType, CapsAssumption DEF CapInv
<1>3. Min({cap, Cardinality(all)}) = Cardinality(all)
  <2> HIDE DEF all
  <2>1. \A x \in {cap, Cardinality(all)} :
          (\A y \in {cap, Cardinality(all)} : x <= y) <=> x = Cardinality(all)
    BY <1>1, <1>2
  <2> QED
    BY <2>1 DEF Min
<1> QED
  BY <1>1, <1>3 DEF Fair, Spent

\* A pattern that has just reached the cap is fairly shared.
LEMMA FullIsFair ==
  ASSUME CapInv, cap # NoCap, UNCHANGED <<cap, qualified>>, selected' \subseteq qualified,
         NEW p \in Patterns, Cardinality(Taken(p))' = cap,
         Shares(p)' \in [Ingresses -> Nat],
         NEW t \in Nat, NEW prog, NEW L \in Nat, Lap(Shares(p)', Spent(p)', t, prog, L)
  PROVE  Fair(p)'
<1> DEFINE all == {c \in qualified : c.pattern = p}
<1>1. IsFiniteSet(all) /\ {c \in selected' : c.pattern = p} \subseteq all
  BY CorpusFacts, FS_Subset
<1>2. Cardinality(all) \in Nat /\ cap \in Nat /\ cap <= Cardinality(all)
  <2>1. {c \in selected' : c.pattern = p} = Taken(p)'
    BY DEF Taken
  <2> HIDE DEF all
  <2> QED
    BY <1>1, <2>1, FS_CardinalityType, FS_Subset, CapsAssumption DEF CapInv
<1>3. Min({cap, Cardinality(all)}) = cap
  <2> HIDE DEF all
  <2>1. \A x \in {cap, Cardinality(all)} :
          (\A y \in {cap, Cardinality(all)} : x <= y) <=> x = cap
    BY <1>2
  <2> QED
    BY <2>1 DEF Min
<1>4. \A d, e \in Ingresses : Shares(p)'[d] >= Shares(p)'[e] + 2 => e \in Spent(p)'
  BY LapIsFair
<1>5. \A e \in Ingresses : Shares(p)'[e] = Cardinality(Taken(p)' \cap At(p, e)')
  BY DEF Shares
<1>6. \A e \in Ingresses : e \in Spent(p)' => At(p, e)' \subseteq selected'
  BY DEF Spent
<1> QED
  BY <1>3, <1>4, <1>5, <1>6 DEF Fair

\* One turn in which the ingress gives a candidate.
LEMMA TakeStep ==
  ASSUME CapInv, Take, mode = "exhaustive" PROVE CapInv'
<1> DEFINE p == pattern
           left == At(pattern, turn) \ selected
           c == CHOOSE x \in left : \A d \in left : x.id <= d.id
<1>1. /\ phase = "rounds" /\ cap # NoCap /\ left # {}
      /\ selected' = selected \cup {c}
      /\ UNCHANGED <<mode, cap, qualified, phase>>
  BY DEF Take, input
<1>2. p \in Patterns /\ turn \in Ingresses
  BY Largest DEF Take, CapInv
<1>3. c \in left
  <2>1. \A x \in left : x.id \in Nat
    BY CorpusFacts DEF At
  <2> HIDE DEF left
  <2> QED
    BY <1>1, <2>1, LeastLeft
<1>4. c \in qualified /\ c.pattern = p /\ selected' \subseteq qualified
  BY <1>1, <1>3 DEF At, CapInv
<1> HIDE DEF c, left
<1>5. PICK q \in Patterns : q = p
  BY <1>2
<1>6. \A r \in Patterns \ {q} : Taken(r)' = Taken(r) /\ (Fair(r) => Fair(r)')
  BY <1>1, <1>4, <1>5, OtherPatterns
<1>7. /\ Cardinality(Taken(q)) \in Nat /\ Cardinality(Taken(q)) < cap /\ cap \in Nat
      /\ Shares(q) \in [Ingresses -> Nat]
      /\ Taken(pattern) = Taken(q)
  BY <1>1, <1>2, <1>5, CorpusFacts, FS_CardinalityType, CapsAssumption DEF CapInv
<1>8. PICK L \in Nat : Lap(Shares(q), Spent(q), turn, progressed, L)
  BY <1>1, <1>2, <1>5 DEF CapInv
<1>9. PICK t \in Ingresses : t = turn
  BY <1>2
<1>10. /\ Cardinality(Taken(q))' = Cardinality(Taken(q)) + 1
       /\ Shares(q)' = [Shares(q) EXCEPT ![t] = Shares(q)[t] + 1]
       /\ t \notin Spent(q) /\ Spent(q) \subseteq Spent(q)'
       /\ Spent(q)' \subseteq Spent(q) \cup {t}
  <2>1. c \in At(q, t) \ selected
    BY <1>3, <1>5, <1>9 DEF left
  <2> QED
    BY <1>1, <2>1, TakeOne
<1>11. Shares(q)' \in [Ingresses -> Nat]
  BY <1>7, <1>10
<1>12. Lap(Shares(q)', Spent(q)', t + 1, TRUE, L)
  <2>1. Lap(Shares(q), Spent(q), t, progressed, L)
    BY <1>8, <1>9
  <2> QED
    BY <1>7, <1>10, <1>11, <2>1, TurnTaken
<1>13. CASE Cardinality(Taken(pattern)) + 1 >= cap
  <2>1. NextPattern
    BY <1>13 DEF Take
  <2>2. Cardinality(Taken(q))' = cap /\ t + 1 \in Nat
    BY <1>7, <1>10, <1>13, Largest
  <2>3. Fair(q)'
    BY <1>1, <1>4, <1>11, <1>12, <2>2, FullIsFair
  <2> QED
    BY <1>1, <1>4, <1>5, <1>6, <2>1, <2>3, PatternEnds
<1>14. CASE ~(Cardinality(Taken(pattern)) + 1 >= cap)
  <2>1. PassTurn(TRUE)
    BY <1>14 DEF Take
  <2>2. Cardinality(Taken(q))' < cap
    BY <1>7, <1>10, <1>14
  <2>3. Lap(Shares(q)', Spent(q)', turn + 1, TRUE, L)
    BY <1>9, <1>12
  <2> QED
    BY <1>1, <1>4, <1>5, <1>6, <1>11, <2>1, <2>2, <2>3, TurnEnds
<1> QED
  BY <1>13, <1>14

\* One turn of an ingress that has nothing left.
LEMMA PassStep ==
  ASSUME CapInv, Pass, mode = "exhaustive" PROVE CapInv'
<1>1. /\ phase = "rounds" /\ cap # NoCap /\ PassTurn(progressed)
      /\ UNCHANGED <<mode, cap, qualified, phase, selected>>
  BY DEF Pass, input
<1>2. PICK q \in Patterns : q = pattern
  BY Largest DEF Pass, CapInv
<1>3. PICK t \in Ingresses : t = turn
  BY DEF CapInv
<1>4. t \in Spent(q)
  BY <1>2, <1>3 DEF Pass, Spent
<1>5. PICK L \in Nat : Lap(Shares(q), Spent(q), t, progressed, L)
  BY <1>1, <1>2, <1>3 DEF CapInv
<1>6. /\ Cardinality(Taken(q)) < cap /\ Cardinality(Taken(q)) \in Nat /\ cap \in Nat
      /\ Shares(q) \in [Ingresses -> Nat] /\ progressed \in BOOLEAN
  BY <1>1, <1>2, CorpusFacts, FS_CardinalityType, CapsAssumption DEF CapInv
<1>7. Lap(Shares(q), Spent(q), t + 1, progressed, L)
  BY <1>4, <1>5, <1>6, TurnPassed
<1>8. \A r \in Patterns : Taken(r)' = Taken(r) /\ (Fair(r) => Fair(r)')
  BY <1>1 DEF Taken, Fair, At
<1>9. Shares(q)' = Shares(q) /\ Spent(q)' = Spent(q)
  BY <1>1 DEF Shares, Spent, Taken, At
<1>10. (turn = LastIngress /\ ~progressed) => Fair(q)'
  <2> SUFFICES ASSUME turn = LastIngress, ~progressed PROVE Fair(q)
    BY <1>8
  <2>1. Ingresses \subseteq Spent(q)
    BY <1>3, <1>6, <1>7, LapEnds
  <2> QED
    BY <1>1, <1>6, <2>1, SpentIsFair
<1>11. selected' \subseteq qualified
  BY <1>1 DEF CapInv
<1>12. /\ Cardinality(Taken(q))' < cap /\ Shares(q)' \in [Ingresses -> Nat]
       /\ Lap(Shares(q)', Spent(q)', turn + 1, progressed, L)
  BY <1>3, <1>6, <1>7, <1>8, <1>9
<1>13. PICK prog \in BOOLEAN : prog = progressed
  BY <1>6
<1> QED
  BY <1>1, <1>2, <1>8, <1>10, <1>11, <1>12, <1>13, TurnEnds

\* Before the rounds nothing is given, in lap 0.
LEMMA Untouched ==
  ASSUME cap \in Caps, selected = {}, pattern = 1, turn = 1, cap # NoCap
  PROVE  /\ \A p \in Patterns : p < pattern => Fair(p)
         /\ \A p \in Patterns : p > pattern => Taken(p) = {}
         /\ Cardinality(Taken(pattern)) < cap
         /\ Lap(Shares(pattern), Spent(pattern), turn, FALSE, 0)
<1>1. \A p : Taken(p) = {} /\ Cardinality(Taken(p)) = 0
  BY FS_EmptySet DEF Taken
<1>2. \A e \in Ingresses : Shares(pattern)[e] = 0
  <2>1. \A X : {} \cap X = {}
    OBVIOUS
  <2> QED
    BY <1>1, <2>1, FS_EmptySet DEF Shares
<1>3. \A p \in Patterns : ~ (p < pattern)
  BY Largest
<1>4. \A e \in Ingresses : ~ (e < turn)
  BY Largest
<1>5. cap \in Nat \ {0}
  BY CapsAssumption
<1> QED
  BY <1>1, <1>2, <1>3, <1>4, <1>5 DEF Lap

\* The strengthening of CapIsFair is an invariant of the planning.
THEOREM CapInvariance == Spec => []CapInv
<1>1. Init => CapInv
  <2> SUFFICES ASSUME Init PROVE CapInv
    OBVIOUS
  <2>1. /\ mode \in {"coverage", "exhaustive"} /\ cap \in Caps /\ qualified \in Corpora
        /\ selected = {} /\ pattern = 1 /\ turn = 1 /\ phase = "queues"
    BY DEF Init
  <2>2. progressed = FALSE
    BY DEF Init
  <2>3. pattern \in 1 .. LastPattern + 1 /\ turn \in Ingresses
    BY <2>1, Largest
  <2>4. cap # NoCap => \E L \in Nat : Lap(Shares(pattern), Spent(pattern), turn, progressed, L)
    BY <2>1, <2>2, Untouched
  <2>5. progressed \in BOOLEAN
    BY <2>2
  <2> QED
    BY <2>1, <2>2, <2>3, <2>4, <2>5, Untouched DEF CapInv
<1>2. CapInv /\ [Next]_vars => CapInv'
  <2> SUFFICES ASSUME CapInv, [Next]_vars PROVE CapInv'
    OBVIOUS
  <2> DEFINE kept == <<mode, cap, qualified, selected, pattern, turn, progressed>>
  <2>1. ASSUME UNCHANGED kept, phase' \in {"queues", "flow", "rounds", "planned"},
               phase' = "flow" => mode = "coverage",
               phase' = "queues" => phase = "queues",
               phase' = "planned" /\ mode = "exhaustive" => pattern = LastPattern + 1
        PROVE  CapInv'
    BY <2>1 DEF CapInv, Fair, Taken, Shares, Spent, At
  <2>2. CASE BuildQueues
    BY <2>1, <2>2 DEF BuildQueues, input, ring, CapInv
  <2>3. CASE Augment
    BY <2>1, <2>3 DEF Augment, input, ring, CapInv
  <2>4. CASE PlanCoverage
    BY <2>1, <2>4 DEF PlanCoverage, input, ring, CapInv
  <2>5. CASE PlanExhaustive
    <3>1. pattern = LastPattern + 1
      BY <2>5, Largest DEF PlanExhaustive, CapInv
    <3> QED
      BY <2>1, <2>5, <3>1 DEF PlanExhaustive, input, ring
  <2>6. CASE SelectAll
    <3>1. /\ UNCHANGED <<mode, cap, qualified, turn, progressed, phase>>
          /\ cap = NoCap /\ phase = "rounds"
          /\ selected' = qualified /\ pattern' = LastPattern + 1
      BY <2>6 DEF SelectAll, input
    <3>2. pattern' \in 1 .. LastPattern + 1
      BY <3>1, Largest
    <3> QED
      BY <3>1, <3>2 DEF CapInv
  <2>7. CASE mode = "coverage" /\ (Take \/ Pass)
    <3>1. /\ UNCHANGED <<mode, cap, qualified, phase>> /\ phase = "rounds"
          /\ selected' \subseteq qualified
      <4>1. CASE Pass
        BY <4>1 DEF Pass, input, CapInv
      <4>2. CASE Take
        <5> DEFINE left == At(pattern, turn) \ selected
        <5>1. \A x \in left : x.id \in Nat /\ x \in qualified
          BY CorpusFacts DEF At
        <5>2. /\ left # {}
              /\ selected' = selected \cup {CHOOSE x \in left : \A d \in left : x.id <= d.id}
          BY <4>2 DEF Take
        <5> HIDE DEF left
        <5>3. (CHOOSE x \in left : \A d \in left : x.id <= d.id) \in left
          BY <5>1, <5>2, LeastLeft
        <5> QED
          BY <4>2, <5>1, <5>2, <5>3 DEF Take, input, CapInv
      <4> QED
        BY <2>7, <4>1, <4>2
    <3>2. NextPattern \/ \E took \in BOOLEAN : PassTurn(took)
      BY <2>7 DEF Take, Pass, CapInv
    <3>3. pattern' \in 1 .. LastPattern + 1 /\ turn' \in Ingresses
      <4>0. pattern <= LastPattern
        BY <2>7 DEF Take, Pass
      <4>1. pattern \in 1 .. LastPattern /\ turn \in 1 .. LastIngress
        BY <4>0, Largest DEF CapInv
      <4> QED
        BY <3>2, <4>1, Largest DEF NextPattern, PassTurn
    <3>4. progressed' \in BOOLEAN
      BY <3>2 DEF NextPattern, PassTurn
    <3> QED
      BY <2>7, <3>1, <3>3, <3>4 DEF CapInv
  <2>8. CASE mode = "exhaustive" /\ (Take \/ Pass)
    BY <2>8, TakeStep, PassStep
  <2>9. CASE UNCHANGED vars
    BY <2>1, <2>9 DEF vars, CapInv
  <2>10. mode = "coverage" \/ mode = "exhaustive"
    BY DEF CapInv
  <2> QED
    BY <2>2, <2>3, <2>4, <2>5, <2>6, <2>7, <2>8, <2>9, <2>10 DEF Next, Planned
<1> QED
  BY <1>1, <1>2, PTL DEF Spec

\* In exhaustive mode a cap is respected, used up and shared out.
THEOREM CapShared == Spec => []CapIsFair
<1>1. CapInv => CapIsFair
  <2> SUFFICES ASSUME CapInv, phase = "planned", mode = "exhaustive", cap # NoCap,
                      NEW p \in Patterns
               PROVE  Fair(p)
    BY DEF CapIsFair, Fair
  <2>1. p < pattern
    BY Largest DEF CapInv
  <2> QED
    BY <2>1 DEF CapInv
<1> QED
  BY <1>1, CapInvariance, PTL

-----------------------------------------------------------------------------
\* What an assignment of coverage mode pays: the units of overflow and
\* concentration through UnitCost, the tie-breaks by edge.
Weight(overflow, density, tie) ==
  (overflow * CapOverflowPenalty + density) * ConcentrationScale + tie

\* A number with a larger high digit is larger.
LEMMA HighDigit ==
  ASSUME NEW a \in Nat, NEW b \in Nat, NEW base \in Nat, NEW x \in Nat, NEW y \in Nat,
         y < base, a > b
  PROVE  a * base + x > b * base + y
<1>1. PICK k \in Nat : a = b + 1 + k
  <2>1. a - b - 1 \in Nat /\ a = b + 1 + (a - b - 1)
    OBVIOUS
  <2> QED
    BY <2>1
<1>2. a * base = b * base + base + k * base
  BY <1>1
<1>3. k * base \in Nat /\ b * base \in Nat /\ a * base \in Nat
  OBVIOUS
<1> DEFINE ab == a * base
           bb == b * base
           kb == k * base
<1> HIDE DEF ab, bb, kb
<1>4. ab = bb + base + kb /\ kb \in Nat /\ bb \in Nat
  BY <1>2, <1>3 DEF ab, bb, kb
<1>5. ab + x > bb + y
  BY <1>4
<1> QED
  BY <1>5 DEF ab, bb

\* For any number of targets the three objectives are weighed so that the
\* assignment of least weight overflows the cap least, then is least
\* concentrated, then has the lowest tie-break (_build_flow_network: "> max
\* total tie-break"): a tie-break per target is at most 2, and at most all
\* pairs of targets share a pattern.
THEOREM WeightsAreLexicographic ==
  ASSUME NEW o \in Nat, NEW o2 \in Nat,
         NEW d \in 0 .. TargetCount * TargetCount,
         NEW d2 \in 0 .. TargetCount * TargetCount,
         NEW t \in 0 .. 2 * TargetCount, NEW t2 \in 0 .. 2 * TargetCount,
         Weight(o, d, t) <= Weight(o2, d2, t2)
  PROVE  o < o2 \/ (o = o2 /\ (d < d2 \/ (d = d2 /\ t <= t2)))
<1>1. TargetCount \in Nat
  <2>1. IsFiniteSet(Coverable)
    BY IngressesAssumption, FS_Subset DEF Coverable
  <2> QED
    BY <2>1, FS_CardinalityType DEF TargetCount
<1> DEFINE n == TargetCount
           p == CapOverflowPenalty
           s == ConcentrationScale
<1>2. n * n \in Nat
  BY <1>1
<1>3. p \in Nat /\ d2 < p /\ d \in Nat /\ d2 \in Nat
  BY <1>1, <1>2 DEF CapOverflowPenalty
<1>4. s \in Nat /\ t2 < s /\ t \in Nat /\ t2 \in Nat
  BY <1>1 DEF ConcentrationScale
<1> HIDE DEF n, p, s
<1>5. o * p \in Nat /\ o2 * p \in Nat
  BY <1>3
<1> DEFINE a == o * p + d
           b == o2 * p + d2
<1>6. a \in Nat /\ b \in Nat
  BY <1>3, <1>5
<1>7. a * s + t <= b * s + t2
  BY DEF Weight, p, s
<1> HIDE DEF a, b
<1>8. a * s \in Nat /\ b * s \in Nat
  BY <1>4, <1>6
<1>9. ~ (a > b)
  <2> SUFFICES ASSUME a > b PROVE FALSE
    OBVIOUS
  <2>1. a * s + t > b * s + t2
    BY <1>4, <1>6, HighDigit
  <2> QED
    BY <1>4, <1>7, <1>8, <2>1
<1>10. ~ (o > o2)
  <2> SUFFICES ASSUME o > o2 PROVE FALSE
    OBVIOUS
  <2>1. o * p + d > o2 * p + d2
    BY <1>3, HighDigit
  <2> QED
    BY <1>6, <1>9, <2>1 DEF a, b
<1>11. o = o2 => d <= d2
  BY <1>3, <1>5, <1>6, <1>9 DEF a, b
<1>12. (o = o2 /\ d = d2) => t <= t2
  BY <1>4, <1>7, <1>8 DEF a, b
<1> QED
  BY <1>3, <1>4, <1>10, <1>11, <1>12

-----------------------------------------------------------------------------
\* Ranked sorts: it lists every element once, in the order of Before.
LEMMA RankedSorts ==
  ASSUME NEW S, IsFiniteSet(S), \A c \in S : c.id \in Nat /\ c.pattern \in Nat,
         \A c, d \in S : c.id = d.id => c = d
  PROVE  /\ Ranked(S) \in Seq(S)
         /\ Len(Ranked(S)) = Cardinality(S)
         /\ \A c \in S : \E i \in 1 .. Len(Ranked(S)) : Ranked(S)[i] = c
         /\ \A i, j \in 1 .. Len(Ranked(S)) : i < j => Before(Ranked(S)[i], Ranked(S)[j])
<1> DEFINE Below(c) == {d \in S : Before(d, c)}
           rank == [c \in S |-> Cardinality(Below(c))]
<1>1. PICK n \in Nat : n = Cardinality(S)
  BY FS_CardinalityType
<1>2. ASSUME NEW c \in S
      PROVE  IsFiniteSet(Below(c)) /\ rank[c] \in Nat /\ rank[c] <= n - 1
  <2>1. Below(c) \in SUBSET (S \ {c})
    BY DEF Before
  <2>2. IsFiniteSet(S \ {c}) /\ Cardinality(S \ {c}) = n - 1
    BY <1>1, FS_RemoveElement
  <2> HIDE DEF Below
  <2>3. IsFiniteSet(Below(c)) /\ Cardinality(Below(c)) <= n - 1
    BY <2>1, <2>2, FS_Subset
  <2>4. Cardinality(Below(c)) \in Nat
    BY <2>3, FS_CardinalityType
  <2> QED
    BY <2>3, <2>4
<1>3. ASSUME NEW c \in S, NEW d \in S, Before(c, d) PROVE rank[c] < rank[d]
  <2>1. Below(c) \cup {c} \in SUBSET Below(d) /\ c \notin Below(c)
    BY <1>3 DEF Before
  <2> HIDE DEF Below
  <2>2. IsFiniteSet(Below(c)) /\ IsFiniteSet(Below(d))
    BY <1>2
  <2>3. Cardinality(Below(c) \cup {c}) = Cardinality(Below(c)) + 1
    BY <2>1, <2>2, FS_AddElement
  <2>4. Cardinality(Below(c) \cup {c}) <= Cardinality(Below(d))
    BY <2>1, <2>2, FS_Subset
  <2>5. PICK a \in Nat, b \in Nat : a = rank[c] /\ b = rank[d]
    BY <1>2
  <2>6. a + 1 <= b
    BY <2>3, <2>4, <2>5
  <2> QED
    BY <2>5, <2>6
<1>4. \A c, d \in S : c = d \/ Before(c, d) \/ Before(d, c)
  BY DEF Before
<1>5. PICK r : /\ r = rank
               /\ r \in [S -> 0 .. n - 1]
               /\ \A c, d \in S : Before(c, d) => r[c] < r[d]
  <2>1. ASSUME NEW c \in S PROVE rank[c] \in 0 .. n - 1
    <3>1. PICK k \in Nat : k = rank[c] /\ k <= n - 1
      BY <1>2
    <3> QED
      BY <3>1
  <2> QED
    BY <1>3, <2>1
<1>6. \A c, d \in S : r[c] = r[d] => c = d
  <2>1. \A c \in S : r[c] \in Int
    BY <1>1, <1>5
  <2>2. \A c, d \in S : r[c] = r[d] => ~ (r[c] < r[d]) /\ ~ (r[d] < r[c])
    BY <2>1
  <2> QED
    BY <1>4, <1>5, <2>2
<1>7. \A k \in 0 .. n - 1 : \E c \in S : r[c] = k
  <2>1. 0 \in Int /\ n - 1 \in Int
    BY <1>1
  <2>2. IsFiniteSet(0 .. n - 1)
        /\ Cardinality(0 .. n - 1) = IF 0 > n - 1 THEN 0 ELSE n - 1 - 0 + 1
    BY ONLY <2>1, FS_Interval
  <2>3. Cardinality(0 .. n - 1) = n
    BY <1>1, <2>2
  <2>4. r \in Injection(S, 0 .. n - 1)
    BY <1>5, <1>6 DEF Injection, IsInjective
  <2>5. r \in Surjection(S, 0 .. n - 1)
    BY <1>1, <2>2, <2>3, <2>4, FS_Injection
  <2> QED
    BY <2>5 DEF Surjection
<1>8. PICK s : /\ s = Ranked(S)
               /\ s = [i \in 1 .. n |-> CHOOSE c \in S : r[c] = i - 1]
  <2>1. Ranked(S) = [i \in 1 .. n |-> CHOOSE c \in S : Cardinality(Below(c)) = i - 1]
    BY <1>1 DEF Ranked
  <2>2. \A i : (CHOOSE c \in S : Cardinality(Below(c)) = i - 1)
                 = CHOOSE c \in S : r[c] = i - 1
    BY <1>5
  <2> QED
    BY <2>1, <2>2
<1>9. \A i \in 1 .. n : s[i] \in S /\ r[s[i]] = i - 1
  <2> SUFFICES ASSUME NEW i \in 1 .. n PROVE s[i] \in S /\ r[s[i]] = i - 1
    OBVIOUS
  <2>1. i - 1 \in 0 .. n - 1
    BY <1>1
  <2>2. \E c \in S : r[c] = i - 1
    BY <1>7, <2>1
  <2> QED
    BY <1>8, <2>2
<1>10. s \in Seq(S) /\ Len(s) = n
  BY <1>1, <1>8, <1>9
<1>11. \A c \in S : \E i \in 1 .. n : s[i] = c
  <2> SUFFICES ASSUME NEW c \in S PROVE \E i \in 1 .. n : s[i] = c
    OBVIOUS
  <2>1. r[c] + 1 \in 1 .. n /\ (r[c] + 1) - 1 = r[c]
    BY <1>1, <1>5
  <2> QED
    BY <1>6, <1>9, <2>1
<1>12. \A i, j \in 1 .. n : i < j => Before(s[i], s[j])
  <2> SUFFICES ASSUME NEW i \in 1 .. n, NEW j \in 1 .. n, i < j PROVE Before(s[i], s[j])
    OBVIOUS
  <2>1. PICK c \in S, d \in S : c = s[i] /\ d = s[j]
    BY <1>9
  <2>2. r[c] < r[d]
    BY <1>1, <1>9, <2>1
  <2>3. r[c] \in Int /\ r[d] \in Int
    BY <1>1, <1>5
  <2>5. c # d /\ ~ (r[d] < r[c])
    BY <2>2, <2>3
  <2>6. ~ Before(d, c)
    BY <1>5, <2>5
  <2> QED
    BY <1>4, <2>1, <2>5, <2>6
<1> QED
  BY <1>1, <1>8, <1>10, <1>11, <1>12

\* Of a set of numbers, those with fewer than k below them are the first k, or all
\* of them when there are no more than k.
LEMMA FirstOnes ==
  ASSUME NEW S \in SUBSET Nat, IsFiniteSet(S), NEW k \in Nat \ {0},
         NEW T, T = {e \in S : Cardinality({d \in S : d < e}) < k}
  PROVE  /\ Cardinality(T) = Min({k, Cardinality(S)})
         /\ \A d \in T, e \in S \ T : d < e
<1> DEFINE Below(e) == {d \in S : d < e}
           rank == [e \in S |-> Cardinality(Below(e))]
<1>1. PICK n \in Nat : n = Cardinality(S)
  BY FS_CardinalityType
<1>2. ASSUME NEW e \in S
      PROVE  IsFiniteSet(Below(e)) /\ rank[e] \in Nat /\ rank[e] <= n - 1
  <2>1. Below(e) \in SUBSET (S \ {e})
    OBVIOUS
  <2>2. IsFiniteSet(S \ {e}) /\ Cardinality(S \ {e}) = n - 1
    BY <1>1, FS_RemoveElement
  <2> HIDE DEF Below
  <2>3. IsFiniteSet(Below(e)) /\ Cardinality(Below(e)) <= n - 1
    BY <2>1, <2>2, FS_Subset
  <2>4. Cardinality(Below(e)) \in Nat
    BY <2>3, FS_CardinalityType
  <2> QED
    BY <2>3, <2>4
<1>3. ASSUME NEW d \in S, NEW e \in S, d < e PROVE rank[d] < rank[e]
  <2>1. Below(d) \cup {d} \in SUBSET Below(e) /\ d \notin Below(d)
    <3>1. \A c \in S : c \in Nat
      OBVIOUS
    <3>2. \A c \in S : c < d => c < e
      BY <1>3, <3>1
    <3>3. ~ (d < d)
      BY <3>1
    <3> QED
      BY <1>3, <3>2, <3>3
  <2> HIDE DEF Below
  <2>2. IsFiniteSet(Below(d)) /\ IsFiniteSet(Below(e))
    BY <1>2
  <2>3. Cardinality(Below(d) \cup {d}) = Cardinality(Below(d)) + 1
    BY <2>1, <2>2, FS_AddElement
  <2>4. Cardinality(Below(d) \cup {d}) <= Cardinality(Below(e))
    BY <2>1, <2>2, FS_Subset
  <2>5. PICK a \in Nat, b \in Nat : a = rank[d] /\ b = rank[e]
    BY <1>2
  <2>6. a + 1 <= b
    BY <2>3, <2>4, <2>5
  <2> QED
    BY <2>5, <2>6
<1>4. PICK r : /\ r \in [S -> 0 .. n - 1]
               /\ \A d, e \in S : d < e => r[d] < r[e]
               /\ T = {e \in S : r[e] < k}
  <2>1. ASSUME NEW e \in S PROVE rank[e] \in 0 .. n - 1
    <3>1. PICK i \in Nat : i = rank[e] /\ i <= n - 1
      BY <1>2
    <3> QED
      BY <3>1
  <2>2. rank \in [S -> 0 .. n - 1]
    BY <2>1
  <2>3. T = {e \in S : rank[e] < k}
    OBVIOUS
  <2> HIDE DEF rank
  <2> QED
    BY <1>3, <2>2, <2>3
<1> HIDE DEF rank, Below
<1>5. \A e \in S : r[e] \in Int /\ 0 <= r[e] /\ r[e] <= n - 1
  BY <1>1, <1>4
<1>6. \A d, e \in S : r[d] = r[e] => d = e
  <2>1. \A d, e \in S : r[d] = r[e] => ~ (r[d] < r[e]) /\ ~ (r[e] < r[d])
    BY <1>5
  <2>2. \A d, e \in S : d = e \/ d < e \/ e < d
    OBVIOUS
  <2> QED
    BY <1>4, <2>1, <2>2
<1>7. \A i \in 0 .. n - 1 : \E e \in S : r[e] = i
  <2>1. 0 \in Int /\ n - 1 \in Int
    BY <1>1
  <2>2. IsFiniteSet(0 .. n - 1)
        /\ Cardinality(0 .. n - 1) = IF 0 > n - 1 THEN 0 ELSE n - 1 - 0 + 1
    BY ONLY <2>1, FS_Interval
  <2>3. Cardinality(0 .. n - 1) = n
    BY <1>1, <2>2
  <2>4. r \in Injection(S, 0 .. n - 1)
    BY <1>4, <1>6 DEF Injection, IsInjective
  <2>5. r \in Surjection(S, 0 .. n - 1)
    BY <1>1, <2>2, <2>3, <2>4, FS_Injection
  <2> QED
    BY <2>5 DEF Surjection
<1>8. PICK m \in Nat : m = Min({k, n}) /\ m <= k /\ m <= n /\ (m = k \/ m = n)
  <2>1. \A x \in {k, n} : (\A y \in {k, n} : x <= y) <=> x = (IF n < k THEN n ELSE k)
    BY <1>1
  <2>2. Min({k, n}) = IF n < k THEN n ELSE k
    BY <2>1 DEF Min
  <2> QED
    BY <1>1, <2>2
<1>9. PICK g : g = [e \in T |-> r[e]]
  OBVIOUS
<1>10. \A e \in T : r[e] \in 0 .. m - 1
  <2> SUFFICES ASSUME NEW e \in S, r[e] < k PROVE r[e] \in 0 .. m - 1
    BY <1>4
  <2> QED
    BY <1>1, <1>5, <1>8
<1>11. \A i \in 0 .. m - 1 : \E e \in T : r[e] = i
  <2> SUFFICES ASSUME NEW i \in 0 .. m - 1 PROVE \E e \in T : r[e] = i
    OBVIOUS
  <2>1. i \in 0 .. n - 1 /\ i < k
    BY <1>1, <1>8
  <2> QED
    BY <1>4, <1>7, <2>1
<1>12. Cardinality(T) = m
  <2>1. 0 \in Int /\ m - 1 \in Int
    BY <1>8
  <2>2. IsFiniteSet(0 .. m - 1)
        /\ Cardinality(0 .. m - 1) = IF 0 > m - 1 THEN 0 ELSE m - 1 - 0 + 1
    BY ONLY <2>1, FS_Interval
  <2>3. Cardinality(0 .. m - 1) = m
    BY <1>8, <2>2
  <2>4. T \subseteq S
    BY <1>4
  <2>5. g \in Injection(T, 0 .. m - 1)
    <3>1. g \in [T -> 0 .. m - 1]
      BY <1>9, <1>10
    <3>2. \A d, e \in T : g[d] = g[e] => d = e
      BY <1>6, <1>9, <2>4
    <3> QED
      BY <3>1, <3>2 DEF Injection, IsInjective
  <2>6. g \in Surjection(T, 0 .. m - 1)
    BY <1>9, <1>11, <2>5 DEF Injection, Surjection
  <2> QED
    BY <2>2, <2>3, <2>5, <2>6, FS_Injection
<1>13. ASSUME NEW d \in T, NEW e \in S \ T PROVE d < e
  <2>1. d \in S /\ d \in Nat /\ e \in Nat /\ r[d] < k /\ ~ (r[e] < k)
    BY <1>4, <1>13
  <2>2. ~ (r[e] < r[d]) /\ r[d] # r[e]
    BY <1>5, <2>1
  <2>3. ~ (e < d) /\ d # e
    BY <1>4, <2>1, <2>2
  <2> QED
    BY <2>1, <2>3
<1> QED
  BY <1>1, <1>8, <1>12, <1>13

\* The queue of an ingress holds candidates of that ingress, at most as many as
\* a queue may hold, and is empty only when there is none.
LEMMA QueueFacts ==
  ASSUME qualified \in Corpora, NEW e \in Ingresses
  PROVE  /\ Queue(e) \in Seq(qualified)
         /\ Len(Queue(e)) <= MaxFallbackChoices
         /\ \A i \in 1 .. Len(Queue(e)) : Queue(e)[i].ingress = e
         /\ Queue(e) = << >> => \A c \in qualified : c.ingress # e
<1>1. PICK S : S = {c \in qualified : c.ingress = e}
  OBVIOUS
<1>2. /\ S \in SUBSET qualified /\ IsFiniteSet(qualified)
      /\ \A c \in S : c.id \in Nat /\ c.pattern \in Nat
      /\ \A c, d \in S : c.id = d.id => c = d
  <2>1. \A c \in qualified : IsCandidate(c)
    BY CorporaAssumption
  <2>2. \A c, d \in qualified : c.id = d.id => c = d
    BY CorporaAssumption
  <2>3. IsFiniteSet(qualified)
    BY CorporaAssumption
  <2> QED
    BY <1>1, <2>1, <2>2, <2>3, Largest DEF IsCandidate
<1>3. IsFiniteSet(S)
  BY <1>2, FS_Subset
<1>4. PICK s : s = Ranked(S)
  OBVIOUS
<1>5. /\ s \in Seq(S) /\ \A c \in S : \E i \in 1 .. Len(s) : s[i] = c
  BY <1>2, <1>3, <1>4, RankedSorts
<1>6. PICK n \in Nat : n = Len(s)
  BY <1>5
<1>7. PICK m \in Nat : m = Min({MaxFallbackChoices, n}) /\ m <= 3 /\ m <= n /\ (m = 0 => n = 0)
  <2>1. \A x \in {3, n} : (\A y \in {3, n} : x <= y) <=> x = (IF n < 3 THEN n ELSE 3)
    BY <1>6
  <2>2. Min({3, n}) = IF n < 3 THEN n ELSE 3
    BY <2>1 DEF Min
  <2> QED
    BY <1>6, <2>2 DEF MaxFallbackChoices
<1>8. Queue(e) = SubSeq(s, 1, m)
  BY <1>1, <1>4, <1>6, <1>7 DEF Queue
<1>9. PICK q \in Seq(S) : q = SubSeq(s, 1, m) /\ Len(q) = m
  <2>1. \A i \in 1 .. m : s[i] \in S
    BY <1>5, <1>6, <1>7
  <2>2. SubSeq(s, 1, m) \in Seq(S) /\ Len(SubSeq(s, 1, m)) = IF 1 <= m THEN m - 1 + 1 ELSE 0
    BY <2>1, SubSeqProperties
  <2>3. PICK k : k = Len(SubSeq(s, 1, m))
    OBVIOUS
  <2>4. k = IF 1 <= m THEN m - 1 + 1 ELSE 0
    BY <2>2, <2>3
  <2>5. m \in Nat
    BY <1>7
  <2>6. k = m
    BY ONLY <2>4, <2>5
  <2> QED
    BY <2>2, <2>3, <2>6
<1>10. q \in Seq(qualified)
  BY <1>2
<1>11. \A i \in 1 .. Len(q) : q[i] \in S
  OBVIOUS
<1>12. q = << >> => S = {}
  <2> SUFFICES ASSUME q = << >>, NEW c \in S PROVE FALSE
    OBVIOUS
  <2>1. n = 0
    BY <1>7, <1>9
  <2>2. PICK i \in 1 .. Len(s) : s[i] = c
    BY <1>5
  <2> QED
    BY <1>6, <2>1, <2>2
<1> QED
  BY <1>1, <1>7, <1>8, <1>9, <1>10, <1>11, <1>12 DEF MaxFallbackChoices

\* A queue holds no more candidates than positions.
LEMMA AtMostItsLength ==
  ASSUME NEW T, NEW s \in Seq(T)
  PROVE  IsFiniteSet(ToSet(s)) /\ Cardinality(ToSet(s)) <= Len(s)
<1>1. PICK n \in Nat : n = Len(s)
  OBVIOUS
<1>2. s \in [1 .. n -> ToSet(s)] /\ ToSet(s) = {s[i] : i \in 1 .. n}
  BY <1>1 DEF ToSet
<1>3. s \in Surjection(1 .. n, ToSet(s))
  BY <1>2 DEF Surjection
<1>4. 1 \in Int /\ n \in Int
  BY <1>1
<1>5. IsFiniteSet(1 .. n) /\ Cardinality(1 .. n) = IF 1 > n THEN 0 ELSE n - 1 + 1
  BY ONLY <1>4, FS_Interval
<1>6. Cardinality(1 .. n) = n
  BY <1>1, <1>5
<1> QED
  BY <1>1, <1>3, <1>5, <1>6, FS_Surjection

\* The best candidate of a pattern among some choices is one of them.
LEMMA BestIsChosen ==
  ASSUME NEW choices, \A c \in choices : c.id \in Nat,
         NEW p \in {c.pattern : c \in choices}
  PROVE  Best(choices, p) \in choices /\ Best(choices, p).pattern = p
<1> DEFINE S == {c \in choices : c.pattern = p}
<1>1. S # {} /\ \A c \in S : c.id \in Nat
  OBVIOUS
<1> HIDE DEF S
<1>2. \E c \in S : \A d \in S : c.id <= d.id
  BY <1>1, LeastLeft
<1>3. \E c \in choices : c.pattern = p /\ \A d \in choices : d.pattern = p => c.id <= d.id
  BY <1>2 DEF S
<1> QED
  BY <1>3 DEF Best

\* Among at most three choices no tie-break cost exceeds 2.
LEMMA EdgesFacts ==
  ASSUME NEW choices, IsFiniteSet(choices), Cardinality(choices) <= MaxFallbackChoices,
         \A c \in choices : c.id \in Nat
  PROVE  /\ DOMAIN EdgesOf(choices) = {c.pattern : c \in choices}
         /\ \A p \in DOMAIN EdgesOf(choices) : EdgesOf(choices)[p] \in 0 .. 2
<1>1. PICK P : P = {c.pattern : c \in choices}
  OBVIOUS
<1>2. PICK bestId : bestId = [p \in P |-> Best(choices, p).id]
  OBVIOUS
<1>3. bestId \in [P -> Nat]
  <2>1. \A p \in P : Best(choices, p).id \in Nat
    BY <1>1, BestIsChosen
  <2> QED
    BY <1>2, <2>1
<1>4. EdgesOf(choices) = [p \in P |-> Cardinality({q \in P : bestId[q] < bestId[p]})]
  BY <1>1, <1>2 DEF EdgesOf
<1>5. IsFiniteSet(P) /\ Cardinality(P) \in Nat /\ Cardinality(P) <= 3
  <2> DEFINE f == [c \in choices |-> c.pattern]
  <2>1. f \in Surjection(choices, P)
    BY <1>1 DEF Surjection
  <2> HIDE DEF f
  <2>2. IsFiniteSet(P) /\ Cardinality(P) <= Cardinality(choices)
    BY <2>1, FS_Surjection
  <2>3. Cardinality(P) \in Nat /\ Cardinality(choices) \in Nat
    BY <2>2, FS_CardinalityType
  <2>4. PICK a \in Nat, b \in Nat : a = Cardinality(P) /\ b = Cardinality(choices)
    BY <2>3
  <2>5. a <= 3
    BY <2>2, <2>4 DEF MaxFallbackChoices
  <2> QED
    BY <2>2, <2>4, <2>5
<1>6. ASSUME NEW p \in P
      PROVE  Cardinality({q \in P : bestId[q] < bestId[p]}) \in 0 .. 2
  <2>1. {q \in P : bestId[q] < bestId[p]} \in SUBSET (P \ {p})
    BY <1>3
  <2> DEFINE below == {q \in P : bestId[q] < bestId[p]}
  <2> HIDE DEF below
  <2>2. IsFiniteSet(P \ {p}) /\ Cardinality(P \ {p}) = Cardinality(P) - 1
    BY <1>5, FS_RemoveElement
  <2>3. IsFiniteSet(below) /\ Cardinality(below) <= Cardinality(P \ {p})
    BY <2>1, <2>2, FS_Subset DEF below
  <2>4. PICK a \in Nat, b \in Nat : a = Cardinality(below) /\ b = Cardinality(P)
    BY <1>5, <2>3, FS_CardinalityType
  <2>5. a <= b - 1 /\ b <= 3
    BY <1>5, <2>2, <2>3, <2>4
  <2> QED
    BY <2>4, <2>5 DEF below
<1> QED
  BY <1>1, <1>4, <1>6

-----------------------------------------------------------------------------
\* What the queues, the edges, the flow and the selection hold, in addition to
\* CapInv: the strengthening of TypeOK and PlanIsUsable.
QueuesBuilt ==
  \A e \in Ingresses :
    /\ queues[e] \in Seq(qualified) /\ Len(queues[e]) <= MaxFallbackChoices
    /\ \A c \in QueueSet(e) : c.ingress = e
    /\ phase # "queues" /\ queues[e] = << >> => \A c \in qualified : c.ingress # e

EdgesBuilt ==
  \A e \in Ingresses :
    /\ Edges(e) = {c.pattern : c \in QueueSet(e)}
    /\ \A p \in Edges(e) : ranks[e][p] \in 0 .. 2

FlowOnEdges == \A e \in Ingresses : assigned[e] \in Edges(e) \cup {None}

PlanInv ==
  /\ QueuesBuilt /\ EdgesBuilt /\ FlowOnEdges
  /\ phase = "queues" => \A e \in Ingresses : assigned[e] = None
  /\ phase = "rounds" => mode = "exhaustive"
  /\ phase = "planned" /\ mode = "coverage" =>
       \A e \in Ingresses : queues[e] # << >> => assigned[e] # None
  /\ cap = NoCap /\ pattern > LastPattern => selected = qualified
  /\ IF phase = "planned" THEN plan \in Plans(qualified) ELSE plan = None
  /\ PlanIsUsable

\* The candidates a target of coverage mode may attempt: its primary, if the flow
\* gave it one, and the rest of its queue.
LEMMA CoverageChoices ==
  ASSUME CapInv, QueuesBuilt, EdgesBuilt, FlowOnEdges, NEW e \in Ingresses
  PROVE  /\ QueueSet(e) \subseteq qualified
         /\ Primary(e) \in QueueSet(e) \cup {None}
         /\ Primary(e) = None <=> assigned[e] = None
         /\ assigned[e] # None => Primary(e).pattern = assigned[e]
         /\ Fallback(e) \in Seq(qualified)
         /\ ToSet(Fallback(e)) = QueueSet(e) \ Primaries
         /\ QueueSet(e) \cap Primaries = {Primary(e)} \ {None}
<1>1. ASSUME NEW d \in Ingresses
      PROVE  /\ QueueSet(d) \subseteq qualified
             /\ \A c \in QueueSet(d) : c.ingress = d
             /\ Primary(d) \in QueueSet(d) \cup {None}
             /\ Primary(d) = None <=> assigned[d] = None
             /\ assigned[d] # None => Primary(d).pattern = assigned[d]
  <2>1. QueueSet(d) \subseteq qualified /\ \A c \in QueueSet(d) : c.ingress = d
    BY DEF QueuesBuilt, QueueSet, ToSet
  <2>2. \A c \in QueueSet(d) : c.id \in Nat /\ c # None
    BY <2>1, CorpusFacts, NoneAssumption DEF CapInv
  <2>3. CASE assigned[d] = None
    BY <2>1, <2>3 DEF Primary
  <2>4. CASE assigned[d] # None
    <3>1. assigned[d] \in {c.pattern : c \in QueueSet(d)}
      BY <2>4 DEF FlowOnEdges, EdgesBuilt
    <3>2. /\ Best(QueueSet(d), assigned[d]) \in QueueSet(d)
          /\ Best(QueueSet(d), assigned[d]).pattern = assigned[d]
      BY <2>2, <3>1, BestIsChosen
    <3> QED
      BY <2>1, <2>2, <2>4, <3>2 DEF Primary
  <2> QED
    BY <2>3, <2>4, <2>1
<1>2. QueueSet(e) \cap Primaries = {Primary(e)} \ {None}
  <2>1. ASSUME NEW d \in Ingresses, Primary(d) \in QueueSet(e), Primary(d) # None
        PROVE  d = e
    BY <1>1, <2>1
  <2> QED
    BY <1>1, <2>1 DEF Primaries
<1>3. Fallback(e) \in Seq(qualified) /\ ToSet(Fallback(e)) = QueueSet(e) \ Primaries
  <2>1. PICK s \in Seq(qualified) : s = queues[e]
    BY DEF QueuesBuilt
  <2>2. PICK f : f = Fallback(e)
    OBVIOUS
  <2>3. /\ f \in Seq(qualified)
        /\ \A x : (\E i \in DOMAIN f : f[i] = x) <=>
                    (x \notin Primaries /\ \E i \in DOMAIN s : s[i] = x)
    BY <2>1, <2>2, WithoutElements DEF Fallback
  <2>4. ToSet(f) = ToSet(s) \ Primaries
    BY <2>3 DEF ToSet
  <2> QED
    BY <2>1, <2>2, <2>3, <2>4 DEF QueueSet
<1> QED
  BY <1>1, <1>2, <1>3

\* The flow ends only when every target with a candidate has one assigned: an edge
\* of a target without flow is an augmenting path.
LEMMA NoPathLeft ==
  ASSUME CapInv, PlanInv, Paths = {}, phase = "flow",
         NEW e \in Ingresses, assigned[e] = None
  PROVE  queues[e] = << >> /\ \A c \in qualified : c.ingress # e
<1>1. QueueSet(e) = {}
  <2> SUFFICES ASSUME NEW c \in QueueSet(e) PROVE FALSE
    OBVIOUS
  <2>1. c.pattern \in Edges(e)
    BY DEF PlanInv, EdgesBuilt
  <2>2. c.pattern \in Patterns
    BY CorpusFacts, CoverageChoices DEF PlanInv
  <2> DEFINE path == Path(<<e>>, c.pattern)
  <2>3. path.targets = <<e>> /\ path.patterns = [i \in {1} |-> c.pattern]
    BY DEF Path
  <2>4. IsPath(path)
    BY <2>1, <2>3 DEF IsPath, IsInjective
  <2>5. <<e>> \in Routes
    <3>1. Cardinality(Ingresses) \in Nat /\ Cardinality(Ingresses) # 0
      BY IngressesAssumption, FS_CardinalityType, FS_EmptySet
    <3>2. 1 \in 1 .. Cardinality(Ingresses)
      BY <3>1
    <3>3. <<e>> \in [1 .. 1 -> Ingresses]
      OBVIOUS
    <3> QED
      BY <3>2, <3>3 DEF Routes
  <2>6. path \in Paths
    BY <2>2, <2>4, <2>5 DEF Paths
  <2> QED
    BY <2>6
<1>2. queues[e] = << >>
  <2>1. PICK s \in Seq(qualified) : s = queues[e]
    BY DEF PlanInv, QueuesBuilt
  <2>2. \A i \in DOMAIN s : s[i] \in QueueSet(e)
    BY <2>1 DEF QueueSet, ToSet
  <2>3. s # << >> => 1 \in DOMAIN s
    OBVIOUS
  <2> QED
    BY <1>1, <2>1, <2>2, <2>3
<1> QED
  BY <1>2 DEF PlanInv, QueuesBuilt

\* The flow's targets within the cap of their pattern are the first ones.
LEMMA FirstAssignees ==
  ASSUME CapInv, cap # NoCap, NEW p \in Patterns, NEW within,
         within = Assignees(p) \ Overflowing
  PROVE  /\ Cardinality(within) = Min({cap, Cardinality(Assignees(p))})
         /\ \A d \in within, e \in Assignees(p) \ within : d < e
<1>1. PICK S : S = Assignees(p)
  OBVIOUS
<1>2. S \in SUBSET Nat /\ IsFiniteSet(S)
  <2>1. S \in SUBSET Ingresses
    BY <1>1 DEF Assignees
  <2>2. IsFiniteSet(S)
    BY <2>1, IngressesAssumption, FS_Subset
  <2> QED
    BY <2>1, <2>2, Largest
<1>3. PICK k \in Nat \ {0} : k = cap
  BY CapsAssumption DEF CapInv
<1>4. p # None
  BY NoneAssumption
<1>5. \A e \in S : e \in Ingresses /\ assigned[e] = p
  BY <1>1 DEF Assignees
<1>6. \A e \in S : e \in Overflowing <=> Cardinality({d \in S : d < e}) >= k
  BY <1>1, <1>3, <1>4, <1>5 DEF Overflowing
<1>7. \A e \in S : Cardinality({d \in S : d < e}) \in Nat
  <2> SUFFICES ASSUME NEW e \in S PROVE Cardinality({d \in S : d < e}) \in Nat
    OBVIOUS
  <2>1. {d \in S : d < e} \in SUBSET S
    OBVIOUS
  <2>2. IsFiniteSet({d \in S : d < e})
    BY <1>2, <2>1, FS_Subset
  <2> QED
    BY <2>2, FS_CardinalityType
<1>8. within = {e \in S : Cardinality({d \in S : d < e}) < k}
  <2>1. \A e \in S : e \notin Overflowing <=> Cardinality({d \in S : d < e}) < k
    BY <1>3, <1>6, <1>7
  <2> QED
    BY <1>1, <2>1
<1>9. Cardinality(within) = Min({k, Cardinality(S)}) /\ \A d \in within, e \in S \ within : d < e
  BY <1>2, <1>8, FirstOnes
<1> QED
  BY <1>1, <1>3, <1>9

\* The plan of coverage mode is usable.
LEMMA CoveragePlanUsable ==
  ASSUME CapInv, PlanInv, PlanCoverage
  PROVE  plan' \in Plans(qualified) /\ PlanIsUsable'
<1> DEFINE entry(e) == Entry(IngressTarget(e), e, queues[e], Primary(e), Fallback(e))
<1>1. /\ plan' = [entries |-> {entry(e) : e \in Ingresses}, limited |-> Overflowing,
                  uncovered |-> {e \in Ingresses : assigned[e] = None}]
      /\ UNCHANGED <<mode, cap, qualified>> /\ mode = "coverage" /\ Paths = {}
  BY DEF PlanCoverage, CapInv, input, network
<1>2. ASSUME NEW e \in Ingresses
      PROVE  /\ entry(e).target = IngressTarget(e) /\ entry(e).ingress = e
             /\ entry(e).choices = queues[e] /\ entry(e).primary = Primary(e)
             /\ entry(e).fallback = Fallback(e)
             /\ Offered(entry(e)) = QueueSet(e)
             /\ Primary(e) \notin ToSet(Fallback(e))
             /\ Primary(e) = None <=> assigned[e] = None
             /\ assigned[e] # None => Primary(e).pattern = assigned[e]
             /\ \A c \in QueueSet(e) : c.ingress = e
  <2>1. /\ entry(e).target = IngressTarget(e) /\ entry(e).ingress = e
        /\ entry(e).choices = queues[e] /\ entry(e).primary = Primary(e)
        /\ entry(e).fallback = Fallback(e)
    BY DEF Entry
  <2> HIDE DEF entry
  <2>2. /\ QueueSet(e) \subseteq qualified
        /\ Primary(e) \in QueueSet(e) \cup {None}
        /\ Primary(e) = None <=> assigned[e] = None
        /\ assigned[e] # None => Primary(e).pattern = assigned[e]
        /\ ToSet(Fallback(e)) = QueueSet(e) \ Primaries
        /\ QueueSet(e) \cap Primaries = {Primary(e)} \ {None}
    BY CoverageChoices DEF PlanInv
  <2>3. None \notin qualified
    BY NoneAssumption DEF CapInv
  <2>4. \A c \in QueueSet(e) : c.ingress = e
    BY DEF PlanInv, QueuesBuilt
  <2> QED
    BY <2>1, <2>2, <2>3, <2>4 DEF Offered
<1>3. ASSUME NEW e \in Ingresses, assigned[e] = None
      PROVE  queues[e] = << >> /\ \A c \in qualified : c.ingress # e
  BY <1>1, <1>3, NoPathLeft DEF PlanCoverage
<1>4. \A e \in Overflowing : e \in Ingresses /\ cap # NoCap /\ assigned[e] # None
  BY DEF Overflowing
<1>5. \A d, e \in Ingresses : IngressTarget(d) = IngressTarget(e) => d = e
  BY DEF IngressTarget
<1>6. plan' \in Plans(qualified)
  <2>1. ASSUME NEW e \in Ingresses
        PROVE  entry(e) \in [target : {"ingress", "candidate"} \X Nat, ingress : Ingresses,
                             choices : Seq(qualified), primary : qualified \cup {None},
                             fallback : Seq(qualified)]
    <3>1. IngressTarget(e) \in {"ingress", "candidate"} \X Nat
      BY Largest DEF IngressTarget
    <3>2. queues[e] \in Seq(qualified)
      BY DEF PlanInv, QueuesBuilt
    <3>3. Primary(e) \in qualified \cup {None} /\ Fallback(e) \in Seq(qualified)
      BY CoverageChoices DEF PlanInv
    <3> QED
      BY <3>1, <3>2, <3>3 DEF Entry
  <2> HIDE DEF entry
  <2> QED
    BY <1>1, <1>4, <2>1 DEF Plans
<1>7. PICK P : /\ P = plan' /\ P.limited = Overflowing
               /\ P.entries = {entry(e) : e \in Ingresses}
               /\ P.uncovered = {e \in Ingresses : assigned[e] = None}
  BY <1>1
<1> HIDE DEF entry
<1>8. \A x \in P.entries :
        /\ \A c \in Offered(x) : c.ingress = x.ingress
        /\ x.primary \notin ToSet(x.fallback)
        /\ Offered(x) = ToSet(x.choices)
        /\ Len(x.choices) <= MaxFallbackChoices
        /\ x.primary = None <=> x.ingress \in P.uncovered
  <2> SUFFICES ASSUME NEW e \in Ingresses
               PROVE  /\ \A c \in Offered(entry(e)) : c.ingress = entry(e).ingress
                      /\ entry(e).primary \notin ToSet(entry(e).fallback)
                      /\ Offered(entry(e)) = ToSet(entry(e).choices)
                      /\ Len(entry(e).choices) <= MaxFallbackChoices
                      /\ entry(e).primary = None <=> entry(e).ingress \in P.uncovered
    BY <1>7
  <2>1. Len(queues[e]) <= MaxFallbackChoices
    BY DEF PlanInv, QueuesBuilt
  <2> QED
    BY <1>2, <1>7, <2>1 DEF QueueSet
<1>9. \A x, y \in P.entries :
         x.target = y.target \/ Offered(x) \cap Offered(y) # {} => x = y
  <2> SUFFICES ASSUME NEW d \in Ingresses, NEW e \in Ingresses,
                      \/ entry(d).target = entry(e).target
                      \/ Offered(entry(d)) \cap Offered(entry(e)) # {}
               PROVE  d = e
    BY <1>7
  <2> QED
    BY <1>2, <1>5
<1>10. {x.ingress : x \in P.entries} = Ingresses
  BY <1>2, <1>7
<1>11. \A p \in Patterns :
         {x.ingress : x \in {y \in P.entries : y.primary # None /\ y.primary.pattern = p}}
           = Assignees(p)
  <2> SUFFICES ASSUME NEW p \in Patterns
               PROVE  {x.ingress : x \in {y \in P.entries : /\ y.primary # None
                                                           /\ y.primary.pattern = p}}
                        = Assignees(p)
    OBVIOUS
  <2>1. p # None
    BY NoneAssumption
  <2>2. ASSUME NEW e \in Ingresses
        PROVE  /\ entry(e).ingress = e
               /\ entry(e).primary # None /\ entry(e).primary.pattern = p
                    <=> assigned[e] = p
    BY <1>2, <2>1
  <2> QED
    BY <1>7, <2>2 DEF Assignees
<1>12. ASSUME cap # NoCap, NEW p \in Patterns, NEW within,
              within = Assignees(p) \ Overflowing
       PROVE  /\ Cardinality(within) = Min({cap, Cardinality(Assignees(p))})
              /\ \A d \in within, e \in Assignees(p) \ within : d < e
  BY <1>12, FirstAssignees
<1>13. /\ \A e \in P.uncovered : e \notin P.limited /\ \A c \in qualified : c.ingress # e
       /\ cap = NoCap => P.limited = {}
  BY <1>3, <1>4, <1>7 DEF Overflowing
<1>14. plan' = P /\ UNCHANGED <<mode, cap, qualified>> /\ mode = "coverage"
  BY <1>1, <1>7
<1>15. CoverageLimits'
  <2>1. \A p \in Patterns : ServedBy(p)' = Assignees(p)
    BY <1>11, <1>14 DEF ServedBy
  <2> QED
    BY <1>7, <1>12, <1>13, <1>14, <2>1 DEF CoverageLimits
<1> QED
  BY <1>6, <1>8, <1>9, <1>10, <1>14, <1>15 DEF PlanIsUsable

\* The plan of exhaustive mode is usable.
LEMMA ExhaustivePlanUsable ==
  ASSUME CapInv, PlanInv, PlanExhaustive
  PROVE  plan' \in Plans(qualified) /\ PlanIsUsable'
<1> DEFINE served(c) == Entry(CandidateTarget(c), c.ingress, <<c>>, c, << >>)
           bare(e) == Entry(IngressTarget(e), e, << >>, None, << >>)
<1>1. /\ plan' = [entries |-> {served(c) : c \in selected} \cup {bare(e) : e \in Unserved},
                  limited |-> {e \in Unserved : queues[e] # << >>}, uncovered |-> Unserved]
      /\ UNCHANGED <<mode, cap, qualified>> /\ mode = "exhaustive"
      /\ pattern > LastPattern /\ phase # "queues"
  BY DEF PlanExhaustive, PlanInv, input, network
<1>2. /\ selected \subseteq qualified
      /\ \A c \in qualified : c.id \in Nat /\ c.ingress \in Ingresses /\ c # None
      /\ \A c, d \in qualified : c.id = d.id => c = d
  <2>1. \A c, d \in qualified : c.id = d.id => c = d
    BY CorporaAssumption DEF CapInv
  <2>2. None \notin qualified
    BY NoneAssumption DEF CapInv
  <2> QED
    BY <2>1, <2>2, CorpusFacts DEF CapInv
<1>3. \A e \in Unserved : e \in Ingresses /\ \A c \in selected : c.ingress # e
  BY DEF Unserved
<1>4. ASSUME NEW c \in selected
      PROVE  /\ served(c).target = CandidateTarget(c) /\ served(c).ingress = c.ingress
             /\ served(c).choices = <<c>> /\ served(c).primary = c
             /\ served(c).fallback = << >> /\ Offered(served(c)) = {c}
             /\ c.ingress \notin Unserved
  <2>1. /\ served(c).target = CandidateTarget(c) /\ served(c).ingress = c.ingress
        /\ served(c).choices = <<c>> /\ served(c).primary = c /\ served(c).fallback = << >>
    BY DEF Entry
  <2> HIDE DEF served
  <2>2. ToSet(<< >>) = {} /\ c # None
    BY <1>2 DEF ToSet
  <2> QED
    BY <1>3, <2>1, <2>2 DEF Offered
<1>5. ASSUME NEW e \in Unserved
      PROVE  /\ bare(e).target = IngressTarget(e) /\ bare(e).ingress = e
             /\ bare(e).choices = << >> /\ bare(e).primary = None
             /\ bare(e).fallback = << >> /\ Offered(bare(e)) = {}
  <2>1. /\ bare(e).target = IngressTarget(e) /\ bare(e).ingress = e
        /\ bare(e).choices = << >> /\ bare(e).primary = None /\ bare(e).fallback = << >>
    BY DEF Entry
  <2> HIDE DEF bare
  <2>2. ToSet(<< >>) = {}
    BY DEF ToSet
  <2> QED
    BY <2>1, <2>2 DEF Offered
<1>6. \A e \in Ingresses : queues[e] # << >> <=> \E c \in qualified : c.ingress = e
  <2> SUFFICES ASSUME NEW e \in Ingresses, queues[e] # << >>
               PROVE  \E c \in qualified : c.ingress = e
    BY <1>1 DEF PlanInv, QueuesBuilt
  <2>1. PICK s \in Seq(qualified) : s = queues[e]
    BY DEF PlanInv, QueuesBuilt
  <2>2. 1 \in DOMAIN s
    BY <2>1
  <2>3. s[1] \in qualified /\ s[1] \in QueueSet(e)
    BY <2>1, <2>2 DEF QueueSet, ToSet
  <2> QED
    BY <2>3 DEF PlanInv, QueuesBuilt
<1>7. plan' \in Plans(qualified)
  <2> DEFINE entries == [target : {"ingress", "candidate"} \X Nat, ingress : Ingresses,
                         choices : Seq(qualified), primary : qualified \cup {None},
                         fallback : Seq(qualified)]
  <2>1. ASSUME NEW c \in selected PROVE served(c) \in entries
    <3>1. CandidateTarget(c) \in {"ingress", "candidate"} \X Nat
      BY <1>2 DEF CandidateTarget
    <3>2. <<c>> \in Seq(qualified) /\ << >> \in Seq(qualified)
      BY <1>2
    <3> QED
      BY <1>2, <3>1, <3>2 DEF Entry
  <2>2. ASSUME NEW e \in Unserved PROVE bare(e) \in entries
    <3>1. IngressTarget(e) \in {"ingress", "candidate"} \X Nat
      BY <1>3, Largest DEF IngressTarget
    <3>2. << >> \in Seq(qualified)
      OBVIOUS
    <3> QED
      BY <1>3, <3>1, <3>2 DEF Entry
  <2> HIDE DEF served, bare
  <2> QED
    BY <1>1, <1>3, <2>1, <2>2 DEF Plans
<1>8. PICK P : /\ P = plan' /\ P.limited = {e \in Unserved : queues[e] # << >>}
               /\ P.entries = {served(c) : c \in selected} \cup {bare(e) : e \in Unserved}
               /\ P.uncovered = Unserved
  <2>1. plan' = [entries |-> {served(c) : c \in selected} \cup {bare(e) : e \in Unserved},
                 limited |-> {e \in Unserved : queues[e] # << >>}, uncovered |-> Unserved]
    BY <1>1
  <2> HIDE DEF served, bare
  <2> QED
    BY <2>1
<1> HIDE DEF served, bare
<1>9. \A x \in P.entries :
        /\ \A c \in Offered(x) : c.ingress = x.ingress
        /\ x.primary \notin ToSet(x.fallback)
        /\ Offered(x) = ToSet(x.choices)
        /\ Len(x.choices) <= MaxFallbackChoices
        /\ x.primary = None <=> x.ingress \in P.uncovered
  <2>1. ToSet(<< >>) = {} /\ \A c : ToSet(<<c>>) = {c}
    BY DEF ToSet
  <2>2. 0 <= MaxFallbackChoices /\ 1 <= MaxFallbackChoices
    BY DEF MaxFallbackChoices
  <2>3. ASSUME NEW c \in selected, NEW x, x = served(c)
        PROVE  /\ \A d \in Offered(x) : d.ingress = x.ingress
               /\ x.primary \notin ToSet(x.fallback)
               /\ Offered(x) = ToSet(x.choices)
               /\ Len(x.choices) <= MaxFallbackChoices
               /\ x.primary = None <=> x.ingress \in P.uncovered
    <3>1. /\ x.ingress = c.ingress /\ x.choices = <<c>> /\ x.primary = c
          /\ x.fallback = << >> /\ Offered(x) = {c} /\ c.ingress \notin Unserved
      BY <1>4, <2>3
    <3>2. Len(<<c>>) = 1
      OBVIOUS
    <3>3. Len(x.choices) <= MaxFallbackChoices
      BY <2>2, <3>1, <3>2
    <3> QED
      BY <1>2, <1>8, <2>1, <3>1, <3>3
  <2>4. ASSUME NEW e \in Unserved, NEW x, x = bare(e)
        PROVE  /\ \A d \in Offered(x) : d.ingress = x.ingress
               /\ x.primary \notin ToSet(x.fallback)
               /\ Offered(x) = ToSet(x.choices)
               /\ Len(x.choices) <= MaxFallbackChoices
               /\ x.primary = None <=> x.ingress \in P.uncovered
    <3>1. /\ x.ingress = e /\ x.choices = << >> /\ x.primary = None
          /\ x.fallback = << >> /\ Offered(x) = {}
      BY <1>5, <2>4
    <3>2. Len(<< >>) = 0
      OBVIOUS
    <3>3. Len(x.choices) <= MaxFallbackChoices
      BY <2>2, <3>1, <3>2
    <3> QED
      BY <1>8, <2>1, <3>1, <3>3
  <2> QED
    BY <1>8, <2>3, <2>4
<1>10. \A x, y \in P.entries :
         x.target = y.target \/ Offered(x) \cap Offered(y) # {} => x = y
  <2>1. /\ \A c, d \in selected : CandidateTarget(c) = CandidateTarget(d) => c = d
        /\ \A c, e : CandidateTarget(c) # IngressTarget(e)
        /\ \A d, e : IngressTarget(d) = IngressTarget(e) => d = e
    BY <1>2 DEF CandidateTarget, IngressTarget
  <2>2. ASSUME NEW c \in selected, NEW d \in selected
        PROVE  \/ served(c).target = served(d).target
               \/ Offered(served(c)) \cap Offered(served(d)) # {}
               => c = d
    BY <1>4, <2>1
  <2>3. ASSUME NEW d \in Unserved, NEW e \in Unserved
        PROVE  \/ bare(d).target = bare(e).target
               \/ Offered(bare(d)) \cap Offered(bare(e)) # {}
               => d = e
    BY <1>5, <2>1
  <2>4. ASSUME NEW c \in selected, NEW e \in Unserved
        PROVE  /\ served(c).target # bare(e).target
               /\ Offered(served(c)) \cap Offered(bare(e)) = {}
    BY <1>4, <1>5, <2>1
  <2> QED
    BY <1>8, <2>2, <2>3, <2>4
<1>11. {x.ingress : x \in P.entries} = Ingresses
  <2>1. \A e \in Ingresses \ Unserved : \E c \in selected : c.ingress = e
    BY DEF Unserved
  <2>2. \A x \in P.entries : x.ingress \in Ingresses
    BY <1>2, <1>3, <1>4, <1>5, <1>8
  <2>3. \A e \in Ingresses : \E x \in P.entries : x.ingress = e
    BY <1>4, <1>5, <1>8, <2>1
  <2> QED
    BY <2>2, <2>3
<1>12. cap = NoCap => P.limited = {}
  <2>1. cap = NoCap => selected = qualified
    BY <1>1 DEF PlanInv
  <2> QED
    BY <1>3, <1>6, <1>8, <2>1
<1>13. P.limited = {e \in P.uncovered : \E c \in qualified : c.ingress = e}
  BY <1>3, <1>6, <1>8
<1>14. plan' = P /\ UNCHANGED <<mode, cap, qualified>> /\ mode = "exhaustive"
  BY <1>1, <1>8
<1>15. ExhaustiveLimits'
  BY <1>12, <1>13, <1>14 DEF ExhaustiveLimits
<1> QED
  BY <1>7, <1>9, <1>10, <1>11, <1>14, <1>15 DEF PlanIsUsable

\* An augmenting path runs along edges.
LEMMA AugmentOnEdges ==
  ASSUME FlowOnEdges, Augment PROVE FlowOnEdges'
<1>1. PICK path \in ShortestPaths :
        assigned' = [e \in Ingresses |->
                       IF e \in ToSet(path.targets)
                       THEN path.patterns[CHOOSE i \in DOMAIN path.targets :
                                            path.targets[i] = e]
                       ELSE assigned[e]]
  BY DEF Augment
<1>2. \A i \in DOMAIN path.targets : path.patterns[i] \in Edges(path.targets[i])
  BY DEF ShortestPaths, Paths, IsPath
<1>3. ranks' = ranks
  BY DEF Augment, network
<1>4. ASSUME NEW e \in Ingresses PROVE assigned'[e] \in Edges(e) \cup {None}
  <2>1. CASE e \in ToSet(path.targets)
    <3>1. \E i \in DOMAIN path.targets : path.targets[i] = e
      BY <2>1 DEF ToSet
    <3>2. PICK i : i = CHOOSE j \in DOMAIN path.targets : path.targets[j] = e
      OBVIOUS
    <3>3. i \in DOMAIN path.targets /\ path.targets[i] = e
      BY <3>1, <3>2
    <3>4. assigned'[e] = path.patterns[i]
      BY <1>1, <2>1, <3>2
    <3> QED
      BY <1>2, <3>3, <3>4
  <2>2. CASE e \notin ToSet(path.targets)
    BY <1>1, <2>2 DEF FlowOnEdges
  <2> QED
    BY <2>1, <2>2
<1> QED
  BY <1>3, <1>4 DEF FlowOnEdges, Edges

\* The queues and edges that BuildQueues writes are well built.
LEMMA BuildQueuesBuilds ==
  ASSUME CapInv, PlanInv, BuildQueues
  PROVE  QueuesBuilt' /\ EdgesBuilt' /\ FlowOnEdges'
<1>1. /\ \A e \in Ingresses : queues'[e] = Queue(e)
      /\ \A e \in Ingresses : ranks'[e] = EdgesOf(ToSet(Queue(e)))
      /\ UNCHANGED <<qualified, assigned>> /\ phase = "queues"
  BY DEF BuildQueues, input
<1>2. ASSUME NEW e \in Ingresses
      PROVE  /\ Queue(e) \in Seq(qualified) /\ Len(Queue(e)) <= MaxFallbackChoices
             /\ \A c \in ToSet(Queue(e)) : c.ingress = e
             /\ Queue(e) = << >> => \A c \in qualified : c.ingress # e
             /\ DOMAIN EdgesOf(ToSet(Queue(e))) = {c.pattern : c \in ToSet(Queue(e))}
             /\ \A p \in DOMAIN EdgesOf(ToSet(Queue(e))) :
                  EdgesOf(ToSet(Queue(e)))[p] \in 0 .. 2
  <2>1. /\ Queue(e) \in Seq(qualified) /\ Len(Queue(e)) <= MaxFallbackChoices
        /\ \A i \in 1 .. Len(Queue(e)) : Queue(e)[i].ingress = e
        /\ Queue(e) = << >> => \A c \in qualified : c.ingress # e
    BY QueueFacts DEF CapInv
  <2>2. PICK s \in Seq(qualified) : s = Queue(e)
    BY <2>1
  <2>3. \A c \in ToSet(s) : c \in qualified /\ c.ingress = e
    BY <2>1, <2>2 DEF ToSet
  <2>4. IsFiniteSet(ToSet(s)) /\ Cardinality(ToSet(s)) <= Len(s)
    BY AtMostItsLength
  <2>5. Cardinality(ToSet(s)) <= MaxFallbackChoices
    <3>1. PICK k \in Nat, n \in Nat : k = Cardinality(ToSet(s)) /\ n = Len(s)
      BY <2>4, FS_CardinalityType
    <3>2. k <= n /\ n <= 3
      BY <2>1, <2>2, <2>4, <3>1 DEF MaxFallbackChoices
    <3> QED
      BY <3>1, <3>2 DEF MaxFallbackChoices
  <2>6. \A c \in ToSet(s) : c.id \in Nat
    BY <2>3, CorpusFacts
  <2>7. /\ DOMAIN EdgesOf(ToSet(s)) = {c.pattern : c \in ToSet(s)}
        /\ \A p \in DOMAIN EdgesOf(ToSet(s)) : EdgesOf(ToSet(s))[p] \in 0 .. 2
    BY <2>4, <2>5, <2>6, EdgesFacts
  <2> QED
    BY <2>1, <2>2, <2>3, <2>7
<1>3. QueuesBuilt'
  BY <1>1, <1>2 DEF QueuesBuilt, QueueSet
<1>4. EdgesBuilt'
  BY <1>1, <1>2 DEF EdgesBuilt, Edges, QueueSet
<1>5. ASSUME NEW e \in Ingresses PROVE assigned[e] = None
  BY DEF PlanInv, BuildQueues
<1> QED
  BY <1>1, <1>3, <1>4, <1>5 DEF FlowOnEdges

\* The strengthening of TypeOK and PlanIsUsable is an invariant of the planning.
THEOREM PlanInvariance == Spec => []PlanInv
<1>1. Init => PlanInv
  <2> SUFFICES ASSUME Init PROVE PlanInv
    OBVIOUS
  <2>1. /\ queues = [e \in Ingresses |-> << >>] /\ ranks = [e \in Ingresses |-> << >>]
        /\ assigned = [e \in Ingresses |-> None]
        /\ pattern = 1 /\ phase = "queues" /\ plan = None
    BY DEF Init
  <2>2. ASSUME NEW e \in Ingresses
        PROVE  /\ queues[e] = << >> /\ Edges(e) = {} /\ QueueSet(e) = {}
               /\ assigned[e] = None
    BY <2>1 DEF Edges, QueueSet, ToSet
  <2>3. QueuesBuilt
    <3>1. Len(<< >>) <= MaxFallbackChoices /\ << >> \in Seq(qualified)
      BY DEF MaxFallbackChoices
    <3> QED
      BY <2>1, <2>2, <3>1 DEF QueuesBuilt
  <2>4. EdgesBuilt /\ FlowOnEdges
    BY <2>2 DEF EdgesBuilt, FlowOnEdges
  <2>5. ~ (pattern > LastPattern)
    BY <2>1, Largest
  <2> QED
    BY <2>1, <2>2, <2>3, <2>4, <2>5 DEF PlanInv, PlanIsUsable
<1>2. CapInv /\ PlanInv /\ [Next]_vars => PlanInv'
  <2> SUFFICES ASSUME CapInv, PlanInv, [Next]_vars PROVE PlanInv'
    OBVIOUS
  <2>1. CASE BuildQueues
    <3>1. /\ UNCHANGED <<cap, qualified, selected, pattern, plan>>
          /\ phase = "queues" /\ phase' \in {"flow", "rounds"}
          /\ phase' = "rounds" => mode' = "exhaustive"
      BY <2>1 DEF BuildQueues, input, ring, CapInv
    <3>2. QueuesBuilt' /\ EdgesBuilt' /\ FlowOnEdges'
      BY <2>1, BuildQueuesBuilds
    <3> QED
      BY <3>1, <3>2 DEF PlanInv, PlanIsUsable
  <2>2. CASE Augment
    <3>1. /\ UNCHANGED <<mode, cap, qualified, queues, ranks, selected, pattern, phase, plan>>
          /\ phase = "flow"
      BY <2>2 DEF Augment, input, network, ring
    <3>2. FlowOnEdges'
      BY <2>2, AugmentOnEdges DEF PlanInv
    <3> QED
      BY <3>1, <3>2
      DEF PlanInv, PlanIsUsable, QueuesBuilt, EdgesBuilt, QueueSet, Edges
  <2>3. CASE PlanCoverage
    <3>1. /\ UNCHANGED <<mode, cap, qualified, queues, ranks, assigned, selected, pattern>>
          /\ phase = "flow" /\ phase' = "planned"
      BY <2>3 DEF PlanCoverage, input, network, ring
    <3>2. plan' \in Plans(qualified) /\ PlanIsUsable'
      BY <2>3, CoveragePlanUsable
    <3>3. \A e \in Ingresses : queues[e] # << >> => assigned[e] # None
      BY <2>3, <3>1, NoPathLeft DEF PlanCoverage
    <3> QED
      BY <3>1, <3>2, <3>3 DEF PlanInv, QueuesBuilt, EdgesBuilt, FlowOnEdges, QueueSet, Edges
  <2>4. CASE PlanExhaustive
    <3>1. /\ UNCHANGED <<mode, cap, qualified, queues, ranks, assigned, selected, pattern>>
          /\ phase = "rounds" /\ phase' = "planned"
      BY <2>4 DEF PlanExhaustive, input, network, ring
    <3>2. plan' \in Plans(qualified) /\ PlanIsUsable'
      BY <2>4, ExhaustivePlanUsable
    <3> QED
      BY <3>1, <3>2 DEF PlanInv, QueuesBuilt, EdgesBuilt, FlowOnEdges, QueueSet, Edges
  <2>5. CASE SelectAll
    <3>1. /\ UNCHANGED <<mode, cap, qualified, queues, ranks, assigned, phase, plan>>
          /\ phase = "rounds" /\ selected' = qualified
      BY <2>5 DEF SelectAll, input, network
    <3> QED
      BY <3>1
      DEF PlanInv, PlanIsUsable, QueuesBuilt, EdgesBuilt, FlowOnEdges, QueueSet, Edges
  <2>6. CASE Take \/ Pass
    <3>1. /\ UNCHANGED <<mode, cap, qualified, queues, ranks, assigned, phase, plan>>
          /\ phase = "rounds" /\ cap # NoCap
      BY <2>6 DEF Take, Pass, input, network
    <3> QED
      BY <3>1
      DEF PlanInv, PlanIsUsable, QueuesBuilt, EdgesBuilt, FlowOnEdges, QueueSet, Edges
  <2>7. CASE UNCHANGED vars
    <3>1. UNCHANGED <<mode, cap, qualified, queues, ranks, assigned, selected, pattern,
                      phase, plan>>
      BY <2>7 DEF vars
    <3>2. PlanIsUsable'
      BY <3>1 DEF PlanInv, PlanIsUsable, CoverageLimits, ExhaustiveLimits, ServedBy
    <3> QED
      BY <3>1, <3>2
      DEF PlanInv, QueuesBuilt, EdgesBuilt, FlowOnEdges, QueueSet, Edges
  <2> QED
    BY <2>1, <2>2, <2>3, <2>4, <2>5, <2>6, <2>7 DEF Next, Planned
<1> QED
  BY <1>1, <1>2, CapInvariance, PTL DEF Spec

\* The state of the planning has its types, and no tie-break cost exceeds 2.
THEOREM PlanningTypeCorrect == Spec => []TypeOK
<1>1. CapInv /\ PlanInv => TypeOK
  <2> SUFFICES ASSUME CapInv, PlanInv PROVE TypeOK
    OBVIOUS
  <2>1. \A c \in qualified : IsCandidate(c)
    BY CorporaAssumption DEF CapInv
  <2>2. ASSUME NEW e \in Ingresses
        PROVE  /\ queues[e] \in Seq(qualified) /\ Len(queues[e]) <= MaxFallbackChoices
               /\ DOMAIN ranks[e] \subseteq Patterns
               /\ \A p \in DOMAIN ranks[e] : ranks[e][p] \in 0 .. 2
               /\ assigned[e] \in DOMAIN ranks[e] \cup {None}
    <3>1. QueueSet(e) \subseteq qualified
      BY CoverageChoices DEF PlanInv
    <3>2. DOMAIN ranks[e] \subseteq Patterns
      BY <2>1, <3>1 DEF PlanInv, EdgesBuilt, Edges, IsCandidate
    <3> QED
      BY <3>2 DEF PlanInv, QueuesBuilt, EdgesBuilt, FlowOnEdges, Edges
  <2> QED
    BY <2>1, <2>2 DEF TypeOK, CapInv, PlanInv
<1> QED
  BY <1>1, CapInvariance, PlanInvariance, PTL

\* Finalization can rely on the plan: every candidate in one place only, every
\* ingress served or reported uncovered, and limited exactly the targets beyond the
\* first that the cap allows their pattern (coverage mode), or the ingresses with a
\* candidate and no target (exhaustive mode).
THEOREM PlanUsable == Spec => []PlanIsUsable
<1>1. PlanInv => PlanIsUsable
  BY DEF PlanInv
<1> QED
  BY <1>1, PlanInvariance, PTL

\* Every target with a candidate has a primary in the plan, whatever the order in
\* which the augmenting paths are found (the first part of AssignmentIsOptimal).
THEOREM EveryTargetServed ==
  Spec => [](phase = "planned" /\ mode = "coverage" =>
               [e \in Coverable |-> assigned[e]] \in Assignments)
<1>1. CapInv /\ PlanInv => (phase = "planned" /\ mode = "coverage" =>
                              [e \in Coverable |-> assigned[e]] \in Assignments)
  <2> SUFFICES ASSUME CapInv, PlanInv, phase = "planned", mode = "coverage"
               PROVE  [e \in Coverable |-> assigned[e]] \in Assignments
    OBVIOUS
  <2>1. ASSUME NEW e \in Coverable PROVE assigned[e] \in Edges(e) /\ Edges(e) \subseteq Patterns
    <3>1. e \in Ingresses /\ assigned[e] # None
      BY DEF Coverable, PlanInv
    <3>2. QueueSet(e) \subseteq qualified
      BY <3>1, CoverageChoices DEF PlanInv
    <3> QED
      BY <3>1, <3>2, CorpusFacts DEF PlanInv, FlowOnEdges, EdgesBuilt
  <2> QED
    BY <2>1 DEF Assignments
<1> QED
  BY <1>1, CapInvariance, PlanInvariance, PTL

-----------------------------------------------------------------------------
\* The flow: networks, routes and prices.  _solve_min_cost_assignment keeps prices
\* implicitly; the proof makes them explicit.

\* A flow network of the planning: the costs r of the edges, by target and
\* pattern, and the cost c of the units of a pattern, which never decreases.
Network(r, c) ==
  /\ \A e \in Ingresses : /\ DOMAIN r[e] \subseteq Patterns
                          /\ \A p \in DOMAIN r[e] : r[e][p] \in Nat
  /\ c \in [Nat -> Nat]
  /\ \A j, k \in Nat : j <= k => c[j] <= c[k]

\* a assigns patterns to targets along the edges.
Flow(r, a) ==
  /\ a \in [Ingresses -> Patterns \cup {None}]
  /\ \A e \in Ingresses : a[e] # None => a[e] \in DOMAIN r[e]

\* Prices of the patterns that support the flow: no target prefers another of its
\* patterns, and the price of a pattern lies between the costs of its last and
\* its next unit.
Prices(r, c, a, y) ==
  /\ y \in [Patterns -> Nat]
  /\ \A e \in Ingresses : a[e] # None =>
       \A p \in DOMAIN r[e] : r[e][a[e]] + y[a[e]] <= r[e][p] + y[p]
  /\ \A p \in Patterns : /\ y[p] <= c[Load(a, p)]
                         /\ \A k \in Nat : k < Load(a, p) => c[k] <= y[p]

\* t and p run along an augmenting path: target t[i] is moved to pattern p[i].
Route(r, a, t, p, k) ==
  /\ t \in [Nat -> Ingresses] /\ p \in [Nat -> Patterns] /\ k \in Nat \ {0}
  /\ a[t[1]] = None
  /\ \A i, j \in 1 .. k : p[i] = p[j] => i = j
  /\ \A i \in 1 .. k : p[i] \in DOMAIN r[t[i]]
  /\ \A i \in 2 .. k : a[t[i]] = p[i - 1]

\* The cost of each arc of a route, and of the route with the unit it ends with.
Arcs(r, t, p) ==
  [i \in Nat |-> IF i = 1 THEN r[t[1]][p[1]] ELSE r[t[i]][p[i]] - r[t[i]][p[i - 1]]]

RouteCost(r, c, a, t, p, k) == Total(Arcs(r, t, p), k) + c[Load(a, p[k])]

\* The assignment after the first k arcs.
Augmented(a, t, p, k) ==
  [e \in Ingresses |-> IF \E i \in 1 .. k : t[i] = e
                       THEN p[CHOOSE i \in 1 .. k : t[i] = e] ELSE a[e]]

\* A route that gains nothing at any of its targets, for a target that pays u.
Tight(r, y, u, t, p, k) ==
  /\ u = r[t[1]][p[1]] + y[p[1]]
  /\ \A i \in 2 .. k : r[t[i]][p[i - 1]] + y[p[i - 1]] = r[t[i]][p[i]] + y[p[i]]

\* Ingresses and patterns are numbers; None is no pattern.
LEMMA NumberFacts ==
  /\ LastIngress \in Nat /\ Ingresses = 1 .. LastIngress
  /\ LastPattern \in Nat /\ Patterns = 1 .. LastPattern
  /\ None \notin Patterns /\ IsFiniteSet(Ingresses)
BY Largest, NoneAssumption, IngressesAssumption

\* A load is a number.
LEMMA LoadType ==
  ASSUME NEW a, NEW p
  PROVE  Load(a, p) \in Nat /\ IsFiniteSet({e \in Ingresses : a[e] = p})
<1> DEFINE S == {e \in Ingresses : a[e] = p}
<1>1. IsFiniteSet(S)
  <2>1. S \in SUBSET Ingresses
    OBVIOUS
  <2> HIDE DEF S
  <2> QED
    BY <2>1, IngressesAssumption, FS_Subset
<1>2. Cardinality(S) \in Nat
  <2> HIDE DEF S
  <2> QED
    BY <1>1, FS_CardinalityType
<1> QED
  BY <1>1, <1>2 DEF Load

\* A target moved to another pattern.
LEMMA LoadChange ==
  ASSUME NEW a \in [Ingresses -> Patterns \cup {None}], NEW e \in Ingresses,
         NEW q \in Patterns, a[e] # q, NEW b, b = [a EXCEPT ![e] = q],
         NEW p \in Patterns
  PROVE  Load(b, p) = IF p = q THEN Load(a, p) + 1
                      ELSE IF p = a[e] THEN Load(a, p) - 1 ELSE Load(a, p)
<1> DEFINE S == {d \in Ingresses : a[d] = p}
           T == {d \in Ingresses : b[d] = p}
<1>1. IsFiniteSet(S) /\ Load(a, p) = Cardinality(S) /\ Load(b, p) = Cardinality(T)
  BY LoadType DEF Load
<1>2. CASE p = q
  <2>1. T = S \cup {e} /\ e \notin S
    BY <1>2
  <2> HIDE DEF S, T
  <2>2. Cardinality(T) = Cardinality(S) + 1
    BY <1>1, <2>1, FS_AddElement
  <2> QED
    BY <1>1, <1>2, <2>2
<1>3. CASE p # q /\ p = a[e]
  <2>1. T = S \ {e} /\ e \in S
    BY <1>3
  <2> HIDE DEF S, T
  <2>2. Cardinality(T) = Cardinality(S) - 1
    BY <1>1, <2>1, FS_RemoveElement
  <2> QED
    BY <1>1, <1>3, <2>2
<1>4. CASE p # q /\ p # a[e]
  <2>1. T = S
    BY <1>4
  <2> HIDE DEF S, T
  <2> QED
    BY <1>1, <1>4, <2>1
<1> QED
  BY <1>2, <1>3, <1>4

\* The targets of a route differ, and its arcs have integer costs.
LEMMA RouteFacts ==
  ASSUME NEW r, NEW c, Network(r, c), NEW a, Flow(r, a),
         NEW t, NEW p, NEW k, Route(r, a, t, p, k)
  PROVE  /\ \A i, j \in 1 .. k : t[i] = t[j] => i = j
         /\ \A i \in 1 .. k : /\ t[i] \in Ingresses /\ p[i] \in Patterns
                              /\ p[i] \in DOMAIN r[t[i]] /\ r[t[i]][p[i]] \in Nat
                              /\ i # 1 => /\ a[t[i]] = p[i - 1] /\ p[i - 1] \in Patterns
                                          /\ p[i - 1] \in DOMAIN r[t[i]]
                                          /\ r[t[i]][p[i - 1]] \in Nat
                              /\ Arcs(r, t, p)[i] \in Int
         /\ k \in Nat /\ 1 \in 1 .. k
<1>1. k \in Nat /\ k # 0 /\ t \in [Nat -> Ingresses] /\ p \in [Nat -> Patterns]
  BY DEF Route
<1>2. ASSUME NEW i \in 1 .. k, i # 1
      PROVE  /\ a[t[i]] = p[i - 1] /\ p[i - 1] \in Patterns
             /\ p[i - 1] \in DOMAIN r[t[i]] /\ r[t[i]][p[i - 1]] \in Nat
  <2>1. i \in 2 .. k /\ i \in Nat /\ i - 1 \in Nat
    BY <1>1, <1>2
  <2>2. a[t[i]] = p[i - 1] /\ p[i - 1] \in Patterns /\ t[i] \in Ingresses
    BY <1>1, <2>1 DEF Route
  <2>3. p[i - 1] # None
    BY <2>2, NumberFacts
  <2> QED
    BY <2>2, <2>3 DEF Flow, Network
<1>3. ASSUME NEW i \in 1 .. k
      PROVE  /\ t[i] \in Ingresses /\ p[i] \in Patterns
             /\ p[i] \in DOMAIN r[t[i]] /\ r[t[i]][p[i]] \in Nat
  <2>0. i \in Nat
    OBVIOUS
  <2>1. p[i] \in DOMAIN r[t[i]] /\ t[i] \in Ingresses /\ p[i] \in Patterns
    BY <1>1, <2>0 DEF Route
  <2> QED
    BY <2>1 DEF Network
<1>4. ASSUME NEW i \in 1 .. k, NEW j \in 1 .. k, t[i] = t[j] PROVE i = j
  <2>1. a[t[1]] = None
    BY DEF Route
  <2>2. i = 1 <=> j = 1
    BY <1>2, <1>4, <2>1, NumberFacts
  <2>3. ASSUME i # 1, j # 1 PROVE i = j
    <3>1. p[i - 1] = p[j - 1] /\ i - 1 \in 1 .. k /\ j - 1 \in 1 .. k
      BY <1>1, <1>2, <1>4, <2>3
    <3>2. i - 1 = j - 1
      BY <3>1 DEF Route
    <3> QED
      BY <3>2
  <2> QED
    BY <2>2, <2>3
<1>5. ASSUME NEW i \in 1 .. k PROVE Arcs(r, t, p)[i] \in Int
  <2>1. i \in Nat
    OBVIOUS
  <2>2. CASE i = 1
    <3>1. Arcs(r, t, p)[i] = r[t[i]][p[i]]
      BY <2>1, <2>2 DEF Arcs
    <3> QED
      BY <1>3, <3>1
  <2>3. CASE i # 1
    <3>1. Arcs(r, t, p)[i] = r[t[i]][p[i]] - r[t[i]][p[i - 1]]
      BY <2>1, <2>3 DEF Arcs
    <3>2. r[t[i]][p[i]] \in Nat /\ r[t[i]][p[i - 1]] \in Nat
      BY <1>2, <1>3, <2>3
    <3> QED
      BY <3>1, <3>2
  <2> QED
    BY <2>2, <2>3
<1> QED
  BY <1>1, <1>2, <1>3, <1>4, <1>5

\* The first arcs of a route are a route.
LEMMA RoutePrefix ==
  ASSUME NEW r, NEW a, NEW t, NEW p, NEW k, Route(r, a, t, p, k), NEW j \in 1 .. k
  PROVE  Route(r, a, t, p, j)
<1>1. k \in Nat /\ j \in Nat \ {0} /\ 1 .. j \subseteq 1 .. k /\ 2 .. j \subseteq 2 .. k
  BY DEF Route
<1> QED
  BY <1>1 DEF Route

\* The recursion of a route's cost.
LEMMA RouteUnfolds ==
  ASSUME NEW r, NEW c, Network(r, c), NEW a, Flow(r, a),
         NEW t, NEW p, NEW k, Route(r, a, t, p, k)
  PROVE  /\ \A i \in 0 .. k : Total(Arcs(r, t, p), i) \in Int
         /\ Total(Arcs(r, t, p), 0) = 0
         /\ Total(Arcs(r, t, p), 1) = r[t[1]][p[1]]
         /\ \A i \in 2 .. k : Total(Arcs(r, t, p), i)
              = Total(Arcs(r, t, p), i - 1) + r[t[i]][p[i]] - r[t[i]][p[i - 1]]
<1>0. PICK f : f = Arcs(r, t, p)
  OBVIOUS
<1>1. k \in Nat /\ k # 0 /\ \A i \in 1 .. k : f[i] \in Int
  BY <1>0, RouteFacts DEF Route
<1>2. /\ Total(f, 0) = 0 /\ \A i \in 0 .. k : Total(f, i) \in Int
      /\ \A i \in 1 .. k : Total(f, i) = Total(f, i - 1) + f[i]
  BY <1>1, TotalUnfolds
<1>3. Total(f, 1) = r[t[1]][p[1]]
  <2>1. f[1] = r[t[1]][p[1]]
    BY <1>0 DEF Arcs
  <2>2. 1 \in 1 .. k /\ 1 - 1 = 0
    BY <1>1
  <2> QED
    BY <1>1, <1>2, <2>1, <2>2
<1>4. ASSUME NEW i \in 2 .. k
      PROVE  Total(f, i) = Total(f, i - 1) + r[t[i]][p[i]] - r[t[i]][p[i - 1]]
  <2>1. i \in 1 .. k /\ i # 1 /\ i \in Nat /\ i - 1 \in 0 .. k
    BY <1>1
  <2>2. f[i] = r[t[i]][p[i]] - r[t[i]][p[i - 1]]
    BY <1>0, <2>1 DEF Arcs
  <2>3. r[t[i]][p[i]] \in Nat /\ r[t[i]][p[i - 1]] \in Nat /\ Total(f, i - 1) \in Int
    BY <1>2, <2>1, RouteFacts
  <2>4. Total(f, i) = Total(f, i - 1) + f[i]
    BY <1>2, <2>1
  <2> QED
    BY <2>2, <2>3, <2>4
<1> QED
  BY <1>0, <1>2, <1>3, <1>4

\* No route from a target that pays u costs less than u.
LEMMA RouteBound ==
  ASSUME NEW r, NEW c, Network(r, c), NEW a, Flow(r, a), NEW y, Prices(r, c, a, y),
         NEW t, NEW p, NEW k, Route(r, a, t, p, k),
         NEW u \in Nat, \A q \in DOMAIN r[t[1]] : u <= r[t[1]][q] + y[q]
  PROVE  /\ \A i \in 1 .. k : u <= Total(Arcs(r, t, p), i) + y[p[i]]
         /\ \A i \in 2 .. k : Total(Arcs(r, t, p), i - 1) + y[p[i - 1]]
                                 <= Total(Arcs(r, t, p), i) + y[p[i]]
         /\ y[p[k]] <= c[Load(a, p[k])]
<1>1. PICK g : g = [i \in Nat |-> Total(Arcs(r, t, p), i)]
  OBVIOUS
<1>2. /\ k \in Nat /\ k # 0 /\ t \in [Nat -> Ingresses] /\ p \in [Nat -> Patterns]
      /\ y \in [Patterns -> Nat]
  BY DEF Route, Prices
<1>3. /\ \A i \in 0 .. k : g[i] = Total(Arcs(r, t, p), i) /\ g[i] \in Int
      /\ g[1] = r[t[1]][p[1]]
      /\ \A i \in 2 .. k : g[i] = g[i - 1] + r[t[i]][p[i]] - r[t[i]][p[i - 1]]
  <2>1. \A i \in 0 .. k : i \in Nat
    OBVIOUS
  <2>2. \A i \in 2 .. k : i - 1 \in 0 .. k
    BY <1>2
  <2>3. 1 \in 0 .. k
    BY <1>2
  <2> QED
    BY <1>1, <2>1, <2>2, <2>3, RouteUnfolds
<1>4. ASSUME NEW i \in 2 .. k
      PROVE  g[i - 1] + y[p[i - 1]] <= g[i] + y[p[i]]
  <2>1. i \in 1 .. k /\ i # 1 /\ i - 1 \in 0 .. k /\ i \in 0 .. k /\ i \in Nat /\ i - 1 \in Nat
    BY <1>2
  <2>2. /\ a[t[i]] = p[i - 1] /\ r[t[i]][p[i]] \in Nat /\ r[t[i]][p[i - 1]] \in Nat
        /\ t[i] \in Ingresses /\ p[i] \in DOMAIN r[t[i]]
        /\ p[i] \in Patterns /\ p[i - 1] \in Patterns
    BY <2>1, RouteFacts
  <2>3. r[t[i]][p[i - 1]] + y[p[i - 1]] <= r[t[i]][p[i]] + y[p[i]]
    BY <2>2, NumberFacts DEF Prices
  <2>4. y[p[i]] \in Nat /\ y[p[i - 1]] \in Nat /\ g[i - 1] \in Int
    BY <1>2, <1>3, <2>1, <2>2
  <2>5. g[i] = g[i - 1] + r[t[i]][p[i]] - r[t[i]][p[i - 1]]
    BY <1>3
  <2> QED
    BY <2>2, <2>3, <2>4, <2>5
<1>5. \A i \in 1 .. k : u <= g[i] + y[p[i]]
  <2> DEFINE Q == {i \in Nat : i = 0 \/ u <= g[i] + y[p[i]]}
  <2>1. 0 \in Q
    OBVIOUS
  <2>2. ASSUME NEW i \in 0 .. k, i # k, i \in Q PROVE i + 1 \in Q
    <3>1. i + 1 \in 1 .. k /\ i + 1 \in 0 .. k /\ (i + 1) - 1 = i /\ i + 1 \in Nat
      BY <1>2, <2>2
    <3>2. CASE i = 0
      <4>1. p[1] \in DOMAIN r[t[1]] /\ 1 \in 1 .. k
        BY <1>2 DEF Route
      <4>2. i + 1 = 1
        BY <3>2
      <4> QED
        BY <1>3, <4>1, <4>2
    <3>3. CASE i # 0
      <4>1. i + 1 \in 2 .. k /\ i \in Nat /\ i \in 0 .. k
        BY <3>1, <3>3
      <4>2. g[i] + y[p[i]] <= g[i + 1] + y[p[i + 1]]
        BY <1>4, <3>1, <4>1
      <4>3. g[i] \in Int /\ g[i + 1] \in Int /\ y[p[i]] \in Nat /\ y[p[i + 1]] \in Nat
        BY <1>2, <1>3, <3>1, <4>1
      <4>4. u <= g[i] + y[p[i]]
        BY <2>2, <3>3
      <4>5. u <= g[i + 1] + y[p[i + 1]]
        BY <4>2, <4>3, <4>4
      <4> QED
        BY <3>1, <4>5
    <3> QED
      BY <3>2, <3>3
  <2>3. \A i \in 0 .. k : i \in Q
    <3> HIDE DEF Q
    <3> QED
      BY <1>2, <2>1, <2>2, Induction
  <2>4. \A i \in 1 .. k : i \in 0 .. k /\ i # 0
    OBVIOUS
  <2> QED
    BY <2>3, <2>4
<1>6. y[p[k]] <= c[Load(a, p[k])]
  BY <1>2 DEF Prices
<1>7. (\A i \in 1 .. k : i \in 0 .. k) /\ (\A i \in 2 .. k : i - 1 \in 0 .. k /\ i \in 0 .. k)
  BY <1>2
<1> QED
  BY <1>3, <1>4, <1>5, <1>6, <1>7

\* A route that costs no more than u is tight, up to its last unit.
LEMMA CheapIsTight ==
  ASSUME NEW r, NEW c, Network(r, c), NEW a, Flow(r, a), NEW y, Prices(r, c, a, y),
         NEW t, NEW p, NEW k, Route(r, a, t, p, k),
         NEW u \in Nat, \A q \in DOMAIN r[t[1]] : u <= r[t[1]][q] + y[q],
         RouteCost(r, c, a, t, p, k) <= u
  PROVE  Tight(r, y, u, t, p, k) /\ y[p[k]] = c[Load(a, p[k])]
<1>1. PICK g : g = [i \in Nat |-> Total(Arcs(r, t, p), i) + y[p[i]]]
  OBVIOUS
<1>2. /\ k \in Nat /\ k # 0 /\ t \in [Nat -> Ingresses] /\ p \in [Nat -> Patterns]
      /\ y \in [Patterns -> Nat] /\ c[Load(a, p[k])] \in Nat
  BY LoadType DEF Route, Prices, Network
<1>3. ASSUME NEW i \in 1 .. k
      PROVE  g[i] \in Int /\ u <= g[i] /\ y[p[i]] \in Nat /\ i \in Nat
             /\ g[i] = Total(Arcs(r, t, p), i) + y[p[i]] /\ Total(Arcs(r, t, p), i) \in Int
  <2>1. i \in Nat /\ i \in 0 .. k
    OBVIOUS
  <2>2. Total(Arcs(r, t, p), i) \in Int
    BY <2>1, RouteUnfolds
  <2>3. u <= Total(Arcs(r, t, p), i) + y[p[i]]
    BY RouteBound
  <2> QED
    BY <1>1, <1>2, <2>1, <2>2, <2>3
<1>4. \A i \in 2 .. k : g[i - 1] <= g[i]
  <2> TAKE i \in 2 .. k
  <2>1. i - 1 \in Nat /\ i \in Nat
    OBVIOUS
  <2>2. Total(Arcs(r, t, p), i - 1) + y[p[i - 1]] <= Total(Arcs(r, t, p), i) + y[p[i]]
    BY RouteBound
  <2> QED
    BY <1>1, <2>1, <2>2
<1>5. g[k] <= u /\ y[p[k]] = c[Load(a, p[k])]
  <2>1. k \in 1 .. k
    BY <1>2
  <2>2. y[p[k]] <= c[Load(a, p[k])]
    BY RouteBound
  <2>3. Total(Arcs(r, t, p), k) + c[Load(a, p[k])] <= u
    BY DEF RouteCost
  <2>4. Total(Arcs(r, t, p), k) \in Int /\ y[p[k]] \in Nat
        /\ g[k] = Total(Arcs(r, t, p), k) + y[p[k]] /\ u <= g[k]
    BY <1>3, <2>1
  <2> QED
    BY <1>2, <2>2, <2>3, <2>4
<1>6. \A i \in 1 .. k : g[i] = u
  <2> DEFINE Q == {j \in Nat : j = k \/ g[k - j] = u}
  <2>1. 0 \in Q
    <3>1. k - 0 = k /\ k \in 1 .. k
      BY <1>2
    <3>2. g[k] = u
      BY <1>3, <1>5, <3>1
    <3> QED
      BY <3>1, <3>2
  <2>2. ASSUME NEW j \in 0 .. k, j # k, j \in Q PROVE j + 1 \in Q
    <3>1. CASE j + 1 = k
      BY <3>1
    <3>2. CASE j + 1 # k
      <4>1. k - j \in 2 .. k /\ k - (j + 1) = (k - j) - 1 /\ k - (j + 1) \in 1 .. k
        BY <1>2, <2>2, <3>2
      <4>2. g[k - j] = u
        BY <2>2
      <4>3. g[k - (j + 1)] <= u /\ u <= g[k - (j + 1)] /\ g[k - (j + 1)] \in Int
        BY <1>3, <1>4, <4>1, <4>2
      <4>4. g[k - (j + 1)] = u
        BY <4>3
      <4> QED
        BY <4>4
    <3> QED
      BY <3>1, <3>2
  <2>3. \A j \in 0 .. k : j \in Q
    <3> HIDE DEF Q
    <3> QED
      BY <1>2, <2>1, <2>2, Induction
  <2> TAKE i \in 1 .. k
  <2>4. k - i \in 0 .. k /\ k - i # k /\ k - (k - i) = i
    BY <1>2
  <2> QED
    BY <2>3, <2>4
<1>7. u = r[t[1]][p[1]] + y[p[1]]
  <2>1. 1 \in 1 .. k
    BY <1>2
  <2> QED
    BY <1>3, <1>6, <2>1, RouteUnfolds
<1>8. ASSUME NEW i \in 2 .. k
      PROVE  r[t[i]][p[i - 1]] + y[p[i - 1]] = r[t[i]][p[i]] + y[p[i]]
  <2>1. i \in 1 .. k /\ i - 1 \in 1 .. k /\ i # 1
    BY <1>2
  <2>2. /\ Total(Arcs(r, t, p), i) + y[p[i]] = Total(Arcs(r, t, p), i - 1) + y[p[i - 1]]
        /\ Total(Arcs(r, t, p), i - 1) \in Int /\ y[p[i]] \in Nat /\ y[p[i - 1]] \in Nat
    BY <1>3, <1>6, <2>1
  <2>3. r[t[i]][p[i]] \in Nat /\ r[t[i]][p[i - 1]] \in Nat
    BY <2>1, RouteFacts
  <2>4. Total(Arcs(r, t, p), i)
          = Total(Arcs(r, t, p), i - 1) + r[t[i]][p[i]] - r[t[i]][p[i - 1]]
    BY RouteUnfolds
  <2> QED
    BY <2>2, <2>3, <2>4
<1> QED
  BY <1>5, <1>7, <1>8 DEF Tight

\* A tight route costs what its target pays.
LEMMA TightCost ==
  ASSUME NEW r, NEW c, Network(r, c), NEW a, Flow(r, a), NEW y, Prices(r, c, a, y),
         NEW t, NEW p, NEW k, Route(r, a, t, p, k),
         NEW u \in Nat, Tight(r, y, u, t, p, k), y[p[k]] = c[Load(a, p[k])]
  PROVE  RouteCost(r, c, a, t, p, k) = u
<1>1. PICK g : g = [i \in Nat |-> Total(Arcs(r, t, p), i)]
  OBVIOUS
<1>2. /\ k \in Nat /\ k # 0 /\ t \in [Nat -> Ingresses] /\ p \in [Nat -> Patterns]
      /\ y \in [Patterns -> Nat]
  BY DEF Route, Prices
<1>3. /\ \A i \in 0 .. k : g[i] = Total(Arcs(r, t, p), i) /\ g[i] \in Int
      /\ g[1] = r[t[1]][p[1]]
      /\ \A i \in 2 .. k : g[i] = g[i - 1] + r[t[i]][p[i]] - r[t[i]][p[i - 1]]
  <2>1. \A i \in 0 .. k : i \in Nat
    OBVIOUS
  <2>2. \A i \in 2 .. k : i - 1 \in 0 .. k
    BY <1>2
  <2>3. 1 \in 0 .. k
    BY <1>2
  <2> QED
    BY <1>1, <2>1, <2>2, <2>3, RouteUnfolds
<1>4. k \in {j \in Nat : j = 0 \/ g[j] + y[p[j]] = u}
  <2> DEFINE Q == {j \in Nat : j = 0 \/ g[j] + y[p[j]] = u}
  <2>1. 0 \in Q
    OBVIOUS
  <2>2. ASSUME NEW i \in 0 .. k, i # k, i \in Q PROVE i + 1 \in Q
    <3>1. i + 1 \in 1 .. k /\ i + 1 \in 0 .. k /\ (i + 1) - 1 = i /\ i + 1 \in Nat
      BY <1>2, <2>2
    <3>2. CASE i = 0
      BY <1>3, <3>1, <3>2 DEF Tight
    <3>3. CASE i # 0
      <4>1. i + 1 \in 2 .. k /\ i \in Nat /\ i \in 0 .. k /\ i + 1 # 1
        BY <3>1, <3>3
      <4>2. r[t[i + 1]][p[i]] + y[p[i]] = r[t[i + 1]][p[i + 1]] + y[p[i + 1]]
        BY <3>1, <4>1 DEF Tight
      <4>3. g[i] \in Int /\ g[i + 1] \in Int /\ y[p[i]] \in Nat /\ y[p[i + 1]] \in Nat
            /\ g[i + 1] = g[i] + r[t[i + 1]][p[i + 1]] - r[t[i + 1]][p[i]]
        BY <1>2, <1>3, <3>1, <4>1
      <4>4. r[t[i + 1]][p[i + 1]] \in Nat /\ r[t[i + 1]][p[i]] \in Nat
        BY <3>1, <4>1, RouteFacts
      <4>5. g[i] + y[p[i]] = u
        BY <2>2, <3>3
      <4>6. g[i + 1] + y[p[i + 1]] = u
        BY <4>2, <4>3, <4>4, <4>5
      <4> QED
        BY <3>1, <4>6
    <3> QED
      BY <3>2, <3>3
  <2> HIDE DEF Q
  <2>3. k \in Q
    BY <1>2, <2>1, <2>2, InductionTo
  <2> QED
    BY <2>3 DEF Q
<1> QED
  BY <1>2, <1>3, <1>4 DEF RouteCost

-----------------------------------------------------------------------------
\* The highest price a target can be made to pay is the cost of its cheapest route.

\* Target e pays at least u, whichever of its patterns it takes.
Bid(r, y, e, u) == \A q \in DOMAIN r[e] : u <= r[e][q] + y[q]

\* The patterns a tight route from e leads to.
Reach(r, a, y, u, e) ==
  {q \in Patterns : \E t, p, k : /\ Route(r, a, t, p, k) /\ t[1] = e
                                 /\ Tight(r, y, u, t, p, k) /\ p[k] = q}

\* A bounded set of numbers has a greatest element.
LEMMA GreatestNumber ==
  ASSUME NEW S \in SUBSET Nat, S # {}, NEW B \in Nat, \A x \in S : x <= B
  PROVE  \E x \in S : \A y \in S : y <= x
<1> DEFINE T == {B - x : x \in S}
<1>0. \A x \in S : B - x \in Nat
  OBVIOUS
<1>1. T \in SUBSET Nat /\ T # {}
  BY <1>0
<1>2. PICK m \in T : \A n \in T : m <= n
  <2> HIDE DEF T
  <2> QED
    BY <1>1, LeastNumber
<1>3. PICK x \in S : m = B - x
  BY <1>2
<1>4. ASSUME NEW y \in S PROVE y <= x
  <2>1. B - x <= B - y
    BY <1>2, <1>3
  <2> QED
    BY <2>1
<1> QED
  BY <1>4

\* The prices at which e pays most.
LEMMA HighestPrices ==
  ASSUME NEW r, NEW c, Network(r, c), NEW a, NEW e \in Ingresses, DOMAIN r[e] # {},
         NEW y0, Prices(r, c, a, y0)
  PROVE  \E u \in Nat : \E y :
           /\ Prices(r, c, a, y) /\ Bid(r, y, e, u)
           /\ \A v \in Nat : \A z : Prices(r, c, a, z) /\ Bid(r, z, e, v) => v <= u
<1> DEFINE S == {v \in Nat : \E z : Prices(r, c, a, z) /\ Bid(r, z, e, v)}
<1>1. 0 \in S
  <2>1. \A q \in DOMAIN r[e] : r[e][q] \in Nat /\ y0[q] \in Nat
    BY DEF Network, Prices
  <2>2. Bid(r, y0, e, 0)
    BY <2>1 DEF Bid
  <2> QED
    BY <2>2
<1>2. PICK q \in DOMAIN r[e] : TRUE
  OBVIOUS
<1>3. PICK B \in Nat : B = r[e][q] + c[Load(a, q)]
  <2>1. r[e][q] \in Nat /\ c[Load(a, q)] \in Nat
    BY LoadType DEF Network
  <2> QED
    BY <2>1
<1>4. \A v \in S : v <= B
  <2> TAKE v \in S
  <2>1. PICK z : Prices(r, c, a, z) /\ Bid(r, z, e, v)
    OBVIOUS
  <2>2. /\ v <= r[e][q] + z[q] /\ z[q] <= c[Load(a, q)]
        /\ r[e][q] \in Nat /\ z[q] \in Nat /\ c[Load(a, q)] \in Nat /\ v \in Nat
    BY <2>1, LoadType DEF Prices, Bid, Network
  <2> QED
    BY <1>3, <2>2
<1>5. PICK u \in S : \A v \in S : v <= u
  <2>1. S \in SUBSET Nat /\ S # {}
    BY <1>1
  <2> HIDE DEF S
  <2> QED
    BY <1>4, <2>1, GreatestNumber
<1> QED
  BY <1>5

\* An arc that gains nothing extends what a tight route reaches.
LEMMA ReachClosed ==
  ASSUME NEW r, NEW c, Network(r, c), NEW a, Flow(r, a), NEW y, NEW u \in Nat,
         NEW e, NEW d \in Ingresses, a[d] \in Reach(r, a, y, u, e),
         NEW q \in DOMAIN r[d], r[d][a[d]] + y[a[d]] = r[d][q] + y[q]
  PROVE  q \in Reach(r, a, y, u, e)
<1>1. PICK t, p, k : /\ Route(r, a, t, p, k) /\ t[1] = e
                     /\ Tight(r, y, u, t, p, k) /\ p[k] = a[d]
  BY DEF Reach
<1>2. k \in Nat /\ k # 0 /\ t \in [Nat -> Ingresses] /\ p \in [Nat -> Patterns] /\ q \in Patterns
  BY <1>1 DEF Route, Network
<1>3. CASE \E i \in 1 .. k : p[i] = q
  <2>1. PICK i \in 1 .. k : p[i] = q
    BY <1>3
  <2>2. Route(r, a, t, p, i)
    BY <1>1, RoutePrefix
  <2>3. Tight(r, y, u, t, p, i)
    <3>1. 2 .. i \subseteq 2 .. k
      BY <1>2
    <3> QED
      BY <1>1, <3>1 DEF Tight
  <2> QED
    BY <1>1, <1>2, <2>1, <2>2, <2>3 DEF Reach
<1>4. CASE \A i \in 1 .. k : p[i] # q
  <2>1. PICK n \in Nat : n = k + 1 /\ n # 0
    BY <1>2
  <2>2. PICK t2 : t2 = [t EXCEPT ![n] = d]
    OBVIOUS
  <2>3. PICK p2 : p2 = [p EXCEPT ![n] = q]
    OBVIOUS
  <2>4. t2 \in [Nat -> Ingresses] /\ p2 \in [Nat -> Patterns] /\ t2[n] = d /\ p2[n] = q
    BY <1>2, <2>1, <2>2, <2>3
  <2>5. \A i \in 1 .. k : t2[i] = t[i] /\ p2[i] = p[i] /\ i \in Nat
    BY <1>2, <2>1, <2>2, <2>3
  <2>6. \A i \in 1 .. n : i \in 1 .. k \/ i = n
    BY <1>2, <2>1
  <2>7. \A i \in 2 .. n : i - 1 \in 1 .. k /\ (i \in 2 .. k \/ (i = n /\ i - 1 = k))
    BY <1>2, <2>1
  <2>8. 1 \in 1 .. k
    BY <1>2
  <2>9. /\ a[t[1]] = None
        /\ \A i, j \in 1 .. k : p[i] = p[j] => i = j
        /\ \A i \in 1 .. k : p[i] \in DOMAIN r[t[i]]
        /\ \A i \in 2 .. k : a[t[i]] = p[i - 1]
    BY <1>1 DEF Route
  <2>10. \A i, j \in 1 .. n : p2[i] = p2[j] => i = j
    BY <1>4, <2>4, <2>5, <2>6, <2>9
  <2>11. \A i \in 1 .. n : p2[i] \in DOMAIN r[t2[i]]
    BY <2>4, <2>5, <2>6, <2>9
  <2>12. \A i \in 2 .. n : a[t2[i]] = p2[i - 1]
    <3> TAKE i \in 2 .. n
    <3>1. CASE i \in 2 .. k
      <4>1. i \in 1 .. k
        BY <1>2, <3>1
      <4> QED
        BY <2>5, <2>7, <2>9, <3>1, <4>1
    <3>2. CASE i = n /\ i - 1 = k
      BY <1>1, <2>4, <2>5, <2>7, <3>2
    <3> QED
      BY <2>7, <3>1, <3>2
  <2>13. Route(r, a, t2, p2, n)
    BY <2>1, <2>4, <2>5, <2>8, <2>9, <2>10, <2>11, <2>12 DEF Route
  <2>14. \A i \in 2 .. n :
           r[t2[i]][p2[i - 1]] + y[p2[i - 1]] = r[t2[i]][p2[i]] + y[p2[i]]
    <3> TAKE i \in 2 .. n
    <3>1. CASE i \in 2 .. k
      <4>1. i \in 1 .. k
        BY <1>2, <3>1
      <4> QED
        BY <1>1, <2>5, <2>7, <3>1, <4>1 DEF Tight
    <3>2. CASE i = n /\ i - 1 = k
      BY <1>1, <2>4, <2>5, <2>7, <3>2
    <3> QED
      BY <2>7, <3>1, <3>2
  <2>15. Tight(r, y, u, t2, p2, n)
    BY <1>1, <2>5, <2>8, <2>14 DEF Tight
  <2> QED
    BY <1>1, <1>2, <2>4, <2>5, <2>8, <2>13, <2>15 DEF Reach
<1> QED
  BY <1>3, <1>4

\* At the prices at which e pays most, a tight route from e leads to a pattern
\* whose next unit costs its price: all tight patterns could be dearer otherwise.
LEMMA TightRouteEnds ==
  ASSUME NEW r, NEW c, Network(r, c), NEW a, Flow(r, a),
         NEW e \in Ingresses, a[e] = None, NEW u \in Nat, NEW y,
         Prices(r, c, a, y), Bid(r, y, e, u),
         \A v \in Nat : \A z : Prices(r, c, a, z) /\ Bid(r, z, e, v) => v <= u
  PROVE  \E t, p, k : /\ Route(r, a, t, p, k) /\ t[1] = e
                      /\ Tight(r, y, u, t, p, k) /\ y[p[k]] = c[Load(a, p[k])]
<1>1. PICK R : R = Reach(r, a, y, u, e)
  OBVIOUS
<1>2. SUFFICES ASSUME \A q \in R : y[q] # c[Load(a, q)] PROVE FALSE
  BY <1>1 DEF Reach
<1>3. PICK z : z = [q \in Patterns |-> IF q \in R THEN y[q] + 1 ELSE y[q]]
  OBVIOUS
<1>4. y \in [Patterns -> Nat] /\ z \in [Patterns -> Nat]
      /\ \A q \in Patterns : /\ z[q] = IF q \in R THEN y[q] + 1 ELSE y[q]
                             /\ y[q] \in Nat /\ z[q] \in Nat
  BY <1>3 DEF Prices
<1>5. \A q \in Patterns : Load(a, q) \in Nat /\ c[Load(a, q)] \in Nat
  BY LoadType DEF Network
<1>6. \A q \in Patterns : z[q] <= c[Load(a, q)]
                          /\ \A k \in Nat : k < Load(a, q) => c[k] <= z[q]
  <2> TAKE q \in Patterns
  <2>1. y[q] <= c[Load(a, q)] /\ \A k \in Nat : k < Load(a, q) => c[k] <= y[q]
    BY DEF Prices
  <2>2. y[q] \in Nat /\ c[Load(a, q)] \in Nat /\ y[q] <= z[q]
    BY <1>4, <1>5
  <2>3. z[q] <= c[Load(a, q)]
    BY <1>2, <1>4, <2>1, <2>2
  <2>4. \A k \in Nat : c[k] \in Nat
    BY DEF Network
  <2> QED
    BY <1>4, <2>1, <2>2, <2>3, <2>4
<1>7. ASSUME NEW d \in Ingresses, a[d] # None, NEW q \in DOMAIN r[d]
      PROVE  r[d][a[d]] + z[a[d]] <= r[d][q] + z[q]
  <2>1. /\ a[d] \in DOMAIN r[d] /\ a[d] \in Patterns /\ q \in Patterns
        /\ r[d][a[d]] \in Nat /\ r[d][q] \in Nat
    BY <1>7 DEF Flow, Network
  <2>2. r[d][a[d]] + y[a[d]] <= r[d][q] + y[q]
    BY <1>7 DEF Prices
  <2>3. y[a[d]] \in Nat /\ y[q] \in Nat
    BY <1>4, <2>1
  <2>4. CASE a[d] \notin R \/ q \in R
    <3>1. z[a[d]] = (IF a[d] \in R THEN y[a[d]] + 1 ELSE y[a[d]])
          /\ z[q] = (IF q \in R THEN y[q] + 1 ELSE y[q])
      BY <1>4, <2>1
    <3> QED
      BY <2>1, <2>2, <2>3, <2>4, <3>1
  <2>5. CASE a[d] \in R /\ q \notin R
    <3>1. z[a[d]] = y[a[d]] + 1 /\ z[q] = y[q]
      BY <1>4, <2>1, <2>5
    <3>2. r[d][a[d]] + y[a[d]] # r[d][q] + y[q]
      BY <1>1, <2>5, ReachClosed
    <3> QED
      BY <2>1, <2>2, <2>3, <3>1, <3>2
  <2> QED
    BY <2>4, <2>5
<1>8. Prices(r, c, a, z)
  BY <1>4, <1>6, <1>7 DEF Prices
<1>9. Bid(r, z, e, u + 1)
  <2> SUFFICES ASSUME NEW q \in DOMAIN r[e] PROVE u + 1 <= r[e][q] + z[q]
    BY DEF Bid
  <2>1. q \in Patterns /\ r[e][q] \in Nat /\ u <= r[e][q] + y[q]
    BY DEF Network, Bid
  <2>2. CASE q \in R
    BY <1>4, <2>1, <2>2
  <2>3. CASE q \notin R
    <3>1. ASSUME u = r[e][q] + y[q] PROVE FALSE
      <4>1. PICK t : t = [i \in Nat |-> e]
        OBVIOUS
      <4>2. PICK p : p = [i \in Nat |-> q]
        OBVIOUS
      <4>3. /\ t \in [Nat -> Ingresses] /\ p \in [Nat -> Patterns]
            /\ t[1] = e /\ p[1] = q /\ \A i \in 1 .. 1 : i = 1
        BY <2>1, <4>1, <4>2
      <4>4. 2 .. 1 = {} /\ 1 \in Nat \ {0}
        OBVIOUS
      <4>5. Route(r, a, t, p, 1)
        BY <4>3, <4>4 DEF Route
      <4>6. Tight(r, y, u, t, p, 1)
        BY <3>1, <4>3, <4>4 DEF Tight
      <4> QED
        BY <1>1, <2>1, <2>3, <4>3, <4>5, <4>6 DEF Reach
    <3> QED
      BY <1>4, <2>1, <2>3, <3>1
  <2> QED
    BY <2>2, <2>3
<1>10. u + 1 <= u
  BY <1>8, <1>9
<1> QED
  BY <1>10

-----------------------------------------------------------------------------
\* Augmenting along a cheapest route keeps the flow priced.

\* Augmenting moves one target after the other.
LEMMA AugmentedSteps ==
  ASSUME NEW r, NEW c, Network(r, c), NEW a, Flow(r, a),
         NEW t, NEW p, NEW k, Route(r, a, t, p, k)
  PROVE  /\ Augmented(a, t, p, 0) = a
         /\ \A i \in 1 .. k :
              /\ Augmented(a, t, p, i) = [Augmented(a, t, p, i - 1) EXCEPT ![t[i]] = p[i]]
              /\ Augmented(a, t, p, i - 1)[t[i]] = a[t[i]]
              /\ Augmented(a, t, p, k)[t[i]] = p[i]
         /\ \A i \in 0 .. k : Augmented(a, t, p, i) \in [Ingresses -> Patterns \cup {None}]
         /\ \A e \in Ingresses : (\A i \in 1 .. k : t[i] # e) => Augmented(a, t, p, k)[e] = a[e]
<1>1. /\ k \in Nat /\ \A i, j \in 1 .. k : t[i] = t[j] => i = j
      /\ \A i \in 1 .. k : t[i] \in Ingresses /\ p[i] \in Patterns
      /\ a \in [Ingresses -> Patterns \cup {None}]
  BY RouteFacts DEF Flow
<1>2. ASSUME NEW i \in 0 .. k
      PROVE  /\ \A j \in 1 .. i : Augmented(a, t, p, i)[t[j]] = p[j]
             /\ \A e \in Ingresses : (\A j \in 1 .. i : t[j] # e) => Augmented(a, t, p, i)[e] = a[e]
             /\ Augmented(a, t, p, i) \in [Ingresses -> Patterns \cup {None}]
             /\ DOMAIN Augmented(a, t, p, i) = Ingresses
  <2>1. 1 .. i \subseteq 1 .. k
    BY <1>1
  <2>2. \A e \in Ingresses : Augmented(a, t, p, i)[e] =
          IF \E j \in 1 .. i : t[j] = e THEN p[CHOOSE j \in 1 .. i : t[j] = e] ELSE a[e]
    BY DEF Augmented
  <2>3. \A j \in 1 .. i : Augmented(a, t, p, i)[t[j]] = p[j]
    <3> TAKE j \in 1 .. i
    <3>1. (CHOOSE m \in 1 .. i : t[m] = t[j]) = j
      BY <1>1, <2>1
    <3>2. t[j] \in Ingresses
      BY <1>1, <2>1
    <3> QED
      BY <2>2, <3>1, <3>2
  <2>4. \A e \in Ingresses : (\A j \in 1 .. i : t[j] # e) => Augmented(a, t, p, i)[e] = a[e]
    BY <2>2
  <2>5. \A e \in Ingresses : Augmented(a, t, p, i)[e] \in Patterns \cup {None}
    <3> TAKE e \in Ingresses
    <3>1. CASE \E j \in 1 .. i : t[j] = e
      BY <1>1, <2>1, <2>3, <3>1
    <3>2. CASE \A j \in 1 .. i : t[j] # e
      BY <1>1, <2>4, <3>2
    <3> QED
      BY <3>1, <3>2
  <2>6. DOMAIN Augmented(a, t, p, i) = Ingresses
        /\ Augmented(a, t, p, i) = [e \in Ingresses |-> Augmented(a, t, p, i)[e]]
    BY DEF Augmented
  <2>7. Augmented(a, t, p, i) \in [Ingresses -> Patterns \cup {None}]
    BY <2>5, <2>6
  <2> QED
    BY <2>3, <2>4, <2>6, <2>7
<1>3. Augmented(a, t, p, 0) = a
  <2>1. 0 \in 0 .. k /\ 1 .. 0 = {}
    BY <1>1
  <2>2. \A e \in Ingresses : Augmented(a, t, p, 0)[e] = a[e]
    BY <1>2, <2>1
  <2>3. Augmented(a, t, p, 0) \in [Ingresses -> Patterns \cup {None}]
    BY <1>2, <2>1
  <2> QED
    BY <1>1, <2>2, <2>3
<1>4. ASSUME NEW i \in 1 .. k
      PROVE  /\ Augmented(a, t, p, i) = [Augmented(a, t, p, i - 1) EXCEPT ![t[i]] = p[i]]
             /\ Augmented(a, t, p, i - 1)[t[i]] = a[t[i]]
  <2>1. i - 1 \in 0 .. k /\ i \in 0 .. k /\ i \in 1 .. i /\ i \in Nat
    BY <1>1
  <2>2. PICK b : b = Augmented(a, t, p, i - 1)
    OBVIOUS
  <2>3. PICK d : d = Augmented(a, t, p, i)
    OBVIOUS
  <2>4. /\ \A j \in 1 .. i - 1 : b[t[j]] = p[j]
        /\ \A e \in Ingresses : (\A j \in 1 .. i - 1 : t[j] # e) => b[e] = a[e]
        /\ b \in [Ingresses -> Patterns \cup {None}]
    BY <1>2, <2>1, <2>2
  <2>5. /\ \A j \in 1 .. i : d[t[j]] = p[j]
        /\ \A e \in Ingresses : (\A j \in 1 .. i : t[j] # e) => d[e] = a[e]
        /\ d \in [Ingresses -> Patterns \cup {None}]
    BY <1>2, <2>1, <2>3
  <2>6. \A j \in 1 .. i : j \in 1 .. k /\ (j = i \/ j \in 1 .. i - 1)
    BY <1>1
  <2>7. \A j \in 1 .. i - 1 : j \in 1 .. k /\ j # i /\ j \in 1 .. i
    BY <1>1
  <2>8. b[t[i]] = a[t[i]]
    BY <1>1, <2>4, <2>7
  <2>9. \A e \in Ingresses : e # t[i] => d[e] = b[e]
    <3> TAKE e \in Ingresses
    <3>1. CASE \E j \in 1 .. i - 1 : t[j] = e
      BY <2>4, <2>5, <2>7, <3>1
    <3>2. CASE \A j \in 1 .. i - 1 : t[j] # e
      BY <2>4, <2>5, <2>6, <3>2
    <3> QED
      BY <3>1, <3>2
  <2>10. d[t[i]] = p[i]
    BY <2>1, <2>5
  <2>11. d = [b EXCEPT ![t[i]] = p[i]]
    BY <2>4, <2>5, <2>9, <2>10
  <2> QED
    BY <2>2, <2>3, <2>8, <2>11
<1>5. k \in 0 .. k
  BY <1>1
<1> QED
  BY <1>2, <1>3, <1>4, <1>5

\* A route's first arc comes to a target without pattern, the next from the
\* pattern just filled: only the last pattern gains a unit.
LEMMA AugmentedLoads ==
  ASSUME NEW r, NEW c, Network(r, c), NEW a, Flow(r, a),
         NEW t, NEW p, NEW k, Route(r, a, t, p, k), NEW q \in Patterns
  PROVE  Load(Augmented(a, t, p, k), q) = IF q = p[k] THEN Load(a, q) + 1 ELSE Load(a, q)
<1>1. PICK f : f = [i \in 0 .. k |-> Augmented(a, t, p, i)]
  OBVIOUS
<1>2. /\ k \in Nat /\ k # 0 /\ \A i \in 0 .. k : f[i] = Augmented(a, t, p, i)
      /\ \A i \in 0 .. k : f[i] \in [Ingresses -> Patterns \cup {None}]
      /\ \A i \in 1 .. k : i - 1 \in 0 .. k /\ i \in 0 .. k
  BY <1>1, AugmentedSteps DEF Route
<1>3. f[0] = a /\ \A i \in 1 .. k : f[i] = [f[i - 1] EXCEPT ![t[i]] = p[i]]
                                    /\ f[i - 1][t[i]] = a[t[i]]
  BY <1>2, AugmentedSteps
<1>4. Load(a, q) \in Nat
  BY LoadType
<1> DEFINE Q == {i \in Nat : Load(f[i], q) = IF i # 0 /\ q = p[i] THEN Load(a, q) + 1
                                             ELSE Load(a, q)}
<1>5. 0 \in Q
  BY <1>3
<1>6. ASSUME NEW i \in 0 .. k, i # k, i \in Q PROVE i + 1 \in Q
  <2>1. PICK n \in 1 .. k : n = i + 1 /\ n \in Nat /\ n - 1 = i /\ n # 0
    BY <1>2, <1>6
  <2>2. /\ t[n] \in Ingresses /\ p[n] \in Patterns /\ f[i] \in [Ingresses -> Patterns \cup {None}]
        /\ f[n] = [f[i] EXCEPT ![t[n]] = p[n]] /\ f[i][t[n]] = a[t[n]]
    BY <1>2, <1>3, <2>1, RouteFacts
  <2>3. IF i = 0 THEN a[t[n]] = None ELSE a[t[n]] = p[i] /\ p[i] # p[n]
    <3>1. CASE i = 0
      <4>1. n = 1
        BY <2>1, <3>1
      <4> QED
        BY <3>1, <4>1 DEF Route
    <3>2. CASE i # 0
      <4>1. n \in 2 .. k /\ i \in 1 .. k /\ i # n
        BY <2>1, <3>2
      <4> QED
        BY <2>1, <3>2, <4>1 DEF Route
    <3> QED
      BY <3>1, <3>2
  <2>4. a[t[n]] # p[n]
    BY <2>2, <2>3, NumberFacts
  <2>5. PICK b : b = f[i]
    OBVIOUS
  <2>6. Load(f[n], q) = IF q = p[n] THEN Load(b, q) + 1
                        ELSE IF q = b[t[n]] THEN Load(b, q) - 1 ELSE Load(b, q)
    BY <2>2, <2>4, <2>5, LoadChange
  <2>7. Load(b, q) = IF i # 0 /\ q = p[i] THEN Load(a, q) + 1 ELSE Load(a, q)
    BY <1>6, <2>5
  <2>8. b[t[n]] = IF i = 0 THEN None ELSE p[i]
    BY <2>2, <2>3, <2>5
  <2>9. Load(f[n], q) = IF q = p[n] THEN Load(a, q) + 1 ELSE Load(a, q)
    <3>1. CASE i = 0
      BY <2>6, <2>7, <2>8, <3>1, NumberFacts
    <3>2. CASE i # 0
      <4>1. p[i] # p[n]
        BY <2>3, <3>2
      <4>2. CASE q = p[i]
        <5>1. Load(b, q) = Load(a, q) + 1 /\ q # p[n] /\ q = b[t[n]]
          BY <2>7, <2>8, <3>2, <4>1, <4>2
        <5>2. Load(f[n], q) = Load(b, q) - 1
          BY <2>6, <5>1
        <5> QED
          BY <1>4, <5>1, <5>2
      <4>3. CASE q # p[i]
        BY <2>6, <2>7, <2>8, <3>2, <4>3
      <4> QED
        BY <4>2, <4>3
    <3> QED
      BY <3>1, <3>2
  <2> QED
    BY <2>1, <2>9
<1>7. k \in Q
  <2> HIDE DEF Q
  <2> QED
    BY <1>2, <1>5, <1>6, InductionTo
<1>8. k \in 0 .. k
  BY <1>2
<1> QED
  BY <1>2, <1>7, <1>8

\* Augmenting stays on the edges and serves one target more.
LEMMA AugmentedFlow ==
  ASSUME NEW r, NEW c, Network(r, c), NEW a, Flow(r, a),
         NEW t, NEW p, NEW k, Route(r, a, t, p, k)
  PROVE  Flow(r, Augmented(a, t, p, k))
<1>1. PICK b : b = Augmented(a, t, p, k)
  OBVIOUS
<1>2. k \in 0 .. k
  BY RouteFacts
<1>3. /\ b \in [Ingresses -> Patterns \cup {None}]
      /\ \A i \in 1 .. k : b[t[i]] = p[i]
      /\ \A e \in Ingresses : (\A i \in 1 .. k : t[i] # e) => b[e] = a[e]
  BY <1>1, <1>2, AugmentedSteps
<1>4. \A i \in 1 .. k : p[i] \in DOMAIN r[t[i]]
  BY RouteFacts
<1> QED
  BY <1>1, <1>3, <1>4 DEF Flow

\* A shortest route keeps the flow supported by prices: those at which its first
\* target pays most.
LEMMA ShortestKeepsPrices ==
  ASSUME NEW r, NEW c, Network(r, c), NEW a, Flow(r, a), NEW y0, Prices(r, c, a, y0),
         NEW t, NEW p, NEW k, Route(r, a, t, p, k),
         \A t2, p2, k2 : Route(r, a, t2, p2, k2) /\ t2[1] = t[1] =>
           RouteCost(r, c, a, t, p, k) <= RouteCost(r, c, a, t2, p2, k2)
  PROVE  \E y : Prices(r, c, Augmented(a, t, p, k), y)
<1>1. PICK e \in Ingresses : e = t[1]
  BY RouteFacts
<1>2. DOMAIN r[e] # {} /\ a[e] = None /\ k \in Nat /\ 1 \in 1 .. k
  BY <1>1, RouteFacts DEF Route
<1>3. PICK u \in Nat : \E y : /\ Prices(r, c, a, y) /\ Bid(r, y, e, u)
                              /\ \A v \in Nat : \A z :
                                   Prices(r, c, a, z) /\ Bid(r, z, e, v) => v <= u
  BY <1>2, HighestPrices
<1>4. PICK y : /\ Prices(r, c, a, y) /\ Bid(r, y, e, u)
               /\ \A v \in Nat : \A z : Prices(r, c, a, z) /\ Bid(r, z, e, v) => v <= u
  BY <1>3
<1>5. PICK t2, p2, k2 : /\ Route(r, a, t2, p2, k2) /\ t2[1] = e
                        /\ Tight(r, y, u, t2, p2, k2) /\ y[p2[k2]] = c[Load(a, p2[k2])]
  BY <1>2, <1>4, TightRouteEnds
<1>6. RouteCost(r, c, a, t2, p2, k2) = u
  BY <1>4, <1>5, TightCost
<1>7. RouteCost(r, c, a, t, p, k) <= u
  BY <1>1, <1>5, <1>6
<1>8. Tight(r, y, u, t, p, k) /\ y[p[k]] = c[Load(a, p[k])]
  <2>1. \A q \in DOMAIN r[t[1]] : u <= r[t[1]][q] + y[q]
    BY <1>1, <1>4 DEF Bid
  <2> QED
    BY <1>4, <1>7, <2>1, CheapIsTight
<1>9. PICK b : b = Augmented(a, t, p, k)
  OBVIOUS
<1>10. /\ b \in [Ingresses -> Patterns \cup {None}]
       /\ \A i \in 1 .. k : b[t[i]] = p[i]
       /\ \A d \in Ingresses : (\A i \in 1 .. k : t[i] # d) => b[d] = a[d]
  <2>1. k \in 0 .. k
    BY <1>2
  <2> QED
    BY <1>9, <2>1, AugmentedSteps
<1>11. y \in [Patterns -> Nat]
  BY <1>4 DEF Prices
<1>12. ASSUME NEW i \in 1 .. k, NEW q \in DOMAIN r[t[i]]
       PROVE  r[t[i]][p[i]] + y[p[i]] <= r[t[i]][q] + y[q]
  <2>1. CASE i = 1
    BY <1>1, <1>4, <1>8, <2>1 DEF Tight, Bid
  <2>2. CASE i # 1
    <3>1. i \in 2 .. k
      BY <1>2, <2>2
    <3>2. r[t[i]][p[i - 1]] + y[p[i - 1]] = r[t[i]][p[i]] + y[p[i]]
      BY <1>8, <3>1 DEF Tight
    <3>3. t[i] \in Ingresses /\ a[t[i]] = p[i - 1] /\ p[i - 1] \in Patterns
      BY <2>2, RouteFacts
    <3>4. r[t[i]][p[i - 1]] + y[p[i - 1]] <= r[t[i]][q] + y[q]
      BY <1>4, <3>3, NumberFacts DEF Prices
    <3> QED
      BY <3>2, <3>4
  <2> QED
    BY <2>1, <2>2
<1>13. ASSUME NEW d \in Ingresses, b[d] # None, NEW q \in DOMAIN r[d]
       PROVE  r[d][b[d]] + y[b[d]] <= r[d][q] + y[q]
  <2>1. CASE \E i \in 1 .. k : t[i] = d
    BY <1>10, <1>12, <2>1
  <2>2. CASE \A i \in 1 .. k : t[i] # d
    <3>1. b[d] = a[d]
      BY <1>10, <2>2
    <3> QED
      BY <1>4, <1>13, <3>1 DEF Prices
  <2> QED
    BY <2>1, <2>2
<1>14. ASSUME NEW q \in Patterns
       PROVE  /\ y[q] <= c[Load(b, q)]
              /\ \A j \in Nat : j < Load(b, q) => c[j] <= y[q]
  <2>1. PICK m \in Nat : m = Load(a, q)
    BY LoadType
  <2>2. y[q] <= c[m] /\ \A j \in Nat : j < m => c[j] <= y[q]
    BY <1>4, <2>1 DEF Prices
  <2>3. Load(b, q) = IF q = p[k] THEN m + 1 ELSE m
    BY <1>9, <2>1, AugmentedLoads
  <2>4. CASE q = p[k]
    <3>1. y[q] = c[m]
      BY <1>8, <2>1, <2>4
    <3>2. \A j \in Nat : j <= m => c[j] <= c[m]
      BY DEF Network
    <3>3. c[m] <= c[m + 1]
      BY DEF Network
    <3>4. \A j \in Nat : j < m + 1 => j <= m
      OBVIOUS
    <3> QED
      BY <2>3, <2>4, <3>1, <3>2, <3>3, <3>4
  <2>5. CASE q # p[k]
    BY <2>2, <2>3, <2>5
  <2> QED
    BY <2>4, <2>5
<1> QED
  BY <1>9, <1>11, <1>13, <1>14 DEF Prices

-----------------------------------------------------------------------------
\* A priced flow is the cheapest that serves its targets.

\* The targets before e, or up to j, with a pattern.
Earlier(b, e) == Cardinality({d \in Ingresses : d < e /\ b[d] = b[e]})
Upto(b, q, j) == Cardinality({d \in Ingresses : d <= j /\ b[d] = q})

\* What each target of an assignment costs: its edge and its unit of the pattern.
Paid(r, c, b) ==
  [e \in Ingresses |-> IF b[e] = None THEN 0 ELSE r[e][b[e]] + c[Earlier(b, e)]]

\* What the units of a pattern cost beyond the price v.
Surplus(c, v) == [k \in Nat |-> c[k - 1] - v]

\* What the targets' units, and those of the patterns, cost beyond the prices y.
TargetSurplus(c, y, b) ==
  [e \in Ingresses |-> IF b[e] = None THEN 0 ELSE c[Earlier(b, e)] - y[b[e]]]
PatternSurplus(c, y, b) == [q \in Patterns |-> Total(Surplus(c, y[q]), Load(b, q))]

\* A sum of zeros.
LEMMA TotalZero ==
  ASSUME NEW n \in Nat, NEW f, \A i \in 1 .. n : f[i] = 0
  PROVE  Total(f, n) = 0
<1>1. \A i \in 1 .. n : f[i] \in Int /\ f[i] = f[i] + 1 * f[i]
  OBVIOUS
<1>2. Total(f, n) = Total(f, n) + 1 * Total(f, n)
  BY <1>1, TotalPlus
<1>3. Total(f, n) \in Int
  <2>1. n \in 0 .. n
    OBVIOUS
  <2> QED
    BY <1>1, <2>1, TotalUnfolds
<1> QED
  BY <1>2, <1>3

\* The surplus of a pattern's units, one unit at a time.
LEMMA SurplusUnfolds ==
  ASSUME NEW c \in [Nat -> Nat], NEW v \in Nat
  PROVE  /\ Total(Surplus(c, v), 0) = 0
         /\ \A l \in Nat : /\ Total(Surplus(c, v), l) \in Int
                           /\ Total(Surplus(c, v), l + 1) = Total(Surplus(c, v), l) + c[l] - v
<1>1. PICK f : f = Surplus(c, v)
  OBVIOUS
<1>2. \A l \in Nat : f[l + 1] = c[l] - v /\ f[l + 1] \in Int
  <2> TAKE l \in Nat
  <2>1. l + 1 \in Nat /\ (l + 1) - 1 = l
    OBVIOUS
  <2>2. c[l] \in Nat
    OBVIOUS
  <2>3. f[l + 1] = c[l] - v
    BY <1>1, <2>1 DEF Surplus
  <2> QED
    BY <2>2, <2>3
<1>3. \A n \in Nat : \A i \in 1 .. n : f[i] \in Int
  <2> TAKE n \in Nat
  <2> TAKE i \in 1 .. n
  <2>1. i - 1 \in Nat /\ (i - 1) + 1 = i
    OBVIOUS
  <2>2. f[(i - 1) + 1] \in Int
    BY <1>2, <2>1
  <2> QED
    BY <2>1, <2>2
<1>4. Total(f, 0) = 0
  BY <1>3, TotalUnfolds
<1>5. ASSUME NEW l \in Nat
      PROVE  Total(f, l) \in Int /\ Total(f, l + 1) = Total(f, l) + c[l] - v
  <2>1. PICK n \in Nat : n = l + 1
    OBVIOUS
  <2>2. /\ \A i \in 0 .. n : Total(f, i) \in Int
        /\ \A i \in 1 .. n : Total(f, i) = Total(f, i - 1) + f[i]
    BY <1>3, TotalUnfolds
  <2>3. l \in 0 .. n /\ l + 1 \in 1 .. n /\ (l + 1) - 1 = l
    BY <2>1
  <2>4. Total(f, l) \in Int /\ Total(f, l + 1) = Total(f, l) + f[l + 1]
    BY <2>2, <2>3
  <2>5. f[l + 1] = c[l] - v /\ c[l] \in Int
    BY <1>2
  <2> QED
    BY <2>4, <2>5
<1> QED
  BY <1>1, <1>4, <1>5

\* The surplus is least where the price lies between the last and the next unit.
LEMMA SurplusLeast ==
  ASSUME NEW c \in [Nat -> Nat], \A j, k \in Nat : j <= k => c[j] <= c[k],
         NEW v \in Nat, NEW m \in Nat, v <= c[m], \A j \in Nat : j < m => c[j] <= v,
         NEW l \in Nat
  PROVE  Total(Surplus(c, v), m) <= Total(Surplus(c, v), l)
<1>1. PICK h : h = [i \in Nat |-> Total(Surplus(c, v), i)]
  OBVIOUS
<1>2. \A i \in Nat : h[i] \in Int /\ h[i + 1] = h[i] + c[i] - v /\ c[i] \in Nat
  BY <1>1, SurplusUnfolds
<1>3. CASE m <= l
  <2> DEFINE Q == {i \in Nat : h[m] <= h[m + i]}
  <2>1. 0 \in Q
    BY <1>2
  <2>2. ASSUME NEW i \in 0 .. l - m, i # l - m, i \in Q PROVE i + 1 \in Q
    <3>1. m + i \in Nat /\ m + (i + 1) = (m + i) + 1 /\ m <= m + i /\ i + 1 \in Nat
      OBVIOUS
    <3>2. h[m] <= h[m + i] /\ h[(m + i) + 1] = h[m + i] + c[m + i] - v
      BY <1>2, <2>2, <3>1
    <3>3. c[m] <= c[m + i] /\ c[m] \in Nat /\ c[m + i] \in Nat /\ h[m + i] \in Int /\ h[m] \in Int
      BY <1>2, <3>1
    <3>4. h[m] <= h[(m + i) + 1]
      BY <3>2, <3>3
    <3> QED
      BY <3>1, <3>4
  <2>3. l - m \in Nat
    BY <1>3
  <2>4. l - m \in Q
    <3> HIDE DEF Q
    <3> QED
      BY <2>1, <2>2, <2>3, InductionTo
  <2>5. m + (l - m) = l
    OBVIOUS
  <2> QED
    BY <1>1, <2>4, <2>5
<1>4. CASE l < m
  <2> DEFINE Q == {i \in Nat : i <= m => h[m] <= h[m - i]}
  <2>1. 0 \in Q
    BY <1>2
  <2>2. ASSUME NEW i \in 0 .. m - l, i # m - l, i \in Q PROVE i + 1 \in Q
    <3>1. PICK k \in Nat : /\ k = m - (i + 1) /\ m - i = k + 1 /\ k < m
                           /\ i <= m /\ i + 1 \in Nat
      BY <1>4, <2>2
    <3>2. h[m] <= h[k + 1] /\ h[k + 1] = h[k] + c[k] - v
      BY <1>2, <2>2, <3>1
    <3>3. c[k] <= v /\ c[k] \in Nat /\ h[k] \in Int
      BY <1>2, <3>1
    <3>4. h[m] \in Int /\ h[k + 1] \in Int
      BY <1>2
    <3>5. h[m] <= h[k]
      BY <3>2, <3>3, <3>4
    <3> QED
      BY <3>1, <3>5
  <2>3. m - l \in Nat
    BY <1>4
  <2>4. m - l \in Q
    <3> HIDE DEF Q
    <3> QED
      BY <2>1, <2>2, <2>3, InductionTo
  <2>5. m - (m - l) = l /\ m - l <= m
    OBVIOUS
  <2> QED
    BY <1>1, <2>4, <2>5
<1> QED
  BY <1>3, <1>4

\* The targets of a pattern, counted up to one of them.
LEMMA UptoFacts ==
  ASSUME NEW b, NEW q
  PROVE  /\ \A j \in Nat : Upto(b, q, j) \in Nat
         /\ Upto(b, q, 0) = 0
         /\ Upto(b, q, LastIngress) = Load(b, q)
<1>1. ASSUME NEW j \in Nat PROVE Upto(b, q, j) \in Nat
  <2> DEFINE S == {d \in Ingresses : d <= j /\ b[d] = q}
  <2>1. S \in SUBSET Ingresses
    OBVIOUS
  <2> HIDE DEF S
  <2>2. IsFiniteSet(S)
    BY <2>1, NumberFacts, FS_Subset
  <2>3. Cardinality(S) \in Nat
    BY <2>2, FS_CardinalityType
  <2> QED
    BY <2>3 DEF S, Upto
<1>2. Upto(b, q, 0) = 0
  <2>1. {d \in Ingresses : d <= 0 /\ b[d] = q} = {}
    BY NumberFacts
  <2> QED
    BY <2>1, FS_EmptySet DEF Upto
<1>3. Upto(b, q, LastIngress) = Load(b, q)
  <2>1. {d \in Ingresses : d <= LastIngress /\ b[d] = q} = {d \in Ingresses : b[d] = q}
    BY NumberFacts
  <2> QED
    BY <2>1 DEF Upto, Load
<1> QED
  BY <1>1, <1>2, <1>3

\* Counting one target more.
LEMMA UptoStep ==
  ASSUME NEW b, NEW j \in Nat, j + 1 \in Ingresses, NEW q
  PROVE  Upto(b, q, j + 1) = IF b[j + 1] = q THEN Upto(b, q, j) + 1 ELSE Upto(b, q, j)
<1> DEFINE S == {d \in Ingresses : d <= j /\ b[d] = q}
           T == {d \in Ingresses : d <= j + 1 /\ b[d] = q}
<1>1. \A d \in Ingresses : d <= j + 1 <=> (d <= j \/ d = j + 1)
  BY NumberFacts
<1>2. j + 1 \notin S
  OBVIOUS
<1>3. CASE b[j + 1] = q
  <2>1. T = S \cup {j + 1}
    BY <1>1, <1>3
  <2>2. S \in SUBSET Ingresses
    OBVIOUS
  <2> HIDE DEF S, T
  <2>3. IsFiniteSet(S)
    BY <2>2, NumberFacts, FS_Subset
  <2>4. Cardinality(T) = Cardinality(S) + 1
    BY <1>2, <2>1, <2>3, FS_AddElement
  <2> QED
    BY <1>3, <2>4 DEF S, T, Upto
<1>4. CASE b[j + 1] # q
  <2>1. T = S
    BY <1>1, <1>4
  <2> HIDE DEF S, T
  <2>2. Cardinality(T) = Cardinality(S)
    BY <2>1
  <2> QED
    BY <1>4, <2>2 DEF S, T, Upto
<1> QED
  BY <1>3, <1>4

\* The targets of its pattern before a target.
LEMMA EarlierIsUpto ==
  ASSUME NEW b, NEW j \in Nat, j + 1 \in Ingresses
  PROVE  Earlier(b, j + 1) = Upto(b, b[j + 1], j)
<1>1. \A d \in Ingresses : d < j + 1 <=> d <= j
  BY NumberFacts
<1>2. {d \in Ingresses : d < j + 1 /\ b[d] = b[j + 1]}
        = {d \in Ingresses : d <= j /\ b[d] = b[j + 1]}
  BY <1>1
<1> QED
  BY <1>2 DEF Earlier, Upto

\* The targets before another at its pattern are counted by a number.
LEMMA EarlierType ==
  ASSUME NEW b, NEW e \in Ingresses
  PROVE  Earlier(b, e) \in Nat /\ IsFiniteSet({d \in Ingresses : d < e /\ b[d] = b[e]})
<1> DEFINE S == {d \in Ingresses : d < e /\ b[d] = b[e]}
<1>1. S \in SUBSET Ingresses
  OBVIOUS
<1> HIDE DEF S
<1>2. IsFiniteSet(S)
  BY <1>1, NumberFacts, FS_Subset
<1>3. Cardinality(S) \in Nat
  BY <1>2, FS_CardinalityType
<1> QED
  BY <1>2, <1>3 DEF S, Earlier

\* The surplus of an assignment, target by target or pattern by pattern.
LEMMA SurplusByPattern ==
  ASSUME NEW r, NEW c, Network(r, c), NEW a, NEW y, Prices(r, c, a, y), NEW b, Flow(r, b)
  PROVE  Total(TargetSurplus(c, y, b), LastIngress) = Total(PatternSurplus(c, y, b), LastPattern)
<1>1. PICK n \in Nat : n = LastIngress
  BY NumberFacts
<1>2. PICK m \in Nat : m = LastPattern
  BY NumberFacts
<1>c. ASSUME NEW ga, NEW gb, NEW q \in 1 .. m,
             \A i \in 1 .. m : ga[i] \in Int /\ gb[i] \in Int /\ (i # q => gb[i] = ga[i])
      PROVE  Total(gb, m) = Total(ga, m) - ga[q] + gb[q]
  BY <1>c, TotalChange
<1>3. Ingresses = 1 .. n /\ Patterns = 1 .. m
  BY <1>1, <1>2, NumberFacts
<1>t. c \in [Nat -> Nat] /\ y \in [Patterns -> Nat] /\ b \in [Ingresses -> Patterns \cup {None}]
  BY DEF Network, Prices, Flow
<1>f. PICK f : f = TargetSurplus(c, y, b)
  OBVIOUS
<1>g. PICK g : g = PatternSurplus(c, y, b)
  OBVIOUS
<1>4. PICK G : G = [j \in Nat |-> [q \in Patterns |-> Total(Surplus(c, y[q]), Upto(b, q, j))]]
  OBVIOUS
<1>5. \A j \in Nat : \A q \in Patterns : /\ G[j][q] = Total(Surplus(c, y[q]), Upto(b, q, j))
                                         /\ G[j][q] \in Int
  <2> TAKE j \in Nat
  <2> TAKE q \in Patterns
  <2>1. Upto(b, q, j) \in Nat
    BY UptoFacts
  <2>2. y[q] \in Nat
    BY <1>t
  <2>3. Total(Surplus(c, y[q]), Upto(b, q, j)) \in Int
    BY <1>t, <2>1, <2>2, SurplusUnfolds
  <2> QED
    BY <1>4, <2>3
<1>6. \A i \in 1 .. n : f[i] \in Int
  <2> TAKE i \in 1 .. n
  <2>1. i \in Ingresses /\ Earlier(b, i) \in Nat
    BY <1>3, EarlierType
  <2>2. c[Earlier(b, i)] \in Nat /\ (b[i] # None => y[b[i]] \in Nat)
    BY <1>3, <1>t, <2>1
  <2>3. f[i] = IF b[i] = None THEN 0 ELSE c[Earlier(b, i)] - y[b[i]]
    BY <1>f, <2>1 DEF TargetSurplus
  <2> QED
    BY <2>2, <2>3
<1>7. /\ Total(f, 0) = 0 /\ \A i \in 0 .. n : Total(f, i) \in Int
      /\ \A i \in 1 .. n : Total(f, i) = Total(f, i - 1) + f[i]
  BY <1>6, TotalUnfolds
<1> DEFINE Q == {j \in Nat : Total(f, j) = Total(G[j], m)}
<1>8. 0 \in Q
  <2>1. \A q \in 1 .. m : G[0][q] = 0
    <3> TAKE q \in 1 .. m
    <3>1. Upto(b, q, 0) = 0
      BY UptoFacts
    <3>2. q \in Patterns /\ y[q] \in Nat
      BY <1>3, <1>t
    <3>3. Total(Surplus(c, y[q]), 0) = 0
      BY <1>t, <3>2, SurplusUnfolds
    <3> QED
      BY <1>5, <3>1, <3>2, <3>3
  <2>2. Total(G[0], m) = 0
    BY <2>1, TotalZero
  <2> QED
    BY <1>7, <2>2
<1>9. ASSUME NEW j \in 0 .. n, j # n, j \in Q PROVE j + 1 \in Q
  <2>0. j # n
    BY <1>9
  <2>1. /\ j \in Nat /\ j + 1 \in Nat /\ j + 1 \in 1 .. n /\ (j + 1) - 1 = j
        /\ j + 1 \in Ingresses
    <3>1. j + 1 \in 1 .. n
      BY <2>0
    <3>2. j + 1 \in Ingresses
      BY <1>3, <3>1
    <3> QED
      BY <3>1, <3>2
  <2>2. Total(f, j + 1) = Total(f, j) + f[j + 1] /\ Total(f, j) = Total(G[j], m)
    BY <1>7, <1>9, <2>1
  <2>3. \A q \in 1 .. m : b[j + 1] # q => G[j + 1][q] = G[j][q]
    <3> TAKE q \in 1 .. m
    <3>1. b[j + 1] # q => Upto(b, q, j + 1) = Upto(b, q, j)
      BY <2>1, UptoStep
    <3> QED
      BY <1>3, <1>5, <2>1, <3>1
  <2>4. \A q \in 1 .. m : G[j][q] \in Int /\ G[j + 1][q] \in Int
    BY <1>3, <1>5, <2>1
  <2>5. CASE b[j + 1] = None
    <3>1. \A q \in 1 .. m : b[j + 1] # q
      BY <1>3, <2>5, NumberFacts
    <3>2. Total(G[j], m) = Total(G[j + 1], m)
      BY <2>3, <2>4, <3>1, TotalSame
    <3>3. f[j + 1] = 0
      BY <1>f, <2>1, <2>5 DEF TargetSurplus
    <3>4. Total(f, j) \in Int
      BY <1>7
    <3> QED
      BY <2>1, <2>2, <3>2, <3>3, <3>4
  <2>6. CASE b[j + 1] # None
    <3>1. PICK q \in 1 .. m : q = b[j + 1]
      BY <1>3, <1>t, <2>1, <2>6
    <3>2. PICK k \in Nat : k = Upto(b, q, j)
      BY <2>1, UptoFacts
    <3>3. Upto(b, q, j + 1) = k + 1 /\ Earlier(b, j + 1) = k
      BY <2>1, <3>1, <3>2, UptoStep, EarlierIsUpto
    <3>4. y[q] \in Nat
      BY <1>3, <1>t
    <3>5. G[j][q] = Total(Surplus(c, y[q]), k) /\ G[j + 1][q] = Total(Surplus(c, y[q]), k + 1)
      BY <1>3, <1>5, <2>1, <3>2, <3>3
    <3>6. Total(Surplus(c, y[q]), k + 1) = Total(Surplus(c, y[q]), k) + c[k] - y[q]
      BY <1>t, <3>4, SurplusUnfolds
    <3>7. f[j + 1] = c[k] - y[q]
      BY <1>f, <2>1, <2>6, <3>1, <3>3 DEF TargetSurplus
    <3>8. Total(G[j + 1], m) = Total(G[j], m) - G[j][q] + G[j + 1][q]
      <4>1. PICK ga : ga = G[j]
        OBVIOUS
      <4>2. PICK gb : gb = G[j + 1]
        OBVIOUS
      <4>3. \A i \in 1 .. m : ga[i] \in Int /\ gb[i] \in Int /\ (i # q => gb[i] = ga[i])
        BY <2>3, <2>4, <3>1, <4>1, <4>2
      <4>4. Total(gb, m) = Total(ga, m) - ga[q] + gb[q]
        BY <1>c, <4>3
      <4> QED
        BY <4>1, <4>2, <4>4
    <3>9. Total(f, j) \in Int /\ G[j][q] \in Int /\ c[k] \in Nat
      BY <1>7, <1>t, <2>4
    <3>10. Total(f, j + 1) = Total(G[j + 1], m)
      BY <2>2, <3>4, <3>5, <3>6, <3>7, <3>8, <3>9
    <3> QED
      BY <2>1, <3>10
  <2> QED
    BY <2>5, <2>6
<1>10. n \in Q
  <2> HIDE DEF Q
  <2> QED
    BY <1>8, <1>9, InductionTo
<1>11. Total(g, m) = Total(G[n], m)
  <2>1. \A q \in 1 .. m : G[n][q] \in Int /\ g[q] = G[n][q]
    <3> TAKE q \in 1 .. m
    <3>1. Upto(b, q, n) = Load(b, q)
      BY <1>1, UptoFacts
    <3>2. q \in Patterns
      BY <1>3
    <3>3. G[n][q] = Total(Surplus(c, y[q]), Upto(b, q, n)) /\ G[n][q] \in Int
      BY <1>5, <3>2
    <3>4. g[q] = Total(Surplus(c, y[q]), Load(b, q))
      BY <1>g, <3>2 DEF PatternSurplus
    <3> QED
      BY <3>1, <3>3, <3>4
  <2> QED
    BY <2>1, TotalSame
<1> QED
  BY <1>1, <1>2, <1>f, <1>g, <1>10, <1>11

\* A flow with supporting prices costs no more than any other assignment of the
\* same targets.
THEOREM PricedIsCheapest ==
  ASSUME NEW r, NEW c, Network(r, c), NEW a, Flow(r, a), NEW y, Prices(r, c, a, y),
         NEW b, Flow(r, b), \A e \in Ingresses : b[e] = None <=> a[e] = None
  PROVE  Total(Paid(r, c, a), LastIngress) <= Total(Paid(r, c, b), LastIngress)
<1>1. /\ LastIngress \in Nat /\ Ingresses = 1 .. LastIngress
      /\ LastPattern \in Nat /\ Patterns = 1 .. LastPattern
  BY NumberFacts
<1>2. /\ c \in [Nat -> Nat] /\ \A j, k \in Nat : j <= k => c[j] <= c[k]
      /\ y \in [Patterns -> Nat]
  BY DEF Network, Prices
<1> DEFINE F(x) == TargetSurplus(c, y, x)
           R(x) == [e \in Ingresses |-> IF x[e] = None THEN 0 ELSE r[e][x[e]] + y[x[e]]]
           G(x) == PatternSurplus(c, y, x)
<1>3. ASSUME NEW x, Flow(r, x)
      PROVE  /\ Total(Paid(r, c, x), LastIngress)
                  = Total(R(x), LastIngress) + 1 * Total(G(x), LastPattern)
             /\ \A e \in Ingresses : R(x)[e] \in Int
  <2>1. x \in [Ingresses -> Patterns \cup {None}]
    BY <1>3 DEF Flow
  <2>2. Total(F(x), LastIngress) = Total(G(x), LastPattern)
    BY <1>3, SurplusByPattern
  <2>3. ASSUME NEW e \in Ingresses
        PROVE  /\ R(x)[e] \in Int /\ F(x)[e] \in Int
               /\ Paid(r, c, x)[e] = R(x)[e] + 1 * F(x)[e]
    <3>1. CASE x[e] = None
      <4>1. R(x)[e] = 0 /\ F(x)[e] = 0 /\ Paid(r, c, x)[e] = 0
        BY <3>1 DEF Paid, TargetSurplus
      <4> QED
        BY <4>1
    <3>2. CASE x[e] # None
      <4>1. /\ R(x)[e] = r[e][x[e]] + y[x[e]] /\ F(x)[e] = c[Earlier(x, e)] - y[x[e]]
            /\ Paid(r, c, x)[e] = r[e][x[e]] + c[Earlier(x, e)]
        BY <3>2 DEF Paid, TargetSurplus
      <4>2. r[e][x[e]] \in Nat /\ y[x[e]] \in Nat /\ c[Earlier(x, e)] \in Nat
        BY <1>2, <1>3, <3>2, EarlierType DEF Flow, Network
      <4> HIDE DEF R, F
      <4> QED
        BY <4>1, <4>2
    <3> QED
      BY <3>1, <3>2
  <2> HIDE DEF F, R, G
  <2>4. Total(Paid(r, c, x), LastIngress)
          = Total(R(x), LastIngress) + 1 * Total(F(x), LastIngress)
    <3>1. PICK n \in Nat : n = LastIngress
      BY <1>1
    <3>2. PICK f : f = R(x)
      OBVIOUS
    <3>3. PICK g : g = F(x)
      OBVIOUS
    <3>4. PICK h : h = Paid(r, c, x)
      OBVIOUS
    <3>5. \A i \in 1 .. n : f[i] \in Int /\ g[i] \in Int /\ h[i] = f[i] + 1 * g[i]
      BY <1>1, <2>3, <3>1, <3>2, <3>3, <3>4
    <3>6. Total(h, n) = Total(f, n) + 1 * Total(g, n)
      BY <3>5, TotalPlus
    <3> QED
      BY <3>1, <3>2, <3>3, <3>4, <3>6
  <2> QED
    BY <2>2, <2>3, <2>4
<1>4. Total(R(a), LastIngress) <= Total(R(b), LastIngress)
  <2>1. \A e \in Ingresses : R(a)[e] <= R(b)[e]
    <3> TAKE e \in Ingresses
    <3>1. CASE a[e] = None
      <4>1. R(a)[e] = 0 /\ R(b)[e] = 0
        BY <3>1
      <4> QED
        BY <4>1
    <3>2. CASE a[e] # None
      <4>1. R(a)[e] = r[e][a[e]] + y[a[e]] /\ R(b)[e] = r[e][b[e]] + y[b[e]]
        BY <3>2
      <4>2. b[e] \in DOMAIN r[e]
        BY <3>2 DEF Flow
      <4> QED
        BY <3>2, <4>1, <4>2 DEF Prices
    <3> QED
      BY <3>1, <3>2
  <2>2. \A e \in Ingresses : R(a)[e] \in Int /\ R(b)[e] \in Int
    BY <1>3
  <2> HIDE DEF R
  <2> QED
    BY <1>1, <2>1, <2>2, TotalMonotone
<1>5. Total(G(a), LastPattern) <= Total(G(b), LastPattern)
  <2>1. \A q \in Patterns : /\ G(a)[q] \in Int /\ G(b)[q] \in Int
                            /\ G(a)[q] <= G(b)[q]
    <3> TAKE q \in Patterns
    <3>1. PICK m \in Nat : m = Load(a, q)
      BY LoadType
    <3>2. PICK l \in Nat : l = Load(b, q)
      BY LoadType
    <3>3. PICK v \in Nat : v = y[q]
      BY <1>2
    <3>4. G(a)[q] = Total(Surplus(c, v), m) /\ G(b)[q] = Total(Surplus(c, v), l)
      BY <3>1, <3>2, <3>3 DEF PatternSurplus
    <3>5. v <= c[m] /\ \A j \in Nat : j < m => c[j] <= v
      BY <3>1, <3>3 DEF Prices
    <3> HIDE DEF G
    <3>6. Total(Surplus(c, v), m) <= Total(Surplus(c, v), l)
      BY <1>2, <3>5, SurplusLeast
    <3>7. Total(Surplus(c, v), m) \in Int /\ Total(Surplus(c, v), l) \in Int
      BY <1>2, SurplusUnfolds
    <3> QED
      BY <3>4, <3>6, <3>7
  <2> HIDE DEF G
  <2> QED
    BY <1>1, <2>1, TotalMonotone
<1>6. /\ Total(R(a), LastIngress) \in Int /\ Total(R(b), LastIngress) \in Int
      /\ Total(G(a), LastPattern) \in Int /\ Total(G(b), LastPattern) \in Int
  <2>1. ASSUME NEW x, Flow(r, x)
        PROVE  Total(R(x), LastIngress) \in Int /\ Total(G(x), LastPattern) \in Int
    <3>1. LastIngress \in 0 .. LastIngress /\ LastPattern \in 0 .. LastPattern
      BY <1>1
    <3>2. \A i \in 1 .. LastIngress : R(x)[i] \in Int
      BY <1>1, <1>3, <2>1
    <3>3. \A q \in 1 .. LastPattern : G(x)[q] \in Int
      <4> TAKE q \in 1 .. LastPattern
      <4>1. q \in Patterns /\ y[q] \in Nat /\ Load(x, q) \in Nat
        BY <1>1, <1>2, LoadType
      <4>2. Total(Surplus(c, y[q]), Load(x, q)) \in Int
        BY <1>2, <4>1, SurplusUnfolds
      <4> QED
        BY <4>1, <4>2 DEF PatternSurplus
    <3> HIDE DEF R, G
    <3> QED
      BY <1>1, <3>1, <3>2, <3>3, TotalUnfolds
  <2> HIDE DEF R, G
  <2> QED
    BY <2>1
<1>7. /\ Total(Paid(r, c, a), LastIngress) = Total(R(a), LastIngress) + 1 * Total(G(a), LastPattern)
      /\ Total(Paid(r, c, b), LastIngress) = Total(R(b), LastIngress) + 1 * Total(G(b), LastPattern)
  BY <1>3
<1> HIDE DEF R, G, F
<1> QED
  BY <1>4, <1>5, <1>6, <1>7

-----------------------------------------------------------------------------
\* Tie-breaks never outweigh a load.

\* The tie-break costs of an assignment.
Tie(r, b) == [e \in Ingresses |-> IF b[e] = None THEN 0 ELSE r[e][b[e]]]

\* Counting is a sum.
LEMMA TotalCounts ==
  ASSUME NEW n \in Nat, NEW X \in SUBSET (1 .. n), NEW f,
         \A i \in 1 .. n : f[i] = IF i \in X THEN 1 ELSE 0
  PROVE  Total(f, n) = Cardinality(X)
<1>0. \A i \in 1 .. n : f[i] \in Int
  OBVIOUS
<1>1. /\ Total(f, 0) = 0
      /\ \A i \in 1 .. n : Total(f, i) = Total(f, i - 1) + f[i]
  BY <1>0, TotalUnfolds
<1>2. IsFiniteSet(X)
  <2>1. IsFiniteSet(1 .. n)
    BY FS_Interval
  <2> QED
    BY <2>1, FS_Subset
<1>3. PICK S : S = [m \in 0 .. n |-> {x \in X : x <= m}]
  OBVIOUS
<1>4. \A m \in 0 .. n : S[m] = {x \in X : x <= m} /\ IsFiniteSet(S[m])
  <2> TAKE m \in 0 .. n
  <2>1. S[m] = {x \in X : x <= m} /\ S[m] \in SUBSET X
    BY <1>3
  <2> QED
    BY <1>2, <2>1, FS_Subset
<1>5. \A x \in X : x \in Nat /\ 1 <= x /\ x <= n
  OBVIOUS
<1> DEFINE Q == {m \in Nat : Total(f, m) = Cardinality(S[m])}
<1>6. 0 \in Q
  <2>1. 0 \in 0 .. n /\ \A x \in X : ~(x <= 0)
    BY <1>5
  <2>2. S[0] = {}
    BY <1>4, <2>1
  <2>3. Cardinality(S[0]) = 0
    BY <2>2, FS_EmptySet
  <2> QED
    BY <1>1, <2>3
<1>7. ASSUME NEW m \in 0 .. n, m # n, m \in Q PROVE m + 1 \in Q
  <2>1. m # n /\ Total(f, m) = Cardinality(S[m])
    BY <1>7
  <2>2. m + 1 \in 1 .. n /\ (m + 1) - 1 = m /\ m + 1 \in Nat /\ m + 1 \in 0 .. n
    BY <2>1
  <2>3. Total(f, m + 1) = Total(f, m) + f[m + 1]
    BY <1>1, <2>2
  <2>4. \A x \in X : x <= m + 1 <=> (x <= m \/ x = m + 1)
    BY <1>5
  <2>5. ~(m + 1 <= m)
    OBVIOUS
  <2>6. S[m] = {x \in X : x <= m} /\ S[m + 1] = {x \in X : x <= m + 1} /\ IsFiniteSet(S[m])
    BY <1>4, <2>2
  <2>7. CASE m + 1 \in X
    <3>1. S[m + 1] = S[m] \cup {m + 1} /\ m + 1 \notin S[m]
      <4>1. PICK d : d = m + 1
        OBVIOUS
      <4>2. S[d] = {x \in X : x <= d} /\ d \in X /\ ~(d <= m)
            /\ \A x \in X : x <= d <=> (x <= m \/ x = d)
        BY <2>4, <2>5, <2>6, <2>7, <4>1
      <4>3. S[d] = S[m] \cup {d} /\ d \notin S[m]
        BY <2>6, <4>2, Zenon
      <4> QED
        BY <4>1, <4>3
    <3>2. f[m + 1] = 1
      BY <2>2, <2>7
    <3>3. Cardinality(S[m + 1]) = Cardinality(S[m]) + 1
      <4>1. \A T, x : T = S[m] /\ x = m + 1 => Cardinality(T \cup {x}) = Cardinality(T) + 1
        BY <2>6, <3>1, FS_AddElement
      <4> QED
        BY <3>1, <4>1
    <3>4. Total(f, m + 1) = Cardinality(S[m + 1])
      BY <2>1, <2>3, <3>2, <3>3
    <3> QED
      BY <2>2, <3>4
  <2>8. CASE m + 1 \notin X
    <3>1. S[m + 1] = S[m]
      <4>1. \A x \in X : x <= m + 1 <=> x <= m
        BY <2>4, <2>8
      <4> QED
        BY <2>6, <4>1
    <3>2. f[m + 1] = 0
      BY <2>2, <2>8
    <3>3. PICK j \in Nat : j = Cardinality(S[m])
      BY <2>6, FS_CardinalityType
    <3>4. Total(f, m + 1) = Cardinality(S[m + 1])
      BY <2>1, <2>3, <3>1, <3>2, <3>3
    <3> QED
      BY <2>2, <3>4
  <2> QED
    BY <2>7, <2>8
<1>8. n \in Q
  <2> HIDE DEF Q
  <2> QED
    BY <1>6, <1>7, InductionTo
<1>9. S[n] = X
  <2>1. n \in 0 .. n /\ \A x \in X : x <= n
    BY <1>5
  <2> QED
    BY <1>4, <2>1
<1> QED
  BY <1>8, <1>9

\* Augmenting changes the tie-breaks by the arcs of the route.
LEMMA AugmentedTie ==
  ASSUME NEW r, NEW c, Network(r, c), NEW a, Flow(r, a),
         NEW t, NEW p, NEW k, Route(r, a, t, p, k)
  PROVE  Total(Tie(r, Augmented(a, t, p, k)), LastIngress)
           = Total(Tie(r, a), LastIngress) + Total(Arcs(r, t, p), k)
<1>1. PICK n \in Nat : n = LastIngress /\ Ingresses = 1 .. n
  BY NumberFacts
<1>2. PICK f : f = [i \in 0 .. k |-> Augmented(a, t, p, i)]
  OBVIOUS
<1>3. k \in Nat /\ k # 0 /\ \A i \in 1 .. k : i - 1 \in 0 .. k /\ i \in 0 .. k
  BY DEF Route
<1>4. /\ \A i \in 0 .. k : f[i] = Augmented(a, t, p, i)
      /\ f[0] = a
      /\ \A i \in 1 .. k : f[i] = [f[i - 1] EXCEPT ![t[i]] = p[i]] /\ f[i - 1][t[i]] = a[t[i]]
      /\ \A i \in 0 .. k : f[i] \in [Ingresses -> Patterns \cup {None}]
  <2>1. \A i \in 0 .. k : f[i] = Augmented(a, t, p, i)
    BY <1>2
  <2>2. 0 \in 0 .. k
    BY <1>3
  <2> QED
    BY <1>3, <2>1, <2>2, AugmentedSteps
<1>5. ASSUME NEW i \in 0 .. k PROVE Flow(r, f[i])
  <2>1. CASE i = 0
    BY <1>4, <2>1
  <2>2. CASE i # 0
    <3>1. i \in 1 .. k
      BY <2>2
    <3>2. Route(r, a, t, p, i)
      BY <3>1, RoutePrefix
    <3>3. Flow(r, Augmented(a, t, p, i))
      BY <3>2, AugmentedFlow
    <3> QED
      BY <1>4, <3>3
  <2> QED
    BY <2>1, <2>2
<1>6. ASSUME NEW i \in 0 .. k PROVE \A e \in 1 .. n : Tie(r, f[i])[e] \in Int
  <2> TAKE e \in 1 .. n
  <2>1. f[i][e] # None => r[e][f[i][e]] \in Nat
    BY <1>1, <1>5 DEF Flow, Network
  <2>2. Tie(r, f[i])[e] = IF f[i][e] = None THEN 0 ELSE r[e][f[i][e]]
    BY <1>1 DEF Tie
  <2> QED
    BY <2>1, <2>2
<1>7. PICK g : g = [i \in 0 .. k |-> Total(Tie(r, f[i]), n)]
  OBVIOUS
<1>8. \A i \in 0 .. k : g[i] = Total(Tie(r, f[i]), n) /\ g[i] \in Int
  <2> TAKE i \in 0 .. k
  <2>1. n \in 0 .. n
    OBVIOUS
  <2>2. Total(Tie(r, f[i]), n) \in Int
    BY <1>6, <2>1, TotalUnfolds
  <2> QED
    BY <1>7, <2>2
<1>9. ASSUME NEW i \in 1 .. k PROVE g[i] = g[i - 1] + Arcs(r, t, p)[i]
  <2>1. PICK v : v = Tie(r, f[i - 1])
    OBVIOUS
  <2>2. PICK w : w = Tie(r, f[i])
    OBVIOUS
  <2>3. PICK d \in 1 .. n : d = t[i]
    BY <1>1, RouteFacts
  <2>4. f[i] = [f[i - 1] EXCEPT ![d] = p[i]] /\ f[i - 1][d] = a[d]
        /\ f[i - 1] \in [Ingresses -> Patterns \cup {None}] /\ i - 1 \in 0 .. k /\ i \in 0 .. k
    BY <1>3, <1>4, <2>3
  <2>5. \A e \in 1 .. n : v[e] \in Int /\ w[e] \in Int
    BY <1>6, <2>1, <2>2, <2>4
  <2>6. \A e \in 1 .. n : e # d => w[e] = v[e]
    BY <1>1, <2>1, <2>2, <2>4 DEF Tie
  <2>7. Total(w, n) = Total(v, n) - v[d] + w[d]
    BY <2>5, <2>6, TotalChange
  <2>8. p[i] \in Patterns /\ p[i] \in DOMAIN r[d] /\ r[d][p[i]] \in Nat
    BY <2>3, RouteFacts
  <2>9. w[d] = r[d][p[i]]
    <3>1. f[i][d] = p[i]
      BY <1>1, <2>4
    <3> QED
      BY <1>1, <2>2, <2>8, <3>1, NumberFacts DEF Tie
  <2>10. v[d] = IF i = 1 THEN 0 ELSE r[d][p[i - 1]]
    <3>1. CASE i = 1
      <4>1. a[d] = None
        BY <2>3, <3>1 DEF Route
      <4> QED
        BY <1>1, <2>1, <2>4, <3>1, <4>1 DEF Tie
    <3>2. CASE i # 1
      <4>1. a[d] = p[i - 1] /\ p[i - 1] \in Patterns
        BY <2>3, <3>2, RouteFacts
      <4> QED
        BY <1>1, <2>1, <2>4, <3>2, <4>1, NumberFacts DEF Tie
    <3> QED
      BY <3>1, <3>2
  <2>11. Arcs(r, t, p)[i] = w[d] - v[d]
    <3>1. i \in Nat
      OBVIOUS
    <3>2. CASE i = 1
      <4>1. Arcs(r, t, p)[i] = r[d][p[i]] /\ v[d] = 0
        BY <2>3, <2>10, <3>1, <3>2 DEF Arcs
      <4> QED
        BY <2>8, <2>9, <4>1
    <3>3. CASE i # 1
      BY <2>3, <2>9, <2>10, <3>1, <3>3 DEF Arcs
    <3> QED
      BY <3>2, <3>3
  <2>12. g[i] = Total(w, n) /\ g[i - 1] = Total(v, n) /\ Total(v, n) \in Int
    BY <1>8, <2>1, <2>2, <2>4
  <2> QED
    BY <2>3, <2>5, <2>7, <2>11, <2>12
<1>10. /\ Total(Arcs(r, t, p), 0) = 0
       /\ \A i \in 0 .. k : Total(Arcs(r, t, p), i) \in Int
       /\ \A i \in 1 .. k : Total(Arcs(r, t, p), i) = Total(Arcs(r, t, p), i - 1) + Arcs(r, t, p)[i]
                            /\ Arcs(r, t, p)[i] \in Int
  <2>1. \A i \in 1 .. k : Arcs(r, t, p)[i] \in Int
    BY RouteFacts
  <2> QED
    BY <1>3, <2>1, TotalUnfolds
<1>11. k \in {i \in Nat : g[i] = g[0] + Total(Arcs(r, t, p), i)}
  <2> DEFINE Q == {i \in Nat : g[i] = g[0] + Total(Arcs(r, t, p), i)}
  <2>1. 0 \in Q
    <3>1. g[0] \in Int
      BY <1>3, <1>8
    <3> QED
      BY <1>10, <3>1
  <2>2. ASSUME NEW i \in 0 .. k, i # k, i \in Q PROVE i + 1 \in Q
    <3>1. i # k /\ g[i] = g[0] + Total(Arcs(r, t, p), i)
      BY <2>2
    <3>2. i + 1 \in 1 .. k /\ (i + 1) - 1 = i /\ i + 1 \in Nat /\ 0 \in 0 .. k
      BY <1>3, <3>1
    <3>3. /\ g[i + 1] = g[i] + Arcs(r, t, p)[i + 1]
          /\ Total(Arcs(r, t, p), i + 1) = Total(Arcs(r, t, p), i) + Arcs(r, t, p)[i + 1]
          /\ Arcs(r, t, p)[i + 1] \in Int
      BY <1>9, <1>10, <3>2
    <3>4. g[0] \in Int /\ Total(Arcs(r, t, p), i) \in Int
      BY <1>8, <1>10, <3>2
    <3>5. g[i + 1] = g[0] + Total(Arcs(r, t, p), i + 1)
      BY <3>1, <3>3, <3>4
    <3> QED
      BY <3>2, <3>5
  <2> HIDE DEF Q
  <2>3. k \in Q
    BY <1>3, <2>1, <2>2, InductionTo
  <2> QED
    BY <2>3 DEF Q
<1>12. g[k] = Total(Tie(r, Augmented(a, t, p, k)), n) /\ g[0] = Total(Tie(r, a), n)
  <2>1. k \in 0 .. k /\ 0 \in 0 .. k
    BY <1>3
  <2> QED
    BY <1>4, <1>8, <2>1
<1> QED
  BY <1>1, <1>11, <1>12

\* The tie-breaks of an assignment come to at most 2 for every target with edges.
LEMMA TieBound ==
  ASSUME NEW r, NEW b, Flow(r, b), \A e \in Ingresses : \A p \in DOMAIN r[e] : r[e][p] \in 0 .. 2,
         NEW X \in SUBSET Ingresses, \A e \in Ingresses : DOMAIN r[e] # {} => e \in X
  PROVE  /\ Total(Tie(r, b), LastIngress) \in Nat
         /\ Total(Tie(r, b), LastIngress) <= 2 * Cardinality(X)
<1>1. PICK n \in Nat : n = LastIngress /\ Ingresses = 1 .. n
  BY NumberFacts
<1>2. PICK f : f = Tie(r, b)
  OBVIOUS
<1>3. PICK one : one = [e \in Ingresses |-> IF e \in X THEN 1 ELSE 0]
  OBVIOUS
<1>4. PICK zero : zero = [e \in Ingresses |-> 0]
  OBVIOUS
<1>5. PICK two : two = [e \in Ingresses |-> 0 + 2 * one[e]]
  OBVIOUS
<1>6. \A e \in 1 .. n : f[e] \in Int /\ 0 <= f[e] /\ f[e] <= two[e] /\ two[e] \in Int
                        /\ zero[e] = 0 /\ one[e] \in Int /\ two[e] = zero[e] + 2 * one[e]
  <2> TAKE e \in 1 .. n
  <2>1. f[e] = IF b[e] = None THEN 0 ELSE r[e][b[e]]
    BY <1>1, <1>2 DEF Tie
  <2>2. b[e] # None => b[e] \in DOMAIN r[e] /\ r[e][b[e]] \in 0 .. 2 /\ e \in X
    BY <1>1 DEF Flow
  <2>3. one[e] = (IF e \in X THEN 1 ELSE 0) /\ zero[e] = 0 /\ two[e] = 0 + 2 * one[e]
    BY <1>1, <1>3, <1>4, <1>5
  <2> QED
    BY <2>1, <2>2, <2>3
<1>7. Total(zero, n) = 0
  BY <1>6, TotalZero
<1>8. Total(one, n) = Cardinality(X)
  <2>1. X \in SUBSET (1 .. n) /\ \A e \in 1 .. n : one[e] = IF e \in X THEN 1 ELSE 0
    BY <1>1, <1>3
  <2> QED
    BY <2>1, TotalCounts
<1>9. Total(two, n) = Total(zero, n) + 2 * Total(one, n)
  <2>1. \A i \in 1 .. n : zero[i] \in Int /\ one[i] \in Int /\ two[i] = zero[i] + 2 * one[i]
    BY <1>6
  <2> QED
    BY <2>1, TotalPlus
<1>10. Total(zero, n) <= Total(f, n)
  <2>1. \A i \in 1 .. n : zero[i] \in Int /\ f[i] \in Int /\ zero[i] <= f[i]
    BY <1>6
  <2> QED
    BY <2>1, TotalMonotone
<1>11. Total(f, n) <= Total(two, n)
  <2>1. \A i \in 1 .. n : f[i] \in Int /\ two[i] \in Int /\ f[i] <= two[i]
    BY <1>6
  <2> QED
    BY <2>1, TotalMonotone
<1>12. Total(f, n) \in Int /\ Total(one, n) \in Int
  <2>1. n \in 0 .. n /\ (\A i \in 1 .. n : f[i] \in Int) /\ (\A i \in 1 .. n : one[i] \in Int)
    BY <1>6
  <2> QED
    BY <2>1, TotalUnfolds
<1>13. Total(f, n) \in Nat /\ Total(f, n) <= 2 * Total(one, n)
  BY <1>7, <1>9, <1>10, <1>11, <1>12
<1> QED
  BY <1>1, <1>2, <1>8, <1>13

-----------------------------------------------------------------------------
\* A flow built by shortest routes is priced for every cost of the loads at once.

\* The unit costs that never decrease.
Convex == {c \in [Nat -> Nat] : \A j, k \in Nat : j <= k => c[j] <= c[k]}

\* The network whose edges cost nothing.
Free(r) == [e \in Ingresses |-> [p \in DOMAIN r[e] |-> 0]]

\* Unit costs apart by more than all tie-breaks together.
Apart(w, X) ==
  \E g \in Nat : /\ 2 * Cardinality(X) < g
                 /\ \A j, k \in Nat : j < k => w[j] + g <= w[k]

\* The tie-breaks of the edges are at most 2, and only targets of X have edges.
ThreeRanks(r, X) ==
  /\ X \subseteq Ingresses
  /\ \A e \in Ingresses : /\ DOMAIN r[e] # {} => e \in X
                          /\ \A p \in DOMAIN r[e] : r[e][p] \in 0 .. 2

\* The flow is priced, for the weights and for every cost of concentration.
Priced(r, w, a) ==
  /\ \E y : Prices(r, w, a, y)
  /\ \A c \in Convex : \E y : Prices(Free(r), c, a, y)

\* A route of least cost among those of its target.
Shortest(r, w, a, t, p, k) ==
  /\ Route(r, a, t, p, k)
  /\ \A t2, p2, k2 : Route(r, a, t2, p2, k2) /\ t2[1] = t[1] =>
       RouteCost(r, w, a, t, p, k) <= RouteCost(r, w, a, t2, p2, k2)

\* A shortest route ends at a pattern that no route of its target undercuts in load.
LEMMA LeastLoad ==
  ASSUME NEW r, NEW w, Network(r, w), NEW X, ThreeRanks(r, X), Apart(w, X),
         NEW a, Flow(r, a), NEW t, NEW p, NEW k, Shortest(r, w, a, t, p, k),
         NEW t2, NEW p2, NEW k2, Route(r, a, t2, p2, k2), t2[1] = t[1]
  PROVE  Load(a, p[k]) <= Load(a, p2[k2])
<1>1. Route(r, a, t, p, k) /\ RouteCost(r, w, a, t, p, k) <= RouteCost(r, w, a, t2, p2, k2)
  BY DEF Shortest
<1>2. PICK l \in Nat : l = Load(a, p[k])
  BY LoadType
<1>3. PICK l2 \in Nat : l2 = Load(a, p2[k2])
  BY LoadType
<1>4. PICK g \in Nat : 2 * Cardinality(X) < g /\ \A j, m \in Nat : j < m => w[j] + g <= w[m]
  BY DEF Apart
<1>5. PICK x \in Nat : x = Cardinality(X)
  <2>1. X \in SUBSET Ingresses
    BY DEF ThreeRanks
  <2>2. IsFiniteSet(X)
    BY <2>1, IngressesAssumption, FS_Subset
  <2> QED
    BY <2>2, FS_CardinalityType
<1>6. w[l] \in Nat /\ w[l2] \in Nat
  BY DEF Network
<1>7. /\ RouteCost(r, w, a, t, p, k) = Total(Arcs(r, t, p), k) + w[l]
      /\ RouteCost(r, w, a, t2, p2, k2) = Total(Arcs(r, t2, p2), k2) + w[l2]
  BY <1>2, <1>3 DEF RouteCost
<1>8. PICK b : b = Augmented(a, t, p, k)
  OBVIOUS
<1>9. PICK b2 : b2 = Augmented(a, t2, p2, k2)
  OBVIOUS
<1>10. /\ Total(Tie(r, b), LastIngress)
            = Total(Tie(r, a), LastIngress) + Total(Arcs(r, t, p), k)
       /\ Total(Tie(r, b2), LastIngress)
            = Total(Tie(r, a), LastIngress) + Total(Arcs(r, t2, p2), k2)
  BY <1>1, <1>8, <1>9, AugmentedTie
<1>11. Flow(r, b) /\ Flow(r, b2)
  BY <1>1, <1>8, <1>9, AugmentedFlow
<1>12. \A f : Flow(r, f) => /\ Total(Tie(r, f), LastIngress) \in Nat
                            /\ Total(Tie(r, f), LastIngress) <= 2 * x
  <2> SUFFICES ASSUME NEW f, Flow(r, f)
               PROVE  /\ Total(Tie(r, f), LastIngress) \in Nat
                      /\ Total(Tie(r, f), LastIngress) <= 2 * x
    OBVIOUS
  <2>1. /\ \A e \in Ingresses : \A q \in DOMAIN r[e] : r[e][q] \in 0 .. 2
        /\ X \in SUBSET Ingresses
        /\ \A e \in Ingresses : DOMAIN r[e] # {} => e \in X
    BY DEF ThreeRanks
  <2> QED
    BY <1>5, <2>1, TieBound
<1>13. PICK z \in Nat : z = Total(Tie(r, a), LastIngress)
  BY <1>12
<1>14. PICK z1 \in Nat : z1 = Total(Tie(r, b), LastIngress) /\ z1 <= 2 * x
  BY <1>11, <1>12
<1>15. PICK z2 \in Nat : z2 = Total(Tie(r, b2), LastIngress) /\ z2 <= 2 * x
  BY <1>11, <1>12
<1>16. Total(Arcs(r, t, p), k) \in Int /\ Total(Arcs(r, t2, p2), k2) \in Int
  <2>1. k \in 0 .. k /\ k2 \in 0 .. k2
    BY <1>1 DEF Route
  <2> QED
    BY <1>1, <2>1, RouteUnfolds
<1>17. PICK s \in Int : s = Total(Arcs(r, t, p), k)
  BY <1>16
<1>18. PICK s2 \in Int : s2 = Total(Arcs(r, t2, p2), k2)
  BY <1>16
<1>19. z1 = z + s /\ z2 = z + s2 /\ s + w[l] <= s2 + w[l2] /\ 2 * x < g
  BY <1>1, <1>4, <1>5, <1>7, <1>10, <1>13, <1>14, <1>15, <1>17, <1>18
<1>20. l2 < l => w[l2] + g <= w[l]
  BY <1>4
<1>21. ~(l2 < l)
  BY <1>6, <1>14, <1>15, <1>19, <1>20
<1> QED
  BY <1>2, <1>3, <1>21

\* Without edge costs a route costs the next unit of its last pattern.
LEMMA FreeRoutes ==
  ASSUME NEW r, NEW w, Network(r, w), NEW c \in Convex, NEW a, Flow(r, a)
  PROVE  /\ Network(Free(r), c) /\ Flow(Free(r), a)
         /\ \A t, p, k : Route(Free(r), a, t, p, k) <=> Route(r, a, t, p, k)
         /\ \A t, p, k : Route(r, a, t, p, k) =>
              RouteCost(Free(r), c, a, t, p, k) = c[Load(a, p[k])]
<1>1. PICK s : s = Free(r)
  OBVIOUS
<1>2. \A e \in Ingresses : DOMAIN s[e] = DOMAIN r[e] /\ \A p \in DOMAIN r[e] : s[e][p] = 0
  BY <1>1 DEF Free
<1>3. Network(s, c)
  BY <1>2 DEF Network, Convex
<1>4. Flow(s, a)
  BY <1>2 DEF Flow
<1>5. ASSUME NEW t, NEW p, NEW k PROVE Route(s, a, t, p, k) <=> Route(r, a, t, p, k)
  <2>1. (t \in [Nat -> Ingresses] /\ k \in Nat \ {0}) =>
          \A i \in 1 .. k : DOMAIN s[t[i]] = DOMAIN r[t[i]]
    BY <1>2
  <2> QED
    BY <2>1 DEF Route
<1>6. ASSUME NEW t, NEW p, NEW k, Route(r, a, t, p, k)
      PROVE  RouteCost(s, c, a, t, p, k) = c[Load(a, p[k])]
  <2>1. Route(s, a, t, p, k)
    BY <1>5, <1>6
  <2>2. /\ k \in Nat
        /\ \A i \in 1 .. k : /\ t[i] \in Ingresses /\ p[i] \in DOMAIN s[t[i]]
                             /\ i # 1 => p[i - 1] \in DOMAIN s[t[i]]
    BY <1>3, <1>4, <2>1, RouteFacts
  <2>3. \A i \in 1 .. k : Arcs(s, t, p)[i] = 0
    <3> TAKE i \in 1 .. k
    <3>1. i \in Nat /\ s[t[i]][p[i]] = 0 /\ (i # 1 => s[t[i]][p[i - 1]] = 0)
      BY <1>2, <2>2
    <3>2. CASE i = 1
      BY <3>1, <3>2 DEF Arcs
    <3>3. CASE i # 1
      BY <3>1, <3>3 DEF Arcs
    <3> QED
      BY <3>2, <3>3
  <2>4. Total(Arcs(s, t, p), k) = 0
    BY <2>2, <2>3, TotalZero
  <2>5. c[Load(a, p[k])] \in Nat
    BY LoadType DEF Convex
  <2> QED
    BY <2>4, <2>5 DEF RouteCost
<1> QED
  BY <1>1, <1>3, <1>4, <1>5, <1>6

\* Augmenting along a shortest route keeps the flow priced.
LEMMA AugmentKeepsPriced ==
  ASSUME NEW r, NEW w, Network(r, w), NEW X, ThreeRanks(r, X), Apart(w, X),
         NEW a, Flow(r, a), Priced(r, w, a),
         NEW t, NEW p, NEW k, Shortest(r, w, a, t, p, k)
  PROVE  Priced(r, w, Augmented(a, t, p, k))
<1>1. \E y : Prices(r, w, Augmented(a, t, p, k), y)
  BY ShortestKeepsPrices DEF Priced, Shortest
<1>2. ASSUME NEW c \in Convex PROVE \E y : Prices(Free(r), c, Augmented(a, t, p, k), y)
  <2>1. PICK y : Prices(Free(r), c, a, y)
    BY <1>2 DEF Priced
  <2>2. Network(Free(r), c) /\ Flow(Free(r), a)
    BY <1>2, FreeRoutes
  <2>3. Route(r, a, t, p, k) /\ Route(Free(r), a, t, p, k)
    BY <1>2, FreeRoutes DEF Shortest
  <2>4. ASSUME NEW t2, NEW p2, NEW k2, Route(Free(r), a, t2, p2, k2), t2[1] = t[1]
        PROVE  RouteCost(Free(r), c, a, t, p, k) <= RouteCost(Free(r), c, a, t2, p2, k2)
    <3>1. Route(r, a, t2, p2, k2)
      BY <1>2, <2>4, FreeRoutes
    <3>2. Load(a, p[k]) <= Load(a, p2[k2])
      BY <2>4, <3>1, LeastLoad
    <3>3. c[Load(a, p[k])] <= c[Load(a, p2[k2])]
      BY <3>2, LoadType DEF Convex
    <3> QED
      BY <1>2, <2>3, <3>1, <3>3, FreeRoutes
  <2> QED
    BY <2>1, <2>2, <2>3, <2>4, ShortestKeepsPrices
<1> QED
  BY <1>1, <1>2 DEF Priced

-----------------------------------------------------------------------------
\* The paths of the model are routes of the network.

\* The costs of the units into a pattern, as a function.
UnitCosts == [k \in Nat |-> UnitCost(k)]

\* path is the route t, p of length k.
Runs(path, t, p, k) ==
  /\ path.targets = [i \in 1 .. k |-> t[i]]
  /\ path.patterns = [i \in 1 .. k |-> p[i]]

\* The flow runs on the edges and is priced.
FlowInv ==
  /\ assigned \in [Ingresses -> Patterns \cup {None}]
  /\ Priced(ranks, UnitCosts, assigned)

\* Unit costs are numbers, a further unit costs more by at least the scale, and
\* the scale exceeds all tie-breaks together.
LEMMA UnitCostFacts ==
  ASSUME CapInv
  PROVE  /\ UnitCosts \in [Nat -> Nat]
         /\ \A j, k \in Nat : j <= k => UnitCosts[j] <= UnitCosts[k]
         /\ Apart(UnitCosts, Coverable)
<1>1. PICK x \in Nat : x = TargetCount
  <2>1. Coverable \in SUBSET Ingresses
    BY DEF Coverable
  <2>2. IsFiniteSet(Coverable)
    BY <2>1, IngressesAssumption, FS_Subset
  <2> QED
    BY <2>2, FS_CardinalityType DEF TargetCount
<1>2. PICK g \in Nat : g = 2 * x + 1
  OBVIOUS
<1>3. PICK h \in Nat : h = (x * x + 1) * g
  <2>1. \A i, j \in Nat : i * j \in Nat
    OBVIOUS
  <2>2. x * x \in Nat
    BY <2>1
  <2>3. x * x + 1 \in Nat
    BY <2>2
  <2> QED
    BY <2>1, <2>3
<1>4. cap = NoCap \/ cap \in Nat
  BY CapsAssumption DEF CapInv
<1>5. \A k \in Nat : UnitCosts[k] = k * g + (IF cap # NoCap /\ k >= cap THEN h ELSE 0)
  BY <1>1, <1>2, <1>3 DEF UnitCosts, UnitCost, ConcentrationScale, CapOverflowPenalty
<1>6. \A i, j \in Nat : i * j \in Nat
  OBVIOUS
<1>7. \A k \in Nat : UnitCosts[k] \in Nat
  BY <1>5, <1>6
<1>8. \A j, k \in Nat : j < k => UnitCosts[j] + g <= UnitCosts[k]
  <2> SUFFICES ASSUME NEW j \in Nat, NEW k \in Nat, j < k PROVE UnitCosts[j] + g <= UnitCosts[k]
    OBVIOUS
  <2>1. j * g + g <= k * g
    <3>1. PICK d \in Nat : k = j + 1 + d
      <4>1. k - (j + 1) \in Nat /\ k = j + 1 + (k - (j + 1))
        OBVIOUS
      <4> QED
        BY <4>1
    <3>2. k * g = j * g + g + d * g
      BY <3>1
    <3> QED
      BY <1>6, <3>2
  <2>2. (cap # NoCap /\ j >= cap) => (cap # NoCap /\ k >= cap)
    BY <1>4
  <2>3. UnitCosts[j] = j * g + (IF cap # NoCap /\ j >= cap THEN h ELSE 0)
        /\ UnitCosts[k] = k * g + (IF cap # NoCap /\ k >= cap THEN h ELSE 0)
    BY <1>5
  <2>4. PICK m \in Nat : m = j * g
    BY <1>6
  <2>5. PICK n \in Nat : n = k * g
    BY <1>6
  <2>6. PICK u \in {0, h} : u = IF cap # NoCap /\ j >= cap THEN h ELSE 0
    OBVIOUS
  <2>7. PICK v \in {0, h} : v = IF cap # NoCap /\ k >= cap THEN h ELSE 0
    OBVIOUS
  <2>8. u <= v
    BY <2>2, <2>6, <2>7
  <2>9. m + g <= n /\ UnitCosts[j] = m + u /\ UnitCosts[k] = n + v
    BY <2>1, <2>3, <2>4, <2>5, <2>6, <2>7
  <2> QED
    BY <2>8, <2>9
<1>9. Apart(UnitCosts, Coverable)
  <2>1. Cardinality(Coverable) = x
    BY <1>1 DEF TargetCount
  <2>2. 2 * Cardinality(Coverable) < g
    BY <1>2, <2>1
  <2> QED
    BY <1>8, <2>2 DEF Apart
<1>10. UnitCosts \in [Nat -> Nat]
  <2>1. UnitCosts = [k \in Nat |-> UnitCosts[k]]
    BY DEF UnitCosts
  <2> QED
    BY <1>7, <2>1
<1>11. \A j, k \in Nat : j <= k => UnitCosts[j] <= UnitCosts[k]
  <2> TAKE j, k \in Nat
  <2>1. CASE j < k
    BY <1>7, <1>8, <2>1
  <2>2. CASE j = k
    BY <1>7, <2>2
  <2> QED
    BY <2>1, <2>2
<1> QED
  BY <1>9, <1>10, <1>11

\* The costs of the planning are those of a flow network.
LEMMA BuiltNetwork == CapInv /\ PlanInv /\ assigned \in [Ingresses -> Patterns \cup {None}]
                        => Network(ranks, UnitCosts)
<1> SUFFICES ASSUME CapInv, PlanInv, assigned \in [Ingresses -> Patterns \cup {None}]
             PROVE  Network(ranks, UnitCosts)
  OBVIOUS
<1>1. \A e \in Ingresses : \A c \in QueueSet(e) : c.pattern \in Patterns
  BY CorpusFacts, CoverageChoices DEF PlanInv
<1>2. \A e \in Ingresses : DOMAIN ranks[e] \subseteq Patterns
  BY <1>1 DEF PlanInv, EdgesBuilt, Edges
<1>3. \A e \in Ingresses : \A p \in DOMAIN ranks[e] : ranks[e][p] \in Nat
  BY DEF PlanInv, EdgesBuilt, Edges
<1> QED
  BY <1>2, <1>3, UnitCostFacts DEF Network

\* The state of the planning is a flow in a network.
LEMMA PlanningNetwork ==
  ASSUME CapInv, PlanInv, FlowInv
  PROVE  /\ Network(ranks, UnitCosts) /\ Flow(ranks, assigned)
         /\ ThreeRanks(ranks, Coverable)
<1>1. Network(ranks, UnitCosts)
  BY BuiltNetwork DEF FlowInv
<1>2. Flow(ranks, assigned)
  BY DEF Flow, FlowInv, PlanInv, FlowOnEdges, Edges
<1>3. \A e \in Ingresses : \A p \in DOMAIN ranks[e] : ranks[e][p] \in 0 .. 2
  BY DEF PlanInv, EdgesBuilt, Edges
<1>4. ASSUME NEW e \in Ingresses, DOMAIN ranks[e] # {} PROVE e \in Coverable
  <2>1. QueueSet(e) # {}
    BY <1>4 DEF PlanInv, EdgesBuilt, Edges
  <2>2. queues[e] # << >>
    BY <2>1 DEF QueueSet, ToSet
  <2> QED
    BY <2>2 DEF Coverable
<1>5. Coverable \subseteq Ingresses
  BY DEF Coverable
<1> QED
  BY <1>1, <1>2, <1>3, <1>4, <1>5 DEF ThreeRanks

\* A path costs what its route costs, and augments as its route does.
LEMMA RunsAlike ==
  ASSUME CapInv, PlanInv, FlowInv, NEW t, NEW p, NEW k, Route(ranks, assigned, t, p, k),
         NEW path, Runs(path, t, p, k)
  PROVE  /\ PathCost(path) = RouteCost(ranks, UnitCosts, assigned, t, p, k)
         /\ [e \in Ingresses |->
               IF e \in ToSet(path.targets)
               THEN path.patterns[CHOOSE i \in DOMAIN path.targets : path.targets[i] = e]
               ELSE assigned[e]] = Augmented(assigned, t, p, k)
<1>1. k \in Nat /\ t \in [Nat -> Ingresses] /\ p \in [Nat -> Patterns] /\ k \in 1 .. k
  BY DEF Route
<1>2. PICK s : s = path.targets
  OBVIOUS
<1>3. PICK q : q = path.patterns
  OBVIOUS
<1>4. s = [i \in 1 .. k |-> t[i]] /\ q = [i \in 1 .. k |-> p[i]]
  BY <1>2, <1>3 DEF Runs
<1>5. Len(s) = k /\ DOMAIN s = 1 .. k
  BY <1>1, <1>4
<1>6. PathCost(path) = RouteCost(ranks, UnitCosts, assigned, t, p, k)
  <2> DEFINE Fill(i) == ranks[path.targets[i]][path.patterns[i]]
             Undo(i) == ranks[path.targets[i]][path.patterns[i - 1]]
  <2>1. PICK arcs : arcs = [i \in 1 .. k |-> IF i = 1 THEN Fill(1) ELSE Fill(i) - Undo(i)]
    OBVIOUS
  <2>2. PathCost(path) = Total(arcs, k) + UnitCost(Load(assigned, q[k]))
    BY <1>2, <1>3, <1>5, <2>1 DEF PathCost
  <2>3. \A i \in 1 .. k : Arcs(ranks, t, p)[i] \in Int
    BY PlanningNetwork, RouteFacts
  <2>4. \A i \in 1 .. k : arcs[i] = Arcs(ranks, t, p)[i]
    <3> TAKE i \in 1 .. k
    <3>1. i \in Nat /\ (i # 1 => i - 1 \in 1 .. k)
      BY <1>1
    <3>2. s[i] = t[i] /\ q[i] = p[i] /\ (i # 1 => q[i - 1] = p[i - 1])
      BY <1>4, <3>1
    <3>3. arcs[i] = IF i = 1 THEN ranks[s[1]][q[1]] ELSE ranks[s[i]][q[i]] - ranks[s[i]][q[i - 1]]
      BY <1>2, <1>3, <2>1
    <3>4. Arcs(ranks, t, p)[i] = IF i = 1 THEN ranks[t[1]][p[1]]
                                 ELSE ranks[t[i]][p[i]] - ranks[t[i]][p[i - 1]]
      BY <3>1 DEF Arcs
    <3>5. CASE i = 1
      BY <3>2, <3>3, <3>4, <3>5
    <3>6. CASE i # 1
      BY <3>2, <3>3, <3>4, <3>6
    <3> QED
      BY <3>5, <3>6
  <2>5. Total(arcs, k) = Total(Arcs(ranks, t, p), k)
    BY <1>1, <2>3, <2>4, TotalSame
  <2>6. UnitCost(Load(assigned, q[k])) = UnitCosts[Load(assigned, p[k])]
    <3>1. q[k] = p[k]
      BY <1>1, <1>4
    <3>2. Load(assigned, p[k]) \in Nat
      BY LoadType
    <3> QED
      BY <3>1, <3>2 DEF UnitCosts
  <2> QED
    BY <2>2, <2>5, <2>6 DEF RouteCost
<1>7. ASSUME NEW e \in Ingresses
      PROVE  (IF e \in ToSet(s) THEN q[CHOOSE i \in DOMAIN s : s[i] = e] ELSE assigned[e])
               = Augmented(assigned, t, p, k)[e]
  <2>1. e \in ToSet(s) <=> \E i \in 1 .. k : t[i] = e
    BY <1>4, <1>5 DEF ToSet
  <2>2. CASE \E i \in 1 .. k : t[i] = e
    <3>1. PICK j \in 1 .. k : j = CHOOSE i \in 1 .. k : t[i] = e
      BY <2>2
    <3>2. PICK m : m = CHOOSE i \in DOMAIN s : s[i] = e
      OBVIOUS
    <3>3. PICK n : n \in 1 .. k /\ t[n] = e
      BY <2>2
    <3>4. t[j] = e
      BY <2>2, <3>1
    <3>5. m \in 1 .. k /\ t[m] = e
      <4>1. n \in DOMAIN s /\ s[n] = e
        BY <1>4, <1>5, <3>3
      <4>2. m \in DOMAIN s /\ s[m] = e
        BY <3>2, <4>1
      <4> QED
        BY <1>4, <1>5, <4>2
    <3>6. m = j
      BY <3>4, <3>5, PlanningNetwork, RouteFacts
    <3> QED
      BY <1>4, <2>1, <2>2, <3>1, <3>2, <3>5, <3>6 DEF Augmented
  <2>3. CASE ~ \E i \in 1 .. k : t[i] = e
    BY <2>1, <2>3 DEF Augmented
  <2> QED
    BY <2>2, <2>3
<1>8. [e \in Ingresses |-> IF e \in ToSet(s) THEN q[CHOOSE i \in DOMAIN s : s[i] = e]
                            ELSE assigned[e]] = Augmented(assigned, t, p, k)
  <2>1. Augmented(assigned, t, p, k) = [e \in Ingresses |-> Augmented(assigned, t, p, k)[e]]
    BY DEF Augmented
  <2> QED
    BY <1>7, <2>1
<1> QED
  BY <1>2, <1>3, <1>6, <1>8

\* Every path runs along a route.
LEMMA PathIsRoute ==
  ASSUME CapInv, PlanInv, FlowInv, NEW path \in Paths
  PROVE  \E t, p, k : Route(ranks, assigned, t, p, k) /\ Runs(path, t, p, k)
<1>1. PICK s \in Routes, l \in Patterns : path = Path(s, l) /\ IsPath(path)
  BY DEF Paths
<1>2. PICK k \in 1 .. Cardinality(Ingresses) : s \in [1 .. k -> Ingresses]
  BY <1>1 DEF Routes
<1>3. k \in Nat \ {0} /\ 1 \in 1 .. k
  <2>1. Cardinality(Ingresses) \in Nat
    BY IngressesAssumption, FS_CardinalityType
  <2> QED
    BY <2>1
<1>4. Len(s) = k /\ DOMAIN s = 1 .. k
  BY <1>2, <1>3
<1>5. PICK q : q = path.patterns
  OBVIOUS
<1>6. q = [i \in 1 .. k |-> IF i = k THEN l ELSE assigned[s[i + 1]]] /\ path.targets = s
  BY <1>1, <1>4, <1>5 DEF Path
<1>7. /\ assigned[s[1]] = None
      /\ \A i, j \in 1 .. k : q[i] = q[j] => i = j
      /\ \A i \in 1 .. k : q[i] \in DOMAIN ranks[s[i]]
  <2>1. /\ assigned[s[1]] = None /\ IsInjective(q)
        /\ \A i \in DOMAIN s : q[i] \in Edges(s[i])
    BY <1>1, <1>5, <1>6 DEF IsPath
  <2>2. DOMAIN q = 1 .. k
    BY <1>6
  <2>3. \A i, j \in 1 .. k : q[i] = q[j] => i = j
    BY <2>1, <2>2 DEF IsInjective
  <2>4. \A i \in 1 .. k : q[i] \in DOMAIN ranks[s[i]]
    BY <1>4, <2>1 DEF Edges
  <2> QED
    BY <2>1, <2>3, <2>4
<1>8. \A i \in 1 .. k : s[i] \in Ingresses /\ q[i] \in Patterns
  BY <1>2, <1>7, PlanningNetwork DEF Network
<1>9. PICK t : t = [i \in Nat |-> IF i \in 1 .. k THEN s[i] ELSE s[1]]
  OBVIOUS
<1>10. PICK p : p = [i \in Nat |-> IF i \in 1 .. k THEN q[i] ELSE l]
  OBVIOUS
<1>11. t \in [Nat -> Ingresses] /\ p \in [Nat -> Patterns]
  <2>1. \A i \in Nat : t[i] \in Ingresses /\ p[i] \in Patterns
    BY <1>3, <1>8, <1>9, <1>10
  <2> QED
    BY <1>9, <1>10, <2>1
<1>12. \A i \in 1 .. k : i \in Nat /\ t[i] = s[i] /\ p[i] = q[i]
  BY <1>9, <1>10
<1>13. \A i \in 2 .. k : assigned[t[i]] = p[i - 1]
  <2> TAKE i \in 2 .. k
  <2>1. PICK j \in 1 .. k : j = i - 1 /\ j # k /\ j + 1 = i /\ i \in 1 .. k
    BY <1>3
  <2>2. p[j] = q[j] /\ t[i] = s[i]
    BY <1>12, <2>1
  <2>3. q[j] = assigned[s[j + 1]]
    BY <1>6, <2>1
  <2> QED
    BY <2>1, <2>2, <2>3
<1>14. Route(ranks, assigned, t, p, k)
  <2>1. assigned[t[1]] = None
    BY <1>3, <1>7, <1>12
  <2>2. \A i, j \in 1 .. k : p[i] = p[j] => i = j
    BY <1>7, <1>12
  <2>3. \A i \in 1 .. k : p[i] \in DOMAIN ranks[t[i]]
    BY <1>7, <1>12
  <2> QED
    BY <1>3, <1>11, <1>13, <2>1, <2>2, <2>3 DEF Route
<1>15. Runs(path, t, p, k)
  <2>1. s = [i \in 1 .. k |-> s[i]] /\ q = [i \in 1 .. k |-> q[i]]
    BY <1>2, <1>6
  <2>2. s = [i \in 1 .. k |-> t[i]] /\ q = [i \in 1 .. k |-> p[i]]
    BY <1>12, <2>1
  <2> QED
    BY <1>5, <1>6, <2>2 DEF Runs
<1> QED
  BY <1>14, <1>15

\* Every route is run by a path.
LEMMA RouteIsPath ==
  ASSUME CapInv, PlanInv, FlowInv, NEW t, NEW p, NEW k, Route(ranks, assigned, t, p, k)
  PROVE  \E path \in Paths : Runs(path, t, p, k)
<1>1. /\ k \in Nat \ {0} /\ t \in [Nat -> Ingresses] /\ p \in [Nat -> Patterns]
      /\ assigned[t[1]] = None
      /\ \A i, j \in 1 .. k : p[i] = p[j] => i = j
      /\ \A i \in 1 .. k : p[i] \in DOMAIN ranks[t[i]]
      /\ \A i \in 2 .. k : assigned[t[i]] = p[i - 1]
  BY DEF Route
<1>2. \A i, j \in 1 .. k : t[i] = t[j] => i = j
  BY PlanningNetwork, RouteFacts
<1>3. PICK s : s = [i \in 1 .. k |-> t[i]]
  OBVIOUS
<1>4. /\ s \in [1 .. k -> Ingresses] /\ Len(s) = k /\ DOMAIN s = 1 .. k
      /\ \A i \in 1 .. k : s[i] = t[i]
  BY <1>1, <1>3
<1>5. k \in 1 .. Cardinality(Ingresses)
  <2>1. s \in Injection(1 .. k, Ingresses)
    BY <1>2, <1>4 DEF Injection, IsInjective
  <2>2. Cardinality(1 .. k) <= Cardinality(Ingresses)
    BY <2>1, IngressesAssumption, FS_Injection
  <2>3. Cardinality(1 .. k) = k
    <3>1. 1 \in Int /\ k \in Int /\ ~(1 > k)
      BY <1>1
    <3>2. Cardinality(1 .. k) = k - 1 + 1
      BY ONLY <3>1, FS_Interval
    <3> QED
      BY <1>1, <3>2
  <2>4. PICK n \in Nat : n = Cardinality(Ingresses)
    BY IngressesAssumption, FS_CardinalityType
  <2> QED
    BY <1>1, <2>2, <2>3, <2>4
<1>6. s \in Routes
  BY <1>4, <1>5 DEF Routes
<1>7. k \in 1 .. k /\ p[k] \in Patterns
  BY <1>1
<1>8. PICK path : path = Path(s, p[k])
  OBVIOUS
<1>9. path.targets = s
      /\ path.patterns = [i \in 1 .. k |-> IF i = k THEN p[k] ELSE assigned[s[i + 1]]]
  BY <1>4, <1>8 DEF Path
<1>10. path.patterns = [i \in 1 .. k |-> p[i]]
  <2>1. ASSUME NEW i \in 1 .. k
        PROVE  (IF i = k THEN p[k] ELSE assigned[s[i + 1]]) = p[i]
    <3>1. CASE i = k
      BY <3>1
    <3>2. CASE i # k
      <4>1. i + 1 \in 2 .. k /\ i + 1 \in 1 .. k /\ (i + 1) - 1 = i
        BY <1>1, <3>2
      <4>2. assigned[t[i + 1]] = p[(i + 1) - 1] /\ s[i + 1] = t[i + 1]
        BY <1>1, <1>4, <4>1
      <4> QED
        BY <3>2, <4>1, <4>2
    <3> QED
      BY <3>1, <3>2
  <2> QED
    BY <1>9, <2>1
<1>11. Runs(path, t, p, k)
  BY <1>3, <1>9, <1>10 DEF Runs
<1>12. PICK q : q = path.patterns
  OBVIOUS
<1>13. DOMAIN q = 1 .. k /\ \A i \in 1 .. k : q[i] = p[i]
  BY <1>10, <1>12
<1>14. IsPath(path)
  <2>1. 1 \in 1 .. k
    BY <1>1
  <2>2. assigned[s[1]] = None
    BY <1>1, <1>4, <2>1
  <2>3. IsInjective(s)
    BY <1>2, <1>4 DEF IsInjective
  <2>4. IsInjective(q)
    BY <1>1, <1>13 DEF IsInjective
  <2>5. \A i \in DOMAIN s : q[i] \in Edges(s[i])
    BY <1>1, <1>4, <1>13 DEF Edges
  <2> QED
    BY <1>9, <1>12, <2>2, <2>3, <2>4, <2>5 DEF IsPath
<1>15. path \in Paths
  BY <1>6, <1>7, <1>8, <1>14 DEF Paths
<1> QED
  BY <1>11, <1>15

-----------------------------------------------------------------------------
\* The flow of the planning is priced in every state.

\* The empty flow is priced: every pattern is free.
LEMMA EmptyIsPriced ==
  ASSUME NEW r, NEW w, Network(r, w), NEW a, \A e \in Ingresses : a[e] = None
  PROVE  Priced(r, w, a)
<1>1. PICK y : y = [p \in Patterns |-> 0]
  OBVIOUS
<1>2. ASSUME NEW p \in Patterns PROVE Load(a, p) = 0
  <2>1. {e \in Ingresses : a[e] = p} = {}
    BY NumberFacts
  <2> QED
    BY <2>1, FS_EmptySet DEF Load
<1>3. ASSUME NEW s, NEW c, c \in [Nat -> Nat] PROVE Prices(s, c, a, y)
  <2>1. y \in [Patterns -> Nat] /\ \A p \in Patterns : y[p] = 0
    BY <1>1
  <2>2. \A p \in Patterns : /\ y[p] <= c[Load(a, p)]
                            /\ \A k \in Nat : k < Load(a, p) => c[k] <= y[p]
    <3> TAKE p \in Patterns
    <3>1. Load(a, p) = 0 /\ y[p] = 0 /\ c[0] \in Nat
      BY <1>2, <1>3, <2>1
    <3>2. c[0] >= 0 /\ \A k \in Nat : ~(k < 0)
      BY <3>1
    <3> QED
      BY <3>1, <3>2
  <2> QED
    BY <2>1, <2>2 DEF Prices
<1>4. w \in [Nat -> Nat]
  BY DEF Network
<1>5. \A c \in Convex : c \in [Nat -> Nat]
  BY DEF Convex
<1> QED
  BY <1>3, <1>4, <1>5 DEF Priced

\* A round of the flow augments it along a shortest route.
LEMMA AugmentIsShortest ==
  ASSUME CapInv, PlanInv, FlowInv, Augment
  PROVE  \E t, p, k : /\ Shortest(ranks, UnitCosts, assigned, t, p, k)
                      /\ assigned' = Augmented(assigned, t, p, k)
<1>1. PICK path \in ShortestPaths :
        assigned' = [e \in Ingresses |->
                       IF e \in ToSet(path.targets)
                       THEN path.patterns[CHOOSE i \in DOMAIN path.targets :
                                            path.targets[i] = e]
                       ELSE assigned[e]]
  BY DEF Augment
<1>2. path \in Paths /\ \A other \in Paths : PathCost(path) <= PathCost(other)
  <2>1. PICK cost : cost = [x \in Paths |-> PathCost(x)]
    OBVIOUS
  <2>2. path \in Paths /\ \A other \in Paths : cost[path] <= cost[other]
    BY <2>1 DEF ShortestPaths
  <2> QED
    BY <2>1, <2>2
<1>3. PICK t, p, k : Route(ranks, assigned, t, p, k) /\ Runs(path, t, p, k)
  BY <1>2, PathIsRoute
<1>4. ASSUME NEW t2, NEW p2, NEW k2, Route(ranks, assigned, t2, p2, k2)
      PROVE  RouteCost(ranks, UnitCosts, assigned, t, p, k)
               <= RouteCost(ranks, UnitCosts, assigned, t2, p2, k2)
  <2>1. PICK other \in Paths : Runs(other, t2, p2, k2)
    BY <1>4, RouteIsPath
  <2>2. PathCost(other) = RouteCost(ranks, UnitCosts, assigned, t2, p2, k2)
    BY <1>4, <2>1, RunsAlike
  <2>3. PathCost(path) = RouteCost(ranks, UnitCosts, assigned, t, p, k)
    BY <1>3, RunsAlike
  <2> QED
    BY <1>2, <2>2, <2>3
<1>5. Shortest(ranks, UnitCosts, assigned, t, p, k)
  BY <1>3, <1>4 DEF Shortest
<1>6. assigned' = Augmented(assigned, t, p, k)
  BY <1>1, <1>3, RunsAlike
<1> QED
  BY <1>5, <1>6

\* A round of the flow keeps it priced.
LEMMA AugmentStep ==
  ASSUME CapInv, PlanInv, FlowInv, Augment
  PROVE  FlowInv'
<1>1. PICK t, p, k : /\ Shortest(ranks, UnitCosts, assigned, t, p, k)
                     /\ assigned' = Augmented(assigned, t, p, k)
  BY AugmentIsShortest
<1>2. PICK b : b = Augmented(assigned, t, p, k)
  OBVIOUS
<1>3. Priced(ranks, UnitCosts, b)
  <2>1. Network(ranks, UnitCosts) /\ Flow(ranks, assigned) /\ ThreeRanks(ranks, Coverable)
        /\ Apart(UnitCosts, Coverable) /\ Priced(ranks, UnitCosts, assigned)
    BY PlanningNetwork, UnitCostFacts DEF FlowInv
  <2> QED
    BY <1>1, <1>2, <2>1, AugmentKeepsPriced
<1>4. b \in [Ingresses -> Patterns \cup {None}]
  <2>1. Flow(ranks, b)
    BY <1>1, <1>2, PlanningNetwork, AugmentedFlow DEF Shortest
  <2> QED
    BY <2>1 DEF Flow
<1>5. ranks' = ranks /\ queues' = queues /\ cap' = cap
  BY DEF Augment, network, input
<1>6. UnitCosts' = UnitCosts
  BY <1>5 DEF UnitCosts, UnitCost, ConcentrationScale, CapOverflowPenalty, TargetCount, Coverable
<1> QED
  BY <1>1, <1>2, <1>3, <1>4, <1>5, <1>6 DEF FlowInv

\* The flow that _solve_min_cost_assignment builds stays priced: there are prices
\* of the patterns under which no target prefers another pattern, for the costs of
\* the network and for every cost that depends on the loads only.
THEOREM FlowInvariance == Spec => []FlowInv
<1>1. Init /\ CapInv /\ PlanInv => FlowInv
  <2> SUFFICES ASSUME Init, CapInv, PlanInv PROVE FlowInv
    OBVIOUS
  <2>1. assigned = [e \in Ingresses |-> None]
    BY DEF Init
  <2>2. assigned \in [Ingresses -> Patterns \cup {None}] /\ \A e \in Ingresses : assigned[e] = None
    BY <2>1
  <2> QED
    BY <2>2, BuiltNetwork, EmptyIsPriced DEF FlowInv
<1>2. CapInv /\ PlanInv /\ CapInv' /\ PlanInv' /\ FlowInv /\ [Next]_vars => FlowInv'
  <2> SUFFICES ASSUME CapInv, PlanInv, CapInv', PlanInv', FlowInv, [Next]_vars PROVE FlowInv'
    OBVIOUS
  <2>0. (CapInv /\ PlanInv /\ assigned \in [Ingresses -> Patterns \cup {None}])'
          => Network(ranks, UnitCosts)'
    BY BuiltNetwork, PTL
  <2>1. CASE BuildQueues
    <3>1. assigned' = assigned /\ phase = "queues"
      BY <2>1 DEF BuildQueues
    <3>2. assigned' \in [Ingresses -> Patterns \cup {None}]
          /\ \A e \in Ingresses : assigned'[e] = None
      BY <3>1 DEF PlanInv, FlowInv
    <3>3. Network(ranks', UnitCosts')
      BY <2>0, <3>2
    <3>4. Priced(ranks', UnitCosts', assigned')
      BY <3>2, <3>3, EmptyIsPriced
    <3> QED
      BY <3>2, <3>4 DEF FlowInv
  <2>2. CASE Augment
    BY <2>2, AugmentStep
  <2>3. CASE UNCHANGED <<cap, queues, ranks, assigned>>
    <3>1. UnitCosts' = UnitCosts
      BY <2>3
      DEF UnitCosts, UnitCost, ConcentrationScale, CapOverflowPenalty, TargetCount, Coverable
    <3> QED
      BY <2>3, <3>1 DEF FlowInv
  <2>4. PlanCoverage \/ PlanExhaustive \/ SelectAll \/ Take \/ Pass \/ Planned \/ UNCHANGED vars
          => UNCHANGED <<cap, queues, ranks, assigned>>
    BY DEF PlanCoverage, PlanExhaustive, SelectAll, Take, Pass, Planned, vars, input, network
  <2> QED
    BY <2>1, <2>2, <2>3, <2>4 DEF Next
<1> QED
  BY <1>1, <1>2, CapInvariance, PlanInvariance, PTL DEF Spec

\* The targets that carry flow.
Served == {e \in Ingresses : assigned[e] # None}

\* Every round of the flow serves one more target and none less, although it moves
\* targets from pattern to pattern: the solver needs at most a round per target.
THEOREM RoundsServeMore ==
  Spec => [][Augment => \E e \in Ingresses \ Served : Served' = Served \cup {e}]_vars
<1>1. CapInv /\ PlanInv /\ FlowInv /\ Augment =>
        \E e \in Ingresses \ Served : Served' = Served \cup {e}
  <2> SUFFICES ASSUME CapInv, PlanInv, FlowInv, Augment
               PROVE  \E e \in Ingresses \ Served : Served' = Served \cup {e}
    OBVIOUS
  <2>1. PICK t, p, k : /\ Route(ranks, assigned, t, p, k)
                       /\ assigned' = Augmented(assigned, t, p, k)
    BY AugmentIsShortest DEF Shortest
  <2>2. PICK b : b = assigned'
    OBVIOUS
  <2>3. /\ k \in Nat /\ 1 \in 1 .. k
        /\ \A i \in 1 .. k : /\ t[i] \in Ingresses /\ p[i] \in Patterns
                             /\ i # 1 => assigned[t[i]] = p[i - 1] /\ p[i - 1] \in Patterns
    BY <2>1, PlanningNetwork, RouteFacts
  <2>4. /\ \A i \in 1 .. k : b[t[i]] = p[i]
        /\ \A e \in Ingresses : (\A i \in 1 .. k : t[i] # e) => b[e] = assigned[e]
    <3>1. k \in 0 .. k
      BY <2>3
    <3> QED
      BY <2>1, <2>2, <3>1, PlanningNetwork, AugmentedSteps
  <2>5. assigned[t[1]] = None
    BY <2>1 DEF Route
  <2>6. ASSUME NEW e \in Ingresses
        PROVE  b[e] # None <=> (assigned[e] # None \/ e = t[1])
    <3>1. CASE \A i \in 1 .. k : t[i] # e
      BY <2>3, <2>4, <3>1
    <3>2. CASE \E i \in 1 .. k : t[i] = e
      <4>1. PICK i \in 1 .. k : t[i] = e
        BY <3>2
      <4>2. b[e] # None
        BY <2>3, <2>4, <4>1, NumberFacts
      <4>3. i # 1 => assigned[e] # None
        BY <2>3, <4>1, NumberFacts
      <4> QED
        BY <4>1, <4>2, <4>3
    <3> QED
      BY <3>1, <3>2
  <2>7. PICK d \in Ingresses : d = t[1]
    BY <2>3
  <2>8. Served' = {e \in Ingresses : b[e] # None}
    BY <2>2 DEF Served
  <2>9. Served' = Served \cup {d} /\ d \notin Served
    BY <2>5, <2>6, <2>7, <2>8 DEF Served
  <2> QED
    BY <2>9
<1> QED
  BY <1>1, CapInvariance, PlanInvariance, FlowInvariance, PTL

-----------------------------------------------------------------------------
\* The objectives of an assignment as totals over its targets.

\* The assignment b of the targets of X, as a flow.
Spread(X, b) == [e \in Ingresses |-> IF e \in X THEN b[e] ELSE None]

\* For each target, those before it at its pattern, and whether they fill the cap.
Place(b) == [e \in Ingresses |-> IF b[e] = None THEN 0 ELSE Earlier(b, e)]
Late(l, b) ==
  [e \in Ingresses |-> IF b[e] # None /\ l # NoCap /\ Earlier(b, e) >= l THEN 1 ELSE 0]

\* The targets before e at its pattern are targets of the assignment.
LEMMA SpreadEarlier ==
  ASSUME NEW X \in SUBSET Ingresses, NEW b \in [X -> Patterns], NEW e \in X
  PROVE  /\ Spread(X, b)[e] = b[e] /\ b[e] # None
         /\ {d \in Ingresses : d < e /\ Spread(X, b)[d] = Spread(X, b)[e]}
              = {d \in X : d < e /\ b[d] = b[e]}
         /\ Earlier(Spread(X, b), e) = Cardinality({d \in X : d < e /\ b[d] = b[e]})
<1>1. PICK f : f = Spread(X, b)
  OBVIOUS
<1>2. \A d \in Ingresses : f[d] = IF d \in X THEN b[d] ELSE None
  BY <1>1 DEF Spread
<1>3. b[e] \in Patterns /\ b[e] # None /\ f[e] = b[e]
  BY <1>2, NumberFacts
<1>4. {d \in Ingresses : d < e /\ f[d] = f[e]} = {d \in X : d < e /\ b[d] = b[e]}
  BY <1>2, <1>3
<1> QED
  BY <1>1, <1>3, <1>4 DEF Earlier

\* The pairs of targets that share a pattern, counted at the later one.
LEMMA ConcentrationIsTotal ==
  ASSUME NEW X \in SUBSET Ingresses, NEW b \in [X -> Patterns]
  PROVE  Total(Place(Spread(X, b)), LastIngress) = Concentration(b)
<1>1. PICK n \in Nat : n = LastIngress /\ Ingresses = 1 .. n
  BY NumberFacts
<1>2. PICK f : f = Spread(X, b)
  OBVIOUS
<1>3. PICK g : g = Place(f)
  OBVIOUS
<1>4. \A e \in 1 .. n : e \notin X => g[e] = 0
  BY <1>1, <1>2, <1>3 DEF Spread, Place
<1>5. ASSUME NEW e \in X
      PROVE  g[e] = Cardinality({d \in X : d < e /\ b[d] = b[e]}) /\ g[e] \in Nat
             /\ IsFiniteSet({d \in X : d < e /\ b[d] = b[e]})
  <2>1. Earlier(f, e) = Cardinality({d \in X : d < e /\ b[d] = b[e]}) /\ f[e] # None
        /\ {d \in Ingresses : d < e /\ f[d] = f[e]} = {d \in X : d < e /\ b[d] = b[e]}
    BY <1>2, <1>5, SpreadEarlier
  <2>2. e \in Ingresses
    OBVIOUS
  <2>3. g[e] = Earlier(f, e)
    BY <1>3, <2>1, <2>2 DEF Place
  <2> QED
    BY <2>1, <2>2, <2>3, EarlierType
<1>6. \A e \in 1 .. n : g[e] \in Int
  <2>1. ASSUME NEW e \in X PROVE g[e] \in Nat
    BY <1>5
  <2> QED
    BY <1>4, <2>1
<1>7. /\ Total(g, 0) = 0
      /\ \A i \in 1 .. n : Total(g, i) = Total(g, i - 1) + g[i]
  BY <1>6, TotalUnfolds
<1>8. PICK C : C = {x \in X \X X : x[1] < x[2] /\ b[x[1]] = b[x[2]]}
  OBVIOUS
<1>9. IsFiniteSet(C) /\ Concentration(b) = Cardinality(C)
  <2>1. IsFiniteSet(X)
    BY NumberFacts, FS_Subset
  <2>2. IsFiniteSet(X \X X)
    BY <2>1, FS_Product
  <2>3. C \in SUBSET (X \X X)
    BY <1>8
  <2>4. IsFiniteSet(C)
    BY <2>2, <2>3, FS_Subset
  <2>5. DOMAIN b = X
    OBVIOUS
  <2> QED
    BY <1>8, <2>4, <2>5 DEF Concentration
<1>10. PICK S : S = [m \in 0 .. n |-> {x \in C : x[2] <= m}]
  OBVIOUS
<1>11. \A m \in 0 .. n : S[m] = {x \in C : x[2] <= m} /\ IsFiniteSet(S[m])
  <2> TAKE m \in 0 .. n
  <2>1. S[m] = {x \in C : x[2] <= m} /\ S[m] \in SUBSET C
    BY <1>10
  <2> QED
    BY <1>9, <2>1, FS_Subset
<1>12. \A x \in C : x[1] \in X /\ x[2] \in X /\ x[2] \in Nat /\ 1 <= x[2] /\ x[2] <= n
  <2>1. \A x \in C : x[1] \in X /\ x[2] \in X
    BY <1>8
  <2>2. \A e \in X : e \in Nat /\ 1 <= e /\ e <= n
    BY <1>1
  <2> QED
    BY <2>1, <2>2
<1> DEFINE Q == {m \in Nat : Total(g, m) = Cardinality(S[m])}
<1>13. 0 \in Q
  <2>1. 0 \in 0 .. n /\ \A x \in C : ~(x[2] <= 0)
    BY <1>12
  <2>2. S[0] = {}
    BY <1>11, <2>1
  <2>3. Cardinality(S[0]) = 0
    BY <2>2, FS_EmptySet
  <2> QED
    BY <1>7, <2>3
<1>14. ASSUME NEW m \in 0 .. n, m # n, m \in Q PROVE m + 1 \in Q
  <2>1. m # n /\ Total(g, m) = Cardinality(S[m])
    BY <1>14
  <2>2. PICK e \in 1 .. n : e = m + 1 /\ e - 1 = m /\ e \in Nat /\ e \in 0 .. n /\ ~(e <= m)
    BY <2>1
  <2>3. Total(g, e) = Total(g, m) + g[e]
    BY <1>7, <2>2
  <2>4. \A x \in C : x[2] <= e <=> (x[2] <= m \/ x[2] = e)
    BY <1>12, <2>2
  <2>5. S[m] = {x \in C : x[2] <= m} /\ S[e] = {x \in C : x[2] <= e} /\ IsFiniteSet(S[m])
    BY <1>11, <2>2
  <2>6. PICK k \in Nat : k = Cardinality(S[m])
    BY <2>5, FS_CardinalityType
  <2>7. CASE e \in X
    <3>1. PICK D : D = {d \in X : d < e /\ b[d] = b[e]}
      OBVIOUS
    <3>2. IsFiniteSet(D) /\ g[e] = Cardinality(D) /\ g[e] \in Nat
      BY <1>5, <2>7, <3>1
    <3>3. PICK P : P = D \X {e}
      OBVIOUS
    <3>4. IsFiniteSet(P) /\ Cardinality(P) = Cardinality(D) * 1
      <4>1. IsFiniteSet({e}) /\ Cardinality({e}) = 1
        BY FS_Singleton
      <4>2. IsFiniteSet(D \X {e}) /\ Cardinality(D \X {e}) = Cardinality(D) * Cardinality({e})
        BY <3>2, <4>1, FS_Product
      <4> QED
        BY <3>3, <4>1, <4>2
    <3>5. P = {x \in C : x[2] = e}
      <4>1. \A x \in P : x \in C /\ x[2] = e
        BY <1>8, <2>7, <3>1, <3>3
      <4>2. \A x \in C : x[2] = e => x \in P
        <5> SUFFICES ASSUME NEW x \in C, x[2] = e PROVE x \in P
          OBVIOUS
        <5>1. x \in X \X X /\ x[1] < x[2] /\ b[x[1]] = b[x[2]]
          BY <1>8
        <5>2. x[1] \in D
          BY <3>1, <5>1
        <5> QED
          BY <3>3, <5>1, <5>2
      <4> QED
        BY <4>1, <4>2
    <3>6. S[e] = S[m] \cup P
      BY <2>4, <2>5, <3>5
    <3>7. S[m] \cap P = {}
      <4>1. \A x \in S[m] : x[2] # e
        BY <2>2, <2>5
      <4> QED
        BY <3>5, <4>1
    <3>8. Cardinality(S[e]) = k + g[e]
      <4>1. Cardinality(S[m] \cup P) = Cardinality(S[m]) + Cardinality(P) - Cardinality(S[m] \cap P)
        BY <2>5, <3>4, FS_Union
      <4>2. Cardinality(S[m] \cap P) = 0
        BY <3>7, FS_EmptySet
      <4>3. Cardinality(P) = g[e]
        BY <3>2, <3>4
      <4>4. PICK j \in Nat : j = g[e]
        BY <3>2
      <4> QED
        BY <2>6, <3>6, <4>1, <4>2, <4>3, <4>4
    <3> QED
      BY <2>1, <2>2, <2>3, <2>6, <3>8
  <2>8. CASE e \notin X
    <3>1. \A x \in C : x[2] # e
      BY <1>12, <2>8
    <3>2. S[e] = S[m]
      BY <2>4, <2>5, <3>1
    <3>3. g[e] = 0
      BY <1>4, <2>8
    <3> QED
      BY <2>1, <2>2, <2>3, <2>6, <3>2, <3>3
  <2> QED
    BY <2>7, <2>8
<1>15. n \in Q
  <2> HIDE DEF Q
  <2> QED
    BY <1>13, <1>14, InductionTo
<1>16. S[n] = C
  <2>1. n \in 0 .. n /\ \A x \in C : x[2] <= n
    BY <1>12
  <2> QED
    BY <1>11, <2>1
<1> QED
  BY <1>1, <1>2, <1>3, <1>9, <1>15, <1>16

\* The targets beyond the cap of their pattern.
LEMMA OverflowIsTotal ==
  ASSUME NEW X \in SUBSET Ingresses, NEW b \in [X -> Patterns]
  PROVE  Total(Late(cap, Spread(X, b)), LastIngress) = Overflow(b)
<1>1. PICK n \in Nat : n = LastIngress /\ Ingresses = 1 .. n
  BY NumberFacts
<1>2. PICK f : f = Spread(X, b)
  OBVIOUS
<1>3. PICK g : g = Late(cap, f)
  OBVIOUS
<1>4. \A e \in 1 .. n : g[e] = IF f[e] # None /\ cap # NoCap /\ Earlier(f, e) >= cap THEN 1 ELSE 0
  BY <1>1, <1>3 DEF Late
<1>5. CASE cap = NoCap
  <2>1. Total(g, n) = 0
    BY <1>4, <1>5, TotalZero
  <2> QED
    BY <1>1, <1>2, <1>3, <1>5, <2>1 DEF Overflow
<1>6. CASE cap # NoCap
  <2>1. PICK O : O = {e \in X : Cardinality({d \in X : d < e /\ b[d] = b[e]}) >= cap}
    OBVIOUS
  <2>2. \A e \in 1 .. n : g[e] = IF e \in O THEN 1 ELSE 0
    <3> TAKE e \in 1 .. n
    <3>1. CASE e \in X
      <4>1. f[e] # None /\ Earlier(f, e) = Cardinality({d \in X : d < e /\ b[d] = b[e]})
        BY <1>2, <3>1, SpreadEarlier
      <4>2. e \in O <=> Earlier(f, e) >= cap
        BY <2>1, <3>1, <4>1
      <4> QED
        BY <1>4, <1>6, <4>1, <4>2
    <3>2. CASE e \notin X
      <4>1. f[e] = None /\ e \notin O
        BY <1>1, <1>2, <2>1, <3>2 DEF Spread
      <4> QED
        BY <1>4, <4>1
    <3> QED
      BY <3>1, <3>2
  <2>3. O \in SUBSET (1 .. n)
    BY <1>1, <2>1
  <2>4. Total(g, n) = Cardinality(O)
    BY <2>2, <2>3, TotalCounts
  <2>5. DOMAIN b = X
    OBVIOUS
  <2> QED
    BY <1>1, <1>2, <1>3, <1>6, <2>1, <2>4, <2>5 DEF Overflow
<1> QED
  BY <1>5, <1>6

\* The weights of the objectives are numbers.
LEMMA ScaleType ==
  /\ TargetCount \in Nat /\ ConcentrationScale \in Nat /\ CapOverflowPenalty \in Nat
  /\ CapOverflowPenalty * ConcentrationScale \in Nat
<1>1. PICK x \in Nat : x = TargetCount
  <2>1. Coverable \in SUBSET Ingresses
    BY DEF Coverable
  <2>2. IsFiniteSet(Coverable)
    BY <2>1, IngressesAssumption, FS_Subset
  <2> QED
    BY <2>2, FS_CardinalityType DEF TargetCount
<1>2. \A i, j \in Nat : i * j \in Nat
  OBVIOUS
<1>3. ConcentrationScale = 2 * x + 1 /\ CapOverflowPenalty = x * x + 1
  BY <1>1 DEF ConcentrationScale, CapOverflowPenalty
<1>4. 2 * x + 1 \in Nat
  OBVIOUS
<1>5. x * x + 1 \in Nat
  BY <1>2
<1> QED
  BY <1>1, <1>2, <1>3, <1>4, <1>5

\* What a flow pays is its three objectives, weighted.
LEMMA PaidIsWeighted ==
  ASSUME CapInv, NEW r, Network(r, UnitCosts), NEW b, Flow(r, b)
  PROVE  /\ Total(Tie(r, b), LastIngress) \in Int /\ Total(Place(b), LastIngress) \in Int
         /\ Total(Late(cap, b), LastIngress) \in Int
         /\ Total(Paid(r, UnitCosts, b), LastIngress)
              = Total(Tie(r, b), LastIngress)
                  + ConcentrationScale * Total(Place(b), LastIngress)
                  + (CapOverflowPenalty * ConcentrationScale) * Total(Late(cap, b), LastIngress)
<1>1. PICK n \in Nat : n = LastIngress /\ Ingresses = 1 .. n
  BY NumberFacts
<1>2. PICK g \in Int : g = ConcentrationScale
  BY ScaleType
<1>3. PICK h \in Int : h = CapOverflowPenalty * ConcentrationScale
  BY ScaleType
<1>4. PICK tie : tie = Tie(r, b)
  OBVIOUS
<1>5. PICK place : place = Place(b)
  OBVIOUS
<1>6. PICK late : late = Late(cap, b)
  OBVIOUS
<1>7. PICK paid : paid = Paid(r, UnitCosts, b)
  OBVIOUS
<1>8. PICK part : part = [e \in Ingresses |-> tie[e] + g * place[e]]
  OBVIOUS
<1>9. ASSUME NEW e \in 1 .. n
      PROVE  /\ tie[e] \in Int /\ place[e] \in Int /\ late[e] \in Int
             /\ part[e] = tie[e] + g * place[e]
             /\ paid[e] = part[e] + h * late[e]
  <2>1. part[e] = tie[e] + g * place[e]
    BY <1>1, <1>8
  <2>2. PICK x \in Nat : x = Earlier(b, e)
    BY <1>1, EarlierType
  <2>3. CASE b[e] = None
    <3>1. tie[e] = 0 /\ place[e] = 0 /\ late[e] = 0 /\ paid[e] = 0
      BY <1>1, <1>4, <1>5, <1>6, <1>7, <2>3 DEF Tie, Place, Late, Paid
    <3> QED
      BY <2>1, <3>1
  <2>4. CASE b[e] # None
    <3>1. PICK v \in Nat : v = r[e][b[e]]
      BY <1>1, <2>4 DEF Flow, Network
    <3>2. tie[e] = v /\ place[e] = x
      BY <1>1, <1>4, <1>5, <2>2, <2>4, <3>1 DEF Tie, Place
    <3>3. late[e] = IF cap # NoCap /\ x >= cap THEN 1 ELSE 0
      BY <1>1, <1>6, <2>2, <2>4 DEF Late
    <3>4. paid[e] = v + UnitCosts[x]
      BY <1>1, <1>7, <2>2, <2>4, <3>1 DEF Paid
    <3>5. UnitCosts[x] = x * g + (IF cap # NoCap /\ x >= cap THEN h ELSE 0)
      BY <1>2, <1>3 DEF UnitCosts, UnitCost
    <3>6. CASE cap # NoCap /\ x >= cap
      <4>1. late[e] = 1 /\ UnitCosts[x] = x * g + h
        BY <3>3, <3>5, <3>6
      <4> QED
        BY <2>1, <3>2, <3>4, <4>1
    <3>7. CASE ~(cap # NoCap /\ x >= cap)
      <4>1. late[e] = 0 /\ UnitCosts[x] = x * g
        BY <3>3, <3>5, <3>7
      <4> QED
        BY <2>1, <3>2, <3>4, <4>1
    <3> QED
      BY <3>6, <3>7
  <2> QED
    BY <2>3, <2>4
<1>10. \A i, j \in Int : i * j \in Int
  OBVIOUS
<1>11. Total(part, n) = Total(tie, n) + g * Total(place, n)
  BY <1>9, TotalPlus
<1>12. Total(paid, n) = Total(part, n) + h * Total(late, n)
  <2>1. \A i \in 1 .. n : part[i] \in Int /\ late[i] \in Int /\ paid[i] = part[i] + h * late[i]
    BY <1>9, <1>10
  <2> QED
    BY <2>1, TotalPlus
<1>13. Total(tie, n) \in Int /\ Total(place, n) \in Int /\ Total(late, n) \in Int
  <2>1. n \in 0 .. n
    OBVIOUS
  <2> QED
    BY <1>9, <2>1, TotalUnfolds
<1> QED
  BY <1>1, <1>2, <1>3, <1>4, <1>5, <1>6, <1>7, <1>11, <1>12, <1>13

-----------------------------------------------------------------------------
\* The plan's assignment is optimal.

\* An assignment of the coverable targets is a flow that serves exactly them, and
\* its objectives are totals over the targets.
LEMMA AssignmentIsFlow ==
  ASSUME CapInv, PlanInv, FlowInv, NEW a \in Assignments
  PROVE  /\ Flow(ranks, Spread(Coverable, a))
         /\ \A e \in Ingresses : Spread(Coverable, a)[e] = None <=> e \notin Coverable
         /\ Total(Place(Spread(Coverable, a)), LastIngress) = Concentration(a)
         /\ Total(Late(cap, Spread(Coverable, a)), LastIngress) = Overflow(a)
         /\ Total(Tie(ranks, Spread(Coverable, a)), LastIngress) = TieBreak(a)
<1>1. /\ Coverable \in SUBSET Ingresses /\ a \in [Coverable -> Patterns]
      /\ \A e \in Coverable : a[e] \in DOMAIN ranks[e]
  BY DEF Coverable, Assignments, Edges
<1>2. PICK f : f = Spread(Coverable, a)
  OBVIOUS
<1>3. /\ \A e \in Ingresses : f[e] = IF e \in Coverable THEN a[e] ELSE None
      /\ f = [e \in Ingresses |-> f[e]]
  BY <1>2 DEF Spread
<1>4. \A e \in Ingresses : f[e] = None <=> e \notin Coverable
  BY <1>1, <1>3, NumberFacts
<1>5. Flow(ranks, f)
  <2>1. \A e \in Ingresses : f[e] \in Patterns \cup {None}
    BY <1>1, <1>3
  <2>2. f \in [Ingresses -> Patterns \cup {None}]
    BY <1>3, <2>1
  <2>3. \A e \in Ingresses : f[e] # None => f[e] \in DOMAIN ranks[e]
    BY <1>1, <1>3
  <2> QED
    BY <2>2, <2>3 DEF Flow
<1>6. Total(Tie(ranks, f), LastIngress) = TieBreak(a)
  <2>1. PICK n \in Nat : n = LastIngress /\ Ingresses = 1 .. n
    BY NumberFacts
  <2>2. PICK g : g = [e \in Ingresses |-> IF e \in DOMAIN a THEN ranks[e][a[e]] ELSE 0]
    OBVIOUS
  <2>3. DOMAIN a = Coverable
    BY <1>1
  <2>4. \A e \in 1 .. n : Tie(ranks, f)[e] \in Int /\ g[e] = Tie(ranks, f)[e]
    <3> TAKE e \in 1 .. n
    <3>1. g[e] = IF e \in Coverable THEN ranks[e][a[e]] ELSE 0
      BY <2>1, <2>2, <2>3
    <3>2. Tie(ranks, f)[e] = IF f[e] = None THEN 0 ELSE ranks[e][f[e]]
      BY <2>1 DEF Tie
    <3>3. CASE e \in Coverable
      <4>1. ranks[e][a[e]] \in Nat
        BY <1>1, <2>1, <3>3, PlanningNetwork DEF Network
      <4>2. f[e] = a[e] /\ f[e] # None
        BY <1>3, <1>4, <2>1, <3>3
      <4> QED
        BY <3>1, <3>2, <3>3, <4>1, <4>2
    <3>4. CASE e \notin Coverable
      <4>1. f[e] = None
        BY <1>4, <2>1, <3>4
      <4> QED
        BY <3>1, <3>2, <3>4, <4>1
    <3> QED
      BY <3>3, <3>4
  <2>5. Total(Tie(ranks, f), n) = Total(g, n)
    BY <2>4, TotalSame
  <2> QED
    BY <2>1, <2>2, <2>5 DEF TieBreak
<1>7. Total(Place(f), LastIngress) = Concentration(a)
  BY <1>1, <1>2, ConcentrationIsTotal
<1>8. Total(Late(cap, f), LastIngress) = Overflow(a)
  BY <1>1, <1>2, OverflowIsTotal
<1> QED
  BY <1>2, <1>4, <1>5, <1>6, <1>7, <1>8

\* A flow priced for every cost of the loads is no more concentrated, and overflows
\* the cap no more, than any flow that serves the same targets.
LEMMA PricedIsSpread ==
  ASSUME CapInv, NEW r, NEW w, Network(r, w), NEW a, Flow(r, a), Priced(r, w, a),
         NEW b, Flow(r, b), \A e \in Ingresses : b[e] = None <=> a[e] = None
  PROVE  /\ Total(Place(a), LastIngress) <= Total(Place(b), LastIngress)
         /\ Total(Late(cap, a), LastIngress) <= Total(Late(cap, b), LastIngress)
<1>1. PICK s : s = Free(r)
  OBVIOUS
<1>2. ASSUME NEW c \in Convex
      PROVE  Total(Paid(s, c, a), LastIngress) <= Total(Paid(s, c, b), LastIngress)
  <2>1. PICK y : Prices(s, c, a, y)
    BY <1>1, <1>2 DEF Priced
  <2>2. Network(s, c) /\ Flow(s, a) /\ Flow(s, b)
    BY <1>1, <1>2, FreeRoutes
  <2> QED
    BY <2>1, <2>2, PricedIsCheapest
<1>3. ASSUME NEW f, Flow(r, f), NEW c, NEW e \in Ingresses,
             c[Earlier(f, e)] \in Nat
      PROVE  Paid(s, c, f)[e] = IF f[e] = None THEN 0 ELSE c[Earlier(f, e)]
  <2>1. Paid(s, c, f)[e] = IF f[e] = None THEN 0 ELSE s[e][f[e]] + c[Earlier(f, e)]
    BY DEF Paid
  <2>2. f[e] # None => s[e][f[e]] = 0
    BY <1>1, <1>3 DEF Free, Flow
  <2> QED
    BY <1>3, <2>1, <2>2
<1>4. PICK n \in Nat : n = LastIngress /\ Ingresses = 1 .. n
  BY NumberFacts
<1>5. Total(Place(a), LastIngress) <= Total(Place(b), LastIngress)
  <2>1. PICK c : c = [k \in Nat |-> k]
    OBVIOUS
  <2>2. c \in Convex
    BY <2>1 DEF Convex
  <2>3. ASSUME NEW f, Flow(r, f) PROVE Total(Paid(s, c, f), n) = Total(Place(f), n)
    <3>1. \A e \in 1 .. n : Place(f)[e] \in Int /\ Paid(s, c, f)[e] = Place(f)[e]
      <4> TAKE e \in 1 .. n
      <4>1. Earlier(f, e) \in Nat
        BY <1>4, EarlierType
      <4>2. c[Earlier(f, e)] = Earlier(f, e)
        BY <2>1, <4>1
      <4>3. Paid(s, c, f)[e] = IF f[e] = None THEN 0 ELSE c[Earlier(f, e)]
        BY <1>3, <1>4, <2>3, <4>1, <4>2
      <4>4. Place(f)[e] = IF f[e] = None THEN 0 ELSE Earlier(f, e)
        BY <1>4 DEF Place
      <4> QED
        BY <4>1, <4>2, <4>3, <4>4
    <3> QED
      BY <3>1, TotalSame
  <2> QED
    BY <1>2, <1>4, <2>2, <2>3
<1>6. Total(Late(cap, a), LastIngress) <= Total(Late(cap, b), LastIngress)
  <2>1. PICK c : c = [k \in Nat |-> IF cap # NoCap /\ k >= cap THEN 1 ELSE 0]
    OBVIOUS
  <2>2. c \in Convex
    <3>1. cap = NoCap \/ cap \in Nat
      BY CapsAssumption DEF CapInv
    <3>2. \A k \in Nat : c[k] \in {0, 1} /\ (c[k] = 1 <=> cap # NoCap /\ k >= cap)
      BY <2>1
    <3>3. c \in [Nat -> Nat]
      BY <2>1
    <3>4. \A j, k \in Nat : j <= k => c[j] <= c[k]
      <4> SUFFICES ASSUME NEW j \in Nat, NEW k \in Nat, j <= k PROVE c[j] <= c[k]
        OBVIOUS
      <4>1. (cap # NoCap /\ j >= cap) => (cap # NoCap /\ k >= cap)
        BY <3>1
      <4>2. c[j] \in {0, 1} /\ c[k] \in {0, 1} /\ (c[j] = 1 => c[k] = 1)
        BY <3>2, <4>1
      <4> QED
        BY <4>2
    <3> QED
      BY <3>3, <3>4 DEF Convex
  <2>3. ASSUME NEW f, Flow(r, f) PROVE Total(Paid(s, c, f), n) = Total(Late(cap, f), n)
    <3>1. \A e \in 1 .. n : Late(cap, f)[e] \in Int /\ Paid(s, c, f)[e] = Late(cap, f)[e]
      <4> TAKE e \in 1 .. n
      <4>1. PICK k \in Nat : k = Earlier(f, e)
        BY <1>4, EarlierType
      <4>2. c[k] = (IF cap # NoCap /\ k >= cap THEN 1 ELSE 0) /\ c[k] \in Nat
        BY <2>1
      <4>3. Paid(s, c, f)[e] = IF f[e] = None THEN 0 ELSE c[k]
        BY <1>3, <1>4, <2>3, <4>1, <4>2
      <4>4. Late(cap, f)[e] = IF f[e] # None /\ cap # NoCap /\ k >= cap THEN 1 ELSE 0
        BY <1>4, <4>1 DEF Late
      <4> QED
        BY <4>2, <4>3, <4>4
    <3> QED
      BY <3>1, TotalSame
  <2> QED
    BY <1>2, <1>4, <2>2, <2>3
<1> QED
  BY <1>5, <1>6

\* In coverage mode the assignment of the plan is optimal among all assignments of
\* the targets that have candidates: no other overflows the cap less, none is less
\* concentrated, and none that equals it in both has a lower tie-break.
THEOREM AssignmentOptimal == Spec => []AssignmentIsOptimal
<1>1. CapInv /\ PlanInv /\ FlowInv => AssignmentIsOptimal
  <2> SUFFICES ASSUME CapInv, PlanInv, FlowInv, phase = "planned", mode = "coverage",
                      NEW mine, mine = [e \in Coverable |-> assigned[e]]
               PROVE  /\ mine \in Assignments
                      /\ \A a \in Assignments :
                           /\ Overflow(mine) <= Overflow(a)
                           /\ Concentration(mine) <= Concentration(a)
                           /\ Overflow(a) = Overflow(mine) /\ Concentration(a) = Concentration(mine)
                                => TieBreak(mine) <= TieBreak(a)
    BY DEF AssignmentIsOptimal
  <2>1. ASSUME NEW e \in Coverable PROVE assigned[e] \in Edges(e) /\ Edges(e) \subseteq Patterns
    <3>1. e \in Ingresses /\ assigned[e] # None
      BY DEF Coverable, PlanInv
    <3>2. QueueSet(e) \subseteq qualified
      BY <3>1, CoverageChoices DEF PlanInv
    <3> QED
      BY <3>1, <3>2, CorpusFacts DEF PlanInv, FlowOnEdges, EdgesBuilt
  <2>2. mine \in Assignments
    BY <2>1 DEF Assignments
  <2>3. PICK f : f = Spread(Coverable, mine)
    OBVIOUS
  <2>4. f = assigned
    <3>1. \A e \in Ingresses : e \notin Coverable => assigned[e] = None
      BY PlanningNetwork DEF Flow, ThreeRanks
    <3>2. \A e \in Ingresses : f[e] = assigned[e]
      BY <2>3, <3>1 DEF Spread
    <3>3. f = [e \in Ingresses |-> f[e]] /\ assigned = [e \in Ingresses |-> assigned[e]]
      BY <2>3 DEF Spread, FlowInv
    <3> QED
      BY <3>2, <3>3
  <2>5. /\ Network(ranks, UnitCosts) /\ Priced(ranks, UnitCosts, f) /\ Flow(ranks, f)
        /\ \A e \in Ingresses : f[e] = None <=> e \notin Coverable
        /\ Total(Place(f), LastIngress) = Concentration(mine)
        /\ Total(Late(cap, f), LastIngress) = Overflow(mine)
        /\ Total(Tie(ranks, f), LastIngress) = TieBreak(mine)
    BY <2>2, <2>3, <2>4, AssignmentIsFlow, PlanningNetwork DEF FlowInv
  <2>6. ASSUME NEW a \in Assignments
        PROVE  /\ Overflow(mine) <= Overflow(a)
               /\ Concentration(mine) <= Concentration(a)
               /\ Overflow(a) = Overflow(mine) /\ Concentration(a) = Concentration(mine)
                    => TieBreak(mine) <= TieBreak(a)
    <3>1. PICK g : g = Spread(Coverable, a)
      OBVIOUS
    <3>2. /\ Flow(ranks, g)
          /\ \A e \in Ingresses : g[e] = None <=> e \notin Coverable
          /\ Total(Place(g), LastIngress) = Concentration(a)
          /\ Total(Late(cap, g), LastIngress) = Overflow(a)
          /\ Total(Tie(ranks, g), LastIngress) = TieBreak(a)
      BY <2>6, <3>1, AssignmentIsFlow
    <3>3. \A e \in Ingresses : g[e] = None <=> f[e] = None
      BY <2>5, <3>2
    <3>4. /\ Total(Place(f), LastIngress) <= Total(Place(g), LastIngress)
          /\ Total(Late(cap, f), LastIngress) <= Total(Late(cap, g), LastIngress)
      BY <2>5, <3>2, <3>3, PricedIsSpread
    <3>5. Total(Paid(ranks, UnitCosts, f), LastIngress)
            <= Total(Paid(ranks, UnitCosts, g), LastIngress)
      <4>1. PICK y : Prices(ranks, UnitCosts, f, y)
        BY <2>5 DEF Priced
      <4> QED
        BY <2>5, <3>2, <3>3, <4>1, PricedIsCheapest
    <3>6. Overflow(a) = Overflow(mine) /\ Concentration(a) = Concentration(mine)
            => TieBreak(mine) <= TieBreak(a)
      <4>1. PICK x : x = ConcentrationScale * Concentration(mine)
        OBVIOUS
      <4>2. PICK z : z = (CapOverflowPenalty * ConcentrationScale) * Overflow(mine)
        OBVIOUS
      <4> SUFFICES ASSUME Overflow(a) = Overflow(mine), Concentration(a) = Concentration(mine)
                   PROVE  TieBreak(mine) <= TieBreak(a)
        OBVIOUS
      <4>3. /\ Total(Paid(ranks, UnitCosts, f), LastIngress) = TieBreak(mine) + x + z
            /\ Total(Paid(ranks, UnitCosts, g), LastIngress) = TieBreak(a) + x + z
            /\ TieBreak(mine) \in Int /\ TieBreak(a) \in Int
            /\ Concentration(mine) \in Int /\ Overflow(mine) \in Int
        BY <2>5, <3>2, <4>1, <4>2, PaidIsWeighted
      <4>4. x \in Int /\ z \in Int
        <5>1. \A i, j \in Int : i * j \in Int
          OBVIOUS
        <5>2. ConcentrationScale \in Int /\ CapOverflowPenalty * ConcentrationScale \in Int
          BY ScaleType
        <5> QED
          BY <4>1, <4>2, <4>3, <5>1, <5>2
      <4> QED
        BY <3>5, <4>3, <4>4
    <3> QED
      BY <2>5, <3>2, <3>4, <3>6
  <2> QED
    BY <2>2, <2>6
<1> QED
  BY <1>1, CapInvariance, PlanInvariance, FlowInvariance, PTL
=============================================================================
