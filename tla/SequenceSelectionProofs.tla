------------------------ MODULE SequenceSelectionProofs ------------------------
(***************************************************************************)
(* What Without, Extended and Total return.  The recursions are unfolded   *)
(* by induction over the positions; the induction is stated for a set of   *)
(* numbers, which a proof instantiates with the numbers that have the      *)
(* property in question.                                                   *)
(***************************************************************************)
EXTENDS SequenceSelection, SequenceTheorems, NaturalsInduction,
        WellFoundedInduction, TLAPS

\* A nonempty set of numbers has a least element.
LEMMA LeastNumber ==
  ASSUME NEW S \in SUBSET Nat, S # {}
  PROVE  \E x \in S : \A y \in S : x <= y
<1>1. PICK x \in S : \A y \in S : ~ (<<y, x>> \in OpToRel(<, Nat))
  BY NatLessThanWellFounded, WFMin
<1>2. \A y \in S : ~ (y < x)
  BY <1>1 DEF OpToRel
<1> QED
  BY <1>2

\* Induction up to n, over a set of numbers.
LEMMA Induction ==
  ASSUME NEW n \in Nat, NEW P, 0 \in P,
         \A m \in 0 .. n : m # n /\ m \in P => m + 1 \in P
  PROVE  \A m \in 0 .. n : m \in P
<1> DEFINE Bad == {m \in 0 .. n : m \notin P}
<1>1. SUFFICES ASSUME Bad # {} PROVE FALSE
  OBVIOUS
<1>2. PICK b \in Bad : \A c \in Bad : b <= c
  <2>1. Bad \in SUBSET Nat
    OBVIOUS
  <2> HIDE DEF Bad
  <2> QED
    BY <1>1, <2>1, LeastNumber
<1>3. b # 0 /\ b \in 0 .. n
  BY <1>2
<1>4. b - 1 \in 0 .. n /\ b - 1 # n /\ b - 1 \in P
  BY <1>2, <1>3
<1>5. b \in P
  BY <1>3, <1>4
<1> QED
  BY <1>2, <1>5

\* The last number of the induction.
LEMMA InductionTo ==
  ASSUME NEW n \in Nat, NEW P, 0 \in P,
         \A m \in 0 .. n : m # n /\ m \in P => m + 1 \in P
  PROVE  n \in P
<1>1. \A m \in 0 .. n : m \in P
  BY Induction
<1> QED
  BY <1>1

--------------------------------------------------------------------------------
\* kept[n] is what Without keeps of the first n elements of s.
Keeps(kept, s, S, T) ==
  /\ kept \in [0 .. Len(s) -> Seq(T)]
  /\ kept[0] = << >>
  /\ \A n \in 1 .. Len(s) :
       kept[n] = IF s[n] \in S THEN kept[n - 1] ELSE Append(kept[n - 1], s[n])
  /\ Without(s, S) = kept[Len(s)]

\* The recursion of Without has a solution, and Without is its last value.
LEMMA WithoutUnfolds ==
  ASSUME NEW T, NEW s \in Seq(T), NEW S
  PROVE  \E kept : Keeps(kept, s, S, T)
<1> DEFINE Step(f, n) == IF n = 0 THEN << >>
                         ELSE IF s[n] \in S THEN f[n - 1] ELSE Append(f[n - 1], s[n])
           P == {m \in Nat : \E f \in [0 .. m -> Seq(T)] : f = [n \in 0 .. m |-> Step(f, n)]}
<1>1. Len(s) \in Nat
  OBVIOUS
<1>2. 0 \in P
  <2> DEFINE f == [n \in 0 .. 0 |-> << >>]
  <2>1. f = [n \in 0 .. 0 |-> Step(f, n)]
    OBVIOUS
  <2>2. f \in [0 .. 0 -> Seq(T)]
    OBVIOUS
  <2> QED
    BY <2>1, <2>2
<1>3. ASSUME NEW m \in 0 .. Len(s), m # Len(s), m \in P
      PROVE  m + 1 \in P
  <2>1. PICK g \in [0 .. m -> Seq(T)] : g = [n \in 0 .. m |-> Step(g, n)]
    BY <1>3
  <2> DEFINE last == Step(g, m + 1)
             f == [n \in 0 .. m + 1 |-> IF n = m + 1 THEN last ELSE g[n]]
  <2>2. last \in Seq(T)
    BY <1>3
  <2> HIDE DEF last
  <2>3. f \in [0 .. m + 1 -> Seq(T)]
    BY <2>2
  <2>4. ASSUME NEW n \in 0 .. m + 1 PROVE f[n] = Step(f, n)
    <3>1. CASE n = m + 1
      BY <3>1, <1>3 DEF last
    <3>2. CASE n # m + 1
      <4>1. n \in 0 .. m /\ f[n] = g[n]
        BY <2>4, <3>2
      <4>3. g[n] = Step(g, n)
        BY <2>1, <4>1
      <4>2. n # 0 => f[n - 1] = g[n - 1]
        BY <2>4, <3>2
      <4> QED
        BY <4>1, <4>2, <4>3
    <3> QED
      BY <3>1, <3>2
  <2>5. f = [n \in 0 .. m + 1 |-> Step(f, n)]
    BY <2>4
  <2>6. m + 1 \in Nat
    BY <1>3
  <2> HIDE DEF f
  <2> QED
    BY <2>3, <2>5, <2>6
<1>4. Len(s) \in P
  <2>1. \A m \in 0 .. Len(s) : m \in P
    <3> HIDE DEF P
    <3> QED
      BY <1>1, <1>2, <1>3, Induction
  <2> HIDE DEF P
  <2> QED
    BY <1>1, <2>1
<1> DEFINE kept == CHOOSE f : f = [n \in 0 .. Len(s) |-> Step(f, n)]
<1>5. PICK f \in [0 .. Len(s) -> Seq(T)] : f = [n \in 0 .. Len(s) |-> Step(f, n)]
  BY <1>4
<1>6. kept = [n \in 0 .. Len(s) |-> Step(kept, n)]
  BY <1>5
<1>7. Without(s, S) = kept[Len(s)]
  BY DEF Without
<1> HIDE DEF kept
<1>8. kept[0] = << >>
  BY <1>1, <1>6
<1>9. \A n \in 1 .. Len(s) :
        kept[n] = IF s[n] \in S THEN kept[n - 1] ELSE Append(kept[n - 1], s[n])
  <2> TAKE n \in 1 .. Len(s)
  <2>1. n \in 0 .. Len(s) /\ n # 0
    BY <1>1
  <2>2. kept[n] = Step(kept, n)
    BY <1>6, <2>1
  <2> QED
    BY <2>1, <2>2
<1>10. \A m \in 0 .. Len(s) : kept[m] \in Seq(T)
  <2> DEFINE Q == {m \in Nat : kept[m] \in Seq(T)}
  <2>1. 0 \in Q
    BY <1>8
  <2>2. ASSUME NEW m \in 0 .. Len(s), m # Len(s), m \in Q PROVE m + 1 \in Q
    <3>1. m + 1 \in 1 .. Len(s) /\ kept[m] \in Seq(T) /\ (m + 1) - 1 = m
      BY <1>1, <2>2
    <3>2. s[m + 1] \in T
      BY <3>1
    <3>3. kept[m + 1] = IF s[m + 1] \in S THEN kept[m] ELSE Append(kept[m], s[m + 1])
      BY <1>9, <3>1
    <3>4. kept[m + 1] \in Seq(T)
      BY <3>1, <3>2, <3>3
    <3> QED
      BY <1>1, <3>4
  <2>3. \A m \in 0 .. Len(s) : m \in Q
    <3> HIDE DEF Q
    <3> QED
      BY <1>1, <2>1, <2>2, Induction
  <2> QED
    BY <2>3
<1>11. kept \in [0 .. Len(s) -> Seq(T)]
  BY <1>6, <1>10
<1> QED
  BY <1>7, <1>8, <1>9, <1>11 DEF Keeps

\* Without keeps exactly the elements outside S.
LEMMA WithoutElements ==
  ASSUME NEW T, NEW s \in Seq(T), NEW S
  PROVE  /\ Without(s, S) \in Seq(T)
         /\ Len(Without(s, S)) <= Len(s)
         /\ \A x : (\E i \in DOMAIN Without(s, S) : Without(s, S)[i] = x) <=>
                     (x \notin S /\ \E i \in DOMAIN s : s[i] = x)
<1>0. PICK kept : Keeps(kept, s, S, T)
  BY WithoutUnfolds
<1>1. /\ kept \in [0 .. Len(s) -> Seq(T)]
      /\ kept[0] = << >>
      /\ \A n \in 1 .. Len(s) :
           kept[n] = IF s[n] \in S THEN kept[n - 1] ELSE Append(kept[n - 1], s[n])
      /\ Without(s, S) = kept[Len(s)]
  BY <1>0 DEF Keeps
<1>2. Len(s) \in Nat
  OBVIOUS
<1> DEFINE Good(n) ==
             /\ Len(kept[n]) <= n
             /\ \A x : (\E i \in DOMAIN kept[n] : kept[n][i] = x) <=>
                         (x \notin S /\ \E i \in 1 .. n : s[i] = x)
           Q == {n \in Nat : Good(n)}
<1>3. 0 \in Q
  BY <1>1
<1>4. ASSUME NEW n \in 0 .. Len(s), n # Len(s), n \in Q
      PROVE  n + 1 \in Q
  <2>0. n \in 0 .. Len(s) /\ n # Len(s)
    BY <1>4
  <2>1. /\ n + 1 \in 1 .. Len(s) /\ (n + 1) - 1 = n /\ n \in Nat
        /\ n \in 0 .. Len(s)
    BY <1>2, <2>0
  <2>2. kept[n + 1] = IF s[n + 1] \in S THEN kept[n] ELSE Append(kept[n], s[n + 1])
    BY <1>1, <2>1
  <2>3. s[n + 1] \in T /\ kept[n] \in Seq(T)
    <3>1. s[n + 1] \in T
      BY <2>1, ElementOfSeq
    <3>2. kept[n] \in Seq(T)
      BY <1>1, <2>1
    <3> QED
      BY <3>1, <3>2
  <2> DEFINE old == kept[n]
             new == kept[n + 1]
             e == s[n + 1]
  <2>4. /\ Len(old) <= n
        /\ \A x : (\E i \in DOMAIN old : old[i] = x) <=>
                    (x \notin S /\ \E i \in 1 .. n : s[i] = x)
    BY <1>4
  <2>5. \A x : (\E i \in 1 .. n + 1 : s[i] = x) <=> (x = e \/ \E i \in 1 .. n : s[i] = x)
    BY <2>1
  <2>6. CASE e \in S
    <3>1. new = old
      BY <2>2, <2>6
    <3>2. Len(new) <= n + 1
      <4>1. Len(old) \in Nat
        BY <2>3
      <4> QED
        BY <2>1, <2>4, <3>1, <4>1
    <3>3. \A x : (\E i \in DOMAIN new : new[i] = x) <=>
                   (x \notin S /\ \E i \in 1 .. n + 1 : s[i] = x)
      <4> HIDE DEF old, new, e
      <4> QED
        BY <2>4, <2>5, <2>6, <3>1
    <3> QED
      BY <2>1, <3>2, <3>3
  <2>7. CASE e \notin S
    <3>1. new = Append(old, e) /\ old \in Seq(T) /\ e \in T
      BY <2>2, <2>3, <2>7
    <3>2. /\ Len(new) = Len(old) + 1 /\ Len(old) \in Nat
          /\ DOMAIN new = 1 .. Len(old) + 1 /\ DOMAIN old = 1 .. Len(old)
          /\ \A i \in 1 .. Len(old) : new[i] = old[i]
          /\ new[Len(old) + 1] = e
      <4> HIDE DEF old, new, e
      <4> QED
        BY <3>1
    <3>3. Len(new) <= n + 1
      BY <2>1, <2>4, <3>2
    <3>4. \A x : (\E i \in DOMAIN new : new[i] = x) <=> (x = e \/ \E i \in DOMAIN old : old[i] = x)
      <4> HIDE DEF old, new, e
      <4> QED
        BY <3>2
    <3>5. \A x : (\E i \in DOMAIN new : new[i] = x) <=>
                   (x \notin S /\ \E i \in 1 .. n + 1 : s[i] = x)
      <4> HIDE DEF old, new, e
      <4> QED
        BY <2>4, <2>5, <2>7, <3>4
    <3> QED
      BY <2>1, <3>3, <3>5
  <2> QED
    BY <2>6, <2>7
<1>5. \A n \in 0 .. Len(s) : n \in Q
  <2> HIDE DEF Q
  <2> QED
    BY <1>2, <1>3, <1>4, Induction
<1>6. Good(Len(s))
  <2>1. Len(s) \in Q
    <3> HIDE DEF Q
    <3> QED
      BY <1>2, <1>5
  <2> QED
    BY <2>1
<1>7. \A x : (\E i \in DOMAIN s : s[i] = x) <=> (\E i \in 1 .. Len(s) : s[i] = x)
  OBVIOUS
<1>8. kept[Len(s)] \in Seq(T)
  BY <1>1, <1>2
<1> HIDE DEF Q
<1> QED
  BY <1>1, <1>6, <1>7, <1>8

\* When S holds a prefix of s, Without returns the rest.
LEMMA WithoutPrefix ==
  ASSUME NEW T, NEW s \in Seq(T), NEW S, NEW k \in 0 .. Len(s),
         \A i \in 1 .. Len(s) : s[i] \in S <=> i <= k
  PROVE  Without(s, S) = SubSeq(s, k + 1, Len(s))
<1>0. PICK kept : Keeps(kept, s, S, T)
  BY WithoutUnfolds
<1>1. /\ kept \in [0 .. Len(s) -> Seq(T)]
      /\ kept[0] = << >>
      /\ \A n \in 1 .. Len(s) :
           kept[n] = IF s[n] \in S THEN kept[n - 1] ELSE Append(kept[n - 1], s[n])
      /\ Without(s, S) = kept[Len(s)]
  BY <1>0 DEF Keeps
<1>2. Len(s) \in Nat /\ k \in Nat /\ k <= Len(s)
  OBVIOUS
<1> DEFINE Rest(n) == [i \in 1 .. (IF n <= k THEN 0 ELSE n - k) |-> s[k + i]]
           Q == {n \in Nat : kept[n] = Rest(n)}
<1>3. \A n \in 0 .. Len(s) : Rest(n) \in Seq(T)
  <2> TAKE n \in 0 .. Len(s)
  <2>1. CASE n <= k
    BY <1>2, <2>1
  <2>2. CASE n > k
    <3>1. n - k \in Nat /\ \A i \in 1 .. n - k : s[k + i] \in T
      BY <1>2, <2>2
    <3> QED
      BY <1>2, <2>2, <3>1
  <2> QED
    BY <1>2, <2>1, <2>2
<1>4. 0 \in Q
  <2>1. Rest(0) = << >>
    BY <1>2
  <2> QED
    BY <1>1, <2>1
<1>5. ASSUME NEW n \in 0 .. Len(s), n # Len(s), n \in Q
      PROVE  n + 1 \in Q
  <2>1. /\ n + 1 \in 1 .. Len(s) /\ (n + 1) - 1 = n /\ n \in Nat
        /\ s[n + 1] \in T
    BY <1>2, <1>5
  <2>2. kept[n + 1] = IF s[n + 1] \in S THEN kept[n] ELSE Append(kept[n], s[n + 1])
    BY <1>1, <2>1
  <2>3. kept[n] = Rest(n)
    BY <1>5
  <2>4. CASE n + 1 <= k
    <3>1. s[n + 1] \in S
      BY <2>1, <2>4
    <3>2. Rest(n + 1) = Rest(n)
      BY <1>2, <2>1, <2>4
    <3> HIDE DEF Rest
    <3> QED
      BY <2>1, <2>2, <2>3, <3>1, <3>2
  <2>5. CASE n + 1 > k
    <3>1. s[n + 1] \notin S
      BY <1>2, <2>1, <2>5
    <3>2. Rest(n) = [i \in 1 .. n - k |-> s[k + i]] /\ n - k \in Nat
      BY <1>2, <2>1, <2>5
    <3>3. Rest(n + 1) = [i \in 1 .. (n - k) + 1 |-> s[k + i]]
      <4>1. (n + 1) - k = (n - k) + 1
        BY <1>2, <2>1
      <4> QED
        BY <1>2, <2>1, <2>5, <4>1
    <3>4. Append(Rest(n), s[n + 1]) = Rest(n + 1)
      <4> DEFINE old == Rest(n)
                 new == Rest(n + 1)
      <4>1. /\ old \in Seq(T) /\ new \in Seq(T)
            /\ Len(old) = n - k /\ Len(new) = (n - k) + 1
        <5>1. n \in 0 .. Len(s) /\ n + 1 \in 0 .. Len(s)
          BY <1>2, <2>1
        <5>2. old \in Seq(T) /\ new \in Seq(T)
          BY <1>3, <5>1
        <5> HIDE DEF Rest
        <5> QED
          BY <3>2, <3>3, <5>2
      <4>2. \A i \in 1 .. n - k : new[i] = old[i]
        <5> HIDE DEF Rest
        <5> QED
          BY <3>2, <3>3
      <4>3. new[(n - k) + 1] = s[n + 1]
        <5>1. k + ((n - k) + 1) = n + 1 /\ (n - k) + 1 \in 1 .. (n - k) + 1
          BY <1>2, <2>1, <3>2
        <5> HIDE DEF Rest
        <5> QED
          BY <3>3, <5>1
      <4> HIDE DEF old, new
      <4>4. Append(old, s[n + 1]) = new
        BY <2>1, <3>2, <4>1, <4>2, <4>3
      <4> QED
        BY <4>4 DEF old, new
    <3> HIDE DEF Rest
    <3> QED
      BY <2>1, <2>2, <2>3, <3>1, <3>4
  <2> QED
    BY <1>2, <2>1, <2>4, <2>5
<1>6. \A n \in 0 .. Len(s) : n \in Q
  <2> HIDE DEF Q
  <2> QED
    BY <1>2, <1>4, <1>5, Induction
<1>7. Without(s, S) = Rest(Len(s))
  <2>1. Len(s) \in Q
    <3> HIDE DEF Q
    <3> QED
      BY <1>2, <1>6
  <2> QED
    BY <1>1, <2>1
<1>8. SubSeq(s, k + 1, Len(s)) = Rest(Len(s))
  <2> DEFINE q == SubSeq(s, k + 1, Len(s))
             r == Rest(Len(s))
  <2>1. /\ q \in Seq(T)
        /\ Len(q) = IF k + 1 <= Len(s) THEN Len(s) - (k + 1) + 1 ELSE 0
        /\ \A i \in 1 .. Len(s) - (k + 1) + 1 : q[i] = s[(k + 1) + i - 1]
    <3>1. \A i \in k + 1 .. Len(s) : s[i] \in T
      BY <1>2
    <3>2. k + 1 \in Int /\ Len(s) \in Int
      BY <1>2
    <3> QED
      BY <3>1, <3>2, SubSeqProperties
  <2>2. r \in Seq(T) /\ Len(r) = Len(s) - k /\ \A i \in 1 .. Len(s) - k : r[i] = s[k + i]
    <3>1. r \in Seq(T)
      BY <1>2, <1>3
    <3>2. r = [i \in 1 .. Len(s) - k |-> s[k + i]] /\ Len(s) - k \in Nat
      BY <1>2
    <3> QED
      BY <3>1, <3>2
  <2> HIDE DEF q, r
  <2>3. Len(q) = Len(s) - k /\ Len(r) = Len(s) - k
    BY <1>2, <2>1, <2>2
  <2>5. \A i \in 1 .. Len(s) - k : q[i] = r[i]
    <3> TAKE i \in 1 .. Len(s) - k
    <3>1. i \in 1 .. Len(s) - (k + 1) + 1 /\ (k + 1) + i - 1 = k + i
      BY <1>2
    <3> QED
      BY <2>1, <2>2, <3>1
  <2>4. q = r
    BY <2>1, <2>2, <2>3, <2>5, SeqEqual
  <2> QED
    BY <2>4 DEF q, r
<1> QED
  BY <1>7, <1>8

\* Without treats the parts of a concatenation one after the other.
LEMMA WithoutConcat ==
  ASSUME NEW T, NEW s \in Seq(T), NEW t \in Seq(T), NEW S
  PROVE  Without(s \o t, S) = Without(s, S) \o Without(t, S)
<1>1. /\ s \o t \in Seq(T) /\ Len(s) \in Nat /\ Len(t) \in Nat
      /\ Len(s \o t) = Len(s) + Len(t)
      /\ \A i \in 1 .. Len(s) : (s \o t)[i] = s[i]
      /\ \A i \in 1 .. Len(t) : (s \o t)[Len(s) + i] = t[i]
  BY ConcatProperties
<1>2. PICK u \in Seq(T) : u = s \o t
  BY <1>1
<1>3. PICK l \in Nat, m \in Nat : l = Len(s) /\ m = Len(t)
  BY <1>1
<1>4. PICK ks, kt, ku : Keeps(ks, s, S, T) /\ Keeps(kt, t, S, T) /\ Keeps(ku, u, S, T)
  BY WithoutUnfolds
<1>5. /\ ks \in [0 .. l -> Seq(T)] /\ ks[0] = << >>
      /\ \A n \in 1 .. l : ks[n] = IF s[n] \in S THEN ks[n - 1] ELSE Append(ks[n - 1], s[n])
      /\ Without(s, S) = ks[l]
  BY <1>3, <1>4 DEF Keeps
<1>6. /\ kt \in [0 .. m -> Seq(T)] /\ kt[0] = << >>
      /\ \A n \in 1 .. m : kt[n] = IF t[n] \in S THEN kt[n - 1] ELSE Append(kt[n - 1], t[n])
      /\ Without(t, S) = kt[m]
  BY <1>3, <1>4 DEF Keeps
<1>7. /\ ku[0] = << >>
      /\ \A n \in 1 .. l + m :
           ku[n] = IF u[n] \in S THEN ku[n - 1] ELSE Append(ku[n - 1], u[n])
      /\ Without(u, S) = ku[l + m]
  BY <1>1, <1>2, <1>3, <1>4 DEF Keeps
<1>8. /\ \A i \in 1 .. l : u[i] = s[i]
      /\ \A i \in 1 .. m : u[l + i] = t[i] /\ t[i] \in T
  BY <1>1, <1>2, <1>3
<1>9. ku[l] = ks[l]
  <2> DEFINE Q == {n \in Nat : ku[n] = ks[n]}
  <2>1. 0 \in Q
    BY <1>5, <1>7
  <2>2. ASSUME NEW n \in 0 .. l, n # l, n \in Q PROVE n + 1 \in Q
    <3>1. n + 1 \in 1 .. l /\ n + 1 \in 1 .. l + m /\ (n + 1) - 1 = n /\ ku[n] = ks[n]
      BY <1>3, <2>2
    <3>2. ks[n + 1] = IF s[n + 1] \in S THEN ks[n] ELSE Append(ks[n], s[n + 1])
      BY <1>5, <3>1
    <3>3. ku[n + 1] = IF u[n + 1] \in S THEN ku[n] ELSE Append(ku[n], u[n + 1])
      BY <1>7, <3>1
    <3>4. ku[n + 1] = ks[n + 1]
      BY <1>8, <3>1, <3>2, <3>3
    <3> QED
      BY <3>1, <3>4
  <2>3. \A n \in 0 .. l : n \in Q
    <3> HIDE DEF Q
    <3> QED
      BY <2>1, <2>2, Induction
  <2> QED
    BY <2>3
<1>10. ku[l + m] = ks[l] \o kt[m]
  <2> DEFINE Q == {n \in Nat : ku[l + n] = ks[l] \o kt[n]}
  <2>0. ks[l] \in Seq(T)
    BY <1>5
  <2>1. 0 \in Q
    <3>1. ks[l] \o << >> = ks[l] /\ l + 0 = l
      BY <2>0
    <3> QED
      BY <1>6, <1>9, <3>1
  <2>2. ASSUME NEW n \in 0 .. m, n # m, n \in Q PROVE n + 1 \in Q
    <3>0. ku[l + n] = ks[l] \o kt[n]
      BY <2>2
    <3> HIDE DEF Q
    <3>1. /\ n + 1 \in 1 .. m /\ l + (n + 1) \in 1 .. l + m /\ (n + 1) - 1 = n /\ n \in Nat
          /\ (l + (n + 1)) - 1 = l + n /\ n + 1 \in Nat
      BY <1>3, <2>2
    <3>2. kt[n + 1] = IF t[n + 1] \in S THEN kt[n] ELSE Append(kt[n], t[n + 1])
      BY <1>6, <3>1
    <3>3. ku[l + (n + 1)] = IF u[l + (n + 1)] \in S THEN ku[l + n]
                            ELSE Append(ku[l + n], u[l + (n + 1)])
      BY <1>7, <3>1
    <3>4. u[l + (n + 1)] = t[n + 1] /\ t[n + 1] \in T /\ kt[n] \in Seq(T)
      BY <1>6, <1>8, <3>1
    <3>5. Append(ks[l] \o kt[n], t[n + 1]) = ks[l] \o Append(kt[n], t[n + 1])
      <4>1. PICK a \in Seq(T), b \in Seq(T), x \in T : a = ks[l] /\ b = kt[n] /\ x = t[n + 1]
        BY <2>0, <3>4
      <4>2. a \o b \in Seq(T) /\ <<x>> \in Seq(T)
        BY ConcatProperties
      <4>3. Append(a \o b, x) = (a \o b) \o <<x>> /\ Append(b, x) = b \o <<x>>
        BY <4>2, AppendIsConcat
      <4>4. (a \o b) \o <<x>> = a \o (b \o <<x>>)
        BY <4>2, ConcatAssociative
      <4> QED
        BY <4>1, <4>3, <4>4
    <3>6. ku[l + (n + 1)] = ks[l] \o kt[n + 1]
      BY <3>0, <3>1, <3>2, <3>3, <3>4, <3>5
    <3> QED
      BY <3>1, <3>6 DEF Q
  <2>3. \A n \in 0 .. m : n \in Q
    <3> HIDE DEF Q
    <3> QED
      BY <2>1, <2>2, Induction
  <2>4. m \in Q
    <3> HIDE DEF Q
    <3> QED
      BY <1>3, <2>3
  <2> QED
    BY <2>4
<1> QED
  BY <1>2, <1>5, <1>6, <1>7, <1>10

\* Nothing is kept when S holds everything, and everything when it holds nothing.
LEMMA WithoutAllOrNone ==
  ASSUME NEW T, NEW s \in Seq(T), NEW S
  PROVE  /\ (\A i \in 1 .. Len(s) : s[i] \in S) => Without(s, S) = << >>
         /\ (\A i \in 1 .. Len(s) : s[i] \notin S) => Without(s, S) = s
<1>1. Len(s) \in Nat /\ 0 \in 0 .. Len(s) /\ Len(s) \in 0 .. Len(s)
  OBVIOUS
<1>2. ASSUME \A i \in 1 .. Len(s) : s[i] \in S PROVE Without(s, S) = << >>
  <2>1. \A i \in 1 .. Len(s) : s[i] \in S <=> i <= Len(s)
    BY <1>2
  <2>2. Without(s, S) = SubSeq(s, Len(s) + 1, Len(s))
    BY <1>1, <2>1, WithoutPrefix
  <2> QED
    BY <1>1, <2>2
<1>3. ASSUME \A i \in 1 .. Len(s) : s[i] \notin S PROVE Without(s, S) = s
  <2>1. \A i \in 1 .. Len(s) : s[i] \in S <=> i <= 0
    BY <1>3
  <2>2. Without(s, S) = SubSeq(s, 0 + 1, Len(s))
    BY <1>1, <2>1, WithoutPrefix
  <2>3. SubSeq(s, 1, Len(s)) = s /\ 0 + 1 = 1
    OBVIOUS
  <2> QED
    BY <2>2, <2>3
<1> QED
  BY <1>2, <1>3

--------------------------------------------------------------------------------
\* joined[n] is s extended by the first n elements of q.
Joins(joined, s, q, T) ==
  /\ joined \in [0 .. Len(q) -> Seq(T)]
  /\ joined[0] = s
  /\ \A n \in 1 .. Len(q) : joined[n] = joined[n - 1] \o q[n]
  /\ Extended(s, q) = joined[Len(q)]

\* The recursion of Extended has a solution, and Extended is its last value.
LEMMA ExtendedUnfolds ==
  ASSUME NEW T, NEW s \in Seq(T), NEW q \in Seq(Seq(T))
  PROVE  \E joined : Joins(joined, s, q, T)
<1> DEFINE Step(f, n) == IF n = 0 THEN s ELSE f[n - 1] \o q[n]
           P == {m \in Nat : \E f \in [0 .. m -> Seq(T)] : f = [n \in 0 .. m |-> Step(f, n)]}
<1>1. Len(q) \in Nat
  OBVIOUS
<1>2. 0 \in P
  <2> DEFINE f == [n \in 0 .. 0 |-> s]
  <2>1. f = [n \in 0 .. 0 |-> Step(f, n)]
    OBVIOUS
  <2>2. f \in [0 .. 0 -> Seq(T)]
    OBVIOUS
  <2> QED
    BY <2>1, <2>2
<1>3. ASSUME NEW m \in 0 .. Len(q), m # Len(q), m \in P
      PROVE  m + 1 \in P
  <2>1. PICK g \in [0 .. m -> Seq(T)] : g = [n \in 0 .. m |-> Step(g, n)]
    BY <1>3
  <2> DEFINE last == Step(g, m + 1)
             f == [n \in 0 .. m + 1 |-> IF n = m + 1 THEN last ELSE g[n]]
  <2>2. last \in Seq(T)
    <3>1. g[m] \in Seq(T) /\ q[m + 1] \in Seq(T) /\ (m + 1) - 1 = m /\ m + 1 # 0
      BY <1>3
    <3>2. g[m] \o q[m + 1] \in Seq(T)
      BY <3>1
    <3> QED
      BY <3>1, <3>2
  <2> HIDE DEF last
  <2>3. f \in [0 .. m + 1 -> Seq(T)]
    BY <2>2
  <2>4. ASSUME NEW n \in 0 .. m + 1 PROVE f[n] = Step(f, n)
    <3>1. CASE n = m + 1
      BY <3>1, <1>3 DEF last
    <3>2. CASE n # m + 1
      <4>1. n \in 0 .. m /\ f[n] = g[n]
        BY <2>4, <3>2
      <4>3. g[n] = Step(g, n)
        BY <2>1, <4>1
      <4>2. n # 0 => f[n - 1] = g[n - 1]
        BY <2>4, <3>2
      <4> QED
        BY <4>1, <4>2, <4>3
    <3> QED
      BY <3>1, <3>2
  <2>5. f = [n \in 0 .. m + 1 |-> Step(f, n)]
    BY <2>4
  <2>6. m + 1 \in Nat
    BY <1>3
  <2> HIDE DEF f
  <2> QED
    BY <2>3, <2>5, <2>6
<1>4. Len(q) \in P
  <2>1. \A m \in 0 .. Len(q) : m \in P
    <3> HIDE DEF P
    <3> QED
      BY <1>1, <1>2, <1>3, Induction
  <2> HIDE DEF P
  <2> QED
    BY <1>1, <2>1
<1> DEFINE joined == CHOOSE f : f = [n \in 0 .. Len(q) |-> Step(f, n)]
<1>5. PICK f \in [0 .. Len(q) -> Seq(T)] : f = [n \in 0 .. Len(q) |-> Step(f, n)]
  BY <1>4
<1>6. joined = [n \in 0 .. Len(q) |-> Step(joined, n)]
  BY <1>5
<1>7. Extended(s, q) = joined[Len(q)]
  BY DEF Extended
<1> HIDE DEF joined
<1>8. joined[0] = s
  BY <1>1, <1>6
<1>9. \A n \in 1 .. Len(q) : joined[n] = joined[n - 1] \o q[n]
  <2> TAKE n \in 1 .. Len(q)
  <2>1. n \in 0 .. Len(q) /\ n # 0
    BY <1>1
  <2>2. joined[n] = Step(joined, n)
    BY <1>6, <2>1
  <2> QED
    BY <2>1, <2>2
<1>10. \A m \in 0 .. Len(q) : joined[m] \in Seq(T)
  <2> DEFINE Q == {m \in Nat : joined[m] \in Seq(T)}
  <2>1. 0 \in Q
    BY <1>8
  <2>2. ASSUME NEW m \in 0 .. Len(q), m # Len(q), m \in Q PROVE m + 1 \in Q
    <3>1. m + 1 \in 1 .. Len(q) /\ joined[m] \in Seq(T) /\ (m + 1) - 1 = m
      BY <1>1, <2>2
    <3>2. q[m + 1] \in Seq(T)
      BY <3>1
    <3>3. joined[m + 1] = joined[m] \o q[m + 1]
      BY <1>9, <3>1
    <3>4. joined[m + 1] \in Seq(T)
      BY <3>1, <3>2, <3>3
    <3> QED
      BY <1>1, <3>4
  <2>3. \A m \in 0 .. Len(q) : m \in Q
    <3> HIDE DEF Q
    <3> QED
      BY <1>1, <2>1, <2>2, Induction
  <2> QED
    BY <2>3
<1>11. joined \in [0 .. Len(q) -> Seq(T)]
  BY <1>6, <1>10
<1> QED
  BY <1>7, <1>8, <1>9, <1>11 DEF Joins

\* s is a prefix of what it is extended to.
LEMMA ExtendedPrefix ==
  ASSUME NEW T, NEW s \in Seq(T), NEW q \in Seq(Seq(T))
  PROVE  /\ Extended(s, q) \in Seq(T)
         /\ \A i \in 1 .. Len(s) : i \in 1 .. Len(Extended(s, q)) /\ Extended(s, q)[i] = s[i]
<1>1. PICK joined : Joins(joined, s, q, T)
  BY ExtendedUnfolds
<1>0. /\ joined \in [0 .. Len(q) -> Seq(T)] /\ joined[0] = s
      /\ \A n \in 1 .. Len(q) : joined[n] = joined[n - 1] \o q[n]
      /\ Extended(s, q) = joined[Len(q)]
  BY <1>1 DEF Joins
<1>9. Len(q) \in Nat /\ \A n \in 1 .. Len(q) : q[n] \in Seq(T)
  OBVIOUS
<1>2. /\ \A n \in 0 .. Len(q) : joined[n] \in Seq(T)
      /\ joined[0] = s
      /\ \A n \in 1 .. Len(q) : joined[n] = joined[n - 1] \o q[n]
      /\ Extended(s, q) = joined[Len(q)] /\ Len(q) \in Nat
  BY <1>0, <1>9
<1> DEFINE Holds(t) == \A i \in 1 .. Len(s) : i \in 1 .. Len(t) /\ t[i] = s[i]
           Q == {n \in Nat : Holds(joined[n])}
<1>3. 0 \in Q
  BY <1>2
<1>4. ASSUME NEW n \in 0 .. Len(q), n # Len(q), n \in Q PROVE n + 1 \in Q
  <2>1. n + 1 \in 1 .. Len(q) /\ (n + 1) - 1 = n /\ n \in Nat /\ Holds(joined[n])
    BY <1>2, <1>4
  <2>2. joined[n + 1] = joined[n] \o q[n + 1] /\ joined[n] \in Seq(T) /\ q[n + 1] \in Seq(T)
    <3>1. joined[n + 1] = joined[n] \o q[n + 1] /\ q[n + 1] \in Seq(T)
      BY <1>0, <1>9, <2>1
    <3>2. joined[n] \in Seq(T)
      BY <1>2, <1>4
    <3> QED
      BY <3>1, <3>2
  <2>3. ASSUME NEW a \in Seq(T), NEW b \in Seq(T), Holds(a) PROVE Holds(a \o b)
    <3>1. /\ Len(a \o b) = Len(a) + Len(b) /\ Len(a) \in Nat /\ Len(b) \in Nat
          /\ \A i \in 1 .. Len(a) : (a \o b)[i] = a[i]
      BY ConcatProperties
    <3>2. \A i \in 1 .. Len(a) : i \in 1 .. Len(a \o b)
      BY <3>1
    <3> QED
      BY <2>3, <3>1, <3>2
  <2> HIDE DEF Holds
  <2>4. Holds(joined[n + 1])
    BY <2>1, <2>2, <2>3
  <2> QED
    BY <2>1, <2>4
<1>5. Holds(joined[Len(q)])
  <2>1. \A n \in 0 .. Len(q) : n \in Q
    <3> HIDE DEF Q
    <3> QED
      BY <1>2, <1>3, <1>4, Induction
  <2> HIDE DEF Holds
  <2> QED
    BY <1>2, <2>1
<1>6. joined[Len(q)] \in Seq(T)
  BY <1>2
<1> QED
  BY <1>2, <1>5, <1>6

\* Of the lists a sequence is extended by, Without keeps the one that has anything
\* to keep.
LEMMA ExtendedSelects ==
  ASSUME NEW T, NEW s \in Seq(T), NEW q \in Seq(Seq(T)), NEW S, NEW k \in 0 .. Len(q),
         \A i \in 1 .. Len(q) : i # k => Without(q[i], S) = << >>
  PROVE  Without(Extended(s, q), S) =
           IF k = 0 THEN Without(s, S) ELSE Without(s, S) \o Without(q[k], S)
<1>1. PICK joined : Joins(joined, s, q, T)
  BY ExtendedUnfolds
<1>0. /\ joined \in [0 .. Len(q) -> Seq(T)] /\ joined[0] = s
      /\ \A n \in 1 .. Len(q) : joined[n] = joined[n - 1] \o q[n]
      /\ Extended(s, q) = joined[Len(q)]
  BY <1>1 DEF Joins
<1>9. Len(q) \in Nat /\ \A n \in 1 .. Len(q) : q[n] \in Seq(T)
  OBVIOUS
<1>8. k \in Nat /\ k <= Len(q)
  BY <1>9
<1>2. /\ \A n \in 0 .. Len(q) : joined[n] \in Seq(T)
      /\ joined[0] = s
      /\ \A n \in 1 .. Len(q) : joined[n] = joined[n - 1] \o q[n]
      /\ Extended(s, q) = joined[Len(q)] /\ Len(q) \in Nat /\ k \in Nat /\ k <= Len(q)
  BY <1>0, <1>8, <1>9
<1> DEFINE before == Without(s, S)
           after == Without(s, S) \o Without(q[k], S)
           Q == {n \in Nat : Without(joined[n], S) = IF k = 0 \/ n < k THEN before ELSE after}
<1>3. 0 \in Q
  <2>1. k = 0 \/ 0 < k
    BY <1>2
  <2> QED
    BY <1>2, <2>1
<1>4. ASSUME NEW n \in 0 .. Len(q), n # Len(q), n \in Q PROVE n + 1 \in Q
  <2>1. /\ n + 1 \in 1 .. Len(q) /\ (n + 1) - 1 = n /\ n \in Nat
        /\ Without(joined[n], S) = IF k = 0 \/ n < k THEN before ELSE after
    BY <1>2, <1>4
  <2>2. joined[n + 1] = joined[n] \o q[n + 1] /\ joined[n] \in Seq(T) /\ q[n + 1] \in Seq(T)
    <3>1. joined[n + 1] = joined[n] \o q[n + 1] /\ q[n + 1] \in Seq(T)
      BY <1>0, <1>9, <2>1
    <3>2. joined[n] \in Seq(T)
      BY <1>2, <1>4
    <3> QED
      BY <3>1, <3>2
  <2>3. Without(joined[n + 1], S) = Without(joined[n], S) \o Without(q[n + 1], S)
    <3>1. \A a, b \in Seq(T) : Without(a \o b, S) = Without(a, S) \o Without(b, S)
      BY WithoutConcat
    <3> QED
      BY <2>2, <3>1
  <2>4. CASE n + 1 = k
    <3>1. n < k /\ ~ (n + 1 < k) /\ k # 0
      BY <1>2, <2>1, <2>4
    <3>2. Without(joined[n + 1], S) = after
      BY <2>1, <2>3, <2>4, <3>1
    <3> HIDE DEF before, after
    <3> QED
      BY <2>1, <3>1, <3>2
  <2>5. CASE n + 1 # k
    <3>1. Without(q[n + 1], S) = << >> /\ Without(joined[n], S) \in Seq(T)
      BY <2>1, <2>2, <2>5, WithoutElements
    <3>2. Without(joined[n + 1], S) = Without(joined[n], S)
      BY <2>3, <3>1
    <3>3. (n < k) <=> (n + 1 < k)
      BY <1>2, <2>1, <2>5
    <3> HIDE DEF before, after
    <3> QED
      BY <2>1, <3>2, <3>3
  <2> QED
    BY <2>4, <2>5
<1>5. Without(joined[Len(q)], S) = IF k = 0 \/ Len(q) < k THEN before ELSE after
  <2>1. \A n \in 0 .. Len(q) : n \in Q
    <3> HIDE DEF Q
    <3> QED
      BY <1>2, <1>3, <1>4, Induction
  <2> QED
    BY <1>2, <2>1
<1> QED
  BY <1>2, <1>5

-----------------------------------------------------------------------------
\* g is the running total of f[1], ..., f[n].
Totals(g, f, n) ==
  /\ g \in [0 .. n -> Int] /\ g[0] = 0
  /\ \A i \in 1 .. n : g[i] = g[i - 1] + f[i]

\* The recursion of Total has a solution.
LEMMA TotalIsLast ==
  ASSUME NEW n \in Nat, NEW f, \A i \in 1 .. n : f[i] \in Int
  PROVE  \E g : Totals(g, f, n) /\ Total(f, n) = g[n]
<1> DEFINE Step(g, i) == IF i = 0 THEN 0 ELSE g[i - 1] + f[i]
           P == {m \in Nat : \E g \in [0 .. m -> Int] : g = [i \in 0 .. m |-> Step(g, i)]}
<1>1. 0 \in P
  <2> DEFINE g == [i \in 0 .. 0 |-> 0]
  <2>1. g = [i \in 0 .. 0 |-> Step(g, i)] /\ g \in [0 .. 0 -> Int]
    OBVIOUS
  <2> QED
    BY <2>1
<1>2. ASSUME NEW m \in 0 .. n, m # n, m \in P
      PROVE  m + 1 \in P
  <2>1. PICK g \in [0 .. m -> Int] : g = [i \in 0 .. m |-> Step(g, i)]
    BY <1>2
  <2> DEFINE last == Step(g, m + 1)
             h == [i \in 0 .. m + 1 |-> IF i = m + 1 THEN last ELSE g[i]]
  <2>2. last \in Int
    <3>1. g[m] \in Int /\ f[m + 1] \in Int /\ (m + 1) - 1 = m /\ m + 1 # 0
      BY <1>2
    <3> QED
      BY <3>1
  <2> HIDE DEF last
  <2>3. h \in [0 .. m + 1 -> Int]
    BY <2>2
  <2>4. ASSUME NEW i \in 0 .. m + 1 PROVE h[i] = Step(h, i)
    <3>1. CASE i = m + 1
      BY <3>1, <1>2 DEF last
    <3>2. CASE i # m + 1
      <4>1. i \in 0 .. m /\ h[i] = g[i]
        BY <2>4, <3>2
      <4>2. i # 0 => h[i - 1] = g[i - 1]
        BY <2>4, <3>2
      <4>3. g[i] = Step(g, i)
        BY <2>1, <4>1
      <4> QED
        BY <4>1, <4>2, <4>3
    <3> QED
      BY <3>1, <3>2
  <2>5. h = [i \in 0 .. m + 1 |-> Step(h, i)]
    BY <2>4
  <2>6. m + 1 \in Nat
    BY <1>2
  <2> HIDE DEF h
  <2> QED
    BY <2>3, <2>5, <2>6
<1>3. n \in P
  <2> HIDE DEF P
  <2> QED
    BY <1>1, <1>2, InductionTo
<1> DEFINE sum == CHOOSE g : g = [i \in 0 .. n |-> Step(g, i)]
<1>4. PICK g \in [0 .. n -> Int] : g = [i \in 0 .. n |-> Step(g, i)]
  BY <1>3
<1>5. sum = [i \in 0 .. n |-> Step(sum, i)]
  BY <1>4
<1>6. Total(f, n) = sum[n]
  BY DEF Total
<1> HIDE DEF sum
<1>7. sum[0] = 0
  BY <1>5
<1>8. \A i \in 1 .. n : sum[i] = sum[i - 1] + f[i]
  <2> TAKE i \in 1 .. n
  <2>1. i \in 0 .. n /\ i # 0
    OBVIOUS
  <2> QED
    BY <1>5, <2>1
<1>9. \A m \in 0 .. n : sum[m] \in Int
  <2> DEFINE Q == {m \in Nat : sum[m] \in Int}
  <2>1. 0 \in Q
    BY <1>7
  <2>2. ASSUME NEW m \in 0 .. n, m # n, m \in Q PROVE m + 1 \in Q
    <3>1. m + 1 \in 1 .. n /\ (m + 1) - 1 = m /\ m + 1 \in Nat
      BY <2>2
    <3>2. sum[m + 1] = sum[m] + f[m + 1] /\ f[m + 1] \in Int
      BY <1>8, <3>1
    <3> QED
      BY <2>2, <3>1, <3>2
  <2>3. \A m \in 0 .. n : m \in Q
    <3> HIDE DEF Q
    <3> QED
      BY <2>1, <2>2, Induction
  <2> QED
    BY <2>3
<1>10. sum \in [0 .. n -> Int]
  BY <1>5, <1>9
<1> QED
  BY <1>6, <1>7, <1>8, <1>10 DEF Totals

\* The value of a sum on the empty range and with one term more.
LEMMA TotalUnfolds ==
  ASSUME NEW n \in Nat, NEW f, \A i \in 1 .. n : f[i] \in Int
  PROVE  /\ Total(f, 0) = 0
         /\ \A i \in 0 .. n : Total(f, i) \in Int
         /\ \A i \in 1 .. n : Total(f, i) = Total(f, i - 1) + f[i]
<1>1. PICK g : Totals(g, f, n) /\ Total(f, n) = g[n]
  BY TotalIsLast
<1>2. \A i \in 0 .. n : Total(f, i) = g[i]
  <2> TAKE m \in 0 .. n
  <2>1. PICK h : Totals(h, f, m) /\ Total(f, m) = h[m]
    BY TotalIsLast
  <2> DEFINE Q == {i \in 0 .. m : g[i] = h[i]}
  <2>2. 0 \in Q
    BY <1>1, <2>1 DEF Totals
  <2>3. ASSUME NEW i \in 0 .. m, i # m, i \in Q PROVE i + 1 \in Q
    <3>1. i + 1 \in 1 .. m /\ i + 1 \in 1 .. n /\ (i + 1) - 1 = i /\ i + 1 \in 0 .. m
      BY <2>3
    <3>2. g[i + 1] = g[i] + f[i + 1] /\ h[i + 1] = h[i] + f[i + 1]
      BY <1>1, <2>1, <3>1 DEF Totals
    <3> QED
      BY <2>3, <3>1, <3>2
  <2>4. m \in Q
    <3> HIDE DEF Q
    <3> QED
      BY <2>2, <2>3, InductionTo
  <2> QED
    BY <2>1, <2>4
<1>3. \A i \in 1 .. n : i - 1 \in 0 .. n /\ i \in 0 .. n
  OBVIOUS
<1> QED
  BY <1>1, <1>2, <1>3 DEF Totals

\* Sums are compared term by term.
LEMMA TotalMonotone ==
  ASSUME NEW n \in Nat, NEW f, NEW g,
         \A i \in 1 .. n : f[i] \in Int /\ g[i] \in Int /\ f[i] <= g[i]
  PROVE  Total(f, n) <= Total(g, n)
<1> DEFINE Q == {m \in Nat : Total(f, m) <= Total(g, m)}
<1>1. /\ Total(f, 0) = 0 /\ Total(g, 0) = 0
      /\ \A i \in 0 .. n : Total(f, i) \in Int /\ Total(g, i) \in Int
      /\ \A i \in 1 .. n : Total(f, i) = Total(f, i - 1) + f[i]
                           /\ Total(g, i) = Total(g, i - 1) + g[i]
  BY TotalUnfolds
<1>2. 0 \in Q
  BY <1>1
<1>3. ASSUME NEW m \in 0 .. n, m # n, m \in Q PROVE m + 1 \in Q
  <2>1. m + 1 \in 1 .. n /\ (m + 1) - 1 = m /\ m + 1 \in Nat
    BY <1>3
  <2>2. Total(f, m + 1) = Total(f, m) + f[m + 1] /\ Total(g, m + 1) = Total(g, m) + g[m + 1]
    BY <1>1, <2>1
  <2>3. f[m + 1] \in Int /\ g[m + 1] \in Int /\ f[m + 1] <= g[m + 1]
    BY <2>1
  <2>4. Total(f, m) \in Int /\ Total(g, m) \in Int /\ Total(f, m) <= Total(g, m)
    BY <1>1, <1>3
  <2>5. Total(f, m + 1) <= Total(g, m + 1)
    BY <2>2, <2>3, <2>4
  <2> QED
    BY <2>1, <2>5
<1>4. n \in Q
  <2> HIDE DEF Q
  <2> QED
    BY <1>2, <1>3, InductionTo
<1> QED
  BY <1>4

\* A sum is about its terms only.
LEMMA TotalSame ==
  ASSUME NEW n \in Nat, NEW f, NEW g,
         \A i \in 1 .. n : f[i] \in Int /\ g[i] = f[i]
  PROVE  Total(f, n) = Total(g, n)
<1>1. Total(f, n) <= Total(g, n) /\ Total(g, n) <= Total(f, n)
  BY TotalMonotone
<1>2. Total(f, n) \in Int /\ Total(g, n) \in Int
  BY TotalUnfolds
<1> QED
  BY <1>1, <1>2

\* Sums are added term by term, with a factor.
LEMMA TotalPlus ==
  ASSUME NEW n \in Nat, NEW f, NEW g, NEW h, NEW s \in Int,
         \A i \in 1 .. n : f[i] \in Int /\ g[i] \in Int /\ h[i] = f[i] + s * g[i]
  PROVE  Total(h, n) = Total(f, n) + s * Total(g, n)
<1> DEFINE Q == {m \in Nat : Total(h, m) = Total(f, m) + s * Total(g, m)}
<1>0. \A i \in 1 .. n : h[i] \in Int
  OBVIOUS
<1>1. /\ Total(f, 0) = 0 /\ Total(g, 0) = 0 /\ Total(h, 0) = 0
      /\ \A i \in 0 .. n : Total(f, i) \in Int /\ Total(g, i) \in Int
      /\ \A i \in 1 .. n : /\ Total(f, i) = Total(f, i - 1) + f[i]
                           /\ Total(g, i) = Total(g, i - 1) + g[i]
                           /\ Total(h, i) = Total(h, i - 1) + h[i]
  BY <1>0, TotalUnfolds
<1>2. 0 \in Q
  BY <1>1
<1>3. ASSUME NEW m \in 0 .. n, m # n, m \in Q PROVE m + 1 \in Q
  <2>1. m + 1 \in 1 .. n /\ (m + 1) - 1 = m /\ m + 1 \in Nat
    BY <1>3
  <2>2. /\ Total(f, m + 1) = Total(f, m) + f[m + 1]
        /\ Total(g, m + 1) = Total(g, m) + g[m + 1]
        /\ Total(h, m + 1) = Total(h, m) + h[m + 1]
    BY <1>1, <2>1
  <2>3. /\ f[m + 1] \in Int /\ g[m + 1] \in Int /\ h[m + 1] = f[m + 1] + s * g[m + 1]
        /\ Total(f, m) \in Int /\ Total(g, m) \in Int
        /\ Total(h, m) = Total(f, m) + s * Total(g, m)
    BY <1>1, <1>3, <2>1
  <2>4. \A x, y \in Int : s * (x + y) = s * x + s * y
    OBVIOUS
  <2>5. s * (Total(g, m) + g[m + 1]) = s * Total(g, m) + s * g[m + 1]
    BY <2>3, <2>4
  <2>6. s * Total(g, m) \in Int /\ s * g[m + 1] \in Int
    BY <2>3
  <2>7. Total(h, m + 1) = Total(f, m + 1) + s * Total(g, m + 1)
    BY <2>2, <2>3, <2>5, <2>6
  <2> QED
    BY <2>1, <2>7
<1>4. n \in Q
  <2> HIDE DEF Q
  <2> QED
    BY <1>2, <1>3, InductionTo
<1> QED
  BY <1>4

\* One term changed.
LEMMA TotalChange ==
  ASSUME NEW n \in Nat, NEW f, NEW g, NEW k \in 1 .. n,
         \A i \in 1 .. n : f[i] \in Int /\ g[i] \in Int /\ (i # k => g[i] = f[i])
  PROVE  Total(g, n) = Total(f, n) - f[k] + g[k]
<1> DEFINE Q == {m \in Nat : Total(g, m) = IF m < k THEN Total(f, m)
                                           ELSE Total(f, m) - f[k] + g[k]}
<1>1. /\ Total(f, 0) = 0 /\ Total(g, 0) = 0
      /\ \A i \in 0 .. n : Total(f, i) \in Int /\ Total(g, i) \in Int
      /\ \A i \in 1 .. n : Total(f, i) = Total(f, i - 1) + f[i]
                           /\ Total(g, i) = Total(g, i - 1) + g[i]
  BY TotalUnfolds
<1>2. 0 \in Q
  BY <1>1
<1>3. ASSUME NEW m \in 0 .. n, m # n, m \in Q PROVE m + 1 \in Q
  <2>1. m + 1 \in 1 .. n /\ (m + 1) - 1 = m /\ m + 1 \in Nat
    BY <1>3
  <2>2. Total(f, m + 1) = Total(f, m) + f[m + 1] /\ Total(g, m + 1) = Total(g, m) + g[m + 1]
    BY <1>1, <2>1
  <2>3. /\ f[m + 1] \in Int /\ g[m + 1] \in Int /\ f[k] \in Int /\ g[k] \in Int
        /\ Total(f, m) \in Int /\ Total(g, m) \in Int
        /\ m + 1 # k => g[m + 1] = f[m + 1]
    BY <1>1, <2>1
  <2>4. Total(g, m) = IF m < k THEN Total(f, m) ELSE Total(f, m) - f[k] + g[k]
    BY <1>3
  <2>5. CASE m + 1 < k
    BY <2>1, <2>2, <2>3, <2>4, <2>5
  <2>6. CASE m + 1 = k
    BY <2>1, <2>2, <2>3, <2>4, <2>6
  <2>7. CASE m + 1 > k
    BY <2>1, <2>2, <2>3, <2>4, <2>7
  <2> QED
    BY <2>1, <2>5, <2>6, <2>7
<1>4. n \in Q
  <2> HIDE DEF Q
  <2> QED
    BY <1>2, <1>3, InductionTo
<1> QED
  BY <1>4
=============================================================================
