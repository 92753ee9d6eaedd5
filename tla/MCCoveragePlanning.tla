-------------------------- MODULE MCCoveragePlanning --------------------------
\* Corpora of two kinds: every way three targets can rank three patterns, and
\* every five candidates of two patterns on two ingresses (more than a queue
\* holds, several per pattern and ingress, the third ingress without any).
EXTENDS CoveragePlanning

Rankings == {r \in BoundedSeq(1 .. 3, 3) : IsInjective(r)}

RankedCorpus(r) ==
  UNION {{[id |-> 3 * (e - 1) + i, pattern |-> r[e][i], ingress |-> e]
            : i \in DOMAIN r[e]} : e \in 1 .. 3}

DenseCorpus(f) ==
  {[id |-> i, pattern |-> f[i][1], ingress |-> f[i][2]] : i \in DOMAIN f}

MCCorpora ==
  {RankedCorpus(r) : r \in [1 .. 3 -> Rankings]}
  \cup {DenseCorpus(f) : f \in [1 .. 5 -> (1 .. 2) \X (1 .. 2)]}

MCIngresses == 1 .. 3
MCPatterns == 1 .. 3
MCCaps == {1, 2, NoCap}
=============================================================================
