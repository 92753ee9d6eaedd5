-------------------------- MODULE MCCandidateFilter --------------------------
\* Two candidates of one seed and one of another; an identifier that was never
\* submitted.  Each batch is one way an answer can be right or wrong.
EXTENDS CandidateFilter

CONSTANTS s1, s2, c1, c2, c3, stranger

MCSeeds == {s1, s2}
MCCandidates == {c1, c2, c3}
MCSeedOf == (c1 :> s1) @@ (c2 :> s1) @@ (c3 :> s2)

Yes(c) == [id |-> c, verdict |-> "accept"]
No(c) == [id |-> c, verdict |-> "reject"]
Batch(s, verdicts) == [seed |-> s, verdicts |-> verdicts]

MCBatches ==
  { Batch(s1, <<Yes(c1), Yes(c2)>>),             \* both accepted
    Batch(s1, <<No(c2), Yes(c1)>>),              \* one rejected, out of order
    Batch(s1, <<No(c1)>>),                       \* one omitted
    Batch(s1, <<Yes(c1), No(c2), No(c1)>>),      \* one duplicated
    Batch(s1, <<Yes(c1), No(c2), No(stranger)>>),\* one unknown
    Batch(s2, <<Yes(c3)>>),
    Batch(s2, <<No(c3)>>),
    Batch(s2, <<>>) }                            \* nothing decided
=============================================================================
