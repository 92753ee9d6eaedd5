--------------------------- MODULE SequenceSelection ---------------------------
(***************************************************************************)
(* The loops over sequences that the models need results about, written as *)
(* recursive functions: a comprehension with a condition, the              *)
(* concatenation of several lists, and a running total.                    *)
(***************************************************************************)
EXTENDS Integers, Sequences

\* [x for x in s if x not in S]
Without(s, S) ==
  LET kept[n \in 0 .. Len(s)] ==
        IF n = 0 THEN << >>
        ELSE IF s[n] \in S THEN kept[n - 1] ELSE Append(kept[n - 1], s[n])
  IN  kept[Len(s)]

\* s extended by q[1], then q[2], and so on.
Extended(s, q) ==
  LET joined[n \in 0 .. Len(q)] == IF n = 0 THEN s ELSE joined[n - 1] \o q[n]
  IN  joined[Len(q)]

\* f[1] + ... + f[n], added from the left.
Total(f, n) ==
  LET sum[i \in 0 .. n] == IF i = 0 THEN 0 ELSE sum[i - 1] + f[i]
  IN  sum[n]
================================================================================
