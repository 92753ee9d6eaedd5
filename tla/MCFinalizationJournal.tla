------------------------- MODULE MCFinalizationJournal -------------------------
(***************************************************************************)
(* TLC instance of FinalizationJournal: a target with a fallback and one   *)
(* without.                                                                *)
(***************************************************************************)
EXTENDS FinalizationJournal, TLC

CONSTANTS t1, t2, c1, c2, c3

MCTargets == {t1, t2}
MCCandidates == {c1, c2, c3}
MCOrderedChoices == t1 :> <<c1, c2>> @@ t2 :> <<c3>>
Symmetry == Permutations(Contents)
================================================================================
