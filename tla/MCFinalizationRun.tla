--------------------------- MODULE MCFinalizationRun ----------------------------
(***************************************************************************)
(* TLC instance of FinalizationRun: a target with a full queue, one with   *)
(* one fallback, and one that no candidate qualifies for.                  *)
(***************************************************************************)
EXTENDS FinalizationRun, TLC

CONSTANTS t1, t2, t3, c1, c2, c3, c4, c5

MCTargets == {t1, t2, t3}
MCTargetOrder == <<t1, t2, t3>>
MCCandidates == {c1, c2, c3, c4, c5}
MCOrderedChoices == t1 :> <<c1, c2, c3>> @@ t2 :> << >> @@ t3 :> <<c4, c5>>
================================================================================
