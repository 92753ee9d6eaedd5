------------------------- MODULE MCManifestLifecycle -------------------------
(* ManifestLifecycle with two deaths and one exception of a run.              *)
EXTENDS ManifestLifecycle

MCMaxCrashes == 2
MCMaxFailures == 1
\* One process more than crashes and exceptions can end.
MCMaxLives == MCMaxCrashes + MCMaxFailures + 2

=============================================================================
