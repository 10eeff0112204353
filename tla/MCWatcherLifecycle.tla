------------------------- MODULE MCWatcherLifecycle -------------------------
(* Instances of WatcherLifecycle for TLC.                                  *)
EXTENDS WatcherLifecycle

ThreeTargets == <<4, 5, 6>>
Halves == <<2, 3>>
=============================================================================
