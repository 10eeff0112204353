------------------------- MODULE MCMt5ProcessWorker -------------------------
(* Instances of Mt5ProcessWorker for TLC: a few calls and children.        *)
EXTENDS Mt5ProcessWorker

CONSTANTS c1, c2
=============================================================================
