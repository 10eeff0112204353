----------------------------- MODULE SignalLife -----------------------------
(***************************************************************************)
(* What the life of a watcher signal promises to whoever reads its row,    *)
(* independently of how candles are read: WatcherStatus goes forward only, *)
(* one step at a time, targets in their order; a signal that never found   *)
(* its entry has no result; a result is written once, at the end, and one  *)
(* that ended at its stop or at its last target always has it.  (A signal  *)
(* that expires while its candles cannot be read ends without a result.)   *)
(***************************************************************************)
EXTENDS Integers

CONSTANT NoResult      \* result_r is NULL

VARIABLES entryType, status, stop, openFraction, result

vars == <<entryType, status, stop, openFraction, result>>

Terminal == {"TP3_HIT", "SL_HIT", "INVALIDATED", "EXPIRED"}
Live == {"CREATED", "CONFIRMED", "ACTIVE", "TP1_HIT", "TP2_HIT"}
Unanswered == {"CREATED", "CONFIRMED"}

\* A STOP or LIMIT entry waits for its price; a MARKET one is in at once.
Waits(kind, s) == kind \in {"STOP", "LIMIT"} /\ s \in Unanswered

Following(kind, s) ==
    CASE Waits(kind, s)                    -> {"ACTIVE", "INVALIDATED", "EXPIRED"}
      [] s \in Unanswered /\ kind = "MARKET" -> {"TP1_HIT", "SL_HIT", "EXPIRED"}
      [] s = "ACTIVE"                      -> {"TP1_HIT", "SL_HIT", "EXPIRED"}
      [] s = "TP1_HIT"                     -> {"TP2_HIT", "SL_HIT", "EXPIRED"}
      [] s = "TP2_HIT"                     -> {"TP3_HIT", "SL_HIT", "EXPIRED"}
      [] OTHER                             -> {}

Init ==
    /\ entryType \in {"MARKET", "STOP", "LIMIT"}
    /\ status \in Unanswered
    /\ result = NoResult

Step ==
    /\ status' \in Following(entryType, status)
    /\ stop' >= stop                      \* a stop only protects more
    /\ openFraction' <= openFraction
    /\ openFraction' < openFraction => status' \in {"TP1_HIT", "TP2_HIT", "TP3_HIT"}
    /\ status' \in {"SL_HIT", "TP3_HIT"} => result' # NoResult
    /\ result' # NoResult => /\ status' \in Terminal \ {"INVALIDATED"}
                             /\ ~Waits(entryType, status)
    /\ UNCHANGED entryType

Spec == Init /\ [][Step]_vars
=============================================================================
