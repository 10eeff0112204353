---------------------------- MODULE MCDayLedger ----------------------------
(* Instances of DayLedger for TLC.                                         *)
EXTENDS DayLedger

CONSTANTS p, q, c1

LossAndGain == [k \in Positions |-> IF k = p THEN -20 ELSE 8]
TwoLosses == [k \in Positions |-> IF k = p THEN -20 ELSE -12]
AllFollow == [c \in Closers |-> "follow"]
AllEmergency == [c \in Closers |-> "emergency"]
AllWhole == [c \in Closers |-> FALSE]
AllHalf == [c \in Closers |-> TRUE]
=============================================================================
