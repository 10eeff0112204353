-------------------------- MODULE MCTradingEngine --------------------------
(* Instances of TradingEngine for TLC: two to four signals, one instrument. *)
EXTENDS TradingEngine, TLC

CONSTANTS a, b, c, d, r1, r2

Gold == [s \in Signals |-> "XAUUSD"]
AllBuy == [s \in Signals |-> "BUY"]
CSells == [s \in Signals |-> IF s = c THEN "SELL" ELSE "BUY"]
\* A zone the market has left upwards: a BUY waits at its lower bound.
SameZone == [s \in Signals |-> [low |-> 1, high |-> 2, tick |-> 3, stop |-> 0]]
\* An entry price each, that of a for itself.
OwnPrice == [s \in Signals |-> LET p == IF s = a THEN 2 ELSE 3 IN
               [low |-> p, high |-> p, tick |-> 4, stop |-> 1]]
AllMarket == [s \in Signals |-> "market"]
AllPending == [s \in Signals |-> "pending"]
AllAuto == [s \in Signals |-> "AUTO"]
AManual == [s \in Signals |-> IF s = a THEN "MANUAL" ELSE "AUTO"]
DObserve == [s \in Signals |-> IF s = d THEN "OBSERVE" ELSE "AUTO"]
OneLeg == [s \in Signals |-> 1]
ATwoLegs == [s \in Signals |-> IF s = a THEN 2 ELSE 1]

\* a and b differ in nothing where SameZone and OneLeg are used.
Alike == Permutations({a, b})
=============================================================================
