-------------------------- MODULE WatcherLifecycle --------------------------
(***************************************************************************)
(* LifecycleTracker: how the watcher follows one published signal through  *)
(* the M1 candles, and books in its row what the signal was worth.         *)
(* Each round reads again every candle since the creation of the signal,   *)
(* with the status and the stop the row has by then, and stores the first  *)
(* change it finds.                                                        *)
(*                                                                         *)
(* Beside it, a history of the same signal under the same management, but  *)
(* followed tick by tick in the true order of the prices: "ideal".  It is  *)
(* what the tracker would book if it saw every price; it is NOT the broker *)
(* account, whose partial closes and break-even position_manager.py takes  *)
(* later, otherwise, or not at all.  The tracker only sees the low, the    *)
(* high and the close of each minute.                                      *)
(*                                                                         *)
(* Every comparison of the code has a BUY and a SELL form, each the mirror *)
(* of the other: here prices are counted in the direction of the signal,   *)
(* so that "low" is the adverse end of a candle.  Prices are small         *)
(* integers, parts of the position are out of Whole, and results are in    *)
(* points times parts: risk_distance and rounding are left out.            *)
(***************************************************************************)
EXTENDS Integers, Sequences, FiniteSetsExt

CONSTANTS
    Entry, StopLoss, Targets,   \* levels of the signal, in order
    Whole, Ratios,              \* split_ratios, parts of Whole closed at each target
    PartialClose,               \* multi_tp_strategy is PARTIAL_CLOSE
    BreakEven, Offset,          \* break_even_trigger is TP1_HIT, and its offset
    Ttl,                        \* signal_ttl_minutes
    NoResult,                   \* result_r is NULL
    MaxTicks                    \* bound: moves of the price

ASSUME LevelsAssumption ==
    /\ Entry \in Int /\ StopLoss \in Int /\ StopLoss < Entry
    /\ Targets \in Seq(Int) /\ Len(Targets) = 3
    /\ Entry < Targets[1] /\ Targets[1] < Targets[2] /\ Targets[2] < Targets[3]
ASSUME ManagementAssumption ==
    /\ Whole \in Nat /\ Ratios \in Seq(Nat) /\ Len(Ratios) <= 3
    /\ PartialClose \in BOOLEAN /\ BreakEven \in BOOLEAN
    /\ Offset \in Nat /\ Entry + Offset < Targets[1]
ASSUME BoundsAssumption == Ttl \in Nat \ {0} /\ MaxTicks \in Nat /\ NoResult \notin Int

VARIABLES
    \* the market
    price, ticks, candles,      \* closed minutes since the creation
    forming,                    \* the current one
    midMinute,                  \* the signal was created within a minute
    \* the row of the signal
    entryType, status, stop, openFraction, bookedR, result,
    \* history: the same management, followed tick by tick
    ideal

market == <<price, ticks, candles, forming, midMinute>>
row == <<entryType, status, stop, openFraction, bookedR, result>>
vars == <<market, row, ideal>>

Life == INSTANCE SignalLife
TargetStatuses == <<"TP1_HIT", "TP2_HIT", "TP3_HIT">>
Closing == Life!Terminal

Least(x, y) == IF x <= y THEN x ELSE y
Most(x, y) == IF x >= y THEN x ELSE y
Candle(p) == [low |-> p, high |-> p, close |-> p]

Pending == Life!Waits(entryType, status)
Open == status \in Life!Live

-----------------------------------------------------------------------------
(* What becomes of a signal at a target: _book_partial, _arm_break_even.   *)

Fraction(index, left) ==
    IF PartialClose /\ index <= Len(Ratios) THEN Least(left, Ratios[index]) ELSE 0
Protected(level) == IF BreakEven THEN Most(level, Entry + Offset) ELSE level

-----------------------------------------------------------------------------
(* The market (external).                                                  *)

Init ==
    /\ ticks = 0 /\ candles = <<>>
    /\ midMinute \in BOOLEAN
    /\ entryType \in {"MARKET", "STOP", "LIMIT"}
    /\ price \in CASE entryType = "MARKET" -> {Entry}
                   [] entryType = "STOP"   -> StopLoss + 1..Entry - 1
                   [] entryType = "LIMIT"  -> Entry + 1..Targets[1] - 1
    /\ forming = Candle(price)
    /\ status \in {"CREATED", "CONFIRMED"}
    /\ stop = StopLoss /\ openFraction = Whole /\ bookedR = 0 /\ result = NoResult
    /\ ideal = [in |-> entryType = "MARKET", reached |-> 0, stop |-> StopLoss,
                  left |-> Whole, booked |-> 0]

\* The history at price p: in at its entry, stopped, or one target further.
FollowTicks(p) ==
    LET next == ideal.reached + 1
        part == IF next = Len(Targets) THEN ideal.left
                ELSE Fraction(next, ideal.left)
    IN  IF ~ideal.in THEN [ideal EXCEPT !.in = (p = Entry)]
        ELSE IF p <= ideal.stop
        THEN [ideal EXCEPT !.booked = @ + ideal.left * (p - Entry), !.left = 0]
        ELSE IF next <= Len(Targets) /\ p >= Targets[next]
        THEN [ideal EXCEPT !.reached = next,
                             !.left = @ - part,
                             !.booked = @ + part * (p - Entry),
                             !.stop = Protected(@)]
        ELSE ideal

\* The price moves by one point, within the current minute or into the next one.
\* It is followed until the signal ends.
Tick ==
    /\ ticks < MaxTicks /\ Open
    /\ ticks' = ticks + 1
    /\ price' \in {price - 1, price + 1} \intersect StopLoss..Targets[3]
    /\ ideal' = FollowTicks(price')
    /\ \/ /\ forming' = [low |-> Least(forming.low, price'),
                         high |-> Most(forming.high, price'), close |-> price']
          /\ UNCHANGED candles
       \/ /\ candles' = Append(candles, forming)
          /\ forming' = Candle(price')
    /\ UNCHANGED <<midMinute, row>>

\* A minute in which nothing moves.
QuietMinute ==
    /\ ticks = MaxTicks /\ Open
    /\ Len(candles) < Ttl
    /\ candles' = Append(candles, forming)
    /\ forming' = Candle(price)
    /\ UNCHANGED <<price, ticks, midMinute, row, ideal>>

-----------------------------------------------------------------------------
(* One round of the tracker.                                               *)

Expired == Len(candles) >= Ttl

\* relevant: the candles that begin after the creation of the signal.
Relevant ==
    LET read == Append(candles, forming)
    IN  IF midMinute THEN Tail(read) ELSE read

Reached == IF \E i \in 1..3 : TargetStatuses[i] = status
           THEN CHOOSE i \in 1..3 : TargetStatuses[i] = status ELSE 0

\* _next_transition and _next_target on one candle: the status it leads to.
TargetBeforeStop(candle) ==
    CASE Pending /\ candle.low <= Entry /\ Entry <= candle.high -> "ACTIVE"
      [] ~Pending /\ Reached < Len(Targets)
                  /\ candle.high >= Targets[Reached + 1] -> TargetStatuses[Reached + 1]
      [] ~Pending /\ candle.low <= stop
                  /\ (Reached < Len(Targets) => candle.high < Targets[Reached + 1]) -> "SL_HIT"
      [] OTHER -> status
Transition(candle) ==
    CASE Pending /\ candle.low <= Entry /\ Entry <= candle.high -> "ACTIVE"
      [] Pending /\ ~(candle.low <= Entry /\ Entry <= candle.high)
                 /\ candle.low <= stop -> "INVALIDATED"
      [] ~Pending /\ candle.low <= stop -> "SL_HIT"
      [] ~Pending /\ candle.low > stop /\ Reached < Len(Targets)
                  /\ candle.high >= Targets[Reached + 1] -> TargetStatuses[Reached + 1]
      [] OTHER -> status

Telling == {i \in DOMAIN Relevant : Transition(Relevant[i]) # status}

\* _book_partial and _arm_break_even, then the result of a signal that ends.
CountUntriggered(new, exit) ==
    /\ status' = new
    /\ result' = IF new \in Closing \ {"INVALIDATED"} /\ exit # NoResult
                 THEN bookedR + openFraction * (exit - Entry) ELSE NoResult
    /\ UNCHANGED <<entryType, stop, openFraction, bookedR>>
Apply(new, exit) ==
    LET hit == IF \E i \in 1..3 : TargetStatuses[i] = new
               THEN CHOOSE i \in 1..3 : TargetStatuses[i] = new ELSE 0
        part == IF hit = 0 THEN 0 ELSE Fraction(hit, openFraction)
    IN  /\ status' = new
        /\ openFraction' = openFraction - part
        /\ bookedR' = bookedR + (IF hit = 0 THEN 0 ELSE part * (Targets[hit] - Entry))
        /\ stop' = IF hit = 0 THEN stop ELSE Protected(stop)
        /\ result' = IF new \in Closing \ {"INVALIDATED"} /\ ~Pending /\ exit # NoResult
                     THEN bookedR' + openFraction' * (exit - Entry)
                     ELSE NoResult
        /\ UNCHANGED entryType

\* The first candle that tells something, whatever was read of it before.  (A
\* reading cut short, when the terminal fails, tells the same or nothing.)
Advance ==
    /\ Open
    /\ Telling # {}
    /\ LET new == Transition(Relevant[Min(Telling)])
       IN  Apply(new, IF new = "TP3_HIT" THEN Targets[3] ELSE stop)
    /\ UNCHANGED <<market, ideal>>

\* A signal past its time ends at the last price read, if it is in position.  When
\* the terminal fails, candles() serves an older reading or none at all: a first
\* part of what happened, that tells nothing, and without a price no result.
LastClose(read) == IF read = 0 THEN NoResult ELSE Relevant[read].close
ExpireUntriggered ==
    /\ Open /\ Expired /\ Pending
    /\ Telling = {}
    /\ Apply("EXPIRED", LastClose(Len(Relevant)))
    /\ UNCHANGED <<market, ideal>>
Expire ==
    /\ Open /\ Expired
    /\ \E read \in 0..Len(Relevant) :
          /\ \A i \in Telling : read < i
          /\ Apply("EXPIRED", LastClose(read))
    /\ UNCHANGED <<market, ideal>>

Next == Tick \/ QuietMinute \/ Advance \/ Expire
Spec == Init /\ [][Next]_vars

\* Minutes pass, and run_lifecycle_once runs again after every pause.
FairSpec ==
    Spec /\ WF_vars(Tick) /\ WF_vars(QuietMinute) /\ WF_vars(Advance \/ Expire)

-----------------------------------------------------------------------------
Candles == [low : Int, high : Int, close : Int]
TypeOK ==
    /\ price \in Int /\ ticks \in Nat /\ candles \in Seq(Candles)
    /\ forming \in Candles /\ midMinute \in BOOLEAN
    /\ entryType \in {"MARKET", "STOP", "LIMIT"}
    /\ status \in Life!Live \union Life!Terminal
    /\ stop \in Int /\ openFraction \in 0..Whole /\ bookedR \in Int
    /\ result \in Int \union {NoResult}
    /\ ideal \in [in : BOOLEAN, reached : 0..3, stop : Int, left : 0..Whole,
                    booked : Int]

\* What the history cannot lose any more: booked, and the rest at its stop.
Floor == ideal.booked + ideal.left * (ideal.stop - Entry)
AtLevel == status \in {"SL_HIT", "TP3_HIT"}

\* Reading candles adds no gain (lifecycle.py:14-16): the result of a signal ended at
\* a level is never more than what the same management, following every tick, is
\* sure to have, although candles are read again with a newer stop and hide the
\* order of the prices within a minute.  Claimed of signals whose candles before
\* the entry cannot hold a target (MARKET and STOP) and created with a minute; it
\* is false of the others.
NotAboveTicks ==
    AtLevel /\ entryType # "LIMIT" /\ ~midMinute => result <= Floor

\* The row keeps the promises of SignalLife at every round.
LifeSpec == Life!Spec

\* Whatever the candles say, every published signal ends, and its row says how.
EverySignalEnds == <>(status \in Closing)
=============================================================================
