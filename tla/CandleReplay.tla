---------------------------- MODULE CandleReplay ----------------------------
(***************************************************************************)
(* Trades that were only imagined: the simulations of the decision engine  *)
(* and the signals of the channels that are merely observed.  The          *)
(* maintenance loop gives each of them an issue from the candles of one    *)
(* minute since its birth, the last of which is still forming.             *)
(*                                                                         *)
(* Beside the record stands a history: the same trade entered at once and  *)
(* followed tick after tick on the prices the candles are made of, free of *)
(* any cost.  It is not an account: candles are bid prices, and a SELL is  *)
(* closed at the ask; spread, slippage and refusals, which make the record *)
(* a ceiling of what an account would have made, are outside the model.    *)
(***************************************************************************)
EXTENDS Naturals, Sequences, FiniteSets, FiniteSetsExt

CONSTANTS
    Directions, \* of the trades imagined, BUY and SELL being symmetrical
    MaxBars,    \* MAX_BARS: candles a round may read
    MaxAge,     \* MAX_AGE_HOURS, in minutes
    MaxPerRound,\* MAX_PAR_TOUR: observations a round looks at
    MaxMinutes, MaxImagined \* bounds

ReplayAssumption == MaxBars \in Nat

Prices == 1..3
EntryPrice == 2
Kinds == {"shadow", "observed"}
StopOf(side) == IF side = "BUY" THEN 1 ELSE 3
TargetOf(side) == IF side = "BUY" THEN 3 ELSE 1

VARIABLES
    price,
    bars,       \* candles of one minute: low and high
    imagined    \* the trades, in order of birth

replayVars == <<price, bars, imagined>>

Init ==
    /\ price \in Prices
    /\ bars = <<[low |-> price, high |-> price]>>
    /\ imagined = <<>>

-----------------------------------------------------------------------------
(* The market.                                                             *)

\* The history of a trade entered at its birth, at this price.
Lives(trade, p) ==
    IF ~trade.taken \/ trade.truth # "open" \/ trade.issue # "open" THEN trade
    ELSE IF p = StopOf(trade.side)
         THEN [trade EXCEPT !.truth = "stop", !.early = (trade.born = Len(bars))]
    ELSE IF p = TargetOf(trade.side)
         THEN [trade EXCEPT !.truth = "target", !.early = (trade.born = Len(bars))]
    ELSE trade

Tick(p) ==
    /\ price' = p
    /\ bars' = [bars EXCEPT ![Len(bars)] =
         [low |-> Min({@.low, p}), high |-> Max({@.high, p})]]
    /\ imagined' = [n \in DOMAIN imagined |-> Lives(imagined[n], p)]

NewMinute ==
    /\ Len(bars) < MaxMinutes
    /\ bars' = Append(bars, [low |-> price, high |-> price])
    /\ UNCHANGED <<price, imagined>>

-----------------------------------------------------------------------------
(* The Bridge.                                                             *)

\* build_shadow_trade, at the last price of the analysis, or a signal of an observed
\* channel, at its price or the middle of its zone: the price may be elsewhere by then.
Imagine(side, kind) ==
    /\ Len(imagined) < MaxImagined
    /\ imagined' = Append(imagined,
         [side |-> side, kind |-> kind, born |-> Len(bars), taken |-> price = EntryPrice,
          issue |-> "open", truth |-> "open", early |-> FALSE, cut |-> FALSE])
    /\ UNCHANGED <<price, bars>>

Minutes(trade) == Len(bars) - trade.born

\* What candles() may answer: a run of at most MaxBars candles, not always to the last
\* one, for a series is served again when it is fresh or when the terminal fails; or none.
Readings ==
    {first..last : first \in 1..(Len(bars) + 1), last \in DOMAIN bars}
Series == {read \in Readings : Cardinality(read) <= MaxBars}

\* The candles of a reading that count: not the one of the birth.
Relevant(trade, read) == {n \in read : n > trade.born}
\* The reading misses candles before those that decide.
Truncated(trade, read, issue) ==
    \E n \in DOMAIN bars :
        /\ n > trade.born /\ n \notin read
        /\ issue = "aged" \/ \E m \in read : n < m

\* _exit_price: the first candle that touches something, the stop before the target.
Touches(bar, p) == bar.low <= p /\ p <= bar.high
ExitTargetFirst(trade, read) ==
    LET hit == {n \in Relevant(trade, read) : Touches(bars[n], StopOf(trade.side))
                                        \/ Touches(bars[n], TargetOf(trade.side))}
    IN  IF hit = {} THEN "open"
        ELSE IF Touches(bars[Min(hit)], TargetOf(trade.side)) THEN "target" ELSE "stop"
ExitPrice(trade, read) ==
    LET hit == {n \in Relevant(trade, read) : Touches(bars[n], StopOf(trade.side))
                                        \/ Touches(bars[n], TargetOf(trade.side))}
    IN  IF hit = {} THEN "open"
        ELSE IF Touches(bars[Min(hit)], StopOf(trade.side)) THEN "stop" ELSE "target"

\* One trade of a round: an issue, or the last price once it is too old.
Advance(trade, read) ==
    LET issue == IF ExitPrice(trade, read) # "open" THEN ExitPrice(trade, read)
                 ELSE IF Minutes(trade) >= MaxAge /\ Relevant(trade, read) # {} THEN "aged"
                 ELSE "open"
    IN  [trade EXCEPT !.issue = issue, !.cut = issue # "open" /\ Truncated(trade, read, issue)]

\* list_signals: the latest observations, whether they have an issue or not.
Looked(n) ==
    \/ imagined[n].kind = "shadow"
    \/ Cardinality({m \in DOMAIN imagined : m > n /\ imagined[m].kind = "observed"}) < MaxPerRound

\* _maintenance_loop: the simulations, then the observations, each with its own reading.
Round(kind) ==
    LET open == {n \in DOMAIN imagined :
                    imagined[n].kind = kind /\ imagined[n].issue = "open" /\ Looked(n)}
    IN  /\ open # {}
        /\ \E reads \in [open -> Series] :
              imagined' = [n \in DOMAIN imagined |->
                 IF n \in open THEN Advance(imagined[n], reads[n]) ELSE imagined[n]]
        /\ UNCHANGED <<price, bars>>

Next ==
    \/ \E p \in Prices \ {price} : Tick(p)
    \/ NewMinute
    \/ \E kind \in Kinds : Round(kind) \/ \E side \in Directions : Imagine(side, kind)

Spec == Init /\ [][Next]_replayVars

\* Reading candles adds no gain ("pessimistes", shadow_tracker.py:9-17): a gain is
\* recorded only where the trade, entered at once and followed tick after tick on the
\* same prices, gained, and a trade given up as too old was really still open, whenever
\* the rounds happened to run and whatever they read of the candle in progress.  Left
\* out: the minute of the birth, which no round reads; minutes that the reading missed,
\* at its beginning or, for a trade given up, at its end; and trades whose entry was not
\* the price at their birth, told won or lost whether or not it ever came to it.
NotBetterThanTicks ==
    \A n \in DOMAIN imagined :
        LET t == imagined[n]
        IN  \/ t.issue \in {"open", "stop"} \/ t.early \/ t.cut \/ ~t.taken
            \/ t.issue = "target" /\ t.truth = "target"
            \/ t.issue = "aged" /\ t.truth = "open"
=============================================================================
