------------------------------ MODULE RiskGate ------------------------------
(***************************************************************************)
(* RiskManager.evaluate over the signals of a day: its ordered refusals    *)
(* and the size it gives, which depends on the quality of the signal, on   *)
(* the losses in a row and on what the day has left.  Everything is a      *)
(* percentage of the account; a volume is a number of volume steps, and    *)
(* one step of a signal costs at its stop what the distance says.          *)
(***************************************************************************)
EXTENDS Integers, Sequences, SequencesExt, FiniteSetsExt

CONSTANTS
    RiskPercent,    \* risk_percent of the settings
    QualityFloor,   \* dynamic_risk_floor, in eighths
    MaxDailyRisk,   \* max_daily_risk_percent, 0 for none
    MaxDailyLoss,   \* max_daily_loss_percent
    MaxLosses,      \* max_consecutive_losses, 0 for none
    MaxPositions,   \* max_positions
    MaxExposure,    \* max_total_exposure_lots, in steps
    VolumeMin, MaxLot,  \* the broker's, the settings'
    Costs,          \* what a step of a signal may cost at its stop
    MaxSignals      \* bound: signals evaluated

Whole == 8          \* a quality of 1, in eighths
Merits == {4, 6, 8} \* reward, spread, age and reading of the signal, multiplied
Flaws == {"none", "desk", "content", "market"}
Signals == [flaw : Flaws, merit : Merits, cost : Costs]
Approved == "approved"

GateAssumption ==
    /\ RiskPercent \in Nat \ {0} /\ QualityFloor \in 0..Whole /\ MaxDailyRisk \in Nat
    /\ VolumeMin \in Nat \ {0} /\ MaxLot \in Nat /\ Costs \subseteq Nat \ {0}

VARIABLES
    dynamic,        \* dynamic_risk_enabled
    day,            \* TradingState: risked, realized, losses in a row
    positions,      \* volume and cost of the open ones
    last,           \* the last signal, its day and what became of it
    evaluated

gateVars == <<dynamic, day, positions, last, evaluated>>

NoSignal == [flaw |-> "none", merit |-> Whole, cost |-> 1]
Morning == [risked |-> 0, realized |-> 0, losses |-> 0]
Init ==
    /\ dynamic \in BOOLEAN
    /\ day = Morning /\ positions = <<>>
    /\ last = [signal |-> NoSignal, day |-> Morning, held |-> 0, verdict |-> Approved]
    /\ evaluated = 0

Highest(a, b) == IF a > b THEN a ELSE b
Lowest(a, b) == IF a < b THEN a ELSE b

-----------------------------------------------------------------------------
(* The size.  Risks are in eighths of a percent.                           *)

\* quality_multiplier: the quality, at least the floor, then what the day has left.
StreakFactor(losses) == Highest(Whole - 2 * losses, 4)
Quality(signal, d) ==
    Highest(QualityFloor, (signal.merit * StreakFactor(d.losses)) \div Whole)
SizedRisk(signal, d) ==
    LET planned == RiskPercent * Quality(signal, d)
        left == Highest(Whole * (MaxDailyRisk - d.risked), 0)
    IN  IF ~dynamic THEN RiskPercent * Whole
        ELSE IF MaxDailyRisk = 0 THEN planned
        ELSE Lowest(planned, left)

\* calculate_lot: down to a step and under the limits; 0 below the broker's minimum.
RoundToStep(risk, cost) == risk \div (Whole * cost)
CalculateLot(risk, cost) ==
    LET volume == Lowest(RoundToStep(risk, cost), MaxLot)
    IN  IF risk <= 0 \/ volume < VolumeMin THEN 0 ELSE volume

\* A size that only the reduction makes too small is taken at the configured risk.
ReductionAlone(signal, d) ==
    dynamic /\ SizedRisk(signal, d) < RiskPercent * Whole
            /\ SizedRisk(signal, d) > 0
            /\ VolumeMin * signal.cost <= RiskPercent
ReducedLot(signal, d) == CalculateLot(SizedRisk(signal, d), signal.cost)
Lot(signal, d) ==
    IF ReducedLot(signal, d) = 0 /\ ReductionAlone(signal, d)
    THEN CalculateLot(RiskPercent * Whole, signal.cost)
    ELSE ReducedLot(signal, d)

-----------------------------------------------------------------------------
(* The refusals, in the order of evaluate.                                 *)

\* Switches, channel, account and mode.
DeskShut(signal) == signal.flaw = "desk"
\* Intention, confidence, direction, levels, age, hours.
ContentShut(signal) == signal.flaw = "content"
\* Instrument, quote, spread, entry price, side and distance of the stop, ratios.
MarketShut(signal) == signal.flaw = "market"
\* _check_daily_limits
DailyLossReached(d) == MaxDailyLoss > 0 /\ d.realized <= -MaxDailyLoss
DailyRiskReached(d) == MaxDailyRisk > 0 /\ d.risked >= MaxDailyRisk
LossesReached(d) == MaxLosses > 0 /\ d.losses >= MaxLosses

Exposure(held) == FoldSeq(LAMBDA p, sum : p.volume + sum, 0, held)
Barriers(signal, d, held, lot) == <<
    [why |-> "desk", shut |-> DeskShut(signal)],
    [why |-> "content", shut |-> ContentShut(signal)],
    [why |-> "market", shut |-> MarketShut(signal)],
    [why |-> "DAILY_LOSS_LIMIT", shut |-> DailyLossReached(d)],
    [why |-> "DAILY_RISK_LIMIT", shut |-> DailyRiskReached(d)],
    [why |-> "CONSECUTIVE_LOSSES", shut |-> LossesReached(d)],
    [why |-> "MAX_POSITIONS", shut |-> Len(held) >= MaxPositions],
    [why |-> "MAX_EXPOSURE", shut |-> Exposure(held) >= MaxExposure],
    [why |-> "INVALID_VOLUME", shut |-> lot = 0],
    [why |-> "RISK_TOO_HIGH", shut |-> 2 * lot * signal.cost > 3 * RiskPercent],
    [why |-> "DAILY_RISK_PROJECTED",
     shut |-> MaxDailyRisk > 0 /\ d.risked + lot * signal.cost > MaxDailyRisk],
    [why |-> "EXPOSURE_PROJECTED", shut |-> Exposure(held) + lot > MaxExposure]>>
Verdict(signal, d, held, lot) ==
    LET barriers == Barriers(signal, d, held, lot)
        shut == {n \in DOMAIN barriers : barriers[n].shut}
    IN  IF shut = {} THEN Approved ELSE barriers[Min(shut)].why

-----------------------------------------------------------------------------
Evaluate(signal) ==
    /\ evaluated < MaxSignals /\ evaluated' = evaluated + 1
    /\ LET lot == Lot(signal, day)
           verdict == Verdict(signal, day, positions, lot)
       IN  /\ last' = [signal |-> signal, day |-> day, held |-> Exposure(positions),
                       verdict |-> verdict]
           /\ IF verdict = Approved
              THEN /\ positions' = Append(positions, [volume |-> lot, cost |-> signal.cost])
                   /\ day' = [day EXCEPT !.risked = @ + lot * signal.cost]
              ELSE UNCHANGED <<positions, day>>
    /\ UNCHANGED dynamic

\* _apply_closed_trades: a loss at the stop, or a gain as large.
Close(n, sign) ==
    /\ positions' = RemoveAt(positions, n)
    /\ day' = [day EXCEPT
                 !.realized = @ + sign * positions[n].volume * positions[n].cost,
                 !.losses = IF sign < 0 THEN @ + 1 ELSE 0]
    /\ UNCHANGED <<dynamic, last, evaluated>>

Next ==
    \/ \E signal \in Signals : Evaluate(signal)
    \/ \E n \in DOMAIN positions, sign \in {-1, 1} : Close(n, sign)

Spec == Init /\ [][Next]_gateVars

-----------------------------------------------------------------------------
(* Properties.                                                             *)

\* Whatever the day, the losses in a row and the quality, a signal refused for its size
\* is one the account could not afford at the configured risk, and a signal that gets a
\* size never trips the rule of one and a half times that risk.
SizedRight ==
    /\ last.verdict = "INVALID_VOLUME" =>
          VolumeMin * last.signal.cost > RiskPercent \/ MaxLot < VolumeMin
    /\ last.verdict # "RISK_TOO_HIGH"

\* manager.py:639: reducing a size never comes down to forbidding the position.  False:
\* the size taken instead may not fit in the day, where the broker's minimum would.
ReductionNeverForbids ==
    last.verdict = "DAILY_RISK_PROJECTED" =>
        \/ CalculateLot(SizedRisk(last.signal, last.day), last.signal.cost) > 0
        \/ last.day.risked + VolumeMin * last.signal.cost > MaxDailyRisk
=============================================================================
