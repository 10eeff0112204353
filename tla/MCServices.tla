----------------------------- MODULE MCServices -----------------------------
(* Instances for TLC of the modules whose components do not share state:   *)
(* one of them, the subject, is at work in each behaviour.                 *)
EXTENDS Naturals, Sequences

CONSTANTS
    Subjects,
    Sessions, MaxAnalyses,
    Watchlist, MaxClicks, MaxRounds,
    Callers, Alerts, CriticalAlerts, DedupWindow, Hour, MaxPushPerHour, MaxClock, MaxRows,
    MaxTokens,
    Models, Slots, FailureThreshold, Tested, MaxCalls, MaxOffers,
    Directions, MaxBars, MaxAge, MaxPerRound, MaxMinutes, MaxImagined,
    OpenPrice, FirstStop, Objectives, Offset, Distance, StepPoints, StopsLevel,
    MaxMoves, MaxMessages,
    RiskPercent, QualityFloor, MaxDailyRisk, MaxDailyLoss, MaxLosses, MaxPositions,
    MaxExposure, VolumeMin, MaxLot, Costs, MaxSignals,
    Dials, MinSample, Low, High, Factory, Settable, NoReference, MaxOutcomes, MaxSettings

VARIABLES
    subject,
    trace, heard, unsent, mute, unseen, met,
    switches, paused, peakOf, terminal, asking, clicks, pc, todo, seen, orders, sims, rounds,
    clock, inbox, rung, work, holder, token, registered, created, forgotten, overlap,
    misjudged,
    offer, cache, state, memory, second, breaker, calls, errand, listed, blind, asked, offers,
    quote, bars, imagined,
    rules, price, live, row, copy, base, step, writer, sight, message, crossed, dropped,
    moves, messages,
    dynamic, day, positions, last, evaluated,
    dial, value, reference, counter, window, total, paid, plan, settings

watched == <<trace, heard, unsent, mute, unseen, met>>
cycled == <<switches, paused, peakOf, terminal, asking, clicks, pc, todo, seen, orders,
            sims, rounds>>
notified == <<clock, inbox, rung, work, holder, token, registered, created, forgotten,
              overlap, misjudged>>
modelled == <<offer, cache, state, memory, second, breaker, calls, errand, listed, blind,
              asked, offers>>
replayed == <<quote, bars, imagined>>
ruled == <<rules, price, live, row, copy, base, step, writer, sight, message, crossed,
           dropped, moves, messages>>
gated == <<dynamic, day, positions, last, evaluated>>
tuned == <<dial, value, reference, counter, window, total, paid, plan, settings>>
vars == <<subject, watched, cycled, notified, modelled, replayed, ruled, gated,
          tuned>>

GoldEuro == <<"gold", "euro">>
FourFive == <<4, 5>>
Windows == [alert \in Alerts |-> IF alert \in CriticalAlerts THEN 0 ELSE 1]

Watch == INSTANCE Surveillance WITH dropped <- unseen, crossed <- met
Cycle == INSTANCE AutonomousCycle
Notify == INSTANCE Notifications
Ai == INSTANCE AiModels
Replay == INSTANCE CandleReplay WITH price <- quote
Rules == INSTANCE PositionRules
Gate == INSTANCE RiskGate
Tuning == INSTANCE SelfTuning WITH MaxClicks <- MaxSettings, clicks <- settings

ASSUME AiBounds == Ai!AiAssumption
ASSUME GateBounds == Gate!GateAssumption
ASSUME RulesBounds == Rules!RulesAssumption
ASSUME ReplayBounds == Replay!ReplayAssumption
ASSUME CallersBounds == Notify!CallersAssumption
ASSUME WindowsBounds == Notify!WindowsAssumption
ASSUME TuningBounds == Tuning!TuningAssumption

Init ==
    /\ subject \in Subjects
    /\ Watch!Init /\ Cycle!Init /\ Notify!Init
    /\ Ai!Init     /\ (subject # "ai" => offer = {})
    /\ Replay!Init /\ (subject # "replay" => quote = 1)
    /\ Rules!Init  /\ (subject # "rules" =>
                         rules = [trigger |-> "SIGNAL_ONLY", trailing |-> "DISABLED"])
    /\ Gate!Init   /\ (subject # "gate" => ~dynamic)
    /\ Tuning!Init /\ (subject # "tuning" => dial = "weight")

Next ==
    /\ UNCHANGED subject
    /\ IF subject = "watch" THEN Watch!Next ELSE UNCHANGED watched
    /\ IF subject = "cycle" THEN Cycle!Next ELSE UNCHANGED cycled
    /\ IF subject = "notify" THEN Notify!Next ELSE UNCHANGED notified
    /\ IF subject = "ai" THEN Ai!Next ELSE UNCHANGED modelled
    /\ IF subject = "replay" THEN Replay!Next ELSE UNCHANGED replayed
    /\ IF subject = "rules" THEN Rules!Next ELSE UNCHANGED ruled
    /\ IF subject = "gate" THEN Gate!Next ELSE UNCHANGED gated
    /\ IF subject = "tuning" THEN Tuning!Next ELSE UNCHANGED tuned

Spec == Init /\ [][Next]_vars

\* The properties of the modules, each about its own component.

\* Surveillance: what readers were told is what the next analysis takes up.
WatchTold == Watch!WatchTold
\* AutonomousCycle: an order on a real account was sent by a round begun unlocked.
RealWasUnlocked == Cycle!RealWasUnlocked
\* Notifications: one ring per alert and window, and the limit of the answered ones.
Quiet == Notify!Quiet
\* Notifications: the refusal of an old token never erases a new one.
NewTokenKept == Notify!NewTokenKept
\* AiModels: a model is called because it was free or because the user named it.
NamedFree == Ai!NamedFree
\* AiModels: a failing service is left alone past the threshold.
Spared == Ai!Spared
\* CandleReplay: an imagined gain is one that following every tick would have told.
NotBetterThanTicks == Replay!NotBetterThanTicks
\* PositionRules: a stop goes back only when the channel asks for it.
StopForward == Rules!StopForward
\* RiskGate: a reduced size neither forbids an affordable signal nor is too high.
SizedRight == Gate!SizedRight
\* SelfTuning: a step of a requirement is paid by an outcome of its band.
StepPaid == Tuning!StepPaid
=============================================================================
