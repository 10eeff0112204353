----------------------------- MODULE SelfTuning -----------------------------
(***************************************************************************)
(* The requirements that the Bridge sets by itself, one point at a time:   *)
(* the confidence asked of an opportunity (tune), the score asked of a     *)
(* publication (_adjust_threshold) and the weight of a criterion in that   *)
(* score (_adjust_weights).  Each round measures what was really traded    *)
(* or published, and the band that only the requirement has refused, over  *)
(* a sliding window; then, maybe, writes one step.  The user writes the    *)
(* same settings from the application.                                     *)
(*                                                                         *)
(* Outcomes weigh one unit of risk, won or lost: an average beyond the     *)
(* dead band is then more wins than losses, or fewer.  A step is a level.  *)
(* The reads of a round are one action, its writes and commit another.     *)
(***************************************************************************)
EXTENDS Integers

CONSTANTS
    Dials,              \* those followed, of AllDials: one in each behaviour
    MinSample,          \* MIN_SAMPLE
    Low, High,          \* MARGINAL_FLOOR and CEILING, learning_bounds, weight_floor/ceiling
    Factory,            \* the setting at the installation
    Settable,           \* bound: what the user may write
    NoReference,        \* learning.confidence_baseline is not stored yet
    MaxOutcomes, MaxClicks  \* bounds: outcomes of a band, settings written by the user

AllDials == {"confidence", "score", "weight"}
Bands == {"real", "refused"}
Levels == {Low - 1, Low, High, High + 1} \union Settable \union Low..High

TuningAssumption ==
    /\ Dials \subseteq AllDials
    /\ MinSample \in Nat \ {0} /\ MaxOutcomes \in Nat /\ MaxClicks \in Nat
    /\ Low \in Int /\ High \in Int /\ Low <= Factory /\ Factory <= High
    /\ Factory \in Int /\ Settable \subseteq Int
    /\ NoReference \notin Int

VARIABLES
    dial,
    value,          \* the setting
    reference,      \* the setting tune found at its first step, never read again
    counter,        \* of each band, its sample at the last step it has paid
    window,         \* of each band, its outcomes within the window
    total,          \* of each band, its outcomes since the beginning
    paid,           \* of each band, how many of them had come at that last step
    plan,           \* what the round under way has decided
    clicks          \* settings the user has written

setting == <<value, reference, counter>>
market == <<window, total>>
tuningVars == <<dial, setting, market, paid, plan, clicks>>

NoPlan == [by |-> "nobody"]

Init ==
    /\ dial \in Dials
    /\ value = Factory /\ reference = NoReference
    /\ counter = [b \in Bands |-> 0]
    /\ window = [b \in Bands |-> [wins |-> 0, losses |-> 0]]
    /\ total = [b \in Bands |-> 0]
    /\ paid = [b \in Bands |-> 0]
    /\ plan = NoPlan /\ clicks = 0

-----------------------------------------------------------------------------
(* Outcomes and the user.                                                  *)

\* A trade, a signal or a simulation ends within the window.
Outcome(b) ==
    /\ total[b] < MaxOutcomes
    /\ total' = [total EXCEPT ![b] = @ + 1]
    /\ \E kind \in {"wins", "losses"} : window' = [window EXCEPT ![b][kind] = @ + 1]
    /\ UNCHANGED <<dial, setting, paid, plan, clicks>>

\* The window slides over one of them: it goes by creation, not by ending.
Leave(b) ==
    /\ \E kind \in {"wins", "losses"} :
         window[b][kind] > 0 /\ window' = [window EXCEPT ![b][kind] = @ - 1]
    /\ UNCHANGED <<dial, setting, total, paid, plan, clicks>>

SetByHand(level) ==
    /\ clicks < MaxClicks
    /\ clicks' = clicks + 1
    /\ value' = level
    /\ UNCHANGED <<dial, reference, counter, market, paid, plan>>

-----------------------------------------------------------------------------
(* A round.                                                                *)

Sample(b) == window[b].wins + window[b].losses
Significant(b) == Sample(b) >= MinSample
Gains(b) == Significant(b) /\ window[b].wins > window[b].losses
Loses(b) == Significant(b) /\ window[b].wins < window[b].losses

Least(x, y) == IF x <= y THEN x ELSE y
Most(x, y) == IF x >= y THEN x ELSE y
Clamp(level, low, high) == Least(Most(level, low), high)

\* The reference is what it was at the first step, or else the present value.
Reference == IF reference = NoReference THEN value ELSE reference

\* tune: losses raise, recovered results undo, the band alone goes below the reference.
Undoes == Gains("real") /\ value > Reference
ConfidenceMoves(b, to) ==
    \/ b = "real" /\ Loses("real") /\ to = value + 1
    \/ b = "real" /\ Undoes /\ to = value - 1
    \/ /\ b = "refused" /\ ~Loses("real") /\ ~Undoes
       /\ Gains("refused") /\ value > Low /\ to = value - 1
ConfidenceFloor == IF Gains("refused") THEN Low ELSE Reference

\* _adjust_threshold: two senses at once cancel each other.
ScoreMoves(b, to) ==
    \/ b = "refused" /\ Gains("refused") /\ ~Loses("real") /\ to = value - 1
    \/ b = "real" /\ Loses("real") /\ ~Gains("refused") /\ to = value + 1

\* _adjust_weights: both populations are needed; whether this criterion is the most
\* misleading or the most reliable is a choice.
WeightMoves(b, to) ==
    /\ b = "real" /\ window[b].wins >= MinSample /\ window[b].losses >= MinSample
    /\ \/ to = value - 1 /\ to >= Low
       \/ to = value + 1 /\ to <= High

Moves(b, to) ==
    \/ dial = "confidence" /\ ConfidenceMoves(b, to)
    \/ dial = "score" /\ ScoreMoves(b, to)
    \/ dial = "weight" /\ WeightMoves(b, to)
\* What is written, within the bounds of the dial.
Bounded(to) ==
    CASE dial = "confidence" -> Clamp(to, ConfidenceFloor, High)
      [] dial = "score" -> Clamp(to, Low, High)
      [] OTHER -> to

\* A step is paid by an outcome that its band did not have at the last one.
FreshUnlessFewer(b) == Sample(b) >= counter[b]
Fresh(b) == Sample(b) > counter[b]

Measure ==
    /\ plan = NoPlan
    /\ \E b \in Bands, to \in {value - 1, value + 1} :
         /\ Moves(b, to) /\ Fresh(b) /\ Bounded(to) # value
         /\ plan' = [by |-> b, from |-> value, to |-> Bounded(to),
                     reference |-> Reference, sample |-> Sample(b), total |-> total[b]]
    /\ UNCHANGED <<dial, setting, market, paid, clicks>>

Write ==
    /\ plan # NoPlan
    /\ value' = plan.to
    /\ reference' = IF dial = "confidence" THEN plan.reference ELSE reference
    /\ counter' = [counter EXCEPT ![plan.by] = plan.sample]
    /\ paid' = [paid EXCEPT ![plan.by] = plan.total]
    /\ plan' = NoPlan
    /\ UNCHANGED <<dial, market, clicks>>

\* The session rolls back, or the Bridge stops between the two.
Forget ==
    /\ plan # NoPlan /\ plan' = NoPlan
    /\ UNCHANGED <<dial, setting, market, paid, clicks>>

Next ==
    \/ \E b \in Bands : Outcome(b) \/ Leave(b)
    \/ \E level \in Settable : SetByHand(level)
    \/ Measure \/ Write \/ Forget

Spec == Init /\ [][Next]_tuningVars

-----------------------------------------------------------------------------
(* Properties.                                                             *)

Plans == [by : Bands, from : Levels, to : Levels, reference : Levels, sample : Nat,
          total : Nat]
TypeOK ==
    /\ dial \in Dials
    /\ value \in Levels
    /\ reference \in Levels \union {NoReference}
    /\ counter \in [Bands -> Nat] /\ total \in [Bands -> Nat] /\ paid \in [Bands -> Nat]
    /\ window \in [Bands -> [wins : Nat, losses : Nat]]
    /\ plan \in Plans \union {NoPlan} /\ clicks \in Nat

\* Each step is paid by an outcome newer than the last step of the same band, although
\* the counters count what is in the window and outcomes leave it in any order: the
\* same measure never moves a requirement twice.
StepPaid == [][Write => plan.total > paid[plan.by]]_tuningVars
=============================================================================
