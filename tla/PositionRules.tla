---------------------------- MODULE PositionRules ----------------------------
(***************************************************************************)
(* The stop and the objective of one open position.  The cycle of the      *)
(* monitor moves them under the engine lock (break-even, trailing, ladder  *)
(* of the objectives), a follow-up message of the channel and a request of *)
(* the application outside it, each on its own copy of the row.  The       *)
(* follow-up writes the row of its message first, so that it is SQLite's   *)
(* writer from the beginning; the two others read before their first       *)
(* write, and wait for their turn with what they read.                     *)
(*                                                                         *)
(* The position is a BUY; every comparison has its mirror for a SELL.      *)
(***************************************************************************)
EXTENDS Naturals, Sequences, SequencesExt

CONSTANTS
    OpenPrice, FirstStop,
    Objectives,     \* take_profit_targets; the broker only knows the last
    Offset,         \* break_even_offset_points
    Distance,       \* trailing_distance_points
    StepPoints,     \* trailing_step_points
    StopsLevel,     \* least distance of a stop to the price
    MaxMoves, MaxMessages   \* bounds: prices; messages and requests

RulesAssumption ==
    /\ {OpenPrice, FirstStop, Offset, Distance} \subseteq Nat
    /\ Objectives \in Seq(Nat) \ {<<>>}

Top == Last(Objectives)
Levels == FirstStop..Top
Monitor == "monitor"
Channel == "channel"
User == "user"
Parties == {Monitor, Channel, User}
Nobody == "nobody"

VARIABLES
    rules,      \* break_even_trigger and trailing_mode
    price,
    live,       \* the position at the broker
    row,        \* the committed TradeRecord
    copy, base, \* of each session: its record, and what it had loaded
    step, writer,
    sight,      \* what the cycle read of the position
    message,    \* the follow-up and the request under way
    crossed,    \* two of them were under way at once
    dropped,    \* a session was rolled back
    moves, messages

outside == <<rules, moves, messages>>
ruleVars == <<outside, price, live, row, copy, base, step, writer, sight, message,
              crossed, dropped>>

Triggers == {"TP1_HIT", "SIGNAL_ONLY", "R_MULTIPLE"}
Trailings == {"DISABLED", "FIXED_DISTANCE", "AFTER_TP1", "TP_LADDER"}
Silence == [kind |-> "INFO", value |-> 0, also |-> FALSE]
FirstRow == [stop |-> FirstStop, take |-> Top, tp |-> 0, be |-> FALSE, closed |-> FALSE]
NothingRead == [stop |-> FirstStop, take |-> Top, in |-> TRUE, price |-> OpenPrice]

Init ==
    /\ rules \in [trigger : Triggers, trailing : Trailings]
    /\ price = OpenPrice
    /\ live = [stop |-> FirstStop, take |-> Top, in |-> TRUE]
    /\ row = FirstRow
    /\ copy = [p \in Parties |-> FirstRow] /\ base = copy
    /\ step = [p \in Parties |-> "idle"] /\ writer = Nobody
    /\ sight = NothingRead
    /\ message = [p \in {Channel, User} |-> Silence]
    /\ crossed = FALSE /\ dropped = FALSE
    /\ moves = 0 /\ messages = 0

Goto(p, where) == step' = [step EXCEPT ![p] = where]
Busy(p) == step[p] # "idle"
Crossing(p) == crossed' = (crossed \/ \E other \in Parties \ {p} : Busy(other))

\* The price moves; the broker closes at the stop and at the objective.
Move(p) ==
    /\ moves < MaxMoves /\ moves' = moves + 1
    /\ price' = p
    /\ live' = [live EXCEPT !.in = @ /\ p > live.stop /\ p < live.take]
    /\ UNCHANGED <<rules, messages, row, copy, base, step, writer, sight, message,
                   crossed, dropped>>

-----------------------------------------------------------------------------
(* Moving the stop.                                                        *)

BreakEvenPrice == OpenPrice + Offset
FarEnough(stop) == stop + StopsLevel <= price \/ price + StopsLevel <= stop
Better(p, stop) == stop > copy[p].stop

\* modify_position: both levels are sent.  The broker may refuse.
Modify(p, new) ==
    \/ /\ live.in /\ new.stop < price /\ new.take > price
       /\ live' = [live EXCEPT !.stop = new.stop, !.take = new.take]
       /\ copy' = [copy EXCEPT ![p] = new]
    \/ UNCHANGED <<live, copy>>

\* _move_to_break_even
BreakEvenAnyway(p) == Modify(p, [copy[p] EXCEPT !.stop = BreakEvenPrice, !.be = TRUE])
BreakEven(p) ==
    IF FarEnough(BreakEvenPrice) /\ Better(p, BreakEvenPrice)
    THEN Modify(p, [copy[p] EXCEPT !.stop = BreakEvenPrice, !.be = TRUE])
    ELSE UNCHANGED <<live, copy>>

-----------------------------------------------------------------------------
(* The cycle of the monitor.                                               *)

ReadPosition ==
    /\ ~Busy(Monitor) /\ ~row.closed
    /\ sight' = [stop |-> live.stop, take |-> live.take, in |-> live.in, price |-> price]
    /\ Goto(Monitor, "load")
    /\ Crossing(Monitor)
    /\ UNCHANGED <<outside, price, live, row, copy, base, writer, message, dropped>>

\* _annoncer_objectifs: one objective after the other.
Announced(from) ==
    LET passed == {n \in DOMAIN Objectives : n > from /\ sight.price >= Objectives[n]}
    IN  CHOOSE n \in passed \union {from} : \A m \in passed : m <= n

\* sync_with_broker loads the row and gives it what the broker was read to say.
Load ==
    /\ step[Monitor] = "load"
    /\ base' = [base EXCEPT ![Monitor] = row]
    /\ copy' = [copy EXCEPT ![Monitor] =
         IF row.closed THEN row
         ELSE IF ~sight.in THEN [row EXCEPT !.closed = TRUE]
         ELSE [row EXCEPT !.stop = sight.stop, !.take = sight.take,
                          !.tp = Announced(row.tp)]]
    /\ Goto(Monitor, "flush")
    /\ UNCHANGED <<outside, price, live, row, writer, sight, message, crossed, dropped>>

\* save_trade: its turn to write.
Flush ==
    /\ step[Monitor] = "flush" /\ writer = Nobody
    /\ writer' = Monitor
    /\ Goto(Monitor, IF copy[Monitor].closed THEN "end" ELSE "protect")
    /\ UNCHANGED <<outside, price, live, row, copy, base, sight, message, crossed, dropped>>

\* _auto_break_even
Progressed ==
    CASE rules.trigger = "TP1_HIT"    -> copy[Monitor].tp >= 1
      [] rules.trigger = "R_MULTIPLE" -> price - OpenPrice >= OpenPrice - FirstStop
      [] OTHER -> FALSE
AutoBreakEven ==
    /\ step[Monitor] = "protect"
    /\ IF ~copy[Monitor].be /\ price > OpenPrice /\ Progressed
       THEN BreakEven(Monitor) ELSE UNCHANGED <<live, copy>>
    /\ Goto(Monitor, "trail")
    /\ UNCHANGED <<outside, price, row, base, writer, sight, message, crossed, dropped>>

\* _auto_trailing: a stop at a distance, never on the losing side of the entry.
Follows ==
    LET candidate == price - Distance
    IN  /\ \/ rules.trailing = "FIXED_DISTANCE"
           \/ rules.trailing = "AFTER_TP1" /\ copy[Monitor].tp >= 1
        /\ price > Distance
        /\ Better(Monitor, candidate) /\ candidate >= OpenPrice
        /\ candidate >= copy[Monitor].stop + StepPoints
        /\ FarEnough(candidate)
\* _auto_escalier: the objective before the last one passed.
Rung == IF copy[Monitor].tp = 1 THEN BreakEvenPrice ELSE Objectives[copy[Monitor].tp - 1]
Climbs ==
    /\ rules.trailing = "TP_LADDER" /\ copy[Monitor].tp >= 1
    /\ Better(Monitor, Rung) /\ FarEnough(Rung)
AutoTrailing ==
    /\ step[Monitor] = "trail"
    /\ IF Follows THEN Modify(Monitor, [copy[Monitor] EXCEPT !.stop = price - Distance])
       ELSE IF Climbs THEN Modify(Monitor, [copy[Monitor] EXCEPT !.stop = Rung, !.be = TRUE])
       ELSE UNCHANGED <<live, copy>>
    /\ Goto(Monitor, "end")
    /\ UNCHANGED <<outside, price, row, base, writer, sight, message, crossed, dropped>>

-----------------------------------------------------------------------------
(* A follow-up of the channel.                                             *)

Messages ==
    [kind : {"MOVE_SL", "MOVE_TP"}, value : Levels, also : {FALSE}]
    \union [kind : {"MOVE_SL_BE"}, value : {0}, also : {FALSE}]
    \union [kind : {"TP_HIT"}, value : DOMAIN Objectives, also : BOOLEAN]

Requests == {m \in Messages : m.kind # "TP_HIT"}

\* The pipeline writes the row of the message; apply_follow_up loads the position.
Receive(m) ==
    /\ ~Busy(Channel) /\ writer = Nobody /\ ~row.closed
    /\ messages < MaxMessages /\ messages' = messages + 1
    /\ writer' = Channel /\ message' = [message EXCEPT ![Channel] = m]
    /\ copy' = [copy EXCEPT ![Channel] = row] /\ base' = [base EXCEPT ![Channel] = row]
    /\ Goto(Channel, "apply")
    /\ Crossing(Channel)
    /\ UNCHANGED <<rules, moves, price, live, row, sight, dropped>>

\* _set_stop_loss and _set_take_profit take the price of the channel as it is.
FollowUp ==
    /\ step[Channel] = "apply"
    /\ CASE message[Channel].kind = "MOVE_SL" ->
              Modify(Channel, [copy[Channel] EXCEPT !.stop = message[Channel].value])
         [] message[Channel].kind = "MOVE_TP" ->
              Modify(Channel, [copy[Channel] EXCEPT !.take = message[Channel].value])
         [] message[Channel].kind = "MOVE_SL_BE" -> BreakEven(Channel)
         [] OTHER -> FALSE
    /\ Goto(Channel, "end")
    /\ UNCHANGED <<outside, price, row, base, writer, sight, message, crossed, dropped>>

\* _handle_tp_hit, and the break-even the message asks for.
TpHit ==
    /\ step[Channel] = "apply" /\ message[Channel].kind = "TP_HIT"
    /\ copy' = [copy EXCEPT ![Channel].tp = IF @ > message[Channel].value THEN @ ELSE message[Channel].value]
    /\ Goto(Channel, IF message[Channel].also \/ (rules.trigger = "TP1_HIT" /\ ~copy[Channel].be)
                     THEN "protect" ELSE "end")
    /\ UNCHANGED <<outside, price, live, row, base, writer, sight, message, crossed, dropped>>
TpProtect ==
    /\ step[Channel] = "protect"
    /\ BreakEven(Channel)
    /\ Goto(Channel, "end")
    /\ UNCHANGED <<outside, price, row, base, writer, sight, message, crossed, dropped>>

-----------------------------------------------------------------------------
(* A request of the application.                                           *)

\* modify_position reads the broker, move_to_break_even the row; what the user did
\* not name is sent as it was read, and no stop is compared with the present one.
Click(m) ==
    /\ ~Busy(User) /\ live.in
    /\ messages < MaxMessages /\ messages' = messages + 1
    /\ message' = [message EXCEPT ![User] = m]
    /\ copy' = [copy EXCEPT ![User] =
         CASE m.kind = "MOVE_SL" -> [row EXCEPT !.stop = m.value, !.take = live.take]
           [] m.kind = "MOVE_TP" -> [row EXCEPT !.stop = live.stop, !.take = m.value]
           [] OTHER -> [row EXCEPT !.stop = BreakEvenPrice, !.be = TRUE]]
    /\ base' = [base EXCEPT ![User] = row]
    /\ Goto(User, "apply")
    /\ Crossing(User)
    /\ UNCHANGED <<rules, moves, price, live, row, writer, sight, dropped>>
UserModify ==
    /\ step[User] = "apply"
    /\ \/ /\ live.in /\ copy[User].stop < price /\ copy[User].take > price
          /\ live' = [live EXCEPT !.stop = copy[User].stop, !.take = copy[User].take]
          /\ Goto(User, "save")
          /\ IF message[User].kind = "MOVE_SL_BE" THEN UNCHANGED <<copy, base>>
             ELSE /\ base' = [base EXCEPT ![User] = row]
                  /\ copy' = [copy EXCEPT ![User] = [row EXCEPT !.stop = copy[User].stop,
                                                               !.take = copy[User].take]]
       \/ /\ copy' = [copy EXCEPT ![User] = base[User]]      \* 422: nothing is written
          /\ Goto(User, "end") /\ UNCHANGED <<live, base>>
    /\ UNCHANGED <<outside, price, row, writer, sight, message, crossed, dropped>>
UserSave ==
    /\ step[User] = "save" /\ writer = Nobody
    /\ writer' = User /\ Goto(User, "end")
    /\ UNCHANGED <<outside, price, live, row, copy, base, sight, message, crossed, dropped>>

-----------------------------------------------------------------------------
(* The end of a session: the columns it has changed, or nothing.           *)

End(p) ==
    /\ step[p] = "end"
    /\ Goto(p, "idle")
    /\ writer' = IF writer = p THEN Nobody ELSE writer
    /\ copy' = [copy EXCEPT ![p] = FirstRow] /\ base' = [base EXCEPT ![p] = FirstRow]
    /\ sight' = IF p = Monitor THEN NothingRead ELSE sight
    /\ message' = [q \in DOMAIN message |-> IF q = p THEN Silence ELSE message[q]]
    /\ UNCHANGED <<outside, price, live, crossed>>
Commit(p) ==
    /\ End(p)
    /\ row' = [f \in DOMAIN row |-> IF copy[p][f] # base[p][f] THEN copy[p][f] ELSE row[f]]
    /\ UNCHANGED dropped
RollBack(p) == End(p) /\ dropped' = TRUE /\ UNCHANGED row

Next ==
    \/ \E p \in Levels : Move(p)
    \/ ReadPosition \/ Load \/ Flush \/ AutoBreakEven \/ AutoTrailing
    \/ \E m \in Messages : Receive(m)
    \/ FollowUp \/ TpHit \/ TpProtect
    \/ \E m \in Requests : Click(m)
    \/ UserModify \/ UserSave
    \/ \E p \in Parties : Commit(p) \/ RollBack(p)

Spec == Init /\ [][Next]_ruleVars

-----------------------------------------------------------------------------
(* Properties.                                                             *)

Asked(kinds) ==
    \E p \in {Channel, User} : step[p] = "apply" /\ message[p].kind \in kinds
AskedStop == Asked({"MOVE_SL"}) \/ (step[User] = "apply" /\ message[User].kind = "MOVE_SL_BE")
AskedTake == Asked({"MOVE_TP"})
Recedes == live'.stop < live.stop /\ ~AskedStop
Undoes == live'.take # live.take /\ ~AskedTake

\* Only the channel or the user, naming it, moves a stop back or changes the objective,
\* whatever rules of the monitor, messages and requests follow one another and whatever
\* the price does while each acts on what it read; as long as they do not overlap, and
\* none of them is rolled back after it has spoken to the broker.
StopForward == [][Recedes \/ Undoes => crossed' \/ dropped']_ruleVars

\* position_manager.py:95, of the stop that the rules move: it never goes back.  False
\* when a follow-up moves it between the reading of a cycle and its turn to write.
StopNeverBack == [][Recedes => dropped']_ruleVars
=============================================================================
