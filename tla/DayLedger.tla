------------------------------ MODULE DayLedger ------------------------------
(***************************************************************************)
(* The figures of the day that the loss limits are measured with           *)
(* (TradingState: balance of the morning, realised result, highest equity, *)
(* consecutive losses, pause), and the closures that feed them.            *)
(*                                                                         *)
(* The monitor finds the positions the broker has closed; a close message  *)
(* of a channel, a close request of the application and the emergency stop *)
(* close positions themselves, outside the engine lock.  Each of them      *)
(* works in one database session: what it writes is visible to the others  *)
(* at its commit, and its first flush takes the single writer of SQLite.   *)
(* The broker closes positions, publishes the deals of a closure possibly  *)
(* late, and the account may receive money from outside.                   *)
(*                                                                         *)
(* Money is counted in account units and a position in units of volume;    *)
(* a position opens with two of them.                                      *)
(***************************************************************************)
EXTENDS Integers, FiniteSets, FiniteSetsExt, SequencesExt, TLC

CONSTANTS
    Positions,
    Closers,        \* requests that close positions
    Monitor,
    Nobody,
    KindOf,         \* "follow" (channel), "manual" (application), "emergency"
    PartialOf,      \* closers that ask for half of each position
    GainOf,         \* profit of the whole position once its price has moved
    Fee,            \* commission the broker takes at the entry
    Start,          \* balance of the morning
    Deposit,        \* amount of a movement of money from outside
    MaxLosses,      \* max_consecutive_losses
    MaxLate,        \* bound: closing deals the broker publishes late
    MaxMoves, MaxDays, MaxResumes,      \* bounds on what the outside does
    MaxUnread,      \* bound: readings of the terminal that fail
    MaxAborts,      \* bound: sessions that end in a rollback
    Untouched,      \* a column a session has not written
    Null

Sessions == Closers \union {Monitor}
ASSUME SessionsAssumption == Monitor \notin Closers /\ Nobody \notin Sessions
ASSUME PositionsAssumption == IsFiniteSet(Positions) /\ "ledger" \notin Positions
ASSUME ColumnsAssumption ==     \* no column holds the mark of an absent write
    /\ Null \notin Int
    /\ Untouched \notin Int \union BOOLEAN \union {Null, "open", "partial", "closed"}
ASSUME KindsAssumption ==
    /\ KindOf \in [Closers -> {"follow", "manual", "emergency"}]
    /\ PartialOf \in [Closers -> BOOLEAN]
    /\ \A c \in Closers : PartialOf[c] => KindOf[c] # "emergency"
ASSUME MoneyAssumption ==
    /\ GainOf \in [Positions -> Int]
    /\ \A k \in Positions : GainOf[k] % 2 = 0
    /\ Fee \in Nat /\ Start \in Nat /\ Deposit \in Int
    /\ MaxLosses \in Nat /\ MaxLate \in Nat

Whole == 2
LedgerFields == {"day", "start", "realized", "peak", "losses", "paused"}
RowFields == {"state", "volume", "result", "profit"}
Columns == ({"ledger"} \X LedgerFields) \union (Positions \X RowFields)

VARIABLES
    table,          \* the committed columns
    writes,         \* what each open session has written
    writer,         \* session that holds the write lock of the database
    pc, todo, found, asked,     \* of each session: step, positions left to
                                \* close, results of those it found or made
                                \* closed, volume it closed last
    seen,           \* what the monitor read from the terminal in this cycle
    volume, price, cash, paid, shown,   \* the broker: open volume, profit of a
                    \* whole position, balance, paid and published results
    today, moves, late, resumes, unread, aborts

broker == <<volume, price, cash, paid, shown, late>>
world == <<today, moves, resumes>>
faults == <<unread, aborts>>
memory == <<todo, found, asked>>
database == <<table, writes, writer>>
vars == <<database, pc, memory, seen, broker, world, faults>>

TypeOf(col) ==
    CASE col[2] = "paused" -> BOOLEAN
      [] col[2] = "state"  -> {"open", "partial", "closed"}
      [] col[2] = "peak"   -> Int \union {Null}
      [] col[2] \in {"day", "losses", "volume"} -> Nat
      [] OTHER -> Int

TypeOK ==
    /\ DOMAIN table = Columns
    /\ \A col \in Columns : table[col] \in TypeOf(col)
    /\ DOMAIN writes = Sessions
    /\ \A s \in Sessions, col \in Columns :
          writes[s][col] = Untouched \/ writes[s][col] \in TypeOf(col)
    /\ writer \in Sessions \union {Nobody}
    /\ todo \in [Sessions -> SUBSET Positions]
    /\ DOMAIN found = Sessions
    /\ \A s \in Sessions : found[s] \in [DOMAIN found[s] -> Int]
                          /\ DOMAIN found[s] \subseteq Positions
    /\ asked \in [Closers -> 0..Whole]
    /\ volume \in [Positions -> 0..Whole]
    /\ cash \in Int /\ paid \in [Positions -> Int] /\ shown \in [Positions -> Int]

NothingWritten == [col \in Columns |-> Untouched]
NoneClosed == [k \in {} |-> 0]
Floating(k) == (price[k] * volume[k]) \div Whole
Floatings == [k \in Positions |-> Floating(k)]
Total(amounts, ks) == FoldSet(LAMBDA k, sum : amounts[k] + sum, 0, ks)
Equity == cash + Total(Floatings, Positions)
Zero == [k \in Positions |-> 0]
NothingSeen == [cash |-> Null, equity |-> Null, live |-> {},
                volume |-> Zero, profit |-> Zero, deals |-> Zero]

\* The day has begun, its positions are open and the monitor has run once.
OpeningLedger(balance) ==
    [day |-> 0, start |-> balance, realized |-> 0, peak |-> balance,
     losses |-> 0, paused |-> FALSE]
OpeningRow == [state |-> "open", volume |-> Whole, result |-> 0, profit |-> 0]

Init ==
    /\ volume = [k \in Positions |-> Whole]
    /\ price = [k \in Positions |-> 0]
    /\ cash = Start - Fee * Cardinality(Positions)
    /\ paid = [k \in Positions |-> -Fee]
    /\ shown = [k \in Positions |-> -Fee]
    /\ table = [col \in Columns |->
                  IF col[1] = "ledger" THEN OpeningLedger(Start)[col[2]]
                  ELSE OpeningRow[col[2]]]
    /\ writes = [s \in Sessions |-> NothingWritten]
    /\ writer = Nobody
    /\ pc = [s \in Sessions |-> IF s = Monitor THEN "sleep" ELSE "idle"]
    /\ todo = [s \in Sessions |-> {}]
    /\ found = [s \in Sessions |-> NoneClosed]
    /\ asked = [c \in Closers |-> 0]
    /\ seen = NothingSeen
    /\ today = 0 /\ moves = 0 /\ late = 0 /\ resumes = 0 /\ unread = 0 /\ aborts = 0

-----------------------------------------------------------------------------
(* Sessions.                                                               *)

\* A column as session s reads it: its own write, or what is committed.
See(s, col) == IF writes[s][col] = Untouched THEN table[col] ELSE writes[s][col]
Ledger(s, field) == See(s, <<"ledger", field>>)
Row(s, k, field) == See(s, <<k, field>>)
OpenRows(s) == {k \in Positions : Row(s, k, "state") \in {"open", "partial"}}

\* Assigning to a loaded object: only columns whose value changes are written.
Assign(s, values) ==
    writes' = [writes EXCEPT ![s] =
        [col \in Columns |->
            IF col \in DOMAIN values /\ values[col] # See(s, col)
            THEN values[col] ELSE @[col]]]
LedgerColumns(fields) ==
    [col \in {"ledger"} \X DOMAIN fields |-> fields[col[2]]]
RowColumns(k, fields) == [col \in {k} \X DOMAIN fields |-> fields[col[2]]]

CanWrite(s) == writer \in {Nobody, s}
TakeWriter(s) == CanWrite(s) /\ writer' = s
DropWriter(s) == writer' = IF writer = s THEN Nobody ELSE writer
Goto(s, step) == pc' = [pc EXCEPT ![s] = step]

Close(s) == /\ writes' = [writes EXCEPT ![s] = NothingWritten]
            /\ DropWriter(s)
            /\ Goto(s, IF s = Monitor THEN "sleep" ELSE "done")
            /\ found' = [found EXCEPT ![s] = NoneClosed]
            /\ todo' = [todo EXCEPT ![s] = {}]
            /\ seen' = IF s = Monitor THEN NothingSeen ELSE seen
            /\ UNCHANGED <<asked, broker, world>>
Publish(s) == table' = [col \in Columns |-> See(s, col)]

\* The flush of what the session assigned, once it has the writer.
FlushThen(s, step) ==
    /\ TakeWriter(s)
    /\ Goto(s, step)
    /\ UNCHANGED <<table, writes, memory, seen, broker, world, faults>>

\* An exception, a busy database or the end of the process: rollback.
Abort(s) ==
    /\ aborts < MaxAborts
    /\ pc[s] \notin {"idle", "sleep", "done"}
    /\ aborts' = aborts + 1
    /\ Close(s)
    /\ UNCHANGED <<table, unread>>

-----------------------------------------------------------------------------
(* Closed positions reach the counters.                                    *)

\* The objects counted are those the session loaded: trade.realized_pnl or,
\* where it is zero, trade.profit, as they were when the closure was recorded.
ResultOf(s, k) ==
    IF Row(s, k, "result") # 0 THEN Row(s, k, "result") ELSE Row(s, k, "profit")
Streak(losses, result) ==
    IF result < 0 THEN losses + 1 ELSE IF result > 0 THEN 0 ELSE losses

\* Order in which closures are counted: rows are listed latest opened first by
\* the monitor, in order of opening by a closer.
Rank == SetToSeq(Positions)
InOrder(s, ks) ==
    LET listed == SelectSeq(Rank, LAMBDA k : k \in ks)
    IN  IF s = Monitor THEN Reverse(listed) ELSE listed

PauseOnPastLosses(s, results) ==
    LET losses == FoldLeft(LAMBDA n, k : Streak(n, results[k]),
                           Ledger(s, "losses"), InOrder(s, DOMAIN results))
    IN  Assign(s, LedgerColumns(
            [realized |-> Ledger(s, "realized") + Total(results, DOMAIN results),
             losses   |-> losses,
             paused   |-> Ledger(s, "paused") \/ Ledger(s, "losses") >= MaxLosses]))
ApplyClosedTrades(s, results) ==
    LET losses == FoldLeft(LAMBDA n, k : Streak(n, results[k]),
                           Ledger(s, "losses"), InOrder(s, DOMAIN results))
    IN  Assign(s, LedgerColumns(
            [realized |-> Ledger(s, "realized") + Total(results, DOMAIN results),
             losses   |-> losses,
             paused   |-> Ledger(s, "paused") \/ losses >= MaxLosses]))

\* _resultat_realise: the net sum of the deals, or the floating profit if zero.
ResultAsPublished(deals, profit) == deals
ResultFromDeals(deals, profit) == IF deals = 0 THEN profit ELSE deals

-----------------------------------------------------------------------------
(* The monitor: _monitor_once.                                             *)

BeginCycle ==
    /\ pc[Monitor] = "sleep"
    /\ \/ /\ seen' = [NothingSeen EXCEPT !.cash = cash, !.equity = Equity]
          /\ UNCHANGED unread
       \/ /\ unread < MaxUnread         \* account_info answers None
          /\ unread' = unread + 1
          /\ UNCHANGED seen
    /\ Goto(Monitor, "rollover")
    /\ UNCHANGED <<database, memory, broker, world, aborts>>

\* ensure_day_rollover: another day, other marks.
Rollover ==
    /\ pc[Monitor] = "rollover"
    /\ IF seen.cash # Null /\ Ledger(Monitor, "day") # today
       THEN /\ Assign(Monitor, LedgerColumns(
                    [day |-> today, start |-> seen.cash, realized |-> 0,
                     peak |-> Null]))
            /\ Goto(Monitor, "flushDay")
       ELSE Goto(Monitor, "snapshot") /\ UNCHANGED writes
    /\ UNCHANGED <<table, writer, memory, seen, broker, world, faults>>
FlushDay == pc[Monitor] = "flushDay" /\ FlushThen(Monitor, "snapshot")

\* sync_with_broker reads the positions, then the deals of the last 48 hours.
Snapshot ==
    /\ pc[Monitor] = "snapshot"
    /\ seen' = [seen EXCEPT !.live = {k \in Positions : volume[k] > 0},
                            !.volume = volume,
                            !.profit = Floatings,
                            !.deals = shown]
    /\ Goto(Monitor, "rows")
    /\ UNCHANGED <<database, memory, broker, world, faults>>
EmptyWhenUnreadable ==
    /\ pc[Monitor] = "snapshot"
    /\ unread < MaxUnread
    /\ unread' = unread + 1
    /\ Goto(Monitor, "rows")
    /\ UNCHANGED <<database, memory, seen, broker, world, aborts>>
Unreadable ==
    /\ pc[Monitor] = "snapshot"
    /\ unread < MaxUnread
    /\ unread' = unread + 1
    /\ Goto(Monitor, "settle")
    /\ UNCHANGED <<database, memory, seen, broker, world, aborts>>

\* It compares the open rows with what it read: a row whose position is gone is
\* closed, the others take the figures of the broker.
CompareRows ==
    /\ pc[Monitor] = "rows"
    /\ LET rows   == OpenRows(Monitor)
           closed == rows \ seen.live
           After(k) ==
               IF k \in closed
               THEN [state |-> "closed", volume |-> Row(Monitor, k, "volume"),
                     profit |-> Row(Monitor, k, "profit"),
                     result |-> ResultFromDeals(seen.deals[k],
                                                Row(Monitor, k, "profit"))]
               ELSE [state |-> Row(Monitor, k, "state"),
                     volume |-> seen.volume[k], profit |-> seen.profit[k],
                     result |-> Row(Monitor, k, "result")]
       IN  /\ Assign(Monitor, [col \in rows \X RowFields |-> After(col[1])[col[2]]])
           /\ found' = [found EXCEPT
                            ![Monitor] = [k \in closed |-> After(k).result]]
           /\ Goto(Monitor, IF rows = {} THEN "settle" ELSE "flushRows")
    /\ UNCHANGED <<table, writer, todo, asked, seen, broker, world, faults>>
FlushRowsAndCommit ==
    /\ pc[Monitor] = "flushRows"
    /\ CanWrite(Monitor)
    /\ Publish(Monitor)
    /\ writes' = [writes EXCEPT ![Monitor] = NothingWritten]
    /\ Goto(Monitor, IF found[Monitor] = NoneClosed THEN "settle" ELSE "count")
    /\ UNCHANGED <<writer, memory, seen, broker, world, faults>>
FlushRows ==
    /\ pc[Monitor] = "flushRows"
    /\ FlushThen(Monitor, IF found[Monitor] = NoneClosed THEN "settle" ELSE "count")

\* What follows the closures of a request.
LastStep(s) == IF KindOf[s] = "emergency" THEN "suspend" ELSE "commit"
Count(s) ==
    /\ pc[s] = "count"
    /\ ApplyClosedTrades(s, found[s])
    /\ Goto(s, IF s = Monitor THEN "settle" ELSE LastStep(s))
    /\ UNCHANGED <<table, writer, memory, seen, broker, world, faults>>

Magnitude(n) == IF n < 0 THEN -n ELSE n
Tolerance(expected) == IF Magnitude(expected) \div 20 > 5
                       THEN Magnitude(expected) \div 20 ELSE 5
Expected(s) == Ledger(s, "start") + Ledger(s, "realized")

\* reconcile_external_balance_move: the balance differs from what the day's
\* trading explains.
NeverMoved == FALSE
MovedInAnyCycle ==
    /\ Ledger(Monitor, "day") = today
    /\ Magnitude(seen.cash - Expected(Monitor)) > Tolerance(Expected(Monitor))
Moved ==
    /\ found[Monitor] = NoneClosed
    /\ Ledger(Monitor, "day") = today
    /\ Magnitude(seen.cash - Expected(Monitor)) > Tolerance(Expected(Monitor))

Settle ==
    /\ pc[Monitor] = "settle"
    /\ IF seen.cash = Null
       THEN Goto(Monitor, "commit") /\ UNCHANGED writes
       ELSE LET peak == IF Moved THEN Null ELSE Ledger(Monitor, "peak")
            IN  /\ Assign(Monitor, LedgerColumns(
                      [start |-> IF Moved
                                 THEN seen.cash - Ledger(Monitor, "realized")
                                 ELSE Ledger(Monitor, "start"),
                       peak |-> IF peak = Null \/ seen.equity > peak
                                THEN seen.equity ELSE peak]))
                /\ Goto(Monitor, "flushState")
    /\ UNCHANGED <<table, writer, memory, seen, broker, world, faults>>
FlushState ==
    /\ pc[Monitor] = "flushState"
    /\ IF writes[Monitor] = NothingWritten THEN UNCHANGED writer
       ELSE TakeWriter(Monitor)
    /\ Goto(Monitor, "commit")
    /\ UNCHANGED <<table, writes, memory, seen, broker, world, faults>>

Commit(s) ==
    /\ pc[s] = "commit"
    /\ Publish(s)
    /\ Close(s)
    /\ UNCHANGED faults

MonitorStep ==
    \/ BeginCycle \/ Rollover \/ FlushDay \/ Snapshot \/ Unreadable
    \/ CompareRows \/ FlushRows \/ Count(Monitor) \/ Settle \/ FlushState
    \/ Commit(Monitor)

-----------------------------------------------------------------------------
(* The closers.                                                            *)

\* A channel's message has flushed its Signal row, hence holds the writer, when
\* it lists the open trades of its parent signal.
BeginFollowUp(c) ==
    /\ pc[c] = "idle" /\ KindOf[c] = "follow"
    /\ TakeWriter(c)
    /\ todo' = [todo EXCEPT ![c] = OpenRows(c)]
    /\ Goto(c, "close")
    /\ UNCHANGED <<table, writes, found, asked, seen, broker, world, faults>>

\* The others only read so far: one position of the terminal, or all of them.
BeginRequest(c) ==
    /\ pc[c] = "idle" /\ KindOf[c] # "follow"
    /\ LET live == {k \in Positions : volume[k] > 0}
       IN  \E ks \in IF KindOf[c] = "manual" THEN {{k} : k \in live} ELSE {live} :
              todo' = [todo EXCEPT ![c] = ks]
    /\ Goto(c, "close")
    /\ UNCHANGED <<database, found, asked, seen, broker, world, faults>>

\* Half of the volume of the row, or of the position for the application.  The
\* smallest volume is one: a channel then closes nothing, the application all.
Half(c, k) == IF KindOf[c] = "follow" THEN Row(c, k, "volume") \div 2
              ELSE volume[k] \div 2
Asks(c, k) == IF PartialOf[c] /\ Half(c, k) > 0 THEN Half(c, k) ELSE volume[k]
TooSmall(c, k) == PartialOf[c] /\ KindOf[c] = "follow" /\ Half(c, k) = 0

\* What a closing order of n units does at the broker.
BrokerClosesUnits(k, n) ==
    LET result == (price[k] * n) \div Whole
    IN  /\ volume' = [volume EXCEPT ![k] = @ - n]
        /\ cash' = cash + result
        /\ paid' = [paid EXCEPT ![k] = @ + result]
        /\ \/ shown' = [shown EXCEPT ![k] = paid'[k]] /\ UNCHANGED late
           \/ late < MaxLate /\ late' = late + 1 /\ UNCHANGED shown
        /\ UNCHANGED price

FirstOf(c) == CHOOSE k \in todo[c] : TRUE   \* a closer takes them one by one
CloseOne(c) ==
    /\ pc[c] = "close" /\ todo[c] # {}
    /\ LET k == FirstOf(c)
       IN  IF volume[k] = 0 \/ TooSmall(c, k)
           THEN /\ todo' = [todo EXCEPT ![c] = @ \ {k}]    \* refused, or nothing
                /\ UNCHANGED <<pc, asked, broker>>
           ELSE /\ BrokerClosesUnits(k, Asks(c, k))
                /\ asked' = [asked EXCEPT ![c] = Asks(c, k)]
                /\ Goto(c, "record")
                /\ UNCHANGED todo
    /\ UNCHANGED <<database, found, seen, world, faults>>

\* The row of the position: its volume, and its state and result if it is over.
Record(c) ==
    /\ pc[c] = "record"
    /\ LET k    == FirstOf(c)
           left == IF KindOf[c] = "emergency" \/ Row(c, k, "volume") <= asked[c]
                   THEN 0 ELSE Row(c, k, "volume") - asked[c]
           over == left = 0
           result ==
              CASE KindOf[c] = "manual" \/ ~over -> Row(c, k, "result")
                [] KindOf[c] = "follow" /\ over ->
                     ResultFromDeals(shown[k], Row(c, k, "profit"))
                [] OTHER -> ResultOf(c, k)
           state == IF over THEN "closed" ELSE "partial"
       IN  /\ Assign(c, RowColumns(k, [volume |-> left, result |-> result,
                                       state |-> state]))
           /\ found' = [found EXCEPT ![c] = IF over THEN k :> result @@ @ ELSE @]
           /\ todo' = [todo EXCEPT ![c] = @ \ {k}]
    /\ Goto(c, "flush")
    /\ UNCHANGED <<table, writer, asked, seen, broker, world, faults>>
FlushRecord(c) == pc[c] = "flush" /\ FlushThen(c, "close")

\* A close of the application is recorded and nothing more.
Recorded(c) ==
    /\ pc[c] = "close" /\ todo[c] = {}
    /\ Goto(c, IF KindOf[c] = "manual" \/ found[c] = NoneClosed THEN LastStep(c)
               ELSE "count")
    /\ UNCHANGED <<database, memory, seen, broker, world, faults>>

\* The emergency stop may suspend the automation too.
Suspend(c) ==
    /\ pc[c] = "suspend"
    /\ \/ /\ TakeWriter(c)
          /\ Assign(c, LedgerColumns([paused |-> TRUE]))
       \/ UNCHANGED <<writes, writer>>
    /\ Goto(c, "commit")
    /\ UNCHANGED <<table, memory, seen, broker, world, faults>>

CloserStep(c) ==
    \/ BeginFollowUp(c) \/ BeginRequest(c) \/ CloseOne(c) \/ Record(c)
    \/ FlushRecord(c) \/ Recorded(c) \/ Count(c) \/ Suspend(c) \/ Commit(c)

-----------------------------------------------------------------------------
(* The outside: the broker, the clock, the owner of the account.           *)

PriceMoves(k) ==
    /\ volume[k] > 0 /\ price[k] = 0
    /\ price' = [price EXCEPT ![k] = GainOf[k]]
    /\ UNCHANGED <<database, pc, memory, seen, volume, cash, paid, shown, late,
                   world, faults>>
BrokerCloses(k) ==      \* stop loss, take profit or the terminal's own screen
    /\ volume[k] > 0
    /\ BrokerClosesUnits(k, volume[k])
    /\ UNCHANGED <<database, pc, memory, seen, world, faults>>
DealsShown(k) ==
    /\ shown[k] # paid[k]
    /\ shown' = [shown EXCEPT ![k] = paid[k]]
    /\ UNCHANGED <<database, pc, memory, seen, volume, price, cash, paid, late,
                   world, faults>>
MoneyMoves ==
    /\ moves < MaxMoves
    /\ moves' = moves + 1
    /\ cash' = cash + Deposit
    /\ UNCHANGED <<database, pc, memory, seen, volume, price, paid, shown,
                   late, today, resumes, faults>>
Midnight ==
    /\ today < MaxDays
    /\ today' = today + 1
    /\ UNCHANGED <<database, pc, memory, seen, broker, moves, resumes, faults>>
\* The user lifts the pause; the streak of losses stays as it is.
Resume ==
    /\ resumes < MaxResumes /\ writer = Nobody
    /\ table[<<"ledger", "paused">>]
    /\ resumes' = resumes + 1
    /\ table' = [table EXCEPT ![<<"ledger", "paused">>] = FALSE]
    /\ UNCHANGED <<writes, writer, pc, memory, seen, broker, today, moves,
                   faults>>

Outside ==
    \/ \E k \in Positions : PriceMoves(k) \/ BrokerCloses(k) \/ DealsShown(k)
    \/ MoneyMoves \/ Midnight \/ Resume

Next ==
    \/ MonitorStep
    \/ \E c \in Closers : CloserStep(c)
    \/ \E s \in Sessions : Abort(s)
    \/ Outside

Spec == Init /\ [][Next]_vars
FairSpec ==
    /\ Spec
    /\ WF_vars(MonitorStep)
    /\ \A c \in Closers : WF_vars(CloserStep(c))

-----------------------------------------------------------------------------
(* Properties.                                                             *)

Committed(field) == table[<<"ledger", field>>]
ClosedRows == {k \in Positions : table[<<k, "state">>] = "closed"}
CommittedResult(k) == IF table[<<k, "result">>] # 0 THEN table[<<k, "result">>]
                      ELSE table[<<k, "profit">>]

\* Requests that close positions have all yet to begin: closures are those of
\* the broker, and only the monitor records them.
OnlyMonitor == \A c \in Closers : pc[c] = "idle"

\* The realised result of the day is the sum of the results of the positions
\* recorded as closed: each closure the monitor finds reaches the counter once,
\* however many cycles and rollbacks it took.  (A request that closes positions
\* outside the engine lock may see its closures counted twice; a new day starts
\* from zero.)
CountedOnce ==
    OnlyMonitor /\ today = 0 =>
        Committed("realized") =
            Total([k \in ClosedRows |-> CommittedResult(k)], ClosedRows)

\* A position recorded as closed has no volume left at the broker.
ClosedIsGone == \A k \in ClosedRows : volume[k] = 0

\* The result the monitor records for a closed position is what the broker paid
\* for it or, when its deals are not published yet, the last floating profit:
\* neither the zero of deals to come nor a part of the sum.
ResultTrue ==
    OnlyMonitor => \A k \in ClosedRows :
                       table[<<k, "result">>] \in {paid[k], table[<<k, "profit">>]}

\* A streak of losses at the limit suspends the automation in the very
\* transaction that counts it, also right after the user resumed.
LossesPause ==
    [][/\ Committed("losses")' # Committed("losses")
       /\ Committed("losses")' >= MaxLosses
       => Committed("paused")']_vars

\* Nothing the trading does within the day moves the balance of the morning or
\* lowers the highest equity, the marks of the daily loss and of the drawdown:
\* as long as no money comes from outside, the terminal answers, its deals are
\* on time and no request closes a part of a position.
OnlyTrading == moves = 0 /\ unread = 0 /\ late = 0 /\ OnlyMonitor
BaselineKept ==
    [][Committed("day")' = Committed("day") /\ today = 0 /\ OnlyTrading
       => /\ Committed("start")' = Committed("start")
          /\ Committed("peak")' >= Committed("peak")]_vars

\* Once the outside is quiet, the marks of the day explain the balance: a
\* deposit ends up in the balance of the morning, and a new day gets its own.
BaselineSettles ==
    <>[](/\ Committed("day") = today
         /\ LET expected == Committed("start") + Committed("realized")
            IN  Magnitude(cash - expected) <= Tolerance(expected))

\* Whoever closes a position, its result is counted once.
ClosuresCountedOnce ==
    Committed("realized") =
        Total([k \in ClosedRows |-> CommittedResult(k)], ClosedRows)
=============================================================================
