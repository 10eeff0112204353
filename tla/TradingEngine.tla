--------------------------- MODULE TradingEngine ---------------------------
(***************************************************************************)
(* The order path of bridge/app/services/trading/engine.py, with the two   *)
(* locks it meets: the asyncio lock of TradingEngine and the single writer *)
(* of the SQLite file.                                                     *)
(*                                                                         *)
(* A task is one coroutine with one database session: a Telegram message   *)
(* that carries an entry signal, an HTTP request of the mobile application *)
(* (approve or reject), or the monitor loop.  A session buffers its writes *)
(* until commit (autoflush is off, expire_on_commit is off): the buffers   *)
(* are w*, the committed tables are db*.  Every await is a point where     *)
(* another task may run, so an action spans the code between two awaits    *)
(* whose order matters.                                                    *)
(***************************************************************************)
EXTENDS Integers, FiniteSets

CONSTANTS
    Signals,        \* the entry messages, each one the signal it carries
    Requests,       \* the approve and reject calls of the application
    Monitor,        \* the monitor loop
    Nobody,         \* owner of a free lock
    MaxTicket,      \* bound: tickets the broker hands out
    MaxFaults,      \* bound: crashes and calls to the terminal that are lost
    SymOf, SideOf,  \* instrument and direction of a signal
    EntryOf,        \* its entry zone, the price its evaluation meets, its stop
    KindOf,         \* "market" or "pending", as resolve_order_type decides
    ModeOf,         \* channel mode: "AUTO", "MANUAL" or "OBSERVE"
    LegsOf,         \* orders in the take-profit plan of a signal
    LongAge,        \* signals of channels whose own age limit exceeds the
                    \* review delay, which the global limit sets
    MaxPositions, MaxPerSymbol, MaxDailyRisk,
    SingleWriter    \* TRUE on SQLite, FALSE on PostgreSQL

Workers == Signals \union Requests
Tasks == Workers \union {Monitor}
Tickets == 1..MaxTicket

ASSUME TasksAssumption ==
    /\ Signals \intersect Requests = {}
    /\ Monitor \notin Workers
    /\ Nobody \notin Tasks
ASSUME BoundsAssumption ==
    /\ MaxTicket \in Nat /\ MaxFaults \in Nat
    /\ MaxPositions \in Nat /\ MaxPerSymbol \in Nat /\ MaxDailyRisk \in Nat
    /\ SingleWriter \in BOOLEAN
ASSUME SignalsAssumption ==
    /\ KindOf \in [Signals -> {"market", "pending"}]
    /\ ModeOf \in [Signals -> {"AUTO", "MANUAL", "OBSERVE"}]
    /\ LegsOf \in [Signals -> Nat \ {0}]
    /\ LongAge \subseteq Signals
ASSUME EntriesAssumption ==
    EntryOf \in [Signals -> [low : Nat, high : Nat, tick : Nat \ {0}, stop : Nat]]

Untouched == "-"    \* a column the session has not written
Status == {"none", "PARSED", "REJECTED", "OBSERVED", "NEEDS_REVIEW",
           "EXPIRED", "APPROVED", "SENT", "OPEN", "FAILED"}
RowState == {"none", "pending", "open", "closed", "cancelled"}
BrokerState == {"none", "pending", "open", "gone"}

WorkerPc == {"idle", "insert", "expire", "lockwait", "route", "evaluate",
             "listing", "cancelling", "send", "persist", "commit", "done",
             "failed"}
MonitorPc == {"sleep", "reconcile", "flushOrders", "closures", "flushTrades",
              "expiry", "flushExpiry", "mcommit"}

VARIABLES
    pc,             \* where each task stands
    target,         \* the signal each task works on
    sawPaused, sawRisked, sawOpen,      \* what it has read of the shared state
    todo, leg, ticket,                  \* its orders to cancel, to place, placed
    wStatus, wRow, wRisk,               \* writes of each open session
    dbStatus, dbRow, dbRisked, dbPaused, \* the committed tables
    engineLock,     \* holder of TradingEngine._lock
    writer,         \* holder of the write lock of the database
    broker,         \* what the broker knows of each ticket
    owner,          \* the signal named in the order's comment
    lastTicket,
    due,            \* signals whose review deadline has passed
    faults

reads == <<sawPaused, sawRisked, sawOpen>>
plan == <<todo, leg, ticket>>
memory == <<target, reads, plan>>
local == <<pc, memory>>
session == <<wStatus, wRow, wRisk>>
tables == <<dbStatus, dbRow, dbRisked, dbPaused>>
terminal == <<broker, owner, lastTicket>>
vars == <<local, session, tables, engineLock, writer, terminal, due, faults>>

NoStatus == [s \in Signals |-> Untouched]
NoRow == [k \in Tickets |-> Untouched]
NoRisk == -1

TypeOK ==
    /\ pc \in [Tasks -> WorkerPc \union MonitorPc]
    /\ \A t \in Workers : pc[t] \in WorkerPc
    /\ pc[Monitor] \in MonitorPc
    /\ target \in [Tasks -> Signals \union {Nobody}]
    /\ sawPaused \in [Tasks -> BOOLEAN]
    /\ sawRisked \in [Tasks -> Nat]
    /\ sawOpen \in [Tasks -> SUBSET Tickets]
    /\ todo \in [Tasks -> SUBSET Tickets]
    /\ leg \in [Tasks -> Nat]
    /\ ticket \in [Tasks -> Nat]
    /\ wStatus \in [Tasks -> [Signals -> Status \union {Untouched}]]
    /\ wRow \in [Tasks -> [Tickets -> RowState \union {Untouched}]]
    /\ wRisk \in [Tasks -> Nat \union {NoRisk}]
    /\ dbStatus \in [Signals -> Status]
    /\ dbRow \in [Tickets -> RowState]
    /\ dbRisked \in Nat
    /\ dbPaused \in BOOLEAN
    /\ engineLock \in Tasks \union {Nobody}
    /\ writer \in Tasks \union {Nobody}
    /\ broker \in [Tickets -> BrokerState]
    /\ owner \in [Tickets -> Signals \union {Nobody}]
    /\ lastTicket \in 0..MaxTicket
    /\ due \in SUBSET Signals
    /\ faults \in 0..MaxFaults

Init ==
    /\ pc = [t \in Tasks |-> IF t = Monitor THEN "sleep" ELSE "idle"]
    /\ target = [t \in Tasks |-> IF t \in Signals THEN t ELSE Nobody]
    /\ sawPaused = [t \in Tasks |-> FALSE]
    /\ sawRisked = [t \in Tasks |-> 0]
    /\ sawOpen = [t \in Tasks |-> {}]
    /\ todo = [t \in Tasks |-> {}]
    /\ leg = [t \in Tasks |-> 0]
    /\ ticket = [t \in Tasks |-> 0]
    /\ wStatus = [t \in Tasks |-> NoStatus]
    /\ wRow = [t \in Tasks |-> NoRow]
    /\ wRisk = [t \in Tasks |-> NoRisk]
    /\ dbStatus = [s \in Signals |-> "none"]
    /\ dbRow = [k \in Tickets |-> "none"]
    /\ dbRisked = 0
    /\ dbPaused = FALSE
    /\ engineLock = Nobody
    /\ writer = Nobody
    /\ broker = [k \in Tickets |-> "none"]
    /\ owner = [k \in Tickets |-> Nobody]
    /\ lastTicket = 0
    /\ due = {}
    /\ faults = 0

-----------------------------------------------------------------------------
(* Sessions and locks.                                                     *)

\* The first flush of a session takes SQLite's write lock and keeps it until
\* commit or rollback; PostgreSQL lets several sessions write.
CanWrite(t) == SingleWriter => writer \in {Nobody, t}
WriterPerStatement(t) == CanWrite(t) /\ UNCHANGED writer
TakeWriter(t) == /\ CanWrite(t)
                 /\ writer' = IF SingleWriter THEN t ELSE writer
DropWriter(t) == writer' = IF writer = t THEN Nobody ELSE writer

UnguardedTakeLock(t) == engineLock' = t
TakeLock(t) == /\ engineLock = Nobody
               /\ engineLock' = t
DropLock(t) == engineLock' = IF engineLock = t THEN Nobody ELSE engineLock

Goto(t, where) == pc' = [pc EXCEPT ![t] = where]
WriteStatus(t, st) ==
    /\ wStatus' = [wStatus EXCEPT ![t][target[t]] = st]
    /\ UNCHANGED <<wRow, wRisk>>

\* A row as session t sees it: its own writes over the committed ones.
RowSeenBy(t, k) == IF wRow[t][k] = Untouched THEN dbRow[k] ELSE wRow[t][k]
PendingSeenBy(t) == {k \in Tickets : RowSeenBy(t, k) = "pending"}

OverlayAllColumns(table, writes) == writes
Overlay(table, writes) ==
    [x \in DOMAIN table |-> IF writes[x] = Untouched THEN table[x] ELSE writes[x]]

\* session.commit(): the writes of the session become the tables.
Publish(t) ==
    /\ dbStatus' = Overlay(dbStatus, wStatus[t])
    /\ dbRow' = Overlay(dbRow, wRow[t])
    /\ dbRisked' = IF wRisk[t] = NoRisk THEN dbRisked ELSE wRisk[t]
    /\ UNCHANGED dbPaused

CloseSession(t) ==
    /\ wStatus' = [wStatus EXCEPT ![t] = NoStatus]
    /\ wRow' = [wRow EXCEPT ![t] = NoRow]
    /\ wRisk' = [wRisk EXCEPT ![t] = NoRisk]
    /\ DropWriter(t)

RollbackKeepingLock(t) ==
    /\ CloseSession(t)
    /\ Goto(t, IF t = Monitor THEN "sleep" ELSE "failed")
    /\ UNCHANGED <<memory, tables, engineLock>>
\* An exception leaves session_scope: rollback, and `async with` frees the lock.
Rollback(t) ==
    /\ CloseSession(t)
    /\ DropLock(t)
    /\ Goto(t, IF t = Monitor THEN "sleep" ELSE "failed")
    /\ UNCHANGED <<memory, tables>>

Commit(t) ==
    /\ t \in Workers
    /\ pc[t] = "commit"
    /\ Publish(t)
    /\ CloseSession(t)
    /\ Goto(t, "done")
    /\ UNCHANGED <<memory, engineLock, terminal, due, faults>>

\* A flush that waits for the writer longer than sqlite3's 30 s gives up.
WantsToWrite(t) ==
    \/ pc[t] \in {"insert", "expire", "evaluate", "cancelling", "send", "persist",
                  "flushOrders", "flushTrades", "flushExpiry"}
    \/ pc[t] = "route" /\ ModeOf[target[t]] # "AUTO" /\ t \in Signals
NoBusyTimeout(t) == FALSE /\ Rollback(t)
BusyTimeout(t) ==
    /\ WantsToWrite(t)
    /\ ~CanWrite(t)
    /\ Rollback(t)
    /\ UNCHANGED <<terminal, due, faults>>

-----------------------------------------------------------------------------
(* A message: pipeline.process_message, then process_signal.               *)

\* The Telegram runtime opens a session and calls handle_message.
Arrive(s) ==
    /\ pc[s] = "idle"
    /\ Goto(s, "insert")
    /\ UNCHANGED <<memory, session, tables, engineLock, writer, terminal, due,
                   faults>>

\* Step 5 of the pipeline inserts the Signal row, PARSED or REJECTED; only the
\* former goes on to process_signal.
RecordSignal(s) ==
    /\ pc[s] = "insert"
    /\ TakeWriter(s)
    /\ \E valid \in BOOLEAN :
         /\ WriteStatus(s, IF valid THEN "PARSED" ELSE "REJECTED")
         /\ Goto(s, IF valid THEN "lockwait" ELSE "commit")
    /\ UNCHANGED <<memory, tables, engineLock, terminal, due, faults>>

\* async with self._lock, then the first reads of settings and state.
EnterEvaluation(t) ==
    /\ pc[t] = "lockwait"
    /\ TakeLock(t)
    /\ sawPaused' = [sawPaused EXCEPT ![t] = dbPaused]
    /\ sawRisked' = [sawRisked EXCEPT ![t] = dbRisked]
    /\ Goto(t, "route")
    /\ UNCHANGED <<target, sawOpen, plan, session, tables, writer, terminal,
                   due, faults>>

Override(t) == t \in Requests
ModeFor(t) == IF Override(t) THEN "AUTO" ELSE ModeOf[target[t]]

\* The session ends the evaluation with a status; the lock goes first, the
\* commit comes after it, in the caller.
EndWith(t, st) ==
    /\ TakeWriter(t)
    /\ WriteStatus(t, st)
    /\ DropLock(t)
    /\ Goto(t, "commit")
    /\ UNCHANGED <<memory, tables, terminal, due, faults>>

Observe(t) == /\ pc[t] = "route" /\ ModeFor(t) = "OBSERVE"
              /\ EndWith(t, "OBSERVED")

AskReview(t) == /\ pc[t] = "route" /\ ModeFor(t) = "MANUAL"
                /\ EndWith(t, "NEEDS_REVIEW")

\* symbol, tick, account_info, positions: the exposure the checks will compare.
OpenTickets == {k \in Tickets : broker[k] = "open"}
ReadAccount(t) ==
    /\ pc[t] = "route" /\ ModeFor(t) = "AUTO"
    /\ sawOpen' = [sawOpen EXCEPT ![t] = OpenTickets]
    /\ Goto(t, "evaluate")
    /\ UNCHANGED <<target, sawPaused, sawRisked, plan, session, tables,
                   engineLock, writer, terminal, due, faults>>

\* One of those calls to the terminal raises.
ReadFails(t) ==
    /\ pc[t] = "route" /\ ModeFor(t) = "AUTO"
    /\ Rollback(t)
    /\ UNCHANGED <<terminal, due, faults>>

OnSymbol(ks, s) == {k \in ks : owner[k] \in Signals /\ SymOf[owner[k]] = SymOf[s]}

LimitsIgnoringAge(t) ==
    /\ ~sawPaused[t]
    /\ Cardinality(sawOpen[t]) < MaxPositions
    /\ Cardinality(OnSymbol(sawOpen[t], target[t])) < MaxPerSymbol
    /\ sawRisked[t] + 1 <= MaxDailyRisk
LimitsOnPastRisk(t) ==
    /\ ~sawPaused[t]
    /\ Cardinality(sawOpen[t]) < MaxPositions
    /\ Cardinality(OnSymbol(sawOpen[t], target[t])) < MaxPerSymbol
    /\ sawRisked[t] <= MaxDailyRisk
\* The checks of RiskManager.evaluate that depend on shared state.  A request
\* overrides the automation switch and the channel mode, not these.
WithinLimits(t) ==
    /\ ~sawPaused[t]
    /\ Cardinality(sawOpen[t]) < MaxPositions
    /\ Cardinality(OnSymbol(sawOpen[t], target[t])) < MaxPerSymbol
    /\ sawRisked[t] + 1 <= MaxDailyRisk
    /\ target[t] \in due => target[t] \in LongAge       \* signal_age

\* Any other check may refuse as well: spread, age, stop, ratio, margin...
Refuse(t) == /\ pc[t] = "evaluate"
             /\ EndWith(t, "REJECTED")

\* record_risk_event and add_event are the flushes that take the writer.
Approve(t) ==
    /\ pc[t] = "evaluate"
    /\ WithinLimits(t)
    /\ TakeWriter(t)
    /\ Goto(t, "listing")
    /\ UNCHANGED <<memory, session, tables, engineLock, terminal, due, faults>>

Opposite(s, r) == SymOf[s] = SymOf[r] /\ SideOf[s] # SideOf[r]

\* Prices are counted in points; Unknown is a price the message does not give.
\* An entry_price is a zone of one price.
Unknown == 0
\* The price RiskManager retains, at which a pending order is placed.
ResolvedEntry(s) ==
    LET e == EntryOf[s] IN
    IF e.low # Unknown /\ e.low = e.high THEN e.low
    ELSE IF Unknown \in {e.low, e.high} \/ e.tick \in e.low..e.high THEN e.tick
    ELSE IF SideOf[s] = "SELL" THEN e.high ELSE e.low
\* The price at which _equivalent_pending looks for its twin.
LookedFor(s) == EntryOf[s].low
SameStop(s, r) == \/ EntryOf[s].stop = EntryOf[r].stop
                  \/ Unknown \in {EntryOf[s].stop, EntryOf[r].stop}
\* The evaluation of r takes the waiting order of s for its own.
Equivalent(s, r) ==
    /\ SymOf[s] = SymOf[r] /\ SideOf[s] = SideOf[r]
    /\ ResolvedEntry(s) = LookedFor(r)
    /\ SameStop(s, r)

ListOpposite(t) ==
    /\ pc[t] = "listing"
    /\ todo' = [todo EXCEPT ![t] =
                  {k \in PendingSeenBy(t) : Opposite(owner[k], target[t])}]
    /\ Goto(t, "cancelling")
    /\ UNCHANGED <<target, reads, leg, ticket, session, tables, engineLock,
                   writer, terminal, due, faults>>

CancelOpposite(t, k) ==
    /\ pc[t] = "cancelling"
    /\ k \in todo[t]
    /\ todo' = [todo EXCEPT ![t] = @ \ {k}]
    /\ \/ /\ broker[k] = "pending"
          /\ broker' = [broker EXCEPT ![k] = "gone"]
          /\ wRow' = [wRow EXCEPT ![t][k] = "cancelled"]
          /\ TakeWriter(t)
       \/ UNCHANGED <<broker, wRow, writer>>     \* refused, lost, or filled
    /\ UNCHANGED <<pc, target, reads, leg, ticket, wStatus, wRisk, tables,
                   engineLock, owner, lastTicket, due, faults>>

HasTwin(t) == \E k \in PendingSeenBy(t) : Equivalent(owner[k], target[t])

RefuseTwin(t) == /\ pc[t] = "cancelling" /\ todo[t] = {}
                 /\ HasTwin(t)
                 /\ EndWith(t, "REJECTED")

BeginExecution(t) ==
    /\ pc[t] = "cancelling" /\ todo[t] = {}
    /\ ~HasTwin(t)
    /\ TakeWriter(t)
    /\ WriteStatus(t, "APPROVED")
    /\ leg' = [leg EXCEPT ![t] = 1]
    /\ Goto(t, "send")
    /\ UNCHANGED <<target, reads, todo, ticket, tables, engineLock, terminal,
                   due, faults>>

\* The broker accepts one order of the plan.
Accept(t) ==
    LET k == lastTicket + 1  s == target[t] IN
    /\ lastTicket < MaxTicket
    /\ lastTicket' = k
    /\ broker' = [broker EXCEPT ![k] = IF KindOf[s] = "pending" THEN "pending" ELSE "open"]
    /\ owner' = [owner EXCEPT ![k] = s]

SendOrder(t) ==
    /\ pc[t] = "send"
    /\ Accept(t)
    /\ ticket' = [ticket EXCEPT ![t] = lastTicket']
    /\ Goto(t, "persist")
    /\ UNCHANGED <<target, reads, todo, leg, session, tables, engineLock,
                   writer, due, faults>>

RefusalRaises(t) ==
    /\ pc[t] = "send"
    /\ Rollback(t)
    /\ UNCHANGED <<terminal, due, faults>>
\* order_check or order_send refuses: FAILED, whatever the earlier legs did.
SendRefused(t) == /\ pc[t] = "send"
                  /\ EndWith(t, "FAILED")

\* The worker times out: the exception rolls the session back, and the order
\* may have reached the broker.
SendLost(t) ==
    /\ pc[t] = "send"
    /\ faults < MaxFaults
    /\ faults' = faults + 1
    /\ Accept(t) \/ UNCHANGED terminal
    /\ Rollback(t)
    /\ UNCHANGED due

NewRow(s) == IF KindOf[s] = "pending" THEN "pending" ELSE "open"

PersistOrder(t) ==
    /\ pc[t] = "persist"
    /\ leg[t] < LegsOf[target[t]]
    /\ TakeWriter(t)
    /\ wRow' = [wRow EXCEPT ![t][ticket[t]] = NewRow(target[t])]
    /\ leg' = [leg EXCEPT ![t] = @ + 1]
    /\ Goto(t, "send")
    /\ UNCHANGED <<target, reads, todo, ticket, wStatus, wRisk, tables,
                   engineLock, terminal, due, faults>>

\* Last leg: the row, the status, the risk of the day; then the lock is freed.
FinishExecution(t) ==
    LET s == target[t] IN
    /\ pc[t] = "persist"
    /\ leg[t] = LegsOf[s]
    /\ TakeWriter(t)
    /\ wRow' = [wRow EXCEPT ![t][ticket[t]] = NewRow(s)]
    /\ wStatus' = [wStatus EXCEPT ![t][s] = IF KindOf[s] = "pending" THEN "SENT" ELSE "OPEN"]
    /\ wRisk' = [wRisk EXCEPT ![t] = sawRisked[t] + 1]
    /\ DropLock(t)
    /\ Goto(t, "commit")
    /\ UNCHANGED <<memory, tables, terminal, due, faults>>

-----------------------------------------------------------------------------
(* approve_manually and reject_manually.                                   *)

\* The deadline of a signal under review passes.
Deadline(s) ==
    /\ dbStatus[s] = "NEEDS_REVIEW" /\ s \notin due
    /\ due' = due \union {s}
    /\ UNCHANGED <<local, session, tables, engineLock, writer, terminal, faults>>

\* The row is loaded and its deadline looked at, its status is not.
ApproveManually(r, s) ==
    /\ pc[r] = "idle"
    /\ dbStatus[s] # "none"
    /\ target' = [target EXCEPT ![r] = s]
    /\ Goto(r, IF s \in due THEN "expire" ELSE "lockwait")
    /\ UNCHANGED <<reads, plan, session, tables, engineLock, writer, terminal,
                   due, faults>>

ExpireOnApproval(r) ==
    /\ pc[r] = "expire"
    /\ TakeWriter(r)
    /\ WriteStatus(r, "EXPIRED")
    /\ Goto(r, "commit")
    /\ UNCHANGED <<memory, tables, engineLock, terminal, due, faults>>

RejectManually(r, s) ==
    /\ pc[r] = "idle"
    /\ dbStatus[s] # "none"
    /\ TakeWriter(r)
    /\ target' = [target EXCEPT ![r] = s]
    /\ wStatus' = [wStatus EXCEPT ![r][s] = "REJECTED"]
    /\ Goto(r, "commit")
    /\ UNCHANGED <<reads, plan, wRow, wRisk, tables, engineLock, terminal, due,
                   faults>>

\* pause and resume commit in a session of their own, outside the lock.
SetPaused(b) ==
    /\ SingleWriter => writer = Nobody
    /\ dbPaused # b
    /\ dbPaused' = b
    /\ UNCHANGED <<local, session, dbStatus, dbRow, dbRisked, engineLock, writer,
                   terminal, due, faults>>

-----------------------------------------------------------------------------
(* The monitor loop: _monitor_once, sync_with_broker, _reconcile_pending,  *)
(* _expire_stale_signals.                                                  *)

BeginCycleUnlocked ==
    /\ pc[Monitor] = "sleep"
    /\ sawOpen' = [sawOpen EXCEPT ![Monitor] = OpenTickets]
    /\ Goto(Monitor, "reconcile")
    /\ UNCHANGED <<target, sawPaused, sawRisked, plan, session, tables,
                   engineLock, writer, terminal, due, faults>>
\* The lock, then service.positions(): the snapshot the whole cycle uses.
BeginCycle ==
    /\ pc[Monitor] = "sleep"
    /\ TakeLock(Monitor)
    /\ sawOpen' = [sawOpen EXCEPT ![Monitor] = OpenTickets]
    /\ Goto(Monitor, "reconcile")
    /\ UNCHANGED <<target, sawPaused, sawRisked, plan, session, tables, writer,
                   terminal, due, faults>>

\* positions() raises: the cycle goes on to the expiry without reconciling.
CycleUnreadable ==
    /\ pc[Monitor] = "reconcile"
    /\ Goto(Monitor, "expiry")
    /\ UNCHANGED <<memory, session, tables, engineLock, writer, terminal, due,
                   faults>>

\* The pending rows against the snapshot, then against service.orders(): a
\* ticket with a position is filled, one without an order is cancelled.
ReconcilePending ==
    LET rows == PendingSeenBy(Monitor)
        filled == rows \intersect sawOpen[Monitor]
        vanished == {k \in rows \ filled : broker[k] # "pending"}
    IN
    /\ pc[Monitor] = "reconcile"
    /\ wRow' = [wRow EXCEPT ![Monitor] =
                  [k \in Tickets |-> IF k \in filled THEN "open"
                                     ELSE IF k \in vanished THEN "cancelled"
                                     ELSE @[k]]]
    /\ Goto(Monitor, IF filled \union vanished = {} THEN "closures" ELSE "flushOrders")
    /\ UNCHANGED <<memory, wStatus, wRisk, tables, engineLock, writer,
                   terminal, due, faults>>

\* A flush waits its turn behind the writer.
Flush(from, to) ==
    /\ pc[Monitor] = from
    /\ TakeWriter(Monitor)
    /\ Goto(Monitor, to)
    /\ UNCHANGED <<memory, session, tables, engineLock, terminal, due, faults>>
FlushOrders == Flush("flushOrders", "closures")
FlushTrades == Flush("flushTrades", "expiry")
FlushExpiry == Flush("flushExpiry", "mcommit")

\* An open trade absent from the snapshot is closed; the others are refreshed.
DetectClosures ==
    LET rows == {k \in Tickets : RowSeenBy(Monitor, k) = "open"}
        missing == rows \ sawOpen[Monitor]
    IN
    /\ pc[Monitor] = "closures"
    /\ wRow' = [wRow EXCEPT ![Monitor] =
                  [k \in Tickets |-> IF k \in missing THEN "closed" ELSE @[k]]]
    /\ Goto(Monitor, IF rows = {} THEN "expiry" ELSE "flushTrades")
    /\ UNCHANGED <<memory, wStatus, wRisk, tables, engineLock, writer,
                   terminal, due, faults>>

\* The signals under review are read, then written: a session that has sent one
\* of them may commit in between.
ExpireStaleSignals ==
    LET stale == {s \in due : dbStatus[s] = "NEEDS_REVIEW"} IN
    /\ pc[Monitor] = "expiry"
    /\ wStatus' = [wStatus EXCEPT ![Monitor] =
                     [s \in Signals |-> IF s \in stale THEN "EXPIRED" ELSE @[s]]]
    /\ Goto(Monitor, IF stale = {} THEN "mcommit" ELSE "flushExpiry")
    /\ UNCHANGED <<memory, wRow, wRisk, tables, engineLock, writer, terminal,
                   due, faults>>

\* session_scope is inside the lock: the monitor commits, then releases it.
EndCycle ==
    /\ pc[Monitor] = "mcommit"
    /\ Publish(Monitor)
    /\ CloseSession(Monitor)
    /\ DropLock(Monitor)
    /\ Goto(Monitor, "sleep")
    /\ UNCHANGED <<memory, terminal, due, faults>>

-----------------------------------------------------------------------------
(* The broker and the process.                                             *)

BrokerMoves(k) ==
    /\ \/ broker[k] = "pending" /\ broker' = [broker EXCEPT ![k] = "open"]
       \/ broker[k] \in {"pending", "open"} /\ broker' = [broker EXCEPT ![k] = "gone"]
    /\ UNCHANGED <<local, session, tables, engineLock, writer, owner, lastTicket,
                   due, faults>>

\* The Bridge dies and restarts: sessions and locks vanish, a message whose
\* handling had begun is not delivered again.
Crash ==
    /\ faults < MaxFaults
    /\ faults' = faults + 1
    /\ pc' = [t \in Tasks |-> IF t = Monitor THEN "sleep"
                              ELSE IF pc[t] \in {"idle", "done", "failed"} THEN pc[t]
                              ELSE "failed"]
    /\ wStatus' = [t \in Tasks |-> NoStatus]
    /\ wRow' = [t \in Tasks |-> NoRow]
    /\ wRisk' = [t \in Tasks |-> NoRisk]
    /\ engineLock' = Nobody
    /\ writer' = Nobody
    /\ UNCHANGED <<memory, tables, terminal, due>>

-----------------------------------------------------------------------------
\* What a task does once it has begun.
WorkerStep(t) ==
    \/ EnterEvaluation(t)
    \/ Observe(t) \/ AskReview(t) \/ ReadAccount(t) \/ ReadFails(t)
    \/ Refuse(t) \/ Approve(t)
    \/ ListOpposite(t) \/ (\E k \in Tickets : CancelOpposite(t, k))
    \/ RefuseTwin(t) \/ BeginExecution(t)
    \/ SendOrder(t) \/ SendRefused(t) \/ SendLost(t)
    \/ PersistOrder(t) \/ FinishExecution(t)
    \/ Commit(t) \/ BusyTimeout(t)
MessageStep(s) == RecordSignal(s) \/ WorkerStep(s)
RequestStep(r) == ExpireOnApproval(r) \/ WorkerStep(r)
MonitorStep ==
    \/ BeginCycle \/ CycleUnreadable \/ ReconcilePending \/ FlushOrders
    \/ DetectClosures \/ FlushTrades \/ ExpireStaleSignals \/ FlushExpiry \/ EndCycle
    \/ BusyTimeout(Monitor)
Outside ==
    \/ \E s \in Signals : Arrive(s) \/ Deadline(s)
    \/ \E r \in Requests, s \in Signals : ApproveManually(r, s) \/ RejectManually(r, s)
    \/ \E b \in BOOLEAN : SetPaused(b)
    \/ \E k \in Tickets : BrokerMoves(k)
    \/ Crash

Next ==
    \/ \E s \in Signals : MessageStep(s)
    \/ \E r \in Requests : RequestStep(r)
    \/ MonitorStep
    \/ Outside

Spec == Init /\ [][Next]_vars

\* Coroutines the event loop schedules run on; asyncio.Lock serves its waiters
\* in order, hence strong fairness of the two actions that take it: of the
\* tasks together, since each takes it finitely often.  Nothing forces a
\* message, a request, the broker or a fault.
Fairness ==
    /\ \A s \in Signals : WF_vars(MessageStep(s))
    /\ \A r \in Requests : WF_vars(RequestStep(r))
    /\ SF_vars(\E t \in Workers : EnterEvaluation(t))
    /\ WF_vars(MonitorStep) /\ SF_vars(BeginCycle)

FairSpec == Spec /\ Fairness
-----------------------------------------------------------------------------
(* Properties.                                                             *)

InEvaluation(t) == \/ t = Monitor /\ pc[t] # "sleep"
                   \/ t \in Workers /\ pc[t] \in {"route", "evaluate", "listing",
                                                  "cancelling", "send", "persist"}

\* One evaluation or monitor cycle at a time (process_signal's docstring), and
\* the lock is held by nobody else, however a task ends: normally, by an
\* exception, by a busy timeout or by a crash.
OneAtATime == \A t \in Tasks : InEvaluation(t) <=> engineLock = t

\* max_positions_per_symbol, for positions opened at market by one evaluation:
\* concurrent signals never pile up beyond the limit plus the plan of the last.
MarketOpen(x) == {k \in OpenTickets : SymOf[owner[k]] = x /\ KindOf[owner[k]] = "market"}
ExposureCap ==
    \A s \in Signals :
        \A n \in {LegsOf[r] : r \in Signals} :
            (\A r \in Signals : LegsOf[r] <= n) =>
                Cardinality(MarketOpen(SymOf[s])) <= MaxPerSymbol + n - 1

\* The daily risk limit holds over everything the day has executed.
Executed == {s \in Signals : dbStatus[s] \in {"OPEN", "SENT"}}
DailyRiskCap == Cardinality(Executed) <= MaxDailyRisk

\* sync_with_broker never records as closed a position the broker still has:
\* the snapshot is older than the rows it is compared with, yet no row can be
\* committed for a ticket younger than the snapshot.
NoFalseClosure ==
    \A k \in Tickets :
        "closed" \in {dbRow[k], wRow[Monitor][k]} => broker[k] # "open"

\* An order is CANCELLED in the database when it is neither pending at the
\* broker nor carried by a position (_reconcile_pending's docstring).
NoFalseCancel ==
    \A k \in Tickets : dbRow[k] = "cancelled" => broker[k] # "open"

\* Two signals never leave two identical orders waiting (_equivalent_pending),
\* where each is placed at the price by which it would be looked for: an entry
\* price, or a BUY zone the market is not in.  Although the lock is released
\* before the commit, the second session cannot look for a twin before the
\* first has committed.  The other zones are left out because the comparison
\* misses them: a SELL zone waits at entry_max and is looked for at entry_min.
SameOrder(s, r) ==
    /\ SymOf[s] = SymOf[r] /\ SideOf[s] = SideOf[r]
    /\ ResolvedEntry(s) = ResolvedEntry(r)
    /\ SameStop(s, r)
PlacedAsLookedFor(s) == ResolvedEntry(s) = LookedFor(s)
NoTwinPending ==
    \A k, l \in Tickets :
        /\ dbRow[k] = "pending" /\ dbRow[l] = "pending"
        /\ owner[k] # owner[l]
        /\ PlacedAsLookedFor(owner[k]) /\ PlacedAsLookedFor(owner[l])
        => ~SameOrder(owner[k], owner[l])

\* Without a crash or a lost call, an order alive at the broker has its row,
\* committed or in an open session: a busy timeout never strikes between
\* order_send and the commit.
Alive(k) == broker[k] \in {"pending", "open"}
NoOrphan ==
    faults = 0 =>
        \A k \in Tickets : Alive(k) =>
            \/ dbRow[k] # "none"
            \/ \E t \in Workers : \/ wRow[t][k] # Untouched
                                  \/ pc[t] = "persist" /\ ticket[t] = k

\* An old signal never leaves: once EXPIRED in the database, it stays out of
\* the market, although an approval in flight loaded it before (the age check
\* is what stops it, unless the channel allows older signals).
ExpiredStaysOut ==
    [][\A s \in Signals : dbStatus[s] = "EXPIRED" => dbStatus'[s] \notin {"OPEN", "SENT"}]_vars

\* One signal yields one execution of its plan.
OneExecution ==
    \A s \in Signals : Cardinality({k \in Tickets : owner[k] = s}) <= LegsOf[s]

\* A task that has begun ends, although the two locks can be taken in both
\* orders: a busy timeout breaks the circular wait.  (No task begins twice, so
\* none is left halfway for ever.)
EveryTaskEnds ==
    \A t \in Workers : []<>(pc[t] \in {"idle", "done", "failed"})

\* The monitor starts a new cycle again and again.
MonitorKeepsCycling == []<>(pc[Monitor] = "reconcile")
=============================================================================
