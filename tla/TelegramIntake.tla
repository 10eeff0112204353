--------------------------- MODULE TelegramIntake ---------------------------
(***************************************************************************)
(* How one monitored Telegram channel reaches the trading engine: the live *)
(* handlers and the periodic catch-up of ChannelListener, the pipeline     *)
(* that turns a message into at most one signal, and the registry of what  *)
(* the Bridge itself announces on the channel it listens to.               *)
(*                                                                         *)
(* Telethon runs one handler per update, side by side; the catch-up is one *)
(* loop.  Each of them stores the message in a session of its own, then    *)
(* analyses it in a second one, which keeps the single writer of SQLite    *)
(* from the insertion of the Signal row to the commit.                     *)
(***************************************************************************)
EXTENDS Integers, FiniteSets, FiniteSetsExt

CONSTANTS
    MaxMessages,    \* bound: identifiers of the channel, in order of posting
    History,        \* bound: messages posted before the channel is monitored
    Limit,          \* CATCHUP_LIMIT: messages one catch-up reads
    MaxAgain,       \* bound: messages edited, once each, and updates delivered again
    MaxFaults,      \* bound: exceptions and crashes
    CatchUp, Nobody

Messages == 1..MaxMessages
Versions == {0, 1}                  \* original text, edited text
Updates == Messages \X Versions     \* each one has its handler
Tasks == Updates \union {CatchUp}
Missing == -1

ASSUME BoundsAssumption ==
    /\ MaxMessages \in Nat /\ History \in 0..MaxMessages /\ Limit \in Nat \ {0}
    /\ MaxAgain \in Nat /\ MaxFaults \in Nat
ASSUME NamesAssumption == CatchUp \notin Updates /\ Nobody \notin Tasks

Kinds == {"entry", "other"}         \* a complete order, or anything else
Pc == {"idle", "store", "check", "insert", "execute", "commit"}
CatchUpPc == Pc \union {"fetch", "prime", "next"}

VARIABLES
    history, posted,    \* last identifier when monitoring begins, and now
    text, version,      \* texts of each message, its current version
    own,                \* messages the Bridge announced
    feed, redelivered,  \* updates Telegram has yet to deliver
    stored, cursor, signalRows, registry,   \* tables messages, channels,
                                            \* signals, published_messages
    writer,
    pc, sawStored, sawCursor,           \* of each handler and of the catch-up
    published,                          \* its rows of the registry, uncommitted
    known, batch,                       \* of the catch-up
    primed,                             \* where a catch-up first set the cursor
    orders,                             \* orders sent for each message
    faults

channel == <<history, posted, text, version, own, feed, redelivered>>
tables == <<stored, cursor, signalRows, registry>>
reads == <<sawStored, sawCursor>>
catchUp == <<known, batch, primed>>
vars == <<channel, tables, writer, pc, reads, published, catchUp,
          orders, faults>>

TypeOK ==
    /\ history \in 0..History /\ posted \in history..MaxMessages
    /\ text \in [Messages -> [Versions -> Kinds]]
    /\ version \in [Messages -> Versions]
    /\ own \subseteq 1..posted
    /\ feed \subseteq Updates
    /\ stored \in [Messages -> Versions \union {Missing}]
    /\ cursor \in 0..posted
    /\ signalRows \subseteq 1..posted /\ registry \subseteq own
    /\ writer \in Tasks \union {Nobody}
    /\ pc \in [Tasks -> CatchUpPc]
    /\ \A u \in Updates : pc[u] \in Pc
    /\ sawStored \in [Tasks -> Versions \union {Missing}]
    /\ sawCursor \in [Tasks -> 0..posted]
    /\ published \in [Tasks -> SUBSET own]
    /\ known \in 0..posted /\ batch \subseteq Updates /\ primed \in 0..posted
    /\ orders \in [Messages -> Nat] /\ faults \in Nat

Init ==
    /\ history \in 0..History /\ posted = history
    /\ text = [m \in Messages |-> [v \in Versions |-> "entry"]]
    /\ version = [m \in Messages |-> 0]
    /\ own = {} /\ feed = {} /\ redelivered = 0
    /\ stored = [m \in Messages |-> Missing]
    /\ cursor = 0 /\ signalRows = {} /\ registry = {}
    /\ writer = Nobody
    /\ pc = [t \in Tasks |-> "idle"]
    /\ sawStored = [t \in Tasks |-> Missing]
    /\ sawCursor = [t \in Tasks |-> 0]
    /\ published = [t \in Tasks |-> {}]
    /\ known = 0 /\ batch = {} /\ primed = 0
    /\ orders = [m \in Messages |-> 0]
    /\ faults = 0

-----------------------------------------------------------------------------
(* Telegram.                                                               *)

\* Someone posts; the update will come, or never.
Post ==
    /\ posted < MaxMessages
    /\ posted' = posted + 1
    /\ \E k \in Kinds : text' = [text EXCEPT ![posted'][0] = k]
    /\ feed' \in {feed, feed \union {<<posted', 0>>}}
    /\ UNCHANGED <<history, version, own, redelivered, tables, writer, pc, reads,
                   published, catchUp, orders, faults>>
Again == Cardinality({m \in Messages : version[m] = 1}) + redelivered
Edit(m) ==
    /\ Again < MaxAgain
    /\ m \in 1..posted \ own /\ version[m] = 0
    /\ version' = [version EXCEPT ![m] = 1]
    /\ \E k \in Kinds : text' = [text EXCEPT ![m][1] = k]
    /\ feed' = feed \union {<<m, 1>>}
    /\ UNCHANGED <<history, posted, own, redelivered, tables, writer, pc, reads,
                   published, catchUp, orders, faults>>

-----------------------------------------------------------------------------
(* One message, in a handler or in the catch-up.                           *)

Oldest == CHOOSE u \in batch : \A w \in batch : u[1] <= w[1]
UpdateOf(t) == IF t = CatchUp THEN Oldest ELSE t
MessageOf(t) == UpdateOf(t)[1]
VersionOf(t) == UpdateOf(t)[2]

CanWrite(t) == writer \in {Nobody, t}
WriterPerStatement(t) == CanWrite(t) /\ UNCHANGED writer
HoldWriter(t) == CanWrite(t) /\ writer' = t
DropWriter(t) == writer' = IF writer = t THEN Nobody ELSE writer
Goto(t, step) == pc' = [pc EXCEPT ![t] = step]
Forget(t) ==
    /\ sawStored' = [sawStored EXCEPT ![t] = Missing]
    /\ sawCursor' = [sawCursor EXCEPT ![t] = 0]

\* The handler ends; the catch-up goes on with the rest of its batch.
Finish(t) ==
    /\ Goto(t, IF t = CatchUp THEN "next" ELSE "idle")
    /\ batch' = IF t = CatchUp THEN batch \ {Oldest} ELSE batch
    /\ Forget(t)
    /\ UNCHANGED <<known, primed>>

\* _persist looks the message up.  Only an edit with another text goes on with
\* a message already stored.
IsDuplicate(t) ==
    /\ stored[MessageOf(t)] # Missing
    /\ VersionOf(t) = 0 \/ stored[MessageOf(t)] = VersionOf(t)
Select(t) ==
    IF IsDuplicate(t)
    THEN Finish(t)
    ELSE /\ sawStored' = [sawStored EXCEPT ![t] = stored[MessageOf(t)]]
         /\ sawCursor' = [sawCursor EXCEPT ![t] = cursor]
         /\ Goto(t, "store")
         /\ UNCHANGED catchUp

\* An update reaches its handler; after a reconnection it may come again.
Deliver(u) ==
    /\ u \in feed /\ pc[u] = "idle"
    /\ \/ feed' = feed \ {u} /\ UNCHANGED redelivered
       \/ /\ Again < MaxAgain
          /\ redelivered' = redelivered + 1
          /\ UNCHANGED feed
    /\ Select(u)
    /\ UNCHANGED <<history, posted, text, version, own, tables, writer,
                   published, orders, faults>>

\* Its commit inserts or updates the row and moves the cursor.  Another task
\* may have inserted the row meanwhile: the unique constraint refuses ours.
\* The catch-up does not analyse a message older than CATCHUP_MAX_AGE_SECONDS.
Refused(t) == sawStored[t] = Missing /\ stored[MessageOf(t)] # Missing
Store(t) ==
    /\ pc[t] = "store"
    /\ CanWrite(t)
    /\ IF Refused(t)
       THEN Finish(t) /\ UNCHANGED <<stored, cursor>>
       ELSE /\ stored' = [stored EXCEPT ![MessageOf(t)] = VersionOf(t)]
            /\ cursor' = IF MessageOf(t) > sawCursor[t] THEN MessageOf(t) ELSE cursor
            /\ \/ t = CatchUp /\ Finish(t)
               \/ Goto(t, "check") /\ Forget(t) /\ UNCHANGED catchUp
    /\ UNCHANGED <<channel, signalRows, registry, writer, published,
                   orders, faults>>

\* process_message, before anything is written: our own publication, a message
\* that has its signal, a text that carries no order.
Ignored(t) ==
    \/ MessageOf(t) \in registry
    \/ MessageOf(t) \in signalRows
    \/ text[MessageOf(t)][VersionOf(t)] # "entry"
Check(t) ==
    /\ pc[t] = "check"
    /\ IF Ignored(t)
       THEN Finish(t)
       ELSE Goto(t, "insert") /\ UNCHANGED <<reads, catchUp>>
    /\ UNCHANGED <<channel, tables, writer, published, orders, faults>>

\* The Signal row, under a unique key made of the channel and the message: a
\* second row raises, and the session ends before any order.
InsertUnchecked(t) ==
    /\ pc[t] = "insert"
    /\ HoldWriter(t)
    /\ Goto(t, "execute")
    /\ UNCHANGED <<channel, tables, reads, published, catchUp, orders,
                   faults>>
Insert(t) ==
    /\ pc[t] = "insert"
    /\ CanWrite(t)
    /\ IF MessageOf(t) \in signalRows
       THEN Finish(t) /\ UNCHANGED writer
       ELSE HoldWriter(t) /\ Goto(t, "execute") /\ UNCHANGED <<reads, catchUp>>
    /\ UNCHANGED <<channel, tables, published, orders, faults>>

\* The engine refuses the signal, or sends its order and may announce it on the
\* channel itself.  Telegram may or may not show the Bridge its own message,
\* whose identifier _remember_published notes in the session.
ReturnedBefore == {posted}
Returned == {posted + 1}
Announce(t) ==
    /\ posted < MaxMessages
    /\ posted' = posted + 1
    /\ own' = own \union {posted'}
    /\ published' = [published EXCEPT ![t] = Returned]
    /\ feed' \in {feed, feed \union {<<posted', 0>>}}
    /\ UNCHANGED <<history, text, version, redelivered>>
Execute(t) ==
    /\ pc[t] = "execute"
    /\ Goto(t, "commit")
    /\ \/ UNCHANGED <<channel, published, orders>>
       \/ /\ orders' = [orders EXCEPT ![MessageOf(t)] = @ + 1]
          /\ Announce(t) \/ UNCHANGED <<channel, published>>
    /\ UNCHANGED <<tables, writer, reads, catchUp, faults>>

Commit(t) ==
    /\ pc[t] = "commit"
    /\ signalRows' = signalRows \union {MessageOf(t)}
    /\ registry' = registry \union published[t]
    /\ published' = [published EXCEPT ![t] = {}]
    /\ DropWriter(t)
    /\ Finish(t)
    /\ UNCHANGED <<channel, stored, cursor, orders, faults>>

\* An exception.  The handlers log it; in the catch-up it ends the message once
\* this is stored, the pass over the channel before.
Fail(t) ==
    /\ faults < MaxFaults
    /\ pc[t] \notin {"idle", "next"}
    /\ faults' = faults + 1
    /\ published' = [published EXCEPT ![t] = {}]
    /\ DropWriter(t)
    /\ IF pc[t] \in {"fetch", "prime", "store"} /\ t = CatchUp
       THEN /\ Goto(t, "idle") /\ batch' = {} /\ known' = 0 /\ Forget(t)
            /\ UNCHANGED primed
       ELSE Finish(t)
    /\ UNCHANGED <<channel, tables, orders>>

HandleStep(t) ==
    Store(t) \/ Check(t) \/ Insert(t) \/ Execute(t) \/ Commit(t)

-----------------------------------------------------------------------------
(* The catch-up loop.                                                      *)

\* _monitored_channels: the cursor as it is when the pass begins.
BeginCatchUp ==
    /\ pc[CatchUp] = "idle"
    /\ known' = cursor
    /\ Goto(CatchUp, "fetch")
    /\ UNCHANGED <<channel, tables, writer, reads, published, batch,
                   primed, orders, faults>>

\* get_messages(limit): the latest messages, in their current version; those the
\* cursor has passed are left out.  A first pass only sets the cursor.
LatestButLast == {m \in 1..posted - 1 : m >= posted - Limit}
Latest == {m \in 1..posted : m > posted - Limit}
Unread == {m \in Latest : m > known}
Fetch ==
    /\ pc[CatchUp] = "fetch"
    /\ batch' = {<<m, version[m]>> : m \in Unread}
    /\ Goto(CatchUp, IF known > 0 THEN "next"
                     ELSE IF Latest = {} THEN "idle" ELSE "prime")
    /\ known' = 0
    /\ UNCHANGED <<channel, tables, writer, reads, published, primed,
                   orders, faults>>

AnalyseHistory ==
    /\ pc[CatchUp] = "prime"
    /\ Goto(CatchUp, "next")
    /\ UNCHANGED <<channel, tables, writer, reads, published, catchUp,
                   orders, faults>>
Prime ==
    /\ pc[CatchUp] = "prime"
    /\ CanWrite(CatchUp)
    /\ IF cursor = 0
       THEN cursor' = Max({u[1] : u \in batch}) /\ primed' = cursor'
       ELSE UNCHANGED <<cursor, primed>>
    /\ batch' = {}
    /\ Goto(CatchUp, "idle")
    /\ UNCHANGED <<channel, stored, signalRows, registry, writer, reads,
                   published, known, orders, faults>>

NextMessage ==
    /\ pc[CatchUp] = "next"
    /\ IF batch = {}
       THEN Goto(CatchUp, "idle") /\ UNCHANGED <<reads, catchUp>>
       ELSE Select(CatchUp)
    /\ UNCHANGED <<channel, tables, writer, published, orders, faults>>

CatchUpStep == BeginCatchUp \/ Fetch \/ Prime \/ NextMessage \/ HandleStep(CatchUp)

\* The process dies: sessions and handlers are lost, tables stay.
Crash ==
    /\ faults < MaxFaults
    /\ faults' = faults + 1
    /\ writer' = Nobody
    /\ pc' = [t \in Tasks |-> "idle"]
    /\ published' = [t \in Tasks |-> {}]
    /\ batch' = {} /\ known' = 0
    /\ sawStored' = [t \in Tasks |-> Missing]
    /\ sawCursor' = [t \in Tasks |-> 0]
    /\ UNCHANGED <<channel, tables, primed, orders>>

Next ==
    \/ Post \/ \E m \in Messages : Edit(m)
    \/ \E u \in Updates : Deliver(u) \/ HandleStep(u)
    \/ CatchUpStep
    \/ \E t \in Tasks : Fail(t)
    \/ Crash

Spec == Init /\ [][Next]_vars
\* The catch-up loop and the handlers that hold or await the writer make progress:
\* the event loop runs every ready task.
FairSpec ==
    /\ Spec
    /\ SF_vars(CatchUpStep)
    /\ WF_vars(\E u \in Updates : HandleStep(u))

-----------------------------------------------------------------------------
(* Properties.                                                             *)

\* A message never gives two orders, through redeliveries, the catch-up racing
\* its live handler, edits, rollbacks and restarts; only an edit may do so after
\* a rollback that forgot the signal of an order already sent.
OneOrder == \A m \in Messages : version[m] = 0 \/ faults = 0 => orders[m] <= 1

\* The Bridge never trades what it has announced, although it reads its own
\* announcements back, as long as the session that announced is not rolled back.
NoEcho == faults = 0 => \A m \in own : orders[m] = 0

\* Activating a channel replays none of its history: a message posted before gives
\* no order.  Only an edit may change that: it gives the message edited a second
\* chance, and it moves the cursor, which may then stand before the messages that
\* follow it in the history.
Replayable == {m \in 1..history : \E k \in 1..m : version[k] = 1}
HistoryQuiet == \A m \in 1..history \ Replayable : orders[m] = 0

\* What the flow of updates loses at the end of the channel, the catch-up finds:
\* the last message ends up stored, whatever fails on the way.
LastStored == <>[](posted > primed => stored[posted] # Missing)
=============================================================================
