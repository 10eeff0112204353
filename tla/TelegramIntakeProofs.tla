------------------------ MODULE TelegramIntakeProofs ------------------------
(***************************************************************************)
(* Proofs about TelegramIntake: whatever the channel posts and edits, the  *)
(* updates Telegram loses or delivers again, and the moments at which      *)
(* handlers fail or the process dies, a message gives at most one order,   *)
(* the Bridge does not trade what it announced, and the history of a       *)
(* channel stays quiet.                                                    *)
(*                                                                         *)
(* A task "works" on a message from its first look at the table of the     *)
(* messages to its commit, and "may order" from the moment it has stored   *)
(* the message until it sends the order.                                   *)
(***************************************************************************)
EXTENDS TelegramIntake, WellFoundedInduction, TLAPS

Busy == {"store", "check", "insert", "execute", "commit"}
MayOrder == {"check", "insert", "execute"}

-----------------------------------------------------------------------------
(* What each task works on.                                                *)

\* An update tells a text that the channel has, or had.
Told(u) == u[1] \in 1..posted /\ u[2] <= version[u[1]]

\* The updates on their way, in a batch or at work are of messages that exist;
\* only a task that works holds rows of the registry or, from the insertion of
\* its Signal row to its commit, the writer.
Shape ==
    /\ TypeOK
    /\ pc[CatchUp] \in Busy => batch # {}
    /\ \A u \in feed \union batch : Told(u)
    /\ \A u \in Updates : pc[u] # "idle" => Told(u)
    /\ \A t \in Tasks : pc[t] \in {"execute", "commit"} => writer = t
    /\ \A t \in Tasks : published[t] # {} => pc[t] = "commit"

-----------------------------------------------------------------------------
(* One order for a message that nobody edited.                             *)

Original(m) == version[m] = 0

\* The row of a message is inserted once, and only its inserter goes on.
InsertsFirst(t) ==
    pc[t] = "store" /\ Original(MessageOf(t)) => sawStored[t] = Missing
OrdersFirst(t) ==
    pc[t] \in MayOrder /\ Original(MessageOf(t)) =>
        stored[MessageOf(t)] # Missing /\ orders[MessageOf(t)] = 0
OrdersAlone(t, s) ==
    /\ pc[t] \in MayOrder /\ pc[s] \in MayOrder
    /\ MessageOf(t) = MessageOf(s) /\ Original(MessageOf(t))
    => t = s
OnceInv ==
    /\ \A t \in Tasks : InsertsFirst(t)
    /\ \A t \in Tasks : OrdersFirst(t)
    /\ \A t, s \in Tasks : OrdersAlone(t, s)
    /\ \A m \in Messages : Original(m) /\ stored[m] = Missing => orders[m] = 0
    /\ \A m \in Messages : Original(m) => orders[m] <= 1

-----------------------------------------------------------------------------
(* One order for any message, as long as nothing fails.                    *)

\* The unique key of the Signal row, under the single writer.
KeyIsFree(t) == pc[t] = "execute" => MessageOf(t) \notin signalRows
Signalled(m) ==
    \/ m \in signalRows
    \/ writer \in Tasks /\ pc[writer] = "commit" /\ MessageOf(writer) = m
KeyInv ==
    /\ \A t \in Tasks : KeyIsFree(t)
    /\ faults = 0 => \A m \in Messages : orders[m] > 0 => Signalled(m)
    /\ faults = 0 => \A m \in Messages : orders[m] <= 1

-----------------------------------------------------------------------------
(* No order for an announcement.                                           *)

Registered(m) ==
    \/ m \in registry
    \/ writer \in Tasks /\ pc[writer] = "commit" /\ m \in published[writer]
Recognised(t) ==
    pc[t] = "check" /\ MessageOf(t) \in own => MessageOf(t) \in registry
NotOurs(t) == pc[t] \in {"insert", "execute"} => MessageOf(t) \notin own
EchoInv ==
    /\ \A m \in Messages : m > posted => orders[m] = 0
    /\ faults = 0 => \A m \in own : Registered(m)
    /\ faults = 0 => \A t \in Tasks : Recognised(t)
    /\ faults = 0 => \A t \in Tasks : NotOurs(t)
    /\ NoEcho

-----------------------------------------------------------------------------
(* No order for the history.                                               *)

Silent == 1..history \ Replayable
HistoryInv ==
    /\ \A u \in feed : u[1] \notin Silent
    /\ \A u \in batch : u[1] \notin Silent \/ pc[CatchUp] = "prime"
    /\ \A u \in Updates : pc[u] # "idle" => u[1] \notin Silent
    /\ cursor > 0 => \A m \in Silent : m <= cursor
    /\ known > 0 => \A m \in Silent : m <= known
    /\ pc[CatchUp] = "prime" =>
          \E u \in batch : u[1] >= history /\ \A w \in batch : w[1] <= u[1]
    /\ HistoryQuiet

-----------------------------------------------------------------------------
(* What an action does to the tasks.                                       *)

\* The others go on with what they were doing.
OthersKept(t) ==
    \A s \in Tasks \ {t} :
        /\ pc'[s] = pc[s] /\ sawStored'[s] = sawStored[s]
        /\ published'[s] = published[s] /\ UpdateOf(s)' = UpdateOf(s)
AllKept ==
    /\ UNCHANGED <<pc, sawStored, published, batch>>
    /\ \A s \in Tasks : UpdateOf(s)' = UpdateOf(s)

\* The catch-up takes an update of its batch, if there is one.
LEMMA OldestTaken ==
    ASSUME batch \subseteq Updates, batch # {}
    PROVE  Oldest \in batch
<1> DEFINE Below == OpToRel(<, Nat)
<1> DEFINE Ids == {u[1] : u \in batch}
<1>1. Ids \subseteq Nat /\ Ids # {}
  BY BoundsAssumption DEF Updates, Messages
<1>2. PICK n \in Ids : \A k \in Ids : <<k, n>> \notin Below
  <2> HIDE DEF Below, Ids
  <2>1. IsWellFoundedOn(Below, Nat)
    BY NatLessThanWellFounded DEF Below
  <2> QED BY <1>1, <2>1, WFMin
<1>3. \A k \in Ids : ~(k < n)
  BY <1>1, <1>2 DEF OpToRel
<1>4. PICK u \in batch : u[1] = n
  OBVIOUS
<1>5. \A w \in batch : u[1] <= w[1]
  BY <1>1, <1>3, <1>4
<1> QED BY <1>5 DEF Oldest

\* It goes on with it as long as its batch is the same.
LEMMA OldestKept ==
    ASSUME batch' = batch
    PROVE  Oldest' = Oldest
BY DEF Oldest

\* A task that works does so on an update of a message that exists.
LEMMA WorksOnMessage ==
    ASSUME Shape, NEW t \in Tasks,
           t = CatchUp => batch # {},
           t # CatchUp => Told(t)
    PROVE  /\ UpdateOf(t) \in Updates /\ Told(UpdateOf(t))
           /\ t = CatchUp => UpdateOf(t) \in batch
           /\ t # CatchUp => UpdateOf(t) = t
           /\ MessageOf(t) \in Messages /\ MessageOf(t) \in 1..posted
           /\ VersionOf(t) \in Versions /\ VersionOf(t) <= version[MessageOf(t)]
<1>1. UpdateOf(t) \in Updates /\ Told(UpdateOf(t))
  <2>1. CASE t = CatchUp
    BY <2>1, OldestTaken DEF Shape, TypeOK, UpdateOf
  <2>2. CASE t # CatchUp
    BY <2>2 DEF UpdateOf, Tasks
  <2> QED BY <2>1, <2>2
<1>2. /\ t = CatchUp => UpdateOf(t) \in batch
      /\ t # CatchUp => UpdateOf(t) = t
  BY OldestTaken DEF Shape, TypeOK, UpdateOf
<1>3. MessageOf(t) \in Messages /\ VersionOf(t) \in Versions
  BY <1>1 DEF Updates, MessageOf, VersionOf
<1>4. MessageOf(t) \in 1..posted /\ VersionOf(t) <= version[MessageOf(t)]
  BY <1>1 DEF Told, MessageOf, VersionOf
<1> QED BY <1>1, <1>2, <1>3, <1>4

\* A task at work handles an update the channel really made.
LEMMA WorkerWorks ==
    ASSUME Shape, NEW t \in Tasks, pc[t] \in Busy
    PROVE  /\ UpdateOf(t) \in Updates /\ Told(UpdateOf(t))
           /\ t = CatchUp => UpdateOf(t) \in batch
           /\ t # CatchUp => UpdateOf(t) = t
           /\ MessageOf(t) \in Messages /\ MessageOf(t) \in 1..posted
           /\ VersionOf(t) \in Versions /\ VersionOf(t) <= version[MessageOf(t)]
<1>1. t = CatchUp => batch # {}
  BY DEF Shape
<1>2. t # CatchUp => t \in Updates /\ pc[t] # "idle"
  BY DEF Tasks, Busy
<1>3. t # CatchUp => Told(t)
  BY <1>2 DEF Shape
<1> QED BY <1>1, <1>3, WorksOnMessage

\* One task moves in each action of the handlers and of the catch-up.
Moves(t) ==
    \/ t \in Updates /\ Deliver(t)
    \/ HandleStep(t) \/ Fail(t)
    \/ t = CatchUp /\ (BeginCatchUp \/ Fetch \/ Prime \/ NextMessage)

\* A task that finishes has its next message to look for, or nothing to do.
LEMMA FinishEffect ==
    ASSUME TypeOK, NEW t \in Tasks, Finish(t)
    PROVE  /\ pc' = [pc EXCEPT ![t] = IF t = CatchUp THEN "next" ELSE "idle"]
           /\ pc'[t] = IF t = CatchUp THEN "next" ELSE "idle"
           /\ \A s \in Tasks \ {t} :
                 pc'[s] = pc[s] /\ sawStored'[s] = sawStored[s]
           /\ batch' \subseteq batch
           /\ t # CatchUp => batch' = batch
           /\ known' = known /\ primed' = primed
           /\ sawStored' \in [Tasks -> Versions \union {Missing}]
           /\ sawCursor' = [sawCursor EXCEPT ![t] = 0]
BY DEF TypeOK, Finish, Goto, Forget

\* A task that has looked its message up is over with it, or holds what it saw.
LEMMA SelectEffect ==
    ASSUME TypeOK, NEW t \in Tasks, MessageOf(t) \in Messages, Select(t)
    PROVE  /\ \/ pc' = [pc EXCEPT ![t] = IF t = CatchUp THEN "next" ELSE "idle"]
              \/ /\ pc' = [pc EXCEPT ![t] = "store"] /\ batch' = batch
                 /\ ~IsDuplicate(t) /\ sawStored'[t] = stored[MessageOf(t)]
           /\ \A s \in Tasks \ {t} :
                 pc'[s] = pc[s] /\ sawStored'[s] = sawStored[s]
           /\ batch' \subseteq batch
           /\ t # CatchUp => batch' = batch
           /\ known' = known /\ primed' = primed
           /\ sawStored' \in [Tasks -> Versions \union {Missing}]
           /\ sawCursor' \in [Tasks -> {sawCursor[s] : s \in Tasks} \union {0, cursor}]
<1>1. CASE IsDuplicate(t)
  <2>1. Finish(t)
    BY <1>1 DEF Select
  <2> QED BY <2>1, FinishEffect DEF TypeOK
<1>2. CASE ~IsDuplicate(t)
  <2>1. /\ sawStored' = [sawStored EXCEPT ![t] = stored[MessageOf(t)]]
        /\ sawCursor' = [sawCursor EXCEPT ![t] = cursor]
        /\ Goto(t, "store") /\ UNCHANGED catchUp
    BY <1>2 DEF Select
  <2> QED BY <1>2, <2>1 DEF TypeOK, Goto, catchUp
<1> QED BY <1>1, <1>2

\* The others keep their step, what they saw, what they announced, their update.
LEMMA MovesAlone ==
    ASSUME Shape, NEW t \in Tasks, Moves(t)
    PROVE  OthersKept(t) /\ (t # CatchUp => batch' = batch)
<1>0. TypeOK
  BY DEF Shape
<1>1. CASE t \in Updates /\ Deliver(t)
  <2>1. t # CatchUp /\ Told(t)
    BY <1>1, NamesAssumption DEF Deliver, Shape
  <2>2. MessageOf(t) \in Messages
    BY <2>1, WorksOnMessage
  <2>3. Select(t) /\ UNCHANGED published
    BY <1>1 DEF Deliver
  <2> QED BY <1>0, <2>1, <2>2, <2>3, SelectEffect, OldestKept DEF OthersKept, UpdateOf
<1>2. CASE Store(t)
  <2>1. UNCHANGED published /\ (Finish(t) \/ (Goto(t, "check") /\ Forget(t) /\ UNCHANGED catchUp))
    BY <1>2 DEF Store
  <2>2. CASE Finish(t)
    BY <1>0, <2>1, <2>2, FinishEffect, OldestKept DEF OthersKept, UpdateOf
  <2>3. CASE Goto(t, "check") /\ Forget(t) /\ UNCHANGED catchUp
    BY <1>0, <2>1, <2>3, OldestKept DEF OthersKept, UpdateOf, Goto, Forget, catchUp, TypeOK
  <2> QED BY <2>1, <2>2, <2>3
<1>3. CASE Check(t)
  <2>1. UNCHANGED published /\ (Finish(t) \/ (Goto(t, "insert") /\ UNCHANGED <<reads, catchUp>>))
    BY <1>3 DEF Check
  <2>2. CASE Finish(t)
    BY <1>0, <2>1, <2>2, FinishEffect, OldestKept DEF OthersKept, UpdateOf
  <2>3. CASE Goto(t, "insert") /\ UNCHANGED <<reads, catchUp>>
    BY <1>0, <2>1, <2>3, OldestKept DEF OthersKept, UpdateOf, Goto, reads, catchUp, TypeOK
  <2> QED BY <2>1, <2>2, <2>3
<1>4. CASE Insert(t)
  <2>1. UNCHANGED published /\ (Finish(t) \/ (Goto(t, "execute") /\ UNCHANGED <<reads, catchUp>>))
    BY <1>4 DEF Insert
  <2>2. CASE Finish(t)
    BY <1>0, <2>1, <2>2, FinishEffect, OldestKept DEF OthersKept, UpdateOf
  <2>3. CASE Goto(t, "execute") /\ UNCHANGED <<reads, catchUp>>
    BY <1>0, <2>1, <2>3, OldestKept DEF OthersKept, UpdateOf, Goto, reads, catchUp, TypeOK
  <2> QED BY <2>1, <2>2, <2>3
<1>5. CASE Execute(t)
  BY <1>0, <1>5, OldestKept
     DEF Execute, Announce, Goto, OthersKept, UpdateOf, reads, catchUp, TypeOK
<1>6. CASE Commit(t)
  <2>1. Finish(t) /\ published' = [published EXCEPT ![t] = {}]
    BY <1>6 DEF Commit
  <2> QED BY <1>0, <2>1, FinishEffect, OldestKept DEF OthersKept, UpdateOf, TypeOK
<1>7. CASE Fail(t)
  <2>1. published' = [published EXCEPT ![t] = {}]
    BY <1>7 DEF Fail
  <2>2. CASE Finish(t)
    BY <1>0, <2>1, <2>2, FinishEffect, OldestKept DEF OthersKept, UpdateOf, TypeOK
  <2>3. CASE ~Finish(t)
    <3>1. t = CatchUp /\ Goto(t, "idle") /\ Forget(t)
      BY <1>7, <2>3 DEF Fail
    <3> QED BY <1>0, <2>1, <3>1 DEF OthersKept, UpdateOf, Goto, Forget, TypeOK
  <2> QED BY <2>2, <2>3
<1>8. CASE t = CatchUp /\ (BeginCatchUp \/ Fetch \/ Prime)
  BY <1>0, <1>8 DEF BeginCatchUp, Fetch, Prime, Goto, OthersKept, UpdateOf, reads, TypeOK
<1>9. CASE t = CatchUp /\ NextMessage
  <2>1. CASE batch = {}
    BY <1>0, <1>9, <2>1 DEF NextMessage, Goto, OthersKept, UpdateOf, reads, catchUp, TypeOK
  <2>2. CASE batch # {}
    <3>1. MessageOf(t) \in Messages
      BY <1>9, <2>2, WorksOnMessage
    <3>2. Select(t) /\ UNCHANGED published
      BY <1>9, <2>2 DEF NextMessage
    <3> QED BY <1>0, <1>9, <3>1, <3>2, SelectEffect DEF OthersKept, UpdateOf
  <2> QED BY <2>1, <2>2
<1> QED BY <1>1, <1>2, <1>3, <1>4, <1>5, <1>6, <1>7, <1>8, <1>9 DEF Moves, HandleStep

-----------------------------------------------------------------------------
(* The types, and who works on what.                                       *)

\* Every step is the channel's, a task's or a crash.
LEMMA NextMoves ==
    ASSUME Next
    PROVE  Post \/ (\E m \in Messages : Edit(m)) \/ (\E t \in Tasks : Moves(t)) \/ Crash
BY DEF Next, CatchUpStep, Moves, Tasks

\* The listener starts with its types and its bookkeeping right.
LEMMA ShapeInit == Init => Shape
<1> SUFFICES ASSUME Init PROVE Shape
  OBVIOUS
<1>1. TypeOK
  BY BoundsAssumption, NamesAssumption
     DEF Init, TypeOK, Messages, Versions, Kinds, Tasks, Updates, Pc, CatchUpPc, Missing
<1> QED BY <1>1 DEF Init, Shape, Busy, Tasks

\* The channel only grows: texts said remain said.
ChannelKept ==
    /\ history' = history /\ posted' \in posted..MaxMessages
    /\ text' \in [Messages -> [Versions -> Kinds]]
    /\ version' \in [Messages -> Versions]
    /\ own \subseteq own' /\ own' \subseteq 1..posted'
    /\ feed' \subseteq Updates
    /\ \A m \in Messages : version[m] <= version'[m]
    /\ \A u \in feed' : u \in feed \/ Told(u)'

\* What the channel published stays when it does nothing.
LEMMA SameChannel ==
    ASSUME Shape, UNCHANGED <<history, posted, text, version, own>>, feed' \subseteq feed
    PROVE  ChannelKept
<1>1. posted' \in posted..MaxMessages
  BY BoundsAssumption DEF Shape, TypeOK
<1>2. \A m \in Messages : version[m] <= version'[m]
  BY DEF Shape, TypeOK, Versions
<1> QED BY <1>1, <1>2 DEF Shape, TypeOK, ChannelKept

\* A new message keeps the older ones.
LEMMA PostKeeps ==
    ASSUME Shape, Post
    PROVE  ChannelKept
<1>0. TypeOK /\ MaxMessages \in Nat /\ history \in Nat /\ posted \in Nat
  BY BoundsAssumption DEF Shape, TypeOK
<1>1. /\ posted' = posted + 1 /\ posted' \in Messages /\ posted' \in posted..MaxMessages
      /\ UNCHANGED <<history, version, own>>
  BY <1>0 DEF Post, TypeOK, Messages
<1>2. text' \in [Messages -> [Versions -> Kinds]]
  BY <1>0, <1>1 DEF Post, TypeOK, Versions
<1>3. \A m \in Messages : version[m] <= version'[m]
  BY <1>0, <1>1 DEF TypeOK, Versions
<1>4. feed' \subseteq feed \union {<<posted', 0>>}
  BY DEF Post
<1>5. <<posted', 0>> \in Updates
  BY <1>1 DEF Updates, Versions
<1>6. PICK n \in Nat : n = posted' /\ Told(<<n, 0>>)'
  <2> PICK n \in Nat : n = posted'
    BY <1>0, <1>1
  <2>1. version'[n] \in {0, 1} /\ n \in 1..posted'
    BY <1>0, <1>1 DEF TypeOK, Versions
  <2>2. Told(<<n, 0>>)'
    BY <2>1 DEF Told
  <2> QED BY <2>2
<1>7. \A u \in feed' : u \in feed \/ Told(u)'
  BY <1>4, <1>6
<1>8. own' \subseteq 1..posted'
  BY <1>0, <1>1 DEF TypeOK
<1> QED BY <1>0, <1>1, <1>2, <1>3, <1>4, <1>5, <1>7, <1>8 DEF ChannelKept, TypeOK

\* An edit keeps the messages and their earlier versions.
LEMMA EditKeeps ==
    ASSUME Shape, NEW m \in Messages, Edit(m)
    PROVE  ChannelKept
<1>0. TypeOK /\ MaxMessages \in Nat /\ history \in Nat /\ posted \in Nat
  BY BoundsAssumption DEF Shape, TypeOK
<1>1. /\ version' = [version EXCEPT ![m] = 1] /\ feed' = feed \union {<<m, 1>>}
      /\ UNCHANGED <<history, posted, own>> /\ m \in 1..posted
  BY DEF Edit
<1>2. text' \in [Messages -> [Versions -> Kinds]]
  BY <1>0 DEF Edit, TypeOK, Versions
<1>3. version' \in [Messages -> Versions] /\ \A k \in Messages : version[k] <= version'[k]
  BY <1>0, <1>1 DEF TypeOK, Versions
<1>4. <<m, 1>> \in Updates
  BY DEF Updates, Versions
<1>5. Told(<<m, 1>>)'
  BY <1>0, <1>1 DEF Told, TypeOK
<1>6. \A u \in feed' : u \in feed \/ Told(u)'
  BY <1>1, <1>5
<1>7. posted' \in posted..MaxMessages
  BY <1>0, <1>1 DEF TypeOK
<1> QED BY <1>0, <1>1, <1>2, <1>3, <1>4, <1>6, <1>7 DEF ChannelKept, TypeOK

\* An announcement is one more message, and the Bridge's own.
LEMMA AnnounceKeeps ==
    ASSUME Shape, NEW t \in Tasks, Announce(t)
    PROVE  ChannelKept /\ posted' = posted + 1 /\ own' = own \union {posted + 1}
<1>0. TypeOK /\ MaxMessages \in Nat /\ history \in Nat /\ posted \in Nat
  BY BoundsAssumption DEF Shape, TypeOK
<1>1. /\ posted' = posted + 1 /\ posted' \in Messages /\ posted' \in posted..MaxMessages
      /\ UNCHANGED <<history, text, version>> /\ own' = own \union {posted'}
  BY <1>0 DEF Announce, TypeOK, Messages
<1>2. \A m \in Messages : version[m] <= version'[m]
  BY <1>0, <1>1 DEF TypeOK, Versions
<1>3. feed' \subseteq feed \union {<<posted', 0>>}
  BY DEF Announce
<1>4. <<posted', 0>> \in Updates
  BY <1>1 DEF Updates, Versions
<1>5. PICK n \in Nat : n = posted' /\ Told(<<n, 0>>)'
  <2> PICK n \in Nat : n = posted'
    BY <1>0, <1>1
  <2>1. version'[n] \in {0, 1} /\ n \in 1..posted'
    BY <1>0, <1>1 DEF TypeOK, Versions
  <2>2. Told(<<n, 0>>)'
    BY <2>1 DEF Told
  <2> QED BY <2>2
<1>6. \A u \in feed' : u \in feed \/ Told(u)'
  BY <1>3, <1>5
<1>7. own' \subseteq 1..posted'
  BY <1>0, <1>1 DEF TypeOK
<1> QED BY <1>0, <1>1, <1>2, <1>3, <1>4, <1>6, <1>7 DEF ChannelKept, TypeOK

\* What was told remains so.
LEMMA ToldRemains ==
    ASSUME Shape, ChannelKept, NEW u \in Updates, Told(u)
    PROVE  Told(u)'
<1>1. /\ u[1] \in Messages /\ u[2] \in {0, 1} /\ u[1] \in 1..posted /\ u[2] <= version[u[1]]
      /\ posted \in Nat /\ posted' \in Nat /\ posted <= posted' /\ MaxMessages \in Nat
  BY BoundsAssumption DEF Shape, TypeOK, ChannelKept, Updates, Versions, Told
<1>2. version[u[1]] \in {0, 1} /\ version'[u[1]] \in {0, 1} /\ version[u[1]] <= version'[u[1]]
  BY <1>1 DEF Shape, TypeOK, ChannelKept, Versions
<1>3. u[1] \in 1..posted' /\ u[2] <= version'[u[1]]
  BY <1>1, <1>2
<1> QED BY <1>3 DEF Told

\* Facts of the tables, the same for all: what the types say of them.
TablesType ==
    /\ stored \in [Messages -> Versions \union {Missing}]
    /\ cursor \in 0..posted /\ known \in 0..posted /\ primed \in 0..posted
    /\ signalRows \subseteq 1..posted /\ registry \subseteq own
    /\ orders \in [Messages -> Nat] /\ faults \in Nat
\* Of the tasks.
TasksType ==
    /\ pc \in [Tasks -> CatchUpPc]
    /\ \A u \in Updates : pc[u] \in Pc
    /\ sawStored \in [Tasks -> Versions \union {Missing}]
    /\ sawCursor \in [Tasks -> 0..posted]
    /\ published \in [Tasks -> SUBSET own]
    /\ writer \in Tasks \union {Nobody}
\* What they work on.
TasksWork ==
    /\ batch \subseteq Updates
    /\ pc[CatchUp] \in Busy => batch # {}
    /\ \A u \in batch : Told(u)
    /\ \A u \in Updates : pc[u] # "idle" => Told(u)
\* What they hold.
TasksHold ==
    /\ \A t \in Tasks : pc[t] \in {"execute", "commit"} => writer = t
    /\ \A t \in Tasks : published[t] # {} => pc[t] = "commit"

\* The parts that make the bookkeeping right after a step.
LEMMA ShapeParts ==
    ASSUME Shape, ChannelKept, TablesType', TasksType', TasksWork', TasksHold'
    PROVE  Shape'
<1>1. TypeOK'
  BY DEF Shape, TypeOK, ChannelKept, TablesType, TasksType, TasksWork
<1>2. \A u \in feed' : Told(u)'
  <2> TAKE u \in feed'
  <2>1. CASE u \in feed
    BY <2>1, ToldRemains DEF Shape, TypeOK
  <2>2. CASE u \notin feed
    BY <2>2 DEF ChannelKept
  <2> QED BY <2>1, <2>2
<1> QED BY <1>1, <1>2 DEF Shape, TasksWork, TasksHold

\* The tables when none of them is written.
LEMMA SameTables ==
    ASSUME Shape, ChannelKept, UNCHANGED <<stored, cursor, signalRows, registry, orders>>,
           known' \in {known, 0, cursor}, primed' = primed,
           faults' \in {faults, faults + 1}
    PROVE  TablesType'
<1>1. 0..posted \subseteq 0..posted' /\ 1..posted \subseteq 1..posted' /\ 0 \in 0..posted'
  BY BoundsAssumption DEF Shape, TypeOK, ChannelKept
<1> QED BY <1>1 DEF Shape, TypeOK, ChannelKept, TablesType

\* The tasks when one moves to another step and keeps, takes or leaves the writer.
LEMMA TaskTurns ==
    ASSUME Shape, ChannelKept, NEW t \in Tasks, OthersKept(t),
           t # CatchUp => batch' = batch,
           pc' = [pc EXCEPT ![t] = pc'[t]],
           pc'[t] \in (IF t = CatchUp THEN CatchUpPc ELSE Pc),
           sawStored' \in [Tasks -> Versions \union {Missing}],
           sawCursor' \in [Tasks -> 0..posted],
           published' \in [Tasks -> SUBSET own'],
           batch' \subseteq batch,
           pc'[t] \in Busy => (IF t = CatchUp THEN batch' # {} ELSE Told(t)),
           t \in Updates /\ pc'[t] # "idle" => pc'[t] \in Busy,
           writer' \in {writer, t} \/ (writer = t /\ writer' = Nobody),
           writer' # writer => writer \in {Nobody, t},
           pc'[t] \in {"execute", "commit"} => writer' = t,
           published'[t] # {} => pc'[t] = "commit"
    PROVE  TasksType' /\ TasksWork' /\ TasksHold'
<1>0. TypeOK /\ 0..posted \subseteq 0..posted' /\ CatchUp \notin Updates /\ Nobody \notin Tasks
  BY BoundsAssumption, NamesAssumption DEF Shape, TypeOK, ChannelKept
<1>1. TasksType'
  <2>1. pc' \in [Tasks -> CatchUpPc]
    BY <1>0 DEF TypeOK, CatchUpPc
  <2>2. \A u \in Updates : pc'[u] \in Pc
    BY <1>0 DEF TypeOK, Tasks, OthersKept
  <2>3. sawCursor' \in [Tasks -> 0..posted']
    BY <1>0
  <2>4. writer' \in Tasks \union {Nobody}
    BY <1>0 DEF TypeOK
  <2> QED BY <2>1, <2>2, <2>3, <2>4 DEF TasksType
<1>2. TasksWork'
  <2>1. batch' \subseteq Updates
    BY <1>0 DEF TypeOK
  <2>2. pc'[CatchUp] \in Busy => batch' # {}
    BY DEF Shape, OthersKept, Tasks
  <2>3. \A u \in batch' : Told(u)'
    BY <1>0, ToldRemains DEF Shape, TypeOK
  <2>4. \A u \in Updates : pc'[u] # "idle" => Told(u)
    BY <1>0 DEF Shape, OthersKept, Tasks
  <2>5. \A u \in Updates : pc'[u] # "idle" => Told(u)'
    BY <2>4, ToldRemains
  <2> QED BY <2>1, <2>2, <2>3, <2>5 DEF TasksWork
<1>3. TasksHold'
  <2>1. \A s \in Tasks : pc'[s] \in {"execute", "commit"} => writer' = s
    <3> TAKE s \in Tasks
    <3>1. CASE s = t
      BY <3>1
    <3>2. CASE s # t
      BY <1>0, <3>2 DEF Shape, OthersKept
    <3> QED BY <3>1, <3>2
  <2>2. \A s \in Tasks : published'[s] # {} => pc'[s] = "commit"
    BY DEF Shape, OthersKept
  <2> QED BY <2>1, <2>2 DEF TasksHold
<1> QED BY <1>1, <1>2, <1>3

\* The tasks when one finishes: it leaves the writer if it has it.
LEMMA TaskEnds ==
    ASSUME Shape, ChannelKept, NEW t \in Tasks, OthersKept(t), Finish(t),
           published' = [published EXCEPT ![t] = {}] \/ published' = published,
           published'[t] = {},
           DropWriter(t) \/ UNCHANGED writer
    PROVE  TasksType' /\ TasksWork' /\ TasksHold'
<1>0. TypeOK /\ CatchUp \notin Updates
  BY NamesAssumption DEF Shape
<1>1. /\ pc' = [pc EXCEPT ![t] = IF t = CatchUp THEN "next" ELSE "idle"]
      /\ pc'[t] = IF t = CatchUp THEN "next" ELSE "idle"
      /\ batch' \subseteq batch /\ (t # CatchUp => batch' = batch)
      /\ sawStored' \in [Tasks -> Versions \union {Missing}]
      /\ sawCursor' = [sawCursor EXCEPT ![t] = 0]
  BY <1>0, FinishEffect
<1>2. sawCursor' \in [Tasks -> 0..posted]
  BY <1>0, <1>1, BoundsAssumption DEF TypeOK
<1>3. published' \in [Tasks -> SUBSET own']
  BY <1>0 DEF TypeOK, ChannelKept
<1>4. /\ writer' \in {writer, t} \/ (writer = t /\ writer' = Nobody)
      /\ writer' # writer => writer \in {Nobody, t}
  BY DEF DropWriter
<1>5. /\ pc'[t] \in (IF t = CatchUp THEN CatchUpPc ELSE Pc)
      /\ pc'[t] \notin Busy
      /\ t \in Updates => pc'[t] = "idle"
  BY <1>0, <1>1 DEF CatchUpPc, Pc, Busy
<1>6. pc' = [pc EXCEPT ![t] = pc'[t]]
  BY <1>1
<1>7. pc'[t] \notin {"execute", "commit"}
  BY <1>5 DEF Busy
<1> QED BY <1>1, <1>2, <1>3, <1>4, <1>5, <1>6, <1>7, TaskTurns

\* The tasks when one goes on with the same update.
LEMMA TaskGoes ==
    ASSUME Shape, ChannelKept, NEW t \in Tasks, OthersKept(t), NEW step \in Busy,
           Goto(t, step), UpdateOf(t)' = UpdateOf(t), batch' = batch,
           t = CatchUp => batch # {},
           t # CatchUp => Told(t),
           sawStored' \in [Tasks -> Versions \union {Missing}],
           sawCursor' \in [Tasks -> 0..posted],
           published' \in [Tasks -> SUBSET own'],
           writer' \in {writer, t},
           writer' # writer => writer \in {Nobody, t},
           step \in {"execute", "commit"} => writer' = t,
           published'[t] # {} => step = "commit"
    PROVE  TasksType' /\ TasksWork' /\ TasksHold'
<1>0. TypeOK
  BY DEF Shape
<1>1. pc' = [pc EXCEPT ![t] = step] /\ pc'[t] = step
  BY <1>0 DEF TypeOK, Goto
<1>2. pc'[t] \in (IF t = CatchUp THEN CatchUpPc ELSE Pc)
  BY <1>1 DEF CatchUpPc, Pc, Busy
<1> QED BY <1>1, <1>2, TaskTurns

\* A task that takes up a message starts from what the tables say.
LEMMA LookUpShape ==
    ASSUME Shape, ChannelKept, NEW t \in Tasks, Moves(t), Select(t),
           t = CatchUp => batch # {},
           t # CatchUp => Told(t),
           pc[t] # "commit",
           UNCHANGED <<tables, writer, published, orders, faults>>
    PROVE  Shape'
<1>0. TypeOK
  BY DEF Shape
<1>1. MessageOf(t) \in Messages /\ OthersKept(t)
  BY WorksOnMessage, MovesAlone
<1>2. published[t] = {}
  BY DEF Shape
<1>3. known' = known /\ primed' = primed
  BY <1>0, <1>1, SelectEffect
<1>4. TablesType'
  BY <1>3, SameTables DEF tables
<1>5. CASE IsDuplicate(t)
  <2>1. Finish(t)
    BY <1>5 DEF Select
  <2> QED BY <1>1, <1>2, <1>4, <2>1, TaskEnds, ShapeParts
<1>6. CASE ~IsDuplicate(t)
  <2>1. /\ Goto(t, "store") /\ batch' = batch
        /\ sawStored' = [sawStored EXCEPT ![t] = stored[MessageOf(t)]]
        /\ sawCursor' = [sawCursor EXCEPT ![t] = cursor]
    BY <1>6 DEF Select, catchUp
  <2>2. UpdateOf(t)' = UpdateOf(t)
    BY <2>1, OldestKept DEF UpdateOf
  <2>3. /\ sawStored' \in [Tasks -> Versions \union {Missing}]
        /\ sawCursor' \in [Tasks -> 0..posted]
        /\ published' \in [Tasks -> SUBSET own']
    BY <1>0, <1>1, <2>1 DEF TypeOK, ChannelKept
  <2>4. "store" \in Busy
    BY DEF Busy
  <2>5. TasksType' /\ TasksWork' /\ TasksHold'
    BY <1>1, <1>2, <2>1, <2>2, <2>3, <2>4, TaskGoes
  <2> QED BY <1>4, <2>5, ShapeParts
<1> QED BY <1>5, <1>6

\* A handler, or the catch-up, goes through its message.
LEMMA HandleShape ==
    ASSUME Shape, NEW t \in Tasks, HandleStep(t)
    PROVE  Shape' /\ ChannelKept
<1>0. TypeOK /\ Moves(t)
  BY DEF Shape, Moves
<1>1. OthersKept(t) /\ (t # CatchUp => batch' = batch)
  BY <1>0, MovesAlone
<1>2. pc[t] \in Busy
  BY DEF HandleStep, Store, Check, Insert, Execute, Commit, Busy
<1>3. /\ MessageOf(t) \in Messages /\ MessageOf(t) \in 1..posted
      /\ VersionOf(t) \in Versions
      /\ t = CatchUp => batch # {}
      /\ t # CatchUp => Told(t)
  <2>1. t = CatchUp => batch # {}
    BY <1>2 DEF Shape
  <2> QED BY <1>2, <2>1, WorkerWorks
<1>4. CASE Store(t)
  <2>1. ChannelKept
    BY <1>4, SameChannel DEF Store, channel
  <2>2. /\ UNCHANGED <<signalRows, registry, writer, published, orders, faults>>
        /\ published[t] = {} /\ pc[t] = "store"
    BY <1>4 DEF Store, Shape
  <2>3. stored' \in [Messages -> Versions \union {Missing}] /\ cursor' \in 0..posted
    BY <1>0, <1>3, <1>4 DEF Store, TypeOK
  <2>4. Finish(t) \/ (Goto(t, "check") /\ Forget(t) /\ UNCHANGED catchUp)
    BY <1>4 DEF Store
  <2>5. known' = known /\ primed' = primed
    BY <1>0, <2>4, FinishEffect DEF catchUp
  <2>6. TablesType'
    <3>1. 0..posted \subseteq 0..posted' /\ 1..posted \subseteq 1..posted'
      BY <2>1, BoundsAssumption DEF Shape, TypeOK, ChannelKept
    <3> QED BY <1>0, <2>1, <2>2, <2>3, <2>5, <3>1 DEF TypeOK, ChannelKept, TablesType
  <2>7. CASE Finish(t)
    BY <1>1, <2>1, <2>2, <2>6, <2>7, TaskEnds, ShapeParts
  <2>8. CASE Goto(t, "check") /\ Forget(t) /\ UNCHANGED catchUp
    <3>1. batch' = batch /\ UpdateOf(t)' = UpdateOf(t)
      BY <2>8, OldestKept DEF catchUp, UpdateOf
    <3>2. /\ sawStored' \in [Tasks -> Versions \union {Missing}]
          /\ sawCursor' \in [Tasks -> 0..posted]
          /\ published' \in [Tasks -> SUBSET own']
      <4>1. 0 \in 0..posted /\ Missing \in Versions \union {Missing}
        BY <1>0, BoundsAssumption DEF TypeOK
      <4>2. /\ sawStored' = [sawStored EXCEPT ![t] = Missing]
            /\ sawCursor' = [sawCursor EXCEPT ![t] = 0]
        BY <2>8 DEF Forget
      <4> QED BY <1>0, <2>1, <2>2, <4>1, <4>2 DEF TypeOK, ChannelKept
    <3>3. "check" \in Busy
      BY DEF Busy
    <3>4. TasksType' /\ TasksWork' /\ TasksHold'
      BY <1>1, <1>3, <2>1, <2>2, <2>8, <3>1, <3>2, <3>3, TaskGoes
    <3> QED BY <2>1, <2>6, <3>4, ShapeParts
  <2> QED BY <2>1, <2>4, <2>7, <2>8
<1>5. CASE Check(t) \/ Insert(t)
  <2>1. ChannelKept
    BY <1>5, SameChannel DEF Check, Insert, channel
  <2>2. /\ UNCHANGED <<tables, published, orders, faults>>
        /\ published[t] = {} /\ pc[t] \in {"check", "insert"}
    BY <1>5 DEF Check, Insert, Shape
  <2>3. \/ Finish(t) /\ UNCHANGED writer
        \/ /\ UNCHANGED <<reads, catchUp>>
           /\ \/ Goto(t, "insert") /\ UNCHANGED writer
              \/ Goto(t, "execute") /\ HoldWriter(t)
    BY <1>5 DEF Check, Insert
  <2>4. known' = known /\ primed' = primed
    BY <1>0, <2>3, FinishEffect DEF catchUp
  <2>5. TablesType'
    BY <2>1, <2>2, <2>4, SameTables DEF tables
  <2>6. CASE Finish(t) /\ UNCHANGED writer
    BY <1>1, <2>1, <2>2, <2>5, <2>6, TaskEnds, ShapeParts
  <2>7. CASE /\ UNCHANGED <<reads, catchUp>>
             /\ \/ Goto(t, "insert") /\ UNCHANGED writer
                \/ Goto(t, "execute") /\ HoldWriter(t)
    <3>1. batch' = batch /\ UpdateOf(t)' = UpdateOf(t)
      BY <2>7, OldestKept DEF catchUp, UpdateOf
    <3>2. /\ sawStored' \in [Tasks -> Versions \union {Missing}]
          /\ sawCursor' \in [Tasks -> 0..posted]
          /\ published' \in [Tasks -> SUBSET own']
      BY <1>0, <2>1, <2>2, <2>7 DEF TypeOK, ChannelKept, reads
    <3>3. "insert" \in Busy /\ "execute" \in Busy
      BY DEF Busy
    <3>4. CASE Goto(t, "insert") /\ UNCHANGED writer
      <4>1. TasksType' /\ TasksWork' /\ TasksHold'
        BY <1>1, <1>3, <2>1, <2>2, <3>1, <3>2, <3>3, <3>4, TaskGoes
      <4> QED BY <2>1, <2>5, <4>1, ShapeParts
    <3>5. CASE Goto(t, "execute") /\ HoldWriter(t)
      <4>1. writer' = t /\ writer \in {Nobody, t}
        BY <3>5 DEF HoldWriter, CanWrite
      <4>2. TasksType' /\ TasksWork' /\ TasksHold'
        BY <1>1, <1>3, <2>1, <2>2, <3>1, <3>2, <3>3, <3>5, <4>1, TaskGoes
      <4> QED BY <2>1, <2>5, <4>2, ShapeParts
    <3> QED BY <2>7, <3>4, <3>5
  <2> QED BY <2>1, <2>3, <2>6, <2>7
<1>6. CASE Execute(t)
  <2>1. /\ UNCHANGED <<tables, writer, reads, catchUp, faults>>
        /\ pc[t] = "execute" /\ Goto(t, "commit") /\ writer = t
    BY <1>6 DEF Execute, Shape
  <2>2. /\ orders' \in [Messages -> Nat]
        /\ Announce(t) \/ UNCHANGED <<channel, published>>
    BY <1>0, <1>3, <1>6 DEF Execute, TypeOK
  <2>3. ChannelKept
    BY <2>2, SameChannel, AnnounceKeeps DEF channel
  <2>4. published' \in [Tasks -> SUBSET own']
    <3>1. CASE Announce(t)
      <4>1. published' = [published EXCEPT ![t] = {posted + 1}] /\ posted + 1 \in own'
        BY <3>1, AnnounceKeeps DEF Announce, Returned
      <4> QED BY <1>0, <2>3, <4>1 DEF TypeOK, ChannelKept
    <3>2. CASE UNCHANGED <<channel, published>>
      BY <1>0, <3>2 DEF TypeOK, channel
    <3> QED BY <2>2, <3>1, <3>2
  <2>5. TablesType'
    <3>1. 0..posted \subseteq 0..posted' /\ 1..posted \subseteq 1..posted'
      BY <2>3, BoundsAssumption DEF Shape, TypeOK, ChannelKept
    <3> QED BY <1>0, <2>1, <2>2, <2>3, <3>1 DEF TypeOK, ChannelKept, TablesType, tables, catchUp
  <2>6. batch' = batch /\ UpdateOf(t)' = UpdateOf(t)
    BY <2>1, OldestKept DEF catchUp, UpdateOf
  <2>7. /\ sawStored' \in [Tasks -> Versions \union {Missing}]
        /\ sawCursor' \in [Tasks -> 0..posted]
        /\ "commit" \in Busy
    BY <1>0, <2>1 DEF TypeOK, reads, Busy
  <2>8. TasksType' /\ TasksWork' /\ TasksHold'
    BY <1>1, <1>3, <2>1, <2>3, <2>4, <2>6, <2>7, TaskGoes
  <2> QED BY <2>3, <2>5, <2>8, ShapeParts
<1>7. CASE Commit(t)
  <2>1. ChannelKept
    BY <1>7, SameChannel DEF Commit, channel
  <2>2. /\ UNCHANGED <<stored, cursor, orders, faults>>
        /\ signalRows' = signalRows \union {MessageOf(t)}
        /\ registry' = registry \union published[t]
        /\ published' = [published EXCEPT ![t] = {}]
        /\ DropWriter(t) /\ Finish(t)
    BY <1>7 DEF Commit
  <2>3. TablesType'
    <3>1. 0..posted \subseteq 0..posted' /\ 1..posted \subseteq 1..posted'
      BY <2>1, BoundsAssumption DEF Shape, TypeOK, ChannelKept
    <3>2. known' = known /\ primed' = primed
      BY <1>0, <2>2, FinishEffect
    <3>3. signalRows' \subseteq 1..posted /\ registry' \subseteq own
      BY <1>0, <1>3, <2>2 DEF TypeOK
    <3> QED BY <1>0, <2>1, <2>2, <3>1, <3>2, <3>3 DEF TypeOK, ChannelKept, TablesType
  <2>4. published'[t] = {}
    BY <1>0, <2>2 DEF TypeOK
  <2>5. TasksType' /\ TasksWork' /\ TasksHold'
    BY <1>1, <2>1, <2>2, <2>4, TaskEnds
  <2> QED BY <2>1, <2>3, <2>5, ShapeParts
<1> QED BY <1>4, <1>5, <1>6, <1>7 DEF HandleStep

\* A failure leaves the tables and the bookkeeping right.
LEMMA FailShape ==
    ASSUME Shape, NEW t \in Tasks, Fail(t)
    PROVE  Shape' /\ ChannelKept
<1>0. TypeOK /\ Moves(t)
  BY DEF Shape, Moves
<1>1. OthersKept(t) /\ (t # CatchUp => batch' = batch)
  BY <1>0, MovesAlone
<1>2. ChannelKept
  BY SameChannel DEF Fail, channel
<1>3. /\ UNCHANGED <<tables, orders>> /\ faults' = faults + 1
      /\ published' = [published EXCEPT ![t] = {}] /\ DropWriter(t)
  BY DEF Fail
<1>4. published'[t] = {}
  BY <1>0, <1>3 DEF TypeOK
<1>5. CASE Finish(t)
  <2>1. TablesType'
    BY <1>0, <1>2, <1>3, <1>5, FinishEffect, SameTables DEF tables
  <2> QED BY <1>1, <1>2, <1>3, <1>4, <1>5, <2>1, TaskEnds, ShapeParts
<1>6. CASE ~Finish(t)
  <2>1. t = CatchUp /\ Goto(t, "idle") /\ batch' = {} /\ known' = 0 /\ Forget(t) /\ UNCHANGED primed
    BY <1>6 DEF Fail
  <2>2. TablesType'
    BY <1>2, <1>3, <2>1, SameTables DEF tables
  <2>3. pc' = [pc EXCEPT ![t] = "idle"] /\ pc'[t] = "idle"
    BY <1>0, <2>1 DEF TypeOK, Goto
  <2>4. /\ sawStored' \in [Tasks -> Versions \union {Missing}]
        /\ sawCursor' \in [Tasks -> 0..posted]
    <3>1. 0 \in 0..posted
      BY <1>0, BoundsAssumption DEF TypeOK
    <3> QED BY <1>0, <2>1, <3>1 DEF TypeOK, Forget
  <2>5. published' \in [Tasks -> SUBSET own']
    BY <1>0, <1>2, <1>3 DEF TypeOK, ChannelKept
  <2>6. "idle" \in CatchUpPc /\ "idle" \notin Busy
    BY DEF CatchUpPc, Pc, Busy
  <2>7. writer' = writer \/ (writer = t /\ writer' = Nobody)
    BY <1>3 DEF DropWriter
  <2>8. t \notin Updates
    BY <2>1, NamesAssumption
  <2>8a. pc' = [pc EXCEPT ![t] = pc'[t]]
    BY <2>3
  <2>9. /\ batch' \subseteq batch
        /\ pc'[t] \in (IF t = CatchUp THEN CatchUpPc ELSE Pc)
        /\ pc'[t] \notin {"execute", "commit"} /\ pc'[t] \notin Busy
    BY <2>1, <2>3, <2>6
  <2>10. TasksType' /\ TasksWork' /\ TasksHold'
    BY <1>1, <1>2, <1>4, <2>1, <2>3, <2>4, <2>5, <2>6, <2>7, <2>8, <2>8a, <2>9, TaskTurns
  <2> QED BY <1>2, <2>2, <2>10, ShapeParts
<1> QED BY <1>5, <1>6

\* The first message of a non-empty set of them is one of them, the last too.
LEMMA PrimeTo ==
    ASSUME Shape, pc[CatchUp] = "prime", NEW u \in batch,
           \A w \in batch : w[1] <= u[1]
    PROVE  Max({w[1] : w \in batch}) = u[1]
<1> DEFINE Ids == {w[1] : w \in batch}
<1>1. /\ Ids \subseteq Nat /\ u[1] \in Ids /\ \A k \in Ids : u[1] >= k
  BY BoundsAssumption DEF Shape, TypeOK, Updates, Messages
<1>2. \A n \in Ids : (\A k \in Ids : n >= k) => n = u[1]
  BY <1>1
<1> HIDE DEF Ids
<1>3. Max(Ids) = u[1]
  BY <1>1, <1>2 DEF Max
<1> QED BY <1>3 DEF Ids

\* The catch-up between two messages.
LEMMA CatchUpShape ==
    ASSUME Shape, BeginCatchUp \/ Fetch \/ NextMessage
    PROVE  Shape' /\ ChannelKept
<1>0. TypeOK /\ Moves(CatchUp) /\ CatchUp \in Tasks /\ CatchUp \notin Updates
  BY NamesAssumption DEF Shape, Moves, Tasks
<1>1. OthersKept(CatchUp)
  BY <1>0, MovesAlone
<1>2. CASE BeginCatchUp
  <2>1. ChannelKept
    BY <1>2, SameChannel DEF BeginCatchUp, channel
  <2>2. /\ UNCHANGED <<tables, writer, reads, published, batch, primed, orders, faults>>
        /\ pc[CatchUp] = "idle" /\ known' = cursor /\ published[CatchUp] = {}
        /\ pc' = [pc EXCEPT ![CatchUp] = "fetch"] /\ pc'[CatchUp] = "fetch"
    BY <1>0, <1>2 DEF BeginCatchUp, Goto, Shape, TypeOK
  <2>3. TablesType'
    BY <2>1, <2>2, SameTables DEF tables
  <2>4. "fetch" \in CatchUpPc /\ "fetch" \notin Busy
    BY DEF CatchUpPc, Busy
  <2>5. TasksType' /\ TasksWork' /\ TasksHold'
    <3>1. /\ sawStored' \in [Tasks -> Versions \union {Missing}]
          /\ sawCursor' \in [Tasks -> 0..posted]
          /\ published' \in [Tasks -> SUBSET own'] /\ batch' \subseteq batch
      BY <1>0, <2>1, <2>2 DEF TypeOK, ChannelKept, reads
    <3>1a. pc' = [pc EXCEPT ![CatchUp] = pc'[CatchUp]]
      BY <2>2
    <3>2. /\ pc'[CatchUp] \in (IF CatchUp = CatchUp THEN CatchUpPc ELSE Pc)
          /\ pc'[CatchUp] \notin {"execute", "commit"} /\ pc'[CatchUp] \notin Busy
          /\ writer' = writer /\ published'[CatchUp] = {}
      BY <2>2, <2>4
    <3> QED BY <1>0, <1>1, <2>1, <3>1, <3>1a, <3>2, TaskTurns
  <2> QED BY <2>1, <2>3, <2>5, ShapeParts
<1>3. CASE Fetch
  <2>1. ChannelKept
    BY <1>3, SameChannel DEF Fetch, channel
  <2>2. /\ UNCHANGED <<tables, writer, reads, published, primed, orders, faults>>
        /\ pc[CatchUp] = "fetch" /\ known' = 0 /\ published[CatchUp] = {}
        /\ pc'[CatchUp] \in {"next", "idle", "prime"} /\ pc' \in [Tasks -> CatchUpPc]
    BY <1>0, <1>3 DEF Fetch, Goto, Shape, TypeOK, CatchUpPc, Pc
  <2>3. TablesType'
    BY <2>1, <2>2, SameTables DEF tables
  <2>4. batch' = {<<m, version[m]>> : m \in Unread} /\ Unread \subseteq Messages
    BY <1>0, <1>3, BoundsAssumption DEF Fetch, Unread, Latest, TypeOK, Messages
  <2>5. batch' \subseteq Updates /\ \A u \in batch' : Told(u)
    <3> SUFFICES ASSUME NEW m \in Unread
                 PROVE  <<m, version[m]>> \in Updates /\ Told(<<m, version[m]>>)
      BY <2>4
    <3>1. m \in Messages /\ m \in 1..posted /\ version[m] \in Versions
      BY <1>0, <2>4 DEF Unread, Latest, TypeOK
    <3>2. version[m] <= version[m]
      BY <3>1 DEF Versions
    <3> QED BY <3>1, <3>2 DEF Told, Updates
  <2>6. \A u \in batch' : Told(u)'
    BY <2>1, <2>5, ToldRemains
  <2>7. TasksType'
    <3>1. \A u \in Updates : pc'[u] \in Pc
      BY <1>0, <1>1 DEF OthersKept, Tasks, TypeOK
    <3>2. 0..posted \subseteq 0..posted'
      BY <1>0, <2>1, BoundsAssumption DEF TypeOK, ChannelKept
    <3> QED BY <1>0, <2>1, <2>2, <3>1, <3>2 DEF TasksType, TypeOK, ChannelKept, reads
  <2>8. TasksWork'
    <3>1. \A u \in Updates : pc'[u] # "idle" => Told(u)
      BY <1>0, <1>1 DEF OthersKept, Shape, Tasks
    <3>2. \A u \in Updates : pc'[u] # "idle" => Told(u)'
      BY <2>1, <3>1, ToldRemains
    <3> QED BY <2>2, <2>5, <2>6, <3>2 DEF TasksWork, Busy
  <2>9. TasksHold'
    BY <1>0, <1>1, <2>2 DEF TasksHold, OthersKept, Shape
  <2> QED BY <2>1, <2>3, <2>7, <2>8, <2>9, ShapeParts
<1>4. CASE NextMessage
  <2>1. ChannelKept
    BY <1>4, SameChannel DEF NextMessage, channel
  <2>2. /\ UNCHANGED <<tables, writer, published, orders, faults>>
        /\ pc[CatchUp] = "next" /\ published[CatchUp] = {}
    BY <1>4 DEF NextMessage, Shape, Tasks
  <2>3. CASE batch # {}
    <3>1. Select(CatchUp)
      BY <1>4, <2>3 DEF NextMessage
    <3> QED BY <1>0, <2>1, <2>2, <2>3, <3>1, LookUpShape
  <2>4. CASE batch = {}
    <3>1. Goto(CatchUp, "idle") /\ UNCHANGED <<reads, catchUp>>
      BY <1>4, <2>4 DEF NextMessage
    <3>2. /\ pc' = [pc EXCEPT ![CatchUp] = "idle"] /\ pc'[CatchUp] = "idle"
          /\ "idle" \in CatchUpPc /\ "idle" \notin Busy
      BY <1>0, <3>1 DEF Goto, TypeOK, CatchUpPc, Pc, Busy
    <3>3. /\ sawStored' \in [Tasks -> Versions \union {Missing}]
          /\ sawCursor' \in [Tasks -> 0..posted]
          /\ published' \in [Tasks -> SUBSET own'] /\ batch' \subseteq batch
      BY <1>0, <2>1, <2>2, <3>1 DEF TypeOK, ChannelKept, reads, catchUp
    <3>4. TasksType' /\ TasksWork' /\ TasksHold'
      <4>0. pc' = [pc EXCEPT ![CatchUp] = pc'[CatchUp]]
        BY <3>2
      <4>1. /\ pc'[CatchUp] \in (IF CatchUp = CatchUp THEN CatchUpPc ELSE Pc)
            /\ pc'[CatchUp] \notin {"execute", "commit"} /\ pc'[CatchUp] \notin Busy
            /\ writer' = writer /\ published'[CatchUp] = {}
        BY <2>2, <3>2
      <4> QED BY <1>0, <1>1, <2>1, <3>3, <4>0, <4>1, TaskTurns
    <3>5. TablesType'
      BY <2>1, <2>2, <3>1, SameTables DEF tables, catchUp
    <3> QED BY <2>1, <3>4, <3>5, ShapeParts
  <2> QED BY <2>1, <2>3, <2>4
<1> QED BY <1>2, <1>3, <1>4

\* The catch-up that only primes its cursor keeps the bookkeeping.
LEMMA PrimeShape ==
    ASSUME Shape, HistoryInv, Prime
    PROVE  Shape' /\ ChannelKept
<1>0. TypeOK /\ Moves(CatchUp) /\ CatchUp \in Tasks /\ CatchUp \notin Updates
  BY NamesAssumption DEF Shape, Moves, Tasks
<1>1. OthersKept(CatchUp)
  BY <1>0, MovesAlone
<1>2. ChannelKept
  BY SameChannel DEF Prime, channel
<1>3. /\ UNCHANGED <<stored, signalRows, registry, writer, reads, published, known, orders,
                     faults>>
      /\ pc[CatchUp] = "prime" /\ batch' = {} /\ published[CatchUp] = {}
      /\ pc' = [pc EXCEPT ![CatchUp] = "idle"] /\ pc'[CatchUp] = "idle"
  BY <1>0 DEF Prime, Goto, Shape, TypeOK
<1>4. cursor' \in 0..posted /\ primed' \in 0..posted
  <2>1. CASE cursor # 0
    BY <1>0, <2>1 DEF Prime, TypeOK
  <2>2. CASE cursor = 0
    <3>1. PICK u \in batch : u[1] >= history /\ \A w \in batch : w[1] <= u[1]
      BY <1>3 DEF HistoryInv
    <3>2. cursor' = Max({w[1] : w \in batch}) /\ primed' = cursor'
      BY <2>2 DEF Prime
    <3>3. u[1] \in 1..posted
      BY DEF Shape, Told
    <3>4. u[1] \in 0..posted
      BY <1>0, <3>3 DEF TypeOK
    <3> QED BY <1>3, <3>1, <3>2, <3>4, PrimeTo
  <2> QED BY <2>1, <2>2
<1>5. TablesType'
  <2>1. 0..posted \subseteq 0..posted' /\ 1..posted \subseteq 1..posted'
    BY <1>0, <1>2, BoundsAssumption DEF TypeOK, ChannelKept
  <2> QED BY <1>0, <1>2, <1>3, <1>4, <2>1 DEF TypeOK, ChannelKept, TablesType
<1>6. TasksType' /\ TasksWork' /\ TasksHold'
  <2>1. /\ sawStored' \in [Tasks -> Versions \union {Missing}]
        /\ sawCursor' \in [Tasks -> 0..posted]
        /\ published' \in [Tasks -> SUBSET own'] /\ batch' \subseteq batch
    BY <1>0, <1>2, <1>3 DEF TypeOK, ChannelKept, reads
  <2>2. pc' = [pc EXCEPT ![CatchUp] = pc'[CatchUp]]
    BY <1>3
  <2>3. "idle" \in CatchUpPc /\ "idle" \notin Busy
    BY DEF CatchUpPc, Pc, Busy
  <2>4. /\ pc'[CatchUp] \in (IF CatchUp = CatchUp THEN CatchUpPc ELSE Pc)
        /\ pc'[CatchUp] \notin {"execute", "commit"} /\ pc'[CatchUp] \notin Busy
        /\ writer' = writer /\ published'[CatchUp] = {}
    BY <1>3, <2>3
  <2> QED BY <1>0, <1>1, <1>2, <2>1, <2>2, <2>4, TaskTurns
<1> QED BY <1>2, <1>5, <1>6, ShapeParts

\* A delivery starts the task of its update.
LEMMA DeliverShape ==
    ASSUME Shape, NEW u \in Updates, Deliver(u)
    PROVE  Shape' /\ ChannelKept
<1>1. ChannelKept
  <2>1. feed' \subseteq feed /\ UNCHANGED <<history, posted, text, version, own>>
    BY DEF Deliver
  <2> QED BY <2>1, SameChannel
<1>2. u \in Tasks /\ Moves(u) /\ u # CatchUp /\ Told(u) /\ pc[u] # "commit"
  BY NamesAssumption DEF Deliver, Moves, Tasks, Shape
<1>3. Select(u) /\ UNCHANGED <<tables, writer, published, orders, faults>>
  BY DEF Deliver
<1> QED BY <1>1, <1>2, <1>3, LookUpShape

\* A crash stops the tasks and keeps the tables.
LEMMA CrashShape ==
    ASSUME Shape, Crash
    PROVE  Shape' /\ ChannelKept
<1>0. TypeOK
  BY DEF Shape
<1>1. ChannelKept
  BY SameChannel DEF Crash, channel
<1>2. TablesType'
  BY <1>1, SameTables DEF Crash, tables
<1>3. /\ pc' = [t \in Tasks |-> "idle"] /\ published' = [t \in Tasks |-> {}]
      /\ sawStored' = [t \in Tasks |-> Missing] /\ sawCursor' = [t \in Tasks |-> 0]
      /\ writer' = Nobody /\ batch' = {}
  BY DEF Crash
<1>4. 0 \in 0..posted'
  BY <1>0, <1>1, BoundsAssumption DEF TypeOK, ChannelKept
<1>5. TasksType' /\ TasksWork' /\ TasksHold'
  <2>1. TasksType'
    BY <1>3, <1>4 DEF TasksType, Tasks, CatchUpPc, Pc
  <2>2. TasksWork' /\ TasksHold'
    BY <1>3 DEF TasksWork, TasksHold, Tasks, Busy
  <2> QED BY <2>1, <2>2
<1> QED BY <1>1, <1>2, <1>5, ShapeParts

\* Nothing but the channel changes.
LEMMA ChannelShape ==
    ASSUME Shape, ChannelKept, UNCHANGED <<tables, writer, pc, reads, published, catchUp, orders, faults>>
    PROVE  Shape'
<1>0. TypeOK
  BY DEF Shape
<1>1. TablesType'
  BY SameTables DEF tables, catchUp
<1>2. TasksType'
  <2>1. 0..posted \subseteq 0..posted'
    BY <1>0, BoundsAssumption DEF TypeOK, ChannelKept
  <2> QED BY <1>0, <2>1 DEF TasksType, TypeOK, ChannelKept, reads
<1>3. TasksWork'
  <2>1. batch' = batch /\ pc' = pc
    BY DEF catchUp
  <2>2. \A u \in Updates : u \in batch' \/ pc'[u] # "idle" => Told(u)'
    BY <2>1, ToldRemains DEF Shape
  <2> QED BY <1>0, <2>1, <2>2 DEF TasksWork, Shape, TypeOK
<1>4. TasksHold'
  BY DEF TasksHold, Shape
<1> QED BY <1>1, <1>2, <1>3, <1>4, ShapeParts

\* Whatever happens, the shape and the channel are kept.
LEMMA ShapeStep ==
    ASSUME Shape, HistoryInv, [Next]_vars
    PROVE  Shape' /\ ChannelKept
<1>1. CASE Post
  BY <1>1, PostKeeps, ChannelShape DEF Post
<1>2. ASSUME NEW m \in Messages, Edit(m) PROVE Shape' /\ ChannelKept
  BY <1>2, EditKeeps, ChannelShape DEF Edit
<1>3. ASSUME NEW t \in Tasks, Moves(t) PROVE Shape' /\ ChannelKept
  BY <1>3, DeliverShape, HandleShape, FailShape, CatchUpShape, PrimeShape DEF Moves
<1>4. CASE Crash
  BY <1>4, CrashShape
<1>5. CASE UNCHANGED vars
  <2>1. ChannelKept
    BY <1>5, SameChannel DEF vars, channel
  <2> QED BY <1>5, <2>1, ChannelShape DEF vars
<1> QED BY <1>1, <1>2, <1>3, <1>4, <1>5, NextMoves

-----------------------------------------------------------------------------
(* The history of a channel is not replayed.                               *)

\* A message that cannot be replayed could not be before.
LEMMA SilentShrinks ==
    ASSUME Shape, ChannelKept
    PROVE  Silent' \subseteq Silent
<1>1. \A k \in Messages : version[k] = 1 => version'[k] = 1
  BY DEF Shape, TypeOK, ChannelKept, Versions
<1>2. 1..history \subseteq Messages /\ history' = history /\ history \in Nat
  BY BoundsAssumption DEF Shape, TypeOK, ChannelKept, Messages
<1>3. Replayable \subseteq Replayable'
  <2> SUFFICES ASSUME NEW m \in 1..history, NEW k \in 1..m, version[k] = 1
               PROVE  version'[k] = 1
    BY <1>2 DEF Replayable
  <2>1. k \in Messages
    BY <1>2, BoundsAssumption DEF Messages
  <2> QED BY <1>1, <2>1
<1> QED BY <1>2, <1>3 DEF Silent

\* Once the cursor has reached a message that may be analysed, it has passed
\* those that may not.
LEMMA SilentBelow ==
    ASSUME Shape, NEW m \in 1..posted, m \notin Silent, NEW q \in Silent
    PROVE  q <= m
<1>1. history \in Nat /\ posted \in Nat /\ q \in 1..history /\ q \notin Replayable
  BY BoundsAssumption DEF Shape, TypeOK, Silent
<1>2. CASE m > history
  BY <1>1, <1>2
<1>3. CASE m <= history
  <2>1. m \in Replayable
    BY <1>1, <1>3 DEF Silent
  <2>2. PICK k \in 1..m : version[k] = 1
    BY <2>1 DEF Replayable
  <2>3. q \notin Replayable => ~(k \in 1..q)
    BY <1>1, <2>2 DEF Replayable
  <2> QED BY <1>1, <2>2, <2>3
<1> QED BY <1>1, <1>2, <1>3

\* A task at work handles no message that history keeps silent.
LEMMA WorksAloud ==
    ASSUME Shape, HistoryInv, NEW t \in Tasks, pc[t] \in Busy
    PROVE  MessageOf(t) \notin Silent
<1>1. CASE t = CatchUp
  <2>1. UpdateOf(t) \in batch /\ pc[t] # "prime"
    BY <1>1, WorkerWorks DEF Busy
  <2> QED BY <1>1, <2>1 DEF HistoryInv, MessageOf
<1>2. CASE t # CatchUp
  <2>1. UpdateOf(t) = t /\ t \in Updates /\ pc[t] # "idle"
    BY <1>2, WorkerWorks DEF Tasks, Busy
  <2> QED BY <2>1 DEF HistoryInv, MessageOf
<1> QED BY <1>1, <1>2

PrimesPast ==
    \E u \in batch : u[1] >= history /\ \A w \in batch : w[1] <= u[1]
\* Where a cursor may be set.
PastSilent(c) == \A m \in Silent : m <= c

\* A step that hands no silent message to a task keeps history quiet.
LEMMA HistoryMove ==
    ASSUME Shape, ChannelKept, HistoryInv,
           \A u \in feed' : u \in feed \/ u[1] \notin Silent',
           \A u \in batch' : \/ u \in batch /\ (pc[CatchUp] = "prime" => pc'[CatchUp] = "prime")
                             \/ u[1] \notin Silent',
           \A u \in Updates : pc'[u] # "idle" => pc[u] # "idle" \/ u[1] \notin Silent',
           cursor' = cursor \/ PastSilent(cursor)',
           known' \in {known, 0, cursor},
           pc'[CatchUp] = "prime" =>
              (pc[CatchUp] = "prime" /\ batch' = batch) \/ PrimesPast',
           \A m \in Silent' : orders'[m] = orders[m]
    PROVE  HistoryInv'
<1>0. Silent' \subseteq Silent /\ history' = history
  BY SilentShrinks DEF ChannelKept
<1>1. \A u \in feed' : u[1] \notin Silent'
  BY <1>0 DEF HistoryInv
<1>2. \A u \in batch' : u[1] \notin Silent' \/ pc'[CatchUp] = "prime"
  BY <1>0 DEF HistoryInv
<1>3. \A u \in Updates : pc'[u] # "idle" => u[1] \notin Silent'
  BY <1>0 DEF HistoryInv
<1>4. cursor' > 0 => \A m \in Silent' : m <= cursor'
  BY <1>0 DEF HistoryInv, PastSilent
<1>5. known' > 0 => \A m \in Silent' : m <= known'
  BY <1>0 DEF HistoryInv
<1>6. pc'[CatchUp] = "prime" =>
          \E u \in batch' : u[1] >= history' /\ \A w \in batch' : w[1] <= u[1]
  BY <1>0 DEF HistoryInv, PrimesPast
<1>7. HistoryQuiet'
  BY <1>0 DEF HistoryInv, HistoryQuiet, Silent
<1> QED BY <1>1, <1>2, <1>3, <1>4, <1>5, <1>6, <1>7 DEF HistoryInv

\* A message posted after the history, or edited, may give an order.
LEMMA NewAloud ==
    ASSUME Shape, ChannelKept
    PROVE  /\ \A u : u[1] = posted + 1 => u[1] \notin Silent
           /\ \A m \in 1..posted : version'[m] = 1 => m \notin Silent'
<1>1. history \in Nat /\ posted \in Nat /\ history <= posted /\ history' = history
  BY BoundsAssumption DEF Shape, TypeOK, ChannelKept
<1>2. \A u : u[1] = posted + 1 => u[1] \notin Silent
  BY <1>1 DEF Silent
<1>3. ASSUME NEW m \in 1..posted, version'[m] = 1 PROVE m \notin Silent'
  <2>1. m \in 1..m
    BY <1>1
  <2> QED BY <1>1, <1>3, <2>1 DEF Silent, Replayable
<1> QED BY <1>2, <1>3

\* Nothing of the history is handed to a task at first.
LEMMA HistoryInit == Init => HistoryInv
<1> SUFFICES ASSUME Init PROVE HistoryInv
  OBVIOUS
<1>1. \A u \in Updates : pc[u] = "idle"
  BY DEF Init, Tasks
<1>2. pc[CatchUp] = "idle" /\ feed = {} /\ batch = {} /\ cursor = 0 /\ known = 0
  BY DEF Init, Tasks
<1>3. HistoryQuiet
  <2>1. 1..history \subseteq Messages
    BY BoundsAssumption DEF Init, Messages
  <2> QED BY <2>1 DEF HistoryQuiet, Init
<1> QED BY <1>1, <1>2, <1>3 DEF HistoryInv

\* A look at the table changes neither the cursor nor an order.
LEMMA LookUpHistory ==
    ASSUME Shape, Shape', ChannelKept, HistoryInv, NEW t \in Tasks, Moves(t), Select(t),
           MessageOf(t) \in Messages,
           pc[t] # "prime",
           t \in Updates => t \in feed,
           feed' \subseteq feed, cursor' = cursor, orders' = orders
    PROVE  HistoryInv'
<1>0. TypeOK /\ Silent' \subseteq Silent
  BY SilentShrinks DEF Shape
<1>1. /\ batch' \subseteq batch /\ known' = known
      /\ pc'[CatchUp] = "prime" => pc[CatchUp] = "prime"
      /\ \A s \in Tasks \ {t} : pc'[s] = pc[s]
      /\ t # CatchUp => batch' = batch
  BY <1>0, SelectEffect DEF TypeOK, Tasks
<1>2. \A u \in batch' : \/ u \in batch /\ (pc[CatchUp] = "prime" => pc'[CatchUp] = "prime")
                        \/ u[1] \notin Silent'
  BY <1>1 DEF Tasks
<1>3. \A u \in Updates : pc'[u] # "idle" => pc[u] # "idle" \/ u[1] \notin Silent'
  BY <1>0, <1>1 DEF HistoryInv, Tasks
<1>4. pc'[CatchUp] = "prime" => pc[CatchUp] = "prime" /\ batch' = batch
  BY <1>1
<1> QED BY <1>1, <1>2, <1>3, <1>4, HistoryMove

\* The handling of a message hands over no other one.
LEMMA HandleHistory ==
    ASSUME Shape, HistoryInv, NEW t \in Tasks, HandleStep(t) \/ Fail(t), ChannelKept
    PROVE  HistoryInv'
<1>0. TypeOK /\ Silent' \subseteq Silent /\ Moves(t)
  BY SilentShrinks DEF Shape, Moves
<1>1. OthersKept(t) /\ (t # CatchUp => batch' = batch)
  BY <1>0, MovesAlone
<1>2. /\ pc'[t] # "prime" /\ pc[t] # "idle" /\ (t # CatchUp => pc[t] # "prime")
      /\ batch' \subseteq batch /\ known' \in {known, 0}
      /\ t = CatchUp /\ pc[t] = "prime" => batch' = {}
  <2>0. pc[t] # "prime" \/ t = CatchUp
    BY <1>0 DEF TypeOK, Tasks, Pc
  <2>1. CASE Finish(t)
    <3>1. pc'[t] \in {"next", "idle"} /\ batch' \subseteq batch /\ known' = known
      BY <1>0, <2>1, FinishEffect
    <3>2. pc[t] # "idle"
      BY DEF HandleStep, Store, Check, Insert, Execute, Commit, Fail
    <3>3. t = CatchUp /\ pc[t] = "prime" => batch' = {}
      BY DEF HandleStep, Store, Check, Insert, Execute, Commit, Fail
    <3> QED BY <2>0, <3>1, <3>2, <3>3
  <2>2. CASE ~Finish(t) /\ HandleStep(t)
    <3>1. UNCHANGED catchUp /\ pc[t] \in Busy /\ pc'[t] \in Busy
      BY <1>0, <2>2 DEF HandleStep, Store, Check, Insert, Execute, Commit, Goto, Busy, TypeOK
    <3> QED BY <3>1 DEF catchUp, Busy
  <2>3. CASE ~Finish(t) /\ Fail(t)
    <3>1. t = CatchUp /\ Goto(t, "idle") /\ batch' = {} /\ known' = 0 /\ pc[t] # "idle"
      BY <2>3 DEF Fail
    <3> QED BY <1>0, <3>1 DEF Goto, TypeOK
  <2> QED BY <2>1, <2>2, <2>3
<1>3. \A u \in feed' : u \in feed \/ u[1] \notin Silent'
  <2>1. CASE Announce(t)
    <3>1. feed' \subseteq feed \union {<<posted + 1, 0>>}
      BY <2>1 DEF Announce
    <3>2. \A u \in feed' : u \in feed \/ u[1] = posted + 1
      BY <3>1
    <3> QED BY <1>0, <3>2, NewAloud
  <2>2. CASE ~Announce(t)
    <3>1. UNCHANGED channel
      BY <2>2 DEF HandleStep, Store, Check, Insert, Execute, Commit, Fail, channel
    <3> QED BY <3>1 DEF channel
  <2> QED BY <2>1, <2>2
<1>4. cursor' = cursor \/ PastSilent(cursor)'
  <2>1. CASE Store(t) /\ cursor' # cursor
    <3>1. cursor' = MessageOf(t) /\ pc[t] \in Busy
      BY <2>1 DEF Store, Busy
    <3>2. MessageOf(t) \in 1..posted /\ MessageOf(t) \notin Silent
      BY <3>1, WorkerWorks, WorksAloud
    <3>3. \A q \in Silent : q <= MessageOf(t)
      BY <3>2, SilentBelow
    <3> QED BY <1>0, <3>1, <3>3 DEF PastSilent
  <2>2. CASE ~Store(t)
    BY <2>2 DEF HandleStep, Check, Insert, Execute, Commit, Fail, tables
  <2> QED BY <2>1, <2>2
<1>5. \A m \in Silent' : orders'[m] = orders[m]
  <2>1. CASE Execute(t)
    <3>1. pc[t] \in Busy
      BY <2>1 DEF Execute, Busy
    <3>2. MessageOf(t) \notin Silent
      BY <3>1, WorksAloud
    <3>3. orders' = orders \/ orders' = [orders EXCEPT ![MessageOf(t)] = @ + 1]
      BY <2>1 DEF Execute
    <3>4. Silent \subseteq Messages
      BY <1>0, BoundsAssumption DEF Silent, TypeOK, Messages
    <3> QED BY <1>0, <3>2, <3>3, <3>4 DEF TypeOK
  <2>2. CASE ~Execute(t)
    BY <2>2 DEF HandleStep, Store, Check, Insert, Commit, Fail
  <2> QED BY <2>1, <2>2
<1>6. \A u \in batch' : \/ u \in batch /\ (pc[CatchUp] = "prime" => pc'[CatchUp] = "prime")
                        \/ u[1] \notin Silent'
  <2>1. CASE t = CatchUp
    BY <1>2, <2>1
  <2>2. CASE t # CatchUp
    BY <1>1, <2>2 DEF OthersKept, Tasks
  <2> QED BY <2>1, <2>2
<1>7. \A u \in Updates : pc'[u] # "idle" => pc[u] # "idle" \/ u[1] \notin Silent'
  BY <1>1, <1>2 DEF OthersKept, Tasks
<1>8. pc'[CatchUp] = "prime" => pc[CatchUp] = "prime" /\ batch' = batch
  BY <1>1, <1>2 DEF OthersKept, Tasks
<1> QED BY <1>2, <1>3, <1>4, <1>5, <1>6, <1>7, <1>8, HistoryMove

\* The catch-up starts after the history it primes its cursor with.
LEMMA CatchUpHistory ==
    ASSUME Shape, Shape', HistoryInv, ChannelKept, BeginCatchUp \/ Fetch \/ Prime \/ NextMessage
    PROVE  HistoryInv'
<1>0. /\ TypeOK /\ Silent' \subseteq Silent /\ history' = history
      /\ Moves(CatchUp) /\ CatchUp \in Tasks /\ CatchUp \notin Updates
  BY NamesAssumption, SilentShrinks DEF Shape, Moves, Tasks, ChannelKept
<1>1. OthersKept(CatchUp)
  BY <1>0, MovesAlone
<1>2. UNCHANGED <<channel, orders>> /\ feed' = feed
  BY DEF BeginCatchUp, Fetch, Prime, NextMessage, channel
<1>3. \A u \in Updates : pc'[u] # "idle" => pc[u] # "idle" \/ u[1] \notin Silent'
  BY <1>0, <1>1 DEF OthersKept, Tasks
<1>4. CASE BeginCatchUp
  <2>1. /\ UNCHANGED <<tables, batch>> /\ known' = cursor /\ pc[CatchUp] = "idle"
        /\ pc'[CatchUp] = "fetch"
    BY <1>0, <1>4 DEF BeginCatchUp, Goto, TypeOK
  <2> QED BY <1>2, <1>3, <2>1, HistoryMove DEF tables
<1>5. CASE Fetch
  <2>1. /\ UNCHANGED tables /\ known' = 0 /\ pc[CatchUp] = "fetch"
        /\ batch' = {<<m, version[m]>> : m \in Unread}
        /\ pc'[CatchUp] = IF known > 0 THEN "next"
                          ELSE IF Latest = {} THEN "idle" ELSE "prime"
    BY <1>0, <1>5 DEF Fetch, Goto, TypeOK
  <2>2. known \in Nat /\ posted \in Nat /\ Limit \in Nat /\ Limit >= 1 /\ history <= posted
        /\ history \in Nat
    BY <1>0, BoundsAssumption DEF TypeOK
  <2>3. CASE known > 0
    <3>1. \A u \in batch' : u[1] \notin Silent
      <4> SUFFICES ASSUME NEW m \in Unread PROVE m \notin Silent
        BY <2>1
      <4> QED BY <2>2, <2>3 DEF Unread, Latest, HistoryInv, Silent
    <3> QED BY <1>0, <1>2, <1>3, <2>1, <2>3, <3>1, HistoryMove DEF tables
  <2>4. CASE known = 0
    <3>1. Unread = Latest
      BY <2>2, <2>4 DEF Unread, Latest
    <3>2. CASE Latest = {}
      <4>1. batch' = {} /\ pc'[CatchUp] = "idle"
        BY <2>1, <2>4, <3>1, <3>2
      <4> QED BY <1>2, <1>3, <2>1, <4>1, HistoryMove DEF tables
    <3>3. CASE Latest # {}
      <4>1. posted \in Latest /\ \A m \in Latest : m <= posted
        BY <2>2, <3>3 DEF Latest
      <4>2. <<posted, version[posted]>> \in batch' /\ \A w \in batch' : w[1] <= posted
        BY <2>1, <3>1, <4>1
      <4>3. PrimesPast'
        <5>1. <<posted, version[posted]>>[1] >= history'
          BY <1>0, <2>2
        <5>2. \A w \in batch' : w[1] <= <<posted, version[posted]>>[1]
          BY <4>2
        <5> QED BY <4>2, <5>1, <5>2 DEF PrimesPast
      <4>4. pc'[CatchUp] = "prime"
        BY <2>1, <2>4, <3>3
      <4>5. HistoryInv'
        <5>1. \A u \in feed' : u[1] \notin Silent'
          BY <1>0, <1>2 DEF HistoryInv
        <5>2. \A u \in Updates : pc'[u] # "idle" => u[1] \notin Silent'
          BY <1>0, <1>3 DEF HistoryInv
        <5>3. cursor' > 0 => \A m \in Silent' : m <= cursor'
          BY <1>0, <2>1 DEF HistoryInv, tables
        <5>4. HistoryQuiet'
          BY <1>0, <1>2 DEF HistoryInv, HistoryQuiet, Silent
        <5> QED BY <2>1, <4>3, <4>4, <5>1, <5>2, <5>3, <5>4 DEF HistoryInv, PrimesPast
      <4> QED BY <4>5
    <3> QED BY <3>2, <3>3
  <2> QED BY <2>2, <2>3, <2>4
<1>6. CASE Prime
  <2>1. batch' = {} /\ known' = known /\ pc[CatchUp] = "prime" /\ pc'[CatchUp] = "idle"
    BY <1>0, <1>6 DEF Prime, Goto, TypeOK
  <2>2. cursor' = cursor \/ PastSilent(cursor)'
    <3>1. PICK u \in batch : u[1] >= history /\ \A w \in batch : w[1] <= u[1]
      BY <2>1 DEF HistoryInv
    <3>2. cursor' = cursor \/ cursor' = Max({w[1] : w \in batch})
      BY <1>6 DEF Prime
    <3>3. CASE cursor' = Max({w[1] : w \in batch})
      <4>1. cursor' = u[1] /\ u[1] \in 1..posted
        BY <2>1, <3>1, <3>3, PrimeTo DEF Shape, Told
      <4>2. \A q \in Silent' : q <= cursor'
        BY <1>0, <3>1, <4>1, BoundsAssumption DEF Silent, TypeOK
      <4> QED BY <4>2 DEF PastSilent
    <3> QED BY <3>2, <3>3
  <2> QED BY <1>2, <1>3, <2>1, <2>2, HistoryMove
<1>7. CASE NextMessage
  <2>1. pc[CatchUp] = "next" /\ UNCHANGED tables
    BY <1>7 DEF NextMessage
  <2>2. CASE batch # {}
    <3>1. Select(CatchUp) /\ MessageOf(CatchUp) \in Messages
      BY <1>0, <1>7, <2>2, WorksOnMessage DEF NextMessage
    <3> QED BY <1>0, <1>2, <2>1, <3>1, LookUpHistory DEF tables
  <2>3. CASE batch = {}
    <3>1. UNCHANGED catchUp /\ pc'[CatchUp] = "idle"
      BY <1>0, <1>7, <2>3 DEF NextMessage, Goto, TypeOK
    <3> QED BY <1>2, <1>3, <2>1, <3>1, HistoryMove DEF tables, catchUp
  <2> QED BY <2>2, <2>3
<1> QED BY <1>4, <1>5, <1>6, <1>7

\* The history remains silent, whatever happens.
LEMMA HistoryStep ==
    ASSUME Shape, HistoryInv, [Next]_vars
    PROVE  Shape' /\ ChannelKept /\ HistoryInv'
<1>0. Shape' /\ ChannelKept
  BY ShapeStep
<1>1. Silent' \subseteq Silent /\ history' = history /\ TypeOK
  BY <1>0, SilentShrinks DEF ChannelKept, Shape
<1>2. CASE Post \/ (\E m \in Messages : Edit(m)) \/ UNCHANGED vars
  <2>1. UNCHANGED <<tables, pc, catchUp, orders>>
    BY <1>2 DEF Post, Edit, vars
  <2>2. \A u \in feed' : u \in feed \/ u[1] \notin Silent'
    <3>1. CASE Post
      <4>1. \A u \in feed' : u \in feed \/ u[1] = posted + 1
        BY <3>1 DEF Post
      <4> QED BY <1>0, <1>1, <4>1, NewAloud
    <3>2. ASSUME NEW m \in Messages, Edit(m) PROVE \A u \in feed' : u \in feed \/ u[1] \notin Silent'
      <4>1. m \in 1..posted /\ version'[m] = 1
        BY <1>1, <3>2 DEF Edit, TypeOK
      <4>2. \A u \in feed' : u \in feed \/ u[1] = m
        BY <3>2 DEF Edit
      <4> QED BY <1>0, <4>1, <4>2, NewAloud
    <3>3. CASE UNCHANGED vars
      BY <3>3 DEF vars, channel
    <3> QED BY <1>2, <3>1, <3>2, <3>3
  <2> QED BY <1>0, <2>1, <2>2, HistoryMove DEF tables, catchUp
<1>3. ASSUME NEW t \in Tasks, Moves(t) PROVE HistoryInv'
  <2>1. CASE t \in Updates /\ Deliver(t)
    <3>1. /\ Select(t) /\ feed' \subseteq feed /\ t \in feed /\ UNCHANGED <<tables, orders>>
          /\ pc[t] = "idle" /\ t # CatchUp /\ Told(t)
      BY <2>1, NamesAssumption DEF Deliver, Shape
    <3>2. MessageOf(t) \in Messages
      BY <3>1, WorksOnMessage
    <3> QED BY <1>0, <1>3, <3>1, <3>2, LookUpHistory DEF tables
  <2>2. CASE HandleStep(t) \/ Fail(t)
    BY <1>0, <2>2, HandleHistory
  <2>3. CASE BeginCatchUp \/ Fetch \/ Prime \/ NextMessage
    BY <1>0, <2>3, CatchUpHistory
  <2> QED BY <1>3, <2>1, <2>2, <2>3 DEF Moves
<1>4. CASE Crash
  <2>1. /\ UNCHANGED <<channel, tables, primed, orders>> /\ batch' = {} /\ known' = 0
        /\ pc'[CatchUp] = "idle" /\ \A u \in Updates : pc'[u] = "idle"
    BY <1>4 DEF Crash, Tasks
  <2> QED BY <1>0, <2>1, HistoryMove DEF channel, tables
<1> QED BY <1>0, <1>2, <1>3, <1>4, NextMoves

\* Activating a channel replays none of its history, but what an edit of it
\* brings back.
THEOREM HistoryStaysQuiet == Spec => []HistoryQuiet
<1>1. Init => Shape /\ HistoryInv
  BY ShapeInit, HistoryInit
<1>2. Shape /\ HistoryInv /\ [Next]_vars => Shape' /\ HistoryInv'
  BY HistoryStep
<1>3. HistoryInv => HistoryQuiet
  BY DEF HistoryInv
<1> QED BY <1>1, <1>2, <1>3, PTL DEF Spec

-----------------------------------------------------------------------------
(* A message that nobody edited gives one order.                           *)

\* A message that is original was so before.
LEMMA OriginalBefore ==
    ASSUME Shape, ChannelKept, NEW m \in Messages, Original(m)'
    PROVE  Original(m)
BY DEF Shape, TypeOK, ChannelKept, Original, Versions

\* One task moves: it looks a message up, is the first to store it, goes on with
\* it, orders, or ends.
LEMMA OnceMove ==
    ASSUME Shape, ChannelKept, OnceInv, NEW t \in Tasks, OthersKept(t),
           pc'[t] \in Busy => UpdateOf(t)' = UpdateOf(t) /\ MessageOf(t) \in Messages,
           pc'[t] = "store" /\ Original(MessageOf(t)) => sawStored'[t] = Missing,
           pc'[t] \in MayOrder /\ Original(MessageOf(t)) =>
              /\ stored'[MessageOf(t)] # Missing
              /\ pc[t] \in MayOrder \/ stored[MessageOf(t)] = Missing,
           \A m \in Messages : stored[m] # Missing => stored'[m] # Missing,
           \A m \in Messages :
              \/ orders'[m] = orders[m]
              \/ /\ pc[t] \in MayOrder /\ pc'[t] \notin MayOrder
                 /\ m = MessageOf(t) /\ orders'[m] = orders[m] + 1
    PROVE  OnceInv'
<1>0. TypeOK /\ \A s \in Tasks : pc[s] \in Busy => MessageOf(s) \in Messages
  BY WorkerWorks DEF Shape
<1>1. \A s \in Tasks : pc'[s] \in Busy =>
         MessageOf(s)' = MessageOf(s) /\ MessageOf(s) \in Messages
  BY <1>0 DEF OthersKept, MessageOf
<1>2. \A m \in Messages : Original(m)' => Original(m)
  BY OriginalBefore
<1>3. \A s \in Tasks : pc'[s] \in Busy /\ Original(MessageOf(s))' => Original(MessageOf(s))
  <2> SUFFICES ASSUME NEW s \in Tasks, pc'[s] \in Busy, Original(MessageOf(s))'
               PROVE  Original(MessageOf(s))
    OBVIOUS
  <2>1. version'[MessageOf(s)] = 0
    BY <1>1 DEF Original
  <2>2. Original(MessageOf(s)) \/ version'[MessageOf(s)] # 0
    BY <1>1, <1>2 DEF Original
  <2> QED BY <2>1, <2>2
<1>4. ASSUME NEW s \in Tasks PROVE InsertsFirst(s)'
  <2>1. CASE s = t
    BY <1>1, <1>3, <2>1 DEF InsertsFirst, Busy
  <2>2. CASE s # t
    BY <1>1, <1>3, <2>2 DEF InsertsFirst, Busy, OthersKept, OnceInv
  <2> QED BY <2>1, <2>2
<1>5. ASSUME NEW s \in Tasks PROVE OrdersFirst(s)'
  <2> SUFFICES ASSUME pc'[s] \in MayOrder, Original(MessageOf(s))'
               PROVE  stored'[MessageOf(s)'] # Missing /\ orders'[MessageOf(s)'] = 0
    BY DEF OrdersFirst
  <2>1. /\ pc'[s] \in Busy /\ MessageOf(s)' = MessageOf(s) /\ MessageOf(s) \in Messages
        /\ Original(MessageOf(s))
    BY <1>1, <1>3 DEF Busy, MayOrder
  <2>2. CASE s = t
    <3>1. orders[MessageOf(t)] = 0
      BY <2>1, <2>2 DEF OnceInv, OrdersFirst
    <3> QED BY <2>1, <2>2, <3>1
  <2>3. CASE s # t
    <3>1. pc[s] \in MayOrder
      BY <2>3 DEF OthersKept
    <3>2. stored[MessageOf(s)] # Missing /\ orders[MessageOf(s)] = 0
      BY <2>1, <3>1 DEF OnceInv, OrdersFirst
    <3>3. pc[t] \in MayOrder => MessageOf(t) # MessageOf(s)
      BY <2>1, <2>3, <3>1 DEF OnceInv, OrdersAlone
    <3> QED BY <2>1, <3>2, <3>3
  <2> QED BY <2>2, <2>3
<1>6. ASSUME NEW r \in Tasks, NEW s \in Tasks PROVE OrdersAlone(r, s)'
  <2> SUFFICES ASSUME pc'[r] \in MayOrder, pc'[s] \in MayOrder, r # s,
                      MessageOf(r)' = MessageOf(s)', Original(MessageOf(r))'
               PROVE  FALSE
    BY DEF OrdersAlone
  <2>1. /\ MessageOf(r)' = MessageOf(r) /\ MessageOf(s)' = MessageOf(s)
        /\ Original(MessageOf(r)) /\ MessageOf(r) = MessageOf(s)
    BY <1>1, <1>3 DEF Busy, MayOrder
  <2>2. PICK q \in {r, s} : q # t
    OBVIOUS
  <2>3. pc[q] \in MayOrder
    BY <2>2 DEF OthersKept
  <2>4. stored[MessageOf(q)] # Missing /\ Original(MessageOf(q))
    BY <2>1, <2>2, <2>3 DEF OnceInv, OrdersFirst
  <2>5. CASE r # t /\ s # t
    BY <2>1, <2>5 DEF OthersKept, OnceInv, OrdersAlone
  <2>6. CASE r = t \/ s = t
    <3>1. MessageOf(t) = MessageOf(q) /\ pc'[t] \in MayOrder
      BY <2>1, <2>2, <2>6
    <3>2. pc[t] \in MayOrder
      BY <2>4, <3>1
    <3>3. OrdersAlone(t, q)
      BY DEF OnceInv
    <3> QED BY <2>2, <2>3, <2>4, <3>1, <3>2, <3>3 DEF OrdersAlone
  <2> QED BY <2>5, <2>6
<1>7. ASSUME NEW m \in Messages, Original(m)'
      PROVE  (stored'[m] = Missing => orders'[m] = 0) /\ orders'[m] <= 1
  <2>1. Original(m) /\ orders[m] \in Nat
    BY <1>0, <1>2, <1>7 DEF TypeOK
  <2>2. CASE orders'[m] = orders[m]
    BY <2>1, <2>2 DEF OnceInv
  <2>3. CASE orders'[m] # orders[m]
    <3>1. pc[t] \in MayOrder /\ m = MessageOf(t) /\ orders'[m] = orders[m] + 1
      BY <2>3
    <3>2. stored[m] # Missing /\ orders[m] = 0
      BY <2>1, <3>1 DEF OnceInv, OrdersFirst
    <3> QED BY <3>1, <3>2
  <2> QED BY <2>2, <2>3
<1> QED BY <1>4, <1>5, <1>6, <1>7 DEF OnceInv

\* No order is sent at first.
LEMMA OnceInit == Init => OnceInv
<1> SUFFICES ASSUME Init PROVE OnceInv
  OBVIOUS
<1>1. \A t \in Tasks : pc[t] = "idle"
  BY DEF Init
<1> QED BY <1>1 DEF Init, OnceInv, InsertsFirst, OrdersFirst, OrdersAlone, MayOrder

\* Nobody moves, or everybody is lost.
LEMMA OnceSame ==
    ASSUME Shape, ChannelKept, OnceInv, UNCHANGED <<stored, orders>>,
           \/ UNCHANGED <<pc, sawStored, batch>>
           \/ \A t \in Tasks : pc'[t] = "idle"
    PROVE  OnceInv'
<1>0. \A s \in Tasks : pc[s] \in Busy => MessageOf(s) \in Messages
  BY WorkerWorks
<1>1. \A m \in Messages : Original(m)' => Original(m)
  BY OriginalBefore
<1>2. \A m \in Messages : version'[m] = 0 => version[m] = 0
  BY <1>1 DEF Original
<1>3. CASE \A t \in Tasks : pc'[t] = "idle"
  BY <1>2, <1>3 DEF OnceInv, InsertsFirst, OrdersFirst, OrdersAlone, MayOrder, Original
<1>4. CASE UNCHANGED <<pc, sawStored, batch>>
  <2>1. \A s \in Tasks : MessageOf(s)' = MessageOf(s)
    BY <1>4, OldestKept DEF MessageOf, UpdateOf
  <2>2. \A s \in Tasks : InsertsFirst(s)'
    BY <1>0, <1>2, <1>4, <2>1 DEF OnceInv, InsertsFirst, Original, Busy
  <2>3. \A s \in Tasks : OrdersFirst(s)'
    BY <1>0, <1>2, <1>4, <2>1 DEF OnceInv, OrdersFirst, Original, Busy, MayOrder
  <2>4. \A r, s \in Tasks : OrdersAlone(r, s)'
    BY <1>0, <1>2, <1>4, <2>1 DEF OnceInv, OrdersAlone, Original, Busy, MayOrder
  <2> QED BY <1>2, <2>2, <2>3, <2>4 DEF OnceInv, Original
<1> QED BY <1>3, <1>4

\* Looking up a message that nobody edited, a task goes on only if it has no row.
LEMMA LookUpOnce ==
    ASSUME Shape, ChannelKept, OnceInv, NEW t \in Tasks, Moves(t), Select(t),
           t = CatchUp => batch # {},
           t # CatchUp => Told(t),
           UNCHANGED <<stored, orders>>
    PROVE  OnceInv'
<1>0. TypeOK /\ OthersKept(t)
  BY MovesAlone DEF Shape
<1>1. /\ MessageOf(t) \in Messages /\ VersionOf(t) \in Versions
      /\ VersionOf(t) <= version[MessageOf(t)]
  BY WorksOnMessage
<1>2. CASE IsDuplicate(t)
  <2>1. pc'[t] \notin Busy
    BY <1>0, <1>2, FinishEffect DEF Select, Busy
  <2> QED BY <1>0, <2>1, OnceMove DEF Busy, MayOrder
<1>3. CASE ~IsDuplicate(t)
  <2>1. /\ pc'[t] = "store" /\ batch' = batch /\ sawStored'[t] = stored[MessageOf(t)]
    BY <1>0, <1>3 DEF Select, Goto, TypeOK, catchUp
  <2>2. UpdateOf(t)' = UpdateOf(t)
    BY <2>1, OldestKept DEF UpdateOf
  <2>3. Original(MessageOf(t)) => sawStored'[t] = Missing
    <3>1. Original(MessageOf(t)) => VersionOf(t) = 0
      BY <1>1 DEF Original, Versions
    <3> QED BY <1>3, <2>1, <3>1 DEF IsDuplicate
  <2> QED BY <1>0, <1>1, <2>1, <2>2, <2>3, OnceMove DEF MayOrder
<1> QED BY <1>2, <1>3

\* The handling of an original message sends one order at most.
LEMMA HandleOnce ==
    ASSUME Shape, ChannelKept, OnceInv, NEW t \in Tasks, HandleStep(t)
    PROVE  OnceInv'
<1>0. TypeOK /\ Moves(t) /\ OthersKept(t) /\ pc[t] \in Busy
  BY MovesAlone DEF Shape, Moves, HandleStep, Store, Check, Insert, Execute, Commit, Busy
<1>1. MessageOf(t) \in Messages /\ VersionOf(t) \in Versions
  BY <1>0, WorkerWorks
<1>2. CASE Finish(t) /\ ~Store(t)
  <2>1. pc'[t] \notin Busy
    BY <1>0, <1>2, FinishEffect DEF Busy
  <2>2. UNCHANGED <<stored, orders>>
    <3>1. ~Execute(t)
      BY <1>0, <2>1 DEF Execute, Goto, TypeOK, Busy
    <3> QED BY <1>2, <3>1 DEF HandleStep, Check, Insert, Commit, tables
  <2> QED BY <1>0, <2>1, <2>2, OnceMove DEF Busy, MayOrder
<1>3. CASE Store(t)
  <2>1. UNCHANGED orders /\ pc[t] = "store"
    BY <1>3 DEF Store
  <2>2. \/ pc'[t] \notin Busy
        \/ pc'[t] = "check" /\ batch' = batch /\ ~Refused(t)
    BY <1>0, <1>3, FinishEffect DEF Store, Goto, TypeOK, Busy, catchUp
  <2>3. \/ stored' = stored
        \/ stored' = [stored EXCEPT ![MessageOf(t)] = VersionOf(t)]
    BY <1>3 DEF Store
  <2>4. \A m \in Messages : stored[m] # Missing => stored'[m] # Missing
    BY <1>0, <1>1, <2>3 DEF TypeOK, Versions, Missing
  <2>5. CASE pc'[t] \notin Busy
    BY <1>0, <2>1, <2>4, <2>5, OnceMove DEF Busy, MayOrder
  <2>6. CASE pc'[t] = "check" /\ batch' = batch /\ ~Refused(t)
    <3>1. UpdateOf(t)' = UpdateOf(t)
      BY <2>6, OldestKept DEF UpdateOf
    <3>2. stored'[MessageOf(t)] = VersionOf(t)
      BY <1>0, <1>1, <1>3, <2>6 DEF Store, TypeOK
    <3>3. stored'[MessageOf(t)] # Missing
      BY <1>1, <3>2 DEF Versions, Missing
    <3>4. Original(MessageOf(t)) => stored[MessageOf(t)] = Missing
      BY <2>1, <2>6 DEF OnceInv, InsertsFirst, Refused
    <3> QED BY <1>0, <1>1, <2>1, <2>4, <2>6, <3>1, <3>3, <3>4, OnceMove DEF MayOrder
  <2> QED BY <2>2, <2>5, <2>6
<1>4. CASE ~Finish(t) /\ ~Store(t)
  <2>1. UNCHANGED <<stored, catchUp>> /\ pc[t] \in MayOrder
    BY <1>4 DEF HandleStep, Check, Insert, Execute, Commit, tables, MayOrder
  <2>2. \/ pc'[t] \in MayOrder /\ orders' = orders
        \/ /\ pc'[t] = "commit"
           /\ orders' = orders \/ orders' = [orders EXCEPT ![MessageOf(t)] = @ + 1]
    BY <1>0, <1>4 DEF HandleStep, Check, Insert, Execute, Commit, Goto, TypeOK, MayOrder
  <2>3. UpdateOf(t)' = UpdateOf(t)
    BY <2>1, OldestKept DEF UpdateOf, catchUp
  <2>4. Original(MessageOf(t)) => stored[MessageOf(t)] # Missing
    BY <2>1 DEF OnceInv, OrdersFirst
  <2>5. \A m \in Messages :
           \/ orders'[m] = orders[m]
           \/ /\ pc[t] \in MayOrder /\ pc'[t] \notin MayOrder
              /\ m = MessageOf(t) /\ orders'[m] = orders[m] + 1
    BY <1>0, <1>1, <2>1, <2>2 DEF TypeOK, MayOrder
  <2>6. pc'[t] # "store"
    BY <2>2 DEF MayOrder
  <2> QED BY <1>0, <1>1, <2>1, <2>3, <2>4, <2>5, <2>6, OnceMove
<1> QED BY <1>2, <1>3, <1>4

\* Every step keeps one order at most for each original message.
LEMMA OnceStep ==
    ASSUME Shape, HistoryInv, OnceInv, [Next]_vars
    PROVE  OnceInv'
<1>0. TypeOK /\ ChannelKept
  BY ShapeStep DEF Shape
<1>1. CASE Post \/ (\E m \in Messages : Edit(m)) \/ UNCHANGED vars
  BY <1>0, <1>1, OnceSame DEF Post, Edit, vars, tables, reads, catchUp
<1>2. ASSUME NEW t \in Tasks, Moves(t) PROVE OnceInv'
  <2>0. OthersKept(t)
    BY <1>2, MovesAlone
  <2>1. CASE t \in Updates /\ Deliver(t)
    <3>1. Select(t) /\ UNCHANGED <<stored, orders>> /\ t # CatchUp /\ Told(t)
      BY <2>1, NamesAssumption DEF Deliver, Shape, tables
    <3> QED BY <1>0, <1>2, <3>1, LookUpOnce
  <2>2. CASE HandleStep(t)
    BY <1>0, <2>2, HandleOnce
  <2>3. CASE Fail(t)
    <3>1. UNCHANGED <<stored, orders>> /\ pc'[t] \notin Busy
      BY <1>0, <2>3, FinishEffect DEF Fail, tables, Goto, TypeOK, Busy
    <3> QED BY <1>0, <2>0, <3>1, OnceMove DEF Busy, MayOrder
  <2>4. CASE t = CatchUp /\ (BeginCatchUp \/ Fetch \/ Prime \/ (NextMessage /\ batch = {}))
    <3>1. UNCHANGED <<stored, orders>> /\ pc'[t] \notin Busy
      BY <1>0, <2>4 DEF BeginCatchUp, Fetch, Prime, NextMessage, tables, Goto, TypeOK, Busy
    <3> QED BY <1>0, <2>0, <3>1, OnceMove DEF Busy, MayOrder
  <2>5. CASE t = CatchUp /\ NextMessage /\ batch # {}
    <3>1. Select(t) /\ UNCHANGED <<stored, orders>>
      BY <2>5 DEF NextMessage, tables
    <3> QED BY <1>0, <1>2, <2>5, <3>1, LookUpOnce
  <2> QED BY <1>2, <2>1, <2>2, <2>3, <2>4, <2>5 DEF Moves
<1>3. CASE Crash
  BY <1>0, <1>3, OnceSame DEF Crash, tables
<1> QED BY <1>1, <1>2, <1>3, NextMoves

-----------------------------------------------------------------------------
(* Without a failure, an edited message gives one order too: the row of the *)
(* signal, under its unique key, is visible before the writer is free.      *)

\* No row and no order exist at first.
LEMMA KeyInit == Init => KeyInv
BY DEF Init, KeyInv, KeyIsFree

\* Who waits keeps its message, and the writer its rows, while another moves.
LEMMA WriterStays ==
    ASSUME Shape, NEW t \in Tasks, OthersKept(t),
           writer' \in {writer, t} \/ (writer = t /\ writer' = Nobody),
           writer' # writer => writer \in {Nobody, t},
           writer \in Tasks, writer # t
    PROVE  /\ writer' = writer /\ pc'[writer] = pc[writer]
           /\ published'[writer] = published[writer]
           /\ MessageOf(writer)' = MessageOf(writer)
<1>1. writer' = writer
  BY NamesAssumption
<1>2. UpdateOf(writer)' = UpdateOf(writer)
  <2>1. \A s \in Tasks \ {t} : UpdateOf(s)' = UpdateOf(s)
    BY DEF OthersKept
  <2> QED BY <1>1, <2>1
<1> QED BY <1>1, <1>2 DEF OthersKept, MessageOf

\* A step that sends an order only with the writer and a fresh key, and
\* commits the key before it gives the writer up, keeps orders and keys in
\* line.
LEMMA KeyMove ==
    ASSUME Shape, KeyInv, NEW t \in Tasks, OthersKept(t),
           writer' \in {writer, t} \/ (writer = t /\ writer' = Nobody),
           writer' # writer => writer \in {Nobody, t},
           faults' = 0 => faults = 0,
           pc'[t] = "execute" => signalRows' = signalRows /\ MessageOf(t)' \notin signalRows,
           \/ signalRows' = signalRows
           \/ pc[t] = "commit" /\ signalRows' = signalRows \union {MessageOf(t)},
           pc[t] = "commit" /\ faults' = 0 => MessageOf(t) \in signalRows',
           \A m \in Messages :
              \/ orders'[m] = orders[m]
              \/ /\ pc[t] = "execute" /\ pc'[t] = "commit" /\ writer' = t
                 /\ m = MessageOf(t) /\ m = MessageOf(t)' /\ orders'[m] = orders[m] + 1
    PROVE  KeyInv'
<1>0. TypeOK /\ Nobody \notin Tasks
  BY NamesAssumption DEF Shape
<1>1. ASSUME NEW s \in Tasks PROVE KeyIsFree(s)'
  <2>1. CASE s = t
    BY <2>1 DEF KeyIsFree
  <2>2. CASE s # t /\ pc'[s] = "execute"
    <3>1. pc[s] = "execute" /\ MessageOf(s)' = MessageOf(s) /\ writer = s
      BY <2>2 DEF OthersKept, MessageOf, Shape
    <3>2. pc[t] # "commit"
      BY <2>2, <3>1 DEF Shape
    <3> QED BY <3>1, <3>2 DEF KeyInv, KeyIsFree
  <2>3. CASE pc'[s] # "execute"
    BY <2>3 DEF KeyIsFree
  <2> QED BY <2>1, <2>2, <2>3
<1>2. ASSUME faults' = 0, NEW m \in Messages
      PROVE  (orders'[m] > 0 => Signalled(m)') /\ orders'[m] <= 1
  <2>1. faults = 0 /\ orders[m] \in Nat
    BY <1>0, <1>2 DEF TypeOK
  <2>2. CASE orders'[m] = orders[m]
    <3>1. orders[m] > 0 => Signalled(m)
      BY <2>1 DEF KeyInv
    <3>2. CASE m \in signalRows
      BY <2>1, <2>2, <3>2 DEF KeyInv, Signalled
    <3>3. CASE writer \in Tasks /\ pc[writer] = "commit" /\ MessageOf(writer) = m /\ writer = t
      <4>1. m \in signalRows'
        BY <1>2, <3>3
      <4> QED BY <2>1, <2>2, <4>1 DEF KeyInv, Signalled
    <3>4. CASE writer \in Tasks /\ pc[writer] = "commit" /\ MessageOf(writer) = m /\ writer # t
      <4>1. /\ writer' = writer /\ pc'[writer] = pc[writer]
            /\ MessageOf(writer)' = MessageOf(writer)
        BY <3>4, WriterStays
      <4>2. Signalled(m)'
        BY <3>4, <4>1 DEF Signalled
      <4> QED BY <2>1, <2>2, <4>2 DEF KeyInv
    <3> QED BY <2>1, <2>2, <3>1, <3>2, <3>3, <3>4 DEF Signalled, KeyInv
  <2>3. CASE orders'[m] # orders[m]
    <3>1. /\ pc[t] = "execute" /\ pc'[t] = "commit" /\ writer' = t
          /\ m = MessageOf(t) /\ m = MessageOf(t)' /\ orders'[m] = orders[m] + 1
      BY <2>3
    <3>2. writer = t /\ m \notin signalRows
      BY <3>1 DEF Shape, KeyInv, KeyIsFree
    <3>3. orders[m] = 0
      BY <2>1, <3>1, <3>2 DEF KeyInv, Signalled
    <3>4. MessageOf(writer)' = m
      <4>1. t = writer'
        BY <3>1
      <4> QED BY <3>1, <3>2, <4>1 DEF MessageOf, UpdateOf
    <3>5. Signalled(m)'
      BY <3>1, <3>4 DEF Signalled
    <3> QED BY <3>1, <3>3, <3>5
  <2> QED BY <2>2, <2>3
<1> QED BY <1>1, <1>2 DEF KeyInv

\* Nobody moves, or everybody is lost.
LEMMA KeySame ==
    ASSUME Shape, KeyInv, UNCHANGED <<signalRows, orders>>,
           \/ UNCHANGED <<pc, batch, writer, faults>>
           \/ (\A t \in Tasks : pc'[t] = "idle") /\ faults' # 0
    PROVE  KeyInv'
<1>1. CASE (\A t \in Tasks : pc'[t] = "idle") /\ faults' # 0
  BY <1>1 DEF KeyInv, KeyIsFree
<1>2. CASE UNCHANGED <<pc, batch, writer, faults>>
  <2>1. \A s \in Tasks : MessageOf(s)' = MessageOf(s)
    BY <1>2, OldestKept DEF MessageOf, UpdateOf
  <2>2. MessageOf(writer)' = MessageOf(writer)
    BY <1>2, OldestKept DEF MessageOf, UpdateOf
  <2>3. \A s \in Tasks : KeyIsFree(s)'
    BY <1>2, <2>1 DEF KeyInv, KeyIsFree
  <2>4. \A m \in Messages : Signalled(m) => Signalled(m)'
    BY <1>2, <2>2 DEF Signalled
  <2> QED BY <1>2, <2>3, <2>4 DEF KeyInv
<1> QED BY <1>1, <1>2

\* The handling of a message takes its key before it sends an order.
LEMMA HandleKey ==
    ASSUME Shape, KeyInv, NEW t \in Tasks, HandleStep(t)
    PROVE  KeyInv'
<1>0. TypeOK /\ Moves(t) /\ OthersKept(t) /\ pc[t] \in Busy /\ Nobody \notin Tasks
  BY MovesAlone, NamesAssumption
     DEF Shape, Moves, HandleStep, Store, Check, Insert, Execute, Commit, Busy
<1>1. MessageOf(t) \in Messages /\ faults' = faults
  BY <1>0, WorkerWorks DEF HandleStep, Store, Check, Insert, Execute, Commit
<1>2. CASE Store(t) \/ Check(t)
  <2>1. UNCHANGED <<signalRows, orders, writer>> /\ pc[t] # "commit" /\ pc'[t] # "execute"
    BY <1>0, <1>2, FinishEffect DEF Store, Check, tables, Goto, TypeOK
  <2> QED BY <1>0, <1>1, <2>1, KeyMove
<1>3. CASE Insert(t)
  <2>1. UNCHANGED <<signalRows, orders>> /\ pc[t] # "commit"
    BY <1>3 DEF Insert, tables
  <2>2. /\ writer' \in {writer, t} /\ (writer' # writer => writer \in {Nobody, t})
        /\ pc'[t] = "execute" => MessageOf(t) \notin signalRows /\ batch' = batch
    BY <1>0, <1>3, FinishEffect DEF Insert, HoldWriter, CanWrite, catchUp
  <2>3. pc'[t] = "execute" => MessageOf(t)' = MessageOf(t)
    BY <2>2, OldestKept DEF MessageOf, UpdateOf
  <2> QED BY <1>0, <1>1, <2>1, <2>2, <2>3, KeyMove
<1>4. CASE Execute(t)
  <2>1. /\ UNCHANGED <<signalRows, writer, batch>> /\ pc[t] = "execute" /\ pc'[t] = "commit"
        /\ writer = t
    BY <1>0, <1>4 DEF Execute, tables, catchUp, Goto, TypeOK, Shape
  <2>2. MessageOf(t)' = MessageOf(t)
    BY <2>1, OldestKept DEF MessageOf, UpdateOf
  <2>3. orders' = orders \/ orders' = [orders EXCEPT ![MessageOf(t)] = @ + 1]
    BY <1>4 DEF Execute
  <2>4. \A m \in Messages : orders'[m] = orders[m]
                            \/ (m = MessageOf(t) /\ orders'[m] = orders[m] + 1)
    BY <1>0, <1>1, <2>3 DEF TypeOK
  <2> QED BY <1>0, <1>1, <2>1, <2>2, <2>4, KeyMove
<1>5. CASE Commit(t)
  <2>1. /\ signalRows' = signalRows \union {MessageOf(t)} /\ orders' = orders
        /\ pc[t] = "commit" /\ DropWriter(t) /\ Finish(t)
    BY <1>5 DEF Commit
  <2>2. pc'[t] # "execute"
    BY <1>0, <2>1, FinishEffect
  <2> QED BY <1>0, <1>1, <2>1, <2>2, KeyMove DEF DropWriter
<1> QED BY <1>2, <1>3, <1>4, <1>5 DEF HandleStep

\* Every step keeps orders and keys in line.
LEMMA KeyStep ==
    ASSUME Shape, KeyInv, [Next]_vars
    PROVE  KeyInv'
<1>0. TypeOK /\ Nobody \notin Tasks
  BY NamesAssumption DEF Shape
<1>1. CASE Post \/ (\E m \in Messages : Edit(m)) \/ UNCHANGED vars
  BY <1>1, KeySame DEF Post, Edit, vars, tables, catchUp
<1>2. ASSUME NEW t \in Tasks, Moves(t) PROVE KeyInv'
  <2>0. OthersKept(t)
    BY <1>2, MovesAlone
  <2>1. CASE t \in Updates /\ Deliver(t)
    <3>1. /\ Select(t) /\ UNCHANGED <<signalRows, orders, writer, faults>> /\ t # CatchUp /\ Told(t)
          /\ pc[t] # "commit"
      BY <2>1, NamesAssumption DEF Deliver, Shape, tables
    <3>2. pc'[t] # "execute"
      BY <1>0, <3>1, FinishEffect DEF Select, Goto, TypeOK
    <3> QED BY <1>0, <2>0, <3>1, <3>2, KeyMove
  <2>2. CASE HandleStep(t)
    BY <2>2, HandleKey
  <2>3. CASE Fail(t)
    <3>1. UNCHANGED <<signalRows, orders>> /\ pc'[t] # "execute" /\ faults' # 0 /\ DropWriter(t)
      BY <1>0, <2>3, FinishEffect DEF Fail, tables, Goto, TypeOK
    <3> QED BY <1>0, <2>0, <3>1, KeyMove DEF DropWriter
  <2>4. CASE t = CatchUp /\ (BeginCatchUp \/ Fetch \/ Prime \/ NextMessage)
    <3>1. UNCHANGED <<signalRows, orders, writer, faults>> /\ pc[t] # "commit"
      BY <2>4 DEF BeginCatchUp, Fetch, Prime, NextMessage, tables
    <3>2. pc'[t] # "execute"
      BY <1>0, <2>4, FinishEffect
         DEF BeginCatchUp, Fetch, Prime, NextMessage, Select, Goto, TypeOK
    <3> QED BY <1>0, <2>0, <3>1, <3>2, KeyMove
  <2> QED BY <1>2, <2>1, <2>2, <2>3, <2>4 DEF Moves
<1>3. CASE Crash
  <2>1. UNCHANGED <<signalRows, orders>> /\ (\A t \in Tasks : pc'[t] = "idle") /\ faults' # 0
    BY <1>0, <1>3 DEF Crash, tables, TypeOK
  <2> QED BY <2>1, KeySame
<1> QED BY <1>1, <1>2, <1>3, NextMoves

\* A message never gives two orders, but an edited one after a rollback.
THEOREM OneOrderEach == Spec => []OneOrder
<1>1. Init => Shape /\ HistoryInv /\ OnceInv /\ KeyInv
  BY ShapeInit, HistoryInit, OnceInit, KeyInit
<1>2. Shape /\ HistoryInv /\ OnceInv /\ KeyInv /\ [Next]_vars
        => Shape' /\ HistoryInv' /\ OnceInv' /\ KeyInv'
  BY HistoryStep, OnceStep, KeyStep
<1>3. OnceInv /\ KeyInv => OneOrder
  BY DEF OnceInv, KeyInv, OneOrder, Original
<1> QED BY <1>1, <1>2, <1>3, PTL DEF Spec

\* Every variable keeps its type.
THEOREM IntakeTypes == Spec => []TypeOK
<1>1. Init => Shape /\ HistoryInv
  BY ShapeInit, HistoryInit
<1>2. Shape /\ HistoryInv /\ [Next]_vars => Shape' /\ HistoryInv'
  BY HistoryStep
<1>3. Shape => TypeOK
  BY DEF Shape
<1> QED BY <1>1, <1>2, <1>3, PTL DEF Spec

-----------------------------------------------------------------------------
(* The Bridge does not trade its announcements.                            *)

\* Nothing is announced at first.
LEMMA EchoInit == Init => EchoInv
BY DEF Init, EchoInv, NoEcho, Recognised, NotOurs

\* What a task announces, it registers at its commit.
LEMMA EchoMove ==
    ASSUME Shape, Shape', EchoInv, NEW t \in Tasks, OthersKept(t),
           writer' \in {writer, t} \/ (writer = t /\ writer' = Nobody),
           writer' # writer => writer \in {Nobody, t},
           faults' = 0 => faults = 0,
           registry \subseteq registry',
           pc[t] = "commit" /\ faults' = 0 => published[t] \subseteq registry',
           \/ own' = own /\ posted' = posted
           \/ /\ own' = own \union {posted + 1} /\ posted' = posted + 1
              /\ pc[t] = "execute" /\ pc'[t] = "commit" /\ writer' = t
              /\ posted + 1 \in published'[t],
           pc'[t] \in {"check", "insert", "execute"} => MessageOf(t)' = MessageOf(t),
           pc'[t] = "check" => writer \in {Nobody, t} /\ pc[t] = "store",
           pc'[t] = "insert" => pc[t] = "check" /\ MessageOf(t) \notin registry,
           pc'[t] = "execute" => pc[t] = "insert",
           \A m \in Messages :
              orders'[m] = orders[m] \/ (pc[t] = "execute" /\ m = MessageOf(t))
    PROVE  EchoInv'
<1>0. /\ TypeOK /\ Nobody \notin Tasks /\ posted \in Nat
      /\ own \subseteq 1..posted
  BY NamesAssumption, BoundsAssumption DEF Shape, TypeOK
<1>1. \A s \in Tasks : pc[s] \in Busy => MessageOf(s) \in Messages /\ MessageOf(s) \in 1..posted
  BY WorkerWorks
<1>2. ASSUME faults' = 0, NEW m \in own PROVE Registered(m)'
  <2>1. Registered(m)
    BY <1>2 DEF EchoInv
  <2>2. CASE m \in registry
    BY <2>2 DEF Registered
  <2>3. CASE writer \in Tasks /\ pc[writer] = "commit" /\ m \in published[writer] /\ writer = t
    BY <1>2, <2>3 DEF Registered
  <2>4. CASE writer \in Tasks /\ pc[writer] = "commit" /\ m \in published[writer] /\ writer # t
    <3>1. /\ writer' = writer /\ pc'[writer] = pc[writer]
          /\ published'[writer] = published[writer]
      BY <2>4, WriterStays
    <3> QED BY <2>4, <3>1 DEF Registered
  <2> QED BY <2>1, <2>2, <2>3, <2>4 DEF Registered
<1>3. ASSUME faults' = 0, NEW m \in own' \ own PROVE Registered(m)'
  <2>1. /\ m = posted + 1 /\ pc'[t] = "commit" /\ writer' = t /\ m \in published'[t]
    BY <1>3
  <2> QED BY <2>1 DEF Registered
<1>4. ASSUME faults' = 0, NEW s \in Tasks PROVE Recognised(s)' /\ NotOurs(s)'
  <2>0. faults = 0 /\ Recognised(s) /\ NotOurs(s)
    BY <1>4 DEF EchoInv
  <2>1. CASE s # t
    <3>1. pc'[s] = pc[s] /\ MessageOf(s)' = MessageOf(s)
      BY <2>1 DEF OthersKept, MessageOf
    <3>2. pc[s] \in Busy => MessageOf(s) # posted + 1
      BY <1>0, <1>1
    <3> QED BY <2>0, <3>1, <3>2 DEF Recognised, NotOurs, Busy
  <2>2. CASE s = t /\ pc'[t] = "check"
    <3>1. own' = own /\ MessageOf(t)' = MessageOf(t)
      BY <2>2
    <3>2. \A m \in own : Registered(m) => m \in registry
      BY <1>0, <2>2 DEF Registered
    <3> QED BY <2>0, <2>2, <3>1, <3>2 DEF Recognised, NotOurs, EchoInv
  <2>3. CASE s = t /\ pc'[t] \in {"insert", "execute"}
    BY <2>0, <2>3 DEF Recognised, NotOurs
  <2>4. CASE s = t /\ pc'[t] \notin {"check", "insert", "execute"}
    BY <2>4 DEF Recognised, NotOurs
  <2> QED BY <2>1, <2>2, <2>3, <2>4
<1>5. ASSUME NEW m \in Messages, m > posted' PROVE orders'[m] = 0
  <2>1. m > posted
    BY <1>0, <1>5 DEF Messages
  <2>2. pc[t] = "execute" => m # MessageOf(t)
    BY <1>0, <1>1, <2>1 DEF Busy
  <2> QED BY <2>1, <2>2 DEF EchoInv
<1>6. ASSUME faults' = 0, NEW m \in own', m \in Messages PROVE orders'[m] = 0
  <2>0. faults = 0 /\ NotOurs(t)
    BY <1>6 DEF EchoInv
  <2>1. CASE m \in own
    <3>1. orders[m] = 0 /\ (pc[t] = "execute" => m # MessageOf(t))
      BY <2>0, <2>1 DEF EchoInv, NoEcho, NotOurs
    <3> QED BY <1>6, <3>1
  <2>2. CASE m = posted + 1
    <3>1. orders[m] = 0
      BY <1>0, <1>6, <2>2 DEF EchoInv
    <3>2. pc[t] = "execute" => m # MessageOf(t)
      BY <1>0, <1>1, <2>2 DEF Busy
    <3> QED BY <1>6, <3>1, <3>2
  <2> QED BY <2>1, <2>2
<1>7. own' \subseteq Messages
  BY BoundsAssumption DEF Shape, TypeOK, Messages
<1>8. /\ \A m \in Messages : m > posted' => orders'[m] = 0
      /\ faults' = 0 => \A m \in own' : Registered(m)'
  BY <1>2, <1>3, <1>5
<1>9. /\ faults' = 0 => \A s \in Tasks : Recognised(s)'
      /\ faults' = 0 => \A s \in Tasks : NotOurs(s)'
  BY <1>4
<1>10. NoEcho'
  BY <1>6, <1>7 DEF NoEcho
<1> QED BY <1>8, <1>9, <1>10 DEF EchoInv

\* Nobody moves, or everybody is lost.
LEMMA EchoSame ==
    ASSUME Shape, ChannelKept, EchoInv, UNCHANGED <<registry, orders, own>>,
           \/ UNCHANGED <<pc, batch, writer, published, faults>>
           \/ (\A t \in Tasks : pc'[t] = "idle") /\ faults' # 0
    PROVE  EchoInv'
<1>0. posted \in Nat /\ posted' \in Nat /\ posted <= posted'
  BY BoundsAssumption DEF Shape, TypeOK, ChannelKept
<1>1. \A m \in Messages : m > posted' => orders'[m] = 0
  BY <1>0 DEF EchoInv, Messages
<1>2. CASE (\A t \in Tasks : pc'[t] = "idle") /\ faults' # 0
  BY <1>1, <1>2 DEF EchoInv, NoEcho
<1>3. CASE UNCHANGED <<pc, batch, writer, published, faults>>
  <2>1. \A s \in Tasks : MessageOf(s)' = MessageOf(s)
    BY <1>3, OldestKept DEF MessageOf, UpdateOf
  <2>2. \A m \in own : Registered(m) => Registered(m)'
    BY <1>3 DEF Registered
  <2>3. \A s \in Tasks : (Recognised(s) => Recognised(s)') /\ (NotOurs(s) => NotOurs(s)')
    BY <1>3, <2>1 DEF Recognised, NotOurs
  <2>4. NoEcho'
    BY <1>3 DEF EchoInv, NoEcho
  <2> QED BY <1>1, <1>3, <2>2, <2>3, <2>4 DEF EchoInv
<1> QED BY <1>2, <1>3

\* The handling of an announcement of ours ends before any order.
LEMMA HandleEcho ==
    ASSUME Shape, Shape', EchoInv, NEW t \in Tasks, HandleStep(t)
    PROVE  EchoInv'
<1>0. TypeOK /\ Moves(t) /\ OthersKept(t) /\ pc[t] \in Busy /\ Nobody \notin Tasks
  BY MovesAlone, NamesAssumption
     DEF Shape, Moves, HandleStep, Store, Check, Insert, Execute, Commit, Busy
<1>1. MessageOf(t) \in Messages /\ faults' = faults
  BY <1>0, WorkerWorks DEF HandleStep, Store, Check, Insert, Execute, Commit
<1>2. CASE Store(t) \/ Check(t) \/ Insert(t)
  <2>1. /\ UNCHANGED <<own, posted, registry, orders>>
        /\ pc[t] \in {"store", "check", "insert"}
        /\ writer' \in {writer, t} /\ (writer' # writer => writer \in {Nobody, t})
    BY <1>2 DEF Store, Check, Insert, channel, tables, HoldWriter, CanWrite
  <2>2. \/ pc'[t] \in {"next", "idle"}
        \/ /\ batch' = batch
           /\ \/ pc'[t] = "check" /\ pc[t] = "store" /\ CanWrite(t)
              \/ pc'[t] = "insert" /\ pc[t] = "check" /\ MessageOf(t) \notin registry
              \/ pc'[t] = "execute" /\ pc[t] = "insert"
    BY <1>0, <1>2, FinishEffect
       DEF Store, Check, Insert, Goto, TypeOK, catchUp, Ignored
  <2>3. pc'[t] \in {"check", "insert", "execute"} => MessageOf(t)' = MessageOf(t)
    BY <2>2, OldestKept DEF MessageOf, UpdateOf
  <2>4. /\ pc'[t] = "check" => writer \in {Nobody, t} /\ pc[t] = "store"
        /\ pc'[t] = "insert" => pc[t] = "check" /\ MessageOf(t) \notin registry
        /\ pc'[t] = "execute" => pc[t] = "insert"
    BY <2>2 DEF CanWrite
  <2> QED BY <1>0, <1>1, <2>1, <2>3, <2>4, EchoMove
<1>3. CASE Execute(t)
  <2>1. /\ UNCHANGED <<registry, writer>> /\ pc[t] = "execute" /\ pc'[t] = "commit"
        /\ writer = t /\ writer' = t
    BY <1>0, <1>3 DEF Execute, tables, Goto, TypeOK, Shape
  <2>2. \A m \in Messages : orders'[m] = orders[m] \/ m = MessageOf(t)
    BY <1>0, <1>1, <1>3 DEF Execute, TypeOK
  <2>3. \/ own' = own /\ posted' = posted
        \/ /\ own' = own \union {posted + 1} /\ posted' = posted + 1
           /\ posted + 1 \in published'[t]
    BY <1>0, <1>3 DEF Execute, Announce, Returned, channel, TypeOK
  <2> QED BY <1>0, <1>1, <2>1, <2>2, <2>3, EchoMove
<1>4. CASE Commit(t)
  <2>1. /\ UNCHANGED <<own, posted, orders>> /\ registry' = registry \union published[t]
        /\ pc[t] = "commit" /\ DropWriter(t) /\ Finish(t)
    BY <1>4 DEF Commit, channel
  <2>2. pc'[t] \in {"next", "idle"}
    BY <1>0, <2>1, FinishEffect
  <2> QED BY <1>0, <1>1, <2>1, <2>2, EchoMove DEF DropWriter
<1> QED BY <1>2, <1>3, <1>4 DEF HandleStep

\* Every step keeps our announcements out of the orders.
LEMMA EchoStep ==
    ASSUME Shape, Shape', ChannelKept, EchoInv, [Next]_vars
    PROVE  EchoInv'
<1>0. TypeOK /\ Nobody \notin Tasks
  BY NamesAssumption DEF Shape
<1>1. CASE Post \/ (\E m \in Messages : Edit(m)) \/ UNCHANGED vars
  BY <1>1, EchoSame DEF Post, Edit, vars, channel, tables, catchUp
<1>2. ASSUME NEW t \in Tasks, Moves(t) PROVE EchoInv'
  <2>0. OthersKept(t)
    BY <1>2, MovesAlone
  <2>1. CASE t \in Updates /\ Deliver(t)
    <3>1. /\ Select(t) /\ UNCHANGED <<own, posted, registry, orders, writer, faults>>
          /\ pc[t] = "idle" /\ t # CatchUp /\ Told(t)
      BY <2>1, NamesAssumption DEF Deliver, Shape, tables
    <3>2. pc'[t] \in {"next", "idle", "store"}
      BY <1>0, <3>1, FinishEffect DEF Select, Goto, TypeOK
    <3> QED BY <1>0, <2>0, <3>1, <3>2, EchoMove
  <2>2. CASE HandleStep(t)
    BY <2>2, HandleEcho
  <2>3. CASE Fail(t)
    <3>1. UNCHANGED <<own, posted, registry, orders>> /\ faults' # 0 /\ DropWriter(t)
      BY <1>0, <2>3 DEF Fail, channel, tables, TypeOK
    <3>2. pc'[t] \in {"next", "idle"}
      BY <1>0, <2>3, FinishEffect DEF Fail, Goto, TypeOK
    <3> QED BY <1>0, <2>0, <3>1, <3>2, EchoMove DEF DropWriter
  <2>4. CASE t = CatchUp /\ (BeginCatchUp \/ Fetch \/ Prime \/ NextMessage)
    <3>1. /\ UNCHANGED <<own, posted, registry, orders, writer, faults>> /\ pc[t] # "commit"
      BY <2>4 DEF BeginCatchUp, Fetch, Prime, NextMessage, channel, tables
    <3>2. pc'[t] \in {"fetch", "prime", "next", "idle", "store"}
      BY <1>0, <2>4, FinishEffect
         DEF BeginCatchUp, Fetch, Prime, NextMessage, Select, Goto, TypeOK
    <3> QED BY <1>0, <2>0, <3>1, <3>2, EchoMove
  <2> QED BY <1>2, <2>1, <2>2, <2>3, <2>4 DEF Moves
<1>3. CASE Crash
  <2>1. /\ UNCHANGED <<registry, orders, own>> /\ (\A t \in Tasks : pc'[t] = "idle")
        /\ faults' # 0
    BY <1>0, <1>3 DEF Crash, channel, tables, TypeOK
  <2> QED BY <2>1, EchoSame
<1> QED BY <1>1, <1>2, <1>3, NextMoves

\* The Bridge never trades what it has announced, as long as no session of its
\* own is rolled back.
THEOREM AnnouncementsAreNotTraded == Spec => []NoEcho
<1>1. Init => Shape /\ HistoryInv /\ EchoInv
  BY ShapeInit, HistoryInit, EchoInit
<1>2. Shape /\ HistoryInv /\ EchoInv /\ [Next]_vars => Shape' /\ HistoryInv' /\ EchoInv'
  BY HistoryStep, EchoStep
<1>3. EchoInv => NoEcho
  BY DEF EchoInv
<1> QED BY <1>1, <1>2, <1>3, PTL DEF Spec
=============================================================================
