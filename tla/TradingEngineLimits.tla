------------------------ MODULE TradingEngineLimits ------------------------
(* What the order path of TradingEngine keeps within limits, proved for    *)
(* every set of signals, every plan and every limit: no order is left      *)
(* without a row, what has expired stays out of the market, no two         *)
(* sessions leave equivalent orders waiting, and the exposure and the      *)
(* daily risk stay under their caps.                                       *)
(*                                                                         *)
(* TradingEngineProofs gives the types, the exclusion by the engine's lock *)
(* and FreshTickets.  What is added here rests on the other lock, the      *)
(* single writer of the database: which sessions hold it, and when.        *)
EXTENDS TradingEngineProofs, FiniteSetTheorems

-----------------------------------------------------------------------------
(* What the session helpers do, entry by entry.                            *)

\* Goto moves one task.
Moved(t, where) == \A u \in Tasks : pc'[u] = IF u = t THEN where ELSE pc[u]

\* A task that goes to a step moves alone.
LEMMA GotoMoves ==
    ASSUME TypeOK, NEW t \in Tasks, NEW where, Goto(t, where)
    PROVE  Moved(t, where)
  BY DEF Goto, TypeOK, Moved

\* A session that ends forgets its writes and frees the writer if it holds it.
Forgotten(t) ==
    /\ \A u \in Tasks : \A s \in Signals :
          wStatus'[u][s] = IF u = t THEN Untouched ELSE wStatus[u][s]
    /\ \A u \in Tasks : \A k \in Tickets :
          wRow'[u][k] = IF u = t THEN Untouched ELSE wRow[u][k]
    /\ \A u \in Tasks : wRisk'[u] = IF u = t THEN NoRisk ELSE wRisk[u]
    /\ \A u \in Tasks \ {t} : writer = u => writer' = u

\* The end of a session drops its writes and its hold of the writer.
LEMMA CloseForgets ==
    ASSUME TypeOK, NEW t \in Tasks, CloseSession(t)
    PROVE  Forgotten(t)
<1>1. \A u \in Tasks : \A s \in Signals :
         wStatus'[u][s] = IF u = t THEN Untouched ELSE wStatus[u][s]
  BY DEF CloseSession, NoStatus, TypeOK
<1>2. \A u \in Tasks : \A k \in Tickets :
         wRow'[u][k] = IF u = t THEN Untouched ELSE wRow[u][k]
  BY DEF CloseSession, NoRow, TypeOK
<1>3. \A u \in Tasks : wRisk'[u] = IF u = t THEN NoRisk ELSE wRisk[u]
  BY DEF CloseSession, TypeOK
<1>4. \A u \in Tasks \ {t} : writer = u => writer' = u
  BY DEF CloseSession, DropWriter
<1> QED BY <1>1, <1>2, <1>3, <1>4 DEF Forgotten

\* A commit writes over the tables what the session has touched.
Written(t) ==
    /\ \A s \in Signals :
          dbStatus'[s] = IF wStatus[t][s] = Untouched THEN dbStatus[s] ELSE wStatus[t][s]
    /\ \A k \in Tickets :
          dbRow'[k] = IF wRow[t][k] = Untouched THEN dbRow[k] ELSE wRow[t][k]
    /\ dbRisked' = IF wRisk[t] = NoRisk THEN dbRisked ELSE wRisk[t]

\* A commit lays the session's writes over the tables.
LEMMA PublishWrites ==
    ASSUME TypeOK, NEW t \in Tasks, Publish(t)
    PROVE  Written(t)
  BY DEF Publish, Overlay, TypeOK, Written

\* WriteStatus touches one entry.
Marked(t, x, st) ==
    \A u \in Tasks : \A s \in Signals :
        wStatus'[u][s] = IF u = t /\ s = x THEN st ELSE wStatus[u][s]

\* A status is written in the task's own session, for its own signal.
LEMMA OneStatus ==
    ASSUME TypeOK, NEW t \in Tasks, NEW st, WriteStatus(t, st), target[t] \in Signals
    PROVE  Marked(t, target[t], st)
  BY DEF WriteStatus, TypeOK, Marked

\* Taking, keeping or freeing the writer never takes it from another task.
LEMMA WriterNotStolen ==
    ASSUME NEW t \in Tasks, TakeWriter(t) \/ DropWriter(t) \/ writer' = writer, SingleWriter
    PROVE  \A u \in Tasks \ {t} : writer = u => writer' = u
  BY TasksAssumption DEF TakeWriter, CanWrite, DropWriter

\* The rollback of a session, and its end with a status.
LEMMA RollbackEffect ==
    ASSUME TypeOK, NEW t \in Tasks, Rollback(t)
    PROVE  /\ Forgotten(t)
           /\ Moved(t, IF t = Monitor THEN "sleep" ELSE "failed")
           /\ UNCHANGED <<memory, tables>>
  BY CloseForgets, GotoMoves DEF Rollback

\* An evaluation that ends marks its signal and goes on to commit.
LEMMA EndWithEffect ==
    ASSUME TypeOK, NEW t \in Workers, NEW st, EndWith(t, st), target[t] \in Signals
    PROVE  /\ Moved(t, "commit")
           /\ Marked(t, target[t], st)
           /\ UNCHANGED <<wRow, wRisk, memory, tables, terminal, due, faults>>
<1>1. t \in Tasks /\ WriteStatus(t, st) /\ Goto(t, "commit") BY DEF Tasks, EndWith
<1>2. Moved(t, "commit") BY <1>1, GotoMoves
<1>3. Marked(t, target[t], st)
  BY <1>1, OneStatus
<1>4. UNCHANGED <<wRow, wRisk, memory, tables, terminal, due, faults>>
  BY <1>1 DEF EndWith, WriteStatus
<1> QED BY <1>2, <1>3, <1>4

\* A step of a worker, by what it may do to others.
LEMMA WorkerBegun ==
    ASSUME NEW t \in Workers, WorkerStep(t)
    PROVE  pc[t] \notin {"idle", "insert", "expire", "done", "failed"} \/ BusyTimeout(t)
  BY DEF WorkerStep, EnterEvaluation, Observe, AskReview, ReadAccount, ReadFails, Refuse,
         Approve, ListOpposite, CancelOpposite, RefuseTwin, BeginExecution, SendOrder,
         SendRefused, SendLost, PersistOrder, FinishExecution, Commit

-----------------------------------------------------------------------------
(* The signal a task works on.                                             *)

\* A message works on its own signal, a request on one it has loaded, and it
\* expires one whose deadline has passed.
TargetsKnown ==
    \A t \in Workers : /\ t \in Signals => target[t] = t
                       /\ pc[t] # "idle" => target[t] \in Signals
                       /\ pc[t] = "expire" => target[t] \in due

\* A task at work keeps a signal as its target.
LEMMA TargetsStep ==
    ASSUME TypeOK, TargetsKnown, [Next]_vars
    PROVE  TargetsKnown'
<1>0. /\ Workers \subseteq Tasks /\ Monitor \in Tasks /\ Monitor \notin Workers
      /\ Signals \subseteq Workers /\ Requests \subseteq Workers
      /\ Signals \intersect Requests = {}
  BY TasksAssumption DEF Tasks, Workers
<1>1. ASSUME UNCHANGED <<target, due>>, NEW t \in Tasks, NEW where, Moved(t, where),
             pc[t] # "idle", where # "expire"
      PROVE TargetsKnown'
  BY <1>0, <1>1 DEF TargetsKnown, Moved
<1>2. ASSUME NEW t \in Workers, WorkerStep(t) PROVE TargetsKnown'
  <2>1. UNCHANGED <<target, due>>
    BY <1>2 DEF WorkerStep, EnterEvaluation, Observe, AskReview, ReadAccount, ReadFails,
         Refuse, Approve, ListOpposite, CancelOpposite, RefuseTwin, BeginExecution,
         SendOrder, SendRefused, SendLost, PersistOrder, FinishExecution, Commit,
         BusyTimeout, EndWith, Rollback, memory
  <2>2. pc[t] # "idle"
    BY <1>2, WorkerBegun DEF BusyTimeout, WantsToWrite
  <2>3. (\E where : Goto(t, where) /\ where # "expire") \/ pc' = pc
    BY <1>2 DEF WorkerStep, EnterEvaluation, Observe, AskReview, ReadAccount, ReadFails,
         Refuse, Approve, ListOpposite, CancelOpposite, RefuseTwin, BeginExecution,
         SendOrder, SendRefused, SendLost, PersistOrder, FinishExecution, Commit,
         BusyTimeout, EndWith, Rollback
  <2>m. t # Monitor BY <1>0
  <2>4. CASE pc' = pc BY <2>1, <2>4 DEF TargetsKnown
  <2>5. ASSUME NEW where, Goto(t, where), where # "expire" PROVE TargetsKnown'
    BY <1>0, <1>1, <2>1, <2>2, <2>5, GotoMoves
  <2> QED BY <2>3, <2>4, <2>5
<1>3. CASE MonitorStep
  <2>1. UNCHANGED <<target, due>>
    BY <1>3 DEF MonitorStep, BeginCycle, CycleUnreadable, ReconcilePending, FlushOrders,
         DetectClosures, FlushTrades, ExpireStaleSignals, FlushExpiry, EndCycle,
         BusyTimeout, Flush, Rollback, memory
  <2>2. \A t \in Workers : pc'[t] = pc[t]
    BY <1>0, <1>3 DEF MonitorStep, BeginCycle, CycleUnreadable, ReconcilePending, FlushOrders,
         DetectClosures, FlushTrades, ExpireStaleSignals, FlushExpiry, EndCycle,
         BusyTimeout, Flush, Rollback, Goto, TypeOK
  <2> QED BY <2>1, <2>2 DEF TargetsKnown
<1>4. ASSUME NEW s \in Signals, Arrive(s) \/ RecordSignal(s) PROVE TargetsKnown'
  <2>1. /\ UNCHANGED <<target, due>> /\ target[s] = s
        /\ \E where \in {"insert", "lockwait", "commit"} : Goto(s, where)
    BY <1>0, <1>4 DEF Arrive, RecordSignal, memory, TargetsKnown
  <2>2. PICK where \in {"insert", "lockwait", "commit"} : Moved(s, where)
    BY <1>0, <2>1, GotoMoves
  <2> QED BY <1>0, <2>1, <2>2 DEF TargetsKnown, Moved
<1>5. ASSUME NEW r \in Requests, NEW s \in Signals,
             ApproveManually(r, s) \/ RejectManually(r, s)
      PROVE TargetsKnown'
  <2>1. /\ target' = [target EXCEPT ![r] = s] /\ due' = due
        /\ \E where : Goto(r, where) /\ (where = "expire" => s \in due)
    BY <1>5 DEF ApproveManually, RejectManually
  <2>2. PICK where : Moved(r, where) /\ (where = "expire" => s \in due)
    BY <1>0, <2>1, GotoMoves
  <2> QED BY <1>0, <2>1, <2>2 DEF TargetsKnown, Moved, TypeOK
<1>6. ASSUME NEW r \in Requests, ExpireOnApproval(r) PROVE TargetsKnown'
  BY <1>0, <1>1, <1>6, GotoMoves DEF ExpireOnApproval, memory
<1>7. CASE Crash
  <2>1. /\ UNCHANGED <<target, due>>
        /\ \A t \in Workers : pc'[t] # "expire" /\ (pc'[t] # "idle" => pc[t] # "idle")
    BY <1>0, <1>7 DEF Crash, memory
  <2> QED BY <2>1 DEF TargetsKnown
<1>8. CASE UNCHANGED vars \/ (\E s \in Signals : Deadline(s)) \/ (\E b \in BOOLEAN : SetPaused(b))
           \/ (\E k \in Tickets : BrokerMoves(k))
  <2>1. UNCHANGED <<pc, target>> /\ due \subseteq due'
    BY <1>8 DEF vars, local, memory, Deadline, SetPaused, BrokerMoves
  <2> QED BY <2>1 DEF TargetsKnown
<1> QED BY <1>0, <1>2, <1>3, <1>4, <1>5, <1>6, <1>7, <1>8
        DEF Next, MessageStep, RequestStep, Outside

-----------------------------------------------------------------------------
(* The single writer of the database.                                      *)

\* The control points at which a task holds it: a message writes its own row
\* first and then keeps the writer up to its commit, a request takes it when the
\* limits are passed.
Holds(t, where) ==
    \/ where \in {"listing", "cancelling", "send", "persist", "commit"}
    \/ t \in Signals /\ where \in {"lockwait", "route", "evaluate"}
WriterKept ==
    SingleWriter => \A t \in Workers : Holds(t, pc[t]) => writer = t

\* A status waits for its commit in the session that holds the writer, or in the
\* monitor's before its flush.
StatusWritten ==
    SingleWriter =>
        \A t \in Tasks : \A s \in Signals :
            wStatus[t][s] # Untouched =>
                writer = t \/ (t = Monitor /\ pc[t] = "flushExpiry")

WriterInv == WriterKept /\ StatusWritten

\* What a task's step must do: take the writer from nobody, hold it where it
\* should, and write a status only with it.
LEMMA WriterMove ==
    ASSUME TypeOK, WriterInv, NEW t \in Tasks, NEW where, Moved(t, where),
           SingleWriter => \A u \in Tasks \ {t} : writer = u => writer' = u,
           SingleWriter /\ t \in Workers /\ Holds(t, where) => writer' = t,
           \A u \in Tasks \ {t} : \A s \in Signals : wStatus'[u][s] = wStatus[u][s],
           SingleWriter => \A s \in Signals : wStatus'[t][s] # Untouched =>
               writer' = t \/ (t = Monitor /\ where = "flushExpiry")
    PROVE  WriterInv'
<1>1. WriterKept' BY DEF WriterInv, WriterKept, Moved, Tasks
<1>2. StatusWritten' BY DEF WriterInv, StatusWritten, Moved
<1> QED BY <1>1, <1>2 DEF WriterInv

\* A step that takes the writer.
LEMMA WriterTaken ==
    ASSUME TypeOK, WriterInv, NEW t \in Tasks, NEW where, Moved(t, where), TakeWriter(t),
           \A u \in Tasks \ {t} : \A s \in Signals : wStatus'[u][s] = wStatus[u][s]
    PROVE  WriterInv'
<1>1. SingleWriter => writer' = t BY DEF TakeWriter
<1>2. SingleWriter => \A u \in Tasks \ {t} : writer = u => writer' = u
  BY WriterNotStolen
<1> QED BY <1>1, <1>2, WriterMove

\* A step that leaves the writer and the statuses alone, and does not take its
\* task where the writer should be held.
LEMMA WriterIdle ==
    ASSUME TypeOK, WriterInv, NEW t \in Tasks, NEW where, Moved(t, where),
           t \in Workers /\ Holds(t, where) => Holds(t, pc[t]),
           pc[t] # "flushExpiry", UNCHANGED <<writer, wStatus>>
    PROVE  WriterInv'
<1>1. SingleWriter => \A s \in Signals : wStatus'[t][s] # Untouched => writer' = t
  BY DEF WriterInv, StatusWritten
<1>2. SingleWriter /\ t \in Workers /\ Holds(t, where) => writer' = t
  BY DEF WriterInv, WriterKept
<1> QED BY <1>1, <1>2, WriterMove

\* A session that ends.
LEMMA WriterForgotten ==
    ASSUME TypeOK, WriterInv, NEW t \in Tasks, NEW where, Moved(t, where), Forgotten(t),
           where \in {"sleep", "failed", "done"}
    PROVE  WriterInv'
<1>1. ~Holds(t, where) BY DEF Holds
<1>2. /\ \A u \in Tasks \ {t} : writer = u => writer' = u
      /\ \A u \in Tasks \ {t} : \A s \in Signals : wStatus'[u][s] = wStatus[u][s]
      /\ \A s \in Signals : wStatus'[t][s] = Untouched
  BY DEF Forgotten
<1> QED BY <1>1, <1>2, WriterMove

\* An evaluation writes with the writer, or has written nothing yet.
LEMMA WorkerWriter ==
    ASSUME TypeOK, TargetsKnown, WriterInv, NEW t \in Workers, WorkerStep(t)
    PROVE  WriterInv'
<1>0. t \in Tasks /\ t # Monitor BY TasksAssumption DEF Tasks
<1>t. pc[t] # "idle" => target[t] \in Signals BY DEF TargetsKnown
<1> USE <1>0
<1>1. CASE EnterEvaluation(t)
  <2>1. Moved(t, "route") /\ UNCHANGED <<writer, wStatus>> /\ pc[t] = "lockwait"
    BY <1>1, GotoMoves DEF EnterEvaluation, session
  <2> QED BY <2>1, WriterIdle DEF Holds
<1>2. CASE Observe(t) \/ AskReview(t) \/ Refuse(t) \/ RefuseTwin(t) \/ SendRefused(t)
  <2>1. PICK st : EndWith(t, st) /\ pc[t] # "idle"
    BY <1>2 DEF Observe, AskReview, Refuse, RefuseTwin, SendRefused
  <2>2. /\ Moved(t, "commit") /\ TakeWriter(t)
        /\ \A u \in Tasks \ {t} : \A s \in Signals : wStatus'[u][s] = wStatus[u][s]
    BY <1>t, <2>1, EndWithEffect DEF EndWith, Marked
  <2> QED BY <2>2, WriterTaken
<1>3. CASE ReadAccount(t) \/ ListOpposite(t)
  <2>1. PICK where : /\ Moved(t, where)
                     /\ Holds(t, where) => Holds(t, pc[t])
                     /\ pc[t] # "flushExpiry"
    BY <1>3, GotoMoves DEF ReadAccount, ListOpposite, Holds
  <2>2. UNCHANGED <<writer, wStatus>> BY <1>3 DEF ReadAccount, ListOpposite, session
  <2> QED BY <2>1, <2>2, WriterIdle
<1>4. CASE ReadFails(t) \/ SendLost(t) \/ BusyTimeout(t)
  <2>1. Forgotten(t) /\ Moved(t, "failed")
    BY <1>4, RollbackEffect DEF ReadFails, SendLost, BusyTimeout
  <2> QED BY <2>1, WriterForgotten
<1>5. CASE Approve(t) \/ PersistOrder(t)
  <2>1. TakeWriter(t) /\ wStatus' = wStatus /\ \E where : Goto(t, where)
    BY <1>5 DEF Approve, PersistOrder, session
  <2> QED BY <2>1, GotoMoves, WriterTaken
<1>6. CASE BeginExecution(t)
  <2>1. TakeWriter(t) /\ WriteStatus(t, "APPROVED") /\ Moved(t, "send")
    BY <1>6, GotoMoves DEF BeginExecution
  <2>2. \A u \in Tasks \ {t} : \A s \in Signals : wStatus'[u][s] = wStatus[u][s]
    BY <2>1 DEF WriteStatus, TypeOK
  <2> QED BY <2>1, <2>2, WriterTaken
<1>7. ASSUME NEW k \in Tickets, CancelOpposite(t, k) PROVE WriterInv'
  <2>1. TakeWriter(t) \/ writer' = writer BY <1>7 DEF CancelOpposite
  <2>2. Moved(t, pc[t]) /\ wStatus' = wStatus /\ Holds(t, pc[t])
    BY <1>7 DEF CancelOpposite, Moved, Holds
  <2>3. CASE TakeWriter(t) BY <2>2, <2>3, WriterTaken
  <2>4. CASE writer' = writer BY <1>7, <2>2, <2>4, WriterIdle DEF CancelOpposite
  <2> QED BY <2>1, <2>3, <2>4
<1>8. CASE SendOrder(t)
  <2>1. Moved(t, "persist") /\ UNCHANGED <<writer, wStatus>> /\ pc[t] = "send"
    BY <1>8, GotoMoves DEF SendOrder, session
  <2>2. Holds(t, pc[t]) /\ pc[t] # "flushExpiry" BY <2>1 DEF Holds
  <2> QED BY <2>1, <2>2, WriterIdle
<1>9. CASE FinishExecution(t)
  <2>1. TakeWriter(t) /\ Moved(t, "commit")
    BY <1>9, GotoMoves DEF FinishExecution
  <2>2. \A u \in Tasks \ {t} : \A s \in Signals : wStatus'[u][s] = wStatus[u][s]
    BY <1>9 DEF FinishExecution, TypeOK
  <2> QED BY <2>1, <2>2, WriterTaken
<1>10. CASE Commit(t)
  <2>1. Forgotten(t) /\ Moved(t, "done") BY <1>10, CloseForgets, GotoMoves DEF Commit
  <2> QED BY <2>1, WriterForgotten
<1> QED BY <1>1, <1>2, <1>3, <1>4, <1>5, <1>6, <1>7, <1>8, <1>9, <1>10 DEF WorkerStep

\* The monitor writes with the writer, or has written nothing yet.
LEMMA MonitorWriter ==
    ASSUME TypeOK, WriterInv, MonitorStep
    PROVE  WriterInv'
<1>0. Monitor \in Tasks /\ Monitor \notin Workers BY TasksAssumption DEF Tasks
<1> USE <1>0
<1>1. CASE BeginCycle \/ CycleUnreadable \/ ReconcilePending \/ DetectClosures
  <2>1. UNCHANGED <<writer, wStatus>> /\ pc[Monitor] # "flushExpiry"
    BY <1>1 DEF BeginCycle, CycleUnreadable, ReconcilePending, DetectClosures, session
  <2>2. \E where : Goto(Monitor, where)
    BY <1>1 DEF BeginCycle, CycleUnreadable, ReconcilePending, DetectClosures
  <2> QED BY <2>1, <2>2, GotoMoves, WriterIdle
<1>2. CASE FlushOrders \/ FlushTrades \/ FlushExpiry
  <2>1. TakeWriter(Monitor) /\ wStatus' = wStatus /\ \E where : Goto(Monitor, where)
    BY <1>2 DEF FlushOrders, FlushTrades, FlushExpiry, Flush, session
  <2> QED BY <2>1, GotoMoves, WriterTaken
<1>3. CASE ExpireStaleSignals
  <2> DEFINE stale == {s \in due : dbStatus[s] = "NEEDS_REVIEW"}
  <2>1. writer' = writer /\ \A u \in Tasks \ {Monitor} : wStatus'[u] = wStatus[u]
    BY <1>3 DEF ExpireStaleSignals, TypeOK
  <2>2. CASE stale = {}
    <3>1. Moved(Monitor, "mcommit") /\ pc[Monitor] = "expiry"
      BY <1>3, <2>2, GotoMoves DEF ExpireStaleSignals
    <3>2. \A s \in Signals : wStatus'[Monitor][s] = wStatus[Monitor][s]
      BY <1>3, <2>2 DEF ExpireStaleSignals, TypeOK
    <3>3. SingleWriter => \A s \in Signals : wStatus'[Monitor][s] # Untouched => writer' = Monitor
      BY <2>1, <3>1, <3>2 DEF WriterInv, StatusWritten
    <3> QED BY <2>1, <3>1, <3>3, WriterMove
  <2>3. CASE stale # {}
    <3>1. Moved(Monitor, "flushExpiry") BY <1>3, <2>3, GotoMoves DEF ExpireStaleSignals
    <3> QED BY <2>1, <3>1, WriterMove
  <2> QED BY <2>2, <2>3
<1>4. CASE EndCycle \/ BusyTimeout(Monitor)
  <2>1. Forgotten(Monitor) /\ Moved(Monitor, "sleep")
    BY <1>4, RollbackEffect, CloseForgets, GotoMoves DEF EndCycle, BusyTimeout
  <2> QED BY <2>1, WriterForgotten
<1> QED BY <1>1, <1>2, <1>3, <1>4 DEF MonitorStep

\* Arrivals and approvals write with the writer.
LEMMA EntranceWriter ==
    ASSUME TypeOK, TargetsKnown, WriterInv, NEW t \in Workers,
           \/ t \in Signals /\ (Arrive(t) \/ RecordSignal(t))
           \/ t \in Requests /\ ExpireOnApproval(t)
           \/ /\ t \in Requests
              /\ \E s \in Signals : ApproveManually(t, s) \/ RejectManually(t, s)
    PROVE  WriterInv'
<1>0. t \in Tasks /\ t # Monitor /\ ~(t \in Signals /\ t \in Requests)
  BY TasksAssumption DEF Tasks
<1>1. PICK where : Moved(t, where) /\ where \in {"insert", "lockwait", "commit", "expire"}
  BY <1>0, GotoMoves
     DEF Arrive, RecordSignal, ExpireOnApproval, ApproveManually, RejectManually
<1>2. CASE TakeWriter(t)
  <2>1. \A u \in Tasks \ {t} : \A s \in Signals : wStatus'[u][s] = wStatus[u][s]
    BY DEF Arrive, RecordSignal, ExpireOnApproval, ApproveManually, RejectManually,
           WriteStatus, session, TypeOK
  <2> QED BY <1>0, <1>1, <1>2, <2>1, WriterTaken
<1>3. CASE \/ t \in Signals /\ Arrive(t)
           \/ t \in Requests /\ \E s \in Signals : ApproveManually(t, s)
  <2>1. UNCHANGED <<writer, wStatus>> /\ pc[t] = "idle"
    BY <1>3 DEF Arrive, ApproveManually, session
  <2>2. PICK there : /\ Goto(t, there)
                     /\ there = "insert" \/ (t \in Requests /\ there \in {"expire", "lockwait"})
    BY <1>3 DEF Arrive, ApproveManually
  <2>3. Moved(t, there) /\ ~Holds(t, there) BY <1>0, <2>2, GotoMoves DEF Holds
  <2> QED BY <1>0, <2>1, <2>3, WriterIdle
<1> QED BY <1>2, <1>3 DEF RecordSignal, ExpireOnApproval, RejectManually

\* Every step keeps the discipline of the single writer.
LEMMA WriterStep ==
    ASSUME TypeOK, TargetsKnown, WriterInv, [Next]_vars
    PROVE  WriterInv'
<1>0. Signals \subseteq Workers /\ Requests \subseteq Workers BY DEF Workers
<1>1. ASSUME NEW s \in Signals, MessageStep(s) PROVE WriterInv'
  BY <1>0, <1>1, EntranceWriter, WorkerWriter DEF MessageStep
<1>2. ASSUME NEW r \in Requests, RequestStep(r) PROVE WriterInv'
  BY <1>0, <1>2, EntranceWriter, WorkerWriter DEF RequestStep
<1>3. CASE MonitorStep BY <1>3, MonitorWriter
<1>4. ASSUME NEW s \in Signals, Arrive(s) PROVE WriterInv'
  BY <1>0, <1>4, EntranceWriter
<1>5. ASSUME NEW r \in Requests, NEW s \in Signals,
             ApproveManually(r, s) \/ RejectManually(r, s)
      PROVE  WriterInv'
  BY <1>0, <1>5, EntranceWriter
<1>6. CASE Crash
  <2>1. \A t \in Workers : ~Holds(t, pc'[t])
    BY <1>6, TasksAssumption DEF Crash, Holds, Tasks
  <2>2. \A t \in Tasks : \A s \in Signals : wStatus'[t][s] = Untouched
    BY <1>6 DEF Crash, NoStatus
  <2> QED BY <2>1, <2>2 DEF WriterInv, WriterKept, StatusWritten
<1>7. CASE \/ UNCHANGED vars
           \/ \E s \in Signals : Deadline(s)
           \/ \E b \in BOOLEAN : SetPaused(b)
           \/ \E k \in Tickets : BrokerMoves(k)
  <2>1. UNCHANGED <<pc, writer, wStatus>>
    BY <1>7 DEF vars, local, session, Deadline, SetPaused, BrokerMoves
  <2> QED BY <2>1 DEF WriterInv, WriterKept, StatusWritten
<1> QED BY <1>1, <1>2, <1>3, <1>4, <1>5, <1>6, <1>7 DEF Next, Outside

\* Both hold from the start and at every step.
LEMMA WriterHeld == Spec => [](TypeOK /\ TargetsKnown /\ WriterInv)
<1>1. Init => TargetsKnown /\ WriterInv
  BY TasksAssumption DEF Init, TargetsKnown, WriterInv, WriterKept, StatusWritten, Holds,
     NoStatus, Tasks
<1>2. TypeOK /\ TargetsKnown /\ [Next]_vars => TargetsKnown' BY TargetsStep
<1>3. TypeOK /\ TargetsKnown /\ WriterInv /\ [Next]_vars => WriterInv' BY WriterStep
<1> QED BY <1>1, <1>2, <1>3, TypeCorrect, PTL DEF Spec

-----------------------------------------------------------------------------
(* Orders without a row.                                                   *)

\* A session never erases a row, and a worker has written none before it cancels.
RowsNamed == \A t \in Tasks : \A k \in Tickets : wRow[t][k] # "none"
EarlyRows ==
    \A t \in Workers :
        pc[t] \notin {"cancelling", "send", "persist", "commit"} =>
            \A k \in Tickets : wRow[t][k] = Untouched

OrphanInv == RowsNamed /\ EarlyRows /\ NoOrphan

\* Where the row of a ticket is, or is about to be.
RowOf(k) == \/ dbRow[k] # "none"
            \/ \E t \in Workers : \/ wRow[t][k] # Untouched
                                  \/ pc[t] = "persist" /\ ticket[t] = k

\* A step of one task keeps every live order's row when what the task itself knew
\* of rows and tickets is kept, or has reached the tables.
LEMMA OrphanMove ==
    ASSUME TypeOK, OrphanInv, NEW t \in Tasks, NEW where, Moved(t, where),
           faults \in Nat, faults' = 0 => faults = 0,
           \A k \in Tickets : dbRow[k] # "none" => dbRow'[k] # "none",
           \A u \in Tasks \ {t} : \A k \in Tickets : wRow'[u][k] = wRow[u][k],
           \A u \in Tasks \ {t} : ticket'[u] = ticket[u],
           \A k \in Tickets : wRow'[t][k] # "none",
           t \in Workers /\ where \notin {"cancelling", "send", "persist", "commit"} =>
               \A k \in Tickets : wRow'[t][k] = Untouched,
           faults' = 0 /\ t \in Workers =>
               \A k \in Tickets :
                   wRow[t][k] # Untouched => wRow'[t][k] # Untouched \/ dbRow'[k] # "none",
           faults' = 0 /\ t \in Workers /\ pc[t] = "persist" =>
               \A k \in Tickets : k = ticket[t] => wRow'[t][k] # Untouched,
           \A k \in Tickets : Alive(k)' =>
               Alive(k) \/ faults' # 0 \/ (t \in Workers /\ where = "persist" /\ ticket'[t] = k)
    PROVE  OrphanInv'
<1>0. Workers \subseteq Tasks BY DEF Tasks
<1>1. RowsNamed' BY DEF OrphanInv, RowsNamed
<1>2. EarlyRows' BY <1>0 DEF OrphanInv, EarlyRows, Moved
<1>3. NoOrphan'
  <2> SUFFICES ASSUME faults' = 0, NEW k \in Tickets, Alive(k)'
               PROVE  RowOf(k)'
    BY DEF NoOrphan, RowOf
  <2>1. CASE t \in Workers /\ where = "persist" /\ ticket'[t] = k
    BY <1>0, <2>1 DEF RowOf, Moved
  <2>2. CASE Alive(k)
    <3>1. RowOf(k) BY <2>2 DEF OrphanInv, NoOrphan, RowOf
    <3>2. ASSUME NEW u \in Workers, wRow[u][k] # Untouched PROVE RowOf(k)'
      BY <1>0, <3>2 DEF RowOf
    <3>3. ASSUME NEW u \in Workers, pc[u] = "persist" /\ ticket[u] = k PROVE RowOf(k)'
      BY <1>0, <3>3 DEF RowOf, Moved
    <3> QED BY <3>1, <3>2, <3>3 DEF RowOf
  <2> QED BY <2>1, <2>2
<1> QED BY <1>1, <1>2, <1>3 DEF OrphanInv

\* The rows of the task that moves are left alone.
LEMMA OrphanSame ==
    ASSUME TypeOK, OrphanInv, NEW t \in Tasks, NEW where, Moved(t, where),
           UNCHANGED <<dbRow, wRow, broker, ticket, faults>>,
           t \in Workers =>
               /\ pc[t] # "persist"
               /\ \/ where \in {"cancelling", "send", "persist", "commit"}
                  \/ pc[t] \notin {"cancelling", "send", "persist", "commit"}
    PROVE  OrphanInv'
<1>1. faults \in Nat BY BoundsAssumption DEF TypeOK
<1>2. \A k \in Tickets : wRow[t][k] # "none" BY DEF OrphanInv, RowsNamed
<1>3. t \in Workers /\ where \notin {"cancelling", "send", "persist", "commit"} =>
         \A k \in Tickets : wRow'[t][k] = Untouched
  BY DEF OrphanInv, EarlyRows
<1>4. \A k \in Tickets : Alive(k)' => Alive(k) BY DEF Alive
<1> QED BY <1>1, <1>2, <1>3, <1>4, OrphanMove

\* A session that rolls back loses no row: it has written none, unless a call to
\* the terminal was lost.
LEMMA OrphanRolledBack ==
    ASSUME TypeOK, OrphanInv, NEW t \in Tasks, Rollback(t), faults' \in Nat,
           faults' = 0 => /\ faults = 0 /\ UNCHANGED terminal
                          /\ t \in Workers =>
                                pc[t] \notin {"cancelling", "send", "persist", "commit"}
    PROVE  OrphanInv'
<1>0. t \in Workers => t # Monitor BY TasksAssumption
<1>1. /\ Forgotten(t) /\ UNCHANGED <<dbRow, ticket>>
      /\ Moved(t, IF t = Monitor THEN "sleep" ELSE "failed")
  BY RollbackEffect DEF memory, plan, tables
<1>2. faults \in Nat BY BoundsAssumption DEF TypeOK
<1>3. /\ \A u \in Tasks \ {t} : \A k \in Tickets : wRow'[u][k] = wRow[u][k]
      /\ \A k \in Tickets : wRow'[t][k] = Untouched
  BY <1>1 DEF Forgotten
<1>4. faults' = 0 /\ t \in Workers => \A k \in Tickets : wRow[t][k] = Untouched
  BY DEF OrphanInv, EarlyRows
<1>5. \A k \in Tickets : Alive(k)' => Alive(k) \/ faults' # 0
  BY DEF Alive, terminal
<1>6. Untouched # "none" BY DEF Untouched
<1> QED BY <1>0, <1>1, <1>2, <1>3, <1>4, <1>5, <1>6, OrphanMove

\* A session that commits leaves its rows in the tables.
LEMMA OrphanCommitted ==
    ASSUME TypeOK, OrphanInv, NEW t \in Tasks, NEW where, Moved(t, where),
           t \in Workers => pc[t] # "persist",
           Publish(t), CloseSession(t), UNCHANGED <<broker, ticket, faults>>
    PROVE  OrphanInv'
<1>1. Written(t) /\ Forgotten(t) BY PublishWrites, CloseForgets
<1>2. faults \in Nat BY BoundsAssumption DEF TypeOK
<1>3. /\ \A u \in Tasks \ {t} : \A k \in Tickets : wRow'[u][k] = wRow[u][k]
      /\ \A k \in Tickets : wRow'[t][k] = Untouched
  BY <1>1 DEF Forgotten
<1>4. /\ \A k \in Tickets : wRow[t][k] # "none"
      /\ \A k \in Tickets : dbRow[k] # "none" => dbRow'[k] # "none"
      /\ \A k \in Tickets : wRow[t][k] # Untouched => dbRow'[k] # "none"
  BY <1>1 DEF OrphanInv, RowsNamed, Written
<1>5. \A k \in Tickets : Alive(k)' => Alive(k) BY DEF Alive
<1>6. Untouched # "none" BY DEF Untouched
<1> QED BY <1>1, <1>2, <1>3, <1>4, <1>5, <1>6, OrphanMove

\* Where a worker's flush can find the writer taken: before it has written a row.
LEMMA BusyEarly ==
    ASSUME TypeOK, WriterInv, NEW t \in Workers, BusyTimeout(t)
    PROVE  pc[t] \in {"insert", "expire", "evaluate", "route"}
<1>1. SingleWriter /\ writer # t
  BY DEF BusyTimeout, CanWrite
<1>2. ~Holds(t, pc[t]) BY <1>1 DEF WriterInv, WriterKept
<1>3. pc[t] \notin {"flushOrders", "flushTrades", "flushExpiry"}
  BY DEF TypeOK, WorkerPc
<1> QED BY <1>2, <1>3 DEF BusyTimeout, WantsToWrite, Holds

\* An evaluation that sent an order records its row or leaves it to be found.
LEMMA WorkerOrphan ==
    ASSUME TypeOK, TargetsKnown, WriterInv, OrphanInv, PlacedFilled, NEW t \in Workers,
           WorkerStep(t)
    PROVE  OrphanInv'
<1>0. t \in Tasks /\ t # Monitor /\ faults \in Nat
  BY TasksAssumption, BoundsAssumption DEF Tasks, TypeOK
<1>t. pc[t] # "idle" => target[t] \in Signals BY DEF TargetsKnown
<1>n. \A k \in Tickets : wRow[t][k] # "none" BY <1>0 DEF OrphanInv, RowsNamed
<1> USE <1>0
<1>1. CASE \/ EnterEvaluation(t) \/ ReadAccount(t) \/ Approve(t) \/ ListOpposite(t)
           \/ BeginExecution(t)
  <2>1. UNCHANGED <<dbRow, wRow, broker, ticket, faults>>
    BY <1>1 DEF EnterEvaluation, ReadAccount, Approve, ListOpposite, BeginExecution,
                WriteStatus, session, tables, terminal, memory, plan
  <2>2. PICK where : /\ Goto(t, where) /\ pc[t] # "persist"
                     /\ \/ where \in {"cancelling", "send", "persist", "commit"}
                        \/ pc[t] \notin {"cancelling", "send", "persist", "commit"}
    BY <1>1 DEF EnterEvaluation, ReadAccount, Approve, ListOpposite, BeginExecution
  <2> QED BY <2>1, <2>2, GotoMoves, OrphanSame
<1>2. CASE Observe(t) \/ AskReview(t) \/ Refuse(t) \/ RefuseTwin(t) \/ SendRefused(t)
  <2>1. PICK st : EndWith(t, st) /\ pc[t] \notin {"idle", "persist"}
    BY <1>2 DEF Observe, AskReview, Refuse, RefuseTwin, SendRefused
  <2>2. Moved(t, "commit") /\ UNCHANGED <<dbRow, wRow, broker, ticket, faults>>
    BY <1>t, <2>1, EndWithEffect DEF memory, plan, tables, terminal
  <2> QED BY <2>1, <2>2, OrphanSame
<1>3. CASE ReadFails(t) \/ BusyTimeout(t)
  <2>1. Rollback(t) /\ UNCHANGED <<terminal, faults>>
    BY <1>3 DEF ReadFails, BusyTimeout
  <2>2. pc[t] \notin {"cancelling", "send", "persist", "commit"}
    BY <1>3, BusyEarly DEF ReadFails
  <2> QED BY <2>1, <2>2, OrphanRolledBack
<1>4. CASE SendLost(t)
  <2>1. Rollback(t) /\ faults' \in Nat /\ faults' # 0 BY <1>4 DEF SendLost
  <2> QED BY <2>1, OrphanRolledBack
<1>5. ASSUME NEW k \in Tickets, CancelOpposite(t, k) PROVE OrphanInv'
  <2>1. Moved(t, pc[t]) /\ UNCHANGED <<dbRow, ticket, faults>> /\ pc[t] = "cancelling"
    BY <1>5 DEF CancelOpposite, Moved, tables
  <2>2. CASE UNCHANGED <<broker, wRow>>
    BY <2>1, <2>2, OrphanSame
  <2>3. CASE /\ broker' = [broker EXCEPT ![k] = "gone"]
             /\ wRow' = [wRow EXCEPT ![t][k] = "cancelled"]
    <3>1. \A u \in Tasks : \A l \in Tickets :
             wRow'[u][l] = IF u = t /\ l = k THEN "cancelled" ELSE wRow[u][l]
      BY <2>3 DEF TypeOK
    <3>2. \A l \in Tickets : Alive(l)' => Alive(l)
      BY <2>3 DEF Alive, TypeOK
    <3>3. Untouched # "cancelled" BY DEF Untouched
    <3> QED BY <1>n, <2>1, <3>1, <3>2, <3>3, OrphanMove
  <2> QED BY <1>5, <2>2, <2>3 DEF CancelOpposite
<1>6. CASE SendOrder(t)
  <2>1. /\ Moved(t, "persist") /\ pc[t] = "send" /\ UNCHANGED <<dbRow, wRow, faults>>
    BY <1>6, GotoMoves DEF SendOrder, session, tables
  <2>2. \A u \in Tasks : ticket'[u] = IF u = t THEN lastTicket' ELSE ticket[u]
    BY <1>6 DEF SendOrder, TypeOK
  <2>3. \A k \in Tickets : Alive(k)' => Alive(k) \/ ticket'[t] = k
    <3>1. Accept(t) BY <1>6 DEF SendOrder
    <3> QED BY <2>2, <3>1 DEF Accept, Alive, TypeOK
  <2> QED BY <1>n, <2>1, <2>2, <2>3, OrphanMove
<1>7. CASE PersistOrder(t) \/ FinishExecution(t)
  <2>1. PICK where \in {"send", "commit"} : Goto(t, where)
    BY <1>7 DEF PersistOrder, FinishExecution
  <2>2. Moved(t, where) BY <2>1, GotoMoves
  <2>3. UNCHANGED <<dbRow, broker, ticket, faults>>
    BY <1>7 DEF PersistOrder, FinishExecution, tables, terminal, memory, plan
  <2>4. \A u \in Tasks : \A k \in Tickets :
           wRow'[u][k] = IF u = t /\ k = ticket[t] THEN NewRow(target[t]) ELSE wRow[u][k]
    <3>1. wRow' = [wRow EXCEPT ![t][ticket[t]] = NewRow(target[t])]
      BY <1>7 DEF PersistOrder, FinishExecution
    <3>2. ticket[t] \in Tickets BY <1>7 DEF PersistOrder, FinishExecution, PlacedFilled
    <3> QED BY <3>1, <3>2 DEF TypeOK
  <2>5. NewRow(target[t]) \notin {"none", Untouched} BY DEF NewRow, Untouched
  <2>6. \A k \in Tickets : Alive(k)' => Alive(k) BY <2>3 DEF Alive
  <2> QED BY <1>n, <2>1, <2>2, <2>3, <2>4, <2>5, <2>6, OrphanMove
<1>8. CASE Commit(t)
  <2>1. /\ Moved(t, "done") /\ pc[t] = "commit" /\ Publish(t) /\ CloseSession(t)
        /\ UNCHANGED <<broker, ticket, faults>>
    BY <1>8, GotoMoves DEF Commit, terminal, memory, plan
  <2> QED BY <2>1, OrphanCommitted
<1> QED BY <1>1, <1>2, <1>3, <1>4, <1>5, <1>6, <1>7, <1>8 DEF WorkerStep

\* The monitor drops no row of an order that is alive.
LEMMA MonitorOrphan ==
    ASSUME TypeOK, OrphanInv, MonitorStep
    PROVE  OrphanInv'
<1>0. Monitor \in Tasks /\ Monitor \notin Workers /\ faults \in Nat
  BY TasksAssumption, BoundsAssumption DEF Tasks, TypeOK
<1>n. \A k \in Tickets : wRow[Monitor][k] # "none" BY <1>0 DEF OrphanInv, RowsNamed
<1> USE <1>0
<1>1. CASE \/ BeginCycle \/ CycleUnreadable \/ FlushOrders \/ FlushTrades \/ FlushExpiry
           \/ ExpireStaleSignals
  <2>1. UNCHANGED <<dbRow, wRow, broker, ticket, faults>>
    BY <1>1 DEF BeginCycle, CycleUnreadable, FlushOrders, FlushTrades, FlushExpiry, Flush,
                ExpireStaleSignals, session, tables, terminal, memory, plan
  <2>2. \E where : Goto(Monitor, where)
    BY <1>1 DEF BeginCycle, CycleUnreadable, FlushOrders, FlushTrades, FlushExpiry, Flush,
                ExpireStaleSignals
  <2> QED BY <2>1, <2>2, GotoMoves, OrphanSame
<1>2. CASE ReconcilePending \/ DetectClosures
  <2>1. UNCHANGED <<dbRow, broker, ticket, faults>> /\ \E where : Goto(Monitor, where)
    BY <1>2 DEF ReconcilePending, DetectClosures, tables, terminal, memory, plan
  <2>2. \A u \in Tasks \ {Monitor} : \A k \in Tickets : wRow'[u][k] = wRow[u][k]
    BY <1>2 DEF ReconcilePending, DetectClosures, TypeOK
  <2>3. \A k \in Tickets :
           wRow'[Monitor][k] \in {wRow[Monitor][k], "open", "cancelled", "closed"}
    BY <1>2 DEF ReconcilePending, DetectClosures, TypeOK
  <2>4. \A k \in Tickets : Alive(k)' => Alive(k) BY <2>1 DEF Alive
  <2> QED BY <1>n, <2>1, <2>2, <2>3, <2>4, GotoMoves, OrphanMove
<1>3. CASE EndCycle
  <2>1. /\ Moved(Monitor, "sleep") /\ Publish(Monitor) /\ CloseSession(Monitor)
        /\ UNCHANGED <<broker, ticket, faults>>
    BY <1>3, GotoMoves DEF EndCycle, terminal, memory, plan
  <2> QED BY <2>1, OrphanCommitted
<1>4. CASE BusyTimeout(Monitor)
  BY <1>4, OrphanRolledBack DEF BusyTimeout
<1> QED BY <1>1, <1>2, <1>3, <1>4 DEF MonitorStep

\* Arrivals and approvals touch no order.
LEMMA EntranceOrphan ==
    ASSUME TypeOK, OrphanInv, NEW t \in Workers,
           \/ t \in Signals /\ (Arrive(t) \/ RecordSignal(t))
           \/ t \in Requests /\ ExpireOnApproval(t)
           \/ /\ t \in Requests
              /\ \E s \in Signals : ApproveManually(t, s) \/ RejectManually(t, s)
    PROVE  OrphanInv'
<1>1. UNCHANGED <<dbRow, wRow, broker, ticket, faults>>
  BY DEF Arrive, RecordSignal, ExpireOnApproval, ApproveManually, RejectManually,
         WriteStatus, session, tables, terminal, memory, reads, plan
<1>2. /\ \E where : Goto(t, where)
      /\ pc[t] \in {"idle", "insert", "expire"}
  BY DEF Arrive, RecordSignal, ExpireOnApproval, ApproveManually, RejectManually
<1> QED BY <1>1, <1>2, GotoMoves, OrphanSame DEF Tasks

\* Every step keeps each order known to a row or to the task that sent it.
LEMMA OrphanStep ==
    ASSUME TypeOK, TargetsKnown, WriterInv, OrphanInv, PlacedFilled, [Next]_vars
    PROVE  OrphanInv'
<1>0. Signals \subseteq Workers /\ Requests \subseteq Workers /\ faults \in Nat
  BY BoundsAssumption DEF Workers, TypeOK
<1>1. ASSUME NEW s \in Signals, MessageStep(s) PROVE OrphanInv'
  BY <1>0, <1>1, EntranceOrphan, WorkerOrphan DEF MessageStep
<1>2. ASSUME NEW r \in Requests, RequestStep(r) PROVE OrphanInv'
  BY <1>0, <1>2, EntranceOrphan, WorkerOrphan DEF RequestStep
<1>3. CASE MonitorStep BY <1>3, MonitorOrphan
<1>4. ASSUME NEW s \in Signals, Arrive(s) PROVE OrphanInv'
  BY <1>0, <1>4, EntranceOrphan
<1>5. ASSUME NEW r \in Requests, NEW s \in Signals,
             ApproveManually(r, s) \/ RejectManually(r, s)
      PROVE  OrphanInv'
  BY <1>0, <1>5, EntranceOrphan
<1>6. CASE Crash
  <2>1. faults' # 0 BY <1>0, <1>6 DEF Crash
  <2>2. \A t \in Tasks : \A k \in Tickets : wRow'[t][k] = Untouched
    BY <1>6 DEF Crash, NoRow
  <2> QED BY <2>1, <2>2 DEF OrphanInv, RowsNamed, EarlyRows, NoOrphan, Untouched, Tasks
<1>7. ASSUME NEW k \in Tickets, BrokerMoves(k) PROVE OrphanInv'
  <2>1. UNCHANGED <<pc, dbRow, wRow, ticket, faults>>
    BY <1>7 DEF BrokerMoves, local, memory, plan, session, tables
  <2>2. \A l \in Tickets : Alive(l)' => Alive(l) BY <1>7 DEF BrokerMoves, Alive, TypeOK
  <2> QED BY <2>1, <2>2 DEF OrphanInv, RowsNamed, EarlyRows, NoOrphan
<1>8. CASE \/ UNCHANGED vars
           \/ \E s \in Signals : Deadline(s)
           \/ \E b \in BOOLEAN : SetPaused(b)
  <2>1. UNCHANGED <<pc, dbRow, wRow, broker, ticket, faults>>
    BY <1>8 DEF vars, local, memory, plan, session, tables, terminal, Deadline, SetPaused
  <2> QED BY <2>1 DEF OrphanInv, RowsNamed, EarlyRows, NoOrphan, Alive
<1> QED BY <1>1, <1>2, <1>3, <1>4, <1>5, <1>6, <1>7, <1>8 DEF Next, Outside

\* What ClosuresAreTrue rests on holds at every step.
LEMMA ClosureHeld == Spec => []ClosureInv
<1>1. Init => ClosureInv
  BY TasksAssumption
  DEF Init, ClosureInv, FreshTickets, OpenRowsFilled, ClosedRowsGone, PlacedFilled,
      SnapshotCovers, NoRow, Untouched, Tasks
<1>2. TypeOK /\ OneAtATime /\ ClosureInv /\ [Next]_vars => ClosureInv' BY NextClosure
<1> QED BY <1>1, <1>2, TypeCorrect, MutualExclusion, PTL DEF Spec

\* As long as nothing crashes and no call to the terminal is lost, every order the
\* broker has is known to the Bridge: its row is committed, or waits in an open
\* session, or is about to be written by the worker that placed it.  On SQLite the
\* reason is that a session that places orders already holds the writer, so that no
\* flush of it can time out and roll the rows back.
THEOREM NoOrderIsLost == Spec => []NoOrphan
<1>1. Init => OrphanInv
  BY DEF Init, OrphanInv, RowsNamed, EarlyRows, NoOrphan, Alive, NoRow, Untouched, Tasks
<1>2. TypeOK /\ TargetsKnown /\ WriterInv /\ ClosureInv /\ OrphanInv /\ [Next]_vars
        => OrphanInv'
  BY OrphanStep DEF ClosureInv
<1>3. OrphanInv => NoOrphan BY DEF OrphanInv
<1> QED BY <1>1, <1>2, <1>3, WriterHeld, ClosureHeld, PTL DEF Spec

-----------------------------------------------------------------------------
(* Expired signals.                                                        *)

\* Only a signal past its deadline expires; a worker that has passed the limits
\* works on a signal that has not, and its session says executed only at commit.
ExpiredDue ==
    \A s \in Signals : /\ dbStatus[s] = "EXPIRED" => s \in due
                       /\ \A t \in Tasks : wStatus[t][s] = "EXPIRED" => s \in due
ChosenFresh ==
    \A t \in Workers : pc[t] \in {"listing", "cancelling", "send", "persist"} =>
        dbStatus[target[t]] # "EXPIRED"
SentFresh ==
    \A t \in Tasks : \A s \in Signals :
        wStatus[t][s] \in {"OPEN", "SENT"} =>
            t \in Workers /\ pc[t] = "commit" /\ dbStatus[s] # "EXPIRED"

ExpiryInv == ExpiredDue /\ ChosenFresh /\ SentFresh

\* A step of one task that publishes nothing.
LEMMA ExpiryMove ==
    ASSUME TypeOK, ExpiryInv, NEW t \in Tasks, NEW where, Moved(t, where),
           dbStatus' = dbStatus, due' = due,
           \A u \in Tasks \ {t} : target'[u] = target[u],
           \A u \in Tasks \ {t} : \A s \in Signals : wStatus'[u][s] = wStatus[u][s],
           \A s \in Signals : wStatus'[t][s] = "EXPIRED" => s \in due,
           t \in Workers /\ where \in {"listing", "cancelling", "send", "persist"} =>
               dbStatus[target'[t]] # "EXPIRED",
           \A s \in Signals : wStatus'[t][s] \in {"OPEN", "SENT"} =>
               t \in Workers /\ where = "commit" /\ dbStatus[s] # "EXPIRED"
    PROVE  ExpiryInv'
<1>1. ExpiredDue' BY DEF ExpiryInv, ExpiredDue
<1>2. ChosenFresh' BY DEF ExpiryInv, ChosenFresh, Moved, Tasks
<1>3. SentFresh' BY DEF ExpiryInv, SentFresh, Moved
<1> QED BY <1>1, <1>2, <1>3 DEF ExpiryInv

\* The statuses of the task that moves are left alone.
LEMMA ExpirySame ==
    ASSUME TypeOK, ExpiryInv, NEW t \in Tasks, NEW where, Moved(t, where),
           UNCHANGED <<dbStatus, due, wStatus>>, pc[t] # "commit",
           \A u \in Tasks \ {t} : target'[u] = target[u],
           t \in Workers /\ where \in {"listing", "cancelling", "send", "persist"} =>
               dbStatus[target'[t]] # "EXPIRED"
    PROVE  ExpiryInv'
<1>1. \A s \in Signals : wStatus[t][s] \notin {"OPEN", "SENT"}
  BY DEF ExpiryInv, SentFresh
<1>2. \A s \in Signals : wStatus[t][s] = "EXPIRED" => s \in due
  BY DEF ExpiryInv, ExpiredDue
<1> QED BY <1>1, <1>2, ExpiryMove

\* The task writes one status that neither expires nor executes its signal.
LEMMA ExpiryStatus ==
    ASSUME TypeOK, ExpiryInv, NEW t \in Tasks, NEW where, Moved(t, where),
           pc[t] # "commit", UNCHANGED <<dbStatus, due>>,
           \A u \in Tasks \ {t} : target'[u] = target[u],
           NEW x, NEW st, st \notin {"OPEN", "SENT"}, st = "EXPIRED" => x \in due,
           Marked(t, x, st),
           t \in Workers /\ where \in {"listing", "cancelling", "send", "persist"} =>
               dbStatus[target'[t]] # "EXPIRED"
    PROVE  ExpiryInv'
<1>1. \A s \in Signals : wStatus[t][s] \notin {"OPEN", "SENT"}
  BY DEF ExpiryInv, SentFresh
<1>2. \A s \in Signals : wStatus[t][s] = "EXPIRED" => s \in due
  BY DEF ExpiryInv, ExpiredDue
<1> QED BY <1>1, <1>2, ExpiryMove DEF Marked

\* A session that ends, by a rollback or after its commit.
LEMMA ExpiryForgotten ==
    ASSUME TypeOK, ExpiryInv, NEW t \in Tasks, Rollback(t), due' = due
    PROVE  ExpiryInv'
<1>1. /\ Forgotten(t) /\ UNCHANGED <<dbStatus, target>>
      /\ Moved(t, IF t = Monitor THEN "sleep" ELSE "failed")
  BY RollbackEffect DEF memory, tables
<1>2. \A u \in Tasks : \A s \in Signals :
         wStatus'[u][s] = IF u = t THEN Untouched ELSE wStatus[u][s]
  BY <1>1 DEF Forgotten
<1>3. Untouched \notin {"OPEN", "SENT", "EXPIRED"} BY DEF Untouched
<1> QED BY <1>1, <1>2, <1>3, ExpiryMove

\* A commit: the session that publishes is the only one whose status can change
\* what the others have seen, and it holds the writer.
LEMMA ExpiryCommitted ==
    ASSUME TypeOK, TargetsKnown, WriterInv, SingleWriter, ExpiryInv, NEW t \in Tasks,
           pc[t] \in {"commit", "mcommit"}, NEW where, Moved(t, where),
           where \in {"done", "sleep"}, Publish(t), CloseSession(t),
           UNCHANGED <<due, target>>
    PROVE  ExpiryInv'
<1>0. Workers \subseteq Tasks BY DEF Tasks
<1>1. Written(t) /\ Forgotten(t) BY PublishWrites, CloseForgets
<1>2. \A s \in Signals : wStatus[t][s] # Untouched => writer = t
  BY DEF WriterInv, StatusWritten
<1>3. ExpiredDue'
  BY <1>1 DEF ExpiryInv, ExpiredDue, Written, Forgotten, Untouched
<1>4. ASSUME NEW u \in Workers, u # t, Holds(u, pc[u])
      PROVE  \A s \in Signals : dbStatus'[s] = dbStatus[s]
  BY <1>1, <1>2, <1>4 DEF WriterInv, WriterKept, Written
<1>5. ChosenFresh'
  <2> SUFFICES ASSUME NEW u \in Workers,
                      pc'[u] \in {"listing", "cancelling", "send", "persist"}
               PROVE  dbStatus'[target'[u]] # "EXPIRED"
    BY DEF ChosenFresh
  <2>1. u # t /\ pc[u] = pc'[u] BY <1>0 DEF Moved
  <2>2. Holds(u, pc[u]) /\ target[u] \in Signals BY <2>1 DEF Holds, TargetsKnown
  <2> QED BY <1>4, <2>1, <2>2 DEF ExpiryInv, ChosenFresh
<1>6. SentFresh'
  <2> SUFFICES ASSUME NEW u \in Tasks, NEW s \in Signals, wStatus'[u][s] \in {"OPEN", "SENT"}
               PROVE  u \in Workers /\ pc'[u] = "commit" /\ dbStatus'[s] # "EXPIRED"
    BY DEF SentFresh
  <2>1. u # t /\ wStatus[u][s] \in {"OPEN", "SENT"}
    BY <1>1 DEF Forgotten, Untouched
  <2>2. u \in Workers /\ pc[u] = "commit" /\ dbStatus[s] # "EXPIRED"
    BY <2>1 DEF ExpiryInv, SentFresh
  <2> QED BY <1>4, <2>1, <2>2 DEF Holds, Moved
<1> QED BY <1>3, <1>5, <1>6 DEF ExpiryInv

\* An evaluation executes no signal that expired.
LEMMA WorkerExpiry ==
    ASSUME TypeOK, TargetsKnown, WriterInv, SingleWriter, LongAge = {}, ExpiryInv,
           NEW t \in Workers, WorkerStep(t)
    PROVE  ExpiryInv'
<1>0. t \in Tasks /\ t # Monitor BY TasksAssumption DEF Tasks
<1>t. pc[t] # "idle" => target[t] \in Signals BY DEF TargetsKnown
<1> USE <1>0
<1>1. CASE EnterEvaluation(t) \/ ReadAccount(t) \/ ListOpposite(t) \/ SendOrder(t)
  <2>1. UNCHANGED <<dbStatus, due, wStatus, target>>
    BY <1>1 DEF EnterEvaluation, ReadAccount, ListOpposite, SendOrder, session, tables
  <2>2. PICK where : /\ Goto(t, where) /\ pc[t] # "commit"
                     /\ where \in {"listing", "cancelling", "send", "persist"} =>
                           pc[t] \in {"listing", "cancelling", "send", "persist"}
    BY <1>1 DEF EnterEvaluation, ReadAccount, ListOpposite, SendOrder
  <2>3. where \in {"listing", "cancelling", "send", "persist"} =>
           dbStatus[target'[t]] # "EXPIRED"
    BY <2>1, <2>2 DEF ExpiryInv, ChosenFresh
  <2> QED BY <2>1, <2>2, <2>3, GotoMoves, ExpirySame
<1>2. CASE Observe(t) \/ AskReview(t) \/ Refuse(t) \/ RefuseTwin(t) \/ SendRefused(t)
  <2>1. PICK st \in {"OBSERVED", "NEEDS_REVIEW", "REJECTED", "FAILED"} :
           EndWith(t, st) /\ pc[t] \notin {"idle", "commit"}
    BY <1>2 DEF Observe, AskReview, Refuse, RefuseTwin, SendRefused
  <2>2. /\ Moved(t, "commit") /\ UNCHANGED <<dbStatus, due, target>>
        /\ Marked(t, target[t], st)
    BY <1>t, <2>1, EndWithEffect DEF memory, tables
  <2>3. st \notin {"OPEN", "SENT", "EXPIRED"} /\ pc[t] # "commit" BY <2>1
  <2> QED BY <2>2, <2>3, ExpiryStatus
<1>3. CASE ReadFails(t) \/ BusyTimeout(t) \/ SendLost(t)
  BY <1>3, ExpiryForgotten DEF ReadFails, BusyTimeout, SendLost
<1>4. CASE Approve(t)
  <2>1. /\ UNCHANGED <<dbStatus, due, wStatus, target>> /\ Moved(t, "listing")
        /\ pc[t] = "evaluate"
    BY <1>4, GotoMoves DEF Approve, session, tables, memory
  <2>2. target[t] \notin due BY <1>4 DEF Approve, WithinLimits
  <2>3. dbStatus[target'[t]] # "EXPIRED"
    BY <1>t, <2>1, <2>2 DEF ExpiryInv, ExpiredDue
  <2> QED BY <2>1, <2>3, ExpirySame
<1>5. ASSUME NEW k \in Tickets, CancelOpposite(t, k) PROVE ExpiryInv'
  <2>1. /\ UNCHANGED <<dbStatus, due, wStatus, target>> /\ Moved(t, "cancelling")
        /\ pc[t] = "cancelling"
    BY <1>5 DEF CancelOpposite, Moved, tables
  <2>2. dbStatus[target'[t]] # "EXPIRED" BY <2>1 DEF ExpiryInv, ChosenFresh
  <2> QED BY <2>1, <2>2, ExpirySame
<1>6. CASE BeginExecution(t)
  <2>1. /\ WriteStatus(t, "APPROVED") /\ Moved(t, "send") /\ pc[t] = "cancelling"
        /\ UNCHANGED <<dbStatus, due, target>>
    BY <1>6, GotoMoves DEF BeginExecution, tables
  <2>2. dbStatus[target'[t]] # "EXPIRED" BY <2>1 DEF ExpiryInv, ChosenFresh
  <2>3. Marked(t, target[t], "APPROVED")
    BY <1>t, <2>1, OneStatus
  <2> QED BY <2>1, <2>2, <2>3, ExpiryStatus
<1>7. CASE PersistOrder(t)
  <2>1. /\ UNCHANGED <<dbStatus, due, wStatus, target>> /\ Moved(t, "send")
        /\ pc[t] = "persist"
    BY <1>7, GotoMoves DEF PersistOrder, tables
  <2>2. dbStatus[target'[t]] # "EXPIRED" BY <2>1 DEF ExpiryInv, ChosenFresh
  <2> QED BY <2>1, <2>2, ExpirySame
<1>8. CASE FinishExecution(t)
  <2>1. /\ UNCHANGED <<dbStatus, due, target>> /\ Moved(t, "commit") /\ pc[t] = "persist"
    BY <1>8, GotoMoves DEF FinishExecution, tables, memory
  <2>2. PICK st \in {"SENT", "OPEN"} : Marked(t, target[t], st)
    BY <1>8 DEF FinishExecution, TypeOK, Marked
  <2>3. dbStatus[target[t]] # "EXPIRED" BY <2>1 DEF ExpiryInv, ChosenFresh
  <2>4. \A s \in Signals : /\ wStatus[t][s] = "EXPIRED" => s \in due
                           /\ wStatus[t][s] \notin {"OPEN", "SENT"}
    BY <2>1 DEF ExpiryInv, ExpiredDue, SentFresh
  <2> QED BY <2>1, <2>2, <2>3, <2>4, ExpiryMove DEF Marked
<1>9. CASE Commit(t)
  <2>1. /\ Moved(t, "done") /\ pc[t] = "commit" /\ Publish(t) /\ CloseSession(t)
        /\ UNCHANGED <<due, target>>
    BY <1>9, GotoMoves DEF Commit, memory
  <2> QED BY <2>1, ExpiryCommitted
<1> QED BY <1>1, <1>2, <1>3, <1>4, <1>5, <1>6, <1>7, <1>8, <1>9 DEF WorkerStep

\* The monitor expires a signal that nobody executes meanwhile.
LEMMA MonitorExpiry ==
    ASSUME TypeOK, TargetsKnown, WriterInv, SingleWriter, ExpiryInv, MonitorStep
    PROVE  ExpiryInv'
<1>0. Monitor \in Tasks /\ Monitor \notin Workers BY TasksAssumption DEF Tasks
<1> USE <1>0
<1>1. CASE \/ BeginCycle \/ CycleUnreadable \/ FlushOrders \/ FlushTrades \/ FlushExpiry
           \/ ReconcilePending \/ DetectClosures
  <2>1. UNCHANGED <<dbStatus, due, wStatus, target>> /\ pc[Monitor] # "commit"
    BY <1>1 DEF BeginCycle, CycleUnreadable, FlushOrders, FlushTrades, FlushExpiry, Flush,
                ReconcilePending, DetectClosures, session, tables, memory
  <2>2. \E where : Goto(Monitor, where)
    BY <1>1 DEF BeginCycle, CycleUnreadable, FlushOrders, FlushTrades, FlushExpiry, Flush,
                ReconcilePending, DetectClosures
  <2> QED BY <2>1, <2>2, GotoMoves, ExpirySame
<1>2. CASE ExpireStaleSignals
  <2>1. /\ UNCHANGED <<dbStatus, due, target>> /\ pc[Monitor] = "expiry"
        /\ \E where : Goto(Monitor, where)
    BY <1>2 DEF ExpireStaleSignals, tables, memory
  <2>2. \A u \in Tasks \ {Monitor} : \A s \in Signals : wStatus'[u][s] = wStatus[u][s]
    BY <1>2 DEF ExpireStaleSignals, TypeOK
  <2>3. \A s \in Signals : \/ wStatus'[Monitor][s] = wStatus[Monitor][s]
                           \/ wStatus'[Monitor][s] = "EXPIRED" /\ s \in due
    BY <1>2 DEF ExpireStaleSignals, TypeOK
  <2>4. \A s \in Signals : /\ wStatus[Monitor][s] = "EXPIRED" => s \in due
                           /\ wStatus[Monitor][s] \notin {"OPEN", "SENT"}
    BY <2>1 DEF ExpiryInv, ExpiredDue, SentFresh
  <2> QED BY <2>1, <2>2, <2>3, <2>4, GotoMoves, ExpiryMove
<1>3. CASE EndCycle
  <2>1. /\ Moved(Monitor, "sleep") /\ pc[Monitor] = "mcommit" /\ Publish(Monitor)
        /\ CloseSession(Monitor) /\ UNCHANGED <<due, target>>
    BY <1>3, GotoMoves DEF EndCycle, memory
  <2> QED BY <2>1, ExpiryCommitted
<1>4. CASE BusyTimeout(Monitor)
  BY <1>4, ExpiryForgotten DEF BusyTimeout
<1> QED BY <1>1, <1>2, <1>3, <1>4 DEF MonitorStep

\* An approval of an expired signal marks it expired.
LEMMA EntranceExpiry ==
    ASSUME TypeOK, TargetsKnown, ExpiryInv, NEW t \in Workers,
           \/ t \in Signals /\ (Arrive(t) \/ RecordSignal(t))
           \/ t \in Requests /\ ExpireOnApproval(t)
           \/ /\ t \in Requests
              /\ \E s \in Signals : ApproveManually(t, s) \/ RejectManually(t, s)
    PROVE  ExpiryInv'
<1>0. t \in Tasks BY DEF Tasks
<1>t. pc[t] # "idle" => target[t] \in Signals BY DEF TargetsKnown
<1>1. PICK where \in {"insert", "lockwait", "commit", "expire"} :
         Moved(t, where) /\ pc[t] # "commit"
  BY <1>0, GotoMoves
     DEF Arrive, RecordSignal, ExpireOnApproval, ApproveManually, RejectManually
<1>2. /\ UNCHANGED <<dbStatus, due>>
      /\ \A u \in Tasks \ {t} : target'[u] = target[u]
  BY DEF Arrive, RecordSignal, ExpireOnApproval, ApproveManually, RejectManually,
         tables, memory, TypeOK
<1>3. CASE wStatus' = wStatus
  BY <1>0, <1>1, <1>2, <1>3, ExpirySame
<1>4. CASE t \in Signals /\ RecordSignal(t)
  <2>1. PICK st \in {"PARSED", "REJECTED"} : WriteStatus(t, st)
    BY <1>4 DEF RecordSignal
  <2>2. target[t] \in Signals BY <1>t, <1>4 DEF RecordSignal
  <2> QED BY <1>0, <1>1, <1>2, <2>1, <2>2, OneStatus, ExpiryStatus
<1>5. CASE t \in Requests /\ ExpireOnApproval(t)
  <2>1. WriteStatus(t, "EXPIRED") /\ target[t] \in Signals /\ target[t] \in due
    BY <1>t, <1>5 DEF ExpireOnApproval, TargetsKnown
  <2> QED BY <1>0, <1>1, <1>2, <2>1, OneStatus, ExpiryStatus
<1>6. ASSUME NEW x \in Signals, RejectManually(t, x) PROVE ExpiryInv'
  <2>1. Marked(t, x, "REJECTED")
    BY <1>6 DEF RejectManually, TypeOK, Marked
  <2> QED BY <1>0, <1>1, <1>2, <2>1, ExpiryStatus
<1> QED BY <1>3, <1>4, <1>5, <1>6 DEF Arrive, ApproveManually, session

\* Every step keeps the expired signals out of the market.
LEMMA ExpiryStep ==
    ASSUME TypeOK, TargetsKnown, WriterInv, SingleWriter, LongAge = {}, ExpiryInv,
           [Next]_vars
    PROVE  ExpiryInv'
<1>0. Signals \subseteq Workers /\ Requests \subseteq Workers BY DEF Workers
<1>1. ASSUME NEW s \in Signals, MessageStep(s) PROVE ExpiryInv'
  BY <1>0, <1>1, EntranceExpiry, WorkerExpiry DEF MessageStep
<1>2. ASSUME NEW r \in Requests, RequestStep(r) PROVE ExpiryInv'
  BY <1>0, <1>2, EntranceExpiry, WorkerExpiry DEF RequestStep
<1>3. CASE MonitorStep BY <1>3, MonitorExpiry
<1>4. ASSUME NEW s \in Signals, Arrive(s) PROVE ExpiryInv'
  BY <1>0, <1>4, EntranceExpiry
<1>5. ASSUME NEW r \in Requests, NEW s \in Signals,
             ApproveManually(r, s) \/ RejectManually(r, s)
      PROVE  ExpiryInv'
  BY <1>0, <1>5, EntranceExpiry
<1>6. CASE Crash
  <2>1. UNCHANGED <<dbStatus, due, target>> BY <1>6 DEF Crash, tables, memory
  <2>2. \A t \in Workers : pc'[t] \notin {"listing", "cancelling", "send", "persist"}
    BY <1>6, TasksAssumption DEF Crash, Tasks
  <2>3. \A t \in Tasks : \A s \in Signals : wStatus'[t][s] = Untouched
    BY <1>6 DEF Crash, NoStatus
  <2>4. ExpiredDue' BY <2>1, <2>3 DEF ExpiryInv, ExpiredDue, Untouched
  <2>5. ChosenFresh' BY <2>2 DEF ChosenFresh
  <2>6. SentFresh' BY <2>3 DEF SentFresh, Untouched
  <2> QED BY <2>4, <2>5, <2>6 DEF ExpiryInv
<1>7. CASE \/ UNCHANGED vars
           \/ \E s \in Signals : Deadline(s)
           \/ \E b \in BOOLEAN : SetPaused(b)
           \/ \E k \in Tickets : BrokerMoves(k)
  <2>1. UNCHANGED <<pc, target, dbStatus, wStatus>> /\ due \subseteq due'
    BY <1>7 DEF vars, local, memory, session, tables, Deadline, SetPaused, BrokerMoves
  <2> QED BY <2>1 DEF ExpiryInv, ExpiredDue, ChosenFresh, SentFresh
<1> QED BY <1>1, <1>2, <1>3, <1>4, <1>5, <1>6, <1>7 DEF Next, Outside

\* The tables change their statuses only when a session publishes its own.
LEMMA StatusPublished ==
    ASSUME TypeOK, [Next]_vars, NEW s \in Signals, dbStatus'[s] # dbStatus[s]
    PROVE  \E t \in Tasks : wStatus[t][s] = dbStatus'[s]
<1>0. Workers \subseteq Tasks /\ Signals \subseteq Workers /\ Requests \subseteq Workers
      /\ Monitor \in Tasks
  BY DEF Tasks, Workers
<1>1. ASSUME NEW t \in Tasks, Publish(t) PROVE wStatus[t][s] = dbStatus'[s]
  BY <1>1, PublishWrites DEF Written
<1>2. ASSUME NEW t \in Workers, WorkerStep(t) PROVE dbStatus' = dbStatus \/ Publish(t)
  BY <1>2 DEF WorkerStep, EnterEvaluation, Observe, AskReview, ReadAccount, ReadFails,
     Refuse, Approve, ListOpposite, CancelOpposite, RefuseTwin, BeginExecution,
     SendOrder, SendRefused, SendLost, PersistOrder, FinishExecution, Commit,
     BusyTimeout, EndWith, Rollback, tables
<1>3. CASE MonitorStep
  <2>1. dbStatus' = dbStatus \/ Publish(Monitor)
    BY <1>3 DEF MonitorStep, BeginCycle, CycleUnreadable, ReconcilePending, FlushOrders,
       DetectClosures, FlushTrades, ExpireStaleSignals, FlushExpiry, EndCycle,
       BusyTimeout, Flush, Rollback, tables
  <2> QED BY <1>0, <1>1, <2>1
<1>4. CASE Outside \/ UNCHANGED vars
  BY <1>4 DEF Outside, Arrive, Deadline, ApproveManually, RejectManually, SetPaused,
     BrokerMoves, Crash, tables, vars
<1>5. ASSUME NEW x \in Signals, MessageStep(x) PROVE \E t \in Tasks : wStatus[t][s] = dbStatus'[s]
  <2>1. dbStatus' = dbStatus \/ Publish(x)
    BY <1>0, <1>2, <1>5 DEF MessageStep, RecordSignal, tables
  <2> QED BY <1>0, <1>1, <2>1
<1>6. ASSUME NEW x \in Requests, RequestStep(x) PROVE \E t \in Tasks : wStatus[t][s] = dbStatus'[s]
  <2>1. dbStatus' = dbStatus \/ Publish(x)
    BY <1>0, <1>2, <1>6 DEF RequestStep, ExpireOnApproval, tables
  <2> QED BY <1>0, <1>1, <2>1
<1> QED BY <1>3, <1>4, <1>5, <1>6 DEF Next

\* A signal that the database shows as expired is never executed afterwards,
\* whatever approval had loaded it before: on SQLite, and when no channel has an
\* age limit of its own above the review delay.  Without the single writer an
\* approval and the monitor's expiry may publish over each other; with a longer
\* age limit the age check lets the signal through.
THEOREM ExpiredIsOver ==
    ASSUME SingleWriter, LongAge = {}
    PROVE  Spec => ExpiredStaysOut
<1>1. Init => ExpiryInv
  BY DEF Init, ExpiryInv, ExpiredDue, ChosenFresh, SentFresh, NoStatus, Untouched, Tasks,
         Workers
<1>2. TypeOK /\ TargetsKnown /\ WriterInv /\ ExpiryInv /\ [Next]_vars => ExpiryInv'
  BY ExpiryStep
<1>3. TypeOK /\ ExpiryInv /\ [Next]_vars =>
        [\A s \in Signals : dbStatus[s] = "EXPIRED" => dbStatus'[s] \notin {"OPEN", "SENT"}]_vars
  <2> SUFFICES ASSUME TypeOK, ExpiryInv, [Next]_vars, NEW s \in Signals,
                      dbStatus[s] = "EXPIRED", dbStatus'[s] \in {"OPEN", "SENT"}
               PROVE  FALSE
    OBVIOUS
  <2>1. PICK t \in Tasks : wStatus[t][s] = dbStatus'[s] BY StatusPublished
  <2> QED BY <2>1 DEF ExpiryInv, SentFresh
<1> QED BY <1>1, <1>2, <1>3, WriterHeld, PTL DEF Spec, ExpiredStaysOut

-----------------------------------------------------------------------------
(* Equivalent orders.                                                      *)

\* No row is about a ticket not handed out yet.
FreshRows ==
    \A k \in Tickets : k > lastTicket =>
        dbRow[k] = "none" /\ \A t \in Tasks : wRow[t][k] = Untouched

\* An order just placed is the sender's, and so are the pending rows it has written.
PlacedOwn ==
    \A t \in Workers : pc[t] = "persist" =>
        ticket[t] \in 1..lastTicket /\ owner[ticket[t]] = target[t]
PendingOwn ==
    \A t \in Tasks : \A k \in Tickets :
        wRow[t][k] = "pending" =>
            t \in Workers /\ pc[t] \in {"send", "persist", "commit"} /\ owner[k] = target[t]

\* What a session found when it looked for a twin stays true until it commits: the
\* committed rows that it has not touched are no twin of its signal.
Alone(t) ==
    \A k \in Tickets :
        dbRow[k] = "pending" /\ wRow[t][k] = Untouched => ~Equivalent(owner[k], target[t])
PlacesOrders(t) ==
    \/ pc[t] \in {"send", "persist"}
    \/ pc[t] = "commit" /\ \E k \in Tickets : wRow[t][k] = "pending"
NoTwinAhead == \A t \in Workers : PlacesOrders(t) => Alone(t)

\* Two orders placed where they would be looked for: each is found from the other.
LEMMA SameOrderIsFound ==
    ASSUME NEW s, NEW r, PlacedAsLookedFor(s), PlacedAsLookedFor(r), SameOrder(s, r)
    PROVE  Equivalent(s, r) /\ Equivalent(r, s)
<1>1. SameStop(s, r) /\ SameStop(r, s) BY DEF SameOrder, SameStop
<1> QED BY <1>1 DEF Equivalent, SameOrder, PlacedAsLookedFor

TwinInv == FreshRows /\ PlacedOwn /\ PendingOwn /\ NoTwinAhead /\ NoTwinPending

\* A step of one task that publishes nothing, with or without a new ticket.
LEMMA TwinMove ==
    ASSUME TypeOK, TwinInv, NEW t \in Tasks, NEW where, Moved(t, where),
           dbRow' = dbRow, lastTicket' \in Nat, lastTicket <= lastTicket',
           \A k \in Tickets : k <= lastTicket => owner'[k] = owner[k],
           \A u \in Tasks \ {t} : ticket'[u] = ticket[u] /\ target'[u] = target[u],
           \A u \in Tasks \ {t} : \A k \in Tickets : wRow'[u][k] = wRow[u][k],
           \A k \in Tickets : wRow'[t][k] # Untouched => k <= lastTicket,
           t \in Workers /\ where = "persist" =>
               ticket'[t] \in 1..lastTicket' /\ owner'[ticket'[t]] = target'[t],
           \A k \in Tickets : wRow'[t][k] = "pending" =>
               t \in Workers /\ where \in {"send", "persist", "commit"} /\ owner[k] = target'[t],
           t \in Workers /\ PlacesOrders(t)' =>
               \A k \in Tickets : dbRow[k] = "pending" /\ wRow'[t][k] = Untouched =>
                   ~Equivalent(owner[k], target'[t])
    PROVE  TwinInv'
<1>0. /\ Workers \subseteq Tasks /\ lastTicket \in Nat
      /\ \A k \in Tickets : k \in Nat /\ (k <= lastTicket \/ k > lastTicket)
      /\ 1..lastTicket \subseteq 1..lastTicket'
      /\ 1..lastTicket \subseteq Tickets
      /\ \A k \in 1..lastTicket : owner'[k] = owner[k]
  BY BoundsAssumption DEF Tasks, TypeOK, Tickets
<1>1. \A k \in Tickets : dbRow[k] = "pending" => owner'[k] = owner[k]
  BY <1>0 DEF TwinInv, FreshRows
<1>2. \A u \in Tasks : \A k \in Tickets : wRow[u][k] = "pending" => owner'[k] = owner[k]
  BY <1>0 DEF TwinInv, FreshRows, Untouched
<1>3. FreshRows'
  <2> SUFFICES ASSUME NEW k \in Tickets, k > lastTicket'
               PROVE  dbRow'[k] = "none" /\ \A u \in Tasks : wRow'[u][k] = Untouched
    BY DEF FreshRows
  <2>1. k > lastTicket /\ ~(k <= lastTicket) BY <1>0
  <2> QED BY <2>1 DEF TwinInv, FreshRows
<1>4. PlacedOwn'
  <2> SUFFICES ASSUME NEW u \in Workers, pc'[u] = "persist"
               PROVE  ticket'[u] \in 1..lastTicket' /\ owner'[ticket'[u]] = target'[u]
    BY DEF PlacedOwn
  <2>1. CASE u = t BY <1>0, <2>1 DEF Moved
  <2>2. CASE u # t
    <3>1. ticket[u] \in 1..lastTicket /\ owner[ticket[u]] = target[u]
      BY <1>0, <2>2 DEF TwinInv, PlacedOwn, Moved
    <3> QED BY <1>0, <2>2, <3>1
  <2> QED BY <2>1, <2>2
<1>5. PendingOwn'
  <2> SUFFICES ASSUME NEW u \in Tasks, NEW k \in Tickets, wRow'[u][k] = "pending"
               PROVE  /\ u \in Workers /\ pc'[u] \in {"send", "persist", "commit"}
                      /\ owner'[k] = target'[u]
    BY DEF PendingOwn
  <2>1. CASE u = t
    <3>1. k <= lastTicket BY <2>1 DEF Untouched
    <3> QED BY <2>1, <3>1 DEF Moved
  <2>2. CASE u # t
    <3>1. wRow[u][k] = "pending" BY <2>2
    <3> QED BY <1>2, <2>2, <3>1 DEF TwinInv, PendingOwn, Moved
  <2> QED BY <2>1, <2>2
<1>6. NoTwinAhead'
  <2> SUFFICES ASSUME NEW u \in Workers, PlacesOrders(u)'
               PROVE  Alone(u)'
    BY DEF NoTwinAhead
  <2>1. CASE u = t BY <1>1, <2>1 DEF Alone
  <2>2. CASE u # t
    <3>1. PlacesOrders(u) BY <1>0, <2>2 DEF PlacesOrders, Moved
    <3>2. Alone(u) BY <3>1 DEF TwinInv, NoTwinAhead
    <3> QED BY <1>0, <1>1, <2>2, <3>2 DEF Alone
  <2> QED BY <2>1, <2>2
<1>7. NoTwinPending' BY <1>1 DEF TwinInv, NoTwinPending
<1> QED BY <1>3, <1>4, <1>5, <1>6, <1>7 DEF TwinInv

\* The rows are left alone by a task that has placed no order and places none.
LEMMA TwinSame ==
    ASSUME TypeOK, TwinInv, NEW t \in Tasks, NEW where, Moved(t, where),
           UNCHANGED <<dbRow, wRow, lastTicket, owner, ticket>>,
           \A u \in Tasks \ {t} : target'[u] = target[u],
           t \in Workers => /\ pc[t] \notin {"send", "persist", "commit"}
                            /\ where \notin {"send", "persist"}
    PROVE  TwinInv'
<1>1. \A k \in Tickets : wRow[t][k] # "pending" BY DEF TwinInv, PendingOwn
<1>2. t \in Workers => ~PlacesOrders(t)' BY <1>1 DEF PlacesOrders, Moved
<1>3. lastTicket \in Nat /\ \A k \in Tickets : k \in Nat
  BY BoundsAssumption DEF TypeOK, Tickets
<1>4. \A k \in Tickets : wRow[t][k] # Untouched => k <= lastTicket
  BY <1>3 DEF TwinInv, FreshRows
<1> QED BY <1>1, <1>2, <1>3, <1>4, TwinMove

\* A session that rolls back; an order of it may have reached the broker.
LEMMA TwinForgotten ==
    ASSUME TypeOK, TwinInv, NEW t \in Tasks, Rollback(t), lastTicket' \in Nat,
           lastTicket <= lastTicket',
           \A k \in Tickets : k <= lastTicket => owner'[k] = owner[k]
    PROVE  TwinInv'
<1>0. t \in Workers => t # Monitor BY TasksAssumption
<1>1. /\ Forgotten(t) /\ UNCHANGED <<dbRow, ticket, target>>
      /\ Moved(t, IF t = Monitor THEN "sleep" ELSE "failed")
  BY RollbackEffect DEF memory, plan, tables
<1>2. /\ \A u \in Tasks \ {t} : \A k \in Tickets : wRow'[u][k] = wRow[u][k]
      /\ \A k \in Tickets : wRow'[t][k] = Untouched
  BY <1>1 DEF Forgotten
<1>3. t \in Workers => ~PlacesOrders(t)' BY <1>0, <1>1 DEF PlacesOrders, Moved
<1>4. Untouched # "pending" BY DEF Untouched
<1> QED BY <1>0, <1>1, <1>2, <1>3, <1>4, TwinMove

\* What a broker that accepts an order does to the tickets.
LEMMA AcceptTickets ==
    ASSUME TypeOK, NEW t \in Workers, Accept(t)
    PROVE  /\ lastTicket \in Nat /\ lastTicket' = lastTicket + 1
           /\ lastTicket' \in 1..lastTicket'
           /\ owner'[lastTicket'] = target[t]
           /\ \A k \in Tickets : k <= lastTicket => owner'[k] = owner[k]
<1>1. lastTicket \in Nat /\ lastTicket + 1 \in Tickets /\ \A k \in Tickets : k \in Nat
  BY BoundsAssumption DEF Accept, TypeOK, Tickets
<1>2. lastTicket' = lastTicket + 1 /\ owner' = [owner EXCEPT ![lastTicket + 1] = target[t]]
  BY DEF Accept
<1> QED BY <1>1, <1>2 DEF TypeOK

\* A commit.  A worker publishes its pending rows while it holds the writer, so no
\* other session is looking; the monitor publishes none.
LEMMA TwinCommitted ==
    ASSUME TypeOK, WriterInv, SingleWriter, TwinInv, NEW t \in Tasks,
           t \in Workers => pc[t] = "commit", NEW where, Moved(t, where),
           where \in {"done", "sleep"}, Publish(t), CloseSession(t),
           UNCHANGED <<lastTicket, owner, target, ticket>>
    PROVE  TwinInv'
<1>0. Workers \subseteq Tasks BY DEF Tasks
<1>1. Written(t) /\ Forgotten(t) BY PublishWrites, CloseForgets
<1>2. /\ \A u \in Tasks \ {t} : \A k \in Tickets : wRow'[u][k] = wRow[u][k]
      /\ \A k \in Tickets : wRow'[t][k] = Untouched
      /\ \A k \in Tickets :
            dbRow'[k] = IF wRow[t][k] = Untouched THEN dbRow[k] ELSE wRow[t][k]
  BY <1>1 DEF Forgotten, Written
<1>3. FreshRows' BY <1>2 DEF TwinInv, FreshRows
<1>4. PlacedOwn' BY <1>0 DEF TwinInv, PlacedOwn, Moved
<1>5. PendingOwn' BY <1>2 DEF TwinInv, PendingOwn, Moved, Untouched
<1>6. NoTwinAhead'
  <2> SUFFICES ASSUME NEW u \in Workers, PlacesOrders(u)'
               PROVE  Alone(u)'
    BY DEF NoTwinAhead
  <2>1. u # t /\ PlacesOrders(u) /\ Holds(u, pc[u])
    BY <1>0, <1>2 DEF PlacesOrders, Moved, Holds
  <2>2. t \notin Workers
    BY <2>1 DEF WriterInv, WriterKept, Holds
  <2>3. \A k \in Tickets : dbRow'[k] = "pending" => dbRow[k] = "pending"
    BY <1>2, <2>2 DEF TwinInv, PendingOwn
  <2>4. Alone(u) BY <2>1 DEF TwinInv, NoTwinAhead
  <2> QED BY <1>0, <1>2, <2>1, <2>3, <2>4 DEF Alone
<1>7. NoTwinPending'
  <2> SUFFICES ASSUME NEW k \in Tickets, NEW l \in Tickets, dbRow'[k] = "pending",
                      dbRow'[l] = "pending", owner[k] # owner[l],
                      PlacedAsLookedFor(owner[k]), PlacedAsLookedFor(owner[l]),
                      SameOrder(owner[k], owner[l])
               PROVE  FALSE
    BY DEF NoTwinPending
  <2>1. \A m \in Tickets : wRow[t][m] = "pending" => /\ t \in Workers /\ owner[m] = target[t]
                                                  /\ Alone(t)
    BY DEF TwinInv, PendingOwn, NoTwinAhead, PlacesOrders
  <2>0. Equivalent(owner[k], owner[l]) /\ Equivalent(owner[l], owner[k])
    BY SameOrderIsFound
  <2>2. CASE wRow[t][k] = Untouched /\ wRow[t][l] = Untouched
    BY <1>2, <2>2 DEF TwinInv, NoTwinPending
  <2>3. CASE wRow[t][k] # Untouched /\ wRow[t][l] = Untouched
    <3>1. owner[k] = target[t] /\ Alone(t) /\ dbRow[l] = "pending"
      BY <1>2, <2>1, <2>3
    <3> QED BY <2>0, <2>3, <3>1 DEF Alone
  <2>4. CASE wRow[t][k] = Untouched /\ wRow[t][l] # Untouched
    <3>1. owner[l] = target[t] /\ Alone(t) /\ dbRow[k] = "pending"
      BY <1>2, <2>1, <2>4
    <3> QED BY <2>0, <2>4, <3>1 DEF Alone
  <2>5. CASE wRow[t][k] # Untouched /\ wRow[t][l] # Untouched
    BY <1>2, <2>1, <2>5
  <2> QED BY <2>2, <2>3, <2>4, <2>5
<1> QED BY <1>3, <1>4, <1>5, <1>6, <1>7 DEF TwinInv

\* An evaluation places no pending order beside one of the same plan.
LEMMA WorkerTwin ==
    ASSUME TypeOK, TargetsKnown, WriterInv, SingleWriter, FreshTickets, TwinInv,
           NEW t \in Workers, WorkerStep(t)
    PROVE  TwinInv'
<1>0. /\ t \in Tasks /\ t # Monitor /\ lastTicket \in Nat /\ lastTicket <= lastTicket
      /\ \A k \in Tickets : k \in Nat
  BY TasksAssumption, BoundsAssumption DEF Tasks, TypeOK, Tickets
<1>t. pc[t] # "idle" => target[t] \in Signals BY DEF TargetsKnown
<1>o. \A k \in Tickets : wRow[t][k] # Untouched => k <= lastTicket
  BY <1>0 DEF TwinInv, FreshRows
<1>p. \A k \in Tickets : wRow[t][k] = "pending" =>
         pc[t] \in {"send", "persist", "commit"} /\ owner[k] = target[t]
  BY <1>0 DEF TwinInv, PendingOwn
<1>a. pc[t] \in {"send", "persist"} => Alone(t)
  BY DEF TwinInv, NoTwinAhead, PlacesOrders
<1> USE <1>0
<1>1. CASE EnterEvaluation(t) \/ ReadAccount(t) \/ Approve(t) \/ ListOpposite(t)
  <2>1. UNCHANGED <<dbRow, wRow, lastTicket, owner, ticket, target>>
    BY <1>1 DEF EnterEvaluation, ReadAccount, Approve, ListOpposite, session, tables,
                terminal, memory, plan
  <2>2. PICK where : /\ Goto(t, where) /\ pc[t] \notin {"send", "persist", "commit"}
                     /\ where \notin {"send", "persist"}
    BY <1>1 DEF EnterEvaluation, ReadAccount, Approve, ListOpposite
  <2> QED BY <2>1, <2>2, GotoMoves, TwinSame
<1>2. CASE Observe(t) \/ AskReview(t) \/ Refuse(t) \/ RefuseTwin(t) \/ SendRefused(t)
  <2>1. PICK st : EndWith(t, st) /\ pc[t] \notin {"idle", "persist", "commit"}
    BY <1>2 DEF Observe, AskReview, Refuse, RefuseTwin, SendRefused
  <2>2. /\ Moved(t, "commit")
        /\ UNCHANGED <<dbRow, wRow, lastTicket, owner, ticket, target>>
    BY <1>t, <2>1, EndWithEffect DEF memory, plan, tables, terminal
  <2>3. CASE pc[t] # "send" BY <2>1, <2>2, <2>3, TwinSame
  <2>4. CASE pc[t] = "send"
    <3>1. \A k \in Tickets : dbRow[k] = "pending" /\ wRow'[t][k] = Untouched =>
             ~Equivalent(owner[k], target'[t])
      BY <1>a, <2>2, <2>4 DEF Alone
    <3> QED BY <1>o, <1>p, <2>2, <3>1, TwinMove
  <2> QED BY <2>3, <2>4
<1>3. CASE ReadFails(t) \/ BusyTimeout(t)
  BY <1>3, TwinForgotten DEF ReadFails, BusyTimeout, terminal
<1>4. CASE SendLost(t)
  <2>1. Rollback(t) BY <1>4 DEF SendLost
  <2>2. CASE Accept(t) BY <2>1, <2>2, AcceptTickets, TwinForgotten
  <2>3. CASE UNCHANGED terminal BY <2>1, <2>3, TwinForgotten DEF terminal
  <2> QED BY <1>4, <2>2, <2>3 DEF SendLost
<1>5. ASSUME NEW k \in Tickets, CancelOpposite(t, k) PROVE TwinInv'
  <2>1. /\ Moved(t, "cancelling") /\ pc[t] = "cancelling"
        /\ UNCHANGED <<dbRow, lastTicket, owner, ticket, target>>
    BY <1>5 DEF CancelOpposite, Moved, tables
  <2>2. CASE wRow' = wRow BY <2>1, <2>2, TwinSame
  <2>3. CASE broker[k] = "pending" /\ wRow' = [wRow EXCEPT ![t][k] = "cancelled"]
    <3>1. \A u \in Tasks : \A l \in Tickets :
             wRow'[u][l] = IF u = t /\ l = k THEN "cancelled" ELSE wRow[u][l]
      BY <2>3 DEF TypeOK
    <3>2. k <= lastTicket BY <2>3 DEF FreshTickets
    <3>3. ~PlacesOrders(t)' BY <2>1 DEF PlacesOrders, Moved
    <3> QED BY <1>o, <1>p, <2>1, <3>1, <3>2, <3>3, TwinMove
  <2> QED BY <1>5, <2>2, <2>3 DEF CancelOpposite
<1>6. CASE BeginExecution(t)
  <2>1. /\ Moved(t, "send") /\ pc[t] = "cancelling"
        /\ UNCHANGED <<dbRow, wRow, lastTicket, owner, ticket, target>>
    BY <1>6, GotoMoves DEF BeginExecution, WriteStatus, tables, terminal
  <2>2. \A k \in Tickets : dbRow[k] = "pending" /\ wRow'[t][k] = Untouched =>
           ~Equivalent(owner[k], target'[t])
    BY <1>6, <2>1 DEF BeginExecution, HasTwin, PendingSeenBy, RowSeenBy
  <2> QED BY <1>o, <1>p, <2>1, <2>2, TwinMove
<1>7. CASE SendOrder(t)
  <2>1. /\ Moved(t, "persist") /\ pc[t] = "send" /\ Accept(t)
        /\ UNCHANGED <<dbRow, wRow, target>>
    BY <1>7, GotoMoves DEF SendOrder, session, tables
  <2>2. \A u \in Tasks : ticket'[u] = IF u = t THEN lastTicket' ELSE ticket[u]
    BY <1>7 DEF SendOrder, TypeOK
  <2>3. \A k \in Tickets : dbRow[k] = "pending" /\ wRow'[t][k] = Untouched =>
           ~Equivalent(owner[k], target'[t])
    BY <1>a, <2>1 DEF Alone
  <2> QED BY <1>o, <1>p, <2>1, <2>2, <2>3, AcceptTickets, TwinMove
<1>8. CASE PersistOrder(t) \/ FinishExecution(t)
  <2>1. PICK where \in {"send", "commit"} : Goto(t, where)
    BY <1>8 DEF PersistOrder, FinishExecution
  <2>2. Moved(t, where) /\ pc[t] = "persist"
    BY <1>8, <2>1, GotoMoves DEF PersistOrder, FinishExecution
  <2>3. UNCHANGED <<dbRow, lastTicket, owner, ticket, target>>
    BY <1>8 DEF PersistOrder, FinishExecution, tables, terminal, memory, plan
  <2>4. ticket[t] \in 1..lastTicket /\ ticket[t] \in Tickets /\ owner[ticket[t]] = target[t]
    BY <2>2, BoundsAssumption DEF TwinInv, PlacedOwn, TypeOK, Tickets
  <2>5. \A u \in Tasks : \A k \in Tickets :
           wRow'[u][k] = IF u = t /\ k = ticket[t] THEN NewRow(target[t]) ELSE wRow[u][k]
    BY <1>8, <2>4 DEF PersistOrder, FinishExecution, TypeOK
  <2>6. NewRow(target[t]) # Untouched BY DEF NewRow, Untouched
  <2>7. \A k \in Tickets : dbRow[k] = "pending" /\ wRow'[t][k] = Untouched =>
           ~Equivalent(owner[k], target'[t])
    BY <1>a, <2>2, <2>3, <2>5, <2>6 DEF Alone
  <2>8. \A k \in Tickets : wRow'[t][k] # Untouched => k <= lastTicket
    BY <1>o, <2>4, <2>5
  <2>9. \A k \in Tickets : wRow'[t][k] = "pending" => owner[k] = target'[t]
    BY <1>p, <2>3, <2>4, <2>5
  <2> QED BY <2>1, <2>2, <2>3, <2>5, <2>7, <2>8, <2>9, TwinMove
<1>9. CASE Commit(t)
  <2>1. /\ Moved(t, "done") /\ pc[t] = "commit" /\ Publish(t) /\ CloseSession(t)
        /\ UNCHANGED <<lastTicket, owner, target, ticket>>
    BY <1>9, GotoMoves DEF Commit, memory, plan, terminal
  <2> QED BY <2>1, TwinCommitted
<1> QED BY <1>1, <1>2, <1>3, <1>4, <1>5, <1>6, <1>7, <1>8, <1>9 DEF WorkerStep

\* The monitor gives no signal a second pending order.
LEMMA MonitorTwin ==
    ASSUME TypeOK, WriterInv, SingleWriter, TwinInv, MonitorStep
    PROVE  TwinInv'
<1>0. /\ Monitor \in Tasks /\ Monitor \notin Workers /\ lastTicket \in Nat
      /\ lastTicket <= lastTicket /\ \A k \in Tickets : k \in Nat
  BY TasksAssumption, BoundsAssumption DEF Tasks, TypeOK, Tickets
<1> USE <1>0
<1>1. CASE \/ BeginCycle \/ CycleUnreadable \/ FlushOrders \/ FlushTrades \/ FlushExpiry
           \/ ExpireStaleSignals
  <2>1. UNCHANGED <<dbRow, wRow, lastTicket, owner, ticket, target>>
    BY <1>1 DEF BeginCycle, CycleUnreadable, FlushOrders, FlushTrades, FlushExpiry, Flush,
                ExpireStaleSignals, session, tables, terminal, memory, plan
  <2>2. \E where : Goto(Monitor, where)
    BY <1>1 DEF BeginCycle, CycleUnreadable, FlushOrders, FlushTrades, FlushExpiry, Flush,
                ExpireStaleSignals
  <2> QED BY <2>1, <2>2, GotoMoves, TwinSame
<1>2. CASE ReconcilePending \/ DetectClosures
  <2>1. /\ UNCHANGED <<dbRow, lastTicket, owner, ticket, target>>
        /\ \E where : Goto(Monitor, where)
    BY <1>2 DEF ReconcilePending, DetectClosures, tables, terminal, memory, plan
  <2>2. \A u \in Tasks \ {Monitor} : \A k \in Tickets : wRow'[u][k] = wRow[u][k]
    BY <1>2 DEF ReconcilePending, DetectClosures, TypeOK
  <2>3. \A k \in Tickets :
           \/ wRow'[Monitor][k] = wRow[Monitor][k]
           \/ /\ wRow'[Monitor][k] \in {"open", "cancelled", "closed"}
              /\ RowSeenBy(Monitor, k) \in {"pending", "open"}
    BY <1>2 DEF ReconcilePending, DetectClosures, TypeOK, PendingSeenBy
  <2>4. \A k \in Tickets : RowSeenBy(Monitor, k) \in {"pending", "open"} => k <= lastTicket
    BY DEF RowSeenBy, TwinInv, FreshRows
  <2>5. \A k \in Tickets : /\ wRow[Monitor][k] # Untouched => k <= lastTicket
                           /\ wRow[Monitor][k] # "pending"
    BY DEF TwinInv, FreshRows, PendingOwn
  <2> QED BY <2>1, <2>2, <2>3, <2>4, <2>5, GotoMoves, TwinMove
<1>3. CASE EndCycle
  <2>1. /\ Moved(Monitor, "sleep") /\ Publish(Monitor) /\ CloseSession(Monitor)
        /\ UNCHANGED <<lastTicket, owner, target, ticket>>
    BY <1>3, GotoMoves DEF EndCycle, memory, plan, terminal
  <2> QED BY <2>1, TwinCommitted
<1>4. CASE BusyTimeout(Monitor)
  BY <1>4, TwinForgotten DEF BusyTimeout, terminal
<1> QED BY <1>1, <1>2, <1>3, <1>4 DEF MonitorStep

\* Every step keeps pending orders of the same plan apart.
LEMMA TwinStep ==
    ASSUME TypeOK, TargetsKnown, WriterInv, SingleWriter, FreshTickets, TwinInv,
           [Next]_vars
    PROVE  TwinInv'
<1>0. Signals \subseteq Workers /\ Requests \subseteq Workers /\ Workers \subseteq Tasks
  BY DEF Workers, Tasks
<1>e. ASSUME NEW t \in Workers,
             \/ t \in Signals /\ (Arrive(t) \/ RecordSignal(t))
             \/ t \in Requests /\ ExpireOnApproval(t)
             \/ /\ t \in Requests
                /\ \E s \in Signals : ApproveManually(t, s) \/ RejectManually(t, s)
      PROVE  TwinInv'
  <2>1. UNCHANGED <<dbRow, wRow, lastTicket, owner, ticket>>
    BY <1>e DEF Arrive, RecordSignal, ExpireOnApproval, ApproveManually, RejectManually,
         WriteStatus, session, tables, terminal, memory, plan
  <2>2. \A u \in Tasks \ {t} : target'[u] = target[u]
    BY <1>e DEF Arrive, RecordSignal, ExpireOnApproval, ApproveManually, RejectManually,
         memory, TypeOK
  <2>3. PICK where \in {"insert", "lockwait", "commit", "expire"} :
           Goto(t, where) /\ pc[t] \notin {"send", "persist", "commit"}
    BY <1>e DEF Arrive, RecordSignal, ExpireOnApproval, ApproveManually, RejectManually
  <2> QED BY <1>0, <2>1, <2>2, <2>3, GotoMoves, TwinSame
<1>1. ASSUME NEW s \in Signals, MessageStep(s) PROVE TwinInv'
  BY <1>0, <1>1, <1>e, WorkerTwin DEF MessageStep
<1>2. ASSUME NEW r \in Requests, RequestStep(r) PROVE TwinInv'
  BY <1>0, <1>2, <1>e, WorkerTwin DEF RequestStep
<1>3. CASE MonitorStep BY <1>3, MonitorTwin
<1>4. ASSUME NEW s \in Signals, Arrive(s) PROVE TwinInv'
  BY <1>0, <1>4, <1>e
<1>5. ASSUME NEW r \in Requests, NEW s \in Signals,
             ApproveManually(r, s) \/ RejectManually(r, s)
      PROVE  TwinInv'
  BY <1>0, <1>5, <1>e
<1>6. CASE Crash
  <2>1. UNCHANGED <<dbRow, lastTicket, owner>> BY <1>6 DEF Crash, tables, terminal
  <2>2. \A t \in Workers : pc'[t] \notin {"send", "persist", "commit"}
    BY <1>6, TasksAssumption DEF Crash, Tasks
  <2>3. \A t \in Tasks : \A k \in Tickets : wRow'[t][k] = Untouched
    BY <1>6 DEF Crash, NoRow
  <2>4. FreshRows' BY <2>1, <2>3 DEF TwinInv, FreshRows
  <2>5. PlacedOwn' /\ NoTwinAhead' BY <2>2 DEF PlacedOwn, NoTwinAhead, PlacesOrders
  <2>6. PendingOwn' BY <2>3 DEF PendingOwn, Untouched
  <2>7. NoTwinPending' BY <2>1 DEF TwinInv, NoTwinPending
  <2> QED BY <2>4, <2>5, <2>6, <2>7 DEF TwinInv
<1>7. CASE \/ UNCHANGED vars
           \/ \E s \in Signals : Deadline(s)
           \/ \E b \in BOOLEAN : SetPaused(b)
           \/ \E k \in Tickets : BrokerMoves(k)
  <2>1. UNCHANGED <<pc, target, ticket, dbRow, wRow, lastTicket, owner>>
    BY <1>7 DEF vars, local, memory, plan, session, tables, terminal, Deadline, SetPaused,
                BrokerMoves
  <2> QED BY <2>1 DEF TwinInv, FreshRows, PlacedOwn, PendingOwn, NoTwinAhead, PlacesOrders,
                      Alone, NoTwinPending
<1> QED BY <1>1, <1>2, <1>3, <1>4, <1>5, <1>6, <1>7 DEF Next, Outside

\* Two signals never leave two equivalent orders waiting in the database, on
\* SQLite: the engine's lock is freed before the commit, so it is the single
\* writer that keeps what a session found when it looked for a twin true until
\* its own row is committed.
THEOREM TwinsNeverWait ==
    ASSUME SingleWriter
    PROVE  Spec => []NoTwinPending
<1>1. Init => TwinInv
  BY DEF Init, TwinInv, FreshRows, PlacedOwn, PendingOwn, NoTwinAhead, PlacesOrders,
         NoTwinPending, NoRow, Untouched, Tasks, Workers
<1>2. TypeOK /\ TargetsKnown /\ WriterInv /\ ClosureInv /\ TwinInv /\ [Next]_vars => TwinInv'
  BY TwinStep DEF ClosureInv
<1>3. TwinInv => NoTwinPending BY DEF TwinInv
<1> QED BY <1>1, <1>2, <1>3, WriterHeld, ClosureHeld, PTL DEF Spec

-----------------------------------------------------------------------------
(* The risk of the day.                                                    *)

\* What an evaluation has read of the day's risk is what the database says until
\* it commits; past the limits there is room for one more risk.
RiskSeen ==
    \A t \in Workers :
        pc[t] \in {"route", "evaluate", "listing", "cancelling", "send", "persist"} =>
            sawRisked[t] = dbRisked
RiskLeft ==
    \A t \in Workers :
        pc[t] \in {"listing", "cancelling", "send", "persist"} => dbRisked + 1 <= MaxDailyRisk

\* A session that adds its risk adds it to what is committed, and a session that
\* says executed, which can only be of its own signal, adds its risk.
RiskAdded ==
    \A t \in Tasks : wRisk[t] # NoRisk =>
        /\ t \in Workers /\ pc[t] = "commit"
        /\ wRisk[t] = dbRisked + 1 /\ wRisk[t] <= MaxDailyRisk
ExecutedAdds ==
    \A t \in Tasks : \A s \in Signals :
        wStatus[t][s] \in {"OPEN", "SENT"} => wRisk[t] # NoRisk /\ s = t

\* The day's risk counts every executed signal.
RiskCounts ==
    /\ IsFiniteSet(Executed)
    /\ Cardinality(Executed) <= dbRisked
    /\ dbRisked <= MaxDailyRisk

RiskInv == RiskSeen /\ RiskLeft /\ RiskAdded /\ ExecutedAdds /\ RiskCounts

\* A step of one task that publishes nothing.
LEMMA RiskMove ==
    ASSUME TypeOK, RiskInv, NEW t \in Tasks, NEW where, Moved(t, where),
           UNCHANGED <<dbStatus, dbRisked>>,
           \A u \in Tasks \ {t} : sawRisked'[u] = sawRisked[u] /\ wRisk'[u] = wRisk[u],
           \A u \in Tasks \ {t} : \A s \in Signals : wStatus'[u][s] = wStatus[u][s],
           t \in Workers /\ where \in {"route", "evaluate", "listing", "cancelling", "send",
                                       "persist"} => sawRisked'[t] = dbRisked,
           t \in Workers /\ where \in {"listing", "cancelling", "send", "persist"} =>
               dbRisked + 1 <= MaxDailyRisk,
           wRisk'[t] # NoRisk =>
               /\ t \in Workers /\ where = "commit"
               /\ wRisk'[t] = dbRisked + 1 /\ wRisk'[t] <= MaxDailyRisk,
           \A s \in Signals : wStatus'[t][s] \in {"OPEN", "SENT"} =>
               wRisk'[t] # NoRisk /\ s = t
    PROVE  RiskInv'
<1>0. Workers \subseteq Tasks BY DEF Tasks
<1>1. RiskSeen' BY <1>0 DEF RiskInv, RiskSeen, Moved
<1>2. RiskLeft' BY <1>0 DEF RiskInv, RiskLeft, Moved
<1>3. RiskAdded' BY DEF RiskInv, RiskAdded, Moved
<1>4. ExecutedAdds' BY DEF RiskInv, ExecutedAdds
<1>5. RiskCounts' BY DEF RiskInv, RiskCounts, Executed
<1> QED BY <1>1, <1>2, <1>3, <1>4, <1>5 DEF RiskInv

\* A task that is not committing has added no risk yet, and has executed nothing.
LEMMA NothingAdded ==
    ASSUME RiskInv, NEW t \in Tasks, t \in Workers => pc[t] # "commit"
    PROVE  wRisk[t] = NoRisk /\ \A s \in Signals : wStatus[t][s] \notin {"OPEN", "SENT"}
  BY DEF RiskInv, RiskAdded, ExecutedAdds

\* A step that reads no risk, adds none and executes nothing.
LEMMA RiskSame ==
    ASSUME TypeOK, RiskInv, NEW t \in Tasks, NEW where, Moved(t, where),
           UNCHANGED <<dbStatus, dbRisked, sawRisked, wRisk>>,
           t \in Workers => pc[t] # "commit",
           \A u \in Tasks \ {t} : \A s \in Signals : wStatus'[u][s] = wStatus[u][s],
           \A s \in Signals : wStatus'[t][s] = wStatus[t][s] \/ wStatus'[t][s] \notin {"OPEN", "SENT"},
           t \in Workers /\ where \in {"route", "evaluate", "listing", "cancelling", "send",
                                       "persist"} =>
               pc[t] \in {"route", "evaluate", "listing", "cancelling", "send", "persist"},
           t \in Workers /\ where \in {"listing", "cancelling", "send", "persist"} =>
               dbRisked + 1 <= MaxDailyRisk
    PROVE  RiskInv'
<1>1. wRisk[t] = NoRisk /\ \A s \in Signals : wStatus'[t][s] \notin {"OPEN", "SENT"}
  BY NothingAdded
<1>2. t \in Workers /\ where \in {"route", "evaluate", "listing", "cancelling", "send",
                                  "persist"} => sawRisked'[t] = dbRisked
  BY DEF RiskInv, RiskSeen
<1> QED BY <1>1, <1>2, RiskMove

\* A rollback drops the risk that was added and not committed.
LEMMA RiskForgotten ==
    ASSUME TypeOK, RiskInv, NEW t \in Tasks, Rollback(t)
    PROVE  RiskInv'
<1>1. /\ Forgotten(t) /\ UNCHANGED <<dbStatus, dbRisked, sawRisked>>
      /\ Moved(t, IF t = Monitor THEN "sleep" ELSE "failed")
  BY RollbackEffect DEF memory, reads, tables
<1>2. /\ \A u \in Tasks \ {t} : wRisk'[u] = wRisk[u]
      /\ \A u \in Tasks \ {t} : \A s \in Signals : wStatus'[u][s] = wStatus[u][s]
      /\ wRisk'[t] = NoRisk
      /\ \A s \in Signals : wStatus'[t][s] = Untouched
  BY <1>1 DEF Forgotten
<1>3. Untouched \notin {"OPEN", "SENT"} BY DEF Untouched
<1> QED BY <1>1, <1>2, <1>3, RiskMove

\* One more executed signal is one more risk.
LEMMA ExecutedGrows ==
    ASSUME IsFiniteSet(Executed), NEW t, Executed' \subseteq Executed \union {t}
    PROVE  /\ IsFiniteSet(Executed')
           /\ Cardinality(Executed') \in Nat /\ Cardinality(Executed) \in Nat
           /\ Cardinality(Executed') <= Cardinality(Executed) + 1
           /\ Executed' \subseteq Executed => Cardinality(Executed') <= Cardinality(Executed)
<1>0. Cardinality(Executed) \in Nat BY FS_CardinalityType
<1>1. /\ IsFiniteSet(Executed \union {t})
      /\ Cardinality(Executed \union {t}) <= Cardinality(Executed) + 1
  <2>1. /\ IsFiniteSet(Executed \union {t})
        /\ \/ Cardinality(Executed \union {t}) = Cardinality(Executed)
           \/ Cardinality(Executed \union {t}) = Cardinality(Executed) + 1
    BY FS_AddElement
  <2> QED BY <1>0, <2>1
<1>2. /\ IsFiniteSet(Executed')
      /\ Cardinality(Executed') <= Cardinality(Executed \union {t})
  BY <1>1, FS_Subset
<1>3. Cardinality(Executed') \in Nat /\ Cardinality(Executed \union {t}) \in Nat
  BY <1>1, <1>2, FS_CardinalityType
<1>4. Executed' \subseteq Executed => Cardinality(Executed') <= Cardinality(Executed)
  BY FS_Subset
<1> QED BY <1>0, <1>1, <1>2, <1>3, <1>4

\* A commit publishes at most one execution, with its risk, while no other
\* evaluation is under way: they all hold the writer.
LEMMA RiskCommitted ==
    ASSUME TypeOK, WriterInv, SingleWriter, Requests = {}, RiskInv, NEW t \in Tasks,
           t \in Workers => pc[t] = "commit", NEW where, Moved(t, where),
           where \in {"done", "sleep"}, Publish(t), CloseSession(t), UNCHANGED sawRisked
    PROVE  RiskInv'
<1>0. Workers \subseteq Tasks /\ Workers = Signals BY DEF Tasks, Workers
<1>1. Written(t) /\ Forgotten(t) BY PublishWrites, CloseForgets
<1>2. /\ \A u \in Tasks \ {t} : wRisk'[u] = wRisk[u]
      /\ \A u \in Tasks \ {t} : \A s \in Signals : wStatus'[u][s] = wStatus[u][s]
      /\ wRisk'[t] = NoRisk
      /\ \A s \in Signals : wStatus'[t][s] = Untouched
      /\ dbRisked' = IF wRisk[t] = NoRisk THEN dbRisked ELSE wRisk[t]
  BY <1>1 DEF Forgotten, Written
<1>3. ASSUME NEW u \in Workers, u # t, Holds(u, pc[u]) PROVE dbRisked' = dbRisked
  <2>1. writer = u BY <1>3 DEF WriterInv, WriterKept
  <2>2. t \in Workers => writer = t BY DEF WriterInv, WriterKept, Holds
  <2>3. wRisk[t] # NoRisk => t \in Workers BY DEF RiskInv, RiskAdded
  <2> QED BY <1>2, <1>3, <2>1, <2>2, <2>3
<1>4. RiskSeen'
  <2> SUFFICES ASSUME NEW u \in Workers,
                      pc'[u] \in {"route", "evaluate", "listing", "cancelling", "send", "persist"}
               PROVE  sawRisked'[u] = dbRisked'
    BY DEF RiskSeen
  <2>1. u # t /\ pc[u] = pc'[u] BY <1>0 DEF Moved
  <2>2. Holds(u, pc[u]) BY <1>0, <2>1 DEF Holds
  <2> QED BY <1>3, <2>1, <2>2 DEF RiskInv, RiskSeen
<1>5. RiskLeft'
  <2> SUFFICES ASSUME NEW u \in Workers,
                      pc'[u] \in {"listing", "cancelling", "send", "persist"}
               PROVE  dbRisked' + 1 <= MaxDailyRisk
    BY DEF RiskLeft
  <2>1. u # t /\ pc[u] = pc'[u] BY <1>0 DEF Moved
  <2>2. Holds(u, pc[u]) BY <1>0, <2>1 DEF Holds
  <2> QED BY <1>3, <2>1, <2>2 DEF RiskInv, RiskLeft
<1>6. RiskAdded'
  <2> SUFFICES ASSUME NEW u \in Tasks, wRisk'[u] # NoRisk
               PROVE  /\ u \in Workers /\ pc'[u] = "commit"
                      /\ wRisk'[u] = dbRisked' + 1 /\ wRisk'[u] <= MaxDailyRisk
    BY DEF RiskAdded
  <2>1. u # t BY <1>2
  <2>2. /\ u \in Workers /\ pc[u] = "commit"
        /\ wRisk[u] = dbRisked + 1 /\ wRisk[u] <= MaxDailyRisk
    BY <1>2, <2>1 DEF RiskInv, RiskAdded
  <2>3. dbRisked' = dbRisked BY <1>3, <2>1, <2>2 DEF Holds
  <2> QED BY <1>2, <2>1, <2>2, <2>3 DEF Moved
<1>7. ExecutedAdds' BY <1>2 DEF RiskInv, ExecutedAdds, Untouched
<1>8. RiskCounts'
  <2>1. Executed' \subseteq Executed \union {t}
    BY <1>1 DEF RiskInv, ExecutedAdds, Executed, Written
  <2>2. wRisk[t] = NoRisk => Executed' \subseteq Executed
    BY <1>1 DEF RiskInv, ExecutedAdds, Executed, Written
  <2>3. /\ dbRisked \in Nat /\ MaxDailyRisk \in Nat /\ IsFiniteSet(Executed)
        /\ Cardinality(Executed) <= dbRisked /\ dbRisked <= MaxDailyRisk
    BY BoundsAssumption DEF RiskInv, RiskCounts, TypeOK
  <2>4. wRisk[t] # NoRisk => wRisk[t] = dbRisked + 1 /\ wRisk[t] <= MaxDailyRisk
    BY DEF RiskInv, RiskAdded
  <2>5. /\ IsFiniteSet(Executed')
        /\ Cardinality(Executed') \in Nat /\ Cardinality(Executed) \in Nat
        /\ Cardinality(Executed') <= Cardinality(Executed) + 1
        /\ Executed' \subseteq Executed => Cardinality(Executed') <= Cardinality(Executed)
    BY <2>1, <2>3, ExecutedGrows
  <2>6. CASE wRisk[t] = NoRisk
    BY <1>2, <2>2, <2>3, <2>5, <2>6 DEF RiskCounts
  <2>7. CASE wRisk[t] # NoRisk
    <3>1. dbRisked' = dbRisked + 1 /\ dbRisked' <= MaxDailyRisk BY <1>2, <2>4, <2>7
    <3> QED BY <2>3, <2>5, <3>1 DEF RiskCounts
  <2> QED BY <2>6, <2>7
<1> QED BY <1>4, <1>5, <1>6, <1>7, <1>8 DEF RiskInv

\* An evaluation adds the risk of an order it has checked against the cap.
LEMMA WorkerRisk ==
    ASSUME TypeOK, TargetsKnown, WriterInv, SingleWriter, Requests = {}, RiskInv,
           NEW t \in Workers, WorkerStep(t)
    PROVE  RiskInv'
<1>0. t \in Tasks /\ t \in Signals /\ target[t] = t
  BY DEF Tasks, Workers, TargetsKnown
<1>l. pc[t] \in {"listing", "cancelling", "send", "persist"} => dbRisked + 1 <= MaxDailyRisk
  BY DEF RiskInv, RiskLeft
<1>s. pc[t] \in {"route", "evaluate", "listing", "cancelling", "send", "persist"} =>
         sawRisked[t] = dbRisked
  BY DEF RiskInv, RiskSeen
<1>n. pc[t] # "commit" =>
         wRisk[t] = NoRisk /\ \A s \in Signals : wStatus[t][s] \notin {"OPEN", "SENT"}
  BY <1>0, NothingAdded
<1> USE <1>0
<1>1. CASE EnterEvaluation(t)
  <2>1. /\ UNCHANGED <<dbStatus, dbRisked, wStatus, wRisk>> /\ Moved(t, "route")
        /\ pc[t] = "lockwait"
    BY <1>1, GotoMoves DEF EnterEvaluation, session, tables
  <2>2. \A u \in Tasks : sawRisked'[u] = IF u = t THEN dbRisked ELSE sawRisked[u]
    BY <1>1 DEF EnterEvaluation, TypeOK
  <2> QED BY <1>n, <2>1, <2>2, RiskMove
<1>2. CASE Observe(t) \/ AskReview(t) \/ Refuse(t) \/ RefuseTwin(t) \/ SendRefused(t)
  <2>1. PICK st \in {"OBSERVED", "NEEDS_REVIEW", "REJECTED", "FAILED"} :
           EndWith(t, st) /\ pc[t] # "commit"
    BY <1>2 DEF Observe, AskReview, Refuse, RefuseTwin, SendRefused
  <2>2. /\ Moved(t, "commit") /\ UNCHANGED <<dbStatus, dbRisked, sawRisked, wRisk>>
        /\ Marked(t, target[t], st)
    BY <2>1, EndWithEffect DEF memory, reads, tables
  <2> QED BY <2>1, <2>2, RiskSame DEF Marked
<1>3. CASE ReadFails(t) \/ BusyTimeout(t) \/ SendLost(t)
  BY <1>3, RiskForgotten DEF ReadFails, BusyTimeout, SendLost
<1>4. CASE ReadAccount(t) \/ ListOpposite(t) \/ SendOrder(t) \/ PersistOrder(t)
  <2>1. UNCHANGED <<dbStatus, dbRisked, sawRisked, wRisk, wStatus>>
    BY <1>4 DEF ReadAccount, ListOpposite, SendOrder, PersistOrder, session, tables, reads
  <2>2. PICK where : /\ Goto(t, where)
                     /\ pc[t] \in {"route", "listing", "send", "persist"}
                     /\ where \in {"listing", "cancelling", "send", "persist"} =>
                           pc[t] \in {"listing", "send", "persist"}
    BY <1>4 DEF ReadAccount, ListOpposite, SendOrder, PersistOrder
  <2> QED BY <1>l, <2>1, <2>2, GotoMoves, RiskSame
<1>5. CASE Approve(t)
  <2>1. /\ UNCHANGED <<dbStatus, dbRisked, sawRisked, wRisk, wStatus>> /\ Moved(t, "listing")
        /\ pc[t] = "evaluate"
    BY <1>5, GotoMoves DEF Approve, session, tables, memory, reads
  <2>2. dbRisked + 1 <= MaxDailyRisk BY <1>5, <1>s DEF Approve, WithinLimits
  <2> QED BY <2>1, <2>2, RiskSame
<1>6. ASSUME NEW k \in Tickets, CancelOpposite(t, k) PROVE RiskInv'
  <2>1. /\ UNCHANGED <<dbStatus, dbRisked, sawRisked, wRisk, wStatus>>
        /\ Moved(t, "cancelling") /\ pc[t] = "cancelling"
    BY <1>6 DEF CancelOpposite, Moved, tables, reads
  <2> QED BY <1>l, <2>1, RiskSame
<1>7. CASE BeginExecution(t)
  <2>1. /\ UNCHANGED <<dbStatus, dbRisked, sawRisked, wRisk>> /\ Moved(t, "send")
        /\ pc[t] = "cancelling" /\ Marked(t, target[t], "APPROVED")
    BY <1>7, GotoMoves, OneStatus DEF BeginExecution, WriteStatus, tables, reads
  <2> QED BY <1>l, <2>1, RiskSame DEF Marked
<1>8. CASE FinishExecution(t)
  <2>1. /\ UNCHANGED <<dbStatus, dbRisked, sawRisked>> /\ Moved(t, "commit")
        /\ pc[t] = "persist"
    BY <1>8, GotoMoves DEF FinishExecution, tables, memory, reads
  <2>2. PICK st \in {"SENT", "OPEN"} : Marked(t, t, st)
    BY <1>8 DEF FinishExecution, TypeOK, Marked
  <2>3. \A u \in Tasks : wRisk'[u] = IF u = t THEN dbRisked + 1 ELSE wRisk[u]
    BY <1>8, <1>s, <2>1 DEF FinishExecution, TypeOK
  <2>4. dbRisked + 1 # NoRisk BY DEF TypeOK, NoRisk
  <2>5. dbRisked + 1 <= MaxDailyRisk BY <1>l, <2>1
  <2>6. \A s \in Signals : wStatus'[t][s] \in {"OPEN", "SENT"} => s = t
    BY <1>n, <2>1, <2>2 DEF Marked
  <2>7. \A u \in Tasks \ {t} : \A s \in Signals : wStatus'[u][s] = wStatus[u][s]
    BY <2>2 DEF Marked
  <2> QED BY <2>1, <2>3, <2>4, <2>5, <2>6, <2>7, RiskMove
<1>9. CASE Commit(t)
  <2>1. /\ Moved(t, "done") /\ pc[t] = "commit" /\ Publish(t) /\ CloseSession(t)
        /\ UNCHANGED sawRisked
    BY <1>9, GotoMoves DEF Commit, memory, reads
  <2> QED BY <2>1, RiskCommitted
<1> QED BY <1>1, <1>2, <1>3, <1>4, <1>5, <1>6, <1>7, <1>8, <1>9 DEF WorkerStep

\* The monitor adds no risk.
LEMMA MonitorRisk ==
    ASSUME TypeOK, WriterInv, SingleWriter, Requests = {}, RiskInv, MonitorStep
    PROVE  RiskInv'
<1>0. Monitor \in Tasks /\ Monitor \notin Workers BY TasksAssumption DEF Tasks
<1> USE <1>0
<1>1. CASE \/ BeginCycle \/ CycleUnreadable \/ FlushOrders \/ FlushTrades \/ FlushExpiry
           \/ ReconcilePending \/ DetectClosures
  <2>1. UNCHANGED <<dbStatus, dbRisked, sawRisked, wRisk, wStatus>>
    BY <1>1 DEF BeginCycle, CycleUnreadable, FlushOrders, FlushTrades, FlushExpiry, Flush,
                ReconcilePending, DetectClosures, session, tables, memory, reads
  <2>2. \E where : Goto(Monitor, where)
    BY <1>1 DEF BeginCycle, CycleUnreadable, FlushOrders, FlushTrades, FlushExpiry, Flush,
                ReconcilePending, DetectClosures
  <2> QED BY <2>1, <2>2, GotoMoves, RiskSame
<1>2. CASE ExpireStaleSignals
  <2>1. UNCHANGED <<dbStatus, dbRisked, sawRisked, wRisk>> /\ \E where : Goto(Monitor, where)
    BY <1>2 DEF ExpireStaleSignals, tables, memory, reads
  <2>2. \A u \in Tasks \ {Monitor} : \A s \in Signals : wStatus'[u][s] = wStatus[u][s]
    BY <1>2 DEF ExpireStaleSignals, TypeOK
  <2>3. \A s \in Signals : wStatus'[Monitor][s] \in {wStatus[Monitor][s], "EXPIRED"}
    BY <1>2 DEF ExpireStaleSignals, TypeOK
  <2> QED BY <2>1, <2>2, <2>3, GotoMoves, RiskSame
<1>3. CASE EndCycle
  <2>1. /\ Moved(Monitor, "sleep") /\ Publish(Monitor) /\ CloseSession(Monitor)
        /\ UNCHANGED sawRisked
    BY <1>3, GotoMoves DEF EndCycle, memory, reads
  <2> QED BY <2>1, RiskCommitted
<1>4. CASE BusyTimeout(Monitor)
  BY <1>4, RiskForgotten DEF BusyTimeout
<1> QED BY <1>1, <1>2, <1>3, <1>4 DEF MonitorStep

\* Every step keeps the risk of the day under its cap.
LEMMA RiskStep ==
    ASSUME TypeOK, TargetsKnown, WriterInv, SingleWriter, Requests = {}, RiskInv,
           [Next]_vars
    PROVE  RiskInv'
<1>0. Signals \subseteq Workers /\ Workers \subseteq Tasks BY DEF Workers, Tasks
<1>1. ASSUME NEW s \in Signals, Arrive(s) \/ RecordSignal(s) PROVE RiskInv'
  <2>1. UNCHANGED <<dbStatus, dbRisked, sawRisked, wRisk>>
    BY <1>1 DEF Arrive, RecordSignal, WriteStatus, session, tables, memory, reads
  <2>2. PICK where \in {"insert", "lockwait", "commit"} : Goto(s, where) /\ pc[s] # "commit"
    BY <1>1 DEF Arrive, RecordSignal
  <2>3. wStatus' = wStatus \/ \E st \in {"PARSED", "REJECTED"} : WriteStatus(s, st)
    BY <1>1 DEF Arrive, RecordSignal, session
  <2>4. target[s] = s BY <1>0 DEF TargetsKnown
  <2>5. CASE wStatus' = wStatus BY <1>0, <2>1, <2>2, <2>5, GotoMoves, RiskSame
  <2>6. ASSUME NEW st \in {"PARSED", "REJECTED"}, WriteStatus(s, st) PROVE RiskInv'
    <3>1. Marked(s, s, st) BY <1>0, <2>4, <2>6, OneStatus
    <3> QED BY <1>0, <2>1, <2>2, <3>1, GotoMoves, RiskSame DEF Marked
  <2> QED BY <2>3, <2>5, <2>6
<1>2. ASSUME NEW s \in Signals, MessageStep(s) PROVE RiskInv'
  BY <1>0, <1>1, <1>2, WorkerRisk DEF MessageStep
<1>3. CASE MonitorStep BY <1>3, MonitorRisk
<1>4. CASE Crash
  <2>1. UNCHANGED <<dbStatus, dbRisked>> BY <1>4 DEF Crash, tables
  <2>2. \A t \in Workers :
           pc'[t] \notin {"route", "evaluate", "listing", "cancelling", "send", "persist"}
    BY <1>4, TasksAssumption DEF Crash, Tasks
  <2>3. \A t \in Tasks : wRisk'[t] = NoRisk /\ \A s \in Signals : wStatus'[t][s] = Untouched
    BY <1>4 DEF Crash, NoStatus
  <2>4. RiskSeen' /\ RiskLeft' BY <2>2 DEF RiskSeen, RiskLeft
  <2>5. RiskAdded' /\ ExecutedAdds' BY <2>3 DEF RiskAdded, ExecutedAdds, Untouched
  <2>6. RiskCounts' BY <2>1 DEF RiskInv, RiskCounts, Executed
  <2> QED BY <2>4, <2>5, <2>6 DEF RiskInv
<1>5. CASE \/ UNCHANGED vars
           \/ \E s \in Signals : Deadline(s)
           \/ \E b \in BOOLEAN : SetPaused(b)
           \/ \E k \in Tickets : BrokerMoves(k)
  <2>1. UNCHANGED <<pc, sawRisked, dbStatus, dbRisked, wStatus, wRisk>>
    BY <1>5 DEF vars, local, memory, reads, session, tables, Deadline, SetPaused, BrokerMoves
  <2> QED BY <2>1 DEF RiskInv, RiskSeen, RiskLeft, RiskAdded, ExecutedAdds, RiskCounts, Executed
<1> QED BY <1>1, <1>2, <1>3, <1>4, <1>5 DEF Next, Outside

\* The signals a day executes never exceed the daily limit, on SQLite and as long
\* as nobody approves by hand: a message holds the writer from its own row to its
\* commit, so that what it has read of the day's risk cannot grow under it.  An
\* approval reads the same figure before it holds the writer, and is left out.
THEOREM RiskIsCapped ==
    ASSUME SingleWriter, Requests = {}
    PROVE  Spec => []DailyRiskCap
<1>1. Init => RiskInv
  <2> SUFFICES ASSUME Init PROVE RiskInv
    OBVIOUS
  <2>1. Executed = {} BY DEF Init, Executed
  <2>2. RiskCounts BY <2>1, FS_EmptySet, BoundsAssumption DEF Init, RiskCounts
  <2>3. RiskSeen /\ RiskLeft BY TasksAssumption DEF Init, RiskSeen, RiskLeft, Tasks
  <2>4. RiskAdded /\ ExecutedAdds BY DEF Init, RiskAdded, ExecutedAdds, NoStatus, Untouched
  <2> QED BY <2>2, <2>3, <2>4 DEF RiskInv
<1>2. TypeOK /\ TargetsKnown /\ WriterInv /\ RiskInv /\ [Next]_vars => RiskInv'
  BY RiskStep
<1>3. TypeOK /\ RiskInv => DailyRiskCap
  <2> SUFFICES ASSUME TypeOK, RiskInv PROVE DailyRiskCap
    OBVIOUS
  <2>1. /\ IsFiniteSet(Executed) /\ Cardinality(Executed) <= dbRisked
        /\ dbRisked <= MaxDailyRisk /\ dbRisked \in Nat
    BY DEF RiskInv, RiskCounts, TypeOK
  <2>2. Cardinality(Executed) \in Nat BY <2>1, FS_CardinalityType
  <2> QED BY <2>1, <2>2, BoundsAssumption DEF DailyRiskCap
<1> QED BY <1>1, <1>2, <1>3, WriterHeld, PTL DEF Spec

-----------------------------------------------------------------------------
(* The exposure of an instrument.                                          *)

\* An order the broker has is some signal's, and waits only if it is of a kind
\* that waits.
KindsKept ==
    \A k \in Tickets : /\ broker[k] # "none" => owner[k] \in Signals
                       /\ broker[k] = "pending" => KindOf[owner[k]] = "pending"

\* While an evaluation stands, no position is opened at market behind its
\* snapshot; past the limits, what is open leaves room for the rest of the plan.
SnapshotTrue ==
    \A t \in Workers : pc[t] = "evaluate" =>
        \A s \in Signals : MarketOpen(SymOf[s]) \subseteq sawOpen[t]
HeldBy(t) == Cardinality(MarketOpen(SymOf[target[t]]))
RoomLeft ==
    \A t \in Workers :
        /\ pc[t] \in {"listing", "cancelling"} => HeldBy(t) + 1 <= MaxPerSymbol
        /\ pc[t] \in {"send", "persist"} => leg[t] \in 1..LegsOf[target[t]]
        /\ pc[t] = "send" => HeldBy(t) + 2 <= MaxPerSymbol + leg[t]
        /\ pc[t] = "persist" => HeldBy(t) + 1 <= MaxPerSymbol + leg[t]

ExposureInv == KindsKept /\ SnapshotTrue /\ RoomLeft /\ ExposureCap

\* The open positions are among the tickets, so they can be counted.
LEMMA HeldCounted ==
    ASSUME TypeOK, NEW x
    PROVE  IsFiniteSet(MarketOpen(x)) /\ Cardinality(MarketOpen(x)) \in Nat
<1>1. MarketOpen(x) \subseteq Tickets BY DEF MarketOpen, OpenTickets
<1>2. IsFiniteSet(Tickets) BY FS_Interval, BoundsAssumption DEF Tickets
<1>3. IsFiniteSet(MarketOpen(x)) BY <1>1, <1>2, FS_Subset
<1> QED BY <1>3, FS_CardinalityType

\* Positions that close leave fewer of them.
LEMMA HeldShrinks ==
    ASSUME TypeOK, NEW x, MarketOpen(x)' \subseteq MarketOpen(x)
    PROVE  /\ Cardinality(MarketOpen(x)') \in Nat /\ Cardinality(MarketOpen(x)) \in Nat
           /\ Cardinality(MarketOpen(x)') <= Cardinality(MarketOpen(x))
<1>1. IsFiniteSet(MarketOpen(x)) /\ Cardinality(MarketOpen(x)) \in Nat BY HeldCounted
<1>2. /\ IsFiniteSet(MarketOpen(x)')
      /\ Cardinality(MarketOpen(x)') <= Cardinality(MarketOpen(x))
  BY <1>1, FS_Subset
<1> QED BY <1>1, <1>2, FS_CardinalityType

\* One order adds at most one position.
LEMMA HeldGrows ==
    ASSUME TypeOK, NEW x, NEW k, MarketOpen(x)' \subseteq MarketOpen(x) \union {k}
    PROVE  /\ Cardinality(MarketOpen(x)') \in Nat /\ Cardinality(MarketOpen(x)) \in Nat
           /\ Cardinality(MarketOpen(x)') <= Cardinality(MarketOpen(x)) + 1
<1> DEFINE more == MarketOpen(x) \union {k}
<1>1. IsFiniteSet(MarketOpen(x)) /\ Cardinality(MarketOpen(x)) \in Nat BY HeldCounted
<1>2. /\ IsFiniteSet(more)
      /\ \/ Cardinality(more) = Cardinality(MarketOpen(x))
         \/ Cardinality(more) = Cardinality(MarketOpen(x)) + 1
  BY <1>1, FS_AddElement
<1>3. IsFiniteSet(MarketOpen(x)') /\ Cardinality(MarketOpen(x)') <= Cardinality(more)
  BY <1>2, FS_Subset
<1>4. Cardinality(MarketOpen(x)') \in Nat BY <1>3, FS_CardinalityType
<1> QED BY <1>1, <1>2, <1>3, <1>4

\* No position appears: the counts of every instrument shrink.
Shrinks ==
    \A s \in Signals : MarketOpen(SymOf[s])' \subseteq MarketOpen(SymOf[s])

\* What only closes positions keeps the caps.
LEMMA ShrinksCap ==
    ASSUME TypeOK, ExposureCap, Shrinks
    PROVE  ExposureCap'
<1> SUFFICES ASSUME NEW s \in Signals, NEW n \in {LegsOf[r] : r \in Signals},
                    \A r \in Signals : LegsOf[r] <= n
             PROVE  Cardinality(MarketOpen(SymOf[s])') <= MaxPerSymbol + n - 1
  BY DEF ExposureCap
<1>1. Cardinality(MarketOpen(SymOf[s])) <= MaxPerSymbol + n - 1 BY DEF ExposureCap
<1>2. /\ Cardinality(MarketOpen(SymOf[s])') \in Nat /\ Cardinality(MarketOpen(SymOf[s])) \in Nat
      /\ Cardinality(MarketOpen(SymOf[s])') <= Cardinality(MarketOpen(SymOf[s]))
  BY HeldShrinks DEF Shrinks
<1>3. n \in Nat BY SignalsAssumption
<1> QED BY <1>1, <1>2, <1>3, BoundsAssumption

\* A task that keeps the room it had while no position appears.
LEMMA ShrinksRoom ==
    ASSUME TypeOK, TargetsKnown, RoomLeft, Shrinks, NEW u \in Workers,
           pc'[u] = pc[u], leg'[u] = leg[u], target'[u] = target[u]
    PROVE  /\ pc'[u] \in {"listing", "cancelling"} => HeldBy(u)' + 1 <= MaxPerSymbol
           /\ pc'[u] \in {"send", "persist"} => leg'[u] \in 1..LegsOf[target'[u]]
           /\ pc'[u] = "send" => HeldBy(u)' + 2 <= MaxPerSymbol + leg'[u]
           /\ pc'[u] = "persist" => HeldBy(u)' + 1 <= MaxPerSymbol + leg'[u]
<1>1. CASE pc[u] \in {"listing", "cancelling", "send", "persist"}
  <2>1. target[u] \in Signals BY <1>1 DEF TargetsKnown
  <2>2. /\ HeldBy(u)' \in Nat /\ HeldBy(u) \in Nat /\ HeldBy(u)' <= HeldBy(u)
    BY <2>1, HeldShrinks DEF Shrinks, HeldBy
  <2>3. leg[u] \in Nat BY DEF TypeOK, Tasks
  <2> QED BY <2>2, <2>3, BoundsAssumption DEF RoomLeft
<1>2. CASE pc[u] \notin {"listing", "cancelling", "send", "persist"}
  BY <1>2
<1> QED BY <1>1, <1>2

\* A step of one task during which no position appears.
LEMMA ExposureMove ==
    ASSUME TypeOK, TargetsKnown, ExposureInv, NEW t \in Tasks, NEW where, Moved(t, where),
           KindsKept', Shrinks,
           \A u \in Tasks \ {t} : /\ sawOpen'[u] = sawOpen[u] /\ leg'[u] = leg[u]
                                  /\ target'[u] = target[u],
           t \in Workers /\ where = "evaluate" =>
               \A s \in Signals : MarketOpen(SymOf[s])' \subseteq sawOpen'[t],
           t \in Workers => /\ where \in {"listing", "cancelling"} => HeldBy(t)' + 1 <= MaxPerSymbol
                            /\ where \in {"send", "persist"} => leg'[t] \in 1..LegsOf[target'[t]]
                            /\ where = "send" => HeldBy(t)' + 2 <= MaxPerSymbol + leg'[t]
                            /\ where = "persist" => HeldBy(t)' + 1 <= MaxPerSymbol + leg'[t]
    PROVE  ExposureInv'
<1>0. Workers \subseteq Tasks BY DEF Tasks
<1>1. SnapshotTrue'
  <2> SUFFICES ASSUME NEW u \in Workers, pc'[u] = "evaluate", NEW s \in Signals
               PROVE  MarketOpen(SymOf[s])' \subseteq sawOpen'[u]
    BY DEF SnapshotTrue
  <2>1. CASE u = t BY <1>0, <2>1 DEF Moved
  <2>2. CASE u # t
    <3>1. pc[u] = "evaluate" /\ sawOpen'[u] = sawOpen[u] BY <1>0, <2>2 DEF Moved
    <3> QED BY <3>1 DEF ExposureInv, SnapshotTrue, Shrinks
  <2> QED BY <2>1, <2>2
<1>2. RoomLeft'
  <2> SUFFICES ASSUME NEW u \in Workers
               PROVE  /\ pc'[u] \in {"listing", "cancelling"} => HeldBy(u)' + 1 <= MaxPerSymbol
                      /\ pc'[u] \in {"send", "persist"} => leg'[u] \in 1..LegsOf[target'[u]]
                      /\ pc'[u] = "send" => HeldBy(u)' + 2 <= MaxPerSymbol + leg'[u]
                      /\ pc'[u] = "persist" => HeldBy(u)' + 1 <= MaxPerSymbol + leg'[u]
    BY DEF RoomLeft
  <2>1. CASE u = t BY <1>0, <2>1 DEF Moved
  <2>2. CASE u # t BY <1>0, <2>2, ShrinksRoom DEF Moved, ExposureInv
  <2> QED BY <2>1, <2>2
<1>3. ExposureCap' BY ShrinksCap DEF ExposureInv
<1> QED BY <1>1, <1>2, <1>3 DEF ExposureInv

\* The broker is left alone, and the task goes where no room is asked of it.
LEMMA ExposureSame ==
    ASSUME TypeOK, TargetsKnown, ExposureInv, NEW t \in Tasks, NEW where, Moved(t, where),
           UNCHANGED <<broker, owner>>,
           \A u \in Tasks \ {t} : /\ sawOpen'[u] = sawOpen[u] /\ leg'[u] = leg[u]
                                  /\ target'[u] = target[u],
           t \in Workers =>
               where \notin {"evaluate", "listing", "cancelling", "send", "persist"}
    PROVE  ExposureInv'
<1>1. KindsKept' BY DEF ExposureInv, KindsKept
<1>2. Shrinks BY DEF Shrinks, MarketOpen, OpenTickets
<1> QED BY <1>1, <1>2, ExposureMove

\* An order reaches the broker: one more position on its instrument, which the room
\* left to its sender allows; no other evaluation is under way.
LEMMA ExposureAccept ==
    ASSUME TypeOK, TargetsKnown, OneAtATime, FreshTickets, ExposureInv,
           NEW t \in Workers, pc[t] = "send", Accept(t), NEW where, Moved(t, where),
           where \in {"persist", "failed"}, UNCHANGED <<target, leg>>
    PROVE  ExposureInv'
<1> DEFINE new == lastTicket + 1
           s == target[t]
<1>0. /\ t \in Tasks /\ Workers \subseteq Tasks /\ s \in Signals
      /\ new \in Tickets /\ broker[new] = "none"
  BY BoundsAssumption DEF Tasks, TargetsKnown, Accept, Tickets, TypeOK, FreshTickets
<1>1. /\ \A k \in Tickets \ {new} : broker'[k] = broker[k] /\ owner'[k] = owner[k]
      /\ broker'[new] = (IF KindOf[s] = "pending" THEN "pending" ELSE "open")
      /\ owner'[new] = s
  BY <1>0 DEF Accept, TypeOK
<1>2. \A u \in Workers \ {t} : pc'[u] = pc[u] /\
         pc[u] \notin {"evaluate", "listing", "cancelling", "send", "persist"}
  <2>1. engineLock = t BY <1>0 DEF OneAtATime, InEvaluation
  <2> QED BY <1>0, <2>1 DEF OneAtATime, InEvaluation, Moved
<1>3. KindsKept' BY <1>0, <1>1 DEF ExposureInv, KindsKept
<1>4. \A r \in Signals :
         /\ MarketOpen(SymOf[r])' \subseteq MarketOpen(SymOf[r]) \union {new}
         /\ SymOf[r] # SymOf[s] => MarketOpen(SymOf[r])' \subseteq MarketOpen(SymOf[r])
  BY <1>0, <1>1 DEF MarketOpen, OpenTickets
<1>5. /\ leg[t] \in 1..LegsOf[s] /\ LegsOf[s] \in Nat
      /\ Cardinality(MarketOpen(SymOf[s])) + 2 <= MaxPerSymbol + leg[t]
  BY <1>0, SignalsAssumption DEF ExposureInv, RoomLeft, HeldBy
<1>6. /\ Cardinality(MarketOpen(SymOf[s])') \in Nat
      /\ Cardinality(MarketOpen(SymOf[s])) \in Nat
      /\ Cardinality(MarketOpen(SymOf[s])') <= Cardinality(MarketOpen(SymOf[s])) + 1
  BY <1>0, <1>4, HeldGrows
<1>7. Cardinality(MarketOpen(SymOf[s])') + 1 <= MaxPerSymbol + leg[t]
  BY <1>5, <1>6, BoundsAssumption
<1>8. SnapshotTrue' BY <1>0, <1>2 DEF SnapshotTrue, Moved
<1>9. RoomLeft'
  <2> SUFFICES ASSUME NEW u \in Workers
               PROVE  /\ pc'[u] \in {"listing", "cancelling"} => HeldBy(u)' + 1 <= MaxPerSymbol
                      /\ pc'[u] \in {"send", "persist"} => leg'[u] \in 1..LegsOf[target'[u]]
                      /\ pc'[u] = "send" => HeldBy(u)' + 2 <= MaxPerSymbol + leg'[u]
                      /\ pc'[u] = "persist" => HeldBy(u)' + 1 <= MaxPerSymbol + leg'[u]
    BY DEF RoomLeft
  <2>1. CASE u # t BY <1>2, <2>1
  <2>2. CASE u = t
    <3>1. HeldBy(t)' + 1 <= MaxPerSymbol + leg[t] BY <1>7 DEF HeldBy
    <3>2. pc'[t] = where BY <1>0 DEF Moved
    <3> QED BY <1>5, <2>2, <3>1, <3>2
  <2> QED BY <2>1, <2>2
<1>10. ExposureCap'
  <2> SUFFICES ASSUME NEW r \in Signals, NEW n \in {LegsOf[q] : q \in Signals},
                      \A q \in Signals : LegsOf[q] <= n
               PROVE  Cardinality(MarketOpen(SymOf[r])') <= MaxPerSymbol + n - 1
    BY DEF ExposureCap
  <2>1. n \in Nat /\ LegsOf[s] <= n BY <1>0, SignalsAssumption
  <2>2. CASE SymOf[r] = SymOf[s]
    <3>1. Cardinality(MarketOpen(SymOf[r])') = Cardinality(MarketOpen(SymOf[s])')
      BY <2>2
    <3>2. leg[t] <= n /\ leg[t] \in Nat BY <1>5, <2>1
    <3> QED BY <1>6, <1>7, <2>1, <3>1, <3>2, BoundsAssumption
  <2>3. CASE SymOf[r] # SymOf[s]
    <3>1. Cardinality(MarketOpen(SymOf[r])) <= MaxPerSymbol + n - 1
      BY DEF ExposureInv, ExposureCap
    <3>2. /\ Cardinality(MarketOpen(SymOf[r])') \in Nat
          /\ Cardinality(MarketOpen(SymOf[r])) \in Nat
          /\ Cardinality(MarketOpen(SymOf[r])') <= Cardinality(MarketOpen(SymOf[r]))
      BY <1>4, <2>3, HeldShrinks
    <3> QED BY <2>1, <3>1, <3>2, BoundsAssumption
  <2> QED BY <2>2, <2>3
<1> QED BY <1>3, <1>8, <1>9, <1>10 DEF ExposureInv

\* An evaluation sends an order only while the caps leave it room.
LEMMA WorkerExposure ==
    ASSUME TypeOK, TargetsKnown, OneAtATime, FreshTickets, ExposureInv,
           NEW t \in Workers, WorkerStep(t)
    PROVE  ExposureInv'
<1>0. t \in Tasks /\ t # Monitor BY TasksAssumption DEF Tasks
<1>t. pc[t] # "idle" => target[t] \in Signals BY DEF TargetsKnown
<1>h. HeldBy(t) \in Nat /\ leg[t] \in Nat BY <1>0, HeldCounted DEF HeldBy, TypeOK
<1>k. UNCHANGED <<broker, owner>> => KindsKept' /\ Shrinks
  BY DEF ExposureInv, KindsKept, Shrinks, MarketOpen, OpenTickets
<1>b. UNCHANGED <<broker, owner, target>> => HeldBy(t)' = HeldBy(t)
  BY DEF HeldBy, MarketOpen, OpenTickets
<1> USE <1>0
<1>1. CASE EnterEvaluation(t) \/ Commit(t)
  <2>1. UNCHANGED <<broker, owner, sawOpen, leg, target>>
    BY <1>1 DEF EnterEvaluation, Commit, terminal, memory, reads, plan
  <2>2. PICK where \in {"route", "done"} : Goto(t, where) BY <1>1 DEF EnterEvaluation, Commit
  <2> QED BY <2>1, <2>2, GotoMoves, ExposureSame
<1>2. CASE Observe(t) \/ AskReview(t) \/ Refuse(t) \/ RefuseTwin(t) \/ SendRefused(t)
  <2>1. PICK st : EndWith(t, st)
    BY <1>2 DEF Observe, AskReview, Refuse, RefuseTwin, SendRefused
  <2>2. UNCHANGED <<broker, owner, sawOpen, leg, target>> /\ Goto(t, "commit")
    BY <2>1 DEF EndWith, terminal, memory, reads, plan
  <2> QED BY <2>2, GotoMoves, ExposureSame
<1>3. CASE ReadFails(t) \/ BusyTimeout(t)
  <2>1. Rollback(t) /\ UNCHANGED <<broker, owner>> BY <1>3 DEF ReadFails, BusyTimeout, terminal
  <2>2. UNCHANGED <<sawOpen, leg, target>> /\ Moved(t, "failed")
    BY <2>1, RollbackEffect DEF memory, reads, plan
  <2> QED BY <2>1, <2>2, ExposureSame
<1>4. CASE SendLost(t)
  <2>1. UNCHANGED <<sawOpen, leg, target>> /\ Moved(t, "failed") /\ pc[t] = "send"
    BY <1>4, RollbackEffect DEF SendLost, memory, reads, plan
  <2>2. CASE Accept(t) BY <2>1, <2>2, ExposureAccept
  <2>3. CASE UNCHANGED terminal BY <2>1, <2>3, ExposureSame DEF terminal
  <2> QED BY <1>4, <2>2, <2>3 DEF SendLost
<1>5. CASE ReadAccount(t)
  <2>1. UNCHANGED <<broker, owner, leg, target>> /\ Moved(t, "evaluate")
    BY <1>5, GotoMoves DEF ReadAccount, terminal, plan
  <2>2. \A u \in Tasks : sawOpen'[u] = IF u = t THEN OpenTickets ELSE sawOpen[u]
    BY <1>5 DEF ReadAccount, TypeOK
  <2>3. \A s \in Signals : MarketOpen(SymOf[s])' \subseteq OpenTickets
    BY <2>1 DEF MarketOpen, OpenTickets
  <2> QED BY <1>k, <2>1, <2>2, <2>3, ExposureMove
<1>6. CASE Approve(t)
  <2>1. /\ UNCHANGED <<broker, owner, sawOpen, leg, target>> /\ Moved(t, "listing")
        /\ pc[t] = "evaluate"
    BY <1>6, GotoMoves DEF Approve, terminal, memory, reads, plan
  <2>2. MarketOpen(SymOf[target[t]]) \subseteq OnSymbol(sawOpen[t], target[t])
    BY <1>t, <2>1 DEF ExposureInv, SnapshotTrue, KindsKept, MarketOpen, OpenTickets, OnSymbol
  <2>3. IsFiniteSet(OnSymbol(sawOpen[t], target[t]))
    <3>1. OnSymbol(sawOpen[t], target[t]) \subseteq Tickets BY DEF OnSymbol, TypeOK
    <3>2. IsFiniteSet(Tickets) BY FS_Interval, BoundsAssumption DEF Tickets
    <3> QED BY <3>1, <3>2, FS_Subset
  <2>4. /\ HeldBy(t) <= Cardinality(OnSymbol(sawOpen[t], target[t]))
        /\ Cardinality(OnSymbol(sawOpen[t], target[t])) \in Nat
    BY <2>2, <2>3, FS_Subset, FS_CardinalityType DEF HeldBy
  <2>5. Cardinality(OnSymbol(sawOpen[t], target[t])) < MaxPerSymbol
    BY <1>6 DEF Approve, WithinLimits
  <2>6. HeldBy(t)' + 1 <= MaxPerSymbol
    BY <1>b, <1>h, <2>1, <2>4, <2>5, BoundsAssumption
  <2> QED BY <1>k, <2>1, <2>6, ExposureMove
<1>7. CASE ListOpposite(t)
  <2>1. /\ UNCHANGED <<broker, owner, sawOpen, leg, target>> /\ Moved(t, "cancelling")
        /\ pc[t] = "listing"
    BY <1>7, GotoMoves DEF ListOpposite, terminal, reads
  <2>2. HeldBy(t)' + 1 <= MaxPerSymbol BY <1>b, <2>1 DEF ExposureInv, RoomLeft
  <2> QED BY <1>k, <2>1, <2>2, ExposureMove
<1>8. ASSUME NEW k \in Tickets, CancelOpposite(t, k) PROVE ExposureInv'
  <2>1. /\ UNCHANGED <<pc, owner, sawOpen, leg, target>> /\ Moved(t, "cancelling")
        /\ pc[t] = "cancelling"
    BY <1>8 DEF CancelOpposite, Moved, reads
  <2>2. \A l \in Tickets : broker'[l] = broker[l] \/ (broker[l] = "pending" /\ broker'[l] = "gone")
    BY <1>8 DEF CancelOpposite, TypeOK
  <2>3. KindsKept' BY <2>1, <2>2 DEF ExposureInv, KindsKept
  <2>4. Shrinks BY <2>1, <2>2 DEF Shrinks, MarketOpen, OpenTickets
  <2>5. HeldBy(t)' + 1 <= MaxPerSymbol
    BY <2>1, <2>4, ShrinksRoom DEF ExposureInv
  <2> QED BY <2>1, <2>3, <2>4, <2>5, ExposureMove
<1>9. CASE BeginExecution(t)
  <2>1. /\ UNCHANGED <<broker, owner, sawOpen, target>> /\ Moved(t, "send")
        /\ pc[t] = "cancelling"
    BY <1>9, GotoMoves DEF BeginExecution, terminal, reads
  <2>2. \A u \in Tasks : leg'[u] = IF u = t THEN 1 ELSE leg[u]
    BY <1>9 DEF BeginExecution, TypeOK
  <2>3. HeldBy(t)' + 1 <= MaxPerSymbol BY <1>b, <2>1 DEF ExposureInv, RoomLeft
  <2>4. HeldBy(t)' + 2 <= MaxPerSymbol + leg'[t]
    BY <1>b, <1>h, <2>1, <2>2, <2>3, BoundsAssumption
  <2>5. leg'[t] \in 1..LegsOf[target'[t]]
    BY <1>t, <2>1, <2>2, SignalsAssumption
  <2> QED BY <1>k, <2>1, <2>2, <2>4, <2>5, ExposureMove
<1>10. CASE SendOrder(t)
  <2>1. /\ Moved(t, "persist") /\ pc[t] = "send" /\ Accept(t) /\ UNCHANGED <<target, leg>>
    BY <1>10, GotoMoves DEF SendOrder
  <2> QED BY <2>1, ExposureAccept
<1>11. CASE PersistOrder(t)
  <2>1. /\ UNCHANGED <<broker, owner, sawOpen, target>> /\ Moved(t, "send")
        /\ pc[t] = "persist" /\ leg[t] < LegsOf[target[t]]
    BY <1>11, GotoMoves DEF PersistOrder, terminal, reads
  <2>2. \A u \in Tasks : leg'[u] = IF u = t THEN leg[t] + 1 ELSE leg[u]
    BY <1>11 DEF PersistOrder, TypeOK
  <2>3. HeldBy(t) + 1 <= MaxPerSymbol + leg[t] BY <2>1 DEF ExposureInv, RoomLeft
  <2>4. HeldBy(t)' + 2 <= MaxPerSymbol + leg'[t]
    BY <1>b, <1>h, <2>1, <2>2, <2>3, BoundsAssumption
  <2>5. leg'[t] \in 1..LegsOf[target'[t]]
    BY <1>t, <1>h, <2>1, <2>2, SignalsAssumption
  <2> QED BY <1>k, <2>1, <2>2, <2>4, <2>5, ExposureMove
<1>12. CASE FinishExecution(t)
  <2>1. UNCHANGED <<broker, owner, sawOpen, leg, target>> /\ Moved(t, "commit")
    BY <1>12, GotoMoves DEF FinishExecution, terminal, memory, reads, plan
  <2> QED BY <2>1, ExposureSame
<1> QED BY <1>1, <1>2, <1>3, <1>4, <1>5, <1>6, <1>7, <1>8, <1>9, <1>10, <1>11, <1>12
        DEF WorkerStep

\* The monitor opens no position.
LEMMA MonitorExposure ==
    ASSUME TypeOK, TargetsKnown, ExposureInv, MonitorStep
    PROVE  ExposureInv'
<1>0. Monitor \in Tasks /\ Monitor \notin Workers BY TasksAssumption DEF Tasks
<1>1. UNCHANGED <<broker, owner, leg, target>>
  BY DEF MonitorStep, BeginCycle, CycleUnreadable, ReconcilePending, FlushOrders,
     DetectClosures, FlushTrades, ExpireStaleSignals, FlushExpiry, EndCycle,
     BusyTimeout, Flush, Rollback, terminal, memory, plan
<1>2. \A u \in Tasks \ {Monitor} : sawOpen'[u] = sawOpen[u]
  BY DEF MonitorStep, BeginCycle, CycleUnreadable, ReconcilePending, FlushOrders,
     DetectClosures, FlushTrades, ExpireStaleSignals, FlushExpiry, EndCycle,
     BusyTimeout, Flush, Rollback, memory, reads, TypeOK
<1>3. \E where : Goto(Monitor, where)
  BY DEF MonitorStep, BeginCycle, CycleUnreadable, ReconcilePending, FlushOrders,
     DetectClosures, FlushTrades, ExpireStaleSignals, FlushExpiry, EndCycle,
     BusyTimeout, Flush, Rollback
<1> QED BY <1>0, <1>1, <1>2, <1>3, GotoMoves, ExposureSame

\* Every step keeps the exposure under its caps.
LEMMA ExposureStep ==
    ASSUME TypeOK, TargetsKnown, OneAtATime, FreshTickets, ExposureInv, [Next]_vars
    PROVE  ExposureInv'
<1>0. Signals \subseteq Workers /\ Requests \subseteq Workers /\ Workers \subseteq Tasks
  BY DEF Workers, Tasks
<1>e. ASSUME NEW t \in Workers,
             \/ t \in Signals /\ (Arrive(t) \/ RecordSignal(t))
             \/ t \in Requests /\ ExpireOnApproval(t)
             \/ /\ t \in Requests
                /\ \E s \in Signals : ApproveManually(t, s) \/ RejectManually(t, s)
      PROVE  ExposureInv'
  <2>1. UNCHANGED <<broker, owner, sawOpen, leg>>
    BY <1>e DEF Arrive, RecordSignal, ExpireOnApproval, ApproveManually, RejectManually,
         terminal, memory, reads, plan
  <2>2. \A u \in Tasks \ {t} : target'[u] = target[u]
    BY <1>e DEF Arrive, RecordSignal, ExpireOnApproval, ApproveManually, RejectManually,
         memory, TypeOK
  <2>3. PICK where \in {"insert", "lockwait", "commit", "expire"} : Goto(t, where)
    BY <1>e DEF Arrive, RecordSignal, ExpireOnApproval, ApproveManually, RejectManually
  <2> QED BY <1>0, <2>1, <2>2, <2>3, GotoMoves, ExposureSame
<1>1. ASSUME NEW s \in Signals, MessageStep(s) PROVE ExposureInv'
  BY <1>0, <1>1, <1>e, WorkerExposure DEF MessageStep
<1>2. ASSUME NEW r \in Requests, RequestStep(r) PROVE ExposureInv'
  BY <1>0, <1>2, <1>e, WorkerExposure DEF RequestStep
<1>3. CASE MonitorStep BY <1>3, MonitorExposure
<1>4. ASSUME NEW s \in Signals, Arrive(s) PROVE ExposureInv'
  BY <1>0, <1>4, <1>e
<1>5. ASSUME NEW r \in Requests, NEW s \in Signals,
             ApproveManually(r, s) \/ RejectManually(r, s)
      PROVE  ExposureInv'
  BY <1>0, <1>5, <1>e
<1>6. CASE Crash
  <2>1. UNCHANGED <<broker, owner>> BY <1>6 DEF Crash, terminal
  <2>2. \A t \in Workers :
           pc'[t] \notin {"evaluate", "listing", "cancelling", "send", "persist"}
    BY <1>6, TasksAssumption DEF Crash, Tasks
  <2>3. Shrinks /\ KindsKept'
    BY <2>1 DEF Shrinks, MarketOpen, OpenTickets, ExposureInv, KindsKept
  <2>4. SnapshotTrue' /\ RoomLeft' BY <2>2 DEF SnapshotTrue, RoomLeft
  <2>5. ExposureCap' BY <2>3, ShrinksCap DEF ExposureInv
  <2> QED BY <2>3, <2>4, <2>5 DEF ExposureInv
<1>7. ASSUME NEW k \in Tickets, BrokerMoves(k) PROVE ExposureInv'
  <2>1. UNCHANGED <<pc, sawOpen, leg, target, owner>>
    BY <1>7 DEF BrokerMoves, local, memory, reads, plan
  <2>2. \A l \in Tickets : \/ broker'[l] = broker[l]
                           \/ broker[l] = "pending" /\ broker'[l] = "open"
                           \/ broker[l] \in {"pending", "open"} /\ broker'[l] = "gone"
    BY <1>7 DEF BrokerMoves, TypeOK
  <2>3. KindsKept' BY <2>1, <2>2 DEF ExposureInv, KindsKept
  <2>4. Shrinks
    BY <2>1, <2>2 DEF Shrinks, MarketOpen, OpenTickets, ExposureInv, KindsKept
  <2>5. SnapshotTrue' BY <2>1, <2>4 DEF ExposureInv, SnapshotTrue, Shrinks
  <2>6. RoomLeft'
    <3> SUFFICES ASSUME NEW u \in Workers
                 PROVE  /\ pc'[u] \in {"listing", "cancelling"} => HeldBy(u)' + 1 <= MaxPerSymbol
                        /\ pc'[u] \in {"send", "persist"} => leg'[u] \in 1..LegsOf[target'[u]]
                        /\ pc'[u] = "send" => HeldBy(u)' + 2 <= MaxPerSymbol + leg'[u]
                        /\ pc'[u] = "persist" => HeldBy(u)' + 1 <= MaxPerSymbol + leg'[u]
      BY DEF RoomLeft
    <3> QED BY <2>1, <2>4, ShrinksRoom DEF ExposureInv
  <2>7. ExposureCap' BY <2>4, ShrinksCap DEF ExposureInv
  <2> QED BY <2>3, <2>5, <2>6, <2>7 DEF ExposureInv
<1>8. CASE \/ UNCHANGED vars
           \/ \E s \in Signals : Deadline(s)
           \/ \E b \in BOOLEAN : SetPaused(b)
  <2>1. UNCHANGED <<pc, sawOpen, leg, target, broker, owner>>
    BY <1>8 DEF vars, local, memory, reads, plan, terminal, Deadline, SetPaused
  <2> QED BY <2>1 DEF ExposureInv, KindsKept, SnapshotTrue, RoomLeft, HeldBy, ExposureCap,
                      MarketOpen, OpenTickets
<1> QED BY <1>1, <1>2, <1>3, <1>4, <1>5, <1>6, <1>7, <1>8 DEF Next, Outside

\* The positions opened at market on one instrument never exceed the limit by more
\* than the rest of one plan, however the evaluations, the fills and the lost
\* calls interleave, on both databases: the limit is compared with a snapshot of
\* the account, which the engine's lock keeps true until the orders are placed.
THEOREM ExposureIsCapped == Spec => []ExposureCap
<1>1. Init => ExposureInv
  <2> SUFFICES ASSUME Init PROVE ExposureInv
    OBVIOUS
  <2>1. KindsKept /\ SnapshotTrue /\ RoomLeft
    BY TasksAssumption DEF Init, KindsKept, SnapshotTrue, RoomLeft, Tasks
  <2>2. \A x : MarketOpen(x) = {} BY DEF Init, MarketOpen, OpenTickets
  <2>3. ExposureCap
    <3> SUFFICES ASSUME NEW s \in Signals, NEW n \in {LegsOf[r] : r \in Signals}
                 PROVE  Cardinality(MarketOpen(SymOf[s])) <= MaxPerSymbol + n - 1
      BY DEF ExposureCap
    <3>1. n \in Nat /\ n > 0 BY SignalsAssumption
    <3>2. Cardinality(MarketOpen(SymOf[s])) = 0 BY <2>2, FS_EmptySet
    <3> QED BY <3>1, <3>2, BoundsAssumption
  <2> QED BY <2>1, <2>3 DEF ExposureInv
<1>2. TypeOK /\ TargetsKnown /\ OneAtATime /\ ClosureInv /\ ExposureInv /\ [Next]_vars
        => ExposureInv'
  BY ExposureStep DEF ClosureInv
<1>3. ExposureInv => ExposureCap BY DEF ExposureInv
<1> QED BY <1>1, <1>2, <1>3, WriterHeld, MutualExclusion, ClosureHeld, PTL DEF Spec
=============================================================================
