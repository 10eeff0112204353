------------------------ MODULE TradingEngineProofs ------------------------
(* Type correctness of TradingEngine, and the mutual exclusion of the      *)
(* evaluations and the monitor's cycles, for every set of signals and      *)
(* requests, every plan, every limit and both kinds of database.           *)
EXTENDS TradingEngine, TLAPS

-----------------------------------------------------------------------------
(* What the session helpers return.                                        *)

\* A commit replaces some entries of a table by values of the same type.
LEMMA OverlayType ==
    ASSUME NEW D, NEW R, NEW table \in [D -> R],
           NEW writes \in [D -> R \union {Untouched}]
    PROVE  Overlay(table, writes) \in [D -> R]
  BY DEF Overlay

\* What a commit publishes keeps the tables in their types.
LEMMA PublishType ==
    ASSUME TypeOK, NEW t \in Tasks, Publish(t)
    PROVE  /\ dbStatus' \in [Signals -> Status]
           /\ dbRow' \in [Tickets -> RowState]
           /\ dbRisked' \in Nat
           /\ dbPaused' \in BOOLEAN
<1>1. wStatus[t] \in [Signals -> Status \union {Untouched}]
  BY DEF TypeOK
<1>2. wRow[t] \in [Tickets -> RowState \union {Untouched}]
  BY DEF TypeOK
<1>3. dbStatus' \in [Signals -> Status]
  BY <1>1, OverlayType DEF Publish, TypeOK
<1>4. dbRow' \in [Tickets -> RowState]
  BY <1>2, OverlayType DEF Publish, TypeOK
<1>5. dbRisked' \in Nat /\ dbPaused' \in BOOLEAN
  BY DEF Publish, TypeOK, NoRisk
<1> QED BY <1>3, <1>4, <1>5

\* The end of a session leaves every session's writes in their types.
LEMMA SessionType ==
    ASSUME TypeOK, NEW t \in Tasks, CloseSession(t)
    PROVE  /\ wStatus' \in [Tasks -> [Signals -> Status \union {Untouched}]]
           /\ wRow' \in [Tasks -> [Tickets -> RowState \union {Untouched}]]
           /\ wRisk' \in [Tasks -> Nat \union {NoRisk}]
           /\ writer' \in Tasks \union {Nobody}
  BY DEF TypeOK, CloseSession, DropWriter, NoStatus, NoRow

\* A rollback keeps the types, and changes neither memory nor tables.
LEMMA RollbackType ==
    ASSUME TypeOK, NEW t \in Tasks, Rollback(t)
    PROVE  /\ pc' \in [Tasks -> WorkerPc \union MonitorPc]
           /\ \A w \in Workers : pc'[w] \in WorkerPc
           /\ pc'[Monitor] \in MonitorPc
           /\ wStatus' \in [Tasks -> [Signals -> Status \union {Untouched}]]
           /\ wRow' \in [Tasks -> [Tickets -> RowState \union {Untouched}]]
           /\ wRisk' \in [Tasks -> Nat \union {NoRisk}]
           /\ writer' \in Tasks \union {Nobody}
           /\ engineLock' \in Tasks \union {Nobody}
           /\ memory' = memory /\ tables' = tables
<1>1. CloseSession(t)
  BY DEF Rollback
<1>2. /\ pc' \in [Tasks -> WorkerPc \union MonitorPc]
      /\ \A w \in Workers : pc'[w] \in WorkerPc
      /\ pc'[Monitor] \in MonitorPc
  BY TasksAssumption DEF TypeOK, Rollback, Goto, Tasks, WorkerPc, MonitorPc
<1>3. engineLock' \in Tasks \union {Nobody} /\ memory' = memory /\ tables' = tables
  BY DEF TypeOK, Rollback, DropLock
<1> QED BY <1>1, <1>2, <1>3, SessionType

\* A worker moves to another of its control points.
LEMMA WorkerGoto ==
    ASSUME TypeOK, NEW t \in Workers, NEW where \in WorkerPc, Goto(t, where)
    PROVE  /\ pc' \in [Tasks -> WorkerPc \union MonitorPc]
           /\ \A w \in Workers : pc'[w] \in WorkerPc
           /\ pc'[Monitor] \in MonitorPc
  BY TasksAssumption DEF TypeOK, Goto, Tasks

\* The monitor only goes to steps of its own.
LEMMA MonitorGoto ==
    ASSUME TypeOK, NEW where \in MonitorPc, Goto(Monitor, where)
    PROVE  /\ pc' \in [Tasks -> WorkerPc \union MonitorPc]
           /\ \A w \in Workers : pc'[w] \in WorkerPc
           /\ pc'[Monitor] \in MonitorPc
  BY TasksAssumption DEF TypeOK, Goto, Tasks

\* A session that ends its evaluation with a status.
LEMMA EndWithType ==
    ASSUME TypeOK, NEW t \in Workers, NEW st \in Status, EndWith(t, st)
    PROVE  TypeOK'
<1>1. t \in Tasks BY DEF Tasks
<1>2. Goto(t, "commit") /\ "commit" \in WorkerPc BY DEF EndWith, WorkerPc
<1>3. wStatus' \in [Tasks -> [Signals -> Status \union {Untouched}]]
  BY <1>1 DEF TypeOK, EndWith, WriteStatus
<1>4. engineLock' \in Tasks \union {Nobody} /\ writer' \in Tasks \union {Nobody}
  BY <1>1 DEF TypeOK, EndWith, DropLock, TakeWriter
<1> QED BY <1>2, <1>3, <1>4, WorkerGoto
        DEF TypeOK, EndWith, WriteStatus, memory, reads, plan, tables,
            terminal
-----------------------------------------------------------------------------
(* Type correctness: one lemma per kind of task.                           *)

\* The initial state is of its types.
LEMMA InitType == Init => TypeOK
<1> SUFFICES ASSUME Init PROVE TypeOK
  OBVIOUS
<1>1. /\ pc \in [Tasks -> WorkerPc \union MonitorPc]
      /\ \A t \in Workers : pc[t] \in WorkerPc
      /\ pc[Monitor] \in MonitorPc
  BY TasksAssumption DEF Init, Tasks, WorkerPc, MonitorPc
<1>2. target \in [Tasks -> Signals \union {Nobody}]
  BY DEF Init
<1>3. /\ wStatus \in [Tasks -> [Signals -> Status \union {Untouched}]]
      /\ wRow \in [Tasks -> [Tickets -> RowState \union {Untouched}]]
      /\ wRisk \in [Tasks -> Nat \union {NoRisk}]
  BY DEF Init, NoStatus, NoRow
<1>4. /\ dbStatus \in [Signals -> Status] /\ dbRow \in [Tickets -> RowState]
      /\ broker \in [Tickets -> BrokerState]
      /\ owner \in [Tickets -> Signals \union {Nobody}]
  BY DEF Init, Status, RowState, BrokerState
<1>5. lastTicket \in 0..MaxTicket /\ faults \in 0..MaxFaults
  BY BoundsAssumption DEF Init
<1> QED BY <1>1, <1>2, <1>3, <1>4, <1>5 DEF Init, TypeOK

\* The broker's answer keeps its tables well typed.
LEMMA AcceptType ==
    ASSUME TypeOK, NEW t \in Workers, Accept(t)
    PROVE  /\ broker' \in [Tickets -> BrokerState]
           /\ owner' \in [Tickets -> Signals \union {Nobody}]
           /\ lastTicket' \in 0..MaxTicket
<1>1. target[t] \in Signals \union {Nobody} BY DEF TypeOK, Tasks
<1>2. lastTicket + 1 \in Tickets /\ lastTicket' = lastTicket + 1
  BY BoundsAssumption DEF Accept, TypeOK, Tickets
<1> QED BY <1>1, <1>2, BoundsAssumption DEF Accept, TypeOK, BrokerState, Tickets

\* A database found busy too long keeps the types.
LEMMA BusyTimeoutType ==
    ASSUME TypeOK, NEW t \in Tasks, BusyTimeout(t)
    PROVE  TypeOK'
<1>1. Rollback(t) BY DEF BusyTimeout
<1> QED BY <1>1, RollbackType
        DEF TypeOK, BusyTimeout, memory, reads, plan, tables, terminal

\* A step of an evaluation keeps the types.
LEMMA WorkerStepType ==
    ASSUME TypeOK, NEW t \in Workers, WorkerStep(t)
    PROVE  TypeOK'
<1>0. t \in Tasks BY DEF Tasks
<1> USE <1>0
<1>1. CASE EnterEvaluation(t)
  <2>1. Goto(t, "route") /\ "route" \in WorkerPc
    BY <1>1 DEF EnterEvaluation, WorkerPc
  <2>2. /\ sawPaused' \in [Tasks -> BOOLEAN] /\ sawRisked' \in [Tasks -> Nat]
    BY <1>1 DEF EnterEvaluation, TypeOK
  <2> QED BY <1>1, <2>1, <2>2, WorkerGoto
          DEF EnterEvaluation, TakeLock, TypeOK, session, memory, reads,
              plan, tables, terminal
<1>2. CASE Observe(t)
  BY <1>2, EndWithType DEF Observe, Status
<1>3. CASE AskReview(t)
  BY <1>3, EndWithType DEF AskReview, Status
<1>4. CASE ReadAccount(t)
  <2>1. Goto(t, "evaluate") /\ "evaluate" \in WorkerPc
    BY <1>4 DEF ReadAccount, WorkerPc
  <2>2. sawOpen' \in [Tasks -> SUBSET Tickets]
    BY <1>4 DEF ReadAccount, OpenTickets, TypeOK
  <2> QED BY <1>4, <2>1, <2>2, WorkerGoto
          DEF ReadAccount, TypeOK, session, memory, reads, plan, tables,
              terminal
<1>5. CASE ReadFails(t)
  <2>1. Rollback(t) BY <1>5 DEF ReadFails
  <2> QED BY <1>5, <2>1, RollbackType
          DEF TypeOK, ReadFails, memory, reads, plan, tables, terminal
<1>6. CASE Refuse(t)
  BY <1>6, EndWithType DEF Refuse, Status
<1>7. CASE Approve(t)
  <2>1. Goto(t, "listing") /\ "listing" \in WorkerPc BY <1>7 DEF Approve, WorkerPc
  <2> QED BY <1>7, <2>1, WorkerGoto
          DEF Approve, TakeWriter, TypeOK, session, memory, reads, plan,
              tables, terminal
<1>8. CASE ListOpposite(t)
  <2>1. Goto(t, "cancelling") /\ "cancelling" \in WorkerPc
    BY <1>8 DEF ListOpposite, WorkerPc
  <2>2. todo' \in [Tasks -> SUBSET Tickets]
    BY <1>8 DEF ListOpposite, PendingSeenBy, TypeOK
  <2> QED BY <1>8, <2>1, <2>2, WorkerGoto
          DEF ListOpposite, TypeOK, session, memory, reads, plan,
              tables, terminal
<1>9. ASSUME NEW k \in Tickets, CancelOpposite(t, k) PROVE TypeOK'
  <2>1. todo' \in [Tasks -> SUBSET Tickets] BY <1>9 DEF CancelOpposite, TypeOK
  <2>2. /\ broker' \in [Tickets -> BrokerState]
        /\ wRow' \in [Tasks -> [Tickets -> RowState \union {Untouched}]]
        /\ writer' \in Tasks \union {Nobody}
    <3>1. CASE UNCHANGED <<broker, wRow, writer>>
      BY <3>1 DEF TypeOK
    <3>2. CASE /\ broker' = [broker EXCEPT ![k] = "gone"]
               /\ wRow' = [wRow EXCEPT ![t][k] = "cancelled"]
               /\ TakeWriter(t)
      <4>1. broker' \in [Tickets -> BrokerState]
        BY <3>2 DEF TypeOK, BrokerState
      <4>2. wRow' \in [Tasks -> [Tickets -> RowState \union {Untouched}]]
        BY <3>2, <1>9 DEF TypeOK, RowState
      <4>3. writer' \in Tasks \union {Nobody}
        BY <3>2 DEF TakeWriter, TypeOK
      <4> QED BY <4>1, <4>2, <4>3
    <3> QED BY <1>9, <3>1, <3>2 DEF CancelOpposite
  <2>3. UNCHANGED <<pc, target, reads, leg, ticket, wStatus, wRisk, tables,
                   engineLock, owner, lastTicket, due, faults>>
    BY <1>9 DEF CancelOpposite
  <2> QED BY <2>1, <2>2, <2>3 DEF TypeOK, reads, tables
<1>10. CASE RefuseTwin(t)
  BY <1>10, EndWithType DEF RefuseTwin, Status
<1>11. CASE BeginExecution(t)
  <2>1. Goto(t, "send") /\ "send" \in WorkerPc
    BY <1>11 DEF BeginExecution, WorkerPc
  <2>2. leg' \in [Tasks -> Nat] BY <1>11 DEF BeginExecution, TypeOK
  <2>3. wStatus' \in [Tasks -> [Signals -> Status \union {Untouched}]]
    BY <1>11 DEF BeginExecution, WriteStatus, TypeOK, Status
  <2> QED BY <1>11, <2>1, <2>2, <2>3, WorkerGoto
          DEF BeginExecution, WriteStatus, TakeWriter, TypeOK, memory,
              reads, plan, tables, terminal
<1>12. CASE SendOrder(t)
  <2>1. Goto(t, "persist") /\ "persist" \in WorkerPc
    BY <1>12 DEF SendOrder, WorkerPc
  <2>3. /\ broker' \in [Tickets -> BrokerState]
        /\ owner' \in [Tickets -> Signals \union {Nobody}]
        /\ lastTicket' \in 0..MaxTicket
    BY <1>12, AcceptType DEF SendOrder
  <2>4. ticket' \in [Tasks -> Nat]
    BY <1>12, <2>3, BoundsAssumption DEF SendOrder, TypeOK
  <2> QED BY <1>12, <2>1, <2>3, <2>4, WorkerGoto
          DEF SendOrder, TypeOK, session, memory, reads, plan, tables
<1>13. CASE SendRefused(t)
  BY <1>13, EndWithType DEF SendRefused, Status
<1>14. CASE SendLost(t)
  <2>1. Rollback(t) BY <1>14 DEF SendLost
  <2>2. /\ broker' \in [Tickets -> BrokerState]
        /\ owner' \in [Tickets -> Signals \union {Nobody}]
        /\ lastTicket' \in 0..MaxTicket
    <3>1. CASE Accept(t) BY <3>1, AcceptType
    <3>2. CASE UNCHANGED terminal
      BY <3>2 DEF TypeOK, memory, reads, plan, terminal
    <3> QED BY <1>14, <3>1, <3>2 DEF SendLost
  <2>3. faults' \in 0..MaxFaults BY <1>14, BoundsAssumption DEF SendLost, TypeOK
  <2> QED BY <1>14, <2>1, <2>2, <2>3, RollbackType
          DEF TypeOK, SendLost, memory, reads, plan, tables
<1>15. CASE PersistOrder(t)
  <2>1. Goto(t, "send") /\ "send" \in WorkerPc BY <1>15 DEF PersistOrder, WorkerPc
  <2>2. leg' \in [Tasks -> Nat] BY <1>15 DEF PersistOrder, TypeOK
  <2>3. wRow' \in [Tasks -> [Tickets -> RowState \union {Untouched}]]
    BY <1>15 DEF PersistOrder, NewRow, TypeOK, RowState
  <2> QED BY <1>15, <2>1, <2>2, <2>3, WorkerGoto
          DEF PersistOrder, TakeWriter, TypeOK, memory, reads, plan,
              tables, terminal
<1>16. CASE FinishExecution(t)
  <2>1. Goto(t, "commit") /\ "commit" \in WorkerPc
    BY <1>16 DEF FinishExecution, WorkerPc
  <2>2. wRow' \in [Tasks -> [Tickets -> RowState \union {Untouched}]]
    BY <1>16 DEF FinishExecution, NewRow, TypeOK, RowState
  <2>3. wStatus' \in [Tasks -> [Signals -> Status \union {Untouched}]]
    BY <1>16 DEF FinishExecution, TypeOK, Status
  <2>4. wRisk' \in [Tasks -> Nat \union {NoRisk}]
    <3>1. sawRisked[t] + 1 \in Nat BY DEF TypeOK
    <3> QED BY <1>16, <3>1 DEF FinishExecution, TypeOK
  <2> QED BY <1>16, <2>1, <2>2, <2>3, <2>4, WorkerGoto
          DEF FinishExecution, TakeWriter, DropLock, TypeOK, memory,
              reads, plan, tables, terminal
<1>17. CASE Commit(t)
  <2>1. Goto(t, "done") /\ "done" \in WorkerPc BY <1>17 DEF Commit, WorkerPc
  <2>2. Publish(t) /\ CloseSession(t) BY <1>17 DEF Commit
  <2> QED BY <1>17, <2>1, <2>2, WorkerGoto, PublishType, SessionType
          DEF Commit, TypeOK, memory, reads, plan, terminal
<1>18. CASE BusyTimeout(t)
  BY <1>18, BusyTimeoutType
<1> QED
  BY <1>1, <1>2, <1>3, <1>4, <1>5, <1>6, <1>7, <1>8, <1>9, <1>10, <1>11,
      <1>12,
           <1>13, <1>14, <1>15, <1>16, <1>17, <1>18 DEF WorkerStep

\* The messages: their arrival and the row they leave.
LEMMA MessageType ==
    ASSUME TypeOK, NEW s \in Signals, Arrive(s) \/ RecordSignal(s)
    PROVE  TypeOK'
<1>0. s \in Tasks /\ s \in Workers BY DEF Tasks, Workers
<1> USE <1>0
<1>1. CASE Arrive(s)
  <2>1. Goto(s, "insert") /\ "insert" \in WorkerPc BY <1>1 DEF Arrive, WorkerPc
  <2> QED BY <1>1, <2>1, WorkerGoto
          DEF Arrive, TypeOK, memory, reads, plan, session, tables, terminal
<1>2. CASE RecordSignal(s)
  <2>1. PICK valid \in BOOLEAN :
           /\ WriteStatus(s, IF valid THEN "PARSED" ELSE "REJECTED")
           /\ Goto(s, IF valid THEN "lockwait" ELSE "commit")
    BY <1>2 DEF RecordSignal
  <2>2. /\ pc' \in [Tasks -> WorkerPc \union MonitorPc]
        /\ \A w \in Workers : pc'[w] \in WorkerPc
        /\ pc'[Monitor] \in MonitorPc
    <3>1. (IF valid THEN "lockwait" ELSE "commit") \in WorkerPc BY DEF WorkerPc
    <3> QED BY <2>1, <3>1, WorkerGoto
  <2>3. /\ wStatus' \in [Tasks -> [Signals -> Status \union {Untouched}]]
        /\ UNCHANGED <<wRow, wRisk>>
    BY <2>1 DEF WriteStatus, TypeOK, Status
  <2>4. writer' \in Tasks \union {Nobody}
    BY <1>2 DEF RecordSignal, TakeWriter, TypeOK
  <2> QED BY <1>2, <2>2, <2>3, <2>4
          DEF RecordSignal, TypeOK, memory, reads, plan, tables, terminal
<1> QED BY <1>1, <1>2

\* The requests of the application, and the deadlines they race.
LEMMA RequestType ==
    ASSUME TypeOK, NEW r \in Requests, NEW s \in Signals,
           ApproveManually(r, s) \/ RejectManually(r, s)
    PROVE  TypeOK'
<1>0. r \in Tasks /\ r \in Workers BY DEF Tasks, Workers
<1> USE <1>0
<1>1. CASE ApproveManually(r, s)
  <2>1. (IF s \in due THEN "expire" ELSE "lockwait") \in WorkerPc BY DEF WorkerPc
  <2>2. Goto(r, IF s \in due THEN "expire" ELSE "lockwait")
    BY <1>1 DEF ApproveManually
  <2>3. target' \in [Tasks -> Signals \union {Nobody}]
    BY <1>1 DEF ApproveManually, TypeOK
  <2> QED BY <1>1, <2>1, <2>2, <2>3, WorkerGoto
          DEF ApproveManually, TypeOK, reads, plan, session, tables, terminal
<1>2. CASE RejectManually(r, s)
  <2>1. Goto(r, "commit") /\ "commit" \in WorkerPc
    BY <1>2 DEF RejectManually, WorkerPc
  <2>2. target' \in [Tasks -> Signals \union {Nobody}]
    BY <1>2 DEF RejectManually, TypeOK
  <2>3. /\ wStatus' \in [Tasks -> [Signals -> Status \union {Untouched}]]
        /\ writer' \in Tasks \union {Nobody}
    BY <1>2 DEF RejectManually, TakeWriter, TypeOK, Status
  <2> QED BY <1>2, <2>1, <2>2, <2>3, WorkerGoto
          DEF RejectManually, TypeOK, reads, plan, tables, terminal
<1> QED BY <1>1, <1>2

\* An approval that came after the deadline.
LEMMA ExpireType ==
    ASSUME TypeOK, NEW r \in Requests, ExpireOnApproval(r)
    PROVE  TypeOK'
<1>0. r \in Tasks /\ r \in Workers BY DEF Tasks, Workers
<1>1. Goto(r, "commit") /\ "commit" \in WorkerPc
  BY DEF ExpireOnApproval, WorkerPc
<1>2. /\ wStatus' \in [Tasks -> [Signals -> Status \union {Untouched}]]
      /\ UNCHANGED <<wRow, wRisk>>
      /\ writer' \in Tasks \union {Nobody}
  BY <1>0 DEF ExpireOnApproval, WriteStatus, TakeWriter, TypeOK, Status
<1> QED BY <1>0, <1>1, <1>2, WorkerGoto
        DEF ExpireOnApproval, TypeOK, memory, reads, plan, tables, terminal

\* A flush of the monitor moves it and takes the writer, no more.
LEMMA FlushType ==
    ASSUME TypeOK, NEW from, NEW to \in MonitorPc, Flush(from, to)
    PROVE  TypeOK'
<1>0. Monitor \in Tasks BY DEF Tasks
<1> QED BY <1>0, MonitorGoto
        DEF Flush, TakeWriter, TypeOK, memory, reads, plan, session,
            tables, terminal

\* A step of the monitor's cycle keeps the types.
LEMMA MonitorStepType ==
    ASSUME TypeOK, MonitorStep
    PROVE  TypeOK'
<1>0. Monitor \in Tasks BY DEF Tasks
<1> USE <1>0
<1>1. CASE BeginCycle
  <2>1. Goto(Monitor, "reconcile") /\ "reconcile" \in MonitorPc
    BY <1>1 DEF BeginCycle, MonitorPc
  <2>2. sawOpen' \in [Tasks -> SUBSET Tickets] /\ engineLock' = Monitor
    BY <1>1 DEF BeginCycle, TakeLock, OpenTickets, TypeOK
  <2> QED BY <1>1, <2>1, <2>2, MonitorGoto
          DEF BeginCycle, TypeOK, plan, session, tables, terminal
<1>2. CASE CycleUnreadable
  <2>1. Goto(Monitor, "expiry") /\ "expiry" \in MonitorPc
    BY <1>2 DEF CycleUnreadable, MonitorPc
  <2> QED BY <1>2, <2>1, MonitorGoto
          DEF CycleUnreadable, TypeOK, memory, reads, plan, session,
              tables, terminal
<1>3. CASE ReconcilePending
  <2>1. PICK where \in {"closures", "flushOrders"} : Goto(Monitor, where)
    BY <1>3 DEF ReconcilePending
  <2>2. where \in MonitorPc BY DEF MonitorPc
  <2>3. wRow' \in [Tasks -> [Tickets -> RowState \union {Untouched}]]
    BY <1>3 DEF ReconcilePending, TypeOK, RowState
  <2>4. UNCHANGED <<memory, wStatus, wRisk, tables, engineLock, writer, terminal,
                   due, faults>>
    BY <1>3 DEF ReconcilePending
  <2> QED BY <2>1, <2>2, <2>3, <2>4, MonitorGoto
          DEF TypeOK, memory, reads, plan, tables, terminal
<1>4. CASE DetectClosures
  <2>1. PICK where \in {"expiry", "flushTrades"} : Goto(Monitor, where)
    BY <1>4 DEF DetectClosures
  <2>2. where \in MonitorPc BY DEF MonitorPc
  <2>3. wRow' \in [Tasks -> [Tickets -> RowState \union {Untouched}]]
    BY <1>4 DEF DetectClosures, TypeOK, RowState
  <2>4. UNCHANGED <<memory, wStatus, wRisk, tables, engineLock, writer, terminal,
                   due, faults>>
    BY <1>4 DEF DetectClosures
  <2> QED BY <2>1, <2>2, <2>3, <2>4, MonitorGoto
          DEF TypeOK, memory, reads, plan, tables, terminal
<1>5. CASE ExpireStaleSignals
  <2>1. PICK where \in {"mcommit", "flushExpiry"} : Goto(Monitor, where)
    BY <1>5 DEF ExpireStaleSignals
  <2>2. where \in MonitorPc BY DEF MonitorPc
  <2>3. wStatus' \in [Tasks -> [Signals -> Status \union {Untouched}]]
    BY <1>5 DEF ExpireStaleSignals, TypeOK, Status
  <2>4. UNCHANGED <<memory, wRow, wRisk, tables, engineLock, writer, terminal,
                   due, faults>>
    BY <1>5 DEF ExpireStaleSignals
  <2> QED BY <2>1, <2>2, <2>3, <2>4, MonitorGoto
          DEF TypeOK, memory, reads, plan, tables, terminal
<1>6. CASE FlushOrders \/ FlushTrades \/ FlushExpiry
  BY <1>6, FlushType DEF FlushOrders, FlushTrades, FlushExpiry, MonitorPc
<1>7. CASE EndCycle
  <2>1. Goto(Monitor, "sleep") /\ "sleep" \in MonitorPc
    BY <1>7 DEF EndCycle, MonitorPc
  <2>2. Publish(Monitor) /\ CloseSession(Monitor) BY <1>7 DEF EndCycle
  <2>3. engineLock' \in Tasks \union {Nobody}
    BY <1>7 DEF EndCycle, DropLock, TypeOK
  <2> QED BY <1>7, <2>1, <2>2, <2>3, MonitorGoto, PublishType, SessionType
          DEF EndCycle, TypeOK, memory, reads, plan, terminal
<1>8. CASE BusyTimeout(Monitor)
  BY <1>8, BusyTimeoutType
<1> QED BY <1>1, <1>2, <1>3, <1>4, <1>5, <1>6, <1>7, <1>8 DEF MonitorStep

\* The broker, the deadlines, the pause and the crash.
LEMMA OutsideType ==
    ASSUME TypeOK, Outside
    PROVE  TypeOK'
<1>1. ASSUME NEW s \in Signals, Arrive(s) PROVE TypeOK'
  BY <1>1, MessageType
<1>2. ASSUME NEW s \in Signals, Deadline(s) PROVE TypeOK'
 
    BY <1>2 DEF Deadline, TypeOK, local, memory, reads, plan, session, tables,
        terminal
<1>3. ASSUME NEW r \in Requests, NEW s \in Signals,
             ApproveManually(r, s) \/ RejectManually(r, s)
      PROVE TypeOK'
  BY <1>3, RequestType
<1>4. ASSUME NEW b \in BOOLEAN, SetPaused(b) PROVE TypeOK'
  BY <1>4 DEF SetPaused, TypeOK, local, memory, reads, plan, session, terminal
<1>5. ASSUME NEW k \in Tickets, BrokerMoves(k) PROVE TypeOK'
  <2>1. broker' \in [Tickets -> BrokerState]
    BY <1>5 DEF BrokerMoves, TypeOK, BrokerState
  <2>2. UNCHANGED <<local, session, tables, engineLock, writer, owner, lastTicket,
                   due, faults>>
    BY <1>5 DEF BrokerMoves
  <2> QED BY <2>1, <2>2 DEF TypeOK, local, memory, reads, plan, session, tables
<1>6. CASE Crash
  <2>1. /\ pc' \in [Tasks -> WorkerPc \union MonitorPc]
        /\ \A t \in Workers : pc'[t] \in WorkerPc
        /\ pc'[Monitor] \in MonitorPc
    BY <1>6, TasksAssumption DEF Crash, TypeOK, Tasks, WorkerPc, MonitorPc
  <2>2. /\ wStatus' \in [Tasks -> [Signals -> Status \union {Untouched}]]
        /\ wRow' \in [Tasks -> [Tickets -> RowState \union {Untouched}]]
        /\ wRisk' \in [Tasks -> Nat \union {NoRisk}]
    BY <1>6 DEF Crash, NoStatus, NoRow
  <2>3. faults' \in 0..MaxFaults BY <1>6, BoundsAssumption DEF Crash, TypeOK
  <2> QED BY <1>6, <2>1, <2>2, <2>3
          DEF Crash, TypeOK, memory, reads, plan, tables, terminal
<1> QED BY <1>1, <1>2, <1>3, <1>4, <1>5, <1>6 DEF Outside

\* Every step, and every stutter, keeps the types.
LEMMA NextType ==
    ASSUME TypeOK, [Next]_vars
    PROVE  TypeOK'
<1>1. ASSUME NEW s \in Signals, MessageStep(s) PROVE TypeOK'
  <2>1. s \in Workers BY DEF Workers
  <2> QED BY <1>1, <2>1, MessageType, WorkerStepType DEF MessageStep
<1>2. ASSUME NEW r \in Requests, RequestStep(r) PROVE TypeOK'
  <2>1. r \in Workers BY DEF Workers
  <2> QED BY <1>2, <2>1, ExpireType, WorkerStepType DEF RequestStep
<1>3. CASE MonitorStep BY <1>3, MonitorStepType
<1>4. CASE Outside BY <1>4, OutsideType
<1>5. CASE UNCHANGED vars
  BY <1>5 DEF vars, TypeOK, local, memory, reads, plan, session, tables, terminal
<1> QED BY <1>1, <1>2, <1>3, <1>4, <1>5 DEF Next
-----------------------------------------------------------------------------
(* The theorems.                                                           *)

\* Every variable keeps its type, for every set of signals and requests.
THEOREM TypeCorrect == Spec => []TypeOK
<1>1. Init => TypeOK BY InitType
<1>2. TypeOK /\ [Next]_vars => TypeOK' BY NextType
<1> QED BY <1>1, <1>2, PTL DEF Spec

-----------------------------------------------------------------------------
(* Mutual exclusion of the evaluations and the cycles.                     *)

\* Being in an evaluation, or in a cycle, is a matter of control point.
Inside(t, where) == \/ t = Monitor /\ where # "sleep"
                    \/ t \in Workers /\ where \in {"route", "evaluate", "listing",
                                                     "cancelling", "send", "persist"}

\* A task that moves keeps the exclusion when it holds the lock exactly where it
\* is inside, and leaves the lock alone when another task holds it.
LEMMA MoveExclusion ==
    ASSUME TypeOK, OneAtATime, NEW t \in Tasks, NEW where, Goto(t, where),
           Inside(t, where) <=> engineLock' = t,
           \A u \in Tasks \ {t} : engineLock' = u <=> engineLock = u
    PROVE  OneAtATime'
<1>1. \A u \in Tasks : pc'[u] = IF u = t THEN where ELSE pc[u]
  BY DEF Goto, TypeOK
<1> QED BY <1>1 DEF OneAtATime, InEvaluation, Inside

\* A task that does not touch the lock stays on its side of it.
LEMMA StayExclusion ==
    ASSUME TypeOK, OneAtATime, NEW t \in Tasks, NEW where, Goto(t, where),
           Inside(t, where) <=> Inside(t, pc[t]), engineLock' = engineLock
    PROVE  OneAtATime'
<1>1. Inside(t, where) <=> engineLock' = t
  BY DEF OneAtATime, InEvaluation, Inside
<1> QED BY <1>1, MoveExclusion

\* A task that frees the lock, if it holds it, is outside.
LEMMA LeaveExclusion ==
    ASSUME TypeOK, OneAtATime, NEW t \in Tasks, NEW where, Goto(t, where),
           ~ Inside(t, where), DropLock(t)
    PROVE  OneAtATime'
<1>1. engineLock' # t /\ \A u \in Tasks \ {t} : engineLock' = u <=> engineLock = u
  BY TasksAssumption DEF DropLock
<1> QED BY <1>1, MoveExclusion

\* A task that takes the free lock is inside.
LEMMA EnterExclusion ==
    ASSUME TypeOK, OneAtATime, NEW t \in Tasks, NEW where, Goto(t, where),
           Inside(t, where), TakeLock(t)
    PROVE  OneAtATime'
<1>1. engineLock' = t /\ \A u \in Tasks \ {t} : engineLock' = u <=> engineLock = u
  BY TasksAssumption DEF TakeLock
<1> QED BY <1>1, MoveExclusion

\* A rollback releases the engine lock if the task held it.
LEMMA RollbackExclusion ==
    ASSUME TypeOK, OneAtATime, NEW t \in Tasks, Rollback(t)
    PROVE  OneAtATime'
<1>1. /\ Goto(t, IF t = Monitor THEN "sleep" ELSE "failed") /\ DropLock(t)
      /\ ~ Inside(t, IF t = Monitor THEN "sleep" ELSE "failed")
  BY TasksAssumption DEF Rollback, Inside
<1> QED BY <1>1, LeaveExclusion

\* An evaluation that ends with a status stays in its locked section.
LEMMA EndWithExclusion ==
    ASSUME TypeOK, OneAtATime, NEW t \in Workers, NEW st, EndWith(t, st)
    PROVE  OneAtATime'
<1>1. t \in Tasks /\ ~ Inside(t, "commit") BY TasksAssumption DEF Inside, Tasks
<1> QED BY <1>1, LeaveExclusion DEF EndWith

\* An evaluation enters its locked section only with the engine lock.
LEMMA WorkerExclusion ==
    ASSUME TypeOK, OneAtATime, NEW t \in Workers, WorkerStep(t)
    PROVE  OneAtATime'
<1>0. t \in Tasks /\ t # Monitor BY TasksAssumption DEF Tasks
<1> USE <1>0
<1>1. CASE EnterEvaluation(t)
  <2>1. Goto(t, "route") /\ TakeLock(t) /\ Inside(t, "route")
    BY <1>1 DEF EnterEvaluation, Inside
  <2> QED BY <2>1, EnterExclusion
<1>2. CASE Observe(t) \/ AskReview(t) \/ Refuse(t) \/ RefuseTwin(t) \/ SendRefused(t)
 
    BY <1>2, EndWithExclusion DEF Observe, AskReview, Refuse, RefuseTwin,
        SendRefused
<1>3. CASE ReadFails(t) \/ SendLost(t) \/ BusyTimeout(t)
  BY <1>3, RollbackExclusion DEF ReadFails, SendLost, BusyTimeout
<1>4. CASE ReadAccount(t) \/ Approve(t) \/ ListOpposite(t) \/ BeginExecution(t)
           \/ SendOrder(t) \/ PersistOrder(t)
  <2>1. PICK where : /\ Goto(t, where) /\ Inside(t, where) /\ Inside(t, pc[t])
                     /\ engineLock' = engineLock
    BY <1>4 DEF ReadAccount, Approve, ListOpposite, BeginExecution, SendOrder,
                PersistOrder, Inside
  <2> QED BY <2>1, StayExclusion
<1>5. ASSUME NEW k \in Tickets, CancelOpposite(t, k) PROVE OneAtATime'
  <2>1. UNCHANGED <<pc, engineLock>> BY <1>5 DEF CancelOpposite
  <2> QED BY <2>1 DEF OneAtATime, InEvaluation
<1>6. CASE FinishExecution(t)
  <2>1. Goto(t, "commit") /\ DropLock(t) /\ ~ Inside(t, "commit")
    BY <1>6 DEF FinishExecution, Inside
  <2> QED BY <2>1, LeaveExclusion
<1>7. CASE Commit(t)
  <2>1. /\ Goto(t, "done") /\ engineLock' = engineLock
        /\ ~ Inside(t, "done") /\ ~ Inside(t, pc[t])
    BY <1>7 DEF Commit, Inside
  <2> QED BY <2>1, StayExclusion
<1> QED BY <1>1, <1>2, <1>3, <1>4, <1>5, <1>6, <1>7 DEF WorkerStep

\* The monitor enters its cycle only with the engine lock.
LEMMA MonitorExclusion ==
    ASSUME TypeOK, OneAtATime, MonitorStep
    PROVE  OneAtATime'
<1>0. Monitor \in Tasks BY DEF Tasks
<1> USE <1>0
<1>1. CASE BeginCycle
  <2>1. Goto(Monitor, "reconcile") /\ TakeLock(Monitor) /\ Inside(Monitor, "reconcile")
    BY <1>1 DEF BeginCycle, Inside
  <2> QED BY <2>1, EnterExclusion
<1>2. CASE CycleUnreadable \/ ReconcilePending \/ DetectClosures \/ ExpireStaleSignals
           \/ FlushOrders \/ FlushTrades \/ FlushExpiry
  <2>1. PICK where : /\ Goto(Monitor, where) /\ where # "sleep"
                     /\ pc[Monitor] # "sleep" /\ engineLock' = engineLock
   
      BY <1>2 DEF CycleUnreadable, ReconcilePending, DetectClosures,
          ExpireStaleSignals,
                FlushOrders, FlushTrades, FlushExpiry, Flush
  <2> QED BY <2>1, StayExclusion DEF Inside
<1>3. CASE EndCycle
  <2>1. Goto(Monitor, "sleep") /\ DropLock(Monitor) /\ ~ Inside(Monitor, "sleep")
    BY <1>3, TasksAssumption DEF EndCycle, Inside
  <2> QED BY <2>1, LeaveExclusion
<1>4. CASE BusyTimeout(Monitor)
  BY <1>4, RollbackExclusion DEF BusyTimeout
<1> QED BY <1>1, <1>2, <1>3, <1>4 DEF MonitorStep

\* Arrivals and approvals take no engine lock.
LEMMA EntranceExclusion ==
    ASSUME TypeOK, OneAtATime, NEW t \in Workers,
           \/ t \in Signals /\ (Arrive(t) \/ RecordSignal(t))
           \/ t \in Requests /\ ExpireOnApproval(t)
           \/ t \in Requests /\ \E s \in Signals : ApproveManually(t, s) \/ RejectManually(t, s)
    PROVE  OneAtATime'
<1>0. t \in Tasks /\ t # Monitor BY TasksAssumption DEF Tasks
<1>1. PICK where : /\ Goto(t, where)
                   /\ where \in {"insert", "lockwait", "commit", "expire"}
                   /\ pc[t] \in {"idle", "insert", "expire"}
                   /\ engineLock' = engineLock
  BY DEF Arrive, RecordSignal, ExpireOnApproval, ApproveManually, RejectManually
<1> QED BY <1>0, <1>1, StayExclusion DEF Inside

\* Every step keeps the evaluations and the cycles one at a time.
LEMMA NextExclusion ==
    ASSUME TypeOK, OneAtATime, [Next]_vars
    PROVE  OneAtATime'
<1>0. Signals \subseteq Workers /\ Requests \subseteq Workers BY DEF Workers
<1>1. ASSUME NEW s \in Signals, MessageStep(s) PROVE OneAtATime'
  BY <1>0, <1>1, EntranceExclusion, WorkerExclusion DEF MessageStep
<1>2. ASSUME NEW r \in Requests, RequestStep(r) PROVE OneAtATime'
  BY <1>0, <1>2, EntranceExclusion, WorkerExclusion DEF RequestStep
<1>3. CASE MonitorStep BY <1>3, MonitorExclusion
<1>4. CASE Outside
  <2>1. ASSUME NEW s \in Signals, Arrive(s) PROVE OneAtATime'
    BY <1>0, <2>1, EntranceExclusion
  <2>2. ASSUME NEW r \in Requests, NEW s \in Signals,
               ApproveManually(r, s) \/ RejectManually(r, s)
        PROVE OneAtATime'
    BY <1>0, <2>2, EntranceExclusion
  <2>3. CASE \/ \E s \in Signals : Deadline(s)
             \/ \E b \in BOOLEAN : SetPaused(b)
             \/ \E k \in Tickets : BrokerMoves(k)
    <3>1. UNCHANGED <<pc, engineLock>>
      BY <2>3 DEF Deadline, SetPaused, BrokerMoves, local
    <3> QED BY <3>1 DEF OneAtATime, InEvaluation
  <2>4. CASE Crash
    <3>1. \A t \in Tasks : pc'[t] = IF t = Monitor THEN "sleep"
                                   ELSE IF pc[t] \in {"idle", "done", "failed"} THEN pc[t]
                                   ELSE "failed"
      BY <2>4 DEF Crash
    <3>2. engineLock' = Nobody BY <2>4 DEF Crash
    <3> QED BY <3>1, <3>2, TasksAssumption DEF OneAtATime, InEvaluation
  <2> QED BY <1>4, <2>1, <2>2, <2>3, <2>4 DEF Outside
<1>5. CASE UNCHANGED vars
  BY <1>5 DEF vars, local, OneAtATime, InEvaluation
<1> QED BY <1>1, <1>2, <1>3, <1>4, <1>5 DEF Next

\* A task evaluates, or the monitor cycles, exactly while it holds the engine's
\* lock: at most one of them at a time, and nobody leaves with the lock, however
\* it ends.
THEOREM MutualExclusion == Spec => []OneAtATime
<1>1. Init => OneAtATime
  BY TasksAssumption DEF Init, OneAtATime, InEvaluation, Tasks
<1>2. TypeOK /\ OneAtATime /\ [Next]_vars => OneAtATime' BY NextExclusion
<1> QED BY <1>1, <1>2, TypeCorrect, PTL DEF Spec

-----------------------------------------------------------------------------
(* Closures: why a snapshot older than the rows never closes a live trade. *)

\* Tickets are handed out in order.
FreshTickets == \A k \in Tickets : k > lastTicket => broker[k] = "none"

\* A row that says open, committed or not, is about an order that was filled.
OpenRowsFilled ==
    \A k \in Tickets : \A t \in Tasks :
        "open" \in {dbRow[k], wRow[t][k]} => broker[k] \in {"open", "gone"}

\* Only the monitor closes, and what it closes is gone for good.
ClosedRowsGone ==
    \A k \in Tickets :
        /\ "closed" \in {dbRow[k], wRow[Monitor][k]} => broker[k] = "gone"
        /\ \A t \in Workers : wRow[t][k] # "closed"

\* An order just placed, whose row is about to be written.
PlacedFilled ==
    \A t \in Workers : pc[t] = "persist" =>
        /\ ticket[t] \in Tickets
        /\ KindOf[target[t]] # "pending" => broker[ticket[t]] \in {"open", "gone"}

\* During a cycle the snapshot holds positions only, and every live position
\* that a row, committed or not, calls open.
SnapshotCovers ==
    pc[Monitor] # "sleep" =>
        /\ \A k \in sawOpen[Monitor] : broker[k] \in {"open", "gone"}
        /\ \A k \in Tickets : \A t \in Tasks :
              "open" \in {dbRow[k], wRow[t][k]} /\ broker[k] = "open"
                  => k \in sawOpen[Monitor]

ClosureInv ==
    /\ FreshTickets
    /\ OpenRowsFilled
    /\ ClosedRowsGone
    /\ PlacedFilled
    /\ SnapshotCovers

\* What most steps do to the rows: an open or closed entry of a table comes from
\* the table or from a session, and sessions gain no such entry.
RowsInherited ==
    \A k \in Tickets :
        /\ dbRow'[k] = "open" => \E t \in Tasks : "open" \in {dbRow[k], wRow[t][k]}
        /\ dbRow'[k] = "closed" => "closed" \in {dbRow[k], wRow[Monitor][k]}
        /\ \A t \in Tasks : wRow'[t][k] \in {"open", "closed"} => wRow'[t][k] = wRow[t][k]

\* And to the control points: nobody places an order, no cycle begins.
ControlInherited ==
    /\ \A u \in Workers : pc'[u] = "persist" =>
          pc[u] = "persist" /\ ticket'[u] = ticket[u] /\ target'[u] = target[u]
    /\ pc'[Monitor] # "sleep" =>
          pc[Monitor] # "sleep" /\ sawOpen'[Monitor] = sawOpen[Monitor]

\* When rows and control come from the state before, and the broker does
\* not move, every closure recorded stays true.
LEMMA InheritedClosure ==
    ASSUME TypeOK, ClosureInv, RowsInherited, ControlInherited,
           UNCHANGED <<broker, lastTicket>>
    PROVE  ClosureInv'
<1>0. Monitor \in Tasks /\ Workers \subseteq Tasks BY DEF Tasks
<1>1. FreshTickets' BY DEF ClosureInv, FreshTickets
<1>2. OpenRowsFilled' BY DEF ClosureInv, OpenRowsFilled, RowsInherited
<1>3. ClosedRowsGone' BY <1>0 DEF ClosureInv, ClosedRowsGone, RowsInherited
<1>4. PlacedFilled' BY DEF ClosureInv, PlacedFilled, ControlInherited
<1>5. SnapshotCovers'
  BY DEF ClosureInv, SnapshotCovers, RowsInherited, ControlInherited
<1> QED BY <1>1, <1>2, <1>3, <1>4, <1>5 DEF ClosureInv

\* Rows that nobody writes are inherited.
LEMMA SameRows ==
    ASSUME TypeOK, UNCHANGED <<dbRow, wRow>>
    PROVE  RowsInherited
  BY DEF RowsInherited, Tasks

\* Rows whose writes are dropped are inherited.
LEMMA ForgottenRows ==
    ASSUME TypeOK, NEW t \in Tasks, CloseSession(t), dbRow' = dbRow
    PROVE  RowsInherited
<1>1. \A u \in Tasks, k \in Tickets : wRow'[u][k] = IF u = t THEN Untouched ELSE wRow[u][k]
  BY DEF CloseSession, NoRow, TypeOK
<1> QED BY <1>1 DEF RowsInherited, Untouched, Tasks

\* Rows published by a commit are those of its session.
LEMMA PublishedRows ==
    ASSUME TypeOK, ClosureInv, NEW t \in Tasks, Publish(t), CloseSession(t)
    PROVE  RowsInherited
<1>1. \A u \in Tasks, k \in Tickets : wRow'[u][k] = IF u = t THEN Untouched ELSE wRow[u][k]
  BY DEF CloseSession, NoRow, TypeOK
<1>2. \A k \in Tickets : dbRow'[k] = IF wRow[t][k] = Untouched THEN dbRow[k]
                                   ELSE wRow[t][k]
  BY DEF Publish, Overlay, TypeOK
<1>3. \A k \in Tickets : wRow[t][k] = "closed" => t = Monitor
  BY DEF ClosureInv, ClosedRowsGone, Tasks
<1> QED BY <1>1, <1>2, <1>3 DEF RowsInherited, Untouched, Tasks

\* A worker that moves anywhere but to the writing of an order's row.
LEMMA WorkerControl ==
    ASSUME TypeOK, NEW t \in Workers, NEW where, where # "persist", Goto(t, where),
           sawOpen'[Monitor] = sawOpen[Monitor],
           \A u \in Workers \ {t} : ticket'[u] = ticket[u] /\ target'[u] = target[u]
    PROVE  ControlInherited
<1>1. \A u \in Tasks : pc'[u] = IF u = t THEN where ELSE pc[u] BY DEF Goto, TypeOK
<1> QED BY <1>1, TasksAssumption DEF ControlInherited, Tasks

\* A step of the monitor that reads nothing keeps what it knows of rows.
LEMMA MonitorControl ==
    ASSUME TypeOK, NEW where, Goto(Monitor, where), UNCHANGED memory,
           where = "sleep" \/ pc[Monitor] # "sleep"
    PROVE  ControlInherited
<1>1. \A u \in Tasks : pc'[u] = IF u = Monitor THEN where ELSE pc[u] BY DEF Goto, TypeOK
<1> QED BY <1>1, TasksAssumption DEF ControlInherited, Tasks, memory, reads, plan

\* A rollback forgets what the task knew of rows.
LEMMA RollbackControl ==
    ASSUME TypeOK, NEW t \in Tasks, Rollback(t)
    PROVE  ControlInherited
<1>1. CASE t = Monitor
  <2>1. Goto(Monitor, "sleep") /\ UNCHANGED memory BY <1>1 DEF Rollback
  <2> QED BY <2>1, MonitorControl
<1>2. CASE t # Monitor
  <2>1. t \in Workers /\ Goto(t, "failed") /\ UNCHANGED memory
    BY <1>2 DEF Rollback, Tasks
  <2> QED BY <2>1, WorkerControl DEF memory, reads, plan
<1> QED BY <1>1, <1>2

\* A rollback records no closure.
LEMMA RollbackClosure ==
    ASSUME TypeOK, ClosureInv, NEW t \in Tasks, Rollback(t), UNCHANGED terminal
    PROVE  ClosureInv'
<1>1. RowsInherited BY ForgottenRows DEF Rollback, tables
<1>2. ControlInherited BY RollbackControl
<1> QED BY <1>1, <1>2, InheritedClosure DEF terminal

\* The last status of an evaluation records no closure.
LEMMA EndWithClosure ==
    ASSUME TypeOK, ClosureInv, NEW t \in Workers, NEW st, EndWith(t, st)
    PROVE  ClosureInv'
<1>1. RowsInherited BY SameRows DEF EndWith, WriteStatus, tables
<1>2. ControlInherited
  <2>1. Goto(t, "commit") /\ UNCHANGED memory BY DEF EndWith
  <2> QED BY <2>1, WorkerControl DEF memory, reads, plan
<1> QED BY <1>1, <1>2, InheritedClosure DEF EndWith, terminal

\* While a worker evaluates, no cycle is under way.
LEMMA MonitorAsleep ==
    ASSUME OneAtATime, NEW t \in Workers, InEvaluation(t)
    PROVE  pc[Monitor] = "sleep"
<1>1. Monitor \in Tasks /\ t \in Tasks /\ t # Monitor BY TasksAssumption DEF Tasks
<1> QED BY <1>1 DEF OneAtATime, InEvaluation

\* An order reaches the broker, and its sender keeps its ticket or forgets it.
LEMMA AcceptClosure ==
    ASSUME TypeOK, ClosureInv, NEW t \in Workers, Accept(t), RowsInherited,
           pc'[Monitor] = "sleep",
           \A u \in Workers : pc'[u] = "persist" =>
              /\ target'[u] = target[u]
              /\ \/ u = t /\ ticket'[u] = lastTicket'
                 \/ pc[u] = "persist" /\ ticket'[u] = ticket[u]
    PROVE  ClosureInv'
<1> DEFINE new == lastTicket + 1
<1>0. /\ Monitor \in Tasks /\ Workers \subseteq Tasks
      /\ new \in Tickets /\ lastTicket' = new /\ broker[new] = "none"
  BY BoundsAssumption DEF Tasks, Accept, Tickets, TypeOK, ClosureInv, FreshTickets
<1>1. /\ \A k \in Tickets \ {new} : broker'[k] = broker[k]
      /\ broker'[new] = IF KindOf[target[t]] = "pending" THEN "pending" ELSE "open"
  BY <1>0 DEF Accept, TypeOK
<1>2. FreshTickets'
  BY <1>0, <1>1, BoundsAssumption DEF ClosureInv, FreshTickets, TypeOK, Tickets
<1>3. OpenRowsFilled'
  BY <1>0, <1>1 DEF ClosureInv, OpenRowsFilled, RowsInherited
<1>4. ClosedRowsGone'
  BY <1>0, <1>1 DEF ClosureInv, ClosedRowsGone, RowsInherited
<1>5. PlacedFilled'
  BY <1>0, <1>1 DEF ClosureInv, PlacedFilled
<1>6. SnapshotCovers' BY DEF SnapshotCovers
<1> QED BY <1>2, <1>3, <1>4, <1>5, <1>6 DEF ClosureInv

\* The row of the order just placed says open only when the order is a position.
LEMMA PersistClosure ==
    ASSUME TypeOK, OneAtATime, ClosureInv, NEW t \in Workers, pc[t] = "persist",
           wRow' = [wRow EXCEPT ![t][ticket[t]] = NewRow(target[t])],
           NEW where, where # "persist", Goto(t, where),
           UNCHANGED <<dbRow, broker, lastTicket, target, ticket>>
    PROVE  ClosureInv'
<1>0. Monitor \in Tasks /\ t \in Tasks /\ Workers \subseteq Tasks /\ t # Monitor
  BY TasksAssumption DEF Tasks
<1>1. pc[Monitor] = "sleep" BY MonitorAsleep DEF InEvaluation
<1>2. \A u \in Tasks : pc'[u] = IF u = t THEN where ELSE pc[u] BY DEF Goto, TypeOK
<1>3. /\ ticket[t] \in Tickets
      /\ NewRow(target[t]) = "open" => broker[ticket[t]] \in {"open", "gone"}
      /\ NewRow(target[t]) \in {"open", "pending"}
  BY DEF ClosureInv, PlacedFilled, NewRow
<1>4. \A u \in Tasks, k \in Tickets :
         wRow'[u][k] = IF u = t /\ k = ticket[t] THEN NewRow(target[t]) ELSE wRow[u][k]
  BY <1>0, <1>3 DEF TypeOK
<1>5. FreshTickets' BY DEF ClosureInv, FreshTickets
<1>6. OpenRowsFilled' BY <1>3, <1>4 DEF ClosureInv, OpenRowsFilled
<1>7. ClosedRowsGone' BY <1>0, <1>3, <1>4 DEF ClosureInv, ClosedRowsGone
<1>8. PlacedFilled' BY <1>0, <1>2 DEF ClosureInv, PlacedFilled
<1>9. SnapshotCovers' BY <1>0, <1>1, <1>2 DEF SnapshotCovers
<1> QED BY <1>5, <1>6, <1>7, <1>8, <1>9 DEF ClosureInv

\* A step of an evaluation records no closure, and gives a new order its own
\* ticket.
LEMMA WorkerClosure ==
    ASSUME TypeOK, OneAtATime, ClosureInv, NEW t \in Workers, WorkerStep(t)
    PROVE  ClosureInv'
<1>0. t \in Tasks /\ t # Monitor /\ Monitor \in Tasks
  BY TasksAssumption DEF Tasks
<1> USE <1>0
<1>1. CASE \/ EnterEvaluation(t) \/ ReadAccount(t) \/ Approve(t)
           \/ ListOpposite(t) \/ BeginExecution(t)
  <2>1. UNCHANGED <<dbRow, wRow, broker, lastTicket, ticket, target>>
    BY <1>1 DEF EnterEvaluation, ReadAccount, Approve, ListOpposite, BeginExecution,
                WriteStatus, session, tables, terminal, memory, reads, plan
  <2>2. sawOpen'[Monitor] = sawOpen[Monitor]
    BY <1>1 DEF EnterEvaluation, ReadAccount, Approve, ListOpposite, BeginExecution,
                memory, reads, TypeOK
  <2>3. PICK where : where # "persist" /\ Goto(t, where)
    BY <1>1 DEF EnterEvaluation, ReadAccount, Approve, ListOpposite, BeginExecution
  <2>4. ControlInherited BY <2>1, <2>2, <2>3, WorkerControl
  <2>5. RowsInherited BY <2>1, SameRows
  <2> QED BY <2>1, <2>4, <2>5, InheritedClosure
<1>2. CASE Observe(t) \/ AskReview(t) \/ Refuse(t) \/ RefuseTwin(t) \/ SendRefused(t)
  BY <1>2, EndWithClosure DEF Observe, AskReview, Refuse, RefuseTwin, SendRefused
<1>3. CASE ReadFails(t) \/ BusyTimeout(t)
  BY <1>3, RollbackClosure DEF ReadFails, BusyTimeout
<1>4. ASSUME NEW k \in Tickets, CancelOpposite(t, k) PROVE ClosureInv'
  <2>1. UNCHANGED <<pc, ticket, target, sawOpen, dbRow, lastTicket>>
    BY <1>4 DEF CancelOpposite, reads, tables
  <2>2. ControlInherited BY <2>1 DEF ControlInherited
  <2>3. CASE UNCHANGED <<broker, wRow>>
    <3>1. RowsInherited BY <2>1, <2>3, SameRows
    <3> QED BY <2>1, <2>2, <2>3, <3>1, InheritedClosure
  <2>4. CASE /\ broker[k] = "pending"
             /\ broker' = [broker EXCEPT ![k] = "gone"]
             /\ wRow' = [wRow EXCEPT ![t][k] = "cancelled"]
    <3>1. \A l \in Tickets : broker'[l] = IF l = k THEN "gone" ELSE broker[l]
      BY <2>4 DEF TypeOK
    <3>2. \A u \in Tasks, l \in Tickets :
             wRow'[u][l] = IF u = t /\ l = k THEN "cancelled" ELSE wRow[u][l]
      BY <2>4 DEF TypeOK
    <3>3. Workers \subseteq Tasks BY DEF Tasks
    <3>4. FreshTickets' BY <2>1, <2>4, <3>1 DEF ClosureInv, FreshTickets
    <3>5. OpenRowsFilled' BY <2>1, <3>1, <3>2 DEF ClosureInv, OpenRowsFilled
    <3>6. ClosedRowsGone' BY <2>1, <3>1, <3>2, <3>3 DEF ClosureInv, ClosedRowsGone
    <3>7. PlacedFilled' BY <2>1, <3>1 DEF ClosureInv, PlacedFilled
    <3>8. SnapshotCovers' BY <2>1, <3>1, <3>2, <2>4 DEF ClosureInv, SnapshotCovers
    <3> QED BY <3>4, <3>5, <3>6, <3>7, <3>8 DEF ClosureInv
  <2> QED BY <1>4, <2>3, <2>4 DEF CancelOpposite
<1>5. CASE SendOrder(t)
  <2>1. pc[Monitor] = "sleep" BY <1>5, MonitorAsleep DEF SendOrder, InEvaluation
  <2>2. \A u \in Tasks : pc'[u] = IF u = t THEN "persist" ELSE pc[u]
    BY <1>5 DEF SendOrder, Goto, TypeOK
  <2>3. \A u \in Tasks : ticket'[u] = IF u = t THEN lastTicket' ELSE ticket[u]
    BY <1>5 DEF SendOrder, TypeOK
  <2>4. RowsInherited BY <1>5, SameRows DEF SendOrder, session, tables
  <2>5. Accept(t) /\ target' = target BY <1>5 DEF SendOrder
  <2> QED BY <2>1, <2>2, <2>3, <2>4, <2>5, AcceptClosure DEF Tasks
<1>6. CASE SendLost(t)
  <2>1. Rollback(t) BY <1>6 DEF SendLost
  <2>2. CASE UNCHANGED terminal BY <2>1, <2>2, RollbackClosure
  <2>3. CASE Accept(t)
    <3>1. pc[Monitor] = "sleep" BY <1>6, MonitorAsleep DEF SendLost, InEvaluation
    <3>2. ControlInherited BY <2>1, RollbackControl
    <3>3. RowsInherited BY <2>1, ForgottenRows DEF Rollback, tables
    <3>4. target' = target BY <2>1 DEF Rollback, memory
    <3> QED BY <2>3, <3>1, <3>2, <3>3, <3>4, AcceptClosure DEF ControlInherited
  <2> QED BY <1>6, <2>2, <2>3 DEF SendLost
<1>7. CASE PersistOrder(t)
  BY <1>7, PersistClosure DEF PersistOrder, tables, terminal
<1>8. CASE FinishExecution(t)
  BY <1>8, PersistClosure DEF FinishExecution, tables, terminal, memory, plan
<1>9. CASE Commit(t)
  <2>1. RowsInherited BY <1>9, PublishedRows DEF Commit
  <2>2. Goto(t, "done") /\ UNCHANGED memory BY <1>9 DEF Commit
  <2>3. ControlInherited BY <2>2, WorkerControl DEF memory, reads, plan
  <2> QED BY <1>9, <2>1, <2>3, InheritedClosure DEF Commit, terminal
<1> QED BY <1>1, <1>2, <1>3, <1>4, <1>5, <1>6, <1>7, <1>8, <1>9 DEF WorkerStep

\* The monitor closes only rows of tickets absent from the terminal.
LEMMA MonitorClosure ==
    ASSUME TypeOK, ClosureInv, MonitorStep
    PROVE  ClosureInv'
<1>0. Monitor \in Tasks /\ Workers \subseteq Tasks /\ Monitor \notin Workers
  BY TasksAssumption DEF Tasks
<1> USE <1>0
<1>1. CASE BeginCycle
  <2>1. \A u \in Tasks : pc'[u] = IF u = Monitor THEN "reconcile" ELSE pc[u]
    BY <1>1 DEF BeginCycle, Goto, TypeOK
  <2>2. UNCHANGED <<dbRow, wRow, broker, lastTicket, ticket, target>>
    BY <1>1 DEF BeginCycle, session, tables, terminal, plan
  <2>3. sawOpen'[Monitor] = OpenTickets BY <1>1 DEF BeginCycle, TypeOK
  <2>4. FreshTickets' BY <2>2 DEF ClosureInv, FreshTickets
  <2>5. OpenRowsFilled' BY <2>2 DEF ClosureInv, OpenRowsFilled
  <2>6. ClosedRowsGone' BY <2>2 DEF ClosureInv, ClosedRowsGone
  <2>7. PlacedFilled' BY <2>1, <2>2 DEF ClosureInv, PlacedFilled
  <2>8. SnapshotCovers' BY <2>2, <2>3 DEF SnapshotCovers, OpenTickets
  <2> QED BY <2>4, <2>5, <2>6, <2>7, <2>8 DEF ClosureInv
<1>2. CASE \/ CycleUnreadable \/ FlushOrders \/ FlushTrades \/ FlushExpiry
           \/ ExpireStaleSignals
  <2>1. UNCHANGED <<dbRow, wRow, broker, lastTicket>> /\ UNCHANGED memory
    BY <1>2 DEF CycleUnreadable, FlushOrders, FlushTrades, FlushExpiry, Flush,
                ExpireStaleSignals, session, tables, terminal
  <2>2. PICK where : Goto(Monitor, where) /\ pc[Monitor] # "sleep"
    BY <1>2 DEF CycleUnreadable, FlushOrders, FlushTrades, FlushExpiry, Flush,
                ExpireStaleSignals
  <2> QED BY <2>1, <2>2, SameRows, MonitorControl, InheritedClosure
<1>3. CASE ReconcilePending
  <2>1. UNCHANGED <<dbRow, broker, lastTicket>> /\ UNCHANGED memory
    BY <1>3 DEF ReconcilePending, tables, terminal
  <2>2. PICK where : Goto(Monitor, where) /\ pc[Monitor] # "sleep"
    BY <1>3 DEF ReconcilePending
  <2>3. ControlInherited BY <2>1, <2>2, MonitorControl
  <2>4. \A u \in Tasks, k \in Tickets :
           wRow'[u][k] \in {"open", "closed"} =>
              \/ wRow'[u][k] = wRow[u][k]
              \/ u = Monitor /\ wRow'[u][k] = "open" /\ k \in sawOpen[Monitor]
    <3>1. \A u \in Tasks \ {Monitor} : wRow'[u] = wRow[u]
      BY <1>3 DEF ReconcilePending, TypeOK
    <3>2. \A k \in Tickets :
             \/ wRow'[Monitor][k] \in {wRow[Monitor][k], "cancelled"}
             \/ wRow'[Monitor][k] = "open" /\ k \in sawOpen[Monitor]
      BY <1>3 DEF ReconcilePending, TypeOK
    <3> QED BY <3>1, <3>2
  <2>5. \A k \in sawOpen[Monitor] : broker[k] \in {"open", "gone"}
    BY <2>2 DEF ClosureInv, SnapshotCovers
  <2>6. FreshTickets' BY <2>1 DEF ClosureInv, FreshTickets
  <2>7. OpenRowsFilled' BY <2>1, <2>4, <2>5 DEF ClosureInv, OpenRowsFilled
  <2>8. ClosedRowsGone' BY <2>1, <2>4 DEF ClosureInv, ClosedRowsGone
  <2>9. PlacedFilled' BY <2>1, <2>3 DEF ClosureInv, PlacedFilled, ControlInherited
  <2>10. SnapshotCovers'
    BY <2>1, <2>3, <2>4, <2>5 DEF ClosureInv, SnapshotCovers, ControlInherited
  <2> QED BY <2>6, <2>7, <2>8, <2>9, <2>10 DEF ClosureInv
<1>4. CASE DetectClosures
  <2>1. UNCHANGED <<dbRow, broker, lastTicket>> /\ UNCHANGED memory
    BY <1>4 DEF DetectClosures, tables, terminal
  <2>2. PICK where : Goto(Monitor, where) /\ pc[Monitor] # "sleep"
    BY <1>4 DEF DetectClosures
  <2>3. ControlInherited BY <2>1, <2>2, MonitorControl
  <2>4. \A u \in Tasks, k \in Tickets :
           wRow'[u][k] \in {"open", "closed"} =>
              \/ wRow'[u][k] = wRow[u][k]
              \/ /\ u = Monitor /\ wRow'[u][k] = "closed"
                 /\ "open" \in {dbRow[k], wRow[Monitor][k]} /\ k \notin sawOpen[Monitor]
    <3>1. \A u \in Tasks \ {Monitor} : wRow'[u] = wRow[u]
      BY <1>4 DEF DetectClosures, TypeOK
    <3>2. \A k \in Tickets :
             \/ wRow'[Monitor][k] = wRow[Monitor][k]
             \/ /\ wRow'[Monitor][k] = "closed" /\ RowSeenBy(Monitor, k) = "open"
                /\ k \notin sawOpen[Monitor]
      BY <1>4 DEF DetectClosures, TypeOK
    <3>3. \A k \in Tickets : RowSeenBy(Monitor, k) \in {dbRow[k], wRow[Monitor][k]}
      BY DEF RowSeenBy
    <3> QED BY <3>1, <3>2, <3>3
  <2>5. \A k \in Tickets :
           "open" \in {dbRow[k], wRow[Monitor][k]} /\ k \notin sawOpen[Monitor]
              => broker[k] = "gone"
    BY <2>2 DEF ClosureInv, SnapshotCovers, OpenRowsFilled
  <2>6. FreshTickets' BY <2>1 DEF ClosureInv, FreshTickets
  <2>7. OpenRowsFilled' BY <2>1, <2>4 DEF ClosureInv, OpenRowsFilled
  <2>8. ClosedRowsGone' BY <2>1, <2>4, <2>5 DEF ClosureInv, ClosedRowsGone
  <2>9. PlacedFilled' BY <2>1, <2>3 DEF ClosureInv, PlacedFilled, ControlInherited
  <2>10. SnapshotCovers'
    BY <2>1, <2>3, <2>4 DEF ClosureInv, SnapshotCovers, ControlInherited
  <2> QED BY <2>6, <2>7, <2>8, <2>9, <2>10 DEF ClosureInv
<1>5. CASE EndCycle
  <2>1. RowsInherited BY <1>5, PublishedRows DEF EndCycle
  <2>2. Goto(Monitor, "sleep") /\ UNCHANGED memory BY <1>5 DEF EndCycle
  <2> QED BY <1>5, <2>1, <2>2, MonitorControl, InheritedClosure DEF EndCycle, terminal
<1>6. CASE BusyTimeout(Monitor)
  BY <1>6, RollbackClosure DEF BusyTimeout
<1> QED BY <1>1, <1>2, <1>3, <1>4, <1>5, <1>6 DEF MonitorStep

\* Arrivals and approvals record no closure.
LEMMA EntranceClosure ==
    ASSUME TypeOK, ClosureInv, NEW t \in Workers,
           \/ t \in Signals /\ (Arrive(t) \/ RecordSignal(t))
           \/ t \in Requests /\ ExpireOnApproval(t)
           \/ /\ t \in Requests
              /\ \E s \in Signals : ApproveManually(t, s) \/ RejectManually(t, s)
    PROVE  ClosureInv'
<1>1. UNCHANGED <<dbRow, wRow, broker, lastTicket, sawOpen, ticket>>
  BY DEF Arrive, RecordSignal, ExpireOnApproval, ApproveManually, RejectManually,
         WriteStatus, session, tables, terminal, memory, reads, plan
<1>2. \A u \in Workers \ {t} : target'[u] = target[u]
  BY DEF Arrive, RecordSignal, ExpireOnApproval, ApproveManually, RejectManually,
         memory, TypeOK, Tasks
<1>3. PICK where : where # "persist" /\ Goto(t, where)
  BY DEF Arrive, RecordSignal, ExpireOnApproval, ApproveManually, RejectManually
<1>4. ControlInherited BY <1>1, <1>2, <1>3, WorkerControl
<1> QED BY <1>1, <1>4, SameRows, InheritedClosure

\* The broker closes positions for good: what was gone stays gone.
LEMMA BrokerClosure ==
    ASSUME TypeOK, ClosureInv, NEW k \in Tickets, BrokerMoves(k)
    PROVE  ClosureInv'
<1>0. Monitor \in Tasks BY DEF Tasks
<1>1. UNCHANGED <<pc, dbRow, wRow, lastTicket, sawOpen, ticket, target>>
  BY DEF BrokerMoves, local, session, tables, memory, reads, plan
<1>2. /\ \A l \in Tickets \ {k} : broker'[l] = broker[l]
      /\ \/ broker[k] = "pending" /\ broker'[k] \in {"open", "gone"}
         \/ broker[k] = "open" /\ broker'[k] = "gone"
  BY DEF BrokerMoves, TypeOK
<1>3. FreshTickets' BY <1>1, <1>2 DEF ClosureInv, FreshTickets
<1>4. OpenRowsFilled' BY <1>1, <1>2 DEF ClosureInv, OpenRowsFilled
<1>5. ClosedRowsGone' BY <1>1, <1>2 DEF ClosureInv, ClosedRowsGone
<1>6. PlacedFilled' BY <1>1, <1>2 DEF ClosureInv, PlacedFilled
<1>7. SnapshotCovers'
  <2>1. \A t \in Tasks : "open" \in {dbRow[k], wRow[t][k]} => broker[k] # "pending"
    BY DEF ClosureInv, OpenRowsFilled
  <2>2. sawOpen[Monitor] \subseteq Tickets BY <1>0 DEF TypeOK
  <2> QED BY <1>1, <1>2, <2>1, <2>2 DEF ClosureInv, SnapshotCovers
<1> QED BY <1>3, <1>4, <1>5, <1>6, <1>7 DEF ClosureInv

\* Every step keeps the closures true.
LEMMA NextClosure ==
    ASSUME TypeOK, OneAtATime, ClosureInv, [Next]_vars
    PROVE  ClosureInv'
<1>0. Signals \subseteq Workers /\ Requests \subseteq Workers BY DEF Workers
<1>1. ASSUME NEW s \in Signals, MessageStep(s) PROVE ClosureInv'
  BY <1>0, <1>1, EntranceClosure, WorkerClosure DEF MessageStep
<1>2. ASSUME NEW r \in Requests, RequestStep(r) PROVE ClosureInv'
  BY <1>0, <1>2, EntranceClosure, WorkerClosure DEF RequestStep
<1>3. CASE MonitorStep BY <1>3, MonitorClosure
<1>4. CASE Outside
  <2>1. ASSUME NEW s \in Signals, Arrive(s) PROVE ClosureInv'
    BY <1>0, <2>1, EntranceClosure
  <2>2. ASSUME NEW r \in Requests, NEW s \in Signals,
               ApproveManually(r, s) \/ RejectManually(r, s)
        PROVE ClosureInv'
    BY <1>0, <2>2, EntranceClosure
  <2>3. CASE (\E s \in Signals : Deadline(s)) \/ (\E b \in BOOLEAN : SetPaused(b))
    <3>1. UNCHANGED <<pc, dbRow, wRow, broker, lastTicket, sawOpen, ticket, target>>
      BY <2>3 DEF Deadline, SetPaused, local, memory, reads, plan, session, tables,
                  terminal
    <3> QED BY <3>1, SameRows, InheritedClosure DEF ControlInherited
  <2>4. ASSUME NEW k \in Tickets, BrokerMoves(k) PROVE ClosureInv'
    BY <2>4, BrokerClosure
  <2>5. CASE Crash
    <3>1. UNCHANGED <<dbRow, broker, lastTicket>>
      BY <2>5 DEF Crash, tables, terminal
    <3>2. \A t \in Tasks, k \in Tickets : wRow'[t][k] = Untouched
      BY <2>5 DEF Crash, NoRow
    <3>3. RowsInherited BY <3>1, <3>2 DEF RowsInherited, Untouched, Tasks
    <3>4. ControlInherited
      BY <2>5, TasksAssumption DEF Crash, ControlInherited, Tasks
    <3> QED BY <3>1, <3>3, <3>4, InheritedClosure
  <2> QED BY <1>4, <2>1, <2>2, <2>3, <2>4, <2>5 DEF Outside
<1>5. CASE UNCHANGED vars
  <2>1. UNCHANGED <<pc, dbRow, wRow, broker, lastTicket, sawOpen, ticket, target>>
    BY <1>5 DEF vars, local, memory, reads, plan, session, tables, terminal
  <2> QED BY <2>1, SameRows, InheritedClosure DEF ControlInherited
<1> QED BY <1>1, <1>2, <1>3, <1>4, <1>5 DEF Next

\* A position is recorded as closed only when the broker no longer has it, whatever
\* the interleaving of evaluations, approvals, cycles, fills, lost calls and
\* crashes: the snapshot of a cycle is compared with rows that may be younger.
THEOREM ClosuresAreTrue == Spec => []NoFalseClosure
<1>1. Init => ClosureInv
  BY TasksAssumption
  DEF Init, ClosureInv, FreshTickets, OpenRowsFilled, ClosedRowsGone, PlacedFilled,
      SnapshotCovers, NoRow, Untouched, Tasks
<1>2. TypeOK /\ OneAtATime /\ ClosureInv /\ [Next]_vars => ClosureInv' BY NextClosure
<1>3. ClosureInv => NoFalseClosure
  BY DEF ClosureInv, ClosedRowsGone, NoFalseClosure
<1> QED BY <1>1, <1>2, <1>3, TypeCorrect, MutualExclusion, PTL DEF Spec
=============================================================================
