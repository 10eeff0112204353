----------------------- MODULE Mt5ProcessWorkerProofs -----------------------
(***************************************************************************)
(* Proofs about the process worker, for every set of calls, every number   *)
(* of children, faults, reconnections, shutdowns and cancellations: its    *)
(* variables keep their types, a call that succeeds has been executed,     *)
(* and, as long as every start and every halt has run under the lock,      *)
(* there is one child, no call is refused and a call that failed is handed *)
(* to the terminal no more.                                                *)
(***************************************************************************)
EXTENDS Mt5ProcessWorker, FiniteSetTheorems, SequenceTheorems, TLAPS

-----------------------------------------------------------------------------
(* The inductive invariants.                                               *)

\* Threads between making their queues and starting their child: each pair of
\* queues belongs to a child or to such a thread.
Spawning == {t \in Threads : pc[t] = "spawn"}
QueuesCounted == IsFiniteSet(Spawning) /\ started + Cardinality(Spawning) = made

\* Children are numbered as they are started, and one that runs reads queues.
ChildrenInOrder ==
    \A g \in Children : /\ g > started => child[g] = "none"
                        /\ Running(g) => reads[g] # None
\* A halt that goes on has a child in its hands, dead once it closes the handle.
HaltsHaveVictims ==
    \A t \in Threads : /\ pc[t] \in {"kill", "close"} => victim[t] # None
                       /\ pc[t] = "close" => child[victim[t]] = "dead"
Shape == TypeOK /\ QueuesCounted /\ ChildrenInOrder /\ HaltsHaveVictims

\* What is in a queue of answers has been executed, and only then is a call ok.
Answered(q) == \A i \in DOMAIN responses[q] : executed[responses[q][i]] = 1
WaitsKnowTheirQueues ==
    \A c \in Calls : pc[c] = "wait" => sentTo[c] # None /\ watched[c] # None
AnswerInv ==
    Shape /\ AnswerIsMine /\ WaitsKnowTheirQueues /\ \A q \in Children : Answered(q)

\* Without a start or a halt that escapes the lock, the thread of a call that
\* starts, halts or sends holds it, and so does the one that waits for an answer,
\* unless its caller has been cancelled.
Busy == {"alive", "halt", "kill", "close", "queues", "spawn", "send"}
Holders ==
    /\ pc[Reconnect] = "idle" /\ pc[Stop] = "idle"
    /\ stopping = FALSE
    /\ \A c \in Calls : /\ c \in cancelled => pc[c] \in {"wait", "done"}
                        /\ pc[c] \in Busy => lock = c
                        /\ pc[c] = "wait" /\ c \notin cancelled => lock = c
                        /\ pc[c] \in {"halt", "kill", "close"} =>
                               after[c] \in {"queues", "fail"}
\* What the worker holds at each step of its only thread.
WorkerHas ==
    /\ process # None => queues # None
    /\ \A c \in Calls : /\ pc[c] \in {"kill", "close", "queues", "spawn"} => process = None
                        /\ pc[c] = "send" => process # None
                        /\ pc[c] = "spawn" => queues # None
LockInv ==
    /\ AnswerInv
    /\ ~unlocked => Holders /\ WorkerHas
    /\ OneChild /\ AlwaysAvailable

\* A request is in the queues its call was sent to, or in the hands of a child
\* that reads them; a call is sent once.
RequestsKeepTheirQueues ==
    /\ \A q \in Children : \A i \in DOMAIN requests[q] : sentTo[requests[q][i]] = q
    /\ \A g \in Children :
           working[g] # Nobody =>
               g <= started /\ reads[g] # None /\ sentTo[working[g]] = reads[g]
    /\ \A c \in Calls : sentTo[c] # None =>
           \/ pc[c] \in {"wait", "done"}
           \/ pc[c] \in {"halt", "kill", "close"} /\ after[c] = "fail"
\* Under the lock each pair of queues has one child, and it dies before its call
\* fails.
OneReader ==
    /\ process # None => reads[process] = queues
    /\ \A c \in Calls : pc[c] = "spawn" => \A d \in Calls : sentTo[d] # queues
    /\ \A g \in Children, c \in Calls :
           Running(g) /\ sentTo[c] = reads[g] => watched[c] = g
WatchedDead(c) == watched[c] \in Children /\ child[watched[c]] = "dead"
DeadBeforeFailed ==
    \A c \in Calls :
        /\ \/ pc[c] = "wait" /\ c \notin cancelled
           \/ pc[c] = "halt" /\ after[c] = "fail"
           => watched[c] # None /\ watched[c] = process
        /\ pc[c] = "kill" /\ after[c] = "fail" => victim[c] = watched[c]
        /\ pc[c] = "close" /\ after[c] = "fail" => WatchedDead(c)
        /\ outcome[c] = "failed" => WatchedDead(c) /\ pc[c] = "done"
LateInv ==
    /\ LockInv /\ RequestsKeepTheirQueues
    /\ ~unlocked => OneReader /\ DeadBeforeFailed

-----------------------------------------------------------------------------
(* The types.                                                              *)

\* The threads are told apart.
LEMMA ThreadNames ==
    /\ Calls \subseteq Threads /\ Reconnect \in Threads /\ Stop \in Threads
    /\ Reconnect \notin Calls /\ Stop \notin Calls /\ Nobody \notin Calls
  BY ThreadsAssumption DEF Threads

\* A thread that makes its queues joins those that are about to start a child.
LEMMA SpawningJoins ==
    ASSUME Shape, NEW t \in Threads, pc[t] # "spawn", pc' = [pc EXCEPT ![t] = "spawn"],
           made' = made + 1, started' = started
    PROVE  QueuesCounted'
<1>1. Spawning' = Spawning \union {t} /\ t \notin Spawning
  BY DEF Shape, TypeOK, Spawning
<1>2. /\ IsFiniteSet(Spawning) /\ Cardinality(Spawning) \in Nat
      /\ IsFiniteSet(Spawning \union {t})
      /\ Cardinality(Spawning \union {t}) = Cardinality(Spawning) + 1
  BY <1>1, FS_CardinalityType, FS_AddElement DEF Shape, QueuesCounted
<1>3. started \in Nat /\ made \in Nat
  BY BoundsAssumption DEF Shape, TypeOK
<1> QED BY <1>1, <1>2, <1>3 DEF Shape, QueuesCounted

\* It leaves them when its child is started.
LEMMA SpawningLeaves ==
    ASSUME Shape, NEW t \in Threads, pc[t] = "spawn", NEW step \in Pc, step # "spawn",
           pc' = [pc EXCEPT ![t] = step], made' = made, started' = started + 1
    PROVE  QueuesCounted'
<1>1. Spawning' = Spawning \ {t} /\ t \in Spawning
  BY DEF Shape, TypeOK, Spawning
<1>2. /\ IsFiniteSet(Spawning) /\ Cardinality(Spawning) \in Nat
      /\ IsFiniteSet(Spawning \ {t})
      /\ Cardinality(Spawning \ {t}) = Cardinality(Spawning) - 1
  BY <1>1, FS_CardinalityType, FS_RemoveElement DEF Shape, QueuesCounted
<1>3. started \in Nat /\ made \in Nat
  BY BoundsAssumption DEF Shape, TypeOK
<1> QED BY <1>1, <1>2, <1>3 DEF Shape, QueuesCounted

\* Every other move of a thread leaves the count as it was.
LEMMA SpawningKept ==
    ASSUME Shape, NEW t \in Threads, pc[t] # "spawn", NEW step \in Pc, step # "spawn",
           pc' = [pc EXCEPT ![t] = step], UNCHANGED <<made, started>>
    PROVE  QueuesCounted'
<1>1. Spawning' = Spawning
  BY DEF Shape, TypeOK, Spawning
<1> QED BY <1>1 DEF Shape, QueuesCounted

\* When no thread moves nothing changes in the count.
LEMMA SpawningStays ==
    ASSUME Shape, UNCHANGED <<pc, made, started>> PROVE QueuesCounted'
  BY DEF Shape, QueuesCounted, Spawning

\* A thread about to start a child has queues for it.
LEMMA SpawnHasQueues ==
    ASSUME Shape, NEW t \in Threads, pc[t] = "spawn"
    PROVE  started + 1 \in Children /\ started + 1 <= made
<1>1. IsFiniteSet(Spawning) /\ Cardinality(Spawning) \in Nat
  BY FS_CardinalityType DEF Shape, QueuesCounted
<1>2. Spawning # {}
  BY DEF Spawning
<1>3. Cardinality(Spawning) # 0
  BY <1>1, <1>2, FS_EmptySet
<1> QED
  BY <1>1, <1>3, BoundsAssumption DEF Shape, QueuesCounted, TypeOK, Children

\* Return and End keep the types.
LEMMA ReturnType ==
    ASSUME Shape, NEW t \in Threads, NEW step \in After \union {"send"}, Return(t, step)
    PROVE  /\ \E s \in Pc : s # "spawn" /\ pc' = [pc EXCEPT ![t] = s] /\ s \notin {"kill", "close", "wait"}
           /\ lock' \in Calls \union {Nobody}
           /\ outcome' \in [Calls -> Outcomes]
  BY DEF Shape, TypeOK, Return, End, Goto, Free, Pc, After, Outcomes

\* A call that gives up keeps the types.
LEMMA GiveUpType ==
    ASSUME Shape, NEW c \in Calls, GiveUp(c)
    PROVE  /\ \E s \in {"halt", "done"} : pc' = [pc EXCEPT ![c] = s]
           /\ lock' \in Calls \union {Nobody}
           /\ outcome' \in [Calls -> Outcomes]
           /\ after' \in [Threads -> After]
  BY DEF Shape, TypeOK, GiveUp, ThenHalt, End, Goto, Free, Pc, After, Outcomes, Threads

\* A child that runs has been started and reads one of the pairs of queues.
LEMMA RunningReads ==
    ASSUME Shape, NEW g \in 1..started
    PROVE  /\ g \in Children /\ started \in 0..MaxStarts /\ made \in 0..MaxStarts
           /\ Running(g) => reads[g] \in Children
  BY BoundsAssumption DEF Shape, TypeOK, ChildrenInOrder, Children, None

\* Every step keeps the types: one step per action.
LEMMA TypeStep == Shape /\ [Next]_vars => TypeOK'
<1> SUFFICES ASSUME Shape, [Next]_vars PROVE TypeOK'
  OBVIOUS
<1>0. TypeOK /\ started \in Nat /\ made \in Nat
  BY BoundsAssumption DEF Shape, TypeOK
<1> USE <1>0, BoundsAssumption, ThreadNames
<1> USE DEF TypeOK, Children, None, worker, children, locals, bounds
<1>1. ASSUME NEW g \in 1..started, TakeRequest(g) PROVE TypeOK'
  <2>1. g \in Children /\ reads[g] \in Children
    BY <1>1, RunningReads DEF TakeRequest, Running
  <2>2. Head(requests[reads[g]]) \in Calls /\ Tail(requests[reads[g]]) \in Seq(Calls)
    BY <1>1, <2>1, HeadTailProperties DEF TakeRequest
  <2> QED BY <1>1, <2>1, <2>2 DEF TakeRequest
<1>2. ASSUME NEW g \in 1..started, Hand(g) PROVE TypeOK'
  <2>1. g \in Children /\ working[g] \in Calls
    BY <1>2, RunningReads DEF Hand
  <2> QED BY <1>2, <2>1 DEF Hand
<1>20. ASSUME NEW c \in Calls, Execute(c) PROVE TypeOK'
  BY <1>20 DEF Execute
<1>3. ASSUME NEW g \in 1..started, Answer(g) PROVE TypeOK'
  <2>1. g \in Children /\ reads[g] \in Children
    BY <1>3, RunningReads DEF Answer, Running
  <2>2. Append(responses[reads[g]], working[g]) \in Seq(Calls)
    BY <1>3, <2>1 DEF Answer
  <2> QED BY <1>3, <2>1, <2>2 DEF Answer
<1>4. ASSUME NEW g \in 1..started, Hang(g) \/ Die(g) PROVE TypeOK'
  BY <1>4 DEF Hang, Die, Running
<1>5. ASSUME NEW t \in Threads, Halt(t) PROVE TypeOK'
  <2>1. PICK s \in Pc : /\ pc' = [pc EXCEPT ![t] = s]
                        /\ lock' \in Calls \union {Nobody}
                        /\ outcome' \in [Calls -> Outcomes]
    BY <1>5, ReturnType DEF Halt, Goto, Pc
  <2>2. victim' \in [Threads -> 0..started] /\ None \in 0..started /\ None \in 0..made
    BY <1>5 DEF Halt
  <2> QED BY <1>5, <2>1, <2>2 DEF Halt
<1>6. ASSUME NEW t \in Threads, Kill(t) PROVE TypeOK'
  BY <1>6 DEF Kill, Goto, Pc
<1>7. ASSUME NEW t \in Threads, CloseHandle(t) PROVE TypeOK'
  <2>1. PICK s \in Pc : /\ pc' = [pc EXCEPT ![t] = s]
                        /\ lock' \in Calls \union {Nobody}
                        /\ outcome' \in [Calls -> Outcomes]
    BY <1>7, ReturnType DEF CloseHandle
  <2>2. victim[t] \in Children /\ child[victim[t]] = "dead"
    BY <1>7 DEF CloseHandle, Shape, HaltsHaveVictims
  <2> QED BY <1>7, <2>1, <2>2 DEF CloseHandle
<1>8. ASSUME NEW t \in Threads, CheckAlive(t) PROVE TypeOK'
  <2>1. PICK s \in Pc : /\ pc' = [pc EXCEPT ![t] = s]
                        /\ lock' \in Calls \union {Nobody}
                        /\ outcome' \in [Calls -> Outcomes]
                        /\ after' \in [Threads -> After]
    BY <1>8, ReturnType DEF CheckAlive, ThenHalt, Goto, Pc, After
  <2> QED BY <1>8, <2>1 DEF CheckAlive
<1>9. ASSUME NEW t \in Threads, MakeQueues(t) PROVE TypeOK'
  <2>1. made' \in 0..MaxStarts /\ queues' \in 0..made' /\ started \in 0..made'
    BY <1>9 DEF MakeQueues
  <2>2. 0..made \subseteq 0..made'
    BY <1>9 DEF MakeQueues
  <2>3. reads \in [Children -> 0..made'] /\ sentTo \in [Calls -> 0..made']
    BY <2>2
  <2> QED BY <1>9, <2>1, <2>3 DEF MakeQueues, Goto, Pc
<1>10. ASSUME NEW t \in Threads, Spawn(t) PROVE TypeOK'
  <2>1. PICK s \in Pc : /\ pc' = [pc EXCEPT ![t] = s]
                        /\ lock' \in Calls \union {Nobody}
                        /\ outcome' \in [Calls -> Outcomes]
    BY <1>10, ReturnType DEF Spawn, After
  <2>2. started + 1 \in Children /\ started + 1 <= made
    BY <1>10, SpawnHasQueues DEF Spawn
  <2>3. child[started + 1] = "none"
    BY <2>2 DEF Shape, ChildrenInOrder
  <2>4. started' \in 0..made /\ process' \in 0..started'
    BY <1>10, <2>2 DEF Spawn
  <2>5. 0..started \subseteq 0..started'
    BY <1>10 DEF Spawn
  <2>6. victim \in [Threads -> 0..started'] /\ watched \in [Calls -> 0..started']
    BY <2>5
  <2>7. /\ child' \in [Children -> {"none", "alive", "hung", "dead"}]
        /\ closed \subseteq {g \in Children : child'[g] = "dead"}
        /\ reads' \in [Children -> 0..made]
    BY <1>10, <2>2, <2>3 DEF Spawn
  <2> QED BY <1>10, <2>1, <2>4, <2>6, <2>7 DEF Spawn
<1>11. ASSUME NEW c \in Calls, Call(c) PROVE TypeOK'
  BY <1>11 DEF Call, Goto, Pc
<1>12. ASSUME NEW c \in Calls, Acquire(c) PROVE TypeOK'
  BY <1>12 DEF Acquire, Goto, End, Free, Pc, Outcomes
<1>13. ASSUME NEW c \in Calls, Send(c) PROVE TypeOK'
  <2>1. CASE process = None \/ queues = None
    BY <1>13, <2>1 DEF Send, Goto, End, Free, Pc, Outcomes
  <2>2. CASE process # None /\ queues # None
    <3>1. Append(requests[queues], c) \in Seq(Calls)
      BY <2>2
    <3>2. requests' \in [Children -> Seq(Calls)]
      BY <1>13, <2>2, <3>1 DEF Send
    <3>3. sentTo' \in [Calls -> 0..made]
      BY <1>13, <2>2 DEF Send
    <3>4. watched' \in [Calls -> 0..started]
      BY <1>13, <2>2 DEF Send
    <3>5. pc' \in [Threads -> Pc]
      BY <1>13, <2>2 DEF Send, Goto, Pc
    <3> QED BY <1>13, <2>2, <3>2, <3>3, <3>4, <3>5 DEF Send
  <2> QED BY <2>1, <2>2
<1>14. ASSUME NEW c \in Calls, Receive(c) PROVE TypeOK'
  <2>1. responses' \in [Children -> Seq(Calls)]
    BY <1>14, HeadTailProperties DEF Receive
  <2> QED BY <1>14, <2>1 DEF Receive, Goto, End, Free, Pc, Outcomes
<1>15. ASSUME NEW c \in Calls, NoAnswer(c) PROVE TypeOK'
  <2>1. PICK s \in {"halt", "done"} : /\ pc' = [pc EXCEPT ![c] = s]
                                      /\ lock' \in Calls \union {Nobody}
                                      /\ outcome' \in [Calls -> Outcomes]
                                      /\ after' \in [Threads -> After]
    BY <1>15, GiveUpType DEF NoAnswer
  <2> QED BY <1>15, <2>1 DEF NoAnswer, Pc
<1>16. ASSUME NEW c \in Calls, Cancel(c) PROVE TypeOK'
  BY <1>16 DEF Cancel, Free
<1>17. ASSUME Restart \/ Shutdown PROVE TypeOK'
  BY <1>17 DEF Restart, Shutdown, ThenHalt, Goto, Pc, After
<1>18. ASSUME UNCHANGED vars PROVE TypeOK'
  BY <1>18 DEF vars
<1>19. ASSUME NEW t \in Threads, ThreadStep(t) PROVE TypeOK'
  BY <1>5, <1>6, <1>7, <1>8, <1>9, <1>10, <1>19 DEF ThreadStep
<1> QED
  BY <1>1, <1>2, <1>3, <1>4, <1>11, <1>12, <1>13, <1>14, <1>15, <1>16, <1>17, <1>18, <1>19,
     <1>20
  DEF Next, CallStep, ChildStep

\* Every pair of queues keeps its child or its thread.
LEMMA CountStep == Shape /\ [Next]_vars => QueuesCounted'
<1> SUFFICES ASSUME Shape, [Next]_vars PROVE QueuesCounted'
  OBVIOUS
<1>0. started \in Nat /\ made \in Nat
  BY BoundsAssumption DEF Shape, TypeOK
<1> USE <1>0, ThreadNames DEF worker
<1>1. ASSUME NEW g \in 1..started, ChildStep(g) \/ Hang(g) \/ Die(g) PROVE QueuesCounted'
  BY <1>1, SpawningStays DEF ChildStep, TakeRequest, Hand, Answer, Hang, Die
<1>2. ASSUME NEW t \in Threads, Halt(t) PROVE QueuesCounted'
  <2>1. PICK s \in Pc : pc' = [pc EXCEPT ![t] = s] /\ s # "spawn"
    BY <1>2, ReturnType DEF Halt, Goto, Pc, Shape, TypeOK
  <2> QED BY <1>2, <2>1, SpawningKept DEF Halt
<1>3. ASSUME NEW t \in Threads, Kill(t) PROVE QueuesCounted'
  BY <1>3, SpawningKept DEF Kill, Goto, Pc
<1>4. ASSUME NEW t \in Threads, CloseHandle(t) PROVE QueuesCounted'
  <2>1. PICK s \in Pc : pc' = [pc EXCEPT ![t] = s] /\ s # "spawn"
    BY <1>4, ReturnType DEF CloseHandle, Shape, TypeOK
  <2> QED BY <1>4, <2>1, SpawningKept DEF CloseHandle
<1>5. ASSUME NEW t \in Threads, CheckAlive(t) PROVE QueuesCounted'
  <2>1. PICK s \in Pc : pc' = [pc EXCEPT ![t] = s] /\ s # "spawn"
    BY <1>5, ReturnType DEF CheckAlive, ThenHalt, Goto, Pc, After
  <2> QED BY <1>5, <2>1, SpawningKept DEF CheckAlive
<1>6. ASSUME NEW t \in Threads, MakeQueues(t) PROVE QueuesCounted'
  <2>1. /\ pc' = [pc EXCEPT ![t] = "spawn"] /\ pc[t] # "spawn" /\ "spawn" \in Pc
        /\ made' = made + 1 /\ started' = started
    BY <1>6 DEF MakeQueues, Goto, Pc
  <2> QED BY <2>1, SpawningJoins
<1>7. ASSUME NEW t \in Threads, Spawn(t) PROVE QueuesCounted'
  <2>1. PICK s \in Pc : pc' = [pc EXCEPT ![t] = s] /\ s # "spawn"
    BY <1>7, ReturnType DEF Spawn, After
  <2>2. pc[t] = "spawn" /\ made' = made /\ started' = started + 1
    BY <1>7 DEF Spawn
  <2> QED BY <2>1, <2>2, SpawningLeaves
<1>8. ASSUME NEW c \in Calls, Call(c) \/ Acquire(c) \/ Send(c) \/ Cancel(c) PROVE QueuesCounted'
  <2>1. CASE Cancel(c)
    BY <2>1, SpawningStays DEF Cancel
  <2>2. CASE Call(c) \/ Acquire(c) \/ Send(c)
    <3>1. /\ \E s \in Pc : pc' = [pc EXCEPT ![c] = s] /\ s # "spawn"
          /\ pc[c] # "spawn"
      BY <2>2 DEF Call, Acquire, Send, Goto, End, Pc
    <3> QED BY <2>2, <3>1, SpawningKept DEF Call, Acquire, Send
  <2> QED BY <1>8, <2>1, <2>2
<1>9. ASSUME NEW c \in Calls, Receive(c) PROVE QueuesCounted'
  BY <1>9, SpawningStays, SpawningKept DEF Receive, End, Goto, Pc
<1>10. ASSUME NEW c \in Calls, NoAnswer(c) PROVE QueuesCounted'
  <2>1. PICK s \in {"halt", "done"} : pc' = [pc EXCEPT ![c] = s]
    BY <1>10, GiveUpType DEF NoAnswer
  <2> QED BY <1>10, <2>1, SpawningKept DEF NoAnswer, Pc
<1>11. ASSUME Restart \/ Shutdown PROVE QueuesCounted'
  <2>1. CASE Restart
    BY <2>1, SpawningKept DEF Restart, ThenHalt, Goto, Pc
  <2>2. CASE Shutdown
    BY <2>2, SpawningKept DEF Shutdown, ThenHalt, Goto, Pc
  <2> QED BY <1>11, <2>1, <2>2
<1>12. ASSUME (\E c \in Calls : Execute(c)) \/ UNCHANGED vars PROVE QueuesCounted'
  BY <1>12, SpawningStays DEF vars, Execute
<1>13. ASSUME NEW t \in Threads, ThreadStep(t) PROVE QueuesCounted'
  BY <1>2, <1>3, <1>4, <1>5, <1>6, <1>7, <1>13 DEF ThreadStep
<1> QED
  BY <1>1, <1>8, <1>9, <1>10, <1>11, <1>12, <1>13 DEF Next, CallStep

\* Every step keeps the order of the children and the victims of the halts.
LEMMA ChildrenStep == Shape /\ [Next]_vars => ChildrenInOrder' /\ HaltsHaveVictims'
<1> DEFINE Good == ChildrenInOrder' /\ HaltsHaveVictims'
<1> SUFFICES ASSUME Shape, [Next]_vars PROVE Good
  OBVIOUS
<1>0. /\ started \in Nat /\ made \in Nat /\ queues \in Nat
      /\ process \in 0..started /\ started <= MaxStarts
      /\ child \in [Children -> {"none", "alive", "hung", "dead"}]
      /\ reads \in [Children -> 0..made]
      /\ pc \in [Threads -> Pc] /\ victim \in [Threads -> 0..started]
  BY BoundsAssumption DEF Shape, TypeOK
<1>00. ChildrenInOrder /\ HaltsHaveVictims
  BY DEF Shape
<1> USE <1>0, <1>00, BoundsAssumption, ThreadNames
<1> USE DEF ChildrenInOrder, HaltsHaveVictims, Running, Children, None, worker, children, locals
<1>1. ASSUME NEW g \in 1..started, ChildStep(g) PROVE Good
  BY <1>1 DEF ChildStep, TakeRequest, Hand, Answer
<1>2. ASSUME NEW g \in 1..started, Hang(g) \/ Die(g) PROVE Good
  <2>1. /\ UNCHANGED <<started, reads, pc, victim>>
        /\ \/ child[g] = "alive" /\ child' = [child EXCEPT ![g] = "hung"]
           \/ child[g] \in {"alive", "hung"} /\ child' = [child EXCEPT ![g] = "dead"]
    BY <1>2 DEF Hang, Die
  <2>2. ChildrenInOrder'
    BY <2>1
  <2>3. ASSUME NEW t \in Threads, pc[t] = "close" PROVE child'[victim[t]] = "dead"
    <3>1. victim[t] \in Children /\ child[victim[t]] = "dead"
      BY <2>3
    <3> QED BY <2>1, <3>1
  <2> QED BY <2>1, <2>2, <2>3
<1>3. ASSUME NEW t \in Threads, Halt(t) PROVE Good
  <2>1. PICK s \in Pc : /\ pc' = [pc EXCEPT ![t] = s] /\ s # "close"
                        /\ s = "kill" => process # None
    BY <1>3, ReturnType DEF Halt, Goto, Pc, Shape, TypeOK
  <2> QED BY <1>3, <2>1 DEF Halt
<1>4. ASSUME NEW t \in Threads, Kill(t) PROVE Good
  BY <1>4 DEF Kill, Goto
<1>5. ASSUME NEW t \in Threads, CloseHandle(t) PROVE Good
  <2>1. PICK s \in Pc : pc' = [pc EXCEPT ![t] = s] /\ s \notin {"kill", "close"}
    BY <1>5, ReturnType DEF CloseHandle, Shape, TypeOK
  <2> QED BY <1>5, <2>1 DEF CloseHandle
<1>6. ASSUME NEW t \in Threads, CheckAlive(t) PROVE Good
  <2>1. PICK s \in Pc : pc' = [pc EXCEPT ![t] = s] /\ s \notin {"kill", "close"}
    BY <1>6, ReturnType DEF CheckAlive, ThenHalt, Goto, Pc, After
  <2> QED BY <1>6, <2>1 DEF CheckAlive
<1>7. ASSUME NEW t \in Threads, MakeQueues(t) PROVE Good
  BY <1>7 DEF MakeQueues, Goto
<1>8. ASSUME NEW t \in Threads, Spawn(t) PROVE Good
  <2>1. PICK s \in Pc : pc' = [pc EXCEPT ![t] = s] /\ s \notin {"kill", "close"}
    BY <1>8, ReturnType DEF Spawn, After
  <2>2. started + 1 \in Children /\ child[started + 1] = "none"
    BY <1>8, SpawnHasQueues DEF Spawn
  <2>3. ChildrenInOrder'
    BY <1>8, <2>2 DEF Spawn
  <2>4. HaltsHaveVictims'
    BY <1>8, <2>1, <2>2 DEF Spawn
  <2> QED BY <2>3, <2>4
<1>9. ASSUME NEW c \in Calls, Call(c) \/ Acquire(c) \/ Send(c) \/ Receive(c) \/ Cancel(c)
      PROVE Good
  BY <1>9 DEF Call, Acquire, Send, Receive, Cancel, Goto, End
<1>10. ASSUME NEW c \in Calls, NoAnswer(c) PROVE Good
  <2>1. PICK s \in {"halt", "done"} : pc' = [pc EXCEPT ![c] = s]
    BY <1>10, GiveUpType DEF NoAnswer
  <2> QED BY <1>10, <2>1 DEF NoAnswer
<1>11. ASSUME Restart \/ Shutdown PROVE Good
  BY <1>11 DEF Restart, Shutdown, ThenHalt, Goto
<1>12. ASSUME (\E c \in Calls : Execute(c)) \/ UNCHANGED vars PROVE Good
  BY <1>12 DEF vars, Execute
<1>13. ASSUME NEW t \in Threads, ThreadStep(t) PROVE Good
  BY <1>3, <1>4, <1>5, <1>6, <1>7, <1>8, <1>13 DEF ThreadStep
<1> QED
  BY <1>1, <1>2, <1>9, <1>10, <1>11, <1>12, <1>13 DEF Next, CallStep

\* Every step keeps the types and the bookkeeping of calls and children.
LEMMA ShapeStep == Shape /\ [Next]_vars => Shape'
  BY TypeStep, CountStep, ChildrenStep DEF Shape

\* The worker starts with its types and its bookkeeping right.
LEMMA ShapeInit == Init => Shape
<1> SUFFICES ASSUME Init PROVE Shape
  OBVIOUS
<1>1. Spawning = {}
  BY DEF Init, Spawning
<1>2. QueuesCounted
  BY <1>1, FS_EmptySet DEF QueuesCounted, Init
<1>3. <<>> \in Seq(Calls)
  OBVIOUS
<1>4. TypeOK
  <2>1. /\ requests \in [Children -> Seq(Calls)] /\ responses \in [Children -> Seq(Calls)]
        /\ closed \subseteq {g \in Children : child[g] = "dead"}
    BY <1>3 DEF Init
  <2>2. /\ process \in 0..started /\ queues \in 0..made
        /\ made \in 0..MaxStarts /\ started \in 0..made
        /\ reads \in [Children -> 0..made] /\ victim \in [Threads -> 0..started]
        /\ sentTo \in [Calls -> 0..made] /\ watched \in [Calls -> 0..started]
    BY BoundsAssumption DEF Init, None
  <2> QED BY <2>1, <2>2 DEF Init, TypeOK, Pc, After, Outcomes
<1>5. ChildrenInOrder /\ HaltsHaveVictims
  BY DEF Init, ChildrenInOrder, HaltsHaveVictims, Running
<1> QED BY <1>2, <1>4, <1>5 DEF Shape

\* The variables of the worker keep their types, whatever the terminal and the
\* callers do: in particular there are never more children than pairs of queues,
\* and a handle is closed only on a dead child.
THEOREM WorkerTypes == Spec => []TypeOK
<1>1. Shape => TypeOK
  BY DEF Shape
<1> QED BY <1>1, ShapeInit, ShapeStep, PTL DEF Spec

-----------------------------------------------------------------------------
(* A call that succeeds has been executed.                                 *)

\* What a step of start or of a halt leaves alone, and how it ends a call.
LEMMA ThreadQuiet ==
    ASSUME Shape, NEW t \in Threads, ThreadStep(t)
    PROVE  /\ UNCHANGED <<requests, responses, sentTo, watched, executed, working,
                          handed, cancelled, unlocked>>
           /\ \E s \in Pc \ {"wait", "idle", "lock"} : pc' = [pc EXCEPT ![t] = s]
           /\ \A c \in Calls : outcome'[c] \in {outcome[c], "none", "failed"}
<1> USE DEF Shape, TypeOK, worker, children, locals
<1>1. CASE Halt(t)
  BY <1>1 DEF Halt, Return, End, Goto, Pc, After
<1>2. CASE Kill(t)
  BY <1>2 DEF Kill, Goto, Pc
<1>3. CASE CloseHandle(t)
  BY <1>3 DEF CloseHandle, Return, End, Goto, Pc, After
<1>4. CASE CheckAlive(t)
  BY <1>4 DEF CheckAlive, ThenHalt, Return, End, Goto, Pc, After
<1>5. CASE MakeQueues(t)
  BY <1>5 DEF MakeQueues, Goto, Pc
<1>6. CASE Spawn(t)
  BY <1>6 DEF Spawn, Return, End, Goto, Pc, After
<1> QED BY <1>1, <1>2, <1>3, <1>4, <1>5, <1>6 DEF ThreadStep

\* Every step keeps each answer in the queue addressed to its own call.
LEMMA AnswerStep == AnswerInv /\ [Next]_vars => AnswerInv'
<1> DEFINE Good == AnswerIsMine' /\ WaitsKnowTheirQueues' /\ \A q \in Children : Answered(q)'
<1> SUFFICES ASSUME AnswerInv, [Next]_vars PROVE Good
  BY ShapeStep DEF AnswerInv
<1>0. /\ Shape /\ AnswerIsMine /\ WaitsKnowTheirQueues /\ \A q \in Children : Answered(q)
      /\ responses \in [Children -> Seq(Calls)] /\ executed \in [Calls -> Nat]
      /\ working \in [Children -> Calls \union {Nobody}]
      /\ pc \in [Threads -> Pc] /\ outcome \in [Calls -> Outcomes]
      /\ sentTo \in [Calls -> 0..made] /\ watched \in [Calls -> 0..started]
      /\ 0..made \ {None} \subseteq Children
  BY BoundsAssumption DEF AnswerInv, Shape, TypeOK, Children, None
<1> USE <1>0, ThreadNames
<1> USE DEF AnswerIsMine, WaitsKnowTheirQueues, Answered, children, worker, locals
<1>1. ASSUME NEW t \in Threads, ThreadStep(t) PROVE Good
  <2>1. /\ UNCHANGED <<responses, sentTo, watched, executed>>
        /\ \E s \in Pc \ {"wait"} : pc' = [pc EXCEPT ![t] = s]
        /\ \A c \in Calls : outcome'[c] \in {outcome[c], "none", "failed"}
    BY <1>1, ThreadQuiet
  <2> QED BY <2>1
<1>2. ASSUME NEW g \in 1..started, TakeRequest(g) \/ Hand(g) \/ Hang(g) \/ Die(g)
      PROVE  Good
  BY <1>2 DEF TakeRequest, Hand, Hang, Die
<1>3. ASSUME NEW d \in Calls, Execute(d) PROVE Good
  <2>1. /\ UNCHANGED <<responses, sentTo, watched, pc, outcome>>
        /\ \A c \in Calls : executed[c] = 1 => executed'[c] = 1
    BY <1>3 DEF Execute
  <2>2. \A q \in Children : \A i \in DOMAIN responses[q] : responses[q][i] \in Calls
    OBVIOUS
  <2> QED BY <2>1, <2>2
<1>4. ASSUME NEW g \in 1..started, Answer(g) PROVE Good
  <2>1. g \in Children /\ reads[g] \in Children
    BY <1>4, RunningReads DEF Answer, Running
  <2>2. /\ working[g] \in Calls /\ executed[working[g]] = 1
        /\ responses' = [responses EXCEPT ![reads[g]] = Append(@, working[g])]
        /\ UNCHANGED <<sentTo, watched, pc, outcome, executed>>
    BY <1>4, <2>1 DEF Answer
  <2>3. ASSUME NEW q \in Children PROVE Answered(q)'
    <3>1. CASE q # reads[g]
      BY <2>2, <3>1
    <3>2. CASE q = reads[g]
      <4>1. /\ responses'[q] = Append(responses[q], working[g])
            /\ responses[q] \in Seq(Calls)
        BY <2>2, <3>2
      <4>2. \A i \in DOMAIN responses'[q] :
                \/ i \in DOMAIN responses[q] /\ responses'[q][i] = responses[q][i]
                \/ responses'[q][i] = working[g]
        BY <2>2, <4>1
      <4> QED BY <2>2, <4>2
    <3> QED BY <3>1, <3>2
  <2> QED BY <2>2, <2>3
<1>5. ASSUME NEW c \in Calls, Call(c) \/ Acquire(c) \/ Cancel(c) \/ NoAnswer(c) PROVE Good
  <2>1. /\ UNCHANGED <<responses, sentTo, watched, executed>>
        /\ pc' = pc \/ \E s \in Pc \ {"wait"} : pc' = [pc EXCEPT ![c] = s]
        /\ \A d \in Calls : outcome'[d] \in {outcome[d], "failed", "unavailable"}
    BY <1>5 DEF Call, Acquire, Cancel, NoAnswer, GiveUp, ThenHalt, End, Goto, Pc
  <2> QED BY <2>1
<1>6. ASSUME NEW c \in Calls, Send(c) PROVE Good
  <2>1. /\ UNCHANGED <<responses, executed>>
        /\ \A d \in Calls : outcome'[d] \in {outcome[d], "unavailable"}
    BY <1>6 DEF Send, End, Goto
  <2>2. WaitsKnowTheirQueues'
    BY <1>6 DEF Send, End, Goto
  <2> QED BY <2>1, <2>2
<1>7. ASSUME NEW c \in Calls, Receive(c) PROVE Good
  <2>1. /\ sentTo[c] \in Children /\ responses[sentTo[c]] \in Seq(Calls)
        /\ responses[sentTo[c]] # <<>>
        /\ responses' = [responses EXCEPT ![sentTo[c]] = Tail(@)]
        /\ UNCHANGED <<sentTo, watched, executed>>
    BY <1>7 DEF Receive
  <2>2. /\ Head(responses[sentTo[c]]) = responses[sentTo[c]][1]
        /\ 1 \in DOMAIN responses[sentTo[c]]
        /\ \A i \in DOMAIN Tail(responses[sentTo[c]]) :
               /\ i + 1 \in DOMAIN responses[sentTo[c]]
               /\ Tail(responses[sentTo[c]])[i] = responses[sentTo[c]][i + 1]
    BY <2>1, HeadTailProperties
  <2>3. ASSUME NEW q \in Children PROVE Answered(q)'
    BY <2>1, <2>2
  <2>4. AnswerIsMine'
    BY <1>7, <2>1, <2>2 DEF Receive, IsMine, End, Goto
  <2>5. WaitsKnowTheirQueues'
    BY <1>7, <2>1 DEF Receive, End, Goto
  <2> QED BY <2>3, <2>4, <2>5
<1>8. ASSUME Restart \/ Shutdown PROVE Good
  BY <1>8 DEF Restart, Shutdown, ThenHalt, Goto
<1>9. ASSUME UNCHANGED vars PROVE Good
  BY <1>9 DEF vars
<1> QED
  BY <1>1, <1>2, <1>3, <1>4, <1>5, <1>6, <1>7, <1>8, <1>9 DEF Next, CallStep, ChildStep

\* The queues start empty.
LEMMA AnswerInit == Init => AnswerInv
<1> SUFFICES ASSUME Init PROVE AnswerInv
  OBVIOUS
<1>1. \A q \in Children : responses[q] = <<>> /\ DOMAIN responses[q] = {}
  BY DEF Init
<1>2. \A q \in Children : Answered(q)
  BY <1>1 DEF Answered
<1>3. AnswerIsMine /\ WaitsKnowTheirQueues
  BY ThreadNames DEF Init, AnswerIsMine, WaitsKnowTheirQueues
<1> QED BY <1>2, <1>3, ShapeInit DEF AnswerInv

\* A call that succeeds has the answer to its own request: what it asked has been
\* executed, although the queues still hold the answers of abandoned calls.
THEOREM AnswersAreMine == Spec => []AnswerIsMine
<1>1. AnswerInv => AnswerIsMine
  BY DEF AnswerInv
<1> QED BY <1>1, AnswerInit, AnswerStep, PTL DEF Spec

-----------------------------------------------------------------------------
(* Under the lock: one child, and no call refused.                         *)

\* What the steps of the threads need of the types.
LEMMA LockTypes ==
    ASSUME LockInv
    PROVE  /\ Shape /\ started \in Nat /\ process \in 0..started
           /\ queues \in Nat /\ made \in Nat /\ 0..started \ {None} \subseteq Children
           /\ child \in [Children -> {"none", "alive", "hung", "dead"}]
           /\ reads \in [Children -> 0..made]
           /\ pc \in [Threads -> Pc] /\ after \in [Threads -> After]
           /\ victim \in [Threads -> 0..started] /\ outcome \in [Calls -> Outcomes]
           /\ lock \in Calls \union {Nobody}
<1>1. TypeOK /\ Shape
  BY DEF LockInv, AnswerInv, Shape
<1>2. started \in Nat /\ made \in Nat /\ queues \in Nat /\ 0..started \ {None} \subseteq Children
  BY <1>1, BoundsAssumption DEF TypeOK, Children, None
<1> QED BY <1>1, <1>2 DEF TypeOK

\* While nothing has escaped the lock only the calls run the steps of a thread.
LEMMA LockedThread ==
    ASSUME LockInv, ~unlocked, NEW t \in Threads, ThreadStep(t)
    PROVE  t \in Calls /\ pc[t] \in Busy /\ t \notin cancelled /\ lock = t
  BY ThreadsAssumption
  DEF LockInv, Holders, Busy, Threads, ThreadStep, Halt, Kill, CloseHandle, CheckAlive,
      MakeQueues, Spawn

Locked == Holders /\ WorkerHas /\ OneChild

\* A step of the thread that holds the lock.
LEMMA LockedThreadStep ==
    ASSUME LockInv, ~unlocked, NEW c \in Calls, ThreadStep(c) PROVE Locked'
<1>0. /\ Shape /\ started \in Nat /\ process \in 0..started
      /\ queues \in Nat /\ made \in Nat /\ 0..started \ {None} \subseteq Children
      /\ child \in [Children -> {"none", "alive", "hung", "dead"}]
      /\ pc \in [Threads -> Pc] /\ after \in [Threads -> After]
      /\ victim \in [Threads -> 0..started]
      /\ lock \in Calls \union {Nobody}
  BY LockTypes
<1>1. /\ c \in Threads /\ pc[c] \in Busy /\ c \notin cancelled /\ lock = c /\ c # Nobody
      /\ c # Reconnect /\ c # Stop
  BY LockedThread, ThreadNames
<1>2. Holders /\ WorkerHas /\ \A d \in Calls : d # c => pc[d] \notin Busy
  BY <1>1, ThreadNames DEF LockInv, Holders
<1>3. pc[Reconnect] = "idle" /\ pc[Stop] = "idle"
  BY <1>2 DEF Holders
<1>4. \A t \in Threads : t # c => pc[t] # "kill"
  BY <1>2, <1>3 DEF Threads, Busy
<1>5. \A g \in Children : Running(g) => g = process \/ (g = victim[c] /\ pc[c] = "kill")
  <2>1. OneChild
    BY DEF LockInv
  <2> QED BY <1>4, <2>1 DEF OneChild
<1> USE <1>0, <1>1, <1>2, <1>3, ThreadNames
<1> USE DEF Busy, worker, children, locals, None
<1>6. CASE Halt(c)
  <2>1. Holders'
    BY <1>6 DEF Halt, Return, End, Goto, Free, Holders
  <2>2. WorkerHas'
    BY <1>6 DEF Halt, Return, End, Goto, Holders, WorkerHas
  <2>3. OneChild'
    BY <1>5, <1>6 DEF Halt, Return, End, Goto, Running, OneChild
  <2> QED BY <2>1, <2>2, <2>3 DEF Locked
<1>7. CASE Kill(c)
  <2>1. Holders' /\ WorkerHas'
    BY <1>7 DEF Kill, Goto, Holders, WorkerHas
  <2>2. OneChild'
    BY <1>5, <1>7 DEF Kill, Goto, Running, OneChild
  <2> QED BY <2>1, <2>2 DEF Locked
<1>8. CASE CloseHandle(c)
  <2>1. Holders'
    BY <1>8 DEF CloseHandle, Return, End, Goto, Free, Holders
  <2>2. WorkerHas'
    BY <1>8 DEF CloseHandle, Return, End, Goto, Holders, WorkerHas
  <2>3. OneChild'
    BY <1>5, <1>8 DEF CloseHandle, Running, OneChild
  <2> QED BY <2>1, <2>2, <2>3 DEF Locked
<1>9. CASE CheckAlive(c)
  <2>1. Holders'
    BY <1>9 DEF CheckAlive, ThenHalt, Return, End, Goto, Free, Holders
  <2>2. WorkerHas'
    BY <1>9 DEF CheckAlive, Alive, ThenHalt, Return, End, Goto, WorkerHas
  <2>3. OneChild'
    BY <1>5, <1>9 DEF CheckAlive, Running, OneChild
  <2> QED BY <2>1, <2>2, <2>3 DEF Locked
<1>10. CASE MakeQueues(c)
  <2>1. Holders' /\ WorkerHas'
    BY <1>10 DEF MakeQueues, Goto, Holders, WorkerHas
  <2>2. OneChild'
    BY <1>5, <1>10 DEF MakeQueues, Running, OneChild
  <2> QED BY <2>1, <2>2 DEF Locked
<1>11. CASE Spawn(c)
  <2>1. Holders'
    BY <1>11 DEF Spawn, Return, End, Goto, Holders
  <2>2. WorkerHas'
    BY <1>11 DEF Spawn, Return, End, Goto, WorkerHas
  <2>3. process = None /\ started + 1 \in Children /\ None \notin Children
    BY <1>11, SpawnHasQueues DEF Spawn, WorkerHas, Children
  <2>4. OneChild'
    BY <1>5, <1>11, <2>3 DEF Spawn, Running, OneChild
  <2> QED BY <2>1, <2>2, <2>4 DEF Locked
<1> QED BY <1>6, <1>7, <1>8, <1>9, <1>10, <1>11 DEF ThreadStep

\* A step of a call outside the threads.
LEMMA LockedCallStep ==
    ASSUME LockInv, ~unlocked', NEW c \in Calls,
           \/ Call(c) \/ Acquire(c) \/ Send(c) \/ Receive(c) \/ NoAnswer(c) \/ Cancel(c)
    PROVE  Locked'
<1>0. /\ pc \in [Threads -> Pc] /\ after \in [Threads -> After] /\ c \in Threads
      /\ lock \in Calls \union {Nobody} /\ c # Nobody /\ c # Reconnect /\ c # Stop
  BY LockTypes, ThreadNames
<1>1. ~unlocked
  BY DEF Call, Acquire, Send, Receive, NoAnswer, Cancel
<1>2. Holders /\ WorkerHas /\ OneChild
  BY <1>1 DEF LockInv
<1>3. UNCHANGED <<worker, child, victim>>
  BY DEF Call, Acquire, Send, Receive, NoAnswer, Cancel, children, locals
<1>4. pc[c] # "kill" => \A t \in Threads : pc[t] = "kill" => pc'[t] = "kill"
  BY <1>0 DEF Call, Acquire, Send, Receive, NoAnswer, Cancel, GiveUp, ThenHalt, End, Goto
<1>5. OneChild'
  <2>1. ASSUME Cancel(c) PROVE OneChild'
    BY <1>1, <1>2, <1>3, <2>1 DEF Cancel, OneChild, Running, worker
  <2>2. ASSUME ~Cancel(c) PROVE OneChild'
    <3>1. pc[c] # "kill"
      BY <2>2 DEF Call, Acquire, Send, Receive, NoAnswer
    <3> QED BY <1>1, <1>2, <1>3, <1>4, <3>1 DEF OneChild, Running, worker
  <2> QED BY <2>1, <2>2
<1> USE <1>0, <1>1, <1>2, <1>3, ThreadNames
<1> USE DEF Busy, worker, locals
<1>6. CASE Call(c)
  BY <1>5, <1>6 DEF Call, Goto, Holders, WorkerHas, Locked
<1>7. CASE Acquire(c)
  <2>1. Holders'
    BY <1>7 DEF Acquire, End, Goto, Free, Holders
  <2>2. WorkerHas'
    BY <1>7 DEF Acquire, Alive, End, Goto, WorkerHas
  <2> QED BY <1>5, <2>1, <2>2 DEF Locked
<1>8. CASE Send(c)
  <2>1. Holders'
    BY <1>8 DEF Send, End, Goto, Free, Holders
  <2>2. WorkerHas'
    BY <1>8 DEF Send, End, Goto, WorkerHas
  <2> QED BY <1>5, <2>1, <2>2 DEF Locked
<1>9. CASE Receive(c)
  <2>1. Holders'
    BY <1>9 DEF Receive, End, Goto, Free, Holders
  <2>2. WorkerHas'
    BY <1>9 DEF Receive, End, Goto, WorkerHas
  <2> QED BY <1>5, <2>1, <2>2 DEF Locked
<1>10. CASE NoAnswer(c)
  <2>1. Holders'
    BY <1>10 DEF NoAnswer, GiveUp, ThenHalt, End, Goto, Free, Holders
  <2>2. WorkerHas'
    BY <1>10 DEF NoAnswer, GiveUp, ThenHalt, End, Goto, WorkerHas
  <2> QED BY <1>5, <2>1, <2>2 DEF Locked
<1>11. CASE Cancel(c)
  <2>1. pc[c] = "wait" /\ pc' = pc
    BY <1>11 DEF Cancel
  <2>2. Holders'
    BY <1>11, <2>1 DEF Cancel, Free, Holders
  <2>3. WorkerHas'
    BY <1>11, <2>1 DEF Cancel, WorkerHas
  <2> QED BY <1>5, <2>2, <2>3 DEF Locked
<1> QED BY <1>6, <1>7, <1>8, <1>9, <1>10, <1>11

\* A step of a child.
LEMMA LockedChildStep ==
    ASSUME LockInv, ~unlocked, NEW g \in 1..started, ChildStep(g) \/ Hang(g) \/ Die(g)
    PROVE  Locked'
<1>1. Holders /\ WorkerHas /\ OneChild
  BY DEF LockInv
<1>2. /\ UNCHANGED <<lock, worker, pc, locals, cancelled, outcome, unlocked>>
      /\ \A h \in Children : Running(h)' => Running(h)
  BY LockTypes DEF ChildStep, TakeRequest, Hand, Answer, Hang, Die, Running, children
<1> QED
  BY <1>1, <1>2 DEF Locked, Holders, WorkerHas, OneChild, worker, locals

\* What escapes the lock is remembered.
LEMMA UnlockedForGood ==
    ASSUME LockInv, [Next]_vars PROVE unlocked => unlocked'
<1>1. ASSUME NEW t \in Threads, ThreadStep(t) PROVE unlocked' = unlocked
  BY <1>1, ThreadQuiet, LockTypes
<1>2. ASSUME NEW c \in Calls,
             Call(c) \/ Acquire(c) \/ Send(c) \/ Receive(c) \/ NoAnswer(c) \/ Cancel(c)
      PROVE  unlocked => unlocked'
  BY <1>2 DEF Call, Acquire, Send, Receive, NoAnswer, Cancel
<1>3. ASSUME NEW g \in 1..started, ChildStep(g) \/ Hang(g) \/ Die(g)
      PROVE  unlocked' = unlocked
  BY <1>3 DEF ChildStep, TakeRequest, Hand, Answer, Hang, Die
<1>4. ASSUME Restart \/ Shutdown PROVE unlocked'
  BY <1>4 DEF Restart, Shutdown
<1>5. ASSUME NEW c \in Calls, Execute(c) PROVE unlocked' = unlocked
  BY <1>5 DEF Execute
<1> QED
  BY <1>1, <1>2, <1>3, <1>4, <1>5, ThreadNames DEF Next, CallStep, vars

\* Every step keeps the lock with the one call that uses the child.
LEMMA LockStep == LockInv /\ [Next]_vars => LockInv'
<1> SUFFICES ASSUME LockInv, [Next]_vars PROVE LockInv'
  OBVIOUS
<1>1. AnswerInv'
  BY AnswerStep DEF LockInv
<1>2. unlocked => unlocked'
  BY UnlockedForGood
<1>3. ASSUME ~unlocked' PROVE Locked'
  <2>1. ~unlocked /\ ~Restart /\ ~Shutdown
    BY <1>2, <1>3 DEF Restart, Shutdown
  <2>2. ASSUME NEW t \in Threads, ThreadStep(t) PROVE Locked'
    BY <2>1, <2>2, LockedThread, LockedThreadStep
  <2>3. ASSUME (\E c \in Calls : Execute(c)) \/ UNCHANGED vars PROVE Locked'
    <3>1. UNCHANGED <<lock, worker, children, pc, locals, cancelled, outcome, unlocked>>
      BY <2>3 DEF vars, Execute
    <3> QED
      BY <2>1, <3>1
      DEF LockInv, Locked, Holders, WorkerHas, OneChild, Running, worker, children, locals
  <2> QED
    BY <1>3, <2>1, <2>2, <2>3, LockedCallStep, LockedChildStep, ThreadNames DEF Next, CallStep
<1>4. AlwaysAvailable'
  <2> USE LockTypes DEF LockInv, AlwaysAvailable
  <2>1. ASSUME NEW t \in Threads, ThreadStep(t) PROVE AlwaysAvailable'
    BY <1>2, <2>1, ThreadQuiet
  <2>2. ASSUME NEW c \in Calls, Call(c) \/ Receive(c) \/ NoAnswer(c) \/ Cancel(c)
        PROVE  AlwaysAvailable'
    BY <1>2, <2>2 DEF Call, Receive, NoAnswer, Cancel, GiveUp, ThenHalt, End
  <2>3. ASSUME NEW c \in Calls, Acquire(c) PROVE AlwaysAvailable'
    BY <1>2, <2>3 DEF Acquire, End, Holders
  <2>4. ASSUME NEW c \in Calls, Send(c) PROVE AlwaysAvailable'
    BY <1>2, <2>4 DEF Send, End, WorkerHas
  <2>5. ASSUME NEW g \in 1..started, ChildStep(g) \/ Hang(g) \/ Die(g)
        PROVE  AlwaysAvailable'
    BY <1>2, <2>5 DEF ChildStep, TakeRequest, Hand, Answer, Hang, Die
  <2>6. ASSUME Restart \/ Shutdown PROVE AlwaysAvailable'
    BY <2>6 DEF Restart, Shutdown
  <2>7. ASSUME (\E c \in Calls : Execute(c)) \/ UNCHANGED vars PROVE AlwaysAvailable'
    BY <2>7 DEF vars, Execute
  <2> QED
    BY <2>1, <2>2, <2>3, <2>4, <2>5, <2>6, <2>7, ThreadNames DEF Next, CallStep
<1>5. OneChild'
  BY <1>3 DEF Locked, OneChild
<1> QED BY <1>1, <1>3, <1>4, <1>5 DEF LockInv, Locked

\* Nobody holds the lock at first.
LEMMA LockInit == Init => LockInv
<1> SUFFICES ASSUME Init PROVE LockInv
  OBVIOUS
<1>1. Holders
  BY ThreadNames DEF Init, Holders, Busy
<1>2. WorkerHas
  BY ThreadNames DEF Init, WorkerHas
<1>3. OneChild /\ AlwaysAvailable
  BY DEF Init, OneChild, AlwaysAvailable, Running
<1> QED BY <1>1, <1>2, <1>3, AnswerInit DEF LockInv

\* As long as no shutdown, no reconnection and no cancelled start has run without
\* the lock, at most one child talks to the terminal: the worker's, or the one a
\* halt is about to kill.
THEOREM OneChildRuns == Spec => []OneChild
<1>1. LockInv => OneChild
  BY DEF LockInv
<1> QED BY <1>1, LockInit, LockStep, PTL DEF Spec

\* As long as they have not, every call finds a child to send its request to, or
\* starts one: none is refused as unavailable.
THEOREM CallsFindAChild == Spec => []AlwaysAvailable
<1>1. LockInv => AlwaysAvailable
  BY DEF LockInv
<1> QED BY <1>1, LockInit, LockStep, PTL DEF Spec

-----------------------------------------------------------------------------
(* A call that has failed is not handed to the terminal afterwards.        *)

\* A request stays in the queues its call was sent to until a child takes it.
LEMMA RequestsStep ==
    ASSUME Shape, RequestsKeepTheirQueues, [Next]_vars PROVE RequestsKeepTheirQueues'
<1>0. /\ requests \in [Children -> Seq(Calls)] /\ started \in Nat /\ queues \in 0..made
      /\ working \in [Children -> Calls \union {Nobody}]
      /\ reads \in [Children -> 0..made] /\ pc \in [Threads -> Pc]
      /\ after \in [Threads -> After] /\ sentTo \in [Calls -> 0..made]
      /\ None \notin Children /\ Nobody \notin Calls /\ 0..made \ {None} \subseteq Children
  <2>1. started \in Nat /\ None \notin Children /\ 0..made \ {None} \subseteq Children
    BY BoundsAssumption DEF Shape, TypeOK, Children, None
  <2> QED BY <2>1, ThreadNames DEF Shape, TypeOK
<1> DEFINE Elements == \A q \in Children : \A i \in DOMAIN requests[q] : sentTo[requests[q][i]] = q
           Taken == \A g \in Children :
                        working[g] # Nobody =>
               g <= started /\ reads[g] # None /\ sentTo[working[g]] = reads[g]
           Sent == \A c \in Calls : sentTo[c] # None =>
                       \/ pc[c] \in {"wait", "done"}
                       \/ pc[c] \in {"halt", "kill", "close"} /\ after[c] = "fail"
<1>00. Elements /\ Taken /\ Sent
  BY DEF RequestsKeepTheirQueues
<1> SUFFICES Elements' /\ Taken' /\ Sent'
  BY DEF RequestsKeepTheirQueues
<1> USE <1>0, <1>00, ThreadNames
<1> USE DEF worker, children, locals
<1>1. ASSUME NEW t \in Threads, ThreadStep(t) PROVE Elements' /\ Taken' /\ Sent'
  <2>1. UNCHANGED <<requests, sentTo, working>>
    BY <1>1, ThreadQuiet
  <2>2. \A g \in Children : g <= started => g <= started' /\ reads'[g] = reads[g]
    <3>1. CASE Spawn(t)
      BY <3>1, BoundsAssumption DEF Spawn, Children
    <3>2. CASE ~Spawn(t)
      <4>1. UNCHANGED <<started, reads>>
        BY <1>1, <3>2 DEF ThreadStep, Halt, Kill, CloseHandle, CheckAlive, MakeQueues
      <4> QED BY <4>1
    <3> QED BY <3>1, <3>2
  <2>3. Sent'
    BY <1>1, <2>1
    DEF ThreadStep, Halt, Kill, CloseHandle, CheckAlive, MakeQueues, Spawn, Return, ThenHalt,
        End, Goto
  <2> QED BY <2>1, <2>2, <2>3
<1>2. ASSUME NEW g \in 1..started, TakeRequest(g) PROVE Elements' /\ Taken' /\ Sent'
  <2>1. g \in Children /\ reads[g] \in Children
    BY <1>2, RunningReads, <1>0 DEF TakeRequest, Running
  <2>2. /\ requests[reads[g]] \in Seq(Calls) /\ requests[reads[g]] # <<>>
        /\ working' = [working EXCEPT ![g] = Head(requests[reads[g]])]
        /\ requests' = [requests EXCEPT ![reads[g]] = Tail(@)]
        /\ UNCHANGED <<started, sentTo, reads, pc, after>>
    BY <1>2, <2>1 DEF TakeRequest
  <2>3. /\ Head(requests[reads[g]]) = requests[reads[g]][1]
        /\ 1 \in DOMAIN requests[reads[g]]
        /\ \A i \in DOMAIN Tail(requests[reads[g]]) :
               /\ i + 1 \in DOMAIN requests[reads[g]]
               /\ Tail(requests[reads[g]])[i] = requests[reads[g]][i + 1]
    BY <2>2, HeadTailProperties
  <2>4. Elements'
    BY <2>1, <2>2, <2>3
  <2>5. Taken'
    BY <2>1, <2>2, <2>3
  <2> QED BY <2>2, <2>4, <2>5
<1>3. ASSUME NEW g \in 1..started, Hand(g) \/ Answer(g) \/ Hang(g) \/ Die(g)
      PROVE  Elements' /\ Taken' /\ Sent'
  <2>1. /\ UNCHANGED <<started, requests, sentTo, reads, pc, after>>
        /\ \A h \in Children : working'[h] \in {working[h], Nobody}
    BY <1>3 DEF Hand, Answer, Hang, Die
  <2> QED BY <2>1
<1>4. ASSUME NEW c \in Calls, Send(c) PROVE Elements' /\ Taken' /\ Sent'
  <2>1. CASE process = None \/ queues = None
    <3>1. UNCHANGED <<requests, sentTo, working, started, reads, after>>
      BY <1>4, <2>1 DEF Send
    <3>2. pc' = [pc EXCEPT ![c] = "done"]
      BY <1>4, <2>1 DEF Send, End, Goto
    <3> QED BY <3>1, <3>2
  <2>2. CASE process # None /\ queues # None
    <3>1. /\ requests' = [requests EXCEPT ![queues] = Append(@, c)]
          /\ sentTo' = [sentTo EXCEPT ![c] = queues]
          /\ pc' = [pc EXCEPT ![c] = "wait"]
          /\ UNCHANGED <<started, reads, working, after>>
          /\ queues \in Children /\ requests[queues] \in Seq(Calls)
      BY <1>4, <2>2 DEF Send, Goto
    <3>2. sentTo[c] = None
      BY <1>4 DEF Send
    <3>3. Elements'
      <4>1. \A q \in Children : \A i \in DOMAIN requests[q] : requests[q][i] \in Calls \ {c}
        BY <3>2
      <4>2. \A i \in DOMAIN requests'[queues] :
                \/ i \in DOMAIN requests[queues] /\ requests'[queues][i] = requests[queues][i]
                \/ requests'[queues][i] = c
        BY <3>1
      <4> QED BY <3>1, <4>1, <4>2
    <3>4. Taken'
      <4>1. \A g \in Children : working[g] # Nobody => working[g] # c
        BY <3>2
      <4> QED BY <3>1, <4>1
    <3>5. Sent'
      BY <3>1
    <3> QED BY <3>3, <3>4, <3>5
  <2> QED BY <2>1, <2>2
<1>5. ASSUME NEW c \in Calls, Call(c) \/ Acquire(c) \/ Receive(c) \/ NoAnswer(c) \/ Cancel(c)
      PROVE  Elements' /\ Taken' /\ Sent'
  <2>1. UNCHANGED <<requests, sentTo, working, started, reads>>
    BY <1>5 DEF Call, Acquire, Receive, NoAnswer, Cancel
  <2>2. Sent'
    BY <1>5, <2>1
    DEF Call, Acquire, Receive, NoAnswer, Cancel, GiveUp, ThenHalt, End, Goto
  <2> QED BY <2>1, <2>2
<1>6. ASSUME Restart \/ Shutdown PROVE Elements' /\ Taken' /\ Sent'
  BY <1>6 DEF Restart, Shutdown, ThenHalt, Goto
<1>7. ASSUME (\E c \in Calls : Execute(c)) \/ UNCHANGED vars
      PROVE  Elements' /\ Taken' /\ Sent'
  BY <1>7 DEF vars, Execute
<1> QED
  BY <1>1, <1>2, <1>3, <1>4, <1>5, <1>6, <1>7 DEF Next, CallStep, ChildStep

Late == OneReader /\ DeadBeforeFailed

\* What a step needs of the types and of the lock.
LEMMA LateTypes ==
    ASSUME LateInv, ~unlocked
    PROVE  /\ Shape /\ Holders /\ WorkerHas /\ OneChild /\ OneReader /\ DeadBeforeFailed
           /\ started \in Nat /\ made \in Nat /\ process \in 0..started /\ queues \in 0..made
           /\ 0..started \ {None} \subseteq Children
           /\ child \in [Children -> {"none", "alive", "hung", "dead"}]
           /\ reads \in [Children -> 0..made] /\ closed \subseteq {g \in Children : child[g] = "dead"}
           /\ pc \in [Threads -> Pc] /\ after \in [Threads -> After]
           /\ victim \in [Threads -> 0..started] /\ outcome \in [Calls -> Outcomes]
           /\ sentTo \in [Calls -> 0..made] /\ watched \in [Calls -> 0..started]
           /\ lock \in Calls \union {Nobody}
<1>1. LockInv
  BY DEF LateInv
<1>2. Shape /\ Holders /\ WorkerHas /\ OneChild /\ OneReader /\ DeadBeforeFailed
  BY <1>1 DEF LateInv, LockInv, AnswerInv
<1> QED BY <1>1, <1>2, LockTypes DEF Shape, TypeOK

\* Only the holder of the lock halts, starts or sends.
LEMMA OneHolder ==
    ASSUME LateInv, ~unlocked, NEW c \in Calls, pc[c] \in Busy
    PROVE  /\ c \notin cancelled
           /\ \A d \in Calls : d # c => pc[d] \notin Busy
           /\ \A d \in Calls : d # c /\ pc[d] = "wait" => d \in cancelled
           /\ \A g \in Children : Running(g) =>
                  g = process \/ (g = victim[c] /\ pc[c] = "kill")
<1>1. Holders /\ OneChild
  BY LateTypes
<1>2. /\ c \notin cancelled
      /\ \A d \in Calls : d # c => pc[d] \notin Busy
      /\ \A d \in Calls : d # c /\ pc[d] = "wait" => d \in cancelled
  BY <1>1 DEF Holders, Busy
<1>3. \A t \in Threads : t # c => pc[t] # "kill"
  BY <1>1, <1>2 DEF Holders, Threads, Busy
<1> QED BY <1>1, <1>2, <1>3 DEF OneChild

\* A step of the thread that holds the lock.
LEMMA LateThreadStep ==
    ASSUME LateInv, ~unlocked, NEW c \in Calls, ThreadStep(c) PROVE Late'
<1>0. /\ Shape /\ Holders /\ WorkerHas /\ OneReader /\ DeadBeforeFailed
      /\ started \in Nat /\ made \in Nat /\ process \in 0..started /\ queues \in 0..made
      /\ 0..started \ {None} \subseteq Children
      /\ child \in [Children -> {"none", "alive", "hung", "dead"}]
      /\ reads \in [Children -> 0..made]
      /\ pc \in [Threads -> Pc] /\ after \in [Threads -> After]
      /\ victim \in [Threads -> 0..started] /\ outcome \in [Calls -> Outcomes]
      /\ sentTo \in [Calls -> 0..made] /\ watched \in [Calls -> 0..started]
  BY LateTypes
<1>1. /\ c \in Threads /\ pc[c] \in Busy /\ c \notin cancelled /\ c # Nobody
  BY LockedThread, ThreadNames DEF LateInv
<1>2. /\ \A d \in Calls : d # c => pc[d] \notin Busy
      /\ \A d \in Calls : d # c /\ pc[d] = "wait" => d \in cancelled
      /\ \A g \in Children : Running(g) => g = process \/ (g = victim[c] /\ pc[c] = "kill")
  BY <1>1, OneHolder
<1>3. UNCHANGED <<sentTo, watched, cancelled, unlocked>>
  BY <1>0, <1>1, ThreadQuiet
<1> USE <1>0, <1>1, <1>2, <1>3, ThreadNames
<1> USE DEF Busy, worker, children, locals, None, WatchedDead
<1>6. CASE Halt(c)
  <2>1. /\ pc[c] = "halt" /\ victim' = [victim EXCEPT ![c] = process]
        /\ process' = None /\ UNCHANGED <<child, reads, after>>
        /\ \/ /\ pc' = [pc EXCEPT ![c] = "kill"] /\ outcome' = outcome
           \/ /\ pc' = [pc EXCEPT ![c] = "queues"] /\ outcome' = outcome
           \/ /\ pc' = [pc EXCEPT ![c] = "done"] /\ process = None /\ after[c] = "fail"
    BY <1>6 DEF Halt, Return, End, Goto, Holders
  <2>2. OneReader'
    BY <2>1 DEF OneReader, Running
  <2>3. DeadBeforeFailed'
    BY <2>1 DEF DeadBeforeFailed
  <2> QED BY <2>2, <2>3 DEF Late
<1>7. CASE Kill(c)
  <2>1. OneReader'
    BY <1>7 DEF Kill, Goto, OneReader, Running
  <2>2. DeadBeforeFailed'
    BY <1>7 DEF Kill, Goto, DeadBeforeFailed, Shape, HaltsHaveVictims
  <2> QED BY <2>1, <2>2 DEF Late
<1>8. CASE CloseHandle(c)
  <2>1. /\ pc[c] = "close" /\ UNCHANGED <<process, queues, child, reads, victim, after>>
        /\ \/ pc' = [pc EXCEPT ![c] = "queues"] /\ outcome' = outcome
           \/ /\ pc' = [pc EXCEPT ![c] = "done"] /\ after[c] = "fail"
              /\ outcome' = [outcome EXCEPT ![c] = "failed"]
    BY <1>8 DEF CloseHandle, Return, End, Goto, Holders
  <2>2. OneReader'
    BY <2>1 DEF OneReader, Running
  <2>3. DeadBeforeFailed'
    BY <2>1 DEF DeadBeforeFailed
  <2> QED BY <2>2, <2>3 DEF Late
<1>9. CASE CheckAlive(c)
  <2>1. OneReader'
    BY <1>9 DEF CheckAlive, ThenHalt, Return, End, Goto, OneReader, Running
  <2>2. DeadBeforeFailed'
    BY <1>9 DEF CheckAlive, ThenHalt, Return, End, Goto, DeadBeforeFailed
  <2> QED BY <2>1, <2>2 DEF Late
<1>10. CASE MakeQueues(c)
  <2>1. OneReader'
    BY <1>10 DEF MakeQueues, Goto, OneReader, WorkerHas, Running
  <2>2. DeadBeforeFailed'
    BY <1>10 DEF MakeQueues, Goto, DeadBeforeFailed
  <2> QED BY <2>1, <2>2 DEF Late
<1>11. CASE Spawn(c)
  <2>1. started + 1 \in Children /\ child[started + 1] = "none"
    BY <1>11, SpawnHasQueues DEF Spawn, Shape, ChildrenInOrder
  <2>2. OneReader'
    BY <1>11, <2>1 DEF Spawn, Return, End, Goto, OneReader, WorkerHas, Running
  <2>3. DeadBeforeFailed'
    BY <1>11, <2>1 DEF Spawn, Return, End, Goto, DeadBeforeFailed
  <2> QED BY <2>2, <2>3 DEF Late
<1> QED BY <1>6, <1>7, <1>8, <1>9, <1>10, <1>11 DEF ThreadStep

\* A step of a call outside the threads.
LEMMA LateCallStep ==
    ASSUME LateInv, ~unlocked', NEW c \in Calls,
           \/ Call(c) \/ Acquire(c) \/ Send(c) \/ Receive(c) \/ NoAnswer(c) \/ Cancel(c)
    PROVE  Late'
<1>1. ~unlocked
  BY DEF Call, Acquire, Send, Receive, NoAnswer, Cancel
<1>0. /\ Shape /\ Holders /\ WorkerHas /\ OneReader /\ DeadBeforeFailed
      /\ started \in Nat /\ made \in Nat /\ process \in 0..started /\ queues \in 0..made
      /\ child \in [Children -> {"none", "alive", "hung", "dead"}]
      /\ reads \in [Children -> 0..made] /\ closed \subseteq {g \in Children : child[g] = "dead"}
      /\ pc \in [Threads -> Pc] /\ after \in [Threads -> After]
      /\ victim \in [Threads -> 0..started] /\ outcome \in [Calls -> Outcomes]
      /\ sentTo \in [Calls -> 0..made] /\ watched \in [Calls -> 0..started]
  BY <1>1, LateTypes
<1>2. /\ c \in Threads /\ UNCHANGED <<process, queues, child, reads, victim>>
      /\ \A d \in Calls : d # c => pc'[d] = pc[d]
  BY <1>0, ThreadNames
  DEF Call, Acquire, Send, Receive, NoAnswer, Cancel, GiveUp, ThenHalt, End, Goto, worker,
      children, locals
<1>3. OneReader'
  <2>1. CASE Send(c) /\ process # None /\ queues # None
    <3>1. /\ sentTo' = [sentTo EXCEPT ![c] = queues]
          /\ watched' = [watched EXCEPT ![c] = process]
          /\ pc' = [pc EXCEPT ![c] = "wait"] /\ pc[c] = "send"
      BY <2>1 DEF Send, Goto
    <3>2. \A d \in Calls : pc'[d] # "spawn"
      BY <1>0, <1>1, <1>2, <3>1, OneHolder DEF Busy
    <3>3. \A g \in Children : Running(g) => g = process
      BY <1>1, <3>1, OneHolder DEF Busy
    <3> QED BY <1>0, <1>2, <3>1, <3>2, <3>3 DEF OneReader, Running
  <2>2. CASE ~(Send(c) /\ process # None /\ queues # None)
    <3>1. UNCHANGED <<sentTo, watched>> /\ \A d \in Calls : pc'[d] = "spawn" => pc[d] = "spawn"
      BY <1>0, <1>2, <2>2
      DEF Call, Acquire, Send, Receive, NoAnswer, Cancel, GiveUp, ThenHalt, End, Goto, locals
    <3> QED BY <1>0, <1>2, <3>1 DEF OneReader, Running
  <2> QED BY <2>1, <2>2
<1> USE <1>0, <1>1, <1>2
<1> USE DEF worker, locals, WatchedDead
<1>4. DeadBeforeFailed'
  <2>1. CASE Call(c)
    BY <2>1 DEF Call, Goto, DeadBeforeFailed
  <2>2. CASE Acquire(c)
    BY <2>2 DEF Acquire, End, Goto, DeadBeforeFailed
  <2>3. CASE Send(c)
    BY <2>3 DEF Send, End, Goto, DeadBeforeFailed, WorkerHas
  <2>4. CASE Receive(c)
    <3>1. /\ pc[c] = "wait" /\ UNCHANGED <<watched, cancelled, after>>
          /\ outcome' = outcome \/ outcome' = [outcome EXCEPT ![c] = "ok"]
          /\ pc' = pc \/ pc' = [pc EXCEPT ![c] = "done"]
      BY <2>4 DEF Receive, End, Goto
    <3> QED BY <3>1 DEF DeadBeforeFailed
  <2>5. CASE NoAnswer(c)
    <3>1. UNCHANGED <<watched, cancelled>> /\ pc[c] = "wait"
      BY <2>5 DEF NoAnswer
    <3>2. CASE c \in cancelled
      BY <2>5, <3>1, <3>2 DEF NoAnswer, GiveUp, End, Goto, DeadBeforeFailed
    <3>3. CASE c \notin cancelled /\ watched[c] \in closed
      BY <2>5, <3>1, <3>3 DEF NoAnswer, GiveUp, End, Goto, DeadBeforeFailed
    <3>4. CASE c \notin cancelled /\ watched[c] \notin closed
      <4>1. /\ pc' = [pc EXCEPT ![c] = "halt"] /\ after' = [after EXCEPT ![c] = "fail"]
            /\ outcome' = outcome
        BY <2>5, <3>4 DEF NoAnswer, GiveUp, ThenHalt, Goto
      <4> QED BY <3>1, <3>4, <4>1 DEF DeadBeforeFailed
    <3> QED BY <3>2, <3>3, <3>4
  <2>6. CASE Cancel(c)
    BY <2>6 DEF Cancel, DeadBeforeFailed
  <2> QED BY <2>1, <2>2, <2>3, <2>4, <2>5, <2>6
<1> QED BY <1>3, <1>4 DEF Late

\* A step of a child.
LEMMA LateChildStep ==
    ASSUME LateInv, ~unlocked, NEW g \in 1..started, ChildStep(g) \/ Hang(g) \/ Die(g)
    PROVE  Late'
<1>1. /\ OneReader /\ DeadBeforeFailed /\ g \in Children
      /\ child \in [Children -> {"none", "alive", "hung", "dead"}]
      /\ watched \in [Calls -> 0..started] /\ victim \in [Threads -> 0..started]
      /\ 0..started \ {None} \subseteq Children
  BY LateTypes DEF None
<1>2. /\ UNCHANGED <<worker, reads, pc, locals, cancelled, outcome>>
      /\ \A h \in Children : /\ Running(h)' => Running(h)
                             /\ child[h] = "dead" => child'[h] = "dead"
  BY <1>1 DEF ChildStep, TakeRequest, Hand, Answer, Hang, Die, Running, children
<1>3. OneReader'
  BY <1>1, <1>2 DEF OneReader, worker, locals
<1>4. DeadBeforeFailed'
  BY <1>1, <1>2 DEF DeadBeforeFailed, WatchedDead, worker, locals
<1> QED BY <1>3, <1>4 DEF Late

\* Every step keeps a failed call out of reach of the running child.
LEMMA LateStep == LateInv /\ [Next]_vars => LateInv'
<1> SUFFICES ASSUME LateInv, [Next]_vars PROVE LateInv'
  OBVIOUS
<1>1. LockInv' /\ RequestsKeepTheirQueues'
  BY LockStep, RequestsStep DEF LateInv, LockInv, AnswerInv
<1>2. ASSUME ~unlocked' PROVE Late'
  <2>1. ~unlocked /\ ~Restart /\ ~Shutdown
    BY <1>2, UnlockedForGood DEF LateInv, Restart, Shutdown
  <2>2. ASSUME NEW t \in Threads, ThreadStep(t) PROVE Late'
    BY <2>1, <2>2, LockedThread, LateThreadStep DEF LateInv
  <2>3. ASSUME (\E c \in Calls : Execute(c)) \/ UNCHANGED vars PROVE Late'
    <3>1. UNCHANGED <<worker, children, pc, locals, cancelled, outcome>>
      BY <2>3 DEF vars, Execute
    <3> QED
      BY <2>1, <3>1
      DEF LateInv, Late, OneReader, DeadBeforeFailed, Running, WatchedDead, worker, children,
          locals
  <2> QED
    BY <1>2, <2>1, <2>2, <2>3, LateCallStep, LateChildStep, ThreadNames DEF Next, CallStep
<1> QED BY <1>1, <1>2 DEF LateInv, Late

\* No call has failed at first.
LEMMA LateInit == Init => LateInv
<1> SUFFICES ASSUME Init PROVE LateInv
  OBVIOUS
<1>1. RequestsKeepTheirQueues
  <2>1. \A q \in Children : requests[q] = <<>> /\ DOMAIN requests[q] = {}
    BY DEF Init
  <2> QED BY <2>1 DEF Init, RequestsKeepTheirQueues
<1>2. OneReader /\ DeadBeforeFailed
  BY ThreadNames DEF Init, OneReader, DeadBeforeFailed, Running
<1> QED BY <1>1, <1>2, LockInit DEF LateInv

\* Only the child that has taken a request hands it to the terminal, and that child
\* is dead before the call fails.
LEMMA FailedIsOver ==
    LateInv /\ [Next]_vars =>
        (\A c \in Calls : outcome[c] = "failed" /\ ~unlocked => (c \in handed' <=> c \in handed))
<1> SUFFICES ASSUME LateInv, [Next]_vars, NEW c \in Calls, outcome[c] = "failed", ~unlocked,
                    ~(c \in handed' <=> c \in handed)
             PROVE  FALSE
  OBVIOUS
<1>1. PICK g \in 1..started : Hand(g) /\ working[g] = c
  <2>1. ASSUME NEW t \in Threads, ThreadStep(t) PROVE FALSE
    BY <2>1, ThreadQuiet, LateTypes
  <2> QED
    BY <2>1, ThreadNames
    DEF Next, CallStep, ChildStep, Call, Acquire, Send, Receive, NoAnswer, Cancel, Restart,
        Shutdown, TakeRequest, Hand, Execute, Answer, Hang, Die, children, vars
<1>2. working[g] = c /\ child[g] = "alive" /\ g \in Children
  BY <1>1, LateTypes, RunningReads DEF Hand, LateInv, LockInv, AnswerInv, Shape, TypeOK
<1>3. sentTo[c] = reads[g]
  BY <1>2, ThreadNames DEF LateInv, RequestsKeepTheirQueues
<1>4. watched[c] = g
  BY <1>2, <1>3, LateTypes DEF OneReader, Running
<1>5. child[watched[c]] = "dead"
  BY LateTypes DEF DeadBeforeFailed, WatchedDead
<1> QED BY <1>2, <1>4, <1>5

\* As long as nothing has escaped the lock, nothing of a call that has failed is
\* handed to the terminal afterwards: what it may still execute, it had before.
THEOREM FailedCallsAreOver == Spec => NoLateHandover
<1>1. LateInv /\ [Next]_vars =>
          [\A c \in Calls :
              outcome[c] = "failed" /\ ~unlocked => (c \in handed' <=> c \in handed)]_vars
  BY FailedIsOver
<1> QED BY <1>1, LateInit, LateStep, PTL DEF Spec, NoLateHandover
=============================================================================
