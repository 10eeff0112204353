-------------------------- MODULE Mt5ProcessWorker --------------------------
(***************************************************************************)
(* The child process that alone talks to terminal64.exe.  Callers take the   *)
(* asyncio lock of Mt5ProcessWorker one at a time; what they await (start, *)
(* the wait for the answer, recycle) runs in a thread of its own, which    *)
(* goes on when the caller is cancelled.  A reconnection and the shutdown  *)
(* run restart() and stop() in threads that take no lock.                  *)
(***************************************************************************)
EXTENDS Integers, Sequences, FiniteSets

CONSTANTS
    Calls,          \* calls, one request each: the call is its identifier
    Reconnect,      \* thread of RealMetaTraderService.reconnect
    Stop,           \* thread of RealMetaTraderService.shutdown
    Nobody,
    MaxStarts,      \* bound: children started, and queues made for them
    MaxFaults,      \* bound: children that hang or die
    MaxOrders       \* bound: reconnections, shutdowns and cancellations

Threads == Calls \union {Reconnect, Stop}
Children == 1..MaxStarts
None == 0

ASSUME BoundsAssumption ==
    MaxStarts \in Nat /\ MaxFaults \in Nat /\ MaxOrders \in Nat
ASSUME ThreadsAssumption ==
    Reconnect \notin Calls /\ Stop \notin Calls /\ Reconnect # Stop
    /\ Nobody \notin Threads

VARIABLES
    lock,               \* the asyncio lock of the worker
    process, queues,    \* self._process, self._requests and self._responses
    stopping,           \* self._stopping
    made, started,      \* pairs of queues made, children started
    requests, responses,            \* contents of each pair of queues
    child, closed, reads,           \* of each child: state, handle closed, queues
    working,                        \* request it is busy with
    handed,             \* calls that terminal64.exe has been given
    pc, after,          \* of each thread: step, and step after a halt
    victim,             \* child that a halt has taken
    sentTo, watched,    \* queues and child of a call's wait
    cancelled, outcome, executed,   \* of each call
    faults, ordered,
    unlocked            \* some start or halt has run without the lock

worker == <<process, queues, stopping, made, started>>
children == <<requests, responses, child, closed, reads, working, handed>>
locals == <<victim, after, sentTo, watched>>
bounds == <<faults, ordered>>
vars == <<lock, worker, children, pc, locals, cancelled, outcome, executed, bounds,
          unlocked>>

Pc == {"idle", "lock", "alive", "halt", "kill", "close", "queues", "spawn",
       "send", "wait", "done"}
After == {"queues", "alive", "fail", "done"}
Outcomes == {"none", "ok", "failed", "unavailable"}

TypeOK ==
    /\ lock \in Calls \union {Nobody}
    /\ process \in 0..started /\ queues \in 0..made
    /\ stopping \in BOOLEAN
    /\ made \in 0..MaxStarts /\ started \in 0..made
    /\ requests \in [Children -> Seq(Calls)] /\ responses \in [Children -> Seq(Calls)]
    /\ child \in [Children -> {"none", "alive", "hung", "dead"}]
    /\ closed \subseteq {g \in Children : child[g] = "dead"}
    /\ reads \in [Children -> 0..made]
    /\ working \in [Children -> Calls \union {Nobody}]
    /\ handed \subseteq Calls
    /\ pc \in [Threads -> Pc] /\ after \in [Threads -> After]
    /\ victim \in [Threads -> 0..started]
    /\ sentTo \in [Calls -> 0..made] /\ watched \in [Calls -> 0..started]
    /\ cancelled \subseteq Calls
    /\ outcome \in [Calls -> Outcomes]
    /\ executed \in [Calls -> Nat]
    /\ unlocked \in BOOLEAN

Init ==
    /\ lock = Nobody
    /\ process = None /\ queues = None /\ stopping = FALSE
    /\ made = 0 /\ started = 0
    /\ requests = [g \in Children |-> <<>>] /\ responses = [g \in Children |-> <<>>]
    /\ child = [g \in Children |-> "none"] /\ closed = {}
    /\ reads = [g \in Children |-> None]
    /\ working = [g \in Children |-> Nobody] /\ handed = {}
    /\ pc = [t \in Threads |-> "idle"] /\ after = [t \in Threads |-> "done"]
    /\ victim = [t \in Threads |-> None]
    /\ sentTo = [c \in Calls |-> None] /\ watched = [c \in Calls |-> None]
    /\ cancelled = {}
    /\ outcome = [c \in Calls |-> "none"] /\ executed = [c \in Calls |-> 0]
    /\ faults = 0 /\ ordered = 0
    /\ unlocked = FALSE

-----------------------------------------------------------------------------
(* The child process.                                                      *)

Running(g) == child[g] \in {"alive", "hung"}
Alive == process # None /\ Running(process)

TakeRequest(g) ==
    /\ child[g] = "alive" /\ working[g] = Nobody
    /\ requests[reads[g]] # <<>>
    /\ working' = [working EXCEPT ![g] = Head(requests[reads[g]])]
    /\ requests' = [requests EXCEPT ![reads[g]] = Tail(@)]
    /\ UNCHANGED <<lock, worker, responses, child, closed, reads, handed, pc, locals,
                   cancelled, outcome, executed, bounds, unlocked>>
\* The child calls the MetaTrader5 package, which gives the request to
\* terminal64.exe, a process of its own.
Hand(g) ==
    /\ child[g] = "alive" /\ working[g] # Nobody
    /\ working[g] \notin handed
    /\ handed' = handed \union {working[g]}
    /\ UNCHANGED <<lock, worker, requests, responses, child, closed, reads, working,
                   pc, locals, cancelled, outcome, executed, bounds, unlocked>>
\* The terminal does what it was given, sooner or later, whatever has become of
\* the child.
Execute(c) ==
    /\ c \in handed
    /\ executed[c] = 0
    /\ executed' = [executed EXCEPT ![c] = 1]
    /\ UNCHANGED <<lock, worker, children, pc, locals, cancelled, outcome,
                   bounds, unlocked>>
Answer(g) ==
    /\ child[g] = "alive" /\ working[g] # Nobody
    /\ executed[working[g]] = 1
    /\ responses' = [responses EXCEPT ![reads[g]] = Append(@, working[g])]
    /\ working' = [working EXCEPT ![g] = Nobody]
    /\ UNCHANGED <<lock, worker, requests, child, closed, reads, handed, pc, locals,
                   cancelled, outcome, executed, bounds, unlocked>>
\* The terminal is mute, or the process dies of itself.
Hang(g) ==
    /\ child[g] = "alive"
    /\ faults < MaxFaults /\ faults' = faults + 1
    /\ child' = [child EXCEPT ![g] = "hung"]
    /\ UNCHANGED <<lock, worker, requests, responses, closed, reads, working, handed, pc,
                   locals, cancelled, outcome, executed, ordered, unlocked>>
Die(g) ==
    /\ Running(g)
    /\ faults < MaxFaults /\ faults' = faults + 1
    /\ child' = [child EXCEPT ![g] = "dead"]
    /\ UNCHANGED <<lock, worker, requests, responses, closed, reads, working, handed, pc,
                   locals, cancelled, outcome, executed, ordered, unlocked>>

-----------------------------------------------------------------------------
(* _halt and start, in the thread that runs them.                          *)

Goto(t, step) == pc' = [pc EXCEPT ![t] = step]
ThenHalt(t, step) == Goto(t, "halt") /\ after' = [after EXCEPT ![t] = step]
Free(c) == lock' = IF lock = c THEN Nobody ELSE lock
End(c, result) ==
    /\ Goto(c, "done")
    /\ outcome' = [outcome EXCEPT ![c] = IF c \in cancelled THEN @ ELSE result]
    /\ Free(c)

\* The thread is back in its caller; a cancelled caller is no longer there.
Return(t, step) ==
    IF t \in cancelled
    THEN End(t, "none")
    ELSE IF step = "fail"
    THEN End(t, "failed")
    ELSE Goto(t, step) /\ UNCHANGED <<lock, outcome>>

\* _halt: the worker forgets its child and its queues, then kills the child,
\* then closes the queues and the handle.
Halt(t) ==
    /\ pc[t] = "halt"
    /\ victim' = [victim EXCEPT ![t] = process]
    /\ process' = None /\ queues' = None
    /\ IF process = None
       THEN Return(t, after[t])
       ELSE Goto(t, "kill") /\ UNCHANGED <<lock, outcome>>
    /\ UNCHANGED <<stopping, made, started, children, after, sentTo, watched,
                   cancelled, executed, bounds, unlocked>>
Kill(t) ==
    /\ pc[t] = "kill"
    /\ child' = [child EXCEPT ![victim[t]] = "dead"]
    /\ Goto(t, "close")
    /\ UNCHANGED <<lock, worker, requests, responses, closed, reads, working, handed,
                   locals, cancelled, outcome, executed, bounds, unlocked>>
CloseHandle(t) ==
    /\ pc[t] = "close"
    /\ closed' = closed \union {victim[t]}
    /\ Return(t, after[t])
    /\ UNCHANGED <<worker, requests, responses, child, reads, working, handed, locals,
                   cancelled, executed, bounds, unlocked>>

\* start: nothing if the child runs; otherwise a halt, new queues, a new child,
\* which gets the queues the worker holds at that moment.
CheckAlive(t) ==
    /\ pc[t] = "alive"
    /\ IF Alive
       THEN Return(t, IF t \in Calls THEN "send" ELSE "done") /\ UNCHANGED after
       ELSE ThenHalt(t, "queues") /\ UNCHANGED <<lock, outcome>>
    /\ UNCHANGED <<worker, children, victim, sentTo, watched, cancelled, executed,
                   bounds, unlocked>>
MakeQueues(t) ==
    /\ pc[t] = "queues"
    /\ made < MaxStarts
    /\ made' = made + 1
    /\ queues' = made'
    /\ stopping' = FALSE
    /\ Goto(t, "spawn")
    /\ UNCHANGED <<lock, process, started, children, locals, cancelled, outcome,
                   executed, bounds, unlocked>>
Spawn(t) ==
    /\ pc[t] = "spawn"
    /\ started' = started + 1
    /\ process' = started'
    /\ reads' = [reads EXCEPT ![started'] = queues]
    /\ child' = [child EXCEPT ![started'] = IF queues = None THEN "dead" ELSE "alive"]
    /\ Return(t, IF t \in Calls THEN "send" ELSE "done")
    /\ UNCHANGED <<queues, stopping, made, requests, responses, closed, working, handed,
                   locals, cancelled, executed, bounds, unlocked>>

-----------------------------------------------------------------------------
(* call and _exchange.                                                     *)

Call(c) ==
    /\ pc[c] = "idle"
    /\ Goto(c, "lock")
    /\ UNCHANGED <<lock, worker, children, locals, cancelled, outcome, executed,
                   bounds, unlocked>>
SendWithoutStart(c) ==
    /\ pc[c] = "lock"
    /\ lock = Nobody
    /\ Goto(c, "send") /\ lock' = c
    /\ UNCHANGED <<worker, children, locals, cancelled, outcome, executed,
                   bounds, unlocked>>
AcquireUnlocked(c) ==
    /\ pc[c] = "lock"
    /\ Goto(c, IF Alive THEN "send" ELSE "alive")
    /\ UNCHANGED <<lock, worker, children, locals, cancelled, outcome, executed,
                   bounds, unlocked>>
Acquire(c) ==
    /\ pc[c] = "lock"
    /\ lock = Nobody
    /\ IF Alive
       THEN Goto(c, "send") /\ lock' = c /\ UNCHANGED outcome
       ELSE IF stopping
       THEN End(c, "unavailable")
       ELSE Goto(c, "alive") /\ lock' = c /\ UNCHANGED outcome
    /\ UNCHANGED <<worker, children, locals, cancelled, executed, bounds, unlocked>>
Send(c) ==
    /\ pc[c] = "send"
    /\ IF process = None \/ queues = None
       THEN /\ End(c, "unavailable")
            /\ UNCHANGED <<requests, sentTo, watched>>
       ELSE /\ requests' = [requests EXCEPT ![queues] = Append(@, c)]
            /\ sentTo' = [sentTo EXCEPT ![c] = queues]
            /\ watched' = [watched EXCEPT ![c] = process]
            /\ Goto(c, "wait")
            /\ UNCHANGED <<lock, outcome>>
    /\ UNCHANGED <<worker, responses, child, closed, reads, working, handed, victim, after,
                   cancelled, executed, bounds, unlocked>>

\* _wait_response takes whatever comes and throws away what is not its own.
AnyAnswer(c, answer) == TRUE
IsMine(c, answer) == answer = c
Receive(c) ==
    /\ pc[c] = "wait"
    /\ responses[sentTo[c]] # <<>>
    /\ watched[c] \notin closed
    /\ responses' = [responses EXCEPT ![sentTo[c]] = Tail(@)]
    /\ IF IsMine(c, Head(responses[sentTo[c]]))
       THEN End(c, "ok")
       ELSE UNCHANGED <<lock, pc, outcome>>
    /\ UNCHANGED <<worker, requests, child, closed, reads, working, handed, locals,
                   cancelled, executed, bounds, unlocked>>

\* No answer: the deadline is over, the child is dead, or the worker stops.  The
\* call recycles the worker, then fails; it fails at once if the handle of its
\* child is closed, and its thread just ends if the call was cancelled.
FailAtOnce(c) == End(c, "failed") /\ UNCHANGED after
GiveUp(c) ==
    IF c \in cancelled \/ watched[c] \in closed
    THEN End(c, "failed") /\ UNCHANGED after
    ELSE ThenHalt(c, "fail") /\ UNCHANGED <<lock, outcome>>
NoDeadline(c) ==
    /\ pc[c] = "wait"
    /\ ~Running(watched[c]) \/ stopping
    /\ GiveUp(c)
    /\ UNCHANGED <<worker, children, victim, sentTo, watched, cancelled, executed,
                   bounds, unlocked>>
NoAnswer(c) ==
    /\ pc[c] = "wait"
    /\ GiveUp(c)
    /\ UNCHANGED <<worker, children, victim, sentTo, watched, cancelled, executed,
                   bounds, unlocked>>

\* The task of the caller is cancelled: the lock is free, the thread goes on.
Cancel(c) ==
    /\ ordered < MaxOrders /\ ordered' = ordered + 1
    /\ pc[c] \in {"alive", "halt", "kill", "close", "queues", "spawn", "wait"}
    /\ c \notin cancelled
    /\ cancelled' = cancelled \union {c}
    /\ unlocked' = (unlocked \/ pc[c] # "wait")
    /\ Free(c)
    /\ UNCHANGED <<worker, children, pc, locals, outcome, executed, faults>>

\* reconnect: restart() is recycle() then start(), without the lock.
Restart ==
    /\ pc[Reconnect] \in {"idle", "done"}
    /\ ordered < MaxOrders /\ ordered' = ordered + 1
    /\ unlocked' = TRUE
    /\ ThenHalt(Reconnect, "alive")
    /\ UNCHANGED <<lock, worker, children, victim, sentTo, watched, cancelled,
                   outcome, executed, faults>>
\* shutdown: stop(), without the lock.
Shutdown ==
    /\ pc[Stop] \in {"idle", "done"}
    /\ ordered < MaxOrders /\ ordered' = ordered + 1
    /\ stopping' = TRUE
    /\ unlocked' = TRUE
    /\ ThenHalt(Stop, "done")
    /\ UNCHANGED <<lock, process, queues, made, started, children, victim, sentTo,
                   watched, cancelled, outcome, executed, faults>>

ThreadStep(t) == \/ Halt(t) \/ Kill(t) \/ CloseHandle(t) \/ CheckAlive(t)
                 \/ MakeQueues(t) \/ Spawn(t)
CallStep(c) == Acquire(c) \/ Send(c) \/ Receive(c) \/ NoAnswer(c) \/ ThreadStep(c)
ChildStep(g) == TakeRequest(g) \/ Hand(g) \/ Answer(g)

Next ==
    \/ \E c \in Calls : Call(c) \/ CallStep(c) \/ Cancel(c) \/ Execute(c)
    \/ Restart \/ Shutdown
    \/ ThreadStep(Reconnect) \/ ThreadStep(Stop)
    \/ \E g \in 1..started : ChildStep(g) \/ Hang(g) \/ Die(g)

Spec == Init /\ [][Next]_vars
\* Threads run, deadlines pass and the lock is handed to every waiter in turn;
\* nothing is asked of the child.
FairSpec ==
    /\ Spec
    /\ \A c \in Calls : WF_vars(CallStep(c)) /\ SF_vars(Acquire(c))
    /\ WF_vars(ThreadStep(Reconnect)) /\ WF_vars(ThreadStep(Stop))

-----------------------------------------------------------------------------
(* Properties.                                                             *)

\* A call that succeeds has the answer to its own request, although an abandoned
\* call leaves its answer in the queue: what it asked has been done.
AnswerIsMine == \A c \in Calls : outcome[c] = "ok" => executed[c] = 1

\* A call that has failed is handed to the terminal no more: the child is dead
\* before the error is raised, so nothing of it is left to send, neither in the
\* queues nor in a child.  What the terminal had before may still be executed
\* afterwards.  This takes the lock: a shutdown, a reconnection or a start whose
\* caller is cancelled run without it.
NoLateHandover ==
    [][\A c \in Calls :
        outcome[c] = "failed" /\ ~unlocked => (c \in handed' <=> c \in handed)]_vars

\* Under the lock there is one child, the worker's or one about to be killed.
OneChild ==
    ~unlocked => \A g \in Children : Running(g) =>
        g = process \/ \E t \in Threads : victim[t] = g /\ pc[t] = "kill"

\* Under the lock no call is refused without being sent: after a hang, a death or
\* an abandoned wait the next call has a child.
AlwaysAvailable == \A c \in Calls : outcome[c] = "unavailable" => unlocked

\* Every call ends, whatever the terminal does.
EveryCallEnds == \A c \in Calls : pc[c] = "lock" ~> pc[c] = "done"
=============================================================================
