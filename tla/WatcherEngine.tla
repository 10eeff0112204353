---------------------------- MODULE WatcherEngine ----------------------------
(***************************************************************************)
(* The market watcher at work: the analysis loop judges each instrument in *)
(* turn, creates a signal, announces it and hands it to the trading        *)
(* engine; analyses asked for over HTTP do the same for one instrument;    *)
(* rounds of the life cycle, periodic or asked for, close the open signals *)
(* and announce it.  Surveillances are in the module Surveillance.         *)
(*                                                                         *)
(* A round has one session for all its instruments, committed at its end,  *)
(* while the lock of an instrument is kept only during its own analysis.   *)
(* What a session has written is invisible to the others until then.       *)
(***************************************************************************)
EXTENDS Integers, FiniteSets, Sequences, FiniteSetsExt

CONSTANTS
    Order,          \* the instruments, as a sequence: config.symbols
    Sides,          \* directions a market may favour
    Loop, Requests, \* the analysis loop; POST /watcher/analysis/{symbol}
    Followers,      \* rounds of the life cycle: the loop, POST /watcher/run
    Nobody,
    MaxActive,      \* max_active_signals
    Asked,          \* bound: the instruments requests name
    MaxSignals,     \* bound: rows ever created
    MaxFaults       \* bound: crashes

Symbols == {Order[i] : i \in DOMAIN Order}
Analysts == {Loop} \union Requests
Actors == Analysts \union Followers
Ids == 1..MaxSignals

Committed == "committed"

ASSUME OrderAssumption == Order \in Seq(Symbols) /\ Order # <<>> /\ Asked \subseteq Symbols
ASSUME ActorsAssumption ==
    /\ Loop \notin Requests /\ Analysts \intersect Followers = {}
    /\ Nobody \notin Actors /\ Committed \notin Actors \union {Nobody}
ASSUME BoundsAssumption == MaxActive \in Nat /\ MaxSignals \in Nat /\ MaxFaults \in Nat

\* Scores: below shadow_score, below minimum_score, and from there.
Score == [low |-> 0, shadow |-> 1, minimum |-> 2]
Scores == {Score[band] : band \in DOMAIN Score}

\* Whether a signal is open; WatcherLifecycle follows its statuses one by one.
Open == "OPEN"
Closed == "CLOSED"

VARIABLES
    rows,       \* watcher_signals: of each identifier, a row or nothing
    lock,       \* asyncio.Lock of each instrument
    writer,     \* SQLite's writer
    pc, todo,   \* step of each actor, and the instruments its round has left
    judged,     \* what the analysis under way has decided
    left,       \* open signals a round of the life cycle has still to look at
    moved,      \* signals it has closed, uncommitted
    rotation,   \* scheduler._rotation
    terminal,   \* the terminal answers
    created,    \* rows ever made
    told,       \* signals whose end was announced
    retold,     \* one of them was announced again
    overlapped, \* two rounds of the life cycle ran at the same time
    lost,       \* a session was rolled back
    faults

session == <<judged, left, moved>>
round == <<rotation, terminal>>
channel == <<told, retold>>
history == <<overlapped, lost, faults>>
vars == <<rows, lock, writer, pc, todo, session, round, created, channel, history>>

NoRow == [of |-> Nobody]
Nothing == [kind |-> "nothing"]

Init ==
    /\ rows = [i \in Ids |-> NoRow]
    /\ lock = [s \in Symbols |-> Nobody]
    /\ writer = Nobody
    /\ pc = [a \in Actors |-> "idle"]
    /\ todo = [a \in Analysts |-> <<>>]
    /\ judged = [a \in Analysts |-> Nothing]
    /\ left = [a \in Followers |-> {}]
    /\ moved = [a \in Followers |-> {}]
    /\ rotation = 0 /\ terminal = TRUE
    /\ created = 0
    /\ told = {} /\ retold = FALSE
    /\ overlapped = FALSE /\ lost = FALSE /\ faults = 0

-----------------------------------------------------------------------------
(* Sessions.                                                               *)

Exists(i) == rows[i] # NoRow
Visible(a, i) == Exists(i) /\ rows[i].of \in {a, Committed}
Hidden(a, i) == Exists(i) /\ ~Visible(a, i)

CanWrite(a) == writer \in {a, Nobody}
TakeWriter(a) == CanWrite(a) /\ writer' = a
DropWriter(a) == writer' = IF writer = a THEN Nobody ELSE writer
Goto(a, step) == pc' = [pc EXCEPT ![a] = step]
Busy(kind) == \E a \in kind : pc[a] # "idle"

Forget(actors) ==
    /\ pc' = [a \in Actors |-> IF a \in actors THEN "idle" ELSE pc[a]]
    /\ todo' = [a \in Analysts |-> IF a \in actors THEN <<>> ELSE todo[a]]
    /\ judged' = [a \in Analysts |-> IF a \in actors THEN Nothing ELSE judged[a]]
    /\ left' = [a \in Followers |-> IF a \in actors THEN {} ELSE left[a]]
    /\ moved' = [a \in Followers |-> IF a \in actors THEN {} ELSE moved[a]]

\* session_scope: everything the session wrote is there at once for the others.
CommitWith(a, changes) ==
    /\ pc[a] = "commit"
    /\ rows' = [i \in Ids |->
          IF i \in changes THEN [rows[i] EXCEPT !.status = Closed]
          ELSE IF rows[i].of = a THEN [rows[i] EXCEPT !.of = Committed]
          ELSE rows[i]]
    /\ DropWriter(a)
    /\ Forget({a})
    /\ UNCHANGED <<lock, round, created, channel, history>>
CommitRowsOnly(a) == CommitWith(a, {})
Commit(a) == CommitWith(a, IF a \in Followers THEN moved[a] ELSE {})

RollBack(actors) ==
    /\ rows' = [i \in Ids |-> IF rows[i].of \in actors THEN NoRow ELSE rows[i]]
    /\ lock' = [s \in Symbols |-> IF lock[s] \in actors THEN Nobody ELSE lock[s]]
    /\ Forget(actors)
    /\ lost' = TRUE
    /\ UNCHANGED <<created, channel, overlapped>>

\* The busy timeout of SQLite fails a flush.  The exception is logged and the round
\* goes on, but its session refuses every later use, and its commit.
BusyTimeout(a) ==
    /\ pc[a] \in {"create", "record", "follow"}
    /\ ~CanWrite(a)
    /\ RollBack({a})
    /\ UNCHANGED <<writer, round, faults>>

\* The process dies and starts again.
Crash ==
    /\ faults < MaxFaults
    /\ faults' = faults + 1
    /\ RollBack(Actors)
    /\ writer' = Nobody
    /\ rotation' = 0 /\ terminal' = TRUE

-----------------------------------------------------------------------------
(* Analyses.                                                               *)

\* _rotated: each round begins one instrument further.
FixedOrder == Order
Rotated == SubSeq(Order, rotation + 1, Len(Order)) \o SubSeq(Order, 1, rotation)

BeginRound ==
    /\ pc[Loop] = "idle"
    /\ todo' = [todo EXCEPT ![Loop] = Rotated]
    /\ rotation' = (rotation + 1) % Len(Order)
    /\ terminal' = TRUE
    /\ Goto(Loop, "lock")
    /\ UNCHANGED <<rows, lock, writer, session, created, channel, history>>

Ask(a, s) ==
    /\ pc[a] = "idle"
    /\ todo' = [todo EXCEPT ![a] = <<s>>]
    /\ Goto(a, "lock")
    /\ UNCHANGED <<rows, lock, writer, session, round, created, channel, history>>

\* The terminal stops answering in the middle of a round, until the next one.
TerminalDies ==
    /\ terminal
    /\ pc[Loop] # "idle" /\ Len(todo[Loop]) < Len(Order)
    /\ terminal' = FALSE
    /\ UNCHANGED <<rows, lock, writer, pc, todo, session, rotation, created, channel,
                   history>>

\* portfolio_state: the open signals of one population, as the session sees them.
OpenSignals(a, shadow) ==
    {i \in Ids : Visible(a, i) /\ rows[i].shadow = shadow /\ rows[i].status = Open}

\* risk.evaluate: any rejection prevails over any wait.  `market` is the outcome
\* of the rules that only look at the context.
VerdictBlindToOpen(a, side, score, market, floor, shadow) ==
    IF market = "clear" /\ score >= floor THEN "APPROVED" ELSE "WAIT"
Verdict(a, side, score, market, floor, shadow) ==
    LET open == OpenSignals(a, shadow)
        twin == \E i \in open : rows[i].symbol = Head(todo[a]) /\ rows[i].side = side
        late == market = "unsettled" \/ score < floor \/ Cardinality(open) >= MaxActive
    IN  IF market = "refused" \/ twin THEN "REJECTED"
        ELSE IF late THEN "WAIT" ELSE "APPROVED"

\* _decide, then _create_shadow: a signal; a shadow, when the score was the only
\* obstacle; or nothing but a trace.
Kind(a, side, score, market) ==
    IF Verdict(a, side, score, market, Score.minimum, FALSE) = "APPROVED" THEN "signal"
    ELSE IF Verdict(a, side, score, market, Score.shadow, TRUE) = "APPROVED" THEN "shadow"
    ELSE "nothing"

\* The lock of the instrument, then _analyse up to its decisions.  Without the terminal
\* the context is unusable: the analysis is recorded and no more.
Judge(a) ==
    /\ pc[a] = "lock"
    /\ lock[Head(todo[a])] = Nobody
    /\ lock' = [lock EXCEPT ![Head(todo[a])] = a]
    /\ \/ ~terminal /\ Goto(a, "record") /\ UNCHANGED judged
       \/ /\ terminal
          /\ Goto(a, "create")
          /\ \E side \in Sides, score \in Scores, market \in {"clear", "unsettled", "refused"} :
               LET kind == Kind(a, side, score, market)
               IN  judged' = [judged EXCEPT ![a] =
                     IF kind = "nothing" THEN Nothing
                     ELSE [kind |-> kind, side |-> side,
                           blind |-> {j \in Ids : Hidden(a, j) /\ rows[j].symbol = Head(todo[a])}]]
    /\ UNCHANGED <<rows, writer, todo, left, moved, round, created, channel, history>>

\* _create_signal; then _publish_signal hands it to the trading engine, whether the
\* announcement left or not.  A shadow is only created.
Create(a) ==
    /\ pc[a] = "create"
    /\ IF judged[a] = Nothing \/ created = MaxSignals
       THEN UNCHANGED <<writer, created, rows>>
       ELSE /\ TakeWriter(a)
            /\ created' = created + 1
            /\ rows' = [rows EXCEPT ![created'] =
                  [of |-> a, symbol |-> Head(todo[a]), side |-> judged[a].side,
                   shadow |-> judged[a].kind = "shadow", status |-> Open,
                   blind |-> judged[a].blind]]
    /\ Goto(a, "record")
    /\ UNCHANGED <<lock, todo, session, round, channel, history>>

\* _record, then the lock is released.  A round goes on to its next instrument, and
\* leaves its session after the last one.
Record(a) ==
    /\ pc[a] = "record"
    /\ TakeWriter(a)
    /\ lock' = [lock EXCEPT ![Head(todo[a])] = Nobody]
    /\ todo' = [todo EXCEPT ![a] = Tail(@)]
    /\ judged' = [judged EXCEPT ![a] = Nothing]
    /\ Goto(a, IF Len(todo[a]) = 1 THEN "commit" ELSE "lock")
    /\ UNCHANGED <<rows, left, moved, round, created, channel, history>>

-----------------------------------------------------------------------------
(* Rounds of the life cycle.                                               *)

\* run_once: the open signals are read once, both populations.
BeginFollow(a) ==
    LET open == {i \in Ids : Visible(a, i) /\ rows[i].status = Open}
    IN  /\ pc[a] = "idle"
        /\ open # {}
        /\ left' = [left EXCEPT ![a] = open]
        /\ overlapped' = (overlapped \/ Busy(Followers))
        /\ Goto(a, "follow")
        /\ UNCHANGED <<rows, lock, writer, todo, judged, moved, round, created, channel,
                       lost, faults>>

\* _advance and _apply: nothing to say of this signal, or its end: the event is
\* flushed, then the end announced, except that of a shadow.  The row itself is
\* written with the commit.
Follow(a) ==
    LET i == Min(left[a])
    IN  /\ pc[a] = "follow"
        /\ left' = [left EXCEPT ![a] = @ \ {i}]
        /\ Goto(a, IF left[a] = {i} THEN "commit" ELSE "follow")
        /\ \/ UNCHANGED <<writer, moved, told, retold>>
           \/ /\ TakeWriter(a)
              /\ moved' = [moved EXCEPT ![a] = @ \union {i}]
              /\ told' = IF rows[i].shadow THEN told ELSE told \union {i}
              /\ retold' = (retold \/ (~rows[i].shadow /\ i \in told))
        /\ UNCHANGED <<rows, lock, todo, judged, round, created, history>>

-----------------------------------------------------------------------------
Begin ==
    \/ BeginRound
    \/ \E a \in Requests, s \in Asked : Ask(a, s)
    \/ \E a \in Followers : BeginFollow(a)
Step(a) ==
    \/ a \in Analysts /\ (Create(a) \/ Record(a))
    \/ a \in Followers /\ Follow(a)
    \/ Commit(a)
    \/ BusyTimeout(a)

Next ==
    \/ Begin \/ TerminalDies \/ Crash
    \/ \E a \in Analysts : Judge(a)
    \/ \E a \in Actors : Step(a)

Spec == Init /\ [][Next]_vars

\* The loop starts its rounds again, the event loop runs every ready coroutine, and
\* asyncio.Lock serves its waiters in order.  Requests, followers and the troubles of
\* the terminal are not forced to come.
FairSpec ==
    /\ Spec
    /\ WF_vars(BeginRound)
    /\ \A a \in Actors : WF_vars(Step(a))
    /\ \A a \in Analysts : SF_vars(Judge(a))

-----------------------------------------------------------------------------
(* Properties.                                                             *)

Row == [of : Analysts \union {Committed}, symbol : Symbols, side : Sides, shadow : BOOLEAN,
        status : {Open, Closed}, blind : SUBSET Ids]

Judgement == [kind : {"signal", "shadow"}, side : Sides, blind : SUBSET Ids]
Steps == {"idle", "lock", "create", "record", "follow", "commit"}

TypeOK ==
    /\ rows \in [Ids -> Row \union {NoRow}]
    /\ lock \in [Symbols -> Analysts \union {Nobody}]
    /\ writer \in Actors \union {Nobody}
    /\ pc \in [Actors -> Steps] /\ todo \in [Analysts -> Seq(Symbols)]
    /\ judged \in [Analysts -> Judgement \union {Nothing}]
    /\ left \in [Followers -> SUBSET Ids] /\ moved \in [Followers -> SUBSET Ids]
    /\ created \in 0..MaxSignals /\ rotation \in 0..(Len(Order) - 1)
    /\ told \subseteq Ids /\ faults \in 0..MaxFaults
    /\ {terminal, retold, overlapped, lost} \subseteq BOOLEAN

\* Two signals of one side live on one instrument only if the session that created
\* the second could not see the first: within a session, and from one round to the
\* next, the anti-duplicate of the population holds.
Twins(i, j) ==
    /\ rows[i].of = Committed /\ rows[j].of = Committed
    /\ rows[i].status = Open /\ rows[j].status = Open
    /\ \A field \in {"symbol", "side", "shadow"} : rows[i][field] = rows[j][field]
TwinsWereBlind ==
    \A i, j \in Ids :
        (i < j /\ Exists(i) /\ Exists(j)) => (Twins(i, j) => i \in rows[j].blind)

\* The end of a signal is announced once, although the row that remembers it is only
\* written when the whole round commits: unless that commit was lost, or two rounds
\* of the life cycle ran at the same time.
ToldOnce == retold => lost \/ overlapped

\* Whatever the terminal does after the first reading of a round, each instrument is
\* read there again and again.
EveryInstrumentRead ==
    \A s \in Symbols : []<>(pc[Loop] = "create" /\ Head(todo[Loop]) = s)
=============================================================================
