-------------------------- MODULE AutonomousCycle --------------------------
(***************************************************************************)
(* Rounds of the autonomous intelligence and the switches of the           *)
(* application.  A round reads the switches, scans the watchlist, judges   *)
(* one opportunity per instrument, records its decision, simulates it or   *)
(* hands it to the trading engine, and commits all of it at the end.       *)
(*                                                                         *)
(* The settings object the round has read stays alive in its session:      *)
(* every later read of the round, the RiskManager's included, gets that    *)
(* object back.  The row of the pause is not kept alive: it is read again. *)
(* From the first row of the scan to the commit the session is SQLite's    *)
(* writer, and the switches wait.                                          *)
(***************************************************************************)
EXTENDS Integers, Sequences

CONSTANTS
    Watchlist,      \* the instruments scanned, as a sequence
    MaxClicks,      \* bound: changes of the switches
    MaxRounds       \* bound: rounds begun

Modes == {"PAPER", "DEMO", "LIVE"}
Accounts == {"demo", "real", "unknown"}
\* 0: below the floor of the guards; 1: waits; 2: entry; 3: above.
Scores == 0..3
Floor == 0      \* MARGINAL_FLOOR
Wait == 1       \* thresholds.wait
Entry == 2      \* thresholds.entry
Obstacles == {"none", "review", "refused"}   \* worst_action of the other guards

VARIABLES
    switches,   \* risk_settings and ai_settings, committed
    paused,     \* trading_state.paused
    peakOf,     \* mode of the account peak_equity was measured on, or none
    terminal,   \* kind of the account MetaTrader 5 is connected to
    asking,     \* the passage to LIVE is awaiting the terminal
    pc, todo,   \* step of the round, instruments it has left
    seen,       \* the settings object of its session
    orders,     \* orders sent
    sims,       \* simulations of the round under way: its dossiers
    clicks, rounds

desk == <<switches, paused, peakOf, terminal, asking, clicks>>
cycle == <<pc, todo, seen, orders, sims, rounds>>
cycleVars == <<desk, cycle>>

Switches == [mode : Modes, unlocked : BOOLEAN, auto : BOOLEAN, trust : BOOLEAN]
NoPeak == "none"

Init ==
    /\ switches = [mode |-> "DEMO", unlocked |-> FALSE, auto |-> TRUE, trust |-> TRUE]
    /\ paused = FALSE /\ peakOf = NoPeak
    /\ terminal = "demo" /\ asking = FALSE
    /\ pc = "idle" /\ todo = <<>> /\ seen = switches
    /\ orders = {} /\ sims = {}
    /\ clicks = 0 /\ rounds = 0

-----------------------------------------------------------------------------
(* The application.                                                        *)

Writing == pc = "analyse"
Click ==
    /\ clicks < MaxClicks /\ ~Writing
    /\ clicks' = clicks + 1
    /\ UNCHANGED cycle
Set(field, value) == switches' = [switches EXCEPT ![field] = value]

Unlock == Click /\ Set("unlocked", TRUE) /\ UNCHANGED <<paused, peakOf, terminal, asking>>

\* lock_live: a session at LIVE falls back to DEMO.  The baselines stay.
Lock ==
    /\ Click
    /\ switches' = [switches EXCEPT !.unlocked = FALSE,
                                    !.mode = IF @ = "LIVE" THEN "DEMO" ELSE @]
    /\ UNCHANGED <<paused, peakOf, terminal, asking>>

\* set_execution_mode: the lock is checked, then the account of the terminal is
\* awaited, then the mode written; other requests come in between.
AskLive ==
    /\ ~asking /\ clicks < MaxClicks
    /\ switches.unlocked /\ switches.mode # "LIVE"
    /\ asking' = TRUE
    /\ UNCHANGED <<switches, paused, peakOf, terminal, clicks, cycle>>
EnterMode(mode) ==
    /\ Click
    /\ Set("mode", mode)
    /\ peakOf' = IF mode = switches.mode THEN peakOf ELSE NoPeak
    /\ UNCHANGED <<paused, terminal>>
GoLive == asking /\ terminal # "unknown" /\ EnterMode("LIVE") /\ asking' = FALSE
LeaveLive == (EnterMode("PAPER") \/ EnterMode("DEMO")) /\ UNCHANGED asking

\* POST /trading/auto; shadow mode and the permissions of the intelligence; pause and
\* resume.
Toggle ==
    /\ Click
    /\ \/ \E field \in {"auto", "trust"} : Set(field, ~switches[field]) /\ UNCHANGED paused
       \/ paused' = ~paused /\ UNCHANGED switches
    /\ UNCHANGED <<peakOf, terminal, asking>>

\* The user connects the terminal to another account.
Connect(kind) ==
    /\ pc = "idle" /\ terminal' = kind
    /\ UNCHANGED <<switches, paused, peakOf, asking, clicks, cycle>>

\* _monitor_once: a new peak of the account of the mode.
Monitor ==
    /\ ~Writing
    /\ peakOf' = IF peakOf = NoPeak THEN switches.mode ELSE peakOf
    /\ UNCHANGED <<switches, paused, terminal, asking, clicks, cycle>>

\* The Bridge starts again: a LIVE mode that is not unlocked becomes DEMO.
Restart ==
    /\ rounds < MaxRounds
    /\ pc' = "idle" /\ todo' = <<>> /\ sims' = {}
    /\ asking' = FALSE
    /\ LET falls == switches.mode = "LIVE" /\ ~switches.unlocked
       IN  /\ switches' = IF falls THEN [switches EXCEPT !.mode = "DEMO"] ELSE switches
           /\ peakOf' = IF falls THEN NoPeak ELSE peakOf
    /\ UNCHANGED <<paused, terminal, clicks, seen, orders, rounds>>

-----------------------------------------------------------------------------
(* A round.                                                                *)

\* run_cycle under the lock of the loop: the settings are read, then the terminal is.
BeginRound ==
    /\ pc = "idle" /\ rounds < MaxRounds
    /\ rounds' = rounds + 1
    /\ seen' = switches
    /\ pc' = "scan"
    /\ sims' = {}
    /\ UNCHANGED <<desk, todo, orders>>

\* run_scan keeps a snapshot of each instrument that answers.
Scan ==
    /\ pc = "scan"
    /\ pc' = "analyse"
    /\ \E from \in 1..Len(Watchlist) : todo' = SubSeq(Watchlist, from, Len(Watchlist))
    /\ UNCHANGED <<desk, seen, orders, sims, rounds>>

\* shadow_mode
Observes == ~seen.trust \/ ~seen.auto

\* decide: the guards, then the thresholds.  Observing is an obstacle of its own.
Highest(a, b) == IF a > b THEN a ELSE b
Lowest(a, b) == IF a < b THEN a ELSE b
Tradable(dossier, minimum) ==
    /\ ~Observes
    /\ dossier.obstacle = "none"
    /\ dossier.score >= Wait
    /\ dossier.score >= Highest(Entry, minimum)

\* _analyse_symbol: what is simulated.  An observed decision is kept whatever it says,
\* with levels only when it is tradable; another one, when a lower threshold is
\* enough to make it tradable.
Simulated(dossier) ==
    IF Observes THEN Tradable(dossier, dossier.minimum)
    ELSE /\ ~Tradable(dossier, dossier.minimum)
         /\ Tradable(dossier, Lowest(dossier.minimum, Floor))

\* RiskManager.evaluate, its switches and its account.
GateBlindToLock(now) == seen.auto /\ ~now
Gate(now) ==
    /\ seen.auto
    /\ ~now
    /\ CASE seen.mode = "LIVE" -> seen.unlocked
         [] seen.mode = "DEMO" -> terminal = "demo"
         [] OTHER -> TRUE

\* execute_decision hands the plan to the engine when intelligence.auto_trade is on;
\* the other checks of the engine may still refuse it.
Order == [mode |-> seen.mode, account |-> IF seen.mode = "PAPER" THEN "paper" ELSE terminal,
          wasUnlocked |-> seen.unlocked, isUnlocked |-> switches.unlocked]
Analyse ==
    /\ pc = "analyse" /\ todo # <<>>
    /\ todo' = Tail(todo)
    /\ \/ UNCHANGED <<orders, sims>>          \* no set-up
       \/ \E dossier \in [score : Scores, obstacle : Obstacles, minimum : {Floor, Entry, 3}] :
            /\ sims' = IF Simulated(dossier) THEN sims \union {dossier} ELSE sims
            /\ \/ /\ Tradable(dossier, dossier.minimum) /\ Gate(paused)
                  /\ orders' = orders \union {Order}
               \/ UNCHANGED orders
    /\ UNCHANGED <<desk, pc, seen, rounds>>

\* The session commits, or an error has made it refuse its commit.
EndRound ==
    /\ pc = "analyse" /\ todo = <<>>
    /\ pc' = "idle"
    /\ sims' = {}
    /\ UNCHANGED <<desk, todo, seen, orders, rounds>>

Next ==
    \/ Unlock \/ Lock \/ AskLive \/ GoLive \/ LeaveLive \/ Toggle
    \/ \E kind \in Accounts : Connect(kind)
    \/ Monitor \/ Restart
    \/ BeginRound \/ Scan \/ Analyse \/ EndRound

Spec == Init /\ [][Next]_cycleVars

-----------------------------------------------------------------------------
(* Properties.                                                             *)

\* The two-step unlocking and its race with the lock never let an order reach a real
\* account unless the round that sent it began with the live mode unlocked.
RealWasUnlocked == \A o \in orders : o.account = "real" => o.mode = "LIVE" /\ o.wasUnlocked

\* Locking the live mode stops the next order of a round already begun.
LockIsImmediate == \A o \in orders : o.account = "real" => o.isUnlocked
=============================================================================
