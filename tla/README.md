# TradePilot Bridge: a TLA+ model of the trading core

TradePilot reads trading signals in Telegram channels and turns them into
MetaTrader 5 orders. The program has two parts: the *Bridge*
(`bridge/app`, Python, one asyncio process on the trader's Windows machine) and
a mobile application (`mobile/lib`, Flutter) that shows what the Bridge does and
sends it orders over HTTP. Everything that can lose money is in the Bridge: this
project models it, the application appears as the source of HTTP requests.

1. [Inventory](#1-inventory)
2. [Plan](#2-plan)
3. [Conventions shared by the modules](#3-conventions-shared-by-the-modules)
4. [The modules](#4-the-modules)
5. [Runs, bounds and fairness](#5-runs-bounds-and-fairness)
6. [Proofs](#6-proofs)
7. [Divergences found](#7-divergences-found)
8. [What is not modelled, and why](#8-what-is-not-modelled-and-why)

## 1. Inventory

All coroutines of the Bridge share one event loop; they interact through the
database (one session per message, request or loop cycle), through a few asyncio
locks, and through the singletons `trading_engine`, `telegram_runtime`,
`watcher_scheduler`, `intelligence_scheduler`, `event_bus`.

| component | state | operations | interacts with | hard behaviours | what makes it correct |
|---|---|---|---|---|---|
| Trading engine (`services/trading/engine.py`) | `_lock`, `mt5_connected`, signal statuses | `process_signal`, `approve_manually`, `reject_manually`, `_monitor_once`, `pause`, `resume`, `close_all_positions`, `_handle_follow_up` | called by the pipeline, the watcher, the API; calls risk, executor, position manager | lock released before the commit; approvals racing an expiry; follow-ups outside the lock | one evaluation at a time; limits of exposure and risk; one execution per signal; every task ends |
| Order executor (`services/trading/executor.py`) | orders placed so far | one `order_check` and `order_send` per leg, then a row | terminal, database | lost answer, refusal in the middle of a plan, crash before the commit | every live order has a row |
| Position manager (`services/trading/position_manager.py`) | `trades`, `orders` rows | `sync_with_broker`, `_reconcile_pending`, `apply_follow_up`, stops, partial closes | terminal, rows | snapshots older than the rows or than each other | a row says closed or cancelled only if it is true; a stop never goes back |
| Daily ledger (`repositories/settings_repo.py`) | `TradingState` | day rollover, counting, external move, pause | monitor, follow-ups, API | writers in several sessions; late deals; deposits | each closure counted once; the marks of the day move only with money from outside |
| Sessions (`database/session.py`) | write buffers, SQLite writer | flush, commit, rollback | everyone | writer held from the first flush; busy timeout | (assumed by all the others) |
| Telegram intake (`services/telegram/listener.py`, `services/signals/pipeline.py`) | `telegram_messages`, cursor of each channel, `signals` | new and edited messages, catch-up, analysis | Telegram, engine, publisher registry | parallel handlers, lost updates, restarts, own messages read back | one order per message, none for an announcement, nothing missed |
| MT5 worker (`services/mt5/process_worker.py`) | child process, queues, `_stopping` | `call`, `start`, `recycle`, `restart`, `stop` | every call to the terminal | mute terminal, cancelled callers, threads without the lock | the right answer to each call, one child, no request sent late |
| MT5 service (`services/mt5/real_service.py`) | `_initialised` | `positions`, `orders`, `order_send`, `reconnect` | worker | several readings are not one snapshot | (external part of the models) |
| Risk manager (`services/risk`) | none | `evaluate` | account, rows, channel settings | reads state that others are changing | an order never exceeds the limits |
| Watcher (`watcher/`) | `watcher_signals`, per-symbol locks, four loops | analyse, publish, execute, follow the life of a signal, learn | market data, Telegram, engine | one session for a whole round; candles read again at each round; announcements before the commit | one signal at a time per instrument; each change announced once; reading candles adds no gain |
| Decision (`services/decision`) | active reasons, error window, streak | `trip`, `clear`, `reset`, guards, verdict | intelligence cycle | a shared reason for several instruments; structural reasons must stay | no score overrides a guard |
| Intelligence (`services/intelligence`) | loop locks, `opportunities`, `decisions` | scan, news, calendar rounds | decision, engine, notifications | periodic and manual rounds | one round at a time; a decision executed once |
| AI and OpenRouter (`services/ai`, `services/openrouter`) | breaker of the client, models | complete, consensus, fallback | parser, decision | failures, late successes | a trade that requires the AI waits for review without it |
| Notifications (`services/notifications`) | `notification_events`, device tokens | record, deduplicate, push | everyone | push sent before the commit | no duplicate within the window, hourly quota |
| News, calendar | tables of dispatches and events | collect, deduplicate, remind | notifications, watcher | parallel collections | each reminder once |
| Market data, scanner, analysis, strategies | caches | pure computations | watcher, intelligence | stale cache | no look-ahead |
| Mode and supervision (`main.py`, `api/v1/settings.py`) | `execution_mode`, `live_unlocked` | switch, lock, reconnect | engine, ledger | rows of the former mode | real money only when unlocked |
| API, event bus, WebSocket | bounded queues | requests, events | application | full queues | state events arrive |
| Tunnel, security, journal, settings, migrations, scripts, application screens | own files and tables | input and output | | | out of scope, see 8 |

`PROJECT.json` gives the same list file by file, with the status of each part, and
the list of hazards, each at the line where it bites.

## 2. Plan

Most important behaviour first: an order that should not exist, then a limit that
does not hold, then a loss that is not seen.

| module | models | abstract statement | state |
|---|---|---|---|
| `TradingEngine`, `TradingEngineProofs`, `TradingEngineLimits` | evaluation, execution, review, monitor | one execution per signal, limits, rows match the broker | done, safety proved |
| `DayLedger`, `DayLedgerProofs` | the marks of the day and the closures that feed them | the counter is the sum of the closed rows | done, safety proved |
| `TelegramIntake`, `TelegramIntakeProofs` | listener, catch-up, idempotency, own announcements | one order per message | done, safety proved |
| `Mt5ProcessWorker`, `Mt5ProcessWorkerProofs` | the child process and its callers | each call answered once; a failed one is sent no more | done, safety proved |
| `WatcherLifecycle`, `SignalLife`, `WatcherLifecycleProofs` | a watcher signal over its candles: entry, targets, stop, break-even, expiry | the promised life of a signal, implemented | done, safety and refinement proved |
| `WatcherEngine`, `WatcherEngineProofs` | analyses, rounds of the life cycle, sessions | twins only where a session was blind, ends told once | done, safety proved |
| `Surveillance` | surveillances and their announcements | readers are told what the next analysis takes up | done, proved in `ServicesProofs` |
| `PositionRules` | stop and objective of a position: monitor, channel, user | a stop goes back only on request | done, proved in `ServicesProofs` |
| `RiskGate` | `RiskManager.evaluate` as an ordered list of refusals, sizing in integer steps | a size refused was unaffordable | done, proved in `ServicesProofs` |
| `AutonomousCycle` | rounds of the intelligence, execution mode, live lock, restarts | no real order from a round begun locked | done, proved in `ServicesProofs` |
| `CandleReplay` | issues of simulations and observations | reading candles adds no gain | done, proved in `ServicesProofs` |
| `SelfTuning` | the three requirements that the Bridge moves by itself | a step is paid by a fresh outcome | done, proved in `ServicesProofs` |
| `Notifications`, `AiModels` | inbox, pushes, tokens; models and breaker of OpenRouter | one ring per window; free or named by the user | done, proved in `ServicesProofs` |
| `PendingOrders` | choice of the parent signal, cancellation of a pending order by follow-up | extends the order rows of `TradingEngine` | left |
| `Calendar`, `MT5 supervision` | reminders, reconnection loop | each reminder once | left |

Abstract specifications: `SignalLife` is stated and implemented by
`WatcherLifecycle` (`LifeSpec`). Worth stating next: `OneShot` (a message is analysed
at most once, then executed or dropped) for `TelegramIntake`; `CallOnce` (a call is
handed to the terminal at most once, before it returns or fails) for
`Mt5ProcessWorker` under its lock; `OrderBook` (each ticket goes pending, open,
closed or cancelled, once) for the rows of `TradingEngine`.

Theorems: every safety property of the runs that pass, and the refinement, is proved
(section 6). Worth proving next: the three abstract specifications above, each step
mapped to a step; what happens where a hypothesis of section 6 does not hold (by how
much a half closed by hand, or a late deal behind a commission, misleads the ledger);
the properties of the modules still to come.

## 3. Conventions shared by the modules

*Granularity.* The Bridge is one event loop, so code between two `await`s is atomic.
An action spans the code between two awaits whose order matters; awaits on private
state are merged. In `Mt5ProcessWorker` the code also runs in threads
(`asyncio.to_thread`), and an action is one step on the attributes of the worker.

*Sessions.* `database/session.py` opens sessions with `autoflush=False` and
`expire_on_commit=False`: what a session writes is visible to it at once, to others
at its commit, and only the columns it changed are written. On SQLite the first
flush takes the only writer of the file, kept until commit or rollback; someone
who waits more than 30 seconds for it gets an error and rolls back (`BusyTimeout`).
The modules write this as a buffer per session (`wStatus`, `wRow`, `wRisk`,
`writes`), `Publish` at the commit, and `TakeWriter`/`CanWrite`/`DropWriter`.
`TradingEngine` also runs without a single writer (`SingleWriter = FALSE`), as the
Bridge does on PostgreSQL: the proofs cover both, but for three of its limits (section 6).

*The broker* is external: it fills, closes and cancels by itself at any moment, and
a call may be lost after it took effect.

*Data.* A message, a signal, a ticket or a call is a model value or a small number;
prices are classes of equality; money, where it counts (`DayLedger`), is a small
integer, a position two units of volume.

*Counters* are capped by constants named `Max...`; each is commented at its
declaration as a bound.

## 4. The modules

### TradingEngine

Tasks are the handlers of entry messages (`Signals`), the approve and reject calls
(`Requests`) and the monitor loop. `pc` follows a task through `handle_message`
or the HTTP route (`insert`, `expire`), the wait for `_lock` (`lockwait`), then
`_process_signal` step by step: `route` (observe, review, or evaluate), `evaluate`
(read the account, refuse or approve), `listing` and `cancelling` (orders of the
opposite side), `send` and `persist` (the executor's loop over the legs of the
plan), `commit`. The monitor goes through `reconcile` and `flushOrders`
(`_reconcile_pending`), `closures` and `flushTrades` (`sync_with_broker`), `expiry` and
`flushExpiry` (`_expire_stale_signals`), `mcommit`.

What a task has read stays in `sawPaused`, `sawRisked`, `sawOpen`: it is used later,
stale or not. `engineLock` is the asyncio lock, `writer` SQLite's. `owner` is the
signal that the comment of an order names. A signal has an entry price or a zone: it is
placed at `ResolvedEntry` (`_resolve_entry_price`) and looked for at `LookedFor`
(`_equivalent_pending`), which differ for a zone that is sold or that the market is in.
A crash forgets every session and frees
both locks; the database and the broker remain.

### DayLedger

The counters that the loss limits are measured with, as columns of `TradingState`,
and the rows whose closing feeds them. The monitor's cycle is `BeginCycle` (day
rollover, snapshot of the terminal), `CompareRows` (rows whose position is gone),
`FlushRows`, `Count` (`_apply_closed_trades`), `Settle` (external move, peak),
`Commit`. Closers are a follow-up of a channel, a manual closure and the emergency
stop, each one closing positions without the engine lock and recording what it
closed. The broker closes positions, may publish the deals of a closure late, may
not answer; money may come from outside; a session may roll back.

### TelegramIntake

One monitored channel. Each update (new message or edit) has its handler; the
catch-up is a loop of its own. A handler stores the message and moves the cursor
in a first session (`store`), then analyses it in a second one: `check` (own
announcement, message already analysed), `insert` (the row of the signal, unique
per message), `execute`, `commit`. An executed order makes the Bridge announce it
on the same channel, and that announcement comes back as an update. The catch-up
reads the last messages, skips those up to the cursor it has read, and treats the
others one by one; a channel without a cursor is primed at its last message.

### Mt5ProcessWorker

`process` and `queues` are the attributes of the worker, `made` and `started` count the
pairs of queues and the children ever made; each child reads the queues it was
started with (`reads`). The child is only a client of `terminal64.exe`: once it has passed
a request on (`Hand`, recorded in `handed`), the terminal executes it (`Execute`) whatever
becomes of the child. A call takes the lock, starts a child if there is none, sends
its request, waits, and either receives its answer, throwing away those of others,
or recycles the worker and fails. `start`, `recycle` and the wait run in threads
that go on when their caller is cancelled (`Cancel` frees the lock, not the thread).
`Restart` and `Shutdown` run the same halting steps from threads that take no lock.
`unlocked` records that some start or halt has run without the lock: the guarantees
of the worker are stated for the executions without.

### WatcherLifecycle and SignalLife

One signal of the watcher. The market moves tick after tick and builds candles of one
minute (`Tick`, `QuietMinute`, `Candle`); beside it `ideal` is what the same management
would have booked had it followed every tick in its true order (`FollowTicks`). It is a
reference for the reading of the candles and not the account, whose stops and partial
closes are those of `PositionRules` and of section 7. `Advance` is a round of
`LifecycleTracker` on it: it reads all candles since the creation and walks them with
the present status and stop (`Transition`: entry, target, stop), applies one transition
(`Apply`: partial close, break-even, closing), and goes on until nothing happens or the
signal expires (`Expire`, after any reading, short or empty as it is when the terminal fails).
`SignalLife` is what the channel is told of a signal: it waits
or is live, its objectives come in order and once each, it ends once; one ended
at its stop or last target has a result, an expired one may have none. `WatcherLifecycle`
implements it (`LifeSpec`, by INSTANCE with the status and the objectives counted).

### WatcherEngine

Actors are the analysis loop, analyses on demand and rounds of the life cycle. An
analysis takes the lock of its instrument (`Judge`), creates a signal or a shadow
(`Create`), records itself and frees the lock (`Record`); a round goes through its
instruments in one session and commits at the end. `rows[i].of` is the session that wrote
a row, or `committed`; `blind` the rows of the instrument its session could not see.
Followers read the open signals once, announce ends at once and commit at the end.

### The eight services

These components share no state with the trading path beyond what each one names, so
`MCServices` puts one of them at work in each behaviour (`subject`), and one run checks
them all.

* `Surveillance`: the trace of the analyses of an instrument (`trace`) is the only
  memory of a surveillance; `heard` is what the readers of the channel believe. `Analyse`
  is `_close_open_watch` then `_publish_watch` or a signal then `_record`; two sessions
  alternate, commit or roll back.
* `AutonomousCycle`: `switches` are the committed rows of the settings, `seen` the object
  the round keeps alive in its session. A round reads them, scans, judges each
  instrument (`Analyse`: guards as one obstacle, thresholds, simulation, hand-over to
  the gate), and commits. Clicks, restarts, the terminal's account and the monitor
  interleave; while the session of the round holds SQLite's writer, clicks wait.
* `Notifications`: `Ask` (duplicate, limit of the hour), `Create` (row, flush), `Send`
  (the telephone may ring or not, and FCM may answer or not: a ring whose answer is lost is
  stored as not pushed), then `Keep` or `Forget` when the caller's session ends,
  with the retention, the emptied inbox and the registration of tokens beside.
* `AiModels`: what is free at OpenRouter (`offer`), the cached list, the row of the state,
  the model the engine was told and the second opinion are five variables; refreshes,
  `SetManual`, `SetSecond`, `Configure` copy between them. A refresh is an `errand` of
  several awaits: it reads the row (`Start`), asks for the list (`Receive`, `Unlisted`), tests
  up to three models one call after another (`EndTest`), then writes the columns it changed
  (`Write`), beside the calls of the parser (`Begin`, `End`) and through the same breaker.
  After `SetApiKey`, a refresh under way ends on the former client (`EndElsewhere`). The
  model lets `SetManual` pass during a `SetAuto` whose writer would make it wait on SQLite.
* `CandleReplay`: imagined trades get an issue from the candles after their birth
  (`Round`, `ExitPrice`), read as a run of candles that may be empty, stale at its end or
  too short at its beginning (`Series`). An observation may keep an entry that is not the
  present price. `Lives` is the same trade entered at once and followed tick after tick
  (`truth`): no account either, as candles are bid prices and a SELL closes at the ask.
* `PositionRules`: `live` is the position at the broker, `row` its record, `copy` and
  `base` what each party has loaded. The monitor reads the position, loads the row,
  waits to write, then applies break-even and trailing; a follow-up applies its message; a
  request of the application sends and then saves. Only changed columns are written.
* `RiskGate`: `Verdict` is the first barrier shut, in the order of `evaluate`; `Lot` the
  size, with the reduction by quality, streak and remaining risk, and the fallback
  when only the reduction makes it too small.
* `SelfTuning`: one of three requirements (`dial`): the confidence of an opportunity
  (`tuner.tune`), the score of a publication and the weight of a criterion
  (`learning.review`). `window` holds the outcomes that the measure counts, `counter` the
  sample of the last step; `total` and `paid`, ghosts, count the outcomes that ever came.
  `Measure` reads and decides, `Write` stores and commits, and the user may write in between.

## 5. Runs, bounds and fairness

| run | module, configuration | what it asks |
|---|---|---|
| `engine_market` | `EngineMarket.cfg` | Two market signals on one instrument, one of them reviewed by hand and split in two orders, an approval or a rejection, the monitor, one crash or lost call. `OneAtATime`, `ExposureCap`, `NoFalseClosure`, `NoOrphan`, `ExpiredStaysOut`; lock and writer taken in both orders: `EveryTaskEnds`, `MonitorKeepsCycling`. |
| `engine_queue` | `EngineQueue.cfg` | Three pending signals, two equivalent and one opposite, and one of an observed channel, a limit of two units of risk; the two equivalent ones are symmetrical. `NoTwinPending`, `DailyRiskCap`: the lock is released before the commit, but on SQLite the writer is not. |
| `ledger` | `Ledger.cfg` | Two losing positions closed by the broker or the emergency stop at any moment of a cycle, a late deal, an unreadable terminal, a rollback, a resumption. `CountedOnce`, `ClosedIsGone`, `ResultTrue`, `LossesPause`, `BaselineKept`. |
| `ledger_settles` | `LedgerSettles.cfg` | A deposit, a midnight, a half closed, an unreadable cycle: `BaselineSettles`. |
| `intake` | `Intake.cfg` | Two messages, or one and its announcement, an edit, a second delivery, an update that never comes, a fault, with the catch-up beside: `OneOrder`, `NoEcho`, `HistoryQuiet`, and `LastStored`: the last message of the channel is stored in the end. |
| `worker` | `Worker.cfg` | Two calls, one hang or death, one cancellation, reconnection or shutdown: `AnswerIsMine`, `OneChild`, `AlwaysAvailable`, `NoLateHandover`, `EveryCallEnds`. |
| `lifecycle` | `Lifecycle.cfg` | Signals of each entry type, every path of six moves, rounds whose reading is cut short: `NotAboveTicks` (the result booked against the ticks), `LifeSpec` (the refinement), `EverySignalEnds`. |
| `watcher` | `Watcher.cfg` | Two instruments, the loop, a request, a follower, a mute terminal, a busy database, a crash: `TwinsWereBlind`, `ToldOnce`, `EveryInstrumentRead`. |
| `services` | `Services.cfg` | The eight services: `WatchTold`, `RealWasUnlocked`, `Quiet`, `NewTokenKept`, `NamedFree`, `Spared`, `NotBetterThanTicks`, `StopForward`, `SizedRight`, `StepPaid`. |
| `engine_fill_seen_as_cancel`, `engine_double_approval`, `ledger_follow_up_race` | | the divergences of section 7 |

Each property that holds has in `PROJECT.json` a mutant: the change of one
definition, plausible as a bug of that code, with which TLC finds the property
violated.

**Why the bounds are enough.** Two tasks beside the monitor are what a race needs,
and the third signal of `engine_queue` is what an opposite side and a twin need
together. `MaxTicket` lets every leg of every plan be placed, and once more after
an approval. `engine_queue` has no
fault (with one, and three signals, it was checked apart). One fault suffices for each
property elsewhere: faults act on one session or on
all of them, and a second one adds nothing a restart has not already reset.
In `intake` two messages are one and its successor for the cursor, or one
and its announcement for the registry; `Limit` covers them all. `History = 2` lets both
be older than the surveillance: an edit of the first moves the cursor before the second,
which the catch-up then replays. In `worker` three children are the one that fails, the one a reconnection makes and the
one a late halt may hit.

In `lifecycle` six moves let a price cross the entry, two targets and come back to
the stop; three minutes of validity let it expire at each stage. Prices move by one level
(no gap, no slippage) and the signal is created with its minute. `watcher` keeps one
direction, one instrument asked for and two signals, the least that makes twins; a second
follower, with which ends are told twice, is left to the flag `overlapped`. In
`services`: three analyses of an instrument are an announcement, what comes between and
the conclusion; four clicks unlock, go live, lock and change one thing more; three ticks
are more than the duplicate window and the hour; two slots, two models, a threshold of two and
two calls or refreshes begun let the breaker open under calls and tests still running, and a
refresh end after what a call or another refresh changed; three minutes with readings of one candle make
candles out of reach at either end; two moves and one message let a price pass an objective and come
back; three signals spend a day; four outcomes of a band are a step, outcomes that leave
the window and a fresh one, or both populations of a weight. Their scales
are classes: a risk is an eighth of a percent, a price a level.

**Fairness.** `TradingEngine`: the event loop runs every ready coroutine (weak
fairness of its steps), and `asyncio.Lock` serves its waiters in order (strong
fairness of the two actions that take it). Messages, requests, fills, faults are not
forced. `BusyTimeout` is a step of its task: SQLite's timeout does expire. `DayLedger`:
weak fairness of the steps of the sessions. `TelegramIntake`: the catch-up is a loop,
and SQLite's waiters retry until their timeout, hence strong fairness of its step;
handlers run weakly fairly; an update is never forced to arrive. `Mt5ProcessWorker`:
threads run, deadlines pass, the lock goes to each waiter; nothing is asked of the
child, which may be mute for ever. `WatcherLifecycle`: the market goes on and rounds come
back (`scheduler._lifecycle_loop`). `WatcherEngine`: the loop begins again, steps of a round
run, `asyncio.Lock` serves its waiters in order. The services state no fairness: all
their properties are safety.

**Deadlock** is checked except in `Worker.cfg`, where two calls that are done and a
child that waits for a request are the normal end, in `Lifecycle.cfg`, where a signal
that has ended is, and in `Services.cfg`, where the bounds exhaust each service.

**Typing.** One `TypeOK` per module. It is proved for every instance of the engine, the
worker, the intake, the watcher and the life of its signals, and those of the services
are conjuncts of their invariants (`RulesType`, `NoticeType`, `ReplayType`...). The one of
`DayLedger` is only checked, with the configuration of `ledger`: a streak is counted over
`SelectSeq`, which the prover cannot expand; its proofs type the rest (`Figures`,
`RowFigures`) and never need the value of `losses`.

**Conditions inside properties**, all of them facts of the code rather than
conveniences: `ExposureCap` counts positions opened at market, since the limit is
checked against open positions and not against orders that wait; `NoOrphan` supposes
no crash and no lost answer, after which nothing in the code looks for the orders
it had sent; `CountedOnce` and `ResultTrue` speak of closures found by the monitor,
because closers outside the lock break them (section 7), and the first of one day, as
midnight sets the counter to zero; `BaselineKept` leaves out the
partial closures, unreadable cycles and late deals that do look like a deposit;
`OneOrder` and `NoEcho` suppose no rollback for an edited message and for an
announcement; `HistoryQuiet` leaves out what an edit lets the first catch-up replay; the
worker's `OneChild`, `AlwaysAvailable` and `NoLateHandover` suppose
that no reconnection, shutdown or cancelled start ran beside the lock, and `NoLateHandover`
says nothing of what the terminal already had; `NoTwinPending` speaks of signals placed at the
price by which they are looked for (`PlacedAsLookedFor`: an entry price, or a BUY zone the
market is not in); `NotAboveTicks` leaves out LIMIT signals and those created within a
minute; `TwinsWereBlind`
accepts twins that their session could not see; `ToldOnce` excludes lost commits and
overlapping rounds, after which the code does announce again; `WatchTold` excludes lost
messages, mute terminals, rollbacks and overlapping sessions; `Quiet` excludes
forgotten rows and overlapping callers, and counts for the limit of the hour the pushes
that FCM answered for, since the code counts no others (and its windows last an hour at most, as all
those of `DEDUP_WINDOWS` do: `WindowsAssumption`); `NewTokenKept` excludes a payload refused by
FCM, which reads like a bad token, and rests on SQLite's
writer (on PostgreSQL the registration may commit before the erasure); `NotBetterThanTicks`
excludes the minute of birth, minutes that the reading missed (at its beginning or, for a
trade given up, at its end) and entries that were not the price at the birth; `StopForward` excludes overlapping parties and
rollbacks; `StepPaid` supposes that the user changes neither the counters nor the length of
the window, which are settings too. In each case the exclusion is what the code does not guarantee, and
section 7 says what happens there.

## 6. Proofs

`TradingEngineProofs` proves with TLAPS, for every set of signals and requests, every
plan, mode and limit, any number of tickets and faults, with and without SQLite's
single writer:

* `TypeCorrect`: `Spec => []TypeOK`. One lemma per kind of task; the helpers of
  sessions (`OverlayType`, `PublishType`, `SessionType`, `RollbackType`) are proved once
  and cited.
* `MutualExclusion`: `Spec => []OneAtATime`. `OneAtATime` is an equivalence (inside an
  evaluation if and only if the lock is its own) and, with `TypeOK`, inductive: each
  way to leave an evaluation, an exception or a timeout included, must free the
  lock, and no step but the two that take it may enter one.
* `ClosuresAreTrue`: `Spec => []NoFalseClosure`. The property is not inductive: that a
  row may be closed when its ticket is missing from an older snapshot is true only
  because the rows the monitor reads cannot be younger than its snapshot. The
  invariant `ClosureInv` says why, in five parts: `FreshTickets` (the broker knows
  nothing of tickets not handed out), `OpenRowsFilled` (a row, committed or not, is
  open only for a position that was filled), `ClosedRowsGone` (closed ones are gone,
  and only the monitor writes them), `PlacedFilled` (the order an executor is about
  to store was placed), `SnapshotCovers` (during a cycle, a row that is open is in
  the snapshot or its position is gone: the engine lock keeps executors out). Steps that
  touch no row are dispatched by one lemma, `InheritedClosure`; the others have one
  step each.

These proofs rest on the named assumptions of the module (`TasksAssumption`,
`BoundsAssumption`, `SignalsAssumption`), which TLC evaluates in every run.

`TradingEngineLimits` extends it with the limits. They rest on one discipline more,
`WriterInv`: an evaluation that has passed its first flush holds SQLite's writer until it
commits, and a status waits for its commit only in the session that holds it.

| theorem | states | why it holds |
|---|---|---|
| `NoOrderIsLost` | `NoOrphan` | a row is written by the session that sent the order, and before its limits are passed a session has no row to lose (`EarlyRows`) |
| `ExpiredIsOver` | `ExpiredStaysOut` | only what is past its deadline expires (`ExpiredDue`), and what has passed the age check has not expired, nor can it while the writer is held (`ChosenFresh`, `SentFresh`) |
| `TwinsNeverWait` | `NoTwinPending` | an equivalent order is at the price it would be looked for (`PlacedAsLookedFor`), and what a session found when it looked for a twin stays true until its commit (`NoTwinAhead`), although the engine lock is free before |
| `RiskIsCapped` | `DailyRiskCap` | the risk an evaluation has read is the committed one until it commits (`RiskSeen`); each executed signal has added its own (`ExecutedAdds`, `RiskCounts`) |
| `ExposureIsCapped` | `ExposureCap` | no position is opened at market behind the snapshot of an evaluation (`SnapshotTrue`), and past the limits there is room for the rest of its plan (`RoomLeft`) |

Hypotheses, each with its reason in the code: `SingleWriter` for the second, third and
fourth, as on PostgreSQL another session may commit between what an evaluation reads and
its own commit; `LongAge = {}` for the second, since a channel may allow signals older than
the review delay; `Requests = {}` for the fourth, since an approval reads the risk of the
day before it holds the writer.

`Mt5ProcessWorkerProofs`, for any number of calls, children, hangs, deaths and cancellations:
`WorkerTypes`; `AnswersAreMine` (whatever lies in a queue of answers has been executed,
once: `Answered`); `OneChildRuns` and `CallsFindAChild`, from `LockInv`: as long as no start
or halt has run without the lock, the thread of a call that starts, halts, sends or
waits holds it (`Holders`), so the worker's attributes change under one hand
(`WorkerHas`); `FailedCallsAreOver` (a failed call is handed to the terminal no more), from `LateInv`: each
pair of queues has one reader, which dies before its call fails (`OneReader`,
`DeadBeforeFailed`).

`TelegramIntakeProofs`, for any number of messages, edits and tasks, under the writer of
SQLite: `IntakeTypes`; `OneOrderEach` from two invariants, `OnceInv` (of a message nobody
edited, the row is inserted once and only its inserter goes on) and `KeyInv` (of an edited
one, the unique key of the signal stops the second, as long as nothing failed);
`AnnouncementsAreNotTraded` from `EchoInv` (the trace of an announcement is committed, or
will be by the session that holds the writer, before anyone can read the message back);
`HistoryStaysQuiet` from `HistoryInv` (a cursor, once set, is beyond the history, but for
what an edit lets in: `Replayable`, section 7).

`DayLedgerProofs`, for any set of positions, requests, prices and bounds. Sums come first:
`Total` is a fold, and what it adds up to is proved by taking a smallest set for which a
fact would be false, as induction over data is out of reach. Then:

* `OneWriterHolds`: a session that has flushed holds the writer (`Access`).
* `StreaksPause`: `Spec => LossesPause`. A streak not yet committed is written with its pause,
  or finds it committed, by the one session that may commit (`PauseInv`).
* `ClosedStaysClosed`: `ClosedIsGone`, if the application closes whole positions
  (`ManualIsWhole`; otherwise the model has a counterexample, section 7).
* `ClosuresReachTheCounter`: `CountedOnce`. From the comparison of the rows to the commit,
  what the cycle has found is exactly what it has closed and not committed, and the
  counter is the sum of what it sees (`RealizedKept`).
* `ResultsArePaid`: `ResultTrue`, under `EntryIsFree` (no commission at the entry, or no late
  deal; otherwise false, section 7).
* `MarksAreKept`: `BaselineKept`, with `Fee = 0`. The balance the monitor has read is that of
  the morning plus what some set of gone positions paid; that set is the one its rows
  explain when it compares (`Explained`).

`ServicesProofs` proves the ten properties of the run `services`. `MCServices` puts one
service at work at a time, and the lemma `OneAtWork` turns its step into a step or a
stutter of each service, so each proof is about the service alone:

* `EachStepIsPaid` (`TuningInv`): since the last step of a band its sample has grown by no more
  than the outcomes that came, planned steps included. The counters alone say little,
  since they fall with the window.
* `TokenIsKept` (`TokenInv`): who pushes holds SQLite's writer since the flush of its row, hence
  no registration came since it read the token.
* `TelephoneStaysQuiet` (`QuietInv`): until callers overlap or rows are forgotten, every ring of
  the last hour has its row, marked as pushed if FCM answered, and an alert about to ring
  was allowed by those rows.
* `RealMoneyUnlocked` (`CycleInv`): the mode and the lock that judge an order come from one
  reading, although the stored ones may contradict each other.
* `CallsAreNamed` (`KnownInv`): what a list, a state, an engine or a refresh on its
  errand (`ErrandsKnown`) names was on a list once, or was chosen blind by the user.
* `FailingIsSpared` (`BreakerInv`): once open, the failures counted and the requests still under way,
  tests and lists included, stay below the threshold and the slots together.
* `ReplayAddsNoGain` (`ReplayInv`): what the trade has lived tick by tick shows in the candles
  since the birth, in their order; a reading that reaches a level holds that candle.
* `StopsGoForward` (`ForwardInv`): one party at work sees the position as it is, so its
  comparison with the present stop decides.
* `SizesAreRight`: by the arithmetic of `Lot` and of the barriers of `Verdict`.
* `ReadersAreTold` (`WatchInv`): what the readers believe is what the trace still opens.

`WatcherEngineProofs`: `WatcherTyped`; `SeenTwinsAreRefused` from `TwinInv`: the lock of an
instrument is held from the judgement to the record (`Locked`), so what an analysis is
about to create has no open like but those its session could not see (`Judged`), and so it
stays once created (`BornBlind`); `EndsAreToldOnce` from `ToldInv`: until a commit is lost
or two rounds overlap, one round is under way, what it has left is open and not announced,
and an announced end is written or in that round's hands (`ToldIsKept`).

`WatcherLifecycleProofs`:

* `RowKeepsItsPromises`: `Spec => LifeSpec`, the refinement: initial states map to initial
  states and each action to a step of `SignalLife` or a stutter (`LifeStep`): ticks and candles
  to stutters, each transition that `Advance` or `Expire` applies to one step, with the stop
  that never goes back, the shares and the result that comes with the end.
* `ReadingAddsNoGain`: `Spec => []NotAboveTicks`, for all levels, shares, offsets and
  courses. The property is far from inductive. `FloorInv` relates three histories: for some
  number `m` of targets, `ideal` trades with `m` reached and no candle shows the next
  one (`Running`), or was stopped then, and some candle shows that stop while none before
  shows the next target (`Stopped`); and the row is never ahead of `m` (`RowAt`). The sure
  result rises with `m` (`Rising`), so an earlier `m` is a floor. TLC checked `FloorInv`
  on the run's instance before it was proved.

What is assumed is what the modules state as assumptions on their constants, which TLC
evaluates in the runs, and the hypotheses named above.

Only model-checked: liveness (`EveryTaskEnds`, `MonitorKeepsCycling`, `BaselineSettles`,
`LastStored`, `EveryCallEnds`, `EverySignalEnds`, `EveryInstrumentRead`), since temporal
reasoning under fairness and `ENABLED` are beyond the prover, and `TypeOK` of `DayLedger`
(section 5). The counterexamples of section 7 are TLC's.

## 7. Divergences found

With a run that shows them:

* `engine_fill_seen_as_cancel`: `_reconcile_pending` compares the rows with the
  positions read at the start of the cycle and the orders read later. An order that
  fills in between is in neither list: its row becomes CANCELLED, its position is
  followed by nobody.
* `engine_double_approval`: `approve_manually` has no guard on the status; approving
  twice executes the plan twice.
* `ledger_follow_up_race`: a closing follow-up works outside the engine lock; a
  monitor cycle that overlaps it counts the same closure a second time, although
  the comment says the reconciliation will never see it.

Read from the code, without a run of their own:

* `Mt5ProcessWorker.start` sets `_stopping` to false: a call that starts a child while
  `stop()` runs leaves that child behind, which `shutdown` says cannot happen.
* The thread of a cancelled call goes on reading the queue of answers and throws
  away the answer of the next call, which then times out and kills a healthy child.
* After an exception that follows an order, the signal is forgotten with its
  session; an edit of the message is then analysed as new and may order again.
* Likewise an announcement whose session rolls back is read back as a foreign message.
* A position closed by hand from the application is never counted in the day.
* On PostgreSQL nothing keeps two equivalent pending orders apart between the
  release of the lock and the commit: `NoTwinPending` and `DailyRiskCap` rest on
  SQLite's writer.
* An approval that loaded its signal in time and waits for the lock while the monitor
  expires it is stopped by the age check alone: a channel whose own age limit exceeds the
  review delay executes it (`ExpiredStaysOut` is proved for `LongAge = {}`).
* Pending orders that fill after their check can exceed the limit per symbol.
* The catch-up skips what is below the cursor, which any later live message moves: a
  lost update followed by a received one is lost for good (`LastStored` is about the
  last message only).

* `_equivalent_pending` (`engine.py:695`) looks for a zone at `entry_min`, while
  `_resolve_entry_price` (`manager.py:767-777`) places a SELL zone at `entry_max`, and a
  zone that the market is in at the market's price: such a signal, published again, leaves two identical orders waiting,
  which the docstring (`engine.py:687-693`) is about (`NoTwinPending`, `PlacedAsLookedFor`).
* A request already handed to `terminal64.exe` is executed although its caller had an error
  and the child was killed: an order the Bridge believes failed may be sent again.
* The terminal's account is not what the tracker of the watcher measures
  (`lifecycle.py:17-22` says that it follows the management really applied): at a target the
  monitor only raises `tp_index` (`position_manager.py:900-938`), parts are closed only on a
  channel's message (238-272) and never below the minimum volume (366-392), break-even waits
  for a poll (450-503). The recorded result may exceed the account's, where lines 24-28 speak of
  a floor, if of the trailing alone; `NotAboveTicks` therefore compares readings of candles only.
* `_advance` walks again every candle since the creation with the present status
  (`lifecycle.py:172`): a LIMIT signal whose candle reached the target before the entry
  books a gain that its entry never had (`NotAboveTicks` leaves LIMIT out).
* A live signal that expires while the terminal does not give its candles
  (`market_data/engine.py:184-192`) ends without a result, and `performance.py:182-187` counts
  it among those closed before they were triggered.
* An announcement is sent before the commit (`lifecycle.py:343`): after a lost commit the end of a
  signal is announced again (`ToldOnce`, `lost`).
* A push whose answer is lost has rung with `pushed` false (`fcm.py:360-365`,
  `notifications/service.py:234-236`): the limit of the hour does not count it, and is exceeded.
* `observation_tracker.py:28` calls the result of an observation a floor, `docs/SHADOW_MODE.md:151-154`
  calls those of the shadow mode a ceiling. Against an account they are a ceiling: prices are bid
  and free of cost, and entries that were never filled are told won or lost like the others.
  Against the ticks they were read from they add no gain (`NotBetterThanTicks`), unless
  the reading misses minutes: the candle cache may be stale by ten times its life when the
  terminal fails, and a trade given up as too old may then have hit its level.

Met while proving, each a hypothesis or an exclusion of a theorem:

* A half closed by hand is subtracted twice when a monitor cycle comes between the answer
  of the broker and the reading of the row (`api/v1/trading.py:314-326`): the cycle has
  already written the volume left, from which the route subtracts again. The row may
  be closed while half of the position remains (`ClosedStaysClosed` needs `ManualIsWhole`).
* `_resultat_realise` (`position_manager.py:941`) falls back on the floating profit when the
  deals sum to exactly zero. With a commission at the entry, the sum without its late
  closing deal is the commission, not zero: the loss is recorded as that commission
  (`ResultsArePaid` needs `EntryIsFree`).
* Commissions of positions still open lower the balance before any result counts them:
  beyond the tolerance, `reconcile_external_balance_move` takes them for a withdrawal and
  moves the balance of the morning (`MarksAreKept` needs `Fee = 0`).
* An edit of a message of the history, received before the first catch-up, sets the cursor
  of a new channel to that message; the catch-up then finds a cursor, does not prime,
  and analyses the history that follows, where the docstring (`listener.py:229`) says that the
  first pass only primes, lest activating a channel analyses its recent history (`HistoryQuiet`, `Replayable`).
* Once the break-even stop stands at or above a price of the first candle, which holds the
  entry, each later reading of the candles meets that stop before any further target: the
  result is pessimistic, as promised, but the second target is out of reach.

Formulas kept in the modules, false of the code, with TLC's counterexample described:

* `PositionRules!StopNeverBack`. A follow-up that moves the stop between a cycle's
  reading and its turn to write is undone: the cycle compares break-even with the stop
  it had read and moves the broker's stop back (`position_manager.py:95`: "Un stop ne
  recule jamais : il ne peut que proteger davantage."); the same stale copy sends the
  former objective again.
* `RiskGate!ReductionNeverForbids`. The size that replaces a reduced one too small is
  that of the full configured risk, not the broker's minimum: a poor signal may get a
  larger size than a good one and be refused by the projected risk of the day where
  the minimum would fit, against `manager.py:639` ("Reduire une taille ne doit jamais
  revenir a interdire la position").
* `AiModels!ManualStays`. A refresh that read the automatic mode and is at its tests while the
  user selects a model by hand writes its own model over it, and leaves the manual mode,
  where `main.py:356-357` says that in manual mode the selection of the user is never replaced.
* `AutonomousCycle!LockIsImmediate`. A round keeps the settings it has read: locking the
  live mode after its reading and before its first write does not stop its orders on
  the real account, although `docs/GO_LIVE_CHECKLIST.md:267` says that locking prevents
  new positions and line 304 that it is immediate.

Read while modelling the watcher, the intelligence and the services:

* A mute terminal records an analysis that ends a surveillance without a message;
  overlapping analyses on demand may open twins; two overlapping rounds of the life
  cycle announce an end twice.
* A round of the watcher or of the intelligence holds SQLite's writer from its first
  write to its commit, across network calls; a failure late in the round rolls back
  the rows of orders already sent.
* Nothing outside its tests feeds `services/decision/circuit_breaker.py`: it cannot trip.
* In shadow mode the guard TRADING_DISABLED makes every simulation WOULD_SKIP; the
  marginal band is empty with the default thresholds.
* `lock_live` changes LIVE into DEMO without `reset_account_baselines`, which asks to be
  called at each change of mode; `set_execution_mode` checks the lock before an await,
  so LIVE may be stored while locked (the risk manager checks again, and the start
  falls back to DEMO).
* A second opinion may name any model, and so may a manual choice while no free model is
  known: `docs/OPENROUTER_SETUP.md:160` says that no route can select a paid model.
* FCM's INVALID_ARGUMENT erases a valid token when it is the payload that was refused;
  emptying the inbox or a short retention forgets pushes that the limit should count.
* Observations beyond the newest two hundred are never resolved, resolved ones being
  counted among them.
* The reminders of an economic event share one title, and the duplicate window of their
  priority is fifteen minutes (`relevance.py:33`): those at 15 and at 5 minutes are never
  both told, the one dropped as a duplicate is marked as notified all the same, where
  `economic_calendar/engine.py:5` announces 60, 30, 15 and 5 minutes.
* The tuner stores its reference at its first step and never reads it again
  (`tuner.py:117`): after the user has raised the requirement, recovered results lower it
  under what the user has set, where `tuner.py:21` reserves that to the evidence of the
  marginal band. A value outside the bounds is brought back at once, by more than a step and
  maybe against the sense announced. A value the user writes between the readings and
  the write of a round is overwritten. A window that has shrunk keeps fresh outcomes
  from paying for a step until its sample passes the former one.
* `journal.log` opens a session of its own (`tuner.py:172`, `learning.py:180`,
  `api/v1/watcher.py:233`): called inside one that holds SQLite's writer, it waits for the
  busy timeout and loses its entry, where `learning.py:19` promises that each decision is
  in the journal.
* The break-even request of the application (`api/v1/trading.py:261`) does not compare
  with the present stop and may move it back, by intention.

## 8. What is not modelled, and why

* *Later modules of the plan*: choice of the parent of a follow-up, cancellation of a
  pending order by the channel, news and calendar loops, entry types and instruments set
  aside by the learning, supervision of the terminal. `PROJECT.json` says for each component what is left.
* *Inside the modelled components*: drawdown and profit target of the risk manager, the
  guards one by one (they are one obstacle), quiet hours, scores, ATR distances.
* *The decision circuit breaker*: no code of the program feeds it.
* *Floating-point analysis* (technical analysis, scoring, confidence, regimes,
  patterns, backtest statistics): stateless functions of candles, outside TLC's
  arithmetic, with nothing to interleave.
* *Wording*: parsers' regular expressions, formatters, templates, journal messages.
  The outcome of a parser is a choice.
* *Input and output*: Telegram and MetaTrader clients, HTTP fetching, FCM, ngrok,
  files. They are the external actions of the models.
* *Security, settings, migrations, scripts, screens*: sequential, and without effect
  on the order path beyond values read once.
