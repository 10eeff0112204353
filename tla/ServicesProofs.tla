--------------------------- MODULE ServicesProofs ---------------------------
(***************************************************************************)
(* Proofs about the services of MCServices, for every value of their       *)
(* constants.  A step is one of the subject; the others stand still.       *)
(***************************************************************************)
EXTENDS MCServices, Integers, FiniteSets, FiniteSetTheorems, WellFoundedInduction,
        TLAPS

\* A step of the services is a step or a stutter of each of them.
LEMMA OneAtWork ==
    [Next]_vars =>
        /\ [Watch!Next]_watched /\ [Cycle!Next]_cycled /\ [Notify!Next]_notified
        /\ [Ai!Next]_modelled /\ [Replay!Next]_replayed /\ [Rules!Next]_ruled
        /\ [Gate!Next]_gated /\ [Tuning!Next]_tuned
  BY DEF Next, vars

-----------------------------------------------------------------------------
(* SelfTuning.                                                             *)

Measures ==
    /\ counter \in [Tuning!Bands -> Int] /\ paid \in [Tuning!Bands -> Int]
    /\ total \in [Tuning!Bands -> Int]
    /\ window \in [Tuning!Bands -> [wins : Int, losses : Int]]

\* A plan, when there is one: its sample and the total it was read with.
Planned ==
    plan # Tuning!NoPlan =>
        /\ plan.by \in Tuning!Bands /\ plan.sample \in Int /\ plan.total \in Int
        /\ plan.total > paid[plan.by]
        /\ Tuning!Sample(plan.by) - plan.sample <= total[plan.by] - plan.total

\* The growth of a sample since the last step is at most the outcomes that came.
Grown == \A b \in Tuning!Bands : Tuning!Sample(b) - counter[b] <= total[b] - paid[b]

TuningInv == Measures /\ Planned /\ Grown

\* At the installation nothing is counted, nothing has come and nothing is planned.
LEMMA InitGrown == Tuning!Init => TuningInv
  BY DEF Tuning!Init, TuningInv, Measures, Planned, Grown, Tuning!Sample, Tuning!Bands

\* A step of the specification keeps the counts and what ties them together.
LEMMA StepGrown == TuningInv /\ [Tuning!Next]_tuned => TuningInv'
<1> SUFFICES ASSUME TuningInv, [Tuning!Next]_tuned PROVE TuningInv'
  OBVIOUS
<1> USE DEF TuningInv, Measures, Planned, Grown, Tuning!Sample, Tuning!Bands
<1>1. ASSUME NEW b \in Tuning!Bands, Tuning!Outcome(b) PROVE TuningInv'
  <2>1. PICK kind \in {"wins", "losses"} : window' = [window EXCEPT ![b][kind] = @ + 1]
    BY <1>1 DEF Tuning!Outcome
  <2>2. /\ total' = [total EXCEPT ![b] = @ + 1]
        /\ UNCHANGED <<counter, paid, plan>>
    BY <1>1 DEF Tuning!Outcome, Tuning!setting
  <2>3. window' \in [Tuning!Bands -> [wins : Int, losses : Int]]
    BY <2>1
  <2>4. \A x \in Tuning!Bands :
          Tuning!Sample(x)' = IF x = b THEN Tuning!Sample(x) + 1 ELSE Tuning!Sample(x)
    BY <2>1
  <2> QED
    BY <2>2, <2>3, <2>4
<1>2. ASSUME NEW b \in Tuning!Bands, Tuning!Leave(b) PROVE TuningInv'
  <2>1. PICK kind \in {"wins", "losses"} : window' = [window EXCEPT ![b][kind] = @ - 1]
    BY <1>2 DEF Tuning!Leave
  <2>2. UNCHANGED <<total, counter, paid, plan>>
    BY <1>2 DEF Tuning!Leave, Tuning!setting
  <2>3. window' \in [Tuning!Bands -> [wins : Int, losses : Int]]
    BY <2>1
  <2>4. \A x \in Tuning!Bands :
          Tuning!Sample(x)' = IF x = b THEN Tuning!Sample(x) - 1 ELSE Tuning!Sample(x)
    BY <2>1
  <2> QED
    BY <2>2, <2>3, <2>4
<1>3. ASSUME NEW level \in Settable, Tuning!SetByHand(level) PROVE TuningInv'
  BY <1>3 DEF Tuning!SetByHand, Tuning!market
<1>4. CASE Tuning!Measure
  <2>1. PICK b \in Tuning!Bands, to \in {value - 1, value + 1} :
          /\ Tuning!Fresh(b)
          /\ plan' = [by |-> b, from |-> value, to |-> Tuning!Bounded(to),
                      reference |-> Tuning!Reference, sample |-> Tuning!Sample(b),
                      total |-> total[b]]
    BY <1>4 DEF Tuning!Measure
  <2>2. UNCHANGED <<counter, window, total, paid>>
    BY <1>4 DEF Tuning!Measure, Tuning!setting, Tuning!market
  <2>3. plan'.by = b /\ plan'.sample = Tuning!Sample(b) /\ plan'.total = total[b]
    BY <2>1
  <2>4. total[b] > paid[b]
    BY <2>1 DEF Tuning!Fresh
  <2> QED
    BY <2>2, <2>3, <2>4
<1>5. CASE Tuning!Write
  BY <1>5 DEF Tuning!Write, Tuning!market
<1>6. CASE Tuning!Forget
  BY <1>6 DEF Tuning!Forget, Tuning!setting, Tuning!market, Tuning!NoPlan
<1>7. CASE UNCHANGED tuned
  BY <1>7 DEF tuned
<1> QED
  BY <1>1, <1>2, <1>3, <1>4, <1>5, <1>6, <1>7 DEF Tuning!Next

\* A step is written only from a plan, and a plan has a fresh outcome.
LEMMA PaidSteps ==
    TuningInv /\ [Next]_vars =>
        [Tuning!Write => plan.total > paid[plan.by]]_(Tuning!tuningVars)
  BY DEF TuningInv, Planned, Tuning!Write

\* A requirement never moves twice on the same measure: whatever the window loses and
\* gains, whatever the user writes meanwhile, each step has an outcome of its own.
THEOREM EachStepIsPaid == Spec => StepPaid
<1>1. Init => TuningInv
  BY InitGrown DEF Init
<1>2. TuningInv /\ [Next]_vars => TuningInv'
  BY StepGrown, OneAtWork
<1> QED
  BY <1>1, <1>2, PaidSteps, PTL DEF Spec, StepPaid, Tuning!StepPaid

-----------------------------------------------------------------------------
(* Notifications: tokens.                                                  *)

IsWork(w) == w = [c \in Callers |-> w[c]]

\* The writer belongs to the caller whose row is written, until its session ends.
WriterHeld == \A c \in Callers : work[c].step \in {"send", "open"} => holder = c
TokenFresh == \A c \in Callers : work[c].step = "send" => work[c].to = registered

TokenInv == IsWork(work) /\ WriterHeld /\ TokenFresh

\* At the start no caller has anything under way.
LEMMA InitHeld == Notify!Init => TokenInv
  BY DEF Notify!Init, TokenInv, IsWork, WriterHeld, TokenFresh, Notify!Idle

\* A caller that goes on leaves the steps of the others as they were.
LEMMA OthersKept ==
    ASSUME NEW c \in Callers, NEW next, IsWork(work), work' = [work EXCEPT ![c] = next]
    PROVE  /\ IsWork(work)'
           /\ work'[c] = next
           /\ \A d \in Callers \ {c} : work'[d] = work[d]
  BY DEF IsWork

\* Every step keeps the writer with the caller that pushes, and its token.
LEMMA StepHeld == Notify!CallersAssumption /\ TokenInv /\ [Notify!Next]_notified => TokenInv'
<1> SUFFICES ASSUME Notify!CallersAssumption, TokenInv, [Notify!Next]_notified
             PROVE  TokenInv'
  OBVIOUS
<1> USE DEF TokenInv, WriterHeld, TokenFresh, Notify!CallersAssumption
<1>1. ASSUME NEW c \in Callers, NEW alert \in Alerts, NEW preference \in {"inbox", "push"},
             Notify!Ask(c, alert, preference)
      PROVE  TokenInv'
  <2>1. /\ work' = [work EXCEPT ![c] = Notify!Verdict(c, alert, preference)]
        /\ UNCHANGED <<holder, registered>>
    BY <1>1 DEF Notify!Ask
  <2>2. Notify!Verdict(c, alert, preference).step = "create"
    BY DEF Notify!Verdict
  <2> QED
    BY <2>1, <2>2, OthersKept
<1>2. ASSUME NEW c \in Callers, Notify!Create(c) PROVE TokenInv'
  <2>1. holder \in {Notify!NoCaller, c} /\ holder' = c /\ registered' = registered
    BY <1>2 DEF Notify!Create, Notify!Flush
  <2> DEFINE sending == [step |-> "send", alert |-> work[c].alert, at |-> clock,
                          to |-> registered]
             next == IF work[c].push THEN sending ELSE [step |-> "open"]
  <2>2. /\ work' = [work EXCEPT ![c] = next]
        /\ next.step = "send" => next.to = registered
    BY <1>2 DEF Notify!Create
  <2>3. \A d \in Callers \ {c} : work[d].step \notin {"send", "open"}
    BY <2>1
  <2>4. IsWork(work)' /\ work'[c] = next /\ \A d \in Callers \ {c} : work'[d] = work[d]
    BY <2>2, OthersKept
  <2> HIDE DEF next
  <2> QED
    BY <2>1, <2>2, <2>3, <2>4
<1>3. ASSUME NEW c \in Callers, Notify!Send(c) PROVE TokenInv'
  <2>1. /\ work[c].step = "send" /\ holder' = holder
        /\ work' = [work EXCEPT ![c] = [step |-> "open"]]
    BY <1>3 DEF Notify!Send
  <2>2. \A d \in Callers \ {c} : work[d].step \notin {"send", "open"}
    BY <2>1
  <2>3. /\ IsWork(work)' /\ work'[c] = [step |-> "open"]
        /\ \A d \in Callers \ {c} : work'[d] = work[d]
    BY <2>1, OthersKept
  <2> QED
    BY <2>1, <2>2, <2>3
<1>4. ASSUME NEW c \in Callers, Notify!Ends(c) PROVE TokenInv'
  <2>1. /\ work[c].step = "open" /\ registered' = registered
        /\ work' = [work EXCEPT ![c] = Notify!Idle]
    BY <1>4 DEF Notify!Ends
  <2>2. \A d \in Callers \ {c} : work[d].step \notin {"send", "open"}
    BY <2>1
  <2>3. /\ IsWork(work)' /\ work'[c] = Notify!Idle
        /\ \A d \in Callers \ {c} : work'[d] = work[d]
    BY <2>1, OthersKept
  <2> QED
    BY <2>1, <2>2, <2>3 DEF Notify!Idle
<1>5. CASE Notify!Purge \/ Notify!DeleteAll \/ Notify!Reinstall \/ Notify!Tick
  BY <1>5 DEF Notify!Purge, Notify!DeleteAll, Notify!Reinstall, Notify!Tick, IsWork
<1>6. CASE Notify!Register
  BY <1>6 DEF Notify!Register, IsWork
<1>7. CASE UNCHANGED notified
  BY <1>7 DEF notified, IsWork
<1> QED
  BY <1>1, <1>2, <1>3, <1>4, <1>5, <1>6, <1>7 DEF Notify!Next, Notify!Keep, Notify!Forget

\* A registered token that is the telephone's is erased only when Firebase calls it
\* invalid by mistake: the refusal of an old one came for that old one.
LEMMA ErasedByMistake ==
    TokenInv /\ [Notify!Next]_notified =>
        [registered = token /\ registered' # registered
           => misjudged' \/ token' # token]_(Notify!notifyVars)
<1> SUFFICES ASSUME TokenInv, Notify!Next, registered = token, registered' # registered
             PROVE  misjudged'
  BY DEF notified, Notify!notifyVars, Notify!noise
<1>1. PICK c \in Callers : Notify!Send(c)
  BY DEF Notify!Next, Notify!Ask, Notify!Create, Notify!Keep, Notify!Forget, Notify!Ends,
         Notify!Purge, Notify!DeleteAll, Notify!Reinstall, Notify!Register, Notify!Tick
<1>2. work[c].to = token
  BY <1>1 DEF Notify!Send, TokenInv, TokenFresh
<1> QED
  BY <1>1, <1>2 DEF Notify!Send

\* No refusal of an old token ever erases the one the telephone has now, with any
\* number of callers, of alerts and of installations.
THEOREM TokenIsKept == Spec => NewTokenKept
<1>1. Init => TokenInv
  BY InitHeld DEF Init
<1>2. TokenInv /\ [Next]_vars => TokenInv'
  BY StepHeld, OneAtWork, CallersBounds
<1>3. TokenInv /\ [Next]_vars =>
        [registered = token /\ registered' # registered
           => misjudged' \/ token' # token]_(Notify!notifyVars)
  BY ErasedByMistake, OneAtWork
<1> QED
  BY <1>1, <1>2, <1>3, PTL DEF Spec, NewTokenKept, Notify!NewTokenKept

-----------------------------------------------------------------------------
(* AutonomousCycle.                                                        *)

\* What the round has read and what is stored are settings.
SettingsType == switches \in Cycle!Switches /\ seen \in Cycle!Switches

CycleInv == SettingsType /\ Cycle!RealWasUnlocked

\* At the installation the mode is DEMO and no order was sent.
LEMMA InitReal == Cycle!Init => CycleInv
  BY DEF Cycle!Init, CycleInv, SettingsType, Cycle!Switches, Cycle!Modes, Cycle!RealWasUnlocked

\* Every change of the switches, by the user or at a restart, leaves settings.
LEMMA StepSettings == SettingsType /\ [Cycle!Next]_cycled => SettingsType'
<1> SUFFICES ASSUME SettingsType, [Cycle!Next]_cycled PROVE SettingsType'
  OBVIOUS
<1> USE DEF SettingsType, Cycle!Switches, Cycle!Modes, Cycle!desk, Cycle!cycle
<1>1. CASE Cycle!Unlock
  BY <1>1 DEF Cycle!Unlock, Cycle!Click, Cycle!Set
<1>2. CASE Cycle!Lock
  BY <1>2 DEF Cycle!Lock, Cycle!Click
<1>3. CASE Cycle!AskLive
  BY <1>3 DEF Cycle!AskLive
<1>4. CASE Cycle!GoLive \/ Cycle!LeaveLive
  BY <1>4 DEF Cycle!GoLive, Cycle!LeaveLive, Cycle!EnterMode, Cycle!Click, Cycle!Set
<1>5. CASE Cycle!Toggle
  BY <1>5 DEF Cycle!Toggle, Cycle!Click, Cycle!Set
<1>6. CASE (\E kind \in Cycle!Accounts : Cycle!Connect(kind)) \/ Cycle!Monitor
  BY <1>6 DEF Cycle!Connect, Cycle!Monitor
<1>7. CASE Cycle!Restart
  BY <1>7 DEF Cycle!Restart
<1>8. CASE Cycle!BeginRound \/ Cycle!Scan \/ Cycle!Analyse \/ Cycle!EndRound
  BY <1>8 DEF Cycle!BeginRound, Cycle!Scan, Cycle!Analyse, Cycle!EndRound
<1>9. CASE UNCHANGED cycled
  BY <1>9 DEF cycled
<1> QED
  BY <1>1, <1>2, <1>3, <1>4, <1>5, <1>6, <1>7, <1>8, <1>9 DEF Cycle!Next

\* The gate lets nothing through to a real account unless the round read LIVE unlocked.
LEMMA GateProtects ==
    ASSUME SettingsType, Cycle!Gate(paused)
    PROVE  Cycle!Order.account = "real" => Cycle!Order.mode = "LIVE" /\ Cycle!Order.wasUnlocked
<1>1. CASE seen.mode = "LIVE"
  BY <1>1 DEF Cycle!Gate, Cycle!Order
<1>2. CASE seen.mode = "DEMO"
  BY <1>2 DEF Cycle!Gate, Cycle!Order
<1>3. CASE seen.mode = "PAPER"
  BY <1>3 DEF Cycle!Order
<1> QED
  BY <1>1, <1>2, <1>3 DEF SettingsType, Cycle!Switches, Cycle!Modes

\* Only an analysis sends an order, and the gate has judged it.
LEMMA StepReal == CycleInv /\ [Cycle!Next]_cycled => Cycle!RealWasUnlocked'
<1> SUFFICES ASSUME CycleInv, [Cycle!Next]_cycled PROVE Cycle!RealWasUnlocked'
  OBVIOUS
<1> USE DEF CycleInv
<1>1. CASE Cycle!Analyse
  <2>1. orders' = orders \/ (Cycle!Gate(paused) /\ orders' = orders \union {Cycle!Order})
    BY <1>1 DEF Cycle!Analyse
  <2> QED
    BY <2>1, GateProtects DEF Cycle!RealWasUnlocked
<1>2. CASE UNCHANGED orders
  BY <1>2 DEF Cycle!RealWasUnlocked
<1>3. Cycle!Analyse \/ UNCHANGED orders
  BY DEF Cycle!Next, Cycle!Unlock, Cycle!Lock, Cycle!AskLive, Cycle!GoLive, Cycle!LeaveLive,
         Cycle!EnterMode, Cycle!Toggle, Cycle!Connect, Cycle!Monitor, Cycle!Restart,
         Cycle!BeginRound, Cycle!Scan, Cycle!EndRound, Cycle!Click, Cycle!Set,
         Cycle!desk, Cycle!cycle, cycled
<1> QED
  BY <1>1, <1>2, <1>3

\* Whatever the user locks, unlocks, connects or restarts during rounds, every order
\* on a real account was sent in LIVE by a round that had read it unlocked.
THEOREM RealMoneyUnlocked == Spec => []RealWasUnlocked
<1>1. Init => CycleInv
  BY InitReal DEF Init
<1>2. CycleInv /\ [Next]_vars => CycleInv'
  BY StepSettings, StepReal, OneAtWork DEF CycleInv
<1>3. CycleInv => RealWasUnlocked
  BY DEF CycleInv, RealWasUnlocked
<1> QED
  BY <1>1, <1>2, <1>3, PTL DEF Spec

-----------------------------------------------------------------------------
(* AiModels: the models named.                                             *)

Known == listed \union blind \union {Ai!NoModel, Ai!List}

\* What a refresh may come to retain.
ErrandsKnown == \A s \in Slots :
    /\ errand[s].models \subseteq listed /\ errand[s].left \subseteq listed
    /\ errand[s].first \in Known

\* Whatever may be called one day is known: what is stored, told, cached or about to be
\* written.
KnownInv ==
    /\ calls = [s \in Slots |-> calls[s]] /\ Ai!NamedFree
    /\ errand = [s \in Slots |-> errand[s]] /\ ErrandsKnown
    /\ cache \subseteq listed
    /\ state.text \in Known /\ memory \in Known /\ second \in Known
    /\ state = [auto |-> state.auto, text |-> state.text, free |-> state.free]
    /\ state.free \subseteq listed

\* At the installation nothing is named.
LEMMA InitKnown == Ai!Init => KnownInv
  BY DEF Ai!Init, Ai!Idle, KnownInv, ErrandsKnown, Known, Ai!NamedFree

\* What is known stays so.
LEMMA MoreKnown ==
    ASSUME KnownInv, listed \subseteq listed', blind \subseteq blind'
    PROVE  Known \subseteq Known'
  BY DEF Known

\* The row after a refresh that retained something known, or nothing new.
RowKnown ==
    /\ state'.text \in Known' /\ state'.free \subseteq listed'
    /\ state' = [auto |-> state'.auto, text |-> state'.text, free |-> state'.free]

\* The flush of a refresh that retains a model of a list that was shown.
LEMMA WriteKnown ==
    ASSUME KnownInv, NEW e, NEW models, NEW text, Ai!Write(e, models, text),
           listed \subseteq listed', UNCHANGED blind,
           models \subseteq listed', text \in Known' \/ text = e.read.text
    PROVE  RowKnown
<1>1. /\ state'.text = IF text = e.read.text THEN state.text ELSE text
      /\ state'.free = IF models = e.read.free THEN state.free ELSE models
      /\ state' = [auto |-> state'.auto, text |-> state'.text, free |-> state'.free]
  BY DEF Ai!Write
<1>2. state.text \in Known' /\ state.free \subseteq listed'
  BY MoreKnown DEF KnownInv
<1> QED
  BY <1>1, <1>2 DEF RowKnown

\* A list that is retained without a test.
LEMMA RetainKnown ==
    ASSUME KnownInv, NEW e, NEW models, Ai!Retain(e, models),
           listed' = listed \union models, UNCHANGED blind
    PROVE  RowKnown
<1>1. PICK text : /\ text = e.read.text \/ text = Ai!NoModel \/ text \in models
                  /\ Ai!Write(e, models, text)
  BY DEF Ai!Retain, Ai!Candidates
<1>2. text \in Known' \/ text = e.read.text
  BY <1>1 DEF Known
<1> QED
  BY <1>1, <1>2, WriteKnown

\* A refresh that gets no list, or that ends without writing.
LEMMA GiveUpKnown ==
    ASSUME KnownInv, NEW e, Ai!GiveUp(e) \/ UNCHANGED state, listed \subseteq listed',
           UNCHANGED blind
    PROVE  RowKnown
<1>1. state.text \in Known' /\ state.free \subseteq listed'
  BY MoreKnown DEF KnownInv
<1>2. /\ state'.text = state.text /\ state'.free = state.free
      /\ state' = [auto |-> state'.auto, text |-> state'.text, free |-> state'.free]
  BY DEF KnownInv, Ai!GiveUp
<1> QED
  BY <1>1, <1>2 DEF RowKnown

\* What is asked next and what the refresh remembers are known if the new ones are.
LEMMA AskKnown ==
    ASSUME KnownInv, NEW s \in Slots, NEW what, NEW e,
           calls' = [calls EXCEPT ![s] = what] \/ (UNCHANGED calls /\ what = Ai!NoModel),
           errand' = [errand EXCEPT ![s] = e] \/ (UNCHANGED errand /\ e = errand[s]),
           what \in Known', e.models \subseteq listed', e.left \subseteq listed',
           e.first \in Known', cache' \subseteq listed',
           listed \subseteq listed', UNCHANGED <<blind, memory, second>>, RowKnown
    PROVE  KnownInv'
<1>1. Known \subseteq Known'
  BY MoreKnown
<1>2. calls' = [x \in Slots |-> calls'[x]] /\ \A x \in Slots : calls'[x] \in {calls[x], what}
  BY DEF KnownInv
<1>3. errand' = [x \in Slots |-> errand'[x]] /\ \A x \in Slots : errand'[x] \in {errand[x], e}
  BY DEF KnownInv
<1>4. Ai!NamedFree'
  <2>1. \A x \in Slots : calls[x] \in Known
    BY DEF KnownInv, Ai!NamedFree, Known
  <2>2. \A x \in Slots : calls'[x] \in Known'
    BY <1>1, <1>2, <2>1
  <2> QED
    BY <2>2 DEF Ai!NamedFree, Known
<1>5. ErrandsKnown'
  BY <1>1, <1>3 DEF KnownInv, ErrandsKnown
<1>6. memory' \in Known' /\ second' \in Known'
  BY <1>1 DEF KnownInv
<1> QED
  BY <1>2, <1>3, <1>4, <1>5, <1>6 DEF KnownInv, RowKnown

\* An errand that is over leaves nothing behind.
LEMMA OverKnown ==
    ASSUME KnownInv, NEW s \in Slots, Ai!Over(s), cache' \subseteq listed',
           listed \subseteq listed', UNCHANGED <<blind, memory, second>>, RowKnown
    PROVE  KnownInv'
<1>1. /\ Ai!Idle.models = {} /\ Ai!Idle.left = {} /\ Ai!Idle.first = Ai!NoModel
      /\ Ai!NoModel \in Known'
  BY DEF Ai!Idle, Known
<1>2. calls' = [calls EXCEPT ![s] = Ai!NoModel] /\ errand' = [errand EXCEPT ![s] = Ai!Idle]
  BY DEF Ai!Over, Ai!Asks
<1> HIDE DEF Ai!Idle
<1> QED
  BY <1>1, <1>2, AskKnown

\* A refresh begins: the list at hand, a request, or nothing.
LEMMA StartKnown ==
    ASSUME KnownInv, NEW s \in Slots, NEW auto, NEW force, NEW tests,
           Ai!Start(s, auto, force, tests)
    PROVE  KnownInv'
<1> DEFINE e == [Ai!Idle EXCEPT !.stage = "list", !.auto = auto, !.tests = tests,
                                !.read = [state EXCEPT !.auto = auto \/ state.auto]]
<1>1. /\ UNCHANGED <<cache, memory, second, blind>>
      /\ \/ /\ Ai!Retain(e, cache) /\ listed' = listed \union cache
            /\ UNCHANGED <<calls, errand>>
         \/ /\ Ai!Asks(s, Ai!List) /\ errand' = [errand EXCEPT ![s] = e]
            /\ UNCHANGED <<state, listed>>
         \/ Ai!GiveUp(e) /\ UNCHANGED <<calls, errand, listed>>
  BY DEF Ai!Start
<1>2. /\ e.models = {} /\ e.left = {} /\ e.first = Ai!NoModel
      /\ Ai!NoModel \in Known' /\ Ai!List \in Known' /\ cache \subseteq listed
  BY DEF Ai!Idle, Known, KnownInv
<1> HIDE DEF e
<1>3. ASSUME RowKnown, UNCHANGED <<calls, errand>>, listed \subseteq listed' PROVE KnownInv'
  <2>1. /\ errand[s].models \subseteq listed' /\ errand[s].left \subseteq listed'
        /\ errand[s].first \in Known'
    BY <1>1, <1>3, MoreKnown DEF KnownInv, ErrandsKnown
  <2> QED
    BY <1>1, <1>2, <1>3, <2>1, AskKnown
<1>4. CASE Ai!Retain(e, cache) /\ listed' = listed \union cache /\ UNCHANGED <<calls, errand>>
  <2>1. RowKnown
    BY <1>1, <1>4, RetainKnown
  <2> QED
    BY <1>3, <1>4, <2>1
<1>5. CASE /\ Ai!Asks(s, Ai!List) /\ errand' = [errand EXCEPT ![s] = e]
           /\ UNCHANGED <<state, listed>>
  <2>1. RowKnown
    BY <1>1, <1>5, GiveUpKnown
  <2>2. calls' = [calls EXCEPT ![s] = Ai!List]
    BY <1>5 DEF Ai!Asks
  <2> QED
    BY <1>1, <1>2, <1>5, <2>1, <2>2, AskKnown
<1>6. CASE Ai!GiveUp(e) /\ UNCHANGED <<calls, errand, listed>>
  <2>1. RowKnown
    BY <1>1, <1>6, GiveUpKnown
  <2> QED
    BY <1>3, <1>6, <2>1
<1> QED
  BY <1>1, <1>4, <1>5, <1>6

\* The list comes, and its first candidate may have to be tested.
LEMMA ReceiveKnown ==
    ASSUME KnownInv, NEW s \in Slots, Ai!Receive(s)
    PROVE  KnownInv'
<1> DEFINE e == errand[s]
<1>1. /\ listed' = listed \union offer /\ cache' = offer
      /\ UNCHANGED <<blind, memory, second>>
  BY DEF Ai!Receive
<1>2. CASE Ai!Over(s) /\ Ai!Retain(e, offer)
  <2>1. RowKnown
    BY <1>1, <1>2, RetainKnown
  <2> QED
    BY <1>1, <1>2, <2>1, OverKnown
<1>3. ASSUME NEW first \in offer, NEW left \in SUBSET offer, Ai!Asks(s, first), UNCHANGED state,
             errand' = [errand EXCEPT ![s] = Ai!Testing(e, offer, first, left)]
      PROVE  KnownInv'
  <2> DEFINE f == Ai!Testing(e, offer, first, left)
  <2>1. f.models = offer /\ f.left = left /\ f.first = first
    BY DEF Ai!Testing
  <2>2. calls' = [calls EXCEPT ![s] = first] /\ errand' = [errand EXCEPT ![s] = f]
    BY <1>3 DEF Ai!Asks
  <2>3. RowKnown
    BY <1>1, <1>3, GiveUpKnown
  <2>4. first \in Known' /\ offer \subseteq listed'
    BY <1>1 DEF Known
  <2> HIDE DEF f
  <2> QED
    BY <1>1, <1>3, <2>1, <2>2, <2>3, <2>4, AskKnown
<1> QED
  BY <1>2, <1>3 DEF Ai!Receive, Ai!Candidates, Ai!Shortlists

\* A test ends: another one begins, or the refresh is over.
LEMMA EndTestKnown ==
    ASSUME KnownInv, NEW s \in Slots, Ai!EndTest(s)
    PROVE  KnownInv'
<1> DEFINE e == errand[s]
           left == e.left \ {calls[s]}
<1>1. UNCHANGED <<listed, cache, blind, memory, second>> /\ cache \subseteq listed'
  BY DEF Ai!EndTest, KnownInv
<1>2. /\ e.models \subseteq listed /\ e.left \subseteq listed /\ e.first \in Known
      /\ calls[s] \in Known
  BY DEF KnownInv, ErrandsKnown, Ai!NamedFree, Known
<1>3. Known' = Known
  BY <1>1 DEF Known
<1>4. ASSUME NEW text \in Known, Ai!Write(e, e.models, text), Ai!Over(s) PROVE KnownInv'
  <2>1. RowKnown
    BY <1>1, <1>2, <1>3, <1>4, WriteKnown
  <2> QED
    BY <1>1, <1>4, <2>1, OverKnown
<1>5. ASSUME UNCHANGED state, Ai!Over(s) PROVE KnownInv'
  <2>1. RowKnown
    BY <1>1, <1>5, GiveUpKnown
  <2> QED
    BY <1>1, <1>5, <2>1, OverKnown
<1>6. ASSUME NEW model \in left, Ai!Asks(s, model), UNCHANGED state,
             errand' = [errand EXCEPT ![s] = Ai!Testing(e, e.models, e.first, left)]
      PROVE  KnownInv'
  <2> DEFINE f == Ai!Testing(e, e.models, e.first, left)
  <2>1. f.models = e.models /\ f.left = left /\ f.first = e.first
    BY DEF Ai!Testing
  <2>2. calls' = [calls EXCEPT ![s] = model] /\ errand' = [errand EXCEPT ![s] = f]
    BY <1>6 DEF Ai!Asks
  <2>3. RowKnown
    BY <1>1, <1>6, GiveUpKnown
  <2>4. model \in Known' /\ left \subseteq listed'
    BY <1>1, <1>2 DEF Known
  <2> HIDE DEF f
  <2> QED
    BY <1>1, <1>2, <1>3, <1>6, <2>1, <2>2, <2>3, <2>4, AskKnown
<1> QED
  BY <1>2, <1>4, <1>5, <1>6 DEF Ai!EndTest

\* A refresh that ends with the client of a former key.
LEMMA ElsewhereKnown ==
    ASSUME KnownInv, NEW s \in Slots, Ai!EndElsewhere(s)
    PROVE  KnownInv'
<1> DEFINE e == errand[s]
<1>1. /\ UNCHANGED <<cache, blind, memory, second>> /\ Ai!Over(s) /\ cache \subseteq listed
  BY DEF Ai!EndElsewhere, KnownInv
<1>2. /\ e.models \subseteq listed /\ e.left \subseteq listed /\ e.first \in Known
  BY DEF KnownInv, ErrandsKnown
<1>3. ASSUME RowKnown, listed \subseteq listed' PROVE KnownInv'
  BY <1>1, <1>3, OverKnown
<1>4. CASE Ai!Retain(e, offer) /\ listed' = listed \union offer
  <2>1. RowKnown
    BY <1>1, <1>4, RetainKnown
  <2> QED
    BY <1>3, <1>4, <2>1
<1>5. ASSUME UNCHANGED listed, NEW text \in {e.first} \union e.left, Ai!Write(e, e.models, text)
      PROVE  KnownInv'
  <2>1. text \in Known'
    BY <1>1, <1>2, <1>5 DEF Known
  <2>2. RowKnown
    BY <1>1, <1>2, <1>5, <2>1, WriteKnown
  <2> QED
    BY <1>3, <1>5, <2>2
<1>6. CASE (Ai!GiveUp(e) \/ UNCHANGED state) /\ UNCHANGED listed
  <2>1. RowKnown
    BY <1>1, <1>6, GiveUpKnown
  <2> QED
    BY <1>3, <1>6, <2>1
<1> QED
  BY <1>4, <1>5, <1>6 DEF Ai!EndElsewhere

\* Every step keeps what may be called among what is known.
LEMMA StepKnown == KnownInv /\ [Ai!Next]_modelled => KnownInv'
<1> SUFFICES ASSUME KnownInv, [Ai!Next]_modelled PROVE KnownInv'
  OBVIOUS
<1>1. ASSUME NEW s \in Slots, Ai!RefreshModels(s) \/ Ai!SetAuto(s) PROVE KnownInv'
  BY <1>1, StartKnown DEF Ai!RefreshModels, Ai!SetAuto
<1>2. ASSUME NEW s \in Slots, Ai!Unlisted(s) PROVE KnownInv'
  <2>1. /\ UNCHANGED <<listed, cache, blind, memory, second>> /\ Ai!Over(s)
        /\ cache \subseteq listed
        /\ Ai!GiveUp(errand[s]) \/ UNCHANGED state
    BY <1>2 DEF Ai!Unlisted, KnownInv
  <2>2. RowKnown
    BY <2>1, GiveUpKnown
  <2> QED
    BY <2>1, <2>2, OverKnown
<1>3. ASSUME UNCHANGED <<state, memory, second, calls, errand, listed, blind>>,
             cache' \in {cache, {}}
      PROVE  KnownInv'
  BY <1>3 DEF KnownInv, ErrandsKnown, Known, Ai!NamedFree
<1>4. CASE Ai!Configure
  BY <1>4 DEF Ai!Configure, KnownInv, ErrandsKnown, Known, Ai!NamedFree
<1>5. CASE Ai!SetApiKey
  <2>1. /\ calls' = [s \in Slots |-> Ai!NoModel] /\ cache' = {}
        /\ UNCHANGED <<state, memory, second, errand, listed, blind>>
    BY <1>5 DEF Ai!SetApiKey, Ai!told
  <2> QED
    BY <2>1 DEF KnownInv, ErrandsKnown, Known, Ai!NamedFree
<1>6. ASSUME NEW model \in Models, Ai!SetManual(model) PROVE KnownInv'
  <2>1. /\ state'.text = model /\ state'.free = state.free
        /\ state' = [auto |-> state'.auto, text |-> state'.text, free |-> state'.free]
        /\ UNCHANGED <<cache, memory, second, calls, errand, listed>>
    BY <1>6 DEF Ai!SetManual, KnownInv
  <2>2. model \in Known' /\ blind \subseteq blind'
    BY <1>6 DEF Ai!SetManual, Ai!Allowed, KnownInv, Known
  <2> QED
    BY <2>1, <2>2 DEF KnownInv, ErrandsKnown, Known, Ai!NamedFree
<1>7. ASSUME NEW model \in Models, Ai!SetSecond(model) PROVE KnownInv'
  BY <1>7 DEF Ai!SetSecond, KnownInv, ErrandsKnown, Known, Ai!NamedFree
<1>8. ASSUME NEW s \in Slots, Ai!Begin(s) PROVE KnownInv'
  <2>1. PICK model \in {state.text, memory, second} : calls' = [calls EXCEPT ![s] = model]
    BY <1>8 DEF Ai!Begin, Ai!Asks
  <2>2. UNCHANGED <<state, memory, second, cache, errand, listed, blind>>
    BY <1>8 DEF Ai!Begin, Ai!told
  <2>3. model \in Known
    BY <2>1 DEF KnownInv
  <2> QED
    BY <2>1, <2>2, <2>3 DEF KnownInv, ErrandsKnown, Known, Ai!NamedFree
<1>9. ASSUME NEW s \in Slots, Ai!End(s) PROVE KnownInv'
  <2>1. /\ UNCHANGED <<state, memory, second, cache, errand, listed, blind>>
        /\ calls' = [calls EXCEPT ![s] = Ai!NoModel]
    BY <1>9 DEF Ai!End, Ai!told, Ai!Asks
  <2> QED
    BY <2>1 DEF KnownInv, ErrandsKnown, Known, Ai!NamedFree
<1>10. CASE Ai!Cool \/ Ai!Change \/ UNCHANGED modelled
  <2>1. UNCHANGED <<state, memory, second, calls, errand, listed, blind>> /\ cache' \in {cache, {}}
    BY <1>10 DEF Ai!Cool, Ai!Change, Ai!told, modelled
  <2> QED
    BY <1>3, <2>1
<1> QED
  BY <1>1, <1>2, <1>4, <1>5, <1>6, <1>7, <1>8, <1>9, <1>10,
     ReceiveKnown, EndTestKnown, ElsewhereKnown DEF Ai!Next

\* No call is ever made to a model that no list showed as free and the user did not
\* name, whatever the lists, the choices of the user and the calls that overlap.
THEOREM CallsAreNamed == Spec => []NamedFree
<1>1. Init => KnownInv
  BY InitKnown DEF Init
<1>2. KnownInv /\ [Next]_vars => KnownInv'
  BY StepKnown, OneAtWork
<1>3. KnownInv => NamedFree
  BY DEF KnownInv, NamedFree
<1> QED
  BY <1>1, <1>2, <1>3, PTL DEF Spec

-----------------------------------------------------------------------------
(* AiModels: the breaker.                                                  *)

UnderWay == {s \in Slots : calls[s] # Ai!NoModel}

BreakerType ==
    /\ breaker = [failures |-> breaker.failures, open |-> breaker.open]
    /\ breaker.failures \in Nat /\ breaker.open \in BOOLEAN

\* Closed, the breaker is below the threshold; open, it only hears of the calls that
\* had left, each one once.
BreakerInv ==
    /\ calls = [s \in Slots |-> calls[s]]
    /\ BreakerType
    /\ IF breaker.open
       THEN breaker.failures + Cardinality(UnderWay) < FailureThreshold + Cardinality(Slots)
       ELSE breaker.failures < FailureThreshold

\* The slots are finite, and counted alike here and in AiModels.
LEMMA SlotsCounted ==
    /\ IsFiniteSet(Slots) /\ Cardinality(Slots) \in Nat
    /\ Ai!Cardinality(Slots) = Cardinality(Slots)
    /\ FailureThreshold \in Nat \ {0}
<1>1. IsFiniteSet(Slots)
  BY AiBounds DEF Ai!AiAssumption, Ai!IsFiniteSet, IsFiniteSet
<1>2. Ai!Cardinality(Slots) = Cardinality(Slots)
  BY DEF Ai!Cardinality, Cardinality
<1>3. FailureThreshold \in Nat \ {0}
  BY AiBounds DEF Ai!AiAssumption
<1> QED
  BY <1>1, <1>2, <1>3, FS_CardinalityType

\* The calls under way are some of the slots.
LEMMA FewUnderWay ==
    \A S \in SUBSET Slots :
        /\ IsFiniteSet(S) /\ Cardinality(S) \in Nat
        /\ Cardinality(S) <= Cardinality(Slots)
  BY SlotsCounted, FS_Subset, FS_CardinalityType

\* A breaker that closes is in order whatever is under way.
LEMMA BreakerClosed ==
    ASSUME calls' = [s \in Slots |-> calls'[s]], breaker' = Ai!Closed
    PROVE  BreakerInv'
<1>1. /\ breaker'.failures = 0 /\ breaker'.open = FALSE
      /\ breaker' = [failures |-> breaker'.failures, open |-> breaker'.open]
  BY DEF Ai!Closed
<1>2. BreakerType'
  <2>1. breaker'.failures \in Nat
    BY <1>1
  <2>2. breaker'.open \in BOOLEAN
    BY <1>1
  <2> QED
    BY <1>1, <2>1, <2>2 DEF BreakerType
<1>3. breaker'.failures < FailureThreshold /\ ~breaker'.open
  BY <1>1, SlotsCounted
<1> QED
  BY <1>2, <1>3 DEF BreakerInv

\* One failure is noted: it opens a closed breaker at the threshold, and then what failed
\* is under way no more; an open one notes only the end of what had left.
LEMMA BreakerFails ==
    ASSUME BreakerInv, calls' = [s \in Slots |-> calls'[s]], breaker' = Ai!Failing(1),
           \/ ~breaker'.open
           \/ Cardinality(UnderWay)' + 1 <= Cardinality(UnderWay)
    PROVE  BreakerInv'
<1>1. /\ Cardinality(UnderWay)' \in Nat /\ Cardinality(Slots) \in Nat
      /\ Cardinality(UnderWay)' <= Cardinality(Slots)
      /\ Cardinality(UnderWay) \in Nat /\ Cardinality(UnderWay) <= Cardinality(Slots)
  BY FewUnderWay, SlotsCounted DEF UnderWay
<1>2. /\ breaker'.failures = breaker.failures + 1
      /\ breaker'.open = (breaker.open \/ breaker.failures + 1 >= FailureThreshold)
      /\ breaker' = [failures |-> breaker'.failures, open |-> breaker'.open]
  BY DEF Ai!Failing
<1>3. breaker.failures \in Nat /\ breaker.open \in BOOLEAN
  BY DEF BreakerInv, BreakerType
<1>4. BreakerType'
  <2>1. breaker'.open \in BOOLEAN
    BY <1>2
  <2> QED
    BY <1>2, <1>3, <2>1 DEF BreakerType
<1>5. CASE breaker.open
  <2>1. breaker'.open
    BY <1>2, <1>5
  <2> QED
    BY <1>1, <1>2, <1>3, <1>4, <1>5, <2>1, SlotsCounted DEF BreakerInv
<1>6. CASE ~breaker.open
  <2>1. breaker.failures < FailureThreshold
    BY <1>6 DEF BreakerInv
  <2>2. CASE breaker.failures + 1 >= FailureThreshold
    <3>1. breaker'.open
      BY <1>2, <2>2
    <3> QED
      BY <1>1, <1>2, <1>3, <1>4, <2>1, <2>2, <3>1, SlotsCounted DEF BreakerInv
  <2>3. CASE ~(breaker.failures + 1 >= FailureThreshold)
    <3>1. ~breaker'.open
      BY <1>2, <1>6, <2>3
    <3> QED
      BY <1>2, <1>3, <1>4, <2>3, <3>1, SlotsCounted DEF BreakerInv
  <2> QED
    BY <2>2, <2>3
<1> QED
  BY <1>5, <1>6

\* A breaker that is left alone, while calls only end if it is open.
LEMMA BreakerKept ==
    ASSUME BreakerInv, calls' = [s \in Slots |-> calls'[s]], UNCHANGED breaker,
           ~breaker.open \/ Cardinality(UnderWay)' <= Cardinality(UnderWay)
    PROVE  BreakerInv'
<1>1. /\ Cardinality(UnderWay)' \in Nat /\ Cardinality(Slots) \in Nat
      /\ Cardinality(UnderWay) \in Nat
  BY FewUnderWay, SlotsCounted DEF UnderWay
<1> QED
  BY <1>1, SlotsCounted DEF BreakerInv, BreakerType

\* A slot whose call ends is under way no more.
LEMMA OneEnds ==
    ASSUME NEW s \in Slots, calls = [x \in Slots |-> calls[x]], calls[s] # Ai!NoModel,
           calls' = [calls EXCEPT ![s] = Ai!NoModel]
    PROVE  /\ calls' = [x \in Slots |-> calls'[x]]
           /\ Cardinality(UnderWay)' + 1 <= Cardinality(UnderWay)
<1>1. UnderWay' = UnderWay \ {s} /\ s \in UnderWay
  BY DEF UnderWay
<1>2. IsFiniteSet(UnderWay) /\ Cardinality(UnderWay) \in Nat
  BY FewUnderWay DEF UnderWay
<1>3. Cardinality(UnderWay \ {s}) = Cardinality(UnderWay) - 1
  BY <1>1, <1>2, FS_RemoveElement
<1> QED
  BY <1>1, <1>2, <1>3

\* What a slot asks is answered: it asks something else, if the breaker is closed, or
\* nothing.
LEMMA BreakerAnswered ==
    ASSUME BreakerInv, NEW s \in Slots, calls[s] # Ai!NoModel, NEW what,
           calls' = [calls EXCEPT ![s] = what], what = Ai!NoModel \/ ~breaker'.open,
           breaker' \in Ai!Outcomes
    PROVE  BreakerInv'
<1>1. calls = [x \in Slots |-> calls[x]] /\ calls' = [x \in Slots |-> calls'[x]]
  BY DEF BreakerInv
<1>2. \/ ~breaker'.open
      \/ Cardinality(UnderWay)' + 1 <= Cardinality(UnderWay)
  BY <1>1, OneEnds
<1>3. Cardinality(UnderWay)' \in Nat /\ Cardinality(UnderWay) \in Nat
  BY FewUnderWay DEF UnderWay
<1>4. CASE breaker' = Ai!Closed
  BY <1>1, <1>4, BreakerClosed
<1>5. CASE breaker' = Ai!Failing(1)
  BY <1>1, <1>2, <1>5, BreakerFails
<1>6. CASE breaker' = breaker
  BY <1>1, <1>2, <1>3, <1>6, BreakerKept
<1> QED
  BY <1>4, <1>5, <1>6 DEF Ai!Outcomes

\* Every step keeps the account of the failures.
LEMMA StepBreaker == BreakerInv /\ [Ai!Next]_modelled => BreakerInv'
<1> SUFFICES ASSUME BreakerInv, [Ai!Next]_modelled PROVE BreakerInv'
  OBVIOUS
<1>1. calls = [s \in Slots |-> calls[s]]
  BY DEF BreakerInv
<1>2. CASE UNCHANGED <<breaker, calls>>
  <2>1. UnderWay' = UnderWay
    BY <1>2 DEF UnderWay
  <2> QED
    BY <1>2, <2>1 DEF BreakerInv, BreakerType
<1>3. CASE Ai!Cool \/ Ai!SetApiKey
  <2>1. breaker' = Ai!Closed /\ calls' = [s \in Slots |-> calls'[s]]
    BY <1>1, <1>3 DEF Ai!Cool, Ai!SetApiKey
  <2> QED
    BY <2>1, BreakerClosed
<1>4. ASSUME NEW s \in Slots, NEW what, calls' = [calls EXCEPT ![s] = what], Ai!Ready,
             UNCHANGED breaker
      PROVE  BreakerInv'
  <2>1. calls' = [x \in Slots |-> calls'[x]] /\ ~breaker.open
    BY <1>1, <1>4 DEF Ai!Ready
  <2> QED
    BY <1>4, <2>1, BreakerKept
<1>5. ASSUME NEW s \in Slots, NEW auto, NEW force, NEW tests, Ai!Start(s, auto, force, tests)
      PROVE  BreakerInv'
  <2>1. UNCHANGED breaker /\ (UNCHANGED calls \/ (Ai!Ready /\ Ai!Asks(s, Ai!List)))
    BY <1>5 DEF Ai!Start
  <2> QED
    BY <1>2, <1>4, <2>1 DEF Ai!Asks
<1>6. ASSUME NEW s \in Slots, Ai!RefreshModels(s) \/ Ai!SetAuto(s) PROVE BreakerInv'
  BY <1>5, <1>6 DEF Ai!RefreshModels, Ai!SetAuto
<1>7. ASSUME NEW s \in Slots, Ai!Begin(s) PROVE BreakerInv'
  BY <1>4, <1>7 DEF Ai!Begin, Ai!Asks
<1>8. ASSUME NEW s \in Slots, Ai!Receive(s) PROVE BreakerInv'
  <2>1. breaker' = Ai!Closed /\ \E what : calls' = [calls EXCEPT ![s] = what]
    BY <1>8 DEF Ai!Receive, Ai!Over, Ai!Asks
  <2>2. calls' = [x \in Slots |-> calls'[x]]
    BY <1>1, <2>1
  <2> QED
    BY <2>1, <2>2, BreakerClosed
<1>9. ASSUME NEW s \in Slots, Ai!Unlisted(s) \/ Ai!EndTest(s) \/ Ai!End(s) PROVE BreakerInv'
  <2>1. calls[s] # Ai!NoModel /\ breaker' \in Ai!Outcomes
    BY <1>9 DEF Ai!Unlisted, Ai!EndTest, Ai!End, Ai!Outcomes, Ai!List, Ai!NoModel
  <2>2. \E what : /\ calls' = [calls EXCEPT ![s] = what]
                  /\ what = Ai!NoModel \/ ~breaker'.open
    BY <1>9 DEF Ai!Unlisted, Ai!EndTest, Ai!End, Ai!Over, Ai!Asks, Ai!Ready
  <2> QED
    BY <2>1, <2>2, BreakerAnswered
<1>10. ASSUME NEW s \in Slots, Ai!EndElsewhere(s) PROVE BreakerInv'
  <2>1. UNCHANGED breaker /\ calls[s] = Ai!NoModel /\ calls' = [calls EXCEPT ![s] = Ai!NoModel]
    BY <1>10 DEF Ai!EndElsewhere, Ai!Over, Ai!Asks
  <2>2. calls' = calls
    BY <1>1, <2>1
  <2> QED
    BY <1>2, <2>1, <2>2
<1>11. CASE Ai!Configure \/ Ai!Change \/ UNCHANGED modelled
  BY <1>2, <1>11 DEF Ai!Configure, Ai!Change, modelled
<1>12. ASSUME NEW model \in Models, Ai!SetManual(model) \/ Ai!SetSecond(model) PROVE BreakerInv'
  BY <1>2, <1>12 DEF Ai!SetManual, Ai!SetSecond
<1> QED
  BY <1>3, <1>6, <1>7, <1>8, <1>9, <1>10, <1>11, <1>12 DEF Ai!Next

\* A service that fails only hears of what had already left, with any number of calls at
\* once, whatever their order and whatever the lists and the keys in between.
THEOREM FailingIsSpared == Spec => []Spared
<1>1. Init => BreakerInv
  <2> SUFFICES ASSUME Ai!Init PROVE BreakerInv
    BY DEF Init
  <2>1. breaker = [failures |-> 0, open |-> FALSE] /\ calls = [s \in Slots |-> Ai!NoModel]
    BY DEF Ai!Init
  <2> QED
    BY <2>1, SlotsCounted DEF BreakerInv, BreakerType
<1>2. BreakerInv /\ [Next]_vars => BreakerInv'
  BY StepBreaker, OneAtWork
<1>3. BreakerInv => Spared
  <2>1. Cardinality(UnderWay) \in Nat
    BY FewUnderWay DEF UnderWay
  <2> QED
    BY <2>1, SlotsCounted DEF BreakerInv, BreakerType, Spared, Ai!Spared
<1> QED
  BY <1>1, <1>2, <1>3, PTL DEF Spec

-----------------------------------------------------------------------------
(* RiskGate.                                                               *)

\* A set of numbers has a first element.
LEMMA FirstOf ==
    ASSUME NEW S \in SUBSET Nat, S # {}
    PROVE  \E n \in S : \A m \in S : n <= m
<1> DEFINE Below == OpToRel(<, Nat)
<1>1. PICK n \in S : \A m \in S : <<m, n>> \notin Below
  <2> HIDE DEF Below
  <2>1. IsWellFoundedOn(Below, Nat)
    BY NatLessThanWellFounded DEF Below
  <2> QED
    BY <2>1, WFMin
<1>2. \A m \in S : ~(m < n)
  BY <1>1 DEF OpToRel
<1>3. \A m \in S : n <= m
  BY <1>2
<1> QED
  BY <1>3

\* The two refusals that are about the size: where the evaluation stops, it has passed
\* the barriers before.
LEMMA SizeRefusals ==
    ASSUME NEW signal, NEW d, NEW held, NEW lot
    PROVE  /\ Gate!Verdict(signal, d, held, lot) = "INVALID_VOLUME" =>
                lot = 0 /\ ~Gate!DailyRiskReached(d)
           /\ Gate!Verdict(signal, d, held, lot) = "RISK_TOO_HIGH" =>
                2 * lot * signal.cost > 3 * RiskPercent
<1> DEFINE barriers == Gate!Barriers(signal, d, held, lot)
           shut == {n \in DOMAIN barriers : barriers[n].shut}
<1>1. /\ DOMAIN barriers = 1..12
      /\ barriers[9].shut = (lot = 0)
      /\ barriers[5].shut = Gate!DailyRiskReached(d)
      /\ barriers[10].shut = (2 * lot * signal.cost > 3 * RiskPercent)
      /\ \A n \in 1..12 : /\ barriers[n].why = "INVALID_VOLUME" => n = 9
                          /\ barriers[n].why = "RISK_TOO_HIGH" => n = 10
  BY DEF Gate!Barriers
<1>2. Gate!Verdict(signal, d, held, lot)
        = IF shut = {} THEN Gate!Approved ELSE barriers[Gate!Min(shut)].why
  BY DEF Gate!Verdict
<1> HIDE DEF barriers
<1>3. CASE shut = {}
  BY <1>2, <1>3 DEF Gate!Approved
<1>4. CASE shut # {}
  <2>1. shut \in SUBSET Nat
    BY <1>1
  <2>2. Gate!Min(shut) \in shut /\ \A m \in shut : Gate!Min(shut) <= m
    <3> HIDE DEF shut
    <3> QED
      BY <1>4, <2>1, FirstOf DEF Gate!Min
  <2>3. Gate!Verdict(signal, d, held, lot) = barriers[Gate!Min(shut)].why
    BY <1>2, <1>4
  <2>4. ASSUME Gate!Min(shut) = 9 PROVE barriers[9].shut /\ ~barriers[5].shut
    <3>1. 9 \in shut /\ 5 \notin shut
      BY <2>2, <2>4
    <3> QED
      BY <1>1, <3>1
  <2>5. ASSUME Gate!Min(shut) = 10 PROVE barriers[10].shut
    BY <2>2, <2>5
  <2>6. ASSUME barriers[Gate!Min(shut)].why = "INVALID_VOLUME"
        PROVE  lot = 0 /\ ~Gate!DailyRiskReached(d)
    <3>1. Gate!Min(shut) = 9
      BY <1>1, <2>1, <2>2, <2>6
    <3> QED
      BY <1>1, <2>4, <3>1
  <2>7. ASSUME barriers[Gate!Min(shut)].why = "RISK_TOO_HIGH"
        PROVE  2 * lot * signal.cost > 3 * RiskPercent
    <3>1. Gate!Min(shut) = 10
      BY <1>1, <2>1, <2>2, <2>7
    <3> QED
      BY <1>1, <2>5, <3>1
  <2> QED
    BY <2>3, <2>6, <2>7
<1> QED
  BY <1>3, <1>4

\* A product grows with each of its factors.
LEMMA ProductGrows ==
    ASSUME NEW a \in Int, NEW b \in Int, NEW c \in Nat, a <= b
    PROVE  a * c <= b * c
  OBVIOUS

\* A division rounds down.
LEMMA RoundsDown ==
    ASSUME NEW risk \in Nat, NEW cost \in Nat \ {0}
    PROVE  LET steps == risk \div (8 * cost)
           IN  steps \in Nat /\ 8 * (steps * cost) <= risk /\ risk < 8 * ((steps + 1) * cost)
<1> DEFINE unit == 8 * cost
           steps == risk \div unit
<1>1. unit \in Nat \ {0}
  OBVIOUS
<1>2. steps \in Nat /\ steps * unit <= risk /\ risk < (steps + 1) * unit
  <2> HIDE DEF unit
  <2> QED
    BY <1>1
<1>3. steps * unit = 8 * (steps * cost) /\ (steps + 1) * unit = 8 * ((steps + 1) * cost)
  <2> HIDE DEF steps
  <2> QED
    BY <1>2
<1> QED
  BY <1>2, <1>3

\* A volume is the most that its risk pays for, within the limits.
LEMMA VolumeBounds ==
    ASSUME NEW risk \in Int, NEW cost \in Nat \ {0}
    PROVE  LET volume == Gate!CalculateLot(risk, cost)
           IN  /\ volume \in Nat
               /\ volume = 0 => \/ risk <= 0 \/ MaxLot < VolumeMin
                                \/ risk < 8 * (VolumeMin * cost)
               /\ risk >= 0 => 8 * (volume * cost) <= risk
<1> DEFINE steps == risk \div (8 * cost)
           volume == Gate!CalculateLot(risk, cost)
<1>1. VolumeMin \in Nat \ {0} /\ MaxLot \in Nat
  BY GateBounds DEF Gate!GateAssumption
<1>2. CASE risk <= 0
  BY <1>2 DEF Gate!CalculateLot
<1>3. CASE risk > 0
  <2>1. risk \in Nat
    BY <1>3
  <2>2. steps \in Nat /\ 8 * (steps * cost) <= risk /\ risk < 8 * ((steps + 1) * cost)
    BY <2>1, RoundsDown
  <2>3. volume = LET most == IF steps < MaxLot THEN steps ELSE MaxLot
                 IN  IF most < VolumeMin THEN 0 ELSE most
    BY <1>3 DEF Gate!CalculateLot, Gate!Lowest, Gate!RoundToStep, Gate!Whole
  <2> HIDE DEF steps, volume
  <2>4. volume \in Nat /\ volume <= steps
    BY <1>1, <2>2, <2>3
  <2>5. volume * cost <= steps * cost
    BY <2>2, <2>4, ProductGrows
  <2>6. (volume * cost) \in Int /\ (steps * cost) \in Int
    BY <2>2, <2>4
  <2>7. 8 * (volume * cost) <= risk
    BY <2>2, <2>5, <2>6
  <2>8. ASSUME volume = 0, MaxLot >= VolumeMin PROVE risk < 8 * (VolumeMin * cost)
    <3>1. steps + 1 <= VolumeMin
      BY <1>1, <2>2, <2>3, <2>8
    <3>2. (steps + 1) * cost <= VolumeMin * cost
      BY <1>1, <2>2, <3>1, ProductGrows
    <3>3. ((steps + 1) * cost) \in Int /\ (VolumeMin * cost) \in Int
      BY <1>1, <2>2
    <3> QED
      BY <2>2, <3>2, <3>3
  <2>9. volume = 0 => MaxLot < VolumeMin \/ risk < 8 * (VolumeMin * cost)
    BY <1>1, <2>8
  <2> QED
    BY <2>4, <2>7, <2>9 DEF volume
<1> QED
  BY <1>2, <1>3

\* The quality reduces, and never to nothing.
LEMMA QualityBounds ==
    ASSUME NEW signal \in Gate!Signals, NEW d, d.losses \in Nat
    PROVE  Gate!Quality(signal, d) \in 1..8
<1>1. QualityFloor \in 0..8
  BY GateBounds DEF Gate!GateAssumption, Gate!Whole
<1>2. signal.merit \in {4, 6, 8}
  BY DEF Gate!Signals, Gate!Merits
<1>3. Gate!StreakFactor(d.losses) \in {4, 6, 8}
  BY DEF Gate!StreakFactor, Gate!Highest, Gate!Whole
<1>4. (signal.merit * Gate!StreakFactor(d.losses)) \div 8 \in 1..8
  BY <1>2, <1>3
<1> QED
  BY <1>1, <1>4 DEF Gate!Quality, Gate!Highest, Gate!Whole

\* The risk a size is computed with: positive while the day has some left, and at most
\* the configured one.
LEMMA RiskBounds ==
    ASSUME NEW signal \in Gate!Signals, NEW d, d.losses \in Nat, d.risked \in Int
    PROVE  /\ Gate!SizedRisk(signal, d) \in 0..(8 * RiskPercent)
           /\ ~Gate!DailyRiskReached(d) => Gate!SizedRisk(signal, d) > 0
           /\ ~dynamic => Gate!SizedRisk(signal, d) = 8 * RiskPercent
<1> DEFINE quality == Gate!Quality(signal, d)
           planned == RiskPercent * quality
           left == Gate!Highest(8 * (MaxDailyRisk - d.risked), 0)
<1>1. RiskPercent \in Nat \ {0} /\ MaxDailyRisk \in Nat
  BY GateBounds DEF Gate!GateAssumption
<1>2. quality \in 1..8
  BY QualityBounds
<1>3. planned \in 1..(8 * RiskPercent)
  <2> HIDE DEF quality
  <2>1. quality \in {1, 2, 3, 4, 5, 6, 7, 8}
    BY <1>2
  <2> QED
    BY <1>1, <2>1
<1>4. left \in Nat /\ (d.risked < MaxDailyRisk => left > 0)
  BY <1>1 DEF Gate!Highest
<1>5. Gate!SizedRisk(signal, d) = IF ~dynamic THEN 8 * RiskPercent
                                  ELSE IF MaxDailyRisk = 0 THEN planned
                                  ELSE IF planned < left THEN planned ELSE left
  BY <1>1 DEF Gate!SizedRisk, Gate!Lowest, Gate!Whole
<1> HIDE DEF planned, left
<1> QED
  BY <1>1, <1>3, <1>4, <1>5 DEF Gate!DailyRiskReached

\* The size never costs more than the configured risk; where there is none, the
\* configured risk does not pay for the broker's minimum, or the limits forbid it.
LEMMA LotBounds ==
    ASSUME NEW signal \in Gate!Signals, NEW d, d.losses \in Nat, d.risked \in Int
    PROVE  LET lot == Gate!Lot(signal, d)
           IN  /\ lot \in Nat
               /\ lot * signal.cost <= RiskPercent
               /\ lot = 0 /\ ~Gate!DailyRiskReached(d) =>
                    VolumeMin * signal.cost > RiskPercent \/ MaxLot < VolumeMin
<1> DEFINE cost == signal.cost
           risk == Gate!SizedRisk(signal, d)
           full == 8 * RiskPercent
           reduced == Gate!CalculateLot(risk, cost)
           whole == Gate!CalculateLot(full, cost)
           alone == dynamic /\ risk < full /\ risk > 0 /\ VolumeMin * cost <= RiskPercent
<1>1. /\ RiskPercent \in Nat \ {0} /\ VolumeMin \in Nat \ {0} /\ MaxLot \in Nat
      /\ cost \in Nat \ {0}
  BY GateBounds DEF Gate!GateAssumption, Gate!Signals
<1>2. full \in Int /\ full > 0
  BY <1>1
<1>3. /\ risk \in 0..full
      /\ ~Gate!DailyRiskReached(d) => risk > 0
      /\ ~dynamic => risk = full
  BY RiskBounds
<1>4. Gate!Lot(signal, d) = IF reduced = 0 /\ alone THEN whole ELSE reduced
  <2>1. RiskPercent * 8 = full
    BY <1>1
  <2> QED
    BY <2>1 DEF Gate!Lot, Gate!ReducedLot, Gate!ReductionAlone, Gate!Whole
<1> HIDE DEF cost, risk, full
<1>5. /\ reduced \in Nat /\ 8 * (reduced * cost) <= risk
      /\ reduced = 0 => risk <= 0 \/ MaxLot < VolumeMin \/ risk < 8 * (VolumeMin * cost)
  BY <1>1, <1>2, <1>3, VolumeBounds
<1>6. /\ whole \in Nat /\ 8 * (whole * cost) <= full
      /\ whole = 0 => MaxLot < VolumeMin \/ full < 8 * (VolumeMin * cost)
  BY <1>1, <1>2, VolumeBounds
<1> HIDE DEF reduced, whole
<1>7. /\ (reduced * cost) \in Int /\ (whole * cost) \in Int /\ (VolumeMin * cost) \in Int
  BY <1>1, <1>5, <1>6
<1>8. full = 8 * RiskPercent
  BY DEF full
<1>9. CASE reduced = 0 /\ alone
  <2>1. 8 * (whole * cost) <= 8 * RiskPercent
    BY <1>6, <1>8
  <2>2. whole = 0 => MaxLot < VolumeMin
    BY <1>1, <1>6, <1>7, <1>8, <1>9
  <2> QED
    BY <1>1, <1>4, <1>6, <1>7, <1>9, <2>1, <2>2 DEF cost
<1>10. CASE ~(reduced = 0 /\ alone)
  <2>1. 8 * (reduced * cost) <= 8 * RiskPercent
    BY <1>1, <1>3, <1>5, <1>7, <1>8
  <2>2. ASSUME reduced = 0, ~Gate!DailyRiskReached(d), ~(VolumeMin * cost > RiskPercent)
        PROVE  MaxLot < VolumeMin
    <3>1. risk > 0 /\ ~alone
      BY <1>3, <1>10, <2>2
    <3>2. risk = full
      BY <1>1, <1>2, <1>3, <1>7, <2>2, <3>1
    <3> QED
      BY <1>1, <1>5, <1>7, <1>8, <2>2, <3>1, <3>2
  <2> QED
    BY <1>1, <1>4, <1>5, <1>7, <1>10, <2>1, <2>2 DEF cost
<1> QED
  BY <1>9, <1>10

\* What the day has counted are numbers.
DayType ==
    /\ day = [risked |-> day.risked, realized |-> day.realized, losses |-> day.losses]
    /\ day.risked \in Int /\ day.losses \in Nat

\* An evaluation keeps the day countable and refuses a size only where it should.
LEMMA StepSized == DayType /\ SizedRight /\ [Gate!Next]_gated => DayType' /\ SizedRight'
<1> SUFFICES ASSUME DayType, SizedRight, [Gate!Next]_gated PROVE DayType' /\ SizedRight'
  OBVIOUS
<1>1. ASSUME NEW signal \in Gate!Signals, Gate!Evaluate(signal)
      PROVE  DayType' /\ SizedRight'
  <2> DEFINE lot == Gate!Lot(signal, day)
             verdict == Gate!Verdict(signal, day, positions, lot)
  <2>1. /\ lot \in Nat /\ lot * signal.cost <= RiskPercent
        /\ lot = 0 /\ ~Gate!DailyRiskReached(day) =>
             VolumeMin * signal.cost > RiskPercent \/ MaxLot < VolumeMin
    BY LotBounds DEF DayType
  <2>2. /\ verdict = "INVALID_VOLUME" => lot = 0 /\ ~Gate!DailyRiskReached(day)
        /\ verdict = "RISK_TOO_HIGH" => 2 * lot * signal.cost > 3 * RiskPercent
    <3> HIDE DEF lot
    <3> QED
      BY SizeRefusals
  <2>3. RiskPercent \in Nat /\ signal.cost \in Nat
    BY GateBounds DEF Gate!GateAssumption, Gate!Signals
  <2>4. /\ last'.signal = signal /\ last'.verdict = verdict
        /\ \/ day' = [day EXCEPT !.risked = @ + lot * signal.cost]
           \/ day' = day
    BY <1>1 DEF Gate!Evaluate
  <2> HIDE DEF lot, verdict
  <2>5. verdict # "RISK_TOO_HIGH"
    <3>1. 2 * lot * signal.cost = 2 * (lot * signal.cost) /\ (lot * signal.cost) \in Int
      BY <2>1, <2>3
    <3> QED
      BY <2>1, <2>2, <2>3, <3>1
  <2>6. SizedRight'
    BY <2>1, <2>2, <2>4, <2>5 DEF SizedRight, Gate!SizedRight
  <2>7. DayType'
    <3>1. (lot * signal.cost) \in Int
      BY <2>1, <2>3
    <3>2. CASE day' = [day EXCEPT !.risked = @ + lot * signal.cost]
      <4>1. /\ day'.risked = day.risked + lot * signal.cost /\ day'.losses = day.losses
            /\ day' = [risked |-> day'.risked, realized |-> day'.realized,
                       losses |-> day'.losses]
        BY <3>2 DEF DayType
      <4> QED
        BY <3>1, <4>1 DEF DayType
    <3> QED
      BY <2>4, <3>2 DEF DayType
  <2> QED
    BY <2>6, <2>7
<1>2. ASSUME NEW n \in DOMAIN positions, NEW sign \in {-1, 1}, Gate!Close(n, sign)
      PROVE  DayType' /\ SizedRight'
  <2>1. UNCHANGED last
    BY <1>2 DEF Gate!Close
  <2>2. /\ day'.risked = day.risked
        /\ day'.losses = day.losses + 1 \/ day'.losses = 0
        /\ day' = [risked |-> day'.risked, realized |-> day'.realized,
                   losses |-> day'.losses]
    BY <1>2 DEF Gate!Close, DayType
  <2> QED
    BY <2>1, <2>2 DEF DayType, SizedRight, Gate!SizedRight
<1>3. CASE UNCHANGED gated
  BY <1>3 DEF gated, DayType, SizedRight, Gate!SizedRight
<1> QED
  BY <1>1, <1>2, <1>3 DEF Gate!Next

\* For every risk, floor, limit and cost: no signal that the configured risk could pay
\* for is refused for its size, and no size trips the rule behind it.
THEOREM SizesAreRight == Spec => []SizedRight
<1>1. Init => DayType /\ SizedRight
  BY DEF Init, Gate!Init, DayType, Gate!Morning, SizedRight, Gate!SizedRight, Gate!Approved
<1>2. DayType /\ SizedRight /\ [Next]_vars => DayType' /\ SizedRight'
  BY StepSized, OneAtWork
<1> QED
  BY <1>1, <1>2, PTL DEF Spec

-----------------------------------------------------------------------------
(* PositionRules.                                                          *)

\* What the position, the rows and the messages are made of.
RowType == [stop : Int, take : Int, tp : 0..Len(Objectives), be : BOOLEAN, closed : BOOLEAN]
RulesType ==
    /\ price \in Int /\ live \in [stop : Int, take : Int, in : BOOLEAN]
    /\ sight \in [stop : Int, take : Int, in : BOOLEAN, price : Int]
    /\ row \in RowType
    /\ copy \in [Rules!Parties -> RowType] /\ base \in [Rules!Parties -> RowType]
    /\ step = [p \in Rules!Parties |-> step[p]]
    /\ message \in [{Rules!Channel, Rules!User} -> Rules!Messages \union {Rules!Silence}]

Alone ==
    \A p, q \in Rules!Parties : step[p] # "idle" /\ step[q] # "idle" => p = q

Same(x, y) == x.stop = y.stop /\ x.take = y.take
Loaded(p) == step[p] \notin {"idle", "load"}
Requested == step[Rules!User] = "apply"

\* The row tells the position while nobody works on it, and the copy of who works tells
\* it afterwards; the request of the user, until it is sent, tells it but for what the
\* user has named.
InStep ==
    /\ (\A p \in Rules!Parties : ~Loaded(p)) \/ Requested => Same(row, live)
    /\ step[Rules!Monitor] = "load" => Same(sight, live)
    /\ \A p \in Rules!Parties : Loaded(p) => base[p] = row
    /\ \A p \in Rules!Parties :
          Loaded(p) /\ ~(p = Rules!User /\ Requested) => Same(copy[p], live)
    /\ Requested => message[Rules!User].kind \in {"MOVE_SL", "MOVE_TP", "MOVE_SL_BE"}
    /\ Requested => IF message[Rules!User].kind = "MOVE_TP"
                    THEN copy[Rules!User].stop = live.stop
                    ELSE copy[Rules!User].take = live.take

ForwardInv == crossed \/ dropped \/ (Alone /\ InStep)

\* A set of numbers that has a bound has a last element.
LEMMA LastOf ==
    ASSUME NEW n \in Nat, NEW S \in SUBSET (0..n), S # {}
    PROVE  \E x \in S : \A m \in S : m <= x
<1> DEFINE T == {n - m : m \in S}
<1>1. T \in SUBSET Nat /\ T # {}
  <2>1. PICK m \in S : TRUE
    OBVIOUS
  <2>2. n - m \in T
    BY <2>1
  <2>3. \A k \in 0..n : n - k \in Nat
    OBVIOUS
  <2> QED
    BY <2>2, <2>3
<1>2. PICK least \in T : \A t \in T : least <= t
  <2> HIDE DEF T
  <2> QED
    BY <1>1, FirstOf
<1>3. PICK x \in S : least = n - x
  BY <1>2
<1>4. \A m \in S : n - x <= n - m
  BY <1>2, <1>3
<1>5. S \subseteq Int
  OBVIOUS
<1>6. ASSUME NEW m \in S PROVE m <= x
  <2>1. m \in Int /\ x \in Int /\ n - x <= n - m
    BY <1>4, <1>5, <1>6
  <2> QED
    BY <2>1
<1>7. \A m \in S : m <= x
  BY <1>6
<1> QED
  BY <1>7

\* The constants of the position.
LEMMA RulesConstants ==
    /\ OpenPrice \in Int /\ FirstStop \in Int /\ Distance \in Int
    /\ Rules!BreakEvenPrice \in Int
    /\ Objectives \in Seq(Int) /\ Len(Objectives) \in Nat
    /\ DOMAIN Objectives = 1..Len(Objectives)
    /\ Rules!Top \in Int
    /\ Rules!Levels \subseteq Int
<1>1. /\ {OpenPrice, FirstStop, Offset, Distance} \subseteq Nat
      /\ Objectives \in Seq(Nat) /\ Objectives # <<>>
  BY RulesBounds DEF Rules!RulesAssumption
<1>2. Rules!Top \in Int
  BY <1>1 DEF Rules!Top, Rules!Last
<1> QED
  BY <1>1, <1>2 DEF Rules!Levels, Rules!BreakEvenPrice

\* The objective announced is one of them, or the one before.
LEMMA AnnouncedType ==
    ASSUME NEW from \in 0..Len(Objectives)
    PROVE  Rules!Announced(from) \in 0..Len(Objectives)
<1> DEFINE passed == {n \in DOMAIN Objectives : n > from /\ sight.price >= Objectives[n]}
           S == passed \union {from}
<1>1. S \in SUBSET (0..Len(Objectives)) /\ S # {} /\ Len(Objectives) \in Nat
  BY RulesConstants
<1>2. \E x \in S : \A m \in S : m <= x
  <2> HIDE DEF S
  <2> QED
    BY <1>1, LastOf
<1>3. \E x \in S : \A m \in passed : m <= x
  BY <1>2
<1>4. Rules!Announced(from) = CHOOSE x \in S : \A m \in passed : m <= x
  BY DEF Rules!Announced
<1>5. Rules!Announced(from) \in S
  <2> HIDE DEF S, passed
  <2> QED
    BY <1>3, <1>4
<1> QED
  BY <1>1, <1>5

\* The levels of a position that is modified are those of the new record, or stay.
LEMMA ModifyType ==
    ASSUME RulesType, NEW p \in Rules!Parties, NEW new \in RowType, Rules!Modify(p, new)
    PROVE  /\ live' \in [stop : Int, take : Int, in : BOOLEAN]
           /\ copy' \in [Rules!Parties -> RowType]
<1>1. CASE UNCHANGED <<live, copy>>
  BY <1>1 DEF RulesType
<1>2. CASE /\ live' = [live EXCEPT !.stop = new.stop, !.take = new.take]
           /\ copy' = [copy EXCEPT ![p] = new]
  <2>1. new.stop \in Int /\ new.take \in Int
    BY DEF RowType
  <2>2. live' \in [stop : Int, take : Int, in : BOOLEAN]
    BY <1>2, <2>1 DEF RulesType
  <2>3. copy' \in [Rules!Parties -> RowType]
    BY <1>2 DEF RulesType
  <2> QED
    BY <2>2, <2>3
<1> QED
  BY <1>1, <1>2 DEF Rules!Modify

\* So do those of a break-even.
LEMMA BreakEvenType ==
    ASSUME RulesType, NEW p \in Rules!Parties, Rules!BreakEven(p)
    PROVE  /\ live' \in [stop : Int, take : Int, in : BOOLEAN]
           /\ copy' \in [Rules!Parties -> RowType]
<1> DEFINE new == [copy[p] EXCEPT !.stop = Rules!BreakEvenPrice, !.be = TRUE]
<1>1. new \in RowType
  BY RulesConstants DEF RulesType, RowType
<1>2. Rules!Modify(p, new) \/ UNCHANGED <<live, copy>>
  BY DEF Rules!BreakEven
<1> HIDE DEF new
<1> QED
  BY <1>1, <1>2, ModifyType DEF RulesType

\* A party that goes on leaves the steps of the others.
LEMMA GotoStep ==
    ASSUME step = [p \in Rules!Parties |-> step[p]], NEW p \in Rules!Parties, NEW where,
           Rules!Goto(p, where)
    PROVE  /\ step' = [q \in Rules!Parties |-> step'[q]]
           /\ step'[p] = where
           /\ \A q \in Rules!Parties \ {p} : step'[q] = step[q]
  BY DEF Rules!Goto

\* The cycle of the monitor keeps the types.
LEMMA MonitorType ==
    ASSUME RulesType,
           \/ Rules!ReadPosition \/ Rules!Load \/ Rules!Flush
           \/ Rules!AutoBreakEven \/ Rules!AutoTrailing
    PROVE  RulesType'
<1>0. Rules!Monitor \in Rules!Parties
  BY DEF Rules!Parties
<1>1. CASE Rules!ReadPosition
  <2>1. step' = [q \in Rules!Parties |-> step'[q]]
    BY <1>0, <1>1, GotoStep DEF Rules!ReadPosition, RulesType
  <2>2. sight' \in [stop : Int, take : Int, in : BOOLEAN, price : Int]
    BY <1>1 DEF Rules!ReadPosition, RulesType
  <2> QED
    BY <1>1, <2>1, <2>2 DEF Rules!ReadPosition, Rules!outside, RulesType
<1>2. CASE Rules!Load
  <2>1. step' = [q \in Rules!Parties |-> step'[q]]
    BY <1>0, <1>2, GotoStep DEF Rules!Load, RulesType
  <2> DEFINE read == IF row.closed THEN row
                     ELSE IF ~sight.in THEN [row EXCEPT !.closed = TRUE]
                     ELSE [row EXCEPT !.stop = sight.stop, !.take = sight.take,
                                      !.tp = Rules!Announced(row.tp)]
  <2>2. read \in RowType
    <3>1. Rules!Announced(row.tp) \in 0..Len(Objectives)
      BY AnnouncedType DEF RulesType, RowType
    <3> QED
      BY <3>1 DEF RulesType, RowType
  <2>3. /\ copy' = [copy EXCEPT ![Rules!Monitor] = read]
        /\ base' = [base EXCEPT ![Rules!Monitor] = row]
    BY <1>2 DEF Rules!Load
  <2> HIDE DEF read
  <2>4. copy' \in [Rules!Parties -> RowType] /\ base' \in [Rules!Parties -> RowType]
    BY <2>2, <2>3 DEF RulesType
  <2> QED
    BY <1>2, <2>1, <2>4 DEF Rules!Load, Rules!outside, RulesType
<1>3. CASE Rules!Flush
  <2>1. step' = [q \in Rules!Parties |-> step'[q]]
    BY <1>0, <1>3, GotoStep DEF Rules!Flush, RulesType
  <2> QED
    BY <1>3, <2>1 DEF Rules!Flush, Rules!outside, RulesType
<1>4. CASE Rules!AutoBreakEven
  <2>1. step' = [q \in Rules!Parties |-> step'[q]]
    BY <1>0, <1>4, GotoStep DEF Rules!AutoBreakEven, RulesType
  <2>2. /\ live' \in [stop : Int, take : Int, in : BOOLEAN]
        /\ copy' \in [Rules!Parties -> RowType]
    <3>1. Rules!BreakEven(Rules!Monitor) \/ UNCHANGED <<live, copy>>
      BY <1>4 DEF Rules!AutoBreakEven
    <3> QED
      BY <1>0, <3>1, BreakEvenType DEF RulesType
  <2> QED
    BY <1>4, <2>1, <2>2 DEF Rules!AutoBreakEven, Rules!outside, RulesType
<1>5. CASE Rules!AutoTrailing
  <2>1. step' = [q \in Rules!Parties |-> step'[q]]
    BY <1>0, <1>5, GotoStep DEF Rules!AutoTrailing, RulesType
  <2> DEFINE own == copy[Rules!Monitor]
             near == [own EXCEPT !.stop = price - Distance]
             ladder == [own EXCEPT !.stop = Rules!Rung, !.be = TRUE]
  <2>2. own \in RowType
    BY <1>0 DEF RulesType
  <2>3. near \in RowType
    <3>1. (price - Distance) \in Int
      BY RulesConstants DEF RulesType
    <3> HIDE DEF own
    <3> QED
      BY <2>2, <3>1 DEF RowType
  <2>4. Rules!Climbs => ladder \in RowType
    <3>1. ASSUME own.tp >= 1 PROVE Rules!Rung \in Int
      BY <2>2, <3>1, RulesConstants DEF Rules!Rung, RowType
    <3> QED
      BY <2>2, <3>1 DEF Rules!Climbs, RowType
  <2>5. \/ Rules!Modify(Rules!Monitor, near)
        \/ Rules!Climbs /\ Rules!Modify(Rules!Monitor, ladder)
        \/ UNCHANGED <<live, copy>>
    BY <1>5 DEF Rules!AutoTrailing
  <2> HIDE DEF near, ladder
  <2>6. /\ live' \in [stop : Int, take : Int, in : BOOLEAN]
        /\ copy' \in [Rules!Parties -> RowType]
    BY <1>0, <2>3, <2>4, <2>5, ModifyType DEF RulesType
  <2> QED
    BY <1>5, <2>1, <2>6 DEF Rules!AutoTrailing, Rules!outside, RulesType
<1> QED
  BY <1>1, <1>2, <1>3, <1>4, <1>5

\* What a message says is a level, or an objective that has been passed.
LEMMA MessageValues ==
    ASSUME NEW m \in Rules!Messages \union {Rules!Silence}
    PROVE  /\ m.value \in Int
           /\ m.kind = "TP_HIT" => m.value \in DOMAIN Objectives
           /\ m.kind \in {"MOVE_SL", "MOVE_TP", "MOVE_SL_BE", "TP_HIT", "INFO"}
           /\ m.kind = "INFO" => m = Rules!Silence
           /\ m \in Rules!Requests => m.kind \in {"MOVE_SL", "MOVE_TP", "MOVE_SL_BE"}
<1>1. CASE m \in [kind : {"MOVE_SL", "MOVE_TP"}, value : Rules!Levels, also : {FALSE}]
  <2>1. m.kind \in {"MOVE_SL", "MOVE_TP"} /\ m.value \in Int
    BY <1>1, RulesConstants
  <2> QED
    BY <2>1
<1>2. CASE m \in [kind : {"MOVE_SL_BE"}, value : {0}, also : {FALSE}]
  <2>1. m.kind = "MOVE_SL_BE" /\ m.value = 0
    BY <1>2
  <2> QED
    BY <2>1
<1>3. CASE m \in [kind : {"TP_HIT"}, value : DOMAIN Objectives, also : BOOLEAN]
  <2>1. m.kind = "TP_HIT" /\ m.value \in DOMAIN Objectives /\ m.value \in Int
    BY <1>3, RulesConstants
  <2> QED
    BY <2>1 DEF Rules!Requests
<1>4. CASE m = Rules!Silence
  <2>1. m.kind = "INFO" /\ m.value = 0
    BY <1>4 DEF Rules!Silence
  <2>2. m \notin Rules!Messages
    <3> SUFFICES ASSUME m \in Rules!Messages PROVE FALSE
      OBVIOUS
    <3>1. m.kind # "INFO"
      BY DEF Rules!Messages
    <3> QED
      BY <2>1, <3>1
  <2> QED
    BY <1>4, <2>1, <2>2 DEF Rules!Requests
<1> QED
  BY <1>1, <1>2, <1>3, <1>4 DEF Rules!Messages

\* A message is received or ends, those of the others stay.
LEMMA MessageKept ==
    ASSUME RulesType, NEW m \in Rules!Messages \union {Rules!Silence},
           NEW p \in {Rules!Channel, Rules!User}, message' = [message EXCEPT ![p] = m]
    PROVE  message' \in [{Rules!Channel, Rules!User} -> Rules!Messages \union {Rules!Silence}]
  BY DEF RulesType

\* The market and the messages of the channel keep the types.
LEMMA ChannelType ==
    ASSUME RulesType,
           \/ \E p \in Rules!Levels : Rules!Move(p)
           \/ \E m \in Rules!Messages : Rules!Receive(m)
           \/ Rules!FollowUp \/ Rules!TpHit \/ Rules!TpProtect
    PROVE  RulesType'
<1>0. Rules!Channel \in Rules!Parties
  BY DEF Rules!Parties
<1>1. ASSUME NEW p \in Rules!Levels, Rules!Move(p) PROVE RulesType'
  <2>1. price' \in Int
    BY <1>1, RulesConstants DEF Rules!Move
  <2>2. live' \in [stop : Int, take : Int, in : BOOLEAN]
    BY <1>1 DEF Rules!Move, RulesType
  <2> QED
    BY <1>1, <2>1, <2>2 DEF Rules!Move, RulesType
<1>2. ASSUME NEW m \in Rules!Messages, Rules!Receive(m) PROVE RulesType'
  <2>1. step' = [q \in Rules!Parties |-> step'[q]]
    BY <1>0, <1>2, GotoStep DEF Rules!Receive, RulesType
  <2>2. message' \in [{Rules!Channel, Rules!User} -> Rules!Messages \union {Rules!Silence}]
    BY <1>2, MessageKept DEF Rules!Receive
  <2>3. copy' \in [Rules!Parties -> RowType] /\ base' \in [Rules!Parties -> RowType]
    BY <1>2 DEF Rules!Receive, RulesType
  <2> QED
    BY <1>2, <2>1, <2>2, <2>3 DEF Rules!Receive, RulesType
<1>3. CASE Rules!FollowUp
  <2>1. step' = [q \in Rules!Parties |-> step'[q]]
    BY <1>0, <1>3, GotoStep DEF Rules!FollowUp, RulesType
  <2> DEFINE own == copy[Rules!Channel]
             said == message[Rules!Channel].value
             stopped == [own EXCEPT !.stop = said]
             taken == [own EXCEPT !.take = said]
  <2>2. own \in RowType /\ said \in Int
    BY <1>0, MessageValues DEF RulesType
  <2>3. stopped \in RowType /\ taken \in RowType
    <3> HIDE DEF own, said
    <3> QED
      BY <2>2 DEF RowType
  <2>4. \/ Rules!Modify(Rules!Channel, stopped) \/ Rules!Modify(Rules!Channel, taken)
        \/ Rules!BreakEven(Rules!Channel)
    BY <1>3 DEF Rules!FollowUp
  <2> HIDE DEF stopped, taken
  <2>5. /\ live' \in [stop : Int, take : Int, in : BOOLEAN]
        /\ copy' \in [Rules!Parties -> RowType]
    BY <1>0, <2>3, <2>4, ModifyType, BreakEvenType
  <2> QED
    BY <1>3, <2>1, <2>5 DEF Rules!FollowUp, Rules!outside, RulesType
<1>4. CASE Rules!TpHit
  <2>1. step' = [q \in Rules!Parties |-> step'[q]]
    BY <1>0, <1>4, GotoStep DEF Rules!TpHit, RulesType
  <2> DEFINE own == copy[Rules!Channel]
             said == message[Rules!Channel].value
             passed == IF own.tp > said THEN own.tp ELSE said
  <2>2. own \in RowType /\ said \in 0..Len(Objectives)
    BY <1>0, <1>4, MessageValues, RulesConstants DEF RulesType, Rules!TpHit
  <2>3. passed \in 0..Len(Objectives)
    <3> HIDE DEF own, said
    <3> QED
      BY <2>2 DEF RowType
  <2>4. copy' = [copy EXCEPT ![Rules!Channel].tp = passed]
    BY <1>4 DEF Rules!TpHit
  <2> HIDE DEF passed
  <2>5. [own EXCEPT !.tp = passed] \in RowType
    <3> HIDE DEF own
    <3> QED
      BY <2>2, <2>3 DEF RowType
  <2>6. copy' = [copy EXCEPT ![Rules!Channel] = [own EXCEPT !.tp = passed]]
    BY <2>4
  <2> HIDE DEF own
  <2>7. copy' \in [Rules!Parties -> RowType]
    BY <2>5, <2>6 DEF RulesType
  <2> QED
    BY <1>4, <2>1, <2>7 DEF Rules!TpHit, Rules!outside, RulesType
<1>5. CASE Rules!TpProtect
  <2>1. step' = [q \in Rules!Parties |-> step'[q]]
    BY <1>0, <1>5, GotoStep DEF Rules!TpProtect, RulesType
  <2>2. /\ live' \in [stop : Int, take : Int, in : BOOLEAN]
        /\ copy' \in [Rules!Parties -> RowType]
    BY <1>0, <1>5, BreakEvenType DEF Rules!TpProtect
  <2> QED
    BY <1>5, <2>1, <2>2 DEF Rules!TpProtect, Rules!outside, RulesType
<1> QED
  BY <1>1, <1>2, <1>3, <1>4, <1>5

\* The requests of the application keep the types.
LEMMA UserType ==
    ASSUME RulesType,
           (\E m \in Rules!Requests : Rules!Click(m)) \/ Rules!UserModify \/ Rules!UserSave
    PROVE  RulesType'
<1>0. Rules!User \in Rules!Parties
  BY DEF Rules!Parties
<1>1. ASSUME NEW m \in Rules!Requests, Rules!Click(m) PROVE RulesType'
  <2>0. m \in Rules!Messages
    BY DEF Rules!Requests
  <2>1. step' = [q \in Rules!Parties |-> step'[q]]
    BY <1>0, <1>1, GotoStep DEF Rules!Click, RulesType
  <2>2. message' \in [{Rules!Channel, Rules!User} -> Rules!Messages \union {Rules!Silence}]
    BY <1>1, <2>0, MessageKept DEF Rules!Click
  <2>3. m.value \in Int /\ live.stop \in Int /\ live.take \in Int
    BY <2>0, MessageValues DEF RulesType
  <2> DEFINE new == CASE m.kind = "MOVE_SL" -> [row EXCEPT !.stop = m.value, !.take = live.take]
                      [] m.kind = "MOVE_TP" -> [row EXCEPT !.stop = live.stop, !.take = m.value]
                      [] OTHER -> [row EXCEPT !.stop = Rules!BreakEvenPrice, !.be = TRUE]
  <2>4. /\ [row EXCEPT !.stop = m.value, !.take = live.take] \in RowType
        /\ [row EXCEPT !.stop = live.stop, !.take = m.value] \in RowType
        /\ [row EXCEPT !.stop = Rules!BreakEvenPrice, !.be = TRUE] \in RowType
    BY <2>3, RulesConstants DEF RulesType, RowType
  <2>5. new \in RowType
    BY <2>4
  <2>6. copy' = [copy EXCEPT ![Rules!User] = new] /\ base' = [base EXCEPT ![Rules!User] = row]
    BY <1>1 DEF Rules!Click
  <2> HIDE DEF new
  <2>7. copy' \in [Rules!Parties -> RowType] /\ base' \in [Rules!Parties -> RowType]
    BY <2>5, <2>6 DEF RulesType
  <2> QED
    BY <1>1, <2>1, <2>2, <2>7 DEF Rules!Click, RulesType
<1>2. CASE Rules!UserModify
  <2> DEFINE own == copy[Rules!User]
             new == [row EXCEPT !.stop = own.stop, !.take = own.take]
  <2>1. own \in RowType /\ base[Rules!User] \in RowType /\ row \in RowType
    BY <1>0 DEF RulesType
  <2>2. new \in RowType
    <3> HIDE DEF own
    <3> QED
      BY <2>1 DEF RowType
  <2>3. step' = [q \in Rules!Parties |-> step'[q]]
    <3>1. Rules!Goto(Rules!User, "save") \/ Rules!Goto(Rules!User, "end")
      BY <1>2 DEF Rules!UserModify
    <3> QED
      BY <1>0, <3>1, GotoStep DEF RulesType
  <2>4. live' \in [stop : Int, take : Int, in : BOOLEAN]
    <3>1. \/ live' = [live EXCEPT !.stop = own.stop, !.take = own.take]
          \/ UNCHANGED live
      BY <1>2 DEF Rules!UserModify
    <3>2. own.stop \in Int /\ own.take \in Int
      BY <2>1 DEF RowType
    <3> HIDE DEF own
    <3> QED
      BY <3>1, <3>2 DEF RulesType
  <2>5. \/ UNCHANGED <<copy, base>>
        \/ /\ base' = [base EXCEPT ![Rules!User] = row]
           /\ copy' = [copy EXCEPT ![Rules!User] = new]
        \/ copy' = [copy EXCEPT ![Rules!User] = base[Rules!User]] /\ UNCHANGED base
    BY <1>2 DEF Rules!UserModify
  <2> HIDE DEF new
  <2>6. copy' \in [Rules!Parties -> RowType] /\ base' \in [Rules!Parties -> RowType]
    BY <2>1, <2>2, <2>5 DEF RulesType
  <2> QED
    BY <1>2, <2>3, <2>4, <2>6 DEF Rules!UserModify, Rules!outside, RulesType
<1>3. CASE Rules!UserSave
  <2>1. step' = [q \in Rules!Parties |-> step'[q]]
    BY <1>0, <1>3, GotoStep DEF Rules!UserSave, RulesType
  <2> QED
    BY <1>3, <2>1 DEF Rules!UserSave, Rules!outside, RulesType
<1> QED
  BY <1>1, <1>2, <1>3

\* The end of a session keeps the types.
LEMMA EndType ==
    ASSUME RulesType, NEW p \in Rules!Parties, Rules!Commit(p) \/ Rules!RollBack(p)
    PROVE  RulesType'
<1>1. Rules!End(p)
  BY DEF Rules!Commit, Rules!RollBack
<1>2. step' = [q \in Rules!Parties |-> step'[q]]
  BY <1>1, GotoStep DEF Rules!End, RulesType
<1>3. Rules!FirstRow \in RowType
  BY RulesConstants DEF Rules!FirstRow, RowType
<1>4. copy' \in [Rules!Parties -> RowType] /\ base' \in [Rules!Parties -> RowType]
  BY <1>1, <1>3 DEF Rules!End, RulesType
<1>5. sight' \in [stop : Int, take : Int, in : BOOLEAN, price : Int]
  <2>1. Rules!NothingRead \in [stop : Int, take : Int, in : BOOLEAN, price : Int]
    BY RulesConstants DEF Rules!NothingRead
  <2> QED
    BY <1>1, <2>1 DEF Rules!End, RulesType
<1>6. message' \in [{Rules!Channel, Rules!User} -> Rules!Messages \union {Rules!Silence}]
  BY <1>1 DEF Rules!End, RulesType
<1>7. row' \in RowType
  <2>1. CASE UNCHANGED row
    BY <2>1 DEF RulesType
  <2>2. CASE row' = [f \in DOMAIN row |->
                       IF copy[p][f] # base[p][f] THEN copy[p][f] ELSE row[f]]
    <3>1. copy[p] \in RowType /\ row \in RowType
      BY DEF RulesType
    <3>2. /\ row'.stop \in {copy[p].stop, row.stop} /\ row'.take \in {copy[p].take, row.take}
          /\ row'.tp \in {copy[p].tp, row.tp} /\ row'.be \in {copy[p].be, row.be}
          /\ row'.closed \in {copy[p].closed, row.closed}
          /\ row' = [stop |-> row'.stop, take |-> row'.take, tp |-> row'.tp, be |-> row'.be,
                     closed |-> row'.closed]
      BY <2>2, <3>1 DEF RowType
    <3> QED
      BY <3>1, <3>2 DEF RowType
  <2> QED
    BY <2>1, <2>2 DEF Rules!Commit, Rules!RollBack
<1> QED
  BY <1>1, <1>2, <1>4, <1>5, <1>6, <1>7 DEF Rules!End, Rules!outside, RulesType

\* Every step keeps the types.
LEMMA StepRulesType == RulesType /\ [Rules!Next]_ruled => RulesType'
<1> SUFFICES ASSUME RulesType, [Rules!Next]_ruled PROVE RulesType'
  OBVIOUS
<1>1. CASE UNCHANGED ruled
  BY <1>1 DEF ruled, RulesType
<1> QED
  BY <1>1, MonitorType, ChannelType, UserType, EndType DEF Rules!Next

\* Who works alone: the others are idle, and have loaded nothing.
LEMMA OthersIdle ==
    ASSUME Alone, NEW p \in Rules!Parties, step[p] # "idle"
    PROVE  \A q \in Rules!Parties \ {p} : step[q] = "idle" /\ ~Loaded(q)
  BY DEF Alone, Loaded

\* A step that begins nothing and crosses nobody, taken alone, leaves its party alone.
LEMMA AloneKept ==
    ASSUME Alone, NEW p \in Rules!Parties, NEW where, RulesType, Rules!Goto(p, where),
           step[p] # "idle" \/ \A q \in Rules!Parties \ {p} : step[q] = "idle"
    PROVE  /\ Alone' /\ step'[p] = where
           /\ \A q \in Rules!Parties \ {p} : step[q] = "idle" /\ step'[q] = "idle"
<1>1. /\ step'[p] = where
      /\ \A q \in Rules!Parties \ {p} : step'[q] = step[q]
  BY GotoStep DEF RulesType
<1>2. \A q \in Rules!Parties \ {p} : step[q] = "idle"
  BY DEF Alone
<1> QED
  BY <1>1, <1>2 DEF Alone

\* What holds of the only party at work holds of the three of them.
LEMMA OneInStep ==
    ASSUME Alone', NEW p \in Rules!Parties, step'[p] # "idle",
           \A q \in Rules!Parties \ {p} : step'[q] = "idle",
           ~Loaded(p)' \/ Requested' => Same(row, live)',
           step'[Rules!Monitor] = "load" => Same(sight, live)',
           Loaded(p)' => base'[p] = row',
           Loaded(p)' /\ ~Requested' => Same(copy'[p], live'),
           Requested' => message'[Rules!User].kind \in {"MOVE_SL", "MOVE_TP", "MOVE_SL_BE"},
           Requested' => IF message'[Rules!User].kind = "MOVE_TP"
                         THEN copy'[Rules!User].stop = live'.stop
                         ELSE copy'[Rules!User].take = live'.take
    PROVE  InStep'
<1>1. \A q \in Rules!Parties \ {p} : ~Loaded(q)'
  BY DEF Loaded
<1>2. Requested' /\ p # Rules!User => FALSE
  BY DEF Requested, Rules!Parties
<1>3. \A q \in Rules!Parties :
         Loaded(q)' /\ ~(q = Rules!User /\ Requested') => Same(copy'[q], live')
  BY <1>1, <1>2
<1> QED
  BY <1>1, <1>3 DEF InStep, Same

\* An order to the broker leaves the copy and the position alike, or as they were.
LEMMA ModifySame ==
    ASSUME RulesType, NEW p \in Rules!Parties, NEW new \in RowType, Rules!Modify(p, new),
           Same(copy[p], live)
    PROVE  Same(copy'[p], live')
<1>1. CASE UNCHANGED <<live, copy>>
  BY <1>1 DEF Same
<1>2. CASE /\ live' = [live EXCEPT !.stop = new.stop, !.take = new.take]
           /\ copy' = [copy EXCEPT ![p] = new]
  BY <1>2 DEF RulesType, Same
<1> QED
  BY <1>1, <1>2 DEF Rules!Modify

\* A break-even is such an order.
LEMMA BreakEvenSame ==
    ASSUME RulesType, NEW p \in Rules!Parties, Rules!BreakEven(p), Same(copy[p], live)
    PROVE  Same(copy'[p], live')
<1> DEFINE new == [copy[p] EXCEPT !.stop = Rules!BreakEvenPrice, !.be = TRUE]
<1>1. new \in RowType
  BY RulesConstants DEF RulesType, RowType
<1>2. Rules!Modify(p, new) \/ UNCHANGED <<live, copy>>
  BY DEF Rules!BreakEven
<1> HIDE DEF new
<1> QED
  BY <1>1, <1>2, ModifySame DEF Same

\* The cycle of the monitor, alone, keeps what it works on in step with the broker.
LEMMA MonitorInStep ==
    ASSUME RulesType, Alone, InStep, ~crossed',
           \/ Rules!ReadPosition \/ Rules!Load \/ Rules!Flush
           \/ Rules!AutoBreakEven \/ Rules!AutoTrailing
    PROVE  Alone' /\ InStep'
<1>0. Rules!Monitor \in Rules!Parties /\ Rules!Monitor # Rules!User
  BY DEF Rules!Parties, Rules!Monitor, Rules!User
<1> DEFINE p == Rules!Monitor
<1>1. PICK where \in {"load", "flush", "end", "protect", "trail"} : Rules!Goto(p, where)
  BY DEF Rules!ReadPosition, Rules!Load, Rules!Flush, Rules!AutoBreakEven, Rules!AutoTrailing
<1>2. step[p] # "idle" \/ \A q \in Rules!Parties \ {p} : step[q] = "idle"
  BY DEF Rules!ReadPosition, Rules!Load, Rules!Flush, Rules!AutoBreakEven, Rules!AutoTrailing,
         Rules!Crossing, Rules!Busy
<1>3. /\ Alone' /\ step'[p] = where
      /\ \A q \in Rules!Parties \ {p} : step[q] = "idle" /\ step'[q] = "idle"
  BY <1>0, <1>1, <1>2, AloneKept
<1>4. ~Requested /\ ~Requested'
  BY <1>0, <1>3 DEF Requested, Rules!Parties
<1>5. /\ ~Loaded(p) => Same(row, live)
      /\ Loaded(p) => base[p] = row /\ Same(copy[p], live)
      /\ step[p] = "load" => Same(sight, live)
  <2>1. \A q \in Rules!Parties \ {p} : ~Loaded(q)
    BY <1>3 DEF Loaded
  <2> QED
    BY <1>0, <1>4, <2>1 DEF InStep
<1> SUFFICES /\ ~Loaded(p)' => Same(row, live)'
             /\ step'[p] = "load" => Same(sight, live)'
             /\ Loaded(p)' => base'[p] = row' /\ Same(copy'[p], live')
  <2>1. step'[p] # "idle"
    BY <1>1, <1>3
  <2> QED
    BY <1>0, <1>3, <1>4, <2>1, OneInStep
<1>6. CASE Rules!ReadPosition
  <2>1. step[p] = "idle" /\ where = "load"
    BY <1>1, <1>3, <1>6, GotoStep, <1>0 DEF Rules!ReadPosition, Rules!Busy, RulesType
  <2> QED
    BY <1>3, <1>5, <1>6, <2>1 DEF Rules!ReadPosition, Loaded, Same
<1>7. CASE Rules!Load
  <2>1. step[p] = "load" /\ where = "flush"
    BY <1>3, <1>7, GotoStep, <1>0 DEF Rules!Load, RulesType
  <2>2. base'[p] = row /\ UNCHANGED <<row, live>>
    BY <1>0, <1>7 DEF Rules!Load, RulesType
  <2>3. copy'[p] = IF row.closed THEN row
                   ELSE IF ~sight.in THEN [row EXCEPT !.closed = TRUE]
                   ELSE [row EXCEPT !.stop = sight.stop, !.take = sight.take,
                                    !.tp = Rules!Announced(row.tp)]
    BY <1>0, <1>7 DEF Rules!Load, RulesType
  <2>4. Same(row, live) /\ Same(sight, live)
    BY <1>5, <2>1 DEF Loaded
  <2>5. Same(copy'[p], live')
    BY <2>2, <2>3, <2>4 DEF Same, RulesType, RowType
  <2> QED
    BY <1>3, <2>1, <2>2, <2>5 DEF Loaded
<1>8. CASE Rules!Flush
  <2>1. step[p] = "flush" /\ where \in {"end", "protect"}
    BY <1>3, <1>8, GotoStep, <1>0 DEF Rules!Flush, RulesType
  <2> QED
    BY <1>3, <1>5, <1>8, <2>1 DEF Rules!Flush, Loaded, Same
<1>9. CASE Rules!AutoBreakEven
  <2>1. step[p] = "protect" /\ where = "trail"
    BY <1>3, <1>9, GotoStep, <1>0 DEF Rules!AutoBreakEven, RulesType
  <2>2. Same(copy[p], live) /\ base[p] = row
    BY <1>5, <2>1 DEF Loaded
  <2>3. Rules!BreakEven(p) \/ UNCHANGED <<live, copy>>
    BY <1>9 DEF Rules!AutoBreakEven
  <2>4. Same(copy'[p], live')
    BY <1>0, <2>2, <2>3, BreakEvenSame DEF Same
  <2> QED
    BY <1>3, <1>9, <2>1, <2>2, <2>4 DEF Rules!AutoBreakEven, Loaded
<1>10. CASE Rules!AutoTrailing
  <2>1. step[p] = "trail" /\ where = "end"
    BY <1>3, <1>10, GotoStep, <1>0 DEF Rules!AutoTrailing, RulesType
  <2>2. Same(copy[p], live) /\ base[p] = row
    BY <1>5, <2>1 DEF Loaded
  <2>3. Same(copy'[p], live')
    <3>1. \/ \E new \in {[copy[p] EXCEPT !.stop = price - Distance],
                         [copy[p] EXCEPT !.stop = Rules!Rung, !.be = TRUE]} :
                /\ live' = [live EXCEPT !.stop = new.stop, !.take = new.take]
                /\ copy' = [copy EXCEPT ![p] = new]
          \/ UNCHANGED <<live, copy>>
      BY <1>10 DEF Rules!AutoTrailing, Rules!Modify
    <3> QED
      BY <1>0, <2>2, <3>1 DEF Same, RulesType
  <2> QED
    BY <1>3, <1>10, <2>1, <2>2, <2>3 DEF Rules!AutoTrailing, Loaded
<1> QED
  BY <1>6, <1>7, <1>8, <1>9, <1>10

\* So does a follow-up of the channel.
LEMMA ChannelInStep ==
    ASSUME RulesType, Alone, InStep, ~crossed',
           \/ \E m \in Rules!Messages : Rules!Receive(m)
           \/ Rules!FollowUp \/ Rules!TpHit \/ Rules!TpProtect
    PROVE  Alone' /\ InStep'
<1>0. /\ Rules!Channel \in Rules!Parties /\ Rules!Channel # Rules!User
      /\ Rules!Channel # Rules!Monitor
  BY DEF Rules!Parties, Rules!Monitor, Rules!User, Rules!Channel
<1> DEFINE p == Rules!Channel
<1>1. PICK where \in {"apply", "end", "protect"} : Rules!Goto(p, where)
  BY DEF Rules!Receive, Rules!FollowUp, Rules!TpHit, Rules!TpProtect
<1>2. step[p] # "idle" \/ \A q \in Rules!Parties \ {p} : step[q] = "idle"
  BY DEF Rules!Receive, Rules!FollowUp, Rules!TpHit, Rules!TpProtect, Rules!Crossing, Rules!Busy
<1>3. /\ Alone' /\ step'[p] = where
      /\ \A q \in Rules!Parties \ {p} : step[q] = "idle" /\ step'[q] = "idle"
  BY <1>0, <1>1, <1>2, AloneKept
<1>4. ~Requested /\ ~Requested' /\ step'[Rules!Monitor] = "idle"
  BY <1>0, <1>3 DEF Requested, Rules!Parties
<1>5. /\ ~Loaded(p) => Same(row, live)
      /\ Loaded(p) => base[p] = row /\ Same(copy[p], live)
  <2>1. \A q \in Rules!Parties \ {p} : ~Loaded(q)
    BY <1>3 DEF Loaded
  <2> QED
    BY <1>0, <1>4, <2>1 DEF InStep
<1>6. SUFFICES base'[p] = row' /\ Same(copy'[p], live')
  <2>1. step'[p] # "idle" /\ Loaded(p)'
    BY <1>1, <1>3 DEF Loaded
  <2> QED
    BY <1>0, <1>3, <1>4, <2>1, OneInStep
<1>7. ASSUME NEW m \in Rules!Messages, Rules!Receive(m)
      PROVE  base'[p] = row' /\ Same(copy'[p], live')
  <2>1. step[p] = "idle"
    BY <1>7 DEF Rules!Receive, Rules!Busy
  <2>2. Same(row, live)
    BY <1>5, <2>1 DEF Loaded
  <2> QED
    BY <1>0, <1>7, <2>2 DEF Rules!Receive, Same, RulesType
<1>8. ASSUME Rules!FollowUp \/ Rules!TpHit \/ Rules!TpProtect
      PROVE  base[p] = row /\ Same(copy[p], live) /\ base' = base /\ row' = row
  BY <1>5, <1>8 DEF Rules!FollowUp, Rules!TpHit, Rules!TpProtect, Loaded
<1>9. CASE Rules!FollowUp
  <2> DEFINE said == message[p].value
  <2>1. \/ \E new \in {[copy[p] EXCEPT !.stop = said], [copy[p] EXCEPT !.take = said]} :
              /\ live' = [live EXCEPT !.stop = new.stop, !.take = new.take]
              /\ copy' = [copy EXCEPT ![p] = new]
        \/ UNCHANGED <<live, copy>>
        \/ Rules!BreakEven(p)
    BY <1>9 DEF Rules!FollowUp, Rules!Modify
  <2>2. CASE Rules!BreakEven(p)
    BY <1>0, <1>8, <1>9, <2>2, BreakEvenSame
  <2> HIDE DEF said
  <2> QED
    BY <1>0, <1>8, <1>9, <2>1, <2>2 DEF Same, RulesType
<1>10. CASE Rules!TpHit
  BY <1>0, <1>8, <1>10 DEF Rules!TpHit, Same, RulesType, RowType
<1>11. CASE Rules!TpProtect
  BY <1>0, <1>8, <1>11, BreakEvenSame DEF Rules!TpProtect
<1> QED
  BY <1>7, <1>8, <1>9, <1>10, <1>11

\* So does a request of the application.
LEMMA UserInStep ==
    ASSUME RulesType, Alone, InStep, ~crossed',
           (\E m \in Rules!Requests : Rules!Click(m)) \/ Rules!UserModify \/ Rules!UserSave
    PROVE  Alone' /\ InStep'
<1>0. /\ Rules!User \in Rules!Parties /\ Rules!User # Rules!Monitor
  BY DEF Rules!Parties, Rules!Monitor, Rules!User
<1> DEFINE p == Rules!User
           said == message[p].kind
<1>1. PICK where \in {"apply", "save", "end"} : Rules!Goto(p, where)
  BY DEF Rules!Click, Rules!UserModify, Rules!UserSave
<1>2. step[p] # "idle" \/ \A q \in Rules!Parties \ {p} : step[q] = "idle"
  BY DEF Rules!Click, Rules!UserModify, Rules!UserSave, Rules!Crossing, Rules!Busy
<1>3. /\ Alone' /\ step'[p] = where
      /\ \A q \in Rules!Parties \ {p} : step[q] = "idle" /\ step'[q] = "idle"
  BY <1>0, <1>1, <1>2, AloneKept
<1>4. step'[Rules!Monitor] = "idle" /\ step'[p] # "idle" /\ Loaded(p)'
  BY <1>0, <1>1, <1>3 DEF Loaded, Rules!Parties
<1>5. /\ ~Loaded(p) => Same(row, live)
      /\ Loaded(p) => base[p] = row
      /\ Loaded(p) /\ ~Requested => Same(copy[p], live)
      /\ Requested => Same(row, live)
      /\ Requested => IF said = "MOVE_TP" THEN copy[p].stop = live.stop
                                          ELSE copy[p].take = live.take
  <2>1. \A q \in Rules!Parties \ {p} : ~Loaded(q)
    BY <1>3 DEF Loaded
  <2> QED
    BY <1>0, <2>1 DEF InStep
<1>6. CASE \E m \in Rules!Requests : Rules!Click(m)
  <2>1. PICK m \in Rules!Requests : Rules!Click(m)
    BY <1>6
  <2>2. step[p] = "idle" /\ where = "apply"
    BY <1>0, <1>3, <2>1, GotoStep DEF Rules!Click, Rules!Busy, RulesType
  <2>3. Same(row, live) /\ UNCHANGED <<row, live>>
    BY <1>5, <2>1, <2>2 DEF Rules!Click, Loaded
  <2>4. base'[p] = row /\ message'[p] = m
    BY <1>0, <2>1 DEF Rules!Click, RulesType
  <2>5. copy'[p] = CASE m.kind = "MOVE_SL" -> [row EXCEPT !.stop = m.value, !.take = live.take]
                     [] m.kind = "MOVE_TP" -> [row EXCEPT !.stop = live.stop, !.take = m.value]
                     [] OTHER -> [row EXCEPT !.stop = Rules!BreakEvenPrice, !.be = TRUE]
    BY <1>0, <2>1 DEF Rules!Click, RulesType
  <2>6. IF m.kind = "MOVE_TP" THEN copy'[p].stop = live.stop ELSE copy'[p].take = live.take
    <3>1. CASE m.kind = "MOVE_SL"
      BY <2>5, <3>1 DEF RulesType, RowType
    <3>2. CASE m.kind = "MOVE_TP"
      BY <2>5, <3>2 DEF RulesType, RowType
    <3>3. CASE m.kind \notin {"MOVE_SL", "MOVE_TP"}
      BY <2>3, <2>5, <3>3 DEF RulesType, RowType, Same
    <3> QED
      BY <3>1, <3>2, <3>3
  <2>7. Requested'
    BY <1>3, <2>2 DEF Requested
  <2>8. m.kind \in {"MOVE_SL", "MOVE_TP", "MOVE_SL_BE"}
    BY MessageValues DEF Rules!Requests
  <2> QED
    BY <1>0, <1>3, <1>4, <2>3, <2>4, <2>6, <2>7, <2>8, OneInStep DEF Same
<1>7. CASE Rules!UserModify
  <2>1. Requested /\ where \in {"save", "end"}
    BY <1>0, <1>3, <1>7, GotoStep DEF Rules!UserModify, RulesType, Requested
  <2>2. ~Requested' /\ row' = row /\ base[p] = row /\ Same(row, live)
    BY <1>3, <1>5, <1>7, <2>1 DEF Rules!UserModify, Requested, Loaded
  <2> DEFINE own == copy[p]
             new == [row EXCEPT !.stop = own.stop, !.take = own.take]
  <2>3. CASE /\ live' = [live EXCEPT !.stop = own.stop, !.take = own.take]
             /\ UNCHANGED <<copy, base>>
    <3>1. base'[p] = row' /\ Same(copy'[p], live')
      BY <1>0, <2>2, <2>3 DEF Same, RulesType
    <3> QED
      BY <1>0, <1>3, <1>4, <2>2, <3>1, OneInStep
  <2>4. CASE /\ live' = [live EXCEPT !.stop = own.stop, !.take = own.take]
             /\ base' = [base EXCEPT ![p] = row] /\ copy' = [copy EXCEPT ![p] = new]
    <3>1. base'[p] = row' /\ Same(copy'[p], live')
      BY <1>0, <2>2, <2>4 DEF Same, RulesType, RowType
    <3> QED
      BY <1>0, <1>3, <1>4, <2>2, <3>1, OneInStep
  <2>5. CASE copy' = [copy EXCEPT ![p] = base[p]] /\ UNCHANGED <<live, base>>
    <3>1. base'[p] = row' /\ Same(copy'[p], live')
      BY <1>0, <2>2, <2>5 DEF Same, RulesType
    <3> QED
      BY <1>0, <1>3, <1>4, <2>2, <3>1, OneInStep
  <2> QED
    BY <1>7, <2>3, <2>4, <2>5 DEF Rules!UserModify
<1>8. CASE Rules!UserSave
  <2>1. step[p] = "save" /\ where = "end"
    BY <1>0, <1>3, <1>8, GotoStep DEF Rules!UserSave, RulesType
  <2>2. ~Requested /\ ~Requested' /\ base'[p] = row' /\ Same(copy'[p], live')
    BY <1>3, <1>5, <1>8, <2>1 DEF Rules!UserSave, Requested, Loaded, Same
  <2> QED
    BY <1>0, <1>3, <1>4, <2>2, OneInStep
<1> QED
  BY <1>6, <1>7, <1>8

\* A session that commits gives the row what it has told the broker.
LEMMA CommitInStep ==
    ASSUME RulesType, Alone, InStep, NEW p \in Rules!Parties, Rules!Commit(p)
    PROVE  Alone' /\ InStep'
<1>1. step[p] = "end" /\ Rules!Goto(p, "idle") /\ live' = live
  BY DEF Rules!Commit, Rules!End
<1>2. /\ Alone' /\ step'[p] = "idle"
      /\ \A q \in Rules!Parties \ {p} : step[q] = "idle" /\ step'[q] = "idle"
  BY <1>1, AloneKept
<1>3. base[p] = row /\ Same(copy[p], live)
  BY <1>1 DEF InStep, Loaded, Requested
<1>4. row' = [f \in DOMAIN row |-> IF copy[p][f] # base[p][f] THEN copy[p][f] ELSE row[f]]
  BY DEF Rules!Commit
<1>5. Same(row', live')
  BY <1>1, <1>3, <1>4 DEF RulesType, RowType, Same
<1>6. \A q \in Rules!Parties : step'[q] = "idle"
  BY <1>2
<1> QED
  BY <1>2, <1>5, <1>6 DEF InStep, Loaded, Requested, Rules!Parties, Same

\* Parties that have crossed, or a session that rolled back, are not forgotten.
LEMMA CleanBefore ==
    ASSUME [Rules!Next]_ruled, ~crossed', ~dropped'
    PROVE  ~crossed /\ ~dropped
<1> USE DEF Rules!Next, ruled, Rules!Move, Rules!ReadPosition, Rules!Load, Rules!Flush,
       Rules!AutoBreakEven, Rules!AutoTrailing, Rules!Receive, Rules!FollowUp, Rules!TpHit,
       Rules!TpProtect, Rules!Click, Rules!UserModify, Rules!UserSave, Rules!Commit,
       Rules!RollBack, Rules!End
<1>1. (\E p \in Rules!Parties : Rules!Crossing(p)) \/ UNCHANGED crossed
  BY DEF Rules!Parties
<1>2. \A p \in Rules!Parties : Rules!Crossing(p) => ~crossed
  BY DEF Rules!Crossing
<1>3. dropped' = TRUE \/ UNCHANGED dropped
  OBVIOUS
<1> QED
  BY ONLY <1>1, <1>2, <1>3, ~crossed', ~dropped'

\* Every step keeps the parties in step, unless two of them cross or one rolls back.
LEMMA StepForward ==
    RulesType /\ ForwardInv /\ [Rules!Next]_ruled => ForwardInv'
<1> SUFFICES ASSUME RulesType, ForwardInv, [Rules!Next]_ruled, ~crossed', ~dropped'
             PROVE  Alone' /\ InStep'
  BY DEF ForwardInv
<1>1. ~crossed /\ ~dropped
  BY CleanBefore
<1>2. Alone /\ InStep
  BY <1>1 DEF ForwardInv
<1>3. ASSUME NEW p \in Rules!Levels, Rules!Move(p) PROVE Alone' /\ InStep'
  BY <1>2, <1>3 DEF Rules!Move, Alone, InStep, Loaded, Requested, Same, RulesType
<1>4. ~(\E p \in Rules!Parties : Rules!RollBack(p))
  BY DEF Rules!RollBack
<1>5. CASE UNCHANGED ruled
  BY <1>2, <1>5 DEF ruled, Alone, InStep, Loaded, Requested, Same
<1> QED
  BY <1>2, <1>3, <1>4, <1>5, MonitorInStep, ChannelInStep, UserInStep, CommitInStep
     DEF Rules!Next

\* An order to the broker that names both levels moves what its record has changed.
LEMMA ModifyMoves ==
    ASSUME RulesType, NEW p \in Rules!Parties, NEW new \in RowType, Rules!Modify(p, new)
    PROVE  \/ UNCHANGED live
           \/ live'.stop = new.stop /\ live'.take = new.take
  BY DEF Rules!Modify, RulesType

\* A break-even from a copy in step with the broker moves the stop forward.
LEMMA BreakEvenForward ==
    ASSUME RulesType, NEW p \in Rules!Parties, Rules!BreakEven(p), Same(copy[p], live)
    PROVE  live'.stop >= live.stop /\ live'.take = live.take
<1> DEFINE new == [copy[p] EXCEPT !.stop = Rules!BreakEvenPrice, !.be = TRUE]
<1>1. new \in RowType /\ new.stop = Rules!BreakEvenPrice /\ new.take = copy[p].take
  BY RulesConstants DEF RulesType, RowType
<1>2. \/ Rules!Modify(p, new) /\ Rules!BreakEvenPrice > copy[p].stop
      \/ UNCHANGED live
  BY DEF Rules!BreakEven, Rules!Better
<1>3. live.stop \in Int /\ live.take \in Int
  BY DEF RulesType
<1> HIDE DEF new
<1> QED
  BY <1>1, <1>2, <1>3, RulesConstants, ModifyMoves DEF Same

\* Of the rules and requests that follow one another, only one that names the stop moves
\* it back, and only one that names the objective changes it.
LEMMA NothingRecedes ==
    ASSUME RulesType, ForwardInv, [Rules!Next]_ruled, ~crossed', ~dropped'
    PROVE  ~Rules!Recedes /\ ~Rules!Undoes
<1>0. Alone /\ InStep
  <2>1. ~crossed /\ ~dropped
    BY CleanBefore
  <2> QED
    BY <2>1 DEF ForwardInv
<1>1. /\ {Rules!Monitor, Rules!Channel, Rules!User} = Rules!Parties
      /\ live.stop \in Int /\ live.take \in Int
  BY DEF Rules!Parties, RulesType
<1>2. \A p \in Rules!Parties : Loaded(p) /\ ~(p = Rules!User /\ Requested) => Same(copy[p], live)
  BY <1>0 DEF InStep
<1>3. CASE live'.stop >= live.stop /\ live'.take = live.take
  <2>1. live'.stop \in Int
    BY StepRulesType DEF RulesType
  <2> QED
    BY <1>1, <1>3, <2>1 DEF Rules!Recedes, Rules!Undoes
<1>4. CASE UNCHANGED <<live.stop, live.take>>
  BY <1>1, <1>4 DEF Rules!Recedes, Rules!Undoes
<1>5. CASE Rules!AutoBreakEven
  <2>1. Same(copy[Rules!Monitor], live)
    BY <1>1, <1>2, <1>5 DEF Rules!AutoBreakEven, Loaded, Rules!Monitor, Rules!User
  <2>2. Rules!BreakEven(Rules!Monitor) \/ UNCHANGED live
    BY <1>5 DEF Rules!AutoBreakEven
  <2> QED
    BY <1>1, <1>3, <1>4, <2>1, <2>2, BreakEvenForward
<1>6. CASE Rules!AutoTrailing
  <2> DEFINE own == copy[Rules!Monitor]
             near == [own EXCEPT !.stop = price - Distance]
             ladder == [own EXCEPT !.stop = Rules!Rung, !.be = TRUE]
  <2>1. Same(own, live) /\ own \in RowType
    BY <1>1, <1>2, <1>6 DEF Rules!AutoTrailing, Loaded, Rules!Monitor, Rules!User, RulesType
  <2>2. \/ UNCHANGED live
        \/ Rules!Follows /\ live'.stop = price - Distance /\ live'.take = own.take
        \/ Rules!Climbs /\ live'.stop = Rules!Rung /\ live'.take = own.take
    <3>1. \/ UNCHANGED live
          \/ Rules!Follows /\ live' = [live EXCEPT !.stop = near.stop, !.take = near.take]
          \/ Rules!Climbs /\ live' = [live EXCEPT !.stop = ladder.stop, !.take = ladder.take]
      BY <1>6 DEF Rules!AutoTrailing, Rules!Modify
    <3>2. /\ near.stop = price - Distance /\ near.take = own.take
          /\ ladder.stop = Rules!Rung /\ ladder.take = own.take
      <4> HIDE DEF own
      <4> QED
        BY <2>1 DEF RowType
    <3> HIDE DEF near, ladder, own
    <3> QED
      BY <3>1, <3>2 DEF RulesType
  <2>3. Rules!Follows => price - Distance > own.stop
    BY DEF Rules!Follows, Rules!Better
  <2>4. Rules!Climbs => Rules!Rung > own.stop /\ Rules!Rung \in Int
    <3>1. ASSUME own.tp >= 1 PROVE Rules!Rung \in Int
      BY <2>1, <3>1, RulesConstants DEF Rules!Rung, RowType
    <3> QED
      BY <3>1 DEF Rules!Climbs, Rules!Better
  <2>5. (price - Distance) \in Int /\ own.stop \in Int
    BY <2>1, RulesConstants DEF RulesType, RowType
  <2> HIDE DEF own
  <2> QED
    BY <1>1, <1>3, <1>4, <2>1, <2>2, <2>3, <2>4, <2>5 DEF Same
<1>7. CASE Rules!TpProtect
  <2>1. Same(copy[Rules!Channel], live)
    BY <1>1, <1>2, <1>7 DEF Rules!TpProtect, Loaded, Rules!Channel, Rules!User
  <2> QED
    BY <1>1, <1>3, <1>7, <2>1, BreakEvenForward DEF Rules!TpProtect
<1>8. CASE Rules!FollowUp
  <2> DEFINE own == copy[Rules!Channel]
             said == message[Rules!Channel].value
             stopped == [own EXCEPT !.stop = said]
             taken == [own EXCEPT !.take = said]
  <2>1. Same(own, live) /\ own \in RowType /\ step[Rules!Channel] = "apply"
    BY <1>1, <1>2, <1>8 DEF Rules!FollowUp, Loaded, Rules!Channel, Rules!User, RulesType
  <2>2. CASE Rules!BreakEven(Rules!Channel)
    BY <1>1, <1>3, <2>1, <2>2, BreakEvenForward
  <2>3. CASE /\ message[Rules!Channel].kind = "MOVE_SL"
             /\ live' = [live EXCEPT !.stop = stopped.stop, !.take = stopped.take]
    <3>1. Rules!AskedStop
      BY <2>1, <2>3 DEF Rules!AskedStop, Rules!Asked
    <3>2. stopped.take = own.take
      <4> HIDE DEF own, said
      <4> QED
        BY <2>1 DEF RowType
    <3>3. live'.take = live.take
      <4> HIDE DEF stopped, own
      <4> QED
        BY <2>1, <2>3, <3>2 DEF RulesType, Same
    <3> QED
      BY <3>1, <3>3 DEF Rules!Recedes, Rules!Undoes
  <2>4. CASE /\ message[Rules!Channel].kind = "MOVE_TP"
             /\ live' = [live EXCEPT !.stop = taken.stop, !.take = taken.take]
    <3>1. Rules!AskedTake
      BY <2>1, <2>4 DEF Rules!AskedTake, Rules!Asked
    <3>2. taken.stop = own.stop
      <4> HIDE DEF own, said
      <4> QED
        BY <2>1 DEF RowType
    <3>3. live'.stop = live.stop
      <4> HIDE DEF taken, own
      <4> QED
        BY <2>1, <2>4, <3>2 DEF RulesType, Same
    <3> QED
      BY <1>1, <3>1, <3>3 DEF Rules!Recedes, Rules!Undoes
  <2>5. CASE UNCHANGED live
    BY <1>4, <2>5
  <2> QED
    BY <1>8, <2>2, <2>3, <2>4, <2>5 DEF Rules!FollowUp, Rules!Modify
<1>9. CASE Rules!UserModify
  <2> DEFINE own == copy[Rules!User]
             kind == message[Rules!User].kind
  <2>1. Requested
    BY <1>9 DEF Rules!UserModify, Requested
  <2>2. IF kind = "MOVE_TP" THEN own.stop = live.stop ELSE own.take = live.take
    BY <1>0, <2>1 DEF InStep
  <2>3. kind \in {"MOVE_SL", "MOVE_TP", "MOVE_SL_BE"}
    BY <1>0, <2>1 DEF InStep
  <2>4. kind = "MOVE_TP" => Rules!AskedTake
    BY <2>1 DEF Rules!AskedTake, Rules!Asked, Requested
  <2>5. kind \in {"MOVE_SL", "MOVE_SL_BE"} => Rules!AskedStop
    BY <2>1 DEF Rules!AskedStop, Rules!Asked, Requested
  <2>6. \/ UNCHANGED live
        \/ live'.stop = own.stop /\ live'.take = own.take
    BY <1>9 DEF Rules!UserModify, RulesType
  <2> HIDE DEF own, kind
  <2> QED
    BY <1>1, <1>4, <2>2, <2>3, <2>4, <2>5, <2>6 DEF Rules!Recedes, Rules!Undoes
<1>10. \/ UNCHANGED <<live.stop, live.take>>
       \/ Rules!AutoBreakEven \/ Rules!AutoTrailing \/ Rules!TpProtect \/ Rules!FollowUp
       \/ Rules!UserModify
  BY DEF Rules!Next, ruled, Rules!Move, Rules!ReadPosition, Rules!Load, Rules!Flush,
         Rules!Receive, Rules!TpHit, Rules!Click, Rules!UserSave, Rules!Commit,
         Rules!RollBack, Rules!End, RulesType
<1> QED
  BY <1>4, <1>5, <1>6, <1>7, <1>8, <1>9, <1>10

\* Whatever the rules, the offsets, the prices, the messages and the requests: a stop goes
\* back, and an objective changes, only for who names them, unless two parties overlap or
\* a session rolls back.
THEOREM StopsGoForward == Spec => StopForward
<1>1. Init => RulesType /\ ForwardInv
  <2> SUFFICES ASSUME Rules!Init PROVE RulesType /\ ForwardInv
    BY DEF Init
  <2>1. /\ live = [stop |-> FirstStop, take |-> Rules!Top, in |-> TRUE]
        /\ row = Rules!FirstRow /\ sight = Rules!NothingRead /\ price = OpenPrice
        /\ copy = [p \in Rules!Parties |-> Rules!FirstRow] /\ base = copy
        /\ step = [p \in Rules!Parties |-> "idle"]
        /\ message = [p \in {Rules!Channel, Rules!User} |-> Rules!Silence]
    BY DEF Rules!Init
  <2>2. Rules!FirstRow \in RowType
    BY RulesConstants DEF Rules!FirstRow, RowType
  <2>3. Rules!NothingRead \in [stop : Int, take : Int, in : BOOLEAN, price : Int]
    BY RulesConstants DEF Rules!NothingRead
  <2>4. live \in [stop : Int, take : Int, in : BOOLEAN]
    BY <2>1, RulesConstants
  <2>5. RulesType
    BY <2>1, <2>2, <2>3, <2>4, RulesConstants DEF RulesType
  <2>6. \A p \in Rules!Parties : step[p] = "idle"
    BY <2>1
  <2>7. Same(row, live)
    BY <2>1 DEF Same, Rules!FirstRow
  <2>8. Alone /\ InStep
    BY <2>6, <2>7 DEF Alone, InStep, Loaded, Requested, Rules!Parties
  <2> QED
    BY <2>5, <2>8 DEF ForwardInv
<1>2. RulesType /\ ForwardInv /\ [Next]_vars => RulesType' /\ ForwardInv'
  BY StepRulesType, StepForward, OneAtWork
<1>3. RulesType /\ ForwardInv /\ [Next]_vars =>
        [Rules!Recedes \/ Rules!Undoes => crossed' \/ dropped']_(Rules!ruleVars)
  BY NothingRecedes, OneAtWork
<1> QED
  BY <1>1, <1>2, <1>3, PTL DEF Spec, StopForward, Rules!StopForward

-----------------------------------------------------------------------------
(* CandleReplay.                                                           *)

Bar == [low : Replay!Prices, high : Replay!Prices]
Fates == {"open", "stop", "target"}
Trade == [side : Directions, kind : Replay!Kinds, born : Nat \ {0}, taken : BOOLEAN,
          issue : Fates \union {"aged"}, truth : Fates, early : BOOLEAN, cut : BOOLEAN]
ReplayType ==
    /\ quote \in Replay!Prices
    /\ bars \in Seq(Bar) /\ bars # <<>>
    /\ imagined \in Seq(Trade)
    /\ \A n \in DOMAIN imagined : imagined[n].born <= Len(bars)

\* Of a history that has seen the candles b and stands at the price q: the candles after
\* the birth of a trade, and those that touch none of its levels.
After(b, t) == (t.born + 1)..Len(b)
Clear(b, t, n) ==
    /\ ~Replay!Touches(b[n], Replay!StopOf(t.side))
    /\ ~Replay!Touches(b[n], Replay!TargetOf(t.side))

\* What the history has lived shows in the candles: nothing yet, the stop in the first
\* one that is not clear, or a level somewhere.
Lived(q, b, t) ==
    /\ t.truth = "open" =>
          q = Replay!EntryPrice /\ \A n \in After(b, t) : Clear(b, t, n)
    /\ t.truth = "stop" /\ ~t.early =>
          \E k \in After(b, t) : /\ Replay!Touches(b[k], Replay!StopOf(t.side))
                                 /\ \A n \in After(b, t) : n < k => Clear(b, t, n)
    /\ t.truth = "target" /\ ~t.early => \E k \in After(b, t) : ~Clear(b, t, k)

\* What is told of a trade is at worst pessimistic.
ToldLow(t) ==
    \/ t.issue \in {"open", "stop"} \/ t.early \/ t.cut
    \/ t.issue = "target" /\ t.truth = "target"
    \/ t.issue = "aged" /\ t.truth = "open"

Replayed(q, b, t) ==
    t.taken => IF t.issue = "open" THEN Lived(q, b, t) ELSE ToldLow(t)
ReplayInv ==
    ReplayType /\ \A n \in DOMAIN imagined : Replayed(quote, bars, imagined[n])

\* A set of two prices has a least and a greatest one.
LEMMA TwoPrices ==
    ASSUME NEW a \in Nat, NEW b \in Nat
    PROVE  /\ Replay!Min({a, b}) \in {a, b}
           /\ Replay!Min({a, b}) <= a /\ Replay!Min({a, b}) <= b
           /\ Replay!Max({a, b}) \in {a, b}
           /\ a <= Replay!Max({a, b}) /\ b <= Replay!Max({a, b})
<1>1. \E n \in {a, b} : \A m \in {a, b} : n <= m
  OBVIOUS
<1>2. \E n \in {a, b} : \A m \in {a, b} : n >= m
  OBVIOUS
<1> QED
  BY <1>1, <1>2 DEF Replay!Min, Replay!Max

\* A tick widens the last candle to its price, and leaves the others.
LEMMA TickWidens ==
    ASSUME ReplayType, NEW p \in Replay!Prices, Replay!Tick(p)
    PROVE  /\ quote' = p
           /\ bars' \in Seq(Bar) /\ bars' # <<>> /\ Len(bars') = Len(bars)
           /\ \A n \in 1..Len(bars) : n # Len(bars) => bars'[n] = bars[n]
           /\ Replay!Touches(bars'[Len(bars)], p)
           /\ \A q \in Replay!Prices :
                Replay!Touches(bars[Len(bars)], q) => Replay!Touches(bars'[Len(bars)], q)
           /\ p = Replay!EntryPrice => \A q \in {1, 3} :
                ~Replay!Touches(bars[Len(bars)], 1) /\ ~Replay!Touches(bars[Len(bars)], 3)
                  => ~Replay!Touches(bars'[Len(bars)], q)
<1> DEFINE end == Len(bars)
           low == Replay!Min({bars[end].low, p})
           high == Replay!Max({bars[end].high, p})
<1>1. end \in 1..Len(bars) /\ bars[end] \in Bar
  BY DEF ReplayType
<1>2. bars[end].low \in 1..3 /\ bars[end].high \in 1..3 /\ p \in 1..3
  BY <1>1 DEF Bar, Replay!Prices
<1>3. /\ low \in {bars[end].low, p} /\ low <= bars[end].low /\ low <= p
      /\ high \in {bars[end].high, p} /\ bars[end].high <= high /\ p <= high
  BY <1>2, TwoPrices
<1>4. quote' = p /\ bars' = [bars EXCEPT ![end] = [low |-> low, high |-> high]]
  BY <1>1 DEF Replay!Tick
<1> HIDE DEF low, high
<1>5. /\ bars' \in Seq(Bar) /\ bars' # <<>> /\ Len(bars') = end
      /\ \A n \in 1..end : n # end => bars'[n] = bars[n]
      /\ bars'[end] = [low |-> low, high |-> high]
  BY <1>1, <1>2, <1>3, <1>4 DEF ReplayType, Bar, Replay!Prices
<1> QED
  BY <1>2, <1>3, <1>4, <1>5 DEF Replay!Touches, Replay!Prices, Replay!EntryPrice

\* A tick keeps what is known of a trade.
LEMMA TickKeeps ==
    ASSUME ReplayType, NEW p \in Replay!Prices, Replay!Tick(p),
           NEW t \in Trade, t.born <= Len(bars), Replayed(quote, bars, t)
    PROVE  LET u == Replay!Lives(t, p)
           IN  u \in Trade /\ u.born = t.born /\ Replayed(quote', bars', u)
<1> DEFINE u == Replay!Lives(t, p)
           end == Len(bars)
<1> USE DEF Replay!EntryPrice, Replay!StopOf, Replay!TargetOf, Replay!Prices
<1>1. end \in Nat \ {0} /\ Len(bars') = end
  BY TickWidens DEF ReplayType
<1>2. u \in Trade /\ u.born = t.born /\ u.issue = t.issue /\ u.taken = t.taken
  BY DEF Replay!Lives, Trade, Fates
<1>0. SUFFICES ASSUME t.taken PROVE Replayed(quote', bars', u)
  BY <1>2 DEF Replayed
<1> USE <1>0
<1>3. CASE t.issue # "open"
  BY <1>3 DEF Replay!Lives, Replayed, ToldLow
<1>4. CASE t.issue = "open" /\ t.truth # "open"
  <2>1. u = t /\ Lived(quote, bars, t)
    BY <1>4 DEF Replay!Lives, Replayed
  <2>2. ASSUME t.truth = "stop", ~t.early PROVE Lived(quote', bars', t)
    <3>1. PICK k \in After(bars, t) : /\ Replay!Touches(bars[k], Replay!StopOf(t.side))
                                /\ \A n \in After(bars, t) : n < k => Clear(bars, t, n)
      BY <2>1, <2>2 DEF Lived
    <3>2. k \in 1..end /\ After(bars', t) = After(bars, t)
      BY <1>1, <3>1 DEF After, Trade
    <3>3. Replay!Touches(bars'[k], Replay!StopOf(t.side))
      BY <1>1, <3>1, <3>2, TickWidens
    <3>4. \A n \in After(bars, t) : n < k => bars'[n] = bars[n]
      BY <1>1, <3>2, TickWidens DEF After, Trade
    <3>5. \A n \in After(bars, t) : n < k => Clear(bars', t, n)
      BY <3>1, <3>4 DEF Clear
    <3> QED
      BY <2>2, <3>1, <3>2, <3>3, <3>5 DEF Lived
  <2>3. ASSUME t.truth = "target", ~t.early PROVE Lived(quote', bars', t)
    <3>1. PICK k \in After(bars, t) : ~Clear(bars, t, k)
      BY <2>1, <2>3 DEF Lived
    <3>2. k \in 1..end /\ After(bars', t) = After(bars, t)
      BY <1>1, <3>1 DEF After, Trade
    <3>3. ~Clear(bars', t, k)
      BY <1>1, <3>1, <3>2, TickWidens DEF Clear
    <3> QED
      BY <2>3, <3>1, <3>2, <3>3 DEF Lived
  <2>4. Lived(quote', bars', t)
    BY <1>4, <2>2, <2>3 DEF Lived, Trade, Fates
  <2> QED
    BY <1>2, <1>4, <2>1, <2>4 DEF Replayed
<1>5. CASE t.issue = "open" /\ t.truth = "open"
  <2>1. \A n \in After(bars, t) : Clear(bars, t, n)
    BY <1>5 DEF Replayed, Lived
  <2>2. After(bars', t) = After(bars, t) /\ After(bars, t) \subseteq 1..end
    BY <1>1 DEF After, Trade
  <2>3. \A n \in After(bars, t) : n < end => Clear(bars', t, n)
    <3>1. \A n \in After(bars, t) : n < end => bars'[n] = bars[n]
      BY <1>1, <2>2, TickWidens
    <3> QED
      BY <2>1, <3>1 DEF Clear
  <2>4. t.born < end => end \in After(bars, t)
    BY <1>1 DEF After, Trade
  <2>5. CASE p = Replay!StopOf(t.side)
    <3>1. u.truth = "stop" /\ u.early = (t.born = end) /\ u.side = t.side
      BY <1>5, <2>5 DEF Replay!Lives, Trade
    <3>2. ASSUME ~u.early PROVE
            /\ end \in After(bars, t) /\ Replay!Touches(bars'[end], Replay!StopOf(t.side))
            /\ \A n \in After(bars, t) : n < end => Clear(bars', t, n)
      <4>1. t.born # end
        BY <3>1, <3>2
      <4>2. t.born < end
        BY <1>1, <4>1 DEF Trade
      <4>3. Replay!Touches(bars'[end], Replay!StopOf(t.side))
        BY <1>1, <2>5, TickWidens
      <4> QED
        BY <2>3, <2>4, <4>2, <4>3
    <3>3. After(bars', u) = After(bars, t) /\ \A n : Clear(bars', u, n) <=> Clear(bars', t, n)
      BY <1>2, <2>2, <3>1 DEF After, Clear
    <3> QED
      BY <1>2, <1>5, <3>1, <3>2, <3>3 DEF Replayed, Lived
  <2>6. CASE p # Replay!StopOf(t.side) /\ p = Replay!TargetOf(t.side)
    <3>1. u.truth = "target" /\ u.early = (t.born = end) /\ u.side = t.side
      BY <1>5, <2>6 DEF Replay!Lives, Trade
    <3>2. ASSUME ~u.early PROVE end \in After(bars, t) /\ ~Clear(bars', t, end)
      <4>1. t.born # end
        BY <3>1, <3>2
      <4>2. t.born < end
        BY <1>1, <4>1 DEF Trade
      <4>3. Replay!Touches(bars'[end], Replay!TargetOf(t.side))
        BY <1>1, <2>6, TickWidens
      <4> QED
        BY <2>4, <4>2, <4>3 DEF Clear
    <3>3. After(bars', u) = After(bars, t) /\ \A n : Clear(bars', u, n) <=> Clear(bars', t, n)
      BY <1>2, <2>2, <3>1 DEF After, Clear
    <3> QED
      BY <1>2, <1>5, <3>1, <3>2, <3>3 DEF Replayed, Lived
  <2>7. CASE p # Replay!StopOf(t.side) /\ p # Replay!TargetOf(t.side)
    <3>1. u = t /\ p = Replay!EntryPrice
      BY <1>5, <2>7 DEF Replay!Lives
    <3>2. end \in After(bars, t) => Clear(bars', t, end)
      <4>1. end \in After(bars, t) => ~Replay!Touches(bars[end], 1) /\ ~Replay!Touches(bars[end], 3)
        BY <2>1 DEF Clear
      <4> QED
        BY <3>1, <4>1, TickWidens DEF Clear
    <3>3. \A n \in After(bars, t) : Clear(bars', t, n)
      BY <1>1, <2>2, <2>3, <3>2
    <3> QED
      BY <1>2, <1>5, <2>2, <3>1, <3>3, TickWidens DEF Replayed, Lived
  <2> QED
    BY <2>5, <2>6, <2>7
<1> QED
  BY <1>3, <1>4, <1>5

\* A new candle keeps what is known of a trade: as long as nothing is lived the price is
\* the one of the entry, which touches no level.
LEMMA MinuteKeeps ==
    ASSUME ReplayType, Replay!NewMinute, NEW t \in Trade, t.born <= Len(bars), Replayed(quote, bars, t)
    PROVE  Replayed(quote', bars', t)
<1> DEFINE fresh == [low |-> quote, high |-> quote]
           end == Len(bars)
<1>0. SUFFICES ASSUME t.taken PROVE Replayed(quote', bars', t)
  BY DEF Replayed
<1> USE <1>0
<1>1. bars' = Append(bars, fresh) /\ quote' = quote
  BY DEF Replay!NewMinute
<1>2. /\ end \in Nat /\ Len(bars') = end + 1 /\ bars'[end + 1] = fresh
      /\ \A n \in 1..end : bars'[n] = bars[n]
  BY <1>1 DEF ReplayType
<1>3. t.born \in Nat /\ After(bars, t) \subseteq 1..end /\ After(bars', t) = After(bars, t) \union {end + 1}
  BY <1>2 DEF After, Trade
<1>4. \A n \in After(bars, t) : Clear(bars', t, n) <=> Clear(bars, t, n)
  BY <1>2, <1>3 DEF Clear
<1>5. CASE t.issue # "open"
  BY <1>5 DEF Replayed, ToldLow
<1>6. CASE t.issue = "open"
  <2>1. ASSUME t.truth = "open" PROVE Lived(quote', bars', t)
    <3>1. quote = Replay!EntryPrice /\ \A n \in After(bars, t) : Clear(bars, t, n)
      BY <1>6, <2>1 DEF Replayed, Lived
    <3>2. Clear(bars', t, end + 1)
      BY <1>2, <3>1 DEF Clear, Replay!Touches, Replay!EntryPrice, Replay!StopOf, Replay!TargetOf
    <3> QED
      BY <1>1, <1>3, <1>4, <2>1, <3>1, <3>2 DEF Lived
  <2>2. ASSUME t.truth = "stop", ~t.early PROVE Lived(quote', bars', t)
    <3>1. PICK k \in After(bars, t) : /\ Replay!Touches(bars[k], Replay!StopOf(t.side))
                                /\ \A n \in After(bars, t) : n < k => Clear(bars, t, n)
      BY <1>6, <2>2 DEF Replayed, Lived
    <3>2. k \in After(bars', t) /\ Replay!Touches(bars'[k], Replay!StopOf(t.side))
      BY <1>2, <1>3, <3>1
    <3>3. \A n \in After(bars', t) : n < k => Clear(bars', t, n)
      BY <1>2, <1>3, <1>4, <3>1
    <3> QED
      BY <2>2, <3>2, <3>3 DEF Lived
  <2>3. ASSUME t.truth = "target", ~t.early PROVE Lived(quote', bars', t)
    <3>1. PICK k \in After(bars, t) : ~Clear(bars, t, k)
      BY <1>6, <2>3 DEF Replayed, Lived
    <3> QED
      BY <1>3, <1>4, <2>3, <3>1 DEF Lived
  <2> QED
    BY <1>6, <2>1, <2>2, <2>3 DEF Lived, Replayed, Trade, Fates
<1> QED
  BY <1>5, <1>6

\* The first candle of the reading that touches a level: before it the reading misses
\* nothing, or nothing at all if the trade is given up.
LEMMA FirstTouch ==
    ASSUME ReplayType, NEW t \in Trade, NEW read \in SUBSET DOMAIN bars, t.born <= Len(bars)
    PROVE  /\ Replay!ExitPrice(t, read) = "open" /\ ~Replay!Truncated(t, read, "aged") =>
                \A n \in After(bars, t) : Clear(bars, t, n)
           /\ Replay!ExitPrice(t, read) = "target" /\ ~Replay!Truncated(t, read, "target") =>
                \E n \in After(bars, t) : /\ ~Clear(bars, t, n)
                                    /\ ~Replay!Touches(bars[n], Replay!StopOf(t.side))
                                    /\ \A m \in After(bars, t) : m < n => Clear(bars, t, m)
<1> DEFINE hit == {n \in Replay!Relevant(t, read) :
                     Replay!Touches(bars[n], Replay!StopOf(t.side))
                     \/ Replay!Touches(bars[n], Replay!TargetOf(t.side))}
<1>1. Len(bars) \in Nat /\ DOMAIN bars = 1..Len(bars) /\ t.born \in Nat
  BY DEF ReplayType, Trade
<1>2. After(bars, t) = {n \in DOMAIN bars : n > t.born}
  BY <1>1 DEF After
<1>3. hit = {n \in After(bars, t) : n \in read /\ ~Clear(bars, t, n)}
  BY <1>2 DEF Clear, Replay!Relevant
<1>4. Replay!ExitPrice(t, read) =
        IF hit = {} THEN "open"
        ELSE IF Replay!Touches(bars[Replay!Min(hit)], Replay!StopOf(t.side))
             THEN "stop" ELSE "target"
  BY DEF Replay!ExitPrice
<1>5. CASE hit = {}
  <2>1. Replay!ExitPrice(t, read) = "open"
    BY <1>4, <1>5
  <2>2. ~Replay!Truncated(t, read, "aged") => After(bars, t) \subseteq read
    BY <1>2 DEF Replay!Truncated
  <2> QED
    BY <1>3, <1>5, <2>1, <2>2
<1>6. CASE hit # {}
  <2>1. hit \in SUBSET Nat
    BY <1>1, <1>3 DEF After
  <2>2. Replay!Min(hit) \in hit /\ \A m \in hit : Replay!Min(hit) <= m
    <3> HIDE DEF hit
    <3> QED
      BY <1>6, <2>1, FirstOf DEF Replay!Min
  <2>3. ASSUME ~Replay!Truncated(t, read, "target")
        PROVE  \A m \in After(bars, t) : m < Replay!Min(hit) => Clear(bars, t, m)
    <3> SUFFICES ASSUME NEW m \in After(bars, t), m < Replay!Min(hit), ~Clear(bars, t, m) PROVE FALSE
      OBVIOUS
    <3>0. m \in read
      <4>1. Replay!Min(hit) \in read
        BY <1>3, <2>2
      <4> HIDE DEF hit
      <4> QED
        BY <1>2, <2>3, <4>1 DEF Replay!Truncated
    <3>1. m \in hit /\ m \in Nat /\ Replay!Min(hit) \in Nat
      BY <1>1, <1>3, <2>1, <2>2, <3>0 DEF After
    <3> HIDE DEF hit
    <3> QED
      BY <2>2, <3>1
  <2> HIDE DEF hit
  <2> QED
    BY <1>3, <1>4, <1>6, <2>2, <2>3
<1> QED
  BY <1>5, <1>6

\* A round records at worst a pessimistic issue.
LEMMA RoundKeeps ==
    ASSUME ReplayType, NEW t \in Trade, t.born <= Len(bars), t.issue = "open",
           Replayed(quote, bars, t), UNCHANGED <<quote, bars>>, NEW read \in Replay!Series
    PROVE  LET u == Replay!Advance(t, read)
           IN  u \in Trade /\ u.born = t.born /\ Replayed(quote', bars', u)
<1> DEFINE issue == IF Replay!ExitPrice(t, read) # "open" THEN Replay!ExitPrice(t, read)
                    ELSE IF Replay!Minutes(t) >= MaxAge /\ Replay!Relevant(t, read) # {} THEN "aged"
                    ELSE "open"
           u == Replay!Advance(t, read)
           Kept == u \in Trade /\ u.born = t.born /\ Replayed(quote', bars', u)
<1>1. u = [t EXCEPT !.issue = issue, !.cut = issue # "open" /\ Replay!Truncated(t, read, issue)]
  BY DEF Replay!Advance
<1>2. issue \in {"open", "stop", "target", "aged"}
  BY DEF Replay!ExitPrice
<1>5. read \in SUBSET DOMAIN bars
  BY DEF Replay!Series, Replay!Readings, ReplayType
<1> HIDE DEF u
<1>3. Kept
  <2>1. /\ u.side = t.side /\ u.kind = t.kind /\ u.born = t.born /\ u.taken = t.taken
        /\ u.issue = issue /\ u.truth = t.truth /\ u.early = t.early
        /\ u.cut = (issue # "open" /\ Replay!Truncated(t, read, issue))
        /\ u = [side |-> t.side, kind |-> t.kind, born |-> t.born, taken |-> t.taken,
                issue |-> issue, truth |-> t.truth, early |-> t.early,
                cut |-> (issue # "open" /\ Replay!Truncated(t, read, issue))]
    BY <1>1 DEF Trade
  <2>2. u \in Trade
    BY <1>2, <2>1 DEF Trade, Fates
  <2>0. SUFFICES ASSUME t.taken PROVE Kept
    BY <2>1, <2>2 DEF Replayed
  <2> USE <2>0
  <2>3. Lived(quote, bars, t)
    BY DEF Replayed
  <2>4. CASE issue = "open"
    <3>1. Lived(quote', bars', u)
      BY <2>1, <2>3 DEF Lived, After, Clear
    <3> QED
      BY <2>1, <2>2, <2>4, <3>1 DEF Replayed
  <2>5. CASE issue # "open"
    <3>1. CASE issue = "stop" \/ Replay!Truncated(t, read, issue)
      BY <2>1, <2>2, <2>5, <3>1 DEF Replayed, ToldLow
    <3>2. CASE issue = "target" /\ ~Replay!Truncated(t, read, issue)
      <4>1. Replay!ExitPrice(t, read) = "target"
        BY <3>2
      <4>2. PICK n \in After(bars, t) : /\ ~Clear(bars, t, n)
                                  /\ ~Replay!Touches(bars[n], Replay!StopOf(t.side))
                                  /\ \A m \in After(bars, t) : m < n => Clear(bars, t, m)
        BY <1>5, <3>2, <4>1, FirstTouch
      <4>3. t.truth # "open"
        BY <2>3, <4>2 DEF Lived
      <4>4. ASSUME t.truth = "stop", ~t.early PROVE FALSE
        <5>1. PICK k \in After(bars, t) : /\ Replay!Touches(bars[k], Replay!StopOf(t.side))
                                    /\ \A m \in After(bars, t) : m < k => Clear(bars, t, m)
          BY <2>3, <4>4 DEF Lived
        <5>2. k \in Nat /\ n \in Nat /\ ~Clear(bars, t, k)
          BY <5>1 DEF After, Trade, Clear, ReplayType
        <5>3. ~(n < k) /\ ~(k < n) /\ n # k
          BY <4>2, <5>1, <5>2
        <5> QED
          BY <5>2, <5>3
      <4> QED
        BY <2>1, <2>2, <2>5, <3>2, <4>3, <4>4 DEF Replayed, ToldLow, Trade, Fates
    <3>3. CASE issue = "aged" /\ ~Replay!Truncated(t, read, issue)
      <4>1. Replay!ExitPrice(t, read) = "open"
        BY <3>3 DEF Replay!ExitPrice
      <4>2. \A n \in After(bars, t) : Clear(bars, t, n)
        BY <1>5, <3>3, <4>1, FirstTouch
      <4>3. t.truth = "stop" => t.early
        BY <2>3, <4>2 DEF Lived, Clear
      <4>4. t.truth = "target" => t.early
        BY <2>3, <4>2 DEF Lived
      <4> QED
        BY <2>1, <2>2, <2>5, <3>3, <4>3, <4>4 DEF Replayed, ToldLow, Trade, Fates
    <3> QED
      BY <1>2, <2>5, <3>1, <3>2, <3>3
  <2> QED
    BY <2>1, <2>2, <2>4, <2>5
<1> QED
  BY <1>3 DEF u

\* Every step keeps what the candles show of the trades.
LEMMA StepReplay == ReplayInv /\ [Replay!Next]_replayed => ReplayInv'
<1> SUFFICES ASSUME ReplayInv, [Replay!Next]_replayed PROVE ReplayInv'
  OBVIOUS
<1>0. /\ ReplayType /\ Len(bars) \in Nat \ {0}
      /\ \A n \in DOMAIN imagined : /\ imagined[n] \in Trade
                                    /\ imagined[n].born <= Len(bars)
                                    /\ Replayed(quote, bars, imagined[n])
  BY DEF ReplayInv, ReplayType
<1>1. ASSUME NEW p \in Replay!Prices \ {quote}, Replay!Tick(p) PROVE ReplayInv'
  <2> DEFINE lives(n) == Replay!Lives(imagined[n], p)
  <2>1. imagined' = [n \in DOMAIN imagined |-> lives(n)]
    BY <1>1 DEF Replay!Tick
  <2>2. \A n \in DOMAIN imagined : lives(n) \in Trade /\ lives(n).born = imagined[n].born
    BY <1>0, <1>1, TickKeeps
  <2>3. \A n \in DOMAIN imagined : Replayed(quote', bars', lives(n))
    <3> SUFFICES ASSUME NEW n \in DOMAIN imagined PROVE Replayed(quote', bars', lives(n))
      OBVIOUS
    <3> DEFINE t == imagined[n]
    <3>1. t \in Trade /\ t.born <= Len(bars) /\ Replayed(quote, bars, t)
      BY <1>0
    <3> QED
      BY <1>0, <1>1, <3>1, TickKeeps
  <2>4. Len(bars') = Len(bars) /\ bars' \in Seq(Bar) /\ bars' # <<>> /\ quote' \in Replay!Prices
    BY <1>0, <1>1, TickWidens
  <2> HIDE DEF lives
  <2>5. DOMAIN imagined' = DOMAIN imagined /\ imagined' \in Seq(Trade)
        /\ \A n \in DOMAIN imagined : imagined'[n] = lives(n)
    BY <1>0, <2>1, <2>2 DEF ReplayType
  <2>6. ReplayType'
    BY <1>0, <2>2, <2>4, <2>5 DEF ReplayType
  <2> QED
    BY <2>3, <2>5, <2>6 DEF ReplayInv
<1>2. CASE Replay!NewMinute
  <2>1. imagined' = imagined /\ quote' = quote /\ bars' = Append(bars, [low |-> quote, high |-> quote])
    BY <1>2 DEF Replay!NewMinute
  <2>2. Len(bars') = Len(bars) + 1 /\ bars' \in Seq(Bar) /\ bars' # <<>>
    BY <1>0, <2>1 DEF ReplayType, Bar
  <2>3. \A n \in DOMAIN imagined : imagined[n].born \in Nat
    BY <1>0 DEF Trade
  <2>4. ReplayType'
    BY <1>0, <2>1, <2>2, <2>3 DEF ReplayType
  <2>5. \A n \in DOMAIN imagined : Replayed(quote', bars', imagined[n])
    BY <1>0, <1>2, MinuteKeeps
  <2> QED
    BY <2>1, <2>4, <2>5 DEF ReplayInv
<1>3. ASSUME NEW kind \in Replay!Kinds, Replay!Round(kind) PROVE ReplayInv'
  <2> DEFINE open == {n \in DOMAIN imagined : /\ imagined[n].kind = kind
                                              /\ imagined[n].issue = "open" /\ Replay!Looked(n)}
  <2>0. PICK reads \in [open -> Replay!Series] :
          /\ imagined' = [n \in DOMAIN imagined |->
               IF n \in open THEN Replay!Advance(imagined[n], reads[n]) ELSE imagined[n]]
          /\ UNCHANGED <<quote, bars>>
    BY <1>3 DEF Replay!Round
  <2> DEFINE next(n) == IF n \in open THEN Replay!Advance(imagined[n], reads[n]) ELSE imagined[n]
  <2>1. imagined' = [n \in DOMAIN imagined |-> next(n)] /\ UNCHANGED <<quote, bars>>
    BY <2>0
  <2>2. ASSUME NEW n \in DOMAIN imagined
        PROVE  next(n) \in Trade /\ next(n).born = imagined[n].born /\ Replayed(quote', bars', next(n))
    <3> DEFINE t == imagined[n]
    <3>1. t \in Trade /\ t.born <= Len(bars) /\ Replayed(quote, bars, t)
      BY <1>0
    <3>2. CASE n \in open
      <4>1. next(n) = Replay!Advance(t, reads[n])
        BY <3>2
      <4>2. t.issue = "open" /\ reads[n] \in Replay!Series
        BY <3>2
      <4> HIDE DEF next, open, t
      <4> QED
        BY <1>0, <2>1, <3>1, <4>1, <4>2, RoundKeeps DEF t
    <3>3. CASE n \notin open
      <4>1. next(n) = t
        BY <3>3
      <4>2. quote' = quote /\ bars' = bars
        BY <2>1
      <4> HIDE DEF next, open
      <4> QED
        BY <3>1, <4>1, <4>2
    <3> QED
      BY <3>2, <3>3
  <2>3. \A n \in DOMAIN imagined : Replayed(quote', bars', next(n))
    BY <2>2
  <2> HIDE DEF next
  <2>4. DOMAIN imagined' = DOMAIN imagined /\ imagined' \in Seq(Trade)
        /\ \A n \in DOMAIN imagined : imagined'[n] = next(n)
    <3>1. imagined \in Seq(Trade)
      BY <1>0 DEF ReplayType
    <3>2. imagined' = [n \in DOMAIN imagined |-> next(n)]
      BY <2>1
    <3>3. \A n \in DOMAIN imagined : next(n) \in Trade
      BY <2>2
    <3> QED
      BY <3>1, <3>2, <3>3
  <2>5. ReplayType'
    BY <1>0, <2>1, <2>2, <2>4 DEF ReplayType
  <2> QED
    BY <2>3, <2>4, <2>5 DEF ReplayInv
<1>4. ASSUME NEW side \in Directions, NEW kind \in Replay!Kinds, Replay!Imagine(side, kind)
      PROVE  ReplayInv'
  <2> DEFINE t == [side |-> side, kind |-> kind, born |-> Len(bars),
                   taken |-> quote = Replay!EntryPrice, issue |-> "open",
                   truth |-> "open", early |-> FALSE, cut |-> FALSE]
  <2>1. imagined' = Append(imagined, t) /\ quote' = quote /\ bars' = bars
    BY <1>4 DEF Replay!Imagine
  <2>2. t \in Trade /\ t.born = Len(bars)
    BY <1>0 DEF Trade, Fates
  <2>3. After(bars, t) = {}
    BY <1>0 DEF After
  <2>4. Replayed(quote', bars', t)
    BY <2>1, <2>3 DEF Replayed, Lived, After
  <2> HIDE DEF t
  <2>5. /\ imagined' \in Seq(Trade)
        /\ \A n \in DOMAIN imagined' :
             imagined'[n] = t \/ (n \in DOMAIN imagined /\ imagined'[n] = imagined[n])
    BY <1>0, <2>1, <2>2 DEF ReplayType
  <2>6. ReplayType'
    BY <1>0, <2>1, <2>2, <2>5 DEF ReplayType
  <2>7. \A n \in DOMAIN imagined : Replayed(quote', bars', imagined[n])
    BY <1>0, <2>1 DEF Replayed, Lived, ToldLow, After, Clear
  <2> QED
    BY <2>4, <2>5, <2>6, <2>7 DEF ReplayInv
<1>5. CASE UNCHANGED replayed
  BY <1>0, <1>5 DEF replayed, ReplayInv, ReplayType, Replayed, Lived, ToldLow, After, Clear
<1> QED
  BY <1>1, <1>2, <1>3, <1>4, <1>5 DEF Replay!Next

\* Whatever the market does and whenever the rounds run: reading candles tells no gain
\* that a trade entered at once, followed tick after tick on the same prices, did not
\* make, unless it came in the minute of the birth or the candles read begin after it.
THEOREM ReplayAddsNoGain == Spec => []NotBetterThanTicks
<1>1. Init => ReplayInv
  <2> SUFFICES ASSUME Replay!Init PROVE ReplayInv
    BY DEF Init
  <2>1. quote \in Replay!Prices /\ bars = <<[low |-> quote, high |-> quote]>> /\ imagined = <<>>
    BY DEF Replay!Init
  <2>2. bars \in Seq(Bar) /\ bars # <<>>
    BY <2>1 DEF Bar
  <2> QED
    BY <2>1, <2>2 DEF ReplayInv, ReplayType
<1>2. ReplayInv /\ [Next]_vars => ReplayInv'
  BY StepReplay, OneAtWork
<1>3. ReplayInv => NotBetterThanTicks
  <2> SUFFICES ASSUME ReplayInv, NEW n \in DOMAIN imagined, imagined[n].issue # "open",
                      imagined[n].taken
               PROVE  ToldLow(imagined[n])
    BY DEF NotBetterThanTicks, Replay!NotBetterThanTicks, ToldLow
  <2> QED
    BY DEF ReplayInv, Replayed
<1> QED
  BY <1>1, <1>2, <1>3, PTL DEF Spec

-----------------------------------------------------------------------------
(* Notifications: the telephone.                                           *)

Ring == [alert : Alerts, at : Nat, answered : BOOLEAN]
NoticeType ==
    /\ IsWork(work) /\ clock \in Nat /\ rung \in Seq(Ring) /\ IsFiniteSet(inbox)
    /\ \A c \in Callers :
          /\ work[c].step \in {"create", "send"} => work[c].alert \in Alerts
          /\ work[c].step = "send" => work[c].at \in Nat

\* The rings FCM answered for, of the hour that ends at a moment.
HourOf(rings, at) == {m \in DOMAIN rings : rings[m].answered /\ rings[m].at + Hour >= at}

\* An alert may ring: neither its window nor the limit of the hour is against it.
Allowed(rings, alert, at) ==
    /\ \A m \in DOMAIN rings :
          rings[m].alert = alert => rings[m].at + DedupWindow[alert] < at
    /\ alert \notin CriticalAlerts => Cardinality(HourOf(rings, at)) < MaxPushPerHour

\* One caller has notifications under way.  What an uncommitted row hides from the others
\* is hidden from nobody who is at work.
OneCaller ==
    \A c, d \in Callers : work[c] # Notify!Idle /\ work[d] # Notify!Idle => c = d
OwnedRows ==
    \A r \in inbox : r.of = Notify!Stored \/ (r.of \in Callers /\ work[r.of] # Notify!Idle)

\* Every ring of the last hour has its row, pushed if FCM answered, and an alert about
\* to ring is allowed.
RowOf(r, ring) == r.alert = ring.alert /\ r.at = ring.at /\ (ring.answered => r.pushed)
RingsKept ==
    \A m \in DOMAIN rung : rung[m].at + Hour >= clock =>
        \E r \in inbox : RowOf(r, rung[m])
DueAllowed ==
    \A c \in Callers :
        /\ work[c].step = "create" /\ work[c].push => Allowed(rung, work[c].alert, clock)
        /\ work[c].step = "send" => Allowed(rung, work[c].alert, work[c].at)
Rang == \A n \in DOMAIN rung : Allowed(SubSeq(rung, 1, n - 1), rung[n].alert, rung[n].at)

Calm == OneCaller /\ OwnedRows /\ RingsKept /\ DueAllowed /\ Rang
QuietInv == NoticeType /\ (forgotten \/ overlap \/ Calm)

\* As time passes, fewer rings count against an alert.
LEMMA AllowedLater ==
    ASSUME NEW rings \in Seq(Ring), NEW alert \in Alerts, NEW at \in Nat, NEW later \in Nat,
           at <= later, Allowed(rings, alert, at)
    PROVE  Allowed(rings, alert, later)
<1>1. IsFiniteSet(DOMAIN rings) /\ \A m \in DOMAIN rings : rings[m].at \in Nat
  <2>1. DOMAIN rings = 1..Len(rings) /\ Len(rings) \in Nat
    OBVIOUS
  <2>2. IsFiniteSet(1..Len(rings))
    BY <2>1, FS_Interval
  <2>3. \A m \in DOMAIN rings : rings[m] \in Ring
    OBVIOUS
  <2> QED
    BY <2>1, <2>2, <2>3 DEF Ring
<1>2. Hour \in Nat /\ DedupWindow[alert] \in Nat /\ MaxPushPerHour \in Nat
  BY WindowsBounds DEF Notify!WindowsAssumption
<1>3. HourOf(rings, later) \subseteq HourOf(rings, at)
  BY <1>1, <1>2 DEF HourOf
<1>4. /\ Cardinality(HourOf(rings, later)) <= Cardinality(HourOf(rings, at))
      /\ Cardinality(HourOf(rings, later)) \in Nat /\ Cardinality(HourOf(rings, at)) \in Nat
  <2>1. IsFiniteSet(HourOf(rings, at))
    BY <1>1, FS_Subset DEF HourOf
  <2> QED
    BY <1>3, <2>1, FS_Subset, FS_CardinalityType
<1> QED
  BY <1>1, <1>2, <1>4 DEF Allowed

\* A map of a set onto another that tells its elements apart: the first is no larger.
LEMMA NoLarger ==
    ASSUME NEW S, NEW T, IsFiniteSet(T), NEW f \in [S -> T],
           \A x, y \in S : f[x] = f[y] => x = y
    PROVE  Cardinality(S) <= Cardinality(T)
  BY FS_Injection DEF Injection, IsInjective

\* A caller that is alone sees every row, and with them every ring that counts.
LEMMA AskAllows ==
    ASSUME NoticeType, Calm, NEW c \in Callers, NEW alert \in Alerts,
           \A d \in Callers \ {c} : work[d] = Notify!Idle,
           ~Notify!Duplicate(Notify!Visible(c), alert),
           \/ alert \in CriticalAlerts
           \/ Notify!PushesLastHour(Notify!Visible(c)) < MaxPushPerHour
    PROVE  Allowed(rung, alert, clock)
<1>0. /\ Hour \in Nat /\ DedupWindow \in [Alerts -> 0..Hour] /\ MaxPushPerHour \in Nat
      /\ \A m \in DOMAIN rung : rung[m].alert \in Alerts /\ rung[m].at \in Nat
      /\ clock \in Nat /\ IsFiniteSet(inbox)
  <2>1. \A m \in DOMAIN rung : rung[m] \in Ring
    BY DEF NoticeType
  <2> QED
    BY <2>1, WindowsBounds DEF Notify!WindowsAssumption, NoticeType, Ring
<1>1. Notify!Visible(c) = inbox
  <2>1. \A r \in inbox : r.of \in {c, Notify!Stored}
    BY DEF Calm, OwnedRows
  <2> QED
    BY <2>1 DEF Notify!Visible
<1>2. ASSUME NEW m \in DOMAIN rung, rung[m].alert = alert
      PROVE  rung[m].at + DedupWindow[alert] < clock
  <2> SUFFICES ASSUME ~(rung[m].at + DedupWindow[alert] < clock) PROVE FALSE
    OBVIOUS
  <2>1. rung[m].at + DedupWindow[alert] >= clock /\ rung[m].at + Hour >= clock
    BY <1>0
  <2>2. PICK r \in inbox : r.alert = rung[m].alert /\ r.at = rung[m].at
    BY <2>1 DEF Calm, RingsKept, RowOf
  <2> QED
    BY <1>1, <1>2, <2>1, <2>2 DEF Notify!Duplicate
<1>3. ASSUME alert \notin CriticalAlerts
      PROVE  Cardinality(HourOf(rung, clock)) < MaxPushPerHour
  <2> DEFINE pushes == {r \in inbox : r.pushed /\ r.at + Hour >= clock}
             line == [m \in HourOf(rung, clock) |->
                        CHOOSE r \in pushes : r.alert = rung[m].alert /\ r.at = rung[m].at]
  <2>1. ASSUME NEW m \in HourOf(rung, clock)
        PROVE  line[m] \in pushes /\ line[m].alert = rung[m].alert /\ line[m].at = rung[m].at
    <3>1. PICK r \in inbox : r.pushed /\ r.alert = rung[m].alert /\ r.at = rung[m].at
      BY <2>1 DEF HourOf, Calm, RingsKept, RowOf
    <3>2. r \in pushes
      BY <2>1, <3>1 DEF HourOf
    <3> HIDE DEF pushes
    <3> QED
      BY <3>1, <3>2
  <2>2. ASSUME NEW m \in HourOf(rung, clock), NEW n \in HourOf(rung, clock),
               rung[m].alert = rung[n].alert, rung[m].at = rung[n].at, m < n
        PROVE  FALSE
    <3>1. m \in 1..(n - 1) /\ n \in DOMAIN rung /\ m \in DOMAIN rung /\ n - 1 \in Nat
      BY <2>2 DEF HourOf, NoticeType
    <3>2. Allowed(SubSeq(rung, 1, n - 1), rung[n].alert, rung[n].at)
      BY <3>1 DEF Calm, Rang
    <3>3. m \in DOMAIN SubSeq(rung, 1, n - 1) /\ SubSeq(rung, 1, n - 1)[m] = rung[m]
      BY <3>1 DEF NoticeType
    <3>4. rung[m].at + DedupWindow[rung[n].alert] < rung[n].at
      BY <2>2, <3>2, <3>3 DEF Allowed
    <3>5. DedupWindow[rung[n].alert] \in Nat
      BY <1>0, <3>1
    <3> QED
      BY <1>0, <2>2, <3>1, <3>4, <3>5
  <2>3. \A m, n \in HourOf(rung, clock) : line[m] = line[n] => m = n
    <3> SUFFICES ASSUME NEW m \in HourOf(rung, clock), NEW n \in HourOf(rung, clock),
                        line[m] = line[n], m # n
                 PROVE  FALSE
      OBVIOUS
    <3>1. rung[m].alert = rung[n].alert /\ rung[m].at = rung[n].at
      BY <2>1
    <3>2. m < n \/ n < m
      BY DEF HourOf, NoticeType
    <3> QED
      BY <2>2, <3>1, <3>2
  <2>4. line \in [HourOf(rung, clock) -> pushes]
    <3> HIDE DEF pushes
    <3> QED
      BY <2>1
  <2>5. IsFiniteSet(pushes)
    BY <1>0, FS_Subset
  <2> HIDE DEF line
  <2>6. Cardinality(HourOf(rung, clock)) <= Cardinality(pushes)
    BY <2>3, <2>4, <2>5, NoLarger
  <2>7. Cardinality(pushes) < MaxPushPerHour
    BY <1>1, <1>3 DEF Notify!PushesLastHour, Notify!Cardinality, Cardinality
  <2>8. Cardinality(pushes) \in Nat /\ Cardinality(HourOf(rung, clock)) \in Nat
    <3>1. IsFiniteSet(HourOf(rung, clock))
      BY <2>3, <2>4, <2>5, FS_Injection DEF Injection, IsInjective
    <3> QED
      BY <2>5, <3>1, FS_CardinalityType
  <2> QED
    BY <1>0, <2>6, <2>7, <2>8
<1> QED
  BY <1>2, <1>3 DEF Allowed

\* The types are kept by every step.
LEMMA StepNotice == NoticeType /\ [Notify!Next]_notified => NoticeType'
<1> SUFFICES ASSUME NoticeType, [Notify!Next]_notified PROVE NoticeType'
  OBVIOUS
<1>0. /\ IsWork(work) /\ clock \in Nat /\ rung \in Seq(Ring) /\ IsFiniteSet(inbox)
      /\ \A c \in Callers :
            /\ work[c].step \in {"create", "send"} => work[c].alert \in Alerts
            /\ work[c].step = "send" => work[c].at \in Nat
  BY DEF NoticeType
<1>1. ASSUME NEW c \in Callers, NEW alert \in Alerts, NEW preference \in {"inbox", "push"},
             Notify!Ask(c, alert, preference)
      PROVE  NoticeType'
  <2> DEFINE next == Notify!Verdict(c, alert, preference)
  <2>1. next.step = "create" /\ next.alert = alert
    BY DEF Notify!Verdict
  <2>2. /\ work' = [work EXCEPT ![c] = next]
        /\ UNCHANGED <<clock, rung, inbox>>
    BY <1>1 DEF Notify!Ask
  <2> HIDE DEF next
  <2>3. IsWork(work)' /\ work'[c] = next /\ \A d \in Callers \ {c} : work'[d] = work[d]
    BY <1>0, <2>2, OthersKept
  <2> QED
    BY <1>0, <2>1, <2>2, <2>3 DEF NoticeType
<1>2. ASSUME NEW c \in Callers, Notify!Create(c) PROVE NoticeType'
  <2> DEFINE next == IF work[c].push
                     THEN [step |-> "send", alert |-> work[c].alert, at |-> clock,
                           to |-> registered]
                     ELSE [step |-> "open"]
             new == [alert |-> work[c].alert, at |-> clock, pushed |-> FALSE, of |-> c]
  <2>1. work[c].alert \in Alerts
    BY <1>0, <1>2 DEF Notify!Create
  <2>2. next.step \in {"open", "send"}
        /\ (next.step = "send" => next.alert \in Alerts /\ next.at \in Nat)
    BY <1>0, <2>1
  <2>3. /\ work' = [work EXCEPT ![c] = next] /\ inbox' = inbox \union {new}
        /\ UNCHANGED <<clock, rung>>
    BY <1>2 DEF Notify!Create
  <2> HIDE DEF next, new
  <2>4. IsWork(work)' /\ work'[c] = next /\ \A d \in Callers \ {c} : work'[d] = work[d]
    BY <1>0, <2>3, OthersKept
  <2>5. IsFiniteSet(inbox')
    BY <1>0, <2>3, FS_AddElement
  <2> QED
    BY <1>0, <2>2, <2>3, <2>4, <2>5 DEF NoticeType
<1>3. ASSUME NEW c \in Callers, Notify!Send(c) PROVE NoticeType'
  <2>1. /\ work[c].step = "send" /\ clock' = clock
        /\ work' = [work EXCEPT ![c] = [step |-> "open"]]
        /\ \E delivered, answered \in BOOLEAN : Notify!Rings(c, delivered, answered)
    BY <1>3 DEF Notify!Send
  <2>0. PICK delivered \in BOOLEAN, answered \in BOOLEAN : Notify!Rings(c, delivered, answered)
    BY <2>1
  <2> DEFINE ring == [alert |-> work[c].alert, at |-> work[c].at, answered |-> answered]
  <2>2. ring \in Ring
    BY <1>0, <2>1 DEF Ring
  <2>3. /\ rung' \in {rung, Append(rung, ring)}
        /\ \E old, new : inbox' = (inbox \ {old}) \union {new}
    BY <2>0 DEF Notify!Rings
  <2> HIDE DEF ring
  <2>4. rung' \in Seq(Ring)
    BY <1>0, <2>2, <2>3
  <2>5. IsFiniteSet(inbox')
    <3>1. PICK old, new : inbox' = (inbox \ {old}) \union {new}
      BY <2>3
    <3>2. IsFiniteSet(inbox \ {old})
      BY <1>0, FS_RemoveElement
    <3> QED
      BY <3>1, <3>2, FS_AddElement
  <2>6. /\ IsWork(work)' /\ work'[c] = [step |-> "open"]
        /\ \A d \in Callers \ {c} : work'[d] = work[d]
    BY <1>0, <2>1, OthersKept
  <2> QED
    BY <1>0, <2>1, <2>4, <2>5, <2>6 DEF NoticeType
<1>4. ASSUME NEW c \in Callers, Notify!Ends(c), IsFiniteSet(inbox') PROVE NoticeType'
  <2>1. work' = [work EXCEPT ![c] = Notify!Idle] /\ UNCHANGED <<clock, rung>>
    BY <1>4 DEF Notify!Ends
  <2>2. /\ IsWork(work)' /\ work'[c] = Notify!Idle
        /\ \A d \in Callers \ {c} : work'[d] = work[d]
    BY <1>0, <2>1, OthersKept
  <2> QED
    BY <1>0, <1>4, <2>1, <2>2 DEF NoticeType, Notify!Idle
<1>5. ASSUME NEW c \in Callers, Notify!Keep(c) PROVE NoticeType'
  <2> DEFINE kept == [r \in inbox |-> IF r.of = c THEN [r EXCEPT !.of = Notify!Stored] ELSE r]
             all == {kept[r] : r \in inbox}
  <2>1. inbox' = all
    BY <1>5 DEF Notify!Keep
  <2>2. kept \in Surjection(inbox, all)
    BY DEF Surjection
  <2>3. IsFiniteSet(inbox')
    BY <1>0, <2>1, <2>2, FS_Surjection
  <2> QED
    BY <1>4, <1>5, <2>3 DEF Notify!Keep
<1>6. ASSUME NEW c \in Callers, Notify!Forget(c) PROVE NoticeType'
  <2>1. IsFiniteSet(inbox')
    BY <1>0, <1>6, FS_Subset DEF Notify!Forget
  <2> QED
    BY <1>4, <1>6, <2>1 DEF Notify!Forget
<1>7. CASE Notify!Purge \/ Notify!DeleteAll
  <2>1. inbox' \subseteq inbox /\ UNCHANGED <<work, clock, rung>>
    BY <1>7 DEF Notify!Purge, Notify!DeleteAll
  <2>2. IsFiniteSet(inbox')
    BY <1>0, <2>1, FS_Subset
  <2> QED
    BY <1>0, <2>1, <2>2 DEF NoticeType, IsWork
<1>8. CASE Notify!Reinstall \/ Notify!Register \/ Notify!Tick \/ UNCHANGED notified
  <2>1. UNCHANGED <<work, rung, inbox>> /\ clock' \in {clock, clock + 1}
    BY <1>8 DEF Notify!Reinstall, Notify!Register, Notify!Tick, notified
  <2> QED
    BY <1>0, <2>1 DEF NoticeType, IsWork
<1> QED
  BY <1>1, <1>2, <1>3, <1>5, <1>6, <1>7, <1>8 DEF Notify!Next

\* A ring that was delivered is in the sequence and in the inbox.
LEMMA Delivered ==
    ASSUME NoticeType, Calm, NEW c \in Callers, work[c].step = "send",
           NEW answered \in BOOLEAN, Notify!Rings(c, TRUE, answered), clock' = clock
    PROVE  RingsKept' /\ Rang'
<1> DEFINE ring == [alert |-> work[c].alert, at |-> work[c].at, answered |-> answered]
           new == Notify!Row(c, answered)
           old == Notify!Row(c, FALSE)
           size == Len(rung)
<1>1. rung' = Append(rung, ring) /\ inbox' = (inbox \ {old}) \union {new}
  BY DEF Notify!Rings
<1>2. /\ RowOf(new, ring) /\ new.alert = old.alert /\ new.at = old.at
      /\ old.pushed = FALSE
  BY DEF Notify!Row, RowOf
<1>3. ring \in Ring /\ rung \in Seq(Ring)
  BY DEF NoticeType, Ring
<1>4. Allowed(rung, ring.alert, ring.at)
  BY DEF Calm, DueAllowed
<1> HIDE DEF ring, new, old
<1>5. /\ size \in Nat /\ DOMAIN rung = 1..size /\ DOMAIN rung' = 1..(size + 1)
      /\ rung'[size + 1] = ring /\ \A m \in 1..size : rung'[m] = rung[m]
  BY <1>1, <1>3
<1>6. RingsKept'
  <2> SUFFICES ASSUME NEW m \in 1..(size + 1), rung'[m].at + Hour >= clock
               PROVE  \E r \in inbox' : RowOf(r, rung'[m])
    BY <1>5 DEF RingsKept, RowOf
  <2>1. CASE m = size + 1
    BY <1>1, <1>2, <1>5, <2>1
  <2>2. CASE m \in 1..size
    <3>1. PICK r \in inbox : RowOf(r, rung[m])
      BY <1>5, <2>2 DEF Calm, RingsKept
    <3>2. CASE r # old
      BY <1>1, <1>5, <2>2, <3>1, <3>2
    <3>3. CASE r = old
      <4>1. RowOf(new, rung[m])
        BY <1>2, <3>1, <3>3 DEF RowOf
      <4> QED
        BY <1>1, <1>5, <2>2, <4>1
    <3> QED
      BY <3>2, <3>3
  <2> QED
    BY <1>5, <2>1, <2>2
<1>7. Rang'
  <2> SUFFICES ASSUME NEW n \in 1..(size + 1)
               PROVE  Allowed(SubSeq(rung', 1, n - 1), rung'[n].alert, rung'[n].at)
    BY <1>5 DEF Rang
  <2>1. SubSeq(rung', 1, n - 1) = SubSeq(rung, 1, n - 1)
    BY <1>3, <1>5
  <2>2. CASE n = size + 1
    <3>1. SubSeq(rung, 1, n - 1) = rung
      BY <1>3, <1>5, <2>2
    <3> QED
      BY <1>4, <1>5, <2>1, <2>2, <3>1
  <2>3. CASE n \in 1..size
    BY <1>5, <2>1, <2>3 DEF Calm, Rang
  <2> QED
    BY <1>5, <2>2, <2>3
<1> QED
  BY <1>6, <1>7

\* As long as callers follow one another and nothing is forgotten, what counts against a
\* ring is in the inbox.
LEMMA StepCalm ==
    NoticeType /\ Calm /\ [Notify!Next]_notified => forgotten' \/ overlap' \/ Calm'
<1> SUFFICES ASSUME NoticeType, Calm, [Notify!Next]_notified, ~forgotten', ~overlap'
             PROVE  Calm'
  OBVIOUS
<1>0. /\ IsWork(work) /\ clock \in Nat /\ rung \in Seq(Ring)
      /\ OneCaller /\ OwnedRows /\ RingsKept /\ DueAllowed /\ Rang
  BY DEF NoticeType, Calm
<1>1. ASSUME NEW c \in Callers, NEW alert \in Alerts, NEW preference \in {"inbox", "push"},
             Notify!Ask(c, alert, preference)
      PROVE  Calm'
  <2> DEFINE next == Notify!Verdict(c, alert, preference)
  <2>1. \A d \in Callers \ {c} : work[d] = Notify!Idle
    BY <1>1 DEF Notify!Ask
  <2>2. /\ next.step = "create" /\ next.alert = alert /\ next # Notify!Idle
        /\ next.push => \/ alert \in CriticalAlerts
                        \/ Notify!PushesLastHour(Notify!Visible(c)) < MaxPushPerHour
    <3>1. next.step = "create" /\ next.alert = alert
      BY DEF Notify!Verdict
    <3>2. next.push = (/\ preference = "push"
                       /\ \/ alert \in CriticalAlerts
                          \/ Notify!PushesLastHour(Notify!Visible(c)) < MaxPushPerHour)
      BY DEF Notify!Verdict
    <3>3. next # Notify!Idle
      BY <3>1 DEF Notify!Idle
    <3> HIDE DEF next
    <3> QED
      BY <3>1, <3>2, <3>3
  <2>3. next.push => Allowed(rung, alert, clock)
    BY <1>1, <2>1, <2>2, AskAllows DEF Notify!Ask
  <2>4. work' = [work EXCEPT ![c] = next] /\ UNCHANGED <<clock, rung, inbox>>
    BY <1>1 DEF Notify!Ask
  <2> HIDE DEF next
  <2>5. work'[c] = next /\ \A d \in Callers \ {c} : work'[d] = work[d]
    BY <1>0, <2>4, OthersKept
  <2>6. OneCaller' /\ OwnedRows'
    BY <1>0, <2>1, <2>2, <2>4, <2>5 DEF OneCaller, OwnedRows
  <2>7. DueAllowed'
    BY <1>0, <2>2, <2>3, <2>4, <2>5 DEF DueAllowed
  <2> QED
    BY <1>0, <2>4, <2>6, <2>7 DEF Calm, RingsKept, RowOf, Rang
<1>2. ASSUME NEW c \in Callers, work[c].step \in {"create", "send", "open"}
      PROVE  work[c] # Notify!Idle /\ \A d \in Callers \ {c} : work[d] = Notify!Idle
  BY <1>0, <1>2 DEF OneCaller, Notify!Idle
<1>3. ASSUME NEW c \in Callers, Notify!Create(c) PROVE Calm'
  <2> DEFINE next == IF work[c].push
                     THEN [step |-> "send", alert |-> work[c].alert, at |-> clock,
                           to |-> registered]
                     ELSE [step |-> "open"]
             new == [alert |-> work[c].alert, at |-> clock, pushed |-> FALSE, of |-> c]
  <2>1. /\ next.step # "create" /\ next # Notify!Idle
        /\ next.step = "send" =>
             work[c].push /\ next.alert = work[c].alert /\ next.at = clock
    BY DEF Notify!Idle
  <2>2. /\ work[c].step = "create" /\ inbox' = inbox \union {new} /\ new.of = c
        /\ work' = [work EXCEPT ![c] = next] /\ UNCHANGED <<clock, rung>>
    BY <1>3 DEF Notify!Create
  <2>3. \A d \in Callers \ {c} : work[d] = Notify!Idle
    BY <1>2, <2>2
  <2> HIDE DEF next, new
  <2>4. work'[c] = next /\ \A d \in Callers \ {c} : work'[d] = work[d]
    BY <1>0, <2>2, OthersKept
  <2>5. OneCaller' /\ OwnedRows'
    BY <1>0, <2>1, <2>2, <2>3, <2>4 DEF OneCaller, OwnedRows
  <2>6. DueAllowed'
    BY <1>0, <2>1, <2>2, <2>3, <2>4 DEF DueAllowed
  <2>7. RingsKept'
    <3> SUFFICES ASSUME NEW m \in DOMAIN rung, rung[m].at + Hour >= clock
                 PROVE  \E r \in inbox' : RowOf(r, rung[m])
      BY <2>2 DEF RingsKept, RowOf
    <3>1. PICK r \in inbox : RowOf(r, rung[m])
      BY <1>0 DEF RingsKept
    <3> QED
      BY <2>2, <3>1
  <2> QED
    BY <1>0, <2>2, <2>5, <2>6, <2>7 DEF Calm, Rang
<1>4. ASSUME NEW c \in Callers, Notify!Send(c) PROVE Calm'
  <2> DEFINE next == [step |-> "open"]
  <2>1. /\ work[c].step = "send" /\ work' = [work EXCEPT ![c] = next] /\ clock' = clock
        /\ \/ \E answered \in BOOLEAN : Notify!Rings(c, TRUE, answered)
           \/ \E answered \in BOOLEAN : Notify!Rings(c, FALSE, answered)
    BY <1>4 DEF Notify!Send
  <2>2. \A d \in Callers \ {c} : work[d] = Notify!Idle
    BY <1>2, <2>1
  <2>3. next.step = "open" /\ next # Notify!Idle
    BY DEF Notify!Idle
  <2> HIDE DEF next
  <2>4. work'[c] = next /\ \A d \in Callers \ {c} : work'[d] = work[d]
    BY <1>0, <2>1, OthersKept
  <2>5. \A r \in inbox' : r \in inbox \/ r.of = c
    <3>1. PICK pushed \in BOOLEAN :
            inbox' = (inbox \ {Notify!Row(c, FALSE)}) \union {Notify!Row(c, pushed)}
      <4>1. ASSUME NEW delivered \in BOOLEAN, NEW answered \in BOOLEAN,
                   Notify!Rings(c, delivered, answered)
            PROVE  \E pushed \in BOOLEAN :
                     inbox' = (inbox \ {Notify!Row(c, FALSE)}) \union {Notify!Row(c, pushed)}
        <5>1. (delivered /\ answered) \in BOOLEAN
          OBVIOUS
        <5> QED
          BY <4>1, <5>1 DEF Notify!Rings
      <4> QED
        BY <2>1, <4>1
    <3>2. Notify!Row(c, pushed).of = c
      BY DEF Notify!Row
    <3> QED
      BY <3>1, <3>2
  <2>6. OneCaller' /\ OwnedRows' /\ DueAllowed'
    <3>1. DueAllowed'
      BY <2>2, <2>3, <2>4 DEF DueAllowed, Notify!Idle
    <3>2. OwnedRows'
      BY <1>0, <2>3, <2>4, <2>5 DEF OwnedRows
    <3> QED
      BY <2>2, <2>3, <2>4, <3>1, <3>2 DEF OneCaller
  <2>7. CASE \E answered \in BOOLEAN : Notify!Rings(c, TRUE, answered)
    BY <2>1, <2>6, <2>7, Delivered DEF Calm
  <2>8. CASE \E answered \in BOOLEAN : Notify!Rings(c, FALSE, answered)
    <3>1. rung' = rung /\ inbox' = (inbox \ {Notify!Row(c, FALSE)}) \union {Notify!Row(c, FALSE)}
      BY <2>8 DEF Notify!Rings
    <3>2. \A r \in inbox : r \in inbox'
      BY <3>1
    <3>3. RingsKept' /\ Rang'
      BY <1>0, <2>1, <3>1, <3>2 DEF RingsKept, RowOf, Rang
    <3> QED
      BY <2>6, <3>3 DEF Calm
  <2> QED
    BY <2>1, <2>7, <2>8
<1>5. ASSUME NEW c \in Callers, Notify!Keep(c) PROVE Calm'
  <2>1. /\ work[c].step = "open" /\ work' = [work EXCEPT ![c] = Notify!Idle]
        /\ UNCHANGED <<clock, rung>>
    BY <1>5 DEF Notify!Keep, Notify!Ends
  <2>2. \A d \in Callers \ {c} : work[d] = Notify!Idle
    BY <1>2, <2>1
  <2>3. work'[c] = Notify!Idle /\ \A d \in Callers \ {c} : work'[d] = work[d]
    BY <1>0, <2>1, OthersKept
  <2> DEFINE kept(r) == IF r.of = c THEN [r EXCEPT !.of = Notify!Stored] ELSE r
  <2>4. inbox' = {kept(r) : r \in inbox}
    BY <1>5 DEF Notify!Keep
  <2>5. RingsKept'
    <3> SUFFICES ASSUME NEW m \in DOMAIN rung, rung[m].at + Hour >= clock
                 PROVE  \E r \in inbox' : RowOf(r, rung[m])
      BY <2>1 DEF RingsKept, RowOf
    <3>1. PICK r \in inbox : RowOf(r, rung[m])
      BY <1>0 DEF RingsKept
    <3>2. kept(r) \in inbox'
      BY <2>4
    <3>3. kept(r).pushed = r.pushed /\ kept(r).alert = r.alert /\ kept(r).at = r.at
      OBVIOUS
    <3> HIDE DEF kept
    <3> QED
      BY <3>1, <3>2, <3>3 DEF RowOf
  <2>6. OwnedRows'
    <3> SUFFICES ASSUME NEW r \in inbox PROVE kept(r).of = Notify!Stored
      BY <2>4 DEF OwnedRows
    <3>1. r.of \in {c, Notify!Stored}
      BY <1>0, <2>2 DEF OwnedRows
    <3> QED
      BY <3>1
  <2>7. OneCaller' /\ DueAllowed'
    BY <2>2, <2>3 DEF OneCaller, DueAllowed, Notify!Idle
  <2> QED
    BY <1>0, <2>1, <2>5, <2>6, <2>7 DEF Calm, Rang
<1>6. ASSUME NEW c \in Callers, Notify!Forget(c) PROVE Calm'
  BY <1>6 DEF Notify!Forget
<1>7. CASE Notify!Purge
  <2>1. /\ UNCHANGED <<work, clock, rung>>
        /\ \A r \in inbox : r.at + Hour >= clock => r \in inbox'
        /\ inbox' \subseteq inbox
    BY <1>7 DEF Notify!Purge
  <2>2. RingsKept'
    <3> SUFFICES ASSUME NEW m \in DOMAIN rung, rung[m].at + Hour >= clock
                 PROVE  \E r \in inbox' : RowOf(r, rung[m])
      BY <2>1 DEF RingsKept, RowOf
    <3>1. PICK r \in inbox : RowOf(r, rung[m])
      BY <1>0 DEF RingsKept
    <3> QED
      BY <2>1, <3>1 DEF RowOf
  <2> QED
    BY <1>0, <2>1, <2>2 DEF Calm, OneCaller, OwnedRows, DueAllowed, Rang
<1>8. CASE Notify!DeleteAll
  BY <1>8 DEF Notify!DeleteAll
<1>9. CASE Notify!Tick
  <2>1. clock' = clock + 1 /\ UNCHANGED <<work, rung, inbox>>
    BY <1>9 DEF Notify!Tick
  <2>2. RingsKept'
    <3>1. \A m \in DOMAIN rung : rung[m].at \in Nat
      <4>1. \A m \in DOMAIN rung : rung[m] \in Ring
        BY <1>0
      <4> QED
        BY <4>1 DEF Ring
    <3>2. Hour \in Nat
      BY WindowsBounds DEF Notify!WindowsAssumption
    <3>3. \A m \in DOMAIN rung : rung[m].at + Hour >= clock + 1 => rung[m].at + Hour >= clock
      BY <1>0, <3>1, <3>2
    <3> QED
      BY <1>0, <2>1, <3>3 DEF RingsKept, RowOf
  <2>3. DueAllowed'
    <3> SUFFICES ASSUME NEW c \in Callers, work[c].step = "create", work[c].push
                 PROVE  Allowed(rung, work[c].alert, clock + 1)
      BY <1>0, <2>1 DEF DueAllowed
    <3> QED
      BY <1>0, AllowedLater DEF DueAllowed, NoticeType
  <2> QED
    BY <1>0, <2>1, <2>2, <2>3 DEF Calm, OneCaller, OwnedRows, Rang
<1>10. CASE Notify!Reinstall \/ Notify!Register \/ UNCHANGED notified
  <2>1. UNCHANGED <<work, clock, rung, inbox>>
    BY <1>10 DEF Notify!Reinstall, Notify!Register, notified
  <2> QED
    BY <1>0, <2>1 DEF Calm, OneCaller, OwnedRows, RingsKept, RowOf, DueAllowed, Rang
<1> QED
  BY <1>1, <1>3, <1>4, <1>5, <1>6, <1>7, <1>8, <1>9, <1>10 DEF Notify!Next

\* Nothing takes back that a session was rolled back or that two callers overlapped.
LEMMA NoiseStays ==
    [Notify!Next]_notified => (forgotten => forgotten') /\ (overlap => overlap')
<1> SUFFICES ASSUME [Notify!Next]_notified
             PROVE  (forgotten => forgotten') /\ (overlap => overlap')
  OBVIOUS
<1>1. ASSUME NEW c \in Callers, NEW alert \in Alerts, NEW preference \in {"inbox", "push"},
             Notify!Ask(c, alert, preference)
      PROVE  (forgotten => forgotten') /\ (overlap => overlap')
  BY <1>1, Zenon DEF Notify!Ask
<1>2. ASSUME NEW c \in Callers, Notify!Forget(c)
      PROVE  (forgotten => forgotten') /\ (overlap => overlap')
  BY <1>2 DEF Notify!Forget, Notify!Ends
<1>3. ASSUME NEW c \in Callers, Notify!Create(c) \/ Notify!Send(c) \/ Notify!Keep(c)
      PROVE  UNCHANGED <<forgotten, overlap>>
  BY <1>3 DEF Notify!Create, Notify!Send, Notify!Keep, Notify!Ends, Notify!noise
<1>4. CASE \/ Notify!Purge \/ Notify!Reinstall \/ Notify!Register \/ Notify!Tick
           \/ UNCHANGED notified
  <2>1. UNCHANGED <<forgotten, overlap>>
    BY <1>4 DEF Notify!Purge, Notify!Reinstall, Notify!Register, Notify!Tick, Notify!noise,
                notified
  <2> QED
    BY <2>1
<1>5. CASE Notify!DeleteAll
  BY <1>5 DEF Notify!DeleteAll
<1> QED
  BY <1>1, <1>2, <1>3, <1>4, <1>5 DEF Notify!Next

\* With any number of callers, alerts and windows of at most an hour: the telephone rings
\* once per alert and window, and not once the answered pushes of the hour reach the limit.
THEOREM TelephoneStaysQuiet == Spec => []Quiet
<1>1. Init => QuietInv
  <2> SUFFICES ASSUME Notify!Init PROVE QuietInv
    BY DEF Init
  <2>1. /\ clock = 0 /\ inbox = {} /\ rung = <<>>
        /\ work = [c \in Callers |-> Notify!Idle]
    BY DEF Notify!Init
  <2>2. IsFiniteSet(inbox)
    BY <2>1, FS_EmptySet
  <2>3. \A c \in Callers : work[c] = Notify!Idle
    BY <2>1
  <2> QED
    BY <2>1, <2>2, <2>3
       DEF QuietInv, NoticeType, IsWork, Calm, OneCaller, OwnedRows, RingsKept, DueAllowed,
           Rang, Notify!Idle
<1>2. QuietInv /\ [Next]_vars => QuietInv'
  BY StepNotice, StepCalm, NoiseStays, OneAtWork DEF QuietInv
<1>3. QuietInv => Quiet
  <2> SUFFICES ASSUME NoticeType, Rang, NEW n \in DOMAIN rung
               PROVE  /\ ~\E m \in DOMAIN rung : Notify!Later(m, n)
                      /\ rung[n].alert \notin CriticalAlerts =>
                           Notify!Cardinality(Notify!AnsweredInHourOf(n)) < MaxPushPerHour
    BY DEF QuietInv, Calm, Quiet, Notify!Quiet
  <2> DEFINE before == SubSeq(rung, 1, n - 1)
  <2>1. /\ n \in 1..Len(rung) /\ Len(rung) \in Nat /\ DOMAIN rung = 1..Len(rung)
        /\ DOMAIN before = 1..(n - 1) /\ \A m \in 1..(n - 1) : before[m] = rung[m]
    BY DEF NoticeType
  <2>2. Allowed(before, rung[n].alert, rung[n].at)
    BY DEF Rang
  <2> HIDE DEF before
  <2>3. \A m \in DOMAIN rung : rung[m].at \in Nat /\ rung[m].alert \in Alerts
    <3>1. \A m \in DOMAIN rung : rung[m] \in Ring
      BY DEF NoticeType
    <3> QED
      BY <3>1 DEF Ring
  <2>4. Hour \in Nat /\ \A a \in Alerts : DedupWindow[a] \in Nat
    BY WindowsBounds DEF Notify!WindowsAssumption
  <2>5. ~\E m \in DOMAIN rung : Notify!Later(m, n)
    <3> SUFFICES ASSUME NEW m \in DOMAIN rung, Notify!Later(m, n) PROVE FALSE
      OBVIOUS
    <3>1. m \in 1..(n - 1) /\ rung[m].alert = rung[n].alert
          /\ rung[m].at + DedupWindow[rung[n].alert] >= rung[n].at
      BY <2>1 DEF Notify!Later
    <3>2. rung[m].at + DedupWindow[rung[n].alert] < rung[n].at
      BY <2>1, <2>2, <3>1 DEF Allowed
    <3> QED
      BY <2>3, <2>4, <3>1, <3>2
  <2>6. Notify!AnsweredInHourOf(n) = HourOf(before, rung[n].at)
    BY <2>1 DEF Notify!AnsweredInHourOf, HourOf
  <2> QED
    BY <2>2, <2>5, <2>6 DEF Allowed, Notify!Cardinality, Cardinality
<1> QED
  BY <1>1, <1>2, <1>3, PTL DEF Spec

-----------------------------------------------------------------------------
(* Surveillance.                                                           *)

Analysed == [of : Sessions \union {Watch!Committed}, decision : Watch!Decisions,
             sent : BOOLEAN]
Noisy == unsent \/ mute \/ unseen \/ met
WatchInv == Noisy \/ (trace \in Seq(Analysed) /\ heard = Watch!StillOpen(DOMAIN trace))

\* The announcements of some kinds in a trace, and the last of them.
Announced(log, kinds) == {n \in DOMAIN log : log[n].sent /\ log[n].decision \in kinds}
IsLast(log, kinds, n) ==
    /\ n \in Announced(log, kinds) \union {0}
    /\ \A m \in Announced(log, kinds) : m <= n

\* There is one last announcement, or none.
LEMMA OneIsLast ==
    ASSUME NEW log \in Seq(Analysed), NEW kinds
    PROVE  \E n \in Nat : IsLast(log, kinds, n) /\ \A m : IsLast(log, kinds, m) => m = n
<1> DEFINE S == Announced(log, kinds) \union {0}
<1>1. S \in SUBSET (0..Len(log)) /\ S # {} /\ Len(log) \in Nat
  BY DEF Announced
<1>2. PICK n \in S : \A m \in S : m <= n
  <2> HIDE DEF S
  <2> QED
    BY <1>1, LastOf
<1>3. n \in Nat /\ IsLast(log, kinds, n)
  BY <1>1, <1>2 DEF IsLast
<1>4. ASSUME NEW m, IsLast(log, kinds, m) PROVE m = n
  <2>1. m \in S /\ (n \in Announced(log, kinds) => n <= m)
    BY <1>4 DEF IsLast
  <2>2. m <= n /\ m \in Nat
    BY <1>1, <1>2, <2>1
  <2>3. n = 0 \/ n <= m
    BY <1>2, <2>1
  <2> QED
    BY <1>3, <2>2, <2>3
<1> QED
  BY <1>3, <1>4

\* What is still open in a trace.
IsOpen(log, open) ==
    \E n \in Nat :
        /\ IsLast(log, Watch!Watches, n)
        /\ open = IF n # 0 /\ \A m \in DOMAIN log : m >= n => log[m].decision = log[n].decision
                  THEN log[n].decision ELSE Watch!None

\* StillOpen returns what IsOpen says, and nothing else does.
LEMMA OpenOf ==
    trace \in Seq(Analysed) =>
        \A open : open = Watch!StillOpen(DOMAIN trace) <=> IsOpen(trace, open)
<1> SUFFICES ASSUME trace \in Seq(Analysed)
             PROVE  \A open : open = Watch!StillOpen(DOMAIN trace) <=> IsOpen(trace, open)
  OBVIOUS
<1>1. PICK n \in Nat : /\ IsLast(trace, Watch!Watches, n)
                       /\ \A m : IsLast(trace, Watch!Watches, m) => m = n
  BY OneIsLast
<1>2. Watch!LastAnnounced(DOMAIN trace, Watch!Watches) = n
  <2> DEFINE said == Announced(trace, Watch!Watches)
  <2>1. Watch!LastAnnounced(DOMAIN trace, Watch!Watches)
          = CHOOSE x \in said \union {0} : \A m \in said : m <= x
    BY DEF Watch!LastAnnounced, Announced
  <2>2. \A x : IsLast(trace, Watch!Watches, x)
                 <=> x \in said \union {0} /\ \A m \in said : m <= x
    BY DEF IsLast
  <2> HIDE DEF said
  <2> QED
    BY <1>1, <2>1, <2>2
<1>3. Watch!StillOpen(DOMAIN trace)
        = IF n # 0 /\ \A m \in DOMAIN trace : m >= n => trace[m].decision = trace[n].decision
          THEN trace[n].decision ELSE Watch!None
  BY <1>2 DEF Watch!StillOpen
<1> QED
  BY <1>1, <1>3 DEF IsOpen

\* The same of the trace after a step.
LEMMA OpenAfter ==
    (trace \in Seq(Analysed) =>
        \A open : open = Watch!StillOpen(DOMAIN trace) <=> IsOpen(trace, open))'
  BY OpenOf, PTL

\* An analysis that announces no surveillance leaves open what it agrees with.
LEMMA Unannounced ==
    ASSUME NEW log \in Seq(Analysed), NEW entry \in Analysed, NEW open, IsOpen(log, open),
           ~(entry.sent /\ entry.decision \in Watch!Watches)
    PROVE  IsOpen(Append(log, entry), IF open = entry.decision THEN open ELSE Watch!None)
<1> DEFINE longer == Append(log, entry)
           size == Len(log)
<1>1. PICK n \in Nat :
        /\ IsLast(log, Watch!Watches, n)
        /\ open = IF n # 0 /\ \A m \in DOMAIN log : m >= n => log[m].decision = log[n].decision
                  THEN log[n].decision ELSE Watch!None
  BY DEF IsOpen
<1>2. /\ size \in Nat /\ DOMAIN log = 1..size /\ DOMAIN longer = 1..(size + 1)
      /\ longer[size + 1] = entry /\ \A m \in 1..size : longer[m] = log[m]
  OBVIOUS
<1> HIDE DEF longer
<1>3. Announced(longer, Watch!Watches) = Announced(log, Watch!Watches)
  BY <1>2 DEF Announced
<1>4. IsLast(longer, Watch!Watches, n)
  BY <1>1, <1>3 DEF IsLast
<1>5. n # 0 => n \in 1..size /\ log[n].decision \in Watch!Watches
  BY <1>1, <1>2 DEF IsLast, Announced
<1>6. n # 0 => ((\A m \in DOMAIN longer : m >= n => longer[m].decision = longer[n].decision)
                <=> /\ \A m \in DOMAIN log : m >= n => log[m].decision = log[n].decision
                    /\ entry.decision = log[n].decision)
  BY <1>2, <1>5
<1>7. entry.decision # Watch!None
  BY DEF Analysed, Watch!Decisions, Watch!Watches, Watch!None
<1>8. (IF open = entry.decision THEN open ELSE Watch!None)
        = IF n # 0 /\ \A m \in DOMAIN longer : m >= n => longer[m].decision = longer[n].decision
          THEN longer[n].decision ELSE Watch!None
  <2>1. CASE n = 0
    BY <1>1, <2>1
  <2>2. CASE n # 0
    BY <1>1, <1>2, <1>5, <1>6, <1>7, <2>2 DEF Watch!Watches, Watch!None
  <2> QED
    BY <2>1, <2>2
<1> QED
  BY <1>4, <1>8 DEF IsOpen, longer

\* An analysis that announces a surveillance opens it.
LEMMA JustAnnounced ==
    ASSUME NEW log \in Seq(Analysed), NEW entry \in Analysed,
           entry.sent, entry.decision \in Watch!Watches
    PROVE  IsOpen(Append(log, entry), entry.decision)
<1> DEFINE longer == Append(log, entry)
           size == Len(log)
<1>1. /\ size \in Nat /\ DOMAIN longer = 1..(size + 1) /\ longer[size + 1] = entry
  OBVIOUS
<1> HIDE DEF longer
<1>2. IsLast(longer, Watch!Watches, size + 1)
  BY <1>1 DEF IsLast, Announced
<1>3. \A m \in DOMAIN longer : m >= size + 1 => m = size + 1
  BY <1>1
<1> QED
  BY <1>1, <1>2, <1>3 DEF IsOpen, longer

\* Where no session hides an analysis from another, a step keeps the readers in step.
LEMMA StepWatch == WatchInv /\ [Watch!Next]_watched => WatchInv'
<1> SUFFICES ASSUME WatchInv, [Watch!Next]_watched, ~Noisy' PROVE WatchInv'
  BY DEF WatchInv
<1>0. ~Noisy /\ trace \in Seq(Analysed) /\ heard = Watch!StillOpen(DOMAIN trace)
  <2>1. ASSUME NEW a, NEW decision, NEW sent, Watch!Add(a, decision, sent)
        PROVE  met => met'
    BY <2>1, Zenon DEF Watch!Add
  <2>2. ASSUME NEW a \in Sessions, NEW decision \in Watch!Decisions,
               NEW closing \in BOOLEAN, NEW leaves \in BOOLEAN, NEW cooled \in BOOLEAN,
               Watch!Analyse(a, decision, closing, leaves, cooled)
        PROVE  ~Noisy
    <3>1. (unsent => unsent') /\ (met => met') /\ UNCHANGED <<mute, unseen>>
      BY <2>1, <2>2, Zenon DEF Watch!Analyse
    <3> QED
      BY <3>1 DEF Noisy
  <2>3. ASSUME NEW a \in Sessions, Watch!AnalyseBlind(a) \/ Watch!RollBack(a) PROVE FALSE
    BY <2>3 DEF Watch!AnalyseBlind, Watch!RollBack, Noisy
  <2>4. ASSUME NEW a \in Sessions, Watch!Commit(a) PROVE ~Noisy
    BY <2>4 DEF Watch!Commit, Watch!faults, Noisy
  <2>5. ASSUME UNCHANGED watched PROVE ~Noisy
    <3>1. unsent' = unsent /\ mute' = mute /\ unseen' = unseen /\ met' = met
      BY <2>5 DEF watched
    <3> QED
      BY <3>1, Zenon DEF Noisy
  <2>6. ~Noisy
    BY <2>2, <2>3, <2>4, <2>5 DEF Watch!Next
  <2> QED
    BY <2>6 DEF WatchInv
<1>1. ASSUME NEW a \in Sessions, NEW decision \in Watch!Decisions,
             NEW closing \in BOOLEAN, NEW leaves \in BOOLEAN, NEW cooled \in BOOLEAN,
             Watch!Analyse(a, decision, closing, leaves, cooled)
      PROVE  WatchInv'
  <2> DEFINE open == heard
             ends == open # Watch!None /\ open # decision
             announces == \/ decision = "BUY"
                          \/ /\ decision \in Watch!Watches /\ open = Watch!None
                             /\ cooled \/ Watch!LastAnnounced(Watch!Seen(a), Watch!Decisions) = 0
             entry == [of |-> a, decision |-> decision, sent |-> announces /\ leaves]
  <2>1. \A n \in DOMAIN trace : trace[n].of \in {a, Watch!Committed}
    <3>1. met' = (met \/ \E n \in DOMAIN trace : trace[n].of \notin {a, Watch!Committed})
      BY <1>1 DEF Watch!Analyse, Watch!Add
    <3>2. ~met'
      BY DEF Noisy
    <3> QED
      BY <3>1, <3>2
  <2>2. Watch!Seen(a) = DOMAIN trace
    BY <2>1 DEF Watch!Seen
  <2>3. open = Watch!StillOpen(Watch!Seen(a))
    BY <1>0, <2>2
  <2>4. /\ trace' = Append(trace, entry)
        /\ heard' = CASE announces /\ leaves /\ decision \in Watch!Watches -> decision
                      [] ends /\ closing -> Watch!None
                      [] OTHER -> heard
        /\ unsent' = (unsent \/ (ends /\ ~closing) \/ (announces /\ ~leaves))
    BY <1>1, <2>3 DEF Watch!Analyse, Watch!Add
  <2>5. entry \in Analysed
    BY DEF Analysed
  <2>6. ~unsent'
    BY DEF Noisy
  <2>7. (ends => closing) /\ (announces => leaves)
    BY <2>4, <2>6
  <2>8. IsOpen(trace, open)
    BY <1>0, OpenOf
  <2>9. trace' \in Seq(Analysed)
    BY <1>0, <2>4, <2>5
  <2>10. /\ entry.decision = decision /\ entry.sent = (announces /\ leaves)
    OBVIOUS
  <2>11. IsOpen(trace', heard')
    <3>1. CASE announces /\ decision \in Watch!Watches
      <4>3. ~ends
        BY <3>1 DEF Watch!Watches
      <4> HIDE DEF announces, ends
      <4>0. announces /\ leaves /\ decision \in Watch!Watches
        BY <2>7, <3>1
      <4>1. heard' = decision
        BY <2>4, <4>0, <4>3
      <4>2. entry.sent
        BY <4>0
      <4> HIDE DEF entry
      <4> QED
        BY <1>0, <2>4, <2>5, <2>10, <3>1, <4>1, <4>2, JustAnnounced
    <3>2. CASE ~(announces /\ decision \in Watch!Watches)
      <4>1. heard' = IF open = decision THEN open ELSE Watch!None
        BY <2>4, <2>7, <3>2 DEF Watch!None
      <4>2. ~(entry.sent /\ entry.decision \in Watch!Watches)
        BY <2>10, <3>2
      <4> HIDE DEF entry, announces, ends
      <4> QED
        BY <1>0, <2>4, <2>5, <2>8, <2>10, <4>1, <4>2, Unannounced
    <3> QED
      BY <3>1, <3>2
  <2> QED
    BY <2>9, <2>11, OpenAfter DEF WatchInv
<1>2. ASSUME NEW a \in Sessions, Watch!AnalyseBlind(a) \/ Watch!RollBack(a) PROVE WatchInv'
  BY <1>2 DEF Watch!AnalyseBlind, Watch!RollBack, Noisy
<1>3. ASSUME NEW a \in Sessions, Watch!Commit(a) PROVE WatchInv'
  <2> DEFINE kept(n) == IF trace[n].of = a THEN [trace[n] EXCEPT !.of = Watch!Committed]
                        ELSE trace[n]
  <2>1. heard' = heard /\ trace' = [n \in DOMAIN trace |-> kept(n)]
    BY <1>3 DEF Watch!Commit
  <2>2. \A n \in DOMAIN trace :
          kept(n) \in Analysed /\ kept(n).decision = trace[n].decision
          /\ kept(n).sent = trace[n].sent
    <3>1. \A n \in DOMAIN trace : trace[n] \in Analysed
      BY <1>0
    <3> QED
      BY <3>1 DEF Analysed
  <2> HIDE DEF kept
  <2>3. /\ trace' \in Seq(Analysed) /\ DOMAIN trace' = DOMAIN trace
        /\ \A n \in DOMAIN trace : trace'[n].decision = trace[n].decision
                                    /\ trace'[n].sent = trace[n].sent
    BY <1>0, <2>1, <2>2
  <2>4. Announced(trace', Watch!Watches) = Announced(trace, Watch!Watches)
    BY <2>3 DEF Announced
  <2>5. PICK n \in Nat :
          /\ IsLast(trace, Watch!Watches, n)
          /\ heard = IF n # 0 /\ \A m \in DOMAIN trace :
                                    m >= n => trace[m].decision = trace[n].decision
                     THEN trace[n].decision ELSE Watch!None
    BY <1>0, OpenOf DEF IsOpen
  <2>6. IsLast(trace', Watch!Watches, n) /\ (n # 0 => n \in DOMAIN trace)
    BY <2>4, <2>5 DEF IsLast, Announced
  <2>7. IsOpen(trace', heard')
    BY <2>1, <2>3, <2>5, <2>6 DEF IsOpen
  <2> QED
    BY <2>3, <2>7, OpenAfter DEF WatchInv
<1>4. CASE UNCHANGED watched
  BY <1>0, <1>4 DEF watched, WatchInv, Watch!StillOpen, Watch!LastAnnounced
<1> QED
  BY <1>1, <1>2, <1>3, <1>4 DEF Watch!Next

\* With any number of sessions and analyses: what the readers were told of a surveillance
\* is what the next analysis takes up, unless a message was lost, the terminal did not
\* answer, or sessions overlapped or were rolled back.
THEOREM ReadersAreTold == Spec => []WatchTold
<1>1. Init => WatchInv
  <2> SUFFICES ASSUME Watch!Init PROVE WatchInv
    BY DEF Init
  <2>1. trace = <<>> /\ heard = Watch!None
    BY DEF Watch!Init
  <2>2. IsLast(trace, Watch!Watches, 0)
    BY <2>1 DEF IsLast, Announced
  <2>3. trace \in Seq(Analysed) /\ IsOpen(trace, heard)
    BY <2>1, <2>2 DEF IsOpen
  <2> QED
    BY <2>3, OpenOf DEF WatchInv
<1>2. WatchInv /\ [Next]_vars => WatchInv'
  BY StepWatch, OneAtWork
<1>3. WatchInv => WatchTold
  BY DEF WatchInv, Noisy, WatchTold, Watch!WatchTold
<1> QED
  BY <1>1, <1>2, <1>3, PTL DEF Spec
=============================================================================
