------------------------------ MODULE AiModels ------------------------------
(***************************************************************************)
(* The models of OpenRouter: which ones are known to be free, which one    *)
(* reads the signals, which ones give their opinion on an opportunity, and *)
(* the breaker that spares a service that no longer answers.  Calls and    *)
(* refreshes are under way at once; the breaker and the row of the state   *)
(* are shared by all of them, and a refresh writes at its end over a row   *)
(* it read before it asked OpenRouter anything.                            *)
(***************************************************************************)
EXTENDS Naturals, FiniteSets

CONSTANTS
    Models,             \* what OpenRouter offers
    Slots,              \* calls and refreshes under way at the same time
    FailureThreshold,   \* CircuitBreaker.failure_threshold
    Tested,             \* candidates _pick tries before it settles for the first
    MaxCalls,           \* bound: calls and refreshes begun
    MaxOffers           \* bound: changes of what is free

AiAssumption == IsFiniteSet(Slots) /\ FailureThreshold \in Nat \ {0}

NoModel == "none"
List == "list"      \* asked in place of a model: GET /models
Free == SUBSET Models

\* A refresh under way: the row it read, what it is to do, the list it got, its first
\* candidate and those whose test has not ended.
Idle == [stage |-> "idle", read |-> [auto |-> TRUE, text |-> NoModel, free |-> {}],
         auto |-> FALSE, tests |-> FALSE, models |-> {}, first |-> NoModel, left |-> {}]

VARIABLES
    offer,      \* the models that are free at present
    cache,      \* _models_cache, the free ones; empty when too old to serve
    state,      \* AiModelState: auto_mode, text_model, free_models
    memory,     \* the model the remote engine was last told of
    second,     \* AISettings.ensemble_secondary_model
    breaker,    \* failures and whether it is open
    calls,      \* for each slot, what OpenRouter is asked: a model, the list or nothing
    errand,     \* for each slot, the refresh under way
    listed,     \* models that a list ever showed as free
    blind,      \* models named by the user unchecked
    asked, offers

told == <<state, memory, second>>
aiVars == <<offer, cache, told, breaker, calls, errand, listed, blind, asked, offers>>

Init ==
    /\ offer \in Free
    /\ cache = {}
    /\ state = [auto |-> TRUE, text |-> NoModel, free |-> {}]
    /\ memory = NoModel /\ second = NoModel
    /\ breaker = [failures |-> 0, open |-> FALSE]
    /\ calls = [s \in Slots |-> NoModel]
    /\ errand = [s \in Slots |-> Idle]
    /\ listed = {} /\ blind = {}
    /\ asked = 0 /\ offers = 0

-----------------------------------------------------------------------------
(* The breaker.                                                            *)

Closed == [failures |-> 0, open |-> FALSE]
\* record_failure, n times.
Failing(n) ==
    LET failures == breaker.failures + n
    IN  [failures |-> failures, open |-> breaker.open \/ failures >= FailureThreshold]
\* A call that ends: 2xx; a timeout, 429 or 5xx; a key or a model refused.
Outcomes == {Closed, Failing(1), breaker}

AlwaysReady == TRUE
Ready == ~breaker.open

\* is_open, read once the delay has passed.
Cool ==
    /\ breaker.open /\ breaker' = Closed
    /\ UNCHANGED <<offer, cache, told, calls, errand, listed, blind, asked, offers>>

-----------------------------------------------------------------------------
(* The selector.                                                           *)

\* What a refresh may retain of a list; rank_free_models and the preferred one decide.
PreferredAnyway(models) == Models
Candidates(models) == models
\* The candidates it tests, the first one included.
Shortlists(models, first) ==
    {left \in SUBSET models :
        /\ first \in left
        /\ Cardinality(left) = IF Cardinality(models) < Tested THEN Cardinality(models) ELSE Tested}

\* The candidates of a list that are still to be tested.
Testing(e, models, first, left) ==
    [stage |-> "test", read |-> e.read, auto |-> e.auto, tests |-> TRUE,
     models |-> models, first |-> first, left |-> left]

Asks(s, what) == calls' = [calls EXCEPT ![s] = what]
Over(s) == Asks(s, NoModel) /\ errand' = [errand EXCEPT ![s] = Idle]

\* The flush at the end: only the columns that are not what the refresh had read.
Write(e, models, text) ==
    state' = [auto |-> e.auto \/ state.auto,
              text |-> IF text = e.read.text THEN state.text ELSE text,
              free |-> IF models = e.read.free THEN state.free ELSE models]
\* No list: the former choice stays.
GiveUp(e) == state' = [state EXCEPT !.auto = e.auto \/ state.auto]

\* A list without a test: in manual mode the choice of the user stays.
Retain(e, models) ==
    \E text \in IF ~e.read.auto THEN {e.read.text}
                ELSE IF models = {} THEN {NoModel} ELSE Candidates(models) :
        Write(e, models, text)

\* refresh, up to the request of the list: the row is read, a fresh list serves at once,
\* and an open breaker ends it.
Start(s, auto, force, tests) ==
    LET e == [Idle EXCEPT !.stage = "list", !.auto = auto, !.tests = tests,
                          !.read = [state EXCEPT !.auto = auto \/ state.auto]]
        fresh == cache # {} /\ ~force
    IN  /\ errand[s].stage = "idle" /\ calls[s] = NoModel /\ asked < MaxCalls
        /\ asked' = asked + 1
        /\ \/ /\ fresh /\ Retain(e, cache)
              /\ listed' = listed \union cache
              /\ UNCHANGED <<calls, errand>>
           \/ /\ ~fresh /\ Ready
              /\ Asks(s, List) /\ errand' = [errand EXCEPT ![s] = e]
              /\ UNCHANGED <<state, listed>>
           \/ /\ ~fresh /\ ~Ready /\ GiveUp(e)
              /\ UNCHANGED <<calls, errand, listed>>
        /\ UNCHANGED <<offer, cache, memory, second, breaker, blind, offers>>
\* At the start and on demand; for a call that has no model, without force.
RefreshModels(s) ==
    \E force, tests \in BOOLEAN : (tests => force) /\ Start(s, FALSE, force, tests)
\* PUT /openrouter/models, back to the automatic mode.
SetAuto(s) == ~state.auto /\ Start(s, TRUE, TRUE, TRUE)

\* The list comes: its best model is tested, or retained as it is.
Receive(s) ==
    LET e == errand[s]
    IN  /\ calls[s] = List
        /\ breaker' = Closed /\ cache' = offer /\ listed' = listed \union offer
        /\ IF e.tests /\ e.read.auto /\ offer # {}
           THEN /\ \E first \in Candidates(offer) : \E left \in Shortlists(offer, first) :
                      /\ Asks(s, first)
                      /\ errand' = [errand EXCEPT ![s] = Testing(e, offer, first, left)]
                /\ UNCHANGED state
           ELSE Over(s) /\ Retain(e, offer)
        /\ UNCHANGED <<offer, memory, second, blind, asked, offers>>
\* It does not come, or cannot be read, which raises out of the refresh.
Unlisted(s) ==
    /\ calls[s] = List
    /\ breaker' \in {Failing(1), breaker}
    /\ Over(s)
    /\ GiveUp(errand[s]) \/ UNCHANGED state
    /\ UNCHANGED <<offer, cache, memory, second, listed, blind, asked, offers>>

\* A test ends.  It counts if it got a text; if not the next candidate is tested, while
\* the breaker lets it; and the first is retained when no other is left.  A payload
\* without a choice raises out of the refresh.
EndTest(s) ==
    LET e == errand[s]
        left == e.left \ {calls[s]}
    IN  /\ e.stage = "test" /\ calls[s] # NoModel
        /\ breaker' \in Outcomes
        /\ \/ /\ breaker' = Closed
              /\ Write(e, e.models, calls[s]) /\ Over(s)
           \/ /\ left # {} /\ Ready'
              /\ \E model \in left : Asks(s, model)
              /\ errand' = [errand EXCEPT ![s] = Testing(e, e.models, e.first, left)]
              /\ UNCHANGED state
           \/ /\ left = {} \/ ~Ready'
              /\ Write(e, e.models, e.first) /\ Over(s)
           \/ UNCHANGED state /\ Over(s)
        /\ UNCHANGED <<offer, cache, memory, second, listed, blind, asked, offers>>

\* A refresh that goes on with the client of the former key, past this breaker.
EndElsewhere(s) ==
    LET e == errand[s]
    IN  /\ e.stage # "idle" /\ calls[s] = NoModel
        /\ \/ /\ e.stage = "list" /\ Retain(e, offer)
              /\ listed' = listed \union offer
           \/ /\ e.stage = "test"
              /\ \E text \in {e.first} \union e.left : Write(e, e.models, text)
              /\ UNCHANGED listed
           \/ (GiveUp(e) \/ UNCHANGED state) /\ UNCHANGED listed
        /\ Over(s)
        /\ UNCHANGED <<offer, cache, memory, second, breaker, blind, asked, offers>>

\* PUT /openrouter/models by hand: refused when free models are known and this is none.
AnyModel(model) == TRUE
Allowed(model) == state.free = {} \/ model \in state.free
SetManual(model) ==
    /\ Allowed(model)
    /\ state' = [state EXCEPT !.auto = FALSE, !.text = model]
    /\ blind' = IF state.free = {} THEN blind \union {model} ELSE blind
    /\ UNCHANGED <<offer, cache, memory, second, breaker, calls, errand, listed, asked, offers>>

\* PUT /ai/router/settings: the second opinion is a free text.
SetSecond(model) ==
    /\ second' = model /\ blind' = blind \union {model}
    /\ UNCHANGED <<offer, cache, state, memory, breaker, calls, errand, listed, asked, offers>>

\* AIService.configure tells the remote engine the model retained.
Configure ==
    /\ memory' = state.text
    /\ UNCHANGED <<offer, cache, state, second, breaker, calls, errand, listed, blind, asked, offers>>

\* A new key: a new client, with a closed breaker and no list; the calls under way
\* end on the old one, and a refresh writes its row all the same.
SetApiKey ==
    /\ cache' = {} /\ breaker' = Closed
    /\ calls' = [s \in Slots |-> NoModel]
    /\ UNCHANGED <<offer, told, errand, listed, blind, asked, offers>>

-----------------------------------------------------------------------------
(* The calls.                                                              *)

\* parse_signal uses the row; an opinion uses what the engine was told, the second one
\* the model of the settings.
Begin(s) ==
    /\ errand[s].stage = "idle" /\ calls[s] = NoModel /\ Ready /\ asked < MaxCalls
    /\ \E model \in {state.text, memory, second} \ {NoModel} : Asks(s, model)
    /\ asked' = asked + 1
    /\ UNCHANGED <<offer, cache, told, breaker, errand, listed, blind, offers>>
End(s) ==
    /\ errand[s].stage = "idle" /\ calls[s] # NoModel
    /\ Asks(s, NoModel)
    /\ breaker' \in Outcomes
    /\ UNCHANGED <<offer, cache, told, errand, listed, blind, asked, offers>>

\* OpenRouter changes its prices; the list kept for a quarter of an hour grows old.
Change ==
    /\ offers < MaxOffers /\ offers' = offers + 1
    /\ offer' \in Free /\ cache' = {}
    /\ UNCHANGED <<told, breaker, calls, errand, listed, blind, asked>>

Next ==
    \/ Cool \/ Configure \/ SetApiKey \/ Change
    \/ \E model \in Models : SetManual(model) \/ SetSecond(model)
    \/ \E s \in Slots :
          \/ RefreshModels(s) \/ SetAuto(s) \/ Receive(s) \/ Unlisted(s) \/ EndTest(s)
          \/ EndElsewhere(s) \/ Begin(s) \/ End(s)

Spec == Init /\ [][Next]_aiVars

-----------------------------------------------------------------------------
(* Properties.                                                             *)

\* A model that no list ever showed as free is called or tested only if the user named
\* it himself, as a second opinion or while no free model was known, although a refresh
\* writes its choice over a row that others changed since.
NamedFree == \A s \in Slots : calls[s] \in listed \union blind \union {NoModel, List}

\* A service that fails is left alone: however the calls, the lists and the tests
\* interleave, the threshold is only passed by what had already left when it was reached.
Spared == breaker.failures < FailureThreshold + Cardinality(Slots)

\* False of the code: "En mode manuel, la selection de l'utilisateur n'est jamais
\* remplacee" (main.py:356).  A refresh that read the automatic mode writes its model,
\* not the mode, when the user has chosen by hand during its tests.
ManualStays ==
    [][~state.auto /\ ~state'.auto =>
         state'.text = state.text \/ \E model \in Models : SetManual(model)]_aiVars
=============================================================================
