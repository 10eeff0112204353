--------------------------- MODULE Notifications ---------------------------
(***************************************************************************)
(* The notifications of the Bridge: what the inbox keeps and what the      *)
(* telephone rings for.  A caller notifies in its own session: it looks    *)
(* for the same alert and counts the pushes of the last hour among the     *)
(* rows it sees, writes its row, sends the push, notes how that went, and  *)
(* commits with the rest of its work, which may be much later or never.    *)
(***************************************************************************)
EXTENDS Naturals, Sequences, FiniteSets

CONSTANTS
    Callers,        \* the intelligence round, the announcements of the engine
    Alerts,         \* category, symbol and title of a notification
    CriticalAlerts, \* those of priority CRITICAL
    DedupWindow,    \* DEDUP_WINDOWS: ticks, for each alert
    Hour,           \* ticks in the hour of the push limit
    MaxPushPerHour, \* MAX_PUSH_PER_HOUR
    MaxClock,       \* bound: ticks
    MaxRows,        \* bound: rows ever created
    MaxTokens       \* bound: tokens the telephone ever has

Stored == "committed"
NoCaller == "nobody"
CallersAssumption == NoCaller \notin Callers
\* Every window of DEDUP_WINDOWS is at most an hour.
WindowsAssumption ==
    Hour \in Nat /\ MaxPushPerHour \in Nat /\ DedupWindow \in [Alerts -> 0..Hour]
NoToken == 0
Idle == [step |-> "idle"]

VARIABLES
    clock,
    inbox,      \* notification_event: alert, created_at, pushed, session or committed
    rung,       \* what the telephone rang for, in order, and whether FCM answered
    work,       \* for each caller, its step and what it has decided
    holder,     \* session that is SQLite's writer, for as long as it lasts
    token,      \* token Firebase knows the telephone by
    registered, \* Device.push_token
    created,    \* rows ever created
    forgotten,  \* a session was rolled back, or the user emptied the inbox
    overlap,    \* two callers had notifications under way at once
    misjudged   \* Firebase refused the payload, which reads like a bad token

noise == <<forgotten, overlap, misjudged>>
notifyVars == <<clock, inbox, rung, work, holder, token, registered, created, noise>>

Init ==
    /\ clock = 0 /\ inbox = {} /\ rung = <<>>
    /\ work = [c \in Callers |-> Idle]
    /\ holder = NoCaller
    /\ token = 1 /\ registered = 1
    /\ created = 0
    /\ forgotten = FALSE /\ overlap = FALSE /\ misjudged = FALSE

VisibleCommitted(c) == {r \in inbox : r.of = Stored}
Visible(c) == {r \in inbox : r.of \in {c, Stored}}

Duplicate(rows, alert) == \E r \in rows : r.alert = alert /\ r.at + DedupWindow[alert] >= clock
PushesLastHour(rows) == Cardinality({r \in rows : r.pushed /\ r.at + Hour >= clock})

\* evaluate: kept or not, pushed or not.  The preference of the category, its quiet
\* hours and the state of the transport are what the user made them.
Verdict(c, alert, preference) ==
    [step |-> "create", alert |-> alert,
     push |-> /\ preference = "push"
              /\ \/ alert \in CriticalAlerts
                 \/ PushesLastHour(Visible(c)) < MaxPushPerHour]

\* notify up to its first write.  An alert seen in its window is dropped, like those of
\* a disabled category.
Ask(c, alert, preference) ==
    /\ work[c].step \in {"idle", "open"}
    /\ ~Duplicate(Visible(c), alert)
    /\ work' = [work EXCEPT ![c] = Verdict(c, alert, preference)]
    /\ overlap' = (overlap \/ \E d \in Callers \ {c} : work[d] # Idle)
    /\ UNCHANGED <<clock, inbox, rung, holder, token, registered, created, forgotten, misjudged>>

\* create_event, then push_targets.  The flush makes the session the writer.
NoFlush(c) == UNCHANGED holder
Flush(c) == holder \in {NoCaller, c} /\ holder' = c
Row(c, pushed) == [alert |-> work[c].alert, at |-> work[c].at, pushed |-> pushed, of |-> c]
Create(c) ==
    /\ work[c].step = "create"
    /\ created < MaxRows /\ Flush(c)
    /\ created' = created + 1
    /\ inbox' = inbox \union
         {[alert |-> work[c].alert, at |-> clock, pushed |-> FALSE, of |-> c]}
    /\ work' = [work EXCEPT ![c] =
         IF @.push THEN [step |-> "send", alert |-> @.alert, at |-> clock, to |-> registered]
                   ELSE [step |-> "open"]]
    /\ UNCHANGED <<clock, rung, token, registered, noise>>

\* _push: FCM delivers, fails, or calls the token invalid, which clear_push_token
\* erases.  _send_one takes an answer that never comes for a failure: the telephone
\* may have rung all the same, and mark_push_result writes that it did not.
Rings(c, delivered, answered) ==
    /\ rung' = IF delivered
               THEN Append(rung, [alert |-> work[c].alert, at |-> work[c].at,
                                  answered |-> answered])
               ELSE rung
    /\ inbox' = (inbox \ {Row(c, FALSE)}) \union {Row(c, delivered /\ answered)}
Send(c) ==
    /\ work[c].step = "send"
    /\ work' = [work EXCEPT ![c] = [step |-> "open"]]
    /\ \/ /\ work[c].to = token
          /\ \E answered \in BOOLEAN : Rings(c, TRUE, answered)
          /\ UNCHANGED <<registered, misjudged>>
       \/ Rings(c, FALSE, FALSE) /\ UNCHANGED <<registered, misjudged>>
       \/ /\ work[c].to # NoToken
          /\ Rings(c, FALSE, TRUE)
          /\ registered' = NoToken
          /\ misjudged' = (misjudged \/ work[c].to = token)
    /\ UNCHANGED <<clock, holder, token, created, forgotten, overlap>>

\* The caller's session ends.
Ends(c) ==
    /\ work[c].step = "open"
    /\ work' = [work EXCEPT ![c] = Idle]
    /\ holder' = NoCaller
    /\ UNCHANGED <<clock, rung, token, registered, created, overlap, misjudged>>
Keep(c) ==
    /\ Ends(c)
    /\ inbox' = {IF r.of = c THEN [r EXCEPT !.of = Stored] ELSE r : r \in inbox}
    /\ UNCHANGED forgotten
Forget(c) ==
    /\ Ends(c)
    /\ inbox' = {r \in inbox : r.of # c}
    /\ forgotten' = TRUE

\* _retention: rows too old to count.  delete_all: the user empties the inbox.
Purge ==
    /\ holder = NoCaller
    /\ inbox' = {r \in inbox : r.at + Hour >= clock}
    /\ UNCHANGED <<clock, rung, work, holder, token, registered, created, noise>>
DeleteAll ==
    /\ holder = NoCaller
    /\ inbox' = {}
    /\ forgotten' = TRUE
    /\ UNCHANGED <<clock, rung, work, holder, token, registered, created, overlap, misjudged>>

\* The application is installed again, and registers its token.
Reinstall ==
    /\ token < MaxTokens /\ token' = token + 1
    /\ UNCHANGED <<clock, inbox, rung, work, holder, registered, created, noise>>
Register ==
    /\ holder = NoCaller /\ registered' = token
    /\ UNCHANGED <<clock, inbox, rung, work, holder, token, created, noise>>

Tick ==
    /\ clock < MaxClock /\ clock' = clock + 1
    /\ UNCHANGED <<inbox, rung, work, holder, token, registered, created, noise>>

Next ==
    \/ \E c \in Callers :
          \/ \E alert \in Alerts, preference \in {"inbox", "push"} : Ask(c, alert, preference)
          \/ Create(c) \/ Send(c) \/ Keep(c) \/ Forget(c)
    \/ Purge \/ DeleteAll \/ Reinstall \/ Register \/ Tick

Spec == Init /\ [][Next]_notifyVars

-----------------------------------------------------------------------------
(* Properties.                                                             *)

\* As long as the sessions that notify follow one another and keep what they wrote,
\* the telephone never rings twice for one alert within its window, whether or not
\* FCM answered for the first, nor, critical alerts apart, once the pushes of the
\* hour that FCM answered for reach the limit (the others are not counted).
Later(m, n) == m < n /\ rung[m].alert = rung[n].alert
                     /\ rung[m].at + DedupWindow[rung[n].alert] >= rung[n].at
AnsweredInHourOf(n) ==
    {m \in 1..(n - 1) : rung[m].answered /\ rung[m].at + Hour >= rung[n].at}
Quiet ==
    \/ forgotten \/ overlap
    \/ \A n \in DOMAIN rung :
          /\ ~\E m \in DOMAIN rung : Later(m, n)
          /\ rung[n].alert \notin CriticalAlerts =>
               Cardinality(AnsweredInHourOf(n)) < MaxPushPerHour

\* The telephone registers a new token while a push to the old one is under way: the
\* refusal of the old one never erases the new one.
NewTokenKept ==
    [][registered = token /\ registered' # registered => misjudged' \/ token' # token]_notifyVars
=============================================================================
