---------------------------- MODULE Surveillance ----------------------------
(***************************************************************************)
(* The surveillances of one instrument: an analysis that sees a set-up     *)
(* coming says so on the channel, once, and a later analysis says how it   *)
(* ended.  Nothing remembers a surveillance but the trace of the analyses. *)
(* Two sessions may analyse the instrument in turn, under its lock; each   *)
(* sees its own analyses and those committed.                              *)
(***************************************************************************)
EXTENDS Naturals, Sequences, SequencesExt

CONSTANTS
    Sessions,       \* the analysis loop; POST /watcher/analysis/{symbol}
    MaxAnalyses     \* bound: analyses ever recorded

Watches == {"WATCH_BUY", "WATCH_SELL"}
Decisions == Watches \union {"WAIT", "BUY"}    \* nothing to do, a signal
None == "none"
Committed == "committed"

VARIABLES
    trace,      \* watcher_analyses, in order of creation
    heard,      \* the surveillance the readers of the channel believe open
    unsent,     \* a message did not leave
    mute,       \* the context was unusable during an analysis
    dropped,    \* a session was rolled back
    crossed     \* two sessions were open at the same time

faults == <<mute, dropped, crossed>>
watchVars == <<trace, heard, unsent, faults>>

Init ==
    /\ trace = <<>> /\ heard = None
    /\ unsent = FALSE /\ mute = FALSE /\ dropped = FALSE /\ crossed = FALSE

\* The analyses a session sees.
Seen(a) == {n \in DOMAIN trace : trace[n].of \in {a, Committed}}

\* watch_still_open: the last surveillance announced, unless a later analysis
\* concluded otherwise.
LastAnnounced(visible, kinds) ==
    LET positions == {n \in visible : trace[n].sent /\ trace[n].decision \in kinds}
    IN  CHOOSE n \in positions \union {0} : \A m \in positions : m <= n
StillOpenOfAnyKind(visible) ==
    LET n == LastAnnounced(visible, Decisions)
    IN  IF n = 0 THEN None ELSE trace[n].decision
StillOpen(visible) ==
    LET n == LastAnnounced(visible, Watches)
    IN  IF n # 0 /\ \A m \in visible : m >= n => trace[m].decision = trace[n].decision
        THEN trace[n].decision ELSE None

Add(a, decision, sent) ==
    /\ trace' = Append(trace, [of |-> a, decision |-> decision, sent |-> sent])
    /\ crossed' = (crossed \/ \E n \in DOMAIN trace : trace[n].of \notin {a, Committed})

\* _analyse with a usable context.  _close_open_watch announces the end of a
\* surveillance; then a signal is announced, or a surveillance when none is open and
\* the cooldown of the last alert has passed; _record keeps the analysis.
Analyse(a, decision, closing, leaves, cooled) ==
    LET open == StillOpen(Seen(a))
        ends == open # None /\ open # decision
        announces == \/ decision = "BUY"
                     \/ /\ decision \in Watches /\ open = None
                        /\ cooled \/ LastAnnounced(Seen(a), Decisions) = 0
    IN  /\ Len(trace) < MaxAnalyses
        /\ Add(a, decision, announces /\ leaves)
        /\ heard' = CASE announces /\ leaves /\ decision \in Watches -> decision
                      [] ends /\ closing -> None
                      [] OTHER -> heard
        /\ unsent' = (unsent \/ (ends /\ ~closing) \/ (announces /\ ~leaves))
        /\ UNCHANGED <<mute, dropped>>

\* _analyse without the terminal: the analysis is recorded, and no more.
AnalyseBlind(a) ==
    /\ Len(trace) < MaxAnalyses
    /\ Add(a, "WAIT", FALSE)
    /\ mute' = TRUE
    /\ UNCHANGED <<heard, unsent, dropped>>

\* The end of a session: its rows become visible, or never were.
Writes(a) == \E n \in DOMAIN trace : trace[n].of = a
Commit(a) ==
    /\ Writes(a)
    /\ trace' = [n \in DOMAIN trace |->
          IF trace[n].of = a THEN [trace[n] EXCEPT !.of = Committed] ELSE trace[n]]
    /\ UNCHANGED <<heard, unsent, faults>>
RollBack(a) ==
    /\ Writes(a)
    /\ trace' = SelectSeq(trace, LAMBDA t : t.of # a)
    /\ dropped' = TRUE
    /\ UNCHANGED <<heard, unsent, mute, crossed>>

Next ==
    \E a \in Sessions :
        \/ \E decision \in Decisions, closing, leaves, cooled \in BOOLEAN :
              Analyse(a, decision, closing, leaves, cooled)
        \/ AnalyseBlind(a) \/ Commit(a) \/ RollBack(a)

Spec == Init /\ [][Next]_watchVars

\* What the readers of the channel were told of the surveillance is what the next
\* analysis will take up, as long as every message leaves, the terminal answers and
\* sessions follow one another: no surveillance is left without its conclusion, and
\* none is announced while the former one still holds.
WatchTold ==
    unsent \/ mute \/ dropped \/ crossed \/ heard = StillOpen(DOMAIN trace)
=============================================================================
