-------------------------- MODULE DayLedgerProofs --------------------------
(***************************************************************************)
(* Proofs about DayLedger, for every set of positions and of requests that *)
(* close them, every price and every bound: a streak of losses pauses the  *)
(* automation, a closed row is that of a position that is gone, and, with  *)
(* the monitor alone, each closure is counted once, with its own result,   *)
(* and trading does not move the marks of the day.                         *)
(*                                                                         *)
(* The sums come first.  Total is a fold over a finite set, and what it    *)
(* adds up to is proved by taking a smallest set for which a fact would be *)
(* false.                                                                  *)
(***************************************************************************)
EXTENDS DayLedger, FiniteSetTheorems, WellFoundedInduction, TLAPS

-----------------------------------------------------------------------------
(* Sums over finite sets.                                                  *)

\* A collection of subsets of a finite set has an element none of whose
\* subsets is in the collection.
LEMMA SmallestSubset ==
    ASSUME NEW S, IsFiniteSet(S), NEW Bad \in SUBSET SUBSET S, Bad # {}
    PROVE  \E T \in Bad : \A U \in SUBSET T : U # T => U \notin Bad
<1>1. Bad \subseteq FiniteSubsetsOf(S)
  BY FS_Subset DEF FiniteSubsetsOf
<1>2. PICK T \in Bad : \A U \in Bad : <<U, T>> \notin StrictSubsetOrdering(S)
  <2> DEFINE R == StrictSubsetOrdering(S)
  <2> DEFINE F == FiniteSubsetsOf(S)
  <2>1. IsWellFoundedOn(R, F)
    BY FS_StrictSubsetOrderingWellFounded
  <2>2. Bad \subseteq F
    BY <1>1
  <2> HIDE DEF R, F
  <2>3. \E T \in Bad : \A U \in Bad : <<U, T>> \notin R
    BY <2>1, <2>2, WFMin
  <2> QED BY <2>3 DEF R
<1> QED BY <1>2 DEF StrictSubsetOrdering

\* A set of numbers has a least element.
LEMMA LeastOf ==
    ASSUME NEW Bad \in SUBSET Nat, Bad # {}
    PROVE  \E n \in Bad : \A m \in Nat : m < n => m \notin Bad
<1> DEFINE Below == OpToRel(<, Nat)
<1>1. PICK n \in Bad : \A m \in Bad : <<m, n>> \notin Below
  <2> HIDE DEF Below
  <2>1. IsWellFoundedOn(Below, Nat)
    BY NatLessThanWellFounded DEF Below
  <2> QED BY <2>1, WFMin
<1> QED BY <1>1 DEF OpToRel

Pick(ks) == CHOOSE k \in ks : TRUE
SumAt(sum, a, ks) == IF ks = {} THEN 0 ELSE a[Pick(ks)] + sum[ks \ {Pick(ks)}]
IsSum(sum, a, S) == sum = [ks \in SUBSET S |-> SumAt(sum, a, ks)]
SumOf(a, S) == CHOOSE sum : IsSum(sum, a, S)

\* The fold that sums is such a function.
LEMMA TotalIsSum ==
    ASSUME NEW a, NEW S
    PROVE  Total(a, S) = SumOf(a, S)[S]
BY DEF Total, FoldSet, MapThenFoldSet, SumOf, IsSum, SumAt, Pick

\* The subsets of at most n elements, and a function that sums each of them.
UpTo(S, n) == {ks \in SUBSET S : Cardinality(ks) <= n}
SumsUpTo(sum, a, S, n) ==
    /\ sum \in [UpTo(S, n) -> Int]
    /\ \A ks \in UpTo(S, n) : sum[ks] = SumAt(sum, a, ks)

\* For subsets of bounded size such functions exist.
LEMMA SumsExist ==
    ASSUME NEW S, IsFiniteSet(S), NEW a, \A k \in S : a[k] \in Int
    PROVE  \A n \in Nat : \E sum : SumsUpTo(sum, a, S, n)
<1> DEFINE Bad == {n \in Nat : ~ \E sum : SumsUpTo(sum, a, S, n)}
<1> SUFFICES ASSUME Bad # {} PROVE FALSE
  OBVIOUS
<1>1. PICK n \in Bad : \A m \in Nat : m < n => m \notin Bad
  <2> HIDE DEF Bad
  <2>1. Bad \in SUBSET Nat
    BY DEF Bad
  <2> QED BY <2>1, LeastOf
<1>2. \A ks \in SUBSET S : /\ Cardinality(ks) \in Nat
                           /\ ks # {} => Cardinality(ks) # 0
                           /\ \A k \in ks : Cardinality(ks \ {k}) = Cardinality(ks) - 1
  BY FS_Subset, FS_CardinalityType, FS_RemoveElement, FS_EmptySet
<1>3. CASE n = 0
  <2> DEFINE sum == [ks \in UpTo(S, 0) |-> 0]
  <2>1. \A ks \in UpTo(S, 0) : ks = {}
    BY <1>2 DEF UpTo
  <2>2. SumsUpTo(sum, a, S, 0)
    BY <2>1 DEF SumsUpTo, SumAt
  <2> QED BY <1>3, <2>2
<1>4. CASE n # 0
  <2>1. PICK part : SumsUpTo(part, a, S, n - 1)
    BY <1>1, <1>4
  <2> DEFINE sum == [ks \in UpTo(S, n) |-> SumAt(part, a, ks)]
  <2>2. \A ks \in UpTo(S, n) : ks # {} =>
            /\ Pick(ks) \in S /\ a[Pick(ks)] \in Int
            /\ ks \ {Pick(ks)} \in UpTo(S, n - 1)
    <3> SUFFICES ASSUME NEW ks \in UpTo(S, n), ks # {}
                 PROVE  /\ Pick(ks) \in ks /\ Pick(ks) \in S
                        /\ ks \ {Pick(ks)} \in UpTo(S, n - 1)
      OBVIOUS
    <3>1. Pick(ks) \in ks /\ ks \in SUBSET S
      BY DEF Pick, UpTo
    <3> QED BY <1>1, <1>2, <3>1 DEF UpTo
  <2>3. sum \in [UpTo(S, n) -> Int]
    BY <2>1, <2>2 DEF SumsUpTo, SumAt
  <2>4. \A ks \in UpTo(S, n - 1) : ks \in UpTo(S, n) /\ sum[ks] = part[ks]
    <3>1. \A ks \in UpTo(S, n - 1) : ks \in UpTo(S, n)
      BY <1>1, <1>2 DEF UpTo
    <3> QED BY <2>1, <3>1 DEF SumsUpTo
  <2>5. \A ks \in UpTo(S, n) : sum[ks] = SumAt(sum, a, ks)
    BY <2>2, <2>4 DEF SumAt
  <2>6. SumsUpTo(sum, a, S, n)
    BY <2>3, <2>5 DEF SumsUpTo
  <2> QED BY <1>1, <2>6
<1> QED BY <1>3, <1>4

\* The function chosen as the sum over the subsets of a finite set is one.
LEMMA SumKnown ==
    ASSUME NEW S, IsFiniteSet(S), NEW a, \A k \in S : a[k] \in Int
    PROVE  IsSum(SumOf(a, S), a, S)
<1>1. PICK sum : SumsUpTo(sum, a, S, Cardinality(S))
  BY SumsExist, FS_CardinalityType
<1>2. UpTo(S, Cardinality(S)) = SUBSET S
  BY FS_Subset DEF UpTo
<1>3. IsSum(sum, a, S)
  BY <1>1, <1>2 DEF SumsUpTo, IsSum
<1> QED BY <1>3 DEF SumOf

\* Sums of functions that agree on a set agree there.
LEMMA SumsAgree ==
    ASSUME NEW S, NEW T, NEW U, U \subseteq S, U \subseteq T, IsFiniteSet(U),
           NEW a, NEW b, \A k \in U : a[k] = b[k],
           NEW f, IsSum(f, a, S), NEW g, IsSum(g, b, T)
    PROVE  f[U] = g[U]
<1> DEFINE Bad == {ks \in SUBSET U : f[ks] # g[ks]}
<1> SUFFICES ASSUME Bad # {} PROVE FALSE
  OBVIOUS
<1>1. PICK ks \in Bad : \A ls \in SUBSET ks : ls # ks => ls \notin Bad
  <2>1. Bad \in SUBSET SUBSET U
    OBVIOUS
  <2> HIDE DEF Bad
  <2> QED BY <2>1, SmallestSubset
<1>2. f[ks] = SumAt(f, a, ks) /\ g[ks] = SumAt(g, b, ks)
  BY DEF IsSum
<1>3. ks # {}
  BY <1>2 DEF SumAt
<1>4. Pick(ks) \in ks
  BY <1>3 DEF Pick
<1>5. f[ks \ {Pick(ks)}] = g[ks \ {Pick(ks)}]
  BY <1>1, <1>4
<1> QED BY <1>2, <1>3, <1>4, <1>5 DEF SumAt

\* The sum of nothing is zero, and that of a set which is not empty is the sum
\* of the element taken first and of the others; it is a number.
LEMMA TotalTakesOne ==
    ASSUME NEW S, IsFiniteSet(S), NEW a, \A k \in S : a[k] \in Int
    PROVE  Total(a, S) = IF S = {} THEN 0
                         ELSE a[Pick(S)] + Total(a, S \ {Pick(S)})
<1> DEFINE R == S \ {Pick(S)}
<1>1. IsFiniteSet(R) /\ R \subseteq S /\ \A k \in R : a[k] \in Int
  BY FS_Subset
<1>2. IsSum(SumOf(a, S), a, S) /\ IsSum(SumOf(a, R), a, R)
  <2> HIDE DEF R
  <2> QED BY <1>1, SumKnown
<1>3. SumOf(a, S)[R] = SumOf(a, R)[R]
  <2> HIDE DEF R
  <2> QED BY <1>1, <1>2, SumsAgree
<1>4. Total(a, S) = SumAt(SumOf(a, S), a, S) /\ Total(a, R) = SumOf(a, R)[R]
  BY <1>2, TotalIsSum DEF IsSum
<1> QED BY <1>3, <1>4 DEF SumAt

\* The sum of numbers is a number.
LEMMA TotalType ==
    ASSUME NEW S, IsFiniteSet(S), NEW a, \A k \in S : a[k] \in Int
    PROVE  Total(a, S) \in Int
<1> DEFINE Bad == {ks \in SUBSET S : Total(a, ks) \notin Int}
<1> SUFFICES ASSUME Bad # {} PROVE FALSE
  OBVIOUS
<1>1. PICK ks \in Bad : \A ls \in SUBSET ks : ls # ks => ls \notin Bad
  <2>1. Bad \in SUBSET SUBSET S
    OBVIOUS
  <2> HIDE DEF Bad
  <2> QED BY <2>1, SmallestSubset
<1>2. IsFiniteSet(ks) /\ \A k \in ks : a[k] \in Int
  BY FS_Subset
<1>3. Total(a, ks) = IF ks = {} THEN 0
                     ELSE a[Pick(ks)] + Total(a, ks \ {Pick(ks)})
  BY <1>2, TotalTakesOne
<1>4. ks # {}
  BY <1>3
<1>5. Pick(ks) \in ks
  BY <1>4 DEF Pick
<1>6. Total(a, ks \ {Pick(ks)}) \in Int
  BY <1>1, <1>5
<1> QED BY <1>2, <1>3, <1>4, <1>5, <1>6

\* Two functions that agree on a set have the same sum there.
LEMMA TotalSame ==
    ASSUME NEW S, IsFiniteSet(S), NEW a, NEW b,
           \A k \in S : a[k] \in Int /\ a[k] = b[k]
    PROVE  Total(a, S) = Total(b, S)
<1>1. IsSum(SumOf(a, S), a, S) /\ IsSum(SumOf(b, S), b, S)
  BY SumKnown
<1> DEFINE f == SumOf(a, S)
<1> DEFINE g == SumOf(b, S)
<1>2. f[S] = g[S]
  <2>1. /\ S \subseteq S /\ IsSum(f, a, S) /\ IsSum(g, b, S)
        /\ \A k \in S : a[k] = b[k]
    BY <1>1
  <2> HIDE DEF f, g
  <2>2. \A U : (/\ U \subseteq S /\ IsFiniteSet(U)
                /\ \A k \in U : a[k] = b[k]) => f[U] = g[U]
    BY <2>1, SumsAgree
  <2> QED BY <2>1, <2>2
<1> QED BY <1>2, TotalIsSum

\* The element taken out may be any one of the set.
LEMMA TotalWithout ==
    ASSUME NEW S, IsFiniteSet(S), NEW a, \A k \in S : a[k] \in Int
    PROVE  \A k \in S : Total(a, S) = a[k] + Total(a, S \ {k})
<1> DEFINE Bad == {ks \in SUBSET S :
                     ~ \A k \in ks : Total(a, ks) = a[k] + Total(a, ks \ {k})}
<1> SUFFICES ASSUME Bad # {} PROVE FALSE
  OBVIOUS
<1>1. PICK ks \in Bad : \A ls \in SUBSET ks : ls # ks => ls \notin Bad
  <2>1. Bad \in SUBSET SUBSET S
    OBVIOUS
  <2> HIDE DEF Bad
  <2> QED BY <2>1, SmallestSubset
<1>2. PICK k \in ks : Total(a, ks) # a[k] + Total(a, ks \ {k})
  BY <1>1
<1> DEFINE p == Pick(ks)
<1>3. p \in ks
  BY <1>2 DEF Pick
<1>4. \A ls \in SUBSET ks : /\ IsFiniteSet(ls) /\ Total(a, ls) \in Int
                            /\ \A l \in ls : a[l] \in Int
  <2> SUFFICES ASSUME NEW ls \in SUBSET ks
               PROVE  /\ IsFiniteSet(ls) /\ Total(a, ls) \in Int
                      /\ \A l \in ls : a[l] \in Int
    OBVIOUS
  <2>1. IsFiniteSet(ls) /\ \A l \in ls : a[l] \in Int
    BY FS_Subset
  <2> QED BY <2>1, TotalType
<1>5. Total(a, ks) = a[p] + Total(a, ks \ {p})
  BY <1>3, <1>4, TotalTakesOne
<1> HIDE DEF p
<1>6. p # k
  BY <1>2, <1>5
<1>7. Total(a, ks \ {p}) = a[k] + Total(a, (ks \ {p}) \ {k})
  BY <1>1, <1>3, <1>6
<1>8. Total(a, ks \ {k}) = a[p] + Total(a, (ks \ {k}) \ {p})
  BY <1>1, <1>3, <1>6
<1>9. (ks \ {p}) \ {k} = (ks \ {k}) \ {p}
  OBVIOUS
<1> DEFINE x == Total(a, (ks \ {k}) \ {p})
<1>10. a[p] \in Int /\ a[k] \in Int /\ x \in Int
  BY <1>3, <1>4
<1>11. Total(a, ks \ {p}) = a[k] + x /\ Total(a, ks \ {k}) = a[p] + x
  BY <1>7, <1>8, <1>9
<1> HIDE DEF x
<1>12. a[p] + (a[k] + x) = a[k] + (a[p] + x)
  BY <1>10
<1> QED BY <1>2, <1>5, <1>11, <1>12

\* The sum over two sets without a common element.
LEMMA TotalUnion ==
    ASSUME NEW S, IsFiniteSet(S), NEW T, IsFiniteSet(T), S \intersect T = {},
           NEW a, \A k \in S \union T : a[k] \in Int
    PROVE  Total(a, S \union T) = Total(a, S) + Total(a, T)
<1> DEFINE Bad == {ks \in SUBSET T :
                     Total(a, S \union ks) # Total(a, S) + Total(a, ks)}
<1> SUFFICES ASSUME Bad # {} PROVE FALSE
  OBVIOUS
<1>1. PICK ks \in Bad : \A ls \in SUBSET ks : ls # ks => ls \notin Bad
  <2>1. Bad \in SUBSET SUBSET T
    OBVIOUS
  <2> HIDE DEF Bad
  <2> QED BY <2>1, SmallestSubset
<1>2. \A ls \in SUBSET ks : /\ IsFiniteSet(ls) /\ IsFiniteSet(S \union ls)
                            /\ Total(a, ls) \in Int
  <2> SUFFICES ASSUME NEW ls \in SUBSET ks
               PROVE  /\ IsFiniteSet(ls) /\ IsFiniteSet(S \union ls)
                      /\ Total(a, ls) \in Int
    OBVIOUS
  <2>1. IsFiniteSet(ls) /\ IsFiniteSet(S \union ls)
    BY FS_Subset, FS_Union
  <2> QED BY <2>1, TotalType
<1>3. Total(a, S) \in Int
  BY TotalType
<1>4. ks # {}
  <2> SUFFICES ASSUME ks = {} PROVE FALSE
    OBVIOUS
  <2>1. Total(a, {}) = 0
    BY FS_EmptySet, TotalTakesOne
  <2>2. S \union {} = S
    OBVIOUS
  <2> QED BY <1>3, <2>1, <2>2
<1>5. PICK k \in ks : TRUE
  BY <1>4
<1>6. k \in S \union ks /\ (S \union ks) \ {k} = S \union (ks \ {k})
  OBVIOUS
<1>7. Total(a, ks) = a[k] + Total(a, ks \ {k})
  BY <1>2, TotalWithout
<1>8. Total(a, S \union ks) = a[k] + Total(a, S \union (ks \ {k}))
  <2> DEFINE U == S \union ks
  <2>1. IsFiniteSet(U) /\ k \in U /\ \A l \in U : a[l] \in Int
    BY <1>2, <1>6
  <2> HIDE DEF U
  <2>2. Total(a, U) = a[k] + Total(a, U \ {k})
    BY <2>1, TotalWithout
  <2>3. U = S \union ks /\ U \ {k} = S \union (ks \ {k})
    BY <1>6 DEF U
  <2> QED BY <2>2, <2>3
<1>9. Total(a, S \union (ks \ {k})) = Total(a, S) + Total(a, ks \ {k})
  BY <1>1
<1>10. a[k] \in Int /\ Total(a, ks \ {k}) \in Int
  BY <1>2
<1> QED BY <1>3, <1>7, <1>8, <1>9, <1>10

-----------------------------------------------------------------------------
(* Sessions: who has written, and who holds the writer.                    *)

MonitorSteps == {"sleep", "rollover", "flushDay", "snapshot", "rows",
                 "flushRows", "count", "settle", "flushState", "commit"}
CloserSteps == {"idle", "close", "record", "flush", "count", "suspend",
                "commit", "done"}
Unwritten == {"idle", "sleep", "rollover", "done"}
ToFlush == {"flushDay", "flushRows", "flushState", "flush"}

Clean(s) == \A col \in Columns : writes[s][col] = Untouched

Shape ==
    /\ DOMAIN table = Columns /\ DOMAIN writes = Sessions
    /\ \A s \in Sessions : DOMAIN writes[s] = Columns
    /\ pc \in [Sessions -> MonitorSteps \union CloserSteps]
    /\ pc[Monitor] \in MonitorSteps
    /\ \A c \in Closers : pc[c] \in CloserSteps
    /\ todo \in [Sessions -> SUBSET Positions]
    /\ \A c \in Closers : pc[c] = "record" => todo[c] # {}
    /\ DOMAIN found = Sessions

\* What a session has written and flushed it holds the writer for, until it
\* ends; a closer of a channel holds it all along.
HeldBy(s) ==
    /\ pc[s] \in Unwritten => Clean(s) /\ writer # s
    /\ Clean(s) \/ writer = s \/ pc[s] \in ToFlush
    /\ pc[s] = "count" => writer = s
    /\ s # Monitor => found[s] = NoneClosed \/ pc[s] = "flush" \/ writer = s
    /\ (s # Monitor /\ KindOf[s] = "follow") => (pc[s] \in Unwritten \/ writer = s)
WriterHeld == \A s \in Sessions : HeldBy(s)

Access == Shape /\ WriterHeld

\* A streak counted and not committed yet is written with the pause it calls
\* for, or finds the pause committed, and nobody else can commit meanwhile.
PauseBy(s) ==
    LET losses == writes[s][<<"ledger", "losses">>]
    IN  losses # Untouched =>
           /\ writer = s
           /\ losses >= MaxLosses => Ledger(s, "paused") = TRUE
PauseInv == \A s \in Sessions : PauseBy(s)

-----------------------------------------------------------------------------
(* The figures of the broker and the rows of the positions.                *)

Market ==
    /\ volume \in [Positions -> 0..Whole]
    /\ price \in [Positions -> Int]
    /\ cash \in Int
    /\ paid \in [Positions -> Int] /\ shown \in [Positions -> Int]
Readings ==
    seen \in [cash : Int \union {Null}, equity : Int \union {Null},
             live : SUBSET Positions, volume : [Positions -> 0..Whole],
             profit : [Positions -> Int], deals : [Positions -> Int]]
Counters == today \in Nat /\ moves \in Nat /\ unread \in Nat /\ late \in Nat
Figures == Market /\ Readings /\ Counters /\ asked \in [Closers -> 0..Whole]

RowVolumes ==
    /\ \A k \in Positions : table[<<k, "volume">>] \in 0..Whole
    /\ \A s \in Sessions, k \in Positions :
          writes[s][<<k, "volume">>] \in (0..Whole) \union {Untouched}

\* A request of the application that closes a part of a position records it
\* without the writer: a cycle of the monitor may come in between.
ManualIsWhole == \A c \in Closers : KindOf[c] = "manual" => ~PartialOf[c]

GoneInv ==
    /\ \A k \in ClosedRows : volume[k] = 0
    /\ \A s \in Sessions, k \in Positions :
          writes[s][<<k, "state">>] = "closed" => volume[k] = 0
    /\ pc[Monitor] = "rows" => \A k \in Positions \ seen.live : volume[k] = 0
    /\ \A c \in Closers : pc[c] = "record" =>
          IF PartialOf[c] THEN asked[c] < Row(c, FirstOf(c), "volume")
          ELSE volume[FirstOf(c)] = 0

-----------------------------------------------------------------------------
(* The monitor alone: no request has begun.                                *)

Beginning == {"sleep", "rollover", "snapshot", "rows"}
Counting == {"flushRows", "count"}
Counted == {"settle", "flushState", "commit"}
SeenClosed == {k \in Positions : Row(Monitor, k, "state") = "closed"}
SeenResults == [k \in SeenClosed |-> ResultOf(Monitor, k)]
RealizedByRows == Total([k \in ClosedRows |-> CommittedResult(k)], ClosedRows)
States == {"open", "partial", "closed"}

RowFigures ==
    /\ \A k \in Positions :
          /\ volume[k] \in {0, Whole}
          /\ table[<<k, "state">>] \in States
          /\ table[<<k, "result">>] \in Int /\ table[<<k, "profit">>] \in Int
          /\ Row(Monitor, k, "state") \in States
          /\ Row(Monitor, k, "result") \in Int /\ Row(Monitor, k, "profit") \in Int
          /\ k \in ClosedRows => \A f \in RowFields :
                writes[Monitor][<<k, f>>] = Untouched
    /\ DOMAIN found[Monitor] \subseteq Positions
    /\ found[Monitor] \in [DOMAIN found[Monitor] -> Int]

SameDay ==
    /\ Committed("day") = 0
    /\ writes[Monitor][<<"ledger", "day">>] = Untouched
    /\ pc[Monitor] # "flushDay"

RealizedKept ==
    /\ Committed("realized") = RealizedByRows
    /\ pc[Monitor] \in Beginning =>
          /\ \A k \in Positions, f \in RowFields :
                writes[Monitor][<<k, f>>] = Untouched
          /\ found[Monitor] = NoneClosed
    /\ pc[Monitor] \in Beginning \union Counting =>
          writes[Monitor][<<"ledger", "realized">>] = Untouched
    /\ pc[Monitor] \in Counting =>
          /\ DOMAIN found[Monitor] = SeenClosed \ ClosedRows
          /\ \A k \in DOMAIN found[Monitor] :
                found[Monitor][k] = ResultOf(Monitor, k)
    /\ pc[Monitor] \in Counted =>
          Ledger(Monitor, "realized") = Total(SeenResults, SeenClosed)

CountInv ==
    /\ OnlyMonitor => RowFigures
    /\ OnlyMonitor /\ today = 0 => SameDay /\ RealizedKept

\* The deals of a position tell what was paid, or only its entry as long as
\* the closing deal is late.
Published(k, deals) ==
    /\ deals \in {paid[k], -Fee}
    /\ MaxLate = 0 => deals = paid[k]
EntryIsFree == Fee = 0 \/ MaxLate = 0

Deals ==
    \A k \in Positions :
        /\ Published(k, shown[k])
        /\ volume[k] # 0 => paid[k] = -Fee
Truthful ==
    /\ \A k \in Positions : Row(Monitor, k, "state") = "closed" =>
          /\ volume[k] = 0
          /\ Row(Monitor, k, "result") \in {paid[k], Row(Monitor, k, "profit")}
    /\ \A k \in ClosedRows :
          /\ volume[k] = 0
          /\ table[<<k, "result">>] \in {paid[k], table[<<k, "profit">>]}
    /\ pc[Monitor] = "rows" => \A k \in Positions \ seen.live :
          volume[k] = 0 /\ Published(k, seen.deals[k])
TruthInv == OnlyMonitor => Deals /\ Truthful

\* Within the day, without money from outside, failed readings or late deals,
\* and with an entry that costs nothing: what is paid is what the price made,
\* the rows say so, and the balance that the monitor read is that of the morning
\* and of the positions gone at that time, which its comparison finds.
Trading == OnlyTrading /\ today = 0
Early == {"rollover", "snapshot", "rows"}

Paid ==
    /\ \A k \in Positions : paid[k] = (IF volume[k] = 0 THEN price[k] ELSE 0)
                            /\ shown[k] = paid[k]
    /\ cash = Start + Total(paid, Positions)
Profits ==
    \A k \in Positions : /\ Row(Monitor, k, "profit") \in {0, price[k]}
                         /\ table[<<k, "profit">>] \in {0, price[k]}
                         /\ seen.profit[k] \in {0, price[k]}
Results ==
    /\ \A k \in ClosedRows : volume[k] = 0 /\ table[<<k, "result">>] = paid[k]
    /\ \A k \in SeenClosed : volume[k] = 0 /\ Row(Monitor, k, "result") = paid[k]
Marks ==
    /\ Committed("start") = Start /\ Ledger(Monitor, "start") = Start
    /\ Committed("peak") \in Int /\ Ledger(Monitor, "peak") \in Int
    /\ Ledger(Monitor, "peak") >= Committed("peak")
Explains(ks) ==
    /\ ClosedRows \subseteq ks
    /\ \A k \in ks : volume[k] = 0
    /\ seen.cash = Start + Total(paid, ks)
    /\ pc[Monitor] = "rows" => ks \intersect seen.live = {}
Explained ==
    /\ pc[Monitor] # "sleep" => seen.cash \in Int /\ seen.equity \in Int
    /\ pc[Monitor] \in Early => \E ks \in SUBSET Positions : Explains(ks)
    /\ pc[Monitor] = "rows" => \A k \in Positions \ seen.live :
          volume[k] = 0 /\ seen.deals[k] = paid[k]
    /\ pc[Monitor] \in Counting \union {"settle"} /\ found[Monitor] = NoneClosed =>
          seen.cash = Start + Total(paid, SeenClosed)
BaseInv == Trading => Paid /\ Profits /\ Results /\ Marks /\ Explained

-----------------------------------------------------------------------------
(* What an assignment, a publication and the end of a session do.          *)

\* The columns of the ledger and of the rows, and their names.
LEMMA ColumnsKnown ==
    /\ \A f \in LedgerFields : <<"ledger", f>> \in Columns
    /\ \A k \in Positions, f \in RowFields : <<k, f>> \in Columns
    /\ LedgerFields \intersect RowFields = {}
BY DEF Columns, LedgerFields, RowFields

\* The session's own columns take the values that differ from what it reads.
LEMMA AssignEffect ==
    ASSUME Shape, NEW s \in Sessions, NEW values, Assign(s, values)
    PROVE  /\ DOMAIN writes' = Sessions
           /\ \A r \in Sessions : DOMAIN writes'[r] = Columns
           /\ \A r \in Sessions : r # s => writes'[r] = writes[r]
           /\ \A col \in Columns : writes'[s][col] =
                 IF col \in DOMAIN values /\ values[col] # See(s, col)
                 THEN values[col] ELSE writes[s][col]
BY DEF Shape, Assign

\* An assignment to the ledger changes the fields it names and no row.
LEMMA LedgerEffect ==
    ASSUME Shape, NEW s \in Sessions, NEW fields, Assign(s, LedgerColumns(fields))
    PROVE  /\ DOMAIN writes' = Sessions
           /\ \A r \in Sessions : DOMAIN writes'[r] = Columns
           /\ \A r \in Sessions : r # s => writes'[r] = writes[r]
           /\ \A f \in LedgerFields : writes'[s][<<"ledger", f>>] =
                 IF f \in DOMAIN fields /\ fields[f] # Ledger(s, f)
                 THEN fields[f] ELSE writes[s][<<"ledger", f>>]
           /\ \A k \in Positions, f \in RowFields :
                 f \notin DOMAIN fields =>
                    writes'[s][<<k, f>>] = writes[s][<<k, f>>]
<1> DEFINE values == LedgerColumns(fields)
<1>1. Assign(s, values)
  OBVIOUS
<1>2. \A f : <<"ledger", f>> \in DOMAIN values <=> f \in DOMAIN fields
  BY DEF LedgerColumns
<1>3. \A f \in DOMAIN fields : values[<<"ledger", f>>] = fields[f]
  BY DEF LedgerColumns
<1>4. \A k, f : f \notin DOMAIN fields => <<k, f>> \notin DOMAIN values
  BY DEF LedgerColumns
<1> HIDE DEF values
<1>5. /\ DOMAIN writes' = Sessions
      /\ \A r \in Sessions : DOMAIN writes'[r] = Columns
      /\ \A r \in Sessions : r # s => writes'[r] = writes[r]
      /\ \A col \in Columns : writes'[s][col] =
            IF col \in DOMAIN values /\ values[col] # See(s, col)
            THEN values[col] ELSE writes[s][col]
  BY <1>1, AssignEffect
<1> QED BY <1>2, <1>3, <1>4, <1>5, ColumnsKnown DEF Ledger

\* An assignment to a row changes the fields it names of that row only.
LEMMA RowEffect ==
    ASSUME Shape, NEW s \in Sessions, NEW k \in Positions, NEW fields,
           DOMAIN fields \subseteq RowFields, Assign(s, RowColumns(k, fields))
    PROVE  /\ DOMAIN writes' = Sessions
           /\ \A r \in Sessions : DOMAIN writes'[r] = Columns
           /\ \A r \in Sessions : r # s => writes'[r] = writes[r]
           /\ \A f \in RowFields : writes'[s][<<k, f>>] =
                 IF f \in DOMAIN fields /\ fields[f] # Row(s, k, f)
                 THEN fields[f] ELSE writes[s][<<k, f>>]
           /\ \A l \in Positions, f \in RowFields :
                 l # k => writes'[s][<<l, f>>] = writes[s][<<l, f>>]
           /\ \A f \in LedgerFields :
                 writes'[s][<<"ledger", f>>] = writes[s][<<"ledger", f>>]
<1> DEFINE values == RowColumns(k, fields)
<1>1. Assign(s, values)
  OBVIOUS
<1>2. \A f : <<k, f>> \in DOMAIN values <=> f \in DOMAIN fields
  BY DEF RowColumns
<1>3. \A f \in DOMAIN fields : values[<<k, f>>] = fields[f]
  BY DEF RowColumns
<1>4. \A l, f : l # k \/ f \notin RowFields => <<l, f>> \notin DOMAIN values
  BY DEF RowColumns
<1> HIDE DEF values
<1>5. /\ DOMAIN writes' = Sessions
      /\ \A r \in Sessions : DOMAIN writes'[r] = Columns
      /\ \A r \in Sessions : r # s => writes'[r] = writes[r]
      /\ \A col \in Columns : writes'[s][col] =
            IF col \in DOMAIN values /\ values[col] # See(s, col)
            THEN values[col] ELSE writes[s][col]
  BY <1>1, AssignEffect
<1>6. \A f \in LedgerFields : f \notin RowFields
  BY ColumnsKnown
<1> QED BY <1>2, <1>3, <1>4, <1>5, <1>6, ColumnsKnown DEF Row

\* The figures of an open row once compared with what the monitor read.
Compared(k) ==
    IF k \in OpenRows(Monitor) \ seen.live
    THEN [state |-> "closed", volume |-> Row(Monitor, k, "volume"),
          profit |-> Row(Monitor, k, "profit"),
          result |-> ResultFromDeals(seen.deals[k], Row(Monitor, k, "profit"))]
    ELSE [state |-> Row(Monitor, k, "state"),
          volume |-> seen.volume[k], profit |-> seen.profit[k],
          result |-> Row(Monitor, k, "result")]

\* What the comparison of the monitor writes and finds.
LEMMA CompareEffect ==
    ASSUME Shape, CompareRows
    PROVE  /\ DOMAIN writes' = Sessions
           /\ \A r \in Sessions : DOMAIN writes'[r] = Columns
           /\ \A r \in Sessions : r # Monitor => writes'[r] = writes[r]
           /\ \A f \in LedgerFields :
                 writes'[Monitor][<<"ledger", f>>] = writes[Monitor][<<"ledger", f>>]
           /\ \A k \in Positions, f \in RowFields :
                 writes'[Monitor][<<k, f>>] =
                    IF k \in OpenRows(Monitor) /\ Compared(k)[f] # Row(Monitor, k, f)
                    THEN Compared(k)[f] ELSE writes[Monitor][<<k, f>>]
           /\ found' = [found EXCEPT ![Monitor] =
                 [k \in OpenRows(Monitor) \ seen.live |-> Compared(k).result]]
<1> DEFINE values ==
        [col \in OpenRows(Monitor) \X RowFields |-> Compared(col[1])[col[2]]]
<1>1. Assign(Monitor, values)
  BY DEF CompareRows, Compared
<1>2. \A k, f : <<k, f>> \in DOMAIN values <=> (k \in OpenRows(Monitor) /\ f \in RowFields)
  OBVIOUS
<1>3. \A k \in OpenRows(Monitor), f \in RowFields : values[<<k, f>>] = Compared(k)[f]
  OBVIOUS
<1> HIDE DEF values
<1>4. Monitor \in Sessions
  BY DEF Sessions
<1>5. /\ DOMAIN writes' = Sessions
      /\ \A r \in Sessions : DOMAIN writes'[r] = Columns
      /\ \A r \in Sessions : r # Monitor => writes'[r] = writes[r]
      /\ \A col \in Columns : writes'[Monitor][col] =
            IF col \in DOMAIN values /\ values[col] # See(Monitor, col)
            THEN values[col] ELSE writes[Monitor][col]
  BY <1>1, <1>4, AssignEffect
<1>6. \A f \in LedgerFields : f \notin RowFields
  BY ColumnsKnown
<1>7. found' = [found EXCEPT ![Monitor] =
                 [k \in OpenRows(Monitor) \ seen.live |-> Compared(k).result]]
  BY DEF CompareRows, Compared
<1> QED BY <1>2, <1>3, <1>5, <1>6, <1>7, ColumnsKnown DEF Row

\* The end of a session: nothing of it is left, and nobody else is touched.
LEMMA CloseEffect ==
    ASSUME Shape, NEW s \in Sessions, Close(s)
    PROVE  /\ DOMAIN writes' = Sessions
           /\ \A r \in Sessions : DOMAIN writes'[r] = Columns
           /\ Clean(s)'
           /\ \A r \in Sessions : r # s => /\ writes'[r] = writes[r]
                                           /\ pc'[r] = pc[r]
                                           /\ found'[r] = found[r]
                                           /\ todo'[r] = todo[r]
           /\ writer' # s
           /\ \A r : r # s => (writer' = r <=> (writer = r \/ (writer = s /\ r = Nobody)))
           /\ pc'[s] = IF s = Monitor THEN "sleep" ELSE "done"
           /\ found'[s] = NoneClosed
           /\ seen' = IF s = Monitor THEN NothingSeen ELSE seen
           /\ UNCHANGED <<asked, broker, world>>
<1>1. Nobody # s
  BY SessionsAssumption
<1> QED BY <1>1 DEF Close, Shape, DropWriter, Goto, NothingWritten, Clean

\* A commit changes the columns its session has written: if it has written
\* none, nothing.
LEMMA PublishEffect ==
    ASSUME Shape, NEW s \in Sessions, Publish(s)
    PROVE  /\ DOMAIN table' = Columns
           /\ \A col \in Columns : table'[col] = See(s, col)
           /\ Clean(s) => \A col \in Columns : table'[col] = table[col]
BY DEF Shape, Publish, Clean, See

-----------------------------------------------------------------------------
(* Every step keeps the discipline of the writer.                          *)

\* A session that another one does not touch is held as before.
LEMMA HeldKept ==
    ASSUME NEW r \in Sessions, HeldBy(r), writes'[r] = writes[r], pc'[r] = pc[r],
           found'[r] = found[r], writer' = r <=> writer = r
    PROVE  HeldBy(r)'
BY DEF HeldBy, Clean

\* Whoever takes or drops the writer, no other session gets or loses it.
LEMMA WriterMoves ==
    ASSUME NEW s \in Sessions,
           \/ writer' = writer
           \/ TakeWriter(s)
           \/ DropWriter(s)
    PROVE  \A r \in Sessions : r # s => (writer' = r <=> writer = r)
BY SessionsAssumption DEF TakeWriter, CanWrite, DropWriter, Sessions

\* One session moves: the others are held as before, this one as it must be.
LEMMA AccessMove ==
    ASSUME Access, NEW s \in Sessions, Shape', HeldBy(s)',
           \A r \in Sessions : r # s =>
              /\ writes'[r] = writes[r] /\ pc'[r] = pc[r] /\ found'[r] = found[r]
              /\ writer' = r <=> writer = r
    PROVE  Access'
BY HeldKept DEF Access, WriterHeld

\* The monitor keeps the discipline of the sessions.
LEMMA AccessMonitor ==
    ASSUME Access, MonitorStep
    PROVE  Access'
<1> USE SessionsAssumption DEF Sessions, Access, WriterHeld
<1>0. Monitor \in Sessions /\ HeldBy(Monitor)
  OBVIOUS
<1>1. CASE BeginCycle
  <2>1. Shape' /\ HeldBy(Monitor)'
    BY <1>0, <1>1 DEF BeginCycle, Shape, Goto, memory, database, HeldBy, Clean, MonitorSteps,
       CloserSteps, Unwritten, ToFlush
  <2> QED BY <1>0, <1>1, <2>1, AccessMove DEF BeginCycle, Goto, memory, database, Shape
<1>2. CASE Rollover
  <2>1. CASE Assign(Monitor, LedgerColumns(
                    [day |-> today, start |-> seen.cash, realized |-> 0,
                     peak |-> Null])) /\ Goto(Monitor, "flushDay")
    <3>1. /\ DOMAIN writes' = Sessions
          /\ \A r \in Sessions : DOMAIN writes'[r] = Columns
          /\ \A r \in Sessions : r # Monitor => writes'[r] = writes[r]
      BY <1>0, <2>1, LedgerEffect
    <3>2. Shape' /\ HeldBy(Monitor)'
      BY <1>0, <1>2, <2>1, <3>1 DEF Rollover, Shape, Goto, memory, HeldBy,
         MonitorSteps, CloserSteps, Unwritten, ToFlush
    <3> QED BY <1>0, <1>2, <2>1, <3>1, <3>2, AccessMove DEF Rollover, Goto, memory, Shape
  <2>2. CASE Goto(Monitor, "snapshot") /\ UNCHANGED writes
    <3>1. Shape' /\ HeldBy(Monitor)'
      BY <1>0, <1>2, <2>2 DEF Rollover, Shape, Goto, memory, HeldBy, Clean,
         MonitorSteps, CloserSteps, Unwritten, ToFlush
    <3> QED BY <1>0, <1>2, <2>2, <3>1, AccessMove DEF Rollover, Goto, memory, Shape
  <2> QED BY <1>2, <2>1, <2>2 DEF Rollover
<1>3. CASE FlushDay
  <2>1. Shape' /\ HeldBy(Monitor)'
    BY <1>0, <1>3 DEF FlushDay, FlushThen, TakeWriter, Shape, Goto, memory, HeldBy,
       MonitorSteps, CloserSteps, Unwritten, ToFlush
  <2> QED BY <1>0, <1>3, <2>1, WriterMoves, AccessMove DEF FlushDay, FlushThen, Goto, memory, Shape
<1>4. CASE Snapshot
  <2>1. Shape' /\ HeldBy(Monitor)'
    BY <1>0, <1>4 DEF Snapshot, Shape, Goto, memory, database, HeldBy, Clean, MonitorSteps,
       CloserSteps, Unwritten, ToFlush
  <2> QED BY <1>0, <1>4, <2>1, AccessMove DEF Snapshot, Goto, memory, database, Shape
<1>5. CASE Unreadable
  <2>1. Shape' /\ HeldBy(Monitor)'
    BY <1>0, <1>5 DEF Unreadable, Shape, Goto, memory, database, HeldBy, Clean, MonitorSteps,
       CloserSteps, Unwritten, ToFlush
  <2> QED BY <1>0, <1>5, <2>1, AccessMove DEF Unreadable, Goto, memory, database, Shape
<1>6. CASE CompareRows
  <2>2. /\ DOMAIN writes' = Sessions
        /\ \A r \in Sessions : DOMAIN writes'[r] = Columns
        /\ \A r \in Sessions : r # Monitor => writes'[r] = writes[r]
        /\ OpenRows(Monitor) = {} =>
              \A col \in Columns : writes'[Monitor][col] = writes[Monitor][col]
    BY <1>0, <1>6, CompareEffect DEF Columns
  <2>3. \/ OpenRows(Monitor) = {} /\ pc' = [pc EXCEPT ![Monitor] = "settle"]
        \/ pc' = [pc EXCEPT ![Monitor] = "flushRows"]
    BY <1>6 DEF CompareRows, Goto
  <2>4. /\ DOMAIN found' = Sessions
        /\ \A r \in Sessions : r # Monitor => found'[r] = found[r]
    BY <1>6 DEF CompareRows, Shape
  <2>5. Shape'
    BY <1>0, <1>6, <2>2, <2>3, <2>4 DEF CompareRows, Shape, MonitorSteps, CloserSteps
  <2>6. HeldBy(Monitor)'
    BY <1>0, <1>6, <2>2, <2>3 DEF CompareRows, Shape, HeldBy, Clean, Unwritten, ToFlush
  <2> QED BY <1>0, <1>6, <2>2, <2>3, <2>4, <2>5, <2>6, AccessMove DEF CompareRows, Shape
<1>7. CASE FlushRows
  <2>1. Shape' /\ HeldBy(Monitor)'
    BY <1>0, <1>7 DEF FlushRows, FlushThen, TakeWriter, Shape, Goto, memory, HeldBy,
       MonitorSteps, CloserSteps, Unwritten, ToFlush
  <2> QED BY <1>0, <1>7, <2>1, WriterMoves, AccessMove DEF FlushRows, FlushThen, Goto, memory, Shape
<1>8. CASE Count(Monitor)
  <2>1. PICK fields : Assign(Monitor, LedgerColumns(fields))
    BY <1>8 DEF Count, ApplyClosedTrades
  <2>2. /\ DOMAIN writes' = Sessions
        /\ \A r \in Sessions : DOMAIN writes'[r] = Columns
        /\ \A r \in Sessions : r # Monitor => writes'[r] = writes[r]
    BY <1>0, <2>1, LedgerEffect
  <2>3. Shape' /\ HeldBy(Monitor)'
    BY <1>0, <1>8, <2>2 DEF Count, Shape, Goto, memory, HeldBy,
       MonitorSteps, CloserSteps, Unwritten, ToFlush
  <2> QED BY <1>0, <1>8, <2>2, <2>3, AccessMove DEF Count, Goto, memory, Shape
<1>9. CASE Settle
  <2>1. CASE Goto(Monitor, "commit") /\ UNCHANGED writes
    <3>1. Shape' /\ HeldBy(Monitor)'
      BY <1>0, <1>9, <2>1 DEF Settle, Shape, Goto, memory, HeldBy, Clean,
         MonitorSteps, CloserSteps, Unwritten, ToFlush
    <3> QED BY <1>0, <1>9, <2>1, <3>1, AccessMove DEF Settle, Goto, memory, Shape
  <2>2. CASE /\ \E fields : Assign(Monitor, LedgerColumns(fields))
             /\ Goto(Monitor, "flushState")
    <3>1. /\ DOMAIN writes' = Sessions
          /\ \A r \in Sessions : DOMAIN writes'[r] = Columns
          /\ \A r \in Sessions : r # Monitor => writes'[r] = writes[r]
      BY <1>0, <2>2, LedgerEffect
    <3>2. Shape' /\ HeldBy(Monitor)'
      BY <1>0, <1>9, <2>2, <3>1 DEF Settle, Shape, Goto, memory, HeldBy,
         MonitorSteps, CloserSteps, Unwritten, ToFlush
    <3> QED BY <1>0, <1>9, <2>2, <3>1, <3>2, AccessMove DEF Settle, Goto, memory, Shape
  <2> QED BY <1>9, <2>1, <2>2 DEF Settle
<1>10. CASE FlushState
  <2>1. \/ writer' = writer
        \/ TakeWriter(Monitor)
    BY <1>10 DEF FlushState
  <2>2. Shape'
    BY <1>0, <1>10 DEF FlushState, Shape, Goto, memory, MonitorSteps, CloserSteps
  <2>3. HeldBy(Monitor)'
    BY <1>0, <1>10 DEF FlushState, Shape, Goto, memory, HeldBy, TakeWriter, Clean,
       NothingWritten, Unwritten, ToFlush
  <2> QED BY <1>0, <1>10, <2>1, <2>2, <2>3, WriterMoves, AccessMove DEF FlushState, Goto, memory, Shape
<1>11. CASE Commit(Monitor)
  <2>1. DOMAIN table' = Columns
    BY <1>11 DEF Commit, Publish
  <2>2. Close(Monitor)
    BY <1>11 DEF Commit
  <2>3. Shape' /\ HeldBy(Monitor)'
    BY <1>0, <2>1, <2>2, CloseEffect DEF Shape, HeldBy, Close, Goto,
       MonitorSteps, CloserSteps, Unwritten, ToFlush
  <2> QED BY <1>0, <2>2, <2>3, CloseEffect, AccessMove
<1> QED BY <1>1, <1>2, <1>3, <1>4, <1>5, <1>6, <1>7, <1>8, <1>9, <1>10, <1>11 DEF MonitorStep

\* A request that closes positions keeps it too.
LEMMA AccessCloser ==
    ASSUME Access, NEW c \in Closers, CloserStep(c)
    PROVE  Access'
<1> USE SessionsAssumption DEF Sessions, Access, WriterHeld
<1>0. c \in Sessions /\ HeldBy(c) /\ c # Monitor
  OBVIOUS
<1>1. CASE BeginFollowUp(c)
  <2>1. Shape' /\ HeldBy(c)'
    BY <1>0, <1>1 DEF BeginFollowUp, Shape, Goto, TakeWriter, HeldBy, Clean, OpenRows,
       MonitorSteps, CloserSteps, Unwritten, ToFlush
  <2> QED BY <1>0, <1>1, <2>1, WriterMoves, AccessMove DEF BeginFollowUp, Goto, Shape
<1>2. CASE BeginRequest(c)
  <2>1. PICK ks \in SUBSET Positions : todo' = [todo EXCEPT ![c] = ks]
    BY <1>2 DEF BeginRequest
  <2>2. Shape' /\ HeldBy(c)'
    BY <1>0, <1>2, <2>1 DEF BeginRequest, Shape, Goto, database, HeldBy, Clean,
       MonitorSteps, CloserSteps, Unwritten, ToFlush
  <2> QED BY <1>0, <1>2, <2>2, AccessMove DEF BeginRequest, Goto, database, Shape
<1>3. CASE CloseOne(c)
  <2>1. \/ todo' = [todo EXCEPT ![c] = @ \ {FirstOf(c)}] /\ UNCHANGED pc
        \/ Goto(c, "record") /\ UNCHANGED todo
    BY <1>3 DEF CloseOne
  <2>2. Shape' /\ HeldBy(c)'
    BY <1>0, <1>3, <2>1 DEF CloseOne, Shape, Goto, database, HeldBy, Clean,
       MonitorSteps, CloserSteps, Unwritten, ToFlush
  <2> QED BY <1>0, <1>3, <2>1, <2>2, AccessMove DEF CloseOne, Goto, database, Shape
<1>4. CASE Record(c)
  <2>0. FirstOf(c) \in Positions
    BY <1>0, <1>4 DEF Record, FirstOf, Shape
  <2>1. PICK fields : /\ DOMAIN fields \subseteq RowFields
                      /\ Assign(c, RowColumns(FirstOf(c), fields))
    BY <1>4 DEF Record, RowFields
  <2>2. /\ DOMAIN writes' = Sessions
        /\ \A r \in Sessions : DOMAIN writes'[r] = Columns
        /\ \A r \in Sessions : r # c => writes'[r] = writes[r]
    BY <1>0, <2>0, <2>1, RowEffect
  <2>3. /\ DOMAIN found' = Sessions
        /\ \A r \in Sessions : r # c => found'[r] = found[r]
        /\ todo' = [todo EXCEPT ![c] = @ \ {FirstOf(c)}]
    BY <1>0, <1>4 DEF Record, Shape
  <2>4. Shape' /\ HeldBy(c)'
    BY <1>0, <1>4, <2>2, <2>3 DEF Record, Shape, Goto, HeldBy, Clean,
       MonitorSteps, CloserSteps, Unwritten, ToFlush
  <2> QED BY <1>0, <1>4, <2>2, <2>3, <2>4, AccessMove DEF Record, Goto, Shape
<1>5. CASE FlushRecord(c)
  <2>1. Shape' /\ HeldBy(c)'
    BY <1>0, <1>5 DEF FlushRecord, FlushThen, TakeWriter, Shape, Goto, memory, HeldBy,
       MonitorSteps, CloserSteps, Unwritten, ToFlush
  <2> QED BY <1>0, <1>5, <2>1, WriterMoves, AccessMove DEF FlushRecord, FlushThen, Goto, memory, Shape
<1>6. CASE Recorded(c)
  <2>1. pc' = [pc EXCEPT ![c] = pc'[c]]
        /\ \/ pc'[c] \in {"suspend", "commit"}
           \/ pc'[c] = "count" /\ found[c] # NoneClosed
    BY <1>0, <1>6 DEF Recorded, Goto, LastStep, Shape
  <2>2. Shape' /\ HeldBy(c)'
    BY <1>0, <1>6, <2>1 DEF Recorded, Shape, database, memory, HeldBy, Clean,
       MonitorSteps, CloserSteps, Unwritten, ToFlush
  <2> QED BY <1>0, <1>6, <2>1, <2>2, AccessMove DEF Recorded, Shape, database, memory
<1>7. CASE Count(c)
  <2>1. PICK fields : Assign(c, LedgerColumns(fields))
    BY <1>7 DEF Count, ApplyClosedTrades
  <2>2. /\ DOMAIN writes' = Sessions
        /\ \A r \in Sessions : DOMAIN writes'[r] = Columns
        /\ \A r \in Sessions : r # c => writes'[r] = writes[r]
    BY <1>0, <2>1, LedgerEffect
  <2>3. pc' = [pc EXCEPT ![c] = LastStep(c)] /\ LastStep(c) \in {"suspend", "commit"}
    BY <1>0, <1>7 DEF Count, Goto, LastStep
  <2>4. Shape' /\ HeldBy(c)'
    BY <1>0, <1>7, <2>2, <2>3 DEF Count, Shape, memory, HeldBy,
       MonitorSteps, CloserSteps, Unwritten, ToFlush
  <2> QED BY <1>0, <1>7, <2>2, <2>3, <2>4, AccessMove DEF Count, memory, Shape
<1>8. CASE Suspend(c)
  <2>1. CASE TakeWriter(c) /\ Assign(c, LedgerColumns([paused |-> TRUE]))
    <3>1. /\ DOMAIN writes' = Sessions
          /\ \A r \in Sessions : DOMAIN writes'[r] = Columns
          /\ \A r \in Sessions : r # c => writes'[r] = writes[r]
      BY <1>0, <2>1, LedgerEffect
    <3>2. Shape' /\ HeldBy(c)'
      BY <1>0, <1>8, <2>1, <3>1 DEF Suspend, Shape, Goto, memory, HeldBy, TakeWriter,
         MonitorSteps, CloserSteps, Unwritten, ToFlush
    <3> QED BY <1>0, <1>8, <2>1, <3>1, <3>2, WriterMoves, AccessMove DEF Suspend, Goto, memory, Shape
  <2>2. CASE UNCHANGED <<writes, writer>>
    <3>1. Shape' /\ HeldBy(c)'
      BY <1>0, <1>8, <2>2 DEF Suspend, Shape, Goto, memory, HeldBy, Clean,
         MonitorSteps, CloserSteps, Unwritten, ToFlush
    <3> QED BY <1>0, <1>8, <2>2, <3>1, AccessMove DEF Suspend, Goto, memory, Shape
  <2> QED BY <1>8, <2>1, <2>2 DEF Suspend
<1>9. CASE Commit(c)
  <2>1. DOMAIN table' = Columns
    BY <1>9 DEF Commit, Publish
  <2>2. Close(c)
    BY <1>9 DEF Commit
  <2>3. Shape' /\ HeldBy(c)'
    BY <1>0, <2>1, <2>2, CloseEffect DEF Shape, HeldBy, Close, Goto,
       MonitorSteps, CloserSteps, Unwritten, ToFlush
  <2> QED BY <1>0, <2>2, <2>3, CloseEffect, AccessMove
<1> QED BY <1>1, <1>2, <1>3, <1>4, <1>5, <1>6, <1>7, <1>8, <1>9 DEF CloserStep

\* Every step keeps the discipline of the sessions.
LEMMA AccessStep ==
    ASSUME Access, [Next]_vars
    PROVE  Access'
<1> USE SessionsAssumption DEF Sessions
<1>1. CASE \E s \in Sessions : Abort(s)
  <2>1. PICK s \in Sessions : Abort(s)
    BY <1>1
  <2>2. Close(s) /\ table' = table
    BY <2>1 DEF Abort
  <2>3. Shape' /\ HeldBy(s)'
    BY <2>2, CloseEffect DEF Access, WriterHeld, Shape, HeldBy, Close, Goto,
       MonitorSteps, CloserSteps, Unwritten, ToFlush
  <2> QED BY <2>2, <2>3, CloseEffect, AccessMove DEF Access
<1>2. CASE Outside
  <2>1. UNCHANGED <<writes, writer, pc, memory>> /\ DOMAIN table' = DOMAIN table
    BY <1>2 DEF Outside, PriceMoves, BrokerCloses, DealsShown, MoneyMoves, Midnight,
       Resume, database
  <2> QED BY <2>1 DEF Access, Shape, WriterHeld, HeldBy, Clean, memory
<1>3. CASE UNCHANGED vars
  BY <1>3 DEF vars, database, memory, Access, Shape, WriterHeld, HeldBy, Clean
<1> QED BY <1>1, <1>2, <1>3, AccessMonitor, AccessCloser DEF Next

\* No session has written at first.
LEMMA AccessInit ==
    ASSUME Init
    PROVE  Access
BY SessionsAssumption DEF Init, Access, Shape, WriterHeld, HeldBy, Clean, Sessions,
   NothingWritten, MonitorSteps, CloserSteps, Unwritten, ToFlush

-----------------------------------------------------------------------------
(* A streak at the limit suspends the automation.                          *)

PauseColumns == {"losses", "paused"}

\* A session that leaves its own streak and pause alone, and during which the
\* committed pause does not move under the session that holds the writer.
LEMMA PauseKept ==
    ASSUME NEW r \in Sessions, PauseBy(r),
           \A f \in PauseColumns :
              writes'[r][<<"ledger", f>>] = writes[r][<<"ledger", f>>],
           writer' = r <=> writer = r,
           writer = r => table'[<<"ledger", "paused">>] = table[<<"ledger", "paused">>]
    PROVE  PauseBy(r)'
BY DEF PauseBy, PauseColumns, Ledger, See

\* The counting of closures writes the pause together with the streak.
LEMMA CountPauses ==
    ASSUME Access, PauseInv, NEW s \in Sessions, Count(s)
    PROVE  PauseBy(s)'
<1> DEFINE losses == FoldLeft(LAMBDA n, k : Streak(n, found[s][k]),
                              Ledger(s, "losses"), InOrder(s, DOMAIN found[s]))
<1> DEFINE pause == Ledger(s, "paused") \/ losses >= MaxLosses
<1> DEFINE fields == [realized |-> Ledger(s, "realized") + Total(found[s], DOMAIN found[s]),
                      losses |-> losses, paused |-> pause]
<1>1. Assign(s, LedgerColumns(fields))
  BY DEF Count, ApplyClosedTrades
<1>2. DOMAIN fields = {"realized", "losses", "paused"}
      /\ fields["losses"] = losses /\ fields["paused"] = pause
  OBVIOUS
<1>3. losses >= MaxLosses => pause = TRUE
  OBVIOUS
<1> HIDE DEF fields, losses, pause
<1>4. /\ writes'[s][<<"ledger", "losses">>] =
            IF losses # Ledger(s, "losses") THEN losses
            ELSE writes[s][<<"ledger", "losses">>]
      /\ writes'[s][<<"ledger", "paused">>] =
            IF pause # Ledger(s, "paused") THEN pause
            ELSE writes[s][<<"ledger", "paused">>]
  BY <1>1, <1>2, LedgerEffect DEF Access, LedgerFields
<1>5. writer' = s /\ table' = table
  BY DEF Count, Access, WriterHeld, HeldBy
<1>6. Ledger(s, "paused")' = IF pause # Ledger(s, "paused")
                             THEN IF pause = Untouched
                                  THEN table[<<"ledger", "paused">>] ELSE pause
                             ELSE Ledger(s, "paused")
  BY <1>4, <1>5 DEF Ledger, See
<1>7. losses >= MaxLosses => Ledger(s, "paused")' = TRUE
  BY <1>3, <1>6, ColumnsAssumption
<1>8. writes'[s][<<"ledger", "losses">>] # Untouched =>
          \/ writes'[s][<<"ledger", "losses">>] = losses
          \/ losses = Ledger(s, "losses")
             /\ writes'[s][<<"ledger", "losses">>] = Ledger(s, "losses")
  BY <1>4 DEF Ledger, See
<1> QED BY <1>5, <1>7, <1>8 DEF PauseBy

\* The monitor writes a streak with its pause, and touches no other session.
LEMMA PauseMonitor ==
    ASSUME Access, PauseInv, MonitorStep, Access'
    PROVE  /\ PauseBy(Monitor)'
           /\ \A r \in Sessions : r # Monitor =>
                 /\ writes'[r] = writes[r]
                 /\ writer' = r <=> writer = r
                 /\ writer = r => \A col \in Columns : table'[col] = table[col]
<1> USE SessionsAssumption DEF Sessions, Access
<1>0. Monitor \in Sessions /\ PauseBy(Monitor) /\ HeldBy(Monitor)
  BY DEF PauseInv, WriterHeld
<1>1. CASE BeginCycle \/ Snapshot \/ Unreadable
  BY <1>0, <1>1, PauseKept DEF BeginCycle, Snapshot, Unreadable, database
<1>2. CASE Rollover
  <2>1. CASE Assign(Monitor, LedgerColumns(
                    [day |-> today, start |-> seen.cash, realized |-> 0,
                     peak |-> Null]))
    <3>1. /\ \A r \in Sessions : r # Monitor => writes'[r] = writes[r]
          /\ \A f \in PauseColumns :
                writes'[Monitor][<<"ledger", f>>] = writes[Monitor][<<"ledger", f>>]
      BY <1>0, <2>1, LedgerEffect DEF PauseColumns, LedgerFields
    <3> QED BY <1>0, <1>2, <3>1, PauseKept DEF Rollover
  <2>2. CASE UNCHANGED writes
    BY <1>0, <1>2, <2>2, PauseKept DEF Rollover
  <2> QED BY <1>2, <2>1, <2>2 DEF Rollover
<1>3. CASE FlushDay \/ FlushRows
  <2>1. TakeWriter(Monitor) /\ UNCHANGED <<writes, table>>
    BY <1>3 DEF FlushDay, FlushRows, FlushThen
  <2>2. PauseBy(Monitor)'
    BY <1>0, <2>1 DEF PauseBy, TakeWriter, Ledger, See
  <2> QED BY <1>0, <2>1, <2>2, WriterMoves
<1>4. CASE CompareRows
  <2>1. /\ \A r \in Sessions : r # Monitor => writes'[r] = writes[r]
        /\ \A f \in PauseColumns :
              writes'[Monitor][<<"ledger", f>>] = writes[Monitor][<<"ledger", f>>]
    BY <1>4, CompareEffect DEF PauseColumns, LedgerFields
  <2> QED BY <1>0, <1>4, <2>1, PauseKept DEF CompareRows
<1>5. CASE Count(Monitor)
  <2>1. PICK fields : Assign(Monitor, LedgerColumns(fields))
    BY <1>5 DEF Count, ApplyClosedTrades
  <2>2. \A r \in Sessions : r # Monitor => writes'[r] = writes[r]
    BY <1>0, <2>1, LedgerEffect
  <2> QED BY <1>0, <1>5, <2>2, CountPauses DEF Count
<1>6. CASE Settle
  <2>1. CASE UNCHANGED writes
    BY <1>0, <1>6, <2>1, PauseKept DEF Settle
  <2>2. CASE \E a, b : Assign(Monitor, LedgerColumns([start |-> a, peak |-> b]))
    <3>1. PICK a, b : Assign(Monitor, LedgerColumns([start |-> a, peak |-> b]))
      BY <2>2
    <3>2. /\ \A r \in Sessions : r # Monitor => writes'[r] = writes[r]
          /\ \A f \in PauseColumns :
                writes'[Monitor][<<"ledger", f>>] = writes[Monitor][<<"ledger", f>>]
      BY <1>0, <3>1, LedgerEffect DEF PauseColumns, LedgerFields
    <3> QED BY <1>0, <1>6, <3>2, PauseKept DEF Settle
  <2> QED BY <1>6, <2>1, <2>2 DEF Settle
<1>7. CASE FlushState
  <2>1. /\ UNCHANGED <<writes, table>>
        /\ writer' = writer \/ TakeWriter(Monitor)
    BY <1>7 DEF FlushState
  <2>2. PauseBy(Monitor)'
    BY <1>0, <2>1 DEF PauseBy, TakeWriter, Ledger, See
  <2> QED BY <1>0, <2>1, <2>2, WriterMoves
<1>8. CASE Commit(Monitor)
  <2>1. Close(Monitor) /\ Publish(Monitor) /\ pc[Monitor] = "commit"
    BY <1>8 DEF Commit
  <2>2. PauseBy(Monitor)'
    BY <1>0, <2>1, CloseEffect, ColumnsKnown DEF PauseBy, Clean, LedgerFields
  <2>3. writer # Monitor => \A col \in Columns : table'[col] = table[col]
    BY <1>0, <2>1, PublishEffect DEF HeldBy, ToFlush
  <2> QED BY <1>0, <2>1, <2>2, <2>3, CloseEffect
<1> QED BY <1>1, <1>2, <1>3, <1>4, <1>5, <1>6, <1>7, <1>8 DEF MonitorStep

\* So does a request that closes positions.
LEMMA PauseCloser ==
    ASSUME Access, PauseInv, NEW c \in Closers, CloserStep(c), Access'
    PROVE  /\ PauseBy(c)'
           /\ \A r \in Sessions : r # c =>
                 /\ writes'[r] = writes[r]
                 /\ writer' = r <=> writer = r
                 /\ writer = r => \A col \in Columns : table'[col] = table[col]
<1> USE SessionsAssumption DEF Sessions, Access
<1>0. c \in Sessions /\ PauseBy(c) /\ HeldBy(c) /\ c # Monitor
  BY DEF PauseInv, WriterHeld
<1>1. CASE BeginRequest(c) \/ CloseOne(c) \/ Recorded(c)
  BY <1>0, <1>1, PauseKept DEF BeginRequest, CloseOne, Recorded, database
<1>2. CASE BeginFollowUp(c) \/ FlushRecord(c)
  <2>1. TakeWriter(c) /\ UNCHANGED <<writes, table>>
    BY <1>2 DEF BeginFollowUp, FlushRecord, FlushThen
  <2>2. PauseBy(c)'
    BY <1>0, <2>1 DEF PauseBy, TakeWriter, Ledger, See
  <2> QED BY <1>0, <2>1, <2>2, WriterMoves
<1>3. CASE Record(c)
  <2>0. FirstOf(c) \in Positions
    BY <1>0, <1>3 DEF Record, FirstOf, Shape
  <2>1. PICK fields : /\ DOMAIN fields \subseteq RowFields
                      /\ Assign(c, RowColumns(FirstOf(c), fields))
    BY <1>3 DEF Record, RowFields
  <2>2. /\ \A r \in Sessions : r # c => writes'[r] = writes[r]
        /\ \A f \in PauseColumns :
              writes'[c][<<"ledger", f>>] = writes[c][<<"ledger", f>>]
    BY <1>0, <2>0, <2>1, RowEffect DEF PauseColumns, LedgerFields
  <2> QED BY <1>0, <1>3, <2>2, PauseKept DEF Record
<1>4. CASE Count(c)
  <2>1. PICK fields : Assign(c, LedgerColumns(fields))
    BY <1>4 DEF Count, ApplyClosedTrades
  <2>2. \A r \in Sessions : r # c => writes'[r] = writes[r]
    BY <1>0, <2>1, LedgerEffect
  <2> QED BY <1>0, <1>4, <2>2, CountPauses DEF Count
<1>5. CASE Suspend(c)
  <2>1. CASE TakeWriter(c) /\ Assign(c, LedgerColumns([paused |-> TRUE]))
    <3>1. /\ \A r \in Sessions : r # c => writes'[r] = writes[r]
          /\ writes'[c][<<"ledger", "losses">>] = writes[c][<<"ledger", "losses">>]
          /\ writes'[c][<<"ledger", "paused">>] =
                IF TRUE # Ledger(c, "paused") THEN TRUE
                ELSE writes[c][<<"ledger", "paused">>]
      <4> DEFINE fields == [paused |-> TRUE]
      <4>1. DOMAIN fields = {"paused"} /\ fields["paused"] = TRUE
        OBVIOUS
      <4>2. Assign(c, LedgerColumns(fields))
        BY <2>1
      <4> HIDE DEF fields
      <4> QED BY <1>0, <4>1, <4>2, LedgerEffect DEF LedgerFields
    <3>2. table' = table /\ writer' = c
      BY <1>5, <2>1 DEF Suspend, TakeWriter
    <3>3. Ledger(c, "paused")' = TRUE
      BY <3>1, <3>2, ColumnsAssumption DEF Ledger, See
    <3>4. PauseBy(c)'
      BY <3>2, <3>3 DEF PauseBy
    <3> QED BY <1>0, <2>1, <3>1, <3>2, <3>4, WriterMoves
  <2>2. CASE UNCHANGED <<writes, writer>>
    BY <1>0, <1>5, <2>2, PauseKept DEF Suspend
  <2> QED BY <1>5, <2>1, <2>2 DEF Suspend
<1>6. CASE Commit(c)
  <2>1. Close(c) /\ Publish(c) /\ pc[c] = "commit"
    BY <1>6 DEF Commit
  <2>2. PauseBy(c)'
    BY <1>0, <2>1, CloseEffect, ColumnsKnown DEF PauseBy, Clean, LedgerFields
  <2>3. writer # c => \A col \in Columns : table'[col] = table[col]
    BY <1>0, <2>1, PublishEffect DEF HeldBy, ToFlush
  <2> QED BY <1>0, <2>1, <2>2, <2>3, CloseEffect
<1> QED BY <1>1, <1>2, <1>3, <1>4, <1>5, <1>6 DEF CloserStep

\* Every step keeps the streaks with their pauses.
LEMMA PauseStep ==
    ASSUME Access, PauseInv, [Next]_vars, Access'
    PROVE  PauseInv'
<1> USE SessionsAssumption DEF Sessions
<1>0. <<"ledger", "paused">> \in Columns
      /\ \A f \in PauseColumns : <<"ledger", f>> \in Columns
  BY ColumnsKnown DEF LedgerFields, PauseColumns
<1>1. CASE MonitorStep
  <2> SUFFICES ASSUME NEW r \in Sessions, r # Monitor PROVE PauseBy(r)'
    BY <1>1, PauseMonitor DEF PauseInv
  <2> QED BY <1>0, <1>1, PauseMonitor, PauseKept DEF PauseInv
<1>2. CASE \E c \in Closers : CloserStep(c)
  <2>1. PICK c \in Closers : CloserStep(c)
    BY <1>2
  <2> SUFFICES ASSUME NEW r \in Sessions, r # c PROVE PauseBy(r)'
    BY <2>1, PauseCloser DEF PauseInv
  <2> QED BY <1>0, <2>1, PauseCloser, PauseKept DEF PauseInv
<1>3. CASE \E s \in Sessions : Abort(s)
  <2>1. PICK s \in Sessions : Close(s) /\ table' = table
    BY <1>3 DEF Abort
  <2>2. PauseBy(s)'
    BY <2>1, CloseEffect, ColumnsKnown DEF Access, PauseBy, Clean, LedgerFields
  <2> SUFFICES ASSUME NEW r \in Sessions, r # s PROVE PauseBy(r)'
    BY <2>2 DEF PauseInv
  <2> QED BY <2>1, CloseEffect, PauseKept DEF Access, PauseInv
<1>4. CASE Outside
  <2>1. UNCHANGED <<writes, writer>> /\ (table' = table \/ writer = Nobody)
    BY <1>4 DEF Outside, PriceMoves, BrokerCloses, DealsShown, MoneyMoves, Midnight,
       Resume, database
  <2> SUFFICES ASSUME NEW r \in Sessions PROVE PauseBy(r)'
    BY DEF PauseInv
  <2> QED BY <2>1, PauseKept DEF PauseInv
<1>5. CASE UNCHANGED vars
  BY <1>5 DEF vars, database, PauseInv, PauseBy, Ledger, See
<1> QED BY <1>1, <1>2, <1>3, <1>4, <1>5 DEF Next

\* No streak is counted at first.
LEMMA PauseInit ==
    ASSUME Init
    PROVE  PauseInv
BY DEF Init, PauseInv, PauseBy, NothingWritten, Columns, LedgerFields

\* What changes the committed streak is the commit of the session that counted.
LEMMA StreakCommitted ==
    ASSUME Access, PauseInv, [Next]_vars,
           Committed("losses")' # Committed("losses"),
           Committed("losses")' >= MaxLosses
    PROVE  Committed("paused")'
<1>0. <<"ledger", "paused">> \in Columns /\ <<"ledger", "losses">> \in Columns
  BY ColumnsKnown DEF LedgerFields
<1>1. CASE \E s \in Sessions : Commit(s)
  <2>1. PICK s \in Sessions : Publish(s)
    BY <1>1 DEF Commit
  <2>2. \A col \in Columns : table'[col] = See(s, col)
    BY <2>1, PublishEffect DEF Access
  <2>3. writes[s][<<"ledger", "losses">>] # Untouched
        /\ writes[s][<<"ledger", "losses">>] >= MaxLosses
    BY <1>0, <2>2 DEF Committed, See
  <2>4. Ledger(s, "paused") = TRUE
    BY <2>3 DEF PauseInv, PauseBy
  <2> QED BY <1>0, <2>2, <2>4 DEF Committed, Ledger
<1>2. CASE Outside
  <2>1. table' = table \/ table' = [table EXCEPT ![<<"ledger", "paused">>] = FALSE]
    BY <1>2 DEF Outside, PriceMoves, BrokerCloses, DealsShown, MoneyMoves, Midnight,
       Resume, database
  <2> QED BY <1>0, <2>1 DEF Committed, Access, Shape
<1>3. ASSUME NEW s \in Sessions, Abort(s) PROVE table' = table
  BY <1>3 DEF Abort
<1>4. CASE MonitorStep /\ ~Commit(Monitor)
  BY <1>4 DEF MonitorStep, BeginCycle, Rollover, FlushDay, Snapshot, Unreadable, CompareRows,
     FlushRows, Count, Settle, FlushState, FlushThen, database, Committed
<1>5. ASSUME NEW c \in Closers, CloserStep(c), ~Commit(c) PROVE table' = table
  BY <1>5 DEF CloserStep, BeginFollowUp, BeginRequest, CloseOne, Record, FlushRecord, Recorded,
     Count, Suspend, FlushThen, database
<1>6. CASE UNCHANGED vars
  BY <1>6 DEF vars, database, Committed
<1> QED BY <1>1, <1>2, <1>3, <1>4, <1>5, <1>6 DEF Next, Committed, Sessions

\* The writer of the database is held by one session at a time, and by every
\* session from the flush of what it wrote to its end.
THEOREM OneWriterHolds == Spec => []Access
<1>1. Init => Access
  BY AccessInit
<1>2. Access /\ [Next]_vars => Access'
  BY AccessStep
<1> QED BY <1>1, <1>2, PTL DEF Spec

\* A streak of losses at the limit suspends the automation in the transaction
\* that counts it, whoever counts, and a resumption of the user cannot come in
\* between.
THEOREM StreaksPause == Spec => LossesPause
<1>1. Init => Access /\ PauseInv
  BY AccessInit, PauseInit
<1>2. Access /\ PauseInv /\ [Next]_vars => (Access /\ PauseInv)'
  BY AccessStep, PauseStep
<1>3. Access /\ PauseInv /\ [Next]_vars =>
        [/\ Committed("losses")' # Committed("losses")
         /\ Committed("losses")' >= MaxLosses
         => Committed("paused")']_vars
  BY StreakCommitted
<1> QED BY <1>1, <1>2, <1>3, PTL DEF Spec, LossesPause

-----------------------------------------------------------------------------
(* The figures of the broker, and what the sessions make of them.          *)

\* The equity and the floating profits are numbers.
LEMMA EquityKnown ==
    ASSUME Market
    PROVE  Equity \in Int /\ Floatings \in [Positions -> Int]
<1>1. \A k \in Positions : Floating(k) \in Int
  BY DEF Market, Floating, Whole
<1>2. Floatings \in [Positions -> Int]
  BY <1>1 DEF Floatings
<1>3. Total(Floatings, Positions) \in Int
  BY <1>2, TotalType, PositionsAssumption
<1> QED BY <1>2, <1>3 DEF Equity, Market

\* A closing order takes its units off one position and pays for them.
LEMMA BrokerEffect ==
    ASSUME Figures, NEW k \in Positions, NEW n \in 0..volume[k],
           BrokerClosesUnits(k, n)
    PROVE  /\ Market' /\ late' \in Nat /\ late' >= late
           /\ volume'[k] = volume[k] - n
           /\ \A l \in Positions : l # k => /\ volume'[l] = volume[l]
                                            /\ paid'[l] = paid[l]
                                            /\ shown'[l] = shown[l]
           /\ price' = price
           /\ paid'[k] = paid[k] + (price[k] * n) \div Whole
           /\ cash' = cash + (price[k] * n) \div Whole
           /\ \/ shown'[k] = paid'[k] /\ late' = late
              \/ shown'[k] = shown[k] /\ late' = late + 1 /\ late < MaxLate
<1>1. (price[k] * n) \div Whole \in Int
  BY DEF Figures, Market, Whole
<1>2. n \in Int /\ volume[k] \in 0..Whole /\ volume[k] - n \in 0..Whole
  BY DEF Figures, Market, Whole
<1> QED BY <1>1, <1>2, MoneyAssumption DEF BrokerClosesUnits, Figures, Market, Counters

\* The volume of a row as a session reads it.
LEMMA RowVolumeKnown ==
    ASSUME RowVolumes, NEW s \in Sessions, NEW k \in Positions
    PROVE  Row(s, k, "volume") \in 0..Whole
BY DEF RowVolumes, Row, See

\* What a closer asks of the broker is there, and the half that a channel asks
\* for leaves something of the row.
LEMMA AsksKnown ==
    ASSUME Figures, RowVolumes, NEW c \in Closers, NEW k \in Positions,
           volume[k] # 0, ~TooSmall(c, k)
    PROVE  /\ Asks(c, k) \in 1..volume[k]
           /\ ~PartialOf[c] => Asks(c, k) = volume[k]
           /\ PartialOf[c] /\ KindOf[c] = "follow" => Asks(c, k) < Row(c, k, "volume")
<1>1. Row(c, k, "volume") \in 0..2 /\ volume[k] \in 1..2
  BY RowVolumeKnown DEF Figures, Market, Whole, Sessions
<1>2. Half(c, k) \in 0..1 /\ Half(c, k) <= volume[k]
      /\ (KindOf[c] = "follow" /\ Half(c, k) > 0 => Half(c, k) < Row(c, k, "volume"))
  BY <1>1 DEF Half
<1> QED BY <1>1, <1>2 DEF Asks, TooSmall

\* Every step keeps the figures of the market and the readings numbers.
LEMMA FiguresStep ==
    ASSUME Figures, RowVolumes, Access, [Next]_vars
    PROVE  Figures'
<1> USE SessionsAssumption DEF Sessions
<1>1. CASE BeginCycle
  <2>1. NothingSeen \in [cash : {Null}, equity : {Null}, live : SUBSET Positions,
                         volume : [Positions -> 0..Whole], profit : [Positions -> Int],
                         deals : [Positions -> Int]]
    BY DEF NothingSeen, Zero, Whole
  <2>2. Equity \in Int /\ cash \in Int
    BY EquityKnown DEF Figures, Market
  <2>3. CASE seen' = [NothingSeen EXCEPT !.cash = cash, !.equity = Equity] /\ UNCHANGED unread
    <3>1. Readings'
      BY <2>1, <2>2, <2>3 DEF Readings
    <3> QED BY <1>1, <2>3, <3>1 DEF BeginCycle, Figures, Market, Counters, memory, broker, world
  <2>4. CASE unread' = unread + 1 /\ UNCHANGED seen
    BY <1>1, <2>4 DEF BeginCycle, Figures, Market, Readings, Counters, memory, broker, world
  <2> QED BY <1>1, <2>3, <2>4 DEF BeginCycle
<1>2. CASE Snapshot
  <2>1. seen' = [seen EXCEPT !.live = {k \in Positions : volume[k] > 0}, !.volume = volume,
                             !.profit = Floatings, !.deals = shown]
    BY <1>2 DEF Snapshot
  <2> QED BY <1>2, <2>1, EquityKnown DEF Snapshot, Figures, Market, Readings, Counters, memory,
             broker, world, faults
<1>3. CASE Unreadable
  BY <1>3 DEF Unreadable, Figures, Market, Readings, Counters, memory, broker, world
<1>4. CASE Rollover \/ FlushDay \/ CompareRows \/ FlushRows \/ Settle \/ FlushState
  BY <1>4 DEF Rollover, FlushDay, CompareRows, FlushRows, Settle, FlushState, FlushThen,
     Figures, Market, Readings, Counters, memory, broker, world, faults
<1>5. ASSUME NEW s \in Sessions, Close(s), UNCHANGED unread PROVE Figures'
  BY <1>5 DEF Close, NothingSeen, Zero, Whole, Figures, Market, Readings, Counters, broker, world
<1>6. ASSUME NEW s \in Sessions, Count(s) PROVE Figures'
  BY <1>6 DEF Count, Figures, Market, Readings, Counters, memory, broker, world, faults
<1>7. ASSUME NEW c \in Closers, CloseOne(c) PROVE Figures'
  <2>1. CASE UNCHANGED <<asked, broker>>
    BY <1>7, <2>1 DEF CloseOne, Figures, Market, Readings, Counters, broker, world, faults
  <2>2. CASE /\ ~(volume[FirstOf(c)] = 0 \/ TooSmall(c, FirstOf(c)))
             /\ BrokerClosesUnits(FirstOf(c), Asks(c, FirstOf(c)))
             /\ asked' = [asked EXCEPT ![c] = Asks(c, FirstOf(c))]
    <3>1. FirstOf(c) \in Positions
      BY <1>7 DEF CloseOne, FirstOf, Access, Shape
    <3>2. Asks(c, FirstOf(c)) \in 1..volume[FirstOf(c)] /\ volume[FirstOf(c)] \in 0..Whole
      BY <2>2, <3>1, AsksKnown DEF Figures, Market
    <3>3. Market' /\ late' \in Nat
      BY <2>2, <3>1, <3>2, BrokerEffect
    <3>4. asked' \in [Closers -> 0..Whole]
      BY <2>2, <3>2 DEF Figures, Whole
    <3> QED BY <1>7, <3>3, <3>4 DEF CloseOne, Figures, Readings, Counters, world, faults
  <2> QED BY <1>7, <2>1, <2>2 DEF CloseOne
<1>8. ASSUME NEW c \in Closers,
             BeginFollowUp(c) \/ BeginRequest(c) \/ Record(c) \/ FlushRecord(c)
             \/ Recorded(c) \/ Suspend(c)
      PROVE  Figures'
  BY <1>8 DEF BeginFollowUp, BeginRequest, Record, FlushRecord, Recorded, Suspend, FlushThen,
     Figures, Market, Readings, Counters, memory, broker, world, faults
<1>9. CASE Outside
  <2>1. ASSUME NEW k \in Positions, BrokerCloses(k) PROVE Figures'
    <3>1. BrokerClosesUnits(k, volume[k]) /\ volume[k] \in 0..volume[k]
      BY <2>1 DEF BrokerCloses, Figures, Market, Whole
    <3>2. Market' /\ late' \in Nat
      BY <3>1, BrokerEffect
    <3> QED BY <2>1, <3>2 DEF BrokerCloses, Figures, Readings, Counters, memory, world, faults
  <2>2. ASSUME NEW k \in Positions, PriceMoves(k) \/ DealsShown(k) PROVE Figures'
    BY <2>2, MoneyAssumption DEF PriceMoves, DealsShown, Figures, Market, Readings, Counters,
       memory, world, faults
  <2>3. CASE MoneyMoves \/ Midnight \/ Resume
    BY <2>3, MoneyAssumption DEF MoneyMoves, Midnight, Resume, Figures, Market, Readings,
       Counters, memory, broker, faults
  <2> QED BY <1>9, <2>1, <2>2, <2>3 DEF Outside
<1>10. CASE UNCHANGED vars
  BY <1>10 DEF vars, Figures, Market, Readings, Counters, memory, broker, world, faults
<1>11. ASSUME NEW s \in Sessions, Commit(s) \/ Abort(s) PROVE Figures'
  BY <1>5, <1>11 DEF Commit, Abort, faults
<1> QED BY <1>1, <1>2, <1>3, <1>4, <1>6, <1>7, <1>8, <1>9, <1>10, <1>11
     DEF Next, MonitorStep, CloserStep

\* The day begins with such figures.
LEMMA FiguresInit ==
    ASSUME Init
    PROVE  Figures /\ RowVolumes
<1>1. Cardinality(Positions) \in Nat
  BY FS_CardinalityType, PositionsAssumption
<1>2. Figures
  BY <1>1, MoneyAssumption DEF Init, Figures, Market, Readings, Counters, NothingSeen, Zero, Whole
<1>3. RowVolumes
  <2>1. \A k \in Positions : <<k, "volume">> \in Columns
    BY ColumnsKnown DEF RowFields
  <2>2. \A k \in Positions : table[<<k, "volume">>] \in 0..Whole
    <3> SUFFICES ASSUME NEW k \in Positions PROVE table[<<k, "volume">>] \in 0..Whole
      OBVIOUS
    <3>1. table[<<k, "volume">>] =
             IF k = "ledger" THEN OpeningLedger(Start)["volume"] ELSE OpeningRow["volume"]
      BY <2>1 DEF Init
    <3> QED BY <3>1, PositionsAssumption DEF OpeningRow, Whole
  <2> QED BY <2>1, <2>2 DEF Init, RowVolumes, NothingWritten
<1> QED BY <1>2, <1>3

-----------------------------------------------------------------------------
(* A position recorded as closed is gone at the broker.                    *)

RowsKept ==
    /\ \A s \in Sessions, k \in Positions, f \in RowFields :
          writes'[s][<<k, f>>] = writes[s][<<k, f>>]
    /\ \A k \in Positions, f \in RowFields : table'[<<k, f>>] = table[<<k, f>>]
SessionEnds(s) == Close(s) /\ (table' = table \/ (Publish(s) /\ pc[s] = "commit"))

\* Rows are written by the comparison of the monitor, by the record of a
\* closer, and by the ends of sessions; nothing else touches them.
LEMMA RowsMove ==
    ASSUME Access, [Next]_vars
    PROVE  \/ \E s \in Sessions : SessionEnds(s)
           \/ CompareRows
           \/ \E c \in Closers : Record(c)
           \/ RowsKept
<1> USE SessionsAssumption DEF Sessions, Access
<1>1. ASSUME NEW s \in Sessions, Commit(s) \/ Abort(s) PROVE SessionEnds(s)
  BY <1>1 DEF Commit, Abort, SessionEnds
<1>2. CASE BeginCycle \/ FlushDay \/ Snapshot \/ Unreadable \/ FlushRows \/ FlushState
  BY <1>2 DEF BeginCycle, FlushDay, Snapshot, Unreadable, FlushRows, FlushState, FlushThen,
     database, RowsKept
<1>3. ASSUME NEW s \in Sessions, NEW fields, DOMAIN fields \subseteq LedgerFields,
             Assign(s, LedgerColumns(fields)), table' = table
      PROVE  RowsKept
  <2>1. \A f \in RowFields : f \notin DOMAIN fields
    BY <1>3, ColumnsKnown
  <2>2. /\ \A r \in Sessions : r # s => writes'[r] = writes[r]
        /\ \A k \in Positions, f \in RowFields : writes'[s][<<k, f>>] = writes[s][<<k, f>>]
    BY <1>3, <2>1, LedgerEffect
  <2> QED BY <1>3, <2>2 DEF RowsKept
<1>4. CASE Rollover
  <2>1. CASE UNCHANGED writes
    BY <1>4, <2>1 DEF Rollover, RowsKept
  <2>2. CASE Assign(Monitor, LedgerColumns(
                    [day |-> today, start |-> seen.cash, realized |-> 0,
                     peak |-> Null]))
    BY <1>3, <1>4, <2>2 DEF Rollover, LedgerFields
  <2> QED BY <1>4, <2>1, <2>2 DEF Rollover
<1>5. CASE Settle
  <2>1. CASE UNCHANGED writes
    BY <1>5, <2>1 DEF Settle, RowsKept
  <2>2. ASSUME NEW a, NEW b, Assign(Monitor, LedgerColumns([start |-> a, peak |-> b]))
        PROVE  RowsKept
    BY <1>3, <1>5, <2>2 DEF Settle, LedgerFields
  <2> QED BY <1>5, <2>1, <2>2 DEF Settle
<1>6. ASSUME NEW s \in Sessions, Count(s) PROVE RowsKept
  <2>1. ASSUME NEW a, NEW b, NEW d,
               Assign(s, LedgerColumns([realized |-> a, losses |-> b, paused |-> d]))
        PROVE  RowsKept
    BY <1>3, <1>6, <2>1 DEF Count, LedgerFields
  <2> QED BY <1>6, <2>1 DEF Count, ApplyClosedTrades
<1>7. ASSUME NEW c \in Closers, Suspend(c) PROVE RowsKept
  <2>1. CASE UNCHANGED writes
    BY <1>7, <2>1 DEF Suspend, RowsKept
  <2>2. CASE Assign(c, LedgerColumns([paused |-> TRUE]))
    BY <1>3, <1>7, <2>2 DEF Suspend, LedgerFields
  <2> QED BY <1>7, <2>1, <2>2 DEF Suspend
<1>8. ASSUME NEW c \in Closers,
             BeginFollowUp(c) \/ BeginRequest(c) \/ CloseOne(c) \/ FlushRecord(c) \/ Recorded(c)
      PROVE  RowsKept
  BY <1>8 DEF BeginFollowUp, BeginRequest, CloseOne, FlushRecord, Recorded, FlushThen,
     database, RowsKept
<1>9. CASE Outside
  <2>1. UNCHANGED writes /\ (table' = table
           \/ table' = [table EXCEPT ![<<"ledger", "paused">>] = FALSE])
    BY <1>9 DEF Outside, PriceMoves, BrokerCloses, DealsShown, MoneyMoves, Midnight,
       Resume, database
  <2>2. \A k \in Positions, f \in RowFields : <<k, f>> # <<"ledger", "paused">>
    BY DEF RowFields
  <2> QED BY <2>1, <2>2, ColumnsKnown DEF RowsKept, Shape
<1>10. CASE UNCHANGED vars
  BY <1>10 DEF vars, database, RowsKept
<1> QED BY <1>1, <1>2, <1>4, <1>5, <1>6, <1>7, <1>8, <1>9, <1>10
     DEF Next, MonitorStep, CloserStep

\* What the end of a session does to rows.
LEMMA EndsRows ==
    ASSUME Access, NEW s \in Sessions, SessionEnds(s)
    PROVE  /\ \A k \in Positions, f \in RowFields :
                 /\ writes'[s][<<k, f>>] = Untouched
                 /\ table'[<<k, f>>] \in {table[<<k, f>>], Row(s, k, f)}
           /\ \A r \in Sessions : r # s => writes'[r] = writes[r]
           /\ writer # s => \A col \in Columns : table'[col] = table[col]
<1>1. Close(s) /\ Clean(s)' /\ \A r \in Sessions : r # s => writes'[r] = writes[r]
  BY CloseEffect DEF SessionEnds, Access
<1>2. \A k \in Positions, f \in RowFields :
          /\ writes'[s][<<k, f>>] = Untouched
          /\ table'[<<k, f>>] \in {table[<<k, f>>], Row(s, k, f)}
  BY <1>1, ColumnsKnown, PublishEffect DEF SessionEnds, Access, Clean, Row
<1>3. writer # s => \A col \in Columns : table'[col] = table[col]
  BY PublishEffect DEF SessionEnds, Access, WriterHeld, HeldBy, ToFlush
<1> QED BY <1>1, <1>2, <1>3

\* What a record of a closer writes.
RecordLeft(c) == IF KindOf[c] = "emergency" \/ Row(c, FirstOf(c), "volume") <= asked[c]
                 THEN 0 ELSE Row(c, FirstOf(c), "volume") - asked[c]
\* The record of a closer changes the row of its position only.
LEMMA RecordEffect ==
    ASSUME Access, NEW c \in Closers, Record(c)
    PROVE  /\ FirstOf(c) \in Positions
           /\ table' = table
           /\ \A r \in Sessions : r # c => writes'[r] = writes[r]
           /\ \A l \in Positions, f \in RowFields :
                 l # FirstOf(c) => writes'[c][<<l, f>>] = writes[c][<<l, f>>]
           /\ writes'[c][<<FirstOf(c), "volume">>] \in
                 {RecordLeft(c), writes[c][<<FirstOf(c), "volume">>]}
           /\ writes'[c][<<FirstOf(c), "state">>] \in
                 {IF RecordLeft(c) = 0 THEN "closed" ELSE "partial",
                  writes[c][<<FirstOf(c), "state">>]}
<1>0. FirstOf(c) \in Positions /\ c \in Sessions
  BY DEF Record, FirstOf, Access, Shape, Sessions
<1>1. PICK fields : /\ DOMAIN fields = {"volume", "result", "state"}
                    /\ fields["volume"] = RecordLeft(c)
                    /\ fields["state"] = IF RecordLeft(c) = 0 THEN "closed" ELSE "partial"
                    /\ Assign(c, RowColumns(FirstOf(c), fields))
  <2>1. ASSUME NEW a PROVE
        LET fields == [volume |-> RecordLeft(c), result |-> a,
                       state |-> IF RecordLeft(c) = 0 THEN "closed" ELSE "partial"]
        IN  /\ DOMAIN fields = {"volume", "result", "state"}
            /\ fields["volume"] = RecordLeft(c)
            /\ fields["state"] = IF RecordLeft(c) = 0 THEN "closed" ELSE "partial"
    OBVIOUS
  <2>2. \E a : Assign(c, RowColumns(FirstOf(c),
              [volume |-> RecordLeft(c), result |-> a,
               state |-> IF RecordLeft(c) = 0 THEN "closed" ELSE "partial"]))
    BY DEF Record, RecordLeft
  <2> QED BY <2>1, <2>2
<1>2. DOMAIN fields \subseteq RowFields
  BY <1>1 DEF RowFields
<1>3. /\ \A r \in Sessions : r # c => writes'[r] = writes[r]
      /\ \A f \in RowFields : writes'[c][<<FirstOf(c), f>>] =
            IF f \in DOMAIN fields /\ fields[f] # Row(c, FirstOf(c), f)
            THEN fields[f] ELSE writes[c][<<FirstOf(c), f>>]
      /\ \A l \in Positions, f \in RowFields :
            l # FirstOf(c) => writes'[c][<<l, f>>] = writes[c][<<l, f>>]
  <2> DEFINE k == FirstOf(c)
  <2>1. k \in Positions /\ Assign(c, RowColumns(k, fields))
    BY <1>0, <1>1
  <2> HIDE DEF k
  <2>2. /\ \A r \in Sessions : r # c => writes'[r] = writes[r]
        /\ \A f \in RowFields : writes'[c][<<k, f>>] =
              IF f \in DOMAIN fields /\ fields[f] # Row(c, k, f)
              THEN fields[f] ELSE writes[c][<<k, f>>]
        /\ \A l \in Positions, f \in RowFields :
              l # k => writes'[c][<<l, f>>] = writes[c][<<l, f>>]
    BY <1>0, <1>2, <2>1, RowEffect DEF Access
  <2> QED BY <2>2 DEF k
<1>4. table' = table
  BY DEF Record
<1> QED BY <1>0, <1>1, <1>3, <1>4 DEF RowFields

\* Every step keeps the volumes of the rows within a position's.
LEMMA RowVolumesStep ==
    ASSUME Figures, RowVolumes, Access, [Next]_vars
    PROVE  RowVolumes'
<1> DEFINE V == (0..Whole) \union {Untouched}
<1>0. /\ \A s \in Sessions, k \in Positions : Row(s, k, "volume") \in 0..Whole
      /\ "volume" \in RowFields /\ Monitor \in Sessions
  BY RowVolumeKnown DEF RowFields, Sessions
<1>1. ASSUME NEW s \in Sessions, SessionEnds(s) PROVE RowVolumes'
  BY <1>0, <1>1, EndsRows DEF RowVolumes
<1>2. CASE CompareRows
  <2>1. \A k \in Positions : Compared(k).volume \in 0..Whole
    BY <1>0 DEF Compared, Figures, Readings
  <2>2. \A k \in Positions : writes'[Monitor][<<k, "volume">>] \in
            {Compared(k).volume, writes[Monitor][<<k, "volume">>]}
    BY <1>0, <1>2, CompareEffect DEF Access
  <2>3. table' = table /\ \A r \in Sessions : r # Monitor => writes'[r] = writes[r]
    BY <1>2, CompareEffect DEF CompareRows, Access
  <2> QED BY <2>1, <2>2, <2>3 DEF RowVolumes
<1>3. ASSUME NEW c \in Closers, Record(c) PROVE RowVolumes'
  <2>1. FirstOf(c) \in Positions /\ c \in Sessions
    BY <1>3, RecordEffect DEF Sessions
  <2>2. Row(c, FirstOf(c), "volume") \in 0..Whole /\ asked[c] \in 0..Whole
    BY <1>0, <2>1 DEF Figures
  <2>3. RecordLeft(c) \in 0..Whole
    BY <2>2 DEF RecordLeft, Whole
  <2> DEFINE first == FirstOf(c)
  <2>4. /\ table' = table
        /\ \A r \in Sessions : r # c => writes'[r] = writes[r]
        /\ \A l \in Positions : l # first =>
              writes'[c][<<l, "volume">>] = writes[c][<<l, "volume">>]
        /\ writes'[c][<<first, "volume">>] \in
              {RecordLeft(c), writes[c][<<first, "volume">>]}
    BY <1>0, <1>3, RecordEffect
  <2> HIDE DEF first
  <2>5. \A l \in Positions : writes'[c][<<l, "volume">>] \in (0..Whole) \union {Untouched}
    <3> TAKE l \in Positions
    <3>1. CASE l = first
      BY <2>1, <2>3, <2>4, <3>1 DEF RowVolumes
    <3>2. CASE l # first
      BY <2>1, <2>4, <3>2 DEF RowVolumes
    <3> QED BY <3>1, <3>2
  <2> QED BY <2>4, <2>5 DEF RowVolumes
<1>4. CASE RowsKept
  BY <1>0, <1>4 DEF RowsKept, RowVolumes
<1> QED BY <1>1, <1>2, <1>3, <1>4, RowsMove

\* What is gone at the broker stays so.
LEMMA VolumesShrink ==
    ASSUME Figures, RowVolumes, Access, [Next]_vars
    PROVE  \A k \in Positions : volume[k] = 0 => volume'[k] = 0
<1>1. ASSUME NEW k \in Positions, NEW n \in 0..volume[k], BrokerClosesUnits(k, n)
      PROVE  \A l \in Positions : volume[l] = 0 => volume'[l] = 0
  <2>1. volume[k] \in 0..2 /\ volume'[k] = volume[k] - n
    BY <1>1, BrokerEffect DEF Figures, Market, Whole
  <2>2. volume[k] = 0 => volume'[k] = 0
    <3> DEFINE v == volume[k]
    <3> SUFFICES ASSUME v = 0 PROVE volume'[k] = 0
      OBVIOUS
    <3>1. n \in 0..v /\ v \in 0..2
      BY <1>1, <2>1
    <3> HIDE DEF v
    <3>2. n = 0
      BY <3>1
    <3> QED BY <2>1, <3>2 DEF v
  <2> QED BY <1>1, <2>2, BrokerEffect
<1>2. ASSUME NEW c \in Closers, CloseOne(c)
      PROVE  \A l \in Positions : volume[l] = 0 => volume'[l] = 0
  <2>1. CASE volume' = volume
    <3> TAKE l \in Positions
    <3>1. volume'[l] = volume[l]
      BY <2>1
    <3> QED BY <3>1
  <2>2. CASE /\ ~(volume[FirstOf(c)] = 0 \/ TooSmall(c, FirstOf(c)))
             /\ BrokerClosesUnits(FirstOf(c), Asks(c, FirstOf(c)))
    <3>1. FirstOf(c) \in Positions
      BY <1>2, SessionsAssumption DEF CloseOne, FirstOf, Access, Shape, Sessions
    <3>2. Asks(c, FirstOf(c)) \in 1..volume[FirstOf(c)] /\ volume[FirstOf(c)] \in 0..2
      BY <2>2, <3>1, AsksKnown DEF Figures, Market, Whole
    <3>3. Asks(c, FirstOf(c)) \in 0..volume[FirstOf(c)]
      BY <3>2
    <3> QED BY <1>1, <2>2, <3>1, <3>3
  <2> QED BY <1>2, <2>1, <2>2 DEF CloseOne, broker
<1>3. ASSUME NEW k \in Positions, BrokerCloses(k)
      PROVE  \A l \in Positions : volume[l] = 0 => volume'[l] = 0
  <2>1. volume[k] \in 0..volume[k]
    BY DEF Figures, Market, Whole
  <2> QED BY <1>1, <1>3, <2>1 DEF BrokerCloses
<1>4. \/ \E c \in Closers : CloseOne(c)
      \/ \E k \in Positions : BrokerCloses(k)
      \/ volume' = volume
  BY DEF Next, MonitorStep, CloserStep, Outside, BeginCycle, Rollover, FlushDay, Snapshot,
     Unreadable, CompareRows, FlushRows, Count, Settle, FlushState, FlushThen, Commit, Close,
     BeginFollowUp, BeginRequest, Record, FlushRecord, Recorded, Suspend, Abort, PriceMoves,
     DealsShown, MoneyMoves, Midnight, Resume, broker, vars
<1> QED BY <1>2, <1>3, <1>4

\* The monitor compares rows with its own reading, until it ends.
LEMMA MonitorReads ==
    ASSUME Access, [Next]_vars, pc'[Monitor] = "rows"
    PROVE  Snapshot \/ (pc[Monitor] = "rows" /\ seen' = seen)
<1> USE SessionsAssumption DEF Sessions, Access, Shape
<1>1. CASE MonitorStep
  BY <1>1 DEF MonitorStep, BeginCycle, Rollover, FlushDay, Unreadable, CompareRows, FlushRows,
     Count, Settle, FlushState, FlushThen, Commit, Close, Goto
<1>2. ASSUME NEW c \in Closers, CloserStep(c) PROVE seen' = seen /\ pc'[Monitor] = pc[Monitor]
  <2>1. c # Monitor
    OBVIOUS
  <2> QED BY <1>2, <2>1 DEF CloserStep, BeginFollowUp, BeginRequest, CloseOne, Record, FlushRecord,
     Recorded, Count, Suspend, FlushThen, Commit, Close, Goto
<1>3. ASSUME NEW s \in Sessions, Abort(s)
      PROVE  s # Monitor /\ seen' = seen /\ pc'[Monitor] = pc[Monitor]
  BY <1>3 DEF Abort, Close, Goto
<1>4. CASE Outside \/ UNCHANGED vars
  BY <1>4 DEF Outside, PriceMoves, BrokerCloses, DealsShown, MoneyMoves, Midnight, Resume, vars
<1> QED BY <1>1, <1>2, <1>3, <1>4 DEF Next

\* A closer records what it has just closed, and what it reads of the row is
\* the same as long as it holds the writer.
LEMMA CloserRecords ==
    ASSUME Access, PauseInv, Figures, Access', [Next]_vars, NEW c \in Closers,
           pc'[c] = "record"
    PROVE  \/ CloseOne(c) /\ pc[c] = "close"
           \/ /\ pc[c] = "record" /\ FirstOf(c)' = FirstOf(c) /\ asked'[c] = asked[c]
              /\ writes'[c] = writes[c]
              /\ writer = c => \A k \in Positions, f \in RowFields :
                                   table'[<<k, f>>] = table[<<k, f>>]
<1> USE SessionsAssumption DEF Sessions
<1>0. c \in Sessions /\ c # Monitor
  OBVIOUS
<1>1. CASE MonitorStep
  <2>1. writes'[c] = writes[c] /\ (writer = c => \A col \in Columns : table'[col] = table[col])
    BY <1>0, <1>1, PauseMonitor
  <2>2. pc'[c] = pc[c] /\ todo'[c] = todo[c] /\ asked' = asked
    BY <1>0, <1>1 DEF MonitorStep, BeginCycle, Rollover, FlushDay, Snapshot, Unreadable, CompareRows,
       FlushRows, Count, Settle, FlushState, FlushThen, Commit, Close, Goto, memory, Access, Shape
  <2> QED BY <2>1, <2>2, ColumnsKnown DEF FirstOf
<1>2. ASSUME NEW d \in Closers, CloserStep(d), d # c
      PROVE  /\ pc[c] = "record" /\ FirstOf(c)' = FirstOf(c) /\ asked'[c] = asked[c]
             /\ writes'[c] = writes[c]
             /\ writer = c => \A k \in Positions, f \in RowFields :
                                   table'[<<k, f>>] = table[<<k, f>>]
  <2>1. writes'[c] = writes[c] /\ (writer = c => \A col \in Columns : table'[col] = table[col])
    BY <1>0, <1>2, PauseCloser
  <2>2. pc'[c] = pc[c] /\ todo'[c] = todo[c] /\ asked'[c] = asked[c]
    BY <1>0, <1>2 DEF CloserStep, BeginFollowUp, BeginRequest, CloseOne, Record, FlushRecord,
       Recorded, Count, Suspend, FlushThen, Commit, Close, Goto, memory, Access, Shape, Figures
  <2> QED BY <2>1, <2>2, ColumnsKnown DEF FirstOf
<1>3. CASE CloserStep(c)
  BY <1>0, <1>3 DEF CloserStep, BeginFollowUp, BeginRequest, CloseOne, Record, FlushRecord,
     Recorded, Count, LastStep, Suspend, FlushThen, Commit, Close, Goto, Access, Shape
<1>4. ASSUME NEW s \in Sessions, Abort(s)
      PROVE  /\ pc[c] = "record" /\ FirstOf(c)' = FirstOf(c) /\ asked'[c] = asked[c]
             /\ writes'[c] = writes[c] /\ table' = table
  <2>1. s # c /\ pc'[c] = pc[c] /\ todo'[c] = todo[c]
    BY <1>0, <1>4 DEF Abort, Close, Goto, Access, Shape
  <2> QED BY <1>4, <2>1, CloseEffect DEF Abort, FirstOf, Access, Close
<1>5. CASE Outside \/ UNCHANGED vars
  <2>1. /\ UNCHANGED <<pc, todo, asked, writes>>
        /\ table' = table \/ writer = Nobody
    BY <1>5 DEF Outside, PriceMoves, BrokerCloses, DealsShown, MoneyMoves, Midnight, Resume,
       vars, memory, database
  <2> QED BY <2>1 DEF FirstOf
<1> QED BY <1>1, <1>2, <1>3, <1>4, <1>5 DEF Next

\* Every step keeps the closed rows those of positions that are gone.
LEMMA GoneStep ==
    ASSUME ManualIsWhole, GoneInv, Figures, RowVolumes, Access, PauseInv, Access', [Next]_vars
    PROVE  GoneInv'
<1> USE SessionsAssumption DEF Sessions
<1>0. \A k \in Positions : volume[k] = 0 => volume'[k] = 0
  BY VolumesShrink
<1>00. "state" \in RowFields /\ "volume" \in RowFields /\ Monitor \in Sessions
  BY DEF RowFields
<1> DEFINE Rows == /\ \A k \in Positions : table[<<k, "state">>] = "closed" => volume[k] = 0
                   /\ \A s \in Sessions, k \in Positions :
                         writes[s][<<k, "state">>] = "closed" => volume[k] = 0
<1>1. Rows'
  <2>0. Rows
    BY DEF GoneInv, ClosedRows
  <2>1. ASSUME NEW s \in Sessions, SessionEnds(s) PROVE Rows'
    <3>1. \A k \in Positions : Row(s, k, "state") = "closed" => volume[k] = 0
      BY <2>0 DEF Row, See
    <3> QED BY <1>0, <1>00, <2>0, <2>1, <3>1, EndsRows, ColumnsAssumption
  <2>2. CASE CompareRows
    <3>1. \A k \in Positions : writes'[Monitor][<<k, "state">>] = "closed" =>
              \/ writes[Monitor][<<k, "state">>] = "closed"
              \/ k \notin seen.live
      BY <1>00, <2>2, CompareEffect DEF Compared, Access
    <3>2. pc[Monitor] = "rows" /\ table' = table
      BY <2>2 DEF CompareRows
    <3>3. \A r \in Sessions : r # Monitor => writes'[r] = writes[r]
      BY <2>2, CompareEffect DEF Access
    <3> QED BY <1>0, <2>0, <3>1, <3>2, <3>3 DEF GoneInv
  <2>3. ASSUME NEW c \in Closers, Record(c) PROVE Rows'
    <3> DEFINE first == FirstOf(c)
    <3>1. first \in Positions /\ pc[c] = "record"
      BY <2>3, RecordEffect DEF Record
    <3>2. Row(c, first, "volume") \in 0..Whole /\ asked[c] \in 0..Whole
      BY <3>1, RowVolumeKnown DEF Figures
    <3>3. RecordLeft(c) = 0 => volume[first] = 0
      <4>1. CASE PartialOf[c]
        BY <3>1, <3>2, <4>1, KindsAssumption DEF GoneInv, RecordLeft, Whole
      <4>2. CASE ~PartialOf[c]
        BY <3>1, <4>2 DEF GoneInv
      <4> QED BY <4>1, <4>2
    <3>4. /\ table' = table
          /\ \A r \in Sessions : r # c => writes'[r] = writes[r]
          /\ \A l \in Positions : l # first =>
                writes'[c][<<l, "state">>] = writes[c][<<l, "state">>]
          /\ writes'[c][<<first, "state">>] \in
                {IF RecordLeft(c) = 0 THEN "closed" ELSE "partial",
                 writes[c][<<first, "state">>]}
      BY <1>00, <2>3, RecordEffect
    <3> HIDE DEF first
    <3>5. \A l \in Positions : writes'[c][<<l, "state">>] = "closed" => volume'[l] = 0
      <4> TAKE l \in Positions
      <4>1. CASE l = first
        BY <1>0, <2>0, <3>1, <3>3, <3>4, <4>1
      <4>2. CASE l # first
        BY <1>0, <2>0, <3>4, <4>2
      <4> QED BY <4>1, <4>2
    <3> QED BY <1>0, <2>0, <3>4, <3>5
  <2>4. CASE RowsKept
    BY <1>0, <1>00, <2>0, <2>4 DEF RowsKept
  <2> QED BY <2>1, <2>2, <2>3, <2>4, RowsMove
<1>2. ASSUME pc'[Monitor] = "rows" PROVE \A k \in Positions \ seen'.live : volume'[k] = 0
  <2>1. CASE Snapshot
    BY <2>1 DEF Snapshot, Figures, Market, Readings, Whole, broker
  <2>2. CASE pc[Monitor] = "rows" /\ seen' = seen
    BY <1>0, <2>2 DEF GoneInv
  <2> QED BY <1>2, <2>1, <2>2, MonitorReads
<1>3. ASSUME NEW c \in Closers, pc'[c] = "record"
      PROVE  IF PartialOf[c] THEN asked'[c] < Row(c, FirstOf(c), "volume")'
             ELSE volume'[FirstOf(c)'] = 0
  <2>0. c \in Sessions /\ c # Monitor /\ (PartialOf[c] => KindOf[c] = "follow")
    BY KindsAssumption DEF ManualIsWhole
  <2>1. CASE CloseOne(c) /\ pc[c] = "close"
    <3> DEFINE k == FirstOf(c)
    <3>1. k \in Positions
      BY <2>1 DEF CloseOne, FirstOf, Access, Shape
    <3>2. /\ volume[k] # 0 /\ ~TooSmall(c, k)
          /\ BrokerClosesUnits(k, Asks(c, k))
          /\ asked' = [asked EXCEPT ![c] = Asks(c, k)]
          /\ UNCHANGED <<todo, writes, table>>
      BY <1>3, <2>1 DEF CloseOne, database
    <3>3. FirstOf(c)' = k /\ Row(c, k, "volume")' = Row(c, k, "volume")
      BY <3>2 DEF FirstOf, Row, See
    <3>4. asked'[c] = Asks(c, k)
      BY <3>2 DEF Figures
    <3> HIDE DEF k
    <3>5. /\ Asks(c, k) \in 1..volume[k] /\ volume[k] \in 0..2
          /\ ~PartialOf[c] => Asks(c, k) = volume[k]
          /\ PartialOf[c] => Asks(c, k) < Row(c, k, "volume")
      BY <2>0, <3>1, <3>2, AsksKnown DEF Figures, Market, Whole
    <3>6. Asks(c, k) \in 0..volume[k]
      BY <3>5
    <3>7. volume'[k] = volume[k] - Asks(c, k)
      BY <3>1, <3>2, <3>6, BrokerEffect
    <3>8. CASE PartialOf[c]
      <4>1. Row(c, FirstOf(c), "volume")' = Row(c, k, "volume")
        BY <3>2, <3>3 DEF Row, See
      <4> QED BY <3>4, <3>5, <3>8, <4>1
    <3>9. CASE ~PartialOf[c]
      BY <3>3, <3>5, <3>7, <3>9
    <3> QED BY <3>8, <3>9
  <2>2. CASE /\ pc[c] = "record" /\ FirstOf(c)' = FirstOf(c) /\ asked'[c] = asked[c]
             /\ writes'[c] = writes[c]
             /\ writer = c => \A k \in Positions, f \in RowFields :
                                  table'[<<k, f>>] = table[<<k, f>>]
    <3>1. FirstOf(c) \in Positions
      BY <2>0, <2>2 DEF FirstOf, Access, Shape
    <3>2. CASE PartialOf[c]
      <4>1. writer = c
        BY <2>0, <2>2, <3>2 DEF Access, WriterHeld, HeldBy, Unwritten
      <4>2. Row(c, FirstOf(c), "volume")' = Row(c, FirstOf(c), "volume")
        BY <1>00, <2>2, <3>1, <4>1 DEF Row, See
      <4> QED BY <2>2, <3>2, <4>2 DEF GoneInv
    <3>3. CASE ~PartialOf[c]
      BY <1>0, <2>2, <3>1, <3>3 DEF GoneInv
    <3> QED BY <3>2, <3>3
  <2> QED BY <1>3, <2>1, <2>2, CloserRecords
<1> QED BY <1>1, <1>2, <1>3 DEF GoneInv, ClosedRows

\* No row is closed at first.
LEMMA GoneInit ==
    ASSUME Init
    PROVE  GoneInv
<1>1. \A k \in Positions : <<k, "state">> \in Columns
  BY ColumnsKnown DEF RowFields
<1>2. \A k \in Positions : table[<<k, "state">>] = "open"
  <2> SUFFICES ASSUME NEW k \in Positions PROVE table[<<k, "state">>] = "open"
    OBVIOUS
  <2>1. table[<<k, "state">>] =
           IF k = "ledger" THEN OpeningLedger(Start)["state"] ELSE OpeningRow["state"]
    BY <1>1 DEF Init
  <2> QED BY <2>1, PositionsAssumption DEF OpeningRow
<1> QED BY <1>1, <1>2, SessionsAssumption, ColumnsAssumption
    DEF Init, GoneInv, ClosedRows, NothingWritten, Sessions

\* A position recorded as closed has no volume left at the broker, whoever
\* records it, whatever the terminal answers and however sessions end.
THEOREM ClosedStaysClosed ==
    ASSUME ManualIsWhole
    PROVE  Spec => []ClosedIsGone
<1> DEFINE IInv == Access /\ PauseInv /\ Figures /\ RowVolumes /\ GoneInv
<1>1. Init => IInv
  BY AccessInit, PauseInit, FiguresInit, GoneInit
<1>2. IInv /\ [Next]_vars => IInv'
  BY AccessStep, PauseStep, FiguresStep, RowVolumesStep, GoneStep
<1>3. IInv => ClosedIsGone
  BY DEF GoneInv, ClosedIsGone
<1> QED BY <1>1, <1>2, <1>3, PTL DEF Spec

-----------------------------------------------------------------------------
(* The monitor alone: the counter of the day follows the rows.             *)

\* Once a request has begun it never counts as not begun again: a step that
\* leaves the monitor alone is one of the monitor or of the outside.
LEMMA AloneStep ==
    ASSUME Access, [Next]_vars, OnlyMonitor'
    PROVE  /\ OnlyMonitor
           /\ MonitorStep \/ Abort(Monitor) \/ Outside \/ UNCHANGED vars
<1> USE SessionsAssumption DEF Sessions, Access, Shape, OnlyMonitor
<1>1. ASSUME NEW c \in Closers, CloserStep(c) PROVE pc'[c] # "idle"
  BY <1>1 DEF CloserStep, BeginFollowUp, BeginRequest, CloseOne, Record, FlushRecord,
     Recorded, Count, LastStep, Suspend, FlushThen, Commit, Close, Goto
<1>2. ASSUME NEW c \in Closers, Abort(c) PROVE pc'[c] # "idle"
  <2>1. pc'[c] = "done"
    BY <1>2 DEF Abort, Close, Goto
  <2> QED BY <2>1
<1>3. ASSUME MonitorStep \/ Abort(Monitor) \/ Outside \/ UNCHANGED vars PROVE OnlyMonitor
  <2>1. \A c \in Closers : pc'[c] = pc[c]
    BY <1>3 DEF MonitorStep, BeginCycle, Rollover, FlushDay, Snapshot, Unreadable, CompareRows,
       FlushRows, Count, Settle, FlushState, FlushThen, Commit, Close, Goto, Abort,
       Outside, PriceMoves, BrokerCloses, DealsShown, MoneyMoves, Midnight, Resume, vars
  <2> QED BY <2>1
<1> QED BY <1>1, <1>2, <1>3 DEF Next

SeenFields == {"state", "result", "profit"}

\* After the comparison the monitor reads what it compared.
LEMMA ComparedSeen ==
    ASSUME Access, Readings, RowFigures, CompareRows
    PROVE  \A k \in Positions, f \in SeenFields :
              Row(Monitor, k, f)' = IF k \in OpenRows(Monitor) THEN Compared(k)[f]
                                    ELSE Row(Monitor, k, f)
<1> SUFFICES ASSUME NEW k \in Positions, NEW f \in SeenFields
             PROVE  Row(Monitor, k, f)' = IF k \in OpenRows(Monitor) THEN Compared(k)[f]
                                          ELSE Row(Monitor, k, f)
  OBVIOUS
<1>1. Compared(k).result \in Int /\ Compared(k).profit \in Int /\ Compared(k).state \in States
  BY DEF RowFigures, Readings, Compared, ResultFromDeals, States
<1>2. Compared(k)[f] # Untouched
  BY <1>1, ColumnsAssumption DEF SeenFields, States, Compared
<1>3. writes'[Monitor][<<k, f>>] =
         IF k \in OpenRows(Monitor) /\ Compared(k)[f] # Row(Monitor, k, f)
         THEN Compared(k)[f] ELSE writes[Monitor][<<k, f>>]
  BY CompareEffect DEF Access, SeenFields, RowFields
<1>4. table' = table
  BY DEF CompareRows
<1> QED BY <1>2, <1>3, <1>4 DEF Row, See

\* With the monitor alone, every step keeps the rows of their types and the
\* closed ones untouched.
LEMMA RowFiguresStep ==
    ASSUME Access, Figures, RowFigures, OnlyMonitor, [Next]_vars, OnlyMonitor'
    PROVE  RowFigures'
<1> USE SessionsAssumption DEF Sessions
<1>0. MonitorStep \/ Abort(Monitor) \/ Outside \/ UNCHANGED vars
  BY AloneStep
<1>1. \A k \in Positions : volume'[k] \in {0, Whole}
  <2>1. ASSUME NEW k \in Positions, BrokerCloses(k) PROVE \A l \in Positions : volume'[l] \in {0, Whole}
    <3>1. volume' = [volume EXCEPT ![k] = @ - volume[k]] /\ volume[k] - volume[k] = 0
      BY <2>1 DEF BrokerCloses, BrokerClosesUnits, Figures, Market, Whole
    <3> QED BY <3>1 DEF RowFigures, Figures, Market
  <2>2. (\E k \in Positions : BrokerCloses(k)) \/ volume' = volume
    BY <1>0 DEF MonitorStep, Outside, BeginCycle, Rollover, FlushDay, Snapshot,
       Unreadable, CompareRows, FlushRows, Count, Settle, FlushState, FlushThen, Commit, Close,
       Abort, PriceMoves, DealsShown, MoneyMoves, Midnight, Resume, broker, vars
  <2> QED BY <2>1, <2>2 DEF RowFigures
<1>2. CASE CompareRows
  <2>1. \A k \in Positions : Compared(k).result \in Int /\ Compared(k).profit \in Int
                             /\ Compared(k).state \in States
    BY DEF RowFigures, Figures, Readings, Compared, ResultFromDeals, States
  <2>2. \A k \in Positions : /\ Row(Monitor, k, "state")' \in States
                             /\ Row(Monitor, k, "result")' \in Int
                             /\ Row(Monitor, k, "profit")' \in Int
    BY <1>2, <2>1, ComparedSeen DEF Figures, SeenFields, RowFigures
  <2>3. table' = table /\ ClosedRows' = ClosedRows
    BY <1>2 DEF CompareRows, ClosedRows
  <2>4. \A k \in ClosedRows : k \notin OpenRows(Monitor)
    BY DEF ClosedRows, OpenRows, Row, See, RowFigures, RowFields
  <2>5. \A k \in ClosedRows, f \in RowFields : writes'[Monitor][<<k, f>>] = Untouched
    <3>1. \A k \in Positions, f \in RowFields : k \notin OpenRows(Monitor) =>
              writes'[Monitor][<<k, f>>] = writes[Monitor][<<k, f>>]
      BY <1>2, CompareEffect DEF Access
    <3>2. \A k \in ClosedRows, f \in RowFields : writes[Monitor][<<k, f>>] = Untouched
      BY DEF RowFigures, ClosedRows
    <3> QED BY <2>4, <3>1, <3>2 DEF ClosedRows
  <2>6. found'[Monitor] = [k \in OpenRows(Monitor) \ seen.live |-> Compared(k).result]
    BY <1>2, CompareEffect DEF Access, Shape
  <2>7. /\ DOMAIN found'[Monitor] \subseteq Positions
        /\ found'[Monitor] \in [DOMAIN found'[Monitor] -> Int]
    BY <2>1, <2>6 DEF OpenRows
  <2> QED BY <1>1, <2>2, <2>3, <2>5, <2>7 DEF RowFigures
<1>3. CASE SessionEnds(Monitor)
  <2>1. \A k \in Positions, f \in RowFields :
            /\ writes'[Monitor][<<k, f>>] = Untouched
            /\ table'[<<k, f>>] \in {table[<<k, f>>], Row(Monitor, k, f)}
    BY <1>3, EndsRows
  <2>2. \A k \in Positions : /\ table'[<<k, "state">>] \in States
                             /\ table'[<<k, "result">>] \in Int
                             /\ table'[<<k, "profit">>] \in Int
    BY <2>1 DEF RowFigures, RowFields
  <2>3. \A k \in Positions, f \in RowFields : Row(Monitor, k, f)' = table'[<<k, f>>]
    BY <2>1 DEF Row, See
  <2>4. found'[Monitor] = NoneClosed
    BY <1>3, CloseEffect DEF SessionEnds, Access
  <2>5. /\ DOMAIN found'[Monitor] \subseteq Positions
        /\ found'[Monitor] \in [DOMAIN found'[Monitor] -> Int]
    BY <2>4 DEF NoneClosed
  <2> QED BY <1>1, <2>1, <2>2, <2>3, <2>5 DEF RowFigures, RowFields, ClosedRows
<1>4. CASE RowsKept /\ ~CompareRows /\ ~SessionEnds(Monitor)
  <2>1. found' = found
    <3>1. ~Commit(Monitor) /\ ~Abort(Monitor)
      BY <1>4 DEF Commit, Abort, SessionEnds
    <3> QED BY <1>0, <1>4, <3>1 DEF MonitorStep, BeginCycle, Rollover, FlushDay, Snapshot,
       Unreadable, FlushRows, Count, Settle, FlushState, FlushThen, memory,
       Outside, PriceMoves, BrokerCloses, DealsShown, MoneyMoves, Midnight, Resume, vars
  <2>2. \A k \in Positions, f \in RowFields : /\ Row(Monitor, k, f)' = Row(Monitor, k, f)
                                              /\ table'[<<k, f>>] = table[<<k, f>>]
                                              /\ writes'[Monitor][<<k, f>>] = writes[Monitor][<<k, f>>]
    BY <1>4 DEF RowsKept, Row, See
  <2> QED BY <1>1, <2>1, <2>2 DEF RowFigures, RowFields, ClosedRows
<1>5. ASSUME NEW c \in Closers PROVE ~Record(c)
  BY DEF OnlyMonitor, Record
<1>6. ASSUME NEW s \in Sessions, SessionEnds(s) PROVE s = Monitor
  <2>1. s # Monitor => pc'[s] = "done"
    BY <1>6, CloseEffect DEF SessionEnds, Access
  <2> QED BY <2>1 DEF OnlyMonitor
<1> QED BY <1>2, <1>3, <1>4, <1>5, <1>6, RowsMove

\* What the monitor reads of the rows is what is committed: then so are the
\* closures and their results.
LEMMA SeenIsCommitted ==
    ASSUME \A k \in Positions : Row(Monitor, k, "state") = table[<<k, "state">>],
           \A k \in ClosedRows : /\ Row(Monitor, k, "result") = table[<<k, "result">>]
                                 /\ Row(Monitor, k, "profit") = table[<<k, "profit">>]
    PROVE  SeenClosed = ClosedRows /\ Total(SeenResults, SeenClosed) = RealizedByRows
<1>1. SeenClosed = ClosedRows
  BY DEF SeenClosed, ClosedRows
<1>2. SeenResults = [k \in ClosedRows |-> CommittedResult(k)]
  BY <1>1 DEF SeenResults, ResultOf, CommittedResult
<1> QED BY <1>1, <1>2 DEF RealizedByRows

\* Before the comparison, and after one that found nothing, what it reads is
\* what is committed.
LEMMA NothingFound ==
    ASSUME RowFigures, RealizedKept,
           \/ pc[Monitor] \in Beginning
           \/ pc[Monitor] \in Counting /\ found[Monitor] = NoneClosed
    PROVE  /\ Total(SeenResults, SeenClosed) = RealizedByRows
           /\ Ledger(Monitor, "realized") = RealizedByRows
<1>1. Ledger(Monitor, "realized") = RealizedByRows
  BY DEF RealizedKept, Ledger, See, Committed
<1>2. \A k \in ClosedRows : /\ Row(Monitor, k, "state") = table[<<k, "state">>]
                            /\ Row(Monitor, k, "result") = table[<<k, "result">>]
                            /\ Row(Monitor, k, "profit") = table[<<k, "profit">>]
  BY DEF RowFigures, ClosedRows, Row, See, RowFields
<1>3. CASE pc[Monitor] \in Beginning
  <2>1. \A k \in Positions : Row(Monitor, k, "state") = table[<<k, "state">>]
    BY <1>3 DEF RealizedKept, Row, See, RowFields
  <2> QED BY <1>1, <1>2, <2>1, SeenIsCommitted
<1>4. CASE pc[Monitor] \in Counting /\ found[Monitor] = NoneClosed
  <2>1. SeenClosed \ ClosedRows = {}
    BY <1>4 DEF RealizedKept, NoneClosed
  <2>2. SeenClosed = ClosedRows
    BY <1>2, <2>1 DEF SeenClosed, ClosedRows
  <2>3. SeenResults = [k \in ClosedRows |-> CommittedResult(k)]
    BY <1>2, <2>2 DEF SeenResults, ResultOf, CommittedResult
  <2> QED BY <1>1, <2>2, <2>3 DEF RealizedByRows
<1> QED BY <1>3, <1>4

\* Counting what was found adds up to the closures the monitor reads.
LEMMA CountAdds ==
    ASSUME RowFigures, RealizedKept, pc[Monitor] \in Counting
    PROVE  /\ Ledger(Monitor, "realized") + Total(found[Monitor], DOMAIN found[Monitor])
                = Total(SeenResults, SeenClosed)
           /\ Total(SeenResults, SeenClosed) \in Int
<1> DEFINE new == DOMAIN found[Monitor]
<1>1. new = SeenClosed \ ClosedRows /\ \A k \in new : found[Monitor][k] = SeenResults[k]
  BY DEF RealizedKept, SeenResults
<1>2. /\ IsFiniteSet(SeenClosed) /\ IsFiniteSet(ClosedRows) /\ IsFiniteSet(new)
      /\ ClosedRows \subseteq SeenClosed
  <2>1. ClosedRows \subseteq SeenClosed
    BY DEF SeenClosed, ClosedRows, RowFigures, Row, See, RowFields
  <2>2. SeenClosed \in SUBSET Positions /\ ClosedRows \in SUBSET Positions /\ new \in SUBSET Positions
    BY <1>1 DEF SeenClosed, ClosedRows
  <2> HIDE DEF new
  <2> QED BY <2>1, <2>2, FS_Subset, PositionsAssumption
<1>3. \A k \in SeenClosed : SeenResults[k] \in Int
  BY DEF SeenResults, SeenClosed, ResultOf, RowFigures
<1>4. \A k \in ClosedRows : SeenResults[k] = CommittedResult(k)
  <2>1. \A k \in ClosedRows : k \in SeenClosed
    BY <1>2
  <2> QED BY <2>1 DEF SeenResults, ClosedRows, ResultOf, CommittedResult, RowFigures, Row, See, RowFields
<1> HIDE DEF new
<1>5. Total(found[Monitor], new) = Total(SeenResults, new)
  <2>1. \A k \in new : found[Monitor][k] \in Int /\ found[Monitor][k] = SeenResults[k]
    BY <1>1, <1>3
  <2> DEFINE a == found[Monitor]
  <2>2. \A k \in new : a[k] \in Int /\ a[k] = SeenResults[k]
    BY <2>1
  <2> HIDE DEF a
  <2>3. Total(a, new) = Total(SeenResults, new)
    BY <1>2, <2>2, TotalSame
  <2> QED BY <2>3 DEF a
<1>6. RealizedByRows = Total(SeenResults, ClosedRows)
  <2> DEFINE b == [k \in ClosedRows |-> CommittedResult(k)]
  <2>1. \A k \in ClosedRows : b[k] \in Int /\ b[k] = SeenResults[k]
    BY <1>2, <1>3, <1>4
  <2> HIDE DEF b
  <2>2. Total(b, ClosedRows) = Total(SeenResults, ClosedRows)
    BY <1>2, <2>1, TotalSame
  <2> QED BY <2>2 DEF b, RealizedByRows
<1>7. ClosedRows \union new = SeenClosed /\ ClosedRows \intersect new = {}
  BY <1>1, <1>2
<1>8. Total(SeenResults, SeenClosed) = Total(SeenResults, ClosedRows) + Total(SeenResults, new)
  <2>1. \A k \in ClosedRows \union new : SeenResults[k] \in Int
    BY <1>3, <1>7
  <2> QED BY <1>2, <1>7, <2>1, TotalUnion
<1>9. Ledger(Monitor, "realized") = RealizedByRows
  BY DEF RealizedKept, Ledger, See, Committed
<1>10. Total(SeenResults, SeenClosed) \in Int
  BY <1>2, <1>3, TotalType
<1> QED BY <1>5, <1>6, <1>8, <1>9, <1>10 DEF new

\* A step that leaves the rows, the counter and what was found alone, within a
\* part of the cycle.
Groups == {Beginning, Counting, Counted}
\* A step that touches neither rows nor the counter keeps their equality.
LEMMA RealizedMove ==
    ASSUME RowFigures, RealizedKept, RowsKept, found'[Monitor] = found[Monitor],
           writes'[Monitor][<<"ledger", "realized">>] = writes[Monitor][<<"ledger", "realized">>],
           table'[<<"ledger", "realized">>] = table[<<"ledger", "realized">>],
           NEW G \in Groups, pc[Monitor] \in G, pc'[Monitor] \in G
    PROVE  RealizedKept'
<1>1. \A k \in Positions, f \in RowFields :
          /\ Row(Monitor, k, f)' = Row(Monitor, k, f)
          /\ table'[<<k, f>>] = table[<<k, f>>]
          /\ writes'[Monitor][<<k, f>>] = writes[Monitor][<<k, f>>]
  BY SessionsAssumption DEF RowsKept, Row, See, Sessions
<1>2. /\ ClosedRows' = ClosedRows /\ SeenClosed' = SeenClosed
      /\ \A k \in Positions : /\ CommittedResult(k)' = CommittedResult(k)
                              /\ ResultOf(Monitor, k)' = ResultOf(Monitor, k)
  BY <1>1 DEF ClosedRows, SeenClosed, CommittedResult, ResultOf, RowFields
<1>3. SeenResults' = SeenResults
      /\ [k \in ClosedRows |-> CommittedResult(k)]' = [k \in ClosedRows |-> CommittedResult(k)]
  BY <1>2 DEF SeenResults, SeenClosed, ClosedRows
<1>4. RealizedByRows' = RealizedByRows
      /\ Total(SeenResults, SeenClosed)' = Total(SeenResults, SeenClosed)
  <2>1. RealizedByRows' = Total([k \in ClosedRows |-> CommittedResult(k)]', ClosedRows')
    BY DEF RealizedByRows
  <2>2. Total(SeenResults, SeenClosed)' = Total(SeenResults', SeenClosed')
    OBVIOUS
  <2> QED BY <1>2, <1>3, <2>1, <2>2 DEF RealizedByRows
<1>5. Ledger(Monitor, "realized")' = Ledger(Monitor, "realized")
      /\ Committed("realized")' = Committed("realized")
  BY DEF Ledger, See, Committed
<1>6. /\ pc'[Monitor] \in Beginning <=> pc[Monitor] \in Beginning
      /\ pc'[Monitor] \in Counting <=> pc[Monitor] \in Counting
      /\ pc'[Monitor] \in Counted <=> pc[Monitor] \in Counted
  BY DEF Groups, Beginning, Counting, Counted
<1> QED BY <1>1, <1>2, <1>4, <1>5, <1>6, SessionsAssumption DEF RealizedKept, SeenClosed

\* The end of the monitor's session publishes rows and counter together, or
\* neither.
LEMMA EndKeepsCount ==
    ASSUME Access, RowFigures, SameDay, RealizedKept, SessionEnds(Monitor)
    PROVE  SameDay' /\ RealizedKept'
<1>0. <<"ledger", "day">> \in Columns /\ <<"ledger", "realized">> \in Columns
  BY ColumnsKnown DEF LedgerFields
<1>1. /\ Clean(Monitor)' /\ pc'[Monitor] = "sleep" /\ found'[Monitor] = NoneClosed
  BY SessionsAssumption, CloseEffect DEF SessionEnds, Access, Sessions
<1>2. CASE table' = table
  <2>1. RealizedByRows' = RealizedByRows /\ Committed("realized")' = Committed("realized")
    BY <1>2 DEF RealizedByRows, ClosedRows, CommittedResult, Committed
  <2> QED BY <1>0, <1>1, <1>2, <2>1, ColumnsKnown
          DEF SameDay, RealizedKept, Clean, Committed, Beginning, Counting, Counted
<1>3. CASE Publish(Monitor) /\ pc[Monitor] = "commit"
  <2>1. \A col \in Columns : table'[col] = See(Monitor, col)
    BY <1>3, SessionsAssumption, PublishEffect DEF Access, Sessions
  <2>2. ClosedRows' = SeenClosed
    BY <2>1, ColumnsKnown DEF ClosedRows, SeenClosed, Row, RowFields
  <2>3. \A k \in Positions : CommittedResult(k)' = ResultOf(Monitor, k)
    BY <2>1, ColumnsKnown DEF CommittedResult, ResultOf, Row, RowFields
  <2>4. [k \in ClosedRows |-> CommittedResult(k)]' = SeenResults
    BY <2>2, <2>3 DEF SeenResults, SeenClosed, ClosedRows
  <2>5. RealizedByRows' = Total([k \in ClosedRows |-> CommittedResult(k)]', ClosedRows')
    BY DEF RealizedByRows
  <2>6. Committed("realized")' = Total(SeenResults, SeenClosed)
    BY <1>0, <1>3, <2>1 DEF Committed, RealizedKept, Counted, Ledger
  <2>7. Committed("realized")' = RealizedByRows'
    BY <2>2, <2>4, <2>5, <2>6
  <2>8. Committed("day")' = 0
    BY <1>0, <2>1 DEF Committed, SameDay, See
  <2> QED BY <1>0, <1>1, <2>7, <2>8, ColumnsKnown
          DEF SameDay, RealizedKept, Clean, Beginning, Counting, Counted
<1> QED BY <1>2, <1>3 DEF SessionEnds

\* The comparison finds exactly the closures that are not counted yet.
LEMMA CompareKeepsCount ==
    ASSUME Access, Readings, RowFigures, SameDay, RealizedKept, CompareRows
    PROVE  SameDay' /\ RealizedKept'
<1>0. /\ pc[Monitor] = "rows" /\ table' = table /\ Monitor \in Sessions
      /\ pc' = [pc EXCEPT ![Monitor] = IF OpenRows(Monitor) = {} THEN "settle" ELSE "flushRows"]
  BY DEF CompareRows, Goto, Sessions
<1>1. pc'[Monitor] = IF OpenRows(Monitor) = {} THEN "settle" ELSE "flushRows"
  BY <1>0 DEF Access, Shape
<1>2. /\ writes'[Monitor][<<"ledger", "day">>] = writes[Monitor][<<"ledger", "day">>]
      /\ writes'[Monitor][<<"ledger", "realized">>] = writes[Monitor][<<"ledger", "realized">>]
  BY CompareEffect DEF Access, LedgerFields
<1>3. SameDay'
  BY <1>0, <1>1, <1>2 DEF SameDay, Committed
<1>4. /\ Committed("realized")' = Committed("realized") /\ RealizedByRows' = RealizedByRows
      /\ ClosedRows' = ClosedRows
  BY <1>0 DEF Committed, RealizedByRows, ClosedRows, CommittedResult
<1>5. CASE OpenRows(Monitor) # {}
  <2>1. \A k \in Positions, f \in SeenFields :
            Row(Monitor, k, f)' = IF k \in OpenRows(Monitor) THEN Compared(k)[f]
                                  ELSE Row(Monitor, k, f)
    BY ComparedSeen
  <2>2. \A k \in Positions : Row(Monitor, k, "state") = table[<<k, "state">>]
    BY <1>0 DEF RealizedKept, Beginning, Row, See, RowFields
  <2>3. ClosedRows \intersect OpenRows(Monitor) = {}
        /\ Positions = ClosedRows \union OpenRows(Monitor)
    BY <2>2 DEF ClosedRows, OpenRows, RowFigures, States
  <2> DEFINE new == OpenRows(Monitor) \ seen.live
  <2>4. \A k \in Positions : Row(Monitor, k, "state")' = "closed" <=> k \in ClosedRows \union new
    BY <2>1, <2>2, <2>3 DEF SeenFields, Compared, ClosedRows, OpenRows
  <2>5. SeenClosed' \ ClosedRows' = new
    BY <1>4, <2>3, <2>4 DEF SeenClosed, OpenRows
  <2>6. found'[Monitor] = [k \in new |-> Compared(k).result]
    BY <1>0, CompareEffect DEF Access, Shape
  <2>7. \A k \in new : ResultOf(Monitor, k)' = Compared(k).result
    <3> TAKE k \in new
    <3>1. k \in Positions /\ k \in OpenRows(Monitor)
      BY DEF OpenRows
    <3>2. Row(Monitor, k, "result")' = Compared(k).result
          /\ Row(Monitor, k, "profit")' = Compared(k).profit
      BY <2>1, <3>1 DEF SeenFields, Compared
    <3>3. Compared(k).result = 0 => Compared(k).profit = 0
      BY DEF Compared, ResultFromDeals
    <3> QED BY <3>2, <3>3 DEF ResultOf
  <2> HIDE DEF new
  <2> QED BY <1>1, <1>2, <1>3, <1>4, <1>5, <2>5, <2>6, <2>7, <1>0
          DEF RealizedKept, Beginning, Counting, Counted
<1>6. CASE OpenRows(Monitor) = {}
  <2>1. \A k \in Positions, f \in RowFields :
            writes'[Monitor][<<k, f>>] = writes[Monitor][<<k, f>>]
    BY <1>6, CompareEffect DEF Access
  <2>2. \A k \in Positions, f \in RowFields : Row(Monitor, k, f)' = Row(Monitor, k, f)
    BY <1>0, <2>1 DEF Row, See
  <2>3. Ledger(Monitor, "realized")' = Ledger(Monitor, "realized")
    BY <1>0, <1>2 DEF Ledger, See
  <2>4. SeenClosed' = SeenClosed /\ \A k \in Positions : ResultOf(Monitor, k)' = ResultOf(Monitor, k)
    BY <2>2 DEF SeenClosed, ResultOf, RowFields
  <2>5. SeenResults' = SeenResults
    BY <2>4 DEF SeenResults, SeenClosed
  <2>6. Total(SeenResults, SeenClosed)' = Total(SeenResults', SeenClosed')
    OBVIOUS
  <2>7. Ledger(Monitor, "realized")' = Total(SeenResults, SeenClosed)'
    BY <1>0, <2>3, <2>4, <2>5, <2>6, NothingFound DEF Beginning
  <2> QED BY <1>1, <1>3, <1>4, <1>6, <2>7 DEF RealizedKept, Beginning, Counting, Counted
<1> QED BY <1>5, <1>6

\* Every step of the day keeps the counter equal to the closed rows.
LEMMA CountStep ==
    ASSUME Access, Figures, RowFigures, SameDay, RealizedKept, OnlyMonitor, today = 0,
           [Next]_vars, OnlyMonitor', today' = 0
    PROVE  SameDay' /\ RealizedKept'
<1> USE SessionsAssumption DEF Sessions
<1>0. MonitorStep \/ Abort(Monitor) \/ Outside \/ UNCHANGED vars
  BY AloneStep
<1>1. /\ Monitor \in Sessions /\ "day" \in LedgerFields /\ "realized" \in LedgerFields
      /\ Beginning \in Groups /\ Counting \in Groups /\ Counted \in Groups
  BY DEF LedgerFields, Groups
<1> DEFINE LedgerSame ==
        /\ writes'[Monitor][<<"ledger", "day">>] = writes[Monitor][<<"ledger", "day">>]
        /\ writes'[Monitor][<<"ledger", "realized">>] = writes[Monitor][<<"ledger", "realized">>]
        /\ table'[<<"ledger", "day">>] = table[<<"ledger", "day">>]
        /\ table'[<<"ledger", "realized">>] = table[<<"ledger", "realized">>]
<1>2. ASSUME LedgerSame, RowsKept, found'[Monitor] = found[Monitor], NEW G \in Groups,
             pc[Monitor] \in G, pc'[Monitor] \in G, pc'[Monitor] # "flushDay"
      PROVE  SameDay' /\ RealizedKept'
  BY <1>2, RealizedMove DEF SameDay, Committed
<1>3. CASE BeginCycle \/ Snapshot
  <2>1. LedgerSame /\ RowsKept /\ found' = found
    BY <1>3 DEF BeginCycle, Snapshot, database, memory, RowsKept
  <2>2. pc[Monitor] \in Beginning /\ pc'[Monitor] \in Beginning /\ pc'[Monitor] # "flushDay"
    BY <1>3 DEF BeginCycle, Snapshot, Goto, Access, Shape, Beginning
  <2> QED BY <1>1, <1>2, <2>1, <2>2
<1>4. CASE Rollover
  <2>1. Ledger(Monitor, "day") = today
    BY DEF SameDay, Ledger, See, Committed
  <2>2. UNCHANGED <<table, writes, found>> /\ Goto(Monitor, "snapshot")
    BY <1>4, <2>1 DEF Rollover, memory
  <2>3. LedgerSame /\ RowsKept
    BY <2>2 DEF RowsKept
  <2>4. pc[Monitor] \in Beginning /\ pc'[Monitor] \in Beginning /\ pc'[Monitor] # "flushDay"
    BY <1>4, <2>2 DEF Rollover, Goto, Access, Shape, Beginning
  <2> QED BY <1>1, <1>2, <2>2, <2>3, <2>4
<1>5. CASE FlushDay
  BY <1>5 DEF FlushDay, SameDay
<1>6. CASE Unreadable
  <2>1. UNCHANGED <<table, writes, found>> /\ pc'[Monitor] = "settle" /\ pc[Monitor] = "snapshot"
    BY <1>6 DEF Unreadable, Goto, Access, Shape, database, memory
  <2>2. \A k \in Positions : /\ Row(Monitor, k, "state")' = Row(Monitor, k, "state")
                             /\ ResultOf(Monitor, k)' = ResultOf(Monitor, k)
    BY <2>1 DEF Row, See, ResultOf
  <2>3. SeenClosed' = SeenClosed
    BY <2>2 DEF SeenClosed
  <2>4. SeenResults' = SeenResults
    BY <2>2, <2>3 DEF SeenResults, SeenClosed
  <2>5. Total(SeenResults, SeenClosed)' = Total(SeenResults', SeenClosed')
    OBVIOUS
  <2>6. Ledger(Monitor, "realized")' = Ledger(Monitor, "realized")
        /\ Committed("realized")' = Committed("realized") /\ RealizedByRows' = RealizedByRows
    BY <2>1 DEF Ledger, See, Committed, RealizedByRows, ClosedRows, CommittedResult
  <2>7. Ledger(Monitor, "realized")' = Total(SeenResults, SeenClosed)'
    BY <2>1, <2>3, <2>4, <2>5, <2>6, NothingFound DEF Beginning
  <2> QED BY <2>1, <2>6, <2>7 DEF SameDay, Committed, RealizedKept, Beginning, Counting, Counted
<1>7. CASE CompareRows
  BY <1>7, CompareKeepsCount DEF Figures
<1>8. CASE FlushRows
  <2>1. /\ UNCHANGED <<table, writes, found>> /\ pc[Monitor] = "flushRows"
        /\ pc'[Monitor] = IF found[Monitor] = NoneClosed THEN "settle" ELSE "count"
    BY <1>8 DEF FlushRows, FlushThen, Goto, Access, Shape, memory
  <2>2. CASE found[Monitor] # NoneClosed
    <3>1. LedgerSame /\ RowsKept
      BY <2>1 DEF RowsKept
    <3>2. pc[Monitor] \in Counting /\ pc'[Monitor] \in Counting /\ pc'[Monitor] # "flushDay"
      BY <2>1, <2>2 DEF Counting
    <3> QED BY <1>1, <1>2, <2>1, <3>1, <3>2
  <2>3. CASE found[Monitor] = NoneClosed
    <3>2. \A k \in Positions : /\ Row(Monitor, k, "state")' = Row(Monitor, k, "state")
                               /\ ResultOf(Monitor, k)' = ResultOf(Monitor, k)
      BY <2>1 DEF Row, See, ResultOf
    <3>3. SeenClosed' = SeenClosed
      BY <3>2 DEF SeenClosed
    <3>4. SeenResults' = SeenResults
      BY <3>2, <3>3 DEF SeenResults, SeenClosed
    <3>5. Total(SeenResults, SeenClosed)' = Total(SeenResults', SeenClosed')
      OBVIOUS
    <3>6. Ledger(Monitor, "realized")' = Ledger(Monitor, "realized")
          /\ Committed("realized")' = Committed("realized") /\ RealizedByRows' = RealizedByRows
      BY <2>1 DEF Ledger, See, Committed, RealizedByRows, ClosedRows, CommittedResult
    <3>7. Ledger(Monitor, "realized")' = Total(SeenResults, SeenClosed)'
      BY <2>1, <2>3, <3>3, <3>4, <3>5, <3>6, NothingFound DEF Counting
    <3> QED BY <2>1, <2>3, <3>6, <3>7 DEF SameDay, Committed, RealizedKept, Beginning, Counting, Counted
  <2> QED BY <2>2, <2>3
<1>9. CASE Count(Monitor)
  <2> DEFINE sum == Ledger(Monitor, "realized") + Total(found[Monitor], DOMAIN found[Monitor])
  <2>1. PICK b, d : Assign(Monitor, LedgerColumns([realized |-> sum, losses |-> b, paused |-> d]))
    BY <1>9 DEF Count, ApplyClosedTrades
  <2>2. /\ pc[Monitor] = "count" /\ pc'[Monitor] = "settle" /\ UNCHANGED <<table, found>>
    BY <1>9 DEF Count, Goto, Access, Shape, memory
  <2>3. sum = Total(SeenResults, SeenClosed) /\ sum \in Int
    BY <2>2, CountAdds DEF Counting
  <2> HIDE DEF sum
  <2> DEFINE fields == [realized |-> sum, losses |-> b, paused |-> d]
  <2>4. /\ DOMAIN fields = {"realized", "losses", "paused"} /\ fields["realized"] = sum
        /\ Assign(Monitor, LedgerColumns(fields))
    BY <2>1
  <2> HIDE DEF fields
  <2>5. /\ writes'[Monitor][<<"ledger", "realized">>] =
              IF sum # Ledger(Monitor, "realized") THEN sum
              ELSE writes[Monitor][<<"ledger", "realized">>]
        /\ writes'[Monitor][<<"ledger", "day">>] = writes[Monitor][<<"ledger", "day">>]
        /\ \A k \in Positions, f \in RowFields :
              writes'[Monitor][<<k, f>>] = writes[Monitor][<<k, f>>]
    BY <1>1, <2>4, LedgerEffect DEF Access, RowFields
  <2>6. Ledger(Monitor, "realized")' = sum
    BY <2>2, <2>3, <2>5, ColumnsAssumption DEF Ledger, See
  <2>7. /\ SeenClosed' = SeenClosed
        /\ \A k \in Positions : ResultOf(Monitor, k)' = ResultOf(Monitor, k)
    BY <2>2, <2>5 DEF SeenClosed, Row, See, ResultOf, RowFields
  <2>8. SeenResults' = SeenResults
    BY <2>7 DEF SeenResults, SeenClosed
  <2>9. Total(SeenResults, SeenClosed)' = Total(SeenResults', SeenClosed')
    OBVIOUS
  <2>10. Committed("realized")' = Committed("realized") /\ RealizedByRows' = RealizedByRows
    BY <2>2 DEF Committed, RealizedByRows, ClosedRows, CommittedResult
  <2> QED BY <2>2, <2>3, <2>5, <2>6, <2>7, <2>8, <2>9, <2>10
          DEF SameDay, Committed, RealizedKept, Beginning, Counting, Counted
<1>10. CASE Settle
  <2>1. /\ pc[Monitor] = "settle" /\ pc'[Monitor] \in {"commit", "flushState"}
        /\ UNCHANGED <<table, found>>
    BY <1>10 DEF Settle, Goto, Access, Shape, memory
  <2>2. LedgerSame /\ RowsKept
    <3>1. CASE UNCHANGED writes
      BY <2>1, <3>1 DEF RowsKept
    <3>2. ASSUME NEW a, NEW b, Assign(Monitor, LedgerColumns([start |-> a, peak |-> b]))
          PROVE  LedgerSame /\ RowsKept
      BY <1>1, <2>1, <3>2, LedgerEffect DEF Access, RowFields, RowsKept
    <3> QED BY <1>10, <3>1, <3>2 DEF Settle
  <2>3. pc[Monitor] \in Counted /\ pc'[Monitor] \in Counted /\ pc'[Monitor] # "flushDay"
    BY <2>1 DEF Counted
  <2> QED BY <1>1, <1>2, <2>1, <2>2, <2>3
<1>11. CASE FlushState
  <2>1. LedgerSame /\ RowsKept /\ found' = found
    BY <1>11 DEF FlushState, memory, RowsKept
  <2>2. pc[Monitor] \in Counted /\ pc'[Monitor] \in Counted /\ pc'[Monitor] # "flushDay"
    BY <1>11 DEF FlushState, Goto, Access, Shape, Counted
  <2> QED BY <1>1, <1>2, <2>1, <2>2
<1>12. CASE Commit(Monitor) \/ Abort(Monitor)
  BY <1>12, EndKeepsCount DEF Commit, Abort, SessionEnds
<1>13. CASE Outside \/ UNCHANGED vars
  <2>1. UNCHANGED <<writes, pc, found>> /\ (table' = table
           \/ table' = [table EXCEPT ![<<"ledger", "paused">>] = FALSE])
    BY <1>13 DEF Outside, PriceMoves, BrokerCloses, DealsShown, MoneyMoves, Midnight,
       Resume, database, memory, vars
  <2>2. \A k \in Positions, f \in RowFields : <<k, f>> # <<"ledger", "paused">>
    BY DEF RowFields
  <2>3. LedgerSame /\ RowsKept
    BY <1>1, <2>1, <2>2, ColumnsKnown DEF RowsKept, Access, Shape
  <2>4. pc[Monitor] \in Beginning \/ pc[Monitor] \in Counting \/ pc[Monitor] \in Counted
    BY DEF Access, Shape, MonitorSteps, Beginning, Counting, Counted, SameDay
  <2> QED BY <1>1, <1>2, <2>1, <2>3, <2>4 DEF SameDay
<1> QED BY <1>0, <1>3, <1>4, <1>5, <1>6, <1>7, <1>8, <1>9, <1>10, <1>11, <1>12, <1>13
     DEF MonitorStep

\* The rows and the ledger at the beginning of the day.
LEMMA RowsOpen ==
    ASSUME Init
    PROVE  /\ \A k \in Positions, f \in RowFields : table[<<k, f>>] = OpeningRow[f]
           /\ \A f \in LedgerFields : table[<<"ledger", f>>] = OpeningLedger(Start)[f]
           /\ \A s \in Sessions : Clean(s)
<1>1. \A k \in Positions, f \in RowFields : table[<<k, f>>] = OpeningRow[f]
  <2> SUFFICES ASSUME NEW k \in Positions, NEW f \in RowFields
               PROVE  table[<<k, f>>] = OpeningRow[f]
    OBVIOUS
  <2>1. table[<<k, f>>] = IF k = "ledger" THEN OpeningLedger(Start)[f] ELSE OpeningRow[f]
    BY ColumnsKnown DEF Init
  <2> QED BY <2>1, PositionsAssumption
<1>2. \A f \in LedgerFields : table[<<"ledger", f>>] = OpeningLedger(Start)[f]
  BY ColumnsKnown DEF Init
<1>3. \A s \in Sessions : Clean(s)
  BY DEF Init, Clean, NothingWritten
<1> QED BY <1>1, <1>2, <1>3

\* Nothing is closed and nothing counted at first.
LEMMA CountInit ==
    ASSUME Init
    PROVE  CountInv
<1> USE SessionsAssumption DEF Sessions
<1>1. \A k \in Positions : /\ table[<<k, "state">>] = "open" /\ table[<<k, "result">>] = 0
                           /\ table[<<k, "profit">>] = 0
                           /\ \A f \in RowFields : writes[Monitor][<<k, f>>] = Untouched
  BY RowsOpen, ColumnsKnown DEF RowFields, OpeningRow, Clean
<1>2. /\ table[<<"ledger", "day">>] = 0 /\ table[<<"ledger", "realized">>] = 0
      /\ writes[Monitor][<<"ledger", "day">>] = Untouched
      /\ writes[Monitor][<<"ledger", "realized">>] = Untouched
  BY RowsOpen, ColumnsKnown DEF LedgerFields, OpeningLedger, Clean
<1>3. /\ \A k \in Positions : volume[k] = Whole
      /\ pc[Monitor] = "sleep" /\ found[Monitor] = NoneClosed
  BY DEF Init
<1>4. RowFigures
  BY <1>1, <1>3 DEF RowFigures, Row, See, RowFields, States, NoneClosed, ClosedRows
<1>5. SameDay
  BY <1>2, <1>3 DEF SameDay, Committed
<1>6. ClosedRows = {}
  BY <1>1 DEF ClosedRows
<1>7. RealizedByRows = 0
  <2> DEFINE a == [k \in ClosedRows |-> CommittedResult(k)]
  <2> HIDE DEF a
  <2>1. Total(a, {}) = 0
    BY FS_EmptySet, TotalTakesOne
  <2> QED BY <1>6, <2>1 DEF RealizedByRows, a
<1>8. RealizedKept
  BY <1>1, <1>2, <1>3, <1>7 DEF RealizedKept, Committed, Beginning, Counting, Counted
<1> QED BY <1>4, <1>5, <1>8 DEF CountInv

\* Every step keeps the counter right, whoever makes it.
LEMMA CountInvStep ==
    ASSUME Access, Figures, CountInv, [Next]_vars
    PROVE  CountInv'
<1>1. OnlyMonitor' => RowFigures'
  BY AloneStep, RowFiguresStep DEF CountInv
<1>2. today' = 0 => today = 0
  <2>1. today' = today \/ today' = today + 1
    BY DEF Next, MonitorStep, CloserStep, Outside, BeginCycle, Rollover, FlushDay, Snapshot,
       Unreadable, CompareRows, FlushRows, Count, Settle, FlushState, FlushThen, Commit, Close,
       BeginFollowUp, BeginRequest, CloseOne, Record, FlushRecord, Recorded, Suspend, Abort,
       PriceMoves, BrokerCloses, DealsShown, MoneyMoves, Midnight, Resume, world, vars
  <2> QED BY <2>1 DEF Figures, Counters
<1>3. OnlyMonitor' /\ today' = 0 => SameDay' /\ RealizedKept'
  BY <1>2, AloneStep, CountStep DEF CountInv
<1> QED BY <1>1, <1>3 DEF CountInv

\* As long as only the monitor records closures, each reaches the realised
\* result of the day once, whatever the cycles, the readings that fail and the
\* sessions that are rolled back.
THEOREM ClosuresReachTheCounter == Spec => []CountedOnce
<1> DEFINE IInv == Access /\ Figures /\ RowVolumes /\ CountInv
<1>1. Init => IInv
  BY AccessInit, FiguresInit, CountInit
<1>2. IInv /\ [Next]_vars => IInv'
  BY AccessStep, FiguresStep, RowVolumesStep, CountInvStep
<1>3. IInv => CountedOnce
  BY DEF CountInv, RealizedKept, RealizedByRows, CountedOnce
<1> QED BY <1>1, <1>2, <1>3, PTL DEF Spec

-----------------------------------------------------------------------------
(* The result recorded is the one that was paid.                           *)

\* What was paid for a position moves only while it is open.
LEMMA DealsStep ==
    ASSUME Access, Figures, RowFigures, Deals, OnlyMonitor, [Next]_vars, OnlyMonitor'
    PROVE  /\ Deals'
           /\ \A k \in Positions : volume[k] = 0 => volume'[k] = 0 /\ paid'[k] = paid[k]
<1>1. ASSUME NEW k \in Positions, BrokerCloses(k)
      PROVE  /\ Deals'
             /\ \A l \in Positions : volume[l] = 0 => volume'[l] = 0 /\ paid'[l] = paid[l]
  <2>1. BrokerClosesUnits(k, volume[k]) /\ volume[k] \in 0..2 /\ volume[k] # 0
    BY <1>1 DEF BrokerCloses, Figures, Market, Whole
  <2>2. volume[k] \in 0..volume[k]
    BY <2>1
  <2>3. /\ volume'[k] = volume[k] - volume[k]
        /\ \A l \in Positions : l # k => /\ volume'[l] = volume[l]
                                         /\ paid'[l] = paid[l]
                                         /\ shown'[l] = shown[l]
        /\ \/ shown'[k] = paid'[k]
           \/ shown'[k] = shown[k] /\ late < MaxLate
    BY <2>1, <2>2, BrokerEffect
  <2>4. volume'[k] = 0
    BY <2>1, <2>3
  <2>5. shown[k] = -Fee
    BY <2>1 DEF Deals, Published
  <2>6. late < MaxLate => MaxLate # 0
    BY MoneyAssumption DEF Figures, Counters
  <2>7. \A l \in Positions : Published(l, shown[l])' /\ (volume'[l] # 0 => paid'[l] = -Fee)
    <3> TAKE l \in Positions
    <3>1. CASE l = k
      BY <2>3, <2>4, <2>5, <2>6, <3>1 DEF Published
    <3>2. CASE l # k
      BY <2>3, <3>2 DEF Published, Deals
    <3> QED BY <3>1, <3>2
  <2> QED BY <2>1, <2>3, <2>7 DEF Deals
<1>2. ASSUME NEW k \in Positions, DealsShown(k)
      PROVE  /\ Deals'
             /\ \A l \in Positions : volume[l] = 0 => volume'[l] = 0 /\ paid'[l] = paid[l]
  BY <1>2 DEF DealsShown, Deals, Published, Figures, Market
<1>3. CASE UNCHANGED <<volume, paid, shown>>
  BY <1>3 DEF Deals, Published
<1>4. \/ \E k \in Positions : BrokerCloses(k) \/ DealsShown(k)
      \/ UNCHANGED <<volume, paid, shown>>
  BY AloneStep DEF MonitorStep, Outside, BeginCycle, Rollover, FlushDay, Snapshot, Unreadable,
     CompareRows, FlushRows, Count, Settle, FlushState, FlushThen, Commit, Close, Abort,
     PriceMoves, MoneyMoves, Midnight, Resume, broker, vars
<1> QED BY <1>1, <1>2, <1>3, <1>4

\* Under the monitor alone: rows move by its comparison or the end of its session.
LEMMA AloneRows ==
    ASSUME Access, OnlyMonitor, [Next]_vars, OnlyMonitor'
    PROVE  SessionEnds(Monitor) \/ CompareRows \/ RowsKept
<1>1. ASSUME NEW c \in Closers PROVE ~Record(c)
  BY DEF OnlyMonitor, Record
<1>2. ASSUME NEW s \in Sessions, SessionEnds(s) PROVE s = Monitor
  <2>1. s # Monitor => pc'[s] = "done"
    BY <1>2, CloseEffect DEF SessionEnds, Access
  <2> QED BY <2>1, SessionsAssumption DEF OnlyMonitor, Sessions
<1> QED BY <1>1, <1>2, RowsMove

\* With the monitor alone, every step keeps the results true.
LEMMA TruthStep ==
    ASSUME EntryIsFree, Access, Figures, RowFigures, Deals, Truthful, OnlyMonitor,
           [Next]_vars, OnlyMonitor'
    PROVE  Truthful'
<1> USE SessionsAssumption DEF Sessions
<1>0. \A k \in Positions : volume[k] = 0 => volume'[k] = 0 /\ paid'[k] = paid[k]
  BY DealsStep
<1> DEFINE Told(k) ==
        Row(Monitor, k, "state") = "closed" =>
            /\ volume[k] = 0
            /\ Row(Monitor, k, "result") \in {paid[k], Row(Monitor, k, "profit")}
<1> DEFINE Kept(k) ==
        table[<<k, "state">>] = "closed" =>
            /\ volume[k] = 0
            /\ table[<<k, "result">>] \in {paid[k], table[<<k, "profit">>]}
<1>1. \A k \in Positions : Told(k)' /\ Kept(k)'
  <2>0. \A k \in Positions : Told(k) /\ Kept(k)
    BY DEF Truthful, ClosedRows
  <2>1. CASE RowsKept
    <3>1. \A k \in Positions, f \in RowFields : /\ Row(Monitor, k, f)' = Row(Monitor, k, f)
                                                /\ table'[<<k, f>>] = table[<<k, f>>]
      BY <2>1 DEF RowsKept, Row, See
    <3> QED BY <1>0, <2>0, <3>1 DEF RowFields
  <2>2. CASE SessionEnds(Monitor)
    <3>1. \A k \in Positions, f \in RowFields : writes'[Monitor][<<k, f>>] = Untouched
      BY <2>2, EndsRows
    <3>2. \A k \in Positions, f \in RowFields : Row(Monitor, k, f)' = table'[<<k, f>>]
      BY <3>1 DEF Row, See
    <3>3. \/ \A k \in Positions, f \in RowFields : table'[<<k, f>>] = table[<<k, f>>]
          \/ \A k \in Positions, f \in RowFields : table'[<<k, f>>] = Row(Monitor, k, f)
      BY <2>2, PublishEffect, ColumnsKnown DEF SessionEnds, Access, Row
    <3>4. \A k \in Positions : Kept(k)'
      BY <1>0, <2>0, <3>3 DEF RowFields
    <3> QED BY <3>2, <3>4 DEF RowFields
  <2>3. CASE CompareRows
    <3>1. \A k \in Positions, f \in SeenFields :
              Row(Monitor, k, f)' = IF k \in OpenRows(Monitor) THEN Compared(k)[f]
                                    ELSE Row(Monitor, k, f)
      BY <2>3, ComparedSeen DEF Figures
    <3>2. pc[Monitor] = "rows" /\ table' = table
      BY <2>3 DEF CompareRows
    <3>3. \A k \in OpenRows(Monitor) \ seen.live :
              /\ volume[k] = 0
              /\ Compared(k).result \in {paid[k], Compared(k).profit}
      <4> TAKE k \in OpenRows(Monitor) \ seen.live
      <4>1. k \in Positions \ seen.live
        BY DEF OpenRows
      <4>2. volume[k] = 0 /\ Published(k, seen.deals[k])
        BY <3>2, <4>1 DEF Truthful
      <4>3. seen.deals[k] # 0 => seen.deals[k] = paid[k]
        BY <4>2, MoneyAssumption DEF Published, EntryIsFree
      <4> QED BY <4>2, <4>3 DEF Compared, ResultFromDeals
    <3>4. \A k \in Positions : Told(k)'
      <4> SUFFICES ASSUME NEW k \in Positions PROVE Told(k)'
        OBVIOUS
      <4>1. CASE k \in OpenRows(Monitor) \ seen.live
        <5>1. /\ Row(Monitor, k, "result")' = Compared(k).result
              /\ Row(Monitor, k, "profit")' = Compared(k).profit
          BY <3>1, <4>1 DEF SeenFields, Compared
        <5> QED BY <1>0, <3>3, <4>1, <5>1
      <4>2. CASE k \in OpenRows(Monitor) /\ k \in seen.live
        <5>1. Row(Monitor, k, "state")' = Row(Monitor, k, "state")
          BY <3>1, <4>2 DEF SeenFields, Compared
        <5> QED BY <4>2, <5>1 DEF OpenRows
      <4>3. CASE k \notin OpenRows(Monitor)
        BY <1>0, <2>0, <3>1, <4>3 DEF SeenFields
      <4> QED BY <4>1, <4>2, <4>3
    <3>5. \A k \in Positions : Kept(k)'
      BY <1>0, <2>0, <3>2
    <3> QED BY <3>4, <3>5
  <2> QED BY <2>1, <2>2, <2>3, AloneRows
<1>2. ASSUME pc'[Monitor] = "rows"
      PROVE  \A k \in Positions \ seen'.live : volume'[k] = 0 /\ Published(k, seen.deals[k])'
  <2>1. CASE Snapshot
    BY <2>1 DEF Snapshot, Figures, Market, Readings, Whole, broker, Deals, Published
  <2>2. CASE pc[Monitor] = "rows" /\ seen' = seen
    BY <1>0, <2>2 DEF Truthful, Published
  <2> QED BY <1>2, <2>1, <2>2, MonitorReads
<1> QED BY <1>1, <1>2 DEF Truthful, ClosedRows

\* No result is recorded at first.
LEMMA TruthInit ==
    ASSUME Init
    PROVE  TruthInv
<1>1. \A k \in Positions : table[<<k, "state">>] = "open" /\ Row(Monitor, k, "state") = "open"
  BY RowsOpen, ColumnsKnown, SessionsAssumption DEF RowFields, OpeningRow, Clean, Row, See, Sessions
<1> QED BY <1>1, MoneyAssumption, SessionsAssumption
        DEF Init, TruthInv, Deals, Truthful, Published, ClosedRows, Sessions

\* The result the monitor records is what the broker paid or the last floating
\* profit, as long as the entry of a position costs nothing or its deals are
\* never late: the commission of the entry alone, published before the closing
\* deal, would pass for the result.
THEOREM ResultsArePaid ==
    ASSUME EntryIsFree
    PROVE  Spec => []ResultTrue
<1> DEFINE IInv == Access /\ Figures /\ RowVolumes /\ CountInv /\ TruthInv
<1>1. Init => IInv
  BY AccessInit, FiguresInit, CountInit, TruthInit
<1>2. Access /\ Figures /\ CountInv /\ TruthInv /\ [Next]_vars => TruthInv'
  BY AloneStep, DealsStep, TruthStep DEF CountInv, TruthInv
<1>3. IInv /\ [Next]_vars => IInv'
  BY <1>2, AccessStep, FiguresStep, RowVolumesStep, CountInvStep
<1>4. IInv => ResultTrue
  BY DEF TruthInv, Truthful, ResultTrue
<1> QED BY <1>1, <1>3, <1>4, PTL DEF Spec

-----------------------------------------------------------------------------
(* Trading does not move the marks of the day.                             *)

\* A sum of zeros is zero.
LEMMA TotalZero ==
    ASSUME NEW S, IsFiniteSet(S), NEW a, \A k \in S : a[k] = 0
    PROVE  Total(a, S) = 0
<1> DEFINE Bad == {ks \in SUBSET S : Total(a, ks) # 0}
<1> SUFFICES ASSUME Bad # {} PROVE FALSE
  OBVIOUS
<1>1. PICK ks \in Bad : \A ls \in SUBSET ks : ls # ks => ls \notin Bad
  <2>1. Bad \in SUBSET SUBSET S
    OBVIOUS
  <2> HIDE DEF Bad
  <2> QED BY <2>1, SmallestSubset
<1>2. IsFiniteSet(ks) /\ \A k \in ks : a[k] = 0 /\ a[k] \in Int
  BY FS_Subset
<1>3. Total(a, ks) = IF ks = {} THEN 0
                     ELSE a[Pick(ks)] + Total(a, ks \ {Pick(ks)})
  BY <1>2, TotalTakesOne
<1>4. ks # {}
  BY <1>3
<1>5. Pick(ks) \in ks
  BY <1>4 DEF Pick
<1>6. Total(a, ks \ {Pick(ks)}) = 0
  BY <1>1, <1>5
<1> QED BY <1>2, <1>3, <1>4, <1>5, <1>6

\* A position that does not pay adds nothing.
LEMMA OnlyTheGonePay ==
    ASSUME Figures, Paid
    PROVE  Total(paid, Positions) = Total(paid, {k \in Positions : volume[k] = 0})
<1> DEFINE gone == {k \in Positions : volume[k] = 0}
<1> DEFINE live == Positions \ gone
<1>1. gone \union live = Positions /\ gone \intersect live = {}
  OBVIOUS
<1>2. IsFiniteSet(gone) /\ IsFiniteSet(live)
  BY FS_Subset, PositionsAssumption
<1>3. \A k \in gone \union live : paid[k] \in Int
  BY DEF Figures, Market
<1>4. \A k \in live : paid[k] = 0
  BY DEF Paid
<1>5. Total(paid, gone) \in Int
  BY <1>2, <1>3, TotalType
<1> HIDE DEF gone, live
<1>6. Total(paid, gone \union live) = Total(paid, gone) + Total(paid, live)
  BY <1>1, <1>2, <1>3, TotalUnion
<1>7. Total(paid, live) = 0
  BY <1>2, <1>4, TotalZero
<1>8. Total(paid, gone \union live) = Total(paid, Positions)
  BY <1>1
<1>9. Total(paid, Positions) = Total(paid, gone)
  BY <1>5, <1>6, <1>7, <1>8
<1> QED BY <1>9 DEF gone

\* The counters of what disturbs the trading never go back.
LEMMA TradingStep ==
    ASSUME Access, Figures, [Next]_vars, Trading'
    PROVE  /\ Trading
           /\ unread' = unread /\ late' = late
           /\ MonitorStep \/ Abort(Monitor) \/ Outside \/ UNCHANGED vars
<1> USE DEF OnlyTrading, Trading
<1>1. OnlyMonitor /\ (MonitorStep \/ Abort(Monitor) \/ Outside \/ UNCHANGED vars)
  BY AloneStep
<1>2. /\ today' = today \/ today' = today + 1
      /\ moves' = moves \/ moves' = moves + 1
      /\ unread' = unread \/ unread' = unread + 1
      /\ late' = late \/ late' = late + 1
  BY <1>1 DEF MonitorStep, Outside, BeginCycle, Rollover, FlushDay, Snapshot,
     Unreadable, CompareRows, FlushRows, Count, Settle, FlushState, FlushThen, Commit, Close,
     Abort, PriceMoves, BrokerCloses, BrokerClosesUnits, DealsShown, MoneyMoves, Midnight,
     Resume, world, broker, faults, vars
<1>3. today = 0 /\ moves = 0 /\ unread = 0 /\ late = 0
  BY <1>2 DEF Figures, Counters
<1> QED BY <1>1, <1>3

\* A price moves once, while its position is open; a closure pays that price.
LEMMA PaidStep ==
    ASSUME Fee = 0, Access, Figures, RowFigures, Deals, Paid, Trading, [Next]_vars, Trading'
    PROVE  /\ Paid'
           /\ \A k \in Positions : volume[k] = 0 => volume'[k] = 0 /\ paid'[k] = paid[k]
           /\ \A k \in Positions : price'[k] = price[k] \/ price[k] = 0
<1>0. /\ \A k \in Positions : volume[k] = 0 => volume'[k] = 0 /\ paid'[k] = paid[k]
      /\ MonitorStep \/ Abort(Monitor) \/ Outside \/ UNCHANGED vars
  BY DealsStep, TradingStep DEF Trading, OnlyTrading
<1>1. ASSUME NEW k \in Positions, BrokerCloses(k)
      PROVE  Paid' /\ price' = price
  <2>1. BrokerClosesUnits(k, volume[k]) /\ volume[k] # 0 /\ volume[k] = Whole
    <3>1. volume[k] > 0 /\ BrokerClosesUnits(k, volume[k])
      BY <1>1 DEF BrokerCloses
    <3>2. volume[k] \in {0, Whole}
      BY DEF RowFigures
    <3> QED BY <3>1, <3>2 DEF Whole
  <2>2. volume[k] \in 0..volume[k]
    BY <2>1 DEF Whole
  <2>3. (price[k] * volume[k]) \div Whole = price[k]
    <3>1. price[k] \in Int /\ price[k] * volume[k] = price[k] * 2
      BY <2>1 DEF Figures, Market, Whole
    <3>2. (price[k] * 2) \div 2 = price[k]
      BY <3>1
    <3> QED BY <3>1, <3>2 DEF Whole
  <2>4. /\ volume'[k] = volume[k] - volume[k]
        /\ \A l \in Positions : l # k => /\ volume'[l] = volume[l]
                                         /\ paid'[l] = paid[l]
                                         /\ shown'[l] = shown[l]
        /\ price' = price
        /\ paid'[k] = paid[k] + (price[k] * volume[k]) \div Whole
        /\ cash' = cash + (price[k] * volume[k]) \div Whole
        /\ \/ shown'[k] = paid'[k] /\ late' = late
           \/ shown'[k] = shown[k] /\ late' = late + 1 /\ late < MaxLate
        /\ Market'
    BY <2>1, <2>2, BrokerEffect
  <2>5. volume'[k] = 0 /\ paid[k] = 0 /\ price[k] \in Int /\ shown'[k] = paid'[k]
    <3>1. late' = 0 /\ late = 0
      BY DEF Trading, OnlyTrading
    <3> QED BY <2>1, <2>4, <3>1 DEF Paid, Figures, Market
  <2>6. paid'[k] = price[k] /\ cash' = cash + price[k]
    BY <2>3, <2>4, <2>5
  <2>7. \A l \in Positions : paid'[l] = (IF volume'[l] = 0 THEN price'[l] ELSE 0)
                             /\ shown'[l] = paid'[l]
    BY <2>4, <2>5, <2>6 DEF Paid
  <2>8. Total(paid', Positions) = Total(paid, Positions) + price[k]
    <3> DEFINE rest == Positions \ {k}
    <3> DEFINE a == paid
    <3> DEFINE b == paid'
    <3>1. IsFiniteSet(rest) /\ IsFiniteSet(Positions)
      BY FS_Subset, PositionsAssumption
    <3>2. \A l \in Positions : a[l] \in Int /\ b[l] \in Int
      BY <2>4 DEF Figures, Market
    <3>3. \A l \in rest : a[l] \in Int /\ a[l] = b[l]
      BY <2>4, <3>2
    <3>4. a[k] = 0 /\ b[k] = price[k] /\ price[k] \in Int
      BY <2>5, <2>6
    <3> HIDE DEF a, b
    <3>5. Total(a, Positions) = a[k] + Total(a, Positions \ {k})
          /\ Total(b, Positions) = b[k] + Total(b, Positions \ {k})
      BY <3>1, <3>2, TotalWithout
    <3>6. Total(a, rest) = Total(b, rest) /\ Total(a, rest) \in Int
      <4> HIDE DEF rest
      <4> QED BY <3>1, <3>3, TotalSame, TotalType
    <3>7. Total(b, Positions) = Total(a, Positions) + price[k]
      BY <3>4, <3>5, <3>6
    <3> QED BY <3>7 DEF a, b
  <2>9. Total(paid, Positions) \in Int
    BY TotalType, PositionsAssumption DEF Figures, Market
  <2>10. Total(paid, Positions)' = Total(paid', Positions)
    OBVIOUS
  <2>11. cash' = Start + Total(paid', Positions)
    BY <2>5, <2>6, <2>8, <2>9, MoneyAssumption DEF Paid
  <2> QED BY <2>4, <2>7, <2>10, <2>11 DEF Paid
<1>2. ASSUME NEW k \in Positions, PriceMoves(k)
      PROVE  Paid' /\ \A l \in Positions : price'[l] = price[l] \/ price[l] = 0
  <2>1. UNCHANGED <<volume, paid, shown, cash>> /\ price' = [price EXCEPT ![k] = GainOf[k]]
        /\ volume[k] # 0 /\ price[k] = 0
    BY <1>2 DEF PriceMoves, Figures, Market, Whole
  <2>2. Total(paid, Positions)' = Total(paid', Positions)
    OBVIOUS
  <2> QED BY <2>1, <2>2 DEF Paid, Figures, Market
<1>3. ASSUME NEW k \in Positions, DealsShown(k) PROVE FALSE
  BY <1>3 DEF DealsShown, Paid
<1>4. CASE UNCHANGED <<volume, paid, shown, cash, price>>
  <2>2. Total(paid, Positions)' = Total(paid', Positions)
    OBVIOUS
  <2> QED BY <1>0, <1>4, <2>2 DEF Paid
<1>5. CASE MoneyMoves
  BY <1>5 DEF MoneyMoves, Trading, OnlyTrading
<1>6. \/ \E k \in Positions : BrokerCloses(k) \/ PriceMoves(k) \/ DealsShown(k)
      \/ UNCHANGED <<volume, paid, shown, cash, price>>
      \/ MoneyMoves
  BY <1>0 DEF MonitorStep, Outside, BeginCycle, Rollover, FlushDay, Snapshot, Unreadable,
     CompareRows, FlushRows, Count, Settle, FlushState, FlushThen, Commit, Close, Abort,
     Midnight, Resume, broker, vars
<1> QED BY <1>0, <1>1, <1>2, <1>3, <1>4, <1>5, <1>6

\* A reading is of the terminal, or is dropped with the session.
LEMMA ReadingMoves ==
    ASSUME Access, [Next]_vars, Trading, Trading', Figures
    PROVE  \/ seen' = seen
           \/ seen' = NothingSeen /\ SessionEnds(Monitor)
           \/ BeginCycle /\ seen' = [NothingSeen EXCEPT !.cash = cash, !.equity = Equity]
           \/ Snapshot
<1>1. /\ unread' = unread
      /\ MonitorStep \/ Abort(Monitor) \/ Outside \/ UNCHANGED vars
  BY TradingStep
<1>2. CASE Commit(Monitor) \/ Abort(Monitor)
  BY <1>2 DEF Commit, Abort, SessionEnds, Close
<1>3. CASE BeginCycle
  BY <1>1, <1>3 DEF BeginCycle, Figures, Counters
<1>4. CASE MonitorStep /\ ~BeginCycle /\ ~Commit(Monitor) /\ ~Snapshot
  BY <1>4 DEF MonitorStep, Rollover, FlushDay, Unreadable, CompareRows, FlushRows, Count,
     Settle, FlushState, FlushThen
<1>5. CASE Outside \/ UNCHANGED vars
  BY <1>5 DEF Outside, PriceMoves, BrokerCloses, DealsShown, MoneyMoves, Midnight, Resume,
     vars
<1> QED BY <1>1, <1>2, <1>3, <1>4, <1>5 DEF MonitorStep

\* A profit the monitor knows is the price of the position, or zero.
LEMMA ProfitsStep ==
    ASSUME Access, Figures, RowFigures, Profits, Trading, [Next]_vars, Trading',
           \A k \in Positions : price'[k] = price[k] \/ price[k] = 0
    PROVE  Profits'
<1> DEFINE Known(k, x) == x \in {0, price[k]}
<1>0. OnlyMonitor /\ OnlyMonitor'
  BY DEF Trading, OnlyTrading
<1>1. \A k \in Positions : Known(k, seen.profit[k])'
  <2>0. \A k \in Positions : Known(k, seen.profit[k])
    BY DEF Profits
  <2>1. CASE seen' = seen
    BY <2>0, <2>1
  <2>2. CASE seen' = NothingSeen
    BY <2>2 DEF NothingSeen, Zero
  <2>3. CASE seen' = [NothingSeen EXCEPT !.cash = cash, !.equity = Equity]
    BY <2>3 DEF NothingSeen, Zero
  <2>4. CASE Snapshot
    <3>1. seen'.profit = Floatings /\ price' = price
      BY <2>4 DEF Snapshot, Figures, Readings, broker
    <3>2. \A k \in Positions : Floating(k) \in {0, price[k]}
      <4> TAKE k \in Positions
      <4>1. price[k] \in Int /\ (volume[k] = 0 \/ volume[k] = 2)
        BY DEF Figures, Market, RowFigures, Whole
      <4>2. (price[k] * 0) \div 2 = 0 /\ (price[k] * 2) \div 2 = price[k]
        BY <4>1
      <4> QED BY <4>1, <4>2 DEF Floating, Whole
    <3> QED BY <3>1, <3>2 DEF Floatings
  <2> QED BY <2>1, <2>2, <2>3, <2>4, ReadingMoves
<1>2. \A k \in Positions : /\ Known(k, Row(Monitor, k, "profit"))'
                           /\ Known(k, table[<<k, "profit">>])'
  <2>0. \A k \in Positions : /\ Known(k, Row(Monitor, k, "profit"))
                             /\ Known(k, table[<<k, "profit">>])
                             /\ Known(k, seen.profit[k])
    BY DEF Profits
  <2>1. CASE RowsKept
    <3>1. \A k \in Positions : /\ Row(Monitor, k, "profit")' = Row(Monitor, k, "profit")
                               /\ table'[<<k, "profit">>] = table[<<k, "profit">>]
      BY <2>1, SessionsAssumption DEF RowsKept, Row, See, RowFields, Sessions
    <3> QED BY <2>0, <3>1
  <2>2. CASE SessionEnds(Monitor)
    <3>1. \A k \in Positions : /\ writes'[Monitor][<<k, "profit">>] = Untouched
                               /\ table'[<<k, "profit">>] \in
                                    {table[<<k, "profit">>], Row(Monitor, k, "profit")}
      BY <2>2, EndsRows, SessionsAssumption DEF RowFields, Sessions
    <3>2. \A k \in Positions : Row(Monitor, k, "profit")' = table'[<<k, "profit">>]
      BY <3>1 DEF Row, See
    <3> QED BY <2>0, <3>1, <3>2
  <2>3. CASE CompareRows
    <3>1. \A k \in Positions :
              Row(Monitor, k, "profit")' \in {seen.profit[k], Row(Monitor, k, "profit")}
      BY <2>3, ComparedSeen DEF SeenFields, Compared, Figures
    <3>2. table' = table
      BY <2>3 DEF CompareRows
    <3> QED BY <2>0, <3>1, <3>2
  <2> QED BY <1>0, <2>1, <2>2, <2>3, AloneRows
<1> QED BY <1>1, <1>2 DEF Profits

\* A result the monitor knows is what was paid.
LEMMA ResultsStep ==
    ASSUME Access, Figures, RowFigures, Paid, Profits, Results, Explained,
           Trading, [Next]_vars, Trading',
           \A k \in Positions : volume[k] = 0 => volume'[k] = 0 /\ paid'[k] = paid[k]
    PROVE  Results'
<1> DEFINE Told(k) == Row(Monitor, k, "state") = "closed" =>
                         volume[k] = 0 /\ Row(Monitor, k, "result") = paid[k]
<1> DEFINE Kept(k) == table[<<k, "state">>] = "closed" =>
                         volume[k] = 0 /\ table[<<k, "result">>] = paid[k]
<1>0. OnlyMonitor /\ OnlyMonitor'
  BY DEF Trading, OnlyTrading
<1>1. \A k \in Positions : Told(k) /\ Kept(k)
  BY DEF Results, ClosedRows, SeenClosed
<1>2. CASE RowsKept
  <2>1. \A k \in Positions, f \in RowFields : /\ Row(Monitor, k, f)' = Row(Monitor, k, f)
                                              /\ table'[<<k, f>>] = table[<<k, f>>]
    BY <1>2, SessionsAssumption DEF RowsKept, Row, See, Sessions
  <2>2. \A k \in Positions : Told(k)' /\ Kept(k)'
    BY <1>1, <2>1 DEF RowFields
  <2> QED BY <2>2 DEF Results, ClosedRows, SeenClosed
<1>3. CASE SessionEnds(Monitor)
  <2>1. \A k \in Positions, f \in RowFields : writes'[Monitor][<<k, f>>] = Untouched
    BY <1>3, EndsRows, SessionsAssumption DEF Sessions
  <2>2. \A k \in Positions, f \in RowFields : Row(Monitor, k, f)' = table'[<<k, f>>]
    BY <2>1 DEF Row, See
  <2>3. \/ \A k \in Positions, f \in RowFields : table'[<<k, f>>] = table[<<k, f>>]
        \/ \A k \in Positions, f \in RowFields : table'[<<k, f>>] = Row(Monitor, k, f)
    BY <1>3, PublishEffect, ColumnsKnown, SessionsAssumption
       DEF SessionEnds, Access, Row, Sessions
  <2>4. \A k \in Positions : Kept(k)'
    BY <1>1, <2>3 DEF RowFields
  <2>5. \A k \in Positions : Told(k)'
    BY <2>2, <2>4 DEF RowFields
  <2> QED BY <2>4, <2>5 DEF Results, ClosedRows, SeenClosed
<1>4. CASE CompareRows
  <2>1. \A k \in Positions, f \in SeenFields :
            Row(Monitor, k, f)' = IF k \in OpenRows(Monitor) THEN Compared(k)[f]
                                  ELSE Row(Monitor, k, f)
    BY <1>4, ComparedSeen DEF Figures
  <2>2. pc[Monitor] = "rows" /\ table' = table
    BY <1>4 DEF CompareRows
  <2>3. \A k \in OpenRows(Monitor) \ seen.live : volume[k] = 0 /\ Compared(k).result = paid[k]
    <3> TAKE k \in OpenRows(Monitor) \ seen.live
    <3>1. k \in Positions \ seen.live
      BY DEF OpenRows
    <3>2. volume[k] = 0 /\ seen.deals[k] = paid[k]
      BY <2>2, <3>1 DEF Explained
    <3>3. paid[k] = price[k] /\ Row(Monitor, k, "profit") \in {0, price[k]}
      BY <3>1, <3>2 DEF Paid, Profits
    <3> QED BY <3>2, <3>3 DEF Compared, ResultFromDeals
  <2>4. \A k \in Positions : Told(k)'
    <3> SUFFICES ASSUME NEW k \in Positions PROVE Told(k)'
      OBVIOUS
    <3>1. CASE k \in OpenRows(Monitor) \ seen.live
      <4>1. Row(Monitor, k, "result")' = Compared(k).result
        BY <2>1, <3>1 DEF SeenFields, Compared
      <4> QED BY <2>3, <3>1, <4>1
    <3>2. CASE k \in OpenRows(Monitor) /\ k \in seen.live
      <4>1. Row(Monitor, k, "state")' = Row(Monitor, k, "state")
        BY <2>1, <3>2 DEF SeenFields, Compared
      <4> QED BY <3>2, <4>1 DEF OpenRows
    <3>3. CASE k \notin OpenRows(Monitor)
      BY <1>1, <2>1, <3>3 DEF SeenFields
    <3> QED BY <3>1, <3>2, <3>3
  <2>5. \A k \in Positions : Kept(k)'
    BY <1>1, <2>2
  <2> QED BY <2>4, <2>5 DEF Results, ClosedRows, SeenClosed
<1> QED BY <1>0, <1>2, <1>3, <1>4, AloneRows

\* What explains the balance at one step explains it at the next, as long as
\* the reading is the same and no row is closed.
LEMMA ExplainsOn ==
    ASSUME Figures, seen' = seen, ClosedRows' = ClosedRows,
           \A k \in Positions : volume[k] = 0 => volume'[k] = 0 /\ paid'[k] = paid[k],
           NEW ks \in SUBSET Positions, Explains(ks),
           pc'[Monitor] = "rows" => ks \intersect seen.live = {}
    PROVE  Explains(ks)'
<1>1. \A k \in ks : volume[k] = 0 /\ volume'[k] = 0 /\ paid'[k] = paid[k]
  BY DEF Explains
<1>2. Total(paid, ks) = Total(paid', ks)
  <2> DEFINE a == paid
  <2> DEFINE b == paid'
  <2>1. IsFiniteSet(ks) /\ \A k \in ks : a[k] \in Int /\ a[k] = b[k]
    BY <1>1, FS_Subset, PositionsAssumption DEF Figures, Market
  <2> HIDE DEF a, b
  <2>2. Total(a, ks) = Total(b, ks)
    BY <2>1, TotalSame
  <2> QED BY <2>2 DEF a, b
<1>3. Total(paid, ks)' = Total(paid', ks)
  OBVIOUS
<1> QED BY <1>1, <1>2, <1>3 DEF Explains

\* The sum paid for the closures the monitor knows stays.
LEMMA SeenPaidOn ==
    ASSUME Figures, Results, SeenClosed' = SeenClosed,
           \A k \in Positions : volume[k] = 0 => volume'[k] = 0 /\ paid'[k] = paid[k]
    PROVE  Total(paid, SeenClosed)' = Total(paid, SeenClosed)
<1> DEFINE ks == SeenClosed
<1>1. ks \subseteq Positions /\ \A k \in ks : paid'[k] = paid[k]
  BY DEF Results, SeenClosed
<1>2. Total(paid, SeenClosed)' = Total(paid', SeenClosed')
  OBVIOUS
<1> DEFINE a == paid
<1> DEFINE b == paid'
<1>3. IsFiniteSet(ks) /\ \A k \in ks : a[k] \in Int /\ a[k] = b[k]
  BY <1>1, FS_Subset, PositionsAssumption DEF Figures, Market
<1>4. SeenClosed' = ks
  OBVIOUS
<1> HIDE DEF a, b, ks
<1>5. Total(a, ks) = Total(b, ks)
  BY <1>3, TotalSame
<1> QED BY <1>2, <1>4, <1>5 DEF a, b, ks

\* The comparison finds every position whose gain the balance holds.
LEMMA CompareExplains ==
    ASSUME Access, Figures, RowFigures, RealizedKept, Explained, CompareRows,
           found'[Monitor] = NoneClosed
    PROVE  seen.cash = Start + Total(paid, ClosedRows) /\ SeenClosed' = ClosedRows
<1>0. pc[Monitor] = "rows" /\ table' = table
  BY DEF CompareRows
<1>1. PICK ks \in SUBSET Positions : Explains(ks)
  BY <1>0 DEF Explained, Early
<1>2. OpenRows(Monitor) \subseteq seen.live
  <2>1. found'[Monitor] = [k \in OpenRows(Monitor) \ seen.live |-> Compared(k).result]
    BY CompareEffect, SessionsAssumption DEF Access, Shape, Sessions
  <2>2. DOMAIN found'[Monitor] = {}
    BY DEF NoneClosed
  <2> QED BY <2>1, <2>2
<1>3. \A k \in Positions : Row(Monitor, k, "state") = table[<<k, "state">>]
  BY <1>0 DEF RealizedKept, Beginning, Row, See, RowFields
<1>4. \A k \in Positions : k \in ClosedRows \/ k \in OpenRows(Monitor)
  BY <1>3 DEF ClosedRows, OpenRows, RowFigures, States
<1>5. ks = ClosedRows
  BY <1>0, <1>1, <1>2, <1>4 DEF Explains
<1>6. SeenClosed' = ClosedRows
  <2>1. \A k \in Positions : Row(Monitor, k, "state")' =
            IF k \in OpenRows(Monitor) THEN Compared(k).state ELSE Row(Monitor, k, "state")
    BY ComparedSeen DEF Figures, SeenFields
  <2>2. \A k \in Positions : Row(Monitor, k, "state")' = Row(Monitor, k, "state")
    BY <1>2, <2>1 DEF Compared
  <2> QED BY <1>3, <2>2 DEF SeenClosed, ClosedRows
<1> QED BY <1>1, <1>5, <1>6 DEF Explains

\* Every step keeps the reading of the balance explained by the closures.
LEMMA ExplainedStep ==
    ASSUME Access, Figures, RowFigures, SameDay, RealizedKept, Paid, Results, Explained,
           Trading, [Next]_vars, Trading',
           \A k \in Positions : volume[k] = 0 => volume'[k] = 0 /\ paid'[k] = paid[k]
    PROVE  Explained'
<1> USE SessionsAssumption DEF Sessions
<1>0. /\ OnlyMonitor /\ OnlyMonitor' /\ today = 0 /\ unread' = unread
      /\ MonitorStep \/ Abort(Monitor) \/ Outside \/ UNCHANGED vars
  BY TradingStep DEF Trading, OnlyTrading
<1> DEFINE Same == seen' = seen /\ RowsKept /\ found'[Monitor] = found[Monitor]
<1>1. ASSUME Same
      PROVE  /\ ClosedRows' = ClosedRows
             /\ Total(paid, SeenClosed)' = Total(paid, SeenClosed)
  <2>1. \A k \in Positions : /\ Row(Monitor, k, "state")' = Row(Monitor, k, "state")
                             /\ table'[<<k, "state">>] = table[<<k, "state">>]
    BY <1>1 DEF RowsKept, Row, See, RowFields
  <2>2. SeenClosed' = SeenClosed /\ ClosedRows' = ClosedRows
    BY <2>1 DEF SeenClosed, ClosedRows
  <2> QED BY <2>2, SeenPaidOn
\* Steps that read nothing and close nothing.
<1>2. ASSUME Same, pc[Monitor] # "sleep" \/ pc'[Monitor] = "sleep",
             pc'[Monitor] \in Early => pc[Monitor] \in Early,
             pc'[Monitor] = "rows" => pc[Monitor] = "rows",
             pc'[Monitor] \in Counting \union {"settle"} =>
                pc[Monitor] \in Counting \union {"settle"}
      PROVE  Explained'
  <2>1. pc'[Monitor] # "sleep" => seen'.cash \in Int /\ seen'.equity \in Int
    BY <1>2 DEF Explained
  <2>2. pc'[Monitor] \in Early => \E ks \in SUBSET Positions : Explains(ks)'
    <3> SUFFICES ASSUME pc'[Monitor] \in Early
                 PROVE  \E ks \in SUBSET Positions : Explains(ks)'
      OBVIOUS
    <3>1. PICK ks \in SUBSET Positions : Explains(ks)
      BY <1>2 DEF Explained
    <3>2. pc'[Monitor] = "rows" => ks \intersect seen.live = {}
      BY <1>2, <3>1 DEF Explains
    <3>3. Explains(ks)'
      BY <1>1, <1>2, <3>1, <3>2, ExplainsOn
    <3> QED BY <3>3
  <2>3. pc'[Monitor] = "rows" => \A k \in Positions \ seen'.live :
            volume'[k] = 0 /\ seen'.deals[k] = paid'[k]
    BY <1>2 DEF Explained
  <2>4. pc'[Monitor] \in Counting \union {"settle"} /\ found'[Monitor] = NoneClosed =>
            seen'.cash = Start + Total(paid, SeenClosed)'
    BY <1>1, <1>2 DEF Explained
  <2> QED BY <2>1, <2>2, <2>3, <2>4 DEF Explained
<1>3. CASE Outside \/ UNCHANGED vars
  <2>1. pc' = pc /\ seen' = seen /\ found' = found
    BY <1>3 DEF Outside, PriceMoves, BrokerCloses, DealsShown, MoneyMoves, Midnight, Resume,
       memory, vars
  <2>2. RowsKept
    <3>1. ~SessionEnds(Monitor) \/ RowsKept
      <4>1. CASE UNCHANGED vars
        BY <4>1 DEF vars, database, RowsKept
      <4>2. CASE Outside
        <5>1. UNCHANGED writes /\ (table' = table
                 \/ table' = [table EXCEPT ![<<"ledger", "paused">>] = FALSE])
          BY <4>2 DEF Outside, PriceMoves, BrokerCloses, DealsShown, MoneyMoves, Midnight,
             Resume, database
        <5>2. \A k \in Positions, f \in RowFields : <<k, f>> # <<"ledger", "paused">>
          BY DEF RowFields
        <5> QED BY <5>1, <5>2, ColumnsKnown DEF RowsKept, Access, Shape
      <4> QED BY <1>3, <4>1, <4>2
    <3>2. ~CompareRows \/ RowsKept
      <4>1. CompareRows => pc'[Monitor] # pc[Monitor]
        BY DEF CompareRows, Goto, Access, Shape
      <4> QED BY <2>1, <4>1
    <3> QED BY <1>0, <3>1, <3>2, AloneRows
  <2> QED BY <1>2, <2>1, <2>2
<1>4. CASE SessionEnds(Monitor)
  <2>1. pc'[Monitor] = "sleep"
    BY <1>4, CloseEffect DEF SessionEnds, Access
  <2> QED BY <2>1 DEF Explained, Early, Counting
<1>5. CASE BeginCycle
  <2>1. /\ seen' = [NothingSeen EXCEPT !.cash = cash, !.equity = Equity]
        /\ pc'[Monitor] = "rollover" /\ table' = table /\ volume' = volume /\ paid' = paid
    BY <1>0, <1>5 DEF BeginCycle, Goto, database, broker, Figures, Counters, Access, Shape
  <2>2. seen'.cash = cash /\ seen'.equity = Equity
    BY <2>1 DEF NothingSeen
  <2> DEFINE ks == {k \in Positions : volume[k] = 0}
  <2>3. cash = Start + Total(paid, ks)
    BY OnlyTheGonePay DEF Paid
  <2>4. Total(paid, ks)' = Total(paid', ks)
    <3>1. ks' = ks
      BY <2>1
    <3> QED BY <3>1
  <2>5. ClosedRows' \subseteq ks
    BY <2>1 DEF Results, ClosedRows
  <2>6. \E qs \in SUBSET Positions : Explains(qs)'
    <3>1. PICK qs \in SUBSET Positions : qs = ks
      OBVIOUS
    <3>2. Total(paid, qs)' = Total(paid', qs)
      OBVIOUS
    <3>3. seen'.cash = Start + Total(paid', qs)
      BY <2>1, <2>2, <2>3, <3>1
    <3> QED BY <2>1, <2>5, <3>1, <3>2, <3>3 DEF Explains
  <2>7. cash \in Int /\ Equity \in Int
    BY EquityKnown DEF Figures, Market
  <2> QED BY <2>1, <2>2, <2>6, <2>7 DEF Explained, Early, Counting
<1>6. CASE Snapshot
  <2>1. /\ pc[Monitor] = "snapshot" /\ pc'[Monitor] = "rows" /\ table' = table
        /\ volume' = volume /\ paid' = paid /\ seen'.cash = seen.cash
        /\ seen'.equity = seen.equity /\ seen'.live = {k \in Positions : volume[k] > 0}
        /\ seen'.deals = shown
    BY <1>6 DEF Snapshot, Goto, database, broker, Figures, Readings, Access, Shape
  <2>2. PICK ks \in SUBSET Positions : Explains(ks)
    BY <2>1 DEF Explained, Early
  <2>3. Total(paid, ks)' = Total(paid', ks)
    OBVIOUS
  <2>4. Explains(ks)'
    <3>1. ks \intersect seen'.live = {}
      BY <2>1, <2>2 DEF Explains
    <3>2. ClosedRows' = ClosedRows
      BY <2>1 DEF ClosedRows
    <3> QED BY <2>1, <2>2, <2>3, <3>1, <3>2 DEF Explains
  <2>5. \A k \in Positions \ seen'.live : volume'[k] = 0 /\ seen'.deals[k] = paid'[k]
    BY <2>1 DEF Paid, Figures, Market, Whole
  <2>6. seen'.cash \in Int /\ seen'.equity \in Int
    BY <2>1 DEF Explained
  <2>7. \E qs \in SUBSET Positions : Explains(qs)'
    BY <2>4
  <2> QED BY <2>1, <2>5, <2>6, <2>7 DEF Explained, Counting
<1>7. CASE CompareRows
  <2>1. /\ pc[Monitor] = "rows" /\ pc'[Monitor] \in {"flushRows", "settle"}
        /\ seen' = seen /\ paid' = paid
    BY <1>7 DEF CompareRows, Goto, broker, Access, Shape
  <2>2. ASSUME found'[Monitor] = NoneClosed
        PROVE  seen'.cash = Start + Total(paid, SeenClosed)'
    <3>1. seen.cash = Start + Total(paid, ClosedRows) /\ SeenClosed' = ClosedRows
      BY <1>7, <2>2, CompareExplains
    <3>2. Total(paid, SeenClosed)' = Total(paid', SeenClosed')
      OBVIOUS
    <3> QED BY <2>1, <3>1, <3>2
  <2> QED BY <2>1, <2>2 DEF Explained, Early, Counting
<1>8. CASE Rollover \/ FlushDay \/ Unreadable \/ FlushRows \/ Count(Monitor) \/ Settle \/ FlushState
  <2>1. seen' = seen /\ found' = found
    BY <1>8 DEF Rollover, FlushDay, Unreadable, FlushRows, Count, Settle, FlushState,
       FlushThen, memory
  <2>2. ~Unreadable
    BY <1>0 DEF Unreadable, Figures, Counters
  <2>3. ~FlushDay
    BY DEF FlushDay, SameDay
  <2>4. Rollover => pc[Monitor] = "rollover" /\ pc'[Monitor] = "snapshot"
    <3>1. Ledger(Monitor, "day") = today
      BY <1>0 DEF SameDay, Ledger, See, Committed
    <3> QED BY <3>1 DEF Rollover, Goto, Access, Shape
  <2>5. FlushRows => pc[Monitor] = "flushRows" /\ pc'[Monitor] \in {"count", "settle"}
    BY DEF FlushRows, FlushThen, Goto, Access, Shape
  <2>6. Count(Monitor) => pc[Monitor] = "count" /\ pc'[Monitor] = "settle"
    BY DEF Count, Goto, Access, Shape
  <2>7. Settle => pc[Monitor] = "settle" /\ pc'[Monitor] \in {"commit", "flushState"}
    BY DEF Settle, Goto, Access, Shape
  <2>8. FlushState => pc[Monitor] = "flushState" /\ pc'[Monitor] = "commit"
    BY DEF FlushState, Goto, Access, Shape
  <2>9. RowsKept
    <3>1. ~CompareRows
      BY <1>8, <2>2, <2>3, <2>4, <2>5, <2>6, <2>7, <2>8 DEF CompareRows
    <3>2. ~SessionEnds(Monitor)
      <4>1. SessionEnds(Monitor) => pc'[Monitor] = "sleep"
        BY CloseEffect DEF SessionEnds, Access
      <4> QED BY <1>8, <2>2, <2>3, <2>4, <2>5, <2>6, <2>7, <2>8, <4>1
    <3> QED BY <1>0, <3>1, <3>2, AloneRows
  <2>10. /\ pc[Monitor] # "sleep"
         /\ pc'[Monitor] \in Early => pc[Monitor] \in Early
         /\ pc'[Monitor] = "rows" => pc[Monitor] = "rows"
         /\ pc'[Monitor] \in Counting \union {"settle"} =>
                pc[Monitor] \in Counting \union {"settle"}
    BY <1>8, <2>2, <2>3, <2>4, <2>5, <2>6, <2>7, <2>8 DEF Early, Counting
  <2> QED BY <1>2, <2>1, <2>9, <2>10
<1> QED BY <1>0, <1>3, <1>4, <1>5, <1>6, <1>7, <1>8 DEF MonitorStep, Abort, Commit, SessionEnds

\* The balance the monitor read is what the day explains when it found nothing.
LEMMA NotMoved ==
    ASSUME Figures, RowFigures, RealizedKept, Paid, Profits, Results, Marks, Explained,
           pc[Monitor] = "settle"
    PROVE  ~Moved
<1> SUFFICES ASSUME found[Monitor] = NoneClosed
             PROVE  ~(Magnitude(seen.cash - Expected(Monitor)) > Tolerance(Expected(Monitor)))
  BY DEF Moved
<1>1. seen.cash = Start + Total(paid, SeenClosed)
  BY DEF Explained, Counting
<1>2. \A k \in SeenClosed : SeenResults[k] \in Int /\ SeenResults[k] = paid[k]
  <2> TAKE k \in SeenClosed
  <2>1. k \in Positions /\ volume[k] = 0 /\ Row(Monitor, k, "result") = paid[k]
    BY DEF Results, SeenClosed
  <2>2. paid[k] = price[k] /\ Row(Monitor, k, "profit") \in {0, price[k]} /\ paid[k] \in Int
    BY <2>1 DEF Paid, Profits, Figures, Market
  <2> QED BY <2>1, <2>2 DEF SeenResults, ResultOf
<1>3. Total(SeenResults, SeenClosed) = Total(paid, SeenClosed)
      /\ Total(paid, SeenClosed) \in Int
  <2> DEFINE ks == SeenClosed
  <2> DEFINE a == SeenResults
  <2> DEFINE b == paid
  <2>1. IsFiniteSet(ks)
    BY FS_Subset, PositionsAssumption DEF SeenClosed
  <2>2. \A k \in ks : a[k] \in Int /\ b[k] \in Int /\ a[k] = b[k]
    BY <1>2
  <2> HIDE DEF ks, a, b
  <2>3. Total(a, ks) = Total(b, ks) /\ Total(b, ks) \in Int
    BY <2>1, <2>2, TotalSame, TotalType
  <2> QED BY <2>3 DEF ks, a, b
<1>4. Ledger(Monitor, "realized") = Total(SeenResults, SeenClosed)
  BY DEF RealizedKept, Counted
<1>5. Expected(Monitor) = seen.cash
  BY <1>1, <1>3, <1>4 DEF Expected, Marks
<1>6. seen.cash \in Int
  BY <1>1, <1>3, MoneyAssumption
<1>7. Magnitude(seen.cash - seen.cash) = 0
  BY <1>6 DEF Magnitude
<1>8. ~(0 > Tolerance(seen.cash))
  <2> DEFINE bound == Magnitude(seen.cash) \div 20
  <2>1. Magnitude(seen.cash) \in Int
    BY <1>6 DEF Magnitude
  <2>2. bound \in Int
    BY <2>1
  <2> HIDE DEF bound
  <2>3. ~(0 > IF bound > 5 THEN bound ELSE 5)
    BY <2>2
  <2> QED BY <2>3 DEF bound, Tolerance
<1> QED BY <1>5, <1>7, <1>8

MarkFields == {"start", "peak"}

\* Within the day only the settlement of the monitor touches the marks.
LEMMA MarksMove ==
    ASSUME Access, Figures, SameDay, Trading, [Next]_vars, Trading'
    PROVE  \/ SessionEnds(Monitor)
           \/ Settle
           \/ \A f \in MarkFields :
                 /\ table'[<<"ledger", f>>] = table[<<"ledger", f>>]
                 /\ writes'[Monitor][<<"ledger", f>>] = writes[Monitor][<<"ledger", f>>]
<1> USE SessionsAssumption DEF Sessions
<1>0. /\ today = 0
      /\ MonitorStep \/ Abort(Monitor) \/ Outside \/ UNCHANGED vars
  BY TradingStep DEF Trading
<1>1. CASE UNCHANGED <<table, writes>>
  BY <1>1
<1>2. CASE Outside
  <2>1. UNCHANGED writes /\ (table' = table
           \/ table' = [table EXCEPT ![<<"ledger", "paused">>] = FALSE])
    BY <1>2 DEF Outside, PriceMoves, BrokerCloses, DealsShown, MoneyMoves, Midnight,
       Resume, database
  <2>2. \A f \in MarkFields : <<"ledger", f>> # <<"ledger", "paused">>
                              /\ <<"ledger", f>> \in Columns
    BY ColumnsKnown DEF MarkFields, LedgerFields
  <2> QED BY <2>1, <2>2 DEF Access, Shape
<1>3. CASE Rollover
  <2>1. Ledger(Monitor, "day") = today
    BY <1>0 DEF SameDay, Ledger, See, Committed
  <2> QED BY <1>1, <1>3, <2>1 DEF Rollover
<1>4. CASE CompareRows
  BY <1>4, CompareEffect DEF Access, MarkFields, LedgerFields, CompareRows
<1>5. CASE Count(Monitor)
  <2>1. ASSUME NEW a, NEW b, NEW d,
               Assign(Monitor, LedgerColumns([realized |-> a, losses |-> b, paused |-> d]))
        PROVE  \A f \in MarkFields :
                  writes'[Monitor][<<"ledger", f>>] = writes[Monitor][<<"ledger", f>>]
    <3> DEFINE fields == [realized |-> a, losses |-> b, paused |-> d]
    <3>1. DOMAIN fields = {"realized", "losses", "paused"}
      OBVIOUS
    <3>2. Assign(Monitor, LedgerColumns(fields))
      BY <2>1
    <3> HIDE DEF fields
    <3>3. \A f \in LedgerFields : f \notin DOMAIN fields =>
              writes'[Monitor][<<"ledger", f>>] = writes[Monitor][<<"ledger", f>>]
      BY <3>2, LedgerEffect DEF Access
    <3> QED BY <3>1, <3>3 DEF MarkFields, LedgerFields
  <2> QED BY <1>5, <2>1 DEF Count, ApplyClosedTrades
<1>6. CASE Commit(Monitor) \/ Abort(Monitor)
  BY <1>6 DEF Commit, Abort, SessionEnds
<1>7. CASE BeginCycle \/ FlushDay \/ Snapshot \/ Unreadable \/ FlushRows \/ FlushState
           \/ UNCHANGED vars
  BY <1>1, <1>7 DEF BeginCycle, FlushDay, Snapshot, Unreadable, FlushRows, FlushState,
     FlushThen, database, vars
<1> QED BY <1>0, <1>2, <1>3, <1>4, <1>5, <1>6, <1>7 DEF MonitorStep

\* Every step of the undisturbed day keeps the marks.
LEMMA MarksStep ==
    ASSUME Access, Figures, RowFigures, SameDay, RealizedKept,
           Paid, Profits, Results, Marks, Explained, Trading, [Next]_vars, Trading'
    PROVE  Marks'
<1> USE SessionsAssumption DEF Sessions
<1>0. \A f \in MarkFields : <<"ledger", f>> \in Columns
  BY ColumnsKnown DEF MarkFields, LedgerFields
<1>1. CASE \A f \in MarkFields :
              /\ table'[<<"ledger", f>>] = table[<<"ledger", f>>]
              /\ writes'[Monitor][<<"ledger", f>>] = writes[Monitor][<<"ledger", f>>]
  <2>1. \A f \in MarkFields : /\ Committed(f)' = Committed(f)
                              /\ Ledger(Monitor, f)' = Ledger(Monitor, f)
    BY <1>1 DEF Committed, Ledger, See
  <2> QED BY <2>1 DEF Marks, MarkFields
<1>2. CASE SessionEnds(Monitor)
  <2>1. \A f \in MarkFields : writes'[Monitor][<<"ledger", f>>] = Untouched
    BY <1>0, <1>2, CloseEffect DEF SessionEnds, Access, Clean
  <2>2. \A f \in MarkFields : Ledger(Monitor, f)' = Committed(f)'
    BY <2>1 DEF Ledger, See, Committed
  <2>3. \/ \A f \in MarkFields : Committed(f)' = Committed(f)
        \/ \A f \in MarkFields : Committed(f)' = Ledger(Monitor, f)
    BY <1>0, <1>2, PublishEffect DEF SessionEnds, Access, Committed, Ledger
  <2> QED BY <2>2, <2>3 DEF Marks, MarkFields
<1>3. CASE Settle
  <2>1. pc[Monitor] = "settle" /\ table' = table
    BY <1>3 DEF Settle
  <2>2. ~Moved
    BY <2>1, NotMoved
  <2>3. seen.cash \in Int /\ seen.equity \in Int /\ Ledger(Monitor, "peak") \in Int
    BY <2>1 DEF Explained, Marks
  <2>4. seen.cash # Null /\ Ledger(Monitor, "peak") # Null
    BY <2>3, ColumnsAssumption
  <2> DEFINE high == IF seen.equity > Ledger(Monitor, "peak")
                     THEN seen.equity ELSE Ledger(Monitor, "peak")
  <2> DEFINE fields == [start |-> Ledger(Monitor, "start"), peak |-> high]
  <2>5. Assign(Monitor, LedgerColumns(fields))
    BY <1>3, <2>2, <2>4 DEF Settle
  <2>6. DOMAIN fields = MarkFields /\ fields["start"] = Ledger(Monitor, "start")
        /\ fields["peak"] = high
    BY DEF MarkFields
  <2>7. high \in Int /\ high >= Ledger(Monitor, "peak")
    BY <2>3
  <2> HIDE DEF fields, high
  <2>8. \A f \in LedgerFields : writes'[Monitor][<<"ledger", f>>] =
            IF f \in DOMAIN fields /\ fields[f] # Ledger(Monitor, f)
            THEN fields[f] ELSE writes[Monitor][<<"ledger", f>>]
    BY <2>5, LedgerEffect DEF Access
  <2>9. writes'[Monitor][<<"ledger", "start">>] = writes[Monitor][<<"ledger", "start">>]
        /\ (writes'[Monitor][<<"ledger", "peak">>] = high
              \/ (writes'[Monitor][<<"ledger", "peak">>] = writes[Monitor][<<"ledger", "peak">>]
                    /\ high = Ledger(Monitor, "peak")))
    BY <2>6, <2>8 DEF MarkFields, LedgerFields
  <2>10. high # Untouched
    BY <2>7, ColumnsAssumption
  <2>11. Ledger(Monitor, "start")' = Ledger(Monitor, "start")
         /\ Ledger(Monitor, "peak")' = high
    BY <2>1, <2>9, <2>10 DEF Ledger, See
  <2>12. Committed("start")' = Committed("start") /\ Committed("peak")' = Committed("peak")
    BY <2>1 DEF Committed
  <2>13. high >= Committed("peak")
    BY <2>3, <2>7 DEF Marks
  <2> QED BY <2>7, <2>11, <2>12, <2>13 DEF Marks
<1> QED BY <1>1, <1>2, <1>3, MarksMove

\* Every step of the undisturbed day keeps what it rests on.
LEMMA BaseStep ==
    ASSUME Fee = 0, Access, Figures, CountInv, TruthInv, BaseInv, [Next]_vars
    PROVE  BaseInv'
<1> SUFFICES ASSUME Trading' PROVE (Paid /\ Profits /\ Results /\ Marks /\ Explained)'
  BY DEF BaseInv
<1>1. Trading
  BY TradingStep
<1>2. RowFigures /\ SameDay /\ RealizedKept /\ Deals
      /\ Paid /\ Profits /\ Results /\ Marks /\ Explained
  BY <1>1 DEF Trading, OnlyTrading, CountInv, TruthInv, BaseInv
<1>3. /\ Paid'
      /\ \A k \in Positions : volume[k] = 0 => volume'[k] = 0 /\ paid'[k] = paid[k]
      /\ \A k \in Positions : price'[k] = price[k] \/ price[k] = 0
  BY <1>1, <1>2, PaidStep
<1>4. Profits'
  BY <1>1, <1>2, <1>3, ProfitsStep
<1>5. Results'
  BY <1>1, <1>2, <1>3, ResultsStep
<1>6. Marks'
  BY <1>1, <1>2, MarksStep
<1>7. Explained'
  BY <1>1, <1>2, <1>3, ExplainedStep
<1> QED BY <1>3, <1>4, <1>5, <1>6, <1>7

\* The day begins undisturbed.
LEMMA BaseInit ==
    ASSUME Fee = 0, Init
    PROVE  BaseInv
<1>1. /\ \A k \in Positions, f \in RowFields : table[<<k, f>>] = OpeningRow[f]
      /\ \A f \in LedgerFields : table[<<"ledger", f>>] = OpeningLedger(Start)[f]
      /\ Clean(Monitor)
  BY RowsOpen, SessionsAssumption DEF Sessions
<1>2. /\ \A k \in Positions, f \in RowFields : Row(Monitor, k, f) = table[<<k, f>>]
      /\ \A f \in LedgerFields : Ledger(Monitor, f) = Committed(f)
  BY <1>1, ColumnsKnown DEF Clean, Row, Ledger, See, Committed
<1>3. /\ ClosedRows = {} /\ SeenClosed = {}
  BY <1>1, <1>2 DEF ClosedRows, SeenClosed, OpeningRow, RowFields
<1>4. /\ \A k \in Positions : /\ paid[k] = 0 /\ shown[k] = 0 /\ volume[k] # 0
                              /\ price[k] = 0 /\ seen.profit[k] = 0
      /\ cash = Start
  <2>1. Cardinality(Positions) \in Nat
    BY PositionsAssumption, FS_CardinalityType
  <2> DEFINE n == Cardinality(Positions)
  <2>2. Fee * n = 0 /\ Start - 0 = Start /\ -Fee = 0
    <3>1. n \in Nat /\ Start \in Nat
      BY <2>1, MoneyAssumption
    <3> HIDE DEF n
    <3>2. 0 * n = 0
      BY <3>1
    <3>3. Fee * n = 0
      BY <3>2
    <3>4. -Fee = 0
      <4>1. \A m \in Int : m <= 0 /\ m >= 0 => -m = 0
        OBVIOUS
      <4>2. Fee \in Int /\ Fee <= 0 /\ Fee >= 0
        OBVIOUS
      <4> QED BY ONLY <4>1, <4>2
    <3> QED BY <3>1, <3>3, <3>4
  <2>3. cash = Start
    BY <2>2 DEF Init
  <2>4. \A k \in Positions : paid[k] = 0 /\ shown[k] = 0
    BY <2>2 DEF Init
  <2> QED BY <2>3, <2>4 DEF Init, Whole, NothingSeen, Zero
<1>5. Total(paid, Positions) = 0
  BY <1>4, TotalZero, PositionsAssumption
<1>6. Paid
  BY <1>4, <1>5, MoneyAssumption DEF Paid
<1>7. Profits
  BY <1>1, <1>2, <1>4 DEF Profits, OpeningRow, RowFields
<1>8. Marks
  BY <1>1, <1>2, MoneyAssumption DEF Marks, OpeningLedger, LedgerFields, Committed
<1>9. Explained /\ Results
  BY <1>3, SessionsAssumption DEF Explained, Results, Init, Sessions, Early, Counting
<1> QED BY <1>6, <1>7, <1>8, <1>9 DEF BaseInv

\* A step from a state of undisturbed trading keeps the balance of the morning
\* and never lowers the highest equity.
LEMMA MarksCommitted ==
    ASSUME Access, BaseInv, Trading, [Next]_vars
    PROVE  /\ Committed("start")' = Committed("start")
           /\ Committed("peak")' >= Committed("peak")
<1> USE SessionsAssumption DEF Sessions
<1>0. Marks /\ <<"ledger", "start">> \in Columns /\ <<"ledger", "peak">> \in Columns
  BY ColumnsKnown DEF BaseInv, LedgerFields
<1>1. CASE table' = table
  BY <1>0, <1>1 DEF Marks, Committed
<1>2. CASE Commit(Monitor)
  <2>1. \A col \in Columns : table'[col] = See(Monitor, col)
    BY <1>2, PublishEffect DEF Commit, Access
  <2>2. Committed("start")' = Ledger(Monitor, "start")
        /\ Committed("peak")' = Ledger(Monitor, "peak")
    BY <1>0, <2>1 DEF Committed, Ledger
  <2> QED BY <1>0, <2>2 DEF Marks
<1>3. ASSUME NEW c \in Closers, Commit(c) PROVE FALSE
  BY <1>3 DEF Commit, Trading, OnlyTrading, OnlyMonitor
<1>4. CASE Resume
  <2>1. table' = [table EXCEPT ![<<"ledger", "paused">>] = FALSE]
    BY <1>4 DEF Resume
  <2>2. table'[<<"ledger", "start">>] = table[<<"ledger", "start">>]
        /\ table'[<<"ledger", "peak">>] = table[<<"ledger", "peak">>]
    BY <1>0, <2>1 DEF Access, Shape
  <2> QED BY <1>0, <2>2 DEF Marks, Committed
<1>5. ASSUME ~Resume, \A s \in Sessions : ~Commit(s) PROVE table' = table
  BY <1>5 DEF Next, MonitorStep, CloserStep, Outside, BeginCycle, Rollover, FlushDay, Snapshot,
     Unreadable, CompareRows, FlushRows, Count, Settle, FlushState, FlushThen, BeginFollowUp,
     BeginRequest, CloseOne, Record, FlushRecord, Recorded, Suspend, Abort, PriceMoves,
     BrokerCloses, DealsShown, MoneyMoves, Midnight, database, vars
<1> QED BY <1>1, <1>2, <1>3, <1>4, <1>5

\* As long as no money comes from outside, the terminal answers, its deals are
\* on time and no request closes positions, the monitor never takes what the
\* trading of the day made for a movement of money: neither the balance of the
\* morning nor the highest equity is reset.  The entry has to be free: its
\* commission is a movement of money to the monitor.
THEOREM MarksAreKept ==
    ASSUME Fee = 0
    PROVE  Spec => BaselineKept
<1> DEFINE IInv == Access /\ Figures /\ RowVolumes /\ CountInv /\ TruthInv /\ BaseInv
<1>0. EntryIsFree
  BY DEF EntryIsFree
<1>1. Init => IInv
  BY AccessInit, FiguresInit, CountInit, TruthInit, BaseInit
<1>2. Access /\ Figures /\ CountInv /\ TruthInv /\ [Next]_vars => TruthInv'
  BY <1>0, AloneStep, DealsStep, TruthStep DEF CountInv, TruthInv
<1>3. IInv /\ [Next]_vars => IInv'
  BY <1>2, AccessStep, FiguresStep, RowVolumesStep, CountInvStep, BaseStep
<1>4. IInv /\ [Next]_vars =>
         [Committed("day")' = Committed("day") /\ today = 0 /\ OnlyTrading
          => /\ Committed("start")' = Committed("start")
             /\ Committed("peak")' >= Committed("peak")]_vars
  BY MarksCommitted DEF Trading
<1> QED BY <1>1, <1>3, <1>4, PTL DEF Spec, BaselineKept
=============================================================================
