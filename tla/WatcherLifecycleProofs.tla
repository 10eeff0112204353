----------------------- MODULE WatcherLifecycleProofs -----------------------
(***************************************************************************)
(* Proofs about the life of a watcher signal, for all levels, ratios and   *)
(* paths of the price: the types, the promises of SignalLife step by step, *)
(* and that the result of a signal ended at a level is never above what    *)
(* the same management, following every tick, is sure of ("ideal").        *)
(*                                                                         *)
(* The argument of the last: the price moves by one point, so the history  *)
(* reaches every target at its price, in order.  As long as it runs with   *)
(* m targets reached, no candle shows the next one; if it was stopped then *)
(* some candle shows that stop, and none before it the next target.  The   *)
(* row, that stops before it counts a target, cannot count the next one.   *)
(***************************************************************************)
EXTENDS WatcherLifecycle, NaturalsInduction, WellFoundedInduction, TLAPS

-----------------------------------------------------------------------------
(* Levels, parts and statuses.                                             *)

\* The levels, one by one.
LEMMA Levels ==
    /\ Entry \in Int /\ StopLoss \in Int /\ Targets[1] \in Int /\ Targets[2] \in Int
    /\ Targets[3] \in Int /\ Len(Targets) = 3
    /\ StopLoss < Entry /\ Entry < Targets[1]
    /\ Targets[1] < Targets[2] /\ Targets[2] < Targets[3]
<1>1. \A i \in 1..Len(Targets) : Targets[i] \in Int
  BY LevelsAssumption
<1> QED
  BY <1>1, LevelsAssumption

\* A part is taken from what is left.
LEMMA Parts ==
    ASSUME NEW index \in {1, 2, 3}, NEW n \in 0..Whole
    PROVE  Fraction(index, n) \in 0..n
<1>1. n \in Nat /\ (index <= Len(Ratios) => Ratios[index] \in Nat)
  BY ManagementAssumption
<1> QED
  BY <1>1 DEF Fraction, Least

\* A stop only protects more, and stays below the first target.
LEMMA Protects ==
    ASSUME NEW level \in Int
    PROVE  /\ Protected(level) \in Int /\ Protected(level) >= level
           /\ Protected(Protected(level)) = Protected(level)
           /\ level < Targets[1] => Protected(level) < Targets[1]
  BY Levels, ManagementAssumption DEF Protected, Most

\* The targets a row has counted.
LEMMA ReachedIs ==
    /\ status = "TP1_HIT" => Reached = 1
    /\ status = "TP2_HIT" => Reached = 2
    /\ status = "TP3_HIT" => Reached = 3
    /\ status \notin {"TP1_HIT", "TP2_HIT", "TP3_HIT"} => Reached = 0
    /\ Reached \in 0..3
<1>1. TargetStatuses[1] = "TP1_HIT" /\ TargetStatuses[2] = "TP2_HIT"
      /\ TargetStatuses[3] = "TP3_HIT"
  BY DEF TargetStatuses
<1>2. 1..3 = {1, 2, 3}
  OBVIOUS
<1> HIDE DEF TargetStatuses
<1>3. ASSUME NEW i \in {1, 2, 3}, status = TargetStatuses[i] PROVE Reached = i
  <2>1. \E j \in 1..3 : TargetStatuses[j] = status
    BY <1>2, <1>3
  <2>2. \A j \in 1..3 : TargetStatuses[j] = status => j = i
    BY <1>1, <1>2, <1>3
  <2>3. (CHOOSE j \in 1..3 : TargetStatuses[j] = status) = i
    BY <1>2, <1>3, <2>2
  <2> QED
    BY <2>1, <2>3 DEF Reached
<1>4. status \notin {"TP1_HIT", "TP2_HIT", "TP3_HIT"} => Reached = 0
  <2>1. status \notin {"TP1_HIT", "TP2_HIT", "TP3_HIT"} =>
          ~ \E j \in 1..3 : TargetStatuses[j] = status
    BY <1>1, <1>2
  <2> QED
    BY <2>1 DEF Reached
<1> QED
  BY <1>1, <1>3, <1>4

\* What a candle may lead to.
LEMMA TransitionIs ==
    ASSUME NEW candle \in Candles, TypeOK, Open, Transition(candle) # status
    PROVE  \/ Pending /\ Transition(candle) \in {"ACTIVE", "INVALIDATED"}
           \/ ~Pending /\ candle.low <= stop /\ Transition(candle) = "SL_HIT"
           \/ /\ ~Pending /\ candle.low > stop /\ Reached < 3
              /\ candle.high >= Targets[Reached + 1]
              /\ Transition(candle) = TargetStatuses[Reached + 1]
<1>1. candle.low \in Int /\ stop \in Int
  BY DEF Candles, TypeOK
<1>2. CASE Pending
  BY <1>2 DEF Transition
<1>3. CASE ~Pending /\ candle.low <= stop
  BY <1>1, <1>3 DEF Transition
<1>4. CASE ~Pending /\ ~(candle.low <= stop)
  BY <1>1, <1>4, Levels DEF Transition
<1> QED
  BY <1>2, <1>3, <1>4

\* A candle at or below the stop of a row in position ends it.
LEMMA StopEnds ==
    ASSUME NEW candle \in Candles, TypeOK, Open, ~Pending, candle.low <= stop
    PROVE  Transition(candle) = "SL_HIT" /\ "SL_HIT" # status
<1>1. candle.low \in Int /\ stop \in Int
  BY DEF Candles, TypeOK
<1>2. Transition(candle) = "SL_HIT"
  BY <1>1 DEF Transition
<1> QED
  BY <1>2 DEF Open, Life!Live

-----------------------------------------------------------------------------
(* Types.                                                                  *)

\* What has been read of the market is a sequence of candles.
LEMMA RelevantTyped ==
    ASSUME candles \in Seq(Candles), forming \in Candles, midMinute \in BOOLEAN
    PROVE  Relevant \in Seq(Candles)
<1> DEFINE read == Append(candles, forming)
<1>1. read \in Seq(Candles) /\ Len(read) = Len(candles) + 1 /\ Len(candles) \in Nat
  OBVIOUS
<1>2. Relevant = IF midMinute THEN Tail(read) ELSE read
  BY DEF Relevant
<1>3. Len(<<>>) = 0
  OBVIOUS
<1> HIDE DEF read
<1>4. read # <<>>
  BY <1>1, <1>3
<1>5. Tail(read) \in Seq(Candles)
  BY <1>1, <1>4
<1> QED
  BY <1>1, <1>2, <1>5

\* The position after a move of the price.
LEMMA TicksTyped ==
    ASSUME TypeOK, NEW p \in Int
    PROVE  FollowTicks(p) \in [in : BOOLEAN, reached : 0..3, stop : Int, left : 0..Whole,
                             booked : Int]
<1> DEFINE next == ideal.reached + 1
           part == IF next = Len(Targets) THEN ideal.left
                   ELSE Fraction(next, ideal.left)
<1>1. /\ ideal \in [in : BOOLEAN, reached : 0..3, stop : Int, left : 0..Whole, booked : Int]
      /\ Entry \in Int /\ Len(Targets) = 3 /\ Whole \in Nat
  BY Levels, ManagementAssumption DEF TypeOK
<1>2. next <= Len(Targets) => part \in 0..ideal.left
  <2>1. ideal.left \in 0..Whole /\ ideal.left \in Nat
    BY <1>1
  <2>2. next <= 3 => next \in {1, 2, 3}
    BY <1>1
  <2> QED
    BY <1>1, <2>1, <2>2, Parts
<1>3. /\ ideal.left * (p - Entry) \in Int
      /\ next <= Len(Targets) => part * (p - Entry) \in Int
  <2>1. \A x, y \in Int : x * y \in Int
    OBVIOUS
  <2>2. ideal.left \in Int /\ p - Entry \in Int /\ (next <= Len(Targets) => part \in Int)
    BY <1>1, <1>2
  <2> HIDE DEF next, part
  <2> QED
    BY <2>1, <2>2
<1>4. Protected(ideal.stop) \in Int
  BY <1>1, Protects
<1> DEFINE gain == part * (p - Entry)
           loss == ideal.left * (p - Entry)
<1>5. FollowTicks(p) =
        IF ~ideal.in THEN [ideal EXCEPT !.in = (p = Entry)]
        ELSE IF p <= ideal.stop
        THEN [ideal EXCEPT !.booked = @ + loss, !.left = 0]
        ELSE IF next <= Len(Targets) /\ p >= Targets[next]
        THEN [ideal EXCEPT !.reached = next, !.left = @ - part,
                             !.booked = @ + gain, !.stop = Protected(@)]
        ELSE ideal
  BY DEF FollowTicks
<1>6. next <= Len(Targets) => next \in 0..3 /\ ideal.left - part \in 0..Whole
  BY <1>1, <1>2
<1>7. ideal.booked + loss \in Int
      /\ (next <= Len(Targets) => ideal.booked + gain \in Int)
  BY <1>1, <1>3
<1> HIDE DEF next, part, gain, loss
<1>8. CASE ~ideal.in
  BY <1>1, <1>5, <1>8
<1>9. CASE ideal.in /\ p <= ideal.stop
  <2>1. FollowTicks(p) = [ideal EXCEPT !.booked = ideal.booked + loss, !.left = 0]
    BY <1>5, <1>9
  <2>2. 0 \in 0..Whole
    BY <1>1
  <2> QED
    BY <1>1, <1>7, <2>1, <2>2
<1>10. CASE ideal.in /\ ~(p <= ideal.stop)
  BY <1>1, <1>4, <1>5, <1>6, <1>7, <1>10
<1> QED
  BY <1>8, <1>9, <1>10

\* The target a new status stands for, or 0.
Hit(new) == IF \E i \in 1..3 : TargetStatuses[i] = new
            THEN CHOOSE i \in 1..3 : TargetStatuses[i] = new ELSE 0

\* Which one it is.
LEMMA HitIs ==
    /\ Hit("TP1_HIT") = 1 /\ Hit("TP2_HIT") = 2 /\ Hit("TP3_HIT") = 3
    /\ \A new : new \notin {"TP1_HIT", "TP2_HIT", "TP3_HIT"} => Hit(new) = 0
<1>1. TargetStatuses[1] = "TP1_HIT" /\ TargetStatuses[2] = "TP2_HIT"
      /\ TargetStatuses[3] = "TP3_HIT"
  BY DEF TargetStatuses
<1>2. 1..3 = {1, 2, 3}
  OBVIOUS
<1> HIDE DEF TargetStatuses
<1>3. ASSUME NEW i \in {1, 2, 3} PROVE Hit(TargetStatuses[i]) = i
  <2>1. \A j \in 1..3 : TargetStatuses[j] = TargetStatuses[i] => j = i
    BY <1>1, <1>2, <1>3
  <2>2. (CHOOSE j \in 1..3 : TargetStatuses[j] = TargetStatuses[i]) = i
    BY <1>2, <1>3, <2>1
  <2> QED
    BY <1>2, <2>2 DEF Hit
<1>4. ASSUME NEW new, new \notin {"TP1_HIT", "TP2_HIT", "TP3_HIT"} PROVE Hit(new) = 0
  <2>1. ~ \E j \in 1..3 : TargetStatuses[j] = new
    BY <1>1, <1>2, <1>4
  <2> QED
    BY <2>1 DEF Hit
<1> QED
  BY <1>1, <1>3, <1>4

\* What a row becomes with a new status.
LEMMA ApplyStep ==
    ASSUME TypeOK, NEW new \in Life!Live \union Life!Terminal, NEW exit, Apply(new, exit)
    PROVE  LET part == IF Hit(new) = 0 THEN 0 ELSE Fraction(Hit(new), openFraction)
           IN  /\ status' = new /\ entryType' = entryType
               /\ part \in 0..openFraction /\ openFraction' = openFraction - part
               /\ openFraction' \in 0..Whole
               /\ Hit(new) = 0 => bookedR' = bookedR /\ stop' = stop
                                  /\ openFraction' = openFraction
               /\ Hit(new) # 0 => /\ bookedR' = bookedR + part * (Targets[Hit(new)] - Entry)
                                  /\ stop' = Protected(stop)
               /\ bookedR' \in Int /\ stop' \in Int
               /\ result' = IF new \in {"TP3_HIT", "SL_HIT", "EXPIRED"} /\ ~Pending
                               /\ exit # NoResult
                            THEN bookedR' + openFraction' * (exit - Entry) ELSE NoResult
<1> DEFINE hit == Hit(new)
           part == IF hit = 0 THEN 0 ELSE Fraction(hit, openFraction)
<1>1. /\ status' = new /\ openFraction' = openFraction - part
      /\ bookedR' = bookedR + (IF hit = 0 THEN 0 ELSE part * (Targets[hit] - Entry))
      /\ stop' = IF hit = 0 THEN stop ELSE Protected(stop)
      /\ result' = IF new \in Closing \ {"INVALIDATED"} /\ ~Pending /\ exit # NoResult
                   THEN bookedR' + openFraction' * (exit - Entry) ELSE NoResult
      /\ UNCHANGED entryType
  BY DEF Apply, Hit
<1>2. Closing \ {"INVALIDATED"} = {"TP3_HIT", "SL_HIT", "EXPIRED"}
  BY DEF Closing, Life!Terminal
<1>3. hit \in {0, 1, 2, 3} /\ (hit # 0 => hit \in {1, 2, 3})
  BY HitIs
<1>4. /\ openFraction \in 0..Whole /\ Whole \in Nat /\ bookedR \in Int /\ stop \in Int
      /\ openFraction \in Nat
  BY ManagementAssumption DEF TypeOK
<1> HIDE DEF hit
<1>5. part \in 0..openFraction
  BY <1>3, <1>4, Parts
<1> HIDE DEF part
<1>6. openFraction' \in 0..Whole /\ (hit = 0 => openFraction' = openFraction)
  <2>1. hit = 0 => part = 0
    BY DEF part
  <2> QED
    BY <1>1, <1>4, <1>5, <2>1
<1>7. hit # 0 => part * (Targets[hit] - Entry) \in Int
  <2>1. \A x, y \in Int : x * y \in Int
    OBVIOUS
  <2>2. part \in Int /\ (hit # 0 => Targets[hit] - Entry \in Int)
    BY <1>3, <1>4, <1>5, Levels
  <2> QED
    BY <2>1, <2>2
<1>8. bookedR' \in Int /\ (hit = 0 => bookedR' = bookedR)
  BY <1>1, <1>4, <1>7
<1>9. stop' \in Int
  BY <1>1, <1>4, Protects
<1> QED
  BY <1>1, <1>2, <1>5, <1>6, <1>8, <1>9 DEF hit, part

\* A candle of what was read.
LEMMA AmongRead ==
    ASSUME TypeOK
    PROVE  /\ \A i \in DOMAIN Relevant : Relevant[i] \in Candles
           /\ Telling \subseteq DOMAIN Relevant
           /\ Telling # {} => Min(Telling) \in Telling
           /\ \A i \in Telling : Min(Telling) <= i
<1>1. Relevant \in Seq(Candles)
  BY RelevantTyped DEF TypeOK
<1>2. DOMAIN Relevant = 1..Len(Relevant) /\ Len(Relevant) \in Nat
  BY <1>1
<1>3. \A i \in DOMAIN Relevant : Relevant[i] \in Candles
  BY <1>1
<1>4. Telling \subseteq DOMAIN Relevant /\ Telling \in SUBSET Nat
  BY <1>2 DEF Telling
<1> DEFINE Below == OpToRel(<, Nat)
<1>5. ASSUME Telling # {}
      PROVE  Min(Telling) \in Telling /\ \A i \in Telling : Min(Telling) <= i
  <2>1. PICK n \in Telling : \A m \in Telling : <<m, n>> \notin Below
    <3> HIDE DEF Below
    <3>1. IsWellFoundedOn(Below, Nat)
      BY NatLessThanWellFounded DEF Below
    <3> QED
      BY <1>4, <1>5, <3>1, WFMin
  <2>2. \A m \in Telling : ~(m < n)
    BY <1>4, <2>1 DEF OpToRel
  <2>3. \A m \in Telling : n <= m
    BY <1>4, <2>2
  <2> QED
    BY <2>3 DEF Min
<1> QED
  BY <1>3, <1>4, <1>5

\* The step a round of the tracker takes for a candle.
LEMMA AdvanceStep ==
    ASSUME TypeOK, Advance
    PROVE  \E k \in Telling, new \in Life!Live \union Life!Terminal, exit \in Int :
             /\ \A i \in Telling : k <= i
             /\ Relevant[k] \in Candles
             /\ new = Transition(Relevant[k]) /\ new # status
             /\ exit = (IF new = "TP3_HIT" THEN Targets[3] ELSE stop)
             /\ Apply(new, exit)
             /\ Open /\ UNCHANGED <<market, ideal>>
<1> DEFINE k == Min(Telling)
           new == Transition(Relevant[k])
           exit == IF new = "TP3_HIT" THEN Targets[3] ELSE stop
<1>1. Telling # {} /\ Open /\ Apply(new, exit) /\ UNCHANGED <<market, ideal>>
  BY DEF Advance
<1>2. k \in Telling /\ (\A i \in Telling : k <= i) /\ Relevant[k] \in Candles
  BY <1>1, AmongRead
<1>3. new # status
  BY <1>2 DEF Telling
<1>4. exit \in Int
  BY Levels DEF TypeOK
<1>5. new \in Life!Live \union Life!Terminal
  <2> HIDE DEF k
  <2>1. \/ new \in {"ACTIVE", "INVALIDATED", "SL_HIT"}
        \/ Reached < 3 /\ new = TargetStatuses[Reached + 1]
    BY <1>1, <1>2, <1>3, TransitionIs
  <2>2. Reached < 3 => TargetStatuses[Reached + 1] \in {"TP1_HIT", "TP2_HIT", "TP3_HIT"}
    BY ReachedIs DEF TargetStatuses
  <2> HIDE DEF new
  <2> QED
    BY <2>1, <2>2 DEF Life!Live, Life!Terminal
<1> HIDE DEF k, new, exit
<1> QED
  BY <1>1, <1>2, <1>3, <1>4, <1>5 DEF k, new, exit

\* The step of a signal past its time: at a price that was read, or without any.
LEMMA ExpireStep ==
    ASSUME TypeOK, Expire
    PROVE  \E exit \in Int \union {NoResult} :
             Open /\ Apply("EXPIRED", exit) /\ UNCHANGED <<market, ideal>>
<1>1. PICK read \in 0..Len(Relevant) :
        Open /\ Apply("EXPIRED", LastClose(read)) /\ UNCHANGED <<market, ideal>>
  BY DEF Expire
<1>2. Relevant \in Seq(Candles)
  BY RelevantTyped DEF TypeOK
<1>3. CASE read = 0
  <2>1. LastClose(read) = NoResult
    BY <1>3 DEF LastClose
  <2> QED
    BY <1>1, <2>1
<1>4. CASE read # 0
  <2>1. read \in DOMAIN Relevant
    BY <1>2, <1>4
  <2>2. Relevant[read] \in Candles
    BY <1>2, <2>1
  <2>3. LastClose(read) \in Int
    BY <1>4, <2>2 DEF LastClose, Candles
  <2> QED
    BY <1>1, <2>3
<1> QED
  BY <1>3, <1>4

\* A row written by the tracker has its types.
LEMMA ApplyTyped ==
    ASSUME TypeOK, NEW new \in Life!Live \union Life!Terminal,
           NEW exit \in Int \union {NoResult}, Apply(new, exit)
    PROVE  /\ entryType' = entryType /\ status' \in Life!Live \union Life!Terminal
           /\ stop' \in Int /\ openFraction' \in 0..Whole /\ bookedR' \in Int
           /\ result' \in Int \union {NoResult}
<1>1. /\ entryType' = entryType /\ status' = new /\ stop' \in Int
      /\ openFraction' \in 0..Whole /\ bookedR' \in Int
      /\ result' = IF new \in {"TP3_HIT", "SL_HIT", "EXPIRED"} /\ ~Pending
                      /\ exit # NoResult
                   THEN bookedR' + openFraction' * (exit - Entry) ELSE NoResult
  BY ApplyStep
<1>2. exit # NoResult => bookedR' + openFraction' * (exit - Entry) \in Int
  <2> SUFFICES ASSUME exit # NoResult
               PROVE  bookedR' + openFraction' * (exit - Entry) \in Int
    OBVIOUS
  <2>1. \A x, y \in Int : x * y \in Int
    OBVIOUS
  <2>2. openFraction' \in Int /\ exit - Entry \in Int
    BY <1>1, Levels
  <2>3. openFraction' * (exit - Entry) \in Int
    BY <2>1, <2>2
  <2> QED
    BY <1>1, <2>3
<1> QED
  BY <1>1, <1>2

\* Every step keeps the types.
LEMMA LifeTyped == TypeOK /\ [Next]_vars => TypeOK'
<1> SUFFICES ASSUME TypeOK, [Next]_vars PROVE TypeOK'
  OBVIOUS
<1> USE DEF market, row
<1>1. CASE Tick
  <2>1. /\ ticks' = ticks + 1 /\ price' \in Int /\ ideal' = FollowTicks(price')
        /\ UNCHANGED <<midMinute, row>>
    BY <1>1 DEF Tick, TypeOK
  <2>2. ideal' \in [in : BOOLEAN, reached : 0..3, stop : Int, left : 0..Whole,
                      booked : Int]
    BY <2>1, TicksTyped
  <2>3. forming' \in Candles /\ candles' \in Seq(Candles)
    <3>1. Candle(price') \in Candles
      BY <2>1 DEF Candle, Candles
    <3>2. [low |-> Least(forming.low, price'), high |-> Most(forming.high, price'),
           close |-> price'] \in Candles
      BY <2>1 DEF Candles, Least, Most, TypeOK
    <3>3. candles \in Seq(Candles) /\ forming \in Candles
      BY DEF TypeOK
    <3>4. Append(candles, forming) \in Seq(Candles)
      BY <3>3
    <3>5. \/ /\ forming' = [low |-> Least(forming.low, price'),
                           high |-> Most(forming.high, price'), close |-> price']
             /\ candles' = candles
          \/ candles' = Append(candles, forming) /\ forming' = Candle(price')
      BY <1>1 DEF Tick
    <3> QED
      BY <3>1, <3>2, <3>3, <3>4, <3>5
  <2> QED
    BY <2>1, <2>2, <2>3 DEF TypeOK
<1>2. CASE QuietMinute
  <2>1. Candle(price) \in Candles
    BY DEF Candle, Candles, TypeOK
  <2>2. candles' \in Seq(Candles)
    BY <1>2 DEF QuietMinute, TypeOK
  <2> QED
    BY <1>2, <2>1, <2>2 DEF QuietMinute, TypeOK
<1>3. ASSUME NEW new \in Life!Live \union Life!Terminal, NEW exit \in Int \union {NoResult},
             Apply(new, exit), UNCHANGED <<market, ideal>>
      PROVE  TypeOK'
  BY <1>3, ApplyTyped DEF TypeOK
<1>4. CASE Advance
  BY <1>3, <1>4, AdvanceStep
<1>5. CASE Expire
  <2>1. "EXPIRED" \in Life!Live \union Life!Terminal
    BY DEF Life!Terminal
  <2> QED
    BY <1>3, <1>5, <2>1, ExpireStep
<1>6. CASE UNCHANGED vars
  BY <1>6 DEF vars, TypeOK
<1> QED
  BY <1>1, <1>2, <1>4, <1>5, <1>6 DEF Next

\* The first state has its types.
LEMMA LifeInit == Init => TypeOK
<1> SUFFICES ASSUME Init PROVE TypeOK
  OBVIOUS
<1>1. price \in Int
  <2>1. entryType \in {"MARKET", "STOP", "LIMIT"} /\
        price \in CASE entryType = "MARKET" -> {Entry}
                    [] entryType = "STOP"   -> StopLoss + 1..Entry - 1
                    [] entryType = "LIMIT"  -> Entry + 1..Targets[1] - 1
    BY DEF Init
  <2>2. CASE entryType = "MARKET"
    BY <2>1, <2>2, Levels
  <2>3. CASE entryType = "STOP"
    BY <2>1, <2>3, Levels
  <2>4. CASE entryType = "LIMIT"
    BY <2>1, <2>4, Levels
  <2> QED
    BY <2>1, <2>2, <2>3, <2>4
<1>2. forming \in Candles /\ candles \in Seq(Candles)
  BY <1>1 DEF Init, Candle, Candles
<1>3. status \in Life!Live \union Life!Terminal
  BY DEF Init, Life!Live
<1>4. Whole \in 0..Whole /\ StopLoss \in Int
  BY ManagementAssumption, Levels
<1> QED
  BY <1>1, <1>2, <1>3, <1>4 DEF Init, TypeOK

\* The type invariant of the model.
THEOREM LifeTypes == Spec => []TypeOK
<1> QED
  BY LifeInit, LifeTyped, PTL DEF Spec

-----------------------------------------------------------------------------
(* The promises of SignalLife.                                             *)

\* Each step of the tracker is one of SignalLife, or leaves what it talks of alone.
LEMMA LifeStep == TypeOK /\ [Next]_vars => [Life!Step]_(Life!vars)
<1> SUFFICES ASSUME TypeOK, [Next]_vars PROVE Life!Step \/ UNCHANGED Life!vars
  OBVIOUS
<1>0. Pending <=> Life!Waits(entryType, status)
  BY DEF Pending
<1>1. ASSUME NEW new \in Life!Live \union Life!Terminal, NEW exit \in Int \union {NoResult},
             Apply(new, exit), new \in Life!Following(entryType, status),
             exit = NoResult => new = "EXPIRED"
      PROVE  Life!Step
  <2> DEFINE part == IF Hit(new) = 0 THEN 0 ELSE Fraction(Hit(new), openFraction)
  <2>1. /\ status' = new /\ entryType' = entryType
        /\ part \in 0..openFraction /\ openFraction' = openFraction - part
        /\ Hit(new) = 0 => stop' = stop /\ openFraction' = openFraction
        /\ Hit(new) # 0 => stop' = Protected(stop)
        /\ bookedR' \in Int
        /\ openFraction' \in 0..Whole
        /\ result' = IF new \in {"TP3_HIT", "SL_HIT", "EXPIRED"} /\ ~Pending
                        /\ exit # NoResult
                     THEN bookedR' + openFraction' * (exit - Entry) ELSE NoResult
    BY <1>1, ApplyStep
  <2> HIDE DEF part
  <2>2. stop' >= stop
    BY <2>1, Protects DEF TypeOK
  <2>3. openFraction' <= openFraction
    BY <2>1, ManagementAssumption DEF TypeOK
  <2>4. openFraction' < openFraction => status' \in {"TP1_HIT", "TP2_HIT", "TP3_HIT"}
    <3>1. Hit(new) # 0 => new \in {"TP1_HIT", "TP2_HIT", "TP3_HIT"}
      BY HitIs
    <3>2. ~(openFraction < openFraction)
      BY ManagementAssumption DEF TypeOK
    <3> QED
      BY <2>1, <3>1, <3>2
  <2>5. new \in {"SL_HIT", "TP3_HIT"} => ~Pending /\ exit \in Int /\ exit # NoResult
    <3>1. new \in {"SL_HIT", "TP3_HIT"} => ~Pending
      BY <1>0, <1>1 DEF Life!Following, Life!Waits, Life!Unanswered
    <3> QED
      BY <1>1, <3>1, BoundsAssumption
  <2>6. new \in {"SL_HIT", "TP3_HIT"} => result' # NoResult
    <3>0. SUFFICES ASSUME new \in {"SL_HIT", "TP3_HIT"} PROVE result' # NoResult
      OBVIOUS
    <3>1. \A x, y \in Int : x * y \in Int
      OBVIOUS
    <3>2. openFraction' \in Int /\ exit - Entry \in Int
      BY <2>1, <2>5, <3>0, Levels
    <3>3. openFraction' * (exit - Entry) \in Int
      BY <3>1, <3>2
    <3>4. result' \in Int
      BY <2>1, <2>5, <3>0, <3>3
    <3> QED
      BY <3>4, BoundsAssumption
  <2>7. result' # NoResult =>
          new \in Life!Terminal \ {"INVALIDATED"} /\ ~Life!Waits(entryType, status)
    BY <1>0, <2>1 DEF Life!Terminal
  <2> QED
    BY <1>1, <2>1, <2>2, <2>3, <2>4, <2>6, <2>7 DEF Life!Step
<1>2. ASSUME Open PROVE "EXPIRED" \in Life!Following(entryType, status)
  <2>1. entryType \in {"MARKET", "STOP", "LIMIT"}
    BY DEF TypeOK
  <2> QED
    BY <1>2, <2>1 DEF Open, Life!Live, Life!Following, Life!Waits, Life!Unanswered
<1>3. CASE Advance
  <2>1. PICK k \in Telling, new \in Life!Live \union Life!Terminal, exit \in Int :
          /\ Relevant[k] \in Candles /\ new = Transition(Relevant[k]) /\ new # status
          /\ Apply(new, exit) /\ Open
    BY <1>3, AdvanceStep
  <2>0. exit # NoResult
    BY BoundsAssumption
  <2>2. \/ Pending /\ new \in {"ACTIVE", "INVALIDATED"}
        \/ ~Pending /\ new = "SL_HIT"
        \/ ~Pending /\ Reached < 3 /\ new = TargetStatuses[Reached + 1]
    BY <2>1, TransitionIs
  <2>3. new \in Life!Following(entryType, status)
    <3>1. CASE Pending
      BY <1>0, <2>2, <3>1 DEF Life!Following, Life!Waits, Life!Unanswered
    <3>2. CASE ~Pending
      <4>1. status \in {"CREATED", "CONFIRMED"} => entryType = "MARKET"
        BY <3>2, <1>0 DEF Life!Waits, Life!Unanswered, TypeOK
      <4>2. /\ status \in {"CREATED", "CONFIRMED", "ACTIVE"} => TargetStatuses[Reached + 1] = "TP1_HIT"
            /\ status = "TP1_HIT" => TargetStatuses[Reached + 1] = "TP2_HIT"
            /\ status = "TP2_HIT" => TargetStatuses[Reached + 1] = "TP3_HIT"
        BY ReachedIs DEF TargetStatuses
      <4>3. status \in {"CREATED", "CONFIRMED", "ACTIVE", "TP1_HIT", "TP2_HIT"}
        BY <2>1 DEF Open, Life!Live
      <4> QED
        BY <2>2, <3>2, <4>1, <4>2, <4>3 DEF Life!Following, Life!Waits, Life!Unanswered
    <3> QED
      BY <3>1, <3>2
  <2> QED
    BY <1>1, <2>0, <2>1, <2>3
<1>4. CASE Expire
  <2>1. "EXPIRED" \in Life!Live \union Life!Terminal
    BY DEF Life!Terminal
  <2> QED
    BY <1>1, <1>2, <1>4, <2>1, ExpireStep
<1>5. ASSUME UNCHANGED row PROVE UNCHANGED Life!vars
  BY <1>5 DEF row, Life!vars
<1>6. CASE Tick
  BY <1>5, <1>6 DEF Tick
<1>7. CASE QuietMinute
  BY <1>5, <1>7 DEF QuietMinute
<1>8. CASE UNCHANGED vars
  BY <1>5, <1>8 DEF vars
<1> QED
  BY <1>3, <1>4, <1>6, <1>7, <1>8 DEF Next

\* The row of a signal keeps the promises of SignalLife: forward only, targets in their
\* order, a stop that only protects more, and one result, written at the end of what
\* was in position.
THEOREM RowKeepsItsPromises == Spec => LifeSpec
<1>1. Init => Life!Init
  BY DEF Init, Life!Init, Life!Unanswered
<1>2. TypeOK /\ [Next]_vars => [Life!Step]_(Life!vars)
  BY LifeStep
<1> QED
  BY <1>1, <1>2, LifeTypes, PTL DEF Spec, LifeSpec, Life!Spec

-----------------------------------------------------------------------------
(* The result and the history.                                             *)

\* What the targets leave of the position, once m of them are reached.
OpenAt(m) ==
    IF m = 0 THEN Whole
    ELSE IF m = 1 THEN Whole - Fraction(1, Whole)
    ELSE IF m = 2 THEN Whole - Fraction(1, Whole) - Fraction(2, Whole - Fraction(1, Whole))
    ELSE 0

\* The stop by then, and the result booked.
StopAt(m) == IF m = 0 THEN StopLoss ELSE Protected(StopLoss)
BookedAt(m) ==
    IF m = 0 THEN 0
    ELSE IF m = 1 THEN Fraction(1, Whole) * (Targets[1] - Entry)
    ELSE Fraction(1, Whole) * (Targets[1] - Entry)
         + Fraction(2, OpenAt(1)) * (Targets[2] - Entry)

\* The result that is sure by then: what is booked, and the rest at the stop; or at the
\* last target.
SureAt(m) ==
    IF m = 3 THEN BookedAt(2) + OpenAt(2) * (Targets[3] - Entry)
    ELSE BookedAt(m) + OpenAt(m) * (StopAt(m) - Entry)

Read == Append(candles, forming)

\* A position that trades, m targets reached: no price has reached the next one.
Running(m) ==
    /\ ideal.reached = m
    /\ m < 3 =>
         /\ ideal.stop = StopAt(m) /\ ideal.left = OpenAt(m)
         /\ ideal.booked = BookedAt(m)
         /\ \A i \in DOMAIN Read : Read[i].high < Targets[m + 1]
         /\ price < Targets[m + 1]
         /\ ideal.in => price > StopAt(m)
         /\ ~ideal.in => (m = 0 /\ price < Entry)
    /\ m = 3 => ideal.in /\ ideal.left = 0 /\ ideal.booked = SureAt(3)

\* A position stopped with m targets reached: a candle shows the stop, and no candle
\* before that one shows the next target.
Stopped(m) ==
    /\ m < 3 /\ ideal.in /\ ideal.left = 0 /\ ideal.booked = SureAt(m)
    /\ \E j \in DOMAIN Read :
         /\ Read[j].low <= StopAt(m)
         /\ \A i \in DOMAIN Read : i < j => Read[i].high < Targets[m + 1]

\* The row is never ahead of the position.
RowAt(m) ==
    /\ Open => /\ Reached <= m /\ stop = StopAt(Reached)
               /\ openFraction = OpenAt(Reached) /\ bookedR = BookedAt(Reached)
    /\ AtLevel => result \in Int /\ result <= SureAt(m)

Behind == \E m \in 0..3 : RowAt(m) /\ (Running(m) \/ Stopped(m))
FloorInv == (entryType # "LIMIT" /\ ~midMinute) => Behind

\* More of a part, at a better price, is worth more.
LEMMA Worth ==
    ASSUME NEW n \in Nat, NEW x \in Int, NEW y \in Int, x <= y
    PROVE  n * x \in Int /\ n * y \in Int /\ n * x <= n * y
<1>1. \A i, j \in Int : i * j \in Int
  OBVIOUS
<1>2. n * (y - x) >= 0
  OBVIOUS
<1>3. n * (y - x) = n * y - n * x
  OBVIOUS
<1> QED
  BY <1>1, <1>2, <1>3

\* What is left after each target, the stops and what is booked.
LEMMA Sizes ==
    /\ OpenAt(0) = Whole /\ OpenAt(0) \in 0..Whole
    /\ OpenAt(1) = OpenAt(0) - Fraction(1, OpenAt(0)) /\ OpenAt(1) \in 0..Whole
    /\ OpenAt(2) = OpenAt(1) - Fraction(2, OpenAt(1)) /\ OpenAt(2) \in 0..Whole
    /\ Fraction(1, OpenAt(0)) \in 0..OpenAt(0) /\ Fraction(2, OpenAt(1)) \in 0..OpenAt(1)
    /\ Fraction(3, OpenAt(2)) \in 0..OpenAt(2)
    /\ OpenAt(3) = 0
<1>1. Whole \in Nat /\ Whole \in 0..Whole
  BY ManagementAssumption
<1>2. Fraction(1, Whole) \in 0..Whole
  BY <1>1, Parts
<1>3. OpenAt(1) = Whole - Fraction(1, Whole) /\ OpenAt(1) \in 0..Whole /\ OpenAt(0) = Whole
  BY <1>1, <1>2 DEF OpenAt
<1>4. Fraction(2, OpenAt(1)) \in 0..OpenAt(1)
  BY <1>3, Parts
<1>5. OpenAt(2) = OpenAt(1) - Fraction(2, OpenAt(1))
  BY <1>3 DEF OpenAt
<1>6. OpenAt(2) \in 0..Whole
  BY <1>1, <1>3, <1>4, <1>5
<1>7. Fraction(3, OpenAt(2)) \in 0..OpenAt(2)
  BY <1>6, Parts
<1>8. OpenAt(3) = 0
  BY DEF OpenAt
<1> QED
  BY <1>1, <1>2, <1>3, <1>4, <1>5, <1>6, <1>7, <1>8

\* The stops, from one target to the next.
LEMMA Stops ==
    /\ StopAt(0) = StopLoss /\ StopAt(1) = Protected(StopAt(0))
    /\ StopAt(2) = StopAt(1) /\ StopAt(2) = Protected(StopAt(1))
    /\ StopAt(0) \in Int /\ StopAt(1) \in Int /\ StopAt(2) \in Int
    /\ StopAt(0) < Entry /\ StopAt(0) <= StopAt(1)
    /\ \A m \in {0, 1, 2} : StopAt(m) < Targets[1]
  BY Levels, Protects DEF StopAt

\* What is booked from one target to the next.
LEMMA Books ==
    /\ BookedAt(0) = 0
    /\ BookedAt(1) = BookedAt(0) + Fraction(1, OpenAt(0)) * (Targets[1] - Entry)
    /\ BookedAt(2) = BookedAt(1) + Fraction(2, OpenAt(1)) * (Targets[2] - Entry)
    /\ BookedAt(0) \in Int /\ BookedAt(1) \in Int /\ BookedAt(2) \in Int
    /\ \A m \in {0, 1, 2} : SureAt(m) = BookedAt(m) + OpenAt(m) * (StopAt(m) - Entry)
    /\ SureAt(3) = BookedAt(2) + OpenAt(2) * (Targets[3] - Entry)
    /\ \A m \in 0..3 : SureAt(m) \in Int
<1>0. \A x, y \in Int : x * y \in Int
  OBVIOUS
<1>1. /\ Fraction(1, OpenAt(0)) \in Int /\ Fraction(2, OpenAt(1)) \in Int
      /\ OpenAt(0) \in Int /\ OpenAt(1) \in Int /\ OpenAt(2) \in Int /\ OpenAt(0) = Whole
  BY Sizes, ManagementAssumption
<1>2. /\ Targets[1] - Entry \in Int /\ Targets[2] - Entry \in Int /\ Targets[3] - Entry \in Int
      /\ \A m \in {0, 1, 2} : StopAt(m) - Entry \in Int
  BY Levels, Stops
<1>3. /\ Fraction(1, OpenAt(0)) * (Targets[1] - Entry) \in Int
      /\ Fraction(2, OpenAt(1)) * (Targets[2] - Entry) \in Int
      /\ OpenAt(2) * (Targets[3] - Entry) \in Int
      /\ \A m \in {0, 1, 2} : OpenAt(m) * (StopAt(m) - Entry) \in Int
  BY <1>0, <1>1, <1>2
<1>4. /\ BookedAt(0) = 0
      /\ BookedAt(1) = Fraction(1, OpenAt(0)) * (Targets[1] - Entry)
      /\ BookedAt(2) = Fraction(1, OpenAt(0)) * (Targets[1] - Entry)
                       + Fraction(2, OpenAt(1)) * (Targets[2] - Entry)
  BY <1>1 DEF BookedAt
<1>5. /\ BookedAt(0) = 0 /\ BookedAt(0) \in Int /\ BookedAt(1) \in Int /\ BookedAt(2) \in Int
      /\ BookedAt(1) = BookedAt(0) + Fraction(1, OpenAt(0)) * (Targets[1] - Entry)
      /\ BookedAt(2) = BookedAt(1) + Fraction(2, OpenAt(1)) * (Targets[2] - Entry)
  BY <1>3, <1>4
<1>6. /\ \A m \in {0, 1, 2} : SureAt(m) = BookedAt(m) + OpenAt(m) * (StopAt(m) - Entry)
      /\ SureAt(3) = BookedAt(2) + OpenAt(2) * (Targets[3] - Entry)
  BY DEF SureAt
<1>7. \A m \in {0, 1, 2} : SureAt(m) \in Int
  BY <1>3, <1>5, <1>6
<1>8. SureAt(3) \in Int
  BY <1>3, <1>5, <1>6
<1>9. 0..3 = {0, 1, 2, 3}
  OBVIOUS
<1> QED
  BY <1>5, <1>6, <1>7, <1>8, <1>9

\* A part closed at a target, the rest behind a stop that is no lower: nothing is lost.
LEMMA PartThenStop ==
    ASSUME NEW x \in Nat, NEW y \in Nat, NEW t \in Int, NEW s \in Int, NEW old \in Int,
           old <= t, old <= s
    PROVE  (x + y) * old <= x * t + y * s
<1>1. x * old <= x * t /\ x * old \in Int /\ x * t \in Int
  BY Worth
<1>2. y * old <= y * s /\ y * old \in Int /\ y * s \in Int
  BY Worth
<1>3. (x + y) * old = x * old + y * old
  OBVIOUS
<1> QED
  BY <1>1, <1>2, <1>3

\* The more targets are reached, the more is sure.
LEMMA Rising ==
    \A l, m \in 0..3 : l <= m => SureAt(l) <= SureAt(m)
<1> DEFINE x1 == Fraction(1, OpenAt(0))
           x2 == Fraction(2, OpenAt(1))
           o0 == OpenAt(0)
           o1 == OpenAt(1)
           o2 == OpenAt(2)
           t1 == Targets[1] - Entry
           t2 == Targets[2] - Entry
           t3 == Targets[3] - Entry
           s0 == StopAt(0) - Entry
           s1 == StopAt(1) - Entry
<1>1. /\ x1 \in Nat /\ x2 \in Nat /\ o0 \in Nat /\ o1 \in Nat /\ o2 \in Nat
      /\ o0 = x1 + o1 /\ o1 = x2 + o2
  BY Sizes, ManagementAssumption
<1>2. /\ t1 \in Int /\ t2 \in Int /\ t3 \in Int /\ s0 \in Int /\ s1 \in Int
      /\ s0 <= s1 /\ s1 <= t1 /\ t1 <= t2 /\ t2 <= t3
  BY Levels, Stops
<1>3. /\ SureAt(0) = BookedAt(0) + o0 * s0
      /\ SureAt(1) = BookedAt(1) + o1 * s1
      /\ SureAt(2) = BookedAt(2) + o2 * s1
      /\ SureAt(3) = BookedAt(2) + o2 * t3
      /\ BookedAt(1) = BookedAt(0) + x1 * t1
      /\ BookedAt(2) = BookedAt(1) + x2 * t2
      /\ BookedAt(0) \in Int /\ BookedAt(1) \in Int /\ BookedAt(2) \in Int
  BY Books, Stops
<1> HIDE DEF x1, x2, o0, o1, o2, t1, t2, t3, s0, s1
<1>4. \A i, j \in Int : i * j \in Int
  OBVIOUS
<1>5. /\ o0 * s0 \in Int /\ o1 * s1 \in Int /\ o2 * s1 \in Int /\ o2 * t3 \in Int
      /\ x1 * t1 \in Int /\ x2 * t2 \in Int
  BY <1>1, <1>2, <1>4
<1>6. o0 * s0 <= x1 * t1 + o1 * s1
  <2>1. s0 <= t1
    BY <1>2
  <2>2. (x1 + o1) * s0 <= x1 * t1 + o1 * s1
    BY <1>1, <1>2, <2>1, PartThenStop
  <2> QED
    BY <1>1, <2>2
<1>7. o1 * s1 <= x2 * t2 + o2 * s1
  <2>1. s1 <= t2 /\ s1 <= s1
    BY <1>2
  <2>2. (x2 + o2) * s1 <= x2 * t2 + o2 * s1
    BY <1>1, <1>2, <2>1, PartThenStop
  <2> QED
    BY <1>1, <2>2
<1>8. o2 * s1 <= o2 * t3
  <2>1. s1 <= t3
    BY <1>2
  <2> QED
    BY <1>1, <1>2, <2>1, Worth
<1>9. SureAt(0) <= SureAt(1)
  BY <1>3, <1>5, <1>6
<1>10. SureAt(1) <= SureAt(2)
  BY <1>3, <1>5, <1>7
<1>11. SureAt(2) <= SureAt(3)
  BY <1>3, <1>5, <1>8
<1>12. \A m \in 0..3 : SureAt(m) \in Int
  BY Books
<1>13. 0..3 = {0, 1, 2, 3}
  OBVIOUS
<1> QED
  BY <1>9, <1>10, <1>11, <1>12, <1>13

\* The candles before the last stay as they are, no low goes up, and the last one shows
\* the price.
GrownBy(p) ==
    /\ DOMAIN Read \subseteq DOMAIN Read' /\ DOMAIN Read' \subseteq Nat
    /\ \A i \in DOMAIN Read : Read'[i].low <= Read[i].low
    /\ \A i \in DOMAIN Read', j \in DOMAIN Read :
         i < j => i \in DOMAIN Read /\ Read'[i] = Read[i]
    /\ \A i \in DOMAIN Read : Read[i] \in Candles
    /\ \A i \in DOMAIN Read' : Read'[i].low \in Int
    /\ \A t \in Int :
         (p < t /\ \A i \in DOMAIN Read : Read[i].high < t) =>
             \A i \in DOMAIN Read' : Read'[i].high < t
    /\ \E j \in DOMAIN Read' :
         /\ Read'[j].low <= p
         /\ \A i \in DOMAIN Read' : i < j => i \in DOMAIN Read /\ Read'[i] = Read[i]

\* One more price in the candles.
LEMMA Grown ==
    ASSUME TypeOK, NEW p \in Int,
           \/ /\ forming' = [low |-> Least(forming.low, p), high |-> Most(forming.high, p),
                             close |-> p]
              /\ candles' = candles
           \/ candles' = Append(candles, forming) /\ forming' = Candle(p)
    PROVE  GrownBy(p)
<1> DEFINE n == Len(candles)
<1>1. candles \in Seq(Candles) /\ forming \in Candles /\ n \in Nat
  BY DEF TypeOK
<1>2. /\ Read \in Seq(Candles) /\ DOMAIN Read = 1..(n + 1)
      /\ Read[n + 1] = forming /\ \A i \in 1..n : Read[i] = candles[i]
  BY <1>1 DEF Read
<1>3. \A i \in DOMAIN Read : Read[i] \in Candles
  BY <1>2
<1>4. CASE /\ forming' = [low |-> Least(forming.low, p), high |-> Most(forming.high, p),
                          close |-> p]
           /\ candles' = candles
  <2>1. forming' \in Candles
    BY <1>1, <1>4 DEF Candles, Least, Most
  <2>2. /\ DOMAIN Read' = 1..(n + 1)
        /\ Read'[n + 1] = forming' /\ \A i \in 1..n : Read'[i] = candles[i]
    <3>1. Read' = Append(candles, forming')
      BY <1>4 DEF Read
    <3> HIDE DEF n
    <3>2. Len(candles) = n
      BY DEF n
    <3> QED
      BY <1>1, <2>1, <3>1, <3>2
  <2>3. /\ forming'.low <= forming.low /\ forming'.low <= p
        /\ \A t \in Int : (p < t /\ forming.high < t) => forming'.high < t
    BY <1>1, <1>4 DEF Candles, Least, Most
  <2>4. \A i \in 1..n : Read'[i] = Read[i] /\ Read[i] \in Candles /\ Read[i].low \in Int
    <3>1. \A i \in 1..n : i \in DOMAIN Read
      BY <1>1, <1>2
    <3>2. \A i \in 1..n : Read'[i] = Read[i] /\ Read[i] \in Candles
      BY <1>2, <1>3, <2>2, <3>1
    <3>3. \A c \in Candles : c.low \in Int
      BY DEF Candles
    <3> QED
      BY <3>2, <3>3
  <2>5. \A i \in DOMAIN Read : Read'[i].low <= Read[i].low
    BY <1>1, <1>2, <2>2, <2>3, <2>4
  <2>6. n + 1 \in DOMAIN Read' /\ Read'[n + 1].low <= p
        /\ \A i \in DOMAIN Read' : i < n + 1 => i \in DOMAIN Read /\ Read'[i] = Read[i]
    BY <1>1, <1>2, <2>2, <2>3, <2>4
  <2>7. ASSUME NEW t \in Int, p < t, \A i \in DOMAIN Read : Read[i].high < t,
               NEW i \in DOMAIN Read'
        PROVE  Read'[i].high < t
    <3>1. CASE i = n + 1
      BY <1>1, <1>2, <2>2, <2>3, <2>7, <3>1
    <3>2. CASE i \in 1..n
      BY <1>1, <1>2, <2>4, <2>7, <3>2
    <3> QED
      BY <1>1, <2>2, <2>7, <3>1, <3>2
  <2>8. \A i \in DOMAIN Read', j \in DOMAIN Read :
          i < j => i \in DOMAIN Read /\ Read'[i] = Read[i]
    BY <1>1, <1>2, <2>2, <2>4
  <2>9. \A i \in DOMAIN Read' : Read'[i].low \in Int
    <3>1. forming'.low \in Int
      BY <2>1 DEF Candles
    <3>2. \A i \in 1..(n + 1) : i = n + 1 \/ i \in 1..n
      BY <1>1
    <3> QED
      BY <2>2, <2>4, <3>1, <3>2
  <2>10. DOMAIN Read \subseteq DOMAIN Read' /\ DOMAIN Read' \subseteq Nat
    BY <1>1, <1>2, <2>2
  <2>11. \A t \in Int :
           (p < t /\ \A i \in DOMAIN Read : Read[i].high < t) =>
               \A i \in DOMAIN Read' : Read'[i].high < t
    BY <2>7
  <2> QED
    BY <1>3, <2>5, <2>6, <2>8, <2>9, <2>10, <2>11, Zenon DEF GrownBy
<1>5. CASE candles' = Append(candles, forming) /\ forming' = Candle(p)
  <2>1. forming' \in Candles /\ forming'.low = p /\ forming'.high = p
    BY <1>5 DEF Candles, Candle
  <2>2. candles' = Read /\ candles' \in Seq(Candles) /\ Len(candles') = n + 1
    BY <1>1, <1>5 DEF Read
  <2>3. /\ DOMAIN Read' = 1..(n + 2)
        /\ Read'[n + 2] = forming' /\ \A i \in 1..(n + 1) : Read'[i] = Read[i]
    BY <1>1, <2>1, <2>2 DEF Read
  <2>4. \A i \in DOMAIN Read : Read'[i].low <= Read[i].low
    BY <1>2, <1>3, <2>3 DEF Candles
  <2>5. n + 2 \in DOMAIN Read' /\ Read'[n + 2].low <= p
        /\ \A i \in DOMAIN Read' : i < n + 2 => i \in DOMAIN Read /\ Read'[i] = Read[i]
    BY <1>1, <1>2, <2>1, <2>3
  <2>6. ASSUME NEW t \in Int, p < t, \A i \in DOMAIN Read : Read[i].high < t,
               NEW i \in DOMAIN Read'
        PROVE  Read'[i].high < t
    <3>1. CASE i = n + 2
      BY <2>1, <2>3, <2>6, <3>1
    <3>2. CASE i \in 1..(n + 1)
      BY <1>2, <2>3, <2>6, <3>2
    <3> QED
      BY <1>1, <2>3, <2>6, <3>1, <3>2
  <2>7. \A i \in DOMAIN Read', j \in DOMAIN Read :
          i < j => i \in DOMAIN Read /\ Read'[i] = Read[i]
    BY <1>1, <1>2, <2>3
  <2>9. \A i \in DOMAIN Read' : Read'[i].low \in Int
    <3>1. forming'.low \in Int
      BY <2>1 DEF Candles
    <3>2. \A i \in 1..(n + 2) : i = n + 2 \/ i \in 1..(n + 1)
      BY <1>1
    <3>3. \A i \in 1..(n + 1) : Read[i].low \in Int
      BY <1>2, <1>3 DEF Candles
    <3> QED
      BY <2>3, <3>1, <3>2, <3>3
  <2>8. DOMAIN Read \subseteq DOMAIN Read' /\ DOMAIN Read' \subseteq Nat
    BY <1>1, <1>2, <2>3
  <2>10. \A t \in Int :
           (p < t /\ \A i \in DOMAIN Read : Read[i].high < t) =>
               \A i \in DOMAIN Read' : Read'[i].high < t
    BY <2>6
  <2> QED
    BY <1>3, <2>4, <2>5, <2>7, <2>8, <2>9, <2>10, Zenon DEF GrownBy
<1> QED
  BY <1>4, <1>5

\* A position that trades, and a price at or below its stop, or at its next target, or
\* neither.
LEMMA RunningStep ==
    ASSUME TypeOK, NEW m \in {0, 1, 2}, Running(m), NEW p \in Int,
           p \in {price - 1, price + 1}, ideal' = FollowTicks(p)
    PROVE  \/ /\ ideal'.reached = m /\ ideal'.stop = StopAt(m)
              /\ ideal'.left = OpenAt(m) /\ ideal'.booked = BookedAt(m)
              /\ p < Targets[m + 1]
              /\ ideal'.in => p > StopAt(m)
              /\ ~ideal'.in => m = 0 /\ p < Entry
           \/ /\ ideal'.in /\ ideal'.left = 0 /\ ideal'.booked = SureAt(m)
              /\ p = StopAt(m)
           \/ /\ ideal'.in /\ ideal'.reached = m + 1 /\ p = Targets[m + 1]
              /\ m = 2 => ideal'.left = 0 /\ ideal'.booked = SureAt(3)
              /\ m < 2 => /\ ideal'.left = OpenAt(m + 1)
                          /\ ideal'.booked = BookedAt(m + 1)
                          /\ ideal'.stop = StopAt(m + 1)
<1> DEFINE next == ideal.reached + 1
           part == IF next = Len(Targets) THEN ideal.left ELSE Fraction(next, ideal.left)
           loss == ideal.left * (p - Entry)
           gain == part * (p - Entry)
<1>1. /\ ideal.reached = m /\ ideal.stop = StopAt(m) /\ ideal.left = OpenAt(m)
      /\ ideal.booked = BookedAt(m) /\ price < Targets[m + 1]
      /\ ideal.in => price > StopAt(m)
      /\ ~ideal.in => (m = 0 /\ price < Entry)
  BY DEF Running
<1>2. /\ ideal \in [in : BOOLEAN, reached : 0..3, stop : Int, left : 0..Whole, booked : Int]
      /\ price \in Int /\ StopAt(m) \in Int /\ Targets[m + 1] \in Int /\ Entry \in Int
      /\ StopAt(m) < Targets[m + 1] /\ StopAt(0) < Entry /\ Entry < Targets[1]
      /\ Len(Targets) = 3
  BY Levels, Stops DEF TypeOK
<1>3. next = m + 1 /\ next <= Len(Targets)
  BY <1>1, <1>2
<1>4. FollowTicks(p) =
        IF ~ideal.in THEN [ideal EXCEPT !.in = (p = Entry)]
        ELSE IF p <= ideal.stop
        THEN [ideal EXCEPT !.booked = @ + loss, !.left = 0]
        ELSE IF next <= Len(Targets) /\ p >= Targets[next]
        THEN [ideal EXCEPT !.reached = next, !.left = @ - part,
                             !.booked = @ + gain, !.stop = Protected(@)]
        ELSE ideal
  BY DEF FollowTicks
<1>5. CASE ~ideal.in
  <2>1. ideal' = [ideal EXCEPT !.in = (p = Entry)]
    BY <1>4, <1>5
  <2>2. m = 0 /\ p <= Entry /\ (p # Entry => p < Entry) /\ p < Targets[1]
    BY <1>1, <1>2, <1>5
  <2>3. /\ ideal'.reached = m /\ ideal'.stop = StopAt(m)
        /\ ideal'.left = OpenAt(m) /\ ideal'.booked = BookedAt(m)
        /\ ideal'.in <=> p = Entry
    BY <1>1, <1>2, <2>1
  <2> QED
    BY <1>2, <2>2, <2>3
<1>6. CASE ideal.in /\ p <= ideal.stop
  <2>1. p = StopAt(m)
    BY <1>1, <1>2, <1>6
  <2>2. ideal' = [ideal EXCEPT !.booked = @ + loss, !.left = 0]
    BY <1>4, <1>6
  <2>3. loss = OpenAt(m) * (StopAt(m) - Entry)
    BY <1>1, <2>1
  <2> HIDE DEF loss
  <2>4. ideal'.in /\ ideal'.left = 0 /\ ideal'.booked = BookedAt(m) + loss
    BY <1>1, <1>2, <1>6, <2>2
  <2>5. SureAt(m) = BookedAt(m) + OpenAt(m) * (StopAt(m) - Entry)
    BY Books
  <2> QED
    BY <2>1, <2>3, <2>4, <2>5
<1>7. CASE ideal.in /\ ~(p <= ideal.stop) /\ p >= Targets[m + 1]
  <2>1. p = Targets[m + 1]
    BY <1>1, <1>2, <1>7
  <2>2. ideal' = [ideal EXCEPT !.reached = next, !.left = @ - part,
                                   !.booked = @ + gain, !.stop = Protected(@)]
    BY <1>3, <1>4, <1>7
  <2>3. part = IF m = 2 THEN OpenAt(2) ELSE Fraction(m + 1, OpenAt(m))
    BY <1>1, <1>2, <1>3
  <2>4. gain = part * (Targets[m + 1] - Entry)
    BY <2>1
  <2> HIDE DEF next, part, gain, loss
  <2>5. /\ ideal'.in /\ ideal'.reached = m + 1
        /\ ideal'.left = OpenAt(m) - part /\ ideal'.booked = BookedAt(m) + gain
        /\ ideal'.stop = Protected(StopAt(m))
    BY <1>1, <1>2, <1>3, <1>7, <2>2
  <2>6. CASE m = 2
    <3>1. OpenAt(2) - part = 0
      BY <2>3, <2>6, Sizes, ManagementAssumption
    <3>2. BookedAt(2) + gain = SureAt(3)
      BY <2>3, <2>4, <2>6, Books
    <3> QED
      BY <2>1, <2>5, <2>6, <3>1, <3>2
  <2>7. CASE m = 1
    BY <2>1, <2>3, <2>4, <2>5, <2>7, Books, Sizes, Stops
  <2>8. CASE m = 0
    BY <2>1, <2>3, <2>4, <2>5, <2>8, Books, Sizes, Stops
  <2> QED
    BY <2>6, <2>7, <2>8
<1>8. CASE ideal.in /\ ~(p <= ideal.stop) /\ ~(p >= Targets[m + 1])
  <2>1. ideal' = ideal
    BY <1>3, <1>4, <1>8
  <2> QED
    BY <1>1, <1>2, <1>8, <2>1
<1> QED
  BY <1>5, <1>6, <1>7, <1>8

\* A position that is over books nothing more, whatever its targets.
LEMMA OverStep ==
    ASSUME TypeOK, ideal.in, ideal.left = 0, NEW p \in Int, ideal' = FollowTicks(p)
    PROVE  /\ ideal'.in /\ ideal'.left = 0 /\ ideal'.booked = ideal.booked
           /\ ideal.reached = 3 => ideal'.reached = 3
<1> DEFINE next == ideal.reached + 1
           part == IF next = Len(Targets) THEN ideal.left ELSE Fraction(next, ideal.left)
           loss == ideal.left * (p - Entry)
           gain == part * (p - Entry)
<1>1. /\ ideal \in [in : BOOLEAN, reached : 0..3, stop : Int, left : 0..Whole, booked : Int]
      /\ Len(Targets) = 3 /\ Entry \in Int
  BY Levels DEF TypeOK
<1>2. FollowTicks(p) =
        IF ~ideal.in THEN [ideal EXCEPT !.in = (p = Entry)]
        ELSE IF p <= ideal.stop
        THEN [ideal EXCEPT !.booked = @ + loss, !.left = 0]
        ELSE IF next <= Len(Targets) /\ p >= Targets[next]
        THEN [ideal EXCEPT !.reached = next, !.left = @ - part,
                             !.booked = @ + gain, !.stop = Protected(@)]
        ELSE ideal
  BY DEF FollowTicks
<1>3. \A x \in Int : 0 * x = 0
  OBVIOUS
<1>4. p - Entry \in Int
  BY <1>1
<1>5. loss = 0
  BY <1>3, <1>4
<1>6. next <= 3 => part = 0
  <2>1. 0 \in 0..Whole
    BY ManagementAssumption
  <2>2. next <= 3 => next \in {1, 2, 3}
    BY <1>1
  <2>3. next <= 3 => Fraction(next, 0) \in 0..0
    BY <2>1, <2>2, Parts
  <2> QED
    BY <2>3
<1>7. next <= 3 => gain = 0
  BY <1>3, <1>4, <1>6
<1>8. ideal.reached = 3 => ~(next <= 3)
  OBVIOUS
<1> HIDE DEF part, loss, gain, next
<1>9. CASE p <= ideal.stop
  BY <1>1, <1>2, <1>5, <1>9
<1>10. CASE ~(p <= ideal.stop) /\ next <= Len(Targets) /\ p >= Targets[next]
  BY <1>1, <1>2, <1>6, <1>7, <1>8, <1>10
<1>11. CASE ~(p <= ideal.stop) /\ ~(next <= Len(Targets) /\ p >= Targets[next])
  BY <1>2, <1>11
<1> QED
  BY <1>9, <1>10, <1>11

\* A row that is not ahead of a position stays behind one that went further.
LEMMA RowFollows ==
    ASSUME TypeOK, NEW m \in 0..3, NEW n \in 0..3, m <= n, RowAt(m)
    PROVE  RowAt(n)
<1>1. Open => Reached <= n
  BY ReachedIs DEF RowAt
<1>2. AtLevel => result \in Int /\ result <= SureAt(n)
  <2>1. SureAt(m) <= SureAt(n) /\ SureAt(m) \in Int /\ SureAt(n) \in Int
    BY Rising, Books
  <2>2. AtLevel => result \in Int /\ result <= SureAt(m)
    BY DEF RowAt
  <2> QED
    BY <2>1, <2>2
<1> QED
  BY <1>1, <1>2 DEF RowAt

\* What showed the stop of a position that is over shows it still.
LEMMA StaysStopped ==
    ASSUME NEW m \in 0..3, Stopped(m),
           ideal'.in, ideal'.left = 0, ideal'.booked = SureAt(m),
           DOMAIN Read \subseteq DOMAIN Read',
           \A i \in DOMAIN Read : Read'[i].low <= Read[i].low,
           \A i \in DOMAIN Read', j \in DOMAIN Read :
                i < j => i \in DOMAIN Read /\ Read'[i] = Read[i],
           \A i \in DOMAIN Read : Read[i] \in Candles,
           \A i \in DOMAIN Read' : Read'[i].low \in Int
    PROVE  Stopped(m)'
<1>1. m < 3 /\ m \in {0, 1, 2} /\ StopAt(m) \in Int
  BY Stops DEF Stopped
<1>2. PICK j \in DOMAIN Read :
        /\ Read[j].low <= StopAt(m)
        /\ \A i \in DOMAIN Read : i < j => Read[i].high < Targets[m + 1]
  BY DEF Stopped
<1>3. j \in DOMAIN Read' /\ Read'[j].low <= StopAt(m)
  <2>1. Read'[j].low <= Read[j].low /\ Read[j].low \in Int
    BY DEF Candles
  <2>2. j \in DOMAIN Read' /\ Read'[j].low \in Int
    OBVIOUS
  <2> QED
    BY <1>1, <1>2, <2>1, <2>2
<1>4. \A i \in DOMAIN Read' : i < j => Read'[i].high < Targets[m + 1]
  BY <1>2
<1> QED
  BY <1>1, <1>3, <1>4 DEF Stopped

\* One more price, in the position and in the candles: where the position stands then.
LEMMA PriceBehind ==
    ASSUME TypeOK, NEW p \in Int, p \in {price - 1, price + 1},
           price' = p, ideal' = FollowTicks(p), GrownBy(p),
           NEW m \in 0..3, Running(m) \/ Stopped(m)
    PROVE  \E n \in 0..3 : m <= n /\ (Running(n)' \/ Stopped(n)')
<1>1. 0..3 = {0, 1, 2, 3}
  OBVIOUS
<1>2. /\ DOMAIN Read \subseteq DOMAIN Read' /\ DOMAIN Read' \subseteq Nat
      /\ \A i \in DOMAIN Read : Read'[i].low <= Read[i].low
      /\ \A i \in DOMAIN Read', j \in DOMAIN Read :
           i < j => i \in DOMAIN Read /\ Read'[i] = Read[i]
      /\ \A i \in DOMAIN Read : Read[i] \in Candles
      /\ \A i \in DOMAIN Read' : Read'[i].low \in Int
      /\ \A t \in Int : (p < t /\ \A i \in DOMAIN Read : Read[i].high < t) =>
           \A i \in DOMAIN Read' : Read'[i].high < t
  BY DEF GrownBy
<1>9. \E j \in DOMAIN Read' :
        /\ Read'[j].low <= p
        /\ \A i \in DOMAIN Read' : i < j => i \in DOMAIN Read /\ Read'[i] = Read[i]
  BY DEF GrownBy
<1>3. CASE m # 3 /\ Running(m)
  <2>0. m \in {0, 1, 2} /\ m + 1 \in {1, 2, 3} /\ m + 1 \in 0..3
    BY <1>1, <1>3
  <2>1. \A i \in DOMAIN Read : Read[i].high < Targets[m + 1]
    BY <2>0, <1>3 DEF Running
  <2>2. Targets[m + 1] \in Int /\ (m < 2 => Targets[m + 1] < Targets[m + 2])
        /\ (m < 2 => Targets[m + 2] \in Int)
    BY <2>0, Levels
  <2>3. \/ /\ ideal'.reached = m /\ ideal'.stop = StopAt(m)
           /\ ideal'.left = OpenAt(m) /\ ideal'.booked = BookedAt(m)
           /\ p < Targets[m + 1]
           /\ ideal'.in => p > StopAt(m)
           /\ ~ideal'.in => m = 0 /\ p < Entry
        \/ /\ ideal'.in /\ ideal'.left = 0 /\ ideal'.booked = SureAt(m)
           /\ p = StopAt(m)
        \/ /\ ideal'.in /\ ideal'.reached = m + 1 /\ p = Targets[m + 1]
           /\ m = 2 => ideal'.left = 0 /\ ideal'.booked = SureAt(3)
           /\ m < 2 => /\ ideal'.left = OpenAt(m + 1)
                       /\ ideal'.booked = BookedAt(m + 1)
                       /\ ideal'.stop = StopAt(m + 1)
    BY <1>3, <2>0, RunningStep
  <2>4. CASE /\ ideal'.reached = m /\ ideal'.stop = StopAt(m)
             /\ ideal'.left = OpenAt(m) /\ ideal'.booked = BookedAt(m)
             /\ p < Targets[m + 1]
             /\ ideal'.in => p > StopAt(m)
             /\ ~ideal'.in => m = 0 /\ p < Entry
    <3>1. \A i \in DOMAIN Read' : Read'[i].high < Targets[m + 1]
      BY <1>2, <2>1, <2>2, <2>4
    <3>2. Running(m)'
      BY <2>0, <2>4, <3>1 DEF Running
    <3> QED
      BY <3>2
  <2>5. CASE /\ ideal'.in /\ ideal'.left = 0 /\ ideal'.booked = SureAt(m)
             /\ p = StopAt(m)
    <3>1. PICK j \in DOMAIN Read' :
            /\ Read'[j].low <= p
            /\ \A i \in DOMAIN Read' : i < j => i \in DOMAIN Read /\ Read'[i] = Read[i]
      BY <1>9
    <3>2. \A i \in DOMAIN Read' : i < j => Read'[i].high < Targets[m + 1]
      BY <2>1, <3>1
    <3>3. Stopped(m)'
      BY <2>0, <2>5, <3>1, <3>2 DEF Stopped
    <3> QED
      BY <3>3
  <2>6. CASE /\ ideal'.in /\ ideal'.reached = m + 1 /\ p = Targets[m + 1]
             /\ m = 2 => ideal'.left = 0 /\ ideal'.booked = SureAt(3)
             /\ m < 2 => /\ ideal'.left = OpenAt(m + 1)
                         /\ ideal'.booked = BookedAt(m + 1)
                         /\ ideal'.stop = StopAt(m + 1)
    <3>1. CASE m = 2
      <4>1. Running(3)'
        BY <2>6, <3>1 DEF Running
      <4> QED
        BY <3>1, <4>1
    <3>2. CASE m < 2
      <4>1. p < Targets[m + 2] /\ \A i \in DOMAIN Read : Read[i].high < Targets[m + 2]
        <5>1. \A i \in DOMAIN Read : Read[i].high \in Int
          BY <1>2 DEF Candles
        <5> QED
          BY <2>1, <2>2, <2>6, <3>2, <5>1
      <4>2. \A i \in DOMAIN Read' : Read'[i].high < Targets[m + 2]
        BY <1>2, <2>2, <3>2, <4>1
      <4>3. StopAt(m + 1) < p
        <5>1. m + 1 \in {1, 2}
          BY <2>0, <3>2
        <5>2. StopAt(m + 1) < Targets[1] /\ StopAt(m + 1) \in Int
          BY <5>1, Stops
        <5>3. Targets[1] <= Targets[m + 1] /\ Targets[1] \in Int
          BY <2>0, Levels
        <5> QED
          BY <2>2, <2>6, <5>2, <5>3
      <4>4. (m + 1) + 1 = m + 2 /\ m + 1 < 3 /\ m + 1 # 3
        BY <2>0, <3>2
      <4> DEFINE n == m + 1
      <4>5. /\ n < 3 /\ n # 3 /\ n + 1 = m + 2
            /\ ideal'.reached = n /\ ideal'.stop = StopAt(n)
            /\ ideal'.left = OpenAt(n) /\ ideal'.booked = BookedAt(n)
            /\ ideal'.in /\ p > StopAt(n)
        BY <2>0, <2>2, <2>6, <3>2, <4>3, <4>4, Stops
      <4> HIDE DEF n
      <4>6. Running(n)'
        BY <4>1, <4>2, <4>5 DEF Running
      <4> QED
        BY <2>0, <4>6 DEF n
    <3> QED
      BY <2>0, <3>1, <3>2
  <2> QED
    BY <2>3, <2>4, <2>5, <2>6
<1>4. CASE m = 3 /\ Running(m)
  <2>1. ideal.in /\ ideal.left = 0 /\ ideal.booked = SureAt(3) /\ ideal.reached = 3
    BY <1>4 DEF Running
  <2>2. /\ ideal'.in /\ ideal'.left = 0 /\ ideal'.booked = SureAt(3)
        /\ ideal'.reached = 3
    BY <2>1, OverStep
  <2>3. Running(3)'
    BY <2>2 DEF Running
  <2> QED
    BY <1>4, <2>3
<1>5. CASE Stopped(m)
  <2>1. m \in {0, 1, 2} /\ ideal.in /\ ideal.left = 0 /\ ideal.booked = SureAt(m)
    BY <1>1, <1>5 DEF Stopped
  <2>2. ideal'.in /\ ideal'.left = 0 /\ ideal'.booked = SureAt(m)
    BY <2>1, OverStep
  <2>6. Stopped(m)'
    BY <1>2, <1>5, <2>2, StaysStopped DEF Stopped
  <2> QED
    BY <2>6
<1> QED
  BY <1>3, <1>4, <1>5

\* A minute in which nothing moves shows no new price.
LEMMA QuietBehind ==
    ASSUME TypeOK, QuietMinute, NEW m \in 0..3, Running(m) \/ Stopped(m)
    PROVE  Running(m)' \/ Stopped(m)'
<1>1. /\ candles' = Append(candles, forming) /\ forming' = Candle(price)
      /\ UNCHANGED <<price, ideal>> /\ price \in Int
  BY DEF QuietMinute, TypeOK, row
<1>2. /\ DOMAIN Read \subseteq DOMAIN Read' /\ DOMAIN Read' \subseteq Nat
      /\ \A i \in DOMAIN Read : Read'[i].low <= Read[i].low
      /\ \A i \in DOMAIN Read', j \in DOMAIN Read :
           i < j => i \in DOMAIN Read /\ Read'[i] = Read[i]
      /\ \A i \in DOMAIN Read : Read[i] \in Candles
      /\ \A i \in DOMAIN Read' : Read'[i].low \in Int
      /\ \A t \in Int : (price < t /\ \A i \in DOMAIN Read : Read[i].high < t) =>
           \A i \in DOMAIN Read' : Read'[i].high < t
  BY <1>1, Grown DEF GrownBy
<1>3. 0..3 = {0, 1, 2, 3}
  OBVIOUS
<1>4. CASE Running(m)
  <2>1. m # 3 => /\ price < Targets[m + 1]
                 /\ \A i \in DOMAIN Read : Read[i].high < Targets[m + 1]
                 /\ Targets[m + 1] \in Int
    BY <1>3, <1>4, Levels DEF Running
  <2>2. m # 3 => \A i \in DOMAIN Read' : Read'[i].high < Targets[m + 1]
    BY <1>2, <2>1
  <2>3. Running(m)'
    BY <1>1, <1>3, <1>4, <2>2 DEF Running
  <2> QED
    BY <2>3
<1>5. CASE Stopped(m)
  <2>5. Stopped(m)'
    BY <1>1, <1>2, <1>5, StaysStopped DEF Stopped
  <2> QED
    BY <2>5
<1> QED
  BY <1>4, <1>5

\* The row counts a target only once the position has reached it: a candle that shows
\* the next target of the row, read before any that shows its stop.
LEMMA TargetWasReached ==
    ASSUME TypeOK, ~midMinute, Open, ~Pending, NEW m \in 0..3, RowAt(m),
           Running(m) \/ Stopped(m), Reached < 3, NEW k \in Telling,
           \A i \in Telling : k <= i,
           Relevant[k].high >= Targets[Reached + 1], Relevant[k].low > stop
    PROVE  Reached + 1 <= m
<1>1. Relevant = Read
  BY DEF Relevant, Read
<1>2. Reached \in {0, 1, 2} /\ Reached <= m /\ stop = StopAt(Reached)
  BY ReachedIs DEF RowAt
<1> SUFFICES ASSUME Reached = m PROVE FALSE
  BY <1>2
<1>3. m \in {0, 1, 2} /\ StopAt(m) \in Int /\ Targets[m + 1] \in Int
  BY <1>2, Stops, Levels
<1>4. /\ k \in DOMAIN Read /\ Read[k] \in Candles
      /\ \A i \in DOMAIN Read : Read[i] \in Candles
      /\ DOMAIN Read \subseteq Nat
  <2>1. Read \in Seq(Candles)
    BY DEF Read, TypeOK
  <2>2. k \in DOMAIN Read
    BY <1>1, AmongRead
  <2> QED
    BY <2>1, <2>2
<1>5. ~Running(m)
  BY <1>1, <1>3, <1>4 DEF Running, Candles
<1>6. PICK j \in DOMAIN Read :
        /\ Read[j].low <= StopAt(m)
        /\ \A i \in DOMAIN Read : i < j => Read[i].high < Targets[m + 1]
  BY <1>5 DEF Stopped
<1>7. j \in Telling
  <2>1. Relevant[j].low <= stop /\ Relevant[j] \in Candles
    BY <1>1, <1>2, <1>4, <1>6
  <2>2. Transition(Relevant[j]) # status
    BY <2>1, StopEnds
  <2> QED
    BY <1>1, <2>2 DEF Telling
<1>8. k <= j
  BY <1>7
<1>9. k # j
  <2>1. Read[k].low \in Int /\ Read[k].low > StopAt(m)
    BY <1>1, <1>2, <1>4 DEF Candles
  <2>2. k = j => Read[k].low <= StopAt(m)
    BY <1>6
  <2> QED
    BY <1>3, <2>1, <2>2
<1>10. k < j
  BY <1>4, <1>6, <1>8, <1>9
<1>11. Read[k].high < Targets[m + 1]
  BY <1>4, <1>6, <1>10
<1> QED
  BY <1>1, <1>3, <1>4, <1>11 DEF Candles

\* A round of the tracker leaves the row behind the position.
LEMMA AdvanceBehind ==
    ASSUME TypeOK, ~midMinute, Advance, NEW m \in 0..3, RowAt(m), Running(m) \/ Stopped(m)
    PROVE  RowAt(m)'
<1>1. PICK k \in Telling, new \in Life!Live \union Life!Terminal, exit \in Int :
        /\ \A i \in Telling : k <= i
        /\ Relevant[k] \in Candles
        /\ new = Transition(Relevant[k]) /\ new # status
        /\ exit = (IF new = "TP3_HIT" THEN Targets[3] ELSE stop)
        /\ Apply(new, exit)
        /\ Open
  BY AdvanceStep
<1> DEFINE r == Reached
           part == IF Hit(new) = 0 THEN 0 ELSE Fraction(Hit(new), openFraction)
<1>2. /\ status' = new
      /\ part \in 0..openFraction /\ openFraction' = openFraction - part
      /\ Hit(new) = 0 => bookedR' = bookedR /\ stop' = stop
                         /\ openFraction' = openFraction
      /\ Hit(new) # 0 => /\ bookedR' = bookedR + part * (Targets[Hit(new)] - Entry)
                         /\ stop' = Protected(stop)
      /\ bookedR' \in Int /\ stop' \in Int /\ openFraction' \in 0..Whole
      /\ result' = IF new \in {"TP3_HIT", "SL_HIT", "EXPIRED"} /\ ~Pending
                      /\ exit # NoResult
                   THEN bookedR' + openFraction' * (exit - Entry) ELSE NoResult
  BY <1>1, ApplyStep
<1>3. exit # NoResult
  BY <1>1, BoundsAssumption
<1>4. /\ r \in {0, 1, 2} /\ r <= m /\ stop = StopAt(r)
      /\ openFraction = OpenAt(r) /\ bookedR = BookedAt(r)
  BY <1>1, ReachedIs DEF RowAt, Open, Life!Live
<1>5. \/ Pending /\ new \in {"ACTIVE", "INVALIDATED"}
      \/ ~Pending /\ new = "SL_HIT"
      \/ /\ ~Pending /\ Relevant[k].low > stop /\ r < 3
         /\ Relevant[k].high >= Targets[r + 1]
         /\ new = TargetStatuses[r + 1]
  BY <1>1, TransitionIs
<1>6. /\ status' = "TP1_HIT" => Reached' = 1
      /\ status' = "TP2_HIT" => Reached' = 2
      /\ status' \notin {"TP1_HIT", "TP2_HIT", "TP3_HIT"} => Reached' = 0
  <2>1. (/\ status = "TP1_HIT" => Reached = 1
         /\ status = "TP2_HIT" => Reached = 2
         /\ status = "TP3_HIT" => Reached = 3
         /\ status \notin {"TP1_HIT", "TP2_HIT", "TP3_HIT"} => Reached = 0
         /\ Reached \in 0..3)'
    BY ReachedIs, PTL
  <2> QED
    BY <2>1
<1>7. /\ SureAt(r) <= SureAt(m) /\ SureAt(r) \in Int /\ SureAt(m) \in Int
  BY <1>4, Rising, Books
<1> HIDE DEF part
<1>8. CASE Pending /\ new \in {"ACTIVE", "INVALIDATED"}
  <2>1. r = 0
    BY <1>8, ReachedIs DEF Pending, Life!Waits, Life!Unanswered
  <2>2. Hit(new) = 0
    BY <1>8, HitIs
  <2>3. Reached' = 0 /\ ~AtLevel'
    BY <1>2, <1>6, <1>8 DEF AtLevel
  <2> QED
    BY <1>2, <1>4, <2>1, <2>2, <2>3 DEF RowAt
<1>9. CASE ~Pending /\ new = "SL_HIT"
  <2>1. Hit(new) = 0 /\ exit = stop
    BY <1>1, <1>9, HitIs
  <2>2. result' = BookedAt(r) + OpenAt(r) * (StopAt(r) - Entry)
    BY <1>2, <1>3, <1>4, <1>9, <2>1
  <2>3. result' = SureAt(r)
    BY <1>4, <2>2, Books
  <2>4. ~Open'
    BY <1>2, <1>9 DEF Open, Life!Live
  <2> QED
    BY <1>7, <2>3, <2>4 DEF RowAt
<1>10. CASE /\ ~Pending /\ Relevant[k].low > stop /\ r < 3
            /\ Relevant[k].high >= Targets[r + 1]
            /\ new = TargetStatuses[r + 1]
  <2>1. r + 1 <= m
    BY <1>1, <1>10, TargetWasReached
  <2>2. CASE r = 0
    <3>1. new = "TP1_HIT" /\ Hit(new) = 1 /\ Reached' = 1 /\ ~AtLevel'
      BY <1>2, <1>6, <1>10, <2>2, HitIs DEF TargetStatuses, AtLevel
    <3>2. part = Fraction(1, OpenAt(0))
      BY <1>4, <2>2, <3>1 DEF part
    <3>3. /\ stop' = StopAt(1) /\ openFraction' = OpenAt(1) /\ bookedR' = BookedAt(1)
      BY <1>2, <1>4, <2>2, <3>1, <3>2, Books, Sizes, Stops
    <3> QED
      BY <2>1, <2>2, <3>1, <3>3 DEF RowAt
  <2>3. CASE r = 1
    <3>1. new = "TP2_HIT" /\ Hit(new) = 2 /\ Reached' = 2 /\ ~AtLevel'
      BY <1>2, <1>6, <1>10, <2>3, HitIs DEF TargetStatuses, AtLevel
    <3>2. part = Fraction(2, OpenAt(1))
      BY <1>4, <2>3, <3>1 DEF part
    <3>3. /\ stop' = StopAt(2) /\ openFraction' = OpenAt(2) /\ bookedR' = BookedAt(2)
      BY <1>2, <1>4, <2>3, <3>1, <3>2, Books, Sizes, Stops
    <3> QED
      BY <2>1, <2>3, <3>1, <3>3 DEF RowAt
  <2>4. CASE r = 2
    <3>1. new = "TP3_HIT" /\ Hit(new) = 3 /\ ~Open' /\ exit = Targets[3]
      BY <1>1, <1>2, <1>10, <2>4, HitIs DEF TargetStatuses, Open, Life!Live
    <3>2. part = Fraction(3, OpenAt(2)) /\ part \in Int /\ OpenAt(2) \in Int
      BY <1>4, <2>4, <3>1, Sizes, ManagementAssumption DEF part
    <3> DEFINE gain == Targets[3] - Entry
    <3>3. /\ bookedR' = BookedAt(2) + part * gain /\ openFraction' = OpenAt(2) - part
          /\ result' = bookedR' + openFraction' * gain
      BY <1>2, <1>3, <1>4, <1>10, <2>4, <3>1
    <3>4. gain \in Int /\ BookedAt(2) \in Int /\ SureAt(3) = BookedAt(2) + OpenAt(2) * gain
      BY Levels, Books
    <3> HIDE DEF gain
    <3>5. part * gain + (OpenAt(2) - part) * gain = OpenAt(2) * gain
      BY <3>2, <3>4
    <3>6. part * gain \in Int /\ (OpenAt(2) - part) * gain \in Int
      <4>1. \A x, y \in Int : x * y \in Int
        OBVIOUS
      <4> QED
        BY <3>2, <3>4, <4>1
    <3>7. result' = SureAt(3)
      BY <3>3, <3>4, <3>5, <3>6
    <3>8. m = 3
      BY <2>1, <2>4
    <3>9. SureAt(3) \in Int
      BY Books
    <3> QED
      BY <3>1, <3>7, <3>8, <3>9 DEF RowAt
  <2> QED
    BY <1>4, <2>2, <2>3, <2>4
<1> QED
  BY <1>5, <1>8, <1>9, <1>10

\* Every step keeps FloorInv.
LEMMA FloorStep == TypeOK /\ FloorInv /\ [Next]_vars => FloorInv'
<1> SUFFICES ASSUME TypeOK, FloorInv, [Next]_vars, (entryType # "LIMIT" /\ ~midMinute)'
             PROVE  Behind'
  BY DEF FloorInv
<1>1. entryType' = entryType /\ midMinute' = midMinute
  <2>1. CASE Advance
    BY <2>1 DEF Advance, Apply, market
  <2>2. CASE Expire
    BY <2>2 DEF Expire, Apply, market
  <2> QED
    BY <2>1, <2>2 DEF Next, Tick, QuietMinute, vars, market, row
<1>2. PICK m \in 0..3 : RowAt(m) /\ (Running(m) \/ Stopped(m))
  BY <1>1 DEF FloorInv, Behind
<1>3. UNCHANGED row => \A n \in 0..3 : RowAt(n) => RowAt(n)'
  BY DEF row, RowAt, Open, Reached, AtLevel
<1>4. UNCHANGED <<market, ideal>> =>
        ((Running(m) => Running(m)') /\ (Stopped(m) => Stopped(m)'))
  BY DEF market, Running, Stopped, Read
<1>5. CASE Tick
  <2>1. /\ price' \in Int /\ price' \in {price - 1, price + 1} /\ ideal' = FollowTicks(price')
        /\ UNCHANGED row
        /\ \/ /\ forming' = [low |-> Least(forming.low, price'),
                             high |-> Most(forming.high, price'), close |-> price']
              /\ candles' = candles
           \/ candles' = Append(candles, forming) /\ forming' = Candle(price')
    BY <1>5 DEF Tick, TypeOK
  <2> DEFINE p == price'
  <2>2. \E n \in 0..3 : m <= n /\ (Running(n)' \/ Stopped(n)')
    <3>1. /\ p \in Int /\ p \in {price - 1, price + 1} /\ price' = p /\ ideal' = FollowTicks(p)
          /\ GrownBy(p)
      BY <2>1, Grown
    <3> HIDE DEF p
    <3> QED
      BY <1>2, <3>1, PriceBehind
  <2>3. PICK n \in 0..3 : m <= n /\ (Running(n)' \/ Stopped(n)')
    BY <2>2
  <2>4. RowAt(n)'
    BY <1>2, <1>3, <2>1, <2>3, RowFollows
  <2> QED
    BY <2>3, <2>4 DEF Behind
<1>6. CASE QuietMinute
  BY <1>2, <1>3, <1>6, QuietBehind DEF Behind, QuietMinute
<1>7. CASE Advance
  <2>1. UNCHANGED <<market, ideal>> /\ RowAt(m)'
    BY <1>1, <1>2, <1>7, AdvanceBehind DEF Advance
  <2> QED
    BY <1>2, <1>4, <2>1 DEF Behind
<1>8. CASE Expire
  <2>1. UNCHANGED <<market, ideal>> /\ status' = "EXPIRED"
    BY <1>8 DEF Expire, Apply
  <2>2. RowAt(m)'
    BY <2>1 DEF RowAt, Open, AtLevel, Life!Live
  <2> QED
    BY <1>2, <1>4, <2>1, <2>2 DEF Behind
<1>9. CASE UNCHANGED vars
  <2>1. UNCHANGED row /\ UNCHANGED <<market, ideal>>
    BY <1>9 DEF vars
  <2> QED
    BY <1>2, <1>3, <1>4, <2>1 DEF Behind
<1> QED
  BY <1>5, <1>6, <1>7, <1>8, <1>9 DEF Next

\* Reading candles adds no gain: the result of a signal ended at a level is never
\* above what the same management is sure of when it follows every tick.
THEOREM ReadingAddsNoGain == Spec => []NotAboveTicks
<1>1. Init => FloorInv
  <2> SUFFICES ASSUME Init, entryType # "LIMIT" PROVE Behind
    BY DEF FloorInv
  <2>1. TypeOK
    BY LifeInit
  <2>2. /\ entryType \in {"MARKET", "STOP"} /\ price <= Entry /\ price \in Int
        /\ entryType = "MARKET" => price = Entry
        /\ entryType = "STOP" => price < Entry
    <3>1. /\ entryType \in {"MARKET", "STOP", "LIMIT"}
          /\ price \in CASE entryType = "MARKET" -> {Entry}
                         [] entryType = "STOP"   -> StopLoss + 1..Entry - 1
                         [] entryType = "LIMIT"  -> Entry + 1..Targets[1] - 1
      BY DEF Init
    <3>2. CASE entryType = "MARKET"
      BY <3>1, <3>2, Levels
    <3>3. CASE entryType = "STOP"
      BY <3>1, <3>3, Levels
    <3> QED
      BY <3>1, <3>2, <3>3
  <2>3. Reached = 0 /\ ~AtLevel
    BY ReachedIs DEF Init, AtLevel
  <2>4. RowAt(0)
    BY <2>3, Sizes, Stops, Books DEF RowAt, Init
  <2>5. \A i \in DOMAIN Read : Read[i] = forming
    <3>1. candles = <<>> /\ forming \in Candles
      BY <2>1 DEF Init, TypeOK
    <3>2. Read = Append(<<>>, forming)
      BY <3>1 DEF Read
    <3> QED
      BY <3>2
  <2>6. forming.high = price
    BY DEF Init, Candle
  <2>7. Running(0)
    <3>1. /\ ideal.in <=> entryType = "MARKET"
          /\ ideal.reached = 0 /\ ideal.stop = StopAt(0) /\ ideal.left = OpenAt(0)
          /\ ideal.booked = BookedAt(0)
      BY Sizes, Stops, Books DEF Init
    <3>2. price < Targets[1] /\ (ideal.in => price > StopAt(0))
          /\ (~ideal.in => price < Entry)
      BY <2>2, <3>1, Levels, Stops
    <3>3. \A i \in DOMAIN Read : Read[i].high < Targets[1]
      BY <2>5, <2>6, <3>2
    <3> QED
      BY <3>1, <3>2, <3>3 DEF Running
  <2> QED
    BY <2>4, <2>7 DEF Behind
<1>2. TypeOK /\ FloorInv /\ [Next]_vars => FloorInv'
  BY FloorStep
<1>3. TypeOK /\ FloorInv => NotAboveTicks
  <2> SUFFICES ASSUME TypeOK, FloorInv, AtLevel, entryType # "LIMIT", ~midMinute
               PROVE  result <= Floor
    BY DEF NotAboveTicks
  <2>1. PICK m \in 0..3 : RowAt(m) /\ (Running(m) \/ Stopped(m))
    BY DEF FloorInv, Behind
  <2>2. Floor = SureAt(m)
    <3>1. CASE Running(m) /\ m # 3
      <4>1. m \in {0, 1, 2} /\ m < 3
        BY <3>1
      <4>2. /\ ideal.stop = StopAt(m) /\ ideal.left = OpenAt(m)
            /\ ideal.booked = BookedAt(m)
        BY <3>1, <4>1 DEF Running
      <4> QED
        BY <4>1, <4>2, Books DEF Floor
    <3>2. CASE ideal.left = 0 /\ ideal.booked = SureAt(m)
      <4>0. ideal.stop \in Int
        BY DEF TypeOK
      <4>1. ideal.stop - Entry \in Int /\ SureAt(m) \in Int
        BY <4>0, Levels, Books
      <4>2. \A x \in Int : 0 * x = 0
        OBVIOUS
      <4> QED
        BY <3>2, <4>1, <4>2 DEF Floor
    <3> QED
      BY <2>1, <3>1, <3>2 DEF Running, Stopped
  <2> QED
    BY <2>1, <2>2 DEF RowAt
<1> QED
  BY <1>1, <1>2, <1>3, LifeTypes, PTL DEF Spec
=============================================================================
