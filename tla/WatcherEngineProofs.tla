------------------------ MODULE WatcherEngineProofs ------------------------
(***************************************************************************)
(* Proofs of TwinsWereBlind and ToldOnce, for every set of instruments, of *)
(* requests and of rounds of the life cycle.                               *)
(*                                                                         *)
(* Twins: the lock of an instrument is held from the judgement to the      *)
(* record, so between what an analysis read of the open signals and the    *)
(* row it creates no other analysis creates a row of that instrument: what *)
(* stands there was seen, and then refused a twin, or was hidden.          *)
(*                                                                         *)
(* Ends: the row that remembers an announced end is written with the       *)
(* commit of the round.  Until then the round that announced it remembers  *)
(* it, and no other one is under way.                                      *)
(***************************************************************************)
EXTENDS WatcherEngine, NaturalsInduction, WellFoundedInduction, TLAPS

-----------------------------------------------------------------------------
(* Types.                                                                  *)

\* What a step of a round has left to do, and the rows created so far.
Rounds ==
    /\ \A a \in Analysts : pc[a] \in {"lock", "create", "record"} => todo[a] # <<>>
    /\ \A a \in Followers : pc[a] = "follow" => left[a] # {}
    /\ \A i \in Ids : Exists(i) => i <= created

Shape == TypeOK /\ Rounds

\* The actors, told apart from the marks that stand for nobody and for a commit.
LEMMA Marks ==
    /\ Nobody \notin Actors /\ Committed \notin Actors /\ Nobody # Committed
    /\ Analysts \subseteq Actors /\ Followers \subseteq Actors
    /\ Loop \in Analysts /\ Requests \subseteq Analysts
    /\ \A a \in Analysts : a \notin Followers
  BY ActorsAssumption DEF Actors, Analysts

\* Nothing is not a row, nor a judgement.
LEMMA NotNothing ==
    /\ NoRow \notin Row
    /\ Nothing \notin Judgement
<1>1. NoRow \notin Row
  <2> SUFFICES ASSUME NoRow \in Row PROVE FALSE
    OBVIOUS
  <2>1. NoRow.of \in Analysts \union {Committed}
    BY DEF Row
  <2>2. NoRow.of = Nobody
    BY DEF NoRow
  <2> QED
    BY <2>1, <2>2, Marks
<1>2. Nothing \notin Judgement
  <2> SUFFICES ASSUME Nothing \in Judgement PROVE FALSE
    OBVIOUS
  <2>1. Nothing.kind \in {"signal", "shadow"}
    BY DEF Judgement
  <2> QED
    BY <2>1 DEF Nothing
<1> QED
  BY <1>1, <1>2

\* A set of numbers has a least one.
LEMMA LeastOf ==
    ASSUME NEW S \in SUBSET Nat, S # {}
    PROVE  Min(S) \in S
<1> DEFINE Below == OpToRel(<, Nat)
<1>1. PICK n \in S : \A m \in S : <<m, n>> \notin Below
  <2> HIDE DEF Below
  <2>1. IsWellFoundedOn(Below, Nat)
    BY NatLessThanWellFounded DEF Below
  <2> QED
    BY <2>1, WFMin
<1>2. \A m \in S : ~(m < n)
  BY <1>1 DEF OpToRel
<1>3. \A m \in S : n <= m
  BY <1>2
<1> QED
  BY <1>3 DEF Min

\* A round reads every instrument, from whichever it begins.
LEMMA RotatedIsARound ==
    ASSUME rotation \in 0..(Len(Order) - 1)
    PROVE  /\ Rotated \in Seq(Symbols) /\ Rotated # <<>>
           /\ (rotation + 1) % Len(Order) \in 0..(Len(Order) - 1)
<1>1. Order \in Seq(Symbols) /\ Len(Order) \in Nat /\ rotation \in Nat /\ rotation < Len(Order)
  BY OrderAssumption
<1>2. SubSeq(Order, rotation + 1, Len(Order)) \in Seq(Symbols)
      /\ Len(SubSeq(Order, rotation + 1, Len(Order))) = Len(Order) - rotation
  BY <1>1
<1>3. SubSeq(Order, 1, rotation) \in Seq(Symbols)
  BY <1>1
<1>4. (rotation + 1) % Len(Order) \in 0..(Len(Order) - 1)
  BY <1>1
<1> QED
  BY <1>1, <1>2, <1>3, <1>4 DEF Rotated

\* An actor that goes on leaves the steps of the others as they were.
LEMMA GotoStep ==
    ASSUME pc \in [Actors -> Steps], NEW a \in Actors, NEW next \in Steps, Goto(a, next)
    PROVE  /\ pc' \in [Actors -> Steps] /\ pc'[a] = next
           /\ \A b \in Actors : b # a => pc'[b] = pc[b]
  BY DEF Goto

\* What the end of a session forgets.
LEMMA ForgetStep ==
    ASSUME TypeOK, NEW actors \in SUBSET Actors, Forget(actors)
    PROVE  /\ pc' \in [Actors -> Steps] /\ todo' \in [Analysts -> Seq(Symbols)]
           /\ judged' \in [Analysts -> Judgement \union {Nothing}]
           /\ left' \in [Followers -> SUBSET Ids] /\ moved' \in [Followers -> SUBSET Ids]
           /\ \A a \in Actors : pc'[a] = IF a \in actors THEN "idle" ELSE pc[a]
           /\ \A a \in Analysts : a \notin actors => todo'[a] = todo[a] /\ judged'[a] = judged[a]
           /\ \A a \in Followers : IF a \in actors THEN left'[a] = {} /\ moved'[a] = {}
                                   ELSE left'[a] = left[a] /\ moved'[a] = moved[a]
<1> USE DEF TypeOK, Forget
<1>1. pc' \in [Actors -> Steps]
  BY DEF Steps
<1>2. todo' \in [Analysts -> Seq(Symbols)]
  OBVIOUS
<1>3. judged' \in [Analysts -> Judgement \union {Nothing}]
  OBVIOUS
<1>4. left' \in [Followers -> SUBSET Ids] /\ moved' \in [Followers -> SUBSET Ids]
  OBVIOUS
<1> QED
  BY <1>1, <1>2, <1>3, <1>4, Marks

\* A rollback loses the rows of its sessions and gives back their locks.
LEMMA RollBackStep ==
    ASSUME Shape, NEW actors \in SUBSET Actors, RollBack(actors)
    PROVE  /\ rows' \in [Ids -> Row \union {NoRow}]
           /\ lock' \in [Symbols -> Analysts \union {Nobody}]
           /\ \A i \in Ids : rows'[i] \in {rows[i], NoRow}
           /\ \A s \in Symbols : lock'[s] = IF lock[s] \in actors THEN Nobody ELSE lock[s]
           /\ lost' = TRUE /\ UNCHANGED <<created, told, retold, overlapped>>
           /\ Rounds'
<1>1. /\ rows' = [i \in Ids |-> IF rows[i].of \in actors THEN NoRow ELSE rows[i]]
      /\ lock' = [s \in Symbols |-> IF lock[s] \in actors THEN Nobody ELSE lock[s]]
      /\ Forget(actors)
      /\ lost' = TRUE /\ UNCHANGED <<created, told, retold, overlapped>>
  BY DEF RollBack, channel
<1>2. Rounds'
  <2>1. \A i \in Ids : Exists(i)' => i <= created'
    BY <1>1 DEF Shape, Rounds, Exists
  <2> QED
    BY <1>1, <2>1, ForgetStep, Marks DEF Shape, Rounds
<1> QED
  BY <1>1, <1>2 DEF Shape, TypeOK

\* A commit shows the rows of its session, and closes those it has moved.
LEMMA CommitStep ==
    ASSUME Shape, NEW a \in Actors, Commit(a)
    PROVE  LET changes == IF a \in Followers THEN moved[a] ELSE {}
           IN  /\ pc[a] = "commit" /\ Forget({a})
               /\ rows' \in [Ids -> Row \union {NoRow}]
               /\ \A i \in Ids : Exists(i)' <=> Exists(i)
               /\ \A i \in Ids : Exists(i) =>
                     /\ \A f \in {"symbol", "side", "shadow", "blind"} : rows'[i][f] = rows[i][f]
                     /\ rows'[i].status = IF i \in changes THEN Closed ELSE rows[i].status
                     /\ i \notin changes =>
                          rows'[i].of = IF rows[i].of = a THEN Committed ELSE rows[i].of
                     /\ i \in changes => rows'[i].of = rows[i].of
               /\ DropWriter(a)
               /\ UNCHANGED <<lock, round, created, channel, history>>
<1> DEFINE changes == IF a \in Followers THEN moved[a] ELSE {}
           row(i) == IF i \in changes THEN [rows[i] EXCEPT !.status = Closed]
                     ELSE IF rows[i].of = a THEN [rows[i] EXCEPT !.of = Committed]
                     ELSE rows[i]
<1>1. /\ pc[a] = "commit" /\ Forget({a}) /\ DropWriter(a)
      /\ UNCHANGED <<lock, round, created, channel, history>>
      /\ rows' = [i \in Ids |-> row(i)]
  BY DEF Commit, CommitWith
<1>2. ASSUME NEW i \in Ids, rows[i] \in Row
      PROVE  /\ row(i) \in Row
             /\ \A f \in {"symbol", "side", "shadow", "blind"} : row(i)[f] = rows[i][f]
             /\ row(i).status = IF i \in changes THEN Closed ELSE rows[i].status
             /\ i \notin changes =>
                  row(i).of = IF rows[i].of = a THEN Committed ELSE rows[i].of
             /\ i \in changes => row(i).of = rows[i].of
  BY <1>2 DEF Row
<1>3. ASSUME NEW i \in Ids, rows[i] = NoRow PROVE row(i) = NoRow
  <2>1. rows[i].of = Nobody /\ [rows[i] EXCEPT !.status = Closed] = NoRow
    BY <1>3 DEF NoRow
  <2> QED
    BY <1>3, <2>1, Marks
<1>4. \A i \in Ids : rows[i] \in Row \/ rows[i] = NoRow
  BY DEF Shape, TypeOK
<1> HIDE DEF row
<1>5. rows' \in [Ids -> Row \union {NoRow}]
  BY <1>1, <1>2, <1>3, <1>4
<1>6. \A i \in Ids : Exists(i)' <=> Exists(i)
  BY <1>1, <1>2, <1>3, <1>4, NotNothing DEF Exists
<1> QED
  BY <1>1, <1>2, <1>4, <1>5, <1>6 DEF Exists

\* Every step keeps the types.
LEMMA StepShape == Shape /\ [Next]_vars => Shape'
<1> SUFFICES ASSUME Shape, [Next]_vars PROVE Shape'
  OBVIOUS
<1> USE DEF session, round, channel, history
<1>0. TypeOK /\ Rounds
  BY DEF Shape
<1>1. CASE BeginRound
  <2>1. /\ pc' \in [Actors -> Steps] /\ pc'[Loop] = "lock"
        /\ \A b \in Actors : b # Loop => pc'[b] = pc[b]
    BY <1>0, <1>1, GotoStep, Marks DEF BeginRound, TypeOK, Steps
  <2>2. /\ todo' = [todo EXCEPT ![Loop] = Rotated]
        /\ rotation' = (rotation + 1) % Len(Order) /\ terminal' = TRUE
        /\ UNCHANGED <<rows, lock, writer, judged, left, moved, created, told, retold,
                       overlapped, lost, faults>>
    BY <1>1 DEF BeginRound
  <2>3. Rotated \in Seq(Symbols) /\ Rotated # <<>> /\ rotation' \in 0..(Len(Order) - 1)
    BY <1>0, <2>2, RotatedIsARound DEF TypeOK
  <2>4. /\ todo' \in [Analysts -> Seq(Symbols)] /\ todo'[Loop] # <<>>
        /\ \A b \in Analysts : b # Loop => todo'[b] = todo[b]
    BY <1>0, <2>2, <2>3, Marks DEF TypeOK
  <2>5. TypeOK'
    BY <1>0, <2>1, <2>2, <2>3, <2>4 DEF TypeOK
  <2>6. Rounds'
    BY <1>0, <2>1, <2>2, <2>4, Marks DEF Rounds, Exists
  <2> QED
    BY <2>5, <2>6 DEF Shape
<1>2. ASSUME NEW a \in Requests, NEW s \in Asked, Ask(a, s) PROVE Shape'
  <2>1. /\ pc' \in [Actors -> Steps] /\ pc'[a] = "lock"
        /\ \A b \in Actors : b # a => pc'[b] = pc[b]
    BY <1>0, <1>2, GotoStep, Marks DEF Ask, TypeOK, Steps
  <2>2. /\ todo' = [todo EXCEPT ![a] = <<s>>]
        /\ UNCHANGED <<rows, lock, writer, judged, left, moved, rotation, terminal, created,
                       told, retold, overlapped, lost, faults>>
    BY <1>2 DEF Ask
  <2>3. s \in Symbols /\ <<s>> \in Seq(Symbols) /\ <<s>> # <<>>
    BY OrderAssumption
  <2>4. /\ todo' \in [Analysts -> Seq(Symbols)] /\ todo'[a] # <<>>
        /\ \A b \in Analysts : b # a => todo'[b] = todo[b]
    BY <1>0, <2>2, <2>3, Marks DEF TypeOK
  <2>5. TypeOK'
    BY <1>0, <2>1, <2>2, <2>4 DEF TypeOK
  <2>6. Rounds'
    BY <1>0, <2>1, <2>2, <2>4, Marks DEF Rounds, Exists
  <2> QED
    BY <2>5, <2>6 DEF Shape
<1>3. ASSUME NEW a \in Followers, BeginFollow(a) PROVE Shape'
  <2> DEFINE open == {i \in Ids : Visible(a, i) /\ rows[i].status = Open}
  <2>1. /\ pc' \in [Actors -> Steps] /\ pc'[a] = "follow"
        /\ \A b \in Actors : b # a => pc'[b] = pc[b]
    BY <1>0, <1>3, GotoStep, Marks DEF BeginFollow, TypeOK, Steps
  <2>2. /\ open # {} /\ left' = [left EXCEPT ![a] = open]
        /\ UNCHANGED <<rows, lock, writer, todo, judged, moved, rotation, terminal, created,
                       told, retold, lost, faults>>
    BY <1>3 DEF BeginFollow
  <2>3. overlapped' \in BOOLEAN
    BY <1>0, <1>3 DEF BeginFollow, TypeOK, Busy
  <2>4. open \in SUBSET Ids
    OBVIOUS
  <2> HIDE DEF open
  <2>5. /\ left' \in [Followers -> SUBSET Ids] /\ left'[a] # {}
        /\ \A b \in Followers : b # a => left'[b] = left[b]
    BY <1>0, <2>2, <2>4 DEF TypeOK
  <2>6. TypeOK'
    BY <1>0, <2>1, <2>2, <2>3, <2>5 DEF TypeOK
  <2>7. Rounds'
    BY <1>0, <2>1, <2>2, <2>5, Marks DEF Rounds, Exists
  <2> QED
    BY <2>6, <2>7 DEF Shape
<1>4. CASE TerminalDies
  BY <1>0, <1>4 DEF TerminalDies, Shape, TypeOK, Rounds, Exists
<1>5. ASSUME NEW actors \in SUBSET Actors, RollBack(actors),
             writer' \in {writer, Nobody}, rotation' \in {rotation, 0},
             terminal' \in BOOLEAN, faults' \in 0..MaxFaults
      PROVE  Shape'
  <2>1. Forget(actors)
    BY <1>5 DEF RollBack
  <2>2. rotation' \in 0..(Len(Order) - 1)
    BY <1>0, <1>5, OrderAssumption DEF TypeOK
  <2>3. TypeOK'
    BY <1>0, <1>5, <2>1, <2>2, ForgetStep, RollBackStep DEF Shape, TypeOK
  <2> QED
    BY <1>5, <2>3, RollBackStep DEF Shape
<1>6. CASE Crash
  <2>1. faults' \in 0..MaxFaults
    BY <1>0, <1>6, BoundsAssumption DEF Crash, TypeOK
  <2> QED
    BY <1>5, <1>6, <2>1 DEF Crash
<1>7. ASSUME NEW a \in Actors, BusyTimeout(a) PROVE Shape'
  BY <1>0, <1>5, <1>7 DEF BusyTimeout, TypeOK
<1>8. ASSUME NEW a \in Actors, Commit(a) PROVE Shape'
  <2>1. writer' \in Actors \union {Nobody} /\ Forget({a})
    BY <1>0, <1>8, CommitStep DEF DropWriter, TypeOK, Shape
  <2>2. /\ rows' \in [Ids -> Row \union {NoRow}] /\ \A i \in Ids : Exists(i)' <=> Exists(i)
        /\ UNCHANGED <<lock, rotation, terminal, created, told, retold, overlapped, lost,
                       faults>>
    BY <1>8, CommitStep DEF Shape
  <2>3. TypeOK'
    BY <1>0, <2>1, <2>2, ForgetStep DEF TypeOK
  <2>4. Rounds'
    BY <1>0, <2>1, <2>2, ForgetStep, Marks DEF Rounds
  <2> QED
    BY <2>3, <2>4 DEF Shape
<1>9. ASSUME NEW a \in Analysts, Judge(a) PROVE Shape'
  <2>1. pc[a] = "lock" /\ todo[a] # <<>> /\ todo[a] \in Seq(Symbols)
    BY <1>0, <1>9 DEF Judge, Rounds, TypeOK
  <2>2. Head(todo[a]) \in Symbols
    BY <2>1
  <2>3. lock' \in [Symbols -> Analysts \union {Nobody}]
    BY <1>0, <1>9, <2>2 DEF Judge, TypeOK
  <2>4. /\ pc' \in [Actors -> Steps] /\ pc'[a] \in {"create", "record"}
        /\ \A b \in Actors : b # a => pc'[b] = pc[b]
    BY <1>0, <1>9, GotoStep, Marks DEF Judge, TypeOK, Steps
  <2>5. judged' \in [Analysts -> Judgement \union {Nothing}]
    <3>1. CASE UNCHANGED judged
      BY <1>0, <3>1 DEF TypeOK
    <3>2. ASSUME NEW side \in Sides, NEW score \in Scores,
                 NEW market \in {"clear", "unsettled", "refused"},
                 judged' = [judged EXCEPT ![a] =
                   IF Kind(a, side, score, market) = "nothing" THEN Nothing
                   ELSE [kind |-> Kind(a, side, score, market), side |-> side,
                         blind |-> {j \in Ids : Hidden(a, j)
                                                /\ rows[j].symbol = Head(todo[a])}]]
          PROVE  judged' \in [Analysts -> Judgement \union {Nothing}]
      <4>1. Kind(a, side, score, market) \in {"signal", "shadow", "nothing"}
        BY DEF Kind
      <4> DEFINE new == IF Kind(a, side, score, market) = "nothing" THEN Nothing
                        ELSE [kind |-> Kind(a, side, score, market), side |-> side,
                              blind |-> {j \in Ids : Hidden(a, j)
                                                     /\ rows[j].symbol = Head(todo[a])}]
      <4>2. new \in Judgement \union {Nothing}
        BY <4>1 DEF Judgement
      <4>3. judged' = [judged EXCEPT ![a] = new]
        BY <3>2
      <4> HIDE DEF new
      <4> QED
        BY <1>0, <4>2, <4>3 DEF TypeOK
    <3> QED
      BY <1>9, <3>1, <3>2 DEF Judge
  <2>6. UNCHANGED <<rows, writer, todo, left, moved, rotation, terminal, created, told,
                    retold, overlapped, lost, faults>>
    BY <1>9 DEF Judge
  <2>7. TypeOK'
    BY <1>0, <2>3, <2>4, <2>5, <2>6 DEF TypeOK
  <2>8. Rounds'
    BY <1>0, <2>1, <2>4, <2>6, Marks DEF Rounds, Exists
  <2> QED
    BY <2>7, <2>8 DEF Shape
<1>10. ASSUME NEW a \in Analysts, Create(a) PROVE Shape'
  <2>1. pc[a] = "create" /\ todo[a] # <<>> /\ todo[a] \in Seq(Symbols)
    BY <1>0, <1>10 DEF Create, Rounds, TypeOK
  <2>2. Head(todo[a]) \in Symbols
    BY <2>1
  <2>3. /\ pc' \in [Actors -> Steps] /\ pc'[a] = "record"
        /\ \A b \in Actors : b # a => pc'[b] = pc[b]
    BY <1>0, <1>10, GotoStep, Marks DEF Create, TypeOK, Steps
  <2>4. UNCHANGED <<lock, todo, judged, left, moved, rotation, terminal, told, retold,
                    overlapped, lost, faults>>
    BY <1>10 DEF Create
  <2>5. CASE judged[a] = Nothing \/ created = MaxSignals
    <3>1. UNCHANGED <<writer, created, rows>>
      BY <1>10, <2>5 DEF Create
    <3> QED
      BY <1>0, <2>1, <2>3, <2>4, <3>1, Marks DEF Shape, TypeOK, Rounds, Exists
  <2>6. CASE ~(judged[a] = Nothing \/ created = MaxSignals)
    <3> DEFINE new == [of |-> a, symbol |-> Head(todo[a]), side |-> judged[a].side,
                       shadow |-> judged[a].kind = "shadow", status |-> Open,
                       blind |-> judged[a].blind]
    <3>1. /\ writer' = a /\ created' = created + 1
          /\ rows' = [rows EXCEPT ![created + 1] = new]
      BY <1>10, <2>6 DEF Create, TakeWriter
    <3>2. created + 1 \in Ids /\ created' \in 0..MaxSignals
      BY <1>0, <2>6, <3>1, BoundsAssumption DEF TypeOK, Ids
    <3>3. judged[a] \in Judgement
      BY <1>0, <2>6 DEF TypeOK
    <3>4. new \in Row
      BY <2>2, <3>3 DEF Row, Judgement
    <3> HIDE DEF new
    <3>5. rows' \in [Ids -> Row \union {NoRow}]
          /\ \A i \in Ids : i # created + 1 => rows'[i] = rows[i]
      BY <1>0, <3>1, <3>2, <3>4 DEF TypeOK
    <3>6. TypeOK'
      BY <1>0, <2>3, <2>4, <3>1, <3>2, <3>5, Marks DEF TypeOK
    <3>7. \A i \in Ids : Exists(i)' => i <= created'
      BY <1>0, <3>1, <3>2, <3>5 DEF Rounds, Exists, Ids, TypeOK
    <3>8. Rounds'
      BY <1>0, <2>1, <2>3, <2>4, <3>7, Marks DEF Rounds
    <3> QED
      BY <3>6, <3>8 DEF Shape
  <2> QED
    BY <2>5, <2>6
<1>11. ASSUME NEW a \in Analysts, Record(a) PROVE Shape'
  <2>1. pc[a] = "record" /\ todo[a] # <<>> /\ todo[a] \in Seq(Symbols)
    BY <1>0, <1>11 DEF Record, Rounds, TypeOK
  <2>2. /\ Head(todo[a]) \in Symbols /\ Tail(todo[a]) \in Seq(Symbols)
        /\ Len(todo[a]) # 1 => Tail(todo[a]) # <<>>
    <3>1. Len(todo[a]) \in Nat \ {0}
      BY <2>1
    <3>2. Head(todo[a]) \in Symbols /\ Tail(todo[a]) \in Seq(Symbols)
          /\ Len(Tail(todo[a])) = Len(todo[a]) - 1
      BY <2>1, <3>1
    <3>3. Len(todo[a]) # 1 => Tail(todo[a]) # <<>>
      <4> DEFINE rest == Tail(todo[a])
      <4>0. Len(<<>>) = 0
        OBVIOUS
      <4>2. Len(rest) = Len(todo[a]) - 1
        BY <3>2
      <4> HIDE DEF rest
      <4>1. rest = <<>> => Len(rest) = 0
        BY <4>0
      <4>3. Len(todo[a]) # 1 => rest # <<>>
        BY <3>1, <4>1, <4>2
      <4> QED
        BY <4>3 DEF rest
    <3> QED
      BY <3>2, <3>3
  <2> DEFINE next == IF Len(todo[a]) = 1 THEN "commit" ELSE "lock"
  <2>3. /\ pc' \in [Actors -> Steps] /\ pc'[a] = next
        /\ \A b \in Actors : b # a => pc'[b] = pc[b]
    <3>1. Goto(a, next) /\ next \in Steps
      BY <1>11 DEF Record, Steps
    <3> HIDE DEF next
    <3> QED
      BY <1>0, <3>1, GotoStep, Marks DEF TypeOK
  <2>4. /\ writer' = a
        /\ lock' = [lock EXCEPT ![Head(todo[a])] = Nobody]
        /\ todo' = [todo EXCEPT ![a] = Tail(@)]
        /\ judged' = [judged EXCEPT ![a] = Nothing]
        /\ UNCHANGED <<rows, left, moved, rotation, terminal, created, told, retold,
                       overlapped, lost, faults>>
    BY <1>11 DEF Record, TakeWriter
  <2>5. /\ lock' \in [Symbols -> Analysts \union {Nobody}]
        /\ todo' \in [Analysts -> Seq(Symbols)] /\ todo'[a] = Tail(todo[a])
        /\ \A b \in Analysts : b # a => todo'[b] = todo[b]
        /\ judged' \in [Analysts -> Judgement \union {Nothing}]
    BY <1>0, <2>2, <2>4 DEF TypeOK
  <2>6. TypeOK'
    BY <1>0, <2>3, <2>4, <2>5, Marks DEF TypeOK
  <2>7. Rounds'
    BY <1>0, <2>2, <2>3, <2>4, <2>5, Marks DEF Rounds, Exists
  <2> QED
    BY <2>6, <2>7 DEF Shape
<1>12. ASSUME NEW a \in Followers, Follow(a) PROVE Shape'
  <2> DEFINE i == Min(left[a])
             next == IF left[a] = {i} THEN "commit" ELSE "follow"
  <2>1. i \in left[a] /\ i \in Ids
    <3>1. left[a] # {} /\ left[a] \in SUBSET Ids
      BY <1>0, <1>12 DEF Follow, Rounds, TypeOK
    <3>2. left[a] \in SUBSET Nat
      BY <3>1, BoundsAssumption DEF Ids
    <3>3. Min(left[a]) \in left[a]
      BY <3>1, <3>2, LeastOf
    <3> QED
      BY <3>1, <3>3
  <2>2. /\ Goto(a, next) /\ next \in Steps
        /\ left' = [left EXCEPT ![a] = @ \ {i}]
        /\ UNCHANGED <<rows, lock, todo, judged, rotation, terminal, created, overlapped,
                       lost, faults>>
    BY <1>12 DEF Follow, Steps
  <2>3. /\ writer' \in {writer, a}
        /\ moved' = moved \/ moved' = [moved EXCEPT ![a] = @ \union {i}]
        /\ told' \in {told, told \union {i}}
        /\ retold' \in BOOLEAN
    BY <1>0, <1>12 DEF Follow, TakeWriter, TypeOK
  <2> HIDE DEF i, next
  <2>4. /\ pc' \in [Actors -> Steps] /\ pc'[a] = next
        /\ \A b \in Actors : b # a => pc'[b] = pc[b]
    BY <1>0, <2>2, GotoStep, Marks DEF TypeOK
  <2>5. /\ left' \in [Followers -> SUBSET Ids] /\ left'[a] = left[a] \ {i}
        /\ \A b \in Followers : b # a => left'[b] = left[b]
        /\ moved' \in [Followers -> SUBSET Ids] /\ told' \subseteq Ids
    BY <1>0, <2>1, <2>2, <2>3 DEF TypeOK
  <2>6. TypeOK'
    BY <1>0, <2>2, <2>3, <2>4, <2>5, Marks DEF TypeOK
  <2>7. next = "follow" => left[a] \ {i} # {}
    BY <2>1 DEF next
  <2>8. Rounds'
    BY <1>0, <2>2, <2>4, <2>5, <2>7, Marks DEF Rounds, Exists
  <2> QED
    BY <2>6, <2>8 DEF Shape
<1>13. CASE UNCHANGED vars
  BY <1>0, <1>13 DEF vars, Shape, TypeOK, Rounds, Exists
<1> QED
  BY <1>1, <1>2, <1>3, <1>4, <1>6, <1>7, <1>8, <1>9, <1>10, <1>11, <1>12, <1>13
     DEF Next, Begin, Step

\* The first state has its types.
LEMMA InitShape == Init => Shape
<1> SUFFICES ASSUME Init PROVE Shape
  OBVIOUS
<1>1. \A i \in Ids : ~Exists(i)
  BY DEF Init, Exists
<1>2. \A a \in Actors : pc[a] = "idle"
  BY DEF Init
<1>3. TypeOK
  <2>1. rows \in [Ids -> Row \union {NoRow}] /\ lock \in [Symbols -> Analysts \union {Nobody}]
        /\ writer \in Actors \union {Nobody} /\ pc \in [Actors -> Steps]
    BY DEF Init, Steps
  <2>2. todo \in [Analysts -> Seq(Symbols)] /\ judged \in [Analysts -> Judgement \union {Nothing}]
        /\ left \in [Followers -> SUBSET Ids] /\ moved \in [Followers -> SUBSET Ids]
    BY DEF Init
  <2>3. created \in 0..MaxSignals /\ rotation \in 0..(Len(Order) - 1)
        /\ told \subseteq Ids /\ faults \in 0..MaxFaults
    <3>1. Len(Order) \in Nat /\ Len(Order) # 0
      BY OrderAssumption
    <3> QED
      BY <3>1, BoundsAssumption DEF Init
  <2> QED
    BY <2>1, <2>2, <2>3 DEF TypeOK, Init
<1> QED
  BY <1>1, <1>2, <1>3, Marks DEF Shape, Rounds

\* The types hold always, and so do what each step of a round has left and the order
\* in which rows are created.
THEOREM EngineTypes == Spec => []Shape
<1>1. Init => Shape
  BY InitShape
<1>2. Shape /\ [Next]_vars => Shape'
  BY StepShape
<1> QED
  BY <1>1, <1>2, PTL DEF Spec

\* The type invariant of the model.
THEOREM WatcherTyped == Spec => []TypeOK
<1>1. Shape => TypeOK
  BY DEF Shape
<1> QED
  BY <1>1, EngineTypes, PTL

-----------------------------------------------------------------------------
(* Twins.                                                                  *)

\* An analysis that has judged keeps the lock of its instrument.
Locked ==
    \A a \in Analysts : pc[a] \in {"create", "record"} => lock[Head(todo[a])] = a

\* An open row of one instrument, side and population.
Like(i, symbol, side, shadow) ==
    /\ Exists(i) /\ rows[i].status = Open
    /\ rows[i].symbol = symbol /\ rows[i].side = side /\ rows[i].shadow = shadow

\* What an analysis is about to create has no open like but those it could not see,
\* however long ago it looked.
Judged ==
    \A a \in Analysts : (pc[a] = "create" /\ judged[a] # Nothing) =>
        \A i \in Ids :
            Like(i, Head(todo[a]), judged[a].side, judged[a].kind = "shadow")
                => i \in judged[a].blind

\* A row that lives beside an earlier one of the same kind was blind to it, committed
\* or not.
BornBlind ==
    \A i, j \in Ids :
        (/\ i < j /\ Exists(j) /\ rows[j].status = Open
         /\ Like(i, rows[j].symbol, rows[j].side, rows[j].shadow))
            => i \in rows[j].blind

TwinInv == Shape /\ Locked /\ Judged /\ BornBlind

\* A step that only ends rows, and leaves the analyses that have judged where they are.
LEMMA Undisturbed ==
    ASSUME TwinInv,
           \A i \in Ids : Exists(i)' =>
               /\ Exists(i) /\ (rows'[i].status = Open => rows[i].status = Open)
               /\ rows'[i].symbol = rows[i].symbol /\ rows'[i].side = rows[i].side
               /\ rows'[i].shadow = rows[i].shadow /\ rows'[i].blind = rows[i].blind,
           \A b \in Analysts : pc'[b] \in {"create", "record"} =>
               /\ pc'[b] = pc[b] /\ todo'[b] = todo[b] /\ judged'[b] = judged[b]
               /\ lock'[Head(todo[b])] = lock[Head(todo[b])]
    PROVE  Locked' /\ Judged' /\ BornBlind'
<1>1. Locked'
  BY DEF TwinInv, Locked
<1>2. Judged'
  <2> SUFFICES ASSUME NEW b \in Analysts, pc'[b] = "create", judged'[b] # Nothing,
                      NEW i \in Ids, Like(i, Head(todo[b]), judged[b].side,
                                          judged[b].kind = "shadow")'
               PROVE  i \in judged'[b].blind
    BY DEF Judged
  <2>1. pc[b] = "create" /\ todo'[b] = todo[b] /\ judged'[b] = judged[b]
    OBVIOUS
  <2>2. Like(i, Head(todo[b]), judged[b].side, judged[b].kind = "shadow")
    BY <2>1 DEF Like
  <2> QED
    BY <2>1, <2>2 DEF TwinInv, Judged
<1>3. BornBlind'
  <2> SUFFICES ASSUME NEW i \in Ids, NEW j \in Ids, i < j, Exists(j)', rows'[j].status = Open,
                      Like(i, rows[j].symbol, rows[j].side, rows[j].shadow)'
               PROVE  i \in rows'[j].blind
    BY DEF BornBlind
  <2>1. Exists(j) /\ rows[j].status = Open /\ rows'[j].blind = rows[j].blind
    OBVIOUS
  <2>2. Like(i, rows[j].symbol, rows[j].side, rows[j].shadow)
    BY DEF Like
  <2> QED
    BY <2>1, <2>2 DEF TwinInv, BornBlind
<1> QED
  BY <1>1, <1>2, <1>3

\* The anti-duplicate of the judgement: what was approved has no visible like, so its
\* likes are among the hidden rows of the instrument.
LEMMA ApprovedHasNoSeenLike ==
    ASSUME NEW a \in Analysts, NEW side \in Sides, NEW score \in Scores,
           NEW market \in {"clear", "unsettled", "refused"},
           NEW kind, kind = Kind(a, side, score, market), kind # "nothing",
           NEW i \in Ids, Like(i, Head(todo[a]), side, kind = "shadow")
    PROVE  Hidden(a, i) /\ rows[i].symbol = Head(todo[a])
<1>1. \A shadow \in BOOLEAN, floor \in {Score.minimum, Score.shadow} :
        (/\ rows[i].shadow = shadow
         /\ Verdict(a, side, score, market, floor, shadow) = "APPROVED") => ~Visible(a, i)
  <2> SUFFICES ASSUME NEW shadow \in BOOLEAN, NEW floor, rows[i].shadow = shadow,
                      Visible(a, i)
               PROVE  Verdict(a, side, score, market, floor, shadow) = "REJECTED"
    BY DEF Verdict
  <2>1. i \in OpenSignals(a, shadow)
    BY DEF OpenSignals, Like
  <2>2. rows[i].symbol = Head(todo[a]) /\ rows[i].side = side
    BY DEF Like
  <2> DEFINE open == OpenSignals(a, shadow)
             twin == \E j \in open : rows[j].symbol = Head(todo[a]) /\ rows[j].side = side
             late == \/ market = "unsettled" \/ score < floor
                     \/ Cardinality(open) >= MaxActive
  <2>3. twin
    BY <2>1, <2>2
  <2>4. Verdict(a, side, score, market, floor, shadow) =
          IF market = "refused" \/ twin THEN "REJECTED"
          ELSE IF late THEN "WAIT" ELSE "APPROVED"
    BY DEF Verdict
  <2> HIDE DEF twin, late
  <2> QED
    BY <2>3, <2>4
<1>2. CASE kind = "signal"
  <2>1. Verdict(a, side, score, market, Score.minimum, FALSE) = "APPROVED"
    BY <1>2 DEF Kind
  <2>2. rows[i].shadow = FALSE
    BY <1>2 DEF Like
  <2> QED
    BY <1>1, <2>1, <2>2 DEF Like, Hidden
<1>3. CASE kind = "shadow"
  <2>1. Verdict(a, side, score, market, Score.shadow, TRUE) = "APPROVED"
    BY <1>3 DEF Kind
  <2>2. rows[i].shadow = TRUE
    BY <1>3 DEF Like
  <2> QED
    BY <1>1, <2>1, <2>2 DEF Like, Hidden
<1>4. kind \in {"signal", "shadow"}
  BY DEF Kind
<1> QED
  BY <1>2, <1>3, <1>4

\* Every step keeps TwinInv.
LEMMA StepTwins == TwinInv /\ [Next]_vars => TwinInv'
<1> SUFFICES ASSUME TwinInv, [Next]_vars PROVE TwinInv'
  OBVIOUS
<1> USE DEF session, round, channel, history
<1>0. TypeOK /\ Rounds /\ Shape /\ Shape' /\ Locked /\ Judged /\ BornBlind
  BY StepShape DEF TwinInv, Shape
<1> SUFFICES Locked' /\ Judged' /\ BornBlind'
  BY <1>0 DEF TwinInv
<1>1. ASSUME NEW a \in Actors, NEW next \in Steps, next \notin {"create", "record"},
             Goto(a, next), UNCHANGED <<rows, judged>>,
             \A b \in Analysts : b # a => todo'[b] = todo[b],
             \A b \in Analysts : b # a /\ pc[b] \in {"create", "record"} =>
                lock'[Head(todo[b])] = lock[Head(todo[b])]
      PROVE  Locked' /\ Judged' /\ BornBlind'
  <2>1. pc'[a] = next /\ \A b \in Actors : b # a => pc'[b] = pc[b]
    BY <1>0, <1>1, GotoStep DEF TypeOK
  <2>2. \A b \in Analysts : pc'[b] \in {"create", "record"} =>
          /\ pc'[b] = pc[b] /\ todo'[b] = todo[b] /\ judged'[b] = judged[b]
          /\ lock'[Head(todo[b])] = lock[Head(todo[b])]
    BY <1>1, <2>1, Marks
  <2>3. \A i \in Ids : Exists(i)' => Exists(i) /\ rows'[i] = rows[i]
    BY <1>1 DEF Exists
  <2> QED
    BY <2>2, <2>3, Undisturbed
<1>2. CASE BeginRound
  <2>1. /\ Goto(Loop, "lock") /\ UNCHANGED <<rows, lock, judged>>
        /\ todo' = [todo EXCEPT ![Loop] = Rotated]
    BY <1>2 DEF BeginRound
  <2>2. \A b \in Analysts : b # Loop => todo'[b] = todo[b]
    BY <1>0, <2>1 DEF TypeOK
  <2> QED
    BY <1>1, <2>1, <2>2, Marks DEF Steps
<1>3. ASSUME NEW a \in Requests, NEW s \in Asked, Ask(a, s)
      PROVE  Locked' /\ Judged' /\ BornBlind'
  <2>1. /\ Goto(a, "lock") /\ UNCHANGED <<rows, lock, judged>>
        /\ todo' = [todo EXCEPT ![a] = <<s>>]
    BY <1>3 DEF Ask
  <2>2. \A b \in Analysts : b # a => todo'[b] = todo[b]
    BY <1>0, <2>1 DEF TypeOK
  <2> QED
    BY <1>1, <2>1, <2>2, Marks DEF Steps
<1>4. ASSUME NEW a \in Followers, BeginFollow(a) PROVE Locked' /\ Judged' /\ BornBlind'
  <2>1. Goto(a, "follow") /\ UNCHANGED <<rows, lock, todo, judged>>
    BY <1>4 DEF BeginFollow
  <2> QED
    BY <1>1, <2>1, Marks DEF Steps
<1>5. ASSUME NEW a \in Followers, Follow(a) PROVE Locked' /\ Judged' /\ BornBlind'
  <2>1. UNCHANGED <<rows, lock, todo, judged>> /\ (Goto(a, "commit") \/ Goto(a, "follow"))
    BY <1>5 DEF Follow
  <2> QED
    BY <1>1, <2>1, Marks DEF Steps
<1>6. ASSUME UNCHANGED <<rows, lock, pc, todo, judged>> PROVE Locked' /\ Judged' /\ BornBlind'
  BY <1>0, <1>6, Undisturbed DEF Exists
<1>7. ASSUME NEW actors \in SUBSET Actors, RollBack(actors)
      PROVE  Locked' /\ Judged' /\ BornBlind'
  <2>1. /\ \A i \in Ids : rows'[i] \in {rows[i], NoRow}
        /\ \A s \in Symbols : lock'[s] = IF lock[s] \in actors THEN Nobody ELSE lock[s]
        /\ Forget(actors)
    BY <1>0, <1>7, RollBackStep DEF RollBack
  <2>2. \A i \in Ids : Exists(i)' => Exists(i) /\ rows'[i] = rows[i]
    BY <2>1 DEF Exists
  <2>3. ASSUME NEW b \in Analysts, pc'[b] \in {"create", "record"}
        PROVE  /\ pc'[b] = pc[b] /\ todo'[b] = todo[b] /\ judged'[b] = judged[b]
               /\ lock'[Head(todo[b])] = lock[Head(todo[b])]
    <3>1. b \notin actors /\ pc'[b] = pc[b] /\ todo'[b] = todo[b] /\ judged'[b] = judged[b]
      BY <1>0, <2>1, <2>3, ForgetStep, Marks
    <3>2. todo[b] # <<>> /\ todo[b] \in Seq(Symbols)
      BY <1>0, <2>3, <3>1 DEF Rounds, TypeOK
    <3>3. Head(todo[b]) \in Symbols
      BY <3>2
    <3>4. lock[Head(todo[b])] = b
      BY <1>0, <2>3, <3>1 DEF Locked
    <3> QED
      BY <2>1, <3>1, <3>3, <3>4
  <2> QED
    BY <2>2, <2>3, Undisturbed
<1>8. ASSUME NEW a \in Actors, Commit(a) PROVE Locked' /\ Judged' /\ BornBlind'
  <2>1. Forget({a}) /\ lock' = lock /\ pc[a] = "commit"
    BY <1>0, <1>8, CommitStep
  <2>2. \A i \in Ids : Exists(i)' =>
          /\ Exists(i) /\ rows'[i].status \in {Closed, rows[i].status}
          /\ rows'[i].symbol = rows[i].symbol /\ rows'[i].side = rows[i].side
          /\ rows'[i].shadow = rows[i].shadow /\ rows'[i].blind = rows[i].blind
    <3> DEFINE changes == IF a \in Followers THEN moved[a] ELSE {}
    <3>1. /\ \A i \in Ids : Exists(i)' <=> Exists(i)
          /\ \A i \in Ids : Exists(i) =>
               /\ \A f \in {"symbol", "side", "shadow", "blind"} : rows'[i][f] = rows[i][f]
               /\ rows'[i].status = IF i \in changes THEN Closed ELSE rows[i].status
      BY <1>0, <1>8, CommitStep
    <3> HIDE DEF changes
    <3> QED
      BY <3>1
  <2>3. \A i \in Ids : rows'[i].status \in {Closed, rows[i].status} =>
          (rows'[i].status = Open => rows[i].status = Open)
    BY DEF Open, Closed
  <2>4. \A b \in Analysts : pc'[b] \in {"create", "record"} =>
          pc'[b] = pc[b] /\ todo'[b] = todo[b] /\ judged'[b] = judged[b]
    BY <1>0, <2>1, ForgetStep, Marks
  <2> QED
    BY <2>1, <2>2, <2>3, <2>4, Undisturbed
<1>9. ASSUME NEW a \in Analysts, Judge(a) PROVE Locked' /\ Judged' /\ BornBlind'
  <2>1. /\ pc[a] = "lock" /\ lock[Head(todo[a])] = Nobody
        /\ lock' = [lock EXCEPT ![Head(todo[a])] = a] /\ UNCHANGED <<rows, todo>>
    BY <1>9 DEF Judge
  <2>2. todo[a] # <<>> /\ todo[a] \in Seq(Symbols)
    BY <1>0, <2>1 DEF Rounds, TypeOK
  <2>3. Head(todo[a]) \in Symbols
    BY <2>2
  <2>4. \A b \in Actors : b # a => pc'[b] = pc[b]
    BY <1>0, <1>9, GotoStep, Marks DEF Judge, TypeOK, Steps
  <2>5. Locked'
    <3>1. lock'[Head(todo[a])] = a
      BY <1>0, <2>1, <2>3 DEF TypeOK
    <3>2. ASSUME NEW b \in Analysts, b # a, pc[b] \in {"create", "record"}
          PROVE  lock'[Head(todo[b])] = b
      <4>1. lock[Head(todo[b])] = b /\ b # Nobody
        BY <1>0, <3>2, Marks DEF Locked
      <4>2. Head(todo[b]) # Head(todo[a])
        BY <2>1, <4>1
      <4>3. todo[b] # <<>> /\ todo[b] \in Seq(Symbols)
        BY <1>0, <3>2 DEF Rounds, TypeOK
      <4>4. Head(todo[b]) \in Symbols
        BY <4>3
      <4> QED
        BY <1>0, <2>1, <4>1, <4>2, <4>4 DEF TypeOK
    <3> QED
      BY <2>1, <2>4, <3>1, <3>2, Marks DEF Locked
  <2>6. BornBlind'
    BY <1>0, <2>1 DEF BornBlind, Like, Exists
  <2>7. \A b \in Analysts : b # a => judged'[b] = judged[b]
    BY <1>0, <1>9 DEF Judge, TypeOK
  <2>8. ASSUME pc'[a] = "create", judged'[a] # Nothing
        PROVE  \A i \in Ids :
                 Like(i, Head(todo[a]), judged'[a].side, judged'[a].kind = "shadow")
                   => i \in judged'[a].blind
    <3>1. terminal
      <4>1. ~terminal => Goto(a, "record")
        BY <1>9 DEF Judge
      <4>2. Goto(a, "record") => pc'[a] = "record"
        BY <1>0, Marks DEF Goto, TypeOK
      <4> QED
        BY <2>8, <4>1, <4>2
    <3>2. PICK side \in Sides, score \in Scores, market \in {"clear", "unsettled", "refused"} :
            judged' = [judged EXCEPT ![a] =
              IF Kind(a, side, score, market) = "nothing" THEN Nothing
              ELSE [kind |-> Kind(a, side, score, market), side |-> side,
                    blind |-> {j \in Ids : Hidden(a, j) /\ rows[j].symbol = Head(todo[a])}]]
      BY <1>9, <3>1 DEF Judge
    <3> DEFINE kind == Kind(a, side, score, market)
               unseen == {j \in Ids : Hidden(a, j) /\ rows[j].symbol = Head(todo[a])}
    <3>3. judged'[a] = IF kind = "nothing" THEN Nothing
                       ELSE [kind |-> kind, side |-> side, blind |-> unseen]
      BY <1>0, <3>2 DEF TypeOK
    <3>4. kind # "nothing"
      BY <2>8, <3>3
    <3>5. \A i \in Ids : Like(i, Head(todo[a]), side, kind = "shadow") =>
            Hidden(a, i) /\ rows[i].symbol = Head(todo[a])
      BY <3>4, ApprovedHasNoSeenLike
    <3>6. \A i \in Ids : Like(i, Head(todo[a]), side, kind = "shadow") => i \in unseen
      BY <3>5
    <3> HIDE DEF kind, unseen
    <3>7. judged'[a].side = side /\ judged'[a].kind = kind /\ judged'[a].blind = unseen
      BY <3>3, <3>4
    <3> QED
      BY <3>6, <3>7
  <2>9. Judged'
    <3> SUFFICES ASSUME NEW b \in Analysts, pc'[b] = "create", judged'[b] # Nothing,
                        NEW i \in Ids, Like(i, Head(todo[b]), judged[b].side,
                                            judged[b].kind = "shadow")'
                 PROVE  i \in judged'[b].blind
      BY DEF Judged
    <3>1. Like(i, Head(todo[b]), judged'[b].side, judged'[b].kind = "shadow")
      BY <2>1 DEF Like, Exists
    <3>2. CASE b = a
      BY <2>8, <3>1, <3>2
    <3>3. CASE b # a
      BY <1>0, <2>4, <2>7, <3>1, <3>3, Marks DEF Judged
    <3> QED
      BY <3>2, <3>3
  <2> QED
    BY <2>5, <2>6, <2>9
<1>10. ASSUME NEW a \in Analysts, Create(a) PROVE Locked' /\ Judged' /\ BornBlind'
  <2>1. pc[a] = "create" /\ UNCHANGED <<lock, todo, judged>> /\ Goto(a, "record")
    BY <1>10 DEF Create
  <2>2. pc'[a] = "record" /\ \A b \in Actors : b # a => pc'[b] = pc[b]
    BY <1>0, <2>1, GotoStep, Marks DEF TypeOK, Steps
  <2>3. Locked'
    BY <1>0, <2>1, <2>2, Marks DEF Locked
  <2>4. CASE judged[a] = Nothing \/ created = MaxSignals
    <3>1. UNCHANGED rows
      BY <1>10, <2>4 DEF Create
    <3>2. \A b \in Analysts : pc'[b] \in {"create", "record"} /\ b # a => pc'[b] = pc[b]
      BY <2>2, Marks
    <3>3. Judged'
      BY <1>0, <2>1, <2>2, <3>1, Marks DEF Judged, Like, Exists
    <3>4. BornBlind'
      BY <1>0, <3>1 DEF BornBlind, Like, Exists
    <3> QED
      BY <2>3, <3>3, <3>4
  <2>5. CASE ~(judged[a] = Nothing \/ created = MaxSignals)
    <3> DEFINE n == created + 1
               new == [of |-> a, symbol |-> Head(todo[a]), side |-> judged[a].side,
                       shadow |-> judged[a].kind = "shadow", status |-> Open,
                       blind |-> judged[a].blind]
    <3>1. created' = n /\ rows' = [rows EXCEPT ![n] = new]
      BY <1>10, <2>5 DEF Create, TakeWriter
    <3>2. n \in Ids
      BY <1>0, <2>5, BoundsAssumption DEF TypeOK, Ids
    <3>3. /\ new.symbol = Head(todo[a]) /\ new.side = judged[a].side
          /\ new.shadow = (judged[a].kind = "shadow") /\ new.blind = judged[a].blind
      OBVIOUS
    <3> HIDE DEF new
    <3>4. rows'[n] = new /\ \A i \in Ids : i # n => rows'[i] = rows[i]
      BY <1>0, <3>1, <3>2 DEF TypeOK
    <3>5. ~Exists(n)
      BY <1>0, <3>2 DEF Rounds, TypeOK
    <3>6. Judged'
      <4> SUFFICES ASSUME NEW b \in Analysts, pc'[b] = "create", judged'[b] # Nothing,
                          NEW i \in Ids, Like(i, Head(todo[b]), judged[b].side,
                                              judged[b].kind = "shadow")'
                   PROVE  i \in judged'[b].blind
        BY DEF Judged
      <4>1. b # a /\ pc[b] = "create" /\ judged[b] # Nothing
        BY <2>1, <2>2, Marks
      <4>2. lock[Head(todo[a])] = a /\ lock[Head(todo[b])] = b
        BY <1>0, <2>1, <4>1 DEF Locked
      <4>3. rows'[i].symbol = Head(todo[b])
        BY <2>1 DEF Like
      <4>4. i # n
        BY <3>3, <3>4, <4>1, <4>2, <4>3
      <4>5. Like(i, Head(todo[b]), judged[b].side, judged[b].kind = "shadow")
        BY <2>1, <3>4, <4>4 DEF Like, Exists
      <4> QED
        BY <1>0, <2>1, <4>1, <4>5 DEF Judged
    <3>7. BornBlind'
      <4> SUFFICES ASSUME NEW i \in Ids, NEW j \in Ids, i < j, Exists(j)',
                          rows'[j].status = Open,
                          Like(i, rows[j].symbol, rows[j].side, rows[j].shadow)'
                   PROVE  i \in rows'[j].blind
        BY DEF BornBlind
      <4>1. j <= n
        BY <1>0, <3>1 DEF Shape, Rounds
      <4>2. i # n
        BY <4>1, <3>2 DEF Ids
      <4>3. rows'[i] = rows[i]
        BY <3>4, <4>2
      <4>4. CASE j = n
        <5>1. Like(i, Head(todo[a]), judged[a].side, judged[a].kind = "shadow")
          BY <3>3, <3>4, <4>3, <4>4 DEF Like, Exists
        <5>2. i \in judged[a].blind
          BY <1>0, <2>1, <2>5, <5>1 DEF Judged
        <5> QED
          BY <3>3, <3>4, <4>4, <5>2
      <4>5. CASE j # n
        <5>1. rows'[j] = rows[j]
          BY <3>4, <4>5
        <5>2. Exists(j) /\ rows[j].status = Open
              /\ Like(i, rows[j].symbol, rows[j].side, rows[j].shadow)
          BY <4>3, <5>1 DEF Like, Exists
        <5> QED
          BY <1>0, <5>1, <5>2 DEF BornBlind
      <4> QED
        BY <4>4, <4>5
    <3> QED
      BY <2>3, <3>6, <3>7
  <2> QED
    BY <2>4, <2>5
<1>11. ASSUME NEW a \in Analysts, Record(a) PROVE Locked' /\ Judged' /\ BornBlind'
  <2>1. /\ pc[a] = "record" /\ rows' = rows
        /\ lock' = [lock EXCEPT ![Head(todo[a])] = Nobody]
        /\ todo' = [todo EXCEPT ![a] = Tail(@)]
        /\ judged' = [judged EXCEPT ![a] = Nothing]
        /\ (Goto(a, "commit") \/ Goto(a, "lock"))
    BY <1>11 DEF Record
  <2>2. pc'[a] \in {"commit", "lock"} /\ \A b \in Actors : b # a => pc'[b] = pc[b]
    BY <1>0, <2>1, GotoStep, Marks DEF TypeOK, Steps
  <2>3. ASSUME NEW b \in Analysts, pc'[b] \in {"create", "record"}
        PROVE  /\ pc'[b] = pc[b] /\ todo'[b] = todo[b] /\ judged'[b] = judged[b]
               /\ lock'[Head(todo[b])] = lock[Head(todo[b])]
    <3>1. b # a /\ pc'[b] = pc[b]
      BY <2>2, <2>3, Marks
    <3>2. todo'[b] = todo[b] /\ judged'[b] = judged[b]
      BY <1>0, <2>1, <3>1 DEF TypeOK
    <3>3. lock[Head(todo[b])] = b /\ lock[Head(todo[a])] = a
      BY <1>0, <2>1, <2>3, <3>1 DEF Locked
    <3>4. Head(todo[b]) # Head(todo[a])
      BY <3>1, <3>3
    <3>5. todo[b] # <<>> /\ todo[b] \in Seq(Symbols)
      BY <1>0, <2>3, <3>1 DEF Rounds, TypeOK
    <3>6. Head(todo[b]) \in Symbols
      BY <3>5
    <3>7. lock'[Head(todo[b])] = lock[Head(todo[b])]
      BY <1>0, <2>1, <3>4, <3>6 DEF TypeOK
    <3> QED
      BY <3>1, <3>2, <3>7
  <2>4. \A i \in Ids : Exists(i)' => Exists(i) /\ rows'[i] = rows[i]
    BY <2>1 DEF Exists
  <2> QED
    BY <2>3, <2>4, Undisturbed
<1>12. CASE Crash
  BY <1>7, <1>12 DEF Crash
<1>13. ASSUME NEW a \in Actors, BusyTimeout(a) PROVE Locked' /\ Judged' /\ BornBlind'
  BY <1>7, <1>13 DEF BusyTimeout
<1>14. CASE TerminalDies
  BY <1>6, <1>14 DEF TerminalDies
<1>15. CASE UNCHANGED vars
  BY <1>6, <1>15 DEF vars
<1> QED
  BY <1>2, <1>3, <1>4, <1>5, <1>8, <1>9, <1>10, <1>11, <1>12, <1>13, <1>14, <1>15
     DEF Next, Begin, Step

\* Of two signals that live on one instrument, of one side and population, the second
\* was created by a session that could not see the first.
THEOREM SeenTwinsAreRefused == Spec => []TwinsWereBlind
<1>1. Init => TwinInv
  <2> SUFFICES ASSUME Init PROVE TwinInv
    OBVIOUS
  <2>1. (\A i \in Ids : ~Exists(i)) /\ (\A a \in Analysts : pc[a] = "idle")
    BY Marks DEF Init, Exists
  <2> QED
    BY <2>1, InitShape DEF TwinInv, Locked, Judged, BornBlind, Like
<1>2. TwinInv /\ [Next]_vars => TwinInv'
  BY StepTwins
<1>3. TwinInv => TwinsWereBlind
  <2> SUFFICES ASSUME TwinInv, NEW i \in Ids, NEW j \in Ids, i < j, Exists(i), Exists(j),
                      Twins(i, j)
               PROVE  i \in rows[j].blind
    BY DEF TwinsWereBlind
  <2>1. /\ rows[i].status = Open /\ rows[j].status = Open
        /\ \A f \in {"symbol", "side", "shadow"} : rows[i][f] = rows[j][f]
    BY DEF Twins
  <2>2. Like(i, rows[j].symbol, rows[j].side, rows[j].shadow)
    BY <2>1 DEF Like
  <2> QED
    BY <2>1, <2>2 DEF TwinInv, BornBlind
<1> QED
  BY <1>1, <1>2, <1>3, PTL DEF Spec

-----------------------------------------------------------------------------
(* Ends.                                                                   *)

\* One round of the life cycle at a time.
OneFollower ==
    \A a, b \in Followers : (pc[a] # "idle" /\ pc[b] # "idle") => a = b

\* A round keeps nothing after its session.
Rested == \A a \in Followers : pc[a] = "idle" => (left[a] = {} /\ moved[a] = {})

\* What it still has to look at is open, and its end has not been announced.
LeftIsOpen ==
    \A a \in Followers : \A i \in left[a] :
        /\ Exists(i) /\ rows[i].of = Committed /\ rows[i].status = Open
        /\ i \notin moved[a] /\ i \notin told

\* An announced end is written, or will be with the commit of the round.
ToldIsKept ==
    \A i \in told : /\ Exists(i) /\ rows[i].of = Committed
                    /\ \/ rows[i].status = Closed
                       \/ \E a \in Followers : i \in moved[a]

Kept == ~retold /\ OneFollower /\ Rested /\ LeftIsOpen /\ ToldIsKept

\* Until a session is lost or two rounds overlap.
ToldInv == Shape /\ (Kept \/ lost \/ overlapped)

\* A step of no round of the life cycle, that leaves the committed rows alone.
LEMMA Unmoved ==
    ASSUME Shape, Kept, UNCHANGED <<left, moved, told, retold>>,
           \A b \in Followers : pc'[b] = pc[b],
           \A i \in Ids : (Exists(i) /\ rows[i].of = Committed) =>
               Exists(i)' /\ rows'[i].of = Committed /\ rows'[i].status = rows[i].status
    PROVE  Kept'
<1>1. left \in [Followers -> SUBSET Ids] /\ told \subseteq Ids
  BY DEF Shape, TypeOK
<1>2. ~retold' /\ OneFollower' /\ Rested'
  BY DEF Kept, OneFollower, Rested
<1>3. LeftIsOpen'
  BY <1>1 DEF Kept, LeftIsOpen
<1>4. ToldIsKept'
  BY <1>1 DEF Kept, ToldIsKept
<1> QED
  BY <1>2, <1>3, <1>4 DEF Kept

\* A round begins when no other one is under way: what it reads as open was announced
\* by none.
LEMMA BeginKept ==
    ASSUME Shape, Kept, NEW a \in Followers, BeginFollow(a), ~Busy(Followers)
    PROVE  Kept'
<1> DEFINE open == {i \in Ids : Visible(a, i) /\ rows[i].status = Open}
<1>1. /\ pc[a] = "idle" /\ Goto(a, "follow") /\ left' = [left EXCEPT ![a] = open]
      /\ UNCHANGED <<rows, moved, told, retold>>
  BY DEF BeginFollow, channel
<1>2. TypeOK /\ pc'[a] = "follow" /\ \A b \in Actors : b # a => pc'[b] = pc[b]
  BY <1>1, GotoStep, Marks DEF Shape, TypeOK, Steps
<1>3. \A b \in Followers : pc[b] = "idle" /\ left[b] = {} /\ moved[b] = {}
  BY DEF Busy, Kept, Rested
<1>4. ASSUME NEW i \in open
      PROVE  /\ Exists(i) /\ rows[i].of = Committed /\ rows[i].status = Open
             /\ i \notin told
  <2>1. i \in Ids /\ Exists(i) /\ rows[i].of \in {a, Committed} /\ rows[i].status = Open
    BY <1>4 DEF Visible
  <2>2. rows[i] \in Row
    BY <1>2, <2>1 DEF TypeOK, Exists
  <2>3. rows[i].of \in Analysts \union {Committed}
    BY <2>2 DEF Row
  <2>4. rows[i].of = Committed
    BY <2>1, <2>3, Marks
  <2>5. i \notin told
    BY <1>3, <2>1 DEF Kept, ToldIsKept, Open, Closed
  <2> QED
    BY <2>1, <2>4, <2>5
<1>5. open \in SUBSET Ids
  OBVIOUS
<1> HIDE DEF open
<1>6. left'[a] = open /\ \A b \in Followers : b # a => left'[b] = {}
  BY <1>1, <1>2, <1>3 DEF TypeOK
<1>7. OneFollower'
  BY <1>2, <1>3, Marks DEF OneFollower
<1>8. Rested'
  BY <1>1, <1>2, <1>3, <1>6, Marks DEF Rested
<1>9. LeftIsOpen'
  BY <1>1, <1>3, <1>4, <1>6 DEF LeftIsOpen, Exists
<1>10. ToldIsKept'
  BY <1>1 DEF Kept, ToldIsKept, Exists
<1> QED
  BY <1>1, <1>7, <1>8, <1>9, <1>10 DEF Kept

\* A round that ends a signal announces it for the first time, and remembers it.
LEMMA FollowKept ==
    ASSUME Shape, Kept, NEW a \in Followers, Follow(a)
    PROVE  Kept'
<1> DEFINE i == Min(left[a])
           next == IF left[a] = {i} THEN "commit" ELSE "follow"
<1>1. /\ pc[a] = "follow" /\ Goto(a, next) /\ rows' = rows
      /\ left' = [left EXCEPT ![a] = @ \ {i}]
  BY DEF Follow
<1>2. \/ UNCHANGED <<moved, told, retold>>
      \/ /\ moved' = [moved EXCEPT ![a] = @ \union {i}]
         /\ told' \in {told, told \union {i}}
         /\ retold' = (retold \/ (~rows[i].shadow /\ i \in told))
  BY DEF Follow
<1>3. TypeOK /\ i \in left[a] /\ i \in Ids
  <2>1. left[a] # {} /\ left[a] \in SUBSET Ids
    BY <1>1 DEF Shape, Rounds, TypeOK
  <2>2. left[a] \in SUBSET Nat
    BY <2>1, BoundsAssumption DEF Ids
  <2>3. Min(left[a]) \in left[a]
    BY <2>1, <2>2, LeastOf
  <2> QED
    BY <2>1, <2>3 DEF Shape
<1>4. next \in Steps /\ next # "idle"
  BY DEF Steps
<1> HIDE DEF i, next
<1>5. pc'[a] = next /\ \A b \in Actors : b # a => pc'[b] = pc[b]
  BY <1>1, <1>3, <1>4, GotoStep, Marks DEF TypeOK
<1>6. \A b \in Followers : b # a => pc[b] = "idle" /\ left[b] = {} /\ moved[b] = {}
  BY <1>1 DEF Kept, OneFollower, Rested
<1>7. /\ Exists(i) /\ rows[i].of = Committed /\ i \notin moved[a] /\ i \notin told
  BY <1>3 DEF Kept, LeftIsOpen
<1>8. left'[a] = left[a] \ {i} /\ \A b \in Followers : b # a => left'[b] = {}
  BY <1>1, <1>3, <1>6 DEF TypeOK
<1>9. /\ moved'[a] \in {moved[a], moved[a] \union {i}}
      /\ \A b \in Followers : b # a => moved'[b] = {}
      /\ \/ told' = told
         \/ told' = told \union {i} /\ i \in moved'[a]
  BY <1>2, <1>3, <1>6 DEF TypeOK
<1>10. ~retold'
  BY <1>2, <1>7 DEF Kept
<1>11. OneFollower'
  BY <1>5, <1>6, Marks DEF OneFollower
<1>12. Rested'
  BY <1>4, <1>5, <1>8, <1>9, Marks DEF Rested
<1>13. LeftIsOpen'
  <2>1. \A j \in left[a] : /\ Exists(j) /\ rows[j].of = Committed /\ rows[j].status = Open
                           /\ j \notin moved[a] /\ j \notin told
    BY DEF Kept, LeftIsOpen
  <2> QED
    BY <1>1, <1>8, <1>9, <2>1 DEF LeftIsOpen, Exists
<1>14. ToldIsKept'
  <2>1. \A j \in told : /\ Exists(j) /\ rows[j].of = Committed
                        /\ (rows[j].status = Closed \/ j \in moved[a])
    BY <1>6 DEF Kept, ToldIsKept
  <2>2. \A j \in told' : /\ Exists(j) /\ rows[j].of = Committed
                         /\ (rows[j].status = Closed \/ j \in moved'[a])
    BY <1>7, <1>9, <2>1
  <2> QED
    BY <1>1, <2>2 DEF ToldIsKept, Exists
<1> QED
  BY <1>10, <1>11, <1>12, <1>13, <1>14 DEF Kept

\* The commit of a round writes the ends it has announced.
LEMMA CommitKept ==
    ASSUME Shape, Kept, NEW a \in Followers, Commit(a)
    PROVE  Kept'
<1>1. /\ pc[a] = "commit" /\ Forget({a}) /\ UNCHANGED <<told, retold>>
      /\ \A j \in Ids : Exists(j)' <=> Exists(j)
      /\ \A j \in Ids : (Exists(j) /\ rows[j].of = Committed) =>
           /\ rows'[j].of = Committed
           /\ rows'[j].status = IF j \in moved[a] THEN Closed ELSE rows[j].status
  <2> DEFINE changes == IF a \in Followers THEN moved[a] ELSE {}
  <2>1. /\ pc[a] = "commit" /\ Forget({a}) /\ UNCHANGED <<told, retold>>
        /\ \A j \in Ids : Exists(j)' <=> Exists(j)
        /\ \A j \in Ids : Exists(j) =>
             /\ rows'[j].status = IF j \in changes THEN Closed ELSE rows[j].status
             /\ j \notin changes =>
                  rows'[j].of = IF rows[j].of = a THEN Committed ELSE rows[j].of
             /\ j \in changes => rows'[j].of = rows[j].of
    BY CommitStep, Marks DEF channel
  <2>2. changes = moved[a]
    OBVIOUS
  <2> HIDE DEF changes
  <2> QED
    BY <2>1, <2>2
<1>2. \A b \in Followers : b # a => pc[b] = "idle" /\ left[b] = {} /\ moved[b] = {}
  BY <1>1 DEF Kept, OneFollower, Rested
<1>3. \A b \in Followers : pc'[b] = "idle" /\ left'[b] = {} /\ moved'[b] = {}
  BY <1>1, <1>2, ForgetStep, Marks DEF Shape
<1>4. told \subseteq Ids
  BY DEF Shape, TypeOK
<1>5. ~retold' /\ OneFollower' /\ Rested' /\ LeftIsOpen'
  BY <1>1, <1>3 DEF Kept, OneFollower, Rested, LeftIsOpen
<1>6. ToldIsKept'
  BY <1>1, <1>2, <1>4 DEF Kept, ToldIsKept
<1> QED
  BY <1>5, <1>6 DEF Kept

\* Every step keeps ToldInv.
LEMMA StepTold == ToldInv /\ [Next]_vars => ToldInv'
<1> SUFFICES ASSUME ToldInv, [Next]_vars PROVE ToldInv'
  OBVIOUS
<1> USE DEF session, round, channel, history
<1>0. Shape /\ Shape' /\ TypeOK /\ Rounds /\ (Kept \/ lost \/ overlapped)
  BY StepShape DEF ToldInv, Shape
<1> SUFFICES Kept' \/ lost' \/ overlapped'
  BY <1>0 DEF ToldInv
<1>1. ASSUME NEW a \in Actors, RollBack({a}) \/ RollBack(Actors) PROVE lost'
  BY <1>1 DEF RollBack
<1>2. CASE Crash
  BY <1>2 DEF Crash, RollBack
<1>3. ASSUME NEW a \in Actors, BusyTimeout(a) PROVE lost'
  BY <1>3 DEF BusyTimeout, RollBack
<1>4. ASSUME NEW a \in Followers, BeginFollow(a) PROVE Kept' \/ lost' \/ overlapped'
  <2>1. overlapped' = (overlapped \/ Busy(Followers)) /\ lost' = lost
    BY <1>4 DEF BeginFollow
  <2>2. CASE overlapped \/ Busy(Followers) \/ lost
    BY <2>1, <2>2, Zenon
  <2>3. CASE ~Busy(Followers) /\ Kept
    BY <1>0, <1>4, <2>3, BeginKept
  <2> QED
    BY <1>0, <2>2, <2>3
<1>5. ASSUME NEW a \in Followers, Follow(a) PROVE Kept' \/ lost' \/ overlapped'
  <2>1. overlapped' = overlapped /\ lost' = lost
    BY <1>5 DEF Follow
  <2> QED
    BY <1>0, <1>5, <2>1, FollowKept
<1>6. ASSUME NEW a \in Followers, Commit(a) PROVE Kept' \/ lost' \/ overlapped'
  <2>1. overlapped' = overlapped /\ lost' = lost
    BY <1>6 DEF Commit, CommitWith
  <2> QED
    BY <1>0, <1>6, <2>1, CommitKept
<1>7. ASSUME UNCHANGED <<left, moved, told, retold, overlapped, lost>>,
             \A b \in Followers : pc'[b] = pc[b],
             \A i \in Ids : (Exists(i) /\ rows[i].of = Committed) =>
                 Exists(i)' /\ rows'[i].of = Committed /\ rows'[i].status = rows[i].status
      PROVE  Kept' \/ lost' \/ overlapped'
  BY <1>0, <1>7, Unmoved
<1>8. ASSUME NEW a \in Analysts, NEW next \in Steps, Goto(a, next)
      PROVE  \A b \in Followers : pc'[b] = pc[b]
  BY <1>0, <1>8, GotoStep, Marks DEF TypeOK
<1>9. CASE BeginRound
  <2>1. Goto(Loop, "lock") /\ UNCHANGED <<rows, left, moved, told, retold, overlapped, lost>>
    BY <1>9 DEF BeginRound
  <2> QED
    BY <1>7, <1>8, <2>1, Marks DEF Steps, Exists
<1>10. ASSUME NEW a \in Requests, NEW s \in Asked, Ask(a, s)
       PROVE  Kept' \/ lost' \/ overlapped'
  <2>1. Goto(a, "lock") /\ UNCHANGED <<rows, left, moved, told, retold, overlapped, lost>>
    BY <1>10 DEF Ask
  <2> QED
    BY <1>7, <1>8, <2>1, Marks DEF Steps, Exists
<1>11. ASSUME NEW a \in Analysts, Judge(a) PROVE Kept' \/ lost' \/ overlapped'
  <2>1. /\ Goto(a, "record") \/ Goto(a, "create")
        /\ UNCHANGED <<rows, left, moved, told, retold, overlapped, lost>>
    BY <1>11 DEF Judge
  <2> QED
    BY <1>7, <1>8, <2>1, Marks DEF Steps, Exists
<1>12. ASSUME NEW a \in Analysts, Record(a) PROVE Kept' \/ lost' \/ overlapped'
  <2>1. /\ Goto(a, "commit") \/ Goto(a, "lock")
        /\ UNCHANGED <<rows, left, moved, told, retold, overlapped, lost>>
    BY <1>12 DEF Record
  <2> QED
    BY <1>7, <1>8, <2>1, Marks DEF Steps, Exists
<1>13. ASSUME NEW a \in Analysts, Create(a) PROVE Kept' \/ lost' \/ overlapped'
  <2>1. Goto(a, "record") /\ UNCHANGED <<left, moved, told, retold, overlapped, lost>>
    BY <1>13 DEF Create
  <2>2. ASSUME NEW i \in Ids, Exists(i) PROVE rows'[i] = rows[i]
    <3>1. CASE UNCHANGED rows
      BY <3>1
    <3>2. ASSUME NEW new, rows' = [rows EXCEPT ![created + 1] = new] PROVE rows'[i] = rows[i]
      <4>1. i # created + 1
        BY <1>0, <2>2 DEF Rounds, TypeOK
      <4> QED
        BY <1>0, <3>2, <4>1 DEF TypeOK
    <3> QED
      BY <1>13, <3>1, <3>2 DEF Create
  <2> QED
    BY <1>7, <1>8, <2>1, <2>2, Marks DEF Steps, Exists
<1>14. ASSUME NEW a \in Analysts, Commit(a) PROVE Kept' \/ lost' \/ overlapped'
  <2>1. /\ Forget({a}) /\ UNCHANGED <<told, retold, overlapped, lost>>
        /\ \A i \in Ids : Exists(i)' <=> Exists(i)
    <3>1. a \in Actors
      BY Marks
    <3>2. Forget({a}) /\ UNCHANGED <<told, retold, overlapped, lost>>
      BY <1>14 DEF Commit, CommitWith
    <3>3. \A i \in Ids : Exists(i)' <=> Exists(i)
      BY <1>0, <1>14, <3>1, CommitStep
    <3> QED
      BY <3>2, <3>3
  <2>2. /\ \A b \in Followers : pc'[b] = pc[b] /\ left'[b] = left[b] /\ moved'[b] = moved[b]
        /\ left' \in [Followers -> SUBSET Ids] /\ moved' \in [Followers -> SUBSET Ids]
    BY <1>0, <2>1, ForgetStep, Marks
  <2>3. left' = left /\ moved' = moved
    BY <1>0, <2>2 DEF TypeOK
  <2>4. \A i \in Ids : (Exists(i) /\ rows[i].of = Committed) =>
          rows'[i].of = Committed /\ rows'[i].status = rows[i].status
    <3> DEFINE changes == IF a \in Followers THEN moved[a] ELSE {}
    <3>1. changes = {} /\ a \in Actors
      BY Marks
    <3>2. \A i \in Ids : Exists(i) =>
            /\ rows'[i].status = IF i \in changes THEN Closed ELSE rows[i].status
            /\ i \notin changes =>
                 rows'[i].of = IF rows[i].of = a THEN Committed ELSE rows[i].of
      BY <1>0, <1>14, <3>1, CommitStep
    <3> HIDE DEF changes
    <3> QED
      BY <3>1, <3>2
  <2> QED
    BY <1>7, <2>1, <2>2, <2>3, <2>4
<1>15. CASE TerminalDies
  BY <1>7, <1>15 DEF TerminalDies, Exists
<1>16. CASE UNCHANGED vars
  BY <1>7, <1>16 DEF vars, Exists
<1> QED
  BY <1>2, <1>3, <1>4, <1>5, <1>6, <1>9, <1>10, <1>11, <1>12, <1>13, <1>14, <1>15, <1>16
     DEF Next, Begin, Step, Actors

\* The end of a signal is announced once, although its row is only written when the
\* whole round commits.
THEOREM EndsAreToldOnce == Spec => []ToldOnce
<1>1. Init => ToldInv
  <2> SUFFICES ASSUME Init PROVE Kept
    BY InitShape DEF ToldInv
  <2>1. /\ ~retold /\ told = {} /\ \A a \in Actors : pc[a] = "idle"
        /\ \A a \in Followers : left[a] = {} /\ moved[a] = {}
    BY DEF Init
  <2> QED
    BY <2>1, Marks DEF Kept, OneFollower, Rested, LeftIsOpen, ToldIsKept
<1>2. ToldInv /\ [Next]_vars => ToldInv'
  BY StepTold
<1>3. ToldInv => ToldOnce
  BY DEF ToldInv, Kept, ToldOnce
<1> QED
  BY <1>1, <1>2, <1>3, PTL DEF Spec
=============================================================================
