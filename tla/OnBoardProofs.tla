----------------------------- MODULE OnBoardProofs -----------------------------
(***************************************************************************)
(* The program of one train on a loop of any number of cantons of any      *)
(* lengths, with any distances of the requests: it counts the turns of the *)
(* loop and nothing else (CountsTurns of OnBoard), and does not leave the  *)
(* cell its authority ends in (StopsAtAuthority).                          *)
(***************************************************************************)
EXTENDS OnBoard, WellFoundedInduction, TLAPS

-----------------------------------------------------------------------------
(* Where the balises are                                                   *)

\* Every set of natural numbers has a smallest one.
LEMMA LeastNumber ==
    ASSUME NEW T, T \subseteq Nat, T # {}
    PROVE  \E n \in T : \A m \in T : n <= m
<1> DEFINE Less == OpToRel(<, Nat)
<1>1. IsWellFoundedOn(Less, Nat)
  BY NatLessThanWellFounded
<1> HIDE DEF Less
<1>2. PICK n \in T : \A m \in T : ~(<< m, n >> \in Less)
  BY <1>1, WFMin
<1>3. ASSUME NEW m \in T PROVE n <= m
  <2>1. ~(<< m, n >> \in Less) /\ m \in Nat /\ n \in Nat
    BY <1>2
  <2>2. m < n => << m, n >> \in Less
    BY <2>1 DEF Less, OpToRel
  <2> QED
    BY <2>1, <2>2
<1> QED
  BY <1>2, <1>3

Many == Len(Cantons)

LEMMA LoopFacts ==
    /\ Many \in Nat /\ Many > 1
    /\ Balises = 1 .. Many
    /\ \A b \in 1 .. Many : Cantons[b] \in Nat /\ Cantons[b] > 0
BY LoopAssumption DEF Many, Balises

\* Sums(f, n): f adds up the first n - 1 cantons.
Sums(f, n) == f = [b \in 1 .. n |-> IF b = 1 THEN 0 ELSE f[b - 1] + Cantons[b - 1]]

\* What the recursive definition of Start defines exists, up to every balise: the
\* least number of balises up to which it did not would have a sum one before.
LEMMA SumsExist ==
    ASSUME NEW n \in 1 .. Many
    PROVE  \E f : Sums(f, n)
<1> DEFINE T == { k \in 1 .. Many : ~ \E f : Sums(f, k) }
<1> SUFFICES ASSUME T # {} PROVE FALSE
  OBVIOUS
<1>1. T \subseteq Nat
  OBVIOUS
<1>2. PICK k \in T : \A m \in T : k <= m
  BY <1>1, LeastNumber
<1>3. k \in 1 .. Many /\ ~ \E f : Sums(f, k)
  BY <1>2
<1>4. CASE k = 1
  <2> DEFINE g == [b \in 1 .. 1 |-> 0]
  <2>1. g = [b \in 1 .. 1 |-> IF b = 1 THEN 0 ELSE g[b - 1] + Cantons[b - 1]]
    OBVIOUS
  <2> HIDE DEF g
  <2>2. Sums(g, k)
    BY <2>1, <1>4 DEF Sums
  <2> QED
    BY <2>2, <1>3
<1>5. CASE k # 1
  <2>1. k - 1 \in 1 .. Many /\ k - 1 < k /\ k \in Nat
    BY <1>3, <1>5, LoopFacts
  <2>2. k - 1 \notin T
    BY <2>1, <1>2
  <2>3. PICK f : Sums(f, k - 1)
    BY <2>1, <2>2
  <2> DEFINE g == [b \in 1 .. k |-> IF b = k THEN f[k - 1] + Cantons[k - 1] ELSE f[b]]
  <2>4. \A b \in 1 .. k : b # k => g[b] = f[b]
    OBVIOUS
  <2>5. g[k] = f[k - 1] + Cantons[k - 1]
    BY <2>1
  <2>6. \A b \in 1 .. k - 1 : f[b] = IF b = 1 THEN 0 ELSE f[b - 1] + Cantons[b - 1]
    BY <2>3 DEF Sums
  <2>7. ASSUME NEW b \in 1 .. k
        PROVE  g[b] = IF b = 1 THEN 0 ELSE g[b - 1] + Cantons[b - 1]
    <3>1. CASE b = k
      <4>1. k - 1 \in 1 .. k /\ k - 1 # k
        BY <2>1
      <4>2. g[k - 1] = f[k - 1]
        BY <2>4, <4>1
      <4> QED
        BY <2>5, <4>2, <3>1, <1>5
    <3>2. CASE b # k
      <4>1. b \in 1 .. k - 1
        BY <3>2, <2>1
      <4>2. b # 1 => b - 1 \in 1 .. k /\ b - 1 # k
        BY <4>1, <2>1
      <4>3. b # 1 => g[b - 1] = f[b - 1]
        BY <4>2, <2>4
      <4>4. g[b] = f[b]
        BY <3>2, <2>4
      <4> HIDE DEF g
      <4> QED
        BY <4>1, <4>3, <4>4, <2>6
    <3> QED
      BY <3>1, <3>2
  <2>8. g = [b \in 1 .. k |-> g[b]]
    OBVIOUS
  <2> HIDE DEF g
  <2>9. [b \in 1 .. k |-> g[b]] = [b \in 1 .. k |-> IF b = 1 THEN 0 ELSE g[b - 1] + Cantons[b - 1]]
    BY <2>7
  <2>10. Sums(g, k)
    BY <2>8, <2>9 DEF Sums
  <2> QED
    BY <2>10, <1>3
<1> QED
  BY <1>4, <1>5

LEMMA StartIsSum ==
    /\ Start[1] = 0
    /\ \A b \in 2 .. Many : Start[b] = Start[b - 1] + Cantons[b - 1]
<1>1. Many \in 1 .. Many
  BY LoopFacts
<1>2. PICK f : Sums(f, Many)
  BY <1>1, SumsExist
<1>3. f = [b \in Balises |-> IF b = 1 THEN 0 ELSE f[b - 1] + Cantons[b - 1]]
  BY <1>2, LoopFacts DEF Sums
<1>4. Start = [b \in Balises |-> IF b = 1 THEN 0 ELSE Start[b - 1] + Cantons[b - 1]]
  BY <1>3, Zenon DEF Start
<1>5. \A b \in Balises : Start[b] = IF b = 1 THEN 0 ELSE Start[b - 1] + Cantons[b - 1]
  BY <1>4, Zenon
<1>6. 1 \in Balises /\ \A b \in 2 .. Many : b \in Balises /\ b # 1
  BY LoopFacts
<1> QED
  BY <1>5, <1>6

\* Where the canton of a balise ends.
End(b) == Start[b] + Cantons[b]

LEMMA StartNat ==
    ASSUME NEW b \in 1 .. Many
    PROVE  Start[b] \in Nat
<1> DEFINE T == { k \in 1 .. Many : Start[k] \notin Nat }
<1> SUFFICES ASSUME T # {} PROVE FALSE
  OBVIOUS
<1>1. T \subseteq Nat
  OBVIOUS
<1>2. PICK k \in T : \A m \in T : k <= m
  BY <1>1, LeastNumber
<1>3. k # 1
  BY StartIsSum
<1>4. k \in 2 .. Many /\ k - 1 \in 1 .. Many /\ ~(k <= k - 1)
  BY <1>2, <1>3, LoopFacts
<1>5. k - 1 \notin T
  BY <1>2, <1>4
<1>6. Start[k - 1] \in Nat /\ Cantons[k - 1] \in Nat
  BY <1>4, <1>5, LoopFacts
<1>7. Start[k] = Start[k - 1] + Cantons[k - 1]
  BY <1>4, StartIsSum
<1> QED
  BY <1>2, <1>6, <1>7

\* The balises are one behind the other, each canton between two of them.
LEMMA OneBehindTheOther ==
    ASSUME NEW a \in 1 .. Many, NEW b \in 1 .. Many, a < b
    PROVE  End(a) <= Start[b]
<1> DEFINE T == { k \in 1 .. Many : a < k /\ ~(End(a) <= Start[k]) }
<1> SUFFICES ASSUME T # {} PROVE FALSE
  OBVIOUS
<1>1. T \subseteq Nat
  OBVIOUS
<1>2. PICK k \in T : \A m \in T : k <= m
  BY <1>1, LeastNumber
<1>3. k \in 2 .. Many /\ k - 1 \in 1 .. Many /\ ~(k <= k - 1) /\ a <= k - 1
  BY <1>2, LoopFacts
<1>4. Start[k] = Start[k - 1] + Cantons[k - 1]
  BY <1>3, StartIsSum
<1>5. k - 1 \notin T
  BY <1>2, <1>3
<1>6. /\ Start[a] \in Nat /\ Start[k - 1] \in Nat
      /\ Cantons[a] \in Nat /\ Cantons[k - 1] \in Nat
  BY <1>3, StartNat, LoopFacts
<1>7. CASE a = k - 1
  BY <1>2, <1>4, <1>6, <1>7 DEF End
<1>8. CASE a # k - 1
  <2>1. End(a) <= Start[k - 1]
    BY <1>3, <1>5, <1>8, LoopFacts
  <2> QED
    BY <2>1, <1>2, <1>4, <1>6 DEF End
<1> QED
  BY <1>7, <1>8

\* x is a cell of the canton of b.
Inside(b, x) == x \in Nat /\ Start[b] <= x /\ x < End(b)

LEMMA LapFacts ==
    /\ Lap = End(Many) /\ Lap \in Nat /\ Lap > 1
    /\ \A b \in 1 .. Many : Start[b] \in Nat /\ End(b) \in Nat /\ Start[b] < End(b)
    /\ \A b \in 1 .. Many : End(b) <= Lap
    /\ \A b \in 1 .. Many : Start[b] \in Cell
    /\ \A b \in 1 .. Many : \A x : Inside(b, x) => x \in Cell
<1>1. Lap = End(Many)
  BY DEF Lap, End, Many
<1>2. \A b \in 1 .. Many : Start[b] \in Nat /\ End(b) \in Nat /\ Start[b] < End(b)
  BY StartNat, LoopFacts DEF End
<1>3. 1 \in 1 .. Many /\ Many \in 1 .. Many /\ 1 < Many
  BY LoopFacts
<1>4. \A b \in 1 .. Many : End(b) <= Lap
  <2> TAKE b \in 1 .. Many
  <2>1. CASE b = Many
    BY <2>1, <1>1, <1>2, <1>3
  <2>2. CASE b # Many
    <3>1. End(b) <= Start[Many]
      BY <2>2, <1>3, OneBehindTheOther
    <3> QED
      BY <3>1, <1>1, <1>2, <1>3
  <2> QED
    BY <2>1, <2>2
<1>5. Lap \in Nat /\ Lap > 1
  <2>1. End(1) <= Start[Many]
    BY <1>3, OneBehindTheOther
  <2> QED
    BY <2>1, <1>1, <1>2, <1>3
<1>6. \A b \in 1 .. Many : Start[b] \in Cell
  BY <1>2, <1>4, <1>5 DEF Cell
<1>7. \A b \in 1 .. Many : \A x : Inside(b, x) => x \in Cell
  BY <1>2, <1>4, <1>5 DEF Cell, Inside
<1> QED
  BY <1>1, <1>2, <1>4, <1>5, <1>6, <1>7

\* No other balise is in the canton of a balise.
LEMMA OneBalise ==
    ASSUME NEW a \in 1 .. Many, NEW b \in 1 .. Many, Inside(b, Start[a])
    PROVE  a = b
<1>1. a < b => End(a) <= Start[b]
  BY OneBehindTheOther
<1>2. b < a => End(b) <= Start[a]
  BY OneBehindTheOther
<1> QED
  BY <1>1, <1>2, LapFacts, LoopFacts DEF Inside

-----------------------------------------------------------------------------
(* get_distance and the cell after a cell                                  *)

LEMMA Modulo ==
    ASSUME NEW n \in Nat, n > 1, NEW x \in 0 .. n - 1, NEW y \in 0 .. n - 1
    PROVE  /\ (x + 1) % n = IF x + 1 = n THEN 0 ELSE x + 1
           /\ (y - x) % n = IF x <= y THEN y - x ELSE y - x + n
OBVIOUS

\* The balise after a balise.
After(b) == IF b = Many THEN 1 ELSE b + 1

\* From a cell of the canton of b the train comes to another one of it, where no
\* balise is, or to the next balise; and to the start of the loop only from the
\* last canton.
LEMMA NextCell ==
    ASSUME NEW b \in 1 .. Many, NEW x, Inside(b, x)
    PROVE  LET y == (x + 1) % Lap
           IN  /\ y \in Cell /\ y # x
               /\ \/ Inside(b, y) /\ y # 0 /\ \A c \in Balises : Start[c] # y
                  \/ /\ \A c \in Balises : Start[c] = y <=> c = After(b)
                     /\ After(b) \in Balises
                     /\ y = 0 <=> After(b) = 1
<1> DEFINE y == (x + 1) % Lap
<1>1. /\ x \in Nat /\ x >= Start[b] /\ x < End(b) /\ x \in Cell
      /\ Start[b] \in Nat /\ End(b) \in Nat /\ End(b) <= Lap /\ Lap \in Nat /\ Lap > 1
  BY LapFacts DEF Inside
<1>2. y = IF x + 1 = Lap THEN 0 ELSE x + 1
  BY <1>1, Modulo DEF Cell
<1> HIDE DEF y
<1>3. y \in Cell /\ y # x
  BY <1>1, <1>2 DEF Cell
<1>4. \A c \in 1 .. Many : Inside(c, Start[c]) /\ Start[c] \in Nat
  BY LapFacts DEF Inside
<1>5. ASSUME x + 1 < End(b)
      PROVE  Inside(b, y) /\ y # 0 /\ \A c \in Balises : Start[c] # y
  <2>1. y = x + 1 /\ Inside(b, y) /\ y # 0 /\ y # Start[b]
    BY <1>1, <1>2, <1>5 DEF Inside
  <2>2. ASSUME NEW c \in Balises, Start[c] = y PROVE FALSE
    <3>1. c = b
      BY <2>1, <2>2, OneBalise, LoopFacts
    <3> QED
      BY <2>1, <2>2, <3>1
  <2> QED
    BY <2>1, <2>2
<1>6. ASSUME ~(x + 1 < End(b))
      PROVE  /\ \A c \in Balises : Start[c] = y <=> c = After(b)
             /\ After(b) \in Balises
             /\ y = 0 <=> After(b) = 1
  <2>1. x + 1 = End(b)
    BY <1>1, <1>6
  <2>2. After(b) \in 1 .. Many /\ After(b) \in Balises
    BY LoopFacts DEF After
  <2>3. y = Start[After(b)] /\ (y = 0 <=> After(b) = 1)
    <3>1. CASE b = Many
      BY <3>1, <2>1, <1>1, <1>2, LapFacts, StartIsSum DEF After
    <3>2. CASE b # Many
      <4>1. b + 1 \in 2 .. Many /\ b + 1 \in 1 .. Many /\ b + 1 # 1
        BY <3>2, LoopFacts
      <4>2. Start[b + 1] = End(b)
        <5>1. Start[b + 1] = Start[(b + 1) - 1] + Cantons[(b + 1) - 1]
          BY <4>1, StartIsSum
        <5>2. (b + 1) - 1 = b
          OBVIOUS
        <5> QED
          BY <5>1, <5>2 DEF End
      <4>3. End(b) < Lap
        BY <4>1, <4>2, LapFacts
      <4> QED
        BY <3>2, <4>1, <4>2, <4>3, <2>1, <1>1, <1>2 DEF After
    <3> QED
      BY <3>1, <3>2
  <2>4. ASSUME NEW c \in Balises, Start[c] = y PROVE c = After(b)
    <3>1. Inside(After(b), Start[c])
      BY <2>2, <2>3, <2>4, <1>4
    <3> QED
      BY <2>2, <3>1, OneBalise, LoopFacts
  <2> QED
    BY <2>2, <2>3, <2>4
<1> QED
  BY <1>3, <1>5, <1>6 DEF y

LEMMA Distances ==
    ASSUME NEW x \in Cell, NEW y \in Cell
    PROVE  get_distance(x, y) \in Nat /\ (get_distance(x, y) = 0 <=> x = y)
BY LapFacts, Modulo DEF get_distance, Cell

-----------------------------------------------------------------------------
(* Turns                                                                   *)

\* One where a balise ends a turn that PassBalise has not counted yet.
Uncounted == IF balise = 1 /\ last_balise # 1 THEN 1 ELSE 0

\* The train is in the canton of the last balise read, or on the one whose frame
\* is still to be read: that one again, or the next.
Placed ==
    /\ last_balise \in Balises
    /\ balise = NoBalise => Inside(last_balise, at)
    /\ balise # NoBalise => /\ balise \in Balises /\ at = Start[balise]
                            /\ balise \in { last_balise, After(last_balise) }

TurnsInv ==
    /\ auto \in Phase /\ at \in Cell /\ turns \in Nat /\ mission \in Int
    /\ auto \in { "connect", "search" } =>
         /\ last_balise = NoBalise /\ turns = 0 /\ mission = Laps
         /\ balise # NoBalise => balise \in Balises /\ at = Start[balise]
    /\ auto \in { "first", "waits" } =>
         moves = FALSE /\ turns = 0 /\ mission = Laps /\ balise \in { NoBalise, last_balise }
    /\ auto \in { "first", "waits", "drives" } => Placed
    /\ auto = "drives" => mission = Laps - turns + Uncounted
    /\ auto = "stopped" => moves = FALSE

LEMMA InitTurns == ProgramInit => TurnsInv
BY LoopAssumption DEF ProgramInit, TurnsInv, Phase

\* The train goes to the next cell.
LEMMA MoveTurns ==
    ASSUME TurnsInv, Move
    PROVE  TurnsInv'
<1>1. /\ moves = TRUE /\ balise = NoBalise /\ at' = (at + 1) % Lap
      /\ auto = "search" \/ pos = at
      /\ UNCHANGED << moves, auto, last_balise, mission >>
      /\ turns' = IF at' = 0 /\ auto = "drives" THEN turns + 1 ELSE turns
      /\ balise' = IF \E b \in Balises : Start[b] = at'
                   THEN CHOOSE b \in Balises : Start[b] = at' ELSE NoBalise
  BY DEF Move, threads
<1>2. /\ balise' # NoBalise => balise' \in Balises /\ Start[balise'] = at'
      /\ balise' = NoBalise => ~ \E b \in Balises : Start[b] = at'
  <2>1. \A b \in Balises : b # NoBalise
    BY LoopFacts DEF NoBalise
  <2> QED
    BY <1>1, <2>1, Zenon
<1>3. at' \in Cell
  BY <1>1, LapFacts, Modulo DEF TurnsInv, Cell
<1>4. CASE auto \in { "connect", "search" }
  BY <1>1, <1>2, <1>3, <1>4 DEF TurnsInv
<1>5. CASE auto = "drives"
  <2>1. last_balise \in 1 .. Many /\ Inside(last_balise, at) /\ Uncounted = 0
    BY <1>1, <1>5, LoopFacts DEF TurnsInv, Placed, Uncounted, NoBalise
  <2>2. CASE /\ Inside(last_balise, at') /\ at' # 0
             /\ \A c \in Balises : Start[c] # at'
    <3>1. balise' = NoBalise
      BY <1>2, <2>2
    <3> QED
      BY <1>1, <1>3, <1>5, <2>1, <2>2, <3>1
      DEF TurnsInv, Placed, Uncounted, NoBalise
  <2>3. CASE /\ \A c \in Balises : Start[c] = at' <=> c = After(last_balise)
             /\ After(last_balise) \in Balises
             /\ at' = 0 <=> After(last_balise) = 1
    <3>1. balise' = After(last_balise) /\ balise' \in Balises /\ balise' # NoBalise
      <4>1. Start[After(last_balise)] = at'
        BY <2>3
      <4> QED
        BY <1>2, <2>3, <4>1
    <3>2. After(last_balise) = 1 => last_balise # 1
      BY <2>1, LoopFacts DEF After
    <3>3. Uncounted' = IF at' = 0 THEN 1 ELSE 0
      BY <1>1, <2>3, <3>1, <3>2 DEF Uncounted
    <3>4. Placed'
      BY <1>1, <1>2, <2>1, <3>1, LoopFacts DEF Placed
    <3>5. turns' \in Nat /\ mission' \in Int /\ mission' = Laps - turns' + Uncounted'
      BY <1>1, <1>5, <2>1, <3>3, LoopAssumption DEF TurnsInv
    <3> QED
      BY <1>1, <1>3, <1>5, <3>4, <3>5 DEF TurnsInv
  <2> QED
    BY <1>1, <2>1, <2>2, <2>3, NextCell
<1> QED
  BY <1>1, <1>4, <1>5 DEF TurnsInv, Phase

\* The thread reads a frame 0x30.
LEMMA PassTurns ==
    ASSUME TurnsInv, PassBalise
    PROVE  TurnsInv'
<1>1. /\ auto \in { "first", "drives" } /\ balise # NoBalise
      /\ mission' = IF balise = 1 /\ last_balise # 1 THEN mission - 1 ELSE mission
      /\ last_balise' = balise /\ balise' = NoBalise
      /\ UNCHANGED << at, moves, turns, auto >>
  BY DEF PassBalise
<1>2. balise \in 1 .. Many /\ at = Start[balise] /\ balise \in { last_balise, After(last_balise) }
  BY <1>1, LoopFacts DEF TurnsInv, Placed
<1>3. Placed'
  BY <1>1, <1>2, LapFacts, LoopFacts DEF Placed, Inside
<1>4. Uncounted' = 0
  BY <1>1, LoopFacts DEF Uncounted, NoBalise
<1>5. mission' \in Int
  BY <1>1 DEF TurnsInv
<1>6. CASE auto = "first"
  <2>1. balise = last_balise
    BY <1>1, <1>6 DEF TurnsInv
  <2>2. mission' = mission
    BY <1>1, <2>1
  <2> QED
    BY <1>1, <1>3, <1>6, <2>2 DEF TurnsInv
<1>7. CASE auto = "drives"
  <2>1. mission' = mission - Uncounted
    BY <1>1 DEF Uncounted, TurnsInv
  <2>2. mission = Laps - turns + Uncounted /\ Uncounted \in { 0, 1 }
    BY <1>7 DEF TurnsInv, Uncounted
  <2>3. mission' = Laps - turns' + Uncounted'
    BY <1>1, <1>4, <2>1, <2>2, LoopAssumption DEF TurnsInv
  <2> QED
    BY <1>1, <1>3, <1>5, <1>7, <2>3 DEF TurnsInv
<1> QED
  BY <1>1, <1>6, <1>7

LEMMA TurnsStep == TurnsInv /\ [ProgramNext]_program => TurnsInv'
<1> SUFFICES ASSUME TurnsInv, [ProgramNext]_program PROVE TurnsInv'
  OBVIOUS
<1>1. CASE ReadAgain
  <2>1. /\ balise = NoBalise /\ last_balise # NoBalise /\ at = Start[last_balise]
        /\ auto \in { "first", "drives" } /\ balise' = last_balise
        /\ UNCHANGED << at, moves, turns, auto, last_balise, mission >>
    BY <1>1 DEF ReadAgain, threads
  <2>2. Placed' /\ Uncounted' = 0 /\ Uncounted = 0
    BY <2>1, LoopFacts DEF TurnsInv, Placed, Uncounted, NoBalise
  <2> QED
    BY <2>1, <2>2 DEF TurnsInv
<1>2. CASE FirstBalise
  <2>1. /\ auto = "search" /\ balise # NoBalise /\ last_balise' = balise
        /\ balise' = NoBalise /\ moves' = FALSE /\ auto' = "first"
        /\ UNCHANGED << at, turns, mission >>
    BY <1>2 DEF FirstBalise
  <2>2. balise \in 1 .. Many /\ at = Start[balise]
    BY <2>1, LoopFacts DEF TurnsInv
  <2>3. Placed'
    BY <2>1, <2>2, LapFacts, LoopFacts DEF Placed, Inside
  <2> QED
    BY <2>1, <2>3 DEF TurnsInv, Phase
<1>3. CASE Connect \/ StopTrain
  BY <1>3 DEF Connect, StopTrain, TurnsInv, Phase
<1>4. CASE FirstFrame \/ Resume
  <2>1. /\ \/ auto = "first" /\ auto' = "waits"
           \/ auto = "waits" /\ auto' = "drives"
        /\ UNCHANGED << at, balise, turns, moves, last_balise, mission >>
    BY <1>4 DEF FirstFrame, Resume, track
  <2>2. Placed' /\ Uncounted' = 0
    BY <2>1, LoopFacts DEF TurnsInv, Placed, Uncounted, NoBalise
  <2>3. mission' = Laps - turns' + Uncounted'
    BY <2>1, <2>2, LoopAssumption DEF TurnsInv
  <2> QED
    BY <2>1, <2>2, <2>3 DEF TurnsInv, Phase
<1>5. CASE Frame02F
  <2>1. /\ auto = "drives"
        /\ UNCHANGED << at, balise, turns, auto, last_balise, mission >>
    BY <1>5 DEF Frame02F
  <2> QED
    BY <2>1 DEF TurnsInv, Placed, Uncounted
<1>6. CASE \/ FirstAcknowledged \/ FirstRequest \/ NextRequest
           \/ \E e \in Cell : Answer(e)
           \/ UNCHANGED program
  <2>1. UNCHANGED << at, moves, balise, turns, auto, last_balise, mission >>
    BY <1>6
    DEF FirstAcknowledged, FirstRequest, NextRequest, Answer, program, track, threads
  <2> QED
    BY <2>1 DEF TurnsInv, Placed, Uncounted
<1> QED
  BY <1>1, <1>2, <1>3, <1>4, <1>5, <1>6, MoveTurns, PassTurns DEF ProgramNext

\* boucle_automatique counts each turn of the loop once, whatever balise it finds
\* first, however often a balise is read and wherever the signal stops it.
THEOREM TurnsAreCounted == ProgramSpec => []CountsTurns
<1>1. TurnsInv => CountsTurns
  BY DEF TurnsInv, CountsTurns, Uncounted
<1> QED
  BY InitTurns, TurnsStep, <1>1, PTL DEF ProgramSpec

-----------------------------------------------------------------------------
(* The authority                                                           *)

\* A train ordered to run in the cell it has published is not at its authority.
AuthorityInv ==
    /\ eoa \in Cell \cup { NoCell }
    /\ eoa_initialized = TRUE => eoa \in Cell
    /\ auto = "drives" => eoa \in Cell
    /\ auto = "drives" /\ moves = TRUE /\ pos = at => at # eoa

LEMMA InitAuthority == ProgramInit => AuthorityInv
BY DEF ProgramInit, AuthorityInv

\* boucle_automatique takes for its objective the authority or what comes before.
LEMMA FrameAuthority ==
    ASSUME TurnsInv, AuthorityInv, Frame02F
    PROVE  AuthorityInv'
<1>1. /\ auto = "drives" /\ pos' = at
      /\ UNCHANGED << at, auto, eoa, eoa_initialized >>
  BY DEF Frame02F
<1>2. PICK past \in IF pos # at THEN BOOLEAN ELSE { moves } :
        moves' = (objective(mission, get_distance(at, eoa), distance_past(at, 0, past)) > 0)
  BY DEF Frame02F
<1>3. at \in Cell /\ eoa \in Cell /\ 0 \in Cell /\ mission \in Int
  BY <1>1, LapFacts DEF TurnsInv, AuthorityInv, Cell
<1>4. distance_past(at, 0, past) \in Nat
  BY <1>3, Distances, LapFacts DEF distance_past
<1>5. ASSUME at = eoa, moves' = TRUE PROVE FALSE
  <2>1. get_distance(at, eoa) = 0
    BY <1>3, <1>5, Distances
  <2>2. objective(mission, get_distance(at, eoa), distance_past(at, 0, past)) = 0
    BY <2>1, <1>3, <1>4 DEF objective
  <2>3. (objective(mission, get_distance(at, eoa), distance_past(at, 0, past)) > 0) = TRUE
    BY <1>2, <1>5, Zenon
  <2>4. ~(0 > 0)
    OBVIOUS
  <2> QED
    BY <2>2, <2>3, <2>4, Zenon
<1> QED
  BY <1>1, <1>5 DEF AuthorityInv

LEMMA AuthorityStep == TurnsInv /\ AuthorityInv /\ [ProgramNext]_program => AuthorityInv'
<1> SUFFICES ASSUME TurnsInv, AuthorityInv, [ProgramNext]_program PROVE AuthorityInv'
  OBVIOUS
<1>1. CASE Move
  <2>1. /\ balise = NoBalise /\ at' = (at + 1) % Lap
        /\ auto = "search" \/ pos = at
        /\ UNCHANGED << auto, pos, eoa, eoa_initialized >>
    BY <1>1 DEF Move, threads
  <2>2. at' # at
    BY <2>1, LapFacts, Modulo DEF TurnsInv, Cell
  <2> QED
    BY <2>1, <2>2 DEF AuthorityInv
<1>2. CASE \/ ReadAgain \/ PassBalise \/ FirstAcknowledged \/ FirstRequest \/ NextRequest
           \/ UNCHANGED program
  <2>1. UNCHANGED << at, moves, auto, pos, eoa, eoa_initialized >>
    BY <1>2
    DEF ReadAgain, PassBalise, FirstAcknowledged, FirstRequest, NextRequest, program, track,
        threads
  <2> QED
    BY <2>1 DEF AuthorityInv
<1>3. CASE Connect \/ FirstBalise \/ FirstFrame \/ StopTrain
  <2>1. auto' # "drives" /\ UNCHANGED << eoa, eoa_initialized >>
    BY <1>3 DEF Connect, FirstBalise, FirstFrame, StopTrain
  <2> QED
    BY <2>1 DEF AuthorityInv
<1>4. CASE Resume
  <2>1. auto = "waits" /\ eoa_initialized = TRUE
        /\ UNCHANGED << moves, eoa, eoa_initialized >>
    BY <1>4 DEF Resume, track
  <2> QED
    BY <2>1 DEF AuthorityInv, TurnsInv
<1>5. ASSUME NEW e \in Cell, Answer(e) PROVE AuthorityInv'
  <2>1. /\ eoa # NoCell => get_distance(at, eoa) <= get_distance(at, e)
        /\ eoa' = e /\ eoa_initialized' = TRUE
        /\ UNCHANGED << at, moves, auto, pos >>
    BY <1>5 DEF Answer, track
  <2>2. ASSUME auto = "drives", moves = TRUE, pos = at PROVE at # e
    <3>1. at \in Cell /\ eoa \in Cell /\ eoa # NoCell /\ at # eoa
      BY <2>2 DEF AuthorityInv, TurnsInv, Cell, NoCell
    <3> QED
      BY <2>1, <3>1, Distances
  <2> QED
    BY <2>1, <2>2 DEF AuthorityInv
<1> QED
  BY <1>1, <1>2, <1>3, <1>4, <1>5, FrameAuthority DEF ProgramNext

\* The train does not leave the cell its authority ends in, whatever the mission
\* and the start balise make of its objective and whenever the answers come:
\* a new authority is never behind the one it replaces.
THEOREM AuthorityStops == ProgramSpec => StopsAtAuthority
<1> DEFINE Stops == auto = "drives" /\ at' # at => at # eoa
<1>1. TurnsInv /\ AuthorityInv /\ [ProgramNext]_program => [Stops]_program
  <2> SUFFICES ASSUME AuthorityInv, ProgramNext, auto = "drives", at' # at PROVE at # eoa
    BY DEF program
  <2>1. Move
    BY DEF ProgramNext, ReadAgain, Connect, FirstBalise, PassBalise, FirstFrame, Resume,
           Frame02F, StopTrain, FirstAcknowledged, FirstRequest, NextRequest, Answer, track
  <2> QED
    BY <2>1 DEF Move, AuthorityInv
<1> QED
  BY InitTurns, TurnsStep, InitAuthority, AuthorityStep, <1>1, PTL
  DEF ProgramSpec, StopsAtAuthority
===============================================================================
