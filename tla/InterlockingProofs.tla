-------------------------- MODULE InterlockingProofs --------------------------
(***************************************************************************)
(* What TLAPS proves of Interlocking and EoaReads, for every table, every  *)
(* number of positions in a canton and every set of running trains that    *)
(* satisfy the assumptions: if each train alone is safe, the three of them *)
(* are, also when next_eoa reads the others one field at a time; and its   *)
(* answers stop at the other trains and never take an authority back until *)
(* one of them has changed canton while it was being read.                 *)
(***************************************************************************)
EXTENDS TrainAlone, EoaReads, WellFoundedInduction, TLAPS

-----------------------------------------------------------------------------
(* Positions on a loop                                                     *)

\* The smallest of some natural numbers is one of them.
LEMMA MinInSet ==
    ASSUME NEW S \in SUBSET Nat, S # {}
    PROVE  Min(S) \in S /\ \A y \in S : Min(S) <= y
<1>1. PICK m \in S : \A y \in S : ~(<< y, m >> \in OpToRel(<, Nat))
  BY NatLessThanWellFounded, WFMin
<1>2. \A y \in S : ~(y < m)
  BY <1>1, Zenon DEF OpToRel
<1>3. \A y \in S : m <= y
  BY <1>2
<1> QED
  BY <1>3 DEF Min

\* An index below the length of a loop, and one lap further, is itself.
LEMMA WrapFacts ==
    ASSUME NEW n \in Nat \ {0}, NEW i \in 0 .. n - 1
    PROVE  i % n = i /\ (i + n) % n = i
OBVIOUS

LEMMA ModBound ==
    ASSUME NEW n \in Nat \ {0}, NEW i \in Nat
    PROVE  i % n \in 0 .. n - 1
OBVIOUS

\* The index of a balise of the loop is a place of the loop where it is.
LEMMA IndexFacts ==
    ASSUME NEW t \in Train, NEW b \in Balise(t)
    PROVE  /\ TailleChemin(t) \in Nat \ {0}
           /\ IndexOf[t][b] \in 0 .. TailleChemin(t) - 1
           /\ BaliseAt(t, IndexOf[t][b]) = b
<1>1. chemins[t] \in Seq(Nat)
  BY LoopAssumption
<1>2. PICK j \in 1 .. Len(chemins[t]) : chemins[t][j] = b
  BY DEF Balise
<1>3. TailleChemin(t) \in Nat \ {0}
  BY <1>1, <1>2 DEF TailleChemin
<1>4. j - 1 \in 0 .. TailleChemin(t) - 1 /\ BaliseAt(t, j - 1) = b
  <2>1. j - 1 \in 0 .. TailleChemin(t) - 1
    BY <1>1 DEF TailleChemin
  <2>2. (j - 1) % TailleChemin(t) = j - 1
    BY <1>3, <2>1, WrapFacts
  <2> QED
    BY <1>2, <2>1, <2>2 DEF BaliseAt
<1>5. IndexOf[t][b] = CHOOSE i \in 0 .. TailleChemin(t) - 1 : BaliseAt(t, i) = b
  BY DEF IndexOf
<1> QED
  BY <1>3, <1>4, <1>5

LEMMA BaliseAtInLoop ==
    ASSUME NEW t \in Train, TailleChemin(t) \in Nat \ {0}, NEW i \in Nat
    PROVE  BaliseAt(t, i) \in Balise(t)
<1>1. i % TailleChemin(t) \in 0 .. TailleChemin(t) - 1
  BY ModBound
<1> QED
  BY <1>1 DEF BaliseAt, Balise, TailleChemin

\* Every balise of a loop is met within one lap from any other.
LEMMA MetWithinALap ==
    ASSUME NEW t \in Train, NEW b \in Balise(t), NEW c \in Balise(t)
    PROVE  \E d \in 1 .. TailleChemin(t) : BaliseAt(t, IndexOf[t][b] + d) = c
<1> DEFINE n == TailleChemin(t)
           i == IndexOf[t][b]
           j == IndexOf[t][c]
<1>1. n \in Nat \ {0} /\ i \in 0 .. n - 1 /\ j \in 0 .. n - 1 /\ BaliseAt(t, j) = c
  BY IndexFacts
<1>2. j % n = j /\ (j + n) % n = j
  BY <1>1, WrapFacts
<1> HIDE DEF n, i, j
<1>3. CASE i < j
  <2>1. j - i \in 1 .. n /\ i + (j - i) = j
    BY <1>1, <1>3
  <2> QED
    BY <1>1, <2>1 DEF n, i, j
<1>4. CASE ~(i < j)
  <2>1. j + n - i \in 1 .. n /\ i + (j + n - i) = j + n
    BY <1>1, <1>4
  <2>2. BaliseAt(t, j + n) = BaliseAt(t, j)
    BY <1>2 DEF BaliseAt, n
  <2> QED
    BY <1>1, <2>1, <2>2 DEF n, i, j
<1> QED
  BY <1>3, <1>4

\* A number of one lap or two is brought back to the first.
LEMMA ModTwoLaps ==
    ASSUME NEW n \in Nat \ {0}, NEW i \in 0 .. 2 * n - 1
    PROVE  i % n = IF i < n THEN i ELSE i - n
<1>1. CASE i < n
  BY <1>1, WrapFacts
<1>2. CASE ~(i < n)
  <2>1. i - n \in 0 .. n - 1 /\ (i - n) + n = i
    BY <1>2
  <2> QED
    BY <1>2, <2>1, WrapFacts
<1> QED
  BY <1>1, <1>2

\* A loop visits each of its balises once: the balise d cantons after b is c
\* when d is the number of cantons from b to c, or a whole lap back to b.
LEMMA CantonsFacts ==
    ASSUME NEW t \in Train, NEW b \in Balise(t), NEW c \in Balise(t)
    PROVE  /\ Cantons(t, b, c) = IF IndexOf[t][b] <= IndexOf[t][c]
                                 THEN IndexOf[t][c] - IndexOf[t][b]
                                 ELSE IndexOf[t][c] - IndexOf[t][b] + TailleChemin(t)
           /\ IndexOf[t][b] = IndexOf[t][c] <=> b = c
           /\ \A d \in 0 .. TailleChemin(t) :
                BaliseAt(t, IndexOf[t][b] + d) = c
                  <=> d = Cantons(t, b, c) \/ (d = TailleChemin(t) /\ b = c)
<1> DEFINE n == TailleChemin(t)
           i == IndexOf[t][b]
           j == IndexOf[t][c]
<1>1. n \in Nat \ {0} /\ i \in 0 .. n - 1 /\ j \in 0 .. n - 1
      /\ BaliseAt(t, i) = b /\ BaliseAt(t, j) = c
  BY IndexFacts
<1>2. i = j <=> b = c
  BY <1>1
<1>3. Cantons(t, b, c) = (j + n - i) % n
  BY DEF Cantons
<1>4. \A x \in 0 .. 2 * n - 1 : BaliseAt(t, x) = c <=> (x = j \/ x = j + n)
  <2> SUFFICES ASSUME NEW x \in 0 .. 2 * n - 1
               PROVE  BaliseAt(t, x) = c <=> (x = j \/ x = j + n)
    OBVIOUS
  <2>1. x % n = (IF x < n THEN x ELSE x - n) /\ j % n = j
    BY <1>1, ModTwoLaps, WrapFacts
  <2>2. (x % n) + 1 \in 1 .. Len(chemins[t]) /\ j + 1 \in 1 .. Len(chemins[t])
    <3>1. x % n \in 0 .. n - 1
      BY <1>1, <2>1
    <3> DEFINE m == x % n
    <3>2. m \in 0 .. n - 1 /\ j \in 0 .. n - 1 /\ n \in Nat /\ n = Len(chemins[t])
      BY <1>1, <3>1 DEF TailleChemin
    <3> HIDE DEF m, n, j
    <3>3. m + 1 \in 1 .. n /\ j + 1 \in 1 .. n
      BY <3>2
    <3> QED
      BY <3>2, <3>3 DEF m
  <2>3. BaliseAt(t, x) = c <=> (x % n) + 1 = j + 1
    <3>1. chemins[t][j + 1] = c
      BY <1>1, <2>1 DEF BaliseAt
    <3>2. chemins[t][(x % n) + 1] = c <=> (x % n) + 1 = j + 1
      BY <2>2, <3>1, LoopAssumption
    <3> QED
      BY <3>2 DEF BaliseAt
  <2> HIDE DEF n, i, j
  <2> QED
    BY <1>1, <2>1, <2>3
<1> HIDE DEF n, i, j
<1>5. (j + n - i) % n = IF i <= j THEN j - i ELSE j - i + n
  <2> DEFINE x == j + n - i
  <2>1. x \in 0 .. 2 * n - 1 /\ n \in Nat \ {0}
    BY <1>1
  <2>2. x % n = IF x < n THEN x ELSE x - n
    <3> HIDE DEF x
    <3> QED
      BY <2>1, ModTwoLaps
  <2>3. (IF x < n THEN x ELSE x - n) = IF i <= j THEN j - i ELSE j - i + n
    BY <1>1
  <2> QED
    BY <2>2, <2>3
<1>6. \A d \in 0 .. n :
        BaliseAt(t, i + d) = c <=> d = Cantons(t, b, c) \/ (d = n /\ b = c)
  <2> SUFFICES ASSUME NEW d \in 0 .. n
               PROVE  BaliseAt(t, i + d) = c
                        <=> d = Cantons(t, b, c) \/ (d = n /\ b = c)
    OBVIOUS
  <2>1. i + d \in 0 .. 2 * n - 1
    BY <1>1
  <2>2. BaliseAt(t, i + d) = c <=> (i + d = j \/ i + d = j + n)
    BY <1>4, <2>1
  <2> QED
    BY <1>1, <1>2, <1>3, <1>5, <2>2
<1> QED
  BY <1>2, <1>3, <1>5, <1>6 DEF n, i, j

\* How far ahead of p a position q is: the whole lap when it is behind p in the
\* same canton.
LEMMA AheadFacts ==
    ASSUME NEW t \in Train, NEW p \in Position(t), NEW q \in Position(t)
    PROVE  /\ TailleChemin(t) \in Nat \ {0} /\ p.pos_r \in Nat /\ q.pos_r \in Nat
           /\ Ahead(t, p, q) \in 0 .. TailleChemin(t)
           /\ Ahead(t, p, q) = 0 <=> p.bal = q.bal /\ p.pos_r <= q.pos_r
           /\ Ahead(t, p, q) = TailleChemin(t) <=> p.bal = q.bal /\ q.pos_r < p.pos_r
           /\ p.bal # q.bal => Ahead(t, p, q) = Cantons(t, p.bal, q.bal)
           /\ BaliseAt(t, IndexOf[t][p.bal] + Ahead(t, p, q)) = q.bal
<1> DEFINE n == TailleChemin(t)
           i == IndexOf[t][p.bal]
           j == IndexOf[t][q.bal]
           c == Cantons(t, p.bal, q.bal)
           a == Ahead(t, p, q)
<1>1. p.bal \in Balise(t) /\ q.bal \in Balise(t) /\ p.pos_r \in Nat /\ q.pos_r \in Nat
  BY DEF Position, PosR
<1>2. n \in Nat \ {0} /\ i \in 0 .. n - 1 /\ j \in 0 .. n - 1
  BY <1>1, IndexFacts
<1>3. /\ c = IF i <= j THEN j - i ELSE j - i + n
      /\ i = j <=> p.bal = q.bal
      /\ \A d \in 0 .. n : BaliseAt(t, i + d) = q.bal <=> d = c \/ (d = n /\ p.bal = q.bal)
  BY <1>1, CantonsFacts
<1>4. a = IF p.bal = q.bal /\ q.pos_r < p.pos_r THEN n ELSE c
  BY DEF Ahead
<1> HIDE DEF n, i, j, c, a
<1>5. a \in 0 .. n /\ (a = 0 <=> p.bal = q.bal /\ p.pos_r <= q.pos_r)
      /\ (a = n <=> p.bal = q.bal /\ q.pos_r < p.pos_r)
  BY <1>1, <1>2, <1>3, <1>4
<1>6. BaliseAt(t, i + a) = q.bal
  BY <1>3, <1>4, <1>5
<1> QED
  BY <1>1, <1>2, <1>4, <1>5, <1>6 DEF n, i, j, c, a

\* p and then q on the way from o.
Before(t, o, p, q) ==
    \/ Ahead(t, o, p) < Ahead(t, o, q)
    \/ Ahead(t, o, p) = Ahead(t, o, q) /\ p.pos_r <= q.pos_r

\* The arithmetic of AheadShift: i, j and k are the indices of three positions
\* on a loop of n balises, x, y and z their pos_r.
LEMMA LapArithmetic ==
    ASSUME NEW n \in Nat \ {0}, NEW i \in 0 .. n - 1, NEW j \in 0 .. n - 1,
           NEW k \in 0 .. n - 1, NEW x \in Nat, NEW y \in Nat, NEW z \in Nat,
           NEW a, NEW b, NEW c,
           a = IF i = j /\ y < x THEN n ELSE IF i <= j THEN j - i ELSE j - i + n,
           b = IF i = k /\ z < x THEN n ELSE IF i <= k THEN k - i ELSE k - i + n,
           c = IF j = k /\ z < y THEN n ELSE IF j <= k THEN k - j ELSE k - j + n
    PROVE  c = IF a < b \/ (a = b /\ y <= z) THEN b - a ELSE b - a + n
<1>1. CASE i = j /\ j = k
  BY <1>1
<1>2. CASE i = j /\ j # k
  BY <1>2
<1>3. CASE i # j /\ j = k
  BY <1>3
<1>4. CASE i # j /\ j # k /\ i = k
  BY <1>4
<1>5. CASE i # j /\ j # k /\ i # k
  BY <1>5
<1> QED
  BY <1>1, <1>2, <1>3, <1>4, <1>5

\* The same two positions seen from another one.
LEMMA AheadShift ==
    ASSUME NEW t \in Train, NEW o \in Position(t), NEW p \in Position(t), NEW q \in Position(t)
    PROVE  Ahead(t, p, q) = IF Before(t, o, p, q)
                            THEN Ahead(t, o, q) - Ahead(t, o, p)
                            ELSE Ahead(t, o, q) - Ahead(t, o, p) + TailleChemin(t)
<1> DEFINE n == TailleChemin(t)
           i == IndexOf[t][o.bal]
           j == IndexOf[t][p.bal]
           k == IndexOf[t][q.bal]
<1>1. /\ o.bal \in Balise(t) /\ p.bal \in Balise(t) /\ q.bal \in Balise(t)
      /\ o.pos_r \in Nat /\ p.pos_r \in Nat /\ q.pos_r \in Nat
  BY DEF Position, PosR
<1>2. n \in Nat \ {0} /\ i \in 0 .. n - 1 /\ j \in 0 .. n - 1 /\ k \in 0 .. n - 1
  BY <1>1, IndexFacts
<1>3. /\ Cantons(t, o.bal, p.bal) = IF i <= j THEN j - i ELSE j - i + n
      /\ Cantons(t, o.bal, q.bal) = IF i <= k THEN k - i ELSE k - i + n
      /\ Cantons(t, p.bal, q.bal) = IF j <= k THEN k - j ELSE k - j + n
      /\ i = j <=> o.bal = p.bal
      /\ i = k <=> o.bal = q.bal
      /\ j = k <=> p.bal = q.bal
  BY <1>1, CantonsFacts
<1>4. /\ Ahead(t, o, p) = IF i = j /\ p.pos_r < o.pos_r THEN n
                          ELSE IF i <= j THEN j - i ELSE j - i + n
      /\ Ahead(t, o, q) = IF i = k /\ q.pos_r < o.pos_r THEN n
                          ELSE IF i <= k THEN k - i ELSE k - i + n
      /\ Ahead(t, p, q) = IF j = k /\ q.pos_r < p.pos_r THEN n
                          ELSE IF j <= k THEN k - j ELSE k - j + n
  BY <1>3 DEF Ahead
<1>5. Ahead(t, p, q) =
        IF \/ Ahead(t, o, p) < Ahead(t, o, q)
           \/ Ahead(t, o, p) = Ahead(t, o, q) /\ p.pos_r <= q.pos_r
        THEN Ahead(t, o, q) - Ahead(t, o, p) ELSE Ahead(t, o, q) - Ahead(t, o, p) + n
  <2> HIDE DEF n, i, j, k
  <2> QED
    BY <1>1, <1>2, <1>4, LapArithmetic
<1> QED
  BY <1>5 DEF Before

\* The positions between p and q are those met before q on the way from p.
LEMMA BetweenFacts ==
    ASSUME NEW t \in Train, NEW p \in Position(t), NEW q \in Position(t)
    PROVE  /\ Between[t][p][q] \subseteq Position(t)
           /\ \A x \in Position(t) : x \in Between[t][p][q] <=> Before(t, p, x, q)
<1> DEFINE n == TailleChemin(t)
           i == IndexOf[t][p.bal]
           E == Ahead(t, p, q)
<1>1. Between[t][p][q] = UNION { OnTheWay(t, p, q, d) : d \in 0 .. E }
  BY DEF Between
<1>2. p.bal \in Balise(t) /\ n \in Nat \ {0} /\ i \in 0 .. n - 1 /\ E \in 0 .. n
      /\ q.pos_r \in Nat /\ p.pos_r \in Nat
  BY IndexFacts, AheadFacts DEF Position
<1>3. Between[t][p][q] \subseteq Position(t)
  <2> SUFFICES ASSUME NEW d \in 0 .. E, NEW x \in OnTheWay(t, p, q, d)
               PROVE  x \in Position(t)
    BY <1>1
  <2>1. i + d \in Nat
    BY <1>2
  <2>2. BaliseAt(t, i + d) \in Balise(t)
    BY <1>2, <2>1, BaliseAtInLoop
  <2> QED
    BY <2>2 DEF OnTheWay, Position
<1>4. ASSUME NEW x \in Position(t)
      PROVE  x \in Between[t][p][q] <=> Before(t, p, x, q)
  <2> DEFINE a == Ahead(t, p, x)
  <2>1. /\ a \in 0 .. n /\ x.pos_r \in Nat /\ x.pos_r \in PosR /\ x.bal \in Balise(t)
        /\ a = 0 <=> p.bal = x.bal /\ p.pos_r <= x.pos_r
        /\ a = n <=> p.bal = x.bal /\ x.pos_r < p.pos_r
        /\ p.bal # x.bal => a = Cantons(t, p.bal, x.bal)
        /\ BaliseAt(t, i + a) = x.bal
    BY AheadFacts DEF Position
  <2>2. \A d \in 0 .. n : BaliseAt(t, i + d) = x.bal
          <=> d = Cantons(t, p.bal, x.bal) \/ (d = n /\ p.bal = x.bal)
    BY <1>2, <2>1, CantonsFacts
  <2>3. p.bal = x.bal => Cantons(t, p.bal, x.bal) = 0
    <3>1. p.bal = x.bal => Cantons(t, p.bal, x.bal) = i - i
      BY <1>2, CantonsFacts
    <3> QED
      BY <1>2, <3>1
  <2>4. x = [bal |-> x.bal, pos_r |-> x.pos_r]
    BY DEF Position
  <2>5. \A d \in 0 .. E : x \in OnTheWay(t, p, q, d)
          <=> /\ BaliseAt(t, i + d) = x.bal
              /\ d = 0 => x.pos_r >= p.pos_r
              /\ d = E => x.pos_r <= q.pos_r
    BY <2>1, <2>4 DEF OnTheWay
  <2>6. x \in Between[t][p][q] <=> \E d \in 0 .. E : x \in OnTheWay(t, p, q, d)
    BY <1>1
  <2> HIDE DEF n, i, E, a
  <2>7. ASSUME NEW d \in 0 .. E, x \in OnTheWay(t, p, q, d)
        PROVE  d = a
    <3>1. d \in 0 .. n
      BY <1>2
    <3>2. /\ d = Cantons(t, p.bal, x.bal) \/ (d = n /\ p.bal = x.bal)
          /\ d = 0 => x.pos_r >= p.pos_r
          /\ d = E => x.pos_r <= q.pos_r
      BY <2>2, <2>5, <2>7, <3>1
    <3>3. CASE p.bal # x.bal
      BY <2>1, <3>2, <3>3
    <3>4. CASE p.bal = x.bal /\ d = 0
      BY <1>2, <2>1, <3>2, <3>4
    <3>5. CASE p.bal = x.bal /\ d = n
      <4>1. E = n
        BY <1>2, <3>5
      <4>2. p.bal = q.bal /\ q.pos_r < p.pos_r
        BY <4>1, AheadFacts DEF E, n
      <4>3. x.pos_r < p.pos_r
        BY <1>2, <2>1, <3>2, <3>5, <4>1, <4>2
      <4> QED
        BY <2>1, <3>5, <4>3
    <3> QED
      BY <2>3, <3>2, <3>3, <3>4, <3>5
  <2>8. ASSUME a \in 0 .. E, a = E => x.pos_r <= q.pos_r
        PROVE  x \in OnTheWay(t, p, q, a)
    BY <1>2, <2>1, <2>5, <2>8
  <2>9. x \in Between[t][p][q] <=> a \in 0 .. E /\ (a = E => x.pos_r <= q.pos_r)
    BY <2>5, <2>6, <2>7, <2>8
  <2>10. Before(t, p, x, q) <=> a < E \/ (a = E /\ x.pos_r <= q.pos_r)
    BY DEF Before, a, E
  <2>11. a \in 0 .. E /\ (a = E => x.pos_r <= q.pos_r) <=> a < E \/ (a = E /\ x.pos_r <= q.pos_r)
    BY <1>2, <2>1
  <2> QED
    BY <2>9, <2>10, <2>11, Zenon
<1> QED
  BY <1>3, <1>4

\* A train that moves on inside its authority only has less of it left.
LEMMA BetweenNarrows ==
    ASSUME NEW t \in Train, NEW o \in Position(t), NEW e \in Position(t),
           NEW p \in Between[t][o][e]
    PROVE  Between[t][p][e] \subseteq Between[t][o][e]
<1>1. p \in Position(t) /\ Before(t, o, p, e)
  BY BetweenFacts
<1> SUFFICES ASSUME NEW x \in Between[t][p][e]
             PROVE  x \in Between[t][o][e]
  OBVIOUS
<1>2. x \in Position(t) /\ Before(t, p, x, e)
  BY <1>1, BetweenFacts
<1>3. Before(t, o, x, e)
  <2>1. /\ Ahead(t, p, e) = Ahead(t, o, e) - Ahead(t, o, p)
    BY <1>1, AheadShift
  <2>2. Ahead(t, p, x) = IF Before(t, o, p, x)
                         THEN Ahead(t, o, x) - Ahead(t, o, p)
                         ELSE Ahead(t, o, x) - Ahead(t, o, p) + TailleChemin(t)
    BY <1>1, <1>2, AheadShift
  <2>3. /\ Ahead(t, o, x) \in 0 .. TailleChemin(t) /\ Ahead(t, o, p) \in 0 .. TailleChemin(t)
        /\ Ahead(t, o, e) \in 0 .. TailleChemin(t) /\ TailleChemin(t) \in Nat \ {0}
        /\ o.pos_r \in Nat /\ p.pos_r \in Nat /\ x.pos_r \in Nat /\ e.pos_r \in Nat
        /\ Ahead(t, o, x) = 0 <=> o.bal = x.bal /\ o.pos_r <= x.pos_r
        /\ Ahead(t, o, e) = TailleChemin(t) <=> o.bal = e.bal /\ e.pos_r < o.pos_r
    BY <1>1, <1>2, AheadFacts
  <2>4. Before(t, p, x, e) /\ Before(t, o, p, e)
    BY <1>1, <1>2
  <2> DEFINE n == TailleChemin(t)
             a == Ahead(t, o, p)
             b == Ahead(t, o, x)
             c == Ahead(t, o, e)
             d == Ahead(t, p, x)
  <2>5. o.bal = x.bal /\ o.bal = e.bal /\ b = 0 /\ c = n => e.pos_r < x.pos_r
    BY <2>3
  <2>6. /\ d = IF a < b \/ (a = b /\ p.pos_r <= x.pos_r) THEN b - a ELSE b - a + n
        /\ d < c - a \/ (d = c - a /\ x.pos_r <= e.pos_r)
        /\ a < c \/ (a = c /\ p.pos_r <= e.pos_r)
    BY <2>1, <2>2, <2>4 DEF Before
  <2>7. /\ a \in 0 .. n /\ b \in 0 .. n /\ c \in 0 .. n /\ n \in Nat \ {0}
        /\ p.pos_r \in Nat /\ x.pos_r \in Nat /\ e.pos_r \in Nat
        /\ b = 0 /\ c = n => e.pos_r < x.pos_r
    BY <2>3, <2>5
  <2> HIDE DEF n, a, b, c, d
  <2>8. b < c \/ (b = c /\ x.pos_r <= e.pos_r)
    BY <2>6, <2>7
  <2> QED
    BY <2>8 DEF Before, b, c
<1> QED
  BY <1>2, <1>3, BetweenFacts

\* A train that has left a position does not meet it again inside the same
\* authority.
LEMMA BetweenLeaves ==
    ASSUME NEW t \in Train, NEW o \in Position(t), NEW e \in Position(t),
           NEW p \in Between[t][o][e], p # o
    PROVE  o \notin Between[t][p][e]
<1>1. p \in Position(t) /\ Before(t, o, p, e)
  BY BetweenFacts
<1>2. SUFFICES ASSUME Before(t, p, o, e)
               PROVE  FALSE
  BY <1>1, BetweenFacts
<1>3. /\ Ahead(t, o, p) \in 0 .. TailleChemin(t) /\ TailleChemin(t) \in Nat \ {0}
      /\ Ahead(t, o, e) \in 0 .. TailleChemin(t)
      /\ o.pos_r \in Nat /\ p.pos_r \in Nat /\ e.pos_r \in Nat
      /\ Ahead(t, o, o) = 0
      /\ Ahead(t, o, p) = 0 <=> o.bal = p.bal /\ o.pos_r <= p.pos_r
      /\ Ahead(t, o, e) = TailleChemin(t) <=> o.bal = e.bal /\ e.pos_r < o.pos_r
  BY <1>1, AheadFacts
<1>4. o.bal # p.bal \/ o.pos_r # p.pos_r
  BY <1>1 DEF Position
<1>5. ~Before(t, o, p, o)
  BY <1>3, <1>4 DEF Before
<1>6. Ahead(t, p, o) = 0 - Ahead(t, o, p) + TailleChemin(t)
  BY <1>1, <1>3, <1>5, AheadShift
<1>7. Ahead(t, p, e) = Ahead(t, o, e) - Ahead(t, o, p)
  BY <1>1, AheadShift
<1> QED
  BY <1>2, <1>3, <1>6, <1>7 DEF Before

\* Two positions are always met in some order.
LEMMA BetweenTotal ==
    ASSUME NEW t \in Train, NEW o \in Position(t), NEW p \in Position(t), NEW q \in Position(t)
    PROVE  p \in Between[t][o][q] \/ q \in Between[t][o][p]
<1>1. /\ Ahead(t, o, p) \in Nat /\ Ahead(t, o, q) \in Nat
      /\ p.pos_r \in Nat /\ q.pos_r \in Nat
  BY AheadFacts
<1>2. Before(t, o, p, q) \/ Before(t, o, q, p)
  BY <1>1 DEF Before
<1> QED
  BY <1>2, BetweenFacts

\* Nothing but the position itself is between a position and itself.
LEMMA BetweenItself ==
    ASSUME NEW t \in Train, NEW o \in Position(t)
    PROVE  Between[t][o][o] = { o }
<1>1. Ahead(t, o, o) = 0
  BY AheadFacts
<1>2. ASSUME NEW x \in Position(t)
      PROVE  Before(t, o, x, o) <=> x = o
  <2>1. /\ Ahead(t, o, x) \in Nat /\ x.pos_r \in Nat /\ o.pos_r \in Nat
        /\ Ahead(t, o, x) = 0 <=> o.bal = x.bal /\ o.pos_r <= x.pos_r
    BY AheadFacts
  <2>2. x = o <=> x.bal = o.bal /\ x.pos_r = o.pos_r
    BY DEF Position
  <2> QED
    BY <1>1, <2>1, <2>2 DEF Before
<1>3. Between[t][o][o] \subseteq { o } /\ o \in Between[t][o][o]
  BY <1>2, BetweenFacts
<1> QED
  BY <1>3

-----------------------------------------------------------------------------
(* The other trains                                                        *)

\* The two other trains are the next two modulo 3.
LEMMA OtherTrains ==
    ASSUME NEW t \in Train
    PROVE  /\ (t + 1) % 3 \in Train \ {t} /\ (t + 2) % 3 \in Train \ {t}
           /\ \A u \in Train \ {t} : u = (t + 1) % 3 \/ u = (t + 2) % 3
           /\ \A u, v \in Train \ {t} : u # v =>
                \A b : ~(b \in Balise(t) /\ b \in Balise(u) /\ b \in Balise(v))
<1>1. /\ (t + 1) % 3 \in Train \ {t} /\ (t + 2) % 3 \in Train \ {t}
      /\ \A u \in Train \ {t} : u = (t + 1) % 3 \/ u = (t + 2) % 3
  BY DEF Train
<1>2. ASSUME NEW u \in Train \ {t}, NEW v \in Train \ {t}, u # v, NEW b,
             b \in Balise(t), b \in Balise(u), b \in Balise(v)
      PROVE  FALSE
  <2>1. \A w \in {0, 1, 2} : w = t \/ w = u \/ w = v
    BY <1>2 DEF Train
  <2>2. b \in Balise(0) /\ b \in Balise(1) /\ b \in Balise(2)
    BY <1>2, <2>1
  <2> QED
    BY <2>2, CrossAssumption
<1> QED
  BY <1>1, <1>2

-----------------------------------------------------------------------------
(* The inductive invariant                                                 *)

LEMMA ElementOfSeq ==
    ASSUME NEW S, NEW q \in Seq(S), NEW i \in 1 .. Len(q)
    PROVE  q[i] \in S
OBVIOUS

LEMMA CommandsFacts ==
    ASSUME NEW t \in Train, NEW k \in Nat, k < L_res_size[t]
    PROVE  /\ Commands(t, k) \in Seq([name : STRING, dir : {0, 1}])
           /\ Len(Commands(t, k)) \in Nat
<1>1. k + 1 \in 1 .. L_res_size[t]
  BY TableAssumption
<1> QED
  BY <1>1, TableAssumption DEF Commands

LEMMA PositionsArePlaces ==
    ASSUME NEW t \in Train
    PROVE  Position(t) \subseteq Place
BY DEF Position, Place

LEMMA SeenTyped ==
    ASSUME IInv, NEW t \in Train
    PROVE  /\ SeenBy(t) \in Alone(t)
           /\ SeenBy(t) \in AloneState(t)
           /\ StepsAlone(t, SeenBy(t)) \subseteq Alone(t)
           /\ SafeAlone(t, SeenBy(t))
BY AloneAssumption DEF IInv

\* Every variable is a function of the trains, and what SeenBy leaves out (the
\* switches and the commands sent so far) has its type.
Shaped ==
    /\ pos_trains = [u \in Train |-> pos_trains[u]]
    /\ next_bal_index_req = [u \in Train |-> next_bal_index_req[u]]
    /\ next_bal_index_lib = [u \in Train |-> next_bal_index_lib[u]]
    /\ pc = [u \in Train |-> pc[u]]
    /\ eoa = [u \in Train |-> eoa[u]]
    /\ held = [u \in Train |-> held[u]]
    /\ aig \in [Switches -> {0, 1}]
    /\ cmd \in [Train -> Nat]
    /\ \A u \in Train : cmd[u] <= Len(Commands(u, next_bal_index_req[u]))

Seen == \A u \in Train : SeenBy(u) \in Alone(u)

\* The types of the states of the trains alone are those of the variables.
LEMMA IInvFromSeen == Shaped /\ Seen /\ Accounted => IInv
<1> SUFFICES ASSUME Shaped, Seen, Accounted
             PROVE  IInv
  OBVIOUS
<1>1. \A u \in Train : SeenBy(u) \in AloneState(u)
  BY AloneAssumption DEF Seen
<1>2. \A u \in Train : /\ pos_trains[u] \in Position(u)
                       /\ eoa[u] \in Position(u) \cup { NoEoa }
                       /\ next_bal_index_req[u] \in 0 .. L_res_size[u] - 1
                       /\ next_bal_index_lib[u] \in 0 .. L_res_size[u] - 1
                       /\ held[u] \in SUBSET Resource
                       /\ pc[u] \in { "idle", "locking", "switching", "eoa" }
  BY <1>1 DEF SeenBy, AloneState
<1>3. \A u \in Train : L_res_size[u] \in Nat \ {0}
  BY TableAssumption
<1>4. resources \subseteq Resource
  BY <1>2 DEF Accounted
<1>5. pos_trains \in [Train -> Place]
  BY <1>2, PositionsArePlaces DEF Shaped
<1>6. eoa \in [Train -> Place \cup { NoEoa }]
  BY <1>2, PositionsArePlaces DEF Shaped
<1>7. \A u \in Train : /\ next_bal_index_req[u] \in Nat
                       /\ next_bal_index_req[u] < L_res_size[u]
                       /\ next_bal_index_lib[u] \in Nat
                       /\ next_bal_index_lib[u] < L_res_size[u]
  BY <1>2, <1>3
<1>8. /\ next_bal_index_req \in [Train -> Nat]
      /\ next_bal_index_lib \in [Train -> Nat]
  BY <1>7 DEF Shaped
<1>9. pc \in [Train -> { "idle", "locking", "switching", "eoa" }]
  BY <1>2 DEF Shaped
<1>10. held \in [Train -> SUBSET Resource]
  BY <1>2 DEF Shaped
<1>11. TypeOK
  BY <1>2, <1>4, <1>5, <1>6, <1>7, <1>8, <1>9, <1>10 DEF Shaped, TypeOK
<1> QED
  BY <1>11 DEF IInv, Seen

\* A step that only changes what SeenBy shows of train t, and changes it as a
\* step of that train alone, leaves every train in a state it could be in.
LEMMA SeenStep ==
    ASSUME IInv, NEW t \in Train,
           SeenBy(t)' \in StepsAlone(t, SeenBy(t)),
           \A u \in Train \ {t} : SeenBy(u)' = SeenBy(u)
    PROVE  Seen'
<1>1. SeenBy(t)' \in Alone(t)
  BY SeenTyped
<1> QED
  BY <1>1 DEF Seen, IInv

LEMMA InitIInv == Init => IInv
<1> SUFFICES ASSUME Init
             PROVE  IInv
  OBVIOUS
<1>1. \A t \in Train : SeenBy(t) = AloneInit(t)
  BY DEF Init, SeenBy, AloneInit
<1>2. Seen
  BY <1>1, AloneAssumption DEF Seen
<1>3. \A u \in Train : Len(Commands(u, 0)) \in Nat
  BY TableAssumption, CommandsFacts
<1>4. Shaped
  BY <1>3 DEF Init, Shaped
<1>5. Accounted
  BY DEF Init, Accounted
<1> QED
  BY <1>2, <1>4, <1>5, IInvFromSeen

\* A report: what is given back was held by the train, so the others lose
\* nothing.
LEMMA ReportStep ==
    ASSUME IInv, NEW t \in Train, NEW p \in MayBeAt(t, pos_trains[t], eoa[t]), Report(t, p)
    PROVE  IInv'
<1> DEFINE s == SeenBy(t)
           k == next_bal_index_lib[t]
<1>1. p \in MayBeAt(t, s.pos, s.eoa) /\ s.lib = k
  BY DEF SeenBy
<1>2. TypeOK /\ Accounted
  BY DEF IInv
<1>3. SeenBy(t)' = ReportAlone(t, s, p)
  BY <1>2 DEF Report, ReportAlone, SeenBy, TypeOK, LibMask
<1>4. ReportAlone(t, s, p) \in StepsAlone(t, s)
  BY <1>1 DEF StepsAlone
<1>5. \A u \in Train \ {t} : SeenBy(u)' = SeenBy(u)
  BY <1>2 DEF Report, SeenBy, TypeOK
<1>6. Seen'
  BY <1>3, <1>4, <1>5, SeenStep
<1>7. frees(t, p, k) => LibMask(t) \subseteq held[t]
  BY <1>1, SeenTyped DEF SafeAlone, SeenBy, LibMask
<1>8. Shaped'
  <2>1. /\ pos_trains' = [u \in Train |-> pos_trains'[u]]
        /\ next_bal_index_lib' = [u \in Train |-> next_bal_index_lib'[u]]
        /\ held' = [u \in Train |-> held'[u]]
    BY <1>2 DEF Report, TypeOK
  <2> QED
    BY <1>2, <2>1 DEF Report, TypeOK, Shaped
<1>9. Accounted'
  <2>1. CASE frees(t, p, k)
    <3>1. resources' = resources \ LibMask(t)
          /\ held' = [held EXCEPT ![t] = @ \ LibMask(t)]
      BY <2>1 DEF Report
    <3> QED
      BY <1>2, <1>7, <2>1, <3>1 DEF Accounted, TypeOK
  <2>2. CASE ~frees(t, p, k)
    BY <1>2, <2>2 DEF Report, Accounted
  <2> QED
    BY <2>1, <2>2
<1> QED
  BY <1>6, <1>8, <1>9, IInvFromSeen, PTL

LEMMA AskStep ==
    ASSUME IInv, NEW t \in Train, Ask(t)
    PROVE  IInv'
<1>1. TypeOK /\ Accounted
  BY DEF IInv
<1>2. SeenBy(t)' = AskAlone(t, SeenBy(t))
  <2>1. pc'[t] = IF resource_to_lock(t, pos_trains[t], next_bal_index_req[t])
                 THEN "locking" ELSE "eoa"
    BY <1>1 DEF Ask, TypeOK
  <2> QED
    BY <2>1 DEF Ask, AskAlone, SeenBy
<1>3. AskAlone(t, SeenBy(t)) \in StepsAlone(t, SeenBy(t))
  BY DEF Ask, StepsAlone, SeenBy
<1>4. \A u \in Train \ {t} : SeenBy(u)' = SeenBy(u)
  BY <1>1 DEF Ask, SeenBy, TypeOK
<1>5. Seen'
  BY <1>2, <1>3, <1>4, SeenStep
<1>6. Shaped'
  BY <1>1 DEF Ask, TypeOK, Shaped
<1>7. Accounted'
  BY <1>1 DEF Ask, Accounted
<1> QED
  BY <1>5, <1>6, <1>7, IInvFromSeen, PTL

\* A lock: no bit of the mask is set, so no train holds one of its resources.
LEMMA LockStep ==
    ASSUME IInv, NEW t \in Train, LockRessources(t)
    PROVE  IInv'
<1>1. TypeOK /\ Accounted
  BY DEF IInv
<1>2. SeenBy(t)' = LockAlone(t, SeenBy(t))
  <2>1. pc'[t] = "switching" /\ held'[t] = held[t] \cup RequestMask(t)
    BY <1>1 DEF LockRessources, TypeOK
  <2> QED
    BY <2>1 DEF LockRessources, LockAlone, SeenBy, RequestMask
<1>3. \A u \in Train : held[u] \cap RequestMask(t) = {}
  BY <1>1 DEF LockRessources, available, Accounted
<1>4. LockAlone(t, SeenBy(t)) \in StepsAlone(t, SeenBy(t))
  BY <1>3 DEF LockRessources, StepsAlone, SeenBy, RequestMask
<1>5. \A u \in Train \ {t} : SeenBy(u)' = SeenBy(u)
  BY <1>1 DEF LockRessources, SeenBy, TypeOK
<1>6. Seen'
  BY <1>2, <1>4, <1>5, SeenStep
<1>7. Shaped'
  <2>1. \A u \in Train : Len(Commands(u, next_bal_index_req[u])) \in Nat
    BY <1>1, CommandsFacts DEF TypeOK
  <2>2. /\ held' = [held EXCEPT ![t] = @ \cup RequestMask(t)]
        /\ pc' = [pc EXCEPT ![t] = "switching"]
        /\ cmd' = [cmd EXCEPT ![t] = 0]
    BY DEF LockRessources
  <2>3. /\ held' = [u \in Train |-> held'[u]]
        /\ pc' = [u \in Train |-> pc'[u]]
    BY <1>1, <2>2 DEF TypeOK
  <2>4. /\ cmd' \in [Train -> Nat]
        /\ \A u \in Train : cmd'[u] <= Len(Commands(u, next_bal_index_req[u]))
    BY <1>1, <2>1, <2>2 DEF TypeOK
  <2> QED
    BY <1>1, <2>3, <2>4 DEF LockRessources, TypeOK, Shaped
<1>8. Accounted'
  <2>1. /\ resources' = resources \cup RequestMask(t)
        /\ held' = [held EXCEPT ![t] = @ \cup RequestMask(t)]
    BY DEF LockRessources
  <2> QED
    BY <1>1, <1>3, <2>1 DEF Accounted, TypeOK
<1> QED
  BY <1>6, <1>7, <1>8, IInvFromSeen, PTL

LEMMA SetSwitchStep ==
    ASSUME IInv, NEW t \in Train, SetSwitch(t)
    PROVE  IInv'
<1> DEFINE list == Commands(t, next_bal_index_req[t])
           c == list[cmd[t] + 1]
<1>1. TypeOK /\ Accounted
  BY DEF IInv
<1>2. \A u \in Train : SeenBy(u)' = SeenBy(u)
  BY <1>1 DEF SetSwitch, SeenBy, TypeOK
<1>3. Seen'
  BY <1>2 DEF IInv, Seen
<1>4. list \in Seq([name : STRING, dir : {0, 1}]) /\ Len(list) \in Nat
  BY <1>1, CommandsFacts DEF TypeOK
<1>5. cmd[t] + 1 \in 1 .. Len(list)
  BY <1>1, <1>4 DEF SetSwitch, TypeOK
<1>6. c.dir \in {0, 1}
  <2>1. c \in [name : STRING, dir : {0, 1}]
    BY <1>4, <1>5, ElementOfSeq
  <2> HIDE DEF c
  <2> QED
    BY <2>1
<1>7. aig' \in [Switches -> {0, 1}]
  BY <1>1, <1>6 DEF SetSwitch, TypeOK
<1>8. /\ cmd' \in [Train -> Nat]
      /\ \A u \in Train : cmd'[u] <= Len(Commands(u, next_bal_index_req[u]))
  <2>1. cmd' = [cmd EXCEPT ![t] = @ + 1]
    BY DEF SetSwitch
  <2>2. cmd[t] + 1 \in Nat /\ cmd[t] + 1 <= Len(list)
    BY <1>5, <1>1 DEF TypeOK
  <2> QED
    BY <1>1, <2>1, <2>2 DEF TypeOK
<1>9. Shaped'
  BY <1>1, <1>7, <1>8 DEF SetSwitch, TypeOK, Shaped
<1>10. Accounted'
  BY <1>1 DEF SetSwitch, Accounted
<1> QED
  BY <1>3, <1>9, <1>10, IInvFromSeen, PTL

LEMMA EndSwitchesStep ==
    ASSUME IInv, NEW t \in Train, EndSwitches(t)
    PROVE  IInv'
<1>1. TypeOK /\ Accounted
  BY DEF IInv
<1>2. SeenBy(t)' = EndSwitchesAlone(t, SeenBy(t))
  <2>1. /\ pc'[t] = "eoa"
        /\ next_bal_index_req'[t] = NextIndex(t, next_bal_index_req[t])
    BY <1>1 DEF EndSwitches, TypeOK
  <2> QED
    BY <2>1 DEF EndSwitches, EndSwitchesAlone, SeenBy
<1>3. EndSwitchesAlone(t, SeenBy(t)) \in StepsAlone(t, SeenBy(t))
  BY DEF EndSwitches, StepsAlone, SeenBy
<1>4. \A u \in Train \ {t} : SeenBy(u)' = SeenBy(u)
  BY <1>1 DEF EndSwitches, SeenBy, TypeOK
<1>5. Seen'
  BY <1>2, <1>3, <1>4, SeenStep
<1>6. Shaped'
  <2>1. next_bal_index_req'[t] \in Nat /\ next_bal_index_req'[t] < L_res_size[t]
    <3>1. SeenBy(t)' \in AloneState(t)
      BY <1>5, AloneAssumption DEF Seen
    <3>2. next_bal_index_req'[t] \in 0 .. L_res_size[t] - 1
      BY <3>1 DEF SeenBy, AloneState
    <3> QED
      BY <3>2, TableAssumption
  <2>2. Len(Commands(t, next_bal_index_req'[t])) \in Nat
    BY <2>1, CommandsFacts
  <2>3. /\ next_bal_index_req' = [next_bal_index_req EXCEPT ![t] = NextIndex(t, @)]
        /\ pc' = [pc EXCEPT ![t] = "eoa"]
        /\ cmd' = [cmd EXCEPT ![t] = 0]
    BY DEF EndSwitches
  <2>4. \A u \in Train : cmd'[u] <= Len(Commands(u, next_bal_index_req'[u]))
    BY <1>1, <2>2, <2>3 DEF TypeOK
  <2>5. cmd' \in [Train -> Nat]
    BY <1>1, <2>3 DEF TypeOK
  <2>6. /\ next_bal_index_req' = [u \in Train |-> next_bal_index_req'[u]]
        /\ pc' = [u \in Train |-> pc'[u]]
    BY <1>1, <2>3 DEF TypeOK
  <2> QED
    BY <1>1, <2>4, <2>5, <2>6 DEF EndSwitches, TypeOK, Shaped
<1>7. Accounted'
  BY <1>1 DEF EndSwitches, Accounted
<1> QED
  BY <1>5, <1>6, <1>7, IInvFromSeen, PTL

\* An authority the train could get alone, however it was computed.
LEMMA AuthorityStep ==
    ASSUME IInv, NEW t \in Train, pc[t] = "eoa",
           NEW e \in EoaRange(t, pos_trains[t], RequestBalise(t)),
           eoa' = [eoa EXCEPT ![t] = e],
           pc' = [pc EXCEPT ![t] = "idle"],
           UNCHANGED << resources, pos_trains, next_bal_index_req, next_bal_index_lib,
                        cmd, aig, held >>
    PROVE  IInv'
<1>1. TypeOK /\ Accounted
  BY DEF IInv
<1>2. SeenBy(t)' = NextEoaAlone(t, SeenBy(t), e)
  <2>1. pc'[t] = "idle" /\ eoa'[t] = e
    BY <1>1 DEF TypeOK
  <2> QED
    BY <2>1 DEF NextEoaAlone, SeenBy
<1>3. NextEoaAlone(t, SeenBy(t), e) \in StepsAlone(t, SeenBy(t))
  <2>1. SeenBy(t).pc = "eoa" /\ SeenBy(t).pos = pos_trains[t]
        /\ L_res_req[t][SeenBy(t).req + 1] = RequestBalise(t)
    BY DEF SeenBy, RequestBalise
  <2> QED
    BY <2>1 DEF StepsAlone
<1>4. \A u \in Train \ {t} : SeenBy(u)' = SeenBy(u)
  BY <1>1 DEF SeenBy, TypeOK
<1>5. Seen'
  BY <1>2, <1>3, <1>4, SeenStep
<1>6. Shaped'
  BY <1>1 DEF TypeOK, Shaped
<1>7. Accounted'
  BY <1>1 DEF Accounted
<1> QED
  BY <1>5, <1>6, <1>7, IInvFromSeen, PTL

\* The balise of the next request is on the loop.
LEMMA RequestOnLoop ==
    ASSUME TypeOK, NEW t \in Train
    PROVE  RequestBalise(t) \in Balise(t)
<1>1. next_bal_index_req[t] + 1 \in 1 .. L_res_size[t]
  BY TableAssumption DEF TypeOK
<1> QED
  BY <1>1, TableAssumption DEF RequestBalise

\* The answers of next_eoa are in that range.
LEMMA AnswersFacts ==
    ASSUME TypeOK, NEW t \in Train
    PROVE  Answers[t][pos_trains[t]][RequestBalise(t)]
             = EoaRange(t, pos_trains[t], RequestBalise(t)) \cap Objectifs(t, RequestBalise(t))
<1>1. pos_trains[t] \in Position(t) /\ RequestBalise(t) \in Balise(t)
  BY RequestOnLoop DEF TypeOK
<1> QED
  BY <1>1 DEF Answers

LEMMA NextEoaStep ==
    ASSUME IInv, NEW t \in Train, NextEoa(t)
    PROVE  IInv'
<1>1. PICK e \in Answers[t][pos_trains[t]][RequestBalise(t)] : eoa' = [eoa EXCEPT ![t] = e]
  BY DEF NextEoa
<1>2. e \in EoaRange(t, pos_trains[t], RequestBalise(t))
  BY <1>1, AnswersFacts DEF IInv
<1> QED
  BY <1>1, <1>2, AuthorityStep DEF NextEoa

LEMMA StutterIInv == IInv /\ UNCHANGED vars => IInv'
<1> SUFFICES ASSUME IInv, UNCHANGED vars
             PROVE  IInv'
  OBVIOUS
<1>1. Shaped'
  BY DEF IInv, TypeOK, Shaped, vars
<1>2. Seen'
  BY DEF IInv, Seen, SeenBy, vars
<1>3. Accounted'
  BY DEF IInv, Accounted, vars
<1> QED
  BY <1>1, <1>2, <1>3, IInvFromSeen, PTL

LEMMA StepIInv == IInv /\ [Next]_vars => IInv'
<1> SUFFICES ASSUME IInv, [Next]_vars
             PROVE  IInv'
  OBVIOUS
<1>1. Active \subseteq Train
  BY BoundsAssumption
<1>2. ASSUME NEW t \in Active, NEW p \in Reports(t), Report(t, p)
      PROVE  IInv'
  BY <1>1, <1>2, ReportStep DEF Reports
<1>3. ASSUME NEW t \in Active, Ask(t)
      PROVE  IInv'
  BY <1>1, <1>3, AskStep
<1>4. ASSUME NEW t \in Active, Handler(t)
      PROVE  IInv'
  BY <1>1, <1>4, LockStep, SetSwitchStep, EndSwitchesStep, NextEoaStep DEF Handler
<1>5. CASE UNCHANGED vars
  BY <1>5, StutterIInv
<1> QED
  BY <1>2, <1>3, <1>4, <1>5 DEF Next

-----------------------------------------------------------------------------
(* The theorems                                                            *)

\* Whatever the interleaving of the reports and of the requests of the three
\* trains, each is in a state it could be in alone on the track and the
\* resource byte is exactly what they hold.
THEOREM AlonePreserved == Spec => []IInv
BY InitIInv, StepIInv, PTL DEF Spec

\* Type correctness: in particular, the indices next_bal_index_req and
\* next_bal_index_lib stay inside the tables of const_chemins.c.
THEOREM TypeCorrect == Spec => []TypeOK
<1>1. IInv => TypeOK
  BY DEF IInv
<1> QED
  BY <1>1, AlonePreserved, PTL

\* lock_ressources and free_resources share one byte and free_resources clears
\* bits without looking who set them: a bit that is set still belongs to one
\* train, and to one train only.
THEOREM ResourcesAccounted == Spec => []Accounted
<1>1. IInv => Accounted
  BY DEF IInv
<1> QED
  BY <1>1, AlonePreserved, PTL

\* Where a train may be is on its loop; a train that moves on may be in fewer
\* places, and no more where it was.
LEMMA MayBeAtFacts ==
    ASSUME NEW t \in Train, NEW o \in Position(t), NEW e \in Position(t) \cup { NoEoa },
           NEW p \in MayBeAt(t, o, e)
    PROVE  /\ p \in Position(t)
           /\ MayBeAt(t, p, e) \subseteq MayBeAt(t, o, e)
           /\ p # o => o \notin MayBeAt(t, p, e)
           /\ p = e => MayBeAt(t, p, e) = { p }
<1>1. CASE e = NoEoa
  BY <1>1 DEF MayBeAt
<1>2. CASE e # NoEoa
  <2>1. e \in Position(t) /\ p \in Between[t][o][e]
    BY <1>2 DEF MayBeAt
  <2>2. p \in Position(t)
    BY <2>1, BetweenFacts
  <2>3. Between[t][p][e] \subseteq Between[t][o][e]
    BY <2>1, BetweenNarrows
  <2>4. p # o => o \notin Between[t][p][e]
    BY <2>1, BetweenLeaves
  <2>5. p = e => Between[t][p][e] = { p }
    BY <2>2, BetweenItself
  <2> QED
    BY <1>2, <2>2, <2>3, <2>4, <2>5 DEF MayBeAt
<1> QED
  BY <1>1, <1>2

\* The table of resources is consulted inside its domain.
LEMMA NeededFacts ==
    ASSUME TypeOK, NEW t \in Train
    PROVE  /\ inside[t] = { r \in Resource :
                    MayBeAt(t, pos_trains[t], eoa[t]) \cap Zone[t][r] # {} }
           /\ \A r : MayEnter(t, r) <=> r \in inside[t]
<1>1. << t, pos_trains[t], eoa[t] >> \in Course
  BY DEF TypeOK, Course
<1> QED
  BY <1>1 DEF inside, MayEnter, Needed

\* A train that may be where a resource is needed has obtained it.
InsideIsHeld == \A t \in Train : inside[t] \subseteq held[t]

LEMMA InsideHeld == IInv => InsideIsHeld
<1> SUFFICES ASSUME IInv, NEW t \in Train, NEW r \in inside[t]
             PROVE  r \in held[t]
  BY DEF InsideIsHeld
<1>1. TypeOK
  BY DEF IInv
<1>2. r \in Resource /\ MayBeAt(t, pos_trains[t], eoa[t]) \cap Zone[t][r] # {}
  BY <1>1, NeededFacts
<1>3. SafeAlone(t, SeenBy(t))
  BY SeenTyped
<1> QED
  BY <1>2, <1>3 DEF SafeAlone, SeenBy

LEMMA HoldsWhatItEnters == IInv => EntersWhatItHolds
<1> SUFFICES ASSUME IInv, NEW t \in Active, NEW r \in Resource, MayEnter(t, r)
             PROVE  r \in held[t]
  BY DEF EntersWhatItHolds
<1>1. t \in Train /\ TypeOK
  BY BoundsAssumption DEF IInv
<1> QED
  BY <1>1, NeededFacts, InsideHeld DEF InsideIsHeld

\* A train is never authorised by handle_request where it has not obtained the
\* resource from ask_resources: each of its views is one of Alone.
THEOREM TrainsHoldTheirZones == Spec => []EntersWhatItHolds
BY HoldsWhatItEnters, AlonePreserved, PTL

LEMMA HeldApart == IInv => ZonesExclusive
<1> SUFFICES ASSUME IInv, NEW t \in Active, NEW u \in Active, t < u,
                    NEW r \in Resource, MayEnter(t, r), MayEnter(u, r)
             PROVE  FALSE
  BY DEF ZonesExclusive
<1>1. r \in held[t] /\ r \in held[u]
  BY HoldsWhatItEnters DEF EntersWhatItHolds
<1>2. t \in Train /\ u \in Train /\ t # u
  BY BoundsAssumption DEF Train
<1> QED
  BY <1>1, <1>2 DEF IInv, Accounted

\* Two trains are never authorised inside the part of the track protected by
\* one resource: the resources are all that keeps the loops apart where they
\* cross, merge or run in opposite directions.
THEOREM ZonesAreExclusive == Spec => []ZonesExclusive
BY HeldApart, AlonePreserved, PTL

-----------------------------------------------------------------------------
(* The interlocking shares out the track                                   *)

\* What a step of one train leaves as it is: the other trains.
LEMMA OthersUntouched ==
    ASSUME TypeOK, TypeOK', NEW t \in Train,
           \A u \in Train \ {t} : SeenBy(u)' = SeenBy(u)
    PROVE  \A u \in Train \ {t} : held'[u] = held[u] /\ inside'[u] = inside[u]
<1> SUFFICES ASSUME NEW u \in Train \ {t}
             PROVE  held'[u] = held[u] /\ inside'[u] = inside[u]
  OBVIOUS
<1>1. pos_trains'[u] = pos_trains[u] /\ eoa'[u] = eoa[u] /\ held'[u] = held[u]
  BY DEF SeenBy
<1>2. inside'[u] = inside[u]
  BY <1>1 DEF inside
<1> QED
  BY <1>1, <1>2

LEMMA InitShares == Init => Sharing!Init
<1> SUFFICES ASSUME Init
             PROVE  inside = [t \in Train |-> {}]
  BY DEF Init, Sharing!Init
<1>1. IInv
  BY InitIInv
<1>2. \A t \in Train : inside[t] = {}
  BY <1>1, InsideHeld DEF Init, InsideIsHeld
<1> QED
  BY <1>2 DEF inside

\* A report only narrows where the train may be, and what it gives back the
\* train did not need any more.
LEMMA ReportLeaves ==
    ASSUME IInv, IInv', NEW t \in Train, NEW p \in MayBeAt(t, pos_trains[t], eoa[t]),
           Report(t, p)
    PROVE  Sharing!Leave(t)
<1>1. TypeOK /\ TypeOK'
  BY DEF IInv
<1>2. held'[t] \subseteq held[t]
  BY <1>1 DEF Report, TypeOK
<1>3. pos_trains'[t] = p /\ eoa'[t] = eoa[t]
  BY <1>1 DEF Report, TypeOK
<1>4. MayBeAt(t, p, eoa[t]) \subseteq MayBeAt(t, pos_trains[t], eoa[t])
  BY <1>1, MayBeAtFacts DEF TypeOK
<1>5. inside'[t] \subseteq inside[t]
  <2>1. inside[t] = { r \in Resource : MayBeAt(t, pos_trains[t], eoa[t]) \cap Zone[t][r] # {} }
    BY <1>1, NeededFacts
  <2>2. inside'[t] = { r \in Resource : MayBeAt(t, p, eoa[t]) \cap Zone[t][r] # {} }
    <3>1. << t, pos_trains'[t], eoa'[t] >> \in Course
      BY <1>1 DEF TypeOK, Course
    <3> QED
      BY <1>3, <3>1 DEF inside, Needed
  <2> QED
    BY <1>4, <2>1, <2>2
<1>6. inside'[t] \subseteq held'[t]
  <2>1. InsideIsHeld'
    BY InsideHeld, PTL
  <2> QED
    BY <2>1 DEF InsideIsHeld
<1> QED
  BY <1>2, <1>5, <1>6 DEF Sharing!Leave

LEMMA ReportShares ==
    ASSUME IInv, IInv', NEW t \in Train, NEW p \in MayBeAt(t, pos_trains[t], eoa[t]),
           Report(t, p)
    PROVE  Sharing!Next
<1>1. TypeOK /\ TypeOK'
  BY DEF IInv
<1>2. \A u \in Train \ {t} : SeenBy(u)' = SeenBy(u)
  BY <1>1 DEF Report, SeenBy, TypeOK
<1> QED
  BY <1>1, <1>2, ReportLeaves, OthersUntouched DEF Sharing!Next, TypeOK

\* A poll of lock_ressources takes a mask of which no bit is set.
LEMMA LockShares ==
    ASSUME IInv, IInv', NEW t \in Train, LockRessources(t)
    PROVE  Sharing!Next
<1>1. TypeOK /\ TypeOK' /\ Accounted
  BY DEF IInv
<1>2. held'[t] = held[t] \cup RequestMask(t)
  BY <1>1 DEF LockRessources, TypeOK
<1>3. RequestMask(t) \cap UNION { held[u] : u \in Train } = {}
  BY <1>1 DEF LockRessources, available, Accounted
<1>4. held'[t] \subseteq Resource
  BY DEF IInv, TypeOK
<1>5. inside'[t] = inside[t]
  BY DEF LockRessources, inside
<1>6. Sharing!Obtain(t)
  BY <1>2, <1>3, <1>4, <1>5 DEF Sharing!Obtain, Sharing!Free
<1>7. \A u \in Train \ {t} : SeenBy(u)' = SeenBy(u)
  BY <1>1 DEF LockRessources, SeenBy, TypeOK
<1> QED
  BY <1>1, <1>6, <1>7, OthersUntouched DEF Sharing!Next, TypeOK

\* The authority a train is given only leads where it has the resources.
LEMMA EoaShares ==
    ASSUME IInv, IInv', NEW t \in Train, NEW e,
           eoa' = [eoa EXCEPT ![t] = e], UNCHANGED << pos_trains, held >>
    PROVE  Sharing!Next
<1>1. TypeOK /\ TypeOK'
  BY DEF IInv
<1>2. InsideIsHeld'
  BY InsideHeld, PTL
<1>3. Sharing!Enter(t)
  BY <1>2 DEF Sharing!Enter, InsideIsHeld
<1>4. \A u \in Train \ {t} : held'[u] = held[u] /\ inside'[u] = inside[u]
  BY <1>1 DEF TypeOK, inside
<1> QED
  BY <1>1, <1>3, <1>4 DEF Sharing!Next, TypeOK

LEMMA OthersShareNothing ==
    ASSUME NEW t, Ask(t) \/ SetSwitch(t) \/ EndSwitches(t)
    PROVE  UNCHANGED << held, inside >>
BY DEF Ask, SetSwitch, EndSwitches, inside

LEMMA StepShares ==
    ASSUME IInv, IInv', [Next]_vars
    PROVE  [Sharing!Next]_<< held, inside >>
<1>1. Active \subseteq Train
  BY BoundsAssumption
<1>2. ASSUME NEW t \in Active, NEW p \in Reports(t), Report(t, p)
      PROVE  Sharing!Next
  BY <1>1, <1>2, ReportShares DEF Reports
<1>3. ASSUME NEW t \in Active, LockRessources(t)
      PROVE  Sharing!Next
  BY <1>1, <1>3, LockShares
<1>4. ASSUME NEW t \in Active, NextEoa(t)
      PROVE  Sharing!Next
  BY <1>1, <1>4, EoaShares DEF NextEoa
<1>5. ASSUME NEW t \in Active, Ask(t) \/ SetSwitch(t) \/ EndSwitches(t)
      PROVE  UNCHANGED << held, inside >>
  BY <1>5, OthersShareNothing
<1>6. CASE UNCHANGED vars
  BY <1>6 DEF vars, inside
<1> QED
  BY <1>2, <1>3, <1>4, <1>5, <1>6 DEF Next, Handler

\* The RBC, with its hand-written tables, its indices and its unlocked waits,
\* implements the sharing of the track: a part is obtained free, entered when it
\* is held and given back when it has been left.
THEOREM ImplementsSharing == Spec => SharesTrack
<1>1. IInv /\ IInv' /\ [Next]_vars => [Sharing!Next]_<< held, inside >>
  BY StepShares
<1> QED
  BY <1>1, InitShares, AlonePreserved, PTL DEF Spec, SharesTrack, Sharing!Spec
-----------------------------------------------------------------------------
(* The switches                                                            *)

\* Command i of request k of train t stands.
Stands(t, k, i) == aig[Commands(t, k)[i].name] = Commands(t, k)[i].dir

\* The two parts of SwitchesStand for one train.
Locked(t, k) ==
    /\ L_mask_req[t][k + 1] # {}
    /\ L_mask_req[t][k + 1] \subseteq held[t]
    /\ ~(pc[t] = "switching" /\ k = next_bal_index_req[t])

LockedStand(t) ==
    \A k \in 0 .. L_res_size[t] - 1 :
        Locked(t, k) => \A i \in 1 .. Len(Commands(t, k)) : Stands(t, k, i)

SentStand(t) ==
    pc[t] = "switching" => \A i \in 1 .. cmd[t] : Stands(t, next_bal_index_req[t], i)

WaitsOutside(t) ==
    pc[t] = "switching" => \A r \in RequestMask(t) : ~MayEnter(t, r)

StandIs(t) == LockedStand(t) /\ SentStand(t) /\ WaitsOutside(t)

AllStand == \A t \in Train : StandIs(t)

LEMMA StandsIs == SwitchesStand <=> AllStand
BY DEF SwitchesStand, AllStand, StandIs, LockedStand, SentStand, WaitsOutside, Locked, Stands

\* What the proofs below look at of a train but the switches.
LEMMA StandsSame ==
    ASSUME NEW t \in Train, StandIs(t), aig' = aig,
           pos_trains'[t] = pos_trains[t], eoa'[t] = eoa[t], held'[t] = held[t],
           pc'[t] = pc[t], cmd'[t] = cmd[t], next_bal_index_req'[t] = next_bal_index_req[t]
    PROVE  StandIs(t)'
<1>1. LockedStand(t)'
  BY DEF StandIs, LockedStand, Locked, Stands
<1>2. SentStand(t)'
  BY DEF StandIs, SentStand, Stands
<1>3. WaitsOutside(t)'
  BY DEF StandIs, WaitsOutside, RequestMask, MayEnter
<1> QED
  BY <1>1, <1>2, <1>3 DEF StandIs

\* Every command moves one of the switches.
LEMMA CommandNamesASwitch ==
    ASSUME NEW t \in Train, NEW k \in 0 .. L_res_size[t] - 1,
           NEW i \in 1 .. Len(Commands(t, k))
    PROVE  Commands(t, k)[i].name \in Switches
BY DEF Switches

LEMMA CommandsAgree ==
    ASSUME NEW t \in Train, NEW u \in Train,
           NEW k \in 0 .. L_res_size[t] - 1, NEW j \in 0 .. L_res_size[u] - 1,
           t = u \/ L_mask_req[t][k + 1] \cap L_mask_req[u][j + 1] = {}
    PROVE  \A h \in 1 .. Len(Commands(t, k)), i \in 1 .. Len(Commands(u, j)) :
              Commands(t, k)[h].name = Commands(u, j)[i].name
                => Commands(t, k)[h].dir = Commands(u, j)[i].dir
<1> DEFINE all == all_command_aig
           a == k + 1
           b == j + 1
<1>1. a \in 1 .. L_res_size[t] /\ b \in 1 .. L_res_size[u]
  BY TableAssumption
<1>2. Compatible(all)
  BY SwitchAssumption
<1> HIDE DEF all
<1>3. t = u \/ L_mask_req[t][a] \cap L_mask_req[u][b] = {}
  OBVIOUS
<1> HIDE DEF a, b
<1>4. \A x \in 1 .. L_res_size[t], y \in 1 .. L_res_size[u] :
        t = u \/ L_mask_req[t][x] \cap L_mask_req[u][y] = {} =>
          \A h \in 1 .. Len(all[t][x]), i \in 1 .. Len(all[u][y]) :
             all[t][x][h].name = all[u][y][i].name => all[t][x][h].dir = all[u][y][i].dir
  BY <1>2 DEF Compatible
<1>5. \A h \in 1 .. Len(all[t][a]), i \in 1 .. Len(all[u][b]) :
         all[t][a][h].name = all[u][b][i].name => all[t][a][h].dir = all[u][b][i].dir
  BY <1>1, <1>3, <1>4
<1> QED
  BY <1>5 DEF Commands, all, a, b

\* A report: the train holds no more than it did, and it may be in fewer places.
LEMMA ReportStands ==
    ASSUME IInv, IInv', AllStand, NEW t \in Train, NEW p \in Reports(t), Report(t, p)
    PROVE  AllStand'
<1>1. TypeOK /\ TypeOK'
  BY DEF IInv
<1>2. /\ aig' = aig /\ eoa' = eoa /\ pc' = pc /\ cmd' = cmd
      /\ next_bal_index_req' = next_bal_index_req
      /\ \A u \in Train \ {t} : pos_trains'[u] = pos_trains[u] /\ held'[u] = held[u]
  BY <1>1 DEF Report, TypeOK
<1>3. \A u \in Train \ {t} : StandIs(u)'
  BY <1>2, StandsSame DEF AllStand
<1>4. StandIs(t)'
  <2>1. StandIs(t)
    BY DEF AllStand
  <2>2. held'[t] \subseteq held[t] /\ inside'[t] \subseteq inside[t]
    BY ReportLeaves DEF Sharing!Leave, Reports
  <2>3. LockedStand(t)'
    BY <1>2, <2>1, <2>2 DEF StandIs, LockedStand, Locked, Stands
  <2>4. SentStand(t)'
    BY <1>2, <2>1 DEF StandIs, SentStand, Stands
  <2>5. WaitsOutside(t)'
    <3>1. \A r : MayEnter(t, r) <=> r \in inside[t]
      BY DEF MayEnter, inside
    <3>2. \A r : MayEnter(t, r)' <=> r \in inside'[t]
      BY DEF MayEnter, inside
    <3>3. RequestMask(t)' = RequestMask(t)
      BY <1>2 DEF RequestMask
    <3> QED
      BY <1>2, <2>1, <2>2, <3>1, <3>2, <3>3 DEF StandIs, WaitsOutside
  <2> QED
    BY <2>3, <2>4, <2>5 DEF StandIs
<1> QED
  BY <1>3, <1>4 DEF AllStand

LEMMA AskStands ==
    ASSUME IInv, AllStand, NEW t \in Train, Ask(t)
    PROVE  AllStand'
<1>1. TypeOK
  BY DEF IInv
<1>2. /\ aig' = aig /\ eoa' = eoa /\ cmd' = cmd /\ pos_trains' = pos_trains
      /\ next_bal_index_req' = next_bal_index_req /\ held' = held
      /\ \A u \in Train \ {t} : pc'[u] = pc[u]
      /\ pc[t] # "switching" /\ pc'[t] # "switching"
  BY <1>1 DEF Ask, TypeOK
<1>3. \A u \in Train \ {t} : StandIs(u)'
  BY <1>2, StandsSame DEF AllStand
<1>4. StandIs(t)'
  BY <1>2 DEF AllStand, StandIs, LockedStand, Locked, SentStand, WaitsOutside, Stands
<1> QED
  BY <1>3, <1>4 DEF AllStand

\* A lock: the resources were free, so the train was not going where they are
\* needed, and no other request becomes complete by it.
LEMMA LockStands ==
    ASSUME IInv, IInv', AllStand, NEW t \in Train, LockRessources(t)
    PROVE  AllStand'
<1> DEFINE mask(k) == L_mask_req[t][k + 1]
           setting == next_bal_index_req[t]
<1>1. TypeOK /\ TypeOK' /\ Accounted /\ OrderlyAlone(t, SeenBy(t))
  BY AloneAssumption DEF IInv
<1>2. /\ aig' = aig /\ eoa' = eoa /\ pos_trains' = pos_trains
      /\ next_bal_index_req' = next_bal_index_req
      /\ \A u \in Train \ {t} : pc'[u] = pc[u] /\ held'[u] = held[u] /\ cmd'[u] = cmd[u]
      /\ pc[t] = "locking" /\ cmd'[t] = 0 /\ held'[t] = held[t] \cup RequestMask(t)
  BY <1>1 DEF LockRessources, TypeOK
<1>3. \A u \in Train \ {t} : StandIs(u)'
  BY <1>2, StandsSame DEF AllStand
<1>4. held[t] \cap RequestMask(t) = {}
  BY <1>1 DEF LockRessources, available, Accounted
<1>5. LockedStand(t)'
  <2> SUFFICES ASSUME NEW k \in 0 .. L_res_size[t] - 1, Locked(t, k)',
                      NEW i \in 1 .. Len(Commands(t, k))
               PROVE  Stands(t, k, i)
    BY <1>2 DEF LockedStand, Stands
  <2>1. pc'[t] = "switching"
    BY <1>1 DEF LockRessources, TypeOK
  <2>2. k # setting /\ mask(k) # {} /\ mask(k) \subseteq held[t] \cup mask(setting)
    BY <1>2, <2>1 DEF Locked, RequestMask
  <2>3. mask(k) \subseteq held[t]
    <3>1. \A j \in 1 .. L_res_size[t] \ { setting + 1 } :
            L_mask_req[t][j] \subseteq held[t] \cup mask(setting) => L_mask_req[t][j] \subseteq held[t]
      BY <1>1, <1>2, <1>4 DEF OrderlyAlone, SeenBy, RequestMask
    <3>2. k + 1 \in 1 .. L_res_size[t] \ { setting + 1 }
      BY <1>1, <2>2, TableAssumption DEF TypeOK
    <3> QED
      BY <2>2, <3>1, <3>2
  <2> QED
    BY <1>2, <2>2, <2>3 DEF AllStand, StandIs, LockedStand, Locked
<1>6. SentStand(t)'
  BY <1>2 DEF SentStand
<1>7. WaitsOutside(t)'
  <2>1. \A r : MayEnter(t, r) <=> r \in inside[t]
    BY <1>1, NeededFacts
  <2>2. inside[t] \subseteq held[t]
    BY InsideHeld DEF InsideIsHeld
  <2>3. \A r : MayEnter(t, r)' <=> MayEnter(t, r)
    BY <1>2 DEF MayEnter
  <2>4. RequestMask(t)' = RequestMask(t)
    BY <1>2 DEF RequestMask
  <2> QED
    BY <1>4, <2>1, <2>2, <2>3, <2>4 DEF WaitsOutside
<1>8. StandIs(t)'
  BY <1>5, <1>6, <1>7 DEF StandIs
<1> QED
  BY <1>3, <1>8 DEF AllStand

\* A command: the train holds the resources of its request, so no request that
\* stands, or is being set, wants the switch in the other direction.
LEMMA SetSwitchStands ==
    ASSUME IInv, IInv', AllStand, NEW t \in Train, SetSwitch(t)
    PROVE  AllStand'
<1> DEFINE k0 == next_bal_index_req[t]
           i0 == cmd[t] + 1
           c == Commands(t, k0)[i0]
<1>1. TypeOK /\ TypeOK' /\ Accounted /\ (\A u \in Train : OrderlyAlone(u, SeenBy(u)))
  BY AloneAssumption DEF IInv
<1>2. \A u \in Train : L_res_size[u] \in Nat \ {0} /\ next_bal_index_req[u] \in 0 .. L_res_size[u] - 1
  BY <1>1, TableAssumption DEF TypeOK
<1>3. i0 \in 1 .. Len(Commands(t, k0)) /\ cmd[t] \in Nat
  BY <1>1, <1>2, CommandsFacts DEF SetSwitch, TypeOK
<1>4. \A u \in Train : pc[u] = "switching" => RequestMask(u) \subseteq held[u]
  BY <1>1 DEF OrderlyAlone, SeenBy, RequestMask
<1>5. pc[t] = "switching" /\ pc' = pc /\ held' = held /\ pos_trains' = pos_trains /\ eoa' = eoa
      /\ next_bal_index_req' = next_bal_index_req /\ aig' = [aig EXCEPT ![c.name] = c.dir]
      /\ (\A u \in Train \ {t} : cmd'[u] = cmd[u]) /\ cmd'[t] = cmd[t] + 1
  BY <1>1 DEF SetSwitch, TypeOK
\* No request of a train that holds its resources is disturbed.
<1>6. ASSUME NEW u \in Train, NEW k \in 0 .. L_res_size[u] - 1, L_mask_req[u][k + 1] \subseteq held[u],
             NEW i \in 1 .. Len(Commands(u, k)), Stands(u, k, i) \/ (u = t /\ k = k0 /\ i = i0)
      PROVE  aig'[Commands(u, k)[i].name] = Commands(u, k)[i].dir
  <2> DEFINE d == Commands(u, k)[i]
  <2>1. t = u \/ L_mask_req[t][k0 + 1] \cap L_mask_req[u][k + 1] = {}
    <3>1. L_mask_req[t][k0 + 1] \subseteq held[t]
      BY <1>4, <1>5 DEF RequestMask
    <3> QED
      BY <1>1, <1>6, <3>1 DEF Accounted
  <2>2. c.name = d.name => c.dir = d.dir
    <3>1. k0 \in 0 .. L_res_size[t] - 1
      BY <1>2
    <3>2. i0 \in 1 .. Len(Commands(t, k0))
      BY <1>3
    <3>3. \A h \in 1 .. Len(Commands(t, k0)), j \in 1 .. Len(Commands(u, k)) :
              Commands(t, k0)[h].name = Commands(u, k)[j].name
                => Commands(t, k0)[h].dir = Commands(u, k)[j].dir
      <4> HIDE DEF k0
      <4> QED
        BY <2>1, <3>1, CommandsAgree
    <3> HIDE DEF k0, i0
    <3> QED
      BY <3>2, <3>3
  <2>3. d.name \in Switches
    BY CommandNamesASwitch
  <2>4. aig'[d.name] = IF d.name = c.name THEN c.dir ELSE aig[d.name]
    BY <1>1, <1>5, <2>3 DEF TypeOK
  <2> HIDE DEF c
  <2> QED
    BY <1>6, <2>2, <2>4 DEF Stands, c
<1>7. ASSUME NEW u \in Train
      PROVE  LockedStand(u)'
  <2> SUFFICES ASSUME NEW k \in 0 .. L_res_size[u] - 1, Locked(u, k)',
                      NEW i \in 1 .. Len(Commands(u, k))
               PROVE  Stands(u, k, i)'
    BY DEF LockedStand
  <2>1. Locked(u, k)
    BY <1>5 DEF Locked
  <2>2. Stands(u, k, i) /\ L_mask_req[u][k + 1] \subseteq held[u]
    BY <2>1 DEF Locked, AllStand, StandIs, LockedStand
  <2>3. aig'[Commands(u, k)[i].name] = Commands(u, k)[i].dir
    BY <1>6, <2>2
  <2> QED
    BY <2>3 DEF Stands
<1>8. ASSUME NEW u \in Train
      PROVE  SentStand(u)'
  <2> SUFFICES ASSUME pc'[u] = "switching", NEW i \in 1 .. cmd'[u]
               PROVE  Stands(u, next_bal_index_req[u], i)'
    BY <1>5 DEF SentStand, Stands
  <2>1. RequestMask(u) \subseteq held[u] /\ pc[u] = "switching"
    BY <1>4, <1>5
  <2>2. i \in 1 .. Len(Commands(u, next_bal_index_req[u]))
    BY <1>1, <1>2, <1>5, CommandsFacts DEF TypeOK
  <2>3. Stands(u, next_bal_index_req[u], i) \/ (u = t /\ i = i0)
    BY <1>1, <1>5, <2>1 DEF AllStand, StandIs, SentStand, TypeOK
  <2> DEFINE k == next_bal_index_req[u]
  <2>4. k \in 0 .. L_res_size[u] - 1 /\ L_mask_req[u][k + 1] \subseteq held[u]
    BY <1>2, <2>1 DEF RequestMask
  <2>5. Stands(u, k, i) \/ (u = t /\ k = k0 /\ i = i0)
    BY <2>3
  <2> HIDE DEF k
  <2>6. aig'[Commands(u, k)[i].name] = Commands(u, k)[i].dir
    <3>1. i \in 1 .. Len(Commands(u, k))
      BY <2>2 DEF k
    <3> HIDE DEF k0, i0
    <3> QED
      BY <1>6, <2>4, <2>5, <3>1, Zenon
  <2> QED
    BY <1>5, <2>6 DEF k, Stands
<1>9. ASSUME NEW u \in Train
      PROVE  WaitsOutside(u)'
  BY <1>5 DEF AllStand, StandIs, WaitsOutside, RequestMask, MayEnter
<1> QED
  BY <1>7, <1>8, <1>9 DEF AllStand, StandIs

\* The end of set_all_switch: without a failure of the CAN bus every command of
\* the list has been sent.
LEMMA EndSwitchesStands ==
    ASSUME CanMayFail = FALSE, IInv, AllStand, NEW t \in Train, EndSwitches(t)
    PROVE  AllStand'
<1> DEFINE k0 == next_bal_index_req[t]
<1>1. TypeOK
  BY DEF IInv
<1>2. /\ aig' = aig /\ eoa' = eoa /\ pos_trains' = pos_trains /\ held' = held
      /\ \A u \in Train \ {t} : /\ pc'[u] = pc[u] /\ cmd'[u] = cmd[u]
                                /\ next_bal_index_req'[u] = next_bal_index_req[u]
      /\ pc[t] = "switching" /\ pc'[t] = "eoa" /\ cmd[t] = Len(Commands(t, k0))
  BY <1>1 DEF EndSwitches, TypeOK
<1>3. \A u \in Train \ {t} : StandIs(u)'
  BY <1>2, StandsSame DEF AllStand
<1>4. LockedStand(t)'
  <2> SUFFICES ASSUME NEW k \in 0 .. L_res_size[t] - 1, Locked(t, k)',
                      NEW i \in 1 .. Len(Commands(t, k))
               PROVE  Stands(t, k, i)
    BY <1>2 DEF LockedStand, Stands
  <2>1. CASE k = k0
    BY <1>2, <2>1 DEF AllStand, StandIs, SentStand
  <2>2. CASE k # k0
    BY <1>2, <2>2 DEF AllStand, StandIs, LockedStand, Locked
  <2> QED
    BY <2>1, <2>2
<1>5. StandIs(t)'
  BY <1>2, <1>4 DEF StandIs, SentStand, WaitsOutside
<1> QED
  BY <1>3, <1>5 DEF AllStand

LEMMA NextEoaStands ==
    ASSUME IInv, AllStand, NEW t \in Train, NextEoa(t)
    PROVE  AllStand'
<1>1. TypeOK
  BY DEF IInv
<1>2. /\ aig' = aig /\ cmd' = cmd /\ pos_trains' = pos_trains
      /\ next_bal_index_req' = next_bal_index_req /\ held' = held
      /\ \A u \in Train \ {t} : pc'[u] = pc[u] /\ eoa'[u] = eoa[u]
      /\ pc[t] # "switching" /\ pc'[t] # "switching"
  BY <1>1 DEF NextEoa, TypeOK
<1>3. \A u \in Train \ {t} : StandIs(u)'
  BY <1>2, StandsSame DEF AllStand
<1>4. StandIs(t)'
  BY <1>2 DEF AllStand, StandIs, LockedStand, Locked, SentStand, WaitsOutside, Stands
<1> QED
  BY <1>3, <1>4 DEF AllStand

LEMMA InitStands == Init => AllStand
<1> SUFFICES ASSUME Init, NEW t \in Train
             PROVE  StandIs(t)
  BY DEF AllStand
<1>1. held[t] = {} /\ pc[t] = "idle"
  BY DEF Init
<1> QED
  BY <1>1 DEF StandIs, LockedStand, Locked, SentStand, WaitsOutside

LEMMA StepStands ==
    ASSUME CanMayFail = FALSE, IInv, IInv', AllStand, [Next]_vars
    PROVE  AllStand'
<1>1. Active \subseteq Train
  BY BoundsAssumption
<1>2. ASSUME NEW t \in Active, NEW p \in Reports(t), Report(t, p)
      PROVE  AllStand'
  BY <1>1, <1>2, ReportStands
<1>3. ASSUME NEW t \in Active, Ask(t)
      PROVE  AllStand'
  BY <1>1, <1>3, AskStands
<1>4. ASSUME NEW t \in Active, Handler(t)
      PROVE  AllStand'
  BY <1>1, <1>4, LockStands, SetSwitchStands, EndSwitchesStands, NextEoaStands DEF Handler
<1>5. CASE UNCHANGED vars
  BY <1>5, StandsSame DEF vars, AllStand
<1> QED
  BY <1>2, <1>3, <1>4, <1>5 DEF Next

\* As long as the CAN bus takes every command, a train that runs where its
\* request protects it runs on the switches that request has set: no handler of
\* another train moves them, although they are set one by one and each train
\* has a thread of its own.
THEOREM SwitchesStayLocked ==
    ASSUME CanMayFail = FALSE
    PROVE  Spec => []SwitchesLocked
<1>1. IInv /\ AllStand => SwitchesLocked
  <2> SUFFICES ASSUME IInv, AllStand, NEW t \in Active, NEW k \in 1 .. Len(L_res_req[t]), Runs(t, k),
                      NEW i \in 1 .. Len(Commands(t, k - 1))
               PROVE  Stands(t, k - 1, i)
    BY DEF SwitchesLocked, Stands
  <2>1. t \in Train /\ k - 1 \in 0 .. L_res_size[t] - 1
    BY BoundsAssumption, SwitchAssumption, TableAssumption
  <2>2. PICK r \in L_mask_req[t][k] : MayEnter(t, r)
    BY DEF Runs
  <2>3. (k - 1) + 1 = k
    BY <2>1
  <2>4. ~(pc[t] = "switching" /\ k - 1 = next_bal_index_req[t])
    BY <2>1, <2>2, <2>3 DEF AllStand, StandIs, WaitsOutside, RequestMask
  <2>5. Locked(t, k - 1)
    BY <2>2, <2>3, <2>4 DEF Locked, Runs
  <2> QED
    BY <2>1, <2>5 DEF AllStand, StandIs, LockedStand
<1>2. IInv /\ IInv' /\ AllStand /\ [Next]_vars => AllStand'
  BY StepStands
<1> QED
  BY <1>1, <1>2, InitStands, AlonePreserved, PTL DEF Spec


-----------------------------------------------------------------------------
(* next_eoa read by read                                                   *)

\* The inductive invariant: that of Interlocking, with the lock exclusions and
\* the local variables of next_eoa.
ReadsIInv ==
    /\ IInv
    /\ ReadsTypeOK
    /\ StoringOK
    /\ StandStill
    /\ \A t \in Train : Reading(t) => Knows(t, reader[t])

InductiveUnlessLeft == left \/ ReadsIInv

\* What the reads and stores rely on.
LEMMA ReadsFacts ==
    ASSUME ReadsIInv, NEW t \in Train
    PROVE  /\ IInv /\ TypeOK
           /\ reader[t] \in Reader
           /\ pos_trains[t] \in Position(t) /\ pos_trains[t].bal \in Balise(t)
           /\ pos_trains[t].pos_r \in PosR /\ pos_trains[t].pos_r \in Nat
           /\ pos_trains[t].bal \in Nat
           /\ RequestBalise(t) \in Balise(t)
<1>1. IInv /\ TypeOK /\ reader[t] \in Reader
  BY DEF ReadsIInv, ReadsTypeOK, IInv
<1>2. pos_trains[t] \in Position(t)
  BY <1>1 DEF TypeOK
<1>3. pos_trains[t].bal \in Balise(t) /\ pos_trains[t].pos_r \in PosR
  BY <1>2 DEF Position
<1>4. Balise(t) \subseteq Nat
  BY LoopAssumption DEF Balise
<1>5. PosR \subseteq Nat
  BY DEF PosR
<1> QED
  BY <1>1, <1>2, <1>3, <1>4, <1>5, RequestOnLoop

\* What another thread reads is a pos_r of the model, and the balise of the report
\* that is being stored if there is one.
LEMMA MemoryFacts ==
    ASSUME NEW u
    PROVE  /\ InMemory(u).pos_r = pos_trains[u].pos_r
           /\ storing[u] = NoEoa => InMemory(u) = pos_trains[u]
           /\ storing[u] # NoEoa => InMemory(u).bal = storing[u].bal
BY DEF InMemory

\* It is a place where next_eoa can find that train, and its pos_r may come with
\* any balise where that train can be found.
LEMMA FoundFacts ==
    ASSUME ReadsIInv, NEW u \in Train
    PROVE  /\ InMemory(u).pos_r \in PosR
           /\ InMemory(u) = [bal |-> InMemory(u).bal, pos_r |-> InMemory(u).pos_r]
           /\ InMemory(u) \in FoundAt(u)
           /\ \A p \in FoundAt(u) : [bal |-> p.bal, pos_r |-> InMemory(u).pos_r] \in FoundAt(u)
<1>1. pos_trains[u] \in Position(u) /\ eoa[u] \in Position(u) \cup { NoEoa }
  BY DEF ReadsIInv, IInv, TypeOK
<1>2. storing[u] # NoEoa => storing[u] \in Position(u)
  BY <1>1, MayBeAtFacts DEF ReadsIInv, StoringOK
<1>3. /\ InMemory(u).pos_r = pos_trains[u].pos_r /\ InMemory(u).pos_r \in PosR
      /\ InMemory(u).bal \in Balise(u)
      /\ InMemory(u) = [bal |-> InMemory(u).bal, pos_r |-> InMemory(u).pos_r]
  BY <1>1, <1>2 DEF InMemory, Position
<1>4. CASE u \in Active
  BY <1>3, <1>4 DEF FoundAt, Position
<1>5. CASE u \notin Active
  <2>1. InMemory(u) = [bal |-> StartBalise[u], pos_r |-> 0]
    BY <1>5 DEF ReadsIInv, StandStill, InMemory
  <2> QED
    BY <1>3, <1>5, <2>1 DEF FoundAt
<1> QED
  BY <1>3, <1>4, <1>5

LEMMA FoundInRange ==
    ASSUME NEW t \in Train, NEW own \in Position(t), NEW target, NEW d \in 1 .. TailleChemin(t),
           NEW m \in PosR,
           ~(target = own.bal /\ own.pos_r <= 0),
           BaliseAt(t, IndexOf[t][own.bal] + d) = target => m = 0,
           \A n \in 1 .. d - 1 : BaliseAt(t, IndexOf[t][own.bal] + n) # target
    PROVE  [bal |-> BaliseAt(t, IndexOf[t][own.bal] + d), pos_r |-> m] \in EoaRange(t, own, target)
<1> DEFINE at(n) == BaliseAt(t, IndexOf[t][own.bal] + n)
           far == [bal |-> at(d), pos_r |-> m]
<1>1. own.bal \in Balise(t)
  BY DEF Position
<1>2. at(d) \in Balise(t)
  BY <1>1, IndexFacts, BaliseAtInLoop
<1>3. far \in Position(t)
  BY <1>2 DEF Position
<1>4. far \in { p \in Position(t) :
                  \E x \in 1 .. TailleChemin(t) :
                    /\ p.bal = at(x)
                    /\ p.bal = target => p.pos_r = 0
                    /\ \A n \in 1 .. x - 1 : at(n) # target }
  BY <1>3
<1> HIDE DEF far
<1>5. far \in EoaRange(t, own, target)
  BY <1>4 DEF EoaRange
<1> QED
  BY <1>5 DEF far

\* A train that does not move, ask or read, and whose next_eoa sees the same as
\* before, knows the same as before.
LEMMA KnowsSame ==
    ASSUME NEW u \in Train, Knows(u, reader[u]),
           Reading(u), reader'[u] = reader[u], pc'[u] = pc[u], storing'[u] = storing[u],
           pos_trains'[u] = pos_trains[u], next_bal_index_req'[u] = next_bal_index_req[u],
           InMemory(Looked(u))'.bal = InMemory(Looked(u)).bal \/ ~Copying(u, Looked(u)),
           InMemory(Looked(u))'.pos_r >= InMemory(Looked(u)).pos_r \/ ~Copying(u, Looked(u)),
           InMemory(Looked(u)).pos_r \in Nat, InMemory(Looked(u))'.pos_r \in Nat,
           pos_trains[u].pos_r \in Nat, reader[u] \in Reader
    PROVE  Knows(u, reader[u])'
<1> DEFINE r == reader[u]
<1>1. /\ RequestBalise(u)' = RequestBalise(u)
      /\ \A n : Further(u, n)' = Further(u, n)
      /\ \A n : Request(u, n)' = Request(u, n)
  BY DEF RequestBalise, Further, Request
<1>2. Looked(u)' = Looked(u)
  BY DEF Looked
<1>3. Copying(u, Looked(u)) <=> r.at \in { "pos_r", "copy", "copy_r" } /\ r.n = 0
  BY DEF Copying, Reads
<1>4. r.at \in { "copy", "copy_r" } => r.n = 0 /\ InMemory(Looked(u)).pos_r >= pos_trains[u].pos_r
  BY DEF Knows, Looked
<1>5. r.at \in { "bal", "pos_r", "copy", "copy_r" }
  BY DEF Reading, Reader
<1>6. r.at # "bal" /\ r.n = 0 => Copying(u, Looked(u)) /\ InMemory(Looked(u)).bal = pos_trains[u].bal
  BY <1>3, <1>5 DEF Knows, Looked
<1>7. r.at # "bal" /\ r.n = 0 => InMemory(Looked(u))'.bal = pos_trains[u].bal
  BY <1>6
<1>8. r.at \in { "copy", "copy_r" } => r.n = 0 /\ InMemory(Looked(u))'.pos_r >= pos_trains[u].pos_r
  <2>1. r.at \in { "copy", "copy_r" } => Copying(u, Looked(u))
    BY <1>3, <1>4
  <2> QED
    BY <1>4, <2>1
<1>10. /\ \A v : FoundAt(v)' = FoundAt(v)
       /\ Objectifs(u, RequestBalise(u))' = Objectifs(u, RequestBalise(u))
  BY <1>1 DEF FoundAt, Objectifs
<1> DEFINE seen == InMemory(Looked(u))'
<1>9. InMemory((u + r.k) % 3)' = seen
  BY <1>2 DEF Looked
<1> HIDE DEF seen
<1> QED
  BY <1>1, <1>7, <1>8, <1>9, <1>10 DEF Knows, seen

\* The other trains, when train t reads or gets its answer.
LEMMA OthersKnow ==
    ASSUME ReadsIInv, NEW t \in Train,
           \A u \in Train \ {t} : reader'[u] = reader[u] /\ pc'[u] = pc[u],
           UNCHANGED << pos_trains, next_bal_index_req, storing >>
    PROVE  \A u \in Train \ {t} : Reading(u)' => Knows(u, reader[u])'
<1> SUFFICES ASSUME NEW u \in Train \ {t}, Reading(u)'
             PROVE  Knows(u, reader[u])'
  OBVIOUS
<1>1. Reading(u) /\ Knows(u, reader[u])
  BY DEF Reading, ReadsIInv
<1>2. InMemory(Looked(u))' = InMemory(Looked(u))
  BY DEF InMemory, Looked
<1>3. Looked(u) \in Train /\ reader[u] \in Reader /\ pos_trains[u].pos_r \in Nat
  BY ReadsFacts DEF Looked, Train, Reader
<1>4. InMemory(Looked(u)).pos_r \in Nat
  BY <1>3, MemoryFacts, ReadsFacts
<1> QED
  BY <1>1, <1>2, <1>3, <1>4, KnowsSame

\* next_eoa answers: the authority is one the train could get alone, and ends at
\* what next_eoa stops at.
LEMMA GiveStep ==
    ASSUME ReadsIInv, NEW t \in Train, pc[t] = "eoa", storing[t] = NoEoa,
           NEW e \in EoaRange(t, pos_trains[t], RequestBalise(t)),
           e \in Objectifs(t, RequestBalise(t)), Give(t, e),
           UNCHANGED << storing, left >>, torn' \in BOOLEAN
    PROVE  ReadsIInv' /\ NextEoa(t)
<1>1. IInv /\ TypeOK /\ ReadsTypeOK /\ StoringOK
  BY DEF ReadsIInv, IInv
<1>2. IInv'
  BY <1>1, AuthorityStep DEF Give
<1>3. NotReading \in Reader
  BY DEF NotReading, Reader
<1>4. /\ reader' \in [Train -> Reader] /\ reader'[t] = NotReading
      /\ \A u \in Train \ {t} : reader'[u] = reader[u] /\ pc'[u] = pc[u] /\ eoa'[u] = eoa[u]
  BY <1>1, <1>3 DEF Give, ReadsTypeOK, TypeOK
<1>5. ReadsTypeOK'
  BY <1>1, <1>4 DEF ReadsTypeOK
<1>6. StoringOK'
  BY <1>1, <1>4 DEF StoringOK, Give
<1>7. \A u \in Train \ {t} : Reading(u)' => Knows(u, reader[u])'
  BY <1>4, OthersKnow DEF Give
<1>8. ~Reading(t)'
  BY <1>4 DEF Reading, NotReading
<1>9. NextEoa(t)
  <2>1. e \in Answers[t][pos_trains[t]][RequestBalise(t)]
    BY <1>1, AnswersFacts
  <2> QED
    BY <2>1 DEF NextEoa, Give
<1>10. StandStill'
  BY DEF ReadsIInv, StandStill, Give
<1> QED
  BY <1>2, <1>5, <1>6, <1>7, <1>8, <1>9, <1>10 DEF ReadsIInv

\* next_eoa goes on with what it knows.
LEMMA ContinueStep ==
    ASSUME ReadsIInv, NEW t \in Train, NEW r \in Reader, Knows(t, r), Continue(t, r),
           UNCHANGED << storing, left >>, torn' \in BOOLEAN
    PROVE  ReadsIInv' /\ UNCHANGED vars
<1>1. IInv /\ ReadsTypeOK /\ StoringOK /\ UNCHANGED vars
  BY DEF ReadsIInv, Continue
<1>2. IInv'
  BY <1>1, StutterIInv
<1>3. /\ reader' \in [Train -> Reader] /\ reader'[t] = r
      /\ \A u \in Train \ {t} : reader'[u] = reader[u]
  BY <1>1 DEF Continue, ReadsTypeOK
<1>4. ReadsTypeOK'
  BY <1>1, <1>3 DEF ReadsTypeOK
<1>5. StoringOK'
  BY <1>1 DEF StoringOK, vars
<1>6. \A u \in Train \ {t} : Reading(u)' => Knows(u, reader[u])'
  BY <1>1, <1>3, OthersKnow DEF vars
<1>7. Knows(t, reader[t])'
  <2>1. /\ RequestBalise(t)' = RequestBalise(t)
        /\ \A n : Further(t, n)' = Further(t, n)
        /\ \A n : Request(t, n)' = Request(t, n)
    BY <1>1 DEF RequestBalise, Further, Request, vars
  <2>2. \A u : InMemory(u)' = InMemory(u)
    BY <1>1 DEF InMemory, vars
  <2>3. Objectifs(t, RequestBalise(t))' = Objectifs(t, RequestBalise(t))
    BY <2>1 DEF Objectifs, FoundAt
  <2>4. \A u : FoundAt(u)' = FoundAt(u)
    BY DEF FoundAt
  <2> QED
    BY <1>1, <1>3, <2>1, <2>2, <2>3, <2>4 DEF Knows, vars
<1>8. StandStill'
  BY <1>1 DEF ReadsIInv, StandStill, vars
<1> QED
  BY <1>1, <1>2, <1>4, <1>5, <1>6, <1>7, <1>8 DEF ReadsIInv

LEMMA LookAtReader ==
    ASSUME NEW k \in 1 .. 2, NEW n \in Nat, NEW found \in SUBSET PosR
    PROVE  /\ LookAt(k, n, found) \in Reader
           /\ LookAt(k, n, found).at = "bal"
           /\ LookAt(k, n, found).n = n
           /\ LookAt(k, n, found).found = found
BY DEF LookAt, Reader

\* After a train has been looked at: the search goes on, and ends within a lap, on
\* the balise of the next request at the latest.
LEMMA LookNextStep ==
    ASSUME ReadsIInv, NEW t \in Train, Reading(t), NEW found \in SUBSET PosR,
           IF reader[t].n = 0 THEN found = {} ELSE Request(t, reader[t].n) \subseteq found,
           \A x \in found : [bal |-> Further(t, reader[t].n), pos_r |-> x]
                              \in Objectifs(t, RequestBalise(t)),
           LookNext(t, found), UNCHANGED << storing, left >>, torn' \in BOOLEAN
    PROVE  ReadsIInv' /\ (NextEoa(t) \/ UNCHANGED vars)
<1> DEFINE r == reader[t]
           own == pos_trains[t]
           target == RequestBalise(t)
<1>1. Knows(t, r) /\ r \in Reader
  BY ReadsFacts DEF ReadsIInv
<1>2. /\ pc[t] = "eoa" /\ storing[t] = NoEoa
      /\ ~(target = own.bal /\ own.pos_r <= 0)
      /\ r.n \in Nat /\ r.n <= TailleChemin(t)
      /\ \A n \in 1 .. r.n - 1 : Further(t, n) # target
  BY <1>1 DEF Knows, Reader
<1>3. own \in Position(t) /\ own.bal \in Balise(t) /\ target \in Balise(t)
  BY ReadsFacts
<1>4. TailleChemin(t) \in Nat \ {0} /\ PosR \subseteq Nat /\ 0 \in PosR
  BY <1>3, IndexFacts, BoundsAssumption DEF PosR
<1>5. CASE r.k = 1
  <2> DEFINE q == LookAt(2, r.n, found)
  <2>1. /\ q \in Reader /\ q.at = "bal" /\ q.n = r.n /\ q.found = found
    BY <1>2, LookAtReader
  <2>2. Knows(t, q)
    <3> HIDE DEF q
    <3> QED
      BY <1>2, <2>1 DEF Knows
  <2>3. Continue(t, q)
    BY <1>5 DEF LookNext
  <2> HIDE DEF q
  <2> QED
    BY <2>1, <2>2, <2>3, ContinueStep
<1>6. CASE r.k # 1 /\ found # {}
  <2> DEFINE m == nearest(found)
             e == [bal |-> Canton(t), pos_r |-> m]
  <2>1. m \in found /\ \A y \in found : m <= y
    <3>1. found \in SUBSET Nat
      BY <1>4
    <3> QED
      BY <1>6, <3>1, MinInSet DEF nearest
  <2>2. r.n # 0 /\ r.n \in 1 .. TailleChemin(t)
    <3>1. r.n # 0
      BY <1>6
    <3> HIDE DEF r
    <3> QED
      BY <1>2, <1>4, <3>1
  <2>3. Canton(t) = Further(t, r.n) /\ m \in PosR
    BY <2>1 DEF Canton
  <2>4. Further(t, r.n) = target => m = 0
    <3> SUFFICES ASSUME Further(t, r.n) = target
                 PROVE  m = 0
      OBVIOUS
    <3>1. 0 \in found
      BY <2>2 DEF Request
    <3>2. m <= 0 /\ m \in Nat
      BY <1>4, <2>1, <2>3, <3>1
    <3> HIDE DEF m
    <3> QED
      BY <3>2
  <2> HIDE DEF m
  <2>5. e \in EoaRange(t, own, target)
    BY <1>2, <1>3, <2>2, <2>3, <2>4, FoundInRange DEF Further
  <2>6. Give(t, e)
    BY <1>6 DEF LookNext, m
  <2>7. e \in Objectifs(t, target)
    BY <2>1, <2>3
  <2> HIDE DEF e
  <2> QED
    BY <1>2, <2>5, <2>6, <2>7, GiveStep
<1>7. CASE r.k # 1 /\ found = {}
  <2> DEFINE q == LookAt(1, r.n + 1, Request(t, r.n + 1))
  <2>1. Request(t, r.n + 1) \subseteq PosR
    BY <1>4 DEF Request
  <2>2. q \in Reader /\ q.at = "bal" /\ q.n = r.n + 1 /\ q.found = Request(t, r.n + 1)
    <3>1. r.n + 1 \in Nat
      <4> HIDE DEF r
      <4> QED
        BY <1>2
    <3> QED
      BY <2>1, <3>1, LookAtReader
  <2>3. \A n \in 1 .. r.n : Further(t, n) # target
    <3>1. r.n # 0 => Further(t, r.n) # target
      BY <1>7 DEF Request
    <3> HIDE DEF r, target
    <3> QED
      BY <1>2, <3>1
  <2>4. r.n + 1 <= TailleChemin(t)
    <3>1. PICK d \in 1 .. TailleChemin(t) : Further(t, d) = target
      BY <1>3, MetWithinALap DEF Further
    <3>2. ~(d \in 1 .. r.n)
      BY <2>3, <3>1
    <3> HIDE DEF r
    <3> QED
      BY <1>2, <1>4, <3>2
  <2>5. Knows(t, q)
    <3>1. q.n - 1 = r.n /\ q.n # 0
      <4> HIDE DEF q, r
      <4> QED
        BY <1>2, <2>2
    <3>2. \A x \in q.found : [bal |-> Further(t, q.n), pos_r |-> x] \in Objectifs(t, target)
      BY <2>2 DEF Request, Objectifs
    <3> HIDE DEF q
    <3> QED
      BY <1>2, <2>2, <2>3, <2>4, <3>1, <3>2 DEF Knows
  <2>6. Continue(t, q)
    BY <1>7 DEF LookNext
  <2> HIDE DEF q
  <2> QED
    BY <2>2, <2>5, <2>6, ContinueStep
<1> QED
  BY <1>5, <1>6, <1>7

LEMMA BeginStep ==
    ASSUME ReadsIInv, NEW t \in Train, BeginEoa(t),
           UNCHANGED << storing, left, torn >>
    PROVE  ReadsIInv' /\ (NextEoa(t) \/ UNCHANGED vars)
<1> DEFINE own == pos_trains[t]
           target == RequestBalise(t)
<1>1. pc[t] = "eoa" /\ storing[t] = NoEoa
  BY DEF BeginEoa, Unlocked
<1>4. torn' \in BOOLEAN
  BY DEF ReadsIInv, ReadsTypeOK
<1>2. CASE target = own.bal /\ own.pos_r <= 0
  <2> DEFINE e == [bal |-> target, pos_r |-> 0]
  <2>1. e \in EoaRange(t, own, target)
    BY <1>2 DEF EoaRange
  <2>2. Give(t, e)
    BY <1>2 DEF BeginEoa
  <2>3. e \in Objectifs(t, target)
    BY DEF Objectifs
  <2> HIDE DEF e
  <2> QED
    BY <1>1, <1>4, <2>1, <2>2, <2>3, GiveStep
<1>3. CASE ~(target = own.bal /\ own.pos_r <= 0)
  <2> DEFINE r == LookAt(1, 0, {})
  <2>1. r \in Reader /\ r.at = "bal" /\ r.n = 0 /\ r.found = {}
    BY LookAtReader
  <2>2. TailleChemin(t) \in Nat
    BY ReadsFacts, IndexFacts
  <2>3. Continue(t, r)
    BY <1>3 DEF BeginEoa
  <2> HIDE DEF r
  <2>4. Knows(t, r)
    BY <1>1, <1>3, <2>1, <2>2 DEF Knows
  <2> QED
    BY <1>4, <2>1, <2>3, <2>4, ContinueStep
<1> QED
  BY <1>2, <1>3

\* What next_eoa reads of the train it looks at.
LEMMA LookedFacts ==
    ASSUME ReadsIInv, NEW t \in Train
    PROVE  /\ Looked(t) \in Train \ {t}
           /\ InMemory(Looked(t)).pos_r \in PosR
           /\ InMemory(Looked(t)).pos_r \in Nat
<1>1. reader[t].k \in {1, 2}
  BY ReadsFacts DEF Reader
<1>2. Looked(t) \in Train \ {t}
  BY <1>1 DEF Looked, Train
<1> QED
  BY <1>2, MemoryFacts, ReadsFacts

LEMMA NextRead ==
    ASSUME NEW r \in Reader, NEW a \in { "bal", "pos_r", "copy", "copy_r" }
    PROVE  LET q == [r EXCEPT !.at = a] IN
           /\ q \in Reader
           /\ q.at = a /\ q.k = r.k /\ q.n = r.n /\ q.found = r.found /\ q.bal = r.bal
BY DEF Reader

\* The balise is looked at.
LEMMA ReadBalStep ==
    ASSUME ReadsIInv, NEW t \in Train, ReadBal(t), UNCHANGED << storing, left >>
    PROVE  ReadsIInv' /\ (NextEoa(t) \/ UNCHANGED vars)
<1> DEFINE r == reader[t]
           own == pos_trains[t]
<1>1. Reading(t) /\ Knows(t, r) /\ r \in Reader /\ r.at = "bal"
  BY ReadsFacts DEF ReadsIInv, ReadBal, Reading
<1>2. r.found \in SUBSET PosR /\ r.n \in Nat
  BY <1>1 DEF Reader
<1>3. IF r.n = 0 THEN r.found = {} ELSE Request(t, r.n) \subseteq r.found
  BY <1>1 DEF Knows
<1>6. torn' \in BOOLEAN
  BY DEF ReadsIInv, ReadsTypeOK, ReadBal
<1>4. CASE InMemory(Looked(t)).bal = Canton(t)
  <2> DEFINE q == [r EXCEPT !.at = "pos_r"]
  <2>1. /\ q \in Reader
        /\ q.at = "pos_r" /\ q.k = r.k /\ q.n = r.n /\ q.found = r.found
    BY <1>1, NextRead
  <2>2. r.n = 0 => InMemory((t + q.k) % 3).bal = own.bal
    <3>1. own.bal \in Balise(t)
      BY ReadsFacts
    <3>2. IndexOf[t][own.bal] + 0 = IndexOf[t][own.bal] /\ Further(t, 0) = own.bal
      BY <3>1, IndexFacts DEF Further
    <3> QED
      BY <1>4, <2>1, <3>2 DEF Canton, Looked
  <2>3. Continue(t, q)
    BY <1>4 DEF ReadBal
  <2>4. \E p \in FoundAt((t + q.k) % 3) : p.bal = Further(t, q.n)
    <3>1. InMemory(Looked(t)) \in FoundAt(Looked(t))
      BY LookedFacts, FoundFacts
    <3> QED
      BY <1>4, <2>1, <3>1 DEF Canton, Looked
  <2> HIDE DEF q
  <2>5. Knows(t, q)
    BY <1>1, <2>1, <2>2, <2>4 DEF Knows
  <2> QED
    BY <1>6, <2>1, <2>3, <2>5, ContinueStep
<1>5. CASE InMemory(Looked(t)).bal # Canton(t)
  <2>1. LookNext(t, r.found)
    BY <1>5 DEF ReadBal
  <2>2. \A x \in r.found :
          [bal |-> Further(t, r.n), pos_r |-> x] \in Objectifs(t, RequestBalise(t))
    BY <1>1 DEF Knows
  <2> HIDE DEF r
  <2> QED
    BY <1>1, <1>2, <1>3, <1>6, <2>1, <2>2, LookNextStep DEF r
<1> QED
  BY <1>4, <1>5

\* The pos_r is looked at.
LEMMA ReadPosRStep ==
    ASSUME ReadsIInv, NEW t \in Train, ReadPosR(t),
           UNCHANGED << storing, left, torn >>
    PROVE  ReadsIInv' /\ (NextEoa(t) \/ UNCHANGED vars)
<1> DEFINE r == reader[t]
           own == pos_trains[t]
           x == InMemory(Looked(t)).pos_r
<1>1. Reading(t) /\ Knows(t, r) /\ r \in Reader /\ r.at = "pos_r"
  BY ReadsFacts DEF ReadsIInv, ReadPosR, Reading
<1>2. r.found \in SUBSET PosR /\ r.n \in Nat
  BY <1>1 DEF Reader
<1>3. x \in PosR /\ torn' \in BOOLEAN
  BY LookedFacts DEF ReadsIInv, ReadsTypeOK
<1>4. CASE r.n > 0
  <2> DEFINE found == r.found \cup { x }
  <2>1. found \in SUBSET PosR
    BY <1>2, <1>3
  <2>2. r.n # 0
    <3> HIDE DEF r
    <3> QED
      BY <1>2, <1>4
  <2>3. Request(t, r.n) \subseteq found
    BY <1>1, <2>2 DEF Knows
  <2>4. LookNext(t, found)
    BY <1>4 DEF ReadPosR
  <2>5. \A y \in found :
          [bal |-> Further(t, r.n), pos_r |-> y] \in Objectifs(t, RequestBalise(t))
    <3>1. PICK p \in FoundAt(Looked(t)) : p.bal = Further(t, r.n)
      BY <1>1 DEF Knows, Looked
    <3>2. Looked(t) \in Train \ {t}
      BY LookedFacts
    <3>3. [bal |-> Further(t, r.n), pos_r |-> x] \in FoundAt(Looked(t))
      BY <3>1, <3>2, FoundFacts
    <3>4. [bal |-> Further(t, r.n), pos_r |-> x] \in Objectifs(t, RequestBalise(t))
      BY <3>2, <3>3 DEF Objectifs
    <3> HIDE DEF x
    <3> QED
      BY <1>1, <3>4 DEF Knows
  <2> HIDE DEF found
  <2> QED
    BY <1>1, <1>3, <2>1, <2>2, <2>3, <2>4, <2>5, LookNextStep
<1>5. CASE ~(r.n > 0) /\ x >= own.pos_r
  <2> DEFINE q == [r EXCEPT !.at = "copy"]
  <2>1. /\ q \in Reader
        /\ q.at = "copy" /\ q.k = r.k /\ q.n = r.n /\ q.found = r.found
    BY <1>1, NextRead
  <2>2. r.n = 0
    <3> HIDE DEF r
    <3> QED
      BY <1>2, <1>5
  <2>3. Continue(t, q)
    BY <1>5 DEF ReadPosR
  <2>4. InMemory((t + q.k) % 3).pos_r >= own.pos_r
    BY <1>5, <2>1 DEF Looked
  <2> HIDE DEF q
  <2>5. Knows(t, q)
    BY <1>1, <2>1, <2>2, <2>4 DEF Knows
  <2> QED
    BY <1>3, <2>1, <2>3, <2>5, ContinueStep
<1>6. CASE ~(r.n > 0) /\ ~(x >= own.pos_r)
  <2>1. r.n = 0
    <3> HIDE DEF r
    <3> QED
      BY <1>2, <1>6
  <2>2. LookNext(t, {})
    BY <1>6 DEF ReadPosR
  <2> QED
    BY <1>1, <1>3, <2>1, <2>2, LookNextStep
<1> QED
  BY <1>4, <1>5, <1>6

\* The position of the train in front is copied.
LEMMA CopyBalStep ==
    ASSUME ReadsIInv, NEW t \in Train, CopyBal(t),
           UNCHANGED << storing, left, torn >>
    PROVE  ReadsIInv' /\ UNCHANGED vars
<1> DEFINE r == reader[t]
           b == InMemory(Looked(t)).bal
           q == [r EXCEPT !.at = "copy_r", !.bal = b]
<1>1. Reading(t) /\ Knows(t, r) /\ r \in Reader /\ r.at = "copy"
  BY ReadsFacts DEF ReadsIInv, CopyBal, Reading
<1>2. r.n = 0 /\ b = pos_trains[t].bal
  BY <1>1 DEF Knows, Looked
<1>3. b \in Int
  BY <1>2, ReadsFacts
<1>4. /\ q \in Reader
      /\ q.at = "copy_r" /\ q.k = r.k /\ q.n = r.n /\ q.found = r.found /\ q.bal = b
  <2> HIDE DEF b, r
  <2> QED
    BY <1>1, <1>3 DEF Reader
<1>5. Continue(t, q)
  BY DEF CopyBal
<1>6. Knows(t, q)
  <2> HIDE DEF q
  <2> QED
    BY <1>1, <1>2, <1>4 DEF Knows
<1>7. torn' \in BOOLEAN
  BY DEF ReadsIInv, ReadsTypeOK
<1> HIDE DEF q
<1> QED
  BY <1>4, <1>5, <1>6, <1>7, ContinueStep

LEMMA CopyPosRStep ==
    ASSUME ReadsIInv, NEW t \in Train, CopyPosR(t),
           UNCHANGED << storing, left, torn >>
    PROVE  ReadsIInv' /\ NextEoa(t)
<1> DEFINE r == reader[t]
           own == pos_trains[t]
           x == InMemory(Looked(t)).pos_r
           e == [bal |-> r.bal, pos_r |-> x]
<1>1. Knows(t, r) /\ r.at = "copy_r"
  BY DEF ReadsIInv, CopyPosR, Reading
<1>2. pc[t] = "eoa" /\ storing[t] = NoEoa /\ r.bal = own.bal /\ x >= own.pos_r
      /\ ~(RequestBalise(t) = own.bal /\ own.pos_r <= 0)
  BY <1>1 DEF Knows, Looked
<1>3. own.bal \in Balise(t) /\ x \in PosR /\ torn' \in BOOLEAN
  BY ReadsFacts, LookedFacts DEF ReadsIInv, ReadsTypeOK
<1>7. e \in Objectifs(t, RequestBalise(t))
  <2>1. Looked(t) \in Train \ {t}
    BY LookedFacts
  <2>2. PICK p \in FoundAt(Looked(t)) : p.bal = Further(t, r.n)
    BY <1>1 DEF Knows, Looked
  <2>3. Further(t, r.n) = r.bal
    <3>1. r.n = 0
      BY <1>1 DEF Knows
    <3>2. IndexOf[t][own.bal] + 0 = IndexOf[t][own.bal] /\ Further(t, 0) = own.bal
      BY <1>3, IndexFacts DEF Further
    <3> QED
      BY <1>2, <3>1, <3>2
  <2>4. e \in FoundAt(Looked(t))
    BY <2>1, <2>2, <2>3, FoundFacts
  <2> HIDE DEF e
  <2> QED
    BY <2>1, <2>4 DEF Objectifs
<1> HIDE DEF x
<1>4. e \in Position(t) /\ e.bal = own.bal /\ e.pos_r >= own.pos_r
  BY <1>2, <1>3 DEF Position
<1>5. Give(t, e)
  BY DEF CopyPosR, x
<1> HIDE DEF e
<1>6. e \in EoaRange(t, own, RequestBalise(t))
  BY <1>2, <1>4 DEF EoaRange
<1> QED
  BY <1>2, <1>3, <1>5, <1>6, <1>7, GiveStep

\* A train that reads still knows what it knew when another train stores a part of
\* its report, unless the report takes that train out of the canton it was found in.
LEMMA StoreKnows ==
    ASSUME ReadsIInv, ~left', NEW u \in Train, NEW p \in Position(u),
           left' = (left \/ (Leaves(u, p) /\ \E t \in Train : Copying(t, u))),
           ~Reading(u), UNCHANGED << reader, pc, next_bal_index_req >>,
           \A t \in Train \ {u} : storing'[t] = storing[t] /\ pos_trains'[t] = pos_trains[t],
           InMemory(u)'.bal \in { InMemory(u).bal, p.bal },
           InMemory(u)'.pos_r \in { InMemory(u).pos_r, p.pos_r },
           InMemory(u).bal \in { pos_trains[u].bal, p.bal }
    PROVE  \A t \in Train : Reading(t)' => Knows(t, reader[t])'
<1> SUFFICES ASSUME NEW t \in Train, Reading(t)'
             PROVE  Knows(t, reader[t])'
  OBVIOUS
<1>1. Reading(t) /\ t # u /\ Knows(t, reader[t])
  BY DEF Reading, ReadsIInv
<1>2. Looked(t) \in Train \ {t} /\ Looked(t)' = Looked(t)
  BY LookedFacts DEF Looked
<1>3. p.pos_r \in Nat
  BY DEF Position, PosR
<1>4. InMemory(Looked(t)).pos_r \in Nat /\ pos_trains[t].pos_r \in Nat /\ reader[t] \in Reader
  BY LookedFacts, ReadsFacts
<1>5. CASE Looked(t) = u
  <2>1. InMemory(u)'.pos_r \in Nat
    BY <1>3, <1>4, <1>5
  <2>2. ASSUME Copying(t, u)
        PROVE  /\ InMemory(u)'.bal = InMemory(u).bal
               /\ InMemory(u)'.pos_r >= InMemory(u).pos_r
    <3>1. p.bal = pos_trains[u].bal /\ ~(p.pos_r < pos_trains[u].pos_r)
      BY <2>2 DEF Leaves
    <3>2. InMemory(u).pos_r = pos_trains[u].pos_r
      BY MemoryFacts
    <3>3. InMemory(u)'.bal = InMemory(u).bal
      BY <3>1
    <3>4. p.pos_r >= InMemory(u).pos_r /\ InMemory(u).pos_r \in Nat
      BY <1>3, <1>4, <1>5, <3>1, <3>2
    <3> QED
      BY <3>3, <3>4
  <2> QED
    BY <1>1, <1>2, <1>4, <1>5, <2>1, <2>2, KnowsSame
<1>6. CASE Looked(t) # u
  <2>1. InMemory(Looked(t))' = InMemory(Looked(t))
    BY <1>2, <1>6 DEF InMemory
  <2> QED
    BY <1>1, <1>2, <1>4, <2>1, KnowsSame
<1> QED
  BY <1>5, <1>6

LEMMA NoEoaFacts ==
    ASSUME NEW t \in Train, NEW p \in Position(t)
    PROVE  p # NoEoa /\ p \in Place
<1>1. p.bal \in Balise(t) /\ Balise(t) \subseteq Nat
  BY LoopAssumption DEF Position, Balise
<1>2. p # NoEoa
  BY <1>1 DEF NoEoa
<1>3. p \in Place
  BY PositionsArePlaces
<1> QED
  BY <1>2, <1>3

\* The first store of a report.
LEMMA StoreBalStep ==
    ASSUME ReadsIInv, ~left', NEW u \in Active, NEW p \in Reports(u), StoreBal(u, p)
    PROVE  ReadsIInv'
<1>1. /\ IInv /\ TypeOK /\ ReadsTypeOK /\ StoringOK /\ u \in Train
      /\ UNCHANGED vars /\ reader' = reader
  BY BoundsAssumption DEF ReadsIInv, IInv, StoreBal
<1>2. IInv'
  BY <1>1, StutterIInv
<1>3. p \in MayBeAt(u, pos_trains[u], eoa[u])
  BY DEF Reports
<1>4. p \in Position(u)
  BY <1>1, <1>3, MayBeAtFacts DEF TypeOK
<1>5. p # NoEoa /\ p \in Place
  BY <1>1, <1>4, NoEoaFacts
<1>6. /\ storing' \in [Train -> Place \cup { NoEoa }]
      /\ storing'[u] = p /\ storing[u] = NoEoa
      /\ \A t \in Train \ {u} : storing'[t] = storing[t]
  BY <1>1, <1>5 DEF StoreBal, Unlocked, ReadsTypeOK
<1>7. ReadsTypeOK'
  BY <1>1, <1>6 DEF ReadsTypeOK, StoreBal, Leaves
<1>8. StoringOK'
  <2>1. /\ pc[u] = "switching" => cmd[u] = 0
        /\ EveryBalise => Ahead(u, pos_trains[u], p) <= 1
    BY DEF StoreBal, Unlocked, Reports
  <2>2. \A t, x : Ahead(t, pos_trains[t], x)' = Ahead(t, pos_trains[t], x)
    BY <1>1 DEF Ahead, Cantons, vars
  <2> QED
    BY <1>1, <1>3, <1>6, <2>1, <2>2 DEF StoringOK, vars
<1>9. \A t \in Train : Reading(t)' => Knows(t, reader[t])'
  <2>1. /\ InMemory(u).bal = pos_trains[u].bal
        /\ InMemory(u)'.bal = p.bal /\ InMemory(u)'.pos_r = InMemory(u).pos_r
    BY <1>1, <1>5, <1>6 DEF InMemory, vars
  <2>2. /\ left' = (left \/ (Leaves(u, p) /\ \E t \in Train : Copying(t, u)))
        /\ ~Reading(u)
    BY DEF StoreBal, Unlocked
  <2>3. /\ UNCHANGED << reader, pc, next_bal_index_req >>
        /\ \A t \in Train \ {u} : storing'[t] = storing[t] /\ pos_trains'[t] = pos_trains[t]
    BY <1>1, <1>6 DEF vars
  <2> QED
    BY <1>1, <1>4, <2>1, <2>2, <2>3, StoreKnows
<1>10. StandStill'
  BY <1>1, <1>6 DEF ReadsIInv, StandStill, vars
<1> QED
  BY <1>2, <1>7, <1>8, <1>9, <1>10 DEF ReadsIInv

\* The second one, and free_resources.
LEMMA StorePosRStep ==
    ASSUME ReadsIInv, ~left', NEW u \in Train, StorePosR(u)
    PROVE  ReadsIInv'
<1> DEFINE p == storing[u]
<1>1. /\ IInv /\ TypeOK /\ ReadsTypeOK /\ StoringOK
      /\ p # NoEoa /\ Report(u, p) /\ reader' = reader
  BY DEF ReadsIInv, IInv, StorePosR
<1>2. p \in MayBeAt(u, pos_trains[u], eoa[u])
  BY <1>1 DEF StoringOK
<1>3. IInv'
  BY <1>1, <1>2, ReportStep
<1>4. p \in Position(u)
  BY <1>1, <1>2, MayBeAtFacts DEF TypeOK
<1>5. /\ storing' \in [Train -> Place \cup { NoEoa }]
      /\ storing'[u] = NoEoa /\ pos_trains'[u] = p
      /\ \A t \in Train \ {u} : storing'[t] = storing[t] /\ pos_trains'[t] = pos_trains[t]
  BY <1>1 DEF StorePosR, Report, ReadsTypeOK, TypeOK
<1>6. UNCHANGED << pc, cmd, eoa, next_bal_index_req >>
  BY <1>1 DEF Report
<1>7. ReadsTypeOK'
  BY <1>1, <1>5 DEF ReadsTypeOK, StorePosR, Leaves
<1>8. StoringOK'
  BY <1>1, <1>5, <1>6 DEF StoringOK
<1>9. \A t \in Train : Reading(t)' => Knows(t, reader[t])'
  <2>1. /\ InMemory(u).bal = p.bal
        /\ InMemory(u)'.bal = p.bal /\ InMemory(u)'.pos_r = p.pos_r
    BY <1>1, <1>5 DEF InMemory
  <2>2. left' = (left \/ (Leaves(u, p) /\ \E t \in Train : Copying(t, u)))
    BY DEF StorePosR
  <2>3. ~Reading(u)
    BY <1>1 DEF ReadsIInv, Knows
  <2> HIDE DEF p
  <2> QED
    BY <1>1, <1>4, <1>5, <1>6, <2>1, <2>2, <2>3, StoreKnows
<1>10. StandStill'
  BY <1>1, <1>5 DEF ReadsIInv, StandStill
<1> QED
  BY <1>3, <1>7, <1>8, <1>9, <1>10 DEF ReadsIInv

\* A step of the other actions: the train does not read, and what it stores is
\* not disturbed.
LEMMA HandlerKnows ==
    ASSUME ReadsIInv, IInv', NEW t \in Train, ~Reading(t),
           storing[t] = NoEoa \/ cmd'[t] = 0,
           UNCHANGED << reader, storing, left, torn, pos_trains, eoa >>,
           \A u \in Train \ {t} : /\ pc'[u] = pc[u] /\ cmd'[u] = cmd[u]
                                  /\ next_bal_index_req'[u] = next_bal_index_req[u]
    PROVE  ReadsIInv'
<1>1. ReadsTypeOK' /\ StoringOK' /\ StandStill'
  BY DEF ReadsIInv, ReadsTypeOK, StoringOK, StandStill
<1>2. ASSUME NEW u \in Train, Reading(u)'
      PROVE  Knows(u, reader[u])'
  <2>1. Reading(u) /\ u # t /\ Knows(u, reader[u])
    BY <1>2 DEF Reading, ReadsIInv
  <2>2. InMemory(Looked(u))' = InMemory(Looked(u))
    BY DEF InMemory, Looked
  <2>3. InMemory(Looked(u)).pos_r \in Nat /\ pos_trains[u].pos_r \in Nat /\ reader[u] \in Reader
    BY LookedFacts, ReadsFacts
  <2> QED
    BY <2>1, <2>2, <2>3, KnowsSame
<1> QED
  BY <1>1, <1>2 DEF ReadsIInv

\* The steps of the 102 handler that next_eoa does not take part in.
LEMMA HandlerStep ==
    ASSUME ReadsIInv, NEW t \in Train, Train102(t)
    PROVE  ReadsIInv'
<1>1. IInv /\ TypeOK /\ UNCHANGED << reader, storing, left, torn >>
  BY DEF ReadsIInv, IInv, Train102
<1>2. pc[t] # "eoa" => ~Reading(t)
  BY DEF ReadsIInv, Knows
<1>3. CASE Ask(t) /\ Unlocked(t)
  <2>1. storing[t] = NoEoa /\ ~Reading(t)
    BY <1>3 DEF Unlocked
  <2>2. /\ UNCHANGED << pos_trains, eoa, cmd, next_bal_index_req >>
        /\ \A u \in Train \ {t} : pc'[u] = pc[u]
    BY <1>1, <1>3 DEF Ask, TypeOK
  <2> QED
    BY <1>1, <1>3, <2>1, <2>2, AskStep, HandlerKnows
<1>4. CASE LockRessources(t)
  <2>1. /\ UNCHANGED << pos_trains, eoa, next_bal_index_req >>
        /\ \A u \in Train \ {t} : pc'[u] = pc[u] /\ cmd'[u] = cmd[u]
        /\ pc[t] = "locking" /\ cmd'[t] = 0
    BY <1>1, <1>4 DEF LockRessources, TypeOK
  <2> QED
    BY <1>1, <1>2, <1>4, <2>1, LockStep, HandlerKnows
<1>5. CASE SetSwitch(t) /\ storing[t] = NoEoa
  <2>1. /\ UNCHANGED << pos_trains, eoa, next_bal_index_req, pc >>
        /\ \A u \in Train \ {t} : cmd'[u] = cmd[u]
        /\ pc[t] = "switching"
    BY <1>1, <1>5 DEF SetSwitch, TypeOK
  <2> QED
    BY <1>1, <1>2, <1>5, <2>1, SetSwitchStep, HandlerKnows
<1>6. CASE EndSwitches(t) /\ storing[t] = NoEoa
  <2>1. /\ UNCHANGED << pos_trains, eoa >>
        /\ \A u \in Train \ {t} : /\ pc'[u] = pc[u] /\ cmd'[u] = cmd[u]
                                  /\ next_bal_index_req'[u] = next_bal_index_req[u]
        /\ pc[t] = "switching"
    BY <1>1, <1>6 DEF EndSwitches, TypeOK
  <2> QED
    BY <1>1, <1>2, <1>6, <2>1, EndSwitchesStep, HandlerKnows
<1> QED
  BY <1>3, <1>4, <1>5, <1>6 DEF Train102

LEMMA InitReads == ReadsInit => ReadsIInv
<1> SUFFICES ASSUME ReadsInit
             PROVE  ReadsIInv
  OBVIOUS
<1>1. IInv
  BY InitIInv DEF ReadsInit
<1>2. NotReading \in Reader /\ NotReading.at = "none"
  BY DEF NotReading, Reader
<1>3. \A t \in Train : ~Reading(t) /\ storing[t] = NoEoa
  BY <1>2 DEF ReadsInit, Reading
<1>4. ReadsTypeOK
  BY <1>2 DEF ReadsInit, ReadsTypeOK
<1>5. StandStill
  BY <1>3 DEF ReadsInit, Init, StandStill
<1> QED
  BY <1>1, <1>3, <1>4, <1>5 DEF ReadsIInv, StoringOK

LEMMA StutterReads == ReadsIInv /\ UNCHANGED readsVars => ReadsIInv'
<1> SUFFICES ASSUME ReadsIInv, UNCHANGED readsVars
             PROVE  ReadsIInv'
  OBVIOUS
<1>1. UNCHANGED << reader, storing, left, torn >> /\ UNCHANGED vars
  BY DEF readsVars
<1>2. IInv'
  BY <1>1, StutterIInv DEF ReadsIInv
<1>3. ReadsTypeOK' /\ StoringOK' /\ StandStill'
  BY <1>1 DEF ReadsIInv, ReadsTypeOK, StoringOK, StandStill, vars
<1>4. ASSUME NEW t \in Train, Reading(t)'
      PROVE  Knows(t, reader[t])'
  <2>1. PICK u \in Train : u # t
    BY DEF Train
  <2>2. reader' = reader /\ pc' = pc /\ UNCHANGED << pos_trains, next_bal_index_req, storing >>
    BY <1>1 DEF vars
  <2> QED
    BY <1>4, <2>1, <2>2, OthersKnow
<1> QED
  BY <1>2, <1>3, <1>4 DEF ReadsIInv

LEMMA LeftStays == [ReadsNext]_readsVars /\ left => left'
BY DEF ReadsNext, Train101, Train102, Calculator, StoreBal, StorePosR, readsVars

LEMMA StepReads ==
    ASSUME ReadsIInv, [ReadsNext]_readsVars, ~left'
    PROVE  ReadsIInv' /\ (~Apart => [Next]_vars)
<1>1. Active \subseteq Train /\ StoringOK
  BY BoundsAssumption DEF ReadsIInv
<1>2. ASSUME NEW t \in Active, NEW p \in Reports(t), StoreBal(t, p)
      PROVE  ReadsIInv' /\ UNCHANGED vars
  BY <1>2, StoreBalStep DEF StoreBal
<1>3. ASSUME NEW t \in Active, StorePosR(t)
      PROVE  ReadsIInv' /\ (~Apart => Next)
  <2>1. ReadsIInv'
    BY <1>1, <1>3, StorePosRStep
  <2>2. ~Apart => storing[t] \in Reports(t)
    BY <1>1, <1>3 DEF StorePosR, StoringOK, Reports
  <2> QED
    BY <1>3, <2>1, <2>2 DEF StorePosR, Next
<1>4. ASSUME NEW t \in Active, Train102(t)
      PROVE  ReadsIInv' /\ Next
  <2>1. Ask(t) \/ Handler(t)
    BY <1>4 DEF Train102, Handler
  <2> QED
    BY <1>1, <1>4, <2>1, HandlerStep DEF Next
<1>5. ASSUME NEW t \in Active, Calculator(t)
      PROVE  ReadsIInv' /\ (Next \/ UNCHANGED vars)
  <2>1. ReadsIInv' /\ (NextEoa(t) \/ UNCHANGED vars)
    BY <1>1, <1>5, BeginStep, ReadBalStep, ReadPosRStep, CopyBalStep, CopyPosRStep
       DEF Calculator
  <2> QED
    BY <2>1 DEF Next, Handler
<1>6. CASE UNCHANGED readsVars
  BY <1>6, StutterReads DEF readsVars
<1> QED
  BY <1>2, <1>3, <1>4, <1>5, <1>6 DEF ReadsNext, Train101

\* However the reads of next_eoa and the stores of the reports of the other trains
\* are interleaved, each train is in a state it could be in alone, the resource
\* byte accounts for what they hold, and an answer being computed rests on what
\* still stands, as long as no train leaves its canton while its position is copied.
THEOREM ReadsPreserve == ReadsSpec => []InductiveUnlessLeft
<1>1. ReadsInit => left \/ ReadsIInv
  BY InitReads
<1>2. (left \/ ReadsIInv) /\ [ReadsNext]_readsVars => (left \/ ReadsIInv)'
  BY LeftStays, StepReads
<1>3. (left \/ ReadsIInv) <=> InductiveUnlessLeft
  BY DEF InductiveUnlessLeft
<1> QED
  BY <1>1, <1>2, <1>3, PTL DEF ReadsSpec

\* Each step of the reads and stores is one of Interlocking, or changes none of
\* its variables: the answers next_eoa gives are those of the table Answers,
\* whatever it has read of the other trains.
THEOREM ReadsComeToAnswers == ASSUME ~Apart PROVE ReadsSpec => ReadsAreAnswers
<1>1. ASSUME InductiveUnlessLeft, [ReadsNext]_readsVars
      PROVE  [left' \/ Next]_vars
  BY <1>1, LeftStays, StepReads DEF InductiveUnlessLeft
<1>2. InductiveUnlessLeft /\ [ReadsNext]_readsVars => [left' \/ Next]_vars
  BY <1>1
<1> QED
  BY <1>2, ReadsPreserve, PTL DEF ReadsSpec, ReadsAreAnswers

\* No train is then authorised where it does not hold the resource, and each
\* resource is held by one train: the locks next_eoa does not take are not needed
\* for that, whatever the track.
THEOREM ReadsAreSafe == ReadsSpec => []SafeUnlessLeft
<1>1. InductiveUnlessLeft => SafeUnlessLeft
  <2> SUFFICES ASSUME ReadsIInv
               PROVE  Accounted /\ \A t \in Active : inside[t] \subseteq held[t]
    BY DEF InductiveUnlessLeft, SafeUnlessLeft
  <2>1. IInv /\ Accounted
    BY DEF ReadsIInv, IInv
  <2>2. Active \subseteq Train
    BY BoundsAssumption
  <2> QED
    BY <2>1, <2>2, InsideHeld DEF InsideIsHeld
<1> QED
  BY <1>1, ReadsPreserve, PTL

\* Two trains are then never allowed on the part of the track that the same
\* resource protects.
THEOREM ReadsKeepZonesExclusive == ReadsSpec => [](left \/ ZonesExclusive)
<1>1. InductiveUnlessLeft => left \/ ZonesExclusive
  <2> SUFFICES ASSUME ReadsIInv
               PROVE  ZonesExclusive
    BY DEF InductiveUnlessLeft
  <2> QED
    BY HeldApart DEF ReadsIInv
<1> QED
  BY <1>1, ReadsPreserve, PTL

LEMMA CalculatorShares ==
    ASSUME ReadsIInv, ReadsIInv', NEW t \in Train, Calculator(t)
    PROVE  [Sharing!Next]_<< held, inside >>
<1>1. (\E e : Give(t, e)) \/ (\E r : Continue(t, r))
  BY DEF Calculator, BeginEoa, ReadBal, ReadPosR, CopyBal, CopyPosR, LookNext
<1>2. ASSUME NEW e, Give(t, e)
      PROVE  Sharing!Next
  BY <1>2, EoaShares DEF ReadsIInv, Give
<1>3. ASSUME NEW r, Continue(t, r)
      PROVE  UNCHANGED << held, inside >>
  BY <1>3 DEF Continue, vars, inside
<1> QED
  BY <1>1, <1>2, <1>3

\* Read by read, the RBC still shares out the track: what a request locks was
\* free, an authority only leads where the resources are held, and a report only
\* gives back what is not needed any more.
THEOREM ReadsShareTrack == ReadsSpec => SharesUnlessLeft
<1>1. ASSUME ReadsIInv, ReadsIInv', [ReadsNext]_readsVars
      PROVE  [Sharing!Next]_<< held, inside >>
  <2>1. Active \subseteq Train /\ IInv /\ IInv' /\ StoringOK
    BY <1>1, BoundsAssumption DEF ReadsIInv
  <2>2. ASSUME NEW t \in Active, NEW p \in Reports(t), StoreBal(t, p)
        PROVE  UNCHANGED << held, inside >>
    BY <2>2 DEF StoreBal, vars, inside
  <2>3. ASSUME NEW t \in Active, StorePosR(t)
        PROVE  Sharing!Next
    BY <2>1, <2>3, ReportShares DEF StorePosR, StoringOK
  <2>4. ASSUME NEW t \in Active, Train102(t)
        PROVE  [Sharing!Next]_<< held, inside >>
    BY <2>1, <2>4, LockShares, OthersShareNothing DEF Train102
  <2>5. ASSUME NEW t \in Active, Calculator(t)
        PROVE  [Sharing!Next]_<< held, inside >>
    BY <1>1, <2>1, <2>5, CalculatorShares
  <2>6. CASE UNCHANGED readsVars
    BY <2>6 DEF readsVars, vars, inside
  <2> QED
    BY <1>1, <2>2, <2>3, <2>4, <2>5, <2>6 DEF ReadsNext, Train101
<1>2. InductiveUnlessLeft /\ InductiveUnlessLeft' /\ [ReadsNext]_readsVars
        => [left' \/ Sharing!Next]_<< held, inside >>
  BY <1>1, LeftStays DEF InductiveUnlessLeft
<1> QED
  BY <1>2, ReadsPreserve, PTL DEF ReadsSpec, SharesUnlessLeft
-----------------------------------------------------------------------------
(* The authorities stop at the trains                                      *)

\* The position x of the canton n ahead of train t.
Spot(t, n, x) == [bal |-> Further(t, n), pos_r |-> x]

\* From where next_eoa of t searches canton n, and up to where it has searched
\* when it has found these pos_r there.
SearchFrom(t, n) == IF n = 0 THEN pos_trains[t] ELSE Spot(t, n, 0)
SearchTo(t, n, found) ==
    IF found = {} THEN Spot(t, n + 1, 0) ELSE Spot(t, n, nearest(found))

\* How far next_eoa of t, with local variables r, has searched for train u: it
\* looks at the train after t first.
Searched(t, r, u) ==
    IF r.k = 2 /\ u = (t + 1) % 3 THEN SearchTo(t, r.n, r.found) ELSE SearchFrom(t, r.n)

\* The authority of t, and the one it would have if the search for u ended here.
Ends(t, u) == { eoa[t] } \cup (IF Reading(t) THEN { Searched(t, reader[t], u) } ELSE {})

\* Neither of two trains, at p with the authority e and at q with f, stands inside
\* the way of the other, except at its ends; at the same position, one at most may
\* move.
ClearWays(t, p, e, u, q, f) ==
    /\ q \in MayBeAt(t, p, e) => q \in { p, e }
    /\ p \in MayBeAt(u, q, f) => p \in { q, f }
    /\ p = q => MayBeAt(t, p, e) = { p } \/ MayBeAt(u, q, f) = { q }

WaysClear ==
    \A t, u \in Train : t # u =>
        \A e \in Ends(t, u), f \in Ends(u, t) :
            ClearWays(t, Reported(t), e, u, Reported(u), f)

\* What next_eoa has found inside the authority of its train is the end of it, or
\* on the balise of the next request.
FindsEnd ==
    \A t \in Train : Reading(t) /\ reader[t].n > 0 =>
        \A x \in reader[t].found :
            Spot(t, reader[t].n, x) \in MayBeAt(t, pos_trains[t], eoa[t])
                => \/ Spot(t, reader[t].n, x) = eoa[t]
                   \/ Further(t, reader[t].n) = RequestBalise(t)

\* A train next_eoa has found on a balise is still there.
StillThere ==
    \A t, u \in Train :
        Reads(t, u) => ~HalfStored(u) /\ pos_trains[u].bal = Further(t, reader[t].n)

WaysIInv == ~left /\ ReadsIInv /\ StillThere /\ WaysClear /\ FindsEnd

InductiveUnlessTorn == torn \/ WaysIInv

-----------------------------------------------------------------------------
\* The way to a position on the way is the beginning of it.
LEMMA BetweenShortens ==
    ASSUME NEW t \in Train, NEW o \in Position(t), NEW e \in Position(t),
           NEW p \in Between[t][o][e]
    PROVE  /\ Between[t][o][p] \subseteq Between[t][o][e]
           /\ e \in Between[t][o][p] => e = p
           /\ o \in Between[t][o][e]
<1>1. p \in Position(t) /\ Before(t, o, p, e)
  BY BetweenFacts
<1>2. /\ Ahead(t, o, p) \in Nat /\ Ahead(t, o, e) \in Nat /\ Ahead(t, o, o) = 0
      /\ p.pos_r \in Nat /\ e.pos_r \in Nat /\ o.pos_r \in Nat
      /\ Ahead(t, o, e) = 0 => o.pos_r <= e.pos_r
      /\ BaliseAt(t, IndexOf[t][o.bal] + Ahead(t, o, p)) = p.bal
      /\ BaliseAt(t, IndexOf[t][o.bal] + Ahead(t, o, e)) = e.bal
  BY <1>1, AheadFacts
<1>3. ASSUME NEW x \in Between[t][o][p]
      PROVE  x \in Between[t][o][e]
  <2>1. x \in Position(t) /\ Before(t, o, x, p)
    BY <1>1, BetweenFacts
  <2>2. Ahead(t, o, x) \in Nat /\ x.pos_r \in Nat
    BY <2>1, AheadFacts
  <2>3. Before(t, o, x, e)
    BY <1>1, <1>2, <2>1, <2>2 DEF Before
  <2> QED
    BY <2>1, <2>3, BetweenFacts
<1>4. ASSUME e \in Between[t][o][p]
      PROVE  e = p
  <2>1. Before(t, o, e, p)
    BY <1>1, <1>4, BetweenFacts
  <2>2. Ahead(t, o, e) = Ahead(t, o, p) /\ e.pos_r = p.pos_r
    BY <1>1, <1>2, <2>1 DEF Before
  <2> QED
    BY <1>1, <1>2, <2>2 DEF Position
<1>5. Before(t, o, o, e)
  BY <1>2 DEF Before
<1> QED
  BY <1>3, <1>4, <1>5, BetweenFacts

\* A position of a further canton is as many cantons ahead, except one that is
\* not behind in the same canton.
LEMMA SpotAhead ==
    ASSUME NEW t \in Train, pos_trains[t] \in Position(t),
           NEW d \in 1 .. TailleChemin(t), NEW x \in PosR,
           d = TailleChemin(t) => x < pos_trains[t].pos_r
    PROVE  /\ Spot(t, d, x) \in Position(t)
           /\ Ahead(t, pos_trains[t], Spot(t, d, x)) = d
<1> DEFINE own == pos_trains[t]
           n == TailleChemin(t)
           i == IndexOf[t][own.bal]
           s == Spot(t, d, x)
<1>1. own.bal \in Balise(t) /\ own.pos_r \in Nat
  BY DEF Position, PosR
<1>2. n \in Nat \ {0} /\ i \in 0 .. n - 1
  BY <1>1, IndexFacts
<1>3. s = [bal |-> BaliseAt(t, i + d), pos_r |-> x]
  BY DEF Spot, Further
<1>4. BaliseAt(t, i + d) \in Balise(t)
  BY <1>2, BaliseAtInLoop
<1>5. s \in Position(t)
  BY <1>3, <1>4 DEF Position
<1>6. /\ d = Cantons(t, own.bal, s.bal) \/ (d = n /\ own.bal = s.bal)
      /\ BaliseAt(t, i + n) = own.bal
      /\ Cantons(t, own.bal, own.bal) = 0
  <2>1. d \in 0 .. n /\ n \in 0 .. n
    BY <1>2
  <2>2. BaliseAt(t, i + d) = s.bal <=> d = Cantons(t, own.bal, s.bal) \/ (d = n /\ own.bal = s.bal)
    BY <1>1, <1>3, <1>4, <2>1, CantonsFacts
  <2>3. BaliseAt(t, i + n) = own.bal <=> n = Cantons(t, own.bal, own.bal) \/ (n = n /\ own.bal = own.bal)
    BY <1>1, <2>1, CantonsFacts
  <2>4. Cantons(t, own.bal, own.bal) = IF i <= i THEN i - i ELSE i - i + n
    BY <1>1, CantonsFacts
  <2> HIDE DEF i, n
  <2> QED
    BY <1>2, <1>3, <2>2, <2>3, <2>4
<1>7. Ahead(t, own, s) = IF own.bal = s.bal /\ x < own.pos_r THEN n ELSE Cantons(t, own.bal, s.bal)
  BY <1>3 DEF Ahead
<1> HIDE DEF own, n, i, s
<1>8. Ahead(t, own, s) = d
  <2>1. CASE d = n
    BY <1>3, <1>6, <1>7, <2>1 DEF own, n
  <2>2. CASE d # n
    <3>1. d = Cantons(t, own.bal, s.bal) /\ own.bal # s.bal
      BY <1>2, <1>6, <2>2
    <3> QED
      BY <1>7, <3>1
  <2> QED
    BY <2>1, <2>2
<1> QED
  BY <1>5, <1>8 DEF own, s

\* Next_eoa of t has not met the balise of the next request before canton n, and
\* has found these pos_r there.
Searching(t, n, found) ==
    /\ n \in 0 .. TailleChemin(t)
    /\ found \subseteq PosR
    /\ \A m \in 1 .. n - 1 : Further(t, m) # RequestBalise(t)
    /\ IF n = 0 THEN found = {} ELSE Request(t, n) \subseteq found

\* The search ends within a lap, on the balise of the next request at the latest.
LEMMA SearchEnds ==
    ASSUME NEW t \in Train, pos_trains[t] \in Position(t), RequestBalise(t) \in Balise(t),
           NEW n, NEW found, Searching(t, n, found)
    PROVE  /\ n = TailleChemin(t) => Further(t, n) = RequestBalise(t)
           /\ n = TailleChemin(t) => Further(t, n) = pos_trains[t].bal
           /\ found = {} => n + 1 \in 1 .. TailleChemin(t)
           /\ found = {} => \A m \in 1 .. n : Further(t, m) # RequestBalise(t)
           /\ found # {} => /\ n \in 1 .. TailleChemin(t)
                            /\ nearest(found) \in found
                            /\ \A y \in found : nearest(found) <= y
           /\ n # 0 /\ Further(t, n) = RequestBalise(t) => found # {} /\ nearest(found) = 0
<1> DEFINE own == pos_trains[t]
           target == RequestBalise(t)
           size == TailleChemin(t)
<1>1. own.bal \in Balise(t) /\ size \in Nat \ {0} /\ PosR \subseteq Nat
  BY IndexFacts DEF Position, PosR
<1>2. n \in 0 .. size /\ \A m \in 1 .. n - 1 : Further(t, m) # target
  BY DEF Searching
<1>3. PICK d \in 1 .. size : Further(t, d) = target
  BY <1>1, MetWithinALap DEF Further
<1> HIDE DEF size
<1>4. n = size => Further(t, n) = target
  <2> SUFFICES ASSUME n = size
               PROVE  Further(t, n) = target
    OBVIOUS
  <2>1. ~(d \in 1 .. n - 1)
    BY <1>2, <1>3
  <2>2. d = n
    BY <1>1, <1>3, <2>1
  <2> QED
    BY <1>3, <2>2
<1>5. Further(t, size) = own.bal
  <2>1. size \in 0 .. size
    BY <1>1
  <2> QED
    BY <1>1, <2>1, CantonsFacts DEF Further, size
<1>6. found = {} => /\ n + 1 \in 1 .. size
                    /\ \A m \in 1 .. n : Further(t, m) # target
  <2> SUFFICES ASSUME found = {}
               PROVE  /\ n + 1 \in 1 .. size
                      /\ \A m \in 1 .. n : Further(t, m) # target
    OBVIOUS
  <2>1. n # 0 => Further(t, n) # target
    BY DEF Searching, Request
  <2>2. \A m \in 1 .. n : Further(t, m) # target
    BY <1>2, <2>1
  <2>3. ~(d \in 1 .. n)
    BY <1>3, <2>2
  <2> QED
    BY <1>1, <1>2, <1>3, <2>2, <2>3
<1>7. found # {} => /\ n \in 1 .. size
                    /\ nearest(found) \in found
                    /\ \A y \in found : nearest(found) <= y
  <2>1. found \in SUBSET Nat
    BY <1>1 DEF Searching
  <2>2. found # {} => n # 0
    BY DEF Searching
  <2> QED
    BY <1>2, <2>1, <2>2, MinInSet DEF nearest
<1>8. n # 0 /\ Further(t, n) = target => found # {} /\ nearest(found) = 0
  <2> SUFFICES ASSUME n # 0, Further(t, n) = target
               PROVE  found # {} /\ nearest(found) = 0
    OBVIOUS
  <2>1. 0 \in found
    BY DEF Searching, Request
  <2>2. nearest(found) \in Nat /\ nearest(found) <= 0
    BY <1>1, <1>7, <2>1 DEF Searching
  <2> QED
    BY <2>1, <2>2
<1> QED
  BY <1>4, <1>5, <1>6, <1>7, <1>8 DEF size

\* How far ahead the search begins and ends; both are authorities next_eoa could
\* give to a train alone.
LEMMA SearchFacts ==
    ASSUME NEW t \in Train, pos_trains[t] \in Position(t), RequestBalise(t) \in Balise(t),
           ~(RequestBalise(t) = pos_trains[t].bal /\ pos_trains[t].pos_r <= 0),
           NEW n, NEW found, Searching(t, n, found)
    PROVE  /\ SearchFrom(t, n) \in Position(t)
           /\ SearchFrom(t, n) \in EoaRange(t, pos_trains[t], RequestBalise(t))
           /\ Ahead(t, pos_trains[t], SearchFrom(t, n)) = n
           /\ SearchTo(t, n, found) \in Position(t)
           /\ SearchTo(t, n, found) \in EoaRange(t, pos_trains[t], RequestBalise(t))
           /\ Ahead(t, pos_trains[t], SearchTo(t, n, found)) = IF found = {} THEN n + 1 ELSE n
<1> DEFINE own == pos_trains[t]
           target == RequestBalise(t)
           size == TailleChemin(t)
           at(m) == BaliseAt(t, IndexOf[t][own.bal] + m)
<1>1. own.bal \in Balise(t) /\ own.pos_r \in Nat /\ size \in Nat \ {0} /\ PosR \subseteq Nat
      /\ 0 \in PosR
  BY IndexFacts, BoundsAssumption DEF Position, PosR
<1>2. ASSUME NEW d \in 1 .. size, NEW x \in PosR,
             \A m \in 1 .. d - 1 : Further(t, m) # target,
             Further(t, d) = target => x = 0
      PROVE  /\ Spot(t, d, x) \in Position(t)
             /\ Spot(t, d, x) \in EoaRange(t, own, target)
             /\ Ahead(t, own, Spot(t, d, x)) = d
  <2>1. d = size => x < own.pos_r
    <3> SUFFICES ASSUME d = size
                 PROVE  x < own.pos_r
      OBVIOUS
    <3>1. Searching(t, d, { 0 })
      BY <1>1, <1>2 DEF Searching, Request
    <3>2. Further(t, d) = target /\ Further(t, d) = own.bal
      BY <3>1, SearchEnds
    <3> HIDE DEF own
    <3> QED
      BY <1>1, <1>2, <3>2 DEF own
  <2>2. /\ Spot(t, d, x) \in Position(t)
        /\ Ahead(t, own, Spot(t, d, x)) = d
    BY <2>1, SpotAhead
  <2>3. Spot(t, d, x) = [bal |-> at(d), pos_r |-> x]
    BY DEF Spot, Further
  <2>4. [bal |-> at(d), pos_r |-> x] \in EoaRange(t, own, target)
    BY <1>2, FoundInRange DEF Further
  <2> QED
    BY <2>2, <2>3, <2>4
<1>3. /\ SearchFrom(t, n) \in Position(t)
      /\ SearchFrom(t, n) \in EoaRange(t, own, target)
      /\ Ahead(t, own, SearchFrom(t, n)) = n
  <2>1. CASE n = 0
    <3>1. Ahead(t, own, own) = 0 /\ own.pos_r >= own.pos_r
      BY <1>1, AheadFacts
    <3> QED
      BY <2>1, <3>1 DEF SearchFrom, EoaRange
  <2>2. CASE n # 0
    <3>1. n \in 1 .. size /\ \A m \in 1 .. n - 1 : Further(t, m) # target
      BY <2>2 DEF Searching
    <3> QED
      BY <1>1, <1>2, <2>2, <3>1 DEF SearchFrom
  <2> QED
    BY <2>1, <2>2
<1>4. /\ SearchTo(t, n, found) \in Position(t)
      /\ SearchTo(t, n, found) \in EoaRange(t, own, target)
      /\ Ahead(t, own, SearchTo(t, n, found)) = IF found = {} THEN n + 1 ELSE n
  <2>1. CASE found = {}
    <3>1. n + 1 \in 1 .. size /\ \A m \in 1 .. n : Further(t, m) # target
      BY <2>1, SearchEnds
    <3>2. \A m \in 1 .. (n + 1) - 1 : Further(t, m) # target
      BY <3>1 DEF Searching
    <3> QED
      BY <1>1, <1>2, <2>1, <3>1, <3>2 DEF SearchTo
  <2>2. CASE found # {}
    <3>1. n \in 1 .. size /\ nearest(found) \in PosR
      BY <2>2, SearchEnds DEF Searching
    <3>2. \A m \in 1 .. n - 1 : Further(t, m) # target
      BY DEF Searching
    <3>3. Further(t, n) = target => nearest(found) = 0
      BY <1>1, <3>1, SearchEnds
    <3> QED
      BY <1>2, <2>2, <3>1, <3>2, <3>3 DEF SearchTo
  <2> QED
    BY <2>1, <2>2
<1> QED
  BY <1>3, <1>4

\* What next_eoa of t is searching.
LEMMA KnowsSearching ==
    ASSUME ReadsIInv, NEW t \in Train, Reading(t)
    PROVE  /\ Searching(t, reader[t].n, reader[t].found)
           /\ pos_trains[t] \in Position(t) /\ RequestBalise(t) \in Balise(t)
           /\ ~(RequestBalise(t) = pos_trains[t].bal /\ pos_trains[t].pos_r <= 0)
           /\ pc[t] = "eoa" /\ storing[t] = NoEoa
           /\ reader[t].k \in { 1, 2 } /\ reader[t].n \in Nat
<1>1. Knows(t, reader[t]) /\ reader[t] \in Reader
  BY ReadsFacts DEF ReadsIInv
<1>2. TailleChemin(t) \in Nat
  BY ReadsFacts, IndexFacts
<1> QED
  BY <1>1, <1>2, ReadsFacts DEF Knows, Searching, Reader

-----------------------------------------------------------------------------
\* Where a train says it is: on its loop, on the balise another thread reads, and
\* where it was last if its own thread has finished with it.
LEMMA ReportedFacts ==
    ASSUME ReadsIInv, NEW u \in Train
    PROVE  /\ Reported(u) \in Position(u)
           /\ Reported(u) \in MayBeAt(u, pos_trains[u], eoa[u]) \/ Reported(u) = pos_trains[u]
           /\ Reported(u).bal = InMemory(u).bal
           /\ ~HalfStored(u) => Reported(u) = pos_trains[u]
           /\ storing[u] = NoEoa => Reported(u) = pos_trains[u]
           /\ eoa[u] \in Position(u) \cup { NoEoa }
<1>1. pos_trains[u] \in Position(u) /\ eoa[u] \in Position(u) \cup { NoEoa }
  BY DEF ReadsIInv, IInv, TypeOK
<1>2. storing[u] # NoEoa => /\ storing[u] \in MayBeAt(u, pos_trains[u], eoa[u])
                            /\ storing[u] \in Position(u)
  BY <1>1, MayBeAtFacts DEF ReadsIInv, StoringOK
<1>3. CASE HalfStored(u)
  BY <1>1, <1>2, <1>3 DEF Reported, HalfStored, InMemory
<1>4. CASE ~HalfStored(u)
  BY <1>1, <1>4 DEF Reported, HalfStored, InMemory, Leaves
<1> QED
  BY <1>3, <1>4

\* Each end of the way of t belongs to a state t could be in alone, where it holds
\* no more than it does.
LEMMA EndsFacts ==
    ASSUME ReadsIInv, NEW t \in Train, NEW u \in Train, NEW e \in Ends(t, u)
    PROVE  /\ e \in Position(t) \cup { NoEoa }
           /\ \E s \in Alone(t) : s.pos = Reported(t) /\ s.eoa = e /\ s.own \subseteq held[t]
<1>1. IInv /\ TypeOK
  BY DEF ReadsIInv, IInv
<1>2. SeenBy(t) \in Alone(t) /\ SeenBy(t) \in AloneState(t)
      /\ StepsAlone(t, SeenBy(t)) \subseteq Alone(t)
  BY <1>1, SeenTyped
<1>3. CASE e = eoa[t]
  <2>1. CASE ~HalfStored(t)
    BY <1>2, <1>3, <2>1, ReportedFacts DEF SeenBy
  <2>2. CASE HalfStored(t)
    <3> DEFINE s == ReportAlone(t, SeenBy(t), storing[t])
    <3>1. storing[t] \in MayBeAt(t, SeenBy(t).pos, SeenBy(t).eoa)
      BY <2>2 DEF HalfStored, ReadsIInv, StoringOK, SeenBy
    <3>2. s \in Alone(t)
      BY <1>2, <3>1 DEF StepsAlone
    <3>3. s.pos = storing[t] /\ s.eoa = eoa[t] /\ s.own \subseteq held[t]
      BY DEF ReportAlone, SeenBy
    <3>4. Reported(t) = storing[t]
      BY <2>2 DEF Reported
    <3> HIDE DEF s
    <3> QED
      BY <1>3, <3>2, <3>3, <3>4, ReportedFacts
  <2> QED
    BY <2>1, <2>2
<1>4. CASE Reading(t) /\ e = Searched(t, reader[t], u)
  <2> DEFINE s == NextEoaAlone(t, SeenBy(t), e)
  <2>1. /\ Searching(t, reader[t].n, reader[t].found)
        /\ pos_trains[t] \in Position(t) /\ RequestBalise(t) \in Balise(t)
        /\ ~(RequestBalise(t) = pos_trains[t].bal /\ pos_trains[t].pos_r <= 0)
        /\ pc[t] = "eoa" /\ storing[t] = NoEoa
    BY <1>4, KnowsSearching
  <2>2. e \in { SearchFrom(t, reader[t].n), SearchTo(t, reader[t].n, reader[t].found) }
    BY <1>4 DEF Searched
  <2>3. e \in Position(t) /\ e \in EoaRange(t, pos_trains[t], RequestBalise(t))
    BY <2>1, <2>2, SearchFacts
  <2>4. s \in StepsAlone(t, SeenBy(t))
    <3>1. SeenBy(t).pc = "eoa" /\ SeenBy(t).pos = pos_trains[t]
          /\ L_res_req[t][SeenBy(t).req + 1] = RequestBalise(t)
      BY <2>1 DEF SeenBy, RequestBalise
    <3> QED
      BY <2>3, <3>1 DEF StepsAlone
  <2>5. s.pos = Reported(t) /\ s.eoa = e /\ s.own = held[t]
    BY <2>1, ReportedFacts DEF NextEoaAlone, SeenBy
  <2> HIDE DEF s
  <2> QED
    BY <1>2, <2>3, <2>4, <2>5
<1> QED
  BY <1>3, <1>4 DEF Ends

\* Two ways only meet at their ends.
LEMMA WaysMeet ==
    ASSUME ReadsIInv, WaysClear, NEW t \in Train, NEW u \in Train, t # u,
           NEW e \in Ends(t, u), NEW f \in Ends(u, t)
    PROVE  MayBeAt(t, Reported(t), e) \cap MayBeAt(u, Reported(u), f)
             \subseteq { Reported(t), e }
<1>1. PICK s \in Alone(t) : s.pos = Reported(t) /\ s.eoa = e /\ s.own \subseteq held[t]
  BY EndsFacts
<1>2. PICK z \in Alone(u) : z.pos = Reported(u) /\ z.eoa = f /\ z.own \subseteq held[u]
  BY EndsFacts
<1> DEFINE v == Way(t, s)
           w == Way(u, z)
<1>3. v \in Ways[t] /\ w \in Ways[u]
  BY DEF Ways
<1>4. v.own \cap w.own = {}
  BY <1>1, <1>2 DEF ReadsIInv, IInv, Accounted, Way
<1>5. Clear(v, w)
  <2>1. ClearWays(t, Reported(t), e, u, Reported(u), f)
    BY DEF WaysClear
  <2> QED
    BY <1>1, <1>2, <2>1 DEF Clear, Way, ClearWays
<1>6. v.at \cap w.at \subseteq { v.pos, v.eoa }
  <2> HIDE DEF v, w
  <2> QED
    BY <1>3, <1>4, <1>5, MergeAssumption
<1> QED
  BY <1>1, <1>2, <1>6 DEF Way

-----------------------------------------------------------------------------
\* The same, seen from the other train.
LEMMA ClearWaysSymmetric ==
    ASSUME NEW t, NEW p, NEW e, NEW u, NEW q, NEW f
    PROVE  ClearWays(t, p, e, u, q, f) <=> ClearWays(u, q, f, t, p, e)
BY DEF ClearWays

\* A train that moves on its way stays clear.
LEMMA MovedClear ==
    ASSUME NEW t \in Train, NEW p \in Position(t), NEW e \in Position(t) \cup { NoEoa },
           NEW o \in MayBeAt(t, p, e), NEW u, NEW q, NEW f,
           ClearWays(t, p, e, u, q, f),
           MayBeAt(t, p, e) \cap MayBeAt(u, q, f) \subseteq { q, f }
    PROVE  ClearWays(t, o, e, u, q, f)
<1>1. /\ MayBeAt(t, o, e) \subseteq MayBeAt(t, p, e)
      /\ o # p => p \notin MayBeAt(t, o, e)
      /\ o = e => MayBeAt(t, o, e) = { o }
  BY MayBeAtFacts
<1>2. q \in MayBeAt(t, o, e) => q \in { o, e }
  BY <1>1 DEF ClearWays
<1>3. o = q => MayBeAt(t, o, e) = { o } \/ MayBeAt(u, q, f) = { q }
  BY <1>1 DEF ClearWays
<1> QED
  BY <1>2, <1>3 DEF ClearWays

\* A search that ends earlier leaves the train as clear.
LEMMA ShortenedClear ==
    ASSUME NEW t \in Train, NEW p \in Position(t), NEW e \in Position(t) \cup { NoEoa },
           NEW o \in MayBeAt(t, p, e), NEW u, NEW q, NEW f,
           ClearWays(t, p, e, u, q, f)
    PROVE  ClearWays(t, p, o, u, q, f)
<1>1. o \in Position(t)
  BY MayBeAtFacts
<1>2. o # NoEoa
  BY <1>1, NoEoaFacts
<1>3. /\ MayBeAt(t, p, o) \subseteq MayBeAt(t, p, e)
      /\ p \in MayBeAt(t, p, o)
      /\ e \in MayBeAt(t, p, o) => e = o \/ e = NoEoa
  <2>1. CASE e = NoEoa
    BY <1>2, <2>1, BetweenItself DEF MayBeAt
  <2>2. CASE e # NoEoa
    <3>1. e \in Position(t) /\ o \in Between[t][p][e]
      BY <2>2 DEF MayBeAt
    <3>2. /\ Between[t][p][o] \subseteq Between[t][p][e]
          /\ e \in Between[t][p][o] => e = o
      BY <3>1, BetweenShortens
    <3>3. p \in Between[t][p][o]
      BY <1>1, BetweenItself, BetweenTotal
    <3> QED
      BY <1>2, <2>2, <3>2, <3>3 DEF MayBeAt
  <2> QED
    BY <2>1, <2>2
<1>4. e = NoEoa => MayBeAt(t, p, o) = { p }
  BY <1>3 DEF MayBeAt
<1> QED
  BY <1>3, <1>4 DEF ClearWays

\* The search for train u, at q, goes past canton n: u is not there, or its pos_r
\* is taken into account, or it is behind in the own canton.
LEMMA SearchClear ==
    ASSUME NEW t \in Train, pos_trains[t] \in Position(t), RequestBalise(t) \in Balise(t),
           ~(RequestBalise(t) = pos_trains[t].bal /\ pos_trains[t].pos_r <= 0),
           NEW n, NEW found, Searching(t, n, found), NEW u, NEW q, NEW f,
           ClearWays(t, pos_trains[t], SearchFrom(t, n), u, q, f),
           \/ q.bal # Further(t, n)
           \/ n # 0 /\ q.pos_r \in found
           \/ n = 0 /\ ~(q.pos_r >= pos_trains[t].pos_r)
    PROVE  ClearWays(t, pos_trains[t], SearchTo(t, n, found), u, q, f)
<1> DEFINE own == pos_trains[t]
           from == SearchFrom(t, n)
           to == SearchTo(t, n, found)
<1>1. /\ from \in Position(t) /\ Ahead(t, own, from) = n
      /\ to \in Position(t) /\ Ahead(t, own, to) = IF found = {} THEN n + 1 ELSE n
  BY SearchFacts
<1>2. /\ MayBeAt(t, own, from) = Between[t][own][from]
      /\ MayBeAt(t, own, to) = Between[t][own][to]
  BY <1>1, NoEoaFacts DEF MayBeAt
<1>3. own \in Position(t) /\ n \in Nat /\ own.pos_r \in Nat
  BY AheadFacts DEF Searching
<1>4. n = 0 => from = own
  BY DEF SearchFrom
<1>5. n # 0 => from = Spot(t, n, 0)
  BY DEF SearchFrom
<1>6. to = IF found = {} THEN Spot(t, n + 1, 0) ELSE Spot(t, n, nearest(found))
  BY DEF SearchTo
<1>7. found # {} => nearest(found) \in found /\ \A y \in found : nearest(found) <= y
  BY SearchEnds
<1>8. found \subseteq Nat /\ (n = 0 => found = {})
  BY DEF Searching, PosR
<1> HIDE DEF from, to
<1>9. q \in MayBeAt(t, own, to) => q \in { own, to }
  <2> SUFFICES ASSUME q \in Between[t][own][to]
               PROVE  q \in { own, to }
    BY <1>2
  <2> DEFINE a == Ahead(t, own, q)
  <2>1. q \in Position(t) /\ Before(t, own, q, to)
    BY <1>1, <1>3, BetweenFacts
  <2>2. a \in Nat /\ q.pos_r \in Nat /\ q.bal = Further(t, a)
    BY <1>3, <2>1, AheadFacts DEF Further
  <2>3. q = Spot(t, a, q.pos_r)
    BY <2>1, <2>2 DEF Spot, Position
  <2>4. from.pos_r \in Nat /\ to.pos_r \in Nat
    BY <1>1, AheadFacts
  <2>5. \/ a < Ahead(t, own, to)
        \/ a = Ahead(t, own, to) /\ q.pos_r <= to.pos_r
    BY <2>1 DEF Before
  <2>6. q \in Between[t][own][from] => q \in { own, from }
    BY <1>2 DEF ClearWays, from
  <2>7. q \in Between[t][own][from] <=> Before(t, own, q, from)
    BY <1>1, <1>3, <2>1, BetweenFacts
  <2>8. Before(t, own, q, from) <=> a < n \/ (a = n /\ q.pos_r <= from.pos_r)
    BY <1>1 DEF Before
  <2>9. a = n /\ q.bal = Further(t, n) =>
          \/ n # 0 /\ q.pos_r \in found
          \/ n = 0 /\ ~(q.pos_r >= own.pos_r)
    BY <2>2
  <2>10. q = from /\ n # 0 => a = n
    BY <1>1
  <2>11. CASE a = n /\ n # 0
    <3>1. q.pos_r \in found /\ found # {}
      BY <2>2, <2>9, <2>11
    <3>2. to = Spot(t, n, nearest(found)) /\ Ahead(t, own, to) = n
      BY <1>1, <1>6, <3>1
    <3>3. q.pos_r <= nearest(found) /\ nearest(found) <= q.pos_r /\ nearest(found) \in Nat
      BY <1>7, <1>8, <2>5, <2>11, <3>1, <3>2, <1>3 DEF Spot
    <3>4. q.pos_r = nearest(found)
      BY <2>2, <3>3
    <3> HIDE DEF a
    <3> QED
      BY <2>3, <2>11, <3>2, <3>4
  <2>12. CASE a = n /\ n = 0
    <3>1. ~(q.pos_r >= own.pos_r)
      BY <2>2, <2>9, <2>12
    <3>2. own.bal = q.bal /\ own.pos_r <= q.pos_r
      BY <1>3, <2>1, <2>12, AheadFacts
    <3> QED
      BY <1>3, <2>2, <3>1, <3>2
  <2>13. CASE a < n
    <3>1. q \in { own, from }
      BY <2>6, <2>7, <2>8, <2>13
    <3>2. n # 0
      BY <1>3, <2>2, <2>13
    <3>3. q # from
      BY <1>3, <2>2, <2>10, <2>13, <3>2
    <3> QED
      BY <3>1, <3>3
  <2>14. CASE ~(a <= n)
    <3>1. found = {} /\ a = n + 1 /\ q.pos_r <= to.pos_r
      BY <1>1, <1>3, <2>2, <2>5, <2>14
    <3>2. to = Spot(t, n + 1, 0)
      BY <1>6, <3>1
    <3>3. q.pos_r = 0
      BY <2>2, <3>1, <3>2 DEF Spot
    <3> HIDE DEF a
    <3> QED
      BY <2>3, <3>1, <3>2, <3>3
  <2> QED
    BY <1>3, <2>2, <2>11, <2>12, <2>13, <2>14
<1>10. own = q => MayBeAt(t, own, to) = { own } \/ MayBeAt(u, q, f) = { q }
  <2> SUFFICES ASSUME own = q
               PROVE  MayBeAt(u, q, f) = { q }
    OBVIOUS
  <2>1. MayBeAt(t, own, from) = { own } \/ MayBeAt(u, q, f) = { q }
    BY DEF ClearWays, from
  <2>2. n # 0
    <3>1. n = 0 => q.bal = Further(t, n)
      BY <1>3, IndexFacts DEF Further, Position
    <3> QED
      BY <1>3, <3>1
  <2>3. from \in MayBeAt(t, own, from)
    BY <1>1, <1>2, <1>3, BetweenTotal
  <2>4. Ahead(t, own, own) = 0
    BY <1>3, AheadFacts
  <2>5. from # own
    BY <1>1, <1>3, <2>2, <2>4
  <2> QED
    BY <2>1, <2>3, <2>5
<1> QED
  BY <1>9, <1>10 DEF ClearWays, to

\* What next_eoa finds next only shortens its search.
LEMMA SearchShortens ==
    ASSUME NEW t \in Train, pos_trains[t] \in Position(t), RequestBalise(t) \in Balise(t),
           ~(RequestBalise(t) = pos_trains[t].bal /\ pos_trains[t].pos_r <= 0),
           NEW n, NEW found, Searching(t, n, found),
           NEW less, Searching(t, n, less), less \subseteq found
    PROVE  SearchTo(t, n, found) \in MayBeAt(t, pos_trains[t], SearchTo(t, n, less))
<1> DEFINE own == pos_trains[t]
           to == SearchTo(t, n, found)
           far == SearchTo(t, n, less)
<1>1. /\ to \in Position(t) /\ Ahead(t, own, to) = IF found = {} THEN n + 1 ELSE n
      /\ far \in Position(t) /\ Ahead(t, own, far) = IF less = {} THEN n + 1 ELSE n
  BY SearchFacts
<1>2. n \in Nat
  BY AheadFacts DEF Searching
<1>3. less # {} => /\ to.pos_r = nearest(found) /\ far.pos_r = nearest(less)
                   /\ nearest(found) <= nearest(less)
  <2> SUFFICES ASSUME less # {}
               PROVE  /\ to.pos_r = nearest(found) /\ far.pos_r = nearest(less)
                      /\ nearest(found) <= nearest(less)
    OBVIOUS
  <2>1. nearest(less) \in less /\ \A y \in found : nearest(found) <= y
    BY SearchEnds
  <2> QED
    BY <2>1 DEF SearchTo, Spot
<1>4. CASE found = {}
  <2>1. to = far
    BY <1>4 DEF SearchTo
  <2> QED
    BY <1>1, <2>1, BetweenTotal, NoEoaFacts DEF MayBeAt
<1>5. CASE found # {}
  <2>1. Before(t, own, to, far)
    <3> HIDE DEF to, far, own
    <3> QED
      BY <1>1, <1>2, <1>3, <1>5 DEF Before
  <2>2. to \in Between[t][own][far]
    BY <1>1, <2>1, BetweenFacts
  <2> QED
    BY <1>1, <2>2, NoEoaFacts DEF MayBeAt
<1> QED
  BY <1>4, <1>5

\* Where the ends of the ways come from.
LEMMA EndsSame ==
    ASSUME NEW t, NEW u, pos_trains'[t] = pos_trains[t], eoa'[t] = eoa[t],
           reader'[t] = reader[t]
    PROVE  Ends(t, u)' = Ends(t, u)
BY DEF Ends, Searched, SearchFrom, SearchTo, Spot, Further, Reading

\* A step that changes the ways of train t only, after which it is clear of the
\* others.
LEMMA ClearStep ==
    ASSUME WaysClear, NEW t \in Train,
           \A v \in Train \ {t} : /\ pos_trains'[v] = pos_trains[v] /\ eoa'[v] = eoa[v]
                                  /\ reader'[v] = reader[v] /\ storing'[v] = storing[v],
           \A u \in Train \ {t} : \A e \in Ends(t, u)', f \in Ends(u, t) :
              ClearWays(t, Reported(t)', e, u, Reported(u), f)
    PROVE  WaysClear'
<1>1. \A v \in Train \ {t} : /\ Reported(v)' = Reported(v)
                             /\ \A w : Ends(v, w)' = Ends(v, w)
  BY EndsSame DEF Reported, HalfStored, Leaves
<1>2. ASSUME NEW v \in Train, NEW w \in Train, v # w,
             NEW e \in Ends(v, w)', NEW f \in Ends(w, v)'
      PROVE  ClearWays(v, Reported(v)', e, w, Reported(w)', f)
  <2>1. CASE v = t
    BY <1>1, <1>2, <2>1
  <2>2. CASE w = t
    <3>1. ClearWays(w, Reported(w)', f, v, Reported(v)', e)
      BY <1>1, <1>2, <2>2
    <3> QED
      BY <3>1, ClearWaysSymmetric
  <2>3. CASE v # t /\ w # t
    BY <1>1, <1>2, <2>3 DEF WaysClear
  <2> QED
    BY <2>1, <2>2, <2>3
<1>3. \A v, w : \A p, e, q, f : ClearWays(v, p, e, w, q, f)' = ClearWays(v, p, e, w, q, f)
  BY DEF ClearWays
<1> QED
  BY <1>2 DEF WaysClear, ClearWays

\* What next_eoa of t, about to answer or to go on with the local variables r, has
\* searched is clear of the other trains.
SearchedClear(t, r) ==
    \A u \in Train \ {t} : \A f \in Ends(u, t) :
        ClearWays(t, pos_trains[t], Searched(t, r, u), u, Reported(u), f)

\* What it has found at canton n inside the authority of its train is the end of
\* it, or on the balise of the next request.
FoundEnd(t, n, found) ==
    \A x \in found :
        Spot(t, n, x) \in MayBeAt(t, pos_trains[t], eoa[t])
            => \/ Spot(t, n, x) = eoa[t]
               \/ Further(t, n) = RequestBalise(t)

\* Next_eoa goes on.
LEMMA ContinueWays ==
    ASSUME WaysIInv, ReadsIInv', NEW t \in Train, Reading(t)', NEW r, Continue(t, r),
           UNCHANGED << storing, left >>, storing[t] = NoEoa,
           SearchedClear(t, r), r.n > 0 => FoundEnd(t, r.n, r.found),
           r.at \in { "pos_r", "copy", "copy_r" } =>
              LET u == (t + r.k) % 3 IN
              ~HalfStored(u) /\ pos_trains[u].bal = Further(t, r.n)
    PROVE  WaysIInv'
<1>1. ReadsIInv /\ UNCHANGED vars /\ reader \in [Train -> Reader]
  BY DEF WaysIInv, ReadsIInv, ReadsTypeOK, Continue
<1>2. /\ reader'[t] = r
      /\ \A v \in Train \ {t} : reader'[v] = reader[v]
  BY <1>1 DEF Continue
<1>3. Reported(t)' = pos_trains[t] /\ Reported(t) = pos_trains[t]
  BY <1>1 DEF Reported, HalfStored, vars
<1>4. /\ \A v : HalfStored(v)' = HalfStored(v) /\ Reported(v)' = Reported(v)
      /\ \A v, n : Further(v, n)' = Further(v, n)
      /\ \A v, n, x : Spot(v, n, x)' = Spot(v, n, x)
      /\ \A v : RequestBalise(v)' = RequestBalise(v)
      /\ \A v : MayBeAt(v, pos_trains[v], eoa[v])' = MayBeAt(v, pos_trains[v], eoa[v])
  BY <1>1 DEF HalfStored, Reported, Leaves, Further, Spot, RequestBalise, MayBeAt, vars
<1>5. WaysClear'
  <2>1. ASSUME NEW u \in Train \ {t}, NEW e \in Ends(t, u)', NEW f \in Ends(u, t)
        PROVE  ClearWays(t, Reported(t)', e, u, Reported(u), f)
    <3>1. Ends(t, u)' = { eoa[t], Searched(t, r, u) }
      BY <1>1, <1>2 DEF Ends, Searched, SearchFrom, SearchTo, Spot, Further, vars
    <3>2. ClearWays(t, Reported(t), eoa[t], u, Reported(u), f)
      BY DEF WaysIInv, WaysClear, Ends
    <3> QED
      BY <1>3, <2>1, <3>1, <3>2 DEF SearchedClear
  <2> QED
    BY <1>1, <1>2, <2>1, ClearStep DEF vars, WaysIInv
<1>6. FindsEnd'
  <2> SUFFICES ASSUME NEW v \in Train, Reading(v)', reader'[v].n > 0, NEW x \in reader'[v].found,
                      Spot(v, reader'[v].n, x) \in MayBeAt(v, pos_trains[v], eoa[v])
               PROVE  \/ Spot(v, reader'[v].n, x) = eoa[v]
                      \/ Further(v, reader'[v].n) = RequestBalise(v)
    BY <1>1, <1>4 DEF FindsEnd, vars
  <2>1. CASE v = t
    BY <1>2, <2>1 DEF FoundEnd
  <2>2. CASE v # t
    BY <1>2, <2>2 DEF WaysIInv, FindsEnd, Reading
  <2> QED
    BY <2>1, <2>2
<1>7. StillThere'
  <2> SUFFICES ASSUME NEW v \in Train, NEW u \in Train, Reads(v, u)'
               PROVE  ~HalfStored(u) /\ pos_trains[u].bal = Further(v, reader'[v].n)
    BY <1>1, <1>4 DEF StillThere, vars
  <2>1. CASE v = t
    BY <1>2, <2>1 DEF Reads, Looked
  <2>2. CASE v # t
    BY <1>2, <2>2 DEF WaysIInv, StillThere, Reads, Looked
  <2> QED
    BY <2>1, <2>2
<1> QED
  BY <1>5, <1>6, <1>7 DEF WaysIInv

\* A position next_eoa answers inside the authority of its train is the end of it,
\* the balise of the next request, or where another train is when the train has
\* come up to it.
AnswerEnds(t, e) ==
    e \in MayBeAt(t, pos_trains[t], eoa[t])
        => \/ e = eoa[t]
           \/ e = [bal |-> RequestBalise(t), pos_r |-> 0]
           \/ \E u \in Train \ {t} : Reported(u) = pos_trains[t]

\* Next_eoa answers.
LEMMA GiveWays ==
    ASSUME WaysIInv, ReadsIInv', NEW t \in Train, NEW e \in Position(t), Give(t, e),
           UNCHANGED << storing, left >>, storing[t] = NoEoa, pc[t] = "eoa",
           \A u \in Train \ {t} : \A f \in Ends(u, t) :
              ClearWays(t, pos_trains[t], e, u, Reported(u), f),
           AnswerEnds(t, e)
    PROVE  WaysIInv' /\ \A v \in Train : Prolongs(v)
<1>1. ReadsIInv /\ IInv /\ TypeOK /\ reader \in [Train -> Reader]
  BY DEF WaysIInv, ReadsIInv, ReadsTypeOK, IInv
<1>2. /\ eoa'[t] = e /\ reader'[t] = NotReading /\ pos_trains' = pos_trains
      /\ \A v \in Train \ {t} : reader'[v] = reader[v] /\ eoa'[v] = eoa[v]
  BY <1>1 DEF Give, TypeOK
<1>3. Reported(t)' = pos_trains[t] /\ ~Reading(t)'
  BY <1>2 DEF Reported, HalfStored, Reading, NotReading
<1>4. /\ \A v : HalfStored(v)' = HalfStored(v)
      /\ \A v, n : Further(v, n)' = Further(v, n)
      /\ \A v, n, x : Spot(v, n, x)' = Spot(v, n, x)
      /\ \A v : RequestBalise(v)' = RequestBalise(v)
  BY <1>2 DEF HalfStored, Leaves, Further, Spot, RequestBalise, Give
<1>5. WaysClear'
  <2>1. \A u : Ends(t, u)' = { e }
    BY <1>2, <1>3 DEF Ends
  <2>2. \A u \in Train \ {t} : \A d \in Ends(t, u)', f \in Ends(u, t) :
          ClearWays(t, Reported(t)', d, u, Reported(u), f)
    BY <1>3, <2>1
  <2> QED
    BY <1>2, <2>2, ClearStep DEF WaysIInv
<1>6. FindsEnd'
  <2> SUFFICES ASSUME NEW v \in Train, Reading(v)', reader'[v].n > 0, NEW x \in reader'[v].found,
                      Spot(v, reader'[v].n, x) \in MayBeAt(v, pos_trains[v], eoa'[v])
               PROVE  \/ Spot(v, reader'[v].n, x) = eoa'[v]
                      \/ Further(v, reader'[v].n) = RequestBalise(v)
    BY <1>2, <1>4 DEF FindsEnd, MayBeAt
  <2>1. v # t
    BY <1>3
  <2> QED
    BY <1>2, <2>1 DEF WaysIInv, FindsEnd, Reading
<1>7. StillThere'
  <2> SUFFICES ASSUME NEW v \in Train, NEW u \in Train, Reads(v, u)'
               PROVE  ~HalfStored(u) /\ pos_trains[u].bal = Further(v, reader'[v].n)
    BY <1>2, <1>4 DEF StillThere
  <2>1. v # t
    BY <1>2 DEF Reads, NotReading
  <2> QED
    BY <1>2, <2>1 DEF WaysIInv, StillThere, Reads, Looked
<1>8. ASSUME NEW v \in Train
      PROVE  Prolongs(v)
  <2>1. CASE v # t
    BY <1>2, <2>1 DEF Prolongs
  <2>2. CASE v = t
    <3> DEFINE own == pos_trains[t]
               stop == [bal |-> RequestBalise(t), pos_r |-> 0]
    <3> SUFFICES ASSUME eoa[t] # NoEoa, e # eoa[t]
                 PROVE  \/ eoa[t] \in MayBeAt(t, own, e)
                        \/ \E u \in Train \ {t} : Reported(u) = own
      BY <1>2, <2>2 DEF Prolongs
    <3>1. own \in Position(t) /\ eoa[t] \in Position(t) /\ e # NoEoa
      BY <1>1, NoEoaFacts DEF TypeOK
    <3>2. eoa[t] \in Between[t][own][e] \/ e \in Between[t][own][eoa[t]]
      BY <3>1, BetweenTotal
    <3>3. stop \in MayBeAt(t, own, eoa[t]) => stop = eoa[t]
      <4>1. OrderlyAlone(t, SeenBy(t))
        BY <1>1, AloneAssumption DEF IInv
      <4>2. /\ SeenBy(t).pc = "eoa" /\ SeenBy(t).eoa = eoa[t] /\ SeenBy(t).pos = own
            /\ [bal |-> L_res_req[t][SeenBy(t).req + 1], pos_r |-> 0] = stop
        BY DEF SeenBy, RequestBalise
      <4> HIDE DEF stop
      <4> QED
        BY <4>1, <4>2 DEF OrderlyAlone
    <3> QED
      BY <3>1, <3>2, <3>3 DEF MayBeAt, AnswerEnds
  <2> QED
    BY <2>1, <2>2
<1> QED
  BY <1>5, <1>6, <1>7, <1>8 DEF WaysIInv

\* A step that gives no authority takes none back.
LEMMA NoNewEoa ==
    ASSUME eoa' = eoa
    PROVE  \A v \in Train : Prolongs(v)
BY DEF Prolongs

\* What is known of a train that searches.
LEMMA WaysSearching ==
    ASSUME WaysIInv, NEW t \in Train, Reading(t)
    PROVE  /\ ReadsIInv
           /\ Searching(t, reader[t].n, reader[t].found)
           /\ pos_trains[t] \in Position(t) /\ RequestBalise(t) \in Balise(t)
           /\ ~(RequestBalise(t) = pos_trains[t].bal /\ pos_trains[t].pos_r <= 0)
           /\ pc[t] = "eoa" /\ storing[t] = NoEoa /\ Reported(t) = pos_trains[t]
           /\ reader[t].k \in { 1, 2 } /\ reader[t].n \in Nat
           /\ SearchedClear(t, reader[t])
           /\ \A u \in Train \ {t} : \A f \in Ends(u, t) :
                ClearWays(t, pos_trains[t], eoa[t], u, Reported(u), f)
           /\ reader[t].n > 0 => FoundEnd(t, reader[t].n, reader[t].found)
<1>1. /\ ReadsIInv
      /\ Searching(t, reader[t].n, reader[t].found)
      /\ pos_trains[t] \in Position(t) /\ RequestBalise(t) \in Balise(t)
      /\ ~(RequestBalise(t) = pos_trains[t].bal /\ pos_trains[t].pos_r <= 0)
      /\ pc[t] = "eoa" /\ storing[t] = NoEoa
      /\ reader[t].k \in { 1, 2 } /\ reader[t].n \in Nat
  BY KnowsSearching DEF WaysIInv
<1>2. Reported(t) = pos_trains[t]
  BY <1>1, ReportedFacts
<1>3. ASSUME NEW u \in Train \ {t}, NEW f \in Ends(u, t)
      PROVE  /\ ClearWays(t, pos_trains[t], eoa[t], u, Reported(u), f)
             /\ ClearWays(t, pos_trains[t], Searched(t, reader[t], u), u, Reported(u), f)
  <2>1. eoa[t] \in Ends(t, u) /\ Searched(t, reader[t], u) \in Ends(t, u)
    BY DEF Ends
  <2> QED
    BY <1>2, <2>1 DEF WaysIInv, WaysClear
<1>4. reader[t].n > 0 => FoundEnd(t, reader[t].n, reader[t].found)
  BY DEF WaysIInv, FindsEnd, FoundEnd
<1> QED
  BY <1>1, <1>2, <1>3, <1>4 DEF SearchedClear

\* After a train has been looked at.
LEMMA LookNextWays ==
    ASSUME WaysIInv, ReadsIInv', NEW t \in Train, Reading(t),
           NEW found, Searching(t, reader[t].n, found), reader[t].found \subseteq found,
           LookNext(t, found), UNCHANGED << storing, left >>,
           LET q == Reported(Looked(t)) IN
             \/ q.bal # Further(t, reader[t].n)
             \/ reader[t].n # 0 /\ q.pos_r \in found
             \/ reader[t].n = 0 /\ ~(q.pos_r >= pos_trains[t].pos_r),
           reader[t].n > 0 => FoundEnd(t, reader[t].n, found)
    PROVE  WaysIInv' /\ \A v \in Train : Prolongs(v)
<1> DEFINE own == pos_trains[t]
           n == reader[t].n
           k == reader[t].k
           less == reader[t].found
           to == SearchTo(t, n, found)
           target == RequestBalise(t)
<1>1. /\ Searching(t, n, less)
      /\ own \in Position(t) /\ target \in Balise(t) /\ ~(target = own.bal /\ own.pos_r <= 0)
      /\ pc[t] = "eoa" /\ storing[t] = NoEoa /\ k \in { 1, 2 } /\ n \in Nat
      /\ SearchedClear(t, reader[t])
  BY WaysSearching
<1>2. /\ (t + 1) % 3 \in Train \ {t} /\ (t + 2) % 3 \in Train \ {t}
      /\ (t + 1) % 3 # (t + 2) % 3
      /\ \A u \in Train \ {t} : u = (t + 1) % 3 \/ u = (t + 2) % 3
  BY OtherTrains DEF Train
<1>3. Looked(t) = (t + k) % 3
  BY DEF Looked
<1>4. ASSUME NEW u \in Train \ {t}, u = Looked(t), NEW f \in Ends(u, t)
      PROVE  ClearWays(t, own, to, u, Reported(u), f)
  <2>1. Searched(t, reader[t], u) = SearchFrom(t, n)
    BY <1>1, <1>2, <1>3, <1>4 DEF Searched
  <2>2. ClearWays(t, own, SearchFrom(t, n), u, Reported(u), f)
    BY <1>1, <2>1 DEF SearchedClear
  <2>3. \/ Reported(u).bal # Further(t, n)
        \/ n # 0 /\ Reported(u).pos_r \in found
        \/ n = 0 /\ ~(Reported(u).pos_r >= own.pos_r)
    BY <1>4
  <2> HIDE DEF n, own
  <2> QED
    BY <1>1, <2>2, <2>3, SearchClear DEF n, own
<1>5. ASSUME NEW u \in Train \ {t}, u # Looked(t), k = 2, NEW f \in Ends(u, t)
      PROVE  ClearWays(t, own, to, u, Reported(u), f)
  <2>1. Searched(t, reader[t], u) = SearchTo(t, n, less)
    BY <1>2, <1>3, <1>5 DEF Searched
  <2>2. ClearWays(t, own, SearchTo(t, n, less), u, Reported(u), f)
    BY <1>1, <2>1 DEF SearchedClear
  <2>3. to \in MayBeAt(t, own, SearchTo(t, n, less)) /\ SearchTo(t, n, less) \in Position(t)
    BY <1>1, SearchShortens, SearchFacts
  <2> HIDE DEF to
  <2> QED
    BY <1>1, <2>2, <2>3, ShortenedClear
<1>6. CASE k = 1
  <2> DEFINE r == LookAt(2, n, found)
  <2>1. r.k = 2 /\ r.n = n /\ r.found = found /\ r.at = "bal"
    BY DEF LookAt
  <2>2. Continue(t, r)
    BY <1>6 DEF LookNext
  <2>3. Reading(t)'
    BY <2>1, <2>2 DEF Continue, Reading, WaysIInv, ReadsIInv, ReadsTypeOK
  <2> HIDE DEF r, n
  <2>4. SearchedClear(t, r)
    <3> SUFFICES ASSUME NEW u \in Train \ {t}, NEW f \in Ends(u, t)
                 PROVE  ClearWays(t, own, Searched(t, r, u), u, Reported(u), f)
      BY DEF SearchedClear
    <3>1. CASE u = Looked(t)
      <4>1. Searched(t, r, u) = to
        BY <1>3, <1>6, <2>1, <3>1 DEF Searched
      <4> QED
        BY <1>4, <3>1, <4>1
    <3>2. CASE u # Looked(t)
      <4>1. Searched(t, r, u) = Searched(t, reader[t], u)
        BY <1>3, <1>6, <2>1, <3>2 DEF Searched, n
      <4> QED
        BY <1>1, <4>1 DEF SearchedClear
    <3> QED
      BY <3>1, <3>2
  <2>5. r.n > 0 => FoundEnd(t, r.n, r.found)
    BY <2>1 DEF n
  <2>6. WaysIInv'
    BY <1>1, <2>1, <2>2, <2>3, <2>4, <2>5, ContinueWays
  <2>7. eoa' = eoa
    BY <2>2 DEF Continue, vars
  <2> QED
    BY <2>6, <2>7, NoNewEoa
<1>7. CASE k = 2 /\ found # {}
  <2>1. to = [bal |-> Canton(t), pos_r |-> nearest(found)]
    BY <1>7 DEF SearchTo, Spot, Canton
  <2>2. Give(t, to)
    BY <1>7, <2>1 DEF LookNext
  <2>3. to \in Position(t)
    BY <1>1, SearchFacts
  <2>4. \A u \in Train \ {t} : \A f \in Ends(u, t) : ClearWays(t, own, to, u, Reported(u), f)
    BY <1>4, <1>5, <1>7
  <2>5. AnswerEnds(t, to)
    <3>1. n > 0 /\ nearest(found) \in found
      BY <1>1, <1>7, SearchEnds
    <3>2. to = Spot(t, n, nearest(found))
      BY <2>1 DEF Spot, Canton
    <3>3. Further(t, n) = target => nearest(found) = 0
      BY <1>1, <3>1, SearchEnds
    <3> QED
      BY <3>1, <3>2, <3>3 DEF FoundEnd, AnswerEnds, Spot
  <2> HIDE DEF to
  <2> QED
    BY <1>1, <2>2, <2>3, <2>4, <2>5, GiveWays
<1>8. CASE k = 2 /\ found = {}
  <2> DEFINE r == LookAt(1, n + 1, Request(t, n + 1))
  <2>1. r.k = 1 /\ r.n = n + 1 /\ r.found = Request(t, n + 1) /\ r.at = "bal"
    BY DEF LookAt
  <2>2. Continue(t, r)
    BY <1>8 DEF LookNext
  <2>3. Reading(t)'
    BY <2>1, <2>2 DEF Continue, Reading, WaysIInv, ReadsIInv, ReadsTypeOK
  <2>4. \A u : Searched(t, r, u) = to
    <3>1. n + 1 # 0
      BY <1>1
    <3> QED
      BY <1>8, <2>1, <3>1 DEF Searched, SearchFrom, SearchTo
  <2>5. SearchedClear(t, r)
    BY <1>4, <1>5, <1>8, <2>4 DEF SearchedClear
  <2>6. FoundEnd(t, r.n, r.found)
    BY <2>1 DEF Request, FoundEnd
  <2> HIDE DEF r
  <2>7. WaysIInv'
    BY <1>1, <2>1, <2>2, <2>3, <2>5, <2>6, ContinueWays
  <2>8. eoa' = eoa
    BY <2>2 DEF Continue, vars
  <2> QED
    BY <2>7, <2>8, NoNewEoa
<1> QED
  BY <1>1, <1>6, <1>7, <1>8

LEMMA BeginWays ==
    ASSUME WaysIInv, ReadsIInv', NEW t \in Train, BeginEoa(t),
           UNCHANGED << storing, left >>
    PROVE  WaysIInv' /\ \A v \in Train : Prolongs(v)
<1> DEFINE own == pos_trains[t]
<1>1. /\ pc[t] = "eoa" /\ storing[t] = NoEoa /\ ReadsIInv
      /\ own \in Position(t) /\ eoa[t] \in Position(t) \cup { NoEoa }
  BY ReadsFacts, ReportedFacts DEF BeginEoa, Unlocked, WaysIInv
<1>2. Reported(t) = own
  BY <1>1, ReportedFacts
<1>3. own \in MayBeAt(t, own, eoa[t]) /\ own \in MayBeAt(t, own, own)
  BY <1>1, BetweenShortens, BetweenTotal, NoEoaFacts DEF MayBeAt
<1>4. ASSUME NEW u \in Train \ {t}, NEW f \in Ends(u, t)
      PROVE  ClearWays(t, own, own, u, Reported(u), f)
  <2>1. ClearWays(t, own, eoa[t], u, Reported(u), f)
    BY <1>2 DEF WaysIInv, WaysClear, Ends
  <2> QED
    BY <1>1, <1>3, <2>1, ShortenedClear
<1>5. CASE RequestBalise(t) = own.bal /\ own.pos_r <= 0
  <2>1. own = [bal |-> RequestBalise(t), pos_r |-> 0]
    BY <1>1, <1>5 DEF Position, PosR
  <2>2. Give(t, own)
    BY <1>5, <2>1 DEF BeginEoa
  <2>3. AnswerEnds(t, own)
    BY <2>1 DEF AnswerEnds
  <2> QED
    BY <1>1, <1>4, <2>2, <2>3, GiveWays
<1>6. CASE ~(RequestBalise(t) = own.bal /\ own.pos_r <= 0)
  <2> DEFINE r == LookAt(1, 0, {})
  <2>1. r.k = 1 /\ r.n = 0 /\ r.at = "bal"
    BY DEF LookAt
  <2>2. Continue(t, r)
    BY <1>6 DEF BeginEoa
  <2>3. Reading(t)'
    BY <2>1, <2>2 DEF Continue, Reading, WaysIInv, ReadsIInv, ReadsTypeOK
  <2> HIDE DEF r
  <2>4. SearchedClear(t, r)
    BY <1>4, <2>1 DEF SearchedClear, Searched, SearchFrom
  <2>5. WaysIInv'
    BY <1>1, <2>1, <2>2, <2>3, <2>4, ContinueWays
  <2>6. eoa' = eoa
    BY <2>2 DEF Continue, vars
  <2> QED
    BY <2>5, <2>6, NoNewEoa
<1> QED
  BY <1>5, <1>6

\* A read after which the search is where it was.
LEMMA SameSearchWays ==
    ASSUME WaysIInv, ReadsIInv', NEW t \in Train, Reading(t), NEW r, Continue(t, r),
           UNCHANGED << storing, left >>, r.at \in { "pos_r", "copy", "copy_r" },
           r.k = reader[t].k, r.n = reader[t].n, r.found = reader[t].found,
           ~HalfStored(Looked(t)), pos_trains[Looked(t)].bal = Further(t, r.n)
    PROVE  WaysIInv' /\ \A v \in Train : Prolongs(v)
<1>1. /\ storing[t] = NoEoa /\ SearchedClear(t, reader[t])
      /\ r.n > 0 => FoundEnd(t, r.n, r.found)
  BY WaysSearching
<1>2. SearchedClear(t, r)
  BY <1>1 DEF SearchedClear, Searched
<1>3. Reading(t)'
  BY DEF Continue, Reading, WaysIInv, ReadsIInv, ReadsTypeOK
<1>4. WaysIInv'
  BY <1>1, <1>2, <1>3, ContinueWays DEF Looked
<1>5. eoa' = eoa
  BY DEF Continue, vars
<1> QED
  BY <1>4, <1>5, NoNewEoa

LEMMA ReadBalWays ==
    ASSUME WaysIInv, ReadsIInv', ~torn', NEW t \in Train, ReadBal(t),
           UNCHANGED << storing, left >>
    PROVE  WaysIInv' /\ \A v \in Train : Prolongs(v)
<1> DEFINE r == reader[t]
           u == Looked(t)
<1>1. Reading(t) /\ ReadsIInv /\ r \in Reader
  BY ReadsFacts DEF ReadBal, Reading, WaysIInv
<1>2. u \in Train \ {t} /\ Reported(u).bal = InMemory(u).bal
  BY <1>1, LookedFacts, ReportedFacts
<1>3. CASE InMemory(u).bal = Canton(t)
  <2> DEFINE q == [r EXCEPT !.at = "pos_r"]
  <2>1. q.at = "pos_r" /\ q.k = r.k /\ q.n = r.n /\ q.found = r.found
    BY <1>1, NextRead
  <2>2. Continue(t, q) /\ ~HalfStored(u)
    BY <1>3 DEF ReadBal
  <2>3. pos_trains[u].bal = Further(t, q.n)
    BY <1>1, <1>2, <1>3, <2>1, <2>2, ReportedFacts DEF Canton
  <2> HIDE DEF q
  <2> QED
    BY <1>1, <2>1, <2>2, <2>3, SameSearchWays
<1>4. CASE InMemory(u).bal # Canton(t)
  <2>1. LookNext(t, r.found)
    BY <1>4 DEF ReadBal
  <2>2. Reported(u).bal # Further(t, r.n)
    BY <1>2, <1>4 DEF Canton
  <2>3. Searching(t, r.n, r.found) /\ (r.n > 0 => FoundEnd(t, r.n, r.found))
    BY <1>1, WaysSearching
  <2> QED
    BY <1>1, <2>1, <2>2, <2>3, LookNextWays
<1> QED
  BY <1>3, <1>4

LEMMA ReadPosRWays ==
    ASSUME WaysIInv, ReadsIInv', NEW t \in Train, ReadPosR(t),
           UNCHANGED << storing, left >>
    PROVE  WaysIInv' /\ \A v \in Train : Prolongs(v)
<1> DEFINE r == reader[t]
           u == Looked(t)
           own == pos_trains[t]
           x == InMemory(u).pos_r
<1>1. Reading(t) /\ ReadsIInv /\ r \in Reader /\ r.at = "pos_r"
  BY ReadsFacts DEF ReadPosR, Reading, WaysIInv
<1>2. u \in Train \ {t} /\ x \in PosR
  BY <1>1, LookedFacts
<1>3. ~HalfStored(u) /\ pos_trains[u].bal = Further(t, r.n)
  BY <1>1, <1>2 DEF WaysIInv, StillThere, Reads
<1>4. /\ Reported(u) = pos_trains[u] /\ Reported(u) \in Position(u)
      /\ Reported(u).pos_r = x
  BY <1>1, <1>2, <1>3, ReportedFacts, MemoryFacts
<1>5. Reported(u) = Spot(t, r.n, x)
  BY <1>3, <1>4 DEF Spot, Position
<1>6. /\ Searching(t, r.n, r.found) /\ r.n \in Nat
      /\ own \in Position(t) /\ RequestBalise(t) \in Balise(t)
      /\ r.n > 0 => FoundEnd(t, r.n, r.found)
      /\ \A f \in Ends(u, t) : ClearWays(t, own, eoa[t], u, Reported(u), f)
  BY <1>1, <1>2, WaysSearching
<1> HIDE DEF x, u
<1>7. CASE r.n > 0
  <2> DEFINE found == r.found \cup { x }
  <2>1. r.n # 0
    <3> HIDE DEF r
    <3> QED
      BY <1>6, <1>7
  <2>2. Searching(t, r.n, found)
    BY <1>2, <1>6, <2>1 DEF Searching
  <2>3. LookNext(t, found)
    BY <1>7 DEF ReadPosR, x, u
  <2>4. FoundEnd(t, r.n, found)
    <3>1. FoundEnd(t, r.n, r.found)
      BY <1>6, <1>7
    <3>2. ASSUME Spot(t, r.n, x) \in MayBeAt(t, own, eoa[t])
          PROVE  Spot(t, r.n, x) = eoa[t] \/ Further(t, r.n) = RequestBalise(t)
      <4>1. eoa[u] \in Ends(u, t)
        BY DEF Ends
      <4>2. Spot(t, r.n, x) \in { own, eoa[t] }
        BY <1>5, <1>6, <3>2, <4>1 DEF ClearWays
      <4>3. ASSUME Spot(t, r.n, x) = own
            PROVE  Further(t, r.n) = RequestBalise(t)
        <5>1. Further(t, r.n) = own.bal
          BY <4>3 DEF Spot
        <5>2. own.bal \in Balise(t) /\ TailleChemin(t) \in Nat \ {0} /\ r.n \in 0 .. TailleChemin(t)
          BY <1>6, IndexFacts DEF Position, Searching
        <5>3. r.n = Cantons(t, own.bal, own.bal) \/ r.n = TailleChemin(t)
          BY <5>1, <5>2, CantonsFacts DEF Further
        <5>4. Cantons(t, own.bal, own.bal) = 0
          <6>1. /\ Cantons(t, own.bal, own.bal) = IndexOf[t][own.bal] - IndexOf[t][own.bal]
                /\ IndexOf[t][own.bal] \in 0 .. TailleChemin(t) - 1
            BY <5>2, IndexFacts, CantonsFacts
          <6> QED
            BY <5>2, <6>1
        <5> QED
          BY <1>6, <2>1, <5>3, <5>4, SearchEnds
      <4> QED
        BY <4>2, <4>3
    <3> QED
      BY <3>1, <3>2 DEF FoundEnd
  <2>5. Reported(u).pos_r \in found /\ r.found \subseteq found
    BY <1>4
  <2> HIDE DEF found
  <2> QED
    BY <1>1, <2>1, <2>2, <2>3, <2>4, <2>5, LookNextWays DEF u
<1>8. CASE ~(r.n > 0) /\ x >= own.pos_r
  <2> DEFINE q == [r EXCEPT !.at = "copy"]
  <2>1. q.at = "copy" /\ q.k = r.k /\ q.n = r.n /\ q.found = r.found
    BY <1>1, NextRead
  <2>2. Continue(t, q)
    BY <1>8 DEF ReadPosR, x, u
  <2> HIDE DEF q
  <2> QED
    BY <1>1, <1>3, <2>1, <2>2, SameSearchWays DEF u
<1>9. CASE ~(r.n > 0) /\ ~(x >= own.pos_r)
  <2>1. r.n = 0
    <3> HIDE DEF r
    <3> QED
      BY <1>6, <1>9
  <2>2. LookNext(t, {})
    BY <1>9 DEF ReadPosR, x, u
  <2>3. r.found = {} /\ Searching(t, r.n, {})
    BY <1>6, <2>1 DEF Searching
  <2>4. ~(Reported(u).pos_r >= own.pos_r)
    BY <1>4, <1>9
  <2> QED
    BY <1>1, <1>9, <2>1, <2>2, <2>3, <2>4, LookNextWays DEF u
<1> QED
  BY <1>7, <1>8, <1>9

LEMMA CopyBalWays ==
    ASSUME WaysIInv, ReadsIInv', NEW t \in Train, CopyBal(t),
           UNCHANGED << storing, left >>
    PROVE  WaysIInv' /\ \A v \in Train : Prolongs(v)
<1> DEFINE r == reader[t]
           u == Looked(t)
           b == InMemory(Looked(t)).bal
           q == [r EXCEPT !.at = "copy_r", !.bal = b]
<1>1. Reading(t) /\ ReadsIInv /\ r \in Reader /\ r.at = "copy"
  BY ReadsFacts DEF CopyBal, Reading, WaysIInv
<1>2. q.at = "copy_r" /\ q.k = r.k /\ q.n = r.n /\ q.found = r.found
  <2> HIDE DEF b, r
  <2> QED
    BY <1>1 DEF Reader, r
<1>3. Continue(t, q)
  BY DEF CopyBal
<1>4. u \in Train
  BY <1>1, LookedFacts
<1>5. ~HalfStored(u) /\ pos_trains[u].bal = Further(t, r.n)
  BY <1>1, <1>4 DEF WaysIInv, StillThere, Reads
<1> HIDE DEF q
<1> QED
  BY <1>1, <1>2, <1>3, <1>5, SameSearchWays

\* The train in front is copied whole, and there is no other one in the canton.
LEMMA CopyPosRWays ==
    ASSUME WaysIInv, ReadsIInv', NEW t \in Train, CopyPosR(t),
           UNCHANGED << storing, left >>
    PROVE  WaysIInv' /\ \A v \in Train : Prolongs(v)
<1> DEFINE r == reader[t]
           u == Looked(t)
           own == pos_trains[t]
           q == Reported(u)
<1>1. Reading(t) /\ ReadsIInv /\ r \in Reader /\ r.at = "copy_r" /\ Knows(t, r)
  BY ReadsFacts DEF CopyPosR, Reading, WaysIInv, ReadsIInv
<1>2. u \in Train \ {t}
  BY <1>1, LookedFacts
<1>3. ~HalfStored(u) /\ pos_trains[u].bal = Further(t, r.n)
  BY <1>1, <1>2 DEF WaysIInv, StillThere, Reads
<1>4. /\ q = pos_trains[u] /\ q \in Position(u)
      /\ q.pos_r = InMemory(u).pos_r
  BY <1>1, <1>2, <1>3, ReportedFacts, MemoryFacts
<1>5. /\ own \in Position(t) /\ pc[t] = "eoa" /\ storing[t] = NoEoa
      /\ Reported(t) = own
      /\ \A v \in Train \ {t} : \A f \in Ends(v, t) :
           ClearWays(t, own, eoa[t], v, Reported(v), f)
  BY <1>1, WaysSearching
<1>6. r.n = 0 /\ r.bal = own.bal /\ InMemory(u).pos_r >= own.pos_r
  BY <1>1 DEF Knows, Looked
<1>7. Further(t, 0) = own.bal /\ own.bal \in Balise(t)
  BY <1>5, IndexFacts DEF Further, Position
<1>8. q.bal = own.bal /\ q.bal \in Balise(u) /\ q.pos_r \in PosR
  BY <1>3, <1>4, <1>6, <1>7 DEF Position
<1>9. q \in Position(t) /\ q = [bal |-> r.bal, pos_r |-> InMemory(u).pos_r]
  BY <1>4, <1>6, <1>7, <1>8 DEF Position
<1>10. Give(t, q)
  BY <1>9 DEF CopyPosR
<1> HIDE DEF q, u
<1>11. ASSUME NEW v \in Train \ {t}, NEW f \in Ends(v, t)
       PROVE  ClearWays(t, own, q, v, Reported(v), f)
  <2>1. ClearWays(t, own, eoa[t], v, Reported(v), f)
    BY <1>5
  <2>2. MayBeAt(t, own, own) = { own }
    BY <1>5, BetweenItself, NoEoaFacts DEF MayBeAt
  <2>3. CASE v = u
    BY <2>1, <2>2, <2>3 DEF ClearWays, q
  <2>4. CASE v # u
    <3>1. Reported(v).bal # own.bal
      <4>1. Reported(v).bal \in Balise(v)
        BY <1>1, ReportedFacts DEF Position
      <4> QED
        BY <1>2, <1>7, <1>8, <2>4, <4>1, OtherTrains
    <3>2. Reported(v) \notin MayBeAt(t, own, q)
      <4> SUFFICES ASSUME Reported(v) \in Between[t][own][q]
                   PROVE  FALSE
        BY <1>9, NoEoaFacts DEF MayBeAt
      <4>1. Reported(v) \in Position(t) /\ Before(t, own, Reported(v), q)
        BY <1>5, <1>9, BetweenFacts
      <4>2. /\ Ahead(t, own, q) = 0
            /\ Ahead(t, own, Reported(v)) \in Nat
            /\ Ahead(t, own, Reported(v)) = 0 => own.bal = Reported(v).bal
        BY <1>4, <1>5, <1>6, <1>8, <1>9, <4>1, AheadFacts
      <4> QED
        BY <3>1, <4>1, <4>2 DEF Before
    <3> QED
      BY <2>1, <3>1, <3>2 DEF ClearWays
  <2> QED
    BY <2>3, <2>4
<1>12. AnswerEnds(t, q)
  <2>1. eoa[u] \in Ends(u, t)
    BY DEF Ends
  <2>2. q \in MayBeAt(t, own, eoa[t]) => q \in { own, eoa[t] }
    BY <1>2, <1>5, <2>1 DEF ClearWays, q
  <2> QED
    BY <1>2, <2>2 DEF AnswerEnds, q
<1> QED
  BY <1>5, <1>9, <1>10, <1>11, <1>12, GiveWays

\* A train moves on its way, and not out of a canton where next_eoa has found it.
LEMMA MoveWays ==
    ASSUME WaysIInv, ReadsIInv', ~left', NEW u \in Train, storing[u] # NoEoa \/ ~Reading(u),
           UNCHANGED << reader, eoa, next_bal_index_req >>,
           \A v \in Train \ {u} : pos_trains'[v] = pos_trains[v] /\ storing'[v] = storing[v],
           Reported(u)' \in MayBeAt(u, Reported(u), eoa[u]),
           \A t \in Train : Reads(t, u) =>
              ~HalfStored(u)' /\ pos_trains'[u].bal = pos_trains[u].bal
    PROVE  WaysIInv' /\ \A v \in Train : Prolongs(v)
<1>1. ReadsIInv /\ Reported(u) \in Position(u) /\ eoa[u] \in Position(u) \cup { NoEoa }
  BY ReportedFacts DEF WaysIInv
<1>2. ~Reading(u) /\ ~Reading(u)'
  BY KnowsSearching, <1>1 DEF Reading
<1>3. WaysClear'
  <2>1. Ends(u, u)' = { eoa[u] } /\ \A t : Ends(u, t)' = { eoa[u] } /\ Ends(u, t) = { eoa[u] }
    BY <1>2 DEF Ends
  <2>2. ASSUME NEW t \in Train \ {u}, NEW e \in Ends(u, t)', NEW f \in Ends(t, u)
        PROVE  ClearWays(u, Reported(u)', e, t, Reported(t), f)
    <3>1. e = eoa[u] /\ eoa[u] \in Ends(u, t)
      BY <2>1
    <3>2. ClearWays(u, Reported(u), eoa[u], t, Reported(t), f)
      BY <3>1 DEF WaysIInv, WaysClear
    <3>3. MayBeAt(t, Reported(t), f) \cap MayBeAt(u, Reported(u), eoa[u])
            \subseteq { Reported(t), f }
      BY <1>1, <3>1, WaysMeet DEF WaysIInv
    <3> QED
      BY <1>1, <3>1, <3>2, <3>3, MovedClear
  <2> QED
    BY <2>2, ClearStep DEF WaysIInv
<1>4. FindsEnd'
  <2> SUFFICES ASSUME NEW v \in Train, Reading(v)', (reader[v].n > 0)', NEW x \in reader'[v].found,
                      (Spot(v, reader[v].n, x) \in MayBeAt(v, pos_trains[v], eoa[v]))'
               PROVE  (\/ Spot(v, reader[v].n, x) = eoa[v]
                       \/ Further(v, reader[v].n) = RequestBalise(v))'
    BY DEF FindsEnd
  <2>1. v # u
    BY <1>2
  <2> QED
    BY <2>1 DEF WaysIInv, FindsEnd, Reading, Spot, Further, RequestBalise, MayBeAt
<1>5. StillThere'
  <2> SUFFICES ASSUME NEW v \in Train, NEW w \in Train, Reads(v, w)'
               PROVE  (~HalfStored(w) /\ pos_trains[w].bal = Further(v, reader[v].n))'
    BY DEF StillThere
  <2>1. Reads(v, w) /\ Reading(v)
    BY DEF Reads, Looked, Reading
  <2>2. v # u /\ ~HalfStored(w) /\ pos_trains[w].bal = Further(v, reader[v].n)
    BY <1>2, <2>1 DEF WaysIInv, StillThere
  <2>3. Further(v, reader[v].n)' = Further(v, reader[v].n)
    BY <2>2 DEF Further
  <2>4. CASE w = u
    BY <2>1, <2>2, <2>3, <2>4
  <2>5. CASE w # u
    BY <2>2, <2>3, <2>5 DEF HalfStored, Leaves
  <2> QED
    BY <2>4, <2>5
<1> QED
  BY <1>3, <1>4, <1>5, NoNewEoa DEF WaysIInv

LEMMA StoreBalWays ==
    ASSUME WaysIInv, ReadsIInv', ~torn', NEW u \in Active, NEW p \in Reports(u), StoreBal(u, p)
    PROVE  WaysIInv' /\ \A v \in Train : Prolongs(v)
<1>1. /\ ReadsIInv /\ u \in Train /\ UNCHANGED vars /\ reader' = reader
      /\ storing \in [Train -> Place \cup { NoEoa }]
      /\ storing[u] = NoEoa /\ ~Reading(u)
  BY BoundsAssumption DEF WaysIInv, ReadsIInv, ReadsTypeOK, StoreBal, Unlocked
<1>2. storing'[u] = p /\ \A v \in Train \ {u} : storing'[v] = storing[v]
  BY <1>1 DEF StoreBal
<1>3. Reported(u) = pos_trains[u] /\ p \in MayBeAt(u, pos_trains[u], eoa[u])
  BY <1>1, ReportedFacts DEF Reports
<1>4. p # NoEoa /\ pos_trains[u] \in MayBeAt(u, pos_trains[u], eoa[u])
  <2>1. pos_trains[u] \in Position(u) /\ eoa[u] \in Position(u) \cup { NoEoa }
    BY <1>1, ReadsFacts, ReportedFacts
  <2>2. p \in Position(u)
    BY <1>1, <1>3, <2>1, MayBeAtFacts
  <2> QED
    BY <1>1, <2>1, <2>2, NoEoaFacts, BetweenItself, BetweenTotal DEF MayBeAt
<1>5. HalfStored(u)' <=> Leaves(u, p)
  BY <1>1, <1>2, <1>4 DEF HalfStored, Leaves, vars
<1>6. Reported(u)' \in MayBeAt(u, Reported(u), eoa[u])
  BY <1>1, <1>2, <1>3, <1>4 DEF Reported, vars
<1>7. \A t \in Train : Reads(t, u) => ~Leaves(u, p)
  BY DEF StoreBal
<1>8. ~left'
  BY <1>7 DEF StoreBal, Copying, WaysIInv
<1> QED
  BY <1>1, <1>2, <1>5, <1>6, <1>7, <1>8, MoveWays DEF vars

LEMMA StorePosRWays ==
    ASSUME WaysIInv, ReadsIInv', NEW u \in Train, StorePosR(u)
    PROVE  WaysIInv' /\ ~left' /\ \A v \in Train : Prolongs(v)
<1> DEFINE p == storing[u]
<1>1. /\ ReadsIInv /\ TypeOK /\ p # NoEoa /\ Report(u, p) /\ reader' = reader
      /\ storing \in [Train -> Place \cup { NoEoa }]
      /\ p \in MayBeAt(u, pos_trains[u], eoa[u])
  BY DEF WaysIInv, ReadsIInv, IInv, ReadsTypeOK, StoringOK, StorePosR
<1>2. /\ storing'[u] = NoEoa /\ pos_trains'[u] = p
      /\ \A v \in Train \ {u} : storing'[v] = storing[v] /\ pos_trains'[v] = pos_trains[v]
      /\ UNCHANGED << eoa, next_bal_index_req >>
  BY <1>1 DEF StorePosR, Report, TypeOK
<1>3. HalfStored(u) <=> Leaves(u, p)
  BY <1>1 DEF HalfStored
<1>4. Reported(u)' = p /\ ~HalfStored(u)'
  BY <1>2 DEF Reported, HalfStored
<1>5. p \in MayBeAt(u, Reported(u), eoa[u])
  <2>1. CASE HalfStored(u)
    <3>1. Reported(u) = p
      BY <2>1 DEF Reported
    <3>2. p \in Position(u) /\ eoa[u] \in Position(u) \cup { NoEoa }
      BY <1>1, <3>1, ReportedFacts
    <3> HIDE DEF p
    <3>3. CASE eoa[u] = NoEoa
      BY <3>1, <3>3 DEF MayBeAt
    <3>4. CASE eoa[u] # NoEoa
      <4>1. Between[u][p][p] = { p }
        BY <3>2, BetweenItself
      <4>2. p \in Between[u][p][eoa[u]] \/ eoa[u] \in Between[u][p][p]
        BY <3>2, <3>4, BetweenTotal
      <4> QED
        BY <3>1, <3>4, <4>1, <4>2 DEF MayBeAt
    <3> QED
      BY <3>3, <3>4
  <2>2. CASE ~HalfStored(u)
    BY <1>1, <2>2, ReportedFacts
  <2> QED
    BY <2>1, <2>2
<1>6. \A t \in Train : Reads(t, u) => ~Leaves(u, p) /\ p.bal = pos_trains[u].bal
  BY <1>3 DEF WaysIInv, StillThere, Leaves
<1>7. ~left'
  BY <1>6 DEF StorePosR, Copying, WaysIInv
<1> QED
  BY <1>1, <1>2, <1>4, <1>5, <1>6, <1>7, MoveWays

\* The handler steps next_eoa takes no part in, and any other step that leaves the
\* positions, the authorities and the reads as they are.
LEMMA OtherWays ==
    ASSUME WaysIInv, ReadsIInv',
           UNCHANGED << pos_trains, eoa, reader, storing, left >>,
           \A v \in Train : Reading(v) => next_bal_index_req'[v] = next_bal_index_req[v]
    PROVE  WaysIInv' /\ \A v \in Train : Prolongs(v)
<1>1. /\ \A v : HalfStored(v)' = HalfStored(v) /\ Reported(v)' = Reported(v)
      /\ \A v, w : Ends(v, w)' = Ends(v, w)
  BY EndsSame DEF HalfStored, Reported, Leaves
<1>2. WaysClear'
  BY <1>1 DEF WaysIInv, WaysClear, ClearWays
<1>3. FindsEnd'
  BY DEF WaysIInv, FindsEnd, Reading, Spot, Further, RequestBalise
<1>4. StillThere'
  BY <1>1 DEF WaysIInv, StillThere, Reads, Looked, Further
<1> QED
  BY <1>2, <1>3, <1>4, NoNewEoa DEF WaysIInv

LEMMA HandlerWays ==
    ASSUME WaysIInv, ReadsIInv', NEW t \in Train, Train102(t)
    PROVE  WaysIInv' /\ \A v \in Train : Prolongs(v)
<1>1. UNCHANGED << pos_trains, eoa, reader, storing, left >>
  BY DEF Train102, Ask, LockRessources, SetSwitch, EndSwitches
<1>2. ASSUME NEW v \in Train, Reading(v)
      PROVE  next_bal_index_req'[v] = next_bal_index_req[v]
  <2>1. pc[v] = "eoa" /\ TypeOK
    BY <1>2, WaysSearching DEF ReadsIInv, IInv
  <2>2. CASE EndSwitches(t)
    BY <2>1, <2>2 DEF EndSwitches, TypeOK
  <2>3. CASE ~EndSwitches(t)
    BY <2>3 DEF Train102, Ask, LockRessources, SetSwitch
  <2> QED
    BY <2>2, <2>3
<1> QED
  BY <1>1, <1>2, OtherWays

LEMMA InitWays == ReadsInit => WaysIInv
<1> SUFFICES ASSUME ReadsInit
             PROVE  WaysIInv
  OBVIOUS
<1>1. ReadsIInv
  BY InitReads
<1>2. \A t \in Train : /\ ~Reading(t) /\ storing[t] = NoEoa
                       /\ \A u : ~Reads(t, u) /\ Ends(t, u) = { NoEoa }
  BY DEF ReadsInit, Init, NotReading, Reading, Reads, Ends
<1>3. \A t \in Train : \A p : MayBeAt(t, p, NoEoa) = { p }
  BY DEF MayBeAt
<1>4. WaysClear
  BY <1>2, <1>3 DEF WaysClear, ClearWays
<1> QED
  BY <1>1, <1>2, <1>4 DEF WaysIInv, FindsEnd, StillThere, ReadsInit

LEMMA TornStays == [ReadsNext]_readsVars /\ torn => torn'
BY DEF ReadsNext, Train101, Train102, Calculator, StoreBal, StorePosR, ReadBal, readsVars

LEMMA StepWays ==
    ASSUME WaysIInv, [ReadsNext]_readsVars, ~torn'
    PROVE  WaysIInv' /\ \A v \in Train : Prolongs(v)
<1>1. Active \subseteq Train /\ ReadsIInv /\ ~left
  BY BoundsAssumption DEF WaysIInv
<1>2. ~left' => ReadsIInv'
  BY <1>1, StepReads
<1>3. ASSUME NEW t \in Active, NEW p \in Reports(t), StoreBal(t, p)
      PROVE  WaysIInv' /\ \A v \in Train : Prolongs(v)
  <2>1. ~left'
    BY <1>1, <1>3 DEF StoreBal, Copying
  <2> QED
    BY <1>2, <1>3, <2>1, StoreBalWays
<1>4. ASSUME NEW t \in Active, StorePosR(t)
      PROVE  WaysIInv' /\ \A v \in Train : Prolongs(v)
  <2>1. ~left'
    <3>1. ASSUME Leaves(t, storing[t]), NEW v \in Train, Copying(v, t)
          PROVE  FALSE
      <4>1. ~HalfStored(t)
        BY <1>1, <3>1 DEF WaysIInv, StillThere, Copying
      <4> QED
        BY <1>4, <3>1, <4>1 DEF StorePosR, HalfStored
    <3> QED
      BY <1>1, <1>4, <3>1 DEF StorePosR
  <2> QED
    BY <1>1, <1>2, <1>4, <2>1, StorePosRWays
<1>5. ASSUME NEW t \in Active, Train102(t)
      PROVE  WaysIInv' /\ \A v \in Train : Prolongs(v)
  <2>1. ~left'
    BY <1>1, <1>5 DEF Train102
  <2> QED
    BY <1>1, <1>2, <1>5, <2>1, HandlerWays
<1>6. ASSUME NEW t \in Active, Calculator(t)
      PROVE  WaysIInv' /\ \A v \in Train : Prolongs(v)
  <2>1. UNCHANGED << storing, left >> /\ ~left'
    BY <1>1, <1>6 DEF Calculator
  <2>2. BeginEoa(t) \/ ReadBal(t) \/ ReadPosR(t) \/ CopyBal(t) \/ CopyPosR(t)
    BY <1>6 DEF Calculator
  <2> QED
    BY <1>1, <1>2, <2>1, <2>2, BeginWays, ReadBalWays, ReadPosRWays, CopyBalWays, CopyPosRWays
<1>7. CASE UNCHANGED readsVars
  BY <1>1, <1>2, <1>7, OtherWays DEF readsVars, vars
<1> QED
  BY <1>3, <1>4, <1>5, <1>6, <1>7 DEF ReadsNext, Train101

\* However the reads and the stores are interleaved, no train stands in the way of
\* another, neither in the way it has been given nor in what next_eoa has searched
\* of the next one, until one has changed canton between two reads of it.
THEOREM WaysStayClear == ReadsSpec => []InductiveUnlessTorn
<1>1. ReadsInit => InductiveUnlessTorn
  BY InitWays DEF InductiveUnlessTorn
<1>2. InductiveUnlessTorn /\ [ReadsNext]_readsVars => InductiveUnlessTorn'
  BY StepWays, TornStays DEF InductiveUnlessTorn
<1> QED
  BY <1>1, <1>2, PTL DEF ReadsSpec

\* The authority next_eoa has given does not run past what another train reports,
\* whichever trains run, be it in front, merging or on a loop it comes back to,
\* until one has changed canton between two reads of it.
THEOREM AuthoritiesStopAtTrains == ReadsSpec => []StopsUnlessTorn
<1>1. InductiveUnlessTorn => StopsUnlessTorn
  <2> SUFFICES ASSUME WaysIInv, NEW t \in Active, NEW u \in Active, t # u,
                      Reported(u) \in MayBeAt(t, Reported(t), eoa[t])
               PROVE  Reported(u) \in { Reported(t), eoa[t] }
    BY DEF InductiveUnlessTorn, StopsUnlessTorn, AuthorityStopsAtTrains
  <2>1. t \in Train /\ u \in Train /\ eoa[t] \in Ends(t, u) /\ eoa[u] \in Ends(u, t)
    BY BoundsAssumption DEF Ends
  <2>2. ClearWays(t, Reported(t), eoa[t], u, Reported(u), eoa[u])
    BY <2>1 DEF WaysIInv, WaysClear
  <2> QED
    BY <2>2 DEF ClearWays
<1> QED
  BY <1>1, WaysStayClear, PTL

\* next_eoa does not take back a part of the authority a train is running on, until
\* one has changed canton between two reads of it, except from a train that has
\* come up to exactly the position of another.
THEOREM AuthoritiesProlong == ReadsSpec => ProlongsUnlessTorn
<1> DEFINE A == torn' \/ \A t \in Train : Prolongs(t)
<1>1. ASSUME InductiveUnlessTorn, [ReadsNext]_readsVars
      PROVE  A
  BY <1>1, StepWays, TornStays DEF InductiveUnlessTorn
<1>2. ProlongsUnlessTorn <=> [][A]_readsVars
  BY DEF ProlongsUnlessTorn
<1> HIDE DEF A
<1>3. InductiveUnlessTorn /\ [ReadsNext]_readsVars => [A]_readsVars
  BY <1>1
<1> QED
  BY <1>2, <1>3, WaysStayClear, PTL DEF ReadsSpec
=============================================================================
