-------------------------- MODULE SpeedControlProofs --------------------------
(***************************************************************************)
(* What TLAPS proves of SpeedControl, on every stretch, with every limit   *)
(* and whatever the objectives are: a train that brakes keeps braking, it  *)
(* slows down before a slower canton, and it stops in time.                *)
(***************************************************************************)
EXTENDS SpeedControl, WellFoundedInduction, TLAPS

\* Every set of natural numbers has a smallest one.
LEMMA Smallest ==
    ASSUME NEW T, T \subseteq Nat, T # {}
    PROVE  \E n \in T : \A m \in T : n <= m
<1> DEFINE Less == OpToRel(<, Nat)
<1>1. IsWellFoundedOn(Less, Nat)
  BY NatLessThanWellFounded
<1> HIDE DEF Less
<1>2. PICK n \in T : \A m \in T : ~(<< m, n >> \in Less)
  BY <1>1, WFMin
<1>3. ASSUME NEW m \in T PROVE n <= m
  <2>1. ~(<< m, n >> \in Less)
    BY <1>2
  <2>2. m \in Nat /\ n \in Nat
    OBVIOUS
  <2>3. m < n => << m, n >> \in Less
    BY <2>2 DEF Less, OpToRel
  <2> QED BY <2>1, <2>2, <2>3
<1> QED BY <1>2, <1>3

\* The integer part of a square root exists.
LEMMA RacineOf ==
    ASSUME NEW x \in Nat
    PROVE  /\ Racine(x) \in Nat
           /\ Racine(x) * Racine(x) <= x
           /\ x < (Racine(x) + 1) * (Racine(x) + 1)
<1> DEFINE T == { n \in Nat : x < (n + 1) * (n + 1) }
<1>1. x < (x + 1) * (x + 1)
  OBVIOUS
<1>2. T \subseteq Nat /\ T # {}
  BY <1>1
<1>3. PICK n \in T : \A m \in T : n <= m
  BY <1>2, Smallest
<1>4. n * n <= x
  <2>1. CASE n = 0
    BY <2>1
  <2>2. CASE n # 0
    <3>1. n - 1 \in Nat /\ ~(n <= n - 1)
      BY <2>2
    <3>2. ~(x < ((n - 1) + 1) * ((n - 1) + 1))
      BY <3>1, <1>3
    <3>3. (n - 1) + 1 = n
      OBVIOUS
    <3> QED BY <3>2, <3>3
  <2> QED BY <2>1, <2>2
<1>5. n <= n * n
  OBVIOUS
<1>6. n \in 0 .. x /\ n * n <= x /\ x < (n + 1) * (n + 1)
  BY <1>4, <1>5
<1> HIDE DEF T
<1>7. \E m \in 0 .. x : m * m <= x /\ x < (m + 1) * (m + 1)
  BY <1>6
<1>8. Racine(x) \in 0 .. x /\ Racine(x) * Racine(x) <= x /\ x < (Racine(x) + 1) * (Racine(x) + 1)
  BY <1>7, Zenon DEF Racine
<1> QED BY <1>8

-----------------------------------------------------------------------------
(* The limits are natural numbers                                          *)

LEMMA SlowsDownNat ==
    ASSUME NEW v1 \in Nat, NEW v_next \in Nat, NEW end \in Nat, NEW pos_r \in Int
    PROVE  slows_down(v1, v_next, end, pos_r) \in Nat
<1> DEFINE start == 2 * end - (v1 * v1 - v_next * v_next)
           x == v1 * v1 - (2 * pos_r - start)
<1>1. v1 * v1 \in Nat /\ v_next * v_next \in Nat
  OBVIOUS
<1>2. ASSUME ~(2 * pos_r < start), ~(pos_r > end) PROVE x \in Nat
  BY <1>1, <1>2
<1>3. x \in Nat => Racine(x) \in Nat
  BY RacineOf
<1> QED BY <1>2, <1>3 DEF slows_down, Unlimited

LEMMA SpeedsUpNat ==
    ASSUME NEW v0 \in Nat, NEW v1 \in Nat, NEW pos_r \in Int
    PROVE  speeds_up(v0, v1, pos_r) \in Nat
<1> DEFINE end == v1 * v1 - v0 * v0
           x == v0 * v0 + end - 2 * pos_r
<1>1. v0 * v0 \in Nat /\ v1 * v1 \in Nat
  OBVIOUS
<1>2. ASSUME ~(2 * pos_r > end) PROVE x \in Nat
  BY <1>1, <1>2
<1>3. x \in Nat => Racine(x) \in Nat
  BY RacineOf
<1> QED BY <1>2, <1>3 DEF speeds_up, Unlimited

LEMMA LimitNat ==
    ASSUME NEW x \in Int
    PROVE  Limit(x) \in Nat
<1>1. ASSUME NEW v0 \in Nat, NEW v1 \in Nat, NEW v_next \in Nat, NEW end \in Nat, NEW p \in Int
      PROVE  get_limit_speed(v0, v1, v_next, end, p) \in Nat
  BY SlowsDownNat, SpeedsUpNat DEF get_limit_speed, Minimum
<1>2. /\ v_last \in Nat /\ v_limit[1] \in Nat /\ v_limit[2] \in Nat /\ v_limit[3] \in Nat
      /\ Lengths[1] \in Nat /\ Lengths[2] \in Nat /\ x - Lengths[1] \in Int
  BY StretchAssumption
<1> QED BY <1>1, <1>2 DEF Limit

-----------------------------------------------------------------------------
(* Types                                                                   *)

\* Types of the speed control.
DriveTypeOK ==
    /\ where \in Int
    /\ speed \in Nat
    /\ retenue \in Nat
    /\ goal \in Int
    /\ wait \in Nat
    /\ overran \in BOOLEAN

\* get_distance takes only a train past its objective for one with a lap to go.
LEMMA DistanceFacts ==
    ASSUME DriveTypeOK
    PROVE  /\ dist \in Int
           /\ ~Overruns /\ Past < Margin => dist = goal - where
<1>1. where \in Int /\ goal \in Int /\ LapLength \in Nat /\ Margin \in Nat
  BY StretchAssumption DEF DriveTypeOK
<1> QED
  BY <1>1 DEF dist, Past

LEMMA BrakedNat ==
    ASSUME NEW d \in Int
    PROVE  /\ braked(d) \in Nat
           /\ d >= 0 => /\ braked(d) * braked(d) <= 2 * d
                        /\ 2 * d < (braked(d) + 1) * (braked(d) + 1)
           /\ d < 0 => braked(d) = 0
<1>1. d >= 0 => 2 * d \in Nat
  OBVIOUS
<1> QED BY <1>1, RacineOf DEF braked

LEMMA InitTyped == DriveInit => DriveTypeOK /\ where = 0 /\ speed = 0
<1> SUFFICES ASSUME DriveInit PROVE DriveTypeOK /\ where = 0 /\ speed = 0
  OBVIOUS
<1>1. where = 0 /\ speed = 0 /\ retenue = 0 /\ goal \in Int /\ wait \in Nat
  BY StretchAssumption DEF DriveInit
<1>2. overran \in BOOLEAN
  BY DEF DriveInit
<1> QED
  BY <1>1, <1>2 DEF DriveTypeOK

\* Every variable of the stretch keeps its type; in particular the speed
\* boucle_automatique sends (automatique.c) is never negative, also where the
\* radicand of compute_new_speed is.
THEOREM DriveTyped == DriveSpec => []DriveTypeOK
<1>1. DriveInit => DriveTypeOK
  BY InitTyped
<1>2. DriveTypeOK /\ [DriveNext]_drive => DriveTypeOK'
  <2> SUFFICES ASSUME DriveTypeOK, [DriveNext]_drive PROVE DriveTypeOK'
    OBVIOUS
  <2>1. ASSUME NEW gain \in Gains, Frame(gain) PROVE DriveTypeOK'
    <3> DEFINE d == dist
               asked == compute_new_speed(speed, d, retenue, gain)
               sent == Minimum(asked, Limit(where))
    <3>1. gain \in Nat /\ d \in Int /\ Limit(where) \in Nat
      BY LimitNat, DistanceFacts, StretchAssumption DEF DriveTypeOK
    <3>2. new_retenue(speed, d, retenue, gain) \in Nat
      BY <3>1 DEF new_retenue, DriveTypeOK
    <3>3. asked \in Nat
      <4>1. braked(d) \in Nat
        BY <3>1, BrakedNat
      <4>2. \A n \in Nat : n \div 10 \in Nat
        OBVIOUS
      <4> QED BY <3>2, <4>1, <4>2 DEF compute_new_speed
    <3>4. sent \in Nat /\ Minimum(speed, sent) \in Nat /\ Maximum(speed, sent) \in Nat
      BY <3>1, <3>3 DEF Minimum, Maximum, DriveTypeOK
    <3>5. /\ speed' = sent
          /\ retenue' = IF asked > Limit(where) THEN 10 * Limit(where)
                        ELSE new_retenue(speed, d, retenue, gain)
          /\ where' \in { where + Minimum(speed, sent), where + Maximum(speed, sent) }
          /\ wait' = IF wait > 0 THEN wait - 1 ELSE 0
          /\ goal' = goal /\ overran' = (overran \/ Overruns)
      BY <2>1 DEF Frame
    <3> HIDE DEF d, asked, sent
    <3> QED BY <3>1, <3>2, <3>4, <3>5 DEF DriveTypeOK, Overruns
  <2>2. ASSUME NEW further \in Further, Authority(further) PROVE DriveTypeOK'
    BY <2>2, StretchAssumption DEF Authority, DriveTypeOK
  <2>3. CASE UNCHANGED drive
    BY <2>3 DEF drive, DriveTypeOK
  <2> QED BY <2>1, <2>2, <2>3 DEF DriveNext
<1> QED BY <1>1, <1>2, PTL DEF DriveSpec

-----------------------------------------------------------------------------
(* Braking                                                                 *)

\* From the speed braked(d), the train at distance d that travels at least as
\* far as that speed takes it still brakes.
LEMMA BrakesOn ==
    ASSUME NEW d \in Int, NEW travel \in Int, travel >= braked(d)
    PROVE  brakes(braked(d), d - travel)
<1> DEFINE u == braked(d)
<1>1. u \in Nat /\ (d >= 0 => 2 * d < (u + 1) * (u + 1)) /\ (d < 0 => u = 0)
  BY BrakedNat
<1>2. (u + 1) * (u + 1) = u * u + 2 * u + 1
  BY <1>1
<1>3. u * u \in Nat
  BY <1>1
<1>4. travel >= u
  OBVIOUS
<1> HIDE DEF u
<1>5. 2 * (d - travel) <= u * u
  BY <1>1, <1>2, <1>3, <1>4
<1> QED BY <1>5 DEF brakes, u

\* A train that brakes for d is at least as fast as braked(d).
LEMMA FastEnough ==
    ASSUME NEW v \in Nat, NEW d \in Int, brakes(v, d)
    PROVE  braked(d) <= v
<1> DEFINE u == braked(d)
<1>1. u \in Nat /\ (d >= 0 => u * u <= 2 * d) /\ (d < 0 => u = 0)
  BY BrakedNat
<1>2. 2 * d <= v * v
  BY DEF brakes
<1> HIDE DEF u
<1>3. ASSUME d < 0 PROVE u <= v
  BY <1>1, <1>3
<1>4. ASSUME d >= 0 PROVE u <= v
  <2>1. u * u <= v * v
    BY <1>1, <1>2, <1>4
  <2>2. u > v => u * u > v * v
    BY <1>1
  <2> QED BY <2>1, <2>2, <1>1
<1>5. u <= v
  BY <1>3, <1>4
<1> QED BY <1>5 DEF u

\* Once a train brakes for its objective it brakes until it stands, the objective
\* moves or the limit slows it down more (automatique.c compute_new_speed), unless
\* it has gone so far past it that get_distance gives it a lap (map.c:38).
THEOREM NeverSurges == DriveSpec => KeepsBraking
<1> DEFINE Kept == brakes(speed, dist) /\ goal' = goal
                   => \/ brakes(speed', dist')
                      \/ speed' = Limit(where)
                      \/ Overruns' \/ Past' >= Margin
<1>1. DriveTypeOK /\ DriveTypeOK' /\ [DriveNext]_drive => [Kept]_drive
  <2> SUFFICES ASSUME DriveTypeOK, DriveTypeOK', DriveNext, brakes(speed, dist),
                      goal' = goal, ~Overruns', ~(where' - goal >= Margin)
               PROVE  brakes(speed', dist') \/ speed' = Limit(where)
    BY DEF drive, Past
  <2> DEFINE d == goal - where
  <2>1. ASSUME NEW gain \in Gains, Frame(gain), speed' # Limit(where)
        PROVE  brakes(speed', dist')
    <3>1. /\ d \in Int /\ speed \in Nat /\ speed' \in Nat /\ where \in Int /\ where' \in Int
          /\ goal \in Int /\ Limit(where) \in Nat /\ Margin \in Nat
      BY LimitNat, StretchAssumption DEF DriveTypeOK
    <3>2. where <= where'
      BY <2>1, <3>1 DEF Frame, Minimum, Maximum
    <3>3. dist = d
      <4>1. Past < Margin
        <5> DEFINE y == where'
        <5>1. y \in Int /\ where <= y /\ ~(y - goal >= Margin)
          BY <3>1, <3>2
        <5> HIDE DEF y
        <5> QED
          BY <3>1, <5>1 DEF Past
      <4>2. ~Overruns
        BY <3>1, <3>2, StretchAssumption DEF Overruns, Canton
      <4> QED
        BY <4>1, <4>2, DistanceFacts
    <3>4. dist' = goal - where'
      BY <3>1, StretchAssumption DEF dist, Past
    <3>5. braked(d) \in Nat /\ braked(d) <= speed
      BY <3>1, <3>3, BrakedNat, FastEnough
    <3>6. speed' = braked(d)
      <4> HIDE DEF d
      <4> QED
        BY <2>1, <3>1, <3>3, <3>5 DEF Frame, compute_new_speed, Minimum
    <3>7. where' \in { where + Minimum(speed, braked(d)), where + Maximum(speed, braked(d)) }
      <4> HIDE DEF d
      <4> QED
        BY <2>1, <3>6 DEF Frame
    <3>8. where' - where >= braked(d)
      BY <3>1, <3>5, <3>7 DEF Minimum, Maximum
    <3>9. brakes(braked(d), d - (where' - where))
      BY <3>1, <3>8, BrakesOn
    <3>10. d - (where' - where) = goal - where'
      BY <3>1
    <3> QED BY <3>4, <3>6, <3>9, <3>10
  <2>2. ASSUME NEW further \in Further, Authority(further), further = 0
        PROVE  brakes(speed', dist')
    BY <2>2 DEF Authority, dist, Overruns, Canton
  <2>3. ASSUME NEW further \in Further, Authority(further)
        PROVE  further = 0
    BY <2>3, StretchAssumption DEF Authority, DriveTypeOK
  <2> QED BY <2>1, <2>2, <2>3 DEF DriveNext
<1> QED BY <1>1, DriveTyped, PTL DEF DriveSpec, KeepsBraking

-----------------------------------------------------------------------------
(* The limit of a canton                                                   *)

\* The integer part of a square root is no greater than a root.
LEMMA RacineBelow ==
    ASSUME NEW x \in Nat, NEW y \in Nat, x <= y * y
    PROVE  Racine(x) <= y
<1> DEFINE r == Racine(x)
<1>1. r \in Nat /\ r * r <= y * y
  BY RacineOf
<1> HIDE DEF r
<1>2. r > y => r * r > y * y
  BY <1>1
<1>3. r <= y
  BY <1>1, <1>2
<1> QED
  BY <1>3 DEF r

\* On the slope before a slower canton, and nowhere above v1.
LEMMA SlowsDownBound ==
    ASSUME NEW v1 \in Nat, NEW v_next \in Nat, NEW end \in Nat, NEW pos_r \in Nat,
           v1 > v_next, pos_r <= end
    PROVE  /\ slows_down(v1, v_next, end, pos_r) <= v1
           /\ \/ 2 * (end - pos_r) > v1 * v1 - v_next * v_next
              \/ slows_down(v1, v_next, end, pos_r) * slows_down(v1, v_next, end, pos_r)
                   <= v_next * v_next + 2 * (end - pos_r)
<1> DEFINE start == 2 * end - (v1 * v1 - v_next * v_next)
           x == v1 * v1 - (2 * pos_r - start)
<1>1. v1 * v1 \in Nat /\ v_next * v_next \in Nat
  OBVIOUS
<1>2. CASE 2 * pos_r < start
  <2>1. slows_down(v1, v_next, end, pos_r) = v1
    BY <1>2 DEF slows_down
  <2> QED
    BY <2>1, <1>1, <1>2
<1>3. CASE ~(2 * pos_r < start)
  <2>1. slows_down(v1, v_next, end, pos_r) = Racine(x)
    BY <1>3 DEF slows_down
  <2>2. x = v_next * v_next + 2 * (end - pos_r) /\ x \in Nat /\ x <= v1 * v1
    BY <1>1, <1>3
  <2>3. Racine(x) <= v1 /\ Racine(x) * Racine(x) <= x
    BY <2>2, RacineBelow, RacineOf
  <2> HIDE DEF x
  <2> QED
    BY <2>1, <2>2, <2>3
<1> QED
  BY <1>2, <1>3

LEMMA SpeedsUpBound ==
    ASSUME NEW v0 \in Nat, NEW v1 \in Nat, NEW pos_r \in Nat, v1 > v0
    PROVE  speeds_up(v0, v1, pos_r) <= v1
<1> DEFINE end == v1 * v1 - v0 * v0
           x == v0 * v0 + end - 2 * pos_r
<1>1. v0 * v0 \in Nat /\ v1 * v1 \in Nat
  OBVIOUS
<1>2. CASE 2 * pos_r > end
  BY <1>2 DEF speeds_up
<1>3. CASE ~(2 * pos_r > end)
  <2>1. x \in Nat /\ x <= v1 * v1
    BY <1>1, <1>3
  <2>2. Racine(x) <= v1
    BY <2>1, RacineBelow
  <2>3. speeds_up(v0, v1, pos_r) = Racine(x)
    BY <1>3 DEF speeds_up
  <2> QED
    BY <2>2, <2>3
<1> QED
  BY <1>2, <1>3

\* A train is never allowed more than the limit of its canton; past the end of a
\* canton, no more than the limit of the next.
LEMMA LimitBound ==
    ASSUME NEW v0 \in Nat, NEW v1 \in Nat, NEW v_next \in Nat, NEW end \in Nat,
           NEW pos_r \in Nat
    PROVE  get_limit_speed(v0, v1, v_next, end, pos_r) <= v1
<1> DEFINE a == slows_down(v1, v_next, end, pos_r)
           b == speeds_up(v0, v1, pos_r)
<1>1. a \in Nat /\ b \in Nat
  <2>1. pos_r \in Int
    OBVIOUS
  <2>2. a \in Nat
    BY <2>1, SlowsDownNat
  <2>3. b \in Nat
    BY <2>1, SpeedsUpNat
  <2> QED
    BY <2>2, <2>3
<1>2. v1 > v_next => a <= v1
  <2>1. CASE v1 > v_next /\ pos_r <= end
    BY <2>1, SlowsDownBound
  <2>2. CASE v1 > v_next /\ ~(pos_r <= end)
    <3> DEFINE start == 2 * end - (v1 * v1 - v_next * v_next)
    <3>1. v1 * v1 > v_next * v_next
      BY <2>2
    <3>2. ~(2 * pos_r < start)
      BY <2>2, <3>1
    <3> HIDE DEF start
    <3>3. a = v_next
      BY <2>2, <3>2 DEF slows_down, start
    <3> QED
      BY <2>2, <3>3
  <2> QED
    BY <2>1, <2>2
<1>3. v1 > v0 => b <= v1
  BY SpeedsUpBound
<1>4. get_limit_speed(v0, v1, v_next, end, pos_r) =
        IF v1 <= v_next /\ v1 <= v0 THEN v1 ELSE Minimum(a, b)
  BY DEF get_limit_speed
<1> HIDE DEF a, b
<1> QED
  BY <1>1, <1>2, <1>3, <1>4 DEF Minimum

\* The limits of the first canton and everywhere.
LEMMA LimitOnCanton ==
    ASSUME NEW x \in Nat
    PROVE  /\ Canton(x) = 1 => Limit(x) <= v_limit[1]
           /\ Canton(x) = 2 => Limit(x) <= v_limit[2]
<1>1. /\ v_last \in Nat /\ v_limit[1] \in Nat /\ v_limit[2] \in Nat /\ v_limit[3] \in Nat
      /\ Lengths[1] \in Nat /\ Lengths[2] \in Nat
  BY StretchAssumption
<1>2. Canton(x) = 2 => x - Lengths[1] \in Nat
  BY <1>1 DEF Canton
<1>3. Canton(x) = 1 => Limit(x) <= v_limit[1]
  BY <1>1, LimitBound DEF Limit
<1>4. Canton(x) = 2 => Limit(x) <= v_limit[2]
  BY <1>1, <1>2, LimitBound DEF Limit
<1> QED
  BY <1>3, <1>4

\* What one frame does, in the three cases that count: the train does not brake;
\* it brakes; it would brake and is slowed down more by the limit.
Runs == /\ ~brakes(speed, dist)
        /\ 10 * speed' <= retenue' /\ retenue' <= 10 * speed' + 9
Brakes == /\ brakes(speed, dist)
          /\ speed' = braked(dist) /\ retenue' = 10 * speed
Cut == /\ brakes(speed, dist)
       /\ speed' < braked(dist) /\ retenue' = 10 * speed'

LEMMA FrameCases ==
    ASSUME DriveTypeOK, NEW gain \in Gains, Frame(gain)
    PROVE  /\ Runs \/ Brakes \/ Cut
           /\ Runs => 10 * speed' <= retenue + gain
           /\ speed' \in Nat /\ speed' <= Limit(where)
           /\ goal' = goal /\ overran' = (overran \/ Overruns)
           /\ where' \in { where + speed, where + speed' }
           /\ wait' = IF wait > 0 THEN wait - 1 ELSE 0
<1> DEFINE d == dist
           L == Limit(where)
           asked == compute_new_speed(speed, d, retenue, gain)
<1>1. gain \in Nat /\ d \in Int /\ L \in Nat /\ speed \in Nat /\ retenue \in Nat /\ where \in Int
  BY LimitNat, DistanceFacts, StretchAssumption DEF DriveTypeOK
<1>2. /\ speed' = Minimum(asked, L)
      /\ retenue' = IF asked > L THEN 10 * L ELSE new_retenue(speed, d, retenue, gain)
      /\ where' \in { where + Minimum(speed, Minimum(asked, L)),
                      where + Maximum(speed, Minimum(asked, L)) }
      /\ goal' = goal /\ overran' = (overran \/ Overruns)
      /\ wait' = IF wait > 0 THEN wait - 1 ELSE 0
  BY DEF Frame
<1>3. braked(d) \in Nat
  BY <1>1, BrakedNat
<1>4. CASE brakes(speed, d)
  <2>1. asked = braked(d) /\ new_retenue(speed, d, retenue, gain) = 10 * speed
    BY <1>4 DEF compute_new_speed, new_retenue
  <2>2. ~Runs
    BY <1>4 DEF Runs, d
  <2>3. speed' = Minimum(braked(d), L) /\ retenue' = IF braked(d) > L THEN 10 * L ELSE 10 * speed
    BY <1>2, <2>1
  <2>4. Brakes \/ Cut
    <3> HIDE DEF L
    <3> QED
      BY <1>1, <1>3, <1>4, <2>3 DEF Brakes, Cut, Minimum
  <2> HIDE DEF d, L, asked
  <2> QED
    BY <1>1, <1>2, <1>3, <2>1, <2>2, <2>4 DEF Minimum, Maximum, L
<1>5. CASE ~brakes(speed, d)
  <2>1. asked = (retenue + gain) \div 10 /\ new_retenue(speed, d, retenue, gain) = retenue + gain
    BY <1>5 DEF compute_new_speed, new_retenue
  <2>2. \A n \in Nat : n \div 10 \in Nat /\ 10 * (n \div 10) <= n /\ n <= 10 * (n \div 10) + 9
    OBVIOUS
  <2>3. asked \in Nat /\ 10 * asked <= retenue + gain /\ retenue + gain <= 10 * asked + 9
    BY <1>1, <2>1, <2>2
  <2>4. /\ 10 * speed' <= retenue' /\ retenue' <= 10 * speed' + 9 /\ 10 * speed' <= retenue + gain
        /\ speed' \in Nat /\ speed' <= L
        /\ where' \in { where + speed, where + speed' }
    <3> HIDE DEF d, L, asked
    <3> QED
      BY <1>1, <1>2, <2>1, <2>3 DEF Minimum, Maximum
  <2> QED
    BY <1>2, <1>5, <2>4 DEF Runs
<1> QED
  BY <1>4, <1>5

LEMMA Forward ==
    ASSUME NEW x \in Nat, NEW a \in Nat, NEW b \in Nat, NEW y \in { x + a, x + b }
    PROVE  y \in Nat /\ x <= y /\ (y - x <= a \/ y - x <= b)
OBVIOUS

LEMMA Travels ==
    ASSUME NEW x \in Nat, NEW v \in 0 .. 40, NEW s \in 0 .. 40, NEW y \in { x + v, x + s },
           NEW g \in Int
    PROVE  /\ (g - x) - (g - y) <= v \/ (g - x) - (g - y) <= s
           /\ (g - x) - (g - y) <= 40
           /\ s <= v => (g - x) - (g - y) >= s
OBVIOUS

LEMMA SquareGrows ==
    ASSUME NEW a \in Nat, NEW b \in Nat, a <= b
    PROVE  a * a <= b * b /\ a * a \in Nat /\ b * b \in Nat
OBVIOUS

\* The train never goes back, and on the first canton keeps its limit.
CantonInv ==
    /\ DriveTypeOK
    /\ where \in Nat
    /\ Canton(where) = 1 => speed <= v_limit[1]

LEMMA CantonKept == DriveSpec => []CantonInv
<1>1. DriveInit => CantonInv
  <2>1. 0 \in Nat /\ v_limit[1] \in Nat
    BY StretchAssumption
  <2> QED
    BY <2>1, InitTyped DEF CantonInv
<1>2. CantonInv /\ [DriveNext]_drive /\ DriveTypeOK' => CantonInv'
  <2> SUFFICES ASSUME CantonInv, [DriveNext]_drive, DriveTypeOK' PROVE CantonInv'
    OBVIOUS
  <2>1. ASSUME NEW gain \in Gains, Frame(gain) PROVE CantonInv'
    <3>1. /\ speed' \in Nat /\ speed' <= Limit(where)
          /\ where' \in { where + speed, where + speed' }
      BY <2>1, FrameCases DEF CantonInv
    <3>2. where' \in Nat /\ where <= where'
      <4>1. where \in Nat /\ speed \in Nat
        BY DEF CantonInv, DriveTypeOK
      <4> QED
        BY <3>1, <4>1, Forward
    <3>3. Canton(where') = 1 => Canton(where) = 1
      BY <3>2, StretchAssumption DEF Canton, CantonInv
    <3>4. Canton(where) = 1 => Limit(where) <= v_limit[1]
      BY LimitOnCanton DEF CantonInv
    <3>5. Limit(where) \in Nat /\ v_limit[1] \in Nat
      BY LimitNat, StretchAssumption DEF CantonInv
    <3> QED
      BY <3>1, <3>2, <3>3, <3>4, <3>5 DEF CantonInv
  <2>2. ASSUME NEW further \in Further, Authority(further) PROVE CantonInv'
    BY <2>2 DEF Authority, CantonInv
  <2>3. CASE UNCHANGED drive
    BY <2>3 DEF drive, CantonInv
  <2> QED
    BY <2>1, <2>2, <2>3 DEF DriveNext
<1> QED
  BY <1>1, <1>2, DriveTyped, PTL DEF DriveSpec

\* From the slope in front of a slower canton, one frame away from it, the train
\* is at most one cm/s above its limit.
LEMMA OneFrameAway ==
    ASSUME NEW v \in Nat, NEW n \in Nat, NEW m \in Nat, NEW left \in Nat, NEW u \in Nat,
           n > 0, m <= 2 * n, u <= m, v <= m, left <= u \/ left <= v,
           2 * left > m * m - n * n \/ v * v <= n * n + 2 * left
    PROVE  v <= n + 1
<1>1. left <= m
  OBVIOUS
<1>2. CASE v * v <= n * n + 2 * left
  <2> SUFFICES ASSUME v >= n + 2 PROVE FALSE
    OBVIOUS
  <2>1. v * v >= (n + 2) * (n + 2)
    OBVIOUS
  <2>2. (n + 2) * (n + 2) = n * n + 4 * n + 4
    OBVIOUS
  <2> QED
    BY <1>1, <1>2, <2>1, <2>2
<1>3. CASE 2 * left > m * m - n * n
  <2> SUFFICES ASSUME m >= n + 2 PROVE FALSE
    OBVIOUS
  <2>1. m * m >= (n + 2) * m /\ n * m >= n * (n + 2)
    OBVIOUS
  <2>2. (n + 2) * m = n * m + 2 * m /\ n * (n + 2) = n * n + 2 * n
    OBVIOUS
  <2> QED
    BY <1>1, <1>3, <2>1, <2>2
<1> QED
  BY <1>2, <1>3

\* A train does not enter a slower canton faster than one cm/s above its limit
\* (get_limit_speed of automatique.c), as long as no limit of map.c is more than
\* twice the limit of the canton behind it; they are between 25 and 40.
THEOREM SlowsDownInTime ==
    ASSUME v_limit[2] > 0, v_limit[1] <= 2 * v_limit[2]
    PROVE  DriveSpec => EntersSlowEnough
<1> DEFINE Enters == Canton(where) = 1 /\ Canton(where') = 2 => speed' <= v_limit[2] + 1
<1>1. CantonInv /\ [DriveNext]_drive => [Enters]_drive
  <2> SUFFICES ASSUME CantonInv, DriveNext, Canton(where) = 1, Canton(where') = 2
               PROVE  speed' <= v_limit[2] + 1
    BY DEF drive
  <2>1. PICK gain \in Gains : Frame(gain)
    BY DEF DriveNext, Authority
  <2> DEFINE n == v_limit[2]
             m == v_limit[1]
             end == Lengths[1]
             L == Limit(where)
  <2>2. /\ where \in Nat /\ speed \in Nat /\ speed <= m
        /\ n \in Nat /\ m \in Nat /\ end \in Nat /\ v_last \in Nat /\ L \in Nat
    BY LimitNat, StretchAssumption DEF CantonInv, DriveTypeOK
  <2>3. /\ speed' \in Nat /\ speed' <= L
        /\ where' = where + speed \/ where' = where + speed'
    BY <2>1, FrameCases DEF CantonInv
  <2>4. where < end /\ where' >= end
    BY <2>2, <2>3 DEF Canton
  <2>5. L = get_limit_speed(v_last, m, n, end, where)
    BY DEF Limit
  <2>6. L <= m
    BY <2>2, <2>5, LimitBound
  <2>7. CASE m <= n
    BY <2>2, <2>3, <2>6, <2>7
  <2>8. CASE m > n
    <3> DEFINE S == slows_down(m, n, end, where)
               U == speeds_up(v_last, m, where)
               left == end - where
    <3>1. L <= S /\ S \in Nat
      <4>1. where \in Int
        BY <2>2
      <4>2. S \in Nat
        BY <2>2, <4>1, SlowsDownNat
      <4>3. U \in Nat
        BY <2>2, <4>1, SpeedsUpNat
      <4>4. L = Minimum(S, U)
        BY <2>5, <2>2, <2>8 DEF get_limit_speed
      <4> HIDE DEF S, U, L
      <4> QED
        BY <4>2, <4>3, <4>4 DEF Minimum
    <3>2. 2 * left > m * m - n * n \/ S * S <= n * n + 2 * left
      <4>1. where <= end
        BY <2>2, <2>4
      <4> HIDE DEF n, m, end
      <4> QED
        BY <2>2, <2>8, <4>1, SlowsDownBound
    <3> HIDE DEF S, L, n, m, end
    <3>3. left \in Nat /\ (left <= speed \/ left <= speed') /\ speed' <= m /\ speed' <= S
      BY <2>2, <2>3, <2>4, <2>6, <3>1
    <3> HIDE DEF left
    <3>4. speed' * speed' <= S * S /\ speed' * speed' \in Nat /\ S * S \in Nat
      BY <2>3, <3>1, <3>3, SquareGrows
    <3>5. 2 * left > m * m - n * n \/ speed' * speed' <= n * n + 2 * left
      <4>1. n * n + 2 * left \in Nat
        BY <2>2, <3>3
      <4> QED
        BY <3>2, <3>4, <4>1
    <3>6. n > 0 /\ m <= 2 * n
      BY DEF n, m
    <3>7. speed' <= n + 1
      BY <2>2, <2>3, <3>3, <3>5, <3>6, OneFrameAway
    <3> QED
      BY <3>7 DEF n
  <2> QED
    BY <2>2, <2>7, <2>8
<1> QED
  BY CantonKept, <1>1, PTL DEF DriveSpec, EntersSlowEnough

-----------------------------------------------------------------------------
(* Stopping in time                                                        *)

\* The frames before and after which the speed is v, the distance to the
\* objective d and retenue_sur_vitesse r (in mm/s).

\* The train has just been told the speed that retenue_sur_vitesse keeps.
Tight(v, r) == r <= 10 * v + 9

\* ... and it did not brake, or only just brakes.
Near(v, d) == v <= 5 \/ (v - 5) * (v - 5) <= 2 * d + 80

\* The train brakes, and is not much faster than the speed from which it stops at d.
Slowing(v, d) == 2 * d <= v * v /\ (v = 0 \/ v * v <= 2 * d + 80)

\* retenue_sur_vitesse is little above the speed.
Close(v, r) == r <= 10 * v + 130

\* What an authority finds: it comes three frames or more after the one before.
Steady(v, d, r) == \/ Tight(v, r) /\ Near(v, d)
                   \/ Slowing(v, d) /\ Close(v, r)

\* The three ways to be told a new speed s, d away from the objective; the train
\* travels no more than 40 mm, so that it is then e away from it.
Told_Runs(v, d, s, q) == v * v < 2 * d /\ Tight(s, q)
Told_Brakes(v, d, s, q) == 2 * d <= v * v /\ s = braked(d) /\ q = 10 * v
Told_Cut(v, d, s, q) == 2 * d <= v * v /\ s < braked(d) /\ q = 10 * s

\* After a frame in which the train brakes it brakes still, or the limit of the
\* track has slowed it down more.
LEMMA BrakesThen ==
    ASSUME NEW v \in Nat, NEW d \in Int, NEW s \in Nat, NEW q \in Nat, NEW e \in Int,
           Told_Brakes(v, d, s, q), d - e >= s, d - e <= 40
    PROVE  Slowing(s, e)
<1>1. /\ s = braked(d) /\ (d >= 0 => s * s <= 2 * d /\ 2 * d < (s + 1) * (s + 1))
      /\ (d < 0 => s = 0)
  BY BrakedNat DEF Told_Brakes
<1>2. (s + 1) * (s + 1) = s * s + 2 * s + 1 /\ s * s \in Nat
  OBVIOUS
<1>3. 2 * e <= s * s
  BY <1>1, <1>2
<1>4. s = 0 \/ s * s <= 2 * e + 80
  BY <1>1, <1>2
<1> QED
  BY <1>3, <1>4 DEF Slowing

LEMMA CutThen ==
    ASSUME NEW v \in Nat, NEW d \in Int, NEW s \in Nat, NEW q \in Nat, NEW e \in Int,
           Told_Cut(v, d, s, q), d - e <= 40
    PROVE  Tight(s, q) /\ Near(s, e)
<1> DEFINE u == braked(d)
<1>1. u \in Nat /\ s < u /\ (d >= 0 => u * u <= 2 * d) /\ (d < 0 => u = 0)
  BY BrakedNat DEF Told_Cut
<1> HIDE DEF u
<1>2. d >= 0 /\ u * u <= 2 * d
  BY <1>1
<1>3. ASSUME s > 5 PROVE (s - 5) * (s - 5) <= 2 * e + 80
  <2>1. (s - 5) * (s - 5) <= u * u
    BY <1>1, <1>3
  <2>2. (s - 5) * (s - 5) \in Int /\ u * u \in Int
    BY <1>1
  <2> QED
    BY <1>2, <2>1, <2>2
<1> QED
  BY <1>3 DEF Tight, Near, Told_Cut

\* A train that runs goes little faster than before.
LEMMA RunsThen ==
    ASSUME NEW v \in Nat, NEW d \in Int, NEW r \in Nat, NEW s \in Nat, NEW q \in Nat,
           NEW e \in Int, NEW gain \in 0 .. 50,
           Told_Runs(v, d, s, q), Tight(v, r), 10 * s <= r + gain, d - e <= 40
    PROVE  Tight(s, q) /\ Near(s, e)
<1>1. s <= v + 5
  BY DEF Tight
<1>2. ASSUME s > 5 PROVE (s - 5) * (s - 5) <= 2 * e + 80
  <2> DEFINE x == s - 5
  <2>1. x \in Nat /\ x <= v
    BY <1>1, <1>2
  <2>2. x * x <= v * v /\ x * x \in Nat /\ v * v \in Nat
    BY <2>1, SquareGrows
  <2> HIDE DEF x
  <2>3. x * x <= 2 * e + 80
    BY <2>2 DEF Told_Runs
  <2> QED
    BY <2>3 DEF x
<1> QED
  BY <1>2 DEF Near, Told_Runs

\* What is kept from before a braking is little above the speed after it, once
\* the train was near to where it stops.
LEMMA KeepsLittle ==
    ASSUME NEW v \in Nat, NEW d \in Int, NEW s \in Nat, NEW q \in Nat,
           Told_Brakes(v, d, s, q), Near(v, d) \/ Slowing(v, d)
    PROVE  Close(s, q)
<1>1. /\ s = braked(d) /\ (d >= 0 => 2 * d < (s + 1) * (s + 1)) /\ (d < 0 => s = 0) /\ q = 10 * v
  BY BrakedNat DEF Told_Brakes
<1> SUFFICES ASSUME v >= s + 14 PROVE FALSE
  BY <1>1 DEF Close
<1>2. v >= 14 /\ (v - 5) * (v - 5) <= v * v
  OBVIOUS
<1>3. (v - 5) * (v - 5) <= 2 * d + 80
  BY <1>2 DEF Near, Slowing
<1>4. (v - 5) * (v - 5) >= 81
  BY <1>2
<1>5. d >= 0
  BY <1>3, <1>4
<1>6. (s + 1) * (s + 1) <= (v - 13) * (v - 13)
  OBVIOUS
<1>7. (v - 5) * (v - 5) = v * v - 10 * v + 25 /\ (v - 13) * (v - 13) = v * v - 26 * v + 169
  OBVIOUS
<1>8. (s + 1) * (s + 1) \in Int /\ v * v \in Int
  OBVIOUS
<1> QED
  BY <1>1, <1>2, <1>3, <1>5, <1>6, <1>7, <1>8

\* A train that runs one frame too fast and then has to stop still does it in time.
LEMMA StopsThen ==
    ASSUME NEW v \in 0 .. 40, NEW d \in Int, NEW r \in Nat, NEW s \in 0 .. 40, NEW q \in Nat,
           NEW e \in Int, NEW gain \in 0 .. 50,
           d - e <= v \/ d - e <= s,
           v - d < 50,
           Told_Runs(v, d, s, q) => Close(v, r) /\ 10 * s <= r + gain,
           Told_Runs(v, d, s, q) \/ Told_Brakes(v, d, s, q) \/ Told_Cut(v, d, s, q)
    PROVE  s - e < 50
<1>1. CASE Told_Runs(v, d, s, q)
  <2>1. v * v < 2 * d /\ s <= v + 18
    BY <1>1 DEF Told_Runs, Close
  <2>2. v * v \in Nat
    OBVIOUS
  <2>3. d - e <= v => s - e < 50
    <3>1. d - e <= v => s - e <= 40 + v - d
      OBVIOUS
    <3>2. v - d <= 5
      <4>1. v >= 2 => v * v >= 2 * v
        OBVIOUS
      <4> QED
        BY <2>1, <2>2, <4>1
    <3> QED
      BY <3>1, <3>2
  <2>4. d - e <= s => s - e < 50
    <3>1. v >= 8 => v * v >= 64
      OBVIOUS
    <3>2. v >= 8 => d > 30
      BY <2>1, <2>2, <3>1
    <3>3. d > 0
      BY <2>1, <2>2
    <3> QED
      BY <2>1, <3>2, <3>3
  <2> QED
    BY <2>3, <2>4
<1>2. CASE Told_Brakes(v, d, s, q) \/ Told_Cut(v, d, s, q)
  <2> DEFINE u == braked(d)
  <2>1. u \in Nat /\ s <= u /\ (d >= 0 => u * u <= 2 * d) /\ (d < 0 => u = 0) /\ 2 * d <= v * v
    <3>1. u \in Nat /\ (d >= 0 => u * u <= 2 * d) /\ (d < 0 => u = 0)
      BY BrakedNat
    <3> HIDE DEF u
    <3>2. 2 * d <= v * v /\ (s = u \/ s < u)
      BY <1>2 DEF Told_Brakes, Told_Cut, u
    <3> QED
      BY <3>1, <3>2
  <2>2. u <= v
    <3>1. brakes(v, d)
      BY <2>1 DEF brakes
    <3> QED
      BY <3>1, FastEnough
  <2> HIDE DEF u
  <2>3. CASE d < 0
    BY <2>1, <2>2, <2>3
  <2>4. CASE d >= 0
    <3>1. u <= d
      <4> SUFFICES ASSUME u > d PROVE FALSE
        BY <2>1, <2>4
      <4>1. u * u >= (d + 1) * u /\ (d + 1) * u >= (d + 1) * (d + 1)
        BY <2>1, <2>4
      <4>2. (d + 1) * (d + 1) = d * d + 2 * d + 1 /\ d * d >= 0
        OBVIOUS
      <4> QED
        BY <2>1, <2>4, <4>1, <4>2
    <3> QED
      BY <2>1, <2>2, <2>4, <3>1
  <2> QED
    BY <2>3, <2>4
<1> QED
  BY <1>1, <1>2

\* What the limits are, how often an authority comes, what the processor time of a
\* frame adds and how far get_distance lets a train pass its objective.
Usual ==
    /\ v_last <= 40 /\ \A i \in 1 .. 3 : v_limit[i] <= 40
    /\ Period >= 3
    /\ \A gain \in Gains : gain <= 50
    /\ Margin >= 50

\* In the frames after an authority the train becomes Steady again, whatever it
\* was told before.
StopsInv ==
    /\ CantonInv
    /\ speed <= 40
    /\ speed - (goal - where) < 50
    /\ wait <= Period
    /\ wait = Period => Close(speed, retenue)
    /\ wait = Period - 1 => Tight(speed, retenue) \/ Slowing(speed, goal - where)
    /\ wait = Period - 2 => \/ Tight(speed, retenue) /\ Near(speed, goal - where)
                            \/ Slowing(speed, goal - where)
    /\ wait < Period - 2 => Steady(speed, goal - where, retenue)

LEMMA InitStops == ASSUME Usual PROVE DriveInit => StopsInv
<1> SUFFICES ASSUME DriveInit PROVE StopsInv
  OBVIOUS
<1>1. CantonInv
  <2>1. v_limit[1] \in Nat
    BY StretchAssumption
  <2> QED
    BY <2>1, InitTyped DEF CantonInv
<1>2. where = 0 /\ speed = 0 /\ retenue = 0 /\ goal \in Nat /\ wait = Period /\ Period \in Nat
  BY StretchAssumption DEF DriveInit
<1> QED
  BY <1>1, <1>2 DEF Usual, StopsInv, Close

LEMMA FrameStops ==
    ASSUME Usual, StopsInv, CantonInv', NEW gain \in Gains, Frame(gain), ~Overruns
    PROVE  StopsInv'
<1> DEFINE v == speed
           d == goal - where
           r == retenue
           s == speed'
           q == retenue'
           e == goal' - where'
<1>1. /\ v \in 0 .. 40 /\ v \in Nat /\ d \in Int /\ r \in Nat /\ where \in Nat /\ goal \in Int
      /\ s \in Nat /\ q \in Nat /\ e \in Int /\ where' \in Nat /\ goal' \in Int
      /\ wait \in Nat /\ Period \in Nat /\ Period >= 3 /\ gain \in 0 .. 50 /\ v - d < 50
  BY StretchAssumption DEF Usual, StopsInv, CantonInv, DriveTypeOK
<1>2. /\ Runs \/ Brakes \/ Cut
      /\ Runs => 10 * s <= r + gain
      /\ s <= Limit(where) /\ goal' = goal
      /\ where' \in { where + v, where + s }
      /\ wait' = IF wait > 0 THEN wait - 1 ELSE 0
  BY FrameCases DEF StopsInv, CantonInv
<1>3. s \in 0 .. 40
  <2>1. Limit(where) <= 40 /\ Limit(where) \in Nat
    <3>1. Canton(where) \in { 1, 2 }
      BY DEF Canton
    <3>2. v_limit[1] <= 40 /\ v_limit[2] <= 40 /\ v_limit[1] \in Nat /\ v_limit[2] \in Nat
      BY StretchAssumption DEF Usual
    <3> QED
      BY <1>1, <3>1, <3>2, LimitOnCanton, LimitNat
  <2> QED
    BY <1>1, <1>2, <2>1
<1>4. /\ d - e <= v \/ d - e <= s
      /\ d - e <= 40
      /\ s <= v => d - e >= s
  BY <1>1, <1>2, <1>3, Travels
<1>5. /\ Runs => Told_Runs(v, d, s, q)
      /\ Brakes => Told_Brakes(v, d, s, q)
      /\ Cut => Told_Cut(v, d, s, q)
      /\ Told_Runs(v, d, s, q) => Runs
  <2>0. dist = d
    <3>1. Past < Margin
      BY <1>1, StretchAssumption DEF Past, Usual
    <3> QED
      BY <3>1, DistanceFacts DEF StopsInv, CantonInv
  <2>1. brakes(v, d) <=> 2 * d <= v * v
    BY DEF brakes
  <2>2. ~(2 * d <= v * v) <=> v * v < 2 * d
    <3>1. v * v \in Int /\ 2 * d \in Int
      BY <1>1
    <3> QED
      BY <3>1
  <2>3. Told_Runs(v, d, s, q) => Runs
    <3>1. Told_Runs(v, d, s, q) => ~Told_Brakes(v, d, s, q) /\ ~Told_Cut(v, d, s, q)
      BY <2>2 DEF Told_Runs, Told_Brakes, Told_Cut
    <3> HIDE DEF d
    <3> QED
      BY <1>2, <2>0, <2>1, <3>1 DEF Brakes, Cut, Told_Brakes, Told_Cut
  <2> HIDE DEF d
  <2> QED
    BY <2>0, <2>1, <2>2, <2>3 DEF Runs, Brakes, Cut, Told_Runs, Told_Brakes, Told_Cut, Tight
<1>6. Told_Runs(v, d, s, q) => 10 * s <= r + gain
  BY <1>2, <1>5
<1>7. Told_Runs(v, d, s, q) \/ Told_Brakes(v, d, s, q) \/ Told_Cut(v, d, s, q)
  BY <1>2, <1>5
<1>8. Told_Brakes(v, d, s, q) => s <= v
  <2>1. Told_Brakes(v, d, s, q) => brakes(v, d) /\ s = braked(d)
    BY DEF Told_Brakes, brakes
  <2> QED
    BY <1>1, <2>1, FastEnough
<1>9. /\ wait = Period => Close(v, r)
      /\ wait = Period - 1 => Tight(v, r) \/ Slowing(v, d)
      /\ wait = Period - 2 => (Tight(v, r) /\ Near(v, d)) \/ Slowing(v, d)
      /\ wait < Period - 2 => Steady(v, d, r)
      /\ wait <= Period
  BY DEF StopsInv
<1>10. /\ CantonInv'
       /\ StopsInv' <=>
            /\ s <= 40 /\ s - e < 50 /\ wait' <= Period
            /\ wait' = Period => Close(s, q)
            /\ wait' = Period - 1 => Tight(s, q) \/ Slowing(s, e)
            /\ wait' = Period - 2 => (Tight(s, q) /\ Near(s, e)) \/ Slowing(s, e)
            /\ wait' < Period - 2 => Steady(s, e, q)
  BY DEF StopsInv
<1> HIDE DEF v, d, r, s, q, e
<1>11. Told_Runs(v, d, s, q) => ~Slowing(v, d)
  <2>1. v * v \in Int /\ 2 * d \in Int
    BY <1>1
  <2> QED
    BY <2>1 DEF Told_Runs, Slowing
<1>12. Told_Runs(v, d, s, q) => Close(v, r)
  <2>1. Tight(v, r) => Close(v, r)
    BY <1>1 DEF Tight, Close
  <2>2. wait = Period \/ wait = Period - 1 \/ wait = Period - 2 \/ wait < Period - 2
    BY <1>1, <1>9
  <2> QED
    BY <1>9, <1>11, <2>1, <2>2 DEF Steady
<1>13. s - e < 50
  BY <1>1, <1>3, <1>4, <1>6, <1>7, <1>12, StopsThen
<1>14. Told_Brakes(v, d, s, q) => Slowing(s, e)
  BY <1>1, <1>4, <1>8, BrakesThen
<1>15. Told_Cut(v, d, s, q) => Tight(s, q) /\ Near(s, e)
  BY <1>1, <1>4, CutThen
<1>16. Told_Runs(v, d, s, q) => Tight(s, q)
  BY DEF Told_Runs
<1>17. Told_Runs(v, d, s, q) /\ Tight(v, r) => Tight(s, q) /\ Near(s, e)
  BY <1>1, <1>4, <1>6, RunsThen
<1>18. Told_Brakes(v, d, s, q) /\ (Near(v, d) \/ Slowing(v, d)) => Close(s, q)
  BY <1>1, KeepsLittle
<1>19. CASE wait = Period
  <2>1. wait' = Period - 1
    BY <1>1, <1>2, <1>19
  <2> QED
    BY <1>1, <1>3, <1>10, <1>13, <1>7, <1>14, <1>15, <1>16, <2>1
<1>20. CASE wait = Period - 1
  <2>1. wait' = Period - 2
    BY <1>1, <1>2, <1>20
  <2>2. (Tight(s, q) /\ Near(s, e)) \/ Slowing(s, e)
    BY <1>7, <1>9, <1>11, <1>14, <1>15, <1>17, <1>20
  <2> QED
    BY <1>1, <1>3, <1>10, <1>13, <2>1, <2>2
<1>21. CASE wait <= Period - 2
  <2>1. wait' < Period - 2 /\ wait' <= Period
    BY <1>1, <1>2, <1>21
  <2>2. wait = Period - 2 \/ wait < Period - 2
    BY <1>1, <1>21
  <2>3. (Tight(v, r) /\ Near(v, d)) \/ Slowing(v, d)
    BY <1>9, <2>2 DEF Steady
  <2>4. Steady(s, e, q)
    BY <1>7, <1>11, <1>14, <1>15, <1>17, <1>18, <2>3 DEF Steady
  <2> QED
    BY <1>1, <1>3, <1>10, <1>13, <2>1, <2>4
<1> QED
  BY <1>1, <1>9, <1>19, <1>20, <1>21

LEMMA AuthorityKeepsStops ==
    ASSUME Usual, StopsInv, CantonInv', NEW further \in Further, Authority(further)
    PROVE  StopsInv'
<1>1. /\ wait = 0 /\ wait' = Period /\ goal' = goal + further
      /\ UNCHANGED << where, speed, retenue >>
  BY DEF Authority
<1>2. /\ Period \in Nat /\ Period >= 3 /\ further \in Nat
      /\ speed \in Nat /\ retenue \in Nat /\ goal \in Int /\ where \in Nat
  BY StretchAssumption DEF Usual, StopsInv, CantonInv, DriveTypeOK
<1>3. Steady(speed, goal - where, retenue)
  BY <1>1, <1>2 DEF StopsInv
<1>4. Close(speed, retenue)
  BY <1>2, <1>3 DEF Steady, Tight, Close
<1>5. speed - (goal' - where) < 50
  BY <1>1, <1>2 DEF StopsInv
<1> QED
  BY <1>1, <1>2, <1>4, <1>5 DEF StopsInv, Close

\* The train passes its objective by less than get_distance tolerates, unless it
\* has passed a balise too (map.c:38), with limits as in map.c, when it asks for
\* authorities as eoa_handler does, once per second, and each frame of 100 ms uses
\* less than 5 ms of processor time.
THEOREM AlwaysStopsInTime ==
    ASSUME Usual
    PROVE  DriveSpec => []StopsInTime
<1> DEFINE Inv == StopsInv \/ overran
<1>1. Inv /\ CantonInv /\ CantonInv' /\ [DriveNext]_drive => Inv'
  <2> SUFFICES ASSUME Inv, CantonInv, CantonInv', [DriveNext]_drive PROVE Inv'
    OBVIOUS
  <2>1. CASE UNCHANGED drive
    BY <2>1 DEF drive, StopsInv
  <2>2. ASSUME NEW gain \in Gains, Frame(gain)
        PROVE  Inv'
    <3>1. overran' = (overran \/ Overruns)
      BY <2>2, FrameCases DEF CantonInv
    <3>2. CASE overran \/ Overruns
      BY <3>1, <3>2
    <3>3. CASE ~overran /\ ~Overruns
      BY <2>2, <3>3, FrameStops
    <3> QED
      BY <3>2, <3>3
  <2>3. ASSUME NEW further \in Further, Authority(further)
        PROVE  Inv'
    <3>1. overran' = overran
      BY <2>3 DEF Authority
    <3> QED
      BY <2>3, <3>1, AuthorityKeepsStops
  <2> QED
    BY <2>1, <2>2, <2>3 DEF DriveNext
<1>2. Inv => StopsInTime
  <2> SUFFICES ASSUME StopsInv PROVE Past < Margin
    BY DEF StopsInTime
  <2>1. /\ speed \in Nat /\ goal \in Int /\ where \in Nat /\ speed - (goal - where) < 50
        /\ Margin \in Nat /\ Margin >= 50
    BY StretchAssumption DEF StopsInv, CantonInv, DriveTypeOK, Usual
  <2> QED
    BY <2>1 DEF Past
<1>3. DriveInit => Inv
  BY InitStops
<1> QED
  BY CantonKept, <1>1, <1>2, <1>3, PTL DEF DriveSpec
=============================================================================
