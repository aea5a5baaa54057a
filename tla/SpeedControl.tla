----------------------------- MODULE SpeedControl -----------------------------
(***************************************************************************)
(* How the EVC drives the train between two frames 0x02F of its motor:     *)
(* compute_new_speed, get_limit_speed and the part of boucle_automatique   *)
(* that uses them (app/EVC/src/automatique.c), on a stretch of two cantons *)
(* with an objective that the authorities move forward.                    *)
(*                                                                         *)
(* Distances are in mm and speeds in cm/s, as in the code, where           *)
(* max_acceleration and max_deacceleration are 10 cm/s2: a train at speed  *)
(* v brakes in v*v/2 mm.  A frame comes every 100 ms, in which a train     *)
(* travels as many mm as its speed in cm/s.                                *)
(***************************************************************************)
EXTENDS Integers

CONSTANTS
    Lengths,      \* map.c D: the lengths of the two cantons
    LapLength,    \* and of the whole loop
    v_last, v_limit,
                  \* map.c v_limits: of the canton before, and of the two and the next one
    Goals,        \* where the first objective may be, in mm from the first balise
    Further,      \* by how much a new authority may move the objective
    Period,       \* frames between two authorities: eoa_handler asks once per second
    Gains,        \* what one frame adds to retenue_sur_vitesse, in mm/s
    Margin        \* get_distance: how far past its objective a train may be in a canton

ASSUME StretchAssumption ==
    /\ Lengths \in [1 .. 2 -> Nat \ {0}]
    /\ LapLength \in Nat
    /\ v_last \in Nat /\ v_limit \in [1 .. 3 -> Nat]
    /\ Goals \subseteq Nat /\ Further \subseteq Nat /\ Gains \subseteq Nat
    /\ Period \in Nat /\ Margin \in Nat

VARIABLES
    where,      \* where the train is, in mm from the first balise
    speed,      \* the speed of the train, which is the last one commanded
    retenue,    \* retenue_sur_vitesse, in mm/s
    goal,       \* where the objective is
    wait,       \* frames before the next authority
    overran     \* history: a frame has found the train past its objective and in
                \* the next canton

drive == << where, speed, retenue, goal, wait, overran >>

-----------------------------------------------------------------------------
(* compute_new_speed                                                       *)

Minimum(a, b) == IF a < b THEN a ELSE b
Maximum(a, b) == IF a < b THEN b ELSE a

\* (int) sqrtf(x).
Racine(x) == CHOOSE n \in 0 .. x : n * n <= x /\ x < (n + 1) * (n + 1)

\* d <= dist_freinage: the objective, at distance d, is closer than the distance
\* in which a train at speed v stops.
brakes(v, d) == 2 * d <= v * v

\* Mutant of braked: the square root of the distance instead of the double.
braked_Sharp(d) == IF d < 0 THEN 0 ELSE Racine(d)

\* v*v + 0.2*max_deacceleration*(dist_freinage - d) is 2*d: the speed from which
\* the train stops at d.  Past the objective the square root is not a number;
\* converted to int and cut to a byte (mc_consigneVitesse, send_can_data), what
\* the motor receives is 0 on every processor the program is built for.
braked(d) == IF d < 0 THEN 0 ELSE Racine(2 * d)

\* What retenue_sur_vitesse becomes, and the speed compute_new_speed returns.
new_retenue(v, d, kept, gain) == IF brakes(v, d) THEN 10 * v ELSE kept + gain
compute_new_speed(v, d, kept, gain) ==
    IF brakes(v, d) THEN braked(d) ELSE new_retenue(v, d, kept, gain) \div 10

-----------------------------------------------------------------------------
(* get_limit_speed                                                         *)

Unlimited == 100000000

\* Mutant of slows_down: the slope ends past the end of the canton.
slows_down_Late(v1, v_next, end, pos_r) ==
    LET start == 2 * end - (v1 * v1 - v_next * v_next) + 100
    IN  IF v1 <= v_next THEN Unlimited
        ELSE IF 2 * pos_r < start THEN v1
        ELSE IF pos_r > end THEN v_next
        ELSE Racine(v1 * v1 - (2 * pos_r - start))

\* v_limite_pente_next: a train slows down before a slower canton, so as to have
\* the speed of that one at the end of this one.
slows_down(v1, v_next, end, pos_r) ==
    LET start == 2 * end - (v1 * v1 - v_next * v_next)   \* twice pos_r_debut_deacceleration
    IN  IF v1 <= v_next THEN Unlimited
        ELSE IF 2 * pos_r < start THEN v1
        ELSE IF pos_r > end THEN v_next
        ELSE Racine(v1 * v1 - (2 * pos_r - start))

\* v_limite_pente_last: after a slower canton.  The slope goes down from v1 to
\* v_last, and then back to v1 at once.
speeds_up(v0, v1, pos_r) ==
    LET end == v1 * v1 - v0 * v0                         \* twice pos_r_fin_acceleration
    IN  IF v1 <= v0 THEN Unlimited
        ELSE IF 2 * pos_r > end THEN v1
        ELSE Racine(v0 * v0 + end - 2 * pos_r)

get_limit_speed(v0, v1, v_next, end, pos_r) ==
    IF v1 <= v_next /\ v1 <= v0 THEN v1
    ELSE Minimum(slows_down(v1, v_next, end, pos_r), speeds_up(v0, v1, pos_r))

\* The limit on the stretch: on its first canton, and on the second.
Canton(x) == IF x < Lengths[1] THEN 1 ELSE 2
Limit(x) ==
    IF Canton(x) = 1
    THEN get_limit_speed(v_last, v_limit[1], v_limit[2], Lengths[1], x)
    ELSE get_limit_speed(v_limit[1], v_limit[2], v_limit[3], Lengths[2], x - Lengths[1])

-----------------------------------------------------------------------------
(* get_distance                                                            *)

\* The train has gone past its objective and a balise.
Overruns == where > goal /\ Canton(where) # Canton(goal)

\* Mutant of dist: without the margin.
dist_Strict ==
    IF where > goal THEN LapLength + goal - where ELSE goal - where

\* get_distance from the train to its objective, along the loop.  A train a little past it gets
\* what it has gone too far, as a negative distance, but only in the canton of the
\* objective: past the next balise it gets what is left of the lap.
dist ==
    IF Overruns \/ where - goal >= Margin THEN LapLength + goal - where ELSE goal - where

-----------------------------------------------------------------------------
DriveInit ==
    /\ where = 0
    /\ speed = 0
    /\ retenue = 0
    /\ goal \in Goals
    /\ wait = Period
    /\ overran = FALSE

\* A frame 0x02F: the new speed is computed, cut to the limit and sent; until the
\* next frame the train goes from its speed to that one.  The stretch, which is
\* the bound of this model, ends with the second canton.
Frame(gain) ==
    LET d == dist
        asked == compute_new_speed(speed, d, retenue, gain)
        sent == Minimum(asked, Limit(where))
    IN  /\ where < Lengths[1] + Lengths[2]
        /\ speed' = sent
        /\ retenue' = IF asked > Limit(where) THEN 10 * Limit(where)
                      ELSE new_retenue(speed, d, retenue, gain)
        /\ where' \in { where + Minimum(speed, sent), where + Maximum(speed, sent) }
        /\ wait' = IF wait > 0 THEN wait - 1 ELSE 0
        /\ overran' = (overran \/ Overruns)
        /\ UNCHANGED goal

\* A new authority, never behind the one before (ProlongsUnlessTorn of EoaReads,
\* without its two exceptions), nor past the stretch.
Authority(further) ==
    /\ wait = 0
    /\ goal + further <= Lengths[1] + Lengths[2]
    /\ goal' = goal + further
    /\ wait' = Period
    /\ UNCHANGED << where, speed, retenue, overran >>

DriveNext == \/ \E gain \in Gains : Frame(gain)
             \/ \E further \in Further : Authority(further)

DriveSpec == DriveInit /\ [][DriveNext]_drive

-----------------------------------------------------------------------------
(* Properties                                                              *)

Past == where - goal

\* The train passes its objective by less than get_distance tolerates, unless the
\* objective is so close to the end of its canton that the train is past the next
\* balise when it stands: from there it sees the rest of the lap in front of it and
\* starts again (map.c:38).
StopsInTime == Past < Margin \/ overran

\* Once a train brakes for its objective it brakes until it stands, the objective
\* moves or the limit of the track slows it down more: retenue_sur_vitesse, which
\* keeps the speed it had before, never makes it surge forward again in between.
\* Only where get_distance takes it for a train with a lap to go does it start again.
KeepsBraking ==
    [][ brakes(speed, dist) /\ goal' = goal
        => \/ brakes(speed', dist')
           \/ speed' = Limit(where)
           \/ Overruns' \/ Past' >= Margin ]_drive

\* A train does not enter a slower canton faster than the limit of that canton,
\* but for the part of the speed that one frame of 100 ms takes off.
EntersSlowEnough ==
    [][ Canton(where) = 1 /\ Canton(where') = 2 => speed' <= v_limit[2] + 1 ]_drive
=============================================================================
