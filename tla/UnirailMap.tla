------------------------------ MODULE UnirailMap ------------------------------
(***************************************************************************)
(* The tables the RBC is compiled with: the three loops of the model       *)
(* railway (app/utility/src/map.c), the resources each train asks for and  *)
(* gives back along its loop (app/utility/src/const_chemins.c) and the     *)
(* switch commands sent when a resource has been obtained                  *)
(* (app/utility/src/can_infra.c).                                          *)
(*                                                                         *)
(* A train is its index in the tables, 0..2 (train_id - 1 on the wire).    *)
(* C arrays become sequences, so the C index k is the TLA+ index k + 1.    *)
(* A resource mask becomes the set of its bits: Rk is bit k - 1.           *)
(* unirail_x is the value of the table x, a constant of Interlocking.      *)
(***************************************************************************)
EXTENDS Naturals, Sequences, TLC

NB_TRAINS == 3

\* A table with one row per train, as the C arrays of three pointers.
PerTrain(row0, row1, row2) == (0 :> row0) @@ (1 :> row1) @@ (2 :> row2)

R1 == {1}
R2 == {2}
R3 == {3}
R4 == {4}
R5 == {5}

-----------------------------------------------------------------------------
(* map.c: the loop of each train as a list of balises, and its first one.  *)

chemin1 == << 1, 2, 3, 12, 13, 7, 8, 9 >>
chemin2 == << 21, 17, 11, 251, 26, 250, 25, 20 >>
chemin3 == << 22, 23, 24, 25, 250, 26, 251, 27, 28, 29, 11, 12, 13, 7, 8, 9 >>

unirail_chemins == PerTrain(chemin1, chemin2, chemin3)

\* trains.c init_trains: where the RBC believes the trains are at start-up.
unirail_StartBalise == PerTrain(1, 21, 22)

-----------------------------------------------------------------------------
(* const_chemins.c: where a train asks for its next resources, where it    *)
(* gives its next resources back, and which ones.                          *)

unirail_L_res_req  == PerTrain(<< 3, 9 >>, << 21, 17, 11 >>, << 24, 29, 11, 9 >>)

\* Train 1 has four release balises although L_res_size[1] is 3.
unirail_L_res_lib  == PerTrain(<< 12, 1 >>, << 17, 11, 251, 20 >>, << 27, 11, 12, 22 >>)

unirail_L_mask_req == PerTrain(<< R4, R1 >>,
                       << R2, R3, R4 \cup R5 >>,
                       << R5, R3, R4, R1 \cup R2 >>)

unirail_L_mask_lib == PerTrain(<< R4, R1 >>,
                       << R2, R3, R4, R5 >>,
                       << R5, R3, R4, R1 \cup R2 >>)

unirail_L_res_size == PerTrain(2, 3, 4)

-----------------------------------------------------------------------------
(* can_infra.c: the switches to move for each resource of a train.  A      *)
(* switch is its CAN identifier, here three digits written as a string.    *)

Turn(names)     == [i \in 1 .. Len(names) |-> [name |-> names[i], dir |-> 1]]
Straight(names) == [i \in 1 .. Len(names) |-> [name |-> names[i], dir |-> 0]]

command_aig_t1_r4 ==
    Turn(<< "1A2", "192" >>) \o Straight(<< "212", "202" >>) \o Turn(<< "1D2", "1E2" >>)
command_aig_t1_r1 == Turn(<< "112" >>) \o Straight(<< "102" >>)

command_aig_t2_r2 == Straight(<< "132", "142" >>)
command_aig_t2_r3 == Straight(<< "152", "162" >>)
command_aig_t2_r4 ==
    Straight(<< "192" >>) \o Turn(<< "212" >>) \o Straight(<< "1F2" >>)
        \o Turn(<< "1B2" >>) \o Straight(<< "182" >>)

command_aig_t3_r5 == Straight(<< "1B2" >>) \o Turn(<< "1F2" >>)
command_aig_t3_r3 == Turn(<< "152" >>) \o Straight(<< "162" >>)
command_aig_t3_r4 ==
    Straight(<< "192", "212", "202" >>) \o Turn(<< "1D2", "1E2" >>)
command_aig_t2_r1_2 == Straight(<< "102", "112" >>) \o Turn(<< "122", "132", "142" >>)

unirail_all_command_aig ==
    PerTrain(<< command_aig_t1_r4, command_aig_t1_r1 >>,
             << command_aig_t2_r2, command_aig_t2_r3, command_aig_t2_r4 >>,
             << command_aig_t3_r5, command_aig_t3_r3, command_aig_t3_r4,
                command_aig_t2_r1_2 >>)
=============================================================================
