---------------------------- MODULE MCInterlocking ----------------------------
(***************************************************************************)
(* Interlocking on the tables of the railway (UnirailMap), for TLC.        *)
(***************************************************************************)
EXTENDS Interlocking, UnirailMap

CONSTANT Followed    \* bound: the switches whose commands a run keeps

followed_all_command_aig ==
    [t \in Train |-> [k \in 1 .. Len(unirail_all_command_aig[t]) |->
        SelectSeq(unirail_all_command_aig[t][k], LAMBDA c : c.name \in Followed)]]

\* Every train needs resources of the tables only.  TLC computes the whole of
\* these tables here, once.
ASSUME NeededAssumption ==
    /\ Needed \in [Course -> SUBSET Resource]
    /\ IndexOf = [t \in Train |-> IndexOf[t]]
    /\ Between = [t \in Train |-> Between[t]]
    /\ Answers = [t \in Train |-> Answers[t]]
=============================================================================
