------------------------------ MODULE MCDriving ------------------------------
(***************************************************************************)
(* Driving a train, at two grains: SpeedControl, frame by frame on two     *)
(* cantons, and OnBoard, cell by cell on whole loops.  They have no        *)
(* variable in common: a behaviour is one of the one or one of the other.  *)
(***************************************************************************)
EXTENDS SpeedControl, OnBoard

VARIABLE grain

\* Two cantons, the second slower; on the real tables v_limit goes from 25 to 40.
MCLengths == << 330, 90 >>
MCv_limit == << 30, 20, 30 >>

\* Three cantons of 2 m, 1.5 m and 2.5 m, and the triggers at 4 m, 2 m and 1 m.
MCCantons == << 4, 3, 5 >>
MCTriggers == << 8, 4, 2 >>

Init == \/ grain = "frame" /\ DriveInit /\ ProgramInit /\ at = 0
        \/ grain = "cell" /\ ProgramInit /\ DriveInit /\ \A g \in Goals : goal <= g

Next == \/ grain = "frame" /\ DriveNext /\ UNCHANGED << grain, program >>
        \/ grain = "cell" /\ ProgramNext /\ UNCHANGED << grain, drive >>

Grained == Init /\ [][Next]_<< grain, drive, program >>

\* ProgramFairness, at its grain.
FairSpec ==
    /\ Grained
    /\ SF_program(grain = "cell" /\ Move)
    /\ WF_program(grain = "cell" /\ (FirstBalise \/ PassBalise \/ Resume))
    /\ SF_program(grain = "cell" /\ (FirstFrame \/ Frame02F))
    /\ WF_program(grain = "cell" /\ (FirstAcknowledged \/ FirstRequest \/ NextRequest))
    /\ WF_program(grain = "cell" /\ \E e \in Cell : Answer(e))
    /\ SF_program(grain = "cell" /\ \E e \in Cell : Answer(e) /\ eoa' # eoa)
=============================================================================
