SPECIFICATION FairSpec
CONSTANTS
    Lengths <- MCLengths
    v_last = 25
    v_limit <- MCv_limit
    LapLength = 2000
    Goals = {29, 400}
    Further = {10, 150}
    Period = 10
    Gains = {10, 100}
    Margin = 50
    Cantons <- MCCantons
    Triggers <- MCTriggers
    Laps = 2
    ExtraLaps = 1
INVARIANTS
    StopsInTime
    CountsTurns
PROPERTIES
    KeepsBraking
    EntersSlowEnough
    StopsAtAuthority
    CompletesMission
CHECK_DEADLOCK FALSE
