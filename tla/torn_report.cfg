SPECIFICATION ReadsSpec
CONSTANTS
    Active = {0, 2}
    Followed = {}
    PosMax = 1
    EveryBalise = TRUE
    CanMayFail = FALSE
    Apart = FALSE
    chemins <- unirail_chemins
    StartBalise <- unirail_StartBalise
    L_res_req <- unirail_L_res_req
    L_res_lib <- unirail_L_res_lib
    L_mask_req <- unirail_L_mask_req
    L_mask_lib <- unirail_L_mask_lib
    L_res_size <- unirail_L_res_size
    all_command_aig <- followed_all_command_aig
INVARIANTS
    AuthorityStopsAtTrains
CONSTRAINT NotLeft
