SPECIFICATION Spec
CONSTANTS
    fan = fan
    fog = fog
    None = None
    Guarded <- MCGuarded
    Timeout = 1
    Limit <- MCLimit
    DutyLimited <- MCDutyLimited
    Quiet = TRUE
    CanFail = TRUE
INVARIANTS
    LatchedRigIsSafe
    

    
