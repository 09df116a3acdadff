SPECIFICATION Spec
CONSTANTS
    fan = fan
    fog = fog
    show = show
    watch = watch
    Device <- MCDevice
    Caller <- MCShow
    Auth = FALSE
    Prompt = TRUE
    Retries = 2
    Timeout = 1
    Holds = {0, 1}
    Curved <- MCFan
    Wirings = {}
    MaxNumber = 2
    MaxLoss = 1
    MaxDup = 0
    MaxBoots = 1

    
PROPERTIES
    HoldsEnd
    SilenceMakesSafe
