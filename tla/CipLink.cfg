SPECIFICATION Spec
CONSTANTS
    fan = fan
    fog = fog
    show = show
    watch = watch
    Device <- MCFan
    Caller <- MCCaller
    Auth = TRUE
    Prompt = FALSE
    Retries = 2
    Timeout = 0
    Holds = {0}
    Curved = {}
    Wirings <- MCNoWiring
    MaxNumber = 2
    MaxLoss = 0
    MaxDup = 1
    MaxBoots = 1
PROPERTY
    KeepsItsPromise
