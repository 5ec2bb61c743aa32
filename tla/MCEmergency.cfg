SPECIFICATION FairSpec
CONSTANTS
    image = image
    replicas = replicas
    again = again
    NoChange = NoChange
    Changes = {image}
    Target <- MCTarget
    Promotions = {image}
    Writers = {"sweep", "cancel", "release", "standard"}
    ChanCap = 1
    WireCap = 1
    MaxFaults = 1
CHECK_DEADLOCK FALSE
INVARIANT AppliedIsTrue
PROPERTIES ResultSettles KnownEffectKept EveryChangeEnds
