SPECIFICATION Spec
CONSTANTS
    image = image
    replicas = replicas
    again = again
    NoChange = NoChange
    Changes = {image, again}
    Target <- MCTarget
    Promotions = {}
    Writers = {"sweep", "release", "standard"}
    ChanCap = 1
    WireCap = 1
    MaxFaults = 0
SYMMETRY Interchangeable
CHECK_DEADLOCK FALSE
INVARIANT TargetLocked
