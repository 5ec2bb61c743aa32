SPECIFICATION FairSpec
CONSTANTS
    install = install
    again = again
    emergency = emergency
    rollback = rollback
    replay = replay
    ana = ana
    ben = ben
    auth = auth
    orchestrator = orchestrator
    NoRequest = NoRequest
    Kind <- MCKinds
    Key <- MCKeys
    Actor <- MCActors
    FirstRoles <- Admins
    AuthService = auth
    Requests = {rollback, replay}
    Actors = {ana}
    Services = {auth}
    Turns = {"admin", "viewer", "gone"}
    MaxSource = 2
    MaxPolicy = 1
    Faults = FALSE
INVARIANT OneOperationPerKey
PROPERTIES RequestsAnswered PolicyConverges
