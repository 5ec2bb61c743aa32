SPECIFICATION Spec
CONSTANTS
    install = install
    again = again
    emergency = emergency
    rollback = rollback
    replay = replay
    ana = ana
    ben = ben
    auth = auth
    orchestrator = orchestrator
    NoRequest = NoRequest
    Kind <- MCKinds
    Key <- MCKeys
    Actor <- MCActors
    FirstRoles <- Admins
    AuthService = auth
    Requests = {install, emergency}
    Actors = {ana, ben}
    Services = {auth}
    Turns = {"admin", "gone"}
    MaxSource = 2
    MaxPolicy = 1
    Faults = TRUE
INVARIANT ExclusiveOperation
PROPERTY CreatedByAdmin
