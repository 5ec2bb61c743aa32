SPECIFICATION FairReleaseSpec
CONSTANTS
    install = install
    upgrade = upgrade
    rollback = rollback
    another = another
    NoCommand = NoCommand
    Ops = {install}
    UpgradeOps = {}
    BundleOps = {install}
    NStages = 1
    Commands <- MCCommands
    StageCommands <- MCStageCommands
    UpgradeCommands <- MCUpgradeCommands
    DeliverChCap = 1
    WireCap = 1
    MaxFaults = 0
CHECK_DEADLOCK FALSE
INVARIANT SuccessVouched
PROPERTIES  QueueDrains
