SPECIFICATION ReleaseSpec
CONSTANTS
    install = install
    upgrade = upgrade
    rollback = rollback
    another = another
    NoCommand = NoCommand
    Ops = {upgrade}
    UpgradeOps = {upgrade}
    BundleOps = {upgrade}
    NStages = 1
    Commands <- MCCommands
    StageCommands <- MCStageCommands
    UpgradeCommands <- MCUpgradeCommands
    DeliverChCap = 1
    WireCap = 1
    MaxFaults = 1
CHECK_DEADLOCK FALSE
INVARIANTS AckedIsDurable ResultAgreement
PROPERTIES ImplementsLifecycle CompletedNeverRerun
