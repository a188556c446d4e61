SPECIFICATION FairSpec
CONSTANTS
    None = None
    stand = stand
    walk = walk
    dance = dance
    wave = wave
    Policies = {stand}
    DefaultPolicy = stand
    Selectable = {stand}
    Group <- OneGroup
    Prerequisite <- NoPolicy
    Return <- NoPolicy
    Actions <- NoAction
    Keys <- AllKeys
    Codes = {"driver", "timeout"}
    SensorFaults <- ControlReports
    MonitorFaults = {"limit"}
    SettleTicks = 2
    ReleaseTicks = 2
    SwitchTimeout = 2
    PrereqTicks = 2
    MaxFaults = 2
INVARIANTS
    LatchedFaultDisarms
    DriveIsJustified
PROPERTIES
    ServesInterlock
    AcknowledgedByItsSequence
    ConfirmedReportIsQuiet
