SPECIFICATION FairSpec
CONSTANTS
    None = None
    stand = stand
    walk = walk
    dance = dance
    wave = wave
    Policies = {stand, dance}
    DefaultPolicy = stand
    Selectable = {stand, dance}
    Group <- OneGroup
    Prerequisite <- DanceToStand
    Return <- DanceToStand
    Actions <- NoAction
    Keys <- AllKeys
    Codes = {"driver"}
    SensorFaults = {}
    MonitorFaults = {}
    SettleTicks = 1
    ReleaseTicks = 2
    SwitchTimeout = 2
    PrereqTicks = 2
    MaxFaults = 1
INVARIANT
    PolicyLocked
PROPERTIES
    PrerequisiteRunsFirst
    HandoffEnds
    RequestIsAnswered
