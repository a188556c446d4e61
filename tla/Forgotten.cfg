SPECIFICATION Spec
CONSTANTS
    None = None
    stand = stand
    walk = walk
    dance = dance
    wave = wave
    Policies = {stand, walk, dance, wave}
    DefaultPolicy = walk
    Selectable = {stand, walk, dance, wave}
    Group <- StandApart
    Prerequisite <- DanceToStand
    Return <- NoPolicy
    Actions <- NoAction
    Keys <- AllKeys
    Codes = {"driver"}
    SensorFaults = {}
    MonitorFaults = {}
    SettleTicks = 1
    ReleaseTicks = 2
    SwitchTimeout = 2
    PrereqTicks = 1
    MaxFaults = 1
PROPERTY
    ReplacedByHandoff
CHECK_DEADLOCK FALSE
