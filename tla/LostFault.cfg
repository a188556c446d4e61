SPECIFICATION Spec
CONSTANTS
    None = None
    stand = stand
    walk = walk
    dance = dance
    wave = wave
    Policies = {stand}
    DefaultPolicy = stand
    Selectable = {stand}
    Group <- OneGroup
    Prerequisite <- NoPolicy
    Return <- NoPolicy
    Actions <- NoAction
    Keys <- AllKeys
    Codes = {"driver", "timeout"}
    SensorFaults = {}
    MonitorFaults = {}
    SettleTicks = 2
    ReleaseTicks = 2
    SwitchTimeout = 2
    PrereqTicks = 2
    MaxFaults = 1
INVARIANT
    SafetyIsLatched
