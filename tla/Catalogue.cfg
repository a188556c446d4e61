SPECIFICATION Spec
CONSTANTS
    None = None
    stand = stand
    walk = walk
    dance = dance
    wave = wave
    Policies = {stand, walk, wave}
    DefaultPolicy = walk
    Selectable = {stand, walk}
    Group <- OneGroup
    Prerequisite <- NoPolicy
    Return <- NoPolicy
    Actions <- WalkWaves
    Keys <- AllKeys
    Codes = {"driver"}
    SensorFaults = {}
    MonitorFaults = {}
    SettleTicks = 1
    ReleaseTicks = 2
    SwitchTimeout = 2
    PrereqTicks = 1
    MaxFaults = 1
INVARIANTS
    OneRetiring
    ActionStatusIsTrue
PROPERTIES
    RunningPolicyIsHandedOver
