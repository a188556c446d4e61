SPECIFICATION Spec
CONSTANTS
    StateTimeout = 2
    StartupTimeout = 3
    Speeds = {0, 1, 2, 4}
    Epsilon = 1
    PlanTail = 2
    Capacity = 3
    MaxPackets = 5
    MaxSegments = 2
    MaxRestarts = 2
    Medium = "udp"
    MaxDof = 2
    QueueCapacity = 1
    SpareSlots = {1}
    Capacities = {1, 2}
    MaxSamples = 4
    MaxCalls = 4
    Clips <- TwoClips
    BlendIn = 2
    BlendOut = 3
    ReturnVelocity = 6
    Jolt = 9
    MaxNumber = 3
INVARIANTS
    RestIsStanding
    OnlyNewer
    FaithfulDelivery
    CompleteIsWritten
    ConfirmedIsDone
PROPERTIES
    NeverBlind
    StartupFaultReaches
    TriggerIsHandled
    StopDrains
    PreparationIsCancelled
    ArmIsSteady
CHECK_DEADLOCK FALSE
