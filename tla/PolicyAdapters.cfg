SPECIFICATION FairAdapterSpec
CONSTANTS
    Length = 2
    Pause = 1
    Transition = 1
    BlendIn = 1
    BlendOut = 1
    MaxHold = 1
    ReleaseFrames = 1
    MaxNumber = 2
    MaxStep = 2
INVARIANTS
    PromiseIsRest
    FreshStart
    StandsThroughGesture
PROPERTIES
    ImplementsHandoff
