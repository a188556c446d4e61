SPECIFICATION Spec
CONSTANT MaxSetbacks = 3
INVARIANT HeldOff
PROPERTIES RearmIsAsked LossIsReported KeepsInterlock
           LatchCanBeCleared WaitEnds StopIsObeyed
