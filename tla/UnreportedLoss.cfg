SPECIFICATION Spec
CONSTANT MaxSetbacks = 3
INVARIANT WaitIsReported
