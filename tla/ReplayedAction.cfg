SPECIFICATION OperatorSpec
CONSTANTS
    Clients = {c1}
    Operations = {"interaction"}
    FirstModes = {"RL"}
    MaxRequests = 3
    MaxOutages = 1
INVARIANTS
    ActionRunsOnce
