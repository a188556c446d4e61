SPECIFICATION FairOperatorSpec
CONSTANTS
    Clients = {c1, c2}
    Operations = {"state", "velocity", "interaction", "policy"}
    FirstModes = {"RL"}
    MaxRequests = 2
    MaxOutages = 1
INVARIANTS
    NothingWithoutOwner
PROPERTIES
    DriverlessStops
