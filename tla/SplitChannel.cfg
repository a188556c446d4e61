SPECIFICATION ChannelSpec
CONSTANTS
    Capacity = 4
    MaxPackets = 1
    MaxSegments = 2
    MaxRestarts = 2
INVARIANT
    WriterIsFound
CHECK_DEADLOCK FALSE
