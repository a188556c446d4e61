SPECIFICATION ChannelSpec
CONSTANTS
    Capacity = 3
    MaxPackets = 4
    MaxSegments = 1
    MaxRestarts = 2
INVARIANT
    OldStaysUnread
CHECK_DEADLOCK FALSE
