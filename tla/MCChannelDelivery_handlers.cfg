\* Three messages on each of two channels, with room for four.
\* Everything has been handled in the end.
SPECIFICATION Spec
CONSTANTS
    primary = primary
    lane = lane
    Channels = {primary, lane}
    MaxMessages = 3
    BufferLimit = 4
INVARIANT TypeOK
INVARIANT HandledOnce
INVARIANT ClosedOnce
CHECK_DEADLOCK FALSE
