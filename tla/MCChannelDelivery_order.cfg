\* Two messages on the primary channel.
SPECIFICATION Spec
CONSTANTS
    primary = primary
    Channels = {primary}
    MaxMessages = 2
    BufferLimit = 4
INVARIANT OrderPreserved
CHECK_DEADLOCK FALSE
