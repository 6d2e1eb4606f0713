\* The direct channel opens while the handover to the relay is under way.
SPECIFICATION Spec
CONSTANTS
    QueueSize = 32
    Sessions <- Faultless
INVARIANT ReturnedChannelKept
CHECK_DEADLOCK FALSE
