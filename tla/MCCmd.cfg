SPECIFICATION Spec
CONSTANTS
    Contents <- MCPackets
    TICKS = 16
    Addrs = {0, 1, 2}
    Commands = {"PING", "DFU", "UID", "ADDR", "FACTORY", "SETPARM"}
    PKT_TIMEOUT = 3
    MaxLoop = 1
    Cap = 7
INVARIANTS
    MainContract
    NoReplyWhileSending
    TimeoutExact
    StuckPacketBounded
PROPERTIES
    AlwaysReceivesAgain
