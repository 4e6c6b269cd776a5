SPECIFICATION Spec
CONSTANTS
    Bytes <- MCBytes
    PKT_PREAMBLE = 3
    PKT_SYNC = 4
    PKT_HEADER_LEN = 2
    PKT_PAYLOAD_LEN = 2
    RXBUF_SIZE = 4
    CrcUpdate <- MCCrcUpdate
INVARIANTS
    OneOwner
    NoOverrun
    Resync
    OnlyGoodFrames
PROPERTIES
    GoodFrameDelivered
    ImplementsRxBuf
