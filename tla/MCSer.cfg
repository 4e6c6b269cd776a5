SPECIFICATION Spec
CONSTANTS
    BUF_SIZE = 4
    Packets <- MCPackets
    Byte = {0, 1}
INVARIANTS
    NoEcho
    IdleMeansListening
PROPERTIES
    LastByteOut
    ImplementsDuplex
