SPECIFICATION Spec
CONSTANTS
    Byte <- MCByte
    SIZE = 6
    CFG_TYPE_2 = 2
    parmtable <- MCTable
    Default <- MCDefault
    CrcUpdate <- MCCrcUpdate
    Complement <- MCComplement
    Found <- MCFound
    UID <- MCUid
    Addrs = {0, 1}
    PayloadBytes = {0, 1, 2}
    PAYLOAD_LEN = 3
INVARIANTS
    NeverHalf
PROPERTIES
    SetsOnlyWhatWasSent
    AcknowledgedIsStored
    ImplementsNvParms
