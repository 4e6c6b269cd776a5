SPECIFICATION Spec
CONSTANTS
    Node = {n1, n2, n3}
    NoNode = NoNode
    Addrs = {0, 1, 2, 3}
INVARIANTS
    OneTalker
    KnowledgeRight
    AddressesUnique
PROPERTIES
    FallsQuiet
