\* Two request threads, three symbols, a limit of two items.
SPECIFICATION Spec
CONSTANTS
    Request = {p1, p2}
    Symbol = {BTC, ETH, SOL}
    None = None
    Limit = 2
    MaxRequests = 3
    MaxSerial = 4
    MaxFaults = 1
SYMMETRY Symmetry
INVARIANTS MirrorFresh StoresSound
PROPERTIES ImplementsList
CHECK_DEADLOCK FALSE
