SPECIFICATION Spec
CONSTANTS
    a = a
    b = b
    c = c
    Conns <- ThreeConns
    Limit = 1
    DevicesFail = FALSE
INVARIANT
    WithinLimit
CHECK_DEADLOCK FALSE
