SPECIFICATION Spec
CONSTANTS
    alice = alice  bob = bob
    Caller = alice
    Callee = bob
    MaxConns = 4
    MaxMishaps = 1
INVARIANTS TypeOK OneConnectionEach NoCallWithTheDeparted
PROPERTIES CallComesUp
CHECK_DEADLOCK FALSE
