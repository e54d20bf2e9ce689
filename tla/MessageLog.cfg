SPECIFICATION Spec
CONSTANTS
    alice = alice  bob = bob
    Nodes = {alice, bob}
    Times = {1, 2}
    Lengths = {20}
    Known <- MCKnown
    MaxMsgLen = 512
    MaxMessages = 2
    MaxStarts = 2
    DiskMayFail = TRUE
    NL = NL
INVARIANTS TypeOK SortedOnce WrittenFirst OnlyVerified LoadableUnlessTorn
CHECK_DEADLOCK FALSE
