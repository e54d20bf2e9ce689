SPECIFICATION Spec
CONSTANTS
    alice = alice  bob = bob
    Nodes = {alice, bob}
    Times = {1}
    Lengths = {20}
    Known <- MCKnowOthers
    MaxMsgLen = 512
    MaxMessages = 1
    MaxStarts = 2
    DiskMayFail = FALSE
    NL = NL
PROPERTIES LogsMerge
CHECK_DEADLOCK FALSE
