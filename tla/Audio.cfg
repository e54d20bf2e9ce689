SPECIFICATION Spec
CONSTANTS
    ann = ann  bob = bob  hal = hal
    Users = {ann, bob, hal}
    Superpeers = {hal}
    MaxSpoken = 1
    MaxChanges = 1
    MaxLosses = 1
INVARIANT FewCopies
CHECK_DEADLOCK FALSE
PROPERTIES RelayCovers LoopGetsPeers
