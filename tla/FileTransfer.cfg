SPECIFICATION Spec
CONSTANTS
    ann = ann  bob = bob  cat = cat
    long = long  empty = empty  photo = photo  NoFile = NoFile
    Users = {ann, bob, cat}
    Pairs <- MCPairs
    Files = {long, empty}
    Name <- MCName
    Size <- MCSize
    MaxShares = 2
    MaxBreaks = 1
    MaxErrors = 1
    MaxBadSaves = 1
INVARIANT NewestOnDisk
PROPERTIES DeliversWhole CountedArrives
CHECK_DEADLOCK FALSE
