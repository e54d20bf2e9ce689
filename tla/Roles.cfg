SPECIFICATION Spec
CONSTANTS
    ann = ann  hal = hal  zoe = zoe  lobby = lobby  den = den
    Users = {ann, hal}
    Nickname <- MCNickname
    HostUser = hal
    Rooms = {lobby, den}
    Home = lobby
    MaxSwitches = 2
    MaxOrders = 1
    MaxQuits = 1
INVARIANTS TypeOK RolesFromHost AllInEarshot
CHECK_DEADLOCK FALSE
