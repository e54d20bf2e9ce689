SPECIFICATION SpecExchange
CONSTANTS
    a1 = a1  a2 = a2  ip1 = ip1  n1 = n1  n2 = n2  k1 = k1  k2 = k2
    lobby = lobby  den = den
    NoNick = NoNick  NoKey = NoKey
    Addrs = {a1, a2}
    IpOf <- MCIpOf
    Nicks = {n1, n2}
    NickOf <- MCNickOf
    Keys = {k1, k2}
    KeyOf <- MCKeyOf
    PowBits <- MCPowBits
    Channels = {lobby, den}
    Home = lobby
    Difficulties = {0}
    InitialBits = 0
    MaxTotalClients = 2
    MaxClientsPerIp = 2
    MaxHandshakes = 2
    MaxSessions = 2
INVARIANTS ExchangeTypeOK OneKnowsTheOther NoKeyOutlivesItsPeer
CHECK_DEADLOCK FALSE
