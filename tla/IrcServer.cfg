SPECIFICATION Spec
CONSTANTS
    a1 = a1  a2 = a2  a3 = a3
    ip1 = ip1  ip2 = ip2
    n1 = n1  n2 = n2
    k1 = k1  k2 = k2
    ch = ch
    NoNick = NoNick  NoKey = NoKey
    Addrs = {a1, a2, a3}
    IpOf <- MCIpOf
    Nicks = {n1, n2}
    Keys = {k1, k2}
    KeyOf <- MCKeyOf
    PowBits <- MCPowBits
    Channels = {ch}
    Difficulties = {0, 8}
    InitialBits = 0
    MaxTotalClients = 1
    MaxClientsPerIp = 1
    MaxHandshakes = 2
INVARIANTS TypeOK LocalsCurrent MembersRegistered CapOvershoot
PROPERTIES BindingStable
CHECK_DEADLOCK FALSE
