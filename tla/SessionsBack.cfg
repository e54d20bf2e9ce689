SPECIFICATION Spec
CONSTANTS
    alice = alice  Plain = Plain  Own = Own  Far = Far
    NoNick = NoNick  NoServer = NoServer  NoLink = NoLink
    Bases = {alice}
    MaxAttempts = 2
    ByteBits = 2
    HashBytes = 2
    CountBits = 2
    Hash <- MCHash
    FirstName <- MCFirstName
    TypedNames <- MCTypedNames
    LinkBits = {2, 3}
    Bits = {2}
    MaxSessions = 2
INVARIANT ComesBack

