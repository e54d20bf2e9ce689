SPECIFICATION Spec
CONSTANTS
    alice = alice  bob = bob
    offer = offer  candidate = candidate  call = call
    id1 = id1  id2 = id2
    Senders = {alice, bob}
    Signals = {offer, candidate, call}
    SenderOf <- MCSenderOf
    MsgId <- MCMsgId
    Total <- MCTotal
    Blank <- MCBlank
    MaxForgets = 1
INVARIANTS TypeOK NothingVanishes
PROPERTIES ImplementsChannel SignalsArrive
CHECK_DEADLOCK FALSE
