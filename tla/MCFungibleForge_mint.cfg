\* Mints while the operator revokes and restores a forger; EOSE saves, a crash or a failed
\* write; one recipient is not a key.
SPECIFICATION Spec
CONSTANTS
    alice = alice  bob = bob  nokey = nokey
    Users = {alice, bob, nokey}
    Malformed = {nokey}
    Owner = alice
    ConfigForgers = {bob}
    AdminKeys = {bob}
    TotalSupply = 5
    Amounts = {0, 2}
    TimeLocks = {0}
    Senders = {bob}
    Witnesses = {TRUE}
    Ops = {"mint", "verify"}
    Events = {e1}
    Slots = {s1, s2}
    InitialTokens <- Purse
    OrderedWrites = TRUE
    MaxIns = 1
    MaxOuts = 1
    MaxTime = 1
    MaxFaults = 1
    MaxQueuedSaves = 1
    NoReq = NoReq
    NoEvent = NoEvent
SYMMETRY HandlerSymmetry
INVARIANTS RevocationSticks
CHECK_DEADLOCK FALSE
