\* Every run ends and every event is handled and marked, also across a crash or a failed write.
\* One of two recipients is not a key, so that sends throw.
SPECIFICATION FairSpec
CONSTANTS
    alice = alice  bob = bob  nokey = nokey
    Users = {alice, nokey}
    Malformed = {nokey}
    Owner = alice
    ConfigForgers = {}
    AdminKeys = {}
    TotalSupply = 0
    Amounts = {1}
    TimeLocks = {0}
    Senders = {alice}
    Witnesses = {TRUE}
    Ops = {"transfer"}
    Events = {e1, e2}
    Slots = {s1, s2}
    InitialTokens <- Purse
    OrderedWrites = TRUE
    MaxIns = 1
    MaxOuts = 1
    MaxTime = 0
    MaxFaults = 1
    MaxQueuedSaves = 0
    NoReq = NoReq
    NoEvent = NoEvent
PROPERTIES RunsFinish EventsHandled
CHECK_DEADLOCK FALSE
