\* Transfers and burns of the same coins on two handler runs, with ordered storage,
\* a crash or a failed write.
\* Clients may stop asking: a final state is no deadlock.
SPECIFICATION Spec
CONSTANTS
    alice = alice  bob = bob  nokey = nokey
    Users = {alice, bob}
    Malformed = {}
    Owner = alice
    ConfigForgers = {}
    AdminKeys = {}
    TotalSupply = 0
    Amounts = {2}
    TimeLocks = {0}
    Senders = {alice}
    Witnesses = {TRUE}
    Ops = {"transfer", "burn"}
    Events = {e1, e2}
    Slots = {s1, s2}
    InitialTokens <- TwoCoins
    OrderedWrites = TRUE
    MaxIns = 2
    MaxOuts = 1
    MaxTime = 0
    MaxFaults = 1
    MaxQueuedSaves = 0
    NoReq = NoReq
    NoEvent = NoEvent
SYMMETRY HandlerSymmetry
INVARIANTS IInv NoReplay NoInflation
PROPERTIES SpendOnce LedgerSpec
CHECK_DEADLOCK FALSE
