\* Mints, transfers and burns of two tokens and new ones on two handler runs, under both
\* strategies for ids, with one crash or failed write and a clock of two instants
\* that ticks between the making of two tokens.
SPECIFICATION Spec
CONSTANTS
    Strategies = {"sequential", "unique"}
    Uuids = {u1, u2, u3, u4}
    GenesisUuids = {u1, u2}
    Users = {bob, nokey}
    Malformed = {nokey}
    Supplies = {3}
    Genesis = 2
    Holder = alice
    Slots = {s1, s2}
    MaxIns = 2
    MaxOuts = 2
    MaxRequests = 2
    MaxTime = 1
    MaxFaults = 1
    NoId = NoId
    NoToken = NoToken
    NoReq = NoReq
SYMMETRY SlotSymmetry
INVARIANTS IInv OneHolder CirculatingCovers OverrunBounded
ACTION_CONSTRAINT TellingTicks
CHECK_DEADLOCK FALSE
