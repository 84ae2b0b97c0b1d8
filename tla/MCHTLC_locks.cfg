\* A swap of two tokens between two parties under one hash, or tokens with other locks;
\* the windows of a contract are scaled down so that it lapses, ages past the window and
\* starts before it.
\* Holders may stop spending: a final state is no deadlock.
SPECIFICATION HTLCSpec
CONSTANTS
    Tokens = {a, b}
    Parties = {alice, bob}
    Secrets = {s1}
    Durations = {0, 2, 4}
    LockTimes = {0, 2}
    Past = 2
    Future = 3
    PerSecond = 2
    MaxTime = 5
    NoOne = NoOne
    NoSecret = NoSecret
    Malformed = Malformed
    NotIssued = NotIssued
    Unspent = Unspent
SYMMETRY TokenSymmetry
INVARIANTS HTLCInv TransferableInTime RefundOnly
CHECK_DEADLOCK FALSE
