\* A request and a proof, each perhaps redelivered, in two overlapping runs, one fault
\* anywhere, and a clock that passes the expiry of the challenge and of its session;
\* with liveness, hence without symmetry.
SPECIFICATION FairSpec
CONSTANTS
    Requirements <- MCRequirements
    Proofs <- MCProofs
    Nonces = {n1}
    Events = {e1, e2}
    Slots = {s1, s2}
    ChallengeExpiry = 1
    SessionExpiry = 1
    KeepExpired = 0
    OrderedWrites = TRUE
    MaxTime = 2
    MaxFaults = 1
    NoMsg = NoMsg
    NoEvent = NoEvent
    NoNonce = NoNonce
    NoRequirement = NoRequirement
    NoProof = NoProof
INVARIANTS IInv SessionsKept
PROPERTIES ReplayRefused GoodProofGranted
CHECK_DEADLOCK FALSE
