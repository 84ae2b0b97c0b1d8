\* One token, two uses allowed, and three overlapping calls under three workloads.
SPECIFICATION Spec
CONSTANTS
    Tokens = {t1}
    Slots = {s1, s2, s3}
    MaxUses = 2
    Workloads <- MCWorkloads
    NoToken = NoToken
SYMMETRY Symmetry
INVARIANTS IInv BlockHolds UsesLimited SpentRefused
CHECK_DEADLOCK FALSE
