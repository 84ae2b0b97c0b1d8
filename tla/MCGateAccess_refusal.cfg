\* A token the forge refuses, and one write that fails.
SPECIFICATION Spec
CONSTANTS
    Tokens = {t1}
    Slots = {s1, s2}
    MaxUses = 2
    Workloads <- MCRefusal
    NoToken = NoToken
INVARIANTS RefusalSticks
CHECK_DEADLOCK FALSE
