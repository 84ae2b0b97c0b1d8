\* Two overlapping runs under five workloads, three under a sixth.
SPECIFICATION Spec
CONSTANTS
    s1 = s1  s2 = s2  s3 = s3  m1 = m1  m2 = m2  main = main
    Seeds = {m1, m2}
    FirstSeed = m1
    Foreign <- MCForeign
    Amounts <- MCAmounts
    Slots = {s1, s2, s3}
    Workloads <- MCWorkloads
    Main = main
    NoToken = NoToken
    NoEvent = NoEvent
SYMMETRY Symmetry
CHECK_DEADLOCK FALSE
INVARIANTS
    IInv
    KeepsTokens
    AddressReachable
    SelectionMinimal
PROPERTY
    AddressFresh
