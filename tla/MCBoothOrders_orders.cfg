\* One order and two overlapping runs under three workloads: two payments and a
\* cancellation; refunds; failed fulfilments, failed writes and a restart.
SPECIFICATION FairSpec
CONSTANTS
    Orders = {o1}
    Payments = {p1, p2}
    Buyers = {b1}
    Slots = {s1, s2}
    Workloads <- MCWorkloads
    NoOrder = NoOrder
    NoPayment = NoPayment
    NoBuyer = NoBuyer
INVARIANTS IInv NoneLeftHalfWay
PROPERTIES CollectedIsFulfilled
CHECK_DEADLOCK FALSE
