\* One invoice paid by tokens and by a provider in two overlapping runs, with two
\* faults; a second invoice would only repeat the first, runs share no other state.
SPECIFICATION FairSpec
CONSTANTS
    Booths = {"server", "agent"}
    Adapters = 1
    ItemType = "FUNGIBLE"
    Prices = {2, 3}
    Payments <- MCPayments
    Invoices = {i1}
    Slots = {s1, s2}
    MaxPays = 2
    MaxRepeats = 1
    MaxCatalog = 1
    MaxFaults = 2
    NoInvoice = NoInvoice
    NoAmount = NoAmount
INVARIANTS IInv SettledStays DeliveredOnce
PROPERTIES ChargedIsDelivered
CHECK_DEADLOCK FALSE
