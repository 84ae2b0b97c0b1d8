\* Two calls and one token: three routes and two overlapping handler runs without a fault;
\* one route or none, one handler run at a time, and one lost connection, failed publish
\* or failed mark.
SPECIFICATION FairSpec
CONSTANTS
    MaxCalls = 2
    Tokens = {t1}
    Bounds <- OneFaultOrTwoRuns
    NoToken = NoToken
INVARIANTS IInv OwnChain PaidOnce
PROPERTIES CallsSettle RequestsAnswered
CHECK_DEADLOCK FALSE
