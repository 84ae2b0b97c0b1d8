---------------------------- MODULE MCBoothOrders ----------------------------
(* Instances of BoothOrders for TLC.                                       *)
EXTENDS BoothOrders

Times(f) == [k \in Kinds |-> IF k \in DOMAIN f THEN f[k] ELSE 0]
\* Two payments of one order, and the order cancelled.
TwoPayments == Times([pay |-> 2, cancel |-> 1, failure |-> 1])
\* A refund decided twice while verifications go on.
Refunds == Times([pay |-> 1, cancel |-> 1, refund |-> 1, decide |-> 2])
\* Writes and fulfilments that fail, and a restart.
Faults == Times([pay |-> 1, failure |-> 1, fault |-> 1, crash |-> 1])
MCWorkloads == {TwoPayments, Refunds, Faults}
=============================================================================
