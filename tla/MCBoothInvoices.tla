--------------------------- MODULE MCBoothInvoices ---------------------------
(* Instances of BoothInvoices for TLC.                                     *)
EXTENDS BoothInvoices

Coin == [id |-> 1, hashed |-> TRUE, signed |-> TRUE, expired |-> FALSE, ofIssuer |-> TRUE,
         typ |-> "FUNGIBLE", lock |-> "booth", amount |-> 1, named |-> FALSE]
Other == [Coin EXCEPT !.id = 2, !.lock = "none"]
(* Enough, too little, and lists with a token that is expired, is not the  *)
(* booth's, is worth nothing or is of the other type.                      *)
MCPayments ==
    {<<Coin, Other>>, <<Other>>, <<>>, <<Coin, [Other EXCEPT !.expired = TRUE]>>,
     <<Coin, [Other EXCEPT !.lock = "stranger"]>>,
     <<Coin, [Other EXCEPT !.amount = 0]>>, <<Coin, [Other EXCEPT !.typ = "TAT"]>>}
=============================================================================
