------------------------------ MODULE MCNWPC ------------------------------
(* Instances of NWPC for TLC.                                              *)
EXTENDS NWPC
OneFaultOrTwoRuns ==
    {[methods |-> {"paid", "absent"}, runs |-> 1, faults |-> 1],
     [methods |-> {"open", "logged", "paid"}, runs |-> 2, faults |-> 0]}
=============================================================================
