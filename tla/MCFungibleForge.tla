--------------------------- MODULE MCFungibleForge ---------------------------
(* Instances of FungibleForge for TLC.                                        *)
EXTENDS FungibleForge

CONSTANTS alice, bob, nokey

NoCoins == {}
Purse == {[amount |-> 2, lock |-> alice, iat |-> 0, timeLock |-> 0]}
TwoCoins == Purse \cup {[amount |-> 1, lock |-> alice, iat |-> 0, timeLock |-> 0]}

HandlerSymmetry == Permutations(Slots) \cup Permutations(Events)
==============================================================================
