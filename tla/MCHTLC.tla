------------------------------- MODULE MCHTLC --------------------------------
(* An instance of HTLC for TLC: the two sides of a swap can be exchanged.  *)
EXTENDS HTLC, TLC

TokenSymmetry == Permutations(Tokens) \cup Permutations(Parties)
=============================================================================
