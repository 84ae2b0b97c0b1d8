---------------------------- MODULE MCGateAccess ----------------------------
(* Instances of GateAccess for TLC.                                        *)
EXTENDS GateAccess, TLC

Times(f) == [k \in Kinds |-> IF k \in DOMAIN f THEN f[k] ELSE 0]
\* Overlapping uses up to the limit and beyond, with a reset.
Uses == Times([grant |-> 5, reset |-> 1])
\* Blocking, a failed write and a restart, while the token is presented.
Blocking == Times([grant |-> 2, verify |-> 1, block |-> 2, unblock |-> 1, fault |-> 1, crash |-> 1])
\* The token is spent at the forge, the policy changes, a write fails.
Spending == Times([grant |-> 3, spend |-> 1, policy |-> 1, fault |-> 1, crash |-> 1])
\* One call for a token the forge refuses, and one write that fails.
Refusal == Times([grant |-> 3, spend |-> 1, fault |-> 1])
MCWorkloads == {Uses, Blocking, Spending}
MCRefusal == {Refusal}
Symmetry == Permutations(Slots)
=============================================================================
