------------------------------ MODULE MCPocket ------------------------------
(* Instances of Pocket for TLC.                                            *)
EXTENDS Pocket, TLC

CONSTANTS s1, s2, s3, m1, m2, main

\* Up to runs at one time, payments of up to most, and f of each operation.
LoadOf(runs, most, f) ==
    [op \in Ops |-> CASE op = "runs" -> runs
                      [] op = "most" -> most
                      [] OTHER -> IF op \in DOMAIN f THEN f[op] ELSE 0]
\* Receiving, deleting and reconciling in overlapping runs.
Tokens2 == LoadOf(2, 2, [pay |-> 2, elsewhere |-> 1, reconcile |-> 1, crash |-> 1])
\* Deriving, removing and restoring keys with a failed write and a crash.
Keys2 == LoadOf(2, 2,
    [address |-> 2, remove |-> 1, export |-> 1, restore |-> 1, crash |-> 1, fail |-> 1])
\* Paying out with change; two transfers that choose the same coin.
Spend2 == LoadOf(2, 2, [pay |-> 2, transfer |-> 1])
Contend2 == LoadOf(2, 2, [pay |-> 1, transfer |-> 2])
\* A payment to a single-use key, spent after the key was removed.
Single2 == LoadOf(2, 2, [pay |-> 1, address |-> 1, remove |-> 1, transfer |-> 1, eose |-> 1])
\* A token that is deleted, and imported again during one rebuild, by three runs.
Again3 == LoadOf(3, 1, [pay |-> 2, elsewhere |-> 1, import |-> 1])

MCWorkloads == {Tokens2, Keys2, Spend2, Contend2, Single2, Again3}
MCForeign == [seed |-> m2, keys |-> {<<m2, 0>>}, next |-> 1]
MCAmounts == {1, 2}

Symmetry == Permutations({s1, s2, s3})
=============================================================================
