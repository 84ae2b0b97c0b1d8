---------------------------- MODULE MCGateServer ----------------------------
(* Instances of GateServer for TLC.                                        *)
EXTENDS GateServer

Plain == [issuer |-> "forge", notExpired |-> TRUE, pattern |-> "safe", minTier |-> 2,
          operator |-> "gt", value |-> 1]
\* Two that get a challenge, and one that is refused for its pattern.
Loose == [Plain EXCEPT !.pattern = "none", !.minTier = 0, !.operator = "contains"]
MCRequirements == {Plain, Loose, [Plain EXCEPT !.pattern = "unsafe"]}

Pass == [locked |-> TRUE, sound |-> TRUE, issuer |-> "forge", expired |-> FALSE,
         id |-> "matches", tier |-> 2, field |-> [array |-> FALSE, items |-> {3}]]
Full(token) == [mode |-> "full", signed |-> TRUE, token |-> token]
Member == [issuer |-> "forge", notExpired |-> TRUE, pattern |-> TRUE, tier |-> 3]
Minimal(claim) == [mode |-> "minimal", signed |-> TRUE, claim |-> claim]
\* A token that meets all that Plain asks, one whose tier is too low, and a claim.
MCProofs == {Full(Pass), Full([Pass EXCEPT !.tier = 1]), Minimal(Member)}
=============================================================================
