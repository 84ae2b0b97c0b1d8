------------------------ MODULE MCNonFungibleForge ------------------------
(* Instances of NonFungibleForge for TLC.                                  *)
EXTENDS NonFungibleForge
SlotSymmetry == Permutations(Slots) \cup Permutations(GenesisUuids)
                    \cup Permutations(Uuids \ GenesisUuids)

(* The clock goes into a token when it is made and is read nowhere else:   *)
(* a tick before the first token is made, or after the last, tells no      *)
(* behaviours apart, and the run leaves it out.                            *)
Made == released # GenesisTokens \/ \E s \in Slots : run[s].new # NoToken
ToBeMade ==
    \/ requests < MaxRequests
    \/ \E s \in Slots : run[s].pc \in {"received", "queued"} \cup CriticalPCs
TellingTicks == now' # now => Made /\ ToBeMade
=============================================================================
