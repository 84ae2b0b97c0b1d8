---------------------------- MODULE TokenLedger ----------------------------
(***************************************************************************)
(* What a forge of fungible tokens promises, with no process, no storage   *)
(* and no message: coins are minted, paid out of the value of coins that   *)
(* are voided for them, or burned, and each coin is voided once.           *)
(***************************************************************************)
EXTENDS Integers, FiniteSetsExt

CONSTANT Genesis    \* coins in circulation at the start

VARIABLES coins,    \* coins ever handed out
          void,     \* coins that have been exchanged or burned
          credit,   \* value taken in and not yet paid out
          supply    \* value minted and not burned

ledgerVars == <<coins, void, credit, supply>>

Worth(S) == MapThenSumSet(LAMBDA t : t.amount, S)

Init == coins = Genesis /\ void = {} /\ credit = 0 /\ supply = Worth(Genesis)

Mint(t) ==
    /\ coins' = coins \cup {t}
    /\ supply' = supply + t.amount
    /\ UNCHANGED <<void, credit>>

(* Coins are taken in for an exchange.                                     *)
TakeIn(ins) ==
    /\ ins \subseteq coins \ void
    /\ void' = void \cup ins
    /\ credit' = credit + Worth(ins)
    /\ UNCHANGED <<coins, supply>>

(* A coin is paid out of the value taken in.                               *)
PayOut(t) ==
    /\ t.amount <= credit
    /\ coins' = coins \cup {t}
    /\ credit' = credit - t.amount
    /\ UNCHANGED <<void, supply>>

(* A crash, or a payee that cannot be reached, forfeits value taken in.    *)
Forfeit ==
    /\ credit' \in 0..(credit - 1)
    /\ UNCHANGED <<coins, void, supply>>

Burn(t) ==
    /\ t \in coins \ void
    /\ void' = void \cup {t}
    /\ supply' = supply - t.amount
    /\ UNCHANGED <<coins, credit>>

(* The coin of Mint and PayOut is one of the coins after the step.         *)
Next ==
    \/ \E t \in coins' : Mint(t) \/ PayOut(t)
    \/ \E t \in coins : Burn(t)
    \/ \E ins \in SUBSET coins : TakeIn(ins)
    \/ Forfeit

Spec == Init /\ [][Next]_ledgerVars
=============================================================================
