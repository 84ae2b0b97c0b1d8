-------------------------------- MODULE HTLC ---------------------------------
(***************************************************************************)
(* Tokens under a hash time lock: HTLCHandler and TokenValidator of the    *)
(* token package, and what a forge asks of such a token when it is an      *)
(* input of a transfer (validateTXInputs).                                 *)
(*                                                                         *)
(* The forge makes no such token by itself: an application builds it with  *)
(* createHTLC, or by hand with a hash that it was given, or with           *)
(* Token.lock, and the forge signs it.  Both forges validate the inputs of *)
(* a transfer without a secret: the preimage opens a token for redeemHTLC, *)
(* which an application may call, and for no forge.  A transfer or a burn  *)
(* is validated and marked under the spend lock, so it is one step here;   *)
(* that lock, storage and crashes are the subject of FungibleForge.  The   *)
(* clock counts the milliseconds of Date.now, in which a contract's        *)
(* timelock is given too; timeLock and exp of a token are in seconds.      *)
(***************************************************************************)
EXTENDS Integers, FiniteSets

CONSTANTS
    Tokens,         \* tokens of all forges, each issued at most once
    Parties,        \* holders of keys
    Secrets,        \* preimages; a hash is named by the preimage it has
    Durations,      \* durations and timelocks that contracts are made with
    LockTimes,      \* values of timeLock and exp, in seconds, 0 when absent
    Past,           \* 30 days: a contract is void when it lapsed earlier
    Future,         \* 365 days: a contract is not yet good when it lapses later
    PerSecond,      \* clock units in a second
    MaxTime,        \* bound on the clock
    NoOne, NoSecret, Malformed, NotIssued, Unspent

ASSUME ClockAssumption ==
    /\ Past \in Nat /\ Future \in Nat /\ PerSecond \in Nat \ {0} /\ MaxTime \in Nat
    /\ Durations \subseteq Int /\ LockTimes \subseteq Nat
ASSUME NamesAssumption ==
    NoOne \notin Parties /\ NoSecret \notin Secrets /\ Malformed \notin Secrets

VARIABLES
    now,        \* Date.now()
    token,      \* the payload of each token, once it is issued
    spent       \* how each token was spent, once it is in the forge's spent set

htlcVars == <<now, token, spent>>

(* A payload's HTLC: absent, the object of hash and timelock that the      *)
(* forge reads, or the bare hash, which JSON.parse does not take.          *)
Contract == [form: {"none", "object", "hash"}, hashlock: Secrets \cup {Malformed},
             timelock: Int]
Payload == [htlc: Contract, lock: Parties \cup {NoOne}, timeLock: Nat, exp: Nat]
ASSUME SecretAssumption == NotIssued \notin Payload
Spending == [op: {"transfer", "burn"}, by: Parties, at: Nat]
ASSUME UnspentAssumption == Unspent \notin Spending

HTLCTypeOK ==
    /\ now \in Nat
    /\ token \in [Tokens -> Payload \cup {NotIssued}]
    /\ spent \in [Tokens -> Spending \cup {Unspent}]

HTLCInit ==
    /\ now = 0
    /\ token = [t \in Tokens |-> NotIssued]
    /\ spent = [t \in Tokens |-> Unspent]

Issued(t) == token[t] # NotIssued
-----------------------------------------------------------------------------
(* validateHTLC, from the fields of the contract to its two windows.       *)
WellFormed(c) == c.form = "object" /\ c.hashlock \in Secrets /\ c.timelock > 0
InWindow(c, time) == time - Past <= c.timelock /\ c.timelock <= time + Future

(* Mutant: at the timelock itself it is both.                              *)
ValidateHTLC_Late(c, time) ==
    LET valid == WellFormed(c) /\ InWindow(c, time)
    IN [isValid |-> valid, canRedeem |-> valid /\ c.timelock >= time,
        canRefund |-> valid /\ c.timelock <= time]
ValidateHTLC(c, time) ==
    LET valid == WellFormed(c) /\ InWindow(c, time)
    IN [isValid |-> valid, canRedeem |-> valid /\ c.timelock > time,
        canRefund |-> valid /\ c.timelock <= time]

RedeemHTLC(c, secret, time) ==
    /\ ValidateHTLC(c, time).isValid /\ ValidateHTLC(c, time).canRedeem
    /\ secret # NoSecret /\ secret = c.hashlock

CanRefund(c, time) == ValidateHTLC(c, time).isValid /\ ValidateHTLC(c, time).canRefund

(* validateTokenHTLC: a contract in its window is valid without a secret,  *)
(* whether or not it may be refunded yet.                                  *)
ValidateTokenHTLC(c, secret, time) ==
    [valid |-> ValidateHTLC(c, time).isValid
                 /\ (secret # NoSecret => RedeemHTLC(c, secret, time)),
     canRedeem |-> ValidateHTLC(c, time).canRedeem,
     canRefund |-> ValidateHTLC(c, time).canRefund]

Seconds == now \div PerSecond
(* Mutant: a token is still good in the second of its exp.                 *)
IsExpired_Late(payload) == payload.exp # 0 /\ Seconds > payload.exp
IsExpired(payload) == payload.exp # 0 /\ Seconds >= payload.exp

(* What validateTXInputs asks of an input under a contract, called as both *)
(* transferToken do: providedHTLCSecret is undefined.  Mutant: that the    *)
(* contract may be refunded is not asked.                                  *)
ContractAccepts_Valid(c) ==
    c.form # "none" => c.form = "object" /\ ValidateTokenHTLC(c, NoSecret, now).valid
ContractAccepts(c) ==
    c.form # "none" =>
        /\ c.form = "object"
        /\ LET validation == ValidateTokenHTLC(c, NoSecret, now)
           IN validation.valid /\ validation.canRefund

(* The loop body of validateTXInputs: the witness is one that p can sign.  *)
InputAccepted(t, p) ==
    /\ spent[t] = Unspent
    /\ ~IsExpired(token[t])
    /\ token[t].lock \in {NoOne, p}
    /\ token[t].timeLock = 0 \/ Seconds >= token[t].timeLock
    /\ ContractAccepts(token[t].htlc)
-----------------------------------------------------------------------------
(* Token.createPayload for the fields an application gives.                *)
CreatePayload(c, lock, timeLock, exp) ==
    [htlc |-> c, lock |-> lock, timeLock |-> timeLock, exp |-> exp]
Issue(t, payload) ==
    /\ ~Issued(t) /\ token' = [token EXCEPT ![t] = payload]
    /\ UNCHANGED <<now, spent>>

(* createHTLC by the owner of the secret, for one recipient or for anyone. *)
CreateHTLC(t, s, duration, lock) ==
    /\ duration > 0
    /\ LET c == [form |-> "object", hashlock |-> s, timelock |-> now + duration]
       IN Issue(t, CreatePayload(c, lock, 0, 0))

(* The other side of a swap has the hash only: it builds its contract by   *)
(* hand, with any timelock and perhaps with a time lock or an expiry.      *)
CounterHTLC(t, h, timelock, lock, timeLock, exp) ==
    LET c == [form |-> "object", hashlock |-> h, timelock |-> timelock]
    IN Issue(t, CreatePayload(c, lock, timeLock, exp))

(* Token.lock("HTLC", hash), Token.lock("TIME", timeLock), or neither.     *)
Lock(t, form, h, lock, timeLock, exp) ==
    Issue(t, CreatePayload([form |-> form, hashlock |-> h, timelock |-> 0],
                           lock, timeLock, exp))

(* publishSpentToken for each token of a request.                          *)
Spend(op, p, ins) ==
    /\ spent' = [t \in Tokens |-> IF t \in ins THEN [op |-> op, by |-> p, at |-> now]
                                  ELSE spent[t]]
    /\ UNCHANGED <<now, token>>
TransferInputs(p, ins) ==
    /\ ins # {} /\ \A t \in ins : Issued(t) /\ InputAccepted(t, p)
    /\ Spend("transfer", p, ins)

(* handleBurn asks for a token that the forge signed and that is not spent *)
(* yet, and looks at none of its locks.                                    *)
HandleBurn(p, t) == Issued(t) /\ spent[t] = Unspent /\ Spend("burn", p, {t})

Tick == now < MaxTime /\ now' = now + 1 /\ UNCHANGED <<token, spent>>

HTLCNext ==
    \/ \E t \in Tokens, lock \in Parties \cup {NoOne} :
          \/ \E s \in Secrets, d \in Durations : CreateHTLC(t, s, d, lock)
          \/ \E timeLock \in LockTimes, exp \in LockTimes :
                \/ \E h \in Secrets \cup {Malformed}, d \in Durations :
                      CounterHTLC(t, h, d, lock, timeLock, exp)
                \/ \E form \in {"none", "hash"}, s \in Secrets :
                      Lock(t, form, s, lock, timeLock, exp)
    \/ \E p \in Parties, ins \in SUBSET Tokens : TransferInputs(p, ins)
    \/ \E p \in Parties, t \in Tokens : HandleBurn(p, t)
    \/ Tick
HTLCSpec == HTLCInit /\ [][HTLCNext]_htlcVars
-----------------------------------------------------------------------------
(* The times at which a token may be transferred, in milliseconds: from    *)
(* the seconds of its timeLock and the timelock of its contract on, until  *)
(* the second of its exp and 30 days after that timelock; never under a    *)
(* bare hash.                                                              *)
InItsTime(payload, time) ==
    /\ payload.timeLock * PerSecond <= time
    /\ payload.exp # 0 => time < payload.exp * PerSecond
    /\ payload.htlc.form # "hash"
    /\ payload.htlc.form = "object" =>
          /\ WellFormed(payload.htlc)
          /\ payload.htlc.timelock <= time /\ time <= payload.htlc.timelock + Past

(* The inductive invariant: what a transfer has spent was in its time then *)
(* and was spent by the key it is locked to, so that no preimage has moved *)
(* a token before its timelock, whoever knew it (validateTXInputs,         *)
(* validateTokenHTLC).                                                     *)
RightlySpent(t) ==
    /\ Issued(t) /\ spent[t].at <= now
    /\ spent[t].op = "transfer" =>
          token[t].lock \in {NoOne, spent[t].by} /\ InItsTime(token[t], spent[t].at)
SpentRightly == \A t \in Tokens : spent[t] # Unspent => RightlySpent(t)
HTLCInv == HTLCTypeOK /\ SpentRightly

(* An unspent token can be transferred by the holder of its key exactly in *)
(* its time, although its locks count milliseconds and whole seconds and   *)
(* the contract is tested against two windows (isExpired,                  *)
(* validateTXInputs, validateHTLC).                                        *)
Unlocked(t, p) == Issued(t) /\ spent[t] = Unspent /\ token[t].lock \in {NoOne, p}
TransferableInTime ==
    \A t \in Tokens, p \in Parties :
        Unlocked(t, p) => (InputAccepted(t, p) <=> InItsTime(token[t], now))

(* The library and the forge take turns: what redeemHTLC opens with the    *)
(* preimage no transfer spends, and apart from a time lock or an expiry a  *)
(* transfer spends a token under a contract when canRefund says so         *)
(* (redeemHTLC, canRefund, validateTXInputs).                              *)
RefundOnly ==
    \A t \in Tokens, p \in Parties :
        Unlocked(t, p) /\ token[t].htlc.form = "object" =>
            /\ \A s \in Secrets : RedeemHTLC(token[t].htlc, s, now) => ~InputAccepted(t, p)
            /\ token[t].timeLock = 0 /\ token[t].exp = 0 =>
                  (InputAccepted(t, p) <=> CanRefund(token[t].htlc, now))
=============================================================================
