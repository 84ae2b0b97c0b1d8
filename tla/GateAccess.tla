----------------------------- MODULE GateAccess -----------------------------
(***************************************************************************)
(* Admission by token: GateBase with a usage-backed validation strategy    *)
(* (singleUse, multiUse, allOf) and SimpleAccessPolicy.                    *)
(*                                                                         *)
(* Calls of grantAccess and verifyToken interleave at their awaits, and    *)
(* each action below is the code between two awaits.  The gate saves its   *)
(* redemptions and its blocked tokens, in the order of the calls; how      *)
(* often a token was used is kept by the strategy, in memory only, and so  *)
(* are the policy's own lists.  Hash, signature, expiry, time windows and  *)
(* rules are abstracted to checks that may refuse a token.                 *)
(***************************************************************************)
EXTENDS Integers, Sequences, FiniteSets, SequencesExt

CONSTANTS
    Tokens,         \* token hashes
    Slots,          \* calls that may be in progress at one time
    MaxUses,        \* the strategy's limit, 1 for singleUse
    Workloads,      \* how often each call and fault happens, see Kinds
    NoToken

Kinds == {"grant", "verify", "block", "unblock", "policy", "reset", "spend", "fault", "crash"}
ASSUME GateAccessAssumption ==
    /\ MaxUses \in Nat \ {0} /\ IsFiniteSet(Slots)
    /\ NoToken \notin Tokens /\ "operator" \notin Slots
    /\ Workloads \subseteq [Kinds -> Nat]

VARIABLES
    mem,        \* GateState in memory
    disk,       \* the snapshot of it that storage holds
    writes,     \* storage.setItem calls that have not settled
    up,         \* FALSE after a crash, until the gate is created again
    run,        \* control state of each call
    uses,       \* UsageBackedStrategy.usage
    denied,     \* tokens the policy refuses
    spent,      \* tokens the forge knows as spent
    left,       \* calls and faults still to come
    sealed,     \* history: tokens blocked, blockToken having returned
    admitted,   \* history: tokens whose holder was let in
    entries,    \* history: how often a token was consumed since start or reset
    crowded     \* history: tokens two calls were about to consume at one time

vars == <<mem, disk, writes, up, run, uses, denied, spent, left,
          sealed, admitted, entries, crowded>>
history == <<sealed, admitted, entries, crowded>>

GateState == [redeemed: SUBSET Tokens, blocked: SUBSET Tokens]
Write == [by: Slots \cup {"operator"}, snap: GateState, seal: Tokens \cup {NoToken}]
PCs == {"idle", "restoring", "policy", "strategy", "forge", "refusing", "recording",
        "consuming", "redeeming"}
(* ok is what validateToken returns after the attempt is saved.  History:  *)
(* barred and stale, what the gate and the forge knew when the call began  *)
(* and the call has not lost since, and refused, that the forge said no.   *)
Run == [pc: PCs,
        tok: Tokens \cup {NoToken}, grant: BOOLEAN, ok: BOOLEAN,
        barred: BOOLEAN, stale: BOOLEAN, refused: BOOLEAN]
Idle == [pc |-> "idle", tok |-> NoToken, grant |-> FALSE, ok |-> FALSE,
         barred |-> FALSE, stale |-> FALSE, refused |-> FALSE]

TypeOK ==
    /\ mem \in GateState /\ disk \in GateState
    /\ writes \in Seq(Write) /\ up \in BOOLEAN
    /\ run \in [Slots -> Run]
    /\ uses \in [Tokens -> Nat] /\ denied \subseteq Tokens /\ spent \subseteq Tokens
    /\ left \in [Kinds -> Nat]
    /\ sealed \subseteq Tokens /\ admitted \subseteq Tokens
    /\ entries \in [Tokens -> Nat] /\ crowded \subseteq Tokens

Unused == [t \in Tokens |-> 0]
Init ==
    /\ mem = [redeemed |-> {}, blocked |-> {}] /\ disk = mem /\ writes = <<>> /\ up = TRUE
    /\ run = [s \in Slots |-> Idle]
    /\ uses = Unused /\ denied = {} /\ spent = {} /\ left \in Workloads
    /\ sealed = {} /\ admitted = {} /\ entries = Unused /\ crowded = {}
-----------------------------------------------------------------------------
Take(what) == left[what] > 0 /\ left' = [left EXCEPT ![what] = @ - 1]
At(s, pc) == up /\ run[s].pc = pc
Goto(s, pc) == run' = [run EXCEPT ![s].pc = pc]
(* Mutant: the state is serialised before the call changes it.             *)
SaveState_Early(by, seal) == writes' = Append(writes, [by |-> by, snap |-> mem, seal |-> seal])
SaveState(by, seal) == writes' = Append(writes, [by |-> by, snap |-> mem', seal |-> seal])

(* grantAccess, or verifyToken alone, up to the restoring of the token.    *)
Present(s, t, grant) ==
    /\ At(s, "idle") /\ Take(IF grant THEN "grant" ELSE "verify")
    /\ run' = [run EXCEPT ![s] = [Idle EXCEPT !.pc = "restoring", !.tok = t, !.grant = grant,
                                              !.barred = t \in sealed, !.stale = t \in spent]]
    /\ UNCHANGED <<mem, disk, writes, up, uses, denied, spent, history>>

(* recordAttempt: the attempt is logged and the state saved.               *)
RecordAttempt(s, ok) ==
    /\ run' = [run EXCEPT ![s].pc = "recording", ![s].ok = ok]
    /\ mem' = mem /\ SaveState(s, NoToken)

(* A check that passes goes on at pc; any check may refuse the token for a *)
(* reason that is not modelled.                                            *)
Check(s, passes, pc) ==
    \/ passes /\ Goto(s, pc) /\ UNCHANGED <<mem, writes>>
    \/ RecordAttempt(s, FALSE)

PerformBasicValidation(s) ==
    /\ At(s, "restoring") /\ Check(s, run[s].tok \notin mem.blocked, "policy")
    /\ UNCHANGED <<disk, up, uses, denied, spent, left, history>>

EvaluatePolicy(s) ==
    /\ At(s, "policy") /\ Check(s, run[s].tok \notin denied, "strategy")
    /\ UNCHANGED <<disk, up, uses, denied, spent, left, history>>

(* The call has compared the uses and may yet consume the token.           *)
Checked(s) == run[s].pc \in {"forge", "refusing", "recording", "consuming"}

(* UsageBackedStrategy.validate.                                           *)
ValidateUse(s) ==
    /\ At(s, "strategy") /\ Check(s, uses[run[s].tok] < MaxUses, "forge")
    /\ crowded' = IF \E o \in Slots \ {s} : run[o].tok = run[s].tok /\ Checked(o)
                  THEN crowded \cup {run[s].tok} ELSE crowded
    /\ UNCHANGED <<disk, up, uses, denied, spent, left, sealed, admitted, entries>>

(* Mutant: only redeemed tokens are taken for spent.                       *)
ForgeRefuses_Redeemed(t) == t \in spent \cap mem.redeemed
ForgeRefuses(t) == t \in spent
(* validateTokenWithForge refuses the token, accepts it, or throws and the *)
(* gate goes on without it.                                                *)
Answered(r, reached) ==
    IF reached /\ ForgeRefuses(r.tok)
    THEN [r EXCEPT !.pc = "refusing", !.refused = TRUE]
    ELSE [r EXCEPT !.pc = "recording", !.ok = TRUE, !.stale = r.stale /\ reached]
ForgeAnswer(s) ==
    /\ At(s, "forge")
    /\ \E reached \in BOOLEAN : run' = [run EXCEPT ![s] = Answered(run[s], reached)]
    /\ mem' = mem /\ SaveState(s, NoToken)
    /\ UNCHANGED <<disk, up, uses, denied, spent, left, history>>

(* Mutant: a use is counted when the redemption is new.                    *)
Consume_Redeemed(s) ==
    /\ At(s, "consuming")
    /\ LET t == run[s].tok IN
       /\ uses' = IF t \in mem.redeemed THEN uses ELSE [uses EXCEPT ![t] = @ + 1]
       /\ entries' = [entries EXCEPT ![t] = @ + 1]
       /\ mem' = [mem EXCEPT !.redeemed = @ \cup {t}]
    /\ SaveState(s, NoToken) /\ Goto(s, "redeeming")
    /\ UNCHANGED <<disk, up, denied, spent, left, sealed, admitted, crowded>>
(* The rest of grantAccess: the strategy's consume and the redemption.     *)
Consume(s) ==
    /\ At(s, "consuming")
    /\ LET t == run[s].tok IN
       /\ uses' = [uses EXCEPT ![t] = @ + 1]
       /\ entries' = [entries EXCEPT ![t] = @ + 1]
       /\ mem' = [mem EXCEPT !.redeemed = @ \cup {t}]
    /\ SaveState(s, NoToken) /\ Goto(s, "redeeming")
    /\ UNCHANGED <<disk, up, denied, spent, left, sealed, admitted, crowded>>
-----------------------------------------------------------------------------
(* The operator's calls.  blockToken has returned when its save landed.    *)
BlockToken(t) ==
    /\ up /\ Take("block")
    /\ mem' = [mem EXCEPT !.blocked = @ \cup {t}] /\ SaveState("operator", t)
    /\ UNCHANGED <<disk, up, run, uses, denied, spent, history>>
UnblockToken(t) ==
    /\ up /\ Take("unblock")
    /\ mem' = [mem EXCEPT !.blocked = @ \ {t}] /\ SaveState("operator", NoToken)
    /\ sealed' = sealed \ {t}
    /\ run' = [s \in Slots |-> [run[s] EXCEPT !.barred = @ /\ run[s].tok # t]]
    /\ UNCHANGED <<disk, up, uses, denied, spent, admitted, entries, crowded>>
ChangePolicy ==
    /\ up /\ Take("policy") /\ denied' \in SUBSET Tokens
    /\ UNCHANGED <<mem, disk, writes, up, run, uses, spent, history>>
ResetUsage(t) ==
    /\ up /\ Take("reset")
    /\ uses' = [uses EXCEPT ![t] = 0] /\ entries' = [entries EXCEPT ![t] = 0]
    /\ crowded' = IF \E s \in Slots : run[s].tok = t /\ Checked(s)
                  THEN crowded \cup {t} ELSE crowded \ {t}
    /\ UNCHANGED <<mem, disk, writes, up, run, denied, spent, sealed, admitted>>

SpendAtForge(t) ==
    /\ Take("spend") /\ spent' = spent \cup {t}
    /\ UNCHANGED <<mem, disk, writes, up, run, uses, denied, history>>
-----------------------------------------------------------------------------
(* No call of unblockToken came after the one that blocked the token.      *)
Lasting(t) ==
    t \in mem.blocked /\ \A i \in 2..Len(writes) : t \in writes[i].snap.blocked
(* The oldest write lands and the call that waits for it goes on.          *)
WriteLands ==
    /\ writes # <<>> /\ disk' = Head(writes).snap /\ writes' = Tail(writes)
    /\ LET w == Head(writes)
           s == w.by
       IN IF s = "operator"
          THEN /\ sealed' = sealed \cup {t \in {w.seal} : Lasting(t)}
               /\ UNCHANGED <<run, admitted>>
          ELSE /\ run' = [run EXCEPT ![s] =
                            IF @.pc = "recording" /\ @.grant /\ @.ok
                            THEN [@ EXCEPT !.pc = "consuming"] ELSE Idle]
               /\ admitted' = IF run[s].pc = "redeeming" THEN admitted \cup {run[s].tok}
                              ELSE admitted
               /\ UNCHANGED sealed
    /\ UNCHANGED <<mem, up, uses, denied, spent, left, entries, crowded>>

(* A failed save refuses the holder, even after the token was consumed.    *)
(* The save of the forge's refusal is within the try block that takes what *)
(* is thrown for a forge out of reach: when it fails, all checks have      *)
(* passed.                                                                 *)
WriteFails ==
    /\ writes # <<>> /\ Take("fault")
    /\ LET s == Head(writes).by IN
       CASE s = "operator" -> UNCHANGED run /\ writes' = Tail(writes)
         [] s # "operator" /\ run[s].pc = "refusing" ->
              /\ run' = [run EXCEPT ![s] = [@ EXCEPT !.pc = "recording", !.ok = TRUE,
                                                    !.stale = FALSE]]
              /\ writes' = Append(Tail(writes), [by |-> s, snap |-> mem, seal |-> NoToken])
         [] OTHER -> run' = [run EXCEPT ![s] = Idle] /\ writes' = Tail(writes)
    /\ UNCHANGED <<mem, disk, up, uses, denied, spent, history>>

(* The strategy and the policy start afresh.                               *)
Crash ==
    /\ up /\ Take("crash") /\ up' = FALSE
    /\ run' = [s \in Slots |-> Idle] /\ writes' = <<>>
    /\ uses' = Unused /\ entries' = Unused /\ crowded' = {} /\ denied' = {}
    /\ UNCHANGED <<mem, disk, spent, sealed, admitted>>

(* Mutant: only the redemptions are read back.                             *)
LoadState_Redeemed ==
    /\ ~up /\ up' = TRUE /\ mem' = [disk EXCEPT !.blocked = {}]
    /\ UNCHANGED <<disk, writes, run, uses, denied, spent, left, history>>
LoadState ==
    /\ ~up /\ up' = TRUE /\ mem' = disk
    /\ UNCHANGED <<disk, writes, run, uses, denied, spent, left, history>>

Step(s) ==
    \/ PerformBasicValidation(s) \/ EvaluatePolicy(s) \/ ValidateUse(s)
    \/ ForgeAnswer(s) \/ Consume(s)
Next ==
    \/ \E s \in Slots, t \in Tokens, grant \in BOOLEAN : Present(s, t, grant)
    \/ \E s \in Slots : Step(s)
    \/ \E t \in Tokens : BlockToken(t) \/ UnblockToken(t) \/ ResetUsage(t) \/ SpendAtForge(t)
    \/ ChangePolicy \/ WriteLands \/ WriteFails \/ Crash \/ LoadState
Spec == Init /\ [][Next]_vars
-----------------------------------------------------------------------------
(* The inductive invariant.                                                *)

(* Saves of calls belong to calls that await them, one each, and a call    *)
(* has a token; nothing goes on while the gate is down.                    *)
ControlOK ==
    /\ \A i \in DOMAIN writes : writes[i].by # "operator" =>
          /\ run[writes[i].by].pc \in {"refusing", "recording", "redeeming"}
          /\ \A j \in DOMAIN writes : writes[j].by = writes[i].by => j = i
    /\ \A s \in Slots : run[s].pc # "idle" => run[s].tok \in Tokens
    /\ ~up => writes = <<>> /\ \A s \in Slots : run[s] = Idle

(* The memory, storage and all pending saves are in a set of states.       *)
Everywhere(States) ==
    /\ up => mem \in States
    /\ disk \in States
    /\ \A i \in DOMAIN writes : writes[i].snap \in States
HasRedeemed(t) == {state \in GateState : t \in state.redeemed}
HasBlocked(t) == {state \in GateState : t \in state.blocked}

(* A token whose holder was let in is redeemed in every state the gate may *)
(* come to have, whatever fails or stops later, and one that was consumed  *)
(* in memory and from the save of its redemption on (grantAccess,          *)
(* isRedeemed).                                                            *)
RedeemedOK ==
    /\ \A t \in admitted : Everywhere(HasRedeemed(t))
    /\ \A s \in Slots : run[s].pc = "redeeming" =>
          /\ run[s].tok \in mem.redeemed
          /\ \A i, j \in DOMAIN writes :
                writes[i].by = s /\ i <= j => writes[j].snap \in HasRedeemed(run[s].tok)

(* A token whose blocking has returned is blocked in every state the gate  *)
(* may come to have, and a call that began after it gets past no check.    *)
Failed(r) == r.pc = "recording" /\ ~r.ok
BlockOK ==
    /\ \A i \in DOMAIN writes :
          writes[i].seal # NoToken => writes[i].snap \in HasBlocked(writes[i].seal)
    /\ \A t \in sealed : Everywhere(HasBlocked(t))
    /\ \A s \in Slots : run[s].barred =>
          /\ run[s].tok \in sealed
          /\ run[s].pc = "restoring" \/ Failed(run[s])

(* Calls that found the token in the forge's spent set have not passed.    *)
SpentOK ==
    \A s \in Slots : run[s].stale =>
        /\ run[s].tok \in spent
        /\ run[s].pc \in {"restoring", "policy", "strategy", "forge", "refusing"}
              \/ Failed(run[s])

(* The strategy counts what was consumed.  A call that has compared the    *)
(* uses and not yet consumed was alone, or the token is crowded.           *)
Poised(t) ==
    {s \in Slots : run[s].tok = t /\ Checked(s) /\ ~Failed(run[s])}
UsesOK ==
    /\ entries = uses
    /\ \A t \in Tokens :
          /\ uses[t] + Cardinality(Poised(t)) <= MaxUses + Cardinality(Slots) - 1
          /\ t \notin crowded =>
                /\ uses[t] <= MaxUses
                /\ \A s \in Poised(t) : uses[t] < MaxUses /\ Poised(t) = {s}

IInv == TypeOK /\ ControlOK /\ RedeemedOK /\ BlockOK /\ SpentOK /\ UsesOK
-----------------------------------------------------------------------------
(* Once blockToken has returned, a call that begins later does not consume *)
(* the token until it is unblocked, although calls that began earlier go   *)
(* on saving and the gate may be restarted (blockToken,                    *)
(* performBasicValidation).                                                *)
BlockHolds == \A s \in Slots : run[s].pc = "consuming" => ~run[s].barred

(* Between starts and resets a token is consumed at most as often as the   *)
(* strategy allows if no two calls were about to consume it at one time;   *)
(* if they were, then at most once more for each other call in progress    *)
(* (validate, consume).                                                    *)
UsesLimited ==
    \A t \in Tokens :
        entries[t] <= IF t \in crowded THEN MaxUses + Cardinality(Slots) - 1 ELSE MaxUses

(* A token that was spent at the forge before the call is not consumed by  *)
(* it, unless the forge could not be asked or its refusal could not be     *)
(* saved (validateToken).                                                  *)
SpentRefused == \A s \in Slots : run[s].pc = "consuming" => ~run[s].stale

(* A call to which the forge said that the token is invalid does not       *)
(* consume it: "All checks passed" is only reached when they did           *)
(* (validateToken).                                                        *)
RefusalSticks == \A s \in Slots : run[s].pc = "consuming" => ~run[s].refused
=============================================================================
