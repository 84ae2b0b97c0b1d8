--------------------------- MODULE FungibleForge ---------------------------
(***************************************************************************)
(* The issuer of fungible tokens: FungibleForge on top of ForgeBase, with  *)
(* the parts of NWPCBase and NWPCServer that drive it (delivery of relay   *)
(* events, duplicate detection, the save queue).                           *)
(*                                                                         *)
(* The forge is one JavaScript process.  A request is handled by a run of  *)
(* a handler; runs interleave at their awaits, and each action below is    *)
(* the code between two awaits.  ForgeState lives in memory (mem) and in   *)
(* storage (disk); a save takes a snapshot of mem and lands later.         *)
(***************************************************************************)
EXTENDS Integers, Sequences, FiniteSets, SequencesExt

CONSTANTS
    Users,              \* public keys that send requests or receive tokens
    Malformed,          \* strings that are not keys: Wrap throws for them
    Owner,              \* config.owner
    ConfigForgers,      \* config.authorizedForgers
    AdminKeys,          \* keys the operator may authorise or revoke at run time
    TotalSupply,        \* config.totalSupply, 0 when the supply is unlimited
    Amounts,            \* amounts that requests name
    TimeLocks,          \* time locks that transfers name, 0 when there is none
    Senders,            \* keys that sign the requests
    Witnesses,          \* whether requests carry accepted witnesses: a set of Booleans
    Ops,                \* kinds of request the clients make
    Events,             \* ids of relay events, each one request
    Slots,              \* handler runs that may be in progress at one time
    InitialTokens,      \* tokens in circulation when the forge starts
    OrderedWrites,      \* TRUE when storage applies writes in the order of the calls
    MaxIns, MaxOuts,    \* bounds on the tokens of a transfer
    MaxTime,            \* bound on the clock
    MaxFaults,          \* bound on crashes and failed writes together
    MaxQueuedSaves,     \* bound on saves waiting in the save queue
    NoReq, NoEvent

ASSUME KeysAssumption ==
    /\ Malformed \subseteq Users
    /\ Owner \in Users
    /\ ConfigForgers \subseteq Users /\ AdminKeys \subseteq Users
    /\ Senders \subseteq Users
ASSUME BoundsAssumption ==
    /\ TotalSupply \in Nat /\ MaxTime \in Nat /\ MaxFaults \in Nat
    /\ MaxQueuedSaves \in Nat /\ MaxIns \in Nat /\ MaxOuts \in Nat
    /\ Amounts \subseteq Int /\ TimeLocks \subseteq Nat
    /\ OrderedWrites \in BOOLEAN /\ Witnesses \subseteq BOOLEAN
ASSUME SentinelAssumption ==
    /\ NoEvent \notin Events
    /\ Slots \cap (Users \cup {"queue", "orphan"}) = {}
    /\ Users \cap {"queue", "orphan"} = {}

(* A token is its payload: the hash that identifies it is computed from    *)
(* the payload alone, so two tokens with equal payloads are one token.     *)
Token == [amount: Nat, lock: Users, iat: Nat, timeLock: Nat]

Recipient == [to: Users, amount: Amounts, timeLock: TimeLocks]

AmountSum(s) == FoldLeft(LAMBDA sum, x : sum + x.amount, 0, s)
Value(S) == MapThenSumSet(LAMBDA t : t.amount, S)

ASSUME InitialTokensAssumption ==
    InitialTokens \subseteq Token /\ IsFiniteSet(InitialTokens)

(* One shape for the four methods: a mint has one output and no input, a   *)
(* burn and a verify have one input.  wit says whether the request carries *)
(* a witness the forge accepts for every input.                            *)
Request(tokens) ==
    [op: {"mint", "transfer", "burn", "verify"}, from: Users,
     ins: Seq(tokens), outs: Seq(Recipient), wit: BOOLEAN]

ASSUME RequestAssumption ==
    /\ Ops \subseteq {"mint", "transfer", "burn", "verify"}
    /\ NoReq \notin Request(Token)

SeqUpTo(S, n) == UNION {[1..k -> S] : k \in 0..n}

(* The requests clients can make once tokens have been released.           *)
ClientRequest(tokens) ==
    {r \in [op: Ops, from: Senders, ins: SeqUpTo(tokens, MaxIns),
            outs: SeqUpTo(Recipient, MaxOuts), wit: Witnesses] :
        CASE r.op = "mint"     -> r.ins = <<>> /\ Len(r.outs) = 1
                                  /\ r.outs[1].timeLock = 0
          [] r.op = "transfer" -> TRUE
          [] OTHER             -> Len(r.ins) = 1 /\ r.outs = <<>>}

VARIABLES
    mem,        \* ForgeState in memory
    disk,       \* the snapshot of ForgeState that storage holds
    writes,     \* storage.setItem calls that have not settled
    savesQueued,\* saves chained on NWPCBase.saveLock and not yet started
    phase,      \* "up", "down" after a crash, "loaded" before it subscribes
    queue,      \* runs chained on ForgeBase.spendLock, the holder first
    run,        \* control state of each handler run
    req,        \* the request each event carries
    now,        \* the clock, in seconds
    faults,     \* crashes and failed writes so far
    released,   \* history: tokens handed to a recipient
    settled,    \* history: inputs of transfers that released outputs, burned tokens
    minted,     \* history: value ever minted
    burnt,      \* history: value whose burn was confirmed
    revoked     \* history: keys whose revocation the operator saw complete

vars == <<mem, disk, writes, savesQueued, phase, queue, run, req, now, faults,
          released, settled, minted, burnt, revoked>>
history == <<released, settled, minted, burnt, revoked>>

ForgeState == [spent: SUBSET Token, circulating: Int,
               forgers: SUBSET Users, processed: SUBSET Events]
Write == [by: Slots \cup Users \cup {"queue", "orphan"}, snap: ForgeState]

(* Where a run is: received, then the steps of its method, then replied    *)
(* when the handler has returned or thrown and its event is to be marked.  *)
WaitPCs == {"queued"}
CriticalPCs == {"validated", "signed", "saving", "releasing"}
PCs == {"idle", "received", "building", "minting", "replied"}
           \cup WaitPCs \cup CriticalPCs
Run == [pc: PCs, ev: Events \cup {NoEvent}, todo: Seq(Token)]
IdleRun == [pc |-> "idle", ev |-> NoEvent, todo |-> <<>>]

EmptyState == [spent |-> {}, circulating |-> 0, forgers |-> ConfigForgers,
               processed |-> {}]

TypeOK ==
    /\ mem \in ForgeState /\ disk \in ForgeState
    /\ writes \in Seq(Write) /\ savesQueued \in Nat
    /\ phase \in {"up", "down", "loaded"}
    /\ queue \in Seq(Slots)
    /\ run \in [Slots -> Run]
    /\ req \in [Events -> Request(Token) \cup {NoReq}]
    /\ now \in Nat /\ faults \in Nat
    /\ released \subseteq Token /\ settled \subseteq Token
    /\ minted \in Int /\ burnt \in Int
    /\ revoked \subseteq Users

Init ==
    /\ mem = [EmptyState EXCEPT !.circulating = Value(InitialTokens)]
    /\ disk = mem
    /\ writes = <<>> /\ savesQueued = 0
    /\ phase = "up" /\ queue = <<>>
    /\ run = [s \in Slots |-> IdleRun]
    /\ req = [e \in Events |-> NoReq]
    /\ now = 0 /\ faults = 0
    /\ released = InitialTokens /\ settled = {}
    /\ minted = Value(InitialTokens) /\ burnt = 0
    /\ revoked = {}
-----------------------------------------------------------------------------
ReqOf(s) == req[run[s].ev]
At(s, pc) == phase = "up" /\ run[s].pc = pc
GotoWith(s, pc, todo) ==
    run' = [run EXCEPT ![s] = [pc |-> pc, ev |-> run[s].ev, todo |-> todo]]
Goto(s, pc) == GotoWith(s, pc, run[s].todo)

(* _saveState: snapshot now, the write lands later.                        *)
Save(by, state) == writes' = Append(writes, [by |-> by, snap |-> state])

NewToken(o) == [amount |-> o.amount, lock |-> o.to, iat |-> now, timeLock |-> o.timeLock]

(* A client publishes an event with a request signed for it.               *)
ClientSend(e) ==
    /\ req[e] = NoReq
    /\ \E r \in ClientRequest(released) : req' = [req EXCEPT ![e] = r]
    /\ UNCHANGED <<mem, disk, writes, savesQueued, phase, queue, run, now, faults, history>>

Tick ==
    /\ now < MaxTime
    /\ now' = now + 1
    /\ UNCHANGED <<mem, disk, writes, savesQueued, phase, queue, run, req, faults, history>>
-----------------------------------------------------------------------------
(* A relay hands over an event, for the first time or again.  The check    *)
(* for duplicates is made here and the mark only after the handler.        *)
Deliver(s, e) ==
    /\ At(s, "idle") /\ req[e] # NoReq
    /\ e \notin mem.processed
    /\ run' = [run EXCEPT ![s] = [pc |-> "received", ev |-> e, todo |-> <<>>]]
    /\ UNCHANGED <<mem, disk, writes, savesQueued, phase, queue, req, now, faults, history>>

(* Mutant: the event is never marked.                                      *)
FinishEvent_Unmarked(s) ==
    /\ At(s, "replied")
    /\ savesQueued' = savesQueued + 1
    /\ run' = [run EXCEPT ![s] = IdleRun]
    /\ UNCHANGED <<mem, disk, writes, phase, queue, req, now, faults, history>>

(* The handler has returned: markEventProcessed and queueSaveState.        *)
FinishEvent(s) ==
    /\ At(s, "replied")
    /\ mem' = [mem EXCEPT !.processed = @ \cup {run[s].ev}]
    /\ savesQueued' = savesQueued + 1
    /\ run' = [run EXCEPT ![s] = IdleRun]
    /\ UNCHANGED <<disk, writes, phase, queue, req, now, faults, history>>

(* EOSE queues a save as well.                                             *)
EndOfStoredEvents ==
    /\ phase = "up" /\ savesQueued < MaxQueuedSaves
    /\ savesQueued' = savesQueued + 1
    /\ UNCHANGED <<mem, disk, writes, phase, queue, run, req, now, faults, history>>

(* The save queue starts one save at a time, each with a fresh snapshot.   *)
StartQueuedSave ==
    /\ phase = "up" /\ savesQueued > 0
    /\ \A i \in DOMAIN writes : writes[i].by # "queue"
    /\ Save("queue", mem)
    /\ savesQueued' = savesQueued - 1
    /\ UNCHANGED <<mem, disk, phase, queue, run, req, now, faults, history>>
-----------------------------------------------------------------------------
(* forge: onlyAuthorized, then forgeToken up to its first await.           *)
Authorized(u) == u = Owner \/ u \in mem.forgers
WithinSupply(amount) == TotalSupply > 0 => mem.circulating + amount <= TotalSupply
MintAccepted(r) == Authorized(r.from) /\ r.outs[1].amount > 0 /\ WithinSupply(r.outs[1].amount)

MintCheck(s) ==
    /\ At(s, "received") /\ ReqOf(s).op = "mint"
    /\ IF MintAccepted(ReqOf(s))
       THEN GotoWith(s, "building", <<NewToken(ReqOf(s).outs[1])>>)
       ELSE Goto(s, "replied")
    /\ UNCHANGED <<mem, disk, writes, savesQueued, phase, queue, req, now, faults, history>>

(* After await token.build: the supply is counted, no save is made.        *)
MintBuilt(s) ==
    /\ At(s, "building")
    /\ mem' = [mem EXCEPT !.circulating = @ + run[s].todo[1].amount]
    /\ Goto(s, "minting")
    /\ UNCHANGED <<disk, writes, savesQueued, phase, queue, req, now, faults, history>>

(* Wrap throws for a recipient that is not a key; the token is then lost.  *)
MintSend(s) ==
    /\ At(s, "minting")
    /\ LET t == Head(run[s].todo) IN
       IF t.lock \in Malformed
       THEN UNCHANGED <<released, minted>>
       ELSE /\ released' = released \cup {t}
            /\ minted' = minted + t.amount
    /\ GotoWith(s, "replied", <<>>)
    /\ UNCHANGED <<mem, disk, writes, savesQueued, phase, queue, req, now, faults,
                   settled, burnt, revoked>>

(* verify: reads the spent set in memory, without the lock.                *)
Verify(s) ==
    /\ At(s, "received") /\ ReqOf(s).op = "verify"
    /\ Goto(s, "replied")
    /\ UNCHANGED <<mem, disk, writes, savesQueued, phase, queue, req, now, faults, history>>
-----------------------------------------------------------------------------
(* runExclusive: transfers and burns chain on the spend lock.              *)
Enqueue(s) ==
    /\ At(s, "received") /\ ReqOf(s).op \in {"transfer", "burn"}
    /\ queue' = Append(queue, s)
    /\ Goto(s, "queued")
    /\ UNCHANGED <<mem, disk, writes, savesQueued, phase, req, now, faults, history>>

(* Mutant: a run does not wait for the ones before it.                     *)
HasLock_Shared(s) == s \in ToSet(queue)
HasLock(s) == queue # <<>> /\ Head(queue) = s
Release == queue' = Tail(queue)

(* Mutant: an input may be listed twice.                                   *)
InputsAccepted_Duplicates(r) ==
    r.wit /\ \A t \in ToSet(r.ins) : t \notin mem.spent /\ t.timeLock <= now
(* validateTXInputs and validateFungibleTransfer.                          *)
InputsAccepted(r) ==
    /\ IsInjective(r.ins) /\ r.wit
    /\ \A t \in ToSet(r.ins) : t \notin mem.spent /\ t.timeLock <= now
TransferAccepted(r) ==
    /\ InputsAccepted(r)
    /\ r.ins # <<>>
    /\ \A t \in ToSet(r.ins) : t.amount > 0
    /\ \A o \in ToSet(r.outs) : o.amount > 0
    /\ AmountSum(r.outs) <= AmountSum(r.ins)

TransferValidate(s) ==
    /\ At(s, "queued") /\ ReqOf(s).op = "transfer" /\ HasLock(s)
    /\ IF TransferAccepted(ReqOf(s))
       THEN Goto(s, "validated") /\ UNCHANGED queue
       ELSE Goto(s, "replied") /\ Release
    /\ UNCHANGED <<mem, disk, writes, savesQueued, phase, req, now, faults, history>>

(* Mutant: the change is the value of the inputs.                          *)
Change_Gross(r) ==
    <<NewToken([to |-> r.from, amount |-> AmountSum(r.ins), timeLock |-> r.ins[1].timeLock])>>
(* prepareFungibleTransfer: outputs, then change back to the sender.       *)
Change(r) ==
    LET rest == AmountSum(r.ins) - AmountSum(r.outs) IN
    IF rest \in Nat \ {0}
    THEN <<NewToken([to |-> r.from, amount |-> rest, timeLock |-> r.ins[1].timeLock])>>
    ELSE <<>>
Outputs(r) == [i \in DOMAIN r.outs |-> NewToken(r.outs[i])] \o Change(r)

TransferSign(s) ==
    /\ At(s, "validated")
    /\ GotoWith(s, "signed", Outputs(ReqOf(s)))
    /\ UNCHANGED <<mem, disk, writes, savesQueued, phase, queue, req, now, faults, history>>

(* publishSpentToken for every input: each adds its hash and starts a save *)
(* of its own, so the i-th snapshot holds the first i inputs.              *)
Spend(ins, i) == [mem EXCEPT !.spent = @ \cup ToSet(SubSeq(ins, 1, i))]
PublishSpent(s, ins) ==
    /\ mem' = Spend(ins, Len(ins))
    /\ writes' = writes \o [i \in 1..Len(ins) |-> [by |-> s, snap |-> Spend(ins, i)]]

TransferMark(s) ==
    /\ At(s, "signed")
    /\ PublishSpent(s, ReqOf(s).ins)
    /\ Goto(s, "saving")
    /\ UNCHANGED <<disk, savesQueued, phase, queue, req, now, faults, history>>

(* handleBurn: check and mark without an await between them.               *)
BurnMark(s) ==
    /\ At(s, "queued") /\ ReqOf(s).op = "burn" /\ HasLock(s)
    /\ IF ReqOf(s).ins[1] \in mem.spent
       THEN Goto(s, "replied") /\ Release /\ UNCHANGED <<mem, writes>>
       ELSE PublishSpent(s, ReqOf(s).ins) /\ Goto(s, "saving") /\ UNCHANGED queue
    /\ UNCHANGED <<disk, savesQueued, phase, req, now, faults, history>>

(* Mutant: the answer does not wait for the saves.                         *)
Saved_NotAwaited(s) == TRUE
(* The awaited saves have landed: the run commits to its answer.           *)
Saved(s) == \A i \in DOMAIN writes : writes[i].by # s

TransferSettle(s) ==
    /\ At(s, "saving") /\ ReqOf(s).op = "transfer" /\ Saved(s)
    /\ settled' = settled \cup ToSet(ReqOf(s).ins)
    /\ Goto(s, "releasing")
    /\ UNCHANGED <<mem, disk, writes, savesQueued, phase, queue, req, now, faults,
                   released, minted, burnt, revoked>>

BurnSettle(s) ==
    /\ At(s, "saving") /\ ReqOf(s).op = "burn" /\ Saved(s)
    /\ settled' = settled \cup ToSet(ReqOf(s).ins)
    /\ burnt' = burnt + ReqOf(s).ins[1].amount
    /\ Goto(s, "replied") /\ Release
    /\ UNCHANGED <<mem, disk, writes, savesQueued, phase, req, now, faults,
                   released, minted, revoked>>

(* Outputs leave one send after the other; a send that throws for its      *)
(* recipient takes the rest of the outputs with it.                        *)
TransferSend(s) ==
    /\ At(s, "releasing") /\ run[s].todo # <<>>
    /\ LET t == Head(run[s].todo) IN
       IF t.lock \in Malformed
       THEN GotoWith(s, "replied", <<>>) /\ Release /\ UNCHANGED released
       ELSE /\ released' = released \cup {t}
            /\ GotoWith(s, "releasing", Tail(run[s].todo))
            /\ UNCHANGED queue
    /\ UNCHANGED <<mem, disk, writes, savesQueued, phase, req, now, faults,
                   settled, minted, burnt, revoked>>

TransferReturn(s) ==
    /\ At(s, "releasing") /\ run[s].todo = <<>>
    /\ Goto(s, "replied") /\ Release
    /\ UNCHANGED <<mem, disk, writes, savesQueued, phase, req, now, faults, history>>
-----------------------------------------------------------------------------
(* addAuthorizedForger and removeAuthorizedForger, called by the operator. *)
(* A key names its own pending write; one call per key is in progress.     *)
AdminIdle(p) == phase = "up" /\ \A i \in DOMAIN writes : writes[i].by # p

AddForger(p) ==
    /\ AdminIdle(p) /\ p \notin mem.forgers
    /\ mem' = [mem EXCEPT !.forgers = @ \cup {p}]
    /\ Save(p, [mem EXCEPT !.forgers = @ \cup {p}])
    /\ revoked' = revoked \ {p}
    /\ UNCHANGED <<disk, savesQueued, phase, queue, run, req, now, faults,
                   released, settled, minted, burnt>>

RemoveForger(p) ==
    /\ AdminIdle(p) /\ p \in mem.forgers
    /\ mem' = [mem EXCEPT !.forgers = @ \ {p}]
    /\ Save(p, [mem EXCEPT !.forgers = @ \ {p}])
    /\ UNCHANGED <<disk, savesQueued, phase, queue, run, req, now, faults, history>>
-----------------------------------------------------------------------------
(* Storage settles a write: the oldest one, or any when it keeps no order. *)
MaySettle == IF OrderedWrites THEN {i \in DOMAIN writes : i = 1} ELSE DOMAIN writes

WriteLands(i) ==
    /\ i \in MaySettle
    /\ disk' = writes[i].snap
    /\ writes' = RemoveAt(writes, i)
    /\ revoked' = IF writes[i].by \in Users /\ writes[i].by \notin writes[i].snap.forgers
                  THEN revoked \cup {writes[i].by} ELSE revoked
    /\ UNCHANGED <<mem, savesQueued, phase, queue, run, req, now, faults,
                   released, settled, minted, burnt>>

(* The first failed save of a run rejects its Promise.all: the run answers *)
(* INTERNAL_ERROR and leaves the lock, its other saves go on by themselves *)
(* and its marks stay in memory.  A failed queued save is only logged.     *)
Abandon(q, s) == [i \in DOMAIN q |-> IF q[i].by = s THEN [q[i] EXCEPT !.by = "orphan"] ELSE q[i]]

(* Mutant: a run that fails keeps the lock.                                *)
WriteFails_Locked(i) ==
    /\ i \in MaySettle /\ faults < MaxFaults
    /\ faults' = faults + 1
    /\ IF writes[i].by \in Slots
       THEN /\ writes' = Abandon(RemoveAt(writes, i), writes[i].by)
            /\ GotoWith(writes[i].by, "replied", <<>>)
       ELSE writes' = RemoveAt(writes, i) /\ UNCHANGED run
    /\ UNCHANGED <<mem, disk, savesQueued, phase, queue, req, now, history>>

WriteFails(i) ==
    /\ i \in MaySettle /\ faults < MaxFaults
    /\ faults' = faults + 1
    /\ IF writes[i].by \in Slots
       THEN /\ writes' = Abandon(RemoveAt(writes, i), writes[i].by)
            /\ GotoWith(writes[i].by, "replied", <<>>)
            /\ Release
       ELSE writes' = RemoveAt(writes, i) /\ UNCHANGED <<run, queue>>
    /\ UNCHANGED <<mem, disk, savesQueued, phase, req, now, history>>

(* The process dies; what storage holds survives, and what relays hold.    *)
Crash ==
    /\ phase = "up" /\ faults < MaxFaults
    /\ faults' = faults + 1
    /\ phase' = "down"
    /\ mem' = EmptyState
    /\ writes' = <<>> /\ savesQueued' = 0 /\ queue' = <<>>
    /\ run' = [s \in Slots |-> IdleRun]
    /\ UNCHANGED <<disk, req, now, history>>

(* Mutants: a restart keeps the fresh state; it adds the configured keys.  *)
LoadState_Fresh ==
    /\ phase = "down" /\ phase' = "loaded"
    /\ UNCHANGED <<mem, disk, writes, savesQueued, queue, run, req, now, faults, history>>
LoadState_Merged ==
    /\ phase = "down" /\ phase' = "loaded"
    /\ mem' = [disk EXCEPT !.forgers = @ \cup ConfigForgers]
    /\ UNCHANGED <<disk, writes, savesQueued, queue, run, req, now, faults, history>>

(* initialize: _loadState comes before super.init, which subscribes.       *)
LoadState ==
    /\ phase = "down"
    /\ mem' = disk
    /\ phase' = "loaded"
    /\ UNCHANGED <<disk, writes, savesQueued, queue, run, req, now, faults, history>>

Subscribe ==
    /\ phase = "loaded"
    /\ phase' = "up"
    /\ UNCHANGED <<mem, disk, writes, savesQueued, queue, run, req, now, faults, history>>
-----------------------------------------------------------------------------
HandlerStep(s) ==
    \/ MintCheck(s) \/ MintBuilt(s) \/ MintSend(s)
    \/ Verify(s)
    \/ Enqueue(s)
    \/ TransferValidate(s) \/ TransferSign(s) \/ TransferMark(s)
    \/ TransferSettle(s) \/ TransferSend(s) \/ TransferReturn(s)
    \/ BurnMark(s) \/ BurnSettle(s)
    \/ FinishEvent(s)

Next ==
    \/ \E e \in Events : ClientSend(e)
    \/ \E s \in Slots, e \in Events : Deliver(s, e)
    \/ \E s \in Slots : HandlerStep(s)
    \/ \E p \in AdminKeys : AddForger(p) \/ RemoveForger(p)
    \/ \E i \in DOMAIN writes : WriteLands(i) \/ WriteFails(i)
    \/ EndOfStoredEvents \/ StartQueuedSave
    \/ Crash \/ LoadState \/ Subscribe
    \/ Tick

Spec == Init /\ [][Next]_vars

(* The event loop runs every ready continuation, storage answers every     *)
(* call, a restarted forge initialises, and relays redeliver on            *)
(* re-subscription what is not marked.  Crashes, failed writes, ticks and  *)
(* what clients and the operator do are not fair.                          *)
Fairness ==
    /\ \A s \in Slots : WF_vars(HandlerStep(s))
    /\ \A e \in Events : WF_vars(\E s \in Slots : Deliver(s, e))
    /\ WF_vars(\E i \in DOMAIN writes : WriteLands(i))
    /\ WF_vars(StartQueuedSave)
    /\ WF_vars(LoadState) /\ WF_vars(Subscribe)

FairSpec == Spec /\ Fairness
-----------------------------------------------------------------------------
(* The inductive invariant behind NoReplay, SpendOnce, RevocationSticks    *)
(* and NoInflation when storage keeps the order of writes.                 *)

(* Requests have the shape of their method, and a run that is past the     *)
(* checks of its handler has what those checks established.                *)
Payable(r) == r.ins # <<>> /\ \A o \in ToSet(r.outs) : o.amount > 0
RequestsOK ==
    \A e \in Events : req[e] # NoReq =>
        /\ req[e].op = "mint" => Len(req[e].outs) = 1
        /\ req[e].op = "burn" => Len(req[e].ins) = 1
RunsOK ==
    \A s \in Slots :
        /\ run[s].pc # "idle" => run[s].ev \in Events /\ ReqOf(s) # NoReq
        /\ run[s].pc \in {"building", "minting"} => run[s].todo # <<>>
        /\ run[s].pc \in {"validated", "signed", "releasing"} => ReqOf(s).op = "transfer"
        /\ run[s].pc \in {"queued", "saving"} => ReqOf(s).op \in {"transfer", "burn"}
        /\ run[s].pc = "validated" => Payable(ReqOf(s))

(* The spend lock: a run past its check is the head of the queue, whoever  *)
(* waits is in it, and only runs that wait or hold the lock, each once.    *)
LockOK ==
    /\ \A s \in Slots : run[s].pc \in CriticalPCs => HasLock(s)
    /\ \A s \in Slots : run[s].pc \in WaitPCs => s \in ToSet(queue)
    /\ \A i \in DOMAIN queue : run[queue[i]].pc \in WaitPCs \cup CriticalPCs
    /\ \A i, j \in DOMAIN queue : queue[i] = queue[j] => i = j

(* The pending saves of a run belong to a run that awaits them; none is    *)
(* pending, and no run has or awaits the lock, while the process is down.  *)
WritersOK ==
    /\ phase # "up" => writes = <<>> /\ queue = <<>>
    /\ \A i \in DOMAIN writes : writes[i].by \in Slots => run[writes[i].by].pc = "saving"

ControlInv == TypeOK /\ RequestsOK /\ RunsOK /\ LockOK /\ WritersOK

(* Spent sets only grow from storage through the pending snapshots to      *)
(* memory.                                                                 *)
StoreOK ==
    /\ phase # "down" => disk.spent \subseteq mem.spent
    /\ \A i \in DOMAIN writes :
        /\ disk.spent \subseteq writes[i].snap.spent
        /\ writes[i].snap.spent \subseteq mem.spent
        /\ \A j \in DOMAIN writes : i <= j => writes[i].snap.spent \subseteq writes[j].snap.spent

(* What a run may rely on: its inputs are unspent until it marks them,     *)
(* and once marked they are in storage or in a snapshot it waits for.      *)
SpendOK ==
    /\ settled \subseteq disk.spent
    /\ \A s \in Slots :
        /\ run[s].pc \in {"validated", "signed"} => ToSet(ReqOf(s).ins) \cap mem.spent = {}
        /\ run[s].pc = "saving" =>
             \A t \in ToSet(ReqOf(s).ins) :
                /\ t \notin settled
                /\ t \in disk.spent \/ \E i \in DOMAIN writes :
                                          writes[i].by = s /\ t \in writes[i].snap.spent

(* A key whose revocation completed is in no copy of the state, and one    *)
(* whose revocation is on its way is in no later copy.                     *)
RevokeOK ==
    /\ \A p \in revoked :
        /\ p \notin disk.forgers
        /\ phase # "down" => p \notin mem.forgers
        /\ \A i \in DOMAIN writes : p \notin writes[i].snap.forgers
    /\ \A i \in DOMAIN writes :
        writes[i].by \in Users /\ writes[i].by \notin writes[i].snap.forgers =>
            /\ writes[i].by \notin mem.forgers
            /\ \A j \in DOMAIN writes : i <= j => writes[i].by \notin writes[j].snap.forgers

StateInv == ControlInv /\ StoreOK /\ SpendOK /\ RevokeOK

(* What memory alone knows, whatever storage does with its writes, for as  *)
(* long as the process lives: which inputs a run may rely on, which ones   *)
(* were consumed, and which keys were revoked.                             *)
MemoryOK ==
    /\ phase = "up"
    /\ settled \subseteq mem.spent
    /\ \A s \in Slots :
        /\ run[s].pc \in {"validated", "signed"} => ToSet(ReqOf(s).ins) \cap mem.spent = {}
        /\ run[s].pc = "saving" =>
             \A t \in ToSet(ReqOf(s).ins) : t \in mem.spent /\ t \notin settled
    /\ revoked \cap mem.forgers = {}
    /\ \A i \in DOMAIN writes :
        writes[i].by \in Users /\ writes[i].by \notin writes[i].snap.forgers
            => writes[i].by \notin mem.forgers

(* The supply is checked before an await and counted after it: runs that   *)
(* are between the two have passed the check on one count.  M bounds what  *)
(* a request mints.                                                        *)
Building == {s \in Slots : run[s].pc = "building"}
Minting(s) == run[s].todo[1].amount
Overrun(c, k, M) == c <= TotalSupply + k * M
Stored(M) ==
    /\ Overrun(disk.circulating, Cardinality(Slots) - 1, M)
    /\ \A i \in DOMAIN writes : Overrun(writes[i].snap.circulating, Cardinality(Slots) - 1, M)

(* Either the count leaves room for a mint of M by every run in progress,  *)
(* or the last of them to check has left room for its own amount.          *)
SupplyOK(M) ==
    /\ phase # "up" => Building = {}
    /\ \A s \in Building : Minting(s) <= M
    /\ \/ Overrun(mem.circulating, Cardinality(Slots \ Building) - 1, M)
       \/ \E s \in Building :
            Overrun(mem.circulating + Minting(s), Cardinality(Slots \ Building), M)
    /\ Stored(M)

(* A run that has signed its outputs pays with all of them exactly what it *)
(* takes in, and what it still has to send is made of positive amounts.    *)
Paying(r, q) == r.pc = "signed" \/ (r.pc = "saving" /\ q.op = "transfer")
Funded(r, q) ==
    /\ r.pc = "validated" => IsInjective(q.ins) /\ AmountSum(q.outs) <= AmountSum(q.ins)
    /\ Paying(r, q) => AmountSum(r.todo) = Value(ToSet(q.ins))
    /\ (Paying(r, q) \/ r.pc = "releasing") => \A t \in ToSet(r.todo) : t.amount > 0

(* Value taken in and not yet handed out, by the run that holds the lock.  *)
Credit == IF queue # <<>> /\ run[Head(queue)].pc = "releasing"
          THEN AmountSum(run[Head(queue)].todo) ELSE 0

CoinsOK ==
    /\ IsFiniteSet(released) /\ settled \subseteq released
    /\ \A e \in Events : req[e] # NoReq => ToSet(req[e].ins) \subseteq released
RunsFunded == \A s \in Slots : Funded(run[s], ReqOf(s))

(* What holders can still spend and what is about to be handed out was     *)
(* minted and not burned.                                                  *)
Balanced == Value(released \ settled) + Credit <= minted - burnt
FundsOK == CoinsOK /\ RunsFunded /\ Balanced

IInv == StateInv /\ FundsOK

-----------------------------------------------------------------------------
(* The spent set is durable before the response releases newly signed      *)
(* tokens (_saveState), so an input that has funded released outputs, or a *)
(* burned token, is spent in storage at all times and in memory from the   *)
(* moment a restarted forge has loaded its state.                          *)
NoReplay ==
    /\ settled \subseteq disk.spent
    /\ phase # "down" => settled \subseteq mem.spent

(* A token is consumed at most once: when a transfer or a burn commits to  *)
(* its answer, no earlier one has consumed any of its inputs, whatever     *)
(* runs overlapped and whatever was lost in a crash (runExclusive).        *)
SpendOnce ==
    [][\A s \in Slots : TransferSettle(s) \/ BurnSettle(s)
            => ToSet(ReqOf(s).ins) \cap settled = {}]_vars

(* The tokens that holders can still spend are never worth more than what  *)
(* was minted and not burned: transfers, failed saves, crashes and         *)
(* restarts create no value (validateFungibleTransfer, spent set).         *)
NoInflation == phase = "up" => Value(released \ mem.spent) <= minted - burnt

(* Once the operator saw removeAuthorizedForger return, that key mints no  *)
(* more: no later restart and no save of another handler brings it back.   *)
RevocationSticks == phase # "down" => revoked \cap mem.forgers = {}

(* Every handler run ends: neither the spend lock nor a failed save leaves *)
(* a run waiting for ever (runExclusive, queueSaveState).                  *)
RunsFinish == \A s \in Slots : run[s].pc # "idle" ~> run[s].pc = "idle"

(* The safety side of RunsFinish.  Whoever waits for the lock waits for a  *)
(* run that can take its next step, or that awaits a save of its own which *)
(* storage has not settled.                                                *)
CanGoOn(s) ==
    \/ At(s, "queued") /\ HasLock(s) /\ ReqOf(s).op \in {"transfer", "burn"}
    \/ At(s, "validated") \/ At(s, "signed") \/ At(s, "releasing")
    \/ At(s, "saving") /\ ReqOf(s).op \in {"transfer", "burn"} /\ Saved(s)
AwaitsSave(s) == At(s, "saving") /\ ~Saved(s)
NobodyStuck ==
    \A s \in Slots : run[s].pc = "queued" =>
        \E h \in Slots : HasLock(h) /\ (CanGoOn(h) \/ AwaitsSave(h))

(* Nobody overtakes a run that waits, and every step of the run with the   *)
(* lock brings it nearer to leaving it.                                    *)
Ahead(s) == {queue[i] : i \in {k \in DOMAIN queue : \E j \in DOMAIN queue : k < j /\ queue[j] = s}}
Remaining == [pc \in PCs |-> CASE pc = "queued" -> 5 [] pc = "validated" -> 4
                               [] pc = "signed" -> 3 [] pc = "saving" -> 2
                               [] pc = "releasing" -> 1 [] OTHER -> 0]
Nearer(r, old) ==
    \/ Remaining[r.pc] < Remaining[old.pc]
    \/ r.pc = "releasing" /\ old.pc = "releasing" /\ Len(r.todo) < Len(old.todo)
InTurn ==
    [][\A s \in Slots :
        /\ run[s].pc = "queued" /\ run'[s].pc = "queued" => Ahead(s)' \subseteq Ahead(s)
        /\ HasLock(s) /\ run'[s] # run[s] => Nearer(run'[s], run[s])]_vars

(* Every published event is handled and in the end stays marked, also when *)
(* the forge crashes in between (subscribe, initialize).                   *)
EventsHandled == \A e \in Events : req[e] # NoReq ~> [](e \in mem.processed)

(* What the forge promises: see TokenLedger.                               *)
Ledger == INSTANCE TokenLedger WITH
    coins <- released, void <- settled, supply <- minted - burnt,
    credit <- Credit, Genesis <- InitialTokens
LedgerSpec == Ledger!Spec
=============================================================================
