-------------------------- MODULE NonFungibleForge --------------------------
(***************************************************************************)
(* The issuer of unique tokens: NonFungibleForge on top of ForgeBase.      *)
(* A token is minted under an id of its own, changes hands by being spent  *)
(* and minted again under the same id, and is burned.                      *)
(*                                                                         *)
(* As in FungibleForge a run of a handler interleaves with the others at   *)
(* its awaits, the state lives in memory (mem) and in storage (disk), and  *)
(* storage applies writes in the order of the calls.  Relay delivery and   *)
(* the checks of witnesses and time locks are FungibleForge's subject: the *)
(* requests here carry accepted witnesses.                                 *)
(***************************************************************************)
EXTENDS Integers, Sequences, FiniteSets, SequencesExt

CONSTANTS
    Strategies,   \* values of config.assetIdStrategy
    Uuids,        \* results of uuidv4, all different
    Users,        \* keys that requests name as recipients
    Malformed,    \* those that are no public keys: sending to them throws
    Supplies,     \* values of config.totalSupply, 0 for no limit
    Genesis,      \* number of tokens minted and delivered before the start
    GenesisUuids, \* their ids under the "unique" strategy
    Holder,       \* who holds those tokens
    Slots,        \* handler runs that may be in progress at one time
    MaxIns, MaxOuts,  \* bounds on the tokens of a transfer
    MaxRequests,  \* bound on the requests
    MaxTime,      \* bound on the clock
    MaxFaults,    \* bound on crashes and failed writes together
    NoId,         \* the id that is left of a string: Number("...") is NaN
    NoToken, NoReq

ASSUME BoundsAssumption ==
    /\ {Genesis, MaxIns, MaxOuts, MaxRequests, MaxTime, MaxFaults} \cup Supplies \subseteq Nat
    /\ \A n \in Supplies : n > 0 => Genesis <= n
    /\ Strategies \subseteq {"sequential", "unique"}
    /\ IsFiniteSet(Slots) /\ Slots # {}
ASSUME IdsAssumption ==
    /\ GenesisUuids \subseteq Uuids
    /\ IsFiniteSet(GenesisUuids) /\ Cardinality(GenesisUuids) = Genesis
    /\ Uuids \cap Nat = {} /\ NoId \notin Nat \cup Uuids /\ "queue" \notin Slots
ASSUME UsersAssumption == Malformed \subseteq Users /\ Holder \notin Malformed

Ids == Nat \cup Uuids \cup {NoId}

(* A token is its payload, and its hash is computed from that alone.       *)
Token == [id: Ids, lock: Users \cup {Holder}, iat: 0..MaxTime]
ASSUME NoTokenAssumption == NoToken \notin Token
Recipient == [id: Ids, to: Users]
SeqUpTo(S, n) == UNION {[1..k -> S] : k \in 0..n}

VARIABLES
    strategy,   \* config.assetIdStrategy
    totalSupply,\* config.totalSupply
    mem,        \* ForgeState in memory
    disk,       \* the snapshot of ForgeState that storage holds
    writes,     \* storage.setItem calls that have not settled
    up,         \* FALSE after a crash, until the state is loaded
    queue,      \* runs chained on ForgeBase.spendLock, the holder first
    run,        \* control state of each handler run
    requests,   \* requests made so far
    now,        \* the clock, in seconds
    faults,     \* crashes and failed writes so far
    released    \* history: tokens handed to a recipient

config == <<strategy, totalSupply>>
vars == <<strategy, totalSupply, mem, disk, writes, up, queue, run, requests, now, faults,
          released>>

ForgeState == [spent: SUBSET Token, circulating: Nat, last: Nat]

CriticalPCs == {"recipient", "forged", "marking", "resaving", "burning"}
PCs == {"idle", "received", "building", "signing", "minting", "queued", "burned", "counting"}
           \cup CriticalPCs
SavingPCs == {"minting", "marking", "resaving", "burning", "counting"}
MintingPCs == {"building", "signing", "minting"}
AnyRequest == [op: {"mint", "transfer", "burn"}, to: Users \cup {Holder}, ins: Seq(Token),
               outs: Seq(Recipient)]
Run == [pc: PCs, req: AnyRequest \cup {NoReq}, used: SUBSET Nat, next: Nat \ {0},
        old: Token \cup {NoToken}, new: Token \cup {NoToken}]
Write == [by: Slots \cup {"queue"}, snap: ForgeState]
IdleRun == [pc |-> "idle", req |-> NoReq, used |-> {}, next |-> 1, old |-> NoToken,
            new |-> NoToken]

GenesisTokens ==
    {[id |-> i, lock |-> Holder, iat |-> 0] :
        i \in IF strategy = "sequential" THEN 0..(Genesis - 1) ELSE GenesisUuids}

Init ==
    /\ strategy \in Strategies /\ totalSupply \in Supplies
    /\ mem = [spent |-> {}, circulating |-> Genesis,
              last |-> IF strategy = "sequential" THEN Genesis ELSE 0]
    /\ disk = mem
    /\ writes = <<>> /\ up = TRUE /\ queue = <<>>
    /\ run = [s \in Slots |-> IdleRun]
    /\ requests = 0 /\ now = 0 /\ faults = 0
    /\ released = GenesisTokens
-----------------------------------------------------------------------------
At(s, pc) == up /\ run[s].pc = pc
Req(s) == run[s].req
Goto(s, pc) == run' = [run EXCEPT ![s].pc = pc]
End(s) == run' = [run EXCEPT ![s] = IdleRun]

(* _saveState: snapshot now; the write lands later, and the run awaits it. *)
Save(by, state) == writes' = Append(writes, [by |-> by, snap |-> state])
(* Mutant: the answer does not wait for the save.                          *)
Saved_NotAwaited(s) == TRUE
Saved(s) == \A i \in DOMAIN writes : writes[i].by # s

Minting(to) == [op |-> "mint", to |-> to, ins |-> <<>>, outs |-> <<>>]
Request ==
    {Minting(u) : u \in Users}
        \cup [op: {"burn"}, to: {Holder}, ins: [1..1 -> released], outs: {<<>>}]
        \cup [op: {"transfer"}, to: {Holder}, ins: SeqUpTo(released, MaxIns),
              outs: SeqUpTo({[id |-> t.id, to |-> u] :
                                t \in {x \in released : x.id # NoId}, u \in Users}, MaxOuts)]

Receive(s) ==
    /\ At(s, "idle") /\ requests < MaxRequests
    /\ \E r \in Request : run' = [run EXCEPT ![s] = [IdleRun EXCEPT !.pc = "received", !.req = r]]
    /\ requests' = requests + 1
    /\ UNCHANGED <<config, mem, disk, writes, up, queue, now, faults, released>>
-----------------------------------------------------------------------------
WithinSupply == totalSupply > 0 => mem.circulating + 1 <= totalSupply

NewToken(id, to) == [id |-> id, lock |-> to, iat |-> now]
UnusedUuids ==
    Uuids \ ({t.id : t \in released}
                \cup {run[s].new.id : s \in {r \in Slots : run[r].new # NoToken}})

(* forgeToken up to its first await: the supply is checked and an id is    *)
(* taken.                                                                  *)
MintCheck(s) ==
    /\ At(s, "received") /\ Req(s).op = "mint"
    /\ IF WithinSupply
       THEN \E id \in IF strategy = "sequential" THEN {mem.last} ELSE UnusedUuids :
                /\ run' = [run EXCEPT ![s].pc = "building", ![s].new = NewToken(id, Req(s).to)]
                /\ mem' = [mem EXCEPT !.last = IF strategy = "sequential" THEN @ + 1 ELSE @]
       ELSE End(s) /\ UNCHANGED mem
    /\ UNCHANGED <<config, disk, writes, up, queue, requests, now, faults, released>>

(* After await token.build the token is counted, and then signed.          *)
MintBuilt(s) ==
    /\ At(s, "building")
    /\ mem' = [mem EXCEPT !.circulating = @ + 1]
    /\ Goto(s, "signing")
    /\ UNCHANGED <<config, disk, writes, up, queue, requests, now, faults, released>>

(* Mutant: the token is counted again when it is signed.                   *)
MintSigned_Counted(s) ==
    /\ At(s, "signing")
    /\ mem' = [mem EXCEPT !.circulating = @ + 1]
    /\ Save(s, mem')
    /\ Goto(s, "minting")
    /\ UNCHANGED <<config, disk, up, queue, requests, now, faults, released>>
MintSigned(s) ==
    /\ At(s, "signing")
    /\ Save(s, mem)
    /\ Goto(s, "minting")
    /\ UNCHANGED <<config, mem, disk, up, queue, requests, now, faults, released>>

(* The token leaves once the state is saved; Wrap throws for a bad key.    *)
Handed(t) == IF t.lock \in Malformed THEN {} ELSE {t}
MintSend(s) ==
    /\ At(s, "minting") /\ Saved(s)
    /\ released' = released \cup Handed(run[s].new)
    /\ End(s)
    /\ UNCHANGED <<config, mem, disk, writes, up, queue, requests, now, faults>>
-----------------------------------------------------------------------------
(* runExclusive: transfers and burns chain on the spend lock.              *)
Enqueue(s) ==
    /\ At(s, "received") /\ Req(s).op # "mint"
    /\ queue' = Append(queue, s)
    /\ Goto(s, "queued")
    /\ UNCHANGED <<config, mem, disk, writes, up, requests, now, faults, released>>

HasLock(s) == queue # <<>> /\ Head(queue) = s
Leave(s) == End(s) /\ queue' = Tail(queue)

(* validateTXInputs, then the checks that something goes in and out.       *)
TransferAccepted(r) ==
    /\ r.ins # <<>> /\ r.outs # <<>>
    /\ IsInjective(r.ins)
    /\ ToSet(r.ins) \cap mem.spent = {}

TransferValidate(s) ==
    /\ At(s, "queued") /\ Req(s).op = "transfer" /\ HasLock(s)
    /\ IF TransferAccepted(Req(s)) THEN Goto(s, "recipient") /\ UNCHANGED queue ELSE Leave(s)
    /\ UNCHANGED <<config, mem, disk, writes, up, requests, now, faults, released>>

(* The inputs a recipient may be given: those of its id, not yet consumed. *)
(* A request names an id as a string, also the id 0, and String makes one  *)
(* of the id in a token.                                                   *)
Matching(s, id) == {i \in DOMAIN Req(s).ins : i \notin run[s].used /\ Req(s).ins[i].id = id}
(* typeof tokenID === "string" ? Number(tokenID) : tokenID.                *)
NumericId(id) == IF id \in Uuids THEN NoId ELSE id

(* handleNonFungibleTransfer, one recipient after the other: a bad entry   *)
(* ends the run and leaves what earlier recipients were given.             *)
TransferRecipient(s) ==
    /\ At(s, "recipient")
    /\ run[s].next <= Len(Req(s).outs)
    /\ LET o == Req(s).outs[run[s].next]
           found == Matching(s, o.id) IN
       IF found # {}
       THEN LET i == CHOOSE n \in found : \A m \in found : n <= m IN
            /\ run' = [run EXCEPT
                 ![s].pc = "forged", ![s].used = @ \cup {i}, ![s].old = Req(s).ins[i],
                 ![s].new = NewToken(NumericId(Req(s).ins[i].id), o.to)]
            /\ UNCHANGED queue
       ELSE Leave(s)
    /\ UNCHANGED <<config, mem, disk, writes, up, requests, now, faults, released>>

TransferReturn(s) ==
    /\ At(s, "recipient")
    /\ run[s].next > Len(Req(s).outs)
    /\ Leave(s)
    /\ UNCHANGED <<config, mem, disk, writes, up, requests, now, faults, released>>

(* publishSpentToken, once the new token is built and signed.              *)
Spend(s, t) ==
    /\ mem' = [mem EXCEPT !.spent = @ \cup {t}]
    /\ Save(s, [mem EXCEPT !.spent = @ \cup {t}])
TransferMark(s) ==
    /\ At(s, "forged")
    /\ Spend(s, run[s].old)
    /\ Goto(s, "marking")
    /\ UNCHANGED <<config, disk, up, queue, requests, now, faults, released>>

(* The transfer saves once more before it sends.                           *)
TransferSave(s) ==
    /\ At(s, "marking") /\ Saved(s)
    /\ Save(s, mem)
    /\ Goto(s, "resaving")
    /\ UNCHANGED <<config, mem, disk, up, queue, requests, now, faults, released>>

TransferSend(s) ==
    /\ At(s, "resaving") /\ Saved(s)
    /\ released' = released \cup Handed(run[s].new)
    /\ IF run[s].new.lock \in Malformed
       THEN Leave(s)
       ELSE /\ run' = [run EXCEPT ![s].pc = "recipient", ![s].next = @ + 1,
                                  ![s].old = NoToken, ![s].new = NoToken]
            /\ UNCHANGED queue
    /\ UNCHANGED <<config, mem, disk, writes, up, requests, now, faults>>
-----------------------------------------------------------------------------
(* handleBurn, under the lock.                                             *)
BurnMark(s) ==
    /\ At(s, "queued") /\ Req(s).op = "burn" /\ HasLock(s)
    /\ IF Req(s).ins[1] \in mem.spent
       THEN Leave(s) /\ UNCHANGED <<mem, writes>>
       ELSE Spend(s, Req(s).ins[1]) /\ Goto(s, "burning") /\ UNCHANGED queue
    /\ UNCHANGED <<config, disk, up, requests, now, faults, released>>

BurnSettle(s) ==
    /\ At(s, "burning") /\ Saved(s)
    /\ Goto(s, "burned") /\ queue' = Tail(queue)
    /\ UNCHANGED <<config, mem, disk, writes, up, requests, now, faults, released>>

(* burnToken counts the burned token outside of the lock.  The mutant      *)
(* counts it twice.                                                        *)
Lowered_Twice(n) == IF n > 1 THEN n - 2 ELSE 0
Lowered(n) == IF n > 0 THEN n - 1 ELSE 0
BurnCount(s) ==
    /\ At(s, "burned")
    /\ mem' = [mem EXCEPT !.circulating = Lowered(@)]
    /\ Save(s, mem')
    /\ Goto(s, "counting")
    /\ UNCHANGED <<config, disk, up, queue, requests, now, faults, released>>

BurnReturn(s) ==
    /\ At(s, "counting") /\ Saved(s)
    /\ End(s)
    /\ UNCHANGED <<config, mem, disk, writes, up, queue, requests, now, faults, released>>
-----------------------------------------------------------------------------
(* NWPCBase saves the state on its own account after each event, one save  *)
(* at a time.                                                              *)
QueuedSave ==
    /\ up /\ mem # disk
    /\ \A i \in DOMAIN writes : writes[i].by # "queue"
    /\ Save("queue", mem)
    /\ UNCHANGED <<config, mem, disk, up, queue, run, requests, now, faults, released>>

WriteLands ==
    /\ writes # <<>>
    /\ disk' = Head(writes).snap
    /\ writes' = Tail(writes)
    /\ UNCHANGED <<config, mem, up, queue, run, requests, now, faults, released>>

(* A run whose save fails answers an error and leaves the lock if it has   *)
(* it; what it changed stays in memory.                                    *)
WriteFails ==
    /\ writes # <<>> /\ faults < MaxFaults
    /\ faults' = faults + 1
    /\ writes' = Tail(writes)
    /\ LET s == Head(writes).by IN
       IF s = "queue" THEN UNCHANGED <<run, queue>>
       ELSE End(s) /\ queue' = IF HasLock(s) THEN Tail(queue) ELSE queue
    /\ UNCHANGED <<config, mem, disk, up, requests, now, released>>

Crash ==
    /\ up /\ faults < MaxFaults
    /\ faults' = faults + 1
    /\ up' = FALSE
    /\ writes' = <<>> /\ queue' = <<>>
    /\ run' = [s \in Slots |-> IdleRun]
    /\ UNCHANGED <<config, mem, disk, requests, now, released>>

(* _loadState.  The mutant takes the set of spent tokens for an object.    *)
LoadState_Spentless ==
    /\ ~up
    /\ up' = TRUE
    /\ mem' = [disk EXCEPT !.spent = {}]
    /\ UNCHANGED <<config, disk, writes, queue, run, requests, now, faults, released>>
LoadState ==
    /\ ~up
    /\ up' = TRUE
    /\ mem' = disk
    /\ UNCHANGED <<config, disk, writes, queue, run, requests, now, faults, released>>

Tick ==
    /\ now < MaxTime
    /\ now' = now + 1
    /\ UNCHANGED <<config, mem, disk, writes, up, queue, run, requests, faults, released>>
-----------------------------------------------------------------------------
HandlerStep(s) ==
    \/ Receive(s) \/ Enqueue(s)
    \/ MintCheck(s) \/ MintBuilt(s) \/ MintSigned(s) \/ MintSend(s)
    \/ TransferValidate(s) \/ TransferRecipient(s) \/ TransferReturn(s)
    \/ TransferMark(s) \/ TransferSave(s) \/ TransferSend(s)
    \/ BurnMark(s) \/ BurnSettle(s) \/ BurnCount(s) \/ BurnReturn(s)

Next ==
    \/ \E s \in Slots : HandlerStep(s)
    \/ QueuedSave \/ WriteLands \/ WriteFails
    \/ Crash \/ LoadState \/ Tick

Spec == Init /\ [][Next]_vars
-----------------------------------------------------------------------------
TypeOK ==
    /\ strategy \in Strategies /\ totalSupply \in Supplies /\ up \in BOOLEAN
    /\ mem \in ForgeState /\ disk \in ForgeState /\ writes \in Seq(Write)
    /\ queue \in Seq(Slots) /\ run \in [Slots -> Run] /\ released \subseteq Token
    /\ requests \in Nat /\ now \in 0..MaxTime /\ faults \in Nat

(* One run at a time is inside the lock; runs wait for it once.            *)
LockOK ==
    /\ IsInjective(queue)
    /\ \A i \in DOMAIN queue : run[queue[i]].pc \in CriticalPCs \cup {"queued"}
    /\ \A s \in Slots : run[s].pc \in CriticalPCs => HasLock(s)
    /\ ~up => writes = <<>> /\ queue = <<>> /\ \A s \in Slots : run[s].pc = "idle"

(* A run waits for one write at most, and each of their writes has its run. *)
WritersOK ==
    \A i \in DOMAIN writes : writes[i].by # "queue" =>
        /\ run[writes[i].by].pc \in SavingPCs
        /\ \A j \in DOMAIN writes : writes[j].by = writes[i].by => i = j

(* Spent tokens are added and ids counted up only, at each copy no later   *)
(* than at the next; no copy counts more tokens than memory may.           *)
NoLater(a, b) == a.spent \subseteq b.spent /\ a.last <= b.last
Limited(state) == totalSupply > 0 => state.circulating <= totalSupply + Cardinality(Slots) - 1
StoreOK ==
    /\ up => /\ NoLater(disk, mem)
             /\ \A i \in DOMAIN writes :
                   /\ NoLater(disk, writes[i].snap) /\ NoLater(writes[i].snap, mem)
                   /\ \A j \in DOMAIN writes : i <= j => NoLater(writes[i].snap, writes[j].snap)
    /\ Limited(disk) /\ \A i \in DOMAIN writes : Limited(writes[i].snap)

(* A mint has an id of its own, and the count of ids that storage gets     *)
(* before the token leaves is beyond it, so that no restart draws it again. *)
MintOK(s) ==
    run[s].pc \in MintingPCs =>
        LET id == run[s].new.id IN
        /\ run[s].new \in Token /\ \A t \in released : t.id # id
        /\ \A x \in Slots \ {s} : run[x].pc \in MintingPCs => run[x].new.id # id
        /\ IF strategy = "sequential" THEN id \in Nat /\ id < mem.last ELSE id \in Uuids
        /\ strategy = "sequential" /\ run[s].pc = "minting" /\ Saved(s) => id < disk.last
        /\ strategy = "sequential" /\ run[s].pc = "minting" =>
              \A i \in DOMAIN writes : writes[i].by = s => id < writes[i].snap.last

(* The inputs of a transfer are unspent until it marks them, all others of *)
(* the id are spent, and the new token leaves when the mark is in storage. *)
TransferPCs == {"recipient", "forged", "marking", "resaving"}
TransferOK(s) ==
    /\ run[s].pc # "idle" => run[s].req \in AnyRequest /\ ToSet(run[s].req.ins) \subseteq released
    /\ run[s].pc # "idle" /\ run[s].req.op = "burn" => run[s].req.ins # <<>>
    /\ run[s].pc \in TransferPCs =>
          /\ IsInjective(run[s].req.ins)
          /\ \A i \in DOMAIN run[s].req.ins \ run[s].used : run[s].req.ins[i] \notin mem.spent
    /\ run[s].pc = "forged" =>
          /\ \E i \in run[s].used \cap DOMAIN run[s].req.ins : run[s].old = run[s].req.ins[i]
          /\ run[s].old \notin mem.spent
    /\ run[s].pc \in {"forged", "marking", "resaving"} =>
          /\ run[s].old \in released /\ run[s].new \in Token
          /\ run[s].new.id = NumericId(run[s].old.id)
          /\ \A t \in released \ {run[s].old} :
                t.id = run[s].old.id /\ t.id # NoId => t \in disk.spent
    /\ run[s].pc = "marking" =>
          /\ Saved(s) => run[s].old \in disk.spent
          /\ \A i \in DOMAIN writes : writes[i].by = s => run[s].old \in writes[i].snap.spent
    /\ run[s].pc = "resaving" => run[s].old \in disk.spent

(* Ids in use are counted in storage, and one token of each is unspent.    *)
ReleasedOK ==
    /\ \A t \in released :
          IF strategy = "sequential" THEN t.id \in Nat /\ t.id < disk.last
          ELSE t.id \in Uuids \cup {NoId}
    /\ \A t, u \in released \ disk.spent : t.id = u.id /\ t.id # NoId => t = u

(* The supply is checked before the build and counted after it: the total  *)
(* is exceeded by at most one token for each further run in progress.      *)
OverrunBounded ==
    up /\ totalSupply > 0 =>
        mem.circulating + Cardinality({s \in Slots : run[s].pc = "building"})
            <= totalSupply + Cardinality(Slots) - 1

(* What a copy of the state counts covers the tokens that are spendable in *)
(* it and those that runs may still hand out, or have marked and not yet   *)
(* counted as burned.  A run hands its token out when its own write has    *)
(* landed, and no copy older than that is left.                            *)
Covers(state, Owing) ==
    Cardinality(released \ state.spent) + Cardinality(Owing) <= state.circulating
Outstanding ==
    {s \in Slots : run[s].pc \in {"signing", "minting", "marking", "resaving", "burning", "burned"}}
DueBy(k) ==
    {s \in Slots : \/ run[s].pc = "resaving"
                   \/ /\ run[s].pc \in {"minting", "marking"}
                      /\ \A i \in DOMAIN writes : writes[i].by = s => i <= k}
CoverOK ==
    /\ IsFiniteSet(released)
    /\ up => Covers(mem, Outstanding)
    /\ Covers(disk, DueBy(0))
    /\ \A k \in DOMAIN writes : Covers(writes[k].snap, DueBy(k))

(* One run at a time is inside the lock, with its input unspent until it   *)
(* marks it; what leaves the forge is recorded in storage before, so that  *)
(* no restart hands out its id or its predecessor again                    *)
(* (handleNonFungibleTransfer, forgeToken, _saveState).                    *)
ForgeOK ==
    /\ TypeOK /\ LockOK /\ WritersOK /\ StoreOK /\ ReleasedOK /\ OverrunBounded
    /\ \A s \in Slots : MintOK(s) /\ TransferOK(s)
IInv == ForgeOK /\ CoverOK

(* At most one token of an id can be spent, whatever transfers, mints and  *)
(* restarts overlapped: in memory, and in what a restart would load.  An   *)
(* id that a transfer has lost (NaN) names no token.                       *)
OneHolder ==
    \A t, u \in released : t.id = u.id /\ t.id # NoId /\ t # u =>
        /\ up => t \in mem.spent \/ u \in mem.spent
        /\ t \in disk.spent \/ u \in disk.spent

(* The supply the forge counts covers the tokens that can still be spent,  *)
(* so that the check of the supply errs on the side of minting too little: *)
(* burns are counted after they are done, mints before they are delivered. *)
CirculatingCovers ==
    /\ up => Cardinality(released \ mem.spent) <= mem.circulating
    /\ Cardinality(released \ disk.spent) <= disk.circulating

(* Whoever waits for the spend lock waits for a run that can take its next *)
(* step, or that awaits a save which storage has not settled (runExclusive, *)
(* handleNonFungibleTransfer, handleBurn).                                 *)
CanGoOn(s) ==
    \/ At(s, "queued") /\ HasLock(s) /\ Req(s).op \in {"transfer", "burn"}
    \/ At(s, "recipient") \/ At(s, "forged")
    \/ up /\ run[s].pc \in {"marking", "resaving", "burning"} /\ Saved(s)
AwaitsSave(s) == up /\ run[s].pc \in {"marking", "resaving", "burning"} /\ ~Saved(s)
NobodyStuck ==
    \A s \in Slots : run[s].pc = "queued" =>
        \E h \in Slots : HasLock(h) /\ (CanGoOn(h) \/ AwaitsSave(h))

(* What that rests on: whoever waits is in the queue, with a request that  *)
(* is served there, and has a recipient for the token it has forged.       *)
WaitOK ==
    \A s \in Slots :
        /\ run[s].pc = "queued" => s \in ToSet(queue) /\ Req(s).op \in {"transfer", "burn"}
        /\ run[s].pc \in {"forged", "marking", "resaving"} => run[s].next <= Len(Req(s).outs)

(* Nobody overtakes a run that waits, and every step of the run with the   *)
(* lock brings it nearer to leaving: a recipient served, or a step towards *)
(* the next one.                                                           *)
Ahead(s) == {queue[i] : i \in {k \in DOMAIN queue : \E j \in DOMAIN queue : k < j /\ queue[j] = s}}
Remaining == [pc \in PCs |-> CASE pc = "queued" -> 5 [] pc = "recipient" -> 4
                               [] pc = "forged" -> 3 [] pc = "marking" -> 2
                               [] pc \in {"resaving", "burning"} -> 1 [] OTHER -> 0]
Nearer(r, old) ==
    \/ r.pc \notin CriticalPCs \cup {"queued"}
    \/ r.req = old.req /\ r.next = old.next /\ Remaining[r.pc] < Remaining[old.pc]
    \/ r.req = old.req /\ old.next < r.next /\ r.next <= Len(r.req.outs) + 1
InTurn ==
    [][\A s \in Slots :
        /\ run[s].pc = "queued" /\ run'[s].pc = "queued" => Ahead(s)' \subseteq Ahead(s)
        /\ HasLock(s) /\ run'[s] # run[s] => Nearer(run'[s], run[s])]_vars
=============================================================================
