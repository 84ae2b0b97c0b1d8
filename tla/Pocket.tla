------------------------------- MODULE Pocket -------------------------------
(***************************************************************************)
(* The wallet: Pocket on top of NWPCPeer and NWPCBase, with the coin       *)
(* selection of Transaction.                                               *)
(*                                                                         *)
(* The wallet is one JavaScript process.  Each call of its interface and   *)
(* each event a relay hands over is a run; runs interleave at their        *)
(* awaits, and each action below is the code between two awaits.  The      *)
(* tokens of one issuer are modelled: the entries of other issuers are     *)
(* maps of their own.  A Map that is iterated while others write to it is  *)
(* a sequence the iterator follows (todo), whose head is the entry being   *)
(* restored; an iterator whose Map was replaced goes on over the old one   *)
(* (live = FALSE).                                                         *)
(***************************************************************************)
EXTENDS Integers, Sequences, FiniteSets, SequencesExt

CONSTANTS
    Seeds,          \* mnemonics
    FirstSeed,      \* the mnemonic the wallet was created with
    Foreign,        \* a recovery snapshot made by another wallet
    Amounts,        \* amounts of payments and transfers
    Slots,          \* runs that may be in progress at one time
    Workloads,      \* how often each operation happens, see Ops
    Main,           \* the wallet's own public key
    NoToken, NoEvent

(* The operations of the wallet's users, of its issuer and of the faults;  *)
(* "runs" bounds the runs in progress at one time, "most" what is paid.    *)
Ops == {"pay", "elsewhere", "import", "reconcile", "address", "transfer",
        "remove", "export", "restore", "eose", "crash", "fail", "runs", "most"}

ASSUME WorkloadsAssumption == Workloads \subseteq [Ops -> Nat]
ASSUME KeysAssumption ==
    /\ FirstSeed \in Seeds
    /\ Main \notin Seeds \X Nat
    /\ Amounts \subseteq Nat \ {0}

(* A single-use key is determined by the mnemonic and the path index.      *)
SingleUse == Seeds \X Nat
Address == SingleUse \cup {Main}
Token == [id: Nat, amount: Nat, lock: Address]

(* An entry of the index: a token, and which of the visits of a rebuild    *)
(* has listed it.                                                          *)
Entry == [tok: Token, visit: Nat \ {0}]
Once(S) == {[tok |-> t, visit |-> 1] : t \in S}
Listed(E) == {e.tok : e \in E}
Value(E) == MapThenSumSet(LAMBDA e : e.tok.amount, E)

(* A gift-wrapped message: a token, a spent notice, or the forge's refusal *)
(* of a spent input.  call is the request it answers, 0 for none.          *)
Event == [kind: {"token", "spent", "refused"}, tok: Token, to: Address, call: Nat]
Snapshot == [seed: Seeds, keys: SUBSET SingleUse, next: Nat]

ASSUME SentinelAssumption ==
    /\ NoToken \notin Token /\ NoEvent \notin Event
    /\ Foreign \in Snapshot /\ IsFiniteSet(Foreign.keys)

VARIABLES
    mem,        \* PocketState in memory
    disk,       \* the snapshot of PocketState that storage holds
    hd,         \* the mnemonic hdKey was made from
    up,         \* FALSE after a crash, until the wallet is created again
    run,        \* control state of each run
    listening,  \* keys the wallet is subscribed to
    oneShot,    \* those whose handler unsubscribes after one event
    pending,    \* requests with an entry in responseHandlers
    requests,   \* requests the wallet has published
    events,     \* messages that relays hold for the wallet
    consumed,   \* tokens the issuer has marked as spent
    issued,     \* how many tokens the issuer has made
    backups,    \* snapshots a user may restore
    handed,     \* single-use keys given to a caller
    left,       \* operations of the workload still to come
    durable,    \* history: keys given to a caller after their save landed
    overlapped, \* history: the tokens changed while another run rebuilt the indexes
    returned,   \* history: a token came back to a rebuild that had visited it
    rewound     \* history: restoreKeyMaterial lowered the key counter

wallet == <<mem, disk, hd, up, listening, oneShot, pending>>
world == <<requests, events, consumed, issued, backups, handed>>
history == <<durable, overlapped, returned, rewound>>
vars == <<wallet, run, world, left, history>>

(* index stands for tokenIndex and balances, which one pass computes;      *)
(* kept is a ghost: the tokens stored and not deleted since.               *)
PocketState == [tokens: Seq(Token), index: SUBSET Entry, keys: SUBSET SingleUse,
                next: Nat, seed: Seeds, processed: SUBSET Event, kept: SUBSET Token]

PCs == {"idle", "unwrapping", "storing", "deleting", "indexing", "saving", "replying",
        "subscribing", "building", "witnessing", "waiting", "reseeding", "rekeying"}
Thens == {"idle", "replying", "building", "witnessing", "handing", "restored"}
Run == [pc: PCs, then: Thens, ev: Event \cup {NoEvent}, tok: Token \cup {NoToken},
        addr: Address, todo: Seq(Token), canon: Seq(Token), listed: SUBSET Entry,
        live: BOOLEAN, ins: SUBSET Entry, amount: Nat, call: Nat, snap: Snapshot, top: Int]
Request == [ins: SUBSET Entry, amount: Nat, change: Int, to: Address, answered: BOOLEAN]

Empty == [tokens |-> <<>>, index |-> {}, keys |-> {}, next |-> 0, seed |-> FirstSeed,
          processed |-> {}, kept |-> {}]
Idle == [pc |-> "idle", then |-> "idle", ev |-> NoEvent, tok |-> NoToken, addr |-> Main,
         todo |-> <<>>, canon |-> <<>>, listed |-> {}, live |-> FALSE, ins |-> {}, amount |-> 0,
         call |-> 0, snap |-> Foreign, top |-> 0]

TypeOK ==
    /\ mem \in PocketState /\ disk \in PocketState
    /\ hd \in Seeds /\ up \in BOOLEAN
    /\ run \in [Slots -> Run]
    /\ oneShot \subseteq listening /\ listening \subseteq Address /\ pending \subseteq Nat
    /\ requests \in Seq(Request)
    /\ events \subseteq Event /\ consumed \subseteq Token /\ issued \in Nat
    /\ backups \subseteq Snapshot /\ handed \subseteq SingleUse
    /\ left \in [Ops -> Nat]
    /\ durable \subseteq SingleUse
    /\ overlapped \in BOOLEAN /\ returned \in BOOLEAN /\ rewound \in BOOLEAN

Init ==
    /\ mem = Empty /\ disk = Empty /\ hd = FirstSeed /\ up = TRUE
    /\ run = [s \in Slots |-> Idle]
    /\ listening = {Main} /\ oneShot = {} /\ pending = {}
    /\ requests = <<>> /\ events = {} /\ consumed = {} /\ issued = 0
    /\ backups = {Foreign} /\ handed = {}
    /\ left \in Workloads
    /\ durable = {} /\ overlapped = FALSE /\ returned = FALSE /\ rewound = FALSE
-----------------------------------------------------------------------------
At(s, pc) == up /\ run[s].pc = pc
Take(op) == left[op] > 0 /\ left' = [left EXCEPT ![op] = @ - 1]
Room == Cardinality({s \in Slots : run[s].pc # "idle"}) < left["runs"]
Begin(s, r) == At(s, "idle") /\ run' = [run EXCEPT ![s] = r]
Goto(s, pc) == run' = [run EXCEPT ![s].pc = pc]
(* Every save goes through NWPCBase.saveLock; the run goes on when its own *)
(* turn is over.                                                           *)
SaveThen(s, then) == run' = [run EXCEPT ![s].pc = "saving", ![s].then = then]
Highest(keys) == Max({k[2] : k \in keys} \cup {-1})
BumpedNext(keys, next) == Max({next, Cardinality(keys), Highest(keys) + 1})

(* The issuer pays the wallet at one of its keys.                          *)
Pay(to, amount) ==
    /\ Take("pay") /\ amount <= left["most"]
    /\ LET t == [id |-> issued, amount |-> amount, lock |-> to]
       IN events' = events \cup {[kind |-> "token", tok |-> t, to |-> to, call |-> 0]}
    /\ issued' = issued + 1
    /\ UNCHANGED <<wallet, run, requests, consumed, backups, handed, history>>

(* Another device that holds the same keys spends a token.                 *)
SpendElsewhere(t) ==
    /\ Take("elsewhere")
    /\ t \in mem.kept \ consumed
    /\ consumed' = consumed \cup {t}
    /\ UNCHANGED <<wallet, run, requests, events, issued, backups, handed, history>>

(* The forge handles a request: it consumes the inputs and sends a spent   *)
(* notice for each and the change, or refuses the request.                 *)
Answer(c) ==
    /\ c \in DOMAIN requests /\ ~requests[c].answered
    /\ LET r == requests[c]
           Notice(kind, t) == [kind |-> kind, tok |-> t, to |-> Main, call |-> c]
           ins == Listed(r.ins)
           change == [id |-> issued, amount |-> r.change, lock |-> r.to]
           doubled == \E e, f \in r.ins : e # f /\ e.tok = f.tok
       IN IF ins = {} \/ doubled \/ ins \cap consumed # {}
          THEN /\ events' = events \cup {Notice("refused", t) : t \in ins \cap consumed}
               /\ UNCHANGED <<consumed, issued>>
          ELSE /\ consumed' = consumed \cup ins
               /\ events' = events \cup {Notice("spent", t) : t \in ins}
                    \cup (IF r.change > 0
                          THEN {[kind |-> "token", tok |-> change, to |-> r.to, call |-> c]}
                          ELSE {})
               /\ issued' = IF r.change > 0 THEN issued + 1 ELSE issued
    /\ requests' = [requests EXCEPT ![c].answered = TRUE]
    /\ UNCHANGED <<wallet, run, backups, handed, left, history>>
-----------------------------------------------------------------------------
(* findOrRecoverSingleUseKeyByPubkey: the key is in the map, or the path   *)
(* indexes in use are searched for it.                                     *)
Recoverable(a) ==
    \/ a = Main \/ a \in mem.keys
    \/ a[1] = hd /\ a[2] < Max({mem.next, Cardinality(mem.keys)})
Recovered(A) == mem.keys \cup {a \in A \ {Main} : Recoverable(a)}

(* handleEvent: the duplicate check and the choice of the key.             *)
Deliver(s, e) ==
    /\ e \in events \ mem.processed /\ e.to \in listening
    /\ IF Recoverable(e.to)
       THEN /\ mem' = [mem EXCEPT !.keys = Recovered({e.to})]
            /\ Begin(s, [Idle EXCEPT !.pc = "unwrapping", !.ev = e, !.tok = e.tok])
       ELSE /\ mem' = [mem EXCEPT !.processed = @ \cup {e}]
            /\ Begin(s, [Idle EXCEPT !.pc = "saving", !.ev = e])
    /\ UNCHANGED <<disk, hd, up, listening, oneShot, pending, world, left, history>>

Held(t) == t \in ToSet(mem.tokens)

(* The event is marked before what it carries is stored.                   *)
Unwrapped(s) ==
    /\ At(s, "unwrapping")
    /\ mem' = [mem EXCEPT !.processed = @ \cup {run[s].ev}]
    /\ LET e == run[s].ev IN
       run' = [run EXCEPT ![s].then = "replying",
                 ![s].pc = CASE e.kind = "token" -> "storing"
                             [] e.kind = "spent" /\ Held(e.tok) -> "deleting"
                             [] OTHER -> "replying"]
    /\ UNCHANGED <<disk, hd, up, listening, oneShot, pending, world, left, history>>

(* A pending request is resolved; a refusal deletes the token it names.    *)
Reply(s) ==
    /\ At(s, "replying")
    /\ LET e == run[s].ev IN
       /\ pending' = pending \ {e.call}
       /\ IF e.kind = "refused" /\ e.call \in pending /\ Held(e.tok)
          THEN run' = [run EXCEPT ![s].pc = "deleting", ![s].then = "idle"]
          ELSE SaveThen(s, "idle")
    /\ UNCHANGED <<mem, disk, hd, up, listening, oneShot, world, left, history>>

(* A spent note on the issuer's public feed; it may come again.            *)
SpentNote(s, t) ==
    /\ t \in consumed /\ Held(t)
    /\ Begin(s, [Idle EXCEPT !.pc = "deleting", !.tok = t])
    /\ UNCHANGED <<wallet, world, left, history>>

ImportToken(s) ==
    /\ Take("import")
    /\ \E e \in events :
          /\ e.kind = "token" /\ ~Held(e.tok)
          /\ Begin(s, [Idle EXCEPT !.pc = "storing", !.tok = e.tok])
    /\ UNCHANGED <<wallet, world, history>>
-----------------------------------------------------------------------------
(* Rebuilding the indexes.  Iterators over the Map that is in use see what *)
(* is added, and skip what is deleted before they reach it.                *)
Rebuilding(s) == run[s].pc = "indexing"
Overlaps(s) == \E o \in Slots \ {s} : Rebuilding(o)
Without(q, t) ==
    IF \E i \in DOMAIN q : q[i] = t
    THEN RemoveAt(q, CHOOSE i \in DOMAIN q : q[i] = t) ELSE q
Added(r, t) == IF r.pc = "indexing" /\ r.live THEN [r EXCEPT !.todo = Append(@, t)] ELSE r
Deleted(r, t) ==
    IF r.pc = "indexing" /\ r.live
    THEN [r EXCEPT !.todo = <<Head(@)>> \o Without(Tail(@), t)] ELSE r
Detached(r) == [r EXCEPT !.live = FALSE]
Iterating(r, tokens) ==
    [r EXCEPT !.pc = "indexing", !.todo = tokens, !.canon = <<>>, !.listed = {}, !.live = TRUE]
Indexed(r) ==
    [r EXCEPT !.pc = "saving", !.todo = <<>>, !.canon = <<>>, !.listed = {}, !.live = FALSE]

(* The entry at the head is filed in the new Map, once, and listed in the  *)
(* new index, as often as it is visited.                                   *)
Visit(r) ==
    LET t == Head(r.todo)
        visit == 1 + Cardinality({e \in r.listed : e.tok = t})
    IN [r EXCEPT !.canon = IF t \in ToSet(@) THEN @ ELSE Append(@, t),
                 !.listed = @ \cup {[tok |-> t, visit |-> visit]}]
Passed(s, t) ==
    \E o \in Slots \ {s} :
        Rebuilding(o) /\ run[o].live /\ t \in ToSet(run[o].canon \o run[o].todo)

(* storeToken after the checks of hash and signature: duplicates are       *)
(* dropped, a new token is filed and the rebuild begins.                   *)
Store(s) ==
    /\ At(s, "storing")
    /\ LET t == run[s].tok
           tokens == Append(mem.tokens, t)
       IN IF ~Held(t)
          THEN /\ mem' = [mem EXCEPT !.tokens = tokens, !.kept = @ \cup {t}]
               /\ run' = [o \in Slots |-> IF o = s THEN Iterating(run[s], tokens)
                                          ELSE Added(run[o], t)]
               /\ overlapped' = (overlapped \/ Overlaps(s))
               /\ returned' = (returned \/ Passed(s, t))
          ELSE Goto(s, run[s].then) /\ UNCHANGED <<mem, overlapped, returned>>
    /\ UNCHANGED <<disk, hd, up, listening, oneShot, pending, world, left, durable, rewound>>

(* What reindexIssuerState does before its first await.                    *)
StartRebuild(s, tokens, runs) ==
    run' = [o \in Slots |->
              CASE o = s /\ tokens # <<>> -> Iterating(run[s], tokens)
                [] o = s /\ tokens = <<>> -> Indexed(run[s])
                [] o # s /\ tokens # <<>> -> runs[o]
                [] OTHER                  -> Detached(runs[o])]
IndexOf(tokens) == IF tokens = <<>> THEN {} ELSE mem.index

(* Mutant: a spent token is rebuilt from the map that still holds it.      *)
Delete_Reindexed(s) ==
    /\ At(s, "deleting")
    /\ mem' = [mem EXCEPT !.index = IndexOf(mem.tokens), !.kept = @ \ {run[s].tok}]
    /\ StartRebuild(s, mem.tokens, run)
    /\ UNCHANGED <<disk, hd, up, listening, oneShot, pending, world, left, history>>
Delete(s) ==
    /\ At(s, "deleting")
    /\ LET t == run[s].tok
           tokens == Without(mem.tokens, t)
       IN /\ mem' = [mem EXCEPT !.tokens = tokens, !.index = IndexOf(tokens),
                                !.kept = @ \ {t}]
          /\ StartRebuild(s, tokens, [o \in Slots |-> Deleted(run[o], t)])
    /\ overlapped' = (overlapped \/ Overlaps(s)) /\ UNCHANGED returned
    /\ UNCHANGED <<disk, hd, up, listening, oneShot, pending, world, left, durable, rewound>>

Reconcile(s) ==
    /\ At(s, "idle") /\ Take("reconcile")
    /\ mem' = [mem EXCEPT !.index = IndexOf(mem.tokens)]
    /\ StartRebuild(s, mem.tokens, run)
    /\ overlapped' = (overlapped \/ Overlaps(s)) /\ UNCHANGED returned
    /\ UNCHANGED <<disk, hd, up, listening, oneShot, pending, world, durable, rewound>>

(* One entry has been restored; after the last one the rebuilt maps are    *)
(* installed, all of them at once.                                         *)
Rebuild(s) ==
    /\ At(s, "indexing")
    /\ LET r == Visit(run[s]) IN
       IF Len(r.todo) > 1
       THEN /\ run' = [run EXCEPT ![s] = [r EXCEPT !.todo = Tail(@)]]
            /\ UNCHANGED mem
       ELSE /\ mem' = [mem EXCEPT !.tokens = r.canon, !.index = r.listed]
            /\ run' = [o \in Slots |-> IF o = s THEN Indexed(run[s]) ELSE Detached(run[o])]
    /\ UNCHANGED <<disk, hd, up, listening, oneShot, pending, world, left, history>>
-----------------------------------------------------------------------------
(* queueSaveState: a failed write is logged and swallowed.  When the       *)
(* handler of a derived key has returned, the key is unsubscribed.         *)
Saved(s, landed) ==
    LET r == run[s]
        given == CASE r.then \in {"handing", "building"} -> {r.addr}
                   [] r.then = "restored" -> r.snap.keys
                   [] OTHER -> {}
        heard == IF r.ev # NoEvent /\ r.then = "idle" THEN {r.ev.to} \cap oneShot ELSE {}
    IN
    /\ At(s, "saving")
    /\ IF landed THEN disk' = mem /\ UNCHANGED left ELSE Take("fail") /\ UNCHANGED disk
    /\ run' = [run EXCEPT ![s] = IF r.then \in {"idle", "handing", "restored"} THEN Idle
                                 ELSE [r EXCEPT !.pc = r.then]]
    /\ listening' = listening \ heard /\ oneShot' = oneShot \ heard
    /\ handed' = IF r.then = "handing" THEN handed \cup given ELSE handed
    /\ durable' = IF landed THEN durable \cup given ELSE durable
    /\ UNCHANGED <<mem, hd, up, pending, requests, events, consumed, issued,
                   backups, overlapped, returned, rewound>>

(* End of stored events on a subscription saves as well.                   *)
EndOfStoredEvents ==
    /\ up /\ Take("eose")
    /\ disk' = mem
    /\ UNCHANGED <<mem, hd, up, listening, oneShot, pending, run, world, history>>
-----------------------------------------------------------------------------
(* Mutant: the counter is raised only when the key is added.               *)
Derive_Late(s, r) ==
    /\ Begin(s, [r EXCEPT !.pc = "subscribing", !.addr = <<hd, mem.next>>])
    /\ UNCHANGED <<mem, disk, hd, up, listening, oneShot, pending, world, history>>
(* deriveSingleUseKey up to its first await takes an index.                *)
Derive(s, r) ==
    /\ Begin(s, [r EXCEPT !.pc = "subscribing", !.addr = <<hd, mem.next>>])
    /\ mem' = [mem EXCEPT !.next = @ + 1]
    /\ UNCHANGED <<disk, hd, up, listening, oneShot, pending, world, history>>

NewReceiveAddress(s) == Take("address") /\ Derive(s, [Idle EXCEPT !.then = "handing"])
Transfer(s, amount) ==
    Take("transfer") /\ Derive(s, [Idle EXCEPT !.then = "building", !.amount = amount])

(* Mutant: the counter is brought to the size of the map.                  *)
AddKey_Sized(s) ==
    /\ At(s, "subscribing")
    /\ LET keys == mem.keys \cup {run[s].addr} IN
       mem' = [mem EXCEPT !.keys = keys, !.next = Cardinality(keys)]
    /\ listening' = listening \cup {run[s].addr} /\ oneShot' = oneShot \cup {run[s].addr}
    /\ SaveThen(s, run[s].then)
    /\ UNCHANGED <<disk, hd, up, pending, world, left, history>>
(* The subscription is open: addSingleUseKey.                              *)
AddKey(s) ==
    /\ At(s, "subscribing")
    /\ LET keys == mem.keys \cup {run[s].addr} IN
       mem' = [mem EXCEPT !.keys = keys, !.next = BumpedNext(keys, @)]
    /\ listening' = listening \cup {run[s].addr} /\ oneShot' = oneShot \cup {run[s].addr}
    /\ SaveThen(s, run[s].then)
    /\ UNCHANGED <<disk, hd, up, pending, world, left, history>>

RemoveKey(s, a) ==
    /\ Take("remove") /\ a \in mem.keys
    /\ Begin(s, [Idle EXCEPT !.pc = "saving"])
    /\ mem' = [mem EXCEPT !.keys = @ \ {a}]
    /\ UNCHANGED <<disk, hd, up, listening, oneShot, pending, world, history>>

Export ==
    /\ up /\ Take("export")
    /\ backups' = backups \cup {[seed |-> mem.seed, keys |-> mem.keys, next |-> mem.next]}
    /\ UNCHANGED <<wallet, run, requests, events, consumed, issued, handed, history>>

(* restoreKeyMaterial: the mnemonic, then hdKey and the keys, then the     *)
(* counter, from a maximum taken before the keys were subscribed to.       *)
Restore(s, b) ==
    /\ Take("restore") /\ b \in backups
    /\ Begin(s, [Idle EXCEPT !.pc = "reseeding", !.snap = b])
    /\ mem' = [mem EXCEPT !.seed = b.seed]
    /\ UNCHANGED <<disk, hd, up, listening, oneShot, pending, world, history>>

RestoreKeys(s) ==
    /\ At(s, "reseeding")
    /\ LET b == run[s].snap IN
       /\ hd' = b.seed
       /\ mem' = [mem EXCEPT !.keys = @ \cup b.keys]
       /\ listening' = listening \cup b.keys
       /\ oneShot' = oneShot \ (b.keys \ mem.keys)
       /\ run' = [run EXCEPT ![s].pc = "rekeying", ![s].top = Highest(mem.keys \cup b.keys)]
    /\ UNCHANGED <<disk, up, pending, world, left, history>>

RestoreCounter(s) ==
    /\ At(s, "rekeying")
    /\ LET b == run[s].snap
           next == Max({b.next, Cardinality(mem.keys), run[s].top + 1})
       IN /\ mem' = [mem EXCEPT !.next = next]
          /\ rewound' = (rewound \/ next < mem.next)
    /\ SaveThen(s, "restored")
    /\ UNCHANGED <<disk, hd, up, listening, oneShot, pending, world, left,
                   durable, overlapped, returned>>
-----------------------------------------------------------------------------
(* Transaction.greedy: the sums a search over the counts of each           *)
(* denomination reaches, a branch ending as soon as it covers the target.  *)
Reached_Strict(S, target) ==
    LET D == SetToSeq({e.tok.amount : e \in S})
        sums[i \in Nat \ {0}] == [sum \in Nat |->
            IF sum > target THEN {sum}
            ELSE IF i > Len(D) THEN {}
            ELSE UNION {sums[i + 1][sum + n * D[i]] :
                          n \in 0..Cardinality({e \in S : e.tok.amount = D[i]})}]
    IN sums[1][0]
Reached(S, target) ==
    LET D == SetToSeq({e.tok.amount : e \in S})
        sums[i \in Nat \ {0}] == [sum \in Nat |->
            IF sum >= target THEN {sum}
            ELSE IF i > Len(D) THEN {}
            ELSE UNION {sums[i + 1][sum + n * D[i]] :
                          n \in 0..Cardinality({e \in S : e.tok.amount = D[i]})}]
    IN sums[1][0]

(* Transaction.build: the inputs it may choose.  Which of several choices  *)
(* with the best sum depends on the order of a Map and is left open; when  *)
(* the tokens do not cover the amount there are no inputs.                 *)
Selections(amount) ==
    LET sums == Reached(mem.index, amount) IN
    IF sums = {} THEN {{}} ELSE {S \in SUBSET mem.index : Value(S) = Min(sums)}
Change(S, amount) == IF S = {} THEN amount ELSE Value(S) - amount

Build(s) ==
    /\ At(s, "building")
    /\ \E S \in Selections(run[s].amount) :
          run' = [run EXCEPT ![s] = IF mem.index # {} /\ Listed(S) \subseteq ToSet(mem.tokens)
                                    THEN [run[s] EXCEPT !.pc = "witnessing", !.ins = S]
                                    ELSE Idle]
    /\ UNCHANGED <<wallet, world, left, history>>

(* sendTx: a key is found or recovered for every lock, then the request is *)
(* registered and published.                                               *)
Witness(s) ==
    /\ At(s, "witnessing")
    /\ LET locks == {e.tok.lock : e \in run[s].ins}
           c == Len(requests) + 1
           r == [ins |-> run[s].ins, amount |-> run[s].amount, answered |-> FALSE,
                 change |-> Change(run[s].ins, run[s].amount), to |-> run[s].addr]
       IN CASE Recovered(locks) # mem.keys ->
                 /\ mem' = [mem EXCEPT !.keys = Recovered(locks)]
                 /\ SaveThen(s, "witnessing") /\ UNCHANGED <<requests, pending>>
            [] Recovered(locks) = mem.keys /\ \E a \in locks : ~Recoverable(a) ->
                 run' = [run EXCEPT ![s] = Idle] /\ UNCHANGED <<mem, requests, pending>>
            [] OTHER ->
                 /\ requests' = Append(requests, r) /\ pending' = pending \cup {c}
                 /\ run' = [run EXCEPT ![s].pc = "waiting", ![s].call = c]
                 /\ UNCHANGED mem
    /\ UNCHANGED <<disk, hd, up, listening, oneShot, events, consumed, issued, backups,
                   handed, left, history>>

(* The reply has resolved the request, or its timer runs out.              *)
Settle(s) ==
    /\ At(s, "waiting")
    /\ pending' = pending \ {run[s].call}
    /\ run' = [run EXCEPT ![s] = Idle]
    /\ UNCHANGED <<mem, disk, hd, up, listening, oneShot, world, left, history>>
-----------------------------------------------------------------------------
Crash ==
    /\ up /\ Take("crash")
    /\ up' = FALSE
    /\ run' = [s \in Slots |-> Idle]
    /\ pending' = {} /\ listening' = {} /\ oneShot' = {}
    /\ UNCHANGED <<mem, disk, hd, world, history>>

(* Mutant: the indexes are taken from storage as they are.                 *)
Load_Trusting ==
    /\ ~up /\ up' = TRUE
    /\ mem' = [disk EXCEPT !.next = BumpedNext(disk.keys, @)]
    /\ hd' = disk.seed
    /\ listening' = disk.keys \cup {Main}
    /\ UNCHANGED <<disk, run, oneShot, pending, world, left, history>>
(* loadPocketState runs before any event can arrive.                       *)
Load ==
    /\ ~up /\ up' = TRUE
    /\ mem' = [disk EXCEPT !.index = Once(ToSet(disk.tokens)),
                           !.next = BumpedNext(disk.keys, @)]
    /\ hd' = disk.seed
    /\ listening' = disk.keys \cup {Main}
    /\ UNCHANGED <<disk, run, oneShot, pending, world, left, history>>

World ==
    \/ \E to \in handed \cup {Main}, amount \in Amounts : Pay(to, amount)
    \/ \E t \in mem.kept : SpendElsewhere(t)
    \/ \E c \in DOMAIN requests : Answer(c)
    \/ EndOfStoredEvents \/ Export \/ Crash \/ Load
Call(s) ==
    /\ Room
    /\ \/ \E e \in events : Deliver(s, e)
       \/ \E t \in consumed : SpentNote(s, t)
       \/ ImportToken(s) \/ Reconcile(s) \/ NewReceiveAddress(s)
       \/ \E amount \in Amounts : Transfer(s, amount)
       \/ \E a \in mem.keys : RemoveKey(s, a)
       \/ \E b \in backups : Restore(s, b)
Step(s) ==
    \/ Unwrapped(s) \/ Reply(s) \/ Store(s) \/ Delete(s) \/ Rebuild(s)
    \/ \E landed \in BOOLEAN : Saved(s, landed)
    \/ AddKey(s) \/ RestoreKeys(s) \/ RestoreCounter(s)
    \/ Build(s) \/ Witness(s) \/ Settle(s)

Next == World \/ \E s \in Slots : Call(s) \/ Step(s)
Spec == Init /\ [][Next]_vars
-----------------------------------------------------------------------------
(* Every copy holds finitely many keys and each token once.                *)
CopyOK(state) == IsInjective(state.tokens) /\ IsFiniteSet(state.keys)
CopiesOK ==
    /\ CopyOK(mem) /\ CopyOK(disk) /\ IsFiniteSet(mem.index)
    /\ \A b \in backups : IsFiniteSet(b.keys)

(* A run has what its next step takes.  What a rebuild lists is what it    *)
(* files, and it has an entry to restore until it ends.  As long as no     *)
(* token comes back to one that has visited it, none is visited twice.     *)
ControlOK(r) ==
    /\ r.pc = "unwrapping" => r.ev # NoEvent
    /\ r.pc \in {"unwrapping", "storing"} => r.tok # NoToken
    /\ r.pc \in {"idle", "unwrapping", "storing", "deleting", "indexing", "replying"} =>
          r.then \in {"idle", "replying"}
    /\ r.pc = "subscribing" => r.then \in {"handing", "building"}
    /\ r.then \in {"handing", "building"} => r.addr # Main
    /\ r.pc = "indexing" => r.todo # <<>>
RunOK(r) ==
    /\ ControlOK(r)
    /\ IsInjective(r.canon) /\ Listed(r.listed) = ToSet(r.canon)
    /\ IsFiniteSet(r.listed) /\ IsFiniteSet(r.ins) /\ IsFiniteSet(r.snap.keys)
VisitedOnce(r) == r.listed = Once(ToSet(r.canon)) /\ IsInjective(r.canon \o r.todo)
RunsOK ==
    /\ \A s \in Slots : RunOK(run[s]) /\ (~returned => VisitedOnce(run[s]))
    /\ ~up => listening = {} /\ \A s \in Slots : run[s] = Idle

(* Balances and indexes are those of the tokens held whenever no rebuild   *)
(* is under way, however rebuilds, deliveries, imports and crashes         *)
(* interleaved before, and count each token once unless a deleted token    *)
(* was stored again behind a rebuild that had visited it                   *)
(* (reindexIssuerState).                                                   *)
Settled == up /\ \A s \in Slots : ~Rebuilding(s)
IndexAgrees ==
    Settled => /\ Listed(mem.index) = ToSet(mem.tokens)
               /\ ~returned => mem.index = Once(ToSet(mem.tokens))

(* Without overlap, one rebuild goes over the tokens in use, which are the *)
(* ones kept, in memory and in storage.                                    *)
KeptOK ==
    ~overlapped =>
        /\ ToSet(mem.tokens) = mem.kept /\ ToSet(disk.tokens) = disk.kept
        /\ \A s \in Slots : Rebuilding(s) =>
              /\ ~Overlaps(s)
              /\ run[s].canon \o run[s].todo = mem.tokens

(* The counter is ahead of every key that was derived and of the keys that *)
(* a snapshot brings back, and the stored counter of those that were saved *)
(* when they were given out.                                               *)
Ahead(A, next) == \A a \in A \ {Main} : a[2] < next
RunKeysOK(r, next) ==
    /\ Ahead({r.addr}, next)
    /\ r.pc = "rekeying" => Ahead(r.snap.keys, r.top + 1)
    /\ r.pc = "saving" /\ r.then = "restored" => Ahead(r.snap.keys, next)
KeysOK ==
    ~rewound =>
        /\ Ahead(durable, disk.next) /\ (up => Ahead(durable, mem.next))
        /\ \A s \in Slots : RunKeysOK(run[s], mem.next)

IInv == TypeOK /\ CopiesOK /\ RunsOK /\ IndexAgrees /\ KeptOK /\ KeysOK
-----------------------------------------------------------------------------
(* When no two rebuilds of an issuer overlapped, the wallet holds exactly  *)
(* what it stored and did not delete: no token is lost and no spent token  *)
(* comes back, across saves, crashes and key changes (storeToken,          *)
(* deleteToken, reindexIssuerState).                                       *)
KeepsTokens ==
    Settled /\ ~overlapped => ToSet(mem.tokens) = mem.kept

(* The key a run derives is neither one whose save landed, even before a   *)
(* crash, nor one another run is about to hand out, unless a restored      *)
(* snapshot turned the counter back (deriveSingleUseKey, addSingleUseKey,  *)
(* loadPocketState).                                                       *)
AddressFresh ==
    [][~rewound => \A s \in Slots :
         run[s].pc = "idle" /\ run'[s].pc = "subscribing" =>
             run'[s].addr \notin durable \cup {run[o].addr : o \in Slots}]_vars

(* A single-use key of the current mnemonic that a caller was given stays  *)
(* usable: it is in the map or within the range that recovery searches,    *)
(* even after removeSingleUseKey and a crash                               *)
(* (findOrRecoverSingleUseKeyByPubkey).                                    *)
AddressReachable ==
    up /\ ~rewound => \A a \in durable : a[1] = hd /\ hd = mem.seed => Recoverable(a)

(* Coin selection finds the least sum of held tokens that covers the       *)
(* amount, and finds none only if all of them together do not cover it     *)
(* (Transaction.greedy).                                                   *)
SelectionMinimal ==
    \A amount \in Amounts :
        LET covering == {Value(S) : S \in SUBSET mem.index} \cap {v \in Nat : v >= amount}
            sums == Reached(mem.index, amount)
        IN IF covering = {} THEN sums = {} ELSE sums # {} /\ Min(sums) = Min(covering)
=============================================================================
