------------------------ MODULE NonFungibleForge_proofs ------------------------
(***************************************************************************)
(* Proofs about NonFungibleForge, for every supply, every set of users and *)
(* of handler runs, and any number of requests and faults.                 *)
(***************************************************************************)
EXTENDS NonFungibleForge, FiniteSetTheorems, WellFoundedInduction, TLAPS

LEMMA IdleType == IdleRun \in Run
  BY DEF IdleRun, Run, PCs

(* The writes before a save stay, and the save comes last.                 *)
LEMMA Appended ==
    ASSUME TypeOK, NEW w \in Write, writes' = Append(writes, w)
    PROVE  /\ writes' \in Seq(Write)
           /\ DOMAIN writes' = 1..(Len(writes) + 1) /\ Len(writes) \in Nat
           /\ DOMAIN writes = 1..Len(writes)
           /\ \A i \in DOMAIN writes : writes'[i] = writes[i]
           /\ writes'[Len(writes) + 1] = w
  BY DEF TypeOK

(* The writes after the oldest move up.                                    *)
LEMMA Removed ==
    ASSUME TypeOK, writes # <<>>
    PROVE  /\ Head(writes) = writes[1] /\ writes[1] \in Write /\ 1 \in DOMAIN writes
           /\ Tail(writes) \in Seq(Write) /\ Len(Tail(writes)) = Len(writes) - 1
           /\ Len(writes) \in Nat \ {0}
           /\ DOMAIN writes = 1..Len(writes)
           /\ DOMAIN Tail(writes) = 1..(Len(writes) - 1)
           /\ \A i \in DOMAIN Tail(writes) : Tail(writes)[i] = writes[i + 1]
  <1>1. writes \in Seq(Write)
    BY DEF TypeOK
  <1>2. Len(writes) \in Nat /\ DOMAIN writes = 1..Len(writes)
    BY <1>1
  <1>3. Len(writes) # 0
    BY <1>1
  <1> QED
    BY <1>1, <1>2, <1>3

(* Whoever has the lock leaves the queue, and the others stay in it.       *)
LEMMA Dequeued ==
    ASSUME TypeOK, LockOK, queue # <<>>
    PROVE  /\ Head(queue) = queue[1] /\ 1 \in DOMAIN queue /\ queue[1] \in Slots
           /\ Tail(queue) \in Seq(Slots) /\ IsInjective(Tail(queue))
           /\ DOMAIN queue = 1..Len(queue) /\ Len(queue) \in Nat \ {0}
           /\ DOMAIN Tail(queue) = 1..(Len(queue) - 1)
           /\ \A i \in DOMAIN Tail(queue) : /\ i + 1 \in DOMAIN queue
                                            /\ Tail(queue)[i] = queue[i + 1]
                                            /\ Tail(queue)[i] # Head(queue)
  <1>1. queue \in Seq(Slots) /\ IsInjective(queue)
    BY DEF TypeOK, LockOK
  <1>2. Len(queue) \in Nat /\ DOMAIN queue = 1..Len(queue)
    BY <1>1
  <1>3. Len(queue) # 0
    BY <1>1
  <1>4. /\ Head(queue) = queue[1] /\ 1 \in DOMAIN queue /\ queue[1] \in Slots
        /\ Tail(queue) \in Seq(Slots) /\ DOMAIN Tail(queue) = 1..(Len(queue) - 1)
        /\ \A i \in DOMAIN Tail(queue) : i + 1 \in DOMAIN queue /\ Tail(queue)[i] = queue[i + 1]
    BY <1>1, <1>2, <1>3
  <1>5. \A i, j \in DOMAIN queue : queue[i] = queue[j] => i = j
    BY <1>1 DEF IsInjective
  <1>6. ASSUME NEW i \in DOMAIN Tail(queue) PROVE Tail(queue)[i] # Head(queue)
    <2>1. i + 1 \in DOMAIN queue /\ i + 1 # 1 /\ Tail(queue)[i] = queue[i + 1]
      BY <1>4
    <2> QED
      BY <1>4, <1>5, <2>1
  <1>7. ASSUME NEW i \in DOMAIN Tail(queue), NEW j \in DOMAIN Tail(queue),
               Tail(queue)[i] = Tail(queue)[j]
        PROVE  i = j
    <2>1. /\ i + 1 \in DOMAIN queue /\ j + 1 \in DOMAIN queue
          /\ queue[i + 1] = queue[j + 1]
      BY <1>4, <1>7
    <2>2. i + 1 = j + 1
      BY <1>5, <2>1
    <2>3. i \in Nat /\ j \in Nat
      BY <1>4, <1>2
    <2> QED
      BY <2>2, <2>3
  <1>8. IsInjective(Tail(queue))
    BY <1>7 DEF IsInjective
  <1> QED
    BY <1>2, <1>3, <1>4, <1>6, <1>8

(* One run changes and the others do not.                                  *)
Only(s) == run' \in [Slots -> Run] /\ \A x \in Slots \ {s} : run'[x] = run[x]

LEMMA Changed ==
    ASSUME TypeOK, NEW s \in Slots, NEW r \in Run, run' = [run EXCEPT ![s] = r]
    PROVE  Only(s) /\ run'[s] = r
  BY DEF Only, TypeOK

LEMMA Moved ==
    ASSUME TypeOK, NEW s \in Slots, NEW pc \in PCs, Goto(s, pc)
    PROVE  /\ Only(s) /\ run'[s].pc = pc /\ run'[s].req = run[s].req
           /\ run'[s].used = run[s].used /\ run'[s].next = run[s].next
           /\ run'[s].old = run[s].old /\ run'[s].new = run[s].new
<1> DEFINE r == [run[s] EXCEPT !.pc = pc]
<1>1. run[s] \in Run
  BY DEF TypeOK
<1>2. /\ r \in Run /\ r.pc = pc /\ r.req = run[s].req /\ r.used = run[s].used
      /\ r.next = run[s].next /\ r.old = run[s].old /\ r.new = run[s].new
  BY <1>1 DEF Run
<1>3. run' = [run EXCEPT ![s] = r]
  BY DEF Goto
<1> HIDE DEF r
<1> QED
  BY <1>2, <1>3, Changed

LEMMA Ended ==
    ASSUME TypeOK, NEW s \in Slots, End(s)
    PROVE  Only(s) /\ run'[s] = IdleRun /\ run'[s].pc = "idle"
<1>1. Only(s) /\ run'[s] = IdleRun
  BY Changed, IdleType DEF End
<1> QED
  BY <1>1 DEF IdleRun

LEMMA SavedState ==
    ASSUME TypeOK, NEW by \in Slots \cup {"queue"}, NEW state \in ForgeState, Save(by, state)
    PROVE  /\ writes' \in Seq(Write)
           /\ writes' = Append(writes, [by |-> by, snap |-> state])
<1>1. [by |-> by, snap |-> state] \in Write
  BY DEF Write
<1> QED
  BY <1>1, Appended DEF Save

(* A run that waits for no write has none in storage.                      *)
LEMMA NotWaiting ==
    ASSUME WritersOK, NEW s \in Slots, run[s].pc \notin SavingPCs
    PROVE  Saved(s)
  BY IdsAssumption DEF WritersOK, Saved

-----------------------------------------------------------------------------
(* What every step of a run has in common: it waits for no write, spends   *)
(* tokens inside the lock only, and releases the token it was to send.     *)
RunStep(s) ==
    /\ up /\ up' /\ disk' = disk /\ UNCHANGED config /\ Only(s) /\ Saved(s)
    /\ NoLater(mem, mem') /\ (mem'.spent = mem.spent \/ HasLock(s))
    /\ \/ writes' = writes
       \/ writes' = Append(writes, [by |-> s, snap |-> mem']) /\ run'[s].pc \in SavingPCs
    /\ \/ released' = released
       \/ released' = released \cup Handed(run[s].new) /\ run[s].pc \in {"minting", "resaving"}

(* How a step of a run leaves the queue of the lock.                       *)
InQueue == CriticalPCs \cup {"queued"}
LockStep(s) ==
    \/ /\ queue' = queue
       /\ run'[s].pc \in CriticalPCs => HasLock(s)
       /\ run[s].pc \notin InQueue \/ run'[s].pc \in InQueue
    \/ HasLock(s) /\ queue' = Tail(queue) /\ run'[s].pc \notin InQueue
    \/ queue' = Append(queue, s) /\ run[s].pc = "received" /\ run'[s].pc = "queued"

(* How it changes the supply.                                              *)
SupplyStep(s) ==
    \/ mem'.circulating <= mem.circulating /\ run'[s].pc # "building"
    \/ mem'.circulating = mem.circulating /\ WithinSupply
    \/ /\ mem'.circulating = mem.circulating + 1
       /\ run[s].pc = "building" /\ run'[s].pc # "building"

LEMMA LockKept ==
    ASSUME TypeOK, LockOK, NEW s \in Slots, up', Only(s), LockStep(s)
    PROVE  LockOK'
<1>1. up' /\ \A x \in Slots \ {s} : run'[x] = run[x]
  BY DEF Only
<1>2. /\ \A i, j \in DOMAIN queue : queue[i] = queue[j] => i = j
      /\ \A i \in DOMAIN queue : queue[i] \in Slots /\ run[queue[i]].pc \in InQueue
      /\ \A x \in Slots : run[x].pc \in CriticalPCs => HasLock(x)
      /\ queue \in Seq(Slots)
  BY DEF LockOK, IsInjective, InQueue, TypeOK
<1>3. CASE /\ queue' = queue
           /\ run'[s].pc \in CriticalPCs => HasLock(s)
           /\ run[s].pc \notin InQueue \/ run'[s].pc \in InQueue
  <2>1. \A i \in DOMAIN queue : run'[queue[i]].pc \in InQueue
    BY <1>1, <1>2, <1>3
  <2>2. \A x \in Slots : run'[x].pc \in CriticalPCs => HasLock(x)'
    BY <1>1, <1>2, <1>3 DEF HasLock
  <2>3. IsInjective(queue)'
    BY <1>3 DEF LockOK
  <2> QED
    BY <1>1, <1>3, <2>1, <2>2, <2>3 DEF LockOK, InQueue
<1>4. CASE HasLock(s) /\ queue' = Tail(queue) /\ run'[s].pc \notin InQueue
  <2>1. /\ Head(queue) = s /\ queue # <<>>
        /\ IsInjective(Tail(queue))
        /\ \A i \in DOMAIN Tail(queue) : /\ i + 1 \in DOMAIN queue
                                         /\ Tail(queue)[i] = queue[i + 1]
                                         /\ Tail(queue)[i] # s
    BY <1>4, Dequeued DEF HasLock
  <2>2. \A i \in DOMAIN Tail(queue) : run'[Tail(queue)[i]].pc \in InQueue
    BY <1>1, <1>2, <2>1
  <2>3. \A x \in Slots : run'[x].pc \notin CriticalPCs
    BY <1>1, <1>2, <1>4, <2>1 DEF HasLock, InQueue
  <2> QED
    BY <1>1, <1>4, <2>1, <2>2, <2>3 DEF LockOK, InQueue
<1>5. CASE queue' = Append(queue, s) /\ run[s].pc = "received" /\ run'[s].pc = "queued"
  <2>1. /\ DOMAIN queue' = 1..(Len(queue) + 1) /\ DOMAIN queue = 1..Len(queue)
        /\ \A i \in DOMAIN queue : queue'[i] = queue[i]
        /\ queue'[Len(queue) + 1] = s /\ Len(queue) \in Nat
    BY <1>2, <1>5
  <2>2. \A i \in DOMAIN queue : queue[i] # s
    BY <1>2, <1>5 DEF InQueue, CriticalPCs
  <2>3. \A i \in DOMAIN queue' : i \in DOMAIN queue \/ i = Len(queue) + 1
    BY <2>1
  <2>4. \A i, j \in DOMAIN queue' : queue'[i] = queue'[j] => i = j
    BY <1>2, <2>1, <2>2, <2>3
  <2>5. \A i \in DOMAIN queue' : run'[queue'[i]].pc \in InQueue
    BY <1>1, <1>2, <1>5, <2>1, <2>2, <2>3 DEF InQueue
  <2>6. \A x \in Slots : HasLock(x) => HasLock(x)'
    <3>1. queue # <<>> => queue' # <<>> /\ Head(queue') = Head(queue)
      BY <1>2, <1>5
    <3> QED
      BY <3>1 DEF HasLock
  <2>7. \A x \in Slots : run'[x].pc \in CriticalPCs => HasLock(x)'
    BY <1>1, <1>2, <1>5, <2>6 DEF CriticalPCs
  <2> QED
    BY <1>1, <2>4, <2>5, <2>7 DEF LockOK, InQueue, IsInjective
<1> QED
  BY <1>3, <1>4, <1>5 DEF LockStep

LEMMA SupplyKept ==
    ASSUME TypeOK, TypeOK', OverrunBounded, NEW s \in Slots, up, up', UNCHANGED config,
           Only(s), SupplyStep(s)
    PROVE  OverrunBounded'
<1> DEFINE B == {x \in Slots : run[x].pc = "building"}
           C == {x \in Slots : run'[x].pc = "building"}
           n == Cardinality(Slots)
<1>1. /\ IsFiniteSet(B) /\ IsFiniteSet(C) /\ n \in Nat
      /\ Cardinality(B) \in Nat /\ Cardinality(C) \in Nat /\ Cardinality(C) <= n
  BY BoundsAssumption, FS_Subset, FS_CardinalityType
<1>2. \A x \in Slots \ {s} : run'[x] = run[x]
  BY DEF Only
<1>3. /\ totalSupply' = totalSupply /\ totalSupply \in Nat /\ up /\ up'
      /\ mem.circulating \in Nat /\ mem'.circulating \in Nat
  BY BoundsAssumption DEF config, TypeOK, ForgeState
<1>4. totalSupply > 0 => mem.circulating + Cardinality(B) <= totalSupply + n - 1
  BY <1>3 DEF OverrunBounded
<1>5. SUFFICES ASSUME totalSupply > 0
               PROVE  mem'.circulating + Cardinality(C) <= totalSupply + n - 1
  BY <1>3 DEF OverrunBounded
<1>6. CASE mem'.circulating <= mem.circulating /\ run'[s].pc # "building"
  <2>1. C \subseteq B
    BY <1>2, <1>6
  <2>2. Cardinality(C) <= Cardinality(B)
    BY <1>1, <2>1, FS_Subset
  <2> HIDE DEF B, C, n
  <2> QED
    BY <1>1, <1>3, <1>4, <1>5, <1>6, <2>2
<1>7. CASE mem'.circulating = mem.circulating /\ WithinSupply
  <2> HIDE DEF B, C, n
  <2> QED
    BY <1>1, <1>3, <1>5, <1>7 DEF WithinSupply
<1>8. CASE /\ mem'.circulating = mem.circulating + 1
           /\ run[s].pc = "building" /\ run'[s].pc # "building"
  <2>1. C = B \ {s} /\ s \in B
    BY <1>2, <1>8
  <2>2. Cardinality(C) = Cardinality(B) - 1
    BY <1>1, <2>1, FS_RemoveElement
  <2> HIDE DEF B, C, n
  <2> QED
    BY <1>1, <1>3, <1>4, <1>5, <1>8, <2>2
<1> QED
  BY <1>6, <1>7, <1>8 DEF SupplyStep

LEMMA MemLimited ==
    ASSUME TypeOK, OverrunBounded, up
    PROVE  Limited(mem)
<1> DEFINE B == {x \in Slots : run[x].pc = "building"}
           n == Cardinality(Slots)
<1>1. IsFiniteSet(B) /\ n \in Nat /\ Cardinality(B) \in Nat
  BY BoundsAssumption, FS_Subset, FS_CardinalityType
<1>2. totalSupply > 0 => mem.circulating + Cardinality(B) <= totalSupply + n - 1
  BY DEF OverrunBounded
<1>3. totalSupply \in Nat /\ mem.circulating \in Nat
  BY BoundsAssumption DEF TypeOK, ForgeState
<1>4. totalSupply > 0 => mem.circulating <= totalSupply + n - 1
  <2> HIDE DEF B, n
  <2> QED
    BY <1>1, <1>2, <1>3
<1> QED
  BY <1>4 DEF Limited

(* The saved states stay in order when memory grows, and when it is saved. *)
LEMMA StoreGrows ==
    ASSUME TypeOK, TypeOK', up, StoreOK, NoLater(mem, mem'), disk' = disk, UNCHANGED config,
           NEW by, Limited(mem)',
           writes' = writes \/ writes' = Append(writes, [by |-> by, snap |-> mem']),
           by \in Slots \cup {"queue"}
    PROVE  StoreOK'
<1>1. /\ NoLater(disk, mem)
      /\ \A i \in DOMAIN writes :
            /\ NoLater(disk, writes[i].snap) /\ NoLater(writes[i].snap, mem)
            /\ \A j \in DOMAIN writes : i <= j => NoLater(writes[i].snap, writes[j].snap)
      /\ Limited(disk) /\ \A i \in DOMAIN writes : Limited(writes[i].snap)
  BY DEF StoreOK
<1>2. /\ disk \in ForgeState /\ mem \in ForgeState /\ mem' \in ForgeState
      /\ \A i \in DOMAIN writes : writes[i] \in Write
  BY DEF TypeOK
<1>3. /\ NoLater(disk, mem')
      /\ \A i \in DOMAIN writes : NoLater(writes[i].snap, mem')
  BY <1>1, <1>2 DEF NoLater, ForgeState, Write
<1>4. NoLater(mem', mem')
  BY <1>2 DEF NoLater, ForgeState
<1>5. /\ Limited(disk)' /\ Limited(mem)'
      /\ \A i \in DOMAIN writes : totalSupply' > 0 =>
            writes[i].snap.circulating <= totalSupply' + Cardinality(Slots) - 1
  BY <1>1 DEF Limited, config
<1>6. CASE writes' = writes
  BY <1>1, <1>3, <1>5, <1>6 DEF StoreOK, Limited
<1>7. CASE writes' = Append(writes, [by |-> by, snap |-> mem'])
  <2>1. [by |-> by, snap |-> mem'] \in Write
    BY <1>2 DEF Write
  <2>2. /\ DOMAIN writes' = 1..(Len(writes) + 1) /\ Len(writes) \in Nat
        /\ DOMAIN writes = 1..Len(writes)
        /\ \A i \in DOMAIN writes : writes'[i] = writes[i]
        /\ writes'[Len(writes) + 1].snap = mem'
    BY <1>7, <2>1, Appended
  <2>3. \A i \in DOMAIN writes' : i \in DOMAIN writes \/ i = Len(writes) + 1
    BY <2>2
  <2>4. \A i \in DOMAIN writes' : NoLater(disk, writes'[i].snap) /\ NoLater(writes'[i].snap, mem')
    BY <1>1, <1>3, <1>4, <2>2, <2>3
  <2>5. ASSUME NEW i \in DOMAIN writes', NEW j \in DOMAIN writes', i <= j
        PROVE  NoLater(writes'[i].snap, writes'[j].snap)
    <3>1. CASE j \in DOMAIN writes
      <4>1. i \in DOMAIN writes
        BY <2>2, <2>5, <3>1
      <4> QED
        BY <1>1, <2>2, <2>5, <3>1, <4>1
    <3>2. CASE j = Len(writes) + 1
      BY <2>2, <2>4, <3>2
    <3> QED
      BY <2>3, <3>1, <3>2
  <2>6. \A i \in DOMAIN writes' : totalSupply' > 0 =>
            writes'[i].snap.circulating <= totalSupply' + Cardinality(Slots) - 1
    BY <1>5, <2>2, <2>3 DEF Limited
  <2> QED
    BY <1>3, <1>5, <2>4, <2>5, <2>6 DEF StoreOK, Limited
<1> QED
  BY <1>6, <1>7

LEMMA StoreKept ==
    ASSUME TypeOK, TypeOK', WritersOK, StoreOK, OverrunBounded', NEW s \in Slots, RunStep(s)
    PROVE  WritersOK' /\ StoreOK'
<1>1. /\ up /\ up' /\ disk' = disk /\ UNCHANGED config /\ NoLater(mem, mem')
      /\ Saved(s) /\ \A x \in Slots \ {s} : run'[x] = run[x]
      /\ \/ writes' = writes
         \/ writes' = Append(writes, [by |-> s, snap |-> mem']) /\ run'[s].pc \in SavingPCs
  BY DEF RunStep, Only
<1>2. Limited(mem)'
  <2>1. (TypeOK /\ OverrunBounded /\ up => Limited(mem))'
    BY MemLimited, PTL
  <2> QED
    BY <1>1, <2>1
<1>3. StoreOK'
  BY <1>1, <1>2, StoreGrows
<1>4. \A i \in DOMAIN writes : writes[i] \in Write /\ writes[i].by # s
  BY <1>1 DEF TypeOK, Saved
<1>5. \A i \in DOMAIN writes : writes[i].by # "queue" =>
          /\ writes[i].by \in Slots \ {s}
          /\ run'[writes[i].by].pc \in SavingPCs
          /\ \A j \in DOMAIN writes : writes[j].by = writes[i].by => i = j
  BY <1>1, <1>4 DEF Write, WritersOK
<1>6. CASE writes' = writes
  BY <1>3, <1>5, <1>6 DEF WritersOK
<1>7. CASE writes' = Append(writes, [by |-> s, snap |-> mem']) /\ run'[s].pc \in SavingPCs
  <2>1. [by |-> s, snap |-> mem'] \in Write
    BY DEF TypeOK, Write
  <2>2. /\ DOMAIN writes' = 1..(Len(writes) + 1) /\ Len(writes) \in Nat
        /\ DOMAIN writes = 1..Len(writes)
        /\ \A i \in DOMAIN writes : writes'[i] = writes[i]
        /\ writes'[Len(writes) + 1].by = s
    BY <1>7, <2>1, Appended
  <2>3. \A i \in DOMAIN writes' : i \in DOMAIN writes \/ i = Len(writes) + 1
    BY <2>2
  <2> QED
    BY <1>3, <1>4, <1>5, <1>7, <2>2, <2>3 DEF WritersOK
<1> QED
  BY <1>1, <1>3, <1>6, <1>7

LEMMA NewIds ==
    ASSUME NEW id, strategy = "sequential" => id \in Nat,
           strategy # "sequential" => id \in Uuids \cup {NoId}
    PROVE  /\ strategy = "sequential" => NumericId(id) = id
           /\ strategy # "sequential" => NumericId(id) = NoId
           /\ NumericId(id) \in {id, NoId}
  BY IdsAssumption DEF NumericId

LEMMA HandedToken ==
    ASSUME NEW t, NEW x \in Handed(t)
    PROVE  x = t
  BY DEF Handed

(* What a run hands out is of an id that no mint in progress has.          *)
LEMMA ReleasedId ==
    ASSUME ForgeOK, NEW s \in Slots, run[s].pc \in {"minting", "resaving"},
           NEW x \in Slots \ {s}, run[x].pc \in MintingPCs
    PROVE  run[x].new.id # run[s].new.id
<1>1. MintOK(x) /\ MintOK(s) /\ TransferOK(s) /\ ReleasedOK
  BY DEF ForgeOK
<1>2. CASE run[s].pc = "minting"
  BY <1>1, <1>2 DEF MintOK, MintingPCs
<1>3. CASE run[s].pc = "resaving"
  <2>1. run[s].old \in released /\ run[s].new.id = NumericId(run[s].old.id)
    BY <1>1, <1>3 DEF TransferOK
  <2>2. run[x].new.id # run[s].old.id
    BY <1>1, <2>1 DEF MintOK
  <2>3. /\ strategy = "sequential" => run[s].old.id \in Nat
        /\ strategy # "sequential" => run[s].old.id \in Uuids \cup {NoId}
    BY <1>1, <2>1 DEF ReleasedOK
  <2>4. run[s].new.id \in {run[s].old.id, NoId}
    BY <2>1, <2>3, NewIds
  <2>5. run[x].new.id # NoId
    BY <1>1, IdsAssumption DEF MintOK
  <2> QED
    BY <2>2, <2>4, <2>5
<1> QED
  BY <1>2, <1>3

(* No other run of a handler has its writes changed.                       *)
LEMMA OthersWrites ==
    ASSUME ForgeOK, NEW s \in Slots, RunStep(s), NEW x \in Slots \ {s}
    PROVE  /\ Saved(x)' => Saved(x)
           /\ \A i \in DOMAIN writes' : writes'[i].by = x =>
                 i \in DOMAIN writes /\ writes'[i] = writes[i]
<1>1. CASE writes' = writes
  BY <1>1 DEF Saved
<1>2. CASE writes' = Append(writes, [by |-> s, snap |-> mem'])
  <2>1. writes \in Seq(Write)
    BY DEF ForgeOK, TypeOK
  <2>2. /\ DOMAIN writes' = 1..(Len(writes) + 1) /\ Len(writes) \in Nat
        /\ DOMAIN writes = 1..Len(writes)
        /\ \A i \in DOMAIN writes : writes'[i] = writes[i]
        /\ writes'[Len(writes) + 1] = [by |-> s, snap |-> mem']
    BY <1>2, <2>1
  <2>3. \A i \in DOMAIN writes' : i \in DOMAIN writes \/ writes'[i].by = s
    BY <2>2
  <2>4. \A i \in DOMAIN writes : i \in DOMAIN writes'
    BY <2>2
  <2> QED
    BY <2>2, <2>3, <2>4 DEF Saved
<1> QED
  BY <1>1, <1>2 DEF RunStep

(* A mint in progress keeps its id to itself while other runs step.        *)
LEMMA MintOthersKept ==
    ASSUME ForgeOK, TypeOK', NEW s \in Slots, RunStep(s), NEW x \in Slots \ {s},
           run'[s].pc \in MintingPCs /\ run[x].pc \in MintingPCs =>
               run'[s].new.id # run[x].new.id
    PROVE  MintOK(x)'
<1>1. /\ run'[x] = run[x] /\ disk' = disk /\ strategy' = strategy
      /\ mem.last <= mem'.last
      /\ \A y \in Slots \ {s} : run'[y] = run[y]
  BY DEF RunStep, Only, config, NoLater
<1>2. SUFFICES ASSUME run[x].pc \in MintingPCs PROVE MintOK(x)'
  BY <1>1 DEF MintOK
<1> DEFINE id == run[x].new.id
<1>3. /\ run[x].new \in Token /\ \A t \in released : t.id # id
      /\ \A y \in Slots \ {x} : run[y].pc \in MintingPCs => run[y].new.id # id
      /\ IF strategy = "sequential" THEN id \in Nat /\ id < mem.last ELSE id \in Uuids
      /\ strategy = "sequential" /\ run[x].pc = "minting" /\ Saved(x) => id < disk.last
      /\ strategy = "sequential" /\ run[x].pc = "minting" =>
            \A i \in DOMAIN writes : writes[i].by = x => id < writes[i].snap.last
  BY <1>2 DEF ForgeOK, MintOK
<1>4. \A t \in released' : t.id # id
  <2>1. CASE released' = released
    BY <1>3, <2>1
  <2>2. CASE released' = released \cup Handed(run[s].new) /\ run[s].pc \in {"minting", "resaving"}
    BY <1>2, <1>3, <2>2, ReleasedId, HandedToken
  <2> QED
    BY <2>1, <2>2 DEF RunStep
<1>5. \A y \in Slots \ {x} : run'[y].pc \in MintingPCs => run'[y].new.id # id
  BY <1>1, <1>2, <1>3
<1>6. strategy = "sequential" => id < mem'.last
  BY <1>1, <1>3 DEF ForgeOK, TypeOK, ForgeState
<1>7. /\ Saved(x)' => Saved(x)
      /\ \A i \in DOMAIN writes' : writes'[i].by = x =>
            i \in DOMAIN writes /\ writes'[i] = writes[i]
  BY OthersWrites
<1> HIDE DEF id
<1>8. run'[x].new.id = id /\ run'[x].pc = run[x].pc /\ run'[x].new = run[x].new
  BY <1>1 DEF id
<1> QED
  BY <1>1, <1>3, <1>4, <1>5, <1>6, <1>7, <1>8 DEF MintOK

(* A transfer is disturbed by no other run's step: it has the lock.        *)
LEMMA TransferOthersKept ==
    ASSUME ForgeOK, TypeOK', NEW s \in Slots, RunStep(s), NEW x \in Slots \ {s}
    PROVE  TransferOK(x)'
<1>1. /\ run'[x] = run[x] /\ disk' = disk /\ strategy' = strategy
      /\ mem'.spent = mem.spent \/ HasLock(s)
      /\ released \subseteq released'
  BY DEF RunStep, Only, config
<1>2. TransferOK(x)
  BY DEF ForgeOK
<1>3. ASSUME run[x].pc \in TransferPCs
      PROVE  ~HasLock(s)
  BY <1>3 DEF ForgeOK, LockOK, HasLock, TransferPCs, CriticalPCs
<1>4. /\ Saved(x)' => Saved(x)
      /\ \A i \in DOMAIN writes' : writes'[i].by = x =>
            i \in DOMAIN writes /\ writes'[i] = writes[i]
  BY OthersWrites
<1>5. ASSUME run[x].pc \in {"forged", "marking", "resaving"},
             NEW t \in released' \ {run[x].old}, t.id = run[x].old.id, t.id # NoId
      PROVE  t \in released
  <2>1. CASE released' = released \cup Handed(run[s].new) /\ run[s].pc \in {"minting", "resaving"}
    <3>1. run[s].pc = "minting"
      BY <1>3, <1>5, <2>1 DEF ForgeOK, LockOK, TransferPCs, CriticalPCs
    <3>2. run[x].old.id # run[s].new.id
      BY <1>2, <1>5, <3>1 DEF ForgeOK, MintOK, MintingPCs, TransferOK
    <3> QED
      BY <1>5, <2>1, <3>2, HandedToken
  <2> QED
    BY <1>5, <2>1 DEF RunStep
<1> QED
  BY <1>1, <1>2, <1>3, <1>4, <1>5 DEF TransferOK, TransferPCs

(* Handing out a token leaves one that can be spent of each id.            *)
LEMMA ReleasedKept ==
    ASSUME ForgeOK, TypeOK', NEW s \in Slots, RunStep(s)
    PROVE  ReleasedOK'
<1>1. disk' = disk /\ strategy' = strategy /\ ReleasedOK /\ Saved(s)
  BY DEF RunStep, config, ForgeOK
<1>2. CASE released' = released
  BY <1>1, <1>2 DEF ReleasedOK
<1>3. CASE released' = released \cup Handed(run[s].new) /\ run[s].pc \in {"minting", "resaving"}
  <2> DEFINE n == run[s].new
  <2>1. \A t \in released' : t \in released \/ t = n
    BY <1>3, HandedToken
  <2>2. /\ IF strategy = "sequential" THEN n.id \in Nat /\ n.id < disk.last
           ELSE n.id \in Uuids \cup {NoId}
        /\ \A t \in released \ disk.spent : t.id = n.id /\ t.id # NoId => FALSE
    <3>1. CASE run[s].pc = "minting"
      BY <1>1, <3>1 DEF ForgeOK, MintOK, MintingPCs
    <3>2. CASE run[s].pc = "resaving"
      <4>1. /\ run[s].old \in released /\ n.id = NumericId(run[s].old.id)
            /\ run[s].old \in disk.spent
            /\ \A t \in released \ {run[s].old} :
                  t.id = run[s].old.id /\ t.id # NoId => t \in disk.spent
        BY <3>2 DEF ForgeOK, TransferOK
      <4>2. IF strategy = "sequential"
            THEN run[s].old.id \in Nat /\ run[s].old.id < disk.last
            ELSE run[s].old.id \in Uuids \cup {NoId}
        BY <1>1, <4>1 DEF ReleasedOK
      <4>3. n.id \in {run[s].old.id, NoId} /\ (strategy = "sequential" => n.id = run[s].old.id)
        BY <4>1, <4>2, NewIds
      <4> HIDE DEF n
      <4> QED
        BY <4>1, <4>2, <4>3
    <3> QED
      BY <1>3, <3>1, <3>2
  <2> HIDE DEF n
  <2> QED
    BY <1>1, <2>1, <2>2 DEF ReleasedOK
<1> QED
  BY <1>2, <1>3 DEF RunStep

LEMMA RunStepKept ==
    ASSUME ForgeOK, TypeOK', NEW s \in Slots, RunStep(s), LockStep(s), SupplyStep(s),
           MintOK(s)', TransferOK(s)',
           \A x \in Slots \ {s} : run'[s].pc \in MintingPCs /\ run[x].pc \in MintingPCs =>
               run'[s].new.id # run[x].new.id
    PROVE  ForgeOK'
<1>1. LockOK'
  BY LockKept DEF ForgeOK, RunStep
<1>2. OverrunBounded'
  BY SupplyKept DEF ForgeOK, RunStep
<1>3. WritersOK' /\ StoreOK'
  BY <1>2, StoreKept DEF ForgeOK
<1>4. ReleasedOK'
  BY ReleasedKept
<1>5. \A x \in Slots \ {s} : MintOK(x)' /\ TransferOK(x)'
  BY MintOthersKept, TransferOthersKept
<1> QED
  BY <1>1, <1>2, <1>3, <1>4, <1>5 DEF ForgeOK

LEMMA StateType ==
    ASSUME ForgeOK
    PROVE  /\ mem.spent \subseteq Token /\ mem.circulating \in Nat /\ mem.last \in Nat
           /\ NoLater(mem, mem)
           /\ \A s \in Slots : run[s] \in Run
  BY DEF ForgeOK, TypeOK, ForgeState, NoLater

(* A run that ends, with a token handed out or not, leaves all in order.   *)
LEMMA EndKept ==
    ASSUME ForgeOK, NEW s \in Slots, up, Saved(s), End(s),
           UNCHANGED <<config, mem, disk, writes, up, requests, now, faults>>,
           \/ queue' = queue /\ run[s].pc \notin InQueue
           \/ HasLock(s) /\ queue' = Tail(queue),
           \/ released' = released
           \/ released' = released \cup Handed(run[s].new) /\ run[s].pc \in {"minting", "resaving"}
    PROVE  ForgeOK'
<1>1. Only(s) /\ run'[s] = IdleRun /\ run'[s].pc = "idle"
  BY Ended DEF ForgeOK
<1>2. released' \subseteq Token
  <2>1. run[s].pc \in {"minting", "resaving"} => run[s].new \in Token
    BY DEF ForgeOK, MintOK, TransferOK, MintingPCs
  <2> QED
    BY <2>1, HandedToken DEF ForgeOK, TypeOK
<1>3. queue' \in Seq(Slots)
  BY Dequeued DEF HasLock, ForgeOK, TypeOK
<1>4. TypeOK'
  BY <1>1, <1>2, <1>3 DEF ForgeOK, TypeOK, Only, config
<1>5. RunStep(s)
  BY <1>1, StateType DEF RunStep, config
<1>6. LockStep(s)
  BY <1>1 DEF LockStep, InQueue, CriticalPCs
<1>7. SupplyStep(s)
  BY <1>1, StateType DEF SupplyStep
<1>8. MintOK(s)' /\ TransferOK(s)' /\ run'[s].pc \notin MintingPCs
  BY <1>1 DEF MintOK, TransferOK, MintingPCs, TransferPCs
<1> QED
  BY <1>4, <1>5, <1>6, <1>7, <1>8, RunStepKept

LEMMA RequestType ==
    ASSUME ForgeOK, NEW r \in Request
    PROVE  /\ r \in AnyRequest /\ ToSet(r.ins) \subseteq released
           /\ r.op = "burn" => r.ins # <<>>
<1>1. released \subseteq Token
  BY DEF ForgeOK, TypeOK
<1>2. \A k \in Nat : \A q \in [1..k -> released] :
          q \in Seq(Token) /\ ToSet(q) \subseteq released /\ (k > 0 => q # <<>>)
  BY <1>1 DEF ToSet
<1> DEFINE R == {[id |-> t.id, to |-> u] : t \in {x \in released : x.id # NoId}, u \in Users}
<1>3. \A k \in Nat : \A q \in [1..k -> R] : q \in Seq(Recipient)
  <2>1. R \subseteq Recipient
    BY <1>1 DEF Recipient, Token
  <2> HIDE DEF R
  <2> QED
    BY <2>1
<1>4. CASE \E u \in Users : r = Minting(u)
  BY <1>4 DEF Minting, AnyRequest, ToSet
<1>5. CASE r \in [op: {"burn"}, to: {Holder}, ins: [1..1 -> released], outs: {<<>>}]
  <2>1. /\ r.op = "burn" /\ r.to = Holder /\ r.ins \in [1..1 -> released] /\ r.outs = <<>>
        /\ r = [op |-> r.op, to |-> r.to, ins |-> r.ins, outs |-> r.outs]
    BY <1>5
  <2>2. PICK k \in Nat : k = 1
    OBVIOUS
  <2>3. r.ins \in Seq(Token) /\ ToSet(r.ins) \subseteq released /\ r.ins # <<>>
    <3>1. k > 0 /\ r.ins \in [1..k -> released]
      BY <2>1, <2>2
    <3> QED
      BY <1>2, <3>1
  <2>4. r.outs \in Seq(Recipient)
    BY <2>1
  <2> QED
    BY <2>1, <2>3, <2>4 DEF AnyRequest
<1>6. CASE r \in [op: {"transfer"}, to: {Holder}, ins: SeqUpTo(released, MaxIns),
              outs: SeqUpTo(R, MaxOuts)]
  <2>1. /\ r.op = "transfer" /\ r.to = Holder
        /\ \E k \in Nat : r.ins \in [1..k -> released]
        /\ \E k \in Nat : r.outs \in [1..k -> R]
        /\ r = [op |-> r.op, to |-> r.to, ins |-> r.ins, outs |-> r.outs]
    BY <1>6, BoundsAssumption DEF SeqUpTo
  <2>2. r.ins \in Seq(Token) /\ ToSet(r.ins) \subseteq released
    BY <1>2, <2>1
  <2>3. r.outs \in Seq(Recipient)
    BY <1>3, <2>1
  <2> QED
    BY <2>1, <2>2, <2>3 DEF AnyRequest
<1> QED
  BY <1>4, <1>5, <1>6 DEF Request

(* A request takes its place in memory, and nothing changes but the run.   *)
LEMMA ReceiveKept ==
    ASSUME ForgeOK, NEW s \in Slots, Receive(s)
    PROVE  ForgeOK'
<1>1. PICK q \in Request : run' = [run EXCEPT ![s] = [IdleRun EXCEPT !.pc = "received", !.req = q]]
  BY DEF Receive
<1> DEFINE r == [IdleRun EXCEPT !.pc = "received", !.req = q]
<1>2. /\ q \in AnyRequest /\ ToSet(q.ins) \subseteq released
      /\ q.op = "burn" => q.ins # <<>>
  BY RequestType
<1>3. r \in Run /\ r.pc = "received" /\ r.req = q
  BY <1>2, IdleType DEF Run, PCs
<1> HIDE DEF r
<1>4. Only(s) /\ run'[s] = r
  BY <1>1, <1>3, Changed DEF r, ForgeOK
<1>5. TypeOK'
  BY <1>4 DEF Receive, ForgeOK, TypeOK, Only, config
<1>6. up /\ run[s].pc = "idle" /\ Saved(s)
  BY NotWaiting DEF Receive, At, ForgeOK, SavingPCs
<1>7. RunStep(s)
  BY <1>4, <1>6, StateType DEF RunStep, Receive, config
<1>8. LockStep(s)
  BY <1>3, <1>4, <1>6 DEF LockStep, InQueue, CriticalPCs, Receive
<1>9. SupplyStep(s)
  BY <1>3, <1>4, StateType DEF SupplyStep, Receive
<1>10. MintOK(s)' /\ TransferOK(s)' /\ run'[s].pc \notin MintingPCs
  BY <1>2, <1>3, <1>4 DEF MintOK, TransferOK, MintingPCs, TransferPCs, Receive
<1> QED
  BY <1>5, <1>7, <1>8, <1>9, <1>10, RunStepKept

LEMMA EnqueueKept ==
    ASSUME ForgeOK, NEW s \in Slots, Enqueue(s)
    PROVE  ForgeOK'
<1>1. /\ Only(s) /\ run'[s].pc = "queued" /\ run'[s].req = run[s].req
  BY Moved DEF Enqueue, PCs, ForgeOK
<1>2. up /\ run[s].pc = "received" /\ Saved(s)
  BY NotWaiting DEF Enqueue, At, ForgeOK, SavingPCs
<1>3. queue' = Append(queue, s) /\ queue' \in Seq(Slots)
  BY DEF Enqueue, ForgeOK, TypeOK
<1>4. TypeOK'
  BY <1>1, <1>3 DEF Enqueue, ForgeOK, TypeOK, Only, config
<1>5. RunStep(s)
  BY <1>1, <1>2, StateType DEF RunStep, Enqueue, config
<1>6. LockStep(s)
  BY <1>1, <1>2, <1>3 DEF LockStep
<1>7. SupplyStep(s)
  BY <1>1, StateType DEF SupplyStep, Enqueue
<1>8. TransferOK(s)
  BY DEF ForgeOK
<1>9. MintOK(s)' /\ TransferOK(s)' /\ run'[s].pc \notin MintingPCs
  BY <1>1, <1>2, <1>8 DEF MintOK, TransferOK, MintingPCs, TransferPCs, Enqueue
<1> QED
  BY <1>4, <1>5, <1>6, <1>7, <1>9, RunStepKept

-----------------------------------------------------------------------------
LEMMA MintCheckKept ==
    ASSUME ForgeOK, NEW s \in Slots, MintCheck(s)
    PROVE  ForgeOK'
<1>1. up /\ run[s].pc = "received" /\ Saved(s) /\ run[s].pc \notin InQueue
  BY NotWaiting DEF MintCheck, At, ForgeOK, SavingPCs, InQueue, CriticalPCs
<1>2. CASE WithinSupply
  <2>1. PICK id \in IF strategy = "sequential" THEN {mem.last} ELSE UnusedUuids :
            /\ run' = [run EXCEPT ![s].pc = "building", ![s].new = NewToken(id, Req(s).to)]
            /\ mem' = [mem EXCEPT !.last = IF strategy = "sequential" THEN @ + 1 ELSE @]
    BY <1>2 DEF MintCheck
  <2> DEFINE new == NewToken(id, Req(s).to)
             r == [run[s] EXCEPT !.pc = "building", !.new = new]
             last == IF strategy = "sequential" THEN mem.last + 1 ELSE mem.last
  <2>2. run[s] \in Run /\ run[s].req \in AnyRequest /\ mem.last \in Nat /\ mem \in ForgeState
    BY <1>1, StateType DEF ForgeOK, TransferOK, TypeOK
  <2>3. new \in Token /\ new.id = id
    BY <2>1, <2>2 DEF NewToken, Req, AnyRequest, Token, Ids, UnusedUuids, ForgeOK, TypeOK
  <2> HIDE DEF new
  <2>4. /\ r \in Run /\ r.pc = "building" /\ r.new = new /\ r.req = run[s].req
    BY <2>2, <2>3 DEF Run, PCs
  <2>5. run' = [run EXCEPT ![s] = r]
    BY <2>1 DEF new
  <2> HIDE DEF r
  <2>6. Only(s) /\ run'[s] = r
    BY <2>4, <2>5, Changed DEF ForgeOK
  <2>7. mem' = [mem EXCEPT !.last = last]
    BY <2>1
  <2>8. /\ mem' \in ForgeState /\ mem'.spent = mem.spent /\ mem'.circulating = mem.circulating
        /\ mem'.last = last /\ mem.last <= mem'.last
    BY <2>2, <2>7 DEF ForgeState
  <2>9. UNCHANGED <<config, disk, writes, up, queue, requests, now, faults, released>>
    BY DEF MintCheck
  <2>10. TypeOK'
    BY <2>6, <2>8, <2>9 DEF ForgeOK, TypeOK, Only, config
  <2>11. RunStep(s)
    BY <1>1, <2>6, <2>8, <2>9 DEF RunStep, NoLater, config
  <2>12. LockStep(s)
    BY <1>1, <2>4, <2>6, <2>9 DEF LockStep, InQueue, CriticalPCs
  <2>13. SupplyStep(s)
    BY <1>2, <2>8 DEF SupplyStep
  <2>14. ASSUME NEW x \in Slots \ {s}, run[x].pc \in MintingPCs
         PROVE  run[x].new.id # id
    <3>1. /\ run[x].new \in Token
          /\ strategy = "sequential" => run[x].new.id \in Nat /\ run[x].new.id < mem.last
      BY <2>14 DEF ForgeOK, MintOK
    <3>2. strategy = "sequential" => run[x].new.id # id
      BY <2>1, <2>2, <3>1
    <3>3. strategy # "sequential" => run[x].new.id # id
      BY <2>1, <3>1, NoTokenAssumption DEF UnusedUuids
    <3> QED
      BY <3>2, <3>3
  <2>15. /\ \A t \in released : t.id # id
         /\ IF strategy = "sequential" THEN id \in Nat /\ id < mem'.last ELSE id \in Uuids
    <3>1. CASE strategy = "sequential"
      <4>1. id = mem.last /\ mem'.last = mem.last + 1 /\ disk.last <= mem.last
        BY <1>1, <2>1, <2>8, <3>1 DEF ForgeOK, StoreOK, NoLater
      <4>2. \A t \in released : t.id \in Nat /\ t.id < disk.last
        BY <3>1 DEF ForgeOK, ReleasedOK
      <4>3. disk.last \in Nat
        BY DEF ForgeOK, TypeOK, ForgeState
      <4> QED
        BY <2>2, <3>1, <4>1, <4>2, <4>3
    <3>2. CASE strategy # "sequential"
      BY <2>1, <3>2 DEF UnusedUuids
    <3> QED
      BY <3>1, <3>2
  <2>16. MintOK(s)'
    BY <2>3, <2>4, <2>6, <2>9, <2>14, <2>15 DEF MintOK, config, Only
  <2>17. TransferOK(s)'
    BY <1>1, <2>4, <2>6, <2>9 DEF ForgeOK, TransferOK, TransferPCs
  <2> QED
    BY <2>3, <2>4, <2>6, <2>10, <2>11, <2>12, <2>13, <2>14, <2>16, <2>17, RunStepKept
<1>3. CASE ~WithinSupply
  BY <1>1, <1>3, EndKept DEF MintCheck, config
<1> QED
  BY <1>2, <1>3

LEMMA MintBuiltKept ==
    ASSUME ForgeOK, NEW s \in Slots, MintBuilt(s)
    PROVE  ForgeOK'
<1>1. up /\ run[s].pc = "building" /\ Saved(s) /\ run[s].pc \notin InQueue
  BY NotWaiting DEF MintBuilt, At, ForgeOK, SavingPCs, InQueue, CriticalPCs
<1>2. /\ Only(s) /\ run'[s].pc = "signing" /\ run'[s].req = run[s].req
      /\ run'[s].new = run[s].new
  BY Moved DEF MintBuilt, PCs, ForgeOK
<1>3. /\ mem' \in ForgeState /\ mem'.spent = mem.spent /\ mem'.last = mem.last
      /\ mem'.circulating = mem.circulating + 1 /\ NoLater(mem, mem')
  BY DEF MintBuilt, ForgeOK, TypeOK, ForgeState, NoLater
<1>4. UNCHANGED <<config, disk, writes, up, queue, requests, now, faults, released>>
  BY DEF MintBuilt
<1>5. TypeOK'
  BY <1>2, <1>3, <1>4 DEF ForgeOK, TypeOK, Only, config
<1>6. RunStep(s)
  BY <1>1, <1>2, <1>3, <1>4 DEF RunStep, config
<1>7. LockStep(s)
  BY <1>1, <1>2, <1>4 DEF LockStep, InQueue, CriticalPCs
<1>8. SupplyStep(s)
  BY <1>1, <1>2, <1>3 DEF SupplyStep
<1>9. MintOK(s) /\ TransferOK(s) /\ run[s].pc \in MintingPCs
  BY <1>1 DEF ForgeOK, MintingPCs
<1>10. MintOK(s)'
  BY <1>2, <1>3, <1>4, <1>9 DEF MintOK, config, Only
<1>11. TransferOK(s)'
  BY <1>1, <1>2, <1>4, <1>9 DEF TransferOK, TransferPCs
<1>12. \A x \in Slots \ {s} : run[x].pc \in MintingPCs => run'[s].new.id # run[x].new.id
  BY <1>2, <1>9 DEF MintOK
<1> QED
  BY <1>5, <1>6, <1>7, <1>8, <1>10, <1>11, <1>12, RunStepKept

(* A save that a run begins is behind the others, and is its only one.     *)
LEMMA OwnWrite ==
    ASSUME TypeOK, NEW s \in Slots, Saved(s), mem' \in ForgeState, Save(s, mem')
    PROVE  /\ writes' \in Seq(Write) /\ writes' = Append(writes, [by |-> s, snap |-> mem'])
           /\ ~Saved(s)'
           /\ \A i \in DOMAIN writes' : writes'[i].by = s => writes'[i].snap = mem'
<1>1. [by |-> s, snap |-> mem'] \in Write
  BY DEF Write
<1>2. writes' = Append(writes, [by |-> s, snap |-> mem'])
  BY DEF Save
<1>3. /\ writes' \in Seq(Write)
      /\ DOMAIN writes' = 1..(Len(writes) + 1) /\ Len(writes) \in Nat
      /\ DOMAIN writes = 1..Len(writes)
      /\ \A i \in DOMAIN writes : writes'[i] = writes[i]
      /\ writes'[Len(writes) + 1] = [by |-> s, snap |-> mem']
  BY <1>1, <1>2, Appended
<1>4. \A i \in DOMAIN writes' : i \in DOMAIN writes \/ i = Len(writes) + 1
  BY <1>3
<1>5. Len(writes) + 1 \in DOMAIN writes'
  BY <1>3
<1> QED
  BY <1>2, <1>3, <1>4, <1>5 DEF Saved

LEMMA MintSignedKept ==
    ASSUME ForgeOK, NEW s \in Slots, MintSigned(s)
    PROVE  ForgeOK'
<1>1. up /\ run[s].pc = "signing" /\ Saved(s) /\ run[s].pc \notin InQueue
  BY NotWaiting DEF MintSigned, At, ForgeOK, SavingPCs, InQueue, CriticalPCs
<1>2. /\ Only(s) /\ run'[s].pc = "minting" /\ run'[s].req = run[s].req
      /\ run'[s].new = run[s].new
  BY Moved DEF MintSigned, PCs, ForgeOK
<1>3. UNCHANGED <<config, mem, disk, up, queue, requests, now, faults, released>>
  BY DEF MintSigned
<1>4. /\ writes' \in Seq(Write) /\ writes' = Append(writes, [by |-> s, snap |-> mem'])
      /\ ~Saved(s)' /\ \A i \in DOMAIN writes' : writes'[i].by = s => writes'[i].snap = mem'
  BY <1>1, <1>3, OwnWrite DEF MintSigned, ForgeOK, TypeOK
<1>5. TypeOK'
  BY <1>2, <1>3, <1>4 DEF ForgeOK, TypeOK, Only, config
<1>6. RunStep(s)
  BY <1>1, <1>2, <1>3, <1>4, StateType DEF RunStep, config, SavingPCs
<1>7. LockStep(s)
  BY <1>1, <1>2, <1>3 DEF LockStep, InQueue, CriticalPCs
<1>8. SupplyStep(s)
  BY <1>2, <1>3, StateType DEF SupplyStep
<1>9. MintOK(s) /\ TransferOK(s) /\ run[s].pc \in MintingPCs
  BY <1>1 DEF ForgeOK, MintingPCs
<1>10. MintOK(s)'
  BY <1>2, <1>3, <1>4, <1>9 DEF MintOK, config, Only
<1>11. TransferOK(s)'
  BY <1>1, <1>2, <1>3, <1>9 DEF TransferOK, TransferPCs
<1>12. \A x \in Slots \ {s} : run[x].pc \in MintingPCs => run'[s].new.id # run[x].new.id
  BY <1>2, <1>9 DEF MintOK
<1> QED
  BY <1>5, <1>6, <1>7, <1>8, <1>10, <1>11, <1>12, RunStepKept

LEMMA MintSendKept ==
    ASSUME ForgeOK, NEW s \in Slots, MintSend(s)
    PROVE  ForgeOK'
<1>1. up /\ run[s].pc = "minting" /\ Saved(s) /\ run[s].pc \notin InQueue
  BY DEF MintSend, At, InQueue, CriticalPCs
<1> QED
  BY <1>1, EndKept DEF MintSend, config

-----------------------------------------------------------------------------
LEMMA TransferValidateKept ==
    ASSUME ForgeOK, NEW s \in Slots, TransferValidate(s)
    PROVE  ForgeOK'
<1>1. up /\ run[s].pc = "queued" /\ Saved(s) /\ HasLock(s)
  BY NotWaiting DEF TransferValidate, At, ForgeOK, SavingPCs
<1>2. CASE TransferAccepted(Req(s)) /\ Goto(s, "recipient") /\ UNCHANGED queue
  <2>1. /\ Only(s) /\ run'[s].pc = "recipient" /\ run'[s].req = run[s].req
        /\ run'[s].used = run[s].used
    BY <1>2, Moved DEF PCs, CriticalPCs, ForgeOK
  <2>2. UNCHANGED <<config, mem, disk, writes, up, queue, requests, now, faults, released>>
    BY <1>2 DEF TransferValidate
  <2>3. TypeOK'
    BY <2>1, <2>2 DEF ForgeOK, TypeOK, Only, config
  <2>4. RunStep(s)
    BY <1>1, <2>1, <2>2, StateType DEF RunStep, config
  <2>5. LockStep(s)
    BY <1>1, <2>1, <2>2 DEF LockStep, InQueue, CriticalPCs
  <2>6. SupplyStep(s)
    BY <2>1, <2>2, StateType DEF SupplyStep
  <2>7. /\ IsInjective(run[s].req.ins)
        /\ \A i \in DOMAIN run[s].req.ins : run[s].req.ins[i] \notin mem.spent
    BY <1>2 DEF TransferAccepted, Req, ToSet
  <2>8. TransferOK(s)
    BY DEF ForgeOK
  <2>9. MintOK(s)' /\ TransferOK(s)' /\ run'[s].pc \notin MintingPCs
    BY <1>1, <2>1, <2>2, <2>7, <2>8 DEF MintOK, TransferOK, MintingPCs, TransferPCs
  <2> QED
    BY <2>3, <2>4, <2>5, <2>6, <2>9, RunStepKept
<1>3. CASE Leave(s)
  BY <1>1, <1>3, EndKept DEF TransferValidate, Leave, config
<1> QED
  BY <1>2, <1>3 DEF TransferValidate

(* A nonempty set of natural numbers has a least.                          *)
LEMMA LeastNumber ==
    ASSUME NEW S \in SUBSET Nat, S # {}
    PROVE  \E n \in S : \A m \in S : n <= m
<1> DEFINE Less == OpToRel(<, Nat)
<1>1. IsWellFoundedOn(Less, Nat)
  BY NatLessThanWellFounded
<1>2. \A n, m \in Nat : n < m => <<n, m>> \in Less
  BY DEF OpToRel
<1> HIDE DEF Less
<1>3. \E n \in S : \A m \in S : ~ (<<m, n>> \in Less)
  BY <1>1, WFMin
<1>4. \A n, m \in S : ~ (m < n) => n <= m
  OBVIOUS
<1> QED
  BY <1>2, <1>3, <1>4

LEMMA TransferRecipientKept ==
    ASSUME ForgeOK, NEW s \in Slots, TransferRecipient(s)
    PROVE  ForgeOK'
<1>1. up /\ run[s].pc = "recipient" /\ Saved(s) /\ HasLock(s)
  BY NotWaiting DEF TransferRecipient, At, ForgeOK, SavingPCs, LockOK, CriticalPCs
<1> DEFINE q == run[s].req
           o == q.outs[run[s].next]
           found == Matching(s, o.id)
<1>2. CASE Leave(s)
  BY <1>1, <1>2, EndKept DEF TransferRecipient, Leave, config
<1>3. CASE ~Leave(s)
  <2> DEFINE i == CHOOSE n \in found : \A m \in found : n <= m
             new == NewToken(NumericId(q.ins[i].id), o.to)
             r == [run[s] EXCEPT !.pc = "forged", !.used = @ \cup {i}, !.old = q.ins[i],
                                 !.new = new]
  <2>1. /\ found # {} /\ run[s].next <= Len(q.outs) /\ UNCHANGED queue
        /\ run' = [run EXCEPT ![s].pc = "forged", ![s].used = @ \cup {i},
                              ![s].old = q.ins[i], ![s].new = new]
    BY <1>3 DEF TransferRecipient, Req
  <2>2. /\ run[s] \in Run /\ q \in AnyRequest /\ ToSet(q.ins) \subseteq released
        /\ IsInjective(q.ins)
        /\ \A n \in DOMAIN q.ins \ run[s].used : q.ins[n] \notin mem.spent
    BY <1>1, StateType DEF ForgeOK, TransferOK, TransferPCs
  <2>3. found = {n \in DOMAIN q.ins : n \notin run[s].used /\ q.ins[n].id = o.id}
    BY DEF Matching, Req
  <2>4. q.ins \in Seq(Token) /\ DOMAIN q.ins \subseteq Nat /\ q.outs \in Seq(Recipient)
    BY <2>2 DEF AnyRequest
  <2>5. i \in found
    <3> DEFINE f == found
    <3>1. f # {} /\ f \subseteq Nat
      BY <2>1, <2>3, <2>4
    <3> HIDE DEF f
    <3>2. \E n \in f : \A m \in f : n <= m
      BY <3>1, LeastNumber
    <3> QED
      BY <3>2 DEF f
  <2> HIDE DEF i, found
  <2>6. /\ i \in DOMAIN q.ins \ run[s].used /\ i \in Nat
        /\ q.ins[i] \in Token /\ q.ins[i] \in released /\ q.ins[i] \notin mem.spent
    BY <2>2, <2>3, <2>4, <2>5 DEF ToSet
  <2>7. run[s].next \in 1..Len(q.outs)
    BY <2>1, <2>2, <2>4 DEF Run
  <2>8. o \in Recipient
    BY <2>4, <2>7
  <2> HIDE DEF o
  <2>9. new \in Token /\ new.id = NumericId(q.ins[i].id)
    BY <2>6, <2>8 DEF NewToken, NumericId, Recipient, Token, Ids, ForgeOK, TypeOK
  <2> HIDE DEF new
  <2>10. /\ r \in Run /\ r.pc = "forged" /\ r.new = new /\ r.old = q.ins[i] /\ r.req = q
         /\ r.used = run[s].used \cup {i}
    BY <2>2, <2>6, <2>9 DEF Run, PCs, CriticalPCs
  <2>11. run' = [run EXCEPT ![s] = r]
    BY <2>1
  <2> HIDE DEF r
  <2>12. Only(s) /\ run'[s] = r
    BY <2>10, <2>11, Changed DEF ForgeOK
  <2>13. UNCHANGED <<config, mem, disk, writes, up, queue, requests, now, faults, released>>
    BY <2>1 DEF TransferRecipient
  <2>14. TypeOK'
    BY <2>12, <2>13 DEF ForgeOK, TypeOK, Only, config
  <2>15. RunStep(s)
    BY <1>1, <2>12, <2>13, StateType DEF RunStep, config
  <2>16. LockStep(s)
    BY <1>1, <2>10, <2>12, <2>13 DEF LockStep, InQueue, CriticalPCs
  <2>17. SupplyStep(s)
    BY <2>10, <2>12, <2>13, StateType DEF SupplyStep
  <2>18. q.ins[i] \notin disk.spent
    BY <1>1, <2>6 DEF ForgeOK, StoreOK, NoLater
  <2>19. \A t \in released \ {q.ins[i]} : t.id = q.ins[i].id /\ t.id # NoId => t \in disk.spent
    BY <2>6, <2>18 DEF ForgeOK, ReleasedOK
  <2>20. TransferOK(s)'
    BY <2>2, <2>6, <2>9, <2>10, <2>12, <2>13, <2>19 DEF TransferOK, TransferPCs, NumericId
  <2>21. MintOK(s)' /\ run'[s].pc \notin MintingPCs
    BY <2>10, <2>12 DEF MintOK, MintingPCs
  <2> QED
    BY <2>14, <2>15, <2>16, <2>17, <2>20, <2>21, RunStepKept
<1> QED
  BY <1>2, <1>3

LEMMA TransferReturnKept ==
    ASSUME ForgeOK, NEW s \in Slots, TransferReturn(s)
    PROVE  ForgeOK'
<1>1. up /\ run[s].pc = "recipient" /\ Saved(s) /\ HasLock(s)
  BY NotWaiting DEF TransferReturn, At, ForgeOK, SavingPCs, LockOK, CriticalPCs
<1> QED
  BY <1>1, EndKept DEF TransferReturn, Leave, config

LEMMA SpendState ==
    ASSUME ForgeOK, NEW s \in Slots, NEW t \in Token, Saved(s), Spend(s, t)
    PROVE  /\ mem' \in ForgeState /\ mem'.spent = mem.spent \cup {t}
           /\ mem'.circulating = mem.circulating /\ mem'.last = mem.last
           /\ NoLater(mem, mem')
           /\ writes' \in Seq(Write) /\ writes' = Append(writes, [by |-> s, snap |-> mem'])
           /\ ~Saved(s)' /\ \A i \in DOMAIN writes' : writes'[i].by = s => writes'[i].snap = mem'
<1>1. /\ mem' \in ForgeState /\ mem'.spent = mem.spent \cup {t}
      /\ mem'.circulating = mem.circulating /\ mem'.last = mem.last
      /\ NoLater(mem, mem')
  BY DEF Spend, ForgeOK, TypeOK, ForgeState, NoLater
<1> QED
  BY <1>1, OwnWrite DEF Spend, ForgeOK

LEMMA TransferMarkKept ==
    ASSUME ForgeOK, NEW s \in Slots, TransferMark(s)
    PROVE  ForgeOK'
<1>1. up /\ run[s].pc = "forged" /\ Saved(s) /\ HasLock(s)
  BY NotWaiting DEF TransferMark, At, ForgeOK, SavingPCs, LockOK, CriticalPCs
<1>2. /\ Only(s) /\ run'[s].pc = "marking" /\ run'[s].req = run[s].req
      /\ run'[s].new = run[s].new /\ run'[s].old = run[s].old /\ run'[s].used = run[s].used
  BY Moved DEF TransferMark, PCs, CriticalPCs, ForgeOK
<1>3. TransferOK(s)
  BY DEF ForgeOK
<1>4. run[s].old \in released /\ run[s].old \in Token
  BY <1>1, <1>3 DEF TransferOK, ForgeOK, TypeOK
<1>5. /\ mem' \in ForgeState /\ mem'.spent = mem.spent \cup {run[s].old}
      /\ mem'.circulating = mem.circulating /\ mem'.last = mem.last
      /\ NoLater(mem, mem')
      /\ writes' \in Seq(Write) /\ writes' = Append(writes, [by |-> s, snap |-> mem'])
      /\ ~Saved(s)' /\ \A i \in DOMAIN writes' : writes'[i].by = s => writes'[i].snap = mem'
  BY <1>1, <1>4, SpendState DEF TransferMark
<1>6. UNCHANGED <<config, disk, up, queue, requests, now, faults, released>>
  BY DEF TransferMark
<1>7. TypeOK'
  BY <1>2, <1>5, <1>6 DEF ForgeOK, TypeOK, Only, config
<1>8. RunStep(s)
  BY <1>1, <1>2, <1>5, <1>6 DEF RunStep, config, SavingPCs
<1>9. LockStep(s)
  BY <1>1, <1>2, <1>6 DEF LockStep, InQueue, CriticalPCs
<1>10. SupplyStep(s)
  BY <1>2, <1>5, StateType DEF SupplyStep
<1>11. \A i \in DOMAIN run[s].req.ins \ run[s].used : run[s].req.ins[i] \notin mem'.spent
  <2>1. PICK k \in run[s].used \cap DOMAIN run[s].req.ins : run[s].old = run[s].req.ins[k]
    BY <1>1, <1>3 DEF TransferOK
  <2>2. /\ IsInjective(run[s].req.ins)
        /\ \A i \in DOMAIN run[s].req.ins \ run[s].used : run[s].req.ins[i] \notin mem.spent
    BY <1>1, <1>3 DEF TransferOK, TransferPCs
  <2>3. \A i \in DOMAIN run[s].req.ins \ run[s].used : run[s].req.ins[i] # run[s].old
    BY <2>1, <2>2 DEF IsInjective
  <2> QED
    BY <1>5, <2>2, <2>3
<1>12. TransferOK(s)'
  BY <1>1, <1>2, <1>3, <1>5, <1>6, <1>11 DEF TransferOK, TransferPCs, NumericId
<1>13. MintOK(s)' /\ run'[s].pc \notin MintingPCs
  BY <1>2 DEF MintOK, MintingPCs
<1> QED
  BY <1>7, <1>8, <1>9, <1>10, <1>12, <1>13, RunStepKept

LEMMA TransferSaveKept ==
    ASSUME ForgeOK, NEW s \in Slots, TransferSave(s)
    PROVE  ForgeOK'
<1>1. up /\ run[s].pc = "marking" /\ Saved(s) /\ HasLock(s)
  BY DEF TransferSave, At, ForgeOK, LockOK, CriticalPCs
<1>2. /\ Only(s) /\ run'[s].pc = "resaving" /\ run'[s].req = run[s].req
      /\ run'[s].new = run[s].new /\ run'[s].old = run[s].old /\ run'[s].used = run[s].used
  BY Moved DEF TransferSave, PCs, CriticalPCs, ForgeOK
<1>3. UNCHANGED <<config, mem, disk, up, queue, requests, now, faults, released>>
  BY DEF TransferSave
<1>4. writes' \in Seq(Write) /\ writes' = Append(writes, [by |-> s, snap |-> mem'])
  BY <1>1, <1>3, OwnWrite DEF TransferSave, ForgeOK, TypeOK
<1>5. TypeOK'
  BY <1>2, <1>3, <1>4 DEF ForgeOK, TypeOK, Only, config
<1>6. RunStep(s)
  BY <1>1, <1>2, <1>3, <1>4, StateType DEF RunStep, config, SavingPCs
<1>7. LockStep(s)
  BY <1>1, <1>2, <1>3 DEF LockStep, InQueue, CriticalPCs
<1>8. SupplyStep(s)
  BY <1>2, <1>3, StateType DEF SupplyStep
<1>9. TransferOK(s)
  BY DEF ForgeOK
<1>10. TransferOK(s)'
  BY <1>1, <1>2, <1>3, <1>9 DEF TransferOK, TransferPCs, NumericId
<1>11. MintOK(s)' /\ run'[s].pc \notin MintingPCs
  BY <1>2 DEF MintOK, MintingPCs
<1> QED
  BY <1>5, <1>6, <1>7, <1>8, <1>10, <1>11, RunStepKept

LEMMA TransferSendKept ==
    ASSUME ForgeOK, NEW s \in Slots, TransferSend(s)
    PROVE  ForgeOK'
<1>1. up /\ run[s].pc = "resaving" /\ Saved(s) /\ HasLock(s)
  BY DEF TransferSend, At, ForgeOK, LockOK, CriticalPCs
<1>2. CASE Leave(s)
  BY <1>1, <1>2, EndKept DEF TransferSend, Leave, config
<1>3. CASE ~Leave(s)
  <2> DEFINE n == run[s].next + 1
             r == [run[s] EXCEPT !.pc = "recipient", !.next = n, !.old = NoToken,
                                 !.new = NoToken]
  <2>1. /\ run' = [run EXCEPT ![s] = r]
        /\ released' = released \cup Handed(run[s].new)
        /\ UNCHANGED <<config, mem, disk, writes, up, queue, requests, now, faults>>
    BY <1>3 DEF TransferSend
  <2>2. run[s] \in Run /\ run[s].new \in Token
    BY <1>1, StateType DEF ForgeOK, TransferOK
  <2>3. r \in Run /\ r.pc = "recipient" /\ r.req = run[s].req /\ r.used = run[s].used
    <3>1. n \in Nat \ {0} /\ "recipient" \in PCs
      BY <2>2 DEF Run, PCs, CriticalPCs
    <3> HIDE DEF n
    <3> QED
      BY <2>2, <3>1 DEF Run
  <2> HIDE DEF r
  <2>4. Only(s) /\ run'[s] = r
    BY <2>1, <2>3, Changed DEF ForgeOK
  <2>5. released' \subseteq Token /\ released \subseteq released'
    BY <2>1, <2>2, HandedToken DEF ForgeOK, TypeOK
  <2>6. TypeOK'
    BY <2>1, <2>4, <2>5 DEF ForgeOK, TypeOK, Only, config
  <2>7. RunStep(s)
    BY <1>1, <2>1, <2>4, StateType DEF RunStep, config
  <2>8. LockStep(s)
    BY <1>1, <2>1, <2>3, <2>4 DEF LockStep, InQueue, CriticalPCs
  <2>9. SupplyStep(s)
    BY <2>1, <2>3, <2>4, StateType DEF SupplyStep
  <2>10. TransferOK(s)
    BY DEF ForgeOK
  <2>11. MintOK(s)' /\ TransferOK(s)' /\ run'[s].pc \notin MintingPCs
    BY <1>1, <2>1, <2>3, <2>4, <2>5, <2>10 DEF MintOK, TransferOK, MintingPCs, TransferPCs
  <2> QED
    BY <2>6, <2>7, <2>8, <2>9, <2>11, RunStepKept
<1> QED
  BY <1>2, <1>3
-----------------------------------------------------------------------------
LEMMA BurnMarkKept ==
    ASSUME ForgeOK, NEW s \in Slots, BurnMark(s)
    PROVE  ForgeOK'
<1>1. up /\ run[s].pc = "queued" /\ Saved(s) /\ HasLock(s) /\ run[s].req.op = "burn"
  BY NotWaiting DEF BurnMark, At, ForgeOK, SavingPCs, Req
<1> DEFINE t == run[s].req.ins[1]
<1>2. CASE t \in mem.spent
  BY <1>1, <1>2, EndKept DEF BurnMark, Leave, config, Req
<1>3. CASE t \notin mem.spent
  <2>1. /\ Spend(s, t) /\ Goto(s, "burning")
        /\ UNCHANGED <<config, disk, up, queue, requests, now, faults, released>>
    BY <1>3 DEF BurnMark, Req
  <2>2. t \in Token
    <3>1. run[s].req \in AnyRequest /\ run[s].req.ins # <<>>
      BY <1>1 DEF ForgeOK, TransferOK
    <3> QED
      BY <3>1 DEF AnyRequest
  <2> HIDE DEF t
  <2>3. /\ mem' \in ForgeState /\ mem'.spent = mem.spent \cup {t}
        /\ mem'.circulating = mem.circulating /\ mem'.last = mem.last
        /\ NoLater(mem, mem')
        /\ writes' \in Seq(Write) /\ writes' = Append(writes, [by |-> s, snap |-> mem'])
    BY <1>1, <2>1, <2>2, SpendState
  <2>4. Only(s) /\ run'[s].pc = "burning" /\ run'[s].req = run[s].req
    BY <2>1, Moved DEF PCs, CriticalPCs, ForgeOK
  <2>5. TypeOK'
    BY <2>1, <2>3, <2>4 DEF ForgeOK, TypeOK, Only, config
  <2>6. RunStep(s)
    BY <1>1, <2>1, <2>3, <2>4 DEF RunStep, config, SavingPCs
  <2>7. LockStep(s)
    BY <1>1, <2>1, <2>4 DEF LockStep, InQueue, CriticalPCs
  <2>8. SupplyStep(s)
    BY <2>3, <2>4, StateType DEF SupplyStep
  <2>9. TransferOK(s)
    BY DEF ForgeOK
  <2>10. MintOK(s)' /\ TransferOK(s)' /\ run'[s].pc \notin MintingPCs
    BY <1>1, <2>1, <2>4, <2>9 DEF MintOK, TransferOK, MintingPCs, TransferPCs
  <2> QED
    BY <2>5, <2>6, <2>7, <2>8, <2>10, RunStepKept
<1> QED
  BY <1>2, <1>3

LEMMA BurnSettleKept ==
    ASSUME ForgeOK, NEW s \in Slots, BurnSettle(s)
    PROVE  ForgeOK'
<1>1. up /\ run[s].pc = "burning" /\ Saved(s) /\ HasLock(s)
  BY DEF BurnSettle, At, ForgeOK, LockOK, CriticalPCs
<1>2. Only(s) /\ run'[s].pc = "burned" /\ run'[s].req = run[s].req
  BY Moved DEF BurnSettle, PCs, ForgeOK
<1>3. /\ UNCHANGED <<config, mem, disk, writes, up, requests, now, faults, released>>
      /\ queue' = Tail(queue)
  BY DEF BurnSettle
<1>4. queue' \in Seq(Slots)
  BY <1>1, <1>3, Dequeued DEF HasLock, ForgeOK
<1>5. TypeOK'
  BY <1>2, <1>3, <1>4 DEF ForgeOK, TypeOK, Only, config
<1>6. RunStep(s)
  BY <1>1, <1>2, <1>3, StateType DEF RunStep, config
<1>7. LockStep(s)
  BY <1>1, <1>2, <1>3 DEF LockStep, InQueue, CriticalPCs
<1>8. SupplyStep(s)
  BY <1>2, <1>3, StateType DEF SupplyStep
<1>9. TransferOK(s)
  BY DEF ForgeOK
<1>10. MintOK(s)' /\ TransferOK(s)' /\ run'[s].pc \notin MintingPCs
  BY <1>1, <1>2, <1>3, <1>9 DEF MintOK, TransferOK, MintingPCs, TransferPCs
<1> QED
  BY <1>5, <1>6, <1>7, <1>8, <1>10, RunStepKept

LEMMA BurnCountKept ==
    ASSUME ForgeOK, NEW s \in Slots, BurnCount(s)
    PROVE  ForgeOK'
<1>1. up /\ run[s].pc = "burned" /\ Saved(s)
  BY NotWaiting DEF BurnCount, At, ForgeOK, SavingPCs
<1>2. Only(s) /\ run'[s].pc = "counting" /\ run'[s].req = run[s].req
  BY Moved DEF BurnCount, PCs, ForgeOK
<1>3. /\ mem' \in ForgeState /\ mem'.spent = mem.spent /\ mem'.last = mem.last
      /\ mem'.circulating <= mem.circulating /\ NoLater(mem, mem')
  <2> DEFINE c == Lowered(mem.circulating)
  <2>1. c \in Nat /\ c <= mem.circulating
    BY StateType DEF Lowered
  <2>2. mem' = [mem EXCEPT !.circulating = c]
    BY DEF BurnCount
  <2> HIDE DEF c
  <2> QED
    BY <2>1, <2>2, StateType DEF ForgeOK, TypeOK, ForgeState, NoLater
<1>4. UNCHANGED <<config, disk, up, queue, requests, now, faults, released>>
  BY DEF BurnCount
<1>5. writes' \in Seq(Write) /\ writes' = Append(writes, [by |-> s, snap |-> mem'])
  BY <1>1, <1>3, OwnWrite DEF BurnCount, ForgeOK
<1>6. TypeOK'
  BY <1>2, <1>3, <1>4, <1>5 DEF ForgeOK, TypeOK, Only, config
<1>7. RunStep(s)
  BY <1>1, <1>2, <1>3, <1>4, <1>5 DEF RunStep, config, SavingPCs
<1>8. LockStep(s)
  BY <1>1, <1>2, <1>4 DEF LockStep, InQueue, CriticalPCs
<1>9. SupplyStep(s)
  BY <1>2, <1>3 DEF SupplyStep
<1>10. TransferOK(s)
  BY DEF ForgeOK
<1>11. MintOK(s)' /\ TransferOK(s)' /\ run'[s].pc \notin MintingPCs
  BY <1>1, <1>2, <1>4, <1>10 DEF MintOK, TransferOK, MintingPCs, TransferPCs
<1> QED
  BY <1>6, <1>7, <1>8, <1>9, <1>11, RunStepKept

LEMMA BurnReturnKept ==
    ASSUME ForgeOK, NEW s \in Slots, BurnReturn(s)
    PROVE  ForgeOK'
<1>1. up /\ run[s].pc = "counting" /\ Saved(s) /\ run[s].pc \notin InQueue
  BY DEF BurnReturn, At, InQueue, CriticalPCs
<1> QED
  BY <1>1, EndKept DEF BurnReturn, config
-----------------------------------------------------------------------------
(* The save after an event is of nobody's run.                             *)
LEMMA QueuedSaveKept ==
    ASSUME ForgeOK, QueuedSave
    PROVE  ForgeOK'
<1>1. /\ up /\ UNCHANGED <<config, mem, disk, up, queue, run, requests, now, faults, released>>
      /\ Save("queue", mem)
  BY DEF QueuedSave
<1>2. /\ writes' \in Seq(Write) /\ writes' = Append(writes, [by |-> "queue", snap |-> mem'])
  BY <1>1, SavedState DEF ForgeOK, TypeOK
<1>3. TypeOK'
  BY <1>1, <1>2 DEF ForgeOK, TypeOK, config
<1>4. Limited(mem)'
  BY <1>1, MemLimited DEF ForgeOK, Limited, config
<1>5. StoreOK'
  BY <1>1, <1>2, <1>3, <1>4, StateType, StoreGrows DEF ForgeOK
<1>6. [by |-> "queue", snap |-> mem'] \in Write
  BY <1>3 DEF TypeOK, Write
<1>7. /\ DOMAIN writes' = 1..(Len(writes) + 1) /\ Len(writes) \in Nat
      /\ DOMAIN writes = 1..Len(writes)
      /\ \A i \in DOMAIN writes : writes'[i] = writes[i]
      /\ writes'[Len(writes) + 1].by = "queue"
  BY <1>2, <1>6, Appended DEF ForgeOK
<1>8. /\ \A i \in DOMAIN writes' : i \in DOMAIN writes \/ i = Len(writes) + 1
      /\ \A i \in DOMAIN writes : i \in DOMAIN writes'
  BY <1>7
<1>9. WritersOK'
  BY <1>1, <1>7, <1>8 DEF ForgeOK, WritersOK
<1>10. LockOK' /\ ReleasedOK' /\ OverrunBounded'
  BY <1>1 DEF ForgeOK, LockOK, HasLock, ReleasedOK, OverrunBounded, config
<1>11. \A s \in Slots : /\ Saved(s)' => Saved(s)
                        /\ \A i \in DOMAIN writes' : writes'[i].by = s =>
                              i \in DOMAIN writes /\ writes'[i] = writes[i]
  BY <1>7, <1>8, IdsAssumption DEF Saved
<1>12. ASSUME NEW s \in Slots
       PROVE  MintOK(s)' /\ TransferOK(s)'
  <2>1. MintOK(s) /\ TransferOK(s)
    BY DEF ForgeOK
  <2>2. MintOK(s)'
    BY <1>1, <1>11, <2>1 DEF MintOK, config
  <2>3. TransferOK(s)'
    BY <1>1, <1>11, <2>1 DEF TransferOK, NumericId
  <2> QED
    BY <2>2, <2>3
<1> QED
  BY <1>3, <1>5, <1>9, <1>10, <1>12 DEF ForgeOK

(* What the oldest write leaves behind when it has landed or failed.       *)
LEMMA Popped ==
    ASSUME ForgeOK, writes # <<>>, writes' = Tail(writes), UNCHANGED <<config, mem, up>>,
           disk' = disk \/ disk' = writes[1].snap
    PROVE  /\ writes' \in Seq(Write) /\ StoreOK' /\ NoLater(disk, disk') /\ up
           /\ disk' \in ForgeState
           /\ \A i \in DOMAIN writes' : i + 1 \in DOMAIN writes /\ writes'[i] = writes[i + 1]
           /\ \A s \in Slots : Saved(s)' => Saved(s) \/ writes[1].by = s
           /\ \A i, j \in DOMAIN writes' : i + 1 = j + 1 => i = j
<1>1. TypeOK /\ StoreOK /\ up
  BY DEF ForgeOK, LockOK
<1>2. /\ writes[1] \in Write /\ 1 \in DOMAIN writes
      /\ writes' \in Seq(Write) /\ DOMAIN writes = 1..Len(writes)
      /\ DOMAIN writes' = 1..(Len(writes) - 1) /\ Len(writes) \in Nat \ {0}
      /\ \A i \in DOMAIN writes' : writes'[i] = writes[i + 1]
  BY <1>1, Removed
<1>3. \A i \in DOMAIN writes' : i + 1 \in DOMAIN writes /\ i \in Nat /\ 1 <= i + 1
  BY <1>2
<1>4. \A k \in DOMAIN writes : k = 1 \/ (k - 1 \in DOMAIN writes' /\ writes'[k - 1] = writes[k])
  <2>1. ASSUME NEW k \in DOMAIN writes, k # 1
        PROVE  k - 1 \in DOMAIN writes' /\ (k - 1) + 1 = k
    BY <1>2, <2>1
  <2> QED
    BY <1>2, <2>1
<1>5. \A s \in Slots : Saved(s)' => Saved(s) \/ writes[1].by = s
  BY <1>4 DEF Saved
<1>6. /\ NoLater(disk, mem) /\ Limited(disk)
      /\ \A i \in DOMAIN writes :
            /\ NoLater(disk, writes[i].snap) /\ NoLater(writes[i].snap, mem)
            /\ Limited(writes[i].snap)
            /\ \A j \in DOMAIN writes : i <= j => NoLater(writes[i].snap, writes[j].snap)
  BY <1>1 DEF StoreOK
<1>7. disk \in ForgeState /\ writes[1].snap \in ForgeState
  BY <1>1, <1>2 DEF TypeOK, Write
<1>8. NoLater(disk, disk') /\ disk' \in ForgeState
  BY <1>2, <1>6, <1>7 DEF NoLater, ForgeState
<1>9. /\ NoLater(disk', mem) /\ Limited(disk)'
      /\ \A i \in DOMAIN writes' : NoLater(disk', writes'[i].snap)
  <2>1. CASE disk' = disk
    BY <1>2, <1>3, <1>6, <2>1 DEF Limited, config
  <2>2. CASE disk' = writes[1].snap
    BY <1>2, <1>3, <1>6, <2>2 DEF Limited, config
  <2> QED
    BY <2>1, <2>2
<1>10. \A i \in DOMAIN writes' : NoLater(writes'[i].snap, mem) /\ Limited(writes[i + 1].snap)
  BY <1>2, <1>3, <1>6
<1>11. ASSUME NEW i \in DOMAIN writes', NEW j \in DOMAIN writes', i <= j
       PROVE  NoLater(writes'[i].snap, writes'[j].snap)
  <2>1. i + 1 \in DOMAIN writes /\ j + 1 \in DOMAIN writes /\ i + 1 <= j + 1
    BY <1>3, <1>11
  <2> QED
    BY <1>2, <1>6, <2>1
<1>12. \A i \in DOMAIN writes' : totalSupply' > 0 =>
            writes'[i].snap.circulating <= totalSupply' + Cardinality(Slots) - 1
  BY <1>2, <1>10 DEF Limited, config
<1>13. StoreOK'
  BY <1>9, <1>10, <1>11, <1>12 DEF StoreOK, Limited
<1> QED
  BY <1>1, <1>2, <1>3, <1>5, <1>8, <1>13

(* Writes that stay keep the runs that wait for them.                      *)
LEMMA WritersStay ==
    ASSUME ForgeOK, NEW by,
           \A i \in DOMAIN writes' : i + 1 \in DOMAIN writes /\ writes'[i] = writes[i + 1]
               /\ writes'[i].by # by,
           \A i, j \in DOMAIN writes' : i + 1 = j + 1 => i = j,
           \A x \in Slots \ {by} : run'[x] = run[x]
    PROVE  WritersOK'
<1>1. \A i \in DOMAIN writes : writes[i] \in Write
  BY DEF ForgeOK, TypeOK
<1> QED
  BY <1>1 DEF ForgeOK, WritersOK, Write

LEMMA WriteLandsKept ==
    ASSUME ForgeOK, WriteLands
    PROVE  ForgeOK'
<1>1. /\ writes # <<>> /\ writes' = Tail(writes) /\ disk' = Head(writes).snap
      /\ UNCHANGED <<config, mem, up, queue, run, requests, now, faults, released>>
  BY DEF WriteLands
<1>2. Head(writes) = writes[1] /\ 1 \in DOMAIN writes
  BY <1>1, Removed DEF ForgeOK
<1>3. /\ writes' \in Seq(Write) /\ StoreOK' /\ NoLater(disk, disk') /\ up
      /\ disk' \in ForgeState
      /\ \A i \in DOMAIN writes' : i + 1 \in DOMAIN writes /\ writes'[i] = writes[i + 1]
      /\ \A s \in Slots : Saved(s)' => Saved(s) \/ writes[1].by = s
      /\ \A i, j \in DOMAIN writes' : i + 1 = j + 1 => i = j
  BY <1>1, <1>2, Popped
<1>4. TypeOK'
  BY <1>1, <1>3 DEF ForgeOK, TypeOK, config
<1>5. WritersOK'
  BY <1>1, <1>3 DEF ForgeOK, WritersOK
<1>6. LockOK' /\ OverrunBounded'
  BY <1>1, <1>3 DEF ForgeOK, LockOK, HasLock, OverrunBounded, config
<1>7. disk.last \in Nat /\ disk'.last \in Nat /\ disk.spent \subseteq disk'.spent
      /\ disk.last <= disk'.last
  BY <1>3 DEF ForgeOK, TypeOK, ForgeState, NoLater
<1>8. ReleasedOK'
  BY <1>1, <1>7 DEF ForgeOK, ReleasedOK, config
<1>9. ASSUME NEW s \in Slots
      PROVE  MintOK(s)' /\ TransferOK(s)'
  <2>1. MintOK(s) /\ TransferOK(s)
    BY DEF ForgeOK
  <2>2. \A i \in DOMAIN writes' : writes'[i].by = s =>
            \E j \in DOMAIN writes : writes[j].by = s /\ writes'[i].snap = writes[j].snap
    BY <1>3
  <2>3. ASSUME strategy = "sequential", run[s].pc = "minting", Saved(s)'
        PROVE  run[s].new.id < disk'.last
    <3>1. run[s].new.id \in Nat
      BY <2>1, <2>3 DEF MintOK, MintingPCs
    <3>2. CASE Saved(s)
      BY <1>7, <2>1, <2>3, <3>1, <3>2 DEF MintOK, MintingPCs
    <3>3. CASE writes[1].by = s
      BY <1>1, <1>2, <2>1, <2>3, <3>3 DEF MintOK, MintingPCs
    <3> QED
      BY <1>3, <2>3, <3>2, <3>3
  <2>4. MintOK(s)'
    BY <1>1, <2>1, <2>2, <2>3 DEF MintOK, config
  <2>5. ASSUME run[s].pc = "marking", Saved(s)'
        PROVE  run[s].old \in disk'.spent
    <3>1. CASE Saved(s)
      BY <1>7, <2>1, <2>5, <3>1 DEF TransferOK
    <3>2. CASE writes[1].by = s
      BY <1>1, <1>2, <2>1, <2>5, <3>2 DEF TransferOK
    <3> QED
      BY <1>3, <2>5, <3>1, <3>2
  <2>6. TransferOK(s)'
    BY <1>1, <1>7, <2>1, <2>2, <2>5 DEF TransferOK, NumericId
  <2> QED
    BY <2>4, <2>6
<1> QED
  BY <1>3, <1>4, <1>5, <1>6, <1>8, <1>9 DEF ForgeOK

LEMMA WriteFailsKept ==
    ASSUME ForgeOK, WriteFails
    PROVE  ForgeOK'
<1> DEFINE s == Head(writes).by
<1>1. /\ writes # <<>> /\ writes' = Tail(writes) /\ faults' = faults + 1
      /\ UNCHANGED <<config, mem, disk, up, requests, now, released>>
      /\ IF s = "queue" THEN UNCHANGED <<run, queue>>
         ELSE End(s) /\ queue' = IF HasLock(s) THEN Tail(queue) ELSE queue
  BY DEF WriteFails
<1>2. Head(writes) = writes[1] /\ 1 \in DOMAIN writes /\ writes[1] \in Write
  BY <1>1, Removed DEF ForgeOK
<1>3. /\ writes' \in Seq(Write) /\ StoreOK' /\ up
      /\ \A i \in DOMAIN writes' : i + 1 \in DOMAIN writes /\ writes'[i] = writes[i + 1]
      /\ \A x \in Slots : Saved(x)' => Saved(x) \/ s = x
      /\ \A i, j \in DOMAIN writes' : i + 1 = j + 1 => i = j
  BY <1>1, <1>2, Popped
<1>4. ASSUME NEW x \in Slots, x # s, run'[x] = run[x]
      PROVE  /\ TransferOK(x)'
             /\ (run[x].pc \in MintingPCs =>
                   \A y \in Slots \ {x} : run'[y].pc \in MintingPCs =>
                       run'[y].new.id # run[x].new.id) => MintOK(x)'
  <2>1. MintOK(x) /\ TransferOK(x)
    BY DEF ForgeOK
  <2>2. \A i \in DOMAIN writes' : writes'[i].by = x =>
            \E j \in DOMAIN writes : writes[j].by = x /\ writes'[i].snap = writes[j].snap
    BY <1>3
  <2>3. Saved(x)' => Saved(x)
    BY <1>3, <1>4
  <2> HIDE DEF s
  <2>4. TransferOK(x)'
    BY <1>1, <1>4, <2>1, <2>2, <2>3 DEF TransferOK, NumericId
  <2>5. ASSUME \A y \in Slots \ {x} : run'[y].pc \in MintingPCs => run'[y].new.id # run[x].new.id
        PROVE  MintOK(x)'
    BY <1>1, <1>4, <2>1, <2>2, <2>3, <2>5 DEF MintOK, config
  <2>6. run[x].pc \notin MintingPCs => MintOK(x)'
    BY <1>4 DEF MintOK
  <2> QED
    BY <2>4, <2>5, <2>6
<1>5. ReleasedOK'
  BY <1>1 DEF ForgeOK, ReleasedOK, config
<1>6. CASE s = "queue"
  <2>1. run' = run /\ queue' = queue
    BY <1>1, <1>6
  <2>2. TypeOK'
    BY <1>1, <1>3, <2>1 DEF ForgeOK, TypeOK, config
  <2>3. WritersOK'
    BY <1>3, <2>1 DEF ForgeOK, WritersOK
  <2>4. LockOK' /\ OverrunBounded'
    BY <1>1, <1>3, <2>1 DEF ForgeOK, LockOK, HasLock, OverrunBounded, config
  <2>5. ASSUME NEW x \in Slots
        PROVE  MintOK(x)' /\ TransferOK(x)'
    <3>1. x # s /\ run'[x] = run[x]
      BY <1>6, <2>1, IdsAssumption
    <3>2. run[x].pc \in MintingPCs =>
              \A y \in Slots \ {x} : run'[y].pc \in MintingPCs => run'[y].new.id # run[x].new.id
      BY <2>1 DEF ForgeOK, MintOK
    <3> QED
      BY <1>4, <3>1, <3>2
  <2> QED
    BY <1>3, <1>5, <2>2, <2>3, <2>4, <2>5 DEF ForgeOK
<1>7. CASE s # "queue"
  <2>1. s \in Slots /\ End(s) /\ queue' = IF HasLock(s) THEN Tail(queue) ELSE queue
    BY <1>1, <1>2, <1>7 DEF Write
  <2>2. Only(s) /\ run'[s] = IdleRun /\ run'[s].pc = "idle"
    BY <2>1, Ended DEF ForgeOK
  <2>3. run[s].pc \in SavingPCs /\ \A j \in DOMAIN writes : writes[j].by = s => j = 1
    BY <1>2, <1>7 DEF ForgeOK, WritersOK
  <2>4. \A i \in DOMAIN writes' : writes'[i].by # s
    <3>1. \A i \in DOMAIN writes' : i + 1 \in DOMAIN writes /\ i + 1 # 1
      BY <1>3
    <3> QED
      BY <1>3, <2>3, <3>1
  <2>5. queue' \in Seq(Slots)
    BY <2>1, Dequeued DEF HasLock, ForgeOK, TypeOK
  <2> HIDE DEF s
  <2>6. TypeOK'
    BY <1>1, <1>3, <2>2, <2>5 DEF ForgeOK, TypeOK, config, Only
  <2>7. WritersOK'
    BY <1>3, <2>2, <2>4, WritersStay DEF Only
  <2>8. LockStep(s)
    <3>1. CASE HasLock(s)
      BY <2>1, <2>2, <3>1 DEF LockStep, InQueue, CriticalPCs
    <3>2. CASE ~HasLock(s)
      <4>1. run[s].pc \notin InQueue
        BY <2>1, <2>3, <3>2 DEF ForgeOK, LockOK, InQueue, SavingPCs, CriticalPCs
      <4> QED
        BY <2>1, <2>2, <3>2, <4>1 DEF LockStep, InQueue, CriticalPCs
    <3> QED
      BY <3>1, <3>2
  <2>9. LockOK'
    BY <1>1, <1>3, <2>1, <2>2, <2>8, LockKept DEF ForgeOK
  <2>10. OverrunBounded'
    <3>1. SupplyStep(s)
      BY <1>1, <2>2, StateType DEF SupplyStep
    <3> QED
      BY <1>1, <1>3, <2>1, <2>2, <2>6, <3>1, SupplyKept DEF ForgeOK
  <2>11. ASSUME NEW x \in Slots
         PROVE  MintOK(x)' /\ TransferOK(x)'
    <3>1. CASE x = s
      BY <2>2, <3>1 DEF MintOK, TransferOK, MintingPCs, TransferPCs
    <3>2. CASE x # s
      <4>1. run'[x] = run[x] /\ \A y \in Slots \ {s} : run'[y] = run[y]
        BY <2>2, <3>2 DEF Only
      <4>2. run[x].pc \in MintingPCs =>
                \A y \in Slots \ {x} : run'[y].pc \in MintingPCs => run'[y].new.id # run[x].new.id
        BY <2>2, <4>1 DEF ForgeOK, MintOK, MintingPCs
      <4> QED
        BY <1>4, <3>2, <4>1, <4>2
    <3> QED
      BY <3>1, <3>2
  <2> QED
    BY <1>3, <1>5, <2>6, <2>7, <2>9, <2>10, <2>11 DEF ForgeOK
<1> QED
  BY <1>6, <1>7

(* With no run in progress nothing is at stake but the stored state.       *)
LEMMA AllIdle ==
    ASSUME \A s \in Slots : run[s].pc = "idle"
    PROVE  /\ \A s \in Slots : MintOK(s) /\ TransferOK(s)
           /\ {s \in Slots : run[s].pc = "building"} = {}
  BY DEF MintOK, TransferOK, MintingPCs, TransferPCs

LEMMA CrashKept ==
    ASSUME ForgeOK, Crash
    PROVE  ForgeOK'
<1>1. /\ up' = FALSE /\ writes' = <<>> /\ queue' = <<>> /\ faults' = faults + 1
      /\ run' = [s \in Slots |-> IdleRun]
      /\ UNCHANGED <<config, mem, disk, requests, now, released>>
  BY DEF Crash
<1>2. run' \in [Slots -> Run] /\ \A s \in Slots : run'[s].pc = "idle"
  BY <1>1, IdleType DEF IdleRun
<1>3. TypeOK'
  <2>1. TypeOK /\ writes' \in Seq(Write) /\ queue' \in Seq(Slots)
    BY <1>1 DEF ForgeOK
  <2>2. faults' \in Nat
    BY <1>1, <2>1 DEF TypeOK
  <2>3. up' \in BOOLEAN
    BY <1>1
  <2> QED
    BY <1>1, <1>2, <2>1, <2>2, <2>3 DEF TypeOK, config
<1>4. \A s \in Slots : MintOK(s)' /\ TransferOK(s)'
  BY <1>2 DEF MintOK, TransferOK, MintingPCs, TransferPCs
<1>5. LockOK' /\ WritersOK' /\ StoreOK' /\ ReleasedOK' /\ OverrunBounded'
  BY <1>1, <1>2
  DEF ForgeOK, LockOK, IsInjective, CriticalPCs, WritersOK, StoreOK, Limited, ReleasedOK,
      OverrunBounded, config
<1> QED
  BY <1>3, <1>4, <1>5 DEF ForgeOK

LEMMA LoadStateKept ==
    ASSUME ForgeOK, LoadState
    PROVE  ForgeOK'
<1>1. /\ ~up /\ up' = TRUE /\ mem' = disk
      /\ UNCHANGED <<config, disk, writes, queue, run, requests, now, faults, released>>
  BY DEF LoadState
<1>2. writes = <<>> /\ queue = <<>> /\ \A s \in Slots : run[s].pc = "idle"
  BY <1>1 DEF ForgeOK, LockOK
<1>3. TypeOK'
  BY <1>1 DEF ForgeOK, TypeOK, config
<1>4. \A s \in Slots : MintOK(s)' /\ TransferOK(s)'
  BY <1>1, <1>2 DEF MintOK, TransferOK, MintingPCs, TransferPCs
<1>5. NoLater(disk, disk)
  BY DEF ForgeOK, TypeOK, ForgeState, NoLater
<1>6. LockOK' /\ WritersOK' /\ StoreOK' /\ ReleasedOK'
  BY <1>1, <1>2, <1>5
  DEF ForgeOK, LockOK, IsInjective, CriticalPCs, WritersOK, StoreOK, Limited, ReleasedOK, config
<1>7. OverrunBounded'
  <2> DEFINE n == Cardinality(Slots)
             B == {s \in Slots : run'[s].pc = "building"}
  <2>1. B = {} /\ Cardinality(B) = 0
    BY <1>1, <1>2, FS_EmptySet
  <2>2. totalSupply > 0 => disk.circulating <= totalSupply + n - 1
    BY DEF ForgeOK, StoreOK, Limited
  <2>3. disk.circulating \in Nat
    BY DEF ForgeOK, TypeOK, ForgeState
  <2> HIDE DEF n, B
  <2>4. totalSupply > 0 => disk.circulating + Cardinality(B) <= totalSupply + n - 1
    BY <2>1, <2>2, <2>3
  <2> QED
    BY <1>1, <2>4 DEF OverrunBounded, config, n, B
<1> QED
  BY <1>3, <1>4, <1>6, <1>7 DEF ForgeOK

LEMMA Unmoved ==
    ASSUME ForgeOK, requests' = requests, now' \in 0..MaxTime, faults' = faults,
           UNCHANGED <<config, mem, disk, writes, up, queue, run, released>>
    PROVE  ForgeOK'
<1>1. TypeOK'
  BY DEF ForgeOK, TypeOK, config
<1>2. LockOK' /\ WritersOK' /\ StoreOK' /\ ReleasedOK' /\ OverrunBounded'
  BY DEF ForgeOK, LockOK, HasLock, WritersOK, StoreOK, Limited, ReleasedOK, OverrunBounded, config
<1>3. \A s \in Slots : MintOK(s)' /\ TransferOK(s)'
  BY DEF ForgeOK, MintOK, TransferOK, Saved, NumericId, config
<1> QED
  BY <1>1, <1>2, <1>3 DEF ForgeOK
-----------------------------------------------------------------------------
LEMMA GenesisState ==
    ASSUME Init
    PROVE  ForgeOK
<1>1. /\ strategy \in Strategies /\ totalSupply \in Supplies
      /\ mem = [spent |-> {}, circulating |-> Genesis,
                last |-> IF strategy = "sequential" THEN Genesis ELSE 0]
      /\ disk = mem /\ writes = <<>> /\ up = TRUE /\ queue = <<>>
      /\ run = [s \in Slots |-> IdleRun] /\ requests = 0 /\ now = 0 /\ faults = 0
      /\ released = GenesisTokens
  BY DEF Init
<1>2. Genesis \in Nat /\ totalSupply \in Nat /\ MaxTime \in Nat
  BY <1>1, BoundsAssumption
<1>3. /\ mem \in ForgeState /\ mem.spent = {} /\ mem.circulating = Genesis
      /\ mem.last = IF strategy = "sequential" THEN Genesis ELSE 0
  BY <1>1, <1>2 DEF ForgeState
<1>4. run \in [Slots -> Run] /\ \A s \in Slots : run[s].pc = "idle"
  BY <1>1, IdleType DEF IdleRun
<1>5. /\ released \subseteq Token
      /\ \A t \in released : IF strategy = "sequential" THEN t.id \in 0..(Genesis - 1)
                             ELSE t.id \in Uuids
      /\ \A t, u \in released : t.id = u.id => t = u
  BY <1>1, <1>2, IdsAssumption DEF GenesisTokens, Token, Ids
<1>6. TypeOK
  BY <1>1, <1>2, <1>3, <1>4, <1>5 DEF TypeOK
<1>7. LockOK /\ WritersOK
  BY <1>1, <1>4 DEF LockOK, WritersOK, IsInjective, CriticalPCs
<1>8. ReleasedOK
  BY <1>1, <1>2, <1>3, <1>5 DEF ReleasedOK
<1>9. \A s \in Slots : MintOK(s) /\ TransferOK(s)
  BY <1>4, AllIdle
<1>10. OverrunBounded /\ Limited(disk)
  <2> DEFINE n == Cardinality(Slots)
             B == {s \in Slots : run[s].pc = "building"}
  <2>1. Cardinality(B) = 0
    BY <1>4, AllIdle, FS_EmptySet
  <2>2. n \in Nat /\ n > 0
    BY BoundsAssumption, FS_CardinalityType, FS_EmptySet
  <2>3. totalSupply > 0 => Genesis <= totalSupply
    BY <1>1, BoundsAssumption
  <2> HIDE DEF n, B
  <2>4. totalSupply > 0 => Genesis + Cardinality(B) <= totalSupply + n - 1
    BY <1>2, <2>1, <2>2, <2>3
  <2>5. totalSupply > 0 => Genesis <= totalSupply + n - 1
    BY <1>2, <2>2, <2>3
  <2> QED
    BY <1>1, <1>3, <2>4, <2>5 DEF OverrunBounded, Limited, n, B
<1>11. StoreOK
  BY <1>1, <1>3, <1>10 DEF StoreOK, NoLater, ForgeState
<1> QED
  BY <1>6, <1>7, <1>8, <1>9, <1>10, <1>11 DEF ForgeOK

LEMMA StepKeeps ==
    ASSUME ForgeOK, [Next]_vars
    PROVE  ForgeOK'
<1>1. ASSUME NEW s \in Slots, HandlerStep(s)
      PROVE  ForgeOK'
  BY <1>1, ReceiveKept, EnqueueKept, MintCheckKept, MintBuiltKept, MintSignedKept, MintSendKept,
     TransferValidateKept, TransferRecipientKept, TransferReturnKept, TransferMarkKept,
     TransferSaveKept, TransferSendKept, BurnMarkKept, BurnSettleKept, BurnCountKept,
     BurnReturnKept
  DEF HandlerStep
<1>2. CASE Tick
  <2>1. now' \in 0..MaxTime
    <3>1. now' = now + 1 /\ now < MaxTime /\ now \in 0..MaxTime /\ MaxTime \in Nat
      BY <1>2, BoundsAssumption DEF Tick, ForgeOK, TypeOK
    <3> QED
      BY <3>1
  <2> QED
    BY <1>2, <2>1, Unmoved DEF Tick, config
<1>3. CASE UNCHANGED vars
  <2>1. now' \in 0..MaxTime
    BY <1>3 DEF vars, ForgeOK, TypeOK
  <2> QED
    BY <1>3, <2>1, Unmoved DEF vars, config
<1> QED
  BY <1>1, <1>2, <1>3, QueuedSaveKept, WriteLandsKept, WriteFailsKept, CrashKept, LoadStateKept
  DEF Next

-----------------------------------------------------------------------------
(* How two sets, counted together, change in a step.                       *)
LEMMA Together ==
    ASSUME NEW S, NEW D, NEW T, NEW E, IsFiniteSet(S), IsFiniteSet(D), T \subseteq S, E \subseteq D
    PROVE  /\ IsFiniteSet(T) /\ IsFiniteSet(E)
           /\ Cardinality(T) + Cardinality(E) <= Cardinality(S) + Cardinality(D)
<1>1. /\ IsFiniteSet(T) /\ Cardinality(T) <= Cardinality(S)
      /\ IsFiniteSet(E) /\ Cardinality(E) <= Cardinality(D)
  BY FS_Subset
<1>2. /\ Cardinality(T) \in Nat /\ Cardinality(S) \in Nat
      /\ Cardinality(E) \in Nat /\ Cardinality(D) \in Nat
  BY <1>1, FS_CardinalityType
<1> QED
  BY <1>1, <1>2

LEMMA OneMore ==
    ASSUME NEW S, NEW T, NEW x, IsFiniteSet(S), T \subseteq S \cup {x}
    PROVE  /\ IsFiniteSet(T) /\ Cardinality(T) \in Nat /\ Cardinality(S) \in Nat
           /\ Cardinality(T) <= Cardinality(S) + 1
<1>1. IsFiniteSet(S \cup {x}) /\ Cardinality(S \cup {x}) <= Cardinality(S) + 1
      /\ Cardinality(S) \in Nat
  BY FS_AddElement, FS_CardinalityType
<1>2. IsFiniteSet(T) /\ Cardinality(T) <= Cardinality(S \cup {x})
  BY <1>1, FS_Subset
<1>3. Cardinality(T) \in Nat /\ Cardinality(S \cup {x}) \in Nat
  BY <1>1, <1>2, FS_CardinalityType
<1> QED
  BY <1>1, <1>2, <1>3

LEMMA OneLess ==
    ASSUME NEW S, NEW T, NEW x \in S, IsFiniteSet(S), T \subseteq S \ {x}
    PROVE  /\ IsFiniteSet(T) /\ Cardinality(T) \in Nat /\ Cardinality(S) \in Nat
           /\ Cardinality(T) + 1 <= Cardinality(S)
<1>1. IsFiniteSet(S \ {x}) /\ Cardinality(S \ {x}) = Cardinality(S) - 1
      /\ Cardinality(S) \in Nat
  BY FS_RemoveElement, FS_CardinalityType
<1>2. IsFiniteSet(T) /\ Cardinality(T) <= Cardinality(S \ {x})
  BY <1>1, FS_Subset
<1>3. Cardinality(T) \in Nat
  BY <1>2, FS_CardinalityType
<1> QED
  BY <1>1, <1>2, <1>3

(* One passes from the second set to the first, or back.                   *)
LEMMA PassedOver ==
    ASSUME NEW S, NEW D, NEW T, NEW E, NEW x, NEW s \in D, IsFiniteSet(S), IsFiniteSet(D),
           T \subseteq S \cup {x}, E \subseteq D \ {s}
    PROVE  Cardinality(T) + Cardinality(E) <= Cardinality(S) + Cardinality(D)
<1>1. /\ Cardinality(T) \in Nat /\ Cardinality(S) \in Nat
      /\ Cardinality(T) <= Cardinality(S) + 1
  BY OneMore
<1>2. /\ Cardinality(E) \in Nat /\ Cardinality(D) \in Nat
      /\ Cardinality(E) + 1 <= Cardinality(D)
  BY OneLess
<1> QED
  BY <1>1, <1>2

-----------------------------------------------------------------------------
LEMMA Finite ==
    ASSUME ForgeOK, CoverOK
    PROVE  /\ IsFiniteSet(Outstanding) /\ \A k : IsFiniteSet(DueBy(k))
           /\ \A state : IsFiniteSet(released \ state.spent)
<1>1. IsFiniteSet(released) /\ IsFiniteSet(Slots)
  BY BoundsAssumption DEF CoverOK
<1>2. Outstanding \subseteq Slots /\ \A k : DueBy(k) \subseteq Slots
  BY DEF Outstanding, DueBy
<1>3. \A state : released \ state.spent \subseteq released
  OBVIOUS
<1> QED
  BY <1>1, <1>2, <1>3, FS_Subset

(* What is counted, and who is due, are numbers.                           *)
LEMMA Numbers ==
    ASSUME ForgeOK, CoverOK
    PROVE  /\ Cardinality(Outstanding) \in Nat /\ \A k : Cardinality(DueBy(k)) \in Nat
           /\ \A state : Cardinality(released \ state.spent) \in Nat
           /\ mem.circulating \in Nat /\ disk.circulating \in Nat
           /\ \A k \in DOMAIN writes : writes[k].snap.circulating \in Nat
<1>1. \A k \in DOMAIN writes : writes[k] \in Write
  BY DEF ForgeOK, TypeOK
<1> QED
  BY <1>1, Finite, FS_CardinalityType DEF ForgeOK, TypeOK, ForgeState, Write

(* The writes before a step are those after it, but for a new one.         *)
LEMMA Filed ==
    ASSUME TypeOK, NEW w \in Write, writes' = writes \/ writes' = Append(writes, w)
    PROVE  /\ \A i \in DOMAIN writes : /\ i \in DOMAIN writes' /\ writes'[i] = writes[i]
                                       /\ i \in Nat /\ i < Len(writes) + 1
           /\ \A i \in DOMAIN writes' :
                 \/ i \in DOMAIN writes
                 \/ i = Len(writes) + 1 /\ writes'[i] = w
           /\ Len(writes) \in Nat
<1>0. Len(writes) \in Nat /\ DOMAIN writes = 1..Len(writes)
  BY DEF TypeOK
<1>1. CASE writes' = writes
  BY <1>0, <1>1
<1>2. CASE writes' = Append(writes, w)
  <2>1. /\ DOMAIN writes' = 1..(Len(writes) + 1)
        /\ \A i \in DOMAIN writes : writes'[i] = writes[i]
        /\ writes'[Len(writes) + 1] = w
    BY <1>2, Appended
  <2> QED
    BY <1>0, <2>1
<1> QED
  BY <1>1, <1>2

(* A step that hands no token out.  Those due by an older copy were due,   *)
(* and a new copy is one of the memory.                                    *)
LEMMA StepCovered ==
    ASSUME ForgeOK, CoverOK, NEW by \in Slots \cup {"queue"}, up, up', mem' \in ForgeState,
           disk' = disk, released' = released,
           \A x \in Slots \ {by} : run'[x] = run[x],
           writes' = writes \/ writes' = Append(writes, [by |-> by, snap |-> mem']),
           by \in Slots => Saved(by),
           by \in Slots /\ run'[by].pc = "resaving" => run[by].pc = "marking",
           by \in Slots /\ run'[by].pc \in {"minting", "marking"} => ~Saved(by)',
           Covers(mem, Outstanding)'
    PROVE  CoverOK'
<1> DEFINE w == [by |-> by, snap |-> mem']
<1>1. w \in Write /\ w.by = by /\ w.snap = mem'
  BY DEF Write
<1> HIDE DEF w
<1>2. /\ \A i \in DOMAIN writes : /\ i \in DOMAIN writes' /\ writes'[i] = writes[i]
                                  /\ i \in Nat /\ i < Len(writes) + 1
      /\ \A i \in DOMAIN writes' :
            i \in DOMAIN writes \/ (i = Len(writes) + 1 /\ writes'[i] = w)
      /\ Len(writes) \in Nat
  BY <1>1, Filed DEF ForgeOK, w
<1>3. ASSUME NEW k \in {0} \cup DOMAIN writes
      PROVE  DueBy(k)' \subseteq DueBy(k)
  <2>1. ASSUME NEW x \in Slots, x \in DueBy(k)', x # by
        PROVE  x \in DueBy(k)
    BY <1>2, <2>1 DEF DueBy
  <2>2. ASSUME by \in Slots, by \in DueBy(k)'
        PROVE  by \in DueBy(k)
    <3>1. CASE run'[by].pc = "resaving"
      BY <2>2, <3>1 DEF DueBy, Saved
    <3>2. CASE run'[by].pc # "resaving"
      <4>1. /\ run'[by].pc \in {"minting", "marking"}
            /\ \A i \in DOMAIN writes' : writes'[i].by = by => i <= k
        BY <2>2, <3>2 DEF DueBy
      <4>2. PICK i \in DOMAIN writes' : writes'[i].by = by
        BY <2>2, <4>1 DEF Saved
      <4>3. i \notin DOMAIN writes
        BY <1>2, <2>2, <4>2 DEF Saved
      <4>4. i = Len(writes) + 1 /\ i <= k
        BY <1>2, <4>1, <4>2, <4>3
      <4> QED
        BY <1>2, <4>4
    <3> QED
      BY <3>1, <3>2
  <2> QED
    BY <2>1, <2>2 DEF DueBy
<1>4. \A k : DueBy(k)' \subseteq Outstanding'
  BY DEF DueBy, Outstanding
<1>5. IsFiniteSet(Slots) /\ Outstanding' \subseteq Slots
  BY BoundsAssumption DEF Outstanding
<1>6. IsFiniteSet(Outstanding') /\ IsFiniteSet(released' \ mem'.spent)
  BY <1>5, FS_Subset, Finite
<1>7. Covers(disk, DueBy(0))'
  <2>1. Cardinality(released \ disk.spent) + Cardinality(DueBy(0)') <=
            Cardinality(released \ disk.spent) + Cardinality(DueBy(0))
        /\ IsFiniteSet(DueBy(0)')
    BY <1>3, Finite, Together
  <2>2. Cardinality(DueBy(0)') \in Nat
    BY <2>1, FS_CardinalityType
  <2> QED
    BY <2>1, <2>2, Numbers DEF CoverOK, Covers
<1>8. ASSUME NEW k \in DOMAIN writes'
      PROVE  Covers(writes[k].snap, DueBy(k))'
  <2>1. CASE k \in DOMAIN writes
    <3> DEFINE c == writes[k].snap
    <3>1. Cardinality(released \ c.spent) + Cardinality(DueBy(k)') <=
              Cardinality(released \ c.spent) + Cardinality(DueBy(k))
          /\ IsFiniteSet(DueBy(k)')
      <4>1. IsFiniteSet(released \ c.spent) /\ IsFiniteSet(DueBy(k)) /\ DueBy(k)' \subseteq DueBy(k)
        BY <1>3, <2>1, Finite
      <4> QED
        BY <4>1, Together
    <3>2. Cardinality(DueBy(k)') \in Nat
      BY <3>1, FS_CardinalityType
    <3>3. Cardinality(released \ c.spent) + Cardinality(DueBy(k)) <= c.circulating
      BY <2>1 DEF CoverOK, Covers
    <3>4. writes'[k].snap = c
      BY <1>2, <2>1
    <3>5. Cardinality(released \ c.spent) + Cardinality(DueBy(k)') <= c.circulating
      BY <2>1, <3>1, <3>2, <3>3, Numbers
    <3> QED
      BY <3>4, <3>5 DEF Covers
  <2>2. CASE k \notin DOMAIN writes
    <3>1. writes'[k].snap = mem'
      BY <1>1, <1>2, <2>2
    <3>2. Cardinality(released' \ mem'.spent) + Cardinality(DueBy(k)') <=
              Cardinality(released' \ mem'.spent) + Cardinality(Outstanding')
          /\ IsFiniteSet(DueBy(k)')
      BY <1>4, <1>6, Together
    <3>3. Cardinality(released' \ mem'.spent) + Cardinality(Outstanding') <= mem'.circulating
      BY DEF Covers
    <3>4. /\ Cardinality(DueBy(k)') \in Nat /\ Cardinality(Outstanding') \in Nat
          /\ Cardinality(released' \ mem'.spent) \in Nat /\ mem'.circulating \in Nat
      BY <1>6, <3>2, FS_CardinalityType DEF ForgeState
    <3>5. Cardinality(released' \ mem'.spent) + Cardinality(DueBy(k)') <= mem'.circulating
      BY <3>2, <3>3, <3>4
    <3> QED
      BY <3>1, <3>5 DEF Covers
  <2> QED
    BY <2>1, <2>2
<1> QED
  BY <1>7, <1>8 DEF CoverOK


OwingPCs == {"signing", "minting", "marking", "resaving", "burning", "burned"}

(* A step that neither counts nor marks a token.                           *)
LEMMA QuietCovered ==
    ASSUME ForgeOK, CoverOK, NEW s \in Slots, up, up', Saved(s), disk' = disk,
           released' = released, mem' \in ForgeState, mem'.spent = mem.spent,
           mem'.circulating = mem.circulating,
           \A x \in Slots \ {s} : run'[x] = run[x],
           writes' = writes \/ writes' = Append(writes, [by |-> s, snap |-> mem']),
           run'[s].pc \in OwingPCs => run[s].pc \in OwingPCs,
           run'[s].pc = "resaving" => run[s].pc = "marking",
           run'[s].pc \in {"minting", "marking"} => ~Saved(s)'
    PROVE  CoverOK'
<1>1. Outstanding' \subseteq Outstanding
  BY DEF Outstanding, OwingPCs
<1>2. IsFiniteSet(Outstanding') /\
      Cardinality(released \ mem.spent) + Cardinality(Outstanding') <=
          Cardinality(released \ mem.spent) + Cardinality(Outstanding)
  BY <1>1, Finite, Together
<1>3. Cardinality(Outstanding') \in Nat
  BY <1>2, FS_CardinalityType
<1>4. Covers(mem, Outstanding)'
  BY <1>2, <1>3, Numbers DEF CoverOK, Covers
<1> QED
  BY <1>4, StepCovered

LEMMA EndCovered ==
    ASSUME ForgeOK, CoverOK, NEW s \in Slots, up, Saved(s), End(s),
           UNCHANGED <<mem, disk, writes, up, released>>
    PROVE  CoverOK'
<1>1. Only(s) /\ run'[s].pc = "idle"
  BY Ended DEF ForgeOK
<1>2. mem \in ForgeState
  BY DEF ForgeOK, TypeOK
<1> QED
  BY <1>1, <1>2, QuietCovered DEF Only, OwingPCs

LEMMA GotoCovered ==
    ASSUME ForgeOK, CoverOK, NEW s \in Slots, up, Saved(s),
           NEW pc \in {"queued", "recipient", "burned"}, Goto(s, pc),
           pc = "burned" => run[s].pc = "burning",
           UNCHANGED <<mem, disk, writes, up, released>>
    PROVE  CoverOK'
<1>1. Only(s) /\ run'[s].pc = pc
  BY Moved DEF ForgeOK, PCs, CriticalPCs
<1>2. mem \in ForgeState
  BY DEF ForgeOK, TypeOK
<1> QED
  BY <1>1, <1>2, QuietCovered DEF Only, OwingPCs

LEMMA ReceiveCovered ==
    ASSUME ForgeOK, CoverOK, NEW s \in Slots, Receive(s)
    PROVE  CoverOK'
<1>1. PICK q : run' = [run EXCEPT ![s] = [IdleRun EXCEPT !.pc = "received", !.req = q]]
  BY DEF Receive
<1>2. run'[s].pc = "received" /\ \A x \in Slots \ {s} : run'[x] = run[x]
  BY <1>1 DEF ForgeOK, TypeOK, IdleRun
<1>3. up /\ Saved(s) /\ mem \in ForgeState
  BY NotWaiting DEF Receive, At, ForgeOK, TypeOK, SavingPCs
<1> QED
  BY <1>2, <1>3, QuietCovered DEF Receive, OwingPCs

LEMMA MintCheckCovered ==
    ASSUME ForgeOK, CoverOK, NEW s \in Slots, MintCheck(s)
    PROVE  CoverOK'
<1>1. up /\ Saved(s) /\ mem \in ForgeState /\ run[s] \in Run
  BY NotWaiting DEF MintCheck, At, ForgeOK, TypeOK, SavingPCs
<1>2. CASE WithinSupply
  <2>1. PICK id :
          /\ run' = [run EXCEPT ![s].pc = "building", ![s].new = NewToken(id, Req(s).to)]
          /\ mem' = [mem EXCEPT !.last = IF strategy = "sequential" THEN @ + 1 ELSE @]
    BY <1>2 DEF MintCheck
  <2>2. run'[s].pc = "building" /\ \A x \in Slots \ {s} : run'[x] = run[x]
    BY <1>1, <2>1 DEF ForgeOK, TypeOK, Run
  <2> DEFINE n == IF strategy = "sequential" THEN mem.last + 1 ELSE mem.last
  <2>3. n \in Nat /\ mem' = [mem EXCEPT !.last = n]
    BY <1>1, <2>1 DEF ForgeState
  <2> HIDE DEF n
  <2>4. mem' \in ForgeState /\ mem'.spent = mem.spent /\ mem'.circulating = mem.circulating
    BY <1>1, <2>3 DEF ForgeState
  <2> QED
    BY <1>1, <2>2, <2>4, QuietCovered DEF MintCheck, OwingPCs
<1>3. CASE ~WithinSupply
  BY <1>1, <1>3, EndCovered DEF MintCheck
<1> QED
  BY <1>2, <1>3

LEMMA MintSignedCovered ==
    ASSUME ForgeOK, CoverOK, NEW s \in Slots, MintSigned(s)
    PROVE  CoverOK'
<1>1. up /\ Saved(s) /\ mem \in ForgeState /\ run[s].pc = "signing" /\ mem' = mem
  BY NotWaiting DEF MintSigned, At, ForgeOK, TypeOK, SavingPCs
<1>2. Only(s) /\ run'[s].pc = "minting"
  BY Moved DEF MintSigned, PCs, ForgeOK
<1>3. writes' = Append(writes, [by |-> s, snap |-> mem']) /\ ~Saved(s)'
  BY <1>1, OwnWrite DEF MintSigned, ForgeOK
<1> QED
  BY <1>1, <1>2, <1>3, QuietCovered DEF MintSigned, Only, OwingPCs

LEMMA TransferSaveCovered ==
    ASSUME ForgeOK, CoverOK, NEW s \in Slots, TransferSave(s)
    PROVE  CoverOK'
<1>1. up /\ Saved(s) /\ mem \in ForgeState /\ run[s].pc = "marking" /\ mem' = mem
  BY DEF TransferSave, At, ForgeOK, TypeOK
<1>2. Only(s) /\ run'[s].pc = "resaving"
  BY Moved DEF TransferSave, PCs, CriticalPCs, ForgeOK
<1>3. writes' = Append(writes, [by |-> s, snap |-> mem'])
  BY <1>1, OwnWrite DEF TransferSave, ForgeOK
<1> QED
  BY <1>1, <1>2, <1>3, QuietCovered DEF TransferSave, Only, OwingPCs

LEMMA RecipientCovered ==
    ASSUME ForgeOK, CoverOK, NEW s \in Slots, TransferRecipient(s)
    PROVE  CoverOK'
<1>1. up /\ Saved(s) /\ mem \in ForgeState /\ run[s] \in Run
  BY NotWaiting DEF TransferRecipient, At, ForgeOK, TypeOK, SavingPCs
<1>2. CASE Leave(s)
  BY <1>1, <1>2, EndCovered DEF TransferRecipient, Leave
<1>3. CASE ~Leave(s)
  <2>1. PICK used, old, new :
          run' = [run EXCEPT ![s].pc = "forged", ![s].used = used, ![s].old = old,
                             ![s].new = new]
    <3>1. PICK i : run' = [run EXCEPT
                 ![s].pc = "forged", ![s].used = @ \cup {i}, ![s].old = Req(s).ins[i],
                 ![s].new = NewToken(NumericId(Req(s).ins[i].id),
                                     Req(s).outs[run[s].next].to)]
      BY <1>3 DEF TransferRecipient
    <3>2. run' = [run EXCEPT
                 ![s].pc = "forged", ![s].used = run[s].used \cup {i}, ![s].old = Req(s).ins[i],
                 ![s].new = NewToken(NumericId(Req(s).ins[i].id),
                                     Req(s).outs[run[s].next].to)]
      BY <1>1, <3>1 DEF Run, ForgeOK, TypeOK
    <3> QED
      BY <3>2
  <2>2. run'[s].pc = "forged" /\ \A x \in Slots \ {s} : run'[x] = run[x]
    BY <1>1, <2>1 DEF ForgeOK, TypeOK, Run
  <2> QED
    BY <1>1, <2>2, QuietCovered DEF TransferRecipient, OwingPCs
<1> QED
  BY <1>2, <1>3

-----------------------------------------------------------------------------
(* The steps that count a token, or mark one as spent.                     *)
LEMMA MintBuiltCovered ==
    ASSUME ForgeOK, CoverOK, NEW s \in Slots, MintBuilt(s)
    PROVE  CoverOK'
<1>1. up /\ Saved(s) /\ mem \in ForgeState /\ run[s].pc = "building"
  BY NotWaiting DEF MintBuilt, At, ForgeOK, TypeOK, SavingPCs
<1>2. Only(s) /\ run'[s].pc = "signing"
  BY Moved DEF MintBuilt, PCs, ForgeOK
<1> DEFINE n == mem.circulating + 1
<1>3. n \in Nat /\ mem' = [mem EXCEPT !.circulating = n]
  BY <1>1 DEF MintBuilt, ForgeState
<1> HIDE DEF n
<1>4. mem' \in ForgeState /\ mem'.spent = mem.spent /\ mem'.circulating = n
  BY <1>1, <1>3 DEF ForgeState
<1>5. Outstanding' \subseteq Outstanding \cup {s}
  BY <1>2 DEF Outstanding, Only
<1>6. Cardinality(Outstanding') \in Nat /\ Cardinality(Outstanding') <= Cardinality(Outstanding) + 1
  BY <1>5, Finite, OneMore
<1>7. Cardinality(released \ mem.spent) + Cardinality(Outstanding) <= mem.circulating
  BY <1>1 DEF CoverOK, Covers
<1>8. Cardinality(released \ mem.spent) + Cardinality(Outstanding') <= n
  BY <1>6, <1>7, Numbers DEF n
<1>9. UNCHANGED <<disk, writes, up, released>>
  BY DEF MintBuilt
<1>10. Covers(mem, Outstanding)'
  BY <1>4, <1>8, <1>9 DEF Covers
<1> QED
  BY <1>1, <1>2, <1>4, <1>9, <1>10, StepCovered DEF Only

LEMMA SpendCovered ==
    ASSUME ForgeOK, CoverOK, NEW s \in Slots, NEW t \in Token, t \in released \ mem.spent,
           NEW pc \in {"marking", "burning"}, up, Saved(s), Spend(s, t), Goto(s, pc),
           UNCHANGED <<disk, up, released>>
    PROVE  CoverOK'
<1>1. /\ mem' \in ForgeState /\ mem'.spent = mem.spent \cup {t}
      /\ mem'.circulating = mem.circulating
      /\ writes' = Append(writes, [by |-> s, snap |-> mem']) /\ ~Saved(s)'
  BY SpendState
<1>2. Only(s) /\ run'[s].pc = pc
  BY Moved DEF PCs, CriticalPCs, ForgeOK
<1>3. Outstanding' \subseteq Outstanding \cup {s}
  BY <1>2 DEF Outstanding, Only
<1>4. released' \ mem'.spent \subseteq (released \ mem.spent) \ {t}
  BY <1>1
<1>5. Cardinality(released' \ mem'.spent) \in Nat
      /\ Cardinality(released' \ mem'.spent) + 1 <= Cardinality(released \ mem.spent)
  BY <1>4, Finite, OneLess
<1>6. Cardinality(Outstanding') \in Nat /\ Cardinality(Outstanding') <= Cardinality(Outstanding) + 1
  BY <1>3, Finite, OneMore
<1>7. Cardinality(released \ mem.spent) + Cardinality(Outstanding) <= mem.circulating
  BY DEF CoverOK, Covers
<1>8. Cardinality(released' \ mem'.spent) + Cardinality(Outstanding') <= mem'.circulating
  BY <1>1, <1>5, <1>6, <1>7, Numbers
<1>9. Covers(mem, Outstanding)'
  BY <1>8 DEF Covers
<1> QED
  BY <1>1, <1>2, <1>9, StepCovered DEF Only

LEMMA TransferMarkCovered ==
    ASSUME ForgeOK, CoverOK, NEW s \in Slots, TransferMark(s)
    PROVE  CoverOK'
<1>1. up /\ run[s].pc = "forged" /\ Saved(s) /\ TransferOK(s)
  BY NotWaiting DEF TransferMark, At, ForgeOK, SavingPCs
<1>2. run[s].old \in released \ mem.spent /\ run[s].old \in Token
  BY <1>1 DEF TransferOK, ForgeOK, TypeOK
<1> QED
  BY <1>1, <1>2, SpendCovered DEF TransferMark

LEMMA BurnMarkCovered ==
    ASSUME ForgeOK, CoverOK, NEW s \in Slots, BurnMark(s)
    PROVE  CoverOK'
<1>1. up /\ Saved(s) /\ TransferOK(s) /\ run[s].pc = "queued" /\ Req(s).op = "burn"
  BY NotWaiting DEF BurnMark, At, ForgeOK, SavingPCs
<1>2. CASE Req(s).ins[1] \in mem.spent
  BY <1>1, <1>2, EndCovered DEF BurnMark, Leave
<1>3. CASE Req(s).ins[1] \notin mem.spent
  <2>1. /\ run[s].req.ins # <<>> /\ run[s].req \in AnyRequest
        /\ ToSet(run[s].req.ins) \subseteq released
    BY <1>1 DEF TransferOK, Req
  <2>2. 1 \in DOMAIN run[s].req.ins
    BY <2>1 DEF AnyRequest
  <2>3. Req(s).ins[1] \in released
    BY <2>1, <2>2 DEF ToSet, Req
  <2>4. Req(s).ins[1] \in Token
    BY <2>3 DEF ForgeOK, TypeOK
  <2> QED
    BY <1>1, <1>3, <2>3, <2>4, SpendCovered DEF BurnMark
<1> QED
  BY <1>2, <1>3

LEMMA BurnCountCovered ==
    ASSUME ForgeOK, CoverOK, NEW s \in Slots, BurnCount(s)
    PROVE  CoverOK'
<1>1. up /\ Saved(s) /\ mem \in ForgeState /\ run[s].pc = "burned"
  BY NotWaiting DEF BurnCount, At, ForgeOK, TypeOK, SavingPCs
<1>2. Only(s) /\ run'[s].pc = "counting"
  BY Moved DEF BurnCount, PCs, ForgeOK
<1>3. Outstanding' \subseteq Outstanding \ {s} /\ s \in Outstanding
  BY <1>1, <1>2 DEF Outstanding, Only
<1>4. Cardinality(Outstanding') \in Nat /\ Cardinality(Outstanding') + 1 <= Cardinality(Outstanding)
  BY <1>3, Finite, OneLess
<1>5. Cardinality(released \ mem.spent) + Cardinality(Outstanding) <= mem.circulating
  BY <1>1 DEF CoverOK, Covers
<1> DEFINE n == Lowered(mem.circulating)
<1>6. n \in Nat /\ Cardinality(released \ mem.spent) + Cardinality(Outstanding') <= n
  BY <1>4, <1>5, Numbers DEF Lowered
<1>7. mem' = [mem EXCEPT !.circulating = n]
  BY DEF BurnCount
<1> HIDE DEF n
<1>8. mem' \in ForgeState /\ mem'.spent = mem.spent /\ mem'.circulating = n
  BY <1>1, <1>6, <1>7 DEF ForgeState
<1>9. writes' = Append(writes, [by |-> s, snap |-> mem'])
  BY <1>1, <1>8, OwnWrite DEF BurnCount, ForgeOK
<1>10. UNCHANGED <<disk, up, released>>
  BY DEF BurnCount
<1>11. Covers(mem, Outstanding)'
  BY <1>6, <1>8, <1>10 DEF Covers
<1> QED
  BY <1>1, <1>2, <1>8, <1>9, <1>10, <1>11, StepCovered DEF Only


-----------------------------------------------------------------------------
(* The steps that hand a token out: who was due is not any more, of every  *)
(* copy that does not yet know that it has left.                           *)
LEMMA SentCovered ==
    ASSUME ForgeOK, CoverOK, NEW s \in Slots, up, Saved(s), run[s].pc \in {"minting", "resaving"},
           released' = released \cup Handed(run[s].new), UNCHANGED <<mem, disk, writes, up>>,
           \A x \in Slots \ {s} : run'[x] = run[x], run'[s].pc \in {"idle", "recipient"}
    PROVE  CoverOK'
<1>1. released' \subseteq released \cup {run[s].new} /\ IsFiniteSet(released')
  <2>1. released' \subseteq released \cup {run[s].new}
    BY DEF Handed
  <2> QED
    BY <2>1, OneMore DEF CoverOK
<1>2. /\ s \in Outstanding /\ Outstanding' \subseteq Outstanding \ {s}
      /\ \A k \in {0} \cup DOMAIN writes : s \in DueBy(k) /\ DueBy(k)' \subseteq DueBy(k) \ {s}
  BY DEF Outstanding, DueBy, Saved
<1>3. ASSUME NEW state, NEW D, NEW E, IsFiniteSet(D), s \in D, E \subseteq D \ {s},
             state.circulating \in Nat, Covers(state, D)
      PROVE  Cardinality(released' \ state.spent) + Cardinality(E) <= state.circulating
  <2>1. IsFiniteSet(released \ state.spent)
    BY Finite
  <2>2. released' \ state.spent \subseteq (released \ state.spent) \cup {run[s].new}
    BY <1>1
  <2>3. Cardinality(released' \ state.spent) + Cardinality(E) <=
            Cardinality(released \ state.spent) + Cardinality(D)
    BY <1>3, <2>1, <2>2, PassedOver
  <2>4. /\ Cardinality(released' \ state.spent) \in Nat /\ Cardinality(E) \in Nat
        /\ Cardinality(released \ state.spent) \in Nat /\ Cardinality(D) \in Nat
    BY <1>1, <1>3, <2>1, FS_Subset, FS_CardinalityType, FS_RemoveElement
  <2> QED
    BY <1>3, <2>3, <2>4 DEF Covers
<1>4. Covers(mem, Outstanding)'
  <2>1. Cardinality(released' \ mem.spent) + Cardinality(Outstanding') <= mem.circulating
    BY <1>2, <1>3, Finite, Numbers DEF CoverOK
  <2> QED
    BY <2>1 DEF Covers
<1>5. Covers(disk, DueBy(0))'
  <2>1. Cardinality(released' \ disk.spent) + Cardinality(DueBy(0)') <= disk.circulating
    BY <1>2, <1>3, Finite, Numbers DEF CoverOK
  <2> QED
    BY <2>1 DEF Covers
<1>6. ASSUME NEW k \in DOMAIN writes
      PROVE  Covers(writes[k].snap, DueBy(k))'
  <2>1. Cardinality(released' \ writes[k].snap.spent) + Cardinality(DueBy(k)') <=
            writes[k].snap.circulating
    BY <1>2, <1>3, Finite, Numbers DEF CoverOK
  <2> QED
    BY <2>1 DEF Covers
<1> QED
  BY <1>1, <1>4, <1>5, <1>6 DEF CoverOK

LEMMA MintSendCovered ==
    ASSUME ForgeOK, CoverOK, NEW s \in Slots, MintSend(s)
    PROVE  CoverOK'
<1>1. Only(s) /\ run'[s].pc = "idle"
  BY Ended DEF MintSend, ForgeOK
<1> QED
  BY <1>1, SentCovered DEF MintSend, At, Only

LEMMA TransferSendCovered ==
    ASSUME ForgeOK, CoverOK, NEW s \in Slots, TransferSend(s)
    PROVE  CoverOK'
<1>1. run'[s].pc \in {"idle", "recipient"} /\ \A x \in Slots \ {s} : run'[x] = run[x]
  <2>1. CASE Leave(s)
    BY <2>1, Ended DEF Leave, Only, ForgeOK
  <2>2. CASE ~Leave(s)
    BY <2>2 DEF TransferSend, ForgeOK, TypeOK, Run
  <2> QED
    BY <2>1, <2>2
<1> QED
  BY <1>1, SentCovered DEF TransferSend, At

-----------------------------------------------------------------------------
(* Who is due when the oldest write is gone was due by the next copy.      *)
LEMMA DueLater ==
    ASSUME ForgeOK, writes # <<>>, writes' = Tail(writes), NEW k \in Nat,
           \A x \in Slots : run'[x] = run[x] \/ run'[x].pc = "idle"
    PROVE  /\ DueBy(k)' \subseteq DueBy(k + 1)
           /\ (\A x \in Slots : writes[1].by = x => run'[x].pc = "idle") =>
                  DueBy(0)' \subseteq DueBy(0)
<1>1. /\ DOMAIN writes = 1..Len(writes) /\ Len(writes) \in Nat \ {0}
      /\ DOMAIN writes' = 1..(Len(writes) - 1)
      /\ \A i \in DOMAIN writes' : writes'[i] = writes[i + 1]
  BY Removed DEF ForgeOK
<1>2. ASSUME NEW i \in DOMAIN writes, i # 1
      PROVE  i - 1 \in DOMAIN writes' /\ writes'[i - 1] = writes[i] /\ i \in Nat /\ ~(i - 1 <= 0)
  <2>1. i - 1 \in DOMAIN writes' /\ (i - 1) + 1 = i /\ i \in Nat /\ ~(i - 1 <= 0)
    BY <1>1, <1>2
  <2> QED
    BY <1>1, <2>1
<1>3. ASSUME NEW x \in Slots, x \in DueBy(k)'
      PROVE  x \in DueBy(k + 1)
  <2>1. run'[x] = run[x]
    BY <1>3 DEF DueBy
  <2>2. ASSUME \A i \in DOMAIN writes' : writes'[i].by = x => i <= k,
               NEW i \in DOMAIN writes, writes[i].by = x
        PROVE  i <= k + 1
    <3>1. CASE i = 1
      BY <3>1
    <3>2. CASE i # 1
      <4>1. i - 1 <= k /\ i \in Nat
        BY <1>2, <2>2, <3>2
      <4> QED
        BY <4>1
    <3> QED
      BY <3>1, <3>2
  <2> QED
    BY <1>3, <2>1, <2>2 DEF DueBy
<1>4. ASSUME \A x \in Slots : writes[1].by = x => run'[x].pc = "idle",
             NEW x \in Slots, x \in DueBy(0)'
      PROVE  x \in DueBy(0)
  <2>1. run'[x] = run[x] /\ writes[1].by # x
    BY <1>4 DEF DueBy
  <2>2. ASSUME \A i \in DOMAIN writes' : writes'[i].by = x => i <= 0
        PROVE  \A i \in DOMAIN writes : writes[i].by # x
    BY <1>2, <2>1, <2>2
  <2> QED
    BY <1>4, <2>1, <2>2 DEF DueBy
<1> QED
  BY <1>3, <1>4 DEF DueBy

(* Fewer are due, and nothing else has changed.                            *)
LEMMA FewerDue ==
    ASSUME ForgeOK, CoverOK, released' = released, NEW state, NEW D, NEW E, IsFiniteSet(D),
           E \subseteq D, state.circulating \in Nat, Covers(state, D)
    PROVE  Cardinality(released' \ state.spent) + Cardinality(E) <= state.circulating
<1>1. IsFiniteSet(released \ state.spent)
  BY Finite
<1>2. /\ IsFiniteSet(E)
      /\ Cardinality(released \ state.spent) + Cardinality(E) <=
            Cardinality(released \ state.spent) + Cardinality(D)
  BY <1>1, Together
<1>3. /\ Cardinality(released \ state.spent) \in Nat /\ Cardinality(E) \in Nat
      /\ Cardinality(D) \in Nat
  BY <1>1, <1>2, FS_CardinalityType
<1> QED
  BY <1>2, <1>3 DEF Covers

(* The oldest write has landed or failed.                                  *)
LEMMA PoppedCovered ==
    ASSUME ForgeOK, CoverOK, writes # <<>>, writes' = Tail(writes),
           UNCHANGED <<mem, up, released>>,
           \A x \in Slots : run'[x] = run[x] \/ run'[x].pc = "idle",
           \/ disk' = Head(writes).snap
           \/ disk' = disk /\ (\A x \in Slots : writes[1].by = x => run'[x].pc = "idle")
    PROVE  CoverOK'
<1>1. /\ DOMAIN writes = 1..Len(writes) /\ Len(writes) \in Nat \ {0}
      /\ DOMAIN writes' = 1..(Len(writes) - 1) /\ 1 \in DOMAIN writes
      /\ \A i \in DOMAIN writes' : writes'[i] = writes[i + 1]
      /\ Head(writes) = writes[1]
  BY Removed DEF ForgeOK
<1>2. up => Covers(mem, Outstanding)'
  <2> SUFFICES ASSUME up
               PROVE  Covers(mem, Outstanding)'
    OBVIOUS
  <2>1. Outstanding' \subseteq Outstanding
    BY DEF Outstanding
  <2>2. Cardinality(released' \ mem.spent) + Cardinality(Outstanding') <= mem.circulating
    BY <2>1, FewerDue, Finite, Numbers DEF CoverOK
  <2> QED
    BY <2>2 DEF Covers
<1>3. Covers(disk, DueBy(0))'
  <2>1. CASE disk' = Head(writes).snap
    <3>1. 0 \in Nat /\ 0 + 1 = 1
      OBVIOUS
    <3>2. DueBy(0)' \subseteq DueBy(1)
      BY <3>1, DueLater
    <3>3. Cardinality(released' \ writes[1].snap.spent) + Cardinality(DueBy(0)') <=
              writes[1].snap.circulating
      BY <1>1, <3>2, FewerDue, Finite, Numbers DEF CoverOK
    <3> QED
      BY <1>1, <2>1, <3>3 DEF Covers
  <2>2. CASE disk' = disk /\ (\A x \in Slots : writes[1].by = x => run'[x].pc = "idle")
    <3>1. 0 \in Nat
      OBVIOUS
    <3>2. DueBy(0)' \subseteq DueBy(0)
      BY <2>2, <3>1, DueLater
    <3>3. Cardinality(released' \ disk.spent) + Cardinality(DueBy(0)') <= disk.circulating
      BY <3>2, FewerDue, Finite, Numbers DEF CoverOK
    <3> QED
      BY <2>2, <3>3 DEF Covers
  <2> QED
    BY <2>1, <2>2
<1>4. ASSUME NEW k \in DOMAIN writes'
      PROVE  Covers(writes[k].snap, DueBy(k))'
  <2>1. k \in Nat /\ k + 1 \in DOMAIN writes /\ writes'[k] = writes[k + 1]
    BY <1>1
  <2>2. DueBy(k)' \subseteq DueBy(k + 1)
    BY <2>1, DueLater
  <2>3. Cardinality(released' \ writes[k + 1].snap.spent) + Cardinality(DueBy(k)') <=
            writes[k + 1].snap.circulating
    BY <2>1, <2>2, FewerDue, Finite, Numbers DEF CoverOK
  <2> QED
    BY <2>1, <2>3 DEF Covers
<1> QED
  BY <1>2, <1>3, <1>4 DEF CoverOK

LEMMA WriteFailsCovered ==
    ASSUME ForgeOK, CoverOK, WriteFails
    PROVE  CoverOK'
<1> DEFINE s == Head(writes).by
<1>1. /\ writes # <<>> /\ writes' = Tail(writes) /\ UNCHANGED <<mem, disk, up, released>>
      /\ IF s = "queue" THEN UNCHANGED <<run, queue>> ELSE End(s)
  BY DEF WriteFails
<1>2. Head(writes) = writes[1] /\ writes[1] \in Write
  BY <1>1, Removed DEF ForgeOK
<1>3. CASE s = "queue"
  BY <1>1, <1>2, <1>3, IdsAssumption, PoppedCovered
<1>4. CASE s # "queue"
  <2>1. s \in Slots /\ End(s)
    BY <1>1, <1>2, <1>4 DEF Write
  <2>2. Only(s) /\ run'[s].pc = "idle"
    BY <2>1, Ended DEF ForgeOK
  <2> QED
    BY <1>1, <1>2, <2>2, PoppedCovered DEF Only
<1> QED
  BY <1>3, <1>4

-----------------------------------------------------------------------------
LEMMA QueuedSaveCovered ==
    ASSUME ForgeOK, CoverOK, QueuedSave
    PROVE  CoverOK'
<1>1. /\ up /\ writes' = Append(writes, [by |-> "queue", snap |-> mem])
      /\ UNCHANGED <<config, mem, disk, up, queue, run, requests, now, faults, released>>
  BY DEF QueuedSave, Save
<1>2. mem' \in ForgeState /\ "queue" \notin Slots
  BY <1>1, IdsAssumption DEF ForgeOK, TypeOK
<1>3. Covers(mem, Outstanding)'
  BY <1>1 DEF CoverOK, Covers, Outstanding
<1> QED
  BY <1>1, <1>2, <1>3, StepCovered

(* After a crash nothing is due but what storage counts.                   *)
LEMMA CrashCovered ==
    ASSUME ForgeOK, CoverOK, Crash
    PROVE  CoverOK'
<1>1. /\ up' = FALSE /\ writes' = <<>> /\ run' = [s \in Slots |-> IdleRun]
      /\ UNCHANGED <<disk, released>>
  BY DEF Crash
<1>2. DueBy(0)' \subseteq DueBy(0)
  BY <1>1 DEF DueBy, IdleRun
<1>3. Cardinality(released' \ disk.spent) + Cardinality(DueBy(0)') <= disk.circulating
  BY <1>1, <1>2, FewerDue, Finite, Numbers DEF CoverOK
<1> QED
  BY <1>1, <1>3 DEF CoverOK, Covers

LEMMA LoadStateCovered ==
    ASSUME ForgeOK, CoverOK, LoadState
    PROVE  CoverOK'
<1>1. /\ ~up /\ up' = TRUE /\ mem' = disk
      /\ UNCHANGED <<disk, writes, run, released>>
  BY DEF LoadState
<1>2. writes = <<>> /\ \A s \in Slots : run[s].pc = "idle"
  BY <1>1 DEF ForgeOK, LockOK
<1>3. Outstanding' \subseteq DueBy(0) /\ DueBy(0)' \subseteq DueBy(0)
  BY <1>1, <1>2 DEF Outstanding, DueBy
<1>4. Cardinality(released' \ disk.spent) + Cardinality(Outstanding') <= disk.circulating
  BY <1>1, <1>3, FewerDue, Finite, Numbers DEF CoverOK
<1>5. Cardinality(released' \ disk.spent) + Cardinality(DueBy(0)') <= disk.circulating
  BY <1>1, <1>3, FewerDue, Finite, Numbers DEF CoverOK
<1> QED
  BY <1>1, <1>2, <1>4, <1>5 DEF CoverOK, Covers

(* No more tokens are minted before the start than are counted.            *)
LEMMA GenesisCovered ==
    ASSUME Init
    PROVE  CoverOK
<1>1. /\ mem = [spent |-> {}, circulating |-> Genesis,
                last |-> IF strategy = "sequential" THEN Genesis ELSE 0]
      /\ disk = mem /\ writes = <<>> /\ run = [s \in Slots |-> IdleRun]
      /\ released = GenesisTokens
  BY DEF Init
<1>2. Genesis \in Nat
  BY BoundsAssumption
<1> DEFINE I == IF strategy = "sequential" THEN 0..(Genesis - 1) ELSE GenesisUuids
           f == [i \in I |-> [id |-> i, lock |-> Holder, iat |-> 0]]
           G == {f[i] : i \in I}
<1>3. IsFiniteSet(I) /\ Cardinality(I) = Genesis
  <2>1. IsFiniteSet(0..(Genesis - 1)) /\ Cardinality(0..(Genesis - 1)) = Genesis
    BY <1>2, FS_Interval
  <2> QED
    BY <2>1, IdsAssumption
<1>4. GenesisTokens = G
  BY DEF GenesisTokens
<1> HIDE DEF I
<1>5. f \in Surjection(I, G)
  BY DEF Surjection
<1> HIDE DEF f, G
<1>6. IsFiniteSet(G) /\ Cardinality(G) <= Cardinality(I)
  BY <1>3, <1>5, FS_Surjection
<1>7. Cardinality(G) \in Nat
  BY <1>6, FS_CardinalityType
<1>8. Outstanding = {} /\ DueBy(0) = {}
  BY <1>1 DEF Outstanding, DueBy, IdleRun
<1>9. released = G /\ released \ mem.spent = G /\ mem.circulating = Genesis
  BY <1>1, <1>4
<1>10. Cardinality(G) + Cardinality({}) <= Genesis
  BY <1>2, <1>3, <1>6, <1>7, FS_EmptySet
<1>11. Covers(mem, Outstanding) /\ Covers(disk, DueBy(0))
  BY <1>1, <1>8, <1>9, <1>10 DEF Covers
<1>12. DOMAIN writes = {}
  BY <1>1
<1> QED
  BY <1>6, <1>9, <1>11, <1>12 DEF CoverOK

LEMMA CoverKept ==
    ASSUME ForgeOK, CoverOK, [Next]_vars
    PROVE  CoverOK'
<1>1. ASSUME NEW s \in Slots, Enqueue(s)
      PROVE  CoverOK'
  BY <1>1, NotWaiting, GotoCovered DEF Enqueue, At, ForgeOK, SavingPCs
<1>2. ASSUME NEW s \in Slots, TransferValidate(s)
      PROVE  CoverOK'
  BY <1>2, NotWaiting, GotoCovered, EndCovered DEF TransferValidate, At, Leave, ForgeOK, SavingPCs
<1>3. ASSUME NEW s \in Slots, TransferReturn(s)
      PROVE  CoverOK'
  BY <1>3, NotWaiting, EndCovered DEF TransferReturn, At, Leave, ForgeOK, SavingPCs
<1>4. ASSUME NEW s \in Slots, BurnSettle(s)
      PROVE  CoverOK'
  BY <1>4, GotoCovered DEF BurnSettle, At
<1>5. ASSUME NEW s \in Slots, BurnReturn(s)
      PROVE  CoverOK'
  BY <1>5, EndCovered DEF BurnReturn, At
<1>6. ASSUME NEW s \in Slots, HandlerStep(s)
      PROVE  CoverOK'
  BY <1>1, <1>2, <1>3, <1>4, <1>5, <1>6, ReceiveCovered, MintCheckCovered, MintBuiltCovered,
     MintSignedCovered, MintSendCovered, RecipientCovered, TransferMarkCovered,
     TransferSaveCovered, TransferSendCovered, BurnMarkCovered, BurnCountCovered
  DEF HandlerStep
<1>7. CASE WriteLands
  BY <1>7, PoppedCovered DEF WriteLands
<1>8. CASE Tick \/ UNCHANGED vars
  <2>1. UNCHANGED <<mem, disk, writes, up, run, released>>
    BY <1>8 DEF Tick, vars
  <2> QED
    BY <2>1 DEF CoverOK, Covers, Outstanding, DueBy
<1> QED
  BY <1>6, <1>7, <1>8, QueuedSaveCovered, WriteFailsCovered, CrashCovered, LoadStateCovered
  DEF Next

(* The invariant holds in every state, however many tokens, users, runs,   *)
(* requests and faults there are (handleNonFungibleTransfer, forgeToken,   *)
(* handleBurn, _saveState, _loadState).                                    *)
THEOREM NonFungibleInvariant == Spec => []IInv
<1>1. Init => IInv
  BY GenesisState, GenesisCovered DEF IInv
<1>2. IInv /\ [Next]_vars => IInv'
  BY StepKeeps, CoverKept DEF IInv
<1> QED
  BY <1>1, <1>2, PTL DEF Spec

(* A token of an id can be spent by one holder at most, whatever mints,    *)
(* transfers, burns, failed writes and restarts overlapped: the spend lock *)
(* orders the transfers, and no token leaves before its predecessor is     *)
(* marked, or its id counted, in storage.                                  *)
THEOREM OneHolderTheorem == Spec => []OneHolder
<1>1. IInv => OneHolder
  BY DEF IInv, ForgeOK, ReleasedOK, StoreOK, NoLater, OneHolder
<1> QED
  BY <1>1, NonFungibleInvariant, PTL

(* However many mints pass the check of the supply before any is counted,  *)
(* the total is exceeded by fewer tokens than there are handler runs       *)
(* (forgeToken checks the supply before, and counts after, it awaits).     *)
THEOREM OverrunTheorem == Spec => []OverrunBounded
<1>1. IInv => OverrunBounded
  BY DEF IInv, ForgeOK
<1> QED
  BY <1>1, NonFungibleInvariant, PTL

(* What the forge counts as circulating, in memory and in what a restart   *)
(* would load, covers the tokens that can still be spent, whatever saves   *)
(* failed or were cut off: a mint is counted before its token leaves, and  *)
(* a burn after its token is marked (forgeToken, burnToken, _saveState).   *)
THEOREM CoversTheorem == Spec => []CirculatingCovers
<1>1. ASSUME IInv
      PROVE  CirculatingCovers
  <2>1. ForgeOK /\ CoverOK
    BY <1>1 DEF IInv
  <2>2. Cardinality(released \ disk.spent) <= disk.circulating
    BY <2>1, Numbers DEF CoverOK, Covers
  <2>3. up => Cardinality(released \ mem.spent) <= mem.circulating
    BY <2>1, Numbers DEF CoverOK, Covers
  <2> QED
    BY <2>2, <2>3 DEF CirculatingCovers
<1> QED
  BY <1>1, NonFungibleInvariant, PTL
-----------------------------------------------------------------------------
(* One step of the queue and of the run that makes it: outside of the      *)
(* lock, into the queue, out of it, or nearer to leaving it.               *)
Inside == CriticalPCs \cup {"queued"}
Turn(s) ==
    /\ Only(s)
    /\ \/ queue' = queue /\ run[s].pc \notin Inside /\ run'[s].pc \notin Inside
       \/ /\ queue' = Append(queue, s) /\ run[s].pc = "received"
          /\ run'[s].pc = "queued" /\ run'[s].req.op \in {"transfer", "burn"}
       \/ HasLock(s) /\ queue' = Tail(queue) /\ run'[s].pc \notin Inside
       \/ /\ HasLock(s) /\ queue' = queue /\ run'[s].pc \in CriticalPCs
          /\ run[s].pc \in Inside /\ Nearer(run'[s], run[s])
          /\ run'[s].pc \in {"forged", "marking", "resaving"} =>
                run'[s].next <= Len(run'[s].req.outs)
Emptied == queue' = <<>> /\ run' = [s \in Slots |-> IdleRun]
Turns == (\E s \in Slots : Turn(s)) \/ UNCHANGED <<queue, run>> \/ Emptied

LEMMA RemainingFacts ==
    /\ Remaining["queued"] = 5 /\ Remaining["recipient"] = 4 /\ Remaining["forged"] = 3
    /\ Remaining["marking"] = 2 /\ Remaining["resaving"] = 1 /\ Remaining["burning"] = 1
  BY DEF Remaining, PCs, CriticalPCs

(* A run that goes on to its next point inside the lock.                   *)
LEMMA TurnOn ==
    ASSUME ForgeOK, WaitOK, NEW s \in Slots, NEW pc \in CriticalPCs, Goto(s, pc), HasLock(s),
           run[s].pc \in Inside, Remaining[pc] < Remaining[run[s].pc], UNCHANGED queue,
           pc \in {"forged", "marking", "resaving"} =>
               run[s].pc \in {"forged", "marking", "resaving"}
    PROVE  Turn(s)
<1>1. /\ Only(s) /\ run'[s].pc = pc /\ run'[s].req = run[s].req /\ run'[s].next = run[s].next
  BY Moved DEF ForgeOK, PCs
<1>2. Nearer(run'[s], run[s])
  BY <1>1 DEF Nearer
<1> QED
  BY <1>1, <1>2 DEF Turn, WaitOK, Req

LEMMA TurnOutside ==
    ASSUME ForgeOK, NEW s \in Slots, NEW pc \in PCs, Goto(s, pc),
           run[s].pc \notin Inside, pc \notin Inside, UNCHANGED queue
    PROVE  Turn(s)
  BY Moved DEF ForgeOK, Turn

LEMMA TurnEnded ==
    ASSUME ForgeOK, NEW s \in Slots, End(s),
           \/ run[s].pc \notin Inside /\ UNCHANGED queue
           \/ HasLock(s) /\ queue' = Tail(queue)
    PROVE  Turn(s)
<1>1. Only(s) /\ run'[s].pc = "idle"
  BY Ended DEF ForgeOK
<1> QED
  BY <1>1 DEF Turn, Inside, CriticalPCs

LEMMA TransferTurn ==
    ASSUME ForgeOK, WaitOK, NEW s \in Slots,
           \/ TransferValidate(s) \/ TransferRecipient(s) \/ TransferReturn(s)
           \/ TransferMark(s) \/ TransferSave(s) \/ TransferSend(s)
    PROVE  Turn(s)
<1>1. run[s].pc \in CriticalPCs => HasLock(s)
  BY DEF ForgeOK, LockOK
<1>2. CASE TransferValidate(s)
  <2>1. run[s].pc = "queued" /\ HasLock(s)
    BY <1>2 DEF TransferValidate, At
  <2>2. CASE Goto(s, "recipient") /\ UNCHANGED queue
    BY <2>1, <2>2, TurnOn, RemainingFacts DEF Inside, CriticalPCs
  <2>3. CASE Leave(s)
    BY <2>1, <2>3, TurnEnded DEF Leave
  <2> QED
    BY <1>2, <2>2, <2>3 DEF TransferValidate
<1>3. CASE TransferRecipient(s)
  <2> DEFINE o == Req(s).outs[run[s].next]
             found == Matching(s, o.id)
             i == CHOOSE n \in found : \A m \in found : n <= m
             new == NewToken(NumericId(Req(s).ins[i].id), o.to)
  <2>1. run[s].pc = "recipient" /\ HasLock(s) /\ run[s].next <= Len(Req(s).outs)
    BY <1>1, <1>3 DEF TransferRecipient, At, CriticalPCs
  <2>2. CASE Leave(s)
    BY <2>1, <2>2, TurnEnded DEF Leave
  <2>3. CASE /\ run' = [run EXCEPT ![s].pc = "forged", ![s].used = @ \cup {i},
                                   ![s].old = Req(s).ins[i], ![s].new = new]
             /\ UNCHANGED queue
    <3> HIDE DEF i, new
    <3>1. /\ run'[s].pc = "forged" /\ run'[s].req = run[s].req /\ run'[s].next = run[s].next
      BY <2>3 DEF ForgeOK, TypeOK, Run
    <3>2. Only(s)
      BY <1>3, <2>3, TransferRecipientKept DEF Only, ForgeOK, TypeOK
    <3>3. Nearer(run'[s], run[s])
      BY <2>1, <3>1, RemainingFacts DEF Nearer
    <3> QED
      BY <2>1, <2>3, <3>1, <3>2, <3>3 DEF Turn, Inside, CriticalPCs, Req
  <2> QED
    BY <1>3, <2>2, <2>3 DEF TransferRecipient
<1>4. CASE TransferReturn(s)
  <2>1. run[s].pc = "recipient" /\ Leave(s)
    BY <1>4 DEF TransferReturn, At
  <2> QED
    BY <1>1, <2>1, TurnEnded DEF Leave, CriticalPCs
<1>5. CASE TransferMark(s)
  <2>1. run[s].pc = "forged" /\ Goto(s, "marking") /\ UNCHANGED queue
    BY <1>5 DEF TransferMark, At
  <2> QED
    BY <1>1, <2>1, TurnOn, RemainingFacts DEF Inside, CriticalPCs
<1>6. CASE TransferSave(s)
  <2>1. run[s].pc = "marking" /\ Goto(s, "resaving") /\ UNCHANGED queue
    BY <1>6 DEF TransferSave, At
  <2> QED
    BY <1>1, <2>1, TurnOn, RemainingFacts DEF Inside, CriticalPCs
<1>7. CASE TransferSend(s)
  <2>1. run[s].pc = "resaving" /\ HasLock(s)
    BY <1>1, <1>7 DEF TransferSend, At, CriticalPCs
  <2>2. CASE Leave(s)
    BY <2>1, <2>2, TurnEnded DEF Leave
  <2>3. CASE /\ run' = [run EXCEPT ![s].pc = "recipient", ![s].next = @ + 1,
                                   ![s].old = NoToken, ![s].new = NoToken]
             /\ UNCHANGED queue
    <3> DEFINE n == run[s].next + 1
               r == [run[s] EXCEPT !.pc = "recipient", !.next = n, !.old = NoToken,
                                   !.new = NoToken]
    <3>1. run[s] \in Run /\ run[s].next \in Nat \ {0} /\ n \in Nat \ {0} /\ "recipient" \in PCs
      BY DEF ForgeOK, TypeOK, Run, PCs, CriticalPCs
    <3>3. run' = [run EXCEPT ![s] = r]
      BY <2>3
    <3>n. n = run[s].next + 1
      OBVIOUS
    <3> HIDE DEF n
    <3>2. r \in Run /\ r.pc = "recipient" /\ r.req = run[s].req /\ r.next = n
      BY <3>1 DEF Run
    <3> HIDE DEF r
    <3>4. Only(s) /\ run'[s] = r
      BY <3>2, <3>3, Changed DEF ForgeOK
    <3>5. run[s].next <= Len(run[s].req.outs)
      BY <2>1 DEF WaitOK, Req
    <3>6. run[s].req.outs \in Seq(Recipient)
      BY <2>1 DEF ForgeOK, TransferOK, AnyRequest
    <3>7. Len(run[s].req.outs) \in Nat
      BY <3>6
    <3>8. Nearer(run'[s], run[s])
      BY <3>1, <3>n, <3>2, <3>4, <3>5, <3>7 DEF Nearer
    <3> QED
      BY <2>1, <2>3, <3>2, <3>4, <3>8 DEF Turn, Inside, CriticalPCs
  <2> QED
    BY <1>7, <2>2, <2>3 DEF TransferSend
<1> QED
  BY <1>2, <1>3, <1>4, <1>5, <1>6, <1>7
LEMMA BurnTurn ==
    ASSUME ForgeOK, WaitOK, NEW s \in Slots,
           Enqueue(s) \/ BurnMark(s) \/ BurnSettle(s) \/ BurnCount(s) \/ BurnReturn(s)
    PROVE  Turn(s)
<1>1. run[s].pc \in CriticalPCs => HasLock(s)
  BY DEF ForgeOK, LockOK
<1>2. CASE Enqueue(s)
  <2>1. /\ run[s].pc = "received" /\ Req(s).op # "mint" /\ queue' = Append(queue, s)
        /\ Goto(s, "queued")
    BY <1>2 DEF Enqueue, At
  <2>2. Req(s).op \in {"transfer", "burn"}
    BY <2>1 DEF ForgeOK, TransferOK, AnyRequest, Req
  <2>3. Only(s) /\ run'[s].pc = "queued" /\ run'[s].req = run[s].req
    BY <2>1, Moved DEF ForgeOK, PCs
  <2> QED
    BY <2>1, <2>2, <2>3 DEF Turn, Req
<1>3. CASE BurnMark(s)
  <2>1. run[s].pc = "queued" /\ HasLock(s)
    BY <1>3 DEF BurnMark, At
  <2>2. CASE Goto(s, "burning") /\ UNCHANGED queue
    BY <2>1, <2>2, TurnOn, RemainingFacts DEF Inside, CriticalPCs
  <2>3. CASE Leave(s)
    BY <2>1, <2>3, TurnEnded DEF Leave
  <2> QED
    BY <1>3, <2>2, <2>3 DEF BurnMark
<1>4. CASE BurnSettle(s)
  <2>1. run[s].pc = "burning" /\ Goto(s, "burned") /\ queue' = Tail(queue)
    BY <1>4 DEF BurnSettle, At
  <2>2. Only(s) /\ run'[s].pc = "burned"
    BY <2>1, Moved DEF ForgeOK, PCs
  <2> QED
    BY <1>1, <2>1, <2>2 DEF Turn, Inside, CriticalPCs
<1>5. CASE BurnCount(s)
  <2>1. run[s].pc = "burned" /\ Goto(s, "counting") /\ UNCHANGED queue
    BY <1>5 DEF BurnCount, At
  <2> QED
    BY <2>1, TurnOutside DEF Inside, CriticalPCs, PCs
<1>6. CASE BurnReturn(s)
  <2>1. run[s].pc = "counting" /\ End(s) /\ UNCHANGED queue
    BY <1>6 DEF BurnReturn, At
  <2> QED
    BY <2>1, TurnEnded DEF Inside, CriticalPCs
<1> QED
  BY <1>2, <1>3, <1>4, <1>5, <1>6

LEMMA MintTurn ==
    ASSUME ForgeOK, NEW s \in Slots,
           Receive(s) \/ MintCheck(s) \/ MintBuilt(s) \/ MintSigned(s) \/ MintSend(s)
    PROVE  Turn(s)
<1>1. CASE Receive(s) \/ (MintCheck(s) /\ ~End(s))
  <2>1. /\ UNCHANGED queue /\ run[s].pc \in {"idle", "received"}
        /\ \/ \E r : run' = [run EXCEPT ![s] = [IdleRun EXCEPT !.pc = "received", !.req = r]]
           \/ \E t : run' = [run EXCEPT ![s].pc = "building", ![s].new = t]
    BY <1>1 DEF Receive, MintCheck, At
  <2>2. run'[s].pc \in {"received", "building"} /\ \A x \in Slots \ {s} : run'[x] = run[x]
    BY <2>1 DEF ForgeOK, TypeOK, Run, IdleRun
  <2>3. run' \in [Slots -> Run]
    BY <1>1, ReceiveKept, MintCheckKept DEF ForgeOK, TypeOK
  <2> QED
    BY <2>1, <2>2, <2>3 DEF Turn, Only, Inside, CriticalPCs
<1>2. CASE MintCheck(s) /\ End(s)
  <2>1. run[s].pc = "received" /\ UNCHANGED queue
    BY <1>2 DEF MintCheck, At
  <2> QED
    BY <1>2, <2>1, TurnEnded DEF Inside, CriticalPCs
<1>3. CASE MintBuilt(s) \/ MintSigned(s)
  <2>1. /\ run[s].pc \in {"building", "signing"} /\ UNCHANGED queue
        /\ Goto(s, "signing") \/ Goto(s, "minting")
    BY <1>3 DEF MintBuilt, MintSigned, At
  <2> QED
    BY <2>1, TurnOutside DEF Inside, CriticalPCs, PCs
<1>4. CASE MintSend(s)
  <2>1. run[s].pc = "minting" /\ End(s) /\ UNCHANGED queue
    BY <1>4 DEF MintSend, At
  <2> QED
    BY <2>1, TurnEnded DEF Inside, CriticalPCs
<1> QED
  BY <1>1, <1>2, <1>3, <1>4

(* A save that fails ends its run, in the lock or outside of it.           *)
LEMMA WriteFailsTurn ==
    ASSUME ForgeOK, WriteFails
    PROVE  Turns
<1>1. writes # <<>> /\ Head(writes) = writes[1] /\ writes[1] \in Write /\ 1 \in DOMAIN writes
  BY Removed DEF ForgeOK, WriteFails
<1> DEFINE s == Head(writes).by
<1>2. CASE s = "queue"
  BY <1>2 DEF WriteFails, Turns
<1>3. CASE s # "queue"
  <2>1. s \in Slots /\ run[s].pc \in SavingPCs
    BY <1>1, <1>3 DEF ForgeOK, WritersOK, Write
  <2>2. End(s) /\ queue' = IF HasLock(s) THEN Tail(queue) ELSE queue
    BY <1>3 DEF WriteFails
  <2>3. run[s].pc \in Inside => HasLock(s)
    BY <2>1 DEF Inside, SavingPCs, ForgeOK, LockOK
  <2> HIDE DEF s
  <2> QED
    BY <2>1, <2>2, <2>3, TurnEnded DEF Turns
<1> QED
  BY <1>2, <1>3

LEMMA EveryTurn ==
    ASSUME ForgeOK, WaitOK, [Next]_vars
    PROVE  Turns
<1>1. CASE \E s \in Slots : HandlerStep(s)
  BY <1>1, TransferTurn, BurnTurn, MintTurn DEF HandlerStep, Turns
<1>2. CASE QueuedSave \/ WriteLands \/ LoadState \/ Tick \/ UNCHANGED vars
  BY <1>2 DEF QueuedSave, WriteLands, LoadState, Tick, vars, Turns
<1>3. CASE Crash
  BY <1>3 DEF Crash, Turns, Emptied
<1> QED
  BY <1>1, <1>2, <1>3, WriteFailsTurn DEF Next

LEMMA WaitKept ==
    ASSUME ForgeOK, WaitOK, Turns
    PROVE  WaitOK'
<1>0. queue \in Seq(Slots) /\ DOMAIN queue = 1..Len(queue) /\ Len(queue) \in Nat
  BY DEF ForgeOK, TypeOK
<1>1. ASSUME NEW s \in Slots, Turn(s)
      PROVE  WaitOK'
  <2> SUFFICES ASSUME NEW x \in Slots
               PROVE  /\ run'[x].pc = "queued" =>
                            x \in ToSet(queue') /\ run'[x].req.op \in {"transfer", "burn"}
                      /\ run'[x].pc \in {"forged", "marking", "resaving"} =>
                            run'[x].next <= Len(run'[x].req.outs)
    BY DEF WaitOK, Req
  <2>1. CASE queue' = Append(queue, s) /\ run'[s].pc = "queued"
    <3>1. /\ DOMAIN queue' = 1..(Len(queue) + 1) /\ queue'[Len(queue) + 1] = s
          /\ \A k \in DOMAIN queue : k \in DOMAIN queue' /\ queue'[k] = queue[k]
      BY <1>0, <2>1
    <3>2. s \in ToSet(queue') /\ ToSet(queue) \subseteq ToSet(queue')
      BY <1>0, <3>1 DEF ToSet
    <3>3. CASE x = s
      BY <1>1, <2>1, <3>2, <3>3 DEF Turn, Inside
    <3>4. CASE x # s
      <4>1. run'[x] = run[x]
        BY <1>1, <3>4 DEF Turn, Only
      <4> QED
        BY <3>2, <4>1 DEF WaitOK, Req
    <3> QED
      BY <3>3, <3>4
  <2>2. CASE queue' = queue
    <3>1. run'[s].pc # "queued"
      BY <1>1, <2>2 DEF Turn, Inside, CriticalPCs
    <3> QED
      BY <1>1, <2>2, <3>1 DEF WaitOK, Req, Turn, Only, Inside, CriticalPCs
  <2>3. CASE HasLock(s) /\ queue' = Tail(queue) /\ run'[s].pc \notin Inside
    <3>1. /\ Head(queue) = queue[1] /\ Head(queue) = s /\ Len(queue) \in Nat \ {0}
          /\ DOMAIN Tail(queue) = 1..(Len(queue) - 1)
          /\ \A i \in DOMAIN Tail(queue) : Tail(queue)[i] = queue[i + 1]
      BY <2>3, Dequeued DEF ForgeOK, HasLock
    <3>2. ASSUME x # s, x \in ToSet(queue)
          PROVE  x \in ToSet(queue')
      <4>1. PICK i \in DOMAIN queue : queue[i] = x
        BY <3>2 DEF ToSet
      <4>2. i # 1 /\ i - 1 \in DOMAIN Tail(queue) /\ (i - 1) + 1 = i
        BY <1>0, <3>1, <3>2, <4>1
      <4>3. Tail(queue)[i - 1] = x
        BY <3>1, <4>1, <4>2
      <4> QED
        BY <2>3, <4>2, <4>3 DEF ToSet
    <3>3. CASE x = s
      BY <2>3, <3>3 DEF Inside, CriticalPCs
    <3>4. CASE x # s
      <4>1. run'[x] = run[x]
        BY <1>1, <3>4 DEF Turn, Only
      <4> QED
        BY <3>2, <3>4, <4>1 DEF WaitOK, Req
    <3> QED
      BY <3>3, <3>4
  <2> QED
    BY <1>1, <2>1, <2>2, <2>3 DEF Turn
<1>2. CASE UNCHANGED <<queue, run>>
  BY <1>2 DEF WaitOK, Req
<1>3. CASE Emptied
  BY <1>3 DEF Emptied, IdleRun, WaitOK
<1> QED
  BY <1>1, <1>2, <1>3 DEF Turns

LEMMA WaitCorrect == Spec => [](IInv /\ WaitOK)
<1>1. Init => WaitOK
  BY DEF Init, WaitOK, IdleRun
<1>2. IInv /\ WaitOK /\ [Next]_vars => WaitOK'
  BY EveryTurn, WaitKept DEF IInv
<1> QED
  BY <1>1, <1>2, NonFungibleInvariant, PTL DEF Spec

(* Nobody waits for a run that cannot go on: the head of the queue can     *)
(* take its next step, or awaits a save of its own that storage has not    *)
(* settled, between two recipients as well (runExclusive).                 *)
THEOREM NobodyStuckTheorem == Spec => []NobodyStuck
<1>1. ASSUME IInv, WaitOK
      PROVE  NobodyStuck
  <2> SUFFICES ASSUME NEW s \in Slots, run[s].pc = "queued"
               PROVE  \E h \in Slots : HasLock(h) /\ (CanGoOn(h) \/ AwaitsSave(h))
    BY DEF NobodyStuck
  <2>1. /\ queue \in Seq(Slots) /\ DOMAIN queue = 1..Len(queue) /\ Len(queue) \in Nat
        /\ TypeOK /\ LockOK
    BY <1>1 DEF IInv, ForgeOK, TypeOK
  <2>2. PICK i \in DOMAIN queue : queue[i] = s
    BY <1>1 DEF WaitOK, ToSet
  <2>3. queue # <<>>
    BY <2>1, <2>2
  <2> DEFINE h == queue[1]
  <2>4. h \in Slots /\ HasLock(h) /\ 1 \in DOMAIN queue
    BY <2>1, <2>3, Dequeued DEF HasLock
  <2>5. up
    BY <2>1, <2>3 DEF LockOK
  <2>6. run[h].pc \in Inside
    BY <2>1, <2>4 DEF LockOK, Inside
  <2>7. run[h].pc = "queued" => Req(h).op \in {"transfer", "burn"}
    BY <1>1, <2>4 DEF WaitOK
  <2>8. CanGoOn(h) \/ AwaitsSave(h)
    BY <2>4, <2>5, <2>6, <2>7 DEF CanGoOn, AwaitsSave, At, Inside, CriticalPCs
  <2> QED
    BY <2>4, <2>8
<1> QED
  BY <1>1, WaitCorrect, PTL

(* The lock is first come, first served, and every step of the run with    *)
(* the lock, a failed save and a crash included, brings it nearer to       *)
(* leaving (runExclusive, handleNonFungibleTransfer).                      *)
THEOREM InTurnTheorem == Spec => InTurn
<1>1. ASSUME IInv, WaitOK, [Next]_vars, NEW s \in Slots,
             run[s].pc = "queued", run'[s].pc = "queued"
      PROVE  Ahead(s)' \subseteq Ahead(s)
  <2>1. Turns
    BY <1>1, EveryTurn DEF IInv
  <2>2. /\ queue \in Seq(Slots) /\ DOMAIN queue = 1..Len(queue) /\ Len(queue) \in Nat
    BY <1>1 DEF IInv, ForgeOK, TypeOK
  <2> SUFFICES ASSUME NEW i \in DOMAIN queue', NEW j \in DOMAIN queue', i < j, queue'[j] = s
               PROVE  queue'[i] \in Ahead(s)
    BY DEF Ahead
  <2> SUFFICES \E k, l \in DOMAIN queue : k < l /\ queue[k] = queue'[i] /\ queue[l] = s
    BY DEF Ahead
  <2>3. CASE queue' = queue
    BY <2>3
  <2>4. CASE queue # <<>> /\ queue' = Tail(queue)
    <3>1. /\ Len(queue) \in Nat \ {0} /\ DOMAIN queue' = 1..(Len(queue) - 1)
          /\ \A k \in 1..(Len(queue) - 1) : queue'[k] = queue[k + 1]
      BY <1>1, <2>4, Dequeued DEF IInv, ForgeOK
    <3>2. i + 1 \in DOMAIN queue /\ j + 1 \in DOMAIN queue /\ i + 1 < j + 1
      BY <2>2, <3>1
    <3> QED
      BY <3>1, <3>2
  <2>5. ASSUME NEW a \in Slots, run[a].pc = "received", queue' = Append(queue, a)
        PROVE  \E k, l \in DOMAIN queue : k < l /\ queue[k] = queue'[i] /\ queue[l] = s
    <3>1. /\ DOMAIN queue' = 1..(Len(queue) + 1) /\ queue'[Len(queue) + 1] = a
          /\ \A k \in 1..Len(queue) : queue'[k] = queue[k]
      BY <2>2, <2>5
    <3>2. a # s
      BY <1>1, <2>5
    <3>3. i \in DOMAIN queue /\ j \in DOMAIN queue
      BY <2>2, <3>1, <3>2
    <3> QED
      BY <2>2, <3>1, <3>3
  <2>6. CASE queue' = <<>>
    BY <2>6
  <2> QED
    BY <2>1, <2>3, <2>4, <2>5, <2>6 DEF Turns, Turn, Emptied, HasLock
<1>2. ASSUME IInv, WaitOK, [Next]_vars, NEW h \in Slots, HasLock(h), run'[h] # run[h]
      PROVE  Nearer(run'[h], run[h])
  <2>1. 1 \in DOMAIN queue /\ queue[1] = h /\ run[h].pc \in Inside
    BY <1>2, Dequeued DEF IInv, ForgeOK, LockOK, HasLock, Inside
  <2>2. CASE Emptied
    BY <2>2 DEF Emptied, IdleRun, Nearer, CriticalPCs
  <2>3. ASSUME NEW s \in Slots, Turn(s)
        PROVE  Nearer(run'[h], run[h])
    <3>1. h = s
      BY <1>2, <2>3 DEF Turn, Only
    <3> QED
      BY <2>1, <2>3, <3>1 DEF Turn, Nearer, Inside, CriticalPCs
  <2> QED
    BY <1>2, <2>2, <2>3, EveryTurn DEF IInv, Turns
<1>3. IInv /\ WaitOK /\ [Next]_vars =>
        [\A s \in Slots :
            /\ run[s].pc = "queued" /\ run'[s].pc = "queued" => Ahead(s)' \subseteq Ahead(s)
            /\ HasLock(s) /\ run'[s] # run[s] => Nearer(run'[s], run[s])]_vars
  BY <1>1, <1>2
<1> QED
  BY <1>3, WaitCorrect, PTL DEF Spec, InTurn
=============================================================================
