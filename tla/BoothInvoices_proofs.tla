------------------------- MODULE BoothInvoices_proofs -------------------------
(***************************************************************************)
(* Proofs about BoothInvoices, for every set of invoices, token lists and  *)
(* runs, every number of adapters and every workload.                      *)
(***************************************************************************)
EXTENDS BoothInvoices, FiniteSetTheorems, TLAPS

LEMMA IdleType == Idle \in Run
  BY InvoiceBounds DEF Idle, Run

(* A run, or the operator, acts.                                           *)
Actors == Slots \cup {"operator"}

LEMMA WriteType ==
    ASSUME NEW a \in Actors, NEW state \in BoothState
    PROVE  /\ [by |-> a, snap |-> state] \in Write
           /\ [by |-> a, snap |-> state].by = a /\ [by |-> a, snap |-> state].snap = state
  BY DEF Write, Actors

(* What a step by a leaves of the writes: those before it, or all of them  *)
(* but the oldest, which was its own, and after them its new one.          *)
Fresh(a, k) == writes'[k] = [by |-> a, snap |-> mem'] /\ \A j \in DOMAIN writes' : j <= k
Shift(a, d) ==
    /\ \A k \in DOMAIN writes' :
          \/ Fresh(a, k) /\ (a \in Slots => run'[a].pc \in SavePCs)
          \/ k + d \in DOMAIN writes /\ writes'[k] = writes[k + d]
    /\ d = 0 => disk' = disk /\ (a \in Slots => run[a].pc \notin SavePCs)
    /\ d = 1 => /\ 1 \in DOMAIN writes /\ writes[1].by = a
                /\ disk' = disk \/ disk' = writes[1].snap

LEMMA Positions ==
    ASSUME TypeOK
    PROVE  /\ Len(writes) \in Nat /\ DOMAIN writes = 1..Len(writes)
           /\ \A k \in DOMAIN writes : writes[k] \in Write /\ writes[k].by \in Actors
<1>1. writes \in Seq(Write)
  BY DEF TypeOK
<1>2. \A k \in DOMAIN writes : writes[k] \in Write
  BY <1>1
<1> QED
  BY <1>1, <1>2 DEF Write, Actors

LEMMA Unwritten ==
    ASSUME TypeOK, NEW a \in Actors, writes' = writes, disk' = disk,
           a \in Slots => run[a].pc \notin SavePCs
    PROVE  Shift(a, 0) /\ writes' \in Seq(Write)
<1>1. \A k \in DOMAIN writes : k + 0 = k
  BY Positions
<1> QED
  BY <1>1 DEF Shift, TypeOK

LEMMA Saved ==
    ASSUME TypeOK, NEW a \in Actors, disk' = disk, mem' \in BoothState,
           writes' = Append(writes, [by |-> a, snap |-> mem']),
           a \in Slots => run[a].pc \notin SavePCs /\ run'[a].pc \in SavePCs
    PROVE  Shift(a, 0) /\ writes' \in Seq(Write)
<1> DEFINE w == [by |-> a, snap |-> mem']
           n == Len(writes)
<1>1. w \in Write
  BY WriteType
<1>2. writes' = Append(writes, w)
  OBVIOUS
<1> HIDE DEF w
<1>3. /\ writes' \in Seq(Write) /\ DOMAIN writes' = 1..(n + 1) /\ n \in Nat
      /\ DOMAIN writes = 1..n
      /\ \A k \in 1..n : writes'[k] = writes[k]
      /\ writes'[n + 1] = w
  BY <1>1, <1>2 DEF TypeOK
<1> HIDE DEF n
<1>4. ASSUME NEW k \in DOMAIN writes'
      PROVE  k = n + 1 \/ (k \in 1..n /\ k + 0 = k)
  BY <1>3
<1>5. Fresh(a, n + 1)
  BY <1>3 DEF Fresh, w
<1> QED
  BY <1>3, <1>4, <1>5 DEF Shift

LEMMA Tailed ==
    ASSUME TypeOK, writes # <<>>
    PROVE  /\ Head(writes) = writes[1] /\ writes[1] \in Write /\ 1 \in DOMAIN writes
           /\ Tail(writes) \in Seq(Write) /\ Len(Tail(writes)) = Len(writes) - 1
           /\ Len(writes) \in Nat \ {0}
           /\ DOMAIN writes = 1..Len(writes)
           /\ DOMAIN Tail(writes) = 1..(Len(writes) - 1)
           /\ \A k \in 1..(Len(writes) - 1) :
                 Tail(writes)[k] = writes[k + 1] /\ k + 1 \in DOMAIN writes
  <1>1. writes \in Seq(Write)
    BY DEF TypeOK
  <1>2. Len(writes) \in Nat /\ DOMAIN writes = 1..Len(writes)
    BY <1>1
  <1>3. Len(writes) # 0
    BY <1>1
  <1>4. \A k \in 1..(Len(writes) - 1) : k + 1 \in 1..Len(writes)
    BY <1>2
  <1> QED
    BY <1>1, <1>2, <1>3, <1>4

LEMMA OldestGone ==
    ASSUME TypeOK, NEW a \in Actors, writes # <<>>, writes[1].by = a,
           disk' = disk \/ disk' = writes[1].snap, writes' = Tail(writes)
    PROVE  Shift(a, 1) /\ writes' \in Seq(Write)
<1>1. \A k \in DOMAIN writes' : k + 1 \in DOMAIN writes /\ writes'[k] = writes[k + 1]
  BY Tailed
<1> QED
  BY <1>1, Tailed DEF Shift

LEMMA Replaced ==
    ASSUME TypeOK, NEW a \in Actors, writes # <<>>, writes[1].by = a,
           disk' = disk, mem' \in BoothState, a \in Slots => run'[a].pc \in SavePCs,
           writes' = Append(Tail(writes), [by |-> a, snap |-> mem'])
    PROVE  Shift(a, 1) /\ writes' \in Seq(Write)
<1> DEFINE w == [by |-> a, snap |-> mem']
           n == Len(writes)
           q == Tail(writes)
<1>1. w \in Write
  BY WriteType
<1>2. writes' = Append(q, w)
  OBVIOUS
<1>3. /\ q \in Seq(Write) /\ Len(q) = n - 1 /\ n \in Nat \ {0} /\ DOMAIN writes = 1..n
      /\ \A k \in 1..(n - 1) : q[k] = writes[k + 1] /\ k + 1 \in DOMAIN writes
  BY Tailed
<1> HIDE DEF w, q, n
<1>4. /\ writes' \in Seq(Write) /\ DOMAIN writes' = 1..(Len(q) + 1)
      /\ \A k \in 1..Len(q) : writes'[k] = q[k]
      /\ writes'[Len(q) + 1] = w
  <2>1. /\ Append(q, w) \in Seq(Write) /\ DOMAIN Append(q, w) = 1..(Len(q) + 1)
        /\ \A k \in 1..Len(q) : Append(q, w)[k] = q[k]
        /\ Append(q, w)[Len(q) + 1] = w
    BY <1>1, <1>3
  <2> QED
    BY <1>2, <2>1
<1>5. /\ writes' \in Seq(Write) /\ DOMAIN writes' = 1..n
      /\ \A k \in 1..(n - 1) : writes'[k] = q[k]
      /\ writes'[n] = w
  BY <1>3, <1>4
<1>6. ASSUME NEW k \in DOMAIN writes'
      PROVE  k = n \/ k \in 1..(n - 1)
  BY <1>3, <1>5
<1>7. Fresh(a, n)
  BY <1>3, <1>5 DEF Fresh, w
<1>8. \A k \in DOMAIN writes' :
          \/ Fresh(a, k) /\ (a \in Slots => run'[a].pc \in SavePCs)
          \/ k + 1 \in DOMAIN writes /\ writes'[k] = writes[k + 1]
  BY <1>3, <1>5, <1>6, <1>7
<1>9. 1 \in DOMAIN writes
  BY Tailed
<1> QED
  BY <1>5, <1>8, <1>9 DEF Shift
-----------------------------------------------------------------------------
(* What a step by a leaves alone, and what memory keeps of the invoices    *)
(* that a buyer has.                                                       *)
Frame(a) ==
    /\ up /\ up' = up /\ booth' = booth /\ lapsed' = lapsed /\ charged' = charged
    /\ \A t \in Slots \ {a} : run'[t] = run[t]
    /\ offered \subseteq offered' /\ told \subseteq told' /\ doubtful \subseteq doubtful'
Evolves ==
    \A i \in offered :
        /\ mem.receipts \subseteq mem'.receipts
        /\ mem.inv[i].status = "paid" => mem'.inv[i].status = "paid" \/ i \in lapsed
        /\ mem.inv[i].ful = "fulfilled" => mem'.inv[i].ful = "fulfilled" \/ i \in doubtful'

LEMMA MemorySettles ==
    ASSUME NEW a, Frame(a), Evolves, NEW i \in offered
    PROVE  /\ Held(mem, i) => Held(mem, i)'
           /\ Settles(mem, i) => Settles(mem, i)'
<1>1. Held(mem, i) => Held(mem, i)'
  BY DEF Frame, Evolves, Held
<1>2. Receipts(mem, i) # {} => Receipts(mem, i)' # {}
  BY DEF Evolves, Receipts
<1>3. ASSUME Settles(mem, i)
      PROVE  booth' = "agent" \/ mem'.inv[i].ful = "fulfilled" \/ i \in doubtful'
  BY <1>3 DEF Frame, Evolves, Settles
<1> QED
  BY <1>1, <1>2, <1>3 DEF Settles

(* Each remaining write is an earlier one, and not one of a's if a is a    *)
(* run.                                                                    *)
LEMMA Remaining ==
    ASSUME TypeOK, TypeOK', WritesOK, NEW a \in Actors, NEW d \in {0, 1}, Shift(a, d),
           NEW k \in DOMAIN writes',
           ~Fresh(a, k) \/ (k + d \in DOMAIN writes /\ writes'[k] = writes[k + d])
    PROVE  /\ k + d \in DOMAIN writes /\ writes'[k] = writes[k + d]
           /\ a \in Slots => writes[k + d].by # a
<1>1. k + d \in DOMAIN writes /\ writes'[k] = writes[k + d]
  BY DEF Shift
<1>2. ASSUME a \in Slots, writes[k + d].by = a
      PROVE  FALSE
  <2>1. CASE d = 0
    BY <2>1, <1>1, <1>2 DEF Shift, WritesOK
  <2>2. CASE d = 1
    <3>1. 1 \in DOMAIN writes /\ writes[1].by = a
      BY <2>2 DEF Shift
    <3>2. k + 1 = 1
      BY <3>1, <2>2, <1>1, <1>2 DEF WritesOK
    <3>3. writes' \in Seq(Write) => k \in Nat \ {0}
      OBVIOUS
    <3> QED
      BY <3>2, <3>3 DEF TypeOK
  <2> QED
    BY <2>1, <2>2
<1> QED
  BY <1>1, <1>2

LEMMA Indices ==
    ASSUME TypeOK'
    PROVE  DOMAIN writes' \subseteq Nat \ {0}
<1>1. writes' \in Seq(Write)
  BY DEF TypeOK
<1>2. DOMAIN writes' = 1..Len(writes') /\ Len(writes') \in Nat
  BY <1>1
<1> QED
  BY <1>2

LEMMA CopiesKept ==
    ASSUME IInv, TypeOK', NEW a \in Actors, NEW d \in {0, 1}, Frame(a), Shift(a, d),
           Backed(mem)', Numbered(mem)'
    PROVE  CopiesOK'
<1>1. /\ Backed(disk) /\ Numbered(disk)
      /\ \A k \in DOMAIN writes : Backed(writes[k].snap) /\ Numbered(writes[k].snap)
  BY DEF IInv, CopiesOK
<1>2. disk' = disk \/ (1 \in DOMAIN writes /\ disk' = writes[1].snap)
  BY DEF Shift
<1>3. Backed(disk)' /\ Numbered(disk)'
  BY <1>1, <1>2 DEF Frame, Backed, Numbered, Receipts
<1>4. ASSUME NEW k \in DOMAIN writes'
      PROVE  Backed(writes[k].snap)' /\ Numbered(writes[k].snap)'
  <2>1. CASE Fresh(a, k)
    <3>1. writes'[k].snap = mem'
      BY <2>1 DEF Fresh
    <3> QED
      BY <3>1 DEF Backed, Numbered, Receipts
  <2>2. CASE ~Fresh(a, k)
    <3>1. k + d \in DOMAIN writes /\ writes'[k] = writes[k + d]
      BY <2>2 DEF Shift
    <3> DEFINE j == k + d
    <3>2. j \in DOMAIN writes /\ writes'[k] = writes[j]
      BY <3>1
    <3> HIDE DEF j
    <3> QED
      BY <3>2, <1>1 DEF Frame, Backed, Numbered, Receipts
  <2> QED
    BY <2>1, <2>2
<1> QED
  BY <1>3, <1>4 DEF CopiesOK

LEMMA WritesKept ==
    ASSUME IInv, TypeOK', NEW a \in Actors, NEW d \in {0, 1}, Frame(a), Shift(a, d)
    PROVE  WritesOK'
<1>1. ASSUME NEW k \in DOMAIN writes', writes'[k].by \in Slots
      PROVE  run'[writes'[k].by].pc \in SavePCs
  <2>1. CASE Fresh(a, k)
    <3>1. writes'[k].by = a /\ a \in Slots
      BY <1>1, <2>1 DEF Fresh
    <3>2. ~(k + d \in DOMAIN writes /\ writes'[k] = writes[k + d])
      BY <3>1, Remaining DEF IInv
    <3> QED
      BY <3>1, <3>2 DEF Shift
  <2>2. CASE ~Fresh(a, k)
    <3> DEFINE j == k + d
    <3>1. j \in DOMAIN writes /\ writes'[k] = writes[j] /\ (a \in Slots => writes[j].by # a)
      BY <2>2, Remaining DEF IInv
    <3> HIDE DEF j
    <3>2. writes[j].by \in Slots \ {a} /\ run[writes[j].by].pc \in SavePCs
      BY <1>1, <3>1 DEF IInv, WritesOK
    <3> QED
      BY <3>1, <3>2 DEF Frame
  <2> QED
    BY <2>1, <2>2
<1>2. ASSUME NEW k \in DOMAIN writes', NEW j \in DOMAIN writes', writes'[k].by \in Slots,
             writes'[k].by = writes'[j].by
      PROVE  j = k
  <2>0. k \in Nat /\ j \in Nat
    BY Indices
  <2>1. CASE Fresh(a, k) /\ Fresh(a, j)
    BY <2>0, <2>1 DEF Fresh
  <2>2. CASE ~Fresh(a, k) /\ ~Fresh(a, j)
    <3>1. /\ k + d \in DOMAIN writes /\ writes'[k] = writes[k + d]
          /\ j + d \in DOMAIN writes /\ writes'[j] = writes[j + d]
      BY <2>2, Remaining DEF IInv
    <3>2. j + d = k + d
      BY <3>1, <1>2 DEF IInv, WritesOK
    <3> QED
      BY <3>2, <2>0
  <2>3. CASE Fresh(a, k) /\ ~Fresh(a, j)
    <3>1. writes'[k].by = a /\ a \in Slots /\ writes'[j] = writes[j + d] /\ writes[j + d].by # a
      BY <2>3, <1>2, Remaining DEF IInv, Fresh
    <3> QED
      BY <3>1, <1>2
  <2>4. CASE ~Fresh(a, k) /\ Fresh(a, j)
    <3>1. writes'[j].by = a /\ a \in Slots /\ writes'[k] = writes[k + d] /\ writes[k + d].by # a
      BY <2>4, <1>2, Remaining DEF IInv, Fresh
    <3> QED
      BY <3>1, <1>2
  <2> QED
    BY <2>1, <2>2, <2>3, <2>4
<1>3. up' /\ (booth' = "agent" => charged' = {})
  BY DEF Frame, IInv, WritesOK
<1> QED
  BY <1>1, <1>2, <1>3 DEF WritesOK

(* The invoices of the other runs do not get in the way of a's step.       *)
Apart(a) ==
    \A t \in Slots \ {a} :
        run[t].pc = "quoting" =>
            run[t].inv \notin offered' /\ (a \in Slots => run'[a].inv # run[t].inv)

LEMMA RunsKept ==
    ASSUME IInv, TypeOK', NEW a \in Actors, Frame(a), Evolves, Apart(a),
           a \in Slots => RunOK(a)'
    PROVE  RunsOK'
<1>1. ASSUME NEW t \in Slots \ {a}
      PROVE  RunOK(t)'
  <2>1. run'[t] = run[t] /\ RunOK(t)
    BY DEF Frame, IInv, RunsOK
  <2>0. PICK i : i = run[t].inv
    OBVIOUS
  <2>2. run[t].pc # "idle" => i \in Invoices
    BY <2>0, <2>1 DEF RunOK
  <2>3. run[t].pc = "quoting" =>
          /\ booth' = "server" /\ i \notin offered'
          /\ \A x \in Slots \ {t} : run'[x].inv # i
    <3>1. ASSUME run[t].pc = "quoting", NEW x \in Slots \ {t}
          PROVE  run'[x].inv # i
      <4>1. CASE x = a
        BY <3>1, <4>1, <2>0 DEF Apart
      <4>2. CASE x # a
        BY <3>1, <4>2, <2>0, <2>1 DEF Frame, RunOK
      <4> QED
        BY <4>1, <4>2
    <3> QED
      BY <3>1, <2>0, <2>1 DEF RunOK, Frame, Apart
  <2>4. run[t].pc \in Working \cup {"savingPaid", "savingFailed"} =>
          i \in offered' /\ run[t].kind \in {"pay", "confirm"}
    BY <2>0, <2>1 DEF RunOK, Frame
  <2>5. run[t].kind = "confirm" => i \in charged'
    BY <2>0, <2>1 DEF RunOK, Frame
  <2>6. run[t].kind = "confirm" /\ run[t].pc \in Working => Held(mem, i)'
    <3>1. run[t].kind = "confirm" /\ run[t].pc \in Working => i \in offered /\ Held(mem, i)
      BY <2>0, <2>1 DEF RunOK
    <3>2. i \in offered /\ Held(mem, i) => mem'.inv[i].status = "paid" \/ i \in lapsed'
      BY DEF Held, Frame, Evolves
    <3> QED
      BY <3>1, <3>2, <2>1 DEF Held
  <2>7. run[t].pc = "savingPaid" => Settles(mem, i)'
    <3>1. run[t].pc = "savingPaid" => i \in offered /\ Settles(mem, i)
      BY <2>0, <2>1 DEF RunOK
    <3>2. i \in offered => (Settles(mem, i) => Settles(mem, i)')
      BY MemorySettles
    <3> QED
      BY <3>1, <3>2
  <2> QED
    BY <2>0, <2>1, <2>2, <2>3, <2>4, <2>5, <2>6, <2>7 DEF RunOK, Held, Settles, Receipts
<1> QED
  BY <1>1 DEF RunsOK, Actors

LEMMA SavesKept ==
    ASSUME IInv, TypeOK', NEW a \in Actors, NEW d \in {0, 1}, Frame(a), Shift(a, d), RunsOK'
    PROVE  SavesOK'
<1> SUFFICES ASSUME NEW t \in Slots, NEW k \in DOMAIN writes', NEW j \in DOMAIN writes',
                    run'[t].pc = "savingPaid", writes'[k].by = t, k <= j
             PROVE  Settles(writes[j].snap, run[t].inv)'
  BY DEF SavesOK
<1>1. Settles(mem, run[t].inv)'
  BY DEF RunsOK, RunOK
<1>2. k \in Nat /\ j \in Nat
  BY Indices
<1>3. CASE Fresh(a, j)
  <2>1. writes'[j].snap = mem'
    BY <1>3 DEF Fresh
  <2> QED
    BY <1>1, <2>1 DEF Settles, Held, Receipts
<1>4. CASE ~Fresh(a, j)
  <2>1. ~Fresh(a, k)
    BY <1>2, <1>4 DEF Fresh
  <2> DEFINE x == k + d
             y == j + d
  <2>2. /\ x \in DOMAIN writes /\ writes'[k] = writes[x] /\ (a \in Slots => writes[x].by # a)
        /\ y \in DOMAIN writes /\ writes'[j] = writes[y] /\ x <= y
    BY <1>2, <1>4, <2>1, Remaining DEF IInv
  <2> HIDE DEF x, y
  <2>3. run'[t] = run[t]
    BY <2>2 DEF Frame
  <2>4. Settles(writes[y].snap, run[t].inv)
    BY <2>2, <2>3 DEF IInv, SavesOK
  <2> QED
    BY <2>2, <2>3, <2>4 DEF Settles, Held, Receipts, Frame
<1> QED
  BY <1>3, <1>4

(* The answer of success is given when the write of the receipt lands.     *)
Answers(a, d) ==
    \A i \in told' \ told :
        /\ a \in Slots /\ run[a].pc = "savingPaid" /\ run[a].inv = i
        /\ d = 1 /\ disk' = writes[1].snap

LEMMA ToldKept ==
    ASSUME IInv, TypeOK', NEW a \in Actors, NEW d \in {0, 1}, Frame(a), Shift(a, d), Evolves,
           Answers(a, d)
    PROVE  ToldOK'
<1> SUFFICES ASSUME NEW i \in told'
             PROVE  /\ Settles(disk, i)' /\ Settles(mem, i)'
                    /\ \A k \in DOMAIN writes' : Settles(writes[k].snap, i)'
  BY DEF ToldOK
<1>1. /\ i \in offered /\ Settles(mem, i)
      /\ disk' = disk => Settles(disk, i)
      /\ d = 1 => Settles(writes[1].snap, i)
      /\ \A k \in DOMAIN writes : (d = 1 => k >= 1) => Settles(writes[k].snap, i)
  <2>1. CASE i \in told
    BY <2>1 DEF IInv, ToldOK, TypeOK, Frame, Shift
  <2>2. CASE i \notin told
    <3>1. /\ a \in Slots /\ run[a].pc = "savingPaid" /\ run[a].inv = i
          /\ d = 1 /\ disk' = writes[1].snap /\ writes[1].by = a /\ 1 \in DOMAIN writes
      BY <2>2 DEF Answers, Shift
    <3>2. i \in offered /\ Settles(mem, i)
      BY <3>1 DEF IInv, RunsOK, RunOK
    <3>3. \A k \in DOMAIN writes : k >= 1 => Settles(writes[k].snap, i)
      BY <3>1 DEF IInv, SavesOK
    <3> QED
      BY <3>1, <3>2, <3>3
  <2> QED
    BY <2>1, <2>2
<1>2. Settles(mem, i)'
  BY <1>1, MemorySettles
<1>3. Settles(disk, i)'
  <2>1. disk' = disk \/ (d = 1 /\ disk' = writes[1].snap)
    BY DEF Shift
  <2> QED
    BY <1>1, <2>1 DEF Settles, Held, Receipts, Frame
<1>4. ASSUME NEW k \in DOMAIN writes'
      PROVE  Settles(writes[k].snap, i)'
  <2>1. CASE Fresh(a, k)
    <3>1. writes'[k].snap = mem'
      BY <2>1 DEF Fresh
    <3> QED
      BY <1>2, <3>1 DEF Settles, Held, Receipts
  <2>2. CASE ~Fresh(a, k)
    <3> DEFINE x == k + d
    <3>1. x \in DOMAIN writes /\ writes'[k] = writes[x]
      BY <2>2, Remaining DEF IInv
    <3> HIDE DEF x
    <3>2. x >= 1
      BY <3>1, Positions DEF IInv
    <3>3. Settles(writes[x].snap, i)
      BY <1>1, <3>1, <3>2
    <3> QED
      BY <3>1, <3>3 DEF Settles, Held, Receipts, Frame
  <2> QED
    BY <2>1, <2>2
<1> QED
  BY <1>2, <1>3, <1>4
(* The run a works on an invoice when nobody else does, or when something  *)
(* has gone wrong with it, and once it has delivered it it goes on to save *)
(* the receipt, has it saved, or something goes wrong.                     *)
Sole(a) ==
    a \in Slots =>
        /\ run[a].pc \in Unreceipted =>
              \/ run[a].inv \in told' \cup doubtful'
              \/ run'[a].pc \in Unreceipted /\ run'[a].inv = run[a].inv
        /\ run'[a].pc \in Working =>
              \/ run[a].pc \in Working \ {"recording"} /\ run'[a].inv = run[a].inv
              \/ run'[a].inv \in doubtful'
              \/ /\ delivered[run'[a].inv] = 0
                 /\ \A t \in Slots \ {a} : run[t].pc \in Working => run[t].inv # run'[a].inv

LEMMA OnceKept ==
    ASSUME IInv, NEW a \in Actors, Frame(a), Sole(a), delivered' = delivered
    PROVE  OnceOK'
<1> SUFFICES ASSUME NEW i \in Invoices \ doubtful'
             PROVE  /\ delivered[i] <= 1
                    /\ delivered[i] # 0 =>
                          \/ i \in told'
                          \/ \E s \in Slots : run'[s].pc \in Unreceipted /\ run'[s].inv = i
                    /\ \A s \in Slots :
                          run'[s].pc \in Working /\ run'[s].inv = i =>
                             /\ run'[s].pc # "recording" => delivered[i] = 0
                             /\ \A t \in Slots \ {s} : run'[t].pc \in Working => run'[t].inv # i
  BY DEF OnceOK
<1>1. /\ delivered[i] <= 1
      /\ delivered[i] # 0 =>
            i \in told \/ \E s \in Slots : run[s].pc \in Unreceipted /\ run[s].inv = i
      /\ \A s \in Slots :
            run[s].pc \in Working /\ run[s].inv = i =>
               /\ run[s].pc # "recording" => delivered[i] = 0
               /\ \A t \in Slots \ {s} : run[t].pc \in Working => run[t].inv # i
  BY DEF IInv, OnceOK, Frame
<1>2. ASSUME delivered[i] # 0
      PROVE  i \in told' \/ \E s \in Slots : run'[s].pc \in Unreceipted /\ run'[s].inv = i
  <2>1. CASE i \in told
    BY <2>1 DEF Frame
  <2>2. CASE \E s \in Slots : run[s].pc \in Unreceipted /\ run[s].inv = i
    <3>1. PICK s \in Slots : run[s].pc \in Unreceipted /\ run[s].inv = i
      BY <2>2
    <3>2. CASE s = a
      BY <3>1, <3>2 DEF Sole, Unreceipted
    <3>3. CASE s # a
      BY <3>1, <3>3 DEF Frame
    <3> QED
      BY <3>2, <3>3
  <2> QED
    BY <1>1, <1>2, <2>1, <2>2
<1>3. ASSUME NEW s \in Slots, run'[s].pc \in Working, run'[s].inv = i
      PROVE  /\ run'[s].pc # "recording" => delivered[i] = 0
             /\ \A t \in Slots \ {s} : run'[t].pc \in Working => run'[t].inv # i
  <2>0. ASSUME a \in Slots, run'[a].pc \in Working, run'[a].inv = i
        PROVE  /\ delivered[i] = 0
               /\ \A t \in Slots \ {a} : run[t].pc \in Working => run[t].inv # i
    BY <2>0, <1>1 DEF Sole, Unreceipted
  <2>1. CASE s = a
    BY <1>3, <2>0, <2>1 DEF Frame
  <2>2. CASE s # a
    <3>1. run'[s] = run[s] /\ run[s].pc \in Working /\ run[s].inv = i
      BY <1>3, <2>2 DEF Frame
    <3>2. run'[s].pc # "recording" => delivered[i] = 0
      BY <1>1, <3>1
    <3>3. ASSUME NEW t \in Slots \ {s}, run'[t].pc \in Working
          PROVE  run'[t].inv # i
      <4>1. CASE t = a
        BY <2>0, <3>1, <3>3, <4>1, <2>2
      <4>2. CASE t # a
        BY <1>1, <3>1, <3>3, <4>2 DEF Frame
      <4> QED
        BY <4>1, <4>2
    <3> QED
      BY <3>2, <3>3
  <2> QED
    BY <2>1, <2>2
<1> QED
  BY <1>1, <1>2, <1>3

LEMMA OnceDelivered ==
    ASSUME IInv, NEW a \in Slots, Frame(a), NEW i \in Invoices,
           run[a].pc \in Working \ {"recording"}, run'[a].pc \in Unreceipted, run[a].inv = i, run'[a].inv = i,
           delivered' = [delivered EXCEPT ![i] = @ + 1]
    PROVE  OnceOK'
<1>0. /\ \A j \in Invoices \ {i} : delivered'[j] = delivered[j]
      /\ delivered'[i] = delivered[i] + 1
      /\ run[a].pc \notin Unreceipted
  BY DEF IInv, TypeOK, Working, Unreceipted
<1>1. ASSUME NEW j \in Invoices \ doubtful'
      PROVE  /\ delivered[j] <= 1
             /\ delivered[j] # 0 =>
                   j \in told \/ \E s \in Slots : run[s].pc \in Unreceipted /\ run[s].inv = j
             /\ \A s \in Slots :
                   run[s].pc \in Working /\ run[s].inv = j =>
                      /\ run[s].pc # "recording" => delivered[j] = 0
                      /\ \A t \in Slots \ {s} : run[t].pc \in Working => run[t].inv # j
  BY DEF IInv, OnceOK, Frame
<1>2. i \notin doubtful' =>
         delivered'[i] = 1 /\ \A t \in Slots \ {a} : run[t].pc \in Working => run[t].inv # i
  BY <1>0, <1>1
<1> SUFFICES ASSUME NEW j \in Invoices \ doubtful'
             PROVE  /\ delivered'[j] <= 1
                    /\ delivered'[j] # 0 =>
                          \/ j \in told'
                          \/ \E s \in Slots : run'[s].pc \in Unreceipted /\ run'[s].inv = j
                    /\ \A s \in Slots :
                          run'[s].pc \in Working /\ run'[s].inv = j =>
                             /\ run'[s].pc # "recording" => delivered'[j] = 0
                             /\ \A t \in Slots \ {s} : run'[t].pc \in Working => run'[t].inv # j
  BY DEF OnceOK
<1>3. CASE j = i
  <2>1. \A s \in Slots \ {a} : run'[s].pc \in Working => run'[s].inv # i
    BY <1>0, <1>2, <1>3 DEF Frame
  <2>2. run'[a].pc \in Working => run'[a].pc = "recording"
    BY DEF Unreceipted, Working
  <2> QED
    BY <1>2, <1>3, <2>1, <2>2
<1>4. CASE j # i
  <2>1. delivered'[j] = delivered[j]
    BY <1>0, <1>4
  <2>2. \A s \in Slots : run[s].pc \in Unreceipted => s # a
    BY <1>0
  <2>3. \A s \in Slots : run'[s].inv = j => run'[s] = run[s]
    BY <1>4 DEF Frame
  <2>4. delivered'[j] # 0 =>
           j \in told' \/ \E s \in Slots : run'[s].pc \in Unreceipted /\ run'[s].inv = j
    BY <1>1, <2>1, <2>2 DEF Frame
  <2>5. run'[a].inv # j
    BY <1>4
  <2> QED
    BY <1>1, <2>1, <2>3, <2>4, <2>5
<1> QED
  BY <1>3, <1>4

(* What a step must show.                                                  *)
LEMMA Kept ==
    ASSUME IInv, TypeOK', NEW a \in Actors, NEW d \in {0, 1}, Frame(a), Shift(a, d), Evolves,
           Apart(a), Answers(a, d), Backed(mem)', Numbered(mem)', a \in Slots => RunOK(a)',
           \/ Sole(a) /\ delivered' = delivered
           \/ OnceOK'
    PROVE  IInv'
<1>1. CopiesOK' /\ WritesOK'
  BY CopiesKept, WritesKept
<1>2. RunsOK'
  BY RunsKept
<1>3. SavesOK'
  BY <1>2, SavesKept
<1>4. ToldOK'
  BY ToldKept
<1>5. OnceOK'
  BY OnceKept
<1> QED
  BY <1>1, <1>2, <1>3, <1>4, <1>5 DEF IInv
-----------------------------------------------------------------------------
(* How memory changes.                                                     *)
LEMMA Memory ==
    ASSUME IInv
    PROVE  /\ mem \in BoothState /\ mem.inv \in [Invoices -> Invoice]
           /\ mem.receipts \subseteq Receipt /\ Backed(mem) /\ Numbered(mem)
           /\ NewReceipt \in Nat
<1>1. mem \in BoothState /\ Backed(mem) /\ Numbered(mem)
  BY DEF IInv, TypeOK, CopiesOK
<1>2. NewReceipt \in Nat
  BY <1>1, FS_CardinalityType DEF Numbered, NewReceipt
<1> QED
  BY <1>1, <1>2 DEF BoothState

LEMMA Still ==
    ASSUME IInv, mem' = mem, booth' = booth
    PROVE  mem' \in BoothState /\ Evolves /\ Backed(mem)' /\ Numbered(mem)'
  BY Memory DEF Evolves, Backed, Numbered, Receipts

(* One invoice changes, and names no receipt that it did not name.         *)
LEMMA Marked ==
    ASSUME IInv, booth' = booth, NEW i \in Invoices, NEW x \in Invoice,
           mem' = [mem EXCEPT !.inv[i] = x],
           x.ful = "fulfilled" => mem.inv[i].ful = "fulfilled" /\ x.receipt = mem.inv[i].receipt,
           booth = "agent" /\ x.status = "paid" => mem.inv[i].status = "paid",
           i \in offered =>
              /\ mem.inv[i].status = "paid" => x.status = "paid" \/ i \in lapsed
              /\ mem.inv[i].ful = "fulfilled" => x.ful = "fulfilled" \/ i \in doubtful'
    PROVE  mem' \in BoothState /\ Evolves /\ Backed(mem)' /\ Numbered(mem)' /\ mem'.inv[i] = x
<1> DEFINE m == [mem.inv EXCEPT ![i] = x]
<1>1. m \in [Invoices -> Invoice] /\ \A j \in Invoices : m[j] = IF j = i THEN x ELSE mem.inv[j]
  BY Memory
<1>2. mem' = [mem EXCEPT !.inv = m]
  OBVIOUS
<1> HIDE DEF m
<1>3. mem' \in BoothState /\ mem'.inv = m /\ mem'.receipts = mem.receipts
  BY <1>1, <1>2, Memory DEF BoothState
<1>4. offered \subseteq Invoices
  BY DEF IInv, TypeOK
<1>5. Evolves
  BY <1>1, <1>3, <1>4 DEF Evolves
<1>6. Backed(mem)'
  BY <1>1, <1>3, Memory DEF Backed, Receipts
<1>7. Numbered(mem)'
  BY <1>3, Memory DEF Numbered
<1> QED
  BY <1>1, <1>3, <1>5, <1>6, <1>7

(* One invoice changes, and gets a receipt with a number not given before. *)
LEMMA Receipted ==
    ASSUME IInv, booth' = booth, NEW i \in Invoices, NEW x \in Invoice,
           mem' = [mem EXCEPT !.inv[i] = x,
                              !.receipts = @ \cup {[id |-> NewReceipt, inv |-> i]}],
           x.ful = "fulfilled" =>
              \/ x.receipt = NewReceipt
              \/ mem.inv[i].ful = "fulfilled" /\ x.receipt = mem.inv[i].receipt,
           i \in offered =>
              /\ mem.inv[i].status = "paid" => x.status = "paid" \/ i \in lapsed
              /\ mem.inv[i].ful = "fulfilled" => x.ful = "fulfilled" \/ i \in doubtful'
    PROVE  /\ mem' \in BoothState /\ Evolves /\ Backed(mem)' /\ Numbered(mem)'
           /\ mem'.inv[i] = x /\ Receipts(mem, i)' # {}
<1> DEFINE m == [mem.inv EXCEPT ![i] = x]
           r == [id |-> NewReceipt, inv |-> i]
           all == mem.receipts \cup {r}
<1>1. m \in [Invoices -> Invoice] /\ \A j \in Invoices : m[j] = IF j = i THEN x ELSE mem.inv[j]
  BY Memory
<1>2. mem' = [mem EXCEPT !.inv = m, !.receipts = all]
  OBVIOUS
<1>3. r \in Receipt /\ r.id = NewReceipt /\ r.inv = i
  BY Memory DEF Receipt
<1> HIDE DEF m, r
<1>4. all \subseteq Receipt /\ r \in all /\ mem.receipts \subseteq all
  BY <1>3, Memory
<1>5. \A q \in mem.receipts : q.id <= Cardinality(mem.receipts) /\ q.id \in Nat
  BY Memory DEF Numbered, Receipt
<1>6. IsFiniteSet(mem.receipts) /\ Cardinality(mem.receipts) \in Nat
  BY Memory, FS_CardinalityType DEF Numbered
<1>7. r \notin mem.receipts
  BY <1>3, <1>5, <1>6 DEF NewReceipt
<1>8. IsFiniteSet(all) /\ Cardinality(all) = NewReceipt
  BY <1>6, <1>7, FS_AddElement DEF NewReceipt
<1> HIDE DEF all
<1>9. mem' \in BoothState /\ mem'.inv = m /\ mem'.receipts = all
  BY <1>1, <1>2, <1>4, Memory DEF BoothState
<1>10. offered \subseteq Invoices
  BY DEF IInv, TypeOK
<1>11. Evolves
  BY <1>1, <1>4, <1>9, <1>10 DEF Evolves
<1>12. Backed(mem)'
  <2>1. [id |-> NewReceipt, inv |-> i] \in all
    BY <1>4 DEF r
  <2>2. r.inv = i /\ r \in all /\ mem.receipts \subseteq all
    BY <1>3, <1>4
  <2>3. ASSUME NEW j \in Invoices, m[j].ful = "fulfilled"
        PROVE  [id |-> m[j].receipt, inv |-> j] \in all
    BY <1>1, <2>1, <2>2, <2>3, Memory DEF Backed
  <2>4. ASSUME NEW j \in Invoices, booth = "agent", m[j].status = "paid"
        PROVE  {q \in all : q.inv = j} # {}
    BY <1>1, <2>2, <2>4, Memory DEF Backed, Receipts
  <2> QED
    BY <1>9, <2>3, <2>4 DEF Backed, Receipts
<1>13. Numbered(mem)'
  <2>1. \A q \in all : q = r \/ (q \in mem.receipts /\ q.id < NewReceipt)
    BY <1>5, <1>6 DEF all, NewReceipt
  <2>2. \A q \in all : q.id <= NewReceipt
    BY <2>1, <1>3, <1>5, Memory
  <2>3. \A q, p \in all : q.id = p.id => q = p
    BY <2>1, <1>3, <1>5, Memory DEF Numbered
  <2> QED
    BY <1>8, <1>9, <2>2, <2>3 DEF Numbered
<1>14. Receipts(mem, i)' # {}
  BY <1>3, <1>4, <1>9 DEF Receipts
<1> QED
  BY <1>1, <1>9, <1>11, <1>12, <1>13, <1>14

(* How the runs change.                                                    *)
Kinds == {"pay", "repeat", "catalog", "fault"}
LEMMA Left ==
    ASSUME TypeOK, NEW what \in Kinds, Take(what)
    PROVE  left' \in [Kinds -> Nat]
  BY DEF Take, TypeOK, Kinds

LEMMA Begun ==
    ASSUME TypeOK, NEW s \in Slots, NEW i \in Invoices, NEW kind \in {"invoice", "pay", "confirm"},
           NEW pc \in SavePCs \cup {"quoting", "verifying"}, Begin(s, pc, kind, i)
    PROVE  /\ run' \in [Slots -> Run] /\ \A t \in Slots \ {s} : run'[t] = run[t]
           /\ run'[s].pc = pc /\ run'[s].kind = kind /\ run'[s].inv = i
           /\ run[s].pc = "idle" /\ up
<1> DEFINE r == [pc |-> pc, kind |-> kind, inv |-> i, made |-> 0]
<1>1. r \in Run /\ r.pc = pc /\ r.kind = kind /\ r.inv = i
  BY InvoiceBounds DEF Run
<1>2. run' = [run EXCEPT ![s] = r] /\ run[s].pc = "idle" /\ up
  BY DEF Begin, At
<1> HIDE DEF r
<1> QED
  BY <1>1, <1>2 DEF TypeOK

LEMMA Moved ==
    ASSUME TypeOK, NEW s \in Slots, NEW pc \in SavePCs \cup {"fulfilling", "recording"},
           Goto(s, pc)
    PROVE  /\ run' \in [Slots -> Run] /\ \A t \in Slots \ {s} : run'[t] = run[t]
           /\ run'[s].pc = pc /\ run'[s].kind = run[s].kind /\ run'[s].inv = run[s].inv
<1> DEFINE r == [run[s] EXCEPT !.pc = pc]
<1>1. run[s] \in Run
  BY DEF TypeOK
<1>2. r \in Run /\ r.pc = pc /\ r.kind = run[s].kind /\ r.inv = run[s].inv
  BY <1>1 DEF Run
<1>3. run' = [run EXCEPT ![s] = r]
  BY DEF Goto
<1> HIDE DEF r
<1> QED
  BY <1>2, <1>3 DEF TypeOK

LEMMA Ended ==
    ASSUME TypeOK, NEW s \in Slots, Finish(s)
    PROVE  /\ run' \in [Slots -> Run] /\ \A t \in Slots \ {s} : run'[t] = run[t]
           /\ run'[s] = Idle /\ RunOK(s)'
<1>1. /\ run' \in [Slots -> Run] /\ \A t \in Slots \ {s} : run'[t] = run[t]
      /\ run'[s] = Idle
  BY IdleType DEF Finish, TypeOK
<1> QED
  BY <1>1 DEF RunOK, Idle, Working

(* The invoice of a run in progress.                                       *)
LEMMA Subject ==
    ASSUME IInv, NEW s \in Slots
    PROVE  RunOK(s) /\ run[s] \in Run /\ (run[s].pc # "idle" => run[s].inv \in Invoices)
  BY DEF IInv, TypeOK, RunsOK, RunOK

(* An invoice that a buyer has is no other run's to make.                  *)
LEMMA Own ==
    ASSUME IInv, NEW s \in Slots, offered' = offered,
           \/ run'[s].inv = NoInvoice \/ run'[s].inv \in offered
           \/ run[s].pc # "idle" /\ run'[s].inv = run[s].inv
    PROVE  Apart(s)
<1>1. \A t \in Slots \ {s} : run[t].pc = "quoting" =>
         /\ run[t].inv \in Invoices /\ run[t].inv \notin offered
         /\ run[s].inv # run[t].inv
  BY DEF IInv, RunsOK, RunOK
<1> QED
  BY <1>1, InvoiceBounds DEF Apart
-----------------------------------------------------------------------------
(* The steps of the runs, one by one.                                      *)
LEMMA RequestKeeps ==
    ASSUME IInv, NEW s \in Slots, NEW i \in Invoices, RequestInvoice(s, i)
    PROVE  IInv'
<1>1. /\ run' \in [Slots -> Run] /\ \A t \in Slots \ {s} : run'[t] = run[t]
      /\ run'[s].pc = "quoting" /\ run'[s].kind = "invoice" /\ run'[s].inv = i
      /\ run[s].pc = "idle" /\ up
  BY Begun DEF IInv, RequestInvoice
<1>2. /\ booth = "server" /\ i \notin offered /\ \A t \in Slots : run[t].inv # i
      /\ UNCHANGED <<booth, client, mem, disk, writes, up, lapsed, charged, acked, left, history>>
  BY DEF RequestInvoice
<1>3. TypeOK'
  BY <1>1, <1>2 DEF IInv, TypeOK, history
<1>4. Frame(s) /\ Shift(s, 0) /\ s \in Actors
  BY <1>1, <1>2, Unwritten DEF IInv, Frame, history, SavePCs, Actors
<1>5. Evolves /\ Backed(mem)' /\ Numbered(mem)'
  BY <1>2, Still
<1>6. Apart(s) /\ Answers(s, 0) /\ Sole(s)
  BY <1>1, <1>2 DEF Apart, Answers, Sole, Unreceipted, history, Working, IInv, RunsOK, RunOK
<1>7. RunOK(s)'
  BY <1>1, <1>2 DEF RunOK, Working, history
<1> QED
  BY <1>2, <1>3, <1>4, <1>5, <1>6, <1>7, Kept DEF history

LEMMA CreateKeeps ==
    ASSUME IInv, NEW s \in Slots, CreatePayment(s)
    PROVE  IInv'
<1>1. /\ At(s, "quoting") /\ run[s].made < Adapters
      /\ UNCHANGED <<booth, client, mem, disk, writes, up, lapsed, charged, acked, history>>
  BY DEF CreatePayment
<1>2. /\ run[s] \in Run /\ RunOK(s) /\ run[s].inv \in Invoices
      /\ \A t \in Slots \ {s} : run[t].inv # run[s].inv
  BY <1>1, Subject DEF At, RunOK
<1>3. /\ run' \in [Slots -> Run] /\ \A t \in Slots \ {s} : run'[t] = run[t]
      /\ run'[s].pc \in {"quoting", "idle"} /\ RunOK(s)' /\ Apart(s)
      /\ left' \in [Kinds -> Nat]
  <2>1. CASE run' = [run EXCEPT ![s].made = @ + 1] /\ UNCHANGED left
    <3> DEFINE n == run[s].made + 1
               r == [run[s] EXCEPT !.made = n]
    <3>1. n \in 0..Adapters
      BY <1>1, <1>2, InvoiceBounds DEF Run
    <3> HIDE DEF n
    <3>2. r \in Run /\ r.pc = run[s].pc /\ r.inv = run[s].inv /\ r.kind = run[s].kind
      BY <1>2, <3>1 DEF Run
    <3>3. run' = [run EXCEPT ![s] = r]
      BY <2>1 DEF n
    <3> HIDE DEF r
    <3>4. run' \in [Slots -> Run] /\ run'[s] = r /\ \A t \in Slots \ {s} : run'[t] = run[t]
      BY <3>2, <3>3 DEF IInv, TypeOK
    <3>5. RunOK(s)'
      BY <1>1, <1>2, <3>2, <3>4 DEF RunOK, At, Working, history
    <3>6. Apart(s)
      BY <1>1, <3>2, <3>4, Own DEF At, history
    <3> QED
      BY <1>1, <2>1, <3>2, <3>4, <3>5, <3>6 DEF At, IInv, TypeOK, Kinds
  <2>2. CASE Take("fault") /\ Finish(s)
    <3>1. /\ run' \in [Slots -> Run] /\ \A t \in Slots \ {s} : run'[t] = run[t]
          /\ run'[s] = Idle /\ RunOK(s)'
      BY <2>2, Ended DEF IInv
    <3>2. left' \in [Kinds -> Nat]
      BY <2>2, Left DEF IInv, Kinds
    <3>3. Apart(s)
      BY <1>1, <3>1, Own DEF Idle, history
    <3> QED
      BY <3>1, <3>2, <3>3 DEF Idle
  <2> QED
    BY <2>1, <2>2 DEF CreatePayment
<1>4. TypeOK'
  BY <1>1, <1>3 DEF IInv, TypeOK, history, Kinds
<1>5. Frame(s) /\ Shift(s, 0) /\ s \in Actors
  BY <1>1, <1>3, Unwritten DEF IInv, Frame, history, SavePCs, Actors, At
<1>6. Evolves /\ Backed(mem)' /\ Numbered(mem)'
  BY <1>1, Still
<1>7. Answers(s, 0) /\ Sole(s)
  BY <1>1, <1>3 DEF Answers, Sole, Unreceipted, history, Working, At
<1> QED
  BY <1>1, <1>3, <1>4, <1>5, <1>6, <1>7, Kept DEF history

LEMMA QuotedKeeps ==
    ASSUME IInv, NEW s \in Slots, Quoted(s)
    PROVE  IInv'
<1> DEFINE x == [status |-> "pending", ful |-> "pending", receipt |-> 0]
<1>0. PICK i : i = run[s].inv
  OBVIOUS
<1>1. /\ At(s, "quoting") /\ mem' = [mem EXCEPT !.inv[i] = x]
      /\ SaveState(s) /\ Goto(s, "savingNew")
      /\ UNCHANGED <<booth, client, disk, up, lapsed, charged, acked, left, history>>
  BY <1>0 DEF Quoted
<1>2. /\ i \in Invoices /\ i \notin offered /\ RunOK(s)
  BY <1>0, <1>1, Subject DEF At, RunOK
<1>3. x \in Invoice /\ x.ful = "pending" /\ x.status = "pending"
  BY DEF Invoice
<1> HIDE DEF x
<1>4. mem' \in BoothState /\ Evolves /\ Backed(mem)' /\ Numbered(mem)'
  BY <1>1, <1>2, <1>3, Marked
<1>5. /\ run' \in [Slots -> Run] /\ \A t \in Slots \ {s} : run'[t] = run[t]
      /\ run'[s].pc = "savingNew" /\ run'[s].kind = run[s].kind /\ run'[s].inv = i
  BY <1>0, <1>1, Moved DEF IInv, SavePCs
<1>6. Shift(s, 0) /\ writes' \in Seq(Write) /\ s \in Actors
  BY <1>1, <1>4, <1>5, Saved DEF IInv, SaveState, SavePCs, Actors, At
<1>7. TypeOK'
  BY <1>1, <1>4, <1>5, <1>6 DEF IInv, TypeOK, history
<1>8. Frame(s)
  BY <1>1, <1>5 DEF Frame, history, At
<1>9. Apart(s)
  BY <1>0, <1>1, <1>5, Own DEF At, history
<1>10. Answers(s, 0) /\ Sole(s)
  BY <1>1, <1>5 DEF Answers, Sole, Unreceipted, history, Working, At
<1>11. RunOK(s)'
  BY <1>0, <1>1, <1>2, <1>5 DEF RunOK, Working, history
<1> QED
  BY <1>1, <1>4, <1>6, <1>7, <1>8, <1>9, <1>10, <1>11, Kept DEF history

LEMMA AgentInvoiceKeeps ==
    ASSUME IInv, NEW s \in Slots, NEW i \in Invoices, AgentInvoice(s, i)
    PROVE  IInv'
<1> DEFINE x == [NotMade EXCEPT !.status = "pending"]
<1>1. /\ booth = "agent" /\ i \notin offered /\ Begin(s, "savingNew", "invoice", i)
      /\ mem' = [mem EXCEPT !.inv[i] = x] /\ SaveState(s)
      /\ UNCHANGED <<booth, client, disk, up, lapsed, charged, acked, left, history>>
  BY DEF AgentInvoice
<1>2. x \in Invoice /\ x.ful = "none" /\ x.status = "pending"
  BY DEF Invoice, NotMade
<1> HIDE DEF x
<1>3. mem' \in BoothState /\ Evolves /\ Backed(mem)' /\ Numbered(mem)'
  BY <1>1, <1>2, Marked
<1>4. /\ run' \in [Slots -> Run] /\ \A t \in Slots \ {s} : run'[t] = run[t]
      /\ run'[s].pc = "savingNew" /\ run'[s].kind = "invoice" /\ run'[s].inv = i
      /\ run[s].pc = "idle" /\ up
  BY <1>1, Begun DEF IInv, SavePCs
<1>5. Shift(s, 0) /\ writes' \in Seq(Write) /\ s \in Actors
  BY <1>1, <1>3, <1>4, Saved DEF IInv, SaveState, SavePCs, Actors
<1>6. TypeOK'
  BY <1>1, <1>3, <1>4, <1>5 DEF IInv, TypeOK, history
<1>7. Frame(s)
  BY <1>1, <1>4 DEF Frame, history
<1>8. Apart(s)
  BY <1>1 DEF Apart, IInv, RunsOK, RunOK
<1>9. Answers(s, 0) /\ Sole(s)
  BY <1>1, <1>4 DEF Answers, Sole, Unreceipted, history, Working
<1>10. RunOK(s)'
  BY <1>1, <1>4 DEF RunOK, Working, history
<1> QED
  BY <1>1, <1>3, <1>5, <1>6, <1>7, <1>8, <1>9, <1>10, Kept DEF history

LEMMA ExpiredStep ==
    ASSUME IInv, NEW s \in Slots, NEW i \in offered, NEW kind \in {"pay", "confirm"},
           i \in lapsed, MarkExpired(s, kind, i), booth' = booth, disk' = disk
    PROVE  /\ mem' \in BoothState /\ Evolves /\ Backed(mem)' /\ Numbered(mem)'
           /\ writes' \in Seq(Write) /\ Shift(s, 0) /\ doubtful' = doubtful
           /\ run' \in [Slots -> Run] /\ \A t \in Slots \ {s} : run'[t] = run[t]
           /\ run'[s].pc = "savingExpired" /\ run'[s].kind = kind /\ run'[s].inv = i
           /\ run[s].pc = "idle" /\ up
<1> DEFINE x == [mem.inv[i] EXCEPT !.status = "expired"]
<1>0. i \in Invoices
  BY DEF IInv, TypeOK
<1>1. mem' = [mem EXCEPT !.inv[i] = x]
  BY DEF MarkExpired
<1>2. /\ x \in Invoice /\ x.ful = mem.inv[i].ful /\ x.receipt = mem.inv[i].receipt
      /\ x.status = "expired"
  BY <1>0, Memory DEF Invoice
<1> HIDE DEF x
<1>3. mem' \in BoothState /\ Evolves /\ Backed(mem)' /\ Numbered(mem)'
  BY <1>0, <1>1, <1>2, Marked
<1>4. /\ run' \in [Slots -> Run] /\ \A t \in Slots \ {s} : run'[t] = run[t]
      /\ run'[s].pc = "savingExpired" /\ run'[s].kind = kind /\ run'[s].inv = i
      /\ run[s].pc = "idle" /\ up
  BY <1>0, Begun DEF IInv, MarkExpired, SavePCs
<1>5. Shift(s, 0) /\ writes' \in Seq(Write)
  BY <1>3, <1>4, Saved DEF IInv, MarkExpired, SaveState, SavePCs, Actors
<1> QED
  BY <1>3, <1>4, <1>5 DEF MarkExpired

LEMMA OverlapFacts ==
    ASSUME IInv, NEW s \in Slots, NEW i \in Invoices
    PROVE  /\ Overlap(s, i) \subseteq {i}
           /\ i \notin Overlap(s, i) =>
                 \A t \in Slots \ {s} : run[t].pc \in Working => run[t].inv # i
  BY DEF Overlap

(* Whoever is paid again for a delivered invoice that nobody works on sees *)
(* that it is settled.                                                     *)
LEMMA NotDelivered ==
    ASSUME IInv, up, NEW i \in Invoices, i \notin doubtful,
           NEW s \in Slots, run[s].pc = "idle", i \notin Overlap(s, i),
           \/ ~AlreadyPaid(i) /\ i \notin lapsed
           \/ ~Confirmed(i) /\ i \in charged
    PROVE  delivered[i] = 0
<1> SUFFICES ASSUME delivered[i] # 0
             PROVE  FALSE
  OBVIOUS
<1>1. i \in told \/ \E t \in Slots : run[t].pc = "savingPaid" /\ run[t].inv = i
  <2>1. i \in told \/ \E t \in Slots : run[t].pc \in Unreceipted /\ run[t].inv = i
    BY DEF IInv, OnceOK
  <2>2. \A t \in Slots : run[t].pc = "recording" => run[t].inv # i
    BY OverlapFacts DEF Working
  <2> QED
    BY <2>1, <2>2 DEF Unreceipted
<1>2. Settles(mem, i)
  BY <1>1 DEF IInv, ToldOK, RunsOK, RunOK
<1>3. booth = "agent" => charged = {}
  BY DEF IInv, WritesOK
<1> QED
  BY <1>2, <1>3 DEF Settles, Held, AlreadyPaid, Confirmed

LEMMA PayKeeps ==
    ASSUME IInv, NEW s \in Slots, NEW i \in Invoices, Pay(s, i) \/ AgentPay(s, i)
    PROVE  IInv'
<1>1. /\ i \in offered /\ Take("pay")
      /\ UNCHANGED <<booth, client, disk, up, lapsed, charged, acked, offered, told, delivered>>
      /\ \/ i \in lapsed /\ MarkExpired(s, "pay", i)
         \/ /\ i \notin lapsed /\ AlreadyPaid(i) /\ At(s, "idle")
            /\ UNCHANGED <<mem, writes, run, doubtful>>
         \/ /\ i \notin lapsed /\ ~AlreadyPaid(i)
            /\ Begin(s, "verifying", "pay", i)
            /\ doubtful' = doubtful \cup Overlap(s, i)
            /\ UNCHANGED <<mem, writes>>
  BY DEF Pay, AgentPay, TakePayment
<1>2. left' \in [Kinds -> Nat] /\ s \in Actors
  BY <1>1, Left DEF IInv, Kinds, Actors
<1>3. CASE i \in lapsed /\ MarkExpired(s, "pay", i)
  <2>1. /\ mem' \in BoothState /\ Evolves /\ Backed(mem)' /\ Numbered(mem)'
        /\ writes' \in Seq(Write) /\ Shift(s, 0) /\ doubtful' = doubtful
        /\ run' \in [Slots -> Run] /\ \A t \in Slots \ {s} : run'[t] = run[t]
        /\ run'[s].pc = "savingExpired" /\ run'[s].kind = "pay" /\ run'[s].inv = i
        /\ run[s].pc = "idle" /\ up
    BY <1>1, <1>3, ExpiredStep
  <2>2. TypeOK'
    BY <1>1, <1>2, <2>1 DEF IInv, TypeOK, Kinds
  <2>3. Frame(s) /\ Answers(s, 0) /\ Sole(s)
    BY <1>1, <2>1 DEF Frame, Answers, Sole, Unreceipted, Working
  <2>4. Apart(s)
    BY <1>1, <2>1, Own
  <2>5. RunOK(s)'
    BY <2>1 DEF RunOK, Working
  <2> QED
    BY <1>1, <1>2, <2>1, <2>2, <2>3, <2>4, <2>5, Kept
<1>4. CASE /\ i \notin lapsed /\ AlreadyPaid(i) /\ At(s, "idle")
           /\ UNCHANGED <<mem, writes, run, doubtful>>
  <2>1. run[s].pc = "idle" /\ up /\ RunOK(s)
    BY <1>4, Subject DEF At
  <2>2. TypeOK'
    BY <1>1, <1>2, <1>4 DEF IInv, TypeOK, Kinds
  <2>3. Frame(s) /\ Answers(s, 0) /\ Sole(s) /\ Shift(s, 0)
    BY <1>1, <1>2, <1>4, <2>1, Unwritten DEF IInv, Frame, Answers, Sole, Unreceipted, Working, SavePCs
  <2>4. Apart(s)
    BY <1>1, <1>4 DEF IInv, RunsOK, RunOK, Apart
  <2>5. RunOK(s)'
    BY <1>1, <1>4, <2>1 DEF RunOK, Working, IInv, WritesOK
  <2>6. Evolves /\ Backed(mem)' /\ Numbered(mem)'
    BY <1>1, <1>4, Still
  <2> QED
    BY <1>1, <1>2, <2>2, <2>3, <2>4, <2>5, <2>6, Kept
<1>5. CASE /\ i \notin lapsed /\ ~AlreadyPaid(i)
           /\ Begin(s, "verifying", "pay", i)
           /\ doubtful' = doubtful \cup Overlap(s, i)
           /\ UNCHANGED <<mem, writes>>
  <2>1. /\ run' \in [Slots -> Run] /\ \A t \in Slots \ {s} : run'[t] = run[t]
        /\ run'[s].pc = "verifying" /\ run'[s].kind = "pay" /\ run'[s].inv = i
        /\ run[s].pc = "idle" /\ up
    BY <1>5, Begun DEF IInv
  <2>2. TypeOK'
    BY <1>1, <1>2, <1>5, <2>1, OverlapFacts DEF IInv, TypeOK, Kinds
  <2>3. Frame(s) /\ Answers(s, 0) /\ Shift(s, 0)
    BY <1>1, <1>2, <1>5, <2>1, Unwritten DEF IInv, Frame, Answers, SavePCs
  <2>4. Apart(s)
    BY <1>1, <2>1, Own
  <2>5. RunOK(s)'
    BY <1>1, <2>1 DEF RunOK, Working
  <2>6. Evolves /\ Backed(mem)' /\ Numbered(mem)'
    BY <1>1, <1>5, Still
  <2>7. Sole(s)
    <3>1. i \in doubtful' \/ (i \notin doubtful /\ i \notin Overlap(s, i))
      BY <1>5
    <3>2. i \notin doubtful /\ i \notin Overlap(s, i) => delivered[i] = 0
      BY <1>5, <2>1, NotDelivered
    <3> QED
      BY <2>1, <3>1, <3>2, OverlapFacts DEF Sole, Unreceipted
  <2> QED
    BY <1>1, <1>2, <2>2, <2>3, <2>4, <2>5, <2>6, <2>7, Kept
<1> QED
  BY <1>1, <1>3, <1>4, <1>5

LEMMA ProcessFacts ==
    ASSUME TypeOK, NEW tokens, NEW accepted, ProcessPayment(tokens, accepted)
    PROVE  client' \in {"none", "ready", "rejected"} /\ left' \in [Kinds -> Nat]
<1>1. ASSUME GetForgeClient
      PROVE  client' \in {"none", "ready", "rejected"} /\ left' \in [Kinds -> Nat]
  BY <1>1, Left DEF GetForgeClient, TypeOK, Kinds
<1>2. CASE UNCHANGED <<client, left>>
  BY <1>2 DEF TypeOK, Kinds
<1> QED
  BY <1>1, <1>2 DEF ProcessPayment, VerifyTokensNotSpent

LEMMA VerifiedKeeps ==
    ASSUME IInv, NEW s \in Slots, Verified(s)
    PROVE  IInv'
<1>1. /\ At(s, "verifying")
      /\ UNCHANGED <<booth, mem, disk, writes, up, lapsed, charged, acked, history>>
  BY DEF Verified
<1>2. PICK tokens \in Payments, accepted \in BOOLEAN :
         /\ ProcessPayment(tokens, accepted)
         /\ IF accepted THEN Goto(s, "fulfilling") ELSE Finish(s)
  BY DEF Verified
<1>3. client' \in {"none", "ready", "rejected"} /\ left' \in [Kinds -> Nat]
  BY <1>2, ProcessFacts DEF IInv
<1>4. RunOK(s) /\ run[s].pc = "verifying" /\ run[s].inv \in Invoices /\ s \in Actors /\ up
  BY <1>1, Subject DEF At, Actors
<1>5. /\ run' \in [Slots -> Run] /\ \A t \in Slots \ {s} : run'[t] = run[t]
      /\ RunOK(s)' /\ Apart(s) /\ run'[s].pc \notin SavePCs
      /\ run'[s].pc \in Working => run'[s].inv = run[s].inv
  <2>1. CASE accepted
    <3>1. /\ run' \in [Slots -> Run] /\ \A t \in Slots \ {s} : run'[t] = run[t]
          /\ run'[s].pc = "fulfilling" /\ run'[s].kind = run[s].kind
          /\ run'[s].inv = run[s].inv
      BY <1>2, <2>1, Moved DEF IInv
    <3>2. RunOK(s)'
      BY <1>1, <1>4, <3>1 DEF RunOK, Working, history, Held
    <3>3. Apart(s)
      BY <1>1, <1>4, <3>1, Own DEF history
    <3> QED
      BY <3>1, <3>2, <3>3 DEF SavePCs
  <2>2. CASE ~accepted
    <3>1. /\ run' \in [Slots -> Run] /\ \A t \in Slots \ {s} : run'[t] = run[t]
          /\ run'[s] = Idle /\ RunOK(s)'
      BY <1>2, <2>2, Ended DEF IInv
    <3>2. Apart(s)
      BY <1>1, <3>1, Own DEF Idle, history
    <3> QED
      BY <3>1, <3>2 DEF Idle, SavePCs, Working
  <2> QED
    BY <2>1, <2>2
<1>6. TypeOK'
  BY <1>1, <1>3, <1>5 DEF IInv, TypeOK, history, Kinds
<1>7. Frame(s) /\ Shift(s, 0)
  BY <1>1, <1>4, <1>5, Unwritten DEF IInv, Frame, history, SavePCs
<1>8. Evolves /\ Backed(mem)' /\ Numbered(mem)'
  BY <1>1, Still
<1>9. Answers(s, 0) /\ Sole(s)
  BY <1>1, <1>4, <1>5 DEF Answers, Sole, Unreceipted, history, Working
<1> QED
  BY <1>1, <1>4, <1>5, <1>6, <1>7, <1>8, <1>9, Kept DEF history

LEMMA ConfirmKeeps ==
    ASSUME IInv, NEW s \in Slots, NEW i \in Invoices, Confirm(s, i)
    PROVE  IInv'
<1>1. /\ Known(i) /\ i \in charged
      /\ IF i \in acked THEN Take("repeat") ELSE UNCHANGED left
      /\ UNCHANGED <<booth, client, disk, up, lapsed, charged, offered, told, delivered>>
      /\ \/ /\ Confirmed(i) /\ At(s, "idle")
            /\ acked' = acked \cup {i}
            /\ UNCHANGED <<mem, writes, run, doubtful>>
         \/ /\ i \in lapsed /\ MarkExpired(s, "confirm", i)
            /\ UNCHANGED acked
         \/ /\ ~Confirmed(i)
            /\ Begin(s, "savingConfirm", "confirm", i)
            /\ mem' = [mem EXCEPT !.inv[i].status = "paid"] /\ SaveState(s)
            /\ doubtful' = doubtful \cup Overlap(s, i)
            /\ UNCHANGED acked
  BY DEF Confirm
<1>2. left' \in [Kinds -> Nat] /\ s \in Actors
  BY <1>1, Left DEF IInv, TypeOK, Kinds, Actors
<1>3. i \in offered /\ booth # "agent"
  BY <1>1 DEF IInv, TypeOK, WritesOK
<1>4. CASE /\ Confirmed(i) /\ At(s, "idle")
           /\ acked' = acked \cup {i}
           /\ UNCHANGED <<mem, writes, run, doubtful>>
  <2>1. run[s].pc = "idle" /\ up /\ RunOK(s)
    BY <1>4, Subject DEF At
  <2>2. TypeOK'
    BY <1>1, <1>2, <1>4 DEF IInv, TypeOK, Kinds
  <2>3. Frame(s) /\ Answers(s, 0) /\ Sole(s) /\ Shift(s, 0)
    BY <1>1, <1>2, <1>4, <2>1, Unwritten DEF IInv, Frame, Answers, Sole, Unreceipted, Working, SavePCs
  <2>4. Apart(s)
    BY <1>1, <1>4 DEF IInv, RunsOK, RunOK, Apart
  <2>5. RunOK(s)'
    BY <1>1, <1>4, <2>1 DEF RunOK, Working, IInv, WritesOK
  <2>6. Evolves /\ Backed(mem)' /\ Numbered(mem)'
    BY <1>1, <1>4, Still
  <2> QED
    BY <1>1, <1>2, <2>2, <2>3, <2>4, <2>5, <2>6, Kept
<1>5. CASE i \in lapsed /\ MarkExpired(s, "confirm", i) /\ UNCHANGED acked
  <2>1. /\ mem' \in BoothState /\ Evolves /\ Backed(mem)' /\ Numbered(mem)'
        /\ writes' \in Seq(Write) /\ Shift(s, 0) /\ doubtful' = doubtful
        /\ run' \in [Slots -> Run] /\ \A t \in Slots \ {s} : run'[t] = run[t]
        /\ run'[s].pc = "savingExpired" /\ run'[s].kind = "confirm" /\ run'[s].inv = i
        /\ run[s].pc = "idle" /\ up
    BY <1>1, <1>3, <1>5, ExpiredStep
  <2>2. TypeOK'
    BY <1>1, <1>2, <1>5, <2>1 DEF IInv, TypeOK, Kinds
  <2>3. Frame(s) /\ Answers(s, 0) /\ Sole(s)
    BY <1>1, <2>1 DEF Frame, Answers, Sole, Unreceipted, Working
  <2>4. Apart(s)
    BY <1>1, <1>3, <2>1, Own
  <2>5. RunOK(s)'
    BY <1>1, <2>1 DEF RunOK, Working
  <2> QED
    BY <1>1, <1>2, <2>1, <2>2, <2>3, <2>4, <2>5, Kept
<1>6. CASE /\ ~Confirmed(i)
           /\ Begin(s, "savingConfirm", "confirm", i)
           /\ mem' = [mem EXCEPT !.inv[i].status = "paid"] /\ SaveState(s)
           /\ doubtful' = doubtful \cup Overlap(s, i)
           /\ UNCHANGED acked
  <2>1. /\ run' \in [Slots -> Run] /\ \A t \in Slots \ {s} : run'[t] = run[t]
        /\ run'[s].pc = "savingConfirm" /\ run'[s].kind = "confirm" /\ run'[s].inv = i
        /\ run[s].pc = "idle" /\ up
    BY <1>6, Begun DEF IInv, SavePCs
  <2> DEFINE x == [mem.inv[i] EXCEPT !.status = "paid"]
  <2>2. /\ x \in Invoice /\ x.ful = mem.inv[i].ful /\ x.receipt = mem.inv[i].receipt
        /\ x.status = "paid"
    BY Memory DEF Invoice
  <2>3. mem' = [mem EXCEPT !.inv[i] = x]
    BY <1>6
  <2> HIDE DEF x
  <2>4. mem' \in BoothState /\ Evolves /\ Backed(mem)' /\ Numbered(mem)' /\ mem'.inv[i] = x
    BY <1>1, <1>3, <2>2, <2>3, Marked
  <2>5. Shift(s, 0) /\ writes' \in Seq(Write)
    BY <1>1, <1>2, <1>6, <2>1, <2>4, Saved DEF IInv, SaveState, SavePCs
  <2>6. TypeOK'
    BY <1>1, <1>2, <1>6, <2>1, <2>4, <2>5, OverlapFacts DEF IInv, TypeOK, Kinds
  <2>7. Frame(s) /\ Answers(s, 0)
    BY <1>1, <1>6, <2>1 DEF Frame, Answers
  <2>8. Apart(s)
    BY <1>1, <1>3, <2>1, Own
  <2>9. RunOK(s)'
    BY <1>1, <1>3, <2>1, <2>2, <2>4 DEF RunOK, Working, Held
  <2>10. Sole(s)
    <3>1. i \in doubtful' \/ (i \notin doubtful /\ i \notin Overlap(s, i))
      BY <1>6
    <3>2. i \notin doubtful /\ i \notin Overlap(s, i) => delivered[i] = 0
      BY <1>1, <1>6, <2>1, NotDelivered
    <3> QED
      BY <2>1, <3>1, <3>2, OverlapFacts DEF Sole, Unreceipted
  <2> QED
    BY <1>1, <1>2, <2>4, <2>5, <2>6, <2>7, <2>8, <2>9, <2>10, Kept
<1> QED
  BY <1>1, <1>4, <1>5, <1>6

(* The run i's receipt is made by: it is now being saved.                  *)
LEMMA ReceiptKeeps ==
    ASSUME IInv, NEW s \in Slots, NEW i \in Invoices, run[s].inv = i,
           run[s].pc \in {"verifying", "recording"}, up, RunOK(s), NEW x \in Invoice,
           mem' = [mem EXCEPT !.inv[i] = x,
                              !.receipts = @ \cup {[id |-> NewReceipt, inv |-> i]}],
           \/ x.ful = "fulfilled" /\ x.receipt = NewReceipt
           \/ booth = "agent" /\ x.ful = mem.inv[i].ful /\ x.receipt = mem.inv[i].receipt,
           x.status = "paid" \/ (run[s].kind = "confirm" /\ x.status = mem.inv[i].status),
           \/ run[s].pc = "verifying" /\ delivered' = [delivered EXCEPT ![i] = @ + 1]
           \/ run[s].pc = "recording" /\ delivered' = delivered,
           SaveState(s), Goto(s, "savingPaid"),
           client' \in {"none", "ready", "rejected"}, left' \in [Kinds -> Nat],
           UNCHANGED <<booth, disk, up, lapsed, charged, acked, offered, told, doubtful>>
    PROVE  IInv'
<1>1. i \in offered /\ run[s].kind \in {"pay", "confirm"} /\ s \in Actors
  BY DEF RunOK, Working, Actors
<1>2. x.status = "paid" \/ i \in lapsed
  BY DEF RunOK, Working, Held
<1>3. /\ run' \in [Slots -> Run] /\ \A t \in Slots \ {s} : run'[t] = run[t]
      /\ run'[s].pc = "savingPaid" /\ run'[s].kind = run[s].kind /\ run'[s].inv = i
  BY Moved DEF IInv, SavePCs
<1>4. /\ mem' \in BoothState /\ Evolves /\ Backed(mem)' /\ Numbered(mem)'
      /\ mem'.inv[i] = x /\ Receipts(mem, i)' # {}
  <2>1. x.ful = "fulfilled" =>
              \/ x.receipt = NewReceipt
              \/ mem.inv[i].ful = "fulfilled" /\ x.receipt = mem.inv[i].receipt
    OBVIOUS
  <2>2. /\ mem.inv[i].status = "paid" => x.status = "paid" \/ i \in lapsed
        /\ mem.inv[i].ful = "fulfilled" => x.ful = "fulfilled" \/ i \in doubtful'
    BY <1>2
  <2> QED
    BY <2>1, <2>2, Receipted
<1>5. Shift(s, 0) /\ writes' \in Seq(Write)
  BY <1>1, <1>3, <1>4, Saved DEF IInv, SaveState, SavePCs
<1>6. TypeOK'
  <2>1. delivered' \in [Invoices -> Nat]
    BY DEF IInv, TypeOK
  <2> QED
    BY <1>3, <1>4, <1>5, <2>1 DEF IInv, TypeOK, Kinds
<1>7. Frame(s) /\ Answers(s, 0)
  BY <1>3 DEF Frame, Answers
<1>8. Apart(s)
  BY <1>1, <1>3, Own
<1>9. RunOK(s)'
  <2>1. run[s].kind = "confirm" => i \in charged
    BY DEF RunOK
  <2>2. Settles(mem, i)'
    BY <1>2, <1>4 DEF Settles, Held
  <2>3. Settles(mem, run[s].inv)'
    BY <1>3, <2>2 DEF Settles, Held, Receipts
  <2> QED
    BY <1>1, <1>3, <2>1, <2>3 DEF RunOK, Working
<1>10. OnceOK' \/ (Sole(s) /\ delivered' = delivered)
  <2>1. CASE run[s].pc = "verifying"
    BY <1>3, <1>7, <2>1, OnceDelivered DEF Working, Unreceipted
  <2>2. CASE run[s].pc = "recording"
    BY <1>3, <2>2 DEF Sole, Unreceipted, Working
  <2> QED
    BY <2>1, <2>2
<1> QED
  BY <1>1, <1>4, <1>5, <1>6, <1>7, <1>8, <1>9, <1>10, Kept

LEMMA Rewritten ==
    ASSUME NEW v \in Invoice, NEW n \in Nat
    PROVE  [status |-> v.status, ful |-> "fulfilled", receipt |-> n] =
               [[v EXCEPT !.ful = "fulfilled"] EXCEPT !.receipt = n]
<1> DEFINE w == [v EXCEPT !.ful = "fulfilled"]
<1>1. w = [status |-> v.status, ful |-> "fulfilled", receipt |-> v.receipt] /\ w \in Invoice
  BY DEF Invoice
<1> HIDE DEF w
<1>2. [w EXCEPT !.receipt = n] = [status |-> w.status, ful |-> w.ful, receipt |-> n]
  BY <1>1 DEF Invoice
<1> QED
  BY <1>1, <1>2 DEF w

LEMMA DeliverKeeps ==
    ASSUME IInv, NEW s \in Slots, Deliver(s)
    PROVE  IInv'
<1>0. PICK i : i = run[s].inv
  OBVIOUS
<1>1. /\ At(s, "fulfilling") /\ Goto(s, "recording")
      /\ delivered' = [delivered EXCEPT ![i] = @ + 1]
      /\ UNCHANGED <<booth, client, mem, disk, writes, up, lapsed, charged, acked, left,
                     offered, told, doubtful>>
  BY <1>0 DEF Deliver
<1>2. /\ RunOK(s) /\ run[s].pc = "fulfilling" /\ i \in Invoices /\ i \in offered /\ up
      /\ run[s].kind \in {"pay", "confirm"} /\ s \in Actors
  BY <1>0, <1>1, Subject DEF At, RunOK, Working, Actors
<1>3. /\ run' \in [Slots -> Run] /\ \A t \in Slots \ {s} : run'[t] = run[t]
      /\ run'[s].pc = "recording" /\ run'[s].kind = run[s].kind /\ run'[s].inv = i
  BY <1>0, <1>1, Moved DEF IInv
<1>4. TypeOK'
  <2>1. delivered' \in [Invoices -> Nat]
    BY <1>1, <1>2 DEF IInv, TypeOK
  <2> QED
    BY <1>1, <1>3, <2>1 DEF IInv, TypeOK
<1>5. Frame(s) /\ Answers(s, 0) /\ Shift(s, 0)
  BY <1>1, <1>2, <1>3, Unwritten DEF IInv, Frame, Answers, SavePCs
<1>6. Apart(s)
  BY <1>1, <1>2, <1>3, Own
<1>7. Evolves /\ Backed(mem)' /\ Numbered(mem)'
  BY <1>1, Still
<1>8. RunOK(s)'
  BY <1>0, <1>1, <1>2, <1>3 DEF RunOK, Working, Held
<1>9. OnceOK'
  BY <1>0, <1>1, <1>2, <1>3, <1>5, OnceDelivered DEF Working, Unreceipted
<1> QED
  BY <1>2, <1>4, <1>5, <1>6, <1>7, <1>8, <1>9, Kept

LEMMA FulfilledKeeps ==
    ASSUME IInv, NEW s \in Slots, Fulfilled(s)
    PROVE  IInv'
<1>0. PICK i : i = run[s].inv
  OBVIOUS
<1>1. /\ At(s, "recording")
      /\ mem' = IF run[s].kind = "pay" THEN [Settled(i) EXCEPT !.inv[i].status = "paid"]
                ELSE Settled(i)
      /\ SaveState(s) /\ Goto(s, "savingPaid")
      /\ UNCHANGED <<booth, client, disk, up, lapsed, charged, acked, left, offered, told,
                     delivered, doubtful>>
  BY <1>0 DEF Fulfilled, history
<1>2. /\ i \in Invoices /\ RunOK(s) /\ run[s].pc = "recording" /\ up
      /\ run[s].kind \in {"pay", "confirm"}
  BY <1>0, <1>1, Subject DEF At, RunOK, Working
<1> DEFINE st == IF run[s].kind = "pay" THEN "paid" ELSE mem.inv[i].status
           x == [status |-> st, ful |-> "fulfilled", receipt |-> NewReceipt]
<1>3. mem.inv[i] \in Invoice
  BY <1>2, Memory
<1>4. x \in Invoice /\ x.status = st /\ x.ful = "fulfilled" /\ x.receipt = NewReceipt
  BY <1>3, Memory DEF Invoice
<1>5. mem' = [mem EXCEPT !.inv[i] = x,
                         !.receipts = @ \cup {[id |-> NewReceipt, inv |-> i]}]
  <2> DEFINE new == mem.receipts \cup {[id |-> NewReceipt, inv |-> i]}
             y == [status |-> mem.inv[i].status, ful |-> "fulfilled", receipt |-> NewReceipt]
             m == [mem.inv EXCEPT ![i] = y]
  <2>1. Settled(i) = [mem EXCEPT !.inv = m, !.receipts = new]
    <3>1. y = [[mem.inv[i] EXCEPT !.ful = "fulfilled"] EXCEPT !.receipt = NewReceipt]
      BY <1>3, Rewritten, Memory
    <3>2. m = [[mem.inv EXCEPT ![i].ful = "fulfilled"] EXCEPT ![i].receipt = NewReceipt]
      BY <1>2, <3>1, Memory
    <3> QED
      BY <3>2 DEF Settled
  <2>2. m \in [Invoices -> Invoice] /\ m[i] = y
    <3>1. y \in Invoice
      BY <1>3, Memory DEF Invoice
    <3> QED
      BY <1>2, <3>1, Memory
  <2>3. [mem EXCEPT !.inv = m, !.receipts = new].inv = m
    BY Memory DEF BoothState
  <2>4. CASE run[s].kind = "pay"
    <3>1. [y EXCEPT !.status = "paid"] = x
      BY <2>4
    <3>2. [m EXCEPT ![i].status = "paid"] = [mem.inv EXCEPT ![i] = x]
      BY <1>2, <2>2, <3>1, Memory
    <3>3. mem' = [Settled(i) EXCEPT !.inv[i].status = "paid"]
      BY <1>1, <2>4
    <3> HIDE DEF m, new, x, y
    <3>4. mem' = [[mem EXCEPT !.inv = m, !.receipts = new] EXCEPT !.inv[i].status = "paid"]
      BY <2>1, <3>3
    <3>5. mem' = [mem EXCEPT !.inv = [m EXCEPT ![i].status = "paid"], !.receipts = new]
      BY <3>4, Memory DEF BoothState
    <3> QED
      BY <3>2, <3>5 DEF new
  <2>5. CASE run[s].kind # "pay"
    BY <1>1, <2>1, <2>5
  <2> QED
    BY <2>4, <2>5
<1> HIDE DEF x
<1>6. x.status = "paid" \/ (run[s].kind = "confirm" /\ x.status = mem.inv[i].status)
  BY <1>2, <1>4
<1>7. client' \in {"none", "ready", "rejected"} /\ left' \in [Kinds -> Nat]
  BY <1>1 DEF IInv, TypeOK, Kinds
<1> QED
  BY <1>0, <1>1, <1>2, <1>4, <1>5, <1>6, <1>7, ReceiptKeeps

LEMMA AgentVerifiedKeeps ==
    ASSUME IInv, NEW s \in Slots, AgentVerified(s)
    PROVE  IInv'
<1>0. PICK i : i = run[s].inv
  OBVIOUS
<1>1. /\ booth = "agent" /\ At(s, "verifying")
      /\ UNCHANGED <<booth, disk, up, lapsed, charged, acked, offered, told, doubtful>>
  BY DEF AgentVerified
<1>2. PICK tokens \in Payments, accepted \in BOOLEAN :
         /\ ProcessPayment(tokens, accepted)
         /\ IF accepted
            THEN /\ AgentPaid(i) /\ SaveState(s) /\ Goto(s, "savingPaid")
            ELSE Finish(s) /\ UNCHANGED <<mem, writes, delivered>>
  BY <1>0 DEF AgentVerified
<1>3. client' \in {"none", "ready", "rejected"} /\ left' \in [Kinds -> Nat]
  BY <1>2, ProcessFacts DEF IInv
<1>4. RunOK(s) /\ run[s].pc = "verifying" /\ i \in Invoices /\ s \in Actors /\ up
  BY <1>0, <1>1, Subject DEF At, Actors
<1>5. CASE accepted
  <2> DEFINE x == [mem.inv[i] EXCEPT !.status = "paid"]
  <2>1. /\ x \in Invoice /\ x.ful = mem.inv[i].ful /\ x.receipt = mem.inv[i].receipt
        /\ x.status = "paid"
    BY <1>4, Memory DEF Invoice
  <2>2. /\ mem' = [mem EXCEPT !.inv[i] = x,
                             !.receipts = @ \cup {[id |-> NewReceipt, inv |-> i]}]
        /\ delivered' = [delivered EXCEPT ![i] = @ + 1]
        /\ SaveState(s) /\ Goto(s, "savingPaid")
    BY <1>2, <1>5 DEF AgentPaid
  <2> HIDE DEF x
  <2> QED
    BY <1>0, <1>1, <1>3, <1>4, <2>1, <2>2, ReceiptKeeps
<1>6. CASE ~accepted
  <2>0. Finish(s) /\ UNCHANGED <<mem, writes, delivered>>
    BY <1>2, <1>6
  <2>1. /\ run' \in [Slots -> Run] /\ \A t \in Slots \ {s} : run'[t] = run[t]
        /\ run'[s] = Idle /\ RunOK(s)'
    BY <2>0, Ended DEF IInv
  <2>2. TypeOK'
    BY <1>1, <1>3, <2>0, <2>1 DEF IInv, TypeOK, Kinds
  <2>3. Frame(s) /\ Answers(s, 0) /\ Sole(s) /\ Shift(s, 0)
    BY <1>1, <1>4, <2>0, <2>1, Unwritten
    DEF IInv, Frame, Answers, Sole, Unreceipted, Working, SavePCs, Idle
  <2>4. Apart(s)
    BY <1>1, <2>1, Own DEF Idle
  <2>5. Evolves /\ Backed(mem)' /\ Numbered(mem)'
    BY <1>1, <2>0, Still
  <2> QED
    BY <1>4, <2>0, <2>1, <2>2, <2>3, <2>4, <2>5, Kept
<1> QED
  BY <1>5, <1>6

LEMMA FailsKeep ==
    ASSUME IInv, NEW s \in Slots, FulfilFails(s)
    PROVE  IInv'
<1>0. PICK i : i = run[s].inv
  OBVIOUS
<1>1. /\ At(s, "fulfilling") \/ At(s, "recording")
      /\ Take("fault")
      /\ doubtful' = doubtful \cup {i}
      /\ UNCHANGED <<booth, client, disk, up, lapsed, charged, acked, offered, told, delivered>>
  BY <1>0 DEF FulfilFails
<1>2. left' \in [Kinds -> Nat] /\ s \in Actors
  BY <1>1, Left DEF IInv, Kinds, Actors
<1>3. /\ RunOK(s) /\ run[s].pc \in {"fulfilling", "recording"}
      /\ i \in Invoices /\ i \in offered /\ up
      /\ run[s].kind \in {"pay", "confirm"}
  BY <1>0, <1>1, Subject DEF At, RunOK, Working
<1>4. CASE run[s].kind = "confirm"
  <2> DEFINE x == [mem.inv[i] EXCEPT !.ful = "failed"]
  <2>1. x \in Invoice /\ x.ful = "failed" /\ x.status = mem.inv[i].status
    BY <1>3, Memory DEF Invoice
  <2>2. mem' = [mem EXCEPT !.inv[i] = x] /\ Goto(s, "savingFailed") /\ SaveState(s)
    BY <1>0, <1>4 DEF FulfilFails, RecordFailure
  <2> HIDE DEF x
  <2>3. mem' \in BoothState /\ Evolves /\ Backed(mem)' /\ Numbered(mem)'
    BY <1>1, <1>3, <2>1, <2>2, Memory, Marked DEF Backed
  <2>4. /\ run' \in [Slots -> Run] /\ \A t \in Slots \ {s} : run'[t] = run[t]
        /\ run'[s].pc = "savingFailed" /\ run'[s].kind = run[s].kind /\ run'[s].inv = i
    BY <1>0, <2>2, Moved DEF IInv, SavePCs
  <2>5. Shift(s, 0) /\ writes' \in Seq(Write)
    BY <1>1, <1>2, <1>3, <2>2, <2>3, <2>4, Saved DEF IInv, SaveState, SavePCs
  <2>6. TypeOK'
    BY <1>1, <1>2, <1>3, <2>3, <2>4, <2>5 DEF IInv, TypeOK, Kinds
  <2>7. Frame(s) /\ Answers(s, 0) /\ Sole(s)
    BY <1>0, <1>1, <1>3, <2>4 DEF Frame, Answers, Sole, Unreceipted, Working
  <2>8. Apart(s)
    BY <1>1, <1>3, <2>4, Own
  <2>9. RunOK(s)'
    BY <1>0, <1>1, <1>3, <2>4 DEF RunOK, Working
  <2> QED
    BY <1>1, <1>2, <2>3, <2>5, <2>6, <2>7, <2>8, <2>9, Kept
<1>5. CASE run[s].kind # "confirm"
  <2>0. Finish(s) /\ UNCHANGED <<mem, writes>>
    BY <1>5 DEF FulfilFails
  <2>1. /\ run' \in [Slots -> Run] /\ \A t \in Slots \ {s} : run'[t] = run[t]
        /\ run'[s] = Idle /\ RunOK(s)'
    BY <2>0, Ended DEF IInv
  <2>2. TypeOK'
    BY <1>1, <1>2, <1>3, <2>0, <2>1 DEF IInv, TypeOK, Kinds
  <2>3. Frame(s) /\ Answers(s, 0) /\ Sole(s) /\ Shift(s, 0)
    BY <1>0, <1>1, <1>2, <1>3, <2>0, <2>1, Unwritten
    DEF IInv, Frame, Answers, Sole, Unreceipted, Working, SavePCs, Idle
  <2>4. Apart(s)
    BY <1>1, <2>1, Own DEF Idle
  <2>5. Evolves /\ Backed(mem)' /\ Numbered(mem)'
    BY <1>1, <2>0, Still
  <2> QED
    BY <1>1, <1>2, <2>1, <2>2, <2>3, <2>4, <2>5, Kept
<1> QED
  BY <1>4, <1>5

(* The oldest write and who waits for it.                                  *)
LEMMA Oldest ==
    ASSUME IInv, writes # <<>>, NEW s, s = Head(writes).by
    PROVE  /\ Head(writes) = writes[1] /\ writes[1] \in Write /\ 1 \in DOMAIN writes
           /\ s \in Actors /\ writes[1].by = s /\ up
           /\ s \in Slots =>
                 /\ run[s].pc \in SavePCs /\ RunOK(s) /\ run[s].inv \in Invoices
<1>1. /\ Head(writes) = writes[1] /\ writes[1] \in Write /\ 1 \in DOMAIN writes
  BY Tailed DEF IInv
<1>2. s \in Actors /\ writes[1].by = s
  BY <1>1, Positions DEF IInv
<1>3. s \in Slots => run[s].pc \in SavePCs
  BY <1>1, <1>2 DEF IInv, WritesOK
<1>4. up
  BY DEF IInv, WritesOK
<1> QED
  BY <1>1, <1>2, <1>3, <1>4, Subject DEF SavePCs

LEMMA LandsKeeps ==
    ASSUME IInv, WriteLands
    PROVE  IInv'
<1>0. PICK s, i : s = Head(writes).by /\ i = run[s].inv
  OBVIOUS
<1>1. /\ writes # <<>> /\ disk' = writes[1].snap /\ writes' = Tail(writes)
      /\ IF s = "operator" THEN UNCHANGED <<run, offered, told, acked>>
         ELSE /\ IF run[s].pc = "savingConfirm" THEN Goto(s, "fulfilling") ELSE Finish(s)
              /\ offered' = IF run[s].pc = "savingNew" THEN offered \cup {i} ELSE offered
              /\ told' = IF run[s].pc = "savingPaid" THEN told \cup {i} ELSE told
              /\ acked' = IF run[s].kind = "confirm" /\ run[s].pc # "savingConfirm"
                          THEN acked \cup {i} ELSE acked
      /\ UNCHANGED <<booth, client, mem, up, lapsed, charged, left, delivered, doubtful>>
  BY <1>0, Tailed DEF WriteLands, IInv
<1>2. /\ writes[1] \in Write /\ s \in Actors /\ writes[1].by = s /\ up
      /\ s \in Slots => run[s].pc \in SavePCs /\ RunOK(s) /\ i \in Invoices
  BY <1>0, <1>1, Oldest
<1>3. Shift(s, 1) /\ writes' \in Seq(Write)
  BY <1>1, <1>2, OldestGone DEF IInv
<1>4. Evolves /\ Backed(mem)' /\ Numbered(mem)'
  BY <1>1, Still
<1>5. disk' \in BoothState
  BY <1>1, <1>2 DEF Write
<1>6. CASE s = "operator"
  <2>1. UNCHANGED <<run, offered, told, acked>> /\ s \notin Slots
    BY <1>1, <1>6, InvoiceBounds
  <2>2. TypeOK'
    BY <1>1, <1>3, <1>5, <2>1 DEF IInv, TypeOK
  <2>3. Frame(s) /\ Answers(s, 1) /\ Sole(s)
    BY <1>1, <1>2, <2>1 DEF Frame, Answers, Sole, Unreceipted
  <2>4. Apart(s)
    BY <2>1 DEF Apart, IInv, RunsOK, RunOK
  <2> QED
    BY <1>1, <1>2, <1>3, <1>4, <2>1, <2>2, <2>3, <2>4, Kept
<1>7. CASE s # "operator"
  <2>1. s \in Slots
    BY <1>2, <1>7 DEF Actors
  <2>2. /\ IF run[s].pc = "savingConfirm" THEN Goto(s, "fulfilling") ELSE Finish(s)
        /\ offered' = IF run[s].pc = "savingNew" THEN offered \cup {i} ELSE offered
        /\ told' = IF run[s].pc = "savingPaid" THEN told \cup {i} ELSE told
        /\ acked' = IF run[s].kind = "confirm" /\ run[s].pc # "savingConfirm"
                    THEN acked \cup {i} ELSE acked
    BY <1>1, <1>7
  <2>3. /\ run' \in [Slots -> Run] /\ \A t \in Slots \ {s} : run'[t] = run[t]
        /\ RunOK(s)'
        /\ \/ /\ run[s].pc = "savingConfirm" /\ run'[s].inv = i
              /\ run'[s].pc = "fulfilling"
           \/ run'[s] = Idle
    <3>1. CASE run[s].pc = "savingConfirm"
      <4>1. /\ run' \in [Slots -> Run] /\ \A t \in Slots \ {s} : run'[t] = run[t]
            /\ run'[s].pc = "fulfilling" /\ run'[s].kind = run[s].kind /\ run'[s].inv = i
        BY <1>0, <2>1, <2>2, <3>1, Moved DEF IInv
      <4>2. RunOK(s)'
        BY <1>0, <1>1, <1>2, <2>1, <2>2, <3>1, <4>1 DEF RunOK, Working, Held
      <4> QED
        BY <3>1, <4>1, <4>2
    <3>2. CASE run[s].pc # "savingConfirm"
      BY <2>1, <2>2, <3>2, Ended DEF IInv
    <3> QED
      BY <3>1, <3>2
  <2>4. /\ offered \subseteq offered' /\ told \subseteq told' /\ acked \subseteq acked'
        /\ offered' \subseteq offered \cup {i} /\ told' \subseteq told \cup {i}
    BY <2>2
  <2>5. /\ offered' \subseteq Invoices /\ told' \subseteq offered' /\ acked' \subseteq charged
    BY <1>0, <1>2, <2>1, <2>2 DEF IInv, TypeOK, RunOK
  <2>6. TypeOK'
    BY <1>1, <1>3, <1>5, <2>3, <2>4, <2>5 DEF IInv, TypeOK
  <2>7. Frame(s)
    BY <1>1, <1>2, <2>3, <2>4 DEF Frame
  <2>8. Answers(s, 1)
    BY <1>0, <1>1, <2>1, <2>2 DEF Answers
  <2>9. Sole(s)
    BY <1>0, <1>2, <2>1, <2>2, <2>3 DEF Sole, Unreceipted, Working, Idle, SavePCs
  <2>10. Apart(s)
    <3>1. \A t \in Slots \ {s} : run[t].pc = "quoting" =>
             /\ run[t].inv \in Invoices /\ run[t].inv \notin offered /\ i # run[t].inv
      BY <1>0, <2>1 DEF IInv, RunsOK, RunOK
    <3> QED
      BY <2>3, <2>4, <3>1, InvoiceBounds DEF Apart, Idle
  <2> QED
    BY <1>1, <1>2, <1>3, <1>4, <2>3, <2>6, <2>7, <2>8, <2>9, <2>10, Kept
<1> QED
  BY <1>6, <1>7

LEMMA WriteFailsKeeps ==
    ASSUME IInv, WriteFails
    PROVE  IInv'
<1>0. PICK s, i : s = Head(writes).by /\ i = run[s].inv
  OBVIOUS
<1>1. /\ writes # <<>> /\ Take("fault")
      /\ UNCHANGED <<booth, client, disk, up, lapsed, charged, acked, offered, told, delivered>>
      /\ \/ /\ s = "operator" /\ writes' = Tail(writes) /\ UNCHANGED <<mem, run, doubtful>>
         \/ /\ s # "operator" /\ run[s].pc = "savingPaid" /\ run[s].kind = "confirm"
            /\ RecordFailure(s)
            /\ writes' = Append(Tail(writes), [by |-> s, snap |-> mem'])
            /\ doubtful' = doubtful \cup {i}
         \/ /\ s # "operator"
            /\ writes' = Tail(writes) /\ Finish(s)
            /\ UNCHANGED mem
            /\ doubtful' = IF run[s].pc = "savingPaid" THEN doubtful \cup {i} ELSE doubtful
  BY <1>0 DEF WriteFails
<1>2. /\ s \in Actors /\ writes[1].by = s /\ up
      /\ s \in Slots => run[s].pc \in SavePCs /\ RunOK(s) /\ i \in Invoices
  BY <1>0, <1>1, Oldest
<1>3. left' \in [Kinds -> Nat]
  BY <1>1, Left DEF IInv, Kinds
<1>4. CASE s = "operator" /\ writes' = Tail(writes) /\ UNCHANGED <<mem, run, doubtful>>
  <2>1. Shift(s, 1) /\ writes' \in Seq(Write) /\ s \notin Slots
    BY <1>1, <1>2, <1>4, OldestGone, InvoiceBounds DEF IInv
  <2>2. Evolves /\ Backed(mem)' /\ Numbered(mem)'
    BY <1>1, <1>4, Still
  <2>3. TypeOK'
    BY <1>1, <1>3, <1>4, <2>1 DEF IInv, TypeOK, Kinds
  <2>4. Frame(s) /\ Answers(s, 1) /\ Sole(s)
    BY <1>1, <1>2, <1>4, <2>1 DEF Frame, Answers, Sole, Unreceipted
  <2>5. Apart(s)
    BY <1>1, <2>1 DEF Apart, IInv, RunsOK, RunOK
  <2> QED
    BY <1>1, <1>2, <2>1, <2>2, <2>3, <2>4, <2>5, Kept
<1>5. CASE /\ s # "operator" /\ run[s].pc = "savingPaid" /\ run[s].kind = "confirm"
           /\ RecordFailure(s)
           /\ writes' = Append(Tail(writes), [by |-> s, snap |-> mem'])
           /\ doubtful' = doubtful \cup {i}
  <2>0. s \in Slots
    BY <1>2, <1>5 DEF Actors
  <2>1. i \in Invoices /\ i \in offered /\ i \in charged
    BY <1>0, <1>2, <1>5, <2>0 DEF RunOK
  <2> DEFINE x == [mem.inv[i] EXCEPT !.ful = "failed"]
  <2>2. x \in Invoice /\ x.ful = "failed" /\ x.status = mem.inv[i].status
    BY <2>1, Memory DEF Invoice
  <2>3. mem' = [mem EXCEPT !.inv[i] = x] /\ Goto(s, "savingFailed")
    BY <1>0, <1>5 DEF RecordFailure
  <2> HIDE DEF x
  <2>4. mem' \in BoothState /\ Evolves /\ Backed(mem)' /\ Numbered(mem)'
    BY <1>1, <1>5, <2>1, <2>2, <2>3, Memory, Marked DEF Backed
  <2>5. /\ run' \in [Slots -> Run] /\ \A t \in Slots \ {s} : run'[t] = run[t]
        /\ run'[s].pc = "savingFailed" /\ run'[s].kind = run[s].kind /\ run'[s].inv = i
    BY <1>0, <2>0, <2>3, Moved DEF IInv, SavePCs
  <2>6. Shift(s, 1) /\ writes' \in Seq(Write)
    BY <1>1, <1>2, <1>5, <2>4, <2>5, Replaced DEF IInv, SavePCs
  <2>7. TypeOK'
    BY <1>1, <1>3, <1>5, <2>1, <2>4, <2>5, <2>6 DEF IInv, TypeOK, Kinds
  <2>8. Frame(s) /\ Answers(s, 1) /\ Sole(s)
    BY <1>0, <1>1, <1>2, <1>5, <2>5 DEF Frame, Answers, Sole, Unreceipted, Working
  <2>9. Apart(s)
    BY <1>1, <2>0, <2>1, <2>5, Own
  <2>10. RunOK(s)'
    BY <1>1, <1>5, <2>1, <2>5 DEF RunOK, Working
  <2> QED
    BY <1>1, <1>2, <2>4, <2>6, <2>7, <2>8, <2>9, <2>10, Kept
<1>6. CASE /\ s # "operator"
           /\ writes' = Tail(writes) /\ Finish(s)
           /\ UNCHANGED mem
           /\ doubtful' = IF run[s].pc = "savingPaid" THEN doubtful \cup {i} ELSE doubtful
  <2>0. s \in Slots
    BY <1>2, <1>6 DEF Actors
  <2>1. /\ run' \in [Slots -> Run] /\ \A t \in Slots \ {s} : run'[t] = run[t]
        /\ run'[s] = Idle /\ RunOK(s)'
    BY <1>6, <2>0, Ended DEF IInv
  <2>2. Shift(s, 1) /\ writes' \in Seq(Write)
    BY <1>1, <1>2, <1>6, OldestGone DEF IInv
  <2>3. Evolves /\ Backed(mem)' /\ Numbered(mem)'
    BY <1>1, <1>6, Still
  <2>4. TypeOK'
    BY <1>1, <1>2, <1>3, <1>6, <2>0, <2>1, <2>2 DEF IInv, TypeOK, Kinds
  <2>5. Frame(s) /\ Answers(s, 1) /\ Sole(s)
    BY <1>0, <1>1, <1>2, <1>6, <2>1 DEF Frame, Answers, Sole, Unreceipted, Working, Idle, SavePCs
  <2>6. Apart(s)
    BY <1>1, <2>0, <2>1, Own DEF Idle
  <2> QED
    BY <1>1, <1>2, <2>1, <2>2, <2>3, <2>4, <2>5, <2>6, Kept
<1> QED
  BY <1>1, <1>4, <1>5, <1>6

LEMMA CatalogKeeps ==
    ASSUME IInv, ChangeCatalog
    PROVE  IInv'
<1>1. /\ up /\ Take("catalog") /\ SaveState("operator")
      /\ UNCHANGED <<booth, client, disk, up, run, lapsed, charged, acked, history>>
  BY DEF ChangeCatalog
<1>2. PICK listed \in BOOLEAN : mem' = [mem EXCEPT !.listed = listed]
  BY DEF ChangeCatalog
<1>3. mem' \in BoothState /\ mem'.inv = mem.inv /\ mem'.receipts = mem.receipts
  BY <1>2, Memory DEF BoothState
<1>4. Evolves /\ Backed(mem)' /\ Numbered(mem)'
  BY <1>1, <1>3, Memory DEF Evolves, Backed, Numbered, Receipts
<1> DEFINE s == "operator"
<1>5. s \in Actors /\ s \notin Slots
  BY InvoiceBounds DEF Actors
<1>6. writes' = Append(writes, [by |-> s, snap |-> mem'])
  BY <1>1 DEF SaveState
<1> HIDE DEF s
<1>7. Shift(s, 0) /\ writes' \in Seq(Write)
  BY <1>1, <1>3, <1>5, <1>6, Saved DEF IInv
<1>8. left' \in [Kinds -> Nat]
  BY <1>1, Left DEF IInv, Kinds
<1>9. TypeOK'
  BY <1>1, <1>3, <1>7, <1>8 DEF IInv, TypeOK, history, Kinds
<1>10. Frame(s) /\ Answers(s, 0) /\ Sole(s)
  BY <1>1, <1>5 DEF Frame, Answers, Sole, Unreceipted, history
<1>11. Apart(s)
  BY <1>1, <1>5 DEF Apart, IInv, RunsOK, RunOK, history
<1> QED
  BY <1>1, <1>4, <1>5, <1>7, <1>9, <1>10, <1>11, Kept DEF history
-----------------------------------------------------------------------------
(* The steps of the world around the booth.                                *)
LEMMA LapseKeeps ==
    ASSUME IInv, NEW i \in Invoices, Lapse(i)
    PROVE  IInv'
<1>1. /\ i \in offered /\ lapsed' = lapsed \cup {i}
      /\ UNCHANGED <<booth, client, mem, disk, writes, up, run, charged, acked, left, history>>
  BY DEF Lapse
<1>2. TypeOK'
  BY <1>1 DEF IInv, TypeOK, history
<1>3. CopiesOK' /\ WritesOK' /\ OnceOK'
  BY <1>1 DEF IInv, CopiesOK, Backed, Numbered, Receipts, WritesOK, OnceOK, history
<1>4. ASSUME NEW s \in Slots
      PROVE  RunOK(s)'
  <2>1. RunOK(s)
    BY DEF IInv, RunsOK
  <2> QED
    BY <1>1, <2>1 DEF RunOK, Settles, Held, Receipts, history
<1>5. SavesOK' /\ ToldOK'
  BY <1>1 DEF IInv, SavesOK, ToldOK, Settles, Held, Receipts, history
<1> QED
  BY <1>2, <1>3, <1>4, <1>5 DEF IInv, RunsOK

LEMMA ChargeKeeps ==
    ASSUME IInv, NEW i \in Invoices, Charge(i)
    PROVE  IInv'
<1>1. /\ booth = "server" /\ i \in offered /\ charged' = charged \cup {i}
      /\ UNCHANGED <<booth, client, mem, disk, writes, up, run, lapsed, acked, left, history>>
  BY DEF Charge
<1>2. TypeOK'
  BY <1>1 DEF IInv, TypeOK, history
<1>3. CopiesOK' /\ WritesOK' /\ OnceOK'
  BY <1>1 DEF IInv, CopiesOK, Backed, Numbered, Receipts, WritesOK, OnceOK, history
<1>4. ASSUME NEW s \in Slots
      PROVE  RunOK(s)'
  <2>1. RunOK(s)
    BY DEF IInv, RunsOK
  <2> QED
    BY <1>1, <2>1 DEF RunOK, Settles, Held, Receipts, history
<1>5. SavesOK' /\ ToldOK'
  BY <1>1 DEF IInv, SavesOK, ToldOK, Settles, Held, Receipts, history
<1> QED
  BY <1>2, <1>3, <1>4, <1>5 DEF IInv, RunsOK

LEMMA CrashKeeps ==
    ASSUME IInv, Crash
    PROVE  IInv'
<1>1. /\ up /\ Take("fault") /\ up' = FALSE
      /\ run' = [s \in Slots |-> Idle] /\ writes' = <<>> /\ client' = "none"
      /\ UNCHANGED <<booth, mem, disk, lapsed, charged, acked, offered, told, delivered>>
  BY DEF Crash
<1> DEFINE lost == {run[s].inv : s \in {o \in Slots :
                                        run[o].pc \in Unreceipted \cup {"fulfilling"}}}
<1>2. doubtful' = doubtful \cup lost
  BY DEF Crash
<1>3. /\ lost \subseteq Invoices
      /\ \A s \in Slots : run[s].pc \in Unreceipted => run[s].inv \in lost
  BY Subject DEF Unreceipted
<1> HIDE DEF lost
<1>4. TypeOK'
  <2>1. left' \in [Kinds -> Nat]
    BY <1>1, Left DEF IInv, Kinds
  <2>2. run' \in [Slots -> Run] /\ <<>> \in Seq(Write)
    BY <1>1, IdleType
  <2> QED
    BY <1>1, <1>2, <1>3, <2>1, <2>2 DEF IInv, TypeOK, Kinds
<1>5. CopiesOK'
  BY <1>1 DEF IInv, CopiesOK, Backed, Numbered, Receipts
<1>6. \A s \in Slots : run'[s] = Idle
  BY <1>1
<1>7. WritesOK' /\ SavesOK'
  BY <1>1, <1>6 DEF IInv, WritesOK, SavesOK
<1>8. RunsOK'
  BY <1>6 DEF RunsOK, RunOK, Idle, Working
<1>9. ToldOK'
  BY <1>1, <1>2 DEF IInv, ToldOK, Settles, Held, Receipts
<1>10. OnceOK'
  BY <1>1, <1>2, <1>3, <1>6 DEF IInv, OnceOK, Idle, Working
<1> QED
  BY <1>4, <1>5, <1>7, <1>8, <1>9, <1>10 DEF IInv

LEMMA LoadKeeps ==
    ASSUME IInv, LoadState
    PROVE  IInv'
<1>1. /\ ~up /\ up' = TRUE /\ mem' = disk
      /\ UNCHANGED <<booth, client, disk, writes, run, lapsed, charged, acked, left, history>>
  BY DEF LoadState
<1>2. writes = <<>> /\ \A s \in Slots : run'[s] = Idle /\ run[s] = Idle
  BY <1>1 DEF IInv, WritesOK
<1>3. TypeOK'
  BY <1>1 DEF IInv, TypeOK, history
<1>4. CopiesOK' /\ WritesOK'
  BY <1>1 DEF IInv, CopiesOK, Backed, Numbered, Receipts, WritesOK
<1>5. RunsOK' /\ SavesOK'
  BY <1>1, <1>2 DEF RunsOK, RunOK, SavesOK, Idle, Working
<1>6. ToldOK' /\ OnceOK'
  BY <1>1, <1>2 DEF IInv, ToldOK, OnceOK, Settles, Held, Receipts, history
<1> QED
  BY <1>3, <1>4, <1>5, <1>6 DEF IInv
-----------------------------------------------------------------------------
(* In every copy of the state the server's fulfilled and the agent's paid  *)
(* invoices have receipts with different ids, every run is alone with the  *)
(* invoice it makes, and what was told and delivered is recorded           *)
(* (handlePay, confirmInvoice, _saveState).                                *)
THEOREM InvoicesInvariant == Spec => []IInv
<1>1. Init => IInv
  <2> SUFFICES ASSUME Init PROVE IInv
    OBVIOUS
  <2>1. /\ mem = [listed |-> TRUE, inv |-> [i \in Invoices |-> NotMade], receipts |-> {}]
        /\ disk = mem /\ writes = <<>> /\ run = [s \in Slots |-> Idle] /\ up
        /\ offered = {} /\ told = {} /\ charged = {} /\ delivered = [i \in Invoices |-> 0]
    BY DEF Init
  <2>2. mem \in BoothState
    BY <2>1 DEF BoothState, Invoice, NotMade
  <2>3. TypeOK
    <3>1. <<>> \in Seq(Write) /\ run \in [Slots -> Run]
      BY <2>1, IdleType
    <3>2. left \in [Kinds -> Nat]
      BY InvoiceBounds DEF Init, Kinds
    <3> QED
      BY <2>1, <2>2, <3>1, <3>2 DEF Init, TypeOK, Kinds
  <2>4. Backed(mem) /\ Numbered(mem)
    BY <2>1, FS_EmptySet DEF Backed, Numbered, NotMade
  <2>5. CopiesOK /\ WritesOK
    BY <2>1, <2>4 DEF CopiesOK, WritesOK
  <2>6. RunsOK /\ SavesOK /\ ToldOK /\ OnceOK
    BY <2>1 DEF RunsOK, RunOK, SavesOK, ToldOK, OnceOK, Idle, Working
  <2> QED
    BY <2>3, <2>5, <2>6 DEF IInv
<1>2. IInv /\ [Next]_vars => IInv'
  <2> SUFFICES ASSUME IInv, [Next]_vars PROVE IInv'
    OBVIOUS
  <2>1. CASE UNCHANGED vars
    BY <2>1 DEF IInv, vars, TypeOK, CopiesOK, Backed, Numbered, Receipts, WritesOK, RunsOK,
                RunOK, SavesOK, ToldOK, OnceOK, Settles, Held
  <2>2. CASE Next
    BY <2>2, RequestKeeps, PayKeeps, ConfirmKeeps, AgentInvoiceKeeps, CreateKeeps, QuotedKeeps,
       AgentVerifiedKeeps, VerifiedKeeps, DeliverKeeps, FulfilledKeeps, FailsKeep, LandsKeeps,
       WriteFailsKeeps, CatalogKeeps, LapseKeeps, ChargeKeeps, CrashKeeps, LoadKeeps
    DEF Next, Step
  <2> QED
    BY <2>1, <2>2
<1> QED
  BY <1>1, <1>2, PTL DEF Spec

(* An answer of success stays true: the receipt is stored and shown, with  *)
(* the token of a server's invoice unless its fulfilments overlapped or    *)
(* broke, until the invoice lapses (_saveState, handleStatus).             *)
THEOREM SettledTheorem == Spec => []SettledStays
<1>1. IInv => SettledStays
  <2> SUFFICES ASSUME IInv, NEW i \in told
               PROVE  /\ Receipts(disk, i) # {}
                      /\ up => Receipts(mem, i) # {} /\ (Shown(i) \/ i \in lapsed)
    BY DEF SettledStays
  <2>1. Settles(disk, i) /\ (up => Settles(mem, i))
    BY DEF IInv, ToldOK
  <2>2. booth \in {"agent", "server"}
    BY InvoiceBounds DEF IInv, TypeOK
  <2> QED
    BY <2>1, <2>2 DEF Settles, Held, Shown, Status, AgentStatus
<1> QED
  BY <1>1, InvoicesInvariant, PTL

(* No invoice is delivered twice unless its fulfilments overlapped or      *)
(* broke (handlePay, confirmInvoice).                                      *)
THEOREM DeliveredTheorem == Spec => []DeliveredOnce
<1>1. IInv => DeliveredOnce
  BY DEF IInv, OnceOK, DeliveredOnce
<1> QED
  BY <1>1, InvoicesInvariant, PTL
=============================================================================
