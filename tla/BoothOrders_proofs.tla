-------------------------- MODULE BoothOrders_proofs --------------------------
(***************************************************************************)
(* Proofs about BoothOrders, for every set of orders, payments, buyers and *)
(* runs and every workload.                                                *)
(***************************************************************************)
EXTENDS BoothOrders, TLAPS

LEMMA IdleType == Idle \in Run
  BY DEF Idle, Run, PaymentStatus

(* The writes before a save stay, and the save comes last.                 *)
LEMMA Appended ==
    ASSUME TypeOK, NEW w \in Write, writes' = Append(writes, w)
    PROVE  /\ writes' \in Seq(Write)
           /\ DOMAIN writes' = 1..(Len(writes) + 1) /\ Len(writes) \in Nat
           /\ DOMAIN writes = 1..Len(writes)
           /\ \A i \in DOMAIN writes : writes'[i] = writes[i]
           /\ writes'[Len(writes) + 1] = w
  BY DEF TypeOK

(* The writes after the oldest move up.                                    *)
LEMMA Removed ==
    ASSUME TypeOK, writes # <<>>
    PROVE  /\ Head(writes) = writes[1] /\ writes[1] \in Write
           /\ Tail(writes) \in Seq(Write) /\ Len(Tail(writes)) = Len(writes) - 1
           /\ Len(writes) \in Nat \ {0}
           /\ DOMAIN writes = 1..Len(writes)
           /\ DOMAIN Tail(writes) = 1..(Len(writes) - 1)
           /\ \A i \in DOMAIN Tail(writes) : Tail(writes)[i] = writes[i + 1]
  <1>1. writes \in Seq(Write)
    BY DEF TypeOK
  <1>2. Len(writes) \in Nat /\ DOMAIN writes = 1..Len(writes)
    BY <1>1
  <1>3. Len(writes) # 0
    BY <1>1
  <1> QED
    BY <1>1, <1>2, <1>3

(* The oldest makes place for a new write at the end.                      *)
LEMMA Replaced ==
    ASSUME TypeOK, writes # <<>>, NEW w \in Write, writes' = Append(Tail(writes), w)
    PROVE  /\ writes' \in Seq(Write)
           /\ DOMAIN writes' = 1..Len(writes) /\ DOMAIN writes = 1..Len(writes)
           /\ Len(writes) \in Nat \ {0}
           /\ \A i \in 1..(Len(writes) - 1) : writes'[i] = writes[i + 1]
           /\ writes'[Len(writes)] = w
  <1>1. /\ Tail(writes) \in Seq(Write) /\ Len(Tail(writes)) = Len(writes) - 1
        /\ Len(writes) \in Nat \ {0} /\ DOMAIN writes = 1..Len(writes)
        /\ \A i \in 1..(Len(writes) - 1) : Tail(writes)[i] = writes[i + 1]
    BY Removed
  <1> DEFINE q == Tail(writes)
  <1>2. writes' = Append(q, w) /\ q \in Seq(Write) /\ Len(q) = Len(writes) - 1
    BY <1>1
  <1> HIDE DEF q
  <1>3. /\ writes' \in Seq(Write) /\ Len(writes') = Len(q) + 1
        /\ \A i \in 1..Len(q) : writes'[i] = q[i]
        /\ writes'[Len(q) + 1] = w
    <2>1. /\ Append(q, w) \in Seq(Write) /\ Len(Append(q, w)) = Len(q) + 1
          /\ \A i \in 1..Len(q) : Append(q, w)[i] = q[i]
          /\ Append(q, w)[Len(q) + 1] = w
      BY <1>2
    <2> QED
      BY <1>2, <2>1
  <1>4. /\ DOMAIN writes' = 1..Len(writes)
        /\ writes'[Len(writes)] = w
    BY <1>1, <1>2, <1>3
  <1>5. \A i \in 1..(Len(writes) - 1) : writes'[i] = writes[i + 1]
    BY <1>1, <1>2, <1>3 DEF q
  <1> QED
    BY <1>1, <1>3, <1>4, <1>5

LEMMA PaymentsType ==
    ASSUME NEW q \in Seq(Payment), NEW p, NEW status \in PaymentStatus
    PROVE  /\ SetPayment(q, p, status) \in Seq(Payment)
           /\ DOMAIN SetPayment(q, p, status) = DOMAIN q
           /\ \A i \in DOMAIN q : /\ SetPayment(q, p, status)[i].id = q[i].id
                                  /\ SetPayment(q, p, status)[i].order = q[i].order
<1> DEFINE new(i) == IF q[i].id = p THEN [q[i] EXCEPT !.status = status] ELSE q[i]
<1>1. SetPayment(q, p, status) = [i \in DOMAIN q |-> new(i)]
  BY DEF SetPayment
<1>2. ASSUME NEW i \in DOMAIN q
      PROVE  new(i) \in Payment /\ new(i).id = q[i].id /\ new(i).order = q[i].order
  <2>1. q[i] \in Payment
    BY DOMAIN q = 1..Len(q)
  <2> QED
    BY <2>1 DEF Payment
<1> HIDE DEF new
<1>3. DOMAIN q = 1..Len(q) /\ Len(q) \in Nat
  OBVIOUS
<1>4. [i \in 1..Len(q) |-> new(i)] \in Seq(Payment)
  BY <1>2, <1>3
<1> QED
  BY <1>1, <1>2, <1>3, <1>4

(* One run changes and the others do not.                                  *)
Only(s) == run' \in [Slots -> Run] /\ \A t \in Slots \ {s} : run'[t] = run[t]
(* The run changes nothing but itself; or it saves and waits.              *)
Quiet(s) == /\ mem' = mem /\ writes' = writes /\ disk' = disk
            /\ run[s].pc \notin SavePCs /\ run'[s].pc \notin SavePCs
Saves(s) == /\ writes' = Append(writes, [by |-> s, snap |-> mem']) /\ disk' = disk
            /\ run[s].pc \notin SavePCs /\ run'[s].pc \in SavePCs
Unharmed == up /\ up' = up /\ faulty' = faulty /\ stopped' = stopped

LEMMA Changed ==
    ASSUME TypeOK, NEW s \in Slots, NEW r \in Run, run' = [run EXCEPT ![s] = r]
    PROVE  Only(s) /\ run'[s] = r
  BY DEF Only, TypeOK

LEMMA Moved ==
    ASSUME TypeOK, NEW s \in Slots, NEW pc \in SavePCs \cup {"fulfilling"}, Goto(s, pc)
    PROVE  /\ Only(s) /\ run'[s].pc = pc
           /\ run'[s].order = run[s].order
<1> DEFINE r == [run[s] EXCEPT !.pc = pc]
<1>1. run[s] \in Run
  BY DEF TypeOK
<1>2. r \in Run /\ r.pc = pc /\ r.order = run[s].order
  BY <1>1 DEF Run
<1>3. run' = [run EXCEPT ![s] = r]
  BY DEF Goto
<1> HIDE DEF r
<1> QED
  BY <1>2, <1>3, Changed

LEMMA Left ==
    ASSUME TypeOK, NEW what \in Kinds, Take(what)
    PROVE  left' \in [Kinds -> Nat]
  BY DEF Take, TypeOK

LEMMA OrdersType ==
    ASSUME NEW state \in BoothState, NEW o, NEW status \in OrderStatus
    PROVE  /\ SetStatus(state, o, status) \in BoothState
           /\ SetStatus(state, o, status).receipts = state.receipts
           /\ SetStatus(state, o, status).refunds = state.refunds
           /\ SetStatus(state, o, status).payments = state.payments
           /\ \A x \in Orders : SetStatus(state, o, status).orders[x].status =
                                   IF x = o THEN status ELSE state.orders[x].status
<1> DEFINE m == [state.orders EXCEPT ![o].status = status]
           new == [state.orders[o] EXCEPT !.status = status]
<1>1. state.orders \in [Orders -> Order]
  BY DEF BoothState
<1>2. m \in [Orders -> Order] /\ \A x \in Orders : m[x] = IF x = o THEN new ELSE state.orders[x]
  <2>1. o \in Orders => new \in Order
    BY <1>1 DEF Order
  <2>2. m = [state.orders EXCEPT ![o] = new]
    OBVIOUS
  <2> HIDE DEF new, m
  <2> QED
    BY <1>1, <2>1, <2>2
<1>3. o \in Orders => new.status = status
  BY <1>1 DEF Order
<1>4. SetStatus(state, o, status) = [state EXCEPT !.orders = m]
  BY DEF SetStatus
<1> HIDE DEF m, new
<1> QED
  BY <1>2, <1>3, <1>4 DEF BoothState

(* How each step of a run changes the state.                               *)
LEMMA CreateRequest ==
    ASSUME TypeOK, NEW s \in Slots, NEW u \in Buyers, NEW o \in Orders,
           HandleCreateOrder(s, u, o)
    PROVE  /\ TypeOK' /\ Unharmed /\ Only(s) /\ Quiet(s)
           /\ run[s].pc = "idle" /\ run'[s].pc = "creating"
           /\ provider' = provider /\ collected' = collected
<1> DEFINE r == [Idle EXCEPT !.pc = "creating", !.order = o, !.buyer = u]
<1>1. r \in Run /\ r.pc = "creating"
  BY DEF Idle, Run, PaymentStatus
<1>2. run' = [run EXCEPT ![s] = r]
  BY DEF HandleCreateOrder, Begin
<1> HIDE DEF r
<1> QED
  BY <1>1, <1>2, Changed
  DEF HandleCreateOrder, Begin, At, TypeOK, Unharmed, Quiet, SavePCs, history, Only

LEMMA CreateStep ==
    ASSUME TypeOK, NEW s \in Slots, CreateOrder(s)
    PROVE  /\ TypeOK' /\ Unharmed /\ Only(s) /\ Saves(s)
           /\ run[s].pc = "creating" /\ run'[s].pc = "saving"
           /\ provider' = provider /\ collected' = collected
           /\ mem'.payments = mem.payments /\ mem'.receipts = mem.receipts
           /\ mem'.refunds = mem.refunds
           /\ \A o \in Orders : mem'.orders[o].status \in {mem.orders[o].status, "pending"}
<1>1. Only(s) /\ run'[s].pc = "saving"
  BY Moved DEF CreateOrder, SavePCs
<1>2. run[s] \in Run
  BY DEF TypeOK
<1>3. /\ mem' \in BoothState
      /\ mem'.payments = mem.payments /\ mem'.receipts = mem.receipts
      /\ mem'.refunds = mem.refunds
      /\ \A o \in Orders : mem'.orders[o].status \in {mem.orders[o].status, "pending"}
  BY <1>2 DEF CreateOrder, TypeOK, BoothState, Order, OrderStatus, Run
<1>4. [by |-> s, snap |-> mem'] \in Write
  BY <1>3 DEF Write
<1>5. writes' = Append(writes, [by |-> s, snap |-> mem'])
  BY DEF CreateOrder, SaveState
<1>6. writes' \in Seq(Write)
  BY <1>4, <1>5, Appended
<1> QED
  BY <1>1, <1>3, <1>5, <1>6
  DEF CreateOrder, At, TypeOK, Unharmed, Saves, SavePCs, history, Only

LEMMA SavedState ==
    ASSUME TypeOK, NEW s \in Slots, SaveState(s), mem' \in BoothState
    PROVE  /\ writes' \in Seq(Write)
           /\ writes' = Append(writes, [by |-> s, snap |-> mem'])
<1>1. [by |-> s, snap |-> mem'] \in Write
  BY DEF Write
<1> QED
  BY <1>1, Appended DEF SaveState

LEMMA InitRequest ==
    ASSUME TypeOK, NEW s \in Slots, NEW u \in Buyers, NEW o \in Orders, NEW p \in Payments,
           HandleInitializePayment(s, u, o, p)
    PROVE  /\ TypeOK' /\ Unharmed /\ Only(s) /\ Quiet(s)
           /\ run[s].pc = "idle" /\ run'[s].pc = "starting"
           /\ run'[s].order = o /\ run'[s].pay = p
           /\ provider[p] = "none" /\ provider' = [provider EXCEPT ![p] = "pending"]
           /\ PaymentsOf(p) = {} /\ collected' = collected
<1> DEFINE r == [Idle EXCEPT !.pc = "starting", !.order = o, !.pay = p]
<1>1. r \in Run /\ r.pc = "starting" /\ r.order = o /\ r.pay = p
  BY DEF Idle, Run, PaymentStatus
<1>2. run' = [run EXCEPT ![s] = r]
  BY DEF HandleInitializePayment, Begin
<1>3. left' \in [Kinds -> Nat]
  BY Left DEF HandleInitializePayment, Kinds
<1> HIDE DEF r
<1> QED
  BY <1>1, <1>2, <1>3, Changed
  DEF HandleInitializePayment, ProviderInitializes, Begin, At, TypeOK, Unharmed, Quiet,
      SavePCs, history, Only, PaymentStatus

LEMMA Listed ==
    ASSUME TypeOK, NEW x \in ToSet(mem.payments)
    PROVE  x \in Payment
<1>1. mem.payments \in Seq(Payment)
  BY DEF TypeOK, BoothState
<1> QED
  BY <1>1 DEF ToSet

LEMMA Added ==
    ASSUME NEW S, NEW q \in Seq(S), NEW x \in S
    PROVE  Append(q, x) \in Seq(S) /\ ToSet(Append(q, x)) = ToSet(q) \cup {x}
<1>1. /\ Append(q, x) \in Seq(S) /\ DOMAIN Append(q, x) = 1..(Len(q) + 1)
      /\ \A i \in 1..Len(q) : Append(q, x)[i] = q[i]
      /\ Append(q, x)[Len(q) + 1] = x
      /\ DOMAIN q = 1..Len(q) /\ Len(q) \in Nat
  OBVIOUS
<1>2. 1..(Len(q) + 1) = 1..Len(q) \cup {Len(q) + 1}
  BY <1>1
<1> HIDE DEF ToSet
<1>3. ToSet(Append(q, x)) = {Append(q, x)[i] : i \in 1..Len(q) \cup {Len(q) + 1}}
  BY <1>1, <1>2 DEF ToSet
<1>4. ToSet(q) = {q[i] : i \in 1..Len(q)}
  BY <1>1 DEF ToSet
<1> QED
  BY <1>1, <1>3, <1>4

LEMMA InitStep ==
    ASSUME TypeOK, NEW s \in Slots, InitializePayment(s),
           run[s].pay \in Payments, run[s].order \in Orders
    PROVE  /\ TypeOK' /\ Unharmed /\ Only(s) /\ Saves(s)
           /\ run[s].pc = "starting" /\ run'[s].pc = "saving"
           /\ provider' = provider /\ collected' = collected
           /\ mem'.orders = mem.orders /\ mem'.receipts = mem.receipts
           /\ mem'.refunds = mem.refunds
           /\ ToSet(mem'.payments) = ToSet(mem.payments) \cup
                {[id |-> run[s].pay, order |-> run[s].order, status |-> "pending"]}
<1> DEFINE x == [id |-> run[s].pay, order |-> run[s].order, status |-> "pending"]
           q == Append(mem.payments, x)
<1>1. Only(s) /\ run'[s].pc = "saving"
  BY Moved DEF InitializePayment, SavePCs
<1>2. x \in Payment
  BY DEF Payment, PaymentStatus
<1>3. mem' = [mem EXCEPT !.payments = q]
  BY DEF InitializePayment
<1>4. mem.payments \in Seq(Payment)
  BY DEF TypeOK, BoothState
<1> HIDE DEF x
<1>5. q \in Seq(Payment) /\ ToSet(q) = ToSet(mem.payments) \cup {x}
  BY <1>2, <1>4, Added
<1> HIDE DEF q
<1>6. /\ mem' \in BoothState /\ mem'.payments = q
      /\ mem'.orders = mem.orders /\ mem'.receipts = mem.receipts
      /\ mem'.refunds = mem.refunds
  BY <1>3, <1>5 DEF TypeOK, BoothState
<1>7. writes' \in Seq(Write) /\ writes' = Append(writes, [by |-> s, snap |-> mem'])
  BY <1>6, SavedState DEF InitializePayment
<1> QED
  BY <1>1, <1>5, <1>6, <1>7
  DEF InitializePayment, At, TypeOK, Unharmed, Saves, SavePCs, history, Only, x

LEMMA ProcessStep ==
    ASSUME TypeOK, NEW s \in Slots, NEW p \in Payments, ProcessTATPayment(s, p)
    PROVE  /\ TypeOK' /\ Unharmed /\ Only(s) /\ Quiet(s)
           /\ run[s].pc = "idle" /\ run'[s].pc = "validating" /\ run'[s].pay = p
           /\ PaymentsOf(p) # {} /\ provider' = provider /\ collected' = collected
<1> DEFINE r == [Idle EXCEPT !.pc = "validating", !.pay = p]
<1>1. r \in Run /\ r.pc = "validating" /\ r.pay = p
  BY DEF Idle, Run, PaymentStatus
<1>2. run' = [run EXCEPT ![s] = r]
  BY DEF ProcessTATPayment, Begin
<1> HIDE DEF r
<1> QED
  BY <1>1, <1>2, Changed
  DEF ProcessTATPayment, Begin, At, TypeOK, Unharmed, Quiet, SavePCs, history, Only

LEMMA TokensStep ==
    ASSUME TypeOK, NEW s \in Slots, TokensValidated(s)
    PROVE  /\ TypeOK' /\ Unharmed /\ Only(s) /\ Quiet(s)
           /\ run[s].pc = "validating" /\ run'[s] = Idle
           /\ \/ /\ provider' = [provider EXCEPT ![run[s].pay] = "completed"]
                 /\ collected' = collected \cup {x.order : x \in PaymentsOf(run[s].pay)}
              \/ provider' = provider /\ collected' = collected
<1>1. Only(s) /\ run'[s] = Idle
  BY Changed, IdleType DEF TokensValidated
<1>2. left' \in [Kinds -> Nat]
  BY Left DEF TokensValidated, Kinds, TypeOK
<1>3. \/ /\ provider' = [provider EXCEPT ![run[s].pay] = "completed"]
         /\ collected' = collected \cup {x.order : x \in PaymentsOf(run[s].pay)}
      \/ provider' = provider /\ collected' = collected
  BY DEF TokensValidated
<1>4. provider' \in [Payments -> PaymentStatus \cup {"none"}]
  BY <1>3 DEF TypeOK, PaymentStatus
<1>5. PaymentsOf(run[s].pay) \subseteq Payment
  BY DEF PaymentsOf, ToSet, TypeOK, BoothState
<1>6. collected' \subseteq Orders
  BY <1>3, <1>5 DEF TypeOK, Payment
<1> QED
  BY <1>1, <1>2, <1>3, <1>4, <1>6
  DEF TokensValidated, At, TypeOK, Unharmed, Quiet, SavePCs, history, Only, Idle

LEMMA CancelPaymentStep ==
    ASSUME TypeOK, NEW p \in Payments, CancelPayment(p)
    PROVE  /\ TypeOK' /\ Unharmed /\ run' = run /\ mem' = mem /\ disk' = disk
           /\ writes' = writes /\ collected' = collected
           /\ provider' = [provider EXCEPT ![p] = "failed"]
<1>1. left' \in [Kinds -> Nat]
  BY Left DEF CancelPayment, Kinds
<1> QED
  BY <1>1 DEF CancelPayment, TypeOK, Unharmed, history, PaymentStatus

LEMMA VerifyRequest ==
    ASSUME TypeOK, NEW s \in Slots, NEW p \in Payments, HandleVerifyPayment(s, p)
    PROVE  /\ TypeOK' /\ Unharmed /\ Only(s) /\ Quiet(s)
           /\ run[s].pc = "idle" /\ run'[s].pc = "checking"
           /\ provider' = provider /\ collected' = collected
           /\ \E x \in ToSet(mem.payments) : x.id = p /\ run'[s].order = x.order
           /\ run'[s].result = "completed" => provider[p] = "completed"
<1> DEFINE r == [Idle EXCEPT !.pc = "checking", !.pay = p, !.result = ProviderVerdict(p),
                             !.order = OrderOf(p)]
<1>1. PICK x \in ToSet(mem.payments) : x.id = p /\ OrderOf(p) = x.order
  BY DEF HandleVerifyPayment, PaymentsOf, OrderOf
<1>2. x.order \in Orders
  BY Listed DEF Payment
<1>3. ProviderVerdict(p) \in PaymentStatus /\ (ProviderVerdict(p) = "completed" =>
        provider[p] = "completed")
  BY DEF ProviderVerdict, TypeOK, PaymentStatus
<1>4. /\ r \in Run /\ r.pc = "checking" /\ r.result = ProviderVerdict(p)
      /\ r.order = OrderOf(p)
  BY <1>1, <1>2, <1>3 DEF Idle, Run
<1>5. run' = [run EXCEPT ![s] = r]
  BY DEF HandleVerifyPayment, Begin
<1> HIDE DEF r
<1> QED
  BY <1>1, <1>3, <1>4, <1>5, Changed
  DEF HandleVerifyPayment, Begin, At, TypeOK, Unharmed, Quiet, SavePCs, history, Only

(* The payments stay, whatever becomes of their statuses.                  *)
SamePayments ==
    /\ \A x \in ToSet(mem'.payments) : \E y \in ToSet(mem.payments) :
          x.id = y.id /\ x.order = y.order
    /\ \A y \in ToSet(mem.payments) : \E x \in ToSet(mem'.payments) :
          x.id = y.id /\ x.order = y.order

LEMMA Relabelled ==
    ASSUME TypeOK, NEW p, NEW status \in PaymentStatus,
           mem'.payments = SetPayment(mem.payments, p, status)
    PROVE  mem'.payments \in Seq(Payment) /\ SamePayments
<1>1. mem.payments \in Seq(Payment)
  BY DEF TypeOK, BoothState
<1>2. /\ mem'.payments \in Seq(Payment)
      /\ DOMAIN mem'.payments = DOMAIN mem.payments
      /\ \A i \in DOMAIN mem.payments : /\ mem'.payments[i].id = mem.payments[i].id
                                        /\ mem'.payments[i].order = mem.payments[i].order
  BY <1>1, PaymentsType
<1>3. \A x \in ToSet(mem'.payments) : \E y \in ToSet(mem.payments) :
          x.id = y.id /\ x.order = y.order
  BY <1>2, Zenon DEF ToSet
<1>4. \A y \in ToSet(mem.payments) : \E x \in ToSet(mem'.payments) :
          x.id = y.id /\ x.order = y.order
  BY <1>2, Zenon DEF ToSet
<1> QED
  BY <1>2, <1>3, <1>4 DEF SamePayments

LEMMA VerifyStep ==
    ASSUME TypeOK, NEW s \in Slots, VerifyPayment(s)
    PROVE  /\ TypeOK' /\ Unharmed /\ Only(s) /\ Saves(s) /\ SamePayments
           /\ run[s].pc = "checking" /\ run'[s].order = run[s].order
           /\ provider' = provider /\ collected' = collected
           /\ mem'.receipts = mem.receipts /\ mem'.refunds = mem.refunds
           /\ \/ /\ run[s].result = "completed" /\ run'[s].pc = "savingPaid"
                 /\ \A o \in Orders : mem'.orders[o].status =
                        IF o = run[s].order THEN "paid" ELSE mem.orders[o].status
              \/ /\ run'[s].pc = "saving" /\ mem'.orders = mem.orders
<1> DEFINE r == run[s]
           q == SetPayment(mem.payments, r.pay, r.result)
           marked == [mem EXCEPT !.payments = q]
<1>1. r.result \in PaymentStatus
  BY DEF TypeOK, Run
<1>2. mem.payments \in Seq(Payment)
  BY DEF TypeOK, BoothState
<1>3. q \in Seq(Payment)
  BY <1>1, <1>2, PaymentsType
<1>4. \/ /\ r.result = "completed" /\ mem' = SetStatus(marked, r.order, "paid")
         /\ Goto(s, "savingPaid")
      \/ mem' = marked /\ Goto(s, "saving")
  BY DEF VerifyPayment
<1> HIDE DEF q
<1>5. /\ marked \in BoothState /\ marked.payments = q /\ marked.orders = mem.orders
      /\ marked.receipts = mem.receipts /\ marked.refunds = mem.refunds
  BY <1>3 DEF TypeOK, BoothState
<1> HIDE DEF marked
<1>6. "paid" \in OrderStatus
  BY DEF OrderStatus
<1>7. /\ mem' \in BoothState /\ mem'.payments = q
      /\ mem'.receipts = mem.receipts /\ mem'.refunds = mem.refunds
      /\ Only(s) /\ run'[s].order = run[s].order /\ run'[s].pc \in SavePCs
      /\ \/ /\ run[s].result = "completed" /\ run'[s].pc = "savingPaid"
            /\ \A o \in Orders : mem'.orders[o].status =
                   IF o = run[s].order THEN "paid" ELSE mem.orders[o].status
         \/ run'[s].pc = "saving" /\ mem'.orders = mem.orders
  <2>1. CASE /\ r.result = "completed" /\ mem' = SetStatus(marked, r.order, "paid")
             /\ Goto(s, "savingPaid")
    BY <2>1, <1>5, <1>6, OrdersType, Moved DEF SavePCs
  <2>2. CASE mem' = marked /\ Goto(s, "saving")
    BY <2>2, <1>5, Moved DEF SavePCs
  <2> QED
    BY <1>4, <2>1, <2>2
<1>8. SamePayments
  BY <1>1, <1>7, Relabelled DEF q
<1>9. writes' \in Seq(Write) /\ writes' = Append(writes, [by |-> s, snap |-> mem'])
  BY <1>7, SavedState DEF VerifyPayment
<1> QED
  BY <1>7, <1>8, <1>9
  DEF VerifyPayment, At, TypeOK, Unharmed, Saves, SavePCs, history, Only

LEMMA FulfillStep ==
    ASSUME TypeOK, NEW s \in Slots, FulfillOrder(s), run[s].order \in Orders
    PROVE  /\ TypeOK' /\ Unharmed /\ Only(s) /\ Saves(s)
           /\ run[s].pc = "fulfilling" /\ run'[s].order = run[s].order
           /\ provider' = provider /\ collected' = collected
           /\ mem'.payments = mem.payments /\ mem'.refunds = mem.refunds
           /\ \/ /\ run'[s].pc = "savingFulfilled"
                 /\ mem'.receipts = mem.receipts \cup {run[s].order}
                 /\ \A o \in Orders : mem'.orders[o].status =
                        IF o = run[s].order THEN "fulfilled" ELSE mem.orders[o].status
              \/ /\ run'[s].pc = "saving" /\ mem'.receipts = mem.receipts
                 /\ \A o \in Orders : mem'.orders[o].status =
                        IF o = run[s].order THEN "failed" ELSE mem.orders[o].status
<1> DEFINE o == run[s].order
<1>1. \/ /\ mem' = SetStatus(Receipted(o), o, "fulfilled")
         /\ Goto(s, "savingFulfilled") /\ left' = left
      \/ /\ mem' = SetStatus(mem, o, "failed") /\ Goto(s, "saving")
         /\ left' \in [Kinds -> Nat]
  BY Left DEF FulfillOrder, Kinds
<1>2. /\ Receipted(o) \in BoothState /\ Receipted(o).payments = mem.payments
      /\ Receipted(o).orders = mem.orders /\ Receipted(o).refunds = mem.refunds
      /\ Receipted(o).receipts = mem.receipts \cup {o}
  BY DEF Receipted, TypeOK, BoothState
<1>3. {"fulfilled", "failed"} \subseteq OrderStatus
  BY DEF OrderStatus
<1>4. /\ mem' \in BoothState /\ left' \in [Kinds -> Nat]
      /\ mem'.payments = mem.payments /\ mem'.refunds = mem.refunds
      /\ Only(s) /\ run'[s].order = run[s].order /\ run'[s].pc \in SavePCs
      /\ \/ /\ run'[s].pc = "savingFulfilled"
            /\ mem'.receipts = mem.receipts \cup {o}
            /\ \A x \in Orders : mem'.orders[x].status =
                   IF x = o THEN "fulfilled" ELSE mem.orders[x].status
         \/ /\ run'[s].pc = "saving" /\ mem'.receipts = mem.receipts
            /\ \A x \in Orders : mem'.orders[x].status =
                   IF x = o THEN "failed" ELSE mem.orders[x].status
  <2>1. CASE /\ mem' = SetStatus(Receipted(o), o, "fulfilled")
             /\ Goto(s, "savingFulfilled") /\ left' = left
    BY <2>1, <1>2, <1>3, OrdersType, Moved DEF SavePCs, TypeOK
  <2>2. CASE /\ mem' = SetStatus(mem, o, "failed") /\ Goto(s, "saving")
             /\ left' \in [Kinds -> Nat]
    BY <2>2, <1>3, OrdersType, Moved DEF SavePCs, TypeOK
  <2> QED
    BY <1>1, <2>1, <2>2
<1>5. writes' \in Seq(Write) /\ writes' = Append(writes, [by |-> s, snap |-> mem'])
  BY <1>4, SavedState DEF FulfillOrder
<1> QED
  BY <1>4, <1>5
  DEF FulfillOrder, At, TypeOK, Unharmed, Saves, SavePCs, history, Only

LEMMA Waiting ==
    ASSUME TypeOK, NEW s \in Slots, Begin(s, [Idle EXCEPT !.pc = "saving"])
    PROVE  /\ Only(s) /\ run[s].pc = "idle" /\ run'[s].pc = "saving"
<1> DEFINE r == [Idle EXCEPT !.pc = "saving"]
<1>1. r \in Run /\ r.pc = "saving"
  BY DEF Idle, Run, SavePCs, PaymentStatus
<1>2. run' = [run EXCEPT ![s] = r] /\ run[s].pc = "idle"
  BY DEF Begin, At
<1> HIDE DEF r
<1> QED
  BY <1>1, <1>2, Changed

LEMMA CancelOrderStep ==
    ASSUME TypeOK, NEW s \in Slots, NEW u \in Buyers, NEW o \in Orders,
           HandleCancelOrder(s, u, o)
    PROVE  /\ TypeOK' /\ Unharmed /\ Only(s) /\ Saves(s)
           /\ run[s].pc = "idle" /\ run'[s].pc = "saving"
           /\ provider' = provider /\ collected' = collected
           /\ mem'.payments = mem.payments /\ mem'.refunds = mem.refunds
           /\ mem'.receipts = mem.receipts
           /\ \A x \in Orders : mem'.orders[x].status =
                   IF x = o THEN "cancelled" ELSE mem.orders[x].status
<1>1. Only(s) /\ run[s].pc = "idle" /\ run'[s].pc = "saving" /\ up
  BY Waiting DEF HandleCancelOrder, Begin, At
<1>2. left' \in [Kinds -> Nat]
  BY Left DEF HandleCancelOrder, Kinds
<1>3. /\ mem' \in BoothState
      /\ mem'.payments = mem.payments /\ mem'.refunds = mem.refunds
      /\ mem'.receipts = mem.receipts
      /\ \A x \in Orders : mem'.orders[x].status =
              IF x = o THEN "cancelled" ELSE mem.orders[x].status
  BY OrdersType DEF HandleCancelOrder, Cancelled, OrderStatus, TypeOK
<1>4. writes' \in Seq(Write) /\ writes' = Append(writes, [by |-> s, snap |-> mem'])
  BY <1>3, SavedState DEF HandleCancelOrder
<1> QED
  BY <1>1, <1>2, <1>3, <1>4
  DEF HandleCancelOrder, TypeOK, Unharmed, Saves, SavePCs, history, Only

LEMMA RefundsType ==
    ASSUME NEW state \in BoothState, NEW o,
           NEW status \in {"none", "pending", "completed", "rejected"}
    PROVE  /\ SetRefund(state, o, status) \in BoothState
           /\ SetRefund(state, o, status).orders = state.orders
           /\ SetRefund(state, o, status).payments = state.payments
           /\ SetRefund(state, o, status).receipts = state.receipts
           /\ \A x \in Orders : SetRefund(state, o, status).refunds[x] =
                                   IF x = o THEN status ELSE state.refunds[x]
<1> DEFINE m == [state.refunds EXCEPT ![o] = status]
<1>1. /\ m \in [Orders -> {"none", "pending", "completed", "rejected"}]
      /\ \A x \in Orders : m[x] = IF x = o THEN status ELSE state.refunds[x]
  BY DEF BoothState
<1>2. SetRefund(state, o, status) = [state EXCEPT !.refunds = m]
  BY DEF SetRefund
<1> HIDE DEF m
<1> QED
  BY <1>1, <1>2 DEF BoothState

LEMMA RefundRequest ==
    ASSUME TypeOK, NEW s \in Slots, NEW u \in Buyers, NEW o \in Orders,
           HandleRequestRefund(s, u, o)
    PROVE  /\ TypeOK' /\ Unharmed /\ Only(s) /\ Saves(s)
           /\ run[s].pc = "idle" /\ run'[s].pc = "saving"
           /\ provider' = provider /\ collected' = collected
           /\ mem'.payments = mem.payments /\ mem'.receipts = mem.receipts
           /\ mem'.orders = mem.orders /\ mem.orders[o].status = "fulfilled"
           /\ \A x \in Orders \ {o} : mem'.refunds[x] = mem.refunds[x]
<1>1. Only(s) /\ run[s].pc = "idle" /\ run'[s].pc = "saving" /\ up
  BY Waiting DEF HandleRequestRefund, Begin, At
<1>2. left' \in [Kinds -> Nat]
  BY Left DEF HandleRequestRefund, Kinds
<1>3. /\ mem' \in BoothState
      /\ mem'.payments = mem.payments /\ mem'.receipts = mem.receipts
      /\ mem'.orders = mem.orders /\ mem.orders[o].status = "fulfilled"
      /\ \A x \in Orders \ {o} : mem'.refunds[x] = mem.refunds[x]
  BY RefundsType DEF HandleRequestRefund, RefundRequested, Status, TypeOK
<1>4. writes' \in Seq(Write) /\ writes' = Append(writes, [by |-> s, snap |-> mem'])
  BY <1>3, SavedState DEF HandleRequestRefund
<1> QED
  BY <1>1, <1>2, <1>3, <1>4
  DEF HandleRequestRefund, TypeOK, Unharmed, Saves, SavePCs, history, Only

LEMMA DecideStep ==
    ASSUME TypeOK, NEW s \in Slots, NEW o \in Orders, ProcessRefund(s, o)
    PROVE  /\ TypeOK' /\ Unharmed /\ Only(s)
           /\ run[s].pc = "idle" /\ mem.refunds[o] # "none"
           /\ provider' = provider /\ collected' = collected
           /\ \/ Quiet(s) /\ run'[s].pc = "refunding" /\ run'[s].order = o
              \/ /\ Saves(s) /\ run'[s].pc = "saving"
                 /\ mem'.payments = mem.payments /\ mem'.receipts = mem.receipts
                 /\ mem'.orders = mem.orders
                 /\ \A x \in Orders \ {o} : mem'.refunds[x] = mem.refunds[x]
<1>1. left' \in [Kinds -> Nat] /\ mem.refunds[o] # "none"
  BY Left DEF ProcessRefund, Kinds
<1>2. CASE /\ Begin(s, [Idle EXCEPT !.pc = "refunding", !.order = o])
           /\ UNCHANGED <<mem, writes>>
  <2> DEFINE r == [Idle EXCEPT !.pc = "refunding", !.order = o]
  <2>1. r \in Run /\ r.pc = "refunding" /\ r.order = o
    BY DEF Idle, Run, PaymentStatus
  <2>2. run' = [run EXCEPT ![s] = r] /\ run[s].pc = "idle" /\ up
    BY <1>2 DEF Begin, At
  <2> HIDE DEF r
  <2> QED
    BY <1>1, <1>2, <2>1, <2>2, Changed
    DEF ProcessRefund, TypeOK, Unharmed, Quiet, SavePCs, history, Only
<1>3. CASE /\ Begin(s, [Idle EXCEPT !.pc = "saving"])
           /\ mem' = SetRefund(mem, o, "rejected") /\ SaveState(s)
  <2>1. Only(s) /\ run[s].pc = "idle" /\ run'[s].pc = "saving" /\ up
    BY <1>3, Waiting DEF Begin, At
  <2>2. /\ mem' \in BoothState
        /\ mem'.payments = mem.payments /\ mem'.receipts = mem.receipts
        /\ mem'.orders = mem.orders
        /\ \A x \in Orders \ {o} : mem'.refunds[x] = mem.refunds[x]
    BY <1>3, RefundsType DEF TypeOK
  <2>3. writes' \in Seq(Write) /\ writes' = Append(writes, [by |-> s, snap |-> mem'])
    BY <1>3, <2>2, SavedState
  <2> QED
    BY <1>1, <2>1, <2>2, <2>3
    DEF ProcessRefund, TypeOK, Unharmed, Saves, SavePCs, history, Only
<1> QED
  BY <1>2, <1>3 DEF ProcessRefund

LEMMA RefundedStep ==
    ASSUME TypeOK, NEW s \in Slots, Refunded(s)
    PROVE  /\ TypeOK' /\ Unharmed /\ Only(s) /\ Saves(s) /\ SamePayments
           /\ run[s].pc = "refunding" /\ run'[s].pc = "saving"
           /\ provider' = provider /\ collected' = collected
           /\ mem'.receipts = mem.receipts
           /\ \A x \in Orders : mem'.orders[x].status =
                   IF x = run[s].order THEN "refunded" ELSE mem.orders[x].status
           /\ \A x \in Orders \ {run[s].order} : mem'.refunds[x] = mem.refunds[x]
<1> DEFINE o == run[s].order
           marked == SetStatus(mem, o, "refunded")
           refunded == SetRefund(marked, o, "completed")
           p == mem.payments[FirstPayment(o)].id
           q == SetPayment(mem.payments, p, "refunded")
<1>1. Only(s) /\ run'[s].pc = "saving"
  BY Moved DEF Refunded, SavePCs
<1>2. /\ marked \in BoothState /\ marked.payments = mem.payments
      /\ marked.receipts = mem.receipts /\ marked.refunds = mem.refunds
      /\ \A x \in Orders : marked.orders[x].status =
              IF x = o THEN "refunded" ELSE mem.orders[x].status
  BY OrdersType DEF TypeOK, OrderStatus
<1> HIDE DEF marked
<1>3. /\ refunded \in BoothState /\ refunded.payments = mem.payments
      /\ refunded.receipts = mem.receipts /\ refunded.orders = marked.orders
      /\ \A x \in Orders \ {o} : refunded.refunds[x] = mem.refunds[x]
  BY <1>2, RefundsType
<1> HIDE DEF refunded
<1>4. \/ mem' = refunded
      \/ mem' = [refunded EXCEPT !.payments = q]
  BY <1>3 DEF Refunded, refunded, marked
<1>5. /\ mem' \in BoothState /\ mem'.receipts = mem.receipts
      /\ mem'.orders = marked.orders /\ SamePayments
      /\ \A x \in Orders \ {o} : mem'.refunds[x] = mem.refunds[x]
  <2>1. CASE mem' = refunded
    BY <2>1, <1>3 DEF SamePayments
  <2>2. CASE mem' = [refunded EXCEPT !.payments = q]
    <3>1. mem.payments \in Seq(Payment) /\ "refunded" \in PaymentStatus
      BY DEF TypeOK, BoothState, PaymentStatus
    <3>2. q \in Seq(Payment)
      BY <3>1, PaymentsType
    <3>3. mem'.payments = q
      BY <2>2, <1>3 DEF BoothState
    <3>4. SamePayments
      BY <3>1, <3>3, Relabelled
    <3> HIDE DEF q
    <3> QED
      BY <2>2, <1>3, <3>2, <3>4 DEF BoothState
  <2> QED
    BY <1>4, <2>1, <2>2
<1>6. writes' \in Seq(Write) /\ writes' = Append(writes, [by |-> s, snap |-> mem'])
  BY <1>5, SavedState DEF Refunded
<1> QED
  BY <1>1, <1>2, <1>5, <1>6
  DEF Refunded, At, TypeOK, Unharmed, Saves, SavePCs, history, Only

(* A write that lands lets its run go on, to save again or not.            *)
LEMMA LandStep ==
    ASSUME TypeOK, WritesOK, WriteLands
    PROVE  \E s \in Slots :
           /\ writes # <<>> /\ s = writes[1].by /\ disk' = writes[1].snap
           /\ TypeOK' /\ Only(s) /\ run[s].pc \in SavePCs
           /\ UNCHANGED <<up, provider, history>>
           /\ mem'.payments = mem.payments /\ mem'.receipts = mem.receipts
           /\ mem'.refunds = mem.refunds
           /\ \/ /\ writes' = Tail(writes) /\ mem' = mem
                 /\ \/ /\ run'[s] = Idle /\ run[s].pc # "savingConfirmed"
                       /\ run[s].pc = "savingPaid" => Status(run[s].order) # "paid"
                    \/ /\ run[s].pc = "savingConfirmed" /\ run'[s].pc = "fulfilling"
                       /\ run'[s].order = run[s].order
              \/ /\ writes' = Append(Tail(writes), [by |-> s, snap |-> mem'])
                 /\ run'[s].pc \in SavePCs /\ run'[s].order = run[s].order
                 /\ \/ /\ run[s].pc = "savingPaid" /\ run'[s].pc = "savingConfirmed"
                       /\ \A x \in Orders : mem'.orders[x].status =
                             IF x = run[s].order THEN "confirmed" ELSE mem.orders[x].status
                    \/ /\ run[s].pc = "savingFulfilled" /\ run'[s].pc = "savingReceipt"
                       /\ mem' = mem
                    \/ /\ run[s].pc = "savingReceipt" /\ run'[s].pc = "saving"
                       /\ mem' = mem
<1> DEFINE s == writes[1].by
<1>1. /\ writes # <<>> /\ Head(writes) = writes[1] /\ writes[1] \in Write
      /\ Tail(writes) \in Seq(Write) /\ 1 \in DOMAIN writes
  BY Removed DEF WriteLands
<1>2. s \in Slots /\ writes[1].snap \in BoothState /\ run[s].pc \in SavePCs /\ run[s] \in Run
  BY <1>1 DEF Write, WritesOK, TypeOK
<1>3. disk' = writes[1].snap /\ UNCHANGED <<up, provider, left, history>>
  BY <1>1 DEF WriteLands
<1>4. ASSUME mem' \in BoothState, run' \in [Slots -> Run], writes' \in Seq(Write)
      PROVE  TypeOK'
  BY <1>2, <1>3, <1>4 DEF TypeOK, history
<1>5. ASSUME mem' = mem, writes' = Append(Tail(writes), [by |-> s, snap |-> mem])
      PROVE  writes' \in Seq(Write)
  <2>1. [by |-> s, snap |-> mem] \in Write
    BY <1>2 DEF Write, TypeOK
  <2> QED
    BY <1>1, <1>5, <2>1, Replaced
<1>6. CASE run[s].pc = "savingPaid"
  <2>0. ProcessOrderFulfillment(s)
    BY <1>1, <1>6 DEF WriteLands
  <2>1. CASE Status(run[s].order) = "paid"
    <3>1. /\ mem' = SetStatus(mem, run[s].order, "confirmed") /\ Goto(s, "savingConfirmed")
          /\ writes' = Append(Tail(writes), [by |-> s, snap |-> mem'])
      BY <2>0, <2>1 DEF ProcessOrderFulfillment
    <3>2. Only(s) /\ run'[s].pc = "savingConfirmed" /\ run'[s].order = run[s].order
      BY <1>2, <3>1, Moved DEF SavePCs
    <3>3. /\ mem' \in BoothState
          /\ mem'.payments = mem.payments /\ mem'.receipts = mem.receipts
          /\ mem'.refunds = mem.refunds
          /\ \A x \in Orders : mem'.orders[x].status =
                IF x = run[s].order THEN "confirmed" ELSE mem.orders[x].status
      BY <3>1, OrdersType DEF TypeOK, OrderStatus
    <3>4. [by |-> s, snap |-> mem'] \in Write
      BY <1>2, <3>3 DEF Write
    <3>5. writes' \in Seq(Write)
      BY <1>1, <3>1, <3>4, Replaced
    <3>6. TypeOK'
      BY <1>4, <3>2, <3>3, <3>5 DEF Only
    <3> QED
      BY <1>1, <1>2, <1>3, <1>6, <3>1, <3>2, <3>3, <3>6 DEF SavePCs
  <2>2. CASE Status(run[s].order) # "paid"
    <3>1. /\ mem' = mem /\ writes' = Tail(writes) /\ run' = [run EXCEPT ![s] = Idle]
      BY <2>0, <2>2 DEF ProcessOrderFulfillment
    <3>2. Only(s) /\ run'[s] = Idle
      BY <1>2, <3>1, Changed, IdleType
    <3>3. TypeOK'
      BY <1>1, <1>4, <3>1, <3>2 DEF Only, TypeOK
    <3> QED
      BY <1>1, <1>2, <1>3, <1>6, <2>2, <3>1, <3>2, <3>3
  <2> QED
    BY <2>1, <2>2
<1>7. CASE run[s].pc = "savingConfirmed"
  <2> DEFINE r == [run[s] EXCEPT !.pc = "fulfilling"]
  <2>1. /\ mem' = mem /\ writes' = Tail(writes) /\ run' = [run EXCEPT ![s] = r]
    BY <1>1, <1>7 DEF WriteLands
  <2>2. r \in Run /\ r.pc = "fulfilling" /\ r.order = run[s].order
    BY <1>2 DEF Run
  <2> HIDE DEF r
  <2>3. Only(s) /\ run'[s] = r
    BY <1>2, <2>1, <2>2, Changed
  <2>4. TypeOK'
    BY <1>1, <1>4, <2>1, <2>3 DEF Only, TypeOK
  <2> QED
    BY <1>1, <1>2, <1>3, <1>7, <2>1, <2>2, <2>3, <2>4
<1>8. CASE run[s].pc = "savingFulfilled"
  <2>1. /\ mem' = mem /\ writes' = Append(Tail(writes), [by |-> s, snap |-> mem])
        /\ Goto(s, "savingReceipt")
    BY <1>1, <1>8 DEF WriteLands
  <2>2. Only(s) /\ run'[s].pc = "savingReceipt" /\ run'[s].order = run[s].order
    BY <1>2, <2>1, Moved DEF SavePCs
  <2>3. TypeOK'
    BY <1>4, <1>5, <2>1, <2>2 DEF Only, TypeOK
  <2> QED
    BY <1>1, <1>2, <1>3, <1>8, <2>1, <2>2, <2>3 DEF SavePCs
<1>9. CASE run[s].pc = "savingReceipt"
  <2>1. /\ mem' = mem /\ writes' = Append(Tail(writes), [by |-> s, snap |-> mem])
        /\ Goto(s, "saving")
    BY <1>1, <1>9 DEF WriteLands
  <2>2. Only(s) /\ run'[s].pc = "saving" /\ run'[s].order = run[s].order
    BY <1>2, <2>1, Moved DEF SavePCs
  <2>3. TypeOK'
    BY <1>4, <1>5, <2>1, <2>2 DEF Only, TypeOK
  <2> QED
    BY <1>1, <1>2, <1>3, <1>9, <2>1, <2>2, <2>3 DEF SavePCs
<1>10. CASE run[s].pc = "saving"
  <2>1. /\ mem' = mem /\ writes' = Tail(writes) /\ run' = [run EXCEPT ![s] = Idle]
    BY <1>1, <1>10 DEF WriteLands
  <2>2. Only(s) /\ run'[s] = Idle
    BY <1>2, <2>1, Changed, IdleType
  <2>3. TypeOK'
    BY <1>1, <1>4, <2>1, <2>2 DEF Only, TypeOK
  <2> QED
    BY <1>1, <1>2, <1>3, <1>10, <2>1, <2>2, <2>3
<1> QED
  BY <1>2, <1>6, <1>7, <1>8, <1>9, <1>10 DEF SavePCs

(* A write that fails ends its run, or marks the order as failed.          *)
LEMMA FailStep ==
    ASSUME TypeOK, WritesOK, WriteFails
    PROVE  \E s \in Slots :
           /\ writes # <<>> /\ s = writes[1].by /\ disk' = disk /\ faulty'
           /\ TypeOK' /\ Only(s) /\ run[s].pc \in SavePCs
           /\ UNCHANGED <<up, provider, collected, stopped>>
           /\ mem'.payments = mem.payments /\ mem'.receipts = mem.receipts
           /\ mem'.refunds = mem.refunds
           /\ \/ writes' = Tail(writes) /\ mem' = mem /\ run'[s] = Idle
              \/ /\ writes' = Append(Tail(writes), [by |-> s, snap |-> mem'])
                 /\ run'[s].pc = "saving"
                 /\ \A x \in Orders : mem'.orders[x].status =
                        IF x = run[s].order THEN "failed" ELSE mem.orders[x].status
<1> DEFINE s == writes[1].by
<1>1. /\ writes # <<>> /\ Head(writes) = writes[1] /\ writes[1] \in Write
      /\ Tail(writes) \in Seq(Write) /\ 1 \in DOMAIN writes
  BY Removed DEF WriteFails
<1>2. s \in Slots /\ run[s].pc \in SavePCs
  BY <1>1 DEF Write, WritesOK
<1>3. /\ disk' = disk /\ UNCHANGED <<up, provider, collected, stopped>> /\ faulty' = TRUE
      /\ left' \in [Kinds -> Nat]
  BY Left DEF WriteFails, Kinds
<1>4. ASSUME mem' \in BoothState, run' \in [Slots -> Run], writes' \in Seq(Write)
      PROVE  TypeOK'
  BY <1>3, <1>4 DEF TypeOK
<1>5. CASE run[s].pc \in {"savingFulfilled", "savingReceipt"}
  <2>1. /\ mem' = SetStatus(mem, run[s].order, "failed") /\ Goto(s, "saving")
        /\ writes' = Append(Tail(writes), [by |-> s, snap |-> mem'])
    BY <1>1, <1>5 DEF WriteFails
  <2>2. Only(s) /\ run'[s].pc = "saving"
    BY <1>2, <2>1, Moved DEF SavePCs
  <2>3. /\ mem' \in BoothState
        /\ mem'.payments = mem.payments /\ mem'.receipts = mem.receipts
        /\ mem'.refunds = mem.refunds
        /\ \A x \in Orders : mem'.orders[x].status =
              IF x = run[s].order THEN "failed" ELSE mem.orders[x].status
    BY <2>1, OrdersType DEF TypeOK, OrderStatus
  <2>4. [by |-> s, snap |-> mem'] \in Write
    BY <1>2, <2>3 DEF Write
  <2>5. writes' \in Seq(Write)
    BY <1>1, <2>1, <2>4, Replaced
  <2>6. TypeOK'
    BY <1>4, <2>2, <2>3, <2>5 DEF Only
  <2> QED
    BY <1>1, <1>2, <1>3, <2>1, <2>2, <2>3, <2>6
<1>6. CASE run[s].pc \notin {"savingFulfilled", "savingReceipt"}
  <2>1. /\ mem' = mem /\ writes' = Tail(writes) /\ run' = [run EXCEPT ![s] = Idle]
    BY <1>1, <1>6 DEF WriteFails
  <2>2. Only(s) /\ run'[s] = Idle
    BY <1>2, <2>1, Changed, IdleType
  <2>3. TypeOK'
    BY <1>1, <1>4, <2>1, <2>2 DEF Only, TypeOK
  <2> QED
    BY <1>1, <1>2, <1>3, <2>1, <2>2, <2>3
<1> QED
  BY <1>5, <1>6
-----------------------------------------------------------------------------
(* Every copy is backed after a step if memory is, and the other copies    *)
(* are old ones or memory's.                                               *)
LEMMA Everywhere ==
    ASSUME TypeOK, TypeOK', BackedOK, collected \subseteq collected',
           \A o \in Orders :
              mem'.orders[o].status \in {"fulfilled", "refunded"} \/ mem'.refunds[o] # "none"
                  => o \in mem'.receipts,
           mem'.receipts \subseteq collected',
           disk' = disk \/ (writes # <<>> /\ disk' = writes[1].snap),
           \A i \in DOMAIN writes' :
              \/ writes'[i].snap = mem'
              \/ \E j \in DOMAIN writes : writes'[i].snap = writes[j].snap
    PROVE  BackedOK'
<1>1. Backed(disk) /\ \A i \in DOMAIN writes : Backed(writes[i].snap)
  BY DEF BackedOK, ToSet
<1>2. writes # <<>> => 1 \in DOMAIN writes
  BY Removed
<1>3. ASSUME NEW state, Backed(state)
      PROVE  Backed(state)'
  BY <1>3 DEF Backed
<1>4. Backed(mem)'
  BY DEF Backed
<1>5. Backed(disk)'
  <2>1. CASE disk' = disk
    BY <2>1, <1>1 DEF Backed
  <2>2. CASE writes # <<>> /\ disk' = writes[1].snap
    BY <2>2, <1>1, <1>2 DEF Backed
  <2> QED
    BY <2>1, <2>2
<1>6. ASSUME NEW i \in DOMAIN writes'
      PROVE  Backed(writes[i].snap)'
  <2>1. CASE writes'[i].snap = mem'
    BY <2>1 DEF Backed
  <2>2. CASE \E j \in DOMAIN writes : writes'[i].snap = writes[j].snap
    BY <2>2, <1>1 DEF Backed
  <2> QED
    BY <2>1, <2>2
<1>7. ASSUME NEW state \in ({mem, disk} \cup {w.snap : w \in ToSet(writes)})'
      PROVE  Backed(state)'
  <2>1. state = mem' \/ state = disk' \/ \E i \in DOMAIN writes' : state = writes'[i].snap
    BY DEF ToSet
  <2>2. CASE state = mem'
    BY <2>2, <1>4 DEF Backed
  <2>3. CASE state = disk'
    BY <2>3, <1>5 DEF Backed
  <2>4. CASE \E i \in DOMAIN writes' : state = writes'[i].snap
    BY <2>4, <1>6 DEF Backed
  <2> QED
    BY <2>1, <2>2, <2>3, <2>4
<1> QED
  BY <1>7 DEF BackedOK

(* A quiet step and a save leave only old snapshots and the new one.       *)
LEMMA SnapsKept ==
    ASSUME TypeOK, TypeOK', NEW s \in Slots, Quiet(s) \/ Saves(s)
    PROVE  /\ disk' = disk
           /\ \A i \in DOMAIN writes' :
                \/ writes'[i].snap = mem'
                \/ \E j \in DOMAIN writes : writes'[i].snap = writes[j].snap
<1>1. CASE Quiet(s)
  BY <1>1 DEF Quiet
<1>2. CASE Saves(s)
  <2> DEFINE w == [by |-> s, snap |-> mem']
  <2>1. w \in Write /\ w.snap = mem' /\ writes' = Append(writes, w) /\ disk' = disk
    BY <1>2 DEF Saves, Write, TypeOK
  <2> HIDE DEF w
  <2>2. /\ DOMAIN writes' = 1..(Len(writes) + 1) /\ Len(writes) \in Nat
        /\ DOMAIN writes = 1..Len(writes)
        /\ \A i \in DOMAIN writes : writes'[i] = writes[i]
        /\ writes'[Len(writes) + 1] = w
    BY <2>1, Appended
  <2> QED
    BY <2>1, <2>2
<1> QED
  BY <1>1, <1>2

LEMMA SnapsMoved ==
    ASSUME TypeOK, TypeOK', NEW s \in Slots, writes # <<>>,
           writes' = Tail(writes) \/ writes' = Append(Tail(writes), [by |-> s, snap |-> mem'])
    PROVE  \A i \in DOMAIN writes' :
                \/ writes'[i].snap = mem'
                \/ \E j \in DOMAIN writes : writes'[i].snap = writes[j].snap
<1>1. CASE writes' = Tail(writes)
  <2>1. /\ DOMAIN writes' = 1..(Len(writes) - 1) /\ DOMAIN writes = 1..Len(writes)
        /\ Len(writes) \in Nat \ {0}
        /\ \A i \in DOMAIN writes' : writes'[i] = writes[i + 1]
    BY <1>1, Removed
  <2>2. ASSUME NEW i \in DOMAIN writes'
        PROVE  i + 1 \in DOMAIN writes
    <3>1. ASSUME NEW n \in Nat \ {0}, NEW j \in 1..(n - 1)
          PROVE  j + 1 \in 1..n
      OBVIOUS
    <3> QED
      BY <2>1, <3>1
  <2> QED
    BY <2>1, <2>2
<1>2. CASE writes' = Append(Tail(writes), [by |-> s, snap |-> mem'])
  <2> DEFINE w == [by |-> s, snap |-> mem']
  <2>1. w \in Write /\ w.snap = mem' /\ writes' = Append(Tail(writes), w)
    BY <1>2 DEF Write, TypeOK
  <2> HIDE DEF w
  <2>2. /\ DOMAIN writes' = 1..Len(writes) /\ DOMAIN writes = 1..Len(writes)
        /\ Len(writes) \in Nat \ {0}
        /\ \A i \in 1..(Len(writes) - 1) : writes'[i] = writes[i + 1]
        /\ writes'[Len(writes)] = w
    BY <2>1, Replaced
  <2>3. ASSUME NEW i \in DOMAIN writes'
        PROVE  i = Len(writes) \/ (i \in 1..(Len(writes) - 1) /\ i + 1 \in DOMAIN writes)
    <3>1. ASSUME NEW n \in Nat \ {0}, NEW j \in 1..n
          PROVE  j = n \/ (j \in 1..(n - 1) /\ j + 1 \in 1..n)
      OBVIOUS
    <3> QED
      BY <2>2, <3>1
  <2> QED
    BY <2>1, <2>2, <2>3
<1> QED
  BY <1>1, <1>2

LEMMA Writers ==
    ASSUME TypeOK
    PROVE  \A i \in DOMAIN writes : writes[i].by \in Slots
<1>1. writes \in Seq(Write)
  BY DEF TypeOK
<1>2. \A i \in DOMAIN writes : writes[i] \in Write
  BY <1>1
<1> QED
  BY <1>2 DEF Write

(* Each write keeps its run, and a run its one write.                      *)
LEMMA WritesKept ==
    ASSUME TypeOK, WritesOK, NEW s \in Slots, Only(s), Quiet(s) \/ Saves(s), TypeOK'
    PROVE  WritesOK'
<1>0. \A i \in DOMAIN writes : writes[i].by \in Slots /\ run[writes[i].by].pc \in SavePCs
  BY Writers DEF WritesOK
<1>1. run[s].pc \notin SavePCs
  BY DEF Quiet, Saves
<1>2. \A i \in DOMAIN writes : writes[i].by # s /\ run'[writes[i].by] = run[writes[i].by]
  BY <1>0, <1>1 DEF Only
<1>3. CASE Quiet(s)
  BY <1>0, <1>2, <1>3 DEF Quiet, WritesOK
<1>4. CASE Saves(s)
  <2> DEFINE w == [by |-> s, snap |-> mem']
             n == Len(writes)
  <2>1. w \in Write /\ w.by = s /\ writes' = Append(writes, w) /\ run'[s].pc \in SavePCs
    BY <1>4 DEF Saves, Write, TypeOK
  <2> HIDE DEF w
  <2>2. /\ DOMAIN writes' = 1..(n + 1) /\ n \in Nat /\ DOMAIN writes = 1..n
        /\ \A i \in DOMAIN writes : writes'[i] = writes[i]
        /\ writes'[n + 1] = w
    BY <2>1, Appended
  <2> HIDE DEF n
  <2>3. \A i \in DOMAIN writes' : i \in DOMAIN writes \/ i = n + 1
    BY <2>2
  <2>4. \A i \in DOMAIN writes' : run'[writes'[i].by].pc \in SavePCs
    BY <1>0, <1>2, <2>1, <2>2, <2>3
  <2>5. \A i, j \in DOMAIN writes' : writes'[i].by = writes'[j].by => i = j
    BY <1>2, <2>1, <2>2, <2>3 DEF WritesOK
  <2> QED
    BY <2>4, <2>5 DEF WritesOK
<1> QED
  BY <1>3, <1>4

LEMMA WritesMoved ==
    ASSUME TypeOK, WritesOK, TypeOK', NEW s \in Slots, Only(s),
           writes # <<>>, s = writes[1].by,
           \/ writes' = Tail(writes)
           \/ run'[s].pc \in SavePCs /\ writes' = Append(Tail(writes), [by |-> s, snap |-> mem'])
    PROVE  WritesOK'
<1> DEFINE n == Len(writes)
<1>1. /\ n \in Nat \ {0} /\ DOMAIN writes = 1..n
      /\ DOMAIN Tail(writes) = 1..(n - 1)
      /\ \A i \in DOMAIN Tail(writes) : Tail(writes)[i] = writes[i + 1]
  BY Removed
<1> HIDE DEF n
<1>2. \A i \in DOMAIN writes : writes[i].by \in Slots /\ run[writes[i].by].pc \in SavePCs
  BY Writers DEF WritesOK
<1>3. ASSUME NEW i \in 1..(n - 1)
      PROVE  /\ i + 1 \in DOMAIN writes /\ writes[i + 1].by # s
             /\ run'[writes[i + 1].by].pc \in SavePCs
  <2>1. i + 1 \in DOMAIN writes /\ 1 \in DOMAIN writes /\ i + 1 # 1
    BY <1>1
  <2>2. writes[i + 1].by # s
    BY <2>1 DEF WritesOK
  <2> QED
    BY <1>2, <2>1, <2>2 DEF Only
<1>4. \A i, j \in 1..(n - 1) : writes[i + 1].by = writes[j + 1].by => i = j
  <2>1. ASSUME NEW i \in 1..(n - 1), NEW j \in 1..(n - 1), writes[i + 1].by = writes[j + 1].by
        PROVE  i = j
    <3>1. i + 1 = j + 1
      BY <1>3, <2>1 DEF WritesOK
    <3> QED
      BY <1>1, <3>1
  <2> QED
    BY <2>1
<1>5. CASE writes' = Tail(writes)
  <2>1. DOMAIN writes' = 1..(n - 1) /\ \A i \in 1..(n - 1) : writes'[i] = writes[i + 1]
    BY <1>1, <1>5
  <2> QED
    BY <1>3, <1>4, <2>1 DEF WritesOK
<1>6. CASE run'[s].pc \in SavePCs /\ writes' = Append(Tail(writes), [by |-> s, snap |-> mem'])
  <2> DEFINE w == [by |-> s, snap |-> mem']
  <2>1. w \in Write /\ w.by = s /\ writes' = Append(Tail(writes), w)
    BY <1>6 DEF Write, TypeOK
  <2> HIDE DEF w
  <2>2. /\ DOMAIN writes' = 1..n
        /\ \A i \in 1..(n - 1) : writes'[i] = writes[i + 1]
        /\ writes'[n] = w
    BY <2>1, Replaced DEF n
  <2>3. \A i \in 1..n : i \in 1..(n - 1) \/ i = n
    BY <1>1
  <2>4. \A i \in DOMAIN writes' : run'[writes'[i].by].pc \in SavePCs
    BY <1>3, <1>6, <2>1, <2>2, <2>3
  <2>5. ASSUME NEW i \in DOMAIN writes', NEW j \in DOMAIN writes', writes'[i].by = writes'[j].by
        PROVE  i = j
    <3>1. CASE i \in 1..(n - 1) /\ j \in 1..(n - 1)
      BY <1>4, <2>2, <2>5, <3>1
    <3>2. CASE i = n /\ j \in 1..(n - 1)
      BY <1>3, <2>1, <2>2, <2>5, <3>2
    <3>3. CASE j = n /\ i \in 1..(n - 1)
      BY <1>3, <2>1, <2>2, <2>5, <3>3
    <3> QED
      BY <2>2, <2>3, <3>1, <3>2, <3>3
  <2> QED
    BY <2>4, <2>5 DEF WritesOK
<1> QED
  BY <1>5, <1>6

(* The provider's word still holds if the payments are the same.           *)
LEMMA ProviderKept ==
    ASSUME TypeOK, ProviderOK, SamePayments, provider' = provider, up' = up,
           collected \subseteq collected', ~up => run' = run
    PROVE  ProviderOK'
<1>1. ASSUME NEW x \in ToSet(mem'.payments), provider'[x.id] = "completed"
      PROVE  x.order \in collected'
  BY <1>1 DEF ProviderOK, SamePayments
<1> QED
  BY <1>1 DEF ProviderOK

(* The other runs stay right, and a run at rest is right.                  *)
LEMMA RunsKept ==
    ASSUME TypeOK, RunsOK, NEW s \in Slots, Only(s), RunOK(s)',
           collected \subseteq collected', mem.receipts \subseteq mem'.receipts,
           \A t \in Slots \ {s} :
              /\ run[t].pc = "starting" =>
                    /\ provider'[run[t].pay] \in {"pending", "failed"}
                    /\ PaymentsOf(run[t].pay)' = {}
                    /\ run'[s].pc = "starting" => run'[s].pay # run[t].pay
              /\ run[t].pc = "validating" => PaymentsOf(run[t].pay)' # {}
    PROVE  RunsOK'
<1>1. ASSUME NEW t \in Slots \ {s}
      PROVE  RunOK(t)'
  <2>1. run'[t] = run[t] /\ \A x \in Slots \ {s} : run'[x] = run[x]
    BY DEF Only
  <2>2. RunOK(t)
    BY DEF RunsOK
  <2>3. run[t].pc = "starting" =>
          /\ run[t].pay \in Payments /\ run[t].order \in Orders
          /\ provider'[run[t].pay] \in {"pending", "failed"} /\ PaymentsOf(run[t].pay)' = {}
          /\ \A x \in Slots \ {t} : run'[x].pc = "starting" => run'[x].pay # run[t].pay
    BY <2>1, <2>2 DEF RunOK
  <2>4. run[t].pc = "validating" => PaymentsOf(run[t].pay)' # {}
    OBVIOUS
  <2>5. PaymentsOf(run[t].pay)' = {x \in ToSet(mem'.payments) : x.id = run'[t].pay}
    BY <2>1 DEF PaymentsOf
  <2> QED
    BY <2>1, <2>2, <2>3, <2>4 DEF RunOK, PaymentsOf
<1> QED
  BY <1>1 DEF RunsOK

LEMMA RunsPlain ==
    ASSUME TypeOK, RunsOK, NEW s \in Slots, Only(s), RunOK(s)', run'[s].pc # "starting",
           collected \subseteq collected', mem.receipts \subseteq mem'.receipts,
           provider' = provider, SamePayments
    PROVE  RunsOK'
<1>1. \A p : {x \in ToSet(mem'.payments) : x.id = p} = {} <=>
              {x \in ToSet(mem.payments) : x.id = p} = {}
  BY DEF SamePayments
<1>2. \A t \in Slots \ {s} :
         /\ run[t].pc = "starting" =>
               provider[run[t].pay] \in {"pending", "failed"} /\ PaymentsOf(run[t].pay) = {}
         /\ run[t].pc = "validating" => PaymentsOf(run[t].pay) # {}
         /\ run'[t] = run[t]
  BY DEF RunsOK, RunOK, Only
<1>3. \A t \in Slots \ {s} :
         PaymentsOf(run[t].pay)' = {} <=> PaymentsOf(run[t].pay) = {}
  BY <1>1, <1>2 DEF PaymentsOf
<1> QED
  BY <1>2, <1>3, RunsKept

LEMMA Resting ==
    ASSUME NEW s \in Slots, run'[s].pc \in {"idle", "creating", "saving"}
    PROVE  RunOK(s)'
  BY DEF RunOK, Past

(* Orders stay attended if the step leaves alone those of other runs and   *)
(* hands on its own.                                                       *)
LEMMA AttendedKept ==
    ASSUME AttendedOK, NEW s \in Slots, Only(s), up' = up, stopped' = stopped, faulty' = faulty,
           \A o \in Orders :
              /\ mem'.orders[o].status = "paid" =>
                   \/ run'[s].order = o /\ run'[s].pc = "savingPaid"
                   \/ /\ mem.orders[o].status = "paid"
                      /\ ~(run[s].order = o /\ run[s].pc = "savingPaid")
              /\ mem'.orders[o].status = "confirmed" =>
                   \/ run'[s].order = o /\ run'[s].pc \in {"savingConfirmed", "fulfilling"}
                   \/ /\ mem.orders[o].status = "confirmed"
                      /\ ~(run[s].order = o /\ run[s].pc \in {"savingConfirmed", "fulfilling"})
    PROVE  AttendedOK'
  BY DEF AttendedOK, Only, Status
-----------------------------------------------------------------------------
(* What a step must show when it touches neither the provider nor which    *)
(* payments there are.                                                     *)
LEMMA Plain ==
    ASSUME IInv, TypeOK', NEW s \in Slots, Unharmed, Only(s), Quiet(s) \/ Saves(s),
           SamePayments, provider' = provider, collected' = collected,
           mem.receipts \subseteq mem'.receipts, mem'.receipts \subseteq collected,
           \A o \in Orders :
              mem'.orders[o].status \in {"fulfilled", "refunded"} \/ mem'.refunds[o] # "none"
                  => o \in mem'.receipts,
           RunOK(s)', run'[s].pc # "starting",
           \A o \in Orders :
              /\ mem'.orders[o].status = "paid" =>
                   \/ run'[s].order = o /\ run'[s].pc = "savingPaid"
                   \/ /\ mem.orders[o].status = "paid"
                      /\ ~(run[s].order = o /\ run[s].pc = "savingPaid")
              /\ mem'.orders[o].status = "confirmed" =>
                   \/ run'[s].order = o /\ run'[s].pc \in {"savingConfirmed", "fulfilling"}
                   \/ /\ mem.orders[o].status = "confirmed"
                      /\ ~(run[s].order = o /\ run[s].pc \in {"savingConfirmed", "fulfilling"})
    PROVE  IInv'
<1> USE DEF IInv
<1>1. BackedOK'
  BY SnapsKept, Everywhere
<1>2. ProviderOK'
  BY ProviderKept DEF Unharmed
<1>3. RunsOK'
  BY RunsPlain
<1>4. WritesOK'
  BY WritesKept
<1>5. AttendedOK'
  BY AttendedKept DEF Unharmed
<1> QED
  BY <1>1, <1>2, <1>3, <1>4, <1>5

LEMMA Memory ==
    ASSUME IInv
    PROVE  /\ mem.receipts \subseteq collected
           /\ \A o \in Orders :
                 mem.orders[o].status \in {"fulfilled", "refunded"} \/ mem.refunds[o] # "none"
                     => o \in mem.receipts
  BY DEF IInv, BackedOK, Backed

(* A quiet step of a run that attends no order, before or after.           *)
LEMMA QuietPlain ==
    ASSUME IInv, TypeOK', NEW s \in Slots, Unharmed, Only(s), Quiet(s),
           provider' = provider, collected' = collected,
           RunOK(s)', run'[s].pc # "starting", run[s].pc # "fulfilling"
    PROVE  IInv'
<1>1. SamePayments /\ mem' = mem
  BY DEF Quiet, SamePayments
<1>2. run[s].pc \notin {"savingPaid", "savingConfirmed", "fulfilling"}
  BY DEF Quiet, SavePCs
<1> QED
  BY <1>1, <1>2, Memory, Plain

(* The steps of the runs, one by one.                                      *)
LEMMA RequestsKeep ==
    ASSUME IInv, NEW s \in Slots, Request(s)
    PROVE  IInv'
<1>0. TypeOK /\ RunOK(s) /\ mem.receipts \subseteq collected
  BY Memory DEF IInv, RunsOK
<1>1. ASSUME NEW u \in Buyers, NEW o \in Orders, HandleCreateOrder(s, u, o)
      PROVE  IInv'
  BY <1>0, <1>1, CreateRequest, Resting, QuietPlain
<1>2. ASSUME NEW u \in Buyers, NEW o \in Orders, HandleCancelOrder(s, u, o)
      PROVE  IInv'
  <2>1. /\ TypeOK' /\ Unharmed /\ Only(s) /\ Saves(s)
        /\ run[s].pc = "idle" /\ run'[s].pc = "saving"
        /\ provider' = provider /\ collected' = collected
        /\ mem'.payments = mem.payments /\ mem'.refunds = mem.refunds
        /\ mem'.receipts = mem.receipts
        /\ \A x \in Orders : mem'.orders[x].status =
                IF x = o THEN "cancelled" ELSE mem.orders[x].status
    BY <1>0, <1>2, CancelOrderStep
  <2>2. SamePayments /\ RunOK(s)'
    BY <2>1, Resting DEF SamePayments
  <2> QED
    BY <2>1, <2>2, Memory, Plain
<1>3. ASSUME NEW u \in Buyers, NEW o \in Orders, HandleRequestRefund(s, u, o)
      PROVE  IInv'
  <2>1. /\ TypeOK' /\ Unharmed /\ Only(s) /\ Saves(s)
        /\ run[s].pc = "idle" /\ run'[s].pc = "saving"
        /\ provider' = provider /\ collected' = collected
        /\ mem'.payments = mem.payments /\ mem'.receipts = mem.receipts
        /\ mem'.orders = mem.orders /\ mem.orders[o].status = "fulfilled"
        /\ \A x \in Orders \ {o} : mem'.refunds[x] = mem.refunds[x]
    BY <1>0, <1>3, RefundRequest
  <2>2. SamePayments /\ RunOK(s)'
    BY <2>1, Resting DEF SamePayments
  <2>3. \A x \in Orders :
           mem'.orders[x].status \in {"fulfilled", "refunded"} \/ mem'.refunds[x] # "none"
              => x \in mem'.receipts
    BY <2>1, Memory
  <2> QED
    BY <1>0, <2>1, <2>2, <2>3, Plain
<1>4. ASSUME NEW o \in Orders, ProcessRefund(s, o)
      PROVE  IInv'
  <2>1. /\ TypeOK' /\ Unharmed /\ Only(s)
        /\ run[s].pc = "idle" /\ mem.refunds[o] # "none"
        /\ provider' = provider /\ collected' = collected
        /\ \/ Quiet(s) /\ run'[s].pc = "refunding" /\ run'[s].order = o
           \/ /\ Saves(s) /\ run'[s].pc = "saving"
              /\ mem'.payments = mem.payments /\ mem'.receipts = mem.receipts
              /\ mem'.orders = mem.orders
              /\ \A x \in Orders \ {o} : mem'.refunds[x] = mem.refunds[x]
    BY <1>0, <1>4, DecideStep
  <2>2. o \in mem.receipts
    BY <2>1, Memory
  <2>3. CASE Quiet(s) /\ run'[s].pc = "refunding" /\ run'[s].order = o
    <3>1. RunOK(s)'
      BY <2>2, <2>3 DEF RunOK, Past, Quiet
    <3> QED
      BY <2>1, <2>3, <3>1, QuietPlain
  <2>4. CASE /\ Saves(s) /\ run'[s].pc = "saving"
             /\ mem'.payments = mem.payments /\ mem'.receipts = mem.receipts
             /\ mem'.orders = mem.orders
             /\ \A x \in Orders \ {o} : mem'.refunds[x] = mem.refunds[x]
    <3>1. SamePayments /\ RunOK(s)'
      BY <2>4, Resting DEF SamePayments
    <3>2. \A x \in Orders :
             mem'.orders[x].status \in {"fulfilled", "refunded"} \/ mem'.refunds[x] # "none"
                => x \in mem'.receipts
      BY <2>2, <2>4, Memory
    <3> QED
      BY <1>0, <2>1, <2>4, <3>1, <3>2, Plain
  <2> QED
    BY <2>1, <2>3, <2>4
<1>5. ASSUME NEW u \in Buyers, NEW o \in Orders, NEW p \in Payments,
             HandleInitializePayment(s, u, o, p)
      PROVE  IInv'
  <2>1. /\ TypeOK' /\ Unharmed /\ Only(s) /\ Quiet(s)
        /\ run[s].pc = "idle" /\ run'[s].pc = "starting"
        /\ run'[s].order = o /\ run'[s].pay = p
        /\ provider[p] = "none" /\ provider' = [provider EXCEPT ![p] = "pending"]
        /\ PaymentsOf(p) = {} /\ collected' = collected
    BY <1>0, <1>5, InitRequest
  <2>2. mem' = mem /\ \A q : PaymentsOf(q)' = PaymentsOf(q)
    BY <2>1 DEF Quiet, PaymentsOf
  <2>3. BackedOK'
    BY <2>1, <2>2, <1>0, Memory, SnapsKept, Everywhere DEF IInv
  <2>4. ProviderOK'
    BY <2>1, <2>2 DEF IInv, ProviderOK, Unharmed, TypeOK
  <2>5. \A t \in Slots \ {s} : run[t].pc = "starting" =>
           run[t].pay # p /\ provider'[run[t].pay] = provider[run[t].pay]
    BY <2>1 DEF IInv, RunsOK, RunOK, TypeOK
  <2>6. RunOK(s)'
    <3>1. PaymentsOf(run[s].pay)' = {} /\ provider'[p] = "pending"
      BY <2>1, <2>2 DEF PaymentsOf, IInv, TypeOK
    <3>2. \A t \in Slots \ {s} : run'[t].pc = "starting" => run'[t].pay # p
      BY <2>1, <2>5 DEF Only
    <3> QED
      BY <2>1, <3>1, <3>2 DEF RunOK, Past
  <2>7. RunsOK'
    <3>1. \A t \in Slots \ {s} :
             /\ run[t].pc = "starting" =>
                   provider[run[t].pay] \in {"pending", "failed"} /\ PaymentsOf(run[t].pay) = {}
             /\ run[t].pc = "validating" => PaymentsOf(run[t].pay) # {}
             /\ PaymentsOf(run[t].pay)' = PaymentsOf(run[t].pay)
      BY <2>1, <2>2 DEF IInv, RunsOK, RunOK, PaymentsOf, Only
    <3> QED
      BY <2>1, <2>2, <2>5, <2>6, <3>1, RunsKept DEF IInv
  <2>8. WritesOK'
    BY <2>1, WritesKept DEF IInv
  <2>9. AttendedOK'
    BY <2>1, <2>2, AttendedKept DEF Unharmed, IInv
  <2> QED
    BY <2>1, <2>3, <2>4, <2>7, <2>8, <2>9 DEF IInv
<1>6. ASSUME NEW p \in Payments, HandleVerifyPayment(s, p)
      PROVE  IInv'
  <2>1. /\ TypeOK' /\ Unharmed /\ Only(s) /\ Quiet(s)
        /\ run[s].pc = "idle" /\ run'[s].pc = "checking"
        /\ provider' = provider /\ collected' = collected
        /\ \E x \in ToSet(mem.payments) : x.id = p /\ run'[s].order = x.order
        /\ run'[s].result = "completed" => provider[p] = "completed"
    BY <1>0, <1>6, VerifyRequest
  <2>2. RunOK(s)'
    BY <2>1 DEF RunOK, Past, IInv, ProviderOK
  <2> QED
    BY <2>1, <2>2, QuietPlain
<1>7. ASSUME NEW p \in Payments, ProcessTATPayment(s, p)
      PROVE  IInv'
  <2>1. /\ TypeOK' /\ Unharmed /\ Only(s) /\ Quiet(s)
        /\ run[s].pc = "idle" /\ run'[s].pc = "validating" /\ run'[s].pay = p
        /\ PaymentsOf(p) # {} /\ provider' = provider /\ collected' = collected
    BY <1>0, <1>7, ProcessStep
  <2>2. RunOK(s)'
    BY <2>1 DEF RunOK, Past, Quiet, PaymentsOf
  <2> QED
    BY <2>1, <2>2, QuietPlain
<1> QED
  BY <1>1, <1>2, <1>3, <1>4, <1>5, <1>6, <1>7 DEF Request

LEMMA StepsKeep ==
    ASSUME IInv, NEW s \in Slots, Step(s)
    PROVE  IInv'
<1>0. TypeOK /\ RunOK(s) /\ mem.receipts \subseteq collected /\ collected \subseteq Orders
  BY Memory DEF IInv, RunsOK, TypeOK
<1>1. CASE CreateOrder(s)
  <2>1. /\ TypeOK' /\ Unharmed /\ Only(s) /\ Saves(s)
        /\ run[s].pc = "creating" /\ run'[s].pc = "saving"
        /\ provider' = provider /\ collected' = collected
        /\ mem'.payments = mem.payments /\ mem'.receipts = mem.receipts
        /\ mem'.refunds = mem.refunds
        /\ \A o \in Orders : mem'.orders[o].status \in {mem.orders[o].status, "pending"}
    BY <1>0, <1>1, CreateStep
  <2>2. SamePayments /\ RunOK(s)'
    BY <2>1, Resting DEF SamePayments
  <2> QED
    BY <2>1, <2>2, Memory, Plain
<1>2. CASE InitializePayment(s)
  <2> DEFINE p == run[s].pay
             x == [id |-> p, order |-> run[s].order, status |-> "pending"]
  <2>0. /\ p \in Payments /\ run[s].order \in Orders
        /\ provider[p] \in {"pending", "failed"}
        /\ \A t \in Slots \ {s} : run[t].pc = "starting" => run[t].pay # p
    BY <1>0, <1>2 DEF RunOK, InitializePayment, At
  <2>1. /\ TypeOK' /\ Unharmed /\ Only(s) /\ Saves(s)
        /\ run[s].pc = "starting" /\ run'[s].pc = "saving"
        /\ provider' = provider /\ collected' = collected
        /\ mem'.orders = mem.orders /\ mem'.receipts = mem.receipts
        /\ mem'.refunds = mem.refunds
        /\ ToSet(mem'.payments) = ToSet(mem.payments) \cup {x}
    BY <1>0, <1>2, <2>0, InitStep
  <2>2. x.id = p
    OBVIOUS
  <2> HIDE DEF x
  <2>3. BackedOK'
    BY <1>0, <2>1, Memory, SnapsKept, Everywhere DEF IInv
  <2>4. ProviderOK'
    BY <2>0, <2>1, <2>2 DEF IInv, ProviderOK, Unharmed
  <2>5. RunsOK'
    <3>1. \A t \in Slots \ {s} :
             /\ run[t].pc = "starting" =>
                   /\ provider[run[t].pay] \in {"pending", "failed"}
                   /\ {y \in ToSet(mem'.payments) : y.id = run[t].pay} = {}
             /\ run[t].pc = "validating" =>
                   {y \in ToSet(mem'.payments) : y.id = run[t].pay} # {}
      BY <2>0, <2>1, <2>2 DEF IInv, RunsOK, RunOK, PaymentsOf
    <3>2. \A t \in Slots \ {s} :
             PaymentsOf(run[t].pay)' = {y \in ToSet(mem'.payments) : y.id = run[t].pay}
      BY <2>1 DEF PaymentsOf, Only
    <3> QED
      BY <2>1, <3>1, <3>2, Resting, RunsKept DEF IInv
  <2>6. WritesOK'
    BY <2>1, WritesKept DEF IInv
  <2>7. AttendedOK'
    BY <2>1, AttendedKept DEF IInv, Unharmed
  <2> QED
    BY <2>1, <2>3, <2>4, <2>5, <2>6, <2>7 DEF IInv
<1>3. CASE TokensValidated(s)
  <2> DEFINE p == run[s].pay
  <2>1. /\ TypeOK' /\ Unharmed /\ Only(s) /\ Quiet(s)
        /\ run[s].pc = "validating" /\ run'[s] = Idle
        /\ \/ /\ provider' = [provider EXCEPT ![p] = "completed"]
              /\ collected' = collected \cup {x.order : x \in PaymentsOf(p)}
           \/ provider' = provider /\ collected' = collected
    BY <1>0, <1>3, TokensStep
  <2>2. mem' = mem /\ PaymentsOf(p) # {} /\ run'[s].pc = "idle" /\ collected \subseteq collected'
    BY <1>0, <2>1 DEF Quiet, RunOK, Idle
  <2>3. BackedOK'
    BY <1>0, <2>1, <2>2, Memory, SnapsKept, Everywhere DEF IInv
  <2>4. ProviderOK'
    <3>1. ASSUME NEW y \in ToSet(mem.payments), provider'[y.id] = "completed"
          PROVE  y.order \in collected'
      <4>1. provider[y.id] = "completed" => y.order \in collected
        BY DEF IInv, ProviderOK
      <4>2. CASE y.id = p /\ collected' = collected \cup {x.order : x \in PaymentsOf(p)}
        BY <4>2 DEF PaymentsOf
      <4>3. CASE y.id # p \/ provider' = provider
        <5>1. provider'[y.id] = provider[y.id]
          BY <1>0, <2>1, <4>3, Listed DEF Payment, TypeOK
        <5> QED
          BY <2>2, <3>1, <4>1, <5>1
      <4> QED
        BY <2>1, <4>2, <4>3
    <3> QED
      BY <2>1, <2>2, <3>1 DEF ProviderOK, Unharmed
  <2>5. RunsOK'
    <3>1. \A t \in Slots \ {s} :
             /\ run[t].pc = "starting" =>
                   /\ provider'[run[t].pay] \in {"pending", "failed"}
                   /\ PaymentsOf(run[t].pay) = {}
             /\ run[t].pc = "validating" => PaymentsOf(run[t].pay) # {}
             /\ PaymentsOf(run[t].pay)' = PaymentsOf(run[t].pay)
      BY <2>1, <2>2 DEF IInv, RunsOK, RunOK, PaymentsOf, Only, TypeOK
    <3> QED
      BY <2>1, <2>2, <3>1, Resting, RunsKept DEF IInv
  <2>6. WritesOK'
    BY <2>1, WritesKept DEF IInv
  <2>7. AttendedOK'
    BY <2>1, <2>2, AttendedKept DEF IInv, Unharmed
  <2> QED
    BY <2>1, <2>3, <2>4, <2>5, <2>6, <2>7 DEF IInv
<1>4. CASE VerifyPayment(s)
  <2>1. /\ TypeOK' /\ Unharmed /\ Only(s) /\ Saves(s) /\ SamePayments
        /\ run[s].pc = "checking" /\ run'[s].order = run[s].order
        /\ provider' = provider /\ collected' = collected
        /\ mem'.receipts = mem.receipts /\ mem'.refunds = mem.refunds
        /\ \/ /\ run[s].result = "completed" /\ run'[s].pc = "savingPaid"
              /\ \A o \in Orders : mem'.orders[o].status =
                     IF o = run[s].order THEN "paid" ELSE mem.orders[o].status
           \/ /\ run'[s].pc = "saving" /\ mem'.orders = mem.orders
    BY <1>0, <1>4, VerifyStep
  <2>2. RunOK(s)' /\ run'[s].pc # "starting"
    BY <1>0, <2>1 DEF RunOK, Past
  <2> QED
    BY <2>1, <2>2, Memory, Plain
<1>5. CASE FulfillOrder(s)
  <2>0. run[s].order \in collected
    BY <1>0, <1>5 DEF RunOK, Past, FulfillOrder, At
  <2>1. /\ TypeOK' /\ Unharmed /\ Only(s) /\ Saves(s)
        /\ run[s].pc = "fulfilling" /\ run'[s].order = run[s].order
        /\ provider' = provider /\ collected' = collected
        /\ mem'.payments = mem.payments /\ mem'.refunds = mem.refunds
        /\ \/ /\ run'[s].pc = "savingFulfilled"
              /\ mem'.receipts = mem.receipts \cup {run[s].order}
              /\ \A o \in Orders : mem'.orders[o].status =
                     IF o = run[s].order THEN "fulfilled" ELSE mem.orders[o].status
           \/ /\ run'[s].pc = "saving" /\ mem'.receipts = mem.receipts
              /\ \A o \in Orders : mem'.orders[o].status =
                     IF o = run[s].order THEN "failed" ELSE mem.orders[o].status
    BY <1>0, <1>5, <2>0, FulfillStep
  <2>2. RunOK(s)' /\ run'[s].pc # "starting" /\ SamePayments
    BY <2>0, <2>1 DEF RunOK, Past, SamePayments
  <2>3. /\ mem.receipts \subseteq mem'.receipts /\ mem'.receipts \subseteq collected
        /\ \A o \in Orders :
              mem'.orders[o].status \in {"fulfilled", "refunded"} \/ mem'.refunds[o] # "none"
                  => o \in mem'.receipts
    BY <1>0, <2>0, <2>1, Memory
  <2> QED
    BY <2>1, <2>2, <2>3, Plain
<1>6. CASE Refunded(s)
  <2>1. /\ TypeOK' /\ Unharmed /\ Only(s) /\ Saves(s) /\ SamePayments
        /\ run[s].pc = "refunding" /\ run'[s].pc = "saving"
        /\ provider' = provider /\ collected' = collected
        /\ mem'.receipts = mem.receipts
        /\ \A x \in Orders : mem'.orders[x].status =
                IF x = run[s].order THEN "refunded" ELSE mem.orders[x].status
        /\ \A x \in Orders \ {run[s].order} : mem'.refunds[x] = mem.refunds[x]
    BY <1>0, <1>6, RefundedStep
  <2>2. run[s].order \in mem.receipts
    BY <1>0, <2>1 DEF RunOK
  <2>3. \A o \in Orders :
           mem'.orders[o].status \in {"fulfilled", "refunded"} \/ mem'.refunds[o] # "none"
               => o \in mem'.receipts
    BY <2>1, <2>2, Memory
  <2> QED
    BY <1>0, <2>1, <2>3, Resting, Plain
<1> QED
  BY <1>1, <1>2, <1>3, <1>4, <1>5, <1>6 DEF Step

LEMMA CancelPaymentKeeps ==
    ASSUME IInv, NEW p \in Payments, CancelPayment(p)
    PROVE  IInv'
<1>1. /\ TypeOK' /\ Unharmed /\ run' = run /\ mem' = mem /\ disk' = disk
      /\ writes' = writes /\ collected' = collected
      /\ provider' = [provider EXCEPT ![p] = "failed"]
  BY CancelPaymentStep DEF IInv
<1>2. BackedOK'
  BY <1>1 DEF IInv, BackedOK, Backed
<1>3. ProviderOK'
  BY <1>1 DEF IInv, ProviderOK, Unharmed, TypeOK
<1>4. \A t \in Slots : run[t].pc = "starting" => provider'[run[t].pay] \in {"pending", "failed"}
  BY <1>1 DEF IInv, RunsOK, RunOK, TypeOK
<1>5. RunsOK'
  BY <1>1, <1>4 DEF IInv, RunsOK, RunOK, PaymentsOf
<1>6. WritesOK' /\ AttendedOK'
  BY <1>1 DEF IInv, WritesOK, AttendedOK, Unharmed, Status
<1> QED
  BY <1>1, <1>2, <1>3, <1>5, <1>6 DEF IInv

LEMMA WritesSettle ==
    ASSUME IInv, WriteLands \/ WriteFails
    PROVE  IInv'
<1>0. TypeOK /\ WritesOK /\ mem.receipts \subseteq collected
  BY Memory DEF IInv
<1>1. CASE WriteLands
  <2>1. PICK s \in Slots :
           /\ writes # <<>> /\ s = writes[1].by /\ disk' = writes[1].snap
           /\ TypeOK' /\ Only(s) /\ run[s].pc \in SavePCs
           /\ UNCHANGED <<up, provider, history>>
           /\ mem'.payments = mem.payments /\ mem'.receipts = mem.receipts
           /\ mem'.refunds = mem.refunds
           /\ \/ /\ writes' = Tail(writes) /\ mem' = mem
                 /\ \/ /\ run'[s] = Idle /\ run[s].pc # "savingConfirmed"
                       /\ run[s].pc = "savingPaid" => Status(run[s].order) # "paid"
                    \/ /\ run[s].pc = "savingConfirmed" /\ run'[s].pc = "fulfilling"
                       /\ run'[s].order = run[s].order
              \/ /\ writes' = Append(Tail(writes), [by |-> s, snap |-> mem'])
                 /\ run'[s].pc \in SavePCs /\ run'[s].order = run[s].order
                 /\ \/ /\ run[s].pc = "savingPaid" /\ run'[s].pc = "savingConfirmed"
                       /\ \A x \in Orders : mem'.orders[x].status =
                             IF x = run[s].order THEN "confirmed" ELSE mem.orders[x].status
                    \/ /\ run[s].pc = "savingFulfilled" /\ run'[s].pc = "savingReceipt"
                       /\ mem' = mem
                    \/ /\ run[s].pc = "savingReceipt" /\ run'[s].pc = "saving"
                       /\ mem' = mem
    BY <1>0, <1>1, LandStep
  <2>2. /\ up' = up /\ provider' = provider /\ collected' = collected
        /\ faulty' = faulty /\ stopped' = stopped /\ SamePayments /\ up
    <3>1. ~up => run[s] = Idle
      BY DEF IInv, ProviderOK
    <3> QED
      BY <2>1, <3>1 DEF history, SamePayments, Idle, SavePCs
  <2>3. /\ run'[s].pc # "starting"
        /\ RunOK(s)'
    <3>1. RunOK(s)
      BY DEF IInv, RunsOK
    <3> QED
      BY <2>1, <2>2, <3>1 DEF RunOK, Past, SavePCs, Idle
  <2>4. BackedOK'
    <3>1. \A i \in DOMAIN writes' :
             \/ writes'[i].snap = mem'
             \/ \E j \in DOMAIN writes : writes'[i].snap = writes[j].snap
      BY <1>0, <2>1, SnapsMoved
    <3>2. \A o \in Orders :
             mem'.orders[o].status \in {"fulfilled", "refunded"} \/ mem'.refunds[o] # "none"
                => o \in mem'.receipts
      BY <2>1, Memory
    <3> QED
      BY <1>0, <2>1, <2>2, <3>1, <3>2, Everywhere DEF IInv
  <2>5. ProviderOK'
    BY <2>2, ProviderKept DEF IInv
  <2>6. RunsOK'
    BY <2>1, <2>2, <2>3, RunsPlain DEF IInv
  <2>7. WritesOK'
    BY <1>0, <2>1, WritesMoved
  <2>8. AttendedOK'
    <3>1. \A o \in Orders :
              /\ mem'.orders[o].status = "paid" =>
                   \/ run'[s].order = o /\ run'[s].pc = "savingPaid"
                   \/ /\ mem.orders[o].status = "paid"
                      /\ ~(run[s].order = o /\ run[s].pc = "savingPaid")
              /\ mem'.orders[o].status = "confirmed" =>
                   \/ run'[s].order = o /\ run'[s].pc \in {"savingConfirmed", "fulfilling"}
                   \/ /\ mem.orders[o].status = "confirmed"
                      /\ ~(run[s].order = o /\ run[s].pc \in {"savingConfirmed", "fulfilling"})
      BY <2>1 DEF Status, SavePCs
    <3> QED
      BY <2>1, <2>2, <3>1, AttendedKept DEF IInv
  <2> QED
    BY <2>1, <2>4, <2>5, <2>6, <2>7, <2>8 DEF IInv
<1>2. CASE WriteFails
  <2>1. PICK s \in Slots :
           /\ writes # <<>> /\ s = writes[1].by /\ disk' = disk /\ faulty'
           /\ TypeOK' /\ Only(s) /\ run[s].pc \in SavePCs
           /\ UNCHANGED <<up, provider, collected, stopped>>
           /\ mem'.payments = mem.payments /\ mem'.receipts = mem.receipts
           /\ mem'.refunds = mem.refunds
           /\ \/ writes' = Tail(writes) /\ mem' = mem /\ run'[s] = Idle
              \/ /\ writes' = Append(Tail(writes), [by |-> s, snap |-> mem'])
                 /\ run'[s].pc = "saving"
                 /\ \A x \in Orders : mem'.orders[x].status =
                        IF x = run[s].order THEN "failed" ELSE mem.orders[x].status
    BY <1>0, <1>2, FailStep
  <2>2. SamePayments /\ up
    <3>1. ~up => run[s] = Idle
      BY DEF IInv, ProviderOK
    <3> QED
      BY <2>1, <3>1 DEF SamePayments, Idle, SavePCs
  <2>3. run'[s].pc # "starting" /\ RunOK(s)'
    BY <2>1, Resting DEF Idle
  <2>4. BackedOK'
    <3>1. \A i \in DOMAIN writes' :
             \/ writes'[i].snap = mem'
             \/ \E j \in DOMAIN writes : writes'[i].snap = writes[j].snap
      BY <1>0, <2>1, SnapsMoved
    <3>2. \A o \in Orders :
             mem'.orders[o].status \in {"fulfilled", "refunded"} \/ mem'.refunds[o] # "none"
                => o \in mem'.receipts
      BY <2>1, Memory
    <3> QED
      BY <1>0, <2>1, <3>1, <3>2, Everywhere DEF IInv
  <2>5. ProviderOK'
    BY <2>1, <2>2, ProviderKept DEF IInv
  <2>6. RunsOK'
    BY <2>1, <2>2, <2>3, RunsPlain DEF IInv
  <2>7. WritesOK'
    BY <1>0, <2>1, WritesMoved DEF SavePCs
  <2>8. AttendedOK'
    BY <2>1 DEF IInv, AttendedOK
  <2> QED
    BY <2>1, <2>4, <2>5, <2>6, <2>7, <2>8 DEF IInv
<1> QED
  BY <1>1, <1>2

LEMMA CrashKeeps ==
    ASSUME IInv, Crash
    PROVE  IInv'
<1>1. /\ up' = FALSE /\ stopped' = TRUE /\ writes' = <<>>
      /\ run' = [s \in Slots |-> Idle] /\ provider' = [p \in Payments |-> "none"]
      /\ UNCHANGED <<mem, disk, collected, faulty>>
  BY DEF Crash
<1>2. TypeOK'
  <2>1. left' \in [Kinds -> Nat]
    BY Left DEF Crash, Kinds, IInv
  <2>2. run' \in [Slots -> Run] /\ provider' \in [Payments -> PaymentStatus \cup {"none"}]
    BY <1>1, IdleType
  <2>3. <<>> \in Seq(Write)
    OBVIOUS
  <2> QED
    BY <1>1, <2>1, <2>2, <2>3 DEF IInv, TypeOK
<1>3. BackedOK'
  BY <1>1 DEF IInv, BackedOK, Backed, ToSet
<1>4. ProviderOK'
  <2>1. \A x \in ToSet(mem.payments) : x.id \in Payments
    BY Listed DEF Payment, IInv
  <2> QED
    BY <1>1, <2>1 DEF ProviderOK
<1>5. RunsOK'
  BY <1>1, Resting DEF RunsOK, Idle
<1>6. WritesOK' /\ AttendedOK'
  BY <1>1 DEF WritesOK, AttendedOK
<1> QED
  BY <1>2, <1>3, <1>4, <1>5, <1>6 DEF IInv

LEMMA LoadKeeps ==
    ASSUME IInv, LoadState
    PROVE  IInv'
<1>1. /\ ~up /\ up' = TRUE /\ mem' = disk
      /\ UNCHANGED <<disk, writes, run, provider, left, history>>
  BY DEF LoadState
<1>2. TypeOK'
  BY <1>1 DEF IInv, TypeOK, history
<1>3. BackedOK'
  BY <1>1 DEF IInv, BackedOK, Backed, history
<1>4. /\ \A p \in Payments : provider[p] = "none"
      /\ \A s \in Slots : run'[s].pc = "idle"
  BY <1>1 DEF IInv, ProviderOK, Idle
<1>5. ProviderOK'
  <2>1. TypeOK' => \A x \in ToSet(mem'.payments) : x.id \in Payments
    <3> DEFINE q == mem'.payments
    <3>1. q \in Seq(Payment)
      BY <1>2 DEF TypeOK, BoothState
    <3> HIDE DEF q
    <3>2. \A x \in ToSet(q) : x \in Payment
      BY <3>1 DEF ToSet
    <3> QED
      BY <3>2 DEF q, Payment
  <2> QED
    BY <1>1, <1>2, <1>4, <2>1 DEF ProviderOK
<1>6. RunsOK'
  BY <1>4, Resting DEF RunsOK
<1>7. WritesOK'
  BY <1>1 DEF IInv, WritesOK
<1>8. AttendedOK'
  BY <1>1 DEF IInv, AttendedOK, history
<1> QED
  BY <1>2, <1>3, <1>5, <1>6, <1>7, <1>8 DEF IInv
-----------------------------------------------------------------------------
(* Every fulfilled or refunded order has its receipt, in every copy of the *)
(* state, and every receipt was paid for; every order on its way has a run *)
(* (BoothBase.processOrderFulfillment, verifyPayment, processRefund).      *)
THEOREM OrdersInvariant == Spec => []IInv
<1>1. Init => IInv
  <2> SUFFICES ASSUME Init PROVE IInv
    OBVIOUS
  <2>1. mem \in BoothState
    BY DEF Init, BoothState, NoOrders, NoRefunds, Order, OrderStatus
  <2>2. TypeOK
    <3>1. <<>> \in Seq(Write) /\ run \in [Slots -> Run]
      BY IdleType DEF Init
    <3>2. left \in [Kinds -> Nat]
      BY OrderBounds DEF Init
    <3> QED
      BY <2>1, <3>1, <3>2 DEF Init, TypeOK
  <2>3. BackedOK
    BY DEF Init, BackedOK, Backed, NoOrders, NoRefunds, ToSet
  <2>4. ProviderOK /\ WritesOK /\ AttendedOK
    BY DEF Init, ProviderOK, WritesOK, AttendedOK, ToSet, Status, NoOrders
  <2>5. RunsOK
    BY DEF Init, RunsOK, RunOK, Idle, Past
  <2> QED
    BY <2>2, <2>3, <2>4, <2>5 DEF IInv
<1>2. IInv /\ [Next]_vars => IInv'
  <2> SUFFICES ASSUME IInv, [Next]_vars PROVE IInv'
    OBVIOUS
  <2>1. CASE UNCHANGED vars
    BY <2>1 DEF IInv, vars, TypeOK, BackedOK, Backed, ProviderOK, RunsOK, RunOK, PaymentsOf,
                WritesOK, AttendedOK, Status
  <2>2. CASE Next
    BY <2>2, RequestsKeep, StepsKeep, CancelPaymentKeeps, WritesSettle, CrashKeeps, LoadKeeps
    DEF Next
  <2> QED
    BY <2>1, <2>2
<1> QED
  BY <1>1, <1>2, PTL DEF Spec

(* When no run is in progress, no save has failed and the booth has not    *)
(* stopped, no order is paid or confirmed (processOrderFulfillment).       *)
THEOREM HalfWayTheorem == Spec => []NoneLeftHalfWay
<1>1. IInv => NoneLeftHalfWay
  BY DEF IInv, AttendedOK, NoneLeftHalfWay, Idle
<1> QED
  BY <1>1, OrdersInvariant, PTL
=============================================================================
