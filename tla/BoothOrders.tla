----------------------------- MODULE BoothOrders -----------------------------
(***************************************************************************)
(* The booth's orders: BoothServer on BoothBase, with TATPaymentProvider   *)
(* as the provider of all payments.                                        *)
(*                                                                         *)
(* Handlers of one JavaScript process interleave at their awaits, and each *)
(* action below is the code between two awaits.  Orders, payments and      *)
(* refunds are objects that all runs share; every save writes all of them, *)
(* in the order of the calls.  The provider keeps its payments in memory   *)
(* only.  The tokens of a payment are abstracted to whether the provider   *)
(* accepts them; the inventory touches no order and is left out.           *)
(***************************************************************************)
EXTENDS Integers, Sequences, FiniteSets, SequencesExt

CONSTANTS
    Orders,         \* order ids, each drawn at most once
    Payments,       \* payment ids, each drawn at most once
    Buyers,         \* keys that send requests
    Slots,          \* runs that may be in progress at one time
    Workloads,      \* how often each request and each fault happens, see Kinds
    NoOrder, NoPayment, NoBuyer

(* Payments started, cancellations, refunds asked for and decided, tokens  *)
(* or fulfilments that fail, writes that fail, crashes.                    *)
Kinds == {"pay", "cancel", "refund", "decide", "failure", "fault", "crash"}
ASSUME OrderBounds ==
    /\ Workloads \subseteq [Kinds -> Nat]
    /\ NoOrder \notin Orders /\ NoPayment \notin Payments /\ NoBuyer \notin Buyers

VARIABLES
    mem,        \* BoothBase.state in memory
    disk,       \* the snapshot of it that storage holds
    writes,     \* storage.setItem calls that have not settled
    up,         \* FALSE after a crash, until the booth is created again
    run,        \* control state of each run
    provider,   \* TATPaymentProvider.pendingPayments: the status of each
    left,       \* requests and faults still to come
    collected,  \* history: orders for which the provider accepted tokens
    faulty,     \* history: a write has failed
    stopped     \* history: the booth has crashed

vars == <<mem, disk, writes, up, run, provider, left, collected,
          faulty, stopped>>
history == <<collected, faulty, stopped>>

OrderStatus == {"none", "pending", "paid", "confirmed", "fulfilled", "cancelled",
                "refunded", "failed"}
PaymentStatus == {"pending", "completed", "failed", "refunded"}
Order == [status: OrderStatus, buyer: Buyers \cup {NoBuyer}]
Payment == [id: Payments, order: Orders, status: PaymentStatus]
BoothState == [orders: [Orders -> Order], payments: Seq(Payment),
               receipts: SUBSET Orders,     \* a receipt's id is made from its order's
               refunds: [Orders -> {"none", "pending", "completed", "rejected"}]]
Write == [by: Slots, snap: BoothState]

SavePCs == {"saving", "savingPaid", "savingConfirmed", "savingFulfilled", "savingReceipt"}
Run == [pc: {"idle", "creating", "starting", "validating", "checking", "fulfilling",
             "refunding"} \cup SavePCs,
        order: Orders \cup {NoOrder}, pay: Payments \cup {NoPayment},
        buyer: Buyers \cup {NoBuyer}, result: PaymentStatus]
Idle == [pc |-> "idle", order |-> NoOrder, pay |-> NoPayment, buyer |-> NoBuyer,
         result |-> "pending"]

TypeOK ==
    /\ mem \in BoothState /\ disk \in BoothState
    /\ writes \in Seq(Write) /\ up \in BOOLEAN
    /\ run \in [Slots -> Run]
    /\ provider \in [Payments -> PaymentStatus \cup {"none"}]
    /\ left \in [Kinds -> Nat]
    /\ collected \subseteq Orders /\ faulty \in BOOLEAN /\ stopped \in BOOLEAN

NoRefunds == [o \in Orders |-> "none"]
NoOrders == [o \in Orders |-> [status |-> "none", buyer |-> NoBuyer]]
Init ==
    /\ mem = [orders |-> NoOrders, payments |-> <<>>, receipts |-> {}, refunds |-> NoRefunds]
    /\ disk = mem /\ writes = <<>> /\ up = TRUE
    /\ run = [s \in Slots |-> Idle]
    /\ provider = [p \in Payments |-> "none"]
    /\ left \in Workloads /\ collected = {} /\ faulty = FALSE /\ stopped = FALSE
-----------------------------------------------------------------------------
Take(what) == left[what] > 0 /\ left' = [left EXCEPT ![what] = @ - 1]
At(s, pc) == up /\ run[s].pc = pc
Begin(s, r) == At(s, "idle") /\ run' = [run EXCEPT ![s] = r]
Goto(s, pc) == run' = [run EXCEPT ![s].pc = pc]
SaveState(s) == writes' = Append(writes, [by |-> s, snap |-> mem'])
Status(o) == mem.orders[o].status
SetStatus(state, o, status) == [state EXCEPT !.orders[o].status = status]
SetRefund(state, o, status) == [state EXCEPT !.refunds[o] = status]
PaymentsOf(p) == {x \in ToSet(mem.payments) : x.id = p}
OrderOf(p) == (CHOOSE x \in PaymentsOf(p) : TRUE).order
(* Find by order: the first in the order of the Map, 0 if there is none.   *)
FirstPayment(o) == SelectInSeq(mem.payments, LAMBDA x : x.order = o)
SetPayment(payments, p, status) ==
    [i \in DOMAIN payments |->
        IF payments[i].id = p THEN [payments[i] EXCEPT !.status = status] ELSE payments[i]]

(* handleCreateOrder, up to the end of validateOrder.                      *)
HandleCreateOrder(s, u, o) ==
    /\ Status(o) = "none" /\ \A x \in Slots : run[x].order # o
    /\ Begin(s, [Idle EXCEPT !.pc = "creating", !.order = o, !.buyer = u])
    /\ UNCHANGED <<mem, disk, writes, up, provider, left, history>>

CreateOrder(s) ==
    /\ At(s, "creating")
    /\ mem' = [mem EXCEPT !.orders[run[s].order] =
                 [status |-> "pending", buyer |-> run[s].buyer]]
    /\ SaveState(s) /\ Goto(s, "saving")
    /\ UNCHANGED <<disk, up, provider, left, history>>

(* TATPaymentProvider.initializePayment: the provider's own entry.         *)
ProviderInitializes(p) ==
    /\ provider[p] = "none" /\ provider' = [provider EXCEPT ![p] = "pending"]

(* The buyer's request, up to the provider's answer.  Requests of others,  *)
(* or for an order that is not pending, change nothing.                    *)
HandleInitializePayment(s, u, o, p) ==
    /\ mem.orders[o].buyer = u /\ Status(o) = "pending"
    /\ ProviderInitializes(p) /\ PaymentsOf(p) = {} /\ Take("pay")
    /\ Begin(s, [Idle EXCEPT !.pc = "starting", !.order = o, !.pay = p])
    /\ UNCHANGED <<mem, disk, writes, up, history>>

InitializePayment(s) ==
    /\ At(s, "starting")
    /\ mem' = [mem EXCEPT !.payments =
                 Append(@, [id |-> run[s].pay, order |-> run[s].order, status |-> "pending"])]
    /\ SaveState(s) /\ Goto(s, "saving")
    /\ UNCHANGED <<disk, up, provider, left, history>>

(* processTATPayment: the status is looked at, then the tokens are         *)
(* validated; what the provider has become in between is not looked at.    *)
ProcessTATPayment(s, p) ==
    /\ provider[p] = "pending" /\ PaymentsOf(p) # {}
    /\ Begin(s, [Idle EXCEPT !.pc = "validating", !.pay = p])
    /\ UNCHANGED <<mem, disk, writes, up, provider, left, history>>

TokensValidated(s) ==
    /\ At(s, "validating")
    /\ run' = [run EXCEPT ![s] = Idle]
    /\ \/ /\ provider' = [provider EXCEPT ![run[s].pay] = "completed"]
          /\ collected' = collected \cup {x.order : x \in PaymentsOf(run[s].pay)}
          /\ UNCHANGED left
       \/ Take("failure") /\ UNCHANGED <<provider, collected>>
    /\ UNCHANGED <<mem, disk, writes, up, faulty, stopped>>

CancelPayment(p) ==
    /\ up /\ provider[p] = "pending" /\ Take("cancel")
    /\ provider' = [provider EXCEPT ![p] = "failed"]
    /\ UNCHANGED <<mem, disk, writes, up, run, history>>
-----------------------------------------------------------------------------
(* Mutant: a payment the provider does not know passes for what was saved. *)
ProviderVerdict_Trusting(p) == "completed"
ProviderVerdict(p) == IF provider[p] = "none" THEN "failed" ELSE provider[p]

(* handleVerifyPayment: anyone may ask.                                    *)
HandleVerifyPayment(s, p) ==
    /\ PaymentsOf(p) # {}
    /\ Begin(s, [Idle EXCEPT !.pc = "checking", !.pay = p, !.result = ProviderVerdict(p),
                             !.order = OrderOf(p)])
    /\ UNCHANGED <<mem, disk, writes, up, provider, left, history>>

(* Mutant: only a pending order becomes paid.                              *)
VerifyPayment_Pending(s) ==
    /\ At(s, "checking")
    /\ LET r == run[s]
           marked == [mem EXCEPT !.payments = SetPayment(@, r.pay, r.result)]
       IN IF r.result = "completed" /\ Status(r.order) = "pending"
          THEN mem' = SetStatus(marked, r.order, "paid") /\ Goto(s, "savingPaid")
          ELSE mem' = marked /\ Goto(s, "saving")
    /\ SaveState(s)
    /\ UNCHANGED <<disk, up, provider, left, history>>
(* verifyPayment has its answer: the order becomes paid, whatever it was.  *)
VerifyPayment(s) ==
    /\ At(s, "checking")
    /\ LET r == run[s]
           marked == [mem EXCEPT !.payments = SetPayment(@, r.pay, r.result)]
       IN IF r.result = "completed"
          THEN mem' = SetStatus(marked, r.order, "paid") /\ Goto(s, "savingPaid")
          ELSE mem' = marked /\ Goto(s, "saving")
    /\ SaveState(s)
    /\ UNCHANGED <<disk, up, provider, left, history>>

(* processOrderFulfillment after the order was saved as paid.              *)
ProcessOrderFulfillment(s) ==
    IF Status(run[s].order) = "paid"
    THEN /\ mem' = SetStatus(mem, run[s].order, "confirmed")
         /\ Goto(s, "savingConfirmed")
         /\ writes' = Append(Tail(writes), [by |-> s, snap |-> mem'])
    ELSE run' = [run EXCEPT ![s] = Idle] /\ writes' = Tail(writes) /\ UNCHANGED mem

Receipted(o) == [mem EXCEPT !.receipts = @ \cup {o}]
(* Mutant: a failed fulfilment is not recorded.                            *)
FulfillOrder_NoCatch(s) ==
    /\ At(s, "fulfilling")
    /\ \/ /\ mem' = SetStatus(Receipted(run[s].order), run[s].order, "fulfilled")
          /\ Goto(s, "savingFulfilled") /\ SaveState(s) /\ UNCHANGED left
       \/ Take("failure") /\ run' = [run EXCEPT ![s] = Idle] /\ UNCHANGED <<mem, writes>>
    /\ UNCHANGED <<disk, up, provider, history>>
(* fulfillOrder has returned a receipt, or has thrown.                     *)
FulfillOrder(s) ==
    /\ At(s, "fulfilling")
    /\ \/ /\ mem' = SetStatus(Receipted(run[s].order), run[s].order, "fulfilled")
          /\ Goto(s, "savingFulfilled") /\ UNCHANGED left
       \/ /\ Take("failure")
          /\ mem' = SetStatus(mem, run[s].order, "failed") /\ Goto(s, "saving")
    /\ SaveState(s)
    /\ UNCHANGED <<disk, up, provider, history>>
-----------------------------------------------------------------------------
(* cancelOrder: every status but one may be left.                          *)
Cancelled(o) == Status(o) # "fulfilled" /\ mem' = SetStatus(mem, o, "cancelled")
HandleCancelOrder(s, u, o) ==
    /\ mem.orders[o].buyer = u /\ Take("cancel")
    /\ Begin(s, [Idle EXCEPT !.pc = "saving"])
    /\ Cancelled(o) /\ SaveState(s)
    /\ UNCHANGED <<disk, up, provider, history>>

(* requestRefund.                                                          *)
RefundRequested(o) == Status(o) = "fulfilled" /\ mem' = SetRefund(mem, o, "pending")
HandleRequestRefund(s, u, o) ==
    /\ mem.orders[o].buyer = u /\ Take("refund")
    /\ Begin(s, [Idle EXCEPT !.pc = "saving"])
    /\ RefundRequested(o) /\ SaveState(s)
    /\ UNCHANGED <<disk, up, provider, history>>

(* processRefund: what became of the refund before is not looked at.       *)
ProcessRefund(s, o) ==
    /\ mem.refunds[o] # "none" /\ Take("decide")
    /\ \/ /\ Begin(s, [Idle EXCEPT !.pc = "refunding", !.order = o])
          /\ UNCHANGED <<mem, writes>>
       \/ /\ Begin(s, [Idle EXCEPT !.pc = "saving"])
          /\ mem' = SetRefund(mem, o, "rejected") /\ SaveState(s)
    /\ UNCHANGED <<disk, up, provider, history>>

(* The provider has answered; its answer is not looked at.                 *)
Refunded(s) ==
    /\ At(s, "refunding")
    /\ LET o == run[s].order
           refunded == SetRefund(SetStatus(mem, o, "refunded"), o, "completed")
       IN mem' = IF FirstPayment(o) = 0 THEN refunded
                 ELSE [refunded EXCEPT !.payments =
                         SetPayment(@, @[FirstPayment(o)].id, "refunded")]
    /\ SaveState(s) /\ Goto(s, "saving")
    /\ UNCHANGED <<disk, up, provider, left, history>>
-----------------------------------------------------------------------------
(* The oldest write lands and the run that waits for it goes on.           *)
WriteLands ==
    /\ writes # <<>> /\ disk' = Head(writes).snap
    /\ LET s == Head(writes).by
           SaveAgain(pc) == /\ Goto(s, pc) /\ UNCHANGED mem
                            /\ writes' = Append(Tail(writes), [by |-> s, snap |-> mem])
           Done(r) == run' = [run EXCEPT ![s] = r] /\ writes' = Tail(writes) /\ UNCHANGED mem
       IN CASE run[s].pc = "savingPaid"      -> ProcessOrderFulfillment(s)
            [] run[s].pc = "savingConfirmed" -> Done([run[s] EXCEPT !.pc = "fulfilling"])
            [] run[s].pc = "savingFulfilled" -> SaveAgain("savingReceipt")
            [] run[s].pc = "savingReceipt"   -> SaveAgain("saving")
            [] OTHER                         -> Done(Idle)
    /\ UNCHANGED <<up, provider, left, history>>

(* A failed save ends the run; within processOrderFulfillment's try block  *)
(* it is taken for a failed fulfilment.                                    *)
WriteFails ==
    /\ writes # <<>> /\ Take("fault") /\ faulty' = TRUE
    /\ LET s == Head(writes).by IN
       IF run[s].pc \in {"savingFulfilled", "savingReceipt"}
       THEN /\ mem' = SetStatus(mem, run[s].order, "failed") /\ Goto(s, "saving")
            /\ writes' = Append(Tail(writes), [by |-> s, snap |-> mem'])
       ELSE run' = [run EXCEPT ![s] = Idle] /\ writes' = Tail(writes) /\ UNCHANGED mem
    /\ UNCHANGED <<disk, up, provider, collected, stopped>>

Crash ==
    /\ up /\ Take("crash") /\ up' = FALSE /\ stopped' = TRUE
    /\ run' = [s \in Slots |-> Idle] /\ writes' = <<>>
    /\ provider' = [p \in Payments |-> "none"]
    /\ UNCHANGED <<mem, disk, collected, faulty>>

LoadState ==
    /\ ~up /\ up' = TRUE /\ mem' = disk
    /\ UNCHANGED <<disk, writes, run, provider, left, history>>

Request(s) ==
    \/ \E u \in Buyers, o \in Orders :
          \/ HandleCreateOrder(s, u, o) \/ HandleCancelOrder(s, u, o)
          \/ HandleRequestRefund(s, u, o) \/ ProcessRefund(s, o)
          \/ \E p \in Payments : HandleInitializePayment(s, u, o, p)
    \/ \E p \in Payments : HandleVerifyPayment(s, p) \/ ProcessTATPayment(s, p)
Step(s) ==
    \/ CreateOrder(s) \/ InitializePayment(s) \/ TokensValidated(s)
    \/ VerifyPayment(s) \/ FulfillOrder(s) \/ Refunded(s)
Next ==
    \/ \E s \in Slots : Request(s) \/ Step(s)
    \/ \E p \in Payments : CancelPayment(p)
    \/ WriteLands \/ WriteFails \/ Crash \/ LoadState
Spec == Init /\ [][Next]_vars

(* The event loop runs every ready continuation, storage settles every     *)
(* call, a stopped booth is started again, and a buyer goes on asking for  *)
(* an order that has no receipt.                                           *)
FairSpec ==
    /\ Spec
    /\ \A s \in Slots : WF_vars(Step(s))
    /\ WF_vars(WriteLands) /\ WF_vars(LoadState)
    /\ \A p \in Payments :
          SF_vars(\E s \in Slots :
                    HandleVerifyPayment(s, p) /\ OrderOf(p) \notin mem.receipts)
-----------------------------------------------------------------------------
(* In memory, in storage and in every write under way, a fulfilled or      *)
(* refunded order has its receipt, refunds are only asked for with one,    *)
(* and a receipt is only made for an order whose tokens the provider       *)
(* accepted, although cancellations, refunds and other verifications       *)
(* change the order while it is fulfilled (verifyPayment,                  *)
(* processOrderFulfillment, processRefund).                                *)
Backed(state) ==
    /\ \A o \in Orders :
          state.orders[o].status \in {"fulfilled", "refunded"} \/ state.refunds[o] # "none"
              => o \in state.receipts
    /\ state.receipts \subseteq collected
BackedOK ==
    \A state \in {mem, disk} \cup {w.snap : w \in ToSet(writes)} : Backed(state)
(* What the provider says it collected it did collect; it forgets all of   *)
(* it in a crash.                                                          *)
ProviderOK ==
    /\ \A x \in ToSet(mem.payments) : provider[x.id] = "completed" => x.order \in collected
    /\ ~up => /\ \A p \in Payments : provider[p] = "none"
              /\ \A s \in Slots : run[s] = Idle
(* A run that goes on to fulfil an order has seen its tokens accepted.     *)
Past == {"savingPaid", "savingConfirmed", "fulfilling", "savingFulfilled", "savingReceipt"}
RunOK(s) ==
    /\ run[s].pc = "starting" =>
          /\ run[s].pay \in Payments /\ run[s].order \in Orders
          /\ provider[run[s].pay] \in {"pending", "failed"} /\ PaymentsOf(run[s].pay) = {}
          /\ \A t \in Slots \ {s} : run[t].pc = "starting" => run[t].pay # run[s].pay
    /\ run[s].pc = "validating" => PaymentsOf(run[s].pay) # {}
    /\ run[s].pc = "checking" /\ run[s].result = "completed" => run[s].order \in collected
    /\ run[s].pc \in Past => run[s].order \in collected
    /\ run[s].pc = "refunding" => run[s].order \in mem.receipts
RunsOK == \A s \in Slots : RunOK(s)
(* A run waits for one write at most, and each write has its run.          *)
WritesOK ==
    \A i \in DOMAIN writes :
        /\ run[writes[i].by].pc \in SavePCs
        /\ \A j \in DOMAIN writes : writes[i].by = writes[j].by => i = j
(* A paid order waits for the save of a run that will confirm it, and a    *)
(* confirmed one has a run that will fulfil it.                            *)
AttendedOK ==
    /\ up \/ stopped
    /\ ~faulty /\ ~stopped =>
         \A o \in Orders :
            /\ Status(o) = "paid" =>
                 \E s \in Slots : run[s].order = o /\ run[s].pc = "savingPaid"
            /\ Status(o) = "confirmed" =>
                 \E s \in Slots :
                    run[s].order = o /\ run[s].pc \in {"savingConfirmed", "fulfilling"}
(* The copies are backed, the provider and the runs say what was           *)
(* collected, and no order on its way is without a run (BoothBase).        *)
IInv == TypeOK /\ BackedOK /\ ProviderOK /\ RunsOK /\ WritesOK /\ AttendedOK

(* While no save fails and the booth does not stop, no order is left half  *)
(* way, paid or confirmed, by runs that overlap: the last of them has      *)
(* fulfilled it, failed, or found it cancelled or refunded                 *)
(* (processOrderFulfillment).                                              *)
NoneLeftHalfWay ==
    (\A s \in Slots : run[s] = Idle) /\ ~faulty /\ ~stopped =>
        \A o \in Orders : Status(o) \notin {"paid", "confirmed"}

(* An order whose tokens were accepted gets its receipt in the end if its  *)
(* buyer goes on asking and the booth, whose provider keeps no record of   *)
(* payments, does not stop (processTATPayment, verifyPayment).             *)
CollectedIsFulfilled ==
    \A o \in Orders :
        o \in collected ~> (o \in mem.receipts \/ stopped)
=============================================================================
