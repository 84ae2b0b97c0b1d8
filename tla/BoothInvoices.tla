---------------------------- MODULE BoothInvoices ----------------------------
(***************************************************************************)
(* The invoices of a booth: BoothServerSpec, paid by tokens (booth.pay) or *)
(* by a payment provider whose webhook calls confirmInvoice, and the older *)
(* BoothAgent, which takes tokens only and fulfils nothing.                *)
(*                                                                         *)
(* Handlers of one JavaScript process interleave at their awaits, and each *)
(* action below is the code between two awaits.  Invoices are objects that *)
(* all runs share and change in place; every save writes all of them, and  *)
(* storage performs the writes in the order of the calls.  The tokens of a *)
(* payment are drawn when they are looked at: nothing keeps them.          *)
(***************************************************************************)
EXTENDS Integers, Sequences, FiniteSets, SequencesExt

CONSTANTS
    Booths,         \* the classes that are run: "server", "agent"
    Adapters,       \* number of config.paymentAdapters of the server
    ItemType,       \* tokenType of the catalog item, "FUNGIBLE" or "TAT"
    Prices,         \* values that its price.amount may have
    Payments,       \* token lists that booth.pay requests carry
    Invoices,       \* invoice ids, each drawn at most once
    Slots,          \* handler runs that may be in progress at one time
    MaxPays,        \* bound on booth.pay requests
    MaxRepeats,     \* bound on webhooks for a payment that was answered before
    MaxCatalog,     \* bound on changes of the catalog
    MaxFaults,      \* bound on crashes, failed writes and failed calls together
    NoInvoice, NoAmount

ASSUME InvoiceBounds ==
    /\ MaxPays \in Nat /\ MaxRepeats \in Nat /\ MaxCatalog \in Nat /\ MaxFaults \in Nat
    /\ NoInvoice \notin Invoices
    /\ "operator" \notin Slots
    /\ NoAmount \notin Int /\ Booths \subseteq {"server", "agent"}
    /\ Adapters \in Nat /\ Prices \subseteq Nat

VARIABLES
    booth,      \* the class of the booth
    client,     \* forgeClient: not created, initialised, or its init rejected
    mem,        \* the state in memory
    disk,       \* the snapshot of it that storage holds
    writes,     \* storage.setItem calls that have not settled
    up,         \* FALSE after a crash, until the booth is created again
    run,        \* control state of each handler run
    lapsed,     \* invoices whose expiresAt has passed
    charged,    \* invoices paid at the payment provider
    acked,      \* payments whose webhook was answered: confirmInvoice returned
    left,       \* requests and faults still to come
    offered,    \* history: invoices a buyer has received
    told,       \* history: invoices whose run saved the receipt and answered success
    delivered,  \* history: how often config.fulfill has delivered each invoice
    doubtful    \* history: invoices whose runs overlapped, or with a fulfilment that
                \* failed or was cut short before its receipt was saved

vars == <<booth, client, mem, disk, writes, up, run, lapsed, charged, acked, left,
          offered, told, delivered, doubtful>>
history == <<offered, told, delivered, doubtful>>

Invoice == [status: {"none", "pending", "paid", "expired"},
            ful: {"none", "pending", "fulfilled", "failed"}, receipt: Nat]
Receipt == [id: Nat, inv: Invoices]
BoothState == [listed: BOOLEAN, inv: [Invoices -> Invoice], receipts: SUBSET Receipt]
Write == [by: Slots \cup {"operator"}, snap: BoothState]

SavePCs == {"savingNew", "savingExpired", "savingConfirm", "savingPaid", "savingFailed"}
Run == [pc: {"idle", "quoting", "verifying", "fulfilling", "recording"} \cup SavePCs,
        kind: {"none", "invoice", "pay", "confirm"}, inv: Invoices \cup {NoInvoice},
        made: 0..Adapters]
Idle == [pc |-> "idle", kind |-> "none", inv |-> NoInvoice, made |-> 0]
NotMade == [status |-> "none", ful |-> "none", receipt |-> 0]

TypeOK ==
    /\ booth \in Booths /\ client \in {"none", "ready", "rejected"}
    /\ mem \in BoothState /\ disk \in BoothState
    /\ writes \in Seq(Write) /\ up \in BOOLEAN
    /\ run \in [Slots -> Run]
    /\ lapsed \subseteq Invoices /\ charged \subseteq offered /\ acked \subseteq charged
    /\ left \in [{"pay", "repeat", "catalog", "fault"} -> Nat]
    /\ offered \subseteq Invoices /\ told \subseteq offered
    /\ delivered \in [Invoices -> Nat] /\ doubtful \subseteq Invoices

Init ==
    /\ booth \in Booths /\ client = "none"
    /\ mem = [listed |-> TRUE, inv |-> [i \in Invoices |-> NotMade], receipts |-> {}]
    /\ disk = mem /\ writes = <<>> /\ up = TRUE
    /\ run = [s \in Slots |-> Idle]
    /\ lapsed = {} /\ charged = {} /\ acked = {}
    /\ left = [pay |-> MaxPays, repeat |-> MaxRepeats, catalog |-> MaxCatalog,
               fault |-> MaxFaults]
    /\ offered = {} /\ told = {} /\ delivered = [i \in Invoices |-> 0] /\ doubtful = {}
-----------------------------------------------------------------------------
Take(what) == left[what] > 0 /\ left' = [left EXCEPT ![what] = @ - 1]
At(s, pc) == up /\ run[s].pc = pc
Begin(s, pc, kind, i) ==
    /\ At(s, "idle")
    /\ run' = [run EXCEPT ![s] = [pc |-> pc, kind |-> kind, inv |-> i, made |-> 0]]
Goto(s, pc) == run' = [run EXCEPT ![s].pc = pc]
Finish(s) == run' = [run EXCEPT ![s] = Idle]
(* Mutant: the state is serialised before the handler changes it.          *)
SaveState_Early(by) == writes' = Append(writes, [by |-> by, snap |-> mem])
(* _saveState: the state is serialised at the call.                        *)
SaveState(by) == writes' = Append(writes, [by |-> by, snap |-> mem'])
Known(i) == mem.inv[i].status # "none"
Receipts(state, i) == {r \in state.receipts : r.inv = i}

Working == {"verifying", "savingConfirm", "fulfilling", "recording"}
Unreceipted == {"recording", "savingPaid"}
Overlap(s, i) ==
    IF \E o \in Slots \ {s} : run[o].inv = i /\ run[o].pc \in Working THEN {i} ELSE {}

(* handleInvoice for an item with supply, up to the payment adapters.      *)
RequestInvoice(s, i) ==
    /\ booth = "server" /\ mem.listed /\ ~Known(i) /\ i \notin offered
    /\ \A o \in Slots : run[o].inv # i
    /\ Begin(s, "quoting", "invoice", i)
    /\ UNCHANGED <<booth, client, mem, disk, writes, up, lapsed, charged, acked, left, history>>

(* buildPaymentOptionsAndReferences: one adapter after the other makes a   *)
(* payment; when one throws the request ends, and the payments that others *)
(* have made stay behind at their providers.                               *)
CreatePayment(s) ==
    /\ At(s, "quoting") /\ run[s].made < Adapters
    /\ \/ run' = [run EXCEPT ![s].made = @ + 1] /\ UNCHANGED left
       \/ Take("fault") /\ Finish(s)
    /\ UNCHANGED <<booth, client, mem, disk, writes, up, lapsed, charged, acked, history>>

(* The invoice is stored and saved.                                        *)
Quoted(s) ==
    /\ At(s, "quoting") /\ run[s].made = Adapters
    /\ mem' = [mem EXCEPT !.inv[run[s].inv] =
                 [status |-> "pending", ful |-> "pending", receipt |-> 0]]
    /\ SaveState(s) /\ Goto(s, "savingNew")
    /\ UNCHANGED <<booth, client, disk, up, lapsed, charged, acked, left, history>>

(* The agent's handleInvoice: it has no adapters to wait for and keeps no  *)
(* record of a fulfilment.                                                 *)
AgentInvoice(s, i) ==
    /\ booth = "agent" /\ mem.listed /\ ~Known(i) /\ i \notin offered
    /\ Begin(s, "savingNew", "invoice", i)
    /\ mem' = [mem EXCEPT !.inv[i] = [NotMade EXCEPT !.status = "pending"]]
    /\ SaveState(s)
    /\ UNCHANGED <<booth, client, disk, up, lapsed, charged, acked, left, history>>

(* Both ways of paying refuse a lapsed invoice and record that.            *)
MarkExpired(s, kind, i) ==
    /\ Begin(s, "savingExpired", kind, i)
    /\ mem' = [mem EXCEPT !.inv[i].status = "expired"] /\ SaveState(s)
    /\ UNCHANGED doubtful

(* Mutant: the receipt of a paid invoice is not looked for.                *)
AlreadyPaid_Ignored(i) == FALSE
AlreadyPaid(i) == mem.inv[i].status = "paid" /\ Receipts(mem, i) # {}

(* The checks of handlePay, up to its first await.                         *)
TakePayment(s, i) ==
    /\ Known(i) /\ i \in offered /\ Take("pay")
    /\ \/ i \in lapsed /\ MarkExpired(s, "pay", i)
       \/ /\ i \notin lapsed /\ AlreadyPaid(i) /\ At(s, "idle")
          /\ UNCHANGED <<mem, writes, run, doubtful>>
       \/ /\ i \notin lapsed /\ ~AlreadyPaid(i)
          /\ Begin(s, "verifying", "pay", i)
          /\ doubtful' = doubtful \cup Overlap(s, i)
          /\ UNCHANGED <<mem, writes>>
    /\ UNCHANGED <<booth, client, disk, up, lapsed, charged, acked, offered, told, delivered>>

Pay(s, i) == booth = "server" /\ TakePayment(s, i)
AgentPay(s, i) == booth = "agent" /\ TakePayment(s, i)

(* Token.validate; an amount of 0 is an amount.                            *)
Validate(t) ==
    t.hashed /\ t.signed /\ ~t.expired /\ (t.typ = "FUNGIBLE" => t.amount # NoAmount)

(* What processPayment asks of each token before it asks the forge; a     *)
(* unique token is named by a tokenID that is not the number 0.            *)
TokensGood(tokens) ==
    /\ tokens # <<>>
    /\ \A t \in ToSet(tokens) :
          /\ Validate(t) /\ t.ofIssuer /\ t.typ = ItemType /\ t.lock \in {"none", "booth"}
          /\ IF ItemType = "FUNGIBLE" THEN t.amount > 0 ELSE t.named

(* The price of one item, whatever the quantity, as it is when the tokens  *)
(* are counted: updateCatalogItem changes the item that its invoices       *)
(* share.  A token listed twice counts twice.                              *)
Enough(tokens, price) ==
    ItemType = "FUNGIBLE" => FoldLeft(LAMBDA sum, t : sum + t.amount, 0, tokens) >= price

(* getForgeClient: the promise of the one init is kept, also when it       *)
(* rejects.                                                                *)
GetForgeClient ==
    \/ client = "none" /\ client' = "ready" /\ UNCHANGED left
    \/ client = "none" /\ Take("fault") /\ client' = "rejected"
    \/ client # "none" /\ UNCHANGED <<client, left>>

(* verifyTokensNotSpent: the forge names those it has marked; a request    *)
(* that fails counts as all of them.                                       *)
VerifyTokensNotSpent(tokens, unspent) ==
    /\ GetForgeClient
    /\ \E marked \in SUBSET {t.id : t \in ToSet(tokens)} :
          unspent = (client' = "ready" /\ marked = {})

(* processPayment for the method "tat", up to the fulfilment.              *)
ProcessPayment(tokens, accepted) ==
    \/ ~TokensGood(tokens) /\ accepted = FALSE /\ UNCHANGED <<client, left>>
    \/ /\ TokensGood(tokens)
       /\ \E unspent \in BOOLEAN, price \in Prices :
             /\ VerifyTokensNotSpent(tokens, unspent)
             /\ accepted = (unspent /\ Enough(tokens, price))

Verified(s) ==
    /\ booth = "server" /\ At(s, "verifying")
    /\ \E tokens \in Payments, accepted \in BOOLEAN :
          /\ ProcessPayment(tokens, accepted)
          /\ IF accepted THEN Goto(s, "fulfilling") ELSE Finish(s)
    /\ UNCHANGED <<booth, mem, disk, writes, up, lapsed, charged, acked, history>>

(* Mutant: an invoice that is paid is taken for fulfilled.                 *)
Confirmed_Paid(i) == mem.inv[i].status = "paid"
(* Mutant: fulfilment is run again whatever is recorded.                   *)
Confirmed_Ignored(i) == FALSE
Confirmed(i) == mem.inv[i].ful = "fulfilled" /\ Receipts(mem, i) # {}

(* confirmInvoice up to its first await.                                   *)
Confirm(s, i) ==
    /\ Known(i) /\ i \in charged
    /\ IF i \in acked THEN Take("repeat") ELSE UNCHANGED left
    /\ \/ /\ Confirmed(i) /\ At(s, "idle")
          /\ acked' = acked \cup {i}
          /\ UNCHANGED <<mem, writes, run, doubtful>>
       \/ /\ ~Confirmed(i) /\ i \in lapsed /\ mem.inv[i].status # "paid"
          /\ MarkExpired(s, "confirm", i)
          /\ UNCHANGED acked
       \/ /\ ~Confirmed(i) /\ (i \notin lapsed \/ mem.inv[i].status = "paid")
          /\ Begin(s, "savingConfirm", "confirm", i)
          /\ mem' = [mem EXCEPT !.inv[i].status = "paid"] /\ SaveState(s)
          /\ doubtful' = doubtful \cup Overlap(s, i)
          /\ UNCHANGED acked
    /\ UNCHANGED <<booth, client, disk, up, lapsed, charged, offered, told, delivered>>

NewReceipt == Cardinality(mem.receipts) + 1
(* Mutant: the invoice names a receipt that is never stored.               *)
Settled_Bare(i) ==
    [mem EXCEPT !.inv[i] = [status |-> "paid", ful |-> "fulfilled", receipt |-> NewReceipt]]
(* What handlePay and confirmInvoice record of a fulfilment.  The latter   *)
(* does not set the status again.                                          *)
Settled(i) ==
    [mem EXCEPT !.inv[i].ful = "fulfilled", !.inv[i].receipt = NewReceipt,
                !.receipts = @ \cup {[id |-> NewReceipt, inv |-> i]}]

AgentPaid(i) ==
    /\ mem' = [mem EXCEPT !.inv[i].status = "paid",
                          !.receipts = @ \cup {[id |-> NewReceipt, inv |-> i]}]
    /\ delivered' = [delivered EXCEPT ![i] = @ + 1]

(* The agent has nothing to fulfil: its processPayment makes the receipt,  *)
(* with a placeholder for the token, and its handlePay records it.         *)
AgentVerified(s) ==
    /\ booth = "agent" /\ At(s, "verifying")
    /\ \E tokens \in Payments, accepted \in BOOLEAN :
          /\ ProcessPayment(tokens, accepted)
          /\ IF accepted
             THEN /\ AgentPaid(run[s].inv) /\ SaveState(s) /\ Goto(s, "savingPaid")
             ELSE Finish(s) /\ UNCHANGED <<mem, writes, delivered>>
    /\ UNCHANGED <<booth, disk, up, lapsed, charged, acked, offered, told, doubtful>>

(* config.fulfill mints the token or hands it to the buyer, somewhere else *)
(* and while the run awaits it; without one there is only the receipt.     *)
Deliver(s) ==
    /\ At(s, "fulfilling")
    /\ delivered' = [delivered EXCEPT ![run[s].inv] = @ + 1]
    /\ Goto(s, "recording")
    /\ UNCHANGED <<booth, client, mem, disk, writes, up, lapsed, charged, acked, left,
                   offered, told, doubtful>>

(* It has answered: the run goes on and records that.                      *)
Fulfilled(s) ==
    /\ At(s, "recording")
    /\ LET i == run[s].inv IN
       mem' = IF run[s].kind = "pay" THEN [Settled(i) EXCEPT !.inv[i].status = "paid"]
              ELSE Settled(i)
    /\ SaveState(s) /\ Goto(s, "savingPaid")
    /\ UNCHANGED <<booth, client, disk, up, lapsed, charged, acked, left, history>>

RecordFailure(s) ==
    /\ mem' = [mem EXCEPT !.inv[run[s].inv].ful = "failed"]
    /\ Goto(s, "savingFailed")

(* config.fulfill threw, before it delivered or after: handlePay only      *)
(* answers the error.                                                      *)
FulfilFails(s) ==
    /\ At(s, "fulfilling") \/ At(s, "recording")
    /\ Take("fault")
    /\ doubtful' = doubtful \cup {run[s].inv}
    /\ IF run[s].kind = "confirm"
       THEN RecordFailure(s) /\ SaveState(s)
       ELSE Finish(s) /\ UNCHANGED <<mem, writes>>
    /\ UNCHANGED <<booth, client, disk, up, lapsed, charged, acked, offered, told, delivered>>
-----------------------------------------------------------------------------
(* What handleStatus answers; tat says whether the token bought comes along. *)
Status(i) ==
    LET paid == mem.inv[i].status = "paid" IN
    [status |-> mem.inv[i].status,
     receipts |-> IF paid THEN Receipts(mem, i) ELSE {},
     tat |-> paid /\ mem.inv[i].ful = "fulfilled"]
(* The agent keeps no fulfilment, so it never has a token to show.         *)
AgentStatus(i) ==
    [status |-> mem.inv[i].status,
     receipts |-> IF mem.inv[i].status = "paid" THEN Receipts(mem, i) ELSE {},
     tat |-> FALSE]

(* The oldest write lands and the run that waits for it goes on: it ends,  *)
(* unless fulfilment is next, and confirmInvoice returns to the webhook.   *)
WriteLands ==
    /\ writes # <<>> /\ disk' = Head(writes).snap
    /\ writes' = Tail(writes)
    /\ LET s == Head(writes).by
           i == run[s].inv
       IN IF s = "operator" THEN UNCHANGED <<run, offered, told, acked>>
          ELSE /\ IF run[s].pc = "savingConfirm" THEN Goto(s, "fulfilling") ELSE Finish(s)
               /\ offered' = IF run[s].pc = "savingNew" THEN offered \cup {i} ELSE offered
               /\ told' = IF run[s].pc = "savingPaid" THEN told \cup {i} ELSE told
               /\ acked' = IF run[s].kind = "confirm" /\ run[s].pc # "savingConfirm"
                           THEN acked \cup {i} ELSE acked
    /\ UNCHANGED <<booth, client, mem, up, lapsed, charged, left, delivered, doubtful>>

(* A failed save answers an error; confirmInvoice takes a failed save of   *)
(* the receipt for a failed fulfilment.                                    *)
WriteFails ==
    /\ writes # <<>> /\ Take("fault")
    /\ LET s == Head(writes).by IN
       CASE s = "operator" ->
              writes' = Tail(writes) /\ UNCHANGED <<mem, run, doubtful>>
         [] s # "operator" /\ run[s].pc = "savingPaid" /\ run[s].kind = "confirm" ->
              /\ RecordFailure(s)
              /\ writes' = Append(Tail(writes), [by |-> s, snap |-> mem'])
              /\ doubtful' = doubtful \cup {run[s].inv}
         [] OTHER ->
              /\ writes' = Tail(writes) /\ Finish(s)
              /\ UNCHANGED mem
              /\ doubtful' = IF run[s].pc = "savingPaid" THEN doubtful \cup {run[s].inv}
                             ELSE doubtful
    /\ UNCHANGED <<booth, client, disk, up, lapsed, charged, acked, offered, told, delivered>>

(* addCatalogItem, removeCatalogItem and updateCatalogItem.                *)
ChangeCatalog ==
    /\ up /\ Take("catalog")
    /\ \E listed \in BOOLEAN : mem' = [mem EXCEPT !.listed = listed]
    /\ SaveState("operator")
    /\ UNCHANGED <<booth, client, disk, up, run, lapsed, charged, acked, history>>

Lapse(i) ==
    /\ i \in offered \ lapsed /\ lapsed' = lapsed \cup {i}
    /\ UNCHANGED <<booth, client, mem, disk, writes, up, run, charged, acked, left, history>>

Charge(i) ==
    /\ booth = "server" /\ i \in offered \ charged /\ charged' = charged \cup {i}
    /\ UNCHANGED <<booth, client, mem, disk, writes, up, run, lapsed, acked, left, history>>

(* A fulfilment that is cut short may have delivered or do so still, and   *)
(* storage shows nothing of it until its receipt is saved.                 *)
Crash ==
    /\ up /\ Take("fault") /\ up' = FALSE
    /\ doubtful' = doubtful \cup {run[s].inv : s \in {o \in Slots : 
                                       run[o].pc \in Unreceipted \cup {"fulfilling"}}}
    /\ run' = [s \in Slots |-> Idle] /\ writes' = <<>> /\ client' = "none"
    /\ UNCHANGED <<booth, mem, disk, lapsed, charged, acked, offered, told, delivered>>

(* _loadState, before the booth answers.                                   *)
LoadState ==
    /\ ~up /\ up' = TRUE /\ mem' = disk
    /\ UNCHANGED <<booth, client, disk, writes, run, lapsed, charged, acked, left, history>>

Step(s) ==
    \/ CreatePayment(s) \/ Quoted(s) \/ AgentVerified(s) \/ Verified(s)
    \/ Deliver(s) \/ Fulfilled(s) \/ FulfilFails(s)
Next ==
    \/ \E s \in Slots, i \in Invoices :
          \/ RequestInvoice(s, i) \/ Pay(s, i) \/ Confirm(s, i)
          \/ AgentInvoice(s, i) \/ AgentPay(s, i)
    \/ \E s \in Slots : Step(s)
    \/ WriteLands \/ WriteFails \/ ChangeCatalog
    \/ \E i \in Invoices : Lapse(i) \/ Charge(i)
    \/ Crash \/ LoadState
Spec == Init /\ [][Next]_vars

(* The event loop runs every ready continuation, the forge answers or the  *)
(* request to it times out, config.fulfill returns or throws, storage      *)
(* settles every call, a stopped booth is started again, and the provider  *)
(* repeats its webhook until it is answered.  The documented routes answer *)
(* 200 whatever confirmInvoice returns, and an error only when it throws.  *)
FairSpec ==
    /\ Spec
    /\ \A s \in Slots : WF_vars(Step(s))
    /\ WF_vars(WriteLands) /\ WF_vars(LoadState)
    /\ \A i \in Invoices : SF_vars(\E s \in Slots : i \notin acked /\ Confirm(s, i))
-----------------------------------------------------------------------------
(* In memory, in storage and in every write under way, an invoice that the *)
(* server records as fulfilled has the receipt it names, one that the      *)
(* agent records as paid has a receipt, and receipts have different ids,   *)
(* none above their number (handlePay, confirmInvoice).                    *)
Backed(state) ==
    \A i \in Invoices :
        /\ state.inv[i].ful = "fulfilled" =>
              [id |-> state.inv[i].receipt, inv |-> i] \in state.receipts
        /\ booth = "agent" /\ state.inv[i].status = "paid" => Receipts(state, i) # {}
Numbered(state) ==
    /\ IsFiniteSet(state.receipts)
    /\ \A r \in state.receipts : r.id <= Cardinality(state.receipts)
    /\ \A r, q \in state.receipts : r.id = q.id => r = q
CopiesOK ==
    /\ Backed(mem) /\ Numbered(mem) /\ Backed(disk) /\ Numbered(disk)
    /\ \A k \in DOMAIN writes : Backed(writes[k].snap) /\ Numbered(writes[k].snap)
(* A run waits for one write at most, and nothing outlives a crash.        *)
WritesOK ==
    /\ \A k \in DOMAIN writes :
          writes[k].by \in Slots =>
             /\ run[writes[k].by].pc \in SavePCs
             /\ \A j \in DOMAIN writes : writes[k].by = writes[j].by => j = k
    /\ ~up => writes = <<>> /\ \A s \in Slots : run[s] = Idle
    /\ booth = "agent" => charged = {}
(* What a copy says of an invoice whose receipt was saved.                 *)
Held(state, i) == state.inv[i].status = "paid" \/ i \in lapsed
Settles(state, i) ==
    /\ Receipts(state, i) # {} /\ Held(state, i)
    /\ booth = "agent" \/ state.inv[i].ful = "fulfilled" \/ i \in doubtful
(* A run that makes an invoice is alone with it, one that confirms a       *)
(* payment has recorded it, and while the receipt is saved memory, the     *)
(* write of the receipt and every later write show it.                     *)
RunOK(s) ==
    LET i == run[s].inv IN
    /\ run[s].pc # "idle" => i \in Invoices
    /\ run[s].pc = "quoting" =>
          /\ booth = "server" /\ i \notin offered
          /\ \A t \in Slots \ {s} : run[t].inv # i
    /\ run[s].pc \in Working \cup {"savingPaid", "savingFailed"} =>
          i \in offered /\ run[s].kind \in {"pay", "confirm"}
    /\ run[s].kind = "confirm" => i \in charged
    /\ run[s].kind = "confirm" /\ run[s].pc \in Working => Held(mem, i)
    /\ run[s].pc = "savingPaid" => Settles(mem, i)
RunsOK == \A s \in Slots : RunOK(s)
SavesOK ==
    \A s \in Slots, k, j \in DOMAIN writes :
        run[s].pc = "savingPaid" /\ writes[k].by = s /\ k <= j =>
            Settles(writes[j].snap, run[s].inv)
ToldOK ==
    \A i \in told :
        /\ Settles(disk, i) /\ (up => Settles(mem, i))
        /\ \A k \in DOMAIN writes : Settles(writes[k].snap, i)
(* One run at a time works on an invoice that nothing has gone wrong with, *)
(* and until that run delivers it, it is not delivered; once it is, its    *)
(* receipt is being made or saved, or was saved.                           *)
OnceOK ==
    \A i \in Invoices \ doubtful :
        /\ delivered[i] <= 1
        /\ delivered[i] # 0 =>
              \/ i \in told
              \/ \E s \in Slots : run[s].pc \in Unreceipted /\ run[s].inv = i
        /\ \A s \in Slots :
              run[s].pc \in Working /\ run[s].inv = i =>
                 /\ run[s].pc # "recording" => delivered[i] = 0
                 /\ \A t \in Slots \ {s} : run[t].pc \in Working => run[t].inv # i
(* Every copy has the receipts it names, every run and every write is as   *)
(* it should be, and what was told and delivered is recorded.              *)
IInv == TypeOK /\ CopiesOK /\ WritesOK /\ RunsOK /\ SavesOK /\ ToldOK /\ OnceOK

(* A run that saved a receipt and answered success stays true: the receipt *)
(* is in storage and in memory, and booth.status shows it, a server's with *)
(* the token if one run alone fulfilled the invoice, unless the invoice    *)
(* lapsed, after any crash, failed write or later run (_saveState,         *)
(* handleStatus).                                                          *)
Shown(i) ==
    IF booth = "agent" THEN AgentStatus(i).receipts # {}
    ELSE Status(i).receipts # {} /\ (Status(i).tat \/ i \in doubtful)
SettledStays ==
    \A i \in told :
        /\ Receipts(disk, i) # {}
        /\ up => Receipts(mem, i) # {} /\ (Shown(i) \/ i \in lapsed)

(* An invoice is delivered once, by whichever way of paying comes first,   *)
(* across repeated webhooks, failed saves and crashes, unless two runs of  *)
(* it overlapped, config.fulfill threw, the save of the receipt failed, or *)
(* a crash came after config.fulfill was called and before the receipt was *)
(* in storage (handlePay, confirmInvoice).                                 *)
DeliveredOnce == \A i \in Invoices \ doubtful : delivered[i] <= 1

(* A payment at the provider does not vanish: in the end it is delivered,  *)
(* the invoice has lapsed, or storage has the invoice with the fulfilment  *)
(* as failed and the provider has its answer, although crashes and failed  *)
(* saves interrupt its confirmations (confirmInvoice, BoothWebhookServer). *)
FailureKept(i) == i \in acked /\ disk.inv[i].ful = "failed"
ChargedIsDelivered ==
    \A i \in Invoices :
        i \in charged ~> (delivered[i] > 0 \/ i \in lapsed \/ FailureKept(i))
=============================================================================
