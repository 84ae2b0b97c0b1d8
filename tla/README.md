# TAT protocol: specifications, model checking and proofs

TLA+ models of the protocol's TypeScript packages (`src/packages/*`), the TLC
configurations that check them on small instances, and theorems about them
checked by TLAPS. Every definition is translated from the source; `map` in
`PROJECT.json` names the lines each one stands for.

Status: the forges, the request layer, both gates, the wallet, the booths and
the hash time-locks are modelled and checked. Proved, for any number of users, runs
and faults: the safety properties of both forges, of the request layer, of both gates,
of the wallet and its coin selection, of both kinds of booth and of the time-locks, and
that the forge implements the abstract ledger. Section 6 lists what the code does
against its own comments and documents, section 7 what is left out.

## 1. The system

TAT tokens are signed payloads that travel in gift-wrapped Nostr events. A
*forge* issues them and is the only judge of whether one has been spent; a
*pocket* holds them; a *gate* grants access against them; a *booth* sells them
or sells for them. All of these are NWPC peers or servers: a request is an
event, handlers run in one JavaScript process, and two handler runs interleave
at every `await`.

| Component | State | Operations | Interacts with | Model |
|---|---|---|---|---|
| `FungibleForge`, `ForgeBase` (`forge`) | spent set, circulating supply, authorised forgers, processed events; the spend lock; a copy of the state in storage | `forge`, `transfer`, `burn`, `verify`, add and remove a forger, initialise | called by the NWPC server for each event; saves through `NWPCBase.saveState`; tokens go out by `res.send` | `FungibleForge`, `TokenLedger` |
| `NonFungibleForge` | the same, and the last asset id | the same for tokens with ids | the same | `NonFungibleForge` |
| `NWPCBase`, `NWPCServer` (`nwpc`) | processed events (LRU and Bloom filter), save queue, subscriptions | deliver, mark, queue a save, answer | relays; handler classes | in each module that is driven by events |
| `NWPCPeer` | table of pending requests with timers | request, publish, retry, take a reply | relays; pocket, booth agent | `NWPC` |
| `NWPCRouter`, `HandlerEngine` | routes, the current chain | add a route, execute a chain | server; `tokenAuth` | `NWPC` |
| `tokenAuth` | none of its own | authenticate, charge, mark the token spent | callbacks of the service | `NWPC` |
| `Pocket`, `Transaction` (`pocket`) | tokens, indexes and balances, single-use keys, favourites | receive, delete, re-index, spend, derive and recover keys | forges (requests, spent notices) | `Pocket` |
| `Token`, `TokenValidator` (`token`) | one token | build, restore, hash, sign, validate HTLC and time locks | everybody | `HTLC`; identity and validity in the others |
| `GateServerSpec` (`gate`) | challenges, used nonces, sessions | issue a challenge, verify a proof, open a session, clean up | NWPC server; service | `GateServer` |
| `GateBase`, policies, strategies (`gate`) | redemptions, blocks; uses and policy lists in memory | validate, consume, block, reset | forge (spent check); service | `GateAccess` |
| `BoothServerSpec`, `BoothAgent`, `BoothWebhookServer` (`booth`) | catalog, invoices, receipts | invoice, pay, confirm, fulfil, status | forge, payment adapters, webhooks | `BoothInvoices` |
| `BoothServer`, `BoothBase`, `TATPaymentProvider` (`booth`) | orders, payments, inventory, receipts, refunds | create, pay, verify, fulfil, refund, cancel | payment providers | `BoothOrders` |
| Storage back-ends (`storage`) | key to value | get, set, remove | everything with a state | `disk` and `writes` of each module |
| `BloomFilter`, Nostr wrapping, signers, `hdkeys`, `tdk`, `config` | none or constants | pure helpers, cryptography, factories | everything | none |

### What is hard, and what makes each part correct

* **Forge.** Checks and effects are separated by awaits; several saves of one
  key overlap; a save may fail or the process die between marking a token,
  saving it and answering; relays deliver an event more than once and again
  after a restart. Correct means: a token is consumed at most once in its life,
  what was consumed is in storage before anything cut from it leaves, no value
  appears, an id has one holder, revocations last, no run waits for ever.
* **NWPC.** Replies race timers and retries; a router shares one chain engine
  between requests. Correct means: each request is settled exactly once and
  leaves no handler behind, a request runs the chain of its own route, every
  request taken up is answered.
* **Gate.** A nonce is checked before an await and marked after it; the
  session is saved apart from the nonce; relays replay old proofs to a
  restarted gate. A token is validated, asked about and consumed in separate
  steps. Correct means: a proof that comes after a session is refused, a valid
  proof gets its session, a session lasts until it expires; a block holds, a
  token is used as often as allowed.
* **Pocket.** Indexes are rebuilt across awaits from a copy; notices and tokens
  arrive in any order; the key index must never go back. Correct means: the
  wallet holds what it was sent and did not spend, indexes and balances agree
  with the tokens, no key is given out twice or lost.
* **Booth.** Pay, confirm, cancel and refund act on one record across awaits.
  What is delivered is delivered elsewhere, before the booth records it. Correct
  means: an invoice is fulfilled once and only against value received, what a buyer
  was told stays true, money taken is delivered for or the failure is on record.
* **HTLC.** Two clock units, two windows and an expiry meet at one token. Correct
  means: a forge transfers a token exactly while its locks allow it, and none that
  a preimage still opens.

`hazards` in `PROJECT.json` lists these at their lines, with the properties
that cover them.

## 2. Modules

Every module that models a process is built alike. `mem` is the object in
memory, `disk` what storage holds under its key, `writes` the `setItem` calls
that have not settled, each with the snapshot serialised at the call and the run
that awaits it. `run` says where each handler run stands; an action is the code
between two awaits. `left`, `faults` or `bound` count what clients and faults may
still do. Variables marked *history* in the modules are read by properties only,
or keep clients to messages they can have.

| Module | What it is |
|---|---|
| `FungibleForge` | the forge with the parts of NWPC and storage that drive it |
| `TokenLedger` | the abstract specification: what a forge promises |
| `FungibleForge_proofs` | sequences and sums; control, storage, spending and revocation; funds; the ledger |
| `NonFungibleForge` | unique tokens: ids, transfers to several recipients, supply |
| `NonFungibleForge_proofs` | the lock, storage, ids and the supply of unique tokens |
| `NWPC` | a peer's calls, relays, and a server with its shared engine and `tokenAuth` |
| `NWPC_proofs` | handlers and promises, chains that were not overtaken, charges |
| `GateServer` | the gate agent: challenges, proofs, sessions, its saves and restarts |
| `GateServer_proofs` | types, replay and sessions of the gate |
| `GateAccess` | admission by token: checks, blocks, uses, redemptions |
| `GateAccess_proofs` | steps of a call, storage, blocks, uses and spent tokens |
| `Pocket` | the wallet: events, indexes, keys, recovery, coin selection |
| `BoothInvoices` | invoices of `BoothServerSpec` and of the older `BoothAgent` |
| `BoothInvoices_proofs` | receipts are kept, what was answered stays, one delivery |
| `BoothOrders` | orders of `BoothServer`, with its provider |
| `BoothOrders_proofs` | every stored order is backed, none is left half way |
| `HTLC` | contracts on tokens, and what a forge asks of such an input |
| `Holder_proofs` | what a holder relies on: the wallet's tokens, indexes and keys; contracts, and when a forge transfers a token under one |
| `MC*` | instances for TLC; one `.cfg` per question |

### `FungibleForge`: state and actions

| Variable | In the code |
|---|---|
| `mem` | `ForgeBase.state` with `processedEventLRU` and `processedEventBloom`: spent set, circulating supply, forgers, processed events |
| `writes` | saves under way, by a run, a key (an operator's call), the save queue, or nobody ("orphan") when the caller has given up |
| `savesQueued` | saves chained on `NWPCBase.saveLock` |
| `queue` | callbacks chained on `ForgeBase.spendLock`, the running one first |
| `run` | where each handler run stands, the event it handles, the tokens it has built |
| `phase`, `now`, `faults` | up, crashed, or loaded and not yet subscribed; the clock in seconds; crashes and failed writes so far |
| `req` | the request inside each event |
| `released`, `settled`, `minted`, `burnt`, `revoked` | history for the properties, read by no guard except that clients spend only released tokens |

A handler is cut at its awaits, and each piece is an action:

* mint: `MintCheck` (authorisation, amount, cap, payload), `MintBuilt` (after
  `await token.build`: the count), `MintSend`;
* transfer: `Enqueue` (`runExclusive`), `TransferValidate`, `TransferSign`
  (outputs and change), `TransferMark` (all inputs marked, one save each),
  `TransferSettle` (the awaited saves have landed), `TransferSend` (one output
  each), `TransferReturn`;
* burn: `Enqueue`, `BurnMark`, `BurnSettle`; `Verify` reads only;
* around every handler: `Deliver` (duplicate check), `FinishEvent` (mark and
  queue a save), `EndOfStoredEvents`, `StartQueuedSave`;
* operator: `AddForger`, `RemoveForger`;
* storage and process: `WriteLands`, `WriteFails`, `Crash`, `LoadState`,
  `Subscribe`.

The marks of `TransferMark` form one action because only microtasks of the same
run lie between them: the hash of a token is computed synchronously. Each of
them starts a save of its own, so the i-th snapshot holds the first i inputs,
and the first save that fails rejects the `Promise.all` while the others go on
(`Abandon`). `MintCheck` and `MintBuilt` are two actions because a microtask
does lie between them and two events of one socket read are handled in step.

Abstractions. A token is its payload; two tokens with equal payloads are the
same token, as in the code, where the hash is computed from the payload alone.
Clients present tokens the forge released, and a Boolean says whether the
witnesses are accepted; hashes and signatures that do not verify end like a
missing witness. HTLC conditions and `exp` are the subject of `HTLC`; `data_uri`
is left out. Amounts are integers, where the code has floating-point numbers.
The Bloom filter is an exact set: false positives, which drop fresh events, are
not modelled. A send that throws is modelled for recipients that are not keys; a
send that no relay takes is answered like one that is delivered
(`sendResponse` resolves after 3 s), which the model does not tell apart.
Spent notices to the sender and to the relays change no state of the forge and
are left out. Storage that fails does so in `setItem`; a failed
`loadState` stops the start and is the same as a later restart.

### `TokenLedger`

Four variables: `coins` handed out, `void` (exchanged or burned), `credit`
taken in and not yet paid out, and `supply`. A coin is voided once, nothing is
paid out beyond the credit, a crash forfeits credit. `FungibleForge` implements
it with `coins <- released`, `void <- settled`, `supply <- minted - burnt` and
`credit <- Credit`, what the committed transfer still has to send: there is one
at a time, by the run at the head of the lock's queue. TLC checks it in `spend`, and
`LedgerTheorem` proves it.

### `NonFungibleForge`

`mem` holds the spent set, the circulating count and the last id. `strategy` and
`totalSupply` are the configuration, drawn in `Init`.

* mint: `MintCheck` (supply, id), `MintBuilt` (count), `MintSigned` (save),
  `MintSend`;
* transfer, under the lock: `TransferValidate`, then for one recipient after the
  other `TransferRecipient` (the first unused input of the id), `TransferMark`,
  `TransferSave`, `TransferSend`; a bad entry ends the run and leaves what
  earlier recipients were given; `TransferReturn`;
* burn: `BurnMark`, `BurnSettle`, then outside of the lock `BurnCount`,
  `BurnReturn`;
* `QueuedSave`, `WriteLands`, `WriteFails`, `Crash`, `LoadState`, `Tick`.

`NumericId` is the conversion `Number(tokenID)`, by what it does to the ids of
both strategies. Witnesses, time locks and redelivery are left to `FungibleForge`.

### `NWPC`

| Variable | In the code |
|---|---|
| `call` | what each `NWPCPeer.request` asks, where it stands, its promise |
| `handlers` | `responseHandlers`, each entry with its timer |
| `link` | the peer's sockets: live, dead, or stale (dead and not noticed) |
| `stored`, `answers` | requests and answers that relays hold, or may lose |
| `engine` | the chain that `HandlerEngine` was given last |
| `run`, `marked` | the server's handler runs, the requests it has marked |
| `spent` | the tokens that `markTokenSpent` recorded |

Peer: `Request`, `Connect` (`ensureConnected`), `Published`, `PublishFails`,
`RepublishFails`, `Timeout`, `Answer`, `LinkLost`, `Keepalive`. Server:
`Receive`, `Dispatch` (`router.handle`), `Log` (a middleware with an await),
`Auth`, `AuthRead`, `AuthNext`, `MarkToken` (`tokenAuth` before and after
`next()`), `Serve`, `Throws`, `Return`, `Finish`. `Continue` is `next()`: it
reads the chain installed now at the run's own index. Three routes stand for all:
a handler alone, one behind a middleware, one behind `tokenAuth`; a fourth name
has no route. The static checks of a payment token are one verdict.

### `GateServer`

| Variable | In the code |
|---|---|
| `mem` | `GateServerSpec.state`: challenges, used nonces, sessions |
| `phase` | up, crashed, or subscribed before the state is loaded |
| `run`, `msg` | where each handler run stands, the request inside each event |
| `processed` | the events the NWPC server has marked; memory only, since `NWPCServer` never loads its state |
| `asked`, `expires` | requirements and `expiresAt` of each challenge |
| `issued`, `offered`, `opened`, `granted` | history: nonces drawn (a random nonce is never drawn twice), challenges received, sessions made, sessions received |

* request: `RequestAccess` (`IssueChallenge`, set and saved), `RefusePattern`,
  `SendChallenge`;
* proof: `CheckProof` (known, unused, not expired), `MarkNonce` (after `await
  verifyProof`, whatever its verdict), `OpenSession` or `Refuse`, `Grant`;
* verification: `VerifyProof` by mode; `VerifyFullProof` with
  `CheckRequirements` and `CheckOperator`, `VerifyMinimalProof`;
* around them: `Deliver`, `HandleUnloaded` (a request that comes before
  `_loadState` throws, is answered an error and marked), `FinishEvent`;
* `SendFails`, `WriteFails`: the handler's `catch` answers an error and takes
  nothing back;
* `CleanupExpired` (the timer) and `VerifySession` (a call of the service) drop
  what has expired from memory and save nothing;
* `WriteLands`, `Crash`, `Subscribe`, `LoadState`.

A token that a proof shows is a record of what the checks ask of it; a pattern is
judged by what the gate does with it (stalls, does not compile, matches); tiers
are numbers that stand for their place in the order of strings, which is how the
code compares them. `verifyProof` catches its own exceptions, so it has no third
outcome. Who sends a proof is not recorded: a challenge does not bind its
requester in the code either. `KeepExpired` stands for the hour an expired
challenge is kept; with 0 the clean-up can meet a proof in verification. The save
of an empty state by a gate that finds none is left out; it changes nothing when
writes keep their order.

### `GateAccess`

`mem` is `GateState` (redemptions, blocked tokens); `uses` is the strategy's map
and `denied` the policy's list, both memory only; `spent` is the forge's.
`grantAccess` is `Present`, `PerformBasicValidation`, `EvaluatePolicy`,
`ValidateUse`, `ForgeAnswer` (refuses, accepts, or throws), the awaited save of
the attempt, `Consume` and the awaited save of the redemption. `RecordAttempt`
ends a refused call. `verifyToken` is the same without `Consume`. The operator:
`BlockToken`, `UnblockToken`, `ChangePolicy`, `ResetUsage`. `WriteFails` follows
the `try` blocks: the save of a forge's refusal lies inside the block whose
`catch` takes every exception for a forge out of reach. Hash, signature, expiry,
hours and rules are checks that may refuse any token (`Check`). `sealed` holds the
tokens whose `blockToken` has returned with no `unblockToken` called after it
(`Lasting`).

### `Pocket`

| Variable | In the code |
|---|---|
| `mem` | `PocketState`: tokens of one issuer in the order of their Map, `index` (`tokenIndex` and `balances`, which one pass computes: an entry for each visit of a token), single-use keys, key counter, mnemonic, processed events |
| `hd` | the mnemonic `hdKey` was made from |
| `listening`, `oneShot` | keys subscribed to; those whose handler unsubscribes |
| `pending`, `requests` | `responseHandlers`; what was published to the forge |
| `events`, `consumed`, `issued` | what relays hold for the wallet; the issuer's spent set and count |
| `backups`, `handed` | recovery snapshots; addresses given to callers |

Events: `Deliver` (duplicate check, key found or recovered), `Unwrapped`
(marked), `Store` or `Delete`, the rebuild, `Saved`, `Reply`. Rebuild:
`StartRebuild` and one `Rebuild` per restored entry, over a Map that other runs
change: `Added` and `Deleted` do to a live iterator what JavaScript does, and
`Detached` says its Map was replaced. `Visit` files a token in the new Map, where a
second visit finds it, and lists it in the new index, where a second visit lists it
again; `returned` records that a token came back to a rebuild that had visited it. Keys: `NewReceiveAddress`, `AddKey`,
`RemoveKey`, `Export`, `Restore`, `RestoreKeys`, `RestoreCounter`. Paying:
`Transfer`, `Build` (any selection with the best sum), `Witness`, `Settle`, with
the forge's `Answer`. Others: `SpentNote`, `ImportToken`, `Reconcile`,
`SpendElsewhere`, `EndOfStoredEvents`, `Crash`, `Load`. `Reached` is the search
of `Transaction.greedy`, for each denomination the function from a sum to what the
rest of the search reaches from it; `SelectionMinimal` compares it with the least
covering sum over all subsets, on every wallet of the run.

### `BoothInvoices`

`booth` is the class that runs. `mem` holds the catalog (the item listed or not),
invoices (status, fulfilment, receipt) and receipts; `client` is `forgeClient`
with its one `init` promise. `RequestInvoice`, `CreatePayment` (one adapter each),
`Quoted`; `Pay`, `Verified` (`ProcessPayment`: `TokensGood`,
`VerifyTokensNotSpent`, `Enough`); `Confirm` (the webhook's call). Fulfilment is two
steps: `Deliver` is what `config.fulfill` does elsewhere while the run awaits it,
`Fulfilled` the run's going on, which records it and starts the save; `FulfilFails`
comes before the first or between the two, and so may a `Crash`. `Status`;
`ChangeCatalog`; `Lapse` and `Charge` are the clock and the provider. The price is
drawn from `Prices` when the tokens are counted, because invoices share the item
object that `updateCatalogItem` changes. `acked` holds the payments whose webhook was
answered, which is when `confirmInvoice` returns, whatever it returns. `AgentInvoice`,
`AgentPay`, `AgentVerified`, `AgentStatus` are those of `BoothAgent`, which records a
receipt and fulfils nothing.

### `BoothOrders`

`mem` holds orders, payments in the order of their Map, receipts, refunds;
`provider` is `TATPaymentProvider.pendingPayments`, in memory only.
`HandleCreateOrder`, `CreateOrder`; `HandleInitializePayment`,
`InitializePayment`; `ProcessTATPayment`, `TokensValidated`, `CancelPayment`;
`HandleVerifyPayment`, `VerifyPayment`, then through the saves that
`processOrderFulfillment` awaits (`savingPaid`, `savingConfirmed`, `FulfillOrder`,
`savingFulfilled`, `savingReceipt`); `HandleCancelOrder`, `HandleRequestRefund`,
`ProcessRefund`, `Refunded`. A failed save inside the `try` block of the
fulfilment marks the order failed (`WriteFails`).

### `HTLC`

`token` is the payload of each token, `spent` how it was spent. `ValidateHTLC`,
`RedeemHTLC`, `CanRefund`, `ValidateTokenHTLC` are the functions of the `token`
package; `ContractAccepts` and `InputAccepted` are what `validateTXInputs` asks of an
input. Both `transferToken` call it without a secret (`FungibleForge.ts:96`,
`NonFungibleForge.ts:105`), so a contract is accepted only when it may be refunded;
`RedeemHTLC` is a function that applications can call. `CreateHTLC`, `CounterHTLC` and
`Lock` issue tokens, `TransferInputs` spends several at one time, `HandleBurn` one whose
locks it does not look at. Timelocks are in clock units, `timeLock` and `exp` in seconds
(`PerSecond`), as in the code. `InItsTime` says in milliseconds when a token may be
transferred and belongs to the properties.

## 3. Runs

| Run | Instance | States | Checks |
|---|---|---|---|
| `spend` | 2 overlapping runs, 2 events: transfers and burns of up to 2 of 2 coins; 1 crash or failed write | 728 000 | `IInv`, `NoReplay`, `NoInflation`, `SpendOnce`, `LedgerSpec` |
| `mint` | 2 runs: mints and verifications while a forger is revoked and restored; a queued save, 1 fault, a recipient that is no key | 189 000 | `RevocationSticks` |
| `live` | 2 runs, 2 events, 1 fault, sends that throw | 141 000 | `RunsFinish`, `EventsHandled` |
| `nft` | 2 runs, 2 requests over 2 tokens and new ones, both strategies of ids, supply 3, 1 fault, 2 instants | 2 120 000 | `IInv`, `OneHolder`, `CirculatingCovers`, `OverrunBounded` |
| `nwpc` | 2 calls, 1 payment token: 3 routes and 2 runs without a fault, or 1 route or none, 1 run and 1 fault | 240 000 | `IInv`, `OwnChain`, `PaidOnce`, `CallsSettle`, `RequestsAnswered` |
| `gate` | 2 runs, a request and a proof, each perhaps redelivered; 3 requirements, 3 proofs, 1 fault, clock to 2 | 377 000 | `IInv`, `SessionsKept`, `ReplayRefused`, `GoodProofGranted` |
| `access` | 1 token, limit 2, 3 overlapping calls, three workloads | 340 000 | `IInv`, `BlockHolds`, `UsesLimited`, `SpentRefused` |
| `refusal` | 2 calls, a token the forge refuses, 1 failed write | | `RefusalSticks` fails, see section 4 |
| `pocket` | 2 overlapping runs under five workloads and 3 under a sixth, 2 seeds, amounts 1 and 2 | 1 350 000 | `IInv`, `KeepsTokens`, `AddressReachable`, `SelectionMinimal`, `AddressFresh` |
| `invoices` | 1 invoice at either booth, 7 lists of tokens, 1 provider, 2 runs, 2 faults | 373 000 | `IInv`, `SettledStays`, `DeliveredOnce`, `ChargedIsDelivered` |
| `orders` | 1 order, 2 payments, 2 runs, three workloads | 124 000 | `IInv`, `NoneLeftHalfWay`, `CollectedIsFulfilled` |
| `locks` | 2 tokens under contracts or bare hashes, time locks, expiries and keys, 2 parties, clock to 5 | 1 410 000 | `HTLCInv`, `TransferableInTime`, `RefundOnly` |

Clients, buyers and holders may stop asking and the clock ends at a bound, so a
final state is legal everywhere and deadlock is not checked. Symmetry is declared in
runs of safety properties only.

### Bounds, and why they are enough

Bounds that stand in guards: `MaxTime`, `MaxFaults`, `MaxQueuedSaves` (saves at
the end of stored events only), `MaxIns`, `MaxOuts`, `MaxRequests`, `MaxCalls`,
`MaxPays`, `MaxRepeats`, `MaxCatalog`, and the counts of `Bounds` and
`Workloads`. None stands for anything in the code; all other actions are
unbounded.

* `spend`. A double spend needs two requests that share an input, hence two events
  and two runs. A transfer of two inputs and one of each overlap in part. Two
  saves of one run and one of another give every order of writes. One fault can
  hit any step; what a second adds is covered by the theorems, which have no bound,
  as are malformed recipients and amounts of zero, which this instance leaves out.
* `nft`. Two recipients and two inputs: the first is served and the second is bad;
  two ids compete for one recipient. Two old tokens and one mint reach the supply, a
  second overlapping mint overruns it. Ids drawn twice need two mints and a crash
  between the draw and the save. Only a token being made reads the clock: the run
  leaves out the ticks before the first and after the last (`TellingTicks`).
* `nwpc`. An engine is taken over by one other request. A call can be lost with
  its socket, retried once, and answered late or twice within two calls and one
  fault; faults and overlapping runs are two instances, since each fills the
  space. One token is enough to be charged twice.
* `gate`. Two events are a request and a proof; each is delivered again after a
  restart. The clock passes the expiry of the challenge, its removal, and the
  expiry of the session. Requirements and proofs hold one that meets all, one that
  fails by its tier, one refused for its pattern, and a claim. Challenges meet only
  in the saves they share: a second adds nothing the theorem does not cover.
* `access`. Three calls with a limit of 2 can overrun it, and five grants with a
  reset use it up again; a block meets calls on both sides of the check, other
  saves, a failed write and a restart; spending at the forge meets a change of the
  policy and a failed write. The workloads are apart because the lists of the
  policy, the strategy and the gate are.
* `pocket`. One issuer, since issuers share only the keys. Two runs of a rebuild
  against a store or a delete change the Map under an iterator. Workloads: events,
  a spent note, a reconciliation and a crash; keys with a failed write and a crash; a
  payment with change; two payments after the same coin; a payment to a single-use
  key that is then removed. A token that a rebuild visits twice has to be deleted and
  stored again behind it by two other runs, which the sixth workload does with three
  runs, an import and equal amounts (`runs` and `most` of a workload are bounds in
  `Room` and `Pay`). Two seeds, because `restoreKeyMaterial` may bring another one.
* `invoices`, `orders`. Runs on different invoices or orders share nothing but the
  saves, which keep their order. Two payments, a cancellation, a refund decided
  twice, a failed fulfilment, failed writes and a restart are the events that
  overlap in an order; token payment, webhook, its repetition, lapse, a changed
  catalog and two faults in an invoice.
* `locks`. Two tokens of one request, each with a contract, a bare hash or neither;
  timelocks of 0 to 7 (2 or 4 after the token is made, or 0, 2 or 4 by hand), time locks
  and expiries of none or 2 seconds; the windows of the code (30 and 365 days) are scaled
  to 2 and 3 and the unit of seconds to 2, so that each boundary falls inside the clock.

### Fairness

Liveness properties assume weak fairness of what the run time does by itself, and
nothing of clients, operators, the clock, crashes and failures:

* the event loop runs each ready continuation (all handler steps);
* storage answers each call (`WriteLands`; a write it fails is bounded by the
  faults);
* the save queue chains on settled promises (`StartQueuedSave`);
* the operator restarts what crashed (`LoadState`, `Subscribe`);
* `live`, `gate`: a relay delivers a stored event to a subscriber, and again when
  the server has subscribed anew (`Deliver`). This holds for events younger
  than the ten minutes of the subscription's `since` (`NWPCBase.ts:343`). An older
  one is lost, and `EventsHandled` does not speak of it. `GoodProofGranted`
  speaks of a valid proof that has passed the check when faults are over;
* `nwpc`: timers fire, and a publish ends by its own timeout; no connection
  and no answer is assumed, since `CallsSettle` must hold without them;
* `invoices`: a provider repeats its webhook until it is answered (strong fairness of
  `Confirm` for an invoice that was charged and not `acked`). `BoothWebhookServer`
  answers 500 when the route throws, which it does when a save that `confirmInvoice`
  awaits fails, and a crash answers nothing. When `confirmInvoice` returns, be it
  `{success: false}`, the documented routes ignore the result and answer 200
  (`packages/booth/README.md:68`, `docs-site/docs/sdk/booth.md:147`), so nothing is assumed
  afterwards. `config.fulfill` returns or throws in the end;
* `orders`: the buyer goes on asking for the status of a payment (strong fairness of
  `HandleVerifyPayment`): nothing else in `BoothBase` resumes an order.

## 4. The violation

`refusal`: `validateToken` asks the forge inside a `try` whose `catch` goes on with
"Forge validation failed, falling back to offline mode" (`GateBase.ts:209`). The
`await recordAttempt` of the forge's refusal lies in that block, so a save that
fails is taken for a forge out of reach, and the token it refused is answered
"All checks passed". `SpentRefused` says what is left: such a token is admitted
only when the forge was not reached or that save failed.

## 5. Theorems

Proved by TLAPS for every value of the constants under the named assumptions of
each module (natural bounds, sentinels that are not members), for any number of
users, runs, events and faults.

**`FungibleForge`**

* `ControlCorrect`: `Spec => []ControlInv`, no assumption on storage. `TypeOK`;
  requests have the shape of their method; a run past its spent check is the
  head of the lock's queue (`LockOK`); pending saves belong to runs that await
  them (`WritersOK`). `TypeCorrect` follows.
* `StoreCorrect`: if storage keeps the order of writes (`OrderedWrites`),
  `Spec => []StateInv`, which adds storage, spending and revocation;
  `NoReplayTheorem`, `SpendOnceTheorem`, `RevocationTheorem` follow.
* `ForgeInvariant`: under the same assumption `Spec => []IInv`, which adds the
  funds; `NoInflationTheorem` follows, and `LedgerTheorem`: `Spec => LedgerSpec`.
* `AnyStorageTheorem`: without that assumption, as long as the process lives
  (`[][~Crash]_vars`), the forge implements the ledger, consumes no token twice,
  creates no value and accepts no revoked key, whatever saves fail or land late.
* `SupplyTheorem`: the count of what was minted, in memory and in storage, exceeds
  `totalSupply` by at most the largest amount of a request for each run but one,
  through any crashes. `MintedTheorem`: until a restart the same bound holds for the
  value minted, all of which is counted. Both ask for a cap, a bound on the amounts,
  and initial tokens within the cap (`Capped`).
* `NobodyStuckTheorem`: whoever waits for the spend lock waits for a run that can take
  its next step or awaits a save that storage has not settled. `InTurnTheorem`: nobody
  overtakes it, and each step of the run with the lock, a failed save included,
  brings that run nearer to leaving. No assumption on storage.

`NoReplay` alone is not inductive: a write that lands replaces the whole of
`disk`. `StoreOK` says that spent sets form a chain, storage, then the pending
snapshots in their order, then memory; a write that lands or is dropped keeps
the chain, and a restart from storage starts a new one. `SpendOK` says what a run
may rely on: while it holds the lock and has not marked, its inputs are unspent in
memory; once it has marked them, each is in storage or in a snapshot of its own that
is still pending, so when no snapshot of its own is pending they are in storage. A
save that fails makes the run give up, so the obligation lapses with it. Both need
`LockOK` (nobody else marks meanwhile, at most one run is past the check) and
`WritersOK` (a snapshot named after a run implies that run is still saving).
`SpendOnce` follows because `settled` is within `disk.spent` and hence within
`mem.spent`, from which the inputs were disjoint. `RevokeOK` is the same chain
argument for a key that was taken out.

`FundsOK` counts value. `Balanced` says that the coins handed out and not consumed,
with the credit of the transfer that is sending, are worth at most what was
minted and not burned. It needs `Funded`: a run that has signed its outputs has built
exactly the worth of its inputs, each amount positive, and its inputs are different
coins. `NoInflation` follows because what is unspent in memory was not consumed
(`StoreOK`). The mint adds to both sides, the commitment turns inputs into credit, each
send credit into a coin, or into nothing when the same payload was released before,
and a failed send or a crash forfeits credit. Read as steps of the
ledger these are `Mint`, `TakeIn`, `PayOut`, `Burn` and `Forfeit` (`LedgerStep`); all
others stutter.

`MemoryOK` replaces the chain where nothing is assumed of storage. What protects an
input is that it is spent in `mem`, where nothing but a restart removes it: memory
holds the inputs of every run that has marked them, and of everything settled. So
storage without order does harm only through `LoadState`, and just there
`OrderedWrites` is needed.

`SupplyOK` is the argument for the cap. Between its check and its count a mint does not
see the others, so each of them may have passed on the same count. Either there is
room for a mint by every run but one of those that are not building, or the last run
to check still has room for its own amount and for one mint by each run that is
not building; a run that counts and leaves passes its room on. A crash loses counts and
building runs together. `CountedOK` adds up, over all runs, what is counted and not
yet sent (`Due`), which shows that memory counts all that was minted.

`NobodyStuck` and `InTurn` are the safety side of `RunsFinish`: with weak fairness of
handler steps and of writes they leave a run no way to wait for ever, since the queue
before it only shortens and its head always descends. The step from them to `RunsFinish`
is the one left to TLC. What they rest on is in `LockOK` (whoever waits is in the
queue, once) and `RunsOK` (with a request that is served there).

The sums are those of the community modules, folds that choose an order of
the set. That they do not depend on the choice, split over disjoint sets and agree with the
sum over a sequence of distinct coins needs induction over finite sets, which no
installed prover can do with the library's theorems. `LeastOf` (a set of naturals with a
member has a least one) takes its place: from a least counterexample one
element is removed, and what is left is a smaller one (`AnyOrder`, `SumSplits`, `SeqSum`).

**`NonFungibleForge`**

* `NonFungibleInvariant`: `Spec => []IInv`, for both strategies of ids, any supply, and
  any number of tokens, runs, requests, crashes and failed writes.
* `OneHolderTheorem`: of two tokens with one id, one is spent, in memory and in what a
  restart would load. `OverrunTheorem`: the supply is exceeded by fewer tokens than
  there are runs. `CoversTheorem`: the count of circulating tokens covers those that
  were handed out and are not spent, in memory and in storage.
* `NobodyStuckTheorem`, `InTurnTheorem`: as for `FungibleForge`, with a transfer that
  serves one recipient after another and saves twice for each. The run with the lock
  comes nearer to leaving by a recipient served or a step towards serving the next,
  and there are only as many as its request names.

Saves land in the order of the calls, which is part of this model, and `StoreOK` is the
chain of `FungibleForge` with the last id added to it. `ReleasedOK` says what leaves the
forge: its ids are below the last id *in storage*, and of each id one token at most is
not marked *in storage*. It is kept because of what a run knows before it sends: a mint has
an id that no token and no other mint has, and once it has no write pending that id is
below the stored last id (`MintOK`); a transfer holds the lock, every other token of the
id was marked in storage before, and its own predecessor is when it sends
(`TransferOK`). `RunStep`, `LockStep` and `SupplyStep` list what a step of a run can do,
so that the conditions on the other runs are shown once for all actions. The
overrun counts what is in circulation together with the mints that have
passed the check and are not counted yet; a mint passes it below the limit,
beside at most the other runs. `CoverOK` adds, to the spendable tokens of each copy of
the state, the runs that owe it a token: in memory, those that have counted a mint and not
handed it out, those between the mark of an input and the token that replaces it,
and burns not counted yet; in storage and in each snapshot, only those runs
whose own write is already part of that copy (`DueBy`), since nobody hands a token out before
its write has landed. `WaitOK` adds for the lock that whoever waits is in the queue
and that a forged token has a recipient; `Turn` is what a step of a run does to the
queue and to itself.

**`NWPC`**

* `RequestsInvariant`: `Spec => []IInv`, for any calls, tokens, runs, faults and either
  kind of bound. `CallsOK` ties an entry of `responseHandlers` to the promise of its
  call: there is one exactly while the promise is pending, whichever of answer, timer,
  failed publishing and lost socket came first.
* `OwnChainTheorem`: a run goes through its own chain, unless the chain of another
  request was installed while it awaited; a route of one handler always does.
* `PaidOnceTheorem`: a call taken up when its token was marked is not served, unless
  it was led past `tokenAuth` by another chain.

`OwnChain` is a statement about the past of a run and not inductive: what is kept
(`Following`) is that an undisturbed run's chain is the one in the engine, and that the
run stands on it at the handler its state names (`Along`). `Dispatch` replaces
the engine and marks every other run on a different chain as disturbed, so
that nothing is claimed of it but for single handlers, which never call `next()`.
`Charged` says of a late call that its token stays in `spent`, which only grows, so that
`AuthRead` stops it.

**`Pocket`**

* `PocketInvariant`: `Spec => []IInv`, for any tokens, amounts, mnemonics, snapshots,
  overlapping runs, failed writes and crashes.
* `KeepsTokensTheorem`: a settled wallet in which no two rebuilds overlapped holds the
  tokens it stored and did not delete, no more and no fewer.
* `AddressFreshTheorem` (an action property): a key that is derived is neither a
  durable one nor one that another run holds. `AddressReachableTheorem`: a durable key
  can be recovered. Both speak of wallets whose counter was not turned back by
  `restoreKeyMaterial`.
* `SelectionTheorem`: for every wallet and amount the search of `greedy` finds the least
  sum of held tokens that covers the amount, and none only if there is none.

`RunOK` says that what a rebuild lists is what it has filed, whatever was added,
deleted or replaced under its iterator. `VisitedOnce` adds that each token is listed
once, and that what is filed and what is still to come have no token in common; it
holds until a token comes back to a rebuild that visited it. At the last entry the new
Map and the new index are installed together, which is all that `IndexAgrees` needs
once no rebuild is left (`Follows` carries the other runs over). Without overlap the
only rebuild goes over the tokens in use, filed and to come are together
`mem.tokens`, and installing them changes nothing (`KeptOK`). `KeysOK` keeps
the counter above every key that a run holds, and the stored counter above every key whose
save landed: a save writes keys and counter of one instant, and loading only raises it.
The steps that leave tokens and indexes alone are shown at once (`RunStep`); those that
change them share `ListsStep`. Maxima, sums and the sequence operators of the
community modules are brought to the library's theorems first (`MaxFacts`,
`ConcatSet`, `RemoveAtFacts`, `ValueNatural`).

The search takes one denomination after the other, and of each some number of tokens; a
branch ends where the sum covers the amount. `SearchSound`: what it reaches covers the
amount and is the sum of some tokens held. `SearchComplete`: for every set of tokens that
covers the amount it reaches a sum that is no larger. Both go down from the last
denomination, where nothing is left to choose. No induction theorem can be cited for
that; a least counterexample (`LeastOf`, counted from the end by `Downward`) serves
instead. Sets that are so related have one minimum (`SameMin`).

**`GateServer`**

* `GateTypeCorrect`: types, with no assumption on storage.
* `GateInvariant`: if storage keeps the order of writes, `Spec => []IInv`;
  `ReplayRefusedTheorem` and `SessionsKeptTheorem` follow.
* `GateAnyStorageTheorem`: with any storage, until the gate is restarted, no proof passes
  once a session was opened for its challenge, and each session that a client received
  is in memory until it expires.

Here a fact about the state is a set of states, those in which a challenge is
closed (unknown or used), or those that hold a session. Such a set is
`Everywhere` when memory, storage and all pending saves are in it, and
`Established` by a handler when memory, the handler's save and all later ones
are, and everything once its save was answered. `StableStep` shows that both
last through every step as long as a running gate's memory stays in the set, and
`MemoryKeeps` that it does: a used nonce is dropped only with its challenge, a
nonce is not drawn again, a session is dropped only when it has expired. So the
save of the used nonce, awaited before the session is opened, closes the
challenge for good, and the save of the session, awaited before the answer,
keeps it. Without a restart memory alone decides, and `MemoryKeeps` is enough
(`MemoryOK`): the order of writes matters to what a restart loads and to nothing else.

**`GateAccess`**

* `AccessInvariant`: `Spec => []IInv`, for any tokens, limit and number of overlapping
  calls and any workload; `BlockTheorem`, `UsesTheorem`, `SpentTheorem` follow.

Saves land in the order of the calls, which is part of this model. `RunStep` lists
what a step can do to one call, and `StoreStep` what it can do to memory, storage
and saves: some leave the front, and what comes to the end is the memory. So
whatever is everywhere, the redemption of an admitted token or a block that
returned, stays so while the memory keeps it (`EverywhereStep`), and the memory
loses no redemption, and a block only by `unblockToken`. A call that began after the
block is thus still before the check of the list, or refused. `UsesOK` counts: the uses of
a token and the calls that have compared them and not yet consumed are together at
most the limit and the other calls in progress, because whoever passes the
comparison adds one call to a count that was below the limit.

**`BoothInvoices`**

* `InvoicesInvariant`: `Spec => []IInv`, for both booths and any invoices, payments,
  overlapping runs, failures and restarts.
* `SettledTheorem`: what a run answered after its save stays true, in memory, in
  storage and in what `booth.status` shows, unless the invoice lapsed.
* `DeliveredTheorem`: an invoice is delivered once, unless two of its runs overlapped,
  `config.fulfill` or the save of the receipt failed, or a crash came after
  `config.fulfill` was called and before the receipt was in storage.

Every copy of the state is `Backed` (it holds the receipts its invoices name) and `Numbered`
(ids of receipts differ and do not exceed their number, so that a new one gets a new id). A
copy that `Settles` an invoice shows it as paid, with its receipt. While a receipt is being
saved, memory, that write and all later writes settle it (`SavesOK`); when the write
lands so does storage, and it stays (`ToldOK`), since only a lapse takes back a
status "paid" (`Held`). `OnceOK` says that on an invoice nothing has gone wrong with one run at
a time is working, that it is not delivered until that run delivers it, and that after it
the receipt is being made or saved, or was saved; whoever comes then finds it
`AlreadyPaid` or `Confirmed`, or a worker beside it. A second worker, a fulfilment
that fails or that a crash cuts short, and a receipt whose save fails put the invoice in
`doubtful`, and no more is claimed of it.

**`BoothOrders`**

* `OrdersInvariant`: `Spec => []IInv`, for any orders, payments, buyers, overlapping
  runs and workloads. Every copy of the state, in memory, in storage and in pending
  writes, is backed: an order that is fulfilled, refunded or asked to be refunded has a
  receipt, and for each receipt the provider has collected a payment.
* `HalfWayTheorem`: when all runs have ended, no order is left paid or confirmed, unless
  a save failed or the process died.

What backs an order, receipts and what was collected, only grows, so a snapshot stays
backed until it lands (`BackedOK`). `RunsOK` and `ProviderOK` say what a run and the
provider know of the payment at each step, `WritesOK` that each pending write has one run
waiting for it, and `AttendedOK` names that run for every order on its way.

**`HTLC`**

* `HTLCInvariant`: `HTLCSpec => []HTLCInv`. What a transfer has spent was spent by the key
  it is locked to, from its time lock and its contract's timelock on, before its expiry
  and until `Past` after that timelock; under a bare hash, never. So no preimage has
  moved a token at a forge before its timelock.
* `TransferableTheorem`: at every instant an unspent token can be transferred by the
  holder of its key exactly in that time, although the code tests it in two units and
  against two windows.
* `RefundTheorem`: a forge never transfers a token that `redeemHTLC` opens with some
  preimage, and, time lock and expiry apart, transfers one under a contract exactly
  when `canRefund` says so.

How a token was spent is fixed when it is spent, so the invariant is preserved
token by token. `InTime` turns the whole seconds of the code into milliseconds
(`WholeSeconds`, from `Division`) and shows what the invariant and the second theorem
share; `TwoWays` says that the windows of redemption and refund meet at the timelock
and have nothing in common.

**Only model-checked.** Liveness (`RunsFinish`, `EventsHandled`, `GoodProofGranted`,
`CallsSettle`, `RequestsAnswered`, `ChargedIsDelivered`, `CollectedIsFulfilled`), since
neither fairness nor ENABLED is within the prover's reach.

## 6. What the code does against its comments and documents

The properties of the runs hold because they exclude these cases, or because the
model has them and no document promises more. Those of the first list contradict
a text of the repository.

* Storage. `_saveState` promises that the spent set is durable before tokens are
  released. It bypasses the save queue, and `DiskStorage` neither orders writes nor
  replaces files atomically: the snapshot of a queued save can land after the
  transfer's own and take the spent input out of storage, and a crash then makes
  the input spendable. With a storage that keeps the order `NoReplay` is a theorem;
  with any other `AnyStorageTheorem` says that nothing is lost before a restart.
* "The maximum tokens that can ever be minted"
  (`docs-site/docs/learn/concepts.md:81`): the cap is checked before an await and
  counted after it, and a crash forgets a count that was not saved. `SupplyTheorem` and
  `MintedTheorem` say by how much `FungibleForge` overruns, `OverrunBounded` by how much
  `NonFungibleForge` does.
* "Automatically prevents duplicate event processing" (`NWPCBase.ts:315`): the
  check and the mark are on the two sides of the handler, so a redelivered mint
  mints twice.
* "Burns tokens, reducing the circulating supply"
  (`docs-site/docs/sdk/forge.md:188`): `FungibleForge` does not count burns.
* "Nonce: Single-use" (`docs/TAT_Protocol_Extensions.md:697`): two proofs that are
  both past the check open two sessions for one challenge. `ReplayRefused` says what is
  left of the protection: once a session was opened, every later proof is refused.
* "Token can be consumed exactly once" (`ValidationStrategies.ts:69`): two calls that
  have both compared the uses consume it twice, and a restart forgets the uses.
  `UsesLimited` says by how much.
* Confirmations are called idempotent (`BoothServerSpec.ts:587`): two that overlap
  fulfil twice, and so does one that comes after a fulfilment was cut off or failed
  when it had delivered: the invoice is then paid and unfulfilled in storage.
  `DeliveredOnce` excludes these cases.
* "Alice reveals the preimage to claim Bob's tokens on Forge B"
  (`docs-site/docs/spec/extensions.md:160`; `docs-site/docs/learn/concepts.md:57`,
  `PROTOCOL_SPEC.md:166` and `docs-site/docs/sdk/forge.md:101` say the like): no handler
  gives `validateTXInputs` a secret, so a forge refuses every input under a contract
  until its timelock ("HTLC secret required to redeem before expiry",
  `ForgeBase.ts:791`), and no request can present one. `RefundOnly` says what is left: a
  forge transfers such a token only after its timelock.
* "Both parties either complete the swap or both get refunded" (`extensions.md:163`):
  neither is so. After the timelock the forge asks the key that the token is locked to,
  so a token locked to its recipient goes to the recipient, and one without a key to
  anybody. A burn looks at no lock at all (`ForgeBase.ts:463`).

Observations without a text against them:

* Unique tokens: ids of the "unique" strategy become `NaN`, and `null` in the payload, on
  a transfer. The id 0 is transferred when it is named by a string, as `Recipient`
  declares it (`Types.ts:4`); the number 0 would be refused, and a booth does refuse it as
  the `tokenID` of a payment (`BoothServerSpec.ts:527`).
* NWPC: a run that goes on in the chain of another request leaves its own handler out
  or is charged without being served; a failed `markTokenSpent` is logged only; a
  request that could not be published twice throws, and its response promise is left
  rejected with nobody to handle it (`NWPCPeer.ts:303`).
* Gates: uses are forgotten by a restart; a redemption whose save fails has used up
  the token; tiers are compared as strings; minimal proofs are not given to the custom
  check; expired tokens are refused even when expiry is not required.
* Wallet: two rebuilds that overlap can lose a token or bring one back; a token that is
  deleted and stored again behind a rebuild that visited it is counted twice in the
  balance and listed twice in `tokenIndex` until the next rebuild, and a transfer that
  selects both entries is refused by the forge; an event is
  marked before its token is stored; a spent note before the token is ignored;
  restoring key material can set the key counter back; a single-use key is
  unsubscribed after its first event; an amount that cannot be covered builds a
  request with no inputs; `importTokens` counts what it rejected.
* Invoices: a failed second save marks a fulfilled invoice failed; answers are given
  from memory before a save has landed; `handlePay` can mark a paid invoice expired;
  after a failed fulfilment the webhook is answered 200 by the documented routes and
  nothing tries again; `updateCatalogItem` changes the price of outstanding invoices;
  tokens are asked about and not consumed (`BoothServerSpec.ts:535`), one token
  listed twice counts twice; `quantity` does not multiply the price; a rejected
  promise of the forge client is kept; payments of adapters are orphaned by an
  invoice paid in tokens.
* Orders: `verifyPayment` revives cancelled and refunded orders, and fulfils the order
  again each time a completed payment is verified (`BoothBase.ts:355`); a refund can be
  processed twice, or completed though the provider refused it; pending payments of
  the provider are lost by a restart; `updateInventory` changes the item before it
  throws.
* Contracts: one is void 30 days after it lapsed; timelocks are milliseconds and
  `timeLock` and `exp` seconds; `Token.lock("HTLC", hash)` yields a token no forge
  accepts (`ForgeBase.ts:761`).

## 7. Not modelled, and what remains

* Cryptography, encodings, gift wrapping, signers: a signature is accepted or not,
  and a message reaches whom it is for.
* `BloomFilter`: modelled as an exact set where it is used. Its false positives drop
  fresh events with a small probability; a property of them would be one of numbers.
* Introspection, errors, configuration, factories, debug output: no state whose order
  of changes matters.
* HTTP of the webhook server and storage clients (`NostrStorage`, `BrowserStorage`):
  `confirm` and the snapshots they carry are modelled.
* Inventory, analytics and catalog of `BoothBase`, favourites of `Pocket`: plain
  updates of records that no other operation reads.
* The time locks, `exp` and redelivery of `NonFungibleForge`, which are as in
  `FungibleForge`.

Every safety property and action property of the runs that pass is a theorem. What
remains is the liveness of section 3, on instances only.
