-------------------------------- MODULE NWPC --------------------------------
(***************************************************************************)
(* A request and its answer: NWPCPeer.request on one side, NWPCServer with *)
(* its router, its handler engine and the tokenAuth middleware on the      *)
(* other, and between them relays that store what reaches them.            *)
(*                                                                         *)
(* Peer and server are one JavaScript process each: calls of the peer, and *)
(* handler runs of the server, interleave at their awaits.  All routes of  *)
(* a server share one HandlerEngine, whose chain a run reads anew whenever *)
(* a middleware calls next().                                              *)
(***************************************************************************)
EXTENDS Integers, Sequences, FiniteSets, SequencesExt

CONSTANTS
    MaxCalls,    \* bound on the calls of NWPCPeer.request
    Tokens,      \* payment tokens that calls carry
    Bounds,      \* what a behaviour keeps to: the methods its calls name, the handler runs
                 \* in progress at one time, the connections lost and marks that fail
    NoToken

ASSUME TokensAssumption == NoToken \notin Tokens

Methods == {"open", "logged", "paid", "absent"}
ASSUME BoundsAssumption ==
    /\ MaxCalls \in Nat
    /\ Bounds \subseteq [methods: SUBSET Methods, runs: Nat \ {0}, faults: Nat]

(* Calls and runs are numbered in the order in which they start.           *)
Calls == 1..MaxCalls
Slots == UNION {1..b.runs : b \in Bounds}
NoCall == 0

(* The routes: a handler alone, one after a middleware, and one after      *)
(* tokenAuth in payment mode.  "absent" has no route.                      *)
Kinds(method) ==
    CASE method = "open"   -> <<"serve">>
      [] method = "logged" -> <<"log", "serve">>
      [] method = "paid"   -> <<"auth", "serve">>
Chain(method) == [i \in DOMAIN Kinds(method) |-> [route |-> method, kind |-> Kinds(method)[i]]]

VARIABLES
    call,        \* for each call: what it asks, where request() is, its promise
    handlers,    \* NWPCPeer.responseHandlers, each with its timer
    link,        \* the peer's sockets: live, dead, or stale (dead, not noticed)
    stored,      \* requests that relays hold
    answers,     \* calls the server has sent an answer to, which relays may lose
    engine,      \* HandlerEngine.handlers, the chain installed last
    run,         \* the server's handler runs
    marked,      \* requests the server has marked as processed
    spent,       \* tokens that markTokenSpent has recorded
    faults,      \* connections lost and marks failed so far
    bound        \* the bounds of this behaviour

peerVars == <<call, handlers, link>>
serverVars == <<answers, engine, run, marked, spent>>
vars == <<call, handlers, link, stored, answers, engine, run, marked, spent, faults>>

IdleRun == [pc |-> "idle", call |-> NoCall, ran |-> <<>>, pays |-> FALSE, sent |-> FALSE,
            disturbed |-> FALSE, late |-> FALSE]
Init ==
    /\ call = [c \in Calls |-> [pc |-> "idle", method |-> "absent", token |-> NoToken,
                                promise |-> "none"]]
    /\ handlers = {} /\ link = "live"
    /\ stored = {} /\ answers = {}
    /\ engine = <<>>
    /\ run = [s \in Slots |-> IdleRun]
    /\ marked = {} /\ spent = {} /\ faults = 0
    /\ bound \in Bounds
-----------------------------------------------------------------------------
(* NWPCPeer.request: the entry of the answer and its timer are there       *)
(* before anything is published.                                           *)
Request(c) ==
    /\ call[c].pc = "idle" /\ \A d \in 1..(c - 1) : call[d].pc # "idle"
    /\ \E m \in bound.methods, t \in Tokens \cup {NoToken} :
        /\ t = NoToken <=> m # "paid"
        /\ call' = [call EXCEPT ![c] = [pc |-> "connect", method |-> m, token |-> t,
                                        promise |-> "pending"]]
    /\ handlers' = handlers \cup {c}
    /\ UNCHANGED <<link, stored, serverVars, faults>>

(* ensureConnected: when no socket is open, all are closed and opened      *)
(* again, and the peer subscribes again: it listens while its link is live.*)
(* A socket that is dead and not closed counts as open.                    *)
Connected ==
    IF link = "dead"
    THEN link' \in {"live", "dead"}
    ELSE UNCHANGED link

Connect(c) ==
    /\ call[c].pc \in {"connect", "reconnect"}
    /\ Connected
    /\ call' = [call EXCEPT ![c].pc = IF @ = "connect" THEN "publish" ELSE "republish"]
    /\ UNCHANGED <<handlers, stored, serverVars, faults>>

(* publishOnce is acknowledged.                                            *)
Published(c) ==
    /\ call[c].pc \in {"publish", "republish"} /\ link = "live"
    /\ stored' = stored \cup {c}
    /\ call' = [call EXCEPT ![c].pc = "waiting"]
    /\ UNCHANGED <<handlers, link, serverVars, faults>>

(* The relay rejects the event or does not acknowledge it in time, in      *)
(* which case it may have it: all sockets are closed for another attempt.  *)
PublishFails(c) ==
    /\ call[c].pc = "publish"
    /\ link = "live" => faults < bound.faults
    /\ faults' = IF link = "live" THEN faults + 1 ELSE faults
    /\ \E has \in (IF link = "live" THEN BOOLEAN ELSE {FALSE}) :
        stored' = IF has THEN stored \cup {c} ELSE stored
    /\ link' = "dead"
    /\ call' = [call EXCEPT ![c].pc = "reconnect"]
    /\ UNCHANGED <<handlers, serverVars>>

(* The second failure: the entry goes, its promise is rejected, and        *)
(* request() throws.  In the mutant the entry stays.                       *)
Abort_Kept(c) == UNCHANGED handlers /\ call' = [call EXCEPT ![c].pc = "threw"]
Abort(c) ==
    /\ handlers' = handlers \ {c}
    /\ call' = [call EXCEPT ![c].pc = "threw",
                            ![c].promise = IF c \in handlers THEN "rejected" ELSE @]
RepublishFails(c) ==
    /\ call[c].pc = "republish"
    /\ link = "live" => faults < bound.faults
    /\ faults' = IF link = "live" THEN faults + 1 ELSE faults
    /\ \E has \in (IF link = "live" THEN BOOLEAN ELSE {FALSE}) :
        stored' = IF has THEN stored \cup {c} ELSE stored
    /\ Abort(c)
    /\ UNCHANGED <<link, serverVars>>

(* The timer of a call fires, also while it is still being published.  In  *)
(* the mutant the acknowledgement stops the timer.                         *)
TimerArmed_Unacked(c) == c \in handlers /\ call[c].pc # "waiting"
TimerArmed(c) == c \in handlers
Settle(c, how) ==
    /\ handlers' = handlers \ {c}
    /\ call' = [call EXCEPT ![c].promise = how]
Timeout(c) ==
    /\ TimerArmed(c)
    /\ Settle(c, "rejected")
    /\ UNCHANGED <<link, stored, serverVars, faults>>

(* NWPCPeer.handleEvent: the answer to a call that has an entry; any other *)
(* one, late or repeated, changes nothing.                                 *)
Answer(c) ==
    /\ link = "live" /\ c \in answers
    /\ c \in handlers
    /\ Settle(c, "resolved")
    /\ UNCHANGED <<link, stored, serverVars, faults>>

(* A socket is closed, or dies in silence.                                 *)
LinkLost ==
    /\ link = "live" /\ faults < bound.faults
    /\ faults' = faults + 1
    /\ link' \in {"dead", "stale"}
    /\ UNCHANGED <<call, handlers, stored, serverVars>>

(* startKeepalive: ensureConnected, and now and then a new subscription,   *)
(* whose write tells a stale socket from a live one.                       *)
Keepalive ==
    /\ \/ Connected
       \/ /\ link # "dead"
          /\ link' = IF link = "stale" THEN "dead" ELSE link
    /\ UNCHANGED <<call, handlers, stored, serverVars, faults>>
-----------------------------------------------------------------------------
At(s, pc) == run[s].pc = pc
Call(s) == call[run[s].call]

(* A relay hands the server a request, perhaps again: it is looked up      *)
(* before and marked after it is handled.                                  *)
Receive(s, c) ==
    /\ At(s, "idle") /\ s <= bound.runs /\ \A r \in 1..(s - 1) : ~At(r, "idle")
    /\ c \in stored /\ c \notin marked
    /\ run' = [run EXCEPT ![s] = [IdleRun EXCEPT !.pc = "received", !.call = c]]
    /\ UNCHANGED <<peerVars, stored, answers, engine, marked, spent, faults>>

(* next(): the handler that the chain installed NOW has at the index of    *)
(* this run, or the way back when it has none.  The mutant does not move   *)
(* the index past the handler it calls.                                    *)
Continue_Stuck(r, chain) ==
    IF Len(r.ran) >= Len(chain) THEN [r EXCEPT !.pc = "returning"]
    ELSE LET h == chain[IF Len(r.ran) = 0 THEN 1 ELSE Len(r.ran)] IN
         [r EXCEPT !.pc = h.kind, !.ran = Append(@, h)]
Continue(r, chain) ==
    IF Len(r.ran) >= Len(chain) THEN [r EXCEPT !.pc = "returning"]
    ELSE LET h == chain[Len(r.ran) + 1] IN
         [r EXCEPT !.pc = h.kind, !.ran = Append(@, h)]

(* sendResponse settles whatever becomes of the answer at the relays.      *)
Send(s) == answers' = answers \cup {run[s].call}
NotSent == UNCHANGED answers
Step(s, r) == run' = [run EXCEPT ![s] = r]

(* router.handle: the chain of the route replaces that of every run in     *)
(* progress, and the first handler starts.                                 *)
Dispatch(s) ==
    /\ At(s, "received")
    /\ IF Call(s).method = "absent"
       THEN Send(s) /\ Step(s, [run[s] EXCEPT !.pc = "handled"]) /\ UNCHANGED engine
       ELSE LET chain == Chain(Call(s).method) IN
            /\ engine' = chain
            /\ run' = [r \in Slots |->
                 IF r = s THEN Continue([run[s] EXCEPT !.late = Call(s).token \in spent], chain)
                 ELSE [run[r] EXCEPT !.disturbed =
                         @ \/ (run[r].pc \notin {"idle", "received"} /\ engine # chain)]]
            /\ NotSent
    /\ UNCHANGED <<peerVars, stored, marked, spent, faults>>

(* A middleware that awaits something of its own and calls next().         *)
Log(s) ==
    /\ At(s, "log")
    /\ Step(s, Continue(run[s], engine))
    /\ NotSent
    /\ UNCHANGED <<peerVars, stored, engine, marked, spent, faults>>

(* tokenAuth looks up what the method of the request costs, which is       *)
(* nothing when a chain not its own led to it.  validateToken, then expiry,*)
(* audience, issuer and amount decide.                                     *)
Refuse(s) == Step(s, [run[s] EXCEPT !.pc = "returning", !.sent = TRUE]) /\ Send(s)
Auth(s) ==
    /\ At(s, "auth")
    /\ CASE Call(s).method # "paid" -> Step(s, Continue(run[s], engine)) /\ NotSent
         [] OTHER -> \/ Step(s, [run[s] EXCEPT !.pc = "validated"]) /\ NotSent
                     \/ Refuse(s)
    /\ UNCHANGED <<peerVars, stored, engine, marked, spent, faults>>

(* Mutant: whether a token is spent is not asked.                          *)
IsTokenSpent_Never(t) == FALSE
IsTokenSpent(t) == t \in spent
(* await isTokenSpent: the answer is read, and acted on later.             *)
AuthRead(s) ==
    /\ At(s, "validated")
    /\ IF IsTokenSpent(Call(s).token)
       THEN Refuse(s)
       ELSE Step(s, [run[s] EXCEPT !.pc = "unspent"]) /\ NotSent
    /\ UNCHANGED <<peerVars, stored, engine, marked, spent, faults>>
AuthNext(s) ==
    /\ At(s, "unspent")
    /\ Step(s, Continue([run[s] EXCEPT !.pays = TRUE], engine))
    /\ NotSent
    /\ UNCHANGED <<peerVars, stored, engine, marked, spent, faults>>

(* The handler of the method: it answers, or leaves that to the engine.    *)
Serve(s) ==
    /\ At(s, "serve")
    /\ \/ Step(s, [run[s] EXCEPT !.pc = "returning", !.sent = TRUE]) /\ Send(s)
       \/ Step(s, [run[s] EXCEPT !.pc = "returning"]) /\ NotSent
    /\ UNCHANGED <<peerVars, stored, engine, marked, spent, faults>>

(* A handler throws: no middleware goes on, and the caller is told so.  In *)
(* the mutant the error is only logged.                                    *)
Throws_Silent(s) ==
    /\ run[s].pc \in {"serve", "log", "auth", "validated"}
    /\ Step(s, [run[s] EXCEPT !.pc = "handled"])
    /\ NotSent
    /\ UNCHANGED <<peerVars, stored, engine, marked, spent, faults>>
Throws(s) ==
    /\ run[s].pc \in {"serve", "log", "auth", "validated"}
    /\ Step(s, [run[s] EXCEPT !.pc = "handled"])
    /\ Send(s)
    /\ UNCHANGED <<peerVars, stored, engine, marked, spent, faults>>

(* The way back through tokenAuth: the token is marked after the handler,  *)
(* and a mark that fails is only logged.                                   *)
MarkToken(s) ==
    /\ At(s, "returning") /\ run[s].pays
    /\ \/ spent' = spent \cup {Call(s).token} /\ UNCHANGED faults
       \/ faults < bound.faults /\ faults' = faults + 1 /\ UNCHANGED spent
    /\ Step(s, [run[s] EXCEPT !.pays = FALSE])
    /\ NotSent
    /\ UNCHANGED <<peerVars, stored, engine, marked>>

(* HandlerEngine.execute: when no handler answered, an ok goes out.        *)
Return(s) ==
    /\ At(s, "returning") /\ ~run[s].pays
    /\ IF run[s].sent THEN NotSent ELSE Send(s)
    /\ Step(s, [run[s] EXCEPT !.pc = "handled"])
    /\ UNCHANGED <<peerVars, stored, engine, marked, spent, faults>>

(* The event is marked as processed.                                       *)
Finish(s) ==
    /\ At(s, "handled")
    /\ marked' = marked \cup {run[s].call}
    /\ Step(s, IdleRun)
    /\ NotSent
    /\ UNCHANGED <<peerVars, stored, engine, spent, faults>>
-----------------------------------------------------------------------------
PublishStep(c) == Connect(c) \/ Published(c) \/ PublishFails(c) \/ RepublishFails(c)
HandlerStep(s) ==
    \/ Dispatch(s) \/ Log(s) \/ Auth(s) \/ AuthRead(s) \/ AuthNext(s) \/ Serve(s)
    \/ Throws(s) \/ MarkToken(s) \/ Return(s) \/ Finish(s)

Next ==
    /\ \/ \E c \in Calls : Request(c) \/ PublishStep(c) \/ Timeout(c) \/ Answer(c)
       \/ LinkLost \/ Keepalive
       \/ \E s \in Slots, c \in Calls : Receive(s, c)
       \/ \E s \in Slots : HandlerStep(s)
    /\ UNCHANGED bound

Spec == Init /\ [][Next]_<<vars, bound>>

(* Timers fire, every attempt to publish ends within its own timeout, and  *)
(* the handlers of the server return.  That a connection comes back or an  *)
(* answer arrives is not assumed.                                          *)
Fairness ==
    /\ \A c \in Calls : WF_vars(PublishStep(c)) /\ WF_vars(Timeout(c))
    /\ \A s \in Slots : WF_vars(HandlerStep(s))
FairSpec == Spec /\ Fairness
-----------------------------------------------------------------------------
Ask ==
    [pc: {"idle", "connect", "publish", "reconnect", "republish", "waiting", "threw"},
     method: Methods, token: Tokens \cup {NoToken},
     promise: {"none", "pending", "resolved", "rejected"}]
Handlers == [route: Methods \ {"absent"}, kind: {"log", "auth", "serve"}]
Run ==
    [pc: {"idle", "received", "log", "auth", "validated", "unspent", "serve", "returning",
          "handled"},
     call: Calls \cup {NoCall}, ran: Seq(Handlers),
     pays: BOOLEAN, sent: BOOLEAN, disturbed: BOOLEAN, late: BOOLEAN]
TypeOK ==
    /\ call \in [Calls -> Ask]
    /\ handlers \subseteq Calls /\ stored \subseteq Calls
    /\ answers \subseteq stored /\ marked \subseteq stored /\ spent \subseteq Tokens
    /\ link \in {"live", "dead", "stale"}
    /\ engine \in {<<>>} \cup {Chain(m) : m \in Methods \ {"absent"}}
    /\ run \in [Slots -> Run]
    /\ faults \in Nat /\ bound \in Bounds

(* An entry and its timer live exactly as long as the promise of their     *)
(* call, whichever of answer, timer and failed publishing came first;      *)
(* nothing leaks when request() throws, and no promise is left behind.     *)
CallsOK ==
    \A c \in Calls :
        /\ c \in handlers <=> call[c].promise = "pending"
        /\ call[c].pc = "threw" => c \notin handlers
        /\ call[c].promise = "resolved" => c \in answers
        /\ call[c].token = NoToken <=> call[c].method # "paid"
        /\ call[c].pc = "idle" => c \notin stored

(* A run is about a request that a relay has, and it knows nothing else    *)
(* before the router has it.                                               *)
Dispatched(s) == run[s].pc \notin {"idle", "received"}
Attached(s) ==
    /\ run[s].pc = "idle" <=> run[s].call = NoCall
    /\ run[s].pc # "idle" => run[s].call \in stored
    /\ ~Dispatched(s) => run[s].ran = <<>> /\ ~run[s].pays /\ ~run[s].sent
                         /\ ~run[s].disturbed /\ ~run[s].late

(* What is handled, or has a handler that answered, is answered.           *)
Replied(s) == run[s].sent \/ run[s].pc = "handled" => run[s].call \in answers

(* A run is somewhere on the chain of a route, at the handler its state    *)
(* names.                                                                  *)
Along(r, chain) ==
    /\ Len(r.ran) \in 1..Len(chain)
    /\ \A i \in 1..Len(r.ran) : r.ran[i] = chain[i]
    /\ r.pc \in {"log", "auth", "serve"} => chain[Len(r.ran)].kind = r.pc
    /\ r.pc \in {"validated", "unspent"} => chain[Len(r.ran)].kind = "auth"

(* A run that no other chain has overtaken is on its own chain, which is   *)
(* still the one installed; a run of a single handler has no way to leave. *)
Following(s) ==
    Dispatched(s) =>
        IF Call(s).method = "absent" THEN run[s].pc = "handled" /\ run[s].ran = <<>>
        ELSE /\ ~run[s].disturbed => engine = Chain(Call(s).method)
             /\ ~run[s].disturbed \/ Call(s).method = "open" =>
                    Along(run[s], Chain(Call(s).method))

(* Only calls of the charged method get past the checks of tokenAuth, and  *)
(* one whose token was spent when it was taken up gets as far as the look  *)
(* into the spent tokens.                                                  *)
Charged(s) ==
    /\ run[s].pays \/ run[s].pc \in {"validated", "unspent"} => Call(s).method = "paid"
    /\ run[s].late => Call(s).token \in spent
    /\ run[s].late /\ ~run[s].disturbed => run[s].pc \notin {"unspent", "serve"} /\ ~run[s].pays

IInv ==
    /\ TypeOK /\ CallsOK /\ marked \subseteq answers
    /\ \A s \in Slots : Attached(s) /\ Replied(s) /\ Following(s) /\ Charged(s)

(* A run executes the handlers of its own route, in their order, unless    *)
(* another request installed a different chain while the run awaited; a    *)
(* route of one handler is safe even then.                                 *)
OwnChain ==
    \A s \in Slots : run[s].ran # <<>> =>
        \/ IsPrefix(run[s].ran, Chain(Call(s).method))
        \/ run[s].disturbed /\ Len(Chain(Call(s).method)) > 1

(* A call that the server takes up when its token is already marked is not *)
(* served, unless another request's chain led it past tokenAuth.           *)
PaidOnce ==
    \A s \in Slots : run[s].late /\ ~run[s].disturbed => run[s].pc # "serve" /\ ~run[s].pays

(* Every call ends: request() throws, or its promise is settled.           *)
CallsSettle ==
    \A c \in Calls : call[c].pc # "idle" ~>
        \/ call[c].pc = "threw"
        \/ call[c].pc = "waiting" /\ call[c].promise # "pending"

(* Every request the server takes up is answered, though a handler throws, *)
(* is lost to another chain, or says nothing.                              *)
RequestsAnswered == \A c \in Calls : (\E s \in Slots : run[s].call = c) ~> c \in answers
=============================================================================
