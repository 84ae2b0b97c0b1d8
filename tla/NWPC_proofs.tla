---------------------------- MODULE NWPC_proofs ----------------------------
(***************************************************************************)
(* Proofs about NWPC, for every number of calls, every set of tokens and   *)
(* every set of bounds: any number of handler runs at one time, and any    *)
(* number of faults.                                                       *)
(***************************************************************************)
EXTENDS NWPC, TLAPS

Routed == Methods \ {"absent"}

LEMMA Route ==
    ASSUME NEW m \in Routed, NEW n \in {1, 2}, Kinds(m) \in Seq({"log", "auth", "serve"}),
           Len(Kinds(m)) = n
    PROVE  /\ Chain(m) \in Seq(Handlers) /\ Len(Chain(m)) = n
           /\ \A i \in 1..n : Chain(m)[i].kind = Kinds(m)[i]
<1>1. DOMAIN Kinds(m) = 1..n /\ \A i \in 1..n : Kinds(m)[i] \in {"log", "auth", "serve"}
  OBVIOUS
<1>2. Chain(m) = [i \in 1..n |-> [route |-> m, kind |-> Kinds(m)[i]]]
  BY <1>1 DEF Chain
<1>3. \A i \in 1..n : [route |-> m, kind |-> Kinds(m)[i]] \in Handlers
  BY <1>1 DEF Handlers, Routed
<1>4. Chain(m) \in [1..n -> Handlers]
  BY <1>2, <1>3
<1>5. Chain(m) \in Seq(Handlers) /\ Len(Chain(m)) = n
  BY <1>4, <1>2
<1> QED
  BY <1>2, <1>5

(* The chains of the three routes.                                         *)
LEMMA Routes ==
    /\ Chain("open") \in Seq(Handlers) /\ Len(Chain("open")) = 1
    /\ Chain("open")[1].kind = "serve"
    /\ Chain("logged") \in Seq(Handlers) /\ Len(Chain("logged")) = 2
    /\ Chain("logged")[1].kind = "log" /\ Chain("logged")[2].kind = "serve"
    /\ Chain("paid") \in Seq(Handlers) /\ Len(Chain("paid")) = 2
    /\ Chain("paid")[1].kind = "auth" /\ Chain("paid")[2].kind = "serve"
<1>1. Kinds("open") = <<"serve">>
  BY DEF Kinds
<1>2. Kinds("logged") = <<"log", "serve">>
  BY DEF Kinds
<1>3. Kinds("paid") = <<"auth", "serve">>
  BY DEF Kinds
<1>4. "open" \in Routed /\ "logged" \in Routed /\ "paid" \in Routed
  BY DEF Routed, Methods
<1>5. /\ Kinds("open") \in Seq({"log", "auth", "serve"}) /\ Len(Kinds("open")) = 1
      /\ Kinds("open")[1] = "serve"
  <2>1. <<"serve">> \in Seq({"log", "auth", "serve"}) /\ Len(<<"serve">>) = 1
    OBVIOUS
  <2>2. <<"serve">>[1] = "serve"
    OBVIOUS
  <2> QED
    BY <1>1, <2>1, <2>2
<1>6. /\ Kinds("logged") \in Seq({"log", "auth", "serve"}) /\ Len(Kinds("logged")) = 2
      /\ Kinds("logged")[1] = "log" /\ Kinds("logged")[2] = "serve"
  <2>1. <<"log", "serve">> \in Seq({"log", "auth", "serve"}) /\ Len(<<"log", "serve">>) = 2
    OBVIOUS
  <2>2. <<"log", "serve">>[1] = "log" /\ <<"log", "serve">>[2] = "serve"
    OBVIOUS
  <2> QED
    BY <1>2, <2>1, <2>2
<1>7. /\ Kinds("paid") \in Seq({"log", "auth", "serve"}) /\ Len(Kinds("paid")) = 2
      /\ Kinds("paid")[1] = "auth" /\ Kinds("paid")[2] = "serve"
  <2>1. <<"auth", "serve">> \in Seq({"log", "auth", "serve"}) /\ Len(<<"auth", "serve">>) = 2
    OBVIOUS
  <2>2. <<"auth", "serve">>[1] = "auth" /\ <<"auth", "serve">>[2] = "serve"
    OBVIOUS
  <2> QED
    BY <1>3, <2>1, <2>2
<1>8. /\ Chain("open") \in Seq(Handlers) /\ Len(Chain("open")) = 1
      /\ Chain("open")[1].kind = "serve"
  BY <1>4, <1>5, Route
<1>9. /\ Chain("logged") \in Seq(Handlers) /\ Len(Chain("logged")) = 2
      /\ Chain("logged")[1].kind = "log" /\ Chain("logged")[2].kind = "serve"
  BY <1>4, <1>6, Route
<1>10. /\ Chain("paid") \in Seq(Handlers) /\ Len(Chain("paid")) = 2
       /\ Chain("paid")[1].kind = "auth" /\ Chain("paid")[2].kind = "serve"
  BY <1>4, <1>7, Route
<1> QED
  BY <1>8, <1>9, <1>10

LEMMA Routable ==
    ASSUME NEW m \in Routed
    PROVE  /\ Chain(m) \in Seq(Handlers) /\ Len(Chain(m)) \in {1, 2}
           /\ m # "open" => Len(Chain(m)) > 1
           /\ m = "open" \/ m = "logged" \/ m = "paid"
  BY Routes DEF Routed, Methods

(* next() of any handler, on any chain.                                    *)
Going(r, q) ==
    /\ q \in Run
    /\ q.call = r.call /\ q.pays = r.pays /\ q.sent = r.sent
    /\ q.disturbed = r.disturbed /\ q.late = r.late
    /\ q.pc \in {"log", "auth", "serve", "returning"}

LEMMA ContinueFacts ==
    ASSUME NEW r \in Run, NEW chain \in Seq(Handlers)
    PROVE  /\ Going(r, Continue(r, chain))
           /\ \/ Continue(r, chain).pc = "returning" /\ Continue(r, chain).ran = r.ran
              \/ /\ Len(r.ran) < Len(chain)
                 /\ Continue(r, chain).pc = chain[Len(r.ran) + 1].kind
                 /\ Continue(r, chain).ran = Append(r.ran, chain[Len(r.ran) + 1])
<1>1. r.ran \in Seq(Handlers) /\ Len(r.ran) \in Nat /\ Len(chain) \in Nat
  BY DEF Run
<1>2. CASE Len(r.ran) >= Len(chain)
  <2>1. Continue(r, chain) = [r EXCEPT !.pc = "returning"]
    BY <1>2 DEF Continue
  <2> QED
    BY <2>1 DEF Run, Going
<1>3. CASE ~(Len(r.ran) >= Len(chain))
  <2> DEFINE h == chain[Len(r.ran) + 1]
  <2>1. Len(r.ran) + 1 \in 1..Len(chain) /\ Len(r.ran) < Len(chain)
    BY <1>1, <1>3
  <2>2. h \in Handlers
    BY <2>1
  <2>3. h.kind \in {"log", "auth", "serve"} /\ Append(r.ran, h) \in Seq(Handlers)
    BY <1>1, <2>2 DEF Handlers
  <2>4. Continue(r, chain) = [r EXCEPT !.pc = h.kind, !.ran = Append(@, h)]
    BY <1>3 DEF Continue
  <2> HIDE DEF h
  <2>5. Continue(r, chain) = [r EXCEPT !.pc = h.kind, !.ran = Append(r.ran, h)]
    BY <2>4 DEF Run
  <2>6. /\ Going(r, Continue(r, chain))
        /\ Continue(r, chain).pc = h.kind /\ Continue(r, chain).ran = Append(r.ran, h)
    BY <2>3, <2>5 DEF Run, Going
  <2> QED
    BY <2>1, <2>6 DEF h
<1> QED
  BY <1>2, <1>3

(* It leads a run along the chain it is on, or onto the chain.             *)
LEMMA ContinueAlong ==
    ASSUME NEW r \in Run, NEW chain \in Seq(Handlers),
           Along(r, chain) \/ (r.ran = <<>> /\ Len(chain) > 0)
    PROVE  Along(Continue(r, chain), chain)
<1> DEFINE q == Continue(r, chain)
           n == Len(r.ran)
<1>1. /\ Going(r, q)
      /\ \/ q.pc = "returning" /\ q.ran = r.ran
         \/ n < Len(chain) /\ q.pc = chain[n + 1].kind /\ q.ran = Append(r.ran, chain[n + 1])
  BY ContinueFacts
<1>2. r.ran \in Seq(Handlers) /\ n \in Nat /\ Len(chain) \in Nat
  BY DEF Run
<1>3. \A i \in 1..n : r.ran[i] = chain[i]
  BY DEF Along
<1>4. n = 0 => r.ran = <<>> /\ Len(chain) > 0
  BY DEF Along
<1>5. r.ran = <<>> => q.ran # <<>>
  <2>1. r.ran = <<>> => n = 0 /\ Len(chain) > 0
    BY <1>2 DEF Along
  <2>2. r.ran = <<>> => q = [r EXCEPT !.pc = chain[n + 1].kind, !.ran = Append(@, chain[n + 1])]
    BY <1>2, <2>1 DEF Continue
  <2>3. chain[n + 1] \in Handlers => Append(r.ran, chain[n + 1]) # <<>>
    BY <1>2
  <2>4. r.ran = <<>> => chain[n + 1] \in Handlers
    BY <2>1
  <2> QED
    BY <2>2, <2>3, <2>4 DEF Run
<1> HIDE DEF q
<1>6. CASE q.pc = "returning" /\ q.ran = r.ran
  <2>1. Along(r, chain)
    BY <1>5, <1>6
  <2> QED
    BY <1>6, <2>1 DEF Along, q
<1>7. CASE n < Len(chain) /\ q.pc = chain[n + 1].kind /\ q.ran = Append(r.ran, chain[n + 1])
  <2>1. n + 1 \in 1..Len(chain) /\ chain[n + 1] \in Handlers
    BY <1>2, <1>7
  <2>2. /\ Len(q.ran) = n + 1 /\ q.ran[n + 1] = chain[n + 1]
        /\ \A i \in 1..n : q.ran[i] = r.ran[i]
    <3>1. /\ Len(Append(r.ran, chain[n + 1])) = n + 1
          /\ Append(r.ran, chain[n + 1])[n + 1] = chain[n + 1]
          /\ \A i \in 1..n : Append(r.ran, chain[n + 1])[i] = r.ran[i]
      BY <1>2, <2>1
    <3> QED
      BY <1>7, <3>1
  <2>3. \A i \in 1..(n + 1) : i = n + 1 \/ i \in 1..n
    BY <1>2
  <2>4. \A i \in 1..(n + 1) : q.ran[i] = chain[i]
    BY <1>3, <2>2, <2>3
  <2>5. q.pc \notin {"validated", "unspent"}
    BY <1>1 DEF Going, q
  <2> QED
    BY <1>7, <2>1, <2>2, <2>4, <2>5 DEF Along, q
<1> QED
  BY <1>1, <1>6, <1>7 DEF q

-----------------------------------------------------------------------------
(* The peer's side: a step changes one call, and nothing that a run of the *)
(* server knows.                                                           *)
LEMMA PeerKeeps ==
    ASSUME IInv, TypeOK', CallsOK', UNCHANGED <<serverVars, bound>>,
           \A c \in stored : /\ c \in stored'
                             /\ call'[c].method = call[c].method /\ call'[c].token = call[c].token
    PROVE  IInv'
<1>1. UNCHANGED <<answers, engine, run, marked, spent>>
  BY DEF serverVars
<1>2. (marked \subseteq answers)'
  BY <1>1 DEF IInv
<1>3. ASSUME NEW s \in Slots
      PROVE  (Attached(s) /\ Replied(s) /\ Following(s) /\ Charged(s))'
  <2>1. Attached(s) /\ Replied(s) /\ Following(s) /\ Charged(s) /\ run[s] \in Run
    BY DEF IInv, TypeOK
  <2>2. run[s].call \in stored =>
          /\ run[s].call \in stored'
          /\ call'[run[s].call].method = call[run[s].call].method
          /\ call'[run[s].call].token = call[run[s].call].token
    OBVIOUS
  <2>3. Attached(s)'
    BY <1>1, <2>1, <2>2 DEF Attached, Dispatched
  <2>4. Replied(s)'
    BY <1>1, <2>1 DEF Replied
  <2>5. run[s].pc # "idle" => Call(s)'.method = Call(s).method /\ Call(s)'.token = Call(s).token
    BY <1>1, <2>1, <2>2 DEF Attached, Call
  <2>6. Following(s)'
    BY <1>1, <2>1, <2>5 DEF Following, Dispatched
  <2>7. run[s].pc = "idle" => ~run[s].pays /\ ~run[s].late
    BY <2>1 DEF Attached, Dispatched
  <2>8. Charged(s)'
    BY <1>1, <2>1, <2>5, <2>7 DEF Charged
  <2> QED
    BY <2>3, <2>4, <2>6, <2>8
<1> QED
  BY <1>2, <1>3 DEF IInv

LEMMA CallKeeps ==
    ASSUME IInv, NEW c \in Calls, NEW q \in Ask, call' = [call EXCEPT ![c] = q],
           handlers' \subseteq Calls, \A d \in Calls \ {c} : d \in handlers' <=> d \in handlers,
           stored' = stored \/ stored' = stored \cup {c},
           link' \in {"live", "dead", "stale"}, faults' \in Nat,
           UNCHANGED <<serverVars, bound>>,
           c \in handlers' <=> q.promise = "pending",
           q.pc = "threw" => c \notin handlers',
           q.promise = "resolved" => c \in answers,
           q.token = NoToken <=> q.method # "paid", q.pc = "idle" => c \notin stored',
           c \in stored => q.method = call[c].method /\ q.token = call[c].token
    PROVE  IInv'
<1>1. /\ call' \in [Calls -> Ask] /\ call'[c] = q
      /\ \A d \in Calls \ {c} : call'[d] = call[d]
  BY DEF IInv, TypeOK
<1>2. UNCHANGED <<answers, engine, run, marked, spent>>
  BY DEF serverVars
<1>3. stored \subseteq stored' /\ stored' \subseteq Calls
  BY DEF IInv, TypeOK
<1>4. TypeOK'
  BY <1>1, <1>2, <1>3 DEF IInv, TypeOK
<1>5. CallsOK'
  <2>1. ASSUME NEW d \in Calls \ {c}
        PROVE  /\ call'[d] = call[d] /\ d \in handlers' <=> d \in handlers
               /\ d \in stored' <=> d \in stored
    BY <1>1
  <2>2. ASSUME NEW d \in Calls \ {c}
        PROVE  /\ d \in handlers' <=> call'[d].promise = "pending"
               /\ call'[d].pc = "threw" => d \notin handlers'
               /\ call'[d].promise = "resolved" => d \in answers'
               /\ call'[d].token = NoToken <=> call'[d].method # "paid"
               /\ call'[d].pc = "idle" => d \notin stored'
    BY <1>2, <2>1 DEF IInv, CallsOK
  <2>3. /\ c \in handlers' <=> call'[c].promise = "pending"
        /\ call'[c].pc = "threw" => c \notin handlers'
        /\ call'[c].promise = "resolved" => c \in answers'
        /\ call'[c].token = NoToken <=> call'[c].method # "paid"
        /\ call'[c].pc = "idle" => c \notin stored'
    BY <1>1, <1>2
  <2> QED
    BY <2>2, <2>3 DEF CallsOK
<1>6. \A d \in stored : /\ d \in stored'
                        /\ call'[d].method = call[d].method /\ call'[d].token = call[d].token
  BY <1>1, <1>3 DEF IInv, TypeOK
<1> QED
  BY <1>4, <1>5, <1>6, PeerKeeps

(* What is known of a call before a step.                                  *)
LEMMA Known ==
    ASSUME IInv, NEW c \in Calls
    PROVE  /\ call[c] \in Ask /\ call \in [Calls -> Ask]
           /\ handlers \subseteq Calls /\ faults \in Nat /\ link \in {"live", "dead", "stale"}
           /\ c \in handlers <=> call[c].promise = "pending"
           /\ call[c].pc = "threw" => c \notin handlers
           /\ call[c].promise = "resolved" => c \in answers
           /\ call[c].token = NoToken <=> call[c].method # "paid"
           /\ call[c].pc = "idle" => c \notin stored
  BY DEF IInv, TypeOK, CallsOK

LEMMA RequestKeeps ==
    ASSUME IInv, NEW c \in Calls, Request(c), UNCHANGED bound
    PROVE  IInv'
<1>1. PICK m \in bound.methods, t \in Tokens \cup {NoToken} :
        /\ t = NoToken <=> m # "paid"
        /\ call' = [call EXCEPT ![c] = [pc |-> "connect", method |-> m, token |-> t,
                                        promise |-> "pending"]]
  BY DEF Request
<1>2. m \in Methods
  BY BoundsAssumption DEF IInv, TypeOK
<1> DEFINE q == [pc |-> "connect", method |-> m, token |-> t, promise |-> "pending"]
<1>3. /\ q \in Ask /\ q.promise = "pending" /\ q.pc = "connect" /\ q.method = m /\ q.token = t
  BY <1>2 DEF Ask
<1>4. call' = [call EXCEPT ![c] = q]
  BY <1>1
<1> HIDE DEF q
<1>5. c \notin stored /\ handlers' = handlers \cup {c}
      /\ UNCHANGED <<link, stored, serverVars, faults>>
  BY Known DEF Request
<1> QED
  BY <1>1, <1>3, <1>4, <1>5, Known, CallKeeps

(* The steps that move a call on, settle it, or end it by an error.        *)
LEMMA MovedKeeps ==
    ASSUME IInv, NEW c \in Calls,
           NEW pc \in {"connect", "publish", "reconnect", "republish", "waiting"},
           call' = [call EXCEPT ![c].pc = pc], handlers' = handlers,
           stored' = stored \/ stored' = stored \cup {c},
           link' \in {"live", "dead", "stale"}, faults' \in Nat,
           UNCHANGED <<serverVars, bound>>
    PROVE  IInv'
<1> DEFINE q == [call[c] EXCEPT !.pc = pc]
<1>1. /\ q \in Ask /\ q.pc = pc /\ q.promise = call[c].promise
      /\ q.method = call[c].method /\ q.token = call[c].token
  BY Known DEF Ask
<1>2. call' = [call EXCEPT ![c] = q]
  BY Known
<1> HIDE DEF q
<1>3. /\ c \in handlers' <=> q.promise = "pending"
      /\ q.pc # "threw" /\ q.pc # "idle"
      /\ q.promise = "resolved" => c \in answers
      /\ q.token = NoToken <=> q.method # "paid"
      /\ handlers' \subseteq Calls
  BY <1>1, Known
<1> QED
  BY <1>1, <1>2, <1>3, CallKeeps

LEMMA SettledKeeps ==
    ASSUME IInv, NEW c \in Calls, c \in handlers,
           NEW how \in {"resolved", "rejected"}, how = "resolved" => c \in answers,
           Settle(c, how), UNCHANGED <<link, stored, serverVars, faults, bound>>
    PROVE  IInv'
<1> DEFINE q == [call[c] EXCEPT !.promise = how]
<1>1. /\ q \in Ask /\ q.pc = call[c].pc /\ q.promise = how
      /\ q.method = call[c].method /\ q.token = call[c].token
  BY Known DEF Ask
<1>2. call' = [call EXCEPT ![c] = q] /\ handlers' = handlers \ {c}
  BY Known DEF Settle
<1> HIDE DEF q
<1> QED
  BY <1>1, <1>2, Known, CallKeeps

LEMMA AbortKeeps ==
    ASSUME IInv, NEW c \in Calls, Abort(c),
           stored' = stored \/ stored' = stored \cup {c},
           faults' \in Nat, UNCHANGED <<link, serverVars, bound>>
    PROVE  IInv'
<1> DEFINE q == [call[c] EXCEPT !.pc = "threw",
                                !.promise = IF c \in handlers THEN "rejected" ELSE @]
<1>1. /\ q \in Ask /\ q.pc = "threw" /\ q.promise # "pending"
      /\ q.promise = "resolved" => c \in answers
      /\ q.method = call[c].method /\ q.token = call[c].token
  BY Known DEF Ask
<1>2. call' = [call EXCEPT ![c] = q] /\ handlers' = handlers \ {c}
  BY Known DEF Abort
<1> HIDE DEF q
<1> QED
  BY <1>1, <1>2, Known, CallKeeps

LEMMA LinkKeeps ==
    ASSUME IInv, link' \in {"live", "dead", "stale"}, faults' \in Nat,
           UNCHANGED <<call, handlers, stored, serverVars, bound>>
    PROVE  IInv'
<1>1. UNCHANGED <<answers, engine, run, marked, spent>>
  BY DEF serverVars
<1>2. TypeOK'
  BY <1>1 DEF IInv, TypeOK
<1>3. CallsOK'
  BY <1>1 DEF IInv, CallsOK
<1> QED
  BY <1>2, <1>3, PeerKeeps

LEMMA PeerStepKeeps ==
    ASSUME IInv, NEW c \in Calls, UNCHANGED bound,
           Request(c) \/ PublishStep(c) \/ Timeout(c) \/ Answer(c)
    PROVE  IInv'
<1>1. CASE Request(c)
  BY <1>1, RequestKeeps
<1>2. CASE Connect(c)
  <2>1. PICK pc \in {"publish", "republish"} : call' = [call EXCEPT ![c].pc = pc]
    BY <1>2, Known DEF Connect
  <2>2. link' \in {"live", "dead", "stale"}
    BY <1>2, Known DEF Connect, Connected
  <2> QED
    BY <1>2, <2>1, <2>2, Known, MovedKeeps DEF Connect
<1>3. CASE Published(c)
  BY <1>3, Known, MovedKeeps DEF Published
<1>4. CASE PublishFails(c)
  <2>1. faults' \in Nat
    BY <1>4, Known DEF PublishFails
  <2>2. stored' = stored \/ stored' = stored \cup {c}
    BY <1>4 DEF PublishFails
  <2> QED
    BY <1>4, <2>1, <2>2, MovedKeeps DEF PublishFails
<1>5. CASE RepublishFails(c)
  <2>1. faults' \in Nat
    BY <1>5, Known DEF RepublishFails
  <2>2. stored' = stored \/ stored' = stored \cup {c}
    BY <1>5 DEF RepublishFails
  <2> QED
    BY <1>5, <2>1, <2>2, AbortKeeps DEF RepublishFails
<1>6. CASE Timeout(c)
  BY <1>6, SettledKeeps DEF Timeout, TimerArmed
<1>7. CASE Answer(c)
  BY <1>7, SettledKeeps DEF Answer
<1> QED
  BY <1>1, <1>2, <1>3, <1>4, <1>5, <1>6, <1>7 DEF PublishStep

LEMMA LinkStepKeeps ==
    ASSUME IInv, LinkLost \/ Keepalive, UNCHANGED bound
    PROVE  IInv'
<1>0. faults \in Nat /\ link \in {"live", "dead", "stale"}
  BY DEF IInv, TypeOK
<1>1. CASE LinkLost
  BY <1>0, <1>1, LinkKeeps DEF LinkLost
<1>2. CASE Keepalive
  <2>1. link' \in {"live", "dead", "stale"}
    BY <1>0, <1>2 DEF Keepalive, Connected
  <2> QED
    BY <1>0, <1>2, <2>1, LinkKeeps DEF Keepalive
<1> QED
  BY <1>1, <1>2

-----------------------------------------------------------------------------
(* The server's side.  What is known of a run before a step.               *)
LEMMA KnownRun ==
    ASSUME IInv, NEW s \in Slots
    PROVE  /\ run[s] \in Run /\ run \in [Slots -> Run] /\ engine \in Seq(Handlers)
           /\ Attached(s) /\ Replied(s) /\ Following(s) /\ Charged(s)
           /\ run[s].pc # "idle" =>
                /\ run[s].call \in Calls /\ run[s].call \in stored
                /\ Call(s).method \in Methods
                /\ Call(s).token \in Tokens <=> Call(s).method = "paid"
<1>1. run[s] \in Run /\ run \in [Slots -> Run] /\ stored \subseteq Calls
  BY DEF IInv, TypeOK
<1>2. Attached(s) /\ Replied(s) /\ Following(s) /\ Charged(s)
  BY DEF IInv
<1>3. engine \in Seq(Handlers)
  <2>1. <<>> \in Seq(Handlers)
    OBVIOUS
  <2>2. \A m \in Methods \ {"absent"} : Chain(m) \in Seq(Handlers)
    BY Routable DEF Routed
  <2> QED
    BY <2>1, <2>2 DEF IInv, TypeOK
<1>4. ASSUME run[s].pc # "idle"
      PROVE  /\ run[s].call \in Calls /\ run[s].call \in stored
             /\ Call(s).method \in Methods
             /\ Call(s).token \in Tokens <=> Call(s).method = "paid"
  <2>1. run[s].call \in Calls /\ run[s].call \in stored
    BY <1>1, <1>2, <1>4 DEF Attached
  <2>2. /\ Call(s) \in Ask
        /\ Call(s).token = NoToken <=> Call(s).method # "paid"
    BY <2>1, Known DEF Call
  <2> QED
    BY <2>1, <2>2, TokensAssumption DEF Ask
<1> QED
  BY <1>1, <1>2, <1>3, <1>4

(* A step of one run: what the server knows only grows, and the other runs *)
(* stay as they are.                                                       *)
Grown ==
    /\ UNCHANGED <<peerVars, stored, bound>> /\ faults' \in Nat
    /\ answers \subseteq answers' /\ answers' \subseteq stored
    /\ spent \subseteq spent' /\ spent' \subseteq Tokens
    /\ marked' \subseteq answers'

LEMMA OthersKept ==
    ASSUME IInv, Grown, NEW r \in Slots, run'[r] = run[r], engine' = engine
    PROVE  (Attached(r) /\ Replied(r) /\ Following(r) /\ Charged(r))'
<1>1. Attached(r) /\ Replied(r) /\ Following(r) /\ Charged(r)
  BY DEF IInv
<1>2. call' = call /\ stored' = stored /\ Call(r)' = Call(r)
  BY DEF Grown, peerVars, Call
<1>3. Attached(r)' /\ Replied(r)'
  BY <1>1, <1>2 DEF Attached, Dispatched, Replied, Grown
<1>4. Following(r)'
  BY <1>1, <1>2 DEF Following, Dispatched
<1>5. Charged(r)'
  BY <1>1, <1>2 DEF Charged, Grown
<1> QED
  BY <1>3, <1>4, <1>5

LEMMA ServerTypes ==
    ASSUME IInv, Grown, run' \in [Slots -> Run],
           engine' \in {<<>>} \cup {Chain(m) : m \in Methods \ {"absent"}}
    PROVE  TypeOK' /\ CallsOK'
<1>1. UNCHANGED <<call, handlers, link, stored, bound>>
  BY DEF Grown, peerVars
<1>2. TypeOK'
  BY <1>1 DEF IInv, TypeOK, Grown
<1>3. CallsOK'
  BY <1>1 DEF IInv, CallsOK, Grown
<1> QED
  BY <1>2, <1>3

LEMMA ServerKeeps ==
    ASSUME IInv, Grown, engine' = engine, NEW s \in Slots, NEW q \in Run, Step(s, q),
           (Attached(s) /\ Replied(s) /\ Following(s) /\ Charged(s))'
    PROVE  IInv'
<1>1. run' \in [Slots -> Run] /\ \A r \in Slots \ {s} : run'[r] = run[r]
  BY KnownRun DEF Step
<1>2. TypeOK' /\ CallsOK'
  BY <1>1, ServerTypes DEF IInv, TypeOK
<1>3. ASSUME NEW r \in Slots
      PROVE  (Attached(r) /\ Replied(r) /\ Following(r) /\ Charged(r))'
  BY <1>1, OthersKept
<1> QED
  BY <1>2, <1>3 DEF IInv, Grown

(* A step of a run between its first handler and its end.                  *)
Advances(s, q) ==
    /\ q \in Run /\ q.call = run[s].call /\ q.pc \notin {"idle", "received"}
    /\ q.disturbed = run[s].disturbed /\ q.late = run[s].late

LEMMA AdvanceKeeps ==
    ASSUME IInv, Grown, engine' = engine, NEW s \in Slots, NEW q, Step(s, q),
           Dispatched(s), run[s].pc # "handled", Advances(s, q),
           q.sent \/ q.pc = "handled" => q.call \in answers',
           ~q.disturbed \/ Call(s).method = "open" => Along(q, Chain(Call(s).method)),
           q.pays \/ q.pc \in {"validated", "unspent"} => Call(s).method = "paid",
           q.late /\ ~q.disturbed => q.pc \notin {"unspent", "serve"} /\ ~q.pays
    PROVE  IInv'
<1>1. /\ Attached(s) /\ Replied(s) /\ Following(s) /\ Charged(s)
      /\ run[s].call \in stored /\ run[s].call \in Calls /\ run \in [Slots -> Run]
  BY KnownRun DEF Dispatched
<1>2. run'[s] = q /\ call' = call /\ stored' = stored /\ Call(s)' = Call(s)
  BY <1>1 DEF Step, Grown, peerVars, Call, Advances
<1>3. Attached(s)'
  BY <1>1, <1>2 DEF Attached, Dispatched, Advances, Calls, NoCall
<1>4. Replied(s)'
  BY <1>2 DEF Replied
<1>5. Call(s).method # "absent"
  BY <1>1 DEF Following
<1>6. Following(s)'
  BY <1>1, <1>2, <1>5 DEF Following, Dispatched, Advances
<1>7. Charged(s)'
  BY <1>1, <1>2 DEF Charged, Advances, Grown
<1> QED
  BY <1>3, <1>4, <1>6, <1>7, ServerKeeps DEF Advances

(* What Send and NotSent add to what the server knows.                     *)
LEMMA Sends ==
    ASSUME IInv, NEW s \in Slots, run[s].pc # "idle", Send(s) \/ NotSent,
           UNCHANGED <<peerVars, stored, marked, bound>>, faults' \in Nat,
           spent \subseteq spent', spent' \subseteq Tokens
    PROVE  Grown /\ (Send(s) => run[s].call \in answers') /\ answers \subseteq answers'
  BY KnownRun DEF IInv, TypeOK, Send, NotSent, Grown

(* A run whose own handlers stay what they were.                           *)
LEMMA StaysAlong ==
    ASSUME IInv, NEW s \in Slots, Dispatched(s), run[s].pc # "handled",
           NEW q \in Run, q.ran = run[s].ran,
           q.pc \in {"validated", "unspent", "returning", "handled"},
           q.pc \in {"validated", "unspent"} => run[s].pc \in {"auth", "validated"},
           ~run[s].disturbed \/ Call(s).method = "open"
    PROVE  Along(q, Chain(Call(s).method))
<1>1. Along(run[s], Chain(Call(s).method))
  BY KnownRun DEF Following
<1> QED
  BY <1>1 DEF Along

(* A run that goes on with next().                                         *)
LEMMA GoesAlong ==
    ASSUME IInv, NEW s \in Slots, Dispatched(s), run[s].pc \in {"log", "auth", "unspent"},
           NEW q \in Run, q.ran = run[s].ran, q.pc = run[s].pc,
           ~run[s].disturbed \/ Call(s).method = "open"
    PROVE  /\ Along(Continue(q, engine), Chain(Call(s).method))
           /\ ~run[s].disturbed
           /\ Along(q, Chain(Call(s).method)) /\ engine = Chain(Call(s).method)
<1>1. Following(s) /\ Call(s).method \in Methods /\ engine \in Seq(Handlers)
  BY KnownRun DEF Dispatched
<1>2. Call(s).method # "absent" /\ Along(run[s], Chain(Call(s).method))
  BY <1>1 DEF Following
<1>3. Along(q, Chain(Call(s).method))
  BY <1>2 DEF Along
<1>4. Call(s).method # "open"
  <2>1. SUFFICES ASSUME Call(s).method = "open" PROVE FALSE
    OBVIOUS
  <2>2. Len(run[s].ran) = 1
    BY <1>2, <2>1, Routes DEF Along
  <2>3. Chain("open")[Len(run[s].ran)].kind \in {"log", "auth"}
    BY <1>2, <2>1 DEF Along
  <2> QED
    BY <2>2, <2>3, Routes
<1>5. ~run[s].disturbed /\ engine = Chain(Call(s).method)
  BY <1>1, <1>2, <1>4 DEF Following
<1> QED
  BY <1>1, <1>3, <1>5, ContinueAlong

(* A run that was late, and that no other chain has overtaken.             *)
LEMMA LateRun ==
    ASSUME IInv, NEW s \in Slots, Dispatched(s), run[s].pc # "handled",
           run[s].late, ~run[s].disturbed
    PROVE  /\ Call(s).method = "paid" /\ Call(s).token \in spent
           /\ run[s].pc \in {"auth", "validated", "returning"} /\ ~run[s].pays
<1>1. Charged(s) /\ Following(s) /\ run[s] \in Run
  BY KnownRun
<1>2. Call(s).token \in spent /\ run[s].pc \notin {"unspent", "serve"} /\ ~run[s].pays
  BY <1>1 DEF Charged
<1>3. Call(s).method = "paid"
  BY <1>2, KnownRun DEF Dispatched, IInv, TypeOK
<1>4. Along(run[s], Chain("paid"))
  BY <1>1, <1>3 DEF Following
<1>5. run[s].pc # "log"
  <2>1. /\ Len(run[s].ran) \in 1..2
        /\ run[s].pc = "log" => Chain("paid")[Len(run[s].ran)].kind = "log"
    BY <1>4, Routes DEF Along
  <2>2. Len(run[s].ran) = 1 \/ Len(run[s].ran) = 2
    BY <2>1
  <2> QED
    BY <2>1, <2>2, Routes
<1> QED
  BY <1>1, <1>2, <1>3, <1>5 DEF Run, Dispatched

LEMMA NextKeeps ==
    ASSUME IInv, NEW s \in Slots, run[s].pc \in {"log", "auth", "unspent"},
           NEW p \in Run, p.ran = run[s].ran, p.pc = run[s].pc, p.call = run[s].call,
           p.sent = run[s].sent, p.disturbed = run[s].disturbed, p.late = run[s].late,
           p.pays => Call(s).method = "paid",
           ~(run[s].late /\ ~run[s].disturbed),
           Step(s, Continue(p, engine)), NotSent,
           UNCHANGED <<peerVars, stored, engine, marked, spent, faults, bound>>
    PROVE  IInv'
<1>1. Dispatched(s) /\ run[s].pc # "handled" /\ run[s].pc # "idle"
  BY DEF Dispatched
<1>2. Going(p, Continue(p, engine))
  BY KnownRun, ContinueFacts
<1>3. ~run[s].disturbed \/ Call(s).method = "open" =>
        Along(Continue(p, engine), Chain(Call(s).method))
  BY <1>1, GoesAlong
<1>4. Replied(s) /\ faults' \in Nat /\ spent \subseteq spent' /\ spent' \subseteq Tokens
  BY DEF IInv, TypeOK
<1>5. Grown /\ answers \subseteq answers'
  BY <1>1, <1>4, Sends
<1> DEFINE q == Continue(p, engine)
<1>6. Going(p, q) /\ Step(s, q)
      /\ (~run[s].disturbed \/ Call(s).method = "open" => Along(q, Chain(Call(s).method)))
  BY <1>2, <1>3
<1> HIDE DEF q
<1>7. Advances(s, q)
  BY <1>6 DEF Advances, Going
<1>8. q.sent \/ q.pc = "handled" => q.call \in answers'
  BY <1>4, <1>5, <1>6 DEF Replied, Going
<1>9. /\ q.pays \/ q.pc \in {"validated", "unspent"} => Call(s).method = "paid"
      /\ ~(q.late /\ ~q.disturbed) /\ q.disturbed = run[s].disturbed
  BY <1>6 DEF Going
<1> QED
  BY <1>1, <1>5, <1>6, <1>7, <1>8, <1>9, AdvanceKeeps

LEMMA StayKeeps ==
    ASSUME IInv, NEW s \in Slots, Dispatched(s), run[s].pc # "handled",
           NEW q \in Run, q.ran = run[s].ran, q.call = run[s].call,
           q.disturbed = run[s].disturbed, q.late = run[s].late,
           q.pc \in {"validated", "unspent", "returning", "handled"},
           q.pc = "validated" => run[s].pc = "auth" /\ Call(s).method = "paid",
           q.pc = "unspent" => run[s].pc = "validated" /\ Call(s).token \notin spent,
           q.pays => run[s].pays,
           Send(s) \/ (NotSent /\ q.pc # "handled" /\ (q.sent => run[s].sent))
               \/ (NotSent /\ run[s].sent),
           Step(s, q), UNCHANGED <<peerVars, stored, engine, marked, bound>>,
           faults' \in Nat, spent \subseteq spent', spent' \subseteq Tokens
    PROVE  IInv'
<1>1. Replied(s) /\ Charged(s) /\ run[s].pc # "idle"
  BY KnownRun DEF Dispatched
<1>2. Grown /\ (Send(s) => run[s].call \in answers') /\ answers \subseteq answers'
  BY <1>1, Sends
<1>3. ~q.disturbed \/ Call(s).method = "open" => Along(q, Chain(Call(s).method))
  BY StaysAlong
<1>4. Advances(s, q)
  BY DEF Advances
<1>5. q.sent \/ q.pc = "handled" => q.call \in answers'
  BY <1>1, <1>2 DEF Replied
<1>6. q.pays \/ q.pc \in {"validated", "unspent"} => Call(s).method = "paid"
  BY <1>1 DEF Charged
<1>7. q.late /\ ~q.disturbed => q.pc \notin {"unspent", "serve"} /\ ~q.pays
  BY LateRun
<1> QED
  BY <1>2, <1>3, <1>4, <1>5, <1>6, <1>7, AdvanceKeeps

(* What the server has recorded, in a step that records no token.          *)
LEMMA Recorded ==
    ASSUME IInv, UNCHANGED <<spent, faults>>
    PROVE  faults' \in Nat /\ spent \subseteq spent' /\ spent' \subseteq Tokens
  BY DEF IInv, TypeOK

LEMMA LogKeeps ==
    ASSUME IInv, NEW s \in Slots, Log(s), UNCHANGED bound
    PROVE  IInv'
<1>1. run[s] \in Run /\ Charged(s) /\ run[s].pc = "log" /\ Dispatched(s)
  BY KnownRun DEF Log, At, Dispatched
<1>2. ~(run[s].late /\ ~run[s].disturbed)
  BY <1>1, LateRun
<1>3. run[s].pays => Call(s).method = "paid"
  BY <1>1 DEF Charged
<1> QED
  BY <1>1, <1>2, <1>3, NextKeeps DEF Log

LEMMA RefuseKeeps ==
    ASSUME IInv, NEW s \in Slots, Refuse(s), run[s].pc \in {"auth", "validated"},
           UNCHANGED <<peerVars, stored, engine, marked, spent, faults, bound>>
    PROVE  IInv'
<1> DEFINE q == [run[s] EXCEPT !.pc = "returning", !.sent = TRUE]
<1>1. /\ q \in Run /\ q.pc = "returning" /\ q.sent /\ q.ran = run[s].ran /\ q.call = run[s].call
      /\ q.disturbed = run[s].disturbed /\ q.late = run[s].late /\ q.pays = run[s].pays
  BY KnownRun DEF Run
<1>2. Step(s, q) /\ Send(s) /\ Dispatched(s)
  BY DEF Refuse, Dispatched
<1> HIDE DEF q
<1> QED
  BY <1>1, <1>2, Recorded, StayKeeps

LEMMA AuthKeeps ==
    ASSUME IInv, NEW s \in Slots, Auth(s), UNCHANGED bound
    PROVE  IInv'
<1>1. run[s] \in Run /\ Charged(s) /\ run[s].pc = "auth" /\ Dispatched(s)
  BY KnownRun DEF Auth, At, Dispatched
<1>2. CASE Call(s).method # "paid"
  <2>1. Step(s, Continue(run[s], engine)) /\ NotSent
    BY <1>2 DEF Auth
  <2>2. ~(run[s].late /\ ~run[s].disturbed)
    BY <1>1, <1>2, LateRun
  <2>3. run[s].pays => Call(s).method = "paid"
    BY <1>1 DEF Charged
  <2> QED
    BY <1>1, <2>1, <2>2, <2>3, NextKeeps DEF Auth
<1>3. CASE Call(s).method = "paid"
  <2>1. (Step(s, [run[s] EXCEPT !.pc = "validated"]) /\ NotSent) \/ Refuse(s)
    BY <1>3 DEF Auth
  <2>2. CASE Refuse(s)
    BY <1>1, <2>2, RefuseKeeps DEF Auth
  <2>3. CASE Step(s, [run[s] EXCEPT !.pc = "validated"]) /\ NotSent
    <3> DEFINE q == [run[s] EXCEPT !.pc = "validated"]
    <3>1. /\ q \in Run /\ q.pc = "validated" /\ q.sent = run[s].sent /\ q.ran = run[s].ran
          /\ q.call = run[s].call /\ q.disturbed = run[s].disturbed
          /\ q.late = run[s].late /\ q.pays = run[s].pays
      BY <1>1 DEF Run
    <3>2. Step(s, q) /\ NotSent
      BY <2>3
    <3> HIDE DEF q
    <3> QED
      BY <1>1, <1>3, <3>1, <3>2, Recorded, StayKeeps DEF Auth
  <2> QED
    BY <2>1, <2>2, <2>3
<1> QED
  BY <1>2, <1>3

LEMMA AuthReadKeeps ==
    ASSUME IInv, NEW s \in Slots, AuthRead(s), UNCHANGED bound
    PROVE  IInv'
<1>1. run[s] \in Run /\ Charged(s) /\ run[s].pc = "validated" /\ Dispatched(s)
  BY KnownRun DEF AuthRead, At, Dispatched
<1>2. CASE Call(s).token \in spent
  BY <1>1, <1>2, RefuseKeeps DEF AuthRead, IsTokenSpent
<1>3. CASE Call(s).token \notin spent
  <2> DEFINE q == [run[s] EXCEPT !.pc = "unspent"]
  <2>1. /\ q \in Run /\ q.pc = "unspent" /\ q.sent = run[s].sent /\ q.ran = run[s].ran
        /\ q.call = run[s].call /\ q.disturbed = run[s].disturbed
        /\ q.late = run[s].late /\ q.pays = run[s].pays
    BY <1>1 DEF Run
  <2>2. Step(s, q) /\ NotSent
    BY <1>3 DEF AuthRead, IsTokenSpent
  <2> HIDE DEF q
  <2> QED
    BY <1>1, <1>3, <2>1, <2>2, Recorded, StayKeeps DEF AuthRead
<1> QED
  BY <1>2, <1>3

LEMMA AuthNextKeeps ==
    ASSUME IInv, NEW s \in Slots, AuthNext(s), UNCHANGED bound
    PROVE  IInv'
<1>1. run[s] \in Run /\ Charged(s) /\ run[s].pc = "unspent" /\ Dispatched(s)
  BY KnownRun DEF AuthNext, At, Dispatched
<1> DEFINE p == [run[s] EXCEPT !.pays = TRUE]
<1>2. /\ p \in Run /\ p.pc = "unspent" /\ p.sent = run[s].sent /\ p.ran = run[s].ran
      /\ p.call = run[s].call /\ p.disturbed = run[s].disturbed /\ p.late = run[s].late
  BY <1>1 DEF Run
<1>3. Step(s, Continue(p, engine)) /\ NotSent
  BY DEF AuthNext
<1> HIDE DEF p
<1>4. ~(run[s].late /\ ~run[s].disturbed) /\ Call(s).method = "paid"
  BY <1>1 DEF Charged
<1> QED
  BY <1>1, <1>2, <1>3, <1>4, NextKeeps DEF AuthNext

LEMMA ServeKeeps ==
    ASSUME IInv, NEW s \in Slots, Serve(s), UNCHANGED bound
    PROVE  IInv'
<1>1. run[s] \in Run /\ run[s].pc = "serve" /\ Dispatched(s)
  BY KnownRun DEF Serve, At, Dispatched
<1>2. PICK answered \in BOOLEAN :
        /\ Step(s, [run[s] EXCEPT !.pc = "returning", !.sent = answered \/ run[s].sent])
        /\ answered => Send(s)
        /\ ~answered => NotSent
  <2>1. CASE Step(s, [run[s] EXCEPT !.pc = "returning", !.sent = TRUE]) /\ Send(s)
    BY <2>1
  <2>2. CASE Step(s, [run[s] EXCEPT !.pc = "returning"]) /\ NotSent
    <3>1. [run[s] EXCEPT !.pc = "returning"]
            = [run[s] EXCEPT !.pc = "returning", !.sent = FALSE \/ run[s].sent]
      BY <1>1 DEF Run
    <3> QED
      BY <2>2, <3>1
  <2> QED
    BY <2>1, <2>2 DEF Serve
<1> DEFINE q == [run[s] EXCEPT !.pc = "returning", !.sent = answered \/ run[s].sent]
<1>3. /\ q \in Run /\ q.pc = "returning" /\ q.sent = (answered \/ run[s].sent)
      /\ q.ran = run[s].ran /\ q.call = run[s].call
      /\ q.disturbed = run[s].disturbed /\ q.late = run[s].late /\ q.pays = run[s].pays
  BY <1>1 DEF Run
<1>4. Step(s, q)
  BY <1>2
<1> HIDE DEF q
<1> QED
  BY <1>1, <1>2, <1>3, <1>4, Recorded, StayKeeps DEF Serve

LEMMA HandledKeeps ==
    ASSUME IInv, NEW s \in Slots, Dispatched(s), run[s].pc # "handled",
           Step(s, [run[s] EXCEPT !.pc = "handled"]), Send(s) \/ (NotSent /\ run[s].sent),
           UNCHANGED <<peerVars, stored, engine, marked, spent, faults, bound>>
    PROVE  IInv'
<1> DEFINE q == [run[s] EXCEPT !.pc = "handled"]
<1>1. /\ q \in Run /\ q.pc = "handled" /\ q.sent = run[s].sent
      /\ q.ran = run[s].ran /\ q.call = run[s].call
      /\ q.disturbed = run[s].disturbed /\ q.late = run[s].late /\ q.pays = run[s].pays
  BY KnownRun DEF Run
<1>2. Step(s, q)
  OBVIOUS
<1> HIDE DEF q
<1> QED
  BY <1>1, <1>2, Recorded, StayKeeps

LEMMA ThrowsKeeps ==
    ASSUME IInv, NEW s \in Slots, Throws(s), UNCHANGED bound
    PROVE  IInv'
<1>1. Dispatched(s) /\ run[s].pc # "handled"
  BY DEF Throws, Dispatched
<1> QED
  BY <1>1, HandledKeeps DEF Throws

LEMMA ReturnKeeps ==
    ASSUME IInv, NEW s \in Slots, Return(s), UNCHANGED bound
    PROVE  IInv'
<1>1. Dispatched(s) /\ run[s].pc # "handled"
  BY DEF Return, At, Dispatched
<1> QED
  BY <1>1, HandledKeeps DEF Return

LEMMA MarkTokenKeeps ==
    ASSUME IInv, NEW s \in Slots, MarkToken(s), UNCHANGED bound
    PROVE  IInv'
<1>1. run[s] \in Run /\ Charged(s) /\ run[s].pc = "returning" /\ run[s].pays /\ Dispatched(s)
  BY KnownRun DEF MarkToken, At, Dispatched
<1>2. Call(s).token \in Tokens
  BY <1>1, KnownRun DEF Charged
<1>3. faults' \in Nat /\ spent \subseteq spent' /\ spent' \subseteq Tokens
  BY <1>2 DEF MarkToken, IInv, TypeOK
<1> DEFINE q == [run[s] EXCEPT !.pays = FALSE]
<1>4. /\ q \in Run /\ q.pc = "returning" /\ q.sent = run[s].sent /\ ~q.pays
      /\ q.ran = run[s].ran /\ q.call = run[s].call
      /\ q.disturbed = run[s].disturbed /\ q.late = run[s].late
  BY <1>1 DEF Run
<1>5. Step(s, q) /\ NotSent
  BY DEF MarkToken
<1> HIDE DEF q
<1> QED
  BY <1>1, <1>3, <1>4, <1>5, StayKeeps DEF MarkToken

LEMMA FreshRun ==
    /\ IdleRun \in Run /\ IdleRun.pc = "idle" /\ IdleRun.call = NoCall /\ IdleRun.ran = <<>>
    /\ ~IdleRun.pays /\ ~IdleRun.sent /\ ~IdleRun.disturbed /\ ~IdleRun.late
<1>1. <<>> \in Seq(Handlers)
  OBVIOUS
<1> QED
  BY <1>1 DEF IdleRun, Run

LEMMA ReceiveKeeps ==
    ASSUME IInv, NEW s \in Slots, NEW c \in Calls, Receive(s, c), UNCHANGED bound
    PROVE  IInv'
<1> DEFINE q == [IdleRun EXCEPT !.pc = "received", !.call = c]
<1>1. /\ q \in Run /\ q.pc = "received" /\ q.call = c /\ q.ran = <<>>
      /\ ~q.pays /\ ~q.sent /\ ~q.disturbed /\ ~q.late
  BY FreshRun DEF Run
<1>2. Step(s, q)
  BY DEF Receive, Step
<1> HIDE DEF q
<1>3. run'[s] = q /\ c # NoCall /\ c \in stored /\ stored' = stored
  BY <1>2, KnownRun DEF Step, Calls, NoCall, Receive
<1>4. Grown /\ engine' = engine
  BY DEF Receive, Grown, IInv, TypeOK
<1>5. (Attached(s) /\ Replied(s) /\ Following(s) /\ Charged(s))'
  BY <1>1, <1>3 DEF Attached, Replied, Following, Charged, Dispatched
<1> QED
  BY <1>1, <1>2, <1>4, <1>5, ServerKeeps

LEMMA FinishKeeps ==
    ASSUME IInv, NEW s \in Slots, Finish(s), UNCHANGED bound
    PROVE  IInv'
<1>1. run[s].pc = "handled" /\ Replied(s) /\ Step(s, IdleRun) /\ engine' = engine
  BY KnownRun DEF Finish, At
<1>2. Grown
  BY <1>1 DEF Finish, Replied, NotSent, Grown, IInv, TypeOK
<1>3. run'[s] = IdleRun
  BY <1>1, KnownRun DEF Step
<1>4. (Attached(s) /\ Replied(s) /\ Following(s) /\ Charged(s))'
  BY <1>3, FreshRun DEF Attached, Replied, Following, Charged, Dispatched
<1> QED
  BY <1>1, <1>2, <1>4, FreshRun, ServerKeeps

(* The router: a request for no route is answered at once.                 *)
LEMMA AbsentKeeps ==
    ASSUME IInv, NEW s \in Slots, Dispatch(s), Call(s).method = "absent", UNCHANGED bound
    PROVE  IInv'
<1>1. /\ run[s] \in Run /\ run[s].pc = "received" /\ Attached(s)
      /\ run[s].call \in Calls /\ run[s].call \in stored
  BY KnownRun DEF Dispatch, At
<1> DEFINE q == [run[s] EXCEPT !.pc = "handled"]
<1>2. /\ q \in Run /\ q.pc = "handled" /\ q.call = run[s].call /\ q.ran = <<>>
      /\ ~q.pays /\ ~q.sent /\ ~q.disturbed /\ ~q.late
  BY <1>1 DEF Run, Attached, Dispatched
<1>3. Step(s, q) /\ Send(s) /\ engine' = engine
  BY DEF Dispatch
<1> HIDE DEF q
<1>4. Grown /\ q.call \in answers'
  BY <1>1, <1>2, <1>3, Recorded, Sends DEF Dispatch
<1>5. run'[s] = q /\ call' = call /\ stored' = stored /\ Call(s)'.method = "absent"
  BY <1>2, <1>3, <1>4, KnownRun DEF Step, Grown, peerVars, Call
<1>6. (Attached(s) /\ Replied(s) /\ Following(s) /\ Charged(s))'
  BY <1>1, <1>2, <1>4, <1>5 DEF Attached, Replied, Following, Charged, Dispatched, Calls, NoCall
<1> QED
  BY <1>2, <1>3, <1>4, <1>6, ServerKeeps

(* Any other is given the first handler of its route, whose chain takes    *)
(* the place of what was installed; the runs it overtakes are disturbed.   *)
LEMMA StartKeeps ==
    ASSUME IInv, NEW s \in Slots, Dispatch(s), Call(s).method # "absent", UNCHANGED bound
    PROVE  IInv'
<1>1. /\ run[s] \in Run /\ run \in [Slots -> Run] /\ run[s].pc = "received" /\ Attached(s)
      /\ run[s].call \in Calls /\ run[s].call \in stored /\ Call(s).method \in Routed
      /\ Call(s).token \in Tokens <=> Call(s).method = "paid"
  BY KnownRun DEF Dispatch, At, Routed
<1> DEFINE chain == Chain(Call(s).method)
           late == Call(s).token \in spent
           p == [run[s] EXCEPT !.late = late]
           q == Continue(p, chain)
<1>2. /\ engine' = chain /\ NotSent
      /\ run' = [r \in Slots |->
                  IF r = s THEN q
                  ELSE [run[r] EXCEPT !.disturbed =
                          @ \/ (run[r].pc \notin {"idle", "received"} /\ engine # chain)]]
  BY DEF Dispatch
<1>3. chain \in Seq(Handlers) /\ Len(chain) > 0
  <2>1. chain \in Seq(Handlers) /\ Len(chain) \in {1, 2}
    BY <1>1, Routable
  <2>2. \A n \in {1, 2} : n > 0
    OBVIOUS
  <2> QED
    BY <2>1, <2>2
<1>4. late \in BOOLEAN
  OBVIOUS
<1> HIDE DEF late
<1>5. /\ p \in Run /\ p.call = run[s].call /\ p.ran = <<>> /\ ~p.pays /\ ~p.sent /\ ~p.disturbed
      /\ p.late = late
  BY <1>1, <1>4 DEF Run, Attached, Dispatched
<1> HIDE DEF p
<1>6. Going(p, q) /\ Along(q, chain)
  BY <1>3, <1>5, ContinueFacts, ContinueAlong
<1>7. run'[s] = q
  BY <1>2
<1>8. ASSUME NEW r \in Slots \ {s}
      PROVE  LET b == run[r].disturbed \/ (Dispatched(r) /\ engine # chain) IN
             run'[r] = [run[r] EXCEPT !.disturbed = b] /\ b \in BOOLEAN /\ run[r] \in Run
  BY <1>1, <1>2 DEF Dispatched, Run
<1>9. /\ UNCHANGED <<call, stored>> /\ Grown /\ answers' = answers /\ spent' = spent
  BY <1>2 DEF Dispatch, Grown, NotSent, IInv, TypeOK, peerVars
<1> HIDE DEF q
<1>10. run' \in [Slots -> Run]
  <2>1. \A r \in Slots : run'[r] \in Run
    <3>1. q \in Run
      BY <1>6 DEF Going
    <3>2. ASSUME NEW r \in Slots \ {s} PROVE run'[r] \in Run
      BY <1>8 DEF Run
    <3> QED
      BY <1>7, <3>1, <3>2
  <2>2. run' = [r \in Slots |-> run'[r]]
    BY <1>2
  <2> QED
    BY <2>1, <2>2
<1>11. TypeOK' /\ CallsOK'
  <2>1. engine' \in {<<>>} \cup {Chain(m) : m \in Methods \ {"absent"}}
    BY <1>1, <1>2 DEF Routed
  <2> QED
    BY <1>9, <1>10, <2>1, ServerTypes
<1>12. (Attached(s) /\ Replied(s) /\ Following(s) /\ Charged(s))'
  <2>1. /\ q.call = run[s].call /\ ~q.pays /\ ~q.sent /\ ~q.disturbed
        /\ q.late = late /\ q.pc \in {"log", "auth", "serve", "returning"}
    BY <1>5, <1>6 DEF Going
  <2>2. q.late => Call(s).token \in spent
    BY <2>1 DEF late
  <2>3. Call(s)' = Call(s)
    BY <1>7, <1>9, <2>1 DEF Call
  <2>4. Attached(s)' /\ Replied(s)'
    BY <1>1, <1>7, <1>9, <2>1 DEF Attached, Replied, Dispatched, Calls, NoCall
  <2>5. Following(s)'
    BY <1>1, <1>2, <1>6, <1>7, <2>1, <2>3 DEF Following, Dispatched, Routed
  <2>6. q.late => q.pc # "serve"
    <3>1. SUFFICES ASSUME q.late PROVE q.pc # "serve"
      OBVIOUS
    <3>2. Call(s).method = "paid"
      BY <1>1, <2>2, <3>1 DEF IInv, TypeOK
    <3>3. chain[1].kind = "auth" /\ Len(chain) = 2
      BY <3>2, Routes
    <3>4. Len(p.ran) = 0
      BY <1>5
    <3>5. ~(Len(p.ran) >= Len(chain)) /\ Len(p.ran) + 1 = 1
      BY <3>3, <3>4
    <3>6. q = [p EXCEPT !.pc = chain[1].kind, !.ran = Append(@, chain[1])]
      BY <3>5 DEF q, Continue
    <3> QED
      BY <1>5, <3>3, <3>6 DEF Run
  <2>7. Charged(s)'
    BY <1>7, <1>9, <2>1, <2>2, <2>3, <2>6 DEF Charged
  <2> QED
    BY <2>4, <2>5, <2>7
<1>13. ASSUME NEW r \in Slots \ {s}
       PROVE  (Attached(r) /\ Replied(r) /\ Following(r) /\ Charged(r))'
  <2>1. PICK b \in BOOLEAN : /\ b <=> run[r].disturbed \/ (Dispatched(r) /\ engine # chain)
                             /\ run'[r] = [run[r] EXCEPT !.disturbed = b]
    BY <1>8
  <2>2. /\ run[r] \in Run /\ Attached(r) /\ Replied(r) /\ Following(r) /\ Charged(r)
    BY KnownRun
  <2>3. /\ run'[r].pc = run[r].pc /\ run'[r].call = run[r].call /\ run'[r].ran = run[r].ran
        /\ run'[r].pays = run[r].pays /\ run'[r].sent = run[r].sent
        /\ run'[r].late = run[r].late /\ run'[r].disturbed = b
    BY <2>1, <2>2 DEF Run
  <2>4. Call(r)' = Call(r) /\ (Dispatched(r)' <=> Dispatched(r))
    BY <1>9, <2>3 DEF Call, Dispatched
  <2>5. ~b => ~run[r].disturbed /\ (Dispatched(r) => engine' = engine)
    BY <1>2, <2>1
  <2>6. Attached(r)'
    BY <1>9, <2>1, <2>2, <2>3, <2>4 DEF Attached
  <2>7. Replied(r)'
    BY <1>9, <2>2, <2>3 DEF Replied
  <2>8. Following(r)'
    <3>1. \A ch : Along(run[r], ch) => Along(run[r], ch)'
      BY <2>3 DEF Along
    <3> QED
      BY <2>2, <2>3, <2>4, <2>5, <3>1 DEF Following
  <2>9. Charged(r)'
    BY <1>9, <2>2, <2>3, <2>4, <2>5 DEF Charged
  <2> QED
    BY <2>6, <2>7, <2>8, <2>9
<1>14. (marked \subseteq answers)'
  BY <1>9 DEF Grown
<1> QED
  BY <1>11, <1>12, <1>13, <1>14 DEF IInv

-----------------------------------------------------------------------------
LEMMA InitOK == Init => IInv
<1> SUFFICES ASSUME Init PROVE IInv
  OBVIOUS
<1> DEFINE q == [pc |-> "idle", method |-> "absent", token |-> NoToken, promise |-> "none"]
<1>1. /\ q \in Ask /\ q.pc = "idle" /\ q.method = "absent" /\ q.token = NoToken
      /\ q.promise = "none"
  BY DEF Ask, Methods
<1>2. call = [c \in Calls |-> q]
  BY DEF Init
<1> HIDE DEF q
<1>3. TypeOK
  BY <1>1, <1>2, FreshRun DEF Init, TypeOK
<1>4. CallsOK
  BY <1>1, <1>2 DEF Init, CallsOK
<1>5. ASSUME NEW s \in Slots
      PROVE  Attached(s) /\ Replied(s) /\ Following(s) /\ Charged(s)
  BY FreshRun DEF Init, Attached, Replied, Following, Charged, Dispatched
<1> QED
  BY <1>3, <1>4, <1>5 DEF Init, IInv

LEMMA StepOK == IInv /\ [Next]_<<vars, bound>> => IInv'
<1> SUFFICES ASSUME IInv, [Next]_<<vars, bound>> PROVE IInv'
  OBVIOUS
<1>1. CASE UNCHANGED <<vars, bound>>
  <2>1. UNCHANGED <<serverVars, bound, call, handlers, link, stored, faults>>
    BY <1>1 DEF vars, serverVars
  <2> QED
    BY <2>1, LinkKeeps DEF IInv, TypeOK
<1>2. ASSUME NEW c \in Calls, Request(c) \/ PublishStep(c) \/ Timeout(c) \/ Answer(c),
             UNCHANGED bound
      PROVE  IInv'
  BY <1>2, PeerStepKeeps
<1>3. CASE (LinkLost \/ Keepalive) /\ UNCHANGED bound
  BY <1>3, LinkStepKeeps
<1>4. ASSUME NEW s \in Slots, NEW c \in Calls, Receive(s, c), UNCHANGED bound
      PROVE  IInv'
  BY <1>4, ReceiveKeeps
<1>5. ASSUME NEW s \in Slots, HandlerStep(s), UNCHANGED bound
      PROVE  IInv'
  BY <1>5, AbsentKeeps, StartKeeps, LogKeeps, AuthKeeps, AuthReadKeeps, AuthNextKeeps, ServeKeeps,
     ThrowsKeeps, MarkTokenKeeps, ReturnKeeps, FinishKeeps DEF HandlerStep
<1> QED
  BY <1>1, <1>2, <1>3, <1>4, <1>5 DEF Next

(* An entry and its timer live as long as the promise of their call,       *)
(* whatever comes first, answer, timer or failed publishing; what the      *)
(* server marks is answered; and every run is where its chain, its payment *)
(* and its reply say.                                                      *)
THEOREM RequestsInvariant == Spec => []IInv
<1> QED
  BY InitOK, StepOK, PTL DEF Spec

(* What the inductive invariant says of one run.                           *)
LEMMA OwnChainOf ==
    ASSUME IInv, NEW s \in Slots, run[s].ran # <<>>
    PROVE  \/ IsPrefix(run[s].ran, Chain(Call(s).method))
           \/ run[s].disturbed /\ Len(Chain(Call(s).method)) > 1
<1>1. Attached(s) /\ Following(s) /\ run[s] \in Run
  BY KnownRun
<1>2. Dispatched(s)
  BY <1>1 DEF Attached
<1>3. Call(s).method \in Routed
  BY <1>1, <1>2, KnownRun DEF Following, Dispatched, Routed
<1>4. CASE run[s].disturbed /\ Call(s).method # "open"
  BY <1>3, <1>4, Routable
<1>5. CASE ~run[s].disturbed \/ Call(s).method = "open"
  <2> DEFINE q == run[s].ran
             chain == Chain(Call(s).method)
  <2>1. Len(q) \in 1..Len(chain) /\ \A i \in 1..Len(q) : q[i] = chain[i]
    BY <1>1, <1>2, <1>3, <1>5 DEF Following, Along, Routed
  <2>2. q \in Seq(Handlers) /\ chain \in Seq(Handlers)
    BY <1>1, <1>3, Routable DEF Run
  <2> HIDE DEF q, chain
  <2>3. SubSeq(q, 1, Len(q)) = SubSeq(chain, 1, Len(q)) /\ Len(q) <= Len(chain)
    BY <2>1, <2>2
  <2> QED
    BY <2>3 DEF IsPrefix, q, chain
<1> QED
  BY <1>4, <1>5 DEF Run

(* A run executes the handlers of its own route, in their order, unless    *)
(* another request installed a different chain while the run awaited; a    *)
(* route of one handler is safe even then.                                 *)
THEOREM OwnChainTheorem == Spec => []OwnChain
<1>1. IInv => OwnChain
  BY OwnChainOf DEF OwnChain
<1> QED
  BY <1>1, RequestsInvariant, PTL

(* A call that the server takes up when its token is already marked is not *)
(* served, unless another request's chain led it past tokenAuth.           *)
THEOREM PaidOnceTheorem == Spec => []PaidOnce
<1>1. IInv => PaidOnce
  BY DEF IInv, Charged, PaidOnce
<1> QED
  BY <1>1, RequestsInvariant, PTL
=============================================================================
