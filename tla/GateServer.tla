----------------------------- MODULE GateServer -----------------------------
(***************************************************************************)
(* The gate agent GateServerSpec: it hands out challenges, takes proofs    *)
(* that sign the nonce of a challenge, and opens sessions.                 *)
(*                                                                         *)
(* Handlers of one JavaScript process interleave at their awaits.  The     *)
(* gate keeps challenges, used nonces and sessions in memory (mem) and     *)
(* saves all of them together; its NWPC server forgets on a restart which  *)
(* events it has processed, so relays may redeliver all of them.           *)
(***************************************************************************)
EXTENDS Integers, Sequences, FiniteSets, SequencesExt

CONSTANTS
    Requirements,       \* what requests for access may ask of a token
    Proofs,             \* what proofs may show
    Nonces,             \* values of randomBytes, each drawn at most once
    Events,             \* ids of relay events, each one request
    Slots,              \* handler runs that may be in progress at one time
    ChallengeExpiry,    \* config.challengeExpiry
    SessionExpiry,      \* config.sessionExpiry
    KeepExpired,        \* how long cleanupExpired keeps an expired challenge
    OrderedWrites,      \* TRUE when storage applies writes in the order of the calls
    MaxTime,            \* bound on the clock
    MaxFaults,          \* bound on crashes, failed writes and failed sends together
    NoMsg, NoEvent, NoNonce, NoRequirement, NoProof

ASSUME GateBounds ==
    /\ ChallengeExpiry \in Nat /\ SessionExpiry \in Nat /\ KeepExpired \in Nat
    /\ MaxTime \in Nat /\ MaxFaults \in Nat
    /\ OrderedWrites \in BOOLEAN
ASSUME GateSentinels == NoEvent \notin Events /\ NoNonce \notin Nonces

(* TurnstileRequirements.  A pattern is judged by what the gate does with  *)
(* it; tiers are strings, and numbers stand for their place in the order   *)
(* of strings, 0 for none.                                                 *)
Requirement == [issuer: {"forge", "other"}, notExpired: BOOLEAN,
                pattern: {"none", "unsafe", "invalid", "safe"}, minTier: Nat,
                operator: {"none", "eq", "gt", "lt", "contains"}, value: Nat]
(* A field of a token: a number, nothing, or an array.                     *)
Field == [array: BOOLEAN, items: SUBSET Nat]
(* The token that a full proof shows; sound says whether it restores and   *)
(* its hash and signature are right, id how its tokenID fares with the     *)
(* pattern.                                                                *)
Token == [locked: BOOLEAN, sound: BOOLEAN, issuer: {"forge", "other"}, expired: BOOLEAN,
          id: {"none", "matches", "differs"}, tier: Nat, field: Field]
Claim == [issuer: {"forge", "other"}, notExpired: BOOLEAN, pattern: BOOLEAN, tier: Nat]
Proof == [mode: {"full"}, signed: BOOLEAN, token: Token]
         \cup [mode: {"minimal"}, signed: BOOLEAN, claim: Claim]

(* A request for access, or a proof for a challenge.                       *)
Message == [kind: {"access", "proof"}, nonce: Nonces \cup {NoNonce},
            asks: Requirements \cup {NoRequirement}, proof: Proofs \cup {NoProof}]
ASSUME GateMessages ==
    /\ NoMsg \notin Message
    /\ Requirements \subseteq Requirement /\ Proofs \subseteq Proof

Session == [id: Nat, nonce: Nonces, until: Nat]
GateState == [challenges: SUBSET Nonces, used: SUBSET Nonces, sessions: SUBSET Session]
EmptyGate == [challenges |-> {}, used |-> {}, sessions |-> {}]
Write == [by: Slots, snap: GateState]

PCs == {"idle", "received", "storing", "verifying", "marking", "opening", "replied"}
Run == [pc: PCs, ev: Events \cup {NoEvent}, nonce: Nonces \cup {NoNonce},
        pass: SUBSET Session]
IdleRun == [pc |-> "idle", ev |-> NoEvent, nonce |-> NoNonce, pass |-> {}]

VARIABLES
    mem,        \* GateServerState in memory
    disk,       \* the snapshot that storage holds
    writes,     \* storage.setItem calls that have not settled
    phase,      \* "up", "down" after a crash, "subscribed" before the state is loaded
    run,        \* control state of each handler run
    msg,        \* the request each event carries
    processed,  \* events the NWPC server has marked, in memory only
    expires,    \* expiresAt of each challenge, fixed when it is issued
    asked,      \* requirements of each challenge, fixed when it is issued
    now,        \* the clock
    faults,     \* crashes, failed writes and failed sends so far
    issued,     \* history: nonces drawn
    offered,    \* history: challenges a client has received
    opened,     \* history: sessions made
    granted     \* history: sessions a client has received

vars == <<mem, disk, writes, phase, run, msg, processed, expires, asked, now, faults,
          issued, offered, opened, granted>>
history == <<issued, offered, opened, granted>>

TypeOK ==
    /\ mem \in GateState /\ disk \in GateState
    /\ writes \in Seq(Write)
    /\ phase \in {"up", "down", "subscribed"}
    /\ run \in [Slots -> Run]
    /\ msg \in [Events -> Message \cup {NoMsg}]
    /\ processed \subseteq Events
    /\ expires \in [Nonces -> Nat]
    /\ asked \in [Nonces -> Requirements \cup {NoRequirement}]
    /\ now \in Nat /\ faults \in Nat
    /\ issued \subseteq Nonces /\ offered \subseteq Nonces
    /\ opened \subseteq Session /\ IsFiniteSet(opened) /\ granted \subseteq Session

Init ==
    /\ mem = EmptyGate /\ disk = EmptyGate /\ writes = <<>>
    /\ phase = "up"
    /\ run = [s \in Slots |-> IdleRun]
    /\ msg = [e \in Events |-> NoMsg]
    /\ processed = {}
    /\ expires = [n \in Nonces |-> 0]
    /\ asked = [n \in Nonces |-> NoRequirement]
    /\ now = 0 /\ faults = 0
    /\ issued = {} /\ offered = {} /\ opened = {} /\ granted = {}
-----------------------------------------------------------------------------
At(s, pc) == phase = "up" /\ run[s].pc = pc
MsgOf(s) == msg[run[s].ev]
Goto(s, pc) == run' = [run EXCEPT ![s].pc = pc]
Save(s, state) == writes' = Append(writes, [by |-> s, snap |-> state])

(* Mutant: the save is not awaited.                                        *)
Saved_NotAwaited(s) == s \in Slots

Saved(s) == \A i \in DOMAIN writes : writes[i].by # s

(* A challenge is open while a proof for it would pass the two lookups.    *)
Open(state) == state.challenges \ state.used
Settled == {x.nonce : x \in opened}

ClientSend(e) ==
    /\ msg[e] = NoMsg
    /\ \E m \in [kind: {"access"}, nonce: {NoNonce}, asks: Requirements, proof: {NoProof}]
             \cup [kind: {"proof"}, nonce: offered, asks: {NoRequirement}, proof: Proofs] :
          msg' = [msg EXCEPT ![e] = m]
    /\ UNCHANGED <<mem, disk, writes, phase, run, processed, expires, asked, now, faults, history>>

Tick ==
    /\ now < MaxTime
    /\ now' = now + 1
    /\ UNCHANGED <<mem, disk, writes, phase, run, msg, processed, expires, asked, faults, history>>

(* The server is subscribed before the gate has loaded its state.          *)
Deliver(s, e) ==
    /\ phase # "down" /\ run[s].pc = "idle" /\ msg[e] # NoMsg
    /\ e \notin processed
    /\ run' = [run EXCEPT ![s].pc = "received", ![s].ev = e]
    /\ UNCHANGED <<mem, disk, writes, phase, msg, processed, expires, asked, now, faults, history>>

(* this.state is still undefined: the handler throws and answers an error. *)
HandleUnloaded(s) ==
    /\ phase = "subscribed" /\ run[s].pc = "received"
    /\ Goto(s, "replied")
    /\ UNCHANGED <<mem, disk, writes, phase, msg, processed, expires, asked, now, faults, history>>

FinishEvent(s) ==
    /\ phase # "down" /\ run[s].pc = "replied"
    /\ processed' = processed \cup {run[s].ev}
    /\ run' = [run EXCEPT ![s] = IdleRun]
    /\ UNCHANGED <<mem, disk, writes, phase, msg, expires, asked, now, faults, history>>
-----------------------------------------------------------------------------
(* issueChallenge: a fresh nonce, its expiry and its requirements.         *)
IssueChallenge(n, asks) ==
    /\ n \notin issued /\ issued' = issued \cup {n}
    /\ expires' = [expires EXCEPT ![n] = now + ChallengeExpiry]
    /\ asked' = [asked EXCEPT ![n] = asks]

(* handleRequestAccess: store a fresh challenge, save, send it.            *)
RequestAccess(s) ==
    /\ At(s, "received") /\ MsgOf(s).kind = "access"
    /\ MsgOf(s).asks.pattern # "unsafe"
    /\ \E n \in Nonces :
        LET state == [mem EXCEPT !.challenges = @ \cup {n}] IN
        /\ IssueChallenge(n, MsgOf(s).asks)
        /\ mem' = state /\ Save(s, state)
        /\ run' = [run EXCEPT ![s].pc = "storing", ![s].nonce = n]
    /\ UNCHANGED <<disk, phase, msg, processed, now, faults, offered, opened, granted>>

(* A pattern that could stall the matcher is answered by an error.         *)
RefusePattern(s) ==
    /\ At(s, "received") /\ MsgOf(s).kind = "access"
    /\ MsgOf(s).asks.pattern = "unsafe"
    /\ Goto(s, "replied")
    /\ UNCHANGED <<mem, disk, writes, phase, msg, processed, expires, asked, now, faults, history>>

SendChallenge(s) ==
    /\ At(s, "storing") /\ Saved(s)
    /\ offered' = offered \cup {run[s].nonce}
    /\ Goto(s, "replied")
    /\ UNCHANGED <<mem, disk, writes, phase, msg, processed, expires, asked, now, faults,
                   issued, opened, granted>>

(* handleProof up to await verifyProof.                                    *)
ProofAccepted(n) == n \in Open(mem) /\ now <= expires[n]
CheckProof(s) ==
    /\ At(s, "received") /\ MsgOf(s).kind = "proof"
    /\ run' = [run EXCEPT ![s].pc = IF ProofAccepted(MsgOf(s).nonce) THEN "verifying" ELSE "replied",
                          ![s].nonce = MsgOf(s).nonce]
    /\ UNCHANGED <<mem, disk, writes, phase, msg, processed, expires, asked, now, faults, history>>

(* What > and < make of a field: an array of one member is that member, an *)
(* empty one is 0, and with more members it is no number.                  *)
Comparable(field) ==
    IF field.array /\ field.items = {} THEN {0} ELSE {x \in field.items : field.items = {x}}

CheckOperator(field, operator, value) ==
    CASE operator = "eq"       -> ~field.array /\ field.items = {value}
      [] operator = "gt"       -> \E x \in Comparable(field) : x > value
      [] operator = "lt"       -> \E x \in Comparable(field) : x < value
      [] operator = "contains" -> field.array /\ value \in field.items

(* A token without an id passes whatever pattern is asked.                 *)
CheckRequirements(t, r) ==
    /\ t.issuer = r.issuer
    /\ r.notExpired => ~t.expired
    /\ r.pattern # "none" /\ t.id # "none" => r.pattern = "safe" /\ t.id = "matches"
    /\ t.tier >= r.minTier
    /\ r.operator # "none" => CheckOperator(t.field, r.operator, r.value)

(* Token.validate throws for an expired token, required or not.            *)
VerifyFullProof(p, r) ==
    /\ p.token.locked /\ p.signed
    /\ p.token.sound /\ ~p.token.expired
    /\ CheckRequirements(p.token, r)

(* What the holder claims is compared; a custom check is not asked for.    *)
VerifyMinimalProof(p, r) ==
    /\ p.signed /\ p.claim.issuer = r.issuer
    /\ r.notExpired => p.claim.notExpired
    /\ r.pattern # "none" => p.claim.pattern
    /\ p.claim.tier >= r.minTier

VerifyProof(p, r) ==
    IF p.mode = "full" THEN VerifyFullProof(p, r) ELSE VerifyMinimalProof(p, r)
Valid(s) == VerifyProof(MsgOf(s).proof, asked[run[s].nonce])

(* The nonce is marked whatever verifyProof said; the entry is set again   *)
(* in case it was cleaned up meanwhile.                                    *)
MarkNonce(s) ==
    /\ At(s, "verifying")
    /\ LET n == run[s].nonce
           state == [mem EXCEPT !.challenges = @ \cup {n}, !.used = @ \cup {n}] IN
       mem' = state /\ Save(s, state)
    /\ Goto(s, "marking")
    /\ UNCHANGED <<disk, phase, msg, processed, expires, asked, now, faults, history>>

(* Mutant: the expiry of the challenge is checked again.                   *)
OpenSession_Late(s) ==
    /\ At(s, "marking") /\ Saved(s) /\ Valid(s)
    /\ now <= expires[run[s].nonce]
    /\ LET x == [id |-> Cardinality(opened), nonce |-> run[s].nonce,
                 until |-> now + SessionExpiry]
           state == [mem EXCEPT !.sessions = @ \cup {x}] IN
       /\ mem' = state /\ Save(s, state)
       /\ opened' = opened \cup {x}
       /\ run' = [run EXCEPT ![s].pc = "opening", ![s].pass = {x}]
    /\ UNCHANGED <<disk, phase, msg, processed, expires, asked, now, faults,
                   issued, offered, granted>>

(* A session gets a token of its own and a save of its own.                *)
OpenSession(s) ==
    /\ At(s, "marking") /\ Saved(s) /\ Valid(s)
    /\ LET x == [id |-> Cardinality(opened), nonce |-> run[s].nonce,
                 until |-> now + SessionExpiry]
           state == [mem EXCEPT !.sessions = @ \cup {x}] IN
       /\ mem' = state /\ Save(s, state)
       /\ opened' = opened \cup {x}
       /\ run' = [run EXCEPT ![s].pc = "opening", ![s].pass = {x}]
    /\ UNCHANGED <<disk, phase, msg, processed, expires, asked, now, faults,
                   issued, offered, granted>>

Refuse(s) ==
    /\ At(s, "marking") /\ Saved(s) /\ ~Valid(s)
    /\ Goto(s, "replied")
    /\ UNCHANGED <<mem, disk, writes, phase, msg, processed, expires, asked, now, faults, history>>

Grant(s) ==
    /\ At(s, "opening") /\ Saved(s)
    /\ granted' = granted \cup run[s].pass
    /\ Goto(s, "replied")
    /\ UNCHANGED <<mem, disk, writes, phase, msg, processed, expires, asked, now, faults,
                   issued, offered, opened>>
(* res.send throws: the handler answers an error and takes nothing back.   *)
SendFails(s) ==
    /\ phase = "up" /\ run[s].pc \in {"storing", "opening"} /\ Saved(s)
    /\ faults < MaxFaults
    /\ faults' = faults + 1
    /\ Goto(s, "replied")
    /\ UNCHANGED <<mem, disk, writes, phase, msg, processed, expires, asked, now, history>>
-----------------------------------------------------------------------------
(* Mutant: used nonces go at expiry, their challenges later.               *)
CleanupExpired_NoncesOnly ==
    /\ phase = "up"
    /\ LET old == {n \in mem.challenges : now >= expires[n]} IN
       mem' = [mem EXCEPT !.used = @ \ old,
                          !.sessions = {x \in mem.sessions : now <= x.until}]
    /\ UNCHANGED <<disk, writes, phase, run, msg, processed, expires, asked, now, faults, history>>

(* cleanupExpired, once a minute, and verifySession of an expired session: *)
(* both change memory only.                                                *)
CleanupExpired ==
    /\ phase = "up"
    /\ LET old == {n \in mem.challenges : now > expires[n] + KeepExpired} IN
       mem' = [challenges |-> mem.challenges \ old, used |-> mem.used \ old,
               sessions |-> {x \in mem.sessions : now <= x.until}]
    /\ UNCHANGED <<disk, writes, phase, run, msg, processed, expires, asked, now, faults, history>>

VerifySession(x) ==
    /\ phase = "up" /\ x \in mem.sessions /\ now > x.until
    /\ mem' = [mem EXCEPT !.sessions = @ \ {x}]
    /\ UNCHANGED <<disk, writes, phase, run, msg, processed, expires, asked, now, faults, history>>

MaySettle == IF OrderedWrites THEN {i \in DOMAIN writes : i = 1} ELSE DOMAIN writes

WriteLands(i) ==
    /\ i \in MaySettle
    /\ disk' = writes[i].snap
    /\ writes' = RemoveAt(writes, i)
    /\ UNCHANGED <<mem, phase, run, msg, processed, expires, asked, now, faults, history>>

(* The handler catches the rejection and answers an error; what it changed *)
(* in memory stays.                                                        *)
WriteFails(i) ==
    /\ i \in MaySettle /\ faults < MaxFaults
    /\ faults' = faults + 1
    /\ writes' = RemoveAt(writes, i)
    /\ Goto(writes[i].by, "replied")
    /\ UNCHANGED <<mem, disk, phase, msg, processed, expires, asked, now, history>>

Crash ==
    /\ phase # "down" /\ faults < MaxFaults
    /\ faults' = faults + 1
    /\ phase' = "down"
    /\ mem' = EmptyGate /\ writes' = <<>> /\ processed' = {}
    /\ run' = [s \in Slots |-> IdleRun]
    /\ UNCHANGED <<disk, msg, expires, asked, now, history>>

(* create: the server's init comes first, then initialize loads the state. *)
Subscribe ==
    /\ phase = "down"
    /\ phase' = "subscribed"
    /\ UNCHANGED <<mem, disk, writes, run, msg, processed, expires, asked, now, faults, history>>

(* Mutant: the used nonces are not restored.                               *)
LoadState_NoNonces ==
    /\ phase = "subscribed"
    /\ mem' = [disk EXCEPT !.used = {}]
    /\ phase' = "up"
    /\ UNCHANGED <<disk, writes, run, msg, processed, expires, asked, now, faults, history>>

(* A gate that finds no state starts empty and saves that, which changes   *)
(* nothing in a storage that keeps the order of the writes.                *)
LoadState ==
    /\ phase = "subscribed"
    /\ mem' = disk
    /\ phase' = "up"
    /\ UNCHANGED <<disk, writes, run, msg, processed, expires, asked, now, faults, history>>
-----------------------------------------------------------------------------
HandlerStep(s) ==
    \/ HandleUnloaded(s)
    \/ RequestAccess(s) \/ RefusePattern(s) \/ SendChallenge(s)
    \/ CheckProof(s) \/ MarkNonce(s) \/ OpenSession(s) \/ Refuse(s) \/ Grant(s)
    \/ FinishEvent(s)

Next ==
    \/ \E e \in Events : ClientSend(e)
    \/ \E s \in Slots, e \in Events : Deliver(s, e)
    \/ \E s \in Slots : HandlerStep(s) \/ SendFails(s)
    \/ \E x \in mem.sessions : VerifySession(x)
    \/ \E i \in DOMAIN writes : WriteLands(i) \/ WriteFails(i)
    \/ CleanupExpired
    \/ Crash \/ Subscribe \/ LoadState
    \/ Tick

Spec == Init /\ [][Next]_vars

(* The event loop runs every ready continuation, storage answers every     *)
(* call, a crashed gate is restarted, relays redeliver.                    *)
Fairness ==
    /\ \A s \in Slots : WF_vars(HandlerStep(s))
    /\ \A e \in Events : WF_vars(\E s \in Slots : Deliver(s, e))
    /\ WF_vars(\E i \in DOMAIN writes : WriteLands(i))
    /\ WF_vars(Subscribe) /\ WF_vars(LoadState)

FairSpec == Spec /\ Fairness
-----------------------------------------------------------------------------
(* The inductive invariant.                                                *)

(* Saves belong to handlers that await them, one each.                     *)
AwaitingPCs == {"storing", "marking", "opening"}
ControlOK ==
    /\ \A i \in DOMAIN writes : run[writes[i].by].pc \in AwaitingPCs
    /\ \A i, j \in DOMAIN writes : writes[i].by = writes[j].by => i = j
    /\ phase # "up" => /\ writes = <<>>
                       /\ \A s \in Slots : run[s].pc \in {"idle", "received", "replied"}

(* Requests and handlers are about challenges that the gate has issued.    *)
RequestOK ==
    /\ offered \subseteq issued
    /\ \A e \in Events : msg[e] # NoMsg /\ msg[e].kind = "proof" => msg[e].nonce \in issued
    /\ \A s \in Slots :
          /\ run[s].pc # "idle" => run[s].ev \in Events /\ msg[run[s].ev] # NoMsg
          /\ run[s].pc \in AwaitingPCs \cup {"verifying"} => run[s].nonce \in issued

(* The memory, storage and all pending saves are in a set of states; the   *)
(* same for a state that one handler saves: the memory, its save and all   *)
(* later ones are in the set, and the rest once its save was answered.     *)
Everywhere(States) ==
    /\ phase = "up" => mem \in States
    /\ disk \in States
    /\ \A i \in DOMAIN writes : writes[i].snap \in States
Established(s, States) ==
    /\ mem \in States
    /\ \A i, j \in DOMAIN writes : writes[i].by = s /\ i <= j => writes[j].snap \in States
    /\ Saved(s) => Everywhere(States)

Closed(n) == {state \in GateState : n \notin Open(state)}
Holding(x) == {state \in GateState : x \in state.sessions}

(* The challenge of a session is closed wherever a restart may find it,    *)
(* and a session a client has received is there until it expires.          *)
NonceOK ==
    /\ \A n \in Settled : n \in issued /\ Everywhere(Closed(n))
    /\ \A s \in Slots : run[s].pc = "marking" => Established(s, Closed(run[s].nonce))
SessionOK ==
    /\ \A x \in granted : now <= x.until => Everywhere(Holding(x))
    /\ \A s \in Slots : run[s].pc = "opening" =>
          \A x \in run[s].pass : now <= x.until => Established(s, Holding(x))
IInv == TypeOK /\ ControlOK /\ RequestOK /\ NonceOK /\ SessionOK

(* What memory alone knows, whatever storage does with its writes, for as  *)
(* long as the process lives.                                              *)
MemoryOK ==
    /\ phase = "up"
    /\ \A n \in Settled : n \in issued /\ mem \in Closed(n)
    /\ \A s \in Slots : run[s].pc = "marking" => mem \in Closed(run[s].nonce)
    /\ \A x \in granted : now <= x.until => mem \in Holding(x)
    /\ \A s \in Slots : run[s].pc = "opening" =>
          \A x \in run[s].pass : now <= x.until => mem \in Holding(x)
-----------------------------------------------------------------------------
(* A proof passes the check only while no session was opened for its       *)
(* challenge: a proof repeated after the answer, after a restart or after  *)
(* a clean-up opens nothing (usedNonces, handleProof).                     *)
ReplayRefused ==
    [][\A s \in Slots : run[s].pc = "received" /\ run'[s].pc = "verifying"
            => run'[s].nonce \notin Settled]_vars

(* A session that a client has received survives restarts, clean-ups and   *)
(* the saves of other handlers until it expires (verifySession).           *)
SessionsKept ==
    \A x \in granted : now <= x.until =>
        x \in disk.sessions /\ (phase = "up" => x \in mem.sessions)

(* Once faults are over, a valid proof that has passed the check gets a    *)
(* session for its challenge, however long its verification takes          *)
(* (handleProof).                                                          *)
GoodProofGranted ==
    \A n \in Nonces :
        (faults = MaxFaults /\ \E s \in Slots : At(s, "verifying") /\ run[s].nonce = n
                                                /\ Valid(s))
            ~> \E x \in granted : x.nonce = n
=============================================================================
