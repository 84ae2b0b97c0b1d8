------------------------- MODULE GateServer_proofs -------------------------
(***************************************************************************)
(* Theorems about GateServer for every value of its constants.             *)
(***************************************************************************)
EXTENDS GateServer, SequenceTheorems, FiniteSetTheorems, TLAPS

BasicInv == TypeOK /\ ControlOK /\ RequestOK
-----------------------------------------------------------------------------
(* Facts about RemoveAt, with which the model settles a pending write.     *)
(* What remains when the i-th element is removed.                          *)
LEMMA RemoveAtFacts ==
    ASSUME NEW S, NEW q \in Seq(S), NEW i \in 1..Len(q)
    PROVE  /\ RemoveAt(q, i) \in Seq(S)
           /\ Len(RemoveAt(q, i)) = Len(q) - 1
           /\ \A j \in 1..(Len(q) - 1) :
                 RemoveAt(q, i)[j] = IF j < i THEN q[j] ELSE q[j + 1]
<1> DEFINE a == SubSeq(q, 1, i - 1)
           b == SubSeq(q, i + 1, Len(q))
<1>1. /\ a \in Seq(S) /\ Len(a) = i - 1
      /\ \A j \in 1..(i - 1) : a[j] = q[j]
  BY SubSeqProperties, ElementOfSeq, LenProperties
<1>2. /\ b \in Seq(S) /\ Len(b) = Len(q) - i
      /\ \A j \in 1..(Len(q) - i) : b[j] = q[i + j]
  BY SubSeqProperties, ElementOfSeq, LenProperties
<1>3. /\ a \o b \in Seq(S)
      /\ Len(a \o b) = Len(a) + Len(b)
      /\ \A j \in 1..(Len(a) + Len(b)) :
            (a \o b)[j] = IF j <= Len(a) THEN a[j] ELSE b[j - Len(a)]
  BY <1>1, <1>2, ConcatProperties
<1>4. RemoveAt(q, i) = a \o b
  BY DEF RemoveAt
<1>5. Len(q) \in Nat
  BY LenProperties
<1> HIDE DEF a, b
<1>6. Len(a \o b) = Len(q) - 1
  BY <1>1, <1>2, <1>3, <1>5
<1>7. ASSUME NEW j \in 1..(Len(q) - 1)
      PROVE  (a \o b)[j] = IF j < i THEN q[j] ELSE q[j + 1]
  <2>1. CASE j < i
    BY <2>1, <1>1, <1>2, <1>3, <1>5
  <2>2. CASE ~(j < i)
    <3>1. (a \o b)[j] = b[j - (i - 1)]
      BY <2>2, <1>1, <1>2, <1>3, <1>5
    <3>2. j - (i - 1) \in 1..(Len(q) - i) /\ i + (j - (i - 1)) = j + 1
      BY <2>2, <1>5
    <3> QED BY <3>1, <3>2, <2>2, <1>2
  <2> QED BY <2>1, <2>2
<1> QED BY <1>3, <1>4, <1>6, <1>7

(* Removing the first element shifts the others.                           *)
LEMMA RemoveOldest ==
    ASSUME NEW S, NEW q \in Seq(S), Len(q) > 0
    PROVE  /\ RemoveAt(q, 1) \in Seq(S)
           /\ Len(RemoveAt(q, 1)) = Len(q) - 1
           /\ \A j \in 1..(Len(q) - 1) : RemoveAt(q, 1)[j] = q[j + 1]
<1>1. Len(q) \in Nat /\ 1 \in 1..Len(q)
  BY LenProperties
<1>2. /\ RemoveAt(q, 1) \in Seq(S)
      /\ Len(RemoveAt(q, 1)) = Len(q) - 1
      /\ \A j \in 1..(Len(q) - 1) : RemoveAt(q, 1)[j] = IF j < 1 THEN q[j] ELSE q[j + 1]
  BY <1>1, RemoveAtFacts
<1> QED BY <1>1, <1>2
-----------------------------------------------------------------------------
LEMMA WritesFacts ==
    ASSUME TypeOK
    PROVE  /\ writes \in Seq(Write) /\ Len(writes) \in Nat
           /\ DOMAIN writes = 1..Len(writes)
           /\ \A i \in 1..Len(writes) : writes[i] \in Write
  BY LenProperties, ElementOfSeq DEF TypeOK

(* A save becomes the last pending write.                                  *)
LEMMA SaveFacts ==
    ASSUME TypeOK, NEW s \in Slots, NEW state \in GateState, Save(s, state)
    PROVE  /\ writes' \in Seq(Write) /\ Len(writes') = Len(writes) + 1
           /\ DOMAIN writes' = 1..(Len(writes) + 1)
           /\ \A i \in 1..Len(writes) : writes'[i] = writes[i]
           /\ writes'[Len(writes) + 1] = [by |-> s, snap |-> state]
<1>1. [by |-> s, snap |-> state] \in Write
  BY DEF Write
<1> QED BY <1>1, WritesFacts, AppendProperties, LenProperties DEF Save

(* Changes of the memory keep its type.                                    *)
LEMMA MemTypes ==
    ASSUME mem \in GateState, NEW n \in Nonces, NEW x \in Session
    PROVE  /\ [mem EXCEPT !.challenges = @ \cup {n}] \in GateState
           /\ [mem EXCEPT !.challenges = @ \cup {n}, !.used = @ \cup {n}] \in GateState
           /\ [mem EXCEPT !.sessions = @ \cup {x}] \in GateState
  BY DEF GateState

LEMMA BasicInit == Init => BasicInv
<1> SUFFICES ASSUME Init PROVE BasicInv
  OBVIOUS
<1>1. EmptyGate \in GateState /\ IdleRun \in Run
  BY DEF EmptyGate, GateState, IdleRun, Run, PCs
<1>2. <<>> \in Seq(Write) /\ DOMAIN <<>> = {}
  BY EmptySeq
<1>3. TypeOK
  BY <1>1, <1>2, FS_EmptySet DEF Init, TypeOK
<1>4. ControlOK
  BY <1>2 DEF Init, ControlOK
<1>5. RequestOK
  BY DEF Init, RequestOK, IdleRun, AwaitingPCs
<1> QED BY <1>3, <1>4, <1>5 DEF BasicInv

(* A step of one handler that saves nothing and is not awaiting a save.    *)
LEMMA QuietStep ==
    ASSUME BasicInv, NEW s \in Slots, NEW r \in Run,
           run' = [run EXCEPT ![s] = r], Saved(s),
           UNCHANGED <<writes, phase, msg, issued>>,
           phase # "up" => r.pc \in {"idle", "received", "replied"},
           r.pc # "idle" => r.ev \in Events /\ msg[r.ev] # NoMsg,
           r.pc \in AwaitingPCs \cup {"verifying"} => r.nonce \in issued,
           offered' \subseteq issued
    PROVE  ControlOK' /\ RequestOK' /\ run' \in [Slots -> Run]
<1>1. run'[s] = r /\ \A x \in Slots \ {s} : run'[x] = run[x]
  BY DEF BasicInv, TypeOK
<1>2. run' \in [Slots -> Run]
  BY DEF BasicInv, TypeOK
<1>3. \A i \in DOMAIN writes : writes[i].by \in Slots \ {s}
  BY WritesFacts DEF BasicInv, Saved, Write
<1>4. ControlOK'
  BY <1>1, <1>3 DEF BasicInv, ControlOK
<1>5. RequestOK'
  BY <1>1 DEF BasicInv, RequestOK
<1> QED BY <1>2, <1>4, <1>5

(* A step of one handler that saves the memory.                            *)
LEMMA SaveStep ==
    ASSUME BasicInv, NEW s \in Slots, NEW r \in Run, NEW state \in GateState,
           phase = "up", run' = [run EXCEPT ![s] = r], Saved(s), Save(s, state),
           UNCHANGED <<phase, msg, offered>>, issued \subseteq issued',
           r.pc \in AwaitingPCs, r.nonce \in issued',
           r.ev \in Events, msg[r.ev] # NoMsg
    PROVE  ControlOK' /\ RequestOK' /\ run' \in [Slots -> Run] /\ writes' \in Seq(Write)
<1>1. run'[s] = r /\ \A x \in Slots \ {s} : run'[x] = run[x]
  BY DEF BasicInv, TypeOK
<1>2. run' \in [Slots -> Run]
  BY DEF BasicInv, TypeOK
<1>3. /\ writes' \in Seq(Write) /\ Len(writes) \in Nat
      /\ DOMAIN writes' = 1..(Len(writes) + 1) /\ DOMAIN writes = 1..Len(writes)
      /\ \A i \in 1..Len(writes) : writes'[i] = writes[i]
      /\ writes'[Len(writes) + 1].by = s
  <2>1. /\ writes' \in Seq(Write) /\ DOMAIN writes' = 1..(Len(writes) + 1)
        /\ \A i \in 1..Len(writes) : writes'[i] = writes[i]
        /\ writes'[Len(writes) + 1] = [by |-> s, snap |-> state]
    BY SaveFacts DEF BasicInv
  <2>2. Len(writes) \in Nat /\ DOMAIN writes = 1..Len(writes)
    BY WritesFacts DEF BasicInv
  <2>3. writes'[Len(writes) + 1].by = s
    BY <2>1
  <2> QED BY <2>1, <2>2, <2>3
<1>4. \A i \in 1..Len(writes) : writes[i].by \in Slots \ {s}
  BY WritesFacts DEF BasicInv, Saved, Write
<1>5. \A i \in DOMAIN writes' : run'[writes'[i].by].pc \in AwaitingPCs
  BY <1>1, <1>3, <1>4 DEF BasicInv, ControlOK
<1>6. \A i, j \in DOMAIN writes' : writes'[i].by = writes'[j].by => i = j
  <2> SUFFICES ASSUME NEW i \in DOMAIN writes', NEW j \in DOMAIN writes',
                      writes'[i].by = writes'[j].by
               PROVE  i = j
    OBVIOUS
  <2>1. i \in 1..Len(writes) \/ i = Len(writes) + 1
    BY <1>3
  <2>2. j \in 1..Len(writes) \/ j = Len(writes) + 1
    BY <1>3
  <2> QED BY <1>3, <1>4, <2>1, <2>2 DEF BasicInv, ControlOK
<1>7. ControlOK'
  BY <1>5, <1>6 DEF ControlOK
<1>8. RequestOK'
  BY <1>1 DEF BasicInv, RequestOK
<1> QED BY <1>2, <1>3, <1>7, <1>8

(* The i-th write settles: it leaves the queue.                            *)
LEMMA SettleStep ==
    ASSUME TypeOK, ControlOK, NEW i \in DOMAIN writes, writes' = RemoveAt(writes, i)
    PROVE  /\ writes' \in Seq(Write)
           /\ \A j \in DOMAIN writes' :
                 \E k \in DOMAIN writes : k # i /\ writes'[j] = writes[k]
           /\ \A j, k \in DOMAIN writes' : writes'[j].by = writes'[k].by => j = k
           /\ \A j \in DOMAIN writes' : writes'[j].by # writes[i].by
<1>1. /\ writes' \in Seq(Write) /\ DOMAIN writes' = 1..(Len(writes) - 1)
      /\ \A j \in 1..(Len(writes) - 1) : writes'[j] = IF j < i THEN writes[j] ELSE writes[j + 1]
  BY WritesFacts, RemoveAtFacts, LenProperties
<1>2. DOMAIN writes = 1..Len(writes) /\ Len(writes) \in Nat
  BY WritesFacts
<1>3. \A j \in DOMAIN writes' : \E k \in DOMAIN writes : k # i /\ writes'[j] = writes[k]
  <2> TAKE j \in DOMAIN writes'
  <2>1. CASE j < i
    BY <1>1, <1>2, <2>1
  <2>2. CASE ~(j < i)
    <3>1. j + 1 \in DOMAIN writes /\ j + 1 # i /\ writes'[j] = writes[j + 1]
      BY <1>1, <1>2, <2>2
    <3> QED BY <3>1
  <2> QED BY <2>1, <2>2
<1>4. \A j, k \in DOMAIN writes' : writes'[j].by = writes'[k].by => j = k
  <2> SUFFICES ASSUME NEW j \in DOMAIN writes', NEW k \in DOMAIN writes',
                      writes'[j].by = writes'[k].by
               PROVE  j = k
    OBVIOUS
  <2> DEFINE at(m) == IF m < i THEN m ELSE m + 1
  <2>1. at(j) \in DOMAIN writes /\ at(k) \in DOMAIN writes
    BY <1>1, <1>2
  <2>2. writes'[j] = writes[at(j)] /\ writes'[k] = writes[at(k)]
    BY <1>1
  <2>3. at(j) = at(k)
    BY <2>1, <2>2 DEF ControlOK
  <2> QED BY <2>3, <1>1, <1>2
<1>5. \A j \in DOMAIN writes' : writes'[j].by # writes[i].by
  BY <1>3 DEF ControlOK
<1> QED BY <1>1, <1>3, <1>4, <1>5

-----------------------------------------------------------------------------
(* Every step keeps the basic invariant.                                   *)
LEMMA BasicStep == BasicInv /\ [Next]_vars => BasicInv'
<1> SUFFICES ASSUME BasicInv, [Next]_vars PROVE BasicInv'
  OBVIOUS
<1> USE DEF history
<1>h1. /\ \A s \in Slots : run[s] \in Run
       /\ \A s \in Slots : run[s].pc \notin AwaitingPCs => Saved(s)
  BY WritesFacts DEF BasicInv, TypeOK, ControlOK, Saved
<1>h2. \A s \in Slots :
         LET r == [run[s] EXCEPT !.pc = "replied"] IN
         r \in Run /\ r.pc = "replied" /\ r.ev = run[s].ev
  BY <1>h1 DEF Run, PCs
<1>h3. \A s \in Slots : [run EXCEPT ![s].pc = "replied"] = [run EXCEPT ![s] = [run[s] EXCEPT !.pc = "replied"]]
  BY DEF BasicInv, TypeOK
<1>1. ASSUME NEW e \in Events, ClientSend(e) PROVE BasicInv'
  <2>1. PICK m \in [kind: {"access"}, nonce: {NoNonce}, asks: Requirements, proof: {NoProof}]
                  \cup [kind: {"proof"}, nonce: offered, asks: {NoRequirement}, proof: Proofs] :
               msg' = [msg EXCEPT ![e] = m]
    BY <1>1 DEF ClientSend
  <2>2. m \in Message /\ (m.kind = "proof" => m.nonce \in offered)
    <3>1. CASE m \in [kind: {"access"}, nonce: {NoNonce}, asks: Requirements, proof: {NoProof}]
      BY <3>1 DEF Message
    <3>2. CASE m \in [kind: {"proof"}, nonce: offered, asks: {NoRequirement}, proof: Proofs]
      BY <3>2 DEF BasicInv, TypeOK, Message
    <3> QED BY <2>1, <3>1, <3>2
  <2>3. TypeOK'
    BY <1>1, <2>1, <2>2 DEF ClientSend, BasicInv, TypeOK
  <2>4. ControlOK'
    BY <1>1 DEF ClientSend, BasicInv, ControlOK
  <2>5. m # NoMsg
    BY <2>2, GateMessages
  <2>6. RequestOK'
    BY <1>1, <2>1, <2>2, <2>5 DEF ClientSend, BasicInv, RequestOK, TypeOK
  <2> QED BY <2>3, <2>4, <2>6 DEF BasicInv
<1>2. CASE Tick
  BY <1>2 DEF Tick, BasicInv, TypeOK, ControlOK, RequestOK
<1>3. ASSUME NEW s \in Slots, NEW e \in Events, Deliver(s, e) PROVE BasicInv'
  <2> DEFINE r == [run[s] EXCEPT !.pc = "received", !.ev = e]
  <2>1. r \in Run /\ run' = [run EXCEPT ![s] = r] /\ r.pc = "received" /\ r.ev = e
    BY <1>3, <1>h1 DEF Deliver, Run, PCs, BasicInv, TypeOK
  <2>2. Saved(s)
    BY <1>3, <1>h1 DEF Deliver, AwaitingPCs
  <2> HIDE DEF r
  <2>3. ControlOK' /\ RequestOK' /\ run' \in [Slots -> Run]
    BY <1>3, <2>1, <2>2, QuietStep DEF Deliver, AwaitingPCs, BasicInv, RequestOK
  <2> QED BY <1>3, <2>3 DEF Deliver, BasicInv, TypeOK
<1>4. ASSUME NEW s \in Slots, HandleUnloaded(s) \/ RefusePattern(s) \/ Refuse(s) PROVE BasicInv'
  <2> DEFINE r == [run[s] EXCEPT !.pc = "replied"]
  <2>1. r \in Run /\ run' = [run EXCEPT ![s] = r] /\ r.pc = "replied" /\ r.ev = run[s].ev
    BY <1>4, <1>h2, <1>h3 DEF HandleUnloaded, RefusePattern, Refuse, Goto
  <2>2. Saved(s) /\ run[s].pc # "idle"
    BY <1>4, <1>h1 DEF HandleUnloaded, RefusePattern, Refuse, AwaitingPCs, At
  <2> HIDE DEF r
  <2>3. ControlOK' /\ RequestOK' /\ run' \in [Slots -> Run]
    BY <1>4, <2>1, <2>2, QuietStep DEF HandleUnloaded, RefusePattern, Refuse, AwaitingPCs, BasicInv, RequestOK
  <2> QED BY <1>4, <2>3 DEF HandleUnloaded, RefusePattern, Refuse, BasicInv, TypeOK
<1>5. ASSUME NEW s \in Slots, RequestAccess(s) PROVE BasicInv'
  <2>1. PICK n \in Nonces \ issued :
           /\ mem' = [mem EXCEPT !.challenges = @ \cup {n}]
           /\ Save(s, [mem EXCEPT !.challenges = @ \cup {n}])
           /\ expires' = [expires EXCEPT ![n] = now + ChallengeExpiry]
           /\ asked' = [asked EXCEPT ![n] = MsgOf(s).asks]
           /\ issued' = issued \cup {n}
           /\ run' = [run EXCEPT ![s].pc = "storing", ![s].nonce = n]
    BY <1>5 DEF RequestAccess, IssueChallenge
  <2>2. mem' \in GateState /\ Save(s, mem')
    BY <2>1, MemTypes DEF BasicInv, TypeOK, GateState
  <2> DEFINE r == [run[s] EXCEPT !.pc = "storing", !.nonce = n]
  <2>3. /\ r \in Run /\ run' = [run EXCEPT ![s] = r] /\ r.pc = "storing"
        /\ r.ev = run[s].ev /\ r.nonce = n
    BY <2>1, <1>h1 DEF Run, PCs, BasicInv, TypeOK
  <2>4. Saved(s) /\ run[s].pc # "idle" /\ phase = "up"
    BY <1>5, <1>h1 DEF RequestAccess, AwaitingPCs, At
  <2> HIDE DEF r
  <2>5. ControlOK' /\ RequestOK' /\ run' \in [Slots -> Run] /\ writes' \in Seq(Write)
    BY <1>5, <2>1, <2>2, <2>3, <2>4, SaveStep DEF RequestAccess, AwaitingPCs, BasicInv, RequestOK
  <2>6. MsgOf(s) \in Message
    BY <1>5 DEF RequestAccess, At, MsgOf, BasicInv, RequestOK, TypeOK
  <2>7. expires' \in [Nonces -> Nat] /\ asked' \in [Nonces -> Requirements \cup {NoRequirement}]
    BY <2>1, <2>6, GateBounds DEF BasicInv, TypeOK, Message
  <2> QED BY <1>5, <2>1, <2>2, <2>5, <2>7 DEF RequestAccess, BasicInv, TypeOK
<1>6. ASSUME NEW s \in Slots, SendChallenge(s) \/ Grant(s) \/ SendFails(s) PROVE BasicInv'
  <2> DEFINE r == [run[s] EXCEPT !.pc = "replied"]
  <2>1. r \in Run /\ run' = [run EXCEPT ![s] = r] /\ r.pc = "replied" /\ r.ev = run[s].ev
    BY <1>6, <1>h2, <1>h3 DEF SendChallenge, Grant, SendFails, Goto
  <2>2. Saved(s) /\ run[s].pc # "idle"
    BY <1>6 DEF SendChallenge, Grant, SendFails, At
  <2>3. /\ offered' \subseteq issued
        /\ UNCHANGED <<mem, disk, writes, phase, msg, processed, expires, asked, now, issued, opened>>
    BY <1>6 DEF SendChallenge, Grant, SendFails, At, AwaitingPCs, BasicInv, RequestOK
  <2> HIDE DEF r
  <2>4. ControlOK' /\ RequestOK' /\ run' \in [Slots -> Run]
    BY <2>1, <2>2, <2>3, QuietStep DEF AwaitingPCs, BasicInv, RequestOK
  <2>5. faults' \in Nat /\ granted' \subseteq Session
    BY <1>6, <1>h1 DEF SendChallenge, Grant, SendFails, BasicInv, TypeOK, Run
  <2> QED BY <2>3, <2>4, <2>5 DEF BasicInv, TypeOK
<1>7. ASSUME NEW s \in Slots, CheckProof(s) PROVE BasicInv'
  <2> DEFINE r == [run[s] EXCEPT !.pc = IF ProofAccepted(MsgOf(s).nonce) THEN "verifying" ELSE "replied",
                                 !.nonce = MsgOf(s).nonce]
  <2>1. /\ run[s].pc = "received" /\ Saved(s) /\ MsgOf(s).nonce \in issued
        /\ run[s].ev \in Events /\ msg[run[s].ev] # NoMsg
    BY <1>7, <1>h1 DEF CheckProof, At, MsgOf, AwaitingPCs, BasicInv, RequestOK
  <2>2. MsgOf(s).nonce \in Nonces
    BY <2>1 DEF BasicInv, TypeOK
  <2>3. r \in Run /\ r.pc \in {"verifying", "replied"} /\ r.ev = run[s].ev /\ r.nonce = MsgOf(s).nonce
    BY <2>2, <1>h1 DEF Run, PCs
  <2>4. run' = [run EXCEPT ![s] = r]
    BY <1>7 DEF CheckProof, BasicInv, TypeOK
  <2> HIDE DEF r
  <2>5. ControlOK' /\ RequestOK' /\ run' \in [Slots -> Run]
    BY <1>7, <2>1, <2>3, <2>4, QuietStep DEF CheckProof, At, AwaitingPCs, BasicInv, RequestOK
  <2> QED BY <1>7, <2>5 DEF CheckProof, BasicInv, TypeOK
<1>8. ASSUME NEW s \in Slots, MarkNonce(s) PROVE BasicInv'
  <2>1. run[s].pc = "verifying" /\ phase = "up" /\ run[s].nonce \in issued /\ Saved(s)
    BY <1>8, <1>h1 DEF MarkNonce, At, BasicInv, RequestOK, AwaitingPCs
  <2>2. run[s].nonce \in Nonces
    BY <2>1 DEF BasicInv, TypeOK
  <2>3. mem' \in GateState /\ Save(s, mem')
    BY <1>8, <2>2, MemTypes DEF MarkNonce, BasicInv, TypeOK, GateState
  <2> DEFINE r == [run[s] EXCEPT !.pc = "marking"]
  <2>4. /\ r \in Run /\ run' = [run EXCEPT ![s] = r] /\ r.pc = "marking"
        /\ r.ev = run[s].ev /\ r.nonce = run[s].nonce
    BY <1>8, <1>h1 DEF MarkNonce, Goto, Run, PCs, BasicInv, TypeOK
  <2> HIDE DEF r
  <2>5. ControlOK' /\ RequestOK' /\ run' \in [Slots -> Run] /\ writes' \in Seq(Write)
    BY <1>8, <2>1, <2>3, <2>4, SaveStep DEF MarkNonce, AwaitingPCs, BasicInv, RequestOK
  <2> QED BY <1>8, <2>3, <2>5 DEF MarkNonce, BasicInv, TypeOK
<1>9. ASSUME NEW s \in Slots, OpenSession(s) PROVE BasicInv'
  <2> DEFINE x == [id |-> Cardinality(opened), nonce |-> run[s].nonce, until |-> now + SessionExpiry]
             r == [run[s] EXCEPT !.pc = "opening", !.pass = {x}]
  <2>1. run[s].pc = "marking" /\ phase = "up" /\ run[s].nonce \in issued /\ Saved(s)
    BY <1>9 DEF OpenSession, At, BasicInv, RequestOK, AwaitingPCs
  <2>2. x \in Session
    BY <2>1, FS_CardinalityType, GateBounds DEF BasicInv, TypeOK, Session
  <2>3. /\ mem' = [mem EXCEPT !.sessions = @ \cup {x}] /\ Save(s, [mem EXCEPT !.sessions = @ \cup {x}])
        /\ opened' = opened \cup {x}
        /\ run' = [run EXCEPT ![s].pc = "opening", ![s].pass = {x}]
    BY <1>9 DEF OpenSession
  <2> HIDE DEF x
  <2>4. r \in Run /\ r.pc = "opening" /\ r.ev = run[s].ev /\ r.nonce = run[s].nonce
    BY <2>2, <1>h1 DEF Run, PCs
  <2>5. run' = [run EXCEPT ![s] = r]
    BY <2>3 DEF BasicInv, TypeOK
  <2>6. [mem EXCEPT !.sessions = @ \cup {x}] \in GateState
    BY <2>2 DEF BasicInv, TypeOK, GateState
  <2>7. mem' \in GateState /\ Save(s, mem')
    BY <2>3, <2>6
  <2>8. opened' \subseteq Session /\ IsFiniteSet(opened')
    BY <2>2, <2>3, FS_AddElement DEF BasicInv, TypeOK
  <2> HIDE DEF r
  <2>9. UNCHANGED <<phase, msg, offered, issued>>
    BY <1>9 DEF OpenSession
  <2>10. run[s].ev \in Events /\ msg[run[s].ev] # NoMsg /\ r.pc \in AwaitingPCs
    BY <2>1, <2>4 DEF BasicInv, RequestOK, AwaitingPCs
  <2>11. ControlOK' /\ RequestOK' /\ run' \in [Slots -> Run] /\ writes' \in Seq(Write)
    BY <2>1, <2>4, <2>5, <2>7, <2>9, <2>10, SaveStep
  <2> QED BY <1>9, <2>7, <2>8, <2>11 DEF OpenSession, BasicInv, TypeOK
<1>10. ASSUME NEW s \in Slots, FinishEvent(s) PROVE BasicInv'
  <2>1. IdleRun \in Run /\ IdleRun.pc = "idle"
    BY DEF IdleRun, Run, PCs
  <2>2. Saved(s) /\ run[s].ev \in Events
    BY <1>10, <1>h1 DEF FinishEvent, AwaitingPCs, BasicInv, RequestOK
  <2>3. ControlOK' /\ RequestOK' /\ run' \in [Slots -> Run]
    BY <1>10, <2>1, <2>2, QuietStep DEF FinishEvent, AwaitingPCs, BasicInv, RequestOK
  <2> QED BY <1>10, <2>2, <2>3 DEF FinishEvent, BasicInv, TypeOK
<1>11. CASE CleanupExpired
  <2>1. mem' \in GateState
    BY <1>11 DEF CleanupExpired, BasicInv, TypeOK, GateState
  <2> QED BY <1>11, <2>1 DEF CleanupExpired, BasicInv, TypeOK, ControlOK, RequestOK
<1>12. ASSUME NEW x \in mem.sessions, VerifySession(x) PROVE BasicInv'
  <2>1. mem' \in GateState
    BY <1>12 DEF VerifySession, BasicInv, TypeOK, GateState
  <2> QED BY <1>12, <2>1 DEF VerifySession, BasicInv, TypeOK, ControlOK, RequestOK
<1>13. ASSUME NEW i \in DOMAIN writes, WriteLands(i) PROVE BasicInv'
  <2>1. writes[i].snap \in GateState /\ phase = "up"
    BY WritesFacts DEF BasicInv, Write, ControlOK
  <2>2. /\ writes' \in Seq(Write)
        /\ \A j \in DOMAIN writes' : \E k \in DOMAIN writes : k # i /\ writes'[j] = writes[k]
        /\ \A j, k \in DOMAIN writes' : writes'[j].by = writes'[k].by => j = k
    BY <1>13, SettleStep DEF WriteLands, BasicInv
  <2>3. TypeOK'
    BY <1>13, <2>1, <2>2 DEF WriteLands, BasicInv, TypeOK
  <2>4. ControlOK'
    BY <1>13, <2>1, <2>2 DEF WriteLands, BasicInv, ControlOK
  <2>5. RequestOK'
    BY <1>13 DEF WriteLands, BasicInv, RequestOK
  <2> QED BY <2>3, <2>4, <2>5 DEF BasicInv
<1>14. ASSUME NEW i \in DOMAIN writes, WriteFails(i) PROVE BasicInv'
  <2> DEFINE s == writes[i].by
             r == [run[s] EXCEPT !.pc = "replied"]
  <2>1. s \in Slots /\ run[s].pc \in AwaitingPCs /\ phase = "up"
    BY WritesFacts DEF BasicInv, Write, ControlOK
  <2> HIDE DEF s
  <2>2. r \in Run /\ r.pc = "replied" /\ r.ev = run[s].ev
    BY <2>1, <1>h1 DEF Run, PCs
  <2>3. run' = [run EXCEPT ![s] = r]
    BY <1>14, <2>1, <1>h3 DEF WriteFails, Goto, s
  <2>4. /\ run' \in [Slots -> Run] /\ run'[s] = r
        /\ \A y \in Slots \ {s} : run'[y] = run[y]
    BY <2>1, <2>2, <2>3 DEF BasicInv, TypeOK
  <2>5. /\ writes' \in Seq(Write)
        /\ \A j \in DOMAIN writes' : \E k \in DOMAIN writes : k # i /\ writes'[j] = writes[k]
        /\ \A j, k \in DOMAIN writes' : writes'[j].by = writes'[k].by => j = k
        /\ \A j \in DOMAIN writes' : writes'[j].by # s
    BY <1>14, SettleStep DEF WriteFails, BasicInv, s
  <2>6. \A k \in DOMAIN writes : writes[k].by \in Slots
    BY WritesFacts DEF BasicInv, Write
  <2>7. ControlOK'
    BY <1>14, <2>1, <2>4, <2>5, <2>6 DEF WriteFails, BasicInv, ControlOK
  <2> HIDE DEF r
  <2>8. RequestOK'
    BY <1>14, <2>1, <2>2, <2>4 DEF WriteFails, BasicInv, RequestOK, AwaitingPCs
  <2>9. TypeOK'
    BY <1>14, <2>4, <2>5 DEF WriteFails, BasicInv, TypeOK
  <2> QED BY <2>7, <2>8, <2>9 DEF BasicInv
<1>15. CASE Crash
  <2>1. EmptyGate \in GateState /\ IdleRun \in Run /\ IdleRun.pc = "idle"
    BY DEF EmptyGate, GateState, IdleRun, Run, PCs
  <2>2. <<>> \in Seq(Write) /\ DOMAIN <<>> = {}
    BY EmptySeq
  <2>3. \A s \in Slots : run'[s] = IdleRun
    BY <1>15 DEF Crash
  <2>4. TypeOK'
    BY <1>15, <2>1, <2>2 DEF Crash, BasicInv, TypeOK
  <2>5. ControlOK'
    BY <1>15, <2>1, <2>2, <2>3 DEF Crash, ControlOK
  <2>6. RequestOK'
    BY <1>15, <2>1, <2>3 DEF Crash, BasicInv, RequestOK, AwaitingPCs
  <2> QED BY <2>4, <2>5, <2>6 DEF BasicInv
<1>16. CASE Subscribe
  BY <1>16 DEF Subscribe, BasicInv, TypeOK, ControlOK, RequestOK
<1>17. CASE LoadState
  BY <1>17 DEF LoadState, BasicInv, TypeOK, ControlOK, RequestOK
<1>18. CASE UNCHANGED vars
  BY <1>18 DEF vars, BasicInv, TypeOK, ControlOK, RequestOK, Saved, At
<1> QED
  BY <1>1, <1>2, <1>3, <1>4, <1>5, <1>6, <1>7, <1>8, <1>9, <1>10, <1>11, <1>12, <1>13, <1>14,
     <1>15, <1>16, <1>17, <1>18 DEF Next, HandlerStep

(* Every variable of the gate keeps its type.                              *)
THEOREM GateTypeCorrect == Spec => []TypeOK
<1>1. BasicInv => TypeOK
  BY DEF BasicInv
<1> QED BY <1>1, BasicInit, BasicStep, PTL DEF Spec

-----------------------------------------------------------------------------
(* What one step does to memory, storage and pending writes.               *)
LEMMA StepKinds ==
    ASSUME BasicInv, [Next]_vars
    PROVE  \/ UNCHANGED <<disk, writes, phase>>
           \/ \E s \in Slots :
                 /\ phase = "up" /\ phase' = "up" /\ disk' = disk
                 /\ Save(s, mem') /\ run'[s].pc # run[s].pc
           \/ \E i \in MaySettle :
                 /\ phase' = phase /\ mem' = mem /\ writes' = RemoveAt(writes, i)
                 /\ \/ disk' = writes[i].snap
                    \/ disk' = disk /\ run'[writes[i].by].pc = "replied"
           \/ phase' # "up" /\ disk' = disk /\ writes' = <<>>
           \/ phase # "up" /\ mem' = disk /\ disk' = disk /\ writes' = <<>>
<1> DEFINE Goal ==
           \/ UNCHANGED <<disk, writes, phase>>
           \/ \E s \in Slots :
                 /\ phase = "up" /\ phase' = "up" /\ disk' = disk
                 /\ Save(s, mem') /\ run'[s].pc # run[s].pc
           \/ \E i \in MaySettle :
                 /\ phase' = phase /\ mem' = mem /\ writes' = RemoveAt(writes, i)
                 /\ \/ disk' = writes[i].snap
                    \/ disk' = disk /\ run'[writes[i].by].pc = "replied"
           \/ phase' # "up" /\ disk' = disk /\ writes' = <<>>
           \/ phase # "up" /\ mem' = disk /\ disk' = disk /\ writes' = <<>>
<1>t. run \in [Slots -> Run] /\ \A s \in Slots : run[s] \in Run
  BY DEF BasicInv, TypeOK
<1>1. ASSUME NEW s \in Slots, RequestAccess(s) PROVE Goal
  <2>1. Save(s, mem') /\ phase = "up" /\ phase' = "up" /\ disk' = disk /\ run[s].pc = "received"
    BY <1>1 DEF RequestAccess, At
  <2>2. run'[s].pc = "storing"
    BY <1>1, <1>t DEF RequestAccess, Run
  <2> QED BY <2>1, <2>2
<1>2. ASSUME NEW s \in Slots, MarkNonce(s) PROVE Goal
  <2>1. Save(s, mem') /\ phase = "up" /\ phase' = "up" /\ disk' = disk /\ run[s].pc = "verifying"
    BY <1>2 DEF MarkNonce, At
  <2>2. run'[s].pc = "marking"
    BY <1>2, <1>t DEF MarkNonce, Goto, Run
  <2> QED BY <2>1, <2>2
<1>3. ASSUME NEW s \in Slots, OpenSession(s) PROVE Goal
  <2>1. Save(s, mem') /\ phase = "up" /\ phase' = "up" /\ disk' = disk /\ run[s].pc = "marking"
    BY <1>3 DEF OpenSession, At
  <2>2. run'[s].pc = "opening"
    BY <1>3, <1>t DEF OpenSession, Run
  <2> QED BY <2>1, <2>2
<1>4. ASSUME NEW s \in Slots,
             \/ HandleUnloaded(s) \/ RefusePattern(s) \/ SendChallenge(s) \/ CheckProof(s) \/ Refuse(s)
             \/ Grant(s) \/ SendFails(s) \/ FinishEvent(s)
      PROVE  Goal
  BY <1>4 DEF HandleUnloaded, RefusePattern, SendChallenge, CheckProof, Refuse, Grant, SendFails, FinishEvent
<1>5. ASSUME NEW e \in Events, ClientSend(e) \/ \E s \in Slots : Deliver(s, e) PROVE Goal
  BY <1>5 DEF ClientSend, Deliver
<1>6. ASSUME CleanupExpired \/ Tick \/ UNCHANGED vars \/ \E x \in mem.sessions : VerifySession(x)
      PROVE  Goal
  BY <1>6 DEF CleanupExpired, Tick, VerifySession, vars
<1>7. ASSUME NEW i \in DOMAIN writes, WriteLands(i) PROVE Goal
  BY <1>7 DEF WriteLands
<1>8. ASSUME NEW i \in DOMAIN writes, WriteFails(i) PROVE Goal
  <2>1. writes[i].by \in Slots
    BY WritesFacts DEF BasicInv, Write
  <2>2. run'[writes[i].by].pc = "replied"
    BY <1>8, <1>t, <2>1 DEF WriteFails, Goto, Run
  <2> QED BY <1>8, <2>2 DEF WriteFails
<1>9. CASE Crash
  BY <1>9 DEF Crash
<1>10. CASE Subscribe
  BY <1>10 DEF Subscribe, BasicInv, ControlOK
<1>11. CASE LoadState
  BY <1>11 DEF LoadState, BasicInv, ControlOK
<1> QED
  BY <1>1, <1>2, <1>3, <1>4, <1>5, <1>6, <1>7, <1>8, <1>9, <1>10, <1>11 DEF Next, HandlerStep

(* A set of states that the memory does not leave holds of storage and of  *)
(* the pending writes as it did.                                           *)
LEMMA StableStep ==
    ASSUME BasicInv, BasicInv', [Next]_vars, OrderedWrites, NEW States,
           phase = "up" /\ phase' = "up" /\ mem \in States => mem' \in States
    PROVE  /\ Everywhere(States) => Everywhere(States)'
           /\ \A s \in Slots :
                 /\ run[s].pc \in AwaitingPCs /\ run'[s].pc = run[s].pc
                 /\ Established(s, States)
                 => Established(s, States)'
<1>n. Len(writes) \in Nat /\ DOMAIN writes = 1..Len(writes)
  BY WritesFacts DEF BasicInv
<1>p. \A s \in Slots : run[s].pc \in AwaitingPCs => phase = "up"
  BY DEF BasicInv, ControlOK, AwaitingPCs
<1>1. CASE UNCHANGED <<disk, writes, phase>>
  <2>1. Everywhere(States) => Everywhere(States)'
    BY <1>1 DEF Everywhere
  <2>2. \A s \in Slots : Saved(s)' = Saved(s)
    BY <1>1 DEF Saved
  <2> QED BY <1>1, <1>p, <2>1, <2>2 DEF Established
<1>2. ASSUME NEW t \in Slots, phase = "up", phase' = "up", disk' = disk,
             Save(t, mem'), run'[t].pc # run[t].pc
      PROVE  /\ Everywhere(States) => Everywhere(States)'
             /\ \A s \in Slots :
                   /\ run[s].pc \in AwaitingPCs /\ run'[s].pc = run[s].pc
                   /\ Established(s, States)
                   => Established(s, States)'
  <2>1. /\ DOMAIN writes' = 1..(Len(writes) + 1)
        /\ \A i \in 1..Len(writes) : writes'[i] = writes[i]
        /\ writes'[Len(writes) + 1] = [by |-> t, snap |-> mem']
    <3>1. mem' \in GateState
      BY DEF BasicInv, TypeOK
    <3> QED BY <1>2, <3>1, SaveFacts DEF BasicInv
  <2>2. /\ writes'[Len(writes) + 1].by = t
        /\ writes'[Len(writes) + 1].snap = mem'
    BY <2>1
  <2>3. Everywhere(States) => Everywhere(States)'
    BY <1>2, <1>n, <2>1, <2>2 DEF Everywhere
  <2>4. ASSUME NEW s \in Slots, run'[s].pc = run[s].pc, Established(s, States)
        PROVE  Established(s, States)'
    <3>1. s # t
      BY <1>2, <2>4
    <3>2. mem' \in States
      BY <1>2, <2>4 DEF Established
    <3>3. ASSUME NEW i \in DOMAIN writes', NEW j \in DOMAIN writes', writes'[i].by = s, i <= j
          PROVE  writes'[j].snap \in States
      <4>1. i \in 1..Len(writes)
        BY <1>n, <2>1, <2>2, <3>1, <3>3
      <4>2. CASE j \in 1..Len(writes)
        BY <1>n, <2>1, <2>4, <3>3, <4>1, <4>2 DEF Established
      <4>3. CASE j = Len(writes) + 1
        BY <2>2, <3>2, <4>3
      <4> QED BY <1>n, <2>1, <4>2, <4>3
    <3>4. Saved(s)' => Saved(s)
      BY <1>n, <2>1 DEF Saved
    <3> QED BY <2>3, <2>4, <3>2, <3>3, <3>4 DEF Established
  <2> QED BY <2>3, <2>4
<1>3. ASSUME NEW i \in MaySettle, phase' = phase, mem' = mem, writes' = RemoveAt(writes, i),
             disk' = writes[i].snap \/ (disk' = disk /\ run'[writes[i].by].pc = "replied")
      PROVE  /\ Everywhere(States) => Everywhere(States)'
             /\ \A s \in Slots :
                   /\ run[s].pc \in AwaitingPCs /\ run'[s].pc = run[s].pc
                   /\ Established(s, States)
                   => Established(s, States)'
  <2>1. i = 1 /\ 1 \in DOMAIN writes
    BY <1>3 DEF MaySettle
  <2>2. /\ DOMAIN writes' = 1..(Len(writes) - 1)
        /\ \A j \in 1..(Len(writes) - 1) : writes'[j] = writes[j + 1]
    BY <1>3, <1>n, <2>1, RemoveOldest, LenProperties, WritesFacts DEF BasicInv
  <2>3. Everywhere(States) => Everywhere(States)'
    BY <1>3, <1>n, <2>1, <2>2 DEF Everywhere
  <2>4. ASSUME NEW s \in Slots, run[s].pc \in AwaitingPCs, run'[s].pc = run[s].pc,
               Established(s, States)
        PROVE  Established(s, States)'
    <3>1. mem' \in States
      BY <1>3, <2>4 DEF Established
    <3>2. ASSUME NEW j \in DOMAIN writes', NEW k \in DOMAIN writes', writes'[j].by = s, j <= k
          PROVE  writes'[k].snap \in States
      <4>1. /\ j + 1 \in DOMAIN writes /\ writes'[j] = writes[j + 1]
            /\ k + 1 \in DOMAIN writes /\ writes'[k] = writes[k + 1]
            /\ j + 1 <= k + 1
        BY <1>n, <2>2, <3>2
      <4>2. writes[j + 1].by = s
        BY <3>2, <4>1
      <4>3. writes[k + 1].snap \in States
        BY <2>4, <4>1, <4>2 DEF Established
      <4> QED BY <4>1, <4>3
    <3>3. ASSUME Saved(s)' PROVE Everywhere(States)'
      <4>1. CASE Saved(s)
        BY <2>3, <2>4, <4>1 DEF Established
      <4>2. CASE ~Saved(s)
        <5>1. PICK k \in DOMAIN writes : writes[k].by = s
          BY <4>2 DEF Saved
        <5>2. k = 1
          <6>1. SUFFICES ASSUME k # 1 PROVE FALSE
            OBVIOUS
          <6>2. k - 1 \in DOMAIN writes' /\ writes'[k - 1] = writes[k]
            BY <1>n, <2>2, <6>1
          <6> QED BY <3>3, <5>1, <6>2 DEF Saved
        <5>3. \A j \in DOMAIN writes : writes[j].snap \in States
          BY <1>n, <2>1, <2>4, <5>1, <5>2 DEF Established
        <5>4. disk' = writes[1].snap
          BY <1>3, <2>1, <2>4, <5>1, <5>2 DEF AwaitingPCs
        <5> QED BY <1>n, <2>1, <2>2, <3>1, <5>3, <5>4 DEF Everywhere
      <4> QED BY <4>1, <4>2
    <3> QED BY <3>1, <3>2, <3>3 DEF Established
  <2> QED BY <2>3, <2>4
<1>4. CASE phase' # "up" /\ disk' = disk /\ writes' = <<>>
  <2>1. Everywhere(States) => Everywhere(States)'
    BY <1>4, EmptySeq DEF Everywhere
  <2>2. \A s \in Slots : run'[s].pc \notin AwaitingPCs
    BY <1>4 DEF BasicInv, ControlOK, AwaitingPCs
  <2> QED BY <2>1, <2>2
<1>5. CASE phase # "up" /\ mem' = disk /\ disk' = disk /\ writes' = <<>>
  <2>1. Everywhere(States) => Everywhere(States)'
    BY <1>5, EmptySeq DEF Everywhere
  <2> QED BY <1>5, <1>p, <2>1
<1> QED BY <1>1, <1>2, <1>3, <1>4, <1>5, StepKinds

(* A handler that saves a state of the set has established it.             *)
LEMMA SaverStep ==
    ASSUME BasicInv, NEW s \in Slots, Saved(s), Save(s, mem'), mem' \in GateState,
           NEW States, mem' \in States
    PROVE  Established(s, States)'
<1>1. /\ DOMAIN writes' = 1..(Len(writes) + 1)
      /\ \A i \in 1..Len(writes) : writes'[i] = writes[i]
      /\ writes'[Len(writes) + 1] = [by |-> s, snap |-> mem']
      /\ Len(writes) \in Nat /\ DOMAIN writes = 1..Len(writes)
  BY SaveFacts, WritesFacts DEF BasicInv
<1>2. writes'[Len(writes) + 1].by = s /\ writes'[Len(writes) + 1].snap = mem'
  BY <1>1
<1>3. ~Saved(s)'
  BY <1>1, <1>2 DEF Saved
<1>4. ASSUME NEW i \in DOMAIN writes', NEW j \in DOMAIN writes', writes'[i].by = s, i <= j
      PROVE  writes'[j].snap \in States
  <2>1. i = Len(writes) + 1
    BY <1>1, <1>4 DEF Saved
  <2>2. j = Len(writes) + 1
    BY <1>1, <1>4, <2>1
  <2> QED BY <1>2, <2>2
<1> QED BY <1>3, <1>4 DEF Established

-----------------------------------------------------------------------------
(* A challenge stays closed, and a session is held until it expires, in    *)
(* every step of a running gate.                                           *)
LEMMA MemoryKeeps ==
    ASSUME BasicInv, BasicInv', [Next]_vars, phase = "up", phase' = "up"
    PROVE  /\ \A n \in issued : mem \in Closed(n) => mem' \in Closed(n)
           /\ \A x \in Session : now' <= x.until /\ mem \in Holding(x) => mem' \in Holding(x)
<1> DEFINE Goal ==
           /\ \A n \in issued : mem \in Closed(n) => mem' \in Closed(n)
           /\ \A x \in Session : now' <= x.until /\ mem \in Holding(x) => mem' \in Holding(x)
<1>t. mem \in GateState /\ mem' \in GateState /\ now \in Nat /\ now' \in Nat
  BY DEF BasicInv, TypeOK
<1>1. ASSUME NEW s \in Slots, RequestAccess(s) PROVE Goal
  <2>1. PICK n \in Nonces \ issued : mem' = [mem EXCEPT !.challenges = @ \cup {n}]
    BY <1>1 DEF RequestAccess, IssueChallenge
  <2>2. /\ mem'.challenges = mem.challenges \cup {n} /\ mem'.used = mem.used
        /\ mem'.sessions = mem.sessions
    BY <1>t, <2>1 DEF GateState
  <2> QED BY <1>t, <2>2 DEF Closed, Holding, Open
<1>2. ASSUME NEW s \in Slots, MarkNonce(s) PROVE Goal
  <2>1. mem' = [mem EXCEPT !.challenges = @ \cup {run[s].nonce}, !.used = @ \cup {run[s].nonce}]
    BY <1>2 DEF MarkNonce
  <2>2. /\ mem'.challenges = mem.challenges \cup {run[s].nonce}
        /\ mem'.used = mem.used \cup {run[s].nonce} /\ mem'.sessions = mem.sessions
    BY <1>t, <2>1 DEF GateState
  <2> QED BY <1>t, <2>2 DEF Closed, Holding, Open
<1>3. ASSUME NEW s \in Slots, OpenSession(s) PROVE Goal
  <2>1. PICK y : mem' = [mem EXCEPT !.sessions = @ \cup {y}]
    BY <1>3 DEF OpenSession
  <2>2. /\ mem'.challenges = mem.challenges /\ mem'.used = mem.used
        /\ mem'.sessions = mem.sessions \cup {y}
    BY <1>t, <2>1 DEF GateState
  <2> QED BY <1>t, <2>2 DEF Closed, Holding, Open
<1>4. CASE CleanupExpired
  <2>1. PICK old : mem' = [challenges |-> mem.challenges \ old, used |-> mem.used \ old,
                           sessions |-> {x \in mem.sessions : now <= x.until}]
    BY <1>4 DEF CleanupExpired
  <2>2. /\ mem'.challenges = mem.challenges \ old /\ mem'.used = mem.used \ old
        /\ mem'.sessions = {x \in mem.sessions : now <= x.until} /\ now' = now
    BY <1>4, <2>1 DEF CleanupExpired
  <2> QED BY <1>t, <2>2 DEF Closed, Holding, Open
<1>5. ASSUME NEW y \in mem.sessions, VerifySession(y) PROVE Goal
  <2>1. /\ mem'.challenges = mem.challenges /\ mem'.used = mem.used
        /\ mem'.sessions = mem.sessions \ {y} /\ now' = now /\ now > y.until
    BY <1>t, <1>5 DEF VerifySession, GateState
  <2>2. y.until \in Nat
    BY <1>t DEF GateState, Session
  <2> QED BY <1>t, <2>1, <2>2 DEF Closed, Holding, Open, Session
<1>6. ASSUME mem' = mem PROVE Goal
  BY <1>6
<1>7. ASSUME NEW s \in Slots, HandlerStep(s) PROVE Goal
  <2>1. CASE RequestAccess(s) \/ MarkNonce(s) \/ OpenSession(s)
    BY <1>1, <1>2, <1>3, <2>1
  <2>2. CASE \/ HandleUnloaded(s) \/ RefusePattern(s) \/ SendChallenge(s) \/ CheckProof(s) \/ Refuse(s)
             \/ Grant(s) \/ FinishEvent(s)
    <3>1. mem' = mem
      BY <2>2 DEF HandleUnloaded, RefusePattern, SendChallenge, CheckProof, Refuse, Grant, FinishEvent
    <3> QED BY <1>6, <3>1
  <2> QED BY <1>7, <2>1, <2>2 DEF HandlerStep
<1>8. ASSUME NEW s \in Slots, SendFails(s) PROVE Goal
  BY <1>6, <1>8 DEF SendFails
<1>9. ASSUME NEW e \in Events, ClientSend(e) \/ \E s \in Slots : Deliver(s, e) PROVE Goal
  BY <1>6, <1>9 DEF ClientSend, Deliver
<1>10. ASSUME NEW i \in DOMAIN writes, WriteLands(i) \/ WriteFails(i) PROVE Goal
  BY <1>6, <1>10 DEF WriteLands, WriteFails
<1>11. CASE Crash \/ Subscribe \/ LoadState
  BY <1>11 DEF Crash, Subscribe, LoadState
<1>12. CASE Tick \/ UNCHANGED vars
  BY <1>6, <1>12 DEF Tick, vars
<1> QED BY <1>4, <1>5, <1>7, <1>8, <1>9, <1>10, <1>11, <1>12 DEF Next

(* How a handler gets to verify a proof or to await the save of a used     *)
(* nonce or of a session, and what a step adds to the history.             *)
LEMMA WhoAwaits ==
    ASSUME BasicInv, [Next]_vars
    PROVE  /\ \A s \in Slots :
                 /\ run'[s].pc = "verifying" => CheckProof(s) \/ run[s].pc = "verifying"
                 /\ run'[s].pc = "marking" =>
                       MarkNonce(s) \/ (run[s].pc = "marking" /\ run'[s].nonce = run[s].nonce)
                 /\ run'[s].pc = "opening" =>
                       OpenSession(s) \/ (run[s].pc = "opening" /\ run'[s].pass = run[s].pass)
           /\ opened' = opened \/ \E s \in Slots : OpenSession(s)
           /\ granted' = granted \/ \E s \in Slots : Grant(s)
           /\ issued \subseteq issued' /\ now <= now'
<1> DEFINE Calm(s) ==
           /\ run'[s].pc = "verifying" => run[s].pc = "verifying"
           /\ run'[s].pc = "marking" => run[s].pc = "marking" /\ run'[s].nonce = run[s].nonce
           /\ run'[s].pc = "opening" => run[s].pc = "opening" /\ run'[s].pass = run[s].pass
           Rest ==
           /\ opened' = opened /\ granted' = granted
           /\ issued \subseteq issued' /\ now <= now'
<1>t. /\ run \in [Slots -> Run] /\ \A s \in Slots : run[s] \in Run
      /\ now \in Nat
  BY DEF BasicInv, TypeOK
<1>1. ASSUME NEW s \in Slots, NEW e \in Events, Deliver(s, e)
      PROVE  (\A x \in Slots : Calm(x)) /\ Rest
  <2>1. \A x \in Slots \ {s} : run'[x] = run[x]
    BY <1>1, <1>t DEF Deliver
  <2>2. run'[s].pc = "received"
    BY <1>1, <1>t DEF Deliver, Run
  <2> QED BY <1>1, <1>t, <2>1, <2>2 DEF Deliver, history
<1>2. ASSUME NEW s \in Slots,
             HandleUnloaded(s) \/ RefusePattern(s) \/ SendChallenge(s) \/ Refuse(s) \/ SendFails(s)
      PROVE  (\A x \in Slots : Calm(x)) /\ Rest
  <2>1. run' = [run EXCEPT ![s].pc = "replied"]
    BY <1>2 DEF HandleUnloaded, RefusePattern, SendChallenge, Refuse, SendFails, Goto
  <2>2. run'[s].pc = "replied" /\ \A x \in Slots \ {s} : run'[x] = run[x]
    BY <2>1, <1>t DEF Run
  <2> QED BY <1>2, <1>t, <2>2 DEF HandleUnloaded, RefusePattern, SendChallenge, Refuse, SendFails, history
<1>3. ASSUME NEW s \in Slots, Grant(s)
      PROVE  (\A x \in Slots : Calm(x)) /\ opened' = opened /\ issued' = issued /\ now' = now
  <2>1. run'[s].pc = "replied" /\ \A x \in Slots \ {s} : run'[x] = run[x]
    BY <1>3, <1>t DEF Grant, Goto, Run
  <2> QED BY <1>3, <2>1 DEF Grant
<1>4. ASSUME NEW s \in Slots, RequestAccess(s) PROVE (\A x \in Slots : Calm(x)) /\ Rest
  <2>1. run'[s].pc = "storing" /\ \A x \in Slots \ {s} : run'[x] = run[x]
    BY <1>4, <1>t DEF RequestAccess, Run
  <2>2. Rest
    BY <1>4, <1>t DEF RequestAccess, IssueChallenge
  <2> QED BY <2>1, <2>2
<1>5. ASSUME NEW s \in Slots, CheckProof(s)
      PROVE  /\ \A x \in Slots \ {s} : Calm(x)
             /\ run'[s].pc \in {"verifying", "replied"}
             /\ Rest
  <2>1. run'[s].pc \in {"verifying", "replied"} /\ \A x \in Slots \ {s} : run'[x] = run[x]
    BY <1>5, <1>t DEF CheckProof, Run
  <2> QED BY <1>5, <1>t, <2>1 DEF CheckProof, history
<1>6. ASSUME NEW s \in Slots, MarkNonce(s) PROVE (\A x \in Slots \ {s} : Calm(x)) /\ run'[s].pc = "marking" /\ Rest
  <2>1. run'[s].pc = "marking" /\ \A x \in Slots \ {s} : run'[x] = run[x]
    BY <1>6, <1>t DEF MarkNonce, Goto, Run
  <2> QED BY <1>6, <1>t, <2>1 DEF MarkNonce, history
<1>7. ASSUME NEW s \in Slots, OpenSession(s)
      PROVE  /\ \A x \in Slots \ {s} : Calm(x)
             /\ run'[s].pc = "opening"
             /\ granted' = granted /\ issued' = issued /\ now' = now
  <2>1. run'[s].pc = "opening" /\ \A x \in Slots \ {s} : run'[x] = run[x]
    BY <1>7, <1>t DEF OpenSession, Run
  <2> QED BY <1>7, <2>1 DEF OpenSession
<1>8. ASSUME NEW s \in Slots, FinishEvent(s) PROVE (\A x \in Slots : Calm(x)) /\ Rest
  <2>1. run'[s].pc = "idle" /\ \A x \in Slots \ {s} : run'[x] = run[x]
    BY <1>8, <1>t DEF FinishEvent, IdleRun
  <2> QED BY <1>8, <1>t, <2>1 DEF FinishEvent, history
<1>9. ASSUME NEW i \in DOMAIN writes, WriteFails(i) PROVE (\A x \in Slots : Calm(x)) /\ Rest
  <2>1. writes[i].by \in Slots
    BY WritesFacts DEF BasicInv, Write
  <2>2. /\ run'[writes[i].by].pc = "replied"
        /\ \A x \in Slots \ {writes[i].by} : run'[x] = run[x]
    BY <1>9, <1>t, <2>1 DEF WriteFails, Goto, Run
  <2> QED BY <1>9, <1>t, <2>2 DEF WriteFails, history
<1>10. CASE Crash
  <2>1. \A x \in Slots : run'[x].pc = "idle"
    BY <1>10 DEF Crash, IdleRun
  <2> QED BY <1>10, <1>t, <2>1 DEF Crash, history
<1>11. ASSUME \/ CleanupExpired \/ Tick \/ UNCHANGED vars \/ Subscribe \/ LoadState
              \/ (\E x \in mem.sessions : VerifySession(x))
              \/ (\E e \in Events : ClientSend(e))
              \/ (\E i \in DOMAIN writes : WriteLands(i))
       PROVE  (\A x \in Slots : Calm(x)) /\ Rest
  BY <1>11, <1>t DEF CleanupExpired, Tick, Subscribe, LoadState, VerifySession, ClientSend,
     WriteLands, vars, history
<1> QED
  BY <1>1, <1>2, <1>3, <1>4, <1>5, <1>6, <1>7, <1>8, <1>9, <1>10, <1>11, <1>t DEF Next, HandlerStep

-----------------------------------------------------------------------------
LEMMA NonceStep ==
    ASSUME BasicInv, BasicInv', NonceOK, [Next]_vars, OrderedWrites
    PROVE  NonceOK'
<1>1. ASSUME NEW n \in issued, Everywhere(Closed(n)) PROVE Everywhere(Closed(n))'
  BY <1>1, MemoryKeeps, StableStep
<1>2. ASSUME NEW n \in Settled' PROVE n \in issued' /\ Everywhere(Closed(n))'
  <2>1. CASE n \in Settled
    BY <1>1, <2>1, WhoAwaits DEF NonceOK
  <2>2. CASE n \notin Settled
    <3>1. PICK s \in Slots : OpenSession(s)
      BY <1>2, <2>2, WhoAwaits DEF Settled
    <3>2. n = run[s].nonce
      <4> DEFINE x == [id |-> Cardinality(opened), nonce |-> run[s].nonce, until |-> now + SessionExpiry]
      <4>1. opened' = opened \cup {x}
        BY <3>1 DEF OpenSession
      <4>2. x.nonce = run[s].nonce
        OBVIOUS
      <4> HIDE DEF x
      <4> QED BY <1>2, <2>2, <4>1, <4>2 DEF Settled
    <3>3. run[s].pc = "marking" /\ Saved(s)
      BY <3>1 DEF OpenSession, At
    <3>4. Everywhere(Closed(n)) /\ n \in issued
      BY <3>2, <3>3 DEF NonceOK, Established, BasicInv, RequestOK, AwaitingPCs
    <3> QED BY <1>1, <3>4, WhoAwaits
  <2> QED BY <2>1, <2>2
<1>3. ASSUME NEW s \in Slots, run'[s].pc = "marking"
      PROVE  Established(s, Closed(run[s].nonce))' /\ run'[s].nonce = run[s].nonce
  <2>1. CASE run[s].pc = "marking" /\ run'[s].nonce = run[s].nonce
    <3> DEFINE n == run[s].nonce
    <3>1. n \in issued /\ Established(s, Closed(n))
      BY <2>1 DEF NonceOK, BasicInv, RequestOK, AwaitingPCs
    <3>2. PICK C : C = Closed(n)
      OBVIOUS
    <3>3. Established(s, C)'
      BY <1>3, <2>1, <3>1, <3>2, MemoryKeeps, StableStep DEF AwaitingPCs
    <3> QED BY <2>1, <3>2, <3>3
  <2>2. CASE MarkNonce(s)
    <3> DEFINE n == run[s].nonce
    <3>1. run[s].pc = "verifying" /\ Saved(s)
      <4>1. run[s].pc = "verifying"
        BY <2>2 DEF MarkNonce, At
      <4> QED BY <4>1, WritesFacts DEF BasicInv, ControlOK, Saved, AwaitingPCs
    <3>2. run'[s].nonce = n
      BY <2>2 DEF MarkNonce, Goto, BasicInv, TypeOK, Run
    <3>3. mem' \in GateState /\ n \in mem'.used /\ Save(s, mem')
      BY <2>2 DEF MarkNonce, BasicInv, TypeOK, GateState
    <3>4. PICK C : C = Closed(n)
      OBVIOUS
    <3>5. mem' \in C
      BY <3>3, <3>4 DEF Closed, Open
    <3>6. Established(s, C)'
      BY <3>1, <3>3, <3>5, SaverStep
    <3> QED BY <3>2, <3>4, <3>6
  <2> QED BY <1>3, <2>1, <2>2, WhoAwaits
<1> QED BY <1>2, <1>3 DEF NonceOK

LEMMA SessionStep ==
    ASSUME BasicInv, BasicInv', SessionOK, [Next]_vars, OrderedWrites
    PROVE  SessionOK'
<1>t. /\ granted \subseteq Session /\ granted' \subseteq Session
      /\ \A s \in Slots : run[s].pass \subseteq Session /\ run'[s].pass \subseteq Session
      /\ now \in Nat /\ now' \in Nat
  BY DEF BasicInv, TypeOK, Run
<1>u. ASSUME NEW x \in Session PROVE x.until \in Nat /\ (now' <= x.until => now <= x.until)
  <2>1. x.until \in Nat
    BY DEF Session
  <2> QED BY <2>1, <1>t, WhoAwaits
<1>1. ASSUME NEW x \in Session, now' <= x.until, Everywhere(Holding(x))
      PROVE  Everywhere(Holding(x))'
  BY <1>1, MemoryKeeps, StableStep
<1>2. ASSUME NEW x \in granted', now' <= x.until PROVE Everywhere(Holding(x))'
  <2>1. CASE x \in granted
    BY <1>t, <1>u, <1>1, <1>2, <2>1 DEF SessionOK
  <2>2. CASE x \notin granted
    <3>1. PICK s \in Slots : Grant(s)
      BY <1>2, <2>2, WhoAwaits
    <3>2. run[s].pc = "opening" /\ Saved(s) /\ x \in run[s].pass
      BY <1>2, <2>2, <3>1 DEF Grant, At
    <3>3. Everywhere(Holding(x))
      BY <1>t, <1>u, <1>2, <3>2 DEF SessionOK, Established
    <3> QED BY <1>t, <1>1, <1>2, <3>3
  <2> QED BY <2>1, <2>2
<1>3. ASSUME NEW s \in Slots, run'[s].pc = "opening", NEW x \in run'[s].pass, now' <= x.until
      PROVE  Established(s, Holding(x))'
  <2>1. CASE run[s].pc = "opening" /\ run'[s].pass = run[s].pass
    <3>1. x \in Session /\ Established(s, Holding(x))
      BY <1>t, <1>u, <1>3, <2>1 DEF SessionOK
    <3> QED BY <1>3, <2>1, <3>1, MemoryKeeps, StableStep DEF AwaitingPCs
  <2>2. CASE OpenSession(s)
    <3> DEFINE y == [id |-> Cardinality(opened), nonce |-> run[s].nonce, until |-> now + SessionExpiry]
    <3>1. /\ mem' = [mem EXCEPT !.sessions = @ \cup {y}]
          /\ run' = [run EXCEPT ![s].pc = "opening", ![s].pass = {y}]
          /\ Save(s, [mem EXCEPT !.sessions = @ \cup {y}])
      BY <2>2 DEF OpenSession
    <3>2. Saved(s)
      BY <2>2 DEF OpenSession
    <3> HIDE DEF y
    <3>3. x = y
      BY <1>3, <3>1 DEF BasicInv, TypeOK, Run
    <3>4. mem' \in GateState /\ x \in mem'.sessions /\ Save(s, mem')
      BY <3>1, <3>3 DEF BasicInv, TypeOK, GateState
    <3>5. mem' \in Holding(x)
      BY <3>4 DEF Holding
    <3> QED BY <3>2, <3>4, <3>5, SaverStep
  <2> QED BY <1>3, <2>1, <2>2, WhoAwaits
<1> QED BY <1>2, <1>3 DEF SessionOK

(* The inductive invariant, in a storage that keeps the order of writes.   *)
THEOREM GateInvariant ==
    ASSUME OrderedWrites PROVE Spec => []IInv
<1>1. Init => IInv
  <2> SUFFICES ASSUME Init PROVE IInv
    OBVIOUS
  <2>1. BasicInv
    BY BasicInit
  <2>2. NonceOK /\ SessionOK
    BY DEF Init, NonceOK, SessionOK, Settled, IdleRun
  <2> QED BY <2>1, <2>2 DEF IInv, BasicInv
<1>2. IInv /\ [Next]_vars => IInv'
  <2> SUFFICES ASSUME IInv, [Next]_vars PROVE IInv'
    OBVIOUS
  <2>1. BasicInv /\ NonceOK /\ SessionOK
    BY DEF IInv, BasicInv
  <2>2. BasicInv'
    BY <2>1, BasicStep
  <2>3. NonceOK' /\ SessionOK'
    BY <2>1, <2>2, NonceStep, SessionStep
  <2> QED BY <2>2, <2>3 DEF IInv, BasicInv
<1> QED BY <1>1, <1>2, PTL DEF Spec

(* A proof passes the check only while no session was opened for its       *)
(* challenge, through restarts, failed writes and clean-ups (handleProof). *)
THEOREM ReplayRefusedTheorem ==
    ASSUME OrderedWrites PROVE Spec => ReplayRefused
<1>1. ASSUME IInv, [Next]_vars, NEW s \in Slots,
             run[s].pc = "received", run'[s].pc = "verifying"
      PROVE  run'[s].nonce \notin Settled
  <2>1. BasicInv /\ run \in [Slots -> Run] /\ \A x \in Slots : run[x] \in Run
    BY <1>1 DEF IInv, BasicInv, TypeOK
  <2>2. CheckProof(s)
    BY <1>1, <2>1, WhoAwaits
  <2>3. run'[s].nonce = MsgOf(s).nonce /\ ProofAccepted(MsgOf(s).nonce) /\ phase = "up"
    BY <1>1, <2>1, <2>2 DEF CheckProof, At, Run
  <2> QED BY <1>1, <2>3 DEF ProofAccepted, IInv, NonceOK, Everywhere, Closed
<1>2. IInv /\ [Next]_vars =>
        [\A s \in Slots : run[s].pc = "received" /\ run'[s].pc = "verifying"
            => run'[s].nonce \notin Settled]_vars
  BY <1>1
<1> QED BY <1>2, GateInvariant, PTL DEF Spec, ReplayRefused

(* A session that a client has received lasts until it expires, through    *)
(* restarts, clean-ups and the saves of other handlers (verifySession).    *)
THEOREM SessionsKeptTheorem ==
    ASSUME OrderedWrites PROVE Spec => []SessionsKept
<1>1. IInv => SessionsKept
  BY DEF IInv, SessionOK, SessionsKept, Everywhere, Holding
<1> QED BY <1>1, GateInvariant, PTL
-----------------------------------------------------------------------------
(***************************************************************************)
(* Without any assumption on storage, as long as the process lives.        *)
(***************************************************************************)

LEMMA MemoryStep ==
    ASSUME BasicInv, BasicInv', MemoryOK, [Next]_vars, [~Crash]_vars
    PROVE  MemoryOK'
<1>t. /\ granted \subseteq Session /\ granted' \subseteq Session
      /\ \A s \in Slots : run[s].pass \subseteq Session /\ run'[s].pass \subseteq Session
      /\ now \in Nat /\ now' \in Nat /\ mem' \in GateState
  BY DEF BasicInv, TypeOK, Run
<1>p. phase = "up" /\ phase' = "up"
  <2>1. phase = "up"
    BY DEF MemoryOK
  <2>2. phase' = phase \/ phase' = "up"
    <3>1. CASE Subscribe \/ LoadState
      BY <3>1 DEF Subscribe, LoadState, MemoryOK
    <3>2. CASE UNCHANGED vars
      BY <3>2 DEF vars
    <3>3. CASE (Next /\ ~Crash) /\ ~Subscribe /\ ~LoadState
      BY <3>3 DEF Next, HandlerStep, ClientSend, Deliver, HandleUnloaded, RequestAccess,
         RefusePattern, SendChallenge, CheckProof, MarkNonce, OpenSession, Refuse, Grant,
         FinishEvent, SendFails, VerifySession, WriteLands, WriteFails, CleanupExpired, Tick
    <3> QED
      BY <3>1, <3>2, <3>3
  <2> QED
    BY <2>1, <2>2
<1>u. ASSUME NEW x \in Session PROVE x.until \in Nat /\ (now' <= x.until => now <= x.until)
  <2>1. x.until \in Nat
    BY DEF Session
  <2> QED
    BY <2>1, <1>t, WhoAwaits
<1>1. ASSUME NEW n \in issued, mem \in Closed(n) PROVE mem' \in Closed(n)
  BY <1>1, <1>p, MemoryKeeps
<1>2. ASSUME NEW x \in Session, now' <= x.until, mem \in Holding(x) PROVE mem' \in Holding(x)
  BY <1>2, <1>p, MemoryKeeps
<1>3. ASSUME NEW n \in Settled' PROVE n \in issued' /\ mem' \in Closed(n)
  <2>1. CASE n \in Settled
    BY <1>1, <2>1, WhoAwaits DEF MemoryOK
  <2>2. CASE n \notin Settled
    <3>1. PICK s \in Slots : OpenSession(s)
      BY <1>3, <2>2, WhoAwaits DEF Settled
    <3>2. PICK x : x.nonce = run[s].nonce /\ opened' = opened \cup {x}
      <4> DEFINE x == [id |-> Cardinality(opened), nonce |-> run[s].nonce, until |-> now + SessionExpiry]
      <4>1. opened' = opened \cup {x}
        BY <3>1 DEF OpenSession
      <4>2. x.nonce = run[s].nonce
        OBVIOUS
      <4> HIDE DEF x
      <4> QED
        BY <4>1, <4>2
    <3>3. n = run[s].nonce
      BY <1>3, <2>2, <3>2 DEF Settled
    <3>4. run[s].pc = "marking"
      BY <3>1 DEF OpenSession, At
    <3>5. n \in issued /\ mem \in Closed(n)
      BY <3>3, <3>4 DEF MemoryOK, BasicInv, RequestOK, AwaitingPCs
    <3> QED
      BY <1>1, <3>5, WhoAwaits
  <2> QED
    BY <2>1, <2>2
<1>4. ASSUME NEW s \in Slots, run'[s].pc = "marking"
      PROVE  mem' \in Closed(run'[s].nonce)
  <2>1. CASE run[s].pc = "marking" /\ run'[s].nonce = run[s].nonce
    <3>1. run[s].nonce \in issued /\ mem \in Closed(run[s].nonce)
      BY <2>1 DEF MemoryOK, BasicInv, RequestOK, AwaitingPCs
    <3> QED
      BY <1>1, <2>1, <3>1
  <2>2. CASE MarkNonce(s)
    <3>1. run'[s].nonce = run[s].nonce
      BY <2>2 DEF MarkNonce, Goto, BasicInv, TypeOK, Run
    <3>2. run[s].nonce \in mem'.used
      BY <2>2 DEF MarkNonce, BasicInv, TypeOK, GateState
    <3> QED
      BY <1>t, <3>1, <3>2 DEF Closed, Open
  <2> QED
    BY <1>4, <2>1, <2>2, WhoAwaits
<1>5. ASSUME NEW s \in Slots, run'[s].pc = "opening", NEW x \in run'[s].pass, now' <= x.until
      PROVE  mem' \in Holding(x)
  <2>1. CASE run[s].pc = "opening" /\ run'[s].pass = run[s].pass
    <3>1. x \in Session /\ mem \in Holding(x)
      BY <1>t, <1>u, <1>5, <2>1 DEF MemoryOK
    <3> QED
      BY <1>2, <1>5, <3>1
  <2>2. CASE OpenSession(s)
    <3>1. PICK y : /\ mem' = [mem EXCEPT !.sessions = @ \cup {y}]
                   /\ run' = [run EXCEPT ![s].pc = "opening", ![s].pass = {y}]
      BY <2>2 DEF OpenSession
    <3>2. x = y
      BY <1>5, <3>1 DEF BasicInv, TypeOK, Run
    <3>3. x \in mem'.sessions
      BY <3>1, <3>2 DEF BasicInv, TypeOK, GateState
    <3> QED
      BY <1>t, <3>3 DEF Holding
  <2> QED
    BY <1>5, <2>1, <2>2, WhoAwaits
<1>6. ASSUME NEW x \in granted', now' <= x.until PROVE mem' \in Holding(x)
  <2>1. CASE x \in granted
    BY <1>t, <1>u, <1>2, <1>6, <2>1 DEF MemoryOK
  <2>2. CASE x \notin granted
    <3>1. PICK s \in Slots : Grant(s)
      BY <1>6, <2>2, WhoAwaits
    <3>2. run[s].pc = "opening" /\ x \in run[s].pass
      BY <1>6, <2>2, <3>1 DEF Grant, At
    <3>3. x \in Session /\ mem \in Holding(x)
      BY <1>t, <1>u, <1>6, <3>2 DEF MemoryOK
    <3> QED
      BY <1>2, <1>6, <3>3
  <2> QED
    BY <2>1, <2>2
<1> QED
  BY <1>p, <1>3, <1>4, <1>5, <1>6 DEF MemoryOK, Settled

(* With any storage, ordered or not, a gate that is never restarted takes  *)
(* no proof for a challenge that opened a session and drops no session     *)
(* before it expires (handleProof, cleanupExpired, verifySession).         *)
THEOREM GateAnyStorageTheorem ==
    Spec /\ [][~Crash]_vars =>
        /\ ReplayRefused
        /\ [](\A x \in granted : now <= x.until => x \in mem.sessions)
<1>1. Init => BasicInv /\ MemoryOK
  BY BasicInit DEF Init, MemoryOK, Settled, IdleRun
<1>2. BasicInv /\ MemoryOK /\ [Next]_vars /\ [~Crash]_vars => (BasicInv /\ MemoryOK)'
  BY BasicStep, MemoryStep
<1>3. ASSUME BasicInv, MemoryOK, [Next]_vars, NEW s \in Slots,
             run[s].pc = "received", run'[s].pc = "verifying"
      PROVE  run'[s].nonce \notin Settled
  <2>1. run \in [Slots -> Run] /\ \A x \in Slots : run[x] \in Run
    BY <1>3 DEF BasicInv, TypeOK
  <2>2. CheckProof(s)
    BY <1>3, <2>1, WhoAwaits
  <2>3. run'[s].nonce = MsgOf(s).nonce /\ ProofAccepted(MsgOf(s).nonce)
    BY <1>3, <2>1, <2>2 DEF CheckProof, Run
  <2> QED
    BY <1>3, <2>3 DEF ProofAccepted, MemoryOK, Closed
<1>4. BasicInv /\ MemoryOK /\ [Next]_vars =>
        [\A s \in Slots : run[s].pc = "received" /\ run'[s].pc = "verifying"
            => run'[s].nonce \notin Settled]_vars
  BY <1>3
<1>5. MemoryOK => \A x \in granted : now <= x.until => x \in mem.sessions
  BY DEF MemoryOK, Holding
<1> QED
  BY <1>1, <1>2, <1>4, <1>5, PTL DEF Spec, ReplayRefused
=============================================================================
