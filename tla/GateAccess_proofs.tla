-------------------------- MODULE GateAccess_proofs --------------------------
(***************************************************************************)
(* Proofs about GateAccess, for every set of tokens and calls, every limit *)
(* of uses and every workload: what each step does to a call and to the    *)
(* writes, the parts of the inductive invariant, and what it says of       *)
(* blocks, uses and spent tokens.                                          *)
(***************************************************************************)
EXTENDS GateAccess, FiniteSetTheorems, TLAPS

LEMMA IdleType == Idle \in Run
  BY DEF Idle, Run, PCs

(* A run whose fields are changed is a run.                                *)
LEMMA Fields ==
    ASSUME NEW r \in Run, NEW pc \in PCs, NEW b \in BOOLEAN, NEW c \in BOOLEAN
    PROVE  /\ [r EXCEPT !.pc = pc] \in Run
           /\ [r EXCEPT !.pc = pc, !.ok = b] \in Run
           /\ [r EXCEPT !.pc = pc, !.refused = b] \in Run
           /\ [r EXCEPT !.pc = pc, !.ok = b, !.stale = c] \in Run
           /\ [r EXCEPT !.barred = b] \in Run
  BY Zenon DEF Run, PCs

(* The writes before a save stay, and the save comes last.                 *)
LEMMA Appended ==
    ASSUME TypeOK, NEW w \in Write, writes' = Append(writes, w)
    PROVE  /\ writes' \in Seq(Write)
           /\ DOMAIN writes' = 1..(Len(writes) + 1) /\ Len(writes) \in Nat
           /\ DOMAIN writes = 1..Len(writes)
           /\ \A i \in DOMAIN writes : writes'[i] = writes[i]
           /\ writes'[Len(writes) + 1] = w
  BY DEF TypeOK

(* The writes after the oldest move up.                                    *)
LEMMA Removed ==
    ASSUME TypeOK, writes # <<>>
    PROVE  /\ Head(writes) = writes[1] /\ writes[1] \in Write
           /\ Tail(writes) \in Seq(Write) /\ Len(Tail(writes)) = Len(writes) - 1
           /\ Len(writes) \in Nat \ {0}
           /\ DOMAIN writes = 1..Len(writes)
           /\ DOMAIN Tail(writes) = 1..(Len(writes) - 1)
           /\ \A i \in DOMAIN Tail(writes) : Tail(writes)[i] = writes[i + 1]
  <1>1. writes \in Seq(Write)
    BY DEF TypeOK
  <1>2. Len(writes) \in Nat /\ DOMAIN writes = 1..Len(writes)
    BY <1>1
  <1>3. Len(writes) # 0
    BY <1>1
  <1> QED
    BY <1>1, <1>2, <1>3

LEMMA CheckStep ==
    ASSUME TypeOK, NEW s \in Slots, NEW passes \in BOOLEAN, NEW pc \in PCs,
           Check(s, passes, pc)
    PROVE  /\ mem' = mem /\ run' \in [Slots -> Run]
           /\ \A o \in Slots \ {s} : run'[o] = run[o]
           /\ run'[s].tok = run[s].tok
           /\ run'[s].barred = run[s].barred /\ run'[s].stale = run[s].stale
           /\ \/ /\ passes /\ run'[s].pc = pc /\ writes' = writes
              \/ /\ run'[s].pc = "recording" /\ run'[s].ok = FALSE
                 /\ writes' = Append(writes, [by |-> s, snap |-> mem, seal |-> NoToken])
<1>0. run \in [Slots -> Run] /\ run[s] \in Run
  BY DEF TypeOK
<1>1. CASE passes /\ Goto(s, pc) /\ UNCHANGED <<mem, writes>>
  <2>1. [run[s] EXCEPT !.pc = pc] \in Run
    BY <1>0, Fields
  <2>2. run' = [run EXCEPT ![s] = [run[s] EXCEPT !.pc = pc]]
    BY <1>1 DEF Goto
  <2>3. /\ [run[s] EXCEPT !.pc = pc].tok = run[s].tok
        /\ [run[s] EXCEPT !.pc = pc].pc = pc
        /\ [run[s] EXCEPT !.pc = pc].barred = run[s].barred
        /\ [run[s] EXCEPT !.pc = pc].stale = run[s].stale
    BY <1>0 DEF Run
  <2> QED
    BY <1>0, <1>1, <2>1, <2>2, <2>3
<1>2. CASE RecordAttempt(s, FALSE)
  <2>1. [run[s] EXCEPT !.pc = "recording", !.ok = FALSE] \in Run
    BY <1>0, Fields DEF PCs
  <2>2. run' = [run EXCEPT ![s] = [run[s] EXCEPT !.pc = "recording", !.ok = FALSE]]
    BY <1>2 DEF RecordAttempt
  <2>3. /\ [run[s] EXCEPT !.pc = "recording", !.ok = FALSE].tok = run[s].tok
        /\ [run[s] EXCEPT !.pc = "recording", !.ok = FALSE].pc = "recording"
        /\ [run[s] EXCEPT !.pc = "recording", !.ok = FALSE].ok = FALSE
        /\ [run[s] EXCEPT !.pc = "recording", !.ok = FALSE].barred = run[s].barred
        /\ [run[s] EXCEPT !.pc = "recording", !.ok = FALSE].stale = run[s].stale
    BY <1>0, Zenon DEF Run
  <2>4. mem' = mem /\ writes' = Append(writes, [by |-> s, snap |-> mem, seal |-> NoToken])
    BY <1>2 DEF RecordAttempt, SaveState
  <2> QED
    BY <1>0, <1>2, <2>1, <2>2, <2>3, <2>4
<1> QED
  BY <1>1, <1>2 DEF Check

(* What the three checks before the forge is asked have in common.         *)
LEMMA CheckTypes ==
    ASSUME TypeOK, NEW s \in Slots,
           PerformBasicValidation(s) \/ EvaluatePolicy(s) \/ ValidateUse(s)
    PROVE  /\ up /\ run[s].pc \in {"restoring", "policy", "strategy"}
           /\ mem' = mem /\ run' \in [Slots -> Run]
           /\ \A o \in Slots \ {s} : run'[o] = run[o]
           /\ run'[s].tok = run[s].tok
           /\ run'[s].barred = run[s].barred /\ run'[s].stale = run[s].stale
           /\ \/ /\ run'[s].pc \in {"policy", "strategy", "forge"} /\ writes' = writes
                 /\ run[s].pc = "restoring" =>
                      run'[s].pc = "policy" /\ run[s].tok \notin mem.blocked
                 /\ run[s].pc = "policy" => run'[s].pc = "strategy"
                 /\ run[s].pc = "strategy" =>
                      run'[s].pc = "forge" /\ uses[run[s].tok] < MaxUses
              \/ /\ run'[s].pc = "recording" /\ run'[s].ok = FALSE
                 /\ writes' = Append(writes, [by |-> s, snap |-> mem, seal |-> NoToken])
<1>1. CASE PerformBasicValidation(s)
  <2>1. up /\ run[s].pc = "restoring" /\ Check(s, run[s].tok \notin mem.blocked, "policy")
    BY <1>1 DEF PerformBasicValidation, At
  <2> QED
    BY <2>1, CheckStep DEF PCs
<1>2. CASE EvaluatePolicy(s)
  <2>1. up /\ run[s].pc = "policy" /\ Check(s, run[s].tok \notin denied, "strategy")
    BY <1>2 DEF EvaluatePolicy, At
  <2> QED
    BY <2>1, CheckStep DEF PCs
<1>3. CASE ValidateUse(s)
  <2> DEFINE few == uses[run[s].tok] < MaxUses
  <2>1. up /\ run[s].pc = "strategy" /\ Check(s, few, "forge")
    BY <1>3 DEF ValidateUse, At
  <2>2. few \in BOOLEAN
    OBVIOUS
  <2> HIDE DEF few
  <2>3. /\ mem' = mem /\ run' \in [Slots -> Run]
        /\ \A o \in Slots \ {s} : run'[o] = run[o]
        /\ run'[s].tok = run[s].tok
        /\ run'[s].barred = run[s].barred /\ run'[s].stale = run[s].stale
        /\ \/ few /\ run'[s].pc = "forge" /\ writes' = writes
           \/ /\ run'[s].pc = "recording" /\ run'[s].ok = FALSE
              /\ writes' = Append(writes, [by |-> s, snap |-> mem, seal |-> NoToken])
    BY <2>1, <2>2, CheckStep DEF PCs
  <2> QED
    BY <2>1, <2>3, Zenon DEF few
<1> QED
  BY <1>1, <1>2, <1>3

(* The call remembers what the gate and the forge knew when it began.      *)
LEMMA PresentStep ==
    ASSUME TypeOK, NEW s \in Slots, NEW t \in Tokens, NEW grant \in BOOLEAN,
           Present(s, t, grant)
    PROVE  /\ run' \in [Slots -> Run]
           /\ \A o \in Slots \ {s} : run'[o] = run[o]
           /\ run'[s].pc = "restoring" /\ run'[s].tok = t
           /\ run'[s].barred = (t \in sealed) /\ run'[s].stale = (t \in spent)
<1> DEFINE r == [Idle EXCEPT !.pc = "restoring", !.tok = t, !.grant = grant,
                             !.barred = t \in sealed, !.stale = t \in spent]
<1>1. (t \in sealed) \in BOOLEAN /\ (t \in spent) \in BOOLEAN
  OBVIOUS
<1>2. r \in Run
  BY <1>1 DEF Idle, Run, PCs
<1>3. r.pc = "restoring" /\ r.tok = t /\ r.barred = (t \in sealed) /\ r.stale = (t \in spent)
  BY Zenon DEF Idle
<1>4. run' = [run EXCEPT ![s] = r]
  BY DEF Present
<1>5. run \in [Slots -> Run]
  BY DEF TypeOK
<1> HIDE DEF r
<1> QED
  BY <1>2, <1>3, <1>4, <1>5

(* Only a token that the forge does not know as spent passes, or one it    *)
(* was not asked about.                                                    *)
LEMMA ForgeStep ==
    ASSUME TypeOK, NEW s \in Slots, ForgeAnswer(s)
    PROVE  /\ mem' = mem /\ run' \in [Slots -> Run]
           /\ \A o \in Slots \ {s} : run'[o] = run[o]
           /\ run'[s].tok = run[s].tok /\ run'[s].barred = run[s].barred
           /\ \/ run'[s].pc = "refusing" /\ run'[s].stale = run[s].stale
              \/ /\ run'[s].pc = "recording"
                 /\ run'[s].stale => run[s].stale /\ run[s].tok \notin spent
           /\ writes' = Append(writes, [by |-> s, snap |-> mem, seal |-> NoToken])
<1>0. run \in [Slots -> Run] /\ run[s] \in Run
  BY DEF TypeOK
<1>1. mem' = mem /\ writes' = Append(writes, [by |-> s, snap |-> mem, seal |-> NoToken])
  BY DEF ForgeAnswer, SaveState
<1>2. PICK reached \in BOOLEAN : run' = [run EXCEPT ![s] = Answered(run[s], reached)]
  BY DEF ForgeAnswer
<1>3. CASE reached /\ ForgeRefuses(run[s].tok)
  <2> DEFINE r == [run[s] EXCEPT !.pc = "refusing", !.refused = TRUE]
  <2>1. r \in Run
    BY <1>0, Fields DEF PCs
  <2>2. r.pc = "refusing" /\ r.tok = run[s].tok /\ r.barred = run[s].barred
        /\ r.stale = run[s].stale
    BY <1>0, Zenon DEF Run
  <2>3. Answered(run[s], reached) = r
    BY <1>3 DEF Answered
  <2> HIDE DEF r
  <2> QED
    BY <1>0, <1>1, <1>2, <2>1, <2>2, <2>3
<1>4. CASE ~(reached /\ ForgeRefuses(run[s].tok))
  <2> DEFINE r == [run[s] EXCEPT !.pc = "recording", !.ok = TRUE,
                                 !.stale = run[s].stale /\ reached]
  <2>1. (run[s].stale /\ reached) \in BOOLEAN
    OBVIOUS
  <2>2. r \in Run
    BY <1>0, <2>1, Fields, Zenon DEF PCs
  <2>3. r.pc = "recording" /\ r.tok = run[s].tok /\ r.barred = run[s].barred
        /\ r.stale = (run[s].stale /\ reached)
    BY <1>0, Zenon DEF Run
  <2>4. Answered(run[s], reached) = r
    BY <1>4, Zenon DEF Answered
  <2>5. run[s].stale /\ reached => run[s].tok \notin spent
    BY <1>4 DEF ForgeRefuses
  <2> HIDE DEF r
  <2> QED
    BY <1>0, <1>1, <1>2, <2>2, <2>3, <2>4, <2>5
<1> QED
  BY <1>3, <1>4

LEMMA ConsumeStep ==
    ASSUME TypeOK, NEW s \in Slots, run[s].tok \in Tokens, Consume(s)
    PROVE  /\ run' \in [Slots -> Run]
           /\ \A o \in Slots \ {s} : run'[o] = run[o]
           /\ run'[s].pc = "redeeming" /\ run'[s].tok = run[s].tok
           /\ run'[s].barred = run[s].barred /\ run'[s].stale = run[s].stale
           /\ mem' \in GateState /\ mem'.blocked = mem.blocked
           /\ mem'.redeemed = mem.redeemed \cup {run[s].tok}
           /\ writes' = Append(writes, [by |-> s, snap |-> mem', seal |-> NoToken])
           /\ uses' = [uses EXCEPT ![run[s].tok] = @ + 1]
           /\ entries' = [entries EXCEPT ![run[s].tok] = @ + 1]
<1>0. run \in [Slots -> Run] /\ run[s] \in Run
  BY DEF TypeOK
<1> DEFINE r == [run[s] EXCEPT !.pc = "redeeming"]
<1>1. r \in Run
  BY <1>0, Fields DEF PCs
<1>2. r.pc = "redeeming" /\ r.tok = run[s].tok /\ r.barred = run[s].barred
      /\ r.stale = run[s].stale
  BY <1>0 DEF Run
<1>3. run' = [run EXCEPT ![s] = r]
  BY DEF Consume, Goto
<1>4. /\ mem' \in GateState /\ mem'.blocked = mem.blocked
      /\ mem'.redeemed = mem.redeemed \cup {run[s].tok}
  BY DEF Consume, TypeOK, GateState
<1>5. /\ writes' = Append(writes, [by |-> s, snap |-> mem', seal |-> NoToken])
      /\ uses' = [uses EXCEPT ![run[s].tok] = @ + 1]
      /\ entries' = [entries EXCEPT ![run[s].tok] = @ + 1]
  BY DEF Consume, SaveState
<1> HIDE DEF r
<1> QED
  BY <1>0, <1>1, <1>2, <1>3, <1>4, <1>5

LEMMA BlockStep ==
    ASSUME TypeOK, NEW t \in Tokens, BlockToken(t)
    PROVE  /\ mem' \in GateState /\ mem'.redeemed = mem.redeemed
           /\ mem'.blocked = mem.blocked \cup {t}
           /\ writes' = Append(writes, [by |-> "operator", snap |-> mem', seal |-> t])
  BY DEF BlockToken, SaveState, TypeOK, GateState

LEMMA UnblockStep ==
    ASSUME TypeOK, NEW t \in Tokens, UnblockToken(t)
    PROVE  /\ mem' \in GateState /\ mem'.redeemed = mem.redeemed
           /\ mem'.blocked = mem.blocked \ {t}
           /\ writes' = Append(writes, [by |-> "operator", snap |-> mem', seal |-> NoToken])
           /\ run' \in [Slots -> Run]
           /\ \A s \in Slots :
                /\ run'[s].pc = run[s].pc /\ run'[s].tok = run[s].tok
                /\ run'[s].ok = run[s].ok /\ run'[s].stale = run[s].stale
                /\ run'[s].barred => run[s].barred /\ run[s].tok # t
<1>1. /\ mem' \in GateState /\ mem'.redeemed = mem.redeemed
      /\ mem'.blocked = mem.blocked \ {t}
      /\ writes' = Append(writes, [by |-> "operator", snap |-> mem', seal |-> NoToken])
  BY DEF UnblockToken, SaveState, TypeOK, GateState
<1>2. run' = [s \in Slots |-> [run[s] EXCEPT !.barred = @ /\ run[s].tok # t]]
  BY DEF UnblockToken
<1>3. ASSUME NEW s \in Slots
      PROVE  /\ run'[s] \in Run
             /\ run'[s].pc = run[s].pc /\ run'[s].tok = run[s].tok
             /\ run'[s].ok = run[s].ok /\ run'[s].stale = run[s].stale
             /\ run'[s].barred => run[s].barred /\ run[s].tok # t
  <2> DEFINE r == [run[s] EXCEPT !.barred = @ /\ run[s].tok # t]
  <2>1. run[s] \in Run /\ run'[s] = r
    BY <1>2 DEF TypeOK
  <2>2. (run[s].barred /\ run[s].tok # t) \in BOOLEAN
    OBVIOUS
  <2>3. r \in Run
    BY <2>1, <2>2, Zenon DEF Run
  <2>4. r.pc = run[s].pc /\ r.tok = run[s].tok /\ r.ok = run[s].ok /\ r.stale = run[s].stale
        /\ r.barred = (run[s].barred /\ run[s].tok # t)
    BY <2>1, Zenon DEF Run
  <2> HIDE DEF r
  <2> QED
    BY <2>1, <2>3, <2>4
<1> QED
  BY <1>1, <1>2, <1>3

(* A write that lands ends the call that waits for it, or lets it consume  *)
(* the token if the attempt was recorded as good.                          *)
LEMMA LandStep ==
    ASSUME TypeOK, WriteLands
    PROVE  /\ writes # <<>> /\ disk' = writes[1].snap /\ writes' = Tail(writes)
           /\ run' \in [Slots -> Run]
           /\ \/ /\ writes[1].by = "operator" /\ run' = run /\ admitted' = admitted
                 /\ sealed' = sealed \cup {t \in {writes[1].seal} : Lasting(t)}
              \/ /\ writes[1].by \in Slots /\ sealed' = sealed
                 /\ admitted' = IF run[writes[1].by].pc = "redeeming"
                                THEN admitted \cup {run[writes[1].by].tok} ELSE admitted
                 /\ \A o \in Slots \ {writes[1].by} : run'[o] = run[o]
                 /\ LET s == writes[1].by
                    IN \/ run'[s] = Idle
                       \/ /\ run[s].pc = "recording" /\ run[s].ok
                          /\ run'[s].pc = "consuming" /\ run'[s].tok = run[s].tok
                          /\ run'[s].barred = run[s].barred /\ run'[s].stale = run[s].stale
<1>0. run \in [Slots -> Run] /\ \A o \in Slots : run[o] \in Run
  BY DEF TypeOK
<1>1. writes # <<>> /\ disk' = writes[1].snap /\ writes' = Tail(writes)
      /\ Head(writes) = writes[1] /\ writes[1] \in Write
  BY Removed DEF WriteLands
<1>2. CASE writes[1].by = "operator"
  BY <1>0, <1>1, <1>2 DEF WriteLands
<1>3. CASE writes[1].by # "operator"
  <2> DEFINE s == writes[1].by
             r == [run[s] EXCEPT !.pc = "consuming"]
  <2>0. s \in Slots
    BY <1>1, <1>3 DEF Write
  <2>1. run' = [run EXCEPT ![s] = IF run[s].pc = "recording" /\ run[s].grant /\ run[s].ok
                                  THEN r ELSE Idle]
    BY <1>1, <1>3 DEF WriteLands
  <2>2. r \in Run
    BY <1>0, <2>0, Fields DEF PCs
  <2>3. r.pc = "consuming" /\ r.tok = run[s].tok /\ r.barred = run[s].barred
        /\ r.stale = run[s].stale
    BY <1>0, <2>0 DEF Run
  <2>4. sealed' = sealed
        /\ admitted' = IF run[s].pc = "redeeming" THEN admitted \cup {run[s].tok} ELSE admitted
    BY <1>1, <1>3 DEF WriteLands
  <2>5. run' \in [Slots -> Run] /\ \A o \in Slots \ {s} : run'[o] = run[o]
    BY <1>0, <2>0, <2>1, <2>2, IdleType
  <2>6. CASE run[s].pc = "recording" /\ run[s].grant /\ run[s].ok
    <3>1. run'[s] = r
      BY <1>0, <2>0, <2>1, <2>6
    <3> QED
      BY <1>1, <2>0, <2>3, <2>4, <2>5, <2>6, <3>1
  <2>7. CASE ~(run[s].pc = "recording" /\ run[s].grant /\ run[s].ok)
    <3>1. run'[s] = Idle
      BY <1>0, <2>0, <2>1, <2>7
    <3> QED
      BY <1>1, <2>0, <2>4, <2>5, <3>1
  <2> QED
    BY <2>6, <2>7
<1> QED
  BY <1>2, <1>3

(* A write that fails ends its call, except that of a refusal, which is    *)
(* followed by that of an attempt recorded as good.                        *)
LEMMA FailStep ==
    ASSUME TypeOK, WriteFails
    PROVE  /\ writes # <<>> /\ run' \in [Slots -> Run]
           /\ \/ writes[1].by = "operator" /\ run' = run /\ writes' = Tail(writes)
              \/ /\ writes[1].by \in Slots
                 /\ \A o \in Slots \ {writes[1].by} : run'[o] = run[o]
                 /\ LET s == writes[1].by
                    IN \/ run'[s] = Idle /\ writes' = Tail(writes)
                       \/ /\ run[s].pc = "refusing"
                          /\ run'[s].pc = "recording" /\ run'[s].tok = run[s].tok
                          /\ run'[s].barred = run[s].barred /\ run'[s].stale = FALSE
                          /\ writes' = Append(Tail(writes),
                                              [by |-> s, snap |-> mem, seal |-> NoToken])
<1>0. run \in [Slots -> Run] /\ \A o \in Slots : run[o] \in Run
  BY DEF TypeOK
<1>1. writes # <<>> /\ Head(writes) = writes[1] /\ writes[1] \in Write
  BY Removed DEF WriteFails
<1> DEFINE s == writes[1].by
           r == [run[s] EXCEPT !.pc = "recording", !.ok = TRUE, !.stale = FALSE]
<1>2. CASE s = "operator"
  BY <1>0, <1>1, <1>2 DEF WriteFails
<1>3. CASE s # "operator" /\ run[s].pc = "refusing"
  <2>1. s \in Slots
    BY <1>1, <1>3 DEF Write
  <2>2. run' = [run EXCEPT ![s] = r]
        /\ writes' = Append(Tail(writes), [by |-> s, snap |-> mem, seal |-> NoToken])
    BY <1>1, <1>3 DEF WriteFails
  <2>3. r \in Run
    BY <1>0, <2>1, Fields, Zenon DEF PCs
  <2>4. r.pc = "recording" /\ r.tok = run[s].tok /\ r.barred = run[s].barred
        /\ r.stale = FALSE
    BY <1>0, <2>1, Zenon DEF Run
  <2>5. run' \in [Slots -> Run] /\ run'[s] = r /\ \A o \in Slots \ {s} : run'[o] = run[o]
    BY <1>0, <2>1, <2>2, <2>3
  <2> QED
    BY <1>1, <1>3, <2>1, <2>2, <2>4, <2>5
<1>4. CASE s # "operator" /\ run[s].pc # "refusing"
  <2>1. s \in Slots
    BY <1>1, <1>4 DEF Write
  <2>2. run' = [run EXCEPT ![s] = Idle] /\ writes' = Tail(writes)
    BY <1>1, <1>4 DEF WriteFails
  <2> QED
    BY <1>0, <1>1, <2>1, <2>2, IdleType
<1> QED
  BY <1>2, <1>3, <1>4

-----------------------------------------------------------------------------
(* Types.                                                                  *)
LEMMA InitTypeOK == Init => TypeOK
<1> SUFFICES ASSUME Init PROVE TypeOK
  OBVIOUS
<1>1. mem \in GateState /\ disk = mem /\ writes \in Seq(Write)
  BY DEF Init, GateState, Write
<1>2. uses \in [Tokens -> Nat] /\ entries \in [Tokens -> Nat] /\ left \in [Kinds -> Nat]
  BY GateAccessAssumption DEF Init, Unused
<1> QED
  BY <1>1, <1>2, IdleType DEF Init, TypeOK

LEMMA TypeStep == TypeOK /\ ControlOK /\ [Next]_vars => TypeOK'
<1> SUFFICES ASSUME TypeOK, ControlOK, [Next]_vars
             PROVE  TypeOK'
  OBVIOUS
<1> USE DEF Kinds
<1>1. ASSUME NEW s \in Slots, NEW t \in Tokens, NEW grant \in BOOLEAN, Present(s, t, grant)
      PROVE  TypeOK'
  <2>1. run' \in [Slots -> Run]
    BY <1>1, PresentStep
  <2>2. left' \in [Kinds -> Nat]
    BY <1>1 DEF Present, Take, TypeOK
  <2> QED
    BY <1>1, <2>1, <2>2 DEF Present, TypeOK, history
<1>2. ASSUME NEW s \in Slots, PerformBasicValidation(s) \/ EvaluatePolicy(s) \/ ValidateUse(s)
      PROVE  TypeOK'
  <2>1. /\ mem' = mem /\ run' \in [Slots -> Run] /\ run[s].tok \in Tokens
        /\ \/ writes' = writes
           \/ writes' = Append(writes, [by |-> s, snap |-> mem, seal |-> NoToken])
    BY <1>2, CheckTypes DEF ControlOK
  <2>2. [by |-> s, snap |-> mem, seal |-> NoToken] \in Write
    BY DEF TypeOK, Write
  <2>3. writes' \in Seq(Write)
    BY <2>1, <2>2, Appended DEF TypeOK
  <2> QED
    BY <1>2, <2>1, <2>3
    DEF PerformBasicValidation, EvaluatePolicy, ValidateUse, TypeOK, history
<1>3. ASSUME NEW s \in Slots, ForgeAnswer(s)
      PROVE  TypeOK'
  <2>1. [by |-> s, snap |-> mem, seal |-> NoToken] \in Write
    BY DEF TypeOK, Write
  <2>2. mem' = mem /\ run' \in [Slots -> Run] /\ writes' \in Seq(Write)
    BY <1>3, <2>1, ForgeStep, Appended
  <2> QED
    BY <1>3, <2>2 DEF ForgeAnswer, TypeOK, history
<1>4. ASSUME NEW s \in Slots, Consume(s)
      PROVE  TypeOK'
  <2>1. run[s].tok \in Tokens
    BY <1>4 DEF Consume, At, ControlOK
  <2>2. [by |-> s, snap |-> mem', seal |-> NoToken] \in Write
    BY <1>4, <2>1, ConsumeStep DEF Write
  <2>3. mem' \in GateState /\ run' \in [Slots -> Run] /\ writes' \in Seq(Write)
    BY <1>4, <2>1, <2>2, ConsumeStep, Appended
  <2>4. /\ uses' = [uses EXCEPT ![run[s].tok] = @ + 1]
        /\ entries' = [entries EXCEPT ![run[s].tok] = @ + 1]
    BY <1>4, <2>1, ConsumeStep
  <2>5. uses \in [Tokens -> Nat] /\ entries \in [Tokens -> Nat]
    BY DEF TypeOK
  <2>6. uses' \in [Tokens -> Nat] /\ entries' \in [Tokens -> Nat]
    BY <2>1, <2>4, <2>5
  <2> QED
    BY <1>4, <2>3, <2>6 DEF Consume, TypeOK
<1>5. ASSUME NEW t \in Tokens, BlockToken(t)
      PROVE  TypeOK'
  <2>1. [by |-> "operator", snap |-> mem', seal |-> t] \in Write
    BY <1>5, BlockStep DEF Write
  <2>2. mem' \in GateState /\ writes' \in Seq(Write)
    BY <1>5, <2>1, BlockStep, Appended
  <2>3. left' \in [Kinds -> Nat]
    BY <1>5 DEF BlockToken, Take, TypeOK
  <2> QED
    BY <1>5, <2>2, <2>3 DEF BlockToken, TypeOK, history
<1>6. ASSUME NEW t \in Tokens, UnblockToken(t)
      PROVE  TypeOK'
  <2>1. [by |-> "operator", snap |-> mem', seal |-> NoToken] \in Write
    BY <1>6, UnblockStep DEF Write
  <2>2. mem' \in GateState /\ run' \in [Slots -> Run] /\ writes' \in Seq(Write)
    BY <1>6, <2>1, UnblockStep, Appended
  <2>3. left' \in [Kinds -> Nat]
    BY <1>6 DEF UnblockToken, Take, TypeOK
  <2> QED
    BY <1>6, <2>2, <2>3 DEF UnblockToken, TypeOK
<1>7. ASSUME NEW t \in Tokens, ResetUsage(t)
      PROVE  TypeOK'
  <2>1. left' \in [Kinds -> Nat]
    BY <1>7 DEF ResetUsage, Take, TypeOK
  <2>2. uses' \in [Tokens -> Nat] /\ entries' \in [Tokens -> Nat]
    BY <1>7 DEF ResetUsage, TypeOK
  <2> QED
    BY <1>7, <2>1, <2>2 DEF ResetUsage, TypeOK
<1>8. ASSUME NEW t \in Tokens, SpendAtForge(t)
      PROVE  TypeOK'
  <2>1. left' \in [Kinds -> Nat]
    BY <1>8 DEF SpendAtForge, Take, TypeOK
  <2> QED
    BY <1>8, <2>1 DEF SpendAtForge, TypeOK, history
<1>9. CASE ChangePolicy
  BY <1>9 DEF ChangePolicy, Take, TypeOK, history
<1>10. CASE WriteLands
  <2>1. /\ run' \in [Slots -> Run] /\ writes' \in Seq(Write) /\ disk' \in GateState
        /\ writes[1] \in Write
    BY <1>10, LandStep, Removed DEF Write
  <2>2. \A s \in Slots : run[s].pc = "redeeming" => run[s].tok \in Tokens
    BY DEF ControlOK
  <2>3. \A t : Lasting(t) => t \in Tokens
    BY DEF Lasting, TypeOK, GateState
  <2>4. sealed' \subseteq Tokens /\ admitted' \subseteq Tokens
    BY <1>10, <2>2, <2>3, LandStep DEF TypeOK
  <2> QED
    BY <1>10, <2>1, <2>4 DEF WriteLands, TypeOK
<1>11. CASE WriteFails
  <2>1. Tail(writes) \in Seq(Write)
    BY <1>11, FailStep, Removed
  <2>2. \A s \in Slots : [by |-> s, snap |-> mem, seal |-> NoToken] \in Write
    BY DEF TypeOK, Write
  <2>3. \A s \in Slots :
          Append(Tail(writes), [by |-> s, snap |-> mem, seal |-> NoToken]) \in Seq(Write)
    BY <2>1, <2>2
  <2>5. run' \in [Slots -> Run] /\ writes' \in Seq(Write)
    BY <1>11, <2>1, <2>3, FailStep
  <2>4. left' \in [Kinds -> Nat]
    BY <1>11 DEF WriteFails, Take, TypeOK
  <2> QED
    BY <1>11, <2>4, <2>5 DEF WriteFails, TypeOK, history
<1>12. CASE Crash
  <2>1. Unused \in [Tokens -> Nat] /\ left' \in [Kinds -> Nat]
    BY <1>12 DEF Crash, Unused, Take, TypeOK
  <2>2. run' \in [Slots -> Run] /\ writes' \in Seq(Write)
    BY <1>12, IdleType DEF Crash
  <2>3. uses' \in [Tokens -> Nat] /\ entries' \in [Tokens -> Nat]
        /\ crowded' \subseteq Tokens /\ denied' \subseteq Tokens
    BY <1>12, <2>1 DEF Crash
  <2> QED
    BY <1>12, <2>1, <2>2, <2>3 DEF Crash, TypeOK
<1>13. CASE LoadState
  BY <1>13 DEF LoadState, TypeOK, history
<1>14. CASE UNCHANGED vars
  BY <1>14 DEF vars, TypeOK
<1> QED
  BY <1>1, <1>2, <1>3, <1>4, <1>5, <1>6, <1>7, <1>8, <1>9, <1>10, <1>11, <1>12, <1>13, <1>14
  DEF Next, Step
-----------------------------------------------------------------------------
(* What a step does to the saved states and to one call.                   *)

(* k writes leave the front, and what is new at the end is the memory.     *)
Shifted(k) ==
    \A j \in DOMAIN writes' :
        \/ j + k \in DOMAIN writes /\ writes'[j] = writes[j + k]
        \/ j + k = Len(writes) + 1 /\ writes'[j].snap = mem'

LEMMA Unshifted ==
    ASSUME TypeOK, writes' = writes
    PROVE  Shifted(0)
  BY DEF Shifted, TypeOK

LEMMA AppendShifts ==
    ASSUME TypeOK, NEW w \in Write, writes' = Append(writes, w), w.snap = mem'
    PROVE  Shifted(0)
  BY Appended DEF Shifted

LEMMA TailShifts ==
    ASSUME TypeOK, writes # <<>>, writes' = Tail(writes)
    PROVE  Shifted(1)
  BY Removed DEF Shifted

LEMMA Replaced ==
    ASSUME TypeOK, writes # <<>>, NEW w \in Write, writes' = Append(Tail(writes), w)
    PROVE  /\ DOMAIN writes' = 1..Len(writes)
           /\ \A i \in 1..(Len(writes) - 1) : writes'[i] = writes[i + 1]
           /\ writes'[Len(writes)] = w
<1>1. /\ Tail(writes) \in Seq(Write) /\ Len(Tail(writes)) = Len(writes) - 1
      /\ Len(writes) \in Nat \ {0} /\ DOMAIN Tail(writes) = 1..(Len(writes) - 1)
      /\ \A i \in DOMAIN Tail(writes) : Tail(writes)[i] = writes[i + 1]
  BY Removed
<1> DEFINE tail == Tail(writes)
<1>2. writes' = Append(tail, w) /\ tail \in Seq(Write) /\ Len(tail) = Len(writes) - 1
  BY <1>1
<1>3. \A i \in 1..(Len(writes) - 1) : tail[i] = writes[i + 1]
  BY <1>1
<1> HIDE DEF tail
<1> QED
  BY <1>1, <1>2, <1>3

LEMMA ReplaceShifts ==
    ASSUME TypeOK, writes # <<>>, NEW w \in Write, writes' = Append(Tail(writes), w),
           w.snap = mem'
    PROVE  Shifted(1)
<1>1. Len(writes) \in Nat \ {0} /\ DOMAIN writes = 1..Len(writes)
  BY Removed
<1>2. /\ DOMAIN writes' = 1..Len(writes)
      /\ \A i \in 1..(Len(writes) - 1) : writes'[i] = writes[i + 1]
      /\ writes'[Len(writes)] = w
  BY Replaced
<1> QED
  BY <1>1, <1>2 DEF Shifted

LEMMA WriteTypes ==
    ASSUME TypeOK, TypeOK'
    PROVE  \A by \in Slots \cup {"operator"}, seal \in Tokens \cup {NoToken} :
              /\ [by |-> by, snap |-> mem, seal |-> seal] \in Write
              /\ [by |-> by, snap |-> mem', seal |-> seal] \in Write
  BY DEF TypeOK, Write

(* The memory, storage and the saves.  The memory loses no redemption, and *)
(* a block only with the token's seal.                                     *)
LEMMA StoreStep ==
    ASSUME TypeOK, ControlOK, TypeOK', [Next]_vars
    PROVE  /\ \E k \in {0, 1} : Shifted(k)
           /\ disk' = disk \/ (writes # <<>> /\ disk' = writes[1].snap)
           /\ up' /\ ~up => mem' = disk
           /\ up /\ up' => /\ mem.redeemed \subseteq mem'.redeemed
                           /\ \A t \in sealed' : t \in mem.blocked => t \in mem'.blocked
<1> DEFINE Goal == /\ \E k \in {0, 1} : Shifted(k)
                   /\ disk' = disk \/ (writes # <<>> /\ disk' = writes[1].snap)
                   /\ up' /\ ~up => mem' = disk
                   /\ up /\ up' => /\ mem.redeemed \subseteq mem'.redeemed
                                   /\ \A t \in sealed' : t \in mem.blocked => t \in mem'.blocked
<1>1. ASSUME UNCHANGED <<mem, disk, writes, up, sealed>>
      PROVE  Goal
  BY <1>1, Unshifted
<1>2. ASSUME NEW s \in Slots, PerformBasicValidation(s) \/ EvaluatePolicy(s) \/ ValidateUse(s)
      PROVE  Goal
  <2>1. /\ mem' = mem
        /\ \/ writes' = writes
           \/ writes' = Append(writes, [by |-> s, snap |-> mem, seal |-> NoToken])
    BY <1>2, CheckTypes
  <2>2. Shifted(0)
    BY <2>1, WriteTypes, AppendShifts, Unshifted
  <2>3. UNCHANGED <<disk, up, sealed>>
    BY <1>2 DEF PerformBasicValidation, EvaluatePolicy, ValidateUse, history
  <2> QED
    BY <2>1, <2>2, <2>3
<1>3. ASSUME NEW s \in Slots, ForgeAnswer(s)
      PROVE  Goal
  <2>1. mem' = mem /\ writes' = Append(writes, [by |-> s, snap |-> mem, seal |-> NoToken])
    BY <1>3, ForgeStep
  <2>2. Shifted(0)
    BY <2>1, WriteTypes, AppendShifts
  <2>3. UNCHANGED <<disk, up, sealed>>
    BY <1>3 DEF ForgeAnswer, history
  <2> QED
    BY <2>1, <2>2, <2>3
<1>4. ASSUME NEW s \in Slots, Consume(s)
      PROVE  Goal
  <2>1. run[s].tok \in Tokens
    BY <1>4 DEF Consume, At, ControlOK
  <2>2. /\ mem'.blocked = mem.blocked /\ mem'.redeemed = mem.redeemed \cup {run[s].tok}
        /\ writes' = Append(writes, [by |-> s, snap |-> mem', seal |-> NoToken])
    BY <1>4, <2>1, ConsumeStep
  <2>3. Shifted(0)
    BY <2>2, WriteTypes, AppendShifts
  <2>4. UNCHANGED <<disk, up, sealed>>
    BY <1>4 DEF Consume
  <2> QED
    BY <2>2, <2>3, <2>4
<1>5. ASSUME NEW t \in Tokens, BlockToken(t)
      PROVE  Goal
  <2>1. /\ mem'.redeemed = mem.redeemed /\ mem'.blocked = mem.blocked \cup {t}
        /\ writes' = Append(writes, [by |-> "operator", snap |-> mem', seal |-> t])
    BY <1>5, BlockStep
  <2>2. Shifted(0)
    BY <2>1, WriteTypes, AppendShifts
  <2>3. UNCHANGED <<disk, up, sealed>>
    BY <1>5 DEF BlockToken, history
  <2> QED
    BY <2>1, <2>2, <2>3
<1>6. ASSUME NEW t \in Tokens, UnblockToken(t)
      PROVE  Goal
  <2>1. /\ mem'.redeemed = mem.redeemed /\ mem'.blocked = mem.blocked \ {t}
        /\ writes' = Append(writes, [by |-> "operator", snap |-> mem', seal |-> NoToken])
    BY <1>6, UnblockStep
  <2>2. Shifted(0)
    BY <2>1, WriteTypes, AppendShifts
  <2>3. UNCHANGED <<disk, up>> /\ sealed' = sealed \ {t}
    BY <1>6 DEF UnblockToken
  <2> QED
    BY <2>1, <2>2, <2>3
<1>7. ASSUME WriteLands
      PROVE  Goal
  <2>1. writes # <<>> /\ disk' = writes[1].snap /\ writes' = Tail(writes)
    BY <1>7, LandStep
  <2>2. Shifted(1)
    BY <2>1, TailShifts
  <2>3. UNCHANGED <<mem, up>>
    BY <1>7 DEF WriteLands
  <2> QED
    BY <2>1, <2>2, <2>3
<1>8. ASSUME WriteFails
      PROVE  Goal
  <2>1. /\ writes # <<>>
        /\ \/ writes' = Tail(writes)
           \/ \E s \in Slots :
                writes' = Append(Tail(writes), [by |-> s, snap |-> mem, seal |-> NoToken])
    BY <1>8, FailStep
  <2>2. UNCHANGED <<mem, disk, up, sealed>>
    BY <1>8 DEF WriteFails, history
  <2>3. CASE writes' = Tail(writes)
    BY <2>1, <2>2, <2>3, TailShifts
  <2>4. ASSUME NEW s \in Slots,
               writes' = Append(Tail(writes), [by |-> s, snap |-> mem, seal |-> NoToken])
        PROVE  Goal
    <3> DEFINE w == [by |-> s, snap |-> mem, seal |-> NoToken]
    <3>1. w \in Write /\ w.snap = mem'
      BY <2>2, WriteTypes
    <3> HIDE DEF w
    <3>2. Shifted(1)
      BY <2>1, <2>4, <3>1, ReplaceShifts DEF w
    <3> QED
      BY <2>2, <3>2
  <2> QED
    BY <2>1, <2>3, <2>4
<1>9. ASSUME Crash
      PROVE  Goal
  <2>1. ~up' /\ writes' = <<>> /\ disk' = disk
    BY <1>9 DEF Crash
  <2>2. Shifted(0)
    BY <2>1 DEF Shifted
  <2> QED
    BY <2>1, <2>2
<1>10. ASSUME LoadState
      PROVE  Goal
  BY <1>10, Unshifted DEF LoadState, history
<1> HIDE DEF Goal
<1>11. ASSUME NEW s \in Slots, NEW t \in Tokens, NEW grant \in BOOLEAN, Present(s, t, grant)
       PROVE  Goal
  BY <1>1, <1>11 DEF Present, history
<1>12. ASSUME NEW t \in Tokens, ResetUsage(t) \/ SpendAtForge(t)
       PROVE  Goal
  BY <1>1, <1>12 DEF ResetUsage, SpendAtForge, history
<1>13. ASSUME ChangePolicy
      PROVE  Goal
  BY <1>1, <1>13 DEF ChangePolicy, history
<1>14. ASSUME UNCHANGED vars
      PROVE  Goal
  BY <1>1, <1>14 DEF vars
<1>15. Goal
  BY <1>2, <1>3, <1>4, <1>5, <1>6, <1>7, <1>8, <1>9, <1>10, <1>11, <1>12, <1>13, <1>14
  DEF Next, Step
<1> QED
  BY <1>15 DEF Goal

(* What is everywhere stays everywhere while the memory keeps it.          *)
LEMMA EverywhereStep ==
    ASSUME TypeOK, ControlOK, TypeOK', ControlOK', [Next]_vars,
           NEW States, Everywhere(States),
           up /\ up' => mem' \in States
    PROVE  Everywhere(States)'
<1>1. PICK k \in {0, 1} : Shifted(k)
  BY StoreStep
<1>2. disk' = disk \/ (writes # <<>> /\ disk' = writes[1].snap)
  BY StoreStep
<1>3. writes # <<>> => 1 \in DOMAIN writes
  BY Removed
<1>4. disk' \in States
  BY <1>2, <1>3 DEF Everywhere
<1>5. up' => mem' \in States
  BY StoreStep DEF Everywhere
<1>6. ASSUME NEW j \in DOMAIN writes'
      PROVE  writes'[j].snap \in States
  <2>1. CASE j + k \in DOMAIN writes /\ writes'[j] = writes[j + k]
    BY <2>1 DEF Everywhere
  <2>2. CASE writes'[j].snap = mem'
    <3>1. up'
      BY DEF ControlOK
    <3> QED
      BY <2>2, <3>1, <1>5
  <2> QED
    BY <1>1, <2>1, <2>2 DEF Shifted
<1> QED
  BY <1>4, <1>5, <1>6 DEF Everywhere
-----------------------------------------------------------------------------
(* What a step does to one call.                                           *)
Begins(s) ==
    /\ run'[s].pc = "restoring" /\ run'[s].tok \in Tokens
    /\ run'[s].barred => run'[s].tok \in sealed'
    /\ run'[s].stale => run'[s].tok \in spent'
Advances(s) ==
    \/ run'[s].pc = run[s].pc /\ run'[s].ok = run[s].ok
    \/ run[s].pc = "restoring" /\ run'[s].pc = "policy" /\ run[s].tok \notin mem.blocked /\ up
    \/ run[s].pc = "policy" /\ run'[s].pc = "strategy"
    \/ run[s].pc = "strategy" /\ run'[s].pc = "forge" /\ ValidateUse(s)
    \/ /\ run[s].pc \in {"restoring", "policy", "strategy"}
       /\ run'[s].pc = "recording" /\ run'[s].ok = FALSE
    \/ run[s].pc = "forge" /\ run'[s].pc = "refusing"
    \/ /\ run[s].pc = "forge" /\ run'[s].pc = "recording"
       /\ run'[s].stale => run[s].tok \notin spent
    \/ run[s].pc = "refusing" /\ run'[s].pc = "recording" /\ run'[s].stale = FALSE
    \/ run[s].pc = "recording" /\ run[s].ok /\ run'[s].pc = "consuming"
    \/ /\ run[s].pc = "consuming" /\ run'[s].pc = "redeeming" /\ Consume(s)
       /\ run[s].tok \in mem'.redeemed
Continues(s) ==
    /\ run'[s].tok = run[s].tok
    /\ run'[s].barred => run[s].barred /\ (run[s].tok \in sealed => run[s].tok \in sealed')
    /\ run'[s].stale => run[s].stale
    /\ Advances(s)
Lives(s) == run'[s] = Idle \/ Begins(s) \/ Continues(s)

LEMMA Unmoved ==
    ASSUME NEW s \in Slots, run'[s] = run[s], sealed \subseteq sealed'
    PROVE  Lives(s)
  BY DEF Lives, Continues, Advances

(* A step of one call leaves the others as they are.                       *)
LEMMA OthersUnmoved ==
    ASSUME NEW s \in Slots, \A o \in Slots \ {s} : run'[o] = run[o], sealed \subseteq sealed',
           Lives(s)
    PROVE  \A o \in Slots : Lives(o)
  BY Unmoved

LEMMA RunStep ==
    ASSUME TypeOK, ControlOK, [Next]_vars
    PROVE  \A s \in Slots : Lives(s)
<1> DEFINE Goal == \A s \in Slots : Lives(s)
<1> HIDE DEF Goal
<1>1. ASSUME UNCHANGED run, sealed \subseteq sealed'
      PROVE  Goal
  BY <1>1, Unmoved DEF Goal
<1>2. ASSUME NEW s \in Slots, NEW t \in Tokens, NEW grant \in BOOLEAN, Present(s, t, grant)
      PROVE  Goal
  <2>1. UNCHANGED <<sealed, spent>>
    BY <1>2 DEF Present, history
  <2>2. Begins(s)
    BY <1>2, <2>1, PresentStep DEF Begins
  <2>3. \A o \in Slots \ {s} : run'[o] = run[o]
    BY <1>2, PresentStep
  <2> QED
    BY <2>1, <2>2, <2>3, OthersUnmoved DEF Lives, Goal
<1>3. ASSUME NEW s \in Slots, PerformBasicValidation(s) \/ EvaluatePolicy(s) \/ ValidateUse(s)
      PROVE  Goal
  <2>1. UNCHANGED <<sealed, spent>>
    BY <1>3 DEF PerformBasicValidation, EvaluatePolicy, ValidateUse, history
  <2>2. /\ run[s].pc = "strategy" /\ run'[s].pc = "forge" => ValidateUse(s)
        /\ \A o \in Slots \ {s} : run'[o] = run[o]
    BY <1>3, CheckTypes DEF PerformBasicValidation, EvaluatePolicy, At
  <2>3. Advances(s)
    BY <1>3, <2>2, CheckTypes DEF Advances
  <2>4. Continues(s)
    BY <1>3, <2>1, <2>3, CheckTypes DEF Continues
  <2> QED
    BY <2>1, <2>2, <2>4, OthersUnmoved DEF Lives, Goal
<1>4. ASSUME NEW s \in Slots, ForgeAnswer(s)
      PROVE  Goal
  <2>1. UNCHANGED <<sealed, spent>> /\ run[s].pc = "forge"
    BY <1>4 DEF ForgeAnswer, At, history
  <2>2. Advances(s)
    BY <1>4, <2>1, ForgeStep DEF Advances
  <2>3. Continues(s) /\ \A o \in Slots \ {s} : run'[o] = run[o]
    BY <1>4, <2>1, <2>2, ForgeStep DEF Continues
  <2> QED
    BY <2>1, <2>3, OthersUnmoved DEF Lives, Goal
<1>5. ASSUME NEW s \in Slots, Consume(s)
      PROVE  Goal
  <2>1. UNCHANGED <<sealed, spent>> /\ run[s].pc = "consuming"
    BY <1>5 DEF Consume, At
  <2>2. run[s].tok \in Tokens
    BY <2>1 DEF ControlOK
  <2>3. Advances(s)
    BY <1>5, <2>1, <2>2, ConsumeStep DEF Advances
  <2>4. Continues(s) /\ \A o \in Slots \ {s} : run'[o] = run[o]
    BY <1>5, <2>1, <2>2, <2>3, ConsumeStep DEF Continues
  <2> QED
    BY <2>1, <2>4, OthersUnmoved DEF Lives, Goal
<1>6. ASSUME NEW t \in Tokens, UnblockToken(t)
      PROVE  Goal
  <2>1. sealed' = sealed \ {t}
    BY <1>6 DEF UnblockToken
  <2>2. ASSUME NEW s \in Slots PROVE Continues(s)
    BY <1>6, <2>1, UnblockStep DEF Continues, Advances
  <2> QED
    BY <2>2 DEF Lives, Goal
<1>7. ASSUME WriteLands
      PROVE  Goal
  <2>1. CASE writes[1].by = "operator"
    <3>1. run' = run /\ sealed \subseteq sealed'
      BY <1>7, <2>1, LandStep, GateAccessAssumption
    <3> QED
      BY <1>1, <3>1
  <2>2. CASE writes[1].by \in Slots
    <3> DEFINE s == writes[1].by
    <3>1. /\ s \in Slots /\ sealed' = sealed /\ \A o \in Slots \ {s} : run'[o] = run[o]
          /\ \/ run'[s] = Idle
             \/ /\ run[s].pc = "recording" /\ run[s].ok
                /\ run'[s].pc = "consuming" /\ run'[s].tok = run[s].tok
                /\ run'[s].barred = run[s].barred /\ run'[s].stale = run[s].stale
      BY <1>7, <2>2, LandStep, GateAccessAssumption
    <3> HIDE DEF s
    <3>2. Lives(s)
      BY <3>1 DEF Lives, Continues, Advances
    <3> QED
      BY <3>1, <3>2, OthersUnmoved DEF Goal
  <2> QED
    BY <1>7, <2>1, <2>2, LandStep
<1>8. ASSUME WriteFails
      PROVE  Goal
  <2>0. sealed' = sealed
    BY <1>8 DEF WriteFails, history
  <2>1. CASE writes[1].by = "operator"
    <3>1. run' = run
      BY <1>8, <2>1, FailStep, GateAccessAssumption
    <3> QED
      BY <1>1, <2>0, <3>1
  <2>2. CASE writes[1].by \in Slots
    <3> DEFINE s == writes[1].by
    <3>1. /\ s \in Slots /\ \A o \in Slots \ {s} : run'[o] = run[o]
          /\ \/ run'[s] = Idle
             \/ /\ run[s].pc = "refusing"
                /\ run'[s].pc = "recording" /\ run'[s].tok = run[s].tok
                /\ run'[s].barred = run[s].barred /\ run'[s].stale = FALSE
      BY <1>8, <2>2, FailStep, GateAccessAssumption
    <3> HIDE DEF s
    <3>2. Lives(s)
      BY <2>0, <3>1 DEF Lives, Continues, Advances
    <3> QED
      BY <2>0, <3>1, <3>2, OthersUnmoved DEF Goal
  <2> QED
    BY <1>8, <2>1, <2>2, FailStep
<1>9. ASSUME Crash
      PROVE  Goal
  BY <1>9 DEF Crash, Lives, Goal
<1>10. ASSUME LoadState \/ ChangePolicy
       PROVE  Goal
  BY <1>1, <1>10 DEF LoadState, ChangePolicy, history
<1>11. ASSUME NEW t \in Tokens, BlockToken(t) \/ ResetUsage(t) \/ SpendAtForge(t)
       PROVE  Goal
  BY <1>1, <1>11 DEF BlockToken, ResetUsage, SpendAtForge, history
<1>12. ASSUME UNCHANGED vars
       PROVE  Goal
  BY <1>1, <1>12 DEF vars
<1>13. Goal
  BY <1>2, <1>3, <1>4, <1>5, <1>6, <1>7, <1>8, <1>9, <1>10, <1>11, <1>12 DEF Next, Step
<1> QED
  BY <1>13 DEF Goal
-----------------------------------------------------------------------------
(* Saves and the calls that await them.                                    *)
Awaiting == {"refusing", "recording", "redeeming"}
SavesOK ==
    \A i \in DOMAIN writes : writes[i].by # "operator" =>
        /\ run[writes[i].by].pc \in Awaiting
        /\ \A j \in DOMAIN writes : writes[j].by = writes[i].by => j = i

LEMMA WritersExist ==
    ASSUME TypeOK
    PROVE  \A i \in DOMAIN writes : writes[i] \in Write /\ writes[i].by \in Slots \cup {"operator"}
<1>1. writes \in Seq(Write)
  BY DEF TypeOK
<1>2. \A i \in DOMAIN writes : writes[i] \in Write
  BY <1>1
<1> QED
  BY <1>2 DEF Write

LEMMA AppendSave ==
    ASSUME TypeOK, SavesOK, NEW w \in Write, writes' = Append(writes, w),
           \A o \in Slots : o # w.by => run'[o].pc = run[o].pc,
           w.by # "operator" => run[w.by].pc \notin Awaiting /\ run'[w.by].pc \in Awaiting
    PROVE  SavesOK'
<1>1. /\ DOMAIN writes' = 1..(Len(writes) + 1) /\ Len(writes) \in Nat
      /\ DOMAIN writes = 1..Len(writes)
      /\ \A i \in DOMAIN writes : writes'[i] = writes[i]
      /\ writes'[Len(writes) + 1] = w
  BY Appended
<1>2. \A i \in DOMAIN writes' : i \in DOMAIN writes \/ i = Len(writes) + 1
  BY <1>1
<1>3. \A i \in DOMAIN writes : writes[i].by # "operator" => writes[i].by # w.by
  BY DEF SavesOK
<1>4. \A i \in DOMAIN writes : writes[i].by \in Slots \cup {"operator"}
  BY WritersExist
<1>5. ASSUME NEW i \in DOMAIN writes', writes'[i].by # "operator"
      PROVE  /\ run'[writes'[i].by].pc \in Awaiting
             /\ \A j \in DOMAIN writes' : writes'[j].by = writes'[i].by => j = i
  <2>1. CASE i \in DOMAIN writes
    BY <1>1, <1>2, <1>3, <1>4, <1>5, <2>1 DEF SavesOK
  <2>2. CASE i = Len(writes) + 1
    BY <1>1, <1>2, <1>3, <1>4, <1>5, <2>2
  <2> QED
    BY <1>2, <2>1, <2>2
<1> QED
  BY <1>5 DEF SavesOK

LEMMA RemoveSave ==
    ASSUME TypeOK, SavesOK, writes # <<>>, writes' = Tail(writes),
           \A o \in Slots : o # writes[1].by => run'[o].pc = run[o].pc
    PROVE  SavesOK'
<1>1. /\ DOMAIN writes = 1..Len(writes) /\ Len(writes) \in Nat \ {0}
      /\ DOMAIN writes' = 1..(Len(writes) - 1)
      /\ \A i \in DOMAIN writes' : writes'[i] = writes[i + 1]
  BY Removed
<1>2. \A i \in DOMAIN writes : writes[i].by \in Slots \cup {"operator"}
  BY WritersExist
<1>3. ASSUME NEW i \in DOMAIN writes', writes'[i].by # "operator"
      PROVE  /\ run'[writes'[i].by].pc \in Awaiting
             /\ \A j \in DOMAIN writes' : writes'[j].by = writes'[i].by => j = i
  <2>1. i + 1 \in DOMAIN writes /\ 1 \in DOMAIN writes /\ 1 # i + 1
    BY <1>1
  <2>2. writes[i + 1].by # writes[1].by
    BY <1>1, <1>3, <2>1 DEF SavesOK
  <2>3. run'[writes'[i].by].pc \in Awaiting
    BY <1>1, <1>2, <1>3, <2>1, <2>2 DEF SavesOK
  <2>4. ASSUME NEW j \in DOMAIN writes', writes'[j].by = writes'[i].by
        PROVE  j = i
    <3>1. j + 1 \in DOMAIN writes /\ writes[j + 1].by = writes[i + 1].by
      BY <1>1, <2>4
    <3>2. j + 1 = i + 1
      BY <1>1, <1>3, <2>1, <3>1 DEF SavesOK
    <3> QED
      BY <1>1, <3>2
  <2> QED
    BY <2>3, <2>4
<1> QED
  BY <1>3 DEF SavesOK

(* The call whose save failed saves again.                                 *)
LEMMA ReplaceSave ==
    ASSUME TypeOK, SavesOK, writes # <<>>, NEW w \in Write, writes' = Append(Tail(writes), w),
           w.by = writes[1].by, w.by \in Slots, run'[w.by].pc \in Awaiting,
           \A o \in Slots : o # w.by => run'[o].pc = run[o].pc
    PROVE  SavesOK'
<1>1. Len(writes) \in Nat \ {0} /\ DOMAIN writes = 1..Len(writes)
  BY Removed
<1>2. /\ DOMAIN writes' = 1..Len(writes)
      /\ \A i \in 1..(Len(writes) - 1) : writes'[i] = writes[i + 1]
      /\ writes'[Len(writes)] = w
  BY Replaced
<1>3. \A i \in DOMAIN writes : writes[i].by \in Slots \cup {"operator"}
  BY WritersExist
<1>4. \A i \in 1..(Len(writes) - 1) : writes[i + 1].by # "operator" => writes[i + 1].by # w.by
  BY <1>1 DEF SavesOK
<1>5. ASSUME NEW i \in DOMAIN writes', writes'[i].by # "operator"
      PROVE  /\ run'[writes'[i].by].pc \in Awaiting
             /\ \A j \in DOMAIN writes' : writes'[j].by = writes'[i].by => j = i
  <2>1. \A j \in DOMAIN writes' : j \in 1..(Len(writes) - 1) \/ j = Len(writes)
    BY <1>1, <1>2
  <2>2. CASE i \in 1..(Len(writes) - 1)
    <3>1. i + 1 \in DOMAIN writes /\ writes'[i] = writes[i + 1] /\ writes[i + 1].by # w.by
      BY <1>1, <1>2, <1>4, <1>5, <2>2
    <3>2. run'[writes'[i].by].pc \in Awaiting
      BY <1>3, <1>5, <3>1 DEF SavesOK
    <3>3. ASSUME NEW j \in DOMAIN writes', writes'[j].by = writes'[i].by
          PROVE  j = i
      <4>1. j \in 1..(Len(writes) - 1)
        BY <1>2, <2>1, <3>1, <3>3
      <4>2. j + 1 \in DOMAIN writes /\ writes[j + 1].by = writes[i + 1].by
        BY <1>1, <1>2, <3>1, <3>3, <4>1
      <4>3. j + 1 = i + 1
        BY <1>5, <3>1, <4>2 DEF SavesOK
      <4> QED
        BY <1>1, <2>2, <4>1, <4>3
    <3> QED
      BY <3>2, <3>3
  <2>3. CASE i = Len(writes)
    <3>1. \A j \in DOMAIN writes' : writes'[j].by = w.by => j = i
      BY <1>2, <1>4, <1>5, <2>1, <2>3
    <3> QED
      BY <1>2, <2>3, <3>1
  <2> QED
    BY <2>1, <2>2, <2>3
<1> QED
  BY <1>5 DEF SavesOK

LEMMA SavesStep ==
    ASSUME TypeOK, ControlOK, TypeOK', [Next]_vars
    PROVE  SavesOK'
<1>0. SavesOK
  BY DEF ControlOK, SavesOK, Awaiting
<1>1. ASSUME UNCHANGED writes, \A o \in Slots : run[o].pc \in Awaiting => run'[o].pc = run[o].pc
      PROVE  SavesOK'
  BY <1>0, <1>1, WritersExist DEF SavesOK
<1>2. ASSUME NEW s \in Slots, NEW t \in Tokens, NEW grant \in BOOLEAN, Present(s, t, grant)
      PROVE  SavesOK'
  <2>1. UNCHANGED writes /\ run[s].pc = "idle"
    BY <1>2 DEF Present, At
  <2> QED
    BY <1>1, <1>2, <2>1, PresentStep DEF Awaiting
<1>3. ASSUME NEW s \in Slots, PerformBasicValidation(s) \/ EvaluatePolicy(s) \/ ValidateUse(s)
      PROVE  SavesOK'
  <2>1. CASE UNCHANGED writes
    BY <1>1, <1>3, <2>1, CheckTypes DEF Awaiting
  <2>2. CASE ~UNCHANGED writes
    <3> DEFINE w == [by |-> s, snap |-> mem, seal |-> NoToken]
    <3>1. w \in Write /\ w.by = s
      BY WriteTypes
    <3>2. /\ writes' = Append(writes, w) /\ run[s].pc \notin Awaiting
          /\ run'[s].pc \in Awaiting /\ \A o \in Slots \ {s} : run'[o] = run[o]
      BY <1>3, <2>2, CheckTypes DEF Awaiting
    <3> HIDE DEF w
    <3> QED
      BY <1>0, <3>1, <3>2, AppendSave
  <2> QED
    BY <2>1, <2>2
<1>4. ASSUME NEW s \in Slots, ForgeAnswer(s)
      PROVE  SavesOK'
  <2> DEFINE w == [by |-> s, snap |-> mem, seal |-> NoToken]
  <2>1. w \in Write /\ w.by = s
    BY WriteTypes
  <2>2. run[s].pc = "forge"
    BY <1>4 DEF ForgeAnswer, At
  <2>3. /\ writes' = Append(writes, w) /\ run[s].pc \notin Awaiting
        /\ run'[s].pc \in Awaiting /\ \A o \in Slots \ {s} : run'[o] = run[o]
    BY <1>4, <2>2, ForgeStep DEF Awaiting
  <2> HIDE DEF w
  <2> QED
    BY <1>0, <2>1, <2>3, AppendSave
<1>5. ASSUME NEW s \in Slots, Consume(s)
      PROVE  SavesOK'
  <2> DEFINE w == [by |-> s, snap |-> mem', seal |-> NoToken]
  <2>1. w \in Write /\ w.by = s
    BY WriteTypes
  <2>2. run[s].pc = "consuming" /\ run[s].tok \in Tokens
    BY <1>5 DEF Consume, At, ControlOK
  <2>3. /\ writes' = Append(writes, w) /\ run[s].pc \notin Awaiting
        /\ run'[s].pc \in Awaiting /\ \A o \in Slots \ {s} : run'[o] = run[o]
    BY <1>5, <2>2, ConsumeStep DEF Awaiting
  <2> HIDE DEF w
  <2> QED
    BY <1>0, <2>1, <2>3, AppendSave
<1>6. ASSUME NEW t \in Tokens, BlockToken(t)
      PROVE  SavesOK'
  <2> DEFINE w == [by |-> "operator", snap |-> mem', seal |-> t]
  <2>1. w \in Write /\ w.by = "operator"
    BY WriteTypes
  <2>2. writes' = Append(writes, w) /\ run' = run
    BY <1>6, BlockStep DEF BlockToken
  <2> HIDE DEF w
  <2> QED
    BY <1>0, <2>1, <2>2, AppendSave
<1>7. ASSUME NEW t \in Tokens, UnblockToken(t)
      PROVE  SavesOK'
  <2> DEFINE w == [by |-> "operator", snap |-> mem', seal |-> NoToken]
  <2>1. w \in Write /\ w.by = "operator"
    BY WriteTypes
  <2>2. writes' = Append(writes, w) /\ \A o \in Slots : run'[o].pc = run[o].pc
    BY <1>7, UnblockStep
  <2> HIDE DEF w
  <2> QED
    BY <1>0, <2>1, <2>2, AppendSave
<1>8. ASSUME WriteLands
      PROVE  SavesOK'
  <2>1. /\ writes # <<>> /\ writes' = Tail(writes)
        /\ \A o \in Slots : o # writes[1].by => run'[o].pc = run[o].pc
    BY <1>8, LandStep
  <2> QED
    BY <1>0, <2>1, RemoveSave
<1>9. ASSUME WriteFails
      PROVE  SavesOK'
  <2>1. /\ writes # <<>>
        /\ \A o \in Slots : o # writes[1].by => run'[o].pc = run[o].pc
    BY <1>9, FailStep
  <2>2. CASE writes' = Tail(writes)
    BY <1>0, <2>1, <2>2, RemoveSave
  <2>3. CASE writes' # Tail(writes)
    <3> DEFINE w == [by |-> writes[1].by, snap |-> mem, seal |-> NoToken]
    <3>1. /\ writes[1].by \in Slots /\ writes' = Append(Tail(writes), w)
          /\ run'[writes[1].by].pc = "recording"
      BY <1>9, <2>3, FailStep
    <3>2. w \in Write /\ w.by = writes[1].by
      BY <3>1, WriteTypes
    <3> HIDE DEF w
    <3> QED
      BY <1>0, <2>1, <3>1, <3>2, ReplaceSave DEF Awaiting
  <2> QED
    BY <2>2, <2>3
<1>10. ASSUME Crash
       PROVE  SavesOK'
  <2>1. writes' = <<>>
    BY <1>10 DEF Crash
  <2> QED
    BY <2>1 DEF SavesOK
<1>11. ASSUME LoadState \/ ChangePolicy
       PROVE  SavesOK'
  BY <1>1, <1>11 DEF LoadState, ChangePolicy
<1>12. ASSUME NEW t \in Tokens, ResetUsage(t) \/ SpendAtForge(t)
       PROVE  SavesOK'
  BY <1>1, <1>12 DEF ResetUsage, SpendAtForge
<1>13. ASSUME UNCHANGED vars
       PROVE  SavesOK'
  BY <1>1, <1>13 DEF vars
<1> QED
  BY <1>2, <1>3, <1>4, <1>5, <1>6, <1>7, <1>8, <1>9, <1>10, <1>11, <1>12, <1>13
  DEF Next, Step

LEMMA ControlStep ==
    ASSUME TypeOK, ControlOK, TypeOK', [Next]_vars
    PROVE  ControlOK'
<1>1. SavesOK'
  BY SavesStep
<1>2. ASSUME NEW s \in Slots, run'[s].pc # "idle"
      PROVE  run'[s].tok \in Tokens
  <2>1. CASE run'[s] = Idle
    BY <1>2, <2>1 DEF Idle
  <2>2. CASE Begins(s)
    BY <2>2 DEF Begins
  <2>3. CASE Continues(s)
    <3>1. run[s].pc # "idle" /\ run'[s].tok = run[s].tok
      BY <1>2, <2>3 DEF Continues, Advances
    <3> QED
      BY <3>1 DEF ControlOK
  <2> QED
    BY <2>1, <2>2, <2>3, RunStep DEF Lives
<1>3. ASSUME ~up'
      PROVE  writes' = <<>> /\ \A s \in Slots : run'[s] = Idle
  <2>1. CASE Crash
    BY <2>1 DEF Crash
  <2>2. CASE ~Crash
    <3>1. up' \/ UNCHANGED <<run, writes, up>> \/ (up /\ up' = up) \/ writes # <<>>
      BY <2>2 DEF Next, Step, Present, PerformBasicValidation, EvaluatePolicy, ValidateUse,
         ForgeAnswer, Consume, BlockToken, UnblockToken, ResetUsage, SpendAtForge,
         ChangePolicy, WriteLands, WriteFails, LoadState, At, vars
    <3>2. writes # <<>> => up
      BY DEF ControlOK
    <3>3. up' = up \/ up'
      BY <2>2 DEF Next, Step, Present, PerformBasicValidation, EvaluatePolicy, ValidateUse,
         ForgeAnswer, Consume, BlockToken, UnblockToken, ResetUsage, SpendAtForge,
         ChangePolicy, WriteLands, WriteFails, LoadState, vars
    <3> QED
      BY <1>3, <3>1, <3>2, <3>3 DEF ControlOK
  <2> QED
    BY <2>1, <2>2
<1> QED
  BY <1>1, <1>2, <1>3 DEF ControlOK, SavesOK, Awaiting
-----------------------------------------------------------------------------
(* Redemptions, blocks, spent tokens.                                      *)
LEMMA RedeemedStep ==
    ASSUME TypeOK, ControlOK, RedeemedOK, TypeOK', ControlOK', [Next]_vars
    PROVE  RedeemedOK'
<1>0. mem \in GateState /\ mem' \in GateState
  BY DEF TypeOK
<1>1. ASSUME NEW t \in admitted
      PROVE  Everywhere(HasRedeemed(t))'
  <2>1. Everywhere(HasRedeemed(t))
    BY <1>1 DEF RedeemedOK
  <2>2. up /\ up' => mem' \in HasRedeemed(t)
    BY <1>0, <2>1, StoreStep DEF Everywhere, HasRedeemed
  <2> QED
    BY <2>1, <2>2, EverywhereStep
<1>2. ASSUME NEW t \in admitted', t \notin admitted
      PROVE  Everywhere(HasRedeemed(t))'
  <2>1. WriteLands
    BY <1>2 DEF Next, Step, Present, PerformBasicValidation, EvaluatePolicy, ValidateUse,
       ForgeAnswer, Consume, BlockToken, UnblockToken, ResetUsage, SpendAtForge,
       ChangePolicy, WriteFails, Crash, LoadState, vars, history
  <2> DEFINE s == writes[1].by
  <2>2. /\ writes # <<>> /\ disk' = writes[1].snap /\ writes' = Tail(writes)
        /\ s \in Slots /\ run[s].pc = "redeeming" /\ run[s].tok = t
    BY <1>2, <2>1, LandStep
  <2>3. 1 \in DOMAIN writes /\ \A j \in DOMAIN writes : 1 <= j
    BY <2>2, Removed
  <2>4. \A j \in DOMAIN writes : writes[j].snap \in HasRedeemed(t)
    BY <2>2, <2>3 DEF RedeemedOK
  <2>5. t \in mem.redeemed
    BY <2>2 DEF RedeemedOK
  <2>6. mem' = mem
    BY <2>1 DEF WriteLands
  <2>7. \A j \in DOMAIN writes' : writes'[j].snap \in HasRedeemed(t)
    BY <2>2, <2>4, Removed
  <2> QED
    BY <1>0, <2>2, <2>3, <2>4, <2>5, <2>6, <2>7 DEF Everywhere, HasRedeemed
<1>3. ASSUME NEW s \in Slots, run'[s].pc = "redeeming"
      PROVE  /\ run'[s].tok \in mem'.redeemed
             /\ \A i, j \in DOMAIN writes' :
                   writes'[i].by = s /\ i <= j => writes'[j].snap \in HasRedeemed(run'[s].tok)
  <2>1. up'
    BY <1>3 DEF ControlOK, Idle
  <2>2. /\ run'[s].tok = run[s].tok
        /\ \/ run[s].pc = "redeeming"
           \/ run[s].pc = "consuming" /\ run[s].tok \in mem'.redeemed
    <3>1. run'[s] # Idle /\ ~Begins(s)
      BY <1>3 DEF Idle, Begins
    <3>2. Continues(s)
      BY <3>1, RunStep DEF Lives
    <3> QED
      BY <1>3, <3>2 DEF Continues, Advances
  <2>3. up
    BY <2>2 DEF ControlOK, Idle
  <2>4. run[s].tok \in mem'.redeemed
    BY <2>1, <2>2, <2>3, StoreStep DEF RedeemedOK
  <2>5. mem' \in HasRedeemed(run[s].tok)
    BY <1>0, <2>4 DEF HasRedeemed
  <2>6. PICK k \in {0, 1} : Shifted(k)
    BY StoreStep
  <2>7. DOMAIN writes' \subseteq Nat /\ DOMAIN writes = 1..Len(writes) /\ Len(writes) \in Nat
    BY DEF TypeOK
  <2>8. ASSUME NEW i \in DOMAIN writes', NEW j \in DOMAIN writes',
               writes'[i].by = s, i <= j
        PROVE  writes'[j].snap \in HasRedeemed(run[s].tok)
    <3>1. CASE writes'[j].snap = mem'
      BY <2>5, <3>1
    <3>2. CASE j + k \in DOMAIN writes /\ writes'[j] = writes[j + k]
      <4>1. i + k \in DOMAIN writes /\ writes'[i] = writes[i + k] /\ i + k <= j + k
        BY <2>6, <2>7, <2>8, <3>2 DEF Shifted
      <4>2. writes[i + k].by = s /\ s # "operator"
        BY <2>8, <4>1, GateAccessAssumption
      <4>3. run[s].pc # "consuming"
        BY <4>1, <4>2 DEF ControlOK
      <4> QED
        BY <2>2, <3>2, <4>1, <4>2, <4>3 DEF RedeemedOK
    <3> QED
      BY <2>6, <3>1, <3>2 DEF Shifted
  <2> QED
    BY <2>2, <2>4, <2>8
<1> QED
  BY <1>1, <1>2, <1>3 DEF RedeemedOK

(* A save that carries a seal was made when the token was blocked.         *)
LEMMA SealStep ==
    ASSUME TypeOK, TypeOK', ControlOK, BlockOK, [Next]_vars
    PROVE  \A i \in DOMAIN writes' :
              writes'[i].seal # NoToken => writes'[i].snap \in HasBlocked(writes'[i].seal)
<1> DEFINE Good(w) == w.seal # NoToken => w.snap \in HasBlocked(w.seal)
           Goal == \A i \in DOMAIN writes' : Good(writes'[i])
<1>0. \A i \in DOMAIN writes : Good(writes[i])
  BY DEF BlockOK
<1>1. ASSUME UNCHANGED writes PROVE Goal
  BY <1>0, <1>1
<1>2. ASSUME NEW w \in Write, writes' = Append(writes, w), Good(w) PROVE Goal
  <2>1. /\ DOMAIN writes' = 1..(Len(writes) + 1) /\ Len(writes) \in Nat
        /\ DOMAIN writes = 1..Len(writes)
        /\ \A i \in DOMAIN writes : writes'[i] = writes[i]
        /\ writes'[Len(writes) + 1] = w
    BY <1>2, Appended
  <2>2. \A i \in DOMAIN writes' : i \in DOMAIN writes \/ i = Len(writes) + 1
    BY <2>1
  <2> HIDE DEF Good
  <2> QED
    BY <1>0, <1>2, <2>1, <2>2
<1>3. ASSUME writes # <<>>, writes' = Tail(writes) PROVE Goal
  <2>1. /\ DOMAIN writes = 1..Len(writes) /\ Len(writes) \in Nat
        /\ DOMAIN writes' = 1..(Len(writes) - 1)
        /\ \A i \in DOMAIN writes' : writes'[i] = writes[i + 1]
    BY <1>3, Removed
  <2>2. \A i \in DOMAIN writes' : i + 1 \in DOMAIN writes
    BY <2>1
  <2> HIDE DEF Good
  <2> QED
    BY <1>0, <2>1, <2>2
<1>4. ASSUME writes # <<>>, NEW w \in Write, writes' = Append(Tail(writes), w), Good(w)
      PROVE  Goal
  <2>1. /\ DOMAIN writes' = 1..Len(writes)
        /\ \A i \in 1..(Len(writes) - 1) : writes'[i] = writes[i + 1]
        /\ writes'[Len(writes)] = w
    BY <1>4, Replaced
  <2>2. Len(writes) \in Nat /\ DOMAIN writes = 1..Len(writes)
    BY <1>4, Removed
  <2>3. \A i \in DOMAIN writes' : i = Len(writes) \/ (i \in 1..(Len(writes) - 1) /\ i + 1 \in DOMAIN writes)
    BY <2>1, <2>2
  <2> HIDE DEF Good
  <2> QED
    BY <1>0, <1>4, <2>1, <2>3
<1>5. ASSUME NEW s \in Slots, NEW snap, snap \in {mem, mem'}
      PROVE  /\ [by |-> s, snap |-> snap, seal |-> NoToken] \in Write
             /\ Good([by |-> s, snap |-> snap, seal |-> NoToken])
  BY <1>5, WriteTypes
<1>6. ASSUME NEW s \in Slots, PerformBasicValidation(s) \/ EvaluatePolicy(s) \/ ValidateUse(s)
      PROVE  Goal
  <2>1. UNCHANGED writes \/ writes' = Append(writes, [by |-> s, snap |-> mem, seal |-> NoToken])
    BY <1>6, CheckTypes
  <2> HIDE DEF Good, Goal
  <2> QED
    BY <1>1, <1>2, <1>5, <2>1
<1>7. ASSUME NEW s \in Slots, ForgeAnswer(s) \/ Consume(s)
      PROVE  Goal
  <2>1. \E snap \in {mem, mem'} :
           writes' = Append(writes, [by |-> s, snap |-> snap, seal |-> NoToken])
    BY <1>7 DEF ForgeAnswer, Consume, SaveState
  <2> HIDE DEF Good, Goal
  <2> QED
    BY <1>2, <1>5, <2>1
<1>8. ASSUME NEW t \in Tokens, BlockToken(t)
      PROVE  Goal
  <2> DEFINE w == [by |-> "operator", snap |-> mem', seal |-> t]
  <2>1. mem' \in GateState /\ t \in mem'.blocked /\ writes' = Append(writes, w)
    BY <1>8, BlockStep
  <2>2. w \in Write
    BY WriteTypes
  <2>3. Good(w)
    BY <2>1 DEF HasBlocked
  <2> HIDE DEF Good, Goal, w
  <2> QED
    BY <1>2, <2>1, <2>2, <2>3
<1>9. ASSUME NEW t \in Tokens, UnblockToken(t)
      PROVE  Goal
  <2> DEFINE w == [by |-> "operator", snap |-> mem', seal |-> NoToken]
  <2>1. writes' = Append(writes, w)
    BY <1>9, UnblockStep
  <2>2. w \in Write /\ Good(w)
    BY WriteTypes
  <2> HIDE DEF Good, Goal, w
  <2> QED
    BY <1>2, <2>1, <2>2
<1>10. ASSUME WriteLands PROVE Goal
  <2>1. writes # <<>> /\ writes' = Tail(writes)
    BY <1>10, LandStep
  <2> QED
    BY <1>3, <2>1
<1>11. ASSUME WriteFails PROVE Goal
  <2>1. /\ writes # <<>>
        /\ \/ writes' = Tail(writes)
           \/ \E s \in Slots :
                writes' = Append(Tail(writes), [by |-> s, snap |-> mem, seal |-> NoToken])
    BY <1>11, FailStep
  <2> HIDE DEF Good, Goal
  <2> QED
    BY <1>3, <1>4, <1>5, <2>1
<1>12. ASSUME Crash PROVE Goal
  <2>1. writes' = <<>>
    BY <1>12 DEF Crash
  <2> QED
    BY <2>1
<1> HIDE DEF Good, Goal
<1>13. ASSUME NEW s \in Slots, NEW t \in Tokens, NEW grant \in BOOLEAN, Present(s, t, grant)
       PROVE  Goal
  BY <1>1, <1>13 DEF Present
<1>14. ASSUME \/ \E t \in Tokens : ResetUsage(t) \/ SpendAtForge(t)
              \/ ChangePolicy \/ LoadState \/ UNCHANGED vars
       PROVE  Goal
  BY <1>1, <1>14 DEF ResetUsage, SpendAtForge, ChangePolicy, LoadState, vars
<1>15. Goal
  BY <1>6, <1>7, <1>8, <1>9, <1>10, <1>11, <1>12, <1>13, <1>14 DEF Next, Step
<1> QED
  BY <1>15 DEF Goal, Good

LEMMA BlockInvStep ==
    ASSUME TypeOK, ControlOK, BlockOK, TypeOK', ControlOK', [Next]_vars
    PROVE  BlockOK'
<1>0. mem \in GateState /\ mem' \in GateState /\ sealed \subseteq Tokens
  BY DEF TypeOK
<1>1. ASSUME NEW t \in sealed', t \in sealed
      PROVE  Everywhere(HasBlocked(t))'
  <2>1. Everywhere(HasBlocked(t))
    BY <1>1 DEF BlockOK
  <2>2. up /\ up' => mem' \in HasBlocked(t)
    BY <1>0, <1>1, <2>1, StoreStep DEF Everywhere, HasBlocked
  <2> QED
    BY <2>1, <2>2, EverywhereStep
<1>2. ASSUME NEW t \in sealed', t \notin sealed
      PROVE  Everywhere(HasBlocked(t))'
  <2>1. WriteLands
    BY <1>2 DEF Next, Step, Present, PerformBasicValidation, EvaluatePolicy, ValidateUse,
       ForgeAnswer, Consume, BlockToken, UnblockToken, ResetUsage, SpendAtForge,
       ChangePolicy, WriteFails, Crash, LoadState, vars, history
  <2>2. /\ writes # <<>> /\ disk' = writes[1].snap /\ writes' = Tail(writes)
        /\ writes[1].seal = t /\ Lasting(t)
    BY <1>2, <2>1, LandStep
  <2>3. t # NoToken
    BY GateAccessAssumption DEF TypeOK
  <2>4. writes[1].snap \in HasBlocked(t)
    BY <2>2, <2>3, Removed DEF BlockOK
  <2>5. mem' = mem /\ mem \in HasBlocked(t)
    BY <1>0, <2>1, <2>2 DEF WriteLands, Lasting, HasBlocked
  <2>6. /\ DOMAIN writes = 1..Len(writes) /\ Len(writes) \in Nat
        /\ DOMAIN writes' = 1..(Len(writes) - 1)
        /\ \A i \in DOMAIN writes' : writes'[i] = writes[i + 1]
    BY <2>2, Removed
  <2>7. ASSUME NEW i \in DOMAIN writes'
        PROVE  writes'[i].snap \in HasBlocked(t)
    <3>1. i + 1 \in 2..Len(writes) /\ i + 1 \in DOMAIN writes /\ writes'[i] = writes[i + 1]
      BY <2>6
    <3>2. t \in writes[i + 1].snap.blocked
      BY <2>2, <3>1 DEF Lasting
    <3>3. writes[i + 1].snap \in GateState
      BY <3>1, WritersExist DEF Write
    <3> QED
      BY <3>1, <3>2, <3>3 DEF HasBlocked
  <2> QED
    BY <2>2, <2>4, <2>5, <2>7 DEF Everywhere
<1>3. ASSUME NEW s \in Slots, run'[s].barred
      PROVE  run'[s].tok \in sealed' /\ (run'[s].pc = "restoring" \/ Failed(run'[s]))
  <2>1. run'[s] # Idle
    BY <1>3 DEF Idle
  <2>2. CASE Begins(s)
    BY <1>3, <2>2 DEF Begins
  <2>3. CASE Continues(s)
    <3>1. /\ run'[s].tok = run[s].tok /\ run[s].barred /\ Advances(s)
          /\ run[s].tok \in sealed => run[s].tok \in sealed'
      BY <1>3, <2>3 DEF Continues
    <3>2. run[s].tok \in sealed /\ (run[s].pc = "restoring" \/ Failed(run[s]))
      BY <3>1 DEF BlockOK
    <3>3. up => run[s].tok \in mem.blocked
      BY <3>2 DEF BlockOK, Everywhere, HasBlocked
    <3> QED
      BY <3>1, <3>2, <3>3 DEF Advances, Failed
  <2> QED
    BY <2>1, <2>2, <2>3, RunStep DEF Lives
<1> QED
  BY <1>1, <1>2, <1>3, SealStep DEF BlockOK

LEMMA SpentStep ==
    ASSUME TypeOK, ControlOK, SpentOK, [Next]_vars
    PROVE  SpentOK'
<1>1. spent \subseteq spent'
  BY DEF Next, Step, Present, PerformBasicValidation, EvaluatePolicy, ValidateUse,
     ForgeAnswer, Consume, BlockToken, UnblockToken, ResetUsage, SpendAtForge,
     ChangePolicy, WriteLands, WriteFails, Crash, LoadState, vars
<1>2. ASSUME NEW s \in Slots, run'[s].stale
      PROVE  /\ run'[s].tok \in spent'
             /\ \/ run'[s].pc \in {"restoring", "policy", "strategy", "forge", "refusing"}
                \/ Failed(run'[s])
  <2>1. run'[s] # Idle
    BY <1>2 DEF Idle
  <2>2. CASE Begins(s)
    BY <1>2, <2>2 DEF Begins
  <2>3. CASE Continues(s)
    <3>1. run'[s].tok = run[s].tok /\ run[s].stale /\ Advances(s)
      BY <1>2, <2>3 DEF Continues
    <3>2. /\ run[s].tok \in spent
          /\ \/ run[s].pc \in {"restoring", "policy", "strategy", "forge", "refusing"}
             \/ Failed(run[s])
      BY <3>1 DEF SpentOK
    <3> QED
      BY <1>1, <1>2, <3>1, <3>2 DEF Advances, Failed
  <2> QED
    BY <2>1, <2>2, <2>3, RunStep DEF Lives
<1> QED
  BY <1>2 DEF SpentOK
-----------------------------------------------------------------------------
(* Uses.                                                                   *)
UsesPart(t) ==
    /\ uses[t] + Cardinality(Poised(t)) <= MaxUses + Cardinality(Slots) - 1
    /\ t \notin crowded =>
          /\ uses[t] <= MaxUses
          /\ \A s \in Poised(t) : uses[t] < MaxUses /\ Poised(t) = {s}

LEMMA PoisedFinite ==
    \A t : /\ IsFiniteSet(Poised(t)) /\ IsFiniteSet(Poised(t)')
           /\ Cardinality(Poised(t)) \in Nat /\ Cardinality(Poised(t)') \in Nat
           /\ Cardinality(Slots) \in Nat
           /\ Cardinality(Poised(t)) <= Cardinality(Slots)
           /\ Cardinality(Poised(t)') <= Cardinality(Slots)
           /\ Poised(t)' \subseteq Poised(t) =>
                Cardinality(Poised(t)') <= Cardinality(Poised(t))
<1>1. IsFiniteSet(Slots)
  BY GateAccessAssumption
<1>2. \A t : Poised(t) \subseteq Slots /\ Poised(t)' \subseteq Slots
  BY DEF Poised
<1> QED
  BY <1>1, <1>2, FS_Subset, FS_CardinalityType

(* Only the strategy's check makes a call poised.                          *)
LEMMA PoisedStep ==
    ASSUME TypeOK, ControlOK, [Next]_vars, NEW t, NEW s \in Poised(t)'
    PROVE  s \in Poised(t) \/ ValidateUse(s)
<1>1. s \in Slots /\ run'[s].tok = t /\ ~Failed(run'[s])
      /\ run'[s].pc \in {"forge", "refusing", "recording", "consuming"}
  BY DEF Poised, Checked
<1>2. Continues(s)
  BY <1>1, RunStep DEF Lives, Begins, Idle
<1>3. \/ ValidateUse(s)
      \/ /\ run[s].pc \in {"forge", "refusing", "recording", "consuming"}
         /\ run[s].tok = t /\ ~Failed(run[s])
  BY <1>1, <1>2 DEF Continues, Advances, Failed
<1> QED
  BY <1>1, <1>3 DEF Poised, Checked

LEMMA PartShrinks ==
    ASSUME TypeOK, NEW t \in Tokens, UsesPart(t), Poised(t)' \subseteq Poised(t),
           uses'[t] = uses[t], t \in crowded => t \in crowded'
    PROVE  UsesPart(t)'
<1>1. uses[t] \in Nat /\ MaxUses \in Nat
  BY GateAccessAssumption DEF TypeOK
<1>2. uses'[t] + Cardinality(Poised(t)') <= MaxUses + Cardinality(Slots) - 1
  BY <1>1, PoisedFinite DEF UsesPart
<1>3. ASSUME t \notin crowded'
      PROVE  /\ uses'[t] <= MaxUses
             /\ \A s \in Poised(t)' : uses'[t] < MaxUses /\ Poised(t)' = {s}
  BY <1>3 DEF UsesPart
<1> QED
  BY <1>2, <1>3 DEF UsesPart

LEMMA UsesStep ==
    ASSUME TypeOK, ControlOK, UsesOK, TypeOK', [Next]_vars
    PROVE  UsesOK'
<1> DEFINE Goal == entries' = uses' /\ \A t \in Tokens : UsesPart(t)'
<1>0. /\ entries = uses /\ \A t \in Tokens : UsesPart(t) /\ uses[t] \in Nat
      /\ MaxUses \in Nat \ {0}
  BY GateAccessAssumption DEF UsesOK, UsesPart, TypeOK
<1>1. ASSUME UNCHANGED <<uses, entries, crowded>>, \A s \in Slots : ~ValidateUse(s)
      PROVE  Goal
  <2>1. \A t : Poised(t)' \subseteq Poised(t)
    BY <1>1, PoisedStep DEF Poised
  <2> QED
    BY <1>0, <1>1, <2>1, PartShrinks
<1>2. ASSUME NEW s \in Slots, ValidateUse(s)
      PROVE  Goal
  <2>1. PICK t \in Tokens : t = run[s].tok
    BY <1>2 DEF ValidateUse, At, ControlOK
  <2>0. /\ UNCHANGED <<uses, entries>> /\ crowded \subseteq crowded' /\ run[s].pc = "strategy"
        /\ \A o \in Slots \ {s} : run[o].tok = t /\ Checked(o) => t \in crowded'
    BY <1>2, <2>1 DEF ValidateUse, At
  <2>2. /\ \A o \in Slots \ {s} : run'[o] = run[o]
        /\ run'[s].tok = t
        /\ \/ run'[s].pc = "forge" /\ uses[t] < MaxUses
           \/ run'[s].pc = "recording" /\ run'[s].ok = FALSE
    BY <1>2, <2>0, <2>1, CheckTypes
  <2>3. \A u : Poised(u)' \subseteq Poised(u) \cup {s}
    BY <2>2 DEF Poised, Checked
  <2>4. \A u : u # t => Poised(u)' \subseteq Poised(u)
    BY <2>2, <2>3 DEF Poised
  <2>5. CASE run'[s].pc = "recording" /\ run'[s].ok = FALSE
    <3>1. s \notin Poised(t)'
      BY <2>5 DEF Poised, Failed
    <3>2. \A u : Poised(u)' \subseteq Poised(u)
      BY <2>3, <2>4, <3>1
    <3> QED
      BY <1>0, <2>0, <3>2, PartShrinks
  <2>6. CASE run'[s].pc = "forge" /\ uses[t] < MaxUses
    <3>1. uses'[t] + Cardinality(Poised(t)') <= MaxUses + Cardinality(Slots) - 1
      BY <1>0, <2>0, <2>1, <2>6, PoisedFinite
    <3>2. ASSUME t \notin crowded'
          PROVE  Poised(t)' = {s}
      <4>1. \A o \in Slots \ {s} : o \notin Poised(t)'
        BY <2>0, <2>2, <3>2 DEF Poised, Checked
      <4>2. s \in Poised(t)'
        BY <2>2, <2>6 DEF Poised, Checked, Failed
      <4>3. Poised(t)' \subseteq Slots
        BY DEF Poised
      <4> QED
        BY <4>1, <4>2, <4>3
    <3>3. UsesPart(t)'
      BY <1>0, <2>0, <2>1, <2>6, <3>1, <3>2 DEF UsesPart
    <3>4. \A u \in Tokens : u # t => UsesPart(u)'
      BY <1>0, <2>0, <2>4, PartShrinks
    <3> QED
      BY <1>0, <2>0, <3>3, <3>4
  <2> QED
    BY <2>2, <2>5, <2>6
<1>3. ASSUME NEW s \in Slots, Consume(s)
      PROVE  Goal
  <2>0. crowded' = crowded /\ run[s].pc = "consuming"
    BY <1>3 DEF Consume, At
  <2>1. PICK t \in Tokens : t = run[s].tok
    BY <2>0 DEF ControlOK
  <2>2. /\ \A o \in Slots \ {s} : run'[o] = run[o]
        /\ run'[s].pc = "redeeming"
        /\ uses' = [uses EXCEPT ![t] = @ + 1] /\ entries' = [entries EXCEPT ![t] = @ + 1]
    BY <1>3, <2>1, ConsumeStep
  <2>3. \A u : Poised(u)' = Poised(u) \ {s}
    BY <2>2 DEF Poised, Checked
  <2>4. s \in Poised(t)
    BY <2>0, <2>1 DEF Poised, Checked, Failed
  <2>5. Cardinality(Poised(t)') = Cardinality(Poised(t)) - 1
    BY <2>3, <2>4, PoisedFinite, FS_RemoveElement
  <2>6. uses'[t] = uses[t] + 1 /\ \A u \in Tokens : u # t => uses'[u] = uses[u]
    BY <2>1, <2>2 DEF TypeOK
  <2>7. UsesPart(t)'
    <3>1. uses'[t] + Cardinality(Poised(t)') <= MaxUses + Cardinality(Slots) - 1
      BY <1>0, <2>1, <2>5, <2>6, PoisedFinite DEF UsesPart
    <3>2. ASSUME t \notin crowded'
          PROVE  uses'[t] <= MaxUses /\ Poised(t)' = {}
      BY <1>0, <2>0, <2>1, <2>3, <2>4, <2>6, <3>2 DEF UsesPart
    <3> QED
      BY <3>1, <3>2 DEF UsesPart
  <2>8. \A u \in Tokens : u # t => UsesPart(u)'
    BY <1>0, <2>0, <2>3, <2>6, PartShrinks
  <2>9. entries' = uses'
    BY <1>0, <2>2
  <2> QED
    BY <2>7, <2>8, <2>9
<1>4. ASSUME NEW t \in Tokens, ResetUsage(t)
      PROVE  Goal
  <2>1. /\ run' = run /\ uses' = [uses EXCEPT ![t] = 0] /\ entries' = [entries EXCEPT ![t] = 0]
        /\ (\E s \in Slots : run[s].tok = t /\ Checked(s)) => t \in crowded'
        /\ \A u : u # t /\ u \in crowded => u \in crowded'
    BY <1>4 DEF ResetUsage
  <2>2. \A u : Poised(u)' = Poised(u)
    BY <2>1 DEF Poised, Checked
  <2>3. uses'[t] = 0 /\ \A u \in Tokens : u # t => uses'[u] = uses[u]
    BY <2>1 DEF TypeOK
  <2>4. t \notin crowded' => Poised(t)' = {}
    BY <2>1, <2>2 DEF Poised
  <2>5. UsesPart(t)'
    <3>1. uses'[t] + Cardinality(Poised(t)') <= MaxUses + Cardinality(Slots) - 1
      BY <1>0, <2>3, PoisedFinite
    <3> QED
      BY <1>0, <2>3, <2>4, <3>1 DEF UsesPart
  <2>6. \A u \in Tokens : u # t => UsesPart(u)'
    BY <1>0, <2>1, <2>2, <2>3, PartShrinks
  <2> QED
    BY <1>0, <2>1, <2>5, <2>6
<1>5. ASSUME Crash
      PROVE  Goal
  <2>1. uses' = Unused /\ entries' = Unused /\ \A s \in Slots : run'[s] = Idle
    BY <1>5 DEF Crash
  <2>2. \A t : Poised(t)' = {}
    BY <2>1 DEF Poised, Checked, Idle
  <2>3. ASSUME NEW t \in Tokens
        PROVE  UsesPart(t)'
    <3>1. uses'[t] = 0
      BY <2>1 DEF Unused
    <3>2. uses'[t] + Cardinality(Poised(t)') <= MaxUses + Cardinality(Slots) - 1
      BY <1>0, <3>1, PoisedFinite
    <3> QED
      BY <1>0, <2>2, <3>1, <3>2 DEF UsesPart
  <2> QED
    BY <2>1, <2>3
<1> HIDE DEF Goal
<1>6. CASE \E s \in Slots : ValidateUse(s)
  BY <1>2, <1>6 DEF Goal, UsesOK, UsesPart
<1>7. CASE \A s \in Slots : ~ValidateUse(s)
  <2>1. \/ UNCHANGED <<uses, entries, crowded>>
        \/ \E s \in Slots : Consume(s)
        \/ \E t \in Tokens : ResetUsage(t)
        \/ Crash
    BY <1>7 DEF Next, Step, Present, PerformBasicValidation, EvaluatePolicy,
       ForgeAnswer, BlockToken, UnblockToken, SpendAtForge,
       ChangePolicy, WriteLands, WriteFails, LoadState, vars, history
  <2>2. Goal
    BY <1>1, <1>3, <1>4, <1>5, <1>7, <2>1
  <2> QED
    BY <2>2 DEF Goal, UsesOK, UsesPart
<1> QED
  BY <1>6, <1>7
-----------------------------------------------------------------------------
LEMMA InitOK == Init => IInv
<1> SUFFICES ASSUME Init PROVE IInv
  OBVIOUS
<1>1. TypeOK
  BY InitTypeOK
<1>2. /\ writes = <<>> /\ up /\ admitted = {} /\ sealed = {} /\ crowded = {}
      /\ uses = Unused /\ entries = Unused /\ \A s \in Slots : run[s] = Idle
  BY DEF Init
<1>3. ControlOK /\ RedeemedOK /\ BlockOK /\ SpentOK
  BY <1>2 DEF ControlOK, RedeemedOK, BlockOK, SpentOK, Idle
<1>4. \A t \in Tokens : uses[t] = 0 /\ Poised(t) = {}
  BY <1>2 DEF Unused, Poised, Checked, Idle
<1>5. MaxUses \in Nat \ {0} /\ Cardinality(Slots) \in Nat
  BY GateAccessAssumption, FS_CardinalityType
<1>6. \A t \in Tokens : Cardinality(Poised(t)) = 0
  BY <1>4, FS_EmptySet
<1>7. \A t \in Tokens : uses[t] + Cardinality(Poised(t)) <= MaxUses + Cardinality(Slots) - 1
  BY <1>4, <1>5, <1>6
<1>8. UsesOK
  BY <1>2, <1>4, <1>5, <1>7 DEF UsesOK
<1> QED
  BY <1>1, <1>3, <1>8 DEF IInv

LEMMA InvStep == IInv /\ [Next]_vars => IInv'
<1> SUFFICES ASSUME IInv, [Next]_vars PROVE IInv'
  OBVIOUS
<1>0. TypeOK /\ ControlOK /\ RedeemedOK /\ BlockOK /\ SpentOK /\ UsesOK
  BY DEF IInv
<1>1. TypeOK'
  BY <1>0, TypeStep
<1>2. ControlOK'
  BY <1>0, <1>1, ControlStep
<1>3. RedeemedOK'
  BY <1>0, <1>1, <1>2, RedeemedStep
<1>4. BlockOK'
  BY <1>0, <1>1, <1>2, BlockInvStep
<1>5. SpentOK' /\ UsesOK'
  BY <1>0, <1>1, SpentStep, UsesStep
<1> QED
  BY <1>1, <1>2, <1>3, <1>4, <1>5 DEF IInv

(* Every part of the inductive invariant holds: saves belong to the calls  *)
(* that await them, admitted tokens are redeemed and sealed ones blocked   *)
(* in memory, in storage and in all pending saves (GateBase.saveState,     *)
(* grantAccess, blockToken).                                               *)
THEOREM AccessInvariant == Spec => []IInv
  BY InitOK, InvStep, PTL DEF Spec

(* A call that begins after blockToken has returned does not consume the   *)
(* token (performBasicValidation).                                         *)
THEOREM BlockTheorem == Spec => []BlockHolds
<1>1. IInv => BlockHolds
  BY DEF IInv, BlockOK, BlockHolds, Failed
<1> QED
  BY <1>1, AccessInvariant, PTL

(* Uses exceed the limit by no more than the other calls in progress, and  *)
(* not at all when calls for the token were apart (validate, consume).     *)
THEOREM UsesTheorem == Spec => []UsesLimited
<1>1. ASSUME IInv PROVE UsesLimited
  <2>1. ASSUME NEW t \in Tokens
        PROVE  entries[t] <= IF t \in crowded THEN MaxUses + Cardinality(Slots) - 1 ELSE MaxUses
    <3>1. entries = uses /\ UsesPart(t) /\ uses[t] \in Nat
      BY <1>1 DEF IInv, UsesOK, UsesPart, TypeOK
    <3>2. Cardinality(Poised(t)) \in Nat /\ Cardinality(Slots) \in Nat /\ MaxUses \in Nat
      BY PoisedFinite, GateAccessAssumption
    <3> QED
      BY <3>1, <3>2 DEF UsesPart
  <2> QED
    BY <2>1 DEF UsesLimited
<1> QED
  BY <1>1, AccessInvariant, PTL

(* A token that was spent before the call is only consumed by it if the    *)
(* forge could not be asked, or its refusal not saved (validateToken).     *)
THEOREM SpentTheorem == Spec => []SpentRefused
<1>1. IInv => SpentRefused
  BY DEF IInv, SpentOK, SpentRefused, Failed
<1> QED
  BY <1>1, AccessInvariant, PTL
=============================================================================
