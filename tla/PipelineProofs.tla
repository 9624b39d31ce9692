--------------------------- MODULE PipelineProofs ---------------------------
(***************************************************************************)
(* The pipeline's types, its control invariants and the program order of   *)
(* its commits, for every program, every number of registers and words and *)
(* every behaviour of the buses and of the divider.                        *)
(***************************************************************************)
EXTENDS Pipeline, FiniteSetTheorems, TLAPS

(* Numbers never run out: at most 14 + Cardinality(Reg) are held.          *)
LEMMA AddElement ==
  ASSUME NEW S, IsFiniteSet(S), NEW n \in Nat, Cardinality(S) <= n, NEW x
  PROVE  IsFiniteSet(S \cup {x}) /\ Cardinality(S \cup {x}) <= n + 1
<1>1. /\ IsFiniteSet(S \cup {x})
      /\ Cardinality(S \cup {x}) = IF x \in S THEN Cardinality(S) ELSE Cardinality(S) + 1
  BY FS_AddElement
<1>2. Cardinality(S) \in Nat
  BY FS_CardinalityType
<1> QED BY <1>1, <1>2

LEMMA AddSeven ==
  ASSUME NEW S, IsFiniteSet(S), NEW n \in Nat, Cardinality(S) <= n,
         NEW a, NEW b, NEW c, NEW d, NEW e, NEW f, NEW g
  PROVE  /\ IsFiniteSet(S \cup {a, b, c, d, e, f, g})
         /\ Cardinality(S \cup {a, b, c, d, e, f, g}) <= n + 7
<1> DEFINE S1 == S \cup {a}   S2 == S1 \cup {b}   S3 == S2 \cup {c}   S4 == S3 \cup {d}
           S5 == S4 \cup {e}  S6 == S5 \cup {f}   S7 == S6 \cup {g}
<1> HIDE DEF S1, S2, S3, S4, S5, S6, S7
<1>0. n + 1 \in Nat /\ n + 2 \in Nat /\ n + 3 \in Nat /\ n + 4 \in Nat /\ n + 5 \in Nat /\ n + 6 \in Nat
  OBVIOUS
<1>1. IsFiniteSet(S1) /\ Cardinality(S1) <= n + 1
  BY AddElement DEF S1
<1>2. IsFiniteSet(S2) /\ Cardinality(S2) <= (n + 1) + 1
  BY <1>0, <1>1, AddElement DEF S2
<1>3. IsFiniteSet(S3) /\ Cardinality(S3) <= (n + 2) + 1
  BY <1>0, <1>2, AddElement, (n + 1) + 1 = n + 2 DEF S3
<1>4. IsFiniteSet(S4) /\ Cardinality(S4) <= (n + 3) + 1
  BY <1>0, <1>3, AddElement, (n + 2) + 1 = n + 3 DEF S4
<1>5. IsFiniteSet(S5) /\ Cardinality(S5) <= (n + 4) + 1
  BY <1>0, <1>4, AddElement, (n + 3) + 1 = n + 4 DEF S5
<1>6. IsFiniteSet(S6) /\ Cardinality(S6) <= (n + 5) + 1
  BY <1>0, <1>5, AddElement, (n + 4) + 1 = n + 5 DEF S6
<1>7. IsFiniteSet(S7) /\ Cardinality(S7) <= (n + 6) + 1
  BY <1>0, <1>6, AddElement, (n + 5) + 1 = n + 6 DEF S7
<1>8. S7 = S \cup {a, b, c, d, e, f, g}
  BY DEF S1, S2, S3, S4, S5, S6, S7
<1> QED BY <1>7, <1>8

LEMMA FreshIsId == TypeOK => fresh \in Id
<1> SUFFICES ASSUME TypeOK PROVE \E i \in Id : i \notin Held
  BY DEF fresh
<1> DEFINE R == {rf[r] : r \in Reg}
           F == R \cup {0, id.id, ex.id, ex.opnd, mem.id, mem.opnd, mem.res}
           G == F \cup {wb.id, wb.opnd, wb.res, mem_load_data, div_result.id,
                        div_result.opnd, dmem.id}
<1>1. IsFiniteSet(Reg) /\ Cardinality(Reg) \in Nat /\ Cardinality(Reg) + 7 \in Nat
  BY PipelineAssumption, FS_CardinalityType DEF PipelineAssumption
<1>2. rf \in Surjection(Reg, R)
  BY DEF TypeOK, Surjection
<1>3. IsFiniteSet(R) /\ Cardinality(R) <= Cardinality(Reg)
  <2> HIDE DEF R
  <2> QED BY <1>1, <1>2, FS_Surjection
<1>4. IsFiniteSet(F) /\ Cardinality(F) <= Cardinality(Reg) + 7
  <2> HIDE DEF R
  <2> QED BY <1>1, <1>3, AddSeven
<1>5. IsFiniteSet(G) /\ Cardinality(G) <= (Cardinality(Reg) + 7) + 7
  <2> HIDE DEF F
  <2> QED BY <1>1, <1>4, AddSeven
<1>6. Held = G
  BY DEF Held
<1>7. IsFiniteSet(Id) /\ Cardinality(Id) = IdCount
  <2>1. IdCount \in Nat /\ IdCount > 0
    BY <1>1, PipelineAssumption DEF PipelineAssumption
  <2>2. /\ IsFiniteSet(0..(IdCount - 1))
        /\ Cardinality(0..(IdCount - 1)) = IF 0 > IdCount - 1 THEN 0 ELSE (IdCount - 1) - 0 + 1
    BY <2>1, FS_Interval
  <2> QED BY <2>1, <2>2 DEF Id
<1>8. ~(Id \subseteq Held)
  <2> HIDE DEF G
  <2>1. SUFFICES ASSUME Id \in SUBSET G PROVE FALSE
    BY <1>6
  <2>2. Cardinality(Id) <= Cardinality(G)
    BY <1>5, <2>1, FS_Subset
  <2>3. Cardinality(G) \in Nat
    BY <1>5, FS_CardinalityType
  <2> QED BY <1>1, <1>5, <1>7, <2>2, <2>3, PipelineAssumption DEF PipelineAssumption
<1> QED BY <1>8

-----------------------------------------------------------------------------
(* What fetch brings.                                                      *)
Shape == [cls : AllClass, taken : BOOLEAN, dst : Reg \cup {NoReg}, src : Reg \cup {NoReg},
          word : Word \cup {NoWord}]

NoInstruction == [cls |-> "alu", taken |-> FALSE, dst |-> NoReg, src |-> NoReg, word |-> NoWord]

Answer == {"none", "ok", "fault", "pagefault"}

(* A cycle of the pipeline, with what its inputs are known to be.          *)
Cycle(irq, ifReady, ifRsp, f, dmReady, dmRsp, divDone) ==
    /\ Clock(irq, ifReady, ifRsp, f, dmReady, dmRsp, divDone)
    /\ ifReady => if_can_issue(irq)
    /\ ifRsp => fetch_inflight
    /\ dmReady => dmem_req_valid
    /\ dmRsp # "none" => dmReady \/ dmem.busy
    /\ divDone => div_busy
    /\ Legal(f)

LEMMA Shapes == Instruction \subseteq Shape /\ NoInstruction \in Shape
  BY PipelineAssumption DEF PipelineAssumption, Instruction, Fetched, Shape, NoInstruction, AllClass

LEMMA Constants == /\ 0 \in Id /\ 0 \in PC
                   /\ \A p \in PC : Next4(p) \in PC
                   /\ Bubble \in Token
<1>1. 0 \in PC /\ \A p \in PC : Next4(p) \in PC
  BY PipelineAssumption DEF PipelineAssumption, PC, Next4
<1>2. 0 \in Id
  BY PipelineAssumption, FS_CardinalityType DEF PipelineAssumption, Id
<1>3. Bubble \in Token
  BY <1>1, <1>2 DEF Bubble, Token, AllClass
<1> QED BY <1>1, <1>2, <1>3

LEMMA InitTypeOK == Init => TypeOK
<1> SUFFICES ASSUME Init PROVE TypeOK
  OBVIOUS
<1>1. /\ resv \in [valid : BOOLEAN, word : Word \cup {NoWord}]
      /\ div_result \in [id : Id, opnd : Id]
      /\ dmem \in [busy : BOOLEAN, id : Id]
      /\ rf \in [Reg -> Id]
  BY Constants DEF Init
<1>2. id \in Token /\ ex \in Token /\ mem \in Token /\ wb \in Token
  BY Constants DEF Init
<1>3. /\ pc \in PC /\ fetch_inflight_pc \in PC /\ mem_load_data \in Id
      /\ mem_amo_phase \in 0..1 /\ lrLive \in Word \cup {NoWord}
  BY Constants DEF Init
<1>4. /\ fetch_inflight \in BOOLEAN /\ fetch_squash \in BOOLEAN /\ trap_pending \in BOOLEAN
      /\ mem_ls_pending \in BOOLEAN /\ mem_req_fired \in BOOLEAN /\ mem_bus_fault \in BOOLEAN
      /\ div_busy \in BOOLEAN /\ div_started \in BOOLEAN /\ div_done_latched \in BOOLEAN
  BY DEF Init
<1> QED BY <1>1, <1>2, <1>3, <1>4 DEF TypeOK

LEMMA NextIsClock ==
  ASSUME Next
  PROVE  \E irq \in BOOLEAN, ifReady \in BOOLEAN, ifRsp \in BOOLEAN, f \in Shape,
            dmReady \in BOOLEAN, dmRsp \in Answer, divDone \in BOOLEAN :
            Cycle(irq, ifReady, ifRsp, f, dmReady, dmRsp, divDone)
<1>1. PICK irq \in BOOLEAN, ifRsp \in When(fetch_inflight),
           dmReady \in When(dmem_req_valid), divDone \in When(div_busy) :
        \E ifReady \in When(if_can_issue(irq)), dmRsp \in DmAnswers(dmReady),
           f \in IF ifRsp /\ ~fetch_squash THEN Instruction ELSE {NoInstruction} :
          Clock(irq, ifReady, ifRsp, f, dmReady, dmRsp, divDone)
  BY DEF Next, NoInstruction
<1>2. PICK ifReady \in When(if_can_issue(irq)), dmRsp \in DmAnswers(dmReady),
           f \in IF ifRsp /\ ~fetch_squash THEN Instruction ELSE {NoInstruction} :
          Clock(irq, ifReady, ifRsp, f, dmReady, dmRsp, divDone)
  BY <1>1
<1>3. f \in Shape /\ Legal(f)
  <2>1. f \in Instruction \/ f = NoInstruction
    BY <1>2
  <2>2. Legal(NoInstruction)
    BY DEF Legal, NoInstruction
  <2>3. f \in Instruction => Legal(f)
    BY DEF Instruction
  <2> QED BY <2>1, <2>2, <2>3, Shapes
<1>4. /\ ifRsp \in BOOLEAN /\ (ifRsp => fetch_inflight)
      /\ dmReady \in BOOLEAN /\ (dmReady => dmem_req_valid)
      /\ divDone \in BOOLEAN /\ (divDone => div_busy)
      /\ ifReady \in BOOLEAN /\ (ifReady => if_can_issue(irq))
  BY DEF When
<1>5. dmRsp \in Answer /\ (dmRsp # "none" => dmReady \/ dmem.busy)
  BY DEF DmAnswers, Answer
<1> QED BY <1>2, <1>3, <1>4, <1>5 DEF Cycle

(* The values on the wires.                                                *)
LEMMA Wires ==
  ASSUME TypeOK
  PROVE  /\ wb_redirect_pc \in PC /\ CommitRd \in Id /\ Forwarded \in Id
         /\ \A r \in Reg \cup {NoReg} : ReadRf(r) \in Id
         /\ RfAfterWb \in [Reg -> Id]
         /\ ReservedAfterWb \in Word \cup {NoWord}
<1>1. wb_redirect_pc \in PC
  BY Constants, PipelineAssumption DEF PipelineAssumption, TypeOK, Token, wb_redirect_pc
<1>2. CommitRd \in Id /\ Forwarded \in Id
  BY DEF TypeOK, Token, CommitRd, Forwarded
<1>3. \A r \in Reg \cup {NoReg} : ReadRf(r) \in Id
  BY <1>2, Constants DEF TypeOK, ReadRf
<1>4. RfAfterWb \in [Reg -> Id]
  BY <1>2 DEF TypeOK, RfAfterWb
<1>5. ReservedAfterWb \in Word \cup {NoWord}
  BY DEF TypeOK, Token, ReservedAfterWb
<1> QED BY <1>1, <1>2, <1>3, <1>4, <1>5

(* A token with some of its fields replaced.                               *)
LEMMA Retokened ==
  /\ \A t \in Token, p \in PC, n \in Id, g \in Shape :
       [t EXCEPT !.valid = TRUE, !.id = n, !.pc = p, !.cls = g.cls, !.taken = g.taken,
                 !.dst = g.dst, !.src = g.src, !.word = g.word] \in Token
  /\ \A t \in Token, p \in PC, n \in Id :
       [t EXCEPT !.valid = TRUE, !.cls = "irq", !.id = n, !.pc = p] \in Token
  /\ \A t \in Token, b \in BOOLEAN, r \in Reg \cup {NoReg}, n \in Id :
       [t EXCEPT !.trap = b, !.dst = r, !.res = n] \in Token
  /\ \A t \in Token, b, c \in BOOLEAN, r \in Reg \cup {NoReg}, m, n \in Id :
       [t EXCEPT !.trap = b, !.dst = r, !.opnd = m, !.res = n, !.hasRes = c] \in Token
<1>1. "irq" \in AllClass
  BY DEF AllClass, TrapClass
<1>2. \A t \in Token, p \in PC, n \in Id : [t EXCEPT !.valid = TRUE, !.id = n, !.pc = p] \in Token
  BY DEF Token
<1>3. \A t \in Token, p \in PC, n \in Id :
       [t EXCEPT !.valid = TRUE, !.cls = "irq", !.id = n, !.pc = p] \in Token
  BY <1>1 DEF Token
<1>4. \A t \in Token, p \in PC, n \in Id, g \in Shape :
       [t EXCEPT !.valid = TRUE, !.id = n, !.pc = p, !.cls = g.cls, !.taken = g.taken,
                 !.dst = g.dst, !.src = g.src, !.word = g.word] \in Token
  <2>1. \A t \in Token, g \in Shape :
           [t EXCEPT !.cls = g.cls, !.taken = g.taken, !.dst = g.dst, !.src = g.src,
                     !.word = g.word] \in Token
    BY DEF Token, Shape
  <2> SUFFICES ASSUME NEW t \in Token, NEW p \in PC, NEW n \in Id, NEW g \in Shape
               PROVE [t EXCEPT !.valid = TRUE, !.id = n, !.pc = p, !.cls = g.cls, !.taken = g.taken,
                 !.dst = g.dst, !.src = g.src, !.word = g.word] \in Token
    OBVIOUS
  <2> DEFINE u == [t EXCEPT !.valid = TRUE, !.id = n, !.pc = p]
  <2>2. [u EXCEPT !.cls = g.cls, !.taken = g.taken, !.dst = g.dst, !.src = g.src,
                     !.word = g.word] \in Token
    BY <1>2, <2>1
  <2> QED BY <2>2
<1>5. \A t \in Token, b \in BOOLEAN, r \in Reg \cup {NoReg}, n \in Id :
       [t EXCEPT !.trap = b, !.dst = r, !.res = n] \in Token
  BY DEF Token
<1>6. \A t \in Token, b, c \in BOOLEAN, r \in Reg \cup {NoReg}, m, n \in Id :
       [t EXCEPT !.trap = b, !.dst = r, !.opnd = m, !.res = n, !.hasRes = c] \in Token
  BY DEF Token
<1> QED BY <1>3, <1>4, <1>5, <1>6

LEMMA ClockTypeOK ==
  ASSUME TypeOK,
         NEW irq \in BOOLEAN, NEW ifReady \in BOOLEAN, NEW ifRsp \in BOOLEAN, NEW f \in Shape,
         NEW dmReady \in BOOLEAN, NEW dmRsp \in Answer, NEW divDone \in BOOLEAN,
         Cycle(irq, ifReady, ifRsp, f, dmReady, dmRsp, divDone)
  PROVE  TypeOK'
<1> USE DEF Cycle, Clock
<1>1. pc' \in PC /\ fetch_inflight_pc' \in PC /\ fetch_inflight' \in BOOLEAN /\ fetch_squash' \in BOOLEAN
  BY Wires, Constants, PipelineAssumption DEF PipelineAssumption, TypeOK, FetchEdge
<1>2. id' \in Token
  <2>1. IrqToken \in Token
    <3>1. (IF id.valid THEN id.pc ELSE pc) \in PC
      BY DEF TypeOK, Token
    <3> QED BY <3>1, Constants, FreshIsId, Retokened DEF IrqToken
  <2>2. FetchedToken(f) \in Token
    BY Constants, FreshIsId, Retokened DEF FetchedToken, TypeOK
  <2> QED BY <2>1, <2>2, Constants DEF IdEdge, TypeOK
<1>3. ex' \in Token
  <2>1. [id EXCEPT !.opnd = ReadRf(id.src)] \in Token
    BY Wires DEF TypeOK, Token
  <2> QED BY <2>1, Constants DEF ExEdge, TypeOK
<1>4. mem' \in Token
  <2>1. ExOut \in Token
    <3> DEFINE hit == ex.cls = "sc" /\ ex_sc_hit
               r == IF ex_trap THEN NoReg ELSE ex.dst
               m == IF ex.cls = "div" THEN div_result.opnd ELSE Forwarded
               n == IF ex.cls = "div" THEN div_result.id ELSE ex.id
               c == \/ ex.dst # NoReg /\ ex.cls \in {"alu", "div", "branch"}
                    \/ ex.cls = "sc" /\ ~hit
    <3>1. ex \in Token /\ ex_trap \in BOOLEAN /\ r \in Reg \cup {NoReg} /\ m \in Id /\ n \in Id /\ c \in BOOLEAN
      BY Wires DEF TypeOK, Token, ex_trap
    <3>2. ExOut = [ex EXCEPT !.trap = ex_trap, !.dst = r, !.opnd = m, !.res = n, !.hasRes = c]
      BY DEF ExOut
    <3> HIDE DEF r, m, n, c
    <3> QED BY <3>1, <3>2, Retokened
  <2> QED BY <2>1, Constants DEF MemEdge, TypeOK
<1>5. wb' \in Token
  <2>1. MemOut \in Token
    <3>1. ASSUME mem_has_bus_op, ~mem.hasRes PROVE MemOut \in Token
      <4> DEFINE r == IF mem_bus_fault THEN NoReg ELSE mem.dst
                 n == IF mem.cls = "sc" THEN mem.id ELSE mem_load_data
      <4>1. mem \in Token /\ mem_bus_fault \in BOOLEAN /\ r \in Reg \cup {NoReg} /\ n \in Id
        BY DEF TypeOK, Token
      <4>2. MemOut = [mem EXCEPT !.trap = mem_bus_fault, !.dst = r, !.res = n]
        BY <3>1 DEF MemOut
      <4> HIDE DEF r, n
      <4> QED BY <4>1, <4>2, Retokened
    <3>2. ASSUME ~(mem_has_bus_op /\ ~mem.hasRes) PROVE MemOut \in Token
      BY <3>2, Constants DEF MemOut, TypeOK, Token
    <3> QED BY <3>1, <3>2
  <2> QED BY <2>1, Constants DEF WbEdge, TypeOK
<1>6. trap_pending' \in BOOLEAN
  BY DEF TrapEdge, TypeOK, ex_trap
<1>7. /\ mem_ls_pending' \in BOOLEAN /\ mem_req_fired' \in BOOLEAN /\ mem_bus_fault' \in BOOLEAN
      /\ mem_amo_phase' \in 0..1 /\ mem_load_data' \in Id
  <2>1. /\ mem.valid \in BOOLEAN /\ mem'.valid \in BOOLEAN /\ mem'.hasRes \in BOOLEAN
        /\ mem.id \in Id /\ dmem.id \in Id
    BY <1>4 DEF TypeOK, Token
  <2>2. mem_ls_pending' \in BOOLEAN
    BY <2>1 DEF MemEdge, TypeOK, mem_busy
  <2>3. mem_req_fired' \in BOOLEAN
    BY DEF MemEdge, TypeOK
  <2>4. mem_bus_fault' \in BOOLEAN
    BY DEF MemEdge, TypeOK
  <2>5. mem_amo_phase' \in 0..1 /\ mem_load_data' \in Id
    BY <2>1, Constants DEF MemEdge, TypeOK
  <2> QED BY <2>2, <2>3, <2>4, <2>5
<1>8. resv' \in [valid : BOOLEAN, word : Word \cup {NoWord}] /\ dmem' \in [busy : BOOLEAN, id : Id]
  BY Constants DEF MemEdge, TypeOK, Token
<1>9. /\ div_busy' \in BOOLEAN /\ div_started' \in BOOLEAN /\ div_done_latched' \in BOOLEAN
      /\ div_result' \in [id : Id, opnd : Id]
  BY Wires, Constants DEF DivEdge, TypeOK, Token, div_start
<1>10. rf' \in [Reg -> Id] /\ lrLive' \in Word \cup {NoWord}
  BY Wires DEF ArchEdge
<1> QED BY <1>1, <1>2, <1>3, <1>4, <1>5, <1>6, <1>7, <1>8, <1>9, <1>10 DEF TypeOK

LEMMA StepTypeOK == TypeOK /\ [Next]_vars => TypeOK'
<1>1. ASSUME TypeOK, Next PROVE TypeOK'
  BY <1>1, NextIsClock, ClockTypeOK
<1>2. ASSUME TypeOK, UNCHANGED vars PROVE TypeOK'
  BY <1>2 DEF TypeOK, vars, fetchVars, stageVars, memVars, divVars, archVars
<1> QED BY <1>1, <1>2

(* Every register always holds a value of its type.                        *)
THEOREM TypeCorrect == Spec => []TypeOK
  BY InitTypeOK, StepTypeOK, PTL DEF Spec

-----------------------------------------------------------------------------
(* Two instructions are in neighbouring stages only behind a DIV: a fetch  *)
(* starts when decode empties and ends when it is still empty, and an      *)
(* instruction that may stall in MEM got there with EX empty.              *)
Apart ==
    /\ FetchFindsEmptyId
    /\ ex.valid /\ ex.cls # "div" => ~id.valid
    /\ ex.valid => ~(mem.valid /\ (mem_ls_pending \/ mem.cls = "satp"))

LEMMA InitApart == Init => Apart
  BY DEF Init, Apart, FetchFindsEmptyId, Bubble

(* What decode and execute do in a cycle, given Apart.                     *)
LEMMA Fronts ==
  ASSUME TypeOK, Apart,
         NEW irq \in BOOLEAN, NEW ifReady \in BOOLEAN, NEW ifRsp \in BOOLEAN, NEW f \in Shape,
         NEW dmReady \in BOOLEAN, NEW dmRsp \in Answer, NEW divDone \in BOOLEAN,
         Cycle(irq, ifReady, ifRsp, f, dmReady, dmRsp, divDone)
  PROVE  /\ ~Bubble.valid /\ IrqToken.valid /\ FetchedToken(f).valid
         /\ IrqToken.cls = "irq" /\ IrqToken.pc = IF id.valid THEN id.pc ELSE pc
         /\ FetchedToken(f).pc = fetch_inflight_pc
         /\ ifRsp => ~id.valid /\ SlotFree /\ ~allow_irq_inject(irq)
         /\ ex'.valid /\ ~stall_ex => /\ ~wb_redirect /\ id.valid /\ ~stall_id
                                      /\ ~allow_irq_inject(irq)
                                      /\ ex'.pc = id.pc /\ ex'.cls = id.cls
                                      /\ ~id'.valid
         /\ ExOut.cls = ex.cls /\ ExOut.pc = ex.pc /\ ExOut.valid = ex.valid
         /\ ExOut.taken = ex.taken /\ ExOut.trap = ex_trap
         /\ MemOut.cls = mem.cls /\ MemOut.pc = mem.pc /\ MemOut.valid = mem.valid
         /\ MemOut.taken = mem.taken /\ (mem.trap => MemOut.trap)
<1>1. Bubble \in Token /\ id \in Token /\ ex \in Token /\ mem \in Token
  BY Constants DEF TypeOK
<1>2. ~Bubble.valid
  BY DEF Bubble
<1>3. /\ IrqToken.valid /\ FetchedToken(f).valid
      /\ IrqToken.cls = "irq" /\ IrqToken.pc = IF id.valid THEN id.pc ELSE pc
      /\ FetchedToken(f).pc = fetch_inflight_pc
  BY <1>1 DEF IrqToken, FetchedToken, Token
<1>4. ifRsp => ~id.valid /\ SlotFree /\ ~allow_irq_inject(irq)
  BY DEF Cycle, Apart, FetchFindsEmptyId, SlotFree, allow_irq_inject
<1>5. ASSUME ex'.valid, ~stall_ex
      PROVE  /\ ~wb_redirect /\ id.valid /\ ~stall_id /\ ~allow_irq_inject(irq)
             /\ ex'.pc = id.pc /\ ex'.cls = id.cls /\ ~id'.valid
  <2>1. ~wb_redirect /\ ~id_will_bubble(irq) /\ ex' = [id EXCEPT !.opnd = ReadRf(id.src)]
    BY <1>2, <1>5 DEF Cycle, Clock, ExEdge
  <2>2. id.valid /\ ~stall_id /\ ~allow_irq_inject(irq)
    BY <2>1 DEF id_will_bubble
  <2>3. ~ifRsp
    BY <1>4, <2>2
  <2>4. id' = Bubble
    BY <2>1, <2>2, <2>3 DEF Cycle, Clock, IdEdge, SlotFree
  <2> QED BY <1>1, <1>2, <2>1, <2>2, <2>4 DEF Token
<1>6. /\ ExOut.cls = ex.cls /\ ExOut.pc = ex.pc /\ ExOut.valid = ex.valid
      /\ ExOut.taken = ex.taken /\ ExOut.trap = ex_trap
  BY <1>1 DEF ExOut, Token
<1>7. /\ MemOut.cls = mem.cls /\ MemOut.pc = mem.pc /\ MemOut.valid = mem.valid
      /\ MemOut.taken = mem.taken /\ (mem.trap => MemOut.trap)
  BY <1>1 DEF MemOut, Token, mem_has_bus_op
<1> QED BY <1>2, <1>3, <1>4, <1>5, <1>6, <1>7

LEMMA ClockApart ==
  ASSUME TypeOK, Apart,
         NEW irq \in BOOLEAN, NEW ifReady \in BOOLEAN, NEW ifRsp \in BOOLEAN, NEW f \in Shape,
         NEW dmReady \in BOOLEAN, NEW dmRsp \in Answer, NEW divDone \in BOOLEAN,
         Cycle(irq, ifReady, ifRsp, f, dmReady, dmRsp, divDone)
  PROVE  Apart'
<1>1. fetch_inflight' => ~id'.valid
  <2>1. ASSUME if_can_issue(irq), ifReady PROVE ~id'.valid
    <3>1. ~fetch_inflight /\ SlotFree /\ ~allow_irq_inject(irq) /\ ~ifRsp
      BY <2>1 DEF if_can_issue, Cycle
    <3> QED BY <3>1, Fronts DEF Cycle, Clock, IdEdge
  <2>2. ASSUME fetch_inflight, ~ifRsp PROVE ~id'.valid
    <3>1. ~id.valid /\ SlotFree /\ ~allow_irq_inject(irq)
      BY <2>2 DEF Apart, FetchFindsEmptyId, SlotFree, allow_irq_inject
    <3> QED BY <2>2, <3>1, Fronts DEF Cycle, Clock, IdEdge
  <2> QED BY <2>1, <2>2 DEF Cycle, Clock, FetchEdge
<1>2. ex'.valid /\ ex'.cls # "div" => ~id'.valid
  <2>1. CASE ~stall_ex
    BY <2>1, Fronts
  <2>2. CASE stall_ex
    <3> SUFFICES ASSUME ex'.valid, ex'.cls # "div" PROVE FALSE
      OBVIOUS
    <3>1. ex' = ex
      BY <2>2, Fronts DEF Cycle, Clock, ExEdge
    <3> QED BY <2>2, <3>1 DEF Apart, stall_ex, stall_mem, ex_div_stall, mem_busy,
                               mem_stall_for_ifetch_drain
  <2> QED BY <2>1, <2>2
<1>3. ex'.valid => ~(mem'.valid /\ (mem_ls_pending' \/ mem'.cls = "satp"))
  <2> SUFFICES ASSUME ex'.valid, mem'.valid PROVE ~mem_ls_pending' /\ mem'.cls # "satp"
    OBVIOUS
  <2>0. ~wb_redirect
    BY Fronts DEF Cycle, Clock, ExEdge
  <2>m. /\ mem' = IF wb_redirect THEN Bubble ELSE IF stall_mem THEN mem
                  ELSE IF stall_ex \/ ~ex.valid THEN Bubble ELSE ExOut
        /\ ~wb_redirect /\ ~stall_mem =>
               mem_ls_pending' = (mem'.valid /\ mem'.cls \in BusClass /\ ~mem'.hasRes)
    BY DEF Cycle, Clock, MemEdge
  <2>1. CASE stall_mem
    <3>1. stall_ex
      BY <2>1 DEF stall_ex
    <3>2. ex' = ex /\ mem' = mem /\ (mem_ls_pending' => mem_ls_pending)
      BY <2>0, <2>1, <3>1 DEF Cycle, Clock, ExEdge, MemEdge
    <3> QED BY <3>2 DEF Apart, TypeOK
  <2>2. CASE ~stall_mem /\ stall_ex
    BY <2>0, <2>2, <2>m, Fronts
  <2>3. CASE ~stall_mem /\ ~stall_ex
    <3>1. id.valid /\ mem' = ExOut /\ ex.valid
      BY <2>0, <2>3, <2>m, Fronts
    <3>2. ex.cls = "div"
      BY <3>1 DEF Apart
    <3>3. mem'.cls = "div"
      <4>1. ExOut.cls = ex.cls
        BY Fronts
      <4> QED BY <3>1, <3>2, <4>1
    <3> QED BY <2>0, <2>3, <2>m, <3>3 DEF BusClass
  <2> QED BY <2>1, <2>2, <2>3
<1> QED BY <1>1, <1>2, <1>3 DEF Apart, FetchFindsEmptyId

LEMMA StepApart == TypeOK /\ Apart /\ [Next]_vars => Apart'
<1>1. ASSUME TypeOK, Apart, Next PROVE Apart'
  BY <1>1, NextIsClock, ClockApart
<1>2. ASSUME Apart, UNCHANGED vars PROVE Apart'
  BY <1>2 DEF Apart, FetchFindsEmptyId, vars, fetchVars, stageVars, memVars
<1> QED BY <1>1, <1>2

THEOREM KeptApart == Spec => []Apart
  BY InitTypeOK, StepTypeOK, InitApart, StepApart, PTL DEF Spec

(* No fetch is ever answered into an occupied decode stage.                *)
THEOREM FetchesFindDecodeEmpty == Spec => []FetchFindsEmptyId
<1>1. Apart => FetchFindsEmptyId
  BY DEF Apart
<1> QED BY <1>1, KeptApart, PTL

(* No branch redirects with a younger instruction in decode.               *)
THEOREM BranchesAreAlone == Spec => []BranchIsAlone
<1>1. Apart => BranchIsAlone
  BY DEF Apart, BranchIsAlone, branch_redirect
<1> QED BY <1>1, KeptApart, PTL

(* Decode is free whenever a fetch may be answered or a branch redirects.  *)
THEOREM DecodeFree == Spec => []DecodeIsFree
<1>1. TypeOK /\ FetchFindsEmptyId /\ BranchIsAlone => DecodeIsFree
  BY DEF DecodeIsFree
<1> QED BY <1>1, TypeCorrect, FetchesFindDecodeEmpty, BranchesAreAlone, PTL

-----------------------------------------------------------------------------
(* Whose the bus and the divider are.  Only a DIV has an instruction right *)
(* behind it, and a DIV never redirects: so when write back does, MEM and  *)
(* EX were empty a cycle before, and hold nothing that has begun.          *)
Behind ==
    /\ ex.valid /\ mem.valid => mem.cls = "div"
    /\ mem.valid /\ mem.cls = "div" => ~mem.trap

BusHeld ==
    /\ dmem.busy => mem.valid /\ mem_ls_pending /\ mem_req_fired /\ mem.id = dmem.id
    /\ wb_redirect => ~(mem.valid /\ mem_ls_pending)

DividerHeld ==
    /\ DividerOwned
    /\ ~(div_busy /\ div_done_latched)
    /\ wb_redirect => ~div_busy /\ ~div_done_latched

Owned == Behind /\ BusHeld /\ DividerHeld

LEMMA InitOwned == Init => Owned
  BY DEF Init, Owned, Behind, BusHeld, DividerHeld, DividerOwned, wb_redirect, Bubble

(* What reaches write back and redirects left EX empty behind it.          *)
LEMMA RedirectsAlone ==
  ASSUME TypeOK, Apart, Owned,
         NEW irq \in BOOLEAN, NEW ifReady \in BOOLEAN, NEW ifRsp \in BOOLEAN, NEW f \in Shape,
         NEW dmReady \in BOOLEAN, NEW dmRsp \in Answer, NEW divDone \in BOOLEAN,
         Cycle(irq, ifReady, ifRsp, f, dmReady, dmRsp, divDone), wb_redirect'
  PROVE  ~wb_redirect /\ ~stall_mem /\ mem.valid /\ ~ex.valid
<1>1. wb' = IF wb_redirect \/ ~mem.valid \/ stall_mem THEN Bubble ELSE MemOut
  BY DEF Cycle, Clock, WbEdge
<1>2. wb'.valid /\ (wb'.trap \/ wb'.cls \in {"ret", "fencei", "satp"})
  BY DEF wb_redirect
<1>3. ~wb_redirect /\ ~stall_mem /\ mem.valid /\ wb' = MemOut
  BY <1>1, <1>2, Fronts
<1>4. MemOut.cls = mem.cls /\ (mem.cls = "div" => MemOut.trap = mem.trap)
  BY DEF TypeOK, Token, MemOut, mem_has_bus_op, BusClass
<1>5. ASSUME ex.valid PROVE FALSE
  BY <1>2, <1>3, <1>4, <1>5 DEF Owned, Behind
<1> QED BY <1>3, <1>5

LEMMA ClockBehind ==
  ASSUME TypeOK, Apart, Owned,
         NEW irq \in BOOLEAN, NEW ifReady \in BOOLEAN, NEW ifRsp \in BOOLEAN, NEW f \in Shape,
         NEW dmReady \in BOOLEAN, NEW dmRsp \in Answer, NEW divDone \in BOOLEAN,
         Cycle(irq, ifReady, ifRsp, f, dmReady, dmRsp, divDone)
  PROVE  Behind'
<1>1. mem' = IF wb_redirect THEN Bubble ELSE IF stall_mem THEN mem
             ELSE IF stall_ex \/ ~ex.valid THEN Bubble ELSE ExOut
  BY DEF Cycle, Clock, MemEdge
<1>2. ~Bubble.valid /\ ExOut.cls = ex.cls /\ ExOut.trap = ex_trap /\ (stall_mem => stall_ex)
  BY Fronts DEF stall_ex
<1>3. ex.cls = "div" => ~ex_trap
  BY DEF ex_trap, TrapClass
<1>4. ex' = IF wb_redirect THEN Bubble ELSE IF stall_ex THEN ex ELSE ex'
  BY DEF Cycle, Clock, ExEdge
<1>5. ex'.valid /\ ~stall_ex => id.valid
  BY Fronts
<1>6. ex'.valid /\ mem'.valid => mem'.cls = "div"
  BY <1>1, <1>2, <1>4, <1>5 DEF Owned, Behind, Apart
<1>7. mem'.valid /\ mem'.cls = "div" => ~mem'.trap
  BY <1>1, <1>2, <1>3 DEF Owned, Behind
<1> QED BY <1>6, <1>7 DEF Behind

LEMMA ClockBusHeld ==
  ASSUME TypeOK, Apart, Owned,
         NEW irq \in BOOLEAN, NEW ifReady \in BOOLEAN, NEW ifRsp \in BOOLEAN, NEW f \in Shape,
         NEW dmReady \in BOOLEAN, NEW dmRsp \in Answer, NEW divDone \in BOOLEAN,
         Cycle(irq, ifReady, ifRsp, f, dmReady, dmRsp, divDone)
  PROVE  BusHeld'
<1>1. /\ dmReady => mem.valid /\ mem_ls_pending
      /\ dmRsp # "none" => dmReady \/ dmem.busy
  BY DEF Cycle, dmem_req_valid, mem_has_bus_op
<1>2. dmem' = IF dmRsp # "none" THEN [busy |-> FALSE, id |-> 0]
              ELSE IF dmReady THEN [busy |-> TRUE, id |-> mem.id] ELSE dmem
  BY DEF Cycle, Clock, MemEdge
<1>3. dmem'.busy => /\ dmRsp = "none" /\ mem.valid /\ mem_ls_pending /\ dmem'.id = mem.id
                    /\ mem_req_fired \/ dmReady
  BY <1>1, <1>2 DEF Owned, BusHeld
<1>4. ASSUME dmem'.busy PROVE mem' = mem /\ mem_ls_pending' /\ mem_req_fired'
  <2>1. ~wb_redirect /\ stall_mem /\ mem_busy
    BY <1>3, <1>4 DEF Owned, BusHeld, stall_mem, mem_busy
  <2>2. mem' = mem /\ mem_ls_pending'
    BY <1>3, <1>4, <2>1 DEF Cycle, Clock, MemEdge
  <2>3. mem_req_fired' = (mem_req_fired \/ dmReady)
    BY <1>3, <1>4, <2>1 DEF Cycle, Clock, MemEdge
  <2> QED BY <1>3, <1>4, <2>2, <2>3
<1>5. wb_redirect' => ~mem'.valid
  <2>1. ~Bubble.valid
    BY DEF Bubble
  <2>2. mem' = IF wb_redirect THEN Bubble ELSE IF stall_mem THEN mem
               ELSE IF stall_ex \/ ~ex.valid THEN Bubble ELSE ExOut
    BY DEF Cycle, Clock, MemEdge
  <2>3. wb_redirect' => ~wb_redirect /\ ~stall_mem /\ ~ex.valid
    BY RedirectsAlone
  <2> QED BY <2>1, <2>2, <2>3
<1> QED BY <1>3, <1>4, <1>5 DEF BusHeld

LEMMA ClockDividerHeld ==
  ASSUME TypeOK, Apart, Owned,
         NEW irq \in BOOLEAN, NEW ifReady \in BOOLEAN, NEW ifRsp \in BOOLEAN, NEW f \in Shape,
         NEW dmReady \in BOOLEAN, NEW dmRsp \in Answer, NEW divDone \in BOOLEAN,
         Cycle(irq, ifReady, ifRsp, f, dmReady, dmRsp, divDone)
  PROVE  DividerHeld'
<1>1. divDone => div_busy
  BY DEF Cycle
<1>2. div_busy' \/ div_done_latched' => div_busy \/ div_done_latched \/ div_start
  BY <1>1 DEF Cycle, Clock, DivEdge
<1>3. div_start => ~wb_redirect /\ ex.valid /\ ex.cls = "div" /\ ~div_busy /\ ~div_done_latched
  BY DEF div_start, Owned, DividerHeld, DividerOwned
<1>4. div_busy \/ div_done_latched => ~wb_redirect /\ ex.valid /\ ex.cls = "div"
  BY DEF Owned, DividerHeld, DividerOwned
<1>5. ~(div_busy' /\ div_done_latched')
  BY <1>1, <1>3 DEF Cycle, Clock, DivEdge, Owned, DividerHeld
<1>6. wb_redirect' => ~div_busy' /\ ~div_done_latched'
  BY <1>2, <1>3, <1>4, RedirectsAlone
<1>7. ASSUME div_busy' \/ div_done_latched'
      PROVE  ex'.valid /\ ex'.cls = "div" /\ div_started' /\ div_result'.id = ex'.id
  <2>1. ~wb_redirect /\ ex.valid /\ ex.cls = "div"
    BY <1>2, <1>3, <1>4, <1>7
  <2>2. stall_ex
    <3>1. CASE ~div_done_latched
      BY <2>1, <3>1 DEF stall_ex, ex_div_stall
    <3>2. CASE div_done_latched
      <4>1. ~div_busy /\ ~div_start
        BY <3>2 DEF div_start, Owned, DividerHeld
      <4>2. div_done_latched'
        BY <1>7, <4>1 DEF Cycle, Clock, DivEdge
      <4> QED BY <2>1, <3>2, <4>2 DEF Cycle, Clock, DivEdge
    <3> QED BY <3>1, <3>2
  <2>3. ex' = ex
    BY <2>1, <2>2 DEF Cycle, Clock, ExEdge
  <2>4. div_started'
    BY <1>2, <1>7, <2>1, <2>2 DEF Cycle, Clock, DivEdge, Owned, DividerHeld, DividerOwned
  <2>5. div_result'.id = ex.id
    <3>1. CASE div_start
      BY <1>3, <3>1 DEF Cycle, Clock, DivEdge
    <3>2. CASE ~div_start
      BY <1>2, <1>7, <3>2 DEF Cycle, Clock, DivEdge, Owned, DividerHeld, DividerOwned
    <3> QED BY <3>1, <3>2
  <2> QED BY <2>1, <2>3, <2>4, <2>5
<1> QED BY <1>5, <1>6, <1>7 DEF DividerHeld, DividerOwned

LEMMA StepOwned == TypeOK /\ Apart /\ Owned /\ [Next]_vars => Owned'
<1>1. ASSUME TypeOK, Apart, Owned, Next PROVE Owned'
  BY <1>1, NextIsClock, ClockBehind, ClockBusHeld, ClockDividerHeld DEF Owned
<1>2. ASSUME Owned, UNCHANGED vars PROVE Owned'
  BY <1>2 DEF Owned, Behind, BusHeld, DividerHeld, DividerOwned, wb_redirect, vars, stageVars,
              memVars, divVars
<1> QED BY <1>1, <1>2

(* An access on the bus is that of the instruction in MEM and a division   *)
(* that of the one in EX, and none is under way when write back flushes    *)
(* them: for every program and every pace of the bus and the divider.      *)
THEOREM ResultsAreOwned == Spec => []ResultsOwned
<1>1. Owned => ResultsOwned
  BY DEF Owned, BusHeld, DividerHeld, ResultsOwned, AccessOwned, mem_busy, dmem_req_valid,
         mem_has_bus_op
<1> QED BY <1>1, InitTypeOK, StepTypeOK, InitApart, StepApart, InitOwned, StepOwned, PTL DEF Spec

-----------------------------------------------------------------------------
(* Program order.  Each instruction of the pipeline is followed by the one *)
(* its own address leads to, unless it is one that never completes (Fol);  *)
(* a branch is followed by the next address until it leaves EX.            *)
Fol(t)  == t.cls \notin TrapClass
Succ(t) == IF t.cls = "branch" /\ t.taken THEN BranchTarget ELSE Next4(t.pc)

FetchHead == IF fetch_inflight /\ ~fetch_squash THEN fetch_inflight_pc ELSE pc
AfterEx   == IF id.valid THEN id.pc ELSE FetchHead
AfterMem  == IF ex.valid THEN ex.pc ELSE AfterEx
AfterWb   == IF mem.valid THEN mem.pc ELSE AfterMem

Order ==
    /\ fetch_inflight /\ ~fetch_squash => pc = Next4(fetch_inflight_pc)
    /\ id.valid /\ Fol(id) => FetchHead = Next4(id.pc)
    /\ ex.valid /\ Fol(ex) => AfterEx = Next4(ex.pc)
    /\ mem.valid /\ Fol(mem) => AfterMem = Succ(mem)
    /\ wb.valid /\ ~wb_redirect => AfterWb = Succ(wb)
    /\ mem.valid /\ ~Fol(mem) => mem.trap
    /\ wb.valid /\ ~Fol(wb) => wb.trap

LEMMA InitOrder == Init => Order
  BY DEF Init, Order, Bubble

(* The front of the pipeline in a cycle without a flush.                   *)
LEMMA FrontMoves ==
  ASSUME TypeOK, Apart, Order, ~wb_redirect, ~branch_redirect,
         NEW irq \in BOOLEAN, NEW ifReady \in BOOLEAN, NEW ifRsp \in BOOLEAN, NEW f \in Shape,
         NEW dmReady \in BOOLEAN, NEW dmRsp \in Answer, NEW divDone \in BOOLEAN,
         Cycle(irq, ifReady, ifRsp, f, dmReady, dmRsp, divDone)
  PROVE  /\ fetch_inflight' /\ ~fetch_squash' => pc' = Next4(fetch_inflight_pc')
         /\ id'.valid /\ Fol(id)' => FetchHead' = Next4(id'.pc)
         /\ ex'.valid /\ ~stall_ex => AfterEx' = FetchHead /\ ex'.pc = AfterEx
         /\ ~(ex'.valid /\ ~stall_ex) => AfterEx' = AfterEx
<1>1. ~(ifRsp /\ ~fetch_squash) => FetchHead' = FetchHead
  BY DEF Cycle, Clock, FetchEdge, FetchHead, if_can_issue, TypeOK
<1>2. ifRsp /\ ~fetch_squash =>
        FetchHead = fetch_inflight_pc /\ FetchHead' = pc /\ pc = Next4(fetch_inflight_pc)
  BY DEF Cycle, Clock, FetchEdge, FetchHead, if_can_issue, TypeOK, Order
<1>3. fetch_inflight' /\ ~fetch_squash' => pc' = Next4(fetch_inflight_pc')
  BY DEF Cycle, Clock, FetchEdge, if_can_issue, TypeOK, Order
<1>4. id' = IF ~SlotFree THEN id
            ELSE IF allow_irq_inject(irq) THEN IrqToken
            ELSE IF ifRsp /\ ~fetch_squash THEN FetchedToken(f)
            ELSE Bubble
  BY DEF Cycle, Clock, IdEdge
<1>5. /\ ~Bubble.valid /\ IrqToken.valid /\ FetchedToken(f).valid
      /\ IrqToken.cls = "irq" /\ IrqToken.pc = IF id.valid THEN id.pc ELSE pc
      /\ FetchedToken(f).pc = fetch_inflight_pc
      /\ ifRsp => ~id.valid /\ SlotFree /\ ~allow_irq_inject(irq)
  BY Fronts
<1>6. ex'.valid /\ ~stall_ex => /\ id.valid /\ ex'.pc = id.pc /\ ~id'.valid
  BY Fronts
<1>7. id'.valid /\ Fol(id)' => FetchHead' = Next4(id'.pc)
  <2> SUFFICES ASSUME id'.valid, Fol(id)' PROVE FetchHead' = Next4(id'.pc)
    OBVIOUS
  <2>1. CASE ~SlotFree
    <3>1. id' = id /\ id.valid /\ ~ifRsp
      BY <2>1, <1>4, <1>5 DEF SlotFree
    <3> QED BY <3>1, <1>1 DEF Order, Fol
  <2>2. CASE SlotFree /\ allow_irq_inject(irq)
    BY <2>2, <1>4, <1>5 DEF Fol, TrapClass
  <2>3. CASE SlotFree /\ ~allow_irq_inject(irq)
    BY <2>3, <1>2, <1>4, <1>5
  <2> QED BY <2>1, <2>2, <2>3
<1>8. ex'.valid /\ ~stall_ex => AfterEx' = FetchHead /\ ex'.pc = AfterEx
  BY <1>1, <1>5, <1>6 DEF AfterEx
<1>9. ASSUME ~(ex'.valid /\ ~stall_ex) PROVE AfterEx' = AfterEx
  <2>1. CASE ~SlotFree
    <3>1. id' = id /\ id.valid
      BY <2>1, <1>4 DEF SlotFree
    <3> QED BY <3>1 DEF AfterEx
  <2>2. CASE SlotFree /\ allow_irq_inject(irq)
    <3>1. id' = IrqToken /\ ~fetch_inflight
      BY <2>2, <1>4 DEF allow_irq_inject
    <3> QED BY <3>1, <1>5 DEF AfterEx, FetchHead
  <2>3. CASE SlotFree /\ ~allow_irq_inject(irq) /\ id.valid
    <3>1. ~stall_id /\ ~stall_ex
      BY <2>3 DEF SlotFree, stall_id
    <3>2. ex' = [id EXCEPT !.opnd = ReadRf(id.src)]
      BY <2>3, <3>1 DEF Cycle, Clock, ExEdge, id_will_bubble
    <3>3. ex'.valid
      BY <2>3, <3>2 DEF TypeOK, Token
    <3> QED BY <3>1, <3>3, <1>9
  <2>4. CASE SlotFree /\ ~allow_irq_inject(irq) /\ ~id.valid
    BY <2>4, <1>1, <1>2, <1>4, <1>5 DEF AfterEx
  <2> QED BY <2>1, <2>2, <2>3, <2>4
<1> QED BY <1>3, <1>7, <1>8, <1>9

(* A taken branch leaves EX alone, and fetch goes on at its target.        *)
LEMMA BranchMoves ==
  ASSUME TypeOK, Apart, ~wb_redirect, branch_redirect,
         NEW irq \in BOOLEAN, NEW ifReady \in BOOLEAN, NEW ifRsp \in BOOLEAN, NEW f \in Shape,
         NEW dmReady \in BOOLEAN, NEW dmRsp \in Answer, NEW divDone \in BOOLEAN,
         Cycle(irq, ifReady, ifRsp, f, dmReady, dmRsp, divDone)
  PROVE  /\ ~id'.valid /\ ~ex'.valid /\ FetchHead' = BranchTarget
         /\ ~(fetch_inflight' /\ ~fetch_squash')
<1>1. ~id.valid /\ ~stall_ex /\ ~Bubble.valid
  BY DEF Apart, branch_redirect, Bubble
<1>2. ~id'.valid /\ ~ex'.valid
  BY <1>1 DEF Cycle, Clock, IdEdge, ExEdge, id_will_bubble
<1>3. pc' = BranchTarget /\ ~(fetch_inflight' /\ ~fetch_squash')
  BY DEF Cycle, Clock, FetchEdge, if_can_issue, TypeOK
<1> QED BY <1>2, <1>3 DEF FetchHead

(* Write back flushes everything, and fetch goes on where it says.         *)
LEMMA FlushMoves ==
  ASSUME TypeOK, wb_redirect,
         NEW irq \in BOOLEAN, NEW ifReady \in BOOLEAN, NEW ifRsp \in BOOLEAN, NEW f \in Shape,
         NEW dmReady \in BOOLEAN, NEW dmRsp \in Answer, NEW divDone \in BOOLEAN,
         Cycle(irq, ifReady, ifRsp, f, dmReady, dmRsp, divDone)
  PROVE  /\ ~id'.valid /\ ~ex'.valid /\ ~mem'.valid /\ ~wb'.valid
         /\ ~(fetch_inflight' /\ ~fetch_squash')
         /\ FetchHead' = wb_redirect_pc
<1>1. ~id'.valid /\ ~ex'.valid /\ ~mem'.valid /\ ~wb'.valid
  BY DEF Cycle, Clock, IdEdge, ExEdge, MemEdge, WbEdge, Bubble
<1>2. pc' = wb_redirect_pc /\ ~(fetch_inflight' /\ ~fetch_squash')
  BY DEF Cycle, Clock, FetchEdge, if_can_issue, TypeOK
<1> QED BY <1>1, <1>2 DEF FetchHead

(* The stages behind EX in a cycle without a flush from write back.        *)
LEMMA BackMoves ==
  ASSUME TypeOK, Apart, Order, ~wb_redirect,
         NEW irq \in BOOLEAN, NEW ifReady \in BOOLEAN, NEW ifRsp \in BOOLEAN, NEW f \in Shape,
         NEW dmReady \in BOOLEAN, NEW dmRsp \in Answer, NEW divDone \in BOOLEAN,
         Cycle(irq, ifReady, ifRsp, f, dmReady, dmRsp, divDone)
  PROVE  /\ ex'.valid /\ Fol(ex)' => AfterEx' = Next4(ex'.pc)
         /\ mem'.valid /\ Fol(mem)' => AfterMem' = Succ(mem)'
         /\ mem'.valid /\ ~Fol(mem)' => mem'.trap
         /\ IF mem.valid /\ ~stall_mem THEN wb' = MemOut /\ AfterWb' = AfterMem
            ELSE ~wb'.valid /\ AfterWb' = AfterWb
<1>1. /\ stall_mem => stall_ex
      /\ stall_ex => ~branch_redirect
  BY DEF stall_ex, branch_redirect
<1>2. /\ stall_ex => ex' = ex
      /\ mem' = IF stall_mem THEN mem ELSE IF stall_ex \/ ~ex.valid THEN Bubble ELSE ExOut
      /\ wb' = IF ~mem.valid \/ stall_mem THEN Bubble ELSE MemOut
  BY DEF Cycle, Clock, ExEdge, MemEdge, WbEdge
<1>3. /\ ~Bubble.valid
      /\ ExOut.cls = ex.cls /\ ExOut.pc = ex.pc /\ ExOut.valid = ex.valid
      /\ ExOut.taken = ex.taken /\ ExOut.trap = ex_trap
      /\ ex'.valid /\ ~stall_ex => id.valid /\ ex'.pc = id.pc /\ ex'.cls = id.cls
  BY Fronts
<1>4. ~branch_redirect =>
        /\ ex'.valid /\ ~stall_ex => AfterEx' = FetchHead /\ ex'.pc = AfterEx
        /\ ~(ex'.valid /\ ~stall_ex) => AfterEx' = AfterEx
  BY FrontMoves
<1>5. branch_redirect => ~id'.valid /\ ~ex'.valid /\ FetchHead' = BranchTarget
  BY BranchMoves
(* What follows MEM's next content: EX's, as it is, or what follows it.    *)
<1>6. ~branch_redirect => AfterMem' = IF stall_ex THEN AfterMem ELSE AfterEx
  <2>1. CASE stall_ex
    BY <2>1, <1>1, <1>2, <1>4 DEF AfterMem
  <2>2. CASE ~stall_ex
    BY <2>2, <1>4 DEF AfterMem
  <2> QED BY <2>1, <2>2
<1>7. branch_redirect => AfterMem' = BranchTarget
  BY <1>5 DEF AfterMem, AfterEx
<1>8. ex'.valid /\ Fol(ex)' => AfterEx' = Next4(ex'.pc)
  <2> SUFFICES ASSUME ex'.valid, Fol(ex)' PROVE AfterEx' = Next4(ex'.pc)
    OBVIOUS
  <2>1. ~branch_redirect
    BY <1>5
  <2>2. CASE stall_ex
    BY <2>1, <2>2, <1>2, <1>4 DEF Order, Fol
  <2>3. CASE ~stall_ex
    <3>1. FetchHead = Next4(id.pc)
      BY <2>3, <1>3 DEF Order, Fol
    <3> QED BY <2>1, <2>3, <3>1, <1>3, <1>4
  <2> QED BY <2>2, <2>3
<1>9. mem'.valid /\ Fol(mem)' => AfterMem' = Succ(mem)'
  <2> SUFFICES ASSUME mem'.valid, Fol(mem)' PROVE AfterMem' = Succ(mem)'
    OBVIOUS
  <2>1. CASE stall_mem
    <3>1. mem' = mem /\ AfterMem' = AfterMem
      BY <2>1, <1>1, <1>2, <1>6
    <3> QED BY <3>1 DEF Order, Fol, Succ
  <2>2. CASE ~stall_mem
    <3>1. mem' = ExOut /\ ex.valid /\ ~stall_ex
      BY <2>2, <1>2, <1>3
    <3>2. mem'.cls = ex.cls /\ mem'.pc = ex.pc /\ mem'.taken = ex.taken
      BY <3>1, <1>3
    <3>3. AfterEx = Next4(ex.pc)
      BY <3>1, <3>2 DEF Order, Fol
    <3>4. CASE branch_redirect
      BY <3>2, <3>4, <1>7 DEF Succ, branch_redirect
    <3>5. CASE ~branch_redirect
      BY <3>1, <3>2, <3>3, <3>5, <1>6 DEF Succ, branch_redirect
    <3> QED BY <3>4, <3>5
  <2> QED BY <2>1, <2>2
<1>10. mem'.valid /\ ~Fol(mem)' => mem'.trap
  <2>1. CASE stall_mem
    BY <2>1, <1>2 DEF Order, Fol
  <2>2. CASE ~stall_mem
    <3> SUFFICES ASSUME mem'.valid, ~Fol(mem)' PROVE mem'.trap
      OBVIOUS
    <3>1. mem' = ExOut /\ ex.valid
      BY <2>2, <1>2, <1>3
    <3>2. mem'.cls = ex.cls /\ mem'.trap = ex_trap
      BY <3>1, <1>3
    <3> QED BY <3>1, <3>2 DEF Fol, ex_trap
  <2> QED BY <2>1, <2>2
<1>11. CASE mem.valid /\ ~stall_mem
  <2>1. wb' = MemOut
    BY <1>2, <1>11
  <2>2. AfterWb' = AfterMem
    <3>1. CASE ex.valid /\ ~stall_ex
      BY <3>1, <1>2, <1>3, <1>11 DEF AfterWb, AfterMem
    <3>2. CASE stall_ex
      BY <3>2, <1>1, <1>2, <1>3, <1>6, <1>11 DEF AfterWb
    <3>3. CASE ~ex.valid /\ ~stall_ex
      <4>1. ~branch_redirect
        BY <3>3 DEF branch_redirect
      <4> QED BY <3>3, <4>1, <1>2, <1>3, <1>6, <1>11 DEF AfterWb, AfterMem
    <3> QED BY <3>1, <3>2, <3>3
  <2> QED BY <2>1, <2>2, <1>8, <1>9, <1>10, <1>11
<1>12. CASE ~(mem.valid /\ ~stall_mem)
  <2>1. ~wb'.valid
    BY <1>2, <1>3, <1>12
  <2>2. AfterWb' = AfterWb
    <3>1. CASE mem.valid /\ stall_mem
      BY <3>1, <1>2 DEF AfterWb
    <3>2. CASE ~mem.valid /\ stall_mem
      BY <3>2 DEF stall_mem, mem_busy, mem_stall_for_ifetch_drain
    <3>3. CASE ~mem.valid /\ ~stall_mem /\ stall_ex
      BY <3>3, <1>1, <1>2, <1>3, <1>6 DEF AfterWb
    <3>4. CASE ~mem.valid /\ ~stall_ex /\ ex.valid
      BY <3>4, <1>1, <1>2, <1>3 DEF AfterWb, AfterMem
    <3>5. CASE ~mem.valid /\ ~stall_ex /\ ~ex.valid
      <4>1. ~branch_redirect
        BY <3>5 DEF branch_redirect
      <4> QED BY <3>5, <4>1, <1>1, <1>2, <1>3, <1>6 DEF AfterWb, AfterMem
    <3> QED BY <3>1, <3>2, <3>3, <3>4, <3>5, <1>12
  <2> QED BY <2>1, <2>2, <1>8, <1>9, <1>10, <1>12
<1> QED BY <1>11, <1>12

LEMMA ClockOrder ==
  ASSUME TypeOK, Apart, Order,
         NEW irq \in BOOLEAN, NEW ifReady \in BOOLEAN, NEW ifRsp \in BOOLEAN, NEW f \in Shape,
         NEW dmReady \in BOOLEAN, NEW dmRsp \in Answer, NEW divDone \in BOOLEAN,
         Cycle(irq, ifReady, ifRsp, f, dmReady, dmRsp, divDone)
  PROVE  /\ Order'
         /\ IF wb'.valid THEN wb'.pc = NextToCommit ELSE NextToCommit' = NextToCommit
<1>1. NextToCommit = IF wb.valid THEN Target(wb) ELSE AfterWb
  BY DEF NextToCommit, AfterWb, AfterMem, AfterEx, FetchHead
<1>2. NextToCommit' = IF wb'.valid THEN Target(wb)' ELSE AfterWb'
  BY DEF NextToCommit, AfterWb, AfterMem, AfterEx, FetchHead
<1>3. CASE wb_redirect
  <2>1. /\ ~id'.valid /\ ~ex'.valid /\ ~mem'.valid /\ ~wb'.valid
        /\ ~(fetch_inflight' /\ ~fetch_squash')
        /\ FetchHead' = wb_redirect_pc
    BY <1>3, FlushMoves
  <2>2. wb.valid /\ Target(wb) = wb_redirect_pc
    BY <1>3 DEF wb_redirect, wb_redirect_pc, Target
  <2>3. AfterWb' = wb_redirect_pc
    BY <2>1 DEF AfterWb, AfterMem, AfterEx
  <2>4. Order'
    BY <2>1 DEF Order
  <2> QED BY <1>1, <1>2, <2>1, <2>2, <2>3, <2>4
<1>4. CASE ~wb_redirect
  <2>1. /\ ex'.valid /\ Fol(ex)' => AfterEx' = Next4(ex'.pc)
        /\ mem'.valid /\ Fol(mem)' => AfterMem' = Succ(mem)'
        /\ mem'.valid /\ ~Fol(mem)' => mem'.trap
    BY <1>4, BackMoves
  <2>2. IF mem.valid /\ ~stall_mem THEN wb' = MemOut /\ AfterWb' = AfterMem
        ELSE ~wb'.valid /\ AfterWb' = AfterWb
    BY <1>4, BackMoves
  <2>3. /\ fetch_inflight' /\ ~fetch_squash' => pc' = Next4(fetch_inflight_pc')
        /\ id'.valid /\ Fol(id)' => FetchHead' = Next4(id'.pc)
    <3>1. CASE branch_redirect
      BY <1>4, <3>1, BranchMoves
    <3>2. CASE ~branch_redirect
      BY <1>4, <3>2, FrontMoves
    <3> QED BY <3>1, <3>2
  <2>4. /\ MemOut.cls = mem.cls /\ MemOut.pc = mem.pc /\ MemOut.valid = mem.valid
        /\ MemOut.taken = mem.taken /\ (mem.trap => MemOut.trap)
    BY Fronts
  <2>5. wb'.valid /\ ~Fol(wb)' => wb'.trap
    BY <2>2, <2>4 DEF Order, Fol
  <2>6. wb'.valid /\ ~wb_redirect' => AfterWb' = Succ(wb)'
    <3> SUFFICES ASSUME wb'.valid, ~wb_redirect' PROVE AfterWb' = Succ(wb)'
      OBVIOUS
    <3>1. mem.valid /\ wb' = MemOut /\ AfterWb' = AfterMem
      BY <2>2
    <3>2. ~wb'.trap
      BY DEF wb_redirect
    <3>3. Fol(mem)
      BY <2>4, <2>5, <3>1, <3>2 DEF Fol
    <3> QED BY <2>4, <3>1, <3>3 DEF Order, Succ
  <2>7. Order'
    BY <2>1, <2>3, <2>5, <2>6 DEF Order
  <2>8. wb.valid => Target(wb) = AfterWb
    BY <1>4 DEF Order, Target, Succ, wb_redirect
  <2>9. CASE mem.valid /\ ~stall_mem
    BY <1>1, <2>2, <2>4, <2>7, <2>8, <2>9 DEF AfterWb
  <2>10. CASE ~(mem.valid /\ ~stall_mem)
    BY <1>1, <1>2, <2>2, <2>7, <2>8, <2>10
  <2> QED BY <2>9, <2>10
<1> QED BY <1>3, <1>4

(* The inductive invariant behind the program order.                       *)
IInv == TypeOK /\ Apart /\ Order

Committed == IF wb'.valid THEN wb'.pc = NextToCommit ELSE NextToCommit' = NextToCommit

LEMMA StepIInv == IInv /\ [Next]_vars => IInv' /\ [Committed]_vars
<1>1. ASSUME IInv, Next PROVE Order' /\ Committed
  BY <1>1, NextIsClock, ClockOrder DEF IInv, Committed
<1>2. ASSUME IInv, UNCHANGED vars PROVE Order'
  BY <1>2 DEF IInv, Order, Fol, Succ, AfterEx, AfterMem, AfterWb, FetchHead, wb_redirect,
              vars, fetchVars, stageVars
<1> QED BY <1>1, <1>2, StepTypeOK, StepApart DEF IInv

THEOREM Inductive == Spec => []IInv
<1>1. Init => IInv
  BY InitTypeOK, InitApart, InitOrder DEF IInv
<1> QED BY <1>1, StepIInv, PTL DEF Spec

(* What commits is what program order says comes next, and nothing but a   *)
(* commit changes what comes next.                                         *)
THEOREM ProgramOrder == Spec => CommitsInOrder
<1>1. IInv /\ [Next]_vars =>
        [IF wb'.valid THEN wb'.pc = NextToCommit ELSE NextToCommit' = NextToCommit]_vars
  BY StepIInv DEF Committed
<1> QED BY <1>1, Inductive, PTL DEF Spec, CommitsInOrder
-----------------------------------------------------------------------------
(* The pipeline as an implementation of Isa.  Beyond program order: what   *)
(* an instruction carries is its own result, the operand it was given is   *)
(* what the older ones leave in its register, and the reservation an SC    *)
(* meets is the committed one, since LR, SC and AMO have the pipeline to   *)
(* themselves.                                                             *)

\* A serializing instruction shares EX, MEM and WB with no other.
Serial(t) == t.valid /\ t.cls \in SerialClass

Alone ==
    /\ Serial(ex) => ~mem.valid /\ ~wb.valid
    /\ Serial(mem) => ~ex.valid /\ ~wb.valid
    /\ Serial(wb) => ~ex.valid /\ ~mem.valid

\* What MEM carries is the number of its instruction, and so is what the bus
\* has answered it; only a trap of its own has come with it from EX.
Results ==
    /\ mem.valid => mem.res = mem.id
    /\ mem_has_bus_op /\ ~mem.hasRes /\ (~mem_ls_pending \/ mem_amo_phase = 1) =>
           mem_load_data = mem.id
    /\ mem.valid /\ mem.trap => mem.cls \in TrapClass

\* What the register r holds for the instruction in EX, once MEM is through.
Given(r) == IF mem.valid /\ mem.dst = r THEN mem.id ELSE RfAfterWb[r]

\* EX has its operand to forward until a division has taken it, and then the
\* divider has it; MEM carries what the register holds.
Operands ==
    /\ div_started => ex.valid /\ ex.cls = "div" /\ (div_busy \/ div_done_latched)
    /\ ex.valid /\ ~wb_redirect /\ ex.src # NoReg =>
           (IF div_started THEN div_result.opnd ELSE Forwarded) = Given(ex.src)
    /\ mem.valid /\ ~wb_redirect /\ mem.src # NoReg => mem.opnd = RfAfterWb[mem.src]

Reserves(w) == IF w = NoWord THEN [valid |-> FALSE, word |-> NoWord] ELSE [valid |-> TRUE, word |-> w]

\* The reservation is the committed one, but for an LR that has its answer, and
\* an SC in MEM has found it.
Reservation ==
    /\ \A t \in {id, ex, mem} : t.valid /\ t.cls \in {"lr", "sc"} => t.word # NoWord
    /\ mem.valid /\ mem.cls = "lr" => ~mem.hasRes
    /\ ~wb_redirect =>
           IF mem.valid /\ mem.cls = "lr" /\ ~mem_ls_pending
           THEN mem_bus_fault \/ resv = Reserves(mem.word)
           ELSE resv = Reserves(ReservedAfterWb)
    /\ mem.valid /\ mem.cls = "sc" => (~mem.hasRes <=> ReservedAfterWb = mem.word)

Values == Alone /\ Results /\ Operands /\ Reservation

LEMMA InitValues == Init => Values
  BY DEF Init, Values, Alone, Results, Operands, Reservation, Serial, Reserves, ReservedAfterWb,
         mem_has_bus_op, wb_redirect, Bubble

(* The instruction that moves, and the stages it moves through.            *)
LEMMA ExMoves ==
  ASSUME TypeOK
  PROVE  /\ ExOut.id = ex.id /\ ExOut.src = ex.src /\ ExOut.word = ex.word /\ ExOut.cls = ex.cls
         /\ ExOut.valid = ex.valid /\ (ExOut.trap <=> ex_trap)
         /\ ExOut.dst = IF ex_trap THEN NoReg ELSE ex.dst
         /\ ExOut.opnd = IF ex.cls = "div" THEN div_result.opnd ELSE Forwarded
         /\ ExOut.res = IF ex.cls = "div" THEN div_result.id ELSE ex.id
         /\ ExOut.hasRes <=> \/ ex.dst # NoReg /\ ex.cls \in {"alu", "div", "branch"}
                             \/ ex.cls = "sc" /\ ~(ex.cls = "sc" /\ ex_sc_hit)
<1>1. ex \in Token
  BY DEF TypeOK
<1> QED BY <1>1 DEF ExOut, Token

LEMMA MemMoves ==
  ASSUME TypeOK, Results, mem.valid, ~stall_mem
  PROVE  /\ MemOut.id = mem.id /\ MemOut.src = mem.src /\ MemOut.word = mem.word
         /\ MemOut.cls = mem.cls /\ MemOut.valid /\ MemOut.opnd = mem.opnd
         /\ MemOut.hasRes = mem.hasRes
         /\ MemOut.trap <=> mem.trap \/ (mem_has_bus_op /\ ~mem.hasRes /\ mem_bus_fault)
         /\ ~MemOut.trap => MemOut.dst = mem.dst
         /\ MemOut.res = IF mem.cls \in {"csr", "satp"} THEN 0 ELSE mem.id
<1>1. mem \in Token /\ mem_bus_fault \in BOOLEAN
  BY DEF TypeOK
<1>2. mem.res = mem.id /\ ~mem_ls_pending
  BY DEF Results, stall_mem, mem_busy
<1>3. CASE mem_has_bus_op /\ ~mem.hasRes
  <2>1. MemOut = [mem EXCEPT !.trap = mem_bus_fault,
                             !.dst  = IF mem_bus_fault THEN NoReg ELSE mem.dst,
                             !.res  = IF mem.cls = "sc" THEN mem.id ELSE mem_load_data]
    BY <1>3 DEF MemOut
  <2>2. mem_load_data = mem.id /\ ~mem.trap /\ mem.cls \notin {"csr", "satp"}
    BY <1>2, <1>3 DEF Results, mem_has_bus_op, BusClass
  <2> QED BY <1>1, <1>3, <2>1, <2>2 DEF Token
<1>4. CASE ~(mem_has_bus_op /\ ~mem.hasRes)
  <2>1. MemOut = [mem EXCEPT !.res = IF mem.cls \in {"csr", "satp"} THEN 0 ELSE mem.res]
    BY <1>4 DEF MemOut
  <2> QED BY <1>1, <1>2, <1>4, <2>1 DEF Token
<1> QED BY <1>3, <1>4

LEMMA StageMoves ==
  ASSUME TypeOK, Apart, Owned,
         NEW irq \in BOOLEAN, NEW ifReady \in BOOLEAN, NEW ifRsp \in BOOLEAN, NEW f \in Shape,
         NEW dmReady \in BOOLEAN, NEW dmRsp \in Answer, NEW divDone \in BOOLEAN,
         Cycle(irq, ifReady, ifRsp, f, dmReady, dmRsp, divDone)
  PROVE  /\ ~Bubble.valid /\ (stall_mem => stall_ex)
         /\ mem' = IF wb_redirect THEN Bubble ELSE IF stall_mem THEN mem
                   ELSE IF stall_ex \/ ~ex.valid THEN Bubble ELSE ExOut
         /\ wb' = IF wb_redirect \/ ~mem.valid \/ stall_mem THEN Bubble ELSE MemOut
         /\ ex' = IF wb_redirect THEN Bubble ELSE IF stall_ex THEN ex
                  ELSE IF id_will_bubble(irq) THEN Bubble ELSE [id EXCEPT !.opnd = ReadRf(id.src)]
         /\ rf' = RfAfterWb /\ lrLive' = ReservedAfterWb
         /\ ex'.valid /\ ~stall_ex => /\ ~wb_redirect /\ id.valid /\ ~stall_id
                                      /\ ex'.cls = id.cls /\ ex'.src = id.src
                                      /\ ex'.word = id.word /\ ex'.opnd = ReadRf(id.src)
<1>1. ~Bubble.valid /\ (stall_mem => stall_ex)
  BY DEF Bubble, stall_ex
<1>2. /\ mem' = IF wb_redirect THEN Bubble ELSE IF stall_mem THEN mem
                ELSE IF stall_ex \/ ~ex.valid THEN Bubble ELSE ExOut
      /\ wb' = IF wb_redirect \/ ~mem.valid \/ stall_mem THEN Bubble ELSE MemOut
      /\ ex' = IF wb_redirect THEN Bubble ELSE IF stall_ex THEN ex
               ELSE IF id_will_bubble(irq) THEN Bubble ELSE [id EXCEPT !.opnd = ReadRf(id.src)]
      /\ rf' = RfAfterWb /\ lrLive' = ReservedAfterWb
  BY DEF Cycle, Clock, MemEdge, WbEdge, ExEdge, ArchEdge
<1>3. ASSUME ex'.valid, ~stall_ex
      PROVE  /\ ~wb_redirect /\ id.valid /\ ~stall_id /\ ex'.cls = id.cls /\ ex'.src = id.src
             /\ ex'.word = id.word /\ ex'.opnd = ReadRf(id.src)
  <2>1. ~wb_redirect /\ ~id_will_bubble(irq) /\ ex' = [id EXCEPT !.opnd = ReadRf(id.src)]
    BY <1>1, <1>2, <1>3
  <2>2. id \in Token
    BY DEF TypeOK
  <2> QED BY <2>1, <2>2 DEF id_will_bubble, Token
<1> QED BY <1>1, <1>2, <1>3

LEMMA ClockAlone ==
  ASSUME TypeOK, Apart, Owned, Values,
         NEW irq \in BOOLEAN, NEW ifReady \in BOOLEAN, NEW ifRsp \in BOOLEAN, NEW f \in Shape,
         NEW dmReady \in BOOLEAN, NEW dmRsp \in Answer, NEW divDone \in BOOLEAN,
         Cycle(irq, ifReady, ifRsp, f, dmReady, dmRsp, divDone)
  PROVE  Alone'
<1>1. ex'.valid /\ ~stall_ex /\ id.cls \in SerialClass => ~ex.valid /\ ~mem.valid /\ ~wb.valid
  BY StageMoves DEF stall_id, IdSerial, pipe_busy
<1>2. ex'.valid /\ ~stall_ex => ~Serial(ex) /\ ~Serial(mem) /\ ~Serial(wb)
  BY <1>1, StageMoves DEF stall_id, IdSerial, serial_inflight, Serial
<1>3. /\ mem'.valid => \/ stall_mem /\ mem' = mem /\ ~wb_redirect
                       \/ ~stall_ex /\ ex.valid /\ mem'.cls = ex.cls /\ ~wb_redirect
      /\ wb'.valid => mem.valid /\ wb'.cls = mem.cls /\ ~stall_mem /\ ~wb_redirect
  BY StageMoves, ExMoves, MemMoves DEF Values
<1>4. ex'.valid => (stall_ex /\ ex' = ex) \/ (~stall_ex /\ ex'.cls = id.cls)
  BY StageMoves
<1>5. Serial(ex)' => ~mem'.valid /\ ~wb'.valid
  BY <1>1, <1>3, <1>4 DEF Serial, Values, Alone
<1>6. Serial(mem)' => ~ex'.valid /\ ~wb'.valid
  BY <1>2, <1>3, <1>4, StageMoves DEF Serial, Values, Alone
<1>7. Serial(wb)' => ~ex'.valid /\ ~mem'.valid
  BY <1>2, <1>3, <1>4, StageMoves DEF Serial, Values, Alone
<1> QED BY <1>5, <1>6, <1>7 DEF Alone

LEMMA ClockResults ==
  ASSUME TypeOK, Apart, Owned, Values,
         NEW irq \in BOOLEAN, NEW ifReady \in BOOLEAN, NEW ifRsp \in BOOLEAN, NEW f \in Shape,
         NEW dmReady \in BOOLEAN, NEW dmRsp \in Answer, NEW divDone \in BOOLEAN,
         Cycle(irq, ifReady, ifRsp, f, dmReady, dmRsp, divDone)
  PROVE  Results'
<1>1. ASSUME mem'.valid
      PROVE  mem'.res = mem'.id /\ (mem'.trap => mem'.cls \in TrapClass)
  <2>1. CASE stall_mem
    BY <1>1, <2>1, StageMoves DEF Values, Results
  <2>2. CASE ~stall_mem
    <3>1. mem' = ExOut /\ ex.valid /\ ~stall_ex
      BY <1>1, <2>2, StageMoves
    <3>2. ex.cls = "div" => div_result.id = ex.id
      BY <3>1 DEF stall_ex, ex_div_stall, Owned, DividerHeld, DividerOwned
    <3> QED BY <3>1, <3>2, ExMoves DEF ex_trap
  <2> QED BY <2>1, <2>2
<1>2. ASSUME mem_has_bus_op', ~mem'.hasRes, ~mem_ls_pending' \/ mem_amo_phase' = 1
      PROVE  mem_load_data' = mem'.id
  <2>1. mem'.valid /\ mem'.cls \in BusClass /\ ~mem'.trap
    BY <1>2 DEF mem_has_bus_op
  <2>2. ~wb_redirect /\ stall_mem
    <3>1. ~wb_redirect
      BY <2>1, StageMoves
    <3>2. ~stall_mem => mem_ls_pending' /\ mem_amo_phase' = 0
      BY <1>2, <2>1, <3>1 DEF Cycle, Clock, MemEdge
    <3> QED BY <1>2, <3>1, <3>2
  <2>3. mem' = mem
    BY <2>2, StageMoves
  <2>4. mem_has_bus_op /\ ~mem.hasRes
    BY <1>2, <2>3 DEF mem_has_bus_op
  <2> DEFINE taken == mem_busy /\ dmRsp # "none"
  <2>5. CASE ~taken
    <3>1. mem_load_data' = mem_load_data /\ mem_ls_pending' = mem_ls_pending
          /\ mem_amo_phase' = mem_amo_phase
      BY <2>2, <2>5 DEF Cycle, Clock, MemEdge, TypeOK
    <3> QED BY <1>2, <2>3, <2>4, <3>1 DEF Values, Results
  <2>6. CASE taken
    <3>1. mem_load_data' = IF mem.cls = "amo" /\ mem_amo_phase = 1 THEN mem_load_data
                           ELSE IF dmem.busy THEN dmem.id ELSE mem.id
      BY <2>2, <2>6 DEF Cycle, Clock, MemEdge
    <3>2. mem_amo_phase = 1 => mem_load_data = mem.id
      BY <2>4 DEF Values, Results
    <3>3. dmem.busy => dmem.id = mem.id
      BY DEF Owned, BusHeld
    <3> QED BY <2>3, <3>1, <3>2, <3>3
  <2> QED BY <2>5, <2>6
<1> QED BY <1>1, <1>2 DEF Results

(* What leaves MEM writes its own number, and the registers are then what  *)
(* the instruction in EX was to be given.                                  *)
LEMMA ClockWrites ==
  ASSUME TypeOK, Apart, Owned, Values,
         NEW irq \in BOOLEAN, NEW ifReady \in BOOLEAN, NEW ifRsp \in BOOLEAN, NEW f \in Shape,
         NEW dmReady \in BOOLEAN, NEW dmRsp \in Answer, NEW divDone \in BOOLEAN,
         Cycle(irq, ifReady, ifRsp, f, dmReady, dmRsp, divDone),
         ~wb_redirect
  PROVE  /\ mem.valid /\ ~stall_mem => CommitRd' = mem.id
         /\ stall_mem => RfAfterWb' = RfAfterWb
         /\ ~stall_mem /\ ~wb_redirect' => \A r \in Reg : RfAfterWb'[r] = Given(r)
<1>1. wb' = IF ~mem.valid \/ stall_mem THEN Bubble ELSE MemOut
  BY StageMoves
<1>2. rf' = RfAfterWb /\ ~Bubble.valid
  BY StageMoves
<1>3. mem.valid /\ ~stall_mem => CommitRd' = mem.id
  BY <1>1, MemMoves DEF Values, CommitRd, WbIsCsr
<1>4. ~wb'.valid => RfAfterWb' = RfAfterWb
  BY <1>2 DEF RfAfterWb, RfWen
<1>5. ASSUME ~stall_mem, ~wb_redirect', NEW r \in Reg PROVE RfAfterWb'[r] = Given(r)
  <2>1. CASE ~mem.valid
    BY <1>1, <1>2, <1>4, <2>1 DEF Given
  <2>2. CASE mem.valid
    <3>1. wb'.valid /\ ~wb'.trap /\ wb'.dst = mem.dst
      BY <1>1, <1>5, <2>2, MemMoves DEF Values, wb_redirect
    <3>2. RfAfterWb' = IF mem.dst # NoReg THEN [rf' EXCEPT ![mem.dst] = mem.id] ELSE rf'
      BY <1>3, <1>5, <2>2, <3>1 DEF RfAfterWb, RfWen
    <3>3. RfAfterWb \in [Reg -> Id] /\ r # NoReg
      BY Wires, PipelineAssumption DEF PipelineAssumption
    <3> QED BY <1>2, <2>2, <3>2, <3>3 DEF Given
  <2> QED BY <2>1, <2>2
<1> QED BY <1>1, <1>2, <1>3, <1>4, <1>5

LEMMA ClockDivision ==
  ASSUME TypeOK, Apart, Owned, Values,
         NEW irq \in BOOLEAN, NEW ifReady \in BOOLEAN, NEW ifRsp \in BOOLEAN, NEW f \in Shape,
         NEW dmReady \in BOOLEAN, NEW dmRsp \in Answer, NEW divDone \in BOOLEAN,
         Cycle(irq, ifReady, ifRsp, f, dmReady, dmRsp, divDone),
         div_started'
  PROVE  /\ ex.valid /\ ex.cls = "div" /\ ex' = ex /\ stall_ex /\ ~wb_redirect
         /\ div_busy' \/ div_done_latched'
         /\ div_result'.opnd = IF div_started THEN div_result.opnd ELSE Forwarded
<1>1. ~wb_redirect /\ (div_started \/ div_start)
  BY DEF Cycle, Clock, DivEdge
<1>2. /\ div_start => ex.valid /\ ex.cls = "div" /\ ~div_started /\ ~div_busy
      /\ div_started => ex.valid /\ ex.cls = "div" /\ (div_busy \/ div_done_latched)
      /\ divDone => div_busy
  BY DEF div_start, Owned, DividerHeld, DividerOwned, Values, Operands, Cycle
<1>3. stall_ex
  <2>1. ~stall_ex => div_done_latched
    BY <1>1, <1>2 DEF stall_ex, ex_div_stall
  <2> QED BY <1>1, <1>2, <2>1 DEF Cycle, Clock, DivEdge
<1>4. ex' = ex
  BY <1>1, <1>3, StageMoves
<1>5. div_busy' \/ div_done_latched'
  BY <1>1, <1>2, <1>3 DEF Cycle, Clock, DivEdge
<1>6. div_result'.opnd = IF div_started THEN div_result.opnd ELSE Forwarded
  BY <1>1, <1>2, <1>5 DEF Cycle, Clock, DivEdge
<1> QED BY <1>1, <1>2, <1>3, <1>4, <1>5, <1>6

(* An instruction enters EX with what is in the registers, and finds the   *)
(* rest in MEM and WB.                                                     *)
LEMMA ClockForwards ==
  ASSUME TypeOK, Apart, Owned, Values,
         NEW irq \in BOOLEAN, NEW ifReady \in BOOLEAN, NEW ifRsp \in BOOLEAN, NEW f \in Shape,
         NEW dmReady \in BOOLEAN, NEW dmRsp \in Answer, NEW divDone \in BOOLEAN,
         Cycle(irq, ifReady, ifRsp, f, dmReady, dmRsp, divDone),
         ~wb_redirect', ex'.valid, ~stall_ex, NEW r \in Reg, ex'.src = r
  PROVE  Forwarded' = Given(r)'
<1>1. /\ ~wb_redirect /\ ~stall_mem /\ id.valid /\ ~stall_id /\ id.src = r
      /\ ex'.opnd = ReadRf(r) /\ r # NoReg
  BY StageMoves, PipelineAssumption DEF PipelineAssumption
<1>2. ex'.opnd = RfAfterWb[r]
  BY <1>1 DEF ReadRf, RfAfterWb, RfWen, TypeOK
<1>3. RfAfterWb'[r] = Given(r)
  BY <1>1, ClockWrites
<1>4. mem.valid => mem.cls \notin {"csr", "satp"}
  BY <1>1 DEF stall_id, IdSerial, serial_inflight, pipe_busy, SerialClass
<1>5. ~mem.valid => ~wb'.valid
  BY <1>1, StageMoves
<1>6. mem.valid => wb'.valid /\ wb'.dst = mem.dst /\ wb'.res = mem.id
  BY <1>1, <1>4, StageMoves, MemMoves DEF Values, wb_redirect
<1>7. (IF wb'.valid /\ wb'.dst # NoReg /\ wb'.dst = r THEN wb'.res ELSE ex'.opnd) = Given(r)
  BY <1>1, <1>2, <1>5, <1>6 DEF Given
<1>8. mem'.valid => /\ mem'.dst = ex.dst /\ mem'.id = ex.id /\ mem'.res = ex.id
                    /\ mem'.hasRes <=> ex.dst # NoReg
  <2> SUFFICES ASSUME mem'.valid
               PROVE  /\ mem'.dst = ex.dst /\ mem'.id = ex.id /\ mem'.res = ex.id
                      /\ mem'.hasRes <=> ex.dst # NoReg
    OBVIOUS
  <2>1. mem' = ExOut /\ ex.valid
    BY <1>1, StageMoves
  <2>2. ex.cls = "div"
    BY <1>1, <2>1 DEF Apart
  <2>3. ~ex_trap /\ div_result.id = ex.id
    BY <2>1, <2>2 DEF ex_trap, TrapClass, stall_ex, ex_div_stall, Owned, DividerHeld, DividerOwned
  <2> QED BY <2>1, <2>2, <2>3, ExMoves
<1>9. Forwarded' = IF mem'.valid /\ mem'.hasRes /\ mem'.dst # NoReg /\ mem'.dst = r THEN mem'.res
                   ELSE IF wb'.valid /\ wb'.dst # NoReg /\ wb'.dst = r THEN wb'.res ELSE ex'.opnd
  BY DEF Forwarded
<1>10. Given(r)' = IF mem'.valid /\ mem'.dst = r THEN mem'.id ELSE RfAfterWb'[r]
  BY DEF Given
<1>11. CASE mem'.valid
  BY <1>1, <1>3, <1>7, <1>8, <1>9, <1>10, <1>11
<1>12. CASE ~mem'.valid
  BY <1>3, <1>7, <1>9, <1>10, <1>12
<1> QED BY <1>11, <1>12

LEMMA ClockOperands ==
  ASSUME TypeOK, Apart, Owned, Values,
         NEW irq \in BOOLEAN, NEW ifReady \in BOOLEAN, NEW ifRsp \in BOOLEAN, NEW f \in Shape,
         NEW dmReady \in BOOLEAN, NEW dmRsp \in Answer, NEW divDone \in BOOLEAN,
         Cycle(irq, ifReady, ifRsp, f, dmReady, dmRsp, divDone)
  PROVE  Operands'
<1>1. div_started' => ex'.valid /\ ex'.cls = "div" /\ (div_busy' \/ div_done_latched')
  BY ClockDivision
<1>2. ASSUME ex'.valid, ~wb_redirect', ex'.src # NoReg
      PROVE  (IF div_started' THEN div_result'.opnd ELSE Forwarded') = Given(ex.src)'
  <2>1. PICK r \in Reg : r = ex'.src
    <3>1. TypeOK'
      BY ClockTypeOK
    <3>2. ex' \in Token
      BY <3>1 DEF TypeOK
    <3> QED BY <1>2, <3>2 DEF Token
  <2>2. Given(ex.src)' = Given(r)'
    BY <2>1 DEF Given
  <2>3. CASE ~stall_ex
    <3>1. ~div_started'
      BY <2>3, ClockDivision
    <3> QED BY <1>2, <2>1, <2>2, <2>3, <3>1, ClockForwards
  <2>4. CASE stall_ex
    <3>1. ~wb_redirect /\ ex' = ex /\ ~stall_mem /\ ~mem'.valid
      BY <1>2, <2>4, StageMoves DEF Apart, stall_mem, mem_busy, mem_stall_for_ifetch_drain
    <3>2. ex.cls = "div" /\ ~div_done_latched
      BY <2>4, <3>1 DEF stall_ex, ex_div_stall
    <3>3. div_started'
      BY <1>2, <2>4, <3>1, <3>2 DEF Cycle, Clock, DivEdge, div_start
    <3>4. Given(r)' = Given(r)
      <4>1. RfAfterWb'[r] = Given(r)
        BY <1>2, <3>1, ClockWrites
      <4> QED BY <3>1, <4>1 DEF Given
    <3>5. (IF div_started THEN div_result.opnd ELSE Forwarded) = Given(r)
      BY <1>2, <2>1, <3>1 DEF Values, Operands
    <3> QED BY <2>2, <3>3, <3>4, <3>5, ClockDivision
  <2> QED BY <2>3, <2>4
<1>3. ASSUME mem'.valid, ~wb_redirect', mem'.src # NoReg PROVE mem'.opnd = RfAfterWb'[mem'.src]
  <2>1. ~wb_redirect
    BY <1>3, StageMoves
  <2>2. CASE stall_mem
    <3>1. mem' = mem /\ RfAfterWb' = RfAfterWb
      BY <2>1, <2>2, StageMoves, ClockWrites
    <3> QED BY <1>3, <2>1, <3>1 DEF Values, Operands
  <2>3. CASE ~stall_mem
    <3>1. mem' = ExOut /\ ex.valid /\ ~stall_ex
      BY <1>3, <2>1, <2>3, StageMoves
    <3>2. mem'.src = ex.src /\ ex.src \in Reg
      BY <1>3, <3>1, ExMoves DEF TypeOK, Token
    <3>3. ex.cls = "div" <=> div_started
      BY <3>1 DEF stall_ex, ex_div_stall, Owned, DividerHeld, DividerOwned, Values, Operands
    <3>4. mem'.opnd = Given(ex.src)
      BY <1>3, <2>1, <3>1, <3>2, <3>3, ExMoves DEF Values, Operands
    <3> QED BY <1>3, <2>1, <2>3, <3>2, <3>4, ClockWrites
  <2> QED BY <2>2, <2>3
<1> QED BY <1>1, <1>2, <1>3 DEF Operands

(* The word an LR or an SC names stays with it from fetch.                 *)
LEMMA ClockWords ==
  ASSUME TypeOK, Apart, Owned, Values,
         NEW irq \in BOOLEAN, NEW ifReady \in BOOLEAN, NEW ifRsp \in BOOLEAN, NEW f \in Shape,
         NEW dmReady \in BOOLEAN, NEW dmRsp \in Answer, NEW divDone \in BOOLEAN,
         Cycle(irq, ifReady, ifRsp, f, dmReady, dmRsp, divDone)
  PROVE  /\ \A t \in {id', ex', mem'} : t.valid /\ t.cls \in {"lr", "sc"} => t.word # NoWord
         /\ mem'.valid /\ mem'.cls = "lr" => ~mem'.hasRes
<1>1. \A t \in {id, ex, mem} : t.valid /\ t.cls \in {"lr", "sc"} => t.word # NoWord
  BY DEF Values, Reservation
<1>2. id'.valid /\ id'.cls \in {"lr", "sc"} => id'.word # NoWord
  <2>1. IrqToken.cls = "irq" /\ FetchedToken(f).cls = f.cls /\ FetchedToken(f).word = f.word
    BY Constants DEF IrqToken, FetchedToken, Token
  <2>2. f.cls \in {"lr", "sc"} => f.word # NoWord
    BY DEF Cycle, Legal
  <2>3. id' \in {Bubble, id, IrqToken, FetchedToken(f)}
    BY DEF Cycle, Clock, IdEdge
  <2> QED BY <1>1, <2>1, <2>2, <2>3, StageMoves
<1>3. ex'.valid /\ ex'.cls \in {"lr", "sc"} => ex'.word # NoWord
  BY <1>1, StageMoves
<1>4. mem'.valid /\ mem'.cls \in {"lr", "sc"} => mem'.word # NoWord
  BY <1>1, StageMoves, ExMoves
<1>5. mem'.valid /\ mem'.cls = "lr" => ~mem'.hasRes
  BY StageMoves, ExMoves DEF Values, Reservation
<1> QED BY <1>2, <1>3, <1>4, <1>5

LEMMA ClockReservation ==
  ASSUME TypeOK, Apart, Owned, Values,
         NEW irq \in BOOLEAN, NEW ifReady \in BOOLEAN, NEW ifRsp \in BOOLEAN, NEW f \in Shape,
         NEW dmReady \in BOOLEAN, NEW dmRsp \in Answer, NEW divDone \in BOOLEAN,
         Cycle(irq, ifReady, ifRsp, f, dmReady, dmRsp, divDone)
  PROVE  Reservation'
<1>1. /\ wb' = IF wb_redirect \/ ~mem.valid \/ stall_mem THEN Bubble ELSE MemOut
      /\ mem' = IF wb_redirect THEN Bubble ELSE IF stall_mem THEN mem
                ELSE IF stall_ex \/ ~ex.valid THEN Bubble ELSE ExOut
      /\ lrLive' = ReservedAfterWb /\ ~Bubble.valid
  BY StageMoves
<1>2. ~wb'.valid => ReservedAfterWb' = ReservedAfterWb
  BY <1>1 DEF ReservedAfterWb
<1>3. ~wb_redirect =>
        IF mem.valid /\ mem.cls = "lr" /\ ~mem_ls_pending
        THEN mem_bus_fault \/ resv = Reserves(mem.word)
        ELSE resv = Reserves(ReservedAfterWb)
  BY DEF Values, Reservation
<1>4. ASSUME wb_redirect
      PROVE  ~mem'.valid /\ resv' = Reserves(ReservedAfterWb')
  <2>1. ReservedAfterWb = NoWord
    BY <1>4 DEF ReservedAfterWb, wb_redirect
  <2>2. resv' = [valid |-> FALSE, word |-> NoWord]
    BY <1>4 DEF Cycle, Clock, MemEdge
  <2> QED BY <1>1, <1>2, <1>4, <2>1, <2>2 DEF Reserves
<1>5. ASSUME ~wb_redirect, stall_mem
      PROVE  IF mem'.valid /\ mem'.cls = "lr" /\ ~mem_ls_pending'
             THEN mem_bus_fault' \/ resv' = Reserves(mem'.word)
             ELSE resv' = Reserves(ReservedAfterWb')
  <2>1. mem' = mem /\ ReservedAfterWb' = ReservedAfterWb /\ mem.valid
    BY <1>1, <1>2, <1>5 DEF stall_mem, mem_busy, mem_stall_for_ifetch_drain
  <2> DEFINE taken == mem_busy /\ dmRsp # "none"
  <2>2. resv' = IF taken /\ mem.cls = "lr" /\ dmRsp # "fault"
                THEN [valid |-> TRUE, word |-> mem.word] ELSE resv
    BY <1>5 DEF Cycle, Clock, MemEdge
  <2>3. CASE mem.cls # "lr"
    BY <1>3, <1>5, <2>1, <2>2, <2>3
  <2>4. CASE mem.cls = "lr"
    <3>1. mem_busy /\ mem_ls_pending
      BY <1>5, <2>4 DEF stall_mem, mem_stall_for_ifetch_drain, mem_busy
    <3>2. resv = Reserves(ReservedAfterWb)
      BY <1>3, <1>5, <3>1
    <3>3. mem_ls_pending' = ~taken
      BY <1>5, <2>4, <3>1 DEF Cycle, Clock, MemEdge
    <3>4. taken => mem_bus_fault' = (dmRsp # "ok")
      BY <1>5 DEF Cycle, Clock, MemEdge
    <3>5. mem.word # NoWord
      BY <2>1, <2>4 DEF Values, Reservation
    <3>6. Reserves(mem.word) = [valid |-> TRUE, word |-> mem.word]
      BY <3>5 DEF Reserves
    <3>7. CASE ~taken
      BY <2>1, <2>2, <3>2, <3>3, <3>7
    <3>8. CASE taken
      BY <2>1, <2>2, <2>4, <3>3, <3>4, <3>6, <3>8
    <3> QED BY <3>7, <3>8
  <2> QED BY <2>3, <2>4
<1>6. ASSUME ~wb_redirect, ~stall_mem, ~wb_redirect'
      PROVE  /\ resv' = Reserves(ReservedAfterWb')
             /\ mem'.valid /\ mem'.cls = "lr" => mem_ls_pending'
  <2>1. mem'.valid /\ mem'.cls = "lr" => mem_ls_pending'
    <3>1. mem'.valid /\ mem'.cls = "lr" => ~mem'.hasRes
      BY ClockWords
    <3> QED BY <1>6, <3>1 DEF Cycle, Clock, MemEdge, BusClass
  <2>2. resv' = IF mem_has_bus_op /\ mem.cls \in {"sc", "amo"}
                THEN [valid |-> FALSE, word |-> NoWord] ELSE resv
    BY <1>6 DEF Cycle, Clock, MemEdge, stall_mem
  <2>3. CASE ~mem.valid
    BY <1>1, <1>2, <1>3, <1>6, <2>1, <2>2, <2>3 DEF mem_has_bus_op
  <2>4. CASE mem.valid
    <3>1. /\ wb'.valid /\ ~wb'.trap /\ wb'.cls = mem.cls /\ wb'.word = mem.word
          /\ ~mem.trap /\ (mem_has_bus_op /\ ~mem.hasRes => ~mem_bus_fault)
      BY <1>1, <1>6, <2>4, MemMoves DEF Values, wb_redirect
    <3>2. ReservedAfterWb' = IF mem.cls \in {"sc", "amo"} THEN NoWord
                             ELSE IF mem.cls = "lr" THEN mem.word ELSE ReservedAfterWb
      BY <1>1, <1>6, <3>1 DEF ReservedAfterWb
    <3>3. mem.cls \in {"sc", "amo", "lr"} => mem_has_bus_op
      BY <2>4, <3>1 DEF mem_has_bus_op, BusClass
    <3>4. mem.cls = "lr" => ~mem.hasRes /\ ~mem_ls_pending
      BY <1>6, <2>4 DEF Values, Reservation, stall_mem, mem_busy
    <3>5. CASE mem.cls \in {"sc", "amo"}
      BY <2>1, <2>2, <3>2, <3>3, <3>5 DEF Reserves
    <3>6. CASE mem.cls = "lr"
      BY <1>3, <1>6, <2>1, <2>2, <2>4, <3>1, <3>2, <3>3, <3>4, <3>6
    <3>7. CASE mem.cls \notin {"sc", "amo", "lr"}
      BY <1>3, <1>6, <2>1, <2>2, <3>2, <3>7
    <3> QED BY <3>5, <3>6, <3>7
  <2> QED BY <2>3, <2>4
<1>7. ASSUME mem'.valid, mem'.cls = "sc" PROVE ~mem'.hasRes <=> ReservedAfterWb' = mem'.word
  <2>1. ~wb_redirect
    BY <1>1, <1>7
  <2>2. CASE stall_mem
    BY <1>1, <1>2, <1>7, <2>1, <2>2 DEF Values, Reservation
  <2>3. CASE ~stall_mem
    <3>1. mem' = ExOut /\ ex.valid /\ ex.cls = "sc" /\ ex.word = mem'.word
      BY <1>1, <1>7, <2>1, <2>3, ExMoves
    <3>2. ~mem.valid /\ ex.word # NoWord
      BY <3>1 DEF Values, Alone, Serial, SerialClass, Reservation
    <3>3. resv = Reserves(ReservedAfterWb) /\ ReservedAfterWb' = ReservedAfterWb
      BY <1>1, <1>2, <1>3, <2>1, <3>2
    <3>4. ~mem'.hasRes <=> ex_sc_hit
      BY <3>1, ExMoves
    <3>5. ex_sc_hit <=> ReservedAfterWb = ex.word
      BY <3>2, <3>3 DEF ex_sc_hit, Reserves
    <3> QED BY <3>1, <3>3, <3>4, <3>5
  <2> QED BY <2>2, <2>3
<1>8. ~wb_redirect' =>
        IF mem'.valid /\ mem'.cls = "lr" /\ ~mem_ls_pending'
        THEN mem_bus_fault' \/ resv' = Reserves(mem'.word)
        ELSE resv' = Reserves(ReservedAfterWb')
  BY <1>4, <1>5, <1>6
<1> QED BY <1>7, <1>8, ClockWords DEF Reservation, Reserves

LEMMA StepValues == TypeOK /\ Apart /\ Owned /\ Values /\ [Next]_vars => Values'
<1>1. ASSUME TypeOK, Apart, Owned, Values, Next PROVE Values'
  BY <1>1, NextIsClock, ClockAlone, ClockResults, ClockOperands, ClockReservation DEF Values
<1>2. ASSUME Values, UNCHANGED vars PROVE Values'
  BY <1>2 DEF Values, Alone, Serial, Results, Operands, Given, Reservation, Reserves, Forwarded,
              ReservedAfterWb, RfAfterWb, RfWen, CommitRd, WbIsCsr, wb_redirect, mem_has_bus_op,
              vars, stageVars, memVars, divVars, archVars
<1> QED BY <1>1, <1>2

(* What write back shows next, and what it will have left behind.          *)
LEMMA CommitMaps ==
  ASSUME wb'.valid, wb'.pc = NextToCommit,
         wb'.cls \in TrapClass => wb'.trap,
         wb'.trap => wb'.cls \in TrapClass \cup BusClass,
         ~wb'.trap /\ wb'.src # NoReg => wb'.opnd = RfAfterWb[wb'.src],
         ~wb'.trap /\ wb'.dst # NoReg => CommitRd' = wb'.id,
         ~wb'.trap /\ wb'.cls = "sc" => (~wb'.hasRes <=> ReservedAfterWb = wb'.word),
         rf' = RfAfterWb, lrLive' = ReservedAfterWb
  PROVE  Hart!Commit
<1>1. CommitPort' = [valid |-> TRUE, pc |-> wb'.pc, cls |-> wb'.cls, taken |-> wb'.taken,
                     dst |-> wb'.dst, src |-> wb'.src, word |-> wb'.word, id |-> wb'.id,
                     opnd |-> wb'.opnd, trap |-> wb'.trap, result |-> CommitRd',
                     stored |-> ~wb'.hasRes]
  BY DEF CommitPort
<1>2. /\ CommitPort'.valid /\ CommitPort'.pc = wb'.pc /\ CommitPort'.cls = wb'.cls
      /\ CommitPort'.taken = wb'.taken /\ CommitPort'.dst = wb'.dst /\ CommitPort'.src = wb'.src
      /\ CommitPort'.word = wb'.word /\ CommitPort'.id = wb'.id /\ CommitPort'.opnd = wb'.opnd
      /\ CommitPort'.trap = wb'.trap /\ CommitPort'.result = CommitRd'
      /\ CommitPort'.stored = ~wb'.hasRes
  BY <1>1
<1>3. NextToCommit' = IF CommitPort'.trap THEN TrapVector
                      ELSE IF CommitPort'.cls = "ret" THEN ReturnTarget
                      ELSE IF CommitPort'.cls = "branch" /\ CommitPort'.taken THEN BranchTarget
                      ELSE Next4(NextToCommit)
  BY <1>2 DEF NextToCommit, Target
<1>4. RfAfterWb' = IF CommitPort'.trap \/ CommitPort'.dst = NoReg THEN RfAfterWb
                   ELSE [RfAfterWb EXCEPT ![CommitPort'.dst] = CommitPort'.result]
  BY <1>2 DEF RfAfterWb, RfWen
<1>5. ReservedAfterWb' =
        IF CommitPort'.trap \/ CommitPort'.cls \in {"ret", "fencei", "satp", "sc", "amo"} THEN NoWord
        ELSE IF CommitPort'.cls = "lr" THEN CommitPort'.word ELSE ReservedAfterWb
  BY <1>2 DEF ReservedAfterWb, wb_redirect
<1>6. /\ Hart!Trapping = TrapClass /\ Hart!MayTrapOnBus = BusClass
      /\ Hart!Redirecting \cup {"sc", "amo"} = {"ret", "fencei", "satp", "sc", "amo"}
  BY DEF Hart!Trapping, Hart!MayTrapOnBus, Hart!Redirecting, TrapClass, BusClass
<1> QED BY <1>2, <1>3, <1>4, <1>5, <1>6, Zenon DEF Hart!Commit

LEMMA IdleMaps ==
  ASSUME ~wb'.valid, NextToCommit' = NextToCommit, rf' = RfAfterWb, lrLive' = ReservedAfterWb
  PROVE  Hart!Idle
BY DEF Hart!Idle, Hart!Nothing, CommitPort, RfAfterWb, RfWen, ReservedAfterWb

LEMMA InitMaps == Init => Hart!Init
BY DEF Init, Hart!Init, Hart!Nothing, NextToCommit, CommitPort, RfAfterWb, RfWen,
       ReservedAfterWb, Bubble

LEMMA ClockMaps ==
  ASSUME TypeOK, Apart, Owned, Values,
         NEW irq \in BOOLEAN, NEW ifReady \in BOOLEAN, NEW ifRsp \in BOOLEAN, NEW f \in Shape,
         NEW dmReady \in BOOLEAN, NEW dmRsp \in Answer, NEW divDone \in BOOLEAN,
         Cycle(irq, ifReady, ifRsp, f, dmReady, dmRsp, divDone),
         Order
  PROVE  Hart!Next
<1>1. rf' = RfAfterWb /\ lrLive' = ReservedAfterWb
  BY StageMoves
<1>2. IF wb'.valid THEN wb'.pc = NextToCommit ELSE NextToCommit' = NextToCommit
  BY ClockOrder
<1>3. CASE ~wb'.valid
  BY <1>1, <1>2, <1>3, IdleMaps DEF Hart!Next
<1>4. CASE wb'.valid
  <2>1. wb' = MemOut /\ ~wb_redirect /\ mem.valid /\ ~stall_mem
    BY <1>4, StageMoves
  <2>2. /\ wb'.id = mem.id /\ wb'.src = mem.src /\ wb'.word = mem.word /\ wb'.cls = mem.cls
        /\ wb'.opnd = mem.opnd /\ wb'.hasRes = mem.hasRes
        /\ wb'.trap <=> mem.trap \/ (mem_has_bus_op /\ ~mem.hasRes /\ mem_bus_fault)
    BY <2>1, MemMoves DEF Values
  <2>3. mem.valid /\ mem.trap => mem.cls \in TrapClass
    BY DEF Values, Results
  <2>4. wb'.cls \in TrapClass => wb'.trap
    BY <2>1, <2>2 DEF Order, Fol
  <2>5. wb'.trap => wb'.cls \in TrapClass \cup BusClass
    BY <2>1, <2>2, <2>3 DEF mem_has_bus_op
  <2>6. wb'.src # NoReg => wb'.opnd = RfAfterWb[wb'.src]
    BY <2>1, <2>2 DEF Values, Operands
  <2>7. CommitRd' = wb'.id
    BY <2>1, <2>2, ClockWrites
  <2>8. wb'.cls = "sc" => (~wb'.hasRes <=> ReservedAfterWb = wb'.word)
    BY <2>1, <2>2 DEF Values, Reservation
  <2>9. Hart!Commit
    BY <1>1, <1>2, <1>4, <2>4, <2>5, <2>6, <2>7, <2>8, CommitMaps
  <2> QED BY <2>9 DEF Hart!Next
<1> QED BY <1>3, <1>4

(* The inductive invariant behind the refinement.                          *)
IsaInv == IInv /\ Owned /\ Values

LEMMA StepMaps == IsaInv /\ [Next]_vars => IsaInv' /\ [Hart!Next]_(Hart!vars)
<1>1. ASSUME IsaInv, Next PROVE Hart!Next
  BY <1>1, NextIsClock, ClockMaps DEF IsaInv, IInv
<1>2. ASSUME UNCHANGED vars PROVE UNCHANGED Hart!vars
  BY <1>2 DEF Hart!vars, NextToCommit, Target, CommitPort, RfAfterWb, RfWen, CommitRd, WbIsCsr,
              ReservedAfterWb, wb_redirect, vars, fetchVars, stageVars, archVars
<1>3. IsaInv /\ [Next]_vars => IsaInv'
  BY StepIInv, StepOwned, StepValues DEF IsaInv, IInv
<1> QED BY <1>1, <1>2, <1>3

(* Every behaviour of the pipeline is one of the sequential machine: one   *)
(* instruction commits at a time, where the previous one leads, with the   *)
(* operand the older ones left, a result of its own, precise traps, and an *)
(* SC that stores exactly when its reservation stands.                     *)
THEOREM ImplementsTheIsa == Spec => ImplementsIsa
<1>1. Init => IsaInv /\ Hart!Init
  BY InitTypeOK, InitApart, InitOrder, InitOwned, InitValues, InitMaps DEF IsaInv, IInv
<1> QED BY <1>1, StepMaps, PTL DEF Spec, ImplementsIsa, Hart!Spec

=============================================================================
