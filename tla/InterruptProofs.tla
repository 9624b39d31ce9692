--------------------------- MODULE InterruptProofs ---------------------------
(***************************************************************************)
(* Proofs about how interrupts are taken: by the core, for every set of    *)
(* interrupts, exceptions and addresses, and by the programs that run on   *)
(* it against the CLINT, for every width of the counter, every period and  *)
(* every speed of the hart.                                                *)
(***************************************************************************)
EXTENDS Traps, IrqDemos, TLAPS

-----------------------------------------------------------------------------
(* Priorities: of pending interrupts there is always a first one.          *)

LEMMA RankIsPosition ==
    /\ Rank("MEI") = 1 /\ Rank("MSI") = 2 /\ Rank("MTI") = 3
    /\ Rank("SEI") = 4 /\ Rank("SSI") = 5 /\ Rank("STI") = 6
BY DEF Rank, Precedence

LEMMA FirstIsOne ==
    ASSUME NEW ints \in SUBSET Interrupt, ints # {}
    PROVE  First(ints) \in ints
<1>1. ints \subseteq {"MEI", "MSI", "MTI", "SEI", "SSI", "STI"}
  BY TrapsAssumption DEF Interrupt
<1>2. \E i \in ints : \A j \in ints : Rank(i) <= Rank(j)
  <2>1. CASE "MEI" \in ints
    BY <1>1, <2>1, RankIsPosition
  <2>2. CASE "MEI" \notin ints /\ "MSI" \in ints
    BY <1>1, <2>2, RankIsPosition
  <2>3. CASE "MEI" \notin ints /\ "MSI" \notin ints /\ "MTI" \in ints
    BY <1>1, <2>3, RankIsPosition
  <2>4. CASE "MEI" \notin ints /\ "MSI" \notin ints /\ "MTI" \notin ints
    <3>1. ints \subseteq {"SEI", "SSI", "STI"}
      BY <1>1, <2>4
    <3>2. CASE "SEI" \in ints
      BY <3>1, <3>2, RankIsPosition
    <3>3. CASE "SEI" \notin ints /\ "SSI" \in ints
      BY <3>1, <3>3, RankIsPosition
    <3>4. CASE "SEI" \notin ints /\ "SSI" \notin ints
      <4>1. PICK i \in ints : TRUE
        OBVIOUS
      <4>2. \A j \in ints : i = "STI" /\ j = "STI"
        BY <3>1, <3>4
      <4> QED
        BY <4>1, <4>2, RankIsPosition
    <3> QED
      BY <3>2, <3>3, <3>4
  <2> QED
    BY <2>1, <2>2, <2>3, <2>4
<1> QED
  BY <1>2 DEF First

(* What is latched is pending, enabled and not masked by the mode.         *)
LEMMA CauseIsEnabled ==
    ASSUME TypeOK, NEW ext \in Lines, irq_pending(ext)
    PROVE  /\ irq_cause(ext) \in Interrupt /\ irq_cause(ext) \in mie
           /\ IF irq_cause(ext) \in mideleg THEN s_irq_enabled ELSE m_irq_enabled
<1>1. mip_live(ext) \subseteq Interrupt /\ mie \subseteq Interrupt
  BY DEF mip_live, Lines, TypeOK, Interrupt
<1>2. CASE m_irq_live(ext)
  <2>1. irq_cause(ext) \in mip_m_enabled(ext)
    BY <1>1, <1>2, FirstIsOne DEF irq_cause, m_irq_live, mip_m_enabled
  <2> QED
    BY <1>1, <1>2, <2>1 DEF m_irq_live, mip_m_enabled
<1>3. CASE ~m_irq_live(ext)
  <2>1. s_irq_live(ext)
    BY <1>3 DEF irq_pending
  <2>2. irq_cause(ext) \in mip_s_enabled(ext)
    BY <1>1, <1>3, <2>1, FirstIsOne DEF irq_cause, s_irq_live, mip_s_enabled
  <2> QED
    BY <1>1, <2>1, <2>2 DEF s_irq_live, mip_s_enabled
<1> QED
  BY <1>2, <1>3

-----------------------------------------------------------------------------
(* The inductive invariant.                                                *)

(* A latched cause is alone in the pipeline.                               *)
LatchedAlone == irq # NoInt => ~older

(* While a frame stands, the registers hold what the trap saved.           *)
MframeSaved ==
    mframe # NoFrame => /\ mframe.priv = mstatus.MPP /\ mframe.ie = mstatus.MPIE
                        /\ mframe.pc = mepc
SframeSaved ==
    sframe # NoFrame => /\ SavedBySpp(sframe.priv) = (IF mstatus.SPP THEN S ELSE U)
                        /\ sframe.ie = mstatus.SPIE /\ sframe.pc = sepc

FrameSaved == MframeSaved /\ SframeSaved

IInv == TypeOK /\ LatchedAlone /\ LatchedIsEnabled /\ FrameSaved

LEMMA InitIInv == Init => IInv
BY TrapsAssumption
   DEF Init, IInv, FrameSaved, TypeOK, LatchedAlone, LatchedIsEnabled, MframeSaved, SframeSaved, Mstatus,
       NoFrame, Priv, U, S, M, ResetPc

(* One field of mstatus may be written with any value of its type.         *)
LEMMA FieldWrite ==
    ASSUME NEW m \in Mstatus, NEW f \in DOMAIN m, NEW v \in Field(f)
    PROVE  /\ [m EXCEPT ![f] = v] \in Mstatus
           /\ \A g \in DOMAIN m : g # f => [m EXCEPT ![f] = v][g] = m[g]
<1>1. DOMAIN m = {"MIE", "MPIE", "MPP", "SIE", "SPIE", "SPP", "MPRV"}
  BY DEF Mstatus
<1>2. CASE f = "MPP"
  BY <1>2 DEF Mstatus, Field
<1>3. CASE f \in {"MIE", "MPIE", "SIE"}
  BY <1>3 DEF Mstatus, Field
<1>4. CASE f \in {"SPIE", "SPP", "MPRV"}
  BY <1>4 DEF Mstatus, Field
<1> QED
  BY <1>1, <1>2, <1>3, <1>4

-----------------------------------------------------------------------------
(* Type correctness, step by step.                                         *)

LEMMA TrapTypes ==
    ASSUME TypeOK, NEW cause, NEW epc \in PC, Trap(cause, epc), older' \in BOOLEAN,
           irq' \in Interrupt \cup {NoInt}
    PROVE  TypeOK'
<1>1. CASE trap_to_s(cause)
  <2>1. TrapToS(epc) /\ UNCHANGED regs
    BY <1>1 DEF Trap
  <2>2. priv_mode' \in Priv /\ mstatus' \in Mstatus
    BY <2>1 DEF TrapToS, TypeOK, Mstatus, Priv
  <2>3. sframe' \in Frame
    BY <2>1 DEF TrapToS, TypeOK, Mstatus, Frame
  <2> QED
    BY <2>1, <2>2, <2>3 DEF TrapToS, TypeOK, regs
<1>2. CASE ~trap_to_s(cause)
  <2>1. TrapToM(epc) /\ UNCHANGED regs
    BY <1>2 DEF Trap
  <2>2. priv_mode' \in Priv /\ mstatus' \in Mstatus
    BY <2>1 DEF TrapToM, TypeOK, Mstatus, Priv
  <2>3. mframe' \in Frame
    BY <2>1 DEF TrapToM, TypeOK, Mstatus, Frame
  <2> QED
    BY <2>1, <2>2, <2>3 DEF TrapToM, TypeOK, regs
<1> QED
  BY <1>1, <1>2

(* A write of one field: the frames it does not touch stay.                *)
LEMMA FieldTypes ==
    ASSUME TypeOK, NEW fields \in SUBSET DOMAIN mstatus, WriteField(fields)
    PROVE  mstatus' \in Mstatus /\ mframe' \in {mframe, NoFrame} /\ sframe' \in {sframe, NoFrame}
<1>0. PICK f \in fields : \E v \in Field(f) : WriteOf(f, v)
  BY DEF WriteField
<1>1. PICK v \in Field(f) : WriteOf(f, v)
  BY <1>0
<1>2. mstatus \in Mstatus /\ f \in DOMAIN mstatus
  BY DEF TypeOK
<1>3. [mstatus EXCEPT ![f] = v] \in Mstatus
  BY <1>2, FieldWrite
<1> QED
  BY <1>1, <1>3 DEF WriteOf

(* csr.sv: every register of the trap unit has its type, whatever is       *)
(* written to it.                                                          *)
THEOREM TypeCorrect == Spec => []TypeOK
<1>1. Init => TypeOK
  BY InitIInv DEF IInv
<1>2. TypeOK /\ [Next]_vars => TypeOK'
  <2> SUFFICES ASSUME TypeOK, [Next]_vars PROVE TypeOK'
    OBVIOUS
  <2> USE DEF regs, frames
  <2>1. ASSUME NEW ext \in Lines, Inject(ext) PROVE TypeOK'
    BY <2>1, CauseIsEnabled DEF Inject, allow_irq_inject, TypeOK
  <2>2. ASSUME NEW ext \in Lines, Issue(ext) PROVE TypeOK'
    BY <2>2 DEF Issue, TypeOK
  <2>3. ASSUME NEW ext \in Lines, WriteMip(ext) PROVE TypeOK'
    BY <2>3 DEF WriteMip, CsrWrite, TypeOK
  <2>4. ASSUME NEW epc \in PC, TakeInterrupt(epc) PROVE TypeOK'
    BY <2>4, TrapTypes DEF TakeInterrupt, TypeOK
  <2>5. ASSUME NEW epc \in PC, NEW cause \in Exc, TakeException(cause, epc) PROVE TypeOK'
    BY <2>5, TrapTypes DEF TakeException, TypeOK
  <2>6. ASSUME Commit PROVE TypeOK'
    BY <2>6 DEF Commit, TypeOK
  <2>7. ASSUME Mret PROVE TypeOK'
    <3>1. priv_mode' \in Priv /\ mstatus' \in Mstatus
      BY <2>7 DEF Mret, Restored, TypeOK, Mstatus, Priv
    <3> QED
      BY <2>7, <3>1 DEF Mret, TypeOK
  <2>8. ASSUME Sret PROVE TypeOK'
    <3>1. priv_mode' \in Priv /\ mstatus' \in Mstatus
      BY <2>8 DEF Sret, TypeOK, Mstatus, Priv
    <3> QED
      BY <2>8, <3>1 DEF Sret, TypeOK
  <2>9. ASSUME WriteMstatus PROVE TypeOK'
    <3>1. mstatus' \in Mstatus /\ mframe' \in {mframe, NoFrame} /\ sframe' \in {sframe, NoFrame}
      BY <2>9, FieldTypes DEF WriteMstatus
    <3> QED
      BY <2>9, <3>1 DEF WriteMstatus, CsrWrite, TypeOK
  <2>10. ASSUME WriteSstatus PROVE TypeOK'
    <3>1. {"SIE", "SPIE", "SPP"} \subseteq DOMAIN mstatus
      BY DEF TypeOK, Mstatus
    <3>2. mstatus' \in Mstatus /\ mframe' \in {mframe, NoFrame} /\ sframe' \in {sframe, NoFrame}
      BY <2>10, <3>1, FieldTypes DEF WriteSstatus
    <3> QED
      BY <2>10, <3>2 DEF WriteSstatus, CsrWrite, TypeOK
  <2>11. ASSUME WriteMie PROVE TypeOK'
    BY <2>11 DEF WriteMie, CsrWrite, TypeOK
  <2>12. ASSUME WriteSie PROVE TypeOK'
    BY <2>12 DEF WriteSie, SieWritten, CsrWrite, TypeOK
  <2>13. ASSUME WriteSip PROVE TypeOK'
    BY <2>13 DEF WriteSip, CsrWrite, TypeOK
  <2>14. ASSUME WriteDelegation PROVE TypeOK'
    BY <2>14 DEF WriteDelegation, CsrWrite, TypeOK
  <2>15. ASSUME WriteMepc PROVE TypeOK'
    BY <2>15 DEF WriteMepc, CsrWrite, TypeOK
  <2>16. ASSUME WriteSepc PROVE TypeOK'
    BY <2>16 DEF WriteSepc, CsrWrite, TypeOK
  <2>17. CASE UNCHANGED vars
    BY <2>17 DEF vars, pipe, TypeOK
  <2> QED
    BY <2>1, <2>2, <2>3, <2>4, <2>5, <2>6, <2>7, <2>8, <2>9, <2>10, <2>11, <2>12, <2>13,
       <2>14, <2>15, <2>16, <2>17 DEF Next
<1> QED
  BY <1>1, <1>2, PTL DEF Spec

-----------------------------------------------------------------------------
(* The parts of the invariant.                                             *)

LEMMA LatchStep ==
    ASSUME TypeOK, LatchedAlone, LatchedIsEnabled, [Next]_vars
    PROVE  LatchedAlone' /\ LatchedIsEnabled'
<1> USE DEF regs, frames, LatchedAlone, LatchedIsEnabled, m_irq_enabled, s_irq_enabled
<1>1. ASSUME NEW ext \in Lines, Inject(ext) PROVE LatchedAlone' /\ LatchedIsEnabled'
  BY <1>1, CauseIsEnabled DEF Inject, allow_irq_inject
<1>2. ASSUME NEW ext \in Lines, Issue(ext) PROVE LatchedAlone' /\ LatchedIsEnabled'
  BY <1>2 DEF Issue
<1>3. ASSUME older, older' = FALSE, irq' = irq PROVE LatchedAlone' /\ LatchedIsEnabled'
  BY <1>3
<1>4. ASSUME NEW epc \in PC, TakeInterrupt(epc) PROVE LatchedAlone' /\ LatchedIsEnabled'
  BY <1>4 DEF TakeInterrupt
<1>5. CASE UNCHANGED vars
  BY <1>5 DEF vars, pipe
<1>6. ASSUME NEW ext \in Lines, WriteMip(ext) PROVE older /\ older' = FALSE /\ irq' = irq
  BY <1>6 DEF WriteMip, CsrWrite
<1>7. ASSUME NEW epc \in PC, NEW cause \in Exc, TakeException(cause, epc)
      PROVE  older /\ older' = FALSE /\ irq' = irq
  BY <1>7 DEF TakeException
<1>8. ASSUME \/ Commit \/ Mret \/ Sret \/ WriteMstatus \/ WriteSstatus \/ WriteMie \/ WriteSie
             \/ WriteSip \/ WriteDelegation \/ WriteMepc \/ WriteSepc
      PROVE  older /\ older' = FALSE /\ irq' = irq
  BY <1>8 DEF Commit, Mret, Sret, WriteMstatus, WriteSstatus, WriteMie, WriteSie, WriteSip,
              WriteDelegation, WriteMepc, WriteSepc, CsrWrite
<1> QED
  BY <1>1, <1>2, <1>3, <1>4, <1>5, <1>6, <1>7, <1>8 DEF Next

LEMMA TrapFrames ==
    ASSUME TypeOK, FrameSaved, NEW cause, NEW epc \in PC, Trap(cause, epc)
    PROVE  FrameSaved'
<1>1. CASE trap_to_s(cause)
  <2>1. TrapToS(epc) /\ priv_mode \in {U, S, Reserved}
    BY <1>1 DEF Trap, trap_to_s, TypeOK, Priv
  <2>2. SframeSaved'
    <3>1. SavedBySpp(priv_mode) = (IF priv_mode = S THEN S ELSE U)
      BY <2>1 DEF SavedBySpp, U, S, Reserved
    <3>2. /\ sframe'.priv = priv_mode /\ sframe'.ie = mstatus.SIE /\ sframe'.pc = epc
          /\ sepc' = epc /\ mstatus'.SPIE = mstatus.SIE
      BY <2>1 DEF TrapToS, TypeOK, Mstatus
    <3>3. mstatus'.SPP <=> priv_mode = S
      BY <2>1 DEF TrapToS, TypeOK, Mstatus
    <3> QED
      BY <3>1, <3>2, <3>3 DEF SframeSaved, SavedBySpp
  <2>3. MframeSaved'
    BY <2>1 DEF TrapToS, MframeSaved, FrameSaved, TypeOK, Mstatus
  <2> QED
    BY <2>2, <2>3 DEF FrameSaved
<1>2. CASE ~trap_to_s(cause)
  <2>1. TrapToM(epc)
    BY <1>2 DEF Trap
  <2>2. MframeSaved'
    BY <2>1 DEF TrapToM, MframeSaved, TypeOK, Mstatus
  <2>3. SframeSaved'
    BY <2>1 DEF TrapToM, SframeSaved, FrameSaved, TypeOK, Mstatus
  <2> QED
    BY <2>2, <2>3 DEF FrameSaved
<1> QED
  BY <1>1, <1>2

LEMMA FieldFrames ==
    ASSUME TypeOK, FrameSaved, NEW fields \in SUBSET DOMAIN mstatus, WriteField(fields),
           mepc' = mepc, sepc' = sepc
    PROVE  FrameSaved'
<1>0. PICK f \in fields : \E v \in Field(f) : WriteOf(f, v)
  BY DEF WriteField
<1>1. PICK v \in Field(f) : WriteOf(f, v)
  BY <1>0
<1>2. mstatus \in Mstatus /\ f \in DOMAIN mstatus
  BY DEF TypeOK
<1>3. \A g \in DOMAIN mstatus : g # f => mstatus'[g] = mstatus[g]
  BY <1>1, <1>2, FieldWrite DEF WriteOf
<1>4. DOMAIN mstatus = {"MIE", "MPIE", "MPP", "SIE", "SPIE", "SPP", "MPRV"}
  BY <1>2 DEF Mstatus
<1>5. MframeSaved'
  <2>1. CASE f \in {"MPIE", "MPP"}
    BY <1>1, <2>1 DEF WriteOf, MframeSaved
  <2>2. CASE f \notin {"MPIE", "MPP"}
    <3>1. mstatus'["MPP"] = mstatus["MPP"] /\ mstatus'["MPIE"] = mstatus["MPIE"]
      BY <1>3, <1>4, <2>2
    <3> QED
      BY <1>1, <2>2, <3>1 DEF WriteOf, MframeSaved, FrameSaved
  <2> QED
    BY <2>1, <2>2
<1>6. SframeSaved'
  <2>1. CASE f \in {"SPIE", "SPP"}
    BY <1>1, <2>1 DEF WriteOf, SframeSaved
  <2>2. CASE f \notin {"SPIE", "SPP"}
    <3>1. mstatus'["SPP"] = mstatus["SPP"] /\ mstatus'["SPIE"] = mstatus["SPIE"]
      BY <1>3, <1>4, <2>2
    <3> QED
      BY <1>1, <2>2, <3>1 DEF WriteOf, SframeSaved, FrameSaved
  <2> QED
    BY <2>1, <2>2
<1> QED
  BY <1>5, <1>6 DEF FrameSaved

LEMMA FrameStep ==
    ASSUME TypeOK, FrameSaved, [Next]_vars
    PROVE  FrameSaved'
<1>1. ASSUME UNCHANGED <<mstatus, mepc, sepc, frames>> PROVE FrameSaved'
  BY <1>1 DEF FrameSaved, MframeSaved, SframeSaved, frames
<1>2. ASSUME NEW ext \in Lines, Inject(ext) \/ Issue(ext) \/ WriteMip(ext) PROVE FrameSaved'
  BY <1>1, <1>2 DEF Inject, Issue, WriteMip
<1>3. ASSUME Commit \/ WriteMie \/ WriteSie \/ WriteSip \/ WriteDelegation PROVE FrameSaved'
  BY <1>1, <1>3 DEF Commit, WriteMie, WriteSie, WriteSip, WriteDelegation
<1>4. ASSUME NEW epc \in PC, TakeInterrupt(epc) PROVE FrameSaved'
  BY <1>4, TrapFrames DEF TakeInterrupt
<1>5. ASSUME NEW epc \in PC, NEW cause \in Exc, TakeException(cause, epc) PROVE FrameSaved'
  BY <1>5, TrapFrames DEF TakeException
<1>6. ASSUME Mret PROVE FrameSaved'
  BY <1>6 DEF Mret, Restored, FrameSaved, MframeSaved, SframeSaved, TypeOK, Mstatus
<1>7. ASSUME Sret PROVE FrameSaved'
  BY <1>7 DEF Sret, FrameSaved, MframeSaved, SframeSaved, TypeOK, Mstatus
<1>8. ASSUME WriteMstatus PROVE FrameSaved'
  BY <1>8, FieldFrames DEF WriteMstatus
<1>9. ASSUME WriteSstatus PROVE FrameSaved'
  <2>1. {"SIE", "SPIE", "SPP"} \subseteq DOMAIN mstatus
    BY DEF TypeOK, Mstatus
  <2> QED
    BY <1>9, <2>1, FieldFrames DEF WriteSstatus
<1>10. ASSUME WriteMepc \/ WriteSepc PROVE FrameSaved'
  BY <1>10 DEF WriteMepc, WriteSepc, FrameSaved, MframeSaved, SframeSaved
<1>11. CASE UNCHANGED vars
  BY <1>1, <1>11 DEF vars
<1> QED
  BY <1>2, <1>3, <1>4, <1>5, <1>6, <1>7, <1>8, <1>9, <1>10, <1>11 DEF Next

(* csr.sv: what was latched is enabled and alone, and the fields of the    *)
(* trap that is to be returned from are the ones it saved.                 *)
THEOREM Inductive == Spec => []IInv
<1>1. ASSUME IInv, TypeOK', [Next]_vars PROVE IInv'
  BY <1>1, LatchStep, FrameStep DEF IInv
<1> QED
  BY <1>1, InitIInv, TypeCorrect, PTL DEF Spec

-----------------------------------------------------------------------------
(* The results.                                                            *)

(* An interrupt that was latched in decode is still enabled, and still due *)
(* to the same mode, when it traps in write back.                          *)
THEOREM TakenIsEnabled == Spec => []TakesWhatItLatched
BY Inductive, TypeCorrect, PTL DEF IInv, TakesWhatItLatched

(* MRET and SRET undo the trap, whatever nested in between.                *)
THEOREM TrapsReturn == Spec => ReturnsToInterrupted
<1>1. ASSUME IInv, mframe # NoFrame, Mret
      PROVE  priv_mode' = mframe.priv /\ mstatus'.MIE = mframe.ie /\ mepc = mframe.pc
  BY <1>1 DEF IInv, TypeOK, FrameSaved, MframeSaved, Mret, Restored, Mstatus
<1>2. ASSUME IInv, sframe # NoFrame, Sret
      PROVE  priv_mode' = SavedBySpp(sframe.priv) /\ mstatus'.SIE = sframe.ie /\ sepc = sframe.pc
  BY <1>2 DEF IInv, TypeOK, FrameSaved, SframeSaved, Sret, Mstatus
<1> QED
  BY <1>1, <1>2, Inductive, PTL DEF ReturnsToInterrupted

(* What M-mode owns is out of the reach of every other mode.               *)
Guarded == priv_mode # M => /\ Configuration' = Configuration
                            /\ priv_mode' # M => Saved' = Saved

LEMMA TrapGuarded ==
    ASSUME TypeOK, priv_mode # M, NEW cause, NEW epc \in PC, Trap(cause, epc)
    PROVE  Guarded
<1>1. CASE trap_to_s(cause)
  BY <1>1 DEF Trap, TrapToS, regs, Guarded, Configuration, Saved, TypeOK, Mstatus
<1>2. CASE ~trap_to_s(cause)
  BY <1>2 DEF Trap, TrapToM, regs, Guarded, Configuration
<1> QED
  BY <1>1, <1>2

LEMMA GuardedStep ==
    ASSUME TypeOK, priv_mode # M, [Next]_vars
    PROVE  Guarded
<1> USE DEF regs, Guarded, Configuration, Saved
<1>1. ASSUME NEW ext \in Lines, Inject(ext) \/ Issue(ext) PROVE Guarded
  BY <1>1 DEF Inject, Issue
<1>2. ASSUME NEW epc \in PC, TakeInterrupt(epc) PROVE Guarded
  BY <1>2, TrapGuarded DEF TakeInterrupt
<1>3. ASSUME NEW epc \in PC, NEW cause \in Exc, TakeException(cause, epc) PROVE Guarded
  BY <1>3, TrapGuarded DEF TakeException
<1>4. ASSUME Commit PROVE Guarded
  BY <1>4 DEF Commit
<1>5. ASSUME Sret PROVE Guarded
  BY <1>5 DEF Sret, TypeOK, Mstatus
<1>6. ASSUME WriteSstatus PROVE Guarded
  <2>1. PICK f \in {"SIE", "SPIE", "SPP"} : \E v \in Field(f) : WriteOf(f, v)
    BY <1>6 DEF WriteSstatus, WriteField
  <2>2. PICK v \in Field(f) : WriteOf(f, v)
    BY <2>1
  <2>3. mstatus \in Mstatus /\ DOMAIN mstatus = {"MIE", "MPIE", "MPP", "SIE", "SPIE", "SPP", "MPRV"}
    BY DEF TypeOK, Mstatus
  <2>4. mstatus'["MPP"] = mstatus["MPP"] /\ mstatus'["MPIE"] = mstatus["MPIE"]
           /\ mstatus'["MIE"] = mstatus["MIE"]
    BY <2>2, <2>3, FieldWrite DEF WriteOf
  <2> QED
    BY <1>6, <2>4 DEF WriteSstatus
<1>7. ASSUME WriteSie PROVE Guarded
  <2>1. PICK new \in SUBSET Interrupt : mie' = SieWritten(new)
    BY <1>7 DEF WriteSie
  <2>2. mie' \ mideleg = mie \ mideleg
    BY <2>1 DEF SieWritten
  <2> QED
    BY <1>7, <2>2 DEF WriteSie
<1>8. ASSUME WriteSip PROVE Guarded
  <2>1. mip_sw' \ {"SSI"} = mip_sw \ {"SSI"}
    BY <1>8 DEF WriteSip
  <2> QED
    BY <1>8, <2>1 DEF WriteSip
<1>9. ASSUME WriteSepc PROVE Guarded
  BY <1>9 DEF WriteSepc
<1>10. ASSUME \/ Mret \/ WriteMstatus \/ WriteMie \/ WriteDelegation \/ WriteMepc
              \/ \E ext \in Lines : WriteMip(ext)
       PROVE  FALSE
  <2>1. priv_mode \in {U, S, Reserved} /\ M = 3 /\ U = 0 /\ S = 1 /\ Reserved = 2
    BY DEF TypeOK, Priv, U, S, Reserved, M
  <2> QED
    BY <1>10, <2>1 DEF Mret, WriteMstatus, WriteMie, WriteDelegation, WriteMepc, WriteMip, CsrWrite
<1>11. CASE UNCHANGED vars
  BY <1>11 DEF vars
<1> QED
  BY <1>1, <1>2, <1>3, <1>4, <1>5, <1>6, <1>7, <1>8, <1>9, <1>10, <1>11 DEF Next

(* csr.sv: below M-mode neither a CSR write nor a trap that stays there    *)
(* changes what belongs to M-mode.                                         *)
THEOREM MachineIsGuarded == Spec => MachineStateGuarded
<1>1. TypeOK /\ [Next]_vars => [Guarded]_vars
  BY GuardedStep DEF Guarded
<1> QED
  BY <1>1, TypeCorrect, PTL DEF Spec, MachineStateGuarded, Guarded

-----------------------------------------------------------------------------
(* The interrupt demos.                                                    *)

ReadPlaces == {"hi1", "lo", "hi2"}
ArmPlaces == {"far", "set_lo", "set_hi"}
MainPlaces == {"enable", "spin", "disable", "exit", "raise"}

LEMMA Places ==
  /\ DOMAIN Access = ReadPlaces \cup ArmPlaces \cup {"raise", "clear"}
  /\ DOMAIN Access' = DOMAIN Access
BY DEF Access, ReadPlaces, ArmPlaces

(* The types, with a half in every response, which an access waits for.    *)
DemoTyped ==
  /\ DemoTypeOK
  /\ rsp.rdata \in Halves
  /\ asked => pc \in ReadPlaces \cup ArmPlaces \cup {"raise", "clear"}
  /\ back \in DOMAIN Access \cup {"enable", "spin", "disable", "exit", "handle", "mret"}

LEMMA CountedIs ==
  ASSUME NEW t \in Dword
  PROVE  /\ Counted(t) \in Dword
         /\ t.hi < FarFuture => Before(t, Counted(t)) /\ t.hi <= Counted(t).hi
         /\ Counted(t).lo = IF t.lo < Half - 1 THEN t.lo + 1 ELSE 0
         /\ Counted(t).hi = IF t.lo < Half - 1 THEN t.hi
                            ELSE IF t.hi < Half - 1 THEN t.hi + 1 ELSE 0
<1>1. Half \in Nat /\ Half > 1 /\ t.hi \in Halves /\ t.lo \in Halves
  BY HalfAssumption DEF Dword
<1>2. CASE t.lo < Half - 1
  <2>1. Counted(t) = [hi |-> t.hi, lo |-> t.lo + 1]
    BY <1>2 DEF Counted, Dword
  <2> QED BY <1>1, <1>2, <2>1 DEF Dword, Halves, Before
<1>3. CASE ~(t.lo < Half - 1)
  <2>1. Counted(t) = [hi |-> IF t.hi < Half - 1 THEN t.hi + 1 ELSE 0, lo |-> 0]
    BY <1>3 DEF Counted
  <2> QED BY <1>1, <1>3, <2>1 DEF Dword, Halves, Before, FarFuture
<1> QED BY <1>2, <1>3

LEMMA PlusIs ==
  ASSUME NEW t \in Dword PROVE Plus(t, Period) \in Dword
<1>1. Half \in Nat /\ Half > 1 /\ t.hi \in Halves /\ t.lo \in Halves /\ Period \in 1 .. Half - 1
  BY HalfAssumption, DemoAssumption DEF Dword
<1>2. CASE t.lo + Period < Half
  <2>1. Plus(t, Period) = [hi |-> t.hi, lo |-> t.lo + Period]
    BY <1>2 DEF Plus, Dword
  <2> QED BY <1>1, <1>2, <2>1 DEF Dword, Halves
<1>3. CASE ~(t.lo + Period < Half)
  <2>1. Plus(t, Period) = [hi |-> (t.hi + 1) % Half, lo |-> t.lo + Period - Half]
    BY <1>3 DEF Plus
  <2>2. (t.hi + 1) % Half \in Halves
    BY <1>1 DEF Halves
  <2> QED BY <1>1, <1>3, <2>1, <2>2 DEF Dword, Halves
<1> QED BY <1>2, <1>3

(* A clock edge without a request.                                         *)
LEMMA EdgeQuiet ==
  ASSUME ClintTypeOK, Edge(NoRequest)
  PROVE  /\ mtime' = Counted(mtime) /\ mtimecmp' = mtimecmp /\ msip' = msip
         /\ rsp' = [valid |-> FALSE, rdata |-> 0, fault |-> FALSE]
<1>1. mtime' = [hi |-> Counted(mtime).hi, lo |-> Counted(mtime).lo]
      /\ mtimecmp' = [hi |-> mtimecmp.hi, lo |-> mtimecmp.lo] /\ msip' = msip
      /\ rsp' = [valid |-> FALSE, rdata |-> 0, fault |-> FALSE]
  BY DEF Edge, NoRequest
<1>2. Counted(mtime) \in Dword /\ mtimecmp \in Dword
  BY CountedIs DEF ClintTypeOK
<1> QED BY <1>1, <1>2 DEF Dword

(* The clock edge of a load, and of a store to another register than the   *)
(* counter.                                                                *)
LEMMA EdgeRead ==
  ASSUME ClintTypeOK, NEW r, NEW off \in Offset, r = Read(off), Edge(r)
  PROVE  /\ mtime' = Counted(mtime) /\ mtimecmp' = mtimecmp /\ msip' = msip
         /\ rsp' = [valid |-> TRUE, rdata |-> Register(off), fault |-> FALSE]
<1>1. r.valid = TRUE /\ r.wen = FALSE /\ r.off = off
  BY DEF Read
<1>2. mtime' = [hi |-> Counted(mtime).hi, lo |-> Counted(mtime).lo]
      /\ mtimecmp' = [hi |-> mtimecmp.hi, lo |-> mtimecmp.lo] /\ msip' = msip
      /\ rsp' = [valid |-> TRUE, rdata |-> Register(off), fault |-> FALSE]
  BY <1>1 DEF Edge
<1>3. Counted(mtime) \in Dword /\ mtimecmp \in Dword
  BY CountedIs DEF ClintTypeOK
<1> QED BY <1>2, <1>3 DEF Dword

LEMMA EdgeStore ==
  ASSUME ClintTypeOK, NEW r, NEW off \in {"msip", "tcmp_lo", "tcmp_hi"}, NEW w,
         r = Store(off, w), Edge(r)
  PROVE  /\ mtime' = Counted(mtime)
         /\ mtimecmp' = [hi |-> IF off = "tcmp_hi" THEN w ELSE mtimecmp.hi,
                         lo |-> IF off = "tcmp_lo" THEN w ELSE mtimecmp.lo]
         /\ msip' = IF off = "msip" THEN WrittenMsip(w) ELSE msip
         /\ rsp' = [valid |-> TRUE, rdata |-> 0, fault |-> FALSE]
<1>1. r.valid = TRUE /\ r.wen = TRUE /\ r.off = off /\ r.wdata = w /\ off \in Offset
  BY DEF Store, Offset
<1>2. /\ mtime' = [hi |-> IF off = "mtime_hi" THEN w ELSE Counted(mtime).hi,
                   lo |-> IF off = "mtime_lo" THEN w ELSE Counted(mtime).lo]
      /\ mtimecmp' = [hi |-> IF off = "tcmp_hi" THEN w ELSE mtimecmp.hi,
                      lo |-> IF off = "tcmp_lo" THEN w ELSE mtimecmp.lo]
      /\ msip' = IF off = "msip" THEN WrittenMsip(w) ELSE msip
      /\ rsp' = [valid |-> TRUE, rdata |-> 0, fault |-> FALSE]
  BY <1>1 DEF Edge
<1>3. Counted(mtime) \in Dword /\ off # "mtime_hi" /\ off # "mtime_lo"
  BY CountedIs DEF ClintTypeOK
<1>4. mtime' = Counted(mtime)
  BY <1>2, <1>3 DEF Dword
<1> QED BY <1>2, <1>4

LEMMA MsipStores == \A w \in Nat : /\ w = 1 => WrittenMsip(w)
                                   /\ w < 1 => ~WrittenMsip(w)
BY DEF WrittenMsip

(* The clock edge of an access.                                            *)
LEMMA EdgeAccess ==
  ASSUME DemoTyped, Request
  PROVE  /\ mtime' = Counted(mtime)
         /\ mtimecmp' = [hi |-> IF pc = "far" THEN FarFuture
                                ELSE IF pc = "set_hi" THEN when.hi ELSE mtimecmp.hi,
                         lo |-> IF pc = "set_lo" THEN when.lo ELSE mtimecmp.lo]
         /\ msip' = IF pc = "raise" THEN TRUE ELSE IF pc = "clear" THEN FALSE ELSE msip
         /\ rsp' = [valid |-> TRUE,
                    rdata |-> IF pc \in {"hi1", "hi2"} THEN mtime.hi
                              ELSE IF pc = "lo" THEN mtime.lo ELSE 0,
                    fault |-> FALSE]
<1>1. ClintTypeOK /\ mtimecmp = [hi |-> mtimecmp.hi, lo |-> mtimecmp.lo]
  BY DEF DemoTyped, DemoTypeOK, ClintTypeOK, Dword
<1>2. Edge(Access[pc]) /\ pc \in ReadPlaces \cup ArmPlaces \cup {"raise", "clear"}
  BY Places DEF Request
<1>3. CASE pc \in {"hi1", "hi2"}
  <2>1. Access[pc] = Read("mtime_hi")
    BY <1>3 DEF Access
  <2>2. Register("mtime_hi") = mtime.hi
    BY DEF Register
  <2>3. /\ mtime' = Counted(mtime) /\ mtimecmp' = mtimecmp /\ msip' = msip
        /\ rsp' = [valid |-> TRUE, rdata |-> Register("mtime_hi"), fault |-> FALSE]
    BY <1>1, <1>2, <2>1, EdgeRead DEF Offset
  <2> QED BY <1>1, <1>3, <2>2, <2>3
<1>4. CASE pc = "lo"
  <2>1. Access[pc] = Read("mtime_lo")
    BY <1>4 DEF Access
  <2>2. Register("mtime_lo") = mtime.lo
    BY DEF Register
  <2>3. /\ mtime' = Counted(mtime) /\ mtimecmp' = mtimecmp /\ msip' = msip
        /\ rsp' = [valid |-> TRUE, rdata |-> Register("mtime_lo"), fault |-> FALSE]
    BY <1>1, <1>2, <2>1, EdgeRead DEF Offset
  <2> QED BY <1>1, <1>4, <2>2, <2>3
<1>5. CASE pc = "far"
  <2>1. Access[pc] = Store("tcmp_hi", FarFuture)
    BY <1>5 DEF Access
  <2>2. /\ mtime' = Counted(mtime)
        /\ mtimecmp' = [hi |-> FarFuture, lo |-> mtimecmp.lo]
        /\ msip' = msip
        /\ rsp' = [valid |-> TRUE, rdata |-> 0, fault |-> FALSE]
    BY <1>1, <1>2, <2>1, EdgeStore
  <2> QED BY <1>5, <2>2
<1>6. CASE pc = "set_lo"
  <2>1. Access[pc] = Store("tcmp_lo", when.lo)
    BY <1>6 DEF Access
  <2>2. /\ mtime' = Counted(mtime)
        /\ mtimecmp' = [hi |-> mtimecmp.hi, lo |-> when.lo]
        /\ msip' = msip
        /\ rsp' = [valid |-> TRUE, rdata |-> 0, fault |-> FALSE]
    BY <1>1, <1>2, <2>1, EdgeStore
  <2> QED BY <1>6, <2>2
<1>7. CASE pc = "set_hi"
  <2>1. Access[pc] = Store("tcmp_hi", when.hi)
    BY <1>7 DEF Access
  <2>2. /\ mtime' = Counted(mtime)
        /\ mtimecmp' = [hi |-> when.hi, lo |-> mtimecmp.lo]
        /\ msip' = msip
        /\ rsp' = [valid |-> TRUE, rdata |-> 0, fault |-> FALSE]
    BY <1>1, <1>2, <2>1, EdgeStore
  <2> QED BY <1>7, <2>2
<1>8. CASE pc = "raise"
  <2>1. Access[pc] = Store("msip", 1)
    BY <1>8 DEF Access
  <2>2. /\ mtime' = Counted(mtime)
        /\ mtimecmp' = [hi |-> mtimecmp.hi, lo |-> mtimecmp.lo]
        /\ msip' = WrittenMsip(1)
        /\ rsp' = [valid |-> TRUE, rdata |-> 0, fault |-> FALSE]
    BY <1>1, <1>2, <2>1, EdgeStore
  <2>3. WrittenMsip(1) = TRUE
    BY MsipStores DEF WrittenMsip
  <2> QED BY <1>8, <2>2, <2>3
<1>9. CASE pc = "clear"
  <2>1. Access[pc] = Store("msip", 0)
    BY <1>9 DEF Access
  <2>2. /\ mtime' = Counted(mtime)
        /\ mtimecmp' = [hi |-> mtimecmp.hi, lo |-> mtimecmp.lo]
        /\ msip' = WrittenMsip(0)
        /\ rsp' = [valid |-> TRUE, rdata |-> 0, fault |-> FALSE]
    BY <1>1, <1>2, <2>1, EdgeStore
  <2>3. WrittenMsip(0) = FALSE
    BY MsipStores DEF WrittenMsip
  <2> QED BY <1>9, <2>2, <2>3
<1> QED BY <1>2, <1>3, <1>4, <1>5, <1>6, <1>7, <1>8, <1>9 DEF ReadPlaces, ArmPlaces

(* Every step but an access leaves the timer's and the software interrupt's *)
(* registers alone.                                                        *)
LEMMA QuietStep ==
  ASSUME ClintTypeOK,
         Response \/ Enable \/ LeaveLoop \/ Disable
         \/ Exit \/ Enter \/ Handle \/ LeaveHandler \/ Idle
  PROVE  /\ mtime' = Counted(mtime) /\ mtimecmp' = mtimecmp /\ msip' = msip
         /\ rsp' = [valid |-> FALSE, rdata |-> 0, fault |-> FALSE]
         /\ demo' = demo
<1>1. Edge(NoRequest) /\ demo' = demo
  BY DEF Response, Enable, LeaveLoop, Disable, Exit, Enter, Handle, LeaveHandler, Idle
<1> QED BY <1>1, EdgeQuiet

LEMMA QuietTyped ==
  ASSUME DemoTyped,
         Response \/ Enable \/ LeaveLoop \/ Disable
         \/ Exit \/ Enter \/ Handle \/ LeaveHandler \/ Idle
  PROVE  ClintTypeOK' /\ rsp'.rdata \in Halves /\ demo' = demo
<1>1. ClintTypeOK
  BY DEF DemoTyped, DemoTypeOK
<1>2. /\ mtime' = Counted(mtime) /\ mtimecmp' = mtimecmp /\ msip' = msip /\ demo' = demo
      /\ rsp' = [valid |-> FALSE, rdata |-> 0, fault |-> FALSE]
  BY <1>1, QuietStep
<1>3. mtime' \in Dword /\ 0 \in Halves
  BY <1>1, <1>2, CountedIs, HalfAssumption DEF ClintTypeOK, Halves
<1> QED BY <1>1, <1>2, <1>3 DEF ClintTypeOK, Halves

LEMMA InitTyped == ASSUME DemoInit PROVE DemoTyped
<1>1. Half \in Nat /\ Half > 1 /\ MaxIdle \in Nat
  BY HalfAssumption, DemoAssumption
<1>2. ClintTypeOK /\ rsp.rdata \in Halves
  <2>1. 0 \in Halves /\ Half - 1 \in Halves /\ 0 \in Nat
    BY <1>1 DEF Halves
  <2> QED BY <2>1 DEF DemoInit, InitClint, ClintTypeOK, Dword
<1>3. pc \in DOMAIN Access \cup {"enable", "spin", "disable", "exit", "handle", "mret"}
  BY Places DEF DemoInit, ReadPlaces
<1>4. Zero \in Dword /\ 0 \in Halves
  BY <1>1 DEF Zero, Dword, Halves
<1>5. /\ demo \in {"timer", "swi"} /\ asked = FALSE /\ idle = 0 /\ handler = FALSE /\ MIE = FALSE
      /\ hi1 = 0 /\ lo = 0 /\ when = Zero /\ began = Zero /\ read = Zero
      /\ irq_count = 0 /\ exit = -1 /\ back = "spin"
  BY DEF DemoInit
<1>6. idle \in 0 .. MaxIdle /\ exit \in {-1, 0, 1} /\ irq_count \in Nat
  BY <1>1, <1>5
<1>7. asked \in BOOLEAN /\ handler \in BOOLEAN /\ MIE \in BOOLEAN /\ ~asked
  BY <1>5
<1>8. hi1 \in Halves /\ lo \in Halves /\ when \in Dword /\ began \in Dword /\ read \in Dword
  BY <1>4, <1>5
<1> QED BY <1>2, <1>3, <1>5, <1>6, <1>7, <1>8 DEF DemoTyped, DemoTypeOK

LEMMA ResponseTyped == ASSUME DemoTyped, Response PROVE DemoTyped'
<1> USE DEF DemoTyped, DemoTypeOK
<1>1. ClintTypeOK' /\ rsp'.rdata \in Halves /\ demo' = demo
  BY QuietTyped
<1>2. pc' \in DOMAIN Access \cup {"enable", "spin", "disable", "exit", "handle", "mret"}
  <2>1. pc \in ReadPlaces \cup ArmPlaces \cup {"raise", "clear"} =>
          pc' \in ReadPlaces \cup ArmPlaces \cup {"spin", "enable", "mret"}
    BY DEF Response, ReadPlaces, ArmPlaces
  <2> QED BY <2>1, Places DEF Response
<1>3. hi1' \in Halves /\ lo' \in Halves
  BY DEF Response
<1>4. read' \in Dword /\ when' \in Dword
  <2>1. CASE pc = "hi2" /\ Agree(hi1, rsp.rdata)
    <3>1. read' = [hi |-> hi1, lo |-> lo] /\ when' = Plus(read', Period)
      BY <2>1 DEF Response
    <3> QED BY <3>1, PlusIs DEF Dword
  <2>2. CASE ~(pc = "hi2" /\ Agree(hi1, rsp.rdata))
    BY <2>2 DEF Response
  <2> QED BY <2>1, <2>2
<1>5. /\ asked' = FALSE /\ idle' = 0 /\ MaxIdle \in Nat
      /\ UNCHANGED <<demo, handler, back, MIE, irq_count, last_cause, exit, began>>
  BY DemoAssumption DEF Response
<1>6. idle' \in 0 .. MaxIdle
  BY <1>5
<1>7. asked' \in BOOLEAN /\ ~asked'
  BY <1>5
<1>8. /\ handler' \in BOOLEAN /\ MIE' \in BOOLEAN /\ irq_count' \in Nat /\ exit' \in {-1, 0, 1}
      /\ began' \in Dword /\ demo' \in {"timer", "swi"}
      /\ back' \in DOMAIN Access \cup {"enable", "spin", "disable", "exit", "handle", "mret"}
  BY <1>5
<1> QED BY <1>1, <1>2, <1>3, <1>4, <1>6, <1>7, <1>8, Places

LEMMA StepTyped == ASSUME DemoTyped, [DemoNext]_demoVars PROVE DemoTyped'
<1>0. /\ MaxIdle \in Nat /\ ClintTypeOK /\ mtime \in Dword /\ mtimecmp \in Dword /\ when \in Dword
      /\ Half \in Nat /\ Half > 1 /\ rsp.rdata \in Halves
  BY DemoAssumption, HalfAssumption DEF DemoTyped, DemoTypeOK, ClintTypeOK
<1>1. CASE Request
  <2>1. /\ mtime' = Counted(mtime)
        /\ mtimecmp' = [hi |-> IF pc = "far" THEN FarFuture
                               ELSE IF pc = "set_hi" THEN when.hi ELSE mtimecmp.hi,
                        lo |-> IF pc = "set_lo" THEN when.lo ELSE mtimecmp.lo]
        /\ msip' = IF pc = "raise" THEN TRUE ELSE IF pc = "clear" THEN FALSE ELSE msip
        /\ rsp' = [valid |-> TRUE,
                   rdata |-> IF pc \in {"hi1", "hi2"} THEN mtime.hi
                             ELSE IF pc = "lo" THEN mtime.lo ELSE 0,
                   fault |-> FALSE]
    BY <1>1, EdgeAccess
  <2>2. /\ pc' = pc /\ pc \in DOMAIN Access /\ asked' = TRUE /\ idle' = 0
        /\ UNCHANGED <<demo, handler, MIE, hi1, lo, when, irq_count, exit, began, read>>
    BY <1>1 DEF Request
  <2>3. FarFuture \in Halves /\ 0 \in Halves
    BY <1>0 DEF FarFuture, Halves
  <2>4. mtimecmp' \in Dword
    BY <1>0, <2>1, <2>3 DEF Dword
  <2>5. mtime' \in Dword /\ msip' \in BOOLEAN
    BY <1>0, <2>1, CountedIs DEF ClintTypeOK
  <2>6. rsp'.rdata \in Halves /\ rsp' \in [valid : BOOLEAN, rdata : Nat, fault : BOOLEAN]
    <3>1. (IF pc \in {"hi1", "hi2"} THEN mtime.hi ELSE IF pc = "lo" THEN mtime.lo ELSE 0) \in Halves
      BY <1>0, <2>3 DEF Dword
    <3> DEFINE h == IF pc \in {"hi1", "hi2"} THEN mtime.hi ELSE IF pc = "lo" THEN mtime.lo ELSE 0
    <3>2. rsp' = [valid |-> TRUE, rdata |-> h, fault |-> FALSE] /\ h \in Halves
      BY <2>1, <3>1
    <3> HIDE DEF h
    <3>3. \A x \in Halves : x \in Nat
      BY <1>0 DEF Halves
    <3> QED BY <3>2, <3>3
  <2>7. idle' \in 0 .. MaxIdle
    BY <1>0, <2>2
  <2>8. asked' \in BOOLEAN
    BY <2>2
  <2>9. /\ handler' \in BOOLEAN /\ MIE' \in BOOLEAN /\ irq_count' \in Nat /\ exit' \in {-1, 0, 1}
        /\ demo' \in {"timer", "swi"} /\ pc \in DOMAIN Access
        /\ hi1' \in Halves /\ lo' \in Halves /\ when' \in Dword /\ began' \in Dword /\ read' \in Dword
        /\ back' \in DOMAIN Access \cup {"enable", "spin", "disable", "exit", "handle", "mret"}
    BY <1>1, <2>2 DEF DemoTyped, DemoTypeOK, Request
  <2> QED BY <2>2, <2>4, <2>5, <2>6, <2>7, <2>8, <2>9, Places DEF DemoTyped, DemoTypeOK, ClintTypeOK
<1>2. CASE Response
  BY <1>2, ResponseTyped
<1>3. CASE Enable \/ LeaveLoop \/ Disable \/ Exit \/ Enter \/ Handle \/ LeaveHandler \/ Idle
  <2>1. ClintTypeOK' /\ rsp'.rdata \in Halves /\ demo' = demo
    BY <1>3, QuietTyped
  <2>2. /\ pc' \in DOMAIN Access \cup {"enable", "spin", "disable", "exit", "handle", "mret"}
        /\ asked' = asked /\ ~asked
        /\ back' \in DOMAIN Access \cup {"enable", "spin", "disable", "exit", "handle", "mret"}
        /\ UNCHANGED <<hi1, lo, when, read>>
    <3> USE Places DEF DemoTyped, DemoTypeOK, ReadPlaces, ArmPlaces
    <3>1. CASE Enable
      BY <3>1 DEF Enable
    <3>2. CASE LeaveLoop
      BY <3>2 DEF LeaveLoop
    <3>3. CASE Disable
      BY <3>3 DEF Disable
    <3>4. CASE Exit
      BY <3>4 DEF Exit
    <3>5. CASE Enter
      BY <3>5 DEF Enter
    <3>6. CASE Handle
      BY <3>6 DEF Handle
    <3>7. CASE LeaveHandler
      BY <3>7 DEF LeaveHandler
    <3>8. CASE Idle
      BY <3>8 DEF Idle
    <3> QED BY <1>3, <3>1, <3>2, <3>3, <3>4, <3>5, <3>6, <3>7, <3>8
  <2>3. /\ idle' \in 0 .. MaxIdle /\ handler' \in BOOLEAN /\ MIE' \in BOOLEAN /\ began' \in Dword
        /\ irq_count' \in Nat /\ exit' \in {-1, 0, 1}
    <3> USE DEF DemoTyped, DemoTypeOK
    <3>1. idle' = 0 \/ (idle' = idle + 1 /\ idle < MaxIdle)
      <4>1. CASE Idle
        BY <4>1 DEF Idle
      <4>2. CASE ~Idle
        BY <1>3, <4>2 DEF Enable, LeaveLoop, Disable, Exit, Enter, Handle, LeaveHandler
      <4> QED BY <4>1, <4>2
    <3>2. handler' \in BOOLEAN /\ MIE' \in BOOLEAN
      BY <1>3 DEF Enable, LeaveLoop, Disable, Exit, Enter, Handle, LeaveHandler, Idle
    <3>3. began' \in Dword
      BY <1>0, <1>3 DEF Enable, LeaveLoop, Disable, Exit, Enter, Handle, LeaveHandler, Idle
    <3>4. irq_count' = irq_count \/ irq_count' = irq_count + 1
      BY <1>3 DEF Enable, LeaveLoop, Disable, Exit, Enter, Handle, LeaveHandler, Idle
    <3>5. exit' = exit \/ exit' = 0 \/ exit' = 1
      BY <1>3 DEF Enable, LeaveLoop, Disable, Exit, Enter, Handle, LeaveHandler, Idle
    <3>6. idle' \in 0 .. MaxIdle
      BY <1>0, <3>1
    <3> QED BY <3>2, <3>3, <3>4, <3>5, <3>6
  <2>4. asked' \in BOOLEAN /\ ~asked'
    BY <2>2 DEF DemoTyped, DemoTypeOK
  <2>5. /\ hi1' \in Halves /\ lo' \in Halves /\ when' \in Dword /\ read' \in Dword
        /\ demo' \in {"timer", "swi"}
    BY <2>1, <2>2 DEF DemoTyped, DemoTypeOK
  <2> QED BY <2>1, <2>2, <2>3, <2>4, <2>5, Places DEF DemoTyped, DemoTypeOK
<1>4. CASE UNCHANGED demoVars
  BY <1>4, Places DEF demoVars, clint, software, DemoTyped, DemoTypeOK, ClintTypeOK
<1> QED BY <1>1, <1>2, <1>3, <1>4 DEF DemoNext

(* Where main and its handler can be, and that the handler is not          *)
(* interrupted.                                                            *)
Flow ==
  /\ back \in {"spin", "disable"}
  /\ MIE => ~handler /\ pc \in {"spin", "disable", "raise"}
  /\ handler => pc \in ReadPlaces \cup ArmPlaces \cup {"handle", "clear", "mret"}
  /\ pc \in {"handle", "clear", "mret"} => handler
  /\ demo = "timer" => pc \notin {"raise", "clear"}
  /\ demo = "swi" => pc \notin ReadPlaces \cup ArmPlaces

(* The comparand while arm_mtimecmp stores it, and at all other times.     *)
Arming ==
  /\ demo = "timer" /\ pc \notin ReadPlaces => when = Plus(read, Period)
  /\ (pc = "far" /\ asked) \/ pc = "set_lo" \/ (pc = "set_hi" /\ ~asked) =>
       mtimecmp.hi = FarFuture
  /\ (pc = "set_lo" /\ asked) \/ pc = "set_hi" => mtimecmp.lo = when.lo
  /\ pc = "set_hi" /\ asked => mtimecmp = when
  /\ demo = "timer" /\ pc \notin ReadPlaces \cup ArmPlaces => mtimecmp = when

(* The software interrupt is raised once, and cleared by its handler.      *)
RaisedOnce ==
  demo = "swi" =>
    /\ pc \in {"enable", "raise"} => irq_count = 0
    /\ pc = "enable" \/ (pc = "raise" /\ ~asked) => ~msip
    /\ pc = "mret" \/ (pc = "clear" /\ asked) => ~msip
    /\ msip /\ ~handler => irq_count = 0

DemoInv == DemoTyped /\ Flow /\ Arming /\ RaisedOnce

LEMMA InitDemo == ASSUME DemoInit PROVE DemoInv
<1>1. Flow /\ Arming /\ RaisedOnce
  BY DEF DemoInit, InitClint, Flow, Arming, RaisedOnce, ReadPlaces, ArmPlaces
<1> QED BY <1>1, InitTyped DEF DemoInv

LEMMA RequestDemo == ASSUME DemoInv, Request PROVE Flow' /\ Arming' /\ RaisedOnce'
<1>1. /\ pc' = pc /\ ~asked /\ asked'
      /\ UNCHANGED <<demo, handler, back, MIE, when, irq_count, read>>
      /\ pc \in ReadPlaces \cup ArmPlaces \cup {"raise", "clear"}
  BY Places DEF Request
<1>2. /\ mtimecmp' = [hi |-> IF pc = "far" THEN FarFuture
                             ELSE IF pc = "set_hi" THEN when.hi ELSE mtimecmp.hi,
                      lo |-> IF pc = "set_lo" THEN when.lo ELSE mtimecmp.lo]
      /\ msip' = IF pc = "raise" THEN TRUE ELSE IF pc = "clear" THEN FALSE ELSE msip
  BY EdgeAccess DEF DemoInv
<1>3. Flow'
  BY <1>1 DEF DemoInv, Flow
<1>4. Arming'
  <2>1. when = [hi |-> when.hi, lo |-> when.lo]
    BY DEF DemoInv, DemoTyped, DemoTypeOK, Dword
  <2>2. /\ pc = "far" => mtimecmp'.hi = FarFuture
        /\ pc \in {"set_lo"} => mtimecmp'.hi = mtimecmp.hi /\ mtimecmp'.lo = when.lo
        /\ pc = "set_hi" => mtimecmp' = [hi |-> when.hi, lo |-> mtimecmp.lo]
    BY <1>2
  <2>3. demo = "timer" => pc \in ReadPlaces \cup ArmPlaces
    BY <1>1 DEF DemoInv, Flow
  <2>4. (demo = "timer" /\ pc \notin ReadPlaces => when = Plus(read, Period))'
    BY <1>1 DEF DemoInv, Arming
  <2>5. pc = "set_hi" => mtimecmp' = when /\ mtimecmp'.lo = when.lo
    BY <2>1, <2>2 DEF DemoInv, Arming
  <2>6. pc = "set_lo" => mtimecmp'.hi = FarFuture
    BY <2>2 DEF DemoInv, Arming
  <2> QED BY <1>1, <2>2, <2>3, <2>4, <2>5, <2>6 DEF Arming
<1>5. RaisedOnce'
  BY <1>1, <1>2 DEF DemoInv, RaisedOnce, Flow
<1> QED BY <1>3, <1>4, <1>5

LEMMA ResponseDemo == ASSUME DemoInv, Response PROVE Flow' /\ Arming' /\ RaisedOnce'
<1>1. /\ asked /\ ~asked' /\ UNCHANGED <<demo, handler, back, MIE, irq_count>>
      /\ pc \in ReadPlaces \cup ArmPlaces \cup {"raise", "clear"}
  BY DEF Response, DemoInv, DemoTyped
<1>2. mtimecmp' = mtimecmp /\ msip' = msip
  BY QuietStep DEF DemoInv, DemoTyped, DemoTypeOK
<1>3. /\ pc = "hi1" => pc' = "lo"
      /\ pc = "lo" => pc' = "hi2"
      /\ pc = "hi2" => pc' \in {"far", "hi1"}
      /\ pc = "far" => pc' = "set_lo"
      /\ pc = "set_lo" => pc' = "set_hi"
      /\ pc = "set_hi" => pc' = IF handler THEN "mret" ELSE "enable"
      /\ pc = "raise" => pc' = "spin"
      /\ pc = "clear" => pc' = "mret"
  BY DEF Response
<1>4. /\ pc # "hi2" => UNCHANGED <<read, when>>
      /\ pc = "hi2" => pc' = "hi1" \/ when' = Plus(read', Period)
  BY DEF Response
<1>5. Flow'
  BY <1>1, <1>3 DEF DemoInv, Flow, ReadPlaces, ArmPlaces
<1>6. Arming'
  <2>1. CASE pc \in ReadPlaces
    BY <1>1, <1>3, <1>4, <2>1 DEF Arming, ReadPlaces, ArmPlaces, DemoInv, Flow
  <2>2. CASE pc \in ArmPlaces
    BY <1>1, <1>2, <1>3, <1>4, <2>2 DEF Arming, ReadPlaces, ArmPlaces, DemoInv, Flow
  <2>3. CASE pc \in {"raise", "clear"}
    BY <1>1, <1>3, <2>3 DEF Arming, ReadPlaces, ArmPlaces, DemoInv, Flow, DemoTyped, DemoTypeOK
  <2> QED BY <1>1, <2>1, <2>2, <2>3
<1>7. RaisedOnce'
  BY <1>1, <1>2, <1>3 DEF DemoInv, RaisedOnce, Flow, ReadPlaces, ArmPlaces
<1> QED BY <1>5, <1>6, <1>7

LEMMA StepDemo == ASSUME DemoInv, [DemoNext]_demoVars PROVE DemoInv'
<1>0. DemoTyped'
  BY StepTyped DEF DemoInv
<1> SUFFICES Flow' /\ Arming' /\ RaisedOnce'
  BY <1>0 DEF DemoInv
<1> USE DEF DemoInv
<1>1. CASE Request
  BY <1>1, RequestDemo
<1>2. CASE Response
  BY <1>2, ResponseDemo
<1>3. CASE Enable \/ LeaveLoop \/ Disable \/ Exit \/ Enter \/ Handle \/ LeaveHandler \/ Idle
  <2>1. mtimecmp' = mtimecmp /\ msip' = msip /\ demo' = demo
    BY <1>3, QuietStep DEF DemoTyped, DemoTypeOK
  <2>2. when' = when /\ read' = read /\ asked' = asked
    BY <1>3 DEF Enable, LeaveLoop, Disable, Exit, Enter, Handle, LeaveHandler, Idle
  <2> USE <2>1, <2>2 DEF Flow, Arming, RaisedOnce, ReadPlaces, ArmPlaces
  <2>3. CASE Enable
    BY <2>3 DEF Enable, DemoTyped, DemoTypeOK
  <2>4. CASE LeaveLoop
    BY <2>4 DEF LeaveLoop
  <2>5. CASE Disable
    BY <2>5 DEF Disable
  <2>6. CASE Exit
    BY <2>6 DEF Exit
  <2>7. CASE Enter
    BY <2>7 DEF Enter, Pending, Expected, msi, DemoTyped, DemoTypeOK
  <2>8. CASE Handle
    <3>1. /\ pc = "handle" /\ pc' = IF demo = "timer" THEN "hi1" ELSE "clear"
          /\ UNCHANGED <<handler, back, MIE, asked>>
      BY <2>8 DEF Handle
    <3>2. ~asked /\ handler
      BY <3>1 DEF DemoTyped
    <3>3. Flow'
      BY <3>1
    <3>4. Arming'
      BY <3>1
    <3>5. RaisedOnce'
      BY <3>1, <3>2
    <3> QED BY <3>3, <3>4, <3>5
  <2>9. CASE LeaveHandler
    BY <2>9 DEF LeaveHandler
  <2>10. CASE Idle
    BY <2>10 DEF Idle
  <2> QED BY <1>3, <2>3, <2>4, <2>5, <2>6, <2>7, <2>8, <2>9, <2>10
<1>4. CASE UNCHANGED demoVars
  BY <1>4 DEF demoVars, clint, software, Flow, Arming, RaisedOnce
<1> QED BY <1>1, <1>2, <1>3, <1>4 DEF DemoNext

(* irq_timer.c and irq_swi.c: a timer interrupt is taken no earlier than   *)
(* one period after the time the program read, and the software interrupt  *)
(* once.                                                                   *)
THEOREM TakenOnTime == DemoSpec => TicksOnTime
<1> DEFINE A == handler' /\ ~handler =>
                  IF demo = "timer" THEN ~Before(mtime, Plus(read, Period)) ELSE irq_count = 0
<1>1. DemoInv /\ [DemoNext]_demoVars => [A]_demoVars
  <2> SUFFICES ASSUME DemoInv, DemoNext, handler', ~handler
               PROVE  IF demo = "timer" THEN ~Before(mtime, Plus(read, Period)) ELSE irq_count = 0
    OBVIOUS
  <2>1. Enter
    BY DEF DemoNext, Request, Response, Enable, LeaveLoop, Disable, Exit, Handle, LeaveHandler,
         Idle, DemoInv, Flow
  <2>2. ~asked /\ Pending
    BY <2>1 DEF Enter
  <2>3. CASE demo = "timer"
    <3>1. mti /\ MIE
      BY <2>2, <2>3 DEF Pending, Expected
    <3>2. pc \in {"spin", "disable"}
      BY <2>3, <3>1 DEF DemoInv, Flow
    <3>3. mtimecmp = when /\ when = Plus(read, Period)
      BY <2>3, <3>2 DEF DemoInv, Arming, ReadPlaces, ArmPlaces
    <3> QED BY <2>3, <3>1, <3>3 DEF mti, Reached
  <2>4. CASE demo # "timer"
    <3>1. msip
      BY <2>2, <2>4 DEF Pending, Expected, msi
    <3> QED BY <2>4, <3>1 DEF DemoInv, RaisedOnce, DemoTyped, DemoTypeOK
  <2> QED BY <2>3, <2>4
<1>2. DemoSpec => []DemoInv
  BY InitDemo, StepDemo, PTL DEF DemoSpec
<1> QED BY <1>1, <1>2, PTL DEF DemoSpec, TicksOnTime

(* The counter does not come to its end while the program runs.            *)
Lasts == mtime.hi < FarFuture

(* irq_timer.c, arm_mtimecmp: while the two halves of mtimecmp are stored  *)
(* one after the other the line stays low, so that no interrupt comes of a *)
(* comparand that is half old; as long as the counter is not in the last   *)
(* 2^32 cycles of its 2^64 (Lasts), where the far future that arm_mtimecmp *)
(* stores first is no longer ahead.                                        *)
THEOREM ArmsQuietly == DemoSpec /\ []Lasts => []QuietWhileArming
<1>1. DemoInv /\ Lasts => QuietWhileArming
  <2> SUFFICES ASSUME DemoInv, Lasts PROVE QuietWhileArming
    OBVIOUS
  <2>1. mtime \in Dword /\ mtimecmp \in Dword /\ Half \in Nat
    BY HalfAssumption DEF DemoInv, DemoTyped, DemoTypeOK, ClintTypeOK
  <2>2. mtimecmp.hi = FarFuture => ~mti
    BY <2>1 DEF Lasts, FarFuture, mti, Reached, Before, Dword, Halves
  <2>3. mtimecmp = when => (mti <=> ~Before(mtime, when))
    BY DEF mti, Reached
  <2>4. pc \in {"set_lo", "set_hi"} => mtimecmp.hi = FarFuture \/ mtimecmp = when
    BY DEF DemoInv, Arming
  <2>5. MIE /\ demo = "timer" => mtimecmp = when
    BY DEF DemoInv, Flow, Arming, ReadPlaces, ArmPlaces
  <2> QED BY <2>2, <2>3, <2>4, <2>5 DEF QuietWhileArming, DemoInv, DemoTyped
<1> QED BY <1>1, InitDemo, StepDemo, PTL DEF DemoSpec

-----------------------------------------------------------------------------
(* What read_mtime returns.                                                *)

(* Some time between two others had the low half l, and a high half        *)
(* between first and last.                                                 *)
Was(l, first, last, from, till) ==
  \E h \in Halves : /\ first <= h /\ h <= last
                    /\ ~Before([hi |-> h, lo |-> l], from)
                    /\ ~Before(till, [hi |-> h, lo |-> l])

Reading ==
  /\ ~Before(mtime, began)
  /\ pc = "hi1" /\ asked => rsp.rdata <= mtime.hi
  /\ pc = "lo" => hi1 <= mtime.hi
  /\ pc = "lo" /\ asked => Was(rsp.rdata, hi1, mtime.hi, began, mtime)
  /\ pc = "hi2" => Was(lo, hi1, IF asked THEN rsp.rdata ELSE mtime.hi, began, mtime)
  /\ pc = "hi2" /\ asked => rsp.rdata <= mtime.hi
  /\ pc = "far" => ~Before(read, began) /\ ~Before(mtime, read)

(* The counter passes nothing over.                                        *)
LEMMA StaysPast ==
  ASSUME NEW t \in Dword, t.hi < FarFuture
  PROVE  /\ Counted(t) \in Dword /\ t.hi <= Counted(t).hi /\ ~Before(Counted(t), t)
         /\ \A a \in Dword : ~Before(t, a) => ~Before(Counted(t), a)
<1>1. /\ Half \in Nat /\ Half > 1 /\ t.hi \in 0 .. Half - 1 /\ t.lo \in 0 .. Half - 1
      /\ Counted(t) \in Dword /\ t.hi <= Counted(t).hi
  BY HalfAssumption, CountedIs DEF Dword, Halves
<1>2. \/ Counted(t).hi = t.hi /\ Counted(t).lo = t.lo + 1
      \/ Counted(t).hi = t.hi + 1 /\ Counted(t).lo = 0
  BY <1>1, CountedIs DEF FarFuture
<1>3. \A a \in Dword : a.hi \in 0 .. Half - 1 /\ a.lo \in 0 .. Half - 1
  BY DEF Dword, Halves
<1> QED BY <1>1, <1>2, <1>3 DEF Before

LEMMA Reflexive == ASSUME NEW t \in Dword PROVE ~Before(t, t)
BY HalfAssumption DEF Before, Dword, Halves

LEMMA InitReading == ASSUME DemoInit PROVE Reading
<1>1. Zero \in Dword
  BY HalfAssumption DEF Zero, Dword, Halves
<1> QED BY <1>1, Reflexive DEF DemoInit, InitClint, Reading, Zero

LEMMA WasStays ==
  ASSUME NEW l \in Halves, NEW first \in Halves, NEW last \in Halves, NEW last2 \in Halves,
         NEW from \in Dword, NEW t \in Dword, t.hi < FarFuture,
         last <= last2, Was(l, first, last, from, t)
  PROVE  Was(l, first, last2, from, Counted(t))
<1>1. PICK h \in Halves : /\ first <= h /\ h <= last
                          /\ ~Before([hi |-> h, lo |-> l], from)
                          /\ ~Before(t, [hi |-> h, lo |-> l])
  BY DEF Was
<1>2. [hi |-> h, lo |-> l] \in Dword
  BY DEF Dword
<1>3. h <= last2
  BY <1>1, HalfAssumption DEF Halves
<1> QED BY <1>1, <1>2, <1>3, StaysPast DEF Was

LEMMA StepReading == ASSUME DemoInv, Reading, Lasts, [DemoNext]_demoVars PROVE Reading'
<1>1. /\ mtime \in Dword /\ began \in Dword /\ read \in Dword
      /\ \A x, y, z \in Halves : x <= x /\ (x <= y /\ y <= z => x <= z)
      /\ rsp.rdata \in Halves /\ hi1 \in Halves /\ lo \in Halves
      /\ mtime.hi \in Halves /\ mtime.lo \in Halves
      /\ [hi |-> mtime.hi, lo |-> mtime.lo] = mtime
  BY HalfAssumption DEF DemoInv, DemoTyped, DemoTypeOK, ClintTypeOK, Dword, Halves
<1> DEFINE now == Counted(mtime)
<1>2. /\ now \in Dword /\ mtime.hi <= now.hi /\ now.hi \in Halves /\ ~Before(now, mtime)
      /\ \A a \in Dword : ~Before(mtime, a) => ~Before(now, a)
  BY <1>1, StaysPast DEF Lasts, Dword
<1>3. \A l, first, last, last2 \in Halves :
        last <= last2 /\ Was(l, first, last, began, mtime) => Was(l, first, last2, began, now)
  BY <1>1, WasStays DEF Lasts
<1>4. CASE UNCHANGED demoVars
  BY <1>4 DEF demoVars, clint, software, Reading
<1>5. CASE Request
  <2>1. /\ pc' = pc /\ ~asked /\ asked' /\ UNCHANGED <<hi1, lo, began, read>>
    BY <1>5 DEF Request
  <2>2. /\ mtime' = now
        /\ rsp'.rdata = IF pc \in {"hi1", "hi2"} THEN mtime.hi
                        ELSE IF pc = "lo" THEN mtime.lo ELSE 0
    BY <1>5, EdgeAccess DEF DemoInv
  <2> HIDE DEF now
  <2>3. ~Before(now, began)
    BY <1>1, <1>2 DEF Reading
  <2>4. pc = "hi1" => rsp'.rdata <= now.hi
    BY <1>2, <2>2
  <2>5. pc = "lo" => hi1 <= now.hi /\ Was(rsp'.rdata, hi1, now.hi, began, now)
    <3> SUFFICES ASSUME pc = "lo" PROVE hi1 <= now.hi /\ Was(mtime.lo, hi1, now.hi, began, now)
      BY <2>2
    <3>1. hi1 <= mtime.hi /\ ~Before(mtime, began)
      BY DEF Reading
    <3> QED BY <1>1, <1>2, <3>1 DEF Was
  <2>6. pc = "hi2" => rsp'.rdata <= now.hi /\ Was(lo, hi1, rsp'.rdata, began, now)
    <3> SUFFICES ASSUME pc = "hi2" PROVE Was(lo, hi1, mtime.hi, began, now)
      BY <1>2, <2>2
    <3>1. Was(lo, hi1, mtime.hi, began, mtime)
      BY <2>1 DEF Reading
    <3> QED BY <1>1, <1>3, <3>1
  <2>7. pc = "far" => ~Before(read, began) /\ ~Before(now, read)
    BY <1>1, <1>2 DEF Reading
  <2> QED BY <2>1, <2>2, <2>3, <2>4, <2>5, <2>6, <2>7 DEF Reading
<1>6. CASE Response
  <2>1. asked /\ ~asked' /\ UNCHANGED began
    BY <1>6 DEF Response
  <2>2. mtime' = now
    BY <1>6, QuietStep DEF DemoInv, DemoTyped, DemoTypeOK
  <2>3. /\ pc = "hi1" => pc' = "lo" /\ hi1' = rsp.rdata
        /\ pc = "lo" => pc' = "hi2" /\ lo' = rsp.rdata /\ hi1' = hi1
        /\ pc = "hi2" => \/ pc' = "hi1"
                         \/ pc' = "far" /\ hi1 = rsp.rdata /\ read' = [hi |-> hi1, lo |-> lo]
        /\ pc \notin ReadPlaces => pc' \notin ReadPlaces \cup {"far"}
    BY <1>6 DEF Response, Agree, ReadPlaces, DemoInv, DemoTyped, ArmPlaces
  <2> HIDE DEF now
  <2>4. ~Before(now, began)
    BY <1>1, <1>2 DEF Reading
  <2>5. pc = "hi1" => rsp.rdata <= now.hi
    BY <1>1, <1>2, <2>1 DEF Reading
  <2>6. pc = "lo" => Was(rsp.rdata, hi1, now.hi, began, now)
    <3> SUFFICES ASSUME pc = "lo" PROVE Was(rsp.rdata, hi1, now.hi, began, now)
      OBVIOUS
    <3>1. Was(rsp.rdata, hi1, mtime.hi, began, mtime)
      BY <2>1 DEF Reading
    <3> QED BY <1>1, <1>2, <1>3, <3>1
  <2>7. pc = "hi2" /\ pc' = "far" => ~Before(read', began) /\ ~Before(now, read')
    <3> SUFFICES ASSUME pc = "hi2", pc' = "far"
                 PROVE  ~Before(read', began) /\ ~Before(now, read')
      OBVIOUS
    <3>1. Was(lo, hi1, hi1, began, now)
      <4>1. Was(lo, hi1, rsp.rdata, began, mtime)
        BY <2>1 DEF Reading
      <4> QED BY <1>1, <1>3, <2>3, <4>1
    <3>2. PICK h \in Halves : /\ hi1 <= h /\ h <= hi1
                              /\ ~Before([hi |-> h, lo |-> lo], began)
                              /\ ~Before(now, [hi |-> h, lo |-> lo])
      BY <3>1 DEF Was
    <3>3. h = hi1
      BY <1>1, <3>2, HalfAssumption DEF Halves
    <3> QED BY <2>3, <3>2, <3>3
  <2>8. pc \in ReadPlaces \/ pc' \notin ReadPlaces \cup {"far"}
    BY <2>3
  <2>9. CASE pc = "hi1"
    BY <2>1, <2>2, <2>3, <2>4, <2>5, <2>9 DEF Reading
  <2>10. CASE pc = "lo"
    BY <2>1, <2>2, <2>3, <2>4, <2>6, <2>10 DEF Reading
  <2>11. CASE pc = "hi2"
    BY <2>1, <2>2, <2>3, <2>4, <2>7, <2>11 DEF Reading
  <2>12. CASE pc' \notin ReadPlaces \cup {"far"}
    BY <2>1, <2>2, <2>4, <2>12 DEF Reading, ReadPlaces
  <2> QED BY <2>8, <2>9, <2>10, <2>11, <2>12 DEF ReadPlaces
<1>7. CASE Enable \/ LeaveLoop \/ Disable \/ Exit \/ Enter \/ Handle \/ LeaveHandler \/ Idle
  <2>1. mtime' = now /\ asked' = asked
    <3>1. mtime' = now
      BY <1>7, QuietStep DEF DemoInv, DemoTyped, DemoTypeOK
    <3> QED BY <1>7, <3>1 DEF Enable, LeaveLoop, Disable, Exit, Enter, Handle, LeaveHandler, Idle
  <2> HIDE DEF now
  <2>2. CASE Handle
    <3>1. began' = mtime /\ pc' \in {"hi1", "clear"} /\ ~asked
      BY <2>2 DEF Handle, DemoInv, DemoTyped, ReadPlaces, ArmPlaces
    <3> QED BY <1>2, <2>1, <3>1 DEF Reading
  <2>3. CASE ~Handle
    <3>1. /\ ~asked /\ UNCHANGED <<hi1, lo, began, read>>
          /\ pc' = pc \/ pc' \notin ReadPlaces \cup {"far"}
      BY <1>7, <2>3 DEF Enable, LeaveLoop, Disable, Exit, Enter, LeaveHandler, Idle, DemoInv,
           DemoTyped, Flow,
                        ReadPlaces, ArmPlaces
    <3>2. ~Before(now, began)
      BY <1>1, <1>2 DEF Reading
    <3>3. CASE pc' = pc
      <4>1. pc = "lo" => hi1 <= now.hi
        BY <1>1, <1>2 DEF Reading
      <4>2. pc = "hi2" => Was(lo, hi1, now.hi, began, now)
        BY <1>1, <1>2, <1>3, <3>1 DEF Reading
      <4>3. pc = "far" => ~Before(read, began) /\ ~Before(now, read)
        BY <1>1, <1>2 DEF Reading
      <4> QED BY <2>1, <3>1, <3>2, <3>3, <4>1, <4>2, <4>3 DEF Reading
    <3>4. CASE pc' \notin ReadPlaces \cup {"far"}
      BY <2>1, <3>1, <3>2, <3>4 DEF Reading, ReadPlaces
    <3> QED BY <3>1, <3>3, <3>4
  <2> QED BY <2>2, <2>3
<1> QED BY <1>4, <1>5, <1>6, <1>7 DEF DemoNext

(* irq_timer.c, read_mtime: the value put together from two reads of the   *)
(* high half and one of the low half is a time between the call and the    *)
(* return, as long as the 64-bit counter does not come to its end (Lasts). *)
THEOREM ReadsInTime == DemoSpec /\ []Lasts => []ReadsBetween
<1>1. DemoInv /\ Reading => ReadsBetween
  BY DEF Reading, ReadsBetween
<1>2. DemoSpec => []DemoInv
  BY InitDemo, StepDemo, PTL DEF DemoSpec
<1> QED BY <1>1, <1>2, InitReading, StepReading, PTL DEF DemoSpec
==============================================================================
