-------------------------------- MODULE Traps --------------------------------
(***************************************************************************)
(* Privilege and traps: the trap registers of rtl/core/csr.sv and the part *)
(* of rtl/core/core_pipeline.sv that takes interrupts - it latches the     *)
(* cause when the pipeline is empty, and the trap happens cycles later in  *)
(* write back.                                                             *)
(*                                                                         *)
(* A step is an instruction entering or leaving the pipeline or a cause    *)
(* being latched.  The interrupt lines are inputs: any may be up at any    *)
(* step.  mepc and sepc stand for their cause and tval too; the vectors,   *)
(* the scratch registers, the counters and the bits SUM, MXR, TVM and TSR  *)
(* are left out, and an instruction TVM or TSR forbids is one that traps.  *)
(***************************************************************************)
EXTENDS Naturals, Sequences

CONSTANTS MInt, SInt,  \* the machine's and the supervisor's interrupts
          NoInt,
          Exc,         \* exceptions that medeleg can delegate
          PC,          \* where instructions trap
          MipOperand   \* the operands of writes of mip

U == 0
S == 1
Reserved == 2   \* no mode of the ISA, but mstatus.MPP takes it and MRET enters it
M == 3
Priv == {U, S, Reserved, M}

Interrupt == MInt \cup SInt
Precedence == <<"MEI", "MSI", "MTI", "SEI", "SSI", "STI">>

ASSUME TrapsAssumption ==
    /\ MInt \subseteq {"MEI", "MSI", "MTI"} /\ SInt \subseteq {"SEI", "SSI", "STI"}
    /\ NoInt \notin Interrupt /\ Exc \cap Interrupt = {}
    /\ PC # {} /\ MipOperand \subseteq SUBSET SInt

VARIABLES
  priv_mode, mstatus,
  mie, mip_sw, mideleg, medeleg,
  mepc, sepc,
  older,           \* an instruction is between decode and write back
  irq,             \* the cause latched in decode (id_irq, id_irq_cause)
  mframe, sframe   \* what the last trap to M and to S interrupted (history)

regs   == <<mie, mip_sw, mideleg, medeleg>>
pipe   == <<older, irq>>
frames == <<mframe, sframe>>
vars   == <<priv_mode, mstatus, regs, mepc, sepc, pipe, frames>>

Mstatus == [MIE : BOOLEAN, MPIE : BOOLEAN, MPP : Priv,
            SIE : BOOLEAN, SPIE : BOOLEAN, SPP : BOOLEAN, MPRV : BOOLEAN]

(* What a trap interrupted: the mode, its enable bit and the instruction.  *)
Frame   == [priv : Priv, ie : BOOLEAN, pc : PC]
NoFrame == [priv |-> "none"]

-----------------------------------------------------------------------------
(* Interrupts.                                                             *)

(* The lines of the CLINT and the PLIC; mip's bits SSI and STI have none.  *)
Lines == SUBSET (MInt \cup (SInt \cap {"SEI"}))

mip_live(ext) == mip_sw \cup ext

mip_m_enabled(ext) == (mip_live(ext) \cap mie) \ mideleg
mip_s_enabled(ext) == mip_live(ext) \cap mie \cap mideleg

m_irq_enabled == priv_mode # M \/ mstatus.MIE
s_irq_enabled == priv_mode = U \/ (priv_mode = S /\ mstatus.SIE)

m_irq_live(ext) == m_irq_enabled /\ mip_m_enabled(ext) # {}
s_irq_live(ext) == s_irq_enabled /\ mip_s_enabled(ext) # {}
irq_pending(ext) == m_irq_live(ext) \/ s_irq_live(ext)

Rank(i) == CHOOSE n \in 1..Len(Precedence) : Precedence[n] = i
First(ints) == CHOOSE i \in ints : \A j \in ints : Rank(i) <= Rank(j)

irq_cause(ext) == First(IF m_irq_live(ext) THEN mip_m_enabled(ext) ELSE mip_s_enabled(ext))

\* A mutant of allow_irq_inject: the instructions in the pipeline are not waited for.
InjectWithOlder(ext) == irq_pending(ext) /\ irq = NoInt

allow_irq_inject(ext) == irq_pending(ext) /\ ~older /\ irq = NoInt

Inject(ext) ==
    /\ allow_irq_inject(ext)
    /\ irq' = irq_cause(ext)
    /\ UNCHANGED <<priv_mode, mstatus, regs, mepc, sepc, older, frames>>

(* An instruction leaves decode for an empty pipeline, ...                 *)
Issue(ext) ==
    /\ ~older /\ irq = NoInt /\ ~irq_pending(ext)
    /\ older' = TRUE
    /\ UNCHANGED <<priv_mode, mstatus, regs, mepc, sepc, irq, frames>>

(* ... and the last of those that touch no trap register commits.          *)
Commit ==
    /\ older /\ older' = FALSE
    /\ UNCHANGED <<priv_mode, mstatus, regs, mepc, sepc, irq, frames>>

-----------------------------------------------------------------------------
(* Traps and returns.                                                      *)

\* A mutant of trap_to_s: a trap of M-mode is delegated too.
DelegatedFromAnywhere(cause) == cause \in mideleg \cup medeleg

trap_to_s(cause) == priv_mode # M /\ cause \in mideleg \cup medeleg

TrapToS(epc) ==
    /\ sepc' = epc
    /\ mstatus' = [mstatus EXCEPT !.SPIE = mstatus.SIE, !.SIE = FALSE,
                                  !.SPP = (priv_mode = S)]
    /\ priv_mode' = S
    /\ sframe' = [priv |-> priv_mode, ie |-> mstatus.SIE, pc |-> epc]
    /\ UNCHANGED <<mepc, mframe>>

TrapToM(epc) ==
    /\ mepc' = epc
    /\ mstatus' = [mstatus EXCEPT !.MPIE = mstatus.MIE, !.MIE = FALSE, !.MPP = priv_mode]
    /\ priv_mode' = M
    /\ mframe' = [priv |-> priv_mode, ie |-> mstatus.MIE, pc |-> epc]
    /\ UNCHANGED <<sepc, sframe>>

Trap(cause, epc) ==
    /\ IF trap_to_s(cause) THEN TrapToS(epc) ELSE TrapToM(epc)
    /\ UNCHANGED regs

TakeInterrupt(epc) ==
    /\ irq # NoInt /\ ~older
    /\ Trap(irq, epc) /\ irq' = NoInt
    /\ UNCHANGED older

TakeException(cause, epc) ==
    /\ older /\ older' = FALSE
    /\ Trap(cause, epc)
    /\ UNCHANGED irq

Restored == [mstatus EXCEPT !.MIE = mstatus.MPIE, !.MPIE = TRUE, !.MPP = U,
                            !.MPRV = @ /\ mstatus.MPP = M]

Mret ==
    /\ older /\ older' = FALSE /\ priv_mode = M
    /\ mstatus' = Restored
    /\ priv_mode' = mstatus.MPP
    /\ mframe' = NoFrame
    /\ UNCHANGED <<regs, mepc, sepc, irq, sframe>>

Sret ==
    /\ older /\ older' = FALSE /\ priv_mode # U
    /\ mstatus' = [mstatus EXCEPT !.SIE = mstatus.SPIE, !.SPIE = TRUE, !.SPP = FALSE,
                                  !.MPRV = @ /\ mstatus.SPP]
    /\ priv_mode' = IF mstatus.SPP THEN S ELSE U
    /\ sframe' = NoFrame
    /\ UNCHANGED <<regs, mepc, sepc, irq, mframe>>

-----------------------------------------------------------------------------
(* Writes of CSRs.  csr_illegal: the address names the privilege needed.   *)

CsrWrite(least) == older /\ older' = FALSE /\ priv_mode >= least

(* What CSRRW, CSRRS and CSRRC make of a register and an operand.          *)
Results(old, operand) == {operand, old \cup operand, old \ operand}

Field(f) == IF f = "MPP" THEN Priv ELSE BOOLEAN

(* One field changes at a time; a handler that writes what a trap saved    *)
(* has taken the return over.                                              *)
WriteOf(f, v) ==
    /\ mstatus' = [mstatus EXCEPT ![f] = v]
    /\ mframe' = IF f \in {"MPIE", "MPP"} THEN NoFrame ELSE mframe
    /\ sframe' = IF f \in {"SPIE", "SPP"} THEN NoFrame ELSE sframe

WriteField(fields) == \E f \in fields : \E v \in Field(f) : WriteOf(f, v)

WriteMstatus ==
    /\ CsrWrite(M) /\ WriteField(DOMAIN mstatus)
    /\ UNCHANGED <<priv_mode, regs, mepc, sepc, irq>>

WriteSstatus ==
    /\ CsrWrite(S) /\ WriteField({"SIE", "SPIE", "SPP"})
    /\ UNCHANGED <<priv_mode, regs, mepc, sepc, irq>>

WriteMie ==
    /\ CsrWrite(M) /\ mie' \in SUBSET Interrupt
    /\ UNCHANGED <<priv_mode, mstatus, mip_sw, mideleg, medeleg, mepc, sepc, irq, frames>>

\* A mutant of SieWritten: sie is all of mie.
SieUnmasked(new) == new

SieWritten(new) == (mie \ mideleg) \cup (new \cap mideleg)

WriteSie ==
    /\ CsrWrite(S) /\ \E new \in SUBSET Interrupt : mie' = SieWritten(new)
    /\ UNCHANGED <<priv_mode, mstatus, mip_sw, mideleg, medeleg, mepc, sepc, irq, frames>>

(* Set and clear start from what mip reads as, the lines included.         *)
WriteMip(ext) ==
    /\ CsrWrite(M)
    /\ \E operand \in MipOperand : \E new \in Results(mip_live(ext), operand) :
          mip_sw' = new \cap SInt
    /\ UNCHANGED <<priv_mode, mstatus, mie, mideleg, medeleg, mepc, sepc, irq, frames>>

WriteSip ==
    /\ CsrWrite(S)
    /\ \E new \in SUBSET SInt : mip_sw' = (mip_sw \ {"SSI"}) \cup (new \cap {"SSI"} \cap mideleg)
    /\ UNCHANGED <<priv_mode, mstatus, mie, mideleg, medeleg, mepc, sepc, irq, frames>>

WriteDelegation ==
    /\ CsrWrite(M)
    /\ \/ mideleg' \in SUBSET SInt /\ UNCHANGED medeleg
       \/ medeleg' \in SUBSET Exc /\ UNCHANGED mideleg
    /\ UNCHANGED <<priv_mode, mstatus, mie, mip_sw, mepc, sepc, irq, frames>>

WriteMepc ==
    /\ CsrWrite(M) /\ mepc' \in PC /\ mframe' = NoFrame
    /\ UNCHANGED <<priv_mode, mstatus, regs, sepc, irq, sframe>>

WriteSepc ==
    /\ CsrWrite(S) /\ sepc' \in PC /\ sframe' = NoFrame
    /\ UNCHANGED <<priv_mode, mstatus, regs, mepc, irq, mframe>>

-----------------------------------------------------------------------------
Next ==
    \/ \E ext \in Lines : Inject(ext) \/ Issue(ext) \/ WriteMip(ext)
    \/ \E epc \in PC : TakeInterrupt(epc) \/ \E cause \in Exc : TakeException(cause, epc)
    \/ Commit \/ Mret \/ Sret
    \/ WriteMstatus \/ WriteSstatus \/ WriteMie \/ WriteSie \/ WriteSip
    \/ WriteDelegation \/ WriteMepc \/ WriteSepc

ResetPc == CHOOSE epc \in PC : TRUE

Init ==
    /\ priv_mode = M
    /\ mstatus = [f \in {"MIE", "MPIE", "SIE", "SPIE", "SPP", "MPRV", "MPP"} |->
                    IF f = "MPP" THEN U ELSE FALSE]
    /\ mie = {} /\ mip_sw = {} /\ mideleg = {} /\ medeleg = {}
    /\ mepc = ResetPc /\ sepc = ResetPc
    /\ older = FALSE /\ irq = NoInt
    /\ mframe = NoFrame /\ sframe = NoFrame

Spec == Init /\ [][Next]_vars

-----------------------------------------------------------------------------
TypeOK ==
    /\ priv_mode \in Priv /\ mstatus \in Mstatus
    /\ mie \subseteq Interrupt /\ mip_sw \subseteq SInt
    /\ mideleg \subseteq SInt /\ medeleg \subseteq Exc
    /\ mepc \in PC /\ sepc \in PC
    /\ older \in BOOLEAN /\ irq \in Interrupt \cup {NoInt}
    /\ mframe \in Frame \cup {NoFrame} /\ sframe \in Frame \cup {NoFrame}

LatchedIsEnabled ==
    irq # NoInt => /\ irq \in mie
                   /\ IF irq \in mideleg THEN s_irq_enabled ELSE m_irq_enabled

(* The cause latched in decode is one that may still be taken when it gets *)
(* to write back: nothing ran in between that masked it, changed its       *)
(* delegation or left the mode it was enabled in, the reserved one too.    *)
TakesWhatItLatched == TypeOK /\ LatchedIsEnabled

(* A handler that leaves alone what the trap saved returns to what was     *)
(* interrupted, whatever traps to the other mode happened meanwhile.  SPP  *)
(* has one bit: what a delegated trap interrupts in the reserved mode goes *)
(* on in U-mode.                                                           *)
SavedBySpp(priv) == IF priv = Reserved THEN U ELSE priv

ReturnsToInterrupted ==
    [][/\ mframe # NoFrame /\ Mret =>
            /\ priv_mode' = mframe.priv /\ mstatus'.MIE = mframe.ie /\ mepc = mframe.pc
       /\ sframe # NoFrame /\ Sret =>
            /\ priv_mode' = SavedBySpp(sframe.priv) /\ mstatus'.SIE = sframe.ie
            /\ sepc = sframe.pc]_vars

(* What M-mode owns: the other modes move none of it but by trapping to M, *)
(* which saves the old mode and enable.                                    *)
Configuration == <<mie \ mideleg, mideleg, medeleg, mip_sw \ {"SSI"}>>
Saved         == <<mepc, mstatus.MPP, mstatus.MPIE, mstatus.MIE>>

MachineStateGuarded ==
    [][priv_mode # M => /\ Configuration' = Configuration
                        /\ priv_mode' # M => Saved' = Saved]_vars

(* csr.sv 372-374: M-mode sets the bits of mip it names - OpenSBI's        *)
(* "csrrs mip, STIP" raises the timer interrupt.                           *)
OnlyNamedBitsSet == mip_sw \subseteq (UNION MipOperand) \cup {"SSI"}
=============================================================================
