------------------------------ MODULE Pipeline ------------------------------
(***************************************************************************)
(* The five-stage in-order pipeline of rtl/core/core_pipeline.sv: fetch    *)
(* engine, decode, execute with the iterative divider, memory and write    *)
(* back, with its stalls, flushes, forwarding and interrupt injection.     *)
(*                                                                         *)
(* A step is one clock edge; the inputs of the cycle (bus handshakes, the  *)
(* word a fetch returns, the interrupt level, the end of a division) are   *)
(* the existentially quantified parameters of Clock.  Registers are named  *)
(* as in the source without _q; an operator named after a wire is that     *)
(* wire.                                                                   *)
(*                                                                         *)
(* Data are abstracted to provenance: an instruction's result is the       *)
(* number (id) it got on entering decode, one that nothing in the machine  *)
(* still holds, so a register holds the number of the instruction that     *)
(* wrote it, and an operand is right when it is the number of the last     *)
(* older writer.  An instruction has a class, *)
(* at most one destination and at most one source register: the source's   *)
(* rs1 and rs2 paths are copies of each other.  A register nothing can     *)
(* read any more (of an invalid stage, of an answered fetch, of a consumed *)
(* quotient) is kept at its reset value.                                   *)
(***************************************************************************)
EXTENDS Naturals, FiniteSets

CONSTANTS PcCount,     \* instruction addresses are 0..PcCount-1 and wrap
          TrapVector,  \* mtvec/stvec
          BranchTarget,\* where a taken branch goes
          ReturnTarget,\* what mepc/sepc hold when MRET/SRET retires
          Reg,         \* the architectural registers except x0
          NoReg,       \* x0, or no register
          Word,        \* the words LR and SC name
          NoWord,
          IdCount,     \* instruction numbers are 1..IdCount-1, 0 is the reset value
          Class        \* the instruction classes fetched

PC == 0..(PcCount - 1)
Id == 0..(IdCount - 1)

BusClass    == {"load", "store", "lr", "sc", "amo"}
SerialClass == {"csr", "satp", "ret", "fencei", "ecall", "lr", "sc", "amo"}
TrapClass   == {"illegal", "ecall", "irq"}
AllClass    == {"alu", "div", "branch"} \cup BusClass \cup SerialClass \cup TrapClass

ASSUME PipelineAssumption ==
    /\ PcCount \in Nat \ {0} /\ TrapVector \in PC /\ BranchTarget \in PC /\ ReturnTarget \in PC
    /\ IsFiniteSet(Reg)
    /\ IdCount \in Nat /\ IdCount > 14 + Cardinality(Reg)   \* more than are ever held
    /\ NoReg \notin Reg /\ NoWord \notin Word
    /\ Class \subseteq AllClass \ {"irq"}

Next4(p) == (p + 1) % PcCount

VARIABLES
  pc, fetch_inflight, fetch_inflight_pc, fetch_squash,   \* fetch engine
  id, ex, mem, wb,                                       \* stage registers
  trap_pending,                                          \* EX trap to WB redirect
  mem_ls_pending, mem_req_fired, mem_amo_phase,          \* MEM bus handshake
  mem_bus_fault, mem_load_data,
  resv,                                                  \* LR/SC reservation
  div_busy, div_started, div_done_latched, div_result,   \* divider and its latch
  rf,                                                    \* register file
  dmem,                                                  \* the access the bus holds
  lrLive                                                 \* the last LR's word (history)

fetchVars == <<pc, fetch_inflight, fetch_inflight_pc, fetch_squash>>
stageVars == <<id, ex, mem, wb, trap_pending>>
memVars   == <<mem_ls_pending, mem_req_fired, mem_amo_phase, mem_bus_fault, mem_load_data, resv, dmem>>
divVars   == <<div_busy, div_started, div_done_latched, div_result>>
archVars  == <<rf, lrLive>>
vars      == <<fetchVars, stageVars, memVars, divVars, archVars>>

(* A stage register.  opnd is the operand, res the result, hasRes tells    *)
(* that the result was computed at EX.                                     *)
Token == [valid : BOOLEAN, pc : PC, cls : AllClass, taken : BOOLEAN,
          dst : Reg \cup {NoReg}, src : Reg \cup {NoReg}, word : Word \cup {NoWord},
          id : Id, opnd : Id, res : Id, hasRes : BOOLEAN, trap : BOOLEAN]

Bubble == [valid |-> FALSE, pc |-> 0, cls |-> "alu", taken |-> FALSE,
           dst |-> NoReg, src |-> NoReg, word |-> NoWord,
           id |-> 0, opnd |-> 0, res |-> 0, hasRes |-> FALSE, trap |-> FALSE]

(* What a fetch can return.                                                *)
WritesRd(c) == c \in {"alu", "div", "branch", "load", "csr", "satp", "lr", "sc", "amo"}
ReadsRs(c)  == c \in {"alu", "div", "branch", "load", "store", "csr", "satp", "lr", "sc", "amo"}

Fetched == { [cls |-> c, taken |-> t, dst |-> d, src |-> s, word |-> w] :
               c \in Class, t \in BOOLEAN, d \in Reg \cup {NoReg}, s \in Reg \cup {NoReg},
               w \in Word \cup {NoWord} }

Legal(f) == /\ f.taken => f.cls = "branch"
            /\ f.dst # NoReg => WritesRd(f.cls)
            /\ f.src # NoReg => ReadsRs(f.cls)
            /\ f.word # NoWord <=> f.cls \in {"lr", "sc"}

Instruction == { f \in Fetched : Legal(f) }

-----------------------------------------------------------------------------
(* Write back.                                                             *)

WbIsCsr  == wb.cls \in {"csr", "satp"}
CommitRd == IF WbIsCsr THEN wb.id ELSE wb.res          \* wb_commit_rd_data
RfWen    == wb.valid /\ ~wb.trap /\ wb.dst # NoReg

wb_redirect == wb.valid /\ (wb.trap \/ wb.cls \in {"ret", "fencei", "satp"})

wb_redirect_pc == IF wb.trap THEN TrapVector
                  ELSE IF wb.cls = "ret" THEN ReturnTarget
                  ELSE Next4(wb.pc)

(* Stalls.                                                                 *)

load_use_hazard == /\ mem.valid /\ mem.cls = "load" /\ mem.dst # NoReg
                   /\ id.valid /\ id.src = mem.dst

IdSerial        == id.cls \in SerialClass
serial_inflight == \E s \in {ex, mem, wb} : s.valid /\ s.cls \in SerialClass
pipe_busy       == ex.valid \/ mem.valid \/ wb.valid

ex_div_stall == ex.valid /\ ex.cls = "div" /\ ~div_done_latched
\* A mutant of mem_busy: a store is posted.
PostedStores == mem.valid /\ mem_ls_pending /\ mem.cls # "store"

mem_busy == mem.valid /\ mem_ls_pending
mem_stall_for_ifetch_drain == mem.valid /\ mem.cls = "satp" /\ fetch_inflight

stall_mem == mem_busy \/ mem_stall_for_ifetch_drain
stall_ex  == stall_mem \/ ex_div_stall
stall_id  == \/ stall_ex \/ load_use_hazard
             \/ id.valid /\ IdSerial /\ pipe_busy
             \/ id.valid /\ serial_inflight /\ ~IdSerial

(* Execute.                                                                *)

ex_trap         == ex.valid /\ ex.cls \in TrapClass
branch_redirect == ex.valid /\ ex.cls = "branch" /\ ex.taken /\ ~stall_ex

\* A mutant of Forwarded: the source in MEM is missing.
ForwardedFromWb == IF wb.valid /\ wb.dst # NoReg /\ wb.dst = ex.src THEN wb.res ELSE ex.opnd

Forwarded == IF mem.valid /\ mem.hasRes /\ mem.dst # NoReg /\ mem.dst = ex.src THEN mem.res
             ELSE IF wb.valid /\ wb.dst # NoReg /\ wb.dst = ex.src THEN wb.res
             ELSE ex.opnd

\* A mutant of ex_sc_hit: any reservation will do.
HitOnAnyWord == resv.valid

ex_sc_hit == resv.valid /\ resv.word = ex.word

\* A mutant of div_start: it does not look at the flush of the same cycle.
StartDuringFlush == /\ ex.valid /\ ex.cls = "div" /\ ~div_started /\ ~div_done_latched
                    /\ ~stall_mem

div_start == /\ ex.valid /\ ex.cls = "div" /\ ~div_started /\ ~div_done_latched
             /\ ~stall_mem /\ ~wb_redirect

(* Fetch.                                                                  *)

\* A mutant of allow_irq_inject: a fetch in flight is no obstacle.
InjectDuringFetch(irq) == irq /\ ~pipe_busy /\ ~trap_pending /\ ~(id.valid /\ id.cls = "irq")

allow_irq_inject(irq) == /\ irq /\ ~pipe_busy /\ ~fetch_inflight /\ ~trap_pending
                         /\ ~(id.valid /\ id.cls = "irq")

SlotFree == ~id.valid \/ ~stall_id

\* A mutant of if_can_issue: the slot is not looked at.
IssueAhead(irq) == /\ ~fetch_inflight /\ ~branch_redirect /\ ~wb_redirect
                   /\ ~trap_pending /\ ~allow_irq_inject(irq)

if_can_issue(irq) == /\ ~fetch_inflight /\ SlotFree
                     /\ ~branch_redirect /\ ~wb_redirect
                     /\ ~trap_pending /\ ~allow_irq_inject(irq)

-----------------------------------------------------------------------------
(* The registers after the edge.                                           *)

FetchEdge(irq, ifReady, ifRsp) ==
    LET issue == if_can_issue(irq) /\ ifReady IN
    /\ pc' = IF wb_redirect THEN wb_redirect_pc
             ELSE IF branch_redirect THEN BranchTarget
             ELSE IF issue THEN Next4(pc) ELSE pc
    /\ fetch_inflight' = (issue \/ (fetch_inflight /\ ~ifRsp))
    /\ fetch_inflight_pc' = IF issue THEN pc ELSE IF fetch_inflight' THEN fetch_inflight_pc ELSE 0
    /\ fetch_squash' = IF issue \/ ifRsp THEN FALSE
                       ELSE fetch_squash \/ (fetch_inflight /\ (branch_redirect \/ wb_redirect))

(* A number nothing holds any more, for the instruction entering decode.   *)
Held == {0, id.id, ex.id, ex.opnd, mem.id, mem.opnd, mem.res, wb.id, wb.opnd, wb.res,
         mem_load_data, div_result.id, div_result.opnd, dmem.id}
          \cup {rf[r] : r \in Reg}

fresh == CHOOSE i \in Id : i \notin Held

IrqToken ==
    [Bubble EXCEPT !.valid = TRUE, !.cls = "irq", !.id = fresh,
                   !.pc = IF id.valid THEN id.pc ELSE pc]

FetchedToken(f) ==
    [Bubble EXCEPT !.valid = TRUE, !.id = fresh, !.pc = fetch_inflight_pc, !.cls = f.cls,
                   !.taken = f.taken, !.dst = f.dst, !.src = f.src, !.word = f.word]

IdEdge(irq, ifRsp, f) ==
    id' = IF branch_redirect \/ wb_redirect THEN Bubble
          ELSE IF ~SlotFree THEN id
          ELSE IF allow_irq_inject(irq) THEN IrqToken
          ELSE IF ifRsp /\ ~fetch_squash THEN FetchedToken(f)
          ELSE Bubble

(* The operand read in decode, with the write-back bypass.                 *)
ReadRf(r) == IF r = NoReg THEN 0
             ELSE IF RfWen /\ wb.dst = r THEN CommitRd ELSE rf[r]

id_will_bubble(irq) == \/ wb_redirect \/ ~id.valid \/ stall_id
                       \/ allow_irq_inject(irq)

ExEdge(irq) ==
    ex' = IF wb_redirect THEN Bubble
          ELSE IF stall_ex THEN ex
          ELSE IF id_will_bubble(irq) THEN Bubble
          ELSE [id EXCEPT !.opnd = ReadRf(id.src)]

(* The instruction leaving EX.                                             *)
ExOut ==
    LET hit == ex.cls = "sc" /\ ex_sc_hit IN
    [ex EXCEPT !.trap = ex_trap,
               !.dst  = IF ex_trap THEN NoReg ELSE @,
               !.opnd = IF ex.cls = "div" THEN div_result.opnd ELSE Forwarded,
               !.res  = IF ex.cls = "div" THEN div_result.id ELSE ex.id,
               !.hasRes = \/ ex.dst # NoReg /\ ex.cls \in {"alu", "div", "branch"}
                          \/ ex.cls = "sc" /\ ~hit]

(* The source clears the access flags of an instruction that traps at EX.  *)
mem_has_bus_op == mem.valid /\ mem.cls \in BusClass /\ ~mem.trap

MemEdge(dmReady, dmRsp) ==
    LET taken == mem_busy /\ dmRsp # "none"            \* mem_rsp_this_cycle
        load_beat == mem.cls = "amo" /\ mem_amo_phase = 0
        next_beat == taken /\ load_beat /\ dmRsp # "fault"
        answered  == IF dmem.busy THEN dmem.id ELSE mem.id
    IN
    /\ mem' = IF wb_redirect THEN Bubble
              ELSE IF stall_mem THEN mem
              ELSE IF stall_ex \/ ~ex.valid THEN Bubble
              ELSE ExOut
    /\ mem_ls_pending' =
          IF wb_redirect THEN FALSE
          ELSE IF stall_mem THEN mem_ls_pending /\ (~taken \/ next_beat)
          ELSE mem'.valid /\ mem'.cls \in BusClass /\ ~mem'.hasRes
    /\ mem_amo_phase' =
          IF wb_redirect \/ ~stall_mem THEN 0
          ELSE IF next_beat THEN 1 ELSE mem_amo_phase
    /\ mem_req_fired' =
          IF wb_redirect \/ taken THEN FALSE ELSE mem_req_fired \/ dmReady
    /\ mem_bus_fault' =
          IF wb_redirect THEN FALSE
          ELSE IF taken THEN dmRsp # "ok"
          ELSE mem_bus_fault /\ ~(~stall_mem /\ mem_has_bus_op)
    /\ mem_load_data' =
          IF wb_redirect \/ (~stall_mem /\ mem_has_bus_op) THEN 0
          ELSE IF taken /\ ~(mem.cls = "amo" /\ mem_amo_phase = 1) THEN answered
          ELSE mem_load_data
    /\ resv' =
          IF wb_redirect \/ (~stall_mem /\ mem_has_bus_op /\ mem.cls \in {"sc", "amo"})
            THEN [valid |-> FALSE, word |-> NoWord]
          ELSE IF taken /\ mem.cls = "lr" /\ dmRsp # "fault"
            THEN [valid |-> TRUE, word |-> mem.word]
          ELSE resv
    /\ dmem' = IF dmRsp # "none" THEN [busy |-> FALSE, id |-> 0]
               ELSE IF dmReady THEN [busy |-> TRUE, id |-> mem.id]
               ELSE dmem

(* The instruction leaving MEM.                                            *)
MemOut ==
    IF mem_has_bus_op /\ ~mem.hasRes
    THEN [mem EXCEPT !.trap = mem_bus_fault,
                     !.dst  = IF mem_bus_fault THEN NoReg ELSE @,
                     !.res  = IF mem.cls = "sc" THEN mem.id ELSE mem_load_data]
    ELSE [mem EXCEPT !.res = IF mem.cls \in {"csr", "satp"} THEN 0 ELSE @]

WbEdge ==
    wb' = IF wb_redirect \/ ~mem.valid \/ stall_mem THEN Bubble ELSE MemOut

\* A mutant of TrapEdge: the redirect does not clear it.
StickyTrapEdge == trap_pending' = (trap_pending \/ (ex_trap /\ ~stall_ex))

TrapEdge ==
    trap_pending' = IF wb_redirect THEN FALSE
                    ELSE trap_pending \/ (ex_trap /\ ~stall_ex)

(* div_unit counts to its result by itself: only start and done matter.    *)
DivEdge(divDone) ==
    LET leaves == ~stall_ex /\ ex.valid /\ ex.cls = "div" /\ div_done_latched
        clear  == leaves \/ wb_redirect
    IN
    /\ div_busy' = IF divDone THEN FALSE ELSE div_busy \/ div_start
    /\ div_started' = (~clear /\ (div_started \/ div_start))
    /\ div_done_latched' = (~clear /\ (div_done_latched \/ divDone))
    /\ div_result' = IF div_start /\ ~div_busy THEN [id |-> ex.id, opnd |-> Forwarded]
                     ELSE IF div_busy' \/ div_done_latched' THEN div_result
                     ELSE [id |-> 0, opnd |-> 0]

(* The register file, and the word the committed instructions reserve.     *)
RfAfterWb == IF RfWen THEN [rf EXCEPT ![wb.dst] = CommitRd] ELSE rf

ReservedAfterWb ==
    IF ~wb.valid THEN lrLive
    ELSE IF wb_redirect \/ wb.cls \in {"sc", "amo"} THEN NoWord
    ELSE IF wb.cls = "lr" THEN wb.word ELSE lrLive

ArchEdge ==
    /\ rf' = RfAfterWb
    /\ lrLive' = ReservedAfterWb

-----------------------------------------------------------------------------
(* The inputs of a cycle.                                                  *)
dmem_req_valid == mem_has_bus_op /\ mem_ls_pending /\ ~mem_req_fired

(* The bus accepts a request when it likes and answers it once, later, or  *)
(* at once when the MMU refuses it; a division takes as long as it likes.  *)
Clock(irq, ifReady, ifRsp, f, dmReady, dmRsp, divDone) ==
    /\ FetchEdge(irq, ifReady, ifRsp)
    /\ IdEdge(irq, ifRsp, f)
    /\ ExEdge(irq)
    /\ MemEdge(dmReady, dmRsp)
    /\ WbEdge
    /\ TrapEdge
    /\ DivEdge(divDone)
    /\ ArchEdge

When(b) == IF b THEN BOOLEAN ELSE {FALSE}

(* An AMO's store beat needs more permissions than its load beat, so it    *)
(* page-faults when the load beat did.                                     *)
DmAnswers(dmReady) ==
    IF ~dmReady /\ ~dmem.busy THEN {"none"}
    ELSE IF mem_amo_phase = 1 /\ mem_bus_fault THEN {"none", "pagefault"}
    ELSE {"none", "fault", "pagefault"} \cup (IF dmReady THEN {} ELSE {"ok"})

Next ==
    \E irq \in BOOLEAN, ifRsp \in When(fetch_inflight),
       dmReady \in When(dmem_req_valid), divDone \in When(div_busy) :
      \E ifReady \in When(if_can_issue(irq)), dmRsp \in DmAnswers(dmReady),
         f \in IF ifRsp /\ ~fetch_squash THEN Instruction
               ELSE {[cls |-> "alu", taken |-> FALSE, dst |-> NoReg, src |-> NoReg,
                      word |-> NoWord]} :
        Clock(irq, ifReady, ifRsp, f, dmReady, dmRsp, divDone)

Init ==
    /\ pc = 0 /\ fetch_inflight = FALSE /\ fetch_inflight_pc = 0 /\ fetch_squash = FALSE
    /\ id = Bubble /\ ex = Bubble /\ mem = Bubble /\ wb = Bubble
    /\ trap_pending = FALSE
    /\ mem_ls_pending = FALSE /\ mem_req_fired = FALSE /\ mem_amo_phase = 0
    /\ mem_bus_fault = FALSE /\ mem_load_data = 0
    /\ resv = [valid |-> FALSE, word |-> NoWord]
    /\ div_busy = FALSE /\ div_started = FALSE /\ div_done_latched = FALSE
    /\ div_result = [id |-> 0, opnd |-> 0]
    /\ rf = [r \in Reg |-> 0]
    /\ dmem = [busy |-> FALSE, id |-> 0]
    /\ lrLive = NoWord

Spec == Init /\ [][Next]_vars

-----------------------------------------------------------------------------
(* Fairness: the buses accept and answer (AxiFabric proves the arbiter     *)
(* serves every port), the divider's counter reaches zero, the clock runs. *)
(* Nothing is assumed of interrupts.                                       *)
FetchAccepted == Next /\ ~fetch_inflight /\ fetch_inflight'
FetchAnswered == Next /\ fetch_inflight /\ ~fetch_inflight'
DmAccepted    == Next /\ dmem_req_valid /\ ~dmem_req_valid'
DmAnswered    == Next /\ dmem.busy /\ ~dmem'.busy
DivFinished   == Next /\ div_busy /\ ~div_busy'

FairSpec == /\ Spec
            /\ WF_vars(Next) /\ WF_vars(FetchAccepted) /\ WF_vars(FetchAnswered)
            /\ WF_vars(DmAccepted) /\ WF_vars(DmAnswered) /\ WF_vars(DivFinished)

-----------------------------------------------------------------------------
(* Every register holds a value of its type.                               *)
TypeOK ==
    /\ pc \in PC /\ fetch_inflight_pc \in PC
    /\ fetch_inflight \in BOOLEAN /\ fetch_squash \in BOOLEAN /\ trap_pending \in BOOLEAN
    /\ id \in Token /\ ex \in Token /\ mem \in Token /\ wb \in Token
    /\ mem_ls_pending \in BOOLEAN /\ mem_req_fired \in BOOLEAN /\ mem_bus_fault \in BOOLEAN
    /\ div_busy \in BOOLEAN /\ div_started \in BOOLEAN /\ div_done_latched \in BOOLEAN
    /\ mem_amo_phase \in 0..1
    /\ mem_load_data \in Id
    /\ resv \in [valid : BOOLEAN, word : Word \cup {NoWord}]
    /\ div_result \in [id : Id, opnd : Id]
    /\ rf \in [Reg -> Id]
    /\ dmem \in [busy : BOOLEAN, id : Id]
    /\ lrLive \in Word \cup {NoWord}

AccessOwned ==
    /\ dmem.busy => mem_busy /\ mem_req_fired /\ mem.id = dmem.id
    /\ wb_redirect => ~dmem_req_valid /\ ~dmem.busy

DividerOwned ==
    div_busy \/ div_done_latched =>
        ex.valid /\ ex.cls = "div" /\ div_started /\ div_result.id = ex.id

(* The data bus works for the instruction in MEM and for no other: an      *)
(* access in progress is that instruction's, and none is in progress or    *)
(* starting when write back flushes the pipeline, so an answer is never    *)
(* given to a younger instruction and a flushed store never reaches memory. *)
(* A running or finished division is the one in EX: a flush never leaves   *)
(* behind a division whose quotient the next DIV would take for its own.   *)
ResultsOwned == AccessOwned /\ DividerOwned

FetchFindsEmptyId == fetch_inflight => ~id.valid

BranchIsAlone == branch_redirect => ~id.valid

(* The word a fetch brings always has decode to go to: no answer arrives   *)
(* while decode holds a stalled instruction, for it would be dropped.      *)
(* When a branch redirects in EX decode is empty, so the flush of decode   *)
(* and the branch's own advance never race for a younger instruction.      *)
DecodeIsFree == TypeOK /\ FetchFindsEmptyId /\ BranchIsAlone

(* Every instruction or interrupt gets through: whatever stalls on what,   *)
(* write back commits again and again.                                     *)
KeepsCommitting == []<>wb.valid

-----------------------------------------------------------------------------
(* The pipeline implements the sequential machine of Isa.                  *)

(* Where the instruction after t is.                                       *)
Target(t) ==
    IF t.trap THEN TrapVector
    ELSE IF t.cls = "ret" THEN ReturnTarget
    ELSE IF t.cls = "branch" /\ t.taken THEN BranchTarget
    ELSE Next4(t.pc)

(* The address the hart has reached: the oldest instruction's that is in   *)
(* the pipeline and not committing yet.                                    *)
NextToCommit ==
    IF wb.valid THEN Target(wb)
    ELSE IF mem.valid THEN mem.pc
    ELSE IF ex.valid THEN ex.pc
    ELSE IF id.valid THEN id.pc
    ELSE IF fetch_inflight /\ ~fetch_squash THEN fetch_inflight_pc
    ELSE pc

(* The commit port, and what write back shows beside it.                   *)
CommitPort ==
    IF ~wb.valid THEN [valid |-> FALSE]
    ELSE [valid |-> TRUE, pc |-> wb.pc, cls |-> wb.cls, taken |-> wb.taken, dst |-> wb.dst,
          src |-> wb.src, word |-> wb.word, id |-> wb.id, opnd |-> wb.opnd,
          trap |-> wb.trap, result |-> CommitRd, stored |-> ~wb.hasRes]

Hart == INSTANCE Isa WITH pc <- NextToCommit, reg <- RfAfterWb, resv <- ReservedAfterWb,
                          commit <- CommitPort, Successor <- Next4

(* Instructions commit in program order with none lost, repeated or run    *)
(* after a flush, each with the operand the older ones left and a result   *)
(* of its own; interrupts and faults are precise; an SC stores exactly     *)
(* when its reservation stands.                                            *)
ImplementsIsa == Hart!Spec

(* The program order alone: what commits is what comes next, and nothing   *)
(* but a commit changes what comes next.                                   *)
CommitsInOrder ==
    [][IF wb'.valid THEN wb'.pc = NextToCommit
                    ELSE NextToCommit' = NextToCommit]_vars

=============================================================================
