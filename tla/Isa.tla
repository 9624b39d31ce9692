-------------------------------- MODULE Isa --------------------------------
(***************************************************************************)
(* What the pipeline promises: instructions commit one at a time, each at  *)
(* the address the previous one left, reading the registers the older ones *)
(* wrote.  Register contents are abstracted to the number of the           *)
(* instruction that wrote them, as in Pipeline.  A store-conditional       *)
(* succeeds exactly when the last load-reserved named its word and neither *)
(* a trap, a return, a fence, a satp write, another SC nor an AMO came     *)
(* between.                                                                *)
(***************************************************************************)
EXTENDS Naturals

CONSTANTS TrapVector, BranchTarget, ReturnTarget, Reg, NoReg, NoWord, Successor(_)

VARIABLES pc,      \* of the next instruction
          reg,     \* who wrote each register
          resv,    \* the word the hart holds reserved
          commit   \* what is committing in this cycle: an instruction, or Nothing

vars == <<pc, reg, resv, commit>>

Nothing == [valid |-> FALSE]

Trapping     == {"illegal", "ecall", "irq"}
Redirecting  == {"ret", "fencei", "satp"}
MayTrapOnBus == {"load", "store", "lr", "sc", "amo"}

(* The instruction that commits is whatever the commit port shows: commit'. *)
Commit ==
    LET c == commit' IN
    /\ c.valid
    /\ c.pc = pc
    /\ c.cls \in Trapping => c.trap
    /\ c.trap => c.cls \in Trapping \cup MayTrapOnBus
    /\ ~c.trap /\ c.src # NoReg => c.opnd = reg[c.src]
    /\ ~c.trap /\ c.dst # NoReg => c.result = c.id
    /\ ~c.trap /\ c.cls = "sc" => (c.stored <=> resv = c.word)
    /\ pc' = IF c.trap THEN TrapVector
             ELSE IF c.cls = "ret" THEN ReturnTarget
             ELSE IF c.cls = "branch" /\ c.taken THEN BranchTarget
             ELSE Successor(pc)
    /\ reg' = IF c.trap \/ c.dst = NoReg THEN reg ELSE [reg EXCEPT ![c.dst] = c.result]
    /\ resv' = IF c.trap \/ c.cls \in Redirecting \cup {"sc", "amo"} THEN NoWord
               ELSE IF c.cls = "lr" THEN c.word ELSE resv

(* A cycle without a commit.                                               *)
Idle == commit' = Nothing /\ UNCHANGED <<pc, reg, resv>>

Init == pc = 0 /\ reg = [r \in Reg |-> 0] /\ resv = NoWord /\ commit = Nothing

Next == Idle \/ Commit

Spec == Init /\ [][Next]_vars
=============================================================================
