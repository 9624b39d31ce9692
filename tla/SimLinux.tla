----------------------------- MODULE SimLinux ------------------------------
(***************************************************************************)
(* The clock loop of src/sim/cpp/sim_linux.cpp, which follows the staging  *)
(* of LinuxBoot, and the tap the loop samples on the SoC's data bus        *)
(* (src/rtl/soc/soc_top.sv).  The tap sits behind the MMU and behind the   *)
(* register dm_pipe, so an access crosses it at the earliest one cycle     *)
(* after the core asked; its answer comes at least one cycle after that,   *)
(* and the core asks for nothing else in between.  What the core accesses  *)
(* and reports is left open, the boot ROM's own steps included; the ROM    *)
(* takes them at any pace.                                                 *)
(*                                                                         *)
(* One iteration of the loop, with the clock edge it starts with, is one   *)
(* action.  The lines it prints in the memory trace are kept until the     *)
(* next one; of the other lines only the changes of privilege mode are     *)
(* modelled, by the mode they leave the reader with.                       *)
(***************************************************************************)
EXTENDS LinuxBoot

CONSTANTS
  Core,          \* "pipeline" or "multicycle": the core the SoC was built with
  Addr,          \* the word addresses the core uses, none of them 0
  Xlate,         \* the physical address of each
  ExitCodes,     \* what the program may store to the exit register
  ResetToggles   \* the cycles of the reset pulse

ASSUME LinuxAssumption ==
  /\ Core \in {"pipeline", "multicycle"}
  /\ 0 \notin Addr /\ Xlate \in [Addr -> Nat]
  /\ \A r \in SimRequests \cup JtagRequests :
       r.win \in [tfrom : Nat, tto : Nat, mtpamin : Nat, mtpamax : Nat, timeout : Nat]
  /\ ExitCodes \subseteq Nat /\ ResetToggles \in Nat

\* A request to the simulator has a field win: [tfrom, tto, mtpamin, mtpamax,
\* timeout], from the arguments that window the trace and cap the cycles.
arg == request.win

VARIABLES
  core,         \* the core's access: [st, va, wen], st idle, ask or wait
  pipe,         \* dm_pipe: [valid, va, wen]
  bus,          \* the access behind the tap: [valid, va, wen, at]
  priv,         \* the hart's mode, after the edge
  g_cycles, pending_rsp, pending, exit_code, done, prev_priv,
  mlines,       \* the lines of the memory trace printed in this iteration
  told_priv,    \* the mode the log says the hart is in
  out           \* what the SoC put on the tap, and its report, in this iteration

soc == <<core, pipe, bus, priv>>
loopVars == <<soc, g_cycles, pending_rsp, pending, exit_code, done, prev_priv,
              mlines, told_priv, out>>
vars == <<bootVars, loopVars>>

NoAccess == [st |-> "idle", va |-> 0, wen |-> FALSE]
EmptyPipe == [valid |-> FALSE, va |-> 0, wen |-> FALSE]
IdleBus == [valid |-> FALSE, va |-> 0, wen |-> FALSE, at |-> 0]
Quiet == [rsp |-> FALSE, acc |-> IdleBus, exit |-> -1, finish |-> FALSE]
Machine == 3
Modes == {0, 1, Machine}

Init ==
  /\ BootInit
  /\ core = NoAccess /\ pipe = EmptyPipe /\ bus = IdleBus /\ priv = Machine
  /\ g_cycles = ResetToggles
  /\ pending_rsp = FALSE /\ pending = [va |-> 0, pa |-> 0, wen |-> FALSE]
  /\ exit_code = -1 /\ done = FALSE
  /\ prev_priv = Machine
  /\ mlines = {} /\ told_priv = Machine /\ out = Quiet

-----------------------------------------------------------------------------
(* The SoC between two edges.                                              *)

\* The tap of a core that drives its address only while it asks (a mutant).
AskedVa == IF core.st = "ask" THEN core.va ELSE 0

\* tap_dm_req_va is what the core drives now: the pipeline holds the address of
\* the instruction in MEM, the multicycle core drives 0 once it has asked.
tap_dm_req_va == IF Core = "pipeline" \/ core.st = "ask" THEN core.va ELSE 0

\* The next edge.  The MMU takes the access out of dm_pipe when it goes to the
\* bus, or answers it with a page fault that the tap does not see.
SocEdge(fire, rsp, fault) ==
  /\ LET up == core.st = "ask" /\ (~pipe.valid \/ fire \/ fault)
     IN  /\ pipe' = IF up THEN [valid |-> TRUE, va |-> core.va, wen |-> core.wen]
                    ELSE IF fire \/ fault THEN EmptyPipe ELSE pipe
         /\ \/ up /\ core' = [core EXCEPT !.st = "wait"]
            \/ core.st = "ask" /\ ~up /\ core' = core
            \/ core.st = "wait" /\ core' = IF rsp \/ fault THEN NoAccess ELSE core
            \/ core.st = "idle" /\ \/ core' = core
                                   \/ \E va \in Addr, wen \in BOOLEAN :
                                        core' = [st |-> "ask", va |-> va, wen |-> wen]
  /\ bus' = IF fire THEN [valid |-> TRUE, va |-> pipe.va, wen |-> pipe.wen, at |-> g_cycles]
            ELSE IF rsp THEN IdleBus ELSE bus

-----------------------------------------------------------------------------
(* One iteration of the loop.                                              *)

InWindow == g_cycles >= arg.tfrom /\ g_cycles <= arg.tto
InPa(pa) == pa >= arg.mtpamin /\ pa <= arg.mtpamax

\* A tracer that leaves the answered access pending (a mutant).
KeepsPending == TRUE

AfterAnswer == FALSE

MemTrace(fire, rsp) ==
  LET issue == [va |-> tap_dm_req_va, pa |-> Xlate[pipe.va], wen |-> pipe.wen]
      printed == fire /\ InWindow /\ InPa(issue.pa)
      p == IF printed THEN issue ELSE pending
      waiting == pending_rsp \/ printed
      answered == InWindow /\ rsp /\ waiting /\ InPa(p.pa)
  IN  /\ mlines' = (IF printed THEN {[kind |-> "i", va |-> issue.va, pa |-> issue.pa,
                                      wen |-> issue.wen]} ELSE {})
                   \cup (IF answered THEN {[kind |-> "r", va |-> p.va, pa |-> p.pa,
                                            wen |-> p.wen]} ELSE {})
      /\ pending' = p
      /\ pending_rsp' = IF answered THEN AfterAnswer ELSE waiting

\* The end of the iteration prints a change of mode and remembers the mode; a
\* loop that forgets to remember it (a mutant).
KeepsOldMode(cur) == prev_priv

RemembersMode(cur) == cur

Cycle(fire, rsp, fault, exit, finish, mode) ==
  /\ host = "run" /\ ~done /\ g_cycles < arg.timeout
  /\ fire => pipe.valid /\ ~bus.valid
  /\ fault => pipe.valid /\ ~bus.valid /\ ~fire
  /\ rsp => bus.valid
  /\ SocEdge(fire, rsp, fault)
  /\ priv' = mode
  /\ MemTrace(fire, rsp)
  /\ exit_code' = IF exit # -1 THEN exit ELSE exit_code
  /\ done' = (exit # -1 \/ finish)
  /\ g_cycles' = g_cycles + 1
  /\ prev_priv' = RemembersMode(mode)
  /\ told_priv' = IF mode # prev_priv THEN mode ELSE told_priv
  /\ out' = [rsp |-> rsp, acc |-> bus, exit |-> exit, finish |-> finish]
  /\ UNCHANGED bootVars

\* A cap that outranks a report in its last cycle (a mutant).
OutOfCyclesAnyway == g_cycles >= arg.timeout

OutOfCycles == ~done /\ g_cycles >= arg.timeout

Status(code) == code % 256

LoopOver == done \/ g_cycles >= arg.timeout

Return ==
  /\ host = "run" /\ LoopOver
  /\ exit_code' = IF OutOfCycles THEN 124 ELSE exit_code
  /\ Quit(Status(exit_code'))
  /\ UNCHANGED <<setup, request, todo, sent, session, ddr, hs, rom, armed, early, resets>>
  /\ UNCHANGED <<soc, g_cycles, pending_rsp, pending, done, prev_priv,
                 mlines, told_priv, out>>

CycleStep ==
  \E fire, rsp, fault, finish \in BOOLEAN, exit \in ExitCodes \cup {-1}, mode \in Modes :
    Cycle(fire, rsp, fault, exit, finish, mode)

Boot == BootNext /\ UNCHANGED loopVars

Next == Boot \/ CycleStep \/ Return

Spec == Init /\ [][Next]_vars
FairSpec == Spec /\ BootFair

-----------------------------------------------------------------------------
(* Properties.                                                             *)

\* The harness's and the SoC's state has its type.
TypeOK ==
  /\ BootTypeOK
  /\ core.st \in {"idle", "ask", "wait"} /\ core.va \in Addr \cup {0}
  /\ pipe.valid \in BOOLEAN /\ bus.valid \in BOOLEAN
  /\ priv \in Modes /\ prev_priv \in Modes
  /\ pending_rsp \in BOOLEAN /\ pending.va \in Addr \cup {0}
  /\ exit_code \in ExitCodes \cup {-1, 124} /\ rc \in 0 .. 255
  /\ g_cycles - ResetToggles \in Nat

\* Every access that crossed the tap inside the windows of cycles and of
\* addresses, and was answered inside the first, is traced as answered once,
\* under its own virtual and physical address and kind; no other line claims
\* an answer.
AnswersTraced ==
  LET a == out.acc
      due == /\ out.rsp /\ a.at >= arg.tfrom /\ g_cycles - 1 <= arg.tto /\ InPa(Xlate[a.va])
  IN  { l \in mlines : l.kind = "r" } =
        (IF due THEN {[kind |-> "r", va |-> a.va, pa |-> Xlate[a.va], wen |-> a.wen]} ELSE {})

\* The status says what ended the run, a report in the last cycle of the cap
\* included.
StatusTells ==
  host = "left" /\ g_cycles > ResetToggles =>
    rc = (IF out.exit # -1 THEN out.exit % 256 ELSE IF out.finish THEN 255 ELSE 124)

\* Whoever reads the log knows the mode the hart is in, at every cycle, and
\* whoever reads the status knows what ended the run.
LogTells == TypeOK /\ StatusTells /\ told_priv = priv
=============================================================================
