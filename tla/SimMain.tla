------------------------------ MODULE SimMain ------------------------------
(***************************************************************************)
(* main of src/sim/cpp/sim_main.cpp: the testbench that loads an ELF file  *)
(* into the SRAM through its DPI backdoor, resets the SoC, runs the clock  *)
(* and reports how the program ended: by the MMIO exit register, by the    *)
(* tohost word of riscv-tests, by $finish, or by running out of cycles.    *)
(*                                                                         *)
(* The program under test does anything: in each cycle it stores to the    *)
(* exit register, to its tohost word, or does neither.  One iteration of   *)
(* the clock loop is one action.                                           *)
(***************************************************************************)
EXTENDS ElfLoader, TLC

CONSTANTS
  Elfs,          \* the files that may be given
  Args,          \* [fault, timeout, quiet]: the other command line arguments
  SramBase,      \* the first byte address of the SRAM
  SramWords,     \* its size in words
  PowerUp,       \* the word an SRAM cell holds before anything is written
  ResetToggles,  \* the clock toggles spent in reset, each one a cycle
  ExitCodes,     \* what the program may store to the exit register
  TohostWords    \* what it may store to tohost

ASSUME SimAssumption ==
  /\ SramBase \in Nat \ {0} /\ SramWords \in Nat \ {0}
  /\ ResetToggles \in Nat /\ Elfs \subseteq ElfFile /\ ExitCodes \subseteq Nat
  /\ \A a \in Args : a.timeout \in Nat /\ a.quiet \in BOOLEAN
                     /\ a.fault \in {"none", "usage", "trace", "scope"}

VARIABLES
  elf, args,     \* the file and the arguments, fixed at the start
  stage,         \* how far main has come
  fd,            \* the descriptor of Mapped
  mapped,        \* whether the file is mapped
  thrown,        \* load_elf32 is being left by an exception
  words,         \* elf.words, as the loader returned them
  tohost_addr,   \* the symbol's value, 0 without one
  mem,           \* the SRAM
  g_cycles,      \* cycles counted, those of reset included
  exit_reg,      \* the MMIO exit register: the sticky exit_valid and exit_code
  exit_code,     \* main's variable
  done,          \* the loop has seen a reason to stop
  log,           \* the lines printed about the end
  rc,            \* the status the process leaves with, none until it does
  reports        \* what the program has reported, in order, with the cycle

benchVars ==
  <<elf, args, stage, fd, mapped, thrown, words, tohost_addr, mem, g_cycles, exit_reg,
    exit_code, done, log, rc, reports>>

loaderVars == <<fd, mapped, thrown, words, tohost_addr>>

benchRest == <<elf, args, mem, g_cycles, exit_reg, exit_code, done, log, reports>>

NoStatus == -1
DeadBeef == <<239, 190, 173, 222>>
One == <<1, 0, 0, 0>>

InSram(a) == a >= SramBase /\ (a - SramBase) \div 4 < SramWords
Widx(a) == (a - SramBase) \div 4

sram_dpi_read(m, a) == IF InSram(a) THEN m[Widx(a)] ELSE DeadBeef

\* The memory after the words, those out of range skipped, are written in order.
Loaded(m, ws) ==
  [i \in DOMAIN m |->
     LET at == { k \in DOMAIN ws : InSram(ws[k].byte_addr) /\ Widx(ws[k].byte_addr) = i }
     IN  IF at = {} THEN m[i] ELSE ws[Max(at)].data]

BenchInit ==
  /\ elf \in Elfs /\ args \in Args
  /\ stage = "start" /\ words = <<>> /\ tohost_addr = 0
  /\ fd = "none" /\ mapped = FALSE /\ thrown = FALSE
  /\ mem = [i \in 0 .. SramWords - 1 |-> PowerUp]
  /\ g_cycles = 0 /\ exit_reg = [valid |-> FALSE, code |-> 0]
  /\ exit_code = -1 /\ done = FALSE /\ log = {} /\ rc = NoStatus
  /\ reports = <<>>

\* A process status is a byte.
Status(code) == code % 256

Leave(code) == stage' = "left" /\ rc' = Status(code)

-----------------------------------------------------------------------------
(* Arguments, the commit trace and the DPI scope; then the loader.         *)

StartUp ==
  /\ stage = "start"
  /\ CASE args.fault = "usage" -> Leave(1)
       [] args.fault \in {"trace", "scope"} -> Leave(2)
       [] OTHER -> stage' = "load" /\ UNCHANGED rc
  /\ UNCHANGED <<benchRest, loaderVars>>

\* Mapped::Mapped, call by call.  What it throws leaves no object for which a
\* destructor would run, and main answers it by leaving with 2.
OpenFile ==
  /\ stage = "load"
  /\ IF elf.defect = "open"
     THEN Leave(2) /\ UNCHANGED fd
     ELSE stage' = "fstat" /\ fd' = "open" /\ UNCHANGED rc
  /\ UNCHANGED <<benchRest, mapped, thrown, words, tohost_addr>>

Closed(d) == IF d = "open" THEN "closed" ELSE "twice"

StatFile ==
  /\ stage = "fstat"
  /\ IF elf.defect = "fstat"
     THEN Leave(2) /\ fd' = Closed(fd)
     ELSE stage' = "mmap" /\ UNCHANGED <<fd, rc>>
  /\ UNCHANGED <<benchRest, mapped, thrown, words, tohost_addr>>

\* A failure of mmap that leaves the closing to a destructor (a mutant).
MapLeaks ==
  /\ stage = "mmap"
  /\ IF elf.defect = "mmap"
     THEN Leave(2) /\ UNCHANGED mapped
     ELSE stage' = "parse" /\ mapped' = TRUE /\ UNCHANGED rc
  /\ UNCHANGED <<benchRest, fd, thrown, words, tohost_addr>>

MapFile ==
  /\ stage = "mmap"
  /\ IF elf.defect = "mmap"
     THEN Leave(2) /\ fd' = Closed(fd) /\ UNCHANGED mapped
     ELSE stage' = "parse" /\ mapped' = TRUE /\ UNCHANGED <<fd, rc>>
  /\ UNCHANGED <<benchRest, thrown, words, tohost_addr>>

\* The rest of load_elf32: the header's checks throw, and the segments and the
\* symbols are read through the mapping.
Parse ==
  /\ stage = "parse"
  /\ stage' = "unmap"
  /\ IF elf.defect \in HeaderDefects
     THEN thrown' = TRUE /\ UNCHANGED <<words, tohost_addr>>
     ELSE /\ words' = ElfWords(elf) /\ tohost_addr' = SymbolValue(elf, "tohost")
          /\ UNCHANGED thrown
  /\ UNCHANGED <<benchRest, fd, mapped, rc>>

\* Mapped::~Mapped, as load_elf32 is left, by its return or by an exception.
Unmap ==
  /\ stage = "unmap"
  /\ mapped' = FALSE
  /\ fd' = IF fd # "none" THEN Closed(fd) ELSE fd
  /\ IF thrown THEN Leave(2) ELSE stage' = "loaded" /\ UNCHANGED rc
  /\ UNCHANGED <<benchRest, thrown, words, tohost_addr>>

LoadSram ==
  /\ stage = "loaded"
  /\ stage' = "reset"
  /\ mem' = Loaded(mem, words)
  /\ UNCHANGED <<elf, args, loaderVars, g_cycles, exit_reg, exit_code, done, log, rc, reports>>

Reset ==
  /\ stage = "reset"
  /\ stage' = "run"
  /\ g_cycles' = g_cycles + ResetToggles
  /\ UNCHANGED <<elf, args, loaderVars, mem, exit_reg, exit_code, done, log, rc, reports>>

-----------------------------------------------------------------------------
(* The clock loop.                                                         *)

\* What the program's store of this cycle, if any, leaves behind.
Nothing == [what |-> "nothing", val |-> 0]
Stores == {Nothing}
          \cup { [what |-> "exit", val |-> c] : c \in ExitCodes }
          \cup { [what |-> "tohost", val |-> w] : w \in TohostWords }

PollsTohost(exited) == ~exited /\ tohost_addr # 0

Cycle(store, finish) ==
  /\ stage = "run" /\ ~done /\ g_cycles < args.timeout
  /\ store.what = "tohost" => tohost_addr # 0
  /\ mem' = IF store.what = "tohost" /\ InSram(tohost_addr)
            THEN [mem EXCEPT ![Widx(tohost_addr)] = store.val] ELSE mem
  /\ exit_reg' = IF store.what = "exit"
                 THEN [valid |-> TRUE, code |-> store.val] ELSE exit_reg
  /\ LET val == sram_dpi_read(mem', tohost_addr)
         polled == PollsTohost(exit_reg'.valid) /\ val # Zero
     IN  /\ exit_code' = CASE polled -> IF val = One THEN 0 ELSE 1
                           [] exit_reg'.valid /\ ~polled -> exit_reg'.code
                           [] OTHER -> exit_code
         /\ done' = (exit_reg'.valid \/ polled \/ finish)
         /\ log' = IF args.quiet THEN log
                   ELSE log \cup (IF exit_reg'.valid
                                  THEN { [line |-> "MMIO_exit", code |-> exit_reg'.code] }
                                  ELSE {})
                            \cup (IF polled THEN { [line |-> "tohost", code |-> exit_code'] }
                                  ELSE {})
                            \cup (IF finish THEN { [line |-> "gotFinish", code |-> 0] }
                                  ELSE {})
  /\ g_cycles' = g_cycles + 1
  /\ reports' = (IF store = Nothing THEN reports
                 ELSE Append(reports, [at |-> g_cycles, what |-> store.what, val |-> store.val]))
                \o (IF finish THEN << [at |-> g_cycles, what |-> "finish", val |-> 0] >>
                    ELSE <<>>)
  /\ UNCHANGED <<elf, args, stage, loaderVars, rc>>

\* A test of the cap that forgets that the last cycle may have ended the
\* run (a mutant).
OutOfCyclesAnyway == g_cycles >= args.timeout

OutOfCycles == ~done /\ g_cycles >= args.timeout

LoopOver == done \/ g_cycles >= args.timeout

Return ==
  /\ stage = "run" /\ LoopOver
  /\ IF OutOfCycles
     THEN /\ exit_code' = 124
          /\ log' = log \cup { [line |-> "TIMEOUT", code |-> 124] }
     ELSE UNCHANGED <<exit_code, log>>
  /\ Leave(exit_code')
  /\ UNCHANGED <<elf, args, loaderVars, mem, g_cycles, exit_reg, done, reports>>

CycleStep == \E store \in Stores, finish \in BOOLEAN : Cycle(store, finish)

BenchNext ==
  StartUp \/ OpenFile \/ StatFile \/ MapFile \/ Parse \/ Unmap \/ LoadSram \/ Reset
  \/ CycleStep \/ Return

BenchSpec == BenchInit /\ [][BenchNext]_benchVars

-----------------------------------------------------------------------------
(* Properties.                                                             *)

\* The state of the testbench has its type.
BenchTypeOK ==
  /\ elf \in Elfs /\ args \in Args
  /\ stage \in {"start", "load", "fstat", "mmap", "parse", "unmap", "loaded", "reset", "run", "left"}
  /\ fd \in {"none", "open", "closed", "twice"} /\ mapped \in BOOLEAN /\ thrown \in BOOLEAN
  /\ tohost_addr \in Nat
  /\ g_cycles \in 0 .. ResetToggles + args.timeout
  /\ exit_reg.valid \in BOOLEAN /\ done \in BOOLEAN
  /\ rc \in {NoStatus} \cup 0 .. 255

Size(ph) == IF ph.memsz > Len(ph.data) THEN ph.memsz ELSE Len(ph.data)

WordStart(a) == a - ((a - SramBase) % 4)

\* Where the zeros of a segment begin, and where it ends.
ZerosAt(ph) == LoadAddr(ph) + Len(ph.data)
EndOf(ph) == LoadAddr(ph) + Size(ph)

Midword(ph) == ph.memsz > Len(ph.data) /\ WordStart(ZerosAt(ph)) # ZerosAt(ph)
FileTail(ph) == WordStart(ZerosAt(ph)) .. ZerosAt(ph) - 1
LastWord(ph) == WordStart(EndOf(ph) - 1) .. WordStart(EndOf(ph) - 1) + 3

\* The bytes that loading a segment by whole words may get wrong: all of it and
\* a little more, if it does not begin on a word of the SRAM; the end of the
\* file bytes, where words of zeros begin in the middle of a word; and then its
\* last word, which they may not reach, or else the rest of its last word.
Spoils(ph) ==
  IF WordStart(LoadAddr(ph)) # LoadAddr(ph) THEN LoadAddr(ph) - 3 .. EndOf(ph) + 3
  ELSE IF Midword(ph) THEN FileTail(ph) \cup LastWord(ph)
  ELSE EndOf(ph) .. WordStart(EndOf(ph) + 3) - 1

Spoilt(e) == UNION { Spoils(e.phdrs[i]) : i \in { h \in DOMAIN e.phdrs : e.phdrs[h].load } }

\* The words main writes through the backdoor amount to the memory image the
\* program headers describe: in every byte of the SRAM a segment covers, the
\* byte of the file or zero, whatever the cell held before, but for the bytes
\* that whole words spoil.  The loader works segment by segment and skips words
\* outside the SRAM.
LoadsTheImage ==
  stage \in {"reset", "run"} /\ reports = <<>> =>
    \A i \in 0 .. SramWords - 1, b \in 0 .. 3 :
      LET a == SramBase + 4 * i + b
      IN  Covering(elf, a) # {} /\ a \notin Spoilt(elf) => mem[i][b + 1] = ImageByte(elf, a)

\* "Zero-fill BSS": the same, for every byte a segment covers.
ImageIsExact ==
  stage \in {"reset", "run"} /\ reports = <<>> =>
    \A i \in 0 .. SramWords - 1, b \in 0 .. 3 :
      LET a == SramBase + 4 * i + b
      IN  Covering(elf, a) # {} => mem[i][b + 1] = ImageByte(elf, a)

\* On each of the paths by which load_elf32 returns or throws, from within the
\* constructor or after it, what was opened is closed once and what was mapped
\* is unmapped; and the file is there while its headers are read.
NothingLeftOpen ==
  /\ BenchTypeOK
  /\ fd # "twice"
  /\ stage \in {"loaded", "reset", "run", "left"} => fd # "open" /\ ~mapped
  /\ stage = "parse" => mapped

\* The SoC has been reset and has had its chance to run.
Ran == stage = "left" /\ g_cycles > 0

\* What ends a run: a store to the exit register, a store of anything but zero
\* to tohost, or $finish.
Telling == { k \in DOMAIN reports : reports[k].what # "tohost" \/ reports[k].val # Zero }
First == reports[Min(Telling)]

\* The status is the one the program's first telling report calls for, even
\* when it comes in the last cycle the cap allows, and 124 only when there is
\* none.  For a program whose tohost is a word of the SRAM and is loaded as
\* zero, as riscv-tests have it, and not spoilt by the loader.
TohostIsWord ==
  tohost_addr # 0 =>
    /\ InSram(tohost_addr) /\ (tohost_addr - SramBase) % 4 = 0
    /\ \A a \in tohost_addr .. tohost_addr + 3 : 
         Covering(elf, a) # {} /\ ImageByte(elf, a) = 0 /\ a \notin Spoilt(elf)

FirstReportDecides ==
  Ran /\ TohostIsWord =>
    IF Telling = {} THEN rc = 124
    ELSE CASE First.what = "exit" -> rc = First.val % 256
           [] First.what = "tohost" -> rc = (IF First.val = One THEN 0 ELSE 1)
           [] OTHER -> rc = 255

\* regress_c.sh, run without +quiet, calls a test passed when the status is 0
\* and the log has the line "MMIO exit 0".  It then is: the program stored 0,
\* and not 256, whose status is 0 too, and nothing else came before.
CPassed == rc = 0 /\ [line |-> "MMIO_exit", code |-> 0] \in log

\* A harness that looks at the status alone, as regress.sh does (a mutant).
StatusPassed == rc = 0

HarnessPassed == CPassed

CPassIsHonest ==
  Ran /\ ~args.quiet =>
    (HarnessPassed <=> Telling # {} /\ First.what = "exit" /\ First.val = 0)

=============================================================================
