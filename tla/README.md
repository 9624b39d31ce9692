# Qinglong-Core: a verification development

Qinglong-Core is an RV32IMA system-on-chip in SystemVerilog (`src/rtl`): a five-stage pipelined
core with an Sv32 MMU, instruction and data caches, an AXI4 master, interrupt controllers and a
console, able to boot Linux. Around it are a Verilator simulator with C++ mains (`src/sim/cpp`),
scripts that load an FPGA over JTAG, and the software that runs on it (`src/sw`). This directory
holds TLA+ models of all of these, the TLC configurations that check them and TLAPS proofs about
them. In a model of hardware a step is one clock edge unless the module's header says otherwise, a variable
is a register (named as in the source without its `_q`), and an operator named after a wire is
that wire; in a model of software a step is one access to what others see. `PROJECT.json` maps
every definition to the lines it translates.

## 1. The system

| part | source | state it keeps | operations |
|---|---|---|---|
| Pipelined core | `core/core_pipeline.sv`, `core/regfile.sv` | fetch engine (`pc`, fetch in flight, squash flag), ID/EX/MEM/WB registers, trap latch, bus handshake of MEM, divider latch, LR/SC reservation, register file | fetch, decode, execute, access, commit; stall, flush, forward; inject interrupts |
| Divider | `core/div_unit.sv` | counter, partial remainder | start, done |
| MMU | `core/mmu.sv` | two 4-entry TLBs, two walk-result caches, two PMP latches, one walker | translate, walk, fill, SFENCE.VMA, answer faults |
| CSR file | `core/csr.sv` | privilege, trap CSRs, PMP CSRs | trap, return, read/write, interrupt decision |
| PMP checker | `core/pmp.sv` | none | match and decide |
| I-cache, D-cache | `cache/icache.sv`, `cache/dcache.sv` | lines, tags, pseudo-LRU bits, fill counters | look up, fill, write through, invalidate |
| SRAM | `mem/sram_dp.sv` | words, one answer register per port | read (port A), read/write (port B) |
| Fabric | `soc/soc_top.sv` | arbiter registers, request register `dm_pipe` | decode, route, arbitrate |
| AXI master | `soc/axi4_master.sv` | FSM, latches, response pulse, cooldown | read, write |
| AXI routers, slaves | `soc/axi4_router*.sv`, `soc/axil_*.sv` | selected slave, captured channels | route, decode error |
| PLIC, CLINT | `soc/plic.sv`, `soc/clint.sv` | priorities, enables, pending, in flight; mtime, mtimecmp, msip | gate, claim, complete; count |
| Console | `soc/mmio.sv`, `uart/uart_tx.sv` | byte register; shift register | hand over, send |
| Simulator | `sim/cpp/elf_loader.cpp`, `sim_main.cpp`, `sim_linux.cpp` | words of the ELF file, cycle count, exit code, pending access of the trace | load, reset, clock, report, trace |
| JTAG loader, boot ROM | `fpga/scripts/jtag_load.tcl`, `sw/bootrom/bootrom.S` | DDR, three handshake words | stage, arm; clear, poll, jump |
| Demo programs | `sw/freertos`, `sw/common`, `sw/tests/c` | tasks, transmit FIFO; interrupt counts | print, sleep, assert, exit; arm, handle |
| Multicycle core | `core/core_multicycle.sv` | one FSM | the same ISA, one instruction at a time |

How they interact. The core asks for fetches and data accesses over two single-outstanding ports
(`docs/bus.md`): a request is accepted when `valid` and `ready` meet, its answer is one pulse in
a later cycle and the requester must take it. The MMU stands in both ports; it passes a request
on, refuses it itself (page fault, PMP), or holds it while its walker reads page tables over a
third port. `soc_top` routes each translated request by address: SRAM through a cache, MMIO,
CLINT and PLIC directly, everything else through one arbiter to one AXI master. The D-cache and
the walker share SRAM port B; the I-cache has port A. A commit of FENCE.I invalidates the I-cache,
of SFENCE.VMA the TLBs, of a `satp` write or a return the translation context, all while the
front end may already have something in flight. Programs reach the CLINT and the UART by loads and
stores of words; a simulation ends when one stores to the exit register or to `tohost`. Linux is
started by the boot ROM, which finds a magic word in DDR that a host - the simulator through its
DPI backdoor, or a JTAG script - puts there after the images.

What is hard about it:

* **Interleaving.** Every unit is a process of its own with its own latency: the order in which a
  fetch, a walk, a data access, a redirect, an interrupt and the end of a division meet is
  chosen by bus timing, and the directed tests of `src/tb` try few of the orders.
* **State used after it was read.** The MMU routes an answer by the state of translation in the
  cycle the answer comes, not the one in which the request was accepted; a walk fills the TLB
  with the ASID of a later cycle; results of walks outlive the fetch that wanted them.
* **Flushes.** A branch, trap, return, fence or `satp` write drops what is younger, and only that,
  in a machine in which younger things are spread over a bus, a decode slot and a divider.
* **Waiting.** Decode, EX, MEM, the trap latch, the serialisation of CSRs, the arbiter's priority
  and the AXI cooldown all wait on each other.
* **Ordering of memory.** Stores go through a write-through cache, walks bypass it, instruction
  fetches come from another one.
* **Restarts.** DDR outlives the reset of the hart and the reprogramming of the FPGA; the host's script
  and the boot ROM meet on it without a lock.
* **Halves and pieces.** 64-bit registers are read and written by halves while they count; lines are
  printed by two tasks byte by byte; images are loaded word by word, burst by burst.

`PROJECT.json` lists the hazards at their lines, each with the properties that would notice it.

What makes each part correct: the core commits the program in order, each instruction with the
operands of its predecessors, exactly once, precisely at traps, and never stops; a fetch brings
the word the current address space names, with a permission it has, or the fault it deserves; a
request through the fabric is answered exactly once with its own answer; a cached memory is
indistinguishable from an uncached one; an interrupt is claimed once per request and delivered
to the privilege level that must take it; a program's verdict is the simulator's, the trace and the
log tell what happened, and the hart boots what was staged, whole.

## 2. The modules

| module | models | role |
|---|---|---|
| `Isa` | what the core promises | abstract specification: one instruction commits at a time |
| `Pipeline`, `MCPipeline` | `core_pipeline.sv` cycle by cycle | implements `Isa` (`ImplementsIsa`) |
| `PipelineProofs` | | theorems about `Pipeline` |
| `AxiFabric` | arbiter of `soc_top.sv`, `axi4_master.sv` | component |
| `IfetchPath`, `MCIfetchPath` | instruction side of `mmu.sv` composed with the fetch engine and the fetch routing of `soc_top.sv` | component and its instances |
| `IfetchPathProofs` | | theorems about `IfetchPath` |
| `Memory` | what the data cache promises | abstract specification: a memory of single words |
| `CacheSets` | what both caches share: address fields, tree pseudo-LRU | operators |
| `Dcache`, `MCDcache` | `dcache.sv`, SRAM port B and its arbiter, the walker as its other client | implements `Memory` (`ImplementsMemory`) |
| `DcacheProofs` | | theorems about `Dcache` |
| `Icache`, `MCIcache` | `icache.sv`, SRAM port A, composed with the fetch engine, FENCE.I and stores | component and its instance |
| `IcacheProofs` | | theorems about `Icache` |
| `Traps` | trap part of `csr.sv` with the interrupt injection of `core_pipeline.sv` | component |
| `Plic`, `MCPlic` | `plic.sv` with the handlers of its two contexts | component and its instance |
| `Clint` | `clint.sv` | component |
| `IrqDemos` | `irq_timer.c`, `irq_swi.c`, `irq_wfi.c` | composes the programs with `Clint` |
| `ElfLoader` | `elf_loader.cpp` | operators on files |
| `SimMain`, `MCSimMain` | `sim_main.cpp`, the DPI backdoor, the verdict of `regress_c.sh` | composes the testbench with `ElfLoader` |
| `LinuxBoot` | staging in `sim_linux.cpp`, `jtag_load.tcl`, `bootrom.S` | component: host, DDR and hart |
| `SimLinux`, `MCSimLinux` | the clock loop of `sim_linux.cpp`, the tap and `dm_pipe` of `soc_top.sv` | composes the loop with `LinuxBoot` |
| `SimLinuxProofs` | | theorems about `LinuxBoot` and `SimLinux` |
| `Freertos` | `freertos/main.c`, `uartlite.h`, `mmio.h`, `FreeRTOSConfig.h` | component, with the kernel as environment |
| `SocProofs` | | theorems about `Plic` and `AxiFabric` |
| `InterruptProofs` | | theorems about `Traps` and `IrqDemos` |
| `SoftwareProofs` | | theorems about `Freertos` and `SimMain` |

**Pipeline.** `Clock` is one edge; its parameters are the cycle's inputs (interrupt level, bus
handshakes, the word a fetch returns, the end of a division). Data are abstracted to provenance:
every instruction gets a number when it enters decode, a result is the number of the instruction
that computed it, a register holds the number of its last writer. An operand is then right
exactly when it is the right number, so one wrong forwarding path shows. Instructions have a
class, a destination, a source and, for LR/SC, a word; the source's two operand paths are copies
of each other and one is kept. What a fetch returns is any legal instruction, so runs quantify over all
programs. `dmem` (the access the bus holds) and `lrLive` (the word the committed instructions
reserve) are history. The bus of the core is the environment: it accepts when it likes, answers
once, and may answer in the cycle of acceptance only with a fault, as the MMU does.

**AxiFabric.** Steps are the master's edges (`Grant`, `Write`, `WriteB`, `Read`, `ReadR`,
`Respond`, `CoolDown`) and, between them, changes of the clients' request levels (`Request1`,
`LaunchWalk`, `WithdrawFetch`, `TakeTrap`). The slave is the environment: AW and W taken in any
order, answers after any delay, a fault exactly for an undecoded address.

**IfetchPath.** An address is a page, a word is named by the frame it is read from, the core
behind the fetch engine is reduced to the instructions it has fetched (`pend`) and to what the
oldest does to translation (`Events`). Everything of the instruction side is there: hit, walk,
fill, fence, walk-result cache, PMP latch, multiplexer, both paths (SRAM and AXI). `seen` and
`kept` are history: the values each PTE has had since the last fence over it.

**Dcache.** One action per state of the FSM (`Accept`, `LookupHit`, `LookupMiss`, `Fill`,
`WriteThrough`, `Respond`), conjoined with an edge of port B (`PortEdge`) and one of the walker
(`WalkEdge`): every step is the same clock edge in all three. A word is a function of byte lanes,
so masks matter. `Memory` lets the access take effect at one moment; the refinement mapping
(`DataClient`, `Walker`) places a store's when port B takes it and a load's when the answer is
assembled.

**Icache.** The same machine without stores, but in company: `CoreEdge` is the fetch engine, the decode slot
and the serialisation of FENCE.I, because whether a clear is safe depends on what the core lets
overlap with it. `since` is history: the values each word has had since the last FENCE.I.

**Traps.** Steps are instructions: one leaves decode (`Issue`), the pipeline empties (`Commit`),
or a cause is latched in decode (`Inject`) and taken cycles later (`TakeInterrupt`). The lines are
inputs of every step. Each CSR of the trap unit has its action, with the masks of the source;
`mframe` and `sframe` are history: what the last trap to each mode interrupted, forgotten when
software rewrites what the trap saved.

**Plic.** One action per access, each with the edge of the gateways (`Gateways`), because the
order of the two assignments in one clocked block decides what a claim sees. Software is a
hart: one access at a time, completing only what it has claimed. `held` is what handlers have
claimed, `raised` is history.

**Names.** `SocProofs`, `InterruptProofs` and `SoftwareProofs` each extend two components, so the second one's
specification has a prefix: `FabricSpec`, `DemoSpec`, `BenchSpec`, and likewise for its initial
states, steps, type invariant and variables. `LeaveHandler` of `IrqDemos` is the `mret` of the programs'
handler, `Respond` of `AxiFabric` the response pulse of `axi4_master.sv`.

**Clint and IrqDemos.** `Edge(r)` is the clock edge with a request. A half is a number below `Half`; accesses
are of whole words, as all programs make them. In `IrqDemos` every action of the hart is conjoined
with an edge, so the counter runs through every access; `Request` and `Response` are the two ends
of one, and `Idle` is a cycle without either. `began` and `read` are history. Both programs are in
one module because they share the trap entry and the counter; `demo` says which runs.

**ElfLoader and SimMain.** A file is a record of what the loader looks at: program headers,
symbol tables, and which check it fails. `SegmentWords`, `ElfWords` and `SymbolValue` are the loops.
`SimMain` walks through `main`: one action per system call of `Mapped` that may fail (`OpenFile`,
`StatFile`, `MapFile`), the parsing (`Parse`), which may throw, and the destructor (`Unmap`); the copy
into the SRAM (`Loaded`, the words outside it skipped), the reset, one action per iteration of the
clock loop (`Cycle`), and `Return`. `fd` counts what happened to the descriptor, so that a second close shows. What the program does is a choice in each cycle; `reports` is the history of
it, and the properties compare it with `rc` and `log`.

**LinuxBoot.** DDR is a row of units, each a burst. `Images` gives the calls of `load_blob_at` in
order; a simulation writes them at once per image (`SimLoad`), a JTAG session burst by burst
(`JtagBurst`), with the ROM polling meanwhile. The ROM's loads and stores of the handshake words
are one action each, in any order with the host's: nothing makes the script wait for the ROM.
`armed` and `early` are history: the host wrote the magic since the last reset and nothing has taken it;
and it wrote a word while the ROM was still clearing them. `Setups` says who stages and whether the ROM
is that of `bootrom.S` or the older one of the repository's `bootrom.bin`, which does not clear. `BoardReset` is reprogramming or the reset button, between sessions; `OsScribbles` is
the booted system using DDR, so that a second session finds anything.

**SimLinux.** One iteration of the loop and the edge it starts with are one action, `Cycle`; the
core's accesses, their translation, faults and latencies are choices, `dm_pipe` and the tap are as in
the source. `request.win` holds the arguments that window the trace. `mlines` is what the iteration
printed, `told_priv` is the mode a reader of the log would believe.

**Freertos.** The kernel is not in the repository; it is a preemptive scheduler with fixed priorities and
`vTaskDelay` in periods of 250 ms (`Running`, `Tick`, external where only the kernel decides). A
constant string is one token; numbers are printed digit by digit through `put_dec`. `build` and
`heap` range over what the demo may be compiled and linked as: for the FPGA, which has a FIFO and does not
end, or for simulation; with lines printed faster than a period passes (`prompt`), or not; and any number of
words for the heap, of which a task takes its stack (256, the idle task 128) and a control block, or
nothing if there is no room. `Asserts` is what `configASSERT` does in whichever actor it fails; `MayTick` lets time pass while `blink`
prints, so that `hello` preempts it between any poll and its write, unless lines are prompt.

## 3. The runs

| run | question | bounds |
|---|---|---|
| `AxiFabric` | Is every request answered once, with its own answer, and eventually? | 2 addresses (one decoded), 2 words, cooldown 2 |
| `PipelineSystem` | Does the pipeline implement `Isa`, with loads, stores, branches, divisions, CSRs, `satp`, returns, fences, LR, SC, AMO, traps and interrupts? | 3 addresses, 1 register, 2 words |
| `PipelineLive` | Does the core go on committing? | every class, one address, no register |
| `IfetchPath` | Does a fetch bring what its page names and get an answer? | 2 pages, 3 frames (one denied by PMP), 2 TLB entries, 1 change of a PTE |
| `Dcache` | Are cache and port a memory of single words, and is every access answered? | 1 set of 4 ways, 5 lines of 2 words, 2 byte lanes |
| `Icache` | Is nothing executed that is older than the last FENCE.I? | 1 set of 4 ways, 5 lines of 4 words, stores to one word |
| `Traps` | Is a trap taken only if it may be, and does it return to what it interrupted? | interrupts MTI and SSI, one exception, 2 addresses |
| `Plic` | Is an interrupt handled once, by one context, best first? | 3 sources, 2 contexts, priorities 0..2, thresholds 0..1, 3 enable words |
| `IrqDemos` | Do the timer and software interrupt programs read, arm and finish as they mean to? | halves of 5 bits, period 24, 3 ticks, 1 idle cycle between steps |
| `SimMain` | Is the file in the SRAM, is everything closed, and is the status the program's? | 4 words of SRAM, 14 files, caps of 1, 3 and 5 |
| `SimLinux` | Does the hart boot what was staged, and do trace, log and status tell the run? | 8 units of DDR, both ROMs, 2 sessions, 2 resets, 2 addresses, up to 9 cycles |
| `Freertos` | Are lines whole, tasks on time, and exits truthful? | FIFO of 2, base 4, target 6, counters modulo 8, 6 heaps |

All hold. Several properties are conjunctions of invariants that answer one question (`NoPhantom`,
`ResultsOwned`, `DecodeIsFree`, `TlbFresh`, `MemoryIsCurrent`, `FenceClears`, `TakesWhatItLatched`,
`DeliveredOnce`, `QuietWhileArming`, `NothingLeftOpen`, `LogTells`, `PrintsWhole`); each module's type
invariant is part of one of them. The conjuncts have names of their own and can be checked alone.

Why the bounds are enough. The pipeline holds at most four instructions and a fetch; three
addresses let a trap vector, a return target, a branch target and straight-line code differ from
each other, one register lets every distance of read after write occur, and the ASSUME on `IdCount`
makes numbers never run out. Numbers are only ever compared, so `MCPipeline` explores one of the
states that differ in which numbers they use (`MCView`). The fabric has one transaction at a time;
two addresses tell a right one from a wrong one, two words a right word, and a cooldown of 2 has a
first, a middle and a last cycle (the source's 8 has nothing more; the proofs are for every value).
In `IfetchPath` the walker, each walk-result register and each path hold one item, so two pages give
every conflict between "this" and "the other"; two TLB entries make replacement wrap. Sets of a
cache do not meet, so one is enough; it has one line more than ways, so that lines are replaced,
and the way tests and the replacement tree are the source's four. In `Icache` the lines that are
not stored to are alike (symmetry), and states that differ only in what an invalid way holds are
merged (`MCView`): nothing reads it before a fill has overwritten it. `Traps` needs one interrupt
that can be delegated and one that cannot; every mask of `csr.sv` treats the others like one of
these. `mstatus` is written a field at a time, which reaches every value in several steps, the reserved
one of MPP included. `Plic`
has the system's own sources and contexts (alike, hence symmetric); with three priority levels and
two thresholds a source can be below, at and above the threshold and below, equal to and above
another.

In `IrqDemos` a half wraps every 32 cycles, less than two periods, and idle cycles shift the accesses, so carries fall
between any two of them; the period has to be longer than a handler, as it is in the programs. `SimMain` has a file of whole words, one in two segments, one without `tohost`, one
that lies partly outside the SRAM, one whose file part ends in the middle of a word with bss behind it, one
whose second segment begins in the middle of a word, and one for each check of the loader; its caps let a report come before, in and
after the last cycle. In `SimLinux` an image can touch the next, lie on it, reach the handshake words or leave the aperture:
a kernel over the device tree and into the initramfs, an initramfs over the handshake words, a raw image anywhere, and the older
or the present ROM reads what came of it. Two sessions with a
reset before and between them give a magic word left by the first, and a script that arms at every point of the ROM; the windows begin and end while
accesses are under way. In `Freertos` a FIFO of two fills in every place of a line, numbers have one and two
digits, and the counters wrap; with 20 words for a control block the heaps have room for nothing, for the idle task alone, for `hello`
alone, for `hello` and the idle task, for both tasks, and for all three, as the 2048 words of
`FreeRTOSConfig.h` have.

## 4. Known deviations

What follows is what the code does outside the scope of the runs above, or where it departs from its own
documents. The configurations are kept here, and TLC finds the violation with them, for instance with
`tlc -config IfetchMret.cfg MCIfetchPath`.

| configuration, module, property | what happens |
|---|---|
| `IfetchMret`, `MCIfetchPath`, `AnswerOwed` | Bare M-mode fetches the word after MRET; MRET commits while it is in flight and turns translation on; the new pc misses the TLB, so the multiplexer is in its stall branch (`mmu.sv` 678), which takes the answer and shows the core nothing: it waits for ever. `docs/bus.md` 19 promises one answer for each request. The program has to be on the AXI path (or one as slow) for the answer to arrive that late. |
| `IfetchStale`, `MCIfetchPath`, `FetchedSinceFence` | A walk ends for a fetch that a redirect has cancelled and its result stays in the walk-result cache. SFENCE.VMA does not clear it (`mmu.sv` 932; `mmu.sv` 65 says it clears), and the next fetch of the page uses it. |
| `TrapsSeip`, `Traps`, `OnlyNamedBitsSet` | SEIP reads as the software bit OR the line of the PLIC (`csr.sv` 372-374). `csrrs mip, STIP` reads that and writes all of it back (`csr.sv` 468): the level of the line lands in the software bit and outlives the claim. |
| `SimMainOdd`, `MCSimMain`, `ImageIsExact` | `elf_loader.cpp` 82 zero-fills from `p_filesz` up; when that is not a multiple of 4, the first zero word is floored onto the last word of the file (`sim_main.cpp` 122) and erases its bytes. `sw/common/link.ld` and `sw/freertos/link.ld` align neither `.data` nor `.bss`, so a program whose file part ends in a string can lose the end of it. |
| `LinuxBootRom`, `MCSimLinux`, `PollFires` | `sim_linux.cpp` 211-213 says that the ROM's polling loop fires at once; the ROM of `bootrom.S` 34-36 clears the words first and then waits for ever. The simulation works only with an image of the ROM built before that change; the `bootrom.bin` in the repository is one. |
| `LinuxBootRace`, `MCSimLinux`, `JumpsToEntry` | `jtag_load.tcl` 185-187 arms without knowing where the ROM is. A ROM that has cleared the magic but not yet the entry (`bootrom.S` 34-36) zeroes the entry the host has just written, then finds the magic and jumps to 0; one that has not cleared the magic erases it and waits for ever. The script prints "done. BootROM should now jump into OpenSBI" (189) in both cases. It relies on staging taking longer than three stores. |
| `LinuxBootInitrd`, `MCSimLinux`, `StagedWhole` | An initramfs longer than 64 MiB reaches the handshake words, which `bootrom.S` 3-4 says are past what it can reach; `sim_linux.cpp` 82 checks only the end of DDR, and the words are written into the image. |
| `LinuxBootVector`, `MCSimLinux`, `NeverLost` | Without `+bootrom` nothing is at the reset vector (`soc_tb_linux.sv` 83), although the header of the same file (4-8) has the hart start in the firmware. |
| `FreertosHeap`, `Freertos`, `BothRan` | `main.c` 92-93 ignores what `xTaskCreate` returns. With a heap that has room for `hello` and the idle task but not for `blink`, the demo of "two cooperating tasks" (`main.c` 1) prints PASS and exits with 0 without `blink`. The heap of `FreeRTOSConfig.h` 28 fits all three. |
| `FreertosLost`, `Freertos`, `NoByteLost` | `uartlite.h` 28-29 waits for room and then writes, but `blink` can be preempted in between by `hello`, which fills the FIFO: `blink`'s byte is lost. It takes a build in which a period passes while `blink` prints. |
| `SimLinuxVa`, `MCSimLinux`, `AnswersTraced` | With the multicycle core the tap's virtual address is 0 (`soc_top.sv` 113 samples the core's wire when the access leaves `dm_pipe`, a cycle after that core drops it), so the memory trace shows 0 for it; `soc_top.sv` 95-97 promises the address. |

Others, met while modelling and without a configuration:

* With two ASIDs and `satp` writes (`Asid = {a1, a2}`, `Satp <- MCSatpOn`) `TlbFresh` fails: `satp`
  changes between the read of a PTE and the fill (`mmu.sv` 395), and the entry is tagged with the
  new ASID, which `sw/tests/asm/mmu_asid.S` says cannot happen. With an unmapped page
  (`Mapping <- MCMapping`, `InitTable <- MCHole`) `FetchedLegally` fails: the fault of a cancelled walk is taken for its
  answer by a fetch of another page in flight at that moment (`mmu.sv` 627). The passing run stays
  in S-mode, under one ASID, with every page mapped.
* `core_pipeline.sv` 605 says "Hold the csrw until the fetch returns so satp flips only when the
  pipeline is quiesced"; a fetch accepted in the very cycle the `csrw` leaves MEM is in flight
  while `satp` changes.
* A write of `sip` clears SSIP even when SSI is not delegated (`csr.sv` 491-492); MPP can be written
  with the reserved mode 2 (`csr.sv` 367), which MRET enters (445), and a trap from it to S-mode saves only
  one bit of it in SPP, so that SRET goes on in U-mode; `Traps` models all of this; SRET to S-mode leaves MPRV set
  (`csr.sv` 457); `plic.sv` 100 says that pending "only re-arms once the source deasserts", while line
  250 re-arms at completion, as does the model.
* `irq_timer.c` 51-52 calls its ticks "drift-compensated"; each period starts when the handler reads
  the counter, so the handler's latency adds up. `TicksOnTime` states what holds: never early.
* `regress.sh` looks at the status alone, which is 0 for a program that exits with 256;
  `regress_c.sh` also looks at the log, and `CPassIsHonest` shows that this is enough.
* A kernel longer than 30 MiB is overwritten by the device tree, and a boot ROM longer than 64 KiB is cut,
  both without a word. `jtag_load.tcl` 101 does not read back what it wrote.
* `main.c` 99 exits with 5 if the scheduler returns, and `sw/freertos/crt0.S` 6-7 says that a returning scheduler ends in
  `mmio_exit(1)`. Neither happens: with `configASSERT` defined (`FreeRTOSConfig.h` 52-58) a heap without room for the idle task
  fails an assertion in `vTaskStartScheduler`, and the demo exits with 2.
* In a build where a line takes longer than a period, `blink`'s failing assertion can be outrun by
  `hello` exiting with 0 (`ExitMeans` says so).

## 5. Fairness

`PipelineLive` assumes weak fairness of the clock, of the acceptance and the answer of each bus and of
the end of a division, and nothing of interrupts. The bus part is what `ClientsServed` of
`AxiFabric` shows; the divider counts 32 edges unconditionally. Each is an event that stays enabled
until it comes because a request, once raised, is held.

`AxiFabric` assumes weak fairness of the master's edges (the clock does not stop, the slave
answers, as AXI obliges it), weak fairness of the retirement of a faulted access and strong
fairness of a walk's launch: `mmu.sv` launches at the first edge that finds the walker idle, so in
hardware it cannot miss an opportunity, whereas in the interleaving the walker may be idle
only between other steps.

`Dcache` assumes weak fairness of the clock edge alone (`FairSpec`): port B always takes what it is
offered, and the walker, which goes first, has one read at a time with a cycle between two
requests.

`Icache`, `Traps` and `Plic` state only safety: their waiting is for software or for other parts.
`IfetchPath` states only safety; that the core does not wait in vain is the invariant `AnswerOwed`.

`IrqDemos` assumes weak fairness of the whole next-state relation: the clock runs and the hart makes a step
after at most `MaxIdle` cycles, which for interrupts is an assumption about the program's loop (a loop
that fetches and branches empties the pipeline). `SimLinux` assumes weak fairness of the ROM and
of the host (`BootFair`): the hart executes, the script runs on; resets are not assumed to stop,
`ArmedBoots` speaks of the stretch between two. `Freertos` assumes it of the program, of the UART's
transmitter and of time, each of which is enabled until it happens. `SimMain` states only safety.

## 6. The proofs

Every theorem is of the form `Spec => []Inv`, `Spec => [][A]_vars` or `Spec => Abstract!Spec`, for every value
of the constants that the assumptions allow, and rests on an inductive invariant; a premise, where there is one, is named, one of them
(`AnswerComes`) about the steps of the behaviour. What follows says, module by
module, what that invariant adds to the property and why the property alone is not enough.

`SocProofs` on the fabric, for every set of addresses and words, every decode map and every cooldown:
`FabricTypeCorrect`, `NoPhantomTransaction` (`NoPhantom`), `ResponsesAreRight` (`ResponseAnswersRequest`) and
`OnlyRequestedWrites` (`WritesAreRequested`). An answer is right only because the master's latches and the
slave's channels hold the waiting client's own request. `FabricInv` adds that (`FabricLatched`), and that only the
data client writes. It is preserved action by action; the action property follows from it.

`PipelineProofs`, for every number of addresses, every trap vector and target, every register set, every set of
classes, every program and every pace of buses, divider and interrupts. It has four layers.

* `TypeCorrect` needs that a fresh number always exists, which is a count of the numbers the machine can
  hold (`AddSeven`, `FreshIsId`).
* `Apart`: a fetch in flight finds decode empty, an instruction in EX has nothing in decode behind it unless
  it is a DIV, and nothing is in EX while MEM waits. It gives `FetchesFindDecodeEmpty`
  (`FetchFindsEmptyId`), `BranchesAreAlone` (`BranchIsAlone`) and `DecodeFree` (`DecodeIsFree`).
* `Order`: neighbours in the pipeline are successive instructions, a squashed fetch is never the next one, and
  behind what never completes is only what its flush drops. It gives `ProgramOrder` (`CommitsInOrder`).
  `Owned`: the access on the bus is of the instruction in MEM (`BusHeld`), the division of the one in EX
  (`DividerHeld`), and behind an instruction in MEM EX is empty unless that is a DIV (`Behind`). So what
  redirects from write back had an empty EX behind it a cycle before (`RedirectsAlone`) and can flush nothing that has
  begun: `ResultsAreOwned` (`ResultsOwned`).
* `Values`, on top of all of these, is what the refinement needs: LR, SC, AMO, CSR accesses and returns share
  EX, MEM and WB with nothing (`Alone`); MEM and the answer of the bus carry the number of the instruction in
  MEM (`Results`); the operand EX would forward, or the divider has taken, is what the older
  instructions leave in its register (`Operands`); and the reservation is the one the committed
  instructions left, but for an LR that has its answer and has not retired (`Reservation`). With it each edge of the
  pipeline is one commit of `Isa` or none (`ClockMaps`), and the initial states map to each other (`InitMaps`):
  `ImplementsTheIsa` (`ImplementsIsa`).

`InterruptProofs` on the core, for every set of interrupts of the two levels, exceptions and addresses:
`TypeCorrect`, `TakenIsEnabled` (`TakesWhatItLatched`), `TrapsReturn` (`ReturnsToInterrupted`) and
`MachineIsGuarded` (`MachineStateGuarded`). The inductive invariant says that with a cause latched
no instruction is between decode and write back, that the cause is enabled, and that each saved frame is still in
the registers its return reads - the last for M and S apart, which is where the shared `mstatus`
could go wrong: a trap to one mode writes none of the other's fields. The mode and MPP range over all four values
of two bits.

`InterruptProofs` on the programs that take the CLINT's interrupts, for every width of a half, period, number of
ticks and pace of the hart.

* `TakenOnTime` (`TicksOnTime`), for all time. `Arming` says what the comparand holds at every access of
  `arm_mtimecmp`, and `RaisedOnce` where the software interrupt is in its life; both need to know where
  main and its handler can be (`Flow`).
* `ArmsQuietly` (`QuietWhileArming`) and `ReadsInTime` (`ReadsBetween`) are about programs that end before the
  counter does, so their premise is `Lasts`: its high half is below the greatest, which is what
  `arm_mtimecmp` stores there as the far future. With halves of 32 bits the counter has then run for less than
  2^64 - 2^32 cycles. `ReadsInTime` needs that the low half, when it was read, belonged to a
  time between the call and now whose high half was at least the first one read (`Reading`, `Was`).

`SocProofs` on the interrupt controller, for every number of sources and contexts, priorities and orders of claim,
completion and edge. `PicksTheBest` (`PickIsBest`): the loop over the sources is a recursive function, so it is first shown that
the function exists (`LoopRuns`) and then that each round keeps the best candidate so far
(`RoundKeepsBest`). Both are inductions, which the prover has no rule for; `CountingUp` gets them from the pigeonhole
principle, as there is no injection from k + 1 numbers into k. `EachDeliveredOnce` (`DeliveredOnce`)
is inductive as it stands, with the answer of the loop as a lemma (`PickIsCandidate`).

`IcacheProofs`, for every number of sets, tags and words per line, every set of fetched and stored addresses and
whatever the arrays hold at power-up: `ClearedByFence` (`FenceClears`) and `ExecutesSinceFence`
(`FetchedSinceFence`), from `InvariantHolds`. The invariant is about a fill: its counters are one apart
exactly while port A's answer is under way (`Counting`), what it has written and what it will answer are values
the words have had since the last FENCE.I (`Filling`), and while one is on its way nothing is fetched and
nothing stores (`Serialised`). A request that was not squashed has met no fence (`Answering`).

`DcacheProofs`, for every geometry, memory and order of loads, stores and walks: `AlwaysCurrent`
(`MemoryIsCurrent`) and `ImplementsTheMemory` (`ImplementsMemory`). During a fill the victim's line is still valid
and partly overwritten, so the invariant says that no way holds the line that is being filled (`Purpose`), and that its words
are memory's with the store that missed already merged in (`Filled`), which memory gets by the write-through that follows;
port B's answer belongs to the request of the edge before (`CacheAnswers`, `WalkAnswers`). The refinement has a
lemma for each state of the FSM: a load takes effect where its answer is assembled
(`LookupMaps`, `FillMaps`), a store where port B takes it (`WriteThroughMaps`), a walk's read at its own edge
(`WalkMaps`), and every other step is none.

`IfetchPathProofs`, for every number of pages, frames and TLB entries, every routing of frames to the two
paths, every PMP denial, pace and number of stores to PTEs. The theorems name the scope they
hold in; each scope contains that of the passing run and is wider, and outside it section 4 has a
counterexample.

| theorem (property) | scope |
|---|---|
| `TlbStaysFresh` (`TlbFresh`) | `OneAsid`; every mode, translation switched at any time, faults |
| `OneAnswerAtATime` (`OneAnswerDue`) | `NoFaults`: software maps what its translated mode fetches |
| `AnswerComes` (`AnswerOwed`) | `NoFaults`, and every behaviour all of whose steps are `HoldsWhileFetching`: none that leaves a fetch outstanding switches translation on or off. The mode may change between fetches, and the address space, the PTEs and the TLB at any time. `IfetchMret` shows a step that is not |
| `FetchesLegally` (`FetchedLegally`) | `NoFaults` and `OneAsid` |

`Fresh` needs that a walk's read carries the ASID its entry will get (`OneWalk`); `OneDue` that a PMP latch
is pending only for a fetch nothing else answers; `Owed` that a fetch in flight is denied by PMP, or on a path
with its translation still at hand; and the last theorem needs all of them, with what the walk-result cache holds (`Cached`) and
what the paths will bring (`Coming`). The entry that a lookup picks is that of the highest number
(`BiggestHit`, by pigeonhole again).

`SimLinuxProofs`, for every set of files, any number of sessions and resets, and whatever DDR held.

* `OnlyArmedBoots` (`NoStaleBoot`). Its premise is `BoardRomClears`, that on the board the ROM clears the words
  first; it is what the fix in `bootrom.S` 30-37 is for. `BootInv` says that a magic word the ROM may
  still find is one the host wrote, and where host and hart are relative to each other: a simulated hart
  is in reset until everything is staged, only a JTAG host writes while it runs.
* `RunsTheStaged` (`RunsWhatWasStaged`), under the same premise and for files wherever they lie: a unit of DDR holds what
  the last image over it put there, or the handshake words. `StagedInv` follows the host: what it
  has taken off its queue is in DDR up to what came later (`Staging`), it arms only what is complete
  (`Arming`), and from then on until the jump the words hold what it wrote (`Armed`, `Loaded`), unless
  it armed `early`, while the ROM was clearing.
* `AnswersAreTraced` (`AnswersTraced`), for every window, translation, latency and order of faults and
  answers, with `Core = "pipeline"`: the premise is what the deviation `SimLinuxVa` is about. The loop
  remembers one pending access, prints the virtual address of a wire that belongs to the core, and forgets
  nothing when a window closes. `TraceInv` says why that is enough: the core waits for what is in
  `dm_pipe` or on the bus and drives its address meanwhile (`OneAccess`), and the pending access is the
  one on the bus until the window closes for good (`PendingIsOnBus`).
* `TheLogTells` (`LogTells`), without a premise. `LogInv`: the mode last printed is the hart's
  (`ModeTold`), and the loop stops at the first report and keeps its code until
  `main` returns it as a byte (`Reported`).

`SoftwareProofs` on the testbench, for every set of files, SRAM, cap, exit code, tohost word and whatever
the program does.

* `LoaderCloses` (`NothingLeftOpen`), from `Staged`: what each stage of `main` knows of the descriptor and the
  mapping, on the paths that return, throw from the constructor or throw behind it; and that before the clock
  loop nothing has happened that it looks at (`Quiescent`).
* `LoadsTheImage` is a statement about three loops - words of a segment, segments of a file, writes in order -
  against the byte the program headers name. `Flattened` says where the words of each segment lie in what
  `FlattenSeq` returns, `SegmentIs` which bytes a word holds, and `ImageLoaded` that the last word written to a
  place is one of the segment that counts there. It holds for every file, for the bytes outside
  `Spoilt`: where a segment does not begin on a word, where zeros begin in the middle of the last word
  of the file part, and in the rest of a segment's last word, on which an earlier segment may have
  bytes. `SimMainOdd` shows that such bytes are lost.
* `CPassesHonestly` (`CPassIsHonest`) and `FirstDecides` (`FirstReportDecides`). `Decided`: until the loop stops
  nothing telling has been reported, and it stops in the very cycle of the first telling report, with that
  one's code even when a second comes in the same cycle. The status needs in addition that what the poll finds in
  `tohost` was stored by the program (`DecidedByTohost`), so that the word was loaded as zero
  (`Zeroed`), for which the property asks that the word lies in no spoilt byte (`TohostIsWord`).

`SoftwareProofs` on the FreeRTOS demo, for every FIFO, base, width of the counters, target, build and heap, and every
preemption.

* `ExitTells` (`ExitMeans`), from `Blame`: each actor ends only with its own codes, each code goes with
  the fault that struck, and whoever exits spins there with the processor. That 2 is the only code without an idle task needs
  that the scheduler never starts (`RoomStays`), and that `blink` has kept up with `hello` a count of
  both (`Tally`).
* `LinesComeWhole` (`PrintsWhole`). `SeesRoom`: who is about to write has seen room, and nobody can have written
  since unless it is `blink` and lines are slow. `Printing`: of the line a task is in, the tokens
  out and those to come make up the line, across what others write in between (`OwnWords`). That the tokens of a number read
  back as the number (`PutDecWrites`, `ValueOfDigits`) is an induction over the recursion of `put_dec`, by
  `CountingUp` again.
* `TasksKeepPace` (`KeepsPace`), from `Pace`: a task with the processor has printed its line of this period
  exactly if it is behind it, one that waits has, but for `blink` in an odd period.

The assumptions on constants are `AxiAssumption`, `PipelineAssumption`, `TrapsAssumption`,
`GeometryAssumption`, `IcacheAssumption`, `DcacheAssumption`, `PlicAssumption`, `IfetchAssumption`,
`BootAssumption`, `LinuxAssumption`, `SimAssumption`, `HalfAssumption`, `DemoAssumption` and `FreertosAssumption`: types, sizes that are not zero, names that differ, and more numbers than
the pipeline can hold. TLC evaluates them in the runs.

Only model-checked is liveness, which under fairness is out of the prover's reach: `ClientsServed`,
`KeepsCommitting`, `DataServed`, `ArmedBoots`, `Passes` and `KeepsGoing`. Every other property of the runs
is stated by a theorem, some under a premise that is named above with the reason for it.

## 7. Not modelled, and the plan

1. `Pipeline`, `Isa`, `AxiFabric`, with proofs: done.
2. `IfetchPath`, with proofs: done.
3. `Memory`, `Dcache`, `Icache`, with proofs: done.
4. `Traps`, `Plic`, with proofs: done; to be added, that a pending interrupt is eventually claimed.
5. `Clint` with its programs, the simulator, the boot of Linux, the FreeRTOS demo, with proofs: done.
6. `DmemPath`: data side of the MMU with `dm_pipe` and the store's fault paths. `SimLinux` has the
   register, with translation fixed.
7. The console's hand-over of bytes, the AXI routers.
8. The multicycle core as a second implementation of `Isa`; PMP matching against a reference and
   its lock bits.

Two hazards have no property: `satp` changing while a fetch is accepted, and the interrupt that waits
for an empty pipeline; both need the real fetch path next to the real core in one model, which
`Pipeline` and `IfetchPath` only have each for itself. A third, the register in front of the data
MMU, is of item 6.

Left out on purpose: the arithmetic of the ALU, multiplier, divider and decoder (pure functions of
32-bit words, out of an explicit-state checker's reach), immediate formats, the wiring of the test
benches, the commit trace's columns, FPGA tops and build scripts, the riscv-formal wrapper, the assembly
tests and the Linux init program. Superpages and bus faults of the walker are not in `IfetchPath`; byte
strobes are not in `AxiFabric` and `Clint` because their accesses are whole words; fault inputs of the
caches' memory ports are tied to 0 by `soc_top.sv` and left out; of the CSR file the counters, vectors,
scratch registers, `satp` and the PMP registers are left out. A reset of the board in the middle of the
host's session is not in `LinuxBoot`: the script would go on writing to a DDR the ROM is reading anew,
and nothing in it defends against that. In `Freertos`, the store to the status LED reads back as 0
and is ignored.
