--------------------------- MODULE SimLinuxProofs ---------------------------
(***************************************************************************)
(* Proofs about the boot handshake of LinuxBoot, in the simulation that    *)
(* SimLinux composes it with and on the board, and about the memory trace  *)
(* of that simulation.                                                     *)
(***************************************************************************)
EXTENDS SimLinux, SequenceTheorems, TLAPS

\* On the board DDR may hold anything after a reset, so the ROM must clear.  In
\* a simulation it need not: nothing but the host writes DDR before it runs.
BoardRomClears == \A s \in Setups : s.by = "jtag" => s.clears

\* Where the ROM has not yet looked at the magic word, and where it has.
Looking == {"reset", "clear entry", "clear dtb", "poll"}
Took == {"take", "load entry", "load dtb", "jump"}

\* A magic word the ROM may still find is one the host wrote; the records have
\* the fields they are updated at.
MagicIsArmed ==
  /\ "pc" \in DOMAIN rom /\ "magic" \in DOMAIN hs
  /\ rom.pc \in Looking /\ hs.magic = "deadbeef" => armed
  /\ rom.pc \in Took => armed

\* The simulator's hart is held in reset until main has staged everything, and
\* only the board's host goes through the states of jtag_load.tcl.
HeldInReset ==
  /\ setup \in Setups
  /\ host \in {"load", "loaded", "traced"} => rom.pc = "reset"
  /\ host = "idle" /\ setup.by = "sim" => rom.pc = "reset"
  /\ host \in {"clear", "write", "arm"} => setup.by = "jtag"

BootInv == MagicIsArmed /\ HeldInReset

\* Words written all three at once have the field of the magic.
LEMMA WordsHaveMagic ==
  \A m, e, d : "magic" \in DOMAIN [magic |-> m, entry |-> e, dtb |-> d]
OBVIOUS

LEMMA InitBootInv == ASSUME BoardRomClears, Init PROVE BootInv
<1>1. /\ setup \in Setups /\ host = "idle" /\ "pc" \in DOMAIN rom /\ "magic" \in DOMAIN hs
      /\ rom.pc = IF setup.by = "sim" THEN "reset" ELSE ResetTarget
  BY DEF Init, BootInit
<1>2. setup.by = "sim" => hs.magic = "zero"
  BY DEF Init, BootInit
<1>3. setup.by = "sim" \/ setup.by = "jtag"
  BY <1>1, BootAssumption
<1>4. CASE setup.by = "sim"
  BY <1>1, <1>2, <1>4 DEF BootInv, MagicIsArmed, HeldInReset, Took
<1>5. CASE setup.by = "jtag"
  BY <1>1, <1>5 DEF BootInv, MagicIsArmed, HeldInReset, Took, Looking, ResetTarget, BoardRomClears
<1> QED BY <1>3, <1>4, <1>5

\* The simulator's main.
LEMMA SimStep ==
  ASSUME BootInv, SimStart \/ SimLoad \/ SimBootrom \/ SimNoBootrom \/ SimTrace \/ SimReset
  PROVE  BootInv'
<1> USE DEF BootInv, MagicIsArmed, HeldInReset, Looking, Took, Quit
<1>1. CASE SimStart
  BY <1>1 DEF SimStart
<1>2. CASE SimLoad
  <2>1. /\ host = "load" /\ UNCHANGED <<setup, rom, armed>> /\ host' \in {"load", "left"}
        /\ \/ hs' = hs
           \/ hs' = [magic |-> "junk", entry |-> "junk", dtb |-> "junk"]
    <3> DEFINE f == Head(todo)
               fits == f.opens /\ f.at >= 0 /\ FitsAperture(f)
    <3>1. CASE fits
      BY <1>2, <3>1 DEF SimLoad
    <3>2. CASE ~fits
      BY <1>2, <3>2 DEF SimLoad
    <3> QED BY <3>1, <3>2
  <2>2. "magic" \in DOMAIN hs' /\ (hs'.magic = "deadbeef" => hs.magic = "deadbeef")
    <3>1. CASE hs' = hs
      BY <3>1
    <3>2. CASE hs' = [magic |-> "junk", entry |-> "junk", dtb |-> "junk"]
      BY <3>2, WordsHaveMagic
    <3> QED BY <2>1, <3>1, <3>2
  <2> QED BY <2>1, <2>2
<1>3. CASE SimBootrom
  <2>1. CASE request.bootrom.opens
    BY <1>3, <2>1, WordsHaveMagic DEF SimBootrom, Handshake
  <2>2. CASE ~request.bootrom.opens
    BY <1>3, <2>2 DEF SimBootrom
  <2> QED BY <2>1, <2>2
<1>4. CASE SimNoBootrom
  BY <1>4 DEF SimNoBootrom
<1>5. CASE SimTrace
  BY <1>5 DEF SimTrace
<1>6. CASE SimReset
  BY <1>6 DEF SimReset, ResetTarget
<1> QED BY <1>1, <1>2, <1>3, <1>4, <1>5, <1>6

\* jtag_load.tcl, and the reset between its sessions.
LEMMA JtagStep ==
  ASSUME BoardRomClears, BootInv,
         JtagStart \/ JtagClear \/ JtagBurst \/ JtagNextFile \/ JtagArm \/ BoardReset
  PROVE  BootInv'
<1> USE DEF BootInv, MagicIsArmed, HeldInReset, Looking, Took
<1>1. CASE JtagStart
  BY <1>1 DEF JtagStart
<1>2. CASE JtagClear
  BY <1>2 DEF JtagClear
<1>3. CASE JtagBurst
  BY <1>3 DEF JtagBurst
<1>4. CASE JtagNextFile
  BY <1>4 DEF JtagNextFile
<1>5. CASE JtagArm
  <2> DEFINE word == ArmOrder[sent']
  <2>1. /\ hs' = [hs EXCEPT ![word] = Handshake[word]]
        /\ armed' = (armed \/ word = "magic")
        /\ rom' = rom /\ setup' = setup
        /\ host' \in {"idle", "arm"} /\ host \in {"write", "arm"}
    BY <1>5 DEF JtagArm
  <2>2. "magic" \in DOMAIN hs' /\ (word # "magic" => hs'.magic = hs.magic)
    BY <2>1
  <2> QED BY <2>1, <2>2
<1>6. CASE BoardReset
  BY <1>6 DEF BoardReset, hostVars, ResetTarget, BoardRomClears
<1> QED BY <1>1, <1>2, <1>3, <1>4, <1>5, <1>6

\* The hart.
LEMMA HartStep == ASSUME BootInv, RomNext \/ OsScribbles PROVE BootInv'
<1> USE DEF BootInv, MagicIsArmed, HeldInReset, Looking, Took, hostVars
<1>1. CASE RomClears
  BY <1>1 DEF RomClears
<1>2. CASE RomPolls
  BY <1>2 DEF RomPolls
<1>3. CASE RomTakes
  BY <1>3 DEF RomTakes
<1>4. CASE RomLoads
  BY <1>4 DEF RomLoads
<1>5. CASE RomJumps
  BY <1>5 DEF RomJumps
<1>6. CASE OsScribbles
  BY <1>6 DEF OsScribbles
<1> QED BY <1>1, <1>2, <1>3, <1>4, <1>5, <1>6 DEF RomNext

LEMMA StepBootInv == ASSUME BoardRomClears, BootInv, [Next]_vars PROVE BootInv'
<1>1. CASE BootNext
  BY <1>1, SimStep, JtagStep, HartStep DEF BootNext, HostNext
<1>2. CASE UNCHANGED bootVars
  BY <1>2 DEF bootVars, BootInv, MagicIsArmed, HeldInReset
<1>3. CASE Return
  BY <1>3 DEF Return, Quit, BootInv, MagicIsArmed, HeldInReset
<1>4. CycleStep => UNCHANGED bootVars
  BY DEF CycleStep, Cycle
<1> QED BY <1>1, <1>2, <1>3, <1>4 DEF Next, Boot, vars

(* The hart takes only a magic word the host wrote since the last reset,   *)
(* whatever DDR held, for every set of files and any number of sessions    *)
(* and resets, provided the board's ROM clears the word first.             *)
THEOREM OnlyArmedBoots == ASSUME BoardRomClears PROVE Spec => []NoStaleBoot
<1>1. BootInv => NoStaleBoot
  BY DEF BootInv, MagicIsArmed, NoStaleBoot, Took
<1> QED BY <1>1, InitBootInv, StepBootInv, PTL DEF Spec

-----------------------------------------------------------------------------
(* The memory trace.                                                       *)

\* Only a simulation runs the clock loop, with the request it started with.
OnlySimRuns ==
  /\ request \in SimRequests \cup JtagRequests
  /\ host \in {"load", "loaded", "traced", "run"} => setup.by = "sim"
  /\ setup.by # "sim" =>
       ~pipe.valid /\ ~bus.valid /\ ~pending_rsp /\ mlines = {} /\ out.rsp = FALSE

CoreType == [st : {"idle", "ask", "wait"}, va : Addr \cup {0}, wen : BOOLEAN]

\* One access at a time: the core waits for what is in dm_pipe or on the bus,
\* and drives its address meanwhile.
OneAccess ==
  /\ core \in CoreType
  /\ pipe.valid => core.st = "wait" /\ core.va = pipe.va /\ ~bus.valid
  /\ bus.valid => core.st = "wait" /\ bus.at \in Nat /\ bus.at < g_cycles
  /\ g_cycles \in Nat /\ pending_rsp \in BOOLEAN

\* An access that crossed the tap inside both windows is the pending one, and
\* until the cycles' window closes nothing else is pending.
PendingIsOnBus ==
  /\ bus.valid /\ bus.at >= arg.tfrom /\ bus.at <= arg.tto /\ InPa(Xlate[bus.va]) =>
       pending_rsp /\ pending = [va |-> bus.va, pa |-> Xlate[bus.va], wen |-> bus.wen]
  /\ pending_rsp =>
       g_cycles > arg.tto \/ (bus.valid /\ bus.at >= arg.tfrom /\ InPa(Xlate[bus.va]))

TraceInv == OnlySimRuns /\ OneAccess /\ PendingIsOnBus /\ AnswersTraced

\* Staging and booting leave the request of a simulation alone.
LEMMA BootKeepsRequest ==
  ASSUME OnlySimRuns, BootNext
  PROVE  /\ setup' = setup
         /\ request' = request \/ (request' \in JtagRequests /\ setup.by # "sim")
         /\ host' \in {"load", "loaded", "traced", "run"} => setup.by = "sim"
<1> USE DEF OnlySimRuns, Quit, hostVars
<1>1. CASE SimStart \/ SimBootrom \/ SimNoBootrom \/ SimTrace \/ SimReset
  BY <1>1 DEF SimStart, SimBootrom, SimNoBootrom, SimTrace, SimReset
<1>2. CASE SimLoad
  BY <1>2 DEF SimLoad
<1>3. CASE JtagStart
  BY <1>3 DEF JtagStart
<1>4. CASE JtagClear \/ JtagBurst \/ JtagNextFile \/ BoardReset
  BY <1>4 DEF JtagClear, JtagBurst, JtagNextFile, BoardReset
<1>5. CASE JtagArm
  BY <1>5 DEF JtagArm
<1>6. CASE RomNext \/ OsScribbles
  BY <1>6 DEF RomNext, RomClears, RomPolls, RomTakes, RomLoads, RomJumps, OsScribbles
<1> QED BY <1>1, <1>2, <1>3, <1>4, <1>5, <1>6 DEF BootNext, HostNext

LEMMA InitTraceInv == Init => TraceInv
<1> SUFFICES ASSUME Init PROVE TraceInv
  OBVIOUS
<1>1. /\ core = NoAccess /\ pipe = EmptyPipe /\ bus = IdleBus
      /\ g_cycles \in Nat /\ pending_rsp = FALSE /\ mlines = {} /\ out.rsp = FALSE
  BY LinuxAssumption DEF Init, Quiet
<1>2. request \in SimRequests \cup JtagRequests /\ host = "idle"
  BY DEF Init, BootInit
<1>3. OnlySimRuns
  BY <1>1, <1>2 DEF OnlySimRuns, EmptyPipe, IdleBus
<1>4. OneAccess
  BY <1>1 DEF OneAccess, CoreType, NoAccess, EmptyPipe, IdleBus
<1>5. PendingIsOnBus /\ AnswersTraced
  BY <1>1 DEF PendingIsOnBus, AnswersTraced, IdleBus
<1> QED BY <1>3, <1>4, <1>5 DEF TraceInv

LEMMA BootTraceInv == ASSUME TraceInv, Boot PROVE TraceInv'
<1>1. UNCHANGED loopVars
  BY DEF Boot
<1>2. /\ setup' = setup
      /\ request' = request \/ (request' \in JtagRequests /\ setup.by # "sim")
      /\ host' \in {"load", "loaded", "traced", "run"} => setup.by = "sim"
  BY BootKeepsRequest DEF TraceInv, Boot
<1>3. OnlySimRuns' /\ OneAccess'
  BY <1>1, <1>2 DEF TraceInv, OnlySimRuns, OneAccess, loopVars, soc
<1>4. CASE request' = request
  BY <1>1, <1>3, <1>4 DEF TraceInv, PendingIsOnBus, AnswersTraced, arg, InPa, loopVars, soc
<1>5. CASE setup.by # "sim"
  BY <1>1, <1>3, <1>5 DEF TraceInv, OnlySimRuns, PendingIsOnBus, AnswersTraced, loopVars, soc
<1> QED BY <1>2, <1>4, <1>5

LEMMA CoreTypeKept ==
  ASSUME core \in CoreType, NEW fire \in BOOLEAN, NEW rsp \in BOOLEAN, NEW fault \in BOOLEAN,
         SocEdge(fire, rsp, fault)
  PROVE  core' \in CoreType
<1> USE DEF CoreType
<1>1. CASE core.st = "ask"
  BY <1>1 DEF SocEdge
<1>2. CASE core.st = "wait"
  <2>1. core' = IF rsp \/ fault THEN NoAccess ELSE core
    BY <1>2 DEF SocEdge
  <2> QED BY <2>1 DEF NoAccess
<1>3. CASE core.st = "idle"
  <2>1. \/ core' = core
        \/ \E va \in Addr, wen \in BOOLEAN : core' = [st |-> "ask", va |-> va, wen |-> wen]
    BY <1>3 DEF SocEdge
  <2> QED BY <2>1
<1> QED BY <1>1, <1>2, <1>3

\* An iteration of the loop.
LEMMA CycleTraceInv ==
  ASSUME Core = "pipeline", TraceInv,
         NEW fire \in BOOLEAN, NEW rsp \in BOOLEAN, NEW fault \in BOOLEAN, NEW finish \in BOOLEAN,
         NEW exit \in ExitCodes \cup {-1}, NEW mode \in Modes,
         Cycle(fire, rsp, fault, exit, finish, mode)
  PROVE  TraceInv'
<1> DEFINE issue == [va |-> tap_dm_req_va, pa |-> Xlate[pipe.va], wen |-> pipe.wen]
           printed == fire /\ InWindow /\ InPa(issue.pa)
           p == IF printed THEN issue ELSE pending
           waiting == pending_rsp \/ printed
           answered == InWindow /\ rsp /\ waiting /\ InPa(p.pa)
<1>1. /\ fire => pipe.valid /\ ~bus.valid
      /\ fault => pipe.valid /\ ~bus.valid /\ ~fire
      /\ rsp => bus.valid
      /\ SocEdge(fire, rsp, fault)
      /\ g_cycles' = g_cycles + 1
      /\ out' = [rsp |-> rsp, acc |-> bus, exit |-> exit, finish |-> finish]
      /\ host = "run"
      /\ setup' = setup /\ request' = request /\ host' = host
  BY DEF Cycle, bootVars
<1>2. /\ mlines' = (IF printed THEN {[kind |-> "i", va |-> issue.va, pa |-> issue.pa,
                                      wen |-> issue.wen]} ELSE {})
                    \cup (IF answered THEN {[kind |-> "r", va |-> p.va, pa |-> p.pa,
                                             wen |-> p.wen]} ELSE {})
      /\ pending' = p
      /\ pending_rsp' = IF answered THEN FALSE ELSE waiting
  BY DEF Cycle, MemTrace, AfterAnswer
<1>3. /\ arg.tfrom \in Nat /\ arg.tto \in Nat
      /\ arg' = arg
  BY <1>1, LinuxAssumption DEF TraceInv, OnlySimRuns, arg
<1>4. OnlySimRuns'
  BY <1>1 DEF TraceInv, OnlySimRuns
<1>5. bus' = IF fire THEN [valid |-> TRUE, va |-> pipe.va, wen |-> pipe.wen, at |-> g_cycles]
             ELSE IF rsp THEN IdleBus ELSE bus
  BY <1>1 DEF SocEdge
<1>6. OneAccess'
  <2>1. core' \in CoreType
    BY <1>1, CoreTypeKept DEF TraceInv, OneAccess
  <2>2. g_cycles' \in Nat /\ g_cycles < g_cycles' /\ pending_rsp' \in BOOLEAN
    <3>1. g_cycles \in Nat /\ pending_rsp \in BOOLEAN
      BY DEF TraceInv, OneAccess
    <3>2. waiting \in BOOLEAN
      BY <3>1
    <3>3. pending_rsp' = FALSE \/ pending_rsp' = waiting
      BY <1>2
    <3>4. g_cycles' = g_cycles + 1
      BY <1>1
    <3> HIDE DEF waiting
    <3>5. pending_rsp' \in BOOLEAN
      BY <3>2, <3>3, Zenon
    <3>6. g_cycles' \in Nat /\ g_cycles < g_cycles'
      BY <3>1, <3>4
    <3> QED BY <3>5, <3>6
  <2>3. CASE core.st = "ask"
    BY <1>1, <1>5, <2>1, <2>2, <2>3 DEF TraceInv, OneAccess, CoreType, SocEdge
  <2>4. CASE core.st = "idle"
    BY <1>1, <1>5, <2>1, <2>2, <2>4 DEF TraceInv, OneAccess, CoreType, SocEdge
  <2>5. CASE core.st = "wait"
    <3>1. /\ pipe' = IF fire \/ fault THEN EmptyPipe ELSE pipe
          /\ core' = IF rsp \/ fault THEN NoAccess ELSE core
      BY <1>1, <2>5 DEF SocEdge
    <3>2. CASE fire
      BY <1>1, <1>5, <2>1, <2>2, <2>5, <3>1, <3>2 DEF TraceInv, OneAccess, EmptyPipe
    <3>3. CASE fault \/ rsp
      BY <1>1, <1>5, <2>1, <2>2, <2>5, <3>1, <3>3 DEF TraceInv, OneAccess, EmptyPipe, IdleBus
    <3>4. CASE ~fire /\ ~fault /\ ~rsp
      BY <1>1, <1>5, <2>1, <2>2, <2>5, <3>1, <3>4 DEF TraceInv, OneAccess
    <3> QED BY <3>2, <3>3, <3>4
  <2>6. core.st \in {"idle", "ask", "wait"}
    BY DEF TraceInv, OneAccess, CoreType
  <2> QED BY <2>3, <2>4, <2>5, <2>6
<1>7. fire => issue.va = pipe.va
  BY <1>1 DEF TraceInv, OneAccess, tap_dm_req_va
\* An answer ends the pending access exactly when the access is due in the trace.
<1> DEFINE due == rsp /\ bus.at >= arg.tfrom /\ g_cycles <= arg.tto /\ InPa(Xlate[bus.va])
<1>8. rsp => ~printed /\ p = pending /\ (waiting <=> pending_rsp)
  BY <1>1
<1>9. due => answered /\ p = [va |-> bus.va, pa |-> Xlate[bus.va], wen |-> bus.wen]
  <2> SUFFICES ASSUME due PROVE answered /\ p = [va |-> bus.va, pa |-> Xlate[bus.va], wen |-> bus.wen]
    OBVIOUS
  <2>1. bus.valid /\ bus.at \in Nat /\ bus.at < g_cycles /\ g_cycles \in Nat
    BY <1>1 DEF TraceInv, OneAccess
  <2>2. bus.at <= arg.tto /\ InWindow
    BY <2>1, <1>3 DEF InWindow
  <2>3. pending_rsp /\ pending = [va |-> bus.va, pa |-> Xlate[bus.va], wen |-> bus.wen]
    BY <2>1, <2>2 DEF TraceInv, PendingIsOnBus
  <2> QED BY <1>8, <2>2, <2>3
<1>10. rsp /\ pending_rsp /\ g_cycles <= arg.tto => due
  BY <1>3 DEF TraceInv, PendingIsOnBus, OneAccess
<1>11. answered => due
  BY <1>8, <1>10 DEF InWindow
<1>12. AnswersTraced'
  <2>1. { l \in mlines' : l.kind = "r" } =
          IF answered THEN {[kind |-> "r", va |-> p.va, pa |-> p.pa, wen |-> p.wen]} ELSE {}
    <3> HIDE DEF answered, printed, p, issue
    <3> QED BY <1>2
  <2>2. g_cycles' - 1 = g_cycles
    BY <1>1 DEF TraceInv, OneAccess
  <2>3. out'.rsp = rsp /\ out'.acc = bus
    BY <1>1
  <2> QED BY <1>3, <1>9, <1>11, <2>1, <2>2, <2>3 DEF AnswersTraced, InPa
<1>13. PendingIsOnBus'
  <2>0. /\ g_cycles \in Nat
        /\ \A pa : InPa(pa)' <=> InPa(pa)
    BY <1>3 DEF InPa, TraceInv, OneAccess
  <2>1. CASE fire
    <3>1. ~rsp /\ ~answered /\ ~bus.valid
      BY <1>1, <2>1
    <3>2. /\ bus'.valid /\ bus'.va = pipe.va /\ bus'.wen = pipe.wen /\ bus'.at = g_cycles
      BY <1>5, <2>1
    <3>3. pending_rsp' <=> pending_rsp \/ printed
      BY <1>2, <3>1
    <3>4. printed <=> g_cycles >= arg.tfrom /\ g_cycles <= arg.tto /\ InPa(Xlate[pipe.va])
      BY <2>1 DEF InWindow
    <3>5. printed => pending' = [va |-> pipe.va, pa |-> Xlate[pipe.va], wen |-> pipe.wen]
      BY <1>2, <1>7, <2>1
    <3>6. pending_rsp => g_cycles' > arg.tto
      BY <1>1, <1>3, <2>0, <3>1 DEF TraceInv, PendingIsOnBus
    <3> HIDE DEF printed
    <3> QED BY <1>3, <2>0, <3>2, <3>3, <3>4, <3>5, <3>6 DEF PendingIsOnBus
  <2>2. CASE rsp
    BY <1>1, <1>2, <1>3, <1>5, <1>8, <1>9, <1>10, <2>2
       DEF PendingIsOnBus, TraceInv, OneAccess, IdleBus, InPa
  <2>3. CASE ~fire /\ ~rsp
    <3>1. bus' = bus /\ pending' = pending /\ (pending_rsp' <=> pending_rsp)
      BY <1>2, <1>5, <2>3
    <3> QED BY <1>1, <1>3, <2>0, <3>1 DEF PendingIsOnBus, TraceInv
  <2> QED BY <2>1, <2>2, <2>3
<1> QED BY <1>4, <1>6, <1>12, <1>13 DEF TraceInv

LEMMA StepTraceInv == ASSUME Core = "pipeline", TraceInv, [Next]_vars PROVE TraceInv'
<1>1. CASE Boot
  BY <1>1, BootTraceInv
<1>2. CASE CycleStep
  BY <1>2, CycleTraceInv DEF CycleStep
<1>3. CASE Return
  BY <1>3 DEF Return, Quit, soc, TraceInv, OnlySimRuns, OneAccess, PendingIsOnBus,
              AnswersTraced, arg, InPa
<1>4. CASE UNCHANGED vars
  BY <1>4 DEF vars, bootVars, loopVars, soc, TraceInv, OnlySimRuns, OneAccess, PendingIsOnBus,
              AnswersTraced, arg, InPa
<1> QED BY <1>1, <1>2, <1>3, <1>4 DEF Next

(* With the pipelined core each access the windows hold is traced as       *)
(* answered once, under its own addresses and kind, and nothing else is,   *)
(* for every window, translation, latency and order of faults and answers. *)
THEOREM AnswersAreTraced == ASSUME Core = "pipeline" PROVE Spec => []AnswersTraced
<1>1. TraceInv => AnswersTraced
  BY DEF TraceInv
<1> QED BY <1>1, InitTraceInv, StepTraceInv, PTL DEF Spec
-----------------------------------------------------------------------------
(* Staging.                                                                *)

FileType == [size : Nat, at : Int, opens : BOOLEAN, given : BOOLEAN]
ImageType == [img : {"fw", "kernel", "dtb", "initrd", "raw"}, at : Int, size : Nat, opens : BOOLEAN]

LEMMA NamedTypes ==
  ASSUME NEW img \in {"fw", "kernel", "dtb", "initrd", "raw"}, NEW f \in FileType, NEW at \in Int
  PROVE  Named(img, f, at) \in Seq(ImageType)
<1> DEFINE x == [img |-> img, at |-> at, size |-> f.size, opens |-> f.opens]
<1>1. x \in ImageType
  BY DEF FileType, ImageType
<1> HIDE DEF x
<1>2. <<x>> \in Seq(ImageType) /\ <<>> \in Seq(ImageType)
  BY <1>1
<1> QED BY <1>2 DEF Named, x

LEMMA RequestTypes ==
  ASSUME NEW r \in SimRequests \cup JtagRequests
  PROVE  /\ r.fw \in FileType /\ r.kernel \in FileType /\ r.dtb \in FileType
         /\ r.initrd \in FileType /\ r.raw \in FileType
         /\ FwAt \in Int /\ KernelAt \in Int /\ DtbAt \in Int /\ InitrdAt \in Int
  BY BootAssumption DEF FileType, FwAt

LEMMA ImagesTypes ==
  ASSUME NEW r \in SimRequests \cup JtagRequests
  PROVE  Images(r) \in Seq(ImageType) /\ JtagImages(r) \in Seq(ImageType)
<1> DEFINE a == Named("fw", r.fw, FwAt)
           b == Named("kernel", r.kernel, KernelAt)
           c == Named("dtb", r.dtb, DtbAt)
           d == Named("initrd", r.initrd, InitrdAt)
           e == Named("raw", r.raw, r.raw.at)
<1>1. /\ a \in Seq(ImageType) /\ b \in Seq(ImageType) /\ c \in Seq(ImageType)
      /\ d \in Seq(ImageType) /\ e \in Seq(ImageType)
  <2>1. r.raw.at \in Int
    BY RequestTypes DEF FileType
  <2> QED BY <2>1, RequestTypes, NamedTypes
<1> HIDE DEF a, b, c, d, e
<1>2. a \o b \o c \o d \in Seq(ImageType) /\ a \o b \o c \o <<>> \in Seq(ImageType)
  <2>1. (a \o b) \o c \in Seq(ImageType) /\ <<>> \in Seq(ImageType)
    BY <1>1
  <2> QED BY <1>1, <2>1
<1>3. Images(r) = IF r.raw.given THEN e ELSE a \o b \o c \o d
  BY DEF Images, a, b, c, d, e
<1>4. JtagImages(r) = a \o b \o c \o (IF r.initrd.opens THEN d ELSE <<>>)
  BY DEF JtagImages, a, b, c, d
<1> QED BY <1>1, <1>2, <1>3, <1>4

LEMMA QueueTypes ==
  ASSUME NEW q \in Seq(ImageType), q # <<>>
  PROVE  /\ Head(q) \in ImageType /\ Tail(q) \in Seq(ImageType)
         /\ Len(q) \in Nat /\ Len(q) # 0 /\ Len(Tail(q)) = Len(q) - 1 /\ Head(q) = q[1]
         /\ \A i \in 1 .. Len(q) - 1 : Tail(q)[i] = q[i + 1]
  BY HeadTailProperties, EmptySeq, LenProperties
-----------------------------------------------------------------------------
(* The types of LinuxBoot.                                                 *)

HandshakeType == [magic : {"zero", "deadbeef", "junk"}, entry : {"zero", "fw", "junk"},
                  dtb : {"zero", "dtb", "junk"}]
RomType == [pc : {"reset", "lost", "clear magic", "clear entry", "clear dtb", "poll", "take",
                  "load entry", "load dtb", "jump", "running"},
            a2 : {"zero", "fw", "junk"}, a1 : {"zero", "dtb", "junk"}]

HostTypes ==
  /\ setup \in Setups /\ setup.by \in {"sim", "jtag"}
  /\ request \in IF setup.by = "sim" THEN SimRequests ELSE JtagRequests
  /\ host \in {"idle", "load", "loaded", "traced", "run", "left", "clear", "write", "arm"}
  /\ host \in {"load", "loaded", "traced", "run", "left"} => setup.by = "sim"
  /\ host \in {"clear", "write", "arm"} => setup.by = "jtag"
  /\ host = "arm" => sent \in {1, 2}
  /\ todo \in Seq(ImageType) /\ sent \in Nat /\ session \in 0 .. MaxSessions

MemTypes ==
  /\ DOMAIN ddr = 0 .. DdrUnits - 1
  /\ hs \in HandshakeType /\ rom \in RomType
  /\ armed \in BOOLEAN /\ early \in BOOLEAN /\ resets \in 0 .. MaxResets

BootTypes == HostTypes /\ MemTypes

LEMMA Bounds == MaxSessions \in Nat /\ MaxResets \in Nat /\ DdrUnits \in Nat /\ HsAt \in 0 .. DdrUnits - 1
  BY BootAssumption

LEMMA BootTypesAreOK == BootTypes => BootTypeOK
  BY DEF BootTypes, HostTypes, MemTypes, BootTypeOK, HandshakeType, RomType

LEMMA InitBootTypes == Init => BootTypes
<1> SUFFICES ASSUME Init PROVE BootTypes
  OBVIOUS
<1>1. <<>> \in Seq(ImageType)
  OBVIOUS
<1>2. setup \in Setups /\ setup.by \in {"sim", "jtag"}
  BY BootAssumption DEF Init, BootInit
<1>3. HostTypes
  BY <1>1, <1>2, BootAssumption DEF Init, BootInit, HostTypes
<1>4. hs \in HandshakeType
  BY DEF Init, BootInit, HandshakeType
<1>5. rom \in RomType
  BY DEF Init, BootInit, RomType, ResetTarget
<1>6. DOMAIN ddr = 0 .. DdrUnits - 1 /\ armed \in BOOLEAN /\ early \in BOOLEAN /\ resets \in 0 .. MaxResets
  <2>1. armed = FALSE /\ early = FALSE /\ resets = 0 /\ ddr = [u \in 0 .. DdrUnits - 1 |-> Bare("fill")]
    BY DEF Init, BootInit
  <2>2. armed \in BOOLEAN /\ early \in BOOLEAN
    BY <2>1, Zenon
  <2> QED BY <2>1, <2>2, Bounds
<1>7. MemTypes
  BY <1>4, <1>5, <1>6 DEF MemTypes
<1> QED BY <1>3, <1>7 DEF BootTypes

LEMMA HostTypesKept == ASSUME BootTypes, HostNext PROVE HostTypes'
<1> USE DEF BootTypes, HostTypes, Quit
<1>1. CASE SimStart
  <2>1. request \in SimRequests /\ setup.by = "sim"
    BY <1>1 DEF SimStart
  <2>2. todo' \in Seq(ImageType)
    BY <1>1, <2>1, ImagesTypes DEF SimStart
  <2>3. session' \in 0 .. MaxSessions
    BY <1>1, BootAssumption DEF SimStart
  <2> QED BY <1>1, <2>1, <2>2, <2>3 DEF SimStart
<1>2. CASE SimLoad
  <2>1. Tail(todo) \in Seq(ImageType)
    BY <1>2, QueueTypes DEF SimLoad
  <2> QED BY <1>2, <2>1 DEF SimLoad
<1>3. CASE SimBootrom
  BY <1>3 DEF SimBootrom
<1>4. CASE SimNoBootrom
  BY <1>4 DEF SimNoBootrom
<1>5. CASE SimTrace
  BY <1>5 DEF SimTrace
<1>6. CASE SimReset
  BY <1>6 DEF SimReset
<1>7. CASE JtagStart
  <2>1. session' \in 0 .. MaxSessions /\ setup' = setup /\ sent' = 0 /\ setup.by = "jtag"
    <3>1. setup' = setup /\ sent' = 0 /\ setup.by = "jtag" /\ session' = session + 1 /\ session < MaxSessions
      BY <1>7 DEF JtagStart
    <3> QED BY <3>1, Bounds
  <2>2. PICK r \in JtagRequests :
          IF r.fw.opens /\ r.kernel.opens /\ r.dtb.opens
          THEN /\ request' = r /\ host' = "clear" /\ todo' = JtagImages(r)
          ELSE UNCHANGED <<setup, request, host, todo>>
    BY <1>7 DEF JtagStart
  <2>3. CASE r.fw.opens /\ r.kernel.opens /\ r.dtb.opens
    BY <2>1, <2>2, <2>3, ImagesTypes
  <2>4. CASE ~(r.fw.opens /\ r.kernel.opens /\ r.dtb.opens)
    BY <1>7, <2>1, <2>2, <2>4 DEF JtagStart
  <2> QED BY <2>3, <2>4
<1>8. CASE JtagClear
  BY <1>8 DEF JtagClear
<1>9. CASE JtagBurst
  BY <1>9 DEF JtagBurst
<1>10. CASE JtagNextFile
  <2>1. Tail(todo) \in Seq(ImageType)
    BY <1>10, QueueTypes DEF JtagNextFile
  <2> QED BY <1>10, <2>1 DEF JtagNextFile
<1>11. CASE JtagArm
  <2>1. sent' \in {1, 2, 3} /\ host' \in {"idle", "arm"} /\ (host' = "arm" => sent' # 3)
    BY <1>11 DEF JtagArm
  <2> QED BY <1>11, <2>1 DEF JtagArm
<1> QED BY <1>1, <1>2, <1>3, <1>4, <1>5, <1>6, <1>7, <1>8, <1>9, <1>10, <1>11 DEF HostNext

LEMMA ArmWords ==
  ASSUME HostTypes, hs \in HandshakeType, JtagArm
  PROVE  /\ sent' \in {1, 2, 3} /\ hs' \in HandshakeType
         /\ sent' = 1 => hs'.entry = "fw" /\ hs'.magic = hs.magic /\ (armed' <=> armed)
         /\ sent' = 2 => hs'.entry = hs.entry /\ hs'.dtb = "dtb" /\ hs'.magic = hs.magic /\ (armed' <=> armed)
         /\ sent' = 3 => hs'.entry = hs.entry /\ hs'.dtb = hs.dtb /\ armed'
<1>1. sent' \in {1, 2, 3}
  BY DEF HostTypes, JtagArm
<1>2. /\ hs' = [hs EXCEPT ![ArmOrder[sent']] = Handshake[ArmOrder[sent']]]
      /\ armed' = (armed \/ ArmOrder[sent'] = "magic")
  BY DEF JtagArm
<1>3. CASE sent' = 1
  <2>1. ArmOrder[sent'] = "entry" /\ Handshake["entry"] = "fw"
    BY <1>3 DEF ArmOrder, Handshake
  <2>2. hs' = [hs EXCEPT !["entry"] = "fw"] /\ armed' = (armed \/ "entry" = "magic")
    BY <1>2, <2>1
  <2>3. armed' <=> armed
    BY <2>2, "entry" # "magic", Zenon
  <2>4. /\ hs' \in HandshakeType /\ hs'.entry = "fw"
        /\ \A w \in {"magic", "entry", "dtb"} \ {"entry"} : hs'[w] = hs[w]
    BY <2>2 DEF HandshakeType
  <2> QED BY <1>3, <2>3, <2>4
<1>4. CASE sent' = 2
  <2>1. ArmOrder[sent'] = "dtb" /\ Handshake["dtb"] = "dtb"
    BY <1>4 DEF ArmOrder, Handshake
  <2>2. hs' = [hs EXCEPT !["dtb"] = "dtb"] /\ armed' = (armed \/ "dtb" = "magic")
    BY <1>2, <2>1
  <2>3. armed' <=> armed
    BY <2>2, "dtb" # "magic", Zenon
  <2>4. /\ hs' \in HandshakeType /\ hs'.dtb = "dtb"
        /\ \A w \in {"magic", "entry", "dtb"} \ {"dtb"} : hs'[w] = hs[w]
    BY <2>2 DEF HandshakeType
  <2> QED BY <1>4, <2>3, <2>4
<1>5. CASE sent' = 3
  <2>1. ArmOrder[sent'] = "magic" /\ Handshake["magic"] = "deadbeef"
    BY <1>5 DEF ArmOrder, Handshake
  <2>2. hs' = [hs EXCEPT !["magic"] = "deadbeef"] /\ armed' = (armed \/ "magic" = "magic")
    BY <1>2, <2>1
  <2>3. armed'
    BY <2>2, Zenon
  <2>4. /\ hs' \in HandshakeType /\ hs'.magic = "deadbeef"
        /\ \A w \in {"magic", "entry", "dtb"} \ {"magic"} : hs'[w] = hs[w]
    BY <2>2 DEF HandshakeType
  <2> QED BY <1>5, <2>3, <2>4
<1> QED BY <1>1, <1>3, <1>4, <1>5

LEMMA MemTypesKept == ASSUME BootTypes, BootNext PROVE MemTypes'
<1> USE DEF MemTypes
<1>1. /\ setup \in Setups /\ DdrUnits \in Nat /\ HsAt \in 0 .. DdrUnits - 1
      /\ MemTypes /\ HostTypes /\ Handshake \in HandshakeType
      /\ [magic |-> "junk", entry |-> "junk", dtb |-> "junk"] \in HandshakeType
      /\ ResetTarget \in {"clear magic", "poll"}
  BY BootAssumption DEF BootTypes, HostTypes, Handshake, HandshakeType, ResetTarget
<1>2. CASE SimStart
  BY <1>1, <1>2 DEF SimStart
<1>3. CASE SimLoad
  <2>1. hs' \in HandshakeType /\ UNCHANGED <<rom, armed, early, resets>>
    BY <1>1, <1>3 DEF SimLoad
  <2>2. DOMAIN ddr' = 0 .. DdrUnits - 1
    BY <1>1, <1>3 DEF SimLoad, Over
  <2> QED BY <1>1, <2>1, <2>2
<1>4. CASE SimBootrom
  <2>1. early' \in BOOLEAN
    BY <1>1, <1>4, BootAssumption DEF SimBootrom
  <2> QED BY <1>1, <1>4, <2>1 DEF SimBootrom
<1>5. CASE SimNoBootrom \/ SimTrace
  BY <1>1, <1>5 DEF SimNoBootrom, SimTrace
<1>6. CASE SimReset
  <2>1. rom' \in RomType
    BY <1>1, <1>6 DEF SimReset, RomType
  <2> QED BY <1>1, <1>6, <2>1 DEF SimReset
<1>7. CASE JtagStart \/ JtagNextFile
  <2>1. early' \in BOOLEAN
    BY <1>1, <1>7 DEF JtagStart, JtagNextFile
  <2> QED BY <1>1, <1>7, <2>1 DEF JtagStart, JtagNextFile
<1>8. CASE JtagClear
  <2>1. hs' \in HandshakeType
    BY <1>1, <1>8 DEF JtagClear, HandshakeType
  <2> QED BY <1>1, <1>8, <2>1 DEF JtagClear
<1>9. CASE JtagBurst
  BY <1>1, <1>9 DEF JtagBurst
<1>10. CASE JtagArm
  <2>1. hs' \in HandshakeType /\ armed' \in BOOLEAN /\ early' \in BOOLEAN
    <3>1. hs' \in HandshakeType
      BY <1>1, <1>10, ArmWords
    <3>2. (armed \/ ArmOrder[sent'] = "magic") \in BOOLEAN /\ (early \/ rom.pc \in Clearing) \in BOOLEAN
      BY Zenon
    <3> QED BY <1>10, <3>1, <3>2, Zenon DEF JtagArm
  <2> QED BY <1>1, <1>10, <2>1 DEF JtagArm
<1>11. CASE RomClears
  <2>1. rom' \in RomType
    BY <1>1, <1>11 DEF RomClears, RomType
  <2>2. hs' \in HandshakeType
    BY <1>1, <1>11 DEF RomClears, HandshakeType
  <2>3. armed' \in BOOLEAN
    <3>1. (armed /\ rom.pc # "clear magic") \in BOOLEAN
      BY Zenon
    <3> QED BY <1>11, <3>1, Zenon DEF RomClears
  <2> QED BY <1>1, <1>11, <2>1, <2>2, <2>3 DEF RomClears
<1>12. CASE RomPolls \/ RomTakes
  <2>1. rom' \in RomType /\ hs' \in HandshakeType
    BY <1>1, <1>12 DEF RomPolls, RomTakes, RomType, HandshakeType
  <2> QED BY <1>1, <1>12, <2>1 DEF RomPolls, RomTakes
<1>13. CASE RomLoads \/ RomJumps
  <2>1. rom' \in RomType
    BY <1>1, <1>13 DEF RomLoads, RomJumps, RomType, HandshakeType
  <2> QED BY <1>1, <1>13, <2>1 DEF RomLoads, RomJumps
<1>14. CASE OsScribbles
  <2>1. hs' \in HandshakeType
    BY <1>14 DEF OsScribbles, HandshakeType
  <2> QED BY <1>1, <1>14, <2>1 DEF OsScribbles
<1>15. CASE BoardReset
  <2>1. rom' \in RomType
    BY <1>1, <1>15 DEF BoardReset, RomType
  <2>2. resets' \in 0 .. MaxResets
    <3>1. resets' = resets + 1 /\ resets < MaxResets /\ resets \in 0 .. MaxResets
      BY <1>1, <1>15 DEF BoardReset
    <3> QED BY <3>1, Bounds
  <2> QED BY <1>1, <1>15, <2>1, <2>2 DEF BoardReset
<1> QED BY <1>2, <1>3, <1>4, <1>5, <1>6, <1>7, <1>8, <1>9, <1>10, <1>11, <1>12, <1>13, <1>14, <1>15
       DEF BootNext, HostNext, RomNext

LEMMA BootTypesKept == ASSUME BootTypes, [Next]_vars PROVE BootTypes'
<1>1. CASE BootNext
  <2>1. MemTypes'
    BY <1>1, MemTypesKept
  <2>2. HostTypes'
    <3>1. CASE HostNext
      BY <3>1, HostTypesKept
    <3>2. CASE RomNext \/ OsScribbles \/ BoardReset
      BY <3>2 DEF BootTypes, HostTypes, RomNext, RomClears, RomPolls, RomTakes, RomLoads, RomJumps,
                  OsScribbles, BoardReset, hostVars
    <3> QED BY <1>1, <3>1, <3>2 DEF BootNext
  <2> QED BY <2>1, <2>2 DEF BootTypes
<1>2. CASE UNCHANGED bootVars
  BY <1>2 DEF bootVars, BootTypes, HostTypes, MemTypes
<1>3. CASE Return
  BY <1>3 DEF Return, Quit, BootTypes, HostTypes, MemTypes
<1>4. CycleStep => UNCHANGED bootVars
  BY DEF CycleStep, Cycle
<1> QED BY <1>1, <1>2, <1>3, <1>4 DEF Next, Boot, vars
-----------------------------------------------------------------------------
(* What has been staged, and what it is armed with.                        *)

Units == 0 .. DdrUnits - 1

\* How many of the images are written, and what of each of them is.
Done == Len(Loads) - Len(todo)
Put(i) == IF i <= Done THEN Span(Loads[i])
          ELSE IF i = Done + 1 THEN Loads[i].at .. Loads[i].at + sent - 1 ELSE {}
PutLater(i, u) == \E j \in DOMAIN Loads : j > i /\ u \in Put(j)

Queue == /\ Len(todo) <= Len(Loads)
         /\ \A n \in 1 .. Len(todo) : todo[n] = Loads[Done + n]

\* Of the images that are written so far, the last one to cover a unit is there.
InOrder == \A i \in DOMAIN Loads : \A u \in Put(i) \cap Units :
             PutLater(i, u) \/ ddr[u] = Part(Loads[i].img, u - Loads[i].at)

Fit == setup.by = "sim" =>
         \A i \in DOMAIN Loads : i <= Done => Loads[i].at >= 0 /\ FitsAperture(Loads[i])

Staging == host \in {"load", "clear", "write"} =>
  /\ Queue /\ InOrder /\ Fit
  /\ host = "clear" => sent = 0
  /\ host = "write" /\ todo # <<>> => sent <= Head(todo).size

\* The images, without the handshake words.
Sound ==
  /\ \A i \in DOMAIN Loads : \A u \in Span(Loads[i]) \cap Units :
       StagedLater(i, u) \/ (u = HsAt /\ HandshakeDue) \/ ddr[u] = Part(Loads[i].img, u - Loads[i].at)
  /\ setup.by = "sim" => \A i \in DOMAIN Loads : Loads[i].at >= 0 /\ FitsAperture(Loads[i])

Complete == Sound /\ (HandshakeDue => ddr[HsAt] = Bare("handshake"))

Arming == host = "arm" =>
  Complete /\ (~early => hs.entry = "fw" /\ (sent = 2 => hs.dtb = "dtb") /\ rom.pc \notin Clearing)

NotYet ==
  /\ host \in {"load", "clear", "write", "arm"} => ~armed /\ rom.pc # "running"
  /\ host = "idle" /\ setup.by = "sim" => ~armed
  /\ setup.by = "sim" => sent = 0
  /\ setup.by = "sim" /\ setup.clears /\ armed => early

Simulating == host \in {"loaded", "traced", "run"} /\ rom.pc # "running" => Complete

Armed == armed =>
  /\ Complete /\ rom.pc # "running"
  /\ ~early => hs.entry = "fw" /\ hs.dtb = "dtb" /\ rom.pc \notin Clearing

Loaded == ~early => /\ rom.pc \in {"load dtb", "jump"} => rom.a2 = "fw"
                    /\ rom.pc = "jump" => rom.a1 = "dtb"

StagedInv == Staging /\ Arming /\ NotYet /\ Simulating /\ Armed /\ Loaded

LEMMA LoadsTypes ==
  ASSUME HostTypes
  PROVE  /\ Loads \in Seq(ImageType) /\ Len(Loads) \in Nat /\ DOMAIN Loads = 1 .. Len(Loads)
         /\ \A i \in DOMAIN Loads : i \in Int /\ Loads[i].at \in Int /\ Loads[i].size \in Nat
<1>1. Loads \in Seq(ImageType)
  BY ImagesTypes DEF HostTypes, Loads
<1>2. \A i \in 1 .. Len(Loads) : Loads[i] \in ImageType
  BY <1>1, ElementOfSeq
<1> QED BY <1>1, <1>2, LenProperties DEF ImageType

LEMMA InitStaged == Init => StagedInv
<1> SUFFICES ASSUME Init PROVE StagedInv
  OBVIOUS
<1>1. host = "idle" /\ armed = FALSE /\ sent = 0 /\ rom.pc \in {"reset", "clear magic", "poll"}
  BY DEF Init, BootInit, ResetTarget
<1> QED BY <1>1 DEF StagedInv, Staging, Arming, NotYet, Simulating, Armed, Loaded

LEMMA CompleteIsStaged == ASSUME Complete PROVE Staged
<1>1. \A f : \A u \in Span(f) : Parts(f)[u] = Part(f.img, u - f.at)
  BY DEF Parts
<1> QED BY <1>1 DEF Complete, Sound, Staged, Units

(* The images stay while DDR changes only under the handshake words.       *)
LEMMA SoundKept ==
  ASSUME Sound, UNCHANGED <<setup, request, session>>,
         \A u \in Units : ddr'[u] = ddr[u] \/ (u = HsAt /\ HandshakeDue)
  PROVE  Sound'
<1>1. Loads' = Loads /\ (HandshakeDue' <=> HandshakeDue) /\ Units' = Units
  BY DEF Loads, HandshakeDue, Units
<1>2. \A i, u : StagedLater(i, u)' <=> StagedLater(i, u)
  BY <1>1 DEF StagedLater
<1>3. \A img, k : Part(img, k)' = Part(img, k)
  BY DEF Part
<1> QED BY <1>1, <1>2, <1>3 DEF Sound, FitsAperture

LEMMA CompleteKept ==
  ASSUME Complete, UNCHANGED <<setup, request, session, ddr>>
  PROVE  Complete'
  BY SoundKept DEF Complete, HandshakeDue

LEMMA SoundOverHandshake ==
  ASSUME MemTypes, Sound, HandshakeDue, UNCHANGED <<setup, request, session>>,
         ddr' = [ddr EXCEPT ![HsAt] = Bare("handshake")]
  PROVE  Complete'
<1>1. HsAt \in Units /\ DOMAIN ddr = Units
  BY Bounds DEF MemTypes, Units
<1>2. Sound'
  BY <1>1, SoundKept
<1> QED BY <1>1, <1>2 DEF Complete

(* What one step writes of the image at the head of the queue.             *)
LEMMA WrittenInOrder ==
  ASSUME HostTypes, InOrder, Queue, todo # <<>>, UNCHANGED <<setup, request, session>>,
         NEW W,
         \A u \in Units : ddr'[u] = IF u \in W THEN Part(Head(todo).img, u - Head(todo).at) ELSE ddr[u],
         \A i \in DOMAIN Loads : Put(i)' = IF i = Done + 1 THEN Put(i) \cup W ELSE Put(i)
  PROVE  InOrder'
<1>1. /\ Loads' = Loads /\ Units' = Units /\ \A img, k : Part(img, k)' = Part(img, k)
  BY DEF Loads, Units, Part
<1>2. /\ Len(todo) \in Nat /\ Len(todo) # 0 /\ Head(todo) = todo[1] /\ Len(Loads) \in Nat
      /\ DOMAIN Loads = 1 .. Len(Loads)
  BY QueueTypes, LoadsTypes DEF HostTypes
<1>3. Done \in Nat /\ Done + 1 \in DOMAIN Loads /\ Loads[Done + 1] = Head(todo)
  <2>1. Done \in Nat /\ Done + 1 \in DOMAIN Loads
    BY <1>2 DEF Queue, Done
  <2>2. todo[1] = Loads[Done + 1]
    BY <1>2 DEF Queue
  <2> QED BY <1>2, <2>1, <2>2
<1>4. SUFFICES ASSUME NEW i \in DOMAIN Loads, NEW u \in Put(i)', u \in Units
               PROVE  PutLater(i, u)' \/ ddr'[u] = Part(Loads[i].img, u - Loads[i].at)
  BY <1>1 DEF InOrder
<1>5. CASE u \in W
  <2>1. CASE i = Done + 1
    BY <1>3, <1>4, <1>5, <2>1
  <2>2. CASE i < Done + 1
    <3>1. PICK d \in DOMAIN Loads : d = Done + 1
      BY <1>3
    <3>2. u \in Put(d)'
      BY <1>5, <3>1
    <3> QED BY <1>1, <2>2, <3>1, <3>2 DEF PutLater
  <2>3. CASE i > Done + 1
    <3>1. Put(i) = {}
      BY <1>2, <1>3, <2>3 DEF Put
    <3> QED BY <1>2, <1>3, <1>4, <2>3, <3>1
  <2> QED BY <1>2, <1>3, <2>1, <2>2, <2>3
<1>6. CASE u \notin W
  <2>1. u \in Put(i)
    BY <1>4, <1>6
  <2>2. CASE PutLater(i, u)
    <3>1. PICK j \in DOMAIN Loads : j > i /\ u \in Put(j)
      BY <2>2 DEF PutLater
    <3>2. u \in Put(j)'
      BY <3>1
    <3> QED BY <1>1, <3>1, <3>2 DEF PutLater
  <2>3. CASE ddr[u] = Part(Loads[i].img, u - Loads[i].at)
    BY <1>4, <1>6, <2>3
  <2> QED BY <1>4, <2>1, <2>2, <2>3 DEF InOrder
<1> QED BY <1>5, <1>6

(* The queue without its head.                                             *)
LEMMA NextInQueue ==
  ASSUME HostTypes, Queue, todo # <<>>, UNCHANGED <<setup, request>>, todo' = Tail(todo)
  PROVE  /\ Queue' /\ Done' = Done + 1 /\ Loads' = Loads
         /\ Done \in Nat /\ Loads[Done + 1] = Head(todo) /\ Done + 1 \in DOMAIN Loads
<1>1. /\ Len(todo) \in Nat /\ Len(todo) # 0 /\ Len(Tail(todo)) = Len(todo) - 1
      /\ Head(todo) = todo[1] /\ \A n \in 1 .. Len(todo) - 1 : Tail(todo)[n] = todo[n + 1]
      /\ Len(Loads) \in Nat /\ DOMAIN Loads = 1 .. Len(Loads)
  BY QueueTypes, LoadsTypes DEF HostTypes
<1>2. Loads' = Loads
  BY DEF Loads
<1>3. Done' = Done + 1 /\ Done \in Nat /\ Done + 1 \in DOMAIN Loads
  BY <1>1, <1>2 DEF Done, Queue
<1>4. ASSUME NEW n \in 1 .. Len(todo) - 1 PROVE Tail(todo)[n] = Loads[Done + 1 + n]
  <2>1. n + 1 \in 1 .. Len(todo) /\ Done + (n + 1) = Done + 1 + n
    BY <1>1, <1>3
  <2>2. todo[n + 1] = Loads[Done + (n + 1)]
    BY <2>1 DEF Queue
  <2> QED BY <1>1, <2>1, <2>2
<1>5. Len(todo)' <= Len(Loads)'
  BY <1>1, <1>2 DEF Queue
<1>6. Queue'
  BY <1>1, <1>2, <1>3, <1>4, <1>5 DEF Queue
<1>7. todo[1] = Loads[Done + 1]
  BY <1>1 DEF Queue
<1> QED BY <1>1, <1>2, <1>3, <1>6, <1>7

LEMMA QueueDone ==
  ASSUME HostTypes, Queue, InOrder, Fit, todo = <<>>
  PROVE  Sound
<1>1. Len(todo) = 0 /\ Len(Loads) \in Nat /\ DOMAIN Loads = 1 .. Len(Loads)
  BY LoadsTypes
<1>2. Done = Len(Loads)
  BY <1>1 DEF Done
<1>3. \A i \in DOMAIN Loads : i <= Done /\ Put(i) = Span(Loads[i])
  BY <1>1, <1>2 DEF Put
<1>4. \A i, u : PutLater(i, u) => StagedLater(i, u)
  BY <1>3 DEF PutLater, StagedLater
<1>5. \A i \in DOMAIN Loads : \A u \in Span(Loads[i]) \cap Units :
        StagedLater(i, u) \/ ddr[u] = Part(Loads[i].img, u - Loads[i].at)
  BY <1>3, <1>4 DEF InOrder
<1> QED BY <1>3, <1>5 DEF Sound, Fit

(* A session starts with nothing written.                                  *)
LEMMA StartedQueue ==
  ASSUME HostTypes', todo' = Loads', sent' = 0
  PROVE  Queue' /\ InOrder' /\ Fit'
<1>1. /\ Len(Loads') \in Nat /\ DOMAIN Loads' = 1 .. Len(Loads')
      /\ \A i \in DOMAIN Loads' : Loads'[i].at \in Int
  <2>1. Loads' \in Seq(ImageType)
    BY ImagesTypes DEF HostTypes, Loads
  <2>2. \A i \in 1 .. Len(Loads') : Loads'[i] \in ImageType
    BY <2>1, ElementOfSeq
  <2> QED BY <2>1, <2>2, LenProperties DEF ImageType
<1>2. Done' = 0
  BY <1>1 DEF Done
<1>3. \A i \in DOMAIN Loads' : i > 0 /\ Loads'[i].at .. Loads'[i].at + 0 - 1 = {}
  BY <1>1
<1>4. \A i \in DOMAIN Loads' : Put(i)' = {} /\ ~(i <= 0)
  BY <1>1, <1>2, <1>3 DEF Put
<1>5. Queue'
  BY <1>1, <1>2 DEF Queue
<1>6. InOrder' /\ Fit'
  BY <1>2, <1>4 DEF InOrder, Fit
<1> QED BY <1>5, <1>6

LEMMA HeadInQueue ==
  ASSUME HostTypes, Queue, todo # <<>>
  PROVE  /\ Done \in Nat /\ Done + 1 \in DOMAIN Loads /\ Loads[Done + 1] = Head(todo)
         /\ DOMAIN Loads = 1 .. Len(Loads)
<1>1. /\ Len(todo) \in Nat /\ Len(todo) # 0 /\ Head(todo) = todo[1] /\ Len(Loads) \in Nat
      /\ DOMAIN Loads = 1 .. Len(Loads)
  BY QueueTypes, LoadsTypes DEF HostTypes
<1>2. Done \in Nat /\ Done + 1 \in DOMAIN Loads
  BY <1>1 DEF Queue, Done
<1>3. todo[1] = Loads[Done + 1]
  BY <1>1 DEF Queue
<1> QED BY <1>1, <1>2, <1>3

LEMMA StagingKept ==
  ASSUME Queue, InOrder, Fit, UNCHANGED <<setup, request, todo, sent, session, ddr>>
  PROVE  Queue' /\ InOrder' /\ Fit'
<1>1. /\ Loads' = Loads /\ Units' = Units /\ Done' = Done /\ \A img, k : Part(img, k)' = Part(img, k)
  BY DEF Loads, Units, Done, Part
<1>2. \A i : Put(i)' = Put(i)
  BY <1>1 DEF Put
<1>3. \A i, u : PutLater(i, u)' <=> PutLater(i, u)
  BY <1>1, <1>2 DEF PutLater
<1> QED BY <1>1, <1>2, <1>3 DEF Queue, InOrder, Fit, FitsAperture

(* The simulator's main.                                                   *)
LEMMA SimStaged ==
  ASSUME BootInv, BootTypes, StagedInv,
         SimStart \/ SimLoad \/ SimBootrom \/ SimNoBootrom \/ SimTrace \/ SimReset
  PROVE  StagedInv'
<1> USE DEF StagedInv, NotYet
<1>0. /\ HostTypes /\ MemTypes /\ Took = {"take", "load entry", "load dtb", "jump"}
      /\ Clearing = {"clear magic", "clear entry", "clear dtb"}
  BY DEF BootTypes, Took, Clearing
<1>1. CASE SimStart
  <2>1. /\ host' \in {"load", "left"} /\ ~armed /\ host = "idle" /\ setup.by = "sim"
        /\ UNCHANGED <<setup, request, rom, armed, early, hs, sent>> /\ rom.pc = "reset" /\ sent = 0
        /\ host' = "load" => todo' = Images(request)
    BY <1>0, <1>1 DEF SimStart, Quit, BootInv, HeldInReset
  <2>2. CASE host' = "load"
    <3>1. todo' = Loads' /\ setup' = setup /\ sent' = 0
      BY <2>1, <2>2 DEF Loads
    <3>2. HostTypes'
      BY <1>1, HostTypesKept DEF HostNext
    <3>3. Queue' /\ InOrder' /\ Fit'
      BY <3>1, <3>2, StartedQueue
    <3> QED BY <2>1, <2>2, <3>3 DEF Staging, Arming, Simulating, Armed, Loaded
  <2>3. CASE host' = "left"
    BY <2>1, <2>3 DEF Staging, Arming, Simulating, Armed, Loaded
  <2> QED BY <2>1, <2>2, <2>3
<1>2. CASE SimLoad
  <2>1. /\ host = "load" /\ todo # <<>> /\ UNCHANGED <<setup, request, session, rom, armed, early, sent>>
        /\ ~armed /\ rom.pc = "reset" /\ Queue /\ InOrder /\ Fit /\ setup.by = "sim" /\ sent = 0
    BY <1>0, <1>2 DEF SimLoad, BootInv, HeldInReset, Staging, HostTypes
  <2>2. CASE Head(todo).opens /\ Head(todo).at >= 0 /\ FitsAperture(Head(todo))
    <3>1. host' = "load" /\ ddr' = Over(Parts(Head(todo))) /\ todo' = Tail(todo)
      BY <1>2, <2>1, <2>2 DEF SimLoad
    <3>2. /\ Queue' /\ Done' = Done + 1 /\ Loads' = Loads /\ Done \in Nat
          /\ Done + 1 \in DOMAIN Loads /\ Loads[Done + 1] = Head(todo)
      BY <1>0, <2>1, <3>1, NextInQueue
    <3>3. ASSUME NEW u \in Units
          PROVE  ddr'[u] = IF u \in Span(Head(todo)) THEN Part(Head(todo).img, u - Head(todo).at)
                           ELSE ddr[u]
      BY <3>1 DEF Over, Parts, Units
    <3>4. ASSUME NEW i \in DOMAIN Loads
          PROVE  Put(i)' = IF i = Done + 1 THEN Put(i) \cup Span(Head(todo)) ELSE Put(i)
      <4>0. i \in Int /\ Loads[i].at \in Int
        BY <1>0, LoadsTypes
      <4>1. Loads[i].at .. Loads[i].at + 0 - 1 = {}
        BY <4>0
      <4>2. Put(i)' = IF i <= Done + 1 THEN Span(Loads[i]) ELSE {}
        BY <2>1, <3>2, <4>1 DEF Put
      <4>3. Put(i) = IF i <= Done THEN Span(Loads[i]) ELSE {}
        BY <2>1, <4>1 DEF Put
      <4>4. CASE i = Done + 1
        BY <3>2, <4>2, <4>3, <4>4
      <4>5. CASE i # Done + 1
        BY <3>2, <4>0, <4>2, <4>3, <4>5
      <4> QED BY <4>4, <4>5
    <3>5. InOrder'
      BY <1>0, <2>1, <3>3, <3>4, WrittenInOrder
    <3>6. Fit'
      <4>1. \A i \in DOMAIN Loads : i <= Done + 1 => i <= Done \/ i = Done + 1
        <5>1. DOMAIN Loads = 1 .. Len(Loads) /\ Len(Loads) \in Nat
          BY <1>0, LoadsTypes
        <5> QED BY <3>2, <5>1
      <4> QED BY <2>1, <2>2, <3>2, <4>1 DEF Fit, FitsAperture
    <3> QED BY <2>1, <3>1, <3>2, <3>5, <3>6 DEF Staging, Arming, Simulating, Armed, Loaded
  <2>3. CASE ~(Head(todo).opens /\ Head(todo).at >= 0 /\ FitsAperture(Head(todo)))
    <3>1. host' = "left"
      BY <1>2, <2>3 DEF SimLoad, Quit
    <3> QED BY <2>1, <3>1 DEF Staging, Arming, Simulating, Armed, Loaded
  <2> QED BY <2>2, <2>3
<1>3. CASE SimBootrom
  <2>1. /\ host = "load" /\ todo = <<>> /\ UNCHANGED <<setup, request, session, rom, sent>> /\ ~armed
        /\ rom.pc = "reset" /\ setup.by = "sim" /\ request.bootrom.given
    BY <1>0, <1>3 DEF SimBootrom, BootInv, HeldInReset, HostTypes
  <2>2. CASE request.bootrom.opens
    <3>1. /\ host' = "loaded" /\ hs' = Handshake /\ early' = setup.clears
          /\ ddr' = [ddr EXCEPT ![HsAt] = Bare("handshake")]
      BY <1>3, <2>2 DEF SimBootrom
    <3>2. Sound
      BY <1>0, <2>1, QueueDone DEF Staging
    <3>3. Complete'
      BY <1>0, <2>1, <3>1, <3>2, SoundOverHandshake DEF HandshakeDue
    <3> QED BY <1>0, <2>1, <3>1, <3>3 DEF Staging, Arming, Simulating, Armed, Loaded, Handshake
  <2>3. CASE ~request.bootrom.opens
    <3>1. host' = "left" /\ armed' = armed
      BY <1>3, <2>3 DEF SimBootrom, Quit
    <3> QED BY <2>1, <3>1 DEF Staging, Arming, Simulating, Armed, Loaded
  <2> QED BY <2>2, <2>3
<1>4. CASE SimNoBootrom
  <2>1. /\ host = "load" /\ todo = <<>> /\ host' = "loaded" /\ ~armed /\ rom.pc = "reset"
        /\ setup.by = "sim" /\ ~request.bootrom.given
        /\ UNCHANGED <<setup, request, session, sent, rom, ddr, hs, armed, early>>
    BY <1>0, <1>4 DEF SimNoBootrom, BootInv, HeldInReset, HostTypes
  <2>2. Sound
    BY <1>0, <2>1, QueueDone DEF Staging
  <2>3. Complete'
    BY <2>1, <2>2, CompleteKept DEF Complete, HandshakeDue
  <2> QED BY <2>1, <2>3 DEF Staging, Arming, Simulating, Armed, Loaded
<1>5. CASE SimTrace
  <2>1. /\ host = "loaded" /\ host' \in {"traced", "left"}
        /\ UNCHANGED <<setup, request, session, sent, rom, ddr, hs, armed, early>>
    BY <1>5 DEF SimTrace, Quit
  <2>2. Complete => Complete'
    BY <2>1, CompleteKept
  <2> QED BY <2>1, <2>2 DEF Staging, Arming, Simulating, Armed, Loaded
<1>6. CASE SimReset
  <2>1. /\ host = "traced" /\ host' = "run" /\ setup.by = "sim"
        /\ rom'.pc \in {"lost", "poll"} \/ (setup.clears /\ rom'.pc = "clear magic")
        /\ rom.pc = "reset"
        /\ UNCHANGED <<setup, request, session, sent, ddr, hs, armed, early>>
    BY <1>0, <1>6 DEF SimReset, ResetTarget, BootInv, HeldInReset, MemTypes, RomType, HostTypes
  <2>2. Complete => Complete'
    BY <2>1, CompleteKept
  <2> QED BY <1>0, <2>1, <2>2 DEF Staging, Arming, Simulating, Armed, Loaded
<1> QED BY <1>1, <1>2, <1>3, <1>4, <1>5, <1>6

\* jtag_load.tcl, and the reset between its sessions.
LEMMA JtagStaged ==
  ASSUME BootInv, BootTypes, StagedInv,
         JtagStart \/ JtagClear \/ JtagBurst \/ JtagNextFile \/ JtagArm \/ BoardReset
  PROVE  StagedInv'
<1> USE DEF StagedInv, NotYet
<1>0. /\ HostTypes /\ MemTypes /\ Took = {"take", "load entry", "load dtb", "jump"}
      /\ rom.pc \in Took => armed
      /\ Clearing = {"clear magic", "clear entry", "clear dtb"}
  BY DEF BootTypes, Took, BootInv, MagicIsArmed, Clearing
<1>1. CASE JtagStart
  <2>1. /\ setup.by = "jtag" /\ host = "idle" /\ rom.pc # "running" /\ ~armed /\ sent' = 0
        /\ UNCHANGED <<setup, rom, armed>>
    BY <1>1 DEF JtagStart
  <2>2. PICK r \in JtagRequests :
          IF r.fw.opens /\ r.kernel.opens /\ r.dtb.opens
          THEN /\ request' = r /\ host' = "clear" /\ todo' = JtagImages(r)
          ELSE UNCHANGED <<setup, request, host, todo>>
    BY <1>1 DEF JtagStart
  <2>3. CASE r.fw.opens /\ r.kernel.opens /\ r.dtb.opens
    <3>1. host' = "clear" /\ request' = r /\ todo' = JtagImages(r)
      BY <2>2, <2>3
    <3>2. todo' = Loads'
      BY <2>1, <3>1 DEF Loads
    <3>3. HostTypes'
      BY <1>1, HostTypesKept DEF HostNext
    <3>4. Queue' /\ InOrder' /\ Fit'
      BY <2>1, <3>2, <3>3, StartedQueue
    <3> QED BY <1>0, <2>1, <3>1, <3>4 DEF Staging, Arming, Simulating, Armed, Loaded
  <2>4. CASE ~(r.fw.opens /\ r.kernel.opens /\ r.dtb.opens)
    <3>1. host' = "idle"
      BY <2>1, <2>2, <2>4
    <3> QED BY <1>0, <2>1, <3>1 DEF Staging, Arming, Simulating, Armed, Loaded
  <2> QED BY <2>3, <2>4
<1>2. CASE JtagClear
  <2>1. /\ host = "clear" /\ host' = "write" /\ sent = 0 /\ Queue /\ InOrder /\ Fit
        /\ UNCHANGED <<setup, request, todo, sent, session, ddr, rom, armed, early>>
    BY <1>2 DEF JtagClear, Staging
  <2>2. Queue' /\ InOrder' /\ Fit'
    BY <2>1, StagingKept
  <2>3. todo # <<>> => Head(todo).size \in Nat
    BY <1>0, QueueTypes DEF HostTypes, ImageType
  <2>4. Staging'
    BY <2>1, <2>2, <2>3 DEF Staging
  <2> QED BY <1>0, <2>1, <2>4 DEF Arming, Simulating, Armed, Loaded
<1>3. CASE JtagBurst
  <2>1. /\ host = "write" /\ host' = "write" /\ todo # <<>> /\ sent' = sent + 1 /\ sent \in Nat
        /\ UNCHANGED <<setup, request, todo, session, rom, armed, early>>
        /\ Queue /\ InOrder /\ Fit /\ setup.by = "jtag"
    BY <1>0, <1>3 DEF JtagBurst, HostTypes, Staging
  <2>2. PICK f \in ImageType : f = Head(todo)
    BY <1>0, <2>1, QueueTypes DEF HostTypes
  <2>3. sent < f.size /\ ddr' = [ddr EXCEPT ![f.at + sent] = Part(f.img, sent)]
    BY <1>3, <2>2 DEF JtagBurst, BurstsLeft
  <2>4. f.at \in Int /\ f.size \in Nat /\ (f.at + sent) - f.at = sent
    BY <2>1 DEF ImageType
  <2>5. ASSUME NEW u \in Units
        PROVE  ddr'[u] = IF u \in {f.at + sent} THEN Part(f.img, u - f.at) ELSE ddr[u]
    BY <1>0, <2>3, <2>4 DEF MemTypes, Units
  <2>6. Loads' = Loads /\ Done' = Done
    BY <2>1 DEF Loads, Done
  <2>7. Done \in Nat /\ Done + 1 \in DOMAIN Loads /\ Loads[Done + 1] = f /\ DOMAIN Loads = 1 .. Len(Loads)
    BY <1>0, <2>1, <2>2, HeadInQueue
  <2>8. ASSUME NEW i \in DOMAIN Loads
        PROVE  Put(i)' = IF i = Done + 1 THEN Put(i) \cup {f.at + sent} ELSE Put(i)
    <3>1. f.at .. f.at + (sent + 1) - 1 = (f.at .. f.at + sent - 1) \cup {f.at + sent}
      BY <2>1, <2>4
    <3>2. CASE i = Done + 1
      BY <2>1, <2>6, <2>7, <3>1, <3>2 DEF Put
    <3>3. CASE i # Done + 1
      BY <2>6, <3>3 DEF Put
    <3> QED BY <3>2, <3>3
  <2>9. InOrder'
    BY <1>0, <2>1, <2>2, <2>5, <2>8, WrittenInOrder
  <2>10. Queue' /\ Fit' /\ sent' <= f.size
    BY <2>1, <2>3, <2>4, <2>6 DEF Queue, Fit, FitsAperture
  <2>11. Staging'
    BY <2>1, <2>2, <2>9, <2>10 DEF Staging
  <2> QED BY <1>0, <2>1, <2>11 DEF Arming, Simulating, Armed, Loaded
<1>4. CASE JtagNextFile
  <2>1. /\ host = "write" /\ host' = "write" /\ todo # <<>> /\ sent' = 0 /\ todo' = Tail(todo)
        /\ UNCHANGED <<setup, request, session, rom, armed, early, ddr>> /\ sent \in Nat
        /\ Queue /\ InOrder /\ Fit /\ setup.by = "jtag"
    BY <1>0, <1>4 DEF JtagNextFile, HostTypes, Staging
  <2>2. PICK f \in ImageType : f = Head(todo)
    BY <1>0, <2>1, QueueTypes DEF HostTypes
  <2>3. f.at \in Int /\ f.size \in Nat /\ sent = f.size
    BY <1>4, <2>1, <2>2 DEF JtagNextFile, BurstsLeft, Staging, ImageType
  <2>4. /\ Queue' /\ Done' = Done + 1 /\ Loads' = Loads /\ Done \in Nat
        /\ Done + 1 \in DOMAIN Loads /\ Loads[Done + 1] = f
    BY <1>0, <2>1, <2>2, NextInQueue
  <2>5. ASSUME NEW i \in DOMAIN Loads
        PROVE  Put(i)' = IF i = Done + 1 THEN Put(i) \cup {} ELSE Put(i)
    <3>1. i \in Int /\ Loads[i].at .. Loads[i].at + 0 - 1 = {}
      <4>1. i \in Int /\ Loads[i].at \in Int
        BY <1>0, LoadsTypes
      <4> QED BY <4>1
    <3>2. Put(i)' = IF i <= Done + 1 THEN Span(Loads[i]) ELSE {}
      BY <2>1, <2>4, <3>1 DEF Put
    <3>3. CASE i = Done + 1
      <4>1. Put(i) = f.at .. f.at + f.size - 1
        BY <2>3, <2>4, <3>3 DEF Put
      <4> QED BY <2>4, <3>2, <3>3, <4>1 DEF Span
    <3>4. CASE i # Done + 1
      BY <2>4, <3>1, <3>2, <3>4 DEF Put
    <3> QED BY <3>3, <3>4
  <2>6. InOrder'
    <3>1. PICK W : W = {}
      OBVIOUS
    <3>2. \A u \in Units : ddr'[u] = IF u \in W THEN Part(Head(todo).img, u - Head(todo).at) ELSE ddr[u]
      BY <2>1, <3>1
    <3>3. \A i \in DOMAIN Loads : Put(i)' = IF i = Done + 1 THEN Put(i) \cup W ELSE Put(i)
      BY <2>5, <3>1
    <3> QED BY <1>0, <2>1, <3>2, <3>3, WrittenInOrder
  <2>7. Fit'
    BY <2>1 DEF Fit
  <2>8. todo' # <<>> => Head(todo').size \in Nat
    BY <1>0, <2>1, QueueTypes DEF ImageType, HostTypes
  <2>9. Staging'
    BY <2>1, <2>4, <2>6, <2>7, <2>8 DEF Staging
  <2> QED BY <1>0, <2>1, <2>9 DEF Arming, Simulating, Armed, Loaded
<1>5. CASE JtagArm
  <2>1. /\ UNCHANGED <<setup, request, todo, session, rom>> /\ ~armed /\ rom.pc # "running"
        /\ ddr' = [ddr EXCEPT ![HsAt] = Bare("handshake")]
        /\ host' = IF sent' = 3 THEN "idle" ELSE "arm"
        /\ \/ host = "write" /\ todo = <<>> /\ sent' = 1
           \/ host = "arm" /\ sent' = sent + 1
        /\ setup.by = "jtag"
    BY <1>0, <1>5 DEF JtagArm, HostTypes
  <2>2. /\ sent' \in {1, 2, 3}
        /\ sent' = 1 => hs'.entry = "fw" /\ (armed' <=> armed)
        /\ sent' = 2 => hs'.entry = hs.entry /\ hs'.dtb = "dtb" /\ (armed' <=> armed)
        /\ sent' = 3 => hs'.entry = hs.entry /\ hs'.dtb = hs.dtb
    BY <1>0, <1>5, ArmWords DEF MemTypes
  <2>3. ~early' => ~early /\ rom.pc \notin Clearing
    BY <1>5 DEF JtagArm
  <2>4. Sound
    <3>1. CASE host = "write" /\ todo = <<>>
      BY <1>0, <3>1, QueueDone DEF Staging
    <3>2. CASE host = "arm"
      BY <3>2 DEF Arming, Complete
    <3> QED BY <2>1, <3>1, <3>2
  <2>5. Complete'
    BY <1>0, <2>1, <2>4, SoundOverHandshake DEF HandshakeDue
  <2>6. CASE host = "write"
    BY <1>0, <2>1, <2>2, <2>3, <2>5, <2>6 DEF Staging, Arming, Simulating, Armed, Loaded
  <2>7. CASE host = "arm"
    <3>1. /\ ~early => hs.entry = "fw" /\ (sent = 2 => hs.dtb = "dtb")
          /\ sent \in {1, 2} /\ sent' = sent + 1
      BY <1>0, <2>1, <2>7 DEF Arming, HostTypes
    <3>2. /\ ~early' => hs'.entry = "fw" /\ hs'.dtb = "dtb"
          /\ sent' = 3 \/ (sent' = 2 /\ ~armed')
      BY <2>1, <2>2, <2>3, <3>1
    <3> QED BY <1>0, <2>1, <2>2, <2>3, <2>5, <3>2 DEF Staging, Arming, Simulating, Armed, Loaded
  <2> QED BY <2>1, <2>6, <2>7
<1>6. CASE BoardReset
  <2>1. /\ host = "idle" /\ host' = "idle" /\ setup.by = "jtag" /\ setup' = setup /\ ~armed'
        /\ rom'.pc \in {"clear magic", "poll"}
    BY <1>6 DEF BoardReset, hostVars, ResetTarget
  <2> QED BY <2>1 DEF Staging, Arming, Simulating, Armed, Loaded
<1> QED BY <1>1, <1>2, <1>3, <1>4, <1>5, <1>6

\* A step of the ROM before its jump leaves what is armed or being armed as it is.
LEMMA RomKeepsArms ==
  ASSUME Arming, NotYet, Simulating, Armed, Complete => Complete', armed' => armed,
         UNCHANGED <<setup, host, sent, early>>, rom.pc # "running", rom'.pc # "running",
         rom'.pc \in Clearing => rom.pc \in Clearing,
         rom.pc \notin Clearing => hs'.entry = hs.entry /\ hs'.dtb = hs.dtb
  PROVE  Arming' /\ NotYet' /\ Simulating' /\ Armed'
<1>1. setup' = setup /\ host' = host /\ sent' = sent /\ (early' <=> early)
  OBVIOUS
<1>2. Arming'
  <2>1. SUFFICES ASSUME host = "arm"
                 PROVE  Complete' /\ (~early => /\ hs'.entry = "fw" /\ (sent = 2 => hs'.dtb = "dtb")
                                               /\ rom'.pc \notin Clearing)
    BY <1>1 DEF Arming
  <2> QED BY <2>1 DEF Arming
<1>3. NotYet'
  BY <1>1 DEF NotYet
<1>4. Simulating'
  BY <1>1 DEF Simulating
<1>5. Armed'
  <2>1. SUFFICES ASSUME armed'
                 PROVE  /\ Complete' /\ rom'.pc # "running"
                        /\ ~early => hs'.entry = "fw" /\ hs'.dtb = "dtb" /\ rom'.pc \notin Clearing
    BY <1>1 DEF Armed
  <2> QED BY <2>1 DEF Armed
<1> QED BY <1>2, <1>3, <1>4, <1>5

\* The hart: what it takes is what is armed, and only what it boots writes DDR.
LEMMA HartStaged ==
  ASSUME BootInv, BootTypes, StagedInv, RomNext \/ OsScribbles
  PROVE  StagedInv'
<1> USE DEF StagedInv
<1>0. /\ HostTypes /\ MemTypes /\ Took = {"take", "load entry", "load dtb", "jump"}
      /\ rom.pc \in Took => armed
      /\ rom.pc \in Looking /\ hs.magic = "deadbeef" => armed
      /\ Clearing = {"clear magic", "clear entry", "clear dtb"}
      /\ UNCHANGED hostVars /\ early' = early
  BY DEF BootTypes, Took, BootInv, MagicIsArmed, RomNext, RomClears, RomPolls, RomTakes, RomLoads,
         RomJumps, OsScribbles, Clearing
<1>1. UNCHANGED <<setup, request, host, todo, sent, session, early>>
  BY <1>0 DEF hostVars
<1>2. CASE RomNext
  <2>1. ddr' = ddr /\ rom.pc # "running" /\ rom.pc # "reset" /\ rom.pc # "lost"
    BY <1>2 DEF RomNext, RomClears, RomPolls, RomTakes, RomLoads, RomJumps
  <2>2. Complete => Complete'
    BY <1>1, <2>1, CompleteKept
  <2>3. Staging'
    <3>1. Queue /\ InOrder /\ Fit => Queue' /\ InOrder' /\ Fit'
      BY <1>1, <2>1, StagingKept
    <3> QED BY <1>1, <3>1 DEF Staging
  <2>4. CASE RomClears
    <3>1. /\ rom.pc \in Clearing /\ rom'.pc \in Clearing \cup {"poll"} /\ rom'.a2 = rom.a2 /\ rom'.a1 = rom.a1
          /\ armed' => armed
      BY <1>0, <2>4 DEF RomClears, MemTypes, RomType
    <3>2. /\ rom'.pc # "running" /\ (armed' => armed)
          /\ rom'.pc \in Clearing => rom.pc \in Clearing
          /\ rom.pc \notin Clearing => hs'.entry = hs.entry /\ hs'.dtb = hs.dtb
      BY <1>0, <3>1
    <3>3. Arming' /\ NotYet' /\ Simulating' /\ Armed'
      BY <1>1, <2>1, <2>2, <3>2, RomKeepsArms
    <3>4. Loaded'
      BY <1>0, <1>1, <2>1, <2>2, <3>1 DEF Armed, Loaded
    <3> QED BY <2>3, <3>2, <3>3, <3>4
  <2>5. CASE RomPolls
    <3>1. /\ rom.pc = "poll" /\ rom'.pc = "take" /\ rom'.a2 = rom.a2 /\ rom'.a1 = rom.a1
          /\ UNCHANGED <<hs, armed>> /\ armed
      BY <1>0, <2>5 DEF RomPolls, MemTypes, RomType, Looking
    <3>2. /\ rom'.pc # "running" /\ (armed' => armed)
          /\ rom'.pc \in Clearing => rom.pc \in Clearing
          /\ rom.pc \notin Clearing => hs'.entry = hs.entry /\ hs'.dtb = hs.dtb
      BY <1>0, <3>1
    <3>3. Arming' /\ NotYet' /\ Simulating' /\ Armed'
      BY <1>1, <2>1, <2>2, <3>2, RomKeepsArms
    <3>4. Loaded'
      BY <1>0, <1>1, <2>1, <2>2, <3>1 DEF Armed, Loaded
    <3> QED BY <2>3, <3>2, <3>3, <3>4
  <2>6. CASE RomTakes
    <3>1. /\ rom.pc = "take" /\ rom'.pc = "load entry" /\ rom'.a2 = rom.a2 /\ rom'.a1 = rom.a1
          /\ hs'.entry = hs.entry /\ hs'.dtb = hs.dtb /\ armed' = armed /\ armed
      BY <1>0, <2>6 DEF RomTakes, MemTypes, RomType, HandshakeType
    <3>2. /\ rom'.pc # "running" /\ (armed' => armed)
          /\ rom'.pc \in Clearing => rom.pc \in Clearing
          /\ rom.pc \notin Clearing => hs'.entry = hs.entry /\ hs'.dtb = hs.dtb
      BY <1>0, <3>1
    <3>3. Arming' /\ NotYet' /\ Simulating' /\ Armed'
      BY <1>1, <2>1, <2>2, <3>2, RomKeepsArms
    <3>4. Loaded'
      BY <1>0, <1>1, <2>1, <2>2, <3>1 DEF Armed, Loaded
    <3> QED BY <2>3, <3>2, <3>3, <3>4
  <2>7. CASE RomLoads
    <3>1. /\ \/ rom.pc = "load entry" /\ rom'.pc = "load dtb" /\ rom'.a2 = hs.entry
             \/ rom.pc = "load dtb" /\ rom'.pc = "jump" /\ rom'.a2 = rom.a2 /\ rom'.a1 = hs.dtb
          /\ UNCHANGED <<hs, armed>> /\ armed
      BY <1>0, <2>7 DEF RomLoads, MemTypes, RomType
    <3>2. /\ rom'.pc # "running" /\ (armed' => armed)
          /\ rom'.pc \in Clearing => rom.pc \in Clearing
          /\ rom.pc \notin Clearing => hs'.entry = hs.entry /\ hs'.dtb = hs.dtb
      BY <1>0, <3>1
    <3>3. Arming' /\ NotYet' /\ Simulating' /\ Armed'
      BY <1>1, <2>1, <2>2, <3>2, RomKeepsArms
    <3>4. early' <=> early
      BY <1>1
    <3>5. ~early => hs.entry = "fw" /\ hs.dtb = "dtb"
      BY <3>1 DEF Armed
    <3>6. ASSUME ~early
          PROVE  /\ rom'.pc \in {"load dtb", "jump"} => rom'.a2 = "fw"
                 /\ rom'.pc = "jump" => rom'.a1 = "dtb"
      <4>1. rom.pc = "load dtb" => rom.a2 = "fw"
        BY <3>6 DEF Loaded
      <4> QED BY <3>1, <3>5, <3>6, <4>1
    <3>8. Loaded'
      BY <3>4, <3>6 DEF Loaded
    <3> QED BY <2>3, <3>3, <3>8
  <2>8. CASE RomJumps
    <3>1. rom'.pc = "running" /\ ~armed' /\ rom.pc = "jump" /\ armed
      BY <1>0, <2>8 DEF RomJumps, MemTypes, RomType
    <3>2. Arming' /\ NotYet' /\ Simulating'
      BY <1>0, <1>1, <2>1, <2>2, <3>1 DEF Arming, NotYet, Simulating
    <3>3. Armed'
      BY <1>0, <1>1, <2>1, <2>2, <3>1 DEF Armed
    <3>4. Loaded'
      BY <1>0, <1>1, <2>1, <2>2, <3>1 DEF Armed, Loaded
    <3> QED BY <2>3, <3>2, <3>3, <3>4
  <2> QED BY <1>2, <2>4, <2>5, <2>6, <2>7, <2>8 DEF RomNext
<1>3. CASE OsScribbles
  <2>1. rom.pc = "running" /\ rom' = rom /\ armed' = armed
    BY <1>3 DEF OsScribbles
  <2> QED BY <1>0, <1>1, <2>1 DEF Staging, Arming, NotYet, Simulating, Armed, Loaded
<1> QED BY <1>2, <1>3

LEMMA StepStaged ==
  ASSUME BootInv, BootTypes, StagedInv, [Next]_vars
  PROVE  StagedInv'
<1>1. CASE BootNext
  BY <1>1, SimStaged, JtagStaged, HartStaged DEF BootNext, HostNext
<1>2. CASE UNCHANGED bootVars
  <2>1. /\ UNCHANGED <<setup, request, host, todo, sent, session, ddr, hs, rom, armed, early>>
    BY <1>2 DEF bootVars
  <2>2. /\ Complete => Complete'
        /\ Queue /\ InOrder /\ Fit => Queue' /\ InOrder' /\ Fit'
    BY <2>1, CompleteKept, StagingKept
  <2> QED BY <2>1, <2>2 DEF StagedInv, Staging, Arming, NotYet, Simulating, Armed, Loaded
<1>3. CASE Return
  <2>1. /\ host = "run" /\ host' = "left" /\ setup.by = "sim"
        /\ UNCHANGED <<setup, request, todo, sent, session, ddr, hs, rom, armed, early>>
    BY <1>3 DEF Return, Quit, BootTypes, HostTypes
  <2>2. Complete => Complete'
    BY <2>1, CompleteKept
  <2> QED BY <2>1, <2>2 DEF StagedInv, Staging, Arming, NotYet, Simulating, Armed, Loaded
<1>4. CycleStep => UNCHANGED bootVars
  BY DEF CycleStep, Cycle
<1> QED BY <1>1, <1>2, <1>3, <1>4 DEF Next, Boot, vars

(* If the board's ROM clears the words, the hart jumps only with all of    *)
(* the session in DDR, in the order in which it was staged, whatever       *)
(* overlaps, and to the entry and the device tree the host wrote unless it *)
(* wrote them before the ROM had done clearing: for every set of files,    *)
(* any number of sessions, and every interleaving of host, ROM and resets. *)
THEOREM RunsTheStaged ==
  ASSUME BoardRomClears
  PROVE  Spec => []RunsWhatWasStaged
<1>1. BootInv /\ StagedInv => RunsWhatWasStaged
  <2> SUFFICES ASSUME BootInv, StagedInv PROVE RunsWhatWasStaged
    OBVIOUS
  <2>1. rom.pc = "jump" => Complete /\ (~early => rom.a2 = "fw" /\ rom.a1 = "dtb")
    BY DEF StagedInv, Loaded, Armed, BootInv, MagicIsArmed, Took
  <2>2. host = "run" /\ rom.pc # "running" => Complete
    BY DEF StagedInv, Simulating
  <2> QED BY <2>1, <2>2, CompleteIsStaged DEF RunsWhatWasStaged
<1> QED BY <1>1, InitBootInv, StepBootInv, InitBootTypes, BootTypesKept, InitStaged, StepStaged,
           PTL DEF Spec
-----------------------------------------------------------------------------
(* The end of a simulation, and its log.                                   *)

\* The mode the log tells is the hart's.
ModeTold == priv \in Modes /\ prev_priv = priv /\ told_priv = priv

\* The loop starts with nothing reported, ends with the first report, and until
\* main returns its exit code is what was reported.
Reported ==
  /\ host \notin {"run", "left"} => g_cycles = ResetToggles
  /\ host # "left" => exit_code = out.exit
  /\ done <=> out.exit # -1 \/ out.finish
  /\ out.exit \in ExitCodes \cup {-1} /\ exit_code \in ExitCodes \cup {-1, 124}
  /\ rc \in 0 .. 255 /\ StatusTells

LoopTypes ==
  /\ core \in CoreType /\ pipe.valid \in BOOLEAN /\ bus.valid \in BOOLEAN
  /\ pending_rsp \in BOOLEAN /\ pending.va \in Addr \cup {0}
  /\ g_cycles \in Nat /\ g_cycles - ResetToggles \in Nat

LogInv == ModeTold /\ Reported /\ LoopTypes

LEMMA InitLogInv == Init => LogInv
<1> SUFFICES ASSUME Init PROVE LogInv
  OBVIOUS
<1>1. /\ core = NoAccess /\ pipe = EmptyPipe /\ bus = IdleBus /\ pending_rsp = FALSE
      /\ pending = [va |-> 0, pa |-> 0, wen |-> FALSE]
      /\ priv = Machine /\ prev_priv = Machine /\ told_priv = Machine
      /\ g_cycles = ResetToggles /\ ResetToggles \in Nat
      /\ exit_code = -1 /\ done = FALSE /\ out = Quiet /\ host = "idle" /\ rc = 0
  BY LinuxAssumption DEF Init, BootInit
<1>2. ModeTold
  BY <1>1 DEF ModeTold, Modes
<1>3. Reported
  BY <1>1 DEF Reported, StatusTells, Quiet
<1>4. LoopTypes
  <2>1. pending_rsp \in BOOLEAN
    BY <1>1, Zenon
  <2>2. core \in CoreType /\ pipe.valid \in BOOLEAN /\ bus.valid \in BOOLEAN
    BY <1>1 DEF CoreType, NoAccess, EmptyPipe, IdleBus
  <2>3. pending.va \in Addr \cup {0} /\ g_cycles \in Nat /\ g_cycles - ResetToggles \in Nat
    BY <1>1
  <2> QED BY <2>1, <2>2, <2>3 DEF LoopTypes
<1> QED BY <1>2, <1>3, <1>4 DEF LogInv

\* What staging does to where the host is, and to the status.
LEMMA BootKeepsStatus ==
  ASSUME rc \in 0 .. 255, BootNext
  PROVE  /\ rc' \in 0 .. 255
         /\ host = "left" => host' = "left" /\ rc' = rc
         /\ host = "run" => host' = "run"
<1> USE DEF Quit, hostVars
<1>1. CASE SimStart \/ SimBootrom \/ SimNoBootrom \/ SimTrace \/ SimReset
  <2>1. rc' \in {rc, 1, 2} /\ host \notin {"run", "left"}
    BY <1>1 DEF SimStart, SimBootrom, SimNoBootrom, SimTrace, SimReset
  <2> QED BY <2>1
<1>2. CASE SimLoad
  <2>1. rc' \in {rc, 2} /\ host \notin {"run", "left"}
    BY <1>2 DEF SimLoad
  <2> QED BY <2>1
<1>3. CASE JtagStart
  BY <1>3 DEF JtagStart
<1>4. CASE JtagClear \/ JtagBurst \/ JtagNextFile \/ BoardReset
  BY <1>4 DEF JtagClear, JtagBurst, JtagNextFile, BoardReset
<1>5. CASE JtagArm
  BY <1>5 DEF JtagArm
<1>6. CASE RomNext \/ OsScribbles
  BY <1>6 DEF RomNext, RomClears, RomPolls, RomTakes, RomLoads, RomJumps, OsScribbles
<1> QED BY <1>1, <1>2, <1>3, <1>4, <1>5, <1>6 DEF BootNext, HostNext

LEMMA BootLogInv == ASSUME LogInv, Boot PROVE LogInv'
<1>1. UNCHANGED loopVars /\ BootNext
  BY DEF Boot
<1>2. /\ rc' \in 0 .. 255
      /\ host = "left" => host' = "left" /\ rc' = rc
      /\ host = "run" => host' = "run"
  BY <1>1, BootKeepsStatus DEF LogInv, Reported
<1>3. ModeTold' /\ LoopTypes'
  BY <1>1 DEF LogInv, ModeTold, LoopTypes, loopVars, soc
<1>4. host' \notin {"run", "left"} => g_cycles' = ResetToggles
  BY <1>1, <1>2 DEF LogInv, Reported, loopVars
<1>5. StatusTells'
  <2>1. CASE host = "left" \/ host' # "left"
    BY <1>1, <1>2, <2>1 DEF LogInv, Reported, StatusTells, loopVars
  <2>2. CASE host # "left" /\ host' = "left"
    <3>1. g_cycles' = ResetToggles /\ g_cycles \in Nat
      BY <1>1, <1>2, <2>2 DEF LogInv, Reported, LoopTypes, loopVars
    <3> QED BY <1>1, <3>1 DEF StatusTells, loopVars
  <2> QED BY <2>1, <2>2
<1>6. Reported'
  BY <1>1, <1>2, <1>4, <1>5 DEF LogInv, Reported, loopVars
<1> QED BY <1>3, <1>6 DEF LogInv

LEMMA CycleLogInv ==
  ASSUME LogInv,
         NEW fire \in BOOLEAN, NEW rsp \in BOOLEAN, NEW fault \in BOOLEAN, NEW finish \in BOOLEAN,
         NEW exit \in ExitCodes \cup {-1}, NEW mode \in Modes,
         Cycle(fire, rsp, fault, exit, finish, mode)
  PROVE  LogInv'
<1>1. ModeTold'
  BY DEF Cycle, LogInv, ModeTold, RemembersMode
<1>2. Reported'
  <2>1. /\ host = "run" /\ host' = host /\ rc' = rc /\ ~done
        /\ exit_code' = IF exit # -1 THEN exit ELSE exit_code
        /\ out'.exit = exit /\ out'.finish = finish
    BY DEF Cycle, bootVars
  <2>2. done' <=> exit # -1 \/ finish
    BY DEF Cycle
  <2>3. exit_code = -1
    BY <2>1 DEF LogInv, Reported
  <2> QED BY <2>1, <2>2, <2>3 DEF LogInv, Reported, StatusTells
<1>3. LoopTypes'
  <2>1. core' \in CoreType
    BY CoreTypeKept DEF LogInv, LoopTypes, Cycle
  <2>2. pipe'.valid \in BOOLEAN /\ bus'.valid \in BOOLEAN
    BY DEF LogInv, LoopTypes, Cycle, SocEdge, EmptyPipe, IdleBus
  <2>3. g_cycles' \in Nat /\ g_cycles' - ResetToggles \in Nat
    <3>1. g_cycles' = g_cycles + 1 /\ ResetToggles \in Nat
      BY LinuxAssumption DEF Cycle
    <3> QED BY <3>1 DEF LogInv, LoopTypes
  <2>4. pending'.va \in Addr \cup {0}
    <3>1. \/ pending' = pending
          \/ pending' = [va |-> tap_dm_req_va, pa |-> Xlate[pipe.va], wen |-> pipe.wen]
      BY DEF Cycle, MemTrace
    <3>2. tap_dm_req_va \in Addr \cup {0}
      BY DEF tap_dm_req_va, LogInv, LoopTypes, CoreType
    <3> QED BY <3>1, <3>2 DEF LogInv, LoopTypes
  <2>5. pending_rsp' \in BOOLEAN
    <3> DEFINE printed == fire /\ InWindow /\ InPa(Xlate[pipe.va])
               waiting == pending_rsp \/ printed
    <3>1. pending_rsp' = FALSE \/ pending_rsp' = waiting
      BY DEF Cycle, MemTrace, AfterAnswer
    <3>2. waiting \in BOOLEAN
      BY Zenon DEF LogInv, LoopTypes
    <3> HIDE DEF waiting
    <3> QED BY <3>1, <3>2, Zenon
  <2> QED BY <2>1, <2>2, <2>3, <2>4, <2>5 DEF LoopTypes
<1> QED BY <1>1, <1>2, <1>3 DEF LogInv

LEMMA CodesAreInt == \A c \in ExitCodes \cup {-1} : c \in Int
<1>1. ExitCodes \subseteq Nat
  BY LinuxAssumption
<1> QED BY <1>1

\* A status nobody wrote, -1, leaves the process as 255.
LEMMA NoStatusIs255 == \A c \in Int : c + 1 = 0 => c % 256 = 255
OBVIOUS

LEMMA ReturnLogInv == ASSUME LogInv, Return PROVE LogInv'
<1>1. ModeTold' /\ LoopTypes'
  BY DEF Return, LogInv, ModeTold, LoopTypes, soc
<1>2. /\ host = "run" /\ host' = "left" /\ UNCHANGED <<done, out, g_cycles>>
      /\ exit_code' = IF OutOfCycles THEN 124 ELSE exit_code
      /\ rc' = exit_code' % 256
      /\ done \/ g_cycles >= arg.timeout
  BY DEF Return, Quit, Status, LoopOver
<1>3. /\ done <=> out.exit # -1 \/ out.finish
      /\ exit_code = out.exit /\ out.exit \in ExitCodes \cup {-1}
  BY <1>2 DEF LogInv, Reported
<1>4. exit_code' \in ExitCodes \cup {-1, 124} /\ exit_code' \in Int
  BY <1>2, <1>3, LinuxAssumption
<1>5. rc' \in 0 .. 255
  <2>1. \A c \in Int : c % 256 \in 0 .. 255
    OBVIOUS
  <2> QED BY <1>2, <1>4, <2>1
<1>6. rc' = IF out.exit # -1 THEN out.exit % 256 ELSE IF out.finish THEN 255 ELSE 124
  <2>1. 124 % 256 = 124
    OBVIOUS
  <2>2. out.exit \in Int /\ (out.exit = -1 => out.exit % 256 = 255)
    <3>1. out.exit \in Int
      BY <1>3, CodesAreInt, Zenon
    <3>2. \A c \in Int : c = -1 => c + 1 = 0
      OBVIOUS
    <3> QED BY <3>1, <3>2, NoStatusIs255
  <2>3. CASE done
    <3>1. rc' = out.exit % 256 /\ (out.exit # -1 \/ out.finish)
      BY <1>2, <1>3, <2>3 DEF OutOfCycles
    <3> QED BY <2>2, <3>1
  <2>4. CASE ~done
    BY <1>2, <1>3, <2>1, <2>4 DEF OutOfCycles
  <2> QED BY <2>3, <2>4
<1>7. StatusTells'
  BY <1>2, <1>6 DEF StatusTells
<1>8. Reported'
  BY <1>2, <1>3, <1>4, <1>5, <1>7 DEF Reported
<1> QED BY <1>1, <1>8 DEF LogInv

LEMMA StepLogInv == ASSUME LogInv, [Next]_vars PROVE LogInv'
<1>1. CASE Boot
  BY <1>1, BootLogInv
<1>2. CASE CycleStep
  BY <1>2, CycleLogInv DEF CycleStep
<1>3. CASE Return
  BY <1>3, ReturnLogInv
<1>4. CASE UNCHANGED vars
  BY <1>4 DEF vars, bootVars, loopVars, soc, LogInv, ModeTold, Reported, LoopTypes, StatusTells
<1> QED BY <1>1, <1>2, <1>3, <1>4 DEF Next

(* The log tells the mode the hart is in at every cycle, and main's status *)
(* what ended the run, a report in the last cycle of the cap included, for *)
(* either core, every window, cap, exit code and order of reports; and all *)
(* of the harness's state has its type.                                    *)
THEOREM TheLogTells == Spec => []LogTells
<1>1. BootTypes /\ LogInv => LogTells
  <2> SUFFICES ASSUME BootTypes, LogInv PROVE LogTells
    OBVIOUS
  <2>1. BootTypeOK
    BY BootTypesAreOK
  <2>2. TypeOK
    BY <2>1 DEF TypeOK, LogInv, ModeTold, Reported, LoopTypes, CoreType
  <2> QED BY <2>2 DEF LogTells, LogInv, ModeTold, Reported
<1> QED BY <1>1, InitBootTypes, BootTypesKept, InitLogInv, StepLogInv, PTL DEF Spec
=============================================================================
