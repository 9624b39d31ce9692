----------------------------- MODULE LinuxBoot -----------------------------
(***************************************************************************)
(* How Linux gets into DDR and starts: a host stages images in DDR and     *)
(* arms the three handshake words, and the boot ROM (src/sw/bootrom/       *)
(* bootrom.S), polling them, jumps into what was staged.  The host is      *)
(* either the simulator's main (src/sim/cpp/sim_linux.cpp), which does all *)
(* of it through the DPI backdoor before the hart leaves reset, or         *)
(* jtag_load.tcl, which writes burst by burst while the ROM polls.  DDR    *)
(* keeps its contents when the hart is reset.                              *)
(*                                                                         *)
(* DDR is a row of units, each one burst long.  The unit at HsAt holds the *)
(* handshake words, unless an image is written over them.                  *)
(***************************************************************************)
EXTENDS Integers, Sequences, FiniteSets

CONSTANTS
  Setups,       \* [by, clears]: the host, "sim" or "jtag", and whether the ROM
                \* clears the handshake before it polls
  KernelAt, DtbAt, InitrdAt, HsAt,   \* the units of the load addresses
  DdrUnits,     \* the aperture
  SimRequests,  \* what either host may be asked to stage
  JtagRequests,
  MaxSessions,  \* bound on the host's sessions
  MaxResets     \* bound on the resets of the hart

FwAt == 0

\* A request names the files: [fw, kernel, dtb, initrd, raw, bootrom], each of
\* them none or a file of some size, whose place at counts only for raw.
none == [size |-> 0, at |-> 0, opens |-> FALSE, given |-> FALSE]
File(n) == [size |-> n, at |-> FwAt, opens |-> TRUE, given |-> TRUE]

ASSUME BootAssumption ==
  /\ Setups \subseteq [by : {"sim", "jtag"}, clears : BOOLEAN]
  /\ KernelAt \in Nat /\ DtbAt \in Nat /\ InitrdAt \in Nat
  /\ DdrUnits \in Nat /\ HsAt \in 0 .. DdrUnits - 1
  /\ \A r \in SimRequests \cup JtagRequests, n \in {"fw", "kernel", "dtb", "initrd", "raw", "bootrom"} :
       r[n] \in [size : Nat, at : Int, opens : BOOLEAN, given : BOOLEAN]
  /\ \A r \in JtagRequests : ~r.raw.given
  /\ MaxSessions \in Nat /\ MaxResets \in Nat

VARIABLES
  setup,     \* what is set up, fixed at the start
  request,   \* the files of the session
  host,      \* where the host is
  todo,      \* the images still to be written, [img, at, size, opens]
  sent,      \* jtag: units of the first of them already written
  session,   \* the number of the session
  ddr,       \* what each unit holds
  hs,        \* the handshake words, [magic, entry, dtb]
  rom,       \* the hart: [pc, a2, a1]
  armed,     \* the host wrote the magic, and nothing has taken it since
  early,     \* history: a handshake word of the session was written before the
             \* ROM had done clearing
  resets,    \* resets so far
  rc         \* the simulator's status, when it leaves early

bootVars == <<setup, request, host, todo, sent, session, ddr, hs, rom, armed, early, resets, rc>>

hostVars == <<setup, request, host, todo, sent, session, rc>>

\* What else a unit may hold: anything, zero, the handshake words, an OS's data.
Bare(what) == <<what, 0, 0>>
Part(img, k) == <<img, session, k>>
Span(f) == f.at .. f.at + f.size - 1
Parts(f) == [u \in Span(f) |-> Part(f.img, u - f.at)]
Over(parts) == [u \in 0 .. DdrUnits - 1 |->
                  IF u \in DOMAIN parts THEN parts[u] ELSE ddr[u]]

Named(img, f, at) ==
  IF f.given THEN << [img |-> img, at |-> at, size |-> f.size, opens |-> f.opens] >> ELSE <<>>

\* The images of a request in the order of the calls of load_blob_at, with the
\* addresses main gives them; a raw image takes the place of all the others.
Images(r) ==
  IF r.raw.given THEN Named("raw", r.raw, r.raw.at)
  ELSE Named("fw", r.fw, FwAt) \o Named("kernel", r.kernel, KernelAt)
         \o Named("dtb", r.dtb, DtbAt) \o Named("initrd", r.initrd, InitrdAt)

\* A ROM that polls straight away (a mutant).
PollsAtOnce == "poll"

\* Where the hart starts.  bootrom.S clears the handshake words before it
\* polls; the assembled bootrom.bin in the repository is older and does not.
ResetTarget == IF setup.clears THEN "clear magic" ELSE "poll"

BootInit ==
  /\ setup \in Setups
  /\ request \in IF setup.by = "sim" THEN SimRequests ELSE JtagRequests
  /\ host = "idle" /\ todo = <<>> /\ sent = 0 /\ session = 0 /\ rc = 0
  /\ ddr = [u \in 0 .. DdrUnits - 1 |-> Bare("fill")]
  /\ hs \in [magic : {"zero"} \cup IF setup.by = "sim" THEN {} ELSE {"deadbeef"},
            entry : {"junk"}, dtb : {"junk"}]
  /\ rom = [pc |-> IF setup.by = "sim" THEN "reset" ELSE ResetTarget, a2 |-> "junk", a1 |-> "junk"]
  /\ armed = FALSE /\ early = FALSE /\ resets = 0

-----------------------------------------------------------------------------
(* The simulator's main, up to the reset pulse.                            *)

Quit(code) == host' = "left" /\ rc' = code

\* Arguments, scopes and the DPI round trip, which leaves word 0 clear.
SimStart ==
  /\ setup.by = "sim" /\ host = "idle" /\ session < MaxSessions
  /\ session' = session + 1
  /\ IF ~request.fw.given /\ ~request.raw.given
     THEN Quit(1) /\ UNCHANGED <<todo, ddr>>
     ELSE /\ host' = "load" /\ todo' = Images(request) /\ UNCHANGED rc
          /\ ddr' = [ddr EXCEPT ![0] = Bare("zero")]
  /\ UNCHANGED <<setup, request, sent, hs, rom, armed, early, resets>>

\* load_blob_at without its test of the aperture's end (a mutant): the
\* backdoor drops the words past it.
FitsUpToBase(f) == f.at < DdrUnits

FitsAperture(f) == f.at + f.size <= DdrUnits

\* load_blob_at: a file that does not open or fit ends the program.
SimLoad ==
  /\ host = "load" /\ todo # <<>>
  /\ LET f == Head(todo)
     IN  IF f.opens /\ f.at >= 0 /\ FitsAperture(f)
         THEN /\ ddr' = Over(Parts(f)) /\ todo' = Tail(todo)
              /\ hs' = IF HsAt \in DOMAIN Parts(f)
                       THEN [magic |-> "junk", entry |-> "junk", dtb |-> "junk"] ELSE hs
              /\ UNCHANGED <<host, rc>>
         ELSE Quit(2) /\ UNCHANGED <<ddr, todo, hs>>
  /\ UNCHANGED <<setup, request, sent, session, rom, armed, early, resets>>

\* The magic with its bytes in the other order (a mutant).
SwappedMagic == [magic |-> "junk", entry |-> "fw", dtb |-> "dtb"]

Handshake == [magic |-> "deadbeef", entry |-> "fw", dtb |-> "dtb"]

\* The boot ROM goes into the SRAM and the handshake words into DDR.
SimBootrom ==
  /\ host = "load" /\ todo = <<>> /\ request.bootrom.given
  /\ IF request.bootrom.opens
     THEN /\ host' = "loaded" /\ hs' = Handshake /\ armed' = TRUE
          /\ ddr' = [ddr EXCEPT ![HsAt] = Bare("handshake")] /\ early' = setup.clears
          /\ UNCHANGED rc
     ELSE Quit(2) /\ UNCHANGED <<hs, armed, early, ddr>>
  /\ UNCHANGED <<setup, request, todo, sent, session, rom, resets>>

SimNoBootrom ==
  /\ host = "load" /\ todo = <<>> /\ ~request.bootrom.given
  /\ host' = "loaded"
  /\ UNCHANGED <<setup, request, todo, sent, session, ddr, hs, rom, armed, early, resets, rc>>

\* The trace files, which may not open.
SimTrace ==
  /\ host = "loaded"
  /\ \/ host' = "traced" /\ UNCHANGED rc
     \/ Quit(2)
  /\ UNCHANGED <<setup, request, todo, sent, session, ddr, hs, rom, armed, early, resets>>

\* The reset pulse.  Without a boot ROM the hart finds no code at the reset
\* vector, and traps for ever.
SimReset ==
  /\ host = "traced"
  /\ host' = "run"
  /\ rom' = [rom EXCEPT !.pc = IF ~request.bootrom.given THEN "lost" ELSE ResetTarget]
  /\ UNCHANGED <<setup, request, todo, sent, session, ddr, hs, armed, early, resets, rc>>

-----------------------------------------------------------------------------
(* jtag_load.tcl.  A session starts while the hart is still in the ROM,    *)
(* and not while it is about to leave for what the last session staged.    *)

\* The files of the calls of axi_write_file: the initramfs may be missing.
JtagImages(r) ==
  Named("fw", r.fw, FwAt) \o Named("kernel", r.kernel, KernelAt) \o Named("dtb", r.dtb, DtbAt)
    \o IF r.initrd.opens THEN Named("initrd", r.initrd, InitrdAt) ELSE <<>>

JtagStart ==
  /\ setup.by = "jtag" /\ host = "idle" /\ session < MaxSessions
  /\ rom.pc # "running" /\ ~armed
  /\ \E r \in JtagRequests :
       IF r.fw.opens /\ r.kernel.opens /\ r.dtb.opens
       THEN /\ request' = r /\ host' = "clear"
            /\ todo' = JtagImages(r)
       ELSE UNCHANGED <<setup, request, host, todo>>   \* ERROR: not found
  /\ session' = session + 1 /\ sent' = 0 /\ early' = FALSE
  /\ UNCHANGED <<setup, ddr, hs, rom, armed, resets, rc>>

JtagClear ==
  /\ host = "clear"
  /\ host' = "write"
  /\ hs' = [hs EXCEPT !.magic = "zero"]
  /\ UNCHANGED <<setup, request, todo, sent, session, ddr, rom, armed, early, resets, rc>>

\* A loader that loses the burst at the end of a file (a mutant).
FullBurstsLeft(f) == sent + 1 < f.size

BurstsLeft(f) == sent < f.size

\* One burst of axi_write_file.
JtagBurst ==
  /\ host = "write" /\ todo # <<>> /\ BurstsLeft(Head(todo))
  /\ sent' = sent + 1
  /\ LET u == Head(todo).at + sent
     IN  /\ ddr' = [ddr EXCEPT ![u] = Part(Head(todo).img, sent)]
         /\ hs' = IF u = HsAt THEN [magic |-> "junk", entry |-> "junk", dtb |-> "junk"] ELSE hs
  /\ UNCHANGED <<setup, request, host, todo, session, rom, armed, early, resets, rc>>

JtagNextFile ==
  /\ host = "write" /\ todo # <<>> /\ ~BurstsLeft(Head(todo))
  /\ todo' = Tail(todo) /\ sent' = 0
  /\ UNCHANGED <<setup, request, host, session, ddr, hs, rom, armed, early, resets, rc>>

\* The order in which a loader in a hurry arms (a mutant).
MagicFirst == <<"magic", "entry", "dtb">>

ArmOrder == <<"entry", "dtb", "magic">>

Clearing == {"clear magic", "clear entry", "clear dtb"}

\* axi_write_word for one handshake word, wherever the ROM is: staging takes
\* minutes and the clearing a few instructions, but nothing makes the one wait
\* for the other.
JtagArm ==
  /\ \/ host = "write" /\ todo = <<>> /\ sent' = 1
     \/ host = "arm" /\ sent' = sent + 1
  /\ LET word == ArmOrder[sent']
     IN  /\ hs' = [hs EXCEPT ![word] = Handshake[word]]
         /\ armed' = (armed \/ word = "magic")
  /\ early' = (early \/ rom.pc \in Clearing)
  /\ ddr' = [ddr EXCEPT ![HsAt] = Bare("handshake")]
  /\ host' = IF sent' = 3 THEN "idle" ELSE "arm"
  /\ UNCHANGED <<setup, request, todo, session, rom, resets, rc>>

-----------------------------------------------------------------------------
(* The boot ROM, one store or load at a time.                              *)

RomClears ==
  /\ \/ rom.pc = "clear magic" /\ hs' = [hs EXCEPT !.magic = "zero"]
                               /\ rom' = [rom EXCEPT !.pc = "clear entry"]
     \/ rom.pc = "clear entry" /\ hs' = [hs EXCEPT !.entry = "zero"]
                               /\ rom' = [rom EXCEPT !.pc = "clear dtb"]
     \/ rom.pc = "clear dtb" /\ hs' = [hs EXCEPT !.dtb = "zero"]
                             /\ rom' = [rom EXCEPT !.pc = "poll"]
  /\ armed' = (armed /\ rom.pc # "clear magic")
  /\ UNCHANGED <<hostVars, ddr, early, resets>>

RomPolls ==
  /\ rom.pc = "poll" /\ hs.magic = "deadbeef"
  /\ rom' = [rom EXCEPT !.pc = "take"]
  /\ UNCHANGED <<hostVars, ddr, hs, armed, early, resets>>

\* The acknowledging store, then the loads of the entry and the dtb.
RomTakes ==
  /\ rom.pc = "take"
  /\ hs' = [hs EXCEPT !.magic = "zero"]
  /\ rom' = [rom EXCEPT !.pc = "load entry"]
  /\ UNCHANGED <<hostVars, ddr, armed, early, resets>>

RomLoads ==
  /\ \/ rom.pc = "load entry" /\ rom' = [rom EXCEPT !.a2 = hs.entry, !.pc = "load dtb"]
     \/ rom.pc = "load dtb" /\ rom' = [rom EXCEPT !.a1 = hs.dtb, !.pc = "jump"]
  /\ UNCHANGED <<hostVars, ddr, hs, armed, early, resets>>

RomJumps ==
  /\ rom.pc = "jump"
  /\ rom' = [rom EXCEPT !.pc = "running"]
  /\ armed' = FALSE
  /\ UNCHANGED <<hostVars, ddr, hs, early, resets>>

\* What was booted uses DDR as it likes, the handshake words included.
OsScribbles ==
  /\ rom.pc = "running"
  /\ ddr' = [u \in 0 .. DdrUnits - 1 |-> Bare("os")]
  /\ \E m \in {"zero", "deadbeef"} : hs' = [magic |-> m, entry |-> "junk", dtb |-> "junk"]
  /\ UNCHANGED <<hostVars, rom, armed, early, resets>>

\* Between two sessions of the host the FPGA is programmed anew, as
\* reset_and_reload.tcl and boot_linux.sh have it, or BTN0 resets the hart.
BoardReset ==
  /\ setup.by = "jtag" /\ host = "idle" /\ resets < MaxResets
  /\ resets' = resets + 1
  /\ rom' = [pc |-> ResetTarget, a2 |-> "junk", a1 |-> "junk"]
  /\ armed' = FALSE
  /\ UNCHANGED <<hostVars, ddr, hs, early>>

HostNext == SimStart \/ SimLoad \/ SimBootrom \/ SimNoBootrom \/ SimTrace \/ SimReset
            \/ JtagStart \/ JtagClear \/ JtagBurst \/ JtagNextFile \/ JtagArm

\* The ROM runs unless the simulation it runs in is over.
RomNext ==
  /\ host # "left"
  /\ (RomClears \/ RomPolls \/ RomTakes \/ RomLoads \/ RomJumps)

BootNext == HostNext \/ RomNext \/ OsScribbles \/ BoardReset

\* The hart executes the ROM, and the host's scripts and calls run on.
BootFair == WF_bootVars(RomNext) /\ WF_bootVars(HostNext)

-----------------------------------------------------------------------------
(* Properties.                                                             *)

\* The state of the host, the words and the hart has its type.
BootTypeOK ==
  /\ setup \in Setups /\ request \in SimRequests \cup JtagRequests
  /\ host \in {"idle", "load", "loaded", "traced", "run", "left", "clear", "write", "arm"}
  /\ sent \in Nat /\ session \in 0 .. MaxSessions
  /\ DOMAIN ddr = 0 .. DdrUnits - 1
  /\ hs.magic \in {"zero", "deadbeef", "junk"}
  /\ hs.entry \in {"zero", "fw", "junk"} /\ hs.dtb \in {"zero", "dtb", "junk"}
  /\ rom.pc \in {"reset", "lost", "clear magic", "clear entry", "clear dtb", "poll", "take",
                 "load entry", "load dtb", "jump", "running"}
  /\ armed \in BOOLEAN /\ early \in BOOLEAN /\ resets \in 0 .. MaxResets

\* The hart leaves the ROM only on a magic word the host wrote since the last
\* reset: not on one that DDR kept from before, nor on the same one twice.
NoStaleBoot == rom.pc \in {"take", "load entry", "load dtb", "jump"} => armed

\* The images of the session, in the order in which the host stages them.
Loads == IF setup.by = "sim" THEN Images(request) ELSE JtagImages(request)

StagedLater(i, u) == \E j \in DOMAIN Loads : j > i /\ u \in Span(Loads[j])

HandshakeDue == setup.by = "jtag" \/ request.bootrom.given

\* All of the request is in DDR: a unit of an image gives way only to an image
\* staged after it or to the handshake words, which come last, and the
\* simulator's images are not cut off by the aperture.
Staged ==
  /\ \A i \in DOMAIN Loads : \A u \in Span(Loads[i]) \cap (0 .. DdrUnits - 1) :
       \/ StagedLater(i, u)
       \/ u = HsAt /\ HandshakeDue
       \/ ddr[u] = Parts(Loads[i])[u]
  /\ HandshakeDue => ddr[HsAt] = Bare("handshake")
  /\ setup.by = "sim" => \A i \in DOMAIN Loads : Loads[i].at >= 0 /\ FitsAperture(Loads[i])

\* The hart jumps to the entry the host wrote, with the device tree it wrote,
\* unless the host wrote them while the ROM had still to clear them; and then,
\* whenever the words were written, all the images of the session are in DDR.
\* A simulation reaches its clock loop only in such a state, boot ROM or not.
RunsWhatWasStaged ==
  /\ rom.pc = "jump" /\ ~early => rom.a2 = "fw" /\ rom.a1 = "dtb"
  /\ rom.pc = "jump" \/ (host = "run" /\ rom.pc # "running") => Staged

\* Once the host has armed the handshake the hart jumps, unless it is reset,
\* its simulation ends, or the host did not wait for the ROM to clear the words:
\* neither side clears the other's words for good.
ArmedBoots ==
  \A n \in 0 .. MaxResets :
    armed /\ resets = n ~> rom.pc = "running" \/ resets # n \/ host = "left" \/ early

\* "jtag_load: done. BootROM should now jump into OpenSBI": whenever the host
\* armed, the hart jumps there.
JumpsToEntry == rom.pc = "jump" => rom.a2 = "fw"

\* The handshake words are "past where kernel/dtb/initramfs can reach", and each
\* image is whole in DDR when a simulation starts.
StagedWhole ==
  host = "run" /\ rom.pc # "running" =>
    \A i \in DOMAIN Loads : \A u \in Span(Loads[i]) : ddr[u] = Parts(Loads[i])[u]

\* "The BootROM's polling loop fires immediately": with a boot ROM given, the
\* loop never finds the magic missing in a simulation.
PollFires == host = "run" /\ rom.pc = "poll" => hs.magic = "deadbeef"

\* The hart finds code at its reset vector.
NeverLost == rom.pc # "lost"
=============================================================================
