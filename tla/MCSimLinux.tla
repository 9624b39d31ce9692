---------------------------- MODULE MCSimLinux -----------------------------
(***************************************************************************)
(* Instances of SimLinux for TLC.  DDR has eight units: the firmware's,    *)
(* two for the kernel, one for the device tree, two for the initramfs, and *)
(* two from the handshake words to the end.  A kernel of four units covers *)
(* the device tree and meets the initramfs, one of three reaches the       *)
(* handshake words.  The core uses two addresses, of which one window      *)
(* traces one.                                                             *)
(***************************************************************************)
EXTENDS SimLinux

MCXlate == [a \in Addr |-> a + 10]
MCWindow(from, to, pamin, pamax, timeout) ==
  [tfrom |-> from, tto |-> to, mtpamin |-> pamin, mtpamax |-> pamax, timeout |-> timeout]
MCWindows == { MCWindow(0, 99, 11, 11, 10), MCWindow(3, 6, 0, 99, 9), MCWindow(0, 99, 0, 99, 1) }
MCShort == MCWindow(0, 99, 0, 99, 2)

MCAsk(fw, kernel, dtb, initrd, bootrom, win) ==
  [fw |-> fw, kernel |-> kernel, dtb |-> dtb, initrd |-> initrd, raw |-> none,
   bootrom |-> bootrom, win |-> win]
MCMissing == [File(1) EXCEPT !.opens = FALSE]
MCRaw(size, at) == [MCAsk(none, none, none, none, none, MCShort)
                      EXCEPT !.raw = [File(size) EXCEPT !.at = at]]

\* Everything or only some of the files, one missing, one too long for DDR;
\* then one complete set, run for as long as each of the windows says.
MCSimRequests ==
  { MCAsk(File(1), k, d, i, b, MCShort) : k \in {none, File(2), File(4), MCMissing},
      d \in {File(1), MCMissing}, i \in {none, File(1), File(3), File(5)}, b \in {none, File(1), MCMissing} }
  \cup { MCAsk(none, File(1), File(1), none, b, MCShort) : b \in {none, File(1)} }
  \cup { [MCRaw(s, a) EXCEPT !.bootrom = b] :
           s \in {0, 2, 3}, a \in {-1, 0, 1, 5, 7}, b \in {none, File(1)} }
  \cup { MCAsk(File(1), File(2), File(1), none, none, w) : w \in MCWindows }

MCJtagRequests ==
  { MCAsk(File(1), k, d, i, none, MCShort) : k \in {File(2), File(4)},
      d \in {File(1), MCMissing}, i \in {MCMissing, File(1), File(3)} }

MCSetups == { [by |-> "sim", clears |-> FALSE], [by |-> "sim", clears |-> TRUE],
              [by |-> "jtag", clears |-> TRUE] }
MCBoard == { [by |-> "jtag", clears |-> TRUE] }
MCSimSetup == { [by |-> "sim", clears |-> FALSE] }
MCNewRom == { [by |-> "sim", clears |-> TRUE] }

MCLongInitrd == {MCAsk(File(1), File(2), File(1), File(3), File(1), MCShort)}
MCWithRom == {MCAsk(File(1), File(2), File(1), none, File(1), MCShort)}
MCWithoutRom == {MCAsk(File(1), File(2), File(1), none, none, MCShort)}
=============================================================================
