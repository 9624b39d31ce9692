----------------------------- MODULE MCSimMain -----------------------------
(***************************************************************************)
(* Instances of SimMain for TLC: an SRAM of four words at address 16, so   *)
(* that segments can lie below it, across its ends and above it.           *)
(***************************************************************************)
EXTENDS SimMain

MCSeg(paddr, vaddr, data, memsz) ==
  [load |-> TRUE, paddr |-> paddr, vaddr |-> vaddr, data |-> data, memsz |-> memsz]
MCNote(data) == [MCSeg(16, 16, data, 4) EXCEPT !.load = FALSE]
MCBytes(n) == [i \in 1 .. n |-> i]
MCElf(phdrs, symtabs) == [defect |-> "none", phdrs |-> phdrs, symtabs |-> symtabs]
MCTable(syms) == [linked |-> TRUE, syms |-> syms]
MCTohost(a) == [name |-> "tohost", value |-> a]

MCBad == { [MCElf(<<>>, <<>>) EXCEPT !.defect = d] : d \in Defects }

\* Text and data at a physical address of their own, tohost in the bss.
MCPlain == MCElf(<< MCSeg(16, 48, MCBytes(8), 16) >>, << MCTable(<< MCTohost(24) >>) >>)

\* No physical address, a note between the segments, the second one with tohost
\* in its file bytes and a tail past the end of the SRAM; two tohosts and an
\* unnamed symbol in the first table, another in a second table.
MCSplit ==
  MCElf(<< MCSeg(0, 12, MCBytes(8), 8), MCNote(MCBytes(4)), MCSeg(24, 0, <<0, 0, 0, 0, 5>>, 5),
           MCSeg(28, 0, <<6, 7, 8, 9>>, 12) >>,
        << MCTable(<< MCTohost(16), [name |-> "", value |-> 20], MCTohost(24) >>),
           MCTable(<< MCTohost(20) >>) >>)

\* No symbols a poll could use, and a segment that is all bss.
MCMute == MCElf(<< MCSeg(16, 16, <<>>, 10) >>,
                << [linked |-> FALSE, syms |-> << MCTohost(16) >>] >>)

\* tohost outside the SRAM.
MCOutside == MCElf(<< MCSeg(16, 16, MCBytes(4), 4) >>, << MCTable(<< MCTohost(40) >>) >>)

\* Initialised data of six bytes, and a bss behind it with tohost at its end.
MCOdd == MCElf(<< MCSeg(16, 16, MCBytes(6), 12) >>, << MCTable(<< MCTohost(24) >>) >>)

\* A segment that begins in the middle of a word, behind one that does not and
\* whose words of zeros do not reach its last byte.
MCShifted ==
  MCElf(<< MCSeg(16, 16, MCBytes(1), 6), MCSeg(26, 26, MCBytes(3), 4) >>,
        << MCTable(<< MCTohost(28) >>) >>)

MCElfs == MCBad \cup {MCPlain, MCSplit, MCMute, MCOutside, MCOdd, MCShifted}
MCOddElfs == {MCOdd, MCShifted}

MCArgs == { [fault |-> f, timeout |-> t, quiet |-> q] :
              f \in {"none"}, t \in {1, 3, 5}, q \in BOOLEAN }
          \cup { [fault |-> f, timeout |-> 3, quiet |-> FALSE] : f \in {"usage", "trace", "scope"} }

MCJunk == <<7, 7, 7, 7>>
MCTohostWords == {Zero, One, <<3, 0, 0, 0>>}
=============================================================================
