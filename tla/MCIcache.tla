------------------------------ MODULE MCIcache ------------------------------
(***************************************************************************)
(* An instance of Icache for TLC: one set, five lines of four words, so     *)
(* that the fifth line replaces one of the four ways.                      *)
(***************************************************************************)
EXTENDS Icache, TLC

CONSTANTS t0, t1, t2, t3, t4

\* The line that is stored to, and four others, alike, to drive it out.
MCOthers == {t1, t2, t3, t4}
MCSymmetry == Permutations(MCOthers)
MCTag == {t0} \cup MCOthers

MCAt(t, o) == [tag |-> t, set |-> 0, woff |-> o]
MCNoAddr == MCAt(t0, 0)
MCFetchAddr == { MCAt(t, IF t = t0 THEN 0 ELSE 1) : t \in Tag }
MCStoreAddr == {MCAt(t0, 0)}

\* Neighbouring words, and the same words of the two kinds of lines, differ.
MCSram0 == [a \in Addr |-> (a.woff + IF a.tag = t0 THEN 1 ELSE 0) % 2]
MCTagRam0 == [w \in Way |-> [s \in Set |-> t0]]
MCDataRam0 == [w \in Way |-> [s \in Set |-> [o \in Woff |-> 0]]]

\* States that differ only in what an invalid way holds behave alike.
Live(s) == valid_bits[s] \cup
           (IF s # set THEN {} ELSE valid_rd \cup (CASE state = "FILL" -> {victim_way}
                                                     [] state = "DONE" -> {rsp_way}
                                                     [] OTHER -> {}))
MCView == <<fsm, valid_bits, plru_ram, sram, a_rsp, core, since,
            [s \in Set |-> [w \in Live(s) |-> <<tag_ram[w][s], data_ram[w][s]>>]]>>
=============================================================================
