------------------------------ MODULE MCDcache ------------------------------
(***************************************************************************)
(* An instance of Dcache for TLC: one set, five lines of two words, so     *)
(* that the fifth line replaces one of the four ways.                      *)
(***************************************************************************)
EXTENDS Dcache

CONSTANTS lo, hi

MCLane == {lo, hi}
MCAt(t, o) == [tag |-> t, set |-> 0, woff |-> o]

\* One word of every line is loaded, both of the line that is stored to.
MCLoads == { [addr |-> a, wen |-> FALSE, wdata |-> [l \in MCLane |-> 0], wmask |-> {}] :
               a \in { MCAt(t, t % 2) : t \in Tag } \cup {MCAt(0, 1)} }

\* A store of the low byte and one of the word.
MCStores == { [addr |-> MCAt(0, 1), wen |-> TRUE, wdata |-> [l \in MCLane |-> b],
               wmask |-> IF b = 0 THEN {lo} ELSE MCLane] : b \in Byte }

MCWalkAddr == {MCAt(0, 1)}

\* Neighbouring words, and the words of neighbouring lines, differ.
MCSram0 == [a \in Addr |-> [l \in MCLane |-> (a.tag + a.woff) % 2]]
MCTagRam0 == [w \in Way |-> [s \in Set |-> 0]]
MCDataRam0 == [w \in Way |-> [s \in Set |-> [o \in Woff |-> [l \in MCLane |-> 0]]]]
=============================================================================
