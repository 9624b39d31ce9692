------------------------------ MODULE CacheSets ------------------------------
(***************************************************************************)
(* What rtl/cache/icache.sv and rtl/cache/dcache.sv share: how an address  *)
(* names a word of a line of a set, and the tree pseudo-LRU replacement of *)
(* a set's four ways.                                                      *)
(***************************************************************************)
EXTENDS Naturals

CONSTANTS Tag, Set, LineWords

ASSUME GeometryAssumption == LineWords \in Nat \ {0}

Woff == 0..(LineWords - 1)

(* The low bits of a fill counter, which runs to LineWords: a word's place. *)
Low(n) == n % LineWords

Addr == [tag : Tag, set : Set, woff : Woff]

Way  == 0..3
Plru == [0..2 -> BOOLEAN]

(* Bit 2 chooses the half, bits 1 and 0 the way in the left and right one. *)
plru_pick(p) == IF p[2] THEN (IF p[0] THEN 3 ELSE 2) ELSE (IF p[1] THEN 1 ELSE 0)

(* The bits on the path to the way just used point away from it.           *)
plru_update(p, way) ==
    IF way \in {0, 1} THEN [p EXCEPT ![2] = TRUE, ![1] = (way = 0)]
                      ELSE [p EXCEPT ![2] = FALSE, ![0] = (way = 2)]

PlruReset == [b \in 0..2 |-> FALSE]
=============================================================================
