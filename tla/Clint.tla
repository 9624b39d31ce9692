------------------------------- MODULE Clint -------------------------------
(***************************************************************************)
(* The core-local interruptor (src/rtl/soc/clint.sv): a counter and a      *)
(* comparand of two halves each, which programs reach a half at a time     *)
(* while the counter runs, and the software interrupt bit.                 *)
(*                                                                         *)
(* A half is a number below Half (2^32 in the code).  Accesses are of      *)
(* whole words, as every program of the repository makes them; the byte    *)
(* mask is left out.                                                       *)
(***************************************************************************)
EXTENDS Integers

CONSTANT Half

ASSUME HalfAssumption == Half \in Nat \ {0, 1}

VARIABLES
  mtime,      \* [hi, lo]
  mtimecmp,   \* [hi, lo]
  msip,
  rsp         \* what the last edge registered: [valid, rdata, fault]

clint == <<mtime, mtimecmp, msip, rsp>>

Halves == 0 .. Half - 1
Dword == [hi : Halves, lo : Halves]

\* The offsets that hit a register.
Offset == {"msip", "tcmp_lo", "tcmp_hi", "mtime_lo", "mtime_hi"}

Read(off) == [valid |-> TRUE, wen |-> FALSE, off |-> off, wdata |-> 0]
Store(off, w) == [valid |-> TRUE, wen |-> TRUE, off |-> off, wdata |-> w]
NoRequest == [valid |-> FALSE, wen |-> FALSE, off |-> "msip", wdata |-> 0]

Before(a, b) == a.hi < b.hi \/ (a.hi = b.hi /\ a.lo < b.lo)

\* A comparison that a late reader misses, and one of the high halves only
\* (two mutants).
ReachedNow(now, cmp) == now = cmp
HighReached(now, cmp) == now.hi >= cmp.hi

Reached(now, cmp) == ~Before(now, cmp)

mti == Reached(mtime, mtimecmp)
msi == msip

Counted(t) ==
  IF t.lo < Half - 1 THEN [t EXCEPT !.lo = @ + 1]
  ELSE [hi |-> IF t.hi < Half - 1 THEN t.hi + 1 ELSE 0, lo |-> 0]

\* A bit that stores can only set (a mutant).
SetMsip(w) == msip \/ w % 2 = 1

WrittenMsip(w) == w % 2 = 1

InitClint ==
  /\ mtime = [hi |-> 0, lo |-> 0]
  /\ mtimecmp = [hi |-> Half - 1, lo |-> Half - 1]
  /\ msip = FALSE
  /\ rsp = [valid |-> FALSE, rdata |-> 0, fault |-> FALSE]

Register(off) ==
  CASE off = "msip" -> IF msip THEN 1 ELSE 0
    [] off = "tcmp_lo" -> mtimecmp.lo
    [] off = "tcmp_hi" -> mtimecmp.hi
    [] off = "mtime_lo" -> mtime.lo
    [] off = "mtime_hi" -> mtime.hi
    [] OTHER -> 0

\* A clock edge with request r, which is always accepted.  A store to a half
\* of mtime overrides what the count would have left in that half.
Edge(r) ==
  LET writes(off) == r.valid /\ r.wen /\ r.off = off
  IN  /\ mtime' = [hi |-> IF writes("mtime_hi") THEN r.wdata ELSE Counted(mtime).hi,
                   lo |-> IF writes("mtime_lo") THEN r.wdata ELSE Counted(mtime).lo]
      /\ mtimecmp' = [hi |-> IF writes("tcmp_hi") THEN r.wdata ELSE mtimecmp.hi,
                      lo |-> IF writes("tcmp_lo") THEN r.wdata ELSE mtimecmp.lo]
      /\ msip' = IF writes("msip") THEN WrittenMsip(r.wdata) ELSE msip
      /\ rsp' = [valid |-> r.valid,
                 rdata |-> IF r.valid /\ ~r.wen THEN Register(r.off) ELSE 0,
                 fault |-> r.valid /\ r.off \notin Offset]

ClintTypeOK ==
  /\ mtime \in Dword /\ mtimecmp \in Dword /\ msip \in BOOLEAN
  /\ rsp \in [valid : BOOLEAN, rdata : Nat, fault : BOOLEAN]
=============================================================================
