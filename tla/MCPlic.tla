------------------------------- MODULE MCPlic -------------------------------
(***************************************************************************)
(* Plic for TLC: the three sources and two contexts of the system.         *)
(***************************************************************************)
EXTENDS Plic, TLC

\* The contexts are alike.
MCSymmetry == Permutations(Ctx)
=============================================================================
