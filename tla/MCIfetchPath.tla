---------------------------- MODULE MCIfetchPath ----------------------------
(***************************************************************************)
(* Instances of IfetchPath for TLC.                                        *)
(***************************************************************************)
EXTENDS IfetchPath

CONSTANTS p1, p2, a1, a2, fs, fd, fk

MCPage == {p1, p2}
MCBareFrame == [p \in MCPage |-> IF p = p1 THEN fs ELSE fd]

\* Straight-line code runs on from each page to the other.
MCRunOn == [p \in MCPage |-> IF p = p1 THEN p2 ELSE p1]

Kernel(f) == [leaf |-> TRUE, frame |-> f, x |-> TRUE, u |-> FALSE]
Unmapped == [leaf |-> FALSE, frame |-> fs, x |-> FALSE, u |-> FALSE]

MCMapping == {Kernel(fs), Kernel(fd), Unmapped}
MCRemaps == {Kernel(fs), Kernel(fd), Kernel(fk)}
\* The address spaces disagree on p1; in MCHole nothing is mapped at p2.
MCInit == [k \in Key |-> IF k = <<a1, p1>> THEN Kernel(fs) ELSE Kernel(fd)]
MCHole == [k \in Key |-> IF k[2] = p1 THEN Kernel(fs) ELSE Unmapped]

\* Translation is on, in any address space or in the first.
MCSatpOn == [on : {TRUE}, asid : Asid]
MCSatpOne == [on : {TRUE}, asid : {a1}]
=============================================================================
