------------------------------ MODULE IrqDemos ------------------------------
(***************************************************************************)
(* The programs that take the CLINT's interrupts: src/sw/tests/c/          *)
(* irq_timer.c, of which irq_wfi.c is the same with a wfi in its loop and  *)
(* no look at the cause, and irq_swi.c.  Main and its handler run on one   *)
(* hart against the counter: every step takes one clock cycle, and up to   *)
(* MaxIdle more pass before it.  A load or store waits for its response,   *)
(* which comes in the cycle after the request.                             *)
(***************************************************************************)
EXTENDS Clint

CONSTANTS
  Period,    \* TICK_PERIOD; the handler is over before it is
  Target,    \* TARGET_TICKS
  MaxIdle    \* bound on the cycles the hart takes for what is not a step

ASSUME DemoAssumption ==
  /\ Period \in 1 .. Half - 1 /\ Target \in Nat \ {0} /\ MaxIdle \in Nat

VARIABLES
  demo,      \* "timer" or "swi"
  pc,        \* the access or instruction that is next
  asked,     \* the access is out, its response is due
  idle,      \* cycles passed since the last step
  handler,   \* the hart is in trap_handler
  back,      \* where main goes on after it
  MIE,       \* mstatus.MIE
  hi1, lo,   \* read_mtime's locals
  when,      \* arm_mtimecmp's argument
  irq_count, last_cause,
  exit,      \* the code stored to the exit register, or -1
  began,     \* mtime when read_mtime was called
  read       \* what it returned

software == <<demo, pc, asked, idle, handler, back, MIE, hi1, lo, when,
              irq_count, last_cause, exit, began, read>>
demoVars == <<clint, software>>

Zero == [hi |-> 0, lo |-> 0]

\* t + n for n below Half.
Plus(t, n) ==
  IF t.lo + n < Half THEN [t EXCEPT !.lo = @ + n]
  ELSE [hi |-> (t.hi + 1) % Half, lo |-> t.lo + n - Half]

\* An arm_mtimecmp that starts with the new high half (a mutant).
NewHalf == when.hi

FarFuture == Half - 1

\* The access each place of the programs makes.
Access ==
  [hi1 |-> Read("mtime_hi"), lo |-> Read("mtime_lo"), hi2 |-> Read("mtime_hi"),
   far |-> Store("tcmp_hi", FarFuture),
   set_lo |-> Store("tcmp_lo", when.lo), set_hi |-> Store("tcmp_hi", when.hi),
   raise |-> Store("msip", 1), clear |-> Store("msip", 0)]

DemoInit ==
  /\ InitClint
  /\ demo \in {"timer", "swi"}
  /\ pc = IF demo = "timer" THEN "hi1" ELSE "enable"
  /\ asked = FALSE /\ idle = 0 /\ handler = FALSE /\ back = "spin" /\ MIE = FALSE
  /\ hi1 = 0 /\ lo = 0 /\ when = Zero /\ irq_count = 0 /\ last_cause = "none" /\ exit = -1
  /\ began = Zero /\ read = Zero

Request ==
  /\ ~asked /\ pc \in DOMAIN Access
  /\ Edge(Access[pc])
  /\ asked' = TRUE /\ idle' = 0
  /\ UNCHANGED <<demo, pc, handler, back, MIE, hi1, lo, when, irq_count, last_cause, exit,
                 began, read>>

\* A read_mtime that trusts its first try (a mutant).
Trusts(h1, h2) == TRUE

Agree(h1, h2) == h1 = h2

\* The response: read_mtime reads on, tries again or returns to arm_mtimecmp,
\* arm_mtimecmp stores on or returns.
Response ==
  /\ asked /\ rsp.valid
  /\ Edge(NoRequest)
  /\ asked' = FALSE /\ idle' = 0
  /\ hi1' = IF pc = "hi1" THEN rsp.rdata ELSE hi1
  /\ lo' = IF pc = "lo" THEN rsp.rdata ELSE lo
  /\ IF pc = "hi2" /\ Agree(hi1, rsp.rdata)
     THEN read' = [hi |-> hi1, lo |-> lo] /\ when' = Plus(read', Period)
     ELSE UNCHANGED <<read, when>>
  /\ pc' = CASE pc = "hi1" -> "lo"
             [] pc = "lo" -> "hi2"
             [] pc = "hi2" -> IF Agree(hi1, rsp.rdata) THEN "far" ELSE "hi1"
             [] pc = "far" -> "set_lo"
             [] pc = "set_lo" -> "set_hi"
             [] pc = "set_hi" -> IF handler THEN "mret" ELSE "enable"
             [] pc = "raise" -> "spin"
             [] pc = "clear" -> "mret"
  /\ UNCHANGED <<demo, handler, back, MIE, irq_count, last_cause, exit, began>>

\* mstatus.MIE is set, and cleared once the loop is over.
Enable ==
  /\ pc = "enable"
  /\ MIE' = TRUE /\ pc' = IF demo = "timer" THEN "spin" ELSE "raise"
  /\ Edge(NoRequest) /\ idle' = 0
  /\ UNCHANGED <<demo, asked, handler, back, hi1, lo, when, irq_count, last_cause, exit,
                 began, read>>

Enough == irq_count >= (IF demo = "timer" THEN Target ELSE 1)

LeaveLoop ==
  /\ pc = "spin" /\ Enough
  /\ pc' = "disable"
  /\ Edge(NoRequest) /\ idle' = 0
  /\ UNCHANGED <<demo, asked, handler, back, MIE, hi1, lo, when, irq_count, last_cause, exit,
                 began, read>>

Disable ==
  /\ pc = "disable"
  /\ MIE' = FALSE /\ pc' = "exit"
  /\ Edge(NoRequest) /\ idle' = 0
  /\ UNCHANGED <<demo, asked, handler, back, hi1, lo, when, irq_count, last_cause, exit,
                 began, read>>

\* The cause each program enables and expects.
Expected == IF demo = "timer" THEN "mti" ELSE "msi"

Exit ==
  /\ pc = "exit" /\ exit = -1
  /\ exit' = IF last_cause = Expected THEN 0 ELSE 1
  /\ Edge(NoRequest) /\ idle' = 0
  /\ UNCHANGED <<demo, pc, asked, handler, back, MIE, hi1, lo, when, irq_count, last_cause,
                 began, read>>

Pending == MIE /\ ~handler /\ IF Expected = "mti" THEN mti ELSE msi

\* The interrupt is taken between two instructions of main.
Enter ==
  /\ ~asked /\ Pending
  /\ handler' = TRUE /\ back' = pc /\ MIE' = FALSE
  /\ pc' = "handle"
  /\ Edge(NoRequest) /\ idle' = 0
  /\ UNCHANGED <<demo, asked, hi1, lo, when, irq_count, last_cause, exit, began, read>>

Handle ==
  /\ pc = "handle"
  /\ last_cause' = Expected /\ irq_count' = irq_count + 1
  /\ pc' = IF demo = "timer" THEN "hi1" ELSE "clear"
  /\ began' = mtime
  /\ Edge(NoRequest) /\ idle' = 0
  /\ UNCHANGED <<demo, asked, handler, back, MIE, hi1, lo, when, exit, read>>

LeaveHandler ==
  /\ pc = "mret"
  /\ handler' = FALSE /\ MIE' = TRUE /\ pc' = back
  /\ Edge(NoRequest) /\ idle' = 0
  /\ UNCHANGED <<demo, asked, back, hi1, lo, when, irq_count, last_cause, exit, began, read>>

\* A cycle without a step.  The loop takes any number of them, unless an
\* interrupt waits or the loop is over.
Idle ==
  /\ ~asked /\ exit = -1
  /\ \/ idle < MaxIdle /\ idle' = idle + 1
     \/ pc = "spin" /\ ~Enough /\ ~Pending /\ idle' = 0
  /\ Edge(NoRequest)
  /\ UNCHANGED <<demo, pc, asked, handler, back, MIE, hi1, lo, when, irq_count, last_cause,
                 exit, began, read>>

DemoNext == Request \/ Response \/ Enable \/ LeaveLoop \/ Disable \/ Exit
            \/ Enter \/ Handle \/ LeaveHandler \/ Idle

DemoSpec == DemoInit /\ [][DemoNext]_demoVars

\* The clock runs, and the hart with it.
FairSpec == DemoSpec /\ WF_demoVars(DemoNext)

-----------------------------------------------------------------------------
(* Properties.                                                             *)

\* The program's and the CLINT's state has its type.
DemoTypeOK ==
  /\ ClintTypeOK
  /\ demo \in {"timer", "swi"}
  /\ pc \in DOMAIN Access \cup {"enable", "spin", "disable", "exit", "handle", "mret"}
  /\ asked \in BOOLEAN /\ idle \in 0 .. MaxIdle /\ handler \in BOOLEAN /\ MIE \in BOOLEAN
  /\ hi1 \in Halves /\ lo \in Halves /\ when \in Dword /\ began \in Dword /\ read \in Dword
  /\ irq_count \in Nat /\ exit \in {-1, 0, 1}

\* read_mtime, putting two halves of a running counter together, returns a time
\* between its call and its return.
ReadsBetween == pc = "far" /\ ~asked => ~Before(read, began) /\ ~Before(mtime, read)

\* From the first store of arm_mtimecmp until the next time it is called the
\* timer's line is up only at the time it was armed for or later: it is not up
\* between the stores, with one half of the new time and one of the old.
QuietWhileArming ==
  /\ DemoTypeOK
  /\ pc \in {"set_lo", "set_hi"} /\ mti => ~Before(mtime, when)
  /\ MIE /\ demo = "timer" => (mti <=> ~Before(mtime, when))

\* A tick is taken no earlier than a period after the handler before it read
\* the time, and a software interrupt once for the store that raised it.
TicksOnTime ==
  [][ handler' /\ ~handler =>
        IF demo = "timer" THEN ~Before(mtime, Plus(read, Period)) ELSE irq_count = 0 ]_demoVars

\* Both programs end with PASS.
Passes == <>(exit = 0)
=============================================================================
