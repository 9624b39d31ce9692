----------------------------- MODULE Freertos ------------------------------
(***************************************************************************)
(* The FreeRTOS demo (src/sw/freertos/main.c) over the polled UART driver  *)
(* (src/sw/common/uartlite.h) and the exit register (src/sw/common/mmio.h):*)
(* main starts two tasks, hello and blink, that print lines and sleep; the *)
(* kernel, which is not in the repository, is a preemptive scheduler with  *)
(* fixed priorities and timed delays, configured by FreeRTOSConfig.h.      *)
(*                                                                         *)
(* A step is one poll of the UART's status or one write to its FIFO.  The  *)
(* constant strings of a line are one token each, its number is printed    *)
(* digit by digit.  Time advances by periods of 250 ms.                    *)
(***************************************************************************)
EXTENDS Integers, SequencesExt

CONSTANTS
  Depth,       \* the entries of the transmit FIFO
  Base,        \* the base put_dec prints in, 10 in the code
  Target,      \* the count at which hello ends the program, 10 in the code
  Wrap,        \* the numbers an unsigned counter has
  Heaps,       \* the words the heap may have, 2048 in the code
  Tcb          \* the words a task takes of it besides its stack

Kinds == {"assert", "exception", "interrupt"}
Task == {"hello", "blink"}
Actor == Task \cup {"main", "trap"}

ASSUME FreertosAssumption ==
  /\ Depth \in Nat \ {0} /\ Base \in Nat \ {0, 1}
  /\ Target \in 1 .. Wrap - 1 /\ Wrap \in Nat
  /\ Heaps \subseteq Nat /\ Tcb \in Nat

VARIABLES
  build,     \* [fpga, prompt]: compiled with FREERTOS_FPGA, on a UART with a
             \* FIFO; lines are printed faster than a period passes
  heap,      \* the words of the heap
  on,        \* the scheduler runs
  ready,     \* the tasks that are neither waiting for time nor not yet created
  wake,      \* the periods a waiting task still waits
  pc,        \* of each actor: poll, write, after
  line,      \* the tokens an actor has still to print
  then,      \* what an actor does after them: "loop" or the code it exits with
  n,         \* the tasks' counters
  fifo,      \* entries in the transmit FIFO
  lost,      \* the actors that wrote a byte to a full FIFO
  cur,       \* tokens that reached the UART since a task's line began, as long
             \* as nothing breaks into the line
  told,      \* the number the next line of a task should have
  since,     \* lines a task has completed in this period, counted up to 2
  even,      \* an even number of periods has passed
  exit,      \* the codes stored to the exit register, in order
  fault      \* the fault that struck, or "none"

vars == <<build, heap, on, ready, wake, pc, line, then, n, fifo, lost, cur, told,
          since, even, exit, fault>>
uart == <<fifo, lost, cur, told, since>>

-----------------------------------------------------------------------------
(* What is printed.                                                        *)

Tok(a, what) == [by |-> a, what |-> what, digit |-> 0]
Digit(a, d) == [by |-> a, what |-> "digit", digit |-> d]

\* The digits put_dec takes off a number, the last one first.
Buf[v \in 0 .. Wrap] ==
  IF v = 0 THEN <<>> ELSE <<v % Base>> \o Buf[v \div Base]

\* put_dec without its case for zero (a mutant).
NoZero(v) == Reverse(Buf[v])

put_dec(v) == IF v = 0 THEN <<0>> ELSE Reverse(Buf[v])

Line(t, v) ==
  LET ds == put_dec(v)
  IN  <<Tok(t, "open")>> \o [i \in DOMAIN ds |-> Digit(t, ds[i])] \o <<Tok(t, "close")>>

\* The number that the digits ds write.
Value(ds) ==
  LET upto[i \in 0 .. Len(ds)] == IF i = 0 THEN 0 ELSE upto[i - 1] * Base + ds[i].digit
  IN  upto[Len(ds)]

Complete(s, t) == s # <<>> /\ Last(s) = Tok(t, "close")

\* s is a line of t or the beginning of one, with nothing else in it, and has
\* the number v.
Fits(s, t, v) ==
  /\ \A i \in DOMAIN s :
       s[i].by = t /\ s[i].what = (IF i = 1 THEN "open"
                                 ELSE IF i = Len(s) /\ Complete(s, t) THEN "close" ELSE "digit")
  /\ Complete(s, t) =>
       LET ds == SubSeq(s, 2, Len(s) - 1)
       IN  ds # <<>> /\ Value(ds) = v /\ (Head(ds).digit = 0 => Len(ds) = 1)

\* The tokens since t's line began, once another reaches the UART; a complete
\* line stands until the next begins.
Seen(s, t, tok) ==
  IF s = <<>> \/ Complete(s, t)
  THEN IF tok = Tok(t, "open") THEN <<tok>> ELSE s
  ELSE Append(s, tok)

-----------------------------------------------------------------------------
(* The processor.                                                          *)

\* Two tasks of one priority, between which the kernel's time slices would
\* alternate (a mutant).
EqualPriority(t) == 1

Priority(t) == IF t = "hello" THEN 2 ELSE 1

\* The exit register ends a simulation; on the FPGA the caller only spins.
Halted == exit # <<>> /\ ~build.fpga

\* configUSE_PREEMPTION: a ready task runs unless one of higher priority is.
Running(a) ==
  /\ ~Halted
  /\ CASE fault \in {"exception", "interrupt"} -> a = "trap"
       [] ~on -> a = "main"
       [] OTHER -> a \in ready /\ \A t \in ready : Priority(t) <= Priority(a)

\* Whom no task preempts while it prints.
Alone(a) == a # "blink" \/ build.prompt

TxFull == build.fpga /\ fifo = Depth

\* uartlite_putc that writes without looking (a mutant).
WritesAnyway == TRUE

PollSeesRoom == ~TxFull

\* uartlite_putc: the poll that ends its loop, then the write.
Poll(a) ==
  /\ Running(a) /\ pc[a] = "poll" /\ line[a] # <<>>
  /\ PollSeesRoom
  /\ pc' = [pc EXCEPT ![a] = "write"]
  /\ UNCHANGED <<build, heap, on, ready, wake, line, then, n, uart, even, exit, fault>>

Write(a) ==
  /\ Running(a) /\ pc[a] = "write"
  /\ LET tok == Head(line[a])
         ends == a \in Task /\ tok.what = "close"
         seen(t) == fault = "none" /\ Alone(t) /\ ~TxFull
     IN  /\ lost' = IF TxFull THEN lost \cup {a} ELSE lost
         /\ fifo' = IF build.fpga /\ ~TxFull THEN fifo + 1 ELSE fifo
         /\ cur' = [t \in Task |-> IF seen(t) THEN Seen(cur[t], t, tok) ELSE cur[t]]
         /\ told' = [t \in Task |->
                       IF tok = Tok(t, "open") /\ seen(t) /\ Complete(cur[t], t)
                       THEN (told[t] + 1) % Wrap ELSE told[t]]
         /\ since' = IF ends THEN [since EXCEPT ![a] = IF @ < 2 THEN @ + 1 ELSE @] ELSE since
  /\ line' = [line EXCEPT ![a] = Tail(@)]
  /\ pc' = [pc EXCEPT ![a] = IF Tail(line[a]) = <<>> THEN "after" ELSE "poll"]
  /\ UNCHANGED <<build, heap, on, ready, wake, then, n, even, exit, fault>>

\* The UART sends what is in its FIFO.
Drain ==
  /\ build.fpga /\ fifo > 0
  /\ fifo' = fifo - 1
  /\ UNCHANGED <<build, heap, on, ready, wake, pc, line, then, n, lost, cur, told, since,
                 even, exit, fault>>

-----------------------------------------------------------------------------
(* The program.                                                            *)

\* With a UART or a processor so slow that a period passes within the lines of
\* a round, or without.
Builds == [fpga : BOOLEAN, prompt : BOOLEAN]

Init ==
  /\ build \in Builds
  /\ heap \in Heaps /\ on = FALSE /\ ready = {} /\ wake = [t \in Task |-> 0]
  /\ pc = [a \in Actor |-> "poll"]
  /\ line = [a \in Actor |-> IF a = "main" THEN <<Tok("main", "banner")>>
                             ELSE IF a \in Task THEN Line(a, 0) ELSE <<>>]
  /\ then = [a \in Actor |-> "loop"]
  /\ n = [t \in Task |-> 0]
  /\ fifo = 0 /\ lost = {} /\ cur = [t \in Task |-> <<>>]
  /\ told = [t \in Task |-> 0] /\ since = [t \in Task |-> 0] /\ even = TRUE
  /\ exit = <<>> /\ fault = "none"

\* The kernel allocates a task's stack and its control block, or neither.
Cost(t) == Tcb + (IF t = "idle" THEN 128 ELSE 256)
After(room, t) == IF room >= Cost(t) THEN room - Cost(t) ELSE room

HasHello == heap >= Cost("hello")
HasBlink == After(heap, "hello") >= Cost("blink")
HasIdle == After(After(heap, "hello"), "blink") >= Cost("idle")

\* xTaskCreate's result is ignored: a task there is no room for is left out.
Created == { t \in Task : IF t = "hello" THEN HasHello ELSE HasBlink }

\* vAssertCalled in an actor: it prints and exits from there.
Asserts(a) ==
  /\ fault' = "assert"
  /\ line' = [line EXCEPT ![a] = <<Tok(a, "ASSERT")>>]
  /\ pc' = [pc EXCEPT ![a] = "poll"]
  /\ then' = [then EXCEPT ![a] = "2"]

\* The end of main: it creates the tasks and starts the scheduler, which asserts
\* that there was room for the idle task behind them.
StartScheduler ==
  /\ Running("main") /\ pc["main"] = "after" /\ then["main"] = "loop"
  /\ IF HasIdle
     THEN on' = TRUE /\ ready' = Created /\ UNCHANGED <<pc, line, then, fault>>
     ELSE Asserts("main") /\ UNCHANGED <<on, ready>>
  /\ UNCHANGED <<build, heap, wake, n, uart, even, exit>>

\* vTaskDelay at the end of a round: the task waits d periods and then prints
\* the next line.
DelayThen(t, d) ==
  /\ ready' = IF d = 0 THEN ready ELSE ready \ {t}
  /\ wake' = [wake EXCEPT ![t] = d]
  /\ pc' = [pc EXCEPT ![t] = "poll"]
  /\ line' = [line EXCEPT ![t] = Line(t, n'[t])]

\* A hello that looks at its counter before it counts (a mutant).
CountedBefore(v) == v - 1 = Target

CountReached(v) == v = Target

Count(v) == (v + 1) % Wrap

\* A simulation built with FREERTOS_FPGA left defined (a mutant).
NeverEnds == FALSE

MayEnd == ~build.fpga

\* A tick so coarse that 250 ms are no tick at all, and vTaskDelay only yields
\* (a mutant).
NoPeriod == 0

HelloPeriods == 1

AfterHello ==
  /\ Running("hello") /\ pc["hello"] = "after" /\ then["hello"] = "loop"
  /\ n' = [n EXCEPT !["hello"] = Count(@)]
  /\ IF MayEnd /\ CountReached(n'["hello"])
     THEN /\ line' = [line EXCEPT !["hello"] = <<Tok("hello", "PASS")>>]
          /\ pc' = [pc EXCEPT !["hello"] = "poll"]
          /\ then' = [then EXCEPT !["hello"] = "0"]
          /\ UNCHANGED <<ready, wake>>
     ELSE DelayThen("hello", HelloPeriods) /\ UNCHANGED then
  /\ UNCHANGED <<build, heap, on, uart, even, exit, fault>>

\* A blink that sleeps as long as hello does (a mutant).
OnePeriod == 1

BlinkPeriods == 2

\* blink's store to MMIO_STATUS reads back as 0 and changes nothing.
AfterBlink ==
  /\ Running("blink") /\ pc["blink"] = "after" /\ then["blink"] = "loop"
  /\ n' = [n EXCEPT !["blink"] = Count(@)]
  /\ DelayThen("blink", BlinkPeriods)
  /\ UNCHANGED <<build, heap, on, then, uart, even, exit, fault>>

\* mmio_exit, and the loop after its store.
Exit(a) ==
  /\ Running(a) /\ pc[a] = "after" /\ then[a] # "loop"
  /\ exit' = Append(exit, then[a])
  /\ pc' = [pc EXCEPT ![a] = "spin"]
  /\ UNCHANGED <<build, heap, on, ready, wake, line, then, n, uart, even, fault>>

\* A period passes: not in the time a line takes, where lines are prompt, and
\* never in the time hello's takes.  A task that spins does not stop it.
Busy(t) == t \in ready /\ pc[t] # "spin"

MayTick ==
  on /\ fault \in {"none", "assert"} /\ ~Busy("hello") /\ (build.prompt => ~Busy("blink"))

Tick ==
  /\ ~Halted /\ MayTick
  /\ wake' = [t \in Task |-> IF wake[t] > 0 THEN wake[t] - 1 ELSE 0]
  /\ ready' = ready \cup { t \in Task : wake[t] = 1 }
  /\ since' = [t \in Task |-> 0] /\ even' = ~even
  /\ UNCHANGED <<build, heap, on, pc, line, then, n, fifo, lost, cur, told, exit, fault>>

\* configASSERT fails in a call of the running task, or of main.
AssertFails(a) ==
  /\ fault = "none" /\ Running(a) /\ then[a] = "loop"
  /\ Asserts(a)
  /\ UNCHANGED <<build, heap, on, ready, wake, n, uart, even, exit>>

\* An unexpected trap: its handler, with interrupts off, prints and exits.
Trap(k) ==
  /\ k \in Kinds \ {"assert"} /\ fault = "none" /\ on /\ ~Halted
  /\ fault' = k
  /\ line' = [line EXCEPT !["trap"] = <<Tok("trap", k)>>]
  /\ then' = [then EXCEPT !["trap"] = IF k = "exception" THEN "3" ELSE "4"]
  /\ UNCHANGED <<build, heap, on, ready, wake, pc, n, uart, even, exit>>

Step(a) == Poll(a) \/ Write(a) \/ Exit(a)
Code == StartScheduler \/ AfterHello \/ AfterBlink \/ \E a \in Actor : Step(a)
Next == Code \/ Drain \/ Tick \/ (\E a \in Task \cup {"main"} : AssertFails(a)) \/ (\E k \in Kinds : Trap(k))

Spec == Init /\ [][Next]_vars

\* The processor executes, the UART sends and time passes.
FairSpec == Spec /\ WF_vars(Code) /\ WF_vars(Drain) /\ WF_vars(Tick)

-----------------------------------------------------------------------------
(* Properties.                                                             *)

\* The tasks' and the UART's state has its type.
TypeOK ==
  /\ ready \subseteq Created /\ wake \in [Task -> 0 .. 2]
  /\ \A a \in Actor : pc[a] \in {"poll", "write", "after", "spin"}
                      /\ then[a] \in {"loop", "0", "2", "3", "4"}
  /\ n \in [Task -> 0 .. Wrap - 1] /\ told \in [Task -> 0 .. Wrap - 1]
  /\ fifo \in 0 .. Depth /\ lost \subseteq Actor
  /\ Len(exit) <= 1 /\ fault \in {"none"} \cup Kinds

LinesWhole == \A t \in Task : fault = "none" /\ Alone(t) => Fits(cur[t], t, told[t])

\* Only blink, preempted by hello between its poll and its write, can write to a
\* full FIFO, and only where a period passes while it prints.  Every other
\* line of a task reaches the UART in one piece, whoever else prints meanwhile,
\* with the number that follows that of the line before, in decimal without
\* leading zeros.
PrintsWhole == TypeOK /\ (\A a \in lost : ~Alone(a)) /\ LinesWhole

\* uartlite_putc's loop (uartlite.h 28-29) waits for room, but the byte of a
\* task that was preempted behind it is lost.
NoByteLost == lost = {}

\* In every period hello prints one line, and blink one in every second, as far
\* as the heap had room for them.
KeepsPace ==
  build.prompt /\ on /\ ready = {} /\ fault = "none" =>
    /\ since["hello"] = IF HasHello THEN 1 ELSE 0
    /\ since["blink"] = IF HasBlink /\ even THEN 1 ELSE 0

\* A program that exits with 0 has run hello, which printed Target lines; blink,
\* if there was room for it, has printed one for two of them, where nothing
\* was slow or went wrong; no trap struck, and no assertion failed, unless
\* blink's was still being printed when hello's time came.  Any other code
\* names what went wrong, and 2 tells that the idle task had no room.
ExitMeans ==
  exit # <<>> =>
    /\ CASE exit[1] = "0" -> /\ HasHello /\ n["hello"] = Target
                             /\ fault # "none" => fault = "assert" /\ ~build.prompt
                             /\ HasBlink /\ build.prompt => n["blink"] = Target \div 2
         [] exit[1] = "2" -> fault = "assert"
         [] exit[1] = "3" -> fault = "exception"
         [] OTHER -> exit[1] = "4" /\ fault = "interrupt"
    /\ ~HasIdle => exit[1] = "2"

\* "Two cooperating tasks" (main.c 1): a program that passes has run both.
BothRan == exit = <<"0">> /\ build.prompt => n["blink"] > 0

Ends == <>(exit # <<>>)
Alive == \A t \in Task : t \in Created /\ Alone(t) => []<>(on /\ pc[t] = "write")

\* A simulation ends by itself, unless it runs without hello; on the FPGA the
\* tasks print for ever, blink if hello lets it, unless the scheduler cannot
\* start or a fault stops them.
KeepsGoing ==
  /\ ~build.fpga /\ (HasHello \/ ~HasIdle) => Ends
  /\ build.fpga => Alive \/ Ends
=============================================================================
