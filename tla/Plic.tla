-------------------------------- MODULE Plic --------------------------------
(***************************************************************************)
(* The platform interrupt controller (rtl/soc/plic.sv), between its source *)
(* lines and the handlers of its contexts.                                 *)
(*                                                                         *)
(* A step is one clock edge; the lines and the bus request of the cycle    *)
(* are inputs.  Software is the hart's: it makes one access at a time, and *)
(* a context completes only what it has claimed.  claimed_src_q is left    *)
(* out, it feeds a debug tap only, and so are reads without effect.        *)
(***************************************************************************)
EXTENDS Naturals

CONSTANTS NUM_SOURCES,  \* source 0 included, which is no source
          Ctx,
          PrioMax,      \* the largest priority software writes (3 bits hold 7)
          ThresholdMax, \* and the largest threshold
          EnableWord    \* the enable words it writes, as sets of bits

ASSUME PlicAssumption ==
    /\ NUM_SOURCES \in Nat \ {0} /\ PrioMax \in 0..7 /\ ThresholdMax \in 0..7
    /\ EnableWord \subseteq SUBSET (0..(NUM_SOURCES - 1))

Source == 1..(NUM_SOURCES - 1)

VARIABLES
  priority, pending, enable, threshold, inflight,
  rsp,    \* the answer of a claim, on its way to the context that made it
  held,   \* the sources a context's handlers have claimed and not completed
  raised  \* the sources whose line was up when nobody handled them (history)

config == <<priority, enable, threshold>>
vars   == <<config, pending, inflight, rsp, held, raised>>

NoAnswer == [valid |-> FALSE]
Answer(c, s) == [valid |-> TRUE, ctx |-> c, src |-> s]

-----------------------------------------------------------------------------
\* A mutant of Beats: of equals the last one wins.
BeatsOrTies(c, s, best) == priority[s] > threshold[c] /\ priority[s] >= best.prio

Beats(c, s, best) == priority[s] > threshold[c] /\ priority[s] > best.prio

(* The loop over the sources: the best of 1..s.                            *)
pick_best_src(c) ==
    LET best[s \in 0..(NUM_SOURCES - 1)] ==
          IF s = 0 THEN [prio |-> 0, idx |-> 0]
          ELSE IF s \in enable[c] /\ s \in pending /\ Beats(c, s, best[s - 1])
               THEN [prio |-> priority[s], idx |-> s]
               ELSE best[s - 1]
    IN best[NUM_SOURCES - 1].idx

irq_o(c) == pick_best_src(c) # 0

(* The gateways.  A source is pending from an edge that finds its line up  *)
(* to its claim, and not while it is in flight; the claim of an edge comes *)
(* after the gateway's assignment, and wins.                               *)

\* A mutant of Latched: the gateway wins.
LatchedLast(lines, claimed) == (pending \ claimed) \cup (lines \ inflight)

Latched(lines, claimed) == (pending \cup (lines \ inflight)) \ claimed

\* What a handler has or is about to get.
Handled == (UNION {held[c] : c \in Ctx}) \cup (IF rsp.valid THEN {rsp.src} ELSE {})

Gateways(lines, claimed) ==
    /\ pending' = Latched(lines, claimed)
    /\ raised' = (raised \cup (lines \ Handled)) \ claimed

-----------------------------------------------------------------------------
(* The accesses.  The answer of a claim takes the next cycle.              *)

Free == ~rsp.valid

NoAccess(lines) ==
    /\ Free /\ Gateways(lines, {})
    /\ UNCHANGED <<config, inflight, rsp, held>>

ClaimNothing(c, lines) ==
    /\ Free /\ ~irq_o(c)
    /\ Gateways(lines, {})
    /\ UNCHANGED <<config, inflight, rsp, held>>

Claim(c, lines) ==
    LET best == pick_best_src(c) IN
    /\ Free /\ best # 0
    /\ Gateways(lines, {best})
    /\ inflight' = inflight \cup {best}
    /\ rsp' = Answer(c, best)
    /\ UNCHANGED <<config, held>>

(* The claimed source reaches the handler.                                 *)
Deliver(lines) ==
    /\ rsp.valid /\ rsp' = NoAnswer
    /\ held' = [held EXCEPT ![rsp.ctx] = @ \cup {rsp.src}]
    /\ Gateways(lines, {})
    /\ UNCHANGED <<config, inflight>>

\* A mutant of Released: a completion releases whatever is in flight.
ReleasedAll(s) == {}

Released(s) == inflight \ {s}

Complete(c, s, lines) ==
    /\ Free /\ s \in held[c]
    /\ inflight' = Released(s)
    /\ held' = [held EXCEPT ![c] = @ \ {s}]
    /\ Gateways(lines, {})
    /\ UNCHANGED <<config, rsp>>

WritePriority(s, p, lines) ==
    /\ Free /\ priority' = [priority EXCEPT ![s] = p]
    /\ Gateways(lines, {})
    /\ UNCHANGED <<enable, threshold, inflight, rsp, held>>

Enabled(word) == word \ {0}

WriteEnable(c, word, lines) ==
    /\ Free /\ enable' = [enable EXCEPT ![c] = Enabled(word)]
    /\ Gateways(lines, {})
    /\ UNCHANGED <<priority, threshold, inflight, rsp, held>>

WriteThreshold(c, t, lines) ==
    /\ Free /\ threshold' = [threshold EXCEPT ![c] = t]
    /\ Gateways(lines, {})
    /\ UNCHANGED <<priority, enable, inflight, rsp, held>>

Next ==
    \E lines \in SUBSET Source :
       \/ NoAccess(lines) \/ Deliver(lines)
       \/ \E s \in Source, p \in 0..PrioMax : WritePriority(s, p, lines)
       \/ \E c \in Ctx :
             \/ ClaimNothing(c, lines) \/ Claim(c, lines)
             \/ \E s \in held[c] : Complete(c, s, lines)
             \/ \E word \in EnableWord : WriteEnable(c, word, lines)
             \/ \E t \in 0..ThresholdMax : WriteThreshold(c, t, lines)

Init ==
    /\ priority = [s \in Source |-> 0]
    /\ enable = [c \in Ctx |-> {}] /\ threshold = [c \in Ctx |-> 0]
    /\ pending = {} /\ inflight = {} /\ rsp = NoAnswer
    /\ held = [c \in Ctx |-> {}] /\ raised = {}

Spec == Init /\ [][Next]_vars

-----------------------------------------------------------------------------
TypeOK ==
    /\ priority \in [Source -> 0..PrioMax]
    /\ enable \in [Ctx -> SUBSET Source] /\ threshold \in [Ctx -> 0..ThresholdMax]
    /\ pending \subseteq Source /\ inflight \subseteq Source /\ raised \subseteq Source
    /\ rsp \in {NoAnswer} \cup {Answer(c, s) : c \in Ctx, s \in Source}
    /\ held \in [Ctx -> SUBSET Source]

HandledByOne ==
    /\ \A c, d \in Ctx : c # d => held[c] \cap held[d] = {}
    /\ rsp.valid => \A c \in Ctx : rsp.src \notin held[c]
    /\ inflight = Handled /\ inflight \cap pending = {}

RaisedIsPending == pending = raised

(* plic.sv 22-24: "a second context can't re-claim the same interrupt      *)
(* while in flight".  What is in flight is what one handler, and only one, *)
(* has or is about to get; and nothing in flight is pending.  No interrupt *)
(* is lost and none is invented: what is pending is what was raised while  *)
(* no handler had it, and not claimed since - although it may have been    *)
(* disabled, claimed by the other context or completed meanwhile.          *)
DeliveredOnce == TypeOK /\ HandledByOne /\ RaisedIsPending

(* The loop finds the source the manual asks for: of the enabled pending   *)
(* sources above the threshold one of the highest priority, and of those   *)
(* the one of the lowest number.                                           *)
Candidates(c) == { s \in enable[c] \cap pending : priority[s] > threshold[c] }

PickIsBest ==
    \A c \in Ctx :
       IF Candidates(c) = {} THEN ~irq_o(c)
       ELSE /\ pick_best_src(c) \in Candidates(c)
            /\ \A s \in Candidates(c) :
                  LET b == pick_best_src(c) IN
                  priority[s] < priority[b] \/ (priority[s] = priority[b] /\ b <= s)
=============================================================================
