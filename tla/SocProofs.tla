----------------------------- MODULE SocProofs ------------------------------
(***************************************************************************)
(* Proofs about two parts of rtl/soc: the interrupt controller, for every  *)
(* number of sources and contexts, and the fabric between the core and     *)
(* DDR, for every set of addresses and words and every cooldown.           *)
(***************************************************************************)
EXTENDS Plic, AxiFabric, FiniteSetTheorems, TLAPS

-----------------------------------------------------------------------------
(* What a loop computes.                                                   *)

(* Counting up from 0 to m inside a set: if m were not reached, the map    *)
(* that lowers what is outside the set by one would put k + 1 numbers into *)
(* k places.                                                               *)
LEMMA CountingUp ==
  ASSUME NEW m \in Nat, NEW S, 0 \in S, \A n \in 0..(m - 1) : n \in S => n + 1 \in S
  PROVE  \A n \in 0..m : n \in S
<1> SUFFICES ASSUME NEW k \in 0..m, k \notin S PROVE FALSE
  OBVIOUS
<1> DEFINE f == [x \in 0..k |-> IF x \in S THEN x ELSE x - 1]
<1>1. f \in [0..k -> 0..(k - 1)]
  OBVIOUS
<1>2. k \in Nat /\ k # 0
  OBVIOUS
<1>3. /\ IsFiniteSet(0..k) /\ Cardinality(0..k) = k + 1
      /\ IsFiniteSet(0..(k - 1)) /\ Cardinality(0..(k - 1)) = k
  BY <1>2, FS_Interval
<1>4. PICK x, y \in 0..k : x # y /\ f[x] = f[y]
  <2> HIDE DEF f
  <2>1. k < k + 1
    BY <1>2
  <2> QED BY <1>1, <1>3, <2>1, FS_PigeonHole
<1>5. \A a, b \in 0..k : a \in S /\ b \notin S => a # b - 1
  OBVIOUS
<1> QED BY <1>4, <1>5

(* The body of the loop over the sources.                                  *)
BestStep(b, c, s) ==
    IF s = 0 THEN [prio |-> 0, idx |-> 0]
    ELSE IF s \in enable[c] /\ s \in pending /\ Beats(c, s, b[s - 1])
         THEN [prio |-> priority[s], idx |-> s]
         ELSE b[s - 1]

LEMMA LoopRuns ==
  ASSUME NEW m \in Nat, NEW c
  PROVE  \E b : b = [s \in 0..m |-> BestStep(b, c, s)]
<1> DEFINE S == {n \in 0..m : \E b : b = [s \in 0..n |-> BestStep(b, c, s)]}
<1>1. 0 \in S
  <2> DEFINE b0 == [s \in 0..0 |-> [prio |-> 0, idx |-> 0]]
  <2>1. b0 = [s \in 0..0 |-> BestStep(b0, c, s)]
    BY DEF BestStep
  <2> QED BY <2>1
<1>2. ASSUME NEW n \in 0..(m - 1), n \in S PROVE n + 1 \in S
  <2>1. PICK b : b = [s \in 0..n |-> BestStep(b, c, s)]
    BY <1>2
  <2> DEFINE b1 == [s \in 0..(n + 1) |-> IF s = n + 1 THEN BestStep(b, c, n + 1) ELSE b[s]]
  <2>2. \A s \in 0..(n + 1) : b1[s] = BestStep(b1, c, s)
    <3> TAKE s \in 0..(n + 1)
    <3>1. s # 0 => b1[s - 1] = b[s - 1]
      OBVIOUS
    <3>2. BestStep(b, c, s) = BestStep(b1, c, s)
      BY <3>1, Zenon DEF BestStep
    <3>3. CASE s = n + 1
      BY <3>2, <3>3
    <3>4. CASE s # n + 1
      <4>1. s \in 0..n
        BY <3>4
      <4>2. b[s] = BestStep(b, c, s)
        BY <2>1, <4>1
      <4> QED BY <3>2, <4>2, <3>4
    <3> QED BY <3>3, <3>4
  <2>3. b1 = [s \in 0..(n + 1) |-> BestStep(b1, c, s)]
    BY <2>2
  <2> HIDE DEF b1
  <2>4. \E g : g = [s \in 0..(n + 1) |-> BestStep(g, c, s)]
    BY <2>3
  <2>5. n + 1 \in 0..m
    OBVIOUS
  <2> QED BY <2>4, <2>5
<1> HIDE DEF S
<1>3. m \in S
  BY <1>1, <1>2, CountingUp
<1> QED BY <1>3 DEF S

LEMMA PickIsALoop ==
  ASSUME NEW c
  PROVE  \E b : /\ b = [s \in 0..(NUM_SOURCES - 1) |-> BestStep(b, c, s)]
                /\ pick_best_src(c) = b[NUM_SOURCES - 1].idx
<1>1. NUM_SOURCES - 1 \in Nat
  BY PlicAssumption DEF PlicAssumption
<1> DEFINE best == CHOOSE b : b = [s \in 0..(NUM_SOURCES - 1) |-> BestStep(b, c, s)]
<1>2. best = [s \in 0..(NUM_SOURCES - 1) |-> BestStep(best, c, s)]
  BY <1>1, LoopRuns
<1>3. pick_best_src(c) = best[NUM_SOURCES - 1].idx
  BY DEF pick_best_src, BestStep
<1> QED BY <1>2, <1>3

(* After s rounds the best of the first s candidates is known.             *)
BestOf(c, s, r) ==
    IF Candidates(c) \cap (1..s) = {} THEN r.prio = 0 /\ r.idx = 0
    ELSE /\ r.idx \in Candidates(c) \cap (1..s) /\ r.prio = priority[r.idx]
         /\ \A t \in Candidates(c) \cap (1..s) :
               priority[t] < r.prio \/ (priority[t] = r.prio /\ r.idx <= t)

LEMMA RoundKeepsBest ==
  ASSUME TypeOK, NEW c \in Ctx, NEW b, NEW n \in Nat, n + 1 \in Source, BestOf(c, n, b[n])
  PROVE  BestOf(c, n + 1, BestStep(b, c, n + 1))
<1> DEFINE r == b[n]
           s == n + 1
           old == Candidates(c) \cap (1..n)
           new == Candidates(c) \cap (1..s)
           step == BestStep(b, c, s)
<1>1. /\ \A t \in Source : priority[t] \in Nat
      /\ threshold[c] \in Nat
      /\ Candidates(c) \subseteq Source /\ Source \subseteq Nat
      /\ \A t \in Candidates(c) : priority[t] > threshold[c]
  BY PlicAssumption DEF PlicAssumption, TypeOK, Candidates, Source
<1>2. s \in Nat /\ s # 0 /\ s - 1 = n
  OBVIOUS
<1>3. step = IF s \in enable[c] /\ s \in pending /\ Beats(c, s, r)
             THEN [prio |-> priority[s], idx |-> s] ELSE r
  BY <1>2, Zenon DEF BestStep
<1>4. new = IF s \in Candidates(c) THEN old \cup {s} ELSE old
  BY <1>1
<1>5. s \in Candidates(c) <=> s \in enable[c] /\ s \in pending /\ priority[s] > threshold[c]
  BY DEF Candidates
<1>6. \A t \in old : t \in Nat /\ t <= n
  BY <1>1
<1>7. CASE s \in Candidates(c) /\ Beats(c, s, r)
  <2>1. step.prio = priority[s] /\ step.idx = s /\ new = old \cup {s}
    BY <1>3, <1>4, <1>5, <1>7
  <2>2. priority[s] > r.prio
    BY <1>7 DEF Beats
  <2>3. \A t \in old : priority[t] < priority[s]
    BY <1>1, <2>2 DEF BestOf
  <2> QED BY <1>1, <1>2, <2>1, <2>3 DEF BestOf
<1>8. CASE s \in Candidates(c) /\ ~Beats(c, s, r)
  <2>1. step = r /\ new = old \cup {s}
    BY <1>3, <1>4, <1>8
  <2>2. ~(priority[s] > r.prio) /\ priority[s] > threshold[c]
    BY <1>5, <1>8 DEF Beats
  <2>3. old # {}
    BY <1>1, <2>2 DEF BestOf
  <2>4. r.idx \in old /\ r.prio = priority[r.idx]
    BY <2>3 DEF BestOf
  <2>5. priority[s] < r.prio \/ (priority[s] = r.prio /\ r.idx <= s)
    BY <1>1, <1>2, <1>6, <2>2, <2>4
  <2> QED BY <2>1, <2>3, <2>4, <2>5 DEF BestOf
<1>9. CASE s \notin Candidates(c)
  <2>1. step = r /\ new = old
    BY <1>3, <1>4, <1>5, <1>9 DEF Beats
  <2> QED BY <2>1 DEF BestOf
<1> QED BY <1>7, <1>8, <1>9

LEMMA PickBest ==
  ASSUME TypeOK, NEW c \in Ctx
  PROVE  \E r : BestOf(c, NUM_SOURCES - 1, r) /\ pick_best_src(c) = r.idx
<1> DEFINE N == NUM_SOURCES - 1
<1>1. N \in Nat /\ Source = 1..N
  BY PlicAssumption DEF PlicAssumption, Source
<1>2. PICK b : b = [s \in 0..N |-> BestStep(b, c, s)] /\ pick_best_src(c) = b[N].idx
  BY PickIsALoop
<1> HIDE DEF N
<1>3. \A s \in 0..N : b[s] = BestStep(b, c, s)
  BY <1>2
<1> DEFINE S == {s \in 0..N : BestOf(c, s, b[s])}
<1>4. 0 \in S
  <2>1. b[0] = [prio |-> 0, idx |-> 0]
    <3>1. b[0] = BestStep(b, c, 0)
      BY <1>1, <1>3
    <3> QED BY <3>1, Zenon DEF BestStep
  <2>2. BestOf(c, 0, b[0])
    BY <2>1 DEF BestOf
  <2>3. 0 \in 0..N
    BY <1>1
  <2> QED BY <2>2, <2>3
<1>5. ASSUME NEW n \in 0..(N - 1), n \in S PROVE n + 1 \in S
  <2>1. n \in Nat /\ n + 1 \in Source /\ n + 1 \in 0..N
    BY <1>1
  <2>2. BestOf(c, n + 1, b[n + 1])
    BY <1>3, <1>5, <2>1, RoundKeepsBest
  <2> QED BY <2>1, <2>2
<1> HIDE DEF S
<1>6. \A n \in 0..N : n \in S
  <2>1. N \in Nat /\ \A n \in 0..(N - 1) : n \in S => n + 1 \in S
    BY <1>1, <1>5
  <2> QED BY <1>4, <2>1, CountingUp
<1>7. BestOf(c, N, b[N])
  BY <1>1, <1>6 DEF S
<1> QED BY <1>2, <1>7 DEF N

(* The source picked is 0, or one that is enabled and pending.             *)
LEMMA PickIsCandidate ==
  ASSUME TypeOK, NEW c \in Ctx
  PROVE  /\ Candidates(c) = {} => pick_best_src(c) = 0
         /\ Candidates(c) # {} => pick_best_src(c) \in Candidates(c)
         /\ pick_best_src(c) # 0 => pick_best_src(c) \in pending
<1> DEFINE N == NUM_SOURCES - 1
<1>1. PICK r : BestOf(c, N, r) /\ pick_best_src(c) = r.idx
  BY PickBest
<1>2. Candidates(c) \subseteq 1..N
  BY DEF TypeOK, Candidates, Source
<1>3. Candidates(c) \cap (1..N) = Candidates(c) /\ Candidates(c) \subseteq pending
  BY <1>2 DEF Candidates
<1> QED BY <1>1, <1>3 DEF BestOf

(* The loop finds the source the manual asks for, whatever the priorities, *)
(* the enables and the threshold are (plic.sv, pick_best_src).             *)
LEMMA PickBestIsBest == TypeOK => PickIsBest
<1> SUFFICES ASSUME TypeOK, NEW c \in Ctx
             PROVE  IF Candidates(c) = {} THEN ~irq_o(c)
                    ELSE /\ pick_best_src(c) \in Candidates(c)
                         /\ \A s \in Candidates(c) :
                              LET b == pick_best_src(c) IN
                              priority[s] < priority[b] \/ (priority[s] = priority[b] /\ b <= s)
  BY DEF PickIsBest
<1> DEFINE N == NUM_SOURCES - 1
<1>1. PICK r : BestOf(c, N, r) /\ pick_best_src(c) = r.idx
  BY PickBest
<1>2. Candidates(c) \subseteq 1..N
  BY DEF TypeOK, Candidates, Source
<1>3. Candidates(c) \cap (1..N) = Candidates(c)
  BY <1>2
<1> QED BY <1>1, <1>3 DEF BestOf, irq_o
-----------------------------------------------------------------------------
(* Who has an interrupt.                                                   *)

(* What both gateways do, whatever the access of the edge does to inflight.*)
LEMMA GatewaysAgree ==
  ASSUME DeliveredOnce, NEW lines \in SUBSET Source, NEW claimed \in SUBSET Source,
         Gateways(lines, claimed)
  PROVE  /\ pending' = (pending \cup (lines \ inflight)) \ claimed
         /\ raised' = pending' /\ pending' \subseteq Source
<1>1. inflight = Handled /\ raised = pending /\ pending \subseteq Source
  BY DEF DeliveredOnce, HandledByOne, Handled, RaisedIsPending, TypeOK
<1>2. raised' = (raised \cup (lines \ Handled)) \ claimed
  BY DEF Gateways
<1> QED BY <1>1, <1>2 DEF Gateways, Latched

(* The access of the edge leaves who has what alone.                       *)
LEMMA NobodyMoves ==
  ASSUME DeliveredOnce, NEW lines \in SUBSET Source, Gateways(lines, {}),
         UNCHANGED <<inflight, rsp, held>>,
         priority' \in [Source -> 0..PrioMax], enable' \in [Ctx -> SUBSET Source],
         threshold' \in [Ctx -> 0..ThresholdMax]
  PROVE  DeliveredOnce'
<1>1. pending' = pending \cup (lines \ inflight) /\ raised' = pending' /\ pending' \subseteq Source
  BY GatewaysAgree
<1>2. TypeOK'
  BY <1>1 DEF DeliveredOnce, TypeOK
<1>3. HandledByOne'
  BY <1>1 DEF DeliveredOnce, HandledByOne, Handled
<1> QED BY <1>1, <1>2, <1>3 DEF DeliveredOnce, RaisedIsPending

LEMMA RspType ==
  ASSUME TypeOK, rsp.valid
  PROVE  rsp.ctx \in Ctx /\ rsp.src \in Source
<1>1. rsp # NoAnswer
  BY DEF NoAnswer
<1>2. PICK c \in Ctx, s \in Source : rsp = Answer(c, s)
  BY <1>1 DEF TypeOK
<1> QED BY <1>2 DEF Answer

LEMMA ClaimDeliversOnce ==
  ASSUME DeliveredOnce, NEW lines \in SUBSET Source, NEW c \in Ctx, Claim(c, lines)
  PROVE  DeliveredOnce'
<1> DEFINE best == pick_best_src(c)
<1>1. best \in pending /\ best \in Source
  BY PickIsCandidate DEF DeliveredOnce, TypeOK, Claim
<1> HIDE DEF best
<1>2. /\ ~rsp.valid /\ Gateways(lines, {best}) /\ inflight' = inflight \cup {best}
      /\ rsp' = Answer(c, best) /\ UNCHANGED <<config, held>>
  BY DEF Claim, Free, best
<1>3. pending' = (pending \cup (lines \ inflight)) \ {best} /\ raised' = pending' /\ pending' \subseteq Source
  BY <1>1, <1>2, GatewaysAgree
<1>4. rsp'.valid /\ rsp'.src = best
  BY <1>2 DEF Answer
<1>5. TypeOK'
  BY <1>1, <1>2, <1>3 DEF DeliveredOnce, TypeOK, config
<1>6. HandledByOne'
  <2>1. best \notin inflight
    <3>1. inflight \cap pending = {}
      BY DEF DeliveredOnce, HandledByOne, Handled
    <3> QED BY <1>1, <3>1
  <2>2. inflight = UNION {held[d] : d \in Ctx} /\ inflight \cap pending = {}
    BY <1>2 DEF DeliveredOnce, HandledByOne, Handled
  <2>3. inflight' = (UNION {held[d] : d \in Ctx}) \cup {best}
    BY <1>2, <2>2, Zenon
  <2>4. \A d \in Ctx : best \notin held[d]
    BY <2>1, <2>2
  <2>5. inflight' \cap pending' = {}
    BY <1>2, <1>3, <2>2
  <2> QED BY <1>2, <1>4, <2>3, <2>4, <2>5 DEF DeliveredOnce, HandledByOne, Handled
<1> QED BY <1>3, <1>5, <1>6 DEF DeliveredOnce, RaisedIsPending

LEMMA DeliverDeliversOnce ==
  ASSUME DeliveredOnce, NEW lines \in SUBSET Source, Deliver(lines)
  PROVE  DeliveredOnce'
<1> DEFINE c == rsp.ctx  s == rsp.src
<1>1. c \in Ctx /\ s \in Source
  BY RspType DEF DeliveredOnce, Deliver
<1> HIDE DEF c, s
<1>2. /\ rsp.valid /\ rsp' = NoAnswer /\ held' = [held EXCEPT ![c] = @ \cup {s}]
      /\ Gateways(lines, {}) /\ UNCHANGED <<config, inflight>>
  BY DEF Deliver, c, s
<1>3. pending' = pending \cup (lines \ inflight) /\ raised' = pending' /\ pending' \subseteq Source
  BY <1>2, GatewaysAgree
<1>4. held \in [Ctx -> SUBSET Source]
  BY DEF DeliveredOnce, TypeOK
<1>5. TypeOK'
  BY <1>1, <1>2, <1>3 DEF DeliveredOnce, TypeOK, config
<1>6. HandledByOne'
  <2>1. /\ \A a, d \in Ctx : a # d => held[a] \cap held[d] = {}
        /\ \A d \in Ctx : s \notin held[d]
        /\ inflight = (UNION {held[d] : d \in Ctx}) \cup {s} /\ inflight \cap pending = {}
    BY <1>2 DEF DeliveredOnce, HandledByOne, Handled, s
  <2>2. \A d \in Ctx : held'[d] = IF d = c THEN held[d] \cup {s} ELSE held[d]
    BY <1>2, <1>4
  <2>3. UNION {held'[d] : d \in Ctx} = (UNION {held[d] : d \in Ctx}) \cup {s}
    <3> DEFINE A == UNION {held'[d] : d \in Ctx}  B == UNION {held[d] : d \in Ctx}
    <3>1. ASSUME NEW x PROVE x \in A <=> (\E d \in Ctx : x \in held'[d])
      OBVIOUS
    <3>2. ASSUME NEW x PROVE x \in B <=> (\E d \in Ctx : x \in held[d])
      OBVIOUS
    <3> HIDE DEF A, B
    <3>3. \A x : x \in A <=> x \in B \/ x = s
      <4> TAKE x
      <4>1. \A d \in Ctx : x \in held'[d] <=> x \in held[d] \/ (d = c /\ x = s)
        BY <2>2
      <4> QED BY <1>1, <3>1, <3>2, <4>1
    <3>4. A = B \cup {s}
      BY <3>3
    <3> QED BY <3>4 DEF A, B
  <2>4. ~rsp'.valid
    BY <1>2 DEF NoAnswer
  <2>5. \A a, d \in Ctx : a # d => held'[a] \cap held'[d] = {}
    BY <2>1, <2>2
  <2>6. inflight' \cap pending' = {}
    BY <1>2, <1>3, <2>1
  <2> QED BY <1>2, <2>1, <2>3, <2>4, <2>5, <2>6 DEF HandledByOne, Handled
<1> QED BY <1>3, <1>5, <1>6 DEF DeliveredOnce, RaisedIsPending

LEMMA CompleteDeliversOnce ==
  ASSUME DeliveredOnce, NEW lines \in SUBSET Source, NEW c \in Ctx, NEW s \in held[c],
         Complete(c, s, lines)
  PROVE  DeliveredOnce'
<1>1. /\ ~rsp.valid /\ rsp' = rsp /\ inflight' = inflight \ {s}
      /\ held' = [held EXCEPT ![c] = @ \ {s}]
      /\ Gateways(lines, {}) /\ UNCHANGED config
  BY DEF Complete, Released, Free
<1>2. pending' = pending \cup (lines \ inflight) /\ raised' = pending' /\ pending' \subseteq Source
  BY <1>1, GatewaysAgree
<1>3. held \in [Ctx -> SUBSET Source]
  BY DEF DeliveredOnce, TypeOK
<1>4. TypeOK'
  BY <1>1, <1>2 DEF DeliveredOnce, TypeOK, config
<1>5. HandledByOne'
  <2>1. /\ \A a, d \in Ctx : a # d => held[a] \cap held[d] = {}
        /\ inflight = UNION {held[d] : d \in Ctx} /\ inflight \cap pending = {}
    BY <1>1 DEF DeliveredOnce, HandledByOne, Handled
  <2>2. \A d \in Ctx : held'[d] = IF d = c THEN held[d] \ {s} ELSE held[d]
    BY <1>1, <1>3
  <2>3. \A d \in Ctx : d # c => s \notin held[d]
    BY <2>1
  <2>4. \A d \in Ctx : held'[d] = held[d] \ {s}
    BY <2>2, <2>3
  <2>5. UNION {held'[d] : d \in Ctx} = (UNION {held[d] : d \in Ctx}) \ {s}
    BY <2>4
  <2>6. \A a, d \in Ctx : a # d => held'[a] \cap held'[d] = {}
    BY <2>1, <2>4
  <2>7. inflight' \cap pending' = {}
    BY <1>1, <1>2, <2>1
  <2> QED BY <1>1, <2>1, <2>5, <2>6, <2>7 DEF HandledByOne, Handled
<1> QED BY <1>2, <1>4, <1>5 DEF DeliveredOnce, RaisedIsPending

(* plic.sv 22-24: a context cannot claim an interrupt that is in flight.   *)
(* What is in flight is what exactly one handler has or is about to get,   *)
(* and no interrupt is lost or invented between its line and its claim.    *)
THEOREM EachDeliveredOnce == Spec => []DeliveredOnce
<1>1. Init => DeliveredOnce
  <2> SUFFICES ASSUME Init PROVE DeliveredOnce
    OBVIOUS
  <2>1. ~rsp.valid
    BY DEF Init, NoAnswer
  <2>2. TypeOK
    BY PlicAssumption DEF Init, TypeOK, PlicAssumption
  <2>3. HandledByOne
    BY <2>1 DEF Init, HandledByOne, Handled
  <2> QED BY <2>2, <2>3 DEF Init, DeliveredOnce, RaisedIsPending
<1>2. DeliveredOnce /\ [Next]_vars => DeliveredOnce'
  <2> SUFFICES ASSUME DeliveredOnce, [Next]_vars PROVE DeliveredOnce'
    OBVIOUS
  <2>0. /\ priority \in [Source -> 0..PrioMax] /\ enable \in [Ctx -> SUBSET Source]
        /\ threshold \in [Ctx -> 0..ThresholdMax]
    BY DEF DeliveredOnce, TypeOK
  <2>1. CASE UNCHANGED vars
    <3>1. DeliveredOnce' <=> DeliveredOnce
      BY <2>1 DEF vars, config, DeliveredOnce, TypeOK, HandledByOne, Handled, RaisedIsPending
    <3> QED BY <3>1
  <2>2. CASE Next
    <3>1. PICK lines \in SUBSET Source :
             \/ NoAccess(lines) \/ Deliver(lines)
             \/ \E s \in Source, p \in 0..PrioMax : WritePriority(s, p, lines)
             \/ \E c \in Ctx :
                   \/ ClaimNothing(c, lines) \/ Claim(c, lines)
                   \/ \E s \in held[c] : Complete(c, s, lines)
                   \/ \E word \in EnableWord : WriteEnable(c, word, lines)
                   \/ \E t \in 0..ThresholdMax : WriteThreshold(c, t, lines)
      BY <2>2 DEF Next
    <3>2. CASE NoAccess(lines)
      BY <2>0, <3>2, NobodyMoves DEF NoAccess, config
    <3>3. CASE Deliver(lines)
      BY <3>3, DeliverDeliversOnce
    <3>4. ASSUME NEW s \in Source, NEW p \in 0..PrioMax, WritePriority(s, p, lines)
          PROVE  DeliveredOnce'
      BY <2>0, <3>4, NobodyMoves DEF WritePriority
    <3>5. ASSUME NEW c \in Ctx, ClaimNothing(c, lines) PROVE DeliveredOnce'
      BY <2>0, <3>5, NobodyMoves DEF ClaimNothing, config
    <3>6. ASSUME NEW c \in Ctx, Claim(c, lines) PROVE DeliveredOnce'
      BY <3>6, ClaimDeliversOnce
    <3>7. ASSUME NEW c \in Ctx, NEW s \in held[c], Complete(c, s, lines) PROVE DeliveredOnce'
      BY <3>7, CompleteDeliversOnce
    <3>8. ASSUME NEW c \in Ctx, NEW word \in EnableWord, WriteEnable(c, word, lines)
          PROVE  DeliveredOnce'
      <4>1. Enabled(word) \subseteq Source
        BY PlicAssumption DEF PlicAssumption, Enabled, Source
      <4>2. enable' \in [Ctx -> SUBSET Source]
        BY <2>0, <3>8, <4>1 DEF WriteEnable
      <4> QED BY <2>0, <3>8, <4>2, NobodyMoves DEF WriteEnable
    <3>9. ASSUME NEW c \in Ctx, NEW t \in 0..ThresholdMax, WriteThreshold(c, t, lines)
          PROVE  DeliveredOnce'
      BY <2>0, <3>9, NobodyMoves DEF WriteThreshold
    <3> QED BY <3>1, <3>2, <3>3, <3>4, <3>5, <3>6, <3>7, <3>8, <3>9
  <2> QED BY <2>1, <2>2
<1> QED BY <1>1, <1>2, PTL DEF Spec

(* Whatever the priorities, enables and thresholds have come to be, the    *)
(* loop of pick_best_src (plic.sv) finds the source the manual asks for.   *)
THEOREM PicksTheBest == Spec => []PickIsBest
<1>1. DeliveredOnce => PickIsBest
  BY PickBestIsBest DEF DeliveredOnce
<1> QED BY <1>1, EachDeliveredOnce, PTL

-----------------------------------------------------------------------------
(* The fabric.  Its safety properties are not inductive by themselves: the *)
(* response can only be right because the master's latches and the slave's *)
(* channels hold the waiting client's request, so FabricInv adds it.       *)

(* Only the data client writes. *)
OnlyDmWrites == \A c \in Client : want[c].wen => c = "DM"

(* What the master and the slave hold in each state of the FSM. *)
FabricLatched ==
    /\ state # "IDLE" => ~rspValid
    /\ state # "IDLE" => addr = want[inflightClient].addr
    /\ state \in {"WRITE", "WRITE_B"} =>
          /\ want[inflightClient].wen
          /\ wdata = want[inflightClient].wdata
    /\ state \in {"READ", "READ_R"} => ~want[inflightClient].wen
    /\ state = "WRITE"   => /\ slaveAw = IF awSent THEN addr ELSE NoAddr
                            /\ slaveW = IF wSent THEN wdata ELSE NoAddr
    /\ state = "WRITE_B" => slaveAw = addr /\ slaveW = wdata
    /\ state \notin {"WRITE", "WRITE_B"} => slaveAw = NoAddr /\ slaveW = NoAddr
    /\ slaveAr = IF state = "READ_R" THEN addr ELSE NoAddr

(* The inductive invariant. *)
FabricInv ==
    FabricTypeOK /\ OneOutstanding /\ OnlyDmWrites /\ FabricLatched /\ ResponseAnswersRequest

LEMMA RequestKinds == /\ ReadRequest \subseteq Request
                      /\ WriteRequest \subseteq Request
                      /\ \A r \in ReadRequest : ~r.wen
                      /\ \A r \in Request : r.addr \in Addr /\ r.wen \in BOOLEAN /\ r.wdata \in Data
  BY AxiAssumption DEF AxiAssumption, ReadRequest, WriteRequest, Request

LEMMA FabricInitTypeOK == FabricInit => FabricTypeOK
<1> SUFFICES ASSUME FabricInit PROVE FabricTypeOK
  OBVIOUS
<1>1. [addr |-> addr, wen |-> FALSE, wdata |-> Zero] \in Request
  BY AxiAssumption DEF AxiAssumption, FabricInit, Request
<1>2. want \in [Client -> Request]
  BY <1>1 DEF FabricInit
<1>3. phase \in [Client -> Phase]
  BY DEF FabricInit, Phase
<1>4. inflightClient \in Client /\ walkSide \in Sides
  BY DEF FabricInit, Client, Sides
<1>5. cooldown \in 0..CooldownCycles /\ walkBeats \in 0..2
  BY AxiAssumption DEF AxiAssumption, FabricInit
<1>6. wdata \in Data /\ rspData \in Data
  BY AxiAssumption DEF AxiAssumption, FabricInit
<1>7. state \in {"IDLE", "WRITE", "WRITE_B", "READ", "READ_R"}
  BY DEF FabricInit
<1>8. /\ addr \in Addr /\ awSent \in BOOLEAN /\ wSent \in BOOLEAN
      /\ rspValid \in BOOLEAN /\ rspFault \in BOOLEAN /\ lastGrantIf \in BOOLEAN
      /\ slaveAw \in Addr \cup {NoAddr} /\ slaveW \in Data \cup {NoAddr}
      /\ slaveAr \in Addr \cup {NoAddr} /\ mem \in [Mapped -> Data]
  BY DEF FabricInit
<1> QED BY <1>2, <1>3, <1>4, <1>5, <1>6, <1>7, <1>8 DEF FabricTypeOK

LEMMA FabricStepTypeOK == FabricTypeOK /\ [FabricNext]_fabricVars => FabricTypeOK'
<1> SUFFICES ASSUME FabricTypeOK, [FabricNext]_fabricVars PROVE FabricTypeOK'
  OBVIOUS
<1> USE AxiAssumption DEF AxiAssumption
<1>1. ASSUME NEW c \in Sides, Request1(c) PROVE FabricTypeOK'
  <2>1. want' \in [Client -> Request] /\ phase' \in [Client -> Phase]
    BY <1>1, RequestKinds DEF FabricTypeOK, Request1, Phase
  <2> QED BY <1>1, <2>1 DEF FabricTypeOK, Request1, master, arbiter, slave
<1>2. ASSUME NEW c \in Sides, LaunchWalk(c) PROVE FabricTypeOK'
  <2>1. want' \in [Client -> Request] /\ phase' \in [Client -> Phase]
    BY <1>2, RequestKinds DEF FabricTypeOK, LaunchWalk, Phase
  <2> QED BY <1>2, <2>1 DEF FabricTypeOK, LaunchWalk, master, arbiter, slave
<1>3. ASSUME NEW c \in Sides, TakeTrap(c) PROVE FabricTypeOK'
  BY <1>3 DEF FabricTypeOK, TakeTrap, Phase, Client, Sides, master, arbiter, slave
<1>4. CASE WithdrawFetch
  BY <1>4 DEF FabricTypeOK, WithdrawFetch, Phase, Client, Sides, master, arbiter, slave
<1>5. ASSUME NEW c \in Client, Grant(c) PROVE FabricTypeOK'
  BY <1>5, RequestKinds DEF FabricTypeOK, Grant, PickedRequest, Phase, Client, Sides, slave
<1>6. CASE Write
  BY <1>6 DEF FabricTypeOK, Write, Decrement, arbiter, clients
<1>7. CASE WriteB
  BY <1>7 DEF FabricTypeOK, WriteB, arbiter, clients
<1>8. CASE Read
  BY <1>8 DEF FabricTypeOK, Read, Decrement, arbiter, clients
<1>9. CASE ReadR
  BY <1>9 DEF FabricTypeOK, ReadR, arbiter, clients
<1>10. CASE Respond
  <2>1. phase' \in [Client -> Phase] /\ want' \in [Client -> Request]
        /\ walkSide' \in Sides /\ walkBeats' \in 0..2
    <3>1. CASE ReceiveSide
      BY <3>1 DEF FabricTypeOK, ReceiveSide, Phase
    <3>2. CASE ReceivePtw
      <4>1. CASE walkBeats' = 1
        BY <3>2, <4>1, RequestKinds DEF FabricTypeOK, ReceivePtw, Phase
      <4>2. CASE walkBeats' = 0
        BY <3>2, <4>2 DEF FabricTypeOK, ReceivePtw, Phase
      <4> QED BY <3>2, <4>1, <4>2 DEF ReceivePtw
    <3> QED BY <1>10, <3>1, <3>2 DEF Respond
  <2>2. cooldown' \in 0..CooldownCycles
    BY <1>10 DEF FabricTypeOK, Respond, Decrement
  <2> QED BY <1>10, <2>1, <2>2 DEF FabricTypeOK, Respond, arbiter, slave
<1>11. CASE CoolDown
  BY <1>11 DEF FabricTypeOK, CoolDown, Decrement, arbiter, clients, slave
<1>12. CASE UNCHANGED fabricVars
  BY <1>12 DEF FabricTypeOK, fabricVars, master, arbiter, clients, slave
<1> QED BY <1>1, <1>2, <1>3, <1>4, <1>5, <1>6, <1>7, <1>8, <1>9, <1>10, <1>11, <1>12
        DEF FabricNext, ClientStep, Edge, GrantStep

(* Every reachable state of the master, the arbiter and the clients is     *)
(* well typed; the cooldown counter never leaves 0..CooldownCycles.        *)
THEOREM FabricTypeCorrect == FabricSpec => []FabricTypeOK
  BY FabricInitTypeOK, FabricStepTypeOK, PTL DEF FabricSpec

(* What the initial state establishes of the rest of IInv. *)
LEMMA FabricInitInv == FabricInit => FabricInv
<1> SUFFICES ASSUME FabricInit PROVE FabricInv
  OBVIOUS
<1>1. OneOutstanding
  BY DEF FabricInit, OneOutstanding, Busy
<1>2. OnlyDmWrites
  BY DEF FabricInit, OnlyDmWrites
<1>3. FabricLatched
  BY DEF FabricInit, FabricLatched
<1>4. ResponseAnswersRequest
  BY DEF FabricInit, ResponseAnswersRequest
<1>5. FabricTypeOK
  BY FabricInitTypeOK
<1> QED BY <1>1, <1>2, <1>3, <1>4, <1>5 DEF FabricInv

(* A change of the clients' level signals disturbs no waiting client.      *)
LEMMA ClientStepInv == ASSUME FabricInv, FabricTypeOK', ClientStep PROVE FabricInv'
<1> USE DEF FabricInv
<1> DEFINE Kept == \A c \in Client : /\ (phase[c] = "wait")' <=> (phase[c] = "wait")
                                     /\ phase[c] = "wait" => (want[c])' = want[c]
<1>1. UNCHANGED <<master, arbiter, slave>>
  BY DEF ClientStep, Request1, LaunchWalk, TakeTrap, WithdrawFetch
<1>2. Kept
  <2>1. ASSUME NEW c \in Sides, Request1(c) PROVE Kept
    BY <2>1 DEF Request1, FabricTypeOK
  <2>2. ASSUME NEW c \in Sides, LaunchWalk(c) PROVE Kept
    BY <2>2 DEF LaunchWalk, FabricTypeOK
  <2>3. ASSUME NEW c \in Sides, TakeTrap(c) PROVE Kept
    BY <2>3 DEF TakeTrap, FabricTypeOK
  <2>4. CASE WithdrawFetch
    BY <2>4 DEF WithdrawFetch, FabricTypeOK
  <2> QED BY <2>1, <2>2, <2>3, <2>4 DEF ClientStep
<1>3. OneOutstanding'
  BY <1>1, <1>2 DEF OneOutstanding, Busy, master, arbiter
<1>4. OnlyDmWrites'
  <2>1. ASSUME NEW c \in Sides, Request1(c) PROVE OnlyDmWrites'
    BY <2>1, RequestKinds DEF Request1, FabricTypeOK, OnlyDmWrites
  <2>2. ASSUME NEW c \in Sides, LaunchWalk(c) PROVE OnlyDmWrites'
    BY <2>2, RequestKinds DEF LaunchWalk, FabricTypeOK, OnlyDmWrites
  <2>3. ASSUME NEW c \in Sides, TakeTrap(c) PROVE OnlyDmWrites'
    BY <2>3 DEF TakeTrap, OnlyDmWrites
  <2>4. CASE WithdrawFetch
    BY <2>4 DEF WithdrawFetch, OnlyDmWrites
  <2> QED BY <2>1, <2>2, <2>3, <2>4 DEF ClientStep
<1>5. Busy => want'[inflightClient] = want[inflightClient]
  BY <1>2 DEF OneOutstanding, FabricTypeOK
<1>6. FabricLatched'
  <2>1. CASE state = "IDLE"
    BY <2>1, <1>1 DEF FabricLatched, master, arbiter, slave
  <2>2. CASE state # "IDLE"
    BY <2>2, <1>1, <1>5 DEF FabricLatched, Busy, master, arbiter, slave
  <2> QED BY <2>1, <2>2
<1>7. ResponseAnswersRequest'
  BY <1>1, <1>5 DEF ResponseAnswersRequest, Busy, master, arbiter, slave
<1> QED BY <1>3, <1>4, <1>6, <1>7

(* Granting starts a transaction for the client that is asking. *)
LEMMA GrantInv == ASSUME FabricInv, FabricTypeOK', NEW c \in Client, Grant(c) PROVE FabricInv'
<1> USE DEF FabricInv
<1>1. phase[c] = "ask" /\ want[c] \in Request
  BY DEF Grant, PickedRequest, Picked, PickPtw, PickIf, PickDm, Asking, FabricTypeOK, Client, Sides
<1>2. OneOutstanding'
  BY <1>1 DEF Grant, PickedRequest, ReqReady, OneOutstanding, Busy, FabricTypeOK
<1>3. OnlyDmWrites'
  BY DEF Grant, PickedRequest, OnlyDmWrites
<1>4. FabricLatched'
  <2>1. CASE want[c].wen
    BY <2>1 DEF Grant, PickedRequest, ReqReady, FabricLatched, slave
  <2>2. CASE ~want[c].wen
    BY <2>2 DEF Grant, PickedRequest, ReqReady, FabricLatched, slave
  <2> QED BY <2>1, <2>2
<1>5. ResponseAnswersRequest'
  BY DEF Grant, PickedRequest, ReqReady, ResponseAnswersRequest
<1> QED BY <1>2, <1>3, <1>4, <1>5

(* The handshakes of the write and read channels and their responses.      *)
LEMMA TransferInv ==
  ASSUME FabricInv, FabricTypeOK', Write \/ WriteB \/ Read \/ ReadR PROVE FabricInv'
<1> USE DEF FabricInv
<1>1. UNCHANGED <<arbiter, phase, want>>
  BY DEF Write, WriteB, Read, ReadR, clients
<1>2. Busy /\ Busy'
  BY DEF Write, WriteB, Read, ReadR, Busy
<1>3. OneOutstanding'
  BY <1>1, <1>2 DEF OneOutstanding, arbiter
<1>4. OnlyDmWrites'
  BY <1>1 DEF OnlyDmWrites
<1>5. FabricLatched'
  <2>1. CASE Write
    BY <2>1 DEF Write, FabricLatched, arbiter, clients, FabricTypeOK
  <2>2. CASE WriteB
    BY <2>2 DEF WriteB, FabricLatched, arbiter, clients
  <2>3. CASE Read
    BY <2>3 DEF Read, FabricLatched, arbiter, clients
  <2>4. CASE ReadR
    BY <2>4 DEF ReadR, FabricLatched, arbiter, clients
  <2> QED BY <2>1, <2>2, <2>3, <2>4
<1>6. ResponseAnswersRequest'
  <2>1. CASE Write
    BY <2>1 DEF Write, FabricLatched, ResponseAnswersRequest
  <2>2. CASE WriteB
    BY <2>2 DEF WriteB, FabricLatched, ResponseAnswersRequest, arbiter, clients, FabricTypeOK
  <2>3. CASE Read
    BY <2>3 DEF Read, FabricLatched, ResponseAnswersRequest
  <2>4. CASE ReadR
    BY <2>4 DEF ReadR, FabricLatched, ResponseAnswersRequest, arbiter, clients, FabricTypeOK
  <2> QED BY <2>1, <2>2, <2>3, <2>4
<1> QED BY <1>3, <1>4, <1>5, <1>6

(* The response pulse frees the client it is routed to.                    *)
LEMMA RespondInv == ASSUME FabricInv, FabricTypeOK', Respond PROVE FabricInv'
<1> USE DEF FabricInv
<1>1. state = "IDLE"
  BY DEF Respond, FabricLatched
<1>2. \A c \in Client : phase'[c] # "wait"
  <2>1. CASE ReceiveSide
    BY <2>1 DEF ReceiveSide, OneOutstanding, FabricTypeOK
  <2>2. CASE ReceivePtw
    <3>1. phase["PTW"] = "wait" /\ \A c \in Client \ {"PTW"} : phase[c] # "wait"
      BY <2>2 DEF ReceivePtw, Respond, OneOutstanding, Busy, Client
    <3>2. walkSide \in Client \ {"PTW"}
      BY DEF FabricTypeOK, Client, Sides
    <3> QED BY <2>2, <3>1, <3>2 DEF ReceivePtw, FabricTypeOK
  <2> QED BY <2>1, <2>2 DEF Respond
<1>3. OneOutstanding'
  BY <1>1, <1>2 DEF Respond, OneOutstanding, Busy
<1>4. OnlyDmWrites'
  BY RequestKinds DEF Respond, ReceiveSide, ReceivePtw, OnlyDmWrites, FabricTypeOK
<1>5. FabricLatched'
  BY <1>1 DEF Respond, FabricLatched, slave
<1>6. ResponseAnswersRequest'
  BY DEF Respond, ResponseAnswersRequest
<1> QED BY <1>3, <1>4, <1>5, <1>6

LEMMA FabricStepInv == FabricInv /\ [FabricNext]_fabricVars => FabricInv'
<1> SUFFICES ASSUME FabricInv, [FabricNext]_fabricVars PROVE FabricInv'
  OBVIOUS
<1>1. FabricTypeOK'
  BY FabricStepTypeOK DEF FabricInv
<1>2. CASE ClientStep
  BY <1>1, <1>2, ClientStepInv
<1>3. CASE GrantStep
  BY <1>1, <1>3, GrantInv DEF GrantStep
<1>4. CASE Write \/ WriteB \/ Read \/ ReadR
  BY <1>1, <1>4, TransferInv
<1>5. CASE Respond
  BY <1>1, <1>5, RespondInv
<1>6. CASE CoolDown \/ UNCHANGED fabricVars
  <2>1. UNCHANGED <<state, addr, wdata, awSent, wSent, rspValid, rspFault, rspData,
                    arbiter, clients, slave>>
    BY <1>6 DEF CoolDown, fabricVars, master
  <2> QED BY <1>1, <2>1 DEF FabricInv, OneOutstanding, OnlyDmWrites, FabricLatched,
                 ResponseAnswersRequest, Busy, arbiter, clients, slave
<1> QED BY <1>2, <1>3, <1>4, <1>5, <1>6 DEF FabricNext, Edge

(* axi4_master.sv and the arbiter of soc_top.sv: what the master and the   *)
(* slave hold is the waiting client's request.                             *)
THEOREM FabricInductive == FabricSpec => []FabricInv
  BY FabricInitInv, FabricStepInv, PTL DEF FabricSpec

(* The single-outstanding master serves one client at a time, and the      *)
(* arbiter's latch names it until its response has been delivered.         *)
THEOREM NoPhantomTransaction == FabricSpec => []NoPhantom
<1>1. FabricInv => NoPhantom
  BY DEF FabricInv, NoPhantom
<1> QED BY <1>1, FabricInductive, PTL

(* Every response pulse is the answer to the waiting client's request.     *)
THEOREM ResponsesAreRight == FabricSpec => []ResponseAnswersRequest
<1>1. FabricInv => ResponseAnswersRequest
  BY DEF FabricInv
<1> QED BY <1>1, FabricInductive, PTL

(* Memory changes only as the waiting data write asked.                    *)
THEOREM OnlyRequestedWrites == FabricSpec => WritesAreRequested
<1> DEFINE A == mem' # mem => /\ phase["DM"] = "wait" /\ want["DM"].wen
                             /\ mem' = [mem EXCEPT ![want["DM"].addr] = want["DM"].wdata]
<1>1. FabricInv /\ [FabricNext]_fabricVars => [A]_fabricVars
  <2> SUFFICES ASSUME FabricInv, FabricNext, mem' # mem PROVE A
    BY DEF fabricVars
  <2>1. WriteB
    BY DEF FabricNext, ClientStep, Request1, LaunchWalk, TakeTrap, WithdrawFetch, Edge, GrantStep,
           Grant, PickedRequest, Write, Read, ReadR, Respond, CoolDown, slave
  <2>2. inflightClient = "DM" /\ phase["DM"] = "wait"
    BY <2>1 DEF FabricInv, WriteB, FabricLatched, OnlyDmWrites, OneOutstanding, Busy, FabricTypeOK
  <2> QED BY <2>1, <2>2 DEF FabricInv, WriteB, FabricLatched
<1> QED BY <1>1, FabricInductive, PTL DEF FabricSpec, WritesAreRequested
=============================================================================
