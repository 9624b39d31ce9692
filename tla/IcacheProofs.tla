---------------------------- MODULE IcacheProofs ----------------------------
(***************************************************************************)
(* No word from before a FENCE.I is executed after it: for every geometry  *)
(* of the cache, every contents of its RAMs at power up, every program and *)
(* every pace of its stores.                                               *)
(***************************************************************************)
EXTENDS Icache, TLAPS

-----------------------------------------------------------------------------
(* The invariant.                                                          *)

(* A value the fetch engine may still use: one its word has had since the  *)
(* last FENCE.I, and while a FENCE.I is on its way the very value it has.  *)
Fresh(v, a) == v \in since[a] /\ (fence # 0 => v = sram[a])

WordAddr(o) == [saved_addr EXCEPT !.woff = o]

(* Nothing is fetched behind an instruction that waits in decode, and      *)
(* behind FENCE.I nothing can store.                                       *)
Serialised ==
    /\ id # "empty" => ~inflight
    /\ fence # 0 => ~busy

(* The answer that is under way is the next word of the fill.              *)
Counting ==
    /\ state = "FILL" => /\ fill_rsp_cnt < LineWords
                         /\ fill_req_cnt = fill_rsp_cnt + (IF a_rsp.valid THEN 1 ELSE 0)
    /\ state \in {"IDLE", "LOOKUP"} => fill_req_cnt = 0 /\ fill_rsp_cnt = 0
    /\ state # "FILL" => ~a_rsp.valid
    /\ state # "DONE" => ~rsp_hit

Filling ==
    state = "FILL" =>
       /\ \A o \in Woff :
             o < fill_rsp_cnt => Fresh(data_ram[victim_way][set][o], WordAddr(o))
       /\ a_rsp.valid => Fresh(a_rsp.rdata, WordAddr(fill_rsp_cnt))
       /\ fill_rsp_cnt > saved_addr.woff => Fresh(fill_target, saved_addr)

(* A request that was not squashed has met no FENCE.I.                     *)
Answering ==
    ~squash =>
       /\ state = "LOOKUP" => valid_rd \subseteq valid_bits[set]
       /\ state = "DONE" /\ rsp_hit => /\ rsp_way \in valid_bits[set]
                                       /\ tag_ram[rsp_way][set] = saved_addr.tag
       /\ state = "DONE" /\ ~rsp_hit => fill_target \in since[saved_addr]

SramIsSince == \A a \in Addr : sram[a] \in since[a]

IInv == FenceClears /\ Serialised /\ Counting /\ Filling /\ Answering /\ SramIsSince

-----------------------------------------------------------------------------
(* The operators.                                                          *)

LEMMA LowOfWord == ASSUME NEW n \in 0..(LineWords - 1) PROVE Low(n) = n
  BY GeometryAssumption DEF GeometryAssumption, Low

LEMMA LowIsWoff == ASSUME NEW n \in Nat PROVE Low(n) \in Woff
  BY GeometryAssumption DEF GeometryAssumption, Low, Woff

LEMMA WordOfLine ==
  ASSUME NEW a \in Addr, NEW o \in Woff
  PROVE  /\ [a EXCEPT !.woff = o] \in Addr
         /\ [a EXCEPT !.woff = o] = [tag |-> a.tag, set |-> a.set, woff |-> o]
  BY DEF Addr

LEMMA PlruTypes ==
  ASSUME NEW p \in Plru, NEW w \in Way
  PROVE  plru_pick(p) \in Way /\ plru_update(p, w) \in Plru
<1>1. plru_pick(p) \in Way
  BY DEF plru_pick, Way
<1>2. plru_update(p, w) \in Plru
  <2>1. CASE w \in {0, 1}
    <3>1. (w = 0) \in BOOLEAN
      BY Zenon
    <3>2. PICK b \in BOOLEAN : plru_update(p, w) = [p EXCEPT ![2] = TRUE, ![1] = b]
      BY <2>1, <3>1, Zenon DEF plru_update
    <3> QED BY <3>2 DEF Plru
  <2>2. CASE w \notin {0, 1}
    <3>1. (w = 2) \in BOOLEAN
      BY Zenon
    <3>2. PICK b \in BOOLEAN : plru_update(p, w) = [p EXCEPT ![2] = FALSE, ![0] = b]
      BY <2>2, <3>1, Zenon DEF plru_update
    <3> QED BY <3>2 DEF Plru
  <2> QED BY <2>1, <2>2
<1> QED BY <1>1, <1>2

LEMMA HitWayHits ==
  ASSUME TypeOK, hit_any
  PROVE  hit_way \in HitWays /\ hit_way \in Way /\ HitWays \subseteq valid_rd
<1>1. HitWays \subseteq 0..3 /\ HitWays # {} /\ HitWays \subseteq valid_rd
  BY DEF TypeOK, HitWays, hit_any, Way
<1>2. \E w \in HitWays : \A v \in HitWays : v <= w
  <2> HIDE DEF HitWays
  <2>1. CASE 3 \in HitWays
    BY <1>1, <2>1
  <2>2. CASE 3 \notin HitWays /\ 2 \in HitWays
    BY <1>1, <2>2
  <2>3. CASE 3 \notin HitWays /\ 2 \notin HitWays /\ 1 \in HitWays
    BY <1>1, <2>3
  <2>4. CASE 3 \notin HitWays /\ 2 \notin HitWays /\ 1 \notin HitWays
    <3>1. \A v \in HitWays : v = 0
      BY <1>1, <2>4
    <3>2. PICK w \in HitWays : TRUE
      BY <1>1
    <3> QED BY <3>1, <3>2
  <2> QED BY <2>1, <2>2, <2>3, <2>4
<1>3. hit_way \in HitWays
  BY <1>2 DEF hit_way
<1> QED BY <1>1, <1>3 DEF Way

-----------------------------------------------------------------------------
(* One edge of the core.                                                   *)

Edge(leaves, redirect, st, f, asks) ==
    /\ leaves \in When(MayLeave) /\ redirect \in When(busy) /\ st \in Stored
    /\ f \in IF inflight /\ core_rsp_valid THEN {"other", "fencei"} ELSE {"empty"}
    /\ asks \in IF MayRequest(leaves, redirect) THEN {{}} \cup { {a} : a \in FetchAddr }
                ELSE {{}}
    /\ CoreEdge(asks # {}, leaves, redirect, f)
    /\ StoreEdge(st)
    /\ PortEdge

LEMMA CoreStep ==
  ASSUME IInv, NEW leaves, NEW redirect, NEW st, NEW f, NEW asks,
         Edge(leaves, redirect, st, f, asks)
  PROVE  /\ inflight' \in BOOLEAN /\ squash' \in BOOLEAN /\ busy' \in BOOLEAN
         /\ id' \in {"empty", "other", "fencei"} /\ fence' \in 0..3
         /\ Serialised'
         /\ inflight /\ fence = 0 => fence' = 0
         /\ inflight' <=> ((asks # {} /\ core_req_ready) \/ (inflight /\ ~core_rsp_valid))
         /\ inflight /\ state # "DONE" /\ ~squash' => ~squash /\ ~invalidate
         /\ asks # {} => ~invalidate /\ ~inflight
         /\ fence' # 0 => ~busy
<1>0. /\ inflight \in BOOLEAN /\ squash \in BOOLEAN /\ busy \in BOOLEAN
      /\ id \in {"empty", "other", "fencei"} /\ fence \in 0..3 /\ Serialised
      /\ inflight <=> state # "IDLE"
  BY DEF IInv, FenceClears, TypeOK, WorksForTheCore
<1>1. /\ leaves \in BOOLEAN /\ redirect \in BOOLEAN
      /\ leaves => MayLeave
      /\ redirect => busy
      /\ CoreEdge(asks # {}, leaves, redirect, f)
      /\ asks # {} => MayRequest(leaves, redirect)
      /\ f \in {"other", "fencei", "empty"}
      /\ ~(inflight /\ core_rsp_valid) => f = "empty"
  BY DEF Edge, When
<1> DEFINE accept == asks # {} /\ core_req_ready
<1>2. /\ inflight' <=> (accept \/ (inflight /\ ~core_rsp_valid))
      /\ squash' <=> (inflight' /\ ~accept /\ (squash \/ Flush(redirect)))
      /\ inflight' \in BOOLEAN /\ squash' \in BOOLEAN
  BY <1>1, Zenon DEF CoreEdge
<1>3. /\ id' = IF Flush(redirect) THEN "empty"
             ELSE IF inflight /\ core_rsp_valid /\ ~squash THEN f
             ELSE IF leaves THEN "empty" ELSE id
      /\ busy' \in (IF leaves /\ id = "other" /\ ~Flush(redirect) THEN {TRUE} ELSE {busy, FALSE})
      /\ fence' = IF fence > 0 THEN (IF busy THEN fence ELSE fence - 1)
                ELSE IF leaves /\ id = "fencei" /\ ~Flush(redirect) THEN 3 ELSE 0
  BY <1>1, Zenon DEF CoreEdge
<1>4. busy' \in BOOLEAN
  BY <1>0, <1>3
<1>5. id' \in {"empty", "other", "fencei"}
  BY <1>0, <1>1, <1>3
<1>6. fence' \in 0..3
  BY <1>0, <1>3
<1>7. leaves => fence = 0 /\ (id = "fencei" => ~busy) /\ ~inflight
  BY <1>0, <1>1 DEF MayLeave, FenceMayLeave, Serialised
<1>8. fence' # 0 => ~busy
  BY <1>0, <1>3, <1>7 DEF Serialised
<1>9. fence' # 0 => ~busy'
  <2>1. fence' # 0 => ~(leaves /\ id = "other")
    BY <1>0, <1>3, <1>7
  <2>2. fence' # 0 => busy' \in {busy, FALSE}
    BY <1>3, <2>1
  <2> QED BY <1>0, <1>4, <1>8, <2>2
<1>10. asks # {} => ~invalidate /\ ~inflight /\ (id = "empty" \/ leaves) /\ ~Flush(redirect)
  BY <1>1 DEF MayRequest, Flush
<1>11. id' # "empty" => ~inflight'
  <2>1. CASE accept
    BY <1>3, <1>10, <2>1
  <2>2. CASE ~accept
    BY <1>0, <1>1, <1>2, <1>3, <2>2 DEF Serialised
  <2> QED BY <2>1, <2>2
<1>12. Serialised'
  BY <1>9, <1>11 DEF Serialised
<1>13. inflight /\ fence = 0 => fence' = 0
  BY <1>3, <1>7
<1>14. inflight /\ state # "DONE" /\ ~squash' => ~squash /\ ~invalidate
  BY <1>2, <1>10 DEF core_rsp_valid, Flush
<1> QED BY <1>2, <1>4, <1>5, <1>6, <1>8, <1>10, <1>12, <1>13, <1>14

(* What a store of this edge may do to what was fetched.                   *)
LEMMA StoreStep ==
  ASSUME IInv, NEW leaves, NEW redirect, NEW st, NEW f, NEW asks,
         Edge(leaves, redirect, st, f, asks)
  PROVE  /\ sram' \in [Addr -> Word] /\ since' \in [Addr -> SUBSET Word]
         /\ SramIsSince'
         /\ fence # 0 \/ fence' # 0 => sram' = sram
         /\ ~invalidate => \A a \in Addr : since[a] \subseteq since'[a]
         /\ \A a \in Addr : sram[a] \in since'[a]
<1>1. /\ sram \in [Addr -> Word] /\ since \in [Addr -> SUBSET Word]
      /\ \A a \in Addr : sram[a] \in since[a]
      /\ fence \in 0..3 /\ busy \in BOOLEAN /\ (fence # 0 => ~busy)
  BY DEF IInv, FenceClears, TypeOK, SramIsSince, Serialised
<1>2. fence' # 0 => ~busy
  BY CoreStep
<1>3. /\ st \in Stored
      /\ sram' = [a \in Addr |-> IF a \in DOMAIN st THEN st[a] ELSE sram[a]]
      /\ since' = [a \in Addr |-> IF invalidate THEN {sram'[a]} ELSE since[a] \cup {sram'[a]}]
  BY DEF Edge, StoreEdge
<1>4. \A a \in DOMAIN st : st[a] \in Word
  <2>1. CASE st = <<>>
    BY <2>1
  <2>2. CASE st # <<>>
    <3>1. st \in UNION { [{a} -> Word] : a \in StoreAddr }
      BY <1>3, <2>2, Zenon DEF Stored
    <3>2. PICK b \in StoreAddr : st \in [{b} -> Word]
      BY <3>1
    <3> QED BY <3>2
  <2> QED BY <2>1, <2>2
<1>5. sram' \in [Addr -> Word]
  BY <1>1, <1>3, <1>4
<1>6. since' \in [Addr -> SUBSET Word]
  BY <1>1, <1>3, <1>5
<1>7. ~busy => sram' = sram
  <2> SUFFICES ASSUME ~busy PROVE sram' = sram
    OBVIOUS
  <2>1. st = <<>>
    BY <1>3 DEF Stored
  <2>2. DOMAIN st = {}
    BY <2>1
  <2>3. \A a \in Addr : sram'[a] = sram[a]
    BY <1>3, <2>2
  <2> QED BY <1>1, <1>5, <2>3
<1>8. SramIsSince'
  BY <1>3 DEF SramIsSince
<1>9. ~invalidate => \A a \in Addr : since[a] \subseteq since'[a]
  BY <1>3
<1>10. \A a \in Addr : sram[a] \in since'[a]
  BY <1>1, <1>2, <1>3, <1>7, <1>9 DEF invalidate
<1> QED BY <1>1, <1>2, <1>5, <1>6, <1>7, <1>8, <1>9, <1>10

(* What was fresh stays fresh for a fetch in flight: a FENCE.I does not    *)
(* start during it, and one that is on its way has stopped the stores.     *)
LEMMA FreshStep ==
  ASSUME IInv, NEW leaves, NEW redirect, NEW st, NEW f, NEW asks,
         Edge(leaves, redirect, st, f, asks), inflight
  PROVE  /\ \A v : \A a \in Addr : Fresh(v, a) => v \in since'[a] /\ (fence' # 0 => v = sram'[a])
         /\ \A a \in Addr : sram[a] \in since'[a] /\ (fence' # 0 => sram[a] = sram'[a])
<1>1. /\ fence # 0 \/ fence' # 0 => sram' = sram
      /\ ~invalidate => \A a \in Addr : since[a] \subseteq since'[a]
      /\ \A a \in Addr : sram[a] \in since'[a]
  BY StoreStep
<1>2. fence = 0 => fence' = 0
  BY CoreStep
<1> QED BY <1>1, <1>2 DEF Fresh, invalidate
-----------------------------------------------------------------------------
(* One edge of the port and of the cache.                                  *)

CacheTypes ==
    /\ state \in {"IDLE", "LOOKUP", "FILL", "DONE"} /\ saved_addr \in Addr
    /\ fill_req_cnt \in 0..LineWords /\ fill_rsp_cnt \in 0..LineWords
    /\ victim_way \in Way /\ fill_target \in Word /\ rsp_hit \in BOOLEAN /\ rsp_way \in Way
    /\ valid_rd \subseteq Way
    /\ tag_ram \in [Way -> [Set -> Tag]] /\ data_ram \in [Way -> [Set -> [Woff -> Word]]]
    /\ valid_bits \in [Set -> SUBSET Way] /\ plru_ram \in [Set -> Plru]

LEMMA ZeroIsWord == Zero \in Word
  BY IcacheAssumption DEF IcacheAssumption, Zero

LEMMA SetIsSet == ASSUME TypeOK PROVE set \in Set /\ saved_addr.woff \in Woff /\ saved_addr.tag \in Tag
  BY DEF TypeOK, set, Addr

LEMMA PortStep ==
  ASSUME IInv, PortEdge
  PROVE  /\ a_rsp' \in [valid : BOOLEAN, rdata : Word]
         /\ a_rsp'.valid <=> mem_req_valid
         /\ mem_req_valid => /\ fill_req_cnt \in Woff /\ WordAddr(fill_req_cnt) \in Addr
                             /\ a_rsp'.rdata = sram[WordAddr(fill_req_cnt)]
<1>1. /\ saved_addr \in Addr /\ fill_req_cnt \in 0..LineWords /\ LineWords \in Nat \ {0}
      /\ sram \in [Addr -> Word]
  BY GeometryAssumption DEF IInv, FenceClears, TypeOK, GeometryAssumption
<1>2. CASE mem_req_valid
  <2>1. fill_req_cnt \in 0..(LineWords - 1)
    BY <1>1, <1>2 DEF mem_req_valid
  <2>2. Low(fill_req_cnt) = fill_req_cnt /\ fill_req_cnt \in Woff
    BY <2>1, LowOfWord DEF Woff
  <2>3. WordAddr(fill_req_cnt) \in Addr
    BY <1>1, <2>2, WordOfLine DEF WordAddr
  <2>4. a_rsp' = [valid |-> TRUE, rdata |-> sram[WordAddr(fill_req_cnt)]]
    BY <1>2, <2>2 DEF PortEdge, WordAddr
  <2> QED BY <1>1, <1>2, <2>2, <2>3, <2>4
<1>3. CASE ~mem_req_valid
  <2>1. a_rsp' = [valid |-> FALSE, rdata |-> Zero]
    BY <1>3 DEF PortEdge
  <2> QED BY <1>3, <2>1, ZeroIsWord
<1> QED BY <1>2, <1>3

LEMMA InstalledBits ==
  ASSUME TypeOK, NEW ways \in SUBSET Way
  PROVE  /\ Installed(ways) \in [Set -> SUBSET Way]
         /\ \A s \in Set : Installed(ways)[s] =
               IF s = set THEN (IF invalidate THEN {} ELSE valid_bits[s]) \cup ways
               ELSE IF invalidate THEN {} ELSE valid_bits[s]
  BY DEF TypeOK, Installed

LEMMA InstalledNone ==
  ASSUME TypeOK
  PROVE  /\ Installed({}) \in [Set -> SUBSET Way]
         /\ \A s \in Set : Installed({})[s] = IF invalidate THEN {} ELSE valid_bits[s]
<1>1. {} \in SUBSET Way
  OBVIOUS
<1> QED BY <1>1, InstalledBits

(* Outside of a fill the lines only lose their valid bits.                 *)
LEMMA LinesKept ==
  ASSUME IInv, NEW leaves, NEW redirect, NEW st, NEW f, NEW asks,
         Edge(leaves, redirect, st, f, asks),
         state # "FILL", valid_bits' = Installed({}), UNCHANGED <<tag_ram, data_ram>>
  PROVE  LinesSinceFence'
<1>1. SUFFICES ASSUME NEW s \in Set, NEW w \in valid_bits'[s], NEW o \in Woff
               PROVE  data_ram[w][s][o] \in since'[[tag |-> tag_ram[w][s], set |-> s, woff |-> o]]
  BY DEF LinesSinceFence
<1>2. TypeOK /\ LinesSinceFence
  BY DEF IInv, FenceClears
<1>3. ~invalidate /\ w \in valid_bits[s] /\ w \in Way
  BY <1>2, InstalledNone DEF TypeOK
<1> DEFINE a == [tag |-> tag_ram[w][s], set |-> s, woff |-> o]
<1>4. a \in Addr
  BY <1>2, <1>3 DEF TypeOK, Addr
<1>5. data_ram[w][s][o] \in since[a]
  BY <1>2, <1>3 DEF LinesSinceFence
<1> HIDE DEF a
<1>6. since[a] \subseteq since'[a]
  BY <1>3, <1>4, StoreStep
<1> QED BY <1>5, <1>6 DEF a

LEMMA AddUp ==
  ASSUME IInv, NEW leaves, NEW redirect, NEW st, NEW f, NEW asks,
         Edge(leaves, redirect, st, f, asks),
         CacheTypes', LinesSinceFence', WorksForTheCore', Counting', Filling', Answering'
  PROVE  IInv'
<1>1. TypeOK'
  BY CoreStep, StoreStep, PortStep DEF TypeOK, CacheTypes, Edge
<1>2. Serialised' /\ SramIsSince'
  BY CoreStep, StoreStep
<1> QED BY <1>1, <1>2 DEF IInv, FenceClears

LEMMA AcceptStep ==
  ASSUME IInv, NEW leaves, NEW redirect, NEW st, NEW f, NEW asks,
         Edge(leaves, redirect, st, f, asks), asks # {}, NEW a \in asks, Accept(a)
  PROVE  IInv'
<1>1. TypeOK /\ WorksForTheCore /\ Counting
  BY DEF IInv, FenceClears
<1>2. a \in Addr
  <2>1. asks \in {{}} \cup { {b} : b \in FetchAddr }
    BY DEF Edge
  <2>2. PICK b \in FetchAddr : asks = {b}
    BY <2>1
  <2> QED BY <2>2, IcacheAssumption DEF IcacheAssumption
<1>3. a.set \in Set
  BY <1>2 DEF Addr
<1>4. ~invalidate /\ state = "IDLE" /\ inflight'
  BY CoreStep DEF Accept, core_req_ready
<1>5. valid_bits' = Installed({}) /\ valid_bits' = valid_bits
  <2>1. valid_bits' = Installed({})
    BY DEF Accept
  <2>2. valid_bits \in [Set -> SUBSET Way]
    BY <1>1 DEF TypeOK
  <2> QED BY <1>1, <1>4, <2>1, <2>2, InstalledNone
<1>6. CacheTypes'
  BY <1>1, <1>2, <1>3, <1>5 DEF TypeOK, CacheTypes, Accept
<1>7. LinesSinceFence'
  BY <1>4, <1>5, LinesKept DEF Accept
<1>8. WorksForTheCore'
  BY <1>4 DEF WorksForTheCore, Accept
<1>9. Counting'
  <2>1. ~a_rsp'.valid
    BY <1>4, PortStep DEF Edge, mem_req_valid
  <2> QED BY <1>1, <1>4, <2>1 DEF Counting, Accept
<1>10. Filling'
  BY DEF Filling, Accept
<1>11. Answering'
  <2>1. valid_rd' \subseteq valid_bits'[set']
    BY <1>5 DEF Accept, set
  <2> QED BY <2>1 DEF Answering, Accept
<1> QED BY <1>6, <1>7, <1>8, <1>9, <1>10, <1>11, AddUp

LEMMA NoRequestStep ==
  ASSUME IInv, NEW leaves, NEW redirect, NEW st, NEW f, NEW asks,
         Edge(leaves, redirect, st, f, asks), asks = {}, NoRequest
  PROVE  IInv'
<1>1. TypeOK /\ WorksForTheCore /\ Counting
  BY DEF IInv, FenceClears
<1>2. /\ state = "IDLE" /\ valid_bits' = Installed({})
      /\ UNCHANGED <<state, saved_addr, fill_req_cnt, fill_rsp_cnt, victim_way, fill_target,
                     rsp_hit, rsp_way, valid_rd, tag_ram, data_ram, plru_ram>>
  BY DEF NoRequest, fsm
<1>3. CacheTypes'
  BY <1>1, <1>2, InstalledNone DEF TypeOK, CacheTypes
<1>4. LinesSinceFence'
  BY <1>2, LinesKept
<1>5. WorksForTheCore'
  <2>1. ~inflight /\ (inflight' <=> (inflight /\ ~core_rsp_valid))
    BY <1>1, <1>2, CoreStep DEF WorksForTheCore
  <2> QED BY <1>2, <2>1 DEF WorksForTheCore
<1>6. Counting'
  <2>1. ~a_rsp'.valid
    BY <1>2, PortStep DEF Edge, mem_req_valid
  <2> QED BY <1>1, <1>2, <2>1 DEF Counting
<1>7. Filling' /\ Answering'
  BY <1>2 DEF Filling, Answering
<1> QED BY <1>3, <1>4, <1>5, <1>6, <1>7, AddUp

(* A request under way stays under way, and stays unsquashed only if it    *)
(* meets no FENCE.I.                                                       *)
LEMMA UnderWay ==
  ASSUME IInv, NEW leaves, NEW redirect, NEW st, NEW f, NEW asks,
         Edge(leaves, redirect, st, f, asks), state \in {"LOOKUP", "FILL"}
  PROVE  /\ inflight /\ inflight'
         /\ ~squash' => ~squash /\ ~invalidate
<1>1. inflight /\ ~core_rsp_valid /\ state # "DONE"
  BY DEF IInv, FenceClears, WorksForTheCore, core_rsp_valid
<1> QED BY <1>1, CoreStep

LEMMA LookupHitStep ==
  ASSUME IInv, NEW leaves, NEW redirect, NEW st, NEW f, NEW asks,
         Edge(leaves, redirect, st, f, asks), LookupHit
  PROVE  IInv'
<1>1. TypeOK /\ Counting /\ Answering
  BY DEF IInv, FenceClears
<1>2. /\ state = "LOOKUP" /\ hit_any /\ state' = "DONE" /\ rsp_hit' = TRUE /\ rsp_way' = hit_way
      /\ valid_rd' = {} /\ valid_bits' = Installed({})
      /\ plru_ram' = [plru_ram EXCEPT ![set] = plru_update(@, hit_way)]
      /\ UNCHANGED <<saved_addr, fill_req_cnt, fill_rsp_cnt, victim_way, fill_target,
                     tag_ram, data_ram>>
  BY DEF LookupHit
<1>3. hit_way \in HitWays /\ hit_way \in Way /\ HitWays \subseteq valid_rd
  BY <1>1, <1>2, HitWayHits
<1>4. plru_ram' \in [Set -> Plru]
  BY <1>1, <1>2, <1>3, SetIsSet, PlruTypes DEF TypeOK
<1>5. CacheTypes'
  BY <1>1, <1>2, <1>3, <1>4, InstalledNone DEF TypeOK, CacheTypes
<1>6. LinesSinceFence'
  BY <1>2, LinesKept
<1>7. inflight' /\ (~squash' => ~squash /\ ~invalidate)
  BY <1>2, UnderWay
<1>8. WorksForTheCore'
  BY <1>2, <1>7 DEF WorksForTheCore
<1>9. Counting'
  <2>1. ~a_rsp'.valid
    BY <1>2, PortStep DEF Edge, mem_req_valid
  <2> QED BY <1>1, <1>2, <2>1 DEF Counting
<1>10. Filling'
  BY <1>2 DEF Filling
<1>11. Answering'
  <2> SUFFICES ASSUME ~squash'
               PROVE  rsp_way' \in valid_bits'[set'] /\ tag_ram'[rsp_way'][set'] = saved_addr'.tag
    BY <1>2 DEF Answering
  <2>1. hit_way \in valid_bits[set] /\ tag_ram[hit_way][set] = saved_addr.tag
    BY <1>1, <1>2, <1>3, <1>7 DEF Answering, HitWays
  <2>2. valid_bits'[set] = valid_bits[set]
    BY <1>1, <1>2, <1>7, SetIsSet, InstalledNone
  <2> QED BY <1>2, <2>1, <2>2 DEF set
<1> QED BY <1>5, <1>6, <1>8, <1>9, <1>10, <1>11, AddUp

LEMMA LookupMissStep ==
  ASSUME IInv, NEW leaves, NEW redirect, NEW st, NEW f, NEW asks,
         Edge(leaves, redirect, st, f, asks), LookupMiss
  PROVE  IInv'
<1>1. TypeOK /\ Counting
  BY DEF IInv, FenceClears
<1>2. /\ state = "LOOKUP" /\ state' = "FILL" /\ victim_way' = plru_pick(plru_ram[set])
      /\ valid_rd' = {} /\ valid_bits' = Installed({})
      /\ UNCHANGED <<saved_addr, fill_req_cnt, fill_rsp_cnt, fill_target, rsp_hit, rsp_way,
                     tag_ram, data_ram, plru_ram>>
  BY DEF LookupMiss
<1>3. victim_way' \in Way
  <2>1. plru_ram[set] \in Plru
    BY <1>1, SetIsSet DEF TypeOK
  <2>2. 0 \in Way
    BY DEF Way
  <2> QED BY <1>2, <2>1, <2>2, PlruTypes
<1>4. CacheTypes'
  BY <1>1, <1>2, <1>3, InstalledNone DEF TypeOK, CacheTypes
<1>5. LinesSinceFence'
  BY <1>2, LinesKept
<1>6. WorksForTheCore'
  BY <1>2, UnderWay DEF WorksForTheCore
<1>7. ~a_rsp'.valid
  BY <1>2, PortStep DEF Edge, mem_req_valid
<1>8. fill_req_cnt' = 0 /\ fill_rsp_cnt' = 0 /\ ~rsp_hit'
  BY <1>1, <1>2 DEF Counting
<1>9. Counting'
  BY <1>2, <1>7, <1>8, GeometryAssumption DEF Counting, GeometryAssumption
<1>10. Filling'
  <2>1. ~(fill_rsp_cnt' > saved_addr'.woff) /\ \A o \in Woff : ~(o < fill_rsp_cnt')
    BY <1>1, <1>2, <1>8, SetIsSet, GeometryAssumption DEF Woff, GeometryAssumption
  <2> QED BY <1>7, <2>1 DEF Filling
<1>11. Answering'
  BY <1>2 DEF Answering
<1> QED BY <1>4, <1>5, <1>6, <1>9, <1>10, <1>11, AddUp

LEMMA RespondStep ==
  ASSUME IInv, NEW leaves, NEW redirect, NEW st, NEW f, NEW asks,
         Edge(leaves, redirect, st, f, asks), Respond
  PROVE  IInv'
<1>1. TypeOK /\ WorksForTheCore /\ Counting
  BY DEF IInv, FenceClears
<1>2. /\ state = "DONE" /\ state' = "IDLE" /\ saved_addr' = NoAddr
      /\ fill_req_cnt' = 0 /\ fill_rsp_cnt' = 0 /\ victim_way' = 0 /\ fill_target' = Zero
      /\ rsp_hit' = FALSE /\ rsp_way' = 0 /\ valid_bits' = Installed({})
      /\ UNCHANGED <<valid_rd, tag_ram, data_ram, plru_ram>>
  BY DEF Respond
<1>3. CacheTypes'
  <2>1. 0 \in Way /\ 0 \in 0..LineWords
    BY GeometryAssumption DEF GeometryAssumption, Way
  <2>2. NoAddr \in Addr /\ Zero \in Word
    BY ZeroIsWord, IcacheAssumption DEF IcacheAssumption
  <2> QED BY <1>1, <1>2, <2>1, <2>2, InstalledNone DEF TypeOK, CacheTypes
<1>4. LinesSinceFence'
  BY <1>2, LinesKept
<1>5. WorksForTheCore'
  <2>1. ~core_req_ready /\ core_rsp_valid
    BY <1>2 DEF core_rsp_valid, core_req_ready
  <2>2. ~inflight'
    BY <2>1, CoreStep
  <2> QED BY <1>2, <2>2 DEF WorksForTheCore
<1>6. Counting'
  <2>1. ~a_rsp'.valid
    BY <1>2, PortStep DEF Edge, mem_req_valid
  <2> QED BY <1>1, <1>2, <2>1 DEF Counting
<1>7. Filling' /\ Answering'
  BY <1>2 DEF Filling, Answering
<1> QED BY <1>3, <1>4, <1>5, <1>6, <1>7, AddUp
(* A word of the fill, whose line becomes visible with the last one.       *)
LEMMA FillStep ==
  ASSUME IInv, NEW leaves, NEW redirect, NEW st, NEW f, NEW asks,
         Edge(leaves, redirect, st, f, asks), Fill
  PROVE  IInv'
<1> DEFINE n == fill_rsp_cnt  v == victim_way
<1>1. TypeOK /\ Counting /\ Filling /\ LinesSinceFence
  BY DEF IInv, FenceClears
<1>2. /\ state = "FILL"
      /\ fill_req_cnt' = IF mem_req_valid THEN fill_req_cnt + 1 ELSE fill_req_cnt
      /\ n' = IF a_rsp.valid THEN n + 1 ELSE n
      /\ data_ram' = IF a_rsp.valid
                     THEN [data_ram EXCEPT ![v][set][Low(n)] = a_rsp.rdata] ELSE data_ram
      /\ fill_target' = IF a_rsp.valid /\ Low(n) = saved_addr.woff THEN a_rsp.rdata
                        ELSE fill_target
      /\ UNCHANGED <<saved_addr, victim_way, rsp_hit, rsp_way, valid_rd>>
  BY DEF Fill
<1>3. /\ n' = LineWords => /\ state' = "DONE"
                           /\ tag_ram' = [tag_ram EXCEPT ![v][set] = saved_addr.tag]
                           /\ valid_bits' = Installed({v})
                           /\ plru_ram' = [plru_ram EXCEPT ![set] = plru_update(@, v)]
      /\ n' # LineWords => /\ state' = "FILL" /\ valid_bits' = Installed({})
                           /\ UNCHANGED <<tag_ram, plru_ram>>
  BY <1>2 DEF Fill
<1>4. /\ LineWords \in Nat \ {0} /\ n \in 0..(LineWords - 1) /\ n \in Woff /\ Low(n) = n
      /\ fill_req_cnt = n + (IF a_rsp.valid THEN 1 ELSE 0) /\ fill_req_cnt \in 0..LineWords
      /\ Woff = 0..(LineWords - 1)
  <2>1. /\ n \in 0..LineWords /\ n < LineWords /\ LineWords \in Nat \ {0}
        /\ fill_req_cnt = n + (IF a_rsp.valid THEN 1 ELSE 0) /\ fill_req_cnt \in 0..LineWords
    BY <1>1, <1>2, GeometryAssumption DEF TypeOK, Counting, GeometryAssumption
  <2> QED BY <2>1, LowOfWord DEF Woff
<1>5. /\ set \in Set /\ saved_addr \in Addr /\ saved_addr.woff \in Woff /\ saved_addr.tag \in Tag
      /\ saved_addr.set = set /\ v \in Way /\ a_rsp.rdata \in Word /\ a_rsp.valid \in BOOLEAN
      /\ data_ram \in [Way -> [Set -> [Woff -> Word]]] /\ tag_ram \in [Way -> [Set -> Tag]]
  BY <1>1, SetIsSet DEF TypeOK, set
<1>6. inflight /\ inflight' /\ (~squash' => ~squash /\ ~invalidate)
  BY <1>2, UnderWay
<1>7. /\ \A w \in Way, s \in Set, o \in Woff :
            data_ram'[w][s][o] = IF a_rsp.valid /\ w = v /\ s = set /\ o = n THEN a_rsp.rdata
                                 ELSE data_ram[w][s][o]
      /\ data_ram' \in [Way -> [Set -> [Woff -> Word]]]
  <2>1. CASE a_rsp.valid
    <3>1. data_ram' = [data_ram EXCEPT ![v][set][n] = a_rsp.rdata]
      BY <1>2, <1>4, <2>1
    <3> QED BY <1>4, <1>5, <2>1, <3>1
  <2>2. CASE ~a_rsp.valid
    BY <1>2, <1>5, <2>2
  <2> QED BY <2>1, <2>2
<1>8. n' \in 0..LineWords /\ fill_req_cnt' \in 0..LineWords
  BY <1>2, <1>4 DEF mem_req_valid
<1> HIDE DEF n, v
<1>9. CacheTypes'
  <2>1. fill_target' \in Word
    BY <1>1, <1>2, <1>5 DEF TypeOK
  <2>2. tag_ram' \in [Way -> [Set -> Tag]] /\ valid_bits' \in [Set -> SUBSET Way]
    <3>1. CASE n' = LineWords
      <4>1. {v} \in SUBSET Way
        BY <1>5
      <4>2. Installed({v}) \in [Set -> SUBSET Way]
        BY <1>1, <4>1, InstalledBits
      <4>3. tag_ram' = [tag_ram EXCEPT ![v][set] = saved_addr.tag]
        BY <1>3, <3>1
      <4>4. tag_ram' \in [Way -> [Set -> Tag]]
        BY <1>5, <4>3
      <4> QED BY <1>3, <3>1, <4>2, <4>4
    <3>2. CASE n' # LineWords
      BY <1>1, <1>3, <1>5, <3>2, InstalledNone
    <3> QED BY <3>1, <3>2
  <2>3. plru_ram' \in [Set -> Plru]
    <3>1. plru_ram \in [Set -> Plru] /\ plru_ram[set] \in Plru
      BY <1>1, <1>5 DEF TypeOK
    <3>2. plru_update(plru_ram[set], v) \in Plru
      BY <1>5, <3>1, PlruTypes
    <3> QED BY <1>3, <3>1, <3>2
  <2>4. state' \in {"IDLE", "LOOKUP", "FILL", "DONE"}
    BY <1>3
  <2> QED BY <1>1, <1>2, <1>7, <1>8, <2>1, <2>2, <2>3, <2>4 DEF TypeOK, CacheTypes, n, v
<1>10. WorksForTheCore'
  BY <1>3, <1>6 DEF WorksForTheCore
<1>11. /\ a_rsp'.valid <=> fill_req_cnt < LineWords
       /\ a_rsp'.valid => a_rsp'.rdata = sram[WordAddr(fill_req_cnt)] /\ WordAddr(fill_req_cnt) \in Addr
  BY <1>2, PortStep DEF Edge, mem_req_valid
<1>12. Counting'
  <2>1. n' = fill_req_cnt
    BY <1>2, <1>4
  <2>2. ~rsp_hit'
    BY <1>1, <1>2 DEF Counting
  <2>3. state' = "FILL" => /\ n' < LineWords
                           /\ fill_req_cnt' = n' + (IF a_rsp'.valid THEN 1 ELSE 0)
    BY <1>2, <1>3, <1>4, <1>8, <1>11, <2>1 DEF mem_req_valid
  <2>4. state' # "FILL" => ~a_rsp'.valid
    BY <1>3, <1>4, <1>11, <2>1
  <2> QED BY <1>3, <2>2, <2>3, <2>4 DEF Counting, n
<1>13. \A x : \A a \in Addr : Fresh(x, a) => x \in since'[a] /\ (fence' # 0 => x = sram'[a])
  BY <1>6, FreshStep
<1>14. \A o \in Woff : WordAddr(o) \in Addr /\ WordAddr(o)' = WordAddr(o)
                       /\ WordAddr(o) = [tag |-> saved_addr.tag, set |-> set, woff |-> o]
  BY <1>2, <1>5, WordOfLine DEF WordAddr
<1>15. \A o \in Woff : o < n' => Fresh(data_ram'[v][set][o], WordAddr(o))
  <2> SUFFICES ASSUME NEW o \in Woff, o < n' PROVE Fresh(data_ram'[v][set][o], WordAddr(o))
    OBVIOUS
  <2>1. CASE a_rsp.valid /\ o = n
    <3>1. Fresh(a_rsp.rdata, WordAddr(n))
      BY <1>1, <1>2, <2>1 DEF Filling, n
    <3> QED BY <1>5, <1>7, <2>1, <3>1
  <2>2. CASE ~(a_rsp.valid /\ o = n)
    <3>1. o < n
      BY <1>2, <1>4, <2>2
    <3>2. Fresh(data_ram[v][set][o], WordAddr(o))
      BY <1>1, <1>2, <3>1 DEF Filling, n, v
    <3> QED BY <1>5, <1>7, <2>2, <3>2
  <2> QED BY <2>1, <2>2
<1>16. n' > saved_addr.woff => Fresh(fill_target', saved_addr)
  <2> SUFFICES ASSUME n' > saved_addr.woff PROVE Fresh(fill_target', saved_addr)
    OBVIOUS
  <2>1. CASE a_rsp.valid /\ n = saved_addr.woff
    <3>1. Fresh(a_rsp.rdata, WordAddr(n))
      BY <1>1, <1>2, <2>1 DEF Filling, n
    <3>2. WordAddr(n) = saved_addr
      BY <1>5, <2>1 DEF WordAddr, Addr
    <3> QED BY <1>2, <1>4, <2>1, <3>1, <3>2
  <2>2. CASE ~(a_rsp.valid /\ n = saved_addr.woff)
    <3>1. n > saved_addr.woff
      BY <1>2, <1>4, <1>5, <2>2
    <3>2. fill_target' = fill_target
      BY <1>2, <1>4, <2>2
    <3> QED BY <1>1, <1>2, <3>1, <3>2 DEF Filling, n
  <2> QED BY <2>1, <2>2
<1>17. Filling'
  <2> SUFFICES ASSUME state' = "FILL"
               PROVE  /\ \A o \in Woff : o < n' => Fresh(data_ram[v][set][o], WordAddr(o))'
                      /\ a_rsp'.valid => Fresh(a_rsp.rdata, WordAddr(n))'
                      /\ n' > saved_addr'.woff => Fresh(fill_target, saved_addr)'
    BY DEF Filling, n, v
  <2>1. /\ v' = v /\ set' = set /\ saved_addr' = saved_addr
    BY <1>2 DEF set, v
  <2>2. \A o \in Woff : o < n' => Fresh(data_ram[v][set][o], WordAddr(o))'
    BY <1>13, <1>14, <1>15, <2>1 DEF Fresh
  <2>3. n' > saved_addr'.woff => Fresh(fill_target, saved_addr)'
    BY <1>5, <1>13, <1>16, <2>1 DEF Fresh
  <2>4. a_rsp'.valid => Fresh(a_rsp.rdata, WordAddr(n))'
    <3> SUFFICES ASSUME a_rsp'.valid PROVE Fresh(a_rsp.rdata, WordAddr(n))'
      OBVIOUS
    <3>1. n' = fill_req_cnt /\ n' \in Woff
      BY <1>2, <1>4, <1>11
    <3>2. WordAddr(n)' = WordAddr(fill_req_cnt)
      BY <1>2, <3>1 DEF WordAddr
    <3>3. \A a \in Addr : sram[a] \in since'[a] /\ (fence' # 0 => sram[a] = sram'[a])
      BY <1>6, FreshStep
    <3> QED BY <1>11, <3>2, <3>3 DEF Fresh
  <2> QED BY <2>2, <2>3, <2>4
<1>18. Answering'
  <2> SUFFICES ASSUME ~squash', state' = "DONE" PROVE ~rsp_hit' /\ fill_target' \in since'[saved_addr']
    BY <1>3 DEF Answering
  <2>1. n' = LineWords /\ n' > saved_addr.woff
    BY <1>3, <1>4, <1>5
  <2>2. ~rsp_hit'
    BY <1>1, <1>2 DEF Counting
  <2> QED BY <1>2, <1>5, <1>13, <1>16, <2>1, <2>2
<1>19. LinesSinceFence'
  <2> SUFFICES ASSUME NEW s \in Set, NEW w \in valid_bits'[s],
                      ~(state' = "FILL" /\ s = set' /\ w = victim_way'), NEW o \in Woff
               PROVE  data_ram'[w][s][o] \in since'[[tag |-> tag_ram'[w][s], set |-> s, woff |-> o]]
    BY DEF LinesSinceFence
  <2>0. ~(state' = "FILL" /\ s = set /\ w = v) /\ w \in Way
    BY <1>2, <1>9 DEF set, v, CacheTypes
  <2>1. CASE s = set /\ w = v
    <3>1. n' = LineWords /\ state' = "DONE" /\ tag_ram'[w][s] = saved_addr.tag
      BY <1>3, <1>5, <2>0, <2>1
    <3>2. o < n'
      BY <1>4, <3>1
    <3> QED BY <1>13, <1>14, <1>15, <2>1, <3>1, <3>2
  <2>2. CASE ~(s = set /\ w = v)
    <3>1. ~invalidate /\ w \in valid_bits[s]
      <4>1. {v} \in SUBSET Way
        BY <1>5
      <4>2. CASE n' = LineWords
        <5>1. Installed({v})[s] = IF s = set THEN (IF invalidate THEN {} ELSE valid_bits[s]) \cup {v}
                                  ELSE IF invalidate THEN {} ELSE valid_bits[s]
          BY <1>1, <4>1, InstalledBits
        <5> QED BY <1>3, <2>2, <4>2, <5>1
      <4>3. CASE n' # LineWords
        BY <1>1, <1>3, <4>3, InstalledNone
      <4> QED BY <4>2, <4>3
    <3>2. tag_ram'[w][s] = tag_ram[w][s] /\ tag_ram[w][s] \in Tag
      BY <1>3, <1>5, <2>0, <2>2
    <3>3. data_ram'[w][s][o] = data_ram[w][s][o]
      BY <1>7, <2>0, <2>2
    <3> DEFINE a == [tag |-> tag_ram[w][s], set |-> s, woff |-> o]
    <3>4. a \in Addr
      BY <3>2 DEF Addr
    <3>5. data_ram[w][s][o] \in since[a]
      BY <1>1, <2>2, <3>1 DEF LinesSinceFence, v
    <3> HIDE DEF a
    <3>6. since[a] \subseteq since'[a]
      BY <3>1, <3>4, StoreStep
    <3> QED BY <3>2, <3>3, <3>5, <3>6 DEF a
  <2> QED BY <2>1, <2>2
<1> QED BY <1>9, <1>10, <1>12, <1>17, <1>18, <1>19, AddUp

LEMMA Invariance == IInv /\ [Next]_vars => IInv'
<1> SUFFICES ASSUME IInv, [Next]_vars PROVE IInv'
  OBVIOUS
<1>1. CASE UNCHANGED vars
  <2>1. /\ UNCHANGED <<state, saved_addr, fill_req_cnt, fill_rsp_cnt, victim_way, fill_target,
                       rsp_hit, rsp_way, valid_rd, tag_ram, valid_bits, data_ram, plru_ram,
                       sram, a_rsp, inflight, squash, id, busy, fence, since>>
    BY <1>1 DEF vars, fsm, arrays, core
  <2>2. FenceClears'
    BY <2>1 DEF IInv, FenceClears, TypeOK, WorksForTheCore, LinesSinceFence, set
  <2>3. Serialised' /\ Counting' /\ SramIsSince'
    BY <2>1 DEF IInv, Serialised, Counting, SramIsSince
  <2>4. Filling' /\ Answering'
    BY <2>1 DEF IInv, Filling, Answering, Fresh, WordAddr, set
  <2> QED BY <2>2, <2>3, <2>4 DEF IInv
<1>2. CASE Next
  <2>1. PICK leaves \in When(MayLeave), redirect \in When(busy), st \in Stored,
             f \in IF inflight /\ core_rsp_valid THEN {"other", "fencei"} ELSE {"empty"} :
           \E asks \in IF MayRequest(leaves, redirect) THEN {{}} \cup { {a} : a \in FetchAddr }
                       ELSE {{}} :
             /\ CoreEdge(asks # {}, leaves, redirect, f)
             /\ StoreEdge(st) /\ PortEdge /\ CacheEdge(asks)
    BY <1>2, Zenon DEF Next
  <2>2. PICK asks \in IF MayRequest(leaves, redirect) THEN {{}} \cup { {a} : a \in FetchAddr }
                      ELSE {{}} :
           /\ CoreEdge(asks # {}, leaves, redirect, f)
           /\ StoreEdge(st) /\ PortEdge /\ CacheEdge(asks)
    BY <2>1
  <2>3. Edge(leaves, redirect, st, f, asks)
    BY <2>1, <2>2, Zenon DEF Edge
  <2>4. CASE asks # {} /\ \E a \in asks : Accept(a)
    BY <2>3, <2>4, AcceptStep
  <2>5. CASE asks = {} /\ NoRequest
    BY <2>3, <2>5, NoRequestStep
  <2>6. CASE LookupHit
    BY <2>3, <2>6, LookupHitStep
  <2>7. CASE LookupMiss
    BY <2>3, <2>7, LookupMissStep
  <2>8. CASE Fill
    BY <2>3, <2>8, FillStep
  <2>9. CASE Respond
    BY <2>3, <2>9, RespondStep
  <2> QED BY <2>2, <2>4, <2>5, <2>6, <2>7, <2>8, <2>9 DEF CacheEdge
<1> QED BY <1>1, <1>2

LEMMA InitIInv == Init => IInv
<1> SUFFICES ASSUME Init PROVE IInv
  OBVIOUS
<1>1. TypeOK
  <2>1. PlruReset \in Plru /\ 0 \in Way
    BY DEF PlruReset, Plru, Way
  <2>2. 0 \in 0..LineWords /\ [valid |-> FALSE, rdata |-> Zero] \in [valid : BOOLEAN, rdata : Word]
    BY ZeroIsWord, GeometryAssumption DEF GeometryAssumption
  <2>3. [a \in Addr |-> {Sram0[a]}] \in [Addr -> SUBSET Word] /\ Sram0 \in [Addr -> Word]
    BY IcacheAssumption DEF IcacheAssumption
  <2>4. /\ TagRam0 \in [Way -> [Set -> Tag]] /\ DataRam0 \in [Way -> [Set -> [Woff -> Word]]]
        /\ NoAddr \in Addr
    BY IcacheAssumption DEF IcacheAssumption
  <2>5. [s \in Set |-> {}] \in [Set -> SUBSET Way] /\ [s \in Set |-> PlruReset] \in [Set -> Plru]
    BY <2>1
  <2>6. /\ state \in {"IDLE", "LOOKUP", "FILL", "DONE"} /\ saved_addr \in Addr
        /\ fill_req_cnt \in 0..LineWords /\ fill_rsp_cnt \in 0..LineWords
        /\ victim_way \in Way /\ fill_target \in Word /\ rsp_hit \in BOOLEAN /\ rsp_way \in Way
        /\ valid_rd \subseteq Way
    BY <2>1, <2>2, <2>4, ZeroIsWord DEF Init
  <2>7. /\ tag_ram \in [Way -> [Set -> Tag]] /\ data_ram \in [Way -> [Set -> [Woff -> Word]]]
        /\ valid_bits \in [Set -> SUBSET Way] /\ plru_ram \in [Set -> Plru]
        /\ sram \in [Addr -> Word] /\ a_rsp \in [valid : BOOLEAN, rdata : Word]
        /\ since \in [Addr -> SUBSET Word]
    BY <2>2, <2>3, <2>4, <2>5 DEF Init
  <2>8. inflight \in BOOLEAN /\ squash \in BOOLEAN /\ busy \in BOOLEAN
    BY Zenon DEF Init
  <2>9. id \in {"empty", "other", "fencei"} /\ fence \in 0..3
    BY DEF Init
  <2> QED BY <2>6, <2>7, <2>8, <2>9 DEF TypeOK
<1>2. WorksForTheCore /\ LinesSinceFence
  BY DEF Init, WorksForTheCore, LinesSinceFence
<1>3. Serialised /\ Counting /\ Filling /\ Answering /\ SramIsSince
  BY DEF Init, Serialised, Counting, Filling, Answering, SramIsSince
<1> QED BY <1>1, <1>2, <1>3 DEF IInv, FenceClears

(* The lines, the fill and the lookup hold what memory has held since the  *)
(* last FENCE.I, and what the core executes comes from them (icache.sv).   *)
THEOREM InvariantHolds == Spec => []IInv
  BY InitIInv, Invariance, PTL DEF Spec

-----------------------------------------------------------------------------
(* FENCE.I leaves no line that a lookup can hit with words from before it, *)
(* and the cache works for the core exactly while the core waits           *)
(* (icache.sv 254-257).                                                    *)
THEOREM ClearedByFence == Spec => []FenceClears
<1>1. IInv => FenceClears
  BY DEF IInv
<1> QED BY <1>1, InvariantHolds, PTL

(* Whatever the core executes is the word of its address, as new as the    *)
(* last FENCE.I.                                                           *)
THEOREM ExecutesSinceFence == Spec => []FetchedSinceFence
<1>1. IInv => FetchedSinceFence
  <2> SUFFICES ASSUME IInv, state = "DONE", ~squash PROVE core_rsp_data \in since[saved_addr]
    BY DEF FetchedSinceFence
  <2>1. TypeOK /\ LinesSinceFence /\ Answering
    BY DEF IInv, FenceClears
  <2>2. CASE rsp_hit
    <3>1. /\ rsp_way \in valid_bits[set] /\ tag_ram[rsp_way][set] = saved_addr.tag
          /\ set \in Set /\ saved_addr.woff \in Woff
      BY <2>1, <2>2, SetIsSet DEF Answering
    <3>2. saved_addr = [tag |-> tag_ram[rsp_way][set], set |-> set, woff |-> saved_addr.woff]
      BY <2>1, <3>1 DEF TypeOK, Addr, set
    <3>3. data_ram[rsp_way][set][saved_addr.woff] \in since[saved_addr]
      BY <2>1, <3>1, <3>2 DEF LinesSinceFence
    <3> QED BY <2>2, <3>3 DEF core_rsp_data
  <2>3. CASE ~rsp_hit
    BY <2>1, <2>3 DEF Answering, core_rsp_data
  <2> QED BY <2>2, <2>3
<1> QED BY <1>1, InvariantHolds, PTL
=============================================================================
