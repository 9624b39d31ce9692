---------------------------- MODULE DcacheProofs ----------------------------
(***************************************************************************)
(* Memory is always current, and the cache with its port implements a      *)
(* memory of single words: for every geometry, every contents of the RAMs  *)
(* at power up, every set of accesses and every pace of the walker.        *)
(***************************************************************************)
EXTENDS Dcache, TLAPS

-----------------------------------------------------------------------------
(* The invariant.                                                          *)

WordAddr(o) == [saved.addr EXCEPT !.woff = o]

(* Which registers still hold their reset value.                           *)
Unused ==
    /\ state \in {"IDLE", "LOOKUP"} => fill_req_cnt = 0 /\ fill_rsp_cnt = 0
    /\ state \in {"IDLE", "LOOKUP", "FILL"} => ~wt_req_fired /\ ~rsp_hit
    /\ state # "DONE" => ~wt_rsp_seen

(* Only a store is written through, and no way holds the line being filled. *)
Purpose ==
    /\ state \in {"WT", "WT_MISS"} => saved.wen
    /\ state = "FILL" => ~hit_any

(* An answer of port B belongs to the request of the edge before: the next *)
(* word of the fill, the store, or the walker's read.                      *)
CacheAnswers ==
    /\ state = "FILL" => /\ fill_rsp_cnt < LineWords
                         /\ fill_req_cnt = fill_rsp_cnt + (IF mem_rsp_valid THEN 1 ELSE 0)
    /\ state \in {"WT", "WT_MISS"} => (wt_req_fired <=> mem_rsp_valid)
    /\ state \in {"IDLE", "LOOKUP", "DONE"} => ~mem_rsp_valid

WalkAnswers == ptw.state = "WAIT" => b_rsp.valid /\ last_was_ptw

(* A word of the line as the fill leaves it.                               *)
Filled(o) == IF saved.wen /\ o = saved.addr.woff
             THEN Merge(sram[saved.addr], saved.wdata, saved.wmask)
             ELSE sram[WordAddr(o)]

Filling ==
    state = "FILL" =>
       /\ \A o \in Woff : o < fill_rsp_cnt => data_ram[victim_way][set][o] = Filled(o)
       /\ mem_rsp_valid => b_rsp.rdata = sram[WordAddr(fill_rsp_cnt)]
       /\ fill_rsp_cnt > saved.addr.woff /\ ~saved.wen => fill_target = sram[saved.addr]

IInv == MemoryIsCurrent /\ Unused /\ Purpose /\ CacheAnswers /\ WalkAnswers /\ Filling

-----------------------------------------------------------------------------
(* The operators.                                                          *)

LEMMA LowOfWord == ASSUME NEW n \in 0..(LineWords - 1) PROVE Low(n) = n
  BY GeometryAssumption DEF GeometryAssumption, Low

LEMMA WordOfLine ==
  ASSUME NEW a \in Addr, NEW o \in Woff
  PROVE  /\ [a EXCEPT !.woff = o] \in Addr
         /\ [a EXCEPT !.woff = o] = [tag |-> a.tag, set |-> a.set, woff |-> o]
         /\ a = [tag |-> a.tag, set |-> a.set, woff |-> a.woff]
  BY DEF Addr

LEMMA PlruTypes ==
  ASSUME NEW p \in Plru, NEW w \in Way
  PROVE  plru_pick(p) \in Way /\ plru_update(p, w) \in Plru
<1>1. plru_pick(p) \in Way
  BY DEF plru_pick, Way
<1>2. CASE w \in {0, 1}
  <2>1. (w = 0) \in BOOLEAN
    BY Zenon
  <2>2. PICK b \in BOOLEAN : plru_update(p, w) = [p EXCEPT ![2] = TRUE, ![1] = b]
    BY <1>2, <2>1, Zenon DEF plru_update
  <2> QED BY <1>1, <2>2 DEF Plru
<1>3. CASE w \notin {0, 1}
  <2>1. (w = 2) \in BOOLEAN
    BY Zenon
  <2>2. PICK b \in BOOLEAN : plru_update(p, w) = [p EXCEPT ![2] = FALSE, ![0] = b]
    BY <1>3, <2>1, Zenon DEF plru_update
  <2> QED BY <1>1, <2>2 DEF Plru
<1> QED BY <1>2, <1>3

LEMMA HitWayHits ==
  ASSUME hit_any
  PROVE  hit_way \in HitWays /\ hit_way \in Way
<1>1. HitWays \subseteq 0..3 /\ HitWays # {}
  BY DEF HitWays, hit_any, Way
<1>2. \E w \in HitWays : \A v \in HitWays : v <= w
  <2> HIDE DEF HitWays
  <2>1. CASE 3 \in HitWays
    BY <1>1, <2>1
  <2>2. CASE 3 \notin HitWays /\ 2 \in HitWays
    BY <1>1, <2>2
  <2>3. CASE 3 \notin HitWays /\ 2 \notin HitWays /\ 1 \in HitWays
    BY <1>1, <2>3
  <2>4. CASE 3 \notin HitWays /\ 2 \notin HitWays /\ 1 \notin HitWays
    <3>1. \A v \in HitWays : v = 0
      BY <1>1, <2>4
    <3>2. PICK w \in HitWays : TRUE
      BY <1>1
    <3> QED BY <3>1, <3>2
  <2> QED BY <2>1, <2>2, <2>3, <2>4
<1>3. hit_way \in HitWays
  BY <1>2 DEF hit_way
<1> QED BY <1>1, <1>3 DEF Way

LEMMA MergeIsWord ==
  ASSUME NEW v \in Word, NEW w \in Word, NEW m PROVE Merge(v, w, m) \in Word
  BY DEF Word, Merge

LEMMA NoneTypes == NoAddr \in Addr /\ Zero \in Word /\ NoAccess \in Access /\ ~NoAccess.wen
<1>1. NoAddr \in Addr /\ Zero \in Word
  BY DcacheAssumption DEF DcacheAssumption, NoAddr, Zero
<1> QED BY <1>1 DEF NoAccess, Access

LEMMA SavedTypes ==
  ASSUME TypeOK
  PROVE  /\ saved.addr \in Addr /\ saved.wen \in BOOLEAN /\ saved.wdata \in Word
         /\ set \in Set /\ saved.addr.woff \in Woff /\ saved.addr.tag \in Tag
         /\ saved.addr = [tag |-> saved.addr.tag, set |-> set, woff |-> saved.addr.woff]
         /\ \A o \in Woff : /\ WordAddr(o) \in Addr
                            /\ WordAddr(o) = [tag |-> saved.addr.tag, set |-> set, woff |-> o]
<1>1. saved.addr \in Addr /\ saved.wen \in BOOLEAN /\ saved.wdata \in Word
  BY DEF TypeOK, Access
<1> QED BY <1>1, WordOfLine DEF Addr, set, WordAddr

-----------------------------------------------------------------------------
(* One edge of port B and of the walker.                                   *)

PortTypes ==
    /\ sram \in [Addr -> Word]
    /\ b_rsp \in [valid : BOOLEAN, rdata : Word] /\ last_was_ptw \in BOOLEAN
    /\ ptw \in [state : {"IDLE", "REQ", "WAIT"}, addr : Addr]

CacheTypes ==
    /\ state \in {"IDLE", "LOOKUP", "WT", "FILL", "WT_MISS", "DONE"}
    /\ saved \in Access
    /\ fill_req_cnt \in 0..LineWords /\ fill_rsp_cnt \in 0..LineWords
    /\ victim_way \in Way /\ fill_target \in Word
    /\ wt_req_fired \in BOOLEAN /\ wt_rsp_seen \in BOOLEAN
    /\ rsp_hit \in BOOLEAN /\ rsp_way \in Way
    /\ tag_ram \in [Way -> [Set -> Tag]] /\ data_ram \in [Way -> [Set -> [Woff -> Word]]]
    /\ valid_bits \in [Set -> SUBSET Way] /\ plru_ram \in [Set -> Plru]

LEMMA TypesSplit == TypeOK <=> CacheTypes /\ PortTypes
  BY DEF TypeOK, CacheTypes, PortTypes

LEMMA RequestAddr ==
  ASSUME TypeOK
  PROVE  /\ mem_req_fires /\ state = "FILL" =>
              fill_req_cnt \in Woff /\ mem_req_addr = WordAddr(fill_req_cnt)
         /\ mem_req_valid => mem_req_addr \in Addr
         /\ mem_req_fires /\ mem_req_wen => state \in {"WT", "WT_MISS"} /\ ~wt_req_fired
         /\ mem_req_fires => mem_req_valid /\ ~arb_pick_ptw
<1>1. CASE state = "FILL" /\ mem_req_valid
  <2>1. fill_req_cnt \in 0..(LineWords - 1)
    BY <1>1, GeometryAssumption DEF TypeOK, mem_req_valid, GeometryAssumption
  <2>2. Low(fill_req_cnt) = fill_req_cnt /\ fill_req_cnt \in Woff
    BY <2>1, LowOfWord DEF Woff
  <2>3. mem_req_addr = WordAddr(fill_req_cnt) /\ WordAddr(fill_req_cnt) \in Addr
    BY <1>1, <2>2, SavedTypes DEF mem_req_addr, WordAddr
  <2> QED BY <1>1, <2>2, <2>3 DEF mem_req_fires, mem_req_wen, mem_req_ready
<1>2. CASE state # "FILL"
  BY <1>2, SavedTypes DEF mem_req_addr, mem_req_valid, mem_req_fires, mem_req_wen, mem_req_ready
<1> QED BY <1>1, <1>2 DEF mem_req_fires, mem_req_wen, mem_req_ready

LEMMA PortStep ==
  ASSUME TypeOK, PortEdge, NEW next \in NextWalks, WalkEdge(next)
  PROVE  /\ PortTypes'
         /\ mem_rsp_valid' <=> mem_req_fires
         /\ mem_req_fires /\ ~mem_req_wen => b_rsp'.rdata = sram[mem_req_addr]
         /\ ~(mem_req_fires /\ mem_req_wen) => sram' = sram
         /\ mem_req_fires /\ mem_req_wen =>
              sram' = [sram EXCEPT ![saved.addr] = Merge(@, saved.wdata, saved.wmask)]
         /\ ptw.state = "REQ" => b_rsp' = [valid |-> TRUE, rdata |-> sram[ptw.addr]] /\ last_was_ptw'
         /\ ptw'.state = "WAIT" => ptw.state = "REQ" \/ (ptw.state = "WAIT" /\ ~(b_rsp.valid /\ last_was_ptw))
<1>1. /\ sram \in [Addr -> Word] /\ b_rsp \in [valid : BOOLEAN, rdata : Word]
      /\ last_was_ptw \in BOOLEAN /\ ptw \in [state : {"IDLE", "REQ", "WAIT"}, addr : Addr]
  BY DEF TypeOK
<1>2. /\ Zero \in Word /\ saved.addr \in Addr /\ saved.wdata \in Word
      /\ mem_req_fires => mem_req_addr \in Addr /\ ~arb_pick_ptw
  BY NoneTypes, SavedTypes, RequestAddr
<1>3. /\ mem_req_fires \in BOOLEAN /\ arb_pick_ptw \in BOOLEAN
      /\ arb_pick_ptw <=> ptw.state = "REQ"
  BY DEF mem_req_fires, arb_pick_ptw
<1>4. /\ b_rsp' = IF arb_pick_ptw THEN [valid |-> TRUE, rdata |-> sram[ptw.addr]]
                  ELSE IF mem_req_fires /\ ~mem_req_wen
                       THEN [valid |-> TRUE, rdata |-> sram[mem_req_addr]]
                  ELSE [valid |-> mem_req_fires, rdata |-> Zero]
      /\ last_was_ptw' = IF arb_pick_ptw \/ mem_req_fires THEN arb_pick_ptw ELSE last_was_ptw
      /\ sram' = IF mem_req_fires /\ mem_req_wen
                 THEN [sram EXCEPT ![saved.addr] = Merge(@, saved.wdata, saved.wmask)]
                 ELSE sram
  BY DEF PortEdge
<1>5. sram' \in [Addr -> Word]
  BY <1>1, <1>2, <1>4, MergeIsWord
<1>6. /\ b_rsp' \in [valid : BOOLEAN, rdata : Word] /\ last_was_ptw' \in BOOLEAN
      /\ mem_rsp_valid' <=> mem_req_fires
      /\ mem_req_fires /\ ~mem_req_wen => b_rsp'.rdata = sram[mem_req_addr]
      /\ arb_pick_ptw => b_rsp' = [valid |-> TRUE, rdata |-> sram[ptw.addr]] /\ last_was_ptw'
  <2>1. CASE arb_pick_ptw
    <3>1. b_rsp' = [valid |-> TRUE, rdata |-> sram[ptw.addr]] /\ last_was_ptw' = TRUE
      BY <1>4, <2>1
    <3> QED BY <1>1, <1>2, <2>1, <3>1 DEF mem_rsp_valid
  <2>2. CASE ~arb_pick_ptw /\ mem_req_fires
    <3>1. last_was_ptw' = FALSE /\ b_rsp'.valid = TRUE
      BY <1>3, <1>4, <2>2
    <3>2. b_rsp' \in [valid : BOOLEAN, rdata : Word]
      BY <1>1, <1>2, <1>4, <2>2
    <3>3. ~mem_req_wen => b_rsp'.rdata = sram[mem_req_addr]
      BY <1>4, <2>2
    <3> QED BY <2>2, <3>1, <3>2, <3>3 DEF mem_rsp_valid
  <2>3. CASE ~arb_pick_ptw /\ ~mem_req_fires
    <3>1. b_rsp' = [valid |-> FALSE, rdata |-> Zero] /\ last_was_ptw' = last_was_ptw
      BY <1>3, <1>4, <2>3
    <3> QED BY <1>1, <1>2, <2>3, <3>1 DEF mem_rsp_valid
  <2> QED BY <2>1, <2>2, <2>3
<1>7. /\ ptw' \in [state : {"IDLE", "REQ", "WAIT"}, addr : Addr]
      /\ ptw'.state = "WAIT" => ptw.state = "REQ" \/ (ptw.state = "WAIT" /\ ~(b_rsp.valid /\ last_was_ptw))
  <2>1. next \in [state : {"IDLE", "REQ", "WAIT"}, addr : Addr] /\ next.state # "WAIT"
    BY <1>2, NoneTypes, DcacheAssumption DEF DcacheAssumption, NextWalks, IdleWalk
  <2>2. CASE ptw.state = "IDLE"
    BY <2>1, <2>2 DEF WalkEdge
  <2>3. CASE ptw.state = "REQ"
    <3>1. ptw' = [ptw EXCEPT !.state = "WAIT"]
      BY <2>3 DEF WalkEdge
    <3> QED BY <1>1, <2>3, <3>1
  <2>4. CASE ptw.state = "WAIT"
    BY <1>1, <2>1, <2>4 DEF WalkEdge
  <2> QED BY <1>1, <2>2, <2>3, <2>4
<1> QED BY <1>3, <1>4, <1>5, <1>6, <1>7 DEF PortTypes

(* What every edge of a cycle does to the walker's part of the invariant.  *)
Edge(next) == next \in NextWalks /\ WalkEdge(next) /\ PortEdge

LEMMA WalkWaits ==
  ASSUME IInv, NEW next, Edge(next)
  PROVE  WalkAnswers'
<1>1. TypeOK /\ (ptw.state = "WAIT" => b_rsp.valid /\ last_was_ptw)
  BY DEF IInv, MemoryIsCurrent, WalkAnswers
<1>2. ptw.state = "REQ" => b_rsp' = [valid |-> TRUE, rdata |-> sram[ptw.addr]] /\ last_was_ptw'
  BY <1>1, PortStep DEF Edge
<1>3. ptw'.state = "WAIT" => ptw.state = "REQ" \/ (ptw.state = "WAIT" /\ ~(b_rsp.valid /\ last_was_ptw))
  BY <1>1, PortStep DEF Edge
<1> QED BY <1>1, <1>2, <1>3 DEF WalkAnswers

(* An edge on which no store reaches memory and no line changes.           *)
LEMMA LinesKept ==
  ASSUME IInv, state # "FILL", UNCHANGED <<tag_ram, data_ram, valid_bits>>,
         \A a \in Addr : Settled(a)' = Settled(a)
  PROVE  LinesAgree' /\ OneCopy'
<1>1. TypeOK /\ LinesAgree /\ OneCopy
  BY DEF IInv, MemoryIsCurrent
<1>2. LinesAgree'
  <2> SUFFICES ASSUME NEW s \in Set, NEW w \in valid_bits[s], NEW o \in Woff
               PROVE  data_ram[w][s][o] = Settled([tag |-> tag_ram[w][s], set |-> s, woff |-> o])'
    BY DEF LinesAgree
  <2>1. [tag |-> tag_ram[w][s], set |-> s, woff |-> o] \in Addr
    BY <1>1 DEF TypeOK, Addr
  <2>2. PICK a \in Addr : a = [tag |-> tag_ram[w][s], set |-> s, woff |-> o]
    BY <2>1
  <2>3. data_ram[w][s][o] = Settled(a)'
    BY <1>1, <2>2 DEF LinesAgree
  <2> QED BY <2>2, <2>3 DEF Settled
<1> QED BY <1>1, <1>2 DEF OneCopy

LEMMA AddUp ==
  ASSUME IInv, NEW next, Edge(next),
         CacheTypes', LinesAgree', OneCopy', Unused', Purpose', CacheAnswers', Filling'
  PROVE  IInv'
<1>1. TypeOK'
  <2>1. TypeOK
    BY DEF IInv, MemoryIsCurrent
  <2>2. PortTypes'
    BY <2>1, PortStep DEF Edge
  <2> QED BY <2>2 DEF TypeOK, CacheTypes, PortTypes
<1>2. WalkAnswers'
  BY WalkWaits
<1> QED BY <1>1, <1>2 DEF IInv, MemoryIsCurrent

(* The cache asks nothing of port B.                                       *)
LEMMA Quiet ==
  ASSUME IInv, NEW next, Edge(next), state \in {"IDLE", "LOOKUP", "DONE"}
  PROVE  ~mem_rsp_valid' /\ sram' = sram /\ ~Storing
<1>1. TypeOK
  BY DEF IInv, MemoryIsCurrent
<1>2. ~mem_req_fires
  BY DEF mem_req_fires, mem_req_valid
<1> QED BY <1>1, <1>2, PortStep DEF Edge, Storing

LEMMA AcceptStep ==
  ASSUME IInv, NEW next, Edge(next), NEW r \in Access, Accept(r)
  PROVE  IInv'
<1>1. TypeOK /\ Unused
  BY DEF IInv, MemoryIsCurrent
<1>2. /\ state = "IDLE" /\ state' = "LOOKUP" /\ saved' = r
      /\ UNCHANGED <<fill_req_cnt, fill_rsp_cnt, victim_way, fill_target, wt_req_fired, wt_rsp_seen,
                     rsp_hit, rsp_way, tag_ram, valid_bits, data_ram, plru_ram>>
  BY DEF Accept, arrays
<1>3. CacheTypes'
  BY <1>1, <1>2 DEF TypeOK, CacheTypes
<1>4. ~mem_rsp_valid' /\ sram' = sram /\ ~Storing /\ ~Storing'
  BY <1>2, Quiet DEF Storing
<1>5. LinesAgree' /\ OneCopy'
  BY <1>2, <1>4, LinesKept DEF Settled
<1>6. Unused' /\ Purpose' /\ CacheAnswers' /\ Filling'
  BY <1>1, <1>2, <1>4 DEF Unused, Purpose, CacheAnswers, Filling
<1> QED BY <1>3, <1>5, <1>6, AddUp

LEMMA NoRequestStep ==
  ASSUME IInv, NEW next, Edge(next), NoRequest
  PROVE  IInv'
<1>1. TypeOK /\ Unused
  BY DEF IInv, MemoryIsCurrent
<1>2. /\ state = "IDLE"
      /\ UNCHANGED <<state, saved, fill_req_cnt, fill_rsp_cnt, victim_way, fill_target, wt_req_fired,
                     wt_rsp_seen, rsp_hit, rsp_way, tag_ram, valid_bits, data_ram, plru_ram>>
  BY DEF NoRequest, fsm, arrays
<1>3. CacheTypes'
  BY <1>1, <1>2 DEF TypeOK, CacheTypes
<1>4. ~mem_rsp_valid' /\ sram' = sram /\ ~Storing /\ ~Storing'
  BY <1>2, Quiet DEF Storing
<1>5. LinesAgree' /\ OneCopy'
  BY <1>2, <1>4, LinesKept DEF Settled
<1>6. Unused' /\ Purpose' /\ CacheAnswers' /\ Filling'
  BY <1>1, <1>2, <1>4 DEF Unused, Purpose, CacheAnswers, Filling
<1> QED BY <1>3, <1>5, <1>6, AddUp

LEMMA RespondStep ==
  ASSUME IInv, NEW next, Edge(next), Respond
  PROVE  IInv'
<1>1. TypeOK /\ Unused
  BY DEF IInv, MemoryIsCurrent
<1>2. /\ state = "DONE" /\ state' = "IDLE" /\ saved' = NoAccess
      /\ fill_req_cnt' = 0 /\ fill_rsp_cnt' = 0 /\ victim_way' = 0 /\ fill_target' = Zero
      /\ wt_req_fired' = FALSE /\ wt_rsp_seen' = FALSE /\ rsp_hit' = FALSE /\ rsp_way' = 0
      /\ UNCHANGED <<tag_ram, valid_bits, data_ram, plru_ram>>
  BY DEF Respond, Cleared, arrays
<1>3. CacheTypes'
  <2>1. 0 \in Way /\ 0 \in 0..LineWords
    BY GeometryAssumption DEF GeometryAssumption, Way
  <2> QED BY <1>1, <1>2, <2>1, NoneTypes DEF TypeOK, CacheTypes
<1>4. ~mem_rsp_valid' /\ sram' = sram /\ ~Storing /\ ~Storing'
  BY <1>2, Quiet DEF Storing
<1>5. LinesAgree' /\ OneCopy'
  BY <1>2, <1>4, LinesKept DEF Settled
<1>6. Unused' /\ Purpose' /\ CacheAnswers' /\ Filling'
  BY <1>1, <1>2, <1>4 DEF Unused, Purpose, CacheAnswers, Filling
<1> QED BY <1>3, <1>5, <1>6, AddUp

LEMMA LookupMissStep ==
  ASSUME IInv, NEW next, Edge(next), LookupMiss
  PROVE  IInv'
<1>1. TypeOK /\ Unused
  BY DEF IInv, MemoryIsCurrent
<1>2. /\ state = "LOOKUP" /\ ~hit_any /\ state' = "FILL" /\ victim_way' = plru_pick(plru_ram[set])
      /\ UNCHANGED <<saved, fill_req_cnt, fill_rsp_cnt, fill_target, wt_req_fired, wt_rsp_seen,
                     rsp_hit, rsp_way, tag_ram, valid_bits, data_ram, plru_ram>>
  BY DEF LookupMiss, arrays
<1>3. victim_way' \in Way
  <2>1. plru_ram[set] \in Plru /\ 0 \in Way
    BY <1>1, SavedTypes DEF TypeOK, Way
  <2> QED BY <1>2, <2>1, PlruTypes
<1>4. CacheTypes'
  BY <1>1, <1>2, <1>3 DEF TypeOK, CacheTypes
<1>5. ~mem_rsp_valid' /\ sram' = sram /\ ~Storing /\ ~Storing'
  BY <1>2, Quiet DEF Storing
<1>6. LinesAgree' /\ OneCopy'
  BY <1>2, <1>5, LinesKept DEF Settled
<1>7. fill_req_cnt' = 0 /\ fill_rsp_cnt' = 0
  BY <1>1, <1>2 DEF Unused
<1>8. Unused'
  BY <1>1, <1>2 DEF Unused
<1>9. Purpose'
  <2>1. hit_any' <=> hit_any
    BY <1>2 DEF hit_any, HitWays, set
  <2> QED BY <1>2, <2>1 DEF Purpose
<1>10. CacheAnswers'
  BY <1>2, <1>5, <1>7, GeometryAssumption DEF CacheAnswers, GeometryAssumption
<1>11. Filling'
  <2>1. ~(fill_rsp_cnt' > saved'.addr.woff) /\ \A o \in Woff : ~(o < fill_rsp_cnt')
    BY <1>1, <1>2, <1>7, SavedTypes, GeometryAssumption DEF Woff, GeometryAssumption
  <2> QED BY <1>5, <2>1 DEF Filling
<1> QED BY <1>4, <1>6, <1>8, <1>9, <1>10, <1>11, AddUp

(* A store that hits changes the one copy of its word.                     *)
LEMMA LookupHitStep ==
  ASSUME IInv, NEW next, Edge(next), LookupHit
  PROVE  IInv'
<1> DEFINE h == hit_way  o0 == saved.addr.woff
<1>1. TypeOK /\ Unused /\ LinesAgree /\ OneCopy
  BY DEF IInv, MemoryIsCurrent
<1>2. /\ state = "LOOKUP" /\ hit_any /\ state' = IF saved.wen THEN "WT" ELSE "DONE"
      /\ rsp_hit' = TRUE /\ rsp_way' = h
      /\ plru_ram' = [plru_ram EXCEPT ![set] = plru_update(@, h)]
      /\ data_ram' = IF saved.wen
                     THEN [data_ram EXCEPT ![h][set][o0] = Merge(@, saved.wdata, saved.wmask)]
                     ELSE data_ram
      /\ UNCHANGED <<saved, fill_req_cnt, fill_rsp_cnt, victim_way, fill_target, wt_req_fired,
                     wt_rsp_seen, tag_ram, valid_bits>>
  BY DEF LookupHit
<1>3. h \in Way /\ h \in valid_bits[set] /\ tag_ram[h][set] = saved.addr.tag
  BY <1>2, HitWayHits DEF HitWays
<1>4. /\ set \in Set /\ o0 \in Woff /\ saved.wdata \in Word /\ saved.wen \in BOOLEAN
      /\ saved.addr \in Addr /\ saved.addr = [tag |-> saved.addr.tag, set |-> set, woff |-> o0]
      /\ data_ram \in [Way -> [Set -> [Woff -> Word]]] /\ plru_ram \in [Set -> Plru]
      /\ tag_ram \in [Way -> [Set -> Tag]] /\ valid_bits \in [Set -> SUBSET Way]
  BY <1>1, SavedTypes DEF TypeOK
<1> HIDE DEF h
<1>5. ~mem_rsp_valid' /\ sram' = sram /\ ~Storing
  BY <1>2, Quiet
<1> DEFINE merged == Merge(data_ram[h][set][o0], saved.wdata, saved.wmask)
<1>6. /\ data_ram' \in [Way -> [Set -> [Woff -> Word]]]
      /\ \A w \in Way, s \in Set, o \in Woff :
            data_ram'[w][s][o] = IF saved.wen /\ w = h /\ s = set /\ o = o0 THEN merged
                                 ELSE data_ram[w][s][o]
  <2>1. merged \in Word
    BY <1>3, <1>4, MergeIsWord
  <2> HIDE DEF merged
  <2>2. CASE saved.wen
    <3>1. data_ram' = [data_ram EXCEPT ![h][set][o0] = merged]
      BY <1>2, <2>2 DEF merged
    <3> QED BY <1>3, <1>4, <2>1, <2>2, <3>1
  <2>3. CASE ~saved.wen
    BY <1>2, <1>4, <2>3
  <2> QED BY <2>2, <2>3
<1>7. CacheTypes'
  <2>1. plru_update(plru_ram[set], h) \in Plru
    BY <1>3, <1>4, PlruTypes
  <2>2. plru_ram' \in [Set -> Plru]
    BY <1>2, <1>4, <2>1
  <2> QED BY <1>1, <1>2, <1>3, <1>6, <2>2 DEF TypeOK, CacheTypes
<1>8. LinesAgree'
  <2> SUFFICES ASSUME NEW s \in Set, NEW w \in valid_bits[s], NEW o \in Woff
               PROVE  data_ram'[w][s][o] = Settled([tag |-> tag_ram[w][s], set |-> s, woff |-> o])'
    BY <1>2 DEF LinesAgree
  <2>1. w \in Way /\ [tag |-> tag_ram[w][s], set |-> s, woff |-> o] \in Addr
    BY <1>4 DEF Addr
  <2>2. PICK a \in Addr : a = [tag |-> tag_ram[w][s], set |-> s, woff |-> o]
    BY <2>1
  <2>3. data_ram[w][s][o] = sram[a]
    BY <1>1, <1>2, <1>5, <2>2 DEF LinesAgree, Settled
  <2>4. Settled(a)' = IF saved.wen /\ a = saved.addr THEN Merge(sram[a], saved.wdata, saved.wmask)
                      ELSE sram[a]
    <3>1. Storing' <=> saved.wen
      BY <1>1, <1>2 DEF Storing, Unused
    <3> QED BY <1>2, <1>5, <3>1 DEF Settled
  <2>5. a = saved.addr <=> w = h /\ s = set /\ o = o0
    <3>1. a = saved.addr <=> tag_ram[w][s] = saved.addr.tag /\ s = set /\ o = o0
      BY <1>4, <2>2 DEF Addr
    <3> QED BY <1>1, <1>3, <1>4, <3>1 DEF OneCopy
  <2>6. data_ram'[w][s][o] = Settled(a)'
    BY <1>6, <2>1, <2>3, <2>4, <2>5
  <2> QED BY <1>2, <2>2, <2>6 DEF Settled
<1>9. OneCopy'
  BY <1>1, <1>2 DEF OneCopy
<1>10. Unused' /\ Purpose' /\ Filling'
  BY <1>1, <1>2 DEF Unused, Purpose, Filling
<1>11. CacheAnswers'
  BY <1>1, <1>2, <1>5 DEF CacheAnswers, Unused
<1> QED BY <1>7, <1>8, <1>9, <1>10, <1>11, AddUp

(* A store reaches memory.                                                 *)
LEMMA WriteThroughStep ==
  ASSUME IInv, NEW next, Edge(next), WriteThrough
  PROVE  IInv'
<1>1. TypeOK /\ Unused /\ Purpose /\ CacheAnswers
  BY DEF IInv, MemoryIsCurrent
<1>2. /\ state \in {"WT", "WT_MISS"}
      /\ state' = IF wt_req_fired' /\ wt_rsp_seen' THEN "DONE" ELSE state
      /\ UNCHANGED <<saved, fill_req_cnt, fill_rsp_cnt, victim_way, fill_target, rsp_hit, rsp_way,
                     tag_ram, valid_bits, data_ram, plru_ram>>
  BY DEF WriteThrough, arrays
<1>3. /\ wt_req_fired' <=> wt_req_fired \/ mem_req_fires
      /\ wt_rsp_seen' <=> wt_rsp_seen \/ mem_rsp_valid
      /\ wt_req_fired' \in BOOLEAN /\ wt_rsp_seen' \in BOOLEAN
  BY Zenon DEF WriteThrough
<1>4. /\ ~wt_rsp_seen /\ (wt_req_fired <=> mem_rsp_valid)
      /\ mem_req_fires => ~wt_req_fired
  BY <1>1, <1>2 DEF Unused, CacheAnswers, mem_req_fires, mem_req_valid
<1>5. CacheTypes'
  BY <1>1, <1>2, <1>3 DEF TypeOK, CacheTypes
<1>6. /\ mem_rsp_valid' <=> mem_req_fires
      /\ sram' = IF mem_req_fires
                 THEN [sram EXCEPT ![saved.addr] = Merge(@, saved.wdata, saved.wmask)] ELSE sram
  <2>1. mem_req_wen
    BY <1>2 DEF mem_req_wen
  <2> QED BY <1>1, <2>1, PortStep DEF Edge
<1>7. \A a \in Addr : Settled(a)' = Settled(a)
  <2>1. /\ Storing <=> ~wt_req_fired
        /\ Storing' <=> ~wt_req_fired'
    BY <1>2, <1>3, <1>4 DEF Storing
  <2>2. sram \in [Addr -> Word] /\ saved.addr \in Addr
    BY <1>1, SavedTypes DEF TypeOK
  <2>3. CASE mem_req_fires
    BY <1>2, <1>3, <1>4, <1>6, <2>1, <2>2, <2>3 DEF Settled
  <2>4. CASE ~mem_req_fires
    BY <1>2, <1>3, <1>4, <1>6, <2>1, <2>2, <2>4 DEF Settled
  <2> QED BY <2>3, <2>4
<1>8. LinesAgree' /\ OneCopy'
  BY <1>2, <1>7, LinesKept
<1>9. Unused' /\ Purpose'
  BY <1>1, <1>2, <1>3, <1>4 DEF Unused, Purpose
<1>10. CacheAnswers'
  BY <1>2, <1>3, <1>4, <1>6 DEF CacheAnswers
<1>11. Filling'
  BY <1>2 DEF Filling
<1> QED BY <1>5, <1>8, <1>9, <1>10, <1>11, AddUp

(* A word of the fill, whose line becomes visible with the last one.       *)
LEMMA FillStep ==
  ASSUME IInv, NEW next, Edge(next), Fill
  PROVE  /\ IInv' /\ sram' = sram
         /\ state' = "DONE" => ~saved.wen /\ fill_target' = sram[saved.addr]
<1> DEFINE n == fill_rsp_cnt  v == victim_way  o0 == saved.addr.woff
<1>1. TypeOK /\ Unused /\ Purpose /\ CacheAnswers /\ Filling /\ LinesAgree /\ OneCopy
  BY DEF IInv, MemoryIsCurrent
<1>2. /\ state = "FILL"
      /\ fill_req_cnt' = IF mem_req_fires THEN fill_req_cnt + 1 ELSE fill_req_cnt
      /\ n' = IF mem_rsp_valid THEN n + 1 ELSE n
      /\ data_ram' = IF mem_rsp_valid THEN [data_ram EXCEPT ![v][set][Low(n)] = FilledWord] ELSE data_ram
      /\ fill_target' = IF mem_rsp_valid /\ IsTarget /\ ~saved.wen THEN b_rsp.rdata ELSE fill_target
      /\ UNCHANGED <<saved, victim_way, wt_req_fired, wt_rsp_seen, rsp_hit, rsp_way>>
  BY DEF Fill
<1>3. /\ n' = LineWords => /\ state' = IF saved.wen THEN "WT_MISS" ELSE "DONE"
                           /\ tag_ram' = [tag_ram EXCEPT ![v][set] = saved.addr.tag]
                           /\ valid_bits' = [valid_bits EXCEPT ![set] = @ \cup {v}]
                           /\ plru_ram' = [plru_ram EXCEPT ![set] = plru_update(@, v)]
      /\ n' # LineWords => UNCHANGED <<state, tag_ram, valid_bits, plru_ram>>
  BY <1>2 DEF Fill
<1>4. /\ LineWords \in Nat \ {0} /\ n \in 0..(LineWords - 1) /\ n \in Woff /\ Low(n) = n
      /\ fill_req_cnt = n + (IF mem_rsp_valid THEN 1 ELSE 0) /\ fill_req_cnt \in 0..LineWords
      /\ Woff = 0..(LineWords - 1)
  <2>1. /\ n \in 0..LineWords /\ n < LineWords /\ LineWords \in Nat \ {0}
        /\ fill_req_cnt = n + (IF mem_rsp_valid THEN 1 ELSE 0) /\ fill_req_cnt \in 0..LineWords
    BY <1>1, <1>2, GeometryAssumption DEF TypeOK, CacheAnswers, GeometryAssumption
  <2> QED BY <2>1, LowOfWord DEF Woff
<1>5. /\ set \in Set /\ saved.addr \in Addr /\ o0 \in Woff /\ saved.addr.tag \in Tag
      /\ saved.wdata \in Word /\ saved.wen \in BOOLEAN /\ v \in Way /\ b_rsp.rdata \in Word
      /\ saved.addr = [tag |-> saved.addr.tag, set |-> set, woff |-> o0]
      /\ data_ram \in [Way -> [Set -> [Woff -> Word]]] /\ plru_ram \in [Set -> Plru]
      /\ tag_ram \in [Way -> [Set -> Tag]] /\ valid_bits \in [Set -> SUBSET Way]
  BY <1>1, SavedTypes DEF TypeOK
<1>6. /\ mem_req_fires => fill_req_cnt \in Woff /\ mem_req_addr = WordAddr(fill_req_cnt)
      /\ fill_req_cnt = LineWords => ~mem_req_fires
      /\ ~mem_req_wen
  BY <1>1, <1>2, <1>4, RequestAddr DEF mem_req_wen, mem_req_fires, mem_req_valid
<1>7. /\ sram' = sram /\ (mem_rsp_valid' <=> mem_req_fires)
      /\ mem_req_fires => b_rsp'.rdata = sram[WordAddr(fill_req_cnt)]
  BY <1>1, <1>6, PortStep DEF Edge
<1>8. n' \in 0..LineWords /\ fill_req_cnt' \in 0..LineWords /\ n' = fill_req_cnt
  BY <1>2, <1>4, <1>6
<1>9. /\ FilledWord \in Word
      /\ mem_rsp_valid => FilledWord = Filled(n)
  <2>1. FilledWord \in Word
    BY <1>5, MergeIsWord DEF FilledWord
  <2>2. ASSUME mem_rsp_valid PROVE FilledWord = Filled(n)
    <3>1. b_rsp.rdata = sram[WordAddr(n)]
      BY <1>1, <1>2, <2>2 DEF Filling
    <3>2. IsTarget <=> n = o0
      BY <1>4 DEF IsTarget
    <3>3. n = o0 => WordAddr(n) = saved.addr
      BY <1>1, <1>4, <1>5, SavedTypes
    <3> QED BY <3>1, <3>2, <3>3 DEF FilledWord, Filled
  <2> QED BY <2>1, <2>2
<1> HIDE DEF n, v, o0
<1>10. /\ \A w \in Way, s \in Set, o \in Woff :
             data_ram'[w][s][o] = IF mem_rsp_valid /\ w = v /\ s = set /\ o = n THEN Filled(n)
                                  ELSE data_ram[w][s][o]
       /\ data_ram' \in [Way -> [Set -> [Woff -> Word]]]
  <2>1. CASE mem_rsp_valid
    <3>1. data_ram' = [data_ram EXCEPT ![v][set][n] = Filled(n)] /\ Filled(n) \in Word
      BY <1>2, <1>4, <1>9, <2>1
    <3> QED BY <1>4, <1>5, <2>1, <3>1
  <2>2. CASE ~mem_rsp_valid
    BY <1>2, <1>5, <2>2
  <2> QED BY <2>1, <2>2
<1>11. CacheTypes'
  <2>1. fill_target' \in Word
    BY <1>1, <1>2, <1>5 DEF TypeOK
  <2>2. plru_update(plru_ram[set], v) \in Plru
    BY <1>5, PlruTypes
  <2>3. CASE n' = LineWords
    <3>1. tag_ram' = [tag_ram EXCEPT ![v][set] = saved.addr.tag]
      BY <1>3, <2>3
    <3>2. tag_ram' \in [Way -> [Set -> Tag]]
      BY <1>5, <3>1
    <3>3. /\ valid_bits' = [valid_bits EXCEPT ![set] = @ \cup {v}]
          /\ plru_ram' = [plru_ram EXCEPT ![set] = plru_update(@, v)]
      BY <1>3, <2>3
    <3>4. plru_ram' \in [Set -> Plru]
      BY <1>5, <2>2, <3>3
    <3>5. valid_bits' \in [Set -> SUBSET Way]
      BY <1>5, <3>3
    <3> QED BY <1>1, <1>2, <1>3, <1>8, <1>10, <2>1, <2>3, <3>2, <3>4, <3>5 DEF TypeOK, CacheTypes, n
  <2>4. CASE n' # LineWords
    BY <1>1, <1>2, <1>3, <1>8, <1>10, <2>1, <2>4 DEF TypeOK, CacheTypes, n
  <2> QED BY <2>3, <2>4
<1>12. Unused'
  <2>1. state' \in {"FILL", "WT_MISS", "DONE"}
    BY <1>2, <1>3
  <2> QED BY <1>1, <1>2, <2>1 DEF Unused
<1>13. Purpose'
  <2>1. n' # LineWords => (hit_any' <=> hit_any)
    BY <1>2, <1>3 DEF hit_any, HitWays, set
  <2> QED BY <1>1, <1>2, <1>3, <2>1 DEF Purpose
<1>14. CacheAnswers'
  <2>1. CASE n' = LineWords
    <3>1. ~mem_rsp_valid' /\ ~wt_req_fired'
      BY <1>1, <1>2, <1>6, <1>7, <1>8, <2>1 DEF Unused
    <3>2. state' \in {"WT_MISS", "DONE"}
      BY <1>3, <2>1
    <3> QED BY <3>1, <3>2 DEF CacheAnswers
  <2>2. CASE n' # LineWords
    BY <1>2, <1>3, <1>4, <1>7, <1>8, <2>2 DEF CacheAnswers, n
  <2> QED BY <2>1, <2>2
<1>15. \A o \in Woff : /\ WordAddr(o) \in Addr /\ WordAddr(o)' = WordAddr(o) /\ Filled(o)' = Filled(o)
                       /\ WordAddr(o) = [tag |-> saved.addr.tag, set |-> set, woff |-> o]
  BY <1>1, <1>2, <1>7, SavedTypes DEF WordAddr, Filled
<1>16. \A o \in Woff : o < n' => data_ram'[v][set][o] = Filled(o)
  <2> SUFFICES ASSUME NEW o \in Woff, o < n' PROVE data_ram'[v][set][o] = Filled(o)
    OBVIOUS
  <2>1. CASE mem_rsp_valid /\ o = n
    BY <1>5, <1>10, <2>1
  <2>2. CASE ~(mem_rsp_valid /\ o = n)
    <3>1. o < n
      BY <1>2, <1>4, <2>2
    <3>2. data_ram[v][set][o] = Filled(o)
      BY <1>1, <1>2, <3>1 DEF Filling, n, v
    <3> QED BY <1>5, <1>10, <2>2, <3>2
  <2> QED BY <2>1, <2>2
<1>17. n' > o0 /\ ~saved.wen => fill_target' = sram[saved.addr]
  <2> SUFFICES ASSUME n' > o0, ~saved.wen PROVE fill_target' = sram[saved.addr]
    OBVIOUS
  <2>1. IsTarget <=> n = o0
    BY <1>4 DEF IsTarget, n, o0
  <2>2. CASE mem_rsp_valid /\ n = o0
    <3>1. b_rsp.rdata = sram[WordAddr(n)] /\ WordAddr(n) = saved.addr
      BY <1>1, <1>2, <1>4, <1>5, <1>15, <2>2 DEF Filling, n
    <3> QED BY <1>2, <2>1, <2>2, <3>1
  <2>3. CASE ~(mem_rsp_valid /\ n = o0)
    <3>1. n > o0
      BY <1>2, <1>4, <1>5, <2>3
    <3> QED BY <1>1, <1>2, <2>1, <2>3, <3>1 DEF Filling, n, o0
  <2> QED BY <2>2, <2>3
<1>18. Filling'
  <2> SUFFICES ASSUME state' = "FILL"
               PROVE  /\ \A o \in Woff : o < n' => data_ram'[v'][set'][o] = Filled(o)'
                      /\ mem_rsp_valid' => b_rsp'.rdata = sram'[WordAddr(n)']
                      /\ n' > saved'.addr.woff /\ ~saved'.wen => fill_target' = sram'[saved'.addr]
    BY DEF Filling, n, v
  <2>1. v' = v /\ set' = set /\ saved' = saved
    BY <1>2 DEF set, v
  <2>2. \A o \in Woff : o < n' => data_ram'[v'][set'][o] = Filled(o)'
    BY <1>15, <1>16, <2>1
  <2>3. mem_rsp_valid' => b_rsp'.rdata = sram'[WordAddr(n)']
    <3>1. WordAddr(n)' = WordAddr(fill_req_cnt)
      BY <1>2, <1>8 DEF WordAddr
    <3> QED BY <1>7, <3>1
  <2> QED BY <1>7, <1>17, <2>1, <2>2, <2>3 DEF o0
<1>19. wt_req_fired' <=> FALSE
  BY <1>1, <1>2 DEF Unused
<1>20. LinesAgree'
  <2> SUFFICES ASSUME NEW s \in Set, NEW w \in valid_bits'[s],
                      ~(state' = "FILL" /\ s = set' /\ w = victim_way'), NEW o \in Woff
               PROVE  data_ram'[w][s][o] = Settled([tag |-> tag_ram[w][s], set |-> s, woff |-> o])'
    BY DEF LinesAgree
  <2>1. w \in Way /\ ~(state' = "FILL" /\ s = set /\ w = v)
    BY <1>2, <1>11 DEF set, v, CacheTypes
  <2>2. [tag |-> tag_ram'[w][s], set |-> s, woff |-> o] \in Addr
    BY <1>11, <2>1 DEF Addr, CacheTypes
  <2>3. PICK a \in Addr : a = [tag |-> tag_ram'[w][s], set |-> s, woff |-> o]
    BY <2>2
  <2>4. Settled(a)' = IF n' = LineWords /\ saved.wen /\ a = saved.addr
                      THEN Merge(sram[a], saved.wdata, saved.wmask) ELSE sram[a]
    <3>1. Storing' <=> n' = LineWords /\ saved.wen
      BY <1>2, <1>3, <1>19 DEF Storing
    <3> QED BY <1>2, <1>7, <3>1 DEF Settled
  <2>5. CASE s = set /\ w = v
    <3>1. n' = LineWords /\ tag_ram'[w][s] = saved.addr.tag
      BY <1>2, <1>3, <1>5, <2>1, <2>5
    <3>2. a = WordAddr(o) /\ o < n'
      BY <1>4, <1>15, <2>3, <2>5, <3>1
    <3>3. a = saved.addr <=> o = o0
      BY <1>5, <2>3, <2>5, <3>1 DEF Addr
    <3>4. data_ram'[w][s][o] = Filled(o)
      BY <1>16, <2>5, <3>2
    <3>5. data_ram'[w][s][o] = Settled(a)'
      BY <2>4, <3>1, <3>2, <3>3, <3>4 DEF Filled, o0
    <3> QED BY <2>3, <3>5 DEF Settled
  <2>6. CASE ~(s = set /\ w = v)
    <3>1. w \in valid_bits[s] /\ tag_ram'[w][s] = tag_ram[w][s]
      BY <1>3, <1>5, <2>1, <2>6
    <3>2. data_ram'[w][s][o] = data_ram[w][s][o]
      BY <1>10, <2>1, <2>6
    <3>3. data_ram[w][s][o] = sram[a]
      BY <1>1, <1>2, <2>3, <2>6, <3>1 DEF LinesAgree, Settled, Storing, v
    <3>4. a # saved.addr
      <4>1. s = set => tag_ram[w][s] # saved.addr.tag
        BY <1>1, <1>2, <2>1, <3>1 DEF Purpose, hit_any, HitWays
      <4> QED BY <1>5, <2>3, <3>1, <4>1 DEF Addr
    <3>5. data_ram'[w][s][o] = Settled(a)'
      BY <2>4, <3>2, <3>3, <3>4
    <3> QED BY <2>3, <3>5 DEF Settled
  <2> QED BY <2>5, <2>6
<1>21. OneCopy'
  <2>1. CASE n' # LineWords
    BY <1>1, <1>3, <2>1 DEF OneCopy
  <2>2. CASE n' = LineWords
    <3> SUFFICES ASSUME NEW s \in Set, NEW x \in valid_bits'[s], NEW y \in valid_bits'[s],
                        tag_ram'[x][s] = tag_ram'[y][s]
                 PROVE  x = y
      BY DEF OneCopy
    <3>1. x \in Way /\ y \in Way
      BY <1>11 DEF CacheTypes
    <3>2. \A w \in valid_bits'[s] : ~(s = set /\ w = v) =>
             w \in valid_bits[s] /\ w \in Way /\ tag_ram'[w][s] = tag_ram[w][s]
      BY <1>3, <1>5, <2>2
    <3>3. s = set => tag_ram'[v][s] = saved.addr.tag
      BY <1>3, <1>5, <2>2
    <3>4. \A w \in valid_bits[set] : w \in Way => tag_ram[w][set] # saved.addr.tag
      BY <1>1, <1>2 DEF Purpose, hit_any, HitWays
    <3>5. \A w, z \in valid_bits[s] : tag_ram[w][s] = tag_ram[z][s] => w = z
      BY <1>1 DEF OneCopy
    <3> QED BY <3>2, <3>3, <3>4, <3>5
  <2> QED BY <2>1, <2>2
<1>22. state' = "DONE" => ~saved.wen /\ fill_target' = sram[saved.addr]
  BY <1>2, <1>3, <1>4, <1>5, <1>17
<1> QED BY <1>7, <1>11, <1>12, <1>13, <1>14, <1>18, <1>20, <1>21, <1>22, AddUp

-----------------------------------------------------------------------------
(* The cycle.                                                              *)

LEMMA Initially == Init => IInv
<1> SUFFICES ASSUME Init PROVE IInv
  OBVIOUS
<1>1. /\ state = "IDLE" /\ saved = NoAccess
      /\ fill_req_cnt = 0 /\ fill_rsp_cnt = 0 /\ victim_way = 0 /\ fill_target = Zero
      /\ wt_req_fired = FALSE /\ wt_rsp_seen = FALSE /\ rsp_hit = FALSE /\ rsp_way = 0
      /\ tag_ram = TagRam0 /\ data_ram = DataRam0 /\ sram = Sram0
      /\ valid_bits = [s \in Set |-> {}] /\ plru_ram = [s \in Set |-> PlruReset]
      /\ b_rsp = [valid |-> FALSE, rdata |-> Zero] /\ last_was_ptw = FALSE /\ ptw = IdleWalk
  BY DEF Init
<1>2. PortTypes
  BY <1>1, NoneTypes, DcacheAssumption, Zenon DEF PortTypes, DcacheAssumption, IdleWalk
<1>3. CacheTypes
  <2>1. 0 \in Way /\ 0 \in 0..LineWords
    BY GeometryAssumption DEF GeometryAssumption, Way
  <2>2. PlruReset \in Plru
    BY DEF PlruReset, Plru
  <2>3. valid_bits \in [Set -> SUBSET Way] /\ plru_ram \in [Set -> Plru]
    BY <1>1, <2>2
  <2> QED BY <1>1, <2>1, <2>3, NoneTypes, DcacheAssumption DEF CacheTypes, DcacheAssumption
<1>4. LinesAgree /\ OneCopy
  BY <1>1 DEF LinesAgree, OneCopy
<1>5. Unused /\ Purpose /\ CacheAnswers /\ WalkAnswers /\ Filling
  BY <1>1 DEF Unused, Purpose, CacheAnswers, mem_rsp_valid, WalkAnswers, IdleWalk, Filling
<1> QED BY <1>2, <1>3, <1>4, <1>5, TypesSplit DEF IInv, MemoryIsCurrent

LEMMA Invariance == IInv /\ [Next]_vars => IInv'
<1>1. ASSUME IInv, NEW next, Edge(next), CacheEdge PROVE IInv'
  BY <1>1, LookupHitStep, LookupMissStep, FillStep, WriteThroughStep, RespondStep DEF CacheEdge
<1>2. ASSUME IInv, Next PROVE IInv'
  <2>1. PICK next : /\ Edge(next)
                    /\ CacheEdge \/ NoRequest \/ \E r \in Loads \cup Stores : Accept(r)
    BY <1>2 DEF Next, Edge
  <2>2. CASE \E r \in Loads \cup Stores : Accept(r)
    BY <1>2, <2>1, <2>2, AcceptStep, DcacheAssumption DEF DcacheAssumption
  <2> QED BY <1>1, <1>2, <2>1, <2>2, NoRequestStep
<1>3. ASSUME IInv, UNCHANGED vars PROVE IInv'
  <2>1. MemoryIsCurrent'
    BY <1>3 DEF IInv, MemoryIsCurrent, TypeOK, LinesAgree, OneCopy, Settled, Storing, set,
                vars, fsm, arrays, portB
  <2>2. Unused' /\ Purpose' /\ CacheAnswers' /\ WalkAnswers'
    BY <1>3 DEF IInv, Unused, Purpose, CacheAnswers, mem_rsp_valid, WalkAnswers, hit_any, HitWays,
                set, vars, fsm, arrays, portB
  <2>3. Filling'
    BY <1>3 DEF IInv, Filling, Filled, WordAddr, mem_rsp_valid, set, vars, fsm, arrays, portB
  <2> QED BY <2>1, <2>2, <2>3 DEF IInv
<1> QED BY <1>2, <1>3

LEMMA InvariantHolds == Spec => []IInv
  BY Initially, Invariance, PTL DEF Spec

(* Every word of a valid line is memory's, and no line is in two ways.     *)
THEOREM AlwaysCurrent == Spec => []MemoryIsCurrent
<1>1. IInv => MemoryIsCurrent
  BY DEF IInv
<1> QED BY <1>1, InvariantHolds, PTL

-----------------------------------------------------------------------------
(* The memory of single words: which of its steps an edge is.              *)

MapsData == Abstract!DataStep \/ (DataClient' = DataClient /\ sram' = sram)
MapsWalk == Abstract!WalkStep \/ Walker' = Walker

(* A hit answers the load with the word the way holds, which is memory's.  *)
LEMMA LookupMaps ==
  ASSUME IInv, NEW next, Edge(next), LookupHit
  PROVE  MapsData
<1>1. TypeOK /\ Unused /\ LinesAgree
  BY DEF IInv, MemoryIsCurrent
<1>2. /\ state = "LOOKUP" /\ hit_any /\ state' = IF saved.wen THEN "WT" ELSE "DONE"
      /\ rsp_hit' = TRUE /\ rsp_way' = hit_way
      /\ ~saved.wen => data_ram' = data_ram
      /\ saved' = saved /\ wt_req_fired' = wt_req_fired
  BY DEF LookupHit
<1>3. sram' = sram /\ ~Storing
  BY <1>2, Quiet
<1>4. DataClient = Asked(saved) /\ ~wt_req_fired
  BY <1>1, <1>2 DEF DataClient, Unused
<1>5. CASE saved.wen
  <2>1. DataClient' = Asked(saved)
    BY <1>2, <1>4, <1>5 DEF DataClient, Asked
  <2> QED BY <1>3, <1>4, <2>1 DEF MapsData
<1>6. CASE ~saved.wen
  <2>1. DataClient' = Done(saved, data_ram[hit_way][set][saved.addr.woff])
    BY <1>2, <1>6 DEF DataClient, Done, core_rsp_rdata, set
  <2>2. hit_way \in valid_bits[set] /\ tag_ram[hit_way][set] = saved.addr.tag
    BY <1>2, HitWayHits DEF HitWays
  <2>3. data_ram[hit_way][set][saved.addr.woff] = sram[saved.addr]
    BY <1>1, <1>2, <1>3, <2>2, SavedTypes DEF LinesAgree, Settled
  <2> QED BY <1>3, <1>4, <1>6, <2>1, <2>3
          DEF MapsData, Abstract!DataStep, Abstract!Load, Abstract!Done, Asked, Done
<1> QED BY <1>5, <1>6

(* The last word of a fill answers the load; until then nothing is seen.   *)
LEMMA FillMaps ==
  ASSUME IInv, NEW next, Edge(next), Fill
  PROVE  MapsData
<1>1. Unused
  BY DEF IInv
<1>2. /\ state = "FILL" /\ saved' = saved /\ wt_req_fired' = wt_req_fired /\ rsp_hit' = rsp_hit
      /\ state' \in {"FILL", "WT_MISS", "DONE"}
  BY DEF Fill
<1>3. ~wt_req_fired /\ ~rsp_hit /\ DataClient = Asked(saved)
  BY <1>1, <1>2 DEF DataClient, Unused
<1>4. sram' = sram /\ (state' = "DONE" => ~saved.wen /\ fill_target' = sram[saved.addr])
  BY FillStep
<1>5. CASE state' = "DONE"
  <2>1. DataClient' = Done(saved, sram[saved.addr])
    BY <1>2, <1>3, <1>4, <1>5 DEF DataClient, Done, core_rsp_rdata
  <2> QED BY <1>3, <1>4, <1>5, <2>1
          DEF MapsData, Abstract!DataStep, Abstract!Load, Abstract!Done, Asked, Done
<1>6. CASE state' # "DONE"
  <2>1. DataClient' = Asked(saved)
    BY <1>2, <1>3, <1>6 DEF DataClient, Asked
  <2> QED BY <1>3, <1>4, <2>1 DEF MapsData
<1> QED BY <1>5, <1>6

(* A store takes effect when port B takes it, and its answer changes nothing. *)
LEMMA WriteThroughMaps ==
  ASSUME IInv, NEW next, Edge(next), WriteThrough
  PROVE  MapsData
<1>1. TypeOK /\ Unused /\ Purpose /\ CacheAnswers
  BY DEF IInv, MemoryIsCurrent
<1>2. /\ state \in {"WT", "WT_MISS"} /\ saved' = saved
      /\ state' = IF wt_req_fired' /\ wt_rsp_seen' THEN "DONE" ELSE state
  BY DEF WriteThrough
<1>3. /\ wt_req_fired' <=> wt_req_fired \/ mem_req_fires
      /\ wt_rsp_seen' <=> wt_rsp_seen \/ mem_rsp_valid
  BY Zenon DEF WriteThrough
<1>4. /\ ~wt_rsp_seen /\ (wt_req_fired <=> mem_rsp_valid) /\ saved.wen
      /\ mem_req_fires => ~wt_req_fired
  BY <1>1, <1>2 DEF Unused, CacheAnswers, Purpose, mem_req_fires, mem_req_valid
<1>5. sram' = IF mem_req_fires
              THEN [sram EXCEPT ![saved.addr] = Merge(@, saved.wdata, saved.wmask)] ELSE sram
  BY <1>1, <1>2, PortStep DEF Edge, mem_req_wen
<1>6. /\ ~wt_req_fired => DataClient = Asked(saved)
      /\ wt_req_fired => DataClient = Done(saved, NoWord)
  BY <1>2 DEF DataClient
<1>7. CASE mem_req_fires
  <2>1. state' = state /\ wt_req_fired'
    BY <1>2, <1>3, <1>4, <1>7
  <2>2. DataClient' = Done(saved, NoWord)
    BY <1>2, <2>1 DEF DataClient, Done
  <2>3. sram' = [sram EXCEPT ![saved.addr] = Abstract!Merge(@, saved.wdata, saved.wmask)]
    BY <1>5, <1>7 DEF Merge, Abstract!Merge
  <2>4. DataClient.at = "asked" /\ DataClient.access = saved
    BY <1>4, <1>6, <1>7 DEF Asked
  <2>5. DataClient' = Abstract!Done(DataClient.access, NoWord)
    BY <2>2, <2>4 DEF Done, Abstract!Done
  <2>6. Abstract!Store
    BY <1>4, <2>3, <2>4, <2>5 DEF Abstract!Store
  <2> QED BY <2>6 DEF MapsData, Abstract!DataStep
<1>8. CASE ~mem_req_fires /\ wt_req_fired
  <2>1. state' = "DONE"
    BY <1>2, <1>3, <1>4, <1>8
  <2>2. DataClient' = Done(saved, NoWord)
    BY <1>2, <1>4, <2>1 DEF DataClient, Done
  <2> QED BY <1>5, <1>6, <1>8, <2>2 DEF MapsData
<1>9. CASE ~mem_req_fires /\ ~wt_req_fired
  <2>1. state' = state /\ ~wt_req_fired'
    BY <1>2, <1>3, <1>9
  <2>2. DataClient' = Asked(saved)
    BY <1>2, <2>1 DEF DataClient, Asked
  <2> QED BY <1>5, <1>6, <1>9, <2>2 DEF MapsData
<1> QED BY <1>7, <1>8, <1>9

LEMMA AcceptMaps ==
  ASSUME IInv, NEW next, Edge(next), NEW r \in Access, Accept(r)
  PROVE  MapsData
<1>1. state = "IDLE" /\ state' = "LOOKUP" /\ saved' = r
  BY DEF Accept
<1>2. sram' = sram
  BY <1>1, Quiet
<1>3. DataClient = Idle /\ DataClient' = Asked(r)
  BY <1>1 DEF DataClient, Asked
<1>4. r \in Abstract!Access
  BY DEF Access, Word, Abstract!Access, Abstract!Word
<1> QED BY <1>2, <1>3, <1>4
        DEF MapsData, Abstract!DataStep, Abstract!Ask, Abstract!Idle, Idle, Asked

LEMMA RespondMaps ==
  ASSUME IInv, NEW next, Edge(next), Respond
  PROVE  MapsData
<1>1. state = "DONE" /\ state' = "IDLE"
  BY DEF Respond
<1>2. sram' = sram
  BY <1>1, Quiet
<1>3. DataClient.at = "done" /\ DataClient' = Idle
  BY <1>1 DEF DataClient, Done, Idle
<1> QED BY <1>2, <1>3 DEF MapsData, Abstract!DataStep, Abstract!Answer, Abstract!Idle, Idle

(* A miss, and an edge without a request, are steps of nobody.             *)
LEMMA NothingMaps ==
  ASSUME IInv, NEW next, Edge(next), LookupMiss \/ NoRequest
  PROVE  MapsData
<1>1. CASE LookupMiss
  <2>1. state = "LOOKUP" /\ state' = "FILL" /\ saved' = saved
    BY <1>1 DEF LookupMiss
  <2>2. sram' = sram
    BY <2>1, Quiet
  <2>3. DataClient = Asked(saved) /\ DataClient' = Asked(saved)
    BY <2>1 DEF DataClient, Asked
  <2> QED BY <2>2, <2>3 DEF MapsData
<1>2. CASE NoRequest
  <2>1. state = "IDLE" /\ state' = "IDLE"
    BY <1>2 DEF NoRequest, fsm
  <2>2. sram' = sram
    BY <2>1, Quiet
  <2>3. DataClient = Idle /\ DataClient' = Idle
    BY <2>1 DEF DataClient, Idle
  <2> QED BY <2>2, <2>3 DEF MapsData
<1> QED BY <1>1, <1>2

(* The walker's read takes effect at the edge that puts the word in b_rsp. *)
LEMMA WalkMaps ==
  ASSUME IInv, NEW next, Edge(next)
  PROVE  MapsWalk
<1>1. TypeOK /\ WalkAnswers
  BY DEF IInv, MemoryIsCurrent
<1>2. ptw \in [state : {"IDLE", "REQ", "WAIT"}, addr : Addr]
  BY <1>1 DEF TypeOK
<1>3. /\ next = IdleWalk \/ (next.state = "REQ" /\ next.addr \in Addr)
      /\ IdleWalk.state = "IDLE"
  BY DcacheAssumption DEF Edge, NextWalks, DcacheAssumption, IdleWalk
<1>4. CASE ptw.state = "REQ"
  <2>1. ptw'.state = "WAIT" /\ ptw'.addr = ptw.addr
    BY <1>2, <1>4 DEF Edge, WalkEdge
  <2>2. b_rsp'.valid /\ b_rsp'.rdata = sram[ptw.addr] /\ last_was_ptw'
    BY <1>1, <1>4, PortStep DEF Edge
  <2>3. Walker = Asked(ptw.addr)
    BY <1>4 DEF Walker
  <2>4. Walker' = Done(ptw.addr, sram[ptw.addr])
    BY <2>1, <2>2 DEF Walker, Done
  <2> QED BY <2>3, <2>4
          DEF MapsWalk, Abstract!WalkStep, Abstract!WalkRead, Abstract!Done, Asked, Done
<1>5. CASE ptw.state # "REQ"
  <2>1. ptw' = next
    BY <1>1, <1>2, <1>5 DEF Edge, WalkEdge, WalkAnswers
  <2>2. Walker = IF ptw.state = "IDLE" THEN Idle ELSE Done(ptw.addr, b_rsp.rdata)
    BY <1>1, <1>2, <1>5 DEF Walker, WalkAnswers
  <2>3. Walker.at # "asked" /\ (ptw.state # "IDLE" => Walker.at = "done")
    BY <2>2 DEF Idle, Done
  <2>4. CASE next = IdleWalk
    <3>1. Walker' = Idle
      BY <1>3, <2>1, <2>4 DEF Walker, Idle
    <3> QED BY <2>2, <2>3, <3>1
            DEF MapsWalk, Abstract!WalkStep, Abstract!WalkEnd, Abstract!Idle, Idle
  <2>5. CASE next.state = "REQ" /\ next.addr \in Addr
    <3>1. Walker' = Asked(next.addr)
      BY <2>1, <2>5 DEF Walker, Asked
    <3> QED BY <2>3, <2>5, <3>1 DEF MapsWalk, Abstract!WalkStep, Abstract!WalkAsk, Asked
  <2> QED BY <1>3, <2>4, <2>5
<1> QED BY <1>4, <1>5

LEMMA StepMaps == IInv /\ [Next]_vars => [Abstract!Next]_(Abstract!vars)
<1>1. ASSUME IInv, Next PROVE Abstract!Next
  <2>1. PICK next : /\ Edge(next)
                    /\ CacheEdge \/ NoRequest \/ \E r \in Loads \cup Stores : Accept(r)
    BY <1>1 DEF Next, Edge
  <2>2. ASSUME \E r \in Loads \cup Stores : Accept(r) PROVE MapsData
    <3>1. PICK r \in Access : Accept(r)
      BY <2>2, DcacheAssumption DEF DcacheAssumption
    <3> QED BY <1>1, <2>1, <3>1, AcceptMaps
  <2>3. ASSUME CacheEdge \/ NoRequest PROVE MapsData
    BY <1>1, <2>1, <2>3, LookupMaps, FillMaps, WriteThroughMaps, RespondMaps, NothingMaps
       DEF CacheEdge
  <2>4. MapsWalk
    BY <1>1, <2>1, WalkMaps
  <2>5. MapsData
    BY <2>1, <2>2, <2>3
  <2> QED BY <2>4, <2>5 DEF MapsData, MapsWalk, Abstract!Next
<1>2. UNCHANGED vars => UNCHANGED Abstract!vars
  BY DEF vars, fsm, arrays, portB, Abstract!vars, DataClient, Walker, core_rsp_rdata, set,
         Idle, Asked, Done
<1> QED BY <1>1, <1>2

(* dcache.sv 1-24, soc_top.sv 480-560, sram_dp.sv: whatever lines are      *)
(* cached and however the walker's reads cut in, each access takes effect  *)
(* once, on a memory of single words.                                      *)
THEOREM ImplementsTheMemory == Spec => ImplementsMemory
<1>1. Init => Abstract!Init
  <2> SUFFICES ASSUME Init PROVE Abstract!Init
    OBVIOUS
  <2>1. sram \in [Addr -> Abstract!Word]
    BY DcacheAssumption DEF DcacheAssumption, Init, Word, Abstract!Word
  <2>2. DataClient = Abstract!Idle /\ Walker = Abstract!Idle
    BY DEF Init, DataClient, Walker, IdleWalk, Idle, Abstract!Idle
  <2> QED BY <2>1, <2>2 DEF Abstract!Init
<1> QED BY <1>1, StepMaps, InvariantHolds, PTL DEF Spec, ImplementsMemory, Abstract!Spec
=============================================================================
