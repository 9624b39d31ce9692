------------------------------- MODULE Dcache -------------------------------
(***************************************************************************)
(* The write-through, write-allocate data cache (rtl/cache/dcache.sv), the *)
(* arbiter between it and the page-table walker (rtl/soc/soc_top.sv) and   *)
(* port B of the SRAM behind both (rtl/mem/sram_dp.sv).                    *)
(*                                                                         *)
(* A step is one clock edge; registers are named as in the source without  *)
(* _q, and one nothing reads any more is kept at its reset value.  The     *)
(* arrays' registered read ports are not registers of the model: nothing   *)
(* writes the arrays between the read and its use.                         *)
(***************************************************************************)
EXTENDS CacheSets

CONSTANTS Lane, Byte,           \* the bytes of a word
          NoWord,
          Loads, Stores,        \* the accesses the core makes
          WalkAddr,             \* what the walker reads
          TagRam0, DataRam0, Sram0  \* what the RAMs hold at power up

Word   == [Lane -> Byte]
Access == [addr : Addr, wen : BOOLEAN, wdata : Word, wmask : SUBSET Lane]

ASSUME DcacheAssumption ==
    /\ Loads \subseteq Access /\ \A r \in Loads : ~r.wen
    /\ Stores \subseteq Access /\ \A r \in Stores : r.wen
    /\ WalkAddr \subseteq Addr
    /\ TagRam0 \in [Way -> [Set -> Tag]] /\ DataRam0 \in [Way -> [Set -> [Woff -> Word]]]
    /\ Sram0 \in [Addr -> Word]
    /\ NoWord \notin Word /\ Addr # {} /\ Word # {}

NoAddr == CHOOSE a \in Addr : TRUE
Zero   == CHOOSE w \in Word : TRUE

VARIABLES
  state, saved,                             \* FSM and saved request
  fill_req_cnt, fill_rsp_cnt, victim_way, fill_target,
  wt_req_fired, wt_rsp_seen,
  rsp_hit, rsp_way,
  tag_ram, valid_bits, data_ram, plru_ram,  \* arrays
  sram, b_rsp, last_was_ptw,                \* port B and its arbiter
  ptw                                       \* the walker

fsm    == <<state, saved, fill_req_cnt, fill_rsp_cnt, victim_way, fill_target,
            wt_req_fired, wt_rsp_seen, rsp_hit, rsp_way>>
arrays == <<tag_ram, valid_bits, data_ram, plru_ram>>
portB  == <<sram, b_rsp, last_was_ptw>>
vars   == <<fsm, arrays, portB, ptw>>

NoAccess == [addr |-> NoAddr, wen |-> FALSE, wdata |-> Zero, wmask |-> {}]

Merge(old, word, mask) == [l \in Lane |-> IF l \in mask THEN word[l] ELSE old[l]]

-----------------------------------------------------------------------------
(* Memory side: what the cache asks of port B, and what it gets.           *)

mem_req_valid == \/ state = "FILL" /\ fill_req_cnt < LineWords
                 \/ state \in {"WT", "WT_MISS"} /\ ~wt_req_fired

mem_req_addr == IF state = "FILL" THEN [saved.addr EXCEPT !.woff = Low(fill_req_cnt)] ELSE saved.addr
mem_req_wen  == state \in {"WT", "WT_MISS"}

arb_pick_ptw  == ptw.state = "REQ"

\* A mutant of mem_req_ready: the cache waits until the walk is over.
ReadyAfterWalk == ptw.state = "IDLE"

mem_req_ready == ~arb_pick_ptw
mem_req_fires == mem_req_valid /\ mem_req_ready

\* A mutant of mem_rsp_valid: the walker's answers are not told apart.
AnswerToBoth == b_rsp.valid

mem_rsp_valid == b_rsp.valid /\ ~last_was_ptw

PortEdge ==
    /\ b_rsp' = IF arb_pick_ptw THEN [valid |-> TRUE, rdata |-> sram[ptw.addr]]
                ELSE IF mem_req_fires /\ ~mem_req_wen
                     THEN [valid |-> TRUE, rdata |-> sram[mem_req_addr]]
                ELSE [valid |-> mem_req_fires, rdata |-> Zero]
    /\ last_was_ptw' = IF arb_pick_ptw \/ mem_req_fires THEN arb_pick_ptw ELSE last_was_ptw
    /\ sram' = IF mem_req_fires /\ mem_req_wen
               THEN [sram EXCEPT ![saved.addr] = Merge(@, saved.wdata, saved.wmask)]
               ELSE sram

(* The walker reads a word of a table, and then another or none.           *)
IdleWalk == [state |-> "IDLE", addr |-> NoAddr]
NextWalks == {IdleWalk} \cup [state : {"REQ"}, addr : WalkAddr]

WalkEdge(next) ==
    ptw' = CASE ptw.state = "IDLE" -> next
             [] ptw.state = "REQ"  -> [ptw EXCEPT !.state = "WAIT"]
             [] ptw.state = "WAIT" -> IF b_rsp.valid /\ last_was_ptw THEN next ELSE ptw

-----------------------------------------------------------------------------
(* The cache.                                                              *)

set == saved.addr.set

\* A mutant of HitWays: the loop over the ways ends one early.
HitWaysButLast == { w \in Way : w < 3 /\ w \in valid_bits[set] /\ tag_ram[w][set] = saved.addr.tag }

HitWays == { w \in Way : w \in valid_bits[set] /\ tag_ram[w][set] = saved.addr.tag }
hit_any == HitWays # {}
hit_way == CHOOSE w \in HitWays : \A v \in HitWays : v <= w

\* The access is over: the next one starts from scratch.
Cleared == /\ fill_req_cnt' = 0 /\ fill_rsp_cnt' = 0 /\ victim_way' = 0 /\ fill_target' = Zero
           /\ wt_req_fired' = FALSE /\ wt_rsp_seen' = FALSE
           /\ rsp_hit' = FALSE /\ rsp_way' = 0

Accept(r) ==
    /\ state = "IDLE"
    /\ state' = "LOOKUP" /\ saved' = r
    /\ UNCHANGED <<fill_req_cnt, fill_rsp_cnt, victim_way, fill_target, wt_req_fired,
                   wt_rsp_seen, rsp_hit, rsp_way, arrays>>

LookupHit ==
    /\ state = "LOOKUP" /\ hit_any
    /\ state' = IF saved.wen THEN "WT" ELSE "DONE"
    /\ rsp_hit' = TRUE /\ rsp_way' = hit_way
    /\ plru_ram' = [plru_ram EXCEPT ![set] = plru_update(@, hit_way)]
    /\ data_ram' = IF saved.wen
                   THEN [data_ram EXCEPT ![hit_way][set][saved.addr.woff] =
                                           Merge(@, saved.wdata, saved.wmask)]
                   ELSE data_ram
    /\ UNCHANGED <<saved, fill_req_cnt, fill_rsp_cnt, victim_way, fill_target, wt_req_fired,
                   wt_rsp_seen, tag_ram, valid_bits>>

LookupMiss ==
    /\ state = "LOOKUP" /\ ~hit_any
    /\ state' = "FILL" /\ victim_way' = plru_pick(plru_ram[set])
    /\ UNCHANGED <<saved, fill_req_cnt, fill_rsp_cnt, fill_target, wt_req_fired, wt_rsp_seen,
                   rsp_hit, rsp_way, arrays>>

IsTarget == Low(fill_rsp_cnt) = saved.addr.woff

\* A mutant of FilledWord: the store that missed is not merged into its line.
FilledUnmerged == b_rsp.rdata

FilledWord == IF saved.wen /\ IsTarget THEN Merge(b_rsp.rdata, saved.wdata, saved.wmask)
              ELSE b_rsp.rdata

Fill ==
    /\ state = "FILL"
    /\ fill_req_cnt' = IF mem_req_fires THEN fill_req_cnt + 1 ELSE fill_req_cnt
    /\ fill_rsp_cnt' = IF mem_rsp_valid THEN fill_rsp_cnt + 1 ELSE fill_rsp_cnt
    /\ data_ram' = IF mem_rsp_valid
                   THEN [data_ram EXCEPT ![victim_way][set][Low(fill_rsp_cnt)] = FilledWord]
                   ELSE data_ram
    /\ fill_target' = IF mem_rsp_valid /\ IsTarget /\ ~saved.wen THEN b_rsp.rdata ELSE fill_target
    /\ IF fill_rsp_cnt' = LineWords
       THEN /\ state' = IF saved.wen THEN "WT_MISS" ELSE "DONE"
            /\ tag_ram' = [tag_ram EXCEPT ![victim_way][set] = saved.addr.tag]
            /\ valid_bits' = [valid_bits EXCEPT ![set] = @ \cup {victim_way}]
            /\ plru_ram' = [plru_ram EXCEPT ![set] = plru_update(@, victim_way)]
       ELSE UNCHANGED <<state, tag_ram, valid_bits, plru_ram>>
    /\ UNCHANGED <<saved, victim_way, wt_req_fired, wt_rsp_seen, rsp_hit, rsp_way>>

WriteThrough ==
    /\ state \in {"WT", "WT_MISS"}
    /\ wt_req_fired' = (wt_req_fired \/ mem_req_fires)
    /\ wt_rsp_seen' = (wt_rsp_seen \/ mem_rsp_valid)
    /\ state' = IF wt_req_fired' /\ wt_rsp_seen' THEN "DONE" ELSE state
    /\ UNCHANGED <<saved, fill_req_cnt, fill_rsp_cnt, victim_way, fill_target, rsp_hit, rsp_way,
                   arrays>>

Respond ==
    /\ state = "DONE"
    /\ state' = "IDLE" /\ saved' = NoAccess
    /\ Cleared
    /\ UNCHANGED arrays

core_rsp_rdata == IF rsp_hit THEN data_ram[rsp_way][set][saved.addr.woff] ELSE fill_target

CacheEdge == LookupHit \/ LookupMiss \/ Fill \/ WriteThrough \/ Respond

NoRequest == state = "IDLE" /\ UNCHANGED <<fsm, arrays>>

Next == \E next \in NextWalks :
          /\ WalkEdge(next) /\ PortEdge
          /\ CacheEdge \/ NoRequest \/ \E r \in Loads \cup Stores : Accept(r)

Init ==
    /\ state = "IDLE" /\ saved = NoAccess
    /\ fill_req_cnt = 0 /\ fill_rsp_cnt = 0 /\ victim_way = 0 /\ fill_target = Zero
    /\ wt_req_fired = FALSE /\ wt_rsp_seen = FALSE /\ rsp_hit = FALSE /\ rsp_way = 0
    /\ tag_ram = TagRam0 /\ data_ram = DataRam0 /\ sram = Sram0
    /\ valid_bits = [s \in Set |-> {}] /\ plru_ram = [s \in Set |-> PlruReset]
    /\ b_rsp = [valid |-> FALSE, rdata |-> Zero] /\ last_was_ptw = FALSE
    /\ ptw = IdleWalk

Spec == Init /\ [][Next]_vars

(* The clock runs: an edge that changes a register comes.                  *)
FairSpec == Spec /\ WF_vars(Next)

-----------------------------------------------------------------------------
TypeOK ==
    /\ state \in {"IDLE", "LOOKUP", "WT", "FILL", "WT_MISS", "DONE"}
    /\ saved \in Access
    /\ fill_req_cnt \in 0..LineWords /\ fill_rsp_cnt \in 0..LineWords
    /\ victim_way \in Way /\ fill_target \in Word
    /\ wt_req_fired \in BOOLEAN /\ wt_rsp_seen \in BOOLEAN
    /\ rsp_hit \in BOOLEAN /\ rsp_way \in Way
    /\ tag_ram \in [Way -> [Set -> Tag]] /\ data_ram \in [Way -> [Set -> [Woff -> Word]]]
    /\ valid_bits \in [Set -> SUBSET Way] /\ plru_ram \in [Set -> Plru]
    /\ sram \in [Addr -> Word]
    /\ b_rsp \in [valid : BOOLEAN, rdata : Word] /\ last_was_ptw \in BOOLEAN
    /\ ptw \in [state : {"IDLE", "REQ", "WAIT"}, addr : Addr]

(* The word of memory as it will be when the store under way reaches it.   *)
Storing == state \in {"WT", "WT_MISS"} /\ ~wt_req_fired
Settled(a) == IF Storing /\ a = saved.addr THEN Merge(sram[a], saved.wdata, saved.wmask)
              ELSE sram[a]

LinesAgree ==
    \A s \in Set : \A w \in valid_bits[s] :
       (state = "FILL" /\ s = set /\ w = victim_way) \/
       \A o \in Woff : data_ram[w][s][o] = Settled([tag |-> tag_ram[w][s], set |-> s, woff |-> o])

OneCopy ==
    \A s \in Set : \A v, w \in valid_bits[s] : tag_ram[v][s] = tag_ram[w][s] => v = w

(* dcache.sv 1-24: "memory is always current" - every word of a valid line *)
(* is memory's, but for the store on its way and the line being replaced.  *)
(* No line is in two ways: a store would update one copy of it only.       *)
MemoryIsCurrent == TypeOK /\ LinesAgree /\ OneCopy

-----------------------------------------------------------------------------
(* The cache and its port implement the memory of single words.            *)
Idle == [at |-> "idle"]
Asked(a) == [at |-> "asked", access |-> a]
Done(a, w) == [at |-> "done", access |-> a, rdata |-> w]

DataClient ==
    CASE state = "IDLE" -> Idle
      [] state = "DONE" -> Done(saved, IF saved.wen THEN NoWord ELSE core_rsp_rdata)
      [] state \in {"WT", "WT_MISS"} /\ wt_req_fired -> Done(saved, NoWord)
      [] OTHER -> Asked(saved)

Walker ==
    CASE ptw.state = "IDLE" -> Idle
      [] ptw.state = "REQ"  -> Asked(ptw.addr)
      [] ptw.state = "WAIT" -> IF b_rsp.valid /\ last_was_ptw THEN Done(ptw.addr, b_rsp.rdata)
                               ELSE Asked(ptw.addr)

Abstract == INSTANCE Memory WITH mem <- sram, data <- DataClient, walk <- Walker

ImplementsMemory == Abstract!Spec

(* Every access is answered, although the walker's reads go first.         *)
DataServed == state # "IDLE" ~> state = "IDLE"
=============================================================================
