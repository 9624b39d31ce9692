------------------------------- MODULE Icache -------------------------------
(***************************************************************************)
(* The instruction cache (rtl/cache/icache.sv) on port A of the SRAM       *)
(* (rtl/mem/sram_dp.sv), between the fetch engine and FENCE.I of           *)
(* rtl/core/core_pipeline.sv, while stores reach the SRAM by port B.       *)
(*                                                                         *)
(* A step is one clock edge; registers are named as in the source without  *)
(* _q, and one nothing reads any more is kept at its reset value.  Of the  *)
(* registered reads of the arrays only valid_rd is a register here: only   *)
(* the valid bits can change between the read and its use.  A word is a    *)
(* value; the fill's fault inputs are tied to 0 in the source.             *)
(***************************************************************************)
EXTENDS CacheSets

CONSTANTS Word,
          FetchAddr, StoreAddr,     \* what the core fetches and stores to
          NoAddr,                   \* the address register's reset value
          TagRam0, DataRam0, Sram0  \* what the RAMs hold at power up

ASSUME IcacheAssumption ==
    /\ FetchAddr \subseteq Addr /\ StoreAddr \subseteq Addr /\ NoAddr \in Addr /\ Word # {}
    /\ TagRam0 \in [Way -> [Set -> Tag]] /\ DataRam0 \in [Way -> [Set -> [Woff -> Word]]]
    /\ Sram0 \in [Addr -> Word]

Zero   == CHOOSE w \in Word : TRUE

VARIABLES
  state, saved_addr,                        \* FSM and saved request
  fill_req_cnt, fill_rsp_cnt, victim_way, fill_target, rsp_hit, rsp_way,
  valid_rd,                                 \* the valid bits as read for the lookup
  tag_ram, valid_bits, data_ram, plru_ram,  \* arrays
  sram, a_rsp,                              \* port A
  inflight, squash, id, busy, fence,        \* the core: fetch, decode, older instructions,
                                            \* and where FENCE.I is (3: EX, 2: MEM, 1: WB)
  since                                     \* the values a word has had since FENCE.I (history)

fsm    == <<state, saved_addr, fill_req_cnt, fill_rsp_cnt, victim_way, fill_target,
            rsp_hit, rsp_way, valid_rd>>
arrays == <<tag_ram, valid_bits, data_ram, plru_ram>>
core   == <<inflight, squash, id, busy, fence>>
vars   == <<fsm, arrays, sram, a_rsp, core, since>>

-----------------------------------------------------------------------------
(* The core.                                                               *)

invalidate == fence = 1                          \* icache_invalidate
Flush(redirect) == redirect \/ invalidate

\* A mutant of FenceMayLeave: FENCE.I does not wait for older instructions.
FenceOvertakes == id = "fencei" /\ fence = 0

(* FENCE.I is serialised: it leaves decode when the pipeline is empty, and *)
(* younger instructions wait until it has gone.                            *)
FenceMayLeave == id = "fencei" /\ fence = 0 /\ ~busy
MayLeave == FenceMayLeave \/ (id = "other" /\ fence = 0)

\* A mutant of MayRequest: the flush of the same cycle does not hold the request.
RequestDuringFlush(leaves, redirect) == ~inflight /\ (id = "empty" \/ leaves)

MayRequest(leaves, redirect) == ~inflight /\ (id = "empty" \/ leaves) /\ ~Flush(redirect)

core_req_ready == state = "IDLE" /\ ~invalidate
core_rsp_valid == state = "DONE"

CoreEdge(req, leaves, redirect, f) ==
    LET accept == req /\ core_req_ready IN
    /\ inflight' = (accept \/ (inflight /\ ~core_rsp_valid))
    /\ squash' = (inflight' /\ ~accept /\ (squash \/ Flush(redirect)))
    /\ id' = IF Flush(redirect) THEN "empty"
             ELSE IF inflight /\ core_rsp_valid /\ ~squash THEN f
             ELSE IF leaves THEN "empty" ELSE id
    /\ busy' \in IF leaves /\ id = "other" /\ ~Flush(redirect) THEN {TRUE} ELSE {busy, FALSE}
    /\ fence' = IF fence > 0 THEN (IF busy THEN fence ELSE fence - 1)
                ELSE IF leaves /\ id = "fencei" /\ ~Flush(redirect) THEN 3 ELSE 0

(* A store of an older instruction reaches port B; st is empty or holds it. *)
StoreEdge(st) ==
    /\ sram' = [a \in Addr |-> IF a \in DOMAIN st THEN st[a] ELSE sram[a]]
    /\ since' = [a \in Addr |-> IF invalidate THEN {sram'[a]} ELSE since[a] \cup {sram'[a]}]

-----------------------------------------------------------------------------
(* Port A, one word a cycle; a store of the same cycle is not seen yet.    *)

mem_req_valid == state = "FILL" /\ fill_req_cnt < LineWords

PortEdge ==
    a_rsp' = IF mem_req_valid
             THEN [valid |-> TRUE, rdata |-> sram[[saved_addr EXCEPT !.woff = Low(fill_req_cnt)]]]
             ELSE [valid |-> FALSE, rdata |-> Zero]

(* The cache.                                                              *)

set == saved_addr.set

HitWays == { w \in valid_rd : tag_ram[w][set] = saved_addr.tag }
hit_any == HitWays # {}
hit_way == CHOOSE w \in HitWays : \A v \in HitWays : v <= w

(* The valid bits after a clear and, in the same edge, a fill's end: the   *)
(* later assignment wins.                                                  *)
Installed(ways) == [s \in Set |-> (IF invalidate THEN {} ELSE valid_bits[s])
                                    \cup (IF s = set THEN ways ELSE {})]

\* accept_req_w does not look at invalidate.
Accept(a) ==
    /\ state = "IDLE"
    /\ state' = "LOOKUP" /\ saved_addr' = a /\ valid_rd' = valid_bits[a.set]
    /\ valid_bits' = Installed({})
    /\ UNCHANGED <<fill_req_cnt, fill_rsp_cnt, victim_way, fill_target, rsp_hit, rsp_way,
                   tag_ram, data_ram, plru_ram>>

LookupHit ==
    /\ state = "LOOKUP" /\ hit_any
    /\ state' = "DONE" /\ rsp_hit' = TRUE /\ rsp_way' = hit_way /\ valid_rd' = {}
    /\ plru_ram' = [plru_ram EXCEPT ![set] = plru_update(@, hit_way)]
    /\ valid_bits' = Installed({})
    /\ UNCHANGED <<saved_addr, fill_req_cnt, fill_rsp_cnt, victim_way, fill_target,
                   tag_ram, data_ram>>

LookupMiss ==
    /\ state = "LOOKUP" /\ ~hit_any
    /\ state' = "FILL" /\ victim_way' = plru_pick(plru_ram[set]) /\ valid_rd' = {}
    /\ valid_bits' = Installed({})
    /\ UNCHANGED <<saved_addr, fill_req_cnt, fill_rsp_cnt, fill_target, rsp_hit, rsp_way,
                   tag_ram, data_ram, plru_ram>>

Fill ==
    /\ state = "FILL"
    /\ fill_req_cnt' = IF mem_req_valid THEN fill_req_cnt + 1 ELSE fill_req_cnt
    /\ fill_rsp_cnt' = IF a_rsp.valid THEN fill_rsp_cnt + 1 ELSE fill_rsp_cnt
    /\ data_ram' = IF a_rsp.valid
                   THEN [data_ram EXCEPT ![victim_way][set][Low(fill_rsp_cnt)] = a_rsp.rdata]
                   ELSE data_ram
    /\ fill_target' = IF a_rsp.valid /\ Low(fill_rsp_cnt) = saved_addr.woff THEN a_rsp.rdata
                      ELSE fill_target
    /\ IF fill_rsp_cnt' = LineWords
       THEN /\ state' = "DONE"
            /\ tag_ram' = [tag_ram EXCEPT ![victim_way][set] = saved_addr.tag]
            /\ valid_bits' = Installed({victim_way})
            /\ plru_ram' = [plru_ram EXCEPT ![set] = plru_update(@, victim_way)]
       ELSE /\ valid_bits' = Installed({})
            /\ UNCHANGED <<state, tag_ram, plru_ram>>
    /\ UNCHANGED <<saved_addr, victim_way, rsp_hit, rsp_way, valid_rd>>

Respond ==
    /\ state = "DONE"
    /\ state' = "IDLE" /\ saved_addr' = NoAddr
    /\ fill_req_cnt' = 0 /\ fill_rsp_cnt' = 0 /\ victim_way' = 0 /\ fill_target' = Zero
    /\ rsp_hit' = FALSE /\ rsp_way' = 0
    /\ valid_bits' = Installed({})
    /\ UNCHANGED <<valid_rd, tag_ram, data_ram, plru_ram>>

NoRequest ==
    /\ state = "IDLE"
    /\ valid_bits' = Installed({})
    /\ UNCHANGED <<fsm, tag_ram, data_ram, plru_ram>>

CacheEdge(asks) ==
    \/ asks # {} /\ \E a \in asks : Accept(a)
    \/ asks = {} /\ NoRequest
    \/ LookupHit \/ LookupMiss \/ Fill \/ Respond

core_rsp_data == IF rsp_hit THEN data_ram[rsp_way][set][saved_addr.woff] ELSE fill_target

-----------------------------------------------------------------------------
When(b) == IF b THEN BOOLEAN ELSE {FALSE}

Stored == {<<>>} \cup IF busy THEN UNION { [{a} -> Word] : a \in StoreAddr } ELSE {}

Next ==
    \E leaves \in When(MayLeave), redirect \in When(busy), st \in Stored,
       f \in IF inflight /\ core_rsp_valid THEN {"other", "fencei"} ELSE {"empty"} :
      \E asks \in IF MayRequest(leaves, redirect) THEN {{}} \cup { {a} : a \in FetchAddr }
                  ELSE {{}} :
        /\ CoreEdge(asks # {}, leaves, redirect, f)
        /\ StoreEdge(st)
        /\ PortEdge
        /\ CacheEdge(asks)

Init ==
    /\ state = "IDLE" /\ saved_addr = NoAddr
    /\ fill_req_cnt = 0 /\ fill_rsp_cnt = 0 /\ victim_way = 0 /\ fill_target = Zero
    /\ rsp_hit = FALSE /\ rsp_way = 0 /\ valid_rd = {}
    /\ tag_ram = TagRam0 /\ data_ram = DataRam0 /\ sram = Sram0
    /\ valid_bits = [s \in Set |-> {}] /\ plru_ram = [s \in Set |-> PlruReset]
    /\ a_rsp = [valid |-> FALSE, rdata |-> Zero]
    /\ inflight = FALSE /\ squash = FALSE /\ id = "empty" /\ busy = FALSE /\ fence = 0
    /\ since = [a \in Addr |-> {Sram0[a]}]

Spec == Init /\ [][Next]_vars

-----------------------------------------------------------------------------
TypeOK ==
    /\ state \in {"IDLE", "LOOKUP", "FILL", "DONE"} /\ saved_addr \in Addr
    /\ fill_req_cnt \in 0..LineWords /\ fill_rsp_cnt \in 0..LineWords
    /\ victim_way \in Way /\ fill_target \in Word /\ rsp_hit \in BOOLEAN /\ rsp_way \in Way
    /\ valid_rd \subseteq Way
    /\ tag_ram \in [Way -> [Set -> Tag]] /\ data_ram \in [Way -> [Set -> [Woff -> Word]]]
    /\ valid_bits \in [Set -> SUBSET Way] /\ plru_ram \in [Set -> Plru]
    /\ sram \in [Addr -> Word]
    /\ a_rsp \in [valid : BOOLEAN, rdata : Word]
    /\ inflight \in BOOLEAN /\ squash \in BOOLEAN /\ busy \in BOOLEAN
    /\ id \in {"empty", "other", "fencei"} /\ fence \in 0..3
    /\ since \in [Addr -> SUBSET Word]

WorksForTheCore == inflight <=> state # "IDLE"

LinesSinceFence ==
    \A s \in Set : \A w \in valid_bits[s] :
       (state = "FILL" /\ s = set /\ w = victim_way) \/
       \A o \in Woff :
          data_ram[w][s][o] \in since[[tag |-> tag_ram[w][s], set |-> s, woff |-> o]]

(* No line that a lookup can hit outlives a FENCE.I with words from before *)
(* it - not even one whose fill the FENCE.I found under way.  The cache    *)
(* works for the core exactly while the core waits, so the invalidation    *)
(* never meets a request half accepted and no answer comes that nobody     *)
(* asked for (icache.sv 254-257).                                          *)
FenceClears == TypeOK /\ WorksForTheCore /\ LinesSinceFence

(* The core executes the word of its address, as new as the last FENCE.I.  *)
FetchedSinceFence ==
    state = "DONE" /\ ~squash => core_rsp_data \in since[saved_addr]
=============================================================================
