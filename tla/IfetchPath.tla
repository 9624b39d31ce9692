----------------------------- MODULE IfetchPath -----------------------------
(***************************************************************************)
(* The instruction side of the MMU (rtl/core/mmu.sv) between the fetch     *)
(* engine of rtl/core/core_pipeline.sv and the fetch routing of            *)
(* rtl/soc/soc_top.sv: TLB, page-table walker, walk-result cache (xlate),  *)
(* PMP denial, and the multiplexer that chooses which of them answers.     *)
(*                                                                         *)
(* A step is one clock edge; an operator named after a wire (without its   *)
(* if_ prefix) is that wire.  An address is a page: an offset matters only *)
(* where straight-line code runs over the end of a page, to NextPage.  A   *)
(* word is named by the frame it is read from, so a fetch that brings a    *)
(* wrong word brings a wrong frame.  The core behind the fetch engine is   *)
(* reduced to the instructions it has fetched (pend) and what the oldest   *)
(* one does to the translation: store a PTE, SFENCE.VMA, write satp,       *)
(* return, trap, branch.  A register nothing reads is kept at its reset    *)
(* value.  Superpages and bus faults of the walker are left out.           *)
(***************************************************************************)
EXTENDS Naturals, Sequences

CONSTANTS Page, NoPage,
          NextPage,     \* where straight-line code may run on to
          Asid,
          Global,       \* the pages every address space maps by the same PTE
          Frame, NoFrame,
          BareFrame,    \* the frame a page names when translation is off
          SramFrame,    \* the frames behind the I-cache; the others are DDR
          TablesInDdr,  \* whether the page tables are in DDR
          Denied,       \* the frames PMP lets only M-mode execute
          Mapping,      \* the leaf PTEs software writes
          InitTable,    \* the PTEs at the start
          MaxStores,    \* a bound on the PTEs software changes
          TlbSize,      \* 4 in the source
          Priv, Satp    \* the privilege modes and satp values that occur

Pte == [leaf : BOOLEAN, frame : Frame, x : BOOLEAN, u : BOOLEAN]
Key == { <<a, p>> : a \in Asid, p \in Page \ Global } \cup { <<"global", p>> : p \in Global }
KeyOf(a, p) == IF p \in Global THEN <<"global", p>> ELSE <<a, p>>

NoAnswer == "none"

ASSUME IfetchAssumption ==
    /\ NoPage \notin Page /\ NoFrame \notin Frame /\ NoAnswer \notin Frame
    /\ Asid # {} /\ {"any", "global"} \cap Asid = {}
    /\ NextPage \in [Page -> Page] /\ BareFrame \in [Page -> Frame]
    /\ Global \subseteq Page /\ SramFrame \subseteq Frame /\ Denied \subseteq Frame
    /\ Mapping \subseteq Pte /\ InitTable \in [Key -> Mapping]
    /\ Priv \subseteq {"U", "S", "M"} /\ Priv \cap {"S", "M"} # {}
    /\ Satp \subseteq [on : BOOLEAN, asid : Asid] /\ Satp # {}
    /\ TlbSize \in Nat \ {0} /\ MaxStores \in Nat

Fault   == {"pagefault", "accessfault"}
Path    == {"sram", "axi"}
PathOf(f) == IF f \in SramFrame THEN "sram" ELSE "axi"
Slot    == 0..(TlbSize - 1)

VARIABLES
  pc, inflight, inflightPage, squash, young,  \* fetch engine; young: accepted one edge ago
  pend,                                       \* the fetched instructions, oldest first
  priv, satp,                                 \* CSRs
  pt, stores,                                 \* PTEs in memory
  seen, kept,                                 \* the values each PTE has had since the last fence
                                              \* (kept: or that a walk result outlived it with)
  tlb, repl, xlate, pmpPending,               \* if side of the MMU
  ptw,                                        \* the shared walker
  ds                                          \* the fetch each path works on

fetchVars == <<pc, inflight, inflightPage, squash, young, pend>>
csrVars   == <<priv, satp>>
tableVars == <<pt, stores, seen, kept>>
mmuVars   == <<tlb, repl, xlate, pmpPending, ptw>>
vars      == <<fetchVars, csrVars, tableVars, mmuVars, ds>>

NoEntry == [valid |-> FALSE, page |-> NoPage, asid |-> CHOOSE a \in Asid : TRUE, g |-> FALSE,
            frame |-> NoFrame, x |-> FALSE, u |-> FALSE]
NoXlate == [valid |-> FALSE, fault |-> FALSE, frame |-> NoFrame, page |-> NoPage]
IdleWalk == [state |-> "IDLE", side |-> "IF", page |-> NoPage, priv |-> "M",
             asid |-> CHOOSE a \in Asid : TRUE]

-----------------------------------------------------------------------------
(* Lookup and permission.  req is if_core_req_valid; the address the core  *)
(* drives is pc whether it asks or not.                                    *)

xlate_if == satp.on /\ priv # "M"

TlbMatch(e) == e.valid /\ (e.g \/ e.asid = satp.asid) /\ e.page = pc
Hits    == { i \in Slot : TlbMatch(tlb[i]) }
tlb_hit == Hits # {}
HitEntry == tlb[CHOOSE i \in Hits : \A j \in Hits : j <= i]

PermOk(p, e) == e.x /\ (p = "U" <=> e.u)

tlb_go   == xlate_if /\ tlb_hit /\ PermOk(priv, HitEntry)
tlb_deny == xlate_if /\ tlb_hit /\ ~PermOk(priv, HitEntry)

\* A mutant of cache_live: the page of the cached walk is not compared.
LiveForAnyPage(req) == xlate.valid

cache_live(req)  == xlate.valid /\ (req => xlate.page = pc)
forward(req)     == xlate_if /\ cache_live(req) /\ ~xlate.fault
fault_reply(req) == xlate_if /\ cache_live(req) /\ xlate.fault

needs_walk(req) == xlate_if /\ req /\ ~tlb_hit /\ ~(xlate.valid /\ xlate.page = pc)

(* The frame a request passed on goes to.                                  *)
Target == IF ~xlate_if THEN BareFrame[pc]
          ELSE IF tlb_go THEN HitEntry.frame ELSE xlate.frame

(* PMP checks it, by a comparison of its own with the cached page.         *)
pmp_active(req) == req /\ \/ ~xlate_if \/ tlb_go
                          \/ xlate.valid /\ ~xlate.fault /\ xlate.page = pc
pmp_kill_comb(req) == pmp_active(req) /\ priv # "M" /\ Target \in Denied
pmp_kill(req)      == pmp_kill_comb(req) \/ pmpPending

(* Which branch of the multiplexer drives the outputs.                     *)
Mux(req) ==
    IF pmp_kill(req) THEN "kill"
    ELSE IF ~xlate_if \/ tlb_go THEN "pass"
    ELSE IF tlb_deny THEN "deny"
    ELSE IF forward(req) THEN "pass"
    ELSE IF fault_reply(req) THEN "deny"
    ELSE "stall"

Busy(q) == ds[q] # NoFrame

\* if_ds_req_ready as the paths drive it: each does one fetch at a time.
PathReady(q) == ~Busy(q) /\ ((q = "axi" /\ TablesInDdr) => ptw.state = "IDLE")
DsReady(axiReady) ==
    /\ Target # NoFrame
    /\ PathReady(PathOf(Target))
    /\ PathOf(Target) = "axi" => axiReady

Accepted(req, axiReady) ==
    req /\ (Mux(req) \in {"kill", "deny"} \/ (Mux(req) = "pass" /\ DsReady(axiReady)))

(* What the core sees this cycle; rsp is the set of paths that answer.     *)
DsAnswer(rsp) == IF "sram" \in rsp THEN ds["sram"]
                 ELSE IF "axi" \in rsp THEN ds["axi"] ELSE NoAnswer

Answer(req, rsp) ==
    CASE Mux(req) = "kill"  -> "accessfault"
      [] Mux(req) = "deny"  -> "pagefault"
      [] Mux(req) = "pass"  -> DsAnswer(rsp)
      [] Mux(req) = "stall" -> NoAnswer

-----------------------------------------------------------------------------
(* What the core does at the edge.                                         *)

(* page and asid: what a fence is limited to, NoPage and AnyAsid for x0.   *)
AnyAsid == "any"
NoEvent == [kind |-> "none", to |-> pc, priv |-> priv, satp |-> satp,
            page |-> NoPage, asid |-> AnyAsid]
Redirects(e) == e.kind \in {"branch", "trap", "ret", "satp", "fence"}

Event(kind, to) == [NoEvent EXCEPT !.kind = kind, !.to = to]
Fence(to, page, asid) == [Event("fence", to) EXCEPT !.page = page, !.asid = asid]

Traps   == { [Event("trap", t) EXCEPT !.priv = m] :
               t \in Page, m \in {q \in Priv : q = "M" \/ (q = "S" /\ priv # "M")} }
Returns == { [Event("ret", t) EXCEPT !.priv = m] :
               t \in Page, m \in {q \in Priv : q # "M" \/ priv = "M"} }
Branches == { Event("branch", t) : t \in Page }

\* The instruction after the oldest one.
After == {pend[1].page, NextPage[pend[1].page]}

SatpWrites == { [Event("satp", t) EXCEPT !.satp = s] : t \in After, s \in Satp }
Fences == { Fence(t, p, a) : t \in After, p \in Page \cup {NoPage}, a \in Asid \cup {AnyAsid} }

(* An interrupt needs an empty pipeline, a faulted fetch only traps; a     *)
(* write of satp waits in MEM for the fetch in flight, but not for one     *)
(* accepted in its last cycle there.                                       *)
Events ==
    {NoEvent} \cup
    IF pend = <<>> THEN (IF inflight THEN {} ELSE Traps)
    ELSE IF pend[1].got \in Fault THEN Traps
    ELSE {[NoEvent EXCEPT !.kind = "retire"]} \cup Branches \cup Traps
         \cup (IF priv = "U" THEN {}
               ELSE Fences \cup Returns \cup (IF inflight /\ ~young THEN {} ELSE SatpWrites))

(* The fetch engine.                                                       *)
FetchEdge(e, req, axiReady, rsp) ==
    LET accept   == Accepted(req, axiReady)
        answered == inflight /\ Answer(req, rsp) # NoAnswer
        rest     == IF e.kind = "retire" THEN Tail(pend) ELSE pend
    IN
    /\ inflight' = (accept \/ (inflight /\ ~answered))
    /\ inflightPage' = IF accept THEN pc ELSE IF inflight' THEN inflightPage ELSE NoPage
    /\ squash' = (~accept /\ inflight' /\ (squash \/ Redirects(e)))
    /\ young' = accept
    /\ IF Redirects(e) THEN pc' = e.to
       ELSE IF accept THEN pc' \in {pc, NextPage[pc]} ELSE pc' = pc
    /\ pend' = IF Redirects(e) THEN <<>>
               ELSE IF answered /\ ~squash
                    THEN Append(rest, [page |-> inflightPage, got |-> Answer(req, rsp)])
                    ELSE rest

(* The PTEs a fence covers; seen forgets their older values.               *)
Covers(e, k) == e.page \in {NoPage, k[2]} /\ e.asid \in {AnyAsid, k[1]}

CsrEdge(e) ==
    /\ priv' = e.priv
    /\ satp' = e.satp

\* A store of the oldest instruction changes a PTE.  No read of the walker is
\* outstanding then: they share the bus the table is behind.
StorePte(e) ==
    /\ e.kind = "retire" /\ priv # "U"
    /\ stores < MaxStores
    /\ ptw.state \notin {"L1_WAIT", "L0_WAIT"}
    /\ stores' = stores + 1
    /\ \E k \in Key, m \in Mapping :
          /\ pt[k] # m
          /\ pt' = [pt EXCEPT ![k] = m]
          /\ seen' = [seen EXCEPT ![k] = @ \cup {m}]
          /\ kept' = [kept EXCEPT ![k] = @ \cup {m}]

KeepPte(e) ==
    /\ UNCHANGED <<pt, stores>>
    /\ seen' = [k \in Key |-> IF e.kind = "fence" /\ Covers(e, k) THEN {pt[k]} ELSE seen[k]]
    /\ kept' = [k \in Key |-> IF e.kind = "fence" /\ Covers(e, k) /\ ~(xlate.valid /\ xlate.page = k[2])
                              THEN {pt[k]} ELSE kept[k]]

-----------------------------------------------------------------------------
(* The MMU's registers.                                                    *)

(* The walk ends with the PTE of its page, at level 1 or level 0.          *)
WalkEnds(ptwRsp) == ptw.state \in {"L1_WAIT", "L0_WAIT"} /\ ptwRsp = "last"
WalkedPte == pt[KeyOf(ptw.asid, ptw.page)]
IfWalkEnds(ptwRsp) == WalkEnds(ptwRsp) /\ ptw.side = "IF"

PtwEdge(req, ptwReady, ptwRsp, dmWalk) ==
    ptw' = CASE ptw.state = "IDLE" /\ needs_walk(req) ->
                    [ptw EXCEPT !.state = "L1_REQ", !.side = "IF", !.page = pc, !.priv = priv]
             [] ptw.state = "IDLE" /\ ~needs_walk(req) ->
                    IF dmWalk THEN [ptw EXCEPT !.state = "L1_REQ", !.side = "DM"] ELSE ptw
             [] ptw.state = "L1_REQ" ->
                    IF ptwReady THEN [ptw EXCEPT !.state = "L1_WAIT", !.asid = satp.asid] ELSE ptw
             [] ptw.state = "L0_REQ" ->
                    IF ptwReady THEN [ptw EXCEPT !.state = "L0_WAIT"] ELSE ptw
             [] OTHER -> IF ptwRsp = "none" THEN ptw
                         ELSE IF ptwRsp = "next" THEN [ptw EXCEPT !.state = "L0_REQ"]
                         ELSE IdleWalk

\* A mutant of SfenceHits: a fence by address spares the other address spaces.
SfenceSparesOthers(e, t) == /\ e.kind = "fence"
                            /\ e.page \in {NoPage, t.page}
                            /\ t.asid = e.asid /\ ~t.g

SfenceHits(e, t) == /\ e.kind = "fence"
                    /\ e.page \in {NoPage, t.page}
                    /\ e.asid # AnyAsid => t.asid = e.asid /\ ~t.g

NextSlot == (repl + 1) % TlbSize

FilledEntry == [valid |-> TRUE, page |-> ptw.page, asid |-> satp.asid, g |-> ptw.page \in Global,
                frame |-> WalkedPte.frame, x |-> WalkedPte.x, u |-> WalkedPte.u]

(* The fence looks at the entries before the fill, and clears valid after  *)
(* the fill has written it.                                                *)
TlbEdge(e, ptwRsp) ==
    LET fill == IfWalkEnds(ptwRsp) /\ WalkedPte.leaf
        filled(i) == IF fill /\ i = repl THEN FilledEntry ELSE tlb[i]
    IN
    /\ tlb' = [i \in Slot |-> IF SfenceHits(e, tlb[i]) THEN NoEntry ELSE filled(i)]
    /\ repl' = IF fill THEN NextSlot ELSE repl

\* A mutant of Stuffs: a TLB hit leaves nothing for the answer to go by.
NeverStuffs(req, axiReady) == FALSE

Stuffs(req, axiReady) == req /\ tlb_go /\ DsReady(axiReady) /\ ~xlate.valid

(* The walk-result cache: written by the end of a walk, by a TLB hit whose *)
(* answer is due or refused, cleared when an answer is handed over.        *)
XlateEdge(req, axiReady, rsp, ptwRsp) ==
    LET dsRsp == DsAnswer(rsp) # NoAnswer
        walked == [valid |-> TRUE, page |-> ptw.page,
                   fault |-> ~(WalkedPte.leaf /\ PermOk(ptw.priv, WalkedPte)),
                   frame |-> IF WalkedPte.leaf /\ PermOk(ptw.priv, WalkedPte)
                             THEN WalkedPte.frame ELSE NoFrame]
        cleared == \/ forward(req) /\ dsRsp /\ inflight
                   \/ fault_reply(req) /\ inflight
                   \/ tlb_go /\ dsRsp /\ inflight
    IN xlate' =
         IF cleared THEN NoXlate
         ELSE IF Stuffs(req, axiReady)
           THEN [valid |-> TRUE, fault |-> FALSE, frame |-> HitEntry.frame, page |-> pc]
         ELSE IF req /\ tlb_deny /\ ~xlate.valid
           THEN [valid |-> TRUE, fault |-> TRUE, frame |-> NoFrame, page |-> pc]
         ELSE IF IfWalkEnds(ptwRsp) THEN walked
         ELSE xlate

PmpEdge(req) ==
    pmpPending' = IF pmp_kill_comb(req) /\ ~inflight THEN TRUE
                  ELSE pmpPending /\ ~inflight

\* A mutant of Forwards: a PMP denial does not hold the request back.
ForwardsDenied(req) == req /\ Mux(req) \in {"pass", "kill"}

Forwards(req) == req /\ Mux(req) = "pass"

DsEdge(req, axiReady, rsp) ==
    ds' = [q \in Path |->
             IF q \in rsp THEN NoFrame
             ELSE IF Forwards(req) /\ DsReady(axiReady) /\ q = PathOf(Target) THEN Target
             ELSE ds[q]]

-----------------------------------------------------------------------------
Edge(e, req, axiReady, rsp, ptwReady, ptwRsp, dmWalk) ==
    /\ FetchEdge(e, req, axiReady, rsp)
    /\ CsrEdge(e)
    /\ StorePte(e) \/ KeepPte(e)
    /\ PtwEdge(req, ptwReady, ptwRsp, dmWalk)
    /\ TlbEdge(e, ptwRsp)
    /\ XlateEdge(req, axiReady, rsp, ptwRsp)
    /\ PmpEdge(req)
    /\ DsEdge(req, axiReady, rsp)

When(b) == IF b THEN BOOLEAN ELSE {FALSE}

\* The walker's port: one read at a time, after the fetch DDR works on.
PtwMayIssue == ptw.state \in {"L1_REQ", "L0_REQ"} /\ (TablesInDdr => ~Busy("axi"))
PtwAnswers == CASE ptw.state = "L1_WAIT" -> {"none", "next", "last"}
                [] ptw.state = "L0_WAIT" -> {"none", "last"}
                [] OTHER -> {"none"}

Next ==
    \E e \in Events, rsp \in SUBSET {q \in Path : Busy(q)},
       ptwReady \in When(PtwMayIssue), ptwRsp \in PtwAnswers,
       dmWalk \in When(pend # <<>> /\ ptw.state = "IDLE") :
      \E req \in When(~inflight /\ ~Redirects(e) /\ Len(pend) < 2) :
      \E axiReady \in When(req /\ PathOf(Target) = "axi") :
        Edge(e, req, axiReady, rsp, ptwReady, ptwRsp, dmWalk)

Init ==
    /\ pc \in Page /\ inflight = FALSE /\ inflightPage = NoPage /\ squash = FALSE /\ young = FALSE
    /\ pend = <<>>
    /\ priv = (IF "M" \in Priv THEN "M" ELSE "S") /\ satp \in Satp
    /\ pt = InitTable /\ stores = 0
    /\ seen = [k \in Key |-> {InitTable[k]}] /\ kept = seen
    /\ tlb = [i \in Slot |-> NoEntry] /\ repl = 0
    /\ xlate = NoXlate /\ pmpPending = FALSE
    /\ ptw = IdleWalk
    /\ ds = [q \in Path |-> NoFrame]

Spec == Init /\ [][Next]_vars

-----------------------------------------------------------------------------
TypeOK ==
    /\ pc \in Page /\ inflight \in BOOLEAN /\ inflightPage \in Page \cup {NoPage}
    /\ squash \in BOOLEAN /\ young \in BOOLEAN
    /\ pend \in Seq([page : Page, got : Frame \cup Fault]) /\ Len(pend) <= 2
    /\ priv \in Priv /\ satp \in Satp
    /\ pt \in [Key -> Mapping] /\ stores \in 0..MaxStores
    /\ seen \in [Key -> SUBSET Mapping] /\ kept \in [Key -> SUBSET Mapping]
    /\ tlb \in [Slot -> [valid : BOOLEAN, page : Page \cup {NoPage}, asid : Asid, g : BOOLEAN,
                         frame : Frame \cup {NoFrame}, x : BOOLEAN, u : BOOLEAN]]
    /\ repl \in Slot
    /\ xlate \in [valid : BOOLEAN, fault : BOOLEAN, frame : Frame \cup {NoFrame},
                  page : Page \cup {NoPage}]
    /\ pmpPending \in BOOLEAN
    /\ ptw \in [state : {"IDLE", "L1_REQ", "L1_WAIT", "L0_REQ", "L0_WAIT"}, side : {"IF", "DM"},
                page : Page \cup {NoPage}, priv : {"U", "S", "M"}, asid : Asid]
    /\ ds \in [Path -> Frame \cup {NoFrame}]

(* What a fetch of page p may bring: the word of a frame its PTE has named *)
(* since the last fence over it, or the fault that PTE or PMP calls for.   *)
Bare(f) == IF priv # "M" /\ f \in Denied THEN "accessfault" ELSE f
Translated(m) == IF m.leaf /\ PermOk(priv, m) THEN Bare(m.frame) ELSE "pagefault"
Outcomes(p, since) == IF xlate_if THEN { Translated(m) : m \in since[KeyOf(satp.asid, p)] }
                      ELSE {Bare(BareFrame[p])}

(* mmu.sv 61-69: a fence flushes the translations it matches, so what the  *)
(* core fetches after it is what memory says then.                         *)
FetchedSinceFence ==
    \A i \in 1..Len(pend) : pend[i].got \in Outcomes(pend[i].page, seen)

(* Every instruction the core has fetched is the one its address names in  *)
(* the current mode and address space: no other space's, no other fetch's, *)
(* no fault without a cause, and no stale one but what a walk result no    *)
(* fetch has claimed carries over a fence.                                 *)
FetchedLegally ==
    \A i \in 1..Len(pend) : pend[i].got \in Outcomes(pend[i].page, kept)

(* The fabric owes the core at most one word, and only while the core      *)
(* waits for it, so a late answer cannot be taken for the next fetch's.    *)
OneAnswerDue == /\ \A q \in Path : Busy(q) => inflight
                /\ ~(Busy("sram") /\ Busy("axi"))

(* No entry of the TLB outlives a fence over it: each agrees with a PTE    *)
(* its page has had in its address space since.  None is filled past the   *)
(* end of the TLB.                                                         *)
TlbFresh == TypeOK /\ \A i \in Slot : tlb[i].valid =>
    \E m \in seen[KeyOf(tlb[i].asid, tlb[i].page)] :
       m.leaf /\ m.frame = tlb[i].frame /\ m.x = tlb[i].x /\ m.u = tlb[i].u

(* docs/bus.md 19: "`rsp` is guaranteed at some later cycle" - the core    *)
(* never waits for a fetch that nothing is going to answer.                *)
AnswerOwed ==
    inflight => (\E q \in Path : Busy(q)) \/ Mux(FALSE) \in {"kill", "deny"}
=============================================================================
