-------------------------- MODULE IfetchPathProofs --------------------------
(***************************************************************************)
(* What a fetch brings, and that something answers it: for every number of *)
(* pages, frames and TLB entries, every routing of the frames, every PMP   *)
(* denial and every pace of the fabric, in the scope each theorem names.   *)
(***************************************************************************)
EXTENDS IfetchPath, FiniteSetTheorems, SequenceTheorems, TLAPS

-----------------------------------------------------------------------------
(* The scopes.  Outside them the code departs from the property.           *)

\* Software maps every page for the one mode that is translated.
NoFaults == \A m \in Mapping, p \in Priv \ {"M"} : m.leaf /\ PermOk(p, m)

OneAsid == \A s, t \in Satp : s.asid = t.asid

\* A step that leaves a fetch outstanding leaves translation on or off.  The code does
\* not see to it: an MRET or a trap may come while a fetch is under way.
HoldsWhileFetching == inflight /\ inflight' => (xlate_if' <=> xlate_if)

-----------------------------------------------------------------------------
(* The invariants.                                                         *)

Free == \A q \in Path : ~Busy(q)

Fetching ==
    /\ inflight => inflightPage \in Page /\ Len(pend) < 2
    /\ ~inflight => ~squash

Remembered == \A k \in Key : pt[k] \in seen[k] /\ seen[k] \subseteq kept[k]

Walking == ptw.state # "IDLE" /\ ptw.side = "IF" => ptw.page \in Page /\ ptw.priv \in Priv \ {"M"}

Entries == \A i \in Slot : tlb[i].valid => tlb[i].page \in Page /\ (tlb[i].g <=> tlb[i].page \in Global)

Base == TypeOK /\ Fetching /\ Remembered /\ Walking /\ Entries

-----------------------------------------------------------------------------
(* The operators.                                                          *)

LEMMA BiggestHit ==
  ASSUME tlb_hit
  PROVE  \E i \in Hits : HitEntry = tlb[i]
<1>1. PICK h \in Hits : TRUE
  BY DEF tlb_hit
<1>2. TlbSize \in Nat \ {0} /\ Hits \subseteq 0..(TlbSize - 1)
  BY IfetchAssumption DEF IfetchAssumption, Hits, Slot
<1> HIDE DEF Hits
<1>3. \E i \in Hits : \A j \in Hits : j <= i
  <2> SUFFICES ASSUME \A i \in Hits : \E j \in Hits : j > i PROVE FALSE
    BY <1>2
  <2> DEFINE S == { n \in 0..TlbSize : \E i \in Hits : n <= i }
  <2>1. 0 \in S
    BY <1>1, <1>2
  <2>2. \A n \in 0..(TlbSize - 1) : n \in S => n + 1 \in S
    BY <1>2
  <2>3. TlbSize \notin S
    BY <1>2
  <2> HIDE DEF S
  <2> DEFINE f == [x \in 0..TlbSize |-> IF x \in S THEN x ELSE x - 1]
  <2>4. f \in [0..TlbSize -> 0..(TlbSize - 1)]
    BY <1>2, <2>1, <2>3
  <2>5. /\ IsFiniteSet(0..TlbSize) /\ Cardinality(0..TlbSize) = TlbSize + 1
        /\ IsFiniteSet(0..(TlbSize - 1)) /\ Cardinality(0..(TlbSize - 1)) = TlbSize
    <3>1. TlbSize \in Nat /\ TlbSize # 0
      BY <1>2
    <3> QED BY <3>1, FS_Interval
  <2>6. PICK x, y \in 0..TlbSize : x # y /\ f[x] = f[y]
    <3> HIDE DEF f
    <3>1. TlbSize < TlbSize + 1
      BY <1>2
    <3> QED BY <2>4, <2>5, <3>1, FS_PigeonHole
  <2>7. \A a, b \in 0..TlbSize : a \in S /\ b \notin S => a # b - 1
    BY <1>2, <2>2
  <2> QED BY <2>6, <2>7
<1> QED BY <1>3 DEF HitEntry

LEMMA KeyTypes ==
  ASSUME NEW a \in Asid, NEW p \in Page
  PROVE  KeyOf(a, p) \in Key /\ KeyOf(a, p)[2] = p
         /\ KeyOf(a, p)[1] = IF p \in Global THEN "global" ELSE a
  BY DEF KeyOf, Key

LEMMA NextSlotTypes == repl \in Slot => NextSlot \in Slot
  BY IfetchAssumption DEF IfetchAssumption, NextSlot, Slot

LEMMA MappingTypes == ASSUME NEW m \in Mapping PROVE m \in Pte
  BY IfetchAssumption DEF IfetchAssumption

LEMMA AfterTypes ==
  ASSUME TypeOK, pend # <<>>
  PROVE  After \subseteq Page
<1>1. pend \in Seq([page : Page, got : Frame \cup Fault])
  BY DEF TypeOK
<1>2. 1 \in 1..Len(pend)
  BY <1>1, EmptySeq
<1>3. pend[1] \in [page : Page, got : Frame \cup Fault]
  BY <1>1, <1>2, ElementOfSeq
<1> QED BY <1>3, IfetchAssumption DEF IfetchAssumption, After

LEMMA EventTypes ==
  ASSUME TypeOK, NEW e \in Events
  PROVE  /\ e.to \in Page /\ e.priv \in Priv /\ e.satp \in Satp
         /\ ~Redirects(e) => e.priv = priv /\ e.satp = satp
         /\ e.kind = "retire" => pend # <<>>
         /\ e.kind = "fence" => /\ e.page \in Page \cup {NoPage} /\ e.asid \in Asid \cup {AnyAsid}
                                /\ e.priv = priv /\ e.satp = satp
<1>1. pc \in Page /\ priv \in Priv /\ satp \in Satp
  BY DEF TypeOK
<1>2. CASE e \in Traps
  <2>1. PICK t \in Page, m \in Priv : e = [Event("trap", t) EXCEPT !.priv = m]
    BY <1>2 DEF Traps
  <2> QED BY <1>1, <2>1 DEF Event, NoEvent, Redirects
<1>3. CASE e = NoEvent
  BY <1>1, <1>3 DEF NoEvent, Redirects
<1>4. CASE pend # <<>> /\ e = [NoEvent EXCEPT !.kind = "retire"]
  BY <1>1, <1>4 DEF NoEvent, Redirects
<1>5. CASE e \in Branches
  BY <1>1, <1>5 DEF Branches, Event, NoEvent, Redirects
<1>6. CASE pend # <<>> /\ e \in Fences
  <2>1. PICK t \in Page, p \in Page \cup {NoPage}, a \in Asid \cup {AnyAsid} : e = Fence(t, p, a)
    BY <1>6, AfterTypes DEF Fences
  <2> QED BY <1>1, <2>1 DEF Fence, Event, NoEvent, Redirects
<1>7. CASE e \in Returns
  <2>1. PICK t \in Page, m \in Priv : e = [Event("ret", t) EXCEPT !.priv = m]
    BY <1>7 DEF Returns
  <2> QED BY <1>1, <2>1 DEF Event, NoEvent, Redirects
<1>8. CASE pend # <<>> /\ e \in SatpWrites
  <2>1. PICK t \in Page, s \in Satp : e = [Event("satp", t) EXCEPT !.satp = s]
    BY <1>8, AfterTypes DEF SatpWrites
  <2> QED BY <1>1, <2>1 DEF Event, NoEvent, Redirects
<1> QED BY <1>2, <1>3, <1>4, <1>5, <1>6, <1>7, <1>8 DEF Events

-----------------------------------------------------------------------------
(* One clock edge.                                                         *)

Step(e, req, axiReady, rsp, ptwReady, ptwRsp, dmWalk) ==
    /\ e \in Events
    /\ req \in When(~inflight /\ ~Redirects(e) /\ Len(pend) < 2)
    /\ rsp \in SUBSET {q \in Path : Busy(q)} /\ ptwRsp \in PtwAnswers
    /\ Edge(e, req, axiReady, rsp, ptwReady, ptwRsp, dmWalk)

Edges == \E e, req, axiReady, rsp, ptwReady, ptwRsp, dmWalk :
            Step(e, req, axiReady, rsp, ptwReady, ptwRsp, dmWalk)

LEMMA NextIsAnEdge == Next => Edges
  BY DEF Next, Edges, Step

FetchTypes ==
    /\ pc \in Page /\ inflight \in BOOLEAN /\ inflightPage \in Page \cup {NoPage}
    /\ squash \in BOOLEAN /\ young \in BOOLEAN
    /\ pend \in Seq([page : Page, got : Frame \cup Fault]) /\ Len(pend) <= 2

TableTypes ==
    /\ priv \in Priv /\ satp \in Satp
    /\ pt \in [Key -> Mapping] /\ stores \in 0..MaxStores
    /\ seen \in [Key -> SUBSET Mapping] /\ kept \in [Key -> SUBSET Mapping]

TlbTypes ==
    /\ tlb \in [Slot -> [valid : BOOLEAN, page : Page \cup {NoPage}, asid : Asid, g : BOOLEAN,
                         frame : Frame \cup {NoFrame}, x : BOOLEAN, u : BOOLEAN]]
    /\ repl \in Slot

WalkTypes ==
    /\ xlate \in [valid : BOOLEAN, fault : BOOLEAN, frame : Frame \cup {NoFrame},
                  page : Page \cup {NoPage}]
    /\ pmpPending \in BOOLEAN
    /\ ptw \in [state : {"IDLE", "L1_REQ", "L1_WAIT", "L0_REQ", "L0_WAIT"}, side : {"IF", "DM"},
                page : Page \cup {NoPage}, priv : {"U", "S", "M"}, asid : Asid]
    /\ ds \in [Path -> Frame \cup {NoFrame}]

LEMMA TypesSplit == TypeOK <=> FetchTypes /\ TableTypes /\ TlbTypes /\ WalkTypes
  BY DEF TypeOK, FetchTypes, TableTypes, TlbTypes, WalkTypes

LEMMA Requests ==
  ASSUME NEW e, NEW req \in When(~inflight /\ ~Redirects(e) /\ Len(pend) < 2)
  PROVE  req \in BOOLEAN /\ (req => ~inflight /\ ~Redirects(e) /\ Len(pend) < 2)
<1>1. CASE ~inflight /\ ~Redirects(e) /\ Len(pend) < 2
  BY <1>1, Zenon DEF When
<1>2. CASE ~(~inflight /\ ~Redirects(e) /\ Len(pend) < 2)
  <2>1. req \in {FALSE}
    BY <1>2, Zenon DEF When
  <2> QED BY <2>1
<1> QED BY <1>1, <1>2

LEMMA MuxValues ==
  ASSUME NEW req PROVE Mux(req) \in {"kill", "pass", "deny", "stall"}
  BY DEF Mux

LEMMA AnswerTypes ==
  ASSUME TypeOK, NEW rsp \in SUBSET {q \in Path : Busy(q)}, NEW req
  PROVE  /\ Mux(req) = "kill" => Answer(req, rsp) = "accessfault"
         /\ Mux(req) = "deny" => Answer(req, rsp) = "pagefault"
         /\ Mux(req) = "stall" => Answer(req, rsp) = NoAnswer
         /\ Mux(req) = "pass" => Answer(req, rsp) = DsAnswer(rsp)
         /\ DsAnswer(rsp) # NoAnswer => \E q \in rsp : Busy(q) /\ DsAnswer(rsp) = ds[q] /\ ds[q] \in Frame
         /\ Answer(req, rsp) # NoAnswer => Answer(req, rsp) \in Frame \cup Fault
<1>1. \A q \in rsp : q \in Path /\ Busy(q) /\ ds[q] \in Frame
  BY DEF TypeOK, Busy
<1>2. /\ DsAnswer(rsp) # NoAnswer => \E q \in rsp : Busy(q) /\ DsAnswer(rsp) = ds[q] /\ ds[q] \in Frame
  BY <1>1 DEF DsAnswer
<1>3. Mux(req) = "kill" => Answer(req, rsp) = "accessfault"
  BY DEF Answer
<1>4. Mux(req) = "deny" => Answer(req, rsp) = "pagefault"
  BY DEF Answer
<1>5. Mux(req) = "stall" => Answer(req, rsp) = NoAnswer
  BY DEF Answer
<1>6. Mux(req) = "pass" => Answer(req, rsp) = DsAnswer(rsp)
  BY DEF Answer
<1> QED BY <1>2, <1>3, <1>4, <1>5, <1>6, MuxValues DEF Fault

(* The fetch engine: an edge with its operands named.                      *)
LEMMA FetchEdgeIs ==
  ASSUME TypeOK, NEW e, NEW req \in BOOLEAN, NEW axiReady, NEW rsp, FetchEdge(e, req, axiReady, rsp)
  PROVE  LET accept == Accepted(req, axiReady)
             answered == inflight /\ Answer(req, rsp) # NoAnswer
             rest == IF e.kind = "retire" THEN Tail(pend) ELSE pend
         IN /\ inflight' \in BOOLEAN /\ squash' \in BOOLEAN /\ young' \in BOOLEAN
            /\ inflight' <=> accept \/ (inflight /\ ~answered)
            /\ squash' <=> ~accept /\ inflight' /\ (squash \/ Redirects(e))
            /\ accept => req /\ inflightPage' = pc
            /\ ~accept /\ inflight' => inflightPage' = inflightPage
            /\ ~accept /\ ~inflight' => inflightPage' = NoPage
            /\ Redirects(e) => pc' = e.to /\ pend' = <<>>
            /\ ~Redirects(e) => pc' \in {pc, NextPage[pc]}
            /\ ~Redirects(e) /\ answered /\ ~squash =>
                   pend' = Append(rest, [page |-> inflightPage, got |-> Answer(req, rsp)])
            /\ ~Redirects(e) /\ ~(answered /\ ~squash) => pend' = rest
<1>1. /\ inflight' = (Accepted(req, axiReady) \/ (inflight /\ ~(inflight /\ Answer(req, rsp) # NoAnswer)))
      /\ squash' = (~Accepted(req, axiReady) /\ inflight' /\ (squash \/ Redirects(e)))
      /\ young' = Accepted(req, axiReady)
  BY Zenon DEF FetchEdge
<1>2. Accepted(req, axiReady) \in BOOLEAN
  BY Zenon DEF Accepted
<1>3. inflight' \in BOOLEAN /\ squash' \in BOOLEAN /\ young' \in BOOLEAN
  BY <1>1, <1>2, Zenon
<1>4. /\ inflight' <=> Accepted(req, axiReady) \/ (inflight /\ ~(inflight /\ Answer(req, rsp) # NoAnswer))
      /\ squash' <=> ~Accepted(req, axiReady) /\ inflight' /\ (squash \/ Redirects(e))
  BY <1>1, Zenon
<1>5. Accepted(req, axiReady) => req
  BY DEF Accepted
<1>6. /\ inflightPage' = IF Accepted(req, axiReady) THEN pc ELSE IF inflight' THEN inflightPage ELSE NoPage
      /\ IF Redirects(e) THEN pc' = e.to
         ELSE IF Accepted(req, axiReady) THEN pc' \in {pc, NextPage[pc]} ELSE pc' = pc
  BY DEF FetchEdge
<1>7. pend' = IF Redirects(e) THEN <<>>
              ELSE IF inflight /\ Answer(req, rsp) # NoAnswer /\ ~squash
                   THEN Append(IF e.kind = "retire" THEN Tail(pend) ELSE pend,
                               [page |-> inflightPage, got |-> Answer(req, rsp)])
                   ELSE IF e.kind = "retire" THEN Tail(pend) ELSE pend
  BY Zenon DEF FetchEdge
<1> QED BY <1>3, <1>4, <1>5, <1>6, <1>7

LEMMA FetchTypesKept ==
  ASSUME Base, NEW e, NEW req, NEW axiReady, NEW rsp, NEW ptwReady, NEW ptwRsp, NEW dmWalk,
         Step(e, req, axiReady, rsp, ptwReady, ptwRsp, dmWalk)
  PROVE  FetchTypes' /\ Fetching'
<1> DEFINE accept == Accepted(req, axiReady)
           answered == inflight /\ Answer(req, rsp) # NoAnswer
           rest == IF e.kind = "retire" THEN Tail(pend) ELSE pend
           Fetched == [page : Page, got : Frame \cup Fault]
<1>1. /\ TypeOK /\ Fetching /\ e \in Events /\ rsp \in SUBSET {q \in Path : Busy(q)}
      /\ FetchEdge(e, req, axiReady, rsp)
  BY DEF Base, Step, Edge
<1>2. req \in BOOLEAN /\ (req => ~inflight /\ ~Redirects(e) /\ Len(pend) < 2)
  BY Requests DEF Step
<1>3. /\ inflight' \in BOOLEAN /\ squash' \in BOOLEAN /\ young' \in BOOLEAN
      /\ inflight' <=> accept \/ (inflight /\ ~answered)
      /\ squash' => inflight'
      /\ accept => req /\ inflightPage' = pc
      /\ ~accept /\ inflight' => inflightPage' = inflightPage
      /\ ~accept /\ ~inflight' => inflightPage' = NoPage
      /\ Redirects(e) => pc' = e.to /\ pend' = <<>>
      /\ ~Redirects(e) => pc' \in {pc, NextPage[pc]}
      /\ ~Redirects(e) /\ answered /\ ~squash =>
             pend' = Append(rest, [page |-> inflightPage, got |-> Answer(req, rsp)])
      /\ ~Redirects(e) /\ ~(answered /\ ~squash) => pend' = rest
  BY <1>1, <1>2, FetchEdgeIs
<1>4. e.to \in Page /\ (e.kind = "retire" => pend # <<>>)
  BY <1>1, EventTypes
<1>5. /\ pc \in Page /\ NextPage[pc] \in Page /\ inflightPage \in Page \cup {NoPage}
      /\ pend \in Seq(Fetched) /\ Len(pend) <= 2 /\ Len(pend) \in Nat
  <2>1. pend \in Seq(Fetched) /\ Len(pend) <= 2
    BY <1>1 DEF TypeOK
  <2>2. Len(pend) \in Nat
    BY <2>1, LenProperties
  <2> QED BY <1>1, <2>1, <2>2, IfetchAssumption DEF TypeOK, IfetchAssumption
<1>6. rest \in Seq(Fetched) /\ Len(rest) \in Nat /\ Len(rest) <= Len(pend)
  <2> HIDE DEF Fetched
  <2>1. CASE e.kind = "retire"
    <3>1. Tail(pend) \in Seq(Fetched) /\ Len(Tail(pend)) = Len(pend) - 1 /\ Len(pend) # 0
      BY <1>4, <1>5, <2>1, HeadTailProperties, EmptySeq
    <3> QED BY <1>5, <2>1, <3>1
  <2>2. CASE e.kind # "retire"
    BY <1>5, <2>2
  <2> QED BY <2>1, <2>2
<1>7. answered => [page |-> inflightPage, got |-> Answer(req, rsp)] \in Fetched
  <2>1. answered => inflightPage \in Page /\ Answer(req, rsp) \in Frame \cup Fault
    BY <1>1, AnswerTypes DEF Fetching
  <2> QED BY <2>1
<1>8. answered => Len(pend) < 2
  BY <1>1 DEF Fetching
<1> HIDE DEF accept, answered, rest, Fetched
<1>9. pend' \in Seq(Fetched) /\ Len(pend') <= 2
  <2>1. CASE Redirects(e)
    <3>1. <<>> \in Seq(Fetched) /\ Len(<<>>) = 0
      BY EmptySeq
    <3> QED BY <1>3, <2>1, <3>1
  <2>2. CASE ~Redirects(e) /\ answered /\ ~squash
    <3>1. /\ Append(rest, [page |-> inflightPage, got |-> Answer(req, rsp)]) \in Seq(Fetched)
          /\ Len(Append(rest, [page |-> inflightPage, got |-> Answer(req, rsp)])) = Len(rest) + 1
      BY <1>6, <1>7, <2>2, AppendProperties
    <3> QED BY <1>3, <1>5, <1>6, <1>8, <2>2, <3>1
  <2>3. CASE ~Redirects(e) /\ ~(answered /\ ~squash)
    BY <1>3, <1>5, <1>6, <2>3
  <2> QED BY <2>1, <2>2, <2>3
<1>10. inflight' => inflightPage' \in Page /\ Len(pend') < 2
  <2> SUFFICES ASSUME inflight' PROVE inflightPage' \in Page /\ Len(pend') < 2
    OBVIOUS
  <2>1. Len(pend) < 2 /\ ~answered /\ inflightPage' \in Page
    <3>1. CASE accept
      BY <1>2, <1>3, <1>5, <3>1 DEF answered
    <3>2. CASE ~accept
      BY <1>1, <1>3, <3>2 DEF Fetching
    <3> QED BY <3>1, <3>2
  <2>2. CASE Redirects(e)
    BY <1>3, <2>1, <2>2, EmptySeq
  <2>3. CASE ~Redirects(e)
    BY <1>3, <1>5, <1>6, <2>1, <2>3
  <2> QED BY <2>1, <2>2, <2>3
<1>11. pc' \in Page /\ inflightPage' \in Page \cup {NoPage}
  BY <1>3, <1>4, <1>5
<1> QED BY <1>3, <1>9, <1>10, <1>11 DEF FetchTypes, Fetching, Fetched

(* A PTE's values: a store adds one, a fence that covers it leaves only    *)
(* the present one (kept: unless a walk result of its page is waiting).    *)
Forgets(e, k) == e.kind = "fence" /\ Covers(e, k)

LEMMA TablesKept ==
  ASSUME Base, NEW e, NEW req, NEW axiReady, NEW rsp, NEW ptwReady, NEW ptwRsp, NEW dmWalk,
         Step(e, req, axiReady, rsp, ptwReady, ptwRsp, dmWalk)
  PROVE  /\ TableTypes' /\ Remembered'
         /\ priv' = e.priv /\ satp' = e.satp
         /\ \A k \in Key :
               /\ pt[k] \in seen'[k] /\ pt[k] \in kept'[k]
               /\ ~Forgets(e, k) => seen[k] \subseteq seen'[k] /\ kept[k] \subseteq kept'[k]
               /\ xlate.valid /\ xlate.page = k[2] => kept[k] \subseteq kept'[k]
<1>1. /\ TypeOK /\ e \in Events /\ CsrEdge(e) /\ (StorePte(e) \/ KeepPte(e))
      /\ \A k \in Key : pt[k] \in seen[k] /\ seen[k] \subseteq kept[k]
  BY DEF Base, Step, Edge, Remembered
<1>2. /\ priv' = e.priv /\ satp' = e.satp /\ priv' \in Priv /\ satp' \in Satp
  BY <1>1, EventTypes DEF CsrEdge
<1>3. /\ pt \in [Key -> Mapping] /\ stores \in 0..MaxStores /\ MaxStores \in Nat
      /\ seen \in [Key -> SUBSET Mapping] /\ kept \in [Key -> SUBSET Mapping]
  BY <1>1, IfetchAssumption DEF TypeOK, IfetchAssumption
<1>4. CASE StorePte(e)
  <2>1. PICK k0 \in Key, m \in Mapping :
           /\ pt' = [pt EXCEPT ![k0] = m]
           /\ seen' = [seen EXCEPT ![k0] = @ \cup {m}]
           /\ kept' = [kept EXCEPT ![k0] = @ \cup {m}]
    BY <1>4 DEF StorePte
  <2>2. stores' \in 0..MaxStores
    BY <1>3, <1>4 DEF StorePte
  <2>3. /\ pt' \in [Key -> Mapping] /\ seen' \in [Key -> SUBSET Mapping]
        /\ kept' \in [Key -> SUBSET Mapping]
    BY <1>3, <2>1
  <2>4. \A k \in Key : /\ pt'[k] \in seen'[k] /\ seen'[k] \subseteq kept'[k]
                       /\ pt[k] \in seen'[k] /\ pt[k] \in kept'[k]
                       /\ seen[k] \subseteq seen'[k] /\ kept[k] \subseteq kept'[k]
    BY <1>1, <1>3, <2>1
  <2> QED BY <1>2, <2>2, <2>3, <2>4 DEF TableTypes, Remembered
<1>5. CASE KeepPte(e)
  <2>1. pt' = pt /\ stores' = stores
    BY <1>5 DEF KeepPte
  <2>2. /\ seen' = [k \in Key |-> IF Forgets(e, k) THEN {pt[k]} ELSE seen[k]]
        /\ kept' = [k \in Key |-> IF Forgets(e, k) /\ ~(xlate.valid /\ xlate.page = k[2])
                                 THEN {pt[k]} ELSE kept[k]]
    BY <1>5, Zenon DEF KeepPte, Forgets
  <2>3. /\ seen' \in [Key -> SUBSET Mapping] /\ kept' \in [Key -> SUBSET Mapping]
    BY <1>3, <2>2
  <2>4. \A k \in Key : /\ pt[k] \in seen'[k] /\ seen'[k] \subseteq kept'[k]
                       /\ ~Forgets(e, k) => seen[k] \subseteq seen'[k] /\ kept[k] \subseteq kept'[k]
                       /\ xlate.valid /\ xlate.page = k[2] => kept[k] \subseteq kept'[k]
    BY <1>1, <2>2
  <2> QED BY <1>2, <1>3, <2>1, <2>3, <2>4 DEF TableTypes, Remembered
<1> QED BY <1>1, <1>4, <1>5

(* The PTE a walk of the instruction side ends with.                       *)
LEMMA WalkedTypes ==
  ASSUME Base, NEW ptwRsp, IfWalkEnds(ptwRsp)
  PROVE  /\ ptw.page \in Page /\ ptw.asid \in Asid /\ ptw.priv \in Priv \ {"M"}
         /\ ptw.state \in {"L1_WAIT", "L0_WAIT"}
         /\ KeyOf(ptw.asid, ptw.page) \in Key
         /\ WalkedPte \in Mapping /\ WalkedPte = pt[KeyOf(ptw.asid, ptw.page)]
         /\ WalkedPte.leaf \in BOOLEAN /\ WalkedPte.frame \in Frame
         /\ WalkedPte.x \in BOOLEAN /\ WalkedPte.u \in BOOLEAN
<1>1. /\ ptw.page \in Page /\ ptw.priv \in Priv \ {"M"} /\ ptw.asid \in Asid
      /\ ptw.state \in {"L1_WAIT", "L0_WAIT"} /\ pt \in [Key -> Mapping]
  BY DEF Base, TypeOK, Walking, IfWalkEnds, WalkEnds
<1>2. KeyOf(ptw.asid, ptw.page) \in Key
  BY <1>1, KeyTypes
<1>3. WalkedPte \in Mapping /\ WalkedPte = pt[KeyOf(ptw.asid, ptw.page)]
  BY <1>1, <1>2 DEF WalkedPte
<1> QED BY <1>1, <1>2, <1>3, MappingTypes DEF Pte

LEMMA TlbKept ==
  ASSUME Base, NEW e, NEW req, NEW axiReady, NEW rsp, NEW ptwReady, NEW ptwRsp, NEW dmWalk,
         Step(e, req, axiReady, rsp, ptwReady, ptwRsp, dmWalk)
  PROVE  /\ TlbTypes' /\ Entries'
         /\ \A i \in Slot :
               \/ ~tlb'[i].valid
               \/ tlb'[i] = tlb[i] /\ ~SfenceHits(e, tlb[i])
               \/ tlb'[i] = FilledEntry /\ IfWalkEnds(ptwRsp) /\ WalkedPte.leaf
<1> DEFINE fill == IfWalkEnds(ptwRsp) /\ WalkedPte.leaf
           Entry == [valid : BOOLEAN, page : Page \cup {NoPage}, asid : Asid, g : BOOLEAN,
                     frame : Frame \cup {NoFrame}, x : BOOLEAN, u : BOOLEAN]
<1>1. TypeOK /\ Entries /\ TlbEdge(e, ptwRsp)
  BY DEF Base, Step, Edge
<1>2. /\ tlb' = [i \in Slot |-> IF SfenceHits(e, tlb[i]) THEN NoEntry
                                ELSE IF fill /\ i = repl THEN FilledEntry ELSE tlb[i]]
      /\ repl' = IF fill THEN NextSlot ELSE repl
  BY <1>1, Zenon DEF TlbEdge
<1>3. /\ tlb \in [Slot -> Entry] /\ repl \in Slot /\ NextSlot \in Slot /\ satp.asid \in Asid
  BY <1>1, NextSlotTypes, IfetchAssumption DEF TypeOK, IfetchAssumption
<1>4. NoEntry \in Entry /\ ~NoEntry.valid
  <2>1. (CHOOSE a \in Asid : TRUE) \in Asid
    BY IfetchAssumption DEF IfetchAssumption
  <2> QED BY <2>1 DEF NoEntry
<1>5. fill => /\ FilledEntry \in Entry /\ FilledEntry.page \in Page
              /\ FilledEntry.g <=> FilledEntry.page \in Global
  <2> SUFFICES ASSUME fill
               PROVE  /\ FilledEntry \in Entry /\ FilledEntry.page \in Page
                      /\ FilledEntry.g <=> FilledEntry.page \in Global
    OBVIOUS
  <2>1. (ptw.page \in Global) \in BOOLEAN
    OBVIOUS
  <2>2. PICK b \in BOOLEAN : b = (ptw.page \in Global)
    BY <2>1, Zenon
  <2>3. FilledEntry = [valid |-> TRUE, page |-> ptw.page, asid |-> satp.asid, g |-> b,
                       frame |-> WalkedPte.frame, x |-> WalkedPte.x, u |-> WalkedPte.u]
    BY <2>2, Zenon DEF FilledEntry
  <2>4. b <=> ptw.page \in Global
    BY <2>2, Zenon
  <2>5. /\ ptw.page \in Page /\ WalkedPte.frame \in Frame
        /\ WalkedPte.x \in BOOLEAN /\ WalkedPte.u \in BOOLEAN
    BY WalkedTypes
  <2> QED BY <1>3, <2>3, <2>4, <2>5
<1> HIDE DEF fill, Entry
<1>6. tlb' \in [Slot -> Entry] /\ repl' \in Slot
  BY <1>2, <1>3, <1>4, <1>5
<1>7. \A i \in Slot :
         \/ ~tlb'[i].valid
         \/ tlb'[i] = tlb[i] /\ ~SfenceHits(e, tlb[i])
         \/ tlb'[i] = FilledEntry /\ fill
  BY <1>2, <1>4
<1>8. Entries'
  BY <1>1, <1>5, <1>7 DEF Entries
<1> QED BY <1>6, <1>7, <1>8 DEF TlbTypes, Entry, fill

LEMMA WalkerKept ==
  ASSUME Base, NEW req, NEW ptwReady, NEW ptwRsp, NEW dmWalk,
         PtwEdge(req, ptwReady, ptwRsp, dmWalk)
  PROVE  /\ ptw' \in [state : {"IDLE", "L1_REQ", "L1_WAIT", "L0_REQ", "L0_WAIT"}, side : {"IF", "DM"},
                      page : Page \cup {NoPage}, priv : {"U", "S", "M"}, asid : Asid]
         /\ Walking'
         /\ ptw'.state \in {"L1_WAIT", "L0_REQ", "L0_WAIT"} =>
               \/ ptw.state = "L1_REQ" /\ ptw'.asid = satp.asid
               \/ ptw.state \in {"L1_WAIT", "L0_REQ", "L0_WAIT"} /\ ptw'.asid = ptw.asid
<1> DEFINE Walk == [state : {"IDLE", "L1_REQ", "L1_WAIT", "L0_REQ", "L0_WAIT"}, side : {"IF", "DM"},
                    page : Page \cup {NoPage}, priv : {"U", "S", "M"}, asid : Asid]
           Good(w) == w.state # "IDLE" /\ w.side = "IF" => w.page \in Page /\ w.priv \in Priv \ {"M"}
           Goes(w) == w.state \in {"L1_WAIT", "L0_REQ", "L0_WAIT"} =>
                         \/ ptw.state = "L1_REQ" /\ w.asid = satp.asid
                         \/ ptw.state \in {"L1_WAIT", "L0_REQ", "L0_WAIT"} /\ w.asid = ptw.asid
<1>1. /\ ptw \in Walk /\ Good(ptw) /\ satp.asid \in Asid /\ pc \in Page /\ priv \in Priv
      /\ priv \in {"U", "S", "M"}
  BY IfetchAssumption DEF Base, TypeOK, Walking, IfetchAssumption
<1>2. IdleWalk \in Walk /\ Good(IdleWalk) /\ Goes(IdleWalk)
  <2>1. (CHOOSE a \in Asid : TRUE) \in Asid
    BY IfetchAssumption DEF IfetchAssumption
  <2> QED BY <2>1 DEF IdleWalk
<1>3. CASE ptw.state = "IDLE" /\ needs_walk(req)
  <2>1. ptw' = [ptw EXCEPT !.state = "L1_REQ", !.side = "IF", !.page = pc, !.priv = priv]
    BY <1>3 DEF PtwEdge
  <2>2. priv # "M"
    BY <1>3 DEF needs_walk, xlate_if
  <2> QED BY <1>1, <2>1, <2>2 DEF Walking
<1>4. CASE ptw.state = "IDLE" /\ ~needs_walk(req)
  <2>1. ptw' = [ptw EXCEPT !.state = "L1_REQ", !.side = "DM"] \/ ptw' = ptw
    BY <1>4 DEF PtwEdge
  <2> QED BY <1>1, <1>4, <2>1 DEF Walking
<1>5. CASE ptw.state = "L1_REQ"
  <2>1. ptw' = [ptw EXCEPT !.state = "L1_WAIT", !.asid = satp.asid] \/ ptw' = ptw
    BY <1>5 DEF PtwEdge
  <2> QED BY <1>1, <1>5, <2>1 DEF Walking
<1>6. CASE ptw.state = "L0_REQ"
  <2>1. ptw' = [ptw EXCEPT !.state = "L0_WAIT"] \/ ptw' = ptw
    BY <1>6 DEF PtwEdge
  <2> QED BY <1>1, <1>6, <2>1 DEF Walking
<1>7. CASE ptw.state \in {"L1_WAIT", "L0_WAIT"}
  <2>1. ptw' = ptw \/ ptw' = [ptw EXCEPT !.state = "L0_REQ"] \/ ptw' = IdleWalk
    BY <1>7 DEF PtwEdge
  <2>2. CASE ptw' = IdleWalk
    BY <1>2, <2>2 DEF Walking
  <2>3. CASE ptw' = ptw \/ ptw' = [ptw EXCEPT !.state = "L0_REQ"]
    BY <1>1, <1>7, <2>3 DEF Walking
  <2> QED BY <2>1, <2>2, <2>3
<1>8. ptw.state \in {"IDLE", "L1_REQ", "L1_WAIT", "L0_REQ", "L0_WAIT"}
  BY <1>1
<1> QED BY <1>3, <1>4, <1>5, <1>6, <1>7, <1>8

(* When the walk-result cache is cleared.                                  *)
Clears(req, rsp) ==
    \/ forward(req) /\ DsAnswer(rsp) # NoAnswer /\ inflight
    \/ fault_reply(req) /\ inflight
    \/ tlb_go /\ DsAnswer(rsp) # NoAnswer /\ inflight

LEMMA HitTypes ==
  ASSUME Base, tlb_hit
  PROVE  /\ HitEntry.valid /\ HitEntry.frame \in Frame \cup {NoFrame} /\ HitEntry.page = pc
         /\ HitEntry.g \/ HitEntry.asid = satp.asid
         /\ \E i \in Slot : HitEntry = tlb[i] /\ tlb[i].valid
<1>1. PICK i \in Hits : HitEntry = tlb[i]
  BY BiggestHit
<1>2. i \in Slot /\ tlb[i].valid /\ tlb[i].page = pc /\ (tlb[i].g \/ tlb[i].asid = satp.asid)
  BY <1>1 DEF Hits, TlbMatch
<1> QED BY <1>1, <1>2 DEF Base, TypeOK

(* What the walk-result cache holds next, and where it came from.          *)
LEMMA XlateKept ==
  ASSUME Base, NEW req, NEW axiReady, NEW rsp, NEW ptwRsp, XlateEdge(req, axiReady, rsp, ptwRsp)
  PROVE  /\ xlate' \in [valid : BOOLEAN, fault : BOOLEAN, frame : Frame \cup {NoFrame},
                        page : Page \cup {NoPage}]
         /\ \/ ~xlate'.valid
            \/ xlate' = xlate
            \/ Stuffs(req, axiReady) /\ ~xlate'.fault /\ xlate'.frame = HitEntry.frame /\ xlate'.page = pc
            \/ req /\ tlb_deny
            \/ /\ IfWalkEnds(ptwRsp) /\ xlate'.page = ptw.page
               /\ WalkedPte.leaf /\ PermOk(ptw.priv, WalkedPte) =>
                     ~xlate'.fault /\ xlate'.frame = WalkedPte.frame
         /\ ~Clears(req, rsp) /\ (xlate.valid \/ Stuffs(req, axiReady)) => xlate'.valid
<1> DEFINE Result == [valid : BOOLEAN, fault : BOOLEAN, frame : Frame \cup {NoFrame},
                      page : Page \cup {NoPage}]
           good == WalkedPte.leaf /\ PermOk(ptw.priv, WalkedPte)
<1>1. xlate \in Result /\ pc \in Page
  BY DEF Base, TypeOK
<1>2. xlate' = IF Clears(req, rsp) THEN NoXlate
               ELSE IF Stuffs(req, axiReady)
                 THEN [valid |-> TRUE, fault |-> FALSE, frame |-> HitEntry.frame, page |-> pc]
               ELSE IF req /\ tlb_deny /\ ~xlate.valid
                 THEN [valid |-> TRUE, fault |-> TRUE, frame |-> NoFrame, page |-> pc]
               ELSE IF IfWalkEnds(ptwRsp)
                 THEN [valid |-> TRUE, page |-> ptw.page, fault |-> ~good,
                       frame |-> IF good THEN WalkedPte.frame ELSE NoFrame]
               ELSE xlate
  BY Zenon DEF XlateEdge, Clears
<1>3. NoXlate \in Result /\ ~NoXlate.valid
  BY DEF NoXlate
<1>4. Stuffs(req, axiReady) =>
         [valid |-> TRUE, fault |-> FALSE, frame |-> HitEntry.frame, page |-> pc] \in Result
  BY <1>1, HitTypes DEF Stuffs, tlb_go
<1>5. [valid |-> TRUE, fault |-> TRUE, frame |-> NoFrame, page |-> pc] \in Result
  BY <1>1
<1>6. (~good) \in BOOLEAN
  BY Zenon
<1> HIDE DEF good
<1>7. ASSUME IfWalkEnds(ptwRsp)
      PROVE  [valid |-> TRUE, page |-> ptw.page, fault |-> ~good,
              frame |-> IF good THEN WalkedPte.frame ELSE NoFrame] \in Result
  BY <1>6, <1>7, WalkedTypes
<1>8. xlate' \in Result
  BY <1>1, <1>2, <1>3, <1>4, <1>5, <1>7
<1> HIDE DEF Result
<1>9. \/ ~xlate'.valid
      \/ xlate' = xlate
      \/ Stuffs(req, axiReady) /\ ~xlate'.fault /\ xlate'.frame = HitEntry.frame /\ xlate'.page = pc
      \/ req /\ tlb_deny
      \/ /\ IfWalkEnds(ptwRsp) /\ xlate'.page = ptw.page
         /\ good => ~xlate'.fault /\ xlate'.frame = WalkedPte.frame
  BY <1>2, <1>3
<1>10. ~Clears(req, rsp) /\ (xlate.valid \/ Stuffs(req, axiReady)) => xlate'.valid
  BY <1>2
<1> QED BY <1>8, <1>9, <1>10 DEF Result, good

LEMMA TargetTypes == Base => Target \in Frame \cup {NoFrame}
<1> SUFFICES ASSUME Base PROVE Target \in Frame \cup {NoFrame}
  OBVIOUS
<1>1. xlate.frame \in Frame \cup {NoFrame} /\ BareFrame[pc] \in Frame
  BY IfetchAssumption DEF Base, TypeOK, IfetchAssumption
<1>2. tlb_go => HitEntry.frame \in Frame \cup {NoFrame}
  BY HitTypes DEF tlb_go
<1> QED BY <1>1, <1>2 DEF Target

LEMMA BaseKept ==
  ASSUME Base, NEW e, NEW req, NEW axiReady, NEW rsp, NEW ptwReady, NEW ptwRsp, NEW dmWalk,
         Step(e, req, axiReady, rsp, ptwReady, ptwRsp, dmWalk)
  PROVE  Base'
<1>1. /\ PtwEdge(req, ptwReady, ptwRsp, dmWalk) /\ XlateEdge(req, axiReady, rsp, ptwRsp)
      /\ PmpEdge(req) /\ DsEdge(req, axiReady, rsp) /\ TypeOK
  BY DEF Step, Edge, Base
<1>2. /\ FetchTypes' /\ Fetching' /\ TableTypes' /\ Remembered' /\ TlbTypes' /\ Entries'
  BY FetchTypesKept, TablesKept, TlbKept
<1>3. pmpPending' \in BOOLEAN
  <2>1. (pmpPending /\ ~inflight) \in BOOLEAN
    BY Zenon
  <2> QED BY <1>1, <2>1, Zenon DEF PmpEdge
<1>4. ds' \in [Path -> Frame \cup {NoFrame}]
  <2>1. ds \in [Path -> Frame \cup {NoFrame}]
    BY <1>1 DEF TypeOK
  <2> QED BY <1>1, <2>1, TargetTypes DEF DsEdge
<1>5. WalkTypes' /\ Walking'
  BY <1>1, <1>3, <1>4, WalkerKept, XlateKept DEF WalkTypes
<1>6. TypeOK'
  BY <1>2, <1>5 DEF TypeOK, FetchTypes, TableTypes, TlbTypes, WalkTypes
<1> QED BY <1>2, <1>5, <1>6 DEF Base

-----------------------------------------------------------------------------
(* The TLB, under one ASID.                                                *)

\* A read of the walker under way carries the ASID its entry will get.
OneWalk == ptw.state \in {"L1_WAIT", "L0_REQ", "L0_WAIT"} => ptw.asid = satp.asid

Agrees(entry, m) == m.leaf /\ m.frame = entry.frame /\ m.x = entry.x /\ m.u = entry.u

Fresh == \A i \in Slot : tlb[i].valid =>
            \E m \in seen[KeyOf(tlb[i].asid, tlb[i].page)] : Agrees(tlb[i], m)

LEMMA FreshIsTlbFresh == Base => (Fresh <=> TlbFresh)
  BY DEF Base, Fresh, TlbFresh, Agrees

LEMMA SameAsid ==
  ASSUME OneAsid, Base, NEW e, NEW req, NEW axiReady, NEW rsp, NEW ptwReady, NEW ptwRsp, NEW dmWalk,
         Step(e, req, axiReady, rsp, ptwReady, ptwRsp, dmWalk)
  PROVE  satp'.asid = satp.asid
<1>1. satp \in Satp /\ satp' \in Satp
  BY TablesKept DEF Base, TypeOK, TableTypes
<1> QED BY <1>1 DEF OneAsid

(* A fence that covers a PTE hits the entry that holds it.                 *)
LEMMA FenceReaches ==
  ASSUME Base, NEW e \in Events, NEW i \in Slot, tlb[i].valid,
         Forgets(e, KeyOf(tlb[i].asid, tlb[i].page))
  PROVE  SfenceHits(e, tlb[i])
<1>1. /\ tlb[i].asid \in Asid /\ tlb[i].page \in Page /\ (tlb[i].g <=> tlb[i].page \in Global)
      /\ e.kind = "fence"
  BY DEF Base, TypeOK, Entries, Forgets
<1>2. e.asid \in Asid \cup {"any"}
  BY <1>1, EventTypes DEF Base, AnyAsid
<1>3. /\ e.page \in {NoPage, tlb[i].page}
      /\ e.asid \in {"any", IF tlb[i].page \in Global THEN "global" ELSE tlb[i].asid}
  BY <1>1, KeyTypes DEF Forgets, Covers, AnyAsid
<1>4. "global" \notin Asid /\ "any" \notin Asid
  BY IfetchAssumption DEF IfetchAssumption
<1> QED BY <1>1, <1>2, <1>3, <1>4 DEF SfenceHits, AnyAsid

LEMMA FreshKept ==
  ASSUME OneAsid, Base, OneWalk, Fresh,
         NEW e, NEW req, NEW axiReady, NEW rsp, NEW ptwReady, NEW ptwRsp, NEW dmWalk,
         Step(e, req, axiReady, rsp, ptwReady, ptwRsp, dmWalk)
  PROVE  OneWalk' /\ Fresh'
<1>1. satp'.asid = satp.asid
  BY SameAsid
<1>2. OneWalk'
  <2>1. PtwEdge(req, ptwReady, ptwRsp, dmWalk)
    BY DEF Step, Edge
  <2> QED BY <1>1, <2>1, WalkerKept DEF OneWalk
<1>3. \A k \in Key : /\ pt[k] \in seen'[k]
                     /\ ~Forgets(e, k) => seen[k] \subseteq seen'[k]
  BY TablesKept
<1>4. Fresh'
  <2> SUFFICES ASSUME NEW i \in Slot, tlb'[i].valid
               PROVE  \E m \in seen'[KeyOf(tlb'[i].asid, tlb'[i].page)] : Agrees(tlb'[i], m)
    BY DEF Fresh, Agrees, KeyOf
  <2>1. \/ tlb'[i] = tlb[i] /\ ~SfenceHits(e, tlb[i])
        \/ tlb'[i] = FilledEntry /\ IfWalkEnds(ptwRsp) /\ WalkedPte.leaf
    BY TlbKept
  <2>2. CASE tlb'[i] = tlb[i] /\ ~SfenceHits(e, tlb[i])
    <3>1. /\ tlb[i].valid /\ tlb[i].asid \in Asid /\ tlb[i].page \in Page
          /\ KeyOf(tlb[i].asid, tlb[i].page) \in Key
      BY <2>2, KeyTypes DEF Base, TypeOK, Entries
    <3>2. PICK m \in seen[KeyOf(tlb[i].asid, tlb[i].page)] : Agrees(tlb[i], m)
      BY <3>1 DEF Fresh
    <3>3. ~Forgets(e, KeyOf(tlb[i].asid, tlb[i].page))
      BY <2>2, <3>1, FenceReaches DEF Step
    <3> QED BY <1>3, <2>2, <3>1, <3>2, <3>3
  <2>3. CASE tlb'[i] = FilledEntry /\ IfWalkEnds(ptwRsp) /\ WalkedPte.leaf
    <3>1. /\ ptw.asid = satp.asid /\ KeyOf(ptw.asid, ptw.page) \in Key
          /\ WalkedPte = pt[KeyOf(ptw.asid, ptw.page)]
      BY <2>3, WalkedTypes DEF OneWalk
    <3>2. tlb'[i].asid = satp.asid /\ tlb'[i].page = ptw.page /\ Agrees(tlb'[i], WalkedPte)
      BY <2>3 DEF FilledEntry, Agrees
    <3> QED BY <1>3, <3>1, <3>2
  <2> QED BY <2>1, <2>2, <2>3
<1> QED BY <1>2, <1>4

-----------------------------------------------------------------------------
(* One answer, where every page is mapped.                                 *)

Permitted ==
    /\ \A i \in Slot : tlb[i].valid => \A p \in Priv \ {"M"} : PermOk(p, tlb[i])
    /\ xlate.valid => ~xlate.fault

OneDue == OneAnswerDue /\ (pmpPending => inflight /\ Free)

LEMMA NeverDenies ==
  ASSUME Base, Permitted
  PROVE  ~tlb_deny /\ \A req : ~fault_reply(req) /\ Mux(req) # "deny"
<1>1. ~tlb_deny
  BY HitTypes DEF tlb_deny, xlate_if, Permitted, Base, TypeOK
<1>2. \A req : ~fault_reply(req)
  BY DEF fault_reply, cache_live, Permitted
<1> QED BY <1>1, <1>2 DEF Mux

LEMMA PermittedKept ==
  ASSUME NoFaults, Base, Permitted,
         NEW e, NEW req, NEW axiReady, NEW rsp, NEW ptwReady, NEW ptwRsp, NEW dmWalk,
         Step(e, req, axiReady, rsp, ptwReady, ptwRsp, dmWalk)
  PROVE  Permitted'
<1>1. XlateEdge(req, axiReady, rsp, ptwRsp)
  BY DEF Step, Edge
<1>2. IfWalkEnds(ptwRsp) =>
         WalkedPte.leaf /\ \A p \in Priv \ {"M"} : PermOk(p, WalkedPte)
  BY WalkedTypes DEF NoFaults
<1>3. ASSUME NEW i \in Slot, tlb'[i].valid, NEW p \in Priv \ {"M"} PROVE PermOk(p, tlb'[i])
  <2>1. tlb'[i] = tlb[i] \/ (tlb'[i] = FilledEntry /\ IfWalkEnds(ptwRsp))
    BY <1>3, TlbKept
  <2>2. CASE tlb'[i] = tlb[i]
    BY <1>3, <2>2 DEF Permitted
  <2>3. CASE tlb'[i] = FilledEntry /\ IfWalkEnds(ptwRsp)
    BY <1>2, <2>3 DEF FilledEntry, PermOk
  <2> QED BY <2>1, <2>2, <2>3
<1>4. xlate'.valid => ~xlate'.fault
  <2>1. IfWalkEnds(ptwRsp) => ptw.priv \in Priv \ {"M"}
    BY WalkedTypes
  <2> QED BY <1>1, <1>2, <2>1, XlateKept, NeverDenies DEF Permitted
<1> QED BY <1>3, <1>4 DEF Permitted, PermOk

(* What an edge does to the paths.                                         *)
LEMMA PathsNext ==
  ASSUME Base, NEW req \in BOOLEAN, NEW axiReady, NEW rsp \in SUBSET {q \in Path : Busy(q)},
         DsEdge(req, axiReady, rsp)
  PROVE  \A q \in Path :
            /\ Busy(q)' <=> \/ Busy(q) /\ q \notin rsp
                            \/ Forwards(req) /\ DsReady(axiReady) /\ q = PathOf(Target) /\ q \notin rsp
            /\ Busy(q)' => (Busy(q) /\ ds'[q] = ds[q]) \/
                           (Forwards(req) /\ DsReady(axiReady) /\ q = PathOf(Target) /\ ds'[q] = Target)
<1>1. ds' = [q \in Path |-> IF q \in rsp THEN NoFrame
                            ELSE IF Forwards(req) /\ DsReady(axiReady) /\ q = PathOf(Target) THEN Target
                            ELSE ds[q]]
  BY Zenon DEF DsEdge
<1>2. DsReady(axiReady) => Target # NoFrame
  BY DEF DsReady
<1> QED BY <1>1, <1>2 DEF Busy

LEMMA OneDueKept ==
  ASSUME Base, Permitted, OneDue,
         NEW e, NEW req, NEW axiReady, NEW rsp, NEW ptwReady, NEW ptwRsp, NEW dmWalk,
         Step(e, req, axiReady, rsp, ptwReady, ptwRsp, dmWalk)
  PROVE  /\ OneDue'
         /\ pmpPending' <=> pmp_kill_comb(req) /\ ~inflight
<1> DEFINE accept == Accepted(req, axiReady)
           answered == inflight /\ Answer(req, rsp) # NoAnswer
<1>1. /\ TypeOK /\ FetchEdge(e, req, axiReady, rsp) /\ PmpEdge(req) /\ DsEdge(req, axiReady, rsp)
      /\ rsp \in SUBSET {q \in Path : Busy(q)}
      /\ req \in BOOLEAN /\ (req => ~inflight)
  BY Requests DEF Base, Step, Edge
<1>2. inflight' <=> accept \/ (inflight /\ ~answered)
  BY <1>1, FetchEdgeIs
<1>3. pmpPending' <=> pmp_kill_comb(req) /\ ~inflight
  BY <1>1 DEF PmpEdge, OneDue
<1>4. pmp_kill_comb(req) => req /\ Mux(req) = "kill" /\ accept /\ ~Forwards(req)
  BY DEF pmp_kill_comb, pmp_active, Mux, pmp_kill, Accepted, Forwards
<1>5. Forwards(req) /\ DsReady(axiReady) => req /\ accept
  BY DEF Forwards, Accepted
<1>6. ~inflight => Free
  BY DEF OneDue, OneAnswerDue, Free
<1>7. \A q \in Path :
         Busy(q)' <=> \/ Busy(q) /\ q \notin rsp
                      \/ Forwards(req) /\ DsReady(axiReady) /\ q = PathOf(Target) /\ q \notin rsp
  BY <1>1, PathsNext
<1>8. ASSUME NEW q \in Path, Busy(q), q \notin rsp PROVE ~answered
  <2>1. inflight /\ req = FALSE
    BY <1>1, <1>8 DEF OneDue, OneAnswerDue
  <2>2. Mux(req) # "kill"
    <3>1. ~pmpPending
      BY <1>8 DEF OneDue, Free
    <3> QED BY <2>1, <3>1 DEF Mux, pmp_kill, pmp_kill_comb, pmp_active
  <2>3. DsAnswer(rsp) = NoAnswer
    <3>1. ~(Busy("sram") /\ Busy("axi")) /\ Path = {"sram", "axi"}
      BY DEF OneDue, OneAnswerDue, Path
    <3> QED BY <1>1, <1>8, <3>1, AnswerTypes
  <2> QED BY <1>1, <2>2, <2>3, NeverDenies, MuxValues, AnswerTypes
<1> HIDE DEF accept, answered
<1>9. \A q \in Path : Busy(q)' => inflight'
  <2> SUFFICES ASSUME NEW q \in Path, Busy(q)' PROVE inflight'
    OBVIOUS
  <2>1. CASE Busy(q) /\ q \notin rsp
    BY <1>2, <1>8, <2>1 DEF OneDue, OneAnswerDue
  <2> QED BY <1>2, <1>5, <1>7, <2>1
<1>10. ~(Busy("sram")' /\ Busy("axi")')
  BY <1>1, <1>5, <1>6, <1>7 DEF OneDue, OneAnswerDue, Free, Path, PathOf
<1>11. pmpPending' => inflight' /\ Free'
  BY <1>2, <1>3, <1>4, <1>6, <1>7 DEF Free
<1> QED BY <1>3, <1>9, <1>10, <1>11 DEF OneDue, OneAnswerDue

-----------------------------------------------------------------------------
(* An answer to come, unless translation is switched in a fetch's wait.    *)

Owed == inflight => pmpPending \/ (~Free /\ (xlate_if => xlate.valid))

\* The core asks for no fetch at an edge that changes the mode or satp.
LEMMA TranslationStays ==
  ASSUME Base, HoldsWhileFetching, NEW e, NEW req, NEW axiReady, NEW rsp, NEW ptwReady,
         NEW ptwRsp, NEW dmWalk, Step(e, req, axiReady, rsp, ptwReady, ptwRsp, dmWalk),
         inflight', req \/ inflight
  PROVE  xlate_if' <=> xlate_if
<1>1. CASE inflight
  BY <1>1 DEF HoldsWhileFetching
<1>2. CASE req
  <2>1. e \in Events /\ ~Redirects(e)
    BY <1>2 DEF Step, When
  <2>2. priv' = priv /\ satp' = satp
    BY <2>1, EventTypes, TablesKept DEF Base
  <2> QED BY <2>2 DEF xlate_if
<1> QED BY <1>1, <1>2

LEMMA OwedKept ==
  ASSUME HoldsWhileFetching, Base, Permitted, OneDue, Owed,
         NEW e, NEW req, NEW axiReady, NEW rsp, NEW ptwReady, NEW ptwRsp, NEW dmWalk,
         Step(e, req, axiReady, rsp, ptwReady, ptwRsp, dmWalk)
  PROVE  Owed'
<1>1. /\ TypeOK /\ FetchEdge(e, req, axiReady, rsp) /\ XlateEdge(req, axiReady, rsp, ptwRsp)
      /\ DsEdge(req, axiReady, rsp) /\ rsp \in SUBSET {q \in Path : Busy(q)}
      /\ req \in BOOLEAN /\ (req => ~inflight)
  BY Requests DEF Base, Step, Edge
<1>2. /\ inflight' <=> Accepted(req, axiReady) \/ (inflight /\ Answer(req, rsp) = NoAnswer)
      /\ Accepted(req, axiReady) => req
  BY <1>1, FetchEdgeIs
<1>3. /\ pmpPending' <=> pmp_kill_comb(req) /\ ~inflight
      /\ inflight' /\ (req \/ inflight) => (xlate_if' <=> xlate_if)
  BY OneDueKept, TranslationStays
<1>4. \A q \in Path :
         Busy(q)' <=> \/ Busy(q) /\ q \notin rsp
                      \/ Forwards(req) /\ DsReady(axiReady) /\ q = PathOf(Target) /\ q \notin rsp
  BY <1>1, PathsNext
<1>5. ~Clears(req, rsp) /\ (xlate.valid \/ Stuffs(req, axiReady)) => xlate'.valid
  BY <1>1, XlateKept
<1>6. CASE Accepted(req, axiReady)
  <2>1. req /\ ~inflight /\ ~pmpPending /\ Free
    BY <1>1, <1>2, <1>6 DEF OneDue, OneAnswerDue, Free
  <2>2. Mux(req) = "kill" \/ (Mux(req) = "pass" /\ DsReady(axiReady))
    BY <1>6, NeverDenies DEF Accepted
  <2>3. CASE Mux(req) = "kill"
    BY <1>3, <2>1, <2>3 DEF Mux, pmp_kill, Owed
  <2>4. CASE Mux(req) = "pass" /\ DsReady(axiReady)
    <3>1. PathOf(Target) \in Path /\ PathOf(Target) \notin rsp
      BY <1>1, <2>1 DEF PathOf, Path, Free
    <3>2. ~Free'
      BY <1>4, <2>1, <2>4, <3>1 DEF Forwards, Free
    <3>3. ~Clears(req, rsp)
      BY <2>1 DEF Clears
    <3>4. xlate_if => xlate.valid \/ Stuffs(req, axiReady)
      BY <2>1, <2>4 DEF Mux, Stuffs, forward, cache_live
    <3>5. xlate_if' <=> xlate_if
      BY <1>2, <1>3, <1>6, <2>1
    <3> QED BY <1>5, <3>2, <3>3, <3>4, <3>5 DEF Owed
  <2> QED BY <2>2, <2>3, <2>4
<1>7. CASE ~Accepted(req, axiReady) /\ inflight'
  <2>1. inflight /\ Answer(req, rsp) = NoAnswer /\ req = FALSE
    BY <1>1, <1>2, <1>7
  <2>2. Mux(req) # "kill"
    BY <1>1, <2>1, AnswerTypes DEF NoAnswer
  <2>3. ~pmpPending
    BY <2>2 DEF Mux, pmp_kill
  <2>4. xlate_if => xlate.valid
    BY <2>1, <2>3 DEF Owed
  <2>5. PICK q \in Path : Busy(q)
    BY <2>1, <2>3 DEF Owed, Free
  <2>6. Mux(req) = "pass"
    BY <2>1, <2>2, <2>4, NeverDenies DEF Mux, forward, fault_reply, cache_live
  <2>7. DsAnswer(rsp) = NoAnswer
    BY <1>1, <2>1, <2>6, AnswerTypes
  <2>8. rsp = {}
    BY <1>1, <2>7, IfetchAssumption DEF IfetchAssumption, DsAnswer, TypeOK, Busy, Path
  <2>9. ~Free'
    BY <1>4, <2>5, <2>8 DEF Free
  <2>10. ~Clears(req, rsp)
    BY <2>7, NeverDenies DEF Clears
  <2>11. xlate_if' <=> xlate_if
    BY <1>3, <1>7, <2>1
  <2> QED BY <1>5, <2>4, <2>9, <2>10, <2>11 DEF Owed
<1> QED BY <1>6, <1>7 DEF Owed

LEMMA OwedIsOwed == Base /\ Owed => AnswerOwed
  BY DEF Owed, AnswerOwed, Free, Mux, pmp_kill

-----------------------------------------------------------------------------
(* What a fetch brings, under one ASID and where every page is mapped.     *)

\* The walk result is one its page has had since the last fence.
Cached == xlate.valid =>
    /\ xlate.page \in Page
    /\ \E m \in kept[KeyOf(satp.asid, xlate.page)] : m.leaf /\ m.frame = xlate.frame

\* What the fetch in flight will bring, unless it is squashed.
Coming == inflight /\ ~squash =>
    /\ \A q \in Path : Busy(q) => ds[q] \in Outcomes(inflightPage, kept)
    /\ pmpPending => "accessfault" \in Outcomes(inflightPage, kept)

LEMMA CachedKept ==
  ASSUME OneAsid, Base, OneWalk, Fresh, NoFaults, Permitted, Cached,
         NEW e, NEW req, NEW axiReady, NEW rsp, NEW ptwReady, NEW ptwRsp, NEW dmWalk,
         Step(e, req, axiReady, rsp, ptwReady, ptwRsp, dmWalk)
  PROVE  Cached'
<1> SUFFICES ASSUME xlate'.valid
             PROVE  /\ xlate'.page \in Page
                    /\ \E m \in kept'[KeyOf(satp'.asid, xlate'.page)] : m.leaf /\ m.frame = xlate'.frame
  BY DEF Cached, KeyOf
<1>1. /\ XlateEdge(req, axiReady, rsp, ptwRsp) /\ satp'.asid = satp.asid /\ satp.asid \in Asid
      /\ pc \in Page /\ (req => ~Redirects(e))
  <2>1. XlateEdge(req, axiReady, rsp, ptwRsp) /\ (req => ~Redirects(e))
    BY Requests DEF Step, Edge
  <2>2. satp.asid \in Asid /\ pc \in Page
    BY IfetchAssumption DEF Base, TypeOK, IfetchAssumption
  <2> QED BY <2>1, <2>2, SameAsid
<1>2. \A k \in Key : /\ pt[k] \in kept'[k]
                     /\ ~Forgets(e, k) => kept[k] \subseteq kept'[k]
                     /\ xlate.valid /\ xlate.page = k[2] => kept[k] \subseteq kept'[k]
  BY TablesKept
<1>3. \/ xlate' = xlate
      \/ Stuffs(req, axiReady) /\ xlate'.frame = HitEntry.frame /\ xlate'.page = pc
      \/ /\ IfWalkEnds(ptwRsp) /\ xlate'.page = ptw.page
         /\ WalkedPte.leaf /\ PermOk(ptw.priv, WalkedPte) => xlate'.frame = WalkedPte.frame
  BY <1>1, XlateKept, NeverDenies
<1>4. CASE xlate' = xlate
  <2>1. PICK m \in kept[KeyOf(satp.asid, xlate.page)] : m.leaf /\ m.frame = xlate.frame
    BY <1>4 DEF Cached
  <2>2. xlate.page \in Page
    BY <1>4 DEF Cached
  <2>3. KeyOf(satp.asid, xlate.page) \in Key /\ KeyOf(satp.asid, xlate.page)[2] = xlate.page
    BY <1>1, <2>2, KeyTypes
  <2> QED BY <1>1, <1>2, <1>4, <2>1, <2>2, <2>3
<1>5. CASE Stuffs(req, axiReady) /\ xlate'.frame = HitEntry.frame /\ xlate'.page = pc
  <2>1. req /\ tlb_hit
    BY <1>5 DEF Stuffs, tlb_go
  <2>2. PICK i \in Slot : HitEntry = tlb[i] /\ tlb[i].valid
    BY <2>1, HitTypes
  <2>3. tlb[i].page = pc /\ (tlb[i].g \/ tlb[i].asid = satp.asid) /\ (tlb[i].g <=> pc \in Global)
    BY <2>1, <2>2, HitTypes DEF Base, Entries
  <2>4. KeyOf(tlb[i].asid, tlb[i].page) = KeyOf(satp.asid, pc)
    BY <2>3 DEF KeyOf
  <2>5. PICK m \in seen[KeyOf(satp.asid, pc)] : Agrees(tlb[i], m)
    BY <2>2, <2>4 DEF Fresh
  <2>6. KeyOf(satp.asid, pc) \in Key
    BY <1>1, KeyTypes
  <2>7. ~Forgets(e, KeyOf(satp.asid, pc))
    BY <1>1, <2>1 DEF Forgets, Redirects
  <2>8. m \in kept'[KeyOf(satp.asid, pc)]
    BY <1>2, <2>5, <2>6, <2>7 DEF Base, Remembered
  <2> QED BY <1>1, <1>5, <2>2, <2>5, <2>8 DEF Agrees
<1>6. CASE /\ IfWalkEnds(ptwRsp) /\ xlate'.page = ptw.page
           /\ WalkedPte.leaf /\ PermOk(ptw.priv, WalkedPte) => xlate'.frame = WalkedPte.frame
  <2>1. /\ ptw.asid = satp.asid /\ ptw.page \in Page /\ KeyOf(ptw.asid, ptw.page) \in Key
        /\ WalkedPte = pt[KeyOf(ptw.asid, ptw.page)]
        /\ WalkedPte.leaf /\ PermOk(ptw.priv, WalkedPte)
    BY <1>6, WalkedTypes DEF OneWalk, NoFaults
  <2> QED BY <1>1, <1>2, <1>6, <2>1
<1> QED BY <1>3, <1>4, <1>5, <1>6

(* Where a request would go is what its page names.                        *)
LEMMA TargetIsDue ==
  ASSUME Base, Fresh, NoFaults, Permitted, Cached,
         ~xlate_if \/ tlb_go \/ (xlate.valid /\ xlate.page = pc)
  PROVE  Bare(Target) \in Outcomes(pc, kept)
<1>1. CASE ~xlate_if
  BY <1>1 DEF Target, Outcomes
<1>2. ASSUME xlate_if, NEW m \in kept[KeyOf(satp.asid, pc)], m.leaf, m.frame = Target
      PROVE  Bare(Target) \in Outcomes(pc, kept)
  <2>1. priv \in Priv \ {"M"} /\ satp.asid \in Asid /\ pc \in Page /\ kept \in [Key -> SUBSET Mapping]
    BY <1>2, IfetchAssumption DEF xlate_if, Base, TypeOK, IfetchAssumption
  <2>2. KeyOf(satp.asid, pc) \in Key
    BY <2>1, KeyTypes
  <2>3. m \in Mapping
    BY <1>2, <2>1, <2>2
  <2>4. Translated(m) = Bare(Target)
    BY <1>2, <2>1, <2>3 DEF Translated, NoFaults
  <2> QED BY <1>2, <2>4 DEF Outcomes
<1>3. CASE tlb_go
  <2>1. tlb_hit /\ xlate_if /\ Target = HitEntry.frame
    BY <1>3 DEF tlb_go, Target
  <2>2. PICK i \in Slot : HitEntry = tlb[i] /\ tlb[i].valid
    BY <2>1, HitTypes
  <2>3. tlb[i].page = pc /\ (tlb[i].g \/ tlb[i].asid = satp.asid) /\ (tlb[i].g <=> pc \in Global)
    BY <2>1, <2>2, HitTypes DEF Base, Entries
  <2>4. KeyOf(tlb[i].asid, tlb[i].page) = KeyOf(satp.asid, pc)
    BY <2>3 DEF KeyOf
  <2>5. PICK m \in seen[KeyOf(satp.asid, pc)] : Agrees(tlb[i], m)
    BY <2>2, <2>4 DEF Fresh
  <2>6. satp.asid \in Asid /\ pc \in Page
    BY IfetchAssumption DEF Base, TypeOK, IfetchAssumption
  <2>7. m \in kept[KeyOf(satp.asid, pc)]
    BY <2>5, <2>6, KeyTypes DEF Base, Remembered
  <2> QED BY <1>2, <2>1, <2>2, <2>5, <2>7 DEF Agrees
<1>4. CASE xlate_if /\ ~tlb_go /\ xlate.valid /\ xlate.page = pc
  <2>1. PICK m \in kept[KeyOf(satp.asid, pc)] : m.leaf /\ m.frame = xlate.frame
    BY <1>4 DEF Cached
  <2>2. Target = xlate.frame
    BY <1>4 DEF Target
  <2> QED BY <1>2, <1>4, <2>1, <2>2
<1> QED BY <1>1, <1>3, <1>4

(* Without a redirect nothing that was due stops being due.                *)
LEMMA OutcomesGrow ==
  ASSUME Base, NEW e, NEW req, NEW axiReady, NEW rsp, NEW ptwReady, NEW ptwRsp, NEW dmWalk,
         Step(e, req, axiReady, rsp, ptwReady, ptwRsp, dmWalk), ~Redirects(e), NEW p \in Page
  PROVE  Outcomes(p, kept) \subseteq Outcomes(p, kept)'
<1>1. priv' = priv /\ satp' = satp /\ satp.asid \in Asid
  BY EventTypes, TablesKept, IfetchAssumption DEF Step, Base, TypeOK, IfetchAssumption
<1>2. KeyOf(satp.asid, p) \in Key /\ KeyOf(satp.asid, p)' = KeyOf(satp.asid, p)
  BY <1>1, KeyTypes DEF KeyOf
<1>3. kept[KeyOf(satp.asid, p)] \subseteq kept'[KeyOf(satp.asid, p)]
  BY <1>2, TablesKept DEF Forgets, Redirects
<1>4. (xlate_if' <=> xlate_if) /\ Bare(BareFrame[p])' = Bare(BareFrame[p])
  BY <1>1 DEF xlate_if, Bare
<1>5. CASE xlate_if
  <2>1. Outcomes(p, kept) = { Translated(m) : m \in kept[KeyOf(satp.asid, p)] }
    BY <1>5 DEF Outcomes
  <2>2. Outcomes(p, kept)' = { Translated(m) : m \in kept'[KeyOf(satp.asid, p)] }
    BY <1>1, <1>2, <1>4, <1>5 DEF Outcomes, Translated, PermOk, Bare
  <2> HIDE DEF Translated
  <2> QED BY <1>3, <2>1, <2>2
<1>6. CASE ~xlate_if
  BY <1>4, <1>6 DEF Outcomes
<1> QED BY <1>5, <1>6

LEMMA ComingKept ==
  ASSUME OneAsid, Base, OneWalk, Fresh, NoFaults, Permitted, OneDue, Cached, Coming,
         NEW e, NEW req, NEW axiReady, NEW rsp, NEW ptwReady, NEW ptwRsp, NEW dmWalk,
         Step(e, req, axiReady, rsp, ptwReady, ptwRsp, dmWalk)
  PROVE  Coming'
<1> SUFFICES ASSUME inflight', ~squash'
             PROVE  /\ \A q \in Path : Busy(q)' => ds'[q] \in Outcomes(inflightPage, kept)'
                    /\ pmpPending' => "accessfault" \in Outcomes(inflightPage, kept)'
  BY DEF Coming
<1>1. /\ TypeOK /\ FetchEdge(e, req, axiReady, rsp) /\ DsEdge(req, axiReady, rsp)
      /\ rsp \in SUBSET {q \in Path : Busy(q)}
      /\ req \in BOOLEAN /\ (req => ~inflight /\ ~Redirects(e))
  BY Requests DEF Base, Step, Edge
<1>2. /\ inflight' <=> Accepted(req, axiReady) \/ (inflight /\ Answer(req, rsp) = NoAnswer)
      /\ squash' <=> ~Accepted(req, axiReady) /\ inflight' /\ (squash \/ Redirects(e))
      /\ Accepted(req, axiReady) => req /\ inflightPage' = pc
      /\ ~Accepted(req, axiReady) /\ inflight' => inflightPage' = inflightPage
  BY <1>1, FetchEdgeIs
<1>3. pmpPending' <=> pmp_kill_comb(req) /\ ~inflight
  BY OneDueKept
<1>4. \A q \in Path :
         /\ Busy(q)' <=> \/ Busy(q) /\ q \notin rsp
                         \/ Forwards(req) /\ DsReady(axiReady) /\ q = PathOf(Target) /\ q \notin rsp
         /\ Busy(q)' => (Busy(q) /\ ds'[q] = ds[q]) \/
                        (Forwards(req) /\ DsReady(axiReady) /\ q = PathOf(Target) /\ ds'[q] = Target)
  BY <1>1, PathsNext
<1>5. CASE Accepted(req, axiReady)
  <2>1. req /\ ~inflight /\ ~Redirects(e) /\ Free /\ ~pmpPending /\ pc \in Page
    BY <1>1, <1>2, <1>5 DEF OneDue, OneAnswerDue, Free, TypeOK
  <2>2. PICK p \in Page : p = pc
    BY <2>1
  <2>3. Outcomes(p, kept) \subseteq Outcomes(p, kept)'
    BY <2>1, OutcomesGrow
  <2>4. Outcomes(inflightPage, kept)' = Outcomes(p, kept)'
    BY <1>2, <1>5, <2>2 DEF Outcomes, KeyOf
  <2>5. Mux(req) = "kill" \/ (Mux(req) = "pass" /\ DsReady(axiReady))
    BY <1>5, NeverDenies DEF Accepted
  <2>6. CASE Mux(req) = "kill"
    <3>1. pmp_kill_comb(req) /\ ~Forwards(req)
      BY <2>1, <2>6 DEF Mux, pmp_kill, Forwards
    <3>2. Bare(Target) \in Outcomes(p, kept) /\ Bare(Target) = "accessfault"
      BY <2>2, <3>1, TargetIsDue DEF pmp_kill_comb, pmp_active, Bare
    <3>3. \A q \in Path : ~Busy(q)'
      BY <1>4, <2>1, <3>1 DEF Free
    <3> QED BY <2>3, <2>4, <3>2, <3>3
  <2>7. CASE Mux(req) = "pass" /\ DsReady(axiReady)
    <3>1. ~pmp_kill_comb(req) /\ (~xlate_if \/ tlb_go \/ (xlate.valid /\ ~xlate.fault /\ xlate.page = pc))
      BY <2>1, <2>7 DEF Mux, pmp_kill, forward, cache_live
    <3>2. Bare(Target) \in Outcomes(p, kept) /\ Bare(Target) = Target
      BY <2>1, <2>2, <3>1, TargetIsDue DEF pmp_kill_comb, pmp_active, Bare
    <3>3. \A q \in Path : Busy(q)' => ds'[q] = Target
      BY <1>4, <2>1 DEF Free
    <3>4. ~pmpPending'
      BY <1>3, <3>1
    <3> QED BY <2>3, <2>4, <3>2, <3>3, <3>4
  <2> QED BY <2>5, <2>6, <2>7
<1>6. CASE ~Accepted(req, axiReady)
  <2>1. inflight /\ ~squash /\ ~Redirects(e) /\ inflightPage' = inflightPage /\ req = FALSE
    BY <1>1, <1>2, <1>6
  <2>2. PICK p \in Page : p = inflightPage
    BY <2>1 DEF Base, Fetching
  <2>3. Outcomes(p, kept) \subseteq Outcomes(p, kept)'
    BY <2>1, OutcomesGrow
  <2>4. Outcomes(inflightPage, kept)' = Outcomes(p, kept)'
    BY <2>1, <2>2 DEF Outcomes, KeyOf
  <2>5. \A q \in Path : Busy(q)' => Busy(q) /\ ds'[q] = ds[q]
    BY <1>4, <2>1 DEF Forwards
  <2>6. ~pmpPending'
    BY <1>3, <2>1
  <2> QED BY <2>1, <2>2, <2>3, <2>4, <2>5, <2>6 DEF Coming
<1> QED BY <1>5, <1>6

(* Where the instructions the core has fetched come from.                  *)
LEMMA PendNext ==
  ASSUME Base, NEW e, NEW req, NEW axiReady, NEW rsp, NEW ptwReady, NEW ptwRsp, NEW dmWalk,
         Step(e, req, axiReady, rsp, ptwReady, ptwRsp, dmWalk), NEW i \in 1..Len(pend')
  PROVE  /\ ~Redirects(e)
         /\ \/ \E j \in 1..Len(pend) : pend'[i] = pend[j]
            \/ /\ inflight /\ ~squash /\ Answer(req, rsp) # NoAnswer
               /\ pend'[i] = [page |-> inflightPage, got |-> Answer(req, rsp)]
<1> DEFINE answered == inflight /\ Answer(req, rsp) # NoAnswer
           rest == IF e.kind = "retire" THEN Tail(pend) ELSE pend
           Fetched == [page : Page, got : Frame \cup Fault]
           new == [page |-> inflightPage, got |-> Answer(req, rsp)]
<1>1. /\ TypeOK /\ FetchEdge(e, req, axiReady, rsp) /\ e \in Events /\ req \in BOOLEAN
      /\ rsp \in SUBSET {q \in Path : Busy(q)} /\ pend \in Seq(Fetched)
  BY Requests DEF Base, Step, Edge, TypeOK
<1>2. /\ Redirects(e) => pend' = <<>>
      /\ ~Redirects(e) /\ answered /\ ~squash => pend' = Append(rest, new)
      /\ ~Redirects(e) /\ ~(answered /\ ~squash) => pend' = rest
  BY <1>1, FetchEdgeIs
<1>3. ~Redirects(e)
  <2>1. Redirects(e) => Len(pend') = 0
    BY <1>2, EmptySeq
  <2> QED BY <2>1
<1>4. e.kind = "retire" => pend # <<>>
  BY <1>1, EventTypes
<1>5. answered => new \in Fetched
  <2>1. answered => inflightPage \in Page /\ Answer(req, rsp) \in Frame \cup Fault
    BY <1>1, AnswerTypes DEF Base, Fetching
  <2> QED BY <2>1
<1> HIDE DEF Fetched, new
<1>6. /\ rest \in Seq(Fetched) /\ Len(rest) \in Nat
      /\ \A k \in 1..Len(rest) : \E j \in 1..Len(pend) : rest[k] = pend[j]
  <2>1. Len(pend) \in Nat
    BY <1>1, LenProperties
  <2>2. CASE e.kind = "retire"
    <3>1. /\ Tail(pend) \in Seq(Fetched) /\ Len(Tail(pend)) = Len(pend) - 1 /\ Len(pend) # 0
          /\ \A k \in 1..Len(Tail(pend)) : Tail(pend)[k] = pend[k + 1]
      BY <1>1, <1>4, <2>2, HeadTailProperties, EmptySeq
    <3>2. \A k \in 1..(Len(pend) - 1) : k + 1 \in 1..Len(pend)
      BY <2>1
    <3> QED BY <2>1, <2>2, <3>1, <3>2
  <2>3. CASE e.kind # "retire"
    BY <1>1, <2>1, <2>3
  <2> QED BY <2>2, <2>3
<1> HIDE DEF answered, rest
<1>7. CASE answered /\ ~squash
  <2>1. /\ Len(Append(rest, new)) = Len(rest) + 1
        /\ \A k \in 1..Len(rest) : Append(rest, new)[k] = rest[k]
        /\ Append(rest, new)[Len(rest) + 1] = new
    BY <1>5, <1>6, <1>7, AppendProperties
  <2>2. pend' = Append(rest, new)
    BY <1>2, <1>3, <1>7
  <2>3. i \in 1..Len(rest) \/ i = Len(rest) + 1
    BY <1>6, <2>1, <2>2
  <2> QED BY <1>3, <1>6, <1>7, <2>1, <2>2, <2>3 DEF answered, new
<1>8. CASE ~(answered /\ ~squash)
  BY <1>2, <1>3, <1>6, <1>8
<1> QED BY <1>7, <1>8

LEMMA LegallyKept ==
  ASSUME Base, Permitted, Coming, FetchedLegally,
         NEW e, NEW req, NEW axiReady, NEW rsp, NEW ptwReady, NEW ptwRsp, NEW dmWalk,
         Step(e, req, axiReady, rsp, ptwReady, ptwRsp, dmWalk)
  PROVE  FetchedLegally'
<1> SUFFICES ASSUME NEW i \in 1..Len(pend')
             PROVE  pend'[i].got \in Outcomes(pend[i].page, kept)'
  BY DEF FetchedLegally
<1>1. /\ TypeOK /\ rsp \in SUBSET {q \in Path : Busy(q)} /\ req \in BOOLEAN /\ (req => ~inflight)
      /\ pend \in Seq([page : Page, got : Frame \cup Fault])
  BY Requests DEF Base, Step, TypeOK
<1>2. ~Redirects(e)
  BY PendNext
<1>3. ASSUME NEW p \in Page, p = pend'[i].page, pend'[i].got \in Outcomes(p, kept)
      PROVE  pend'[i].got \in Outcomes(pend[i].page, kept)'
  <2>1. Outcomes(p, kept) \subseteq Outcomes(p, kept)'
    BY <1>2, OutcomesGrow
  <2>2. Outcomes(pend[i].page, kept)' = Outcomes(p, kept)'
    BY <1>3 DEF Outcomes, KeyOf
  <2> QED BY <1>3, <2>1, <2>2
<1>4. ASSUME NEW j \in 1..Len(pend), pend'[i] = pend[j]
      PROVE  pend'[i].got \in Outcomes(pend[i].page, kept)'
  <2>1. pend[j] \in [page : Page, got : Frame \cup Fault]
    BY <1>1, ElementOfSeq
  <2>2. PICK p \in Page : p = pend[j].page
    BY <2>1
  <2>3. pend[j].got \in Outcomes(p, kept)
    BY <2>2 DEF FetchedLegally
  <2> QED BY <1>3, <1>4, <2>2, <2>3
<1>5. ASSUME inflight, ~squash, Answer(req, rsp) # NoAnswer,
             pend'[i] = [page |-> inflightPage, got |-> Answer(req, rsp)]
      PROVE  pend'[i].got \in Outcomes(pend[i].page, kept)'
  <2>1. PICK p \in Page : p = inflightPage
    BY <1>5 DEF Base, Fetching
  <2>2. req = FALSE
    BY <1>1, <1>5
  <2>3. CASE Mux(req) = "kill"
    <3>1. pmpPending
      BY <2>2, <2>3 DEF Mux, pmp_kill, pmp_kill_comb, pmp_active
    <3>2. Answer(req, rsp) = "accessfault" /\ "accessfault" \in Outcomes(p, kept)
      BY <1>1, <1>5, <2>1, <2>3, <3>1, AnswerTypes DEF Coming
    <3> QED BY <1>3, <1>5, <2>1, <3>2
  <2>4. CASE Mux(req) = "pass"
    <3>1. PICK q \in rsp : Busy(q) /\ Answer(req, rsp) = ds[q]
      BY <1>1, <1>5, <2>4, AnswerTypes
    <3>2. Answer(req, rsp) \in Outcomes(p, kept)
      BY <1>1, <1>5, <2>1, <3>1 DEF Coming
    <3> QED BY <1>3, <1>5, <2>1, <3>2
  <2> QED BY <1>1, <1>5, <2>3, <2>4, NeverDenies, MuxValues, AnswerTypes
<1> QED BY <1>4, <1>5, PendNext

-----------------------------------------------------------------------------
(* The start.                                                              *)

LEMMA Initially ==
  Init => Base /\ OneWalk /\ Fresh /\ Permitted /\ OneDue /\ Owed /\ Cached /\ Coming /\ FetchedLegally
<1> SUFFICES ASSUME Init
             PROVE  Base /\ OneWalk /\ Fresh /\ Permitted /\ OneDue /\ Owed /\ Cached /\ Coming /\ FetchedLegally
  OBVIOUS
<1>1. /\ pc \in Page /\ inflight = FALSE /\ inflightPage = NoPage /\ squash = FALSE /\ young = FALSE
      /\ pend = <<>> /\ priv = (IF "M" \in Priv THEN "M" ELSE "S") /\ satp \in Satp
      /\ pt = InitTable /\ stores = 0 /\ seen = [k \in Key |-> {InitTable[k]}] /\ kept = seen
      /\ tlb = [i \in Slot |-> NoEntry] /\ repl = 0 /\ xlate = NoXlate /\ pmpPending = FALSE
      /\ ptw = IdleWalk /\ ds = [q \in Path |-> NoFrame]
  BY DEF Init
<1>2. (CHOOSE a \in Asid : TRUE) \in Asid
  BY IfetchAssumption DEF IfetchAssumption
<1>3. FetchTypes /\ Fetching /\ FetchedLegally
  <2>1. /\ pend \in Seq([page : Page, got : Frame \cup Fault]) /\ Len(pend) = 0
    BY <1>1, EmptySeq
  <2>2. inflight \in BOOLEAN /\ squash \in BOOLEAN /\ young \in BOOLEAN
    BY <1>1, Zenon
  <2>3. FetchTypes
    BY <1>1, <2>1, <2>2 DEF FetchTypes
  <2>4. \A i \in 1..Len(pend) : FALSE
    BY <2>1
  <2> QED BY <1>1, <2>3, <2>4 DEF Fetching, FetchedLegally
<1>4. TableTypes /\ Remembered
  <2>1. InitTable \in [Key -> Mapping] /\ MaxStores \in Nat
    BY IfetchAssumption DEF IfetchAssumption
  <2>2. priv \in Priv
    BY <1>1, IfetchAssumption DEF IfetchAssumption
  <2>3. TableTypes
    BY <1>1, <2>1, <2>2 DEF TableTypes
  <2> QED BY <1>1, <2>1, <2>3 DEF Remembered
<1>5. TlbTypes /\ Entries /\ Fresh
  <2>1. NoEntry \in [valid : BOOLEAN, page : Page \cup {NoPage}, asid : Asid, g : BOOLEAN,
                     frame : Frame \cup {NoFrame}, x : BOOLEAN, u : BOOLEAN] /\ ~NoEntry.valid
    BY <1>2 DEF NoEntry
  <2>2. 0 \in Slot
    BY IfetchAssumption DEF IfetchAssumption, Slot
  <2> QED BY <1>1, <2>1, <2>2 DEF TlbTypes, Entries, Fresh
<1>6. WalkTypes /\ Walking /\ OneWalk
  <2>1. /\ IdleWalk \in [state : {"IDLE", "L1_REQ", "L1_WAIT", "L0_REQ", "L0_WAIT"}, side : {"IF", "DM"},
                         page : Page \cup {NoPage}, priv : {"U", "S", "M"}, asid : Asid]
        /\ IdleWalk.state = "IDLE"
    BY <1>2 DEF IdleWalk
  <2>2. NoXlate \in [valid : BOOLEAN, fault : BOOLEAN, frame : Frame \cup {NoFrame},
                     page : Page \cup {NoPage}]
    BY DEF NoXlate
  <2> QED BY <1>1, <2>1, <2>2 DEF WalkTypes, Walking, OneWalk
<1>7. Permitted /\ OneDue /\ Owed /\ Cached /\ Coming
  <2>1. ~xlate.valid /\ \A i \in Slot : ~tlb[i].valid
    BY <1>1 DEF NoXlate, NoEntry
  <2>2. \A q \in Path : ~Busy(q)
    BY <1>1 DEF Busy
  <2>3. OneAnswerDue
    BY <2>2 DEF OneAnswerDue, Path
  <2> QED BY <1>1, <2>1, <2>2, <2>3 DEF Permitted, OneDue, Owed, Cached, Coming
<1>8. Base
  BY <1>3, <1>4, <1>5, <1>6, TypesSplit DEF Base
<1> QED BY <1>3, <1>5, <1>6, <1>7, <1>8

(* The invariants when nothing moves.                                      *)
LEMMA Quiet ==
  ASSUME UNCHANGED vars
  PROVE  /\ Base => Base'
         /\ OneWalk => OneWalk'
         /\ Fresh => Fresh'
         /\ Permitted => Permitted'
         /\ OneDue => OneDue'
         /\ Owed => Owed'
         /\ Cached => Cached'
         /\ Coming => Coming'
         /\ FetchedLegally => FetchedLegally'
<1>1. /\ pc' = pc /\ inflight' = inflight /\ inflightPage' = inflightPage /\ squash' = squash
      /\ young' = young /\ pend' = pend /\ priv' = priv /\ satp' = satp /\ pt' = pt
      /\ stores' = stores /\ seen' = seen /\ kept' = kept /\ tlb' = tlb /\ repl' = repl
      /\ xlate' = xlate /\ pmpPending' = pmpPending /\ ptw' = ptw /\ ds' = ds
  BY DEF vars, fetchVars, csrVars, tableVars, mmuVars
<1>2. Base => Base'
  BY <1>1 DEF Base, TypeOK, Fetching, Remembered, Walking, Entries
<1>3. (OneWalk => OneWalk') /\ (Fresh => Fresh') /\ (Permitted => Permitted')
  BY <1>1 DEF OneWalk, Fresh, Agrees, KeyOf, Permitted, PermOk
<1>4. (OneDue => OneDue') /\ (Owed => Owed')
  BY <1>1 DEF OneDue, OneAnswerDue, Free, Busy, Owed, xlate_if
<1>5. Cached => Cached'
  BY <1>1 DEF Cached, KeyOf
<1>6. ASSUME NEW p PROVE Outcomes(p, kept)' = Outcomes(p, kept)
  BY <1>1 DEF Outcomes, KeyOf, xlate_if, Translated, PermOk, Bare
<1>7. Coming => Coming'
  BY <1>1, <1>6 DEF Coming, Busy
<1>8. FetchedLegally => FetchedLegally'
  BY <1>1, <1>6 DEF FetchedLegally
<1> QED BY <1>2, <1>3, <1>4, <1>5, <1>7, <1>8

LEMMA BaseAlways == Spec => []Base
<1>1. Init => Base
  BY Initially
<1>2. Base /\ [Next]_vars => Base'
  <2> SUFFICES ASSUME Base, [Next]_vars PROVE Base'
    OBVIOUS
  <2>1. CASE Next
    BY <2>1, NextIsAnEdge, BaseKept DEF Edges
  <2>2. CASE UNCHANGED vars
    BY <2>2, Quiet
  <2> QED BY <2>1, <2>2
<1> QED BY <1>1, <1>2, PTL DEF Spec

-----------------------------------------------------------------------------
(* No entry of the TLB outlives a fence over it (mmu.sv 61-69), and none   *)
(* is filled past its end: each agrees with a PTE its page has had since   *)
(* the last fence.  For software that uses one ASID, in every mode and     *)
(* with translation switched on and off.                                   *)
THEOREM TlbStaysFresh ==
  ASSUME OneAsid
  PROVE  Spec => []TlbFresh
<1> DEFINE Inv == OneWalk /\ Fresh
<1>1. Init => Inv
  BY Initially
<1>2. Base /\ Inv /\ [Next]_vars => Inv'
  <2> SUFFICES ASSUME Base, Inv, [Next]_vars PROVE Inv'
    OBVIOUS
  <2>1. CASE Next
    BY <2>1, NextIsAnEdge, FreshKept DEF Edges
  <2>2. CASE UNCHANGED vars
    BY <2>2, Quiet
  <2> QED BY <2>1, <2>2
<1>3. Base /\ Inv => TlbFresh
  BY FreshIsTlbFresh
<1> QED BY <1>1, <1>2, <1>3, BaseAlways, PTL DEF Spec

(* The fabric owes the core at most one word, and only while the core      *)
(* waits for it (mmu.sv's multiplexer in front of the two paths of         *)
(* soc_top.sv), so a late answer is never the next fetch's.  For software  *)
(* whose translated fetches do not fault.                                  *)
THEOREM OneAnswerAtATime ==
  ASSUME NoFaults
  PROVE  Spec => []OneAnswerDue
<1> DEFINE Inv == Permitted /\ OneDue
<1>1. Init => Inv
  BY Initially
<1>2. Base /\ Inv /\ [Next]_vars => Inv'
  <2> SUFFICES ASSUME Base, Inv, [Next]_vars PROVE Inv'
    OBVIOUS
  <2>1. CASE Next
    BY <2>1, NextIsAnEdge, PermittedKept, OneDueKept DEF Edges
  <2>2. CASE UNCHANGED vars
    BY <2>2, Quiet
  <2> QED BY <2>1, <2>2
<1>3. Inv => OneAnswerDue
  BY DEF OneDue
<1> QED BY <1>1, <1>2, <1>3, BaseAlways, PTL DEF Spec

(* In every behaviour in which no step switches translation on or off      *)
(* around a fetch it leaves outstanding, the core never waits for a fetch  *)
(* that nothing is going to answer (docs/bus.md 19), whatever else changes *)
(* meanwhile: the address space, the PTEs, the TLB under a fence, the mode *)
(* between fetches.  Of software whose translated fetches do not fault.    *)
THEOREM AnswerComes ==
  ASSUME NoFaults
  PROVE  Spec /\ [][HoldsWhileFetching]_vars => []AnswerOwed
<1> DEFINE Inv == Permitted /\ OneDue /\ Owed
<1>1. Init => Inv
  BY Initially
<1>2. Base /\ Inv /\ [Next]_vars /\ [HoldsWhileFetching]_vars => Inv'
  <2> SUFFICES ASSUME Base, Inv, [Next]_vars, [HoldsWhileFetching]_vars PROVE Inv'
    OBVIOUS
  <2>1. CASE Next /\ HoldsWhileFetching
    BY <2>1, NextIsAnEdge, PermittedKept, OneDueKept, OwedKept DEF Edges
  <2>2. CASE UNCHANGED vars
    BY <2>2, Quiet
  <2> QED BY <2>1, <2>2
<1>3. Base /\ Inv => AnswerOwed
  BY OwedIsOwed
<1> QED BY <1>1, <1>2, <1>3, BaseAlways, PTL DEF Spec

(* Every instruction the core has fetched is the one its address names in  *)
(* the current mode, or the fault PMP calls for: through TLB, walker,      *)
(* walk-result cache and both paths, over redirects and changes of mode    *)
(* (core_pipeline.sv's squash).  For software that uses one ASID and whose *)
(* translated fetches do not page-fault.                                   *)
THEOREM FetchesLegally ==
  ASSUME NoFaults, OneAsid
  PROVE  Spec => []FetchedLegally
<1> DEFINE Inv == /\ OneWalk /\ Fresh /\ Permitted /\ OneDue
                  /\ Cached /\ Coming /\ FetchedLegally
<1>1. Init => Inv
  BY Initially
<1>2. Base /\ Inv /\ [Next]_vars => Inv'
  <2> SUFFICES ASSUME Base, Inv, [Next]_vars PROVE Inv'
    OBVIOUS
  <2>1. CASE Next
    <3>1. PICK e, req, axiReady, rsp, ptwReady, ptwRsp, dmWalk :
             Step(e, req, axiReady, rsp, ptwReady, ptwRsp, dmWalk)
      BY <2>1, NextIsAnEdge DEF Edges
    <3>2. OneWalk' /\ Fresh' /\ Permitted' /\ OneDue'
      BY <3>1, FreshKept, PermittedKept, OneDueKept
    <3>3. Cached' /\ Coming' /\ FetchedLegally'
      BY <3>1, CachedKept, ComingKept, LegallyKept
    <3> QED BY <3>2, <3>3
  <2>2. CASE UNCHANGED vars
    BY <2>2, Quiet
  <2> QED BY <2>1, <2>2
<1> QED BY <1>1, <1>2, BaseAlways, PTL DEF Spec
=============================================================================
