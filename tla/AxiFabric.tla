----------------------------- MODULE AxiFabric -----------------------------
(***************************************************************************)
(* The path from the core to DDR: three clients (page-table walker,        *)
(* instruction fetch, data memory), the arbiter of rtl/soc/soc_top.sv and  *)
(* the single-outstanding AXI4 master of rtl/soc/axi4_master.sv.           *)
(*                                                                         *)
(* A step is either one clock edge of the master (Grant, Write, WriteB,    *)
(* Read, ReadR, Respond, CoolDown; an edge that changes no register is a   *)
(* stuttering step) or a change of a level signal between two edges (a     *)
(* client raises or withdraws its request).  The AXI slave is outside the  *)
(* repository's core: it accepts AW, W and AR in any order and answers     *)
(* after any delay.  Byte strobes and the constant AXI attributes are left *)
(* out: every access is one whole word.                                    *)
(***************************************************************************)
EXTENDS Naturals

CONSTANTS Addr,            \* word addresses of the AXI window
          Data,            \* word values
          Mapped,          \* the addresses some slave answers with OKAY
          CooldownCycles,  \* 8 in the source: idle edges after a response
          Zero,            \* the word of a write response
          NoAddr           \* an empty slave channel

ASSUME AxiAssumption ==
    /\ Mapped \subseteq Addr
    /\ CooldownCycles \in Nat
    /\ NoAddr \notin Addr \cup Data
    /\ Zero \in Data

Sides  == {"IF", "DM"}
Client == {"PTW"} \cup Sides

Phase  == {"idle", "translate", "walk", "ask", "wait", "fault"}

VARIABLES
  state, addr, wdata, awSent, wSent,       \* axi4_master: FSM and latches
  rspValid, rspFault, rspData, cooldown,   \* axi4_master: response pulse
  inflightClient, lastGrantIf,             \* soc_top: arbiter registers
  phase, want,                             \* the clients and their requests
  walkSide, walkBeats,                     \* the walker: side served, reads left
  slaveAw, slaveW, slaveAr, mem            \* the AXI slave

master  == <<state, addr, wdata, awSent, wSent, rspValid, rspFault, rspData, cooldown>>
arbiter == <<inflightClient, lastGrantIf>>
clients == <<phase, want, walkSide, walkBeats>>
slave   == <<slaveAw, slaveW, slaveAr, mem>>
fabricVars == <<master, arbiter, clients, slave>>

Request     == [addr : Addr, wen : BOOLEAN, wdata : Data]
ReadRequest == [addr : Addr, wen : {FALSE}, wdata : {Zero}]
WriteRequest == [addr : Addr, wen : {TRUE}, wdata : Data]

-----------------------------------------------------------------------------
(* The arbiter's choice: the walker first, then ifetch and dmem in turn.   *)

Asking(c) == phase[c] = "ask"

PickPtw == Asking("PTW")

\* Mutants of PickIf: a fixed priority in place of the turns.
PickIfFirst == ~PickPtw /\ Asking("IF")
PickIfLast  == ~PickPtw /\ Asking("IF") /\ ~Asking("DM")

PickIf  == ~PickPtw /\ Asking("IF") /\ (~Asking("DM") \/ ~lastGrantIf)
PickDm  == ~PickPtw /\ ~PickIf /\ Asking("DM")

Picked(c) == \/ c = "PTW" /\ PickPtw
             \/ c = "IF"  /\ PickIf
             \/ c = "DM"  /\ PickDm

\* A mutant of PickedRequest: the address mux selects on valid, not on the choice.
AddressOnValid(c) == IF Asking("IF") THEN [want[c] EXCEPT !.addr = want["IF"].addr] ELSE want[c]

\* am_req_addr, am_req_wen, am_req_wdata of the choice.
PickedRequest(c) == want[c]

\* A mutant of ReqReady: the response pulse is not waited out.
ReqReadyDuringPulse == state = "IDLE"

ReqReady == state = "IDLE" /\ ~rspValid /\ cooldown = 0

Decrement(n) == IF n = 0 THEN 0 ELSE n - 1

-----------------------------------------------------------------------------
(* Clients: ifetch and dmem ask for a word, after a page-table walk of one *)
(* or two reads when the TLB misses.                                       *)

Request1(c) ==
    /\ c \in Sides
    /\ phase[c] = "idle"
    /\ \E r \in ReadRequest \cup (IF c = "DM" THEN WriteRequest ELSE {}),
          p \in {"translate", "ask"} :
          /\ want'  = [want EXCEPT ![c] = r]
          /\ phase' = [phase EXCEPT ![c] = p]
    /\ UNCHANGED <<master, arbiter, walkSide, walkBeats, slave>>

\* launch_if has priority over launch_dm.
LaunchWalk(c) ==
    /\ phase[c] = "translate"
    /\ c = "DM" => phase["IF"] # "translate"
    /\ phase["PTW"] = "idle"
    /\ walkBeats = 0
    /\ walkSide' = c
    /\ \E r \in ReadRequest :
             want' = [want EXCEPT !["PTW"] = r]
    /\ \E n \in 1..2 : walkBeats' = n
    /\ phase' = [phase EXCEPT !["PTW"] = "ask", ![c] = "walk"]
    /\ UNCHANGED <<master, arbiter, slave>>

\* A redirect withdraws a fetch that has not been accepted; a walk started
\* for it goes on.  Redirects wait for a stalled data access.
WithdrawFetch ==
    /\ phase["IF"] \in {"translate", "walk", "ask"}
    /\ phase["DM"] = "idle"
    /\ phase' = [phase EXCEPT !["IF"] = "idle"]
    /\ UNCHANGED <<master, arbiter, want, walkSide, walkBeats, slave>>

\* The trap of a faulted translation retires.  It redirects the front end,
\* so a fetch not yet accepted is withdrawn; a fetch fault waits behind the
\* data access of an older instruction.
TakeTrap(c) ==
    /\ phase[c] = "fault"
    /\ c = "IF" => phase["DM"] = "idle"
    /\ phase' = [phase EXCEPT ![c] = "idle",
                    !["IF"] = IF phase["IF"] = "wait" THEN @ ELSE "idle"]
    /\ UNCHANGED <<master, arbiter, want, walkSide, walkBeats, slave>>

-----------------------------------------------------------------------------
(* Clock edges of the master.                                              *)

Grant(c) ==
    /\ ReqReady
    /\ Picked(c)
    /\ addr'  = PickedRequest(c).addr
    /\ wdata' = PickedRequest(c).wdata
    /\ state' = IF PickedRequest(c).wen THEN "WRITE" ELSE "READ"
    /\ awSent' = FALSE
    /\ wSent'  = FALSE
    /\ inflightClient' = c
    /\ lastGrantIf' = IF c \in Sides THEN c = "IF" ELSE lastGrantIf
    /\ phase' = [phase EXCEPT ![c] = "wait"]
    /\ UNCHANGED <<rspValid, rspFault, rspData, cooldown, want, walkSide, walkBeats, slave>>

Write ==
    /\ state = "WRITE"
    /\ \E awReady \in BOOLEAN, wReady \in BOOLEAN :
          /\ (awReady /\ ~awSent) \/ (wReady /\ ~wSent)
          /\ awSent' = (awSent \/ awReady)
          /\ wSent'  = (wSent \/ wReady)
          /\ slaveAw' = IF awReady /\ ~awSent THEN addr ELSE slaveAw
          /\ slaveW'  = IF wReady /\ ~wSent THEN wdata ELSE slaveW
          /\ state' = IF awSent' /\ wSent' THEN "WRITE_B" ELSE "WRITE"
    /\ cooldown' = Decrement(cooldown)
    /\ UNCHANGED <<addr, wdata, rspValid, rspFault, rspData, arbiter, clients, slaveAr, mem>>

\* bvalid: the slave has both the address and the data.
WriteB ==
    /\ state = "WRITE_B"
    /\ slaveAw # NoAddr /\ slaveW # NoAddr
    /\ mem' = IF slaveAw \in Mapped THEN [mem EXCEPT ![slaveAw] = slaveW] ELSE mem
    /\ slaveAw' = NoAddr
    /\ slaveW'  = NoAddr
    /\ rspValid' = TRUE
    /\ rspFault' = (slaveAw \notin Mapped)
    /\ rspData' = Zero
    /\ state' = "IDLE"
    /\ cooldown' = CooldownCycles
    /\ UNCHANGED <<addr, wdata, awSent, wSent, arbiter, clients, slaveAr>>

Read ==
    /\ state = "READ"
    /\ slaveAr' = addr
    /\ state' = "READ_R"
    /\ cooldown' = Decrement(cooldown)
    /\ UNCHANGED <<addr, wdata, awSent, wSent, rspValid, rspFault, rspData,
                   arbiter, clients, slaveAw, slaveW, mem>>

\* rvalid: the slave has the address.
ReadR ==
    /\ state = "READ_R"
    /\ slaveAr # NoAddr
    /\ slaveAr' = NoAddr
    /\ rspValid' = TRUE
    /\ rspFault' = (slaveAr \notin Mapped)
    /\ rspData' \in IF slaveAr \in Mapped THEN {mem[slaveAr]} ELSE Data
    /\ state' = "IDLE"
    /\ cooldown' = CooldownCycles
    /\ UNCHANGED <<addr, wdata, awSent, wSent, arbiter, clients, slaveAw, slaveW, mem>>

\* The client the arbiter latched sees the one-cycle pulse.
ReceiveSide ==
    /\ inflightClient \in Sides
    /\ phase' = [phase EXCEPT ![inflightClient] = "idle"]
    /\ UNCHANGED <<want, walkSide, walkBeats>>

\* The walker goes on to the second level, or ends its walk: the side it
\* walked for, if it still asks, sends its translated request or is told of
\* the fault (a bus fault, or a leaf that denies the access).
ReceivePtw ==
    /\ inflightClient = "PTW"
    /\ \/ /\ walkBeats = 2
          /\ ~rspFault
          /\ walkBeats' = 1
          /\ \E r \in ReadRequest :
                want' = [want EXCEPT !["PTW"] = r]
          /\ phase' = [phase EXCEPT !["PTW"] = "ask"]
       \/ /\ walkBeats = 1 \/ rspFault
          /\ walkBeats' = 0
          /\ \E p \in (IF rspFault THEN {"fault"} ELSE {"ask", "fault"}) :
                phase' = [phase EXCEPT !["PTW"] = "idle",
                             ![walkSide] = IF @ = "walk" THEN p ELSE @]
          /\ want' = want
    /\ walkSide' = walkSide

Respond ==
    /\ rspValid
    /\ ReceiveSide \/ ReceivePtw
    /\ rspValid' = FALSE
    /\ rspFault' = FALSE
    /\ cooldown' = Decrement(cooldown)
    /\ UNCHANGED <<state, addr, wdata, awSent, wSent, rspData, arbiter, slave>>

CoolDown ==
    /\ state = "IDLE" /\ ~rspValid /\ cooldown > 0
    /\ cooldown' = Decrement(cooldown)
    /\ UNCHANGED <<state, addr, wdata, awSent, wSent, rspValid, rspFault, rspData,
                   arbiter, clients, slave>>

-----------------------------------------------------------------------------
FabricInit ==
    /\ state = "IDLE" /\ awSent = FALSE /\ wSent = FALSE
    /\ addr \in Addr /\ wdata = Zero
    /\ rspValid = FALSE /\ rspFault = FALSE /\ rspData = Zero
    /\ cooldown = 0
    /\ inflightClient = "PTW" /\ lastGrantIf = FALSE
    /\ phase = [c \in Client |-> "idle"]
    /\ want = [c \in Client |-> [addr |-> addr, wen |-> FALSE, wdata |-> Zero]]
    /\ walkSide = "IF" /\ walkBeats = 0
    /\ slaveAw = NoAddr /\ slaveW = NoAddr /\ slaveAr = NoAddr
    /\ mem \in [Mapped -> Data]

ClientStep == \/ \E c \in Sides : Request1(c) \/ LaunchWalk(c) \/ TakeTrap(c)
              \/ WithdrawFetch

GrantStep == \E c \in Client : Grant(c)

Edge == GrantStep \/ Write \/ WriteB \/ Read \/ ReadR \/ Respond \/ CoolDown

FabricNext == ClientStep \/ Edge

(* The clock never stops and the slave answers: every edge that can change *)
(* a register comes.  A walk launches at the first edge that finds the     *)
(* walker idle, so it cannot miss an opportunity (strong fairness).        *)
Fairness ==
    /\ WF_fabricVars(Edge)
    /\ \A c \in Sides : SF_fabricVars(LaunchWalk(c)) /\ WF_fabricVars(TakeTrap(c))

FabricSpec == FabricInit /\ [][FabricNext]_fabricVars
FairSpec   == FabricSpec /\ Fairness

-----------------------------------------------------------------------------
FabricTypeOK ==
    /\ state \in {"IDLE", "WRITE", "WRITE_B", "READ", "READ_R"}
    /\ addr \in Addr /\ wdata \in Data
    /\ awSent \in BOOLEAN /\ wSent \in BOOLEAN
    /\ rspValid \in BOOLEAN /\ rspFault \in BOOLEAN /\ rspData \in Data
    /\ cooldown \in 0..CooldownCycles
    /\ inflightClient \in Client /\ lastGrantIf \in BOOLEAN
    /\ phase \in [Client -> Phase]
    /\ want \in [Client -> Request]
    /\ walkSide \in Sides /\ walkBeats \in 0..2
    /\ slaveAw \in Addr \cup {NoAddr}
    /\ slaveW \in Data \cup {NoAddr}
    /\ slaveAr \in Addr \cup {NoAddr}
    /\ mem \in [Mapped -> Data]

Busy == state # "IDLE" \/ rspValid

OneOutstanding ==
    \A c \in Client : phase[c] = "wait" <=> (Busy /\ c = inflightClient)

(* Exactly one client waits while a transaction or its response pulse is   *)
(* in the master, it is the one the arbiter latched, and none waits        *)
(* otherwise: no phantom transaction, no response without a request        *)
(* (axi4_master.sv, the comment on the handshake in S_IDLE).  The counter  *)
(* of the cooldown stays within its bounds.                                *)
NoPhantom == FabricTypeOK /\ OneOutstanding

(* The response pulse carries the answer to the waiting client's own       *)
(* request: the word of its address, its write done, a fault exactly for   *)
(* an address nobody decodes.                                              *)
ResponseAnswersRequest ==
    rspValid =>
      LET r == want[inflightClient] IN
        /\ rspFault <=> r.addr \notin Mapped
        /\ (~rspFault /\ ~r.wen) => rspData = mem[r.addr]
        /\ (~rspFault /\ r.wen)  => mem[r.addr] = r.wdata

(* Memory changes only by the data client's accepted write, at its own     *)
(* address and with its own word; a walk or a fetch never writes.          *)
WritesAreRequested ==
    [][mem' # mem => /\ phase["DM"] = "wait" /\ want["DM"].wen
                     /\ mem' = [mem EXCEPT ![want["DM"].addr] = want["DM"].wdata]]_fabricVars

DmServed == (phase["DM"] # "idle") ~> (phase["DM"] = "idle")

IfServed == (phase["IF"] \notin {"idle", "fault"}) ~> (phase["IF"] \in {"idle", "fault"})

(* A data access is finished (or its translation fault trapped) although   *)
(* the walker has priority and fetches compete for the master, and a fetch *)
(* is answered or withdrawn.                                               *)
ClientsServed == DmServed /\ IfServed
=============================================================================
