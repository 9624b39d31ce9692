------------------------------- MODULE Memory -------------------------------
(***************************************************************************)
(* What the data cache promises: a memory of single words.  The data       *)
(* client has at most one access open; it takes effect once, on the bytes  *)
(* of its mask, at one moment between the request and the answer, whatever *)
(* lines are cached.  The page-table walker reads the same words.          *)
(***************************************************************************)
CONSTANTS Addr, Lane, Byte, NoWord

VARIABLES mem,   \* the words
          data,  \* the data client's access
          walk   \* the walker's read

vars == <<mem, data, walk>>

Word   == [Lane -> Byte]
Access == [addr : Addr, wen : BOOLEAN, wdata : Word, wmask : SUBSET Lane]

(* A byte-masked store.                                                    *)
Merge(old, word, mask) == [l \in Lane |-> IF l \in mask THEN word[l] ELSE old[l]]

Idle == [at |-> "idle"]
Asked(a) == [at |-> "asked", access |-> a]
Done(a, w) == [at |-> "done", access |-> a, rdata |-> w]

Ask == data = Idle /\ data'.at = "asked" /\ data'.access \in Access /\ UNCHANGED mem

Load == /\ data.at = "asked" /\ ~data.access.wen
        /\ data' = Done(data.access, mem[data.access.addr])
        /\ UNCHANGED mem

Store == LET a == data.access IN
         /\ data.at = "asked" /\ a.wen
         /\ mem' = [mem EXCEPT ![a.addr] = Merge(@, a.wdata, a.wmask)]
         /\ data' = Done(a, NoWord)

Answer == data.at = "done" /\ data' = Idle /\ UNCHANGED mem

DataStep == Ask \/ Load \/ Store \/ Answer

WalkAsk  == walk.at # "asked" /\ walk'.at = "asked" /\ walk'.access \in Addr
WalkRead == walk.at = "asked" /\ walk' = Done(walk.access, mem[walk.access])
WalkEnd  == walk.at = "done" /\ walk' = Idle

WalkStep == WalkAsk \/ WalkRead \/ WalkEnd

Init == mem \in [Addr -> Word] /\ data = Idle /\ walk = Idle

(* Both clients may move at one clock edge.                                *)
Next == /\ DataStep \/ UNCHANGED <<mem, data>>
        /\ WalkStep \/ UNCHANGED walk

Spec == Init /\ [][Next]_vars
=============================================================================
