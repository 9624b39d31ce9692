------------------------------ MODULE MCPipeline ------------------------------
(***************************************************************************)
(* Pipeline for TLC: states that differ only in which numbers stand for    *)
(* the instructions behave alike, and one of them is explored.             *)
(***************************************************************************)
EXTENDS Pipeline, Sequences

CONSTANT x    \* the one register

MCReg == {x}

\* Every place that holds a number, 0 first; a number becomes the first
\* place that holds it.
Numbers == <<0, id.id, ex.id, ex.opnd, mem.id, mem.opnd, mem.res, wb.id, wb.opnd, wb.res,
             mem_load_data, div_result.id, div_result.opnd, dmem.id, rf[x]>>

FirstPlace(s) == [i \in 1..Len(s) |->
                    CHOOSE j \in 1..i : s[j] = s[i] /\ \A k \in 1..(j - 1) : s[k] # s[i]]

Unnumbered(t) == [t EXCEPT !.id = 0, !.opnd = 0, !.res = 0]

MCView == <<fetchVars, Unnumbered(id), Unnumbered(ex), Unnumbered(mem), Unnumbered(wb),
            trap_pending, mem_ls_pending, mem_req_fired, mem_amo_phase, mem_bus_fault, resv,
            dmem.busy, div_busy, div_started, div_done_latched, lrLive, FirstPlace(Numbers)>>
=============================================================================
