---------------------------- MODULE MCProbeDispatch -----------------------------
(***************************************************************************)
(* Two budgeted dispatches and one without a budget on a pool of two       *)
(* threads: two scripts that hang fill the pool, the third waits behind    *)
(* them; a freed thread takes a cancelled job while another runs; and one  *)
(* dispatch blocks the loop while another's timer is due.                  *)
(***************************************************************************)
EXTENDS ProbeDispatch

CONSTANTS d1, d2, d3, w1, w2

MCDispatches == {d1, d2, d3}
MCBudgeted == {d1, d2}
MCWorkers == {w1, w2}
=================================================================================
