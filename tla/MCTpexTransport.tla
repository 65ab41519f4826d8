-------------------------- MODULE MCTpexTransport --------------------------
(***************************************************************************)
(* Small instances of TpexTransport: a lane for today and, in the same     *)
(* isolate, one that captures the day before and sets or clears the date   *)
(* of the isolate meanwhile.  What other sources answer is checked on      *)
(* small inputs beside it.                                                 *)
(***************************************************************************)
EXTENDS TpexTransport, ActivityChecks

MCTarget == [l \in Lanes |-> IF l = "daily" THEN Today ELSE Today - 1]
MCSelected == [l \in Lanes |-> IF l = "daily" THEN Layers ELSE Exact]
=============================================================================
