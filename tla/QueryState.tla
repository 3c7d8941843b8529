------------------------------ MODULE QueryState ------------------------------
(***************************************************************************)
(* What the two halves of a turn share in the graph's state                *)
(* (api/query_state.py): the gate decides whether the turn is contested,   *)
(* and every stage after it asks.                                          *)
(***************************************************************************)

VARIABLE contested
=============================================================================
