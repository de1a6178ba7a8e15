----------------------------- MODULE MCPuntRing -----------------------------
(***************************************************************************)
(* A small instance of PuntRing: the registers wrap at twice the slots.    *)
(***************************************************************************)
EXTENDS PuntRing
=============================================================================
