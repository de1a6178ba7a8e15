------------------------------- MODULE MCAcl -------------------------------
(***************************************************************************)
(* A small instance of Acl: a TCAM of three entries, ids modulo six and    *)
(* three slots, so that the ids wrap round the TCAM and round the counter  *)
(* while older rules stand.  Rules differ in their action and in the port, *)
(* of which one is cut to 0.                                               *)
(***************************************************************************)
EXTENDS Acl
=============================================================================
