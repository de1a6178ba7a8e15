------------------------------- MODULE MCFdb -------------------------------
(***************************************************************************)
(* A small instance of Fdb: the gateway and another address share a rule   *)
(* index, the second static address has its own, and the table has fewer   *)
(* slots than there are addresses.                                         *)
(***************************************************************************)
EXTENDS Fdb, TLC

CONSTANTS gw, shared, own

MCMacs  == {gw, shared, own}
MCTidOf == gw :> 1 @@ shared :> 1 @@ own :> 2
=============================================================================
