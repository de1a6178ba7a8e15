-------------------------------- MODULE MCTm --------------------------------
(***************************************************************************)
(* A small instance of Tm: two ports with queues of two, and frames of one *)
(* and of two cells.                                                       *)
(***************************************************************************)
EXTENDS Tm, TLC
=============================================================================
