------------------------------- MODULE MCTue -------------------------------
(***************************************************************************)
(* A small instance of Tue: one stage, two rule indices, each with a TCAM  *)
(* address of its own, and a key that doubles as a parser state.           *)
(***************************************************************************)
EXTENDS Tue, TLC

CONSTANTS k0, k1, a0, a1

MCKeyByte == k0 :> 0 @@ k1 :> 1
=============================================================================
