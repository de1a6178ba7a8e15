-------------------------------- MODULE MCRx --------------------------------
(***************************************************************************)
(* A small instance of Rx: three ports, frames of one to three cells of    *)
(* two bytes, the last of one byte, and up to two headers.                 *)
(***************************************************************************)
EXTENDS Rx, TLC
=============================================================================
