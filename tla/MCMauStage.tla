----------------------------- MODULE MCMauStage -----------------------------
(***************************************************************************)
(* A small instance of MauStage: two keys, a rule for one of them and one  *)
(* for both, two TCAM entries and a third index that shares the second.    *)
(***************************************************************************)
EXTENDS MauStage

CONSTANTS k1, k2, a1, a2

MCMatches == {{k1}, {k1, k2}}
=============================================================================
