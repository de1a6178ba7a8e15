------------------------------- MODULE MCQos -------------------------------
(***************************************************************************)
(* A small instance of Qos: two ports of two queues, words of two bits.    *)
(* main's calls: the last port's weights, its mode and a rate that needs   *)
(* two words (10^10 = 2 * 2^32 + ...), then the first port's rate.         *)
(***************************************************************************)
EXTENDS Qos, TLC

MCDefaultQueue   == 0 :> 0 @@ 46 :> 1
MCDefaultWeights == 0 :> 1 @@ 1 :> 1
MCWeights        == {0 :> 1 @@ 1 :> 3}

MCBootCalls ==
    << [op |-> "weight", port |-> 1, weights |-> 0 :> 1 @@ 1 :> 3],
       [op |-> "mode", port |-> 1, mode |-> 2, spq |-> 1],
       [op |-> "pir", port |-> 1, bps |-> 9],
       [op |-> "pir", port |-> 0, bps |-> 3] >>
=============================================================================
