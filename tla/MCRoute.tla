------------------------------ MODULE MCRoute ------------------------------
(***************************************************************************)
(* A small instance of Route: addresses of 4 bits, a TCAM of 4 entries.    *)
(* The boot routes have their own indices; a longer prefix under the       *)
(* second has a lower index, which it shares with the first; one has a     *)
(* second spelling, one is the default route 0.0.0.0/0 and one falls on    *)
(* the index of main's default rule.                                       *)
(***************************************************************************)
EXTENDS Route

CONSTANTS h1, h2

MCBootRoutes == << <<4, 2, h1>>, <<8, 2, h2>> >>
MCPrefixes   == {<<4, 2>>, <<8, 2>>, <<9, 4>>, <<9, 2>>, <<0, 0>>, <<7, 4>>}
=============================================================================
