------------------------------- MODULE MCArp -------------------------------
(***************************************************************************)
(* A small instance of Arp: two addresses whose walks start at the same    *)
(* slot, a port without an interface, and two hosts for the one slot of    *)
(* the FDB that the static addresses leave.                                *)
(***************************************************************************)
EXTENDS Arp, TLC

CONSTANTS gw, server, host1, host2, ip1, ip2

MCMacs  == {gw, server, host1, host2}
MCTidOf == gw :> 1 @@ server :> 2 @@ host1 :> 1 @@ host2 :> 3
MCIps   == {ip1, ip2}
MCHash  == ip1 :> 0 @@ ip2 :> 0
=============================================================================
