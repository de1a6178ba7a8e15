------------------------------ MODULE MCVlan ------------------------------
(***************************************************************************)
(* A small instance of Vlan: two VLANs, and the ports 0 and 2 of a TCAM    *)
(* that holds two ports' egress rules, so that they share theirs, while    *)
(* port 1 is alone.  main's calls: the second VLAN, an access port in it   *)
(* and a trunk port.  An operator changes VLAN 2 in every way, and of      *)
(* VLAN 1 a shared index and the VLAN itself, and gives any port any PVID. *)
(***************************************************************************)
EXTENDS Vlan

MCBootCalls ==
    << [op |-> "create", vlan |-> 2],
       [op |-> "pvid", port |-> 0, vlan |-> 2],
       [op |-> "mode", port |-> 0, mode |-> "access"],
       [op |-> "add", vlan |-> 2, port |-> 0, tagged |-> FALSE],
       [op |-> "mode", port |-> 1, mode |-> "trunk"],
       [op |-> "add", vlan |-> 2, port |-> 1, tagged |-> TRUE] >>

MCCommands ==
    [op : {"create", "delete"}, vlan : Vlans]
        \cup [op : {"add"}, vlan : {2}, port : Ports, tagged : BOOLEAN]
        \cup [op : {"remove"}, vlan : {2}, port : Ports]
        \cup [op : {"add"}, vlan : {1}, port : {0}, tagged : {TRUE}]
        \cup [op : {"remove"}, vlan : {1}, port : {2}]
        \cup [op : {"pvid"}, port : Ports, vlan : Vlans]
=============================================================================
