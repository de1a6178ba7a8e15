------------------------------- MODULE Route -------------------------------
(***************************************************************************)
(* The IPv4 routes of the firmware (sw/firmware/route.c) beside the        *)
(* stage-0 rules it installs, from main's boot sequence and the CLI.       *)
(*                                                                         *)
(* A route's rule stands at the index its network bits give, cut to the    *)
(* bits the TCAM has; routes of different lengths, and two spellings of    *)
(* one prefix, share an index.  The default rule, which drops, stands at   *)
(* the last index and is in no table.                                      *)
(*                                                                         *)
(* The model says which rules stand where, not which packets they match:   *)
(* the masks of route.c reach the TCAM with the opposite sense of a bit    *)
(* (README, section 5).                                                    *)
(*                                                                         *)
(* Route, Acl, Vlan and Qos name what they have in common apart, so that   *)
(* the facts about all four stand in one module, RulesProof.               *)
(***************************************************************************)
EXTENDS StageRules, Sequences

CONSTANTS
    AddrBits,           \* the width of an address: 32
    IndexBits,          \* the low bits of a table_id that select a TCAM entry: 11
    Prefixes,           \* the prefixes in use, as <<prefix, len>>
    Hops,               \* the next hops: a port and a MAC address
    ROUTE_TABLE_SIZE,   \* the slots of the software table
    BootRoutes,         \* main's route_add calls, as <<prefix, len, hop>>
    RouteFates,         \* the fates of a HAL command: TRUE applied, FALSE lost
    Drop,               \* the action of the default rule
    NoRoute             \* a slot with valid = 0

Addr       == 0 .. 2 ^ AddrBits - 1
RouteIndex == 0 .. 2 ^ IndexBits - 1
RouteSlot  == 0 .. ROUTE_TABLE_SIZE - 1
RouteEntry == {[prefix |-> p[1], len |-> p[2], hop |-> h] : p \in Prefixes, h \in Hops}

DefaultRule == [prefix |-> 0, len |-> 0, hop |-> Drop]
DefaultId   == 2 ^ IndexBits - 1     \* TABLE_IPV4_LPM_BASE + 0xFFFF

ASSUME WidthAssumption ==
    AddrBits \in Nat \ {0} /\ IndexBits \in Nat \ {0}
ASSUME PrefixAssumption == Prefixes \subseteq Addr \X (0 .. AddrBits)
ASSUME RouteTableAssumption ==
    /\ ROUTE_TABLE_SIZE \in Nat /\ ROUTE_TABLE_SIZE >= Len(BootRoutes)
    /\ BootRoutes \in Seq(Addr \X (0 .. AddrBits) \X Hops)
    /\ \A i \in DOMAIN BootRoutes : <<BootRoutes[i][1], BootRoutes[i][2]>> \in Prefixes
ASSUME RouteFatesAssumption == TRUE \in RouteFates /\ RouteFates \subseteq BOOLEAN
ASSUME NoRouteAssumption ==
    NoRoute \notin RouteEntry /\ NoRule \notin RouteEntry \cup {DefaultRule} /\ Drop \notin Hops

VARIABLES
    route_table,   \* the software table
    stage0,        \* the rules of stage 0
    route_boot     \* main's next call: 0 route_init, 1 the default rule, then BootRoutes

route_vars == <<route_table, stage0, route_boot>>

Looping == Len(BootRoutes) + 2    \* main is in its loop

RouteTypeOK ==
    /\ route_table \in [RouteSlot -> RouteEntry \cup {NoRoute}]
    /\ stage0 \in StageOf(RouteIndex, RouteEntry \cup {DefaultRule})
    /\ route_boot \in 0 .. Looping

-----------------------------------------------------------------------------
(* Prefixes.                                                               *)

(* Mutant: the shift is not cut to the bits the TCAM has.                  *)
MutTcamIdUncut(prefix, len) ==
    IF len = 0 THEN 0 ELSE prefix \div 2 ^ (AddrBits - len)

route_tcam_id(prefix, len) ==
    IF len = 0 THEN 0 ELSE (prefix \div 2 ^ (AddrBits - len)) % 2 ^ IndexBits

IdOf(e) == route_tcam_id(e.prefix, e.len)

RouteValid == {i \in RouteSlot : route_table[i] # NoRoute}
Holding(prefix, len) ==
    {i \in RouteValid : route_table[i].prefix = prefix /\ route_table[i].len = len}

-----------------------------------------------------------------------------
(* The calls of route.h.  A call that returns FULL changes nothing and is  *)
(* no step.                                                                *)

route_init == route_table' = [i \in RouteSlot |-> NoRoute]

(* Mutant: a known prefix changes in the table alone.                      *)
MutAddNoReinstall(prefix, len, hop, applied) ==
    LET e  == [prefix |-> prefix, len |-> len, hop |-> hop]
        at == IF Holding(prefix, len) # {} THEN Holding(prefix, len) ELSE RouteSlot \ RouteValid
    IN  /\ at # {}
        /\ route_table' = [route_table EXCEPT ![Min(at)] = e]
        /\ IF Holding(prefix, len) # {} THEN UNCHANGED stage0
           ELSE stage0' = hal_tcam_insert(stage0, IdOf(e), e, applied)

(* Mutant: the first free slot is taken before the prefix is looked for.   *)
MutAddFirstFree(prefix, len, hop, applied) ==
    LET e  == [prefix |-> prefix, len |-> len, hop |-> hop]
        at == IF RouteSlot \ RouteValid # {} THEN RouteSlot \ RouteValid ELSE Holding(prefix, len)
    IN  /\ at # {}
        /\ route_table' = [route_table EXCEPT ![Min(at)] = e]
        /\ stage0' = hal_tcam_insert(stage0, IdOf(e), e, applied)

(* The entry stays when the HAL fails: the caller is told, the table not.  *)
route_add(prefix, len, hop, applied) ==
    LET e  == [prefix |-> prefix, len |-> len, hop |-> hop]
        at == IF Holding(prefix, len) # {} THEN Holding(prefix, len) ELSE RouteSlot \ RouteValid
    IN  /\ at # {}
        /\ route_table' = [route_table EXCEPT ![Min(at)] = e]
        /\ stage0' = hal_tcam_insert(stage0, IdOf(e), e, applied)

(* Mutant: the rule is looked for at the prefix, not shifted.              *)
MutDelUnshifted(prefix, len, applied) ==
    /\ route_table' = [i \in RouteSlot |->
          IF i \in Holding(prefix, len) THEN NoRoute ELSE route_table[i]]
    /\ stage0' = hal_tcam_delete(stage0, prefix % 2 ^ IndexBits, applied)

(* The rule at the index goes even when the table has no such prefix.      *)
route_del(prefix, len, applied) ==
    /\ route_table' = [i \in RouteSlot |->
          IF Holding(prefix, len) # {} /\ i = Min(Holding(prefix, len))
          THEN NoRoute ELSE route_table[i]]
    /\ stage0' = hal_tcam_delete(stage0, route_tcam_id(prefix, len), applied)

-----------------------------------------------------------------------------
(* main and the CLI.                                                       *)

RouteInit ==
    /\ route_table = [i \in RouteSlot |-> NoRoute]
    /\ stage0 = EmptyStage(RouteIndex)
    /\ route_boot = 0

RouteBootInit ==
    /\ route_boot = 0 /\ route_boot' = 1
    /\ route_init
    /\ UNCHANGED stage0

BootDefault(applied) ==
    /\ route_boot = 1 /\ route_boot' = 2
    /\ stage0' = hal_tcam_insert(stage0, DefaultId, DefaultRule, applied)
    /\ UNCHANGED route_table

BootRoute(applied) ==
    /\ route_boot \in 2 .. Looping - 1 /\ route_boot' = route_boot + 1
    /\ LET r == BootRoutes[route_boot - 1] IN route_add(r[1], r[2], r[3], applied)

(* cmd_route: the arguments are a prefix with len <= 32 and a port < 32.   *)
RouteAdd(p, hop, applied) ==
    /\ route_boot = Looping
    /\ route_add(p[1], p[2], hop, applied)
    /\ UNCHANGED route_boot

RouteDel(p, applied) ==
    /\ route_boot = Looping
    /\ route_del(p[1], p[2], applied)
    /\ UNCHANGED route_boot

RouteBoot == RouteBootInit \/ \E applied \in RouteFates : BootDefault(applied) \/ BootRoute(applied)

RouteCommand ==
    \E p \in Prefixes, applied \in RouteFates :
        RouteDel(p, applied) \/ \E hop \in Hops : RouteAdd(p, hop, applied)

RouteNext == RouteBoot \/ RouteCommand

RouteSpec == RouteInit /\ [][RouteNext]_route_vars

-----------------------------------------------------------------------------
(* The table and the rules.                                                *)

Live == {route_table[i] : i \in RouteValid}

(* A rule other than the default, unless the last command for its index    *)
(* was lost, is that of a route the table holds, with its present hop: the *)
(* TCAM names no next hop the operator has withdrawn or changed, although  *)
(* deletes go by index and not by prefix (route.c:107-119).                *)
RouteBacked(t) ==
    stage0.at[t] \notin {NoRule, DefaultRule} /\ t \notin stage0.lost => stage0.at[t] \in Live

NoOrphanRoute == \A t \in RouteIndex : RouteBacked(t)

(* A route whose index no other prefix in use has is installed with its    *)
(* present hop, unless the HAL lost the command.                           *)
Unshared(e) ==
    /\ \A p \in Prefixes : route_tcam_id(p[1], p[2]) = IdOf(e) => p = <<e.prefix, e.len>>
    /\ IdOf(e) # DefaultId

UnsharedInstalled ==
    \A e \in Live : Unshared(e) /\ IdOf(e) \notin stage0.lost => stage0.at[IdOf(e)] = e

(* A prefix that leaves a slot of the table has left the switch: it is in  *)
(* no other slot, and no index holds its rule, with this hop or an earlier *)
(* one, unless the HAL lost the command.  This needs route_add to find a   *)
(* known prefix before it takes a free slot (route.c:55-73), which         *)
(* arp_find, asked the same way, does not.                                 *)
RulesFor(prefix, len) ==
    {t \in RouteIndex :
        stage0.at[t] \in {[prefix |-> prefix, len |-> len, hop |-> h] : h \in Hops}}

WithdrawnIsGone ==
    [][\A p \in Prefixes :
          (\E i \in Holding(p[1], p[2]) : i \notin Holding(p[1], p[2])') =>
              /\ Holding(p[1], p[2])' = {}
              /\ RulesFor(p[1], p[2])' \subseteq stage0'.lost]_route_vars
=============================================================================
