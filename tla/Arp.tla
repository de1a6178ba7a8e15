-------------------------------- MODULE Arp --------------------------------
(***************************************************************************)
(* The neighbour table of the firmware (sw/firmware/arp.c) together with   *)
(* the forwarding database it feeds: main's loop with ARP packets, the     *)
(* CLI's arp commands and the task of every second, which ages both        *)
(* tables.                                                                 *)
(*                                                                         *)
(* The table is open-addressed.  arp_find walks it from the hash of the    *)
(* address, over free slots; with find_free it stops at the first free     *)
(* slot.  arp_age walks all slots and, while it does so, calls arp_probe,  *)
(* which may fill one.                                                     *)
(*                                                                         *)
(* A request is counted when it is handed to the punt ring; the firmware   *)
(* does not look at the result.  VLAN tags are left out: no decision       *)
(* depends on them.                                                        *)
(***************************************************************************)
EXTENDS Integers, FiniteSetsExt

CONSTANTS
    Macs, Ports, TableSize, Tids, TidOf, AgeDynamic, TimeMod, GwMac, GwPort,
    Static1Port, Static2Mac, Static2Port, HalApplies, NoEntry, NoRule,  \* as in Fdb
    Ips,          \* the IP addresses in use
    GwIp,         \* the address of the gateway
    ArpSize,      \* ARP_TABLE_SIZE
    Hash,         \* arp_hash: the slot where the walk for an address starts
    IntfPorts,    \* the ports with a valid l3_intf
    AgeMax,       \* ARP_AGE_MAX, in seconds
    ProbeTtl,     \* ARP_INCOMPLETE_TTL, in seconds
    RetryMax,     \* ARP_PROBE_RETRY_MAX
    NoMac,        \* the address of a neighbour that has not answered
    FreeSlot      \* a slot in ARP_STATE_FREE

VARIABLES
    fdb_table, rules, lost, sec_tick, boot,   \* as in Fdb
    arp_table,   \* the neighbour table
    asked,       \* history: requests arp_age has sent for the entry of a slot
    quiet        \* no packet and no command comes any more

F == INSTANCE Fdb

forwarding == <<fdb_table, rules, lost, sec_tick, boot>>
neighbours == <<arp_table, asked, quiet>>
vars       == <<forwarding, neighbours>>

ArpSlot   == 0 .. ArpSize - 1
Neighbour ==
    [ip : Ips, mac : Macs \cup {NoMac}, port : Ports, age_ticks : F!Time,
     retry : 0 .. RetryMax, state : {"INCOMPLETE", "REACHABLE", "STALE"}]

ASSUME ArpAssumption ==
    /\ ArpSize \in Nat \ {0}
    /\ Hash \in [Ips -> ArpSlot]
    /\ GwIp \in Ips /\ IntfPorts \subseteq Ports
    /\ AgeMax \in Nat \ {0} /\ ProbeTtl \in Nat \ {0} /\ RetryMax \in Nat \ {0}
    /\ AgeMax + ProbeTtl < TimeMod
    /\ NoMac \notin Macs /\ FreeSlot \notin Neighbour

(* Those of Fdb, of the same constants.                                    *)
ASSUME FdbAssumption ==
    /\ TableSize \in Nat /\ TableSize >= 2
    /\ AgeDynamic \in Nat \ {0}
    /\ TimeMod \in Nat /\ TimeMod > AgeDynamic
    /\ TidOf \in [Macs -> Tids]
    /\ {GwMac, Static2Mac} \subseteq Macs
    /\ {GwPort, Static1Port, Static2Port} \subseteq Ports
    /\ TRUE \in HalApplies /\ HalApplies \subseteq BOOLEAN
    /\ NoEntry \notin F!Entry /\ NoRule \notin F!Rule

TypeOK ==
    /\ F!TypeOK
    /\ arp_table \in [ArpSlot -> Neighbour \cup {FreeSlot}]
    /\ asked \in [ArpSlot -> 0 .. RetryMax]
    /\ quiet \in BOOLEAN

-----------------------------------------------------------------------------
(* The walk.  A lookup returns the set of the slot found, or no slot.      *)

Walk(ip, k) == (Hash[ip] + k) % ArpSize

First(ip, S) ==
    LET steps == {k \in ArpSlot : Walk(ip, k) \in S}
    IN  IF steps = {} THEN {} ELSE {Walk(ip, Min(steps))}

Occupied(tab)   == {i \in ArpSlot : tab[i] # FreeSlot}
Holding(tab, ip) == {i \in Occupied(tab) : tab[i].ip = ip}

arp_find(tab, ip)      == First(ip, Holding(tab, ip))
arp_find_free(tab, ip) == First(ip, Holding(tab, ip) \cup (ArpSlot \ Occupied(tab)))

arp_lookup(tab, ip) ==
    {<<tab[i].mac, tab[i].port>> :
        i \in {j \in arp_find(tab, ip) : tab[j].state = "REACHABLE"}}

-----------------------------------------------------------------------------
(* arp_add, whose caller goes on in the FDB whatever fdb_learn returns.    *)

Reachable(ip, m, p) ==
    [ip |-> ip, mac |-> m, port |-> p, age_ticks |-> 0,
     retry |-> RetryMax, state |-> "REACHABLE"]

(* Mutant: a free slot of the walk is taken although ip is known.          *)
MutSlotFor(ip) ==
    IF Occupied(arp_table) # ArpSlot THEN First(ip, ArpSlot \ Occupied(arp_table))
                                     ELSE arp_find(arp_table, ip)

(* The known slot of ip, or else a free one.                               *)
SlotFor(ip) ==
    IF arp_find(arp_table, ip) # {} THEN arp_find(arp_table, ip)
                                    ELSE arp_find_free(arp_table, ip)

(* Mutant: a known neighbour keeps the retries it has left.                *)
Mut_arp_add(ip, m, p) ==
    \E i \in SlotFor(ip) :
        /\ arp_table' = [arp_table EXCEPT ![i] =
              IF @ = FreeSlot THEN Reachable(ip, m, p)
                              ELSE [Reachable(ip, m, p) EXCEPT !.retry = arp_table[i].retry]]
        /\ asked' = [asked EXCEPT ![i] = 0]

arp_add(ip, m, p) ==
    \E i \in SlotFor(ip) :
        /\ arp_table' = [arp_table EXCEPT ![i] = Reachable(ip, m, p)]
        /\ asked' = [asked EXCEPT ![i] = 0]

FdbFull(m) == F!fdb_find(m) = {} /\ F!fdb_free = {}

-----------------------------------------------------------------------------
(* Probing and ageing work on a table passed from slot to slot.            *)

(* Mutant: the first request is counted on top of the retries.             *)
MutIncomplete(ip, p) ==
    [ip |-> ip, mac |-> NoMac, port |-> p, age_ticks |-> 0,
     retry |-> RetryMax + 1, state |-> "INCOMPLETE"]

Incomplete(ip, p) ==
    [ip |-> ip, mac |-> NoMac, port |-> p, age_ticks |-> 0,
     retry |-> RetryMax, state |-> "INCOMPLETE"]

(* arp_probe enters the address in the slot of the walk, if that is free.  *)
arp_probe(tab, ip, p) ==
    [i \in ArpSlot |->
        IF p \in IntfPorts /\ i \in arp_find_free(tab, ip) /\ tab[i] = FreeSlot
        THEN Incomplete(ip, p) ELSE tab[i]]

Due(e, now) ==
    (now - e.age_ticks) % TimeMod >=
        CASE e.state = "INCOMPLETE" -> ProbeTtl
          [] e.state = "REACHABLE"  -> AgeMax
          [] e.state = "STALE"      -> AgeMax + ProbeTtl

(* Mutant: an unanswered neighbour is asked again without end.             *)
MutRetry(e, now) == [e EXCEPT !.age_ticks = now, !.state = "INCOMPLETE"]

Retry(e, now) == [e EXCEPT !.retry = @ - 1, !.age_ticks = now, !.state = "INCOMPLETE"]

(* One slot of arp_age.  STALE with no retry left goes through arp_delete, *)
(* which clears the first slot of the address.                             *)
AgeSlot(tab, i, now) ==
    LET e == tab[i]
    IN  IF i \notin Occupied(tab) \/ ~Due(e, now) THEN tab
        ELSE IF e.state = "REACHABLE" THEN [tab EXCEPT ![i].state = "STALE"]
        ELSE IF e.retry > 0 THEN arp_probe([tab EXCEPT ![i] = Retry(e, now)], e.ip, e.port)
        ELSE IF e.state = "INCOMPLETE" THEN [tab EXCEPT ![i] = FreeSlot]
        ELSE [j \in ArpSlot |-> IF j \in arp_find(tab, e.ip) THEN FreeSlot ELSE tab[j]]

Pass(tab, now) ==
    LET upto[n \in 0 .. ArpSize] ==
            IF n = 0 THEN tab ELSE AgeSlot(upto[n - 1], n - 1, now)
    IN  upto

(* A request leaves for every slot that spends a retry on a port with an   *)
(* interface.                                                              *)
arp_age(now) ==
    LET upto == Pass(arp_table, now)
        Asks(i) == LET tab == upto[i]
                   IN  /\ i \in Occupied(tab) /\ Due(tab[i], now)
                       /\ tab[i].state # "REACHABLE" /\ tab[i].retry > 0
                       /\ tab[i].port \in IntfPorts
    IN  /\ arp_table' = upto[ArpSize]
        /\ asked' = [i \in ArpSlot |->
              IF Asks(i) THEN Min({asked[i] + 1, RetryMax})
              ELSE IF arp_table'[i] = FreeSlot \/ arp_table[i] = FreeSlot THEN 0
              ELSE asked[i]]

-----------------------------------------------------------------------------
(* main.                                                                   *)

Init ==
    /\ F!Init
    /\ arp_table = [i \in ArpSlot |-> FreeSlot]
    /\ asked = [i \in ArpSlot |-> 0]
    /\ quiet = FALSE

BootArpAdd(applied) ==
    /\ F!BootArpAdd(applied)
    /\ arp_add(GwIp, GwMac, GwPort)
    /\ UNCHANGED quiet

BootRest(applied) ==
    /\ F!BootFdbInit \/ F!BootStatic1(applied) \/ F!BootStatic2(applied)
    /\ UNCHANGED neighbours

Command == boot = "loop" /\ ~quiet /\ UNCHANGED quiet

(* arp_add, from an ARP packet or the CLI.                                 *)
Add(ip, m, p, applied) ==
    /\ Command
    /\ arp_add(ip, m, p)
    /\ \/ F!Learn(m, p, applied)
       \/ FdbFull(m) /\ UNCHANGED forwarding

(* arp_delete, from the CLI.  The FDB is left alone.                       *)
Delete(ip) ==
    /\ Command
    /\ \E i \in arp_find(arp_table, ip) :
          /\ arp_table' = [arp_table EXCEPT ![i] = FreeSlot]
          /\ asked' = [asked EXCEPT ![i] = 0]
    /\ UNCHANGED forwarding

(* arp_probe, from the CLI.                                                *)
Probe(ip, p) ==
    /\ Command
    /\ arp_table' = arp_probe(arp_table, ip, p)
    /\ UNCHANGED <<asked, forwarding>>

(* Mutant: fdb_age is called with the second before.                       *)
MutSecond(failed) ==
    /\ boot = "loop" /\ sec_tick' = (sec_tick + 1) % TimeMod
    /\ arp_age(sec_tick')
    /\ F!fdb_age(sec_tick, failed)
    /\ UNCHANGED <<boot, quiet>>

Second(failed) ==
    /\ F!Second(failed)
    /\ arp_age(sec_tick')
    /\ UNCHANGED quiet

Quiet == boot = "loop" /\ ~quiet /\ quiet' = TRUE /\ UNCHANGED <<arp_table, asked, forwarding>>

Boot == \E applied \in HalApplies : BootArpAdd(applied) \/ BootRest(applied)

Call ==
    \E ip \in Ips :
        \/ Delete(ip)
        \/ \E p \in Ports :
              \/ Probe(ip, p)
              \/ \E m \in Macs, applied \in HalApplies : Add(ip, m, p, applied)

Tick == \E failed \in SUBSET F!Slot : (FALSE \in HalApplies \/ failed = {}) /\ Second(failed)

Next == Boot \/ Call \/ Tick \/ Quiet

Spec == Init /\ [][Next]_vars

(* main gets through its boot sequence and its loop never stops, the loops *)
(* inside it ending as Fdb says.  Only Tick moves the clock, and it can    *)
(* whenever main is in its loop.                                           *)
ClockStep == boot = "loop" /\ sec_tick' = (sec_tick + 1) % TimeMod

FairSpec == Spec /\ WF_vars(Boot) /\ WF_sec_tick(ClockStep)

-----------------------------------------------------------------------------
(* Properties.                                                             *)

(* The FDB, driven by ARP, is the Fdb of its own module: no neighbour      *)
(* event touches it but through the calls modelled there.                  *)
FdbSpec == F!Spec

(* Once nobody speaks and nobody asks, every neighbour is forgotten in the *)
(* end: probing what one ages, over a wrapping clock and into the table    *)
(* being walked, does not keep entries alive.                              *)
QuietForgets == quiet ~> (Occupied(arp_table) = {})

(* Ageing drops a neighbour only when it has been asked ARP_PROBE_RETRY_MAX *)
(* times since it last spoke, if its port has an interface to ask from.    *)
AskedBeforeForgotten ==
    [][sec_tick' # sec_tick =>
         \A i \in Occupied(arp_table) :
            /\ arp_table'[i] = FreeSlot
            /\ arp_table[i].port \in IntfPorts
            => asked[i] = RetryMax]_vars

(* What arp_add has just recorded of a neighbour is what a lookup finds,   *)
(* although the walk may pass free slots and a second entry of the address. *)
HeardIsFound ==
    [][\A i \in Occupied(arp_table') :
         LET e == arp_table'[i]
         IN  e # arp_table[i] /\ e.state = "REACHABLE" =>
                arp_lookup(arp_table', e.ip) = {<<e.mac, e.port>>}]_vars
=============================================================================
