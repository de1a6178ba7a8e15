------------------------------ MODULE ArpProof ------------------------------
(***************************************************************************)
(* The neighbour table's theorems.  What is proved of the forwarding       *)
(* database in FdbProof holds of the one that ARP feeds, because every     *)
(* step of Arp is one of Fdb or leaves it alone.                           *)
(***************************************************************************)
EXTENDS Arp, WellFoundedInduction, TLAPS

FP == INSTANCE FdbProof

-----------------------------------------------------------------------------
(* The forwarding database under ARP.                                      *)

(* Every event of Arp is an event of Fdb, or does not touch the database.  *)
LEMMA StepImplements == [Next]_vars => [F!Next]_(F!vars)
<1>1. ASSUME Boot PROVE F!Next
  <2>1. PICK applied \in HalApplies : BootArpAdd(applied) \/ BootRest(applied)
    BY <1>1 DEF Boot
  <2> QED
    BY <2>1 DEF BootArpAdd, BootRest, F!Next, F!Boot
<1>2. ASSUME Call PROVE F!Next \/ UNCHANGED F!vars
  <2>1. PICK ip \in Ips :
            \/ Delete(ip)
            \/ \E p \in Ports :
                  \/ Probe(ip, p)
                  \/ \E m \in Macs, applied \in HalApplies : Add(ip, m, p, applied)
    BY <1>2 DEF Call
  <2>2. CASE Delete(ip) \/ \E p \in Ports : Probe(ip, p)
    BY <2>2 DEF Delete, Probe, forwarding, F!vars
  <2>3. ASSUME NEW p \in Ports, NEW m \in Macs, NEW applied \in HalApplies,
               Add(ip, m, p, applied)
        PROVE  F!Next \/ UNCHANGED F!vars
    BY <2>3 DEF Add, forwarding, F!vars, F!Next, F!Call
  <2> QED
    BY <2>1, <2>2, <2>3
<1>3. ASSUME Tick PROVE F!Next
    BY <1>3 DEF Tick, Second, F!Next, F!Tick
<1>4. ASSUME Quiet \/ UNCHANGED vars PROVE UNCHANGED F!vars
    BY <1>4 DEF Quiet, vars, forwarding, F!vars
<1> QED
    BY <1>1, <1>2, <1>3, <1>4 DEF Next

(* FdbSpec: fdb.c, driven by arp.c, the CLI and the task of every second,  *)
(* does nothing that the model of fdb.c alone does not.                    *)
THEOREM ImplementsFdb == Spec => FdbSpec
<1>1. Init => F!Init
    BY DEF Init
<1> QED
    BY <1>1, StepImplements, PTL DEF Spec, FdbSpec, F!Spec

(* The names of Fdb and those of the theorems about it are the same ones.  *)
LEMMA SameFdb ==
    /\ F!Init => FP!Init
    /\ [F!Next]_(F!vars) => [FP!Next]_(FP!vars)
    /\ FP!IInv => F!IInv
    /\ FP!UnsharedInstalled => F!UnsharedInstalled
<1>1. /\ F!Slot = FP!Slot /\ F!Time = FP!Time /\ F!Entry = FP!Entry /\ F!Rule = FP!Rule
      /\ F!BootStep = FP!BootStep /\ F!Valid = FP!Valid
    BY DEF F!Slot, FP!Slot, F!Time, FP!Time, F!Entry, FP!Entry, F!Rule, FP!Rule,
        F!BootStep, FP!BootStep, F!Valid, FP!Valid
<1>2. F!Init => FP!Init
    BY <1>1 DEF F!Init, FP!Init
<1>3. /\ F!fdb_free = FP!fdb_free /\ \A m : F!fdb_find(m) = FP!fdb_find(m)
      /\ \A S : F!Min(S) = FP!Min(S)
    BY <1>1 DEF F!fdb_free, FP!fdb_free, F!fdb_find, FP!fdb_find, F!Min, FP!Min
<1>4. \A m, p, s : F!NewEntry(m, p, s) = FP!NewEntry(m, p, s)
    BY DEF F!NewEntry, FP!NewEntry
<1>5. \A m, p, a : F!fdb_install_tcam(m, p, a) => FP!fdb_install_tcam(m, p, a)
    BY DEF F!fdb_install_tcam, FP!fdb_install_tcam
<1>6. \A x, y : F!Revoke(x, y) => FP!Revoke(x, y)
    BY DEF F!Revoke, FP!Revoke
<1>7. \A m, p, a : F!fdb_learn(m, p, a) => FP!fdb_learn(m, p, a)
    BY <1>3, <1>4, <1>5 DEF F!fdb_learn, FP!fdb_learn, F!Refresh, FP!Refresh
<1>8. \A m, p, a : F!fdb_add_static(m, p, a) => FP!fdb_add_static(m, p, a)
    BY <1>3, <1>4, <1>5 DEF F!fdb_add_static, FP!fdb_add_static
<1>9. \A m, a : F!fdb_delete(m, a) => FP!fdb_delete(m, a)
    BY <1>3, <1>6 DEF F!fdb_delete, FP!fdb_delete
<1>10. \A now, failed : F!fdb_age(now, failed) => FP!fdb_age(now, failed)
  <2>1. \A now : F!Expired(now) = FP!Expired(now)
    BY <1>1 DEF F!Expired, FP!Expired
  <2> QED
    BY <1>1, <1>6, <2>1 DEF F!fdb_age, FP!fdb_age
<1>11. F!Boot => FP!Boot
    BY <1>1, <1>7, <1>8 DEF F!Boot, FP!Boot, F!BootArpAdd, FP!BootArpAdd, F!BootFdbInit,
        FP!BootFdbInit, F!BootStatic1, FP!BootStatic1, F!BootStatic2, FP!BootStatic2,
        F!fdb_init, FP!fdb_init
<1>12. F!Call => FP!Call
    BY <1>7, <1>8, <1>9 DEF F!Call, FP!Call, F!Delete, FP!Delete, F!Learn, FP!Learn,
        F!AddStatic, FP!AddStatic
<1>13. F!Tick => FP!Tick
    BY <1>1, <1>10 DEF F!Tick, FP!Tick, F!Second, FP!Second
<1>14. F!vars = FP!vars /\ (UNCHANGED F!vars => UNCHANGED FP!vars)
    BY DEF F!vars, FP!vars
<1>15. [F!Next]_(F!vars) => [FP!Next]_(FP!vars)
    BY <1>11, <1>12, <1>13, <1>14 DEF F!Next, FP!Next
<1>16. \A t : F!Backed(t) <=> FP!Backed(t)
    BY <1>1 DEF F!Backed, FP!Backed
<1>17. FP!IInv => F!IInv
    BY <1>1, <1>16 DEF F!IInv, FP!IInv, F!TypeOK, FP!TypeOK, F!OneEntryPerMac,
        FP!OneEntryPerMac, F!RuleAtHome, FP!RuleAtHome, F!BootInv, FP!BootInv,
        F!OnlyGateway, FP!OnlyGateway
<1>18. FP!UnsharedInstalled => F!UnsharedInstalled
    BY <1>1 DEF F!UnsharedInstalled, FP!UnsharedInstalled, F!Unshared, FP!Unshared
<1> QED
    BY <1>2, <1>15, <1>17, <1>18

(* Whatever packets ARP hears and the CLI is told, the database keeps what *)
(* FdbProof shows of it: one entry for an address, no rule for an address  *)
(* that was forgotten, and the rule of an unshared address installed.      *)
THEOREM ForwardingHolds ==
    Spec => [](F!TypeOK /\ F!OneEntryPerMac /\ F!NoOrphanRule /\ F!UnsharedInstalled)
<1>1. FP!Spec => []FP!IInv
    BY FP!InductiveInvariant, FdbAssumption
        DEF F!Entry, F!Time, F!Rule, FP!Entry, FP!Time, FP!Rule
<1>2. FP!Spec => []FP!UnsharedInstalled
    BY FP!UnsharedRules, FdbAssumption
        DEF F!Entry, F!Time, F!Rule, FP!Entry, FP!Time, FP!Rule
<1>3. F!IInv => F!TypeOK /\ F!OneEntryPerMac /\ F!NoOrphanRule
    BY DEF F!IInv, F!BootInv, F!NoOrphanRule
<1>4. FdbSpec => FP!Spec
    BY SameFdb, PTL DEF FdbSpec, F!Spec, FP!Spec
<1> QED
    BY ImplementsFdb, <1>1, <1>2, <1>3, <1>4, SameFdb, PTL

-----------------------------------------------------------------------------
(* The walk.                                                               *)

(* A nonempty set of natural numbers has a least one, which Min returns.   *)
LEMMA MinOfNaturals ==
    ASSUME NEW S \in SUBSET Nat, S # {}
    PROVE  Min(S) \in S /\ \A y \in S : Min(S) =< y
<1> DEFINE Less == {p \in Nat \X Nat : p[1] < p[2]}
<1>1. IsWellFoundedOn(Less, Nat)
    BY NatLessThanWellFounded DEF OpToRel
<1>2. \E x \in S : \A y \in S : ~ (<<y, x>> \in Less)
    BY <1>1, WFMin, Zenon
<1>3. PICK x \in S : \A y \in S : ~ (<<y, x>> \in Less)
    BY <1>2
<1>4. \A y \in S : x =< y
  <2> SUFFICES ASSUME NEW y \in S PROVE x =< y
    OBVIOUS
  <2>1. ~ (y < x)
    BY <1>3
  <2> QED
    BY <2>1
<1> HIDE DEF Less
<1> QED
    BY <1>4 DEF Min

Table == [ArpSlot -> Neighbour \cup {FreeSlot}]

(* A walk ends at a slot it looks for, or finds none.                      *)
LEMMA FirstFacts ==
    ASSUME NEW ip, NEW S
    PROVE  \/ /\ First(ip, S) = {}
              /\ \A k \in ArpSlot : Walk(ip, k) \notin S
           \/ \E k \in ArpSlot : Walk(ip, k) \in S /\ First(ip, S) = {Walk(ip, k)}
<1> DEFINE steps == {k \in ArpSlot : Walk(ip, k) \in S}
<1>1. CASE steps = {}
    BY <1>1 DEF First
<1>2. CASE steps # {}
  <2>1. steps \in SUBSET Nat
    BY ArpAssumption DEF ArpSlot
  <2>2. First(ip, S) = {Walk(ip, Min(steps))}
    BY <1>2 DEF First
  <2>3. Min(steps) \in steps
    <3> HIDE DEF steps
    <3> QED
      BY <1>2, <2>1, MinOfNaturals
  <2> QED
    BY <2>2, <2>3
<1> QED
    BY <1>1, <1>2

(* Two walks from one address that meet the same of what they look for end *)
(* at the same slot.                                                       *)
LEMMA SameFirst ==
    ASSUME NEW ip, NEW S, NEW T, \A k \in ArpSlot : Walk(ip, k) \in S <=> Walk(ip, k) \in T
    PROVE  First(ip, S) = First(ip, T)
<1>1. {k \in ArpSlot : Walk(ip, k) \in S} = {k \in ArpSlot : Walk(ip, k) \in T}
    OBVIOUS
<1> QED
    BY <1>1 DEF First

(* What arp_find and the search for a free slot return.                    *)
LEMMA FindResults ==
    ASSUME NEW tab \in Table, NEW ip
    PROVE  /\ \A i \in arp_find(tab, ip) :
                 i \in ArpSlot /\ tab[i] # FreeSlot /\ tab[i].ip = ip
           /\ \A i \in arp_find_free(tab, ip) :
                 i \in ArpSlot /\ (tab[i] = FreeSlot \/ tab[i].ip = ip)
           /\ \A i, j \in arp_find_free(tab, ip) : i = j
<1>1. \A i \in Holding(tab, ip) : i \in ArpSlot /\ tab[i] # FreeSlot /\ tab[i].ip = ip
    BY DEF Holding, Occupied
<1>2. \A i \in ArpSlot \ Occupied(tab) : i \in ArpSlot /\ tab[i] = FreeSlot
    BY DEF Occupied
<1>3. arp_find(tab, ip) \subseteq Holding(tab, ip)
    BY FirstFacts DEF arp_find
<1>4. arp_find_free(tab, ip) \subseteq Holding(tab, ip) \cup (ArpSlot \ Occupied(tab))
    BY FirstFacts DEF arp_find_free
<1>5. \A i, j \in arp_find_free(tab, ip) : i = j
    BY FirstFacts DEF arp_find_free
<1> QED
    BY <1>1, <1>2, <1>3, <1>4, <1>5

LEMMA EntryTypes ==
    ASSUME NEW ip \in Ips, NEW p \in Ports
    PROVE  /\ Incomplete(ip, p) \in Neighbour /\ Incomplete(ip, p) # FreeSlot
           /\ \A m \in Macs : Reachable(ip, m, p) \in Neighbour /\ Reachable(ip, m, p) # FreeSlot
<1>1. 0 \in F!Time /\ RetryMax \in 0 .. RetryMax
    BY ArpAssumption, FdbAssumption DEF F!Time
<1>2. Incomplete(ip, p) \in Neighbour
    BY <1>1 DEF Incomplete, Neighbour
<1>3. \A m \in Macs : Reachable(ip, m, p) \in Neighbour
    BY <1>1 DEF Reachable, Neighbour
<1> QED
    BY <1>2, <1>3, ArpAssumption

(* What arp_add records is what a lookup then finds: the slot it takes is  *)
(* the first that holds the address, or the only one.                      *)
LEMMA RecordIsFound ==
    ASSUME NEW tab \in Table, NEW ip \in Ips, NEW m \in Macs, NEW p \in Ports, NEW i,
           i \in IF arp_find(tab, ip) # {} THEN arp_find(tab, ip) ELSE arp_find_free(tab, ip)
    PROVE  /\ i \in ArpSlot
           /\ arp_lookup([tab EXCEPT ![i] = Reachable(ip, m, p)], ip) = {<<m, p>>}
<1> DEFINE e   == Reachable(ip, m, p)
           new == [tab EXCEPT ![i] = e]
<1>1. i \in ArpSlot
    BY FindResults
<1>2. e # FreeSlot /\ e.ip = ip /\ e.mac = m /\ e.port = p /\ e.state = "REACHABLE"
    BY EntryTypes DEF Reachable
<1>3. new[i] = e /\ \A j \in ArpSlot : j # i => new[j] = tab[j]
    BY <1>1 DEF Table
<1> HIDE DEF e, new
<1>4. Holding(new, ip) = Holding(tab, ip) \cup {i}
    BY <1>1, <1>2, <1>3 DEF Holding, Occupied
<1>5. arp_find(new, ip) = {i}
  <2>1. CASE arp_find(tab, ip) # {}
    <3>1. i \in arp_find(tab, ip)
      BY <2>1
    <3>2. i \in Holding(tab, ip) /\ arp_find(tab, ip) = {i}
      BY <3>1, FirstFacts DEF arp_find
    <3>3. Holding(new, ip) = Holding(tab, ip)
      BY <1>4, <3>2
    <3> QED
      BY <3>2, <3>3 DEF arp_find
  <2>2. CASE arp_find(tab, ip) = {}
    <3>1. \A k \in ArpSlot : Walk(ip, k) \notin Holding(tab, ip)
      BY <2>2, FirstFacts DEF arp_find
    <3>2. \E k \in ArpSlot : Walk(ip, k) = i
      <4>1. i \in First(ip, Holding(tab, ip) \cup (ArpSlot \ Occupied(tab)))
        BY <2>2 DEF arp_find_free
      <4> QED
        BY <4>1, FirstFacts
    <3>3. \A k \in ArpSlot : Walk(ip, k) \in Holding(new, ip) <=> Walk(ip, k) \in {i}
      BY <1>4, <3>1
    <3>4. arp_find(new, ip) = First(ip, {i})
      BY <3>3, SameFirst DEF arp_find
    <3> QED
      BY <3>2, <3>4, FirstFacts
  <2> QED
    BY <2>1, <2>2
<1>6. arp_lookup(new, ip) = {<<m, p>>}
    BY <1>2, <1>3, <1>5 DEF arp_lookup
<1> QED
    BY <1>1, <1>6 DEF new, e

(* The same of the table that arp_add leaves, and what it leaves alone.    *)
LEMMA AddKeeps ==
    ASSUME arp_table \in Table, NEW ip \in Ips, NEW m \in Macs, NEW p \in Ports,
           arp_add(ip, m, p)
    PROVE  \E i \in ArpSlot :
              /\ arp_table' = [arp_table EXCEPT ![i] = Reachable(ip, m, p)]
              /\ asked' = [asked EXCEPT ![i] = 0]
              /\ arp_lookup(arp_table', ip) = {<<m, p>>}
<1>1. PICK i \in SlotFor(ip) : /\ arp_table' = [arp_table EXCEPT ![i] = Reachable(ip, m, p)]
                               /\ asked' = [asked EXCEPT ![i] = 0]
    BY DEF arp_add
<1>2. /\ i \in ArpSlot
      /\ arp_lookup([arp_table EXCEPT ![i] = Reachable(ip, m, p)], ip) = {<<m, p>>}
    BY RecordIsFound DEF SlotFor
<1> QED
    BY <1>1, <1>2

-----------------------------------------------------------------------------
(* Ageing.                                                                 *)

(* An entry that is not being asked has all its retries: arp_age never     *)
(* comes to the arp_delete of a STALE neighbour, which might clear another *)
(* slot than its own.                                                      *)
AllRetries(tab) ==
    \A i \in Occupied(tab) : tab[i].state # "INCOMPLETE" => tab[i].retry = RetryMax

(* What an event at another slot may do to a slot: a free one it may fill. *)
Fresh(e) == \E ip \in Ips, p \in Ports : e = Incomplete(ip, p)

Undisturbed(e, f) ==
    \/ f = e
    \/ e = FreeSlot /\ Fresh(f)

(* What its own turn does to a slot.                                       *)
Turn(e, f, now) ==
    \/ f = e /\ (e = FreeSlot \/ ~Due(e, now))
    \/ e # FreeSlot /\ Due(e, now) /\ e.state = "REACHABLE" /\ f = [e EXCEPT !.state = "STALE"]
    \/ e # FreeSlot /\ Due(e, now) /\ e.state # "REACHABLE" /\ e.retry > 0 /\ f = Retry(e, now)
    \/ e # FreeSlot /\ Due(e, now) /\ e.state = "INCOMPLETE" /\ e.retry = 0 /\ f = FreeSlot

LEMMA FreshFacts ==
    ASSUME NEW e, Fresh(e)
    PROVE  e \in Neighbour /\ e # FreeSlot /\ e.state = "INCOMPLETE" /\ e.retry = RetryMax
<1>1. PICK ip \in Ips, p \in Ports : e = Incomplete(ip, p)
    BY DEF Fresh
<1>2. e \in Neighbour /\ e # FreeSlot
    BY <1>1, EntryTypes
<1>3. e.state = "INCOMPLETE" /\ e.retry = RetryMax
    BY <1>1 DEF Incomplete
<1> QED
    BY <1>2, <1>3

LEMMA UndisturbedTwice ==
    ASSUME NEW e, NEW f, NEW g, Undisturbed(e, f), Undisturbed(f, g)
    PROVE  Undisturbed(e, g)
    BY FreshFacts DEF Undisturbed

(* arp_probe fills one free slot, or none.                                 *)
LEMMA ProbeKeeps ==
    ASSUME NEW tab \in Table, NEW ip \in Ips, NEW p \in Ports
    PROVE  /\ arp_probe(tab, ip, p) \in Table
           /\ \A i \in ArpSlot : Undisturbed(tab[i], arp_probe(tab, ip, p)[i])
<1> DEFINE new == arp_probe(tab, ip, p)
<1>1. \A i \in ArpSlot : \/ new[i] = tab[i]
                         \/ tab[i] = FreeSlot /\ new[i] = Incomplete(ip, p)
    BY DEF arp_probe
<1>2. new = [i \in ArpSlot |-> new[i]]
    BY DEF arp_probe
<1> HIDE DEF new
<1>3. new \in Table
    BY <1>1, <1>2, EntryTypes DEF Table
<1>4. \A i \in ArpSlot : Undisturbed(tab[i], new[i])
    BY <1>1 DEF Undisturbed, Fresh
<1> QED
    BY <1>3, <1>4 DEF new

LEMMA RetriesKept ==
    ASSUME NEW tab, NEW new, AllRetries(tab),
           \A i \in ArpSlot : Undisturbed(tab[i], new[i])
    PROVE  AllRetries(new)
<1> SUFFICES ASSUME NEW i \in ArpSlot, new[i] # FreeSlot, new[i].state # "INCOMPLETE"
             PROVE  new[i].retry = RetryMax
    BY DEF AllRetries, Occupied
<1>1. new[i] = tab[i]
    BY FreshFacts DEF Undisturbed
<1> QED
    BY <1>1 DEF AllRetries, Occupied

LEMMA RetryFacts ==
    ASSUME NEW e \in Neighbour, NEW now \in F!Time, e.retry > 0
    PROVE  /\ Retry(e, now) \in Neighbour
           /\ Retry(e, now).state = "INCOMPLETE" /\ Retry(e, now).port = e.port
           /\ Retry(e, now).retry = e.retry - 1
<1>1. e.retry - 1 \in 0 .. RetryMax
    BY ArpAssumption DEF Neighbour
<1>2. Retry(e, now) \in Neighbour
    BY <1>1 DEF Neighbour, Retry
<1>3. Retry(e, now).state = "INCOMPLETE" /\ Retry(e, now).port = e.port
    BY <1>1 DEF Neighbour, Retry
<1>4. Retry(e, now).retry = e.retry - 1
    BY <1>1 DEF Neighbour, Retry
<1> QED
    BY <1>2, <1>3, <1>4

(* The turn of slot i.                                                     *)
LEMMA TurnKeeps ==
    ASSUME NEW tab \in Table, AllRetries(tab), NEW i \in ArpSlot, NEW now \in F!Time
    PROVE  /\ AgeSlot(tab, i, now) \in Table
           /\ AllRetries(AgeSlot(tab, i, now))
           /\ \A j \in ArpSlot \ {i} : Undisturbed(tab[j], AgeSlot(tab, i, now)[j])
           /\ Turn(tab[i], AgeSlot(tab, i, now)[i], now)
<1> DEFINE e   == tab[i]
           new == AgeSlot(tab, i, now)
<1>1. e # FreeSlot => e \in Neighbour
    BY DEF Table
<1>2. CASE e = FreeSlot \/ ~Due(e, now)
  <2>1. new = tab
    BY <1>2 DEF AgeSlot, Occupied
  <2> QED
    BY <1>2, <2>1 DEF Undisturbed, Turn
<1>3. CASE e # FreeSlot /\ Due(e, now) /\ e.state = "REACHABLE"
  <2> DEFINE f == [e EXCEPT !.state = "STALE"]
  <2>1. new = [tab EXCEPT ![i] = f]
    BY <1>3 DEF AgeSlot, Occupied
  <2>2. f \in Neighbour /\ f.retry = e.retry /\ f.state = "STALE"
    BY <1>1, <1>3 DEF Neighbour
  <2>3. e.retry = RetryMax
    BY <1>3 DEF AllRetries, Occupied
  <2> HIDE DEF f
  <2>4. new \in Table /\ new[i] = f /\ \A j \in ArpSlot \ {i} : new[j] = tab[j]
    BY <2>1, <2>2 DEF Table
  <2> HIDE DEF new, e
  <2>5. AllRetries(new)
    BY <2>2, <2>3, <2>4 DEF AllRetries, Occupied
  <2>6. Turn(e, new[i], now)
    BY <1>3, <2>4 DEF Turn, f
  <2> QED
    BY <2>4, <2>5, <2>6 DEF Undisturbed, e, new
<1>4. CASE e # FreeSlot /\ Due(e, now) /\ e.state # "REACHABLE" /\ e.retry > 0
  <2> DEFINE f   == Retry(e, now)
             mid == [tab EXCEPT ![i] = f]
  <2>1. new = arp_probe(mid, e.ip, e.port)
    BY <1>4 DEF AgeSlot, Occupied
  <2>2. f \in Neighbour /\ f.state = "INCOMPLETE" /\ f # FreeSlot
    BY <1>1, <1>4, RetryFacts, ArpAssumption
  <2>3. e.ip \in Ips /\ e.port \in Ports
    BY <1>1, <1>4 DEF Neighbour
  <2> HIDE DEF f
  <2>4. mid \in Table /\ mid[i] = f /\ \A j \in ArpSlot \ {i} : mid[j] = tab[j]
    BY <2>2 DEF Table
  <2> HIDE DEF mid, e, new
  <2>5. AllRetries(mid)
    BY <2>2, <2>4 DEF AllRetries, Occupied
  <2>6. new \in Table /\ \A j \in ArpSlot : Undisturbed(mid[j], new[j])
    BY <2>1, <2>3, <2>4, ProbeKeeps
  <2>7. AllRetries(new)
    BY <2>5, <2>6, RetriesKept
  <2>8. new[i] = f
    BY <2>2, <2>4, <2>6 DEF Undisturbed
  <2>9. Turn(e, new[i], now)
    BY <1>4, <2>8 DEF Turn, f
  <2> QED
    BY <2>4, <2>6, <2>7, <2>9 DEF e, new
<1>5. CASE e # FreeSlot /\ Due(e, now) /\ e.state # "REACHABLE" /\ ~ (e.retry > 0)
  <2>1. e.retry = 0
    BY <1>1, <1>5, ArpAssumption DEF Neighbour
  <2>2. e.state = "INCOMPLETE"
    BY <1>5, <2>1, ArpAssumption DEF AllRetries, Occupied
  <2>3. new = [tab EXCEPT ![i] = FreeSlot]
    BY <1>5, <2>2 DEF AgeSlot, Occupied
  <2>4. new \in Table /\ new[i] = FreeSlot /\ \A j \in ArpSlot \ {i} : new[j] = tab[j]
    BY <2>3 DEF Table
  <2> HIDE DEF new, e
  <2>5. AllRetries(new)
    BY <2>4 DEF AllRetries, Occupied
  <2>6. Turn(e, new[i], now)
    BY <1>5, <2>1, <2>2, <2>4 DEF Turn
  <2> QED
    BY <2>4, <2>5, <2>6 DEF Undisturbed, e, new
<1> QED
    BY <1>2, <1>3, <1>4, <1>5

(* Turns taken elsewhere, one after the other, add up to nothing or to one *)
(* new entry.                                                              *)
LEMMA LeftAlone ==
    ASSUME NEW f, NEW a \in Nat, NEW b \in Nat, a =< b,
           \A n \in Nat : a =< n /\ n < b => Undisturbed(f[n], f[n + 1])
    PROVE  Undisturbed(f[a], f[b])
<1> DEFINE Bad == {n \in Nat : a =< n /\ n =< b /\ ~ Undisturbed(f[a], f[n])}
<1>1. ASSUME Bad # {}
      PROVE  FALSE
  <2>1. PICK m \in Bad : \A y \in Bad : m =< y
    <3>1. Bad \in SUBSET Nat /\ Bad # {}
      BY <1>1
    <3> HIDE DEF Bad
    <3> QED
      BY <3>1, MinOfNaturals
  <2>2. m \in Nat /\ a =< m /\ m =< b /\ ~ Undisturbed(f[a], f[m])
    OBVIOUS
  <2>3. m # a
    BY <2>2 DEF Undisturbed
  <2> DEFINE k == m - 1
  <2>4. k \in Nat /\ a =< k /\ k < b /\ k =< b /\ k + 1 = m /\ ~ (m =< k)
    BY <2>2, <2>3
  <2>5. k \notin Bad
    <3> HIDE DEF Bad, k
    <3> QED
      BY <2>1, <2>4
  <2> HIDE DEF k
  <2>6. Undisturbed(f[a], f[k])
    BY <2>4, <2>5
  <2>7. Undisturbed(f[k], f[m])
    BY <2>4
  <2> QED
    BY <2>2, <2>6, <2>7, UndisturbedTwice
<1>2. b \notin Bad
    BY <1>1
<1> QED
    BY <1>2

(* The tables that arp_age passes from slot to slot: the recursive         *)
(* function of Pass exists, for its first k entries do for every k.        *)
AfterEach(f, tab, now) ==
    f = [n \in 0 .. ArpSize |-> IF n = 0 THEN tab ELSE AgeSlot(f[n - 1], n - 1, now)]

LEMMA PassExists ==
    ASSUME NEW tab, NEW now
    PROVE  \E f : AfterEach(f, tab, now)
<1> DEFINE Run(f, k) ==
              f = [n \in 0 .. k |-> IF n = 0 THEN tab ELSE AgeSlot(f[n - 1], n - 1, now)]
           Bad == {k \in Nat : ~ \E f : Run(f, k)}
<1>1. ASSUME Bad # {}
      PROVE  FALSE
  <2>1. PICK m \in Bad : \A y \in Bad : m =< y
    <3>1. Bad \in SUBSET Nat /\ Bad # {}
      BY <1>1
    <3> HIDE DEF Bad
    <3> QED
      BY <3>1, MinOfNaturals
  <2>2. m \in Nat /\ ~ \E f : Run(f, m)
    OBVIOUS
  <2>3. CASE m = 0
    <3> DEFINE f == [n \in 0 .. m |-> tab]
    <3>1. Run(f, m)
      BY <2>3
    <3> QED
      BY <2>2, <3>1
  <2>4. CASE m # 0
    <3>1. m - 1 \in Nat /\ ~ (m =< m - 1)
      BY <2>2, <2>4
    <3>2. m - 1 \notin Bad
      <4> HIDE DEF Bad
      <4> QED
        BY <2>1, <3>1
    <3>3. PICK g : Run(g, m - 1)
      BY <3>1, <3>2
    <3> DEFINE h == [n \in 0 .. m |-> IF n = 0 THEN tab ELSE AgeSlot(g[n - 1], n - 1, now)]
    <3>4. \A n \in 0 .. m - 1 : h[n] = g[n]
      BY <2>2, <3>3
    <3>5. \A n \in 0 .. m : n # 0 => h[n - 1] = g[n - 1]
      BY <2>2, <3>4
    <3>6. Run(h, m)
      BY <3>5
    <3> QED
      BY <2>2, <3>6
  <2> QED
    BY <2>3, <2>4
<1>2. ArpSize \in Nat
    BY ArpAssumption
<1>3. \E f : Run(f, ArpSize)
    BY <1>1, <1>2
<1> QED
    BY <1>3 DEF AfterEach

(* A pass of arp_age: every slot takes its turn once, and is left alone    *)
(* before and after.                                                       *)
LEMMA PassFacts ==
    ASSUME NEW tab \in Table, AllRetries(tab), NEW now \in F!Time
    PROVE  /\ Pass(tab, now)[ArpSize] \in Table
           /\ AllRetries(Pass(tab, now)[ArpSize])
           /\ \A i \in ArpSlot :
                 /\ Undisturbed(tab[i], Pass(tab, now)[i][i])
                 /\ Turn(Pass(tab, now)[i][i], Pass(tab, now)[i + 1][i], now)
                 /\ Undisturbed(Pass(tab, now)[i + 1][i], Pass(tab, now)[ArpSize][i])
<1> DEFINE upto == CHOOSE f : AfterEach(f, tab, now)
<1>1. AfterEach(upto, tab, now)
  <2>1. \E f : AfterEach(f, tab, now)
    BY PassExists
  <2> QED
    BY <2>1, Zenon
<1>2. Pass(tab, now) = upto
    BY DEF Pass, AfterEach
<1>3. ArpSize \in Nat \ {0}
    BY ArpAssumption
<1> HIDE DEF upto
<1>4. upto[0] = tab /\ \A n \in 1 .. ArpSize : upto[n] = AgeSlot(upto[n - 1], n - 1, now)
    BY <1>1, <1>3 DEF AfterEach
<1>5. \A n \in ArpSlot : n \in Nat /\ n + 1 \in 1 .. ArpSize /\ (n + 1) - 1 = n
    BY <1>3 DEF ArpSlot
<1>6. \A n \in ArpSlot : upto[n + 1] = AgeSlot(upto[n], n, now)
    BY <1>4, <1>5
<1> DEFINE Good(n) == upto[n] \in Table /\ AllRetries(upto[n])
           Bad == {n \in 0 .. ArpSize : ~ Good(n)}
<1>7. ASSUME Bad # {}
      PROVE  FALSE
  <2>1. PICK m \in Bad : \A y \in Bad : m =< y
    <3>1. Bad \in SUBSET Nat /\ Bad # {}
      BY <1>3, <1>7
    <3> HIDE DEF Bad
    <3> QED
      BY <3>1, MinOfNaturals
  <2>2. m \in 0 .. ArpSize /\ ~ Good(m)
    OBVIOUS
  <2>3. m # 0
    BY <1>4, <2>2
  <2> DEFINE k == m - 1
  <2>4. k \in ArpSlot /\ k \in 0 .. ArpSize /\ k + 1 = m /\ ~ (m =< k)
    BY <1>3, <2>2, <2>3 DEF ArpSlot
  <2>5. k \notin Bad
    <3> HIDE DEF Bad, k
    <3> QED
      BY <2>1, <2>4
  <2> HIDE DEF k
  <2>6. upto[k] \in Table /\ AllRetries(upto[k])
    BY <2>4, <2>5
  <2>7. Good(m)
    BY <1>6, <2>4, <2>6, TurnKeeps
  <2> QED
    BY <2>2, <2>7
<1>8. \A n \in 0 .. ArpSize : upto[n] \in Table /\ AllRetries(upto[n])
    BY <1>7
<1>9. ASSUME NEW n \in ArpSlot
      PROVE  /\ \A j \in ArpSlot \ {n} : Undisturbed(upto[n][j], upto[n + 1][j])
             /\ Turn(upto[n][n], upto[n + 1][n], now)
  <2>1. upto[n] \in Table /\ AllRetries(upto[n])
    BY <1>3, <1>8 DEF ArpSlot
  <2> QED
    BY <1>6, <2>1, TurnKeeps
<1>10. ASSUME NEW i \in ArpSlot
       PROVE  /\ Undisturbed(tab[i], upto[i][i])
              /\ Undisturbed(upto[i + 1][i], upto[ArpSize][i])
  <2> DEFINE f == [n \in Nat |-> upto[n][i]]
  <2>1. \A n \in Nat : f[n] = upto[n][i] /\ f[n + 1] = upto[n + 1][i]
    OBVIOUS
  <2>2. /\ i \in Nat /\ i + 1 \in Nat /\ ArpSize \in Nat
        /\ 0 =< i /\ i + 1 =< ArpSize
        /\ \A n \in Nat : 0 =< n /\ n < i => n \in ArpSlot \ {i}
        /\ \A n \in Nat : i + 1 =< n /\ n < ArpSize => n \in ArpSlot \ {i}
    BY <1>3 DEF ArpSlot
  <2> HIDE DEF f
  <2>3. \A n \in Nat : n \in ArpSlot \ {i} => Undisturbed(f[n], f[n + 1])
    BY <1>9, <2>1
  <2>4. Undisturbed(f[0], f[i])
    BY <2>2, <2>3, LeftAlone
  <2>5. Undisturbed(f[i + 1], f[ArpSize])
    BY <2>2, <2>3, LeftAlone
  <2> QED
    BY <1>4, <2>1, <2>2, <2>4, <2>5
<1>11. ArpSize \in 0 .. ArpSize
    BY <1>3
<1> QED
    BY <1>2, <1>8, <1>9, <1>10, <1>11

(* A request is sent for a slot's entry in its turn.                       *)
Sends(e, now) ==
    /\ e # FreeSlot /\ Due(e, now) /\ e.state # "REACHABLE" /\ e.retry > 0
    /\ e.port \in IntfPorts

(* The slot i while arp_age passes: e before, f when its turn comes, g     *)
(* after it, h in the end.                                                 *)
SlotAged(i, e, f, g, h, now) ==
    /\ e = arp_table[i] /\ h = arp_table'[i]
    /\ Undisturbed(e, f) /\ Turn(f, g, now) /\ Undisturbed(g, h)
    /\ asked'[i] = IF Sends(f, now) THEN Min({asked[i] + 1, RetryMax})
                   ELSE IF h = FreeSlot \/ e = FreeSlot THEN 0 ELSE asked[i]

LEMMA AgeFacts ==
    ASSUME arp_table \in Table, AllRetries(arp_table), NEW now \in F!Time, arp_age(now)
    PROVE  /\ arp_table' \in Table /\ AllRetries(arp_table')
           /\ asked' = [i \in ArpSlot |-> asked'[i]]
           /\ \A i \in ArpSlot : \E e, f, g, h : SlotAged(i, e, f, g, h, now)
<1> DEFINE upto == Pass(arp_table, now)
<1>1. arp_table' = upto[ArpSize]
    BY DEF arp_age
<1>2. /\ upto[ArpSize] \in Table /\ AllRetries(upto[ArpSize])
      /\ \A i \in ArpSlot : /\ Undisturbed(arp_table[i], upto[i][i])
                            /\ Turn(upto[i][i], upto[i + 1][i], now)
                            /\ Undisturbed(upto[i + 1][i], upto[ArpSize][i])
    BY PassFacts
<1>3. /\ asked' = [i \in ArpSlot |-> asked'[i]]
      /\ \A i \in ArpSlot :
            asked'[i] = IF Sends(upto[i][i], now) THEN Min({asked[i] + 1, RetryMax})
                        ELSE IF arp_table'[i] = FreeSlot \/ arp_table[i] = FreeSlot THEN 0
                        ELSE asked[i]
    BY DEF arp_age, Sends, Occupied
<1> HIDE DEF upto
<1>4. ASSUME NEW i \in ArpSlot
      PROVE  SlotAged(i, arp_table[i], upto[i][i], upto[i + 1][i], arp_table'[i], now)
    BY <1>1, <1>2, <1>3 DEF SlotAged
<1>5. arp_table' \in Table /\ AllRetries(arp_table')
    BY <1>1, <1>2
<1> QED
    BY <1>3, <1>4, <1>5

LEMMA OneMore ==
    ASSUME NEW a \in 0 .. RetryMax
    PROVE  /\ Min({a + 1, RetryMax}) \in 1 .. RetryMax
           /\ Min({a + 1, RetryMax}) \in {a + 1, RetryMax}
<1> DEFINE S == {a + 1, RetryMax}
<1>1. RetryMax \in Nat \ {0}
    BY ArpAssumption
<1>2. S \in SUBSET Nat /\ S # {}
    BY <1>1
<1> HIDE DEF S
<1>3. Min(S) \in S /\ \A y \in S : Min(S) =< y
    BY <1>2, MinOfNaturals
<1> QED
    BY <1>1, <1>3 DEF S

(* What the four values of a slot can be.                                  *)
LEMMA SlotCases ==
    ASSUME NEW i \in ArpSlot, NEW e, NEW f, NEW g, NEW h, NEW now \in F!Time,
           SlotAged(i, e, f, g, h, now), arp_table \in Table, AllRetries(arp_table)
    PROVE  \/ h = FreeSlot /\ e = FreeSlot
           \/ h = FreeSlot /\ e # FreeSlot /\ e.retry = 0
           \/ Fresh(h)
           \/ h = e /\ e # FreeSlot /\ ~ Sends(f, now)
           \/ /\ e # FreeSlot /\ e \in Neighbour /\ h = [e EXCEPT !.state = "STALE"]
              /\ ~ Sends(f, now)
           \/ /\ f \in Neighbour /\ f.retry > 0 /\ h = Retry(f, now)
              /\ f.port \in IntfPorts => Sends(f, now)
              /\ f = e \/ Fresh(f)
<1>1. e # FreeSlot => e \in Neighbour
    BY DEF SlotAged, Table
<1>2. \/ f = e
      \/ e = FreeSlot /\ Fresh(f)
    BY DEF SlotAged, Undisturbed
<1>3. f # FreeSlot => f \in Neighbour
    BY <1>1, <1>2, FreshFacts
<1>4. Fresh(h) \/ h = g
    BY DEF SlotAged, Undisturbed
<1>5. CASE Fresh(h)
    BY <1>5
<1>6. CASE h = g /\ f = FreeSlot
  <2>1. g = f
    BY <1>6 DEF SlotAged, Turn
  <2> QED
    BY <1>2, <1>6, <2>1, FreshFacts
<1>7. CASE h = g /\ f # FreeSlot
  <2>1. CASE g = f /\ ~ Due(f, now)
    BY <1>2, <1>7, <2>1 DEF Sends
  <2>2. CASE f.state = "REACHABLE" /\ g = [f EXCEPT !.state = "STALE"]
    <3>1. f = e
      BY <1>2, <2>2, FreshFacts
    <3>2. ~ Sends(f, now)
      BY <2>2 DEF Sends
    <3> QED
      BY <1>1, <1>7, <2>2, <3>1, <3>2
  <2>3. CASE Due(f, now) /\ f.state # "REACHABLE" /\ f.retry > 0 /\ g = Retry(f, now)
    BY <1>2, <1>3, <1>7, <2>3 DEF Sends
  <2>4. CASE f.retry = 0 /\ g = FreeSlot
    BY <1>2, <1>7, <2>4
  <2>5. \/ g = f /\ ~ Due(f, now)
        \/ f.state = "REACHABLE" /\ g = [f EXCEPT !.state = "STALE"]
        \/ Due(f, now) /\ f.state # "REACHABLE" /\ f.retry > 0 /\ g = Retry(f, now)
        \/ f.retry = 0 /\ g = FreeSlot
    BY <1>7 DEF SlotAged, Turn
  <2> QED
    BY <2>1, <2>2, <2>3, <2>4, <2>5
<1> QED
    BY <1>4, <1>5, <1>6, <1>7

-----------------------------------------------------------------------------
(* The invariant.                                                          *)

(* The requests sent for an entry and the retries it has left come to      *)
(* ARP_PROBE_RETRY_MAX, if its port has an interface to ask from.          *)
RetriesAsked ==
    \A i \in Occupied(arp_table) :
        arp_table[i].port \in IntfPorts => RetryMax =< asked[i] + arp_table[i].retry

ArpIInv ==
    /\ arp_table \in Table
    /\ asked \in [ArpSlot -> 0 .. RetryMax]
    /\ quiet \in BOOLEAN
    /\ AllRetries(arp_table)
    /\ RetriesAsked

(* A slot that arp_age leaves occupied keeps the count.                    *)
LEMMA AgeKeeps ==
    ASSUME ArpIInv, NEW now \in F!Time, arp_age(now)
    PROVE  /\ arp_table' \in Table
           /\ asked' \in [ArpSlot -> 0 .. RetryMax]
           /\ AllRetries(arp_table')
           /\ RetriesAsked'
<1>1. RetryMax \in Nat \ {0}
    BY ArpAssumption
<1>2. ASSUME NEW i \in ArpSlot
      PROVE  /\ asked'[i] \in 0 .. RetryMax
             /\ arp_table'[i] # FreeSlot /\ arp_table'[i].port \in IntfPorts
                   => RetryMax =< asked'[i] + arp_table'[i].retry
  <2>1. PICK e, f, g, h : SlotAged(i, e, f, g, h, now)
    BY AgeFacts DEF ArpIInv
  <2>2. e = arp_table[i] /\ h = arp_table'[i] /\ asked[i] \in 0 .. RetryMax
    BY <2>1 DEF SlotAged, ArpIInv
  <2>3. /\ Sends(f, now) => asked'[i] \in 1 .. RetryMax /\ asked'[i] \in {asked[i] + 1, RetryMax}
        /\ ~ Sends(f, now) =>
              asked'[i] = IF h = FreeSlot \/ e = FreeSlot THEN 0 ELSE asked[i]
    BY <2>1, <2>2, OneMore DEF SlotAged
  <2>4. asked'[i] \in 0 .. RetryMax
    BY <1>1, <2>2, <2>3
  <2>5. e # FreeSlot => /\ e \in Neighbour
                        /\ e.port \in IntfPorts => RetryMax =< asked[i] + e.retry
    BY <2>2 DEF ArpIInv, RetriesAsked, Occupied, Table
  <2>6. ASSUME h # FreeSlot, h.port \in IntfPorts
        PROVE  RetryMax =< asked'[i] + h.retry
    <3>1. CASE Fresh(h)
      BY <1>1, <2>4, <3>1, FreshFacts
    <3>2. CASE h = e /\ e # FreeSlot /\ ~ Sends(f, now)
      BY <2>3, <2>5, <2>6, <3>2
    <3>3. CASE /\ e # FreeSlot /\ e \in Neighbour /\ h = [e EXCEPT !.state = "STALE"]
               /\ ~ Sends(f, now)
      <4>1. h.port = e.port /\ h.retry = e.retry
        BY <3>3 DEF Neighbour
      <4> QED
        BY <2>3, <2>5, <2>6, <3>3, <4>1
    <3>4. CASE /\ f \in Neighbour /\ f.retry > 0 /\ h = Retry(f, now)
               /\ f.port \in IntfPorts => Sends(f, now)
               /\ f = e \/ Fresh(f)
      <4>1. h.port = f.port /\ h.retry = f.retry - 1 /\ f.retry \in 0 .. RetryMax
        BY <3>4, RetryFacts DEF Neighbour
      <4>2. Sends(f, now)
        BY <2>6, <3>4, <4>1
      <4>3. CASE Fresh(f)
        BY <1>1, <2>3, <3>4, <4>1, <4>2, <4>3, FreshFacts
      <4>4. CASE f = e
        <5>1. e # FreeSlot
          BY <4>2, <4>4 DEF Sends
        <5>2. RetryMax =< asked[i] + f.retry
          BY <2>5, <2>6, <4>1, <4>4, <5>1
        <5> QED
          BY <1>1, <2>2, <2>3, <3>4, <4>1, <4>2, <5>2
      <4> QED
        BY <3>4, <4>3, <4>4
    <3> QED
      BY <2>1, <2>6, <3>1, <3>2, <3>3, <3>4, SlotCases DEF ArpIInv
  <2> QED
    BY <2>2, <2>4, <2>6
<1>3. asked' \in [ArpSlot -> 0 .. RetryMax]
  <2>1. asked' = [i \in ArpSlot |-> asked'[i]]
    BY AgeFacts DEF ArpIInv
  <2> QED
    BY <1>2, <2>1
<1>4. RetriesAsked'
    BY <1>2 DEF RetriesAsked, Occupied
<1> QED
    BY <1>3, <1>4, AgeFacts DEF ArpIInv

(* One entry written by arp_add has spent no retry.                        *)
LEMMA RecordKeeps ==
    ASSUME ArpIInv, NEW ip \in Ips, NEW m \in Macs, NEW p \in Ports, arp_add(ip, m, p),
           UNCHANGED quiet
    PROVE  ArpIInv'
<1> DEFINE e == Reachable(ip, m, p)
<1>1. PICK i \in ArpSlot : /\ arp_table' = [arp_table EXCEPT ![i] = e]
                           /\ asked' = [asked EXCEPT ![i] = 0]
    BY AddKeeps DEF ArpIInv
<1>2. e \in Neighbour /\ e.retry = RetryMax
    BY EntryTypes DEF Reachable
<1> HIDE DEF e
<1>3. RetryMax \in Nat \ {0}
    BY ArpAssumption
<1>4. arp_table' \in Table /\ asked' \in [ArpSlot -> 0 .. RetryMax]
    BY <1>1, <1>2, <1>3 DEF ArpIInv, Table
<1>5. /\ arp_table'[i] = e /\ asked'[i] = 0
      /\ \A j \in ArpSlot \ {i} : arp_table'[j] = arp_table[j] /\ asked'[j] = asked[j]
    BY <1>1 DEF ArpIInv, Table
<1>6. AllRetries(arp_table')
    BY <1>2, <1>5 DEF ArpIInv, AllRetries, Occupied
<1>7. RetriesAsked'
    BY <1>2, <1>3, <1>5 DEF ArpIInv, RetriesAsked, Occupied
<1> QED
    BY <1>4, <1>6, <1>7 DEF ArpIInv

LEMMA DeleteKeeps ==
    ASSUME ArpIInv, NEW ip \in Ips, Delete(ip)
    PROVE  ArpIInv'
<1>1. PICK i \in arp_find(arp_table, ip) : /\ arp_table' = [arp_table EXCEPT ![i] = FreeSlot]
                                           /\ asked' = [asked EXCEPT ![i] = 0]
    BY DEF Delete
<1>2. i \in ArpSlot
    BY FindResults DEF ArpIInv
<1>3. RetryMax \in Nat \ {0}
    BY ArpAssumption
<1>4. arp_table' \in Table /\ asked' \in [ArpSlot -> 0 .. RetryMax]
    BY <1>1, <1>2, <1>3 DEF ArpIInv, Table
<1>5. /\ arp_table'[i] = FreeSlot
      /\ \A j \in ArpSlot \ {i} : arp_table'[j] = arp_table[j] /\ asked'[j] = asked[j]
    BY <1>1, <1>2 DEF ArpIInv, Table
<1>6. AllRetries(arp_table') /\ RetriesAsked'
    BY <1>5 DEF ArpIInv, AllRetries, RetriesAsked, Occupied
<1> QED
    BY <1>4, <1>6 DEF ArpIInv, Delete, Command

LEMMA ProbeInv ==
    ASSUME ArpIInv, NEW ip \in Ips, NEW p \in Ports, Probe(ip, p)
    PROVE  ArpIInv'
<1>1. /\ arp_table' \in Table
      /\ \A i \in ArpSlot : Undisturbed(arp_table[i], arp_table'[i])
    BY ProbeKeeps DEF Probe, ArpIInv
<1>2. AllRetries(arp_table')
    BY <1>1, RetriesKept DEF ArpIInv
<1>3. RetriesAsked'
  <2> SUFFICES ASSUME NEW i \in ArpSlot, arp_table'[i] # FreeSlot,
                      arp_table'[i].port \in IntfPorts
               PROVE  RetryMax =< asked[i] + arp_table'[i].retry
    BY DEF RetriesAsked, Occupied, Probe
  <2>1. asked[i] \in Nat /\ RetryMax \in Nat
    BY ArpAssumption DEF ArpIInv
  <2>2. arp_table'[i] = arp_table[i] \/ Fresh(arp_table'[i])
    BY <1>1 DEF Undisturbed
  <2> QED
    BY <2>1, <2>2, FreshFacts DEF ArpIInv, RetriesAsked, Occupied
<1> QED
    BY <1>1, <1>2, <1>3 DEF ArpIInv, Probe, Command

(* The second that passes is a time of the clock.                          *)
LEMMA NextSecond ==
    ASSUME NEW failed, Second(failed), F!TypeOK'
    PROVE  arp_age(sec_tick') /\ sec_tick' \in F!Time
    BY DEF Second, F!TypeOK

LEMMA ArpStep == ArpIInv /\ F!TypeOK' /\ [Next]_vars => ArpIInv'
<1> SUFFICES ASSUME ArpIInv, F!TypeOK', [Next]_vars PROVE ArpIInv'
    OBVIOUS
<1>1. CASE Boot
  <2>1. PICK applied \in HalApplies : BootArpAdd(applied) \/ BootRest(applied)
    BY <1>1 DEF Boot
  <2>2. CASE BootArpAdd(applied)
    <3>1. GwIp \in Ips /\ GwMac \in Macs /\ GwPort \in Ports
      BY ArpAssumption, FdbAssumption
    <3> QED
      BY <2>2, <3>1, RecordKeeps DEF BootArpAdd
  <2>3. CASE BootRest(applied)
    BY <2>3 DEF BootRest, neighbours, ArpIInv, RetriesAsked
  <2> QED
    BY <2>1, <2>2, <2>3
<1>2. CASE Call
  <2>1. PICK ip \in Ips :
            \/ Delete(ip)
            \/ \E p \in Ports :
                  \/ Probe(ip, p)
                  \/ \E m \in Macs, applied \in HalApplies : Add(ip, m, p, applied)
    BY <1>2 DEF Call
  <2>2. ASSUME NEW p \in Ports, NEW m \in Macs, NEW applied \in HalApplies,
               Add(ip, m, p, applied)
        PROVE  ArpIInv'
    BY <2>2, RecordKeeps DEF Add, Command
  <2> QED
    BY <2>1, <2>2, DeleteKeeps, ProbeInv
<1>3. CASE Tick
  <2>1. PICK failed : Second(failed)
    BY <1>3 DEF Tick
  <2>2. arp_age(sec_tick') /\ sec_tick' \in F!Time /\ UNCHANGED quiet
    BY <2>1, NextSecond DEF Second
  <2> QED
    BY <2>2, AgeKeeps DEF ArpIInv
<1>4. CASE Quiet
    BY <1>4 DEF Quiet, ArpIInv, RetriesAsked
<1>5. CASE UNCHANGED vars
    BY <1>5 DEF vars, neighbours, ArpIInv, RetriesAsked
<1> QED
    BY <1>1, <1>2, <1>3, <1>4, <1>5 DEF Next

(* What arp_add, arp_delete, arp_probe and arp_age keep true of the table: *)
(* an entry that is not being asked has all its retries, and of one that   *)
(* is, the retries spent were requests sent.                               *)
THEOREM ArpInductiveInvariant == Spec => []ArpIInv
<1>1. Init => ArpIInv
  <2> SUFFICES ASSUME Init PROVE ArpIInv
    OBVIOUS
  <2>1. RetryMax \in Nat \ {0}
    BY ArpAssumption
  <2>2. Occupied(arp_table) = {}
    BY DEF Init, Occupied
  <2>3. arp_table \in Table /\ quiet \in BOOLEAN
    BY DEF Init, Table
  <2>4. 0 \in 0 .. RetryMax /\ asked = [i \in ArpSlot |-> 0]
    BY <2>1 DEF Init
  <2>5. asked \in [ArpSlot -> 0 .. RetryMax]
    BY <2>4
  <2> QED
    BY <2>2, <2>3, <2>5 DEF ArpIInv, AllRetries, RetriesAsked
<1> QED
    BY <1>1, ArpStep, ForwardingHolds, PTL DEF Spec

(* TypeOK: both tables, the clock and main's place keep their types.       *)
THEOREM ArpTypeCorrect == Spec => []TypeOK
<1>1. F!TypeOK /\ ArpIInv => TypeOK
    BY DEF TypeOK, ArpIInv, Table
<1> QED
    BY <1>1, ForwardingHolds, ArpInductiveInvariant, PTL

(* AskedBeforeForgotten: arp_age only frees a slot in its own turn, of an  *)
(* entry without a retry, and every retry was a request.                   *)
THEOREM AskedFirst == Spec => AskedBeforeForgotten
<1> DEFINE Asked == sec_tick' # sec_tick =>
                      \A i \in Occupied(arp_table) :
                         /\ arp_table'[i] = FreeSlot
                         /\ arp_table[i].port \in IntfPorts
                         => asked[i] = RetryMax
<1>1. ArpIInv /\ F!TypeOK' /\ [Next]_vars => [Asked]_vars
  <2> SUFFICES ASSUME ArpIInv, F!TypeOK', [Next]_vars, sec_tick' # sec_tick,
                      NEW i \in Occupied(arp_table), arp_table'[i] = FreeSlot,
                      arp_table[i].port \in IntfPorts
               PROVE  asked[i] = RetryMax
    OBVIOUS
  <2>1. PICK failed : Second(failed)
    <3>1. Tick
      BY DEF Next, Boot, BootArpAdd, BootRest, Call, Add, Delete, Probe, Quiet, forwarding,
          vars, F!BootArpAdd, F!BootFdbInit, F!BootStatic1, F!BootStatic2, F!Learn
    <3> QED
      BY <3>1 DEF Tick
  <2> DEFINE now == sec_tick'
  <2>2. arp_age(now) /\ now \in F!Time
    BY <2>1, NextSecond
  <2> HIDE DEF now
  <2>3. i \in ArpSlot
    BY DEF Occupied
  <2>4. PICK e, f, g, h : SlotAged(i, e, f, g, h, now)
    BY <2>2, <2>3, AgeFacts DEF ArpIInv
  <2>5. e = arp_table[i] /\ e # FreeSlot /\ e \in Neighbour /\ h = FreeSlot
    BY <2>3, <2>4 DEF SlotAged, Occupied, ArpIInv, Table
  <2>6. e.retry = 0
    <3>1. [e EXCEPT !.state = "STALE"] \in Neighbour
      BY <2>5 DEF Neighbour
    <3>2. f \in Neighbour /\ f.retry > 0 => Retry(f, now) \in Neighbour
      BY <2>2, RetryFacts
    <3>3. Retry(f, now) # FreeSlot \/ ~ (f \in Neighbour /\ f.retry > 0)
      BY <3>2, ArpAssumption
    <3>4. h # [e EXCEPT !.state = "STALE"] /\ ~ Fresh(h) /\ h # e
      BY <2>5, <3>1, FreshFacts, ArpAssumption
    <3>5. arp_table \in Table /\ AllRetries(arp_table)
      BY DEF ArpIInv
    <3>6. \/ h = FreeSlot /\ e = FreeSlot
          \/ h = FreeSlot /\ e # FreeSlot /\ e.retry = 0
          \/ Fresh(h)
          \/ h = e
          \/ h = [e EXCEPT !.state = "STALE"]
          \/ f \in Neighbour /\ f.retry > 0 /\ h = Retry(f, now)
      BY <2>2, <2>3, <2>4, <3>5, SlotCases
    <3> QED
      BY <2>5, <3>3, <3>4, <3>6
  <2>7. RetryMax =< asked[i] + e.retry
    BY <2>5 DEF ArpIInv, RetriesAsked
  <2>8. asked[i] \in 0 .. RetryMax /\ RetryMax \in Nat
    BY <2>3, ArpAssumption DEF ArpIInv
  <2> QED
    BY <2>6, <2>7, <2>8
<1> QED
    BY <1>1, ForwardingHolds, ArpInductiveInvariant, PTL DEF Spec, AskedBeforeForgotten

(* HeardIsFound: only arp_add records an answer, and the slot it takes is  *)
(* where a lookup of the address ends.                                     *)
THEOREM HeardFound == Spec => HeardIsFound
<1> DEFINE Found(i) == LET e == arp_table'[i]
                       IN  e # arp_table[i] /\ e.state = "REACHABLE" =>
                              arp_lookup(arp_table', e.ip) = {<<e.mac, e.port>>}
<1>1. ArpIInv /\ F!TypeOK' /\ [Next]_vars => \A i \in Occupied(arp_table') : Found(i)
  <2> SUFFICES ASSUME ArpIInv, F!TypeOK', [Next]_vars, NEW i \in Occupied(arp_table'),
                      arp_table'[i] # arp_table[i], arp_table'[i].state = "REACHABLE"
               PROVE  arp_lookup(arp_table', arp_table'[i].ip)
                         = {<<arp_table'[i].mac, arp_table'[i].port>>}
    OBVIOUS
  <2>1. i \in ArpSlot /\ arp_table'[i] # FreeSlot
    BY DEF Occupied
  <2>2. ASSUME NEW ip \in Ips, NEW m \in Macs, NEW p \in Ports, arp_add(ip, m, p)
        PROVE  arp_lookup(arp_table', arp_table'[i].ip)
                  = {<<arp_table'[i].mac, arp_table'[i].port>>}
    <3>1. PICK j \in ArpSlot : /\ arp_table' = [arp_table EXCEPT ![j] = Reachable(ip, m, p)]
                               /\ arp_lookup(arp_table', ip) = {<<m, p>>}
      BY <2>2, AddKeeps DEF ArpIInv
    <3>2. arp_table'[i] = Reachable(ip, m, p)
      BY <2>1, <3>1 DEF ArpIInv, Table
    <3>3. arp_table'[i].ip = ip /\ arp_table'[i].mac = m /\ arp_table'[i].port = p
      BY <3>2 DEF Reachable
    <3> QED
      BY <3>1, <3>3
  <2>3. ASSUME Undisturbed(arp_table[i], arp_table'[i])
        PROVE  FALSE
    BY <2>3, FreshFacts DEF Undisturbed
  <2>4. CASE Boot
    <3>1. GwIp \in Ips /\ GwMac \in Macs /\ GwPort \in Ports
      BY ArpAssumption, FdbAssumption
    <3> QED
      BY <2>2, <2>4, <3>1 DEF Boot, BootArpAdd, BootRest, neighbours
  <2>5. CASE Call
    <3>1. PICK ip \in Ips :
              \/ Delete(ip)
              \/ \E p \in Ports :
                    \/ Probe(ip, p)
                    \/ \E m \in Macs, applied \in HalApplies : Add(ip, m, p, applied)
      BY <2>5 DEF Call
    <3>2. CASE Delete(ip)
      <4>1. PICK j : arp_table' = [arp_table EXCEPT ![j] = FreeSlot]
        BY <3>2 DEF Delete
      <4> QED
        BY <2>1, <4>1 DEF ArpIInv, Table
    <3>3. ASSUME NEW p \in Ports, Probe(ip, p)
          PROVE  FALSE
      BY <2>1, <2>3, <3>3, ProbeKeeps DEF Probe, ArpIInv
    <3> QED
      BY <2>2, <3>1, <3>2, <3>3 DEF Add
  <2>6. CASE Tick
    <3>1. PICK failed : Second(failed)
      BY <2>6 DEF Tick
    <3> DEFINE now == sec_tick'
    <3>2. arp_age(now) /\ now \in F!Time
      BY <3>1, NextSecond
    <3> HIDE DEF now
    <3>3. PICK e, f, g, h : SlotAged(i, e, f, g, h, now)
      BY <2>1, <3>2, AgeFacts DEF ArpIInv
    <3>4. e = arp_table[i] /\ h = arp_table'[i]
      BY <3>3 DEF SlotAged
    <3>5. ~ Fresh(h) /\ h # e /\ h # FreeSlot
      BY <2>1, <3>4, FreshFacts
    <3>6. e \in Neighbour => [e EXCEPT !.state = "STALE"].state # "REACHABLE"
      BY DEF Neighbour
    <3>7. f \in Neighbour /\ f.retry > 0 => Retry(f, now).state # "REACHABLE"
      BY <3>2, RetryFacts
    <3>8. arp_table \in Table /\ AllRetries(arp_table)
      BY DEF ArpIInv
    <3>9. \/ h = FreeSlot
          \/ Fresh(h)
          \/ h = e
          \/ e \in Neighbour /\ h = [e EXCEPT !.state = "STALE"]
          \/ f \in Neighbour /\ f.retry > 0 /\ h = Retry(f, now)
      BY <2>1, <3>2, <3>3, <3>8, SlotCases
    <3>10. h.state = "REACHABLE"
      BY <3>4
    <3> QED
      BY <3>5, <3>6, <3>7, <3>9, <3>10
  <2>7. CASE Quiet \/ UNCHANGED vars
    BY <2>7 DEF Quiet, vars, neighbours
  <2> QED
    BY <2>4, <2>5, <2>6, <2>7 DEF Next
<1> QED
    BY <1>1, ForwardingHolds, ArpInductiveInvariant, PTL DEF Spec, HeardIsFound
=============================================================================
