------------------------------ MODULE FdbProof ------------------------------
EXTENDS Fdb, WellFoundedInduction, TLAPS

(* A nonempty set of slots has a least one, which Min returns: fdb_find    *)
(* and fdb_alloc return a slot of the set they search.                     *)
LEMMA MinOfSlots ==
    ASSUME NEW S \in SUBSET Slot, S # {}
    PROVE  Min(S) \in S
<1> DEFINE Less == {p \in Nat \X Nat : p[1] < p[2]}
<1>1. S \subseteq Nat
    BY SizeAssumption DEF Slot
<1>2. IsWellFoundedOn(Less, Nat)
    BY NatLessThanWellFounded DEF OpToRel
<1>3. \E x \in S : \A y \in S : ~ (<<y, x>> \in Less)
    BY <1>1, <1>2, WFMin, Zenon
<1>4. PICK x \in S : \A y \in S : ~ (<<y, x>> \in Less)
    BY <1>3
<1>5. \A y \in S : x =< y
  <2>1. ASSUME NEW y \in S PROVE x =< y
    <3>1. x \in Nat /\ y \in Nat
        BY <1>1
    <3>2. ~ (y < x)
        BY <1>4, <3>1
    <3>3. QED
        BY <3>1, <3>2
  <2>2. QED
    BY <2>1
<1>6. QED
    BY <1>5 DEF Min

(* A slot that fdb_find returns holds an entry of the address asked for;   *)
(* one that fdb_alloc returns is free.                                     *)
LEMMA FindFacts ==
    ASSUME TypeOK, NEW m \in Macs
    PROVE  /\ fdb_find(m) # {} =>
                /\ Min(fdb_find(m)) \in Slot
                /\ fdb_table[Min(fdb_find(m))] \in Entry
                /\ fdb_table[Min(fdb_find(m))].dmac = m
           /\ fdb_free # {} =>
                /\ Min(fdb_free) \in Slot
                /\ fdb_table[Min(fdb_free)] = NoEntry
<1>1. fdb_find(m) \in SUBSET Slot /\ fdb_free \in SUBSET Slot
    BY DEF fdb_find, fdb_free, Valid
<1>2. fdb_find(m) # {} => Min(fdb_find(m)) \in fdb_find(m)
    BY <1>1, MinOfSlots
<1>3. fdb_free # {} => Min(fdb_free) \in fdb_free
    BY <1>1, MinOfSlots
<1>4. QED
    BY <1>2, <1>3 DEF fdb_find, fdb_free, Valid, TypeOK

(* The part of the invariant that holds before the boot sequence as well. *)
TableOK == TypeOK /\ OneEntryPerMac /\ RuleAtHome

(* A slot that is in use holds an entry.                                   *)
LEMMA EntryOfSlot ==
    ASSUME TypeOK, NEW i \in Valid
    PROVE  i \in Slot /\ fdb_table[i] \in Entry
    BY DEF TypeOK, Valid

(* What a call that writes one entry and installs its rule preserves: the  *)
(* entry goes to a free slot when its address is new, and over its old     *)
(* entry when it is known.                                                 *)
LEMMA PutEntry ==
    ASSUME TableOK, NEW i \in Slot, NEW e \in Entry, NEW applied \in BOOLEAN,
           \/ fdb_table[i] = NoEntry /\ fdb_find(e.dmac) = {}
           \/ fdb_table[i] # NoEntry /\ fdb_table[i].dmac = e.dmac,
           fdb_table' = [fdb_table EXCEPT ![i] = e],
           fdb_install_tcam(e.dmac, e.port, applied)
    PROVE  /\ fdb_table' \in [Slot -> Entry \cup {NoEntry}]
           /\ rules' \in [Tids -> Rule \cup {NoRule}]
           /\ lost' \in SUBSET Tids
           /\ OneEntryPerMac' /\ RuleAtHome'
           /\ UnsharedInstalled => UnsharedInstalled'
           /\ \A t \in Tids : t = TidOf[e.dmac] \/ Backed(t) => Backed(t)'
<1> DEFINE home == TidOf[e.dmac]
<1>1. home \in Tids /\ e.dmac \in Macs /\ e.port \in Ports /\ e # NoEntry
    BY AddressAssumption, NullAssumption DEF Entry
<1>2. fdb_table' \in [Slot -> Entry \cup {NoEntry}]
    BY DEF TableOK, TypeOK
<1>3. [dmac |-> e.dmac, port |-> e.port] \in Rule
    BY <1>1 DEF Rule
<1>4. rules' \in [Tids -> Rule \cup {NoRule}] /\ lost' \in SUBSET Tids
    BY <1>1, <1>3 DEF TableOK, TypeOK, fdb_install_tcam
<1>5. /\ fdb_table'[i] = e
      /\ \A j \in Slot : j # i => fdb_table'[j] = fdb_table[j]
    BY DEF TableOK, TypeOK
<1>6. Valid' = Valid \cup {i}
    BY <1>1, <1>5 DEF Valid
<1>7. /\ \A t \in Tids : t # home => rules'[t] = rules[t] /\ (t \in lost' <=> t \in lost)
      /\ home \notin lost' => rules'[home] = [dmac |-> e.dmac, port |-> e.port]
      /\ rules'[home] # rules[home] => rules'[home] = [dmac |-> e.dmac, port |-> e.port]
    BY <1>1 DEF TableOK, TypeOK, fdb_install_tcam
<1>8. OneEntryPerMac'
  <2>1. ASSUME NEW j \in Valid, j # i PROVE fdb_table[j].dmac # e.dmac
    <3>1. CASE fdb_find(e.dmac) = {}
        BY <3>1 DEF fdb_find
    <3>2. CASE fdb_table[i] # NoEntry /\ fdb_table[i].dmac = e.dmac
        BY <3>2, <2>1 DEF TableOK, OneEntryPerMac, Valid
    <3>3. QED
        BY <3>1, <3>2
  <2>2. \A j \in Valid : j \in Slot
    BY DEF Valid
  <2>3. QED
    BY <2>1, <2>2, <1>5, <1>6 DEF TableOK, OneEntryPerMac
<1>9. RuleAtHome'
    BY <1>1, <1>7 DEF TableOK, RuleAtHome
<1>10. ASSUME UnsharedInstalled PROVE UnsharedInstalled'
  <2>1. ASSUME NEW j \in Valid', Unshared(fdb_table'[j].dmac),
               TidOf[fdb_table'[j].dmac] \notin lost'
        PROVE  rules'[TidOf[fdb_table'[j].dmac]]
                 = [dmac |-> fdb_table'[j].dmac, port |-> fdb_table'[j].port]
    <3>1. CASE j = i
        BY <3>1, <2>1, <1>5, <1>7
    <3>2. CASE j # i
      <4>1. j \in Valid /\ fdb_table'[j] = fdb_table[j] /\ fdb_table[j] \in Entry
          BY <3>2, <1>5, <1>6, EntryOfSlot DEF Valid, TableOK
      <4>2. fdb_table[j].dmac \in Macs /\ TidOf[fdb_table[j].dmac] \in Tids
          BY <4>1, AddressAssumption DEF Entry
      <4>3. fdb_table[j].dmac # e.dmac
          BY <3>2, <4>1, <1>5, <1>6, <1>8 DEF OneEntryPerMac
      <4>4. TidOf[fdb_table[j].dmac] # home
          BY <4>1, <4>2, <4>3, <2>1, <1>1 DEF Unshared
      <4>5. QED
          BY <4>1, <4>2, <4>4, <2>1, <1>7, <1>10 DEF UnsharedInstalled
    <3>3. QED
        BY <3>1, <3>2
  <2>2. QED
    BY <2>1 DEF UnsharedInstalled, Unshared
<1>11. ASSUME NEW t \in Tids, t = home \/ Backed(t) PROVE Backed(t)'
  <2>1. CASE t = home
    <3>1. i \in Valid' /\ fdb_table'[i].dmac = e.dmac /\ fdb_table'[i].port = e.port
        BY <1>5, <1>6
    <3>2. QED
        BY <2>1, <3>1, <1>7 DEF Backed
  <2>2. CASE t # home /\ Backed(t)
    <3>1. SUFFICES ASSUME rules[t] # NoRule, t \notin lost PROVE Backed(t)'
        BY <2>2, <1>7 DEF Backed
    <3>2. PICK j \in Valid : /\ fdb_table[j].dmac = rules[t].dmac
                             /\ fdb_table[j].port = rules[t].port
        BY <2>2, <3>1 DEF Backed
    <3>3. fdb_table[j].dmac # e.dmac
        BY <2>2, <3>1, <3>2 DEF TableOK, RuleAtHome
    <3>4. j # i
        BY <3>2, <3>3 DEF Valid
    <3>5. j \in Valid' /\ fdb_table'[j] = fdb_table[j]
        BY <3>2, <3>4, <1>5, <1>6 DEF Valid
    <3>6. QED
        BY <3>2, <3>5, <2>2, <1>7 DEF Backed
  <2>3. QED
    BY <1>11, <2>1, <2>2
<1>12. QED
    BY <1>2, <1>4, <1>8, <1>9, <1>10, <1>11

(* What deletion and ageing preserve: the entries of out leave the table,  *)
(* the HAL is asked to delete the rules at their indices, and applies some *)
(* of these deletes.                                                       *)
LEMMA RemoveEntries ==
    ASSUME TableOK, NEW out \in SUBSET Valid,
           NEW asked \in SUBSET Tids, NEW done \in SUBSET asked,
           asked = {TidOf[fdb_table[i].dmac] : i \in out},
           fdb_table' = [i \in Slot |-> IF i \in out THEN NoEntry ELSE fdb_table[i]],
           Revoke(asked, done)
    PROVE  /\ fdb_table' \in [Slot -> Entry \cup {NoEntry}]
           /\ rules' \in [Tids -> Rule \cup {NoRule}]
           /\ lost' \in SUBSET Tids
           /\ OneEntryPerMac' /\ RuleAtHome'
           /\ UnsharedInstalled => UnsharedInstalled'
           /\ \A t \in Tids : Backed(t) => Backed(t)'
<1>1. /\ fdb_table' \in [Slot -> Entry \cup {NoEntry}]
      /\ rules' \in [Tids -> Rule \cup {NoRule}]
      /\ lost' \in SUBSET Tids
    BY DEF TableOK, TypeOK, Revoke
<1>2. /\ Valid' = Valid \ out
      /\ \A i \in Valid' : i \in Valid /\ i \notin out /\ fdb_table'[i] = fdb_table[i]
    BY DEF Valid
<1>3. \A t \in Tids : /\ rules'[t] = IF t \in done THEN NoRule ELSE rules[t]
                      /\ t \in lost' <=> (t \in lost \/ t \in asked) /\ t \notin done
    BY DEF Revoke
<1>4. OneEntryPerMac'
    BY <1>2 DEF TableOK, OneEntryPerMac
<1>5. RuleAtHome'
    BY <1>3 DEF TableOK, RuleAtHome
<1>6. ASSUME UnsharedInstalled PROVE UnsharedInstalled'
  <2>1. ASSUME NEW i \in Valid', Unshared(fdb_table'[i].dmac),
               TidOf[fdb_table'[i].dmac] \notin lost'
        PROVE  rules'[TidOf[fdb_table'[i].dmac]]
                 = [dmac |-> fdb_table'[i].dmac, port |-> fdb_table'[i].port]
    <3> DEFINE t == TidOf[fdb_table[i].dmac]
    <3>1. i \in Valid /\ i \notin out /\ fdb_table'[i] = fdb_table[i]
        BY <1>2
    <3>2. fdb_table[i] \in Entry /\ fdb_table[i].dmac \in Macs /\ t \in Tids
        BY <3>1, EntryOfSlot, AddressAssumption DEF TableOK, Entry
    <3>3. t \notin asked
      <4>1. SUFFICES ASSUME NEW j \in out, TidOf[fdb_table[j].dmac] = t PROVE FALSE
          OBVIOUS
      <4>2. j \in Valid /\ fdb_table[j].dmac \in Macs
          BY EntryOfSlot DEF TableOK, Entry
      <4>3. fdb_table[j].dmac = fdb_table[i].dmac
          BY <2>1, <3>1, <4>1, <4>2 DEF Unshared
      <4>4. QED
          BY <3>1, <4>2, <4>3 DEF TableOK, OneEntryPerMac
    <3>4. QED
        BY <3>1, <3>2, <3>3, <2>1, <1>3, <1>6 DEF UnsharedInstalled
  <2>2. QED
    BY <2>1 DEF UnsharedInstalled, Unshared
<1>7. ASSUME NEW t \in Tids, Backed(t) PROVE Backed(t)'
  <2>1. SUFFICES ASSUME rules[t] # NoRule, t \notin lost, t \notin asked PROVE Backed(t)'
      BY <1>3, <1>7 DEF Backed
  <2>2. PICK i \in Valid : /\ fdb_table[i].dmac = rules[t].dmac
                           /\ fdb_table[i].port = rules[t].port
      BY <1>7, <2>1 DEF Backed
  <2>3. i \notin out
      BY <2>1, <2>2 DEF TableOK, RuleAtHome
  <2>4. QED
      BY <2>1, <2>2, <2>3, <1>2, <1>3 DEF Backed
<1>8. QED
    BY <1>1, <1>4, <1>5, <1>6, <1>7

-----------------------------------------------------------------------------
(* The calls of fdb.c, each through one of the two lemmas.                 *)

Kept ==
    /\ fdb_table' \in [Slot -> Entry \cup {NoEntry}]
    /\ rules' \in [Tids -> Rule \cup {NoRule}]
    /\ lost' \in SUBSET Tids
    /\ OneEntryPerMac' /\ RuleAtHome'
    /\ UnsharedInstalled => UnsharedInstalled'

(* fdb_learn keeps the table well formed, whether the HAL applies its      *)
(* insert or loses it.                                                     *)
LEMMA LearnKeeps ==
    ASSUME TableOK, NEW m \in Macs, NEW p \in Ports, NEW applied \in BOOLEAN,
           fdb_learn(m, p, applied)
    PROVE  Kept /\ \A t \in Tids : t = TidOf[m] \/ Backed(t) => Backed(t)'
<1>1. 0 \in Time
    BY SizeAssumption DEF Time
<1>2. CASE fdb_find(m) # {} /\ Refresh(m, p)
  <2> DEFINE i == Min(fdb_find(m))
             e == [fdb_table[i] EXCEPT !.port = p, !.age_ticks = 0]
  <2>1. i \in Slot /\ fdb_table[i] \in Entry /\ fdb_table[i].dmac = m
      BY <1>2, FindFacts DEF TableOK
  <2>2. e \in Entry /\ e.dmac = m /\ e.port = p
      BY <2>1, <1>1 DEF Entry
  <2>3. fdb_table' = [fdb_table EXCEPT ![i] = e]
      BY <1>2, <2>1 DEF Refresh, TableOK, TypeOK
  <2>4. fdb_table[i] # NoEntry
      BY <2>1, NullAssumption
  <2>5. fdb_install_tcam(e.dmac, e.port, applied)
      BY <2>2 DEF fdb_learn
  <2> HIDE DEF i, e
  <2>6. QED
      BY <2>1, <2>2, <2>3, <2>4, <2>5, PutEntry DEF Kept
<1>3. CASE /\ fdb_find(m) = {} /\ fdb_free # {}
           /\ fdb_table' = [fdb_table EXCEPT ![Min(fdb_free)] = NewEntry(m, p, FALSE)]
  <2> DEFINE i == Min(fdb_free)
             e == NewEntry(m, p, FALSE)
  <2>1. i \in Slot /\ fdb_table[i] = NoEntry
      BY <1>3, FindFacts DEF TableOK
  <2>2. e \in Entry /\ e.dmac = m /\ e.port = p
      BY <1>1 DEF Entry, NewEntry
  <2>3. fdb_table' = [fdb_table EXCEPT ![i] = e]
      BY <1>3
  <2>4. fdb_install_tcam(e.dmac, e.port, applied)
      BY <2>2 DEF fdb_learn
  <2>5. fdb_find(e.dmac) = {}
      BY <1>3, <2>2
  <2> HIDE DEF i, e
  <2>6. QED
      BY <2>1, <2>2, <2>3, <2>4, <2>5, PutEntry DEF Kept
<1>4. QED
    BY <1>2, <1>3 DEF fdb_learn

(* fdb_add_static keeps the table well formed, over a known address and    *)
(* for a new one.                                                          *)
LEMMA AddStaticKeeps ==
    ASSUME TableOK, NEW m \in Macs, NEW p \in Ports, NEW applied \in BOOLEAN,
           fdb_add_static(m, p, applied)
    PROVE  Kept /\ \A t \in Tids : t = TidOf[m] \/ Backed(t) => Backed(t)'
<1> DEFINE at == IF fdb_find(m) # {} THEN fdb_find(m) ELSE fdb_free
           i  == Min(at)
           e  == NewEntry(m, p, TRUE)
<1>1. /\ i \in Slot
      /\ \/ fdb_table[i] = NoEntry /\ fdb_find(m) = {}
         \/ fdb_table[i] # NoEntry /\ fdb_table[i].dmac = m
    BY FindFacts, NullAssumption DEF TableOK, fdb_add_static
<1>2. e \in Entry /\ e.dmac = m /\ e.port = p
    BY SizeAssumption DEF Entry, NewEntry, Time
<1>3. fdb_table' = [fdb_table EXCEPT ![i] = e]
    BY DEF fdb_add_static
<1>4. fdb_install_tcam(e.dmac, e.port, applied)
    BY <1>2 DEF fdb_add_static
<1> HIDE DEF i, e
<1>5. QED
    BY <1>1, <1>2, <1>3, <1>4, PutEntry DEF Kept

(* fdb_delete keeps the table well formed, and withdraws or loses the rule *)
(* of the address it drops.                                                *)
LEMMA DeleteKeeps ==
    ASSUME TableOK, NEW m \in Macs, NEW applied \in BOOLEAN, fdb_delete(m, applied)
    PROVE  Kept /\ \A t \in Tids : Backed(t) => Backed(t)'
<1> DEFINE i     == Min(fdb_find(m))
           asked == {TidOf[m]}
           done  == IF applied THEN asked ELSE {}
<1>1. i \in Slot /\ fdb_table[i] \in Entry /\ fdb_table[i].dmac = m
    BY FindFacts DEF fdb_delete, TableOK
<1>2. i \in Valid
    BY <1>1, NullAssumption DEF Valid
<1>3. fdb_table' = [j \in Slot |-> IF j \in {i} THEN NoEntry ELSE fdb_table[j]]
    BY <1>1 DEF fdb_delete, TableOK, TypeOK
<1>4. asked \in SUBSET Tids /\ done \in SUBSET asked
    BY AddressAssumption
<1>5. asked = {TidOf[fdb_table[j].dmac] : j \in {i}}
    BY <1>1
<1>6. Revoke(asked, done)
    BY DEF fdb_delete
<1> HIDE DEF i, asked, done
<1>7. QED
    BY <1>2, <1>3, <1>4, <1>5, <1>6, RemoveEntries DEF Kept

(* One pass of fdb_age keeps the table well formed, whichever of its HAL   *)
(* deletes are lost.                                                       *)
LEMMA AgeKeeps ==
    ASSUME TableOK, NEW now, NEW failed \in SUBSET Slot, fdb_age(now, failed)
    PROVE  Kept /\ \A t \in Tids : Backed(t) => Backed(t)'
<1> DEFINE out   == Expired(now)
           asked == {TidOf[fdb_table[i].dmac] : i \in out}
           done  == {TidOf[fdb_table[i].dmac] : i \in out \ failed}
<1>1. out \in SUBSET Valid
    BY DEF Expired
<1>2. \A i \in out : TidOf[fdb_table[i].dmac] \in Tids
    BY <1>1, EntryOfSlot, AddressAssumption DEF TableOK, Entry
<1>3. asked \in SUBSET Tids /\ done \in SUBSET asked
    BY <1>2
<1>4. /\ fdb_table' = [i \in Slot |-> IF i \in out THEN NoEntry ELSE fdb_table[i]]
      /\ Revoke(asked, done)
    BY DEF fdb_age
<1>5. asked = {TidOf[fdb_table[i].dmac] : i \in out}
    OBVIOUS
<1> HIDE DEF out, asked, done
<1>6. QED
    BY <1>1, <1>3, <1>4, <1>5, RemoveEntries DEF Kept

-----------------------------------------------------------------------------
(* The invariant of Fdb, action by action.                                 *)

LEMMA InitIInv == Init => IInv
    BY SizeAssumption DEF Init, IInv, TypeOK, Time, BootStep, Valid, OneEntryPerMac,
        RuleAtHome, BootInv, OnlyGateway

(* Before the loop a step concerns the gateway's index alone.              *)
LEMMA BootKeeps ==
    ASSUME IInv, Boot
    PROVE  IInv' /\ (UnsharedInstalled => UnsharedInstalled')
<1>1. TableOK
    BY DEF IInv, TableOK
<1>2. HalApplies \subseteq BOOLEAN
    BY HalAssumption
<1>3. ASSUME NEW applied \in HalApplies, BootArpAdd(applied)
      PROVE  IInv' /\ (UnsharedInstalled => UnsharedInstalled')
  <2>1. GwMac \in Macs /\ GwPort \in Ports /\ fdb_learn(GwMac, GwPort, applied)
      BY <1>3, AddressAssumption DEF BootArpAdd
  <2>2. Kept
      BY <1>1, <1>2, <2>1, LearnKeeps
  <2>3. OnlyGateway'
      BY <1>3, <2>1 DEF IInv, BootInv, OnlyGateway, BootArpAdd, fdb_learn,
                        fdb_install_tcam, TypeOK
  <2>4. QED
      BY <1>3, <2>2, <2>3 DEF IInv, TypeOK, BootInv, Kept, BootArpAdd, BootStep
<1>4. ASSUME BootFdbInit
      PROVE  IInv' /\ (UnsharedInstalled => UnsharedInstalled')
  <2>1. Valid' = {}
      BY <1>4 DEF BootFdbInit, fdb_init, Valid
  <2>2. OneEntryPerMac' /\ UnsharedInstalled'
      BY <2>1 DEF OneEntryPerMac, UnsharedInstalled
  <2>3. OnlyGateway' /\ RuleAtHome'
      BY <1>4 DEF BootFdbInit, IInv, BootInv, OnlyGateway, RuleAtHome
  <2>4. QED
      BY <1>4, <2>1, <2>2, <2>3
      DEF BootFdbInit, fdb_init, IInv, TypeOK, BootInv, BootStep
<1>5. ASSUME NEW applied \in HalApplies, BootStatic1(applied)
      PROVE  IInv' /\ (UnsharedInstalled => UnsharedInstalled')
  <2>1. /\ GwMac \in Macs /\ Static1Port \in Ports
        /\ fdb_add_static(GwMac, Static1Port, applied)
      BY <1>5, AddressAssumption DEF BootStatic1
  <2>2. Kept /\ \A t \in Tids : t = TidOf[GwMac] \/ Backed(t) => Backed(t)'
      BY <1>1, <1>2, <2>1, AddStaticKeeps
  <2>3. \A t \in Tids : t = TidOf[GwMac] \/ Backed(t)
      BY <1>5 DEF IInv, BootInv, BootStatic1, OnlyGateway, Backed
  <2>4. QED
      BY <1>5, <2>2, <2>3 DEF IInv, TypeOK, BootInv, Kept, BootStatic1, BootStep
<1>6. ASSUME NEW applied \in HalApplies, BootStatic2(applied)
      PROVE  IInv' /\ (UnsharedInstalled => UnsharedInstalled')
  <2>1. /\ Static2Mac \in Macs /\ Static2Port \in Ports
        /\ fdb_add_static(Static2Mac, Static2Port, applied)
      BY <1>6, AddressAssumption DEF BootStatic2
  <2>2. Kept /\ \A t \in Tids : Backed(t) => Backed(t)'
      BY <1>1, <1>2, <2>1, AddStaticKeeps
  <2>3. QED
      BY <1>6, <2>2 DEF IInv, TypeOK, BootInv, Kept, BootStatic2, BootStep
<1>7. QED
    BY <1>3, <1>4, <1>5, <1>6 DEF Boot

(* A call from the loop preserves the invariant.                           *)
LEMMA CallKeeps ==
    ASSUME IInv, Call
    PROVE  IInv' /\ (UnsharedInstalled => UnsharedInstalled')
<1>1. TableOK
    BY DEF IInv, TableOK
<1>2. PICK m \in Macs, applied \in HalApplies :
        Delete(m, applied) \/ \E p \in Ports : Learn(m, p, applied) \/ AddStatic(m, p, applied)
    BY DEF Call
<1>3. applied \in BOOLEAN
    BY HalAssumption
<1>4. /\ boot = "loop" /\ UNCHANGED <<sec_tick, boot>>
      /\ Kept /\ \A t \in Tids : Backed(t) => Backed(t)'
  <2>1. CASE Delete(m, applied)
      BY <1>1, <1>3, <2>1, DeleteKeeps DEF Delete
  <2>2. ASSUME NEW p \in Ports, Learn(m, p, applied)
        PROVE  /\ boot = "loop" /\ UNCHANGED <<sec_tick, boot>>
               /\ Kept /\ \A t \in Tids : Backed(t) => Backed(t)'
      BY <1>1, <1>3, <2>2, LearnKeeps DEF Learn
  <2>3. ASSUME NEW p \in Ports, AddStatic(m, p, applied)
        PROVE  /\ boot = "loop" /\ UNCHANGED <<sec_tick, boot>>
               /\ Kept /\ \A t \in Tids : Backed(t) => Backed(t)'
      BY <1>1, <1>3, <2>3, AddStaticKeeps DEF AddStatic
  <2>4. QED
      BY <1>2, <2>1, <2>2, <2>3
<1>5. QED
    BY <1>4 DEF IInv, TypeOK, BootInv, Kept

(* A second of the loop preserves the invariant.                           *)
LEMMA TickKeeps ==
    ASSUME IInv, Tick
    PROVE  IInv' /\ (UnsharedInstalled => UnsharedInstalled')
<1>1. TableOK
    BY DEF IInv, TableOK
<1>2. PICK failed \in SUBSET Slot : Second(failed)
    BY DEF Tick
<1>3. Kept /\ \A t \in Tids : Backed(t) => Backed(t)'
    BY <1>1, <1>2, AgeKeeps DEF Second
<1>4. sec_tick' \in Time
    BY <1>2, SizeAssumption DEF Second, IInv, TypeOK, Time
<1>5. QED
    BY <1>2, <1>3, <1>4 DEF IInv, TypeOK, BootInv, Kept, Second

(* The invariant that carries the others: types, one slot per address,     *)
(* rules at home, and what each boot phase has established.                *)
THEOREM InductiveInvariant == Spec => []IInv
<1>1. IInv /\ UNCHANGED vars => IInv'
    BY DEF IInv, vars, TypeOK, OneEntryPerMac, Valid, RuleAtHome, BootInv, OnlyGateway,
        Backed
<1>2. IInv /\ [Next]_vars => IInv'
    BY <1>1, BootKeeps, CallKeeps, TickKeeps DEF Next
<1>3. QED
    BY InitIInv, <1>2, PTL DEF Spec

(* Every reachable state of the table, the rules and the clock has the     *)
(* types declared.                                                         *)
THEOREM TypeCorrect == Spec => []TypeOK
<1>1. IInv => TypeOK
    BY DEF IInv
<1>2. QED
    BY <1>1, InductiveInvariant, PTL

(* fdb.c never holds one address in two slots.                             *)
THEOREM UniqueEntries == Spec => []OneEntryPerMac
<1>1. IInv => OneEntryPerMac
    BY DEF IInv
<1>2. QED
    BY <1>1, InductiveInvariant, PTL

(* For any addresses, indices, table size and clock: once main has booted, *)
(* a rule whose last HAL command was applied is backed by the table.       *)
THEOREM NoOrphans == Spec => []NoOrphanRule
<1>1. IInv => NoOrphanRule
    BY DEF IInv, BootInv, NoOrphanRule
<1>2. QED
    BY <1>1, InductiveInvariant, PTL

(* An address that shares its index with no other keeps its rule, with the *)
(* table's port, for as long as it is in the table.                        *)
THEOREM UnsharedRules == Spec => []UnsharedInstalled
<1>1. Init => UnsharedInstalled
    BY DEF Init, UnsharedInstalled, Valid
<1>2. UnsharedInstalled /\ UNCHANGED vars => UnsharedInstalled'
    BY DEF vars, UnsharedInstalled, Valid, Unshared
<1>3. IInv /\ UnsharedInstalled /\ [Next]_vars => UnsharedInstalled'
    BY <1>2, BootKeeps, CallKeeps, TickKeeps DEF Next
<1>4. QED
    BY <1>1, <1>3, InductiveInvariant, PTL DEF Spec
=============================================================================
