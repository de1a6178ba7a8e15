-------------------------------- MODULE Fdb --------------------------------
(***************************************************************************)
(* The layer-2 forwarding database of the firmware (sw/firmware/fdb.c)     *)
(* beside the stage-2 TCAM rules it installs through the HAL.              *)
(*                                                                         *)
(* The firmware keeps a software table of slots; every call that changes   *)
(* it also issues one HAL command for the rule of that MAC address, at     *)
(* table_id dmac & 0xFFF.  Two addresses with the same low 12 bits share   *)
(* one rule.  A HAL command may fail without being applied (BUSY, or a     *)
(* TIMEOUT before COMMIT); fdb.c goes on as if it had been.                *)
(*                                                                         *)
(* The firmware is single-threaded, so each call is one step.  The steps   *)
(* are driven by main (sw/firmware/cp_main.c): the boot sequence, then the *)
(* loop, in which ARP and the CLI call fdb_learn, and once a second        *)
(* fdb_age runs.                                                           *)
(***************************************************************************)
EXTENDS Integers, FiniteSetsExt

CONSTANTS
    Macs,         \* the MAC addresses in use
    Ports,        \* the egress ports
    TableSize,    \* FDB_TABLE_SIZE
    Tids,         \* the rule indices of stage 2
    TidOf,        \* TidOf[m] is dmac & 0xFFF
    AgeDynamic,   \* FDB_AGE_DYNAMIC, in seconds
    TimeMod,      \* sec_tick counts modulo this: 2^32 in the code
    GwMac, GwPort,              \* what main's arp_add learns before fdb_init
    Static1Port,                \* port of the first static entry (its MAC is GwMac)
    Static2Mac, Static2Port,    \* the second static entry
    HalApplies,   \* the fates of a HAL command: TRUE applied, FALSE lost
    NoEntry,      \* a slot with valid = 0
    NoRule        \* a TCAM index with no valid rule

Slot  == 0 .. TableSize - 1
Time  == 0 .. TimeMod - 1
Entry == [dmac : Macs, port : Ports, age_ticks : Time, is_static : BOOLEAN]
Rule  == [dmac : Macs, port : Ports]

ASSUME SizeAssumption ==
    /\ TableSize \in Nat /\ TableSize >= 2    \* main's two static entries fit
    /\ AgeDynamic \in Nat \ {0}
    /\ TimeMod \in Nat /\ TimeMod > AgeDynamic
ASSUME AddressAssumption ==
    /\ TidOf \in [Macs -> Tids]
    /\ {GwMac, Static2Mac} \subseteq Macs
    /\ {GwPort, Static1Port, Static2Port} \subseteq Ports
ASSUME HalAssumption == TRUE \in HalApplies /\ HalApplies \subseteq BOOLEAN
ASSUME NullAssumption == NoEntry \notin Entry /\ NoRule \notin Rule

VARIABLES
    fdb_table,   \* the software table
    rules,       \* the valid rules of stage 2, by index
    lost,        \* history: indices whose last HAL command was not applied
    sec_tick,    \* main's clock
    boot         \* how far main has come

vars == <<fdb_table, rules, lost, sec_tick, boot>>

BootStep == {"arp_add", "fdb_init", "static1", "static2", "loop"}

TypeOK ==
    /\ fdb_table \in [Slot -> Entry \cup {NoEntry}]
    /\ rules \in [Tids -> Rule \cup {NoRule}]
    /\ lost \in SUBSET Tids
    /\ sec_tick \in Time
    /\ boot \in BootStep

-----------------------------------------------------------------------------
(* The table and the HAL calls on its rules.                               *)

Valid       == {i \in Slot : fdb_table[i] # NoEntry}
fdb_find(m) == {i \in Valid : fdb_table[i].dmac = m}
fdb_free    == Slot \ Valid

NewEntry(m, p, static) ==
    [dmac |-> m, port |-> p, age_ticks |-> 0, is_static |-> static]

(* hal_tcam_insert of m's rule, applied or not.                            *)
fdb_install_tcam(m, p, applied) ==
    IF applied
    THEN /\ rules' = [rules EXCEPT ![TidOf[m]] = [dmac |-> m, port |-> p]]
         /\ lost' = lost \ {TidOf[m]}
    ELSE /\ lost' = lost \cup {TidOf[m]}
         /\ UNCHANGED rules

(* hal_tcam_delete of each index of asked; those of done are applied.      *)
Revoke(asked, done) ==
    /\ rules' = [t \in Tids |-> IF t \in done THEN NoRule ELSE rules[t]]
    /\ lost' = (lost \cup asked) \ done

-----------------------------------------------------------------------------
(* The calls of fdb.h.  A call that returns FULL or INVAL changes nothing  *)
(* and is no step.                                                         *)

fdb_init == fdb_table' = [i \in Slot |-> NoEntry]

(* A known address: new port, age reset, static flag kept.                 *)
Refresh(m, p) ==
    fdb_table' = [fdb_table EXCEPT ![Min(fdb_find(m))].port = p,
                                   ![Min(fdb_find(m))].age_ticks = 0]

(* Mutant: the lookup is left out, so a known address gets a second slot.  *)
MutLearnNoLookup(m, p, applied) ==
    /\ fdb_free # {}
    /\ fdb_table' = [fdb_table EXCEPT ![Min(fdb_free)] = NewEntry(m, p, FALSE)]
    /\ fdb_install_tcam(m, p, applied)

(* Mutant: a known address is refreshed without installing its rule again. *)
MutLearnNoReinstall(m, p, applied) ==
    \/ /\ fdb_find(m) # {} /\ Refresh(m, p)
       /\ UNCHANGED <<rules, lost>>
    \/ /\ fdb_find(m) = {} /\ fdb_free # {}
       /\ fdb_table' = [fdb_table EXCEPT ![Min(fdb_free)] = NewEntry(m, p, FALSE)]
       /\ fdb_install_tcam(m, p, applied)

fdb_learn(m, p, applied) ==
    /\ \/ fdb_find(m) # {} /\ Refresh(m, p)
       \/ /\ fdb_find(m) = {} /\ fdb_free # {}
          /\ fdb_table' = [fdb_table EXCEPT ![Min(fdb_free)] = NewEntry(m, p, FALSE)]
    /\ fdb_install_tcam(m, p, applied)

fdb_add_static(m, p, applied) ==
    LET at == IF fdb_find(m) # {} THEN fdb_find(m) ELSE fdb_free
    IN  /\ at # {}
        /\ fdb_table' = [fdb_table EXCEPT ![Min(at)] = NewEntry(m, p, TRUE)]
        /\ fdb_install_tcam(m, p, applied)

(* Mutant: the entry is cleared before its dmac is read for the HAL call.  *)
MutDeleteEntryOnly(m, applied) ==
    /\ fdb_find(m) # {}
    /\ fdb_table' = [fdb_table EXCEPT ![Min(fdb_find(m))] = NoEntry]
    /\ UNCHANGED <<rules, lost>>

(* The result of hal_tcam_delete is ignored: the entry goes in any case.   *)
fdb_delete(m, applied) ==
    /\ fdb_find(m) # {}
    /\ fdb_table' = [fdb_table EXCEPT ![Min(fdb_find(m))] = NoEntry]
    /\ Revoke({TidOf[m]}, IF applied THEN {TidOf[m]} ELSE {})

(* Mutant: the static test is inverted.                                    *)
MutExpiredStatic(now) ==
    {i \in Valid : /\ fdb_table[i].is_static
                   /\ (now - fdb_table[i].age_ticks) % TimeMod >= AgeDynamic}

(* Dynamic entries with now_sec - age_ticks >= FDB_AGE_DYNAMIC, unsigned.  *)
Expired(now) ==
    {i \in Valid : /\ ~fdb_table[i].is_static
                   /\ (now - fdb_table[i].age_ticks) % TimeMod >= AgeDynamic}

(* One pass over the table; failed is the slots whose HAL delete is lost.  *)
fdb_age(now, failed) ==
    LET out   == Expired(now)
        ids(S) == {TidOf[fdb_table[i].dmac] : i \in S}
    IN  /\ fdb_table' = [i \in Slot |-> IF i \in out THEN NoEntry ELSE fdb_table[i]]
        /\ Revoke(ids(out), ids(out \ failed))

-----------------------------------------------------------------------------
(* main.                                                                   *)

Init ==
    /\ fdb_table = [i \in Slot |-> NoEntry]
    /\ rules = [t \in Tids |-> NoRule]
    /\ lost = {}
    /\ sec_tick = 0
    /\ boot = "arp_add"

(* arp_add of the gateway learns its MAC address before fdb_init runs.     *)
BootArpAdd(applied) ==
    /\ boot = "arp_add" /\ boot' = "fdb_init"
    /\ fdb_learn(GwMac, GwPort, applied)
    /\ UNCHANGED sec_tick

BootFdbInit ==
    /\ boot = "fdb_init" /\ boot' = "static1"
    /\ fdb_init
    /\ UNCHANGED <<rules, lost, sec_tick>>

BootStatic1(applied) ==
    /\ boot = "static1" /\ boot' = "static2"
    /\ fdb_add_static(GwMac, Static1Port, applied)
    /\ UNCHANGED sec_tick

BootStatic2(applied) ==
    /\ boot = "static2" /\ boot' = "loop"
    /\ fdb_add_static(Static2Mac, Static2Port, applied)
    /\ UNCHANGED sec_tick

(* ARP, from a punted packet or the CLI, learns an address.                *)
Learn(m, p, applied) ==
    /\ boot = "loop"
    /\ fdb_learn(m, p, applied)
    /\ UNCHANGED <<sec_tick, boot>>

AddStatic(m, p, applied) ==
    /\ boot = "loop"
    /\ fdb_add_static(m, p, applied)
    /\ UNCHANGED <<sec_tick, boot>>

Delete(m, applied) ==
    /\ boot = "loop"
    /\ fdb_delete(m, applied)
    /\ UNCHANGED <<sec_tick, boot>>

(* Mutant: the clock is not kept to its width.                             *)
MutSecondNoWrap(failed) ==
    /\ boot = "loop"
    /\ sec_tick' = sec_tick + 1
    /\ fdb_age(sec_tick', failed)
    /\ UNCHANGED boot

(* Every tenth pass of the loop: a second has passed.                      *)
Second(failed) ==
    /\ boot = "loop"
    /\ sec_tick' = (sec_tick + 1) % TimeMod
    /\ fdb_age(sec_tick', failed)
    /\ UNCHANGED boot

Boot ==
    \/ \E applied \in HalApplies : BootArpAdd(applied) \/ BootStatic1(applied) \/ BootStatic2(applied)
    \/ BootFdbInit

Call ==
    \E m \in Macs, applied \in HalApplies :
        \/ Delete(m, applied)
        \/ \E p \in Ports : Learn(m, p, applied) \/ AddStatic(m, p, applied)

Tick == \E failed \in SUBSET Slot : (FALSE \in HalApplies \/ failed = {}) /\ Second(failed)

Next == Boot \/ Call \/ Tick

Spec == Init /\ [][Next]_vars

(* main gets through its boot sequence and its loop never stops, which     *)
(* takes for granted that the loops inside it end: the punted packets are  *)
(* read until there is none (cp_main.c:137), what is typed likewise.       *)
FairSpec == Spec /\ WF_vars(Boot) /\ WF_vars(Tick)

-----------------------------------------------------------------------------
(* Properties.                                                             *)

(* fdb_find returns the first match, so two slots with one address would   *)
(* leave the second beyond the reach of every call: no address is ever in  *)
(* two slots.                                                              *)
OneEntryPerMac ==
    \A i, j \in Valid : fdb_table[i].dmac = fdb_table[j].dmac => i = j

(* The rule at an index, unless the HAL lost the last command for it,      *)
(* belongs to an address the table holds, with the port the table gives.   *)
Backed(t) ==
    rules[t] # NoRule /\ t \notin lost =>
        \E i \in Valid : /\ fdb_table[i].dmac = rules[t].dmac
                         /\ fdb_table[i].port = rules[t].port

(* Once main has booted, stage 2 never forwards on an address the firmware *)
(* has deleted, aged out or moved to another port, although addresses      *)
(* share rule indices and main learns the gateway before fdb_init wipes    *)
(* the table.                                                              *)
NoOrphanRule == boot = "loop" => \A t \in Tids : Backed(t)

(* The strengthening that makes NoOrphanRule inductive: a rule stands at   *)
(* its own address's index, and what boot has left so far.                 *)
RuleAtHome == \A t \in Tids : rules[t] # NoRule => TidOf[rules[t].dmac] = t

OnlyGateway == \A t \in Tids \ {TidOf[GwMac]} : rules[t] = NoRule

BootInv ==
    /\ boot \in {"arp_add", "static1"} => Valid = {}
    /\ boot \in {"arp_add", "fdb_init", "static1"} => OnlyGateway
    /\ boot \in {"static2", "loop"} => \A t \in Tids : Backed(t)

IInv == TypeOK /\ OneEntryPerMac /\ RuleAtHome /\ BootInv

(* An address in the table whose index no other address shares has its     *)
(* rule installed with its current port, unless the HAL lost the command:  *)
(* traffic to it is not flooded or misdirected.                            *)
Unshared(m) == \A n \in Macs \ {m} : TidOf[n] # TidOf[m]

UnsharedInstalled ==
    \A i \in Valid :
        LET m == fdb_table[i].dmac
        IN  Unshared(m) /\ TidOf[m] \notin lost =>
                rules[TidOf[m]] = [dmac |-> m, port |-> fdb_table[i].port]

(* A dynamic entry does not stay forever, even when sec_tick wraps and     *)
(* even when every HAL delete is lost.                                     *)
Dynamic(m) == \E i \in fdb_find(m) : ~fdb_table[i].is_static

DynamicForgotten == \A m \in Macs : Dynamic(m) ~> ~Dynamic(m)
=============================================================================
