-------------------------------- MODULE Acl --------------------------------
(***************************************************************************)
(* The access rules of the firmware (sw/firmware/acl.c) beside the stage-1 *)
(* rules it installs, from main's boot sequence and the CLI.               *)
(*                                                                         *)
(* Each add takes the next rule id, a counter of 16 bits that never goes   *)
(* back, even for an add that fails; the rule stands at the index the id   *)
(* gives in the TCAM, which is smaller than the counter's range.  Of rules *)
(* that match a packet the TCAM takes the one with the lowest index.       *)
(*                                                                         *)
(* The model says which rules stand where, not which packets they match:   *)
(* the masks of acl.c reach the TCAM with the opposite sense of a bit      *)
(* (README, section 5).  A rule's addresses and masks are one value.       *)
(***************************************************************************)
EXTENDS StageRules

CONSTANTS
    PrefixPairs,            \* source and destination, with masks, that rules are for
    Dports,                 \* the destination ports an operator types
    PortMod,                \* 2^16: acl_add_deny takes the port modulo this
    ACL_TABLE_SIZE,         \* the slots of the software table
    IdMod,                  \* acl_next_id counts modulo this: 2^16
    AclDepth,               \* the entries of the TCAM: 2^11
    TypedIds,               \* the ids an operator types at "acl del"
    BootPair, BootDport,    \* what main's rule denies
    AclFates,               \* the fates of a HAL command: TRUE applied, FALSE lost
    NoAcl                   \* a slot with valid = 0

AclSlot  == 0 .. ACL_TABLE_SIZE - 1
Id       == 0 .. IdMod - 1
AclIndex == 0 .. AclDepth - 1
Port     == 0 .. PortMod - 1
AclRule  == [pair : PrefixPairs, dport : Port, action : {"deny", "permit"}]
AclEntry == [rule : AclRule, rule_id : Id]

ASSUME AclSizeAssumption ==
    /\ ACL_TABLE_SIZE \in Nat \ {0} /\ AclDepth \in Nat \ {0} /\ PortMod \in Nat \ {0}
    /\ IdMod \in Nat /\ IdMod >= AclDepth
ASSUME AclInputAssumption ==
    /\ BootPair \in PrefixPairs
    /\ Dports \subseteq Nat /\ BootDport \in Dports /\ TypedIds \subseteq Nat
ASSUME AclFatesAssumption == TRUE \in AclFates /\ AclFates \subseteq BOOLEAN
ASSUME NoAclAssumption == NoAcl \notin AclEntry /\ NoRule \notin AclRule

VARIABLES
    acl_table,     \* the software table
    acl_next_id,   \* the next rule id
    stage1,        \* the rules of stage 1
    adds,          \* history: ids taken since acl_init, at most IdMod + 1
    acl_boot       \* main's next call

acl_vars == <<acl_table, acl_next_id, stage1, adds, acl_boot>>

AclTypeOK ==
    /\ acl_table \in [AclSlot -> AclEntry \cup {NoAcl}]
    /\ acl_next_id \in Id
    /\ stage1 \in StageOf(AclIndex, AclRule)
    /\ adds \in 0 .. IdMod + 1
    /\ acl_boot \in {"acl_init", "deny", "loop"}

-----------------------------------------------------------------------------
(* The calls of acl.h.                                                     *)

AclValid    == {i \in AclSlot : acl_table[i] # NoAcl}
Named(id)   == {i \in AclValid : acl_table[i].rule_id = id}

IndexOf(id) == id % AclDepth

(* Mutant: the counter is not kept to its width.                           *)
MutTakeIdNoWrap ==
    /\ acl_next_id' = acl_next_id + 1
    /\ adds' = Min({adds + 1, IdMod + 1})

TakeId ==
    /\ acl_next_id' = (acl_next_id + 1) % IdMod
    /\ adds' = Min({adds + 1, IdMod + 1})

acl_init ==
    /\ acl_table' = [i \in AclSlot |-> NoAcl]
    /\ acl_next_id' = 0
    /\ adds' = 0

(* acl_add_deny and acl_add_permit: an add the HAL fails leaves the slot   *)
(* free and the TCAM as it was, but has taken an id.  FULL is no step.     *)
acl_add(rule, applied) ==
    /\ AclSlot \ AclValid # {}
    /\ acl_table' = IF applied
                    THEN [acl_table EXCEPT ![Min(AclSlot \ AclValid)] =
                            [rule |-> rule, rule_id |-> acl_next_id]]
                    ELSE acl_table
    /\ stage1' = IF applied
                THEN hal_tcam_insert(stage1, IndexOf(acl_next_id), rule, TRUE) ELSE stage1
    /\ TakeId

acl_add_deny(pair, dport, applied) ==
    acl_add([pair |-> pair, dport |-> dport % PortMod, action |-> "deny"], applied)

(* A permit rule has no port in its key.                                   *)
acl_add_permit(pair, applied) ==
    acl_add([pair |-> pair, dport |-> 0, action |-> "permit"], applied)

(* Mutant: the rule is removed at the slot's number instead of the id's.   *)
MutDeleteBySlot(id, applied) ==
    /\ Named(id) # {}
    /\ acl_table' = [acl_table EXCEPT ![Min(Named(id))] = NoAcl]
    /\ stage1' = hal_tcam_delete(stage1, IndexOf(Min(Named(id))), applied)
    /\ UNCHANGED <<acl_next_id, adds>>

(* Mutant: the id of a deleted rule is used again.                         *)
MutDeleteReusesId(id, applied) ==
    /\ Named(id) # {}
    /\ acl_table' = [acl_table EXCEPT ![Min(Named(id))] = NoAcl]
    /\ stage1' = hal_tcam_delete(stage1, IndexOf(id), applied)
    /\ acl_next_id' = id /\ UNCHANGED adds

(* The entry goes before the HAL is asked, and does not come back if it    *)
(* fails.  An id no slot has is INVAL and no step.                         *)
acl_delete(id, applied) ==
    /\ Named(id) # {}
    /\ acl_table' = [acl_table EXCEPT ![Min(Named(id))] = NoAcl]
    /\ stage1' = hal_tcam_delete(stage1, IndexOf(id), applied)
    /\ UNCHANGED <<acl_next_id, adds>>

-----------------------------------------------------------------------------
(* main and the CLI.                                                       *)

AclInit ==
    /\ acl_table = [i \in AclSlot |-> NoAcl]
    /\ acl_next_id = 0 /\ adds = 0
    /\ stage1 = EmptyStage(AclIndex)
    /\ acl_boot = "acl_init"

AclBootInit ==
    /\ acl_boot = "acl_init" /\ acl_boot' = "deny"
    /\ acl_init
    /\ UNCHANGED stage1

BootDeny(applied) ==
    /\ acl_boot = "deny" /\ acl_boot' = "loop"
    /\ acl_add_deny(BootPair, BootDport, applied)

(* cmd_acl: the port and the id are cut to 16 bits on the way.             *)
Deny(pair, dport, applied) ==
    acl_boot = "loop" /\ acl_add_deny(pair, dport, applied) /\ UNCHANGED acl_boot

Permit(pair, applied) ==
    acl_boot = "loop" /\ acl_add_permit(pair, applied) /\ UNCHANGED acl_boot

AclDelete(typed, applied) ==
    acl_boot = "loop" /\ acl_delete(typed % IdMod, applied) /\ UNCHANGED acl_boot

AclNext ==
    \/ AclBootInit
    \/ \E applied \in AclFates :
          \/ BootDeny(applied)
          \/ \E pair \in PrefixPairs :
                Permit(pair, applied) \/ \E dport \in Dports : Deny(pair, dport, applied)
          \/ \E typed \in TypedIds : AclDelete(typed, applied)

AclSpec == AclInit /\ [][AclNext]_acl_vars

-----------------------------------------------------------------------------
(* The table and the rules.                                                *)

(* A rule in the TCAM is that of an entry, unless the HAL lost the delete: *)
(* a rule the operator removed does not go on deciding, even after the     *)
(* counter has wrapped onto live rules.                                    *)
AclBacked(t) ==
    stage1.at[t] # NoRule /\ t \notin stage1.lost =>
        \E i \in AclValid : IndexOf(acl_table[i].rule_id) = t /\ acl_table[i].rule = stage1.at[t]

NoOrphanRule == \A t \in AclIndex : AclBacked(t)

(* Until more ids have been taken than the TCAM has entries, order in the  *)
(* TCAM is order of age: every entry's rule stands at the entry's index,   *)
(* and a rule that is added takes an index above all that stand, so that   *)
(* of two rules for one packet the older has the say.  This is so whatever *)
(* adds failed, whatever slot the entry took, and also beside rules whose  *)
(* delete the HAL lost.                                                    *)
OlderGoesFirst ==
    [][adds' <= AclDepth =>
          \A i \in AclValid' :
              LET t == IndexOf(acl_table'[i].rule_id)
              IN  /\ stage1'.at[t] = acl_table'[i].rule
                  /\ i \notin AclValid => \A u \in Installed(stage1) : u < t]_acl_vars
=============================================================================
