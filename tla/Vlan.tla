------------------------------- MODULE Vlan -------------------------------
(***************************************************************************)
(* The VLANs of the firmware (sw/firmware/vlan.c): the database, the VLAN  *)
(* configuration of each port, the registers that mirror both, the stage-4 *)
(* rules that give a frame its VLAN and the stage-6 rules that strip or    *)
(* keep its tag, from main's boot sequence and the CLI.                    *)
(*                                                                         *)
(* vlan.c ignores what the HAL returns.  The CLI has no command for a      *)
(* port's mode; main sets it during boot.                                  *)
(*                                                                         *)
(* The model says which rules stand where, not which frames they match:    *)
(* the masks of vlan.c reach the TCAM with the opposite sense of a bit     *)
(* (README, section 5).                                                    *)
(***************************************************************************)
EXTENDS StageRules, Sequences

CONSTANTS
    Ports,           \* the ports in use, of 0..31
    Vlans,           \* the VLANs in use, of 1..VLAN_MAX_ID
    DefaultVlan,     \* VLAN_DEFAULT_ID
    VlanSpan,        \* the factor of VLAN_EGRESS_ENTRY: 256
    VlanDepth,       \* the entries of a stage's TCAM: 2048
    Any,             \* a tag field whose mask is 0
    VlanBootCalls,   \* main's calls after vlan_init, as records
    Commands,        \* the commands an operator types
    VlanMaxLost      \* bound: HAL commands lost at one time

None == 0        \* no VLAN: an untagged frame, a port before vlan_init
Mode == {"access", "trunk"}

VlanCalls ==
    [op : {"create", "delete"}, vlan : Vlans]
        \cup [op : {"add"}, vlan : Vlans, port : Ports, tagged : BOOLEAN]
        \cup [op : {"remove"}, vlan : Vlans, port : Ports]
        \cup [op : {"pvid"}, port : Ports, vlan : Vlans]
        \cup [op : {"mode"}, port : Ports, mode : Mode]

ASSUME VlanAssumption ==
    /\ Ports \subseteq Nat /\ Vlans \subseteq Nat \ {0} /\ DefaultVlan \in Vlans
    /\ VlanSpan \in Nat \ {0} /\ \A v \in Vlans : v < VlanSpan
    /\ VlanDepth \in Nat \ {0} /\ VlanDepth % VlanSpan = 0
    /\ \A p \in Ports : 2 * p + 1 < VlanDepth
    /\ VlanBootCalls \in Seq(VlanCalls)
    /\ \A c \in Commands : c \in VlanCalls /\ c.op # "mode"
    /\ VlanMaxLost \in Nat /\ Any \notin Vlans

VARIABLES
    vlan_db,    \* per VLAN: valid, member ports, ports that leave untagged
    port_cfg,   \* per port: pvid, mode
    vlan_csr,   \* the registers of HAL_BASE_VLAN
    ingress,    \* the rules of stage 4
    egress,     \* the rules of stage 6
    vlan_boot   \* main's next call: 0 vlan_init, then VlanBootCalls

vlan_vars == <<vlan_db, port_cfg, vlan_csr, ingress, egress, vlan_boot>>

VLAN_INGRESS_ENTRY(p, tagged) == 2 * p + tagged

(* Mutant: the port is shifted by one bit too few.                         *)
MutEgressEntry(p, v) == (p * (VlanSpan \div 2) + v) % VlanDepth

(* The index in the TCAM: eight ports apart, two ports share it.           *)
VLAN_EGRESS_ENTRY(p, v) == (p * VlanSpan + v) % VlanDepth

InIndex == {VLAN_INGRESS_ENTRY(p, t) : p \in Ports, t \in {0, 1}}
EgIndex == {VLAN_EGRESS_ENTRY(p, v) : p \in Ports, v \in Vlans}

InRule == [port : Ports, tci : Vlans \cup {Any}, action : {"assign_pvid", "accept_tagged"},
           meta : Vlans \cup {None}]
EgRule == [port : Ports, vlan : Vlans, action : {"strip", "keep"}]

ASSUME VlanRuleAssumption == NoRule \notin EgRule /\ NoRule \notin InRule

VlanTypeOK ==
    /\ vlan_db \in [Vlans -> [valid : BOOLEAN, member : SUBSET Ports, untagged : SUBSET Ports]]
    /\ port_cfg \in [Ports -> [pvid : Vlans \cup {None}, mode : Mode]]
    /\ vlan_csr \in [port : [Ports -> [pvid : Vlans \cup {None}, mode : Mode]],
                     member : [Vlans -> SUBSET Ports], untagged : [Vlans -> SUBSET Ports]]
    /\ ingress \in StageOf(InIndex, InRule)
    /\ egress \in StageOf(EgIndex, EgRule)
    /\ vlan_boot \in 0 .. Len(VlanBootCalls) + 1

-----------------------------------------------------------------------------
(* The rules a call installs.  A fate says whether a command was applied.  *)

Stale == Cardinality(ingress.lost) + Cardinality(egress.lost)
Fates == IF Stale < VlanMaxLost THEN BOOLEAN ELSE {TRUE}

install_ingress_rule(stage, p, tagged, tci, action, meta, applied) ==
    hal_tcam_insert(stage, VLAN_INGRESS_ENTRY(p, tagged),
                    [port |-> p, tci |-> tci, action |-> action, meta |-> meta], applied)

(* Both modes give the first rule a mask of 0 for the tag.  cfg is the     *)
(* configuration just written.                                             *)
vlan_install_port_rules(p, cfg) ==
    \E first, second \in Fates :
        LET pvid == cfg[p].pvid
            untagged == install_ingress_rule(ingress, p, 0, Any, "assign_pvid", pvid, first)
        IN  ingress' =
              IF cfg[p].mode = "access"
              THEN install_ingress_rule(untagged, p, 1, pvid, "accept_tagged", pvid, second)
              ELSE install_ingress_rule(untagged, p, 1, Any, "accept_tagged", None, second)

(* Mutant: VLANs are numbered from zero in the key.                        *)
MutEgressRuleFromZero(stage, p, v, action, applied) ==
    hal_tcam_insert(stage, VLAN_EGRESS_ENTRY(p, v),
                    [port |-> p, vlan |-> v - 1, action |-> action], applied)

install_egress_rule(stage, p, v, action, applied) ==
    hal_tcam_insert(stage, VLAN_EGRESS_ENTRY(p, v),
                    [port |-> p, vlan |-> v, action |-> action], applied)

hal_vlan_member_set(v, member, untagged) ==
    vlan_csr' = [vlan_csr EXCEPT !.member[v] = member, !.untagged[v] = untagged]

SetDb(v, entry) ==
    /\ vlan_db' = [vlan_db EXCEPT ![v] = entry]
    /\ hal_vlan_member_set(v, entry.member, entry.untagged)

NoVlan == [valid |-> FALSE, member |-> {}, untagged |-> {}]

-----------------------------------------------------------------------------
(* The calls of vlan.h.  A call that returns INVAL, and the creation of a  *)
(* VLAN that exists, change nothing and are no step.                       *)

(* Every port becomes an untagged member of the default VLAN, which gets   *)
(* the egress rules; no ingress rule is installed.                         *)
vlan_init ==
    LET start == [p \in Ports |-> [pvid |-> DefaultVlan, mode |-> "access"]]
        rule(t) == [port |-> Max({p \in Ports : VLAN_EGRESS_ENTRY(p, DefaultVlan) = t}),
                    vlan |-> DefaultVlan, action |-> "strip"]
        all == {VLAN_EGRESS_ENTRY(p, DefaultVlan) : p \in Ports}
    IN  /\ port_cfg' = start
        /\ vlan_db' = [v \in Vlans |->
              IF v = DefaultVlan
              THEN [valid |-> TRUE, member |-> Ports, untagged |-> Ports] ELSE NoVlan]
        /\ vlan_csr' = [port |-> start,
                        member |-> [vlan_csr.member EXCEPT ![DefaultVlan] = Ports],
                        untagged |-> [vlan_csr.untagged EXCEPT ![DefaultVlan] = Ports]]
        /\ \E failed \in SUBSET all :
              /\ Cardinality(failed) <= VlanMaxLost
              /\ egress' = [at |-> [t \in EgIndex |->
                                IF t \in all \ failed THEN rule(t) ELSE egress.at[t]],
                            lost |-> (egress.lost \ all) \cup failed]
        /\ UNCHANGED ingress

vlan_create(v) ==
    /\ ~vlan_db[v].valid
    /\ SetDb(v, [NoVlan EXCEPT !.valid = TRUE])
    /\ UNCHANGED <<port_cfg, ingress, egress>>

(* Mutant: the member set is cleared before it is walked.                  *)
MutDeleteForgetsMembers(v) ==
    /\ vlan_db[v].valid
    /\ SetDb(v, NoVlan)
    /\ UNCHANGED <<port_cfg, ingress, egress>>

(* The members' egress rules go; a port whose PVID it is keeps it.         *)
vlan_delete(v) ==
    LET asked == {VLAN_EGRESS_ENTRY(p, v) : p \in vlan_db[v].member}
    IN  /\ vlan_db[v].valid
        /\ SetDb(v, NoVlan)
        /\ \E failed \in SUBSET asked :
              /\ failed # {} => Stale + Cardinality(failed) <= VlanMaxLost
              /\ egress' = hal_tcam_delete_all(egress, asked, asked \ failed)
        /\ UNCHANGED <<port_cfg, ingress>>

vlan_port_add(v, p, tagged) ==
    LET old == vlan_db[v]
    IN  /\ old.valid
        /\ SetDb(v, [old EXCEPT !.member = @ \cup {p},
                                !.untagged = IF tagged THEN @ \ {p} ELSE @ \cup {p}])
        /\ \E applied \in Fates :
              egress' = install_egress_rule(egress, p, v,
                                            IF tagged THEN "keep" ELSE "strip", applied)
        /\ UNCHANGED <<port_cfg, ingress>>

(* The rule at the index goes whether or not the port was a member.        *)
vlan_port_remove(v, p) ==
    LET old == vlan_db[v]
    IN  /\ old.valid
        /\ SetDb(v, [old EXCEPT !.member = @ \ {p}, !.untagged = @ \ {p}])
        /\ \E applied \in Fates :
              egress' = hal_tcam_delete(egress, VLAN_EGRESS_ENTRY(p, v), applied)
        /\ UNCHANGED <<port_cfg, ingress>>

SetPort(cfg) ==
    /\ port_cfg' = cfg
    /\ vlan_csr' = [vlan_csr EXCEPT !.port = cfg]
    /\ UNCHANGED <<vlan_db, egress>>

(* The VLAN need not exist.                                                *)
vlan_port_set_pvid(p, v) ==
    LET cfg == [port_cfg EXCEPT ![p].pvid = v]
    IN  SetPort(cfg) /\ vlan_install_port_rules(p, cfg)

(* Mutant: the rules are those of the mode before.                         *)
MutModeRulesFirst(p, mode) ==
    LET cfg == [port_cfg EXCEPT ![p].mode = mode]
    IN  SetPort(cfg) /\ vlan_install_port_rules(p, port_cfg)

vlan_port_set_mode(p, mode) ==
    LET cfg == [port_cfg EXCEPT ![p].mode = mode]
    IN  SetPort(cfg) /\ vlan_install_port_rules(p, cfg)

-----------------------------------------------------------------------------
(* main and the CLI.                                                       *)

VlanInit ==
    /\ vlan_db = [v \in Vlans |-> NoVlan]
    /\ port_cfg = [p \in Ports |-> [pvid |-> None, mode |-> "access"]]
    /\ vlan_csr = [port |-> port_cfg, member |-> [v \in Vlans |-> {}],
                   untagged |-> [v \in Vlans |-> {}]]
    /\ ingress = EmptyStage(InIndex)
    /\ egress = EmptyStage(EgIndex)
    /\ vlan_boot = 0

DoVlan(c) ==
    \/ c.op = "create" /\ vlan_create(c.vlan)
    \/ c.op = "delete" /\ vlan_delete(c.vlan)
    \/ c.op = "add"    /\ vlan_port_add(c.vlan, c.port, c.tagged)
    \/ c.op = "remove" /\ vlan_port_remove(c.vlan, c.port)
    \/ c.op = "pvid"   /\ vlan_port_set_pvid(c.port, c.vlan)
    \/ c.op = "mode"   /\ vlan_port_set_mode(c.port, c.mode)

VlanBootInit ==
    /\ vlan_boot = 0 /\ vlan_boot' = 1
    /\ vlan_init

VlanBootCall ==
    /\ vlan_boot \in DOMAIN VlanBootCalls /\ vlan_boot' = vlan_boot + 1
    /\ DoVlan(VlanBootCalls[vlan_boot])

(* cmd_vlan: the numbers are checked against 1..255 and 0..31 first.       *)
VlanCommand(c) ==
    /\ vlan_boot = Len(VlanBootCalls) + 1
    /\ DoVlan(c)
    /\ UNCHANGED vlan_boot

VlanNext == VlanBootInit \/ VlanBootCall \/ \E c \in Commands : VlanCommand(c)

VlanSpec == VlanInit /\ [][VlanNext]_vlan_vars

-----------------------------------------------------------------------------
(* The database, the registers and the rules.                              *)

WantedTag(p, v) ==
    IF p \in vlan_db[v].untagged THEN "strip"
    ELSE IF p \in vlan_db[v].member THEN "keep" ELSE "none"

(* No other port has p's index in VLAN v.                                  *)
Alone(p, v) ==
    \A q \in Ports \ {p} : VLAN_EGRESS_ENTRY(q, v) # VLAN_EGRESS_ENTRY(p, v)

(* The database, the registers and the egress rules agree on who is in a   *)
(* VLAN and who leaves untagged, unless a rule's last command was lost.    *)
(* Every rule, wherever it stands, is that of a member of its VLAN and     *)
(* does what the database asks: none is left of a VLAN that was deleted or *)
(* of a port that left, although deletes go by index.  A member that       *)
(* shares its index with no other port has its rule.                       *)
MembershipAgrees ==
    /\ \A v \in Vlans :
          vlan_csr.member[v] = vlan_db[v].member /\ vlan_csr.untagged[v] = vlan_db[v].untagged
    /\ \A t \in Installed(egress) \ egress.lost :
          egress.at[t].action = WantedTag(egress.at[t].port, egress.at[t].vlan)
    /\ \A v \in Vlans : \A p \in vlan_db[v].member :
          LET t == VLAN_EGRESS_ENTRY(p, v)
          IN  Alone(p, v) /\ t \notin egress.lost =>
                  egress.at[t] = [port |-> p, vlan |-> v, action |-> WantedTag(p, v)]

(* The rules a port's present configuration asks for.                      *)
PortRule(p, tagged) ==
    LET pvid == port_cfg[p].pvid
    IN  IF tagged = 0
        THEN [port |-> p, tci |-> Any, action |-> "assign_pvid", meta |-> pvid]
        ELSE IF port_cfg[p].mode = "access"
        THEN [port |-> p, tci |-> pvid, action |-> "accept_tagged", meta |-> pvid]
        ELSE [port |-> p, tci |-> Any, action |-> "accept_tagged", meta |-> None]

(* A port's two ingress rules and its register are those of its present    *)
(* PVID and mode, in whatever order these were set, unless a rule's last   *)
(* command was lost, and a port has both rules or, until it is first       *)
(* configured, neither.                                                    *)
PortRulesAgree ==
    \A p \in Ports :
        LET t(tagged)     == VLAN_INGRESS_ENTRY(p, tagged)
            asked(tagged) == ingress.at[t(tagged)] # NoRule \/ t(tagged) \in ingress.lost
        IN  /\ vlan_csr.port[p] = port_cfg[p]
            /\ asked(0) <=> asked(1)
            /\ \A tagged \in {0, 1} :
                  asked(tagged) /\ t(tagged) \notin ingress.lost =>
                      ingress.at[t(tagged)] = PortRule(p, tagged)

(* A call changes the egress rules of one VLAN at most: the indices of     *)
(* ports eight apart meet, but never those of different VLANs.             *)
RulesOf(v) == {t \in EgIndex : egress.at[t] # NoRule /\ egress.at[t].vlan = v}

OneVlanPerCall ==
    [][\A v, w \in Vlans :
          v # w =>
            \/ \A t \in RulesOf(v) : egress'.at[t] = egress.at[t]
            \/ \A t \in RulesOf(w) : egress'.at[t] = egress.at[t]
            ]_vlan_vars
=============================================================================
