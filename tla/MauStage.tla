------------------------------ MODULE MauStage ------------------------------
(***************************************************************************)
(* One match-action stage (rtl/mau/mau_stage.sv, mau_tcam.sv, mau_hash.sv) *)
(* with the write port through which the table update engine changes its   *)
(* rules (rtl/tue/tue.sv) while header vectors are in its pipeline.        *)
(*                                                                         *)
(* Every step is one clk_dp edge.  Four pipeline registers move at once:   *)
(* the key is latched, then looked up, then the action is read, then the   *)
(* ALU executes it.  All of them read the memories as they were before the *)
(* edge; a write takes effect with it.                                     *)
(*                                                                         *)
(* A header vector is the key it carries.  A rule's key and mask are the   *)
(* set of keys they match.  What the ALU makes of a vector is left as the  *)
(* vector with the action and the hash it was given.                       *)
(***************************************************************************)
EXTENDS Integers, FiniteSetsExt

CONSTANTS
    Keys,       \* the match keys of header vectors
    Matches,    \* the key and mask pairs of rules, each the keys it matches
    Acts,       \* the actions
    Cmds,       \* the commands of the update engine
    TableIds,   \* the rule indices, 16 bits in the code
    AddrMod,    \* MAU_TCAM_DEPTH
    Gap,        \* edges from one header vector to the next: 5, the parser's
    Act0,       \* the action SRAM's content before any write
    Bubble,     \* a pipeline register with valid = 0
    NoHit,      \* no rule matched
    NoAct,      \* the ALU leaves the vector alone
    NoRule,     \* a TCAM entry with valid = 0
    NoWrite     \* the write enables are low

Addrs   == 0 .. AddrMod - 1
Rule    == [match : Matches, ptr : TableIds]
Write   == [cmd : {"INSERT"}, table_id : TableIds, match : Matches, act : Acts]
           \cup [cmd : Cmds \ {"INSERT"}, table_id : TableIds, act : Acts]
Verdict == Acts \cup {NoAct}

ASSUME StageAssumption ==
    /\ Matches \subseteq SUBSET Keys /\ Matches # {}
    /\ Act0 \in Acts /\ NoAct \notin Acts
    /\ Cmds \subseteq {"INSERT", "DELETE", "MODIFY", "FLUSH"}
    /\ TableIds \subseteq Nat /\ NoHit \notin TableIds
    /\ AddrMod \in Nat \ {0} /\ \A a \in Addrs : a \in TableIds
    /\ Bubble \notin Keys /\ NoRule \notin Rule /\ NoWrite \notin Write

(* The parser takes five edges for the shortest frame.  The hash unit      *)
(* needs two: the stage does not take the vector on every edge that its    *)
(* header promises.                                                        *)
ASSUME GapAssumption == Gap \in Nat /\ Gap >= 2

VARIABLES
    ready,      \* phv_out.ready, which is phv_in.ready
    wait,       \* edges before the parser can offer another vector
    s0, s1, s2, \* phv_s0, phv_s1, phv_s2 where valid
    s3,         \* the output register
    match_key,  \* the key register, which a bubble leaves as it is
    hash,       \* the key of which hash_result is the hash
    found,      \* action_ptr of the lookup, where it hit
    act,        \* what the action SRAM gave
    tcam, asram,
    said        \* history: of the vectors in s1, s2 and s3, what the rules
                \* said before and after the edge of their lookup, and
                \* whether that edge took away the rule they hit

pipe == <<s0, s1, s2, s3, match_key, hash, found, act>>
vars == <<ready, wait, pipe, tcam, asram, said>>

Out  == [key : Keys, act : Verdict, hash : Keys \cup {Bubble}]
Said == [may : SUBSET Verdict, gone : BOOLEAN]

TypeOK ==
    /\ ready \in BOOLEAN /\ wait \in 0 .. Gap - 1
    /\ s0 \in Keys \cup {Bubble} /\ s1 \in Keys \cup {Bubble} /\ s2 \in Keys \cup {Bubble}
    /\ s3 \in Out \cup {Bubble}
    /\ match_key \in Keys \cup {Bubble} /\ hash \in Keys \cup {Bubble}
    /\ found \in TableIds \cup {NoHit}
    /\ act \in Verdict
    /\ tcam \in [Addrs -> Rule \cup {NoRule}] /\ asram \in [TableIds -> Acts]
    /\ said \in [1 .. 3 -> Said]

-----------------------------------------------------------------------------
(* The rules: the lowest index that matches wins.                          *)

Hits(tab, k) == {a \in Addrs : tab[a] # NoRule /\ k \in tab[a].match}

Lookup(tab, k) == IF Hits(tab, k) = {} THEN NoHit ELSE tab[Min(Hits(tab, k))].ptr

(* What the rules of one moment say of a key.                              *)
Says(tab, acts, k) == IF Lookup(tab, k) = NoHit THEN NoAct ELSE acts[Lookup(tab, k)]

(* The write takes the rule that a lookup finds from under it: not FLUSH,  *)
(* which leaves the TCAM alone, and not INSERT of the same match again.    *)
TakesAway(w, p) ==
    /\ w # NoWrite /\ w.table_id = p
    /\ w.cmd # "FLUSH"
    /\ w.cmd = "INSERT" => w.match # tcam[p % AddrMod].match

-----------------------------------------------------------------------------
(* One clk_dp edge.                                                        *)

(* Mutant: the key register is cleared with the valid bit.                 *)
MutCrossbar(in) ==
    IF in # Bubble /\ ready
    THEN s0' = in /\ match_key' = in /\ wait' = Gap - 1
    ELSE s0' = Bubble /\ match_key' = Bubble /\ wait' = IF wait > 0 THEN wait - 1 ELSE 0

(* Sub-stage 0.                                                            *)
Crossbar(in) ==
    IF in # Bubble /\ ready
    THEN s0' = in /\ match_key' = in /\ wait' = Gap - 1
    ELSE s0' = Bubble /\ wait' = (IF wait > 0 THEN wait - 1 ELSE 0) /\ UNCHANGED match_key

(* Sub-stage 1: without a vector the result of the last lookup stays.      *)
Match ==
    /\ s1' = s0
    /\ found' = IF s0 = Bubble THEN found ELSE Lookup(tcam, s0)

(* Mutant: on a miss the action register keeps its content.                *)
MutReadAction ==
    /\ s2' = s1
    /\ act' = IF found = NoHit THEN act ELSE asram[found]

(* Sub-stage 2.                                                            *)
ReadAction ==
    /\ s2' = s1
    /\ act' = IF found = NoHit THEN NoAct ELSE asram[found]

(* Sub-stage 3.  The output register moves on, taken or not.               *)
Execute == s3' = IF s2 = Bubble THEN Bubble ELSE [key |-> s2, act |-> act, hash |-> hash]

(* The hash unit is one register long: it follows the key register.        *)
Hash == hash' = match_key

(* Mutant: every command but INSERT clears the action.                    *)
MutWriteRule(w) ==
    /\ tcam' = IF w = NoWrite THEN tcam ELSE IF w.cmd = "FLUSH" THEN tcam
               ELSE [tcam EXCEPT ![w.table_id % AddrMod] =
                        IF w.cmd = "INSERT" THEN [match |-> w.match, ptr |-> w.table_id]
                                            ELSE NoRule]
    /\ asram' = IF w = NoWrite THEN asram
                ELSE [asram EXCEPT ![w.table_id] = IF w.cmd = "INSERT" THEN w.act ELSE NoAct]

(* The update engine's write enables: FLUSH leaves the TCAM alone, INSERT  *)
(* alone makes the entry valid, and every command writes the action SRAM.  *)
(* The action of a command that sets none is that of an earlier one, to    *)
(* any stage; so is the key, which an entry that is not valid does not     *)
(* show.                                                                   *)
WriteRule(w) ==
    /\ tcam' = IF w = NoWrite THEN tcam ELSE IF w.cmd = "FLUSH" THEN tcam
               ELSE [tcam EXCEPT ![w.table_id % AddrMod] =
                        IF w.cmd = "INSERT" THEN [match |-> w.match, ptr |-> w.table_id]
                                            ELSE NoRule]
    /\ asram' = IF w = NoWrite THEN asram ELSE [asram EXCEPT ![w.table_id] = w.act]

Nothing == [may |-> {}, gone |-> FALSE]

Remember(w) ==
    said' = [said EXCEPT
        ![1] = IF s0 = Bubble THEN Nothing
               ELSE [may  |-> {Says(tcam, asram, s0), Says(tcam', asram', s0)},
                     gone |-> TakesAway(w, Lookup(tcam, s0))],
        ![2] = said[1],
        ![3] = said[2]]

Edge(in, w) ==
    /\ in # Bubble => wait = 0
    /\ ready' \in BOOLEAN
    /\ Crossbar(in) /\ Match /\ ReadAction /\ Execute /\ Hash
    /\ WriteRule(w)
    /\ Remember(w)

Init ==
    /\ ready \in BOOLEAN /\ wait = 0
    /\ s0 = Bubble /\ s1 = Bubble /\ s2 = Bubble /\ s3 = Bubble
    /\ match_key = Bubble /\ hash = Bubble
    /\ found = NoHit /\ act = NoAct
    /\ tcam = [a \in Addrs |-> NoRule]
    /\ asram = [t \in TableIds |-> Act0]
    /\ said = [i \in 1 .. 3 |-> Nothing]

Next == \E in \in Keys \cup {Bubble}, w \in Write \cup {NoWrite} : Edge(in, w)

Spec == Init /\ [][Next]_vars

-----------------------------------------------------------------------------
(* Properties.                                                             *)

(* A vector leaves with what the rules said of it before or after the edge *)
(* on which it was looked up, although its action is read an edge later,   *)
(* bubbles leave the lookup's result standing and rules are written on any *)
(* edge; the rules may change under it only when the one it hit is taken   *)
(* away on that edge.                                                      *)
UntornVerdict == s3 # Bubble /\ ~said[3].gone => s3.act \in said[3].may

(* The strengthening that makes UntornVerdict inductive: a rule stands at  *)
(* its own address, what the lookup found still gives a verdict that the   *)
(* rules of that edge allow, and so does the action that was read.         *)
RuleAtHome == \A a \in Addrs : tcam[a] # NoRule => tcam[a].ptr % AddrMod = a

VerdictInv ==
    /\ RuleAtHome
    /\ s1 # Bubble /\ ~said[1].gone =>
          (IF found = NoHit THEN NoAct ELSE asram[found]) \in said[1].may
    /\ s2 # Bubble /\ ~said[2].gone => act \in said[2].may
    /\ UntornVerdict

(* A vector leaves with the hash of its own key, although the hash unit is *)
(* an edge shorter than the way to the ALU.                                *)
OwnHash == s3 # Bubble => s3.hash = s3.key

(* The strengthening for OwnHash: the key register keeps a vector's key    *)
(* until the vector has its hash, because no other follows at once.        *)
HashInv ==
    /\ s0 # Bubble => match_key = s0 /\ wait > 0
    /\ s1 # Bubble => match_key = s1 /\ hash = s1
    /\ s2 # Bubble => hash = s2
    /\ OwnHash
=============================================================================
