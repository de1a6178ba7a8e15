----------------------------- MODULE TcamTable -----------------------------
(***************************************************************************)
(* What the firmware may rely on when it changes the match-action tables:  *)
(* a HAL call replaces or removes exactly one rule, at one instant between *)
(* the call and its return, and every call returns.  Tue implements it.    *)
(*                                                                         *)
(* A rule stands at an address: the low bits of the table_id, as many as   *)
(* the TCAM has.                                                           *)
(***************************************************************************)
EXTENDS Integers

CONSTANTS
    Stages,    \* the match-action stages
    AddrMod,   \* the entries of one stage's TCAM
    Rule,      \* the rules an entry can hold: records with a key and an act
    Ops,       \* the calls: records with cmd, stage, table_id, key and act
    NoRule,    \* an entry with no rule
    NoCall     \* the firmware is not in a call

VARIABLES
    table,     \* the rule at each address of each stage
    call,      \* the call in progress
    applied    \* whether it has taken effect

vars == <<table, call, applied>>

Addrs == 0 .. AddrMod - 1

TypeOK ==
    /\ table \in [Stages -> [Addrs -> Rule \cup {NoRule}]]
    /\ call \in Ops \cup {NoCall}
    /\ applied \in BOOLEAN

RuleOf(o) == IF o.cmd = "INSERT" THEN [key |-> o.key, act |-> o.act] ELSE NoRule

Init ==
    /\ table = [s \in Stages |-> [a \in Addrs |-> NoRule]]
    /\ call = NoCall
    /\ applied = FALSE

Call(o) ==
    /\ call = NoCall
    /\ call' = o
    /\ applied' = FALSE
    /\ UNCHANGED table

(* A call whose stage is the parser's leaves every rule alone.             *)
Apply ==
    /\ call # NoCall /\ ~applied
    /\ applied' = TRUE
    /\ \/ /\ call.stage \in Stages
          /\ table' = [table EXCEPT ![call.stage][call.table_id % AddrMod] = RuleOf(call)]
       \/ call.stage \notin Stages /\ UNCHANGED table
    /\ UNCHANGED call

Return ==
    /\ call # NoCall /\ applied
    /\ call' = NoCall
    /\ UNCHANGED <<table, applied>>

Next == (\E o \in Ops : Call(o)) \/ Apply \/ Return

Spec == Init /\ [][Next]_vars /\ WF_vars(Apply) /\ WF_vars(Return)
=============================================================================
