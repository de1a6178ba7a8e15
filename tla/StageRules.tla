----------------------------- MODULE StageRules -----------------------------
(***************************************************************************)
(* The rules of one match-action stage as the control-plane modules change *)
(* them through the HAL: one command replaces or removes the rule at one   *)
(* index of the TCAM, or is not applied (hal_tcam_insert, hal_tcam_delete  *)
(* returning BUSY or TIMEOUT before COMMIT).  Tue and TcamTable model the  *)
(* command itself.                                                         *)
(*                                                                         *)
(* A stage is a record: at, the rule at each index, and lost, a history:   *)
(* the indices whose last command was not applied.                         *)
(***************************************************************************)
EXTENDS Integers, FiniteSetsExt

CONSTANT NoRule    \* an index with no valid rule

(* The stages with the entries Index and rules of Rule.                    *)
StageOf(Index, Rule) == [at : [Index -> Rule \cup {NoRule}], lost : SUBSET Index]

EmptyStage(Index) == [at |-> [t \in Index |-> NoRule], lost |-> {}]

hal_tcam_insert(stage, t, rule, applied) ==
    IF applied
    THEN [at |-> [stage.at EXCEPT ![t] = rule], lost |-> stage.lost \ {t}]
    ELSE [stage EXCEPT !.lost = @ \cup {t}]

hal_tcam_delete(stage, t, applied) == hal_tcam_insert(stage, t, NoRule, applied)

(* One command for each index of asked; those of done are applied.         *)
hal_tcam_delete_all(stage, asked, done) ==
    [at   |-> [t \in DOMAIN stage.at |-> IF t \in done THEN NoRule ELSE stage.at[t]],
     lost |-> (stage.lost \cup asked) \ done]

Installed(stage) == {t \in DOMAIN stage.at : stage.at[t] # NoRule}
=============================================================================
