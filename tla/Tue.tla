-------------------------------- MODULE Tue --------------------------------
(***************************************************************************)
(* The table update engine (rtl/tue/tue.sv), the HAL calls that drive it   *)
(* (sw/hal/rv_p4_hal.c) and the memories it writes (rtl/mau/mau_tcam.sv,   *)
(* rtl/mau/mau_stage.sv, rtl/parser/parser_tcam.sv).                       *)
(*                                                                         *)
(* Three actors.  The driver, in the firmware, polls STATUS, writes the    *)
(* command registers one by one, writes COMMIT and polls again.  The       *)
(* engine's state machine steps on every clk_ctrl edge, and a bus access   *)
(* takes effect on such an edge, both reading the registers as they were.  *)
(* On clk_dp edges a two-flop synchroniser carries the apply pulse to the  *)
(* write enables of the TCAM and of the action SRAM.                       *)
(*                                                                         *)
(* A key stands for the key and mask words, an act for the action_id and   *)
(* parameter words; each is written as one register.                       *)
(***************************************************************************)
EXTENDS Integers, Sequences

CONSTANTS
    Cmds,         \* the commands the driver issues
    Stages,       \* the match-action stages
    ParserStage,  \* the stage number that stands for the parser: 0x1F
    TableIds,     \* the rule indices, 16 bits in the code
    AddrMod,      \* MAU_TCAM_DEPTH: the TCAM sees table_id modulo this
    Keys, Acts,   \* match keys and actions
    KeyByte,      \* KeyByte[k] is the low byte of k: a parser TCAM address
    Key0, Act0,   \* the key and action registers after reset
    Drain,        \* 32: the clk_ctrl cycles of TS_WAIT_DRAIN
    MaxPolls,     \* 100000: the polls of tue_wait_idle
    DpPerCtrl,    \* the fewest clk_dp edges between two of clk_ctrl: 8 in the code
    NoRule, NoCall

Op == [cmd : Cmds, stage : Stages \cup {ParserStage},
       table_id : TableIds, key : Keys, act : Acts]

(* The calls: hal_tcam_insert, _delete, _modify and _flush and             *)
(* hal_parser_add_state and _del_state.  A field the call does not write   *)
(* has its reset value here.                                               *)
Ops ==
    {o \in Op :
        /\ o.cmd # "INSERT" => o.key = Key0
        /\ o.cmd \in {"DELETE", "FLUSH"} => o.act = Act0
        /\ o.cmd = "FLUSH" => o.table_id = 0
        /\ o.stage = ParserStage =>
              /\ o.cmd \in {"INSERT", "DELETE"} /\ o.act = Act0
              /\ o.cmd = "INSERT" => KeyByte[o.key] = o.table_id}

Addrs == 0 .. AddrMod - 1
Bytes == {KeyByte[k] : k \in Keys}
Cell  == [valid : BOOLEAN, key : Keys, ptr : TableIds]
Rule  == [key : Keys, act : Acts]

ASSUME ValueAssumption ==
    /\ Cmds \subseteq {"INSERT", "DELETE", "MODIFY", "FLUSH"} /\ "INSERT" \in Cmds
    /\ 0 \in Stages /\ ParserStage \notin Stages
    /\ 0 \in TableIds /\ TableIds \subseteq Nat /\ AddrMod \in Nat \ {0}
    /\ Key0 \in Keys /\ Act0 \in Acts
    /\ KeyByte \in [Keys -> Nat]
    /\ NoRule \notin Rule /\ NoCall \notin Op

(* The polls outlast the drain (a poll takes two clk_ctrl cycles), and     *)
(* the synchroniser has settled before the clk_ctrl edge after next.       *)
ASSUME TimingAssumption ==
    /\ Drain \in Nat \ {0}
    /\ MaxPolls \in Nat /\ 2 * MaxPolls > Drain + 3
    /\ DpPerCtrl \in Nat /\ DpPerCtrl >= 2

VARIABLES
    (* clk_ctrl: registers and state machine *)
    regs,      \* reg_cmd, reg_stage, reg_table_id, reg_key, reg_action_*
    commit,    \* reg_commit, which clears itself
    ts,        \* the state of the transaction
    drain,     \* drain_cnt
    status,    \* reg_status
    pulse,     \* apply_pulse_ctrl
    dp,        \* dp_cmd, dp_stage, dp_key, dp_action_*: there is no dp_table_id
    (* clk_dp: synchroniser and memories *)
    ff1, pdp,  \* apply_pulse_dp_ff1, apply_pulse_dp
    tcam,      \* the TCAM of each stage
    asram,     \* the action SRAM of each stage
    parser,    \* the last word written at each parser TCAM address
    (* the driver *)
    pc, op,    \* where it is, and in which call
    w,         \* the next register write of the call
    polls,     \* the polls it has made
    ret,       \* the last result
    (* the clocks and the bus *)
    since,     \* clk_dp edges since the last of clk_ctrl, up to DpPerCtrl
    gap,       \* the bus is in its setup cycle: no access on this edge
    (* history *)
    applied    \* the memories have been written since the call began

engine == <<regs, commit, ts, drain, status, pulse, dp>>
plane  == <<ff1, pdp, tcam, asram, parser>>
driver == <<pc, op, w, polls, ret>>
vars   == <<engine, plane, driver, since, gap, applied>>

TypeOK ==
    /\ regs \in Op /\ commit \in BOOLEAN
    /\ ts \in {"IDLE", "WAIT_DRAIN", "APPLY", "DONE"}
    /\ drain \in 0 .. Drain
    /\ status \in {"IDLE", "BUSY", "DONE"}
    /\ pulse \in BOOLEAN /\ ff1 \in BOOLEAN /\ pdp \in BOOLEAN
    /\ dp \in [cmd : Cmds, stage : Stages \cup {ParserStage}, key : Keys, act : Acts]
    /\ tcam \in [Stages -> [Addrs -> Cell]]
    /\ asram \in [Stages -> [TableIds -> Acts]]
    /\ parser \in [Bytes -> Keys]
    /\ pc \in {"idle", "wait", "write", "commit"}
    /\ op \in Op \cup {NoCall} /\ (op = NoCall <=> pc = "idle")
    /\ w \in 1 .. 6 /\ polls \in 0 .. MaxPolls - 1
    /\ ret \in {"none", "OK", "TIMEOUT"}
    /\ since \in 0 .. DpPerCtrl
    /\ gap \in BOOLEAN /\ applied \in BOOLEAN

-----------------------------------------------------------------------------
(* The engine, on one clk_ctrl edge.                                       *)

Latch == dp' = [cmd |-> regs.cmd, stage |-> regs.stage, key |-> regs.key, act |-> regs.act]

(* A COMMIT that finds the machine out of TS_IDLE is lost.                 *)
TsIdle ==
    /\ ts = "IDLE" /\ pulse' = FALSE
    /\ \/ /\ commit /\ ts' = "WAIT_DRAIN" /\ drain' = Drain /\ status' = "BUSY"
       \/ ~commit /\ UNCHANGED <<ts, drain, status>>
    /\ UNCHANGED dp

(* Mutant: the count goes on when it has reached 0.                        *)
MutWaitDrainNoElse ==
    /\ ts = "WAIT_DRAIN" /\ drain' = drain - 1
    /\ \/ drain = 0 /\ ts' = "APPLY" /\ pulse' = TRUE /\ Latch
       \/ drain > 0 /\ pulse' = FALSE /\ UNCHANGED <<ts, dp>>
    /\ UNCHANGED status

(* Mutant: the count is not decremented.                                   *)
MutWaitDrainNoCount ==
    /\ ts = "WAIT_DRAIN"
    /\ \/ drain = 0 /\ ts' = "APPLY" /\ pulse' = TRUE /\ Latch
       \/ drain > 0 /\ pulse' = FALSE /\ UNCHANGED <<ts, dp>>
    /\ UNCHANGED <<status, drain>>

TsWaitDrain ==
    /\ ts = "WAIT_DRAIN"
    /\ \/ /\ drain = 0 /\ ts' = "APPLY" /\ pulse' = TRUE /\ Latch
          /\ UNCHANGED drain
       \/ /\ drain > 0 /\ drain' = drain - 1 /\ pulse' = FALSE
          /\ UNCHANGED <<ts, dp>>
    /\ UNCHANGED status

TsApply ==
    /\ ts = "APPLY" /\ ts' = "DONE" /\ status' = "DONE" /\ pulse' = FALSE
    /\ UNCHANGED <<drain, dp>>

TsDone ==
    /\ ts = "DONE" /\ ts' = "IDLE" /\ status' = "IDLE" /\ pulse' = FALSE
    /\ UNCHANGED <<drain, dp>>

Fsm == TsIdle \/ TsWaitDrain \/ TsApply \/ TsDone

-----------------------------------------------------------------------------
(* The memories, on one clk_dp edge.  The address is the live table_id     *)
(* register, every other operand the latched copy.                         *)

WriteMau ==
    /\ \/ /\ dp.stage \in Stages /\ dp.cmd # "FLUSH"
          /\ tcam' = [tcam EXCEPT ![dp.stage][regs.table_id % AddrMod] =
                         [valid |-> dp.cmd = "INSERT", key |-> dp.key, ptr |-> regs.table_id]]
       \/ ~(dp.stage \in Stages /\ dp.cmd # "FLUSH") /\ UNCHANGED tcam
    /\ \/ dp.stage \in Stages /\ asram' = [asram EXCEPT ![dp.stage][regs.table_id] = dp.act]
       \/ dp.stage \notin Stages /\ UNCHANGED asram

(* Any command writes the key to the parser, at the key's own low byte.    *)
WriteParser ==
    \/ dp.stage = ParserStage /\ parser' = [parser EXCEPT ![KeyByte[dp.key]] = dp.key]
    \/ dp.stage # ParserStage /\ UNCHANGED parser

DpEdge ==
    /\ since' = IF since < DpPerCtrl THEN since + 1 ELSE since
    /\ ff1' = pulse /\ pdp' = ff1
    /\ \/ pdp /\ WriteMau /\ WriteParser /\ applied' = TRUE
       \/ ~pdp /\ UNCHANGED <<tcam, asram, parser, applied>>
    /\ UNCHANGED <<engine, driver, gap>>

-----------------------------------------------------------------------------
(* The driver.  Its register accesses take effect on clk_ctrl edges.       *)

(* The registers a call writes, in the order the HAL writes them.          *)
Program(o) ==
    LET target == IF o.stage = ParserStage THEN <<"cmd", "stage", "table_id">>
                  ELSE IF o.cmd = "FLUSH" THEN <<"cmd", "stage">>
                  ELSE <<"cmd", "table_id", "stage">>
        data   == IF o.cmd = "INSERT"
                  THEN IF o.stage = ParserStage THEN <<"key">> ELSE <<"key", "act">>
                  ELSE IF o.cmd = "MODIFY" THEN <<"act">> ELSE <<>>
    IN  target \o data \o <<"commit">>

Call(o) ==
    /\ pc = "idle" /\ pc' = "wait"
    /\ op' = o /\ polls' = 0 /\ ret' = "none"
    /\ applied' = FALSE
    /\ UNCHANGED <<engine, plane, w, since, gap>>

Return(r) == pc' = "idle" /\ op' = NoCall /\ ret' = r /\ polls' = 0

(* tue_wait_idle, one poll: before the first write (pc = "wait") and after *)
(* the COMMIT (pc = "commit").                                             *)
Poll ==
    /\ pc \in {"wait", "commit"}
    /\ \/ /\ status \in {"IDLE", "DONE"}
          /\ \/ pc = "wait" /\ pc' = "write" /\ polls' = 0 /\ UNCHANGED <<op, ret>>
             \/ pc = "commit" /\ Return("OK")
       \/ /\ status = "BUSY"
          /\ \/ polls + 1 < MaxPolls /\ polls' = polls + 1 /\ UNCHANGED <<pc, op, ret>>
             \/ polls + 1 >= MaxPolls /\ Return("TIMEOUT")
    /\ commit' = FALSE
    /\ UNCHANGED <<regs, w>>

Write ==
    /\ pc = "write"
    /\ LET r == Program(op)[w]
       IN  \/ /\ r # "commit" /\ regs' = [regs EXCEPT ![r] = op[r]] /\ commit' = FALSE
              /\ w' = w + 1 /\ UNCHANGED <<pc, polls>>
           \/ /\ r = "commit" /\ commit' = TRUE
              /\ w' = 1 /\ pc' = "commit" /\ polls' = 0
              /\ UNCHANGED regs
    /\ UNCHANGED <<op, ret>>

(* Mutant: accesses need no setup cycle.                                   *)
MutAccessNoSetup ==
    /\ UNCHANGED gap
    /\ since = DpPerCtrl /\ since' = 0
    /\ Poll \/ Write
    /\ Fsm
    /\ UNCHANGED <<plane, applied>>

(* An access needs a setup cycle, so never falls on two edges in a row.    *)
Access ==
    /\ ~gap /\ gap' = TRUE
    /\ since = DpPerCtrl /\ since' = 0
    /\ Poll \/ Write
    /\ Fsm
    /\ UNCHANGED <<plane, applied>>

NoAccess ==
    /\ since = DpPerCtrl /\ since' = 0
    /\ gap' = FALSE /\ commit' = FALSE
    /\ Fsm
    /\ UNCHANGED <<regs, plane, driver, applied>>

Init ==
    /\ regs = [cmd |-> "INSERT", stage |-> 0, table_id |-> 0, key |-> Key0, act |-> Act0]
    /\ commit = FALSE /\ ts = "IDLE" /\ drain = 0 /\ status = "IDLE" /\ pulse = FALSE
    /\ dp = [cmd |-> "INSERT", stage |-> 0, key |-> Key0, act |-> Act0]
    /\ ff1 = FALSE /\ pdp = FALSE
    /\ tcam = [s \in Stages |-> [a \in Addrs |-> [valid |-> FALSE, key |-> Key0, ptr |-> 0]]]
    /\ asram = [s \in Stages |-> [t \in TableIds |-> Act0]]
    /\ parser = [b \in Bytes |-> Key0]
    /\ pc = "idle" /\ op = NoCall /\ w = 1 /\ polls = 0 /\ ret = "none"
    /\ since = 0 /\ gap = FALSE /\ applied = FALSE

Next == DpEdge \/ Access \/ NoAccess \/ (\E o \in Ops : Call(o))

Spec == Init /\ [][Next]_vars

(* Both clocks run, and a driver in a call does not hold off its next      *)
(* access for ever although the bus is busy on some edges.                 *)
FairSpec == Spec /\ WF_vars(DpEdge) /\ WF_vars(NoAccess) /\ SF_vars(Access)

-----------------------------------------------------------------------------
(* Properties.                                                             *)

RuleAt(s, a) ==
    IF tcam[s][a].valid
    THEN [key |-> tcam[s][a].key, act |-> asram[s][tcam[s][a].ptr]]
    ELSE NoRule

Table == INSTANCE TcamTable WITH
            table <- [s \in Stages |-> [a \in Addrs |-> RuleAt(s, a)]],
            call  <- op

(* With INSERT and DELETE, and with the parser calls between them, every   *)
(* HAL call changes exactly its own rule, at one instant, before it        *)
(* returns, and it returns: no operand is torn by the next call's register *)
(* writes, no poll reads the status of before its COMMIT, and the pulse    *)
(* repeated on later clk_dp edges changes nothing.                         *)
Implements == Table!Spec

(* The polls never run out.                                                *)
NeverTimesOut == ret # "TIMEOUT"
=============================================================================
