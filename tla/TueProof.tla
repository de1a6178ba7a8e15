------------------------------ MODULE TueProof ------------------------------
(***************************************************************************)
(* What Tue's invariants rest on, and that it implements TcamTable, for    *)
(* any stages, tables, keys and actions, any drain and any ratio of the    *)
(* two clocks of at least 2.                                               *)
(*                                                                         *)
(* The inductive invariant follows a call through the phases it is in, one *)
(* after the other, and says what is true of all three actors in each.     *)
(***************************************************************************)
EXTENDS Tue, SequenceTheorems, TLAPS

Fields == {"cmd", "stage", "table_id", "key", "act"}

(* The registers q once r has taken its operand from o.                    *)
Load(q, o, r) == [q EXCEPT ![r] = o[r]]

(* The memory f once v is at address a of stage s.                         *)
PutAt(f, s, a, v) == [f EXCEPT ![s][a] = v]

(* The first n registers of the call's program hold its operands.          *)
Loaded(n) == \A i \in 1 .. n : regs[Program(op)[i]] = op[Program(op)[i]]

AllLoaded == Loaded(Len(Program(op)) - 1)

(* The engine is at rest, and no pulse is on its way to the memories.      *)
Calm ==
    /\ ts = "IDLE" /\ status = "IDLE" /\ ~pulse
    /\ ~ff1 /\ ~pdp

(* The latched operands are those of the registers.                        *)
Latched == dp = [cmd |-> regs.cmd, stage |-> regs.stage, key |-> regs.key, act |-> regs.act]

(* What the latched operands say is in the memories.                       *)
Stored ==
    dp.stage \in Stages =>
        /\ asram[dp.stage][regs.table_id] = dp.act
        /\ dp.cmd # "FLUSH" =>
              tcam[dp.stage][regs.table_id % AddrMod] =
                  [valid |-> dp.cmd = "INSERT", key |-> dp.key, ptr |-> regs.table_id]

(* The setup cycle that an access has to wait for.                         *)
Setup == IF gap THEN 1 ELSE 0

-----------------------------------------------------------------------------
(* The phases of a call.                                                   *)

Resting == pc = "idle" /\ Calm /\ ~commit

Waiting == pc = "wait" /\ Calm /\ ~commit /\ polls = 0 /\ ~applied

Writing ==
    /\ pc = "write" /\ Calm /\ ~commit /\ ~applied
    /\ w \in 1 .. Len(Program(op)) /\ Loaded(w - 1)

(* The next access cannot fall on the edge that sees the COMMIT.           *)
Committed ==
    /\ pc = "commit" /\ Calm /\ commit /\ gap /\ polls = 0 /\ ~applied
    /\ AllLoaded

(* Two edges at least between two polls.                                   *)
Draining ==
    /\ pc = "commit" /\ ~commit /\ ~applied /\ AllLoaded
    /\ ts = "WAIT_DRAIN" /\ status = "BUSY" /\ ~pulse /\ ~ff1 /\ ~pdp
    /\ 2 * polls + drain <= Drain + Setup

(* The pulse reaches the memories at the second clk_dp edge.               *)
Applying ==
    /\ pc = "commit" /\ ~commit /\ AllLoaded /\ Latched
    /\ ts = "APPLY" /\ status = "BUSY" /\ pulse
    /\ 2 * polls <= Drain + 1 + Setup
    /\ ff1 <=> since >= 1
    /\ pdp <=> since >= 2
    /\ applied => pdp /\ Stored

(* The pulse has left the memories at the second clk_dp edge.              *)
Finishing ==
    /\ pc = "commit" /\ ~commit /\ AllLoaded /\ Latched
    /\ ts = "DONE" /\ status = "DONE" /\ ~pulse
    /\ ff1 <=> since = 0
    /\ pdp <=> since <= 1
    /\ since >= 1 => applied
    /\ applied => Stored

Finished == pc = "commit" /\ Calm /\ ~commit /\ applied

Phase ==
    \/ Resting \/ Waiting \/ Writing \/ Committed
    \/ Draining \/ Applying \/ Finishing \/ Finished

(* An entry stands at the address of its index.                            *)
EntryAtHome ==
    \A s \in Stages, a \in Addrs : tcam[s][a].valid => tcam[s][a].ptr % AddrMod = a

IInv ==
    /\ TypeOK /\ EntryAtHome /\ NeverTimesOut
    /\ pc = "write" \/ w = 1
    /\ Phase

-----------------------------------------------------------------------------

(* The registers a call writes, and that it writes those the engine will   *)
(* use: an operand that is not written is one the command has no use for.  *)
LEMMA ProgramFacts ==
    ASSUME NEW o \in Op, NEW p, p = Program(o)
    PROVE  /\ Len(p) \in 3 .. 6 /\ p[Len(p)] = "commit"
           /\ \A i \in 1 .. Len(p) - 1 : p[i] \in Fields
           /\ \E i \in 1 .. Len(p) - 1 : p[i] = "cmd"
           /\ \E i \in 1 .. Len(p) - 1 : p[i] = "stage"
           /\ o.cmd # "FLUSH" => \E i \in 1 .. Len(p) - 1 : p[i] = "table_id"
           /\ o.cmd = "INSERT" /\ o.stage \in Stages =>
                 /\ \E i \in 1 .. Len(p) - 1 : p[i] = "key"
                 /\ \E i \in 1 .. Len(p) - 1 : p[i] = "act"
<1>1. o.cmd \in {"INSERT", "DELETE", "MODIFY", "FLUSH"} /\ ParserStage \notin Stages
    BY ValueAssumption DEF Op
<1>2. CASE o.stage = ParserStage /\ o.cmd = "INSERT"
  <2>1. /\ Len(p) = 5 /\ p[1] = "cmd" /\ p[2] = "stage" /\ p[3] = "table_id"
        /\ p[4] = "key" /\ p[5] = "commit"
    BY <1>2 DEF Program
  <2> QED
    BY <1>1, <1>2, <2>1 DEF Fields
<1>3. CASE o.stage = ParserStage /\ o.cmd = "MODIFY"
  <2>1. /\ Len(p) = 5 /\ p[1] = "cmd" /\ p[2] = "stage" /\ p[3] = "table_id"
        /\ p[4] = "act" /\ p[5] = "commit"
    BY <1>3 DEF Program
  <2> QED
    BY <1>1, <1>3, <2>1 DEF Fields
<1>4. CASE o.stage = ParserStage /\ o.cmd \notin {"INSERT", "MODIFY"}
  <2>1. /\ Len(p) = 4 /\ p[1] = "cmd" /\ p[2] = "stage" /\ p[3] = "table_id"
        /\ p[4] = "commit"
    BY <1>4 DEF Program
  <2> QED
    BY <1>1, <1>4, <2>1 DEF Fields
<1>5. CASE o.stage # ParserStage /\ o.cmd = "INSERT"
  <2>1. /\ Len(p) = 6 /\ p[1] = "cmd" /\ p[2] = "table_id" /\ p[3] = "stage"
        /\ p[4] = "key" /\ p[5] = "act" /\ p[6] = "commit"
    BY <1>5 DEF Program
  <2> QED
    BY <1>1, <1>5, <2>1 DEF Fields
<1>6. CASE o.stage # ParserStage /\ o.cmd = "MODIFY"
  <2>1. /\ Len(p) = 5 /\ p[1] = "cmd" /\ p[2] = "table_id" /\ p[3] = "stage"
        /\ p[4] = "act" /\ p[5] = "commit"
    BY <1>6 DEF Program
  <2> QED
    BY <1>1, <1>6, <2>1 DEF Fields
<1>7. CASE o.stage # ParserStage /\ o.cmd = "DELETE"
  <2>1. /\ Len(p) = 4 /\ p[1] = "cmd" /\ p[2] = "table_id" /\ p[3] = "stage"
        /\ p[4] = "commit"
    BY <1>7 DEF Program
  <2> QED
    BY <1>1, <1>7, <2>1 DEF Fields
<1>8. CASE o.stage # ParserStage /\ o.cmd = "FLUSH"
  <2>1. /\ Len(p) = 3 /\ p[1] = "cmd" /\ p[2] = "stage" /\ p[3] = "commit"
    BY <1>8 DEF Program
  <2> QED
    BY <1>1, <1>8, <2>1 DEF Fields
<1> QED
    BY <1>1, <1>2, <1>3, <1>4, <1>5, <1>6, <1>7, <1>8

(* One register takes its operand, the others keep theirs.                 *)
LEMMA LoadField ==
    ASSUME NEW q \in Op, NEW o \in Op, NEW r \in Fields
    PROVE  /\ Load(q, o, r) \in Op /\ Load(q, o, r)[r] = o[r]
           /\ \A s \in Fields \ {r} : Load(q, o, r)[s] = q[s]
<1>1. CASE r = "cmd"
    BY <1>1 DEF Op, Fields, Load
<1>2. CASE r = "stage"
    BY <1>2 DEF Op, Fields, Load
<1>3. CASE r = "table_id"
    BY <1>3 DEF Op, Fields, Load
<1>4. CASE r = "key"
    BY <1>4 DEF Op, Fields, Load
<1>5. CASE r = "act"
    BY <1>5 DEF Op, Fields, Load
<1> QED
    BY <1>1, <1>2, <1>3, <1>4, <1>5 DEF Fields

(* A register write loads the next operand; the last write is the COMMIT.  *)
LEMMA WriteFacts ==
    ASSUME TypeOK, Writing, Write
    PROVE  /\ op' = op /\ ret' = ret /\ regs' \in Op
           /\ \/ /\ pc' = "write" /\ commit' = FALSE
                 /\ w' \in 1 .. Len(Program(op)) /\ w' \in 1 .. 6
                 /\ Loaded(w - 1)' /\ polls' = polls
              \/ /\ pc' = "commit" /\ commit' = TRUE /\ w' = 1 /\ polls' = 0
                 /\ AllLoaded'
<1> DEFINE p == Program(op)
           n == Len(p)
<1>1. op \in Op /\ regs \in Op /\ op' = op /\ ret' = ret
    BY DEF TypeOK, Writing, Write
<1>2. /\ n \in 3 .. 6 /\ p[n] = "commit"
      /\ \A i \in 1 .. n - 1 : p[i] \in Fields
    BY <1>1, ProgramFacts
<1>3. w \in 1 .. n /\ \A i \in 1 .. w - 1 : regs[p[i]] = op[p[i]]
    BY DEF Writing, Loaded
<1>4. "commit" \notin Fields
    BY DEF Fields
<1> HIDE DEF p, n
<1>5. CASE p[w] # "commit"
  <2>1. /\ regs' = [regs EXCEPT ![p[w]] = op[p[w]]] /\ w' = w + 1
        /\ commit' = FALSE /\ pc' = "write" /\ polls' = polls
    BY <1>5 DEF Write, Writing, p
  <2>2. w \in 1 .. n - 1
    BY <1>2, <1>3, <1>5
  <2>3. p[w] \in Fields
    BY <1>2, <2>2
  <2>4. /\ regs' \in Op /\ regs'[p[w]] = op[p[w]]
        /\ \A s \in Fields \ {p[w]} : regs'[s] = regs[s]
    <3>1. regs' = Load(regs, op, p[w])
        BY <2>1 DEF Load
    <3>2. /\ Load(regs, op, p[w]) \in Op /\ Load(regs, op, p[w])[p[w]] = op[p[w]]
          /\ \A s \in Fields \ {p[w]} : Load(regs, op, p[w])[s] = regs[s]
        BY <1>1, <2>3, LoadField, Zenon
    <3> QED
        BY <3>1, <3>2
  <2>5. ASSUME NEW i \in 1 .. w
        PROVE  regs'[p[i]] = op[p[i]]
    <3>1. i \in 1 .. n - 1
        BY <1>2, <2>2
    <3>2. CASE p[i] = p[w]
        BY <2>4, <3>2
    <3>3. CASE p[i] # p[w]
      <4>1. p[i] \in Fields \ {p[w]} /\ i \in 1 .. w - 1
        BY <1>2, <2>2, <3>1, <3>3
      <4> QED
        BY <1>3, <2>4, <4>1
    <3> QED
        BY <3>2, <3>3
  <2>6. w' - 1 = w /\ w' \in 1 .. n /\ w' \in 1 .. 6
    BY <1>2, <2>1, <2>2
  <2>7. Loaded(w - 1)'
    BY <1>1, <2>5, <2>6 DEF Loaded, p
  <2> QED
    BY <1>1, <2>1, <2>4, <2>6, <2>7 DEF n, p
<1>6. CASE p[w] = "commit"
  <2>1. /\ regs' = regs /\ w' = 1 /\ commit' = TRUE /\ pc' = "commit" /\ polls' = 0
    BY <1>6 DEF Write, Writing, p
  <2>2. w = n
    BY <1>2, <1>3, <1>4, <1>6
  <2>3. AllLoaded'
    BY <1>1, <1>3, <2>1, <2>2 DEF AllLoaded, Loaded, n, p
  <2> QED
    BY <1>1, <2>1, <2>3
<1> QED
    BY <1>5, <1>6

-----------------------------------------------------------------------------
(* Polls are fewer than MaxPolls, and at least one is made.                *)
LEMMA Counts ==
    /\ Drain \in Nat /\ MaxPolls \in Nat /\ DpPerCtrl \in Nat /\ DpPerCtrl >= 2
    /\ 2 * MaxPolls > Drain + 3 /\ 0 \in 0 .. MaxPolls - 1 /\ 1 \in 1 .. 6
    BY TimingAssumption

(* A poll that finds the engine at rest or done ends the wait; one that    *)
(* finds it busy is followed by another, while the polls of the phase fit  *)
(* the drain.                                                              *)
LEMMA PollFacts ==
    ASSUME TypeOK, Poll
    PROVE  /\ commit' = FALSE /\ regs' = regs /\ w' = w
           /\ \/ /\ status # "BUSY" /\ pc = "wait"
                 /\ pc' = "write" /\ polls' = 0 /\ op' = op /\ ret' = ret
              \/ /\ status # "BUSY" /\ pc = "commit"
                 /\ pc' = "idle" /\ polls' = 0 /\ op' = NoCall /\ ret' = "OK"
              \/ /\ status = "BUSY" /\ polls + 1 < MaxPolls
                 /\ pc' = pc /\ polls' = polls + 1 /\ op' = op /\ ret' = ret
              \/ /\ status = "BUSY" /\ polls + 1 >= MaxPolls
                 /\ pc' = "idle" /\ polls' = 0 /\ op' = NoCall /\ ret' = "TIMEOUT"
    BY DEF Poll, Return

LEMMA FsmTypes ==
    ASSUME TypeOK, Fsm
    PROVE  /\ ts' \in {"IDLE", "WAIT_DRAIN", "APPLY", "DONE"}
           /\ drain' \in 0 .. Drain
           /\ status' \in {"IDLE", "BUSY", "DONE"}
           /\ pulse' \in BOOLEAN
           /\ dp' \in [cmd : Cmds, stage : Stages \cup {ParserStage}, key : Keys, act : Acts]
<1>1. Drain \in 0 .. Drain /\ drain \in 0 .. Drain
    BY Counts DEF TypeOK
<1>2. /\ regs.cmd \in Cmds /\ regs.stage \in Stages \cup {ParserStage}
      /\ regs.key \in Keys /\ regs.act \in Acts
    BY DEF TypeOK, Op
<1>3. CASE TsIdle
    BY <1>1, <1>3 DEF TsIdle, TypeOK
<1>4. CASE TsWaitDrain
  <2>1. drain > 0 => drain - 1 \in 0 .. Drain
    BY <1>1, Counts
  <2>2. CASE drain = 0
    <3>1. /\ ts' = "APPLY" /\ pulse' = TRUE /\ drain' = drain /\ status' = status
          /\ Latch
        BY <1>1, <1>4, <2>2, Counts DEF TsWaitDrain
    <3> QED
        BY <1>1, <1>2, <3>1 DEF Latch, TypeOK
  <2>3. CASE drain # 0
    <3>1. /\ ts' = ts /\ pulse' = FALSE /\ drain' = drain - 1 /\ status' = status
          /\ dp' = dp /\ drain > 0
        BY <1>1, <1>4, <2>3, Counts DEF TsWaitDrain
    <3> QED
        BY <2>1, <3>1 DEF TypeOK
  <2> QED
    BY <2>2, <2>3
<1>5. CASE TsApply
    BY <1>5 DEF TsApply, TypeOK
<1>6. CASE TsDone
    BY <1>6 DEF TsDone, TypeOK
<1> QED
    BY <1>3, <1>4, <1>5, <1>6 DEF Fsm

(* The operands in flight are operands, and their places places.           *)
LEMMA OperandFacts ==
    ASSUME TypeOK
    PROVE  /\ regs.table_id \in TableIds /\ regs.table_id % AddrMod \in Addrs
           /\ dp.key \in Keys /\ dp.act \in Acts /\ KeyByte[dp.key] \in Bytes
           /\ [valid |-> dp.cmd = "INSERT", key |-> dp.key, ptr |-> regs.table_id] \in Cell
<1>1. regs.table_id \in Nat /\ AddrMod \in Nat \ {0} /\ regs.table_id \in TableIds
    BY ValueAssumption DEF TypeOK, Op
<1>2. regs.table_id % AddrMod \in Addrs
    BY <1>1 DEF Addrs
<1>3. dp.key \in Keys /\ dp.act \in Acts
    BY DEF TypeOK
<1>4. KeyByte[dp.key] \in Bytes
    BY <1>3 DEF Bytes
<1>5. [valid |-> dp.cmd = "INSERT", key |-> dp.key, ptr |-> regs.table_id] \in Cell
    BY <1>1, <1>3 DEF Cell
<1> QED
    BY <1>1, <1>2, <1>3, <1>4, <1>5

(* A memory written at one place is a memory.                              *)
LEMMA PutType ==
    ASSUME NEW S, NEW A, NEW V, NEW f \in [S -> [A -> V]],
           NEW s \in S, NEW a \in A, NEW v \in V
    PROVE  PutAt(f, s, a, v) \in [S -> [A -> V]]
<1>1. f[s] \in [A -> V]
    OBVIOUS
<1>2. PutAt(f, s, a, v) = [f EXCEPT ![s] = [f[s] EXCEPT ![a] = v]]
    BY DEF PutAt
<1>3. [f[s] EXCEPT ![a] = v] \in [A -> V]
    BY <1>1
<1> QED
    BY <1>2, <1>3

(* What a clk_dp edge does to the memories.                                *)
LEMMA MemoryTypes ==
    ASSUME TypeOK, WriteMau, WriteParser
    PROVE  /\ tcam' \in [Stages -> [Addrs -> Cell]]
           /\ asram' \in [Stages -> [TableIds -> Acts]]
           /\ parser' \in [Bytes -> Keys]
<1> DEFINE cell == [valid |-> dp.cmd = "INSERT", key |-> dp.key, ptr |-> regs.table_id]
           a    == regs.table_id % AddrMod
<1>1. /\ regs.table_id \in TableIds /\ a \in Addrs /\ cell \in Cell
      /\ dp.key \in Keys /\ dp.act \in Acts /\ KeyByte[dp.key] \in Bytes
    BY OperandFacts
<1>2. \/ tcam' = tcam
      \/ dp.stage \in Stages /\ tcam' = PutAt(tcam, dp.stage, a, cell)
    BY DEF WriteMau, PutAt
<1>3. \/ asram' = asram
      \/ dp.stage \in Stages /\ asram' = PutAt(asram, dp.stage, regs.table_id, dp.act)
    BY DEF WriteMau, PutAt
<1>4. \/ parser' = parser
      \/ parser' = [parser EXCEPT ![KeyByte[dp.key]] = dp.key]
    BY DEF WriteParser
<1> HIDE DEF cell, a
<1>5. tcam' \in [Stages -> [Addrs -> Cell]]
  <2>1. tcam \in [Stages -> [Addrs -> Cell]]
    BY DEF TypeOK
  <2>2. dp.stage \in Stages => PutAt(tcam, dp.stage, a, cell) \in [Stages -> [Addrs -> Cell]]
    BY <1>1, <2>1, PutType
  <2> QED
    BY <1>2, <2>1, <2>2
<1>6. asram' \in [Stages -> [TableIds -> Acts]]
  <2>1. asram \in [Stages -> [TableIds -> Acts]]
    BY DEF TypeOK
  <2>2. dp.stage \in Stages =>
           PutAt(asram, dp.stage, regs.table_id, dp.act) \in [Stages -> [TableIds -> Acts]]
    BY <1>1, <2>1, PutType
  <2> QED
    BY <1>3, <2>1, <2>2
<1>7. parser' \in [Bytes -> Keys]
    BY <1>1, <1>4 DEF TypeOK
<1> QED
    BY <1>5, <1>6, <1>7

(* What is written is stored, is at home, and written again changes        *)
(* nothing.                                                                *)
LEMMA StoreFacts ==
    ASSUME TypeOK, EntryAtHome, WriteMau, regs' = regs, dp' = dp
    PROVE  /\ Stored' /\ EntryAtHome'
           /\ Stored => tcam' = tcam /\ asram' = asram
<1> DEFINE cell == [valid |-> dp.cmd = "INSERT", key |-> dp.key, ptr |-> regs.table_id]
           t    == regs.table_id
           a    == regs.table_id % AddrMod
<1>1. /\ t \in TableIds /\ a \in Addrs /\ cell \in Cell
      /\ dp.key \in Keys /\ dp.act \in Acts
    BY OperandFacts
<1>2. /\ tcam \in [Stages -> [Addrs -> Cell]]
      /\ asram \in [Stages -> [TableIds -> Acts]]
    BY DEF TypeOK
<1>3. cell.ptr % AddrMod = a
    OBVIOUS
<1>4. /\ dp.stage \in Stages /\ dp.cmd # "FLUSH" => tcam' = PutAt(tcam, dp.stage, a, cell)
      /\ ~(dp.stage \in Stages /\ dp.cmd # "FLUSH") => tcam' = tcam
    BY DEF WriteMau, PutAt
<1>5. /\ dp.stage \in Stages => asram' = PutAt(asram, dp.stage, t, dp.act)
      /\ dp.stage \notin Stages => asram' = asram
    BY DEF WriteMau, PutAt
<1>6. Stored <=> /\ dp.stage \in Stages => asram[dp.stage][t] = dp.act
                 /\ dp.stage \in Stages /\ dp.cmd # "FLUSH" => tcam[dp.stage][a] = cell
    BY DEF Stored
<1>7. Stored' <=> /\ dp.stage \in Stages => asram'[dp.stage][t] = dp.act
                  /\ dp.stage \in Stages /\ dp.cmd # "FLUSH" => tcam'[dp.stage][a] = cell
    BY DEF Stored
<1> HIDE DEF cell, t, a
<1>8. dp.stage \in Stages =>
         /\ asram'[dp.stage][t] = dp.act
         /\ asram[dp.stage][t] = dp.act => asram' = asram
  <2>1. dp.stage \in Stages =>
           /\ PutAt(asram, dp.stage, t, dp.act)[dp.stage][t] = dp.act
           /\ asram[dp.stage][t] = dp.act => PutAt(asram, dp.stage, t, dp.act) = asram
    BY <1>1, <1>2 DEF PutAt
  <2> QED
    BY <1>5, <2>1
<1>9. dp.stage \in Stages /\ dp.cmd # "FLUSH" =>
         /\ tcam'[dp.stage][a] = cell
         /\ tcam[dp.stage][a] = cell => tcam' = tcam
         /\ \A s \in Stages, b \in Addrs : s # dp.stage \/ b # a => tcam'[s][b] = tcam[s][b]
  <2>1. dp.stage \in Stages =>
           /\ PutAt(tcam, dp.stage, a, cell)[dp.stage][a] = cell
           /\ tcam[dp.stage][a] = cell => PutAt(tcam, dp.stage, a, cell) = tcam
           /\ \A s \in Stages, b \in Addrs :
                 s # dp.stage \/ b # a => PutAt(tcam, dp.stage, a, cell)[s][b] = tcam[s][b]
    BY <1>1, <1>2 DEF PutAt
  <2> QED
    BY <1>4, <2>1
<1>10. EntryAtHome'
  <2> SUFFICES ASSUME NEW s \in Stages, NEW b \in Addrs, tcam'[s][b].valid
               PROVE  tcam'[s][b].ptr % AddrMod = b
    BY DEF EntryAtHome
  <2>1. CASE tcam'[s][b] = tcam[s][b]
    BY <2>1 DEF EntryAtHome
  <2>2. CASE tcam'[s][b] # tcam[s][b]
    <3>1. dp.stage \in Stages /\ dp.cmd # "FLUSH"
        BY <1>4, <2>2
    <3>2. b = a /\ tcam'[s][b] = cell
        BY <1>9, <2>2, <3>1
    <3> QED
        BY <1>3, <3>2
  <2> QED
    BY <2>1, <2>2
<1>11. Stored'
    BY <1>7, <1>8, <1>9
<1>12. Stored => tcam' = tcam /\ asram' = asram
    BY <1>4, <1>5, <1>6, <1>8, <1>9
<1> QED
    BY <1>10, <1>11, <1>12

-----------------------------------------------------------------------------
(* A call is taken at rest.                                                *)
LEMMA CallKeeps ==
    ASSUME IInv, NEW o \in Ops, Call(o)
    PROVE  IInv'
<1>1. /\ TypeOK /\ EntryAtHome /\ pc = "idle" /\ o \in Op
    BY DEF IInv, Call, Ops
<1>2. Resting /\ w = 1
    BY <1>1 DEF IInv, Phase, Resting, Waiting, Writing, Committed, Draining, Applying,
                Finishing, Finished
<1>3. /\ pc' = "wait" /\ op' = o /\ polls' = 0 /\ ret' = "none" /\ applied' = FALSE
      /\ UNCHANGED <<regs, commit, ts, drain, status, pulse, dp, ff1, pdp, tcam, asram, parser,
                     w, since, gap>>
    BY DEF Call, engine, plane
<1>4. o # NoCall
    BY <1>1, ValueAssumption
<1>5. TypeOK'
  <2>1. /\ pc' \in {"idle", "wait", "write", "commit"}
        /\ op' \in Op \cup {NoCall} /\ (op' = NoCall <=> pc' = "idle")
        /\ polls' \in 0 .. MaxPolls - 1 /\ ret' \in {"none", "OK", "TIMEOUT"}
        /\ applied' \in BOOLEAN
    BY <1>1, <1>3, <1>4, Counts
  <2>2. UNCHANGED <<regs, commit, ts, drain, status, pulse, dp, ff1, pdp, tcam, asram, parser,
                    w, since, gap>>
    BY <1>3
  <2> QED
    BY <1>1, <2>1, <2>2 DEF TypeOK
<1>6. EntryAtHome' /\ NeverTimesOut'
    BY <1>1, <1>3 DEF EntryAtHome, NeverTimesOut
<1>7. Waiting'
    BY <1>2, <1>3 DEF Resting, Waiting, Calm
<1> QED
    BY <1>2, <1>3, <1>5, <1>6, <1>7 DEF IInv, Phase

(* On an edge of clk_dp the pulse moves on and the memories may be         *)
(* written; a call stays in its phase.                                     *)
LEMMA DpKeeps ==
    ASSUME IInv, DpEdge
    PROVE  IInv'
<1>1. /\ since' = IF since < DpPerCtrl THEN since + 1 ELSE since
      /\ UNCHANGED <<regs, ts, drain, status, dp, pc, op, w, polls, ret>>
      /\ (ff1' <=> pulse) /\ (pdp' <=> ff1) /\ (pulse' <=> pulse)
      /\ (commit' <=> commit) /\ (gap' <=> gap)
    BY DEF DpEdge, engine, driver
<1>2. \/ pdp /\ WriteMau /\ WriteParser /\ applied'
      \/ /\ ~pdp /\ tcam' = tcam /\ asram' = asram /\ parser' = parser
         /\ (applied' <=> applied)
    BY DEF DpEdge
<1>3. TypeOK /\ EntryAtHome /\ NeverTimesOut /\ (pc = "write" \/ w = 1)
    BY DEF IInv
<1>4. since \in 0 .. DpPerCtrl /\ since' \in 0 .. DpPerCtrl
    BY <1>1, <1>3, Counts DEF TypeOK
<1>5. /\ tcam' \in [Stages -> [Addrs -> Cell]]
      /\ asram' \in [Stages -> [TableIds -> Acts]]
      /\ parser' \in [Bytes -> Keys]
      /\ applied' \in BOOLEAN
  <2>1. applied' \in BOOLEAN
    BY <1>3 DEF DpEdge, TypeOK
  <2>2. CASE pdp /\ WriteMau /\ WriteParser
    BY <1>3, <2>1, <2>2, MemoryTypes
  <2>3. CASE tcam' = tcam /\ asram' = asram /\ parser' = parser
    BY <1>3, <2>1, <2>3 DEF TypeOK
  <2> QED
    BY <1>2, <2>2, <2>3
<1>6. TypeOK'
  <2>1. /\ ff1' = pulse /\ pdp' = ff1
        /\ UNCHANGED <<regs, commit, ts, drain, status, pulse, dp, pc, op, w, polls, ret, gap>>
    BY DEF DpEdge, engine, driver
  <2> QED
    BY <1>3, <1>4, <1>5, <2>1 DEF TypeOK
<1>7. NeverTimesOut' /\ (pc' = "write" \/ w' = 1)
    BY <1>1, <1>3 DEF NeverTimesOut
<1>8. pdp => Stored' /\ EntryAtHome'
    BY <1>1, <1>2, <1>3, StoreFacts
<1>9. ~pdp => EntryAtHome' /\ (Stored => Stored')
    BY <1>1, <1>2, <1>3 DEF EntryAtHome, Stored
<1>10. (AllLoaded => AllLoaded') /\ (Loaded(w - 1) => Loaded(w - 1)') /\ (Latched => Latched')
    BY <1>1 DEF AllLoaded, Loaded, Latched
<1>11. Setup' = Setup
    BY <1>1 DEF Setup
<1>12. ~pulse /\ ~ff1 /\ ~pdp => ~pulse' /\ ~ff1' /\ ~pdp' /\ (applied' <=> applied)
    BY <1>1, <1>2
<1>13. Calm => Calm' /\ (applied' <=> applied)
    BY <1>1, <1>12 DEF Calm
<1>14. Phase'
  <2>1. CASE Resting
      BY <1>1, <1>13, <2>1 DEF Resting, Phase
  <2>2. CASE Waiting
      BY <1>1, <1>13, <2>2 DEF Waiting, Phase
  <2>3. CASE Writing
      BY <1>1, <1>10, <1>13, <2>3 DEF Writing, Phase
  <2>4. CASE Committed
      BY <1>1, <1>10, <1>13, <2>4 DEF Committed, Phase
  <2>5. CASE Draining
      BY <1>1, <1>10, <1>11, <1>12, <2>5 DEF Draining, Phase
  <2>6. CASE Applying
    <3>1. /\ pc' = "commit" /\ ~commit' /\ AllLoaded' /\ Latched'
          /\ ts' = "APPLY" /\ status' = "BUSY" /\ pulse'
          /\ 2 * polls' <= Drain + 1 + Setup'
      BY <1>1, <1>10, <1>11, <2>6 DEF Applying
    <3>2. (ff1 <=> since >= 1) /\ (pdp <=> since >= 2) /\ pulse /\ (applied => pdp /\ Stored)
      BY <2>6 DEF Applying
    <3>3. since' >= 1 /\ (since' >= 2 <=> since >= 1) /\ (since >= 2 => since >= 1)
      BY <1>1, <1>4, Counts
    <3>4. (ff1' <=> since' >= 1) /\ (pdp' <=> since' >= 2)
      BY <1>1, <3>2, <3>3
    <3>5. applied' => pdp' /\ Stored'
      BY <1>1, <1>2, <1>8, <3>2, <3>3
    <3> QED
      BY <3>1, <3>4, <3>5 DEF Applying, Phase
  <2>7. CASE Finishing
    <3>1. /\ pc' = "commit" /\ ~commit' /\ AllLoaded' /\ Latched'
          /\ ts' = "DONE" /\ status' = "DONE" /\ ~pulse'
      BY <1>1, <1>10, <2>7 DEF Finishing
    <3>2. /\ (ff1 <=> since = 0) /\ (pdp <=> since <= 1) /\ ~pulse
          /\ (since >= 1 => applied) /\ (applied => Stored)
      BY <2>7 DEF Finishing
    <3>3. /\ since' # 0 /\ (since' <= 1 <=> since = 0)
          /\ (since <= 1 \/ since >= 1)
      BY <1>1, <1>4, Counts
    <3>4. (ff1' <=> since' = 0) /\ (pdp' <=> since' <= 1)
      BY <1>1, <3>2, <3>3
    <3>5. applied' /\ Stored'
      BY <1>2, <1>8, <1>9, <3>2, <3>3
    <3> QED
      BY <3>1, <3>4, <3>5 DEF Finishing, Phase
  <2>8. CASE Finished
      BY <1>1, <1>13, <2>8 DEF Finished, Phase
  <2> QED
    BY <2>1, <2>2, <2>3, <2>4, <2>5, <2>6, <2>7, <2>8 DEF IInv, Phase
<1>15. EntryAtHome'
    BY <1>8, <1>9
<1> QED
    BY <1>6, <1>7, <1>14, <1>15 DEF IInv

(* On an edge of clk_ctrl the engine takes its step and the driver, if the *)
(* bus is not in its setup cycle, an access: no clk_dp edge can be too     *)
(* late.                                                                   *)
LEMMA CtrlFacts ==
    ASSUME IInv, Access \/ NoAccess
    PROVE  /\ since = DpPerCtrl /\ since' = 0 /\ since >= 2
           /\ tcam' = tcam /\ asram' = asram /\ parser' = parser
           /\ (ff1' <=> ff1) /\ (pdp' <=> pdp) /\ (applied' <=> applied)
           /\ \/ ~gap /\ gap' /\ (Poll \/ Write)
              \/ /\ ~gap' /\ ~commit' /\ regs' = regs
                 /\ pc' = pc /\ op' = op /\ w' = w /\ polls' = polls /\ ret' = ret
<1>1. since = DpPerCtrl /\ since' = 0 /\ UNCHANGED <<plane, applied>>
    BY DEF Access, NoAccess
<1>2. /\ tcam' = tcam /\ asram' = asram /\ parser' = parser
      /\ (ff1' <=> ff1) /\ (pdp' <=> pdp) /\ (applied' <=> applied)
    BY <1>1 DEF plane
<1>3. CASE Access
    BY <1>1, <1>2, <1>3, Counts DEF Access
<1>4. CASE NoAccess
    BY <1>1, <1>2, <1>4, Counts DEF NoAccess, driver
<1> QED
    BY <1>3, <1>4

(* The step of the engine, from what the phase says of its state.          *)
LEMMA FsmFacts ==
    ASSUME Fsm
    PROVE  /\ ts = "IDLE" /\ ~commit =>
                 /\ ts' = ts /\ drain' = drain /\ status' = status /\ ~pulse' /\ dp' = dp
           /\ ts = "IDLE" /\ commit =>
                 /\ ts' = "WAIT_DRAIN" /\ drain' = Drain /\ status' = "BUSY"
                 /\ ~pulse' /\ dp' = dp
           /\ ts = "WAIT_DRAIN" =>
                 /\ status' = status
                 /\ \/ drain = 0 /\ drain' = drain /\ ts' = "APPLY" /\ pulse' /\ Latch
                    \/ drain > 0 /\ drain' = drain - 1 /\ ts' = ts /\ ~pulse' /\ dp' = dp
           /\ ts = "APPLY" =>
                 ts' = "DONE" /\ status' = "DONE" /\ ~pulse' /\ drain' = drain /\ dp' = dp
           /\ ts = "DONE" =>
                 ts' = "IDLE" /\ status' = "IDLE" /\ ~pulse' /\ drain' = drain /\ dp' = dp
<1>1. CASE TsIdle
    BY <1>1 DEF TsIdle
<1>2. CASE TsWaitDrain
    BY <1>2 DEF TsWaitDrain
<1>3. CASE TsApply
    BY <1>3 DEF TsApply
<1>4. CASE TsDone
    BY <1>4 DEF TsDone
<1> QED
    BY <1>1, <1>2, <1>3, <1>4 DEF Fsm

(* The driver's part of an edge, phase by phase.                           *)
LEMMA DriverFacts ==
    ASSUME IInv, Access \/ NoAccess
    PROVE  /\ Resting => pc' = "idle" /\ ~commit' /\ op' = op /\ w' = w /\ polls' = polls
                         /\ regs' = regs /\ ret' = ret
           /\ Committed => ~gap' /\ ~commit' /\ pc' = "commit" /\ op' = op /\ w' = w
                           /\ polls' = polls /\ regs' = regs /\ ret' = ret
           /\ Draining \/ Applying =>
                 /\ ~commit' /\ pc' = "commit" /\ op' = op /\ w' = w /\ regs' = regs
                 /\ ret' = ret
                 /\ \/ ~gap' /\ polls' = polls
                    \/ ~gap /\ gap' /\ polls' = polls + 1 /\ polls + 1 < MaxPolls
           /\ Finishing \/ Finished =>
                 /\ ~commit' /\ w' = w /\ regs' = regs
                 /\ \/ pc' = "commit" /\ op' = op /\ polls' = polls /\ ret' = ret
                    \/ pc' = "idle" /\ op' = NoCall /\ polls' = 0 /\ ret' = "OK"
<1>1. TypeOK
    BY DEF IInv
<1>2. \/ ~gap /\ gap' /\ Poll
      \/ ~gap /\ gap' /\ Write
      \/ /\ ~gap' /\ ~commit' /\ regs' = regs
         /\ pc' = pc /\ op' = op /\ w' = w /\ polls' = polls /\ ret' = ret
    BY CtrlFacts
<1>3. Write => pc = "write"
    BY DEF Write
<1>4. Poll => pc \in {"wait", "commit"}
    BY DEF Poll
<1>5. ASSUME Resting
      PROVE  /\ pc' = "idle" /\ ~commit' /\ op' = op /\ w' = w /\ polls' = polls
             /\ regs' = regs /\ ret' = ret
    BY <1>2, <1>3, <1>4, <1>5 DEF Resting
<1>6. ASSUME Committed
      PROVE  /\ ~gap' /\ ~commit' /\ pc' = "commit" /\ op' = op /\ w' = w
             /\ polls' = polls /\ regs' = regs /\ ret' = ret
    BY <1>2, <1>6 DEF Committed
<1>7. ASSUME Draining \/ Applying
      PROVE  /\ ~commit' /\ pc' = "commit" /\ op' = op /\ w' = w /\ regs' = regs
             /\ ret' = ret
             /\ \/ ~gap' /\ polls' = polls
                \/ ~gap /\ gap' /\ polls' = polls + 1 /\ polls + 1 < MaxPolls
  <2>1. pc = "commit" /\ status = "BUSY"
    BY <1>7 DEF Draining, Applying
  <2>2. polls \in Nat /\ (~gap => 2 * polls <= Drain + 1)
    <3>1. polls \in Nat /\ drain \in Nat
        BY <1>1, Counts DEF TypeOK
    <3>2. ~gap => Setup = 0
        BY DEF Setup
    <3>3. CASE Draining
        BY <3>1, <3>2, <3>3, Counts DEF Draining
    <3>4. CASE Applying
        BY <3>1, <3>2, <3>4, Counts DEF Applying
    <3> QED
        BY <1>7, <3>1, <3>3, <3>4
  <2>3. ~gap => polls + 1 < MaxPolls
    BY <2>2, Counts
  <2>4. ~Write
    BY <1>3, <2>1
  <2>5. CASE ~gap /\ gap' /\ Poll
    <3>1. /\ commit' = FALSE /\ regs' = regs /\ w' = w
          /\ pc' = pc /\ polls' = polls + 1 /\ op' = op /\ ret' = ret
        BY <1>1, <2>1, <2>2, <2>3, <2>5, PollFacts, Counts
    <3> QED
        BY <2>1, <2>3, <2>5, <3>1
  <2>6. CASE /\ ~gap' /\ ~commit' /\ regs' = regs
             /\ pc' = pc /\ op' = op /\ w' = w /\ polls' = polls /\ ret' = ret
    BY <2>1, <2>6
  <2> QED
    BY <1>2, <2>4, <2>5, <2>6
<1>8. ASSUME Finishing \/ Finished
      PROVE  /\ ~commit' /\ w' = w /\ regs' = regs
             /\ \/ pc' = "commit" /\ op' = op /\ polls' = polls /\ ret' = ret
                \/ pc' = "idle" /\ op' = NoCall /\ polls' = 0 /\ ret' = "OK"
  <2>1. pc = "commit" /\ status # "BUSY"
    BY <1>8 DEF Finishing, Finished, Calm
  <2>2. CASE Poll
    <3>1. /\ commit' = FALSE /\ regs' = regs /\ w' = w
          /\ pc' = "idle" /\ polls' = 0 /\ op' = NoCall /\ ret' = "OK"
        BY <1>1, <2>1, <2>2, PollFacts
    <3> QED
        BY <3>1
  <2>3. ~Write
    BY <1>3, <2>1
  <2> QED
    BY <1>2, <2>1, <2>2, <2>3
<1> QED
    BY <1>5, <1>6, <1>7, <1>8

(* Types after an edge of clk_ctrl.                                        *)
LEMMA CtrlTypes ==
    ASSUME IInv, Access \/ NoAccess
    PROVE  TypeOK'
<1>1. TypeOK /\ Phase
    BY DEF IInv
<1>2. Fsm
    BY DEF Access, NoAccess
<1>3. /\ ts' \in {"IDLE", "WAIT_DRAIN", "APPLY", "DONE"}
      /\ drain' \in 0 .. Drain /\ status' \in {"IDLE", "BUSY", "DONE"}
      /\ pulse' \in BOOLEAN
      /\ dp' \in [cmd : Cmds, stage : Stages \cup {ParserStage}, key : Keys, act : Acts]
    BY <1>1, <1>2, FsmTypes
<1>4. /\ UNCHANGED <<ff1, pdp, tcam, asram, parser, applied>>
      /\ since' = 0 /\ 0 \in 0 .. DpPerCtrl
    BY Counts DEF Access, NoAccess, plane
<1>5. gap' \in BOOLEAN
    BY <1>1 DEF Access, NoAccess
<1>6. /\ regs' \in Op /\ commit' \in BOOLEAN
      /\ pc' \in {"idle", "wait", "write", "commit"}
      /\ op' \in Op \cup {NoCall} /\ (op' = NoCall <=> pc' = "idle")
      /\ w' \in 1 .. 6 /\ polls' \in 0 .. MaxPolls - 1
      /\ ret' \in {"none", "OK", "TIMEOUT"}
  <2>1. /\ regs \in Op /\ w \in 1 .. 6 /\ polls \in 0 .. MaxPolls - 1
        /\ pc \in {"idle", "wait", "write", "commit"}
        /\ op \in Op \cup {NoCall} /\ (op = NoCall <=> pc = "idle")
        /\ ret \in {"none", "OK", "TIMEOUT"} /\ MaxPolls \in Nat /\ 0 \in 0 .. MaxPolls - 1
    BY <1>1, Counts DEF TypeOK
  <2>2. CASE Poll
    <3>1. commit' \in BOOLEAN /\ regs' = regs /\ w' = w
        BY <1>1, <2>2, PollFacts
    <3>2. /\ pc' \in {"idle", "wait", "write", "commit"} /\ polls' \in 0 .. MaxPolls - 1
          /\ op' \in Op \cup {NoCall} /\ (op' = NoCall <=> pc' = "idle")
          /\ ret' \in {"none", "OK", "TIMEOUT"}
      <4>1. pc # "idle"
        BY <2>2 DEF Poll
      <4>2. polls + 1 < MaxPolls => polls + 1 \in 0 .. MaxPolls - 1
        BY <2>1
      <4> QED
        BY <1>1, <2>1, <2>2, <4>1, <4>2, PollFacts
    <3> QED
        BY <2>1, <3>1, <3>2
  <2>3. CASE Write
    <3>1. Writing
        BY <1>1, <2>3 DEF Write, Phase, Resting, Waiting, Committed, Draining, Applying,
                          Finishing, Finished
    <3>2. /\ op' = op /\ ret' = ret /\ regs' \in Op
          /\ \/ pc' = "write" /\ commit' = FALSE /\ w' \in 1 .. 6 /\ polls' = polls
             \/ pc' = "commit" /\ commit' = TRUE /\ w' = 1 /\ polls' = 0
        BY <1>1, <2>3, <3>1, WriteFacts
    <3>3. pc = "write" /\ op' \in Op \cup {NoCall} /\ op' # NoCall
        BY <2>1, <3>1, <3>2 DEF Writing
    <3>4. commit' \in BOOLEAN /\ pc' \in {"write", "commit"}
        BY <3>2
    <3>5. w' \in 1 .. 6 /\ polls' \in 0 .. MaxPolls - 1
        BY <2>1, <3>2, Counts
    <3> QED
        BY <2>1, <3>2, <3>3, <3>4, <3>5
  <2>4. CASE NoAccess
    BY <1>1, <2>4 DEF NoAccess, driver, TypeOK
  <2> QED
    BY <2>2, <2>3, <2>4 DEF Access
<1> QED
    BY <1>1, <1>3, <1>4, <1>5, <1>6 DEF TypeOK

(* Phases after an edge of clk_ctrl: a call goes from each to the next.    *)
LEMMA CtrlPhases ==
    ASSUME IInv, Access \/ NoAccess
    PROVE  Phase' /\ NeverTimesOut' /\ (pc' = "write" \/ w' = 1)
<1>1. TypeOK /\ Phase /\ NeverTimesOut /\ (pc = "write" \/ w = 1)
    BY DEF IInv
<1>2. Fsm
    BY DEF Access, NoAccess
<1>3. /\ since' = 0 /\ since >= 2
      /\ tcam' = tcam /\ asram' = asram
      /\ (ff1' <=> ff1) /\ (pdp' <=> pdp) /\ (applied' <=> applied)
    BY CtrlFacts
<1>4. regs' = regs /\ op' = op => (AllLoaded => AllLoaded') /\ (Loaded(w - 1) /\ w' = w => Loaded(w - 1)')
    BY DEF AllLoaded, Loaded
<1>5. regs' = regs /\ dp' = dp => (Latched => Latched') /\ (Stored => Stored')
    BY <1>3 DEF Latched, Stored
<1>6. Calm /\ ~commit => Calm'
    BY <1>2, <1>3, FsmFacts DEF Calm
<1>7. CASE Resting
    BY <1>1, <1>6, <1>7, DriverFacts DEF Resting, Phase, NeverTimesOut
<1>8. CASE Waiting
  <2>1. Calm' /\ ~applied'
    BY <1>3, <1>6, <1>8 DEF Waiting
  <2>2. CASE Poll
    <3>1. /\ commit' = FALSE /\ regs' = regs /\ w' = w /\ pc' = "write" /\ op' = op /\ ret' = ret
        BY <1>1, <1>8, <2>2, PollFacts DEF Waiting, Calm
    <3>2. w = 1 /\ op \in Op
        BY <1>1, <1>8 DEF Waiting, TypeOK
    <3>3. w' \in 1 .. Len(Program(op'))
      <4>1. Len(Program(op)) \in 3 .. 6
        BY <3>2, ProgramFacts
      <4> QED
        BY <3>1, <3>2, <4>1
    <3>4. Loaded(w - 1)'
        BY <3>1, <3>2 DEF Loaded
    <3> QED
        BY <1>1, <2>1, <3>1, <3>3, <3>4 DEF Writing, Phase, NeverTimesOut
  <2>3. ~Write
    BY <1>8 DEF Write, Waiting
  <2>4. CASE /\ ~commit' /\ pc' = pc /\ polls' = polls /\ ret' = ret /\ w' = w
    BY <1>1, <1>8, <2>1, <2>4 DEF Waiting, Phase, NeverTimesOut
  <2> QED
    BY <2>2, <2>3, <2>4, CtrlFacts
<1>9. CASE Writing
  <2>1. Calm' /\ ~applied'
    BY <1>3, <1>6, <1>9 DEF Writing
  <2>2. CASE Write /\ gap'
    <3>1. CASE /\ pc' = "write" /\ commit' = FALSE
               /\ w' \in 1 .. Len(Program(op)) /\ Loaded(w - 1)'
               /\ op' = op /\ ret' = ret
        BY <1>1, <2>1, <3>1 DEF Writing, Phase, NeverTimesOut
    <3>2. CASE /\ pc' = "commit" /\ commit' = TRUE /\ w' = 1 /\ polls' = 0
               /\ AllLoaded' /\ op' = op /\ ret' = ret
        BY <1>1, <2>1, <2>2, <3>2 DEF Committed, Phase, NeverTimesOut
    <3> QED
        BY <1>1, <1>9, <2>2, <3>1, <3>2, WriteFacts
  <2>3. ~Poll
    BY <1>9 DEF Poll, Writing
  <2>4. CASE /\ ~commit' /\ pc' = pc /\ op' = op /\ regs' = regs /\ ret' = ret /\ w' = w
    BY <1>1, <1>4, <1>9, <2>1, <2>4 DEF Writing, Phase, NeverTimesOut
  <2> QED
    BY <2>2, <2>3, <2>4, CtrlFacts
<1>10. CASE Committed
  <2>1. /\ ~gap' /\ ~commit' /\ pc' = "commit" /\ op' = op /\ w' = w
        /\ polls' = polls /\ regs' = regs /\ ret' = ret
    BY <1>10, DriverFacts
  <2>2. ts' = "WAIT_DRAIN" /\ drain' = Drain /\ status' = "BUSY" /\ ~pulse'
    BY <1>2, <1>10, FsmFacts DEF Committed, Calm
  <2>3. ~ff1' /\ ~pdp' /\ ~applied' /\ AllLoaded' /\ polls = 0
    BY <1>3, <1>4, <1>10, <2>1 DEF Committed, Calm
  <2>4. 2 * polls' + drain' <= Drain + Setup'
    BY <2>1, <2>2, <2>3, Counts DEF Setup
  <2>5. Draining'
    BY <2>1, <2>2, <2>3, <2>4 DEF Draining
  <2> QED
    BY <1>1, <1>10, <2>1, <2>5 DEF Phase, NeverTimesOut, Committed
<1>11. CASE Draining
  <2>1. /\ ~commit' /\ pc' = "commit" /\ op' = op /\ w' = w /\ regs' = regs /\ ret' = ret
        /\ \/ ~gap' /\ polls' = polls
           \/ ~gap /\ gap' /\ polls' = polls + 1
    BY <1>11, DriverFacts
  <2>2. ~ff1' /\ ~pdp' /\ ~applied' /\ AllLoaded'
    BY <1>3, <1>4, <1>11, <2>1 DEF Draining
  <2>3. polls \in Nat /\ drain \in Nat /\ 2 * polls + drain <= Drain + Setup
    BY <1>1, <1>11, Counts DEF TypeOK, Draining
  <2>4. polls' \in Nat /\ 2 * polls' + drain <= Drain + 1 + Setup'
    BY <2>1, <2>3, Counts DEF Setup
  <2>5. CASE drain = 0 /\ drain' = drain /\ ts' = "APPLY" /\ pulse' /\ Latch /\ status' = status
    <3>1. Latched'
        BY <2>1, <2>5 DEF Latched, Latch
    <3>2. 2 * polls' <= Drain + 1 + Setup'
        BY <2>4, <2>5
    <3>3. status' = "BUSY" /\ ~(since' >= 1) /\ ~(since' >= 2)
        BY <1>3, <1>11, <2>5 DEF Draining
    <3>4. Applying'
        BY <2>1, <2>2, <2>5, <3>1, <3>2, <3>3 DEF Applying
    <3> QED
        BY <1>1, <1>11, <2>1, <3>4 DEF Phase, NeverTimesOut, Draining
  <2>6. CASE drain > 0 /\ drain' = drain - 1 /\ ts' = ts /\ ~pulse' /\ status' = status
    <3>1. 2 * polls' + drain' <= Drain + Setup'
      <4>1. ASSUME NEW n \in Int, NEW d \in Int, NEW s \in Int, 2 * n + d <= Drain + 1 + s
            PROVE  2 * n + (d - 1) <= Drain + s
        BY <4>1, Counts
      <4>2. Setup' \in Int
        BY DEF Setup
      <4> QED
        BY <2>3, <2>4, <2>6, <4>1, <4>2
    <3>2. ts' = "WAIT_DRAIN" /\ status' = "BUSY"
        BY <1>11, <2>6 DEF Draining
    <3>3. Draining'
        BY <2>1, <2>2, <2>6, <3>1, <3>2 DEF Draining
    <3> QED
        BY <1>1, <1>11, <2>1, <3>3 DEF Phase, NeverTimesOut, Draining
  <2> QED
    BY <1>2, <1>11, <2>5, <2>6, FsmFacts DEF Draining
<1>12. CASE Applying
  <2>1. ~commit' /\ pc' = "commit" /\ op' = op /\ w' = w /\ regs' = regs /\ ret' = ret
    BY <1>12, DriverFacts
  <2>2. ts' = "DONE" /\ status' = "DONE" /\ ~pulse' /\ dp' = dp
    BY <1>2, <1>12, FsmFacts DEF Applying
  <2>3. AllLoaded' /\ Latched' /\ (applied' => Stored')
    BY <1>3, <1>4, <1>5, <1>12, <2>1, <2>2 DEF Applying
  <2>4. ff1' /\ pdp' /\ since' = 0
    <3>1. since >= 1
        BY <1>1, <1>3, Counts DEF TypeOK
    <3> QED
        BY <1>3, <1>12, <3>1 DEF Applying
  <2>5. Finishing'
    <3>1. since' = 0 /\ since' <= 1 /\ ~(since' >= 1)
        BY <2>4
    <3> QED
        BY <2>1, <2>2, <2>3, <2>4, <3>1 DEF Finishing
  <2> QED
    BY <1>1, <1>12, <2>1, <2>5 DEF Phase, NeverTimesOut, Applying
<1>13. CASE Finishing
  <2>1. since # 0 /\ ~(since <= 1) /\ since >= 1
    BY <1>1, <1>3, Counts DEF TypeOK
  <2>2. ~ff1' /\ ~pdp' /\ applied'
    BY <1>3, <1>13, <2>1 DEF Finishing
  <2>3. ts' = "IDLE" /\ status' = "IDLE" /\ ~pulse'
    BY <1>2, <1>13, FsmFacts DEF Finishing
  <2>4. Calm'
    BY <2>2, <2>3 DEF Calm
  <2> QED
    BY <1>1, <1>13, <2>2, <2>4, DriverFacts
       DEF Finishing, Resting, Finished, Phase, NeverTimesOut
<1>14. CASE Finished
  <2>1. Calm' /\ applied'
    BY <1>3, <1>6, <1>14 DEF Finished
  <2> QED
    BY <1>1, <1>14, <2>1, DriverFacts DEF Finished, Resting, Phase, NeverTimesOut
<1> QED
    BY <1>1, <1>7, <1>8, <1>9, <1>10, <1>11, <1>12, <1>13, <1>14 DEF Phase

LEMMA CtrlKeeps ==
    ASSUME IInv, Access \/ NoAccess
    PROVE  IInv'
<1>1. EntryAtHome'
  <2>1. EntryAtHome /\ tcam' = tcam
    BY CtrlFacts DEF IInv
  <2> QED
    BY <2>1 DEF EntryAtHome
<1> QED
    BY <1>1, CtrlTypes, CtrlPhases DEF IInv

-----------------------------------------------------------------------------
LEMMA InitInvariant == Init => IInv
<1> SUFFICES ASSUME Init PROVE IInv
    OBVIOUS
<1>1. "INSERT" \in Cmds /\ 0 \in Stages /\ 0 \in TableIds /\ Key0 \in Keys /\ Act0 \in Acts
    BY ValueAssumption
<1>2. regs \in Op /\ dp \in [cmd : Cmds, stage : Stages \cup {ParserStage}, key : Keys, act : Acts]
    BY <1>1 DEF Init, Op
<1>3. /\ tcam \in [Stages -> [Addrs -> Cell]] /\ EntryAtHome
      /\ asram \in [Stages -> [TableIds -> Acts]] /\ parser \in [Bytes -> Keys]
    BY <1>1 DEF Init, Cell, EntryAtHome
<1>4. drain \in 0 .. Drain /\ since \in 0 .. DpPerCtrl /\ polls \in 0 .. MaxPolls - 1 /\ w \in 1 .. 6
    BY Counts DEF Init
<1>5. TypeOK
    BY <1>2, <1>3, <1>4 DEF Init, TypeOK
<1>6. Resting /\ w = 1 /\ NeverTimesOut
    BY DEF Init, Resting, Calm, NeverTimesOut
<1> QED
    BY <1>3, <1>5, <1>6 DEF IInv, Phase

LEMMA StutterKeeps == IInv /\ UNCHANGED vars => IInv'
<1> SUFFICES ASSUME IInv, UNCHANGED vars PROVE IInv'
    OBVIOUS
<1>1. UNCHANGED <<regs, commit, ts, drain, status, pulse, dp, ff1, pdp, tcam, asram, parser,
                  pc, op, w, polls, ret, since, gap, applied>>
    BY DEF vars, engine, plane, driver
<1>2. TypeOK' /\ EntryAtHome' /\ NeverTimesOut' /\ (pc' = "write" \/ w' = 1)
    BY <1>1 DEF IInv, TypeOK, EntryAtHome, NeverTimesOut
<1>3. Phase'
    BY <1>1 DEF IInv, Phase, Resting, Waiting, Writing, Committed, Draining, Applying, Finishing,
                Finished, Calm, AllLoaded, Loaded, Latched, Stored, Setup
<1> QED
    BY <1>2, <1>3 DEF IInv

LEMMA StepInvariant == IInv /\ [Next]_vars => IInv'
<1> SUFFICES ASSUME IInv, [Next]_vars PROVE IInv'
    OBVIOUS
<1>1. CASE DpEdge
    BY <1>1, DpKeeps
<1>2. CASE Access \/ NoAccess
    BY <1>2, CtrlKeeps
<1>3. CASE \E o \in Ops : Call(o)
    BY <1>3, CallKeeps
<1>4. CASE UNCHANGED vars
    BY <1>4, StutterKeeps
<1> QED
    BY <1>1, <1>2, <1>3, <1>4 DEF Next

(* The phases of a call, each with what it says of registers, engine,      *)
(* synchroniser and memories, are invariant for every set of commands.     *)
THEOREM InductiveInvariant == Spec => []IInv
<1> QED
    BY InitInvariant, StepInvariant, PTL DEF Spec

(* Every register, memory and counter of the engine and of the HAL keeps   *)
(* to its type.                                                            *)
THEOREM TypeCorrect == Spec => []TypeOK
<1>1. IInv => TypeOK
    BY DEF IInv
<1> QED
    BY InductiveInvariant, <1>1, PTL

(* The polls of tue_wait_idle never run out, if they outlast the drain.    *)
THEOREM NoTimeout == Spec => []NeverTimesOut
<1>1. IInv => NeverTimesOut
    BY DEF IInv
<1> QED
    BY InductiveInvariant, <1>1, PTL

-----------------------------------------------------------------------------
(* The rules as TcamTable has them.                                        *)
Rules == [s \in Stages |-> [a \in Addrs |-> RuleAt(s, a)]]

(* MODIFY and FLUSH do not change the one rule they name.                  *)
OneRuleCmds == Cmds \subseteq {"INSERT", "DELETE"}

(* The rules are a function of the memories alone.                         *)
LEMMA SameRules == tcam' = tcam /\ asram' = asram => Rules' = Rules
    BY DEF Rules, RuleAt

(* Before it is applied, a call in the engine has every operand it needs   *)
(* in the registers and the latches.                                       *)
LEMMA OperandsAgree ==
    ASSUME TypeOK, OneRuleCmds, pc = "commit", AllLoaded, Latched
    PROVE  /\ op \in Op /\ op # NoCall
           /\ dp.cmd = op.cmd /\ dp.stage = op.stage /\ regs.table_id = op.table_id
           /\ op.cmd = "INSERT" /\ op.stage \in Stages => dp.key = op.key /\ dp.act = op.act
<1> DEFINE p == Program(op)
<1>1. op \in Op /\ op # NoCall /\ op.cmd \in {"INSERT", "DELETE"}
    BY DEF TypeOK, OneRuleCmds, Op
<1>2. /\ \E i \in 1 .. Len(p) - 1 : p[i] = "cmd"
      /\ \E i \in 1 .. Len(p) - 1 : p[i] = "stage"
      /\ \E i \in 1 .. Len(p) - 1 : p[i] = "table_id"
      /\ op.cmd = "INSERT" /\ op.stage \in Stages =>
            /\ \E i \in 1 .. Len(p) - 1 : p[i] = "key"
            /\ \E i \in 1 .. Len(p) - 1 : p[i] = "act"
    BY <1>1, ProgramFacts
<1>3. \A i \in 1 .. Len(p) - 1 : regs[p[i]] = op[p[i]]
    BY DEF AllLoaded, Loaded
<1> HIDE DEF p
<1>4. /\ regs["cmd"] = op["cmd"] /\ regs["stage"] = op["stage"]
      /\ regs["table_id"] = op["table_id"]
      /\ op.cmd = "INSERT" /\ op.stage \in Stages =>
            regs["key"] = op["key"] /\ regs["act"] = op["act"]
    BY <1>2, <1>3
<1>5. /\ dp.cmd = regs.cmd /\ dp.stage = regs.stage /\ dp.key = regs.key /\ dp.act = regs.act
    BY DEF Latched
<1> QED
    BY <1>1, <1>4, <1>5

(* The first write of the pulse is the one instant at which a call takes   *)
(* effect.                                                                 *)
LEMMA ApplyStep ==
    ASSUME IInv, OneRuleCmds, DpEdge, pdp, ~applied
    PROVE  Table!Apply
<1>1. TypeOK /\ EntryAtHome
    BY DEF IInv
<1>2. pc = "commit" /\ AllLoaded /\ Latched
    BY DEF IInv, Phase, Calm, Resting, Waiting, Writing, Committed, Draining, Applying, Finishing,
           Finished
<1>3. /\ op \in Op /\ op # NoCall
      /\ dp.cmd = op.cmd /\ dp.stage = op.stage /\ regs.table_id = op.table_id
      /\ op.cmd = "INSERT" /\ op.stage \in Stages => dp.key = op.key /\ dp.act = op.act
    BY <1>1, <1>2, OperandsAgree
<1>4. /\ WriteMau /\ applied' = TRUE /\ op' = op
    BY DEF DpEdge, driver
<1> DEFINE st   == op.stage
           t    == op.table_id
           a    == op.table_id % AddrMod
           rule == Table!RuleOf(op)
<1>5. CASE st \notin Stages
  <2>1. tcam' = tcam /\ asram' = asram
    BY <1>3, <1>4, <1>5 DEF WriteMau
  <2>2. Rules' = Rules
    BY <2>1, SameRules
  <2> QED
    BY <1>3, <1>4, <1>5, <2>2 DEF Table!Apply, Rules
<1>6. CASE st \in Stages
  <2> DEFINE cell == [valid |-> op.cmd = "INSERT", key |-> dp.key, ptr |-> t]
  <2>1. /\ tcam \in [Stages -> [Addrs -> Cell]] /\ asram \in [Stages -> [TableIds -> Acts]]
        /\ t \in TableIds /\ a \in Addrs
    BY <1>1, <1>3, OperandFacts DEF TypeOK
  <2>2. op.cmd # "FLUSH"
    BY <1>3 DEF OneRuleCmds, Op
  <2>3. tcam' = PutAt(tcam, st, a, cell) /\ asram' = PutAt(asram, st, t, dp.act)
    BY <1>3, <1>4, <1>6, <2>2 DEF WriteMau, PutAt
  <2>4. cell.valid = (op.cmd = "INSERT") /\ cell.key = dp.key /\ cell.ptr = t
    OBVIOUS
  <2>5. rule = IF op.cmd = "INSERT" THEN [key |-> op.key, act |-> op.act] ELSE NoRule
    BY DEF Table!RuleOf
  <2> HIDE DEF cell, rule, st, t, a
  <2>6. /\ tcam'[st][a] = cell /\ asram'[st][t] = dp.act
        /\ \A s \in Stages, b \in Addrs : s # st \/ b # a => tcam'[s][b] = tcam[s][b]
        /\ \A s \in Stages, u \in TableIds : s # st \/ u # t => asram'[s][u] = asram[s][u]
    BY <1>6, <2>1, <2>3 DEF PutAt
  <2>7. ASSUME NEW s \in Stages, NEW b \in Addrs, s = st, b = a
        PROVE  RuleAt(s, b)' = rule
    <3>1. tcam'[s][b] = cell
        BY <2>6, <2>7
    <3>2. CASE op.cmd = "INSERT"
      <4>1. cell.valid /\ cell.key = op.key /\ asram'[s][cell.ptr] = op.act
        BY <1>3, <1>6, <2>4, <2>6, <2>7, <3>2 DEF st
      <4> QED
        BY <2>5, <3>1, <3>2, <4>1 DEF RuleAt
    <3>3. CASE op.cmd # "INSERT"
        BY <2>4, <2>5, <3>1, <3>3 DEF RuleAt
    <3> QED
        BY <3>2, <3>3
  <2>8. ASSUME NEW s \in Stages, NEW b \in Addrs, s # st \/ b # a
        PROVE  RuleAt(s, b)' = RuleAt(s, b)
    <3>1. tcam'[s][b] = tcam[s][b] /\ tcam[s][b].ptr \in TableIds
        BY <2>1, <2>6, <2>8 DEF Cell
    <3>2. CASE tcam[s][b].valid
      <4>1. tcam[s][b].ptr % AddrMod = b
        BY <1>1, <3>2 DEF EntryAtHome
      <4>2. s # st \/ tcam[s][b].ptr # t
        BY <2>8, <4>1 DEF t, a
      <4>3. asram'[s][tcam[s][b].ptr] = asram[s][tcam[s][b].ptr]
        BY <2>6, <3>1, <4>2
      <4> QED
        BY <3>1, <4>3 DEF RuleAt
    <3>3. CASE ~tcam[s][b].valid
        BY <3>1, <3>3 DEF RuleAt
    <3> QED
        BY <3>2, <3>3
  <2>9. Rules' = [Rules EXCEPT ![st][a] = rule]
    <3>1. \A s \in Stages, b \in Addrs :
             RuleAt(s, b)' = IF s = st /\ b = a THEN rule ELSE RuleAt(s, b)
      <4> TAKE s \in Stages, b \in Addrs
      <4> QED
        BY <2>7, <2>8
    <3>2. Rules' = [s \in Stages |-> [b \in Addrs |-> RuleAt(s, b)']]
        BY DEF Rules
    <3> QED
        BY <1>6, <2>1, <3>1, <3>2 DEF Rules
  <2> QED
    BY <1>3, <1>4, <1>6, <2>9 DEF Table!Apply, Rules, st, rule, a
<1> QED
    BY <1>5, <1>6

(* A later write of the same pulse changes nothing.                        *)
LEMMA RepeatStep ==
    ASSUME IInv, DpEdge, pdp, applied
    PROVE  UNCHANGED <<Rules, op, applied>>
<1>1. TypeOK /\ EntryAtHome
    BY DEF IInv
<1>2. Stored
    BY DEF IInv, Phase, Calm, Resting, Waiting, Writing, Committed, Draining, Applying, Finishing,
           Finished
<1>3. WriteMau /\ regs' = regs /\ dp' = dp /\ op' = op /\ applied' = TRUE
    BY DEF DpEdge, engine, driver
<1>4. tcam' = tcam /\ asram' = asram
    BY <1>1, <1>2, <1>3, StoreFacts
<1>5. applied' = applied
    BY <1>1, <1>3 DEF TypeOK
<1> QED
    BY <1>3, <1>4, <1>5, SameRules

(* A poll, a register write or a step of the engine leaves the rules       *)
(* alone, and a call returns only when it has taken effect.                *)
LEMMA CtrlStep ==
    ASSUME IInv, Access \/ NoAccess
    PROVE  Table!Return \/ UNCHANGED <<Rules, op, applied>>
<1>1. TypeOK /\ Phase
    BY DEF IInv
<1>2. tcam' = tcam /\ asram' = asram /\ applied' = applied
    BY DEF Access, NoAccess, plane
<1>3. Rules' = Rules
    BY <1>2, SameRules
<1>4. CASE op' = op
    BY <1>2, <1>3, <1>4
<1>5. CASE op' # op
  <2>1. Finishing \/ Finished
    <3>1. ~Resting /\ ~Committed /\ ~Draining /\ ~Applying
        BY <1>5, DriverFacts
    <3>2. ~Waiting /\ ~Writing
      <4>1. \/ Poll
            \/ Write
            \/ op' = op
        BY CtrlFacts
      <4>2. CASE Poll
        <5>1. pc \in {"wait", "commit"} /\ (pc = "wait" /\ status = "IDLE" => op' = op)
            BY <1>1, <4>2, PollFacts DEF Poll
        <5> QED
            BY <1>5, <5>1 DEF Waiting, Writing, Calm
      <4>3. CASE Write
        BY <1>5, <4>3 DEF Write
      <4> QED
        BY <1>5, <4>1, <4>2, <4>3
    <3> QED
        BY <1>1, <3>1, <3>2 DEF Phase
  <2>2. op' = NoCall
    BY <1>5, <2>1, DriverFacts
  <2>3. op # NoCall
    BY <1>5, <2>2
  <2>4. applied
    <3>1. CASE Finishing
      <4>1. since >= 1
        <5>1. since >= 2 /\ since \in Int
            BY <1>1, CtrlFacts, Counts DEF TypeOK
        <5> QED
            BY <5>1
      <4> QED
        BY <3>1, <4>1 DEF Finishing
    <3>2. CASE Finished
        BY <3>2 DEF Finished
    <3> QED
        BY <2>1, <3>1, <3>2
  <2> QED
    BY <1>2, <1>3, <2>2, <2>3, <2>4 DEF Table!Return, Rules
<1> QED
    BY <1>4, <1>5

(* Every step of the firmware, the engine and the memories is one of       *)
(* TcamTable, or changes nothing of it.                                    *)
LEMMA TableStep ==
    ASSUME IInv, OneRuleCmds, [Next]_vars
    PROVE  [Table!Next]_(Table!vars)
<1>1. UNCHANGED <<Rules, op, applied>> => UNCHANGED Table!vars
    BY DEF Table!vars, Rules
<1>2. CASE DpEdge
  <2>1. CASE pdp /\ ~applied
    BY <1>2, <2>1, ApplyStep DEF Table!Next
  <2>2. CASE pdp /\ applied
    BY <1>1, <1>2, <2>2, RepeatStep
  <2>3. CASE ~pdp
    <3>1. tcam' = tcam /\ asram' = asram /\ op' = op /\ applied' = applied
        BY <1>2, <2>3 DEF DpEdge, driver
    <3> QED
        BY <1>1, <3>1, SameRules
  <2> QED
    BY <2>1, <2>2, <2>3
<1>3. CASE Access \/ NoAccess
    BY <1>1, <1>3, CtrlStep DEF Table!Next
<1>4. CASE \E o \in Ops : Call(o)
  <2>1. PICK o \in Ops : Call(o)
    BY <1>4
  <2>2. pc = "idle" /\ op' = o /\ applied' = FALSE /\ tcam' = tcam /\ asram' = asram
    BY <2>1 DEF Call, plane
  <2>3. op = NoCall
    BY <2>2 DEF IInv, TypeOK
  <2>4. Rules' = Rules
    BY <2>2, SameRules
  <2>5. Table!Call(o)
    BY <2>2, <2>3, <2>4 DEF Table!Call, Rules
  <2> QED
    BY <2>5 DEF Table!Next
<1>5. CASE UNCHANGED vars
  <2>1. tcam' = tcam /\ asram' = asram /\ op' = op /\ applied' = applied
    BY <1>5 DEF vars, plane, driver
  <2> QED
    BY <1>1, <2>1, SameRules
<1> QED
    BY <1>2, <1>3, <1>4, <1>5 DEF Next

LEMMA TableInit == Init => Table!Init
<1> SUFFICES ASSUME Init PROVE Table!Init
    OBVIOUS
<1>1. \A s \in Stages, a \in Addrs : RuleAt(s, a) = NoRule
    BY DEF Init, RuleAt
<1>2. Addrs = Table!Addrs
    BY DEF Addrs, Table!Addrs
<1> QED
    BY <1>1, <1>2 DEF Init, Table!Init

(* The safety part of Implements: with INSERT and DELETE, a HAL call       *)
(* changes exactly its own rule, at one instant, before it returns.        *)
THEOREM ImplementsSafely ==
    ASSUME OneRuleCmds
    PROVE  Spec => Table!Init /\ [][Table!Next]_(Table!vars)
<1>1. IInv /\ [Next]_vars => [Table!Next]_(Table!vars)
    BY TableStep
<1> QED
    BY <1>1, TableInit, InductiveInvariant, PTL DEF Spec

=============================================================================
