-------------------------------- MODULE Qos --------------------------------
(***************************************************************************)
(* The QoS configuration of the firmware (sw/firmware/qos.c): the software *)
(* configuration of each port and the DSCP map, the registers of           *)
(* HAL_BASE_QOS they are written to, and the stage-5 rules of the map,     *)
(* from main's boot sequence and the CLI.                                  *)
(*                                                                         *)
(* The PIR registers are one word apart and a rate is two words long: its  *)
(* upper word goes to the next port's register, and that of the last port  *)
(* to the first port's scheduling mode, which follows the PIR registers.   *)
(***************************************************************************)
EXTENDS StageRules, Sequences

CONSTANTS
    PortCount,        \* 32
    QueueCount,       \* QOS_QUEUES_PER_PORT
    WordMod,          \* 2^32
    ByteMod,          \* 2^8: cmd_qos passes sp_queues modulo this
    Dscps,            \* the DSCP values in use
    DefaultQueue,     \* qos_dscp_map_default
    Weights,          \* weight vectors an operator types
    DefaultWeights,   \* QOS_DEFAULT_WEIGHT for every queue
    Rates,            \* peak rates an operator types
    SpQueues,         \* numbers of strict-priority queues an operator types
    QosBootCalls,     \* main's calls after qos_init, as records
    QosMaxLost        \* bound: HAL commands lost at one time

QosPorts == 0 .. PortCount - 1
Queues   == 0 .. QueueCount - 1
Words    == 0 .. WordMod - 1
Modes    == 0 .. 2                        \* QOS_SCHED_DWRR, _SP, _SP_DWRR
Bps      == 0 .. WordMod * WordMod - 1

QosCalls ==
    [op : {"weight"}, port : QosPorts, weights : Weights \cup {DefaultWeights}]
        \cup [op : {"pir"}, port : QosPorts, bps : Rates]
        \cup [op : {"mode"}, port : QosPorts, mode : Modes, spq : SpQueues]
        \cup [op : {"dscp"}, dscp : Dscps, queue : Queues]

ASSUME QosAssumption ==
    /\ PortCount \in Nat \ {0} /\ QueueCount \in Nat \ {0} /\ WordMod \in Nat
    /\ WordMod > 2 /\ ByteMod \in Nat /\ ByteMod > QueueCount
    /\ DefaultQueue \in [Dscps -> Queues]
    /\ DefaultWeights \in [Queues -> Words] /\ Weights \subseteq [Queues -> Words]
    /\ Rates \subseteq Bps /\ SpQueues \subseteq Nat
    /\ QosBootCalls \in Seq(QosCalls) /\ QosMaxLost \in Nat

VARIABLES
    port_qos,   \* per port: dwrr_weight, pir_bps, sched_mode, sp_queues
    dscp_map,   \* the queue of each DSCP value
    qos_csr,    \* the registers
    stage5,     \* the rules of stage 5
    qos_boot    \* main's next call: 0 qos_init, then QosBootCalls

qos_vars == <<port_qos, dscp_map, qos_csr, stage5, qos_boot>>

Config == [dwrr_weight : [Queues -> Words], pir_bps : Bps,
           sched_mode : Modes, sp_queues : 0 .. QueueCount]

(* The words from PIR(0) to SCHED_MODE(31), in the order of their addresses. *)
QOS_REG_PIR(p)        == p
QOS_REG_SCHED_MODE(p) == PortCount + p
Reg == 0 .. 2 * PortCount - 1

QosTypeOK ==
    /\ port_qos \in [QosPorts -> Config]
    /\ dscp_map \in [Dscps -> Queues]
    /\ qos_csr \in [dwrr : [QosPorts -> [Queues -> Words]], word : [Reg -> Words],
                    dscp : [Dscps -> Queues]]
    /\ stage5 \in StageOf(Dscps, Queues)
    /\ qos_boot \in 0 .. Len(QosBootCalls) + 1

-----------------------------------------------------------------------------
(* The register calls of the HAL.                                          *)

hal_qos_dwrr_set(regs, p, weights) == [regs EXCEPT !.dwrr[p] = weights]

(* Mutant: the two words are written in the other order.                   *)
MutPirWordsSwapped(regs, p, bps) ==
    [regs EXCEPT !.word[QOS_REG_PIR(p)] = bps \div WordMod,
                 !.word[QOS_REG_PIR(p) + 1] = bps % WordMod]

(* Mutant: the upper word is not cut off the lower.                        *)
MutPirWhole(regs, p, bps) == [regs EXCEPT !.word[QOS_REG_PIR(p)] = bps]

hal_qos_pir_set(regs, p, bps) ==
    [regs EXCEPT !.word[QOS_REG_PIR(p)] = bps % WordMod,
                 !.word[QOS_REG_PIR(p) + 1] = bps \div WordMod]

hal_qos_sched_mode_set(regs, p, mode) ==
    [regs EXCEPT !.word[QOS_REG_SCHED_MODE(p)] = mode]

-----------------------------------------------------------------------------
(* The calls of qos.h.                                                     *)

qos_apply_port(regs, p, cfg) ==
    hal_qos_sched_mode_set(
        hal_qos_pir_set(hal_qos_dwrr_set(regs, p, cfg[p].dwrr_weight), p, cfg[p].pir_bps),
        p, cfg[p].sched_mode)

qos_apply_all(regs, cfg) ==
    LET after[n \in 0 .. PortCount] ==
            IF n = 0 THEN regs ELSE qos_apply_port(after[n - 1], n - 1, cfg)
    IN  after[PortCount]

(* The rules of the DSCP values in failed are lost.                        *)
qos_apply_dscp_rules(failed) ==
    stage5' = [at   |-> [d \in Dscps |-> IF d \in failed THEN stage5.at[d] ELSE dscp_map'[d]],
               lost |-> failed]

qos_init ==
    LET default == [dwrr_weight |-> DefaultWeights, pir_bps |-> 0,
                    sched_mode |-> 0, sp_queues |-> 0]
    IN  /\ port_qos' = [p \in QosPorts |-> default]
        /\ dscp_map' = DefaultQueue
        /\ qos_csr' = qos_apply_all([qos_csr EXCEPT !.dscp = DefaultQueue], port_qos')
        /\ \E failed \in SUBSET Dscps :
              Cardinality(failed) <= QosMaxLost /\ qos_apply_dscp_rules(failed)

qos_port_set_weights(p, weights) ==
    /\ port_qos' = [port_qos EXCEPT ![p].dwrr_weight = weights]
    /\ qos_csr' = hal_qos_dwrr_set(qos_csr, p, weights)
    /\ UNCHANGED <<dscp_map, stage5>>

qos_port_set_pir(p, bps) ==
    /\ port_qos' = [port_qos EXCEPT ![p].pir_bps = bps]
    /\ qos_csr' = hal_qos_pir_set(qos_csr, p, bps)
    /\ UNCHANGED <<dscp_map, stage5>>

(* sp_queues is kept in software only; more than QueueCount is INVAL.      *)
qos_port_set_mode(p, mode, sp_queues) ==
    /\ sp_queues <= QueueCount
    /\ port_qos' = [port_qos EXCEPT ![p].sched_mode = mode, ![p].sp_queues = sp_queues]
    /\ qos_csr' = hal_qos_sched_mode_set(qos_csr, p, mode)
    /\ UNCHANGED <<dscp_map, stage5>>

(* Mutant: the map and the register change, the rule stays.                *)
MutDscpNoRule(d, queue) ==
    /\ dscp_map' = [dscp_map EXCEPT ![d] = queue]
    /\ qos_csr' = [qos_csr EXCEPT !.dscp[d] = queue]
    /\ UNCHANGED <<port_qos, stage5>>

qos_dscp_set(d, queue) ==
    /\ dscp_map' = [dscp_map EXCEPT ![d] = queue]
    /\ qos_csr' = [qos_csr EXCEPT !.dscp[d] = queue]
    /\ \E applied \in IF Cardinality(stage5.lost) < QosMaxLost THEN BOOLEAN ELSE {TRUE} :
          stage5' = hal_tcam_insert(stage5, d, queue, applied)
    /\ UNCHANGED port_qos

-----------------------------------------------------------------------------
(* main and the CLI.                                                       *)

QosInit ==
    /\ port_qos = [p \in QosPorts |-> [dwrr_weight |-> [q \in Queues |-> 0], pir_bps |-> 0,
                                    sched_mode |-> 0, sp_queues |-> 0]]
    /\ dscp_map = [d \in Dscps |-> 0]
    /\ qos_csr = [dwrr |-> [p \in QosPorts |-> [q \in Queues |-> 0]], word |-> [r \in Reg |-> 0],
                  dscp |-> [d \in Dscps |-> 0]]
    /\ stage5 = EmptyStage(Dscps)
    /\ qos_boot = 0

DoQos(c) ==
    \/ c.op = "weight" /\ qos_port_set_weights(c.port, c.weights)
    \/ c.op = "pir"    /\ qos_port_set_pir(c.port, c.bps)
    \/ c.op = "mode"   /\ qos_port_set_mode(c.port, c.mode, c.spq % ByteMod)
    \/ c.op = "dscp"   /\ qos_dscp_set(c.dscp, c.queue)

QosBootInit ==
    /\ qos_boot = 0 /\ qos_boot' = 1
    /\ qos_init

QosBootCall ==
    /\ qos_boot \in DOMAIN QosBootCalls /\ qos_boot' = qos_boot + 1
    /\ DoQos(QosBootCalls[qos_boot])

(* cmd_qos: port, DSCP value, queue and mode are checked, the others not.  *)
QosCommand(c) ==
    /\ qos_boot = Len(QosBootCalls) + 1
    /\ DoQos(c)
    /\ UNCHANGED qos_boot

QosNext == QosBootInit \/ QosBootCall \/ \E c \in QosCalls : QosCommand(c)

QosSpec == QosInit /\ [][QosNext]_qos_vars

-----------------------------------------------------------------------------
(* Properties.                                                             *)

Low(p)  == port_qos[p].pir_bps % WordMod
High(p) == port_qos[p].pir_bps \div WordMod

(* The upper words of rates that are written over a register.              *)
Over(r) == {High(p) : p \in {q \in QosPorts : QOS_REG_PIR(q) + 1 = r}}

(* A register never holds anything older than the present configuration:   *)
(* each rate and mode word is what its own port asks for, or the upper     *)
(* word of the rate that is written over it; where none is, its own.       *)
WordsAreCurrent ==
    \A p \in QosPorts :
        LET rate == QOS_REG_PIR(p)
            mode == QOS_REG_SCHED_MODE(p)
        IN  /\ qos_csr.dwrr[p] = port_qos[p].dwrr_weight
            /\ qos_csr.word[rate] \in {Low(p)} \cup Over(rate)
            /\ qos_csr.word[mode] \in {port_qos[p].sched_mode} \cup Over(mode)

(* From qos_init on, the queue the scheduler's register gives a DSCP value *)
(* and the one the stage-5 rule gives it are the same, that of the map,    *)
(* unless the HAL lost the rule's command.                                 *)
DscpAgrees ==
    qos_boot > 0 =>
        \A d \in Dscps :
            /\ qos_csr.dscp[d] = dscp_map[d]
            /\ d \notin stage5.lost => stage5.at[d] = qos_csr.dscp[d]
=============================================================================
