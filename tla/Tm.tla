--------------------------------- MODULE Tm ---------------------------------
(***************************************************************************)
(* The traffic manager (rtl/tm/traffic_manager.sv) and the read port of    *)
(* the packet buffer it uses (rtl/pkt_buffer/pkt_buffer.sv): a queue and a *)
(* transmitter for each egress port, and one read at a time for all.       *)
(*                                                                         *)
(* One step is one clk_dp edge.  A header vector offered with its drop     *)
(* flag set, or while its queue is full, changes nothing.  A frame is the  *)
(* egress port of its header vector and its number of cells, and a cell is *)
(* a frame and a position in it; the buffer is taken to hold every frame   *)
(* whole.  The response to a read comes an edge later, and reaches every   *)
(* port that sends, whichever of them asked.                               *)
(***************************************************************************)
EXTENDS Integers, Sequences, FiniteSetsExt

CONSTANTS
    PortCount,  \* 32
    Q_DEPTH,    \* 8
    MaxLen,     \* bound: cells of a frame
    NoFrame,    \* no header vector, or a queue entry never written
    NoCell      \* no read, or tx_cell before the first

Ports == 0 .. PortCount - 1
Frame == [port : Ports, len : 1 .. MaxLen]
Cell  == [frame : Frame, pos : 1 .. MaxLen]

ASSUME TmAssumption ==
    /\ PortCount \in Nat \ {0} /\ Q_DEPTH \in Nat \ {0} /\ MaxLen \in Nat \ {0}
    /\ NoFrame \notin Frame /\ NoCell \notin Cell

VARIABLES
    q_mem,      \* of each port, the ring of frames
    q_head, q_tail, q_cnt,
    tx_state, tx_cell,
    rsp,        \* the cell of the response, NoCell where it is not valid
    pending,    \* history: the frames accepted for each port and not taken
    overrun     \* history: the ports of which a pending frame was overwritten

queues == <<q_mem, q_head, q_tail, q_cnt, pending, overrun>>
vars   == <<queues, tx_state, tx_cell, rsp>>

TypeOK ==
    /\ q_mem \in [Ports -> [0 .. Q_DEPTH - 1 -> Frame \cup {NoFrame}]]
    /\ q_head \in [Ports -> 0 .. Q_DEPTH - 1]
    /\ q_tail \in [Ports -> 0 .. Q_DEPTH - 1]
    /\ q_cnt \in [Ports -> 0 .. Q_DEPTH]
    /\ tx_state \in [Ports -> {"TX_IDLE", "TX_READ", "TX_SEND", "TX_FREE"}]
    /\ tx_cell \in [Ports -> Cell \cup {NoCell}]
    /\ rsp \in Cell \cup {NoCell}
    /\ pending \in [Ports -> Seq(Frame)]
    /\ overrun \subseteq Ports

-----------------------------------------------------------------------------
eof(cell)  == cell.pos = cell.frame.len
next(cell) == [cell EXCEPT !.pos = @ + 1]

(* The queues.                                                             *)

Taking == {p \in Ports : tx_state[p] = "TX_IDLE" /\ q_cnt[p] > 0}

(* Mutant: one entry too many.                                             *)
MutReady(frame) == q_cnt[frame.port] <= Q_DEPTH

phv_in_ready(frame) == q_cnt[frame.port] < Q_DEPTH

(* Mutant: a new entry goes to the place after the counted ones.           *)
MutQMem(frame) ==
    q_mem' = IF frame = NoFrame THEN q_mem
             ELSE [q_mem EXCEPT ![frame.port]
                                 [(q_head[frame.port] + q_cnt[frame.port]) % Q_DEPTH] = frame]

QMem(frame) ==
    q_mem' = IF frame = NoFrame THEN q_mem
             ELSE [q_mem EXCEPT ![frame.port][q_tail[frame.port]] = frame]

(* Two assignments to q_cnt on one edge: that of the transmitter stands.   *)
QPointers(frame) ==
    /\ q_tail' = IF frame = NoFrame THEN q_tail
                 ELSE [q_tail EXCEPT ![frame.port] = (@ + 1) % Q_DEPTH]
    /\ q_head' = [p \in Ports |-> IF p \in Taking THEN (q_head[p] + 1) % Q_DEPTH
                                                  ELSE q_head[p]]
    /\ q_cnt' = [p \in Ports |->
                    IF p \in Taking THEN q_cnt[p] - 1
                    ELSE IF frame # NoFrame /\ frame.port = p THEN q_cnt[p] + 1
                    ELSE q_cnt[p]]

(* What the queues should hold, for the properties; of a port once overrun *)
(* no account is kept.                                                     *)
Account(frame) ==
    /\ overrun' = overrun \cup {p \in Ports \ Taking : /\ frame # NoFrame /\ frame.port = p
                                                       /\ Len(pending[p]) = Q_DEPTH}
    /\ pending' = [p \in Ports |->
                    LET left == IF p \in Taking THEN Tail(pending[p]) ELSE pending[p]
                    IN  CASE p \in overrun' -> <<>>
                          [] p \notin overrun' /\ frame # NoFrame /\ frame.port = p ->
                                Append(left, frame)
                          [] OTHER -> left]

-----------------------------------------------------------------------------
(* The transmitters.                                                       *)

Reading == {p \in Ports : tx_state[p] \in {"TX_READ", "TX_SEND"}}

(* Mutant: the last port that asks is served.                              *)
MutRequest == IF Reading = {} THEN NoCell ELSE tx_cell[Max(Reading)]

(* Of the ports that ask, the first is served.                             *)
Request == IF Reading = {} THEN NoCell ELSE tx_cell[Min(Reading)]

(* Port p sends, where the MAC is ready for it, what the response holds.   *)
Sent(p, tx_ready) == tx_state[p] = "TX_SEND" /\ p \in tx_ready /\ rsp # NoCell

Transmit(tx_ready) ==
    /\ tx_state' = [p \in Ports |->
            CASE p \in Taking -> "TX_READ"
              [] tx_state[p] = "TX_READ" -> "TX_SEND"
              [] Sent(p, tx_ready) /\ eof(rsp) -> "TX_FREE"
              [] tx_state[p] = "TX_FREE" -> "TX_IDLE"
              [] OTHER -> tx_state[p]]
    /\ tx_cell' = [p \in Ports |->
            CASE p \in Taking -> [frame |-> q_mem[p][q_head[p]], pos |-> 1]
              [] Sent(p, tx_ready) /\ ~eof(rsp) -> next(rsp)
              [] OTHER -> tx_cell[p]]
    /\ rsp' = Request

Edge(frame, tx_ready) ==
    /\ frame # NoFrame => phv_in_ready(frame)
    /\ QMem(frame) /\ QPointers(frame) /\ Account(frame)
    /\ Transmit(tx_ready)

Init ==
    /\ q_mem = [p \in Ports |-> [i \in 0 .. Q_DEPTH - 1 |-> NoFrame]]
    /\ q_head = [p \in Ports |-> 0]
    /\ q_tail = [p \in Ports |-> 0]
    /\ q_cnt = [p \in Ports |-> 0]
    /\ tx_state = [p \in Ports |-> "TX_IDLE"]
    /\ tx_cell = [p \in Ports |-> NoCell]
    /\ rsp = NoCell
    /\ pending = [p \in Ports |-> <<>>]
    /\ overrun = {}

Next == \E frame \in Frame \cup {NoFrame}, tx_ready \in SUBSET Ports : Edge(frame, tx_ready)

Spec == Init /\ [][Next]_vars

-----------------------------------------------------------------------------
(* Properties.                                                             *)

(* A queue's count falls behind its frames when one comes as another goes, *)
(* never ahead of them; and until a frame is overwritten for that, the     *)
(* frames are in the ring, in their order, from the head on.               *)
QueueHoldsPending ==
    \A p \in Ports \ overrun :
        /\ q_cnt[p] <= Len(pending[p])
        /\ \A k \in 1 .. Len(pending[p]) :
              q_mem[p][(q_head[p] + k - 1) % Q_DEPTH] = pending[p][k]

(* A port sends cells of its own frames or of those for lower ports, which *)
(* the ports share the response with, never of those for higher ports: on  *)
(* the first port only its own frames leave.                               *)
LeaksUpwardOnly ==
    \A p \in Ports :
        /\ tx_cell[p] # NoCell => tx_cell[p].frame.port <= p
        /\ tx_state[p] = "TX_SEND" /\ rsp # NoCell => rsp.frame.port <= p
=============================================================================
