--------------------------------- MODULE Rx ---------------------------------
(***************************************************************************)
(* The receive path: the arbiter that merges the ports' cell streams       *)
(* (rtl/common/mac_rx_arb.sv) and the parser (rtl/parser/p4_parser.sv).    *)
(*                                                                         *)
(* One step is one edge of both, on one clock; between edges the MACs put  *)
(* their next cells up.  What the parser's TCAM says of a header is        *)
(* chosen, and so is when the pipeline takes a header vector.  The cells   *)
(* of the packet buffer, for which the parser never waits, are left out.   *)
(***************************************************************************)
EXTENDS Integers, FiniteSetsExt

CONSTANTS
    PortCount,  \* 32
    CellBytes,  \* 64
    EopLens,    \* bytes in the last cell of a frame
    MaxCells,   \* bound: cells of a frame
    MaxHeaders, \* bound: headers of a frame, lookups before ACCEPT or a miss
    NoCell      \* valid is low

Ports == 0 .. PortCount - 1
Cell  == [sof : BOOLEAN, eof : {TRUE}, len : EopLens]
             \cup [sof : BOOLEAN, eof : {FALSE}, len : {CellBytes}]

NoFrame == [cell |-> NoCell, port |-> 0, pkt_len |-> 0, headers |-> 0]

ASSUME RxAssumption ==
    /\ PortCount \in Nat \ {0} /\ CellBytes \in Nat
    /\ EopLens \subseteq 1 .. CellBytes
    /\ MaxCells \in Nat \ {0} /\ MaxHeaders \in Nat \ {0}
    /\ NoCell \notin Cell

(* pkt_len is 14 bits wide: frames are short enough for it.                *)
ASSUME LengthAssumption == MaxCells * CellBytes < 2^14

VARIABLES
    offer,      \* the cell each port holds valid
    frame,      \* history, per port: cells taken of the frame under way, and
                \* bytes taken of the latest one
    grant,      \* the arbiter: granted, to port, and rr_ptr
    ps,         \* the parser's state
    buf         \* the latched cell, cell_port, pkt_len, headers seen

vars == <<offer, frame, grant, ps, buf>>

States == {"PS_IDLE", "PS_LATCH", "PS_TCAM_WAIT", "PS_PROCESS", "PS_PAYLOAD",
           "PS_EMIT", "PS_DROP"}

TypeOK ==
    /\ offer \in [Ports -> Cell \cup {NoCell}]
    /\ frame \in [Ports -> [cells : 0 .. MaxCells - 1, bytes : 0 .. MaxCells * CellBytes]]
    /\ grant \in [granted : BOOLEAN, port : Ports, rr_ptr : Ports]
    /\ ps \in States
    /\ buf \in [cell : Cell \cup {NoCell}, port : Ports,
                pkt_len : 0 .. MaxCells * CellBytes, headers : 0 .. MaxHeaders - 1]

-----------------------------------------------------------------------------
(* The MACs: a cell once valid stays until it is taken.                    *)

Offer(p) ==
    /\ offer[p] = NoCell
    /\ \E c \in Cell :
          /\ c.sof = (frame[p].cells = 0)
          /\ frame[p].cells = MaxCells - 1 => c.eof
          /\ offer' = [offer EXCEPT ![p] = c]
    /\ UNCHANGED <<frame, grant, ps, buf>>

-----------------------------------------------------------------------------
(* The arbiter.                                                            *)

out      == IF grant.granted THEN offer[grant.port] ELSE NoCell
rx_ready == ps \in {"PS_IDLE", "PS_PAYLOAD"}
taken    == out # NoCell /\ rx_ready

Starting == {p \in Ports : offer[p] # NoCell /\ offer[p].sof}

(* Mutant: the scan starts at port 0 whatever the pointer.                 *)
MutNextPort == Min(Starting)

(* The first port from rr_ptr that has a frame to start.                   *)
next_port ==
    CHOOSE p \in Starting : \A q \in Starting :
        (p - grant.rr_ptr) % PortCount <= (q - grant.rr_ptr) % PortCount

(* Mutant: the pointer does not wrap.                                     *)
MutGranted == [granted |-> TRUE, port |-> next_port, rr_ptr |-> next_port + 1]

Granted ==
    [granted |-> TRUE, port |-> next_port, rr_ptr |-> (next_port + 1) % PortCount]

(* Mutant: as top/mac_rx_arb.sv, the grant is for one cell.                *)
MutArbitrate ==
    grant' = IF ~grant.granted
             THEN IF Starting = {} THEN grant ELSE Granted
             ELSE [grant EXCEPT !.granted = ~taken]

(* The grant lasts until the frame's last cell is taken.                   *)
Arbitrate ==
    grant' = IF ~grant.granted
             THEN IF Starting = {} THEN grant ELSE Granted
             ELSE [grant EXCEPT !.granted = ~(taken /\ out.eof)]

(* What the port gave, for the properties.                                 *)
HandOver ==
    /\ offer' = IF taken THEN [offer EXCEPT ![grant.port] = NoCell] ELSE offer
    /\ frame' = IF ~taken THEN frame
                ELSE [frame EXCEPT ![grant.port] =
                        [cells |-> IF out.eof THEN 0 ELSE @.cells + 1,
                         bytes |-> IF out.sof THEN out.len ELSE @.bytes + out.len]]

-----------------------------------------------------------------------------
(* The parser.  Between frames its registers are not read: NoFrame.        *)

Idle ==
    /\ ps = "PS_IDLE"
    /\ IF taken /\ out.sof
       THEN /\ ps' = "PS_LATCH"
            /\ buf' = [cell |-> out, port |-> grant.port, pkt_len |-> 0, headers |-> 0]
       ELSE UNCHANGED <<ps, buf>>

Latch == ps = "PS_LATCH" /\ ps' = "PS_TCAM_WAIT" /\ UNCHANGED buf

TcamWait == ps = "PS_TCAM_WAIT" /\ ps' = "PS_PROCESS" /\ UNCHANGED buf

Accept ==
    /\ buf' = [buf EXCEPT !.pkt_len = buf.cell.len]
    /\ ps' = IF buf.cell.eof THEN "PS_EMIT" ELSE "PS_PAYLOAD"

NextHeader ==
    /\ buf.headers < MaxHeaders - 1
    /\ buf' = [buf EXCEPT !.headers = @ + 1]
    /\ ps' = "PS_LATCH"

Miss ==
    /\ ps' = IF buf.cell.eof THEN "PS_IDLE" ELSE "PS_DROP"
    /\ buf' = IF buf.cell.eof THEN NoFrame ELSE buf

Process == ps = "PS_PROCESS" /\ (Accept \/ NextHeader \/ Miss)

Payload ==
    /\ ps = "PS_PAYLOAD"
    /\ IF taken
       THEN /\ buf' = [buf EXCEPT !.pkt_len = @ + out.len]
            /\ ps' = IF out.eof THEN "PS_EMIT" ELSE ps
       ELSE UNCHANGED <<ps, buf>>

(* phv_out.ready is high.                                                  *)
Emit == ps = "PS_EMIT" /\ ps' = "PS_IDLE" /\ buf' = NoFrame

EmitWait == ps = "PS_EMIT" /\ UNCHANGED <<ps, buf>>

(* The parser waits for the frame's last cell, with rx.ready low.          *)
Drop ==
    /\ ps = "PS_DROP"
    /\ IF taken /\ out.eof THEN ps' = "PS_IDLE" /\ buf' = NoFrame
                           ELSE UNCHANGED <<ps, buf>>

Parse == Idle \/ Latch \/ TcamWait \/ Process \/ Payload \/ Emit \/ EmitWait \/ Drop

-----------------------------------------------------------------------------
Edge == Arbitrate /\ HandOver /\ Parse

Init ==
    /\ offer = [p \in Ports |-> NoCell]
    /\ frame = [p \in Ports |-> [cells |-> 0, bytes |-> 0]]
    /\ grant = [granted |-> FALSE, port |-> 0, rr_ptr |-> 0]
    /\ ps = "PS_IDLE" /\ buf = NoFrame

Next == (\E p \in Ports : Offer(p)) \/ Edge

(* The clock runs, a MAC sends the rest of a frame it has started, and the *)
(* pipeline takes a header vector that is held for it.                     *)
Fairness ==
    /\ WF_vars(Edge)
    /\ WF_vars(Edge /\ Emit)
    /\ \A p \in Ports : WF_vars(Offer(p) /\ frame[p].cells > 0)

Spec == Init /\ [][Next]_vars /\ Fairness

-----------------------------------------------------------------------------
(* Properties.                                                             *)

(* A header vector leaves with the length of one whole frame of one port:  *)
(* the cells of the ports are not mixed, though the ports send as they     *)
(* like and the parser counts the cells that come, whoever sent them.      *)
WholeFrames ==
    ps = "PS_EMIT" => /\ frame[buf.port].cells = 0
                      /\ buf.pkt_len = frame[buf.port].bytes

(* A frame that a port has started to offer is taken, whatever the other   *)
(* ports send, and a frame taken is done with: unless the parser drops one *)
(* of several cells, which it does for ever.                               *)
StuckOnlyInDrop ==
    /\ \A p \in Ports : p \in Starting ~> p \notin Starting \/ ps = "PS_DROP"
    /\ ps # "PS_IDLE" ~> ps \in {"PS_IDLE", "PS_DROP"}

(* A frame that is dropped ends (architecture.md: on a miss the frame is   *)
(* dropped).  The code breaks this.                                        *)
DropEnds == ps = "PS_DROP" ~> ps = "PS_IDLE"
=============================================================================
