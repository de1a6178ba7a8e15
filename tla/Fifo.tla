------------------------------- MODULE Fifo -------------------------------
(***************************************************************************)
(* What the two ends of a punt ring may rely on: a bounded queue.  Packets *)
(* arrive once each, whole, and in the order they were sent, and a packet  *)
(* in the queue is received at some time.                                  *)
(***************************************************************************)
EXTENDS Naturals, Sequences

CONSTANTS
    Packet,   \* the packets
    Size,     \* the most packets in the queue
    Nothing   \* no packet received yet

VARIABLES
    queue,    \* the packets sent and not received
    out       \* the last packet received

vars == <<queue, out>>

TypeOK ==
    /\ queue \in Seq(Packet) /\ Len(queue) <= Size
    /\ out \in Packet \cup {Nothing}

Init == queue = <<>> /\ out = Nothing

Send(p) ==
    /\ Len(queue) < Size
    /\ queue' = Append(queue, p)
    /\ UNCHANGED out

Receive ==
    /\ queue # <<>>
    /\ queue' = Tail(queue)
    /\ out' = Head(queue)

Next == (\E p \in Packet : Send(p)) \/ Receive

Spec == Init /\ [][Next]_vars /\ WF_vars(Receive)
=============================================================================
