------------------------------ MODULE PuntRing ------------------------------
(***************************************************************************)
(* One punt ring between the data plane and the firmware                   *)
(* (sw/hal/rv_p4_hal.c): free-running producer and consumer registers and  *)
(* a ring of slots, with no lock and no interrupt.                         *)
(*                                                                         *)
(* Each end takes its call apart into single register and memory accesses. *)
(* The producer's are those of hal_punt_tx_send, the consumer's those of   *)
(* hal_punt_rx_poll.  In the code the firmware is the producer of the TX   *)
(* ring and the consumer of the RX ring; the hardware at the other end,    *)
(* which is not in the repository, is taken to mirror the firmware.        *)
(*                                                                         *)
(* A packet is the sequence of its data words; the slot's descriptor holds *)
(* its length.                                                             *)
(***************************************************************************)
EXTENDS Integers, Sequences

CONSTANTS
    Word,       \* the values of a data word
    MaxWords,   \* the data words of a slot: 64
    Slots,      \* PUNT_RING_SLOTS
    PtrMod,     \* the registers count modulo this: 2^32
    Nothing     \* no packet received yet

ASSUME RingAssumption ==
    /\ MaxWords \in Nat \ {0}
    /\ Slots \in Nat \ {0}
    /\ PtrMod \in Nat /\ PtrMod >= 2 * Slots /\ PtrMod % Slots = 0

Packet == UNION {[1 .. n -> Word] : n \in 1 .. MaxWords}
Ptr    == 0 .. PtrMod - 1
Index  == 0 .. Slots - 1

ASSUME NothingAssumption == Nothing \notin Packet

VARIABLES
    prod, cons,   \* the ring's two registers
    len, data,    \* each slot's descriptor and data words
    (* the producer: hal_punt_tx_send *)
    ppc,          \* its next access
    pkt,          \* the packet it sends
    myProd,       \* the value of prod it read
    pw,           \* the data words it has written
    (* the consumer: hal_punt_rx_poll *)
    cpc,          \* its next access
    seenProd, myCons,   \* the registers as it read them
    want,         \* the length it read
    buf,          \* the data words it has copied
    out           \* the last packet it returned

ring     == <<prod, cons, len, data>>
producer == <<ppc, pkt, myProd, pw>>
consumer == <<cpc, seenProd, myCons, want, buf, out>>
vars     == <<ring, producer, consumer>>

TypeOK ==
    /\ prod \in Ptr /\ cons \in Ptr
    /\ len \in [Index -> 0 .. MaxWords]
    /\ data \in [Index -> [1 .. MaxWords -> Word]]
    /\ ppc \in {"idle", "prod", "cons", "desc", "words", "publish"}
    /\ pkt \in Packet \cup {Nothing}
    /\ myProd \in Ptr /\ pw \in 0 .. MaxWords
    /\ cpc \in {"prod", "cons", "desc", "words", "publish"}
    /\ seenProd \in Ptr /\ myCons \in Ptr
    /\ want \in 0 .. MaxWords
    /\ buf \in Packet \cup {<<>>}
    /\ out \in Packet \cup {Nothing}

Used == (prod - cons) % PtrMod

-----------------------------------------------------------------------------
(* hal_punt_tx_send.                                                       *)

Send(p) ==
    /\ ppc = "idle" /\ ppc' = "prod"
    /\ pkt' = p
    /\ UNCHANGED <<ring, myProd, pw, consumer>>

ReadProd ==
    /\ ppc = "prod" /\ ppc' = "cons"
    /\ myProd' = prod
    /\ UNCHANGED <<ring, pkt, pw, consumer>>

(* Mutant: a slot is kept free.                                            *)
MutCheckFullEarly ==
    /\ ppc = "cons"
    /\ \/ (myProd - cons) % PtrMod >= Slots - 1 /\ ppc' = "idle" /\ pkt' = Nothing
       \/ (myProd - cons) % PtrMod < Slots - 1 /\ ppc' = "desc" /\ UNCHANGED pkt
    /\ UNCHANGED <<ring, myProd, pw, consumer>>

(* The call returns HAL_ERR_FULL when no slot is free.                     *)
CheckFull ==
    /\ ppc = "cons"
    /\ \/ (myProd - cons) % PtrMod >= Slots /\ ppc' = "idle" /\ pkt' = Nothing
       \/ (myProd - cons) % PtrMod < Slots /\ ppc' = "desc" /\ UNCHANGED pkt
    /\ UNCHANGED <<ring, myProd, pw, consumer>>

WriteDesc ==
    /\ ppc = "desc" /\ ppc' = "words" /\ pw' = 0
    /\ len' = [len EXCEPT ![myProd % Slots] = Len(pkt)]
    /\ UNCHANGED <<prod, cons, data, pkt, myProd, consumer>>

WriteWord ==
    /\ ppc = "words"
    /\ pw' = pw + 1
    /\ data' = [data EXCEPT ![myProd % Slots][pw'] = pkt[pw']]
    /\ ppc' = IF pw' < Len(pkt) THEN "words" ELSE "publish"
    /\ UNCHANGED <<prod, cons, len, pkt, myProd, consumer>>

(* Mutant: the register is not kept to its width.                          *)
MutPublishNoWrap ==
    /\ ppc = "publish" /\ ppc' = "idle"
    /\ prod' = myProd + 1
    /\ pkt' = Nothing
    /\ UNCHANGED <<cons, len, data, myProd, pw, consumer>>

Publish ==
    /\ ppc = "publish" /\ ppc' = "idle"
    /\ prod' = (myProd + 1) % PtrMod
    /\ pkt' = Nothing
    /\ UNCHANGED <<cons, len, data, myProd, pw, consumer>>

-----------------------------------------------------------------------------
(* hal_punt_rx_poll, which main calls again and again.                     *)

PollProd ==
    /\ cpc = "prod" /\ cpc' = "cons"
    /\ seenProd' = prod
    /\ UNCHANGED <<ring, producer, myCons, want, buf, out>>

CheckEmpty ==
    /\ cpc = "cons"
    /\ cpc' = IF seenProd = cons THEN "prod" ELSE "desc"
    /\ myCons' = cons
    /\ UNCHANGED <<ring, producer, seenProd, want, buf, out>>

(* Mutant: the slot is released as soon as the descriptor is read.         *)
MutReadDescReleases ==
    /\ cpc = "desc" /\ cpc' = "words"
    /\ want' = len[myCons % Slots]
    /\ buf' = <<>>
    /\ cons' = (myCons + 1) % PtrMod
    /\ UNCHANGED <<prod, len, data, producer, seenProd, myCons, out>>

ReadDesc ==
    /\ cpc = "desc" /\ cpc' = "words"
    /\ want' = len[myCons % Slots]
    /\ buf' = <<>>
    /\ UNCHANGED <<ring, producer, seenProd, myCons, out>>

ReadWord ==
    /\ cpc = "words"
    /\ buf' = Append(buf, data[myCons % Slots][Len(buf) + 1])
    /\ cpc' = IF Len(buf') < want THEN "words" ELSE "publish"
    /\ UNCHANGED <<ring, producer, seenProd, myCons, want, out>>

Advance ==
    /\ cpc = "publish" /\ cpc' = "prod"
    /\ cons' = (myCons + 1) % PtrMod
    /\ out' = buf
    /\ UNCHANGED <<prod, len, data, producer, seenProd, myCons, want, buf>>

-----------------------------------------------------------------------------

(* The slots' memory is not cleared.                                       *)
Init ==
    /\ prod = 0 /\ cons = 0
    /\ len = [i \in Index |-> 0]
    /\ data \in [Index -> [1 .. MaxWords -> Word]]
    /\ ppc = "idle" /\ pkt = Nothing /\ myProd = 0 /\ pw = 0
    /\ cpc = "prod" /\ seenProd = 0 /\ myCons = 0 /\ want = 0 /\ buf = <<>>
    /\ out = Nothing

Produce == ReadProd \/ CheckFull \/ WriteDesc \/ WriteWord \/ Publish
Consume == PollProd \/ CheckEmpty \/ ReadDesc \/ ReadWord \/ Advance

Next == (\E p \in Packet : Send(p)) \/ Produce \/ Consume

Spec == Init /\ [][Next]_vars

(* The consumer polls for ever: main's loop drains the RX ring, and the    *)
(* hardware the TX ring.                                                   *)
FairSpec == Spec /\ WF_vars(Consume)

-----------------------------------------------------------------------------
(* Properties.                                                             *)

SlotAt(i)    == ((cons + i - 1) % PtrMod) % Slots
PacketIn(s)  == [j \in 1 .. len[s] |-> data[s][j]]

Queue == INSTANCE Fifo WITH
            queue <- [i \in 1 .. Used |-> PacketIn(SlotAt(i))],
            Size  <- Slots

(* The ring is a bounded queue: although the two ends read each other's    *)
(* register at different moments and both registers wrap, no packet is     *)
(* lost, doubled, torn or overwritten before it is read, and every packet  *)
(* published is received.                                                  *)
Implements == Queue!Spec

(* A send is refused only when every slot holds a packet.                  *)
RefusedOnlyWhenFull == [][ppc = "cons" /\ ppc' = "idle" => Used = Slots]_vars
=============================================================================
