------------------------------ MODULE RxProof ------------------------------
(***************************************************************************)
(* Why the parser measures whole frames, for any number of ports, size of  *)
(* cells and length of frames.                                             *)
(***************************************************************************)
EXTENDS Rx, WellFoundedInduction, TLAPS

(* The parser is in the middle of a frame: the arbiter's grant holds until *)
(* the frame's last cell.                                                  *)
Looking == ps \in {"PS_LATCH", "PS_TCAM_WAIT", "PS_PROCESS"}
InFrame == ps \in {"PS_PAYLOAD", "PS_DROP"} \/ (Looking /\ ~buf.cell.eof)

(* What a port offers follows what it gave: a frame starts with sof, and   *)
(* ends within its bound; the bytes given are no more than the cells hold. *)
OffersFit ==
    /\ \A p \in Ports : offer[p] # NoCell =>
          /\ offer[p].sof = (frame[p].cells = 0)
          /\ frame[p].cells = MaxCells - 1 => offer[p].eof
    /\ \A p \in Ports : frame[p].cells > 0 => frame[p].bytes <= frame[p].cells * CellBytes

(* The arbiter's grant and the parser agree: while the parser is in a      *)
(* frame the grant is that frame's port's, and a grant given otherwise is  *)
(* for a frame of which no cell has been taken.                            *)
GrantFits ==
    /\ InFrame => /\ grant.granted /\ grant.port = buf.port
                  /\ frame[buf.port].cells > 0
    /\ ~InFrame /\ grant.granted => frame[grant.port].cells = 0

(* What the parser has counted is what the port gave.                      *)
CountFits ==
    /\ Looking => /\ buf.cell \in Cell /\ frame[buf.port].bytes = buf.cell.len
                  /\ buf.cell.eof => frame[buf.port].cells = 0
    /\ ps = "PS_PAYLOAD" => buf.pkt_len = frame[buf.port].bytes

IInv == TypeOK /\ OffersFit /\ GrantFits /\ CountFits /\ WholeFrames

-----------------------------------------------------------------------------
(* The scan of the ports from rr_ptr ends at one that starts a frame.      *)
LEMMA NextPortStarts ==
    ASSUME TypeOK, Starting # {}
    PROVE  next_port \in Starting
<1> DEFINE D(p)  == (p - grant.rr_ptr) % PortCount
           S     == {D(p) : p \in Starting}
           Less  == {q \in Nat \X Nat : q[1] < q[2]}
<1>1. PortCount \in Nat \ {0} /\ grant.rr_ptr \in Int /\ Starting \subseteq Int
    BY RxAssumption DEF TypeOK, Ports, Starting
<1>2. \A p \in Starting : D(p) \in Nat
    BY <1>1
<1>3. S \in SUBSET Nat /\ S # {}
    BY <1>2
<1>4. IsWellFoundedOn(Less, Nat)
    BY NatLessThanWellFounded DEF OpToRel
<1>5. PICK x \in S : \A y \in S : ~ (<<y, x>> \in Less)
  <2> HIDE DEF S, Less
  <2> QED
    BY <1>3, <1>4, WFMin, Zenon
<1>6. \A y \in S : x <= y
  <2> SUFFICES ASSUME NEW y \in S PROVE x <= y
    OBVIOUS
  <2>1. x \in Nat /\ y \in Nat /\ ~ (y < x)
    BY <1>3, <1>5
  <2> QED
    BY <2>1
<1>7. PICK p \in Starting : x = D(p)
    OBVIOUS
<1>8. \A q \in Starting : D(p) <= D(q)
    BY <1>6, <1>7
<1> QED
    BY <1>8 DEF next_port

(* A cell fits in a cell, and the last in the bound of a frame.            *)
LEMMA CellFacts ==
    /\ \A c \in Cell : c.sof \in BOOLEAN /\ c.eof \in BOOLEAN /\ c.len \in 0 .. CellBytes
    /\ CellBytes \in Nat /\ MaxCells \in Nat \ {0} /\ MaxCells * CellBytes \in Nat
    /\ CellBytes <= MaxCells * CellBytes
<1>1. CellBytes \in Nat /\ MaxCells \in Nat \ {0}
    BY RxAssumption
<1>2. \A c \in Cell : c.sof \in BOOLEAN /\ c.eof \in BOOLEAN /\ c.len \in 0 .. CellBytes
  <2>1. EopLens \subseteq 0 .. CellBytes /\ CellBytes \in 0 .. CellBytes
    BY <1>1, RxAssumption
  <2>2. ASSUME NEW c \in [sof : BOOLEAN, eof : {TRUE}, len : EopLens]
        PROVE  c.sof \in BOOLEAN /\ c.eof \in BOOLEAN /\ c.len \in 0 .. CellBytes
    BY <2>1
  <2>3. ASSUME NEW c \in [sof : BOOLEAN, eof : {FALSE}, len : {CellBytes}]
        PROVE  c.sof \in BOOLEAN /\ c.eof \in BOOLEAN /\ c.len \in 0 .. CellBytes
    BY <2>1
  <2> QED
    BY <2>2, <2>3 DEF Cell
<1>3. MaxCells * CellBytes \in Nat /\ CellBytes <= MaxCells * CellBytes
    BY <1>1
<1> QED
    BY <1>1, <1>2, <1>3

LEMMA BytesFit ==
    ASSUME NEW k \in 0 .. MaxCells - 1, NEW b \in Nat, NEW l \in 0 .. CellBytes,
           b <= k * CellBytes
    PROVE  /\ b + l <= (k + 1) * CellBytes
           /\ b + l \in 0 .. MaxCells * CellBytes
<1>1. CellBytes \in Nat /\ MaxCells \in Nat \ {0} /\ k \in Nat /\ k + 1 <= MaxCells
    BY CellFacts
<1>2. (k + 1) * CellBytes = k * CellBytes + CellBytes
    BY <1>1
<1>3. (k + 1) * CellBytes <= MaxCells * CellBytes
  <2>1. MaxCells = (k + 1) + (MaxCells - (k + 1)) /\ MaxCells - (k + 1) \in Nat
    BY <1>1
  <2>2. MaxCells * CellBytes = (k + 1) * CellBytes + (MaxCells - (k + 1)) * CellBytes
    BY <1>1, <2>1
  <2>3. (MaxCells - (k + 1)) * CellBytes \in Nat /\ (k + 1) * CellBytes \in Nat
    BY <1>1, <2>1
  <2> QED
    BY <2>2, <2>3
<1>4. k * CellBytes \in Nat /\ (k + 1) * CellBytes \in Nat /\ MaxCells * CellBytes \in Nat
    BY <1>1
<1>5. b + l <= (k + 1) * CellBytes
    BY <1>1, <1>2, <1>4
<1> QED
    BY <1>1, <1>3, <1>4, <1>5

-----------------------------------------------------------------------------
(* A MAC puts its next cell up.                                            *)
LEMMA OfferKeeps ==
    ASSUME IInv, NEW p \in Ports, Offer(p)
    PROVE  IInv'
<1>1. PICK c \in Cell : /\ c.sof = (frame[p].cells = 0)
                        /\ frame[p].cells = MaxCells - 1 => c.eof
                        /\ offer' = [offer EXCEPT ![p] = c]
    BY DEF Offer
<1>2. UNCHANGED <<frame, grant, ps, buf>>
    BY DEF Offer
<1>3. TypeOK'
    BY <1>1, <1>2 DEF IInv, TypeOK
<1>4. OffersFit'
    BY <1>1, <1>2 DEF IInv, TypeOK, OffersFit
<1> QED
    BY <1>2, <1>3, <1>4 DEF IInv, GrantFits, CountFits, WholeFrames, InFrame, Looking

-----------------------------------------------------------------------------
(* What the arbiter hands over on an edge.                                 *)
LEMMA TakenFacts ==
    ASSUME IInv, taken
    PROVE  /\ grant.granted /\ grant.port \in Ports /\ out = offer[grant.port]
           /\ out \in Cell /\ out # NoCell
           /\ out.sof <=> frame[grant.port].cells = 0
           /\ out.sof \in BOOLEAN /\ out.eof \in BOOLEAN
           /\ frame[grant.port].cells = MaxCells - 1 => out.eof
           /\ ps \in {"PS_IDLE", "PS_PAYLOAD"}
<1>1. grant.granted /\ out = offer[grant.port] /\ out # NoCell
    BY DEF taken, out
<1>2. grant.port \in Ports /\ offer[grant.port] \in Cell \cup {NoCell}
    BY DEF IInv, TypeOK
<1>3. /\ out \in Cell /\ out.sof = (frame[grant.port].cells = 0)
      /\ frame[grant.port].cells = MaxCells - 1 => out.eof
    BY <1>1, <1>2 DEF IInv, OffersFit
<1>4. out.sof \in BOOLEAN /\ out.eof \in BOOLEAN
    BY <1>3, CellFacts
<1>5. out.sof <=> frame[grant.port].cells = 0
    BY <1>3, <1>4, Zenon
<1>6. ps \in {"PS_IDLE", "PS_PAYLOAD"}
    BY DEF taken, rx_ready
<1> QED
    BY <1>1, <1>2, <1>3, <1>4, <1>5, <1>6

(* The frame of the port that gives a cell: started, or continued.         *)
LEMMA FrameTaken ==
    ASSUME IInv, taken, HandOver
    PROVE  LET g == grant.port
           IN  /\ frame'[g].cells = IF out.eof THEN 0 ELSE frame[g].cells + 1
               /\ frame'[g].bytes = IF out.sof THEN out.len ELSE frame[g].bytes + out.len
               /\ frame'[g] \in [cells : 0 .. MaxCells - 1, bytes : 0 .. MaxCells * CellBytes]
               /\ frame'[g].cells > 0 => frame'[g].bytes <= frame'[g].cells * CellBytes
               /\ frame' = [frame EXCEPT ![g] = frame'[g]]
               /\ offer' = [offer EXCEPT ![g] = NoCell]
<1> DEFINE g == grant.port
           k == frame[g].cells
           b == frame[g].bytes
           l == out.len
<1>1. /\ g \in Ports /\ out \in Cell /\ (out.sof <=> k = 0) /\ (k = MaxCells - 1 => out.eof)
      /\ out.sof \in BOOLEAN /\ out.eof \in BOOLEAN
    BY TakenFacts
<1>2. /\ frame \in [Ports -> [cells : 0 .. MaxCells - 1, bytes : 0 .. MaxCells * CellBytes]]
      /\ k \in 0 .. MaxCells - 1 /\ b \in 0 .. MaxCells * CellBytes
    BY <1>1 DEF IInv, TypeOK
<1>3. /\ l \in 0 .. CellBytes /\ CellBytes \in Nat /\ MaxCells \in Nat \ {0}
      /\ MaxCells * CellBytes \in Nat /\ CellBytes <= MaxCells * CellBytes
    BY <1>1, CellFacts
<1>4. /\ frame' = [frame EXCEPT ![g] = [cells |-> IF out.eof THEN 0 ELSE k + 1,
                                        bytes |-> IF out.sof THEN l ELSE b + l]]
      /\ offer' = [offer EXCEPT ![g] = NoCell]
    BY DEF HandOver
<1>5. frame'[g] = [cells |-> IF out.eof THEN 0 ELSE k + 1,
                   bytes |-> IF out.sof THEN l ELSE b + l]
    BY <1>1, <1>2, <1>4
<1>6. k > 0 => b <= k * CellBytes
    BY <1>1 DEF IInv, OffersFit
<1> DEFINE c == IF out.eof THEN 0 ELSE k + 1
           n == IF out.sof THEN l ELSE b + l
<1>7. c \in 0 .. MaxCells - 1 /\ (c > 0 => c = k + 1)
  <2> HIDE DEF g, k, b, l
  <2> QED
    BY <1>1, <1>2, <1>3
<1>8. n \in 0 .. MaxCells * CellBytes /\ n <= (k + 1) * CellBytes
  <2> HIDE DEF g, k, b, l
  <2>1. CASE out.sof
    <3>1. k = 0 /\ (k + 1) * CellBytes = CellBytes
      BY <1>1, <1>3, <2>1
    <3> QED
      BY <1>3, <2>1, <3>1
  <2>2. CASE ~out.sof
    <3>1. k > 0 /\ b \in Nat /\ b <= k * CellBytes
      BY <1>1, <1>2, <1>3, <1>6, <2>2
    <3>2. b + l <= (k + 1) * CellBytes /\ b + l \in 0 .. MaxCells * CellBytes
      BY <1>2, <1>3, <3>1, BytesFit
    <3> QED
      BY <2>2, <3>2
  <2> QED
    BY <2>1, <2>2
<1>9. frame'[g] = [cells |-> c, bytes |-> n]
    BY <1>5
<1>10. frame' = [frame EXCEPT ![g] = frame'[g]]
    BY <1>4, <1>5
<1>11. /\ frame'[g].cells = c /\ frame'[g].bytes = n
       /\ frame'[g] \in [cells : 0 .. MaxCells - 1, bytes : 0 .. MaxCells * CellBytes]
  <2> HIDE DEF c, n, g
  <2> QED
    BY <1>7, <1>8, <1>9
<1>12. frame'[g].cells > 0 => frame'[g].bytes <= frame'[g].cells * CellBytes
  <2> HIDE DEF c, n, g, k
  <2> QED
    BY <1>7, <1>8, <1>11
<1> QED
    BY <1>4, <1>10, <1>11, <1>12

LEMMA HandOverKeeps ==
    ASSUME IInv, HandOver
    PROVE  /\ offer' \in [Ports -> Cell \cup {NoCell}]
           /\ frame' \in [Ports -> [cells : 0 .. MaxCells - 1, bytes : 0 .. MaxCells * CellBytes]]
           /\ OffersFit'
<1>1. CASE ~taken
    BY <1>1 DEF HandOver, IInv, TypeOK, OffersFit
<1>2. CASE taken
  <2> DEFINE g == grant.port
  <2>1. /\ frame'[g] \in [cells : 0 .. MaxCells - 1, bytes : 0 .. MaxCells * CellBytes]
        /\ frame'[g].cells > 0 => frame'[g].bytes <= frame'[g].cells * CellBytes
        /\ frame' = [frame EXCEPT ![g] = frame'[g]]
        /\ offer' = [offer EXCEPT ![g] = NoCell]
        /\ g \in Ports
    BY <1>2, FrameTaken, TakenFacts
  <2>2. /\ offer \in [Ports -> Cell \cup {NoCell}]
        /\ frame \in [Ports -> [cells : 0 .. MaxCells - 1, bytes : 0 .. MaxCells * CellBytes]]
    BY DEF IInv, TypeOK
  <2> HIDE DEF g
  <2>3. /\ offer' \in [Ports -> Cell \cup {NoCell}]
        /\ frame' \in [Ports -> [cells : 0 .. MaxCells - 1, bytes : 0 .. MaxCells * CellBytes]]
    BY <2>1, <2>2
  <2>4. ASSUME NEW p \in Ports, p # g
        PROVE  offer'[p] = offer[p] /\ frame'[p] = frame[p]
    BY <2>1, <2>2, <2>4
  <2>5. offer'[g] = NoCell
    BY <2>1, <2>2
  <2>6. OffersFit'
    BY <2>1, <2>4, <2>5 DEF IInv, OffersFit
  <2> QED
    BY <2>3, <2>6
<1> QED
    BY <1>1, <1>2

(* The arbiter's register: a grant ends with the frame, a new one is for a *)
(* port that starts one.                                                   *)
LEMMA ArbitrateFacts ==
    ASSUME IInv, Arbitrate
    PROVE  /\ grant' \in [granted : BOOLEAN, port : Ports, rr_ptr : Ports]
           /\ grant.granted => grant'.port = grant.port
                               /\ grant'.granted = ~(taken /\ out.eof)
           /\ ~grant.granted /\ grant'.granted => frame[grant'.port].cells = 0
<1>1. grant \in [granted : BOOLEAN, port : Ports, rr_ptr : Ports]
    BY DEF IInv, TypeOK
<1>2. CASE grant.granted
  <2>1. grant' = [granted |-> ~(taken /\ out.eof), port |-> grant.port,
                  rr_ptr |-> grant.rr_ptr]
    BY <1>1, <1>2 DEF Arbitrate
  <2> QED
    BY <1>1, <1>2, <2>1
<1>3. CASE ~grant.granted /\ Starting = {}
    BY <1>1, <1>3 DEF Arbitrate
<1>4. CASE ~grant.granted /\ Starting # {}
  <2>1. next_port \in Ports /\ offer[next_port] # NoCell /\ offer[next_port].sof
    BY <1>4, NextPortStarts DEF IInv, Starting
  <2>2. (next_port + 1) % PortCount \in Ports
    BY <2>1, RxAssumption DEF Ports
  <2>3. grant' = [granted |-> TRUE, port |-> next_port,
                  rr_ptr |-> (next_port + 1) % PortCount]
    BY <1>4 DEF Arbitrate, Granted
  <2>4. frame[next_port].cells = 0
    BY <2>1 DEF IInv, OffersFit
  <2> QED
    BY <1>4, <2>1, <2>2, <2>3, <2>4
<1> QED
    BY <1>2, <1>3, <1>4

(* On an edge that takes no cell a grant the parser relies on stays.       *)
LEMMA NothingTaken ==
    ASSUME IInv, Arbitrate, HandOver, ~taken
    PROVE  /\ frame' = frame
           /\ InFrame => grant'.granted /\ grant'.port = buf.port /\ frame[buf.port].cells > 0
           /\ ~InFrame /\ grant'.granted => frame[grant'.port].cells = 0
<1>1. frame' = frame
    BY DEF HandOver
<1> QED
    BY <1>1, ArbitrateFacts DEF IInv, GrantFits

-----------------------------------------------------------------------------
(* The parser's states.                                                    *)

ParserType ==
    /\ ps' \in States
    /\ buf' \in [cell : Cell \cup {NoCell}, port : Ports,
                 pkt_len : 0 .. MaxCells * CellBytes, headers : 0 .. MaxHeaders - 1]

ParserKept == ParserType /\ GrantFits' /\ CountFits' /\ WholeFrames'

LEMMA NoFrameFacts ==
    NoFrame \in [cell : Cell \cup {NoCell}, port : Ports,
                 pkt_len : 0 .. MaxCells * CellBytes, headers : 0 .. MaxHeaders - 1]
<1>1. 0 \in Ports /\ 0 \in 0 .. MaxHeaders - 1 /\ 0 \in 0 .. MaxCells * CellBytes
    BY RxAssumption, CellFacts DEF Ports
<1> QED
    BY <1>1 DEF NoFrame

LEMMA IdleKeeps ==
    ASSUME IInv, Arbitrate, HandOver, Idle
    PROVE  ParserKept
<1>1. ps = "PS_IDLE" /\ ~InFrame /\ TypeOK
    BY DEF Idle, IInv, InFrame, Looking
<1>2. CASE ~taken
  <2>1. ps' = ps /\ buf' = buf /\ frame' = frame
        /\ (grant'.granted => frame[grant'.port].cells = 0)
    BY <1>1, <1>2, NothingTaken DEF Idle
  <2> QED
    BY <1>1, <2>1 DEF ParserKept, ParserType, TypeOK, GrantFits, CountFits, WholeFrames,
                      InFrame, Looking
<1>3. CASE taken
  <2> DEFINE g == grant.port
  <2>1. g \in Ports /\ out \in Cell /\ grant.granted /\ (out.sof <=> frame[g].cells = 0)
    BY <1>3, TakenFacts
  <2>2. out.sof /\ frame[g].cells = 0
    BY <1>1, <2>1 DEF IInv, GrantFits
  <2>3. ps' = "PS_LATCH" /\ buf' = [cell |-> out, port |-> g, pkt_len |-> 0, headers |-> 0]
    BY <1>3, <2>2 DEF Idle
  <2>4. /\ frame'[g].cells = (IF out.eof THEN 0 ELSE frame[g].cells + 1)
        /\ frame'[g].bytes = out.len
    BY <1>3, <2>2, FrameTaken
  <2>5. grant'.port = g /\ grant'.granted = ~out.eof
    BY <1>3, <2>1, ArbitrateFacts
  <2>6. out.eof \in BOOLEAN /\ MaxCells * CellBytes \in Nat /\ MaxHeaders \in Nat \ {0}
    BY <2>1, CellFacts, RxAssumption
  <2> HIDE DEF g
  <2>7. ParserType
    BY <2>1, <2>3, <2>6 DEF ParserType, States
  <2>8. InFrame' = ~out.eof /\ Looking'
    BY <2>3, <2>6 DEF InFrame, Looking
  <2>9. GrantFits'
    <3>1. buf'.port = g /\ (out.eof => frame'[g].cells = 0) /\ (~out.eof => frame'[g].cells > 0)
      BY <2>2, <2>3, <2>4
    <3>2. (InFrame' <=> ~out.eof) /\ (grant'.granted <=> ~out.eof) /\ grant'.port = g
      BY <2>5, <2>6, <2>8
    <3> QED
      BY <3>1, <3>2 DEF GrantFits
  <2>10. CountFits' /\ WholeFrames'
    BY <2>1, <2>3, <2>4 DEF CountFits, WholeFrames
  <2> QED
    BY <2>7, <2>9, <2>10 DEF ParserKept
<1> QED
    BY <1>2, <1>3

LEMMA LookKeeps ==
    ASSUME IInv, Arbitrate, HandOver, Latch \/ TcamWait \/ Process
    PROVE  ParserKept
<1>1. /\ Looking /\ ~taken /\ TypeOK /\ ps \notin {"PS_PAYLOAD", "PS_DROP"}
    BY DEF Latch, TcamWait, Process, IInv, Looking, taken, rx_ready
<1>2. /\ frame' = frame
      /\ InFrame => grant'.granted /\ grant'.port = buf.port /\ frame[buf.port].cells > 0
      /\ ~InFrame /\ grant'.granted => frame[grant'.port].cells = 0
      /\ InFrame <=> ~buf.cell.eof
    BY <1>1, NothingTaken DEF InFrame
<1>3. /\ buf.cell \in Cell /\ frame[buf.port].bytes = buf.cell.len
      /\ buf.cell.eof => frame[buf.port].cells = 0
    BY <1>1 DEF IInv, CountFits
<1>4. /\ buf \in [cell : Cell \cup {NoCell}, port : Ports,
                  pkt_len : 0 .. MaxCells * CellBytes, headers : 0 .. MaxHeaders - 1]
      /\ buf.cell.len \in 0 .. MaxCells * CellBytes
  <2>1. buf.cell.len \in 0 .. CellBytes /\ CellBytes \in Nat /\ MaxCells * CellBytes \in Nat
        /\ CellBytes <= MaxCells * CellBytes
    BY <1>3, CellFacts
  <2> QED
    BY <1>1, <2>1 DEF TypeOK
<1>5. CASE Latch \/ TcamWait
  <2>1. ps' \in {"PS_TCAM_WAIT", "PS_PROCESS"} /\ buf' = buf
    BY <1>5 DEF Latch, TcamWait
  <2> QED
    BY <1>2, <1>3, <1>4, <2>1
    DEF ParserKept, ParserType, States, GrantFits, CountFits, WholeFrames, InFrame, Looking
<1>6. CASE Accept
  <2>1. /\ buf'.cell = buf.cell /\ buf'.port = buf.port /\ buf'.pkt_len = buf.cell.len
        /\ buf' \in [cell : Cell \cup {NoCell}, port : Ports,
                     pkt_len : 0 .. MaxCells * CellBytes, headers : 0 .. MaxHeaders - 1]
        /\ ps' = IF buf.cell.eof THEN "PS_EMIT" ELSE "PS_PAYLOAD"
    BY <1>4, <1>6 DEF Accept
  <2> QED
    BY <1>2, <1>3, <2>1
    DEF ParserKept, ParserType, States, GrantFits, CountFits, WholeFrames, InFrame, Looking
<1>7. CASE NextHeader
  <2>1. /\ buf'.cell = buf.cell /\ buf'.port = buf.port /\ ps' = "PS_LATCH"
        /\ buf' \in [cell : Cell \cup {NoCell}, port : Ports,
                     pkt_len : 0 .. MaxCells * CellBytes, headers : 0 .. MaxHeaders - 1]
    <3>1. buf.headers \in 0 .. MaxHeaders - 1 /\ buf.headers < MaxHeaders - 1
          /\ MaxHeaders \in Nat
        BY <1>4, <1>7, RxAssumption DEF NextHeader
    <3>2. buf.headers + 1 \in 0 .. MaxHeaders - 1
        BY <3>1
    <3>3. buf' = [buf EXCEPT !.headers = buf.headers + 1] /\ ps' = "PS_LATCH"
        BY <1>7 DEF NextHeader
    <3> QED
        BY <1>4, <3>2, <3>3
  <2> QED
    BY <1>2, <1>3, <2>1
    DEF ParserKept, ParserType, States, GrantFits, CountFits, WholeFrames, InFrame, Looking
<1>8. CASE Miss
  <2>1. /\ ps' = IF buf.cell.eof THEN "PS_IDLE" ELSE "PS_DROP"
        /\ buf' = IF buf.cell.eof THEN NoFrame ELSE buf
    BY <1>8 DEF Miss
  <2> QED
    BY <1>2, <1>3, <1>4, <2>1, NoFrameFacts
    DEF ParserKept, ParserType, States, GrantFits, CountFits, WholeFrames, InFrame, Looking
<1> QED
    BY <1>5, <1>6, <1>7, <1>8 DEF Process

LEMMA PayloadKeeps ==
    ASSUME IInv, Arbitrate, HandOver, Payload
    PROVE  ParserKept
<1>1. ps = "PS_PAYLOAD" /\ InFrame /\ TypeOK /\ ~Looking
    BY DEF Payload, IInv, InFrame, Looking
<1>2. /\ grant.granted /\ grant.port = buf.port /\ frame[buf.port].cells > 0
      /\ buf.pkt_len = frame[buf.port].bytes /\ buf.port \in Ports
    BY <1>1 DEF IInv, GrantFits, CountFits, TypeOK
<1>3. CASE ~taken
  <2>1. ps' = ps /\ buf' = buf /\ frame' = frame
        /\ grant'.granted /\ grant'.port = buf.port
    BY <1>1, <1>3, NothingTaken DEF Payload
  <2> QED
    BY <1>1, <1>2, <2>1 DEF ParserKept, ParserType, TypeOK, GrantFits, CountFits, WholeFrames,
                            InFrame, Looking
<1>4. CASE taken
  <2> DEFINE g == buf.port
  <2>1. out \in Cell /\ (out.sof <=> frame[g].cells = 0)
    BY <1>2, <1>4, TakenFacts
  <2>2. /\ frame'[g].cells = (IF out.eof THEN 0 ELSE frame[g].cells + 1)
        /\ frame'[g].bytes = (IF out.sof THEN out.len ELSE frame[g].bytes + out.len)
        /\ frame'[g] \in [cells : 0 .. MaxCells - 1, bytes : 0 .. MaxCells * CellBytes]
    BY <1>2, <1>4, FrameTaken
  <2>3. frame[g].cells \in Nat /\ out.eof \in BOOLEAN /\ ~out.sof
  <3>1. frame[g].cells \in 0 .. MaxCells - 1
    BY <1>1, <1>2 DEF TypeOK
  <3>2. out.eof \in BOOLEAN
    BY <2>1, CellFacts
  <3> QED
    BY <1>2, <2>1, <3>1, <3>2
  <2>4. /\ buf' = [buf EXCEPT !.pkt_len = buf.pkt_len + out.len]
        /\ ps' = IF out.eof THEN "PS_EMIT" ELSE "PS_PAYLOAD"
    BY <1>1, <1>4 DEF Payload
  <2>5. buf.pkt_len + out.len = frame'[g].bytes
        /\ buf.pkt_len + out.len \in 0 .. MaxCells * CellBytes
    BY <1>2, <2>2, <2>3
  <2>6. /\ buf' \in [cell : Cell \cup {NoCell}, port : Ports,
                     pkt_len : 0 .. MaxCells * CellBytes, headers : 0 .. MaxHeaders - 1]
        /\ buf'.port = g /\ buf'.pkt_len = frame'[g].bytes
    BY <1>1, <2>4, <2>5 DEF TypeOK
  <2>7. grant'.port = g /\ grant'.granted = ~out.eof
    BY <1>2, <1>4, ArbitrateFacts
  <2>8. InFrame' = ~out.eof /\ ~Looking'
    BY <2>3, <2>4 DEF InFrame, Looking
  <2>9. ~out.eof => frame'[g].cells > 0
    BY <2>2, <2>3
  <2> HIDE DEF g
  <2>10. GrantFits'
    BY <2>2, <2>3, <2>6, <2>7, <2>8, <2>9 DEF GrantFits
  <2>11. CountFits' /\ WholeFrames'
    BY <2>2, <2>4, <2>6, <2>8 DEF CountFits, WholeFrames
  <2>12. ParserType
    BY <2>4, <2>6 DEF ParserType, States
  <2> QED
    BY <2>10, <2>11, <2>12 DEF ParserKept
<1> QED
    BY <1>3, <1>4

LEMMA EmitKeeps ==
    ASSUME IInv, Arbitrate, HandOver, Emit \/ EmitWait \/ Drop
    PROVE  ParserKept
<1>1. ~taken /\ ~Looking /\ TypeOK /\ ps \in {"PS_EMIT", "PS_DROP"}
    BY DEF Emit, EmitWait, Drop, IInv, Looking, taken, rx_ready
<1>2. /\ frame' = frame
      /\ InFrame => grant'.granted /\ grant'.port = buf.port /\ frame[buf.port].cells > 0
      /\ ~InFrame /\ grant'.granted => frame[grant'.port].cells = 0
      /\ InFrame <=> ps = "PS_DROP"
    BY <1>1, NothingTaken DEF InFrame
<1>3. CASE Emit
  <2>1. ps = "PS_EMIT" /\ ps' = "PS_IDLE" /\ buf' = NoFrame
    BY <1>3 DEF Emit
  <2> QED
    BY <1>2, <2>1, NoFrameFacts
    DEF ParserKept, ParserType, States, GrantFits, CountFits, WholeFrames, InFrame, Looking
<1>4. CASE EmitWait \/ Drop
  <2>1. ps' = ps /\ buf' = buf
    BY <1>1, <1>4 DEF EmitWait, Drop
  <2> QED
    BY <1>1, <1>2, <2>1
    DEF IInv, TypeOK, ParserKept, ParserType, GrantFits, CountFits, WholeFrames, InFrame, Looking
<1> QED
    BY <1>3, <1>4

-----------------------------------------------------------------------------
LEMMA EdgeKeeps ==
    ASSUME IInv, Edge
    PROVE  IInv'
<1>1. Arbitrate /\ HandOver /\ Parse
    BY DEF Edge
<1>2. ParserKept
    BY <1>1, IdleKeeps, LookKeeps, PayloadKeeps, EmitKeeps DEF Parse
<1> QED
    BY <1>1, <1>2, HandOverKeeps, ArbitrateFacts DEF IInv, TypeOK, ParserKept, ParserType

LEMMA InitInvariant == Init => IInv
<1> SUFFICES ASSUME Init PROVE IInv
    OBVIOUS
<1>1. 0 \in Ports /\ 0 \in 0 .. MaxCells - 1 /\ 0 \in 0 .. MaxCells * CellBytes
    BY RxAssumption, CellFacts DEF Ports
<1>2. TypeOK
    BY <1>1, NoFrameFacts DEF Init, TypeOK, States
<1>3. OffersFit /\ GrantFits /\ CountFits /\ WholeFrames
    BY DEF Init, OffersFit, GrantFits, CountFits, WholeFrames, InFrame, Looking
<1> QED
    BY <1>2, <1>3 DEF IInv

LEMMA StepInvariant == IInv /\ [Next]_vars => IInv'
<1> SUFFICES ASSUME IInv, [Next]_vars PROVE IInv'
    OBVIOUS
<1>1. ASSUME NEW p \in Ports, Offer(p) PROVE IInv'
    BY <1>1, OfferKeeps
<1>2. CASE Edge
    BY <1>2, EdgeKeeps
<1>3. CASE UNCHANGED vars
    BY <1>3 DEF vars, IInv, TypeOK, OffersFit, GrantFits, CountFits, WholeFrames, InFrame, Looking
<1> QED
    BY <1>1, <1>2, <1>3 DEF Next

(* The inductive invariant holds in every reachable state.                 *)
THEOREM InductiveInvariant == Spec => []IInv
    BY InitInvariant, StepInvariant, PTL DEF Spec

(* The arbiter's pointer wraps over any number of ports, and the parser's  *)
(* length never exceeds what a frame's cells hold.                         *)
THEOREM TypeCorrect == Spec => []TypeOK
<1>1. IInv => TypeOK
    BY DEF IInv
<1> QED
    BY <1>1, InductiveInvariant, PTL

(* A header vector leaves with the length of one whole frame of one port,  *)
(* whatever the ports send and however the edges fall.                     *)
THEOREM FramesWhole == Spec => []WholeFrames
<1>1. IInv => WholeFrames
    BY DEF IInv
<1> QED
    BY <1>1, InductiveInvariant, PTL
=============================================================================
