------------------------------ MODULE TmProof ------------------------------
(***************************************************************************)
(* What Tm's invariants rest on, for any number of ports, depth of queue   *)
(* and length of frame.                                                    *)
(***************************************************************************)
EXTENDS Tm, WellFoundedInduction, TLAPS

(* The ring mem holds the sequence held from place h on.                   *)
RingHolds(mem, h, held) ==
    \A k \in 1 .. Len(held) : mem[(h + k - 1) % Q_DEPTH] = held[k]

(* The ring once the frame has been written at the tail.                   *)
Put(mem, tail, frame) == [mem EXCEPT ![tail] = frame]

(* While no frame of a queue has been overwritten, the tail is as far from *)
(* the head as the frames pending are many, whatever the count says.       *)
RingInOrder ==
    \A p \in Ports \ overrun :
        /\ Len(pending[p]) <= Q_DEPTH
        /\ q_tail[p] = (q_head[p] + Len(pending[p])) % Q_DEPTH
        /\ q_cnt[p] <= Len(pending[p])
        /\ RingHolds(q_mem[p], q_head[p], pending[p])

(* Only written entries are counted: the ring is full of them, or it has   *)
(* not wrapped and the counted entries lie below the tail.                 *)
CountedAreWritten ==
    \A p \in Ports :
        \/ \A i \in 0 .. Q_DEPTH - 1 : q_mem[p][i] # NoFrame
        \/ /\ \A i \in 0 .. Q_DEPTH - 1 : i < q_tail[p] => q_mem[p][i] # NoFrame
           /\ q_head[p] + q_cnt[p] <= q_tail[p]

(* A queue holds frames of its own port.                                   *)
OwnFrames ==
    \A p \in Ports, i \in 0 .. Q_DEPTH - 1 :
        q_mem[p][i] # NoFrame => q_mem[p][i].port = p

(* A port that is not idle has a cell to ask for, and no cell lies beyond  *)
(* its frame's last.                                                       *)
CellsInFrames ==
    /\ \A p \in Ports : tx_state[p] # "TX_IDLE" => tx_cell[p] # NoCell
    /\ \A p \in Ports : tx_cell[p] # NoCell => tx_cell[p].pos <= tx_cell[p].frame.len
    /\ rsp # NoCell => rsp.pos <= rsp.frame.len

QueueInv == RingInOrder /\ CountedAreWritten /\ OwnFrames
SendInv  == CellsInFrames /\ LeaksUpwardOnly
IInv     == TypeOK /\ QueueInv /\ SendInv

-----------------------------------------------------------------------------
(* A nonempty set of natural numbers has a least one, which Min returns:   *)
(* the first port that asks is one that asks.                              *)
LEMMA MinOfNaturals ==
    ASSUME NEW S \in SUBSET Nat, S # {}
    PROVE  Min(S) \in S /\ \A y \in S : Min(S) =< y
<1> DEFINE Less == {p \in Nat \X Nat : p[1] < p[2]}
<1>1. IsWellFoundedOn(Less, Nat)
    BY NatLessThanWellFounded DEF OpToRel
<1>2. PICK x \in S : \A y \in S : ~ (<<y, x>> \in Less)
    BY <1>1, WFMin, Zenon
<1>3. \A y \in S : x =< y
  <2> SUFFICES ASSUME NEW y \in S PROVE x =< y
    OBVIOUS
  <2>1. ~ (y < x)
    BY <1>2
  <2> QED
    BY <2>1
<1> HIDE DEF Less
<1> QED
    BY <1>3 DEF Min

(* Within one round of the ring the remainder subtracts its size once.     *)
LEMMA Wrap ==
    ASSUME NEW h \in 0 .. Q_DEPTH - 1, NEW k \in 0 .. Q_DEPTH
    PROVE  /\ (h + k) % Q_DEPTH = IF h + k < Q_DEPTH THEN h + k ELSE h + k - Q_DEPTH
           /\ (h + k) % Q_DEPTH \in 0 .. Q_DEPTH - 1
<1>1. Q_DEPTH \in Nat \ {0}
    BY TmAssumption
<1>2. CASE h + k < Q_DEPTH
    BY <1>1, <1>2
<1>3. CASE h + k >= Q_DEPTH
    BY <1>1, <1>3
<1> QED
    BY <1>1, <1>2, <1>3

LEMMA WrapBefore ==
    ASSUME NEW h \in 0 .. Q_DEPTH - 1, NEW k \in 1 .. Q_DEPTH
    PROVE  /\ (h + k - 1) % Q_DEPTH
              = IF h + k - 1 < Q_DEPTH THEN h + k - 1 ELSE h + k - 1 - Q_DEPTH
           /\ (h + k - 1) % Q_DEPTH \in 0 .. Q_DEPTH - 1
<1>1. Q_DEPTH \in Nat \ {0}
    BY TmAssumption
<1>2. CASE h + k - 1 < Q_DEPTH
    BY <1>1, <1>2
<1>3. CASE h + k - 1 >= Q_DEPTH
    BY <1>1, <1>3
<1> QED
    BY <1>1, <1>2, <1>3

(* Taking the first of the sequence moves the head by one place.           *)
LEMMA TakeFromRing ==
    ASSUME NEW mem, NEW h \in 0 .. Q_DEPTH - 1, NEW held \in Seq(Frame),
           held # <<>>, Len(held) <= Q_DEPTH, RingHolds(mem, h, held)
    PROVE  LET first == (h + 1) % Q_DEPTH
           IN  /\ RingHolds(mem, first, Tail(held))
               /\ (first + Len(Tail(held))) % Q_DEPTH = (h + Len(held)) % Q_DEPTH
<1> DEFINE first == (h + 1) % Q_DEPTH
<1>1. Q_DEPTH \in Nat \ {0} /\ Len(held) \in 1 .. Q_DEPTH
    BY TmAssumption
<1>2. /\ first = IF h + 1 < Q_DEPTH THEN h + 1 ELSE h + 1 - Q_DEPTH
      /\ first \in 0 .. Q_DEPTH - 1
    BY <1>1, Wrap
<1>3. /\ Tail(held) \in Seq(Frame) /\ Len(Tail(held)) = Len(held) - 1
      /\ \A k \in 1 .. Len(held) - 1 : Tail(held)[k] = held[k + 1]
    OBVIOUS
<1> HIDE DEF first
<1>4. ASSUME NEW k \in 1 .. Len(held)
      PROVE  (first + k - 1) % Q_DEPTH = (h + k) % Q_DEPTH
  <2>1. k \in 1 .. Q_DEPTH /\ k \in 0 .. Q_DEPTH
    BY <1>1
  <2>2. (h + k) % Q_DEPTH = IF h + k < Q_DEPTH THEN h + k ELSE h + k - Q_DEPTH
    BY <2>1, Wrap
  <2>3. (first + k - 1) % Q_DEPTH
        = IF first + k - 1 < Q_DEPTH THEN first + k - 1 ELSE first + k - 1 - Q_DEPTH
    BY <1>2, <2>1, WrapBefore
  <2>4. CASE h + 1 < Q_DEPTH
    BY <1>1, <1>2, <2>2, <2>3, <2>4
  <2>5. CASE h + 1 = Q_DEPTH
    BY <1>1, <1>2, <2>2, <2>3, <2>5
  <2> QED
    BY <1>1, <2>4, <2>5
<1>5. RingHolds(mem, first, Tail(held))
  <2> SUFFICES ASSUME NEW k \in 1 .. Len(held) - 1
               PROVE  mem[(first + k - 1) % Q_DEPTH] = held[k + 1]
    BY <1>3 DEF RingHolds
  <2>1. (first + k - 1) % Q_DEPTH = (h + k) % Q_DEPTH
    BY <1>1, <1>4
  <2>2. k + 1 \in 1 .. Len(held) /\ h + (k + 1) - 1 = h + k
    BY <1>1
  <2>3. mem[(h + (k + 1) - 1) % Q_DEPTH] = held[k + 1]
    BY <2>2 DEF RingHolds
  <2> QED
    BY <2>1, <2>2, <2>3
<1>6. (first + Len(held) - 1) % Q_DEPTH = (h + Len(held)) % Q_DEPTH
    BY <1>1, <1>4
<1>7. first + Len(Tail(held)) = first + Len(held) - 1
    BY <1>1, <1>2, <1>3
<1> QED
    BY <1>5, <1>6, <1>7 DEF first

(* Writing at the tail appends, while the ring is not full.                *)
LEMMA PutInRing ==
    ASSUME NEW mem \in [0 .. Q_DEPTH - 1 -> Frame \cup {NoFrame}],
           NEW h \in 0 .. Q_DEPTH - 1, NEW held \in Seq(Frame), NEW frame \in Frame,
           Len(held) < Q_DEPTH, RingHolds(mem, h, held),
           NEW tail, tail = (h + Len(held)) % Q_DEPTH
    PROVE  /\ RingHolds(Put(mem, tail, frame), h, Append(held, frame))
           /\ (tail + 1) % Q_DEPTH = (h + Len(Append(held, frame))) % Q_DEPTH
<1> DEFINE n   == Len(held)
           now == Put(mem, tail, frame)
<1>1. Q_DEPTH \in Nat \ {0} /\ n \in 0 .. Q_DEPTH - 1
    BY TmAssumption
<1>2. /\ Append(held, frame) \in Seq(Frame) /\ Len(Append(held, frame)) = n + 1
      /\ \A k \in 1 .. n : Append(held, frame)[k] = held[k]
      /\ Append(held, frame)[n + 1] = frame
    OBVIOUS
<1>3. tail = (h + n) % Q_DEPTH
    OBVIOUS
<1> HIDE DEF n
<1>4. n \in 0 .. Q_DEPTH
    BY <1>1
<1>5. /\ tail = IF h + n < Q_DEPTH THEN h + n ELSE h + n - Q_DEPTH
      /\ tail \in 0 .. Q_DEPTH - 1
    BY <1>4, Wrap, <1>3
<1>6. \A k \in 1 .. n : /\ (h + k - 1) % Q_DEPTH # tail
                        /\ (h + k - 1) % Q_DEPTH \in 0 .. Q_DEPTH - 1
  <2> SUFFICES ASSUME NEW k \in 1 .. n
               PROVE  /\ (h + k - 1) % Q_DEPTH # tail
                      /\ (h + k - 1) % Q_DEPTH \in 0 .. Q_DEPTH - 1
    OBVIOUS
  <2>1. k \in 1 .. Q_DEPTH
    BY <1>1
  <2>2. /\ (h + k - 1) % Q_DEPTH
           = IF h + k - 1 < Q_DEPTH THEN h + k - 1 ELSE h + k - 1 - Q_DEPTH
        /\ (h + k - 1) % Q_DEPTH \in 0 .. Q_DEPTH - 1
    BY <2>1, WrapBefore
  <2> DEFINE x == (h + k - 1) % Q_DEPTH
  <2>3. x = (IF h + k - 1 < Q_DEPTH THEN h + k - 1 ELSE h + k - 1 - Q_DEPTH)
        /\ x \in 0 .. Q_DEPTH - 1
    BY <2>2
  <2> HIDE DEF x
  <2>4. x # tail
    BY <1>1, <1>5, <2>3
  <2> QED
    BY <2>3, <2>4 DEF x
<1>7. (tail + 1) % Q_DEPTH = (h + (n + 1)) % Q_DEPTH
  <2> DEFINE m == n + 1
  <2>1. m \in 0 .. Q_DEPTH /\ m = n + 1 /\ 1 \in 0 .. Q_DEPTH
    BY <1>1
  <2> HIDE DEF m
  <2>2. (h + m) % Q_DEPTH = IF h + m < Q_DEPTH THEN h + m ELSE h + m - Q_DEPTH
    BY <2>1, Wrap
  <2>3. (tail + 1) % Q_DEPTH = IF tail + 1 < Q_DEPTH THEN tail + 1 ELSE tail + 1 - Q_DEPTH
    BY <1>5, <2>1, Wrap
  <2> DEFINE x == (h + m) % Q_DEPTH
             y == (tail + 1) % Q_DEPTH
  <2>4. /\ x = IF h + m < Q_DEPTH THEN h + m ELSE h + m - Q_DEPTH
        /\ y = IF tail + 1 < Q_DEPTH THEN tail + 1 ELSE tail + 1 - Q_DEPTH
    BY <2>2, <2>3
  <2> HIDE DEF x, y
  <2>5. x = y
    BY <1>1, <1>5, <2>1, <2>4
  <2> QED
    BY <2>1, <2>5 DEF x, y
<1>8. /\ now[tail] = frame
      /\ \A i \in 0 .. Q_DEPTH - 1 : i # tail => now[i] = mem[i]
    BY <1>5 DEF Put
<1> HIDE DEF now
<1>9. RingHolds(now, h, Append(held, frame))
  <2> SUFFICES ASSUME NEW k \in 1 .. n + 1
               PROVE  now[(h + k - 1) % Q_DEPTH] = Append(held, frame)[k]
    BY <1>2 DEF RingHolds, n
  <2>1. CASE k = n + 1
    <3>1. h + k - 1 = h + n
        BY <1>1, <2>1
    <3> QED
        BY <1>3, <1>2, <1>8, <2>1, <3>1
  <2>2. CASE k # n + 1
    <3>1. k \in 1 .. n
        BY <1>1, <2>2
    <3>2. mem[(h + k - 1) % Q_DEPTH] = held[k]
        BY <3>1 DEF RingHolds, n
    <3> QED
        BY <1>2, <1>6, <1>8, <3>1, <3>2
  <2> QED
    BY <2>1, <2>2
<1>10. h + Len(Append(held, frame)) = h + (n + 1)
    BY <1>1, <1>2
<1> QED
    BY <1>7, <1>9, <1>10 DEF n, now

-----------------------------------------------------------------------------
(* A header vector for port p is put in its queue on this edge.            *)
Putting(frame, p) == frame # NoFrame /\ frame.port = p

(* The queue of one port over an edge.                                     *)
LEMMA QueueChange ==
    ASSUME TypeOK, NEW frame \in Frame \cup {NoFrame}, NEW p \in Ports,
           frame # NoFrame => phv_in_ready(frame), QMem(frame), QPointers(frame)
    PROVE  /\ q_mem'[p] = IF Putting(frame, p)
                          THEN [q_mem[p] EXCEPT ![q_tail[p]] = frame] ELSE q_mem[p]
           /\ q_tail'[p] = IF Putting(frame, p) THEN (q_tail[p] + 1) % Q_DEPTH ELSE q_tail[p]
           /\ q_head'[p] = IF p \in Taking THEN (q_head[p] + 1) % Q_DEPTH ELSE q_head[p]
           /\ q_cnt'[p] = IF p \in Taking THEN q_cnt[p] - 1
                          ELSE IF Putting(frame, p) THEN q_cnt[p] + 1 ELSE q_cnt[p]
           /\ Putting(frame, p) => frame \in Frame /\ q_cnt[p] < Q_DEPTH
           /\ p \in Taking => q_cnt[p] > 0
<1>1. CASE frame = NoFrame
    BY <1>1 DEF QMem, QPointers, Putting, Taking, TypeOK
<1>2. CASE frame # NoFrame
  <2>1. frame \in Frame /\ frame.port \in Ports
    BY <1>2 DEF Frame
  <2> QED
    BY <1>2, <2>1 DEF QMem, QPointers, Putting, Taking, TypeOK, phv_in_ready
<1> QED
    BY <1>1, <1>2

LEMMA QueueTypes ==
    ASSUME TypeOK, NEW frame \in Frame \cup {NoFrame},
           frame # NoFrame => phv_in_ready(frame), QMem(frame), QPointers(frame)
    PROVE  /\ q_mem' \in [Ports -> [0 .. Q_DEPTH - 1 -> Frame \cup {NoFrame}]]
           /\ q_head' \in [Ports -> 0 .. Q_DEPTH - 1]
           /\ q_tail' \in [Ports -> 0 .. Q_DEPTH - 1]
           /\ q_cnt' \in [Ports -> 0 .. Q_DEPTH]
<1>1. Q_DEPTH \in Nat \ {0} /\ 1 \in 0 .. Q_DEPTH
    BY TmAssumption
<1>2. \A n \in 0 .. Q_DEPTH - 1 : (n + 1) % Q_DEPTH \in 0 .. Q_DEPTH - 1
    BY <1>1, Wrap
<1>3. frame # NoFrame => frame \in Frame /\ frame.port \in Ports
    BY DEF Frame
<1>4. q_mem' \in [Ports -> [0 .. Q_DEPTH - 1 -> Frame \cup {NoFrame}]]
    BY <1>3 DEF QMem, TypeOK
<1>5. q_tail' \in [Ports -> 0 .. Q_DEPTH - 1]
  <2>1. CASE frame = NoFrame
    BY <2>1 DEF QPointers, TypeOK
  <2>2. CASE frame # NoFrame
    <3>1. q_tail' = [q_tail EXCEPT ![frame.port] = (q_tail[frame.port] + 1) % Q_DEPTH]
        BY <2>2 DEF QPointers
    <3> QED
        BY <1>2, <1>3, <2>2, <3>1 DEF TypeOK
  <2> QED
    BY <2>1, <2>2
<1>6. q_head' \in [Ports -> 0 .. Q_DEPTH - 1]
  <2>1. \A p \in Ports : q_head[p] \in 0 .. Q_DEPTH - 1
    BY DEF TypeOK
  <2>2. \A p \in Ports : (q_head[p] + 1) % Q_DEPTH \in 0 .. Q_DEPTH - 1
    BY <1>2, <2>1
  <2> QED
    BY <2>1, <2>2 DEF QPointers
<1>7. q_cnt' \in [Ports -> 0 .. Q_DEPTH]
  <2> SUFFICES ASSUME NEW p \in Ports PROVE q_cnt'[p] \in 0 .. Q_DEPTH
    BY DEF QPointers
  <2>1. q_cnt[p] \in 0 .. Q_DEPTH
    BY DEF TypeOK
  <2>2. /\ q_cnt'[p] = IF p \in Taking THEN q_cnt[p] - 1
                        ELSE IF Putting(frame, p) THEN q_cnt[p] + 1 ELSE q_cnt[p]
        /\ Putting(frame, p) => q_cnt[p] < Q_DEPTH
        /\ p \in Taking => q_cnt[p] > 0
    BY QueueChange
  <2> QED
    BY <1>1, <2>1, <2>2
<1> QED
    BY <1>4, <1>5, <1>6, <1>7

(* The frames pending of one port over an edge.                            *)
LEMMA PendingChange ==
    ASSUME NEW frame \in Frame \cup {NoFrame}, NEW p \in Ports, Account(frame), p \notin overrun'
    PROVE  /\ p \notin overrun
           /\ Putting(frame, p) /\ p \notin Taking => Len(pending[p]) # Q_DEPTH
           /\ pending'[p] =
                 LET left == IF p \in Taking THEN Tail(pending[p]) ELSE pending[p]
                 IN  IF Putting(frame, p) THEN Append(left, frame) ELSE left
<1>1. /\ p \notin overrun
      /\ Putting(frame, p) /\ p \notin Taking => Len(pending[p]) # Q_DEPTH
    BY DEF Account, Putting
<1>2. CASE Putting(frame, p)
    BY <1>2 DEF Account, Putting
<1>3. CASE ~Putting(frame, p)
    BY <1>3 DEF Account, Putting
<1> QED
    BY <1>1, <1>2, <1>3

(* A queue of which no frame was overwritten keeps its frames in order.    *)
LEMMA RingStep ==
    ASSUME TypeOK, RingInOrder, NEW frame \in Frame \cup {NoFrame},
           frame # NoFrame => phv_in_ready(frame), QMem(frame), QPointers(frame), Account(frame)
    PROVE  RingInOrder' /\ \A p \in Ports \ overrun' : pending'[p] \in Seq(Frame)
<1> SUFFICES ASSUME NEW p \in Ports, p \notin overrun'
             PROVE  /\ Len(pending'[p]) <= Q_DEPTH
                    /\ q_tail'[p] = (q_head'[p] + Len(pending'[p])) % Q_DEPTH
                    /\ q_cnt'[p] <= Len(pending'[p])
                    /\ RingHolds(q_mem'[p], q_head'[p], pending'[p])
                    /\ pending'[p] \in Seq(Frame)
    BY DEF RingInOrder
<1> DEFINE mem  == q_mem[p]
           held == pending[p]
           left == IF p \in Taking THEN Tail(held) ELSE held
           head == q_head'[p]
           kept == IF p \in Taking THEN q_cnt[p] - 1 ELSE q_cnt[p]
<1>1. /\ p \notin overrun
      /\ Putting(frame, p) /\ p \notin Taking => Len(held) # Q_DEPTH
      /\ pending'[p] = IF Putting(frame, p) THEN Append(left, frame) ELSE left
    BY PendingChange
<1>2. /\ Len(held) <= Q_DEPTH /\ q_tail[p] = (q_head[p] + Len(held)) % Q_DEPTH
      /\ q_cnt[p] <= Len(held) /\ RingHolds(mem, q_head[p], held)
    BY <1>1 DEF RingInOrder
<1>3. /\ mem \in [0 .. Q_DEPTH - 1 -> Frame \cup {NoFrame}] /\ q_head[p] \in 0 .. Q_DEPTH - 1
      /\ q_cnt[p] \in 0 .. Q_DEPTH /\ held \in Seq(Frame) /\ head \in 0 .. Q_DEPTH - 1
      /\ Q_DEPTH \in Nat \ {0}
    BY QueueTypes, TmAssumption DEF TypeOK
<1>4. /\ q_mem'[p] = IF Putting(frame, p) THEN [mem EXCEPT ![q_tail[p]] = frame] ELSE mem
      /\ q_tail'[p] = IF Putting(frame, p) THEN (q_tail[p] + 1) % Q_DEPTH ELSE q_tail[p]
      /\ head = IF p \in Taking THEN (q_head[p] + 1) % Q_DEPTH ELSE q_head[p]
      /\ q_cnt'[p] = IF p \in Taking THEN q_cnt[p] - 1
                     ELSE IF Putting(frame, p) THEN q_cnt[p] + 1 ELSE q_cnt[p]
      /\ Putting(frame, p) => frame \in Frame
      /\ p \in Taking => q_cnt[p] > 0
    BY QueueChange
<1>5. /\ RingHolds(mem, head, left) /\ q_tail[p] = (head + Len(left)) % Q_DEPTH
      /\ left \in Seq(Frame) /\ Len(left) <= Q_DEPTH /\ kept <= Len(left)
      /\ Putting(frame, p) => Len(left) < Q_DEPTH
  <2>1. CASE p \in Taking
    <3>1. held # <<>> /\ Len(held) \in Nat
      <4>1. Len(held) \in Nat
        BY <1>3
      <4>2. q_cnt[p] > 0 /\ q_cnt[p] \in Int /\ q_cnt[p] <= Len(held)
        BY <1>2, <1>3, <1>4, <2>1
      <4>3. Len(held) # 0
        BY <4>1, <4>2
      <4> QED
        BY <4>1, <4>3
    <3>2. /\ RingHolds(mem, (q_head[p] + 1) % Q_DEPTH, Tail(held))
          /\ (((q_head[p] + 1) % Q_DEPTH) + Len(Tail(held))) % Q_DEPTH
             = (q_head[p] + Len(held)) % Q_DEPTH
        BY <1>2, <1>3, <3>1, TakeFromRing
    <3>3. Tail(held) \in Seq(Frame) /\ Len(Tail(held)) = Len(held) - 1
        BY <1>3, <3>1
    <3>4. left = Tail(held) /\ head = (q_head[p] + 1) % Q_DEPTH /\ kept = q_cnt[p] - 1
        BY <1>4, <2>1
    <3> HIDE DEF left, head, kept, held, mem
    <3>5. RingHolds(mem, head, left) /\ q_tail[p] = (head + Len(left)) % Q_DEPTH
        BY <1>2, <3>2, <3>4
    <3>6. left \in Seq(Frame) /\ Len(left) = Len(held) - 1
        BY <3>3, <3>4
    <3>7. Len(left) <= Q_DEPTH /\ kept <= Len(left) /\ Len(left) < Q_DEPTH
      <4>1. Len(held) <= Q_DEPTH /\ q_cnt[p] <= Len(held)
        BY <1>2
      <4>2. q_cnt[p] \in 0 .. Q_DEPTH /\ Q_DEPTH \in Nat
        BY <1>3
      <4> QED
        BY <3>1, <3>4, <3>6, <4>1, <4>2
    <3> QED
        BY <3>5, <3>6, <3>7
  <2>2. CASE p \notin Taking
    <3>1. left = held /\ head = q_head[p] /\ kept = q_cnt[p] /\ Len(held) \in Nat
        BY <1>3, <1>4, <2>2
    <3>2. Putting(frame, p) => Len(held) # Q_DEPTH
        BY <1>1, <2>2
    <3> HIDE DEF left, head, kept, held, mem
    <3>3. /\ RingHolds(mem, head, left) /\ q_tail[p] = (head + Len(left)) % Q_DEPTH
          /\ left \in Seq(Frame) /\ kept <= Len(left)
        BY <1>2, <1>3, <3>1
    <3>4. Len(left) <= Q_DEPTH /\ (Putting(frame, p) => Len(left) < Q_DEPTH)
        BY <1>2, <1>3, <3>1, <3>2
    <3> QED
        BY <3>3, <3>4
  <2> QED
    BY <2>1, <2>2
<1> HIDE DEF left, head, held, mem, kept
<1>6. CASE Putting(frame, p)
  <2>1. frame \in Frame /\ Len(left) < Q_DEPTH
    BY <1>4, <1>5, <1>6
  <2>2. q_mem'[p] = Put(mem, q_tail[p], frame)
    BY <1>4, <1>6 DEF Put
  <2>3. /\ RingHolds(q_mem'[p], head, Append(left, frame))
        /\ (q_tail[p] + 1) % Q_DEPTH = (head + Len(Append(left, frame))) % Q_DEPTH
    <3>1. /\ mem \in [0 .. Q_DEPTH - 1 -> Frame \cup {NoFrame}]
          /\ head \in 0 .. Q_DEPTH - 1 /\ left \in Seq(Frame)
          /\ RingHolds(mem, head, left) /\ q_tail[p] = (head + Len(left)) % Q_DEPTH
        BY <1>3, <1>5
    <3> QED
        BY <2>1, <2>2, <3>1, PutInRing
  <2>4. Append(left, frame) \in Seq(Frame) /\ Len(Append(left, frame)) = Len(left) + 1
        /\ Len(left) \in Nat
    BY <1>4, <1>5, <1>6
  <2>5. pending'[p] = Append(left, frame)
    BY <1>1, <1>6
  <2>6. /\ RingHolds(q_mem'[p], head, pending'[p])
        /\ q_tail'[p] = (head + Len(pending'[p])) % Q_DEPTH
    BY <1>4, <1>5, <1>6, <2>3, <2>5 DEF mem
  <2>7. Len(pending'[p]) <= Q_DEPTH
    BY <1>3, <1>5, <1>6, <2>4, <2>5
  <2>8. q_cnt'[p] <= Len(pending'[p])
    <3>1. q_cnt'[p] <= kept + 1 /\ kept \in Int /\ q_cnt'[p] \in Int
        BY <1>3, <1>4, <1>6 DEF kept
    <3>2. kept <= Len(left)
        BY <1>5
    <3> QED
        BY <1>3, <2>4, <2>5, <3>1, <3>2
  <2> QED
    BY <2>4, <2>5, <2>6, <2>7, <2>8 DEF head
<1>7. CASE ~Putting(frame, p)
    BY <1>1, <1>4, <1>5, <1>7 DEF head, mem, kept
<1> QED
    BY <1>6, <1>7

(* Only written entries are counted, and they are of the queue's port.     *)
LEMMA EntriesStep ==
    ASSUME TypeOK, CountedAreWritten, OwnFrames, NEW frame \in Frame \cup {NoFrame},
           frame # NoFrame => phv_in_ready(frame), QMem(frame), QPointers(frame)
    PROVE  CountedAreWritten' /\ OwnFrames'
<1> SUFFICES ASSUME NEW p \in Ports
             PROVE  /\ \/ \A i \in 0 .. Q_DEPTH - 1 : q_mem'[p][i] # NoFrame
                       \/ /\ \A i \in 0 .. Q_DEPTH - 1 : i < q_tail'[p] => q_mem'[p][i] # NoFrame
                          /\ q_head'[p] + q_cnt'[p] <= q_tail'[p]
                    /\ \A i \in 0 .. Q_DEPTH - 1 :
                          q_mem'[p][i] # NoFrame => q_mem'[p][i].port = p
    BY DEF CountedAreWritten, OwnFrames
<1>1. /\ q_mem[p] \in [0 .. Q_DEPTH - 1 -> Frame \cup {NoFrame}]
      /\ q_head[p] \in 0 .. Q_DEPTH - 1 /\ q_tail[p] \in 0 .. Q_DEPTH - 1
      /\ q_cnt[p] \in 0 .. Q_DEPTH /\ Q_DEPTH \in Nat \ {0} /\ 1 \in 0 .. Q_DEPTH
    BY TmAssumption DEF TypeOK
<1>2. /\ q_mem'[p] = IF Putting(frame, p)
                     THEN [q_mem[p] EXCEPT ![q_tail[p]] = frame] ELSE q_mem[p]
      /\ q_tail'[p] = IF Putting(frame, p) THEN (q_tail[p] + 1) % Q_DEPTH ELSE q_tail[p]
      /\ q_head'[p] = IF p \in Taking THEN (q_head[p] + 1) % Q_DEPTH ELSE q_head[p]
      /\ q_cnt'[p] = IF p \in Taking THEN q_cnt[p] - 1
                     ELSE IF Putting(frame, p) THEN q_cnt[p] + 1 ELSE q_cnt[p]
      /\ Putting(frame, p) => frame \in Frame
      /\ p \in Taking => q_cnt[p] > 0
    BY QueueChange
<1>3. \A i \in 0 .. Q_DEPTH - 1 :
         q_mem'[p][i] = IF Putting(frame, p) /\ i = q_tail[p] THEN frame ELSE q_mem[p][i]
    BY <1>1, <1>2
<1>4. \A i \in 0 .. Q_DEPTH - 1 : q_mem'[p][i] # NoFrame => q_mem'[p][i].port = p
    BY <1>3 DEF OwnFrames, Putting
<1>5. Putting(frame, p) => frame # NoFrame
    BY DEF Putting
<1>6. CASE \A i \in 0 .. Q_DEPTH - 1 : q_mem[p][i] # NoFrame
    BY <1>3, <1>4, <1>5, <1>6
<1>7. CASE /\ \A i \in 0 .. Q_DEPTH - 1 : i < q_tail[p] => q_mem[p][i] # NoFrame
           /\ q_head[p] + q_cnt[p] <= q_tail[p]
  <2>1. CASE Putting(frame, p) /\ q_tail[p] = Q_DEPTH - 1
    <3>1. \A i \in 0 .. Q_DEPTH - 1 : i < q_tail[p] \/ i = q_tail[p]
        BY <1>1, <2>1
    <3> QED
        BY <1>3, <1>4, <1>5, <1>7, <2>1, <3>1
  <2>2. CASE ~(Putting(frame, p) /\ q_tail[p] = Q_DEPTH - 1)
    <3>1. q_tail'[p] = IF Putting(frame, p) THEN q_tail[p] + 1 ELSE q_tail[p]
      <4>1. (q_tail[p] + 1) % Q_DEPTH = IF q_tail[p] + 1 < Q_DEPTH THEN q_tail[p] + 1
                                         ELSE q_tail[p] + 1 - Q_DEPTH
        BY <1>1, Wrap
      <4>2. CASE Putting(frame, p)
        <5>1. q_tail[p] + 1 < Q_DEPTH
          BY <1>1, <2>2, <4>2
        <5>2. q_tail'[p] = (q_tail[p] + 1) % Q_DEPTH
          BY <1>2, <4>2
        <5> QED
          BY <4>1, <4>2, <5>1, <5>2
      <4>3. CASE ~ Putting(frame, p)
        BY <1>2, <4>3
      <4> QED
        BY <4>2, <4>3
    <3>2. q_head'[p] = IF p \in Taking THEN q_head[p] + 1 ELSE q_head[p]
      <4>1. (q_head[p] + 1) % Q_DEPTH = IF q_head[p] + 1 < Q_DEPTH THEN q_head[p] + 1
                                         ELSE q_head[p] + 1 - Q_DEPTH
        BY <1>1, Wrap
      <4>2. p \in Taking => q_head[p] + 1 < Q_DEPTH
        BY <1>1, <1>2, <1>7
      <4> QED
        BY <1>1, <1>2, <4>1, <4>2
    <3>3. q_head'[p] + q_cnt'[p] <= q_tail'[p]
      <4>1. /\ q_head[p] + q_cnt[p] <= q_tail[p]
            /\ q_head[p] \in Int /\ q_cnt[p] \in Int /\ q_tail[p] \in Int
        BY <1>1, <1>7
      <4>2. CASE p \in Taking
        <5>1. q_tail'[p] = q_tail[p] \/ q_tail'[p] = q_tail[p] + 1
            BY <3>1
        <5>2. q_head'[p] = q_head[p] + 1
            BY <3>2, <4>2
        <5>3. q_cnt'[p] = q_cnt[p] - 1
            BY <1>2, <4>2
        <5> QED
            BY <4>1, <5>1, <5>2, <5>3
      <4>3. CASE p \notin Taking
        <5>1. q_head'[p] = q_head[p]
            BY <3>2, <4>3
        <5>2. \/ q_tail'[p] = q_tail[p] + 1 /\ q_cnt'[p] = q_cnt[p] + 1
              \/ q_tail'[p] = q_tail[p] /\ q_cnt'[p] = q_cnt[p]
            BY <1>2, <3>1, <4>3
        <5> QED
            BY <4>1, <5>1, <5>2
      <4> QED
        BY <4>2, <4>3
    <3>4. \A i \in 0 .. Q_DEPTH - 1 : i < q_tail'[p] => q_mem'[p][i] # NoFrame
      <4> SUFFICES ASSUME NEW i \in 0 .. Q_DEPTH - 1, i < q_tail'[p]
                   PROVE  q_mem'[p][i] # NoFrame
        OBVIOUS
      <4>1. i < q_tail[p] \/ (Putting(frame, p) /\ i = q_tail[p])
        BY <1>1, <3>1
      <4> QED
        BY <1>3, <1>5, <1>7, <4>1
    <3> QED
        BY <1>4, <3>3, <3>4
  <2> QED
    BY <2>1, <2>2
<1> QED
    BY <1>6, <1>7 DEF CountedAreWritten

-----------------------------------------------------------------------------
(* The frame an idle port takes from a queue that counts one is there, and *)
(* is the port's own.                                                      *)
LEMMA TakenFrame ==
    ASSUME TypeOK, QueueInv, NEW p \in Taking
    PROVE  q_mem[p][q_head[p]] \in Frame /\ q_mem[p][q_head[p]].port = p
<1>1. /\ p \in Ports /\ q_cnt[p] \in 0 .. Q_DEPTH /\ q_cnt[p] > 0 /\ Q_DEPTH \in Nat
      /\ q_head[p] \in 0 .. Q_DEPTH - 1 /\ q_tail[p] \in 0 .. Q_DEPTH - 1
      /\ q_mem[p] \in [0 .. Q_DEPTH - 1 -> Frame \cup {NoFrame}]
    BY TmAssumption DEF TypeOK, Taking
<1>2. q_mem[p][q_head[p]] # NoFrame
  <2>1. CASE \A i \in 0 .. Q_DEPTH - 1 : q_mem[p][i] # NoFrame
    BY <1>1, <2>1
  <2>2. CASE /\ \A i \in 0 .. Q_DEPTH - 1 : i < q_tail[p] => q_mem[p][i] # NoFrame
             /\ q_head[p] + q_cnt[p] <= q_tail[p]
    BY <1>1, <2>2
  <2> QED
    BY <1>1, <2>1, <2>2 DEF QueueInv, CountedAreWritten
<1> QED
    BY <1>1, <1>2 DEF QueueInv, OwnFrames

(* The cells of a frame: its first, and after one that is not the last the *)
(* next.                                                                   *)
LEMMA CellFacts ==
    /\ \A f \in Frame : LET c == [frame |-> f, pos |-> 1]
                        IN  c \in Cell /\ c.pos <= c.frame.len /\ c.frame = f
    /\ \A c \in Cell :
          c.pos <= c.frame.len /\ ~eof(c) =>
              /\ next(c) \in Cell
              /\ next(c).frame = c.frame /\ next(c).pos <= c.frame.len
<1>1. MaxLen \in Nat \ {0}
    BY TmAssumption
<1>2. \A f \in Frame : f.len \in 1 .. MaxLen
    BY DEF Frame
<1>3. ASSUME NEW f \in Frame
      PROVE  LET c == [frame |-> f, pos |-> 1]
             IN  c \in Cell /\ c.pos <= c.frame.len /\ c.frame = f
    BY <1>1, <1>2 DEF Cell
<1>4. ASSUME NEW c \in Cell, c.pos <= c.frame.len, ~eof(c)
      PROVE  /\ next(c) \in Cell
             /\ next(c).frame = c.frame /\ next(c).pos <= c.frame.len
  <2>1. c.frame \in Frame /\ c.pos \in 1 .. MaxLen /\ c = [frame |-> c.frame, pos |-> c.pos]
    BY DEF Cell
  <2>2. next(c) = [frame |-> c.frame, pos |-> c.pos + 1]
    BY <2>1 DEF next
  <2>3. c.frame.len \in 1 .. MaxLen /\ c.pos # c.frame.len
    BY <1>2, <1>4, <2>1 DEF eof
  <2>4. c.pos + 1 <= c.frame.len /\ c.pos + 1 \in 1 .. MaxLen
    BY <1>1, <1>4, <2>1, <2>3
  <2> QED
    BY <2>1, <2>2, <2>4 DEF Cell
<1> QED
    BY <1>3, <1>4

(* The read served is of a port below all those that wait for an answer.   *)
LEMMA RequestFacts ==
    ASSUME TypeOK, SendInv
    PROVE  /\ Request \in Cell \cup {NoCell}
           /\ Request # NoCell => Request.pos <= Request.frame.len
           /\ \A p \in Reading : Request # NoCell /\ Request.frame.port <= p
<1>1. CASE Reading = {}
    BY <1>1 DEF Request
<1>2. CASE Reading # {}
  <2> DEFINE m == Min(Reading)
  <2>1. Ports \subseteq Nat /\ Reading \subseteq Ports
    BY TmAssumption DEF Ports, Reading
  <2>2. m \in Reading /\ \A p \in Reading : m <= p
    BY <1>2, <2>1, MinOfNaturals
  <2>3. Request = tx_cell[m]
    BY <1>2 DEF Request
  <2> HIDE DEF m
  <2>4. m \in Ports /\ tx_state[m] # "TX_IDLE"
    BY <2>1, <2>2 DEF Reading
  <2>5. tx_cell[m] \in Cell /\ tx_cell[m].pos <= tx_cell[m].frame.len
    BY <2>4 DEF TypeOK, SendInv, CellsInFrames
  <2>6. tx_cell[m].frame.port <= m
    BY <2>4, <2>5, TmAssumption DEF SendInv, LeaksUpwardOnly
  <2>7. tx_cell[m].frame.port \in Nat
    BY <2>1, <2>5 DEF Cell, Frame
  <2>8. \A p \in Reading : tx_cell[m].frame.port <= p
    BY <2>1, <2>2, <2>4, <2>6, <2>7
  <2>9. tx_cell[m] # NoCell
    BY <2>5, TmAssumption
  <2> QED
    BY <2>3, <2>5, <2>8, <2>9
<1> QED
    BY <1>1, <1>2

(* The transmitters keep to their own frames and those of lower ports.     *)
LEMMA SendStep ==
    ASSUME TypeOK, QueueInv, SendInv, NEW tx_ready \in SUBSET Ports, Transmit(tx_ready)
    PROVE  /\ tx_state' \in [Ports -> {"TX_IDLE", "TX_READ", "TX_SEND", "TX_FREE"}]
           /\ tx_cell' \in [Ports -> Cell \cup {NoCell}]
           /\ rsp' \in Cell \cup {NoCell}
           /\ SendInv'
<1>1. /\ rsp' \in Cell \cup {NoCell}
      /\ rsp' # NoCell => rsp'.pos <= rsp'.frame.len
      /\ \A p \in Reading : rsp' # NoCell /\ rsp'.frame.port <= p
    BY RequestFacts DEF Transmit
<1>2. ASSUME NEW p \in Ports
      PROVE  /\ tx_state'[p] \in {"TX_IDLE", "TX_READ", "TX_SEND", "TX_FREE"}
             /\ tx_cell'[p] \in Cell \cup {NoCell}
             /\ tx_state'[p] # "TX_IDLE" => tx_cell'[p] # NoCell
             /\ tx_cell'[p] # NoCell => /\ tx_cell'[p].pos <= tx_cell'[p].frame.len
                                        /\ tx_cell'[p].frame.port <= p
             /\ tx_state'[p] = "TX_SEND" => p \in Reading
  <2>1. /\ tx_state[p] \in {"TX_IDLE", "TX_READ", "TX_SEND", "TX_FREE"}
        /\ tx_cell[p] \in Cell \cup {NoCell} /\ rsp \in Cell \cup {NoCell}
        /\ tx_state[p] # "TX_IDLE" => tx_cell[p] # NoCell
        /\ tx_cell[p] # NoCell => /\ tx_cell[p].pos <= tx_cell[p].frame.len
                                  /\ tx_cell[p].frame.port <= p
        /\ p \in Nat /\ NoCell \notin Cell
    BY TmAssumption DEF TypeOK, SendInv, CellsInFrames, LeaksUpwardOnly, Ports
  <2>2. CASE p \in Taking
    <3> DEFINE f == q_mem[p][q_head[p]]
    <3>1. f \in Frame /\ f.port = p
        BY <2>2, TakenFrame
    <3>2. tx_state'[p] = "TX_READ" /\ tx_cell'[p] = [frame |-> f, pos |-> 1]
        BY <2>2 DEF Transmit, Taking, Sent
    <3> HIDE DEF f
    <3>3. tx_cell'[p] \in Cell /\ tx_cell'[p].pos <= tx_cell'[p].frame.len
          /\ tx_cell'[p].frame = f
        BY <3>1, <3>2, CellFacts
    <3> QED
        BY <2>1, <3>1, <3>2, <3>3
  <2>3. CASE p \notin Taking /\ Sent(p, tx_ready) /\ ~eof(rsp)
    <3>1. tx_state[p] = "TX_SEND" /\ rsp \in Cell /\ rsp # NoCell /\ p \in Reading
        BY <2>1, <2>3 DEF Sent, Reading
    <3>2. tx_state'[p] = "TX_SEND" /\ tx_cell'[p] = next(rsp)
        BY <2>3, <3>1 DEF Transmit
    <3>3. rsp.pos <= rsp.frame.len /\ rsp.frame.port <= p
        BY <3>1 DEF SendInv, CellsInFrames, LeaksUpwardOnly
    <3>4. next(rsp) \in Cell /\ next(rsp).frame = rsp.frame
          /\ next(rsp).pos <= rsp.frame.len
        BY <2>3, <3>1, <3>3, CellFacts
    <3> QED
        BY <2>1, <3>1, <3>2, <3>3, <3>4
  <2>4. CASE p \notin Taking /\ ~(Sent(p, tx_ready) /\ ~eof(rsp))
    <3>1. tx_cell'[p] = tx_cell[p]
        BY <2>4 DEF Transmit
    <3>2. /\ tx_state'[p] \in {"TX_IDLE", "TX_READ", "TX_SEND", "TX_FREE"}
          /\ tx_state'[p] # "TX_IDLE" => tx_state[p] # "TX_IDLE"
          /\ tx_state'[p] = "TX_SEND" => tx_state[p] \in {"TX_READ", "TX_SEND"}
        BY <2>1, <2>4 DEF Transmit, Sent
    <3> QED
        BY <2>1, <3>1, <3>2 DEF Reading
  <2> QED
    BY <2>2, <2>3, <2>4
<1>3. tx_state' \in [Ports -> {"TX_IDLE", "TX_READ", "TX_SEND", "TX_FREE"}]
    BY <1>2 DEF Transmit
<1>4. tx_cell' \in [Ports -> Cell \cup {NoCell}]
  <2>1. \A p \in Ports : tx_cell'[p] \in Cell \cup {NoCell}
    BY <1>2
  <2>2. tx_cell' = [p \in Ports |-> tx_cell'[p]]
    BY DEF Transmit
  <2> QED
    BY <2>1, <2>2
<1>5. CellsInFrames'
    BY <1>1, <1>2 DEF CellsInFrames
<1>6. LeaksUpwardOnly'
    BY <1>1, <1>2 DEF LeaksUpwardOnly
<1> QED
    BY <1>1, <1>3, <1>4, <1>5, <1>6 DEF SendInv

-----------------------------------------------------------------------------
LEMMA InitInvariant == Init => IInv
<1> SUFFICES ASSUME Init PROVE IInv
    OBVIOUS
<1>1. Q_DEPTH \in Nat \ {0} /\ 0 % Q_DEPTH = 0 /\ 0 \in 0 .. Q_DEPTH - 1
    BY TmAssumption
<1>2. <<>> \in Seq(Frame) /\ Len(<<>>) = 0
    OBVIOUS
<1>3. TypeOK
    BY <1>1, <1>2 DEF Init, TypeOK
<1>4. RingInOrder
  <2> SUFFICES ASSUME NEW p \in Ports
               PROVE  /\ Len(pending[p]) <= Q_DEPTH
                      /\ q_tail[p] = (q_head[p] + Len(pending[p])) % Q_DEPTH
                      /\ q_cnt[p] <= Len(pending[p])
                      /\ RingHolds(q_mem[p], q_head[p], pending[p])
    BY DEF RingInOrder
  <2>1. pending[p] = <<>> /\ q_head[p] = 0 /\ q_tail[p] = 0 /\ q_cnt[p] = 0
    BY DEF Init
  <2>2. Len(pending[p]) = 0
    BY <2>1, <1>2
  <2>3. RingHolds(q_mem[p], q_head[p], pending[p])
    BY <2>2 DEF RingHolds
  <2> QED
    BY <1>1, <2>1, <2>2, <2>3
<1>5. CountedAreWritten
    BY <1>1 DEF Init, CountedAreWritten
<1>6. OwnFrames
    BY DEF Init, OwnFrames
<1>7. SendInv
    BY DEF Init, SendInv, CellsInFrames, LeaksUpwardOnly
<1> QED
    BY <1>3, <1>4, <1>5, <1>6, <1>7 DEF IInv, QueueInv

LEMMA StepInvariant == IInv /\ [Next]_vars => IInv'
<1> SUFFICES ASSUME IInv, [Next]_vars PROVE IInv'
    OBVIOUS
<1>1. TypeOK /\ QueueInv /\ SendInv /\ RingInOrder /\ CountedAreWritten /\ OwnFrames
    BY DEF IInv, QueueInv
<1>2. ASSUME NEW frame \in Frame \cup {NoFrame}, NEW tx_ready \in SUBSET Ports,
             Edge(frame, tx_ready)
      PROVE  IInv'
  <2>1. /\ frame # NoFrame => phv_in_ready(frame)
        /\ QMem(frame) /\ QPointers(frame) /\ Account(frame) /\ Transmit(tx_ready)
    BY <1>2 DEF Edge
  <2>2. /\ q_mem' \in [Ports -> [0 .. Q_DEPTH - 1 -> Frame \cup {NoFrame}]]
        /\ q_head' \in [Ports -> 0 .. Q_DEPTH - 1]
        /\ q_tail' \in [Ports -> 0 .. Q_DEPTH - 1]
        /\ q_cnt' \in [Ports -> 0 .. Q_DEPTH]
    BY <1>1, <2>1, QueueTypes
  <2>3. RingInOrder' /\ \A p \in Ports \ overrun' : pending'[p] \in Seq(Frame)
    BY <1>1, <2>1, RingStep
  <2>4. CountedAreWritten' /\ OwnFrames'
    BY <1>1, <2>1, EntriesStep
  <2>5. /\ tx_state' \in [Ports -> {"TX_IDLE", "TX_READ", "TX_SEND", "TX_FREE"}]
        /\ tx_cell' \in [Ports -> Cell \cup {NoCell}]
        /\ rsp' \in Cell \cup {NoCell} /\ SendInv'
    BY <1>1, <2>1, SendStep
  <2>6. overrun' \subseteq Ports
    BY <1>1, <2>1 DEF Account, TypeOK
  <2>7. pending' \in [Ports -> Seq(Frame)]
    <3>1. pending' = [p \in Ports |-> pending'[p]]
        BY <2>1 DEF Account
    <3>2. \A p \in Ports : p \in overrun' => pending'[p] = <<>>
        BY <2>1 DEF Account
    <3>3. <<>> \in Seq(Frame)
        OBVIOUS
    <3> QED
        BY <2>3, <3>1, <3>2, <3>3
  <2>8. TypeOK'
    BY <2>2, <2>5, <2>6, <2>7 DEF TypeOK
  <2> QED
    BY <2>3, <2>4, <2>5, <2>8 DEF IInv, QueueInv
<1>3. CASE UNCHANGED vars
  <2>1. UNCHANGED <<q_mem, q_head, q_tail, q_cnt, pending, overrun, tx_state, tx_cell, rsp>>
    BY <1>3 DEF vars, queues
  <2>2. TypeOK'
    BY <1>1, <2>1 DEF TypeOK
  <2>3. QueueInv'
    BY <1>1, <2>1 DEF QueueInv, RingInOrder, RingHolds, CountedAreWritten, OwnFrames
  <2>4. SendInv'
    BY <1>1, <2>1 DEF SendInv, CellsInFrames, LeaksUpwardOnly
  <2> QED
    BY <2>2, <2>3, <2>4 DEF IInv
<1> QED
    BY <1>2, <1>3 DEF Next

(* The inductive invariant holds in every reachable state.                 *)
THEOREM InductiveInvariant == Spec => []IInv
    BY InitInvariant, StepInvariant, PTL DEF Spec

(* The pointers and counts of the queues stay in their ranges, although    *)
(* the count loses increments, and the cell a port asks for lies in a      *)
(* frame that was queued.                                                  *)
THEOREM TypeCorrect == Spec => []TypeOK
<1>1. IInv => TypeOK
    BY DEF IInv
<1> QED
    BY <1>1, InductiveInvariant, PTL

(* A queue's count is never ahead of the frames pending, and until one of  *)
(* them is overwritten the ring holds them in order.                       *)
THEOREM QueuesHoldPending == Spec => []QueueHoldsPending
<1>1. IInv => QueueHoldsPending
    BY DEF IInv, QueueInv, RingInOrder, RingHolds, QueueHoldsPending
<1> QED
    BY <1>1, InductiveInvariant, PTL

(* A port sends only cells of frames for itself or for a lower port.       *)
THEOREM LeakUpward == Spec => []LeaksUpwardOnly
<1>1. IInv => LeaksUpwardOnly
    BY DEF IInv, SendInv
<1> QED
    BY <1>1, InductiveInvariant, PTL
=============================================================================
