---------------------------- MODULE QuicAckRanges ----------------------------
(***************************************************************************)
(* The table of received packet numbers of one packet number space         *)
(* (quic_conn.rx_packets[epoch]) and the ACK frames built from it.  The    *)
(* table is a sorted array of at most Limit closed ranges; every packet    *)
(* that decrypts is added to it and answered with an ACK frame built from  *)
(* the whole table (quic.c: quic_add_received_pn, quic_build_ack_frame,    *)
(* and the ACK branch of quic_parse_frames, which reads the same format).  *)
(***************************************************************************)
EXTENDS Integers, Sequences, SequencesExt

CONSTANTS PN,      \* the packet numbers the peer may use
          Limit    \* entries of quic_conn.rx_packets[epoch].ranges (32)

ASSUME PNAssumption == PN \subseteq Nat
ASSUME LimitAssumption == Limit \in Nat \ {0}

VARIABLES ranges,    \* rx_packets[epoch].ranges[0 .. count-1]
          ack,       \* the last ACK frame built, NoAck before the first
          received   \* history: every packet number that was received

vars == <<ranges, ack, received>>

NoAck == <<>>

AckRange == [start : Nat, end : Nat]

Between(first, last) == [start |-> first, end |-> last]

-----------------------------------------------------------------------------
(* The ranges one of the three tests of the scan accepts: pn lies inside,  *)
(* or extends the range by one at either end.                              *)
Touching(rs, pn) ==
  {i \in 1..Len(rs) : rs[i].start - 1 <= pn /\ pn <= rs[i].end + 1}

(* The scan stops at the first of them.                                    *)
FirstTouching(rs, pn) ==
  CHOOSE i \in Touching(rs, pn) : \A j \in Touching(rs, pn) : i <= j

(* Mutant: the range is extended past the next one and never merged.       *)
ExtendUpNoMerge(rs, i, pn) == [rs EXCEPT ![i] = Between(rs[i].start, pn)]

(* Mutant: the merge keeps the lower range's start and end.                *)
ExtendUpLosesUpper(rs, i, pn) ==
  IF i < Len(rs) /\ rs[i + 1].start <= pn + 1
  THEN RemoveAt(rs, i + 1)
  ELSE [rs EXCEPT ![i] = Between(rs[i].start, pn)]

(* Mutant: ranges are merged over a gap of one packet number.              *)
ExtendUpMergesEarly(rs, i, pn) ==
  IF i < Len(rs) /\ rs[i + 1].start <= pn + 2
  THEN RemoveAt([rs EXCEPT ![i] = Between(rs[i].start, rs[i + 1].end)], i + 1)
  ELSE [rs EXCEPT ![i] = Between(rs[i].start, pn)]

(* pn is one below range i: extend it, and merge it into range i-1 when    *)
(* they now meet.                                                          *)
ExtendDown(rs, i, pn) ==
  IF i > 1 /\ rs[i - 1].end >= pn - 1
  THEN RemoveAt([rs EXCEPT ![i - 1] = Between(rs[i - 1].start, rs[i].end)], i)
  ELSE [rs EXCEPT ![i] = Between(pn, rs[i].end)]

(* pn is one above range i: extend it, and take range i+1 in when they now *)
(* meet.                                                                   *)
ExtendUp(rs, i, pn) ==
  IF i < Len(rs) /\ rs[i + 1].start <= pn + 1
  THEN RemoveAt([rs EXCEPT ![i] = Between(rs[i].start, rs[i + 1].end)], i + 1)
  ELSE [rs EXCEPT ![i] = Between(rs[i].start, pn)]

(* Where a new range goes: in front of the first range that starts at pn   *)
(* or above.                                                               *)
InsertPos(rs, pn) ==
  CHOOSE k \in 1..Len(rs) + 1 :
    /\ k <= Len(rs) => rs[k].start >= pn
    /\ \A j \in 1..k - 1 : rs[j].start < pn

(* Mutant: a new range reaches one packet number below the received one.   *)
AddReceivedStartsEarly(rs, pn) ==
  IF Touching(rs, pn) # {}
  THEN LET i == FirstTouching(rs, pn)
       IN IF pn = rs[i].start - 1 THEN ExtendDown(rs, i, pn)
          ELSE IF pn = rs[i].end + 1 THEN ExtendUp(rs, i, pn)
          ELSE rs
  ELSE IF Len(rs) >= Limit THEN rs
       ELSE InsertAt(rs, InsertPos(rs, pn), Between(pn - 1, pn))

(* Mutant: a full table makes room by dropping its lowest range.           *)
AddReceivedForgets(rs, pn) ==
  IF Touching(rs, pn) # {}
  THEN LET i == FirstTouching(rs, pn)
       IN IF pn = rs[i].start - 1 THEN ExtendDown(rs, i, pn)
          ELSE IF pn = rs[i].end + 1 THEN ExtendUp(rs, i, pn)
          ELSE rs
  ELSE LET kept == IF Len(rs) >= Limit THEN Tail(rs) ELSE rs
       IN InsertAt(kept, InsertPos(kept, pn), Between(pn, pn))

(* A full table drops a packet number that touches none of its ranges.     *)
AddReceived(rs, pn) ==
  IF Touching(rs, pn) # {}
  THEN LET i == FirstTouching(rs, pn)
       IN IF pn = rs[i].start - 1 THEN ExtendDown(rs, i, pn)
          ELSE IF pn = rs[i].end + 1 THEN ExtendUp(rs, i, pn)
          ELSE rs
  ELSE IF Len(rs) >= Limit THEN rs
       ELSE InsertAt(rs, InsertPos(rs, pn), Between(pn, pn))

-----------------------------------------------------------------------------
(* Mutant: the gap is written without the two the format takes off.        *)
BuildAckWideGaps(rs) ==
  LET n == Len(rs)
  IN [largest |-> rs[n].end,
      first   |-> rs[n].end - rs[n].start,
      more    |-> [k \in 1..n - 1 |->
                     [gap |-> rs[n - k + 1].start - rs[n - k].end,
                      len |-> rs[n - k].end - rs[n - k].start]]]

(* The ACK frame: the highest range, then for each lower range the gap     *)
(* before it and its length less one, highest first.                       *)
BuildAck(rs) ==
  LET n == Len(rs)
  IN [largest |-> rs[n].end,
      first   |-> rs[n].end - rs[n].start,
      more    |-> [k \in 1..n - 1 |->
                     [gap |-> rs[n - k + 1].start - rs[n - k].end - 2,
                      len |-> rs[n - k].end - rs[n - k].start]]]

(* The parser's walk down an ACK frame: curr is curr_pn, pns what has been *)
(* acknowledged so far.  The first block counts down from the largest.     *)
FirstBlock(f) ==
  [curr |-> IF f.largest >= f.first THEN f.largest - f.first ELSE f.largest,
   pns  |-> {f.largest - p : p \in 0..f.first}]

(* A further block.  A gap or length that would pass below 0 is skipped    *)
(* and leaves curr_pn where it was.                                        *)
NextBlock(w, block) ==
  LET top == w.curr - block.gap - 2
  IN IF w.curr < block.gap + 2 THEN w
     ELSE [curr |-> IF top >= block.len THEN top - block.len ELSE w.curr,
           pns  |-> w.pns \cup {top - p : p \in 0..block.len}]

(* The packet numbers an ACK frame acknowledges.                           *)
ParseAck(f) ==
  LET walk[i \in 0..Len(f.more)] ==
        IF i = 0 THEN FirstBlock(f) ELSE NextBlock(walk[i - 1], f.more[i])
  IN {n \in walk[Len(f.more)].pns : n >= 0}

-----------------------------------------------------------------------------
Init ==
  /\ ranges = <<>>
  /\ ack = NoAck
  /\ received = {}

(* A packet with number pn decrypted: it is recorded and acknowledged.     *)
ReceivePacket(pn) ==
  /\ ranges' = AddReceived(ranges, pn)
  /\ ack' = BuildAck(ranges')
  /\ received' = received \cup {pn}

Next == \E pn \in PN : ReceivePacket(pn)

Spec == Init /\ [][Next]_vars

-----------------------------------------------------------------------------
(* The packet numbers the table holds.                                     *)
Covered(rs) == UNION {rs[i].start .. rs[i].end : i \in 1..Len(rs)}

TypeOK ==
  /\ ranges \in Seq(AckRange)
  /\ received \subseteq PN

(* None empty, ascending, and a packet number missing between any two.     *)
Ordered(rs) ==
  /\ \A i \in 1..Len(rs) : rs[i].start <= rs[i].end
  /\ \A i, j \in 1..Len(rs) : i < j => rs[i].end + 1 < rs[j].start

(* The array is what the scan, the merge and the gap encoding take it for: *)
(* at most Limit ranges, in order and never adjacent, whatever the order   *)
(* in which packets arrive (quic_add_received_pn keeps it so).             *)
RangesOrdered == Len(ranges) <= Limit /\ Ordered(ranges)

(* The frame quic_build_ack_frame writes, read the way quic_parse_frames   *)
(* reads one, acknowledges exactly the numbers in the table: no packet the *)
(* table lost and none it never held, whatever the gaps.                   *)
AckFrameExact ==
  ack # NoAck => ParseAck(ack) = Covered(ranges)

(* No packet is acknowledged that was not received, which a peer would     *)
(* answer by closing the connection.                                       *)
NeverAcksUnreceived == Covered(ranges) \subseteq received

(* An acknowledgement is never withdrawn: each frame repeats every number  *)
(* of the one before it, also after merges and when the table is full.     *)
AckNeverWithdrawn ==
  [][ack # NoAck => ParseAck(ack) \subseteq ParseAck(ack')]_vars

(* The table implements AckSet: a received number is left out only when    *)
(* the table is full and the number touches no run in it.                  *)
Abstract == INSTANCE AckSet WITH acked <- Covered(ranges)
ImplementsAckSet == Abstract!Spec
=============================================================================
