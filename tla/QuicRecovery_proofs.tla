------------------------ MODULE QuicRecovery_proofs ------------------------
(***************************************************************************)
(* What loss recovery is proved to do, for any payloads, any timeout, any  *)
(* packet numbers, losses and Retries: a number is sent twice only in the  *)
(* Initial space and only once more for each Retry, nothing the peer may   *)
(* lack leaves the queue of a connection, and a pass of quic_check_pto     *)
(* leaves nothing overdue.                                                 *)
(***************************************************************************)
EXTENDS QuicRecovery, InductionLemmas

Spaces == Epochs \X (0..MaxPn)

(* A state of the sender while packets leave; a pass may run past MaxPn    *)
(* before its guard refuses it.                                            *)
QueueEntry == [epoch : Epochs, pn : Nat, data : Data, age : 0..MaxAge]
Sendings ==
  [queue : Seq(QueueEntry), nextPn : [Epochs -> Nat], times : [Spaces -> Nat],
   net : SUBSET [epoch : Epochs, pn : Nat, data : Data \cup {Bare}]]

DataOf(q) == {q[i].data : i \in DOMAIN q}

(* The payloads there are when one more was sent.                          *)
Joined(ds, d, failed) == ds \cup ({d} \ failed)

(* No payload has two entries.                                             *)
OneEach(q) == \A i, j \in DOMAIN q : q[i].data = q[j].data => i = j

(* What r Retries add to the uses of a number of a space.                  *)
Extra(e, r) == IF e = 0 THEN r ELSE 0

(* A number the counter has yet to come to has a use to spare.             *)
Counted(st, r) ==
  \A e \in Epochs, n \in 0..MaxPn :
    /\ st.times[<<e, n>>] <= Extra(e, r) + 1
    /\ n >= st.nextPn[e] => st.times[<<e, n>>] <= Extra(e, r)

(* A number that was used is below the counter, or below the bound: the    *)
(* counter may have been set back.                                         *)
BelowIn(st, p) == p.pn < st.nextPn[p.epoch] \/ p.pn < MaxPn

Below(st) ==
  /\ \A i \in DOMAIN st.queue : BelowIn(st, st.queue[i])
  /\ \A p \in st.net : BelowIn(st, p)

SendingOK(st, r) ==
  st \in Sendings /\ OneEach(st.queue) /\ Counted(st, r) /\ Below(st)

(* The queue of a connection holds exactly the payloads that were sent and *)
(* kept, each once.                                                        *)
QueueExact == Live => DataOf(queue) = submitted \ unqueued

PhaseTypes ==
  /\ phase \in {"handshake", "open", "failed", "closed"}
  /\ clock \in 0..Deadline + 1 /\ retry_count \in 0..MaxRetries

Histories ==
  /\ losses \in 0..MaxLosses
  /\ arrived \subseteq Packet
  /\ acked \subseteq 0..MaxPn
  /\ unqueued \subseteq submitted /\ submitted \subseteq Data

RecoveryInv ==
  /\ PhaseTypes
  /\ SendingOK(Sending, retry_count)
  /\ \A e \in Epochs : nextPn[e] <= MaxPn
  /\ QueueExact
  /\ srtt \in Nat /\ rttvar \in Nat
  /\ Histories

-----------------------------------------------------------------------------
LEMMA Constants ==
  /\ InitialPTO \in Nat /\ InitialPTO > 0 /\ MaxAge \in Nat
  /\ MaxPn \in Nat /\ MaxPn > 0 /\ MaxLosses \in Nat
  /\ Deadline \in Nat /\ MaxRetries \in Nat
  /\ Bare \notin Data /\ \A d \in Data : EpochOf[d] \in Epochs
  BY DataAssumption, PTOAssumption, BoundsAssumption DEF MaxAge

LEMMA TimeoutPositive ==
  ASSUME srtt \in Nat, rttvar \in Nat
  PROVE  PTO \in Nat /\ PTO > 0
  BY Constants DEF PTO

(* What an entry at the head makes of a queue.                             *)
LEMMA Pushed ==
  ASSUME NEW q \in Seq(QueueEntry), NEW p \in QueueEntry
  PROVE  /\ <<p>> \o q \in Seq(QueueEntry)
         /\ DOMAIN (<<p>> \o q) = 1..Len(q) + 1
         /\ (<<p>> \o q)[1] = p
         /\ \A i \in 1..Len(q) : (<<p>> \o q)[i + 1] = q[i]
         /\ \A i \in 2..Len(q) + 1 : i - 1 \in 1..Len(q) /\ (<<p>> \o q)[i] = q[i - 1]
<1>1. <<p>> \in Seq(QueueEntry) /\ Len(<<p>>) = 1 /\ <<p>>[1] = p
  OBVIOUS
<1>2. /\ <<p>> \o q \in Seq(QueueEntry)
      /\ Len(<<p>> \o q) = 1 + Len(q)
      /\ \A i \in 1..1 + Len(q) :
           (<<p>> \o q)[i] = IF i <= 1 THEN <<p>>[i] ELSE q[i - 1]
  BY <1>1, ConcatProperties
<1>3. Len(q) \in Nat /\ DOMAIN (<<p>> \o q) = 1..Len(q) + 1
  BY <1>2, LenProperties
<1> QED BY <1>1, <1>2, <1>3

(* What is left alone of OneEach when a new payload comes to the head.     *)
LEMMA PushedOne ==
  ASSUME NEW q \in Seq(QueueEntry), OneEach(q),
         NEW p \in QueueEntry, p.data \notin DataOf(q)
  PROVE  OneEach(<<p>> \o q) /\ DataOf(<<p>> \o q) = DataOf(q) \cup {p.data}
<1> DEFINE r == <<p>> \o q
<1>1. /\ DOMAIN r = 1..Len(q) + 1 /\ r[1] = p
      /\ \A i \in 1..Len(q) : r[i + 1] = q[i]
      /\ \A i \in 2..Len(q) + 1 : i - 1 \in 1..Len(q) /\ r[i] = q[i - 1]
  BY Pushed
<1>2. Len(q) \in Nat /\ DOMAIN q = 1..Len(q)
  BY LenProperties
<1> HIDE DEF r
<1>3. \A i \in 1..Len(q) : q[i].data # p.data
  BY <1>2 DEF DataOf
<1>4. ASSUME NEW i \in DOMAIN r, NEW j \in DOMAIN r, r[i].data = r[j].data
      PROVE  i = j
  <2>1. CASE i = 1 /\ j = 1
    BY <2>1
  <2>2. CASE i = 1 /\ j # 1
    <3>1. j \in 2..Len(q) + 1
      BY <1>1, <1>2, <2>2
    <3> QED BY <3>1, <2>2, <1>1, <1>3, <1>4
  <2>3. CASE i # 1 /\ j = 1
    <3>1. i \in 2..Len(q) + 1
      BY <1>1, <1>2, <2>3
    <3> QED BY <3>1, <2>3, <1>1, <1>3, <1>4
  <2>4. CASE i # 1 /\ j # 1
    <3>1. i \in 2..Len(q) + 1 /\ j \in 2..Len(q) + 1
      BY <1>1, <1>2, <2>4
    <3>2. q[i - 1].data = q[j - 1].data /\ i - 1 \in DOMAIN q /\ j - 1 \in DOMAIN q
      BY <3>1, <1>1, <1>2, <1>4
    <3>3. i - 1 = j - 1
      BY <3>2 DEF OneEach
    <3> QED BY <3>3, <3>1
  <2> QED BY <2>1, <2>2, <2>3, <2>4
<1>5. DataOf(r) = DataOf(q) \cup {p.data}
  <2>1. ASSUME NEW d \in DataOf(r) PROVE d \in DataOf(q) \cup {p.data}
    <3>1. PICK i \in DOMAIN r : d = r[i].data
      BY DEF DataOf
    <3>2. CASE i = 1
      BY <3>1, <3>2, <1>1
    <3>3. CASE i # 1
      <4>1. i \in 2..Len(q) + 1
        BY <3>3, <1>1, <1>2
      <4>2. i - 1 \in DOMAIN q /\ d = q[i - 1].data
        BY <4>1, <3>1, <1>1, <1>2
      <4> QED BY <4>2 DEF DataOf
    <3> QED BY <3>2, <3>3
  <2>2. p.data \in DataOf(r)
    <3>1. 1 \in DOMAIN r
      BY <1>1, <1>2
    <3> QED BY <3>1, <1>1 DEF DataOf
  <2>3. ASSUME NEW d \in DataOf(q) PROVE d \in DataOf(r)
    <3>1. PICK i \in 1..Len(q) : d = q[i].data
      BY <1>2 DEF DataOf
    <3>2. i + 1 \in DOMAIN r /\ d = r[i + 1].data
      BY <3>1, <1>1, <1>2
    <3> QED BY <3>2 DEF DataOf
  <2> QED BY <2>1, <2>2, <2>3
<1>6. OneEach(r)
  BY <1>4 DEF OneEach
<1> QED BY <1>5, <1>6 DEF r

(* The same for the entry the pass leaves at the end.                      *)
LEMMA AppendedOne ==
  ASSUME NEW q \in Seq(QueueEntry), OneEach(q),
         NEW p \in QueueEntry, p.data \notin DataOf(q)
  PROVE  OneEach(Append(q, p)) /\ DataOf(Append(q, p)) = DataOf(q) \cup {p.data}
<1> DEFINE r == Append(q, p)
<1>1. /\ Len(q) \in Nat /\ DOMAIN q = 1..Len(q)
      /\ DOMAIN r = 1..Len(q) + 1
      /\ \A i \in 1..Len(q) : r[i] = q[i]
      /\ r[Len(q) + 1] = p
  BY LenProperties, AppendProperties
<1> HIDE DEF r
<1>2. \A i \in 1..Len(q) : q[i].data # p.data
  BY <1>1 DEF DataOf
<1>3. \A i \in DOMAIN r : i \in 1..Len(q) \/ i = Len(q) + 1
  BY <1>1
<1>4. ASSUME NEW i \in DOMAIN r, NEW j \in DOMAIN r, r[i].data = r[j].data
      PROVE  i = j
  <2>1. CASE i \in 1..Len(q) /\ j \in 1..Len(q)
    BY <2>1, <1>1, <1>4 DEF OneEach
  <2>2. CASE ~(i \in 1..Len(q) /\ j \in 1..Len(q))
    BY <2>2, <1>1, <1>2, <1>3, <1>4
  <2> QED BY <2>1, <2>2
<1>5. DataOf(r) = DataOf(q) \cup {p.data}
  <2>1. 1..Len(q) \subseteq DOMAIN r /\ Len(q) + 1 \in DOMAIN r
    BY <1>1
  <2>2. ASSUME NEW d \in DataOf(r) PROVE d \in DataOf(q) \cup {p.data}
    <3>1. PICK i \in DOMAIN r : d = r[i].data
      BY DEF DataOf
    <3>2. CASE i \in 1..Len(q)
      <4>1. i \in DOMAIN q /\ d = q[i].data
        BY <3>1, <3>2, <1>1
      <4> QED BY <4>1 DEF DataOf
    <3>3. CASE i = Len(q) + 1
      BY <3>1, <3>3, <1>1
    <3> QED BY <3>2, <3>3, <1>3
  <2>3. ASSUME NEW d \in DataOf(q) PROVE d \in DataOf(r)
    <3>1. PICK i \in 1..Len(q) : d = q[i].data
      BY <1>1 DEF DataOf
    <3>2. i \in DOMAIN r /\ d = r[i].data
      BY <3>1, <1>1, <2>1
    <3> QED BY <3>2 DEF DataOf
  <2>4. p.data \in DataOf(r)
    BY <2>1, <1>1 DEF DataOf
  <2> QED BY <2>2, <2>3, <2>4
<1>6. OneEach(r)
  BY <1>4 DEF OneEach
<1> QED BY <1>5, <1>6 DEF r

-----------------------------------------------------------------------------
(* What a packet that leaves changes, spelled out.                         *)
LEMMA TransmitType ==
  ASSUME NEW st \in Sendings, NEW e \in Epochs,
         NEW d \in Data \cup {Bare}, NEW failed, d \in Data \/ d \in failed
  PROVE  Transmit(st, e, d, failed) \in Sendings
<1> DEFINE n == st.nextPn[e]
           after == Transmit(st, e, d, failed)
           entry == Entry(e, n, d, 0)
<1>1. /\ st.queue \in Seq(QueueEntry) /\ st.nextPn \in [Epochs -> Nat]
      /\ st.times \in [Spaces -> Nat]
      /\ st.net \in SUBSET [epoch : Epochs, pn : Nat, data : Data \cup {Bare}]
      /\ n \in Nat
  BY DEF Sendings
<1>2. /\ after.queue = (IF d \in failed THEN st.queue ELSE <<entry>> \o st.queue)
      /\ after.nextPn = [st.nextPn EXCEPT ![e] = n + 1]
      /\ after.times = [x \in Spaces |-> IF x = <<e, n>> THEN st.times[x] + 1
                                         ELSE st.times[x]]
      /\ after.net = st.net \cup {Sent(e, n, d)}
      /\ after = [queue |-> after.queue, nextPn |-> after.nextPn,
                  times |-> after.times, net |-> after.net]
  BY <1>1 DEF Transmit
<1>3. d \notin failed => entry \in QueueEntry
  BY <1>1, Constants DEF Entry, QueueEntry
<1>4. after.queue \in Seq(QueueEntry)
  <2>1. CASE d \in failed
    BY <2>1, <1>1, <1>2
  <2>2. CASE d \notin failed
    <3>1. after.queue = <<entry>> \o st.queue /\ entry \in QueueEntry
      BY <2>2, <1>2, <1>3
    <3> HIDE DEF after, entry
    <3> QED BY <3>1, <1>1, Pushed
  <2> QED BY <2>1, <2>2
<1>5. after.nextPn \in [Epochs -> Nat]
  <2> HIDE DEF after
  <2> QED BY <1>1, <1>2
<1>6. after.times \in [Spaces -> Nat]
  <2> HIDE DEF after, n
  <2> QED BY <1>1, <1>2
<1>7. after.net \in SUBSET [epoch : Epochs, pn : Nat, data : Data \cup {Bare}]
  <2>1. Sent(e, n, d) \in [epoch : Epochs, pn : Nat, data : Data \cup {Bare}]
    BY <1>1 DEF Sent
  <2> HIDE DEF after, n
  <2> QED BY <2>1, <1>1, <1>2
<1>8. after \in Sendings
  <2> HIDE DEF after
  <2> QED BY <1>2, <1>4, <1>5, <1>6, <1>7 DEF Sendings
<1> QED BY <1>8

(* A packet that leaves keeps the numbers apart.                           *)
LEMMA TransmitKeeps ==
  ASSUME NEW st, NEW r \in Nat, SendingOK(st, r), NEW e \in Epochs,
         NEW d \in Data \cup {Bare}, d \notin DataOf(st.queue),
         NEW failed, d \in Data \/ d \in failed
  PROVE  /\ SendingOK(Transmit(st, e, d, failed), r)
         /\ \A f \in Epochs : st.nextPn[f] <= Transmit(st, e, d, failed).nextPn[f]
         /\ DataOf(Transmit(st, e, d, failed).queue) =
              Joined(DataOf(st.queue), d, failed)
<1> DEFINE n == st.nextPn[e]
           after == Transmit(st, e, d, failed)
           entry == Entry(e, n, d, 0)
<1>1. /\ st.queue \in Seq(QueueEntry) /\ st.nextPn \in [Epochs -> Nat]
      /\ st.times \in [Spaces -> Nat]
      /\ st.net \in SUBSET [epoch : Epochs, pn : Nat, data : Data \cup {Bare}]
      /\ n \in Nat
  BY DEF SendingOK, Sendings
<1>2. /\ after.queue = (IF d \in failed THEN st.queue ELSE <<entry>> \o st.queue)
      /\ after.nextPn = [st.nextPn EXCEPT ![e] = n + 1]
      /\ after.times = [x \in Spaces |-> IF x = <<e, n>> THEN st.times[x] + 1
                                         ELSE st.times[x]]
      /\ after.net = st.net \cup {Sent(e, n, d)}
      /\ after = [queue |-> after.queue, nextPn |-> after.nextPn,
                  times |-> after.times, net |-> after.net]
  BY <1>1 DEF Transmit
<1>3. d \notin failed => entry \in QueueEntry
  BY <1>1, Constants DEF Entry, QueueEntry
<1>4. entry.data = d /\ entry.pn = n /\ entry.epoch = e
  BY DEF Entry
<1>5. /\ after.queue \in Seq(QueueEntry) /\ OneEach(after.queue)
      /\ DataOf(after.queue) = Joined(DataOf(st.queue), d, failed)
  <2>1. CASE d \in failed
    <3>1. after.queue = st.queue /\ {d} \ failed = {}
      BY <2>1, <1>2
    <3> QED BY <3>1, <1>1 DEF SendingOK, Joined
  <2>2. CASE d \notin failed
    <3>1. after.queue = <<entry>> \o st.queue /\ {d} \ failed = {d}
      BY <2>2, <1>2
    <3>2. entry \in QueueEntry /\ OneEach(st.queue) /\ entry.data \notin DataOf(st.queue)
      BY <2>2, <1>3, <1>4 DEF SendingOK
    <3> HIDE DEF after, entry
    <3>3. <<entry>> \o st.queue \in Seq(QueueEntry)
      BY <3>2, <1>1, Pushed
    <3>4. OneEach(<<entry>> \o st.queue) /\ DataOf(<<entry>> \o st.queue) = DataOf(st.queue) \cup {d}
      BY <3>2, <1>1, <1>4, PushedOne
    <3> QED BY <3>1, <3>3, <3>4 DEF Joined
  <2> QED BY <2>1, <2>2
<1>6. /\ after.nextPn \in [Epochs -> Nat]
      /\ after.nextPn[e] = n + 1
      /\ \A f \in Epochs : f # e => after.nextPn[f] = st.nextPn[f]
      /\ \A f \in Epochs : st.nextPn[f] \in Nat
  <2> HIDE DEF after
  <2> QED BY <1>1, <1>2
<1>7. after \in Sendings
  BY TransmitType DEF SendingOK
<1>8. Counted(after, r)
  <2> SUFFICES ASSUME NEW f \in Epochs, NEW m \in 0..MaxPn
               PROVE  /\ after.times[<<f, m>>] <= Extra(f, r) + 1
                      /\ m >= after.nextPn[f] => after.times[<<f, m>>] <= Extra(f, r)
    BY DEF Counted
  <2>1. /\ st.times[<<f, m>>] <= Extra(f, r) + 1
        /\ m >= st.nextPn[f] => st.times[<<f, m>>] <= Extra(f, r)
    BY DEF SendingOK, Counted
  <2>2. <<f, m>> \in Spaces /\ m \in Nat /\ Extra(f, r) \in Nat /\ st.times[<<f, m>>] \in Nat
    BY <1>1, Constants DEF Spaces, Extra
  <2>3. after.times[<<f, m>>] = IF <<f, m>> = <<e, n>> THEN st.times[<<f, m>>] + 1
                                ELSE st.times[<<f, m>>]
    <3> HIDE DEF after, n
    <3> QED BY <2>2, <1>2
  <2>4. CASE f = e /\ m = n
    <3>1. after.times[<<f, m>>] = st.times[<<f, m>>] + 1 /\ m >= st.nextPn[f]
      BY <2>2, <2>3, <2>4
    <3>2. after.nextPn[f] = m + 1
      BY <2>4, <1>6
    <3> HIDE DEF after
    <3> QED BY <2>1, <2>2, <3>1, <3>2
  <2>5. CASE ~(f = e /\ m = n)
    <3>1. after.times[<<f, m>>] = st.times[<<f, m>>]
      BY <2>3, <2>5
    <3>2. /\ st.nextPn[f] \in Nat
          /\ after.nextPn[f] = st.nextPn[f] \/ after.nextPn[f] = st.nextPn[f] + 1
      BY <1>6
    <3> HIDE DEF after
    <3> QED BY <3>1, <3>2, <2>1, <2>2
  <2> QED BY <2>4, <2>5
<1>10. ASSUME NEW f \in Epochs PROVE st.nextPn[f] <= after.nextPn[f]
  <2> HIDE DEF after
  <2>1. st.nextPn[f] \in Nat
    BY <1>6
  <2>2. CASE f = e
    BY <2>1, <2>2, <1>6
  <2>3. CASE f # e
    BY <2>1, <2>3, <1>6
  <2> QED BY <2>2, <2>3
<1>a. ASSUME NEW p, BelowIn(st, p), p.pn \in Nat, p.epoch \in Epochs
      PROVE  BelowIn(after, p)
  <2>1. st.nextPn[p.epoch] <= after.nextPn[p.epoch] /\ st.nextPn[p.epoch] \in Nat
    BY <1>a, <1>6, <1>10
  <2>2. after.nextPn[p.epoch] \in Nat
    <3> HIDE DEF after
    <3> QED BY <1>a, <1>6
  <2> HIDE DEF after
  <2> QED BY <1>a, <2>1, <2>2, Constants DEF BelowIn
<1>b. ASSUME NEW p, p.pn = n, p.epoch = e PROVE BelowIn(after, p)
  <2> HIDE DEF after, n
  <2>1. after.nextPn[p.epoch] = n + 1 /\ n \in Nat
    BY <1>b, <1>1, <1>6
  <2> QED BY <1>b, <2>1 DEF BelowIn
<1>9. Below(after)
  <2>1. ASSUME NEW i \in DOMAIN after.queue
        PROVE  BelowIn(after, after.queue[i])
    <3>1. ASSUME NEW k \in DOMAIN st.queue
          PROVE  BelowIn(after, st.queue[k])
      <4>1. BelowIn(st, st.queue[k])
        BY DEF SendingOK, Below
      <4>2. st.queue[k] \in QueueEntry
        BY <1>1
      <4>3. st.queue[k].pn \in Nat /\ st.queue[k].epoch \in Epochs
        BY <4>2 DEF QueueEntry
      <4> HIDE DEF after
      <4> QED BY <4>1, <4>3, <1>a
    <3>2. CASE d \in failed
      BY <3>1, <3>2, <1>2
    <3>3. CASE d \notin failed
      <4>1. after.queue = <<entry>> \o st.queue /\ entry \in QueueEntry
        BY <3>3, <1>2, <1>3
      <4>6. BelowIn(after, entry)
        <5> HIDE DEF after, entry, n
        <5> QED BY <1>4, <1>b
      <4> HIDE DEF after, entry
      <4>2. /\ DOMAIN after.queue = 1..Len(st.queue) + 1 /\ after.queue[1] = entry
            /\ \A j \in 2..Len(st.queue) + 1 :
                 j - 1 \in 1..Len(st.queue) /\ after.queue[j] = st.queue[j - 1]
        BY <4>1, <1>1, Pushed
      <4>3. Len(st.queue) \in Nat /\ DOMAIN st.queue = 1..Len(st.queue)
        BY <1>1, LenProperties
      <4>4. CASE i = 1
        BY <4>4, <4>2, <4>6
      <4>5. CASE i # 1
        <5>1. i \in 2..Len(st.queue) + 1
          BY <4>5, <4>2, <4>3
        <5> QED BY <5>1, <4>2, <4>3, <3>1
      <4> QED BY <4>4, <4>5
    <3> QED BY <3>2, <3>3
  <2>2. ASSUME NEW p \in after.net
        PROVE  BelowIn(after, p)
    <3>1. CASE p \in st.net
      <4>1. BelowIn(st, p) /\ p.pn \in Nat /\ p.epoch \in Epochs
        BY <3>1, <1>1 DEF SendingOK, Below
      <4> HIDE DEF after
      <4> QED BY <4>1, <1>a
    <3>2. CASE p = Sent(e, n, d)
      <4>1. p.pn = n /\ p.epoch = e
        BY <3>2 DEF Sent
      <4> HIDE DEF after, n
      <4> QED BY <4>1, <1>b
    <3> QED BY <3>1, <3>2, <1>2
  <2> QED BY <2>1, <2>2 DEF Below
<1>11. SendingOK(after, r)
  <2> HIDE DEF after
  <2> QED BY <1>5, <1>7, <1>8, <1>9 DEF SendingOK
<1> QED BY <1>5, <1>10, <1>11

(* No entry of a queue is due for another transmission.                    *)
NoneOverdue(q) == \A i \in DOMAIN q : ~Expired(q[i])

LEMMA VisitType ==
  ASSUME NEW st \in Sendings, NEW p \in QueueEntry, NEW failed
  PROVE  Visit(st, p, failed) \in Sendings
<1>1. p.epoch \in Epochs /\ p.data \in Data
  BY DEF QueueEntry
<1>2. CASE Expired(p)
  BY <1>1, <1>2, TransmitType DEF Visit
<1>3. CASE ~Expired(p)
  <2>1. Visit(st, p, failed) = [st EXCEPT !.queue = Append(@, p)]
    BY <1>3 DEF Visit
  <2>2. st.queue \in Seq(QueueEntry)
    BY DEF Sendings
  <2>3. Append(st.queue, p) \in Seq(QueueEntry)
    BY <2>2, AppendProperties
  <2> QED BY <2>1, <2>3 DEF Sendings
<1> QED BY <1>2, <1>3

(* The pass comes to an entry whose payload it has not met before.         *)
LEMMA VisitKeeps ==
  ASSUME srtt \in Nat, rttvar \in Nat,
         NEW st, NEW r \in Nat, SendingOK(st, r), NoneOverdue(st.queue),
         NEW p \in QueueEntry, p.data \notin DataOf(st.queue), BelowIn(st, p),
         NEW failed, p.data \in failed => Expired(p)
  PROVE  /\ SendingOK(Visit(st, p, failed), r)
         /\ \A f \in Epochs : st.nextPn[f] <= Visit(st, p, failed).nextPn[f]
         /\ DataOf(Visit(st, p, failed).queue) =
              Joined(DataOf(st.queue), p.data, failed)
         /\ NoneOverdue(Visit(st, p, failed).queue)
<1> DEFINE after == Visit(st, p, failed)
<1>1. p.epoch \in Epochs /\ p.data \in Data
  BY DEF QueueEntry
<1>2. st \in Sendings /\ st.queue \in Seq(QueueEntry) /\ st.nextPn \in [Epochs -> Nat]
  BY DEF SendingOK, Sendings
<1>3. CASE Expired(p)
  <2>1. after = Transmit(st, p.epoch, p.data, failed)
    BY <1>3 DEF Visit
  <2>2. NoneOverdue(after.queue)
    <3>1. CASE p.data \in failed
      <4>1. after.queue = st.queue
        BY <2>1, <3>1 DEF Transmit
      <4> QED BY <4>1
    <3>2. CASE p.data \notin failed
      <4> DEFINE entry == Entry(p.epoch, st.nextPn[p.epoch], p.data, 0)
      <4>1. after.queue = <<entry>> \o st.queue
        BY <2>1, <3>2 DEF Transmit
      <4>2. entry \in QueueEntry /\ entry.age = 0
        BY <1>1, <1>2, Constants DEF Entry, QueueEntry
      <4>3. ~Expired(entry)
        BY <4>2, TimeoutPositive DEF Expired
      <4>4. /\ DOMAIN after.queue = 1..Len(st.queue) + 1 /\ after.queue[1] = entry
            /\ \A j \in 2..Len(st.queue) + 1 :
                 j - 1 \in 1..Len(st.queue) /\ after.queue[j] = st.queue[j - 1]
        <5> HIDE DEF after, entry
        <5> QED BY <4>1, <4>2, <1>2, Pushed
      <4>5. Len(st.queue) \in Nat /\ DOMAIN st.queue = 1..Len(st.queue)
        BY <1>2, LenProperties
      <4> HIDE DEF after, entry
      <4>6. ASSUME NEW i \in DOMAIN after.queue PROVE ~Expired(after.queue[i])
        <5>1. CASE i = 1
          BY <5>1, <4>3, <4>4
        <5>2. CASE i # 1
          <6>1. i \in 2..Len(st.queue) + 1
            BY <5>2, <4>4, <4>5
          <6>2. i - 1 \in DOMAIN st.queue /\ after.queue[i] = st.queue[i - 1]
            BY <6>1, <4>4, <4>5
          <6> QED BY <6>2 DEF NoneOverdue
        <5> QED BY <5>1, <5>2
      <4> QED BY <4>6 DEF NoneOverdue
    <3> QED BY <3>1, <3>2
  <2> DEFINE e == p.epoch
             d == p.data
             next == Transmit(st, e, d, failed)
  <2>3. e \in Epochs /\ d \in Data \cup {Bare} /\ d \in Data /\ d \notin DataOf(st.queue)
    BY <1>1
  <2> HIDE DEF e, d
  <2>4. /\ SendingOK(next, r)
        /\ \A f \in Epochs : st.nextPn[f] <= next.nextPn[f]
        /\ DataOf(next.queue) = Joined(DataOf(st.queue), d, failed)
    BY <2>3, TransmitKeeps
  <2> HIDE DEF next
  <2>5. after = next
    BY <2>1 DEF next, e, d
  <2> QED BY <2>2, <2>4, <2>5 DEF d
<1>4. CASE ~Expired(p)
  <2>1. after = [st EXCEPT !.queue = Append(@, p)]
    BY <1>4 DEF Visit
  <2>2. /\ after.queue = Append(st.queue, p) /\ after.nextPn = st.nextPn
        /\ after.times = st.times /\ after.net = st.net
    BY <2>1, <1>2 DEF Sendings
  <2>3. after \in Sendings
    BY <1>2, VisitType
  <2> HIDE DEF after
  <2>4. OneEach(after.queue) /\ DataOf(after.queue) = DataOf(st.queue) \cup {p.data}
    BY <2>2, <1>2, AppendedOne DEF SendingOK
  <2>5. p.data \notin failed
    BY <1>4
  <2>6. /\ Len(st.queue) \in Nat /\ DOMAIN st.queue = 1..Len(st.queue)
        /\ DOMAIN after.queue = 1..Len(st.queue) + 1
        /\ \A i \in 1..Len(st.queue) : after.queue[i] = st.queue[i]
        /\ after.queue[Len(st.queue) + 1] = p
    BY <2>2, <1>2, LenProperties, AppendProperties
  <2>7. \A i \in DOMAIN after.queue :
          (i \in DOMAIN st.queue /\ after.queue[i] = st.queue[i]) \/ after.queue[i] = p
    BY <2>6
  <2>8. NoneOverdue(after.queue)
    BY <2>7, <1>4 DEF NoneOverdue
  <2>9. Below(after) /\ Counted(after, r)
    BY <2>2, <2>7 DEF SendingOK, Below, BelowIn, Counted
  <2>10. \A f \in Epochs : st.nextPn[f] <= after.nextPn[f]
    BY <2>2, <1>2
  <2>11. SendingOK(after, r)
    BY <2>3, <2>4, <2>9 DEF SendingOK
  <2> QED BY <2>4, <2>5, <2>8, <2>10, <2>11 DEF after, Joined
<1> QED BY <1>3, <1>4

(* A whole pass: by induction over the entries it comes to.                *)
LEMMA PassKeeps ==
  ASSUME srtt \in Nat, rttvar \in Nat, NEW r \in Nat, SendingOK(Sending, r), NEW failed,
         \A i \in DOMAIN queue : queue[i].data \in failed => Expired(queue[i])
  PROVE  /\ SendingOK(Pass(failed), r)
         /\ DataOf(Pass(failed).queue) = DataOf(queue) \ failed
         /\ NoneOverdue(Pass(failed).queue)
<1> DEFINE n == Len(queue)
           start == [Sending EXCEPT !.queue = <<>>]
           Body(a) == [i \in 0..n |-> IF i = 0 THEN start
                                      ELSE Visit(a[i - 1], queue[i], failed)]
           w == CHOOSE a : a = Body(a)
           Upto(i) == {queue[j].data : j \in 1..i} \ failed
           Fine(i) == /\ SendingOK(w[i], r)
                      /\ \A e \in Epochs : nextPn[e] <= w[i].nextPn[e]
                      /\ DataOf(w[i].queue) = Upto(i)
                      /\ NoneOverdue(w[i].queue)
           T == {i \in Nat : i <= n => Fine(i)}
<1>1. Pass(failed) = w[n]
  BY DEF Pass
<1>2. /\ queue \in Seq(QueueEntry) /\ OneEach(queue)
      /\ nextPn \in [Epochs -> Nat]
      /\ times \in [Spaces -> Nat]
      /\ net \in SUBSET [epoch : Epochs, pn : Nat, data : Data \cup {Bare}]
      /\ \A i \in DOMAIN queue : BelowIn(Sending, queue[i])
      /\ \A p \in net : BelowIn(Sending, p)
      /\ Counted(Sending, r)
  BY DEF SendingOK, Sendings, Sending, Below
<1>3. n \in Nat /\ DOMAIN queue = 1..n /\ \A i \in 1..n : queue[i] \in QueueEntry
  BY <1>2, LenProperties, ElementOfSeq
<1>4. start = [queue |-> <<>>, nextPn |-> nextPn, times |-> times, net |-> net]
  BY DEF Sending
<1>5. start \in Sendings
  BY <1>2, <1>4, EmptySeq DEF Sendings
<1>6. w = Body(w)
  <2> DEFINE step == [i \in 1..n |-> [st \in Sendings |-> Visit(st, queue[i], failed)]]
  <2>1. step \in [1..n -> [Sendings -> Sendings]]
    <3>1. ASSUME NEW i \in 1..n, NEW st \in Sendings
          PROVE  Visit(st, queue[i], failed) \in Sendings
      BY <1>3, VisitType
    <3> QED BY <3>1
  <2> HIDE DEF start
  <2>2. PICK g \in [0..n -> Sendings] :
          g[0] = start /\ \A i \in 1..n : g[i] = step[i][g[i - 1]]
    <3> HIDE DEF step, n
    <3> QED BY <1>3, <1>5, <2>1, Recursion
  <2>3. \A i \in 0..n : g[i] = Body(g)[i]
    <3> SUFFICES ASSUME NEW i \in 0..n PROVE g[i] = Body(g)[i]
      OBVIOUS
    <3>1. CASE i = 0
      BY <3>1, <2>2
    <3>2. CASE i # 0
      <4>1. i \in 1..n /\ i - 1 \in 0..n
        BY <3>2, <1>3
      <4>2. g[i - 1] \in Sendings
        BY <4>1
      <4>3. g[i] = Visit(g[i - 1], queue[i], failed)
        BY <4>1, <4>2, <2>2
      <4> QED BY <4>3, <3>2
    <3> QED BY <3>1, <3>2
  <2>4. g = Body(g)
    BY <2>3
  <2> HIDE DEF Body
  <2> QED BY <2>4
<1>7. w[0] = start /\ \A i \in 1..n : w[i] = Visit(w[i - 1], queue[i], failed)
  <2>1. 0 \in 0..n /\ \A i \in 1..n : i \in 0..n /\ i # 0
    BY <1>3
  <2> HIDE DEF w, start, n
  <2> QED BY <1>6, <2>1
<1> HIDE DEF w
<1>8. 0 \in T
  <2>1. start.queue = <<>> /\ start.nextPn = nextPn /\ start.times = times /\ start.net = net
    BY <1>4
  <2> HIDE DEF start
  <2>2. OneEach(start.queue) /\ NoneOverdue(start.queue) /\ DataOf(start.queue) = {}
    BY <2>1 DEF OneEach, NoneOverdue, DataOf
  <2>3. Counted(start, r)
    BY <2>1, <1>2 DEF Counted, Sending
  <2>4. Below(start)
    BY <2>1, <1>2 DEF Below, BelowIn, Sending
  <2>5. SendingOK(start, r)
    BY <1>5, <2>2, <2>3, <2>4 DEF SendingOK
  <2>6. \A e \in Epochs : nextPn[e] <= start.nextPn[e]
    BY <2>1, <1>2
  <2>7. Upto(0) = {}
    OBVIOUS
  <2> QED BY <1>7, <2>2, <2>5, <2>6, <2>7
<1>9. ASSUME NEW i \in T PROVE i + 1 \in T
  <2>0. SUFFICES ASSUME i \in Nat, i <= n => Fine(i), i + 1 <= n PROVE Fine(i + 1)
    <3> HIDE DEF Fine
    <3> QED OBVIOUS
  <2> DEFINE p == queue[i + 1]
             st == w[i]
  <2>1. i <= n /\ i + 1 \in 1..n /\ (i + 1) - 1 = i /\ Fine(i)
    <3> HIDE DEF Fine
    <3> QED BY <2>0, <1>3
  <2>2. w[i + 1] = Visit(st, p, failed) /\ p \in QueueEntry
    <3> HIDE DEF Fine
    <3> QED BY <2>1, <1>3, <1>7
  <2>3. /\ SendingOK(st, r) /\ NoneOverdue(st.queue)
        /\ DataOf(st.queue) = Upto(i)
        /\ \A e \in Epochs : nextPn[e] <= st.nextPn[e]
    BY <2>1
  <2>4. st.nextPn \in [Epochs -> Nat] /\ p.epoch \in Epochs /\ p.pn \in Nat
    BY <2>2, <2>3 DEF SendingOK, Sendings, QueueEntry
  <2>5. p.data \notin Upto(i)
    <3>1. SUFFICES ASSUME NEW j \in 1..i, p.data = queue[j].data PROVE FALSE
      OBVIOUS
    <3>2. j \in DOMAIN queue /\ i + 1 \in DOMAIN queue /\ j # i + 1
      BY <2>0, <2>1, <1>3
    <3> QED BY <3>1, <3>2, <1>2 DEF OneEach
  <2>6. BelowIn(st, p)
    <3>1. /\ p.pn < nextPn[p.epoch] \/ p.pn < MaxPn
          /\ nextPn[p.epoch] \in Nat
      BY <2>1, <2>4, <1>2, <1>3 DEF BelowIn, Sending
    <3>2. nextPn[p.epoch] <= st.nextPn[p.epoch] /\ st.nextPn[p.epoch] \in Nat
      BY <2>3, <2>4
    <3> HIDE DEF p, st
    <3> QED BY <3>1, <3>2, <2>4, Constants DEF BelowIn
  <2>7. p.data \in failed => Expired(p)
    BY <2>1, <1>3
  <2>8. /\ SendingOK(w[i + 1], r) /\ NoneOverdue(w[i + 1].queue)
        /\ \A e \in Epochs : st.nextPn[e] <= w[i + 1].nextPn[e]
        /\ DataOf(w[i + 1].queue) = Joined(Upto(i), p.data, failed)
    <3>1. p.data \notin DataOf(st.queue)
      BY <2>3, <2>5
    <3> HIDE DEF p, st, Upto
    <3> QED BY <3>1, <2>2, <2>3, <2>6, <2>7, VisitKeeps
  <2>9. Joined(Upto(i), p.data, failed) = Upto(i + 1)
    <3>1. \A j \in 1..i + 1 : j \in 1..i \/ j = i + 1
      BY <2>0
    <3>2. 1..i \subseteq 1..i + 1 /\ i + 1 \in 1..i + 1
      BY <2>0
    <3>3. {queue[j].data : j \in 1..i + 1} = {queue[j].data : j \in 1..i} \cup {p.data}
      BY <3>1, <3>2
    <3> HIDE DEF p
    <3> QED BY <3>3 DEF Joined
  <2>10. \A e \in Epochs : nextPn[e] <= w[i + 1].nextPn[e]
    <3>1. w[i + 1].nextPn \in [Epochs -> Nat]
      BY <2>8 DEF SendingOK, Sendings
    <3>2. ASSUME NEW e \in Epochs PROVE nextPn[e] <= w[i + 1].nextPn[e]
      <4>1. nextPn[e] \in Nat /\ st.nextPn[e] \in Nat /\ w[i + 1].nextPn[e] \in Nat
        BY <3>1, <2>4, <1>2
      <4>2. nextPn[e] <= st.nextPn[e] /\ st.nextPn[e] <= w[i + 1].nextPn[e]
        BY <2>3, <2>8
      <4> HIDE DEF st
      <4> QED BY <4>1, <4>2
    <3> QED BY <3>2
  <2> HIDE DEF Upto, p
  <2> QED BY <2>8, <2>9, <2>10
<1>10. T = Nat
  <2>1. T \in SUBSET Nat
    OBVIOUS
  <2> HIDE DEF T
  <2> QED BY <1>8, <1>9, <2>1, SetInduction
<1>11. Fine(n)
  <2> HIDE DEF Fine
  <2> QED BY <1>3, <1>10
<1>12. Upto(n) = DataOf(queue) \ failed
  BY <1>3 DEF DataOf
<1> HIDE DEF Upto
<1> QED BY <1>1, <1>11, <1>12

-----------------------------------------------------------------------------
(* The state after packets have left.                                      *)
LEMMA BecomesSending ==
  ASSUME NEW st \in Sendings, NEW failed, Becomes(st, failed)
  PROVE  Sending' = st
<1>1. st = [queue |-> st.queue, nextPn |-> st.nextPn, times |-> st.times, net |-> st.net]
  BY DEF Sendings
<1>2. Sending' = [queue |-> queue', nextPn |-> nextPn', times |-> times', net |-> net']
  BY DEF Sending
<1>3. queue' = st.queue /\ nextPn' = st.nextPn /\ times' = st.times /\ net' = st.net
  BY DEF Becomes
<1> QED BY <1>1, <1>2, <1>3

LEMMA SendingParts ==
  ASSUME NEW r, SendingOK(Sending, r)
  PROVE  /\ queue \in Seq(QueueEntry) /\ OneEach(queue)
         /\ nextPn \in [Epochs -> Nat]
         /\ times \in [Spaces -> Nat]
         /\ net \in SUBSET [epoch : Epochs, pn : Nat, data : Data \cup {Bare}]
         /\ \A i \in DOMAIN queue : BelowIn(Sending, queue[i])
         /\ \A p \in net : BelowIn(Sending, p)
         /\ Sending \in Sendings
  BY DEF SendingOK, Sendings, Sending, Below

LEMMA RecoveryInit == Init => RecoveryInv
<1> SUFFICES ASSUME Init PROVE RecoveryInv
  OBVIOUS
<1>1. /\ queue = <<>> /\ net = {} /\ arrived = {} /\ acked = {}
      /\ losses = 0 /\ submitted = {} /\ unqueued = {} /\ srtt = 0 /\ rttvar = 0
      /\ phase = "handshake" /\ clock = 0 /\ retry_count = 0
  BY DEF Init
<1>2. nextPn \in [Epochs -> Nat]
  BY DEF Init
<1>3. times \in [Spaces -> Nat]
  BY DEF Init, Spaces
<1>4. Sending \in Sendings
  BY <1>1, <1>2, <1>3, EmptySeq DEF Sending, Sendings
<1>5. Sending.queue = <<>> /\ Sending.net = {} /\ Sending.times = times
  BY <1>1 DEF Sending
<1>6. OneEach(Sending.queue) /\ Below(Sending)
  BY <1>5 DEF OneEach, Below
<1>7. Counted(Sending, retry_count)
  <2>1. ASSUME NEW e \in Epochs, NEW n \in 0..MaxPn
        PROVE  /\ Sending.times[<<e, n>>] <= Extra(e, retry_count) + 1
               /\ Sending.times[<<e, n>>] <= Extra(e, retry_count)
    <3>1. <<e, n>> \in Epochs \X (0..MaxPn)
      OBVIOUS
    <3>2. times[<<e, n>>] = 0
      BY <3>1 DEF Init
    <3>3. Sending.times[<<e, n>>] = 0 /\ Extra(e, retry_count) = 0
      BY <3>2, <1>1, <1>5 DEF Extra
    <3> QED BY <3>3
  <2> QED BY <2>1 DEF Counted
<1>8. QueueExact
  BY <1>1 DEF DataOf, QueueExact
<1>9. \A e \in Epochs : nextPn[e] <= MaxPn
  BY Constants DEF Init
<1>10. PhaseTypes /\ Histories
  BY <1>1, Constants DEF PhaseTypes, Histories
<1> QED BY <1>1, <1>4, <1>6, <1>7, <1>8, <1>9, <1>10 DEF RecoveryInv, SendingOK

(* A payload leaves for the first time, from whatever the counters are.    *)
LEMMA LeavesKeeps ==
  ASSUME Histories, DataOf(queue) = submitted \ unqueued,
         NEW st, NEW r \in Nat, SendingOK(st, r), st.queue = queue,
         \A e \in Epochs : st.nextPn[e] <= MaxPn,
         NEW d \in Data, Leaves(st, d), UNCHANGED <<losses, arrived, acked>>
  PROVE  /\ SendingOK(Sending', r) /\ \A e \in Epochs : nextPn'[e] <= MaxPn
         /\ DataOf(queue') = submitted' \ unqueued'
         /\ Histories'
<1> DEFINE e == EpochOf[d]
<1>1. e \in Epochs /\ d \in Data \cup {Bare} /\ d \notin submitted /\ st.nextPn[e] < MaxPn
  BY Constants DEF Leaves
<1>2. PICK failed \in MemoryOutcomes({d}) :
        Becomes(Transmit(st, e, d, failed), failed)
  BY DEF Leaves
<1> DEFINE next == Transmit(st, e, d, failed)
<1>3. /\ failed \in SUBSET {d} /\ submitted' = submitted \cup {d}
      /\ unqueued' = unqueued \cup failed
  BY <1>2 DEF Leaves, MemoryOutcomes, Becomes
<1>4. unqueued \subseteq submitted /\ submitted \subseteq Data
  BY DEF Histories
<1>5. SendingOK(next, r) /\ DataOf(next.queue) = Joined(DataOf(queue), d, failed)
  <2> HIDE DEF e
  <2>1. d \notin DataOf(st.queue)
    BY <1>1
  <2>2. /\ SendingOK(Transmit(st, e, d, failed), r)
        /\ DataOf(Transmit(st, e, d, failed).queue) = Joined(DataOf(st.queue), d, failed)
    BY <1>1, <2>1, TransmitKeeps
  <2> HIDE DEF next
  <2>3. next = Transmit(st, e, d, failed)
    BY DEF next
  <2> QED BY <2>2, <2>3
<1>6. next.nextPn = [st.nextPn EXCEPT ![e] = @ + 1]
  BY DEF Transmit
<1> HIDE DEF next
<1>7. next \in Sendings
  BY <1>5 DEF SendingOK
<1>8. Sending' = next /\ queue' = next.queue /\ nextPn' = next.nextPn
  BY <1>2, <1>7, BecomesSending DEF Becomes, next
<1>9. \A f \in Epochs : nextPn'[f] <= MaxPn
  <2>1. st.nextPn \in [Epochs -> Nat]
    BY DEF SendingOK, Sendings
  <2> HIDE DEF e
  <2> QED BY <1>1, <1>6, <1>8, <2>1, Constants
<1>10. DataOf(queue') = submitted' \ unqueued'
  <2>1. DataOf(queue') = (submitted \ unqueued) \cup ({d} \ failed)
    BY <1>5, <1>8 DEF Joined
  <2> QED BY <2>1, <1>1, <1>3, <1>4
<1>11. SendingOK(Sending', r)
  BY <1>5, <1>8
<1>12. Histories'
  BY <1>3, <1>4 DEF Histories
<1> QED BY <1>9, <1>10, <1>11, <1>12

LEMMA SendKeeps ==
  ASSUME RecoveryInv, NEW d \in Data, SendHello(d) \/ SendData(d)
  PROVE  RecoveryInv'
<1>1. /\ Live /\ Leaves(Sending, d)
      /\ UNCHANGED <<phase, clock, retry_count, srtt, rttvar, losses, arrived, acked>>
  BY DEF SendHello, SendData, Live, phaseVars
<1>2. /\ Histories /\ DataOf(queue) = submitted \ unqueued /\ SendingOK(Sending, retry_count)
      /\ Sending.queue = queue /\ \A e \in Epochs : Sending.nextPn[e] <= MaxPn
  BY <1>1 DEF RecoveryInv, QueueExact, Sending
<1>3. retry_count \in Nat
  BY Constants DEF RecoveryInv, PhaseTypes
<1>4. /\ SendingOK(Sending', retry_count) /\ \A e \in Epochs : nextPn'[e] <= MaxPn
      /\ DataOf(queue') = submitted' \ unqueued' /\ Histories'
  <2> DEFINE st == Sending
             r == retry_count
  <2>1. /\ st.queue = queue /\ \A e \in Epochs : st.nextPn[e] <= MaxPn
        /\ SendingOK(st, r) /\ r \in Nat /\ Leaves(st, d)
    BY <1>1, <1>2, <1>3
  <2>2. UNCHANGED <<losses, arrived, acked>>
    BY <1>1
  <2>3. SendingOK(Sending', r) /\ (\A e \in Epochs : nextPn'[e] <= MaxPn)
        /\ DataOf(queue') = submitted' \ unqueued' /\ Histories'
    <3> HIDE DEF st, r
    <3> QED BY <1>2, <2>1, <2>2, LeavesKeeps
  <2> QED BY <2>3
<1>5. SendingOK(Sending', retry_count') /\ QueueExact' /\ PhaseTypes'
  BY <1>1, <1>4 DEF QueueExact, RecoveryInv, PhaseTypes
<1> QED BY <1>1, <1>4, <1>5 DEF RecoveryInv

(* A bare ACK takes a number and leaves the queue alone.                   *)
LEMMA AcknowledgeKeeps ==
  ASSUME NEW st, NEW r \in Nat, SendingOK(st, r), NEW e \in Epochs,
         DataOf(st.queue) \subseteq Data
  PROVE  /\ SendingOK(Acknowledge(st, e), r)
         /\ Acknowledge(st, e).queue = st.queue
         /\ Acknowledge(st, e).nextPn = [st.nextPn EXCEPT ![e] = @ + 1]
<1>1. Bare \notin DataOf(st.queue)
  BY Constants
<1>2. SendingOK(Transmit(st, e, Bare, {Bare}), r)
  BY <1>1, TransmitKeeps
<1>3. /\ Transmit(st, e, Bare, {Bare}).queue = st.queue
      /\ Transmit(st, e, Bare, {Bare}).nextPn = [st.nextPn EXCEPT ![e] = @ + 1]
  BY DEF Transmit
<1> QED BY <1>2, <1>3 DEF Acknowledge

LEMMA SendBareAckKeeps ==
  ASSUME RecoveryInv, NEW e \in Epochs, SendBareAck(e)
  PROVE  RecoveryInv'
<1> DEFINE st == Acknowledge(Sending, e)
<1>1. /\ nextPn[e] < MaxPn /\ Live /\ Becomes(st, {})
      /\ UNCHANGED <<phase, clock, retry_count, srtt, rttvar, losses, arrived, acked,
                     submitted>>
  BY DEF SendBareAck, Live, Looping, phaseVars
<1>2. /\ SendingOK(Sending, retry_count) /\ retry_count \in Nat
      /\ DataOf(queue) = submitted \ unqueued /\ DataOf(Sending.queue) \subseteq Data
      /\ Sending.queue = queue /\ Sending.nextPn = nextPn
  BY <1>1, Constants DEF RecoveryInv, QueueExact, PhaseTypes, Histories, Sending
<1>3. /\ SendingOK(st, retry_count) /\ st.queue = queue
      /\ st.nextPn = [nextPn EXCEPT ![e] = @ + 1]
  BY <1>2, AcknowledgeKeeps
<1> HIDE DEF st
<1>4. /\ Sending' = st /\ queue' = queue /\ nextPn' = st.nextPn /\ unqueued' = unqueued
  BY <1>1, <1>3, BecomesSending DEF Becomes, SendingOK
<1>5. \A f \in Epochs : nextPn'[f] <= MaxPn
  <2>1. nextPn \in [Epochs -> Nat] /\ \A f \in Epochs : nextPn[f] <= MaxPn
    BY <1>2, SendingParts DEF RecoveryInv
  <2> QED BY <1>1, <1>3, <1>4, <2>1, Constants
<1>6. SendingOK(Sending', retry_count') /\ QueueExact' /\ PhaseTypes' /\ Histories'
  BY <1>1, <1>2, <1>3, <1>4 DEF RecoveryInv, QueueExact, PhaseTypes, Histories
<1> QED BY <1>1, <1>5, <1>6 DEF RecoveryInv

LEMMA FinishKeeps ==
  ASSUME RecoveryInv, NEW d \in Data, Finish(d)
  PROVE  RecoveryInv'
<1>1. /\ d \notin submitted /\ nextPn[2] + 1 < MaxPn /\ submitted' = submitted \cup {d}
      /\ phase = "handshake" /\ phase' = "open" /\ clock' = 0
      /\ UNCHANGED <<retry_count, srtt, rttvar, losses, arrived, acked>>
  BY DEF Finish, Looping
<1>2. PICK failed \in MemoryOutcomes({d}) :
        Becomes(Acknowledge(Transmit(Sending, 2, d, failed), 2), failed)
  BY DEF Finish
<1> DEFINE st == Sending
           r == retry_count
           one == Transmit(st, 2, d, failed)
           two == Acknowledge(one, 2)
<1>3. /\ SendingOK(st, r) /\ r \in Nat /\ 2 \in Epochs /\ d \in Data \cup {Bare}
      /\ DataOf(queue) = submitted \ unqueued /\ d \notin DataOf(st.queue)
      /\ st.queue = queue /\ st.nextPn = nextPn
      /\ unqueued \subseteq submitted /\ submitted \subseteq Data
  BY <1>1, Constants
     DEF RecoveryInv, QueueExact, Live, PhaseTypes, Histories, Sending, Epochs
<1>4. failed \in SUBSET {d}
  BY <1>2 DEF MemoryOutcomes
<1>5. SendingOK(one, r) /\ DataOf(one.queue) = Joined(DataOf(queue), d, failed)
  <2> DEFINE e == 2
  <2>1. /\ SendingOK(Transmit(st, e, d, failed), r)
        /\ DataOf(Transmit(st, e, d, failed).queue) = Joined(DataOf(st.queue), d, failed)
    <3>1. SendingOK(st, r) /\ r \in Nat /\ e \in Epochs /\ d \in Data \cup {Bare}
          /\ d \notin DataOf(st.queue)
      BY <1>3
    <3> HIDE DEF st, r, e
    <3> QED BY <3>1, TransmitKeeps
  <2>2. DataOf(st.queue) = DataOf(queue)
    BY <1>3
  <2> HIDE DEF st
  <2> QED BY <2>1, <2>2
<1>6. one.nextPn = [nextPn EXCEPT ![2] = @ + 1]
  BY <1>3 DEF Transmit
<1>7. DataOf(one.queue) \subseteq Data
  BY <1>3, <1>5 DEF Joined
<1>8. /\ SendingOK(two, r) /\ two.queue = one.queue
      /\ two.nextPn = [one.nextPn EXCEPT ![2] = @ + 1]
  <2> HIDE DEF one, r
  <2> QED BY <1>3, <1>5, <1>7, AcknowledgeKeeps
<1>9. Becomes(two, failed)
  BY <1>2
<1> HIDE DEF one, two, st
<1>10. /\ Sending' = two /\ queue' = one.queue /\ nextPn' = two.nextPn
       /\ unqueued' = unqueued \cup failed
  BY <1>8, <1>9, BecomesSending DEF Becomes, SendingOK
<1>11. \A f \in Epochs : nextPn'[f] <= MaxPn
  <2>1. nextPn \in [Epochs -> Nat] /\ \A f \in Epochs : nextPn[f] <= MaxPn
    BY <1>3, SendingParts DEF RecoveryInv, st
  <2>2. nextPn' = [nextPn EXCEPT ![2] = @ + 2]
    BY <1>6, <1>8, <1>10, <2>1, <1>3
  <2> QED BY <1>1, <1>3, <2>1, <2>2, Constants
<1>12. DataOf(queue') = submitted' \ unqueued'
  <2>1. DataOf(queue') = (submitted \ unqueued) \cup ({d} \ failed)
    BY <1>3, <1>5, <1>10 DEF Joined
  <2> QED BY <2>1, <1>1, <1>3, <1>4, <1>10
<1>13. unqueued' \subseteq submitted' /\ submitted' \subseteq Data
  BY <1>1, <1>3, <1>4, <1>10
<1>14. SendingOK(Sending', retry_count') /\ QueueExact'
  BY <1>1, <1>8, <1>10, <1>12 DEF QueueExact
<1>15. PhaseTypes' /\ Histories'
  BY <1>1, <1>13, Constants DEF RecoveryInv, PhaseTypes, Histories
<1> QED BY <1>1, <1>11, <1>14, <1>15 DEF RecoveryInv

(* An end leaves no queue.                                                 *)
LEMMA ClosesKeeps ==
  ASSUME RecoveryInv, NEW end \in {"failed", "closed"}, Closes(end),
         retry_count' \in {retry_count, retry_count + 1}, retry_count' \in 0..MaxRetries
  PROVE  RecoveryInv'
<1>1. /\ phase' = end /\ clock' = 0 /\ queue' = <<>>
      /\ UNCHANGED <<nextPn, srtt, rttvar, times, net, losses, arrived, acked, submitted,
                     unqueued>>
  BY DEF Closes
<1>2. SendingOK(Sending, retry_count) /\ retry_count \in Nat
  BY Constants DEF RecoveryInv, PhaseTypes
<1> DEFINE st == Sending'
<1>3. st = [queue |-> <<>>, nextPn |-> nextPn, times |-> times, net |-> net]
  BY <1>1 DEF Sending
<1>4. st \in Sendings
  BY <1>2, <1>3, EmptySeq, SendingParts DEF Sendings
<1>5. /\ st.queue = <<>> /\ st.nextPn = Sending.nextPn /\ st.times = Sending.times
      /\ st.net = Sending.net
  BY <1>3 DEF Sending
<1> HIDE DEF st
<1>6. OneEach(st.queue) /\ Below(st)
  BY <1>2, <1>5 DEF OneEach, SendingOK, Below, BelowIn
<1>7. Counted(st, retry_count')
  <2> SUFFICES ASSUME NEW e \in Epochs, NEW n \in 0..MaxPn
               PROVE  /\ st.times[<<e, n>>] <= Extra(e, retry_count') + 1
                      /\ n >= st.nextPn[e] => st.times[<<e, n>>] <= Extra(e, retry_count')
    BY DEF Counted
  <2>1. /\ st.times[<<e, n>>] <= Extra(e, retry_count) + 1
        /\ n >= st.nextPn[e] => st.times[<<e, n>>] <= Extra(e, retry_count)
    BY <1>2, <1>5 DEF SendingOK, Counted
  <2>2. /\ Extra(e, retry_count) \in Nat /\ Extra(e, retry_count') \in Nat
        /\ Extra(e, retry_count) <= Extra(e, retry_count')
    BY <1>2 DEF Extra
  <2>3. st.times[<<e, n>>] \in Nat
    BY <1>4 DEF Sendings, Spaces
  <2> QED BY <2>1, <2>2, <2>3
<1>8. SendingOK(Sending', retry_count')
  BY <1>4, <1>6, <1>7 DEF SendingOK, st
<1>9. QueueExact' /\ PhaseTypes'
  BY <1>1, Constants DEF QueueExact, Live, PhaseTypes
<1> QED BY <1>1, <1>8, <1>9 DEF RecoveryInv, Histories

(* A Retry: every number may be used once more, and the counter of the     *)
(* Initial space starts again.                                             *)
LEMMA RestartedOK ==
  ASSUME NEW r \in Nat, SendingOK(Sending, r), \A e \in Epochs : nextPn[e] <= MaxPn
  PROVE  /\ SendingOK(Restarted, r + 1) /\ Restarted.queue = queue
         /\ \A e \in Epochs : Restarted.nextPn[e] <= MaxPn
<1> DEFINE st == Restarted
<1>1. /\ queue \in Seq(QueueEntry) /\ OneEach(queue) /\ nextPn \in [Epochs -> Nat]
      /\ times \in [Spaces -> Nat]
      /\ net \in SUBSET [epoch : Epochs, pn : Nat, data : Data \cup {Bare}]
      /\ \A i \in DOMAIN queue : BelowIn(Sending, queue[i])
      /\ \A p \in net : BelowIn(Sending, p)
  BY SendingParts
<1>2. st = [queue |-> queue, nextPn |-> [nextPn EXCEPT ![0] = 1], times |-> times,
            net |-> net]
  BY DEF Restarted, Sending
<1>3. [nextPn EXCEPT ![0] = 1] \in [Epochs -> Nat] /\ 0 \in Epochs
  BY <1>1 DEF Epochs
<1>4. st \in Sendings
  BY <1>1, <1>2, <1>3 DEF Sendings
<1>5. /\ st.queue = queue /\ st.times = times /\ st.net = net
      /\ st.nextPn = [nextPn EXCEPT ![0] = 1]
  BY <1>2
<1> HIDE DEF st
<1>6. /\ \A e \in Epochs : st.nextPn[e] <= MaxPn
      /\ \A e \in Epochs \ {0} : st.nextPn[e] = nextPn[e]
  BY <1>1, <1>5, Constants
<1>7. ASSUME NEW p, p.epoch \in Epochs, p.pn \in Nat, BelowIn(Sending, p)
      PROVE  BelowIn(st, p)
  <2>1. nextPn[p.epoch] \in Nat /\ nextPn[p.epoch] <= MaxPn
    BY <1>1, <1>7
  <2>2. p.pn < nextPn[p.epoch] \/ p.pn < MaxPn
    BY <1>7 DEF BelowIn, Sending
  <2> QED BY <1>7, <2>1, <2>2, Constants DEF BelowIn
<1>8. Below(st)
  <2>1. ASSUME NEW i \in DOMAIN queue PROVE BelowIn(st, queue[i])
    <3>1. queue[i] \in QueueEntry
      BY <1>1
    <3> QED BY <3>1, <1>1, <1>7 DEF QueueEntry
  <2>2. ASSUME NEW p \in net PROVE BelowIn(st, p)
    BY <1>1, <1>7
  <2> QED BY <2>1, <2>2, <1>5 DEF Below
<1>9. Counted(st, r + 1)
  <2> SUFFICES ASSUME NEW e \in Epochs, NEW n \in 0..MaxPn
               PROVE  /\ st.times[<<e, n>>] <= Extra(e, r + 1) + 1
                      /\ n >= st.nextPn[e] => st.times[<<e, n>>] <= Extra(e, r + 1)
    BY DEF Counted
  <2>1. /\ times[<<e, n>>] <= Extra(e, r) + 1
        /\ n >= nextPn[e] => times[<<e, n>>] <= Extra(e, r)
    BY DEF SendingOK, Counted, Sending
  <2>2. times[<<e, n>>] \in Nat
    BY <1>1 DEF Spaces
  <2>3. CASE e = 0
    <3>1. Extra(e, r + 1) = r + 1 /\ Extra(e, r) = r
      BY <2>3 DEF Extra
    <3> QED BY <2>1, <2>2, <3>1, <1>5
  <2>4. CASE e # 0
    <3>1. Extra(e, r + 1) = 0 /\ Extra(e, r) = 0 /\ st.nextPn[e] = nextPn[e]
      BY <2>4, <1>6 DEF Extra
    <3> QED BY <2>1, <2>2, <3>1, <1>5
  <2> QED BY <2>3, <2>4
<1> QED BY <1>1, <1>4, <1>5, <1>6, <1>8, <1>9 DEF SendingOK, st

LEMMA ReceiveRetryKeeps ==
  ASSUME RecoveryInv, ReceiveRetry
  PROVE  RecoveryInv'
<1>1. /\ phase = "handshake" /\ Live
      /\ retry_count \in Nat /\ retry_count' = retry_count + 1
      /\ retry_count' \in 0..MaxRetries
  BY Constants DEF ReceiveRetry, Looping, Live, RecoveryInv, PhaseTypes
<1>2. CASE Closes("failed")
  BY <1>1, <1>2, ClosesKeeps
<1>3. CASE \E d \in Data : RetryHello(d)
  <2>1. PICK d \in Data : RetryHello(d)
    BY <1>3
  <2>2. /\ Leaves(Restarted, d)
        /\ UNCHANGED <<phase, clock, srtt, rttvar, losses, arrived, acked>>
    BY <2>1 DEF RetryHello
  <2> DEFINE st == Restarted
             r == retry_count + 1
  <2>3. /\ SendingOK(st, r) /\ st.queue = queue /\ \A e \in Epochs : st.nextPn[e] <= MaxPn
        /\ r \in Nat
    BY <1>1, RestartedOK DEF RecoveryInv
  <2>4. Histories /\ DataOf(queue) = submitted \ unqueued
    BY <1>1 DEF RecoveryInv, QueueExact
  <2>5. UNCHANGED <<losses, arrived, acked>>
    BY <2>2
  <2>6. /\ SendingOK(Sending', r) /\ \A e \in Epochs : nextPn'[e] <= MaxPn
        /\ DataOf(queue') = submitted' \ unqueued' /\ Histories'
    <3> HIDE DEF st, r
    <3>1. Leaves(st, d)
      BY <2>2 DEF st
    <3> QED BY <2>3, <2>4, <2>5, <3>1, LeavesKeeps
  <2>7. SendingOK(Sending', retry_count') /\ QueueExact' /\ PhaseTypes'
    BY <1>1, <2>2, <2>6 DEF QueueExact, RecoveryInv, PhaseTypes
  <2> QED BY <2>2, <2>6, <2>7 DEF RecoveryInv
<1>4. CASE UNCHANGED <<phase, clock, queue, nextPn, srtt, rttvar, times, net, losses, arrived,
                       acked, submitted, unqueued>>
  <2>1. Sending' = Sending
    BY <1>4 DEF Sending
  <2>2. SendingOK(Sending, retry_count')
    <3>1. SendingOK(Sending, retry_count) /\ Sending.times \in [Spaces -> Nat]
      BY DEF RecoveryInv, SendingOK, Sendings
    <3> DEFINE st == Sending
    <3>2. ASSUME NEW e \in Epochs, NEW n \in 0..MaxPn
          PROVE  /\ st.times[<<e, n>>] <= Extra(e, retry_count') + 1
                 /\ n >= st.nextPn[e] => st.times[<<e, n>>] <= Extra(e, retry_count')
      <4>1. /\ st.times[<<e, n>>] <= Extra(e, retry_count) + 1
            /\ n >= st.nextPn[e] => st.times[<<e, n>>] <= Extra(e, retry_count)
        BY <3>1 DEF SendingOK, Counted
      <4>2. /\ Extra(e, retry_count) \in Nat /\ Extra(e, retry_count') \in Nat
            /\ Extra(e, retry_count) <= Extra(e, retry_count')
        BY <1>1 DEF Extra
      <4>3. st.times[<<e, n>>] \in Nat
        BY <3>1 DEF Spaces
      <4> HIDE DEF st
      <4> QED BY <4>1, <4>2, <4>3
    <3>3. Counted(st, retry_count')
      BY <3>2 DEF Counted
    <3> QED BY <3>1, <3>3 DEF SendingOK
  <2>3. SendingOK(Sending', retry_count') /\ QueueExact' /\ Histories'
    BY <1>4, <2>1, <2>2 DEF RecoveryInv, QueueExact, Live, Histories
  <2>4. PhaseTypes' /\ \A e \in Epochs : nextPn'[e] <= MaxPn
    BY <1>1, <1>4 DEF RecoveryInv, PhaseTypes
  <2> QED BY <1>4, <2>3, <2>4 DEF RecoveryInv
<1> QED BY <1>2, <1>3, <1>4 DEF ReceiveRetry

LEMMA CheckPTOKeeps ==
  ASSUME RecoveryInv, CheckPTO
  PROVE  RecoveryInv' /\ NoneOverdue(queue')
<1>1. PICK failed \in MemoryOutcomes({queue[i].data : i \in Overdue}) :
        /\ \A e \in Epochs : Pass(failed).nextPn[e] <= MaxPn
        /\ Becomes(Pass(failed), failed)
  BY DEF CheckPTO
<1>2. /\ UNCHANGED <<phase, clock, retry_count, srtt, rttvar, losses, arrived, acked,
                     submitted>>
      /\ Live
  BY DEF CheckPTO, phaseVars, Looping, Live
<1>3. SendingOK(Sending, retry_count) /\ srtt \in Nat /\ rttvar \in Nat /\ retry_count \in Nat
  BY Constants DEF RecoveryInv, PhaseTypes
<1>4. failed \in SUBSET {queue[i].data : i \in {j \in DOMAIN queue : Expired(queue[j])}}
  BY DEF MemoryOutcomes, Overdue
<1>5. ASSUME NEW i \in DOMAIN queue, queue[i].data \in failed
      PROVE  Expired(queue[i])
  <2>1. PICK j \in DOMAIN queue : Expired(queue[j]) /\ queue[i].data = queue[j].data
    BY <1>4, <1>5
  <2>2. i = j
    BY <1>3, <2>1, SendingParts DEF OneEach
  <2> QED BY <2>1, <2>2
<1>6. /\ SendingOK(Pass(failed), retry_count)
      /\ DataOf(Pass(failed).queue) = DataOf(queue) \ failed
      /\ NoneOverdue(Pass(failed).queue)
  BY <1>3, <1>5, PassKeeps
<1>7. Pass(failed) \in Sendings
  BY <1>6 DEF SendingOK
<1>8. /\ Sending' = Pass(failed)
      /\ queue' = Pass(failed).queue /\ nextPn' = Pass(failed).nextPn
      /\ unqueued' = unqueued \cup failed
  BY <1>1, <1>7, BecomesSending DEF Becomes
<1>9. failed \subseteq DataOf(queue)
  BY <1>4 DEF DataOf
<1>10. /\ DataOf(queue) = submitted \ unqueued
       /\ unqueued \subseteq submitted /\ submitted \subseteq Data
  BY <1>2 DEF RecoveryInv, QueueExact, Histories
<1>11. DataOf(queue') = submitted' \ unqueued' /\ unqueued' \subseteq submitted'
  BY <1>2, <1>6, <1>8, <1>9, <1>10
<1>12. SendingOK(Sending', retry_count') /\ \A e \in Epochs : nextPn'[e] <= MaxPn
  BY <1>1, <1>2, <1>6, <1>8
<1>13. RecoveryInv'
  BY <1>2, <1>11, <1>12 DEF RecoveryInv, QueueExact, PhaseTypes, Histories
<1>14. NoneOverdue(queue')
  BY <1>6, <1>8
<1> QED BY <1>13, <1>14

(* No entry of the queue has the epoch an ACK frame is handled with.       *)
LEMMA AckMatchesNothing ==
  ASSUME queue \in Seq(QueueEntry), NEW n, NEW delay
  PROVE  PacketAcked([queue |-> queue, srtt |-> srtt, rttvar |-> rttvar],
                     AckEpoch, n, delay)
           = [queue |-> queue, srtt |-> srtt, rttvar |-> rttvar]
<1> DEFINE hits == {i \in DOMAIN queue : queue[i].epoch = AckEpoch /\ queue[i].pn = n}
<1>1. hits = {}
  <2>1. ASSUME NEW i \in DOMAIN queue PROVE queue[i].epoch # AckEpoch
    <3>1. queue[i] \in QueueEntry
      OBVIOUS
    <3> QED BY <3>1 DEF QueueEntry, Epochs, AckEpoch
  <2> QED BY <2>1
<1> QED BY <1>1 DEF PacketAcked

LEMMA AckChangesNothing ==
  ASSUME queue \in Seq(QueueEntry), NEW largest \in Nat, NEW delay,
         ReceiveAck(largest, delay)
  PROVE  UNCHANGED <<queue, srtt, rttvar>>
<1> DEFINE base == [queue |-> queue, srtt |-> srtt, rttvar |-> rttvar]
           pns == {n \in ArrivedNumbers : n <= largest}
           Body(a) == [n \in 0..largest + 1 |->
                         IF n > largest THEN base
                         ELSE IF n \in pns THEN PacketAcked(a[n + 1], AckEpoch, n, delay)
                         ELSE a[n + 1]]
           w == CHOOSE a : a = Body(a)
           T == {k \in Nat : k <= largest + 1 => w[largest + 1 - k] = base}
<1>1. queue' = w[0].queue /\ srtt' = w[0].srtt /\ rttvar' = w[0].rttvar
  BY DEF ReceiveAck
<1>2. \A n : PacketAcked(base, AckEpoch, n, delay) = base
  BY AckMatchesNothing
<1> HIDE DEF base, pns
<1>3. w = Body(w)
  <2> DEFINE g == [n \in 0..largest + 1 |-> base]
  <2>1. \A n \in 0..largest + 1 : Body(g)[n] = base
    <3> SUFFICES ASSUME NEW n \in 0..largest + 1 PROVE Body(g)[n] = base
      OBVIOUS
    <3>1. CASE n > largest
      BY <3>1
    <3>2. CASE ~(n > largest)
      <4>1. n + 1 \in 0..largest + 1
        BY <3>2
      <4>2. g[n + 1] = base
        BY <4>1
      <4> QED BY <3>2, <4>2, <1>2
    <3> QED BY <3>1, <3>2
  <2>2. g = Body(g)
    BY <2>1
  <2> HIDE DEF Body
  <2> QED BY <2>2
<1> HIDE DEF w
<1>4. 0 \in T
  <2>1. largest + 1 \in 0..largest + 1 /\ largest + 1 > largest /\ largest + 1 - 0 = largest + 1
    OBVIOUS
  <2> QED BY <1>3, <2>1
<1>5. ASSUME NEW k \in T PROVE k + 1 \in T
  <2>0. SUFFICES ASSUME k + 1 <= largest + 1 PROVE w[largest + 1 - (k + 1)] = base
    OBVIOUS
  <2>1. k \in Nat /\ k <= largest + 1 /\ w[largest + 1 - k] = base
    BY <2>0
  <2> DEFINE n == largest + 1 - (k + 1)
  <2>2. n \in 0..largest + 1 /\ ~(n > largest) /\ n + 1 = largest + 1 - k
    BY <2>0, <2>1
  <2> HIDE DEF n
  <2>3. w[n] = IF n \in pns THEN PacketAcked(w[n + 1], AckEpoch, n, delay) ELSE w[n + 1]
    BY <1>3, <2>2
  <2>4. w[n] = base
    BY <2>1, <2>2, <2>3, <1>2
  <2> QED BY <2>4 DEF n
<1>6. T = Nat
  <2>1. T \in SUBSET Nat
    OBVIOUS
  <2> HIDE DEF T
  <2> QED BY <1>4, <1>5, <2>1, SetInduction
<1>7. w[0] = base
  <2>1. largest + 1 \in Nat /\ largest + 1 <= largest + 1 /\ largest + 1 - (largest + 1) = 0
    OBVIOUS
  <2>2. largest + 1 \in T
    <3> HIDE DEF T
    <3> QED BY <2>1, <1>6
  <2> QED BY <2>1, <2>2
<1> QED BY <1>1, <1>7 DEF base

LEMMA ReceiveAckKeeps ==
  ASSUME RecoveryInv, NEW largest \in ArrivedNumbers, NEW delay,
         ReceiveAck(largest, delay)
  PROVE  RecoveryInv' /\ UNCHANGED <<queue, srtt, rttvar>>
<1>1. ArrivedNumbers \subseteq 0..MaxPn
  BY DEF RecoveryInv, Histories, ArrivedNumbers, Packet
<1>2. largest \in Nat
  BY <1>1, Constants
<1>3. UNCHANGED <<queue, srtt, rttvar>>
  BY <1>2, SendingParts, AckChangesNothing DEF RecoveryInv
<1>4. /\ UNCHANGED <<phase, clock, retry_count, nextPn, times, net, losses, arrived,
                     submitted, unqueued>>
      /\ acked' = acked \cup {n \in ArrivedNumbers : n <= largest}
  BY DEF ReceiveAck, phaseVars
<1>5. acked' \subseteq 0..MaxPn
  BY <1>1, <1>4 DEF RecoveryInv, Histories
<1>6. Sending' = Sending
  BY <1>3, <1>4 DEF Sending
<1>7. SendingOK(Sending', retry_count') /\ QueueExact' /\ PhaseTypes'
  BY <1>3, <1>4, <1>6 DEF RecoveryInv, QueueExact, Live, PhaseTypes
<1>8. Histories' /\ \A e \in Epochs : nextPn'[e] <= MaxPn
  BY <1>4, <1>5 DEF RecoveryInv, Histories
<1> QED BY <1>3, <1>7, <1>8 DEF RecoveryInv

(* A packet out of the network changes nothing of the sender.              *)
LEMMA NetworkKeeps ==
  ASSUME RecoveryInv, NEW p \in net, Deliver(p) \/ Lose(p)
  PROVE  RecoveryInv'
<1>1. /\ net' = net \ {p}
      /\ UNCHANGED <<phase, clock, retry_count, queue, nextPn, srtt, rttvar, times, acked,
                     submitted, unqueued>>
  BY DEF Deliver, Lose, phaseVars
<1>2. SendingOK(Sending, retry_count) /\ \A e \in Epochs : nextPn[e] <= MaxPn
  BY DEF RecoveryInv
<1>3. Sending' = [queue |-> queue, nextPn |-> nextPn, times |-> times, net |-> net \ {p}]
  BY <1>1 DEF Sending
<1>4. SendingOK(Sending', retry_count)
  <2> DEFINE st == Sending'
  <2>1. /\ st.queue = Sending.queue /\ st.nextPn = Sending.nextPn
        /\ st.times = Sending.times /\ st.net \subseteq Sending.net
    BY <1>3 DEF Sending
  <2>2. st \in Sendings
    BY <1>2, <1>3, SendingParts DEF Sendings
  <2> HIDE DEF st
  <2> QED BY <1>2, <2>1, <2>2 DEF SendingOK, Counted, Below, BelowIn, st
<1>5. p \in Packet
  <2>1. p \in [epoch : Epochs, pn : Nat, data : Data \cup {Bare}] /\ BelowIn(Sending, p)
    BY <1>2, SendingParts
  <2>2. p.pn \in Nat /\ p.epoch \in Epochs /\ nextPn[p.epoch] \in Nat /\ nextPn[p.epoch] <= MaxPn
    BY <1>2, <2>1, SendingParts
  <2>3. p.pn \in 0..MaxPn
    BY <2>1, <2>2, Constants DEF BelowIn, Sending
  <2> QED BY <2>1, <2>3 DEF Packet
<1>6. arrived' \subseteq Packet /\ losses' \in 0..MaxLosses
  <2>1. arrived \subseteq Packet /\ losses \in 0..MaxLosses
    BY DEF RecoveryInv, Histories
  <2>2. CASE Deliver(p)
    BY <2>1, <2>2, <1>5 DEF Deliver
  <2>3. CASE Lose(p)
    BY <2>1, <2>3, Constants DEF Lose
  <2> QED BY <2>2, <2>3
<1>7. QueueExact' /\ PhaseTypes' /\ \A e \in Epochs : nextPn'[e] <= MaxPn
  BY <1>1 DEF RecoveryInv, QueueExact, Live, PhaseTypes
<1>8. SendingOK(Sending', retry_count') /\ Histories'
  BY <1>1, <1>4, <1>6 DEF RecoveryInv, Histories
<1> QED BY <1>1, <1>7, <1>8 DEF RecoveryInv

LEMMA TickKeeps ==
  ASSUME RecoveryInv, Tick
  PROVE  RecoveryInv'
<1>1. /\ queue' = [i \in DOMAIN queue |-> Older(queue[i])]
      /\ UNCHANGED <<phase, retry_count, nextPn, srtt, rttvar, times, net, losses, arrived,
                     acked, submitted, unqueued>>
  BY DEF Tick, Aged
<1>2. SendingOK(Sending, retry_count)
  BY DEF RecoveryInv
<1>3. queue \in Seq(QueueEntry) /\ Len(queue) \in Nat /\ DOMAIN queue = 1..Len(queue)
  BY <1>2, SendingParts, LenProperties
<1>4. ASSUME NEW i \in DOMAIN queue
      PROVE  /\ Older(queue[i]) \in QueueEntry
             /\ Older(queue[i]).data = queue[i].data
             /\ Older(queue[i]).pn = queue[i].pn
             /\ Older(queue[i]).epoch = queue[i].epoch
  <2> DEFINE p == queue[i]
  <2>1. p \in QueueEntry
    BY <1>3
  <2> HIDE DEF p
  <2>2. p.age \in 0..MaxAge /\ p = [epoch |-> p.epoch, pn |-> p.pn, data |-> p.data, age |-> p.age]
    BY <2>1 DEF QueueEntry
  <2>3. CASE HasRoom(p.epoch) /\ p.age < MaxAge
    <3>1. Older(p) = [p EXCEPT !.age = @ + 1]
      BY <2>3 DEF Older
    <3>2. p.age + 1 \in 0..MaxAge
      BY <2>2, <2>3, Constants
    <3> QED BY <3>1, <3>2, <2>1 DEF QueueEntry, p
  <2>4. CASE ~(HasRoom(p.epoch) /\ p.age < MaxAge)
    <3>1. Older(p) = p
      BY <2>4 DEF Older
    <3> QED BY <3>1, <2>1 DEF p
  <2> QED BY <2>3, <2>4
<1>5. queue' \in Seq(QueueEntry) /\ DOMAIN queue' = DOMAIN queue
  BY <1>1, <1>3, <1>4
<1>6. OneEach(queue') /\ DataOf(queue') = DataOf(queue)
  <2>1. \A i \in DOMAIN queue : queue'[i].data = queue[i].data
    BY <1>1, <1>4
  <2>2. DataOf(queue') = DataOf(queue)
    BY <1>5, <2>1 DEF DataOf
  <2>3. OneEach(queue')
    BY <1>2, <1>5, <2>1, SendingParts DEF OneEach
  <2> QED BY <2>2, <2>3
<1>7. SendingOK(Sending', retry_count)
  <2> DEFINE st == Sending'
  <2>1. st = [queue |-> queue', nextPn |-> nextPn, times |-> times, net |-> net]
    BY <1>1 DEF Sending
  <2>2. st \in Sendings
    BY <1>2, <1>5, <2>1, SendingParts DEF Sendings
  <2>3. /\ st.queue = queue' /\ st.nextPn = nextPn /\ st.net = net
        /\ st.times = Sending.times /\ Sending.nextPn = nextPn
    BY <2>1 DEF Sending
  <2> HIDE DEF st
  <2>4. \A i \in DOMAIN queue' : BelowIn(st, queue'[i])
    <3>1. ASSUME NEW i \in DOMAIN queue'
          PROVE  queue'[i].pn = queue[i].pn /\ queue'[i].epoch = queue[i].epoch
                 /\ i \in DOMAIN queue
      BY <1>1, <1>4, <1>5
    <3>2. \A i \in DOMAIN queue : BelowIn(Sending, queue[i])
      BY <1>2, SendingParts
    <3> QED BY <3>1, <3>2, <2>3 DEF BelowIn
  <2>5. \A p \in net : BelowIn(st, p)
    BY <1>2, <2>3, SendingParts DEF BelowIn
  <2>6. Below(st)
    BY <2>3, <2>4, <2>5 DEF Below
  <2>7. Counted(st, retry_count)
    BY <1>2, <2>3 DEF SendingOK, Counted
  <2> QED BY <1>6, <2>2, <2>3, <2>6, <2>7 DEF SendingOK, st
<1>8. QueueExact' /\ \A e \in Epochs : nextPn'[e] <= MaxPn
  BY <1>1, <1>6 DEF RecoveryInv, QueueExact, Live
<1>9. PhaseTypes'
  <2>1. clock \in 0..Deadline + 1 /\ (clock' = clock \/ (clock <= Deadline /\ clock' = clock + 1))
    <3>1. clock \in 0..Deadline + 1
      BY DEF RecoveryInv, PhaseTypes
    <3> HIDE DEF Overdue, Aged
    <3>2. CASE Looping /\ clock' = clock + 1
      BY <3>1, <3>2 DEF Looping
    <3>3. CASE UNCHANGED clock
      BY <3>1, <3>3
    <3> QED BY <3>2, <3>3 DEF Tick
  <2>2. clock' \in 0..Deadline + 1
    BY <2>1, Constants
  <2> QED BY <1>1, <2>2 DEF RecoveryInv, PhaseTypes
<1>10. SendingOK(Sending', retry_count') /\ Histories'
  BY <1>1, <1>7 DEF RecoveryInv, Histories
<1> QED BY <1>1, <1>8, <1>9, <1>10 DEF RecoveryInv

LEMMA RecoveryStep == RecoveryInv /\ [Next]_vars => RecoveryInv'
<1> SUFFICES ASSUME RecoveryInv, [Next]_vars PROVE RecoveryInv'
  OBVIOUS
<1>1. CASE \E d \in Data : SendHello(d) \/ Finish(d) \/ SendData(d)
  BY <1>1, SendKeeps, FinishKeeps
<1>2. CASE \E e \in Epochs : SendBareAck(e)
  BY <1>2, SendBareAckKeeps
<1>3. CASE ReceiveRetry
  BY <1>3, ReceiveRetryKeeps
<1>4. CASE GiveUp \/ Close
  <2>1. /\ Closes("failed") \/ Closes("closed")
        /\ retry_count' = retry_count
    BY <1>4 DEF GiveUp, Close
  <2>2. retry_count' \in 0..MaxRetries
    BY <2>1 DEF RecoveryInv, PhaseTypes
  <2> QED BY <2>1, <2>2, ClosesKeeps
<1>5. CASE CheckPTO
  BY <1>5, CheckPTOKeeps
<1>6. CASE \E largest \in ArrivedNumbers, delay \in {0, 1} : ReceiveAck(largest, delay)
  BY <1>6, ReceiveAckKeeps
<1>7. CASE \E p \in net : Deliver(p) \/ Lose(p)
  BY <1>7, NetworkKeeps
<1>8. CASE Tick
  BY <1>8, TickKeeps
<1>9. CASE UNCHANGED vars
  <2>1. UNCHANGED <<phase, clock, retry_count, queue, nextPn, srtt, rttvar, times, net,
                    losses, arrived, acked, submitted, unqueued>>
    BY <1>9 DEF vars, phaseVars
  <2>2. Sending' = Sending
    BY <2>1 DEF Sending
  <2>3. SendingOK(Sending', retry_count') /\ QueueExact' /\ PhaseTypes' /\ Histories'
        /\ \A e \in Epochs : nextPn'[e] <= MaxPn
    BY <2>1, <2>2 DEF RecoveryInv, QueueExact, Live, PhaseTypes, Histories
  <2> QED BY <2>1, <2>3 DEF RecoveryInv
<1> QED BY <1>1, <1>2, <1>3, <1>4, <1>5, <1>6, <1>7, <1>8, <1>9 DEF Next

(* The inductive invariant, whatever is sent, lost, acknowledged and       *)
(* retransmitted (quic.c).                                                 *)
THEOREM RecoveryInvariance == Spec => []RecoveryInv
<1>1. RecoveryInv /\ [Next]_vars => RecoveryInv'
  BY RecoveryStep
<1> QED BY <1>1, RecoveryInit, PTL DEF Spec

-----------------------------------------------------------------------------
(* Every value stays in its type; no counter passes its bound (quic.c).    *)
THEOREM RecoveryType == Spec => []TypeOK
<1>1. RecoveryInv => TypeOK
  <2> SUFFICES ASSUME RecoveryInv PROVE TypeOK
    OBVIOUS
  <2> DEFINE Typed == [epoch : Epochs, pn : 0..MaxPn, data : Data, age : 0..MaxAge]
  <2>1. SendingOK(Sending, retry_count) /\ \A e \in Epochs : nextPn[e] <= MaxPn
    BY DEF RecoveryInv
  <2>2. /\ queue \in Seq(QueueEntry) /\ nextPn \in [Epochs -> Nat]
        /\ times \in [Spaces -> Nat]
        /\ net \in SUBSET [epoch : Epochs, pn : Nat, data : Data \cup {Bare}]
        /\ \A i \in DOMAIN queue : BelowIn(Sending, queue[i])
        /\ \A p \in net : BelowIn(Sending, p)
    BY <2>1, SendingParts
  <2>3. ASSUME NEW p, BelowIn(Sending, p), p.epoch \in Epochs, p.pn \in Nat
        PROVE  p.pn \in 0..MaxPn
    <3>1. nextPn[p.epoch] \in Nat /\ nextPn[p.epoch] <= MaxPn
      BY <2>1, <2>2, <2>3
    <3> QED BY <3>1, <2>3, Constants DEF BelowIn, Sending
  <2>4. queue \in Seq(Typed)
    <3>1. ASSUME NEW i \in DOMAIN queue PROVE queue[i] \in Typed
      <4>1. queue[i] \in QueueEntry /\ BelowIn(Sending, queue[i])
        BY <2>2
      <4>2. queue[i].pn \in 0..MaxPn
        BY <4>1, <2>3 DEF QueueEntry
      <4> QED BY <4>1, <4>2 DEF QueueEntry
    <3>2. Len(queue) \in Nat /\ DOMAIN queue = 1..Len(queue) /\ queue \in [1..Len(queue) -> QueueEntry]
      BY <2>2, LenProperties
    <3> HIDE DEF Typed
    <3>3. queue \in [1..Len(queue) -> Typed]
      BY <3>1, <3>2
    <3> QED BY <3>2, <3>3
  <2>5. net \subseteq Packet
    <3>1. ASSUME NEW p \in net PROVE p \in Packet
      <4>1. p \in [epoch : Epochs, pn : Nat, data : Data \cup {Bare}] /\ BelowIn(Sending, p)
        BY <2>2
      <4>2. p.pn \in 0..MaxPn
        BY <4>1, <2>3
      <4> QED BY <4>1, <4>2 DEF Packet
    <3> QED BY <3>1
  <2>6. nextPn \in [Epochs -> 0..MaxPn]
    BY <2>1, <2>2, Constants
  <2>7. times \in [Epochs \X (0..MaxPn) -> Nat]
    BY <2>2 DEF Spaces
  <2> QED BY <2>4, <2>5, <2>6, <2>7 DEF RecoveryInv, PhaseTypes, Histories, TypeOK
<1> QED BY <1>1, RecoveryInvariance, PTL

(* No Handshake or 1-RTT number is sent twice and an Initial number at     *)
(* most once more for each Retry, for any queue, any timeouts and any      *)
(* mixture of payloads, bare ACKs, retransmissions and Retries             *)
(* (quic_send_*, quic_check_pto, nanotls_try_quic's Retry branch).         *)
THEOREM NoncesReusedByRetriesOnly == Spec => []NonceReusedByRetryOnly
<1>1. RecoveryInv => NonceReusedByRetryOnly
  <2> SUFFICES ASSUME RecoveryInv, NEW x \in DOMAIN times PROVE times[x] <= 1 + Reuses(x[1])
    BY DEF NonceReusedByRetryOnly
  <2>1. times \in [Spaces -> Nat] /\ Counted(Sending, retry_count) /\ retry_count \in Nat
    BY SendingParts, Constants DEF RecoveryInv, PhaseTypes, SendingOK
  <2>2. PICK e \in Epochs, n \in 0..MaxPn : x = <<e, n>>
    BY <2>1 DEF Spaces
  <2>3. times[x] <= Extra(e, retry_count) + 1
    BY <2>1, <2>2 DEF Counted, Sending
  <2>4. x[1] = e
    BY <2>2
  <2> QED BY <2>1, <2>3, <2>4 DEF Reuses, Extra
<1> QED BY <1>1, RecoveryInvariance, PTL

(* A payload the peer may lack has one entry in the queue of a connection: *)
(* quic_check_pto, which unlinks the old entries while it pushes new ones, *)
(* neither drops nor multiplies one.                                       *)
THEOREM QueueKeepsAll == Spec => []NothingForgotten
<1>1. RecoveryInv => NothingForgotten
  <2> SUFFICES ASSUME RecoveryInv, Live, NEW d \in submitted \ unqueued
               PROVE  Cardinality(Entries(d)) = 1
    BY DEF NothingForgotten
  <2>1. OneEach(queue) /\ d \in DataOf(queue)
    BY SendingParts DEF RecoveryInv, QueueExact
  <2>2. PICK i \in DOMAIN queue : queue[i].data = d
    BY <2>1 DEF DataOf
  <2>3. Entries(d) = {i}
    BY <2>1, <2>2 DEF Entries, OneEach
  <2> QED BY <2>3, FS_Singleton
<1> QED BY <1>1, RecoveryInvariance, PTL

(* A pass of quic_check_pto leaves nothing overdue behind.                 *)
THEOREM PassesAreComplete == Spec => PassComplete
<1>1. RecoveryInv /\ [Next]_vars =>
        [CheckPTO => \A i \in DOMAIN queue' : ~(queue'[i].age > PTO)]_vars
  <2> SUFFICES ASSUME RecoveryInv, CheckPTO
               PROVE  \A i \in DOMAIN queue' : ~(queue'[i].age > PTO)
    OBVIOUS
  <2>1. NoneOverdue(queue')
    BY CheckPTOKeeps
  <2> QED BY <2>1 DEF NoneOverdue, Expired
<1> QED BY <1>1, RecoveryInvariance, PTL DEF Spec, PassComplete

(* An ACK frame neither empties the queue nor gives a round-trip estimate: *)
(* quic_decrypt_1rtt hands it on with an epoch that no entry has.          *)
THEOREM AcksAreIgnored ==
  Spec => [][\A largest \in ArrivedNumbers, delay \in {0, 1} :
               ReceiveAck(largest, delay) => UNCHANGED <<queue, srtt, rttvar>>]_vars
<1>1. RecoveryInv /\ [Next]_vars =>
        [\A largest \in ArrivedNumbers, delay \in {0, 1} :
           ReceiveAck(largest, delay) => UNCHANGED <<queue, srtt, rttvar>>]_vars
  BY ReceiveAckKeeps
<1> QED BY <1>1, RecoveryInvariance, PTL DEF Spec
=============================================================================
