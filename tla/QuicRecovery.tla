---------------------------- MODULE QuicRecovery ----------------------------
(***************************************************************************)
(* Loss recovery of a QUIC connection (quic.c): the queue of sent packets, *)
(* the probe timeout that retransmits from it, and the ACK frames that are *)
(* to empty it, over a network that loses, delays and reorders packets.    *)
(*                                                                         *)
(* The client is one thread.  Each round of the handshake loop             *)
(* (nanotls_try_quic) tests the deadline, calls quic_check_pto and reads   *)
(* one datagram; a Retry sends a second ClientHello and sets the counter   *)
(* of Initial packets back to 1, under the same keys.  After the handshake *)
(* the timers are looked at only when the application calls tls_core_recv. *)
(* Time is counted in ticks that are no shorter than a round of the        *)
(* handshake loop (50 ms); a queued packet keeps its age instead of the    *)
(* time it was sent.  An ACK of an Initial or Handshake packet changes     *)
(* nothing (extract_crypto_frames skips it), so only those of 1-RTT        *)
(* packets are actions here.                                               *)
(***************************************************************************)
EXTENDS Integers, Sequences, SequencesExt, FiniteSets, FiniteSetsExt

CONSTANTS
  Data,       \* the payloads: ClientHellos, Finished, 1-RTT frames
  EpochOf,    \* the packet number space each is sent in
  InitialPTO, \* the timeout without a round-trip estimate, in ticks (300 ms)
  Deadline,   \* what the handshake may take, in ticks (800 ms)
  MallocFails,\* TRUE if malloc may fail in quic_add_to_sent_queue
  MaxPn,      \* bound: the numbers of one space used
  MaxAcks,    \* bound: bare ACK packets sent
  MaxRetries, \* bound: Retry datagrams that come
  MaxLosses   \* bound: packets the network loses

(* The packet number spaces, by the numbers quic.c gives them.             *)
Epochs == {0, 2, 3}

(* The payload of a packet that carries an ACK frame alone.                *)
Bare == "ack"

ASSUME DataAssumption == Bare \notin Data /\ EpochOf \in [Data -> Epochs]
ASSUME PTOAssumption == InitialPTO \in Nat \ {0} /\ Deadline \in Nat
ASSUME BoundsAssumption ==
  MaxPn \in Nat \ {0} /\ {MaxAcks, MaxRetries, MaxLosses} \subseteq Nat

VARIABLES
  phase,      \* "handshake", "open" (a handle is returned), "failed" or
              \* "closed" (by the application)
  clock,      \* ticks since the handshake loop began, 0 after it
  retry_count,
  queue,      \* conn->sent_queue, head first
  nextPn,     \* c_initial_pn, c_hs_pn and c_app_pn, by epoch
  srtt, rttvar,
  times,      \* history: how often each number of each space was sent
  net,        \* packets in flight
  losses,     \* how many the network lost
  arrived,    \* the packets the peer received
  acked,      \* history: the 1-RTT numbers acknowledged to the client
  submitted,  \* history: the payloads sent
  unqueued    \* history: the payloads there was no memory to keep

phaseVars == <<phase, clock, retry_count>>
vars == <<phaseVars, queue, nextPn, srtt, rttvar, times, net, losses, arrived,
          acked, submitted, unqueued>>

(* The handshake loop, past its test of the deadline.                      *)
Looping == phase = "handshake" /\ clock <= Deadline
Live == phase \in {"handshake", "open"}

Packet == [epoch : Epochs, pn : 0..MaxPn, data : Data \cup {Bare}]
MaxAge == InitialPTO + 1

Sent(e, n, d) == [epoch |-> e, pn |-> n, data |-> d]
Entry(e, n, d, age) == [epoch |-> e, pn |-> n, data |-> d, age |-> age]

-----------------------------------------------------------------------------
(* What a packet that leaves changes.                                      *)
Sending == [queue |-> queue, nextPn |-> nextPn, times |-> times, net |-> net]

(* A payload is given to the network, uses up the next number of its space *)
(* and is pushed at the head of the queue, unless it is one of "unkept".   *)
Transmit(st, e, d, unkept) ==
  LET n == st.nextPn[e]
  IN [queue  |-> IF d \in unkept THEN st.queue ELSE <<Entry(e, n, d, 0)>> \o st.queue,
      nextPn |-> [st.nextPn EXCEPT ![e] = @ + 1],
      times  |-> [x \in DOMAIN st.times |->
                    IF x = <<e, n>> THEN st.times[x] + 1 ELSE st.times[x]],
      net    |-> st.net \cup {Sent(e, n, d)}]

Becomes(st, failed) ==
  /\ queue' = st.queue /\ nextPn' = st.nextPn
  /\ times' = st.times /\ net' = st.net
  /\ unqueued' = unqueued \cup failed

(* The payloads malloc has no room for.                                    *)
MemoryOutcomes(ds) == IF MallocFails THEN SUBSET ds ELSE {{}}

(* A new payload leaves for the first time.                                *)
Leaves(st, d) ==
  /\ d \notin submitted
  /\ st.nextPn[EpochOf[d]] < MaxPn
  /\ submitted' = submitted \cup {d}
  /\ \E failed \in MemoryOutcomes({d}) :
       Becomes(Transmit(st, EpochOf[d], d, failed), failed)

(* nanotls_try_quic sends the first ClientHello and starts the loop.       *)
SendHello(d) ==
  /\ phase = "handshake" /\ submitted = {}
  /\ EpochOf[d] = 0
  /\ Leaves(Sending, d)
  /\ UNCHANGED <<phaseVars, srtt, rttvar, losses, arrived, acked>>

(* quic_send_1rtt, called by the application or for an ACK or a window.    *)
SendData(d) ==
  /\ phase = "open"
  /\ EpochOf[d] = 3
  /\ Leaves(Sending, d)
  /\ UNCHANGED <<phaseVars, srtt, rttvar, losses, arrived, acked>>

AcksLeft == Cardinality({p \in net : p.data = Bare}) < MaxAcks

(* Mutant of Acknowledge: the counter is not advanced.                     *)
AcknowledgeSameNumber(st, e) ==
  [Transmit(st, e, Bare, {Bare}) EXCEPT !.nextPn = st.nextPn]

(* Mutant of Acknowledge: the packet is queued like the others.            *)
AcknowledgeQueued(st, e) == Transmit(st, e, Bare, {})

(* send_initial_ack and send_handshake_ack: numbered like the others, but  *)
(* never queued.                                                           *)
Acknowledge(st, e) == Transmit(st, e, Bare, {Bare})

(* An Initial or Handshake datagram that does not finish the handshake.    *)
SendBareAck(e) ==
  /\ Looping /\ e \in {0, 2} /\ submitted # {}
  /\ nextPn[e] < MaxPn /\ AcksLeft
  /\ Becomes(Acknowledge(Sending, e), {})
  /\ UNCHANGED <<phaseVars, srtt, rttvar, losses, arrived, acked, submitted>>

(* The server, which has a ClientHello, sends its Finished: the client     *)
(* sends its own (quic_send_finished) and the ACK of that datagram, and    *)
(* the loop is over.                                                       *)
HelloArrived == \E p \in arrived : p.epoch = 0

Finish(d) ==
  /\ Looping /\ HelloArrived
  /\ EpochOf[d] = 2 /\ d \notin submitted
  /\ nextPn[2] + 1 < MaxPn
  /\ submitted' = submitted \cup {d}
  /\ \E failed \in MemoryOutcomes({d}) :
       Becomes(Acknowledge(Transmit(Sending, 2, d, failed), 2), failed)
  /\ phase' = "open" /\ clock' = 0
  /\ UNCHANGED <<retry_count, srtt, rttvar, losses, arrived, acked>>

(* quic_close: nothing reaches the entries of the queue any more (they are *)
(* not freed).                                                             *)
Closes(end) ==
  /\ phase' = end /\ clock' = 0
  /\ queue' = <<>>
  /\ UNCHANGED <<nextPn, srtt, rttvar, times, net, losses, arrived, acked,
                 submitted, unqueued>>

(* The deadline at the top of the loop, or a ServerHello that is refused.  *)
GiveUp ==
  /\ phase = "handshake"
  /\ clock > Deadline \/ HelloArrived
  /\ Closes("failed")
  /\ UNCHANGED retry_count

(* tls_core_close.                                                         *)
Close ==
  /\ phase = "open"
  /\ Closes("closed")
  /\ UNCHANGED retry_count

(* The counter of Initial packets starts again.                            *)
Restarted == [Sending EXCEPT !.nextPn[0] = 1]

(* A Retry: a second ClientHello beside the first, which stays queued.     *)
RetryHello(d) ==
  /\ EpochOf[d] = 0
  /\ Leaves(Restarted, d)
  /\ UNCHANGED <<phase, clock, srtt, rttvar, losses, arrived, acked>>

(* The fourth Retry datagram ends the attempt; one that is too short to    *)
(* parse is only counted.                                                  *)
ReceiveRetry ==
  /\ Looping /\ submitted # {} /\ retry_count < MaxRetries
  /\ retry_count' = retry_count + 1
  /\ \/ retry_count > 2 /\ Closes("failed")
     \/ retry_count <= 2 /\ \E d \in Data : RetryHello(d)
     \/ /\ retry_count <= 2
        /\ UNCHANGED <<phase, clock, queue, nextPn, srtt, rttvar, times, net, losses,
                       arrived, acked, submitted, unqueued>>

-----------------------------------------------------------------------------
PTO == IF srtt + 4 * rttvar = 0 THEN InitialPTO ELSE srtt + 4 * rttvar

Expired(p) == p.age > PTO

(* Mutant of Visit: the old entry is not unlinked.                         *)
VisitKeepsBoth(st, p, failed) ==
  IF Expired(p)
  THEN LET next == Transmit(st, p.epoch, p.data, failed)
       IN [next EXCEPT !.queue = Append(@, p)]
  ELSE [st EXCEPT !.queue = Append(@, p)]

(* Mutant of Visit: no case for Initial packets.                           *)
VisitNotInitial(st, p, failed) ==
  IF ~Expired(p) THEN [st EXCEPT !.queue = Append(@, p)]
  ELSE IF p.epoch = 0 THEN st ELSE Transmit(st, p.epoch, p.data, failed)

(* The pass comes to an entry.  An overdue one is sent again under a new   *)
(* number, which pushes a new entry at the head, and is unlinked; st.queue *)
(* is the list as far as the pass has come.                                *)
Visit(st, p, failed) ==
  IF Expired(p) THEN Transmit(st, p.epoch, p.data, failed)
  ELSE [st EXCEPT !.queue = Append(@, p)]

(* Mutant of Pass: unlinking an entry skips the one after it.              *)
PassSkipping(failed) ==
  LET skips(i) == i > 1 /\ Expired(queue[i - 1])
      after[i \in 0..Len(queue)] ==
        IF i = 0 THEN [Sending EXCEPT !.queue = <<>>]
        ELSE IF skips(i) THEN [after[i - 1] EXCEPT !.queue = Append(@, queue[i])]
        ELSE Visit(after[i - 1], queue[i], failed)
  IN after[Len(queue)]

(* One pass over the entries the list had when it began.                   *)
Pass(failed) ==
  LET after[i \in 0..Len(queue)] ==
        IF i = 0 THEN [Sending EXCEPT !.queue = <<>>]
        ELSE Visit(after[i - 1], queue[i], failed)
  IN after[Len(queue)]

Overdue == {i \in DOMAIN queue : Expired(queue[i])}

(* quic_check_pto, from the handshake loop or from tls_core_recv.          *)
CheckPTO ==
  /\ Looping \/ phase = "open"
  /\ Overdue # {}
  /\ \E failed \in MemoryOutcomes({queue[i].data : i \in Overdue}) :
       \E st \in {Pass(failed)} :
         /\ \A e \in Epochs : st.nextPn[e] <= MaxPn
         /\ Becomes(st, failed)
  /\ UNCHANGED <<phaseVars, srtt, rttvar, losses, arrived, acked, submitted>>

-----------------------------------------------------------------------------
(* quic_handle_packet_acked: the first entry with this epoch and number    *)
(* leaves the queue and gives a round-trip sample.                         *)
PacketAcked(st, epoch, pn, delay) ==
  LET hits == {i \in DOMAIN st.queue : st.queue[i].epoch = epoch /\ st.queue[i].pn = pn}
      i    == Min(hits)
      age  == st.queue[i].age
      rtt  == IF age > delay THEN age - delay ELSE age
      diff == IF st.srtt > rtt THEN st.srtt - rtt ELSE rtt - st.srtt
  IN IF hits = {} THEN st
     ELSE [queue  |-> RemoveAt(st.queue, i),
           srtt   |-> IF st.srtt = 0 THEN rtt ELSE (7 * st.srtt + rtt) \div 8,
           rttvar |-> IF st.srtt = 0 THEN rtt \div 2
                      ELSE (3 * st.rttvar + diff) \div 4]

(* quic_decrypt_1rtt hands its frames to quic_parse_frames with this       *)
(* epoch, which the ACK branch passes on.                                  *)
AckEpoch == 1

(* The peer acknowledges what it had received when it built the frame.     *)
ArrivedNumbers == {p.pn : p \in {q \in arrived : q.epoch = 3}}

(* A 1-RTT packet with an ACK frame: its numbers are handled from the      *)
(* largest down.                                                           *)
ReceiveAck(largest, delay) ==
  LET pns == {n \in ArrivedNumbers : n <= largest}
      after[n \in 0..largest + 1] ==
        IF n > largest THEN [queue |-> queue, srtt |-> srtt, rttvar |-> rttvar]
        ELSE IF n \in pns THEN PacketAcked(after[n + 1], AckEpoch, n, delay)
        ELSE after[n + 1]
  IN /\ phase = "open"
     /\ queue' = after[0].queue /\ srtt' = after[0].srtt /\ rttvar' = after[0].rttvar
     /\ acked' = acked \cup pns
     /\ UNCHANGED <<phaseVars, nextPn, times, net, losses, arrived, submitted,
                    unqueued>>

-----------------------------------------------------------------------------
(* The network and the clock.  A bare ACK stays in flight: nothing here    *)
(* depends on its arrival.                                                 *)
Deliver(p) ==
  /\ p \in net /\ p.data # Bare
  /\ net' = net \ {p}
  /\ arrived' = arrived \cup {p}
  /\ UNCHANGED <<phaseVars, queue, nextPn, srtt, rttvar, times, losses, acked,
                 submitted, unqueued>>

Lose(p) ==
  /\ p \in net /\ p.data # Bare
  /\ losses < MaxLosses
  /\ losses' = losses + 1
  /\ net' = net \ {p}
  /\ UNCHANGED <<phaseVars, queue, nextPn, srtt, rttvar, times, arrived, acked,
                 submitted, unqueued>>

(* A space whose numbers run out under MaxPn stops its entries' clocks.    *)
HasRoom(e) == nextPn[e] + Cardinality({i \in DOMAIN queue : queue[i].epoch = e}) <= MaxPn

Older(p) ==
  IF HasRoom(p.epoch) /\ p.age < MaxAge THEN [p EXCEPT !.age = @ + 1] ELSE p

Aged == [i \in DOMAIN queue |-> Older(queue[i])]

(* A round of the handshake loop takes a tick at most, and begins with     *)
(* quic_check_pto, so that nothing stays overdue during one.  Afterwards   *)
(* the application takes its time between two calls.                       *)
Tick ==
  /\ \/ Looping /\ submitted # {} /\ Overdue = {} /\ clock' = clock + 1
     \/ phase = "open" /\ Aged # queue /\ UNCHANGED clock
  /\ queue' = Aged
  /\ UNCHANGED <<phase, retry_count, nextPn, srtt, rttvar, times, net, losses, arrived,
                 acked, submitted, unqueued>>

-----------------------------------------------------------------------------
Init ==
  /\ phase = "handshake" /\ clock = 0 /\ retry_count = 0
  /\ queue = <<>>
  /\ nextPn = [e \in Epochs |-> IF e = 0 THEN 1 ELSE 0]
  /\ srtt = 0 /\ rttvar = 0
  /\ times = [x \in Epochs \X (0..MaxPn) |-> 0]
  /\ net = {} /\ arrived = {} /\ acked = {}
  /\ losses = 0
  /\ submitted = {} /\ unqueued = {}

Next ==
  \/ \E d \in Data : SendHello(d) \/ Finish(d) \/ SendData(d)
  \/ \E e \in Epochs : SendBareAck(e)
  \/ ReceiveRetry
  \/ GiveUp \/ Close
  \/ CheckPTO
  \/ \E largest \in ArrivedNumbers, delay \in {0, 1} : ReceiveAck(largest, delay)
  \/ \E p \in net : Deliver(p) \/ Lose(p)
  \/ Tick

(* The handshake loop runs its rounds until its deadline, and an           *)
(* application that has not closed the connection calls tls_core_recv      *)
(* again: CheckPTO is enabled in no other phase.  Time passes; of the      *)
(* packets with a payload, one that the network does not lose arrives.     *)
Fairness ==
  /\ WF_vars(CheckPTO)
  /\ WF_vars(Tick)
  /\ \A d \in Data : WF_vars(\E p \in net : p.data = d /\ Deliver(p))

Spec == Init /\ [][Next]_vars
FairSpec == Spec /\ Fairness

-----------------------------------------------------------------------------
TypeOK ==
  /\ phase \in {"handshake", "open", "failed", "closed"}
  /\ clock \in 0..Deadline + 1 /\ retry_count \in 0..MaxRetries
  /\ queue \in Seq([epoch : Epochs, pn : 0..MaxPn, data : Data, age : 0..MaxAge])
  /\ nextPn \in [Epochs -> 0..MaxPn]
  /\ srtt \in Nat /\ rttvar \in Nat
  /\ times \in [Epochs \X (0..MaxPn) -> Nat]
  /\ net \subseteq Packet /\ arrived \subseteq Packet
  /\ losses \in 0..MaxLosses
  /\ acked \subseteq 0..MaxPn
  /\ unqueued \subseteq submitted /\ submitted \subseteq Data

(* The packet number is the AEAD nonce, and five functions draw from the   *)
(* three counters (quic_send_*, the bare ACKs, and quic_check_pto in the   *)
(* middle of a walk of the list).  No number of the Handshake or the 1-RTT *)
(* space is sent twice; one of the Initial space only because Retries set  *)
(* c_initial_pn back under the same keys, and once more for each at most.  *)
Reuses(e) == IF e = 0 THEN retry_count ELSE 0

NonceReusedByRetryOnly == \A x \in DOMAIN times : times[x] <= 1 + Reuses(x[1])

Entries(d) == {i \in DOMAIN queue : queue[i].data = d}

(* As long as there is a connection, a payload the peer may still lack is  *)
(* in the queue, once: the pass that unlinks the old entries while it      *)
(* pushes new ones neither drops one nor multiplies one, and a Retry does  *)
(* not either.  (A payload there was no memory for is never sent again.)   *)
NothingForgotten ==
  Live => \A d \in submitted \ unqueued :
    \/ Cardinality(Entries(d)) = 1
    \/ Entries(d) = {} /\ \E p \in arrived : p.data = d

(* A pass of quic_check_pto leaves no overdue packet behind, though it     *)
(* changes the list it walks.                                              *)
PassComplete ==
  [][CheckPTO => \A i \in DOMAIN queue' : ~(queue'[i].age > PTO)]_vars

(* Every payload reaches the peer, whichever packets the network loses, a  *)
(* ClientHello before the deadline ends its retransmission, unless the     *)
(* application closes the connection first.                                *)
EventuallyArrives ==
  \A d \in Data :
    d \in submitted ~> (phase = "closed" \/ \E p \in arrived : p.data = d)

(* headers/quic.h calls srtt and rttvar "RTT & Timer estimation": a        *)
(* packet whose acknowledgement was processed has left the queue and given *)
(* an estimate.                                                            *)
AcknowledgedLeavesQueue ==
  \A i \in DOMAIN queue : queue[i].epoch = 3 => queue[i].pn \notin acked
=============================================================================
