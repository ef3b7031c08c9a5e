------------------------- MODULE TicketCache_proofs -------------------------
(***************************************************************************)
(* With one thread the ticket cache is sound, for every number of slots,   *)
(* hosts and tickets: a slot that a lookup finds is whole, and no host's   *)
(* newest ticket is lost while a slot is free.  (With several threads the  *)
(* first already fails; TLC finds the interleaving.)                       *)
(***************************************************************************)
EXTENDS TicketCache, InductionLemmas

(* The inductive invariant has a part for the slots, one for a store under *)
(* way, and one for a handshake under way.                                 *)
Types ==
  /\ TypeOK
  /\ Len(owner) <= MaxTickets

IssuedTo(n, h) == n \in 1..Len(owner) /\ owner[n] = h

Whole(s) == cache[s].psk = cache[s].ticket /\ IssuedTo(cache[s].ticket, cache[s].host)

SlotsInv ==
  \A s \in 1..Slots : cache[s].valid =>
    /\ Whole(s)
    /\ \A r \in 1..Slots : cache[r].valid /\ cache[r].host = cache[s].host => r = s

StoreInv(t) ==
  LET w == work[t]
  IN Storing(t) =>
       /\ w.slot \in 1..Slots /\ IssuedTo(w.identity, w.host)
       /\ \A s \in 1..Slots : cache[s].valid /\ cache[s].host = w.host => s = w.slot
       /\ step[t] # "clear" => ~cache[w.slot].valid /\ cache[w.slot].host = w.host
       /\ step[t] \in {"ticket", "valid"} => cache[w.slot].psk = w.identity
       /\ step[t] = "valid" => cache[w.slot].ticket = w.identity

HandshakeInv(t) ==
  LET w == work[t]
  IN /\ step[t] \in {"hello", "binder", "answer", "keys"} => w.host \in Hosts
     /\ step[t] \in {"binder", "answer", "keys"} /\ w.identity # None => w.slot # NoSlot

Inv(t) == Types /\ SlotsInv /\ StoreInv(t) /\ HandshakeInv(t)

-----------------------------------------------------------------------------
(* Every set of slots that is not empty has a first one.                   *)
LEMMA FirstOfMember ==
  ASSUME NEW S, S \subseteq 1..Slots, S # {}
  PROVE  FirstOf(S) \in S
<1>1. S \in SUBSET Nat
  BY SlotsAssumption
<1> QED
  BY <1>1, LeastNumber DEF FirstOf

(* A lookup finds a slot that holds the host, or none.                     *)
LEMMA TicketFindFinds ==
  ASSUME NEW h
  PROVE  \/ TicketFind(h) = NoSlot
         \/ /\ TicketFind(h) \in 1..Slots
            /\ cache[TicketFind(h)].valid /\ cache[TicketFind(h)].host = h
<1>1. Holding(h) \subseteq 1..Slots
  BY DEF Holding
<1>2. CASE Holding(h) # {}
  BY <1>1, <1>2, FirstOfMember DEF TicketFind, Holding
<1> QED
  BY <1>2 DEF TicketFind

(* A ticket is stored over the only slot that holds its host, if one does. *)
LEMMA TicketSlotChoice ==
  ASSUME SlotsInv, NEW h
  PROVE  /\ TicketSlot(h) \in 1..Slots
         /\ \A s \in 1..Slots : cache[s].valid /\ cache[s].host = h => s = TicketSlot(h)
<1>1. Holding(h) \subseteq 1..Slots /\ Free \subseteq 1..Slots /\ 1 \in 1..Slots
  BY SlotsAssumption DEF Holding, Free
<1>2. CASE Holding(h) # {}
  <2>1. TicketSlot(h) \in Holding(h)
    BY <1>1, <1>2, FirstOfMember DEF TicketSlot
  <2> QED
    BY <2>1 DEF Holding, SlotsInv
<1>3. CASE Holding(h) = {}
  <2>1. TicketSlot(h) \in 1..Slots
    BY <1>1, <1>3, FirstOfMember DEF TicketSlot
  <2> QED
    BY <1>3, <2>1 DEF Holding
<1> QED
  BY <1>2, <1>3

-----------------------------------------------------------------------------
(* The thread's step at the cache, and its locals, are each one record.    *)
LEMMA Locals ==
  ASSUME NEW t, Threads = {t}, Types
  PROVE  /\ step[t] \in {"idle", "hello", "binder", "answer", "keys",
                         "clear", "psk", "ticket", "valid"}
         /\ work[t] \in [host : Hosts \cup {NoHost}, slot : 0..Slots,
                         identity : {None} \cup Tickets, binder : {None} \cup Tickets,
                         client : {None} \cup Tickets, server : {None} \cup Tickets]
         /\ \A x : [step EXCEPT ![t] = x][t] = x /\ [work EXCEPT ![t] = x][t] = x
  BY DEF Types, TypeOK

LEMMA InitInv ==
  ASSUME NEW t, Threads = {t}, Init
  PROVE  Inv(t)
<1>1. TypeOK
  <2>1. EmptySlot \in Slot
    BY DEF EmptySlot, Slot
  <2>2. Idle \in [host : Hosts \cup {NoHost}, slot : 0..Slots,
                 identity : {None} \cup Tickets, binder : {None} \cup Tickets,
                 client : {None} \cup Tickets, server : {None} \cup Tickets]
    BY SlotsAssumption DEF Idle, NoSlot
  <2>3. owner \in Seq(Hosts)
    BY DEF Init
  <2> QED
    BY <2>1, <2>2, <2>3 DEF Init, TypeOK
<1>2. Len(owner) <= MaxTickets
  BY MaxTicketsAssumption DEF Init
<1>3. SlotsInv
  BY DEF Init, SlotsInv, EmptySlot
<1>4. step[t] = "idle"
  BY DEF Init
<1> QED
  BY <1>1, <1>2, <1>3, <1>4 DEF Inv, Types, StoreInv, Storing, HandshakeInv

(* A handshake step: the cache is not written.                             *)
LEMMA LookupKeeps ==
  ASSUME NEW t, Threads = {t}, Inv(t), NEW h \in Hosts, Lookup(t, h)
  PROVE  Inv(t)'
<1>1. PICK s \in {TicketFind(h), NoSlot} :
        work' = [work EXCEPT ![t] = [Idle EXCEPT !.host = h, !.slot = s]]
  BY DEF Lookup
<1>2. step' = [step EXCEPT ![t] = "hello"] /\ UNCHANGED <<cache, open, owner>>
  BY DEF Lookup
<1>3. s = NoSlot \/ (s \in 1..Slots /\ cache[s].valid /\ cache[s].host = h)
  <2>1. CASE s = TicketFind(h)
    BY <2>1, TicketFindFinds, Zenon
  <2> QED
    BY <1>1, <2>1
<1>4. s \in 0..Slots
  BY <1>3, SlotsAssumption DEF NoSlot
<1>5. /\ step'[t] = "hello"
      /\ work'[t] = [Idle EXCEPT !.host = h, !.slot = s]
  BY <1>1, <1>2, Locals DEF Inv
<1>6. work'[t].slot = s /\ work'[t].host = h
  BY <1>5 DEF Idle
<1>7. TypeOK'
  BY <1>1, <1>2, <1>4 DEF Inv, Types, TypeOK, Idle, None
<1> QED
  BY <1>2, <1>3, <1>5, <1>6, <1>7
     DEF Inv, Types, SlotsInv, Whole, IssuedTo, StoreInv, Storing, HandshakeInv

LEMMA BuildHelloKeeps ==
  ASSUME NEW t, Threads = {t}, Inv(t), BuildHello(t)
  PROVE  Inv(t)'
<1> DEFINE w == work[t]
           n == IF w.slot = NoSlot THEN None ELSE cache[w.slot].ticket
<1>1. /\ step[t] = "hello"
      /\ work' = [work EXCEPT ![t].identity = n]
      /\ step' = [step EXCEPT ![t] = "binder"] /\ UNCHANGED <<cache, open, owner>>
  BY DEF BuildHello
<1>2. n \in {None} \cup Tickets
  BY DEF Inv, Types, TypeOK, Slot, NoSlot
<1>3. work'[t] = [work[t] EXCEPT !.identity = n] /\ step'[t] = "binder"
  BY <1>1 DEF Inv, Types, TypeOK
<1>4. work'[t].identity = n /\ work'[t].slot = w.slot /\ work'[t].host = w.host
  BY <1>3, Locals DEF Inv
<1>5. TypeOK'
  BY <1>1, <1>2 DEF Inv, Types, TypeOK
<1> QED
  BY <1>1, <1>3, <1>4, <1>5
     DEF Inv, Types, SlotsInv, Whole, IssuedTo, StoreInv, Storing, HandshakeInv

LEMMA SignHelloKeeps ==
  ASSUME NEW t, Threads = {t}, Inv(t), SignHello(t)
  PROVE  Inv(t)'
<1> DEFINE w == work[t]
           n == IF w.slot = NoSlot THEN None ELSE cache[w.slot].psk
<1>1. /\ step[t] = "binder"
      /\ work' = [work EXCEPT ![t].binder = n]
      /\ step' = [step EXCEPT ![t] = "answer"] /\ UNCHANGED <<cache, open, owner>>
  BY DEF SignHello
<1>2. n \in {None} \cup Tickets
  BY DEF Inv, Types, TypeOK, Slot, NoSlot
<1>3. work'[t] = [work[t] EXCEPT !.binder = n] /\ step'[t] = "answer"
  BY <1>1 DEF Inv, Types, TypeOK
<1>4. /\ work'[t].identity = w.identity /\ work'[t].binder = n
      /\ work'[t].slot = w.slot /\ work'[t].host = w.host
  BY <1>3, Locals DEF Inv
<1>5. TypeOK'
  BY <1>1, <1>2 DEF Inv, Types, TypeOK
<1> QED
  BY <1>1, <1>3, <1>4, <1>5
     DEF Inv, Types, SlotsInv, Whole, IssuedTo, StoreInv, Storing, HandshakeInv

LEMMA AnswerKeeps ==
  ASSUME NEW t, Threads = {t}, Inv(t), PskAccepted(t) \/ PskRejected(t)
  PROVE  Inv(t)'
<1> DEFINE w == work[t]
<1>1. /\ step[t] = "answer" /\ UNCHANGED <<cache, open, owner>>
      /\ step' = [step EXCEPT ![t] = "keys"]
  BY DEF PskAccepted, PskRejected
<1>2. PICK k \in {None} \cup Tickets, m \in {None} \cup Tickets :
        work' = [work EXCEPT ![t].client = k, ![t].server = m]
  <2>1. CASE PskRejected(t)
    BY <2>1 DEF PskRejected
  <2>2. CASE PskAccepted(t)
    <3>1. w.identity # None
          /\ work' = [work EXCEPT ![t].client = cache[w.slot].psk,
                                  ![t].server = w.identity]
      BY <2>2 DEF PskAccepted
    <3>2. w.slot \in 1..Slots
      BY <1>1, <3>1, Locals, SlotsAssumption DEF Inv, HandshakeInv, NoSlot
    <3>3. cache[w.slot].psk \in {None} \cup Tickets
      BY <3>2 DEF Inv, Types, TypeOK, Slot
    <3>4. w.identity \in {None} \cup Tickets
      BY Locals DEF Inv
    <3> QED
      BY <3>1, <3>3, <3>4
  <2> QED
    BY <2>1, <2>2
<1>3. /\ step'[t] = "keys"
      /\ work'[t] = [work[t] EXCEPT !.client = k, !.server = m]
  BY <1>1, <1>2 DEF Inv, Types, TypeOK
<1>4. /\ work'[t].identity = w.identity /\ work'[t].binder = w.binder
      /\ work'[t].slot = w.slot /\ work'[t].host = w.host
  BY <1>3, Locals DEF Inv
<1>5. TypeOK'
  <2>1. work'[t] \in [host : Hosts \cup {NoHost}, slot : 0..Slots,
                    identity : {None} \cup Tickets, binder : {None} \cup Tickets,
                    client : {None} \cup Tickets, server : {None} \cup Tickets]
    <3>1. work[t] \in [host : Hosts \cup {NoHost}, slot : 0..Slots,
                      identity : {None} \cup Tickets, binder : {None} \cup Tickets,
                      client : {None} \cup Tickets, server : {None} \cup Tickets]
      BY Locals DEF Inv
    <3>2. work'[t] = [host |-> w.host, slot |-> w.slot, identity |-> w.identity,
                      binder |-> w.binder, client |-> k, server |-> m]
      BY <1>3, <3>1
    <3> QED
      BY <1>2, <3>1, <3>2
  <2>2. work' = [u \in Threads |-> work'[t]]
    BY <1>2 DEF Inv, Types, TypeOK
  <2>3. step' \in [Threads -> {"idle", "hello", "binder", "answer", "keys",
                             "clear", "psk", "ticket", "valid"}]
    BY <1>1 DEF Inv, Types, TypeOK
  <2> QED
    BY <1>1, <2>1, <2>2, <2>3 DEF Inv, Types, TypeOK
<1> QED
  BY <1>1, <1>3, <1>4, <1>5
     DEF Inv, Types, SlotsInv, Whole, IssuedTo, StoreInv, Storing, HandshakeInv

(* A handshake that ends, a connection that closes.                        *)
LEMMA EndKeeps ==
  ASSUME NEW t, Threads = {t}, Inv(t),
         \/ Connected(t) \/ HandshakeFails(t)
         \/ \E h \in Hosts : Close(t, h)
  PROVE  Inv(t)'
<1>1. UNCHANGED <<cache, work, owner>> /\ step'[t] = "idle"
  BY DEF Connected, HandshakeFails, Close, Inv, Types, TypeOK
<1>2. TypeOK'
  <2>1. step' \in [Threads -> {"idle", "hello", "binder", "answer", "keys",
                               "clear", "psk", "ticket", "valid"}]
    BY DEF Connected, HandshakeFails, Close, Inv, Types, TypeOK
  <2>2. open' \in [Threads -> SUBSET Hosts]
    <3>1. CASE Connected(t)
      <4>1. step[t] = "keys" /\ open' = [open EXCEPT ![t] = @ \cup {work[t].host}]
        BY <3>1 DEF Connected
      <4>2. work[t].host \in Hosts
        BY <4>1 DEF Inv, HandshakeInv
      <4> QED
        BY <4>1, <4>2 DEF Inv, Types, TypeOK
    <3>2. CASE HandshakeFails(t)
      BY <3>2 DEF HandshakeFails, Inv, Types, TypeOK
    <3>3. CASE \E h \in Hosts : Close(t, h)
      BY <3>3 DEF Close, Inv, Types, TypeOK
    <3> QED
      BY <3>1, <3>2, <3>3
  <2> QED
    BY <1>1, <2>1, <2>2 DEF Inv, Types, TypeOK
<1> QED
  BY <1>1, <1>2
     DEF Inv, Types, SlotsInv, Whole, IssuedTo, StoreInv, Storing, HandshakeInv

(* A ticket arrives.                                                       *)
LEMMA ReceiveTicketKeeps ==
  ASSUME NEW t, Threads = {t}, Inv(t), NEW h \in Hosts, ReceiveTicket(t, h)
  PROVE  Inv(t)'
<1> DEFINE n == Len(owner) + 1
           new == [Idle EXCEPT !.host = h, !.slot = TicketSlot(h), !.identity = n]
<1>1. /\ Len(owner) < MaxTickets /\ owner' = Append(owner, h)
      /\ work' = [work EXCEPT ![t] = [Idle EXCEPT !.host = h, !.slot = TicketSlot(h),
                                                  !.identity = Len(owner')]]
      /\ step' = [step EXCEPT ![t] = "clear"] /\ UNCHANGED <<cache, open>>
  BY DEF ReceiveTicket
<1>2. owner \in Seq(Hosts) /\ Len(owner) \in Nat
  BY LenProperties DEF Inv, Types, TypeOK
<1>3. /\ owner' \in Seq(Hosts) /\ Len(owner') = n /\ owner'[n] = h
      /\ \A m \in 1..Len(owner) : owner'[m] = owner[m]
  BY <1>1, <1>2, AppendProperties
<1>4. work'[t] = new /\ step'[t] = "clear"
  <2>1. work' = [work EXCEPT ![t] = new]
    BY <1>1, <1>3
  <2> HIDE DEF new
  <2> QED
    BY <1>1, <2>1 DEF Inv, Types, TypeOK
<1>5. work'[t].slot = TicketSlot(h) /\ work'[t].host = h /\ work'[t].identity = n
  BY <1>4 DEF Idle
<1>6. /\ TicketSlot(h) \in 1..Slots
      /\ \A s \in 1..Slots : cache[s].valid /\ cache[s].host = h => s = TicketSlot(h)
  BY TicketSlotChoice DEF Inv
<1>7. TypeOK'
  <2>1. n \in Tickets /\ TicketSlot(h) \in 0..Slots
    BY <1>1, <1>2, <1>6, MaxTicketsAssumption, SlotsAssumption DEF Tickets
  <2>2. new \in [host : Hosts \cup {NoHost}, slot : 0..Slots,
                 identity : {None} \cup Tickets, binder : {None} \cup Tickets,
                 client : {None} \cup Tickets, server : {None} \cup Tickets]
    BY <2>1 DEF Idle
  <2> QED
    BY <1>1, <1>3, <2>2 DEF Inv, Types, TypeOK
<1>8. Len(owner') <= MaxTickets
  BY <1>1, <1>2, <1>3, MaxTicketsAssumption
<1>9. SlotsInv'
  <2>1. ASSUME NEW m, NEW x, IssuedTo(m, x) PROVE IssuedTo(m, x)'
    BY <1>2, <1>3, <2>1 DEF IssuedTo
  <2> QED
    BY <1>1, <2>1 DEF Inv, SlotsInv, Whole
<1>10. StoreInv(t)'
  <2>1. n \in 1..Len(owner') /\ owner'[n] = h
    BY <1>2, <1>3
  <2> QED
    BY <1>1, <1>4, <1>5, <1>6, <2>1 DEF StoreInv, IssuedTo
<1>11. HandshakeInv(t)'
  BY <1>4 DEF HandshakeInv
<1> QED
  BY <1>7, <1>8, <1>9, <1>10, <1>11 DEF Inv, Types

(* A step of a store: only its slot changes, which no lookup finds before  *)
(* the last of them.                                                       *)
LEMMA StoreKeeps ==
  ASSUME NEW t, Threads = {t}, Inv(t),
         ClearSlot(t) \/ StorePsk(t) \/ StoreTicket(t) \/ Publish(t)
  PROVE  Inv(t)'
<1> DEFINE w == work[t]
<1>1. /\ w.slot \in 1..Slots /\ IssuedTo(w.identity, w.host) /\ w.identity \in Tickets
      /\ w.host \in Hosts \cup {NoHost}
      /\ \A s \in 1..Slots : cache[s].valid /\ cache[s].host = w.host => s = w.slot
      /\ UNCHANGED <<open, work, owner>>
  <2>1. Storing(t) /\ UNCHANGED <<open, work, owner>>
    BY DEF ClearSlot, StorePsk, StoreTicket, Publish, Storing
  <2>2. w.slot \in 1..Slots /\ IssuedTo(w.identity, w.host)
    BY <2>1 DEF Inv, StoreInv
  <2>3. w.identity # None
    BY <2>2 DEF IssuedTo, None
  <2> QED
    BY <2>1, <2>2, <2>3, Locals DEF Inv, StoreInv
<1>2. /\ cache \in [1..Slots -> Slot]
      /\ step \in [Threads -> {"idle", "hello", "binder", "answer", "keys",
                               "clear", "psk", "ticket", "valid"}]
  BY DEF Inv, Types, TypeOK
<1>3. PICK e \in Slot :
        /\ cache' = [cache EXCEPT ![w.slot] = e] /\ e.host = w.host
        /\ \/ step'[t] \in {"psk", "ticket", "valid"} /\ ~e.valid
           \/ step'[t] = "idle" /\ e.psk = w.identity /\ e.ticket = w.identity
        /\ step'[t] \in {"ticket", "valid"} => e.psk = w.identity
        /\ step'[t] = "valid" => e.ticket = w.identity
        /\ step' \in [Threads -> {"idle", "hello", "binder", "answer", "keys",
                                  "clear", "psk", "ticket", "valid"}]
  <2>0. step[t] # "clear" /\ Storing(t) => ~cache[w.slot].valid /\ cache[w.slot].host = w.host
    BY DEF Inv, StoreInv
  <2>1. CASE ClearSlot(t)
    <3> DEFINE e == [EmptySlot EXCEPT !.host = w.host]
    <3>1. e \in Slot /\ e.host = w.host /\ ~e.valid
      BY <1>1 DEF EmptySlot, Slot, None
    <3>2. cache' = [cache EXCEPT ![w.slot] = e] /\ step' = [step EXCEPT ![t] = "psk"]
      BY <2>1 DEF ClearSlot
    <3> HIDE DEF e
    <3>3. step'[t] = "psk"
      BY <1>2, <3>2
    <3> QED
      BY <1>2, <3>1, <3>2, <3>3
  <2>2. CASE StorePsk(t)
    <3> DEFINE e == [cache[w.slot] EXCEPT !.psk = w.identity]
    <3>1. /\ step[t] = "psk"
          /\ cache' = [cache EXCEPT ![w.slot].psk = w.identity]
          /\ step' = [step EXCEPT ![t] = "ticket"]
      BY <2>2 DEF StorePsk
    <3>2. ~cache[w.slot].valid /\ cache[w.slot].host = w.host
      BY <2>0, <3>1 DEF Storing
    <3>3. e \in Slot /\ e.host = w.host /\ ~e.valid /\ e.psk = w.identity
      BY <1>1, <1>2, <3>2 DEF Slot
    <3>4. cache' = [cache EXCEPT ![w.slot] = e]
      BY <1>1, <1>2, <3>1
    <3> HIDE DEF e
    <3>5. step'[t] = "ticket"
      BY <1>2, <3>1
    <3> QED
      BY <1>2, <3>1, <3>3, <3>4, <3>5
  <2>3. CASE StoreTicket(t)
    <3> DEFINE e == [cache[w.slot] EXCEPT !.ticket = w.identity]
    <3>1. /\ step[t] = "ticket"
          /\ cache' = [cache EXCEPT ![w.slot].ticket = w.identity]
          /\ step' = [step EXCEPT ![t] = "valid"]
      BY <2>3 DEF StoreTicket
    <3>2. ~cache[w.slot].valid /\ cache[w.slot].host = w.host
      BY <2>0, <3>1 DEF Storing
    <3>3. cache[w.slot].psk = w.identity
      BY <3>1 DEF Inv, StoreInv, Storing
    <3>4. /\ e \in Slot /\ e.host = w.host /\ ~e.valid
          /\ e.psk = w.identity /\ e.ticket = w.identity
      BY <1>1, <1>2, <3>2, <3>3 DEF Slot
    <3>5. cache' = [cache EXCEPT ![w.slot] = e]
      BY <1>1, <1>2, <3>1
    <3> HIDE DEF e
    <3>6. step'[t] = "valid"
      BY <1>2, <3>1
    <3> QED
      BY <1>2, <3>1, <3>4, <3>5, <3>6
  <2>4. CASE Publish(t)
    <3> DEFINE e == [cache[w.slot] EXCEPT !.valid = TRUE]
    <3>1. /\ step[t] = "valid"
          /\ cache' = [cache EXCEPT ![w.slot].valid = TRUE]
          /\ step' = [step EXCEPT ![t] = "idle"]
      BY <2>4 DEF Publish
    <3>2. cache[w.slot].host = w.host
      BY <2>0, <3>1 DEF Storing
    <3>3. cache[w.slot].psk = w.identity /\ cache[w.slot].ticket = w.identity
      BY <3>1 DEF Inv, StoreInv, Storing
    <3>4. e \in Slot /\ e.host = w.host /\ e.psk = w.identity /\ e.ticket = w.identity
      BY <1>1, <1>2, <3>2, <3>3 DEF Slot
    <3>5. cache' = [cache EXCEPT ![w.slot] = e]
      BY <1>1, <1>2, <3>1
    <3> HIDE DEF e
    <3>6. step'[t] = "idle"
      BY <1>2, <3>1
    <3> QED
      BY <1>2, <3>1, <3>4, <3>5, <3>6
  <2> QED
    BY <2>1, <2>2, <2>3, <2>4
<1>4. cache'[w.slot] = e /\ \A s \in 1..Slots : s # w.slot => cache'[s] = cache[s]
  BY <1>1, <1>2, <1>3
<1>5. TypeOK'
  BY <1>1, <1>2, <1>3 DEF Inv, Types, TypeOK
<1>6. SlotsInv'
  <2>1. ASSUME NEW s \in 1..Slots, cache'[s].valid PROVE Whole(s)'
    <3>1. CASE s = w.slot
      BY <1>1, <1>3, <1>4, <2>1, <3>1 DEF Whole, IssuedTo
    <3>2. CASE s # w.slot
      BY <1>1, <1>4, <2>1, <3>2 DEF Inv, SlotsInv, Whole, IssuedTo
    <3> QED
      BY <3>1, <3>2
  <2>2. ASSUME NEW s \in 1..Slots, NEW r \in 1..Slots,
               cache'[s].valid, cache'[r].valid, cache'[r].host = cache'[s].host
        PROVE  r = s
    <3>1. CASE s = w.slot
      BY <1>1, <1>3, <1>4, <2>2, <3>1
    <3>2. CASE r = w.slot
      BY <1>1, <1>3, <1>4, <2>2, <3>2
    <3>3. CASE s # w.slot /\ r # w.slot
      BY <1>4, <2>2, <3>3 DEF Inv, SlotsInv
    <3> QED
      BY <3>1, <3>2, <3>3
  <2> QED
    BY <2>1, <2>2 DEF SlotsInv
<1>7. StoreInv(t)'
  BY <1>1, <1>3, <1>4 DEF StoreInv, IssuedTo, Storing
<1>8. HandshakeInv(t)'
  BY <1>3 DEF HandshakeInv
<1> QED
  BY <1>1, <1>5, <1>6, <1>7, <1>8 DEF Inv, Types

-----------------------------------------------------------------------------
LEMMA StepKeeps ==
  ASSUME NEW t, Threads = {t}, Inv(t), [Next]_vars
  PROVE  Inv(t)'
<1>1. CASE UNCHANGED vars
  BY <1>1 DEF vars, Inv, Types, TypeOK, SlotsInv, Whole, IssuedTo, StoreInv, Storing,
              HandshakeInv
<1>2. CASE \E h \in Hosts : Lookup(t, h)
  BY <1>2, LookupKeeps
<1>3. CASE \E h \in Hosts : ReceiveTicket(t, h)
  BY <1>3, ReceiveTicketKeeps
<1>4. CASE BuildHello(t)
  BY <1>4, BuildHelloKeeps
<1>5. CASE SignHello(t)
  BY <1>5, SignHelloKeeps
<1>6. CASE PskAccepted(t) \/ PskRejected(t)
  BY <1>6, AnswerKeeps
<1>7. CASE Connected(t) \/ HandshakeFails(t) \/ \E h \in Hosts : Close(t, h)
  BY <1>7, EndKeeps
<1>8. CASE ClearSlot(t) \/ StorePsk(t) \/ StoreTicket(t) \/ Publish(t)
  BY <1>8, StoreKeeps
<1> QED
  BY <1>1, <1>2, <1>3, <1>4, <1>5, <1>6, <1>7, <1>8 DEF Next

LEMMA InvHolds ==
  ASSUME NEW t, Threads = {t}
  PROVE  Spec => []Inv(t)
<1>1. Init => Inv(t)
  BY InitInv
<1>2. Inv(t) /\ [Next]_vars => Inv(t)'
  BY StepKeeps
<1> QED
  BY <1>1, <1>2, PTL DEF Spec

(* The fields of the cache and the locals of the thread have their types.  *)
THEOREM TypesOfOneThread ==
  ASSUME NEW t, Threads = {t}
  PROVE  Spec => []TypeOK
<1>1. Inv(t) => TypeOK
  BY DEF Inv, Types
<1> QED
  BY <1>1, InvHolds, PTL

(* tls13_store_ticket publishes no slot that is not whole, and no second   *)
(* one for a host.                                                         *)
THEOREM SlotsOfOneThread ==
  ASSUME NEW t, Threads = {t}
  PROVE  Spec => []ValidSlotsAreWhole
<1>1. Inv(t) => ValidSlotsAreWhole
  BY DEF Inv, SlotsInv, Whole, IssuedTo, ValidSlotsAreWhole, None
<1> QED
  BY <1>1, InvHolds, PTL

-----------------------------------------------------------------------------
(* n is the latest ticket of host h.                                       *)
IsNewest(n, h) ==
  IssuedTo(n, h) /\ \A m \in 1..Len(owner) : owner[m] = h => m <= n

(* Of the slots S, one holds ticket n of h, or all hold other hosts.       *)
Keeps(n, h, S) ==
  \/ \E s \in S : cache[s].valid /\ cache[s].host = h /\ cache[s].ticket = n
  \/ \A s \in S : cache[s].valid /\ cache[s].host # h

(* Between stores the cache keeps every host's newest ticket, or is full   *)
(* of others; during one it is the newest of its host, and the slots it    *)
(* does not write keep those of the other hosts.                           *)
NewestInv(t) ==
  LET w == work[t]
  IN \A h \in Hosts, n \in 1..Len(owner) : IsNewest(n, h) =>
       /\ ~Storing(t) => Keeps(n, h, 1..Slots)
       /\ Storing(t) => IF h = w.host THEN n = w.identity
                        ELSE Keeps(n, h, 1..Slots \ {w.slot})

(* Newest is the latest ticket where the host has issued one.              *)
LEMMA NewestIs ==
  ASSUME owner \in Seq(Hosts), NEW h, Newest(h) # None
  PROVE  Newest(h) \in 1..Len(owner) /\ IsNewest(Newest(h), h)
<1> DEFINE issued == {n \in 1..Len(owner) : owner[n] = h}
<1>1. issued # {} /\ Newest(h) = CHOOSE n \in issued : \A m \in issued : m <= n
  BY DEF Newest
<1>2. issued \in SUBSET Nat /\ Len(owner) \in Nat /\ \A n \in issued : n <= Len(owner)
  BY LenProperties
<1>3. \E n \in issued : \A m \in issued : m <= n
  BY <1>1, <1>2, GreatestNumber
<1>4. Newest(h) \in issued /\ \A m \in issued : m <= Newest(h)
  BY <1>1, <1>3
<1> QED
  BY <1>4 DEF IsNewest, IssuedTo

(* A ticket arrives: it is its host's newest, and the slot chosen for it   *)
(* takes no other host's while a slot is free.                             *)
LEMMA ReceiveTicketKeepsNewest ==
  ASSUME NEW t, Threads = {t}, Inv(t), NewestInv(t), NEW h \in Hosts, ReceiveTicket(t, h)
  PROVE  NewestInv(t)'
<1> DEFINE n == Len(owner) + 1
           s == TicketSlot(h)
<1>1. /\ owner' = Append(owner, h) /\ cache' = cache /\ ~Storing(t)
      /\ step' = [step EXCEPT ![t] = "clear"]
      /\ work' = [work EXCEPT ![t] = [Idle EXCEPT !.host = h, !.slot = s,
                                                  !.identity = Len(owner')]]
  BY DEF ReceiveTicket, Storing
<1>2. owner \in Seq(Hosts) /\ Len(owner) \in Nat
  BY LenProperties DEF Inv, Types, TypeOK
<1>3. /\ Len(owner') = n /\ owner'[n] = h
      /\ \A m \in 1..Len(owner) : owner'[m] = owner[m]
  BY <1>1, <1>2, AppendProperties
<1>4. /\ work'[t].slot = s /\ work'[t].host = h /\ work'[t].identity = n
      /\ step'[t] = "clear"
  <2> DEFINE new == [Idle EXCEPT !.host = h, !.slot = s, !.identity = n]
  <2>1. new.slot = s /\ new.host = h /\ new.identity = n
    BY DEF Idle
  <2>2. work' = [work EXCEPT ![t] = new]
    BY <1>1, <1>3
  <2> HIDE DEF new
  <2> QED
    BY <1>1, <2>1, <2>2 DEF Inv, Types, TypeOK
<1>5. s \in 1..Slots /\ \A r \in 1..Slots : cache[r].valid /\ cache[r].host = h => r = s
  BY TicketSlotChoice DEF Inv
<1>6. \/ Holding(h) # {} /\ s \in Holding(h)
      \/ Free # {} /\ s \in Free
      \/ Holding(h) = {} /\ Free = {}
  <2>1. Holding(h) \subseteq 1..Slots /\ Free \subseteq 1..Slots
    BY DEF Holding, Free
  <2> QED
    BY <2>1, FirstOfMember DEF TicketSlot
<1>7. ASSUME NEW g \in Hosts, NEW m \in 1..Len(owner'), IsNewest(m, g)'
      PROVE  IF g = h THEN m = n ELSE Keeps(m, g, 1..Slots \ {s})
  <2>1. CASE g = h
    BY <1>2, <1>3, <1>7, <2>1 DEF IsNewest, IssuedTo
  <2>2. CASE g # h
    <3>1. m \in 1..Len(owner) /\ IsNewest(m, g)
      BY <1>2, <1>3, <1>7, <2>2 DEF IsNewest, IssuedTo
    <3>2. Keeps(m, g, 1..Slots)
      BY <1>1, <3>1 DEF NewestInv
    <3>3. CASE \A r \in 1..Slots : cache[r].valid /\ cache[r].host # g
      BY <2>2, <3>3 DEF Keeps
    <3>4. ASSUME NEW r \in 1..Slots,
                 cache[r].valid, cache[r].host = g, cache[r].ticket = m
          PROVE  Keeps(m, g, 1..Slots \ {s})
      <4>1. CASE r # s
        BY <3>4, <4>1 DEF Keeps
      <4>2. CASE r = s
        <5>1. Holding(h) = {} /\ Free = {}
          BY <1>6, <2>2, <3>4, <4>2 DEF Holding, Free
        <5>2. \A q \in 1..Slots \ {s} : cache[q].valid /\ cache[q].host # g
          BY <3>4, <4>2, <5>1 DEF Free, Inv, SlotsInv
        <5> QED
          BY <5>2 DEF Keeps
      <4> QED
        BY <4>1, <4>2
    <3> QED
      BY <2>2, <3>2, <3>3, <3>4 DEF Keeps
  <2> QED
    BY <2>1, <2>2
<1> QED
  BY <1>1, <1>4, <1>7 DEF NewestInv, Storing, Keeps

(* A step of a store writes its own slot only; the last one puts the       *)
(* newest ticket of its host there.                                        *)
LEMMA StoreKeepsNewest ==
  ASSUME NEW t, Threads = {t}, Inv(t), NewestInv(t),
         ClearSlot(t) \/ StorePsk(t) \/ StoreTicket(t) \/ Publish(t)
  PROVE  NewestInv(t)'
<1> DEFINE w == work[t]
<1>1. /\ Storing(t) /\ UNCHANGED <<work, owner>>
      /\ cache \in [1..Slots -> Slot] /\ w.slot \in 1..Slots
  BY DEF ClearSlot, StorePsk, StoreTicket, Publish, Storing, Inv, Types, TypeOK, StoreInv
<1>2. \A s \in 1..Slots \ {w.slot} : cache'[s] = cache[s]
  BY <1>1 DEF ClearSlot, StorePsk, StoreTicket, Publish
<1>3. ASSUME NEW g \in Hosts, NEW n \in 1..Len(owner), IsNewest(n, g)
      PROVE  IF g = w.host THEN n = w.identity ELSE Keeps(n, g, 1..Slots \ {w.slot})'
  BY <1>1, <1>2, <1>3 DEF NewestInv, Keeps
<1>4. CASE ~Publish(t)
  <2>1. Storing(t)'
    BY <1>4 DEF ClearSlot, StorePsk, StoreTicket, Storing, Inv, Types, TypeOK
  <2> QED
    BY <1>1, <1>3, <2>1 DEF NewestInv, IsNewest, IssuedTo
<1>5. CASE Publish(t)
  <2>1. /\ step[t] = "valid" /\ ~Storing(t)'
        /\ cache' = [cache EXCEPT ![w.slot].valid = TRUE]
    BY <1>5 DEF Publish, Storing, Inv, Types, TypeOK
  <2>2. cache[w.slot].host = w.host /\ cache[w.slot].ticket = w.identity
    BY <2>1 DEF Inv, StoreInv, Storing
  <2>3. /\ cache'[w.slot].valid /\ cache'[w.slot].host = w.host
        /\ cache'[w.slot].ticket = w.identity
    BY <1>1, <2>1, <2>2 DEF Slot
  <2>4. ASSUME NEW g \in Hosts, NEW n \in 1..Len(owner), IsNewest(n, g)
        PROVE  Keeps(n, g, 1..Slots)'
    <3>1. CASE g = w.host
      BY <1>1, <1>3, <2>3, <2>4, <3>1 DEF Keeps
    <3>2. CASE g # w.host
      BY <1>1, <1>3, <2>3, <2>4, <3>2 DEF Keeps
    <3> QED
      BY <3>1, <3>2
  <2> QED
    BY <1>1, <2>1, <2>4 DEF NewestInv, IsNewest, IssuedTo
<1> QED
  BY <1>4, <1>5

(* No other step writes the cache, issues a ticket or begins a store.      *)
LEMMA StepKeepsNewest ==
  ASSUME NEW t, Threads = {t}, Inv(t), NewestInv(t), [Next]_vars
  PROVE  NewestInv(t)'
<1>1. ASSUME UNCHANGED <<cache, owner>>, ~Storing(t), ~Storing(t)'
      PROVE  NewestInv(t)'
  BY <1>1 DEF NewestInv, IsNewest, IssuedTo, Keeps
<1>2. CASE UNCHANGED vars
  BY <1>2 DEF vars, NewestInv, IsNewest, IssuedTo, Keeps, Storing
<1>3. CASE \E h \in Hosts : Lookup(t, h) \/ Close(t, h)
  BY <1>1, <1>3 DEF Lookup, Close, Storing, Inv, Types, TypeOK
<1>4. CASE \E h \in Hosts : ReceiveTicket(t, h)
  BY <1>4, ReceiveTicketKeepsNewest
<1>5. CASE \/ BuildHello(t) \/ SignHello(t) \/ PskAccepted(t) \/ PskRejected(t)
           \/ Connected(t) \/ HandshakeFails(t)
  BY <1>1, <1>5 DEF BuildHello, SignHello, PskAccepted, PskRejected, Connected,
     HandshakeFails, Storing, Inv, Types, TypeOK
<1>6. CASE ClearSlot(t) \/ StorePsk(t) \/ StoreTicket(t) \/ Publish(t)
  BY <1>6, StoreKeepsNewest
<1> QED
  BY <1>2, <1>3, <1>4, <1>5, <1>6 DEF Next

(* ticket_slot never lets an older ticket of a host stand where a newer    *)
(* one was stored, and evicts a host only when no slot is free.            *)
THEOREM NewestTicketOfOneThread ==
  ASSUME NEW t, Threads = {t}
  PROVE  Spec => []NewestTicketKept
<1>1. Init => NewestInv(t)
  BY DEF Init, NewestInv, IsNewest, IssuedTo
<1>2. Inv(t) /\ NewestInv(t) /\ [Next]_vars => NewestInv(t)'
  BY StepKeepsNewest
<1>3. Inv(t) /\ NewestInv(t) => NewestTicketKept
  <2> SUFFICES ASSUME Inv(t), NewestInv(t), ~Storing(t),
                      NEW h \in Hosts, Newest(h) # None
               PROVE  \/ Holding(h) # {} /\ cache[TicketFind(h)].ticket = Newest(h)
                      \/ Holding(h) = {} /\ Free = {}
    BY DEF NewestTicketKept
  <2>1. Newest(h) \in 1..Len(owner) /\ IsNewest(Newest(h), h)
    BY NewestIs DEF Inv, Types, TypeOK
  <2>2. Keeps(Newest(h), h, 1..Slots)
    BY <2>1 DEF NewestInv
  <2>3. CASE \A s \in 1..Slots : cache[s].valid /\ cache[s].host # h
    BY <2>3 DEF Holding, Free
  <2>4. ASSUME NEW s \in 1..Slots, cache[s].valid, cache[s].host = h,
               cache[s].ticket = Newest(h)
        PROVE  Holding(h) # {} /\ cache[TicketFind(h)].ticket = Newest(h)
    <3>1. s \in Holding(h) /\ Holding(h) \subseteq 1..Slots
      BY <2>4 DEF Holding
    <3>2. TicketFind(h) \in Holding(h)
      BY <3>1, FirstOfMember DEF TicketFind
    <3>3. TicketFind(h) = s
      BY <2>4, <3>2 DEF Holding, Inv, SlotsInv
    <3> QED
      BY <2>4, <3>1, <3>3
  <2> QED
    BY <2>2, <2>3, <2>4 DEF Keeps
<1> QED
  BY <1>1, <1>2, <1>3, InvHolds, PTL DEF Spec
=============================================================================
