----------------------------- MODULE TicketCache -----------------------------
(***************************************************************************)
(* The session tickets of the process (nanotls.c: g_ticket_cache) and what *)
(* the connections do with them.  A TLS 1.3 handshake looks its host up,   *)
(* keeps a pointer to the slot, and reads the slot again for the identity  *)
(* it sends, for the binder over it, and, once the server has answered,    *)
(* for the early secret.  A NewSessionTicket read from an open connection  *)
(* is stored over the host's slot, or a free one, or slot 0.               *)
(* Tickets are numbered as servers issue them; the number stands both for  *)
(* the ticket and for the PSK derived with it, so that a slot is good when *)
(* both its fields carry the same number.  The cache has no lock: with     *)
(* several threads their steps interleave.  The steps of one thread follow *)
(* the code's order, one for each time the code touches the slot.          *)
(***************************************************************************)
EXTENDS Integers, Sequences

CONSTANTS Threads,    \* threads that call the library
          Hosts,      \* servers they connect to
          Slots,      \* TLS_TICKET_CACHE_SIZE
          MaxTickets  \* bound of the model: tickets issued in a behaviour

ASSUME SlotsAssumption == Slots \in Nat \ {0}
ASSUME MaxTicketsAssumption == MaxTickets \in Nat

VARIABLES cache,   \* g_ticket_cache
          open,    \* open[t]: hosts thread t has a connection to
          step,    \* step[t]: what thread t does next to the cache
          work,    \* work[t]: its locals, kept after the last step; in a
                   \* store, identity is the ticket that is stored
          owner    \* history: owner[n] is the host that issued ticket n

vars == <<cache, open, step, work, owner>>

None   == 0    \* no ticket, a zeroed field, the all-zero PSK
NoSlot == 0    \* the pointer psk is NULL
NoHost == "no host"

Tickets == 1..MaxTickets

Slot == [valid : BOOLEAN, host : Hosts \cup {NoHost},
         ticket : {None} \cup Tickets, psk : {None} \cup Tickets]

EmptySlot == [valid |-> FALSE, host |-> NoHost, ticket |-> None, psk |-> None]

Idle == [host |-> NoHost, slot |-> NoSlot, identity |-> None, binder |-> None,
         client |-> None, server |-> None]

-----------------------------------------------------------------------------
Holding(h) == {s \in 1..Slots : cache[s].valid /\ cache[s].host = h}

FirstOf(S) == CHOOSE s \in S : \A r \in S : s <= r

TicketFind(h) == IF Holding(h) = {} THEN NoSlot ELSE FirstOf(Holding(h))

Free == {s \in 1..Slots : ~cache[s].valid}

(* Mutant: the slot evicted from a full cache is one past its end.         *)
TicketSlotPastEnd(h) ==
  IF Holding(h) # {} THEN FirstOf(Holding(h))
  ELSE IF Free # {} THEN FirstOf(Free)
  ELSE Slots + 1

(* Mutant: the host's own slot is not looked for.                          *)
TicketSlotNotOwn(h) == IF Free # {} THEN FirstOf(Free) ELSE 1

(* Mutant: slot 0 is evicted though another one is free.                   *)
TicketSlotEvictsEarly(h) ==
  IF Holding(h) # {} THEN FirstOf(Holding(h)) ELSE 1

(* The host's own slot, else the first free one, else slot 0 is evicted.   *)
TicketSlot(h) ==
  IF Holding(h) # {} THEN FirstOf(Holding(h))
  ELSE IF Free # {} THEN FirstOf(Free)
  ELSE 1

-----------------------------------------------------------------------------
Init ==
  /\ cache = [s \in 1..Slots |-> EmptySlot]
  /\ open = [t \in Threads |-> {}]
  /\ step = [t \in Threads |-> "idle"]
  /\ work = [t \in Threads |-> Idle]
  /\ owner = <<>>

(* The handshake looks its host up.  The lifetime of the ticket it finds   *)
(* may be over, and TLS 1.3 may be disabled: then it offers none.          *)
Lookup(t, h) ==
  /\ step[t] = "idle"
  /\ \E s \in {TicketFind(h), NoSlot} :
       work' = [work EXCEPT ![t] = [Idle EXCEPT !.host = h, !.slot = s]]
  /\ step' = [step EXCEPT ![t] = "hello"]
  /\ UNCHANGED <<cache, open, owner>>

(* The ClientHello is built, with the slot's ticket as the identity.       *)
BuildHello(t) ==
  LET s == work[t].slot
  IN /\ step[t] = "hello"
     /\ work' = [work EXCEPT ![t].identity =
                   IF s = NoSlot THEN None ELSE cache[s].ticket]
     /\ step' = [step EXCEPT ![t] = "binder"]
     /\ UNCHANGED <<cache, open, owner>>

(* The binder is computed with the slot's PSK and the hello is sent.       *)
SignHello(t) ==
  LET s == work[t].slot
  IN /\ step[t] = "binder"
     /\ work' = [work EXCEPT ![t].binder =
                   IF s = NoSlot THEN None ELSE cache[s].psk]
     /\ step' = [step EXCEPT ![t] = "answer"]
     /\ UNCHANGED <<cache, open, owner>>

(* The server selects the identity; it has checked the binder against the  *)
(* PSK it recovers from the ticket.  The client's early secret comes from  *)
(* the slot.                                                               *)
PskAccepted(t) ==
  LET w == work[t]
  IN /\ step[t] = "answer"
     /\ w.identity # None
     /\ w.binder = w.identity
     /\ owner[w.identity] = w.host
     /\ work' = [work EXCEPT ![t].client = cache[w.slot].psk,
                             ![t].server = w.identity]
     /\ step' = [step EXCEPT ![t] = "keys"]
     /\ UNCHANGED <<cache, open, owner>>

(* The server ignores the identity, or there was none: both sides use the  *)
(* zero PSK.                                                               *)
PskRejected(t) ==
  /\ step[t] = "answer"
  /\ work' = [work EXCEPT ![t].client = None, ![t].server = None]
  /\ step' = [step EXCEPT ![t] = "keys"]
  /\ UNCHANGED <<cache, open, owner>>

(* The rest of the handshake succeeds if both ends derived the same keys.  *)
Connected(t) ==
  /\ step[t] = "keys"
  /\ work[t].client = work[t].server
  /\ open' = [open EXCEPT ![t] = @ \cup {work[t].host}]
  /\ step' = [step EXCEPT ![t] = "idle"]
  /\ UNCHANGED <<cache, work, owner>>

(* It may fail from any point where it waits for the server: an alert, a   *)
(* closed connection, a record that does not decrypt.                      *)
HandshakeFails(t) ==
  /\ step[t] \in {"answer", "keys"}
  /\ step' = [step EXCEPT ![t] = "idle"]
  /\ UNCHANGED <<cache, open, work, owner>>

Close(t, h) ==
  /\ step[t] = "idle"
  /\ h \in open[t]
  /\ open' = [open EXCEPT ![t] = @ \ {h}]
  /\ UNCHANGED <<cache, step, work, owner>>

-----------------------------------------------------------------------------
(* A NewSessionTicket arrives on an open connection: its PSK is derived    *)
(* into a local and a slot is chosen.                                      *)
ReceiveTicket(t, h) ==
  /\ step[t] = "idle"
  /\ h \in open[t]
  /\ Len(owner) < MaxTickets
  /\ owner' = Append(owner, h)
  /\ work' = [work EXCEPT ![t] =
                [Idle EXCEPT !.host = h, !.slot = TicketSlot(h),
                             !.identity = Len(owner')]]
  /\ step' = [step EXCEPT ![t] = "clear"]
  /\ UNCHANGED <<cache, open>>

(* The slot is zeroed, which invalidates it, and takes the host's name.    *)
ClearSlot(t) ==
  LET w == work[t]
  IN /\ step[t] = "clear"
     /\ cache' = [cache EXCEPT ![w.slot] = [EmptySlot EXCEPT !.host = w.host]]
     /\ step' = [step EXCEPT ![t] = "psk"]
     /\ UNCHANGED <<open, work, owner>>

StorePsk(t) ==
  /\ step[t] = "psk"
  /\ cache' = [cache EXCEPT ![work[t].slot].psk = work[t].identity]
  /\ step' = [step EXCEPT ![t] = "ticket"]
  /\ UNCHANGED <<open, work, owner>>

StoreTicket(t) ==
  /\ step[t] = "ticket"
  /\ cache' = [cache EXCEPT ![work[t].slot].ticket = work[t].identity]
  /\ step' = [step EXCEPT ![t] = "valid"]
  /\ UNCHANGED <<open, work, owner>>

Publish(t) ==
  /\ step[t] = "valid"
  /\ cache' = [cache EXCEPT ![work[t].slot].valid = TRUE]
  /\ step' = [step EXCEPT ![t] = "idle"]
  /\ UNCHANGED <<open, work, owner>>

-----------------------------------------------------------------------------
Next ==
  \E t \in Threads :
    \/ \E h \in Hosts : Lookup(t, h) \/ Close(t, h) \/ ReceiveTicket(t, h)
    \/ BuildHello(t) \/ SignHello(t)
    \/ PskAccepted(t) \/ PskRejected(t) \/ Connected(t) \/ HandshakeFails(t)
    \/ ClearSlot(t) \/ StorePsk(t) \/ StoreTicket(t) \/ Publish(t)

Spec == Init /\ [][Next]_vars

-----------------------------------------------------------------------------
Storing(t) == step[t] \in {"clear", "psk", "ticket", "valid"}

(* The latest ticket the host has issued, None before the first.           *)
Newest(h) ==
  LET issued == {n \in 1..Len(owner) : owner[n] = h}
  IN IF issued = {} THEN None ELSE CHOOSE n \in issued : \A m \in issued : m <= n

TypeOK ==
  /\ cache \in [1..Slots -> Slot]
  /\ open \in [Threads -> SUBSET Hosts]
  /\ step \in [Threads -> {"idle", "hello", "binder", "answer", "keys",
                           "clear", "psk", "ticket", "valid"}]
  /\ work \in [Threads -> [host : Hosts \cup {NoHost}, slot : 0..Slots,
                           identity : {None} \cup Tickets,
                           binder : {None} \cup Tickets,
                           client : {None} \cup Tickets,
                           server : {None} \cup Tickets]]
  /\ owner \in Seq(Hosts)

(* A slot a lookup can find holds one ticket whole: the PSK derived for    *)
(* that ticket, under the name of the host that issued it, and no second   *)
(* slot answers for that host (tls13_store_ticket, ticket_slot).           *)
ValidSlotsAreWhole ==
  \A s \in 1..Slots : cache[s].valid =>
    /\ cache[s].ticket # None
    /\ cache[s].psk = cache[s].ticket
    /\ owner[cache[s].ticket] = cache[s].host
    /\ \A r \in 1..Slots :
         cache[r].valid /\ cache[r].host = cache[s].host => r = s

(* With no store under way, the cache has the newest ticket of every host  *)
(* that issued one; only a cache full of other hosts may lack it, and it   *)
(* never offers an older one instead (ticket_slot).                        *)
NewestTicketKept ==
  (\A t \in Threads : ~Storing(t)) =>
    \A h \in Hosts :
      Newest(h) # None =>
        \/ Holding(h) # {} /\ cache[TicketFind(h)].ticket = Newest(h)
        \/ Holding(h) = {} /\ Free = {}
=============================================================================
