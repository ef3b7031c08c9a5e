--------------------------- MODULE TlsConnection ---------------------------
(***************************************************************************)
(* A TLS connection over TCP from the handshake (TlsHandshake) to the end  *)
(* of its use: tls_send_request, tls_core_send and tls_core_recv over      *)
(* HTTP/1.1 and HTTP/2 (nanotls.c), with a server and a network.           *)
(*                                                                         *)
(* The handshake leaves hs_buf, the keys, both sequence numbers and the    *)
(* connection itself to the data.  An HTTP/2 frame of n units is           *)
(* Frame(kind, k, n), with a header unit and n - 1 units of payload; the k *)
(* tells frames apart.  Over HTTP/1.1 there is only payload.               *)
(***************************************************************************)
EXTENDS TlsHandshake

CONSTANTS
  BodyLengths,   \* units the body of a response may have
  MaxFrame,      \* units of payload a DATA frame may carry (16384 bytes)
  Window,        \* units of DATA the client's settings allow (6 MB)
  CallerLengths, \* units the caller's buffer may hold
  MaxRequests,   \* requests the application makes
  MaxInFlight    \* records the socket buffers of the server's side hold

ASSUME BodyLengthsAssumption == BodyLengths \subseteq Nat \ {0}
ASSUME MaxFrameAssumption == MaxFrame \in Nat \ {0} /\ Window \in Nat
ASSUME CallerLengthsAssumption ==
  CallerLengths \subseteq Nat /\ \E n \in CallerLengths : \A m \in CallerLengths : m <= n
ASSUME MaxRequestsAssumption == MaxRequests \in Nat

VARIABLES
  is_h2,        \* what Connect says of it; the server speaks the same
  caller_len,   \* the size of the buffer the application gives tls_core_recv
  receiving,    \* a call of tls_core_recv is running
  requests,     \* requests made
  outbound,     \* records written that the server has not read
  torn,         \* history: a write() was short
  server,       \* the server's side of the connection
  response,     \* history: the frames the server answered with
  delivered     \* history: what calls of tls_core_recv returned

dataVars == <<is_h2, caller_len, receiving, requests, outbound, torn, server,
              response, delivered>>
vars == <<hsVars, dataVars>>

hsOnly == <<version, fate, transcript, secret, server_ccs_received, keys, answered>>

-----------------------------------------------------------------------------
Kinds == {"HEADERS", "DATA", "SETTINGS", "ACK", "GOAWAY", "EXT"}

Frame(kind, k, n) == [i \in 1..n |-> <<kind, i, n, k>>]

(* n units of body as DATA frames, each but the last one full.             *)
DataFrames(n) ==
  [k \in 1..((n + MaxFrame - 1) \div MaxFrame) |->
     Frame("DATA", k, 1 + Min({MaxFrame, n - (k - 1) * MaxFrame}))]

(* A first response over HTTP/2 follows the server's SETTINGS and another  *)
(* frame: one that needs no answer, or one of an extension, whose type is  *)
(* above 9 (ALTSVC, ORIGIN, PRIORITY_UPDATE).                              *)
Http2Responses ==
  {<<Frame("SETTINGS", 0, 1)>> \o between \o <<Frame("HEADERS", 0, 2)>> \o DataFrames(n) :
     between \in {<<Frame("ACK", 0, 1)>>, <<Frame("EXT", 0, 1)>>},
     n \in BodyLengths}

Responses(k) == IF is_h2 THEN Http2Responses
                ELSE {<<Frame("BODY", k, n)>> : n \in BodyLengths}

(* What flow control lets the server send.  No WINDOW_UPDATE ever follows  *)
(* the one of the request.                                                 *)
DataLength(frames) ==
  LET sum[j \in 0..Len(frames)] ==
        IF j = 0 THEN 0
        ELSE sum[j - 1] + (IF frames[j][1][1] = "DATA" THEN Len(frames[j]) - 1 ELSE 0)
  IN sum[Len(frames)]

Allowed(frames) ==
  LET fit == {j \in 0..Len(frames) : DataLength(SubSeq(frames, 1, j)) <= Window}
  IN SubSeq(frames, 1, Max(fit))

-----------------------------------------------------------------------------
DataInit ==
  /\ is_h2 \in BOOLEAN
  /\ caller_len \in IF is_h2 THEN CallerLengths ELSE {Max(CallerLengths)}
  /\ receiving = FALSE
  /\ requests = 0
  /\ outbound = <<>> /\ torn = FALSE
  /\ server = [up |-> TRUE, next |-> FirstDataNumber, key |-> "data",
               seq |-> FirstDataNumber, to_send |-> <<>>, rekeyed |-> FALSE,
               asked |-> 0]
  /\ response = <<>> /\ delivered = <<>>

Init == HsInit /\ DataInit

(* Mutant: the number is only used up when the record went out whole.      *)
WriteAdvancesOnSuccess(what) ==
  \E short \in {FALSE, ~torn} :
    /\ outbound' = Append(outbound, [what |-> what, key |-> keys, seq |-> client_seq,
                                     torn |-> short])
    /\ torn' = (torn \/ short)
    /\ used' = Append(used, <<keys, client_seq>>)
    /\ client_seq' = IF short THEN client_seq ELSE client_seq + 1

(* tls_core_send: one record, one write(), whose result may be short, once *)
(* in a connection.                                                        *)
Write(what) ==
  \E short \in {FALSE, ~torn} :
    /\ outbound' = Append(outbound, [what |-> what, key |-> keys, seq |-> client_seq,
                                     torn |-> short])
    /\ torn' = (torn \/ short)
    /\ used' = Append(used, <<keys, client_seq>>)
    /\ client_seq' = client_seq + 1

(* tls_send_request: a request is one record; over HTTP/2 preface,         *)
(* SETTINGS, WINDOW_UPDATE and the HEADERS of stream 1, each time.         *)
SendRequest ==
  /\ status = "done" /\ ~receiving
  /\ requests < MaxRequests
  /\ requests' = requests + 1
  /\ Write("request")
  /\ UNCHANGED <<hsOnly, wire, status, hs_buf, server_seq, is_h2, caller_len,
                 receiving, server, response, delivered>>

CallRecv ==
  /\ status = "done" /\ ~receiving
  /\ requests > 0
  /\ receiving' = TRUE
  /\ UNCHANGED <<hsVars, is_h2, caller_len, requests, outbound, torn, server,
                 response, delivered>>

-----------------------------------------------------------------------------
Return(data) ==
  /\ receiving' = FALSE
  /\ delivered' = delivered \o data
  /\ UNCHANGED status

(* tls_core_recv returns -1; the application closes the connection.        *)
ReturnError ==
  /\ receiving' = FALSE
  /\ status' = "closed"
  /\ UNCHANGED delivered

GoOn == UNCHANGED <<receiving, delivered, status>>

(* Mutant: a truncated frame is consumed only as far as it was returned.   *)
ConsumedShort(kind, n) == IF kind = "DATA" THEN Min({n, 1 + caller_len}) ELSE n

Consumed(kind, n) == n

(* A whole HTTP/2 frame at the front of the queue.  Where no header is, a  *)
(* kind and a length are read all the same.                                *)
TakeFrame(kind, n) ==
  LET rest == SubSeq(hs_buf, Consumed(kind, n) + 1, Len(hs_buf))
  IN /\ n <= Len(hs_buf)
     /\ \/ /\ kind \in {"HEADERS", "DATA"}
           /\ Return(SubSeq(hs_buf, 2, Min({n, 1 + caller_len})))
           /\ hs_buf' = rest
           /\ UNCHANGED <<outbound, torn, used, client_seq>>
        \/ /\ kind = "SETTINGS"
           /\ Write("ack")
           /\ GoOn /\ hs_buf' = rest
        \/ /\ kind = "ACK"
           /\ GoOn /\ hs_buf' = rest
           /\ UNCHANGED <<outbound, torn, used, client_seq>>
        \/ /\ kind = "GOAWAY"
           /\ ReturnError /\ hs_buf' = <<>>
           /\ UNCHANGED <<outbound, torn, used, client_seq>>

(* A frame of a type above 9 is taken for plain HTTP/1: whatever is queued *)
(* goes to the caller as it is.                                            *)
GiveUpFraming ==
  /\ Return(SubSeq(hs_buf, 1, Min({Len(hs_buf), caller_len})))
  /\ hs_buf' = <<>>
  /\ UNCHANGED <<outbound, torn, used, client_seq>>

RecvFrame ==
  /\ receiving /\ is_h2
  /\ \E u \in Foremost(hs_buf) :
       \E kind \in IF HasHeader(u) THEN {u[1]} ELSE Kinds,
          n \in IF HasHeader(u) THEN {u[3]} ELSE Misreadings :
         IF kind = "EXT" THEN GiveUpFraming ELSE TakeFrame(kind, n)
  /\ UNCHANGED <<hsOnly, wire, server_seq, is_h2, caller_len, requests, server,
                 response>>

(* The queue has no whole frame, or HTTP/1.1 uses none.                    *)
NeedsRecord ==
  is_h2 => \A u \in Foremost(hs_buf) :
             ~HasHeader(u) \/ (u[1] # "EXT" /\ u[3] > Len(hs_buf))

(* Mutant: a ticket or a key update ends the call.                         *)
RefusedWithTickets(r) == ~Decrypts(r) \/ r.type \in {"alert", "handshake"}

Refused(r) == ~Decrypts(r) \/ r.type = "alert"

(* The next record.  A NewSessionTicket (TicketCache) and a KeyUpdate are  *)
(* passed over, and the keys stay as they are.                             *)
RecvRecord ==
  \E r \in NextRecord :
    /\ receiving /\ NeedsRecord
    /\ Read
    /\ server_seq' = server_seq + 1
    /\ IF Refused(r)
       THEN ReturnError /\ UNCHANGED hs_buf
       ELSE IF r.type = "handshake" THEN GoOn /\ UNCHANGED hs_buf
       ELSE IF ~is_h2 THEN Return(r.body) /\ UNCHANGED hs_buf
       ELSE IF Fits(r.body) THEN GoOn /\ hs_buf' = hs_buf \o r.body
       ELSE ReturnError /\ UNCHANGED hs_buf
    /\ UNCHANGED <<hsOnly, client_seq, used, is_h2, caller_len, requests,
                   outbound, torn, server, response>>

(* Nothing comes for 5 s, since the server has nothing to send; or the     *)
(* connection breaks.                                                      *)
Stuck == Len(outbound) = 1 /\ \A o \in Foremost(outbound) : o.torn

RecvFails ==
  /\ receiving /\ NeedsRecord
  /\ \/ fate' = "cut"
     \/ /\ wire = <<>> /\ server.to_send = <<>>
        /\ outbound = <<>> \/ Stuck \/ ~server.up
        /\ UNCHANGED fate
  /\ ReturnError
  /\ UNCHANGED <<version, transcript, secret, server_ccs_received, keys, answered,
                 wire, hs_buf, client_seq, server_seq, used, is_h2, caller_len, requests, outbound, torn, server, response>>

-----------------------------------------------------------------------------
ServerRecord(type, body) ==
  Record(type, server.key, server.seq, body)

(* What is left of a frame the server has begun to send.                   *)
RestOfFrame ==
  LET q == server.to_send
  IN IF \E u \in Foremost(q) : ~HasHeader(u)
     THEN SubSeq(q, 1, q[1][3] - q[1][2] + 1)
     ELSE <<>>

(* The server reads a record.  One that was cut short runs into the next   *)
(* one and does not decrypt; the server answers with an alert and is gone. *)
(* A second preface is an error of the HTTP/2 connection.                  *)
ServerAnswers ==
  \E o \in Foremost(outbound) :
    /\ status = "done" /\ server.up /\ ~Stuck
    /\ outbound' = Tail(outbound)
    /\ IF o.torn \/ o.key # "data" \/ o.seq # server.next
       THEN /\ wire' = Append(wire, ServerRecord("alert", Alert))
            /\ server' = [server EXCEPT !.up = FALSE, !.to_send = <<>>]
            /\ UNCHANGED response
       ELSE IF o.what = "ack"
       THEN /\ server' = [server EXCEPT !.next = @ + 1]
            /\ UNCHANGED <<wire, response>>
       ELSE IF is_h2 /\ server.asked > 0
       THEN /\ server' = [server EXCEPT !.up = FALSE,
                            !.to_send = RestOfFrame \o Frame("GOAWAY", 0, 1)]
            /\ UNCHANGED <<wire, response>>
       ELSE \E frames \in Responses(server.asked + 1) :
              /\ server' = [server EXCEPT !.next = @ + 1, !.asked = @ + 1,
                              !.to_send = @ \o FlattenSeq(Allowed(frames))]
              /\ response' = response \o frames
              /\ UNCHANGED wire
    /\ UNCHANGED <<hsOnly, status, hs_buf, client_seq, server_seq, used, is_h2,
                   caller_len, receiving, requests, torn, delivered>>

(* The server sends what it has in records of the size it likes.           *)
ServerSends ==
  \E n \in 1..MaxRecord :
    /\ status = "done"
    /\ n <= Len(server.to_send) /\ Len(wire) < MaxInFlight
    /\ wire' = Append(wire, ServerRecord("data", SubSeq(server.to_send, 1, n)))
    /\ server' = [server EXCEPT !.seq = @ + 1,
                    !.to_send = SubSeq(@, n + 1, Len(@))]
    /\ UNCHANGED <<hsOnly, status, hs_buf, client_seq, server_seq, used, is_h2,
                   caller_len, receiving, requests, outbound, torn, response,
                   delivered>>

(* TLS 1.3 post-handshake messages: a ticket, or a KeyUpdate, after which  *)
(* the server uses its next key.  At most one KeyUpdate, and tickets only  *)
(* before the first request.                                               *)
ServerPostHandshake ==
  /\ status = "done" /\ version = "1.3" /\ server.up
  /\ Len(wire) < MaxInFlight
  /\ \/ /\ server.asked = 0 /\ server.seq = 0 /\ ~server.rekeyed
        /\ wire' = Append(wire, ServerRecord("handshake", Message("NewSessionTicket", 1)))
        /\ server' = [server EXCEPT !.seq = @ + 1]
     \/ /\ ~server.rekeyed
        /\ wire' = Append(wire, ServerRecord("handshake", Message("KeyUpdate", 1)))
        /\ server' = [server EXCEPT !.key = "next", !.seq = 0, !.rekeyed = TRUE]
  /\ UNCHANGED <<hsOnly, status, hs_buf, client_seq, server_seq, used, is_h2,
                 caller_len, receiving, requests, outbound, torn, response, delivered>>

-----------------------------------------------------------------------------
HandshakeStep == HsNext /\ UNCHANGED dataVars

DataStep ==
  \/ SendRequest \/ CallRecv \/ RecvFrame \/ RecvRecord \/ RecvFails
  \/ ServerAnswers \/ ServerSends \/ ServerPostHandshake

Next == HandshakeStep \/ DataStep

Spec == Init /\ [][Next]_vars

(* Somebody goes on: the application reads until tls_core_recv fails, the  *)
(* server answers what it reads, and reads time out.                       *)
FairSpec == Spec /\ WF_vars(Next)

-----------------------------------------------------------------------------
TypeOK ==
  /\ HsTypeOK
  /\ is_h2 \in BOOLEAN /\ receiving \in BOOLEAN /\ torn \in BOOLEAN
  /\ caller_len \in CallerLengths /\ requests \in 0..MaxRequests
  /\ \A i \in DOMAIN outbound : outbound[i].seq \in Nat

(* No nonce of the client is used twice, over the Finished, the requests   *)
(* and the SETTINGS acknowledgements that tls_core_recv sends by itself,   *)
(* whatever write() returned.                                              *)
NonceUsedOnce == \A i, j \in DOMAIN used : used[i] = used[j] => i = j

(* A server takes every record, unless a write was short or a second       *)
(* HTTP/2 request came: the numbers of both ends stay in step through the  *)
(* change of keys and the records tls_core_recv sends.                     *)
ServerInStep == server.up \/ torn \/ (is_h2 /\ requests > 1)

(* What the responses hold for the caller: over HTTP/2 as much of each     *)
(* payload as the caller's buffer takes.                                   *)
Expected ==
  FlattenSeq([j \in DOMAIN response |->
    IF ~is_h2 THEN response[j]
    ELSE IF response[j][1][1] \in {"HEADERS", "DATA"}
    THEN SubSeq(response[j], 2, Min({Len(response[j]), 1 + caller_len}))
    ELSE <<>>])

HasExtension == \E j \in DOMAIN response : response[j][1][1] = "EXT"

(* The caller gets the responses in order, and only from a frame longer    *)
(* than its buffer is anything left out; however frames are cut into       *)
(* records, with tickets and key updates in between, as long as the server *)
(* sends no frame of an unknown type.                                      *)
DeliveredInOrder == HasExtension \/ IsPrefix(delivered, Expected)

(* What cuts a response short: a short write, a KeyUpdate (nanotls.c:1355),*)
(* an unknown frame (nanotls.c:1379), a body longer than the window        *)
(* (nanotls.c:1391), a second HTTP/2 request (nanotls.c:1984).  Nothing    *)
(* else does.                                                              *)
Smooth ==
  /\ fate = "good" /\ ~torn /\ ~server.rekeyed /\ ~HasExtension
  /\ is_h2 => requests = 1 /\ DataLength(response) <= Window

AllArrived == server.asked = requests /\ delivered = Expected

ResponseArrives ==
  (status = "done" /\ requests > 0 /\ Smooth) ~> (AllArrived \/ ~Smooth)
=============================================================================
