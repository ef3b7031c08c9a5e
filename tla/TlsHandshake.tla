---------------------------- MODULE TlsHandshake ----------------------------
(***************************************************************************)
(* The TLS handshake over TCP (nanotls.c: tls13_handshake after the        *)
(* ClientHello is sent) against a server that speaks TLS 1.3 or TLS 1.2.   *)
(* The server cuts its messages into records as it likes.  The client      *)
(* reads one record at a time, queues the handshake bytes it carries in    *)
(* hs_buf, and handles every whole message at the front of the queue.      *)
(*                                                                         *)
(* A message of n units is the sequence <<name, 1, n>> .. <<name, n, n>>;  *)
(* its first unit holds the header, which gives n.  A client that has lost *)
(* a unit reads the header where there is none.  The name "flight" below   *)
(* is the server's first flight; TLS 1.2 has a second one, which answers   *)
(* the client's.  Connect has the attempts around this handshake, and      *)
(* TicketCache its pre-shared key.                                         *)
(***************************************************************************)
EXTENDS Integers, Sequences, SequencesExt, FiniteSetsExt

CONSTANTS
  CertLengths,   \* units a Certificate may have
  MaxRecord,     \* units a record may carry (16384 bytes)
  HsBufSize      \* units hs_buf holds (131072 bytes)

ASSUME CertLengthsAssumption == CertLengths \subseteq Nat \ {0}
ASSUME MaxRecordAssumption == MaxRecord \in Nat \ {0}
ASSUME HsBufSizeAssumption == HsBufSize \in Nat \ {0}

VARIABLES
  version,     \* what the server chooses, "1.3" or "1.2"
  fate,        \* how the server and the network behave, see Fates
  wire,        \* records the server has sent and the client has not read
  status,      \* "hello sent", "running", "done", "failed" or, later, "closed"
  hs_buf,      \* the queue of handshake bytes, later of HTTP/2 frames
  transcript,  \* what the transcript hash has absorbed after ClientHello
  secret,      \* TRUE: handshake_secret is the one shared with the server
  server_ccs_received,
  keys,        \* the traffic keys the client has: "none", "handshake", "data"
  client_seq, server_seq,
  used,        \* history: the <<key, number>> of each record the client sent
  answered     \* the server has answered the client's flight

hsVars == <<version, fate, wire, status, hs_buf, transcript, secret,
            server_ccs_received, keys, client_seq, server_seq, used, answered>>

(* The server completes its part; gives up; chooses a key exchange that    *)
(* the client cannot do; in TLS 1.2, chooses a cipher suite other than     *)
(* AES-128-GCM, the only one the client has keys for though it offers      *)
(* more; or the connection breaks.  (Of those suites the ones without a    *)
(* ServerKeyExchange are left out: they end in the same alert.)            *)
Fates == {"good", "alert", "other group", "other suite", "cut"}

-----------------------------------------------------------------------------
Message(name, n) == [i \in 1..n |-> <<name, i, n>>]
HasHeader(u) == u[2] = 1
NameOf(m) == m[1][1]

ClientKeyExchange == Message("ClientKeyExchange", 1)
ClientFinished == Message("ClientFinished", 1)
ServerHello == Message("ServerHello", 1)
Finished == Message("Finished", 1)
(* An alert is shorter than a message header: alone it is never whole.     *)
Alert == <<<<"Alert", 1, HsBufSize + 1>>>>

Flight13(c) ==
  Message("EncryptedExtensions", 2) \o Message("Certificate", c) \o Finished

Flight12(c) ==
  ServerHello \o Message("Certificate", c) \o Message("ServerKeyExchange", 2)
    \o Message("ServerHelloDone", 1)

(* Every way of cutting s into pieces of at most MaxRecord units.          *)
Cuts(s) ==
  LET from[i \in 1..Len(s) + 1] ==
        IF i > Len(s) THEN {<<>>}
        ELSE UNION {{<<SubSeq(s, i, i + n - 1)>> \o rest : rest \in from[i + n]} :
                    n \in 1..Min({MaxRecord, Len(s) + 1 - i})}
  IN from[1]

Record(type, key, seq, body) ==
  [type |-> type, key |-> key, seq |-> seq, body |-> body]
Plain(type, body) == Record(type, "none", 0, body)

(* In TLS 1.3 the ServerHello is alone in its record, since the rest is    *)
(* encrypted; a ChangeCipherSpec may follow it.                            *)
Wire13(pieces) ==
  LET encrypted == [i \in 1..Len(pieces) |->
                      Record("encrypted", "handshake", i - 1, pieces[i])]
  IN <<Plain("handshake", ServerHello)>> \o <<Plain("ccs", <<>>)>> \o encrypted

Wire12(pieces) == [i \in 1..Len(pieces) |-> Plain("handshake", pieces[i])]

(* The server gives up between two messages of its flight: what it sent    *)
(* before, an alert, encrypted once there are keys, and nothing after.     *)
Boundary(pieces, k) == k = 0 \/ Last(pieces[k])[2] = Last(pieces[k])[3]

Aborted(v, pieces) ==
  {IF v = "1.2"
   THEN SubSeq(Wire12(pieces), 1, k) \o <<Plain("alert", Alert)>>
   ELSE SubSeq(Wire13(pieces), 1, k + 2)
          \o <<Record("encrypted", "handshake", k, Alert)>> :
     k \in {k \in 0..Len(pieces) - 1 : Boundary(pieces, k)}}
    \cup {<<Plain("alert", Alert)>>}

FirstFlights(v, f) ==
  LET cuts == UNION {Cuts(IF v = "1.3" THEN Flight13(c) ELSE Flight12(c)) :
                     c \in CertLengths}
  IN IF f = "alert" THEN UNION {Aborted(v, pieces) : pieces \in cuts}
     ELSE {IF v = "1.3" THEN Wire13(pieces) ELSE Wire12(pieces) : pieces \in cuts}

-----------------------------------------------------------------------------
HsInit ==
  /\ version \in {"1.2", "1.3"}
  /\ fate \in Fates \ {"cut"}
  /\ fate = "other suite" => version = "1.2"
  /\ wire \in FirstFlights(version, fate)
  /\ status = "hello sent"
  /\ hs_buf = <<>>
  /\ transcript = <<>>
  /\ secret = FALSE
  /\ server_ccs_received = FALSE
  /\ keys = "none"
  /\ client_seq = 0 /\ server_seq = 0
  /\ used = <<>>
  /\ answered = FALSE


(* The whole messages at the front of the queue, each a sequence of units; *)
(* misread is the length found where there is no header.                   *)
Messages(b, misread) ==
  LET from[i \in 1..Len(b) + 1] ==
        IF i > Len(b) THEN <<>>
        ELSE LET n == IF HasHeader(b[i]) THEN b[i][3] ELSE misread
             IN IF i + n > Len(b) + 1 THEN <<>>
                ELSE <<SubSeq(b, i, i + n - 1)>> \o from[i + n]
  IN from[1]

(* Mutant: the queue is emptied when its messages have been handled.       *)
NothingLeft(b, msgs) == IF msgs = <<>> THEN b ELSE <<>>

(* What stays in the queue when they have been handled.                    *)
Remainder(b, msgs) == SubSeq(b, Len(FlattenSeq(msgs)) + 1, Len(b))

Misreadings == {1, HsBufSize + 1}

(* A TLS 1.2 message: the key exchange gives the secret unless its curve   *)
(* is not X25519; ServerHelloDone is answered with the client's flight,    *)
(* under keys for AES-128-GCM whatever the suite.                          *)
Handle12(st, m) ==
  IF st.failed THEN st
  ELSE IF NameOf(m) = "ServerKeyExchange"
  THEN [st EXCEPT !.transcript = @ \o m, !.secret = TRUE,
                  !.failed = fate = "other group"]
  ELSE IF NameOf(m) = "ServerHelloDone"
  THEN [st EXCEPT !.transcript = @ \o m \o ClientKeyExchange \o ClientFinished,
                  !.flight = TRUE]
  ELSE [st EXCEPT !.transcript = @ \o m]

(* What comes of all messages of the queue.                                *)
Handled12(msgs) ==
  LET after[j \in 0..Len(msgs)] ==
        IF j = 0 THEN [transcript |-> transcript, secret |-> secret,
                       flight |-> FALSE, failed |-> FALSE]
        ELSE Handle12(after[j - 1], msgs[j])
  IN after[Len(msgs)]

(* Mutant: hs_buf is not checked for room.                                 *)
FitsAlways(body) == TRUE

Fits(body) == Len(hs_buf) + Len(body) <= HsBufSize

(* The first element of s, if it has one.                                  *)
Foremost(s) == {s[i] : i \in DOMAIN s \cap {1}}

(* The record at the head of the connection, if it has arrived.            *)
NextRecord == Foremost(wire)

Read == wire' = Tail(wire)

Fail == status' = "failed"

-----------------------------------------------------------------------------
(* The record with the ServerHello: it is hashed whole, whatever else it   *)
(* carries.  TLS 1.3 derives the handshake keys at once.                   *)
ReadServerHello ==
  \E r \in NextRecord :
    /\ status = "hello sent"
    /\ Read
    /\ r.type = "handshake" /\ NameOf(r.body) = "ServerHello"
    /\ ~(version = "1.3" /\ fate = "other group")
    /\ status' = "running"
    /\ transcript' = transcript \o r.body
    /\ keys' = IF version = "1.3" THEN "handshake" ELSE keys
    /\ secret' = (version = "1.3")
    /\ UNCHANGED <<version, fate, hs_buf, server_ccs_received, client_seq,
                   server_seq, used, answered>>

(* A TLS 1.3 ServerHello without a share for an offered group.  One of a   *)
(* version that is switched off is refused as well (Connect).              *)
RefuseServerHello ==
  \E r \in NextRecord :
    /\ status = "hello sent"
    /\ Read
    /\ r.type = "handshake" /\ NameOf(r.body) = "ServerHello"
    /\ version = "1.3" /\ fate = "other group"
    /\ Fail
    /\ UNCHANGED <<version, fate, hs_buf, transcript, secret, server_ccs_received,
                   keys, client_seq, server_seq, used, answered>>

(* An alert in the clear.                                                  *)
ReadAlert ==
  \E r \in NextRecord :
    /\ status \in {"hello sent", "running"}
    /\ Read
    /\ r.type = "alert"
    /\ Fail
    /\ UNCHANGED <<version, fate, hs_buf, transcript, secret, server_ccs_received,
                   keys, client_seq, server_seq, used, answered>>

(* ChangeCipherSpec: TLS 1.2 notes it, TLS 1.3 has no case for it.         *)
ReadChangeCipherSpec ==
  \E r \in NextRecord :
    /\ status = "running"
    /\ Read
    /\ r.type = "ccs"
    /\ server_ccs_received' = (version = "1.2")
    /\ UNCHANGED <<version, fate, status, hs_buf, transcript, secret, keys,
                   client_seq, server_seq, used, answered>>

(* A TLS 1.2 handshake record before ChangeCipherSpec.                     *)
ReadHandshake12 ==
  \E r \in NextRecord, misread \in Misreadings :
    LET msgs == Messages(hs_buf \o r.body, misread)
        st   == Handled12(msgs)
    IN /\ status = "running" /\ version = "1.2"
       /\ Read
       /\ r.type = "handshake" /\ ~server_ccs_received
       /\ IF Fits(r.body)
          THEN /\ transcript' = st.transcript
               /\ secret' = st.secret
               /\ status' = IF st.failed THEN "failed" ELSE status
               /\ hs_buf' = Remainder(hs_buf \o r.body, msgs)
               /\ IF st.flight
                  THEN /\ keys' = "data"
                       /\ client_seq' = client_seq + 1
                       /\ used' = Append(used, <<"data", client_seq>>)
                  ELSE UNCHANGED <<keys, client_seq, used>>
          ELSE Fail /\ UNCHANGED <<hs_buf, transcript, secret, keys, client_seq, used>>
       /\ UNCHANGED <<version, fate, server_ccs_received, server_seq, answered>>

(* What a TLS 1.2 server expects the client to have hashed.                *)
ServerTranscript12(c) == Flight12(c) \o ClientKeyExchange \o ClientFinished

Agreed ==
  \E c \in CertLengths :
    transcript = IF version = "1.2" THEN ServerTranscript12(c)
                 ELSE ServerHello \o Flight13(c) \o ClientFinished

(* The server's second flight, or an alert if it cannot decrypt the        *)
(* client's Finished, its keys or its cipher being others, or if that does *)
(* not fit what the server hashed.                                         *)
ServerAnswers12 ==
  /\ version = "1.2" /\ keys = "data"
  /\ ~answered
  /\ answered' = TRUE
  /\ wire' = wire \o
       IF secret /\ Agreed /\ fate # "other suite"
       THEN <<Plain("ccs", <<>>), Record("handshake", "data", 0, Finished)>>
       ELSE <<Plain("alert", Alert)>>
  /\ UNCHANGED <<version, fate, status, hs_buf, transcript, secret,
                 server_ccs_received, keys, client_seq, server_seq, used>>

Decrypts(r) == r.key = keys /\ r.seq = server_seq

(* A handshake record after ChangeCipherSpec: the server's Finished, whose *)
(* verify_data is compared.                                                *)
ReadFinished12 ==
  \E r \in NextRecord :
    /\ status = "running" /\ version = "1.2"
    /\ Read
    /\ r.type = "handshake" /\ server_ccs_received
    /\ server_seq' = server_seq + 1
    /\ status' = IF Decrypts(r) /\ secret /\ Agreed THEN "done" ELSE "failed"
    /\ UNCHANGED <<version, fate, hs_buf, transcript, secret, server_ccs_received,
                   keys, client_seq, used, answered>>

(* Mutant: the sequence numbers go on when the keys change.                *)
NumbersAfterFinishedKept == <<client_seq + 1, server_seq + 1>>

(* Both sequence numbers start again with the keys for data.               *)
NumbersAfterFinished == <<0, 0>>

(* The number of the first record of data a server sends: its Finished had *)
(* number 0 under the same keys in TLS 1.2.                                *)
FirstDataNumber == IF version = "1.2" THEN 1 ELSE 0

(* A TLS 1.3 record: its bytes, whatever their content type, are queued;   *)
(* the first Finished ends the handshake, its verify_data unread, and      *)
(* empties the queue.                                                      *)
ReadEncrypted13 ==
  \E r \in NextRecord, misread \in Misreadings :
    LET b    == hs_buf \o r.body
        msgs == Messages(b, misread)
        fins == {i \in 1..Len(msgs) : NameOf(msgs[i]) = "Finished"}
        now  == IF fins = {} THEN msgs ELSE SubSeq(msgs, 1, Min(fins))
    IN /\ status = "running" /\ version = "1.3"
       /\ Read
       /\ r.type = "encrypted"
       /\ IF ~Decrypts(r) \/ ~Fits(r.body)
          THEN /\ Fail
               /\ server_seq' = server_seq + 1
               /\ UNCHANGED <<hs_buf, transcript, keys, client_seq, used>>
          ELSE IF fins = {}
          THEN /\ server_seq' = server_seq + 1
               /\ transcript' = transcript \o FlattenSeq(now)
               /\ hs_buf' = Remainder(b, now)
               /\ UNCHANGED <<status, keys, client_seq, used>>
          ELSE /\ status' = "done"
               /\ transcript' = transcript \o FlattenSeq(now) \o ClientFinished
               /\ used' = Append(used, <<"handshake", client_seq>>)
               /\ keys' = "data"
               /\ client_seq' = NumbersAfterFinished[1]
               /\ server_seq' = NumbersAfterFinished[2]
               /\ hs_buf' = <<>>
       /\ UNCHANGED <<version, fate, secret, server_ccs_received, answered>>

(* A read fails: the connection breaks, or nothing more comes for 5 s.     *)
ServerIdle == wire = <<>> /\ (version = "1.2" /\ keys = "data" => answered)

ReadFails ==
  /\ status \in {"hello sent", "running"}
  /\ \/ fate = "good" /\ fate' = "cut"
     \/ ServerIdle /\ UNCHANGED fate
  /\ Fail
  /\ UNCHANGED <<version, wire, hs_buf, transcript, secret, server_ccs_received,
                 keys, client_seq, server_seq, used, answered>>

HsNext ==
  \/ ReadServerHello \/ RefuseServerHello \/ ReadAlert \/ ReadChangeCipherSpec
  \/ ReadHandshake12 \/ ServerAnswers12 \/ ReadFinished12
  \/ ReadEncrypted13 \/ ReadFails

HsFairness == WF_hsVars(HsNext)

-----------------------------------------------------------------------------
HsTypeOK ==
  /\ version \in {"1.2", "1.3"} /\ fate \in Fates
  /\ status \in {"hello sent", "running", "done", "failed", "closed"}
  /\ Len(hs_buf) <= HsBufSize
  /\ secret \in BOOLEAN /\ server_ccs_received \in BOOLEAN /\ answered \in BOOLEAN
  /\ keys \in {"none", "handshake", "data"}
  /\ client_seq \in Nat /\ server_seq \in Nat

(* A handshake that returns success is one the server completes as well:   *)
(* however the flight was cut into records, through both versions, each    *)
(* byte was hashed once and in the server's order, with the client's own   *)
(* messages in their place, and nothing of it is left in the queue that    *)
(* the HTTP/2 frames go through next (tls13_handshake, hs_buf).  Until the *)
(* first record of data, server_seq is the number after the handshake.     *)
DoneMeansAgreed ==
  status = "done" =>
    /\ secret /\ Agreed /\ keys = "data"
    /\ server_seq = FirstDataNumber => hs_buf = <<>>

(* What a handshake needs to end well: a server that behaves; messages     *)
(* that fit the queue with a record more; and, in TLS 1.2, a record with   *)
(* the ServerHello that holds whole messages, neither of the two the       *)
(* client must act on among them, since that record is hashed and not      *)
(* queued (nanotls.c:779).                                                 *)
CertificateLength(w) ==
  Max({1} \cup {u[3] : u \in {u \in UNION {ToSet(w[i].body) : i \in 1..Len(w)} :
                             u[1] = "Certificate"}})

WellCut(body) ==
  /\ Last(body)[2] = Last(body)[3]
  /\ \A u \in ToSet(body) : u[1] \notin {"ServerKeyExchange", "ServerHelloDone"}

GoodStart ==
  /\ status = "hello sent" /\ fate = "good"
  /\ CertificateLength(wire) - 1 + MaxRecord <= HsBufSize
  /\ version = "1.2" => WellCut(Head(wire).body)

=============================================================================
