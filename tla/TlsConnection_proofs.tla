------------------------ MODULE TlsConnection_proofs ------------------------
(***************************************************************************)
(* Theorems of TlsConnection, for every set of certificates, cut of the    *)
(* server's messages into records, frames, buffers and requests.           *)
(*                                                                         *)
(* No nonce of the client is used twice.  Every number used under the      *)
(* present keys is below client_seq (Fresh), so that a record always takes *)
(* a new one; and when the keys change nothing has been used under the new *)
(* ones, since the handshake uses none before it has keys (FirstUse,       *)
(* KeysOfPhase).                                                           *)
(*                                                                         *)
(* A handshake that succeeds is one the server completes.  While it runs,  *)
(* hs_buf is the part of the server's flight between what was hashed and   *)
(* what was read, and the records on the connection bring what comes after *)
(* that (Queued, Carries).  Messages takes whole messages off the front    *)
(* and never across the end (QueueHandled), so that the message a flight   *)
(* ends with is only handled when everything has been hashed.              *)
(*                                                                         *)
(* The server takes every record.  What the client has written and the     *)
(* server not read has the numbers the server expects, one after the other *)
(* (InStep), from the ones both begin with when the handshake is over      *)
(* (Handover); and requests are counted along (Counted).                   *)
(*                                                                         *)
(* The caller gets the responses in order.  One stream of units goes from  *)
(* the server to the caller: what has been read of it, what the records on *)
(* the connection carry, and what is still to be sent lie one behind the   *)
(* other (OnWay).  The stream is a front of the frames of the responses,   *)
(* to which a GOAWAY may be added between two frames (Lies); the queue     *)
(* begins where a frame does, so that the client finds each header where   *)
(* the server put it, and the caller has the payloads of the frames before *)
(* (Framed).  The handshake hands over an empty stream.                    *)
(***************************************************************************)
EXTENDS TlsConnection, InductionLemmas

Keys == {"none", "handshake", "data"}
Handshaking == status \in {"hello sent", "running"}

NonceTypes ==
  /\ used \in Seq(Keys \X Nat)
  /\ client_seq \in Nat
  /\ keys \in Keys

Fresh == \A i \in DOMAIN used : used[i][1] = keys => used[i][2] < client_seq

FirstUse == Handshaking /\ keys # "data" => used = <<>>

KeysOfPhase ==
  /\ status = "hello sent" => keys = "none"
  /\ status = "running" /\ version = "1.3" => keys = "handshake"

ReadingLater == receiving => ~Handshaking

NonceInv ==
  NonceTypes /\ Fresh /\ FirstUse /\ KeysOfPhase /\ ReadingLater /\ NonceUsedOnce

-----------------------------------------------------------------------------
(* Before the first record.                                                *)
LEMMA NoneUsed == <<>> \in Seq(Keys \X Nat) /\ DOMAIN <<>> = {}
  OBVIOUS

(* A record sent under keys none of whose numbers from client_seq on has   *)
(* been used takes a nonce of its own.                                     *)
LEMMA NewRecord ==
  ASSUME NonceTypes, NonceUsedOnce, NEW k \in Keys,
         \A i \in DOMAIN used : used[i][1] = k => used[i][2] < client_seq,
         used' = Append(used, <<k, client_seq>>)
  PROVE  /\ used' \in Seq(Keys \X Nat)
         /\ NonceUsedOnce'
         /\ \A i \in DOMAIN used' : used'[i][1] = k => used'[i][2] < client_seq + 1
<1> USE DEF NonceTypes
<1>1. /\ used' \in Seq(Keys \X Nat)
      /\ DOMAIN used' = 1..Len(used) + 1 /\ DOMAIN used = 1..Len(used)
      /\ Len(used) \in Nat
      /\ used'[Len(used) + 1] = <<k, client_seq>>
      /\ \A i \in 1..Len(used) : used'[i] = used[i] /\ used[i] \in Keys \X Nat
  OBVIOUS
<1>2. \A i \in 1..Len(used) : used[i] # <<k, client_seq>>
  BY <1>1
<1>3. NonceUsedOnce'
  <2> SUFFICES ASSUME NEW i \in DOMAIN used', NEW j \in DOMAIN used', used'[i] = used'[j]
               PROVE  i = j
    BY DEF NonceUsedOnce
  <2>1. CASE i \in 1..Len(used) /\ j \in 1..Len(used)
    BY <1>1, <2>1 DEF NonceUsedOnce
  <2>2. CASE i = Len(used) + 1 \/ j = Len(used) + 1
    BY <1>1, <1>2, <2>2
  <2> QED BY <1>1, <2>1, <2>2
<1>4. \A i \in DOMAIN used' : used'[i][1] = k => used'[i][2] < client_seq + 1
  <2> SUFFICES ASSUME NEW i \in DOMAIN used', used'[i][1] = k
               PROVE  used'[i][2] < client_seq + 1
    OBVIOUS
  <2>1. CASE i = Len(used) + 1
    BY <1>1, <2>1
  <2>2. CASE i \in 1..Len(used)
    <3>1. used[i][1] = k /\ used[i][2] \in Nat /\ i \in DOMAIN used
      BY <1>1, <2>2
    <3>2. used[i][2] < client_seq
      BY <3>1
    <3> QED BY <1>1, <2>2, <3>1, <3>2
  <2> QED BY <1>1, <2>1, <2>2
<1> QED BY <1>1, <1>3, <1>4

(* A step that sends nothing and does not change the keys, and goes on at  *)
(* most from the handshake to what follows it.                             *)
LEMMA Silent ==
  ASSUME NonceInv, UNCHANGED <<version, keys, client_seq, used>>,
         status' = status \/ status' \in {"done", "failed", "closed"},
         receiving' = receiving \/ receiving' = FALSE \/ ~Handshaking'
  PROVE  NonceInv'
<1>1. NonceTypes' /\ Fresh' /\ FirstUse' /\ NonceUsedOnce'
  BY DEF NonceInv, NonceTypes, Fresh, FirstUse, NonceUsedOnce, Handshaking
<1>2. KeysOfPhase'
  BY DEF NonceInv, KeysOfPhase
<1>3. Handshaking' => Handshaking
  BY DEF Handshaking
<1>4. ReadingLater'
  BY <1>3, Zenon DEF NonceInv, ReadingLater
<1> QED BY <1>1, <1>2, <1>4 DEF NonceInv

(* tls_core_send after the handshake.                                      *)
LEMMA Writing ==
  ASSUME NonceInv, ~Handshaking, NEW what, Write(what),
         UNCHANGED <<version, keys, status, receiving>>
  PROVE  NonceInv'
<1>1. used' = Append(used, <<keys, client_seq>>) /\ client_seq' = client_seq + 1
  BY DEF Write
<1>2. /\ used' \in Seq(Keys \X Nat)
      /\ NonceUsedOnce'
      /\ \A i \in DOMAIN used' : used'[i][1] = keys => used'[i][2] < client_seq + 1
  BY <1>1, NewRecord DEF NonceInv, NonceTypes, Fresh
<1>3. NonceTypes' /\ Fresh' /\ FirstUse' /\ KeysOfPhase'
  <2>1. keys' = keys /\ status' = status /\ version' = version
    OBVIOUS
  <2>2. NonceTypes'
    BY <1>1, <1>2, <2>1 DEF NonceInv, NonceTypes
  <2>3. Fresh'
    BY <1>1, <1>2, <2>1 DEF Fresh
  <2>4. FirstUse'
    BY <2>1 DEF FirstUse, Handshaking
  <2>5. KeysOfPhase'
    BY <2>1 DEF NonceInv, KeysOfPhase
  <2> QED BY <2>2, <2>3, <2>4, <2>5
<1>4. ReadingLater'
  BY Zenon DEF ReadingLater, Handshaking
<1> QED BY <1>2, <1>3, <1>4 DEF NonceInv

-----------------------------------------------------------------------------
(* The two steps of the handshake that send a record.                      *)
LEMMA FlightKeeps12 ==
  ASSUME NonceInv, ReadHandshake12, UNCHANGED dataVars
  PROVE  NonceInv'
<1>1. /\ status = "running" /\ version = "1.2"
      /\ status' \in {"failed", status}
      /\ receiving' = receiving /\ version' = version
      /\ \/ UNCHANGED <<keys, client_seq, used>>
         \/ /\ keys' = "data"
            /\ client_seq' = client_seq + 1
            /\ used' = Append(used, <<"data", client_seq>>)
  BY DEF ReadHandshake12, Fail, dataVars
<1>2. CASE UNCHANGED <<keys, client_seq, used>>
  BY <1>1, <1>2, Silent
<1>3. CASE /\ keys' = "data"
           /\ client_seq' = client_seq + 1
           /\ used' = Append(used, <<"data", client_seq>>)
  <2>1. \A i \in DOMAIN used : used[i][1] = "data" => used[i][2] < client_seq
    <3>1. CASE keys = "data"
      BY <3>1 DEF NonceInv, Fresh
    <3>2. CASE keys # "data"
      BY <1>1, <3>2 DEF NonceInv, FirstUse, Handshaking
    <3> QED BY <3>1, <3>2
  <2>2. /\ used' \in Seq(Keys \X Nat)
        /\ NonceUsedOnce'
        /\ \A i \in DOMAIN used' : used'[i][1] = "data" => used'[i][2] < client_seq + 1
    BY <1>3, <2>1, NewRecord DEF NonceInv, Keys
  <2>3. NonceTypes' /\ Fresh' /\ FirstUse' /\ KeysOfPhase'
    <3>1. NonceTypes'
      BY <1>3, <2>2 DEF NonceInv, NonceTypes, Keys
    <3>2. Fresh'
      BY <1>3, <2>2 DEF Fresh
    <3>3. FirstUse'
      BY <1>3 DEF FirstUse
    <3>4. KeysOfPhase'
      BY <1>1 DEF NonceInv, KeysOfPhase
    <3> QED BY <3>1, <3>2, <3>3, <3>4
  <2>4. ReadingLater'
    <3>1. Handshaking
      BY <1>1 DEF Handshaking
    <3> QED BY <1>1, <3>1, Zenon DEF NonceInv, ReadingLater
  <2> QED BY <2>2, <2>3, <2>4 DEF NonceInv
<1> QED BY <1>1, <1>2, <1>3

LEMMA FinishedKeeps13 ==
  ASSUME NonceInv, ReadEncrypted13, UNCHANGED dataVars
  PROVE  NonceInv'
<1>1. /\ status = "running" /\ version = "1.3"
      /\ receiving' = receiving /\ version' = version
      /\ \/ /\ status' \in {"failed", status}
            /\ UNCHANGED <<keys, client_seq, used>>
         \/ /\ status' = "done"
            /\ used' = Append(used, <<"handshake", client_seq>>)
            /\ keys' = "data"
            /\ client_seq' = 0
  BY DEF ReadEncrypted13, Fail, dataVars, NumbersAfterFinished
<1>2. CASE status' \in {"failed", status} /\ UNCHANGED <<keys, client_seq, used>>
  BY <1>1, <1>2, Silent
<1>3. CASE /\ status' = "done"
           /\ used' = Append(used, <<"handshake", client_seq>>)
           /\ keys' = "data"
           /\ client_seq' = 0
  <2>1. used = <<>> /\ client_seq \in Nat
    BY <1>1 DEF NonceInv, NonceTypes, FirstUse, KeysOfPhase, Handshaking
  <2>2. /\ used' = <<<<"handshake", client_seq>>>>
        /\ used' \in Seq(Keys \X Nat)
        /\ DOMAIN used' = {1}
    BY <1>3, <2>1 DEF Keys
  <2>3. NonceTypes' /\ FirstUse' /\ KeysOfPhase' /\ NonceUsedOnce'
    BY <1>3, <2>1, <2>2 DEF NonceTypes, FirstUse, KeysOfPhase, NonceUsedOnce,
       Handshaking, Keys
  <2>4. Fresh'
    BY <1>3, <2>1, <2>2 DEF Fresh
  <2>5. ReadingLater'
    <3>1. ~Handshaking'
      BY <1>3 DEF Handshaking
    <3> QED BY <3>1, Zenon DEF ReadingLater
  <2> QED BY <2>3, <2>4, <2>5 DEF NonceInv
<1> QED BY <1>1, <1>2, <1>3

(* Every step of the handshake.                                            *)
LEMMA HandshakeKeeps ==
  ASSUME NonceInv, HandshakeStep
  PROVE  NonceInv'
<1>0. HsNext /\ UNCHANGED dataVars /\ receiving' = receiving
  BY DEF HandshakeStep, dataVars
<1>1. CASE ReadServerHello
  <2>1. /\ status = "hello sent" /\ status' = "running" /\ used' = used
        /\ client_seq' = client_seq /\ version' = version
        /\ keys' = IF version = "1.3" THEN "handshake" ELSE keys
    BY <1>1 DEF ReadServerHello
  <2>2. used = <<>> /\ keys = "none"
    BY <2>1 DEF NonceInv, FirstUse, KeysOfPhase, Handshaking
  <2>3. NonceTypes' /\ Fresh' /\ FirstUse' /\ KeysOfPhase' /\ NonceUsedOnce'
    <3>1. used' = <<>>
      BY <2>1, <2>2
    <3>2. NonceTypes'
      BY <2>1, <2>2, NoneUsed DEF NonceInv, NonceTypes, Keys
    <3>3. Fresh' /\ FirstUse' /\ NonceUsedOnce'
      BY <3>1, NoneUsed DEF Fresh, FirstUse, NonceUsedOnce
    <3>4. KeysOfPhase'
      BY <2>1 DEF KeysOfPhase
    <3> QED BY <3>2, <3>3, <3>4
  <2>4. ReadingLater'
    <3>1. Handshaking
      BY <2>1 DEF Handshaking
    <3> QED BY <1>0, <3>1, Zenon DEF NonceInv, ReadingLater
  <2> QED BY <2>3, <2>4 DEF NonceInv
<1>2. CASE RefuseServerHello
  BY <1>0, <1>2, Silent DEF RefuseServerHello, Fail
<1>3. CASE ReadAlert
  BY <1>0, <1>3, Silent DEF ReadAlert, Fail
<1>4. CASE ReadChangeCipherSpec
  BY <1>0, <1>4, Silent DEF ReadChangeCipherSpec
<1>5. CASE ReadHandshake12
  BY <1>0, <1>5, FlightKeeps12
<1>6. CASE ServerAnswers12
  BY <1>0, <1>6, Silent DEF ServerAnswers12
<1>7. CASE ReadFinished12
  BY <1>0, <1>7, Silent DEF ReadFinished12
<1>8. CASE ReadEncrypted13
  BY <1>0, <1>8, FinishedKeeps13
<1>9. CASE ReadFails
  BY <1>0, <1>9, Silent DEF ReadFails, Fail
<1> QED BY <1>0, <1>1, <1>2, <1>3, <1>4, <1>5, <1>6, <1>7, <1>8, <1>9 DEF HsNext

(* A frame taken from the queue, and the answer to a SETTINGS.             *)
LEMMA FrameKeeps ==
  ASSUME NonceInv, RecvFrame
  PROVE  NonceInv'
<1>1. /\ ~Handshaking /\ UNCHANGED <<version, keys>>
      /\ \/ GiveUpFraming
         \/ \E kind, n : TakeFrame(kind, n)
  BY Zenon DEF RecvFrame, hsOnly, NonceInv, ReadingLater
<1>2. CASE GiveUpFraming
  BY <1>1, <1>2, Silent DEF GiveUpFraming, Return
<1>3. CASE \E kind, n : TakeFrame(kind, n)
  <2>1. \/ Write("ack") /\ UNCHANGED <<receiving, status>>
        \/ /\ UNCHANGED <<used, client_seq>>
           /\ status' \in {status, "closed"}
           /\ receiving' = receiving \/ receiving' = FALSE
    BY <1>3 DEF TakeFrame, GoOn, Return, ReturnError
  <2> QED BY <1>1, <2>1, Writing, Silent
<1> QED BY <1>1, <1>2, <1>3

(* Every step of the data.                                                 *)
LEMMA DataKeeps ==
  ASSUME NonceInv, DataStep
  PROVE  NonceInv'
<1>1. CASE SendRequest
  BY <1>1, Writing DEF SendRequest, hsOnly, Handshaking
<1>2. CASE CallRecv
  BY <1>2, Silent DEF CallRecv, hsVars, Handshaking
<1>3. CASE RecvFrame
  BY <1>3, FrameKeeps
<1>4. CASE RecvRecord
  <2>1. UNCHANGED <<version, keys, client_seq, used>>
    BY <1>4 DEF RecvRecord, hsOnly
  <2>2. status' \in {status, "closed"} /\ (receiving' = receiving \/ receiving' = FALSE)
    BY <1>4 DEF RecvRecord, GoOn, Return, ReturnError
  <2> QED BY <2>1, <2>2, Silent
<1>5. CASE RecvFails
  BY <1>5, Silent DEF RecvFails, ReturnError
<1>6. CASE ServerAnswers
  BY <1>6, Silent DEF ServerAnswers, hsOnly
<1>7. CASE ServerSends
  BY <1>7, Silent DEF ServerSends, hsOnly
<1>8. CASE ServerPostHandshake
  BY <1>8, Silent DEF ServerPostHandshake, hsOnly
<1> QED BY <1>1, <1>2, <1>3, <1>4, <1>5, <1>6, <1>7, <1>8 DEF DataStep

(* NonceInv is inductive.                                                  *)
LEMMA NonceInitially == Init => NonceInv
<1> SUFFICES ASSUME Init PROVE NonceInv
  OBVIOUS
<1>1. used = <<>> /\ client_seq = 0 /\ keys = "none" /\ status = "hello sent"
  BY Zenon DEF Init, HsInit
<1>2. NonceTypes /\ KeysOfPhase
  BY <1>1, NoneUsed DEF NonceTypes, KeysOfPhase, Keys
<1>3. Fresh /\ FirstUse /\ NonceUsedOnce
  BY <1>1, NoneUsed DEF Fresh, FirstUse, NonceUsedOnce
<1>4. ReadingLater
  BY Zenon DEF Init, DataInit, ReadingLater
<1> QED BY <1>2, <1>3, <1>4 DEF NonceInv

LEMMA NonceStep == NonceInv /\ [Next]_vars => NonceInv'
<1> SUFFICES ASSUME NonceInv, [Next]_vars PROVE NonceInv'
  OBVIOUS
<1>1. CASE HandshakeStep
  BY <1>1, HandshakeKeeps
<1>2. CASE DataStep
  BY <1>2, DataKeeps
<1>3. CASE UNCHANGED vars
  BY <1>3, Silent DEF vars, hsVars, dataVars
<1> QED BY <1>1, <1>2, <1>3 DEF Next

(* No nonce of the client is used twice, over both versions, the Finished, *)
(* the requests and the records tls_core_recv sends by itself, whatever    *)
(* write() returned.                                                       *)
THEOREM NoncesUsedOnce == Spec => []NonceUsedOnce
<1>1. NonceInv => NonceUsedOnce
  BY DEF NonceInv
<1> QED BY <1>1, NonceInitially, NonceStep, PTL DEF Spec

-----------------------------------------------------------------------------
(* Flights, and how they are cut.                                          *)

(* The length found in a unit.                                             *)
Found(u, misread) == IF HasHeader(u) THEN u[3] ELSE misread

(* The messages v from behind the first e units of d: each as long as its  *)
(* first unit says, and what is left over is not a whole one.              *)
ReadFrom(v, d, misread, p) ==
  /\ CutAt(v, d, p)
  /\ \A j \in 1..Len(v) : p[j + 1] = p[j] + Found(d[p[j] + 1], misread)
  /\ p[Len(v) + 1] < Len(d) =>
       p[Len(v) + 1] + Found(d[p[Len(v) + 1] + 1], misread) > Len(d)

(* Messages takes the queue apart at its headers, for whatever lengths it  *)
(* finds there, one message behind the other from the front on.            *)
LEMMA MessagesCut ==
  ASSUME NEW S, NEW d, NEW misread
  PROVE  d \in Seq(S) /\ (\A i \in 1..Len(d) : Found(d[i], misread) \in Nat \ {0}) =>
           /\ Messages(d, misread) \in Seq(Seq(S))
           /\ \E p : ReadFrom(Messages(d, misread), d, misread, p) /\ p[1] = 0
<1>0. SUFFICES ASSUME d \in Seq(S), \A i \in 1..Len(d) : Found(d[i], misread) \in Nat \ {0}
               PROVE  /\ Messages(d, misread) \in Seq(Seq(S))
                      /\ \E p : ReadFrom(Messages(d, misread), d, misread, p) /\ p[1] = 0
  OBVIOUS
<1> DEFINE N == Len(d)
           V == Seq(Seq(S))
           At(i, a) ==
             IF i > N THEN <<>>
             ELSE LET n == IF HasHeader(d[i]) THEN d[i][3] ELSE misread
                  IN IF i + n > N + 1 THEN <<>>
                     ELSE <<SubSeq(d, i, i + n - 1)>> \o a[i + n]
           Body(a) == [i \in 1..N + 1 |-> At(i, a)]
           w == CHOOSE a : a = Body(a)
           step == [i \in 1..N + 1 |-> [a \in [1..N + 1 -> V] |-> At(i, a)]]
           L(i) == Found(d[i], misread)
<1>1. Messages(d, misread) = w[1]
  BY DEF Messages
<1>2. N \in Nat /\ \A i \in 1..N : L(i) \in Nat \ {0}
  BY <1>0
<1>3. ASSUME NEW i \in 1..N + 1, i > N \/ i + L(i) > N + 1, NEW a
      PROVE  At(i, a) = <<>>
  BY <1>3 DEF Found
<1>30. ASSUME NEW i \in 1..N + 1, ~(i > N), ~(i + L(i) > N + 1), NEW a
       PROVE  At(i, a) = <<SubSeq(d, i, i + L(i) - 1)>> \o a[i + L(i)]
  BY <1>30 DEF Found
<1>20. <<>> \in V /\ \A x \in Seq(S), v \in V : <<x>> \o v \in V
  <2>1. ASSUME NEW x \in Seq(S), NEW v \in V PROVE <<x>> \o v \in V
    <3>1. <<x>> \in V
      OBVIOUS
    <3> QED BY <3>1, ConcatProperties
  <2>2. <<>> \in V
    OBVIOUS
  <2> QED BY <2>1, <2>2
<1> HIDE DEF At, L, V
<1>4. ASSUME NEW i \in 1..N + 1, NEW a \in [1..N + 1 -> V]
      PROVE  /\ At(i, a) \in V
             /\ \A b \in [1..N + 1 -> V] :
                  (\A j \in i + 1..N + 1 : a[j] = b[j]) => At(i, a) = At(i, b)
  <2>1. CASE i > N \/ i + L(i) > N + 1
    <3>1. \A b : At(i, b) = <<>>
      BY <1>3, <2>1
    <3> QED BY <1>20, <3>1
  <2>2. CASE ~(i > N) /\ ~(i + L(i) > N + 1)
    <3>0. ASSUME NEW b PROVE At(i, b) = <<SubSeq(d, i, i + L(i) - 1)>> \o b[i + L(i)]
      BY <1>30, <2>2
    <3> PICK next : next = i + L(i)
      OBVIOUS
    <3> PICK x : x = SubSeq(d, i, next - 1)
      OBVIOUS
    <3>1. i \in 1..N /\ next \in i + 1..N + 1 /\ next \in 1..N + 1 /\ next - 1 \in 0..N
          /\ i <= (next - 1) + 1
      BY <1>2, <2>2
    <3>20. i + (L(i) - 1) = next - 1
      BY <1>2, <3>1
    <3>2. \A b : At(i, b) = <<x>> \o b[next]
      BY <3>0, <3>20, Zenon
    <3>3. x \in Seq(S)
      <4>1. i \in Nat \ {0}
        BY <3>1
      <4> QED BY <1>0, <3>1, <4>1, Part
    <3>4. a[next] \in V
      BY <3>1
    <3>5. At(i, a) \in V
      BY <1>20, <3>2, <3>3, <3>4
    <3> QED BY <1>20, <3>1, <3>2, <3>5
  <2> QED BY <2>1, <2>2
<1>5. \E g : Solves(g, step, N + 1, V)
  <2> DEFINE top == N + 1
  <2>1. top \in Nat /\ V # {}
    <3>1. <<>> \in V /\ top \in Nat
      BY <1>2, <1>20
    <3> HIDE DEF top
    <3> QED BY <3>1
  <2>2. step \in [1..top -> [[1..top -> V] -> V]]
    <3> HIDE DEF V
    <3> QED BY <1>4
  <2>3. \A i \in 1..top : \A g, h \in [1..top -> V] :
           (\A j \in i + 1..top : g[j] = h[j]) => step[i][g] = step[i][h]
    <3> HIDE DEF V
    <3> QED BY <1>4
  <2>4. LooksAhead(step, top, V)
    <3> HIDE DEF step, top, V
    <3> QED BY <2>2, <2>3 DEF LooksAhead
  <2>5. \E g : Solves(g, step, top, V)
    <3> HIDE DEF step, top, V
    <3> QED BY <2>1, <2>4, LaterValues
  <2> QED BY <2>5
<1>6. PICK g : g \in [1..N + 1 -> V] /\ \A i \in 1..N + 1 : g[i] = At(i, g)
  <2>1. PICK g : Solves(g, step, N + 1, V)
    BY <1>5
  <2>2. g \in [1..N + 1 -> V] /\ \A i \in 1..N + 1 : g[i] = step[i][g]
    <3> HIDE DEF step, V
    <3> QED BY <2>1 DEF Solves
  <2>3. \A i \in 1..N + 1 : step[i][g] = At(i, g)
    <3> HIDE DEF V
    <3> QED BY <2>2
  <2> HIDE DEF V, step
  <2> QED BY <2>2, <2>3
<1>7. w = Body(w)
  <2>1. g = Body(g)
    <3> HIDE DEF V
    <3> QED BY <1>6
  <2> HIDE DEF Body
  <2> QED BY <2>1
<1> HIDE DEF w
<1>8. \A i \in 1..N + 1 : w[i] = At(i, w)
  BY <1>7
<1> HIDE DEF Body
<1> DEFINE Good(i) == w[i] \in V /\ \E p : ReadFrom(w[i], d, misread, p) /\ p[1] = i - 1
           T == {i \in 1..N + 1 : Good(i)}
<1>9. ASSUME NEW i \in 1..N + 1, \A j \in i + 1..N + 1 : j \in T
      PROVE  Good(i)
  <2>1. CASE i > N \/ i + L(i) > N + 1
    <3>1. w[i] = <<>> /\ i - 1 \in 0..N
      <4>1. At(i, w) = <<>>
        BY <1>3, <2>1, Zenon
      <4> QED BY <1>2, <1>8, <4>1
    <3>2. PICK p : CutAt(<<>>, d, p) /\ p[1] = i - 1
      <4> DEFINE e == i - 1
      <4>1. \E p : CutAt(<<>>, d, p) /\ p[1] = e
        <5> HIDE DEF e
        <5>1. e \in 0..Len(d)
          BY <3>1 DEF e
        <5> QED BY <1>0, <5>1, CutNothing
      <4> QED BY <4>1
    <3>3. Len(<<>>) = 0 /\ 1..0 = {}
      OBVIOUS
    <3>4. i - 1 < N => i - 1 + Found(d[i - 1 + 1], misread) > N
      <4> HAVE i - 1 < N
      <4>1. i \in 1..N /\ i - 1 + 1 = i
        BY <1>2
      <4> QED BY <1>2, <2>1, <4>1 DEF L
    <3>5. ReadFrom(<<>>, d, misread, p)
      BY <3>2, <3>3, <3>4 DEF ReadFrom
    <3> QED BY <1>20, <3>1, <3>2, <3>5
  <2>2. CASE ~(i > N) /\ ~(i + L(i) > N + 1)
    <3>n. PICK next : next = i + L(i)
      OBVIOUS
    <3>r. PICK rest : rest = w[next]
      OBVIOUS
    <3>x. PICK x : x = SubSeq(d, i, next - 1)
      OBVIOUS
    <3>e. PICK e : e = i - 1
      OBVIOUS
    <3>a. PICK all : all = <<x>> \o rest
      OBVIOUS
    <3>1. i \in 1..N /\ next \in i + 1..N + 1 /\ L(i) \in Nat
      BY <1>2, <2>2, <3>n
    <3>2. w[i] = all
      <4>1. At(i, w) = all
        <5>1. At(i, w) = <<SubSeq(d, i, i + L(i) - 1)>> \o w[i + L(i)]
          BY <1>30, <2>2
        <5>2. i + (L(i) - 1) = next - 1
          BY <1>2, <3>1, <3>n
        <5> QED BY <5>1, <5>2, <3>a, <3>x, <3>n, <3>r, Zenon
      <4> QED BY <1>8, <4>1
    <3>3. Good(next)
      BY <1>9, <3>1, <3>n
    <3>4. PICK q : ReadFrom(rest, d, misread, q) /\ q[1] = next - 1
      BY <3>3, <3>r
    <3>5. rest \in V /\ Len(rest) \in Nat
      BY <3>3, <3>r DEF V
    <3>6. e \in 0..q[1] - 1 /\ e + 1 = i /\ SubSeq(d, e + 1, q[1]) = x
      BY <3>1, <3>4, <3>x, <3>e, <3>n
    <3>7. CutAt(rest, d, q)
      BY <3>4 DEF ReadFrom
    <3>8. /\ all \in V /\ Len(all) = Len(rest) + 1
          /\ \E p : /\ CutAt(all, d, p) /\ p[1] = e
                    /\ \A j \in 1..Len(rest) + 1 : p[j + 1] = q[j]
      <4>1. all = InFront(d, e, q[1], rest)
        BY <3>6, <3>a DEF InFront
      <4>2. rest \in Seq(Seq(S))
        BY <3>5 DEF V
      <4>3. d \in Seq(S) /\ CutAt(rest, d, q) /\ e \in 0..q[1] - 1
        BY <1>0, <3>6, <3>7
      <4>4. /\ InFront(d, e, q[1], rest) \in Seq(Seq(S))
            /\ Len(InFront(d, e, q[1], rest)) = Len(rest) + 1
            /\ OneMore(InFront(d, e, q[1], rest), d, q, e, Len(rest))
        BY <4>2, <4>3, CutInFront
      <4> QED BY <4>1, <4>4, Zenon DEF OneMore, V
    <3>9. PICK p : CutAt(all, d, p) /\ p[1] = e /\ \A j \in 1..Len(rest) + 1 : p[j + 1] = q[j]
      BY <3>8
    <3>10. ASSUME NEW j \in 1..Len(all)
           PROVE  p[j + 1] = p[j] + Found(d[p[j] + 1], misread)
      <4>1. CASE j = 1
        <5>1. p[2] = q[1] /\ p[1] = i - 1
          BY <3>5, <3>9, <3>8, <3>e
        <5>2. q[1] = i - 1 + L(i)
          BY <3>1, <3>4, <1>2, <3>n
        <5> QED BY <4>1, <5>1, <5>2, <3>1 DEF L
      <4>2. CASE j # 1
        <5>1. j - 1 \in 1..Len(rest) /\ j \in 1..Len(rest) + 1 /\ (j - 1) + 1 = j
              /\ j - 1 \in 1..Len(rest) + 1
          BY <3>5, <3>8, <4>2
        <5>2. p[j + 1] = q[j] /\ p[j] = q[j - 1]
          BY <3>9, <5>1
        <5>3. q[j] = q[j - 1] + Found(d[q[j - 1] + 1], misread)
          BY <3>4, <5>1 DEF ReadFrom
        <5> QED BY <5>2, <5>3
      <4> QED BY <4>1, <4>2
    <3>11. p[Len(all) + 1] = q[Len(rest) + 1]
      <4>1. Len(all) = Len(rest) + 1 /\ Len(rest) \in Nat
        BY <3>5, <3>8
      <4>2. Len(rest) + 1 \in 1..Len(rest) + 1
        BY <4>1
      <4>3. p[(Len(rest) + 1) + 1] = q[Len(rest) + 1]
        BY <3>9, <4>2
      <4> QED BY <4>1, <4>3, Zenon
    <3>12. ReadFrom(all, d, misread, p)
      BY <3>4, <3>9, <3>10, <3>11 DEF ReadFrom
    <3> QED BY <3>2, <3>8, <3>9, <3>12, <3>e
  <2> QED BY <2>1, <2>2
<1> HIDE DEF Good
<1>10. T = 1..N + 1
  <2> DEFINE top == N + 1
  <2>1. \A i \in 1..top : (\A j \in i + 1..top : j \in T) => i \in T
    BY <1>9
  <2>2. top \in Nat /\ T \in SUBSET (1..top)
    BY <1>2
  <2> HIDE DEF T, top
  <2>3. T = 1..top
    BY <2>1, <2>2, LaterInduction
  <2> QED BY <2>3 DEF top
<1>11. Good(1)
  BY <1>2, <1>10
<1> QED BY <1>1, <1>11 DEF Good, V

Names == {"ServerHello", "EncryptedExtensions", "Certificate", "ServerKeyExchange",
          "ServerHelloDone", "Finished", "ClientKeyExchange", "ClientFinished", "Alert"}
Positive == Nat \ {0}
Units == Names \X Positive \X Positive

(* The server's first flight and the message it ends with.                 *)
FlightOf(v, c) == IF v = "1.3" THEN Flight13(c) ELSE Flight12(c)
EndName(v) == IF v = "1.3" THEN "Finished" ELSE "ServerHelloDone"

(* What the client relies on: the last message is one unit long, and no    *)
(* other unit has its name.                                                *)
EndsWith(f, name) ==
  /\ f \in Seq(Units) /\ Len(f) \in Nat \ {0}
  /\ f[Len(f)] = <<name, 1, 1>>
  /\ \A i \in 1..Len(f) - 1 : f[i][1] # name

(* The units of a message.                                                 *)
LEMMA MessageUnits ==
  ASSUME NEW name \in Names, NEW n \in Nat \ {0}
  PROVE  /\ Message(name, n) \in Seq(Units) /\ Len(Message(name, n)) = n
         /\ \A i \in 1..n : Message(name, n)[i] = <<name, i, n>>
<1>1. \A i \in 1..n : <<name, i, n>> \in Units
  <2> SUFFICES ASSUME NEW i \in 1..n PROVE <<name, i, n>> \in Names \X Positive \X Positive
    BY DEF Units
  <2>1. i \in Positive /\ n \in Positive
    BY DEF Positive
  <2> QED BY <2>1
<1>2. DOMAIN [i \in 1..n |-> <<name, i, n>>] = 1..n
  OBVIOUS
<1> QED BY <1>1, <1>2 DEF Message

(* A part before the last one leaves the end as it is.                     *)
LEMMA EndStays ==
  ASSUME NEW a, NEW f, NEW name
  PROVE  a \in Seq(Units) /\ EndsWith(f, name) /\ (\A i \in 1..Len(a) : a[i][1] # name) =>
           EndsWith(a \o f, name)
<1> SUFFICES ASSUME a \in Seq(Units), EndsWith(f, name), \A i \in 1..Len(a) : a[i][1] # name
             PROVE  EndsWith(a \o f, name)
  OBVIOUS
<1> DEFINE b == a \o f
<1>1. /\ f \in Seq(Units) /\ Len(f) \in Nat \ {0} /\ f[Len(f)] = <<name, 1, 1>>
      /\ \A i \in 1..Len(f) - 1 : f[i][1] # name
  BY DEF EndsWith
<1>2. /\ b \in Seq(Units) /\ Len(b) = Len(a) + Len(f)
      /\ \A i \in 1..Len(a) + Len(f) : b[i] = IF i <= Len(a) THEN a[i] ELSE f[i - Len(a)]
  BY <1>1, ConcatProperties
<1> HIDE DEF b
<1>3. Len(a) \in Nat
  OBVIOUS
<1>4. Len(b) \in Nat \ {0} /\ b[Len(b)] = <<name, 1, 1>>
  <2>1. Len(b) \in 1..Len(a) + Len(f) /\ ~(Len(b) <= Len(a)) /\ Len(b) - Len(a) = Len(f)
    BY <1>1, <1>2, <1>3
  <2> QED BY <1>1, <1>2, <2>1
<1>5. ASSUME NEW i \in 1..Len(b) - 1 PROVE b[i][1] # name
  <2>1. i \in 1..Len(a) + Len(f)
    BY <1>1, <1>2, <1>3
  <2>2. CASE i <= Len(a)
    <3>1. i \in 1..Len(a) /\ b[i] = a[i]
      BY <1>2, <1>3, <2>1, <2>2
    <3> QED BY <3>1
  <2>3. CASE ~(i <= Len(a))
    <3>1. i - Len(a) \in 1..Len(f) - 1 /\ b[i] = f[i - Len(a)]
      BY <1>1, <1>2, <1>3, <2>1, <2>3
    <3> QED BY <1>1, <3>1
  <2> QED BY <2>2, <2>3
<1> QED BY <1>2, <1>4, <1>5 DEF EndsWith, b

(* Both flights end with a message of their own.                           *)
LEMMA FlightShape ==
  ASSUME NEW v \in {"1.2", "1.3"}, NEW c \in CertLengths
  PROVE  EndsWith(FlightOf(v, c), EndName(v))
<1>0. c \in Nat \ {0} /\ 2 \in Nat \ {0}
  BY CertLengthsAssumption
<1>00. /\ "ServerHello" \in Names /\ "EncryptedExtensions" \in Names
       /\ "Certificate" \in Names /\ "ServerKeyExchange" \in Names
       /\ "ServerHelloDone" \in Names /\ "Finished" \in Names
  BY DEF Names
<1>1. ASSUME NEW name \in Names PROVE EndsWith(Message(name, 1), name)
  BY <1>1, MessageUnits DEF EndsWith
<1>2. ASSUME NEW f, NEW name, NEW other \in Names, NEW n \in Nat \ {0}, EndsWith(f, name),
             other # name
      PROVE  EndsWith(Message(other, n) \o f, name)
  <2>1. Message(other, n) \in Seq(Units)
        /\ \A i \in 1..Len(Message(other, n)) : Message(other, n)[i][1] # name
    BY <1>2, MessageUnits
  <2> QED BY <1>0, <1>00, <1>2, <2>1, EndStays
<1>3. CASE v = "1.3"
  <2>1. EndsWith(Finished, "Finished")
    BY <1>00, <1>1 DEF Finished
  <2>2. EndsWith(Message("Certificate", c) \o Finished, "Finished")
    BY <1>0, <1>00, <1>2, <2>1
  <2>3. EndsWith(Message("EncryptedExtensions", 2) \o (Message("Certificate", c) \o Finished),
                 "Finished")
    BY <1>0, <1>00, <1>2, <2>2
  <2>4. /\ Message("EncryptedExtensions", 2) \in Seq(Units)
        /\ Message("Certificate", c) \in Seq(Units) /\ Finished \in Seq(Units)
    BY <1>0, <1>00, MessageUnits DEF Finished
  <2>5. Flight13(c) = Message("EncryptedExtensions", 2) \o (Message("Certificate", c) \o Finished)
    <3> DEFINE x == Message("EncryptedExtensions", 2)
               y == Message("Certificate", c)
    <3>1. Flight13(c) = (x \o y) \o Finished
      BY DEF Flight13
    <3>2. x \in Seq(Units) /\ y \in Seq(Units) /\ Finished \in Seq(Units)
      BY <2>4
    <3> HIDE DEF x, y
    <3>3. Reassociates(x, y, Finished)
      BY <3>2, Reassociated, Zenon
    <3> QED BY <3>1, <3>3 DEF Reassociates, x, y
  <2> QED BY <1>3, <2>3, <2>5 DEF FlightOf, EndName
<1>4. CASE v = "1.2"
  <2> DEFINE x == ServerHello
             y == Message("Certificate", c)
             z == Message("ServerKeyExchange", 2)
             e == Message("ServerHelloDone", 1)
  <2>1. EndsWith(e, "ServerHelloDone")
    BY <1>00, <1>1
  <2>2. EndsWith(z \o e, "ServerHelloDone")
    BY <1>0, <1>00, <1>2, <2>1
  <2>3. EndsWith(y \o (z \o e), "ServerHelloDone")
    BY <1>0, <1>00, <1>2, <2>2
  <2>4. EndsWith(x \o (y \o (z \o e)), "ServerHelloDone")
    BY <1>00, <1>2, <2>3 DEF ServerHello
  <2>5. x \in Seq(Units) /\ y \in Seq(Units) /\ z \in Seq(Units) /\ e \in Seq(Units)
    BY <1>0, <1>00, MessageUnits DEF ServerHello
  <2>6. Flight12(c) = ((x \o y) \o z) \o e
    BY DEF Flight12
  <2> HIDE DEF x, y, z, e
  <2>7. x \o y \in Seq(Units) /\ z \o e \in Seq(Units)
    BY <2>5, ConcatProperties
  <2>8. Reassociates(x \o y, z, e)
    BY <2>5, <2>7, Reassociated, Zenon
  <2>9. Reassociates(x, y, z \o e)
    BY <2>5, <2>7, Reassociated, Zenon
  <2> QED BY <1>4, <2>4, <2>6, <2>8, <2>9 DEF FlightOf, EndName, Reassociates
<1> QED BY <1>3, <1>4

-----------------------------------------------------------------------------
(* A cut of s into pieces that are none of them empty.                     *)
WholeCut(pieces, s, S, e) ==
  /\ pieces \in Seq(Seq(S))
  /\ \E p : CutAt(pieces, s, p) /\ p[1] = e /\ p[Len(pieces) + 1] = Len(s)

(* Every member of Cuts is a way of cutting the whole of s.                *)
LEMMA CutsAreCuts ==
  ASSUME NEW S, NEW s
  PROVE  s \in Seq(S) => \A pieces \in Cuts(s) : WholeCut(pieces, s, S, 0)
<1>0. SUFFICES ASSUME s \in Seq(S)
               PROVE  \A pieces \in Cuts(s) : WholeCut(pieces, s, S, 0)
  OBVIOUS
<1> DEFINE N == Len(s)
           V == SUBSET Seq(Seq(S))
           sizes(i) == 1..Min({MaxRecord, N + 1 - i})
           At(i, a) ==
             IF i > N THEN {<<>>}
             ELSE UNION {{<<SubSeq(s, i, i + n - 1)>> \o rest : rest \in a[i + n]} :
                         n \in sizes(i)}
           Splits(x, i, a) == \E n \in sizes(i) : \E rest \in a[i + n] :
                                x = <<SubSeq(s, i, i + n - 1)>> \o rest
           Body(a) == [i \in 1..N + 1 |-> At(i, a)]
           w == CHOOSE a : a = Body(a)
           step == [i \in 1..N + 1 |-> [a \in [1..N + 1 -> V] |-> At(i, a)]]
<1>1. Cuts(s) = w[1]
  BY DEF Cuts
<1>2. N \in Nat
  BY <1>0
<1>3. ASSUME NEW i \in 1..N + 1, ~(i > N), NEW n \in sizes(i)
      PROVE  i \in 1..N /\ n \in 1..N + 1 - i
  <2> DEFINE k == N + 1 - i
  <2>1. i \in 1..N /\ k \in Nat \ {0}
    BY <1>2, <1>3
  <2>2. Min({MaxRecord, k}) \in Nat /\ Min({MaxRecord, k}) <= k
    <3> HIDE DEF k
    <3>1. \E m \in {MaxRecord, k} : \A j \in {MaxRecord, k} : m <= j
      BY <2>1, MaxRecordAssumption
    <3>2. Min({MaxRecord, k}) \in {MaxRecord, k}
          /\ \A j \in {MaxRecord, k} : Min({MaxRecord, k}) <= j
      BY <3>1 DEF Min
    <3> QED BY <2>1, <3>2, MaxRecordAssumption
  <2>3. n \in 1..Min({MaxRecord, k})
    BY <1>3
  <2> HIDE DEF k
  <2> QED BY <2>1, <2>2, <2>3 DEF k
<1>4. ASSUME NEW i \in 1..N + 1, ~(i > N), NEW a
      PROVE  \A x \in At(i, a) : Splits(x, i, a)
  BY <1>4
<1>5. ASSUME NEW i \in 1..N + 1, i > N, NEW a
      PROVE  At(i, a) = {<<>>}
  BY <1>5
<1>6. ASSUME NEW i \in 1..N + 1, NEW a, NEW b,
             \A j \in i + 1..N + 1 : a[j] = b[j]
      PROVE  At(i, a) = At(i, b)
  <2>1. CASE i > N
    BY <2>1
  <2>2. CASE ~(i > N)
    <3>1. \A n \in sizes(i) : a[i + n] = b[i + n]
      <4> SUFFICES ASSUME NEW n \in sizes(i) PROVE a[i + n] = b[i + n]
        OBVIOUS
      <4>1. i + n \in i + 1..N + 1
        <5>1. n \in 1..N + 1 - i /\ i \in 1..N
          BY <1>3, <2>2
        <5> QED BY <1>2, <5>1
      <4> QED BY <1>6, <4>1
    <3>2. {{<<SubSeq(s, i, i + n - 1)>> \o rest : rest \in a[i + n]} : n \in sizes(i)}
            = {{<<SubSeq(s, i, i + n - 1)>> \o rest : rest \in b[i + n]} : n \in sizes(i)}
      <4> HIDE DEF sizes
      <4> QED BY <3>1, Zenon
    <3> QED BY <2>2, <3>2, Zenon
  <2> QED BY <2>1, <2>2
<1> HIDE DEF At, Splits
<1>7. ASSUME NEW i \in 1..N + 1, NEW n \in 1..N + 1 - i, NEW rest, i \in 1..N,
             WholeCut(rest, s, S, i + n - 1)
      PROVE  WholeCut(<<SubSeq(s, i, i + n - 1)>> \o rest, s, S, i - 1)
  <2>1. PICK q : CutAt(rest, s, q) /\ q[1] = i + n - 1 /\ q[Len(rest) + 1] = Len(s)
    BY <1>7 DEF WholeCut
  <2>2. rest \in Seq(Seq(S)) /\ Len(rest) \in Nat
    BY <1>7 DEF WholeCut
  <2> DEFINE e == i - 1
  <2>3. e \in 0..q[1] - 1 /\ e + 1 = i
    BY <1>2, <2>1
  <2>4. InFront(s, e, q[1], rest) = <<SubSeq(s, i, i + n - 1)>> \o rest
    BY <2>1, <2>3, Zenon DEF InFront
  <2> HIDE DEF e
  <2>5. /\ InFront(s, e, q[1], rest) \in Seq(Seq(S))
        /\ Len(InFront(s, e, q[1], rest)) = Len(rest) + 1
        /\ OneMore(InFront(s, e, q[1], rest), s, q, e, Len(rest))
    BY <1>0, <2>1, <2>2, <2>3, CutInFront
  <2> DEFINE all == InFront(s, e, q[1], rest)
  <2>6. PICK p : CutAt(all, s, p) /\ p[1] = e /\ \A j \in 1..Len(rest) + 1 : p[j + 1] = q[j]
    BY <2>5, Zenon DEF OneMore
  <2> HIDE DEF all
  <2>7. p[Len(all) + 1] = Len(s)
    <3>1. Len(all) = Len(rest) + 1 /\ Len(rest) + 1 \in 1..Len(rest) + 1
      BY <2>2, <2>5 DEF all
    <3> QED BY <2>1, <2>6, <3>1
  <2>8. WholeCut(all, s, S, e)
    BY <2>5, <2>6, <2>7, Zenon DEF WholeCut, all
  <2> QED BY <2>4, <2>8, Zenon DEF all, e
<1>8. WholeCut(<<>>, s, S, N)
  <2>1. \E p : CutAt(<<>>, s, p) /\ p[1] = N
    <3>1. N \in 0..Len(s)
      BY <1>2
    <3> HIDE DEF N
    <3> QED BY <1>0, <3>1, CutNothing
  <2>2. <<>> \in Seq(Seq(S)) /\ Len(<<>>) + 1 = 1
    OBVIOUS
  <2> QED BY <2>1, <2>2 DEF WholeCut
<1>9. ASSUME NEW i \in 1..N + 1, NEW n \in 1..N + 1 - i, NEW rest \in Seq(Seq(S)), i \in 1..N
      PROVE  <<SubSeq(s, i, i + n - 1)>> \o rest \in Seq(Seq(S))
  <2> DEFINE m == i + n - 1
             x == SubSeq(s, i, m)
  <2>1. i \in Nat \ {0} /\ m \in 0..Len(s) /\ i <= m + 1
    BY <1>2, <1>9
  <2>2. x \in Seq(S)
    <3> HIDE DEF m
    <3> QED BY <1>0, <2>1, Part
  <2> HIDE DEF x
  <2>3. <<x>> \in Seq(Seq(S))
    BY <2>2
  <2>4. <<x>> \o rest \in Seq(Seq(S))
    BY <2>3, ConcatProperties
  <2> QED BY <2>4 DEF x
<1> HIDE DEF sizes
<1>10. ASSUME NEW i \in 1..N + 1, NEW a \in [1..N + 1 -> V]
       PROVE  At(i, a) \in V
  <2>1. CASE i > N
    <3>1. {<<>>} \in V
      OBVIOUS
    <3>2. At(i, a) = {<<>>}
      BY <1>5, <2>1
    <3> QED BY <3>1, <3>2, Zenon
  <2>2. CASE ~(i > N)
    <3> SUFFICES ASSUME NEW x \in At(i, a) PROVE x \in Seq(Seq(S))
      BY Zenon
    <3>1. PICK n \in sizes(i) : \E rest \in a[i + n] : x = <<SubSeq(s, i, i + n - 1)>> \o rest
      <4>1. Splits(x, i, a)
        BY <1>4, <2>2
      <4> QED BY <4>1, Zenon DEF Splits
    <3>2. n \in 1..N + 1 - i /\ i \in 1..N
      BY <1>3, <2>2
    <3>3. i + n \in 1..N + 1
      BY <1>2, <3>2
    <3>4. PICK rest \in a[i + n] : x = <<SubSeq(s, i, i + n - 1)>> \o rest
      BY <3>1
    <3>5. rest \in Seq(Seq(S))
      BY <3>3
    <3> QED BY <1>9, <3>2, <3>4, <3>5
  <2> QED BY <2>1, <2>2
<1> HIDE DEF V
<1>11. \E g : Solves(g, step, N + 1, V)
  <2> DEFINE top == N + 1
  <2>1. top \in Nat /\ V # {}
    BY <1>2 DEF V
  <2>2. step \in [1..top -> [[1..top -> V] -> V]]
    BY <1>10
  <2>3. \A i \in 1..top : \A g, h \in [1..top -> V] :
           (\A j \in i + 1..top : g[j] = h[j]) => step[i][g] = step[i][h]
    BY <1>6
  <2>4. LooksAhead(step, top, V)
    <3> HIDE DEF step, top
    <3> QED BY <2>2, <2>3 DEF LooksAhead
  <2>5. \E g : Solves(g, step, top, V)
    <3> HIDE DEF step, top
    <3> QED BY <2>1, <2>4, LaterValues
  <2> QED BY <2>5
<1>12. PICK g : g \in [1..N + 1 -> V] /\ \A i \in 1..N + 1 : g[i] = At(i, g)
  <2>1. PICK g : Solves(g, step, N + 1, V)
    BY <1>11
  <2>2. g \in [1..N + 1 -> V] /\ \A i \in 1..N + 1 : g[i] = step[i][g]
    <3> HIDE DEF step
    <3> QED BY <2>1 DEF Solves
  <2>3. \A i \in 1..N + 1 : step[i][g] = At(i, g)
    BY <2>2
  <2> HIDE DEF step
  <2> QED BY <2>2, <2>3
<1>13. w = Body(w)
  <2>1. g = Body(g)
    BY <1>12
  <2> HIDE DEF Body
  <2> QED BY <2>1
<1> HIDE DEF w
<1>14. \A i \in 1..N + 1 : w[i] = At(i, w)
  BY <1>13
<1> HIDE DEF Body
<1> DEFINE Good(i) == \A pieces \in w[i] : WholeCut(pieces, s, S, i - 1)
           T == {i \in 1..N + 1 : Good(i)}
<1>15. ASSUME NEW i \in 1..N + 1, \A j \in i + 1..N + 1 : j \in T
       PROVE  Good(i)
  <2>1. CASE i > N
    <3>1. w[i] = {<<>>} /\ i - 1 = N
      <4>1. At(i, w) = {<<>>}
        BY <1>5, <2>1
      <4> QED BY <1>2, <1>14, <2>1, <4>1
    <3> QED BY <1>8, <3>1
  <2>2. CASE ~(i > N)
    <3> SUFFICES ASSUME NEW x \in w[i] PROVE WholeCut(x, s, S, i - 1)
      OBVIOUS
    <3>1. x \in At(i, w)
      BY <1>14
    <3>2. PICK n \in sizes(i) : \E rest \in w[i + n] : x = <<SubSeq(s, i, i + n - 1)>> \o rest
      <4>1. Splits(x, i, w)
        BY <1>4, <2>2, <3>1
      <4> QED BY <4>1, Zenon DEF Splits
    <3>3. n \in 1..N + 1 - i /\ i \in 1..N
      BY <1>3, <2>2
    <3>4. PICK rest \in w[i + n] : x = <<SubSeq(s, i, i + n - 1)>> \o rest
      BY <3>2
    <3>5. i + n \in i + 1..N + 1
      BY <1>2, <3>3
    <3>6. WholeCut(rest, s, S, i + n - 1)
      <4>1. Good(i + n)
        BY <1>15, <3>5
      <4>2. (i + n) - 1 = i + n - 1
        BY <3>3
      <4> QED BY <3>4, <4>1, <4>2
    <3>7. WholeCut(<<SubSeq(s, i, i + n - 1)>> \o rest, s, S, i - 1)
      BY <1>7, <3>3, <3>6
    <3> QED BY <3>4, <3>7, Zenon
  <2> QED BY <2>1, <2>2
<1> HIDE DEF Good
<1>16. T = 1..N + 1
  <2> DEFINE top == N + 1
  <2>1. \A i \in 1..top : (\A j \in i + 1..top : j \in T) => i \in T
    BY <1>15
  <2>2. top \in Nat /\ T \in SUBSET (1..top)
    BY <1>2
  <2> HIDE DEF T, top
  <2>3. T = 1..top
    BY <2>1, <2>2, LaterInduction
  <2> QED BY <2>3 DEF top
<1>17. Good(1)
  BY <1>2, <1>16
<1> QED BY <1>1, <1>17 DEF Good

-----------------------------------------------------------------------------
(* What the records on the connection bring of a flight.                   *)

Packets == [type : {"handshake", "ccs", "alert", "encrypted"}, key : {"none", "handshake", "data"},
            seq : Nat, body : Seq(Units)]

(* What record r brings of flight f, from position x to position y.        *)
Bears(v, r, f, x, y) ==
  \/ /\ r.type = (IF v = "1.3" THEN "encrypted" ELSE "handshake")
     /\ x < y /\ r.body = SubSeq(f, x + 1, y)
  \/ v = "1.3" /\ r.type = "ccs" /\ y = x
  \/ v = "1.2" /\ r.type = "alert" /\ y = x
  \/ v = "1.3" /\ r.type = "encrypted" /\ r.body = Alert /\ y = Len(f)

(* The records w bring what comes of f after position e, and nothing once  *)
(* that is the end.                                                        *)
CarriedAt(v, w, f, p) ==
  /\ p \in [1..Len(w) + 1 -> 0..Len(f)]
  /\ \A i \in 1..Len(w) : /\ p[i] <= p[i + 1] /\ p[i] < Len(f)
                          /\ Bears(v, w[i], f, p[i], p[i + 1])

Carries(v, w, f, e) ==
  w \in Seq(Packets) /\ \E p : CarriedAt(v, w, f, p) /\ p[1] = e

(* The first of them brings what comes up to position y, the others the    *)
(* rest.                                                                   *)
Brings(v, r, w, f, e, y) ==
  /\ y \in 0..Len(f) /\ e \in 0..Len(f) - 1 /\ e <= y
  /\ Bears(v, r, f, e, y)
  /\ Carries(v, w, f, y)
  /\ y = Len(f) => w = <<>>

(* The first of them brings what comes up to some position, the others     *)
(* bring the rest, and nothing follows the end of the flight.              *)
LEMMA CarriesNext ==
  ASSUME NEW v, NEW w, NEW f \in Seq(Units), NEW e, Carries(v, w, f, e), w # <<>>
  PROVE  /\ w[1] \in Packets /\ Tail(w) \in Seq(Packets)
         /\ \E y : Brings(v, w[1], Tail(w), f, e, y)
<1> DEFINE n == Len(w)
           t == Tail(w)
           N == Len(f)
<1>1. PICK p : CarriedAt(v, w, f, p) /\ p[1] = e
  BY DEF Carries
<1>2. w \in Seq(Packets) /\ n \in Nat \ {0} /\ N \in Nat
  BY DEF Carries
<1>3. /\ t \in Seq(Packets) /\ Len(t) = n - 1 /\ \A i \in 1..n - 1 : t[i] = w[i + 1]
      /\ w[1] \in Packets
  <2>1. t \in Seq(Packets) /\ Len(t) = Len(w) - 1 /\ \A i \in 1..Len(t) : t[i] = w[i + 1]
    BY <1>2, HeadTailProperties
  <2>2. w[1] \in Packets
    BY <1>2
  <2> HIDE DEF t
  <2> QED BY <2>1, <2>2
<1>4. /\ p \in [1..n + 1 -> 0..N]
      /\ \A i \in 1..n : p[i] <= p[i + 1] /\ p[i] < N /\ Bears(v, w[i], f, p[i], p[i + 1])
  BY <1>1 DEF CarriedAt
<1> HIDE DEF n, t, N
<1> DEFINE q == [i \in 1..n |-> p[i + 1]]
<1>5. q \in [1..n -> 0..N] /\ \A i \in 1..n : q[i] = p[i + 1]
  <2>1. \A i \in 1..n : i + 1 \in 1..n + 1
    BY <1>2
  <2> QED BY <1>4, <2>1
<1> HIDE DEF q
<1>6. ASSUME NEW i \in 1..n - 1
      PROVE  /\ q[i] <= q[i + 1] /\ q[i] < N
             /\ Bears(v, t[i], f, q[i], q[i + 1])
  <2>1. i \in 1..n /\ i + 1 \in 1..n
    BY <1>2
  <2>2. q[i] = p[i + 1] /\ q[i + 1] = p[(i + 1) + 1] /\ t[i] = w[i + 1]
    BY <1>3, <1>5, <2>1
  <2>3. p[i + 1] <= p[(i + 1) + 1] /\ p[i + 1] < N
        /\ Bears(v, w[i + 1], f, p[i + 1], p[(i + 1) + 1])
    BY <1>4, <2>1
  <2> QED BY <2>2, <2>3
<1>7. CarriedAt(v, t, f, q)
  <2>1. Len(t) = n - 1 /\ Len(t) + 1 = n /\ Len(f) = N
    BY <1>2, <1>3 DEF N
  <2> QED BY <1>5, <1>6, <2>1 DEF CarriedAt
<1> DEFINE y == p[2]
<1>8. q[1] = y /\ 1 \in 1..n /\ 2 \in 1..n + 1 /\ 1 + 1 = 2
  BY <1>2, <1>5
<1>9. y \in 0..N /\ e \in 0..N - 1 /\ e <= y /\ Bears(v, w[1], f, e, y)
  <2>1. 1 \in 1..n + 1
    BY <1>2
  <2>2. p[1] \in 0..N /\ y \in 0..N
    BY <1>4, <1>8, <2>1
  <2>3. p[1] <= p[2] /\ p[1] < N /\ Bears(v, w[1], f, p[1], p[2])
    BY <1>4, <1>8
  <2> QED BY <1>1, <1>2, <2>2, <2>3
<1>10. y = N => t = <<>>
  <2> SUFFICES ASSUME y = N, t # <<>> PROVE FALSE
    OBVIOUS
  <2>1. 1 \in 1..n - 1
    BY <1>2, <1>3
  <2>2. q[1] < N
    BY <1>6, <2>1
  <2> QED BY <1>2, <1>8, <2>2
<1>11. Carries(v, t, f, y)
  BY <1>3, <1>7, <1>8 DEF Carries
<1> HIDE DEF y
<1> QED BY <1>3, <1>9, <1>10, <1>11 DEF N, t, Brings

-----------------------------------------------------------------------------
(* The records a server sends are records.                                 *)
LEMMA Packaged ==
  ASSUME NEW body \in Seq(Units), NEW k \in Nat
  PROVE  /\ Plain("handshake", body) \in Packets /\ Plain("alert", body) \in Packets
         /\ Plain("ccs", body) \in Packets
         /\ Record("encrypted", "handshake", k, body) \in Packets
         /\ Plain("handshake", body).type = "handshake" /\ Plain("handshake", body).body = body
         /\ Plain("alert", body).type = "alert" /\ Plain("ccs", body).type = "ccs"
         /\ Record("encrypted", "handshake", k, body).type = "encrypted"
         /\ Record("encrypted", "handshake", k, body).body = body
  BY DEF Plain, Record, Packets

(* An alert is one unit.                                                   *)
LEMMA AlertUnits ==
  /\ Alert \in Seq(Units) /\ <<>> \in Seq(Units) /\ Len(Alert) = 1
  /\ Alert[1] = <<"Alert", 1, HsBufSize + 1>>
<1> DEFINE u == <<"Alert", 1, HsBufSize + 1>>
<1>1. u \in Units
  <2>1. HsBufSize + 1 \in Positive /\ 1 \in Positive /\ "Alert" \in Names
    BY HsBufSizeAssumption DEF Positive, Names
  <2> QED BY <2>1 DEF Units
<1>2. Alert = <<u>>
  BY DEF Alert
<1> HIDE DEF u
<1> QED BY <1>1, <1>2 DEF u

(* A ServerHello is one unit.                                              *)
LEMMA ServerHelloUnits ==
  ServerHello \in Seq(Units) /\ Len(ServerHello) = 1 /\ ServerHello[1] = <<"ServerHello", 1, 1>>
<1>1. "ServerHello" \in Names
  BY DEF Names
<1>2. 1 \in Nat \ {0} /\ 1 \in 1..1
  OBVIOUS
<1> QED BY <1>1, <1>2, MessageUnits DEF ServerHello

(* The records of a TLS 1.2 flight, and of one that is given up.           *)
LEMMA Carried12 ==
  ASSUME NEW f \in Seq(Units), NEW pieces, WholeCut(pieces, f, Units, 0)
  PROVE  /\ Carries("1.2", Wire12(pieces), f, 0)
         /\ \A k \in 0..Len(pieces) - 1 :
              Carries("1.2", SubSeq(Wire12(pieces), 1, k) \o <<Plain("alert", Alert)>>, f, 0)
<1> DEFINE n == Len(pieces)
           N == Len(f)
           w == Wire12(pieces)
<1>1. PICK p : CutAt(pieces, f, p) /\ p[1] = 0 /\ p[n + 1] = N
  BY DEF WholeCut
<1>2. /\ pieces \in Seq(Seq(Units)) /\ n \in Nat /\ N \in Nat
      /\ p \in [1..n + 1 -> 0..N]
      /\ \A j \in 1..n : p[j] < p[j + 1] /\ pieces[j] = SubSeq(f, p[j] + 1, p[j + 1])
                         /\ pieces[j] \in Seq(Units)
  BY <1>1 DEF CutAt, WholeCut
<1>3. /\ w \in Seq(Packets) /\ Len(w) = n
      /\ \A j \in 1..n : w[j] = Plain("handshake", pieces[j])
  <2>1. \A j \in 1..n : Plain("handshake", pieces[j]) \in Packets
    BY <1>2, Packaged
  <2>2. w = [j \in 1..n |-> Plain("handshake", pieces[j])]
    BY DEF Wire12
  <2> HIDE DEF w
  <2> QED BY <1>2, <2>1, <2>2
<1> HIDE DEF n, N, w
<1>4. ASSUME NEW j \in 1..n
      PROVE  /\ p[j] <= p[j + 1] /\ p[j] < N
             /\ Bears("1.2", w[j], f, p[j], p[j + 1])
  <2>1. p[j] < p[j + 1] /\ pieces[j] = SubSeq(f, p[j] + 1, p[j + 1]) /\ pieces[j] \in Seq(Units)
        /\ w[j] = Plain("handshake", pieces[j])
    BY <1>2, <1>3
  <2>2. p[j] \in 0..N /\ p[j + 1] \in 0..N
    <3>1. j \in 1..n + 1 /\ j + 1 \in 1..n + 1
      BY <1>2
    <3> QED BY <1>2, <3>1
  <2>3. w[j].type = "handshake" /\ w[j].body = pieces[j]
    <3>1. w[j] = Plain("handshake", pieces[j])
      BY <2>1
    <3> QED BY <3>1 DEF Plain, Record
  <2>4. Bears("1.2", w[j], f, p[j], p[j + 1])
    BY <2>1, <2>3 DEF Bears
  <2>5. p[j] <= p[j + 1] /\ p[j] < N
    <3> DEFINE x == p[j]
               y == p[j + 1]
    <3>1. x < y /\ x \in 0..N /\ y \in 0..N
      BY <2>1, <2>2
    <3> HIDE DEF x, y
    <3>2. x <= y /\ x < N
      BY <1>2, <3>1
    <3> QED BY <3>2 DEF x, y
  <2> QED BY <2>4, <2>5
<1>5. Carries("1.2", w, f, 0)
  <2>1. CarriedAt("1.2", w, f, p)
    BY <1>2, <1>3, <1>4 DEF CarriedAt, N
  <2> QED BY <1>1, <1>3, <2>1 DEF Carries
<1>6. ASSUME NEW k \in 0..n - 1
      PROVE  Carries("1.2", SubSeq(w, 1, k) \o <<Plain("alert", Alert)>>, f, 0)
  <2> DEFINE x == SubSeq(w, 1, k)
             a == Plain("alert", Alert)
             z == x \o <<a>>
             q == [i \in 1..k + 2 |-> IF i = k + 2 THEN p[k + 1] ELSE p[i]]
  <2>1. x \in Seq(Packets) /\ Len(x) = k /\ \A i \in 1..k : x[i] = w[i]
    <3>1. k \in 0..Len(w) /\ 1 <= k + 1 /\ k - 1 + 1 = k /\ \A i \in 1..k : 1 + i - 1 = i
      BY <1>2, <1>3
    <3>2. x \in Seq(Packets) /\ Len(x) = k - 1 + 1 /\ \A i \in 1..k - 1 + 1 : x[i] = w[1 + i - 1]
      BY <1>3, <3>1, Part
    <3> HIDE DEF x
    <3> QED BY <3>1, <3>2
  <2>2. a \in Packets /\ a.type = "alert"
    BY AlertUnits, Packaged
  <2> HIDE DEF x, a
  <2>3. z \in Seq(Packets) /\ Len(z) = k + 1 /\ z[k + 1] = a /\ \A i \in 1..k : z[i] = w[i]
    <3>1. <<a>> \in Seq(Packets) /\ Len(<<a>>) = 1 /\ <<a>>[1] = a
      BY <2>2
    <3>2. /\ z \in Seq(Packets) /\ Len(z) = k + 1
          /\ \A i \in 1..k + 1 : z[i] = IF i <= k THEN x[i] ELSE <<a>>[i - k]
      BY <2>1, <3>1, ConcatProperties
    <3> HIDE DEF z
    <3> QED BY <2>1, <3>1, <3>2, SMTT(30)
  <2>4. k + 1 \in 1..n /\ \A i \in 1..k + 1 : i \in 1..n + 1 /\ i # k + 2
    BY <1>2
  <2>5. /\ q \in [1..k + 2 -> 0..N] /\ q[k + 2] = p[k + 1]
        /\ \A i \in 1..k + 1 : q[i] = p[i]
    <3>1. \A i \in 1..k + 2 : i # k + 2 => i \in 1..k + 1
      OBVIOUS
    <3> QED BY <1>2, <2>4, <3>1, SMTT(30)
  <2> HIDE DEF z, q
  <2>6. ASSUME NEW i \in 1..k + 1
        PROVE  q[i] <= q[i + 1] /\ q[i] < N /\ Bears("1.2", z[i], f, q[i], q[i + 1])
    <3>1. CASE i = k + 1
      <4>1. q[i] = p[k + 1] /\ q[i + 1] = p[k + 1] /\ z[i] = a
        BY <2>3, <2>5, <3>1
      <4>2. p[k + 1] < N /\ p[k + 1] \in 0..N
        BY <1>2, <1>4, <2>4
      <4>3. Bears("1.2", a, f, p[k + 1], p[k + 1])
        BY <2>2 DEF Bears
      <4> QED BY <4>1, <4>2, <4>3
    <3>2. CASE i # k + 1
      <4>1. i \in 1..k /\ i \in 1..k + 1 /\ i + 1 \in 1..k + 1 /\ i \in 1..n
        <5>1. i \in 1..k
          BY <3>2
        <5>2. i + 1 \in 1..k + 1 /\ i \in 1..k + 1 /\ i \in 1..n
          BY <1>2, <5>1
        <5> QED BY <5>1, <5>2
      <4>2. q[i] = p[i] /\ q[i + 1] = p[i + 1] /\ z[i] = w[i]
        BY <2>3, <2>5, <4>1
      <4> QED BY <1>4, <4>1, <4>2
    <3> QED BY <3>1, <3>2
  <2>7. CarriedAt("1.2", z, f, q)
    <3>1. Len(z) = k + 1 /\ Len(z) + 1 = k + 2 /\ Len(f) = N
      BY <2>3 DEF N
    <3> QED BY <2>5, <2>6, <3>1 DEF CarriedAt
  <2>8. q[1] = 0
    <3>1. 1 \in 1..k + 1
      OBVIOUS
    <3> QED BY <1>1, <2>5, <3>1
  <2>9. Carries("1.2", z, f, 0)
    BY <2>3, <2>7, <2>8 DEF Carries
  <2> QED BY <2>9 DEF z, x, a
<1> QED BY <1>5, <1>6 DEF n, w

Encrypted(k, body) == Record("encrypted", "handshake", k, body)

(* The records of a TLS 1.3 flight that brings m of the pieces, all of     *)
(* them or, before an alert, not all.                                      *)
Sent13(w, pieces, m) ==
  /\ w \in Seq(Packets) /\ m \in 0..Len(pieces)
  /\ w[1] = Plain("handshake", ServerHello) /\ w[2] = Plain("ccs", <<>>)
  /\ \A j \in 1..m : w[j + 2] = Encrypted(j - 1, pieces[j])
  /\ \/ Len(w) = m + 2 /\ m = Len(pieces)
     \/ Len(w) = m + 3 /\ m < Len(pieces) /\ w[m + 3] = Encrypted(m, Alert)

(* They bring the flight, or its front and an alert, behind the            *)
(* ServerHello.                                                            *)
LEMMA Carried13 ==
  ASSUME NEW f \in Seq(Units), f # <<>>, NEW pieces, WholeCut(pieces, f, Units, 0),
         NEW w, NEW m, Sent13(w, pieces, m)
  PROVE  w # <<>> /\ w \in Seq(Packets) /\ w[1] = Plain("handshake", ServerHello)
         /\ Carries("1.3", Tail(w), f, 0)
<1> DEFINE n == Len(pieces)
           N == Len(f)
           L == Len(w)
           t == Tail(w)
<1>1. PICK p : CutAt(pieces, f, p) /\ p[1] = 0 /\ p[n + 1] = N
  BY DEF WholeCut
<1>2. /\ pieces \in Seq(Seq(Units)) /\ n \in Nat /\ N \in Nat \ {0}
      /\ p \in [1..n + 1 -> 0..N]
      /\ \A j \in 1..n : p[j] < p[j + 1] /\ pieces[j] = SubSeq(f, p[j] + 1, p[j + 1])
                         /\ pieces[j] \in Seq(Units)
  BY <1>1 DEF CutAt, WholeCut
<1>3. /\ w \in Seq(Packets) /\ m \in 0..n
      /\ w[1] = Plain("handshake", ServerHello) /\ w[2] = Plain("ccs", <<>>)
      /\ \A j \in 1..m : w[j + 2] = Encrypted(j - 1, pieces[j])
  BY DEF Sent13
<1>4. \/ L = m + 2 /\ m = n
      \/ L = m + 3 /\ m < n /\ w[m + 3] = Encrypted(m, Alert)
  BY DEF Sent13
<1>5. L \in Nat /\ m \in Nat /\ L >= 2 /\ w # <<>>
  BY <1>3, <1>4
<1>6. t \in Seq(Packets) /\ Len(t) = L - 1 /\ \A i \in 1..L - 1 : t[i] = w[i + 1]
  <2>1. t \in Seq(Packets) /\ Len(t) = Len(w) - 1 /\ \A i \in 1..Len(t) : t[i] = w[i + 1]
    BY <1>3, <1>5, HeadTailProperties
  <2> HIDE DEF t
  <2> QED BY <2>1
<1> HIDE DEF n, N, L, t
<1> DEFINE q == [i \in 1..L |-> IF i = 1 THEN 0 ELSE IF i <= m + 2 THEN p[i - 1] ELSE N]
<1>7. /\ q \in [1..L -> 0..N] /\ q[1] = 0 /\ q[2] = 0
      /\ \A i \in 1..m + 1 : q[i + 1] = p[i]
      /\ L = m + 3 => q[m + 3] = N
  <2>1. \A i \in 2..m + 2 : i - 1 \in 1..n + 1
    BY <1>2, <1>3
  <2>2. ASSUME NEW i \in 1..L PROVE q[i] \in 0..N
    <3>1. CASE i = 1
      BY <1>2, <3>1
    <3>2. CASE i # 1 /\ i <= m + 2
      <4>1. i \in 2..m + 2
        BY <1>5, <3>2
      <4>2. p[i - 1] \in 0..N
        BY <1>2, <2>1, <4>1
      <4> QED BY <3>2, <4>2
    <3>3. CASE i # 1 /\ ~(i <= m + 2)
      BY <1>2, <3>3
    <3> QED BY <3>1, <3>2, <3>3
  <2>3. ASSUME NEW i \in 1..m + 1 PROVE q[i + 1] = p[i]
    <3>1. i + 1 \in 1..L /\ i + 1 # 1 /\ i + 1 <= m + 2 /\ (i + 1) - 1 = i
      BY <1>4, <1>5
    <3> QED BY <3>1
  <2>4. q[1] = 0
    <3>1. 1 \in 1..L
      BY <1>5
    <3> QED BY <3>1
  <2>5. q[2] = 0
    <3>1. 1 \in 1..m + 1 /\ 1 + 1 = 2
      BY <1>5
    <3> QED BY <1>1, <2>3, <3>1
  <2>6. L = m + 3 => q[m + 3] = N
    <3> HAVE L = m + 3
    <3>1. m + 3 \in 1..L /\ m + 3 # 1 /\ ~(m + 3 <= m + 2)
      BY <1>5
    <3> QED BY <3>1
  <2> QED BY <2>2, <2>3, <2>4, <2>5, <2>6
<1> HIDE DEF q
<1>8. ASSUME NEW i \in 1..L - 1
      PROVE  q[i] <= q[i + 1] /\ q[i] < N /\ Bears("1.3", t[i], f, q[i], q[i + 1])
  <2>0. t[i] = w[i + 1]
    BY <1>6
  <2>1. CASE i = 1
    <3>1. t[i] = Plain("ccs", <<>>)
      BY <1>3, <2>0, <2>1
    <3>2. t[i].type = "ccs"
      BY <3>1 DEF Plain, Record
    <3>3. Bears("1.3", t[i], f, 0, 0)
      BY <3>2 DEF Bears
    <3> QED BY <1>2, <1>7, <2>1, <3>3
  <2>2. CASE i # 1 /\ i <= m + 1
    <3> DEFINE j == i - 1
    <3>1. j \in 1..m /\ j \in 1..n /\ j + 1 = i /\ j + 2 = i + 1 /\ i \in 1..m + 1
          /\ j \in 1..m + 1 /\ j \in 1..n + 1 /\ j + 1 \in 1..n + 1
      BY <1>2, <1>3, <1>5, <2>2
    <3> HIDE DEF j
    <3>2. q[i] = p[j] /\ q[i + 1] = p[j + 1] /\ t[i] = Encrypted(j - 1, pieces[j])
      BY <1>3, <1>7, <2>0, <3>1
    <3>3. p[j] < p[j + 1] /\ pieces[j] = SubSeq(f, p[j] + 1, p[j + 1])
      BY <1>2, <3>1
    <3>4. t[i].type = "encrypted" /\ t[i].body = pieces[j]
      BY <3>2 DEF Encrypted, Record
    <3>5. Bears("1.3", t[i], f, p[j], p[j + 1])
      BY <3>3, <3>4 DEF Bears
    <3>6. p[j] <= p[j + 1] /\ p[j] < N
      <4> DEFINE x == p[j]
                 y == p[j + 1]
      <4>1. x < y /\ x \in 0..N /\ y \in 0..N
        BY <1>2, <3>1, <3>3
      <4> HIDE DEF x, y
      <4>2. x <= y /\ x < N
        BY <1>2, <4>1
      <4> QED BY <4>2 DEF x, y
    <3> QED BY <3>2, <3>5, <3>6
  <2>3. CASE i # 1 /\ ~(i <= m + 1)
    <3>1. L = m + 3 /\ i = m + 2 /\ m < n /\ w[m + 3] = Encrypted(m, Alert)
      BY <1>4, <1>5, <2>3
    <3>2. m + 1 \in 1..m + 1 /\ m + 1 \in 1..n /\ (m + 1) + 1 = i /\ i + 1 = m + 3
      BY <1>2, <1>5, <3>1
    <3>3. q[i] = p[m + 1] /\ q[i + 1] = N /\ t[i] = Encrypted(m, Alert)
      BY <1>7, <2>0, <3>1, <3>2
    <3>4. p[m + 1] < N
      <4> DEFINE x == p[m + 1]
                 y == p[(m + 1) + 1]
      <4>0. \A j \in 1..n : j \in 1..n + 1 /\ j + 1 \in 1..n + 1
        BY <1>2
      <4>1. m + 1 \in 1..n + 1 /\ (m + 1) + 1 \in 1..n + 1
        BY <3>2, <4>0, Zenon
      <4>2. x < y /\ x \in 0..N /\ y \in 0..N
        BY <1>2, <3>2, <4>1
      <4> HIDE DEF x, y
      <4>3. x < N
        BY <1>2, <4>2
      <4> QED BY <4>3 DEF x
    <3>5. t[i].type = "encrypted" /\ t[i].body = Alert
      BY <3>3 DEF Encrypted, Record
    <3>6. Bears("1.3", t[i], f, p[m + 1], N)
      BY <3>5 DEF Bears, N
    <3>7. p[m + 1] \in 0..N
      <4>1. m + 1 \in 1..n + 1
        BY <1>2, <3>2
      <4> QED BY <1>2, <4>1
    <3> QED BY <3>3, <3>4, <3>6, <3>7, <1>2
  <2> QED BY <2>1, <2>2, <2>3
<1>9. CarriedAt("1.3", t, f, q)
  <2>1. Len(t) = L - 1 /\ Len(t) + 1 = L /\ Len(f) = N
    BY <1>5, <1>6 DEF N
  <2> QED BY <1>7, <1>8, <2>1 DEF CarriedAt
<1>10. Carries("1.3", t, f, 0)
  BY <1>6, <1>7, <1>9 DEF Carries
<1> QED BY <1>3, <1>5, <1>10 DEF t

(* What Wire13 and Aborted send are such records.                          *)
LEMMA Wire13Sent ==
  ASSUME NEW pieces \in Seq(Seq(Units))
  PROVE  /\ Sent13(Wire13(pieces), pieces, Len(pieces))
         /\ \A k \in 0..Len(pieces) - 1 :
              Sent13(SubSeq(Wire13(pieces), 1, k + 2) \o <<Encrypted(k, Alert)>>, pieces, k)
<1> DEFINE n == Len(pieces)
           a == Plain("handshake", ServerHello)
           b == Plain("ccs", <<>>)
           c == [i \in 1..n |-> Record("encrypted", "handshake", i - 1, pieces[i])]
           w == Wire13(pieces)
<1>1. n \in Nat /\ a \in Packets /\ b \in Packets
  <2>1. Plain("handshake", ServerHello) \in Packets /\ Plain("ccs", <<>>) \in Packets
    BY ServerHelloUnits, AlertUnits DEF Plain, Record, Packets
  <2> QED BY <2>1
<1>2. c \in Seq(Packets) /\ Len(c) = n /\ \A i \in 1..n : c[i] = Encrypted(i - 1, pieces[i])
  <2>1. \A i \in 1..n : Encrypted(i - 1, pieces[i]) \in Packets
    <3> SUFFICES ASSUME NEW i \in 1..n PROVE Encrypted(i - 1, pieces[i]) \in Packets
      OBVIOUS
    <3>1. i - 1 \in Nat /\ pieces[i] \in Seq(Units)
      OBVIOUS
    <3> QED BY <3>1 DEF Encrypted, Record, Packets
  <2>2. c = [i \in 1..n |-> Encrypted(i - 1, pieces[i])]
    BY DEF Encrypted
  <2> HIDE DEF c
  <2> QED BY <1>1, <2>1, <2>2
<1>3. w = (<<a>> \o <<b>>) \o c
  BY DEF Wire13
<1> HIDE DEF a, b, c, n, w
<1>4. <<a>> \in Seq(Packets) /\ <<b>> \in Seq(Packets) /\ Len(<<a>>) = 1 /\ Len(<<b>>) = 1
      /\ <<a>>[1] = a /\ <<b>>[1] = b
  BY <1>1
<1> DEFINE h == <<a>> \o <<b>>
<1>5. h \in Seq(Packets) /\ Len(h) = 2 /\ h[1] = a /\ h[2] = b
  <2>1. /\ h \in Seq(Packets) /\ Len(h) = 1 + 1
        /\ \A i \in 1..1 + 1 : h[i] = IF i <= 1 THEN <<a>>[i] ELSE <<b>>[i - 1]
    BY <1>4, ConcatProperties
  <2> HIDE DEF h
  <2>2. 1 \in 1..1 + 1 /\ 2 \in 1..1 + 1 /\ ~(2 <= 1) /\ 2 - 1 = 1
    OBVIOUS
  <2> QED BY <1>4, <2>1, <2>2
<1> HIDE DEF h
<1>6. /\ w \in Seq(Packets) /\ Len(w) = n + 2 /\ w[1] = a /\ w[2] = b
      /\ \A j \in 1..n : w[j + 2] = Encrypted(j - 1, pieces[j])
  <2>1. /\ h \o c \in Seq(Packets) /\ Len(h \o c) = Len(h) + Len(c)
        /\ \A i \in 1..Len(h) + Len(c) :
             (h \o c)[i] = IF i <= Len(h) THEN h[i] ELSE c[i - Len(h)]
    BY <1>2, <1>5, ConcatProperties
  <2>2. /\ w \in Seq(Packets) /\ Len(w) = 2 + n
        /\ \A i \in 1..2 + n : w[i] = IF i <= 2 THEN h[i] ELSE c[i - 2]
    BY <1>2, <1>3, <1>5, <2>1 DEF h
  <2>3. 1 \in 1..2 + n /\ 2 \in 1..2 + n /\ 1 <= 2 /\ 2 <= 2
    BY <1>1
  <2>4. ASSUME NEW j \in 1..n PROVE w[j + 2] = Encrypted(j - 1, pieces[j])
    <3>1. j + 2 \in 1..2 + n /\ ~(j + 2 <= 2) /\ (j + 2) - 2 = j
      BY <1>1
    <3> QED BY <1>2, <2>2, <3>1
  <2> QED BY <1>1, <1>5, <2>2, <2>3, <2>4
<1>7. Sent13(w, pieces, n)
  <2>1. n \in 0..n
    BY <1>1
  <2> QED BY <1>6, <2>1 DEF Sent13, a, b, n
<1>8. ASSUME NEW k \in 0..n - 1
      PROVE  Sent13(SubSeq(w, 1, k + 2) \o <<Encrypted(k, Alert)>>, pieces, k)
  <2> DEFINE m == k + 2
             x == SubSeq(w, 1, m)
             e == Encrypted(k, Alert)
             z == x \o <<e>>
  <2>1. m \in 0..Len(w) /\ m - 1 + 1 = m /\ 1 <= m + 1 /\ (\A i \in 1..m : 1 + i - 1 = i)
        /\ 1 \in Nat \ {0} /\ m \in Nat
    BY <1>1, <1>6
  <2>2. x \in Seq(Packets) /\ Len(x) = m /\ \A i \in 1..m : x[i] = w[i]
    <3>1. x \in Seq(Packets) /\ Len(x) = m - 1 + 1 /\ \A i \in 1..m - 1 + 1 : x[i] = w[1 + i - 1]
      <4> HIDE DEF m
      <4> QED BY <1>6, <2>1, Part
    <3> HIDE DEF x, m
    <3> QED BY <2>1, <3>1
  <2>3. e \in Packets
    <3>1. k \in Nat
      BY <1>1
    <3> QED BY <3>1, AlertUnits DEF Encrypted, Record, Packets
  <2> HIDE DEF x, e
  <2>4. z \in Seq(Packets) /\ Len(z) = m + 1 /\ z[m + 1] = e /\ \A i \in 1..m : z[i] = w[i]
    <3> HIDE DEF m
    <3>1. <<e>> \in Seq(Packets) /\ Len(<<e>>) = 1 /\ <<e>>[1] = e
      BY <2>3
    <3>2. /\ z \in Seq(Packets) /\ Len(z) = m + 1
          /\ \A i \in 1..m + 1 : z[i] = IF i <= m THEN x[i] ELSE <<e>>[i - m]
      BY <2>2, <3>1, ConcatProperties
    <3> HIDE DEF z
    <3>3. m + 1 \in 1..m + 1 /\ ~(m + 1 <= m) /\ (m + 1) - m = 1
          /\ \A i \in 1..m : i \in 1..m + 1 /\ i <= m
      BY <2>1
    <3> QED BY <2>2, <3>1, <3>2, <3>3
  <2> HIDE DEF z
  <2>5. z[1] = a /\ z[2] = b /\ Len(z) = k + 3 /\ z[k + 3] = e
    <3>1. 1 \in 1..m /\ 2 \in 1..m /\ m + 1 = k + 3
      BY <1>1
    <3> QED BY <1>6, <2>4, <3>1
  <2>6. ASSUME NEW j \in 1..k PROVE z[j + 2] = Encrypted(j - 1, pieces[j])
    <3>1. j + 2 \in 1..m /\ j \in 1..n
      BY <1>1
    <3> QED BY <1>6, <2>4, <3>1
  <2>7. k \in 0..n /\ k < n
    BY <1>1
  <2>8. Sent13(z, pieces, k)
    BY <2>4, <2>5, <2>6, <2>7 DEF Sent13, a, b, n, e
  <2> QED BY <2>8 DEF z, x, e
<1> QED BY <1>7, <1>8 DEF w, n

-----------------------------------------------------------------------------
(* What the client may find on the connection before it has read anything. *)
Opening(v, w) ==
  /\ w \in Seq(Packets)
  /\ \/ w = <<Plain("alert", Alert)>>
     \/ /\ v = "1.3" /\ w # <<>> /\ w[1] = Plain("handshake", ServerHello)
        /\ \E c \in CertLengths : Carries(v, Tail(w), FlightOf(v, c), 0)
     \/ v = "1.2" /\ \E c \in CertLengths : Carries(v, w, FlightOf(v, c), 0)

(* Every first flight of a server begins in one of these ways.             *)
LEMMA Openings ==
  ASSUME NEW v \in {"1.2", "1.3"}, NEW k \in Fates, NEW w \in FirstFlights(v, k)
  PROVE  Opening(v, w)
<1>1. \E c \in CertLengths : \E pieces \in Cuts(FlightOf(v, c)) :
        \/ w \in Aborted(v, pieces)
        \/ w = IF v = "1.3" THEN Wire13(pieces) ELSE Wire12(pieces)
  BY Zenon DEF FirstFlights, FlightOf
<1>2. PICK c \in CertLengths : \E pieces \in Cuts(FlightOf(v, c)) :
        \/ w \in Aborted(v, pieces)
        \/ w = IF v = "1.3" THEN Wire13(pieces) ELSE Wire12(pieces)
  BY <1>1
<1> DEFINE f == FlightOf(v, c)
<1>3. PICK pieces \in Cuts(f) :
        \/ w \in Aborted(v, pieces)
        \/ w = IF v = "1.3" THEN Wire13(pieces) ELSE Wire12(pieces)
  BY <1>2
<1>4. f \in Seq(Units) /\ f # <<>>
  <2>1. EndsWith(f, EndName(v))
    BY FlightShape
  <2> HIDE DEF f
  <2> QED BY <2>1 DEF EndsWith
<1>5. WholeCut(pieces, f, Units, 0) /\ pieces \in Seq(Seq(Units))
  <2>1. WholeCut(pieces, f, Units, 0)
    <3> HIDE DEF f
    <3> QED BY <1>3, <1>4, CutsAreCuts
  <2> QED BY <2>1 DEF WholeCut
<1> HIDE DEF f
<1>6. CASE w = <<Plain("alert", Alert)>>
  <2>1. Plain("alert", Alert) \in Packets
    BY AlertUnits DEF Plain, Record, Packets
  <2> QED BY <1>6, <2>1 DEF Opening
<1>7. CASE v = "1.2" /\ w # <<Plain("alert", Alert)>>
  <2>1. \/ w = Wire12(pieces)
        \/ \E j \in 0..Len(pieces) - 1 :
             w = SubSeq(Wire12(pieces), 1, j) \o <<Plain("alert", Alert)>>
    BY <1>3, <1>7 DEF Aborted
  <2>2. Carries("1.2", w, f, 0)
    BY <1>4, <1>5, <2>1, Carried12
  <2>3. w \in Seq(Packets)
    BY <2>2 DEF Carries
  <2> QED BY <1>7, <2>2, <2>3 DEF Opening, f
<1>8. CASE v = "1.3" /\ w # <<Plain("alert", Alert)>>
  <2>1. \/ w = Wire13(pieces)
        \/ \E j \in 0..Len(pieces) - 1 :
             w = SubSeq(Wire13(pieces), 1, j + 2) \o <<Encrypted(j, Alert)>>
    BY <1>3, <1>8 DEF Aborted, Encrypted
  <2>2. \E m : Sent13(w, pieces, m)
    BY <1>5, <2>1, Wire13Sent
  <2>3. /\ w # <<>> /\ w \in Seq(Packets) /\ w[1] = Plain("handshake", ServerHello)
        /\ Carries("1.3", Tail(w), f, 0)
    BY <1>4, <1>5, <2>2, Carried13
  <2> QED BY <1>8, <2>3 DEF Opening, f
<1> QED BY <1>6, <1>7, <1>8

-----------------------------------------------------------------------------
(* What is handled of a queue.                                             *)

(* The parts of a unit, and the length read from it.                       *)
LEMMA UnitParts ==
  ASSUME NEW u \in Units, NEW misread \in Misreadings
  PROVE  /\ u[1] \in Names /\ u[2] \in Nat /\ u[3] \in Nat \ {0}
         /\ Found(u, misread) \in Nat \ {0}
<1>1. u[1] \in Names /\ u[2] \in Positive /\ u[3] \in Positive
  BY DEF Units
<1>2. misread \in Nat \ {0}
  BY HsBufSizeAssumption DEF Misreadings
<1> QED BY <1>1, <1>2 DEF Positive, Found

(* The whole messages found in d, none of them empty, make up its first u  *)
(* units; each begins with a unit of d.                                    *)
LEMMA Parsed ==
  ASSUME NEW d \in Seq(Units), NEW misread \in Misreadings
  PROVE  LET msgs == Messages(d, misread)
         IN /\ msgs \in Seq(Seq(Units))
            /\ \E p : /\ ReadFrom(msgs, d, misread, p) /\ p[1] = 0
                      /\ p \in [1..Len(msgs) + 1 -> 0..Len(d)]
                      /\ FlattenSeq(msgs) = SubSeq(d, 1, p[Len(msgs) + 1])
                      /\ \A j \in 1..Len(msgs) :
                           /\ p[j] + 1 \in 1..Len(d) /\ p[j] < p[j + 1]
                           /\ msgs[j][1] = d[p[j] + 1]
<1> DEFINE msgs == Messages(d, misread)
<1>1. \A i \in 1..Len(d) : Found(d[i], misread) \in Nat \ {0}
  BY UnitParts
<1>2. msgs \in Seq(Seq(Units)) /\ \E p : ReadFrom(msgs, d, misread, p) /\ p[1] = 0
  BY <1>1, MessagesCut
<1> HIDE DEF msgs
<1>3. PICK p : ReadFrom(msgs, d, misread, p) /\ p[1] = 0
  BY <1>2
<1>4. CutAt(msgs, d, p) /\ p \in [1..Len(msgs) + 1 -> 0..Len(d)] /\ Len(msgs) \in Nat
  BY <1>2, <1>3 DEF ReadFrom, CutAt
<1>5. FlattenSeq(msgs) = SubSeq(d, 1, p[Len(msgs) + 1])
  <2>1. FlattenSeq(msgs) = SubSeq(d, p[1] + 1, p[Len(msgs) + 1])
    <3>1. d \in Seq(Units) /\ msgs \in Seq(Seq(Units)) /\ CutAt(msgs, d, p)
      BY <1>2, <1>4
    <3> QED BY <3>1, CutTogether, Zenon
  <2>2. p[1] + 1 = 1
    BY <1>3
  <2> QED BY <2>1, <2>2, Zenon
<1>6. ASSUME NEW j \in 1..Len(msgs)
      PROVE  p[j] + 1 \in 1..Len(d) /\ p[j] < p[j + 1] /\ msgs[j][1] = d[p[j] + 1]
  <2>1. /\ p[j] \in 0..p[j + 1] - 1 /\ p[j + 1] \in 1..Len(d)
        /\ msgs[j][1] = d[p[j] + 1]
    <3>1. /\ d \in Seq(Units) /\ CutAt(msgs, d, p) /\ Len(msgs) \in Nat
          /\ j \in 1..Len(msgs)
      BY <1>4
    <3>2. PieceAt(Units, d, msgs, p, j)
      BY <3>1, CutPiece, Zenon
    <3> QED BY <3>2 DEF PieceAt
  <2> DEFINE x == p[j]
             y == p[j + 1]
  <2>2. x + 1 \in 1..Len(d) /\ x < y
    <3>1. x \in 0..y - 1 /\ y \in 1..Len(d)
      BY <2>1
    <3> HIDE DEF x, y
    <3> QED BY <3>1
  <2> QED BY <2>1, <2>2
<1> QED BY <1>2, <1>3, <1>4, <1>5, <1>6 DEF msgs

(* Nothing is handled that is not there.                                   *)
LEMMA NamesFound ==
  ASSUME NEW d \in Seq(Units), NEW misread \in Misreadings, NEW name,
         \A i \in 1..Len(d) : d[i][1] # name
  PROVE  LET msgs == Messages(d, misread)
         IN /\ msgs \in Seq(Seq(Units))
            /\ \A j \in 1..Len(msgs) : NameOf(msgs[j]) # name
<1> DEFINE msgs == Messages(d, misread)
<1>1. /\ msgs \in Seq(Seq(Units))
      /\ \E p : \A j \in 1..Len(msgs) :
           /\ p[j] + 1 \in 1..Len(d) /\ p[j] < p[j + 1]
           /\ msgs[j][1] = d[p[j] + 1]
  BY Parsed
<1> HIDE DEF msgs
<1>2. PICK p : \A j \in 1..Len(msgs) :
                 p[j] + 1 \in 1..Len(d) /\ msgs[j][1] = d[p[j] + 1]
  BY <1>1
<1>3. \A j \in 1..Len(msgs) : NameOf(msgs[j]) # name
  BY <1>2 DEF NameOf
<1> QED BY <1>1, <1>3 DEF msgs

(* The queue holds units b + 1 .. y of the flight: what is handled is its  *)
(* front, up to unit b + u, and the message the flight ends with is only   *)
(* handled when it is the last, and nothing stays behind it.               *)
Handles(msgs, f, name, b, y, u) ==
  /\ FlattenSeq(msgs) = SubSeq(f, b + 1, b + u)
  /\ Remainder(SubSeq(f, b + 1, y), msgs) = SubSeq(f, b + u + 1, y)
  /\ \A j \in 1..Len(msgs) :
       NameOf(msgs[j]) = name => j = Len(msgs) /\ b + u = Len(f) /\ y = Len(f)

(* Whatever the cuts, the messages found in the queue are those of the     *)
(* flight that are whole in it.                                            *)
LEMMA QueueHandled ==
  ASSUME NEW f, NEW name, EndsWith(f, name), NEW y \in 0..Len(f), NEW b \in 0..y,
         NEW misread \in Misreadings
  PROVE  LET msgs == Messages(SubSeq(f, b + 1, y), misread)
         IN /\ msgs \in Seq(Seq(Units))
            /\ \E u \in 0..y - b : Handles(msgs, f, name, b, y, u)
<1> DEFINE N == Len(f)
           d == SubSeq(f, b + 1, y)
           msgs == Messages(d, misread)
           n == Len(msgs)
<1>1. /\ f \in Seq(Units) /\ N \in Nat \ {0} /\ f[N] = <<name, 1, 1>>
      /\ \A i \in 1..N - 1 : f[i][1] # name
  BY DEF EndsWith
<1>2. d \in Seq(Units) /\ Len(d) = y - b /\ \A i \in 1..y - b : d[i] = f[b + i]
  <2> DEFINE m == b + 1
  <2>1. m \in Nat \ {0} /\ y \in 0..Len(f) /\ m <= y + 1 /\ y - m + 1 = y - b
        /\ \A i \in 1..y - b : m + i - 1 = b + i
    BY <1>1
  <2>2. SubSeq(f, m, y) \in Seq(Units) /\ Len(SubSeq(f, m, y)) = y - m + 1
        /\ \A i \in 1..y - m + 1 : SubSeq(f, m, y)[i] = f[m + i - 1]
    <3> HIDE DEF m
    <3> QED BY <1>1, <2>1, Part
  <2> QED BY <2>1, <2>2
<1> HIDE DEF d
<1>3. /\ msgs \in Seq(Seq(Units))
      /\ \E p : /\ ReadFrom(msgs, d, misread, p) /\ p[1] = 0
                /\ p \in [1..n + 1 -> 0..Len(d)]
                /\ FlattenSeq(msgs) = SubSeq(d, 1, p[n + 1])
                /\ \A j \in 1..n : /\ p[j] + 1 \in 1..Len(d) /\ p[j] < p[j + 1]
                                   /\ msgs[j][1] = d[p[j] + 1]
  BY <1>2, Parsed
<1> HIDE DEF msgs
<1>4. PICK p : /\ ReadFrom(msgs, d, misread, p) /\ p[1] = 0
               /\ p \in [1..n + 1 -> 0..Len(d)]
               /\ FlattenSeq(msgs) = SubSeq(d, 1, p[n + 1])
               /\ \A j \in 1..n : /\ p[j] + 1 \in 1..Len(d) /\ p[j] < p[j + 1]
                                  /\ msgs[j][1] = d[p[j] + 1]
  BY <1>3
<1> DEFINE u == p[n + 1]
<1>5. n \in Nat /\ u \in 0..y - b /\ FlattenSeq(msgs) = SubSeq(d, 1, u)
  <2>1. n \in Nat
    BY <1>3
  <2>2. n + 1 \in 1..n + 1
    BY <2>1
  <2>3. u \in 0..Len(d)
    <3> HIDE DEF n
    <3> QED BY <1>4, <2>2
  <2> QED BY <1>2, <1>4, <2>1, <2>3
<1> HIDE DEF u, n
<1>6. /\ SubSeq(d, u + 1, Len(d)) = SubSeq(f, b + u + 1, y)
      /\ SubSeq(d, 1, u) = SubSeq(f, b + 1, b + u)
  BY <1>1, <1>5, PartOfPart DEF d
<1>7. Remainder(d, msgs) = SubSeq(f, b + u + 1, y)
  <2>1. Len(SubSeq(d, 1, u)) = u
    <3>1. 1 \in Nat \ {0} /\ u \in 0..Len(d) /\ 1 <= u + 1 /\ u - 1 + 1 = u
      BY <1>2, <1>5
    <3>2. Len(SubSeq(d, 1, u)) = u - 1 + 1
      BY <1>2, <3>1, Part
    <3> QED BY <3>1, <3>2
  <2>2. Remainder(d, msgs) = SubSeq(d, u + 1, Len(d))
    BY <1>5, <2>1, Zenon DEF Remainder
  <2> QED BY <1>6, <2>2
<1>8. ASSUME NEW j \in 1..n, NameOf(msgs[j]) = name
      PROVE  j = n /\ b + u = N /\ y = N
  <2> DEFINE k == p[j]
  <2>1. k \in Nat /\ k + 1 \in 1..y - b /\ msgs[j][1] = d[k + 1]
    <3>1. j \in 1..n + 1
      BY <1>5
    <3>2. k \in 0..Len(d)
      BY <1>4, <3>1
    <3>3. k + 1 \in 1..Len(d) /\ msgs[j][1] = d[k + 1]
      BY <1>4
    <3> HIDE DEF k
    <3> QED BY <1>2, <3>2, <3>3
  <2> HIDE DEF k
  <2>2. d[k + 1] = f[b + (k + 1)] /\ b + (k + 1) \in 1..N
    BY <1>1, <1>2, <2>1
  <2>3. f[b + (k + 1)][1] = name
    BY <1>8, <2>1, <2>2 DEF NameOf
  <2>4. b + (k + 1) = N
    <3> DEFINE i == b + (k + 1)
    <3>1. i \in 1..N /\ f[i][1] = name
      BY <2>2, <2>3
    <3> HIDE DEF i
    <3>2. i = N
      BY <1>1, <3>1
    <3> QED BY <3>2 DEF i
  <2>5. y = N /\ k + 1 = y - b
    BY <1>1, <2>1, <2>4
  <2>6. p[j + 1] = Len(d)
    <3>1. p[j + 1] \in 0..Len(d) /\ k < p[j + 1]
      <4>1. j + 1 \in 1..n + 1
        BY <1>5
      <4> QED BY <1>4, <4>1 DEF k
    <3> QED BY <1>2, <2>1, <2>5, <3>1
  <2>7. j = n
    <3> SUFFICES ASSUME j # n PROVE FALSE
      OBVIOUS
    <3>1. j + 1 \in 1..n
      BY <1>5
    <3>2. p[j + 1] + 1 \in 1..Len(d)
      BY <1>4, <3>1
    <3> QED BY <1>2, <2>6, <3>2
  <2>8. u = y - b
    BY <1>2, <2>6, <2>7 DEF u
  <2> QED BY <1>1, <2>5, <2>7, <2>8
<1>9. Handles(msgs, f, name, b, y, u)
  BY <1>5, <1>6, <1>7, <1>8 DEF Handles, d, n, N
<1> QED BY <1>3, <1>5, <1>9 DEF msgs, d

-----------------------------------------------------------------------------
State12 == [transcript : Seq(Units), secret : BOOLEAN, flight : BOOLEAN, failed : BOOLEAN]

(* The state a TLS 1.2 message leaves.                                     *)
LEMMA State12Of ==
  ASSUME NEW tr \in Seq(Units), NEW s \in BOOLEAN, NEW fl \in BOOLEAN, NEW fa \in BOOLEAN
  PROVE  [transcript |-> tr, secret |-> s, flight |-> fl, failed |-> fa] \in State12
BY DEF State12

(* The messages of a queue leave such a state, and the client answers only *)
(* when a ServerHelloDone is among them.                                   *)
LEMMA Handled12Ends ==
  ASSUME NEW msgs
  PROVE  msgs \in Seq(Seq(Units)) /\ transcript \in Seq(Units) /\ secret \in BOOLEAN =>
         /\ Handled12(msgs) \in State12
         /\ Handled12(msgs).flight =>
              \E j \in 1..Len(msgs) : NameOf(msgs[j]) = "ServerHelloDone"
<1>0. SUFFICES ASSUME msgs \in Seq(Seq(Units)), transcript \in Seq(Units), secret \in BOOLEAN
               PROVE  /\ Handled12(msgs) \in State12
                      /\ Handled12(msgs).flight =>
                           \E j \in 1..Len(msgs) : NameOf(msgs[j]) = "ServerHelloDone"
  OBVIOUS
<1> DEFINE n == Len(msgs)
           start == [transcript |-> transcript, secret |-> secret,
                     flight |-> FALSE, failed |-> FALSE]
           step == [j \in 1..n |-> [st \in State12 |-> Handle12(st, msgs[j])]]
           Body(a) == [j \in 0..n |-> IF j = 0 THEN start ELSE Handle12(a[j - 1], msgs[j])]
           after == CHOOSE a : a = Body(a)
<1>1. n \in Nat /\ start \in State12
  <2>1. start \in State12
    BY <1>0, Zenon DEF State12
  <2> QED BY <1>0, <2>1
<1>2. Handled12(msgs) = after[n]
  BY DEF Handled12
<1>3. ASSUME NEW st \in State12, NEW m \in Seq(Units)
      PROVE  /\ Handle12(st, m) \in State12
             /\ Handle12(st, m).flight => st.flight \/ NameOf(m) = "ServerHelloDone"
  <2>1. /\ ClientKeyExchange \in Seq(Units) /\ ClientFinished \in Seq(Units)
        /\ 1 \in Nat \ {0}
    <3>1. "ClientKeyExchange" \in Names /\ "ClientFinished" \in Names /\ 1 \in Nat \ {0}
      BY DEF Names
    <3> QED BY <3>1, MessageUnits DEF ClientKeyExchange, ClientFinished
  <2>2. /\ st.transcript \in Seq(Units) /\ st.secret \in BOOLEAN
        /\ st.flight \in BOOLEAN /\ st.failed \in BOOLEAN
        /\ st = [transcript |-> st.transcript, secret |-> st.secret,
                 flight |-> st.flight, failed |-> st.failed]
    BY DEF State12
  <2>3. /\ st.transcript \o m \in Seq(Units)
        /\ st.transcript \o m \o ClientKeyExchange \o ClientFinished \in Seq(Units)
    <3>1. st.transcript \o m \in Seq(Units)
      BY <2>2, ConcatProperties
    <3>2. st.transcript \o m \o ClientKeyExchange \in Seq(Units)
      BY <2>1, <3>1, ConcatProperties
    <3> QED BY <2>1, <3>1, <3>2, ConcatProperties
  <2>4. CASE st.failed
    BY <2>4 DEF Handle12
  <2>5. CASE ~st.failed /\ NameOf(m) = "ServerKeyExchange"
    <3>0. PICK refused : refused = (fate = "other group")
      OBVIOUS
    <3>1. Handle12(st, m) = [st EXCEPT !.transcript = @ \o m, !.secret = TRUE,
                               !.failed = refused]
      BY <2>5, <3>0, Zenon DEF Handle12
    <3>2. Handle12(st, m) = [transcript |-> st.transcript \o m, secret |-> TRUE,
                             flight |-> st.flight, failed |-> refused]
      BY <2>2, <3>1
    <3>3. refused \in BOOLEAN
      BY <3>0
    <3>4. Handle12(st, m) \in State12
      BY <2>2, <2>3, <3>2, <3>3, State12Of
    <3> QED BY <3>2, <3>4
  <2>6. CASE ~st.failed /\ NameOf(m) = "ServerHelloDone"
    <3> DEFINE tr == st.transcript \o m \o ClientKeyExchange \o ClientFinished
    <3>1. Handle12(st, m) = [st EXCEPT !.transcript = tr, !.flight = TRUE]
      BY <2>6 DEF Handle12
    <3>2. tr \in Seq(Units)
      BY <2>3
    <3> HIDE DEF tr
    <3>3. Handle12(st, m) = [transcript |-> tr, secret |-> st.secret,
                             flight |-> TRUE, failed |-> st.failed]
      BY <2>2, <3>1
    <3>4. Handle12(st, m) \in State12
      BY <2>2, <3>2, <3>3, State12Of
    <3> QED BY <2>6, <3>4
  <2>7. CASE ~st.failed /\ NameOf(m) \notin {"ServerKeyExchange", "ServerHelloDone"}
    <3>1. Handle12(st, m) = [st EXCEPT !.transcript = @ \o m]
      BY <2>7 DEF Handle12
    <3>2. Handle12(st, m) = [transcript |-> st.transcript \o m, secret |-> st.secret,
                             flight |-> st.flight, failed |-> st.failed]
      BY <2>2, <3>1
    <3>3. Handle12(st, m) \in State12
      BY <2>2, <2>3, <3>2, State12Of
    <3> QED BY <3>2, <3>3
  <2> QED BY <2>4, <2>5, <2>6, <2>7
<1>4. step \in [1..n -> [State12 -> State12]]
  <2>1. \A j \in 1..n : msgs[j] \in Seq(Units)
    BY <1>0
  <2> QED BY <1>3, <2>1
<1>5. \E g \in [0..n -> State12] :
        g[0] = start /\ \A j \in 1..n : g[j] = step[j][g[j - 1]]
  <2> HIDE DEF n, start, step
  <2> DEFINE V == State12
  <2>1. n \in Nat /\ start \in V /\ step \in [1..n -> [V -> V]]
    BY <1>1, <1>4
  <2> HIDE DEF V
  <2>2. \E g \in [0..n -> V] :
        g[0] = start /\ \A j \in 1..n : g[j] = step[j][g[j - 1]]
    BY <2>1, Recursion
  <2> QED BY <2>2 DEF V
<1>6. PICK g \in [0..n -> State12] : g[0] = start /\ \A j \in 1..n : g[j] = Handle12(g[j - 1], msgs[j])
  <2>1. PICK g \in [0..n -> State12] :
          g[0] = start /\ \A j \in 1..n : g[j] = step[j][g[j - 1]]
    BY <1>5
  <2>2. \A j \in 1..n : step[j][g[j - 1]] = Handle12(g[j - 1], msgs[j])
    <3> SUFFICES ASSUME NEW j \in 1..n PROVE step[j][g[j - 1]] = Handle12(g[j - 1], msgs[j])
      OBVIOUS
    <3>1. g[j - 1] \in State12
      <4>1. j - 1 \in 0..n
        BY <1>1
      <4> QED BY <4>1
    <3> QED BY <3>1
  <2> HIDE DEF step
  <2> QED BY <2>1, <2>2
<1>7. g = Body(g)
  <2>1. ASSUME NEW j \in 0..n PROVE g[j] = IF j = 0 THEN start ELSE Handle12(g[j - 1], msgs[j])
    <3>1. j = 0 \/ j \in 1..n
      BY <1>1
    <3> HIDE DEF start, n
    <3> QED BY <1>6, <3>1
  <2> HIDE DEF start, n
  <2> QED BY <2>1
<1>8. after = Body(after)
  <2> HIDE DEF Body
  <2> QED BY <1>7
<1> HIDE DEF after
<1>9. after[0] = start /\ \A j \in 1..n : after[j] = Handle12(after[j - 1], msgs[j])
  <2>1. \A j \in 0..n : after[j] = IF j = 0 THEN start ELSE Handle12(after[j - 1], msgs[j])
    <3> HIDE DEF start
    <3> QED BY <1>8
  <2> HIDE DEF start, Body
  <2>2. 0 \in 0..n /\ \A j \in 1..n : j \in 0..n /\ j # 0
    BY <1>1
  <2> QED BY <2>1, <2>2
<1> HIDE DEF Body
<1> DEFINE Good(j) == /\ after[j] \in State12
                      /\ after[j].flight => \E i \in 1..n : NameOf(msgs[i]) = "ServerHelloDone"
           T == {j \in Nat : j <= n => Good(j)}
<1>10. 0 \in T
  <2>1. Good(0)
    <3>1. start.flight = FALSE
      OBVIOUS
    <3> QED BY <1>1, <1>9, <3>1
  <2> HIDE DEF Good
  <2> QED BY <2>1
<1>11. ASSUME NEW j \in T PROVE j + 1 \in T
  <2>0. j \in Nat /\ (j <= n => Good(j)) /\ j + 1 \in Nat
    <3> HIDE DEF Good
    <3> QED OBVIOUS
  <2>1. ASSUME j + 1 <= n PROVE Good(j + 1)
    <3>1. j + 1 \in 1..n /\ (j + 1) - 1 = j /\ j <= n
      BY <1>1, <2>0, <2>1
    <3>2. after[j + 1] = Handle12(after[j], msgs[j + 1]) /\ msgs[j + 1] \in Seq(Units)
      <4> HIDE DEF start
      <4> QED BY <1>0, <1>9, <3>1
    <3>3. after[j] \in State12
          /\ (after[j].flight => \E i \in 1..n : NameOf(msgs[i]) = "ServerHelloDone")
      BY <2>0, <3>1
    <3>4. /\ Handle12(after[j], msgs[j + 1]) \in State12
          /\ Handle12(after[j], msgs[j + 1]).flight =>
               after[j].flight \/ NameOf(msgs[j + 1]) = "ServerHelloDone"
      BY <1>3, <3>2, <3>3
    <3> HIDE DEF start, n
    <3> QED BY <3>1, <3>2, <3>3, <3>4, Zenon
  <2> HIDE DEF Good
  <2> QED BY <2>0, <2>1
<1>12. T = Nat
  <2>1. T \in SUBSET Nat
    OBVIOUS
  <2> HIDE DEF T
  <2> QED BY <1>10, <1>11, <2>1, SetInduction
<1>13. Good(n)
  <2> HIDE DEF Good
  <2> QED BY <1>1, <1>12
<1> HIDE DEF start
<1> QED BY <1>2, <1>13

-----------------------------------------------------------------------------
(* The handshake.                                                          *)

Beginning == status \in {"hello sent", "running", "failed"}

HandTypes ==
  /\ version \in {"1.2", "1.3"} /\ fate \in Fates
  /\ status \in {"hello sent", "running", "done", "failed", "closed"}
  /\ secret \in BOOLEAN /\ server_ccs_received \in BOOLEAN /\ answered \in BOOLEAN
  /\ server_seq \in Nat
  /\ Beginning => /\ hs_buf \in Seq(Units) /\ Len(hs_buf) <= HsBufSize
                  /\ transcript \in Seq(Units)

HelloSent ==
  /\ Opening(version, wire)
  /\ hs_buf = <<>> /\ transcript = <<>> /\ keys = "none"
  /\ client_seq = 0 /\ server_seq = 0
  /\ secret = FALSE /\ answered = FALSE /\ server_ccs_received = FALSE

(* The queue holds units b + 1 .. e of the flight, and the records that    *)
(* are still to come bring the rest of it.                                 *)
Queued(c, b, e) ==
  /\ e \in 0..Len(FlightOf(version, c)) /\ b \in 0..e
  /\ hs_buf = SubSeq(FlightOf(version, c), b + 1, e)
  /\ Carries(version, wire, FlightOf(version, c), e)

Running13 ==
  /\ secret = TRUE /\ keys = "handshake"
  /\ \/ wire = <<>>
     \/ \E c \in CertLengths, b, e \in Nat :
          /\ Queued(c, b, e)
          /\ transcript = ServerHello \o SubSeq(FlightOf(version, c), 1, b)

Ccs12 == Plain("ccs", <<>>)
Fin12 == Record("handshake", "data", 0, Finished)

Before12 ==
  /\ keys = "none" /\ client_seq = 0 /\ answered = FALSE /\ server_ccs_received = FALSE
  /\ \E c \in CertLengths, b, e \in Nat : Queued(c, b, e)

After12 ==
  /\ keys = "data" /\ client_seq = 1 /\ hs_buf = <<>>
  /\ \/ /\ answered = FALSE /\ server_ccs_received = FALSE /\ wire = <<>>
     \/ /\ answered = TRUE /\ server_ccs_received = FALSE
        /\ wire \in {<<Ccs12, Fin12>>, <<Plain("alert", Alert)>>}
     \/ /\ answered = TRUE /\ server_ccs_received = TRUE /\ wire = <<Fin12>>

Running12 == server_seq = 0 /\ (Before12 \/ After12)

Done ==
  /\ secret = TRUE /\ Agreed /\ keys = "data"
  /\ version = "1.2" => answered = TRUE
  /\ server_seq >= FirstDataNumber
  /\ server_seq = FirstDataNumber => hs_buf = <<>>

HandInv ==
  /\ HandTypes
  /\ status = "hello sent" => HelloSent
  /\ status = "running" /\ version = "1.3" => Running13
  /\ status = "running" /\ version = "1.2" => Running12
  /\ status = "done" => Done

(* What the handshake leaves to the data.                                  *)
Handover ==
  status # "done" /\ status' = "done" =>
    /\ wire' = <<>> /\ hs_buf' = <<>>
    /\ client_seq' = FirstDataNumber /\ server_seq' = FirstDataNumber

-----------------------------------------------------------------------------

(* The invariant holds when the ClientHello has been sent.                 *)
LEMMA HandInit == HsInit => HandInv
<1> SUFFICES ASSUME HsInit PROVE HandInv
  OBVIOUS
<1>1. /\ version \in {"1.2", "1.3"} /\ fate \in Fates /\ status = "hello sent"
      /\ hs_buf = <<>> /\ transcript = <<>> /\ keys = "none"
      /\ client_seq = 0 /\ server_seq = 0
  BY DEF HsInit
<1>2. secret = FALSE /\ answered = FALSE /\ server_ccs_received = FALSE
  BY Zenon DEF HsInit
<1>3. Opening(version, wire)
  <2>1. wire \in FirstFlights(version, fate)
    BY DEF HsInit
  <2> QED BY <1>1, <2>1, Openings
<1>4. HandTypes
  <2>1. <<>> \in Seq(Units) /\ Len(<<>>) <= HsBufSize
    BY HsBufSizeAssumption
  <2> QED BY <1>1, <1>2, <2>1 DEF HandTypes
<1>5. HelloSent
  BY <1>1, <1>2, <1>3, Zenon DEF HelloSent
<1> QED BY <1>1, <1>4, <1>5, Zenon DEF HandInv

(* The record at the head of the connection.                               *)
LEMMA Heads ==
  ASSUME NEW r \in NextRecord
  PROVE  1 \in DOMAIN wire /\ r = wire[1]
  BY DEF NextRecord, Foremost

(* What is known of that record when the records on the connection are in  *)
(* S.                                                                      *)
LEMMA HeadOf ==
  ASSUME NEW S, wire \in Seq(S), NEW r \in NextRecord
  PROVE  wire # <<>> /\ r = wire[1] /\ r \in S /\ Tail(wire) \in Seq(S)
         /\ (Len(wire) = 1 => Tail(wire) = <<>>)
<1>1. 1 \in DOMAIN wire /\ r = wire[1]
  BY Heads
<1>2. wire # <<>> /\ Len(wire) \in Nat \ {0}
  BY <1>1
<1>3. Tail(wire) \in Seq(S) /\ Len(Tail(wire)) = Len(wire) - 1
  BY <1>2, HeadTailProperties
<1>4. r \in S
  BY <1>1, <1>2
<1>5. Len(wire) = 1 => Tail(wire) = <<>>
  <2> DEFINE t == Tail(wire)
  <2>1. t \in Seq(S) /\ Len(t) = Len(wire) - 1
    BY <1>3
  <2> HIDE DEF t
  <2>2. Len(wire) = 1 => t = <<>>
    BY <2>1, EmptySeq
  <2> QED BY <2>2 DEF t
<1> QED BY <1>1, <1>2, <1>3, <1>4, <1>5

(* A step after which the handshake has failed.                            *)
LEMMA Failing ==
  ASSUME HandInv, status' = "failed", Beginning,
         UNCHANGED <<version, hs_buf, transcript, secret, server_ccs_received, answered>>,
         fate' \in Fates, server_seq' \in Nat
  PROVE  HandInv' /\ Handover
<1>1. HandTypes'
  BY DEF HandInv, HandTypes, Beginning
<1>2. Handover
  BY DEF Handover
<1> QED BY <1>1, <1>2 DEF HandInv

(* The ServerHello begins the running handshake.                           *)
LEMMA ServerHelloHandled ==
  ASSUME HandInv, ReadServerHello
  PROVE  HandInv' /\ Handover
<1>1. PICK r \in NextRecord :
        /\ status = "hello sent" /\ wire' = Tail(wire)
        /\ r.type = "handshake" /\ NameOf(r.body) = "ServerHello"
        /\ status' = "running" /\ transcript' = transcript \o r.body
        /\ keys' = IF version = "1.3" THEN "handshake" ELSE keys
        /\ secret' = (version = "1.3")
        /\ UNCHANGED <<version, fate, hs_buf, server_ccs_received, client_seq,
                       server_seq, answered>>
  BY DEF ReadServerHello, Read
<1>2. HelloSent /\ HandTypes
  BY <1>1 DEF HandInv
<1>3. /\ Opening(version, wire) /\ version \in {"1.2", "1.3"}
      /\ hs_buf = <<>> /\ transcript = <<>> /\ keys = "none"
      /\ client_seq = 0 /\ server_seq = 0
  BY <1>2 DEF HelloSent, HandTypes
<1>4. wire \in Seq(Packets) /\ wire # <<>> /\ r = wire[1]
      /\ r \in Packets /\ Tail(wire) \in Seq(Packets)
  <2>1. wire \in Seq(Packets)
    BY <1>3 DEF Opening
  <2> QED BY <2>1, HeadOf
<1>5. r.body \in Seq(Units)
  BY <1>4 DEF Packets
<1>6. wire # <<Plain("alert", Alert)>>
  <2> SUFFICES ASSUME wire = <<Plain("alert", Alert)>> PROVE FALSE
    OBVIOUS
  <2>1. r = Plain("alert", Alert)
    BY <1>4
  <2> QED BY <1>1, <2>1 DEF Plain, Record
<1>7. transcript' = r.body
  BY <1>1, <1>3, <1>5, ConcatEmptySeq
<1>8. HandTypes'
  <2>1. /\ version' \in {"1.2", "1.3"} /\ fate' \in Fates /\ status' = "running"
        /\ server_ccs_received' \in BOOLEAN /\ answered' \in BOOLEAN /\ server_seq' \in Nat
    BY <1>1, <1>2, <1>3 DEF HandTypes
  <2>2. secret' \in BOOLEAN
    BY <1>1, Zenon
  <2>3. hs_buf' \in Seq(Units) /\ Len(hs_buf') <= HsBufSize /\ transcript' \in Seq(Units)
    <3>1. hs_buf' = <<>>
      BY <1>1, <1>3
    <3>2. <<>> \in Seq(Units) /\ Len(<<>>) <= HsBufSize
      BY HsBufSizeAssumption
    <3> QED BY <1>5, <1>7, <3>1, <3>2, Zenon
  <2> QED BY <2>1, <2>2, <2>3 DEF HandTypes
<1>9. version = "1.3" => Running13'
  <2> HAVE version = "1.3"
  <2>1. wire[1] = Plain("handshake", ServerHello)
        /\ \E c \in CertLengths : Carries(version, Tail(wire), FlightOf(version, c), 0)
    BY <1>3, <1>6 DEF Opening
  <2>2. PICK c \in CertLengths : Carries(version, Tail(wire), FlightOf(version, c), 0)
    BY <2>1
  <2> DEFINE f == FlightOf(version, c)
  <2>3. f \in Seq(Units) /\ Len(f) \in Nat
    <3>1. EndsWith(f, EndName(version))
      BY <1>3, FlightShape
    <3> HIDE DEF f
    <3> QED BY <3>1 DEF EndsWith
  <2>4. r.body = ServerHello
    <3>1. r = Plain("handshake", ServerHello)
      BY <1>4, <2>1
    <3> QED BY <3>1 DEF Plain, Record
  <2> HIDE DEF f
  <2>5. SubSeq(f, 1, 0) = <<>> /\ SubSeq(f, 0 + 1, 0) = <<>>
    BY SubSeqEmpty
  <2>6. transcript' = ServerHello \o SubSeq(f, 1, 0)
    BY <1>7, <2>4, <2>5, ServerHelloUnits, ConcatEmptySeq
  <2>7. Queued(c, 0, 0)'
    <3>1. FlightOf(version, c)' = f
      BY <1>1 DEF f
    <3>2. 0 \in 0..Len(f) /\ 0 \in 0..0
      BY <2>3
    <3>3. hs_buf' = <<>>
      BY <1>1, <1>3
    <3>4. Carries(version', wire', f, 0)
      BY <1>1, <2>2 DEF f
    <3> QED BY <2>5, <3>1, <3>2, <3>3, <3>4, Zenon DEF Queued
  <2>8. secret' = TRUE /\ keys' = "handshake"
    <3>1. secret' = TRUE
      BY <1>1, Zenon
    <3> QED BY <1>1, <3>1
  <2>9. \E cc \in CertLengths, b, e \in Nat :
          /\ Queued(cc, b, e)'
          /\ transcript' = ServerHello \o SubSeq(FlightOf(version', cc), 1, b)
    <3>1. version' = version
      BY <1>1
    <3>2. transcript' = ServerHello \o SubSeq(FlightOf(version', c), 1, 0)
      BY <2>6, <3>1, Zenon DEF f
    <3>3. 0 \in Nat
      OBVIOUS
    <3> QED BY <2>7, <3>2, <3>3, Zenon
  <2> QED BY <2>8, <2>9, Zenon DEF Running13
<1>10. version = "1.2" => Running12'
  <2> HAVE version = "1.2"
  <2>1. PICK c \in CertLengths : Carries(version, wire, FlightOf(version, c), 0)
    BY <1>3, <1>6 DEF Opening
  <2> DEFINE f == FlightOf(version, c)
  <2>2. f \in Seq(Units) /\ Len(f) \in Nat
    <3>1. EndsWith(f, EndName(version))
      BY <1>3, FlightShape
    <3> HIDE DEF f
    <3> QED BY <3>1 DEF EndsWith
  <2>3. PICK y \in 0..Len(f) : Carries(version, Tail(wire), f, y)
    <3>1. Carries(version, wire, f, 0)
      BY <2>1
    <3> HIDE DEF f
    <3> QED BY <1>4, <2>2, <3>1, CarriesNext DEF Brings
  <2> HIDE DEF f
  <2>4. Queued(c, y, y)'
    <3>1. FlightOf(version, c)' = f
      BY <1>1 DEF f
    <3>2. y \in 0..y
      OBVIOUS
    <3>3. SubSeq(f, y + 1, y) = <<>>
      <4>1. y + 1 \in Int /\ y \in Int /\ y < y + 1
        BY <2>2
      <4> QED BY <4>1, SubSeqEmpty
    <3>4. hs_buf' = <<>>
      BY <1>1, <1>3
    <3>5. Carries(version', wire', f, y)
      BY <1>1, <2>3
    <3> QED BY <3>1, <3>2, <3>3, <3>4, <3>5, Zenon DEF Queued
  <2>5. y \in Nat
    BY <2>2
  <2>6. answered' = FALSE /\ server_ccs_received' = FALSE
    BY <1>1, <1>2, Zenon DEF HelloSent
  <2>7. keys' = "none" /\ client_seq' = 0 /\ server_seq' = 0
    BY <1>1, <1>3
  <2> QED BY <2>4, <2>5, <2>6, <2>7, Zenon DEF Running12, Before12
<1>11. Handover
  BY <1>1 DEF Handover
<1> QED BY <1>1, <1>8, <1>9, <1>10, <1>11 DEF HandInv

(* What the flight is made of, and how it ends.                            *)
LEMMA FlightUnits ==
  ASSUME NEW v \in {"1.2", "1.3"}, NEW c \in CertLengths
  PROVE  /\ FlightOf(v, c) \in Seq(Units) /\ Len(FlightOf(v, c)) \in Nat \ {0}
         /\ EndsWith(FlightOf(v, c), EndName(v))
<1>1. EndsWith(FlightOf(v, c), EndName(v))
  BY FlightShape
<1> QED BY <1>1 DEF EndsWith

(* The next piece of the flight goes behind the queue.                     *)
LEMMA QueueGrows ==
  ASSUME NEW f \in Seq(Units), NEW y \in 0..Len(f), NEW e \in 0..y, NEW b \in 0..e
  PROVE  SubSeq(f, b + 1, e) \o SubSeq(f, e + 1, y) = SubSeq(f, b + 1, y)
<1>1. b + 1 \in 1..Len(f) + 1 /\ e \in (b + 1) - 1..Len(f) /\ y \in e..Len(f)
  OBVIOUS
<1> QED BY <1>1, ConcatAdjacentSubSeq

(* The lengths of two parts of the flight that meet.                       *)
LEMMA PieceLength ==
  ASSUME NEW f \in Seq(Units), NEW y \in 0..Len(f), NEW e \in 0..y, NEW b \in 0..e
  PROVE  /\ SubSeq(f, b + 1, e) \in Seq(Units) /\ Len(SubSeq(f, b + 1, e)) = e - b
         /\ SubSeq(f, e + 1, y) \in Seq(Units) /\ Len(SubSeq(f, e + 1, y)) = y - e
<1> DEFINE m == b + 1
           n == e + 1
<1>1. /\ m \in Nat \ {0} /\ e \in 0..Len(f) /\ m <= e + 1 /\ e - m + 1 = e - b
      /\ n \in Nat \ {0} /\ y \in 0..Len(f) /\ n <= y + 1 /\ y - n + 1 = y - e
  OBVIOUS
<1> HIDE DEF m, n
<1>2. SubSeq(f, m, e) \in Seq(Units) /\ Len(SubSeq(f, m, e)) = e - m + 1
  BY <1>1, Part
<1>3. SubSeq(f, n, y) \in Seq(Units) /\ Len(SubSeq(f, n, y)) = y - n + 1
  BY <1>1, Part
<1> QED BY <1>1, <1>2, <1>3 DEF m, n

(* A record of the TLS 1.2 flight: the queue goes on in step with the      *)
(* flight, and the answer leaves it empty.                                 *)
LEMMA FlightHandled12 ==
  ASSUME HandInv, ReadHandshake12
  PROVE  HandInv' /\ Handover
<1>1. PICK r \in NextRecord, misread \in Misreadings :
        LET msgs == Messages(hs_buf \o r.body, misread)
            st   == Handled12(msgs)
        IN /\ status = "running" /\ version = "1.2"
           /\ wire' = Tail(wire)
           /\ r.type = "handshake" /\ ~server_ccs_received
           /\ IF Fits(r.body)
              THEN /\ transcript' = st.transcript
                   /\ secret' = st.secret
                   /\ status' = IF st.failed THEN "failed" ELSE status
                   /\ hs_buf' = Remainder(hs_buf \o r.body, msgs)
                   /\ IF st.flight
                      THEN keys' = "data" /\ client_seq' = client_seq + 1
                      ELSE UNCHANGED <<keys, client_seq>>
              ELSE Fail /\ UNCHANGED <<hs_buf, transcript, secret, keys, client_seq>>
           /\ UNCHANGED <<version, fate, server_ccs_received, server_seq, answered>>
  BY Zenon DEF ReadHandshake12, Read
<1>2. /\ status = "running" /\ version = "1.2" /\ wire' = Tail(wire)
      /\ r.type = "handshake"
      /\ UNCHANGED <<version, fate, server_ccs_received, server_seq, answered>>
  BY <1>1
<1>3. Running12 /\ HandTypes
  BY <1>2 DEF HandInv
<1>4. Before12 /\ server_seq = 0
  <2> SUFFICES ASSUME After12 PROVE FALSE
    BY <1>3 DEF Running12
  <2>1. ~server_ccs_received
    BY <1>1
  <2>2. wire # <<>> /\ r = wire[1]
    BY Heads
  <2>3. wire \in {<<Ccs12, Fin12>>, <<Plain("alert", Alert)>>}
    BY <2>1, <2>2, Zenon DEF After12
  <2>4. r = Ccs12 \/ r = Plain("alert", Alert)
    BY <2>2, <2>3
  <2> QED BY <1>2, <2>4 DEF Ccs12, Plain, Record
<1>5. PICK c \in CertLengths, b \in Nat, e \in Nat : Queued(c, b, e)
  BY <1>4 DEF Before12
<1> DEFINE f == FlightOf("1.2", c)
<1>6. f \in Seq(Units) /\ Len(f) \in Nat \ {0} /\ EndsWith(f, "ServerHelloDone")
  BY FlightUnits DEF EndName
<1>7. /\ e \in 0..Len(f) /\ b \in 0..e /\ hs_buf = SubSeq(f, b + 1, e)
      /\ Carries("1.2", wire, f, e)
  BY <1>2, <1>5 DEF Queued
<1> HIDE DEF f
<1>8. wire # <<>> /\ r = wire[1]
  <2>1. wire \in Seq(Packets)
    BY <1>7 DEF Carries
  <2> QED BY <2>1, HeadOf
<1>9. PICK y : Brings("1.2", r, Tail(wire), f, e, y)
  BY <1>6, <1>7, <1>8, CarriesNext
<1>9a. /\ y \in 0..Len(f) /\ e \in 0..Len(f) - 1 /\ e <= y
       /\ Bears("1.2", r, f, e, y) /\ Carries("1.2", Tail(wire), f, y)
       /\ y = Len(f) => Tail(wire) = <<>>
  BY <1>9 DEF Brings
<1>10. r.body = SubSeq(f, e + 1, y)
  BY <1>2, <1>9a DEF Bears
<1> DEFINE d == hs_buf \o r.body
           msgs == Messages(d, misread)
           st == Handled12(msgs)
<1>11. d = SubSeq(f, b + 1, y) /\ y \in 0..Len(f) /\ b \in 0..y /\ e \in 0..y
  <2>1. e \in 0..y /\ b \in 0..y
    BY <1>6, <1>7, <1>9a
  <2>2. SubSeq(f, b + 1, e) \o SubSeq(f, e + 1, y) = SubSeq(f, b + 1, y)
    BY <1>6, <1>7, <1>9a, <2>1, QueueGrows
  <2> QED BY <1>7, <1>9a, <1>10, <2>1, <2>2
<1>12. /\ msgs \in Seq(Seq(Units))
       /\ \E u \in 0..y - b : Handles(msgs, f, "ServerHelloDone", b, y, u)
  BY <1>6, <1>11, QueueHandled
<1>13. PICK u \in 0..y - b : Handles(msgs, f, "ServerHelloDone", b, y, u)
  BY <1>12
<1>14. /\ st \in State12
       /\ st.flight => \E j \in 1..Len(msgs) : NameOf(msgs[j]) = "ServerHelloDone"
  <2>1. transcript \in Seq(Units) /\ secret \in BOOLEAN
    BY <1>2, <1>3 DEF HandTypes, Beginning
  <2> HIDE DEF msgs
  <2> QED BY <1>12, <2>1, Handled12Ends
<1>15. CASE ~Fits(r.body)
  <2>1. /\ status' = "failed"
        /\ UNCHANGED <<version, hs_buf, transcript, secret, server_ccs_received, answered>>
        /\ fate' \in Fates /\ server_seq' \in Nat
    BY <1>1, <1>3, <1>15, Zenon DEF Fail, HandTypes
  <2> QED BY <1>2, <2>1, Failing DEF Beginning
<1>16. CASE Fits(r.body)
  <2>1. /\ transcript' = st.transcript /\ secret' = st.secret
        /\ status' = IF st.failed THEN "failed" ELSE status
        /\ hs_buf' = Remainder(d, msgs)
        /\ IF st.flight
           THEN keys' = "data" /\ client_seq' = client_seq + 1
           ELSE UNCHANGED <<keys, client_seq>>
    BY <1>1, <1>16, Zenon
  <2>2. st.transcript \in Seq(Units) /\ st.secret \in BOOLEAN /\ st.flight \in BOOLEAN
    BY <1>14 DEF State12
  <2>3. status' \in {"failed", "running"}
    BY <1>2, <2>1
  <2>4. hs_buf' = SubSeq(f, b + u + 1, y)
    BY <1>11, <1>13, <2>1 DEF Handles
  <2>5. /\ b + u \in 0..y
        /\ SubSeq(f, b + u + 1, y) \in Seq(Units)
        /\ Len(SubSeq(f, b + u + 1, y)) = y - (b + u)
    <3> DEFINE m == b + u + 1
    <3>1. m \in Nat \ {0} /\ y \in 0..Len(f) /\ m <= y + 1 /\ y - m + 1 = y - (b + u)
          /\ b + u \in 0..y
      BY <1>6, <1>11, <1>13
    <3>2. SubSeq(f, m, y) \in Seq(Units) /\ Len(SubSeq(f, m, y)) = y - m + 1
      <4> HIDE DEF m
      <4> QED BY <1>6, <3>1, Part
    <3> QED BY <3>1, <3>2
  <2>6. y - b <= HsBufSize
    <3>1. Len(hs_buf) = e - b /\ Len(r.body) = y - e
      <4>1. b \in 0..e /\ e \in 0..y /\ y \in 0..Len(f)
        BY <1>9a, <1>11, <1>7
      <4>2. Len(SubSeq(f, b + 1, e)) = e - b /\ Len(SubSeq(f, e + 1, y)) = y - e
        BY <1>6, <4>1, PieceLength, Zenon
      <4> QED BY <1>7, <1>10, <4>2
    <3>2. Len(hs_buf) + Len(r.body) <= HsBufSize
      BY <1>16 DEF Fits
    <3> QED BY <1>6, <1>7, <1>9a, <3>1, <3>2, HsBufSizeAssumption
  <2>7. HandTypes'
    <3>1. Len(hs_buf') <= HsBufSize /\ hs_buf' \in Seq(Units)
      <4>1. y - (b + u) <= y - b
        BY <1>6, <1>11, <1>13
      <4>2. y \in Nat /\ b \in Nat /\ u \in Nat
        BY <1>6, <1>11, <1>13
      <4> QED BY <2>4, <2>5, <2>6, <4>1, <4>2, HsBufSizeAssumption
    <3>2. transcript' \in Seq(Units) /\ secret' \in BOOLEAN
      BY <2>1, <2>2, Zenon
    <3>3. /\ version' \in {"1.2", "1.3"} /\ fate' \in Fates /\ server_ccs_received' \in BOOLEAN
          /\ answered' \in BOOLEAN /\ server_seq' \in Nat
      BY <1>2, <1>3 DEF HandTypes
    <3> QED BY <2>3, <3>1, <3>2, <3>3 DEF HandTypes
  <2>8. CASE st.flight
    <3>1. PICK j \in 1..Len(msgs) : NameOf(msgs[j]) = "ServerHelloDone"
      BY <1>14, <2>8
    <3>2. b + u = Len(f) /\ y = Len(f)
      BY <1>13, <3>1 DEF Handles
    <3>3. hs_buf' = <<>>
      <4>1. b + u + 1 \in Int /\ y \in Int /\ y < b + u + 1
        BY <1>6, <1>11, <1>13, <3>2
      <4> QED BY <2>4, <4>1, SubSeqEmpty
    <3>4. wire' = <<>>
      BY <1>2, <1>9a, <3>2
    <3>5. keys' = "data" /\ client_seq' = client_seq + 1
      BY <2>1, <2>8
    <3>6. client_seq' = 1
      BY <1>4, <3>5 DEF Before12
    <3>7. answered' = FALSE /\ server_ccs_received' = FALSE
      BY <1>2, <1>4, Zenon DEF Before12
    <3>8. After12'
      BY <3>3, <3>4, <3>5, <3>6, <3>7, Zenon DEF After12
    <3>9. server_seq' = 0
      BY <1>2, <1>4
    <3>10. Running12'
      BY <3>8, <3>9 DEF Running12
    <3> QED BY <1>2, <2>3, <2>7, <3>10 DEF HandInv, Handover
  <2>9. CASE ~st.flight
    <3>1. keys' = "none" /\ client_seq' = 0
      BY <1>4, <2>1, <2>9 DEF Before12
    <3>2. answered' = FALSE /\ server_ccs_received' = FALSE
      BY <1>2, <1>4, Zenon DEF Before12
    <3>3. Queued(c, b + u, y)'
      <4>1. FlightOf(version, c)' = f
        BY <1>2 DEF f
      <4>2. Carries(version', wire', f, y)
        BY <1>2, <1>9a
      <4> QED BY <1>11, <2>4, <2>5, <4>1, <4>2, Zenon DEF Queued
    <3>4. b + u \in Nat /\ y \in Nat
      BY <1>6, <1>11, <2>5
    <3>5. Before12'
      BY <3>1, <3>2, <3>3, <3>4, Zenon DEF Before12
    <3>6. server_seq' = 0
      BY <1>2, <1>4
    <3>7. Running12'
      BY <3>5, <3>6 DEF Running12
    <3> QED BY <1>2, <2>3, <2>7, <3>7 DEF HandInv, Handover
  <2> QED BY <2>2, <2>8, <2>9
<1> QED BY <1>15, <1>16

-----------------------------------------------------------------------------
(* The TLS 1.2 server answers the client's flight once.                    *)
LEMMA AnswerSent12 ==
  ASSUME HandInv, ServerAnswers12
  PROVE  HandInv' /\ Handover
<1>1. /\ version = "1.2" /\ keys = "data" /\ ~answered
      /\ answered' = TRUE
      /\ \/ wire' = wire \o <<Ccs12, Fin12>>
         \/ wire' = wire \o <<Plain("alert", Alert)>>
      /\ UNCHANGED <<version, fate, status, hs_buf, transcript, secret,
                     server_ccs_received, keys, client_seq, server_seq>>
  BY Zenon DEF ServerAnswers12, Ccs12, Fin12
<1>2. HandTypes'
  <2>1. HandTypes /\ UNCHANGED <<version, fate, status, hs_buf, transcript, secret,
                                 server_ccs_received, server_seq>> /\ answered' \in BOOLEAN
    BY <1>1 DEF HandInv
  <2> QED BY <2>1 DEF HandTypes, Beginning
<1>3. status # "hello sent"
  BY <1>1 DEF HandInv, HelloSent
<1>4. status # "done"
  <2> SUFFICES ASSUME status = "done" PROVE FALSE
    OBVIOUS
  <2>1. answered = TRUE
    BY <1>1 DEF HandInv, Done
  <2> QED BY <1>1, <2>1, Zenon
<1>5. status = "running" => Running12'
  <2> HAVE status = "running"
  <2>1. Running12
    BY <1>1 DEF HandInv
  <2>2. After12 /\ server_seq = 0
    BY <1>1, <2>1 DEF Running12, Before12
  <2>3. wire = <<>> /\ server_ccs_received = FALSE
    BY <1>1, <2>2, Zenon DEF After12
  <2>4. wire' \in {<<Ccs12, Fin12>>, <<Plain("alert", Alert)>>}
    <3>1. \A a : <<>> \o <<a>> = <<a>>
      <4> SUFFICES ASSUME NEW a PROVE <<>> \o <<a>> = <<a>>
        OBVIOUS
      <4>1. <<a>> \in Seq({a})
        OBVIOUS
      <4> QED BY <4>1, ConcatEmptySeq
    <3>2. \A a, z : <<>> \o <<a, z>> = <<a, z>>
      <4> SUFFICES ASSUME NEW a, NEW z PROVE <<>> \o <<a, z>> = <<a, z>>
        OBVIOUS
      <4>1. <<a, z>> \in Seq({a, z})
        OBVIOUS
      <4> QED BY <4>1, ConcatEmptySeq
    <3> QED BY <1>1, <2>3, <3>1, <3>2, Zenon
  <2>5. keys' = "data" /\ client_seq' = 1 /\ hs_buf' = <<>> /\ server_seq' = 0
    BY <1>1, <2>2 DEF After12
  <2>6. server_ccs_received' = FALSE /\ answered' = TRUE
    BY <1>1, <2>3, Zenon
  <2> QED BY <2>4, <2>5, <2>6, Zenon DEF Running12, After12
<1> QED BY <1>1, <1>2, <1>3, <1>4, <1>5 DEF HandInv, Handover

(* Its Finished is checked against what both have hashed.                  *)
LEMMA FinishedHandled12 ==
  ASSUME HandInv, ReadFinished12
  PROVE  HandInv' /\ Handover
<1>1. PICK r \in NextRecord :
        /\ status = "running" /\ version = "1.2" /\ wire' = Tail(wire)
        /\ server_ccs_received
        /\ server_seq' = server_seq + 1
        /\ status' = IF Decrypts(r) /\ secret /\ Agreed THEN "done" ELSE "failed"
        /\ UNCHANGED <<version, fate, hs_buf, transcript, secret, server_ccs_received,
                       keys, client_seq, answered>>
  BY DEF ReadFinished12, Read
<1>2. Running12 /\ HandTypes
  BY <1>1 DEF HandInv
<1>3. After12 /\ server_seq = 0
  <2>1. ~Before12
    BY <1>1, Zenon DEF Before12
  <2> QED BY <1>2, <2>1 DEF Running12
<1>4. wire = <<Fin12>> /\ answered = TRUE
  BY <1>1, <1>3, Zenon DEF After12
<1>5. CASE status' = "failed"
  BY <1>1, <1>2, <1>3, <1>5, Failing DEF HandTypes, Beginning
<1>6. CASE status' = "done"
  <2>1. secret = TRUE /\ Agreed
    <3>1. secret /\ Agreed
      BY <1>1, <1>6
    <3>2. secret \in BOOLEAN
      BY <1>2 DEF HandTypes
    <3> QED BY <3>1, <3>2, Zenon
  <2>2. wire' = <<>>
    BY <1>1, <1>4
  <2>3. keys' = "data" /\ client_seq' = 1 /\ hs_buf' = <<>> /\ server_seq' = 1
    BY <1>1, <1>3 DEF After12
  <2>4. FirstDataNumber = 1 /\ FirstDataNumber' = 1
    BY <1>1 DEF FirstDataNumber
  <2>5. Agreed'
    <3>1. version' = version /\ transcript' = transcript
      BY <1>1
    <3> QED BY <2>1, <3>1 DEF Agreed
  <2>6. secret' = TRUE /\ answered' = TRUE
    BY <1>1, <1>4, <2>1, Zenon
  <2>7. Done'
    BY <2>3, <2>4, <2>5, <2>6 DEF Done
  <2>8. HandTypes'
    <3>1. server_seq' \in Nat
      BY <2>3
    <3>2. /\ version' \in {"1.2", "1.3"} /\ fate' \in Fates
          /\ secret' \in BOOLEAN /\ server_ccs_received' \in BOOLEAN /\ answered' \in BOOLEAN
      BY <1>1, <1>2 DEF HandTypes
    <3> QED BY <1>6, <3>1, <3>2 DEF HandTypes, Beginning
  <2> QED BY <1>6, <2>2, <2>3, <2>4, <2>7, <2>8 DEF HandInv, Handover
<1>7. status' \in {"done", "failed"}
  BY <1>1
<1> QED BY <1>5, <1>6, <1>7

(* A ChangeCipherSpec brings nothing of the flight.                        *)
LEMMA CcsHandled ==
  ASSUME HandInv, ReadChangeCipherSpec
  PROVE  HandInv' /\ Handover
<1>1. PICK r \in NextRecord :
        /\ status = "running" /\ wire' = Tail(wire)
        /\ r.type = "ccs"
        /\ server_ccs_received' = (version = "1.2")
        /\ UNCHANGED <<version, fate, status, hs_buf, transcript, secret, keys,
                       client_seq, server_seq, answered>>
  BY DEF ReadChangeCipherSpec, Read
<1>2. HandTypes
  BY DEF HandInv
<1>3. HandTypes'
  <2>1. server_ccs_received' \in BOOLEAN
    BY <1>1, Zenon
  <2>2. UNCHANGED <<version, fate, status, hs_buf, transcript, secret, server_seq, answered>>
    BY <1>1
  <2> QED BY <1>2, <2>1, <2>2 DEF HandTypes, Beginning
<1>4. CASE version = "1.3"
  <2>1. Running13
    BY <1>1, <1>4 DEF HandInv
  <2>2. wire # <<>> /\ r = wire[1]
    BY Heads
  <2>3. PICK c \in CertLengths, b \in Nat, e \in Nat :
          /\ Queued(c, b, e)
          /\ transcript = ServerHello \o SubSeq(FlightOf(version, c), 1, b)
    BY <2>1, <2>2 DEF Running13
  <2> DEFINE f == FlightOf(version, c)
  <2>4. f \in Seq(Units)
    BY <1>4, FlightUnits
  <2>5. /\ e \in 0..Len(f) /\ b \in 0..e /\ hs_buf = SubSeq(f, b + 1, e)
        /\ Carries(version, wire, f, e)
    BY <2>3 DEF Queued
  <2> HIDE DEF f
  <2>6. PICK y \in 0..Len(f) : Bears(version, r, f, e, y) /\ Carries(version, Tail(wire), f, y)
    BY <2>2, <2>4, <2>5, CarriesNext DEF Brings
  <2>7. y = e
    BY <1>1, <1>4, <2>6 DEF Bears
  <2>8. Queued(c, b, e)'
    <3>1. FlightOf(version, c)' = f
      BY <1>1 DEF f
    <3>2. Carries(version', wire', f, e) /\ hs_buf' = hs_buf
      BY <1>1, <2>6, <2>7
    <3> QED BY <2>5, <3>1, <3>2, Zenon DEF Queued
  <2>9. transcript' = ServerHello \o SubSeq(FlightOf(version', c), 1, b)
    BY <1>1, <2>3
  <2>10. secret' = TRUE /\ keys' = "handshake"
    BY <1>1, <2>1, Zenon DEF Running13
  <2>11. Running13'
    BY <2>8, <2>9, <2>10, Zenon DEF Running13
  <2> QED BY <1>1, <1>3, <1>4, <2>11 DEF HandInv, Handover
<1>5. CASE version = "1.2"
  <2>1. Running12
    BY <1>1, <1>5 DEF HandInv
  <2>2. 1 \in DOMAIN wire /\ r = wire[1]
    BY Heads
  <2>3. ~Before12
    <3> SUFFICES ASSUME Before12 PROVE FALSE
      OBVIOUS
    <3>1. PICK c \in CertLengths, b \in Nat, e \in Nat : Queued(c, b, e)
      BY DEF Before12
    <3> DEFINE f == FlightOf(version, c)
    <3>2. f \in Seq(Units)
      BY <1>5, FlightUnits
    <3>3. Carries(version, wire, f, e)
      BY <3>1 DEF Queued
    <3> HIDE DEF f
    <3>4. wire # <<>>
      BY <2>2
    <3>5. \E y \in 0..Len(f) : Bears(version, r, f, e, y)
      BY <2>2, <3>2, <3>3, <3>4, CarriesNext DEF Brings
    <3> QED BY <1>1, <1>5, <3>5 DEF Bears
  <2>4. After12 /\ server_seq = 0
    BY <2>1, <2>3 DEF Running12
  <2>5. wire = <<Ccs12, Fin12>> /\ answered = TRUE
    <3>1. wire # <<>>
      BY <2>2
    <3>2. wire # <<Plain("alert", Alert)>>
      BY <1>1, <2>2 DEF Plain, Record
    <3>3. wire # <<Fin12>>
      BY <1>1, <2>2 DEF Fin12, Record
    <3> QED BY <2>4, <3>1, <3>2, <3>3, Zenon DEF After12
  <2>6. wire' = <<Fin12>>
    BY <1>1, <2>5
  <2>7. server_ccs_received' = TRUE /\ answered' = TRUE
    BY <1>1, <1>5, <2>5, Zenon
  <2>8. keys' = "data" /\ client_seq' = 1 /\ hs_buf' = <<>> /\ server_seq' = 0
    BY <1>1, <2>4 DEF After12
  <2>9. Running12'
    BY <2>6, <2>7, <2>8, Zenon DEF Running12, After12
  <2> QED BY <1>1, <1>3, <1>5, <2>9 DEF HandInv, Handover
<1> QED BY <1>2, <1>4, <1>5 DEF HandTypes

(* What is taken from the queue, and what stays, whatever is in it.        *)
LEMMA FrontTaken ==
  ASSUME NEW d \in Seq(Units), NEW misread \in Misreadings
  PROVE  LET msgs == Messages(d, misread)
         IN /\ FlattenSeq(msgs) \in Seq(Units)
            /\ Remainder(d, msgs) \in Seq(Units)
            /\ Len(Remainder(d, msgs)) <= Len(d)
<1> DEFINE msgs == Messages(d, misread)
<1>1. /\ msgs \in Seq(Seq(Units))
      /\ \E p : /\ p \in [1..Len(msgs) + 1 -> 0..Len(d)]
                /\ FlattenSeq(msgs) = SubSeq(d, 1, p[Len(msgs) + 1])
  BY Parsed
<1> HIDE DEF msgs
<1>2. PICK u \in 0..Len(d) : FlattenSeq(msgs) = SubSeq(d, 1, u)
  <2>1. PICK p : /\ p \in [1..Len(msgs) + 1 -> 0..Len(d)]
                 /\ FlattenSeq(msgs) = SubSeq(d, 1, p[Len(msgs) + 1])
    BY <1>1
  <2>2. Len(msgs) + 1 \in 1..Len(msgs) + 1
    BY <1>1
  <2>3. p[Len(msgs) + 1] \in 0..Len(d)
    BY <2>1, <2>2
  <2> QED BY <2>1, <2>3
<1>3. /\ 1 \in Nat \ {0} /\ 1 <= u + 1 /\ u - 1 + 1 = u
      /\ u + 1 \in Nat \ {0} /\ u + 1 <= Len(d) + 1 /\ Len(d) - (u + 1) + 1 = Len(d) - u
      /\ Len(d) \in 0..Len(d) /\ u \in 0..Len(d)
  OBVIOUS
<1>4. SubSeq(d, 1, u) \in Seq(Units) /\ Len(SubSeq(d, 1, u)) = u
  <2>1. SubSeq(d, 1, u) \in Seq(Units) /\ Len(SubSeq(d, 1, u)) = u - 1 + 1
    BY <1>3, Part
  <2> QED BY <1>3, <2>1
<1> DEFINE m == u + 1
<1>5. SubSeq(d, m, Len(d)) \in Seq(Units) /\ Len(SubSeq(d, m, Len(d))) = Len(d) - u
  <2>1. /\ m \in Nat \ {0} /\ m <= Len(d) + 1 /\ Len(d) - m + 1 = Len(d) - u
        /\ Len(d) \in 0..Len(d)
    BY <1>3
  <2> HIDE DEF m
  <2>2. SubSeq(d, m, Len(d)) \in Seq(Units) /\ Len(SubSeq(d, m, Len(d))) = Len(d) - m + 1
    BY <2>1, Part
  <2> QED BY <2>1, <2>2
<1>6. Remainder(d, msgs) = SubSeq(d, m, Len(d))
  BY <1>2, <1>4, Zenon DEF Remainder
<1>7. Len(Remainder(d, msgs)) <= Len(d)
  <2>1. Len(Remainder(d, msgs)) = Len(d) - u
    BY <1>5, <1>6
  <2> QED BY <2>1
<1> QED BY <1>2, <1>4, <1>5, <1>6, <1>7 DEF msgs

(* An alert behind a queue without the whole flight brings no Finished.    *)
LEMMA AlertQueued ==
  ASSUME NEW f, EndsWith(f, "Finished"), NEW e \in 0..Len(f) - 1, NEW b \in 0..e
  PROVE  LET d == SubSeq(f, b + 1, e) \o Alert
         IN d \in Seq(Units) /\ \A i \in 1..Len(d) : d[i][1] # "Finished"
<1> DEFINE x == SubSeq(f, b + 1, e)
           d == x \o Alert
<1>1. /\ f \in Seq(Units) /\ Len(f) \in Nat \ {0}
      /\ \A i \in 1..Len(f) - 1 : f[i][1] # "Finished"
  BY DEF EndsWith
<1>2. x \in Seq(Units) /\ Len(x) = e - b /\ \A i \in 1..e - b : x[i] = f[b + i]
  <2> DEFINE m == b + 1
  <2>1. m \in Nat \ {0} /\ e \in 0..Len(f) /\ m <= e + 1 /\ e - m + 1 = e - b
        /\ \A i \in 1..e - b : m + i - 1 = b + i
    BY <1>1
  <2>2. SubSeq(f, m, e) \in Seq(Units) /\ Len(SubSeq(f, m, e)) = e - m + 1
        /\ \A i \in 1..e - m + 1 : SubSeq(f, m, e)[i] = f[m + i - 1]
    <3> HIDE DEF m
    <3> QED BY <1>1, <2>1, Part
  <2> QED BY <2>1, <2>2
<1> HIDE DEF x
<1>3. Alert \in Seq(Units) /\ Len(Alert) = 1 /\ Alert[1][1] = "Alert"
  BY AlertUnits
<1>4. /\ d \in Seq(Units) /\ Len(d) = Len(x) + 1
      /\ \A i \in 1..Len(x) + 1 : d[i] = IF i <= Len(x) THEN x[i] ELSE Alert[i - Len(x)]
  <2>1. /\ d \in Seq(Units) /\ Len(d) = Len(x) + Len(Alert)
        /\ \A i \in 1..Len(x) + Len(Alert) :
             d[i] = IF i <= Len(x) THEN x[i] ELSE Alert[i - Len(x)]
    BY <1>2, <1>3, ConcatProperties
  <2> HIDE DEF d
  <2> QED BY <1>3, <2>1
<1> HIDE DEF d
<1>5. ASSUME NEW i \in 1..Len(d) PROVE d[i][1] # "Finished"
  <2>1. CASE i <= Len(x)
    <3>1. i \in 1..e - b /\ d[i] = x[i] /\ b + i \in 1..Len(f) - 1
      BY <1>1, <1>2, <1>4, <2>1
    <3>2. d[i] = f[b + i] /\ f[b + i][1] # "Finished"
      BY <1>1, <1>2, <3>1
    <3> QED BY <3>2
  <2>2. CASE ~(i <= Len(x))
    <3>1. i = Len(x) + 1 /\ i - Len(x) = 1
      BY <1>2, <1>4, <2>2
    <3>2. d[i] = Alert[1]
      BY <1>4, <2>2, <3>1
    <3> QED BY <1>3, <3>2
  <2> QED BY <2>1, <2>2
<1> QED BY <1>4, <1>5 DEF d, x

Fins(msgs) == {i \in 1..Len(msgs) : NameOf(msgs[i]) = "Finished"}

(* What a TLS 1.3 record does once its bytes are queued.                   *)
Taken13(d, msgs) ==
  LET now == IF Fins(msgs) = {} THEN msgs ELSE SubSeq(msgs, 1, Min(Fins(msgs)))
  IN IF Fins(msgs) = {}
     THEN /\ server_seq' = server_seq + 1
          /\ transcript' = transcript \o FlattenSeq(now)
          /\ hs_buf' = Remainder(d, now)
          /\ UNCHANGED <<status, keys, client_seq>>
     ELSE /\ status' = "done"
          /\ transcript' = transcript \o FlattenSeq(now) \o ClientFinished
          /\ keys' = "data" /\ client_seq' = 0 /\ server_seq' = 0
          /\ hs_buf' = <<>>

(* A TLS 1.3 record is refused, or queued and handled.                     *)
LEMMA RecordTaken13 ==
  ASSUME HandInv, ReadEncrypted13
  PROVE  \E r \in NextRecord, misread \in Misreadings :
           /\ status = "running" /\ version = "1.3"
           /\ wire' = Tail(wire) /\ r.type = "encrypted"
           /\ \/ /\ status' = "failed" /\ server_seq' = server_seq + 1
                 /\ UNCHANGED <<hs_buf, transcript>>
              \/ /\ Fits(r.body)
                 /\ Taken13(hs_buf \o r.body, Messages(hs_buf \o r.body, misread))
           /\ UNCHANGED <<version, fate, secret, server_ccs_received, answered>>
<1>1. PICK r \in NextRecord, misread \in Misreadings :
        LET b    == hs_buf \o r.body
            msgs == Messages(b, misread)
            fins == {i \in 1..Len(msgs) : NameOf(msgs[i]) = "Finished"}
            now  == IF fins = {} THEN msgs ELSE SubSeq(msgs, 1, Min(fins))
        IN /\ status = "running" /\ version = "1.3"
           /\ wire' = Tail(wire)
           /\ r.type = "encrypted"
           /\ IF ~Decrypts(r) \/ ~Fits(r.body)
              THEN /\ status' = "failed"
                   /\ server_seq' = server_seq + 1
                   /\ UNCHANGED <<hs_buf, transcript, keys, client_seq, used>>
              ELSE IF fins = {}
              THEN /\ server_seq' = server_seq + 1
                   /\ transcript' = transcript \o FlattenSeq(now)
                   /\ hs_buf' = Remainder(b, now)
                   /\ UNCHANGED <<status, keys, client_seq, used>>
              ELSE /\ status' = "done"
                   /\ transcript' = transcript \o FlattenSeq(now) \o ClientFinished
                   /\ used' = Append(used, <<"handshake", client_seq>>)
                   /\ keys' = "data"
                   /\ client_seq' = NumbersAfterFinished[1]
                   /\ server_seq' = NumbersAfterFinished[2]
                   /\ hs_buf' = <<>>
           /\ UNCHANGED <<version, fate, secret, server_ccs_received, answered>>
  BY Zenon DEF ReadEncrypted13, Read, Fail
<1>2. /\ status = "running" /\ version = "1.3" /\ wire' = Tail(wire)
      /\ r.type = "encrypted"
      /\ UNCHANGED <<version, fate, secret, server_ccs_received, answered>>
  BY <1>1
<1>3. CASE ~Decrypts(r) \/ ~Fits(r.body)
  <2>1. status' = "failed" /\ server_seq' = server_seq + 1
        /\ UNCHANGED <<hs_buf, transcript>>
    BY <1>1, <1>3
  <2> QED BY <1>2, <2>1
<1>4. CASE ~(~Decrypts(r) \/ ~Fits(r.body))
  <2> DEFINE b    == hs_buf \o r.body
             msgs == Messages(b, misread)
             fins == Fins(msgs)
             now  == IF fins = {} THEN msgs ELSE SubSeq(msgs, 1, Min(fins))
  <2>1. IF fins = {}
        THEN /\ server_seq' = server_seq + 1
             /\ transcript' = transcript \o FlattenSeq(now)
             /\ hs_buf' = Remainder(b, now)
             /\ UNCHANGED <<status, keys, client_seq, used>>
        ELSE /\ status' = "done"
             /\ transcript' = transcript \o FlattenSeq(now) \o ClientFinished
             /\ used' = Append(used, <<"handshake", client_seq>>)
             /\ keys' = "data"
             /\ client_seq' = NumbersAfterFinished[1]
             /\ server_seq' = NumbersAfterFinished[2]
             /\ hs_buf' = <<>>
    BY <1>1, <1>4, Zenon DEF Fins
  <2>2. NumbersAfterFinished[1] = 0 /\ NumbersAfterFinished[2] = 0
    BY DEF NumbersAfterFinished
  <2>3. Taken13(b, msgs)
    <3> HIDE DEF msgs, b
    <3>1. CASE fins = {}
      <4>1. /\ server_seq' = server_seq + 1 /\ transcript' = transcript \o FlattenSeq(msgs)
            /\ hs_buf' = Remainder(b, msgs) /\ UNCHANGED <<status, keys, client_seq>>
        BY <2>1, <3>1
      <4> QED BY <3>1, <4>1 DEF Taken13
    <3>2. CASE fins # {}
      <4> DEFINE m == SubSeq(msgs, 1, Min(fins))
      <4>1. /\ status' = "done"
            /\ transcript' = transcript \o FlattenSeq(m) \o ClientFinished
            /\ keys' = "data" /\ client_seq' = 0 /\ server_seq' = 0 /\ hs_buf' = <<>>
        BY <2>1, <2>2, <3>2
      <4> QED BY <3>2, <4>1 DEF Taken13
    <3> QED BY <3>1, <3>2
  <2> QED BY <1>2, <1>4, <2>3
<1> QED BY <1>3, <1>4

(* It is the last message, and everything is handled.                      *)
LEMMA LastOne ==
  ASSUME NEW msgs \in Seq(Seq(Units)), Fins(msgs) # {},
         \A j \in 1..Len(msgs) : NameOf(msgs[j]) = "Finished" => j = Len(msgs)
  PROVE  SubSeq(msgs, 1, Min(Fins(msgs))) = msgs
<1> DEFINE n == Len(msgs)
<1>1. n \in Nat /\ n >= 1 /\ Fins(msgs) = {n}
  <2>1. PICK j \in 1..n : NameOf(msgs[j]) = "Finished"
    BY DEF Fins
  <2>2. j = n /\ n \in Nat
    BY <2>1
  <2> QED BY <2>1, <2>2 DEF Fins
<1> HIDE DEF n
<1>2. Min(Fins(msgs)) = n
  <2>1. \A x \in {n} : n <= x
    BY <1>1
  <2>2. Min({n}) \in {n}
    <3> DEFINE P(z) == \A x \in {n} : z <= x
    <3>1. n \in {n} /\ P(n)
      BY <2>1
    <3> HIDE DEF P
    <3>2. (CHOOSE z \in {n} : P(z)) \in {n}
      BY <3>1, Zenon
    <3> QED BY <3>2 DEF Min, P
  <2>3. Min({n}) = n
    BY <2>2
  <2> QED BY <1>1, <2>3
<1>3. SubSeq(msgs, 1, n) = msgs
  BY <1>1, SubSeqFull DEF n
<1> QED BY <1>2, <1>3

(* Before the record: the queue, what it brings, and what was hashed.      *)
Reading13(r, c, b, e, y) ==
  LET f == FlightOf(version, c)
  IN /\ b \in 0..e /\ hs_buf = SubSeq(f, b + 1, e)
     /\ transcript = ServerHello \o SubSeq(f, 1, b)
     /\ Brings(version, r, Tail(wire), f, e, y)

(* Where a running TLS 1.3 handshake is when it reads a record.            *)
LEMMA Before13 ==
  ASSUME HandInv, status = "running", version = "1.3", NEW r \in NextRecord
  PROVE  /\ HandTypes /\ secret = TRUE /\ keys = "handshake"
         /\ \E c \in CertLengths, b, e, y \in Nat : Reading13(r, c, b, e, y)
<1>1. HandTypes /\ Running13
  BY DEF HandInv
<1>2. 1 \in DOMAIN wire /\ r = wire[1] /\ wire # <<>>
  BY Heads
<1>3. PICK c \in CertLengths, b \in Nat, e \in Nat :
        /\ Queued(c, b, e)
        /\ transcript = ServerHello \o SubSeq(FlightOf(version, c), 1, b)
  BY <1>1, <1>2 DEF Running13
<1> DEFINE f == FlightOf(version, c)
<1>4. f \in Seq(Units)
  BY FlightUnits
<1>5. /\ b \in 0..e /\ hs_buf = SubSeq(f, b + 1, e) /\ Carries(version, wire, f, e)
      /\ transcript = ServerHello \o SubSeq(f, 1, b)
  BY <1>3 DEF Queued
<1> HIDE DEF f
<1>6. PICK y : Brings(version, r, Tail(wire), f, e, y)
  BY <1>2, <1>4, <1>5, CarriesNext
<1>7. y \in Nat
  <2>1. y \in 0..Len(f)
    BY <1>6 DEF Brings
  <2> QED BY <1>4, <2>1
<1>8. Reading13(r, c, b, e, y)
  BY <1>5, <1>6 DEF Reading13, f
<1>9. \E cc \in CertLengths, bb, ee, yy \in Nat : Reading13(r, cc, bb, ee, yy)
  BY <1>7, <1>8, Zenon
<1> QED BY <1>1, <1>9, Zenon DEF Running13

(* The hash goes on behind the ServerHello.                                *)
LEMMA HelloJoined ==
  ASSUME NEW x \in Seq(Units), NEW m \in Seq(Units)
  PROVE  (ServerHello \o x) \o m = ServerHello \o (x \o m)
<1>1. ServerHello \in Seq(Units)
  BY ServerHelloUnits
<1>2. Reassociates(ServerHello, x, m)
  BY <1>1, Reassociated, Zenon
<1> QED BY <1>2 DEF Reassociates

(* A piece of the flight has gone behind the queue.                        *)
LEMMA PieceTaken13 ==
  ASSUME HandInv, status = "running", version = "1.3", wire' = Tail(wire),
         UNCHANGED <<version, fate, secret, server_ccs_received, answered>>,
         NEW r \in NextRecord, NEW misread \in Misreadings,
         NEW c \in CertLengths, NEW b \in Nat, NEW e \in Nat, NEW y \in Nat,
         Reading13(r, c, b, e, y), e < y,
         r.body = SubSeq(FlightOf(version, c), e + 1, y),
         Fits(r.body), Taken13(hs_buf \o r.body, Messages(hs_buf \o r.body, misread))
  PROVE  HandInv' /\ Handover
<1> DEFINE f == FlightOf(version, c)
           d == hs_buf \o r.body
           msgs == Messages(d, misread)
<1>1. f \in Seq(Units) /\ Len(f) \in Nat \ {0} /\ EndsWith(f, "Finished")
  <2>1. EndName("1.3") = "Finished"
    BY DEF EndName
  <2> QED BY <2>1, FlightUnits
<1>2. /\ b \in 0..e /\ e \in 0..y /\ y \in 0..Len(f) /\ hs_buf = SubSeq(f, b + 1, e)
      /\ transcript = ServerHello \o SubSeq(f, 1, b)
      /\ Carries(version, wire', f, y) /\ (y = Len(f) => wire' = <<>>)
  BY DEF Reading13, Brings
<1>3. HandTypes /\ secret = TRUE /\ keys = "handshake"
  BY Before13
<1>4. r.body = SubSeq(f, e + 1, y)
  OBVIOUS
<1>5. d = SubSeq(f, b + 1, y) /\ b \in 0..y
  <2>1. SubSeq(f, b + 1, e) \o SubSeq(f, e + 1, y) = SubSeq(f, b + 1, y)
    <3> HIDE DEF f
    <3> QED BY <1>1, <1>2, QueueGrows
  <2>2. b \in 0..y
    BY <1>2
  <2> QED BY <1>2, <1>4, <2>1, <2>2
<1>6. y - b <= HsBufSize
  <2>1. Len(SubSeq(f, b + 1, e)) = e - b /\ Len(SubSeq(f, e + 1, y)) = y - e
    <3> HIDE DEF f
    <3> QED BY <1>1, <1>2, PieceLength
  <2>2. Len(hs_buf) + Len(r.body) <= HsBufSize
    BY DEF Fits
  <2> DEFINE h == Len(hs_buf)
             k == Len(r.body)
  <2>3. h = e - b /\ k = y - e /\ h + k <= HsBufSize
    BY <1>2, <1>4, <2>1, <2>2
  <2> HIDE DEF h, k
  <2> QED BY <2>3, HsBufSizeAssumption
<1>7. Taken13(d, msgs)
  OBVIOUS
<1>8. /\ msgs \in Seq(Seq(Units))
      /\ \E u \in 0..y - b : Handles(msgs, f, "Finished", b, y, u)
  <2> HIDE DEF f, d
  <2> QED BY <1>1, <1>2, <1>5, QueueHandled
<1> HIDE DEF f, d, msgs
<1>9. PICK u \in 0..y - b : Handles(msgs, f, "Finished", b, y, u)
  BY <1>8
<1>10. /\ FlattenSeq(msgs) = SubSeq(f, b + 1, b + u)
       /\ Remainder(d, msgs) = SubSeq(f, b + u + 1, y)
       /\ \A j \in 1..Len(msgs) :
            NameOf(msgs[j]) = "Finished" => j = Len(msgs) /\ b + u = Len(f) /\ y = Len(f)
  BY <1>5, <1>9 DEF Handles
<1>11. /\ b + u \in 0..y /\ b + u \in Nat /\ b \in 0..b + u /\ b + u \in 0..Len(f)
  BY <1>1, <1>2, <1>5, <1>9
<1> DEFINE z == b + u
<1>12. SubSeq(f, 1, b) \o FlattenSeq(msgs) = SubSeq(f, 1, z)
  <2>1. SubSeq(f, 0 + 1, b) \o SubSeq(f, b + 1, z) = SubSeq(f, 0 + 1, z)
    <3>1. z \in 0..Len(f) /\ b \in 0..z /\ 0 \in 0..b
      BY <1>2, <1>11
    <3> HIDE DEF z
    <3> QED BY <1>1, <3>1, QueueGrows
  <2>2. 0 + 1 = 1
    OBVIOUS
  <2> QED BY <1>10, <2>1, <2>2, Zenon
<1>13. ServerHello \in Seq(Units) /\ ClientFinished \in Seq(Units)
  <2>1. "ClientFinished" \in Names /\ 1 \in Nat \ {0}
    BY DEF Names
  <2> QED BY <2>1, ServerHelloUnits, MessageUnits DEF ClientFinished
<1>14. /\ SubSeq(f, 1, b) \in Seq(Units) /\ FlattenSeq(msgs) \in Seq(Units)
       /\ SubSeq(f, 1, z) \in Seq(Units)
       /\ SubSeq(f, z + 1, y) \in Seq(Units) /\ Len(SubSeq(f, z + 1, y)) = y - z
  <2>1. z \in 0..y /\ 0 \in 0..z /\ y \in 0..Len(f)
    BY <1>2, <1>11
  <2>2. b \in 0..z /\ z \in 0..Len(f) /\ 0 \in 0..b
    BY <1>2, <1>11
  <2> HIDE DEF z
  <2>3. SubSeq(f, 0 + 1, z) \in Seq(Units)
        /\ SubSeq(f, z + 1, y) \in Seq(Units) /\ Len(SubSeq(f, z + 1, y)) = y - z
    BY <1>1, <2>1, PieceLength
  <2>4. SubSeq(f, 0 + 1, b) \in Seq(Units) /\ SubSeq(f, b + 1, z) \in Seq(Units)
    BY <1>1, <2>2, PieceLength
  <2>5. 0 + 1 = 1
    OBVIOUS
  <2>6. FlattenSeq(msgs) = SubSeq(f, b + 1, z)
    BY <1>10 DEF z
  <2> QED BY <2>3, <2>4, <2>5, <2>6
<1>15. transcript \o FlattenSeq(msgs) = ServerHello \o SubSeq(f, 1, z)
  <2> DEFINE x == SubSeq(f, 1, b)
             m == FlattenSeq(msgs)
  <2>1. x \in Seq(Units) /\ m \in Seq(Units) /\ x \o m = SubSeq(f, 1, z)
        /\ transcript = ServerHello \o x
    BY <1>2, <1>12, <1>14
  <2> HIDE DEF x, m
  <2>2. (ServerHello \o x) \o m = ServerHello \o (x \o m)
    BY <2>1, HelloJoined
  <2> QED BY <2>1, <2>2 DEF m
<1>16. transcript \o FlattenSeq(msgs) \in Seq(Units)
  BY <1>13, <1>14, <1>15, ConcatProperties
<1>17. CASE Fins(msgs) = {}
  <2>1. /\ server_seq' = server_seq + 1
        /\ transcript' = ServerHello \o SubSeq(f, 1, z)
        /\ hs_buf' = SubSeq(f, z + 1, y)
        /\ UNCHANGED <<status, keys, client_seq>>
    BY <1>7, <1>10, <1>15, <1>17 DEF Taken13
  <2>2. Queued(c, z, y)'
    <3>1. FlightOf(version, c)' = f
      BY DEF f
    <3>2. Carries(version', wire', f, y) /\ y \in 0..Len(f) /\ z \in 0..y
      BY <1>2, <1>11
    <3> QED BY <2>1, <3>1, <3>2, Zenon DEF Queued
  <2>3. transcript' = ServerHello \o SubSeq(FlightOf(version', c), 1, z)
    BY <2>1 DEF f
  <2>4. secret' = TRUE /\ keys' = "handshake"
    BY <1>3, <2>1, Zenon
  <2>5. z \in Nat /\ y \in Nat
    BY <1>11
  <2> HIDE DEF z
  <2>6. Running13'
    BY <2>2, <2>3, <2>4, <2>5, Zenon DEF Running13
  <2>7. HandTypes'
    <3>1. hs_buf' \in Seq(Units) /\ Len(hs_buf') <= HsBufSize
      <4>1. y - z <= y - b
        BY <1>2, <1>11 DEF z
      <4> QED BY <1>2, <1>6, <1>14, <2>1, <2>5, <4>1, HsBufSizeAssumption
    <3>2. transcript' \in Seq(Units)
      BY <1>15, <1>16, <2>1
    <3>3. /\ version' \in {"1.2", "1.3"} /\ fate' \in Fates /\ server_seq' \in Nat
          /\ secret' \in BOOLEAN /\ server_ccs_received' \in BOOLEAN /\ answered' \in BOOLEAN
      BY <1>3, <2>1 DEF HandTypes
    <3>4. status' = "running"
      BY <2>1
    <3> QED BY <3>1, <3>2, <3>3, <3>4 DEF HandTypes
  <2> QED BY <2>1, <2>6, <2>7 DEF HandInv, Handover
<1>18. CASE Fins(msgs) # {}
  <2>1. SubSeq(msgs, 1, Min(Fins(msgs))) = msgs
    BY <1>8, <1>10, <1>18, LastOne
  <2>2. z = Len(f) /\ y = Len(f)
    BY <1>10, <1>18 DEF Fins
  <2>3. /\ status' = "done"
        /\ transcript' = transcript \o FlattenSeq(msgs) \o ClientFinished
        /\ keys' = "data" /\ client_seq' = 0 /\ server_seq' = 0 /\ hs_buf' = <<>>
    BY <1>7, <1>18, <2>1 DEF Taken13
  <2>4. transcript' = ServerHello \o Flight13(c) \o ClientFinished
    <3>1. SubSeq(f, 1, Len(f)) = f
      BY <1>1, SubSeqFull
    <3>2. f = Flight13(c)
      BY DEF f, FlightOf
    <3> QED BY <1>15, <2>2, <2>3, <3>1, <3>2
  <2>5. Agreed'
    <3>1. version' = "1.3"
      OBVIOUS
    <3> QED BY <2>4, <3>1 DEF Agreed
  <2>6. FirstDataNumber' = 0 /\ wire' = <<>>
    BY <1>2, <2>2 DEF FirstDataNumber
  <2>7. secret' = TRUE
    BY <1>3, Zenon
  <2>8. Done'
    BY <2>3, <2>5, <2>6, <2>7 DEF Done
  <2>9. HandTypes'
    <3>1. /\ version' \in {"1.2", "1.3"} /\ fate' \in Fates /\ server_seq' \in Nat
          /\ secret' \in BOOLEAN /\ server_ccs_received' \in BOOLEAN /\ answered' \in BOOLEAN
      BY <1>3, <2>3 DEF HandTypes
    <3> QED BY <2>3, <3>1 DEF HandTypes, Beginning
  <2>10. FirstDataNumber = 0
    BY DEF FirstDataNumber
  <2> QED BY <2>3, <2>6, <2>8, <2>9, <2>10 DEF HandInv, Handover
<1> QED BY <1>17, <1>18

(* An alert has gone behind the queue.                                     *)
LEMMA AlertTaken13 ==
  ASSUME HandInv, status = "running", version = "1.3", wire' = Tail(wire),
         UNCHANGED <<version, fate, secret, server_ccs_received, answered>>,
         NEW r \in NextRecord, NEW misread \in Misreadings,
         NEW c \in CertLengths, NEW b \in Nat, NEW e \in Nat, NEW y \in Nat,
         Reading13(r, c, b, e, y), r.body = Alert, y = Len(FlightOf(version, c)),
         Fits(r.body), Taken13(hs_buf \o r.body, Messages(hs_buf \o r.body, misread))
  PROVE  HandInv' /\ Handover
<1> DEFINE f == FlightOf(version, c)
           d == hs_buf \o r.body
           msgs == Messages(d, misread)
<1>1. f \in Seq(Units) /\ Len(f) \in Nat \ {0} /\ EndsWith(f, "Finished")
  <2>1. EndName("1.3") = "Finished"
    BY DEF EndName
  <2> QED BY <2>1, FlightUnits
<1>2. /\ b \in 0..e /\ e \in 0..Len(f) - 1 /\ hs_buf = SubSeq(f, b + 1, e)
      /\ wire' = <<>>
  BY DEF Reading13, Brings
<1>3. HandTypes /\ secret = TRUE /\ keys = "handshake"
  BY Before13
<1>4. r.body = Alert
  OBVIOUS
<1>5. Taken13(d, msgs)
  OBVIOUS
<1>6. hs_buf \in Seq(Units) /\ Len(hs_buf) \in Nat /\ transcript \in Seq(Units)
  <2>1. hs_buf \in Seq(Units) /\ transcript \in Seq(Units)
    BY <1>3 DEF HandTypes, Beginning
  <2> QED BY <2>1
<1>7. d \in Seq(Units) /\ \A i \in 1..Len(d) : d[i][1] # "Finished"
  <2> HIDE DEF f
  <2>1. /\ SubSeq(f, b + 1, e) \o Alert \in Seq(Units)
        /\ \A i \in 1..Len(SubSeq(f, b + 1, e) \o Alert) :
             (SubSeq(f, b + 1, e) \o Alert)[i][1] # "Finished"
    BY <1>1, <1>2, AlertQueued
  <2>2. d = SubSeq(f, b + 1, e) \o Alert
    BY <1>2, <1>4
  <2> HIDE DEF d
  <2> QED BY <2>1, <2>2
<1>8. Len(d) <= HsBufSize /\ Len(d) \in Nat
  <2>1. Len(d) = Len(hs_buf) + Len(r.body)
    <3>1. Len(hs_buf \o Alert) = Len(hs_buf) + Len(Alert)
      BY <1>6, AlertUnits, ConcatProperties
    <3> QED BY <1>4, <3>1
  <2> HIDE DEF d
  <2> QED BY <1>7, <2>1 DEF Fits
<1> HIDE DEF d
<1>9. Fins(msgs) = {} /\ msgs \in Seq(Seq(Units))
  <2>1. /\ msgs \in Seq(Seq(Units))
        /\ \A j \in 1..Len(msgs) : NameOf(msgs[j]) # "Finished"
    BY <1>7, NamesFound
  <2> HIDE DEF msgs
  <2> QED BY <2>1 DEF Fins
<1>10. /\ FlattenSeq(msgs) \in Seq(Units) /\ Remainder(d, msgs) \in Seq(Units)
       /\ Len(Remainder(d, msgs)) <= Len(d)
  BY <1>7, FrontTaken
<1> HIDE DEF msgs
<1>11. /\ server_seq' = server_seq + 1
       /\ transcript' = transcript \o FlattenSeq(msgs)
       /\ hs_buf' = Remainder(d, msgs)
       /\ UNCHANGED <<status, keys, client_seq>>
  BY <1>5, <1>9 DEF Taken13
<1>12. Running13'
  <2>1. secret' = TRUE /\ keys' = "handshake"
    BY <1>3, <1>11, Zenon
  <2> QED BY <1>2, <2>1, Zenon DEF Running13
<1>13. HandTypes'
  <2>1. hs_buf' \in Seq(Units) /\ Len(hs_buf') <= HsBufSize
    <3> DEFINE h == Remainder(d, msgs)
    <3>1. h \in Seq(Units) /\ Len(h) <= Len(d) /\ hs_buf' = h
      BY <1>10, <1>11
    <3> HIDE DEF h
    <3>2. Len(h) \in Nat
      BY <3>1
    <3>3. Len(h) <= HsBufSize
      BY <1>8, <3>1, <3>2, HsBufSizeAssumption
    <3> QED BY <3>1, <3>3
  <2>2. transcript' \in Seq(Units)
    BY <1>6, <1>10, <1>11, ConcatProperties
  <2>3. /\ version' \in {"1.2", "1.3"} /\ fate' \in Fates /\ server_seq' \in Nat
        /\ secret' \in BOOLEAN /\ server_ccs_received' \in BOOLEAN /\ answered' \in BOOLEAN
    BY <1>3, <1>11 DEF HandTypes
  <2>4. status' = "running"
    BY <1>11
  <2> QED BY <2>1, <2>2, <2>3, <2>4 DEF HandTypes
<1> QED BY <1>11, <1>12, <1>13 DEF HandInv, Handover

(* A TLS 1.3 record: a piece of the flight or an alert.                    *)
LEMMA EncryptedHandled ==
  ASSUME HandInv, ReadEncrypted13
  PROVE  HandInv' /\ Handover
<1>1. PICK r \in NextRecord, misread \in Misreadings :
        /\ status = "running" /\ version = "1.3"
        /\ wire' = Tail(wire) /\ r.type = "encrypted"
        /\ \/ /\ status' = "failed" /\ server_seq' = server_seq + 1
              /\ UNCHANGED <<hs_buf, transcript>>
           \/ /\ Fits(r.body)
              /\ Taken13(hs_buf \o r.body, Messages(hs_buf \o r.body, misread))
        /\ UNCHANGED <<version, fate, secret, server_ccs_received, answered>>
  BY RecordTaken13
<1>2. HandTypes /\ \E c \in CertLengths, b, e, y \in Nat : Reading13(r, c, b, e, y)
  BY <1>1, Before13
<1>3. PICK c \in CertLengths, b \in Nat, e \in Nat, y \in Nat : Reading13(r, c, b, e, y)
  BY <1>2
<1>4. \/ e < y /\ r.body = SubSeq(FlightOf(version, c), e + 1, y)
      \/ r.body = Alert /\ y = Len(FlightOf(version, c))
  BY <1>1, <1>3 DEF Reading13, Brings, Bears
<1>5. CASE status' = "failed" /\ server_seq' = server_seq + 1 /\ UNCHANGED <<hs_buf, transcript>>
  <2>1. fate' \in Fates /\ server_seq' \in Nat /\ Beginning
    BY <1>1, <1>2, <1>5 DEF HandTypes, Beginning
  <2> QED BY <1>1, <1>5, <2>1, Failing
<1>6. CASE Fits(r.body) /\ Taken13(hs_buf \o r.body, Messages(hs_buf \o r.body, misread))
  BY <1>1, <1>3, <1>4, <1>6, PieceTaken13, AlertTaken13
<1> QED BY <1>1, <1>5, <1>6

-----------------------------------------------------------------------------
(* The steps that only fail.                                               *)
LEMMA RefusedOrFailed ==
  ASSUME HandInv, RefuseServerHello \/ ReadAlert \/ ReadFails
  PROVE  HandInv' /\ Handover
<1>1. /\ status' = "failed" /\ status \in {"hello sent", "running"}
      /\ UNCHANGED <<version, hs_buf, transcript, secret, server_ccs_received,
                     server_seq, answered>>
  BY DEF RefuseServerHello, ReadAlert, ReadFails, Fail
<1>2. fate' = fate \/ fate' = "cut"
  BY DEF RefuseServerHello, ReadAlert, ReadFails
<1>3. fate' \in Fates /\ server_seq' \in Nat /\ Beginning
  BY <1>1, <1>2 DEF HandInv, HandTypes, Beginning, Fates
<1> QED BY <1>1, <1>3, Failing

(* Every step of the handshake.                                            *)
LEMMA HandStep ==
  ASSUME HandInv, HsNext
  PROVE  HandInv' /\ Handover
BY ServerHelloHandled, FlightHandled12, AnswerSent12, FinishedHandled12, CcsHandled,
   EncryptedHandled, RefusedOrFailed DEF HsNext

-----------------------------------------------------------------------------
(* The data.                                                               *)

Outgoing == [what : {"request", "ack"}, key : Keys, seq : Nat, torn : BOOLEAN]

Requested(i) == outbound[i].what = "request"

ServerFields == {"up", "next", "key", "seq", "to_send", "rekeyed", "asked"}

(* Until the handshake has succeeded nothing is written, and the server    *)
(* expects the number the handshake leaves.                                *)
Unused ==
  /\ outbound = <<>> /\ torn = FALSE /\ receiving = FALSE /\ requests = 0
  /\ server.up = TRUE /\ server.next = FirstDataNumber /\ server.asked = 0

(* The records on their way have the numbers the server expects, and the   *)
(* client has the one that comes after them.                               *)
InStep ==
  /\ \A i \in 1..Len(outbound) :
       /\ outbound[i].key = "data" /\ outbound[i].torn = FALSE
       /\ outbound[i].seq = server.next + (i - 1)
  /\ client_seq = server.next + Len(outbound)

(* Every request on its way or answered is one the application made.       *)
Counted ==
  /\ server.asked > 0 => requests >= 1
  /\ \A i \in 1..Len(outbound) : Requested(i) => requests >= 1
  /\ server.asked > 0 => \A i \in 1..Len(outbound) : Requested(i) => requests >= 2
  /\ \A i, j \in 1..Len(outbound) : i # j /\ Requested(i) /\ Requested(j) => requests >= 2

Conversing ==
  /\ ServerInStep
  /\ server.up /\ ~torn => InStep
  /\ Counted

StepTypes ==
  /\ outbound \in Seq(Outgoing) /\ torn \in BOOLEAN /\ receiving \in BOOLEAN
  /\ requests \in Nat
  /\ DOMAIN server = ServerFields
  /\ server.up \in BOOLEAN /\ server.next \in Nat /\ server.asked \in Nat

StepInv ==
  /\ StepTypes
  /\ receiving = TRUE => status = "done"
  /\ Beginning => Unused
  /\ ~Beginning => Conversing

-----------------------------------------------------------------------------
(* The records on their way stay as they are when one is written.          *)
LEMMA RecordWritten ==
  ASSUME StepTypes, NonceInv, NEW what \in {"request", "ack"}, Write(what), keys = "data"
  PROVE  \E short \in BOOLEAN :
           LET n == Len(outbound)
               o == [what |-> what, key |-> "data", seq |-> client_seq, torn |-> short]
           IN /\ outbound' \in Seq(Outgoing) /\ Len(outbound') = n + 1 /\ n \in Nat
              /\ \A i \in 1..n : outbound'[i] = outbound[i]
              /\ outbound'[n + 1] = o
              /\ torn' = (torn \/ short) /\ torn' \in BOOLEAN
              /\ client_seq' = client_seq + 1 /\ client_seq \in Nat
<1>1. PICK short \in {FALSE, ~torn} :
        /\ outbound' = Append(outbound, [what |-> what, key |-> keys, seq |-> client_seq,
                                         torn |-> short])
        /\ torn' = (torn \/ short)
        /\ client_seq' = client_seq + 1
  BY Zenon DEF Write
<1> DEFINE o == [what |-> what, key |-> "data", seq |-> client_seq, torn |-> short]
<1>2. short \in BOOLEAN /\ torn' \in BOOLEAN
  BY <1>1, Zenon DEF StepTypes
<1>3. client_seq \in Nat
  BY DEF NonceInv, NonceTypes
<1>4. o \in Outgoing
  BY <1>2, <1>3 DEF Outgoing, Keys
<1>5. outbound' = Append(outbound, o)
  BY <1>1, Zenon
<1>6. outbound \in Seq(Outgoing)
  BY DEF StepTypes
<1> HIDE DEF o
<1>7. /\ outbound' \in Seq(Outgoing) /\ Len(outbound') = Len(outbound) + 1
      /\ Len(outbound) \in Nat
      /\ \A i \in 1..Len(outbound) : outbound'[i] = outbound[i]
      /\ outbound'[Len(outbound) + 1] = o
  BY <1>4, <1>5, <1>6
<1> QED BY <1>1, <1>2, <1>3, <1>7 DEF o

(* Writing a record keeps both ends in step.                               *)
LEMMA WritingInStep ==
  ASSUME StepInv, NonceInv, status = "done", keys = "data",
         NEW what \in {"request", "ack"}, Write(what),
         what = "request" => requests' = requests + 1,
         what = "ack" => requests' = requests,
         UNCHANGED <<is_h2, server, version, status, receiving>>
  PROVE  StepInv'
<1>1. PICK short \in BOOLEAN :
           LET n == Len(outbound)
               o == [what |-> what, key |-> "data", seq |-> client_seq, torn |-> short]
           IN /\ outbound' \in Seq(Outgoing) /\ Len(outbound') = n + 1 /\ n \in Nat
              /\ \A i \in 1..n : outbound'[i] = outbound[i]
              /\ outbound'[n + 1] = o
              /\ torn' = (torn \/ short) /\ torn' \in BOOLEAN
              /\ client_seq' = client_seq + 1 /\ client_seq \in Nat
  BY RecordWritten DEF StepInv
<1> DEFINE n == Len(outbound)
<1>2. /\ outbound' \in Seq(Outgoing) /\ Len(outbound') = n + 1 /\ n \in Nat
      /\ \A i \in 1..n : outbound'[i] = outbound[i]
      /\ outbound'[n + 1].what = what /\ outbound'[n + 1].key = "data"
      /\ outbound'[n + 1].seq = client_seq /\ outbound'[n + 1].torn = short
      /\ client_seq' = client_seq + 1 /\ client_seq \in Nat
  BY <1>1
<1>3. torn' = (torn \/ short) /\ torn' \in BOOLEAN
  BY <1>1
<1>4. StepTypes /\ Conversing /\ ~Beginning /\ ~Beginning'
  BY DEF StepInv, Beginning
<1>5. requests \in Nat /\ requests' \in Nat /\ requests' >= requests
  BY <1>4 DEF StepTypes
<1>6. StepTypes'
  BY <1>2, <1>3, <1>4, <1>5 DEF StepTypes
<1>7. server.up' /\ ~torn' => InStep'
  <2> SUFFICES ASSUME server.up', ~torn' PROVE InStep'
    OBVIOUS
  <2>1. server' = server /\ server.next \in Nat
    BY <1>4 DEF StepTypes
  <2>2. server.up /\ ~torn /\ short = FALSE
    <3>1. server.up /\ ~torn
      BY <1>3, <2>1
    <3>2. short = FALSE
      BY <1>3, Zenon
    <3> QED BY <3>1, <3>2
  <2>3. InStep
    BY <1>4, <2>2 DEF Conversing
  <2>4. ASSUME NEW i \in 1..Len(outbound')
        PROVE  /\ outbound'[i].key = "data" /\ outbound'[i].torn = FALSE
               /\ outbound'[i].seq = server.next + (i - 1)
    <3>1. CASE i \in 1..n
      BY <1>2, <2>3, <3>1 DEF InStep
    <3>2. CASE i = n + 1
      BY <1>2, <2>1, <2>2, <2>3, <3>2 DEF InStep
    <3>3. i \in 1..n \/ i = n + 1
      BY <1>2
    <3> QED BY <3>1, <3>2, <3>3, Zenon
  <2>5. client_seq' = server.next + Len(outbound')
    BY <1>2, <2>1, <2>3 DEF InStep
  <2> QED BY <2>1, <2>4, <2>5 DEF InStep
<1>8. Counted'
  <2>1. Counted /\ server' = server
    BY <1>4 DEF Conversing
  <2>2. ASSUME NEW i \in 1..Len(outbound')
        PROVE  /\ Requested(i)' => requests' >= 1
               /\ server.asked > 0 /\ Requested(i)' => requests' >= 2
    <3>1. CASE i \in 1..n
      BY <1>2, <1>5, <2>1, <3>1 DEF Counted, Requested
    <3>2. CASE i = n + 1
      BY <1>2, <1>5, <2>1, <3>2 DEF Counted, Requested
    <3> QED BY <1>2, <3>1, <3>2
  <2>3. ASSUME NEW i \in 1..Len(outbound'), NEW j \in 1..Len(outbound'),
               i # j, Requested(i)', Requested(j)'
        PROVE  requests' >= 2
    <3>1. CASE i \in 1..n /\ j \in 1..n
      BY <1>2, <1>5, <2>1, <2>3, <3>1 DEF Counted, Requested
    <3>2. CASE i = n + 1 /\ j \in 1..n
      BY <1>2, <1>5, <2>1, <2>3, <3>2 DEF Counted, Requested
    <3>3. CASE i \in 1..n /\ j = n + 1
      BY <1>2, <1>5, <2>1, <2>3, <3>3 DEF Counted, Requested
    <3> QED BY <1>2, <2>3, <3>1, <3>2, <3>3
  <2>4. server.asked > 0 => requests' >= 1
    BY <1>5, <2>1 DEF Counted
  <2> QED BY <2>1, <2>2, <2>3, <2>4 DEF Counted
<1>9. ServerInStep'
  <2>1. ServerInStep
    BY <1>4 DEF Conversing
  <2>2. torn => torn'
    BY <1>3
  <2>3. requests > 1 => requests' > 1
    BY <1>5
  <2> QED BY <2>1, <2>2, <2>3 DEF ServerInStep
<1>10. receiving' = TRUE => status' = "done"
  OBVIOUS
<1> QED BY <1>4, <1>6, <1>7, <1>8, <1>9, <1>10 DEF StepInv, Conversing

(* A step that reads or writes no record of the client's.                  *)
LEMMA QuietStep ==
  ASSUME StepInv, ~Beginning, ~Beginning',
         UNCHANGED <<version, is_h2, requests, outbound, torn, client_seq>>,
         DOMAIN server' = ServerFields,
         server'.up = server.up, server'.next = server.next, server'.asked = server.asked,
         receiving' \in BOOLEAN, receiving' = TRUE => status' = "done"
  PROVE  StepInv'
<1>1. StepTypes /\ Conversing
  BY DEF StepInv
<1>2. /\ requests' = requests /\ outbound' = outbound /\ is_h2' = is_h2
      /\ torn' = torn /\ client_seq' = client_seq
  OBVIOUS
<1>3. StepTypes'
  BY <1>1, <1>2 DEF StepTypes
<1>4. ServerInStep'
  BY <1>1, <1>2 DEF Conversing, ServerInStep
<1>5. server'.up /\ ~torn' => InStep'
  BY <1>1, <1>2 DEF Conversing, InStep
<1>6. Counted'
  <2>1. \A i : Requested(i)' <=> Requested(i)
    BY <1>2 DEF Requested
  <2> QED BY <1>1, <1>2, <2>1 DEF Conversing, Counted
<1> QED BY <1>3, <1>4, <1>5, <1>6 DEF StepInv, Conversing

(* The server's answer takes the first of the records on their way.        *)
LEMMA AnsweringInStep ==
  ASSUME StepInv, ServerAnswers
  PROVE  StepInv'
<1>1. PICK o \in Foremost(outbound) :
        /\ status = "done" /\ server.up
        /\ outbound' = Tail(outbound)
        /\ \/ /\ o.torn \/ o.key # "data" \/ o.seq # server.next
              /\ server' = [server EXCEPT !.up = FALSE, !.to_send = <<>>]
           \/ /\ o.what = "ack"
              /\ server' = [server EXCEPT !.next = @ + 1]
           \/ /\ o.what # "ack" /\ is_h2 /\ server.asked > 0
              /\ server' = [server EXCEPT !.up = FALSE,
                              !.to_send = RestOfFrame \o Frame("GOAWAY", 0, 1)]
           \/ /\ o.what # "ack" /\ ~(is_h2 /\ server.asked > 0)
              /\ \E frames \in Responses(server.asked + 1) :
                   server' = [server EXCEPT !.next = @ + 1, !.asked = @ + 1,
                                !.to_send = @ \o FlattenSeq(Allowed(frames))]
        /\ UNCHANGED <<version, status, is_h2, receiving, requests, torn, client_seq>>
  BY Zenon DEF ServerAnswers, hsOnly
<1> DEFINE n == Len(outbound)
<1>2. /\ status = "done" /\ server.up /\ outbound' = Tail(outbound)
      /\ UNCHANGED <<version, status, is_h2, receiving, requests, torn, client_seq>>
  BY <1>1
<1>3. StepTypes /\ Conversing /\ ~Beginning /\ ~Beginning'
  BY <1>2 DEF StepInv, Beginning
<1>4. n \in Nat \ {0} /\ o = outbound[1] /\ o \in Outgoing
  <2>1. 1 \in DOMAIN outbound /\ o = outbound[1] /\ outbound \in Seq(Outgoing)
    BY <1>3 DEF Foremost, StepTypes
  <2> QED BY <2>1
<1>5. /\ outbound' \in Seq(Outgoing) /\ Len(outbound') = n - 1
      /\ \A i \in 1..n - 1 : outbound'[i] = outbound[i + 1]
  <2>1. outbound \in Seq(Outgoing) /\ outbound # <<>>
    BY <1>3, <1>4 DEF StepTypes
  <2> DEFINE t == Tail(outbound)
  <2>2. t \in Seq(Outgoing) /\ Len(t) = Len(outbound) - 1
        /\ \A i \in 1..Len(t) : t[i] = outbound[i + 1]
    BY <2>1, HeadTailProperties
  <2>3. outbound' = t
    BY <1>2
  <2> HIDE DEF t
  <2> QED BY <2>2, <2>3
<1>6. /\ requests' = requests /\ requests \in Nat /\ is_h2' = is_h2 /\ torn' = torn
      /\ client_seq' = client_seq /\ server.next \in Nat /\ server.asked \in Nat
      /\ DOMAIN server = ServerFields /\ server.up \in BOOLEAN
  BY <1>2, <1>3 DEF StepTypes
<1>7. torn \/ (o.torn = FALSE /\ o.key = "data" /\ o.seq = server.next)
  <2> SUFFICES ASSUME ~torn PROVE o.torn = FALSE /\ o.key = "data" /\ o.seq = server.next
    OBVIOUS
  <2>1. InStep /\ 1 \in 1..n
    BY <1>2, <1>3, <1>4 DEF Conversing
  <2>2. outbound[1].torn = FALSE /\ outbound[1].key = "data"
        /\ outbound[1].seq = server.next + (1 - 1)
    BY <2>1 DEF InStep
  <2> QED BY <1>4, <1>6, <2>2
<1>8. \/ /\ server'.up = FALSE /\ server'.next = server.next
         /\ server'.asked = server.asked
         /\ torn \/ (is_h2 /\ requests > 1)
      \/ /\ server'.up = server.up /\ server'.next = server.next + 1
         /\ server'.asked = server.asked \/ (server'.asked = server.asked + 1 /\ o.what = "request")
         /\ server'.asked > server.asked /\ is_h2 => server.asked = 0
  <2>1. CASE /\ o.torn \/ o.key # "data" \/ o.seq # server.next
             /\ server' = [server EXCEPT !.up = FALSE, !.to_send = <<>>]
    <3>1. torn
      BY <1>7, <2>1
    <3>2. server'.up = FALSE /\ server'.next = server.next /\ server'.asked = server.asked
      BY <1>6, <2>1 DEF ServerFields
    <3> QED BY <3>1, <3>2
  <2>2. CASE o.what = "ack" /\ server' = [server EXCEPT !.next = @ + 1]
    <3>1. server'.up = server.up /\ server'.next = server.next + 1
          /\ server'.asked = server.asked
      BY <1>6, <2>2 DEF ServerFields
    <3> QED BY <1>6, <3>1
  <2>3. CASE /\ o.what # "ack" /\ is_h2 /\ server.asked > 0
             /\ server' = [server EXCEPT !.up = FALSE,
                              !.to_send = RestOfFrame \o Frame("GOAWAY", 0, 1)]
    <3>1. server'.up = FALSE /\ server'.next = server.next /\ server'.asked = server.asked
      <4> DEFINE q == RestOfFrame \o Frame("GOAWAY", 0, 1)
      <4>1. server' = [server EXCEPT !.up = FALSE, !.to_send = q]
        BY <2>3
      <4> HIDE DEF q
      <4> QED BY <1>6, <4>1 DEF ServerFields
    <3>2. requests >= 2
      <4>1. o.what = "request" /\ 1 \in 1..n
        BY <1>4, <2>3 DEF Outgoing
      <4> QED BY <1>3, <1>4, <2>3, <4>1 DEF Conversing, Counted, Requested
    <3>3. requests > 1 /\ is_h2
      BY <1>6, <2>3, <3>2
    <3> QED BY <3>1, <3>3, Zenon
  <2>4. CASE /\ o.what # "ack" /\ ~(is_h2 /\ server.asked > 0)
             /\ \E frames \in Responses(server.asked + 1) :
                   server' = [server EXCEPT !.next = @ + 1, !.asked = @ + 1,
                                !.to_send = @ \o FlattenSeq(Allowed(frames))]
    <3>1. PICK x : server' = [server EXCEPT !.next = @ + 1, !.asked = @ + 1, !.to_send = x]
      BY <2>4, Zenon
    <3>2. server'.up = server.up /\ server'.next = server.next + 1
          /\ server'.asked = server.asked + 1
      BY <1>6, <3>1 DEF ServerFields
    <3>3. o.what = "request"
      BY <1>4, <2>4 DEF Outgoing
    <3>4. is_h2 => server.asked = 0
      BY <1>6, <2>4
    <3> QED BY <3>2, <3>3, <3>4
  <2> QED BY <1>1, <2>1, <2>2, <2>3, <2>4
<1>9. DOMAIN server' = ServerFields
  BY <1>1, <1>6
<1>10. StepTypes'
  <2>1. server'.up \in BOOLEAN
    BY <1>6, <1>8, Zenon
  <2>2. server'.next \in Nat /\ server'.asked \in Nat
    BY <1>6, <1>8
  <2>3. /\ torn' \in BOOLEAN /\ receiving' \in BOOLEAN /\ requests' \in Nat
    BY <1>2, <1>3 DEF StepTypes
  <2> QED BY <1>5, <1>9, <2>1, <2>2, <2>3 DEF StepTypes
<1>11. ServerInStep'
  <2>1. CASE server'.up = server.up
    BY <1>2, <2>1 DEF ServerInStep
  <2>2. CASE torn \/ (is_h2 /\ requests > 1)
    BY <1>6, <2>2 DEF ServerInStep
  <2> QED BY <1>8, <2>1, <2>2
<1>12. server'.up /\ ~torn' => InStep'
  <2> SUFFICES ASSUME server'.up, ~torn' PROVE InStep'
    OBVIOUS
  <2>1. InStep
    BY <1>2, <1>3, <1>6 DEF Conversing
  <2>2. server'.next = server.next + 1
    BY <1>8
  <2>3. ASSUME NEW i \in 1..Len(outbound')
        PROVE  /\ outbound'[i].key = "data" /\ outbound'[i].torn = FALSE
               /\ outbound'[i].seq = server'.next + (i - 1)
    <3>1. i \in 1..n - 1 /\ i + 1 \in 1..n /\ outbound'[i] = outbound[i + 1]
      BY <1>4, <1>5
    <3>2. outbound[i + 1].key = "data" /\ outbound[i + 1].torn = FALSE
          /\ outbound[i + 1].seq = server.next + ((i + 1) - 1)
      BY <2>1, <3>1 DEF InStep
    <3>3. server.next + ((i + 1) - 1) = (server.next + 1) + (i - 1)
      BY <1>6
    <3> QED BY <2>2, <3>1, <3>2, <3>3
  <2>4. client_seq' = server'.next + Len(outbound')
    BY <1>4, <1>5, <1>6, <2>1, <2>2 DEF InStep
  <2> QED BY <2>3, <2>4 DEF InStep
<1>13. Counted'
  <2>1. Counted
    BY <1>3 DEF Conversing
  <2>2. ASSUME NEW i \in 1..Len(outbound')
        PROVE  i + 1 \in 1..n /\ i + 1 # 1 /\ (Requested(i)' <=> Requested(i + 1))
    <3>1. i \in 1..n - 1 /\ i + 1 \in 1..n /\ i + 1 # 1 /\ outbound'[i] = outbound[i + 1]
      BY <1>4, <1>5
    <3> QED BY <3>1 DEF Requested
  <2>3. \A i \in 1..Len(outbound') : Requested(i)' => requests >= 1
    BY <2>1, <2>2 DEF Counted
  <2>4. \A i, j \in 1..Len(outbound') :
          i # j /\ Requested(i)' /\ Requested(j)' => requests >= 2
    <3> SUFFICES ASSUME NEW i \in 1..Len(outbound'), NEW j \in 1..Len(outbound'),
                        i # j, Requested(i)', Requested(j)'
                 PROVE  requests >= 2
      OBVIOUS
    <3>1. i + 1 \in 1..n /\ Requested(i + 1)
      BY <2>2
    <3>2. j + 1 \in 1..n /\ Requested(j + 1)
      BY <2>2
    <3>3. i + 1 # j + 1
      OBVIOUS
    <3> QED BY <2>1, <3>1, <3>2, <3>3 DEF Counted
  <2>5. server'.asked > 0 => server.asked > 0 \/ Requested(1)
    BY <1>4, <1>6, <1>8 DEF Requested
  <2>6. server'.asked > 0 => requests >= 1
    <3>1. 1 \in 1..n
      BY <1>4
    <3> QED BY <2>1, <2>5, <3>1 DEF Counted
  <2>7. server'.asked > 0 => \A i \in 1..Len(outbound') : Requested(i)' => requests >= 2
    <3> SUFFICES ASSUME server'.asked > 0, NEW i \in 1..Len(outbound'), Requested(i)'
                 PROVE  requests >= 2
      OBVIOUS
    <3>1. i + 1 \in 1..n /\ i + 1 # 1 /\ Requested(i + 1) /\ 1 \in 1..n
      BY <1>4, <2>2
    <3> QED BY <2>1, <2>5, <3>1 DEF Counted
  <2> QED BY <1>6, <2>3, <2>4, <2>6, <2>7 DEF Counted
<1>14. receiving' = TRUE => status' = "done"
  BY <1>2
<1> QED BY <1>3, <1>10, <1>11, <1>12, <1>13, <1>14 DEF StepInv, Conversing

(* What no step of the handshake does.                                     *)
LEMMA HandshakeEnds ==
  ASSUME HsNext
  PROVE  /\ version' = version
         /\ status' \in {status, "running", "failed", "done"}
         /\ status \notin {"hello sent", "running"} => UNCHANGED <<status, client_seq>>
<1>1. CASE ReadServerHello
  BY <1>1 DEF ReadServerHello
<1>2. CASE RefuseServerHello
  BY <1>2 DEF RefuseServerHello, Fail
<1>3. CASE ReadAlert
  BY <1>3 DEF ReadAlert, Fail
<1>4. CASE ReadChangeCipherSpec
  BY <1>4 DEF ReadChangeCipherSpec
<1>5. CASE ReadHandshake12
  BY <1>5 DEF ReadHandshake12, Fail
<1>6. CASE ServerAnswers12
  BY <1>6 DEF ServerAnswers12
<1>7. CASE ReadFinished12
  BY <1>7 DEF ReadFinished12
<1>8. CASE ReadEncrypted13
  BY <1>8 DEF ReadEncrypted13, Fail
<1>9. CASE ReadFails
  BY <1>9 DEF ReadFails, Fail
<1> QED BY <1>1, <1>2, <1>3, <1>4, <1>5, <1>6, <1>7, <1>8, <1>9 DEF HsNext

(* A handshake that succeeds leaves the numbers both ends begin with.      *)
LEMMA HandshakeInStep ==
  ASSUME HandInv, StepInv, HandshakeStep
  PROVE  HandInv' /\ StepInv'
<1>1. HsNext /\ UNCHANGED dataVars
  BY DEF HandshakeStep
<1>2. HandInv' /\ Handover
  BY <1>1, HandStep
<1>3. /\ version' = version
      /\ status' \in {status, "running", "failed", "done"}
      /\ status \notin {"hello sent", "running"} => UNCHANGED <<status, client_seq>>
  BY <1>1, HandshakeEnds
<1>4. UNCHANGED <<is_h2, receiving, requests, outbound, torn, server>>
  BY <1>1 DEF dataVars
<1>5. StepTypes /\ FirstDataNumber' = FirstDataNumber /\ FirstDataNumber \in Nat
  BY <1>3 DEF StepInv, FirstDataNumber
<1>6. StepTypes'
  BY <1>4, <1>5 DEF StepTypes
<1>7. CASE Beginning /\ Beginning'
  <2>1. Unused
    BY <1>7 DEF StepInv
  <2>2. Unused'
    BY <1>4, <1>5, <2>1 DEF Unused
  <2>3. receiving' = FALSE
    BY <2>2 DEF Unused
  <2> QED BY <1>2, <1>6, <1>7, <2>2, <2>3 DEF StepInv
<1>8. CASE Beginning /\ ~Beginning'
  <2>1. Unused
    BY <1>8 DEF StepInv
  <2>2. status # "done" /\ status' = "done"
    BY <1>3, <1>8 DEF Beginning
  <2>3. client_seq' = FirstDataNumber
    BY <1>2, <2>2 DEF Handover
  <2>4. outbound' = <<>> /\ Len(outbound') = 0
    BY <1>4, <2>1 DEF Unused
  <2>5. server'.up = TRUE /\ server'.next = FirstDataNumber /\ server'.asked = 0
    BY <1>4, <2>1 DEF Unused
  <2>6. ServerInStep'
    BY <2>5 DEF ServerInStep
  <2>7. InStep'
    BY <1>5, <2>3, <2>4, <2>5 DEF InStep
  <2>8. Counted'
    BY <2>4, <2>5 DEF Counted
  <2> QED BY <1>2, <1>6, <1>8, <2>2, <2>6, <2>7, <2>8 DEF StepInv, Conversing
<1>9. CASE ~Beginning
  <2>1. status' = status /\ client_seq' = client_seq /\ ~Beginning'
    BY <1>3, <1>9 DEF Beginning
  <2>2. /\ DOMAIN server' = ServerFields /\ receiving' \in BOOLEAN
        /\ server'.up = server.up /\ server'.next = server.next /\ server'.asked = server.asked
        /\ receiving' = TRUE => status' = "done"
    BY <1>4, <1>5, <2>1 DEF StepTypes, StepInv
  <2>3. UNCHANGED <<version, is_h2, requests, outbound, torn, client_seq>>
    BY <1>3, <1>4, <2>1
  <2> QED BY <1>2, <1>9, <2>1, <2>2, <2>3, QuietStep
<1> QED BY <1>2, <1>7, <1>8, <1>9

-----------------------------------------------------------------------------
(* What no later step takes back.                                          *)
LEMMA StaysAgreed ==
  ASSUME HandInv, status = "done", status' \in {"done", "closed"},
         UNCHANGED <<version, transcript, secret, server_ccs_received, keys, answered>>,
         fate' \in Fates, server_seq' \in Nat, server_seq' >= server_seq,
         hs_buf' = hs_buf \/ server_seq' > server_seq \/ hs_buf # <<>>
  PROVE  HandInv'
<1>1. HandTypes /\ Done
  BY DEF HandInv
<1>2. HandTypes'
  BY <1>1 DEF HandTypes, Beginning
<1>3. FirstDataNumber' = FirstDataNumber /\ FirstDataNumber \in Nat
  BY DEF FirstDataNumber
<1>4. Agreed'
  BY <1>1 DEF Agreed, Done
<1>5. server_seq' >= FirstDataNumber'
  BY <1>1, <1>3 DEF Done, HandTypes
<1>6. server_seq' = FirstDataNumber' => hs_buf' = <<>>
  <2> HAVE server_seq' = FirstDataNumber'
  <2>1. server_seq = FirstDataNumber /\ server_seq' = server_seq
    BY <1>1, <1>3 DEF Done, HandTypes
  <2>2. hs_buf = <<>>
    BY <1>1, <2>1 DEF Done
  <2> QED BY <1>1, <2>1, <2>2 DEF HandTypes
<1>7. secret' = TRUE /\ keys' = "data" /\ (version' = "1.2" => answered' = TRUE)
  BY <1>1, Zenon DEF Done
<1> QED BY <1>2, <1>3, <1>4, <1>5, <1>6, <1>7 DEF HandInv, Done

(* A frame taken from the queue, with the answer it may call for.          *)
LEMMA FrameTaken ==
  ASSUME HandInv, StepInv, NonceInv, RecvFrame
  PROVE  HandInv' /\ StepInv'
<1>1. /\ receiving /\ hs_buf # <<>>
      /\ UNCHANGED <<hsOnly, wire, server_seq, is_h2, requests, server>>
      /\ \/ GiveUpFraming
         \/ \E kind, n : TakeFrame(kind, n)
  <2>1. PICK u \in Foremost(hs_buf) :
          \E kind \in IF HasHeader(u) THEN {u[1]} ELSE Kinds,
             n \in IF HasHeader(u) THEN {u[3]} ELSE Misreadings :
            IF kind = "EXT" THEN GiveUpFraming ELSE TakeFrame(kind, n)
    BY DEF RecvFrame
  <2>2. hs_buf # <<>>
    BY <2>1 DEF Foremost
  <2>3. GiveUpFraming \/ \E kind, n : TakeFrame(kind, n)
    BY <2>1, Zenon
  <2> QED BY <2>2, <2>3 DEF RecvFrame
<1>2. UNCHANGED <<version, fate, transcript, secret, server_ccs_received, keys, answered>>
  BY <1>1 DEF hsOnly
<1>3. StepTypes /\ HandTypes
  BY DEF StepInv, HandInv
<1>4. status = "done" /\ keys = "data" /\ receiving = TRUE /\ ~Beginning
  <2>1. receiving = TRUE
    BY <1>1, <1>3, Zenon DEF StepTypes
  <2>2. status = "done"
    BY <2>1 DEF StepInv
  <2> QED BY <2>1, <2>2 DEF HandInv, Done, Beginning
<1>5. \/ Write("ack") /\ UNCHANGED <<receiving, status>>
      \/ /\ UNCHANGED <<outbound, torn, client_seq>>
         /\ \/ receiving' = FALSE /\ status' = status
            \/ receiving' = FALSE /\ status' = "closed"
            \/ receiving' = receiving /\ status' = status
  <2>1. CASE GiveUpFraming
    BY <2>1 DEF GiveUpFraming, Return
  <2>2. CASE \E kind, n : TakeFrame(kind, n)
    BY <2>2 DEF TakeFrame, GoOn, Return, ReturnError
  <2> QED BY <1>1, <2>1, <2>2
<1>6. HandInv'
  <2>1. status' \in {"done", "closed"}
    BY <1>4, <1>5
  <2>2. fate' \in Fates /\ server_seq' \in Nat /\ server_seq' >= server_seq
    <3>1. fate' = fate /\ server_seq' = server_seq
      BY <1>1, <1>2
    <3>2. fate \in Fates /\ server_seq \in Nat
      BY <1>3 DEF HandTypes
    <3> QED BY <3>1, <3>2
  <2> QED BY <1>1, <1>2, <1>4, <2>1, <2>2, StaysAgreed
<1>7. StepInv'
  <2>1. CASE Write("ack") /\ UNCHANGED <<receiving, status>>
    <3>1. requests' = requests /\ UNCHANGED <<is_h2, server, version, status, receiving>>
      BY <1>1, <1>2, <2>1
    <3> QED BY <1>4, <2>1, <3>1, WritingInStep
  <2>2. CASE /\ UNCHANGED <<outbound, torn, client_seq>>
             /\ \/ receiving' = FALSE /\ status' = status
                \/ receiving' = FALSE /\ status' = "closed"
                \/ receiving' = receiving /\ status' = status
    <3>1. ~Beginning' /\ receiving' \in BOOLEAN /\ (receiving' = TRUE => status' = "done")
      BY <1>4, <2>2 DEF Beginning
    <3>2. UNCHANGED <<version, is_h2, requests, outbound, torn, client_seq>> /\ server' = server
      BY <1>1, <1>2, <2>2
    <3>3. DOMAIN server' = ServerFields
      BY <1>3, <3>2 DEF StepTypes
    <3> QED BY <1>4, <3>1, <3>2, <3>3, QuietStep
  <2> QED BY <1>5, <2>1, <2>2
<1> QED BY <1>6, <1>7

(* The other steps of the data leave the client's records as they are.     *)
LEMMA OthersQuiet ==
  ASSUME HandInv, StepInv, CallRecv \/ RecvRecord \/ RecvFails \/ ServerSends
                             \/ ServerPostHandshake
  PROVE  HandInv' /\ StepInv'
<1>1. HandTypes /\ StepTypes
  BY DEF HandInv, StepInv
<1>2. status = "done"
  <2>1. receiving \/ status = "done"
    BY DEF CallRecv, RecvRecord, RecvFails, ServerSends, ServerPostHandshake
  <2>2. receiving => receiving = TRUE
    BY <1>1, Zenon DEF StepTypes
  <2> QED BY <2>1, <2>2 DEF StepInv
<1>3. ~Beginning
  BY <1>2 DEF Beginning
<1>4. /\ UNCHANGED <<version, transcript, secret, server_ccs_received, keys, answered,
                     is_h2, requests, outbound, torn, client_seq>>
      /\ status' \in {"done", "closed"} /\ fate' \in Fates
      /\ \/ server_seq' = server_seq /\ hs_buf' = hs_buf
         \/ server_seq' = server_seq + 1
      /\ \/ receiving' = TRUE /\ status' = "done"
         \/ receiving' = FALSE
         \/ receiving' = receiving /\ status' = status
      /\ \/ server' = server
         \/ \E s, t : server' = [server EXCEPT !.seq = s, !.to_send = t]
         \/ \E k, s, b : server' = [server EXCEPT !.key = k, !.seq = s, !.rekeyed = b]
  <2>0. fate \in Fates /\ "cut" \in Fates
    BY <1>1 DEF HandTypes, Fates
  <2>1. CASE CallRecv
    BY <1>2, <2>0, <2>1 DEF CallRecv, hsVars
  <2>2. CASE RecvRecord
    <3>1. PICK r \in NextRecord :
            /\ server_seq' = server_seq + 1
            /\ \/ receiving' = FALSE /\ status' = "closed"
               \/ UNCHANGED <<receiving, status>>
               \/ receiving' = FALSE /\ status' = status
            /\ UNCHANGED <<hsOnly, client_seq, is_h2, requests, outbound, torn, server>>
      BY <2>2, Zenon DEF RecvRecord, GoOn, Return, ReturnError
    <3>2. UNCHANGED <<version, fate, transcript, secret, server_ccs_received, keys, answered>>
      BY <3>1 DEF hsOnly
    <3>3. UNCHANGED <<client_seq, is_h2, requests, outbound, torn, server>>
      BY <3>1
    <3> QED BY <1>2, <2>0, <3>1, <3>2, <3>3
  <2>3. CASE RecvFails
    BY <1>2, <2>0, <2>3 DEF RecvFails, ReturnError
  <2>4. CASE ServerSends
    <3>1. PICK n \in 1..MaxRecord :
            server' = [server EXCEPT !.seq = @ + 1,
                         !.to_send = SubSeq(@, n + 1, Len(@))]
      BY <2>4 DEF ServerSends
    <3>2. \E s, t : server' = [server EXCEPT !.seq = s, !.to_send = t]
      BY <3>1, Zenon
    <3>3. /\ UNCHANGED <<hsOnly, status, hs_buf, client_seq, server_seq>>
          /\ UNCHANGED <<is_h2, receiving, requests, outbound, torn>>
      BY <2>4 DEF ServerSends
    <3>4. UNCHANGED <<version, fate, transcript, secret, server_ccs_received, keys, answered>>
      BY <3>3 DEF hsOnly
    <3> QED BY <1>2, <2>0, <3>2, <3>3, <3>4
  <2>5. CASE ServerPostHandshake
    <3>1. \/ server' = [server EXCEPT !.seq = @ + 1]
          \/ server' = [server EXCEPT !.key = "next", !.seq = 0, !.rekeyed = TRUE]
      BY <2>5 DEF ServerPostHandshake
    <3>2. \/ \E s, t : server' = [server EXCEPT !.seq = s, !.to_send = t]
          \/ \E k, s, b : server' = [server EXCEPT !.key = k, !.seq = s, !.rekeyed = b]
          \/ \E s : server' = [server EXCEPT !.seq = s]
      BY <3>1, Zenon
    <3>3. ASSUME NEW s, server' = [server EXCEPT !.seq = s]
          PROVE  server' = [server EXCEPT !.seq = s, !.to_send = server.to_send]
      BY <1>1, <3>3 DEF StepTypes, ServerFields
    <3>4. /\ UNCHANGED <<hsOnly, status, hs_buf, client_seq, server_seq>>
          /\ UNCHANGED <<is_h2, receiving, requests, outbound, torn>>
      BY <2>5 DEF ServerPostHandshake
    <3>5. UNCHANGED <<version, fate, transcript, secret, server_ccs_received, keys, answered>>
      BY <3>4 DEF hsOnly
    <3>6. \/ \E s, t : server' = [server EXCEPT !.seq = s, !.to_send = t]
          \/ \E k, s, b : server' = [server EXCEPT !.key = k, !.seq = s, !.rekeyed = b]
      BY <3>2, <3>3, Zenon
    <3> QED BY <1>2, <2>0, <3>4, <3>5, <3>6
  <2> QED BY <2>1, <2>2, <2>3, <2>4, <2>5
<1>5. HandInv'
  <2>1. server_seq' \in Nat /\ server_seq' >= server_seq
        /\ (hs_buf' = hs_buf \/ server_seq' > server_seq)
    <3>1. server_seq \in Nat
      BY <1>1 DEF HandTypes
    <3>2. (server_seq' = server_seq /\ hs_buf' = hs_buf) \/ server_seq' = server_seq + 1
      BY <1>4
    <3> QED BY <3>1, <3>2
  <2> QED BY <1>2, <1>4, <2>1, StaysAgreed
<1>6. StepInv'
  <2>1. DOMAIN server' = ServerFields
        /\ server'.up = server.up /\ server'.next = server.next /\ server'.asked = server.asked
    <3>1. DOMAIN server = ServerFields
      BY <1>1 DEF StepTypes
    <3>2. CASE server' = server
      BY <3>1, <3>2
    <3>3. CASE \E s, t : server' = [server EXCEPT !.seq = s, !.to_send = t]
      BY <3>1, <3>3 DEF ServerFields
    <3>4. CASE \E k, s, b : server' = [server EXCEPT !.key = k, !.seq = s, !.rekeyed = b]
      BY <3>1, <3>4 DEF ServerFields
    <3> QED BY <1>4, <3>2, <3>3, <3>4
  <2>2. receiving \in BOOLEAN /\ status \in {"done"}
    BY <1>1, <1>2 DEF StepTypes
  <2>3. receiving' \in BOOLEAN /\ (receiving' = TRUE => status' = "done") /\ ~Beginning'
    BY <1>4, <2>2 DEF Beginning
  <2>4. UNCHANGED <<version, is_h2, requests, outbound, torn, client_seq>>
    BY <1>4
  <2> QED BY <1>3, <2>1, <2>3, <2>4, QuietStep
<1> QED BY <1>5, <1>6

(* Every step of the data.                                                 *)
LEMMA DataInStep ==
  ASSUME HandInv, StepInv, NonceInv, DataStep
  PROVE  HandInv' /\ StepInv'
<1>1. CASE SendRequest
  <2>1. /\ status = "done" /\ Write("request") /\ requests' = requests + 1
        /\ UNCHANGED <<hsOnly, status, hs_buf, server_seq>>
        /\ UNCHANGED <<is_h2, receiving, server>>
    BY <1>1 DEF SendRequest
  <2>2. UNCHANGED <<version, fate, transcript, secret, server_ccs_received, keys, answered>>
    BY <2>1 DEF hsOnly
  <2>3. keys = "data" /\ HandTypes
    BY <2>1 DEF HandInv, Done
  <2>4. StepInv'
    BY <2>1, <2>2, <2>3, WritingInStep
  <2>5. fate' \in Fates /\ server_seq' \in Nat /\ server_seq' >= server_seq
    BY <2>1, <2>2, <2>3 DEF HandTypes
  <2>6. HandInv'
    BY <2>1, <2>2, <2>5, StaysAgreed
  <2> QED BY <2>4, <2>6
<1>2. CASE RecvFrame
  BY <1>2, FrameTaken
<1>3. CASE ServerAnswers
  <2>1. /\ status = "done" /\ UNCHANGED <<hsOnly, status, hs_buf, server_seq>>
    BY <1>3 DEF ServerAnswers
  <2>2. UNCHANGED <<version, fate, transcript, secret, server_ccs_received, keys, answered>>
    BY <2>1 DEF hsOnly
  <2>3. HandTypes
    BY DEF HandInv
  <2>4. fate' \in Fates /\ server_seq' \in Nat /\ server_seq' >= server_seq
    BY <2>1, <2>2, <2>3 DEF HandTypes
  <2>5. HandInv'
    BY <2>1, <2>2, <2>4, StaysAgreed
  <2> QED BY <1>3, <2>5, AnsweringInStep
<1>4. CASE CallRecv \/ RecvRecord \/ RecvFails \/ ServerSends \/ ServerPostHandshake
  BY <1>4, OthersQuiet
<1> QED BY <1>1, <1>2, <1>3, <1>4 DEF DataStep

-----------------------------------------------------------------------------
ConnectionInv == NonceInv /\ HandInv /\ StepInv

(* ConnectionInv is inductive.                                             *)
LEMMA ConnectionInitially == Init => ConnectionInv
<1> SUFFICES ASSUME Init PROVE ConnectionInv
  OBVIOUS
<1>1. NonceInv
  BY NonceInitially
<1>2. HandInv
  BY HandInit DEF Init
<1>3. version \in {"1.2", "1.3"} /\ status = "hello sent"
  BY DEF Init, HsInit
<1>4. Unused
  <2>1. /\ outbound = <<>> /\ requests = 0
        /\ server = [up |-> TRUE, next |-> FirstDataNumber, key |-> "data",
                     seq |-> FirstDataNumber, to_send |-> <<>>, rekeyed |-> FALSE,
                     asked |-> 0]
    BY DEF Init, DataInit
  <2>2. torn = FALSE /\ receiving = FALSE
    BY Zenon DEF Init, DataInit
  <2> QED BY <2>1, <2>2 DEF Unused
<1>5. StepTypes
  <2>1. server = [up |-> TRUE, next |-> FirstDataNumber, key |-> "data",
                  seq |-> FirstDataNumber, to_send |-> <<>>, rekeyed |-> FALSE,
                  asked |-> 0]
    BY DEF Init, DataInit
  <2>2. DOMAIN server = ServerFields
    BY <2>1 DEF ServerFields
  <2>3. FirstDataNumber \in Nat
    BY DEF FirstDataNumber
  <2>4. outbound \in Seq(Outgoing) /\ requests \in Nat /\ server.next \in Nat /\ server.asked \in Nat
    BY <1>4, <2>3 DEF Unused
  <2>5. torn \in BOOLEAN /\ receiving \in BOOLEAN /\ server.up \in BOOLEAN
    BY <1>4, Zenon DEF Unused
  <2> QED BY <2>2, <2>4, <2>5 DEF StepTypes
<1>6. StepInv
  <2>1. receiving = FALSE
    BY <1>4 DEF Unused
  <2> QED BY <1>3, <1>4, <1>5, <2>1 DEF StepInv, Beginning
<1> QED BY <1>1, <1>2, <1>6 DEF ConnectionInv

LEMMA ConnectionStep == ConnectionInv /\ [Next]_vars => ConnectionInv'
<1> SUFFICES ASSUME ConnectionInv, [Next]_vars PROVE ConnectionInv'
  OBVIOUS
<1>1. NonceInv'
  BY NonceStep DEF ConnectionInv
<1>2. CASE HandshakeStep
  BY <1>1, <1>2, HandshakeInStep DEF ConnectionInv
<1>3. CASE DataStep
  BY <1>1, <1>3, DataInStep DEF ConnectionInv
<1>4. CASE UNCHANGED vars
  <2>1. UNCHANGED <<hsVars, dataVars>>
    BY <1>4 DEF vars
  <2>2. UNCHANGED hsVars /\ UNCHANGED dataVars
    BY <2>1
  <2>3. HandInv'
    <3>1. HandInv
      BY DEF ConnectionInv
    <3> QED BY <2>2, <3>1 DEF hsVars, HandInv, HandTypes, HelloSent, Running13, Running12, Before12,
            After12, Done, Queued, Beginning, Agreed, FirstDataNumber
  <2>4. StepInv'
    <3>1. StepInv
      BY DEF ConnectionInv
    <3>2. /\ UNCHANGED <<status, version, client_seq>>
          /\ UNCHANGED <<is_h2, receiving, requests, outbound, torn, server>>
      BY <2>2 DEF hsVars, dataVars
    <3> QED BY <3>1, <3>2 DEF StepInv, StepTypes, Beginning, Unused, Conversing, InStep,
            Counted, Requested, ServerInStep, FirstDataNumber
  <2> QED BY <1>1, <2>3, <2>4 DEF ConnectionInv
<1> QED BY <1>2, <1>3, <1>4 DEF Next

(* A handshake that returns success (tls13_handshake) is one the server    *)
(* completes as well: however its flight is cut into records, each unit of *)
(* it was hashed once and in order, the client's own messages in their     *)
(* place, and nothing of it is left in hs_buf for the frames that are read *)
(* next.                                                                   *)
THEOREM HandshakeAgrees == Spec => []DoneMeansAgreed
<1>1. ConnectionInv => DoneMeansAgreed
  BY Zenon DEF ConnectionInv, HandInv, Done, DoneMeansAgreed
<1> QED BY <1>1, ConnectionInitially, ConnectionStep, PTL DEF Spec

(* The numbers of the records stay in step through the change of keys and  *)
(* the records tls_core_recv writes by itself: only a short write or a     *)
(* second HTTP/2 request makes a server give up.                           *)
THEOREM StaysInStep == Spec => []ServerInStep
<1>1. ConnectionInv => ServerInStep
  BY DEF ConnectionInv, StepInv, StepTypes, Unused, Conversing, ServerInStep
<1> QED BY <1>1, ConnectionInitially, ConnectionStep, PTL DEF Spec

-----------------------------------------------------------------------------
(* The server's stream on its way to the client.                           *)

Later == {"data", "alert", "handshake"}

(* The server's stream t lies behind place q[1] on its way to the client:  *)
(* the records of w carry it piece by piece, and what they do not is still *)
(* to be sent.                                                             *)
Piecewise(w, t, q) ==
  \A i \in 1..Len(w) :
    /\ q[i] <= q[i + 1] /\ w[i].type \in Later
    /\ IF w[i].type = "data" THEN w[i].body = Slice(t, q[i], q[i + 1]) ELSE q[i + 1] = q[i]

OnWay(w, unsent, t, q) ==
  /\ q \in [1..Len(w) + 1 -> 0..Len(t)]
  /\ Piecewise(w, t, q)
  /\ unsent = Slice(t, q[Len(w) + 1], Len(t))

(* The places are in order.                                                *)
LEMMA WayOrder ==
  ASSUME NEW w, NEW unsent, NEW t, NEW q, NEW i
  PROVE  /\ OnWay(w, unsent, t, q) /\ Len(w) \in Nat /\ Len(t) \in Nat /\ i \in 1..Len(w) + 1
         => q[i] <= q[Len(w) + 1] /\ q[i] \in 0..Len(t) /\ q[Len(w) + 1] \in 0..Len(t)
<1> SUFFICES ASSUME OnWay(w, unsent, t, q), Len(w) \in Nat, Len(t) \in Nat,
                    i \in 1..Len(w) + 1
             PROVE  q[i] <= q[Len(w) + 1] /\ q[i] \in 0..Len(t) /\ q[Len(w) + 1] \in 0..Len(t)
  OBVIOUS
<1> DEFINE n == Len(w)
           T == {d \in Nat : d <= n => q[n + 1 - d] <= q[n + 1]}
<1>1. /\ \A k \in 1..n + 1 : q[k] \in 0..Len(t)
      /\ \A k \in 1..n : q[k] <= q[k + 1]
  BY DEF OnWay, Piecewise
<1>2. 0 \in T
  <2>1. n + 1 - 0 = n + 1 /\ n + 1 \in 1..n + 1
    OBVIOUS
  <2>2. q[n + 1] <= q[n + 1]
    BY <1>1, <2>1
  <2> QED BY <2>1, <2>2
<1>3. ASSUME NEW d \in T PROVE d + 1 \in T
  <2> SUFFICES ASSUME d + 1 <= n PROVE q[n + 1 - (d + 1)] <= q[n + 1]
    OBVIOUS
  <2> DEFINE k == n + 1 - (d + 1)
  <2>1. k \in 1..n /\ k + 1 = n + 1 - d /\ d <= n /\ k \in 1..n + 1 /\ k + 1 \in 1..n + 1
        /\ n + 1 \in 1..n + 1
    OBVIOUS
  <2>2. q[k + 1] <= q[n + 1]
    <3>1. q[n + 1 - d] <= q[n + 1]
      BY <2>1
    <3> QED BY <2>1, <3>1
  <2>3. q[k] <= q[k + 1]
    <3> HIDE DEF k
    <3> QED BY <1>1, <2>1
  <2>4. q[k] \in 0..Len(t) /\ q[k + 1] \in 0..Len(t) /\ q[n + 1] \in 0..Len(t)
    <3> HIDE DEF k
    <3> QED BY <1>1, <2>1
  <2> HIDE DEF k
  <2>5. q[k] <= q[n + 1]
    BY <2>2, <2>3, <2>4
  <2> QED BY <2>5 DEF k
<1>4. T = Nat
  <2>1. T \in SUBSET Nat
    OBVIOUS
  <2> HIDE DEF T
  <2> QED BY <1>2, <1>3, <2>1, SetInduction
<1>5. n + 1 - i \in Nat /\ n + 1 - i <= n /\ n + 1 - (n + 1 - i) = i
      /\ n + 1 \in 1..n + 1
  OBVIOUS
<1>6. n + 1 - i \in T
  BY <1>4, <1>5
<1>7. q[i] <= q[n + 1]
  BY <1>5, <1>6
<1> QED BY <1>1, <1>5, <1>7

(* The first record is read.                                               *)
LEMMA WayRead ==
  ASSUME NEW R, NEW w, NEW unsent, NEW t, NEW q
  PROVE  w \in Seq(R) /\ w # <<>> /\ OnWay(w, unsent, t, q) =>
           \E r : OnWay(Tail(w), unsent, t, r) /\ r[1] = q[2]
<1> SUFFICES ASSUME w \in Seq(R), w # <<>>, OnWay(w, unsent, t, q)
             PROVE  \E r : OnWay(Tail(w), unsent, t, r) /\ r[1] = q[2]
  OBVIOUS
<1> DEFINE n == Len(w)
           v == Tail(w)
           r == [i \in 1..n |-> q[i + 1]]
<1>1. n \in Nat \ {0} /\ Len(v) = n - 1 /\ \A i \in 1..n - 1 : v[i] = w[i + 1]
  BY HeadTailProperties
<1> HIDE DEF v
<1>2. \A i \in 1..n : r[i] = q[i + 1] /\ i + 1 \in 1..n + 1
  BY <1>1
<1>3. r \in [1..n -> 0..Len(t)]
  <2>1. \A k \in 1..n + 1 : q[k] \in 0..Len(t)
    BY DEF OnWay
  <2> QED BY <1>1, <2>1
<1> HIDE DEF r
<1>4. Piecewise(v, t, r)
  <2> SUFFICES ASSUME NEW i \in 1..Len(v)
               PROVE  /\ r[i] <= r[i + 1] /\ v[i].type \in Later
                      /\ IF v[i].type = "data" THEN v[i].body = Slice(t, r[i], r[i + 1])
                         ELSE r[i + 1] = r[i]
    BY DEF Piecewise
  <2> DEFINE k == i + 1
  <2>1. i \in 1..n - 1 /\ k \in 1..n /\ i \in 1..n /\ i + 1 \in 1..n /\ k + 1 = (i + 1) + 1
    BY <1>1
  <2>2. v[i] = w[k] /\ r[i] = q[k] /\ r[i + 1] = q[k + 1]
    BY <1>1, <1>2, <2>1
  <2>3. /\ q[k] <= q[k + 1] /\ w[k].type \in Later
        /\ IF w[k].type = "data" THEN w[k].body = Slice(t, q[k], q[k + 1])
           ELSE q[k + 1] = q[k]
    <3> HIDE DEF k
    <3> QED BY <2>1 DEF OnWay, Piecewise
  <2> HIDE DEF k
  <2> QED BY <2>2, <2>3
<1>5. unsent = Slice(t, r[Len(v) + 1], Len(t))
  <2>1. Len(v) + 1 = n /\ n \in 1..n
    BY <1>1
  <2>2. r[Len(v) + 1] = q[n + 1]
    BY <1>2, <2>1
  <2> QED BY <2>2 DEF OnWay
<1>6. r \in [1..Len(v) + 1 -> 0..Len(t)]
  <2>1. Len(v) + 1 = n
    BY <1>1
  <2> QED BY <1>3, <2>1
<1>7. r[1] = q[2]
  <2>1. 1 \in 1..n /\ 1 + 1 = 2
    BY <1>1
  <2> QED BY <1>2, <2>1
<1> QED BY <1>4, <1>5, <1>6, <1>7 DEF OnWay, v

(* A record joins the others, with the next piece or with none of it.      *)
LEMMA WaySent ==
  ASSUME NEW R, NEW S, NEW w, NEW unsent, NEW t, NEW q, NEW x, NEW n
  PROVE  /\ w \in Seq(R) /\ x \in R /\ t \in Seq(S) /\ OnWay(w, unsent, t, q)
         /\ n \in 0..Len(unsent) /\ x.type \in Later
         /\ IF x.type = "data" THEN x.body = SubSeq(unsent, 1, n) ELSE n = 0
         => \E r : OnWay(Append(w, x), SubSeq(unsent, n + 1, Len(unsent)), t, r) /\ r[1] = q[1]
<1> SUFFICES ASSUME w \in Seq(R), x \in R, t \in Seq(S), OnWay(w, unsent, t, q),
                    n \in 0..Len(unsent), x.type \in Later,
                    IF x.type = "data" THEN x.body = SubSeq(unsent, 1, n) ELSE n = 0
             PROVE  \E r : OnWay(Append(w, x), SubSeq(unsent, n + 1, Len(unsent)), t, r)
                           /\ r[1] = q[1]
  OBVIOUS
<1> DEFINE m == Len(w)
           v == Append(w, x)
           a == q[m + 1]
           c == Len(t)
           r == [i \in 1..m + 2 |-> IF i <= m + 1 THEN q[i] ELSE a + n]
<1>1. m \in Nat /\ Len(v) = m + 1 /\ v[m + 1] = x /\ \A i \in 1..m : v[i] = w[i]
  OBVIOUS
<1> HIDE DEF v
<1>2. /\ \A i \in 1..m + 1 : q[i] \in 0..c /\ r[i] = q[i]
      /\ a \in 0..c /\ c \in Nat
      /\ r[m + 2] = a + n /\ unsent = Slice(t, a, c)
  <2>1. \A i \in 1..m + 1 : q[i] \in 0..c
    BY DEF OnWay
  <2>2. unsent = Slice(t, a, c) /\ c \in Nat
    BY DEF OnWay
  <2>3. m + 1 \in 1..m + 1 /\ m + 2 \in 1..m + 2 /\ ~(m + 2 <= m + 1)
        /\ \A i \in 1..m + 1 : i \in 1..m + 2 /\ i <= m + 1
    BY <1>1
  <2> QED BY <2>1, <2>2, <2>3
<1>3. /\ Len(unsent) = c - a /\ a + n \in 0..c /\ n \in 0..c - a
  <2>1. IsSlice(S, t, a, c, Slice(t, a, c))
    <3>1. c \in 0..Len(t) /\ a \in 0..c
      BY <1>2
    <3> HIDE DEF a, c
    <3> QED BY <3>1, SliceIs, Zenon
  <2>2. Len(unsent) = c - a
    BY <1>2, <2>1 DEF IsSlice
  <2> QED BY <1>2, <2>2
<1>4. r \in [1..m + 2 -> 0..c]
  <2>1. \A i \in 1..m + 2 : r[i] \in 0..c
    <3> TAKE i \in 1..m + 2
    <3>1. i \in 1..m + 1 \/ i = m + 2
      BY <1>1
    <3> HIDE DEF r
    <3> QED BY <1>2, <1>3, <3>1
  <2>2. r = [i \in 1..m + 2 |-> r[i]]
    OBVIOUS
  <2> HIDE DEF r, c
  <2> QED BY <2>1, <2>2
<1> HIDE DEF r
<1>5. SubSeq(unsent, 1, n) = Slice(t, a, a + n)
      /\ SubSeq(unsent, n + 1, Len(unsent)) = Slice(t, a + n, c)
  <2>1. Nested(t, a, c, 0, n) /\ Nested(t, a, c, n, c - a)
    <3>1. c \in 0..Len(t) /\ a \in 0..c /\ n \in 0..c - a /\ 0 \in 0..n
          /\ c - a \in 0..c - a /\ n \in 0..c - a
      BY <1>2, <1>3
    <3> HIDE DEF a, c
    <3> QED BY <3>1, NestedParts, Zenon
  <2>2. a + 0 = a /\ a + (c - a) = c /\ 0 + 1 = 1
    BY <1>2
  <2> HIDE DEF a, c
  <2>3. Slice(unsent, 0, n) = Slice(t, a, a + n)
        /\ Slice(unsent, n, c - a) = Slice(t, a + n, c)
    BY <1>2, <2>1, <2>2 DEF Nested
  <2> QED BY <1>3, <2>2, <2>3 DEF Slice
<1>6. Piecewise(v, t, r)
  <2> SUFFICES ASSUME NEW i \in 1..Len(v)
               PROVE  /\ r[i] <= r[i + 1] /\ v[i].type \in Later
                      /\ IF v[i].type = "data" THEN v[i].body = Slice(t, r[i], r[i + 1])
                         ELSE r[i + 1] = r[i]
    BY DEF Piecewise
  <2>1. CASE i \in 1..m
    <3>1. i \in 1..m + 1 /\ i + 1 \in 1..m + 1
      BY <1>1, <2>1
    <3>2. v[i] = w[i] /\ r[i] = q[i] /\ r[i + 1] = q[i + 1]
      BY <1>1, <1>2, <2>1, <3>1
    <3>3. /\ q[i] <= q[i + 1] /\ w[i].type \in Later
          /\ IF w[i].type = "data" THEN w[i].body = Slice(t, q[i], q[i + 1])
             ELSE q[i + 1] = q[i]
      BY <2>1 DEF OnWay, Piecewise
    <3> QED BY <3>2, <3>3
  <2>2. CASE i = m + 1
    <3>1. i \in 1..m + 1 /\ i + 1 = m + 2
      BY <1>1, <2>2
    <3>2. v[i] = x /\ r[i] = a /\ r[i + 1] = a + n
      BY <1>1, <1>2, <2>2, <3>1
    <3>3. a <= a + n /\ (n = 0 => a + n = a)
      BY <1>2, <1>3
    <3> HIDE DEF a
    <3> QED BY <1>5, <3>2, <3>3
  <2>3. i \in 1..m \/ i = m + 1
    BY <1>1
  <2> QED BY <2>1, <2>2, <2>3
<1>7. r \in [1..Len(v) + 1 -> 0..c] /\ r[Len(v) + 1] = a + n
  <2>1. Len(v) + 1 = m + 2
    BY <1>1
  <2> QED BY <1>2, <1>4, <2>1
<1>8. OnWay(v, Slice(t, a + n, c), t, r)
  <2>1. Slice(t, a + n, c) = Slice(t, r[Len(v) + 1], Len(t))
    BY <1>7
  <2> QED BY <1>6, <1>7, <2>1 DEF OnWay
<1>9. r[1] = q[1]
  <2>1. 1 \in 1..m + 1
    BY <1>1
  <2> QED BY <1>2, <2>1
<1> QED BY <1>5, <1>8, <1>9 DEF v

(* More joins what is to be sent.                                          *)
LEMMA WayGrows ==
  ASSUME NEW S, NEW w, NEW unsent, NEW t, NEW q, NEW u
  PROVE  t \in Seq(S) /\ u \in Seq(S) /\ Len(w) \in Nat /\ OnWay(w, unsent, t, q) =>
           OnWay(w, unsent \o u, t \o u, q)
<1> SUFFICES ASSUME t \in Seq(S), u \in Seq(S), Len(w) \in Nat, OnWay(w, unsent, t, q)
             PROVE  OnWay(w, unsent \o u, t \o u, q)
  OBVIOUS
<1> DEFINE m == Len(w)
           s == t \o u
<1>1. \A i \in 1..m + 1 : q[i] \in 0..Len(t)
  BY DEF OnWay
<1>2. ASSUME NEW b \in 0..Len(t), NEW a \in 0..b
      PROVE  s \in Seq(S) /\ Len(s) = Len(t) + Len(u) /\ Extends(t, u, a, b)
  BY ExtendedParts, Zenon
<1>3. s \in Seq(S) /\ Len(s) = Len(t) + Len(u) /\ Len(t) \in Nat /\ Len(u) \in Nat
  OBVIOUS
<1>4. q \in [1..m + 1 -> 0..Len(s)]
  <2>1. q \in [1..m + 1 -> 0..Len(t)]
    BY DEF OnWay
  <2>2. 0..Len(t) \subseteq 0..Len(s)
    BY <1>3
  <2> HIDE DEF s, m
  <2> QED BY <2>1, <2>2
<1>5. Piecewise(w, s, q)
  <2> SUFFICES ASSUME NEW i \in 1..Len(w)
               PROVE  /\ q[i] <= q[i + 1] /\ w[i].type \in Later
                      /\ IF w[i].type = "data" THEN w[i].body = Slice(s, q[i], q[i + 1])
                         ELSE q[i + 1] = q[i]
    BY DEF Piecewise
  <2>1. /\ q[i] <= q[i + 1] /\ w[i].type \in Later
        /\ IF w[i].type = "data" THEN w[i].body = Slice(t, q[i], q[i + 1])
           ELSE q[i + 1] = q[i]
    BY DEF OnWay, Piecewise
  <2>2. i \in 1..m + 1 /\ i + 1 \in 1..m + 1
    OBVIOUS
  <2>3. q[i + 1] \in 0..Len(t) /\ q[i] \in 0..q[i + 1]
    BY <1>1, <2>1, <2>2
  <2>4. Slice(s, q[i], q[i + 1]) = Slice(t, q[i], q[i + 1])
    BY <1>2, <2>3 DEF Extends
  <2> HIDE DEF s
  <2> QED BY <2>1, <2>4
<1>6. unsent \o u = Slice(s, q[m + 1], Len(s))
  <2> DEFINE a == q[m + 1]
  <2>1. unsent = Slice(t, a, Len(t))
    BY DEF OnWay
  <2>2. m + 1 \in 1..m + 1
    OBVIOUS
  <2>3. a \in 0..Len(t) /\ Len(t) \in 0..Len(t)
    BY <1>1, <1>3, <2>2
  <2>4. Slice(s, a, Len(s)) = Slice(t, a, Len(t)) \o u
    <3> HIDE DEF a
    <3> QED BY <1>2, <2>3 DEF Extends
  <2> QED BY <2>1, <2>4
<1> QED BY <1>4, <1>5, <1>6 DEF OnWay

(* What is to be sent is cut off.                                          *)
LEMMA WayCut ==
  ASSUME NEW S, NEW w, NEW unsent, NEW t, NEW q, NEW n
  PROVE  /\ t \in Seq(S) /\ Len(w) \in Nat /\ OnWay(w, unsent, t, q) /\ n \in 0..Len(unsent)
         => /\ q[Len(w) + 1] + n \in 0..Len(t)
            /\ OnWay(w, SubSeq(unsent, 1, n), Slice(t, 0, q[Len(w) + 1] + n), q)
<1> SUFFICES ASSUME t \in Seq(S), Len(w) \in Nat, OnWay(w, unsent, t, q),
                    n \in 0..Len(unsent)
             PROVE  /\ q[Len(w) + 1] + n \in 0..Len(t)
                    /\ OnWay(w, SubSeq(unsent, 1, n), Slice(t, 0, q[Len(w) + 1] + n), q)
  OBVIOUS
<1> DEFINE m == Len(w)
           a == q[m + 1]
           c == Len(t)
           e == a + n
           s == Slice(t, 0, e)
<1>1. \A i \in 1..m + 1 : q[i] \in 0..c /\ q[i] <= a
  <2>1. Len(t) \in Nat
    OBVIOUS
  <2> QED BY <2>1, WayOrder
<1>2. unsent = Slice(t, a, c) /\ a \in 0..c /\ c \in Nat
  <2>1. m + 1 \in 1..m + 1
    OBVIOUS
  <2> QED BY <1>1, <2>1 DEF OnWay
<1>3. Len(unsent) = c - a /\ e \in 0..c /\ n \in 0..c - a /\ n \in Nat
  <2>1. IsSlice(S, t, a, c, Slice(t, a, c))
    <3>1. c \in 0..Len(t) /\ a \in 0..c
      BY <1>2
    <3> HIDE DEF a, c
    <3> QED BY <3>1, SliceIs, Zenon
  <2>2. Len(unsent) = c - a
    BY <1>2, <2>1 DEF IsSlice
  <2> QED BY <1>2, <2>2
<1>4. s \in Seq(S) /\ Len(s) = e
  <2>1. IsSlice(S, t, 0, e, s)
    <3>1. 0 \in 0..e /\ e \in 0..Len(t)
      BY <1>3
    <3> HIDE DEF e, s
    <3> QED BY <3>1, SliceIs, Zenon DEF s
  <2>2. s \in Seq(S) /\ Len(s) = e - 0
    <3> HIDE DEF s, e
    <3> QED BY <2>1 DEF IsSlice
  <2> QED BY <1>3, <2>2
<1>5. ASSUME NEW y \in 0..e, NEW x \in 0..y
      PROVE  Slice(s, x, y) = Slice(t, x, y)
  <2>1. Nested(t, 0, e, x, y)
    <3>1. 0 \in 0..e /\ e \in 0..Len(t) /\ y \in 0..e - 0
      BY <1>3
    <3> HIDE DEF e
    <3> QED BY <3>1, NestedParts, Zenon
  <2>2. 0 + x = x /\ 0 + y = y
    BY <1>3
  <2> HIDE DEF e
  <2> QED BY <2>1, <2>2 DEF Nested
<1>6. SubSeq(unsent, 1, n) = Slice(t, a, e)
  <2>1. Nested(t, a, c, 0, n)
    <3>1. c \in 0..Len(t) /\ a \in 0..c /\ n \in 0..c - a /\ 0 \in 0..n
      BY <1>2, <1>3
    <3> HIDE DEF a, c
    <3> QED BY <3>1, NestedParts, Zenon
  <2>2. a + 0 = a /\ 0 + 1 = 1
    BY <1>2
  <2> HIDE DEF a, c
  <2>3. Slice(unsent, 0, n) = Slice(t, a, e)
    BY <1>2, <2>1, <2>2 DEF Nested, e
  <2> QED BY <2>2, <2>3 DEF Slice
<1> HIDE DEF s
<1>7. Piecewise(w, s, q)
  <2> SUFFICES ASSUME NEW i \in 1..Len(w)
               PROVE  /\ q[i] <= q[i + 1] /\ w[i].type \in Later
                      /\ IF w[i].type = "data" THEN w[i].body = Slice(s, q[i], q[i + 1])
                         ELSE q[i + 1] = q[i]
    BY DEF Piecewise
  <2>1. /\ q[i] <= q[i + 1] /\ w[i].type \in Later
        /\ IF w[i].type = "data" THEN w[i].body = Slice(t, q[i], q[i + 1])
           ELSE q[i + 1] = q[i]
    BY DEF OnWay, Piecewise
  <2>2. i \in 1..m + 1 /\ i + 1 \in 1..m + 1
    OBVIOUS
  <2>3. q[i + 1] \in 0..e /\ q[i] \in 0..q[i + 1]
    <3>1. q[i + 1] \in 0..c /\ q[i] \in 0..c /\ q[i + 1] <= a
      BY <1>1, <2>2
    <3> HIDE DEF a, c
    <3> QED BY <1>2, <1>3, <2>1, <3>1 DEF e
  <2>4. Slice(s, q[i], q[i + 1]) = Slice(t, q[i], q[i + 1])
    BY <1>5, <2>3
  <2> QED BY <2>1, <2>4
<1>8. q \in [1..m + 1 -> 0..Len(s)]
  <2>1. q \in [1..m + 1 -> 0..c]
    BY DEF OnWay
  <2>2. \A i \in 1..m + 1 : q[i] \in 0..Len(s)
    <3> TAKE i \in 1..m + 1
    <3>1. q[i] \in 0..c /\ q[i] <= a
      BY <1>1
    <3> HIDE DEF a, c
    <3> QED BY <1>2, <1>3, <1>4, <3>1 DEF e
  <2> HIDE DEF m, c
  <2> QED BY <2>1, <2>2
<1>9. SubSeq(unsent, 1, n) = Slice(s, q[m + 1], Len(s))
  <2>1. e \in 0..e /\ a \in 0..e
    BY <1>2, <1>3
  <2>2. Slice(s, a, e) = Slice(t, a, e)
    <3> HIDE DEF a, e
    <3> QED BY <1>5, <2>1
  <2> QED BY <1>4, <1>6, <2>2
<1>10. OnWay(w, SubSeq(unsent, 1, n), s, q)
  BY <1>7, <1>8, <1>9 DEF OnWay
<1> QED BY <1>3, <1>10 DEF s

-----------------------------------------------------------------------------
(* The frames of responses.                                                *)

(* A unit of a frame, and the frames of a response.                        *)
Cell == (Kinds \cup {"BODY"}) \X Nat \X Nat \X Nat

IsFrame(f) ==
  /\ f \in Seq(Cell) /\ f # <<>>
  /\ \A i \in 1..Len(f) : f[i][1] = f[1][1] /\ f[i][2] = i /\ f[i][3] = Len(f)

(* What Frame makes.                                                       *)
LEMMA FrameIs ==
  ASSUME NEW kind \in Kinds \cup {"BODY"}, NEW k \in Nat, NEW n \in Nat \ {0}
  PROVE  /\ IsFrame(Frame(kind, k, n)) /\ Frame(kind, k, n) \in Seq(Cell)
         /\ Len(Frame(kind, k, n)) = n /\ Frame(kind, k, n)[1] = <<kind, 1, n, k>>
         /\ Frame(kind, k, n)[1][1] = kind
<1> DEFINE f == Frame(kind, k, n)
<1>1. \A i \in 1..n : <<kind, i, n, k>> \in Cell
  BY DEF Cell
<1>2. f = [i \in 1..n |-> <<kind, i, n, k>>]
  BY DEF Frame
<1>3. f \in Seq(Cell) /\ Len(f) = n /\ \A i \in 1..n : f[i] = <<kind, i, n, k>>
  BY <1>1, <1>2
<1> HIDE DEF f
<1>4. f # <<>> /\ 1 \in 1..n
  BY <1>3
<1>5. \A i \in 1..n : f[i][1] = kind /\ f[i][2] = i /\ f[i][3] = n
  BY <1>3
<1>6. f[1][1] = kind
  BY <1>4, <1>5
<1> QED BY <1>3, <1>4, <1>5, <1>6 DEF IsFrame, f

(* The lesser of two numbers.                                              *)
LEMMA MinOfTwo ==
  ASSUME NEW a \in Int, NEW b \in Int
  PROVE  Min({a, b}) \in {a, b} /\ Min({a, b}) <= a /\ Min({a, b}) <= b
<1>1. \E x \in {a, b} : \A y \in {a, b} : x <= y
  <2>1. CASE a <= b
    BY <2>1
  <2>2. CASE b <= a
    BY <2>2
  <2> QED BY <2>1, <2>2
<1> QED BY <1>1 DEF Min

(* There is something left for every DATA frame of a body.                 *)
LEMMA FramesOfBody ==
  ASSUME NEW n \in Nat \ {0}, NEW k \in 1..((n + MaxFrame - 1) \div MaxFrame)
  PROVE  Min({MaxFrame, n - (k - 1) * MaxFrame}) \in Nat \ {0}
<1> DEFINE m == MaxFrame
           c == (n + m - 1) \div m
<1>1. m \in Nat \ {0}
  BY MaxFrameAssumption
<1>2. c \in Int /\ m * c <= n + m - 1
  <2> HIDE DEF m
  <2> QED BY <1>1
<1>3. k \in Int /\ k <= c
  BY <1>2
<1> HIDE DEF c, m
<1>4. m * k <= m * c
  BY <1>1, <1>2, <1>3
<1>5. (k - 1) * m = m * k - m /\ m * k \in Int /\ m * c \in Int
  BY <1>1, <1>2, <1>3
<1>6. n - (k - 1) * m \in Int /\ n - (k - 1) * m >= 1
  <2> DEFINE x == m * k
             y == m * c
             z == (k - 1) * m
  <2>1. x \in Int /\ y \in Int /\ z = x - m /\ x <= y /\ y <= n + m - 1
    BY <1>2, <1>4, <1>5
  <2> HIDE DEF x, y, z
  <2>2. n - z \in Int /\ n - z >= 1
    BY <1>1, <2>1
  <2> QED BY <2>2 DEF z
<1> DEFINE d == n - (k - 1) * m
<1>7. Min({m, d}) \in {m, d}
  <2>1. m \in Int /\ d \in Int
    BY <1>1, <1>6
  <2> HIDE DEF d
  <2> QED BY <2>1, MinOfTwo
<1> HIDE DEF d
<1>8. Min({m, d}) \in Nat \ {0}
  BY <1>1, <1>6, <1>7 DEF d
<1> QED BY <1>8 DEF m, d

AreFrames(frames, kinds) ==
  /\ frames \in Seq(Seq(Cell))
  /\ \A j \in 1..Len(frames) : IsFrame(frames[j]) /\ frames[j][1][1] \in kinds

(* The DATA frames of a body.                                              *)
LEMMA DataFramesAre ==
  ASSUME NEW n \in Nat \ {0}
  PROVE  AreFrames(DataFrames(n), {"DATA"})
<1> DEFINE c == (n + MaxFrame - 1) \div MaxFrame
           s(k) == 1 + Min({MaxFrame, n - (k - 1) * MaxFrame})
           d == DataFrames(n)
<1>1. c \in Nat
  <2>1. MaxFrame \in Nat \ {0}
    BY MaxFrameAssumption
  <2>2. n + MaxFrame - 1 \in Nat
    BY <2>1
  <2> QED BY <2>1, <2>2
<1>2. d = [k \in 1..c |-> Frame("DATA", k, s(k))]
  BY DEF DataFrames
<1>3. ASSUME NEW k \in 1..c
      PROVE  /\ Frame("DATA", k, s(k)) \in Seq(Cell) /\ IsFrame(Frame("DATA", k, s(k)))
             /\ Frame("DATA", k, s(k))[1][1] = "DATA"
  <2>1. s(k) \in Nat \ {0}
    <3> DEFINE x == Min({MaxFrame, n - (k - 1) * MaxFrame})
    <3>1. x \in Nat \ {0}
      BY FramesOfBody
    <3> HIDE DEF x
    <3>2. 1 + x \in Nat \ {0}
      BY <3>1
    <3> QED BY <3>2 DEF x
  <2>2. k \in Nat /\ "DATA" \in Kinds \cup {"BODY"}
    BY <1>1 DEF Kinds
  <2> HIDE DEF s
  <2> QED BY <2>1, <2>2, FrameIs
<1> HIDE DEF c, s
<1>4. d \in Seq(Seq(Cell)) /\ Len(d) = c
      /\ \A k \in 1..c : d[k] = Frame("DATA", k, s(k))
  BY <1>1, <1>2, <1>3
<1> HIDE DEF d
<1> QED BY <1>3, <1>4 DEF AreFrames, d

(* Frames behind frames.                                                   *)
LEMMA FramesJoin ==
  ASSUME NEW x, NEW y, NEW kinds, AreFrames(x, kinds), AreFrames(y, kinds)
  PROVE  AreFrames(x \o y, kinds) /\ Len(x \o y) = Len(x) + Len(y)
<1> DEFINE w == x \o y
<1>1. /\ x \in Seq(Seq(Cell)) /\ y \in Seq(Seq(Cell))
  BY DEF AreFrames
<1>2. /\ w \in Seq(Seq(Cell)) /\ Len(w) = Len(x) + Len(y)
      /\ \A i \in 1..Len(x) + Len(y) : w[i] = IF i <= Len(x) THEN x[i] ELSE y[i - Len(x)]
      /\ Len(x) \in Nat /\ Len(y) \in Nat
  <2> DEFINE C == Seq(Cell)
  <2>1. x \in Seq(C) /\ y \in Seq(C)
    BY <1>1
  <2> HIDE DEF C
  <2>2. /\ w \in Seq(C) /\ Len(w) = Len(x) + Len(y)
        /\ \A i \in 1..Len(x) + Len(y) : w[i] = IF i <= Len(x) THEN x[i] ELSE y[i - Len(x)]
        /\ Len(x) \in Nat /\ Len(y) \in Nat
    BY <2>1
  <2> QED BY <2>2 DEF C
<1> HIDE DEF w
<1>3. ASSUME NEW i \in 1..Len(w)
      PROVE  IsFrame(w[i]) /\ w[i][1][1] \in kinds
  <2>1. CASE i <= Len(x)
    <3>1. i \in 1..Len(x) /\ w[i] = x[i]
      BY <1>2, <2>1
    <3> QED BY <3>1 DEF AreFrames
  <2>2. CASE ~(i <= Len(x))
    <3>1. i - Len(x) \in 1..Len(y) /\ w[i] = y[i - Len(x)]
      BY <1>2, <2>2
    <3> QED BY <3>1 DEF AreFrames
  <2> QED BY <2>1, <2>2
<1> QED BY <1>2, <1>3 DEF AreFrames, w

(* A sequence of one frame, and frames of fewer kinds.                     *)
LEMMA OneFrame ==
  ASSUME NEW kind \in Kinds \cup {"BODY"}, NEW n \in Nat \ {0}, NEW k \in Nat, NEW kinds, kind \in kinds
  PROVE  AreFrames(<<Frame(kind, k, n)>>, kinds) /\ Len(<<Frame(kind, k, n)>>) = 1
<1> DEFINE f == Frame(kind, k, n)
           s == <<f>>
<1>1. f \in Seq(Cell) /\ IsFrame(f) /\ f[1][1] = kind
  BY FrameIs
<1> HIDE DEF f
<1>2. s \in Seq(Seq(Cell)) /\ Len(s) = 1 /\ s[1] = f
  BY <1>1
<1> HIDE DEF s
<1>3. \A j \in 1..Len(s) : s[j] = f
  BY <1>2
<1> QED BY <1>1, <1>2, <1>3 DEF AreFrames, f, s

Kinds2 == {"HEADERS", "DATA", "SETTINGS", "ACK", "EXT"}

LEMMA WiderKinds ==
  ASSUME NEW x, NEW kinds, NEW more, AreFrames(x, kinds), kinds \subseteq more
  PROVE  AreFrames(x, more)
BY DEF AreFrames

(* What the server answers with.                                           *)
LEMMA ResponsesAre ==
  ASSUME NEW k \in Nat, NEW r \in Responses(k)
  PROVE  /\ is_h2 => AreFrames(r, Kinds2)
         /\ ~is_h2 => AreFrames(r, {"BODY"}) /\ Len(r) = 1
<1>1. CASE is_h2
  <2>1. PICK b \in {<<Frame("ACK", 0, 1)>>, <<Frame("EXT", 0, 1)>>}, n \in BodyLengths :
          r = <<Frame("SETTINGS", 0, 1)>> \o b \o <<Frame("HEADERS", 0, 2)>> \o DataFrames(n)
    <3>1. r \in Http2Responses
      BY <1>1 DEF Responses
    <3>2. r \in {<<Frame("SETTINGS", 0, 1)>> \o between \o <<Frame("HEADERS", 0, 2)>> \o DataFrames(n) :
                  between \in {<<Frame("ACK", 0, 1)>>, <<Frame("EXT", 0, 1)>>},
                  n \in BodyLengths}
      BY <3>1, SMTT(60) DEF Http2Responses
    <3> QED BY <3>2, SMTT(30)
  <2> DEFINE x == <<Frame("SETTINGS", 0, 1)>>
             z == <<Frame("HEADERS", 0, 2)>>
             d == DataFrames(n)
  <2>2. AreFrames(x, Kinds2) /\ AreFrames(z, Kinds2) /\ AreFrames(b, Kinds2)
    <3>1. /\ \A kind \in Kinds2 : kind \in Kinds \cup {"BODY"}
          /\ {"SETTINGS", "ACK", "EXT", "HEADERS"} \subseteq Kinds2
          /\ 0 \in Nat /\ 1 \in Nat \ {0} /\ 2 \in Nat \ {0}
      BY DEF Kinds, Kinds2
    <3>2. AreFrames(x, Kinds2)
      BY <3>1, OneFrame
    <3>3. AreFrames(z, Kinds2)
      BY <3>1, OneFrame
    <3>4. AreFrames(<<Frame("ACK", 0, 1)>>, Kinds2)
      BY <3>1, OneFrame
    <3>5. AreFrames(<<Frame("EXT", 0, 1)>>, Kinds2)
      BY <3>1, OneFrame
    <3> QED BY <3>2, <3>3, <3>4, <3>5
  <2>3. AreFrames(d, Kinds2)
    <3>1. n \in Nat \ {0}
      BY BodyLengthsAssumption
    <3>2. AreFrames(d, {"DATA"}) /\ {"DATA"} \subseteq Kinds2
      BY <3>1, DataFramesAre DEF Kinds2
    <3> HIDE DEF d
    <3> QED BY <3>2, WiderKinds
  <2> HIDE DEF x, z, d
  <2>4. AreFrames(x \o b, Kinds2)
    BY <2>2, FramesJoin
  <2>5. AreFrames((x \o b) \o z, Kinds2)
    BY <2>2, <2>4, FramesJoin
  <2>6. AreFrames(((x \o b) \o z) \o d, Kinds2)
    BY <2>3, <2>5, FramesJoin
  <2> QED BY <1>1, <2>1, <2>6 DEF x, z, d
<1>2. CASE ~is_h2
  <2>1. PICK n \in BodyLengths : r = <<Frame("BODY", k, n)>>
    BY <1>2 DEF Responses
  <2>2. n \in Nat \ {0} /\ "BODY" \in {"BODY"} /\ "BODY" \in Kinds \cup {"BODY"}
    BY BodyLengthsAssumption
  <2>3. AreFrames(<<Frame("BODY", k, n)>>, {"BODY"}) /\ Len(<<Frame("BODY", k, n)>>) = 1
    BY <2>2, OneFrame
  <2> QED BY <1>2, <2>1, <2>3
<1> QED BY <1>1, <1>2

(* What flow control lets through is a front of them, and over HTTP/1.1    *)
(* all of it.                                                              *)
LEMMA NoData ==
  ASSUME NEW frames, Len(frames) = 0 \/ (Len(frames) = 1 /\ frames[1][1][1] # "DATA")
  PROVE  DataLength(frames) = 0
<1> DEFINE n == Len(frames)
           Step(f, j) == IF j = 0 THEN 0
                         ELSE f[j - 1] + (IF frames[j][1][1] = "DATA" THEN Len(frames[j]) - 1 ELSE 0)
           f == [j \in 0..n |-> 0]
           sum == CHOOSE g : g = [j \in 0..n |-> Step(g, j)]
<1>1. n \in {0, 1} /\ \A j \in 0..n : j # 0 => j = 1 /\ frames[j][1][1] # "DATA" /\ j - 1 \in 0..n
  <2>1. n \in {0, 1}
    OBVIOUS
  <2>2. ASSUME NEW j \in 0..n, j # 0 PROVE j = 1 /\ j - 1 \in 0..n /\ n = 1
    <3>1. CASE n = 0
      BY <2>2, <3>1
    <3>2. CASE n = 1
      BY <2>2, <3>2
    <3> HIDE DEF n
    <3> QED BY <2>1, <3>1, <3>2
  <2> QED BY <2>1, <2>2
<1>2. f = [j \in 0..n |-> Step(f, j)]
  <2>1. \A j \in 0..n : Step(f, j) = 0
    BY <1>1
  <2> HIDE DEF Step
  <2> QED BY <2>1
<1>3. sum = [j \in 0..n |-> Step(sum, j)]
  <2> HIDE DEF f, Step
  <2> QED BY <1>2, Zenon
<1> HIDE DEF sum
<1>4. \A j \in 0..n : sum[j] = Step(sum, j)
  <2> HIDE DEF Step
  <2> QED BY <1>3, Zenon
<1>5. sum[0] = 0
  BY <1>1, <1>4
<1>6. sum[n] = 0
  <2>1. n = 1 => sum[1] = sum[0] + 0
    BY <1>1, <1>4
  <2> QED BY <1>1, <1>5, <2>1
<1>7. DataLength(frames) = sum[n]
  BY Zenon DEF DataLength, sum
<1> QED BY <1>6, <1>7

(* What flow control allows is a front of the response.                    *)
LEMMA AllowedFront ==
  ASSUME NEW frames, NEW kinds, AreFrames(frames, kinds)
  PROVE  \E a \in 0..Len(frames) :
           /\ Allowed(frames) = SubSeq(frames, 1, a)
           /\ kinds = {"BODY"} /\ Len(frames) = 1 => Allowed(frames) = frames
<1> DEFINE n == Len(frames)
           fit == {j \in 0..n : DataLength(SubSeq(frames, 1, j)) <= Window}
           C == Seq(Cell)
<1>1. frames \in Seq(C) /\ n \in Nat
  BY DEF AreFrames
<1> HIDE DEF C
<1>2. 0 \in fit
  <2> DEFINE e == SubSeq(frames, 1, 0)
  <2>1. Len(e) = 0
    BY <1>1
  <2> HIDE DEF e
  <2>2. DataLength(e) = 0
    BY <2>1, NoData
  <2> QED BY <1>1, <2>2, MaxFrameAssumption DEF e
<1>3. \E x \in fit : \A y \in fit : x >= y
  <2>1. fit \in SUBSET Nat /\ fit # {} /\ \A y \in fit : y <= n
    BY <1>1, <1>2
  <2> HIDE DEF fit, n
  <2>2. PICK x \in fit : \A y \in fit : y <= x
    BY <1>1, <2>1, GreatestNumber
  <2> QED BY <2>1, <2>2
<1>4. Max(fit) \in fit /\ \A y \in fit : Max(fit) >= y
  <2> HIDE DEF fit
  <2> QED BY <1>3 DEF Max
<1> DEFINE a == Max(fit)
<1>5. a \in 0..n /\ Allowed(frames) = SubSeq(frames, 1, a)
  BY <1>4 DEF Allowed
<1>6. ASSUME kinds = {"BODY"}, n = 1 PROVE Allowed(frames) = frames
  <2>1. SubSeq(frames, 1, 1) = frames
    <3>1. Slice(frames, 0, Len(frames)) = frames
      BY <1>1, WholePart, Zenon
    <3>2. 0 + 1 = 1
      OBVIOUS
    <3> QED BY <1>6, <3>1, <3>2 DEF Slice
  <2>2. DataLength(frames) = 0
    <3>1. 1 \in 1..n /\ frames[1][1][1] \in {"BODY"}
      BY <1>6 DEF AreFrames
    <3>2. frames[1][1][1] # "DATA"
      BY <3>1
    <3> QED BY <1>6, <3>2, NoData
  <2>3. 1 \in fit
    <3>1. 1 \in 0..n /\ 0 <= Window
      BY <1>6, MaxFrameAssumption
    <3>2. DataLength(SubSeq(frames, 1, 1)) <= Window
      BY <2>1, <2>2, <3>1
    <3> QED BY <3>1, <3>2
  <2>4. a = 1
    <3>1. a \in 0..1 /\ a >= 1
      BY <1>4, <1>5, <1>6, <2>3
    <3> QED BY <3>1
  <2> QED BY <1>5, <2>1, <2>4
<1> QED BY <1>5, <1>6

-----------------------------------------------------------------------------
(* Where the client is in the stream.                                      *)

Goaway == Frame("GOAWAY", 0, 1)

OnFrame(frames, p, e, j) == \E l \in j..Len(frames) + 1 : e = p[l]

(* The server's stream t is a front of its frames, and a GOAWAY may end    *)
(* it; the client has handled the frames before the j-th and read up to    *)
(* place x.  A server that has not given up is between two frames.         *)
Lies(frames, p, t, e, j, x, up) ==
  /\ LaidOut(frames, p)
  /\ j \in 1..Len(frames) + 1 /\ e \in 0..Len(FlattenSeq(frames))
  /\ x \in 0..Len(t) /\ p[j] <= x
  /\ \/ t = Slice(FlattenSeq(frames), 0, e)
     \/ /\ t = Slice(FlattenSeq(frames), 0, e) \o Goaway
        /\ up = FALSE /\ OnFrame(frames, p, e, j)
  /\ up = TRUE => OnFrame(frames, p, e, j)

(* The elements of two sequences joined.                                   *)
LEMMA JoinedUp ==
  ASSUME NEW S, NEW u \in Seq(S), NEW v \in Seq(S)
  PROVE  /\ u \o v \in Seq(S) /\ Len(u \o v) = Len(u) + Len(v)
         /\ \A i \in 1..Len(u) + Len(v) : (u \o v)[i] = IF i <= Len(u) THEN u[i] ELSE v[i - Len(u)]
OBVIOUS

(* What is known of the stream then.                                       *)
Streams(frames, p, t, e) ==
  /\ t \in Seq(Cell) /\ e \in Nat /\ Len(t) \in {e, e + 1}
  /\ \A b \in 0..e : \A a \in 0..b : Slice(t, a, b) = Slice(FlattenSeq(frames), a, b)
  /\ Len(t) = e + 1 => t[e + 1] = <<"GOAWAY", 1, 1, 0>>
  /\ FlattenSeq(frames) \in Seq(Cell) /\ Len(FlattenSeq(frames)) \in Nat /\ Len(frames) \in Nat
  /\ p \in [1..Len(frames) + 1 -> 0..Len(FlattenSeq(frames))]
  /\ CutAt(frames, FlattenSeq(frames), p)

(* The stream of a place known to lie in it has these types.               *)
LEMMA Streaming ==
  ASSUME NEW frames, NEW kinds, NEW p, NEW t, NEW e, NEW j, NEW x, NEW up
  PROVE  AreFrames(frames, kinds) /\ Lies(frames, p, t, e, j, x, up) => Streams(frames, p, t, e)
<1> SUFFICES ASSUME AreFrames(frames, kinds), Lies(frames, p, t, e, j, x, up)
             PROVE  Streams(frames, p, t, e)
  OBVIOUS
<1> DEFINE T == FlattenSeq(frames)
           B == Slice(T, 0, e)
<1>1. T \in Seq(Cell)
  <2>1. frames \in Seq(Seq(Cell)) /\ \A k \in 1..Len(frames) : frames[k] # <<>>
    BY DEF AreFrames, IsFrame
  <2> QED BY <2>1, CutOf, Zenon
<1>2. CutAt(frames, T, p) /\ p \in [1..Len(frames) + 1 -> 0..Len(T)] /\ Len(frames) \in Nat
  <2>1. Len(frames) \in Nat
    BY DEF AreFrames
  <2> QED BY <2>1 DEF Lies, LaidOut, CutAt
<1>3. e \in 0..Len(T) /\ Len(T) \in Nat
  BY <1>1 DEF Lies
<1>4. B \in Seq(Cell) /\ Len(B) = e
  <2>1. IsSlice(Cell, T, 0, e, B)
    <3>1. 0 \in 0..e
      BY <1>3
    <3> HIDE DEF T, B
    <3> QED BY <1>1, <1>3, <3>1, SliceIs, Zenon DEF B
  <2>2. B \in Seq(Cell) /\ Len(B) = e - 0
    <3> HIDE DEF B, T
    <3> QED BY <2>1 DEF IsSlice
  <2> QED BY <1>3, <2>2
<1>5. ASSUME NEW b \in 0..e, NEW a \in 0..b
      PROVE  Slice(B, a, b) = Slice(T, a, b)
  <2>1. Nested(T, 0, e, a, b)
    <3>1. 0 \in 0..e /\ b \in 0..e - 0
      BY <1>3
    <3> HIDE DEF T
    <3> QED BY <1>1, <1>3, <3>1, NestedParts, Zenon
  <2>2. 0 + a = a /\ 0 + b = b
    BY <1>3
  <2> HIDE DEF T
  <2> QED BY <2>1, <2>2 DEF Nested, B
<1>6. Goaway \in Seq(Cell) /\ Len(Goaway) = 1 /\ Goaway[1] = <<"GOAWAY", 1, 1, 0>>
  <2>1. "GOAWAY" \in Kinds \cup {"BODY"} /\ 0 \in Nat /\ 1 \in Nat \ {0}
    BY DEF Kinds
  <2> QED BY <2>1, FrameIs, ZenonT(30) DEF Goaway
<1> HIDE DEF B, T
<1>7. CASE t = B
  <2>1. Len(t) # e + 1 /\ e \in Nat
    BY <1>3, <1>4, <1>7
  <2> QED BY <1>1, <1>2, <1>3, <1>4, <1>5, <1>7, <2>1 DEF Streams, T
<1>8. CASE t = B \o Goaway
  <2>1. /\ t \in Seq(Cell) /\ Len(t) = e + 1 /\ e \in Nat
        /\ \A i \in 1..Len(B) + Len(Goaway) : t[i] = IF i <= Len(B) THEN B[i] ELSE Goaway[i - Len(B)]
    <3> DEFINE G == Goaway
    <3>1. G \in Seq(Cell) /\ Len(G) = 1 /\ t = B \o G /\ B \in Seq(Cell) /\ Len(B) = e /\ e \in Nat
      BY <1>3, <1>4, <1>6, <1>8
    <3> HIDE DEF G
    <3>2. /\ t \in Seq(Cell) /\ Len(t) = Len(B) + Len(G)
          /\ \A i \in 1..Len(B) + Len(G) : t[i] = IF i <= Len(B) THEN B[i] ELSE G[i - Len(B)]
      BY <3>1, JoinedUp
    <3> QED BY <3>1, <3>2 DEF G
  <2>2. t[e + 1] = <<"GOAWAY", 1, 1, 0>>
    <3>1. e + 1 \in 1..Len(B) + Len(Goaway) /\ ~(e + 1 <= Len(B)) /\ e + 1 - Len(B) = 1
      BY <1>4, <1>6, <2>1
    <3>2. t[e + 1] = Goaway[e + 1 - Len(B)]
      BY <2>1, <3>1
    <3> QED BY <1>6, <3>1, <3>2
  <2>3. ASSUME NEW b \in 0..e, NEW a \in 0..b
        PROVE  Slice(t, a, b) = Slice(T, a, b)
    <3>1. Extends(B, Goaway, a, b)
      BY <1>4, <1>6, ExtendedParts, Zenon
    <3> QED BY <1>5, <1>8, <3>1 DEF Extends
  <2> QED BY <1>1, <1>2, <1>3, <2>1, <2>2, <2>3 DEF Streams, T
<1> QED BY <1>7, <1>8 DEF Lies, B, T

(* The client has read further.                                            *)
LEMMA LiesFurther ==
  ASSUME NEW frames, NEW p, NEW t, NEW e, NEW j, NEW x, NEW up, NEW y
  PROVE  /\ Lies(frames, p, t, e, j, x, up) /\ y \in 0..Len(t) /\ x <= y
         /\ p[j] \in Nat /\ x \in Nat
         => Lies(frames, p, t, e, j, y, up)
<1> SUFFICES ASSUME Lies(frames, p, t, e, j, x, up), y \in 0..Len(t), x <= y, p[j] \in Nat, x \in Nat
             PROVE  Lies(frames, p, t, e, j, y, up)
  OBVIOUS
<1>1. p[j] <= y
  <2>1. p[j] <= x /\ y \in Int
    BY DEF Lies
  <2> QED BY <2>1
<1> QED BY <1>1 DEF Lies

(* A whole frame is at the front of the queue, or a GOAWAY is.             *)
AtFront(frames, p, t, e, j, x, up, buf) ==
  /\ j \in 1..Len(frames)
  /\ buf[1] = frames[j][1]
  /\ Len(frames[j]) \in Nat \ {0}
  /\ Len(frames[j]) <= Len(buf) =>
       /\ Lies(frames, p, t, e, j + 1, x, up)
       /\ SubSeq(buf, 1, Len(frames[j])) = frames[j]
       /\ SubSeq(buf, Len(frames[j]) + 1, Len(buf)) = Slice(t, p[j + 1], x)

(* The queue begins with the header of the next frame, or with the GOAWAY. *)
LEMMA FrontOfQueue ==
  ASSUME NEW frames, NEW kinds, NEW p, NEW t, NEW e, NEW j, NEW x, NEW up, NEW buf
  PROVE  /\ AreFrames(frames, kinds) /\ Lies(frames, p, t, e, j, x, up)
         /\ buf = Slice(t, p[j], x) /\ buf # <<>>
         => \/ AtFront(frames, p, t, e, j, x, up, buf)
            \/ buf[1] = <<"GOAWAY", 1, 1, 0>>
<1> SUFFICES ASSUME AreFrames(frames, kinds), Lies(frames, p, t, e, j, x, up),
                    buf = Slice(t, p[j], x), buf # <<>>
             PROVE  \/ AtFront(frames, p, t, e, j, x, up, buf)
                    \/ buf[1] = <<"GOAWAY", 1, 1, 0>>
  OBVIOUS
<1> DEFINE T == FlattenSeq(frames)
           n == Len(frames)
<1>1. Streams(frames, p, t, e)
  BY Streaming, Zenon
<1>2. /\ t \in Seq(Cell) /\ e \in Nat /\ Len(t) \in {e, e + 1}
      /\ \A b \in 0..e : \A a \in 0..b : Slice(t, a, b) = Slice(T, a, b)
      /\ Len(t) = e + 1 => t[e + 1] = <<"GOAWAY", 1, 1, 0>>
      /\ T \in Seq(Cell) /\ Len(T) \in Nat /\ n \in Nat
      /\ p \in [1..n + 1 -> 0..Len(T)] /\ CutAt(frames, T, p)
  BY <1>1 DEF Streams
<1>3. /\ j \in 1..n + 1 /\ x \in 0..Len(t) /\ p[j] <= x /\ e \in 0..Len(T)
      /\ LaidOut(frames, p) /\ p[j] \in Nat /\ p[j] \in 0..Len(T)
  BY <1>2, SMTT(30) DEF Lies
<1>4. /\ Len(buf) = x - p[j] /\ buf \in Seq(Cell) /\ Len(buf) > 0
      /\ \A i \in 1..x - p[j] : buf[i] = t[p[j] + i]
  <2> DEFINE a == p[j]
  <2>1. IsSlice(Cell, t, a, x, Slice(t, a, x))
    <3>1. x \in 0..Len(t) /\ a \in 0..x
      BY <1>3
    <3> HIDE DEF a
    <3> QED BY <1>2, <3>1, SliceIs, Zenon
  <2>2. IsSlice(Cell, t, a, x, buf)
    BY <2>1
  <2> HIDE DEF a
  <2>3. buf \in Seq(Cell) /\ Len(buf) = x - a /\ \A i \in 1..x - a : buf[i] = t[a + i]
    BY <2>2 DEF IsSlice
  <2>4. Len(buf) > 0
    BY <2>3, EmptySeq
  <2> QED BY <2>3, <2>4 DEF a
<1>5. CASE p[j] = e
  <2>1. x = e + 1 /\ Len(t) = e + 1
    BY <1>2, <1>3, <1>4, <1>5
  <2>2. buf[1] = t[e + 1]
    BY <1>3, <1>4, <1>5
  <2> QED BY <1>2, <2>1, <2>2
<1>6. ASSUME p[j] > e PROVE FALSE
  <2>1. Len(t) = e + 1 /\ x = e + 1 /\ p[j] = e + 1
    BY <1>2, <1>3, <1>6
  <2> QED BY <1>3, <1>4, <2>1
<1>7. CASE p[j] < e
  <2>1. j # n + 1
    <3>1. p[n + 1] = Len(T)
      BY <1>3 DEF LaidOut
    <3> QED BY <1>2, <1>3, <1>7, <3>1
  <2>2. j \in 1..n /\ j + 1 \in 1..n + 1 /\ j + 1 \in Nat
    BY <1>2, <1>3, <2>1
  <2>3. p[j] < p[j + 1] /\ frames[j] = Slice(T, p[j], p[j + 1]) /\ p[j + 1] \in 0..Len(T)
    BY <1>2, <2>2 DEF CutAt, Slice
  <2> DEFINE a == p[j]
             c == p[j + 1]
             f == frames[j]
  <2>4. IsSlice(Cell, T, a, c, f)
    <3>1. c \in 0..Len(T) /\ a \in 0..c
      BY <1>3, <2>3
    <3>2. f = Slice(T, a, c)
      BY <2>3
    <3>3. IsSlice(Cell, T, a, c, Slice(T, a, c))
      <4> HIDE DEF T, a, c, f
      <4> QED BY <1>2, <3>1, SliceIs, Zenon
    <3> HIDE DEF T, a, c, f
    <3> QED BY <3>2, <3>3
  <2>5. Len(f) = c - a /\ f[1] = T[a + 1] /\ f \in Seq(Cell)
    <3>1. 1 \in 1..c - a
      BY <1>3, <2>3
    <3> HIDE DEF a, c, f
    <3> QED BY <2>4, <3>1 DEF IsSlice
  <2>6. t[a + 1] = T[a + 1]
    <3>1. Slice(t, 0, e) = Slice(T, 0, e)
      BY <1>2
    <3>2. IsSlice(Cell, t, 0, e, Slice(t, 0, e)) /\ IsSlice(Cell, T, 0, e, Slice(T, 0, e))
      <4>1. e \in 0..Len(t) /\ e \in 0..Len(T) /\ 0 \in 0..e
        BY <1>2, <1>3
      <4> HIDE DEF T
      <4> QED BY <1>2, <4>1, SliceIs, Zenon
    <3>3. a + 1 \in 1..e - 0 /\ 0 + (a + 1) = a + 1
      BY <1>2, <1>3, <1>7
    <3> HIDE DEF T, a
    <3>4. Slice(t, 0, e)[a + 1] = t[a + 1] /\ Slice(T, 0, e)[a + 1] = T[a + 1]
      BY <3>2, <3>3 DEF IsSlice
    <3> QED BY <3>1, <3>4
  <2>7. buf[1] = f[1]
    <3>1. 1 \in 1..x - a
      BY <1>3, <1>4
    <3> QED BY <1>4, <2>5, <2>6, <3>1
  <2>8. ASSUME Len(f) <= Len(buf)
        PROVE  /\ Lies(frames, p, t, e, j + 1, x, up)
               /\ SubSeq(buf, 1, Len(f)) = f
               /\ SubSeq(buf, Len(f) + 1, Len(buf)) = Slice(t, c, x)
    <3>1. c <= x
      BY <1>3, <1>4, <2>3, <2>5, <2>8, SMTT(30)
    <3>2. c <= e
      <4>1. CASE Len(t) = e
        BY <1>2, <1>3, <2>3, <3>1, <4>1
      <4>2. CASE Len(t) = e + 1
        <5>1. OnFrame(frames, p, e, j)
          <6>1. t # Slice(T, 0, e)
            <7>1. IsSlice(Cell, T, 0, e, Slice(T, 0, e))
              <8>1. e \in 0..Len(T) /\ 0 \in 0..e
                BY <1>2, <1>3
              <8> HIDE DEF T
              <8> QED BY <1>2, <8>1, SliceIs, Zenon
            <7>2. Len(Slice(T, 0, e)) = e - 0
              <8> HIDE DEF T
              <8> QED BY <7>1 DEF IsSlice
            <7> QED BY <1>2, <4>2, <7>2
          <6> QED BY <6>1 DEF Lies
        <5>2. PICK l \in j..n + 1 : e = p[l]
          BY <5>1 DEF OnFrame
        <5>3. l # j
          BY <1>3, <1>7, <5>2
        <5>4. j + 1 \in 1..l /\ l \in 1..n + 1
          BY <1>2, <2>2, <5>3
        <5>5. p[j + 1] <= p[l]
          <6> HIDE DEF T
          <6> QED BY <1>2, <5>4, CutOrder
        <5> QED BY <5>2, <5>5
      <4> QED BY <1>2, <4>1, <4>2
    <3>3. /\ Nested(t, a, x, 0, c - a) /\ Nested(t, a, x, c - a, x - a)
      <4>1. /\ x \in 0..Len(t) /\ a \in 0..x
            /\ c - a \in 0..x - a /\ 0 \in 0..c - a /\ x - a \in 0..x - a
        BY <1>3, <2>3, <3>1
      <4> HIDE DEF a, c
      <4> QED BY <1>2, <4>1, NestedParts, Zenon
    <3>4. a + 0 = a /\ a + (c - a) = c /\ a + (x - a) = x /\ 0 + 1 = 1
          /\ Len(buf) = x - a /\ Len(f) = c - a
      <4>1. a \in Nat /\ c \in Nat /\ x \in Nat
        BY <1>3, <2>3
      <4>2. Len(buf) = x - a /\ Len(f) = c - a
        BY <1>4, <2>5
      <4> HIDE DEF a, c, f
      <4> QED BY <4>1, <4>2
    <3>5. Slice(t, a, c) = f
      <4>1. c \in 0..e /\ a \in 0..c
        BY <1>2, <1>3, <2>3, <3>2
      <4>2. f = Slice(T, a, c)
        BY <2>3
      <4> HIDE DEF T, a, c, f
      <4> QED BY <1>2, <4>1, <4>2
    <3>6. buf = Slice(t, a, x)
      OBVIOUS
    <3> HIDE DEF a, c, f
    <3>7. Slice(buf, 0, c - a) = f /\ Slice(buf, c - a, x - a) = Slice(t, c, x)
      BY <3>3, <3>4, <3>5, <3>6 DEF Nested
    <3>8. Lies(frames, p, t, e, j + 1, x, up)
      <4>1. ASSUME OnFrame(frames, p, e, j) PROVE OnFrame(frames, p, e, j + 1)
        <5>1. PICK l \in j..n + 1 : e = p[l]
          BY <4>1 DEF OnFrame
        <5>2. l # j
          BY <1>3, <1>7, <5>1
        <5>3. l \in j + 1..n + 1
          BY <1>3, <5>2
        <5> QED BY <5>1, <5>3 DEF OnFrame
      <4>2. j + 1 \in 1..n + 1 /\ p[j + 1] <= x
        BY <2>2, <3>1 DEF c
      <4> HIDE DEF T, n
      <4> QED BY <4>1, <4>2 DEF Lies, n
    <3> QED BY <3>4, <3>7, <3>8 DEF Slice
  <2>9. Len(f) \in Nat \ {0}
    <3>1. c - a \in Nat \ {0}
      BY <1>3, <2>3
    <3> QED BY <2>5, <3>1
  <2> QED BY <2>2, <2>7, <2>8, <2>9 DEF AtFront
<1>8. p[j] = e \/ p[j] > e \/ p[j] < e
  BY <1>2, <1>3
<1> QED BY <1>5, <1>6, <1>7, <1>8

(* What the server has not sent by place y is dropped, as it is when an    *)
(* alert follows.                                                          *)
LEMMA LiesCut ==
  ASSUME NEW frames, NEW kinds, NEW p, NEW t, NEW e, NEW j, NEW x, NEW y
  PROVE  /\ AreFrames(frames, kinds) /\ Lies(frames, p, t, e, j, x, TRUE)
         /\ y \in 0..Len(t) /\ x <= y
         => Lies(frames, p, Slice(t, 0, y), y, j, x, FALSE)
<1> SUFFICES ASSUME AreFrames(frames, kinds), Lies(frames, p, t, e, j, x, TRUE),
                    y \in 0..Len(t), x <= y
             PROVE  Lies(frames, p, Slice(t, 0, y), y, j, x, FALSE)
  OBVIOUS
<1> DEFINE T == FlattenSeq(frames)
           c == Slice(t, 0, y)
<1>1. Streams(frames, p, t, e)
  BY Streaming, Zenon
<1>2. /\ t \in Seq(Cell) /\ e \in Nat
      /\ \A b \in 0..e : \A a \in 0..b : Slice(t, a, b) = Slice(T, a, b)
      /\ T \in Seq(Cell) /\ Len(T) \in Nat
  BY <1>1 DEF Streams
<1>3. e \in 0..Len(T) /\ x \in 0..Len(t) /\ p[j] <= x /\ t = Slice(T, 0, e)
      /\ LaidOut(frames, p) /\ j \in 1..Len(frames) + 1
  BY DEF Lies
<1>4. Len(t) = e
  <2>1. IsSlice(Cell, T, 0, e, Slice(T, 0, e))
    <3>1. 0 \in 0..e
      BY <1>2
    <3> HIDE DEF T
    <3> QED BY <1>2, <1>3, <3>1, SliceIs, Zenon
  <2>2. Len(t) = e - 0
    <3> HIDE DEF T
    <3> QED BY <1>3, <2>1 DEF IsSlice
  <2> QED BY <1>2, <2>2
<1>5. c = Slice(T, 0, y)
  <2>1. y \in 0..e /\ 0 \in 0..y
    BY <1>4
  <2> HIDE DEF T
  <2> QED BY <1>2, <2>1
<1>6. y \in 0..Len(T) /\ x \in 0..y /\ Len(c) = y
  <2>1. y \in 0..Len(T) /\ x \in 0..y /\ 0 \in 0..y
    BY <1>2, <1>3, <1>4
  <2>2. IsSlice(Cell, t, 0, y, Slice(t, 0, y))
    BY <1>2, <2>1, SliceIs, Zenon
  <2>3. Len(c) = y - 0
    BY <2>2 DEF IsSlice
  <2> QED BY <2>1, <2>3
<1> HIDE DEF c, T
<1>7. x \in 0..Len(c) /\ FALSE # TRUE
  BY <1>6
<1> QED BY <1>3, <1>5, <1>6, <1>7 DEF Lies, c, T

(* The rest of the frame the server is in, and a GOAWAY.                   *)
Rest(q) ==
  IF \E u \in Foremost(q) : ~HasHeader(u) THEN SubSeq(q, 1, q[1][3] - q[1][2] + 1) ELSE <<>>

Finishes(frames, p, t, j, x, y, q) ==
  \E n \in 0..Len(q) :
    /\ Rest(q) = SubSeq(q, 1, n) /\ y + n \in 0..Len(t)
    /\ Lies(frames, p, Slice(t, 0, y + n) \o Goaway, y + n, j, x, FALSE)

(* What a server that goes away still sends ends with a frame.             *)
LEMMA LiesFinished ==
  ASSUME NEW frames, NEW kinds, NEW p, NEW t, NEW e, NEW j, NEW x, NEW y, NEW q
  PROVE  /\ AreFrames(frames, kinds) /\ Lies(frames, p, t, e, j, x, TRUE)
         /\ y \in 0..Len(t) /\ x <= y /\ q = Slice(t, y, Len(t))
         => Finishes(frames, p, t, j, x, y, q)
<1> SUFFICES ASSUME AreFrames(frames, kinds), Lies(frames, p, t, e, j, x, TRUE),
                    y \in 0..Len(t), x <= y, q = Slice(t, y, Len(t))
             PROVE  Finishes(frames, p, t, j, x, y, q)
  OBVIOUS
<1> DEFINE T == FlattenSeq(frames)
           m == Len(frames)
<1>1. Streams(frames, p, t, e)
  BY Streaming, Zenon
<1>2. /\ t \in Seq(Cell) /\ e \in Nat
      /\ \A b \in 0..e : \A a \in 0..b : Slice(t, a, b) = Slice(T, a, b)
      /\ T \in Seq(Cell) /\ Len(T) \in Nat /\ m \in Nat
      /\ p \in [1..m + 1 -> 0..Len(T)] /\ CutAt(frames, T, p)
  BY <1>1 DEF Streams
<1>3. e \in 0..Len(T) /\ x \in 0..Len(t) /\ p[j] <= x /\ t = Slice(T, 0, e)
      /\ LaidOut(frames, p) /\ j \in 1..m + 1 /\ OnFrame(frames, p, e, j)
  BY DEF Lies
<1>4. Len(t) = e /\ \A i \in 1..e : t[i] = T[i]
  <2>1. IsSlice(Cell, T, 0, e, Slice(T, 0, e))
    <3>1. 0 \in 0..e
      BY <1>2
    <3> HIDE DEF T
    <3> QED BY <1>2, <1>3, <3>1, SliceIs, Zenon
  <2>2. Len(t) = e - 0 /\ \A i \in 1..e - 0 : t[i] = T[0 + i]
    <3> HIDE DEF T
    <3> QED BY <1>3, <2>1 DEF IsSlice
  <2> QED BY <1>2, <2>2
<1>5. Len(q) = e - y /\ \A i \in 1..e - y : q[i] = t[y + i]
  <2>1. IsSlice(Cell, t, y, e, Slice(t, y, e))
    <3>1. e \in 0..Len(t) /\ y \in 0..e
      BY <1>2, <1>4
    <3> QED BY <1>2, <3>1, SliceIs, Zenon
  <2>2. q = Slice(t, y, e)
    BY <1>4
  <2> QED BY <2>1, <2>2 DEF IsSlice
<1>6. PICK l \in j..m + 1 : e = p[l]
  BY <1>3 DEF OnFrame
<1>7. l \in 1..m + 1 /\ l \in Nat /\ y \in 0..e /\ y \in Nat /\ x \in Nat /\ x <= y
  BY <1>2, <1>3, <1>4
(* The cut the server makes is between two frames.                         *)
<1>8. ASSUME NEW n \in 0..Len(q), NEW k \in 1..m + 1, y + n = p[k],
             Rest(q) = SubSeq(q, 1, n)
      PROVE  Finishes(frames, p, t, j, x, y, q)
  <2> DEFINE z == y + n
             s == Slice(t, 0, z)
  <2>1. z \in 0..e /\ z \in 0..Len(T) /\ z \in 0..Len(t) /\ z \in Nat
    BY <1>2, <1>3, <1>4, <1>5, <1>7
  <2>2. s = Slice(T, 0, z)
    <3>1. 0 \in 0..z
      BY <2>1
    <3> HIDE DEF T, z
    <3> QED BY <1>2, <2>1, <3>1
  <2>3. s \in Seq(Cell) /\ Len(s) = z
    <3>1. 0 \in 0..z
      BY <2>1
    <3>2. IsSlice(Cell, t, 0, z, s)
      <4> HIDE DEF z
      <4> QED BY <1>2, <2>1, <3>1, SliceIs, Zenon DEF s
    <3>3. s \in Seq(Cell) /\ Len(s) = z - 0
      <4> HIDE DEF z, s
      <4> QED BY <3>2 DEF IsSlice
    <3> QED BY <2>1, <3>3
  <2>4. Len(s \o Goaway) = z + 1
    <3>1. Goaway \in Seq(Cell) /\ Len(Goaway) = 1
      <4>1. "GOAWAY" \in Kinds \cup {"BODY"} /\ 0 \in Nat /\ 1 \in Nat \ {0}
        BY DEF Kinds
      <4> QED BY <4>1, FrameIs, ZenonT(30) DEF Goaway
    <3> HIDE DEF s, z
    <3>2. Len(s \o Goaway) = Len(s) + Len(Goaway)
      BY <2>3, <3>1, JoinedUp
    <3> QED BY <2>3, <3>1, <3>2
  <2>5. j <= k
    <3> SUFFICES ASSUME k < j PROVE FALSE
      BY <1>3, <1>2
    <3>1. k \in 1..j
      BY <1>2, <1>3
    <3>2. p[k] < p[j] /\ p[k] \in 0..Len(T) /\ p[j] \in 0..Len(T)
      <4> HIDE DEF T
      <4> QED BY <1>2, <1>3, <3>1, CutOrder
    <3> QED BY <1>3, <1>7, <1>8, <3>2
  <2>6. OnFrame(frames, p, z, j)
    <3>1. k \in j..m + 1
      BY <1>2, <1>3, <2>5
    <3> QED BY <1>8, <3>1 DEF OnFrame
  <2>7. x \in 0..Len(s \o Goaway)
    <3>1. x \in 0..z + 1
      BY <1>7, <1>8, <2>1
    <3> HIDE DEF z, s
    <3> QED BY <2>4, <3>1
  <2> HIDE DEF z, s
  <2>8. Lies(frames, p, s \o Goaway, z, j, x, FALSE)
    BY <1>3, <2>1, <2>2, <2>6, <2>7 DEF Lies
  <2> QED BY <1>8, <2>1, <2>8 DEF Finishes, s, z
<1>9. CASE y = e
  <2>1. 0 \in 0..Len(q) /\ y + 0 = p[l] /\ Len(q) = 0
    BY <1>5, <1>6, <1>7, <1>9
  <2>2. Rest(q) = <<>>
    BY <2>1 DEF Rest, Foremost
  <2>3. SubSeq(q, 1, 0) = <<>>
    OBVIOUS
  <2> QED BY <1>7, <1>8, <2>1, <2>2, <2>3
<1>10. CASE y < e
  <2>1. y < p[m + 1]
    <3>1. p[m + 1] = Len(T)
      BY <1>3 DEF LaidOut
    <3> QED BY <1>2, <1>3, <1>7, <1>10, <3>1
  <2>2. PICK f \in 1..m : p[f] <= y /\ y < p[f + 1]
    <3>1. p[1] <= y
      BY <1>3, <1>7 DEF LaidOut
    <3> HIDE DEF T
    <3> QED BY <1>2, <1>7, <2>1, <3>1, CutPlace
  <2> DEFINE a == p[f]
             c == p[f + 1]
             i == y + 1 - a
  <2>3. /\ f \in 1..m + 1 /\ f + 1 \in 1..m + 1
        /\ a \in 0..Len(T) /\ c \in 0..Len(T) /\ a \in Nat /\ c \in Nat
        /\ i \in 1..c - a /\ a + i = y + 1
    <3>1. f \in 1..m + 1 /\ f + 1 \in 1..m + 1
      BY <1>2
    <3>2. a \in 0..Len(T) /\ c \in 0..Len(T)
      BY <1>2, <3>1
    <3> QED BY <1>2, <1>7, <2>2, <3>1, <3>2
  <2>4. c <= e
    <3>1. f < l
      <4> SUFFICES ASSUME l <= f PROVE FALSE
        BY <1>7
      <4>1. l \in 1..f
        BY <1>7
      <4>2. p[l] <= p[f]
        <5> HIDE DEF T
        <5> QED BY <1>2, <2>3, <4>1, CutOrder
      <4>3. e <= a /\ a <= y
        BY <1>6, <2>2, <4>2
      <4>4. y \in Nat /\ e \in Nat /\ a \in Nat
        BY <1>2, <1>7, <2>3
      <4> HIDE DEF a
      <4> QED BY <1>10, <4>3, <4>4
    <3>2. f + 1 \in 1..l
      BY <1>7, <3>1
    <3>3. p[f + 1] <= p[l]
      <4> HIDE DEF T
      <4> QED BY <1>2, <1>7, <3>2, CutOrder
    <3> QED BY <1>6, <3>3
  <2>5. frames[f][i] = q[1] /\ Len(frames[f]) = c - a
    <3>1. IsSlice(Cell, T, a, c, Slice(T, a, c))
      <4>1. c \in 0..Len(T) /\ a \in 0..c
        BY <2>2, <2>3, SMTT(30)
      <4> HIDE DEF T, a, c
      <4> QED BY <1>2, <4>1, SliceIs, Zenon
    <3>2. frames[f] = Slice(T, a, c)
      BY <1>2, <2>2 DEF CutAt, Slice
    <3>3. frames[f][i] = T[a + i] /\ Len(frames[f]) = c - a
      <4> HIDE DEF T, a, c, i
      <4> QED BY <2>3, <3>1, <3>2 DEF IsSlice
    <3>4. q[1] = t[y + 1] /\ t[y + 1] = T[y + 1]
      <4>1. 1 \in 1..e - y /\ y + 1 \in 1..e
        BY <1>2, <1>7, <1>10
      <4> QED BY <1>4, <1>5, <4>1
    <3> HIDE DEF T, a, c, i
    <3> QED BY <2>3, <3>3, <3>4
  <2>6. q[1][2] = i /\ q[1][3] = c - a
    <3>1. IsFrame(frames[f])
      BY DEF AreFrames
    <3> HIDE DEF i, a, c
    <3> QED BY <2>3, <2>5, <3>1, SMTT(30) DEF IsFrame
  <2>7. Foremost(q) = {q[1]}
    <3>1. DOMAIN q = 1..Len(q) /\ 1 \in 1..Len(q)
      <4>1. Len(q) = e - y /\ 1 \in 1..e - y
        BY <1>2, <1>5, <1>7, <1>10
      <4>2. q \in Seq(Cell)
        <5>1. IsSlice(Cell, t, y, e, Slice(t, y, e))
          <6>1. e \in 0..Len(t) /\ y \in 0..e
            BY <1>2, <1>4
          <6> QED BY <1>2, <6>1, SliceIs, Zenon
        <5>2. q = Slice(t, y, e)
          BY <1>4
        <5> QED BY <5>1, <5>2 DEF IsSlice
      <4> QED BY <4>1, <4>2
    <3> QED BY <3>1 DEF Foremost
  <2>8. CASE i = 1
    <3>1. HasHeader(q[1])
      BY <2>6, <2>8 DEF HasHeader
    <3>2. Rest(q) = <<>> /\ SubSeq(q, 1, 0) = <<>>
      BY <2>7, <3>1 DEF Rest
    <3>3. 0 \in 0..Len(q) /\ y + 0 = p[f]
      <4>1. y \in Nat /\ a \in Nat /\ e - y \in Nat /\ Len(q) = e - y
        BY <1>2, <1>5, <1>7, <2>3
      <4>2. y + 1 - a = 1
        BY <2>8
      <4> HIDE DEF a
      <4>3. 0 \in 0..Len(q) /\ y + 0 = a
        BY <4>1, <4>2
      <4> QED BY <4>3 DEF a
    <3> QED BY <1>8, <2>3, <3>2, <3>3
  <2>9. CASE i # 1
    <3>1. ~HasHeader(q[1])
      BY <2>6, <2>9 DEF HasHeader
    <3> DEFINE n == q[1][3] - q[1][2] + 1
    <3>2. Rest(q) = SubSeq(q, 1, n)
      BY <2>7, <3>1 DEF Rest
    <3>3. n = c - y
      <4>1. n = (c - a) - i + 1 /\ a + i = y + 1
        BY <2>3, <2>6
      <4>2. a \in Nat /\ c \in Nat /\ y \in Nat /\ i \in Int
        BY <1>7, <2>3
      <4> HIDE DEF n, a, c, i
      <4> QED BY <4>1, <4>2
    <3>4. n \in 0..Len(q) /\ y + n = p[f + 1]
      <4>1. a \in Nat /\ c \in Nat /\ y \in Nat /\ e \in Nat /\ y < c /\ c <= e
            /\ Len(q) = e - y
        BY <1>2, <1>5, <1>7, <2>2, <2>3, <2>4
      <4> HIDE DEF n, a, c
      <4>2. n \in 0..Len(q) /\ y + n = c
        BY <3>3, <4>1
      <4> QED BY <4>2 DEF c
    <3> HIDE DEF n
    <3> QED BY <1>8, <2>3, <3>2, <3>4
  <2> QED BY <2>8, <2>9
<1>11. y = e \/ y < e
  BY <1>2, <1>7
<1> QED BY <1>9, <1>10, <1>11

-----------------------------------------------------------------------------
(* What the caller is given.                                               *)

(* A response that begins with nothing before it.                          *)
LEMMA LiesAnswered ==
  ASSUME NEW frames, NEW kinds
  PROVE  AreFrames(frames, kinds) =>
           /\ FlattenSeq(Allowed(frames)) \in Seq(Cell)
           /\ \E p, e : /\ Lies(frames, p, FlattenSeq(Allowed(frames)), e, 1, 0, TRUE)
                        /\ p[1] = 0
<1> SUFFICES ASSUME AreFrames(frames, kinds)
             PROVE  /\ FlattenSeq(Allowed(frames)) \in Seq(Cell)
                    /\ \E p, e : /\ Lies(frames, p, FlattenSeq(Allowed(frames)), e, 1, 0, TRUE)
                                 /\ p[1] = 0
  OBVIOUS
<1> DEFINE T == FlattenSeq(frames)
           n == Len(frames)
<1>1. T \in Seq(Cell) /\ \E p : LaidOut(frames, p)
  <2>1. frames \in Seq(Seq(Cell)) /\ \A k \in 1..Len(frames) : frames[k] # <<>>
    BY DEF AreFrames, IsFrame
  <2> QED BY <2>1, CutOf, Zenon
<1>2. PICK p : LaidOut(frames, p)
  BY <1>1
<1>3. PICK a \in 0..n : Allowed(frames) = SubSeq(frames, 1, a)
  BY AllowedFront
<1>4. n \in Nat /\ Len(T) \in Nat
  BY <1>1 DEF AreFrames
<1>5. /\ CutAt(frames, T, p) /\ p[1] = 0
      /\ \A k \in 0..n : FrontOf(frames, k) = Slice(T, 0, p[k + 1])
  BY <1>2, Zenon DEF LaidOut
<1> DEFINE u == FlattenSeq(Allowed(frames))
           e == p[a + 1]
<1>6. u = Slice(T, 0, e)
  <2>1. u = FrontOf(frames, a)
    BY <1>3 DEF FrontOf
  <2> HIDE DEF u, T
  <2> QED BY <1>5, <2>1
<1>7. a + 1 \in 1..n + 1 /\ e \in 0..Len(T)
  <2>1. a + 1 \in 1..n + 1
    BY <1>4
  <2> QED BY <1>5, <2>1 DEF CutAt
<1>8. u \in Seq(Cell) /\ Len(u) \in Nat
  <2>1. IsSlice(Cell, T, 0, e, Slice(T, 0, e))
    <3>1. 0 \in 0..e
      BY <1>7
    <3> HIDE DEF T, e
    <3> QED BY <1>1, <1>7, <3>1, SliceIs, Zenon
  <2>2. u \in Seq(Cell)
    <3> HIDE DEF T, e, u
    <3> QED BY <1>6, <2>1 DEF IsSlice
  <2> HIDE DEF u
  <2> QED BY <2>2
<1>9. OnFrame(frames, p, e, 1)
  BY <1>7 DEF OnFrame
<1>10. 1 \in 1..n + 1 /\ 0 \in 0..Len(u) /\ p[1] <= 0
  BY <1>4, <1>5, <1>8
<1> HIDE DEF u, e, T
<1>11. Lies(frames, p, u, e, 1, 0, TRUE)
  BY <1>2, <1>6, <1>7, <1>9, <1>10 DEF Lies, T
<1> QED BY <1>5, <1>8, <1>11 DEF u

(* What the caller gets of a frame.                                        *)
Payload(f, c) ==
  IF f[1][1] \in {"HEADERS", "DATA"} THEN SubSeq(f, 2, Min({Len(f), 1 + c})) ELSE <<>>

(* A payload, and the same one taken from the queue.                       *)
LEMMA PayloadIs ==
  ASSUME NEW f \in Seq(Cell), f # <<>>, NEW c \in Nat
  PROVE  Payload(f, c) \in Seq(Cell)
<1> DEFINE m == Min({Len(f), 1 + c})
<1>1. Len(f) \in Nat \ {0}
  BY EmptySeq
<1>2. m \in 1..Len(f)
  <2>1. m \in {Len(f), 1 + c} /\ m <= Len(f) /\ m <= 1 + c
    <3>1. Len(f) \in Int /\ 1 + c \in Int
      BY <1>1
    <3> QED BY <3>1, MinOfTwo
  <2> HIDE DEF m
  <2> QED BY <1>1, <2>1
<1> HIDE DEF m
<1>3. SubSeq(f, 2, m) \in Seq(Cell)
  BY <1>1, <1>2
<1>4. <<>> \in Seq(Cell)
  OBVIOUS
<1>5. SubSeq(f, 2, Min({Len(f), 1 + c})) \in Seq(Cell)
  BY <1>3 DEF m
<1> QED BY <1>4, <1>5, Zenon DEF Payload

(* It can be taken from the queue the frame is at the front of.            *)
LEMMA PayloadQueued ==
  ASSUME NEW f, NEW c \in Nat, NEW buf \in Seq(Cell),
         Len(f) \in Nat \ {0}, Len(f) <= Len(buf), SubSeq(buf, 1, Len(f)) = f
  PROVE  SubSeq(buf, 2, Min({Len(f), 1 + c})) = SubSeq(f, 2, Min({Len(f), 1 + c}))
<1> DEFINE n == Len(f)
           m == Min({n, 1 + c})
<1>1. m \in 1..n /\ n \in 0..Len(buf) /\ 1 \in 1..m /\ m \in 0..n - 0 /\ 0 \in 0..n /\ 1 \in 0..m
  <2>1. m \in {n, 1 + c} /\ m <= n /\ m <= 1 + c
    <3>1. n \in Int /\ 1 + c \in Int
      OBVIOUS
    <3> HIDE DEF n
    <3> QED BY <3>1, MinOfTwo
  <2> HIDE DEF m
  <2> QED BY <2>1
<1> HIDE DEF m
<1>2. Nested(buf, 0, n, 1, m)
  <2> HIDE DEF n
  <2> QED BY <1>1, NestedParts, Zenon
<1>3. 0 + 1 = 1 /\ 0 + m = m /\ 1 + 1 = 2
  BY <1>1
<1>4. Slice(buf, 0, n) = f
  BY <1>3 DEF Slice
<1> HIDE DEF n
<1>5. Slice(f, 1, m) = Slice(buf, 1, m)
  BY <1>2, <1>3, <1>4 DEF Nested
<1> QED BY <1>3, <1>5 DEF Slice, m, n

(* A part up to a place is a prefix.                                       *)
LEMMA FrontIsPrefix ==
  ASSUME NEW S, NEW s, NEW b
  PROVE  s \in Seq(S) /\ b \in 0..Len(s) => IsPrefix(Slice(s, 0, b), s)
<1> SUFFICES ASSUME s \in Seq(S), b \in 0..Len(s) PROVE IsPrefix(Slice(s, 0, b), s)
  OBVIOUS
<1> DEFINE t == Slice(s, 0, b)
<1>1. IsSlice(S, s, 0, b, t)
  <2>1. 0 \in 0..b
    OBVIOUS
  <2> QED BY <2>1, SliceIs, Zenon
<1>2. t \in Seq(S) /\ Len(t) = b
  <2>1. t \in Seq(S) /\ Len(t) = b - 0
    <3> HIDE DEF t
    <3> QED BY <1>1 DEF IsSlice
  <2> HIDE DEF t
  <2> QED BY <2>1
<1>3. Slice(t, 0, Len(t)) = t
  <2> HIDE DEF t
  <2> QED BY <1>2, WholePart, Zenon
<1>4. 0 + 1 = 1
  OBVIOUS
<1>5. SubSeq(t, 1, Len(t)) = t /\ SubSeq(s, 1, Len(t)) = t
  <2>1. SubSeq(s, 1, b) = t
    BY <1>4 DEF Slice
  <2> HIDE DEF t
  <2> QED BY <1>2, <1>3, <1>4, <2>1 DEF Slice
<1> HIDE DEF t
<1>6. IsPrefix(t, s)
  BY <1>2, <1>5 DEF IsPrefix
<1> QED BY <1>6 DEF t

-----------------------------------------------------------------------------
(* The invariant of the data.                                              *)

(* What a server sends once the handshake is over.                         *)
Notices == {Alert, Message("NewSessionTicket", 1), Message("KeyUpdate", 1)}

Passing ==
  [type : {"data"}, key : {"data", "next"}, seq : Nat, body : Seq(Cell)]
    \cup [type : {"alert", "handshake"}, key : {"data", "next"}, seq : Nat, body : Notices]

StreamTypes ==
  /\ is_h2 \in BOOLEAN /\ caller_len \in CallerLengths
  /\ requests \in 0..MaxRequests
  /\ AreFrames(response, IF is_h2 THEN Kinds2 ELSE {"BODY"})
  /\ server.asked = 0 => response = <<>>
  /\ server.to_send \in Seq(Cell)
  /\ server.key \in {"data", "next"} /\ server.seq \in Nat
  /\ Len(hs_buf) <= HsBufSize
  /\ status = "done" => wire \in Seq(Passing) /\ hs_buf \in Seq(Cell)

Silence == response = <<>> /\ delivered = <<>> /\ server.to_send = <<>>

Text == FlattenSeq(response)
Taken == [j \in DOMAIN response |-> Payload(response[j], caller_len)]

(* Over HTTP/1.1 the caller has what was read.                             *)
Raw(t, q) ==
  \E e \in 0..Len(Text) :
    /\ t = Slice(Text, 0, e)
    /\ server.up = TRUE => e = Len(Text)
    /\ delivered = Slice(t, 0, q[1])

(* Over HTTP/2 it has the payloads of the frames handled, and what was     *)
(* read since is in the queue.                                             *)
Framed(t, q) ==
  \E p, e, j :
    /\ Lies(response, p, t, e, j, q[1], server.up)
    /\ hs_buf = Slice(t, p[j], q[1])
    /\ delivered = FrontOf(Taken, j - 1)

OnTheWay ==
  \E t, q :
    /\ t \in Seq(Cell) /\ OnWay(wire, server.to_send, t, q)
    /\ is_h2 = TRUE => Framed(t, q)
    /\ is_h2 = FALSE => Raw(t, q)

StreamInv ==
  /\ StreamTypes /\ DeliveredInOrder
  /\ Beginning => Silence
  /\ status = "done" => HasExtension \/ OnTheWay

-----------------------------------------------------------------------------
(* What the caller should get, by the version of HTTP.                     *)
LEMMA ExpectedIs ==
  /\ is_h2 = TRUE => Expected = FlattenSeq(Taken)
  /\ is_h2 = FALSE /\ response \in Seq(Seq(Cell)) => Expected = Text
<1> DEFINE X == [j \in DOMAIN response |->
                   IF ~is_h2 THEN response[j]
                   ELSE IF response[j][1][1] \in {"HEADERS", "DATA"}
                   THEN SubSeq(response[j], 2, Min({Len(response[j]), 1 + caller_len}))
                   ELSE <<>>]
<1>1. Expected = FlattenSeq(X)
  BY DEF Expected
<1>2. ASSUME is_h2 = TRUE PROVE X = Taken
  BY <1>2 DEF Taken, Payload
<1>3. ASSUME is_h2 = FALSE, response \in Seq(Seq(Cell)) PROVE X = response
  <2>1. X = [j \in DOMAIN response |-> response[j]]
    BY <1>3
  <2>2. response = [j \in DOMAIN response |-> response[j]]
    <3> DEFINE C == Seq(Cell)
    <3>1. response \in Seq(C)
      BY <1>3
    <3> HIDE DEF C
    <3> QED BY <3>1
  <2> QED BY <2>1, <2>2
<1> HIDE DEF X
<1> QED BY <1>1, <1>2, <1>3 DEF Text

LEMMA CallerLength == caller_len \in CallerLengths => caller_len \in Nat
  BY CallerLengthsAssumption

(* The payloads, one for each frame.                                       *)
LEMMA TakenIs ==
  ASSUME NEW kinds
  PROVE  AreFrames(response, kinds) /\ caller_len \in Nat =>
           Taken \in Seq(Seq(Cell)) /\ Len(Taken) = Len(response)
<1> SUFFICES ASSUME AreFrames(response, kinds), caller_len \in Nat
             PROVE  Taken \in Seq(Seq(Cell)) /\ Len(Taken) = Len(response)
  OBVIOUS
<1> DEFINE n == Len(response)
           C == Seq(Cell)
<1>1. n \in Nat /\ DOMAIN response = 1..n /\ response \in Seq(C)
  BY DEF AreFrames
<1>2. \A j \in 1..n : Payload(response[j], caller_len) \in C
  <2> TAKE j \in 1..n
  <2>1. response[j] \in Seq(Cell) /\ response[j] # <<>>
    BY DEF AreFrames, IsFrame
  <2> QED BY <2>1, PayloadIs
<1>3. Taken = [j \in 1..n |-> Payload(response[j], caller_len)]
  BY <1>1 DEF Taken
<1> HIDE DEF C, n
<1>4. Taken \in Seq(C) /\ Len(Taken) = n
  BY <1>1, <1>2, <1>3
<1> QED BY <1>4 DEF C, n

(* What is on the way is in order, and so is what has been delivered.      *)
LEMMA InOrderOf ==
  ASSUME StreamTypes, OnTheWay, status = "done"
  PROVE  DeliveredInOrder
<1>1. PICK t, q : /\ t \in Seq(Cell) /\ OnWay(wire, server.to_send, t, q)
                  /\ is_h2 = TRUE => Framed(t, q)
                  /\ is_h2 = FALSE => Raw(t, q)
  BY DEF OnTheWay
<1>2. is_h2 \in BOOLEAN /\ AreFrames(response, IF is_h2 THEN Kinds2 ELSE {"BODY"})
      /\ caller_len \in Nat
  BY CallerLength DEF StreamTypes
<1>3. response \in Seq(Seq(Cell)) /\ Text \in Seq(Cell)
  <2>1. response \in Seq(Seq(Cell)) /\ \A k \in 1..Len(response) : response[k] # <<>>
    BY <1>2 DEF AreFrames, IsFrame
  <2> QED BY <2>1, CutOf, Zenon DEF Text
<1>4. CASE is_h2 = TRUE
  <2>1. PICK p, e, j : /\ Lies(response, p, t, e, j, q[1], server.up)
                       /\ delivered = FrontOf(Taken, j - 1)
    BY <1>1, <1>4 DEF Framed
  <2> DEFINE k == j - 1
             m == Len(Taken)
  <2>2. Taken \in Seq(Seq(Cell)) /\ m = Len(response)
    BY <1>2, TakenIs
  <2>3. m \in 0..m /\ k \in 0..m
    <3>1. j \in 1..m + 1
      BY <2>1, <2>2 DEF Lies
    <3>2. m \in Nat
      BY <2>2
    <3> QED BY <3>1, <3>2
  <2> HIDE DEF k, m
  <2>4. IsFront(Taken, k, m) /\ Fronts(Cell, Taken)
    <3>1. m \in 0..Len(Taken)
      BY <2>3 DEF m
    <3> QED BY <2>2, <2>3, <3>1, FrontsGrow, FrontsOf, Zenon
  <2> DEFINE x == FrontOf(Taken, k)
             y == FrontOf(Taken, m)
  <2>5. Len(x) \in 0..Len(y) /\ Slice(y, 0, Len(x)) = x
    BY <2>4 DEF IsFront
  <2>6. y \in Seq(Cell) /\ y = FlattenSeq(Taken)
    BY <2>3, <2>4 DEF Fronts, m
  <2> HIDE DEF x, y
  <2>7. IsPrefix(x, y)
    BY <2>5, <2>6, FrontIsPrefix
  <2>8. delivered = x /\ Expected = y
    BY <1>4, <2>1, <2>6, ExpectedIs DEF x, k
  <2> QED BY <2>7, <2>8 DEF DeliveredInOrder
<1>5. CASE is_h2 = FALSE
  <2>1. PICK e \in 0..Len(Text) : t = Slice(Text, 0, e) /\ delivered = Slice(t, 0, q[1])
    BY <1>1, <1>5 DEF Raw
  <2>2. q[1] \in 0..e
    <3>1. IsSlice(Cell, Text, 0, e, Slice(Text, 0, e))
      <4>1. 0 \in 0..e
        BY <1>3
      <4> QED BY <1>3, <4>1, SliceIs, Zenon
    <3>2. Len(t) = e
      BY <1>3, <2>1, <3>1 DEF IsSlice
    <3>3. q[1] \in 0..Len(t)
      <4>1. Len(wire) \in Nat /\ 1 \in 1..Len(wire) + 1
        BY DEF StreamTypes
      <4> QED BY <1>1, <4>1 DEF OnWay
    <3> QED BY <3>2, <3>3
  <2>3. delivered = Slice(Text, 0, q[1]) /\ q[1] \in 0..Len(Text)
    <3>1. Nested(Text, 0, e, 0, q[1])
      <4>1. 0 \in 0..e /\ q[1] \in 0..e - 0 /\ 0 \in 0..q[1]
        BY <1>3, <2>2
      <4> QED BY <1>3, <2>1, <4>1, NestedParts, Zenon
    <3>2. 0 + 0 = 0 /\ 0 + q[1] = q[1] /\ q[1] \in 0..Len(Text)
      BY <1>3, <2>1, <2>2
    <3> QED BY <2>1, <3>1, <3>2 DEF Nested
  <2>4. IsPrefix(delivered, Text)
    BY <1>3, <2>3, FrontIsPrefix
  <2> QED BY <1>3, <1>5, <2>4, ExpectedIs DEF DeliveredInOrder
<1> QED BY <1>2, <1>4, <1>5

(* How a step of the data keeps the invariant.                             *)
LEMMA StreamKept ==
  ASSUME StreamInv, StreamTypes', status = "done", status' \in {"done", "closed"},
         HasExtension => HasExtension',
         ~HasExtension /\ OnTheWay /\ status' = "done" => HasExtension' \/ OnTheWay',
         status' = "closed" => UNCHANGED <<is_h2, caller_len, response, delivered>>
  PROVE  StreamInv'
<1>1. HasExtension \/ OnTheWay
  BY DEF StreamInv
<1>2. status' = "done" => HasExtension' \/ OnTheWay'
  BY <1>1
<1>3. ~(Beginning')
  BY DEF Beginning
<1>4. DeliveredInOrder'
  <2>1. CASE HasExtension'
    BY <2>1 DEF DeliveredInOrder
  <2>2. CASE status' = "done" /\ OnTheWay'
    <3>1. (StreamTypes /\ OnTheWay /\ status = "done" => DeliveredInOrder)'
      BY InOrderOf, PTL
    <3> QED BY <2>2, <3>1
  <2>3. CASE status' = "closed"
    <3>1. DeliveredInOrder
      BY DEF StreamInv
    <3> QED BY <2>3, <3>1 DEF DeliveredInOrder, Expected, HasExtension
  <2> QED BY <1>2, <2>1, <2>2, <2>3
<1> QED BY <1>2, <1>3, <1>4 DEF StreamInv

(* Whatever is not touched stays.                                          *)
LEMMA StaysOnTheWay ==
  ASSUME OnTheWay, UNCHANGED <<wire, hs_buf, is_h2, caller_len, response, delivered>>,
         server'.to_send = server.to_send, server'.up = server.up
  PROVE  OnTheWay'
<1>1. PICK t, q : /\ t \in Seq(Cell) /\ OnWay(wire, server.to_send, t, q)
                  /\ is_h2 = TRUE => Framed(t, q)
                  /\ is_h2 = FALSE => Raw(t, q)
  BY DEF OnTheWay
<1>2. OnWay(wire', server'.to_send, t, q)
  BY <1>1
<1>3. is_h2' = TRUE => Framed(t, q)'
  BY <1>1 DEF Framed, Taken
<1>4. is_h2' = FALSE => Raw(t, q)'
  BY <1>1 DEF Raw, Text
<1> QED BY <1>1, <1>2, <1>3, <1>4 DEF OnTheWay

-----------------------------------------------------------------------------
(* Records.                                                                *)

(* The places of what is on the way.                                       *)
LEMMA Places ==
  ASSUME NEW t, NEW q, t \in Seq(Cell), wire \in Seq(Passing),
         OnWay(wire, server.to_send, t, q)
  PROVE  /\ Len(wire) \in Nat /\ Len(t) \in Nat
         /\ \A i \in 1..Len(wire) + 1 : q[i] \in 0..Len(t) /\ q[i] <= q[Len(wire) + 1]
         /\ q[1] \in 0..Len(t) /\ q[1] <= q[Len(wire) + 1] /\ q[Len(wire) + 1] \in 0..Len(t)
<1>1. Len(wire) \in Nat /\ Len(t) \in Nat
  OBVIOUS
<1>2. 1 \in 1..Len(wire) + 1 /\ Len(wire) + 1 \in 1..Len(wire) + 1
  BY <1>1
<1>3. \A i \in 1..Len(wire) + 1 : q[i] \in 0..Len(t) /\ q[i] <= q[Len(wire) + 1]
  BY <1>1, WayOrder
<1> QED BY <1>1, <1>2, <1>3

(* What the client knows of a frame's place is a number.                   *)
LEMMA Handled ==
  ASSUME NEW frames, NEW kinds, NEW p, NEW t, NEW e, NEW j, NEW x, NEW up
  PROVE  AreFrames(frames, kinds) /\ Lies(frames, p, t, e, j, x, up) => p[j] \in Nat
<1> SUFFICES ASSUME AreFrames(frames, kinds), Lies(frames, p, t, e, j, x, up)
             PROVE  p[j] \in Nat
  OBVIOUS
<1>1. Streams(frames, p, t, e)
  BY Streaming, Zenon
<1>2. p \in [1..Len(frames) + 1 -> 0..Len(FlattenSeq(frames))] /\ j \in 1..Len(frames) + 1
      /\ Len(FlattenSeq(frames)) \in Nat
  BY <1>1 DEF Streams, Lies
<1> QED BY <1>2

(* The record read carries on where the one before it ended.               *)
LEMMA ReadOnTheWay ==
  ASSUME StreamTypes, status = "done", ~HasExtension, OnTheWay, wire # <<>>,
         wire' = Tail(wire), UNCHANGED <<is_h2, caller_len, server, response>>,
         \/ /\ wire[1].type # "data" /\ UNCHANGED <<hs_buf, delivered>>
         \/ /\ wire[1].type = "data" /\ is_h2 = FALSE
            /\ delivered' = delivered \o wire[1].body
         \/ /\ wire[1].type = "data" /\ is_h2 = TRUE
            /\ delivered' = delivered /\ hs_buf' = hs_buf \o wire[1].body
  PROVE  OnTheWay'
<1>1. PICK t, q : /\ t \in Seq(Cell) /\ OnWay(wire, server.to_send, t, q)
                  /\ is_h2 = TRUE => Framed(t, q)
                  /\ is_h2 = FALSE => Raw(t, q)
  BY DEF OnTheWay
<1>2. wire \in Seq(Passing) /\ is_h2 \in BOOLEAN
      /\ AreFrames(response, IF is_h2 THEN Kinds2 ELSE {"BODY"})
  BY DEF StreamTypes
<1>3. PICK r : OnWay(Tail(wire), server.to_send, t, r) /\ r[1] = q[2]
  BY <1>1, <1>2, WayRead
<1>4. /\ Len(wire) \in Nat /\ Len(t) \in Nat
      /\ \A i \in 1..Len(wire) + 1 : q[i] \in 0..Len(t) /\ q[i] <= q[Len(wire) + 1]
      /\ q[1] \in 0..Len(t)
  BY <1>1, <1>2, Places
<1>5. 1 \in 1..Len(wire) /\ 2 \in 1..Len(wire) + 1 /\ 1 + 1 = 2
  <2>1. Len(wire) # 0
    BY <1>2, EmptySeq
  <2> QED BY <1>4, <2>1
<1>6. /\ q[1] <= q[2] /\ q[2] \in 0..Len(t)
      /\ wire[1].type = "data" => wire[1].body = Slice(t, q[1], q[2])
      /\ wire[1].type # "data" => q[2] = q[1]
  <2>1. /\ q[1] <= q[1 + 1]
        /\ IF wire[1].type = "data" THEN wire[1].body = Slice(t, q[1], q[1 + 1])
           ELSE q[1 + 1] = q[1]
    BY <1>1, <1>5 DEF OnWay, Piecewise
  <2> QED BY <1>4, <1>5, <2>1
<1>7. ASSUME NEW a, a \in 0..q[1]
      PROVE  Slice(t, a, q[1]) \o Slice(t, q[1], q[2]) = Slice(t, a, q[2])
  <2> DEFINE b == q[1]
             c == q[2]
  <2>1. c \in 0..Len(t) /\ b \in 0..c /\ a \in 0..b
    BY <1>4, <1>6, <1>7
  <2> HIDE DEF b, c
  <2>2. Joins(t, a, b, c)
    BY <1>1, <2>1, JoinedParts, Zenon
  <2> QED BY <2>2 DEF Joins, b, c
<1>8. ASSUME is_h2 = TRUE PROVE Framed(t, r)'
  <2>1. PICK p, e, j : /\ Lies(response, p, t, e, j, q[1], server.up)
                       /\ hs_buf = Slice(t, p[j], q[1])
                       /\ delivered = FrontOf(Taken, j - 1)
    BY <1>1, <1>8 DEF Framed
  <2>2. p[j] \in Nat /\ p[j] <= q[1]
    <3>1. p[j] \in Nat
      BY <1>2, <2>1, Handled
    <3> QED BY <2>1, <3>1 DEF Lies
  <2>3. Lies(response, p, t, e, j, r[1], server.up)
    <3>1. q[1] \in Nat
      BY <1>4
    <3> QED BY <1>3, <1>6, <2>1, <2>2, <3>1, LiesFurther
  <2>4. hs_buf' = Slice(t, p[j], r[1])
    <3>1. CASE wire[1].type # "data"
      BY <1>3, <1>6, <2>1, <3>1
    <3>2. CASE wire[1].type = "data"
      <4>1. hs_buf' = hs_buf \o wire[1].body
        BY <1>8, <3>2
      <4>2. hs_buf' = Slice(t, p[j], q[1]) \o Slice(t, q[1], q[2])
        BY <1>6, <2>1, <3>2, <4>1
      <4>3. p[j] \in 0..q[1]
        BY <1>4, <2>2
      <4> QED BY <1>3, <1>7, <4>2, <4>3
    <3> QED BY <3>1, <3>2
  <2>5. delivered' = FrontOf(Taken, j - 1)
    BY <1>8, <2>1
  <2> QED BY <2>3, <2>4, <2>5 DEF Framed, Taken
<1>9. ASSUME is_h2 = FALSE PROVE Raw(t, r)'
  <2>1. PICK e \in 0..Len(Text) :
          /\ t = Slice(Text, 0, e)
          /\ server.up = TRUE => e = Len(Text)
          /\ delivered = Slice(t, 0, q[1])
    BY <1>1, <1>9 DEF Raw
  <2>2. delivered' = Slice(t, 0, r[1])
    <3>1. CASE wire[1].type # "data"
      BY <1>3, <1>6, <2>1, <3>1
    <3>2. CASE wire[1].type = "data"
      <4>1. delivered' = delivered \o wire[1].body
        BY <1>9, <3>2
      <4>2. delivered' = Slice(t, 0, q[1]) \o Slice(t, q[1], q[2])
        BY <1>6, <2>1, <3>2, <4>1
      <4>3. 0 \in 0..q[1]
        BY <1>4
      <4> QED BY <1>3, <1>7, <4>2, <4>3
    <3> QED BY <3>1, <3>2
  <2> QED BY <2>1, <2>2 DEF Raw, Text
<1> QED BY <1>1, <1>3, <1>8, <1>9 DEF OnTheWay

(* The next record, of any kind.                                           *)
LEMMA RecordReceived ==
  ASSUME StreamInv, RecvRecord, status = "done"
  PROVE  StreamInv'
<1>1. PICK r \in NextRecord :
        /\ wire' = Tail(wire)
        /\ IF Refused(r)
           THEN ReturnError /\ UNCHANGED hs_buf
           ELSE IF r.type = "handshake" THEN GoOn /\ UNCHANGED hs_buf
           ELSE IF ~is_h2 THEN Return(r.body) /\ UNCHANGED hs_buf
           ELSE IF Fits(r.body) THEN GoOn /\ hs_buf' = hs_buf \o r.body
           ELSE ReturnError /\ UNCHANGED hs_buf
        /\ UNCHANGED <<is_h2, caller_len, requests, server, response>>
  BY Zenon DEF RecvRecord, Read
<1>2. StreamTypes /\ wire \in Seq(Passing) /\ hs_buf \in Seq(Cell) /\ is_h2 \in BOOLEAN
  BY DEF StreamInv, StreamTypes
<1>3. wire # <<>> /\ r = wire[1] /\ r \in Passing /\ Tail(wire) \in Seq(Passing)
  <2> HIDE DEF NextRecord
  <2> QED BY <1>1, <1>2, HeadOf
<1>4. \/ ReturnError /\ UNCHANGED hs_buf
      \/ r.type = "handshake" /\ GoOn /\ UNCHANGED hs_buf
      \/ r.type = "data" /\ r.body \in Seq(Cell) /\ is_h2 = FALSE /\ Return(r.body) /\ UNCHANGED hs_buf
      \/ r.type = "data" /\ r.body \in Seq(Cell) /\ is_h2 = TRUE /\ Fits(r.body) /\ GoOn
         /\ hs_buf' = hs_buf \o r.body
  <2>1. r.type \in {"data", "alert", "handshake"} /\ (r.type = "data" => r.body \in Seq(Cell))
    BY <1>3 DEF Passing
  <2>2. ~Refused(r) => r.type # "alert"
    BY DEF Refused
  <2>3. r.type = "data" \/ r.type = "alert" \/ r.type = "handshake"
    BY <2>1
  <2>4. r.type = "data" => r.type # "handshake"
    OBVIOUS
  <2>5. ~is_h2 => is_h2 = FALSE
    BY <1>2, Zenon
  <2>6. is_h2 => is_h2 = TRUE
    BY <1>2, Zenon
  <2> QED BY <1>1, <2>1, <2>2, <2>3, <2>4, <2>5, <2>6, Zenon
<1>5. status' \in {"done", "closed"}
  BY <1>4 DEF ReturnError, GoOn, Return
<1>6. StreamTypes'
  <2>1. hs_buf' \in Seq(Cell) /\ Len(hs_buf') <= HsBufSize
    <3>1. CASE UNCHANGED hs_buf
      BY <1>2, <3>1 DEF StreamTypes
    <3>2. CASE r.body \in Seq(Cell) /\ Fits(r.body) /\ hs_buf' = hs_buf \o r.body
      <4>1. hs_buf \o r.body \in Seq(Cell)
            /\ Len(hs_buf \o r.body) = Len(hs_buf) + Len(r.body)
        BY <1>2, <3>2, JoinedUp
      <4> QED BY <3>2, <4>1 DEF Fits
    <3> QED BY <1>4, <3>1, <3>2
  <2>2. wire' \in Seq(Passing)
    BY <1>1, <1>3
  <2>3. /\ is_h2' = is_h2 /\ caller_len' = caller_len /\ requests' = requests
        /\ server' = server /\ response' = response
    BY <1>1
  <2> QED BY <1>2, <2>1, <2>2, <2>3 DEF StreamTypes
<1>7. HasExtension => HasExtension'
  BY <1>1 DEF HasExtension
<1>8. ASSUME ~HasExtension, OnTheWay, status' = "done"
      PROVE  OnTheWay'
  <2>1. \/ wire[1].type # "data" /\ UNCHANGED <<hs_buf, delivered>>
        \/ /\ wire[1].type = "data" /\ is_h2 = FALSE
           /\ delivered' = delivered \o wire[1].body
        \/ /\ wire[1].type = "data" /\ is_h2 = TRUE
           /\ delivered' = delivered /\ hs_buf' = hs_buf \o wire[1].body
    BY <1>3, <1>4, <1>8 DEF ReturnError, GoOn, Return
  <2>2. UNCHANGED <<is_h2, caller_len, server, response>>
    BY <1>1
  <2> QED BY <1>1, <1>2, <1>3, <1>8, <2>1, <2>2, ReadOnTheWay
<1>9. status' = "closed" => UNCHANGED <<is_h2, caller_len, response, delivered>>
  BY <1>1, <1>4 DEF ReturnError, GoOn, Return
<1> QED BY <1>5, <1>6, <1>7, <1>8, <1>9, StreamKept

-----------------------------------------------------------------------------
(* Frames.                                                                 *)

(* A unit of the queue has a length.                                       *)
LEMMA FirstCell ==
  ASSUME NEW buf \in Seq(Cell), NEW u \in Foremost(buf)
  PROVE  /\ buf # <<>> /\ u = buf[1] /\ u \in Cell
         /\ u[1] \in Kinds \cup {"BODY"} /\ u[3] \in Nat
<1>1. 1 \in DOMAIN buf /\ u = buf[1]
  BY DEF Foremost
<1>2. u \in Cell /\ buf # <<>>
  BY <1>1
<1>3. u[1] \in Kinds \cup {"BODY"} /\ u[3] \in Nat
  BY <1>2 DEF Cell
<1> QED BY <1>1, <1>2, <1>3

(* What is left of the queue.                                              *)
LEMMA Leftover ==
  ASSUME NEW buf \in Seq(Cell), NEW n \in Nat, n <= Len(buf)
  PROVE  /\ SubSeq(buf, n + 1, Len(buf)) \in Seq(Cell)
         /\ Len(SubSeq(buf, n + 1, Len(buf))) <= Len(buf)
<1> DEFINE c == Len(buf)
           t == Slice(buf, n, c)
<1>1. IsSlice(Cell, buf, n, c, t)
  <2>1. c \in 0..Len(buf) /\ n \in 0..c
    OBVIOUS
  <2> HIDE DEF c
  <2> QED BY <2>1, SliceIs, Zenon
<1>2. t \in Seq(Cell) /\ Len(t) <= c
  <2>1. t \in Seq(Cell) /\ Len(t) = c - n /\ c \in Nat
    <3> HIDE DEF t
    <3> QED BY <1>1 DEF IsSlice
  <2> HIDE DEF t, c
  <2> QED BY <2>1
<1> QED BY <1>2 DEF Slice

(* The payloads of the frames handled so far.                              *)
LEMMA OneMoreTaken ==
  ASSUME NEW kinds, NEW j
  PROVE  AreFrames(response, kinds) /\ caller_len \in Nat /\ j \in 1..Len(response) =>
           FrontOf(Taken, (j + 1) - 1) = FrontOf(Taken, j - 1) \o Payload(response[j], caller_len)
<1> SUFFICES ASSUME AreFrames(response, kinds), caller_len \in Nat, j \in 1..Len(response)
             PROVE  FrontOf(Taken, (j + 1) - 1)
                      = FrontOf(Taken, j - 1) \o Payload(response[j], caller_len)
  OBVIOUS
<1>1. Taken \in Seq(Seq(Cell)) /\ Len(Taken) = Len(response) /\ Len(response) \in Nat
  BY TakenIs, SMTT(30) DEF AreFrames
<1>2. Fronts(Cell, Taken)
  BY <1>1, FrontsOf, Zenon
<1>3. FrontOf(Taken, j) = FrontOf(Taken, j - 1) \o Taken[j]
  BY <1>1, <1>2 DEF Fronts
<1>4. Taken[j] = Payload(response[j], caller_len)
  <2>1. DOMAIN response = 1..Len(response)
    BY DEF AreFrames
  <2> QED BY <2>1 DEF Taken
<1>5. (j + 1) - 1 = j
  OBVIOUS
<1> QED BY <1>3, <1>4, <1>5

(* A frame without payload for the caller.                                 *)
LEMMA NothingTaken ==
  ASSUME NEW kinds, NEW k
  PROVE  AreFrames(response, kinds) /\ caller_len \in Nat /\ k \in 0..Len(response) =>
           FrontOf(Taken, k) \in Seq(Cell) /\ FrontOf(Taken, k) \o <<>> = FrontOf(Taken, k)
<1> SUFFICES ASSUME AreFrames(response, kinds), caller_len \in Nat, k \in 0..Len(response)
             PROVE  FrontOf(Taken, k) \in Seq(Cell) /\ FrontOf(Taken, k) \o <<>> = FrontOf(Taken, k)
  OBVIOUS
<1>1. Taken \in Seq(Seq(Cell)) /\ Len(Taken) = Len(response) /\ Len(response) \in Nat
  <2>1. Len(response) \in Nat
    BY DEF AreFrames
  <2>2. Taken \in Seq(Seq(Cell)) /\ Len(Taken) = Len(response)
    BY TakenIs, Zenon
  <2> QED BY <2>1, <2>2, Zenon
<1>2. Fronts(Cell, Taken)
  BY <1>1, FrontsOf, Zenon
<1> DEFINE x == FrontOf(Taken, k)
<1>3. x \in Seq(Cell)
  BY <1>1, <1>2 DEF Fronts
<1> HIDE DEF x
<1>4. x \o <<>> = x
  BY <1>3
<1> QED BY <1>3, <1>4 DEF x

(* What the queue's first unit says, and what handling its frame does.     *)
Handles2(kind, n) ==
  \/ /\ kind \in {"HEADERS", "DATA"}
     /\ delivered' = delivered \o SubSeq(hs_buf, 2, Min({n, 1 + caller_len}))
     /\ hs_buf' = SubSeq(hs_buf, n + 1, Len(hs_buf)) /\ status' = status
  \/ /\ kind \in {"SETTINGS", "ACK"}
     /\ delivered' = delivered /\ hs_buf' = SubSeq(hs_buf, n + 1, Len(hs_buf)) /\ status' = status
  \/ kind = "GOAWAY" /\ delivered' = delivered /\ hs_buf' = <<>> /\ status' = "closed"

(* What a frame does to the queue and to the caller.                       *)
LEMMA FrameHandled ==
  ASSUME NEW kind, NEW n, TakeFrame(kind, n)
  PROVE  n <= Len(hs_buf) /\ Handles2(kind, n)
BY DEF TakeFrame, Consumed, Return, ReturnError, GoOn, Handles2

(* The frame at the front of the queue is the next one.                    *)
LEMMA FrameOnTheWay ==
  ASSUME StreamTypes, status = "done", status' = "done", ~HasExtension, OnTheWay, is_h2 = TRUE,
         UNCHANGED <<wire, is_h2, caller_len, server, response>>,
         NEW u \in Foremost(hs_buf),
         HasHeader(u) /\ u[1] # "EXT" => u[3] <= Len(hs_buf) /\ Handles2(u[1], u[3])
  PROVE  OnTheWay'
<1>1. PICK t, q : /\ t \in Seq(Cell) /\ OnWay(wire, server.to_send, t, q) /\ Framed(t, q)
  BY DEF OnTheWay
<1>2. PICK p, e, j : /\ Lies(response, p, t, e, j, q[1], server.up)
                     /\ hs_buf = Slice(t, p[j], q[1])
                     /\ delivered = FrontOf(Taken, j - 1)
  BY <1>1 DEF Framed
<1>3. AreFrames(response, Kinds2) /\ hs_buf \in Seq(Cell) /\ caller_len \in Nat
  BY CallerLength DEF StreamTypes
<1>4. hs_buf # <<>> /\ u = hs_buf[1]
  BY <1>3, FirstCell
<1>5. AtFront(response, p, t, e, j, q[1], server.up, hs_buf) \/ u = <<"GOAWAY", 1, 1, 0>>
  <2>1. \/ AtFront(response, p, t, e, j, q[1], server.up, hs_buf)
        \/ hs_buf[1] = <<"GOAWAY", 1, 1, 0>>
    <3> DEFINE x == q[1]
               up == server.up
    <3>1. Lies(response, p, t, e, j, x, up) /\ hs_buf = Slice(t, p[j], x)
      BY <1>2
    <3> HIDE DEF x, up
    <3>2. AtFront(response, p, t, e, j, x, up, hs_buf) \/ hs_buf[1] = <<"GOAWAY", 1, 1, 0>>
      BY <1>3, <1>4, <3>1, FrontOfQueue
    <3> QED BY <3>2 DEF x, up
  <2> QED BY <1>4, <2>1
<1>6. ASSUME u = <<"GOAWAY", 1, 1, 0>> PROVE FALSE
  <2>1. HasHeader(u) /\ u[1] = "GOAWAY" /\ u[3] = 1
    BY <1>6 DEF HasHeader
  <2>2. Handles2("GOAWAY", 1)
    BY <2>1
  <2> QED BY <2>2 DEF Handles2
<1> DEFINE f == response[j]
           n == Len(f)
<1>7. /\ j \in 1..Len(response) /\ u = f[1] /\ n \in Nat \ {0}
      /\ n <= Len(hs_buf) =>
           /\ Lies(response, p, t, e, j + 1, q[1], server.up)
           /\ SubSeq(hs_buf, 1, n) = f
           /\ SubSeq(hs_buf, n + 1, Len(hs_buf)) = Slice(t, p[j + 1], q[1])
  BY <1>4, <1>5, <1>6 DEF AtFront
<1>8. HasHeader(u) /\ u[3] = n /\ u[1] \in Kinds2 /\ u[1] # "EXT" /\ u[1] = f[1][1]
  <2>1. IsFrame(f) /\ f[1][1] \in Kinds2
    BY <1>3, <1>7 DEF AreFrames
  <2>2. 1 \in 1..Len(f)
    BY <1>7
  <2>3. f[1][2] = 1 /\ f[1][3] = n
    BY <2>1, <2>2 DEF IsFrame
  <2>4. j \in DOMAIN response
    BY <1>3, <1>7 DEF AreFrames
  <2>5. f[1][1] # "EXT"
    BY <2>4 DEF HasExtension
  <2> HIDE DEF f
  <2> QED BY <1>7, <2>1, <2>3, <2>5 DEF HasHeader
<1>9. n <= Len(hs_buf) /\ Handles2(f[1][1], n)
  BY <1>8
<1> HIDE DEF f, n
<1>10. /\ hs_buf' = Slice(t, p[j + 1], q[1])
       /\ delivered' = delivered \o Payload(f, caller_len)
  <2>1. CASE f[1][1] \in {"HEADERS", "DATA"}
    <3>1. /\ delivered' = delivered \o SubSeq(hs_buf, 2, Min({n, 1 + caller_len}))
          /\ hs_buf' = SubSeq(hs_buf, n + 1, Len(hs_buf))
      BY <1>9, <2>1 DEF Handles2
    <3>2. SubSeq(hs_buf, 2, Min({n, 1 + caller_len})) = SubSeq(f, 2, Min({n, 1 + caller_len}))
      BY <1>3, <1>7, <1>9, PayloadQueued DEF n
    <3> QED BY <1>7, <1>9, <2>1, <3>1, <3>2 DEF Payload, n
  <2>2. CASE f[1][1] \in {"SETTINGS", "ACK"}
    <3>1. delivered' = delivered /\ hs_buf' = SubSeq(hs_buf, n + 1, Len(hs_buf))
      BY <1>9, <2>2 DEF Handles2
    <3>2. Payload(f, caller_len) = <<>>
      BY <2>2 DEF Payload
    <3>3. delivered \o <<>> = delivered
      <4>1. j - 1 \in 0..Len(response)
        BY <1>3, <1>7 DEF AreFrames
      <4> QED BY <1>2, <1>3, <4>1, NothingTaken
    <3> QED BY <1>7, <1>9, <3>1, <3>2, <3>3
  <2> QED BY <1>8, <2>1, <2>2 DEF Kinds2
<1>11. delivered' = FrontOf(Taken, (j + 1) - 1)
  BY <1>2, <1>3, <1>7, <1>10, OneMoreTaken DEF f
<1>12. Framed(t, q)'
  <2>1. Lies(response, p, t, e, j + 1, q[1], server.up)
    BY <1>7, <1>9
  <2> DEFINE i == j + 1
  <2>2. /\ Lies(response', p, t, e, i, q[1], server'.up)
        /\ hs_buf' = Slice(t, p[i], q[1])
        /\ delivered' = FrontOf(Taken', i - 1)
    BY <1>10, <1>11, <2>1 DEF Taken
  <2> HIDE DEF i
  <2> QED BY <2>2 DEF Framed
<1> QED BY <1>1, <1>12 DEF OnTheWay

(* A step that takes a frame.                                              *)
LEMMA FrameReceived ==
  ASSUME StreamInv, RecvFrame, status = "done"
  PROVE  StreamInv'
<1>1. /\ is_h2 /\ UNCHANGED <<wire, is_h2, caller_len, requests, server, response>>
  BY DEF RecvFrame
<1>2. PICK u \in Foremost(hs_buf) :
        \E kind \in IF HasHeader(u) THEN {u[1]} ELSE Kinds,
           n \in IF HasHeader(u) THEN {u[3]} ELSE Misreadings :
          IF kind = "EXT" THEN GiveUpFraming ELSE TakeFrame(kind, n)
  BY DEF RecvFrame
<1>3. PICK kind \in IF HasHeader(u) THEN {u[1]} ELSE Kinds,
           n \in IF HasHeader(u) THEN {u[3]} ELSE Misreadings :
          IF kind = "EXT" THEN GiveUpFraming ELSE TakeFrame(kind, n)
  BY <1>2, Zenon
<1>4. StreamTypes /\ hs_buf \in Seq(Cell) /\ is_h2 = TRUE
  <2>1. StreamTypes /\ hs_buf \in Seq(Cell)
    BY DEF StreamInv, StreamTypes
  <2>2. is_h2 \in BOOLEAN
    BY <2>1 DEF StreamTypes
  <2> QED BY <1>1, <2>1, <2>2, Zenon
<1>5. n \in Nat
  <2>1. u[3] \in Nat
    BY <1>4, FirstCell
  <2>2. Misreadings \subseteq Nat
    BY HsBufSizeAssumption DEF Misreadings
  <2> QED BY <1>3, <2>1, <2>2
<1>6. /\ GiveUpFraming \/ (Handles2(kind, n) /\ n <= Len(hs_buf))
      /\ status' \in {"done", "closed"}
      /\ status' = "closed" => delivered' = delivered
  <2>1. CASE GiveUpFraming
    <3>1. status' = status
      BY <2>1 DEF GiveUpFraming, Return
    <3>2. status' \in {"done", "closed"} /\ status' # "closed"
      BY <3>1
    <3> QED BY <2>1, <3>2, Zenon
  <2>2. CASE TakeFrame(kind, n)
    <3>1. n <= Len(hs_buf) /\ Handles2(kind, n)
      BY <2>2, FrameHandled
    <3> QED BY <3>1 DEF Handles2
  <2> QED BY <1>3, <2>1, <2>2, Zenon
<1>7. hs_buf' \in Seq(Cell) /\ Len(hs_buf') <= HsBufSize
  <2>1. <<>> \in Seq(Cell) /\ Len(<<>>) <= HsBufSize
    BY HsBufSizeAssumption
  <2>2. CASE GiveUpFraming
    <3>1. hs_buf' = <<>>
      BY <2>2 DEF GiveUpFraming
    <3> QED BY <2>1, <3>1
  <2>3. CASE Handles2(kind, n) /\ n <= Len(hs_buf)
    <3>1. hs_buf' = <<>> \/ hs_buf' = SubSeq(hs_buf, n + 1, Len(hs_buf))
      BY <2>3 DEF Handles2
    <3> DEFINE s == SubSeq(hs_buf, n + 1, Len(hs_buf))
    <3>2. s \in Seq(Cell) /\ Len(s) <= Len(hs_buf)
      BY <1>4, <1>5, <2>3, Leftover
    <3>3. Len(hs_buf) <= HsBufSize /\ Len(hs_buf) \in Nat /\ HsBufSize \in Nat
      BY <1>4, HsBufSizeAssumption DEF StreamTypes
    <3> HIDE DEF s
    <3>4. s \in Seq(Cell) /\ Len(s) <= HsBufSize
      BY <3>2, <3>3
    <3>5. hs_buf' = <<>> \/ hs_buf' = s
      BY <3>1 DEF s
    <3> QED BY <2>1, <3>4, <3>5
  <2> QED BY <1>6, <2>2, <2>3
<1>8. StreamTypes'
  <2>1. /\ is_h2' = is_h2 /\ caller_len' = caller_len /\ requests' = requests
        /\ server' = server /\ response' = response /\ wire' = wire
    BY <1>1
  <2>2. status' = "done" => wire' \in Seq(Passing)
    <3>1. wire \in Seq(Passing)
      BY <1>4 DEF StreamTypes, StreamInv
    <3> QED BY <2>1, <3>1
  <2> QED BY <1>4, <1>7, <2>1, <2>2 DEF StreamTypes
<1>9. HasExtension => HasExtension'
  BY <1>1 DEF HasExtension
<1>10. ASSUME ~HasExtension, OnTheWay, status' = "done"
       PROVE  OnTheWay'
  <2>1. HasHeader(u) /\ u[1] # "EXT" => u[3] <= Len(hs_buf) /\ Handles2(u[1], u[3])
    <3> HAVE HasHeader(u) /\ u[1] # "EXT"
    <3>1. kind = u[1] /\ n = u[3] /\ TakeFrame(kind, n)
      BY <1>3
    <3> QED BY <3>1, FrameHandled
  <2> QED BY <1>1, <1>4, <1>10, <2>1, FrameOnTheWay
<1>11. status' = "closed" => UNCHANGED <<is_h2, caller_len, response, delivered>>
  BY <1>1, <1>6
<1> QED BY <1>6, <1>8, <1>9, <1>10, <1>11, StreamKept

-----------------------------------------------------------------------------
(* What the server sends.                                                  *)

(* The server sends a record of its data, or one of another kind.          *)
LEMMA SentOnTheWay ==
  ASSUME StreamTypes, status = "done", OnTheWay,
         NEW x \in Passing, NEW n \in 0..Len(server.to_send),
         wire' = Append(wire, x),
         IF x.type = "data" THEN x.body = SubSeq(server.to_send, 1, n) ELSE n = 0,
         server'.to_send = SubSeq(server.to_send, n + 1, Len(server.to_send)),
         server'.up = server.up,
         UNCHANGED <<hs_buf, is_h2, caller_len, response, delivered>>
  PROVE  OnTheWay'
<1>1. PICK t, q : /\ t \in Seq(Cell) /\ OnWay(wire, server.to_send, t, q)
                  /\ is_h2 = TRUE => Framed(t, q)
                  /\ is_h2 = FALSE => Raw(t, q)
  BY DEF OnTheWay
<1>2. wire \in Seq(Passing) /\ x.type \in Later
  BY DEF StreamTypes, Passing, Later
<1>3. PICK r : /\ OnWay(Append(wire, x), SubSeq(server.to_send, n + 1, Len(server.to_send)), t, r)
               /\ r[1] = q[1]
  <2> DEFINE w == wire
             u == server.to_send
  <2>1. /\ w \in Seq(Passing) /\ OnWay(w, u, t, q) /\ n \in 0..Len(u)
        /\ IF x.type = "data" THEN x.body = SubSeq(u, 1, n) ELSE n = 0
    BY <1>1, <1>2
  <2> HIDE DEF w, u
  <2>2. \E r : OnWay(Append(w, x), SubSeq(u, n + 1, Len(u)), t, r) /\ r[1] = q[1]
    <3>1. /\ w \in Seq(Passing) /\ x \in Passing /\ t \in Seq(Cell) /\ OnWay(w, u, t, q)
          /\ n \in 0..Len(u) /\ x.type \in Later
          /\ IF x.type = "data" THEN x.body = SubSeq(u, 1, n) ELSE n = 0
      BY <1>1, <1>2, <2>1
    <3> QED BY <3>1, WaySent, SMTT(60)
  <2> QED BY <2>2 DEF w, u
<1>4. is_h2' = TRUE => Framed(t, r)'
  BY <1>1, <1>3 DEF Framed, Taken
<1>5. is_h2' = FALSE => Raw(t, r)'
  BY <1>1, <1>3 DEF Raw, Text
<1> QED BY <1>1, <1>3, <1>4, <1>5 DEF OnTheWay

(* The part of the queue stays where it is when the stream is cut behind   *)
(* it, and when more follows.                                              *)
LEMMA QueueCut ==
  ASSUME NEW t \in Seq(Cell), NEW z \in 0..Len(t), NEW x \in 0..z, NEW a \in 0..x
  PROVE  /\ Slice(t, 0, z) \in Seq(Cell) /\ Len(Slice(t, 0, z)) = z
         /\ Slice(Slice(t, 0, z), a, x) = Slice(t, a, x)
<1> DEFINE s == Slice(t, 0, z)
<1>1. 0 \in 0..z /\ x \in 0..z - 0 /\ a \in 0..x /\ 0 + a = a /\ 0 + x = x /\ z - 0 = z
  OBVIOUS
<1>2. IsSlice(Cell, t, 0, z, s) /\ Nested(t, 0, z, a, x)
  BY <1>1, SliceIs, NestedParts, Zenon
<1> HIDE DEF s
<1>3. s \in Seq(Cell) /\ Len(s) = z
  BY <1>1, <1>2 DEF IsSlice
<1>4. Slice(s, a, x) = Slice(t, a, x)
  BY <1>1, <1>2 DEF Nested, s
<1> QED BY <1>3, <1>4 DEF s

(* The server gives up with an alert, and what it had to send is dropped.  *)
LEMMA AlertOnTheWay ==
  ASSUME StreamTypes, status = "done", OnTheWay, server.up = TRUE,
         NEW x \in Passing, x.type = "alert", wire' = Append(wire, x),
         server'.to_send = <<>>, server'.up = FALSE,
         UNCHANGED <<hs_buf, is_h2, caller_len, response, delivered>>
  PROVE  OnTheWay'
<1>1. PICK t, q : /\ t \in Seq(Cell) /\ OnWay(wire, server.to_send, t, q)
                  /\ is_h2 = TRUE => Framed(t, q)
                  /\ is_h2 = FALSE => Raw(t, q)
  BY DEF OnTheWay
<1>2. wire \in Seq(Passing) /\ server.to_send \in Seq(Cell) /\ x.type \in Later
      /\ is_h2 \in BOOLEAN /\ AreFrames(response, IF is_h2 THEN Kinds2 ELSE {"BODY"})
  BY DEF StreamTypes, Later
<1>0. PICK y : y = q[Len(wire) + 1]
  OBVIOUS
<1> DEFINE s == Slice(t, 0, y)
           w == wire
<1>3. y \in 0..Len(t) /\ q[1] \in 0..y /\ Len(t) \in Nat /\ Len(w) \in Nat /\ y \in Nat
      /\ q[1] <= y /\ q[1] \in Nat
  BY <1>0, <1>1, <1>2, Places
<1>4. s \in Seq(Cell) /\ Len(s) = y
  <2>1. 0 \in 0..0 /\ 0 \in 0..y
    BY <1>3
  <2> QED BY <1>1, <1>3, <2>1, QueueCut
<1>5. OnWay(w, <<>>, s, q)
  <2> DEFINE u == server.to_send
  <2>1. u \in Seq(Cell) /\ 0 \in 0..Len(u)
    BY <1>2
  <2>2. OnWay(w, SubSeq(u, 1, 0), Slice(t, 0, q[Len(w) + 1] + 0), q)
    <3> HIDE DEF u
    <3> QED BY <1>1, <1>3, <2>1, WayCut DEF u
  <2>3. q[Len(w) + 1] + 0 = y /\ SubSeq(u, 1, 0) = <<>>
    BY <1>0, <1>3
  <2> QED BY <2>2, <2>3
<1> HIDE DEF s, w
<1>6. PICK r : OnWay(Append(w, x), <<>>, s, r) /\ r[1] = q[1]
  <2> DEFINE u == <<>>
  <2>1. 0 \in 0..Len(u) /\ SubSeq(u, 0 + 1, Len(u)) = <<>> /\ x.type # "data"
    OBVIOUS
  <2>2. w \in Seq(Passing)
    BY <1>2 DEF w
  <2>3. OnWay(w, u, s, q)
    BY <1>5
  <2> HIDE DEF u
  <2>4. \E r : OnWay(Append(w, x), SubSeq(u, 0 + 1, Len(u)), s, r) /\ r[1] = q[1]
    <3>1. s \in Seq(Cell) /\ x.type \in Later
          /\ IF x.type = "data" THEN x.body = SubSeq(u, 1, 0) ELSE 0 = 0
      BY <1>2, <1>4, <2>1
    <3>2. 0 \in 0..Len(u) /\ x \in Passing
      BY <2>1
    <3> QED BY <2>2, <2>3, <3>1, <3>2, WaySent
  <2> QED BY <2>1, <2>4
<1>7. OnWay(wire', server'.to_send, s, r)
  BY <1>6 DEF w
<1>8. ASSUME is_h2 = TRUE PROVE Framed(s, r)'
  <2>1. PICK p, e, j : /\ Lies(response, p, t, e, j, q[1], TRUE)
                       /\ hs_buf = Slice(t, p[j], q[1])
                       /\ delivered = FrontOf(Taken, j - 1)
    BY <1>1, <1>8 DEF Framed
  <2>2. Lies(response, p, s, y, j, q[1], FALSE)
    <3> QED BY <1>2, <1>3, <2>1, LiesCut DEF s
  <2>3. hs_buf = Slice(s, p[j], q[1])
    <3>1. p[j] \in Nat /\ p[j] <= q[1]
      BY <1>2, <2>1, Handled DEF Lies
    <3>2. p[j] \in 0..q[1]
      BY <1>3, <3>1
    <3> QED BY <1>1, <1>3, <2>1, <3>2, QueueCut DEF s
  <2>4. Lies(response', p, s, y, j, r[1], server'.up)
    BY <1>6, <2>2
  <2> QED BY <1>6, <2>1, <2>3, <2>4 DEF Framed, Taken
<1>9. ASSUME is_h2 = FALSE PROVE Raw(s, r)'
  <2>1. PICK e \in 0..Len(Text) :
          t = Slice(Text, 0, e) /\ delivered = Slice(t, 0, q[1])
    BY <1>1, <1>9 DEF Raw
  <2>2. Text \in Seq(Cell)
    <3>1. response \in Seq(Seq(Cell)) /\ \A k \in 1..Len(response) : response[k] # <<>>
      BY <1>2 DEF AreFrames, IsFrame
    <3> QED BY <3>1, CutOf, Zenon DEF Text
  <2>3. Len(t) = e
    <3>1. 0 \in 0..0 /\ 0 \in 0..e
      BY <2>2
    <3> QED BY <2>1, <2>2, <3>1, QueueCut
  <2>4. s = Slice(Text, 0, y) /\ y \in 0..Len(Text)
    <3>1. y \in 0..e /\ 0 \in 0..y /\ y \in 0..Len(Text)
      BY <1>3, <2>2, <2>3
    <3> QED BY <2>1, <2>2, <3>1, QueueCut DEF s
  <2>5. delivered = Slice(s, 0, r[1])
    <3>1. 0 \in 0..q[1]
      BY <1>3
    <3> QED BY <1>1, <1>3, <1>6, <2>1, <3>1, QueueCut DEF s
  <2> QED BY <2>4, <2>5 DEF Raw, Text
<1> QED BY <1>2, <1>4, <1>7, <1>8, <1>9 DEF OnTheWay

(* The server finishes the frame it is in and says that it goes away.      *)
LEMMA GoawayOnTheWay ==
  ASSUME StreamTypes, status = "done", OnTheWay, server.up = TRUE, is_h2 = TRUE,
         server'.to_send = Rest(server.to_send) \o Goaway, server'.up = FALSE,
         UNCHANGED <<wire, hs_buf, is_h2, caller_len, response, delivered>>
  PROVE  OnTheWay'
<1>1. PICK t, q : /\ t \in Seq(Cell) /\ OnWay(wire, server.to_send, t, q) /\ Framed(t, q)
  BY DEF OnTheWay
<1>2. PICK p, e, j : /\ Lies(response, p, t, e, j, q[1], TRUE)
                     /\ hs_buf = Slice(t, p[j], q[1])
                     /\ delivered = FrontOf(Taken, j - 1)
  BY <1>1 DEF Framed
<1>3. wire \in Seq(Passing) /\ server.to_send \in Seq(Cell) /\ AreFrames(response, Kinds2)
  BY DEF StreamTypes
<1>0. PICK y : y = q[Len(wire) + 1]
  OBVIOUS
<1> DEFINE u == server.to_send
           w == wire
<1>4. y \in 0..Len(t) /\ q[1] \in 0..y /\ Len(t) \in Nat /\ Len(w) \in Nat /\ y \in Nat
      /\ q[1] <= y /\ q[1] \in Nat /\ u = Slice(t, y, Len(t))
  <2>1. u = Slice(t, y, Len(t))
    BY <1>0, <1>1 DEF OnWay
  <2>2. OnWay(wire, server.to_send, t, q)
    BY <1>1
  <2> HIDE DEF u
  <2>3. /\ Len(w) \in Nat /\ Len(t) \in Nat
        /\ q[1] \in 0..Len(t) /\ q[1] <= y /\ y \in 0..Len(t)
    BY <1>0, <1>1, <1>3, <2>2, Places
  <2> QED BY <2>1, <2>3
<1>5. Finishes(response, p, t, j, q[1], y, u)
  <2> HIDE DEF u
  <2> QED BY <1>2, <1>3, <1>4, LiesFinished
<1>6. PICK n \in 0..Len(u) :
        /\ Rest(u) = SubSeq(u, 1, n) /\ y + n \in 0..Len(t)
        /\ Lies(response, p, Slice(t, 0, y + n) \o Goaway, y + n, j, q[1], FALSE)
  BY <1>5 DEF Finishes
<1> DEFINE z == y + n
           s == Slice(t, 0, z)
<1>7. z \in 0..Len(t) /\ q[1] \in 0..z
  <2>1. z \in Int /\ q[1] <= z
    BY <1>3, <1>4
  <2> QED BY <1>4, <1>6, <2>1
<1>8. p[j] \in 0..q[1]
  <2>1. p[j] \in Nat /\ p[j] <= q[1]
    BY <1>2, <1>3, Handled DEF Lies
  <2> QED BY <1>4, <2>1
<1>9. s \in Seq(Cell) /\ Len(s) = z /\ Slice(s, p[j], q[1]) = Slice(t, p[j], q[1])
  <2> HIDE DEF z
  <2> QED BY <1>1, <1>7, <1>8, QueueCut
<1>10. OnWay(w, SubSeq(u, 1, n), s, q)
  <2>1. OnWay(w, SubSeq(u, 1, n), Slice(t, 0, q[Len(w) + 1] + n), q)
    <3>1. OnWay(w, u, t, q)
      BY <1>1
    <3> HIDE DEF u
    <3> QED BY <1>1, <1>4, <1>6, <3>1, WayCut
  <2> QED BY <1>0, <2>1
<1>11. Goaway \in Seq(Cell)
  <2>1. "GOAWAY" \in Kinds \cup {"BODY"} /\ 0 \in Nat /\ 1 \in Nat \ {0}
    BY DEF Kinds
  <2> QED BY <2>1, FrameIs DEF Goaway
<1> HIDE DEF s, z, u
<1>12. OnWay(w, Rest(u) \o Goaway, s \o Goaway, q)
  BY <1>4, <1>6, <1>9, <1>10, <1>11, WayGrows
<1>13. s \o Goaway \in Seq(Cell) /\ Slice(s \o Goaway, p[j], q[1]) = Slice(s, p[j], q[1])
  <2>1. q[1] \in 0..Len(s)
    BY <1>7, <1>9
  <2>2. s \o Goaway \in Seq(Cell) /\ Extends(s, Goaway, p[j], q[1])
    BY <1>8, <1>9, <1>11, <2>1, ExtendedParts, Zenon
  <2> QED BY <2>2 DEF Extends
<1>14. Lies(response', p, s \o Goaway, z, j, q[1], server'.up)
  BY <1>6 DEF s, z
<1> DEFINE d == s \o Goaway
<1>15. Framed(d, q)'
  <2>1. hs_buf' = Slice(s \o Goaway, p[j], q[1])
    BY <1>2, <1>9, <1>13
  <2>2. delivered' = FrontOf(Taken', j - 1)
    BY <1>2 DEF Taken
  <2> QED BY <1>14, <2>1, <2>2 DEF Framed, s
<1>16. OnWay(wire', server'.to_send, s \o Goaway, q)
  BY <1>12 DEF u
<1> QED BY <1>13, <1>15, <1>16 DEF OnTheWay

(* The front without pieces.                                               *)
LEMMA NoFront ==
  ASSUME NEW s
  PROVE  FrontOf(s, 0) = <<>> /\ FlattenSeq(<<>>) = <<>>
<1>1. SubSeq(s, 1, 0) = <<>> /\ SubSeq(<<>>, 1, 0) = <<>> /\ <<>> \in Seq(Seq(Nat))
  OBVIOUS
<1>2. Fronts(Nat, <<>>)
  BY <1>1, FrontsOf, Zenon
<1>3. FrontOf(<<>>, 0) = <<>>
  BY <1>2 DEF Fronts
<1> QED BY <1>1, <1>3 DEF FrontOf

(* The first response over HTTP/2.                                         *)
LEMMA FramesOnTheWay ==
  ASSUME StreamTypes, status = "done", OnTheWay, server.up = TRUE, is_h2 = TRUE,
         response = <<>>, NEW frames, AreFrames(frames, Kinds2),
         server'.to_send = server.to_send \o FlattenSeq(Allowed(frames)), server'.up = TRUE,
         response' = frames,
         UNCHANGED <<wire, hs_buf, is_h2, caller_len, delivered>>
  PROVE  OnTheWay'
<1>1. PICK t, q : /\ t \in Seq(Cell) /\ OnWay(wire, server.to_send, t, q) /\ Framed(t, q)
  BY DEF OnTheWay
<1>2. PICK p, e, j : /\ Lies(response, p, t, e, j, q[1], TRUE)
                     /\ hs_buf = Slice(t, p[j], q[1])
                     /\ delivered = FrontOf(Taken, j - 1)
  BY <1>1 DEF Framed
<1>3. wire \in Seq(Passing) /\ AreFrames(response, Kinds2)
  BY DEF StreamTypes
<1> DEFINE u == FlattenSeq(Allowed(frames))
<1>4. u \in Seq(Cell)
  BY LiesAnswered
<1>5. PICK f, g : Lies(frames, f, u, g, 1, 0, TRUE) /\ f[1] = 0
  BY LiesAnswered
<1> HIDE DEF u
<1>6. Len(response) = 0 /\ FlattenSeq(response) = <<>> /\ j = 1
  <2>1. j \in 1..Len(response) + 1 /\ Len(response) = 0
    BY <1>2 DEF Lies
  <2> QED BY <2>1, NoFront
<1>7. t = <<>> /\ q[1] = 0 /\ p[j] = 0
  <2>1. e \in 0..Len(FlattenSeq(response)) /\ Len(FlattenSeq(response)) = 0
    BY <1>2, <1>6 DEF Lies
  <2>2. e = 0
    BY <2>1
  <2>3. t = Slice(<<>>, 0, 0)
    BY <1>2, <1>6, <2>2 DEF Lies
  <2>4. t = <<>>
    BY <2>3 DEF Slice
  <2>5. q[1] \in 0..Len(t) /\ Len(t) = 0
    BY <1>1, <1>3, <2>4, Places
  <2>6. q[1] = 0
    BY <2>5
  <2>7. p[j] \in Nat /\ p[j] <= q[1]
    BY <1>2, <1>3, Handled DEF Lies
  <2> QED BY <2>4, <2>6, <2>7
<1>8. hs_buf = <<>> /\ delivered = <<>>
  <2>1. hs_buf = Slice(t, 0, 0)
    BY <1>2, <1>7
  <2>2. j - 1 = 0
    BY <1>6
  <2> QED BY <1>2, <1>7, <2>1, <2>2, NoFront DEF Slice
<1>9. OnWay(wire, server.to_send \o u, t \o u, q)
  <2>1. Len(wire) \in Nat
    BY <1>3
  <2> QED BY <1>1, <1>4, <2>1, WayGrows
<1>10. t \o u = u
  BY <1>4, <1>7
<1>11. hs_buf' = Slice(u, f[1], q[1])
  <2>1. Slice(u, 0, 0) = <<>>
    <3>1. 0 \in 0..Len(u)
      BY <1>4
    <3> QED BY <1>4, <3>1, EmptyPart
  <2> QED BY <1>5, <1>7, <1>8, <2>1
<1>12. delivered' = FrontOf(Taken', 1 - 1)
  <2>1. 1 - 1 = 0
    OBVIOUS
  <2> QED BY <1>8, <2>1, NoFront
<1>13. Lies(response', f, u, g, 1, q[1], server'.up)
  BY <1>5, <1>7
<1> DEFINE i == 1
<1>14. /\ Lies(response', f, u, g, i, q[1], server'.up)
       /\ hs_buf' = Slice(u, f[i], q[1])
       /\ delivered' = FrontOf(Taken', i - 1)
  BY <1>11, <1>12, <1>13
<1> HIDE DEF i
<1>15. PICK d : d = u
  OBVIOUS
<1>16. Framed(d, q)'
  BY <1>14, <1>15 DEF Framed
<1>17. OnWay(wire', server'.to_send, d, q) /\ d \in Seq(Cell)
  BY <1>4, <1>9, <1>10, <1>15 DEF u
<1> QED BY <1>16, <1>17 DEF OnTheWay

(* A response over HTTP/1.1.                                               *)
LEMMA BodyOnTheWay ==
  ASSUME StreamTypes, status = "done", OnTheWay, server.up = TRUE, is_h2 = FALSE,
         NEW frames, AreFrames(frames, {"BODY"}), Len(frames) = 1,
         server'.to_send = server.to_send \o FlattenSeq(Allowed(frames)), server'.up = TRUE,
         response' = response \o frames,
         UNCHANGED <<wire, hs_buf, is_h2, caller_len, delivered>>
  PROVE  OnTheWay'
<1>1. PICK t, q : /\ t \in Seq(Cell) /\ OnWay(wire, server.to_send, t, q) /\ Raw(t, q)
  BY DEF OnTheWay
<1>2. t = Slice(Text, 0, Len(Text)) /\ delivered = Slice(t, 0, q[1])
  BY <1>1 DEF Raw
<1>3. wire \in Seq(Passing) /\ AreFrames(response, {"BODY"})
  BY DEF StreamTypes
<1>4. response \in Seq(Seq(Cell)) /\ Text \in Seq(Cell)
  <2>1. response \in Seq(Seq(Cell)) /\ \A k \in 1..Len(response) : response[k] # <<>>
    BY <1>3 DEF AreFrames, IsFrame
  <2> QED BY <2>1, CutOf, Zenon DEF Text
<1>5. t = Text
  BY <1>2, <1>4, WholePart, Zenon
<1> DEFINE u == frames[1]
           C == Seq(Cell)
<1>6. u \in C /\ frames = <<u>> /\ Allowed(frames) = frames
  <2>1. frames \in Seq(C)
    BY DEF AreFrames
  <2>2. u \in C
    <3>1. 1 \in 1..Len(frames)
      OBVIOUS
    <3> HIDE DEF C
    <3> QED BY <2>1, <3>1, ElementOfSeq
  <2>3. frames = <<u>>
    <3> DEFINE v == <<u>>
    <3> HIDE DEF C, u
    <3>1. v \in Seq(C) /\ Len(v) = 1 /\ v[1] = u
      BY <2>2
    <3>2. \A i \in 1..Len(v) : frames[i] = v[i]
      BY <3>1 DEF u
    <3> HIDE DEF v
    <3>3. frames = v
      BY <2>1, <3>1, <3>2, SameElements, Zenon
    <3> QED BY <3>3 DEF v
  <2>4. Allowed(frames) = frames
    BY AllowedFront
  <2> QED BY <2>2, <2>3, <2>4
<1> HIDE DEF u
<1>7. FlattenSeq(response \o frames) = Text \o u
  <2>1. response \o <<u>> = Append(response, u)
    <3> HIDE DEF C
    <3>1. response \in Seq(C) /\ u \in C
      BY <1>4, <1>6 DEF C
    <3> QED BY <3>1
  <2>2. FlattenSeq(Append(response, u)) = FlattenSeq(response) \o u
    BY <1>4, <1>6, FlattenAppended
  <2> QED BY <1>6, <2>1, <2>2 DEF Text
<1>8. FlattenSeq(Allowed(frames)) = u
  <2>1. <<>> \in Seq(Seq(Cell)) /\ Append(<<>>, u) = <<u>> /\ <<>> \o u = u
    BY <1>6
  <2>2. FlattenSeq(Append(<<>>, u)) = FlattenSeq(<<>>) \o u
    <3>1. u \in Seq(Cell)
      BY <1>6
    <3> DEFINE z == <<>>
    <3>2. z \in Seq(Seq(Cell))
      OBVIOUS
    <3> HIDE DEF z
    <3>3. FlattenSeq(Append(z, u)) = FlattenSeq(z) \o u
      BY <3>1, <3>2, FlattenAppended
    <3> QED BY <3>3 DEF z
  <2> QED BY <1>6, <2>1, <2>2, NoFront
<1>9. OnWay(wire, server.to_send \o u, t \o u, q)
  <2>1. Len(wire) \in Nat
    BY <1>3
  <2> QED BY <1>1, <1>6, <2>1, WayGrows
<1>10. PICK d : d = t \o u
  OBVIOUS
<1>11. d \in Seq(Cell) /\ Len(d) \in Nat
  BY <1>1, <1>6, <1>10
<1>12. Text' = d
  BY <1>5, <1>7, <1>10 DEF Text
<1>13. delivered' = Slice(d, 0, q[1])
  <2>1. q[1] \in 0..Len(t)
    BY <1>1, <1>3, Places
  <2>2. 0 \in 0..q[1] /\ u \in Seq(Cell)
    BY <1>1, <1>6, <2>1
  <2>3. Extends(t, u, 0, q[1])
    BY <1>1, <2>1, <2>2, ExtendedParts, Zenon
  <2> QED BY <1>2, <1>10, <2>3 DEF Extends
<1>14. d = Slice(d, 0, Len(d))
  BY <1>11, WholePart, Zenon
<1>15. Raw(d, q)'
  <2>1. PICK e : e = Len(d)
    OBVIOUS
  <2>2. e \in 0..Len(Text') /\ e = Len(Text') /\ d = Slice(Text', 0, e)
    BY <1>11, <1>12, <1>14, <2>1
  <2> QED BY <1>13, <2>2 DEF Raw
<1>16. OnWay(wire', server'.to_send, d, q)
  BY <1>8, <1>9, <1>10
<1> QED BY <1>11, <1>15, <1>16 DEF OnTheWay

-----------------------------------------------------------------------------
(* Records and their kinds.                                                *)
LEMMA RecordIs ==
  ASSUME StreamTypes, NEW type, NEW body,
         \/ type = "data" /\ body \in Seq(Cell)
         \/ type \in {"alert", "handshake"} /\ body \in Notices
  PROVE  /\ ServerRecord(type, body) \in Passing
         /\ ServerRecord(type, body).type = type /\ ServerRecord(type, body).body = body
BY DEF ServerRecord, Record, Passing, StreamTypes

(* Records of the server's data.                                           *)
LEMMA DataSent ==
  ASSUME StreamInv, StepTypes, ServerSends
  PROVE  StreamInv'
<1>1. PICK n \in 1..MaxRecord :
        /\ status = "done" /\ n <= Len(server.to_send)
        /\ wire' = Append(wire, ServerRecord("data", SubSeq(server.to_send, 1, n)))
        /\ server' = [server EXCEPT !.seq = @ + 1,
                        !.to_send = SubSeq(@, n + 1, Len(@))]
        /\ UNCHANGED <<status, hs_buf, is_h2, caller_len, requests, response, delivered>>
  BY DEF ServerSends
<1>2. StreamTypes /\ server.to_send \in Seq(Cell) /\ wire \in Seq(Passing)
      /\ DOMAIN server = ServerFields
  BY <1>1 DEF StreamInv, StreamTypes, StepTypes
<1> DEFINE u == server.to_send
           x == ServerRecord("data", SubSeq(u, 1, n))
<1>3. n \in 0..Len(u) /\ n \in Nat /\ SubSeq(u, 1, n) \in Seq(Cell)
      /\ SubSeq(u, n + 1, Len(u)) \in Seq(Cell)
  <2>1. n \in Nat /\ n \in 0..Len(u)
    BY <1>1, <1>2, MaxRecordAssumption
  <2>2. SubSeq(u, n + 1, Len(u)) \in Seq(Cell)
    <3> HIDE DEF u
    <3> QED BY <1>1, <1>2, <2>1, Leftover DEF u
  <2> QED BY <1>2, <2>1, <2>2
<1>4. x \in Passing /\ x.type = "data" /\ x.body = SubSeq(u, 1, n)
  BY <1>2, <1>3, RecordIs
<1>5. /\ server'.up = server.up /\ server'.asked = server.asked /\ server'.key = server.key
      /\ server'.to_send = SubSeq(u, n + 1, Len(u)) /\ server'.seq = server.seq + 1
  BY <1>1, <1>2 DEF ServerFields
<1>6. StreamTypes'
  <2> HIDE DEF x
  <2>1. wire' \in Seq(Passing)
    BY <1>1, <1>2, <1>4 DEF x
  <2>2. server'.to_send \in Seq(Cell) /\ server'.seq \in Nat
    BY <1>2, <1>3, <1>5 DEF StreamTypes
  <2> QED BY <1>1, <1>2, <1>5, <2>1, <2>2 DEF StreamTypes
<1>7. HasExtension => HasExtension'
  BY <1>1 DEF HasExtension
<1>8. ASSUME OnTheWay PROVE OnTheWay'
  <2>1. wire' = Append(wire, x)
    BY <1>1
  <2> HIDE DEF x, u
  <2>2. PICK y : y = x
    OBVIOUS
  <2>3. /\ y \in Passing /\ wire' = Append(wire, y)
        /\ IF y.type = "data" THEN y.body = SubSeq(server.to_send, 1, n) ELSE n = 0
    BY <1>4, <2>1, <2>2 DEF u
  <2> QED BY <1>1, <1>2, <1>3, <1>5, <1>8, <2>3, SentOnTheWay DEF u
<1> QED BY <1>1, <1>6, <1>7, <1>8, StreamKept

(* Tickets and key updates.                                                *)
LEMMA NoticeSent ==
  ASSUME StreamInv, StepTypes, ServerPostHandshake
  PROVE  StreamInv'
<1>1. /\ status = "done"
      /\ UNCHANGED <<status, hs_buf, is_h2, caller_len, requests, response, delivered>>
  BY DEF ServerPostHandshake
<1>2. PICK m \in {Message("NewSessionTicket", 1), Message("KeyUpdate", 1)} :
        /\ wire' = Append(wire, ServerRecord("handshake", m))
        /\ \/ server' = [server EXCEPT !.seq = @ + 1]
           \/ server' = [server EXCEPT !.key = "next", !.seq = 0, !.rekeyed = TRUE]
  BY DEF ServerPostHandshake
<1>3. StreamTypes /\ server.to_send \in Seq(Cell) /\ wire \in Seq(Passing)
      /\ DOMAIN server = ServerFields /\ server.seq \in Nat /\ server.key \in {"data", "next"}
  BY <1>1 DEF StreamInv, StreamTypes, StepTypes
<1>4. PICK x : x = ServerRecord("handshake", m)
  OBVIOUS
<1>5. x \in Passing /\ x.type = "handshake" /\ wire' = Append(wire, x)
  BY <1>2, <1>3, <1>4, RecordIs DEF Notices
<1>6. /\ server'.up = server.up /\ server'.asked = server.asked
      /\ server'.to_send = server.to_send
      /\ server'.key \in {"data", "next"} /\ server'.seq \in Nat
  <2>1. CASE server' = [server EXCEPT !.seq = @ + 1]
    BY <1>3, <2>1 DEF ServerFields
  <2>2. CASE server' = [server EXCEPT !.key = "next", !.seq = 0, !.rekeyed = TRUE]
    BY <1>3, <2>2 DEF ServerFields
  <2> QED BY <1>2, <2>1, <2>2
<1>7. StreamTypes'
  <2>1. wire' \in Seq(Passing)
    BY <1>3, <1>5
  <2> QED BY <1>1, <1>3, <1>6, <2>1 DEF StreamTypes
<1>8. HasExtension => HasExtension'
  BY <1>1 DEF HasExtension
<1>9. ASSUME OnTheWay PROVE OnTheWay'
  <2> DEFINE u == server.to_send
  <2>1. 0 \in 0..Len(u) /\ SubSeq(u, 0 + 1, Len(u)) = u
    <3>1. Slice(u, 0, Len(u)) = u
      BY <1>3, WholePart, Zenon
    <3>2. 0 \in 0..Len(u)
      BY <1>3
    <3> HIDE DEF u
    <3> QED BY <3>1, <3>2 DEF Slice
  <2>2. PICK n : n = 0
    OBVIOUS
  <2>3. /\ n \in 0..Len(server.to_send)
        /\ IF x.type = "data" THEN x.body = SubSeq(server.to_send, 1, n) ELSE n = 0
        /\ server'.to_send = SubSeq(server.to_send, n + 1, Len(server.to_send))
    <3>1. server'.to_send = u
      BY <1>6
    <3>2. server'.to_send = SubSeq(u, n + 1, Len(u))
      <4> HIDE DEF u
      <4> QED BY <2>1, <2>2, <3>1
    <3>3. n \in 0..Len(u)
      <4> HIDE DEF u
      <4> QED BY <2>1, <2>2
    <3> QED BY <1>5, <2>2, <3>2, <3>3
  <2> QED BY <1>1, <1>3, <1>5, <1>6, <1>9, <2>3, SentOnTheWay
<1> QED BY <1>1, <1>7, <1>8, <1>9, StreamKept

-----------------------------------------------------------------------------
(* Requests.                                                               *)

(* Steps that leave the data where it is.                                  *)
LEMMA StreamUntouched ==
  ASSUME StreamInv, StreamTypes', status = "done", status' \in {"done", "closed"},
         UNCHANGED <<wire, hs_buf, is_h2, caller_len, response, delivered>>,
         server'.to_send = server.to_send, server'.up = server.up
  PROVE  StreamInv'
<1>1. HasExtension => HasExtension'
  BY DEF HasExtension
<1>2. ASSUME OnTheWay PROVE OnTheWay'
  BY <1>2, StaysOnTheWay
<1> QED BY <1>1, <1>2, StreamKept

(* The server answers a request.                                           *)
LEMMA ResponseSent ==
  ASSUME StreamInv, StepTypes, status = "done", status' = status, server.up = TRUE,
         ~(is_h2 /\ server.asked > 0),
         NEW frames \in Responses(server.asked + 1),
         server' = [server EXCEPT !.next = @ + 1, !.asked = @ + 1,
                      !.to_send = @ \o FlattenSeq(Allowed(frames))],
         response' = response \o frames,
         UNCHANGED <<wire, hs_buf, is_h2, caller_len, requests, delivered>>
  PROVE  StreamInv'
<1>1. StreamTypes /\ DOMAIN server = ServerFields /\ server.asked \in Nat /\ is_h2 \in BOOLEAN
      /\ server.to_send \in Seq(Cell)
  BY DEF StreamInv, StreamTypes, StepTypes
<1>2. /\ is_h2 => AreFrames(frames, Kinds2)
      /\ ~is_h2 => AreFrames(frames, {"BODY"}) /\ Len(frames) = 1
  BY <1>1, ResponsesAre
<1> DEFINE kinds == IF is_h2 THEN Kinds2 ELSE {"BODY"}
<1>3. AreFrames(frames, kinds) /\ AreFrames(response, kinds)
  BY <1>1, <1>2 DEF StreamTypes
<1>4. FlattenSeq(Allowed(frames)) \in Seq(Cell)
  BY <1>3, LiesAnswered
<1> DEFINE u == FlattenSeq(Allowed(frames))
<1>5. /\ server'.up = TRUE /\ server'.asked = server.asked + 1 /\ server'.key = server.key
      /\ server'.seq = server.seq /\ server'.to_send = server.to_send \o u
  <2> HIDE DEF u
  <2> QED BY <1>1 DEF ServerFields, u
<1>6. StreamTypes'
  <2>1. AreFrames(response', IF is_h2' THEN Kinds2 ELSE {"BODY"})
    <3> HIDE DEF kinds
    <3>1. AreFrames(response \o frames, kinds)
      BY <1>3, FramesJoin
    <3> QED BY <3>1 DEF kinds
  <2>2. server'.asked # 0
    BY <1>1, <1>5
  <2>3. server'.to_send \in Seq(Cell)
    BY <1>1, <1>4, <1>5
  <2> HIDE DEF u, kinds
  <2> QED BY <1>1, <1>5, <2>1, <2>2, <2>3 DEF StreamTypes
<1>7. HasExtension => HasExtension'
  <2>1. \A j \in DOMAIN response : j \in DOMAIN response' /\ response'[j] = response[j]
    <3> DEFINE C == Seq(Cell)
    <3>1. response \in Seq(C) /\ frames \in Seq(C)
      BY <1>3 DEF AreFrames
    <3> HIDE DEF C
    <3> QED BY <3>1
  <2> QED BY <2>1 DEF HasExtension
<1>8. ASSUME OnTheWay PROVE OnTheWay'
  <2>1. CASE is_h2 = TRUE
    <3>1. AreFrames(frames, Kinds2)
      BY <1>2, <2>1
    <3>2. response = <<>>
      <4>1. server.asked = 0
        BY <1>1, <2>1
      <4> QED BY <1>1, <4>1 DEF StreamTypes
    <3>3. response' = frames
      <4> DEFINE C == Seq(Cell)
      <4>1. frames \in Seq(C)
        BY <1>3 DEF AreFrames
      <4> HIDE DEF C
      <4> QED BY <3>2, <4>1
    <3> QED BY <1>1, <1>5, <1>8, <2>1, <3>1, <3>2, <3>3, FramesOnTheWay
  <2>2. CASE is_h2 = FALSE
    <3>1. AreFrames(frames, {"BODY"}) /\ Len(frames) = 1
      BY <1>2, <2>2
    <3> QED BY <1>1, <1>5, <1>8, <2>2, <3>1, BodyOnTheWay
  <2> QED BY <1>1, <2>1, <2>2
<1> QED BY <1>6, <1>7, <1>8, StreamKept

(* The server gives up.                                                    *)
LEMMA AlertSent ==
  ASSUME StreamInv, StepTypes, status = "done", status' = status, server.up = TRUE,
         wire' = Append(wire, ServerRecord("alert", Alert)),
         server' = [server EXCEPT !.up = FALSE, !.to_send = <<>>],
         UNCHANGED <<hs_buf, is_h2, caller_len, requests, response, delivered>>
  PROVE  StreamInv'
<1>1. StreamTypes /\ DOMAIN server = ServerFields /\ wire \in Seq(Passing)
  BY DEF StreamInv, StreamTypes, StepTypes
<1>2. PICK x : x = ServerRecord("alert", Alert)
  OBVIOUS
<1>3. x \in Passing /\ x.type = "alert" /\ wire' = Append(wire, x)
  BY <1>1, <1>2, RecordIs DEF Notices
<1>4. /\ server'.up = FALSE /\ server'.to_send = <<>> /\ server'.asked = server.asked
      /\ server'.key = server.key /\ server'.seq = server.seq
  BY <1>1 DEF ServerFields
<1>5. StreamTypes'
  <2>1. wire' \in Seq(Passing)
    BY <1>1, <1>3
  <2>2. <<>> \in Seq(Cell)
    BY EmptySeq
  <2> QED BY <1>1, <1>4, <2>1, <2>2 DEF StreamTypes
<1>6. HasExtension => HasExtension'
  BY DEF HasExtension
<1>7. ASSUME OnTheWay PROVE OnTheWay'
  BY <1>1, <1>3, <1>4, <1>7, AlertOnTheWay
<1> QED BY <1>5, <1>6, <1>7, StreamKept

(* Over HTTP/2 what a server that has not given up is still to send is the *)
(* end of its frames.                                                      *)
Unsent ==
  server.up = TRUE /\ is_h2 = TRUE =>
    \E p, t, e, y : /\ Lies(response, p, t, e, 1, 0, TRUE)
                    /\ y \in 0..Len(t) /\ server.to_send = Slice(t, y, Len(t))

(* Before the first response.                                              *)
LEMMA NothingLies ==
  ASSUME NEW kinds
  PROVE  /\ AreFrames(<<>>, kinds)
         /\ \E p, e : Lies(<<>>, p, <<>>, e, 1, 0, TRUE) /\ p[1] = 0
<1> DEFINE z == <<>>
<1>1. AreFrames(z, kinds)
  BY DEF AreFrames
<1>2. Allowed(z) = <<>>
  <2>1. PICK a \in 0..Len(z) : Allowed(z) = SubSeq(z, 1, a)
    <3> HIDE DEF z
    <3> QED BY <1>1, AllowedFront
  <2>2. a = 0
    OBVIOUS
  <2> QED BY <2>1, <2>2
<1>3. FlattenSeq(Allowed(z)) = <<>>
  BY <1>2, NoFront
<1>4. \E p, e : Lies(z, p, FlattenSeq(Allowed(z)), e, 1, 0, TRUE) /\ p[1] = 0
  <2> HIDE DEF z
  <2> QED BY <1>1, LiesAnswered
<1> QED BY <1>1, <1>3, <1>4

(* A server that sends nothing new, or gives up.                           *)
LEMMA UnsentSame ==
  ASSUME Unsent, UNCHANGED <<is_h2, response>>,
         server'.up = FALSE \/ (server'.up = server.up /\ server'.to_send = server.to_send)
  PROVE  Unsent'
<1>1. CASE server'.up = FALSE
  BY <1>1 DEF Unsent
<1>2. CASE server'.up = server.up /\ server'.to_send = server.to_send
  BY <1>2 DEF Unsent
<1> QED BY <1>1, <1>2

(* The first response.                                                     *)
LEMMA UnsentAnswered ==
  ASSUME StreamTypes, Unsent, server.up = TRUE, is_h2 = TRUE, response = <<>>, is_h2' = is_h2,
         NEW frames, AreFrames(frames, Kinds2),
         server'.to_send = server.to_send \o FlattenSeq(Allowed(frames)),
         response' = frames
  PROVE  Unsent'
<1>1. PICK p, t, e, y : /\ Lies(response, p, t, e, 1, 0, TRUE)
                        /\ y \in 0..Len(t) /\ server.to_send = Slice(t, y, Len(t))
  BY DEF Unsent
<1>2. t = <<>>
  <2>1. Len(response) = 0 /\ FlattenSeq(response) = <<>>
    BY NoFront
  <2>2. e \in 0..Len(FlattenSeq(response)) /\ Len(FlattenSeq(response)) = 0
    BY <1>1, <2>1 DEF Lies
  <2>3. e = 0
    BY <2>2
  <2>4. t = Slice(<<>>, 0, 0)
    BY <1>1, <2>1, <2>3 DEF Lies
  <2> QED BY <2>4 DEF Slice
<1>3. server.to_send = <<>>
  <2>1. y = 0 /\ Len(t) = 0
    BY <1>1, <1>2
  <2> QED BY <1>1, <1>2, <2>1 DEF Slice
<1> DEFINE u == FlattenSeq(Allowed(frames))
<1>4. u \in Seq(Cell) /\ \E f, g : Lies(frames, f, u, g, 1, 0, TRUE)
  BY LiesAnswered
<1> HIDE DEF u
<1>5. server'.to_send = u
  <2>1. server'.to_send = server.to_send \o u
    BY DEF u
  <2> QED BY <1>3, <1>4, <2>1
<1>6. u = Slice(u, 0, Len(u)) /\ 0 \in 0..Len(u)
  <2>1. u = Slice(u, 0, Len(u))
    BY <1>4, WholePart, Zenon
  <2> QED BY <1>4, <2>1
<1>7. PICK f, g : Lies(frames, f, u, g, 1, 0, TRUE)
  BY <1>4
<1>8. PICK v, z : v = u /\ z = 0
  OBVIOUS
<1>9. /\ Lies(response', f, v, g, 1, 0, TRUE)
      /\ z \in 0..Len(v) /\ server'.to_send = Slice(v, z, Len(v))
  BY <1>5, <1>6, <1>7, <1>8
<1> QED BY <1>9 DEF Unsent

(* A record of it sent.                                                    *)
LEMMA UnsentLess ==
  ASSUME StreamTypes, Unsent, UNCHANGED <<is_h2, response>>,
         NEW n \in 0..Len(server.to_send),
         server'.to_send = SubSeq(server.to_send, n + 1, Len(server.to_send)),
         server'.up = server.up
  PROVE  Unsent'
<1> SUFFICES ASSUME server'.up = TRUE, is_h2' = TRUE PROVE Unsent'
  BY DEF Unsent
<1>1. PICK p, t, e, y : /\ Lies(response, p, t, e, 1, 0, TRUE)
                        /\ y \in 0..Len(t) /\ server.to_send = Slice(t, y, Len(t))
  BY DEF Unsent
<1>2. t \in Seq(Cell) /\ Len(t) \in Nat
  <2>1. AreFrames(response, Kinds2)
    BY DEF StreamTypes
  <2>2. Streams(response, p, t, e)
    BY <1>1, <2>1, Streaming, Zenon
  <2>3. t \in Seq(Cell)
    BY <2>2 DEF Streams
  <2> QED BY <2>3
<1> DEFINE u == server.to_send
           c == Len(t)
<1>3. c \in 0..c /\ y \in 0..c /\ c \in Nat /\ u = Slice(t, y, c)
  BY <1>1, <1>2
<1>4. Len(u) = c - y
  <2>1. IsSlice(Cell, t, y, c, Slice(t, y, c))
    <3> HIDE DEF u
    <3> QED BY <1>1, <1>2, <1>3, SliceIs, Zenon
  <2> HIDE DEF u, c
  <2> QED BY <1>3, <2>1 DEF IsSlice
<1>5. PICK z : z = y + n
  OBVIOUS
<1>6. n \in 0..c - y /\ z \in 0..c /\ y + (c - y) = c /\ c - y \in 0..c - y
      /\ n \in 0..Len(u)
  <2>1. n \in 0..Len(u)
    OBVIOUS
  <2> HIDE DEF u, c
  <2> QED BY <1>3, <1>4, <1>5, <2>1
<1>7. Slice(u, n, c - y) = Slice(t, z, c)
  <2> HIDE DEF u, c
  <2>1. n \in 0..c - y /\ c - y \in 0..c - y /\ c \in 0..Len(t) /\ y \in 0..c
    BY <1>3, <1>6 DEF c
  <2>2. Nested(t, y, c, n, c - y)
    BY <1>2, <2>1, NestedParts, Zenon
  <2> QED BY <1>3, <1>5, <1>6, <2>2 DEF Nested
<1>8. server'.to_send = Slice(t, z, c)
  <2>1. server'.to_send = SubSeq(u, n + 1, Len(u))
    OBVIOUS
  <2> HIDE DEF u, c
  <2> QED BY <1>4, <1>7, <2>1 DEF Slice
<1>9. /\ Lies(response', p, t, e, 1, 0, TRUE)
      /\ z \in 0..Len(t) /\ server'.to_send = Slice(t, z, Len(t))
  BY <1>1, <1>6, <1>8
<1> QED BY <1>9 DEF Unsent

(* The answer to a second request over HTTP/2.                             *)
LEMMA GoawaySent ==
  ASSUME StreamInv, Unsent, StepTypes, status = "done", status' = status, server.up = TRUE,
         is_h2 = TRUE,
         server' = [server EXCEPT !.up = FALSE,
                      !.to_send = RestOfFrame \o Frame("GOAWAY", 0, 1)],
         UNCHANGED <<wire, hs_buf, is_h2, caller_len, requests, response, delivered>>
  PROVE  StreamInv'
<1>1. StreamTypes /\ DOMAIN server = ServerFields /\ server.to_send \in Seq(Cell)
  BY DEF StreamInv, StreamTypes, StepTypes
<1>2. RestOfFrame = Rest(server.to_send)
  BY DEF RestOfFrame, Rest
<1>3. PICK g : g = Rest(server.to_send) \o Goaway
  OBVIOUS
<1>4. server' = [server EXCEPT !.up = FALSE, !.to_send = g]
  BY <1>2, <1>3 DEF Goaway
<1>5. /\ server'.up = FALSE /\ server'.asked = server.asked /\ server'.key = server.key
      /\ server'.seq = server.seq /\ server'.to_send = g
  BY <1>1, <1>4 DEF ServerFields
<1>6. g \in Seq(Cell)
  <2>1. PICK p, t, e, y : /\ Lies(response, p, t, e, 1, 0, TRUE)
                          /\ y \in 0..Len(t) /\ server.to_send = Slice(t, y, Len(t))
    BY DEF Unsent
  <2>2. AreFrames(response, Kinds2)
    BY <1>1 DEF StreamTypes
  <2>3. PICK u : u = server.to_send
    OBVIOUS
  <2>4. Finishes(response, p, t, 1, 0, y, u)
    <3>1. 0 <= y
      BY <2>1
    <3> QED BY <2>1, <2>2, <2>3, <3>1, LiesFinished
  <2>5. PICK n \in 0..Len(u) : Rest(u) = SubSeq(u, 1, n)
    BY <2>4 DEF Finishes
  <2>6. u \in Seq(Cell)
    BY <1>1, <2>3
  <2>7. SubSeq(u, 1, n) \in Seq(Cell)
    BY <2>5, <2>6
  <2>8. Goaway \in Seq(Cell)
    <3>1. "GOAWAY" \in Kinds \cup {"BODY"} /\ 0 \in Nat /\ 1 \in Nat \ {0}
      BY DEF Kinds
    <3> QED BY <3>1, FrameIs DEF Goaway
  <2>9. Rest(u) \in Seq(Cell)
    BY <2>5, <2>7
  <2>10. Rest(u) \o Goaway \in Seq(Cell)
    BY <2>8, <2>9
  <2> QED BY <1>3, <2>3, <2>10
<1>7. StreamTypes'
  BY <1>1, <1>5, <1>6 DEF StreamTypes
<1>8. HasExtension => HasExtension'
  BY DEF HasExtension
<1>9. ASSUME OnTheWay PROVE OnTheWay'
  BY <1>1, <1>3, <1>5, <1>9, GoawayOnTheWay
<1> QED BY <1>7, <1>8, <1>9, StreamKept

(* Every answer of a server.                                               *)
LEMMA AnswerSent ==
  ASSUME StreamInv, Unsent, StepTypes, ServerAnswers
  PROVE  StreamInv' /\ Unsent'
<1>1. PICK o \in Foremost(outbound) :
        /\ status = "done" /\ server.up
        /\ IF o.torn \/ o.key # "data" \/ o.seq # server.next
           THEN /\ wire' = Append(wire, ServerRecord("alert", Alert))
                /\ server' = [server EXCEPT !.up = FALSE, !.to_send = <<>>]
                /\ UNCHANGED response
           ELSE IF o.what = "ack"
           THEN /\ server' = [server EXCEPT !.next = @ + 1]
                /\ UNCHANGED <<wire, response>>
           ELSE IF is_h2 /\ server.asked > 0
           THEN /\ server' = [server EXCEPT !.up = FALSE,
                                !.to_send = RestOfFrame \o Frame("GOAWAY", 0, 1)]
                /\ UNCHANGED <<wire, response>>
           ELSE \E frames \in Responses(server.asked + 1) :
                  /\ server' = [server EXCEPT !.next = @ + 1, !.asked = @ + 1,
                                  !.to_send = @ \o FlattenSeq(Allowed(frames))]
                  /\ response' = response \o frames
                  /\ UNCHANGED wire
        /\ UNCHANGED <<status, hs_buf, is_h2, caller_len, requests, delivered>>
  BY DEF ServerAnswers
<1>2. StreamTypes /\ DOMAIN server = ServerFields /\ server.up \in BOOLEAN
      /\ is_h2 \in BOOLEAN /\ server.asked \in Nat
  BY DEF StreamInv, StreamTypes, StepTypes
<1>3. server.up = TRUE /\ status = "done" /\ status' = status
      /\ UNCHANGED <<hs_buf, is_h2, caller_len, requests, delivered>>
  BY <1>1, <1>2
<1>4. \/ /\ wire' = Append(wire, ServerRecord("alert", Alert))
         /\ server' = [server EXCEPT !.up = FALSE, !.to_send = <<>>]
         /\ UNCHANGED response
      \/ /\ server' = [server EXCEPT !.next = @ + 1]
         /\ UNCHANGED <<wire, response>>
      \/ /\ is_h2 /\ server.asked > 0
         /\ server' = [server EXCEPT !.up = FALSE,
                         !.to_send = RestOfFrame \o Frame("GOAWAY", 0, 1)]
         /\ UNCHANGED <<wire, response>>
      \/ /\ ~(is_h2 /\ server.asked > 0)
         /\ \E frames \in Responses(server.asked + 1) :
              /\ server' = [server EXCEPT !.next = @ + 1, !.asked = @ + 1,
                              !.to_send = @ \o FlattenSeq(Allowed(frames))]
              /\ response' = response \o frames
              /\ UNCHANGED wire
  BY <1>1, Zenon
<1>5. CASE /\ wire' = Append(wire, ServerRecord("alert", Alert))
           /\ server' = [server EXCEPT !.up = FALSE, !.to_send = <<>>]
           /\ UNCHANGED response
  <2>1. StreamInv'
    BY <1>3, <1>5, AlertSent
  <2>2. server'.up = FALSE
    BY <1>2, <1>5 DEF ServerFields
  <2> QED BY <1>3, <1>5, <2>1, <2>2, UnsentSame
<1>6. CASE /\ server' = [server EXCEPT !.next = @ + 1]
           /\ UNCHANGED <<wire, response>>
  <2>1. /\ server'.up = server.up /\ server'.to_send = server.to_send
        /\ server'.asked = server.asked /\ server'.key = server.key
        /\ server'.seq = server.seq
    BY <1>2, <1>6 DEF ServerFields
  <2>2. StreamTypes'
    BY <1>2, <1>3, <1>6, <2>1 DEF StreamTypes
  <2>3. StreamInv'
    BY <1>3, <1>6, <2>1, <2>2, StreamUntouched
  <2> QED BY <1>3, <1>6, <2>1, <2>3, UnsentSame
<1>7. CASE /\ is_h2 /\ server.asked > 0
           /\ server' = [server EXCEPT !.up = FALSE,
                           !.to_send = RestOfFrame \o Frame("GOAWAY", 0, 1)]
           /\ UNCHANGED <<wire, response>>
  <2>1. StreamInv'
    <3>1. is_h2 = TRUE
      BY <1>2, <1>7
    <3> QED BY <1>3, <1>7, <3>1, GoawaySent
  <2>2. server'.up = FALSE
    BY <1>2, <1>7 DEF ServerFields
  <2> QED BY <1>3, <1>7, <2>1, <2>2, UnsentSame
<1>8. CASE /\ ~(is_h2 /\ server.asked > 0)
           /\ \E frames \in Responses(server.asked + 1) :
                /\ server' = [server EXCEPT !.next = @ + 1, !.asked = @ + 1,
                                !.to_send = @ \o FlattenSeq(Allowed(frames))]
                /\ response' = response \o frames
                /\ UNCHANGED wire
  <2>1. PICK frames \in Responses(server.asked + 1) :
          /\ server' = [server EXCEPT !.next = @ + 1, !.asked = @ + 1,
                          !.to_send = @ \o FlattenSeq(Allowed(frames))]
          /\ response' = response \o frames
          /\ UNCHANGED wire
    BY <1>8
  <2>2. StreamInv'
    BY <1>3, <1>8, <2>1, ResponseSent
  <2>3. ASSUME is_h2 = TRUE PROVE Unsent'
    <3>1. AreFrames(frames, Kinds2)
      BY <1>2, <2>1, <2>3, ResponsesAre
    <3>2. response = <<>>
      <4>1. server.asked = 0
        BY <1>2, <1>8, <2>3
      <4> QED BY <1>2, <4>1 DEF StreamTypes
    <3>3. response' = frames
      <4> DEFINE C == Seq(Cell)
      <4>1. frames \in Seq(C)
        BY <3>1 DEF AreFrames
      <4> HIDE DEF C
      <4> QED BY <2>1, <3>2, <4>1
    <3>4. PICK u : u = FlattenSeq(Allowed(frames))
      OBVIOUS
    <3>5. server'.to_send = server.to_send \o u
      BY <1>2, <2>1, <3>4 DEF ServerFields
    <3> QED BY <1>2, <1>3, <2>3, <3>1, <3>2, <3>3, <3>4, <3>5, UnsentAnswered
  <2>4. ASSUME is_h2 = FALSE PROVE Unsent'
    BY <1>3, <2>4 DEF Unsent
  <2> QED BY <1>2, <2>2, <2>3, <2>4
<1> QED BY <1>4, <1>5, <1>6, <1>7, <1>8

(* Every step of the data.                                                 *)
LEMMA DataDelivered ==
  ASSUME StreamInv, Unsent, StepInv, DataStep
  PROVE  StreamInv' /\ Unsent'
<1>1. StepTypes /\ StreamTypes
  BY DEF StepInv, StreamInv
<1>2. receiving => status = "done"
  <2>1. receiving => receiving = TRUE
    BY <1>1, Zenon DEF StepTypes
  <2> QED BY <2>1 DEF StepInv
<1>3. CASE SendRequest
  <2>1. /\ status = "done" /\ status' = status /\ requests' = requests + 1
        /\ requests < MaxRequests
        /\ UNCHANGED <<wire, hs_buf, is_h2, caller_len, server, response, delivered>>
    BY <1>3 DEF SendRequest
  <2>2. requests' \in 0..MaxRequests
    BY <1>1, <2>1, MaxRequestsAssumption DEF StreamTypes
  <2>3. StreamTypes'
    BY <1>1, <2>1, <2>2 DEF StreamTypes
  <2>4. server'.to_send = server.to_send /\ server'.up = server.up
    BY <2>1
  <2> QED BY <2>1, <2>3, <2>4, StreamUntouched, UnsentSame
<1>4. CASE CallRecv
  <2>1. /\ status = "done" /\ status' = status /\ requests' = requests
        /\ UNCHANGED <<wire, hs_buf, is_h2, caller_len, server, response, delivered>>
    BY <1>4 DEF CallRecv, hsVars
  <2>2. StreamTypes'
    BY <1>1, <2>1 DEF StreamTypes
  <2>3. server'.to_send = server.to_send /\ server'.up = server.up
    BY <2>1
  <2> QED BY <2>1, <2>2, <2>3, StreamUntouched, UnsentSame
<1>5. CASE RecvFails
  <2>1. /\ status = "done" /\ status' = "closed" /\ requests' = requests
        /\ UNCHANGED <<wire, hs_buf, is_h2, caller_len, server, response, delivered>>
    BY <1>2, <1>5 DEF RecvFails, ReturnError
  <2>2. StreamTypes'
    BY <1>1, <2>1 DEF StreamTypes
  <2>3. server'.to_send = server.to_send /\ server'.up = server.up
    BY <2>1
  <2> QED BY <2>1, <2>2, <2>3, StreamUntouched, UnsentSame
<1>6. CASE RecvFrame
  <2>1. receiving /\ UNCHANGED <<is_h2, server, response>>
    BY <1>6 DEF RecvFrame
  <2>2. server'.to_send = server.to_send /\ server'.up = server.up
    BY <2>1
  <2> QED BY <1>2, <1>6, <2>1, <2>2, FrameReceived, UnsentSame
<1>7. CASE RecvRecord
  <2>1. receiving /\ UNCHANGED <<is_h2, server, response>>
    BY <1>7 DEF RecvRecord
  <2>2. server'.to_send = server.to_send /\ server'.up = server.up
    BY <2>1
  <2> QED BY <1>2, <1>7, <2>1, <2>2, RecordReceived, UnsentSame
<1>8. CASE ServerAnswers
  BY <1>1, <1>8, AnswerSent
<1>9. CASE ServerSends
  <2>1. PICK n \in 1..MaxRecord :
          /\ n <= Len(server.to_send)
          /\ server' = [server EXCEPT !.seq = @ + 1,
                          !.to_send = SubSeq(@, n + 1, Len(@))]
          /\ UNCHANGED <<is_h2, response>>
    BY <1>9 DEF ServerSends
  <2>2. server.to_send \in Seq(Cell) /\ DOMAIN server = ServerFields
    BY <1>1 DEF StreamTypes, StepTypes
  <2>3. n \in 0..Len(server.to_send)
    <3>1. Len(server.to_send) \in Nat /\ MaxRecord \in Nat
      BY <2>2, MaxRecordAssumption
    <3> QED BY <2>1, <3>1
  <2>4. server'.up = server.up
        /\ server'.to_send = SubSeq(server.to_send, n + 1, Len(server.to_send))
    BY <2>1, <2>2 DEF ServerFields
  <2>5. Unsent'
    BY <1>1, <2>1, <2>3, <2>4, UnsentLess
  <2> QED BY <1>1, <1>9, <2>5, DataSent
<1>10. CASE ServerPostHandshake
  <2>1. UNCHANGED <<is_h2, response>>
    BY <1>10 DEF ServerPostHandshake
  <2>2. \/ server' = [server EXCEPT !.seq = @ + 1]
        \/ server' = [server EXCEPT !.key = "next", !.seq = 0, !.rekeyed = TRUE]
    BY <1>10 DEF ServerPostHandshake
  <2>3. server'.up = server.up /\ server'.to_send = server.to_send
    <3>1. DOMAIN server = ServerFields
      BY <1>1 DEF StepTypes
    <3>2. CASE server' = [server EXCEPT !.seq = @ + 1]
      BY <3>1, <3>2 DEF ServerFields
    <3>3. CASE server' = [server EXCEPT !.key = "next", !.seq = 0, !.rekeyed = TRUE]
      BY <3>1, <3>3 DEF ServerFields
    <3> QED BY <2>2, <3>2, <3>3
  <2> QED BY <1>1, <1>10, <2>1, <2>3, NoticeSent, UnsentSame
<1> QED BY <1>3, <1>4, <1>5, <1>6, <1>7, <1>8, <1>9, <1>10 DEF DataStep

-----------------------------------------------------------------------------
(* From the handshake to the data.                                         *)

(* A connection on which nothing has been sent yet.                        *)
LEMMA EmptyOnTheWay ==
  ASSUME wire = <<>>, hs_buf = <<>>, Silence
  PROVE  OnTheWay
<1>1. response = <<>> /\ delivered = <<>> /\ server.to_send = <<>>
  BY DEF Silence
<1>2. PICK t, q : t = <<>> /\ q = [i \in 1..1 |-> 0]
  OBVIOUS
<1>3. Len(t) = 0 /\ t \in Seq(Cell) /\ q[1] = 0 /\ Slice(t, 0, 0) = <<>>
  BY <1>2 DEF Slice
<1>4. OnWay(wire, server.to_send, t, q)
  <2>1. Len(wire) = 0 /\ Len(wire) + 1 = 1
    BY <1>1
  <2>2. q \in [1..Len(wire) + 1 -> 0..Len(t)]
    BY <1>2, <1>3, <2>1
  <2>3. Piecewise(wire, t, q)
    BY <2>1 DEF Piecewise
  <2>4. server.to_send = Slice(t, q[Len(wire) + 1], Len(t))
    BY <1>1, <1>3, <2>1
  <2> QED BY <2>2, <2>3, <2>4 DEF OnWay
<1>5. Framed(t, q)
  <2>1. PICK p, e : Lies(<<>>, p, <<>>, e, 1, 0, TRUE) /\ p[1] = 0
    BY NothingLies
  <2>2. PICK j : j = 1
    OBVIOUS
  <2>3. Lies(response, p, t, e, j, q[1], server.up)
    <3>1. Lies(response, p, t, e, j, q[1], TRUE)
      BY <1>1, <1>2, <1>3, <2>1, <2>2
    <3>2. t = Slice(FlattenSeq(response), 0, e)
      <4>1. t = Slice(FlattenSeq(response), 0, e) \/ TRUE = FALSE
        BY <3>1 DEF Lies
      <4> QED BY <4>1
    <3> QED BY <3>1, <3>2 DEF Lies
  <2>4. hs_buf = Slice(t, p[j], q[1])
    BY <1>3, <2>1, <2>2
  <2>5. delivered = FrontOf(Taken, j - 1)
    <3>1. j - 1 = 0
      BY <2>2
    <3> QED BY <1>1, <3>1, NoFront
  <2> QED BY <2>3, <2>4, <2>5 DEF Framed
<1>6. Raw(t, q)
  <2>1. Text = <<>>
    BY <1>1, NoFront DEF Text
  <2>2. PICK e : e = 0
    OBVIOUS
  <2>3. e \in 0..Len(Text) /\ e = Len(Text)
    BY <2>1, <2>2
  <2>4. t = Slice(Text, 0, e) /\ delivered = Slice(t, 0, q[1])
    BY <1>1, <1>2, <1>3, <2>1, <2>2
  <2> QED BY <2>3, <2>4 DEF Raw
<1> QED BY <1>3, <1>4, <1>5, <1>6 DEF OnTheWay

(* Nothing delivered is in order.                                          *)
LEMMA SilentInOrder ==
  ASSUME Silence, is_h2 \in BOOLEAN
  PROVE  DeliveredInOrder
<1>1. response = <<>> /\ delivered = <<>>
  BY DEF Silence
<1>2. Expected = <<>>
  <2>1. Taken = <<>>
    <3>1. DOMAIN response = {}
      BY <1>1
    <3>2. Taken = [j \in {} |-> Payload(response[j], caller_len)]
      BY <3>1 DEF Taken
    <3>3. <<>> = [j \in {} |-> Payload(response[j], caller_len)]
      OBVIOUS
    <3> QED BY <3>2, <3>3
  <2>2. Text = <<>>
    BY <1>1, NoFront DEF Text
  <2>3. response \in Seq(Seq(Cell))
    BY <1>1
  <2> QED BY <2>1, <2>2, <2>3, ExpectedIs, NoFront
<1>3. IsPrefix(<<>>, <<>>)
  <2> DEFINE z == <<>>
  <2>1. z \in Seq(Cell) /\ 0 \in 0..Len(z) /\ Slice(z, 0, 0) = z
    BY DEF Slice
  <2> HIDE DEF z
  <2>2. IsPrefix(z, z)
    BY <2>1, FrontIsPrefix
  <2> QED BY <2>2 DEF z
<1> QED BY <1>1, <1>2, <1>3 DEF DeliveredInOrder

(* The server's first record of data, whatever the handshake was.          *)
LEMMA StreamInitially ==
  ASSUME Init
  PROVE  StreamInv /\ Unsent
<1>1. /\ response = <<>> /\ delivered = <<>> /\ requests = 0
      /\ is_h2 \in BOOLEAN
      /\ caller_len \in IF is_h2 THEN CallerLengths ELSE {Max(CallerLengths)}
      /\ status = "hello sent" /\ hs_buf = <<>>
      /\ server = [up |-> TRUE, next |-> FirstDataNumber, key |-> "data",
               seq |-> FirstDataNumber, to_send |-> <<>>, rekeyed |-> FALSE,
               asked |-> 0]
  BY DEF Init, HsInit, DataInit
<1>2. server.key = "data" /\ server.seq = FirstDataNumber /\ server.to_send = <<>>
      /\ server.asked = 0 /\ FirstDataNumber \in Nat
  BY <1>1 DEF FirstDataNumber
<1>3. caller_len \in CallerLengths
  <2>1. Max(CallerLengths) \in CallerLengths
    BY CallerLengthsAssumption DEF Max
  <2> QED BY <1>1, <2>1
<1>4. StreamTypes
  <2>1. AreFrames(response, IF is_h2 THEN Kinds2 ELSE {"BODY"})
    BY <1>1, NothingLies
  <2>2. Len(hs_buf) <= HsBufSize /\ requests \in 0..MaxRequests /\ server.to_send \in Seq(Cell)
    <3>1. Len(hs_buf) = 0
      BY <1>1
    <3>2. <<>> \in Seq(Cell)
      BY EmptySeq
    <3>3. Len(hs_buf) <= HsBufSize
      BY <3>1, HsBufSizeAssumption
    <3>4. requests \in 0..MaxRequests
      <4>1. requests = 0
        BY <1>1
      <4> QED BY <4>1, MaxRequestsAssumption
    <3> QED BY <1>2, <3>2, <3>3, <3>4
  <2> QED BY <1>1, <1>2, <1>3, <2>1, <2>2 DEF StreamTypes
<1>5. Silence
  BY <1>1, <1>2 DEF Silence
<1>6. StreamInv
  BY <1>1, <1>4, <1>5, SilentInOrder DEF StreamInv
<1>7. Unsent
  <2>1. PICK p, e : Lies(<<>>, p, <<>>, e, 1, 0, TRUE)
    BY NothingLies
  <2>2. PICK t, y : t = <<>> /\ y = 0
    OBVIOUS
  <2>3. /\ Lies(response, p, t, e, 1, 0, TRUE)
        /\ y \in 0..Len(t) /\ server.to_send = Slice(t, y, Len(t))
    <3>1. Lies(response, p, t, e, 1, 0, TRUE)
      BY <1>1, <2>1, <2>2
    <3>2. y \in 0..Len(t) /\ Len(t) = 0
      BY <2>2
    <3>3. Slice(t, 0, 0) = <<>>
      BY DEF Slice
    <3> QED BY <1>2, <2>2, <3>1, <3>2, <3>3
  <2> QED BY <2>3 DEF Unsent
<1> QED BY <1>6, <1>7

(* A connection that has been handed over has nothing more of the          *)
(* handshake to do, except that a TLS 1.2 server may still answer one that *)
(* failed.                                                                 *)
LEMMA HandshakeOver ==
  ASSUME HsNext, HandInv, ~Beginning
  PROVE  status # "done" /\ UNCHANGED <<status, hs_buf>>
<1>1. status \notin {"hello sent", "running"}
  BY DEF Beginning
<1>2. ServerAnswers12
  BY <1>1 DEF HsNext, ReadServerHello, RefuseServerHello, ReadAlert, ReadChangeCipherSpec,
     ReadHandshake12, ReadFinished12, ReadEncrypted13, ReadFails
<1>3. version = "1.2" /\ answered # TRUE /\ UNCHANGED <<status, hs_buf>>
  BY <1>2, Zenon DEF ServerAnswers12
<1>4. status # "done"
  <2>1. status = "done" /\ version = "1.2" => answered = TRUE
    BY Zenon DEF HandInv, Done
  <2> QED BY <1>3, <2>1
<1> QED BY <1>3, <1>4

(* A step of the handshake, and the hand-over to the data.                 *)
LEMMA HandshakeSilent ==
  ASSUME StreamInv, Unsent, HandInv, HandshakeStep
  PROVE  StreamInv' /\ Unsent'
<1>1. HsNext /\ UNCHANGED dataVars
  BY DEF HandshakeStep
<1>2. UNCHANGED <<is_h2, caller_len, requests, server, response, delivered>>
  BY <1>1 DEF dataVars
<1>3. HandInv' /\ Handover
  BY <1>1, HandStep
<1>4. /\ status' \in {status, "running", "failed", "done"}
      /\ status \notin {"hello sent", "running"} => UNCHANGED status
  BY <1>1, HandshakeEnds
<1>5. Unsent'
  <2>1. server'.up = server.up /\ server'.to_send = server.to_send
    BY <1>2
  <2> QED BY <1>2, <2>1, UnsentSame
<1>6. StreamTypes /\ DeliveredInOrder /\ DeliveredInOrder'
  <2>1. StreamTypes /\ DeliveredInOrder
    BY DEF StreamInv
  <2> QED BY <1>2, <2>1 DEF DeliveredInOrder, Expected, HasExtension
<1>7. CASE Beginning
  <2>1. Silence /\ Silence'
    BY <1>2, <1>7 DEF StreamInv, Silence
  <2>2. Handover => (status' = "done" => wire' = <<>> /\ hs_buf' = <<>>)
    BY <1>7 DEF Handover, Beginning
  <2>3. status' = "done" => OnTheWay'
    <3>1. (wire = <<>> /\ hs_buf = <<>> /\ Silence => OnTheWay)'
      BY EmptyOnTheWay, PTL
    <3> QED BY <1>3, <2>1, <2>2, <3>1
  <2>4. Len(hs_buf') <= HsBufSize
    <3>1. CASE Beginning'
      BY <1>3, <3>1 DEF HandInv, HandTypes
    <3>2. CASE ~Beginning'
      <4>1. status' = "done"
        BY <1>4, <1>7, <3>2 DEF Beginning
      <4>2. Len(hs_buf') = 0
        BY <1>3, <2>2, <4>1
      <4> QED BY <4>2, HsBufSizeAssumption
    <3> QED BY <3>1, <3>2
  <2>5. status' = "done" => wire' \in Seq(Passing) /\ hs_buf' \in Seq(Cell)
    BY <1>3, <2>2, EmptySeq
  <2>6. StreamTypes'
    BY <1>2, <1>6, <2>4, <2>5 DEF StreamTypes
  <2> QED BY <1>5, <1>6, <2>1, <2>3, <2>6 DEF StreamInv
<1>8. CASE ~Beginning
  <2>1. status # "done" /\ UNCHANGED <<status, hs_buf>>
    BY <1>1, <1>8, HandshakeOver
  <2>2. ~(Beginning') /\ status' # "done"
    BY <1>8, <2>1 DEF Beginning
  <2>3. StreamTypes'
    BY <1>2, <1>6, <2>1, <2>2 DEF StreamTypes
  <2> QED BY <1>5, <1>6, <2>2, <2>3 DEF StreamInv
<1> QED BY <1>7, <1>8

(* A step of nobody.                                                       *)
LEMMA NothingMoves ==
  ASSUME StreamInv, Unsent, UNCHANGED vars
  PROVE  StreamInv' /\ Unsent'
<1>1. /\ UNCHANGED <<wire, status, hs_buf, is_h2, caller_len>>
      /\ UNCHANGED <<requests, server, response, delivered>>
  BY DEF vars, hsVars, dataVars
<1>2. Unsent'
  <2>1. server'.up = server.up /\ server'.to_send = server.to_send
    BY <1>1
  <2> QED BY <1>1, <2>1, UnsentSame
<1>3. StreamTypes' /\ DeliveredInOrder'
  <2>1. StreamTypes /\ DeliveredInOrder
    BY DEF StreamInv
  <2>2. StreamTypes'
    BY <1>1, <2>1 DEF StreamTypes
  <2> QED BY <1>1, <2>1, <2>2 DEF DeliveredInOrder, Expected, HasExtension
<1>4. Beginning' => Silence'
  BY <1>1 DEF StreamInv, Beginning, Silence
<1>5. status' = "done" => HasExtension' \/ OnTheWay'
  <2>1. HasExtension => HasExtension'
    BY <1>1 DEF HasExtension
  <2>2. ASSUME OnTheWay PROVE OnTheWay'
    BY <1>1, <2>2, StaysOnTheWay
  <2> QED BY <1>1, <2>1, <2>2 DEF StreamInv
<1> QED BY <1>2, <1>3, <1>4, <1>5 DEF StreamInv

-----------------------------------------------------------------------------
DeliveryInv == ConnectionInv /\ StreamInv /\ Unsent

(* DeliveryInv is inductive.                                               *)
LEMMA DeliveryStep == DeliveryInv /\ [Next]_vars => DeliveryInv'
<1> SUFFICES ASSUME DeliveryInv, [Next]_vars PROVE DeliveryInv'
  OBVIOUS
<1>1. ConnectionInv /\ StreamInv /\ Unsent
  BY DEF DeliveryInv
<1>2. ConnectionInv'
  BY <1>1, ConnectionStep
<1>3. HandInv /\ StepInv
  BY <1>1 DEF ConnectionInv
<1>4. StreamInv' /\ Unsent'
  BY <1>1, <1>3, HandshakeSilent, DataDelivered, NothingMoves DEF Next
<1> QED BY <1>2, <1>4 DEF DeliveryInv

(* The caller gets the responses in order, however frames are cut into     *)
(* records and records mixed with tickets and key updates, through both    *)
(* versions of HTTP and whatever the server gives up in between; only from *)
(* a frame longer than its buffer is anything left out.  A frame of an     *)
(* unknown type, which ends the framing, is the one exception.             *)
THEOREM ResponsesInOrder == Spec => []DeliveredInOrder
<1>1. Init => DeliveryInv
  BY ConnectionInitially, StreamInitially DEF DeliveryInv
<1>2. DeliveryInv => DeliveredInOrder
  BY DEF DeliveryInv, StreamInv
<1> QED BY <1>1, <1>2, DeliveryStep, PTL DEF Spec

(* The types of the variables; above all, what is queued fits hs_buf,      *)
(* through the handshake and through every frame after it.                 *)
THEOREM ConnectionType == Spec => []TypeOK
<1>1. Init => DeliveryInv
  BY ConnectionInitially, StreamInitially DEF DeliveryInv
<1>2. DeliveryInv => TypeOK
  <2> SUFFICES ASSUME DeliveryInv PROVE TypeOK
    OBVIOUS
  <2>1. NonceTypes /\ HandTypes /\ StepTypes /\ StreamTypes
    BY DEF DeliveryInv, ConnectionInv, NonceInv, HandInv, StepInv, StreamInv
  <2>2. HsTypeOK
    BY <2>1 DEF HsTypeOK, NonceTypes, HandTypes, StreamTypes, Keys
  <2>3. \A i \in DOMAIN outbound : outbound[i].seq \in Nat
    <3>1. outbound \in Seq(Outgoing)
      BY <2>1 DEF StepTypes
    <3>2. \A i \in DOMAIN outbound : outbound[i] \in Outgoing
      BY <3>1
    <3> QED BY <3>2 DEF Outgoing
  <2> QED BY <2>1, <2>2, <2>3 DEF TypeOK, StepTypes, StreamTypes
<1> QED BY <1>1, <1>2, DeliveryStep, PTL DEF Spec
=============================================================================
