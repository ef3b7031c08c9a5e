---------------------------- MODULE QuicHandshake ----------------------------
(***************************************************************************)
(* The handshake of one QUIC attempt (nanotls.c: nanotls_try_quic) against *)
(* a server and a network.  The server sends its ServerHello in an Initial *)
(* datagram and the rest of its flight, cut in some way into Handshake     *)
(* datagrams and these into CRYPTO frames; the network may deliver a       *)
(* datagram late, again, or never, and a Retry at any time.                *)
(* The client appends what a Handshake datagram carries to crypto_data     *)
(* without looking at its offset, hashes every whole message, and is done  *)
(* at the first Finished.                                                  *)
(* The flight is a sequence of units: a message of n units is the pair     *)
(* <<m, 1>> (the unit with its header) up to <<m, n>>.  A unit that is not *)
(* the first of its message has no header, but the client reads one there  *)
(* when it gets out of step; what length it finds is chosen at the start.  *)
(***************************************************************************)
EXTENDS Integers, Sequences, SequencesExt

CONSTANTS
  MessageLengths,  \* units of each message after ServerHello, Finished last
  MaxPayload,      \* units a Handshake datagram holds
  CryptoSize,      \* units crypto_data holds (16384 bytes)
  MaxDatagrams     \* bound of the model: datagrams unless orderly, Retries counted

ASSUME MessageLengthsAssumption ==
  MessageLengths \in Seq(Nat \ {0}) /\ MessageLengths # <<>>
ASSUME SizesAssumption == MaxPayload \in Nat \ {0} /\ CryptoSize \in Nat \ {0}
ASSUME MaxDatagramsAssumption == MaxDatagrams \in Nat

VARIABLES
  orderly,     \* TRUE: datagrams arrive once, in order, within the 800 ms,
               \* from a server that sends no Retry and a good ServerHello
  ends,        \* the server's cut: the last unit of each datagram
  frames,      \* and the last units of the CRYPTO frames
  misread,     \* the length found in a unit that has no header
  answered,    \* the ClientHello the server answered, 0 for none
  status,      \* "running", "done" (a handle is returned) or "failed"
  hello,       \* the ClientHello in the transcript, counted from 1
  dcid,        \* whose connection id Initial packets carry
  retry_count,
  hs_keys,     \* the hellos the Handshake keys come from, <<>> until then
  crypto_data, \* crypto_data[0 .. crypto_fill-1]
  transcript,  \* what the running hash has absorbed
  seen         \* history: datagrams used once there are keys, 0 for an Initial

serverVars == <<orderly, ends, frames, misread, answered>>
helloVars == <<hello, dcid, retry_count>>
vars == <<serverVars, helloVars, status, hs_keys, crypto_data, transcript, seen>>

sh_done == hs_keys # <<>>   \* nanotls.c sets the flag with the keys

-----------------------------------------------------------------------------
Units(m) == [i \in 1..MessageLengths[m] |-> <<m, i>>]

(* The server's flight after ServerHello.                                  *)
Flight == FlattenSeq([m \in 1..Len(MessageLengths) |-> Units(m)])

(* The hellos are numbered below the messages of the flight.               *)
ClientHelloUnit(v) == <<-v, 1>>
ServerHelloUnit == <<0, 1>>
FinishedUnit == <<Len(MessageLengths), 1>>

HasHeader(u) == u[2] = 1
Headless == {u \in Range(Flight) : ~HasHeader(u)}

(* A cut is the last unit of each datagram, in increasing order.           *)
First(cut, k) == IF k = 1 THEN 1 ELSE cut[k - 1] + 1

Cuts ==
  {cut \in UNION {[1..n -> 1..Len(Flight)] : n \in 1..Len(Flight)} :
     /\ Last(cut) = Len(Flight)
     /\ \A k \in 1..Len(cut) : cut[k] - First(cut, k) \in 0..MaxPayload - 1}

(* Each datagram carries whole frames.                                     *)
FrameCuts(cut) == {f \in SUBSET (1..Len(Flight)) : Range(cut) \subseteq f}

Datagrams == 1..Len(ends)

MoreDatagrams == Len(seen) + retry_count < MaxDatagrams

(* The length the parser takes from the unit it stands on.                 *)
LengthAt(u) ==
  IF u = ServerHelloUnit THEN 1
  ELSE IF HasHeader(u) THEN MessageLengths[u[1]]
  ELSE misread[u]

(* Mutant: a message that ends where the data ends is not taken.           *)
ParseShort(b) ==
  LET from[i \in 1..Len(b) + 1] ==
        IF i > Len(b) THEN [used |-> i - 1, finished |-> FALSE]
        ELSE LET next == i + LengthAt(b[i])
             IN IF next >= Len(b) + 1
                THEN [used |-> i - 1, finished |-> FALSE]
                ELSE [from[next] EXCEPT !.finished = @ \/ b[i] = FinishedUnit]
  IN from[1]

(* The parser's loop over crypto_data: how many units belong to whole      *)
(* messages, and whether one of these was a Finished.                      *)
Parse(b) ==
  LET from[i \in 1..Len(b) + 1] ==
        IF i > Len(b) THEN [used |-> i - 1, finished |-> FALSE]
        ELSE LET next == i + LengthAt(b[i])
             IN IF next > Len(b) + 1
                THEN [used |-> i - 1, finished |-> FALSE]
                ELSE [from[next] EXCEPT !.finished = @ \/ b[i] = FinishedUnit]
  IN from[1]

-----------------------------------------------------------------------------
Init ==
  /\ orderly \in BOOLEAN
  /\ ends \in Cuts
  /\ frames \in FrameCuts(ends)
  /\ misread \in [Headless -> {1, Len(Flight) + 1}]
  /\ answered = 0
  /\ status = "running"
  /\ hello = 1 /\ dcid = "ours" /\ retry_count = 0
  /\ hs_keys = <<>>
  /\ crypto_data = <<>>
  /\ transcript = <<ClientHelloUnit(1)>>
  /\ seen = <<>>

(* Mutant: the client derives the Initial keys from the current id.        *)
ClientKeyIdCurrent == dcid

(* The connection id the client derives the Initial keys from: the first,  *)
(* original_dcid.                                                          *)
ClientKeyId == "ours"

(* The server derives them from the id that the Initial packets with a     *)
(* ClientHello carry: conn->dcid when it was sent.  (A copy of the first   *)
(* that quic_check_pto sends after a Retry carries the new id too and is   *)
(* not understood; those sent before it are.)                              *)
ServerKeyId(v) == IF v = 1 THEN "ours" ELSE "theirs"

(* A ClientHello reaches the server, the first or a later one, before or   *)
(* after a Retry, and is answered if it can be decrypted.                  *)
ServerAnswers ==
  /\ answered = 0
  /\ \E v \in 1..hello : ServerKeyId(v) = ClientKeyId /\ answered' = v
  /\ UNCHANGED <<orderly, ends, frames, misread, status, helloVars, hs_keys,
                 crypto_data, transcript, seen>>

-----------------------------------------------------------------------------
(* Mutant: retry_count is not tested.                                      *)
ReceiveRetryAlways ==
  /\ status = "running" /\ ~orderly /\ MoreDatagrams
  /\ retry_count' = retry_count + 1
  /\ hello' = hello + 1
  /\ dcid' = "theirs"
  /\ transcript' = <<ClientHelloUnit(hello')>>
  /\ UNCHANGED <<serverVars, status, hs_keys, crypto_data, seen>>

(* A Retry, in any phase: sh_done is not tested, nor the integrity tag.    *)
(* The fourth ends the attempt, one that is too short for quic_parse_retry *)
(* is only counted, any other makes a new ClientHello to the new id, with  *)
(* a new transcript.  The Handshake keys and crypto_data stay.  (What it   *)
(* does to the packet numbers and to the sent queue is in QuicRecovery.)   *)
ReceiveRetry ==
  /\ status = "running" /\ ~orderly /\ MoreDatagrams
  /\ retry_count' = retry_count + 1
  /\ \/ /\ retry_count > 2
        /\ status' = "failed" /\ UNCHANGED <<hello, dcid, transcript>>
     \/ /\ retry_count <= 2
        /\ UNCHANGED <<hello, dcid, transcript, status>>
     \/ /\ retry_count <= 2
        /\ hello' = hello + 1
        /\ dcid' = "theirs"
        /\ transcript' = <<ClientHelloUnit(hello')>>
        /\ UNCHANGED status
  /\ UNCHANGED <<serverVars, hs_keys, crypto_data, seen>>

(* The server has answered with keys the client has too.                   *)
Answered == answered # 0 /\ ServerKeyId(answered) = ClientKeyId

(* quic_decrypt_initial takes the server's id for the packets to come.     *)
ServerIdTaken == dcid' = "theirs" /\ UNCHANGED <<hello, retry_count>>

(* The first ServerHello: it is hashed, and the Handshake keys come from   *)
(* the transcript so far.                                                  *)
ReceiveServerHello ==
  /\ status = "running"
  /\ Answered
  /\ ~sh_done
  /\ transcript' = Append(transcript, ServerHelloUnit)
  /\ hs_keys' = transcript'
  /\ ServerIdTaken
  /\ UNCHANGED <<serverVars, status, crypto_data, seen>>

(* A ServerHello without an x25519 key share, or with another cipher suite *)
(* than the two supported, ends the attempt.                               *)
RefuseServerHello ==
  /\ status = "running"
  /\ Answered
  /\ ~sh_done
  /\ ~orderly
  /\ status' = "failed"
  /\ ServerIdTaken
  /\ UNCHANGED <<serverVars, hs_keys, crypto_data, transcript, seen>>

(* The ServerHello again: it is not parsed, but its bytes were extracted   *)
(* to the start of crypto_data, where an unfinished message may wait.      *)
ReceiveServerHelloAgain ==
  /\ status = "running"
  /\ Answered
  /\ sh_done
  /\ ~orderly /\ MoreDatagrams
  /\ crypto_data' = IF crypto_data = <<>> THEN <<>>
                    ELSE [crypto_data EXCEPT ![1] = ServerHelloUnit]
  /\ seen' = Append(seen, 0)
  /\ ServerIdTaken
  /\ UNCHANGED <<serverVars, status, hs_keys, transcript>>

(* The keys of both ends are those of the same two hellos.                 *)
SameHandshakeKeys == hs_keys = <<ClientHelloUnit(answered), ServerHelloUnit>>

(* What extract_crypto_frames appends to crypto_data: of the frames of the *)
(* datagram, one behind the other, each that there is room for.  (The      *)
(* datagram is acknowledged all the same.)                                 *)
LastFrame(k, i) == Max({First(ends, k) - 1} \cup (frames \cap First(ends, k)..i))

Extracted(k) ==
  LET room == CryptoSize - Len(crypto_data)
      frame(i) == SubSeq(Flight, LastFrame(k, i - 1) + 1, i)
      upto[i \in 0..ends[k]] ==
        IF i < First(ends, k) THEN <<>>
        ELSE IF i \in frames /\ Len(upto[i - 1]) + Len(frame(i)) <= room
             THEN upto[i - 1] \o frame(i)
             ELSE upto[i - 1]
  IN upto[ends[k]]

(* Mutant: crypto_fill is reduced but the bytes are not moved down.        *)
ReceiveHandshakeNotMoved(k) ==
  LET b == crypto_data \o Extracted(k)
      p == Parse(b)
  IN /\ status = "running"
     /\ SameHandshakeKeys
     /\ IF orderly THEN k = Len(seen) + 1 ELSE MoreDatagrams
     /\ transcript' = transcript \o SubSeq(b, 1, p.used)
     /\ crypto_data' = SubSeq(b, 1, Len(b) - p.used)
     /\ status' = IF p.finished THEN "done" ELSE status
     /\ seen' = Append(seen, k)
     /\ UNCHANGED <<serverVars, helloVars, hs_keys>>

(* A Handshake datagram, once the keys are there (before, it is dropped).  *)
ReceiveHandshake(k) ==
  LET b == crypto_data \o Extracted(k)
      p == Parse(b)
  IN /\ status = "running"
     /\ SameHandshakeKeys
     /\ IF orderly THEN k = Len(seen) + 1 ELSE MoreDatagrams
     /\ transcript' = transcript \o SubSeq(b, 1, p.used)
     /\ crypto_data' = SubSeq(b, p.used + 1, Len(b))
     /\ status' = IF p.finished THEN "done" ELSE status
     /\ seen' = Append(seen, k)
     /\ UNCHANGED <<serverVars, helloVars, hs_keys>>

(* The 800 ms are over at the top of the loop.                             *)
TimeUp ==
  /\ ~orderly
  /\ status = "running"
  /\ status' = "failed"
  /\ UNCHANGED <<serverVars, helloVars, hs_keys, crypto_data, transcript, seen>>

-----------------------------------------------------------------------------
Next ==
  \/ ServerAnswers
  \/ ReceiveRetry
  \/ ReceiveServerHello \/ RefuseServerHello \/ ReceiveServerHelloAgain
  \/ \E k \in Datagrams : ReceiveHandshake(k)
  \/ TimeUp

Spec == Init /\ [][Next]_vars

(* An orderly network gets every datagram through, and the loop processes  *)
(* each one that comes; of any other nothing is assumed.                   *)
Fairness ==
  /\ WF_vars(orderly /\ ServerAnswers)
  /\ WF_vars(orderly /\ ReceiveServerHello)
  /\ WF_vars(orderly /\ \E k \in Datagrams : ReceiveHandshake(k))

FairSpec == Spec /\ Fairness

-----------------------------------------------------------------------------
(* What both ends must have hashed when the handshake is complete.         *)
Agreed == <<ClientHelloUnit(answered), ServerHelloUnit>> \o Flight

(* The part of a message that waits when all before datagram k is in place,*)
(* and the datagram, fit crypto_data.                                      *)
HasRoom(k) ==
  LET begun == {i \in 1..First(ends, k) : HasHeader(Flight[i])}
  IN ends[k] - Max(begun) < CryptoSize

(* The Handshake datagrams processed so far are the first of the flight,   *)
(* in order, each once, and fitted; no Initial came again while a message  *)
(* that is cut between two datagrams could be waiting; and no Retry came   *)
(* after the ClientHello that was answered.                                *)
NextInLine(i) ==
  /\ \A j \in 1..i - 1 : seen[j] < seen[i]
  /\ seen[i] = 1 \/ \E j \in 1..i - 1 : seen[j] = seen[i] - 1

InStep ==
  /\ hello = answered
  /\ \A i \in 1..Len(seen) : seen[i] # 0 => NextInLine(i) /\ HasRoom(seen[i])
  /\ Contains(seen, 0) =>
       \A k \in Datagrams : ends[k] < Len(Flight) => HasHeader(Flight[ends[k] + 1])

TypeOK ==
  /\ orderly \in BOOLEAN
  /\ ends \in Cuts
  /\ frames \in FrameCuts(ends)
  /\ misread \in [Headless -> Nat \ {0}]
  /\ answered \in 0..hello
  /\ status \in {"running", "done", "failed"}
  /\ hello \in 1..4 /\ retry_count \in 0..4
  /\ dcid \in {"ours", "theirs"}
  /\ Len(crypto_data) <= CryptoSize

(* However the flight is cut into datagrams, and with a message cut across *)
(* several of them, a client that is in step has each byte of it either in *)
(* the transcript or waiting in crypto_data, in order, never twice, and    *)
(* what waits is one message that is not whole yet (the parser's loop and  *)
(* the compaction of crypto_data).                                         *)
FlightIntact ==
  SameHandshakeKeys /\ InStep =>
    /\ IsPrefix(transcript \o crypto_data, Agreed)
    /\ Parse(crypto_data).used = 0
    /\ status = "done" => transcript = Agreed

(* A Retry is not handled ("Retry which we don't handle", nanotls.c:191):  *)
(* the Initial keys still come from the first connection id, so that the   *)
(* server never answers the new ClientHello, and the two ends do not agree *)
(* any more.  A handle is returned all the same if the Retry came when the *)
(* Handshake keys were there already, and only then: an earlier one leaves *)
(* the attempt to the deadline.                                            *)
RetryNeverAgrees ==
  hello > 1 =>
    /\ answered <= 1 /\ transcript # Agreed
    /\ status = "done" => hs_keys = <<ClientHelloUnit(1), ServerHelloUnit>>

(* On an orderly network an attempt completes, with the transcript the     *)
(* server has, for every cut that never asks crypto_data to hold more than *)
(* it can; the length of the flight as a whole does not matter, since the  *)
(* messages that are whole leave it.                                       *)
OrderlyCompletes ==
  (orderly /\ \A k \in Datagrams : HasRoom(k)) ~> (status = "done" /\ transcript = Agreed)

(* "If successful, it returns a QUIC connection handle" (README.md): a     *)
(* handle is returned only when the server has the same transcript, so     *)
(* that it accepts the client's Finished and has the same 1-RTT keys.      *)
HandleMeansAgreed == status = "done" => transcript = Agreed
=============================================================================
