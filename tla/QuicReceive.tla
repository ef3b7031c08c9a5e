---------------------------- MODULE QuicReceive ----------------------------
(***************************************************************************)
(* A QUIC connection in use: tls_send_request and tls_core_recv            *)
(* (nanotls.c), the 1-RTT packets, STREAM frames, stream table, HTTP/3     *)
(* frames and flow control under them (quic.c), and the header table       *)
(* (Qpack), with a server and a network that loses, repeats and reorders.  *)
(*                                                                         *)
(* A stream is a sequence of units.  An HTTP/3 frame of n units of payload *)
(* is <<"type", kind>>, <<"length", n>> and its payload, a field block one *)
(* unit long per field line.  The encoder stream is its type and the       *)
(* units of instructions.                                                  *)
(***************************************************************************)
EXTENDS QuicPacketNumber, Qpack, FiniteSets, FiniteSetsExt

CONSTANTS
  Responses,     \* each [fields, body]: its field lines, and then frames <<kind, n>>
  Instructions,  \* what the server's encoder inserts
  MaxStreams,    \* streams the table holds (32)
  RxSize,        \* size of rx_buf (65536)
  HdrSize,       \* size of h3_buf (8192)
  CallerLengths, \* units the caller's buffer may hold
  ConnWindow, ConnCredit,     \* what the client counts from (10 MB), and announced (15 MB)
  StreamWindow, StreamCredit, \* the same for one stream (5 MB, 6 MB)
  Windows,       \* how many numbers a truncated one tells apart (2^8 .. 2^32)
  LaterResponse, \* what all requests but the first are answered with
  Pieces,        \* Pieces[sid]: units a STREAM frame of the stream may carry
  Misreadings,   \* frame headers <<kind, n>> that a payload may look like
  Loads          \* bounds, chosen for a behaviour as a whole: each [requests, flight,
                 \* faults], the requests made, packets in flight, and packets lost
                 \* or repeated

(* The encoder never refers to what it has not inserted (RFC 9204).  It    *)
(* may refer to what the client no longer has: the table it is told of     *)
(* holds 65536 bytes, and the client's TableSize entries.                  *)
ASSUME InstructionsAssumption ==
  /\ Instructions \in Seq(ToSet(Instructions))
  /\ \A k \in DOMAIN Instructions :
       \/ Instructions[k].op = "literal name"
       \/ /\ Instructions[k].op \in {"name reference", "duplicate"}
          /\ Instructions[k].idx \in Nat /\ Instructions[k].idx < k - 1

(* The rest of an instruction may look like any other, valid or not.       *)
ASSUME LookalikesAssumption ==
  \A i \in Lookalikes :
    i.op = "literal name" \/ (i.op \in {"name reference", "duplicate"} /\ i.idx \in Nat)

(* A field line: how many entries the server had when it wrote it, and how *)
(* far before the last of them the one is that it refers to.               *)
FieldLines == {f \in [base : Nat, idx : Nat] : f.idx < f.base}

ASSUME ResponsesAssumption ==
  \A r \in Responses \cup {LaterResponse} :
    r.fields \in Seq(FieldLines) /\ r.body \in Seq({"DATA", "SKIP"} \X Nat)

ASSUME MisreadingsAssumption ==
  Misreadings \subseteq {"HEADERS", "DATA", "SKIP"} \X Nat

(* A packet is read into 4096 bytes.                                       *)
ASSUME PiecesAssumption ==
  \A sid \in DOMAIN Pieces : Pieces[sid] \subseteq 0..RxSize - 1

ASSUME SizesAssumption ==
  /\ MaxStreams \in Nat \ {0} /\ RxSize \in Nat \ {0} /\ HdrSize \in Nat \ {0}
  /\ CallerLengths \subseteq Nat
  /\ {ConnWindow, ConnCredit, StreamWindow, StreamCredit} \subseteq Nat

ASSUME WindowsAssumption ==
  \A win \in Windows : win \in Nat /\ win > 0 /\ win % 2 = 0

VARIABLES
  conn,       \* the client's quic_conn
  s_app_pn_next, \* of conn: the packet number expected
  caller_len, \* the size of the buffer the application gives tls_core_recv
  load,       \* the bounds
  requests,   \* requests made
  ended,      \* tls_core_recv has returned -1
  content,    \* what the server has to say on each stream
  server,     \* the server's side of the connection
  server_pn,  \* its next packet number
  flight,     \* the packets on their way
  faults,     \* packets lost or repeated so far
  largest,    \* the largest packet number received, which ACKs name
  delivered,  \* history: what calls of tls_core_recv returned
  fields,     \* history: field lines decoded
  mishaps,    \* history: what went wrong, and on which stream
  overtaken,  \* history: a packet came after one with a higher number, or again
  refused     \* history: a packet was not decrypted

numbers == <<s_app_pn_next, largest, overtaken, refused>>

vars == <<conn, caller_len, load, requests, ended, content, server, server_pn, flight,
          faults, delivered, fields, mishaps, numbers>>

-----------------------------------------------------------------------------
EncoderStream == 7
Unidirectional(sid) == (sid \div 2) % 2 = 1

(* The streams the server may send on.                                     *)
StreamsOf(l) == {4 * k : k \in 0..l.requests - 1} \cup {EncoderStream}

ASSUME LoadsAssumption ==
  \A l \in Loads : l.requests \in Nat \ {0} /\ StreamsOf(l) \subseteq DOMAIN Pieces

FrameUnits(kind, n, payload) ==
  <<<<"type", kind>>, <<"length", n>>>> \o [k \in 1..n |-> payload[k]]

ResponseUnits(r) ==
  FrameUnits("HEADERS", Len(r.fields), [k \in DOMAIN r.fields |-> <<"field", r.fields[k]>>])
    \o FlattenSeq([j \in DOMAIN r.body |->
          FrameUnits(r.body[j][1], r.body[j][2],
                     [k \in 1..r.body[j][2] |-> <<r.body[j][1], <<j, k>>>>])])

EncoderUnits ==
  <<<<"stream type", "encoder">>>>
    \o FlattenSeq([k \in DOMAIN Instructions |-> Instruction(Instructions[k])])

(* The payload of the DATA frames.                                         *)
Body(units) ==
  FlattenSeq([k \in DOMAIN units |-> IF units[k][1] = "DATA" THEN <<units[k]>> ELSE <<>>])

NewStream(sid) ==
  [stream_id |-> sid, state |-> "header", rem |-> 0, hdr |-> <<>>, rx |-> <<>>, fin |-> FALSE,
   type |-> "unread", rx_data |-> 0, max_rx_data |-> StreamWindow,
   parsed |-> 0]   \* parsed: history, units of the stream parsed so far

-----------------------------------------------------------------------------
(* One round of the loop over the data of a STREAM frame on a request      *)
(* stream.  A header that is not whole is lost; where something else       *)
(* stands in its place that is read as one.  A chunk rx_buf or h3_buf has  *)
(* no room for is dropped.                                                 *)
Headers(units, k) ==
  IF units[k][1] = "type" THEN {<<units[k][2], units[k + 1][2]>>} ELSE Misreadings

Begin(a, units) ==
  IF Len(units) - a.so < 2 THEN {[a EXCEPT !.so = Len(units)]}
  ELSE {[a EXCEPT !.so = @ + 2, !.s.state = h[1], !.s.rem = h[2],
                  !.s.hdr = IF h[1] = "HEADERS" THEN <<>> ELSE @] :
          h \in Headers(units, a.so + 1)}

FieldsOf(hdr, table) ==
  {DecodeField(table, u[2]) : u \in {v \in ToSet(hdr) : v[1] = "field"}}

Carry(a, units, table) ==
  LET chunk == Min({a.s.rem, Len(units) - a.so})
      data == SubSeq(units, a.so + 1, a.so + chunk)
      last == chunk = a.s.rem
      past == [a EXCEPT !.so = @ + chunk, !.s.rem = @ - chunk,
                        !.s.state = IF last THEN "header" ELSE @]
      hdr == IF Len(a.s.hdr) + chunk < HdrSize THEN a.s.hdr \o data ELSE a.s.hdr
  IN CASE a.s.state = "HEADERS" ->
            [past EXCEPT !.s.hdr = hdr,
                         !.fields = IF last THEN @ \cup FieldsOf(hdr, table) ELSE @]
       [] a.s.state = "DATA" ->
            [past EXCEPT !.s.rx = IF Len(@) + chunk < RxSize THEN @ \o data ELSE @]
       [] a.s.state = "SKIP" -> past

Round(a, units, table) ==
  IF a.so = Len(units) THEN {a}
  ELSE IF a.s.state = "header" THEN Begin(a, units)
  ELSE {Carry(a, units, table)}

(* What may come of the loop: two rounds for each unit see it through.     *)
Rounds(s, units, table) ==
  LET outcomes[k \in 0..2 * Len(units)] ==
        IF k = 0 THEN {[s |-> s, so |-> 0, fields |-> {}]}
        ELSE UNION {Round(a, units, table) : a \in outcomes[k - 1]}
  IN outcomes[2 * Len(units)]

(* Mutant: each STREAM frame is taken to begin with a header.              *)
ParseHttp3Anew(s, units, table) == Rounds([s EXCEPT !.state = "header"], units, table)

ParseHttp3(s, units, table) == Rounds(s, units, table)

-----------------------------------------------------------------------------
(* Mutant: the window is never raised.                                     *)
RaisedNever(max, used) == max

(* quic_check_flow_control: a window is doubled, and announced, when more  *)
(* than half of it has been used.                                          *)
Raised(max, used) == IF used > max \div 2 THEN 2 * max ELSE max

(* quic_find_stream: a new stream takes the next slot, if there is one,    *)
(* and keeps it for ever.                                                  *)
Slots(streams, sid) == {i \in DOMAIN streams : streams[i].stream_id = sid}

(* Mutant: the limit of the table is not checked.                          *)
FindUnlimited(streams, sid) ==
  IF Slots(streams, sid) # {} THEN streams ELSE Append(streams, NewStream(sid))

Find(streams, sid) ==
  IF Slots(streams, sid) # {} \/ Len(streams) = MaxStreams THEN streams
  ELSE Append(streams, NewStream(sid))

(* A frame that ends inside a header or an instruction.                    *)
Tears(units) == units # <<>> /\ Last(units)[1] \in {"type", "first"}

(* The model follows a stream, and stream 0 with everything else, until it *)
(* meets with a mishap.                                                    *)
Whole(sid) == \A m \in mishaps : m[2] # sid

Mishaps(f, s) ==
  (IF f.off # s.parsed THEN {<<"misplaced", f.sid>>} ELSE {})
    \cup (IF Tears(f.units) THEN {<<"torn", f.sid>>} ELSE {})

(* The data of a frame on the encoder stream, whose first byte is its     *)
(* type, or on another stream of the server.                               *)
EncoderData(a, i, units) ==
  LET s == a.conn.streams[i]
      type == IF s.type # "unread" \/ units = <<>> THEN s.type
              ELSE IF units[1][1] = "stream type" THEN units[1][2]
              ELSE "other"
      data == IF s.type = "unread" THEN Tail(units) ELSE units
      tables == IF type = "encoder" THEN ParseEncoderInstructions(a.conn.table, data)
                ELSE {a.conn.table}
  IN {[a EXCEPT !.conn.streams[i].type = type, !.conn.table = t] : t \in tables}

ResponseData(a, i, units) ==
  {[a EXCEPT !.conn.streams[i] = parse.s, !.fields = @ \cup parse.fields] :
     parse \in ParseHttp3(a.conn.streams[i], units, a.conn.table)}

(* A STREAM frame, found in slot i.  The offset it has is read over.       *)
StreamFrame(a, i, f) ==
  LET n == Len(f.units)
      s == a.conn.streams[i]
      noted ==
        [a EXCEPT
           !.conn.streams[i] =
             [s EXCEPT !.fin = @ \/ f.fin, !.parsed = @ + n, !.rx_data = @ + n,
                       !.max_rx_data = Raised(@, s.rx_data + n)],
           !.conn.rx_data = @ + n,
           !.conn.max_rx_data = Raised(@, a.conn.rx_data + n),
           !.mishaps = @ \cup Mishaps(f, s)]
  IN IF Unidirectional(f.sid) THEN EncoderData(noted, i, f.units)
     ELSE ResponseData(noted, i, f.units)

(* quic_skip_frame takes the sequence number and the Retire Prior To of a  *)
(* NEW_CONNECTION_ID for all there is to it.  What follows begins with the *)
(* length of the id: 8 is read as a STREAM frame that has no length, which *)
(* takes the rest of the packet, on a stream that the id names.            *)
Phantom == 99

Misparsed(a) ==
  LET rest == [a EXCEPT !.swallowed = TRUE]
  IN {rest, [rest EXCEPT !.conn.streams = Find(@, Phantom)]}
       \cup {[rest EXCEPT !.mishaps = @ \cup {<<"garbled", s.stream_id>>}] :
               s \in ToSet(a.conn.streams)}

CutOff(c) ==
  {<<"cut off", sid>> :
     sid \in {id \in DOMAIN content :
                \A i \in Slots(c.streams, id) : c.streams[i].parsed < Len(content[id])}}

(* quic_parse_frames: what may come of a packet.                           *)
ParseFrame(a, f) ==
  LET found == [a EXCEPT !.conn.streams = Find(@, f.sid)]
      slots == Slots(found.conn.streams, f.sid)
  IN CASE f.type = "STREAM" ->
            IF a.swallowed \/ slots = {}
            THEN {[a EXCEPT !.mishaps = @ \cup {<<"lost", f.sid>>}]}
            ELSE UNION {StreamFrame(found, i, f) : i \in slots}
       [] f.type = "NEW_CONNECTION_ID" -> Misparsed(a)
       [] f.type = "CONNECTION_CLOSE" ->
            {[a EXCEPT !.conn.is_closed = TRUE, !.mishaps = @ \cup CutOff(a.conn)]}

ParseFrames(c, frames) ==
  LET outcomes[k \in 0..Len(frames)] ==
        IF k = 0 THEN {[conn |-> c, fields |-> {}, mishaps |-> {}, swallowed |-> FALSE]}
        ELSE UNION {ParseFrame(a, frames[k]) : a \in outcomes[k - 1]}
  IN outcomes[Len(frames)]

-----------------------------------------------------------------------------
(* The first call of tls_core_recv takes the first slot of the table for   *)
(* stream 0, before it reads a packet.                                     *)
Init ==
  /\ conn = [streams |-> <<NewStream(0)>>, table |-> EmptyTable,
             rx_data |-> 0, max_rx_data |-> ConnWindow,
             is_closed |-> FALSE, next_sid |-> 0]
  /\ caller_len \in CallerLengths /\ load \in Loads
  /\ requests = 0 /\ ended = FALSE
  /\ \E r \in Responses :
       content = [sid \in StreamsOf(load) |->
                    IF sid = EncoderStream THEN EncoderUnits
                    ELSE ResponseUnits(IF sid = 0 THEN r ELSE LaterResponse)]
  /\ server = [sent |-> [sid \in DOMAIN content |-> 0], total |-> 0, fin |-> {},
               resend |-> {}, closed |-> FALSE]
  /\ server_pn = 0 /\ flight = {} /\ faults = 0
  /\ s_app_pn_next = 0 /\ largest = -1 /\ overtaken = FALSE /\ refused = FALSE
  /\ delivered = <<>> /\ fields = {} /\ mishaps = {}

(* tls_send_request and send_http3_get.  Nothing is sent of a request that *)
(* does not fit one packet, and nobody is told.                            *)
SendRequest ==
  \E fits \in BOOLEAN :
    /\ ~ended /\ requests < load.requests
    /\ requests' = requests + 1
    /\ conn' = [conn EXCEPT !.next_sid = IF fits THEN @ + 4 ELSE @]
    /\ mishaps' = IF fits THEN mishaps ELSE mishaps \cup {<<"unsent", conn.next_sid>>}
    /\ UNCHANGED <<caller_len, load, ended, content, server, server_pn, flight, faults,
                   delivered, fields, numbers>>

(* What tls_core_recv returns of stream 0, whatever was asked on which.    *)
Return(c) ==
  LET rx == c.streams[1].rx
      n == IF Len(rx) < caller_len THEN Len(rx) ELSE caller_len
  IN /\ delivered' = delivered \o SubSeq(rx, 1, n)
     /\ conn' = [c EXCEPT !.streams[1].rx = SubSeq(rx, n + 1, Len(rx))]

(* Mutant: the end is reported over data that has not been read.           *)
FinishedUnread(c) == c.is_closed \/ c.streams[1].fin

Finished(c) == c.streams[1].rx = <<>> /\ (c.is_closed \/ c.streams[1].fin)

RecvBuffered ==
  /\ ~ended /\ requests > 0
  /\ conn.streams[1].rx # <<>>
  /\ Return(conn)
  /\ UNCHANGED <<caller_len, load, requests, ended, content, server, server_pn, flight,
                 faults, fields, mishaps, numbers>>

(* No packet comes before the read times out.  A call that returns 0       *)
(* changes nothing.                                                        *)
RecvNothing ==
  /\ ~ended /\ requests > 0
  /\ Finished(conn)
  /\ ended' = TRUE
  /\ UNCHANGED <<conn, caller_len, load, requests, content, server, server_pn, flight,
                 faults, delivered, fields, mishaps, numbers>>

(* quic_decrypt_1rtt: a packet whose number is expanded wrongly does not   *)
(* decrypt; one that comes a second time is parsed a second time.          *)
Decrypts(p) ==
  Expand(s_app_pn_next, Truncated(p.pn, p.win), p.win) = p.pn

Parsed(p) ==
  /\ s_app_pn_next' = p.pn + 1
  /\ largest' = IF p.pn > largest THEN p.pn ELSE largest
  /\ \E a \in ParseFrames(conn, p.frames) :
       /\ Return(a.conn)
       /\ ended' = Finished(a.conn)
       /\ fields' = fields \cup a.fields
       /\ mishaps' = mishaps \cup a.mishaps
  /\ UNCHANGED refused

NotDecrypted ==
  /\ ended' = Finished(conn)
  /\ refused' = TRUE
  /\ UNCHANGED <<conn, s_app_pn_next, largest, delivered, fields, mishaps>>

Receive(p) ==
  /\ ~ended /\ requests > 0
  /\ conn.streams[1].rx = <<>>
  /\ overtaken' = (overtaken \/ p.pn < s_app_pn_next)
  /\ IF Decrypts(p) THEN Parsed(p) ELSE NotDecrypted
  /\ UNCHANGED <<caller_len, load, requests, content, server_pn>>

RecvPacket ==
  \E p \in flight :
    /\ Receive(p)
    /\ flight' = flight \ {p}
    /\ server' = IF Decrypts(p) THEN server ELSE [server EXCEPT !.resend = @ \cup {p.frames}]
    /\ UNCHANGED faults

(* The network delivers a packet and will do so again.                     *)
RecvPacketTwice ==
  \E p \in flight :
    /\ faults < load.faults
    /\ faults' = faults + 1
    /\ Receive(p)
    /\ UNCHANGED <<server, flight>>

-----------------------------------------------------------------------------
(* The server sends the frames under the next number, truncated as far as  *)
(* RFC 9000 allows after the last ACK, which may name any number received. *)
Enough(win, pn) == win >= 2 * (pn - largest)

Launch(frames) ==
  /\ ~ended /\ Cardinality(flight) < load.flight
  /\ Whole(0)
  /\ server_pn' = server_pn + 1
  /\ \E win \in Windows :
       /\ Enough(win, server_pn) /\ \A w \in Windows : Enough(w, server_pn) => win <= w
       /\ flight' = flight \cup {[pn |-> server_pn, win |-> win, frames |-> frames]}
  /\ UNCHANGED <<conn, caller_len, load, requests, ended, content, faults, delivered,
                 fields, mishaps, numbers>>

Stream(sid, n, fin) ==
  [type |-> "STREAM", sid |-> sid, off |-> server.sent[sid], fin |-> fin,
   units |-> SubSeq(content[sid], server.sent[sid] + 1, server.sent[sid] + n)]

Other(type) == [type |-> type, sid |-> -1]

Credit(sid) ==
  Max({StreamCredit} \cup
        {conn.streams[i].max_rx_data : i \in Slots(conn.streams, sid)})

TotalCredit == Max({ConnCredit, conn.max_rx_data})

(* New data, within the credit the client has announced; the FIN of a      *)
(* response with its last data or alone; the first packet may begin with a *)
(* NEW_CONNECTION_ID.                                                      *)
ServerSends ==
  \E sid \in DOMAIN content, fin, moves \in BOOLEAN :
    \E piece \in {0} \cup Pieces[sid] :
    LET left == Len(content[sid]) - server.sent[sid]
        n == Min({piece, left, Credit(sid) - server.sent[sid], TotalCredit - server.total})
    IN /\ sid = EncoderStream \/ sid < conn.next_sid
       /\ Whole(sid)
       /\ n > 0 \/ fin
       /\ fin => n = left /\ ~Unidirectional(sid) /\ sid \notin server.fin
       /\ moves => server_pn = 0
       /\ Launch((IF moves THEN <<Other("NEW_CONNECTION_ID")>> ELSE <<>>)
                   \o <<Stream(sid, n, fin)>>)
       /\ server' = [server EXCEPT !.sent[sid] = @ + n, !.total = @ + n,
                       !.fin = IF fin THEN @ \cup {sid} ELSE @]

(* The frames of a packet that was lost.                                   *)
ServerResends ==
  \E frames \in server.resend :
    /\ Launch(frames)
    /\ server' = [server EXCEPT !.resend = @ \ {frames}]

ServerCloses ==
  /\ ~server.closed /\ server.sent[0] = Len(content[0])
  /\ Launch(<<Other("CONNECTION_CLOSE")>>)
  /\ server' = [server EXCEPT !.closed = TRUE]

Lose ==
  \E p \in flight :
    /\ faults < load.faults /\ ~ended
    /\ faults' = faults + 1
    /\ flight' = flight \ {p}
    /\ server' = [server EXCEPT !.resend = @ \cup {p.frames}]
    /\ UNCHANGED <<conn, caller_len, load, requests, ended, content, server_pn, delivered,
                   fields, mishaps, numbers>>

Next ==
  \/ SendRequest \/ RecvBuffered \/ RecvNothing \/ RecvPacket \/ RecvPacketTwice
  \/ ServerSends \/ ServerResends \/ ServerCloses \/ Lose

Spec == Init /\ [][Next]_vars

FairSpec == Spec /\ WF_vars(Next)

-----------------------------------------------------------------------------
TypeOK ==
  /\ \A i \in DOMAIN conn.streams :
       LET s == conn.streams[i]
       IN s.rem \in Nat /\ Len(s.rx) < RxSize /\ Len(s.hdr) < HdrSize
  /\ Len(conn.streams) <= MaxStreams
  /\ conn.table.count \in 0..TableSize /\ conn.table.tail \in 0..TableSize - 1
  /\ largest \in Int /\ s_app_pn_next <= largest + 1

(* What the caller has read is the front of the response body, with no     *)
(* chunk dropped from rx_buf and no byte twice: however the server cuts    *)
(* its frames, whatever is lost or comes again, as long as stream 0 itself *)
(* came in order, uncut inside a header, and not behind a frame that       *)
(* swallows it.                                                            *)
BodyInOrder ==
  Whole(0) => IsPrefix(delivered \o conn.streams[1].rx, Body(content[0]))

(* -1 from tls_core_recv means the end of the response.                    *)
EndMeansAll == ended /\ Whole(0) => delivered = Body(content[0])

(* The entries the server's encoder has, oldest first, each from those     *)
(* before it.                                                              *)
InsertedBy(earlier, k) ==
  LET i == Instructions[k]
  IN CASE i.op = "literal name"   -> <<i.name, i.value>>
       [] i.op = "name reference" -> <<earlier[k - 1 - i.idx][1], i.value>>
       [] i.op = "duplicate"      -> earlier[k - 1 - i.idx]

Inserted ==
  LET entry[k \in 1..Len(Instructions)] == InsertedBy(entry, k)
  IN entry

(* The first n instructions refer to nothing beyond the client's table.    *)
WithinTable(n) ==
  \A k \in DOMAIN Instructions :
    k <= n => Instructions[k].op = "literal name" \/ Instructions[k].idx < TableSize

(* A field line that is decoded when the client has as many entries as the *)
(* server had when it wrote it is the field the server meant, and none,    *)
(* never another one, if the client no longer has that.  (An instruction   *)
(* that refers beyond the client's table is passed over, and the client's  *)
(* indices are wrong for good: nothing is said of lines written after it.  *)
(* When the client has more entries than the server had, the index counts  *)
(* from the wrong end, the Base being ignored.)                            *)
FieldsRight ==
  \A f \in fields :
    Whole(EncoderStream) /\ f.seen = f.base /\ WithinTable(f.base) =>
      f.got = IF f.meant < TableSize THEN {Inserted[f.base - f.meant]} ELSE {}

(* No packet is refused until one comes late, or twice: a server that      *)
(* truncates its numbers as far as the client's ACKs allow is understood,  *)
(* whatever is lost on the way.                                            *)
NothingDropped == refused => overtaken

(* The ring implements the table of HeaderTable.  A unit of the encoder    *)
(* stream adds one entry at most, whatever it is taken for.                *)
Abstract == INSTANCE HeaderTable WITH
              Size <- TableSize, MaxAtOnce <- Len(EncoderUnits),
              latest <- Contents(conn.table), inserted <- conn.table.insert_count
ImplementsHeaderTable == Abstract!Spec

(* The first request is answered in full, windows and FIN included, unless *)
(* its stream meets with a mishap.  (A later one never is: tls_core_recv   *)
(* reads stream 0 only.)                                                   *)
AllArrived == ended /\ delivered = Body(content[0])

ResponseCompletes ==
  (requests > 0 /\ Whole(0)) ~> (~Whole(0) \/ AllArrived)
=============================================================================
