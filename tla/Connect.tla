------------------------------- MODULE Connect -------------------------------
(***************************************************************************)
(* The connection negotiator (nanotls.c: tls_core_connect_addr and what it *)
(* calls) with the configuration calls around it.  One call walks through  *)
(* up to five attempts: QUIC, then HTTP/2 over TLS 1.3 and over TLS 1.2,   *)
(* then HTTP/1.1 over TLS 1.3 and over TLS 1.2.  Each TCP attempt rewrites *)
(* the thread-local configuration that the ClientHello is built from, and  *)
(* every way out of the call has to put it back.                           *)
(*                                                                         *)
(* The configuration is thread-local, so one thread is the whole system;   *)
(* what interleaves with it is the server: reachable or not, which         *)
(* versions and which ALPN names it takes, and any attempt that fails for  *)
(* a reason of the network or the machine.                                 *)
(***************************************************************************)
EXTENDS Integers, Sequences

CONSTANTS
  ModeArgs,     \* the sets of names the application gives tls_mode
  ProtoArgs,    \* the sets of names it gives protocol_mode
  Servers       \* the servers it may connect to, a subset of Server

Versions == {"tls12", "tls13"}
Alpns == {"h2", "http/1.1", "dot"}

(* dns: the host is one of the four names tls13_handshake treats as DNS    *)
(* over TLS; alpn: the names the server would take, none if it knows no    *)
(* ALPN.                                                                   *)
Server == [quic : BOOLEAN, versions : SUBSET Versions,
           alpn : SUBSET Alpns, dns : BOOLEAN]

ASSUME ServersAssumption == Servers \subseteq Server

VARIABLES
  cfg,      \* current_proto_*, current_alpn, current_mode_h2
  user,     \* history: cfg as the application last set it
  saved,    \* orig_*: cfg as the call found it
  stage,    \* where in tls_core_connect_addr the call is
  hello,    \* the ClientHello of the running TCP attempt, or NoHello
  server,   \* who the call is connecting to
  conn,     \* the nanotls_conn the application holds, or NoConn
  sockets,  \* file descriptors open
  faulted   \* history: something besides the server's choices failed

vars == <<cfg, user, saved, stage, hello, server, conn, sockets, faulted>>

NoHello == [versions |-> {}, alpn |-> {}, h2 |-> FALSE]
NoConn  == [transport |-> "none", isH2 |-> FALSE, alpn |-> "none"]

Config == [tls13 : BOOLEAN, tls12 : BOOLEAN, quic : BOOLEAN,
           modeH2 : BOOLEAN, alpn : SUBSET Alpns]

-----------------------------------------------------------------------------
(* Mutant of StageOrder: phase 3 before phase 2.                           *)
StageOrderH1First == <<"quic", "h1/tls13", "h1/tls12", "h2/tls13", "h2/tls12">>

(* The stages of a call in the order of the source.                        *)
StageOrder == <<"quic", "h2/tls13", "h2/tls12", "h1/tls13", "h1/tls12">>

OffersH2(st) == st \in {"h2/tls13", "h2/tls12"}
PrefersTls13(st) == st \in {"h2/tls13", "h1/tls13"}
OnlyTls12(st) == st \in {"h2/tls12", "h1/tls12"}

(* Mutant of Tried: HTTP/1.1 only if HTTP/2 is not configured.             *)
TriedH1OnlyWithoutH2(st, orig) ==
  /\ st = "quic" => orig.quic
  /\ st # "quic" => OffersH2(st) = orig.modeH2
  /\ PrefersTls13(st) => orig.tls13
  /\ OnlyTls12(st) => orig.tls12

(* What has to be configured for a stage to be tried.                      *)
Tried(st, orig) ==
  /\ st = "quic" => orig.quic
  /\ OffersH2(st) => orig.modeH2
  /\ PrefersTls13(st) => orig.tls13
  /\ OnlyTls12(st) => orig.tls12

(* Mutant of StageConfig: 1.2 offered beside 1.3 whatever orig_tls12 is.   *)
StageConfigTls12Stays(st, orig) ==
  IF st = "quic" THEN orig
  ELSE [tls13  |-> PrefersTls13(st),
        tls12  |-> TRUE,
        quic   |-> orig.quic,
        modeH2 |-> OffersH2(st),
        alpn   |-> IF OffersH2(st) THEN {"h2"} ELSE {"http/1.1"}]

(* The configuration a stage runs under.                                   *)
StageConfig(st, orig) ==
  IF st = "quic" THEN orig
  ELSE [tls13  |-> PrefersTls13(st),
        tls12  |-> OnlyTls12(st) \/ orig.tls12,
        quic   |-> orig.quic,
        modeH2 |-> OffersH2(st),
        alpn   |-> IF OffersH2(st) THEN {"h2"} ELSE {"http/1.1"}]

(* The positions of the stages after the first n that the call would try.  *)
Remaining(n, orig) ==
  {m \in n + 1..Len(StageOrder) : Tried(StageOrder[m], orig)}

Position(st) == CHOOSE n \in 1..Len(StageOrder) : StageOrder[n] = st

Enter(m, orig) ==
  /\ stage' = StageOrder[m]
  /\ cfg' = StageConfig(StageOrder[m], orig)

EnabledVersions(c) ==
  {v \in Versions : (v = "tls13" /\ c.tls13) \/ (v = "tls12" /\ c.tls12)}

-----------------------------------------------------------------------------
(* Mutant of Return: RESTORE_CONFIG forgets current_mode_h2.               *)
ReturnWithoutModeH2(c) ==
  /\ stage' = "idle"
  /\ cfg' = [saved EXCEPT !.modeH2 = cfg.modeH2]
  /\ conn' = c

(* RESTORE_CONFIG and a return.                                            *)
Return(c) ==
  /\ stage' = "idle"
  /\ cfg' = saved
  /\ conn' = c

(* On to the next stage that is tried, or out with NULL after the last.    *)
NextStage(n) ==
  \/ Remaining(n, saved) = {} /\ Return(NoConn)
  \/ \E m \in Remaining(n, saved) :
       /\ \A k \in Remaining(n, saved) : m <= k
       /\ Enter(m, saved)
       /\ UNCHANGED conn

(* The ClientHello: both lists follow the current flags, the ALPN list is  *)
(* the configured one except for the DNS hosts.                            *)
ClientHello ==
  [versions |-> EnabledVersions(cfg),
   alpn     |-> IF server.dns THEN {"dot"} ELSE cfg.alpn,
   h2       |-> cfg.modeH2 /\ ~server.dns]

(* The ALPN name the server takes from a ClientHello, "none" if no name    *)
(* suits it.                                                               *)
Selected(h) ==
  IF h.alpn \cap server.alpn = {} THEN "none"
  ELSE CHOOSE a \in h.alpn \cap server.alpn : TRUE

(* is_h2 after the handshake: TLS 1.3 reads the server's answer from the   *)
(* EncryptedExtensions, TLS 1.2 keeps what the client set before it.       *)
NegotiatedH2(h, v) == IF v = "tls13" THEN Selected(h) = "h2" ELSE h.h2

-----------------------------------------------------------------------------
DefaultConfig ==
  [tls13 |-> TRUE, tls12 |-> TRUE, quic |-> TRUE, modeH2 |-> FALSE,
   alpn |-> {"http/1.1"}]

Init ==
  /\ cfg = DefaultConfig
  /\ user = cfg
  /\ saved = cfg
  /\ stage = "idle"
  /\ hello = NoHello
  /\ server \in Servers
  /\ conn = NoConn
  /\ sockets = 0
  /\ faulted = FALSE

(* tls_mode: unknown names are skipped.                                    *)
TlsMode(names) ==
  /\ stage = "idle"
  /\ cfg' = [tls13 |-> cfg.tls13, tls12 |-> cfg.tls12, quic |-> cfg.quic,
             modeH2 |-> "h2" \in names, alpn |-> names \cap Alpns]
  /\ user' = cfg'
  /\ UNCHANGED <<saved, stage, hello, server, conn, sockets, faulted>>

(* protocol_mode: the ALPN names stand for both TLS versions.              *)
ProtocolMode(names) ==
  LET given(some) == names \cap some # {}
      either == {"h2", "http/1.1"}
  IN /\ stage = "idle"
     /\ cfg' = [tls13  |-> given({"1.3", "tls1.3"} \cup either),
                tls12  |-> given({"1.2", "tls1.2"} \cup either),
                quic   |-> given({"quic", "h3"}),
                modeH2 |-> cfg.modeH2, alpn |-> cfg.alpn]
     /\ user' = cfg'
     /\ UNCHANGED <<saved, stage, hello, server, conn, sockets, faulted>>

(* tls_core_connect_addr, up to its first attempt.                         *)
Call(s) ==
  /\ stage = "idle"
  /\ conn = NoConn
  /\ saved' = cfg
  /\ server' = s
  /\ faulted' = FALSE
  /\ \/ Remaining(0, cfg) = {} /\ UNCHANGED <<stage, cfg>>
     \/ \E m \in Remaining(0, cfg) :
          /\ \A k \in Remaining(0, cfg) : m <= k
          /\ Enter(m, cfg)
  /\ UNCHANGED <<user, hello, conn, sockets>>

(* nanotls_try_quic returns a connection, whose socket stays open.         *)
QuicSucceeds ==
  /\ stage = "quic"
  /\ server.quic
  /\ Return([transport |-> "quic", isH2 |-> FALSE, alpn |-> "h3"])
  /\ sockets' = sockets + 1
  /\ UNCHANGED <<user, saved, hello, server, faulted>>

(* Mutant of QuicNoMemory: no quic_close on this exit.                     *)
QuicNoMemoryNoClose ==
  /\ stage = "quic"
  /\ server.quic
  /\ Return(NoConn)
  /\ sockets' = sockets + 1
  /\ faulted' = TRUE
  /\ UNCHANGED <<user, saved, hello, server>>

(* It succeeded, but no memory for the nanotls_conn: the call closes the   *)
(* QUIC connection and gives up, with no fallback.                         *)
QuicNoMemory ==
  /\ stage = "quic"
  /\ server.quic
  /\ Return(NoConn)
  /\ faulted' = TRUE
  /\ UNCHANGED <<user, saved, hello, server, sockets>>

(* Mutant of QuicFails: the caller closes the socket once more.            *)
QuicFailsClosedTwice ==
  /\ stage = "quic"
  /\ NextStage(1)
  /\ sockets' = sockets - 1
  /\ faulted' = (faulted \/ server.quic)
  /\ UNCHANGED <<user, saved, hello, server>>

(* It returned NULL, its socket closed: UDP is filtered, or 800 ms passed. *)
QuicFails ==
  /\ stage = "quic"
  /\ NextStage(1)
  /\ faulted' = (faulted \/ server.quic)
  /\ UNCHANGED <<user, saved, hello, server, sockets>>

(* tcp_try_connect up to the ClientHello.                                  *)
SendHello ==
  /\ stage \notin {"idle", "quic"}
  /\ hello = NoHello
  /\ hello' = ClientHello
  /\ sockets' = sockets + 1
  /\ UNCHANGED <<cfg, user, saved, stage, server, conn, faulted>>

(* socket, connect or malloc fails; a socket already open is closed.       *)
NoSocket ==
  /\ stage \notin {"idle", "quic"}
  /\ hello = NoHello
  /\ NextStage(Position(stage))
  /\ faulted' = TRUE
  /\ UNCHANGED <<user, saved, hello, server, sockets>>

(* tls13_handshake fails and the socket is closed: the server has no       *)
(* version to choose and sends an alert, or it stays silent, resets, sends *)
(* a bad record, or memory runs out.                                       *)
HandshakeFails ==
  /\ hello # NoHello
  /\ NextStage(Position(stage))
  /\ hello' = NoHello
  /\ sockets' = sockets - 1
  /\ faulted' = (faulted \/ hello.versions \cap server.versions # {})
  /\ UNCHANGED <<user, saved, server>>

(* A ServerHello that picks a version the current flags exclude.           *)
VersionRefused(v) ==
  /\ hello # NoHello
  /\ v \notin EnabledVersions(cfg)
  /\ NextStage(Position(stage))
  /\ hello' = NoHello
  /\ sockets' = sockets - 1
  /\ faulted' = TRUE
  /\ UNCHANGED <<user, saved, server>>

(* The server chooses the highest version offered to it; one that chooses  *)
(* a lower one is a fault.                                                 *)
Downgraded(v) == v = "tls12" /\ "tls13" \in hello.versions \cap server.versions

(* The handshake completes with version v.  An HTTP/2 stage keeps the      *)
(* connection only if it is HTTP/2, an HTTP/1.1 stage keeps any.           *)
Accept(v) ==
  /\ hello # NoHello
  /\ v \in EnabledVersions(cfg) \cap server.versions
  /\ OffersH2(stage) => NegotiatedH2(hello, v)
  /\ Return([transport |-> v, isH2 |-> NegotiatedH2(hello, v),
             alpn |-> Selected(hello)])
  /\ hello' = NoHello
  /\ faulted' = (faulted \/ Downgraded(v))
  /\ UNCHANGED <<user, saved, server, sockets>>

Discard(v) ==
  /\ hello # NoHello
  /\ v \in EnabledVersions(cfg) \cap server.versions
  /\ OffersH2(stage) /\ ~NegotiatedH2(hello, v)
  /\ NextStage(Position(stage))
  /\ hello' = NoHello
  /\ sockets' = sockets - 1
  /\ faulted' = (faulted \/ Downgraded(v))
  /\ UNCHANGED <<user, saved, server>>

(* tls_core_close.                                                         *)
Close ==
  /\ stage = "idle"
  /\ conn # NoConn
  /\ conn' = NoConn
  /\ sockets' = sockets - 1
  /\ UNCHANGED <<cfg, user, saved, stage, hello, server, faulted>>

Configure ==
  \/ \E names \in ModeArgs : TlsMode(names)
  \/ \E names \in ProtoArgs : ProtocolMode(names)

Attempt ==
  \/ QuicSucceeds \/ QuicNoMemory \/ QuicFails
  \/ SendHello \/ NoSocket \/ HandshakeFails
  \/ \E v \in Versions : VersionRefused(v) \/ Accept(v) \/ Discard(v)

Next ==
  \/ Configure
  \/ \E s \in Servers : Call(s)
  \/ Attempt
  \/ Close

Spec == Init /\ [][Next]_vars

-----------------------------------------------------------------------------
Stages == {"quic", "h2/tls13", "h2/tls12", "h1/tls13", "h1/tls12"}

TypeOK ==
  /\ cfg \in Config /\ user \in Config /\ saved \in Config
  /\ stage \in Stages \cup {"idle"}
  /\ hello \in [versions : SUBSET Versions, alpn : SUBSET Alpns, h2 : BOOLEAN]
  /\ server \in Server
  /\ conn \in [transport : Versions \cup {"quic", "none"}, isH2 : BOOLEAN,
               alpn : Alpns \cup {"h3", "none"}]
  /\ sockets \in Nat
  /\ faulted \in BOOLEAN

(* Whatever the attempts of a call rewrite, and whichever of its exits it  *)
(* takes, the application finds the configuration it set: five stages      *)
(* share the thread-local flags (tls_core_connect_addr, RESTORE_CONFIG).   *)
ConfigRestored == stage = "idle" => cfg = user

(* No attempt leaks its socket and none is closed twice: between calls the *)
(* only descriptor open is the one of the connection the application       *)
(* holds, and a running call has at most the one of its current attempt.   *)
SocketsAccounted ==
  sockets = (IF conn # NoConn THEN 1 ELSE 0) + (IF hello # NoHello THEN 1 ELSE 0)

(* A version the application switched off is neither offered nor used,     *)
(* though each stage switches flags on and off for itself, and with QUIC   *)
(* alone configured there is no fallback to TCP.                           *)
DisabledNeverUsed ==
  /\ hello.versions \subseteq EnabledVersions(saved)
  /\ conn.transport \in Versions => conn.transport \in EnabledVersions(saved)
  /\ conn.transport = "quic" => saved.quic

(* What client and server have in common, best first.                      *)
Mutual(v) == v \in EnabledVersions(saved) \cap server.versions
MutualQuic == saved.quic /\ server.quic
MutualH2 == saved.modeH2 /\ "h2" \in server.alpn /\ ~server.dns
RefusesH2 == saved.modeH2 /\ ~server.dns /\ "h2" \notin server.alpn

Returns == stage # "idle" /\ stage' = "idle"

(* A call that met no failure returns NULL only if no transport is common  *)
(* to both sides: no stage skips one that would have worked.               *)
GivesUpOnlyIfHopeless ==
  [][Returns /\ conn' = NoConn /\ ~faulted'
       => ~MutualQuic /\ \A v \in Versions : ~Mutual(v)]_vars

(* A call that met no failure returns the best connection both sides can   *)
(* do: QUIC before HTTP/2 before HTTP/1.1, TLS 1.3 before TLS 1.2          *)
(* (README.md, protocol_mode: "preferring QUIC first, then falling back to *)
(* TLS 1.3, then TLS 1.2").  The version clause leaves out the server that *)
(* refuses h2: TLS 1.2 mistakes it for one that agreed, the disagreement   *)
(* H2OnlyIfServerChose shows.                                              *)
BestCommonProtocol ==
  [][Returns /\ conn' # NoConn /\ ~faulted'
       => /\ conn'.transport = "quic" <=> MutualQuic
          /\ MutualH2 /\ ~MutualQuic => conn'.isH2
          /\ Mutual("tls13") /\ ~RefusesH2 => conn'.transport # "tls12"]_vars

(* README.md on phase 3: "If HTTP/2 is rejected or unavailable, it         *)
(* degrades the ALPN advertisement exclusively to http/1.1".  So a         *)
(* connection is driven as HTTP/2 only if the server chose h2.             *)
H2OnlyIfServerChose == conn.isH2 => conn.alpn = "h2"
=============================================================================
