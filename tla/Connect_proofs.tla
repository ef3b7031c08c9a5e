---------------------------- MODULE Connect_proofs ----------------------------
(***************************************************************************)
(* Proofs about Connect: for every set of servers and of arguments, the    *)
(* negotiator leaves the configuration and the sockets as it must and      *)
(* never uses what is switched off.                                        *)
(*                                                                         *)
(* The configuration is restored because saved equals user throughout a    *)
(* call; a disabled version is never offered because the running stage     *)
(* determines the flags (cfg = StageConfig(stage, saved)) and a stage is   *)
(* entered only if what it needs is enabled in saved (Tried).              *)
(***************************************************************************)
EXTENDS Connect, TLAPS

(* While a call runs: the application holds no connection, the saved       *)
(* configuration is the application's, and the current one is the stage's. *)
CallState ==
  stage # "idle" =>
    /\ conn = NoConn
    /\ saved = user
    /\ Tried(stage, saved)
    /\ cfg = StageConfig(stage, saved)

(* A ClientHello exists only during a TCP stage.                           *)
HelloState == hello # NoHello => stage \notin {"idle", "quic"}

IInv ==
  /\ TypeOK
  /\ ConfigRestored
  /\ SocketsAccounted
  /\ DisabledNeverUsed
  /\ CallState
  /\ HelloState

-----------------------------------------------------------------------------
(* A position of StageOrder holds a stage, and no stage is "idle".         *)
LEMMA StageAt ==
  ASSUME NEW m \in 1..Len(StageOrder)
  PROVE  StageOrder[m] \in Stages /\ StageOrder[m] # "idle"
<1>1. m \in 1..5
  BY DEF StageOrder
<1>2. m = 1 \/ m = 2 \/ m = 3 \/ m = 4 \/ m = 5
  BY <1>1
<1> QED BY <1>2 DEF StageOrder, Stages

(* The configuration of a stage is a configuration, and it enables only    *)
(* versions that the configuration it is made from enables, if the stage   *)
(* is one that is tried.                                                   *)
LEMMA StageConfigSafe ==
  ASSUME NEW orig \in Config, NEW st \in Stages, Tried(st, orig)
  PROVE  /\ StageConfig(st, orig) \in Config
         /\ EnabledVersions(StageConfig(st, orig)) \subseteq EnabledVersions(orig)
<1>1. CASE st = "quic"
  BY <1>1 DEF StageConfig
<1>2. CASE st # "quic"
  <2> DEFINE c == [tls13  |-> PrefersTls13(st),
                   tls12  |-> OnlyTls12(st) \/ orig.tls12,
                   quic   |-> orig.quic,
                   modeH2 |-> OffersH2(st),
                   alpn   |-> IF OffersH2(st) THEN {"h2"} ELSE {"http/1.1"}]
  <2>1. StageConfig(st, orig) = c
    BY <1>2 DEF StageConfig
  <2>2. c \in Config
    BY DEF Config, PrefersTls13, OnlyTls12, OffersH2, Alpns
  <2>3. c.tls13 => orig.tls13
    BY DEF Tried
  <2>4. c.tls12 => orig.tls12
    BY DEF Tried
  <2> HIDE DEF c
  <2>5. EnabledVersions(c) \subseteq EnabledVersions(orig)
    BY <2>3, <2>4 DEF EnabledVersions
  <2> QED BY <2>1, <2>2, <2>5
<1> QED BY <1>1, <1>2

(* Entering a stage that is tried puts the call into that stage's state.   *)
LEMMA EnterStage ==
  ASSUME NEW orig \in Config, NEW n \in Nat, NEW m \in Remaining(n, orig),
         Enter(m, orig)
  PROVE  /\ stage' \in Stages /\ stage' # "idle"
         /\ Tried(stage', orig)
         /\ cfg' = StageConfig(stage', orig)
         /\ cfg' \in Config
<1>1. m \in 1..Len(StageOrder) /\ Tried(StageOrder[m], orig)
  BY DEF Remaining, StageOrder
<1>2. stage' = StageOrder[m] /\ cfg' = StageConfig(StageOrder[m], orig)
  BY DEF Enter
<1>3. StageOrder[m] \in Stages /\ StageOrder[m] # "idle"
  BY <1>1, StageAt
<1> QED BY <1>1, <1>2, <1>3, StageConfigSafe

(* What every way on from an attempt does: the call is over and the        *)
(* configuration restored, or it is in the state of a later stage.         *)
LEMMA NextStageOutcome ==
  ASSUME IInv, stage # "idle", NEW n \in Nat, NextStage(n),
         saved' = saved, user' = user
  PROVE  /\ stage' \in Stages \cup {"idle"}
         /\ cfg' \in Config
         /\ conn' = NoConn
         /\ ConfigRestored'
         /\ CallState'
<1> USE DEF IInv, TypeOK, CallState
<1>1. CASE Return(NoConn)
  BY <1>1 DEF Return, ConfigRestored
<1>2. CASE \E m \in Remaining(n, saved) : Enter(m, saved) /\ UNCHANGED conn
  <2>1. PICK m \in Remaining(n, saved) : Enter(m, saved) /\ UNCHANGED conn
    BY <1>2
  <2>2. /\ stage' \in Stages /\ stage' # "idle"
        /\ Tried(stage', saved)
        /\ cfg' = StageConfig(stage', saved)
        /\ cfg' \in Config
    BY <2>1, EnterStage
  <2> QED BY <2>1, <2>2 DEF ConfigRestored
<1> QED BY <1>1, <1>2 DEF NextStage

(* The position of a stage is a natural number.                            *)
LEMMA PositionNat ==
  ASSUME NEW st \in Stages
  PROVE  Position(st) \in Nat
<1>1. \E n \in 1..Len(StageOrder) : StageOrder[n] = st
  <2>1. /\ StageOrder[1] = "quic" /\ StageOrder[2] = "h2/tls13"
        /\ StageOrder[3] = "h2/tls12" /\ StageOrder[4] = "h1/tls13"
        /\ StageOrder[5] = "h1/tls12" /\ Len(StageOrder) = 5
    BY DEF StageOrder
  <2> QED BY <2>1 DEF Stages
<1> QED BY <1>1 DEF Position

-----------------------------------------------------------------------------
(* The combined invariant holds initially and every step keeps it.         *)
THEOREM Invariance == Spec => []IInv
<1>1. Init => IInv
  <2> SUFFICES ASSUME Init PROVE IInv
    OBVIOUS
  <2>1. DefaultConfig \in Config
    BY DEF DefaultConfig, Config, Alpns
  <2>2. /\ NoHello \in [versions : SUBSET Versions, alpn : SUBSET Alpns, h2 : BOOLEAN]
        /\ NoConn \in [transport : Versions \cup {"quic", "none"}, isH2 : BOOLEAN,
                       alpn : Alpns \cup {"h3", "none"}]
    BY DEF NoHello, NoConn
  <2>3. TypeOK
    BY <2>1, <2>2, ServersAssumption DEF Init, TypeOK
  <2>4. DisabledNeverUsed
    BY DEF Init, DisabledNeverUsed, NoHello, NoConn, Versions
  <2> QED BY <2>3, <2>4 DEF Init, IInv, ConfigRestored, SocketsAccounted,
            CallState, HelloState
<1>2. IInv /\ [Next]_vars => IInv'
  <2> SUFFICES ASSUME IInv, [Next]_vars PROVE IInv'
    OBVIOUS
  <2> USE DEF IInv, TypeOK
  <2>1. ASSUME NEW names \in ModeArgs, TlsMode(names) PROVE IInv'
    <3>1. cfg' \in Config
      BY <2>1 DEF TlsMode, Config
    <3> QED BY <2>1, <3>1 DEF TlsMode, ConfigRestored, SocketsAccounted,
              DisabledNeverUsed, CallState, HelloState
  <2>2. ASSUME NEW names \in ProtoArgs, ProtocolMode(names) PROVE IInv'
    <3>1. cfg' \in Config
      BY <2>2 DEF ProtocolMode, Config
    <3> QED BY <2>2, <3>1 DEF ProtocolMode, ConfigRestored, SocketsAccounted,
              DisabledNeverUsed, CallState, HelloState
  <2>3. ASSUME NEW s \in Servers, Call(s) PROVE IInv'
    <3>1. /\ hello = NoHello /\ hello' = NoHello /\ conn = NoConn /\ conn' = NoConn
          /\ saved' = cfg /\ user' = cfg /\ server' \in Server
      BY <2>3, ServersAssumption DEF Call, HelloState, ConfigRestored
    <3>2. HelloState' /\ SocketsAccounted'
      BY <2>3, <3>1 DEF Call, HelloState, SocketsAccounted
    <3>3. DisabledNeverUsed'
      BY <3>1 DEF DisabledNeverUsed, NoHello, NoConn, Versions
    <3>4. CASE UNCHANGED <<stage, cfg>>
      BY <2>3, <3>1, <3>2, <3>3, <3>4 DEF Call, ConfigRestored, CallState
    <3>5. CASE \E m \in Remaining(0, cfg) : Enter(m, cfg)
      <4>1. PICK m \in Remaining(0, cfg) : Enter(m, cfg)
        BY <3>5
      <4>2. /\ stage' \in Stages /\ stage' # "idle"
            /\ Tried(stage', cfg)
            /\ cfg' = StageConfig(stage', cfg)
            /\ cfg' \in Config
        BY <4>1, EnterStage
      <4> QED BY <2>3, <3>1, <3>2, <3>3, <4>2 DEF Call, ConfigRestored, CallState
    <3> QED BY <2>3, <3>4, <3>5 DEF Call
  <2>4. ASSUME QuicSucceeds PROVE IInv'
    <3>1. hello = NoHello
      BY <2>4 DEF QuicSucceeds, HelloState
    <3>2. saved.quic
      BY <2>4 DEF QuicSucceeds, CallState, Tried
    <3> QED BY <2>4, <3>1, <3>2 DEF QuicSucceeds, Return, ConfigRestored,
              SocketsAccounted, DisabledNeverUsed, CallState, HelloState, NoConn,
              Versions, Alpns
  <2>5. ASSUME QuicNoMemory PROVE IInv'
    BY <2>5 DEF QuicNoMemory, Return, ConfigRestored, SocketsAccounted,
       DisabledNeverUsed, CallState, HelloState, NoConn, Versions
  <2>6. ASSUME QuicFails PROVE IInv'
    <3>1. /\ stage' \in Stages \cup {"idle"} /\ cfg' \in Config /\ conn' = NoConn
          /\ ConfigRestored' /\ CallState'
      BY <2>6, NextStageOutcome DEF QuicFails
    <3>2. hello = NoHello /\ conn = NoConn
      BY <2>6 DEF QuicFails, HelloState, CallState
    <3> QED BY <2>6, <3>1, <3>2 DEF QuicFails, SocketsAccounted,
              DisabledNeverUsed, HelloState, NoConn, Versions
  <2>7. ASSUME SendHello PROVE IInv'
    <3>1. stage \in Stages /\ conn = NoConn /\ Tried(stage, saved)
          /\ cfg = StageConfig(stage, saved)
      BY <2>7 DEF SendHello, CallState
    <3>2. EnabledVersions(cfg) \subseteq EnabledVersions(saved)
      BY <3>1, StageConfigSafe
    <3>3. /\ hello' \in [versions : SUBSET Versions, alpn : SUBSET Alpns, h2 : BOOLEAN]
          /\ hello'.versions = EnabledVersions(cfg)
      BY <2>7 DEF SendHello, ClientHello, EnabledVersions, Config, Alpns, Server
    <3>4. EnabledVersions(cfg) # {}
      BY <2>7, <3>1 DEF SendHello, StageConfig, EnabledVersions, PrefersTls13,
         OnlyTls12, Versions, Stages
    <3>5. hello' # NoHello
      BY <3>3, <3>4 DEF NoHello
    <3> QED BY <2>7, <3>1, <3>2, <3>3, <3>5 DEF SendHello, ConfigRestored,
              SocketsAccounted, DisabledNeverUsed, CallState, HelloState, EnabledVersions
  <2>8. ASSUME NoSocket PROVE IInv'
    <3>1. stage \in Stages /\ Position(stage) \in Nat
      BY <2>8, PositionNat DEF NoSocket
    <3>2. /\ stage' \in Stages \cup {"idle"} /\ cfg' \in Config /\ conn' = NoConn
          /\ ConfigRestored' /\ CallState'
      BY <2>8, <3>1, NextStageOutcome DEF NoSocket
    <3>3. conn = NoConn
      BY <2>8 DEF NoSocket, CallState
    <3> QED BY <2>8, <3>2, <3>3 DEF NoSocket, SocketsAccounted,
              DisabledNeverUsed, HelloState, NoConn, Versions
  <2>9. ASSUME hello # NoHello, NextStage(Position(stage)), hello' = NoHello,
               sockets' = sockets - 1, faulted' \in BOOLEAN,
               UNCHANGED <<user, saved, server>>
        PROVE  IInv'
    <3>1. stage \in Stages /\ stage # "idle" /\ Position(stage) \in Nat /\ conn = NoConn
      BY <2>9, PositionNat DEF HelloState, CallState
    <3>2. /\ stage' \in Stages \cup {"idle"} /\ cfg' \in Config /\ conn' = NoConn
          /\ ConfigRestored' /\ CallState'
      BY <2>9, <3>1, NextStageOutcome
    <3>3. sockets' = 0
      BY <2>9, <3>1 DEF SocketsAccounted
    <3> QED BY <2>9, <3>2, <3>3 DEF SocketsAccounted, DisabledNeverUsed,
              HelloState, NoHello, NoConn, Versions
  <2>10. ASSUME HandshakeFails PROVE IInv'
    BY <2>9, <2>10 DEF HandshakeFails
  <2>11. ASSUME NEW v \in Versions, VersionRefused(v) PROVE IInv'
    BY <2>9, <2>11 DEF VersionRefused
  <2>12. ASSUME NEW v \in Versions, Discard(v) PROVE IInv'
    BY <2>9, <2>12 DEF Discard, Downgraded
  <2>13. ASSUME NEW v \in Versions, Accept(v) PROVE IInv'
    <3>1. /\ stage \in Stages /\ stage # "idle" /\ conn = NoConn /\ saved = user
          /\ Tried(stage, saved) /\ cfg = StageConfig(stage, saved)
      BY <2>13 DEF Accept, HelloState, CallState
    <3>2. v \in EnabledVersions(saved)
      BY <2>13, <3>1, StageConfigSafe DEF Accept
    <3>3. /\ conn'.transport = v /\ conn' # NoConn
          /\ conn' \in [transport : Versions \cup {"quic", "none"}, isH2 : BOOLEAN,
                        alpn : Alpns \cup {"h3", "none"}]
      BY <2>13 DEF Accept, Return, NegotiatedH2, Selected, NoConn, Versions, Alpns
    <3> QED BY <2>13, <3>1, <3>2, <3>3 DEF Accept, Return, ConfigRestored,
              SocketsAccounted, DisabledNeverUsed, CallState, HelloState, NoHello,
              Downgraded, Versions
  <2>14. ASSUME Close PROVE IInv'
    BY <2>14 DEF Close, ConfigRestored, SocketsAccounted, DisabledNeverUsed,
       CallState, HelloState, NoConn, Versions
  <2>15. ASSUME UNCHANGED vars PROVE IInv'
    BY <2>15 DEF vars, ConfigRestored, SocketsAccounted, DisabledNeverUsed,
       CallState, HelloState
  <2> QED BY <2>1, <2>2, <2>3, <2>4, <2>5, <2>6, <2>7, <2>8, <2>10, <2>11,
            <2>12, <2>13, <2>14, <2>15 DEF Next, Configure, Attempt
<1>3. QED BY <1>1, <1>2, PTL DEF Spec

(* The state always has its type.                                          *)
THEOREM TypeCorrect == Spec => []TypeOK
<1>1. IInv => TypeOK
  BY DEF IInv
<1>2. QED BY <1>1, Invariance, PTL

(* Between calls the configuration is the one the application set, for     *)
(* every server and every failure (RESTORE_CONFIG on all exits).           *)
THEOREM ConfigSurvives == Spec => []ConfigRestored
<1>1. IInv => ConfigRestored
  BY DEF IInv
<1>2. QED BY <1>1, Invariance, PTL

(* No call of tls_core_connect_addr leaks a socket or closes one twice.    *)
THEOREM NoSocketLeak == Spec => []SocketsAccounted
<1>1. IInv => SocketsAccounted
  BY DEF IInv
<1>2. QED BY <1>1, Invariance, PTL

(* A protocol or version that is switched off is never offered or used.    *)
THEOREM OnlyEnabledUsed == Spec => []DisabledNeverUsed
<1>1. IInv => DisabledNeverUsed
  BY DEF IInv
<1>2. QED BY <1>1, Invariance, PTL

-----------------------------------------------------------------------------
(* Why a call may leave a stage behind when nothing has failed: the server *)
(* has no QUIC, none of the versions offered, or, in an HTTP/2 stage, does *)
(* not speak HTTP/2.                                                       *)
RightlyPassed(st) ==
  IF st = "quic" THEN ~server.quic
  ELSE \/ EnabledVersions(StageConfig(st, saved)) \cap server.versions = {}
       \/ OffersH2(st) /\ (server.dns \/ "h2" \notin server.alpn)

PassedBelow(n) ==
  \A k \in 1..n - 1 : Tried(StageOrder[k], saved) => RightlyPassed(StageOrder[k])

(* In a call that met no failure, every stage tried before the running one *)
(* was passed for such a reason, and a ClientHello on its way is the one   *)
(* the current configuration builds.                                       *)
AttemptInv ==
  /\ stage # "idle" /\ ~faulted => PassedBelow(Position(stage))
  /\ hello # NoHello => hello = ClientHello

(* The five stages and their positions.                                    *)
LEMMA Positions ==
  /\ Len(StageOrder) = 5
  /\ StageOrder[1] = "quic" /\ Position("quic") = 1
  /\ StageOrder[2] = "h2/tls13" /\ Position("h2/tls13") = 2
  /\ StageOrder[3] = "h2/tls12" /\ Position("h2/tls12") = 3
  /\ StageOrder[4] = "h1/tls13" /\ Position("h1/tls13") = 4
  /\ StageOrder[5] = "h1/tls12" /\ Position("h1/tls12") = 5
<1>1. /\ Len(StageOrder) = 5
      /\ StageOrder[1] = "quic" /\ StageOrder[2] = "h2/tls13"
      /\ StageOrder[3] = "h2/tls12" /\ StageOrder[4] = "h1/tls13"
      /\ StageOrder[5] = "h1/tls12"
  BY DEF StageOrder
<1>2. \A n \in 1..5 : n = 1 \/ n = 2 \/ n = 3 \/ n = 4 \/ n = 5
  OBVIOUS
<1>3. ASSUME NEW n \in 1..5 PROVE Position(StageOrder[n]) = n
  <2>1. \A m \in 1..5 : StageOrder[m] = StageOrder[n] => m = n
    BY <1>1, <1>2, <1>3
  <2> QED BY <1>1, <2>1 DEF Position
<1> QED BY <1>1, <1>3

(* If every stage that is tried was rightly passed, client and server have *)
(* no transport in common: each version has its HTTP/1.1 stage, and QUIC   *)
(* its own.                                                                *)
LEMMA NothingInCommon ==
  ASSUME IInv, PassedBelow(6)
  PROVE  ~MutualQuic /\ \A v \in Versions : ~Mutual(v)
<1> USE DEF IInv, TypeOK
<1>1. ~MutualQuic
  <2>1. Tried("quic", saved) => RightlyPassed("quic")
    BY Positions DEF PassedBelow
  <2> QED BY <2>1 DEF MutualQuic, Tried, RightlyPassed, OffersH2, PrefersTls13,
            OnlyTls12
<1>2. ~Mutual("tls13")
  <2>1. Tried("h1/tls13", saved) => RightlyPassed("h1/tls13")
    BY Positions DEF PassedBelow
  <2>2. saved.tls13 => Tried("h1/tls13", saved)
    BY DEF Tried, OffersH2, PrefersTls13, OnlyTls12
  <2>3. "tls13" \in EnabledVersions(StageConfig("h1/tls13", saved))
    BY DEF EnabledVersions, StageConfig, PrefersTls13, Versions
  <2> QED BY <2>1, <2>2, <2>3 DEF Mutual, RightlyPassed, OffersH2, EnabledVersions
<1>3. ~Mutual("tls12")
  <2>1. Tried("h1/tls12", saved) => RightlyPassed("h1/tls12")
    BY Positions DEF PassedBelow
  <2>2. saved.tls12 => Tried("h1/tls12", saved)
    BY DEF Tried, OffersH2, PrefersTls13, OnlyTls12
  <2>3. "tls12" \in EnabledVersions(StageConfig("h1/tls12", saved))
    BY DEF EnabledVersions, StageConfig, OnlyTls12, Versions
  <2> QED BY <2>1, <2>2, <2>3 DEF Mutual, RightlyPassed, OffersH2, EnabledVersions
<1> QED BY <1>1, <1>2, <1>3 DEF Versions

(* Going on from a stage that was rightly passed: every stage before the   *)
(* new one was, or if there is no other, every stage was.                  *)
LEMMA NextStagePasses ==
  ASSUME IInv, AttemptInv, stage # "idle", NextStage(Position(stage)),
         saved' = saved, server' = server,
         ~faulted' => ~faulted /\ RightlyPassed(stage)
  PROVE  ~faulted' => /\ stage' # "idle" => PassedBelow(Position(stage))'
                      /\ stage' = "idle" => PassedBelow(6)
<1> SUFFICES ASSUME ~faulted'
             PROVE  /\ stage' # "idle" => PassedBelow(Position(stage))'
                    /\ stage' = "idle" => PassedBelow(6)
  OBVIOUS
<1> DEFINE n == Position(stage)
<1>1. n \in 1..5 /\ StageOrder[n] = stage
  BY Positions DEF IInv, TypeOK, Stages
<1>2. PassedBelow(n) /\ RightlyPassed(stage)
  BY DEF AttemptInv
<1>3. PassedBelow(n + 1)
  BY <1>1, <1>2 DEF PassedBelow
<1>4. ASSUME NEW m \in 1..6, \A k \in Remaining(n, saved) : m <= k
      PROVE  PassedBelow(m)
  <2>1. ASSUME NEW k \in 1..m - 1, Tried(StageOrder[k], saved)
        PROVE  RightlyPassed(StageOrder[k])
    <3>1. k <= n
      BY <1>1, <1>4, <2>1, Positions DEF Remaining
    <3> QED BY <1>1, <1>3, <2>1, <3>1 DEF PassedBelow
  <2> QED BY <2>1 DEF PassedBelow
<1>5. CASE Remaining(n, saved) = {} /\ Return(NoConn)
  BY <1>4, <1>5 DEF Return
<1>6. ASSUME NEW m \in Remaining(n, saved),
             \A k \in Remaining(n, saved) : m <= k, Enter(m, saved)
      PROVE  stage' # "idle" /\ PassedBelow(Position(stage))'
  <2>1. m \in 1..5
    BY <1>1, <1>6, Positions DEF Remaining
  <2>2. stage' = StageOrder[m] /\ stage' # "idle" /\ Position(stage') = m
    <3>1. m = 1 \/ m = 2 \/ m = 3 \/ m = 4 \/ m = 5
      BY <2>1
    <3> QED BY <1>6, <3>1, Positions DEF Enter
  <2>3. PassedBelow(m)
    BY <1>4, <1>6, <2>1
  <2>4. PassedBelow(m)'
    BY <2>3 DEF PassedBelow, RightlyPassed
  <2> QED BY <2>2, <2>4
<1> QED BY <1>5, <1>6 DEF NextStage

(* What the attempts that lead on to the next stage have in common.        *)
LEMMA FailingAttempt ==
  ASSUME IInv, AttemptInv,
         \/ QuicFails \/ NoSocket \/ HandshakeFails
         \/ \E v \in Versions : VersionRefused(v) \/ Discard(v)
  PROVE  /\ stage # "idle" /\ NextStage(Position(stage))
         /\ saved' = saved /\ server' = server
         /\ ~faulted' => ~faulted /\ RightlyPassed(stage)
         /\ hello' = NoHello
<1> USE DEF IInv, TypeOK
<1>1. CASE QuicFails
  BY <1>1, Positions DEF QuicFails, HelloState, RightlyPassed
<1>2. CASE NoSocket
  BY <1>2 DEF NoSocket
<1>3. ASSUME hello # NoHello
      PROVE  /\ stage # "idle" /\ stage # "quic" /\ stage \in Stages
             /\ hello = ClientHello
             /\ cfg = StageConfig(stage, saved)
  BY <1>3 DEF HelloState, AttemptInv, CallState
<1>4. CASE HandshakeFails
  <2>1. hello # NoHello
    BY <1>4 DEF HandshakeFails
  <2>2. ~faulted' => ~faulted /\ hello.versions \cap server.versions = {}
    BY <1>4 DEF HandshakeFails
  <2>3. hello.versions = EnabledVersions(StageConfig(stage, saved))
    BY <2>1, <1>3 DEF ClientHello
  <2> QED BY <1>3, <1>4, <2>1, <2>2, <2>3 DEF HandshakeFails, RightlyPassed
<1>5. ASSUME NEW v \in Versions, VersionRefused(v)
      PROVE  /\ stage # "idle" /\ NextStage(Position(stage))
             /\ saved' = saved /\ server' = server
             /\ faulted' = TRUE /\ hello' = NoHello
  BY <1>3, <1>5 DEF VersionRefused
<1>6. ASSUME NEW v \in Versions, Discard(v)
      PROVE  /\ stage # "idle" /\ NextStage(Position(stage))
             /\ saved' = saved /\ server' = server
             /\ ~faulted' => ~faulted /\ RightlyPassed(stage)
             /\ hello' = NoHello
  <2>1. hello # NoHello /\ OffersH2(stage) /\ ~NegotiatedH2(hello, v)
    BY <1>6 DEF Discard
  <2>2. hello = ClientHello /\ cfg = StageConfig(stage, saved) /\ stage # "quic"
    BY <2>1, <1>3
  <2>3. cfg.modeH2 /\ cfg.alpn = {"h2"}
    BY <2>1, <2>2 DEF StageConfig
  <2>4. server.dns \/ "h2" \notin server.alpn
    <3> SUFFICES ASSUME ~server.dns, "h2" \in server.alpn PROVE FALSE
      OBVIOUS
    <3>1. hello.alpn = {"h2"} /\ hello.h2
      BY <2>2, <2>3 DEF ClientHello
    <3>2. hello.alpn \cap server.alpn = {"h2"}
      BY <3>1
    <3>3. Selected(hello) = "h2"
      BY <3>2 DEF Selected
    <3> QED BY <2>1, <3>1, <3>3 DEF NegotiatedH2
  <2>5. RightlyPassed(stage)
    BY <2>1, <2>2, <2>4 DEF RightlyPassed
  <2> QED BY <1>3, <1>6, <2>1, <2>5 DEF Discard
<1> QED BY <1>1, <1>2, <1>4, <1>5, <1>6

(* The stages passed so far were rightly passed in every reachable state.  *)
THEOREM AttemptsInvariance == Spec => []AttemptInv
<1>1. Init => AttemptInv
  BY DEF Init, AttemptInv
<1>2. IInv /\ AttemptInv /\ [Next]_vars => AttemptInv'
  <2> SUFFICES ASSUME IInv, AttemptInv, [Next]_vars PROVE AttemptInv'
    OBVIOUS
  <2> USE DEF IInv, TypeOK
  <2>1. ASSUME stage' = "idle", hello' = NoHello PROVE AttemptInv'
    BY <2>1 DEF AttemptInv
  <2>2. CASE Configure
    BY <2>1, <2>2 DEF Configure, TlsMode, ProtocolMode, HelloState
  <2>3. ASSUME NEW s \in Servers, Call(s) PROVE AttemptInv'
    <3>1. hello' = NoHello /\ saved' = cfg
      BY <2>3 DEF Call, HelloState
    <3>2. ASSUME NEW m \in Remaining(0, cfg), \A k \in Remaining(0, cfg) : m <= k,
                 Enter(m, cfg)
          PROVE  PassedBelow(Position(stage))'
      <4>1. m \in 1..5
        BY <3>2, Positions DEF Remaining
      <4>2. Position(stage') = m
        <5>1. m = 1 \/ m = 2 \/ m = 3 \/ m = 4 \/ m = 5
          BY <4>1
        <5> QED BY <3>2, <5>1, Positions DEF Enter
      <4>3. ASSUME NEW k \in 1..m - 1 PROVE ~Tried(StageOrder[k], cfg)
        BY <3>2, <4>1, <4>3, Positions DEF Remaining
      <4> QED BY <3>1, <4>2, <4>3 DEF PassedBelow
    <3>3. CASE UNCHANGED <<stage, cfg>>
      BY <2>1, <2>3, <3>1, <3>3 DEF Call
    <3> QED BY <2>3, <3>1, <3>2, <3>3 DEF Call, AttemptInv
  <2>4. CASE QuicSucceeds \/ QuicNoMemory
    BY <2>1, <2>4 DEF QuicSucceeds, QuicNoMemory, Return, HelloState
  <2>5. CASE \/ QuicFails \/ NoSocket \/ HandshakeFails
             \/ \E v \in Versions : VersionRefused(v) \/ Discard(v)
    BY <2>1, <2>5, FailingAttempt, NextStagePasses DEF AttemptInv
  <2>6. CASE SendHello
    <3>1. ClientHello' = ClientHello /\ hello' = ClientHello
      BY <2>6 DEF SendHello, ClientHello, EnabledVersions
    <3>2. PassedBelow(Position(stage))' <=> PassedBelow(Position(stage))
      BY <2>6 DEF SendHello, PassedBelow, RightlyPassed
    <3> QED BY <2>6, <3>1, <3>2 DEF SendHello, AttemptInv
  <2>7. CASE \E v \in Versions : Accept(v)
    BY <2>1, <2>7 DEF Accept, Return
  <2>8. CASE Close
    BY <2>1, <2>8 DEF Close, HelloState
  <2>9. CASE UNCHANGED vars
    <3>1. ClientHello' = ClientHello /\ (PassedBelow(Position(stage))' <=> PassedBelow(Position(stage)))
      BY <2>9 DEF vars, ClientHello, EnabledVersions, PassedBelow, RightlyPassed
    <3> QED BY <2>9, <3>1 DEF vars, AttemptInv
  <2> QED BY <2>2, <2>3, <2>4, <2>5, <2>6, <2>7, <2>8, <2>9 DEF Next, Attempt
<1>3. QED BY <1>1, <1>2, Invariance, PTL DEF Spec

(* A call that met no failure returns NULL only if client and server have  *)
(* no transport in common, whatever is configured and whoever the server.  *)
THEOREM NullOnlyIfHopeless == Spec => GivesUpOnlyIfHopeless
<1> DEFINE Hopeless ==
      Returns /\ conn' = NoConn /\ ~faulted' => ~MutualQuic /\ \A v \in Versions : ~Mutual(v)
<1>1. IInv /\ AttemptInv /\ [Next]_vars => [Hopeless]_vars
  <2> SUFFICES ASSUME IInv, AttemptInv, Next, Returns, conn' = NoConn, ~faulted'
               PROVE  ~MutualQuic /\ \A v \in Versions : ~Mutual(v)
    BY Zenon
  <2>1. CASE \/ QuicFails \/ NoSocket \/ HandshakeFails
             \/ \E v \in Versions : VersionRefused(v) \/ Discard(v)
    BY <2>1, FailingAttempt, NextStagePasses, NothingInCommon DEF Returns
  <2>2. ASSUME NEW v \in Versions PROVE ~Accept(v)
    BY <2>2 DEF Accept, Return, NoConn, Versions
  <2>3. ~QuicSucceeds /\ ~QuicNoMemory /\ ~SendHello
    BY DEF QuicSucceeds, QuicNoMemory, SendHello, Return, NoConn, Returns
  <2>4. ~Configure /\ ~Close /\ \A s \in Servers : ~Call(s)
    BY DEF Configure, TlsMode, ProtocolMode, Close, Call, Returns
  <2> QED BY <2>1, <2>2, <2>3, <2>4 DEF Next, Attempt
<1>2. QED BY <1>1, Invariance, AttemptsInvariance, PTL DEF Spec, GivesUpOnlyIfHopeless

(* The protocol a call that met no failure returns is the best both sides  *)
(* have: the stages are tried best first and none is passed wrongly.       *)
THEOREM BestProtocolReturned == Spec => BestCommonProtocol
<1> DEFINE Best ==
      Returns /\ conn' # NoConn /\ ~faulted'
        => /\ conn'.transport = "quic" <=> MutualQuic
           /\ MutualH2 /\ ~MutualQuic => conn'.isH2
           /\ Mutual("tls13") /\ ~RefusesH2 => conn'.transport # "tls12"
<1>1. IInv /\ AttemptInv /\ [Next]_vars => [Best]_vars
  <2> SUFFICES ASSUME IInv, AttemptInv, Next, Returns, conn' # NoConn, ~faulted'
               PROVE  /\ conn'.transport = "quic" <=> MutualQuic
                      /\ MutualH2 /\ ~MutualQuic => conn'.isH2
                      /\ Mutual("tls13") /\ ~RefusesH2 => conn'.transport # "tls12"
    BY Zenon
  <2> USE DEF IInv, TypeOK
  <2>1. ~(\/ QuicFails \/ NoSocket \/ HandshakeFails
          \/ \E v \in Versions : VersionRefused(v) \/ Discard(v))
    <3> SUFFICES ASSUME \/ QuicFails \/ NoSocket \/ HandshakeFails
                        \/ \E v \in Versions : VersionRefused(v) \/ Discard(v)
                 PROVE  FALSE
      OBVIOUS
    <3>1. stage # "idle" /\ NextStage(Position(stage))
      BY FailingAttempt
    <3>2. stage' = "idle" /\ stage \in Stages
      BY <3>1 DEF Returns
    <3>3. conn' = NoConn
      <4>1. ASSUME NEW m \in Remaining(Position(stage), saved), Enter(m, saved) PROVE FALSE
        BY <3>2, <4>1, PositionNat, EnterStage
      <4> QED BY <3>1, <4>1 DEF NextStage, Return
    <3> QED BY <3>3
  <2>2. CASE QuicSucceeds
    BY <2>2 DEF QuicSucceeds, Return, MutualQuic, CallState, Tried
  <2>3. ASSUME NEW v \in Versions, Accept(v)
        PROVE  /\ conn'.transport = "quic" <=> MutualQuic
               /\ MutualH2 /\ ~MutualQuic => conn'.isH2
               /\ Mutual("tls13") /\ ~RefusesH2 => conn'.transport # "tls12"
    <3>1. /\ stage \in Stages \ {"quic"} /\ ~faulted
          /\ hello = ClientHello /\ cfg = StageConfig(stage, saved)
          /\ Tried(stage, saved) /\ saved.tls13 \in BOOLEAN
          /\ v \in EnabledVersions(cfg) /\ v \in server.versions
          /\ ~Downgraded(v)
          /\ OffersH2(stage) => NegotiatedH2(hello, v)
          /\ conn'.transport = v /\ conn'.isH2 = NegotiatedH2(hello, v)
      BY <2>3 DEF Accept, Return, HelloState, AttemptInv, CallState, Config
    <3>2. /\ PassedBelow(Position(stage)) /\ Position(stage) \in 2..5
      BY <3>1, Positions DEF AttemptInv, Stages
    <3>3. v \in EnabledVersions(saved)
      BY <3>1, StageConfigSafe
    <3>4. ~MutualQuic
      <4>1. Tried("quic", saved) => RightlyPassed("quic")
        BY <3>2, Positions DEF PassedBelow
      <4> QED BY <4>1 DEF MutualQuic, Tried, RightlyPassed, OffersH2,
                PrefersTls13, OnlyTls12
    <3>5. conn'.transport # "quic"
      BY <3>1 DEF Versions
    <3>6. ASSUME MutualH2 PROVE OffersH2(stage)
      <4> SUFFICES ASSUME ~OffersH2(stage) PROVE FALSE
        OBVIOUS
      <4>1. Position(stage) \in 4..5
        BY <3>1, Positions DEF Stages, OffersH2
      <4>2. ASSUME NEW k \in 2..3, Tried(StageOrder[k], saved)
            PROVE  v \notin EnabledVersions(StageConfig(StageOrder[k], saved))
        <5>1. RightlyPassed(StageOrder[k]) /\ OffersH2(StageOrder[k]) /\ StageOrder[k] # "quic"
          BY <3>2, <4>1, <4>2, Positions DEF PassedBelow, OffersH2
        <5> QED BY <3>1, <3>6, <5>1 DEF RightlyPassed, MutualH2
      <4>3. CASE v = "tls13"
        <5>1. saved.tls13 /\ saved.modeH2
          BY <3>3, <3>6, <4>3 DEF EnabledVersions, MutualH2
        <5>2. Tried("h2/tls13", saved)
          BY <5>1 DEF Tried, OffersH2, PrefersTls13, OnlyTls12
        <5>3. v \in EnabledVersions(StageConfig("h2/tls13", saved))
          BY <4>3 DEF EnabledVersions, StageConfig, PrefersTls13, Versions
        <5> QED BY <4>2, <5>2, <5>3, Positions
      <4>4. CASE v = "tls12"
        <5>1. saved.tls12 /\ saved.modeH2
          BY <3>3, <3>6, <4>4 DEF EnabledVersions, MutualH2
        <5>2. Tried("h2/tls12", saved)
          BY <5>1 DEF Tried, OffersH2, PrefersTls13, OnlyTls12
        <5>3. v \in EnabledVersions(StageConfig("h2/tls12", saved))
          BY <4>4 DEF EnabledVersions, StageConfig, OnlyTls12, Versions
        <5> QED BY <4>2, <5>2, <5>3, Positions
      <4> QED BY <4>3, <4>4 DEF Versions
    <3>7. ASSUME Mutual("tls13"), ~RefusesH2, v = "tls12" PROVE FALSE
      <4>1. saved.tls13 /\ "tls13" \in server.versions
        BY <3>7 DEF Mutual, EnabledVersions
      <4>2. "tls13" \notin EnabledVersions(cfg)
        BY <3>1, <3>7, <4>1 DEF Downgraded, ClientHello
      <4>3. stage = "h2/tls12" \/ stage = "h1/tls12"
        BY <3>1, <4>2 DEF EnabledVersions, StageConfig, PrefersTls13, Stages, Versions
      <4>4. CASE stage = "h1/tls12"
        <5>1. Tried("h1/tls13", saved)
          BY <4>1 DEF Tried, OffersH2, PrefersTls13, OnlyTls12
        <5>2. RightlyPassed("h1/tls13")
          BY <3>2, <4>4, <5>1, Positions DEF PassedBelow
        <5>3. "tls13" \in EnabledVersions(StageConfig("h1/tls13", saved))
          BY DEF EnabledVersions, StageConfig, PrefersTls13, Versions
        <5> QED BY <4>1, <5>2, <5>3 DEF RightlyPassed, OffersH2
      <4>5. CASE stage = "h2/tls12"
        <5>1. saved.modeH2
          BY <3>1, <4>5 DEF Tried, OffersH2
        <5>2. Tried("h2/tls13", saved)
          BY <4>1, <5>1 DEF Tried, OffersH2, PrefersTls13, OnlyTls12
        <5>3. RightlyPassed("h2/tls13")
          BY <3>2, <4>5, <5>2, Positions DEF PassedBelow
        <5>4. "tls13" \in EnabledVersions(StageConfig("h2/tls13", saved))
          BY DEF EnabledVersions, StageConfig, PrefersTls13, Versions
        <5>5. server.dns \/ "h2" \notin server.alpn
          BY <4>1, <5>3, <5>4 DEF RightlyPassed, OffersH2
        <5>6. server.dns
          BY <3>7, <5>1, <5>5 DEF RefusesH2
        <5>7. hello.h2 = FALSE
          BY <3>1, <5>6 DEF ClientHello
        <5> QED BY <3>1, <3>7, <4>5, <5>7 DEF NegotiatedH2, OffersH2
      <4> QED BY <4>3, <4>4, <4>5
    <3> QED BY <3>1, <3>4, <3>5, <3>6, <3>7
  <2>4. ~QuicNoMemory /\ ~SendHello
    BY DEF QuicNoMemory, SendHello, Return, Returns
  <2>5. ~Configure /\ ~Close /\ \A s \in Servers : ~Call(s)
    BY DEF Configure, TlsMode, ProtocolMode, Close, Call, Returns
  <2> QED BY <2>1, <2>2, <2>3, <2>4, <2>5 DEF Next, Attempt
<1>2. QED BY <1>1, Invariance, AttemptsInvariance, PTL DEF Spec, BestCommonProtocol
=============================================================================
