------------------------------- MODULE AckSet -------------------------------
(***************************************************************************)
(* What the receive side of one QUIC packet number space promises about    *)
(* the packets it acknowledges, without saying how it stores them: a set   *)
(* of packet numbers that only grows, that never holds a number that was   *)
(* not received, and that takes every received number in unless the number *)
(* would start one more run of consecutive numbers than the endpoint has   *)
(* room for.  QuicAckRanges implements it with a bounded, sorted table.    *)
(***************************************************************************)
EXTENDS Integers, FiniteSets

CONSTANTS PN,      \* the packet numbers a peer may use
          Limit    \* how many runs of consecutive numbers are remembered

VARIABLES received,  \* every packet number received so far
          acked      \* the packet numbers the next ACK frame acknowledges

asVars == <<received, acked>>

(* The first number of each run of consecutive numbers in S.               *)
RunStarts(S) == {n \in S : n - 1 \notin S}

(* Neither n nor a neighbour of n is in S: adding n starts a new run.      *)
Isolated(S, n) == S \cap {n - 1, n, n + 1} = {}

Init == received = {} /\ acked = {}

Receive(pn) ==
  /\ received' = received \cup {pn}
  /\ acked' = IF Isolated(acked, pn) /\ Cardinality(RunStarts(acked)) >= Limit
              THEN acked
              ELSE acked \cup {pn}

Next == \E pn \in PN : Receive(pn)

Spec == Init /\ [][Next]_asVars
=============================================================================
