--------------------------- MODULE MCQuicRecovery ---------------------------
(***************************************************************************)
(* QuicRecovery for TLC: a ClientHello, a second one after a Retry, the    *)
(* client's Finished, a request.                                           *)
(***************************************************************************)
EXTENDS QuicRecovery, TLC

CONSTANTS hello, again, finished, request

MCEpochOf ==
  [d \in Data |-> CASE d \in {hello, again} -> 0 [] d = finished -> 2 [] d = request -> 3]

(* The first ClientHello may be the one or the other.                      *)
Interchangeable == Permutations({hello, again})
=============================================================================
