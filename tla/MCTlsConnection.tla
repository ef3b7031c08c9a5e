-------------------------- MODULE MCTlsConnection --------------------------
(* TlsConnection for TLC.  A Certificate has one unit, and comes whole in  *)
(* the record of a TLS 1.2 ServerHello or in its own, or has five and does *)
(* not fit; a DATA frame of three units and a record fill the queue to the *)
(* last unit.  Of the two bodies one is longer than the window.            *)
EXTENDS TlsConnection

MCCertLengths == {1, 5}
MCBodyLengths == {3, 4}
MCCallerLengths == {1, 2}
=============================================================================
