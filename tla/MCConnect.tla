------------------------------ MODULE MCConnect ------------------------------
(***************************************************************************)
(* Connect for TLC: the arguments the documentation and the test programs  *)
(* use, and servers that differ in every choice a call tests.              *)
(***************************************************************************)
EXTENDS Connect

MCModeArgs ==
  {{"http/1.1"}, {"h2"}, {"h2", "http/1.1"}, {"dot"}, {"h3"}}

MCProtoArgs ==
  {{"quic"}, {"1.3"}, {"1.2"}, {"1.3", "1.2"}, {"h2"},
   {"quic", "1.3", "1.2"}}

MCServers ==
  {s \in Server :
     /\ s.alpn \in {{}, {"http/1.1"}, {"h2", "http/1.1"}, {"dot"}}
     /\ s.dns <=> s.alpn = {"dot"}}
=============================================================================
