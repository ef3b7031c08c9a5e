--------------------------- MODULE MCQuicReceive ---------------------------
(* QuicReceive for TLC.                                                    *)
EXTENDS QuicReceive, TLC

MCResponses ==
  {[fields |-> <<[base |-> 2, idx |-> 1]>>, body |-> <<<<"DATA", 3>>>>],
   [fields |-> <<[base |-> 3, idx |-> 1], [base |-> 3, idx |-> 2]>>,
    body |-> <<<<"DATA", 1>>, <<"SKIP", 0>>, <<"DATA", 1>>>>]}

MCLaterResponse == [fields |-> <<>>, body |-> <<>>]

MCPieces == 0 :> {3, 5} @@ 4 :> {2} @@ EncoderStream :> {4, 5}

MCInstructions ==
  <<[op |-> "literal name", name |-> "n", value |-> "a"],
    [op |-> "name reference", idx |-> 0, value |-> "b"],
    [op |-> "duplicate", idx |-> 1],
    [op |-> "duplicate", idx |-> 2]>>

MCLookalikes == {[op |-> "literal name", name |-> "junk", value |-> "junk"]}

MCMisreadings == {<<"DATA", 1>>, <<"SKIP", 9>>}

MCCallerLengths == {1}
MCLoads ==
  {[requests |-> 1, flight |-> 2, faults |-> 0],
   [requests |-> 1, flight |-> 1, faults |-> 1],
   [requests |-> 2, flight |-> 1, faults |-> 0]}

MCWindows == {2, 4, 8, 16}
=============================================================================
