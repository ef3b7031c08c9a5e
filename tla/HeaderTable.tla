---------------------------- MODULE HeaderTable ----------------------------
(***************************************************************************)
(* What a dynamic header table promises: the latest entries, oldest first, *)
(* as many as it has room for, and how many there ever were.  Entries are  *)
(* added at the end, several at a time, and leave from the front; what is  *)
(* in between stays.                                                       *)
(***************************************************************************)
EXTENDS Naturals, Sequences

CONSTANTS
  Size,      \* entries the table has room for
  MaxAtOnce  \* additions in one step

VARIABLES
  latest,    \* the latest entries
  inserted   \* how many there ever were

tableVars == <<latest, inserted>>

Init == latest = <<>> /\ inserted = 0

Add(n) ==
  /\ inserted' = inserted + n
  /\ Len(latest') = IF Len(latest) + n < Size THEN Len(latest) + n ELSE Size
  /\ LET gone == Len(latest) + n - Len(latest')
     IN \A i \in gone + 1 .. Len(latest) : latest'[i - gone] = latest[i]

Next == \E n \in 1..MaxAtOnce : Add(n)

Spec == Init /\ [][Next]_tableVars
=============================================================================
