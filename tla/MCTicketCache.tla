---------------------------- MODULE MCTicketCache ----------------------------
(* Instances of TicketCache for TLC: one thread that has more hosts than   *)
(* the cache has slots, and two threads that share one slot.               *)
EXTENDS TicketCache, TLC

(* Hosts are only compared for equality.                                   *)
HostSymmetry == Permutations(Hosts)
=============================================================================
