-------------------------- MODULE QuicPacketNumber --------------------------
(***************************************************************************)
(* The packet number of a 1-RTT packet: the sender writes its low bits,    *)
(* and quic_decrypt_1rtt (quic.c) takes the number with these low bits     *)
(* that is nearest to the one it expects.                                  *)
(***************************************************************************)
EXTENDS Integers

(* What is on the wire of a number in win values.                          *)
Truncated(pn, win) == pn % win

(* Mutant: a number that has wrapped is not moved up.                      *)
ExpandWithoutWrap(exp, tr, win) ==
  LET pn == (exp - (exp % win)) + tr
      half == win \div 2
  IN IF pn > exp + half /\ pn >= win THEN pn - win ELSE pn

(* The number that quic_decrypt_1rtt takes for tr when it expects exp.     *)
Expand(exp, tr, win) ==
  LET pn == (exp - (exp % win)) + tr
      half == win \div 2
  IN IF pn + half <= exp THEN pn + win
     ELSE IF pn > exp + half /\ pn >= win THEN pn - win
     ELSE pn

(* What the sender has to keep to: the number is one of the win nearest to *)
(* the one expected.                                                       *)
InWindow(pn, exp, win) ==
  exp - (win \div 2) < pn /\ pn <= exp + (win \div 2)
=============================================================================
