------------------------- MODULE QuicReceive_proofs -------------------------
(***************************************************************************)
(* What the receiving side of QUIC is proved to do, for every response,    *)
(* every table, every size of buffers and windows, and any number of       *)
(* requests, losses and packets in flight.                                 *)
(*                                                                         *)
(* First the parts: the expansion of packet numbers, the ring of the       *)
(* dynamic table, and that no packet is refused before one comes late or   *)
(* twice.  Then what streams are made of, and the two loops that take them *)
(* apart, over HTTP/3 frames and over encoder instructions: unit by unit   *)
(* each keeps to where the server is.  Then STREAM frames, packets, and    *)
(* calls of tls_core_recv, and with these the invariant ReceiveInv.        *)
(***************************************************************************)
EXTENDS QuicReceive, InductionLemmas

(* The expansion of packet numbers (QuicPacketNumber).                     *)

(* Division with remainder.                                                *)
LEMMA Division ==
  ASSUME NEW n \in Nat, NEW win \in Nat, win > 0
  PROVE  /\ n \div win \in Nat
         /\ n % win \in 0..win - 1
         /\ n = win * (n \div win) + (n % win)
  BY Z3

LEMMA Halves ==
  ASSUME NEW win \in Nat, win > 0, win % 2 = 0
  PROVE  win \div 2 \in Nat /\ win = 2 * (win \div 2) /\ win \div 2 > 0
  BY Z3

(* A multiple that is more than d times win away.                          *)
LEMMA Multiples ==
  ASSUME NEW win \in Nat, NEW p \in Nat, NEW q \in Nat
  PROVE  /\ p = q => win * p = win * q
         /\ p = q + 1 => win * p = win * q + win
         /\ q = p + 1 => win * q = win * p + win
         /\ p > q + 1 => win * p >= win * q + 2 * win
         /\ q > p + 1 => win * q >= win * p + 2 * win
  BY Z3

(* A number among the win nearest to the one expected is recovered from    *)
(* its low bits (quic_decrypt_1rtt, quic.c): the packet decrypts.          *)
THEOREM ExpandInverts ==
  ASSUME NEW win \in Nat, win > 0, win % 2 = 0,
         NEW exp \in Nat, NEW pn \in Nat, InWindow(pn, exp, win)
  PROVE  Expand(exp, Truncated(pn, win), win) = pn
<1> DEFINE half == win \div 2
           p == pn \div win
           t == pn % win
           q == exp \div win
           r == exp % win
           near == (exp - r) + t
<1>1. half \in Nat /\ win = 2 * half /\ half > 0
  BY Halves
<1>2. p \in Nat /\ t \in 0..win - 1 /\ pn = win * p + t
  BY Division
<1>3. q \in Nat /\ r \in 0..win - 1 /\ exp = win * q + r
  BY Division
<1>4. exp - half < pn /\ pn <= exp + half
  BY DEF InWindow
<1>5. Expand(exp, Truncated(pn, win), win)
        = IF near + half <= exp THEN near + win
          ELSE IF near > exp + half /\ near >= win THEN near - win ELSE near
  BY DEF Expand, Truncated
<1> HIDE DEF half, p, t, q, r
<1>6. near = win * q + t
  BY <1>3
<1>. DEFINE wp == win * p
            wq == win * q
<1>7. wp \in Int /\ wq \in Int /\ near = wq + t /\ pn = wp + t /\ exp = wq + r
  BY <1>2, <1>3, <1>6
<1>8. near \in Int
  BY <1>7, <1>2
<1> HIDE DEF wp, wq, near
<1>9. CASE p = q
  <2>1. wp = wq
    BY <1>9 DEF wp, wq
  <2> QED
    BY <2>1, <1>1, <1>2, <1>4, <1>5, <1>7, <1>8
<1>10. CASE p = q + 1
  <2>1. wp = wq + win
    BY <1>10, <1>2, <1>3, Multiples DEF wp, wq
  <2> QED
    BY <2>1, <1>1, <1>2, <1>3, <1>4, <1>5, <1>7, <1>8
<1>11. CASE q = p + 1
  <2>1. wq = wp + win
    BY <1>11, <1>2, <1>3, Multiples DEF wp, wq
  <2>2. wp >= 0
    BY <1>2 DEF wp
  <2> QED
    BY <2>1, <2>2, <1>1, <1>2, <1>3, <1>4, <1>5, <1>7, <1>8
<1>12. CASE p > q + 1
  <2>1. wp >= wq + 2 * win
    BY <1>12, <1>2, <1>3, Multiples DEF wp, wq
  <2> QED
    BY <2>1, <1>1, <1>2, <1>3, <1>4, <1>7
<1>13. CASE q > p + 1
  <2>1. wq >= wp + 2 * win
    BY <1>13, <1>2, <1>3, Multiples DEF wp, wq
  <2> QED
    BY <2>1, <1>1, <1>2, <1>3, <1>4, <1>7
<1> QED
  BY <1>2, <1>3, <1>9, <1>10, <1>11, <1>12, <1>13

(* A packet numbered above all that were received, truncated as RFC 9000   *)
(* allows, is within the window of a client that expects the number after  *)
(* the largest.                                                            *)
THEOREM NextInWindow ==
  ASSUME NEW win \in Nat, win > 0, win % 2 = 0,
         NEW exp \in Nat, NEW pn \in Nat, pn >= exp, win >= 2 * (pn - (exp - 1))
  PROVE  InWindow(pn, exp, win)
<1>1. win \div 2 \in Nat /\ win = 2 * (win \div 2) /\ win \div 2 > 0
  BY Halves
<1> QED
  BY <1>1 DEF InWindow

-----------------------------------------------------------------------------
(* The ring of the dynamic table (Qpack).                                  *)

(* The tables there can be when the entries come from a set.               *)
Tables(Entry) ==
  {t \in [entries : [0..TableSize - 1 -> Entry], tail : 0..TableSize - 1,
          count : 0..TableSize, insert_count : Nat] : t.count <= t.insert_count}

(* The k-th place after the tail.                                          *)
LEMMA Slot ==
  ASSUME NEW tail \in 0..TableSize - 1, NEW k \in 0..TableSize
  PROVE  /\ (tail + k) % TableSize \in 0..TableSize - 1
         /\ (tail + k) % TableSize =
              IF tail + k < TableSize THEN tail + k ELSE tail + k - TableSize
<1>1. TableSize \in Nat /\ TableSize > 0
  BY TableSizeAssumption
<1> QED
  BY <1>1, Z3

LEMMA SlotsDiffer ==
  ASSUME NEW tail \in 0..TableSize - 1,
         NEW j \in 0..TableSize - 1, NEW k \in 0..TableSize - 1, j # k
  PROVE  (tail + j) % TableSize # (tail + k) % TableSize
<1> DEFINE Place(i) == (tail + i) % TableSize
<1>1. TableSize \in Nat /\ TableSize > 0
  BY TableSizeAssumption
<1>2. Place(j) = IF tail + j < TableSize THEN tail + j ELSE tail + j - TableSize
  BY <1>1, Slot
<1>3. Place(k) = IF tail + k < TableSize THEN tail + k ELSE tail + k - TableSize
  BY <1>1, Slot
<1> HIDE DEF Place
<1>4. Place(j) # Place(k)
  BY <1>1, <1>2, <1>3
<1> QED
  BY <1>4 DEF Place

(* Counted from the place after the tail.                                  *)
LEMMA SlotAfter ==
  ASSUME NEW tail \in 0..TableSize - 1, NEW k \in 1..TableSize
  PROVE  (((tail + 1) % TableSize) + (k - 1)) % TableSize = (tail + k) % TableSize
<1> DEFINE Place(base, i) == (base + i) % TableSize
           after == Place(tail, 1)
<1>1. TableSize \in Nat /\ TableSize > 0
  BY TableSizeAssumption
<1>2. /\ after \in 0..TableSize - 1
      /\ after = IF tail + 1 < TableSize THEN tail + 1 ELSE tail + 1 - TableSize
  BY <1>1, Slot
<1>3. Place(tail, k) = IF tail + k < TableSize THEN tail + k ELSE tail + k - TableSize
  BY <1>1, Slot
<1> HIDE DEF after
<1>4. Place(after, k - 1) = IF after + (k - 1) < TableSize THEN after + (k - 1)
                            ELSE after + (k - 1) - TableSize
  BY <1>1, <1>2, Slot
<1> HIDE DEF Place
<1>5. Place(after, k - 1) = Place(tail, k)
  BY <1>1, <1>2, <1>3, <1>4
<1> QED
  BY <1>5 DEF Place, after

LEMMA FullCircle ==
  ASSUME NEW tail \in 0..TableSize - 1
  PROVE  (tail + TableSize) % TableSize = (tail + 0) % TableSize
<1>1. TableSize \in Nat /\ TableSize > 0
  BY TableSizeAssumption
<1> QED
  BY <1>1, Z3

LEMMA ContentsType ==
  ASSUME NEW Entry, NEW t \in Tables(Entry)
  PROVE  Contents(t) \in Seq(Entry) /\ Len(Contents(t)) = t.count
<1>1. t.count \in Nat /\ t.tail \in 0..TableSize - 1 /\ TableSize \in Nat \ {0}
  BY TableSizeAssumption DEF Tables
<1>2. ASSUME NEW k \in 1..t.count
      PROVE  t.entries[(t.tail + (k - 1)) % TableSize] \in Entry
  <2>1. t.count <= TableSize
    BY DEF Tables
  <2>2. k - 1 \in 0..TableSize
    BY <1>1, <2>1
  <2>3. (t.tail + (k - 1)) % TableSize \in 0..TableSize - 1
    BY <1>1, <2>2, Slot
  <2> QED
    BY <2>3 DEF Tables
<1> QED
  BY <1>1, <1>2 DEF Contents

(* qpack_add_dynamic_entry keeps the ring well formed.                     *)
THEOREM AddKeepsTable ==
  ASSUME NEW Entry, NEW t \in Tables(Entry), NEW e \in Entry,
         NEW u, u = AddDynamicEntry(t, e)
  PROVE  u \in Tables(Entry)
<1>1. TableSize \in Nat \ {0}
  BY TableSizeAssumption
<1>2. /\ t.entries \in [0..TableSize - 1 -> Entry]
      /\ t.tail \in 0..TableSize - 1 /\ t.count \in 0..TableSize
      /\ t.insert_count \in Nat /\ t.count <= t.insert_count
  BY DEF Tables
<1> DEFINE pos == (t.tail + t.count) % TableSize
<1>3. pos \in 0..TableSize - 1
  BY <1>2, Slot
<1>4. u = [entries |-> [t.entries EXCEPT ![pos] = e],
           tail |-> IF t.count = TableSize THEN (t.tail + 1) % TableSize ELSE t.tail,
           count |-> IF t.count = TableSize THEN t.count ELSE t.count + 1,
           insert_count |-> t.insert_count + 1]
  BY DEF AddDynamicEntry, Tables
<1>5. [t.entries EXCEPT ![pos] = e] \in [0..TableSize - 1 -> Entry]
  BY <1>2
<1>6. (t.tail + 1) % TableSize \in 0..TableSize - 1
  <2>1. 1 \in 0..TableSize
    BY <1>1
  <2> QED
    BY <1>2, <2>1, Slot
<1>7. (IF t.count = TableSize THEN (t.tail + 1) % TableSize ELSE t.tail) \in 0..TableSize - 1
  BY <1>2, <1>6
<1>8. (IF t.count = TableSize THEN t.count ELSE t.count + 1) \in 0..TableSize
  BY <1>1, <1>2
<1> HIDE DEF pos
<1>9. u \in [entries : [0..TableSize - 1 -> Entry], tail : 0..TableSize - 1,
             count : 0..TableSize, insert_count : Nat]
  BY <1>2, <1>4, <1>5, <1>7, <1>8
<1>10. u.count <= u.insert_count
  BY <1>1, <1>2, <1>4
<1> QED
  BY <1>9, <1>10 DEF Tables

(* After qpack_add_dynamic_entry the entry is the last, and the others     *)
(* keep their order; if the ring was full the oldest of them is gone.      *)
THEOREM AddIsStep ==
  ASSUME NEW Entry, NEW t \in Tables(Entry), NEW e \in Entry,
         NEW u, u = AddDynamicEntry(t, e),
         NEW gone, gone = t.count + 1 - u.count
  PROVE  /\ u.insert_count = t.insert_count + 1
         /\ u.count = IF t.count + 1 < TableSize THEN t.count + 1 ELSE TableSize
         /\ Contents(u)[u.count] = e
         /\ \A i \in gone + 1 .. t.count : Contents(u)[i - gone] = Contents(t)[i]
<1>1. TableSize \in Nat \ {0}
  BY TableSizeAssumption
<1>2. /\ t.entries \in [0..TableSize - 1 -> Entry]
      /\ t.tail \in 0..TableSize - 1 /\ t.count \in 0..TableSize
      /\ t.insert_count \in Nat /\ t.count <= t.insert_count
  BY DEF Tables
<1> DEFINE pos == (t.tail + t.count) % TableSize
<1>3. pos \in 0..TableSize - 1
  BY <1>2, Slot
<1>4. u = [entries |-> [t.entries EXCEPT ![pos] = e],
           tail |-> IF t.count = TableSize THEN (t.tail + 1) % TableSize ELSE t.tail,
           count |-> IF t.count = TableSize THEN t.count ELSE t.count + 1,
           insert_count |-> t.insert_count + 1]
  BY DEF AddDynamicEntry, Tables
<1>5. /\ u.entries = [t.entries EXCEPT ![pos] = e]
      /\ u.tail = IF t.count = TableSize THEN (t.tail + 1) % TableSize ELSE t.tail
      /\ u.count = IF t.count = TableSize THEN t.count ELSE t.count + 1
      /\ u.insert_count = t.insert_count + 1
  BY <1>4
<1>6. u.count = IF t.count + 1 < TableSize THEN t.count + 1 ELSE TableSize
  BY <1>1, <1>2, <1>5
<1>7. /\ \A k \in 1..t.count : Contents(t)[k] = t.entries[(t.tail + (k - 1)) % TableSize]
      /\ \A k \in 1..u.count : Contents(u)[k] = u.entries[(u.tail + (k - 1)) % TableSize]
  BY DEF Contents
<1>8. u.entries[pos] = e /\ \A p \in 0..TableSize - 1 : p # pos => u.entries[p] = t.entries[p]
  BY <1>2, <1>3, <1>5
<1> HIDE DEF pos
<1>9. CASE t.count < TableSize
  <2>1. u.tail = t.tail /\ u.count = t.count + 1 /\ gone = 0
    BY <1>2, <1>5, <1>9
  <2>2. Contents(u)[u.count] = e
    <3>1. u.count \in 1..u.count /\ u.tail + (u.count - 1) = t.tail + t.count
      BY <1>2, <2>1
    <3> QED
      BY <1>7, <1>8, <3>1 DEF pos
  <2>3. ASSUME NEW i \in 1..t.count PROVE Contents(u)[i] = Contents(t)[i]
    <3> DEFINE q == (t.tail + (i - 1)) % TableSize
    <3>0. i - 1 \in 0..TableSize - 1 /\ t.count \in 0..TableSize - 1 /\ i - 1 # t.count
      BY <1>1, <1>2, <1>9
    <3>1. q # pos
      BY <1>2, <3>0, SlotsDiffer DEF pos
    <3>2. i - 1 \in 0..TableSize /\ i \in 1..u.count
      BY <1>1, <1>2, <2>1
    <3>3. q \in 0..TableSize - 1
      BY <1>2, <3>2, Slot
    <3>4. Contents(u)[i] = u.entries[q]
      BY <1>7, <2>1, <3>2
    <3>5. Contents(t)[i] = t.entries[q]
      BY <1>7
    <3> QED
      BY <1>8, <3>1, <3>3, <3>4, <3>5
  <2> QED
    BY <1>2, <1>5, <1>6, <2>1, <2>2, <2>3
<1>10. CASE t.count = TableSize
  <2>1. u.tail = (t.tail + 1) % TableSize /\ u.count = t.count /\ gone = 1
    BY <1>2, <1>5, <1>10
  <2>2. ASSUME NEW k \in 1..TableSize
        PROVE  (u.tail + (k - 1)) % TableSize = (t.tail + k) % TableSize
    BY <1>2, <2>1, SlotAfter
  <2>3. Contents(u)[u.count] = e
    <3>1. TableSize \in 1..TableSize /\ u.count = TableSize
      BY <1>1, <1>10, <2>1
    <3>2. (u.tail + (u.count - 1)) % TableSize = pos
      BY <1>10, <2>2, <3>1 DEF pos
    <3> QED
      BY <1>7, <1>8, <3>1, <3>2
  <2>4. ASSUME NEW i \in 2..t.count PROVE Contents(u)[i - 1] = Contents(t)[i]
    <3> DEFINE q == (t.tail + (i - 1)) % TableSize
    <3>1. i - 1 \in 1..TableSize - 1 /\ i \in 1..t.count /\ i - 1 \in 1..u.count
      BY <1>1, <1>10, <2>1
    <3>2. q \in 0..TableSize - 1 /\ q # pos
      <4>1. pos = (t.tail + 0) % TableSize
        BY <1>2, <1>10, FullCircle DEF pos
      <4>2. 0 \in 0..TableSize - 1 /\ i - 1 \in 0..TableSize - 1 /\ i - 1 # 0
        BY <1>1, <3>1
      <4>3. q # pos
        BY <1>2, <4>1, <4>2, SlotsDiffer
      <4>4. i - 1 \in 0..TableSize
        BY <1>1, <3>1
      <4> QED
        BY <1>2, <4>3, <4>4, Slot
    <3>3. (u.tail + ((i - 1) - 1)) % TableSize = q
      BY <1>1, <2>2, <3>1
    <3>4. Contents(u)[i - 1] = u.entries[q]
      BY <1>7, <3>1, <3>3
    <3>5. Contents(t)[i] = t.entries[q]
      BY <1>7, <3>1
    <3> QED
      BY <1>8, <3>2, <3>4, <3>5
  <2> QED
    BY <1>5, <1>6, <2>1, <2>3, <2>4
<1> QED
  BY <1>1, <1>2, <1>9, <1>10

(* qpack_get_dynamic_entry: index 0 is the latest entry, and an index      *)
(* beyond the oldest names none.                                           *)
THEOREM GetCountsBack ==
  ASSUME NEW Entry, NEW t \in Tables(Entry), NEW idx \in Nat
  PROVE  GetDynamicEntry(t, idx) =
           IF idx < t.count THEN {Contents(t)[t.count - idx]} ELSE {}
<1>1. /\ t.count \in Nat /\ t.insert_count \in Nat /\ t.count <= t.insert_count
      /\ t.tail \in Nat
  BY TableSizeAssumption DEF Tables
<1>2. CASE idx < t.count
  <2>1. /\ idx < t.insert_count
        /\ t.insert_count - 1 - idx >= t.insert_count - t.count
        /\ (t.insert_count - 1 - idx) - (t.insert_count - t.count) = (t.count - idx) - 1
        /\ t.count - idx \in 1..t.count
    BY <1>1, <1>2
  <2> QED
    BY <1>2, <2>1 DEF GetDynamicEntry, Contents
<1>3. CASE ~ (idx < t.count)
  <2>1. ~ (t.insert_count - 1 - idx >= t.insert_count - t.count)
    BY <1>1, <1>3
  <2> QED
    BY <1>3, <2>1 DEF GetDynamicEntry
<1> QED
  BY <1>2, <1>3

-----------------------------------------------------------------------------
(* The packets of a connection (QuicReceive).                              *)

(* The packets on their way were truncated for the ACKs there were; until  *)
(* one comes late or twice the client expects the number after the largest.*)
NumberedFor(p) ==
  /\ p.pn \in Nat /\ p.pn < server_pn
  /\ p.win \in Windows /\ Enough(p.win, p.pn)

NumbersInv ==
  /\ server_pn \in Nat /\ s_app_pn_next \in Nat
  /\ largest \in Int /\ -1 <= largest
  /\ \A p \in flight : NumberedFor(p)
  /\ ~overtaken => s_app_pn_next = largest + 1
  /\ NothingDropped

(* What is in order stays decipherable.                                    *)
LEMMA InOrderDecrypts ==
  ASSUME NumbersInv, NEW p \in flight, ~overtaken, p.pn >= s_app_pn_next
  PROVE  Decrypts(p)
<1>1. p.pn \in Nat /\ p.win \in Windows /\ p.win >= 2 * (p.pn - largest)
  BY DEF NumbersInv, NumberedFor, Enough
<1>2. p.win \in Nat /\ p.win > 0 /\ p.win % 2 = 0
  BY <1>1, WindowsAssumption
<1>3. s_app_pn_next \in Nat /\ largest = s_app_pn_next - 1
  BY DEF NumbersInv
<1>4. p.win >= 2 * (p.pn - (s_app_pn_next - 1))
  BY <1>1, <1>3
<1>5. InWindow(p.pn, s_app_pn_next, p.win)
  BY <1>1, <1>2, <1>3, <1>4, NextInWindow
<1> QED
  BY <1>1, <1>2, <1>3, <1>5, ExpandInverts DEF Decrypts

LEMMA NumbersInit == Init => NumbersInv
  BY DEF Init, NumbersInv, NothingDropped

(* Numbers that stay as they are.                                          *)
LEMMA NumbersKept ==
  ASSUME NumbersInv, UNCHANGED <<server_pn, numbers>>, flight' \subseteq flight
  PROVE  NumbersInv'
  BY DEF NumbersInv, NothingDropped, NumberedFor, Enough, numbers

LEMMA LaunchKeeps ==
  ASSUME NumbersInv, NEW frames, Launch(frames)
  PROVE  NumbersInv'
<1>1. /\ server_pn' = server_pn + 1
      /\ UNCHANGED <<s_app_pn_next, largest, overtaken, refused>>
  BY DEF Launch, numbers
<1>2. PICK win \in Windows :
        /\ Enough(win, server_pn)
        /\ flight' = flight \cup {[pn |-> server_pn, win |-> win, frames |-> frames]}
  BY DEF Launch
<1>3. ASSUME NEW p \in flight' PROVE NumberedFor(p)'
  <2>1. CASE p \in flight
    BY <2>1, <1>1 DEF NumbersInv, NumberedFor, Enough
  <2>2. CASE p = [pn |-> server_pn, win |-> win, frames |-> frames]
    BY <2>2, <1>1, <1>2 DEF NumbersInv, NumberedFor, Enough
  <2> QED
    BY <1>2, <2>1, <2>2
<1> QED
  BY <1>1, <1>3 DEF NumbersInv, NothingDropped

LEMMA ReceiveKeeps ==
  ASSUME NumbersInv, NEW p \in flight, Receive(p), flight' \subseteq flight
  PROVE  NumbersInv'
<1>1. /\ overtaken' = (overtaken \/ p.pn < s_app_pn_next)
      /\ server_pn' = server_pn
      /\ NumberedFor(p)
  BY DEF Receive, NumbersInv
<1>2. CASE Decrypts(p)
  <2>1. /\ s_app_pn_next' = p.pn + 1
        /\ largest' = IF p.pn > largest THEN p.pn ELSE largest
        /\ refused' = refused
    BY <1>2 DEF Receive, Parsed
  <2>2. largest' \in Int /\ largest <= largest' /\ s_app_pn_next' \in Nat
    BY <1>1, <2>1 DEF NumbersInv, NumberedFor
  <2>3. ASSUME NEW q \in flight' PROVE NumberedFor(q)'
    <3>1. NumberedFor(q)
      BY DEF NumbersInv
    <3>2. q.win \in Nat
      BY <3>1, WindowsAssumption DEF NumberedFor
    <3> QED
      BY <3>1, <3>2, <1>1, <2>2 DEF NumbersInv, NumberedFor, Enough
  <2>4. ASSUME ~overtaken' PROVE s_app_pn_next' = largest' + 1
    <3>1. s_app_pn_next = largest + 1
      BY <1>1, <2>4, Zenon DEF NumbersInv
    <3>2. ~ (p.pn < s_app_pn_next)
      BY <1>1, <2>4, Zenon
    <3>3. p.pn \in Nat /\ largest \in Int
      BY <1>1 DEF NumbersInv, NumberedFor
    <3> QED
      BY <2>1, <3>1, <3>2, <3>3
  <2>5. NothingDropped'
    BY <1>1, <2>1 DEF NumbersInv, NothingDropped
  <2>6. server_pn' \in Nat /\ -1 <= largest'
    BY <1>1, <2>2 DEF NumbersInv
  <2> QED
    BY <2>2, <2>3, <2>4, <2>5, <2>6 DEF NumbersInv
<1>3. CASE ~Decrypts(p)
  <2>1. UNCHANGED <<s_app_pn_next, largest>>
    BY <1>3 DEF Receive, NotDecrypted
  <2>2. ASSUME ~overtaken' PROVE FALSE
    <3>1. ~overtaken /\ ~ (p.pn < s_app_pn_next)
      BY <1>1, <2>2, Zenon
    <3>2. p.pn >= s_app_pn_next
      BY <1>1, <3>1 DEF NumbersInv, NumberedFor
    <3> QED
      BY <1>3, <3>1, <3>2, InOrderDecrypts
  <2>3. \A q \in flight' : NumberedFor(q)'
    BY <1>1, <2>1 DEF NumbersInv, NumberedFor, Enough
  <2> QED
    BY <1>1, <2>1, <2>2, <2>3 DEF NumbersInv, NothingDropped
<1> QED
  BY <1>2, <1>3

LEMMA NumbersStep ==
  ASSUME NumbersInv, [Next]_vars
  PROVE  NumbersInv'
<1>1. CASE SendRequest
  BY <1>1, NumbersKept DEF SendRequest
<1>2. CASE RecvBuffered
  BY <1>2, NumbersKept DEF RecvBuffered
<1>3. CASE RecvNothing
  BY <1>3, NumbersKept DEF RecvNothing
<1>4. CASE RecvPacket
  <2>1. PICK p \in flight : Receive(p) /\ flight' = flight \ {p}
    BY <1>4 DEF RecvPacket
  <2> QED
    BY <2>1, ReceiveKeeps
<1>5. CASE RecvPacketTwice
  <2>1. PICK p \in flight : Receive(p) /\ flight' = flight
    BY <1>5 DEF RecvPacketTwice
  <2> QED
    BY <2>1, ReceiveKeeps
<1>6. CASE ServerSends
  <2>1. \E frames : Launch(frames)
    BY <1>6 DEF ServerSends
  <2> QED
    BY <2>1, LaunchKeeps
<1>7. CASE ServerResends
  BY <1>7, LaunchKeeps DEF ServerResends
<1>8. CASE ServerCloses
  BY <1>8, LaunchKeeps DEF ServerCloses
<1>9. CASE Lose
  BY <1>9, NumbersKept DEF Lose
<1>10. CASE UNCHANGED vars
  BY <1>10, NumbersKept DEF vars
<1> QED
  BY <1>1, <1>2, <1>3, <1>4, <1>5, <1>6, <1>7, <1>8, <1>9, <1>10 DEF Next

(* quic_decrypt_1rtt refuses no packet before one has come late or twice,  *)
(* although it expands numbers around the latest one and not around the    *)
(* largest.                                                                *)
THEOREM PacketsDecrypt == Spec => []NothingDropped
<1>1. Init => NumbersInv
  BY NumbersInit
<1>2. NumbersInv /\ [Next]_vars => NumbersInv'
  BY NumbersStep
<1>3. NumbersInv => NothingDropped
  BY DEF NumbersInv
<1> QED
  BY <1>1, <1>2, <1>3, PTL DEF Spec

-----------------------------------------------------------------------------
(* Streams: what they are made of, and the body (QuicReceive).             *)

(* What streams are made of.                                               *)
Kinds == {"HEADERS", "DATA", "SKIP"}

AnyUnit ==
  ({"type"} \X Kinds) \cup ({"length"} \X Nat) \cup ({"field"} \X FieldLines)
    \cup ({"DATA", "SKIP"} \X (Nat \X Nat)) \cup ({"stream type"} \X {"encoder"})
    \cup ({"first", "second"} \X ToSet(Instructions))

(* A unit in the payload of a frame of this kind.                          *)
PayloadOf(kind, unit) == unit[1] # "type" /\ (unit[1] = "DATA" <=> kind = "DATA")

FrameAt(u, p, kind, n) ==
  /\ p + 2 + n \in 0..Len(u)
  /\ u[p + 1] = <<"type", kind>> /\ u[p + 2] = <<"length", n>>
  /\ \A j \in p + 3..p + 2 + n : PayloadOf(kind, u[j])

(* Frames begin at the places in B, one behind the other.                  *)
Framed(u, B) ==
  /\ B \subseteq 0..Len(u) /\ 0 \in B /\ Len(u) \in B
  /\ \A p \in B : p = Len(u) \/ \E kind \in Kinds, n \in Nat :
                                  p + 2 + n \in B /\ FrameAt(u, p, kind, n)

Headed(u) ==
  \A i \in 1..Len(u) : u[i][1] = "type" => i + 1 \in 1..Len(u) /\ u[i + 1][1] = "length"

WellFormed(u) == u \in Seq(AnyUnit) /\ Headed(u) /\ \E B : Framed(u, B)

(* An empty stream, ...                                                    *)
LEMMA NothingWellFormed == WellFormed(<<>>)
<1>1. Framed(<<>>, {0})
  BY DEF Framed
<1> QED BY <1>1 DEF WellFormed, Headed

(* ... one frame, ...                                                      *)
LEMMA FrameWellFormed ==
  ASSUME NEW kind \in Kinds, NEW n \in Nat, NEW payload,
         \A k \in 1..n : payload[k] \in AnyUnit /\ PayloadOf(kind, payload[k])
  PROVE  WellFormed(FrameUnits(kind, n, payload))
<1> DEFINE h == <<<<"type", kind>>, <<"length", n>>>>
           t == [k \in 1..n |-> payload[k]]
           u == FrameUnits(kind, n, payload)
<1>1. <<"type", kind>> \in AnyUnit /\ <<"length", n>> \in AnyUnit
  BY DEF AnyUnit
<1>2. h \in Seq(AnyUnit) /\ Len(h) = 2
  BY <1>1
<1>3. t \in Seq(AnyUnit) /\ Len(t) = n
  OBVIOUS
<1>4. u = h \o t
  BY DEF FrameUnits
<1>5. /\ u \in Seq(AnyUnit) /\ Len(u) = n + 2
      /\ \A i \in 1..n + 2 : u[i] = IF i <= 2 THEN h[i] ELSE t[i - 2]
  <2> HIDE DEF h, t
  <2>1. /\ h \o t \in Seq(AnyUnit) /\ Len(h \o t) = Len(h) + Len(t)
        /\ \A i \in 1..Len(h) + Len(t) : (h \o t)[i] = IF i <= Len(h) THEN h[i] ELSE t[i - Len(h)]
    BY <1>2, <1>3, ConcatProperties
  <2> DEFINE w == h \o t
  <2> HIDE DEF w
  <2>2. /\ w \in Seq(AnyUnit) /\ Len(w) = 2 + n
        /\ \A i \in 1..2 + n : w[i] = IF i <= 2 THEN h[i] ELSE t[i - 2]
    BY <1>2, <1>3, <2>1 DEF w
  <2>3. 2 + n = n + 2
    OBVIOUS
  <2> QED BY <1>4, <2>2, <2>3 DEF w
<1>6. u[1] = <<"type", kind>> /\ u[2] = <<"length", n>>
      /\ \A i \in 3..n + 2 : u[i] = payload[i - 2] /\ i - 2 \in 1..n
  <2>1. 1 \in 1..n + 2 /\ 2 \in 1..n + 2
    OBVIOUS
  <2>2. ASSUME NEW i \in 3..n + 2 PROVE i \in 1..n + 2 /\ ~(i <= 2) /\ i - 2 \in 1..n
    OBVIOUS
  <2>3. h[1] = <<"type", kind>> /\ h[2] = <<"length", n>> /\ \A k \in 1..n : t[k] = payload[k]
    OBVIOUS
  <2> HIDE DEF u, h, t
  <2>4. u[1] = h[1] /\ u[2] = h[2]
    BY <1>5, <2>1
  <2>5. \A i \in 3..n + 2 : u[i] = payload[i - 2]
    BY <1>5, <2>2, <2>3
  <2> QED BY <2>2, <2>3, <2>4, <2>5
<1> HIDE DEF u, h, t
<1>7. FrameAt(u, 0, kind, n)
  <2>1. \A j \in 3..2 + n : PayloadOf(kind, u[j])
    BY <1>6
  <2> QED BY <1>5, <1>6, <2>1 DEF FrameAt
<1>8. Framed(u, {0, Len(u)})
  BY <1>5, <1>7 DEF Framed
<1>9. Headed(u)
  <2> SUFFICES ASSUME NEW i \in 1..Len(u), u[i][1] = "type"
               PROVE  i + 1 \in 1..Len(u) /\ u[i + 1][1] = "length"
    BY DEF Headed
  <2>1. i = 1 \/ i = 2 \/ i \in 3..n + 2
    BY <1>5
  <2>2. CASE i = 1
    BY <1>5, <1>6, <2>2
  <2>3. CASE i = 2
    BY <1>6, <2>3
  <2>4. CASE i \in 3..n + 2
    BY <1>6, <2>4 DEF PayloadOf
  <2> QED BY <2>1, <2>2, <2>3, <2>4
<1> QED BY <1>5, <1>8, <1>9 DEF WellFormed, u

(* ... one stream behind another, ...                                      *)
LEMMA TogetherWellFormed ==
  ASSUME NEW x, NEW y, WellFormed(x), WellFormed(y)
  PROVE  WellFormed(x \o y)
<1> DEFINE w == x \o y
           m == Len(x)
           n == Len(y)
<1>1. /\ w \in Seq(AnyUnit) /\ Len(w) = m + n /\ m \in Nat /\ n \in Nat
      /\ \A i \in 1..m + n : w[i] = IF i <= m THEN x[i] ELSE y[i - m]
  BY ConcatProperties DEF WellFormed
<1>2. PICK B : Framed(x, B)
  BY DEF WellFormed
<1>3. PICK C : Framed(y, C)
  BY DEF WellFormed
<1> HIDE DEF w
<1>4. /\ \A i \in 1..m : w[i] = x[i] /\ i \in 1..Len(w)
      /\ \A i \in 1..n : w[m + i] = y[i] /\ m + i \in 1..Len(w)
  <2>1. ASSUME NEW i \in 1..n PROVE w[m + i] = y[i] /\ m + i \in 1..Len(w)
    <3>1. m + i \in 1..m + n /\ ~(m + i <= m) /\ (m + i) - m = i
      BY <1>1
    <3> QED BY <1>1, <3>1
  <2>2. \A i \in 1..m : i \in 1..m + n /\ i <= m
    BY <1>1
  <2> QED BY <1>1, <2>1, <2>2
<1>5. Headed(w)
  <2> SUFFICES ASSUME NEW i \in 1..Len(w), w[i][1] = "type"
               PROVE  i + 1 \in 1..Len(w) /\ w[i + 1][1] = "length"
    BY DEF Headed
  <2>1. CASE i <= m
    <3>1. i \in 1..m
      BY <1>1, <2>1
    <3>2. i + 1 \in 1..m /\ x[i + 1][1] = "length"
      BY <1>4, <3>1 DEF WellFormed, Headed
    <3> QED BY <1>4, <3>2
  <2>2. CASE ~(i <= m)
    <3>1. i - m \in 1..n /\ m + (i - m) = i
      BY <1>1, <2>2
    <3>2. y[i - m][1] = "type"
      BY <1>4, <3>1
    <3>3. (i - m) + 1 \in 1..n /\ y[(i - m) + 1][1] = "length"
      BY <3>1, <3>2 DEF WellFormed, Headed
    <3>4. m + ((i - m) + 1) = i + 1
      BY <1>1
    <3> QED BY <1>4, <3>3, <3>4
  <2> QED BY <2>1, <2>2
<1> DEFINE D == B \cup {m + c : c \in C}
<1>6. ASSUME NEW p \in B PROVE p = m \/ \E kind \in Kinds, k \in Nat :
                                   p + 2 + k \in B /\ FrameAt(w, p, kind, k)
  <2> SUFFICES ASSUME p # m
               PROVE  \E kind \in Kinds, k \in Nat : p + 2 + k \in B /\ FrameAt(w, p, kind, k)
    OBVIOUS
  <2>1. PICK kind \in Kinds, k \in Nat : p + 2 + k \in B /\ FrameAt(x, p, kind, k)
    BY <1>2 DEF Framed
  <2>2. p \in Nat /\ p + 2 + k \in 0..m
    BY <1>1, <1>2, <2>1 DEF Framed
  <2>3. p + 1 \in 1..m /\ p + 2 \in 1..m /\ \A j \in p + 3..p + 2 + k : j \in 1..m
    BY <1>1, <2>2
  <2>4. FrameAt(w, p, kind, k)
    BY <1>1, <1>4, <2>1, <2>2, <2>3 DEF FrameAt
  <2> QED BY <2>1, <2>4
<1>7. ASSUME NEW c \in C PROVE m + c = m + n \/ \E kind \in Kinds, k \in Nat :
                                   (m + c) + 2 + k \in D /\ FrameAt(w, m + c, kind, k)
  <2> SUFFICES ASSUME c # n
               PROVE  \E kind \in Kinds, k \in Nat :
                        (m + c) + 2 + k \in D /\ FrameAt(w, m + c, kind, k)
    OBVIOUS
  <2>1. PICK kind \in Kinds, k \in Nat : c + 2 + k \in C /\ FrameAt(y, c, kind, k)
    BY <1>3 DEF Framed
  <2>2. c \in Nat /\ c + 2 + k \in 0..n
    BY <1>1, <1>3, <2>1 DEF Framed
  <2>3. /\ c + 1 \in 1..n /\ c + 2 \in 1..n
        /\ (m + c) + 1 = m + (c + 1) /\ (m + c) + 2 = m + (c + 2)
        /\ (m + c) + 2 + k = m + (c + 2 + k)
    BY <1>1, <2>2
  <2>4. ASSUME NEW j \in (m + c) + 3..(m + c) + 2 + k PROVE PayloadOf(kind, w[j])
    <3>1. j - m \in c + 3..c + 2 + k /\ j - m \in 1..n /\ m + (j - m) = j
      BY <1>1, <2>2
    <3>2. PayloadOf(kind, y[j - m])
      BY <2>1, <3>1 DEF FrameAt
    <3> QED BY <1>4, <3>1, <3>2
  <2>5. w[(m + c) + 1] = <<"type", kind>> /\ w[(m + c) + 2] = <<"length", k>>
    BY <1>4, <2>1, <2>3 DEF FrameAt
  <2>6. (m + c) + 2 + k \in 0..Len(w)
    BY <1>1, <2>2
  <2>7. FrameAt(w, m + c, kind, k)
    BY <2>4, <2>5, <2>6 DEF FrameAt
  <2>8. (m + c) + 2 + k \in D
    BY <2>1, <2>3
  <2> QED BY <2>7, <2>8
<1>8. D \subseteq 0..Len(w) /\ 0 \in D /\ Len(w) \in D
  <2>1. 0 \in B /\ n \in C /\ B \subseteq 0..m /\ C \subseteq 0..n
    BY <1>2, <1>3 DEF Framed
  <2>2. \A c \in C : m + c \in 0..Len(w)
    BY <1>1, <2>1
  <2>3. B \subseteq 0..Len(w)
    BY <1>1, <2>1
  <2>4. Len(w) \in D
    BY <1>1, <2>1
  <2> QED BY <2>1, <2>2, <2>3, <2>4
<1>9. ASSUME NEW p \in D PROVE p = Len(w) \/ \E kind \in Kinds, k \in Nat :
                                   p + 2 + k \in D /\ FrameAt(w, p, kind, k)
  <2>0. 0 \in C
    BY <1>3 DEF Framed
  <2>1. CASE p \in B /\ p # m
    BY <1>6, <2>1
  <2>2. CASE p \notin B \/ p = m
    <3>1. PICK c \in C : p = m + c
      <4>1. m + 0 = m
        BY <1>1
      <4> QED BY <2>0, <2>2, <4>1
    <3> HIDE DEF D
    <3> QED BY <1>1, <1>7, <3>1
  <2> QED BY <2>1, <2>2
<1>10. Framed(w, D)
  <2> HIDE DEF D
  <2> QED BY <1>8, <1>9 DEF Framed
<1>11. WellFormed(w)
  <2> HIDE DEF D
  <2> QED BY <1>1, <1>5, <1>10 DEF WellFormed
<1> QED BY <1>11 DEF w

(* ... and any number of them.                                             *)
LEMMA ManyWellFormed ==
  ASSUME NEW s, s \in Seq(Seq(AnyUnit)), \A i \in 1..Len(s) : WellFormed(s[i])
  PROVE  WellFormed(FlattenSeq(s))
<1> DEFINE T == {k \in Nat : k <= Len(s) => WellFormed(FrontOf(s, k))}
<1>0. Fronts(AnyUnit, s)
  BY FrontsOf, Zenon
<1>1. 0 \in T
  <2>1. WellFormed(FrontOf(s, 0))
    BY <1>0, NothingWellFormed, Zenon DEF Fronts
  <2> QED BY <2>1
<1>2. ASSUME NEW k \in T PROVE k + 1 \in T
  <2> SUFFICES ASSUME k + 1 <= Len(s) PROVE WellFormed(FrontOf(s, k + 1))
    OBVIOUS
  <2>1. k \in Nat /\ k <= Len(s) /\ k + 1 \in 1..Len(s) /\ (k + 1) - 1 = k
    OBVIOUS
  <2>2. WellFormed(FrontOf(s, k))
    BY <2>1
  <2>3. WellFormed(s[k + 1])
    BY <2>1
  <2>4. FrontOf(s, k + 1) = FrontOf(s, k) \o s[k + 1]
    BY <1>0, <2>1 DEF Fronts
  <2> QED BY <2>2, <2>3, <2>4, TogetherWellFormed, Zenon
<1>3. T \in SUBSET Nat
  OBVIOUS
<1>4. T = Nat
  <2> HIDE DEF T
  <2> QED BY <1>1, <1>2, <1>3, SetInduction
<1>5. WellFormed(FrontOf(s, Len(s)))
  <2>1. Len(s) \in Nat
    OBVIOUS
  <2> QED BY <1>4, <2>1
<1> QED BY <1>0, <1>5, Zenon DEF Fronts

(* Every response is frames, one behind the other.                         *)
LEMMA ResponseWellFormed ==
  ASSUME NEW r \in Responses \cup {LaterResponse}
  PROVE  WellFormed(ResponseUnits(r))
<1> DEFINE lines == [k \in DOMAIN r.fields |-> <<"field", r.fields[k]>>]
           head == FrameUnits("HEADERS", Len(r.fields), lines)
           load0(j) == [k \in 1..r.body[j][2] |-> <<r.body[j][1], <<j, k>>>>]
           frame(j) == FrameUnits(r.body[j][1], r.body[j][2], load0(j))
           frames == [j \in DOMAIN r.body |-> frame(j)]
<1>1. r.fields \in Seq(FieldLines) /\ r.body \in Seq({"DATA", "SKIP"} \X Nat)
  BY ResponsesAssumption
<1>2. WellFormed(head)
  <2>1. Len(r.fields) \in Nat /\ DOMAIN r.fields = 1..Len(r.fields)
    BY <1>1
  <2>2. ASSUME NEW k \in 1..Len(r.fields)
        PROVE  lines[k] \in AnyUnit /\ PayloadOf("HEADERS", lines[k])
    <3>1. lines[k] = <<"field", r.fields[k]>> /\ r.fields[k] \in FieldLines
      BY <1>1, <2>1
    <3>2. lines[k] \in {"field"} \X FieldLines
      BY <3>1
    <3> HIDE DEF lines
    <3>3. lines[k] \in AnyUnit
      BY <3>2, Zenon DEF AnyUnit
    <3> QED BY <3>1, <3>3 DEF PayloadOf
  <2>3. "HEADERS" \in Kinds
    BY DEF Kinds
  <2> HIDE DEF lines
  <2> QED BY <2>1, <2>2, <2>3, FrameWellFormed
<1>3. ASSUME NEW j \in 1..Len(r.body) PROVE WellFormed(frame(j))
  <2>1. j \in Nat /\ r.body[j] \in {"DATA", "SKIP"} \X Nat
    BY <1>1
  <2> DEFINE kind == r.body[j][1]
             n == r.body[j][2]
  <2>2. kind \in {"DATA", "SKIP"} /\ n \in Nat
    BY <2>1
  <2> HIDE DEF kind, n
  <2>3. ASSUME NEW k \in 1..n
        PROVE  <<kind, <<j, k>>>> \in AnyUnit /\ PayloadOf(kind, <<kind, <<j, k>>>>)
    <3>1. <<kind, <<j, k>>>> \in {"DATA", "SKIP"} \X (Nat \X Nat)
      BY <2>1, <2>2, <2>3
    <3>2. <<kind, <<j, k>>>> \in AnyUnit
      BY <3>1, Zenon DEF AnyUnit
    <3>3. <<kind, <<j, k>>>>[1] = kind
      OBVIOUS
    <3>4. kind # "type"
      BY <2>2
    <3> QED BY <3>2, <3>3, <3>4 DEF PayloadOf
  <2> DEFINE p == [k \in 1..n |-> <<kind, <<j, k>>>>]
  <2>4. \A k \in 1..n : p[k] \in AnyUnit /\ PayloadOf(kind, p[k])
    BY <2>3
  <2>5. kind \in Kinds
    BY <2>2 DEF Kinds
  <2>6. WellFormed(FrameUnits(kind, n, p))
    <3> HIDE DEF p
    <3> QED BY <2>2, <2>4, <2>5, FrameWellFormed
  <2> QED BY <2>6 DEF kind, n
<1>4. frames \in Seq(Seq(AnyUnit)) /\ \A i \in 1..Len(frames) : WellFormed(frames[i])
  <2>1. DOMAIN r.body = 1..Len(r.body) /\ Len(r.body) \in Nat
    BY <1>1
  <2>2. \A j \in 1..Len(r.body) : frame(j) \in Seq(AnyUnit)
    BY <1>3 DEF WellFormed
  <2> HIDE DEF frame
  <2> QED BY <1>3, <2>1, <2>2
<1>5. WellFormed(FlattenSeq(frames))
  <2> HIDE DEF frames
  <2> QED BY <1>4, ManyWellFormed
<1>6. ResponseUnits(r) = head \o FlattenSeq(frames)
  BY DEF ResponseUnits
<1> HIDE DEF head, frames
<1> QED BY <1>2, <1>5, <1>6, TogetherWellFormed, Zenon

(* One sequence behind another, with the lengths given.                    *)
Behind(S, x, y, m, n) ==
  /\ x \o y \in Seq(S) /\ Len(x \o y) = m + n
  /\ \A i \in 1..m + n : (x \o y)[i] = IF i <= m THEN x[i] ELSE y[i - m]

LEMMA JoinedElements ==
  ASSUME NEW S, NEW x, NEW y, NEW m, NEW n
  PROVE  x \in Seq(S) /\ y \in Seq(S) /\ Len(x) = m /\ Len(y) = n => Behind(S, x, y, m, n)
<1> SUFFICES ASSUME x \in Seq(S), y \in Seq(S), Len(x) = m, Len(y) = n PROVE Behind(S, x, y, m, n)
  OBVIOUS
<1>1. /\ x \o y \in Seq(S) /\ Len(x \o y) = Len(x) + Len(y)
      /\ \A i \in 1..Len(x) + Len(y) : (x \o y)[i] = IF i <= Len(x) THEN x[i] ELSE y[i - Len(x)]
  BY ConcatProperties
<1> DEFINE w == x \o y
<1> HIDE DEF w
<1>2. /\ w \in Seq(S) /\ Len(w) = m + n
      /\ \A i \in 1..m + n : w[i] = IF i <= m THEN x[i] ELSE y[i - m]
  BY <1>1 DEF w
<1> QED BY <1>2 DEF w, Behind

(* The body, as far as the first p units have it.                          *)
InBody(unit) == IF unit[1] = "DATA" THEN <<unit>> ELSE <<>>
BodyUpTo(u, p) == FrontOf([k \in DOMAIN u |-> InBody(u[k])], p)

BodyFronts(u) ==
  /\ BodyUpTo(u, 0) = <<>>
  /\ \A p \in 0..Len(u) : BodyUpTo(u, p) \in Seq(AnyUnit) /\ IsPrefix(BodyUpTo(u, p), Body(u))
  /\ \A p \in 1..Len(u) : BodyUpTo(u, p) = BodyUpTo(u, p - 1) \o InBody(u[p])
  /\ BodyUpTo(u, Len(u)) = Body(u)

(* The body builds up unit by unit.                                        *)
LEMMA FrontsOfBody ==
  ASSUME NEW u, u \in Seq(AnyUnit)
  PROVE  BodyFronts(u)
<1> DEFINE s == [k \in DOMAIN u |-> InBody(u[k])]
<1>1. s \in Seq(Seq(AnyUnit)) /\ Len(s) = Len(u) /\ \A k \in 1..Len(u) : s[k] = InBody(u[k])
  <2>1. ASSUME NEW k \in 1..Len(u) PROVE InBody(u[k]) \in Seq(AnyUnit)
    <3>1. u[k] \in AnyUnit
      OBVIOUS
    <3>2. <<u[k]>> \in Seq(AnyUnit) /\ <<>> \in Seq(AnyUnit)
      BY <3>1
    <3> QED BY <3>2, Zenon DEF InBody
  <2>2. DOMAIN u = 1..Len(u) /\ Len(u) \in Nat
    OBVIOUS
  <2> QED BY <2>1, <2>2
<1>2. \A p : BodyUpTo(u, p) = FrontOf(s, p)
  BY DEF BodyUpTo
<1>3. Body(u) = FlattenSeq(s)
  BY DEF Body, InBody
<1> HIDE DEF s
<1>4. Fronts(AnyUnit, s)
  BY <1>1, FrontsOf, Zenon
<1>5. ASSUME NEW p \in 0..Len(u)
      PROVE  BodyUpTo(u, p) \in Seq(AnyUnit) /\ IsPrefix(BodyUpTo(u, p), Body(u))
  <2> DEFINE f == FrontOf(s, p)
             b == FlattenSeq(s)
  <2>1. Len(s) \in 0..Len(s) /\ p \in 0..Len(s)
    BY <1>1
  <2>2. f \in Seq(AnyUnit) /\ b \in Seq(AnyUnit) /\ FrontOf(s, Len(s)) = b
    BY <1>4, <2>1 DEF Fronts
  <2>3. IsFront(s, p, Len(s))
    BY <1>1, <2>1, FrontsGrow, Zenon
  <2> HIDE DEF f, b
  <2>4. Len(f) \in 0..Len(b) /\ Slice(b, 0, Len(f)) = f
    BY <2>2, <2>3 DEF IsFront, f
  <2>5. IsPrefix(f, b)
    BY <2>2, <2>4 DEF Slice, IsPrefix
  <2> QED BY <1>2, <1>3, <2>2, <2>5 DEF f, b
<1>6. \A p \in 1..Len(u) : BodyUpTo(u, p) = BodyUpTo(u, p - 1) \o InBody(u[p])
  BY <1>1, <1>2, <1>4 DEF Fronts
<1>7. BodyUpTo(u, 0) = <<>> /\ BodyUpTo(u, Len(u)) = Body(u)
  BY <1>1, <1>2, <1>3, <1>4 DEF Fronts
<1> QED BY <1>5, <1>6, <1>7, Zenon DEF BodyFronts

(* The payload of a DATA frame goes into the body, ...                     *)
LEMMA BodyTakesData ==
  ASSUME NEW u, NEW p, NEW q
  PROVE  /\ u \in Seq(AnyUnit) /\ q \in 0..Len(u) /\ p \in 0..q
         /\ \A j \in p + 1..q : u[j][1] = "DATA"
         => BodyUpTo(u, q) = BodyUpTo(u, p) \o Slice(u, p, q)
<1> SUFFICES ASSUME u \in Seq(AnyUnit), q \in 0..Len(u), p \in 0..q,
                    \A j \in p + 1..q : u[j][1] = "DATA"
             PROVE  BodyUpTo(u, q) = BodyUpTo(u, p) \o Slice(u, p, q)
  OBVIOUS
<1> DEFINE Grown(m) == BodyUpTo(u, m) = BodyUpTo(u, p) \o Slice(u, p, m)
           T == {d \in Nat : p + d <= q => Grown(p + d)}
<1>0. BodyFronts(u)
  BY FrontsOfBody
<1>1. 0 \in T
  <2>1. p + 0 = p /\ p \in 0..Len(u)
    OBVIOUS
  <2>2. Slice(u, p, p) = <<>>
    BY <2>1, EmptyPart, Zenon
  <2>3. BodyUpTo(u, p) \in Seq(AnyUnit)
    BY <1>0, <2>1 DEF BodyFronts
  <2>4. BodyUpTo(u, p) \o <<>> = BodyUpTo(u, p)
    BY <2>3
  <2>5. Grown(p)
    BY <2>2, <2>4
  <2> HIDE DEF Grown
  <2> QED BY <2>1, <2>5
<1>2. ASSUME NEW d \in T PROVE d + 1 \in T
  <2> SUFFICES ASSUME p + (d + 1) <= q PROVE Grown(p + (d + 1))
    <3> HIDE DEF Grown
    <3> QED OBVIOUS
  <2> DEFINE m == p + d
  <2>1. /\ m + 1 = p + (d + 1) /\ m + 1 \in 1..Len(u) /\ (m + 1) - 1 = m /\ m \in p..q
        /\ m \in 0..m + 1 /\ p \in 0..m /\ m + 1 \in 0..Len(u) /\ m + 1 \in p + 1..q
        /\ m \in 0..Len(u) /\ (m + 1) - m = 1
    <3>1. m \in Nat /\ m + 1 = p + (d + 1) /\ m + 1 <= q /\ q <= Len(u) /\ p <= m
          /\ Len(u) \in Nat /\ q \in Nat /\ p \in Nat
      OBVIOUS
    <3> HIDE DEF m
    <3> QED BY <3>1
  <2>2. Grown(m)
    <3> HIDE DEF Grown
    <3> QED BY <2>1
  <2> HIDE DEF m
  <2>3. BodyUpTo(u, m + 1) = BodyUpTo(u, m) \o <<u[m + 1]>>
    BY <1>0, <2>1 DEF BodyFronts, InBody
  <2> DEFINE x == BodyUpTo(u, p)
             y == Slice(u, p, m)
             z == Slice(u, m, m + 1)
  <2>4. z = <<u[m + 1]>>
    <3>1. IsSlice(AnyUnit, u, m, m + 1, z)
      BY <2>1, SliceIs, Zenon
    <3> HIDE DEF z
    <3>2. z \in Seq(AnyUnit) /\ Len(z) = (m + 1) - m
          /\ \A i \in 1..(m + 1) - m : z[i] = u[m + i]
      BY <3>1, Zenon DEF IsSlice
    <3> DEFINE one == (m + 1) - m
    <3>3. one = 1
      BY <2>1
    <3> HIDE DEF one
    <3>4. z \in Seq(AnyUnit) /\ Len(z) = one /\ \A i \in 1..one : z[i] = u[m + i]
      BY <3>2 DEF one
    <3>5. z \in Seq(AnyUnit) /\ Len(z) = 1 /\ z[1] = u[m + 1]
      BY <3>3, <3>4
    <3> QED BY <3>5
  <2>5. y \in Seq(AnyUnit) /\ z \in Seq(AnyUnit) /\ x \in Seq(AnyUnit)
    <3>1. IsSlice(AnyUnit, u, m, m + 1, z) /\ IsSlice(AnyUnit, u, p, m, y)
      BY <2>1, SliceIs, Zenon
    <3>2. p \in 0..Len(u)
      OBVIOUS
    <3>3. x \in Seq(AnyUnit)
      BY <1>0, <3>2 DEF BodyFronts
    <3> HIDE DEF x, y, z
    <3> QED BY <3>1, <3>3 DEF IsSlice
  <2>6. Joins(u, p, m, m + 1)
    BY <2>1, JoinedParts, Zenon
  <2>7. y \o z = Slice(u, p, m + 1)
    BY <2>6, Zenon DEF Joins
  <2> HIDE DEF x, y, z
  <2>8. (x \o y) \o z = x \o (y \o z)
    <3>1. Reassociates(x, y, z)
      BY <2>5, Reassociated, Zenon
    <3> QED BY <3>1 DEF Reassociates
  <2> QED BY <2>1, <2>2, <2>3, <2>4, <2>7, <2>8 DEF x, y, z
<1>3. T \in SUBSET Nat
  OBVIOUS
<1>4. T = Nat
  <2> HIDE DEF T
  <2> QED BY <1>1, <1>2, <1>3, SetInduction
<1>5. q - p \in Nat /\ p + (q - p) = q
  OBVIOUS
<1>6. q - p \in T
  BY <1>4, <1>5
<1> HIDE DEF Grown
<1>7. Grown(q)
  BY <1>5, <1>6
<1> QED BY <1>7 DEF Grown

(* ... and nothing else does.                                              *)
LEMMA BodyPassesOver ==
  ASSUME NEW u, NEW p, NEW q
  PROVE  /\ u \in Seq(AnyUnit) /\ q \in 0..Len(u) /\ p \in 0..q
         /\ \A j \in p + 1..q : u[j][1] # "DATA"
         => BodyUpTo(u, q) = BodyUpTo(u, p)
<1> SUFFICES ASSUME u \in Seq(AnyUnit), q \in 0..Len(u), p \in 0..q,
                    \A j \in p + 1..q : u[j][1] # "DATA"
             PROVE  BodyUpTo(u, q) = BodyUpTo(u, p)
  OBVIOUS
<1> DEFINE T == {d \in Nat : p + d <= q => BodyUpTo(u, p + d) = BodyUpTo(u, p)}
<1>0. BodyFronts(u)
  BY FrontsOfBody
<1>1. 0 \in T
  <2>1. p + 0 = p
    OBVIOUS
  <2> QED BY <2>1
<1>2. ASSUME NEW d \in T PROVE d + 1 \in T
  <2> SUFFICES ASSUME p + (d + 1) <= q PROVE BodyUpTo(u, p + (d + 1)) = BodyUpTo(u, p)
    OBVIOUS
  <2> DEFINE m == p + d
  <2>1. /\ m + 1 = p + (d + 1) /\ m + 1 \in 1..Len(u) /\ (m + 1) - 1 = m /\ m \in 0..Len(u)
        /\ m + 1 \in p + 1..q /\ d \in Nat /\ p + d <= q
    OBVIOUS
  <2>2. BodyUpTo(u, m) = BodyUpTo(u, p)
    BY <2>1
  <2> HIDE DEF m
  <2>3. BodyUpTo(u, m + 1) = BodyUpTo(u, m) \o <<>>
    BY <1>0, <2>1 DEF BodyFronts, InBody
  <2>4. BodyUpTo(u, m) \in Seq(AnyUnit)
    BY <1>0, <2>1 DEF BodyFronts
  <2>5. BodyUpTo(u, m) \o <<>> = BodyUpTo(u, m)
    BY <2>4
  <2> QED BY <2>1, <2>2, <2>3, <2>5
<1>3. T \in SUBSET Nat
  OBVIOUS
<1>4. T = Nat
  <2> HIDE DEF T
  <2> QED BY <1>1, <1>2, <1>3, SetInduction
<1>5. q - p \in Nat /\ p + (q - p) = q
  OBVIOUS
<1>6. q - p \in T
  BY <1>4, <1>5
<1> QED BY <1>5, <1>6

(* The encoder stream.                                                     *)
PairAt(u, k, i) == u[2 * k] = <<"first", i>> /\ u[2 * k + 1] = <<"second", i>>

EncoderLaidOut ==
  /\ Len(Instructions) \in Nat
  /\ EncoderUnits \in Seq(AnyUnit)
  /\ Len(EncoderUnits) = 1 + 2 * Len(Instructions)
  /\ EncoderUnits[1] = <<"stream type", "encoder">>
  /\ \A k \in 1..Len(Instructions) :
       PairAt(EncoderUnits, k, Instructions[k]) /\ Instructions[k] \in ToSet(Instructions)

LEMMA EncoderStreamIs == EncoderLaidOut
<1> DEFINE n == Len(Instructions)
           s == [k \in DOMAIN Instructions |-> Instruction(Instructions[k])]
           Pairs(t, k) ==
             /\ Len(t) = 2 * k
             /\ \A j \in 1..k : /\ t[2 * j - 1] = <<"first", Instructions[j]>>
                                /\ t[2 * j] = <<"second", Instructions[j]>>
           T == {k \in Nat : k <= n => Pairs(FrontOf(s, k), k)}
<1>1. /\ Instructions \in Seq(ToSet(Instructions)) /\ n \in Nat /\ DOMAIN Instructions = 1..n
      /\ \A k \in 1..n : Instructions[k] \in ToSet(Instructions)
  <2>1. Instructions \in Seq(ToSet(Instructions))
    BY InstructionsAssumption
  <2> DEFINE S == ToSet(Instructions)
  <2> HIDE DEF S
  <2>2. Instructions \in Seq(S)
    BY <2>1 DEF S
  <2>3. n \in Nat /\ DOMAIN Instructions = 1..n /\ \A k \in 1..n : Instructions[k] \in S
    BY <2>2
  <2> QED BY <2>1, <2>3 DEF S
<1>2. ASSUME NEW k \in 1..n
      PROVE  /\ s[k] = <<<<"first", Instructions[k]>>, <<"second", Instructions[k]>>>>
             /\ s[k] \in Seq(AnyUnit)
  <2>1. s[k] = <<<<"first", Instructions[k]>>, <<"second", Instructions[k]>>>>
    BY <1>1 DEF Instruction
  <2>2. /\ <<"first", Instructions[k]>> \in {"first", "second"} \X ToSet(Instructions)
        /\ <<"second", Instructions[k]>> \in {"first", "second"} \X ToSet(Instructions)
    BY <1>1
  <2>3. <<"first", Instructions[k]>> \in AnyUnit /\ <<"second", Instructions[k]>> \in AnyUnit
    BY <2>2, Zenon DEF AnyUnit
  <2> HIDE DEF s
  <2> QED BY <2>1, <2>3
<1>3. s \in Seq(Seq(AnyUnit)) /\ Len(s) = n
  BY <1>1, <1>2
<1>4. EncoderUnits = <<<<"stream type", "encoder">>>> \o FlattenSeq(s)
  BY DEF EncoderUnits
<1> HIDE DEF s
<1>5. Fronts(AnyUnit, s)
  BY <1>3, FrontsOf, Zenon
<1>6. 0 \in T
  <2>1. FrontOf(s, 0) = <<>>
    BY <1>5 DEF Fronts
  <2> QED BY <2>1
<1>7. ASSUME NEW k \in T PROVE k + 1 \in T
  <2> DEFINE g == FrontOf(s, k)
             h == FrontOf(s, k + 1)
  <2> SUFFICES ASSUME k + 1 <= n PROVE Pairs(h, k + 1)
    <3> HIDE DEF Pairs
    <3> QED OBVIOUS
  <2>1. k \in Nat /\ k <= n /\ k + 1 \in 1..n /\ (k + 1) - 1 = k /\ k \in 0..n
    BY <1>1
  <2>2. /\ Len(g) = 2 * k
        /\ \A j \in 1..k : /\ g[2 * j - 1] = <<"first", Instructions[j]>>
                           /\ g[2 * j] = <<"second", Instructions[j]>>
    <3>1. Pairs(g, k)
      <4> HIDE DEF Pairs
      <4> QED BY <2>1
    <3> QED BY <3>1
  <2> DEFINE i == Instructions[k + 1]
             t == <<<<"first", i>>, <<"second", i>>>>
  <2>3. h = g \o t /\ g \in Seq(AnyUnit) /\ t \in Seq(AnyUnit)
    <3>1. s[k + 1] = t /\ s[k + 1] \in Seq(AnyUnit)
      BY <1>2, <2>1
    <3>2. FrontOf(s, k + 1) = FrontOf(s, (k + 1) - 1) \o s[k + 1] /\ FrontOf(s, k) \in Seq(AnyUnit)
      BY <1>3, <1>5, <2>1 DEF Fronts
    <3> HIDE DEF t
    <3> QED BY <2>1, <3>1, <3>2
  <2>4. Len(t) = 2 /\ t[1] = <<"first", i>> /\ t[2] = <<"second", i>>
    OBVIOUS
  <2> HIDE DEF g, h, t
  <2>5. /\ Len(h) = 2 * k + 2
        /\ \A m \in 1..2 * k + 2 : h[m] = IF m <= 2 * k THEN g[m] ELSE t[m - 2 * k]
    <3>1. Behind(AnyUnit, g, t, 2 * k, 2)
      BY <2>2, <2>3, <2>4, JoinedElements, Zenon
    <3> QED BY <2>3, <3>1 DEF Behind
  <2>6. ASSUME NEW j \in 1..k + 1
        PROVE  h[2 * j - 1] = <<"first", Instructions[j]>> /\ h[2 * j] = <<"second", Instructions[j]>>
    <3>1. CASE j <= k
      <4>1. /\ 2 * j - 1 \in 1..2 * k + 2 /\ 2 * j \in 1..2 * k + 2
            /\ 2 * j - 1 <= 2 * k /\ 2 * j <= 2 * k /\ j \in 1..k
        BY <2>1, <3>1
      <4> QED BY <2>2, <2>5, <4>1
    <3>2. CASE j = k + 1
      <4>1. /\ 2 * j - 1 \in 1..2 * k + 2 /\ 2 * j \in 1..2 * k + 2
            /\ ~(2 * j - 1 <= 2 * k) /\ ~(2 * j <= 2 * k)
            /\ (2 * j - 1) - 2 * k = 1 /\ 2 * j - 2 * k = 2
        BY <2>1, <3>2
      <4> QED BY <2>4, <2>5, <3>2, <4>1
    <3> QED BY <2>1, <3>1, <3>2
  <2>7. Len(h) = 2 * (k + 1)
    BY <2>1, <2>5
  <2> QED BY <2>6, <2>7
<1>8. T \in SUBSET Nat
  OBVIOUS
<1>9. T = Nat
  <2> HIDE DEF T
  <2> QED BY <1>6, <1>7, <1>8, SetInduction
<1> DEFINE f == FlattenSeq(s)
           a == <<<<"stream type", "encoder">>>>
<1>10. /\ Len(f) = 2 * n /\ f \in Seq(AnyUnit)
       /\ \A j \in 1..n : /\ f[2 * j - 1] = <<"first", Instructions[j]>>
                          /\ f[2 * j] = <<"second", Instructions[j]>>
  <2>1. FrontOf(s, n) = f /\ f \in Seq(AnyUnit)
    <3>1. Len(s) \in 0..Len(s)
      BY <1>1, <1>3
    <3> QED BY <1>3, <1>5, <3>1 DEF Fronts
  <2>2. n \in T
    BY <1>1, <1>9
  <2>3. Pairs(f, n)
    <3> HIDE DEF f, Pairs
    <3> QED BY <1>1, <2>1, <2>2
  <2> HIDE DEF f
  <2> QED BY <2>1, <2>3
<1>11. a \in Seq(AnyUnit) /\ Len(a) = 1 /\ a[1] = <<"stream type", "encoder">>
  <2>1. <<"stream type", "encoder">> \in {"stream type"} \X {"encoder"}
    OBVIOUS
  <2>2. <<"stream type", "encoder">> \in AnyUnit
    BY <2>1, Zenon DEF AnyUnit
  <2> DEFINE e == <<"stream type", "encoder">>
  <2> HIDE DEF e
  <2>3. e \in AnyUnit
    BY <2>2 DEF e
  <2>4. <<e>> \in Seq(AnyUnit) /\ Len(<<e>>) = 1 /\ <<e>>[1] = e
    BY <2>3
  <2> QED BY <2>4 DEF e
<1> HIDE DEF f, a, T
<1>12. /\ a \o f \in Seq(AnyUnit) /\ Len(a \o f) = 1 + 2 * n
       /\ \A m \in 1..1 + 2 * n : (a \o f)[m] = IF m <= 1 THEN a[m] ELSE f[m - 1]
  <2>1. Behind(AnyUnit, a, f, 1, 2 * n)
    BY <1>10, <1>11, JoinedElements, Zenon
  <2> QED BY <2>1 DEF Behind
<1> DEFINE w == a \o f
<1>13. w = EncoderUnits
  BY <1>4 DEF a, f
<1> HIDE DEF w
<1>14. ASSUME NEW k \in 1..n PROVE PairAt(w, k, Instructions[k])
  <2>1. /\ 2 * k \in 1..1 + 2 * n /\ 2 * k + 1 \in 1..1 + 2 * n
        /\ ~(2 * k <= 1) /\ ~(2 * k + 1 <= 1) /\ (2 * k + 1) - 1 = 2 * k
    BY <1>1
  <2> QED BY <1>10, <1>12, <2>1 DEF PairAt, w
<1>15. w[1] = <<"stream type", "encoder">>
  <2>1. 1 \in 1..1 + 2 * n
    BY <1>1
  <2>2. w[1] = a[1]
    BY <1>12, <2>1 DEF w
  <2> QED BY <1>11, <2>2
<1>16. w \in Seq(AnyUnit) /\ Len(w) = 1 + 2 * n
  BY <1>12 DEF w
<1> QED BY <1>1, <1>13, <1>14, <1>15, <1>16 DEF EncoderLaidOut

-----------------------------------------------------------------------------
(* The loop over HTTP/3 frames.                                            *)

Additions == ToSet(Instructions) \cup Lookalikes
Entry ==
  {NoEntry} \cup (({NoEntry[1]} \cup {i.name : i \in Additions}) \X {i.value : i \in Additions})

(* What field lines are decoded to.                                        *)
DecodedBy(t) == {DecodeField(t, line) : line \in FieldLines}

(* What a slot of the stream table may hold.                               *)
StreamRecords ==
  {s \in [stream_id : Nat, state : {"header"} \cup Kinds, rem : Nat, hdr : Seq(AnyUnit),
          rx : Seq(AnyUnit), fin : BOOLEAN, type : {"unread", "encoder", "other"},
          rx_data : Nat, max_rx_data : Nat, parsed : Nat] :
     Len(s.rx) < RxSize /\ Len(s.hdr) < HdrSize}

(* A part of a stream, where a length follows every type that is not last. *)
Readable(units) ==
  /\ units \in Seq(AnyUnit)
  /\ \A i \in 1..Len(units) : units[i][1] = "type" /\ i + 1 <= Len(units) =>
                                units[i + 1][1] = "length"

LEMMA PartsReadable ==
  ASSUME NEW u, NEW b, NEW e
  PROVE  /\ u \in Seq(AnyUnit) /\ Headed(u) /\ e \in 0..Len(u) /\ b \in 0..e
         => Readable(Slice(u, b, e))
<1> SUFFICES ASSUME u \in Seq(AnyUnit), Headed(u), e \in 0..Len(u), b \in 0..e
             PROVE  Readable(Slice(u, b, e))
  OBVIOUS
<1> DEFINE t == Slice(u, b, e)
<1>1. IsSlice(AnyUnit, u, b, e, t)
  BY SliceIs, Zenon
<1> HIDE DEF t
<1>2. t \in Seq(AnyUnit) /\ Len(t) = e - b /\ \A i \in 1..e - b : t[i] = u[b + i] /\ b + i \in 1..Len(u)
  BY <1>1 DEF IsSlice
<1>3. ASSUME NEW i \in 1..Len(t), t[i][1] = "type", i + 1 <= Len(t) PROVE t[i + 1][1] = "length"
  <2>1. i \in 1..e - b /\ i + 1 \in 1..e - b /\ b + (i + 1) = (b + i) + 1
    BY <1>2, <1>3
  <2>2. u[b + i][1] = "type" /\ b + i \in 1..Len(u)
    BY <1>2, <1>3, <2>1
  <2>3. u[(b + i) + 1][1] = "length"
    BY <2>2 DEF Headed
  <2> QED BY <1>2, <2>1, <2>3
<1>4. Readable(t)
  BY <1>2, <1>3 DEF Readable
<1> QED BY <1>4 DEF t

(* What the units of each kind carry.                                      *)
LEMMA UnitParts ==
  ASSUME NEW x, x \in AnyUnit
  PROVE  /\ x[1] = "type" => x[2] \in Kinds
         /\ x[1] = "length" => x[2] \in Nat
         /\ x[1] = "field" => x[2] \in FieldLines
         /\ x[1] \in {"first", "second"} => x[2] \in ToSet(Instructions)
         /\ x[1] = "stream type" => x[2] = "encoder"
         /\ x[1] \in {"type", "length", "field", "DATA", "SKIP", "stream type", "first", "second"}
<1>1. CASE x \in {"type"} \X Kinds
  BY <1>1
<1>2. CASE x \in {"length"} \X Nat
  BY <1>2
<1>3. CASE x \in {"field"} \X FieldLines
  <2> DEFINE F == FieldLines
  <2> HIDE DEF F
  <2>1. x \in {"field"} \X F
    BY <1>3 DEF F
  <2>2. x[1] = "field" /\ x[2] \in F
    BY <2>1
  <2> QED BY <2>2 DEF F
<1>4. CASE x \in {"DATA", "SKIP"} \X (Nat \X Nat)
  BY <1>4
<1>5. CASE x \in {"stream type"} \X {"encoder"}
  BY <1>5
<1>6. CASE x \in {"first", "second"} \X ToSet(Instructions)
  <2> DEFINE F == ToSet(Instructions)
  <2> HIDE DEF F
  <2>1. x \in {"first", "second"} \X F
    BY <1>6 DEF F
  <2>2. x[1] \in {"first", "second"} /\ x[2] \in F
    BY <2>1
  <2> QED BY <2>2 DEF F
<1> QED BY <1>1, <1>2, <1>3, <1>4, <1>5, <1>6, Zenon DEF AnyUnit

(* What the loop over the data of a frame may have come to.                *)
Parses(s0, t, n) ==
  {a \in [s : StreamRecords, so : 0..n, fields : SUBSET DecodedBy(t)] :
     a.s.stream_id = s0.stream_id /\ a.s.fin = s0.fin /\ a.s.parsed = s0.parsed}

(* A header read, or what stands in its place.                             *)
LEMMA BeginTyped ==
  ASSUME NEW s0, NEW t, NEW units, Readable(units), NEW n, n = Len(units), NEW a \in Parses(s0, t, n), a.so # n
  PROVE  Begin(a, units) \subseteq Parses(s0, t, n)
<1>1. n \in Nat /\ a.so \in 0..n /\ a.s \in StreamRecords /\ a.fields \in SUBSET DecodedBy(t)
      /\ a.s.stream_id = s0.stream_id /\ a.s.fin = s0.fin /\ a.s.parsed = s0.parsed
  BY DEF Parses, Readable
<1>2. a = [s |-> a.s, so |-> a.so, fields |-> a.fields]
  BY DEF Parses
<1>3. a.s = [stream_id |-> a.s.stream_id, state |-> a.s.state, rem |-> a.s.rem, hdr |-> a.s.hdr,
             rx |-> a.s.rx, fin |-> a.s.fin, type |-> a.s.type, rx_data |-> a.s.rx_data,
             max_rx_data |-> a.s.max_rx_data, parsed |-> a.s.parsed]
  BY <1>1 DEF StreamRecords
<1> SUFFICES ASSUME NEW b \in Begin(a, units) PROVE b \in Parses(s0, t, n)
  OBVIOUS
<1>4. CASE n - a.so < 2
  <2>1. b = [a EXCEPT !.so = n]
    BY <1>4 DEF Begin
  <2>2. b = [s |-> a.s, so |-> n, fields |-> a.fields]
    BY <1>2, <2>1
  <2> QED BY <1>1, <2>2 DEF Parses
<1>5. CASE ~(n - a.so < 2)
  <2>1. PICK h \in Headers(units, a.so + 1) :
          b = [a EXCEPT !.so = @ + 2, !.s.state = h[1], !.s.rem = h[2],
                        !.s.hdr = IF h[1] = "HEADERS" THEN <<>> ELSE @]
    BY <1>5 DEF Begin
  <2>2. a.so + 1 \in 1..n /\ (a.so + 1) + 1 \in 1..n /\ a.so + 2 \in 0..n
    BY <1>1, <1>5
  <2>3. h[1] \in Kinds /\ h[2] \in Nat
    <3> DEFINE k == a.so + 1
    <3> HIDE DEF k
    <3>1. k \in 1..n /\ k + 1 \in 1..n /\ units[k] \in AnyUnit /\ units[k + 1] \in AnyUnit
      BY <2>2 DEF k, Readable
    <3>2. CASE units[k][1] = "type"
      <4>1. h = <<units[k][2], units[k + 1][2]>>
        BY <2>1, <3>2 DEF Headers, k
      <4>2. units[k][2] \in Kinds
        BY <3>1, <3>2, UnitParts
      <4>3. k \in 1..Len(units) /\ k + 1 <= Len(units)
        BY <3>1, <1>1
      <4>4. units[k + 1][1] = "length"
        BY <3>2, <4>3 DEF Readable
      <4>5. units[k + 1][2] \in Nat
        BY <3>1, <4>4, UnitParts
      <4> QED BY <4>1, <4>2, <4>5
    <3>3. CASE units[k][1] # "type"
      <4>1. h \in Misreadings
        BY <2>1, <3>3 DEF Headers, k
      <4> QED BY <4>1, MisreadingsAssumption DEF Kinds
    <3> QED BY <3>2, <3>3
  <2> DEFINE hdr == IF h[1] = "HEADERS" THEN <<>> ELSE a.s.hdr
             s == [stream_id |-> a.s.stream_id, state |-> h[1], rem |-> h[2], hdr |-> hdr,
                   rx |-> a.s.rx, fin |-> a.s.fin, type |-> a.s.type, rx_data |-> a.s.rx_data,
                   max_rx_data |-> a.s.max_rx_data, parsed |-> a.s.parsed]
  <2>4. b = [s |-> s, so |-> a.so + 2, fields |-> a.fields]
    <3>1. b.s = [a.s EXCEPT !.state = h[1], !.rem = h[2], !.hdr = hdr]
      BY <1>2, <2>1
    <3>2. b.s = s
      BY <1>3, <3>1
    <3>3. b = [s |-> b.s, so |-> a.so + 2, fields |-> a.fields]
      BY <1>2, <2>1
    <3> QED BY <3>2, <3>3
  <2>5. s \in StreamRecords
    <3>1. hdr \in Seq(AnyUnit) /\ Len(hdr) < HdrSize
      BY <1>1, SizesAssumption DEF StreamRecords
    <3> HIDE DEF hdr
    <3> QED BY <1>1, <2>3, <3>1 DEF StreamRecords
  <2> QED BY <1>1, <2>2, <2>4, <2>5 DEF Parses
<1> QED BY <1>4, <1>5

(* The field lines in a block, decoded.                                    *)
LEMMA FieldsDecode ==
  ASSUME NEW t, NEW hdr \in Seq(AnyUnit)
  PROVE  FieldsOf(hdr, t) \subseteq DecodedBy(t)
<1> SUFFICES ASSUME NEW v \in ToSet(hdr), v[1] = "field" PROVE v[2] \in FieldLines
  BY DEF FieldsOf, DecodedBy
<1>1. v \in AnyUnit
  BY DEF ToSet
<1> QED BY <1>1, UnitParts

LEMMA LeastOfTwo ==
  ASSUME NEW x \in Int, NEW y \in Int
  PROVE  Min({x, y}) = IF x <= y THEN x ELSE y
<1> DEFINE m == IF x <= y THEN x ELSE y
<1>1. m \in {x, y} /\ \A z \in {x, y} : m <= z
  OBVIOUS
<1>2. ASSUME NEW k \in {x, y}, \A z \in {x, y} : k <= z PROVE k = m
  BY <1>2
<1> HIDE DEF m
<1>3. Min({x, y}) = m
  BY <1>1, <1>2 DEF Min
<1> QED BY <1>3 DEF m

(* The chunk of payload that a round takes.                                *)
Chunk(a, n) == IF a.s.rem <= n - a.so THEN a.s.rem ELSE n - a.so

(* What Carry makes of a, field by field.                                  *)
Carried(a, units, t, n, b) ==
  LET chunk == Chunk(a, n)
      data == Slice(units, a.so, a.so + chunk)
      last == chunk = a.s.rem
      hdr == IF Len(a.s.hdr) + chunk < HdrSize THEN a.s.hdr \o data ELSE a.s.hdr
      rx == IF Len(a.s.rx) + chunk < RxSize THEN a.s.rx \o data ELSE a.s.rx
  IN /\ b = [s |-> b.s, so |-> a.so + chunk, fields |-> b.fields]
     /\ b.s = [stream_id |-> a.s.stream_id, state |-> IF last THEN "header" ELSE a.s.state,
               rem |-> a.s.rem - chunk, hdr |-> b.s.hdr, rx |-> b.s.rx, fin |-> a.s.fin,
               type |-> a.s.type, rx_data |-> a.s.rx_data,
               max_rx_data |-> a.s.max_rx_data, parsed |-> a.s.parsed]
     /\ b.s.hdr = IF a.s.state = "HEADERS" THEN hdr ELSE a.s.hdr
     /\ b.s.rx = IF a.s.state = "DATA" THEN rx ELSE a.s.rx
     /\ b.fields = IF a.s.state = "HEADERS" /\ last THEN a.fields \cup FieldsOf(hdr, t)
                   ELSE a.fields

LEMMA CarryIs ==
  ASSUME NEW s0, NEW units, NEW t, NEW n, n = Len(units), n \in Nat,
         NEW a \in Parses(s0, t, n), a.s.state # "header"
  PROVE  Carried(a, units, t, n, Carry(a, units, t))
<1>1. a.so \in 0..n /\ a.s \in StreamRecords /\ a.s.rem \in Nat /\ a.s.state \in Kinds
  BY DEF Parses, StreamRecords
<1>2. a = [s |-> a.s, so |-> a.so, fields |-> a.fields]
  BY DEF Parses
<1>3. a.s = [stream_id |-> a.s.stream_id, state |-> a.s.state, rem |-> a.s.rem, hdr |-> a.s.hdr,
             rx |-> a.s.rx, fin |-> a.s.fin, type |-> a.s.type, rx_data |-> a.s.rx_data,
             max_rx_data |-> a.s.max_rx_data, parsed |-> a.s.parsed]
  BY <1>1 DEF StreamRecords
<1> DEFINE chunk == Chunk(a, n)
           data == Slice(units, a.so, a.so + chunk)
           last == chunk = a.s.rem
           hdr == IF Len(a.s.hdr) + chunk < HdrSize THEN a.s.hdr \o data ELSE a.s.hdr
           rx == IF Len(a.s.rx) + chunk < RxSize THEN a.s.rx \o data ELSE a.s.rx
           past == [a EXCEPT !.so = @ + chunk, !.s.rem = @ - chunk,
                             !.s.state = IF last THEN "header" ELSE @]
           state == IF last THEN "header" ELSE a.s.state
           s == [stream_id |-> a.s.stream_id, state |-> state, rem |-> a.s.rem - chunk,
                 hdr |-> a.s.hdr, rx |-> a.s.rx, fin |-> a.s.fin, type |-> a.s.type,
                 rx_data |-> a.s.rx_data, max_rx_data |-> a.s.max_rx_data,
                 parsed |-> a.s.parsed]
           b == Carry(a, units, t)
<1>4. Min({a.s.rem, n - a.so}) = chunk
  <2>1. n - a.so \in Int /\ a.s.rem \in Int
    BY <1>1
  <2> QED BY <2>1, LeastOfTwo DEF Chunk
<1>5. b = CASE a.s.state = "HEADERS" ->
                 [past EXCEPT !.s.hdr = hdr,
                              !.fields = IF last THEN @ \cup FieldsOf(hdr, t) ELSE @]
            [] a.s.state = "DATA" -> [past EXCEPT !.s.rx = IF Len(@) + chunk < RxSize THEN @ \o data ELSE @]
            [] a.s.state = "SKIP" -> past
  <2> DEFINE E(m) ==
         LET d == SubSeq(units, a.so + 1, a.so + m)
             l == m = a.s.rem
             p == [a EXCEPT !.so = @ + m, !.s.rem = @ - m, !.s.state = IF l THEN "header" ELSE @]
             h == IF Len(a.s.hdr) + m < HdrSize THEN a.s.hdr \o d ELSE a.s.hdr
         IN CASE a.s.state = "HEADERS" ->
                   [p EXCEPT !.s.hdr = h, !.fields = IF l THEN @ \cup FieldsOf(h, t) ELSE @]
              [] a.s.state = "DATA" ->
                   [p EXCEPT !.s.rx = IF Len(@) + m < RxSize THEN @ \o d ELSE @]
              [] a.s.state = "SKIP" -> p
  <2>1. b = E(Min({a.s.rem, n - a.so}))
    BY DEF Carry
  <2>2. E(Min({a.s.rem, n - a.so})) = E(chunk)
    <3> HIDE DEF E, chunk
    <3> QED BY <1>4, Zenon
  <2>3. b = E(chunk)
    <3> HIDE DEF E, chunk, b
    <3> QED BY <2>1, <2>2, Zenon
  <2> HIDE DEF chunk, b
  <2> QED BY <2>3, Zenon DEF Slice
<1> HIDE DEF chunk, data, hdr
<1>6. past = [s |-> s, so |-> a.so + chunk, fields |-> a.fields]
  <2> DEFINE p1 == [a EXCEPT !.so = @ + chunk]
             p2 == [p1 EXCEPT !.s.rem = @ - chunk]
             p3 == [p2 EXCEPT !.s.state = IF last THEN "header" ELSE @]
             s2 == [a.s EXCEPT !.rem = @ - chunk]
             s3 == [s2 EXCEPT !.state = IF last THEN "header" ELSE @]
  <2>1. past = p3
    BY Zenon
  <2>2. p1 = [s |-> a.s, so |-> a.so + chunk, fields |-> a.fields]
    BY <1>2
  <2>3. p2 = [s |-> s2, so |-> a.so + chunk, fields |-> a.fields]
    <3> HIDE DEF p1
    <3> QED BY <2>2
  <2>4. p3 = [s |-> s3, so |-> a.so + chunk, fields |-> a.fields]
    <3> HIDE DEF p2, s2, last
    <3> QED BY <2>3
  <2>5. s2 = [stream_id |-> a.s.stream_id, state |-> a.s.state, rem |-> a.s.rem - chunk,
              hdr |-> a.s.hdr, rx |-> a.s.rx, fin |-> a.s.fin, type |-> a.s.type,
              rx_data |-> a.s.rx_data, max_rx_data |-> a.s.max_rx_data,
              parsed |-> a.s.parsed]
    BY <1>3
  <2>6. s3 = s
    <3> HIDE DEF s2, last
    <3> QED BY <2>5
  <2> HIDE DEF p3, s3, past, s
  <2> QED BY <2>1, <2>4, <2>6
<1> HIDE DEF past, b
<1>7. CASE a.s.state = "HEADERS"
  <2>1. b = [past EXCEPT !.s.hdr = hdr, !.fields = IF last THEN @ \cup FieldsOf(hdr, t) ELSE @]
    BY <1>5, <1>7
  <2>2. b = [s |-> [s EXCEPT !.hdr = hdr], so |-> a.so + chunk,
             fields |-> IF last THEN a.fields \cup FieldsOf(hdr, t) ELSE a.fields]
    <3> HIDE DEF s, last
    <3> QED BY <1>6, <2>1
  <2>3. b.s = [s EXCEPT !.hdr = hdr] /\ b.so = a.so + chunk
        /\ b.fields = (IF last THEN a.fields \cup FieldsOf(hdr, t) ELSE a.fields)
        /\ b = [s |-> b.s, so |-> a.so + chunk, fields |-> b.fields]
    <3> HIDE DEF s, last
    <3> QED BY <2>2
  <2>4. b.s = [stream_id |-> a.s.stream_id, state |-> state, rem |-> a.s.rem - chunk,
               hdr |-> hdr, rx |-> a.s.rx, fin |-> a.s.fin, type |-> a.s.type,
               rx_data |-> a.s.rx_data, max_rx_data |-> a.s.max_rx_data, parsed |-> a.s.parsed]
    BY <2>3
  <2>5. b.s.hdr = hdr /\ b.s.rx = a.s.rx
    BY <2>4
  <2> QED BY <1>7, <2>3, <2>4, <2>5 DEF Carried, b, chunk, data, hdr
<1>8. CASE a.s.state = "DATA"
  <2>1. b = [past EXCEPT !.s.rx = IF Len(@) + chunk < RxSize THEN @ \o data ELSE @]
    BY <1>5, <1>8
  <2>2. b = [s |-> [s EXCEPT !.rx = rx], so |-> a.so + chunk, fields |-> a.fields]
    BY <1>6, <2>1
  <2>3. b.s = [s EXCEPT !.rx = rx] /\ b.so = a.so + chunk /\ b.fields = a.fields
        /\ b = [s |-> b.s, so |-> a.so + chunk, fields |-> b.fields]
    BY <2>2
  <2>4. b.s = [stream_id |-> a.s.stream_id, state |-> state, rem |-> a.s.rem - chunk,
               hdr |-> a.s.hdr, rx |-> rx, fin |-> a.s.fin, type |-> a.s.type,
               rx_data |-> a.s.rx_data, max_rx_data |-> a.s.max_rx_data, parsed |-> a.s.parsed]
    BY <2>3
  <2>5. b.s.hdr = a.s.hdr /\ b.s.rx = rx
    BY <2>4
  <2> QED BY <1>8, <2>3, <2>4, <2>5 DEF Carried, b, chunk, data
<1>9. CASE a.s.state = "SKIP"
  <2>1. b = past
    BY <1>5, <1>9
  <2>2. b.s = s /\ b.so = a.so + chunk /\ b.fields = a.fields
        /\ b = [s |-> b.s, so |-> a.so + chunk, fields |-> b.fields]
    BY <1>6, <2>1
  <2>3. b.s.hdr = a.s.hdr /\ b.s.rx = a.s.rx
    BY <2>2
  <2> QED BY <1>9, <2>2, <2>3 DEF Carried, b, chunk
<1> QED BY <1>1, <1>7, <1>8, <1>9 DEF Kinds

(* A chunk of payload keeps the types, and the buffers within bounds.      *)
LEMMA CarryTyped ==
  ASSUME NEW s0, NEW units \in Seq(AnyUnit), NEW t \in Tables(Entry), NEW n, n = Len(units),
         NEW a \in Parses(s0, t, n), a.s.state # "header"
  PROVE  Carry(a, units, t) \in Parses(s0, t, n)
<1> DEFINE b == Carry(a, units, t)
           chunk == Chunk(a, n)
           data == Slice(units, a.so, a.so + chunk)
           hdr == IF Len(a.s.hdr) + chunk < HdrSize THEN a.s.hdr \o data ELSE a.s.hdr
           rx == IF Len(a.s.rx) + chunk < RxSize THEN a.s.rx \o data ELSE a.s.rx
<1>0. n \in Nat
  OBVIOUS
<1>1. n \in Nat /\ a.so \in 0..n /\ a.s \in StreamRecords /\ a.fields \in SUBSET DecodedBy(t)
      /\ a.s.stream_id = s0.stream_id /\ a.s.fin = s0.fin /\ a.s.parsed = s0.parsed
  BY <1>0 DEF Parses
<1>2. chunk \in 0..n - a.so /\ chunk <= a.s.rem /\ a.so + chunk \in 0..n /\ a.s.rem - chunk \in Nat
  <2> DEFINE rem == a.s.rem
             so == a.so
  <2>1. rem \in Nat /\ so \in 0..n /\ chunk = IF rem <= n - so THEN rem ELSE n - so
    BY <1>1 DEF Chunk, StreamRecords
  <2> HIDE DEF rem, so, chunk
  <2>2. chunk \in 0..n - so /\ chunk <= rem /\ so + chunk \in 0..n /\ rem - chunk \in Nat
    BY <1>0, <2>1
  <2> QED BY <2>2 DEF rem, so
<1>3. Carried(a, units, t, n, b)
  BY <1>0, CarryIs
<1>4. data \in Seq(AnyUnit) /\ Len(data) = chunk
  <2> DEFINE e == a.so + chunk
  <2>1. e \in 0..Len(units) /\ a.so \in 0..e /\ e - a.so = chunk
    BY <1>1, <1>2
  <2> HIDE DEF e
  <2>2. IsSlice(AnyUnit, units, a.so, e, Slice(units, a.so, e))
    BY <2>1, SliceIs, Zenon
  <2> QED BY <2>1, <2>2 DEF IsSlice, e
<1> HIDE DEF b, chunk, data
<1>5. a.s.hdr \in Seq(AnyUnit) /\ Len(a.s.hdr) < HdrSize /\ a.s.rx \in Seq(AnyUnit) /\ Len(a.s.rx) < RxSize
  BY <1>1 DEF StreamRecords
<1>6. ASSUME NEW x \in Seq(AnyUnit)
      PROVE  x \o data \in Seq(AnyUnit) /\ Len(x \o data) = Len(x) + chunk
  BY <1>4, ConcatProperties
<1>7. hdr \in Seq(AnyUnit) /\ Len(hdr) < HdrSize /\ rx \in Seq(AnyUnit) /\ Len(rx) < RxSize
  BY <1>5, <1>6
<1>8. FieldsOf(hdr, t) \in SUBSET DecodedBy(t)
  <2> HIDE DEF hdr
  <2> QED BY <1>7, FieldsDecode
<1> HIDE DEF hdr, rx
<1>9. b.fields \in SUBSET DecodedBy(t)
  <2>1. b.fields = a.fields \cup FieldsOf(hdr, t) \/ b.fields = a.fields
    BY <1>3 DEF Carried, hdr, data, chunk
  <2> QED BY <1>1, <1>8, <2>1
<1>10. b.s.hdr \in Seq(AnyUnit) /\ Len(b.s.hdr) < HdrSize /\ b.s.rx \in Seq(AnyUnit) /\ Len(b.s.rx) < RxSize
  <2>1. (b.s.hdr = hdr \/ b.s.hdr = a.s.hdr) /\ (b.s.rx = rx \/ b.s.rx = a.s.rx)
    BY <1>3 DEF Carried, hdr, rx, data, chunk
  <2> QED BY <1>5, <1>7, <2>1
<1>11. /\ b = [s |-> b.s, so |-> a.so + chunk, fields |-> b.fields]
       /\ b.s = [stream_id |-> a.s.stream_id,
                 state |-> IF chunk = a.s.rem THEN "header" ELSE a.s.state,
                 rem |-> a.s.rem - chunk, hdr |-> b.s.hdr, rx |-> b.s.rx, fin |-> a.s.fin,
                 type |-> a.s.type, rx_data |-> a.s.rx_data,
                 max_rx_data |-> a.s.max_rx_data, parsed |-> a.s.parsed]
  BY <1>3 DEF Carried, chunk
<1>12. b.s \in StreamRecords
  <2> DEFINE v == b.s
             f == a.s
             k == f.rem - chunk
             state == IF chunk = f.rem THEN "header" ELSE f.state
             h == v.hdr
             x == v.rx
  <2>1. /\ f.stream_id \in Nat /\ f.state \in {"header"} \cup Kinds /\ f.fin \in BOOLEAN
        /\ f.type \in {"unread", "encoder", "other"} /\ f.rx_data \in Nat
        /\ f.max_rx_data \in Nat /\ f.parsed \in Nat
    BY <1>1 DEF StreamRecords
  <2>2. state \in {"header"} \cup Kinds /\ k \in Nat
    BY <1>2, <2>1
  <2>3. h \in Seq(AnyUnit) /\ Len(h) < HdrSize /\ x \in Seq(AnyUnit) /\ Len(x) < RxSize
    BY <1>10
  <2>4. v = [stream_id |-> f.stream_id, state |-> state, rem |-> k, hdr |-> h, rx |-> x,
             fin |-> f.fin, type |-> f.type, rx_data |-> f.rx_data,
             max_rx_data |-> f.max_rx_data, parsed |-> f.parsed]
    BY <1>11, Zenon
  <2> HIDE DEF v, f, k, state, h, x
  <2>5. v \in StreamRecords
    BY ONLY <2>1, <2>2, <2>3, <2>4 DEF StreamRecords
  <2> QED BY <2>5 DEF v
<1>13. b.s.stream_id = a.s.stream_id /\ b.s.fin = a.s.fin /\ b.s.parsed = a.s.parsed
       /\ b.so = a.so + chunk
  BY <1>11
<1>14. b \in [s : StreamRecords, so : 0..n, fields : SUBSET DecodedBy(t)]
  BY <1>2, <1>9, <1>11, <1>12
<1> QED BY <1>1, <1>13, <1>14 DEF Parses, b

(* quic_parse_frames on a request stream: a round keeps the types.         *)
LEMMA RoundTyped ==
  ASSUME NEW s0, NEW units, NEW t, NEW a
  PROVE  Readable(units) /\ t \in Tables(Entry) /\ a \in Parses(s0, t, Len(units)) =>
           Round(a, units, t) \subseteq Parses(s0, t, Len(units))
<1> SUFFICES ASSUME Readable(units), t \in Tables(Entry), a \in Parses(s0, t, Len(units))
             PROVE  Round(a, units, t) \subseteq Parses(s0, t, Len(units))
  OBVIOUS
<1> DEFINE n == Len(units)
<1>1. units \in Seq(AnyUnit)
  BY DEF Readable
<1> HIDE DEF n
<1>2. n = Len(units) /\ a \in Parses(s0, t, n)
  BY DEF n
<1>3. CASE a.so = n
  BY <1>2, <1>3 DEF Round
<1>4. CASE a.so # n /\ a.s.state = "header"
  <2>1. Begin(a, units) \subseteq Parses(s0, t, n)
    BY <1>2, <1>4, BeginTyped
  <2> QED BY <1>2, <1>4, <2>1 DEF Round
<1>5. CASE a.so # n /\ a.s.state # "header"
  <2>1. Carry(a, units, t) \in Parses(s0, t, n)
    BY <1>1, <1>2, <1>5, CarryTyped
  <2> QED BY <1>2, <1>5, <2>1 DEF Round
<1> QED BY <1>2, <1>3, <1>4, <1>5

(* What each round keeps, from W[k - 1] to W[k], holds at the end.         *)
LEMMA RoundsThrough ==
  ASSUME NEW s, NEW units, NEW table, NEW W, NEW n
  PROVE  /\ n = 2 * Len(units) /\ Len(units) \in Nat
         /\ [s |-> s, so |-> 0, fields |-> {}] \in W[0]
         /\ \A k \in 1..n : \A a \in W[k - 1] : Round(a, units, table) \subseteq W[k]
         => Rounds(s, units, table) \subseteq W[n]
<1> SUFFICES ASSUME n = 2 * Len(units), Len(units) \in Nat,
                    [s |-> s, so |-> 0, fields |-> {}] \in W[0],
                    \A k \in 1..n : \A a \in W[k - 1] : Round(a, units, table) \subseteq W[k]
             PROVE  Rounds(s, units, table) \subseteq W[n]
  OBVIOUS
<1> DEFINE first == {[s |-> s, so |-> 0, fields |-> {}]}
           F(h) == [k \in 0..n |-> IF k = 0 THEN first
                                   ELSE UNION {Round(a, units, table) : a \in h[k - 1]}]
           R == [k \in 1..n |-> [a \in W[k - 1] |-> Round(a, units, table)]]
           g == CHOOSE h : h = F(h)
<1>1. n \in Nat
  OBVIOUS
<1>2. first \subseteq W[0] /\ \A k \in 1..n : \A a \in W[k - 1] : R[k][a] \subseteq W[k]
  OBVIOUS
<1>3. \E h : OutcomesOf(h, first, R, n) /\ \A k \in 0..n : h[k] \subseteq W[k]
  <2>1. n \in Nat /\ first \subseteq W[0]
        /\ \A k \in 1..n : \A a \in W[k - 1] : R[k][a] \subseteq W[k]
    BY <1>1, <1>2
  <2> HIDE DEF R, first, F, g
  <2> QED BY ONLY <2>1, OutcomesExist, Zenon
<1>4. PICK h : OutcomesOf(h, first, R, n) /\ \A k \in 0..n : h[k] \subseteq W[k]
  BY <1>3, Zenon
<1>5. h = F(h)
  <2>1. ASSUME NEW k \in 0..n
        PROVE  (IF k = 0 THEN first ELSE UNION {R[k][a] : a \in h[k - 1]})
                 = IF k = 0 THEN first ELSE UNION {Round(a, units, table) : a \in h[k - 1]}
    <3>1. CASE k = 0
      BY <3>1
    <3>2. CASE k # 0
      <4>1. k \in 1..n /\ k - 1 \in 0..n
        BY <3>2
      <4>2. h[k - 1] \subseteq W[k - 1]
        BY <1>4, <4>1
      <4>3. \A a \in h[k - 1] : R[k][a] = Round(a, units, table)
        BY <4>1, <4>2
      <4>4. UNION {R[k][a] : a \in h[k - 1]} = UNION {Round(a, units, table) : a \in h[k - 1]}
        <5> HIDE DEF R
        <5> QED BY ONLY <4>3
      <4> QED BY ONLY <3>2, <4>4
    <3> QED BY <3>1, <3>2
  <2>2. h = [k \in 0..n |-> IF k = 0 THEN first ELSE UNION {R[k][a] : a \in h[k - 1]}]
    BY <1>4 DEF OutcomesOf
  <2> HIDE DEF first, R
  <2>3. F(h) = [k \in 0..n |-> IF k = 0 THEN first ELSE UNION {R[k][a] : a \in h[k - 1]}]
    BY ONLY <2>1, Zenon
  <2> HIDE DEF F
  <2> QED BY ONLY <2>2, <2>3, Zenon
<1>6. g = F(g)
  <2> HIDE DEF F
  <2> QED BY <1>5, Zenon
<1>7. Rounds(s, units, table) = g[n]
  BY DEF Rounds
<1> HIDE DEF g
<1>8. /\ g[0] = first
      /\ \A k \in 1..n : g[k] = UNION {Round(a, units, table) : a \in g[k - 1]}
  <2>1. 0 \in 0..n /\ \A k \in 1..n : k \in 0..n /\ k # 0
    BY <1>1
  <2>2. \A k \in 0..n : g[k] = IF k = 0 THEN first
                               ELSE UNION {Round(a, units, table) : a \in g[k - 1]}
    <3> HIDE DEF first
    <3> QED BY <1>6
  <2> HIDE DEF first
  <2> QED BY <2>1, <2>2
<1>9. n \in Nat /\ g[0] \subseteq W[0]
      /\ \A k \in 1..n : g[k - 1] \subseteq W[k - 1] => g[k] \subseteq W[k]
  <2> HIDE DEF F
  <2>1. ASSUME NEW k \in 1..n, g[k - 1] \subseteq W[k - 1] PROVE g[k] \subseteq W[k]
    <3>1. g[k] = UNION {Round(a, units, table) : a \in g[k - 1]}
      BY <1>8
    <3> SUFFICES ASSUME NEW a \in g[k - 1] PROVE Round(a, units, table) \subseteq W[k]
      BY <3>1
    <3>2. a \in W[k - 1]
      BY <2>1
    <3> QED BY <3>2
  <2> QED BY <1>1, <1>2, <1>8, <2>1
<1>10. \A k \in 0..n : g[k] \subseteq W[k]
  <2> HIDE DEF F
  <2> QED BY <1>9, OutcomesStay, Zenon
<1>11. n \in 0..n
  BY <1>1
<1> QED BY <1>7, <1>10, <1>11

(* Where the loop is in the stream: at the beginning of a frame, or rem    *)
(* units before the end of one.                                            *)
InFrame(u, B, p, state, rem) ==
  /\ p \in 0..Len(u) /\ rem \in Nat
  /\ state = "header" => p \in B
  /\ state # "header" => /\ state \in Kinds /\ p + rem \in B
                         /\ \A j \in p + 1..p + rem : PayloadOf(state, u[j])

(* The data of a frame that comes in order, and is not cut in a header.    *)
InOrder(u, B, b, n, units) ==
  /\ u \in Seq(AnyUnit) /\ Framed(u, B)
  /\ b \in Nat /\ n \in Nat /\ b + n \in 0..Len(u) /\ n < RxSize
  /\ units = Slice(u, b, b + n)
  /\ n > 0 => u[b + n][1] # "type"

(* What the loop has come to after k rounds over it: the caller has d.     *)
Measure(a, n) == 2 * (n - a.so) + (IF a.s.state = "header" THEN 0 ELSE 1)

Following(s0, t, u, B, b, n, d, k) ==
  {a \in Parses(s0, t, n) :
     /\ InFrame(u, B, b + a.so, a.s.state, a.s.rem)
     /\ d \o a.s.rx = BodyUpTo(u, b + a.so)
     /\ Len(a.s.rx) <= a.so
     /\ a.so = n \/ Measure(a, n) + k <= 2 * n + 1}

(* The units are those of the stream.                                      *)
LEMMA UnitsAt ==
  ASSUME NEW u, NEW B, NEW b, NEW n, NEW units
  PROVE  InOrder(u, B, b, n, units) =>
           /\ units \in Seq(AnyUnit) /\ Len(units) = n /\ Len(u) \in Nat
           /\ \A i \in 1..n : units[i] = u[b + i] /\ b + i \in 1..Len(u)
<1> SUFFICES ASSUME InOrder(u, B, b, n, units)
             PROVE  /\ units \in Seq(AnyUnit) /\ Len(units) = n /\ Len(u) \in Nat
                    /\ \A i \in 1..n : units[i] = u[b + i] /\ b + i \in 1..Len(u)
  OBVIOUS
<1> DEFINE e == b + n
<1>1. u \in Seq(AnyUnit) /\ e \in 0..Len(u) /\ b \in 0..e /\ n \in Nat /\ Len(u) \in Nat
      /\ units = Slice(u, b, e) /\ e - b = n
  BY DEF InOrder
<1> HIDE DEF e
<1>2. IsSlice(AnyUnit, u, b, e, Slice(u, b, e))
  BY <1>1, SliceIs, Zenon
<1> QED BY <1>1, <1>2 DEF IsSlice

(* A header in order is read as the server wrote it.                       *)
LEMMA BeginFollows ==
  ASSUME NEW s0, NEW u, NEW B, NEW b, NEW n, NEW d, NEW k \in Nat, NEW units, NEW t,
         Readable(units),
         InOrder(u, B, b, n, units),
         NEW a \in Following(s0, t, u, B, b, n, d, k), a.so # n, a.s.state = "header"
  PROVE  Begin(a, units) \subseteq Following(s0, t, u, B, b, n, d, k + 1)
<1> DEFINE p == b + a.so
<1>1. /\ units \in Seq(AnyUnit) /\ Len(units) = n /\ n \in Nat /\ b \in Nat /\ Len(u) \in Nat
      /\ b + n <= Len(u)
      /\ \A i \in 1..n : units[i] = u[b + i] /\ b + i \in 1..Len(u)
  <2>1. n \in Nat /\ b \in Nat /\ b + n \in 0..Len(u)
    BY DEF InOrder
  <2>2. units \in Seq(AnyUnit) /\ Len(units) = n /\ Len(u) \in Nat
        /\ \A i \in 1..n : units[i] = u[b + i] /\ b + i \in 1..Len(u)
    BY UnitsAt
  <2> QED BY <2>1, <2>2
<1>2. a \in Parses(s0, t, n) /\ InFrame(u, B, p, a.s.state, a.s.rem) /\ d \o a.s.rx = BodyUpTo(u, p)
      /\ Len(a.s.rx) <= a.so /\ Measure(a, n) + k <= 2 * n + 1
  BY DEF Following
<1>3. a.so \in 0..n - 1 /\ a.s.rx \in Seq(AnyUnit)
  <2>1. a.so \in 0..n /\ a.s \in StreamRecords
    BY <1>2 DEF Parses
  <2> QED BY <1>1, <2>1 DEF StreamRecords
<1>4. p \in B /\ p # Len(u) /\ p + 1 = b + (a.so + 1) /\ p + 2 = b + (a.so + 2) /\ p \in Nat
  <2>1. p \in B
    BY <1>2 DEF InFrame
  <2> DEFINE so == a.so
  <2>2. so \in 0..n - 1
    BY <1>3
  <2> HIDE DEF so
  <2>3. b + so # Len(u) /\ (b + so) + 1 = b + (so + 1) /\ (b + so) + 2 = b + (so + 2)
        /\ b + so \in Nat
    BY <1>1, <2>2
  <2> QED BY <2>1, <2>3 DEF so
<1>5. PICK kind \in Kinds, m \in Nat : p + 2 + m \in B /\ FrameAt(u, p, kind, m)
  BY <1>4 DEF InOrder, Framed
<1> HIDE DEF p
<1>6. /\ u[p + 1] = <<"type", kind>> /\ u[p + 2] = <<"length", m>>
      /\ \A j \in p + 3..p + 2 + m : PayloadOf(kind, u[j])
      /\ p + 2 + m \in 0..Len(u)
  BY <1>5 DEF FrameAt
<1>7. ~(n - a.so < 2)
  <2> SUFFICES ASSUME n - a.so < 2 PROVE FALSE
    OBVIOUS
  <2>1. a.so + 1 = n /\ n > 0
    BY <1>1, <1>3
  <2>2. u[b + n] = <<"type", kind>>
    BY <1>4, <1>6, <2>1
  <2> QED BY <2>1, <2>2 DEF InOrder
<1>8. a.so + 1 \in 1..n /\ (a.so + 1) + 1 \in 1..n /\ b + (a.so + 1) = p + 1
      /\ b + ((a.so + 1) + 1) = p + 2 /\ a.so + 2 \in 0..n /\ p + 2 \in 0..Len(u)
  <2> DEFINE so == a.so
  <2>1. so \in 0..n - 1 /\ ~(n - so < 2) /\ p + 1 = b + (so + 1) /\ p + 2 = b + (so + 2)
    BY <1>3, <1>4, <1>7
  <2> HIDE DEF so
  <2>2. so + 1 \in 1..n /\ (so + 1) + 1 \in 1..n /\ (so + 1) + 1 = so + 2 /\ so + 2 \in 0..n
        /\ b + (so + 2) \in 0..Len(u)
    BY <1>1, <2>1
  <2>3. so + 1 \in 1..n /\ (so + 1) + 1 \in 1..n /\ b + (so + 1) = p + 1
        /\ b + ((so + 1) + 1) = p + 2 /\ so + 2 \in 0..n /\ p + 2 \in 0..Len(u)
    BY <2>1, <2>2
  <2> QED BY <2>3 DEF so
<1>9. Headers(units, a.so + 1) = {<<kind, m>>}
  <2>1. units[a.so + 1] = <<"type", kind>> /\ units[(a.so + 1) + 1] = <<"length", m>>
    BY <1>1, <1>6, <1>8
  <2> QED BY <2>1 DEF Headers
<1> SUFFICES ASSUME NEW c \in Begin(a, units) PROVE c \in Following(s0, t, u, B, b, n, d, k + 1)
  OBVIOUS
<1>10. c \in Parses(s0, t, n)
  BY <1>1, <1>2, BeginTyped
<1>11. PICK h \in {<<kind, m>>} :
         c = [a EXCEPT !.so = @ + 2, !.s.state = h[1], !.s.rem = h[2],
                       !.s.hdr = IF h[1] = "HEADERS" THEN <<>> ELSE @]
  <2>1. ~(Len(units) - a.so < 2)
    BY <1>1, <1>7
  <2> QED BY <1>9, <2>1, Zenon DEF Begin
<1>12. c.so = a.so + 2 /\ c.s.state = kind /\ c.s.rem = m /\ c.s.rx = a.s.rx
  <2>1. a = [s |-> a.s, so |-> a.so, fields |-> a.fields]
    BY <1>2 DEF Parses
  <2>2. a.s = [stream_id |-> a.s.stream_id, state |-> a.s.state, rem |-> a.s.rem,
               hdr |-> a.s.hdr, rx |-> a.s.rx, fin |-> a.s.fin, type |-> a.s.type,
               rx_data |-> a.s.rx_data, max_rx_data |-> a.s.max_rx_data,
               parsed |-> a.s.parsed]
    BY <1>2 DEF Parses, StreamRecords
  <2> DEFINE hdr == IF h[1] = "HEADERS" THEN <<>> ELSE a.s.hdr
  <2>3. c.so = a.so + 2 /\ c.s = [a.s EXCEPT !.state = h[1], !.rem = h[2], !.hdr = hdr]
    BY <1>11, <2>1
  <2>4. h[1] = kind /\ h[2] = m
    OBVIOUS
  <2> HIDE DEF hdr
  <2>5. c.s.state = h[1] /\ c.s.rem = h[2] /\ c.s.rx = a.s.rx
    BY <2>2, <2>3
  <2> QED BY <2>3, <2>4, <2>5
<1>13. b + c.so = p + 2
  BY <1>4, <1>12
<1>14. InFrame(u, B, p + 2, kind, m)
  <2>1. \A j \in (p + 2) + 1..(p + 2) + m : PayloadOf(kind, u[j])
    BY <1>4, <1>6
  <2>2. kind # "header"
    BY DEF Kinds
  <2> QED BY <1>4, <1>5, <1>8, <2>1, <2>2 DEF InFrame
<1>15. d \o c.s.rx = BodyUpTo(u, p + 2)
  <2>1. u \in Seq(AnyUnit) /\ p + 2 \in 0..Len(u) /\ p \in 0..p + 2
        /\ \A j \in p + 1..p + 2 : u[j][1] # "DATA"
    <3>1. \A j \in p + 1..p + 2 : j = p + 1 \/ j = p + 2
      BY <1>4
    <3>2. u[p + 1][1] # "DATA" /\ u[p + 2][1] # "DATA"
      BY <1>6
    <3>3. u \in Seq(AnyUnit) /\ p \in 0..p + 2
      BY <1>4 DEF InOrder
    <3> QED BY <1>8, <3>1, <3>2, <3>3
  <2> DEFINE q == p + 2
  <2> HIDE DEF q
  <2>2. u \in Seq(AnyUnit) /\ q \in 0..Len(u) /\ p \in 0..q
        /\ \A j \in p + 1..q : u[j][1] # "DATA"
    BY <2>1 DEF q
  <2>3. BodyUpTo(u, q) = BodyUpTo(u, p)
    BY ONLY <2>2, BodyPassesOver, Zenon
  <2> QED BY <1>2, <1>12, <2>3 DEF q
<1>16. Len(c.s.rx) <= c.so /\ Measure(c, n) + (k + 1) <= 2 * n + 1
  <2>1. Len(a.s.rx) \in Nat /\ kind # "header"
    BY <1>3 DEF Kinds
  <2>2. Measure(a, n) = 2 * (n - a.so) /\ Measure(c, n) = 2 * (n - (a.so + 2)) + 1
    BY <1>1, <1>3, <1>12, <2>1 DEF Measure
  <2> DEFINE so == a.so
             l == Len(a.s.rx)
  <2>3. so \in 0..n - 1 /\ l <= so /\ l \in Nat /\ 2 * (n - so) + k <= 2 * n + 1
    BY <1>2, <1>3, <2>1, <2>2
  <2> HIDE DEF so, l
  <2>4. l <= so + 2 /\ (2 * (n - (so + 2)) + 1) + (k + 1) <= 2 * n + 1
    BY <1>1, <2>3
  <2> QED BY <1>12, <2>2, <2>4 DEF so, l
<1> QED BY <1>10, <1>12, <1>13, <1>14, <1>15, <1>16 DEF Following

(* A chunk in order goes to the body if it is DATA, and nowhere else.      *)
LEMMA CarryFollows ==
  ASSUME NEW s0, NEW u, NEW B, NEW b, NEW n, NEW d \in Seq(AnyUnit), NEW k \in Nat, NEW units,
         NEW t \in Tables(Entry), InOrder(u, B, b, n, units),
         NEW a \in Following(s0, t, u, B, b, n, d, k), a.so # n, a.s.state # "header"
  PROVE  Carry(a, units, t) \in Following(s0, t, u, B, b, n, d, k + 1)
<1> DEFINE so == a.so
           rem == a.s.rem
           p == b + so
           chunk == Chunk(a, n)
           data == Slice(units, so, so + chunk)
           c == Carry(a, units, t)
           x == a.s.rx
           kind == a.s.state
<1>1. /\ units \in Seq(AnyUnit) /\ Len(units) = n /\ n \in Nat /\ b \in Nat /\ Len(u) \in Nat
      /\ b + n <= Len(u) /\ n < RxSize /\ u \in Seq(AnyUnit) /\ units = Slice(u, b, b + n)
  <2>1. n \in Nat /\ b \in Nat /\ b + n \in 0..Len(u) /\ n < RxSize /\ u \in Seq(AnyUnit)
        /\ units = Slice(u, b, b + n)
    BY DEF InOrder
  <2>2. units \in Seq(AnyUnit) /\ Len(units) = n /\ Len(u) \in Nat
    BY UnitsAt
  <2> QED BY <2>1, <2>2
<1>2. a \in Parses(s0, t, n) /\ InFrame(u, B, p, kind, rem) /\ d \o x = BodyUpTo(u, p)
      /\ Len(x) <= so /\ Measure(a, n) + k <= 2 * n + 1
  BY DEF Following
<1>3. so \in 0..n - 1 /\ x \in Seq(AnyUnit) /\ rem \in Nat /\ kind \in Kinds
  <2>1. a.so \in 0..n /\ a.s \in StreamRecords
    BY <1>2 DEF Parses
  <2>2. so \in 0..n - 1
    BY <1>1, <2>1
  <2> QED BY <2>1, <2>2 DEF StreamRecords
<1>4. c \in Parses(s0, t, n)
  BY <1>1, <1>2, CarryTyped
<1>5. Carried(a, units, t, n, c)
  BY <1>1, <1>2, CarryIs
<1>6. /\ c.so = so + chunk /\ c.s.rem = rem - chunk
      /\ c.s.state = IF chunk = rem THEN "header" ELSE kind
      /\ c.s.rx = IF kind = "DATA" THEN (IF Len(x) + chunk < RxSize THEN x \o data ELSE x) ELSE x
  <2> HIDE DEF c, chunk
  <2>1. /\ c = [s |-> c.s, so |-> a.so + chunk, fields |-> c.fields]
        /\ c.s = [stream_id |-> a.s.stream_id,
                  state |-> IF chunk = a.s.rem THEN "header" ELSE a.s.state,
                  rem |-> a.s.rem - chunk, hdr |-> c.s.hdr, rx |-> c.s.rx, fin |-> a.s.fin,
                  type |-> a.s.type, rx_data |-> a.s.rx_data,
                  max_rx_data |-> a.s.max_rx_data, parsed |-> a.s.parsed]
        /\ c.s.rx = IF kind = "DATA" THEN (IF Len(x) + chunk < RxSize THEN x \o data ELSE x) ELSE x
    BY <1>5 DEF Carried, chunk
  <2> QED BY <2>1
<1>7. chunk = IF rem <= n - so THEN rem ELSE n - so
  BY DEF Chunk
<1> HIDE DEF so, rem, chunk, c, x, kind
<1>8. /\ chunk \in 0..n - so /\ chunk <= rem /\ so + chunk \in 0..n /\ p \in 0..Len(u)
      /\ p + chunk = b + (so + chunk) /\ p + chunk \in 0..Len(u) /\ p \in 0..p + chunk
      /\ rem - chunk \in Nat /\ (p + chunk) + (rem - chunk) = p + rem
      /\ chunk # rem => chunk = n - so
  BY <1>1, <1>3, <1>7
<1>9. p + rem \in B /\ \A j \in p + 1..p + rem : PayloadOf(kind, u[j])
  <2>1. kind # "header"
    BY <1>3 DEF Kinds
  <2> QED BY <1>2, <2>1 DEF InFrame
<1>10. data = Slice(u, p, p + chunk) /\ data \in Seq(AnyUnit) /\ Len(data) = chunk
  <2> DEFINE e == b + n
             y == so + chunk
  <2>1. /\ u \in Seq(AnyUnit) /\ e \in 0..Len(u) /\ b \in 0..e /\ y \in 0..e - b /\ so \in 0..y
        /\ b + so = p /\ b + y = p + chunk /\ y - so = chunk /\ y \in 0..Len(units)
    <3>1. e \in 0..Len(u) /\ b \in 0..e /\ y \in 0..n /\ so \in 0..y /\ e - b = n /\ y - so = chunk
      BY <1>1, <1>3, <1>8
    <3>2. b + y = p + chunk
      BY <1>8
    <3> HIDE DEF e, y
    <3> QED BY <1>1, <3>1, <3>2
  <2> HIDE DEF e, y, p
  <2>2. Nested(u, b, e, so, y)
    BY ONLY <2>1, NestedParts, Zenon
  <2>3. Slice(units, so, y) = Slice(u, p, p + chunk)
    BY <1>1, <2>1, <2>2 DEF Nested, e
  <2>4. IsSlice(AnyUnit, units, so, y, Slice(units, so, y))
    BY <1>1, <2>1, SliceIs, Zenon
  <2> QED BY <2>1, <2>3, <2>4 DEF IsSlice, y
<1> HIDE DEF data
<1>11. InFrame(u, B, p + chunk, c.s.state, c.s.rem)
  <2> DEFINE q == p + chunk
             rest == rem - chunk
  <2>1. /\ q \in 0..Len(u) /\ rest \in Nat /\ q + rest = p + rem
        /\ \A j \in q + 1..q + rest : j \in p + 1..p + rem
    <3>1. p \in 0..Len(u) /\ q \in 0..Len(u) /\ rest \in Nat /\ p <= q /\ q + rest = p + rem
      BY <1>8
    <3>2. p + 1 <= q + 1
      BY ONLY <3>1
    <3> HIDE DEF q, rest
    <3>3. ASSUME NEW j \in q + 1..q + rest PROVE j \in p + 1..p + rem
      BY ONLY <3>1, <3>2, j \in q + 1..q + rest
    <3> QED BY ONLY <3>1, <3>3
  <2>2. chunk = rem => q = p + rem
    OBVIOUS
  <2> DEFINE state == IF chunk = rem THEN "header" ELSE kind
  <2> HIDE DEF q, rest
  <2>3. InFrame(u, B, q, state, rest)
    <3>1. state = "header" => q \in B
      BY <1>3, <1>9, <2>2 DEF Kinds
    <3>2. state # "header" => state = kind
      OBVIOUS
    <3>3. q + rest \in B /\ \A j \in q + 1..q + rest : PayloadOf(kind, u[j])
      BY <1>9, <2>1
    <3> HIDE DEF state
    <3> QED BY <1>3, <2>1, <3>1, <3>2, <3>3 DEF InFrame
  <2>4. c.s.rem = rest
    BY <1>6 DEF rest
  <2> QED BY <1>6, <2>3, <2>4 DEF q
<1>12. d \o c.s.rx = BodyUpTo(u, p + chunk) /\ Len(c.s.rx) <= so + chunk
  <2> DEFINE q == p + chunk
  <2>1. u \in Seq(AnyUnit) /\ q \in 0..Len(u) /\ p \in 0..q
        /\ \A j \in p + 1..q : PayloadOf(kind, u[j])
    <3>1. \A j \in p + 1..p + chunk : j \in p + 1..p + rem
      <4>1. p \in Nat /\ chunk \in Nat /\ rem \in Nat /\ chunk <= rem
        BY <1>3, <1>8
      <4> HIDE DEF p
      <4> QED BY ONLY <4>1
    <3> QED BY <1>1, <1>8, <1>9, <3>1
  <2>2. Slice(u, p, q) = data
    BY <1>10
  <2> HIDE DEF q, p
  <2>3. CASE kind = "DATA"
    <3>1. \A j \in p + 1..q : u[j][1] = "DATA"
      BY <2>1, <2>3 DEF PayloadOf
    <3>2. u \in Seq(AnyUnit) /\ q \in 0..Len(u) /\ p \in 0..q
          /\ \A j \in p + 1..q : u[j][1] = "DATA"
      BY <2>1, <3>1
    <3>3. BodyUpTo(u, q) = BodyUpTo(u, p) \o Slice(u, p, q)
      BY ONLY <3>2, BodyTakesData, Zenon
    <3>4. Len(x) + chunk < RxSize /\ Len(x) + chunk <= so + chunk
      <4> DEFINE l == Len(x)
      <4>1. l \in Nat /\ l <= so /\ so + chunk <= n /\ n < RxSize /\ RxSize \in Nat /\ n \in Nat
            /\ so \in Nat /\ chunk \in Nat
        BY <1>1, <1>2, <1>3, <1>8, SizesAssumption
      <4> HIDE DEF l
      <4>2. l + chunk < RxSize /\ l + chunk <= so + chunk
        BY ONLY <4>1
      <4> QED BY <4>2 DEF l
    <3>5. c.s.rx = x \o data
      BY <1>6, <2>3, <3>4
    <3>6. (d \o x) \o data = d \o (x \o data)
      <4>1. Reassociates(d, x, data)
        BY <1>3, <1>10, Reassociated, Zenon
      <4> QED BY <4>1 DEF Reassociates
    <3>7. Len(x \o data) = Len(x) + chunk
      BY <1>3, <1>10, ConcatProperties
    <3> QED BY <1>2, <2>2, <3>3, <3>4, <3>5, <3>6, <3>7 DEF q
  <2>4. CASE kind # "DATA"
    <3>1. \A j \in p + 1..q : u[j][1] # "DATA"
      BY <2>1, <2>4 DEF PayloadOf
    <3>2. u \in Seq(AnyUnit) /\ q \in 0..Len(u) /\ p \in 0..q
          /\ \A j \in p + 1..q : u[j][1] # "DATA"
      BY <2>1, <3>1
    <3>3. BodyUpTo(u, q) = BodyUpTo(u, p)
      BY ONLY <3>2, BodyPassesOver, Zenon
    <3>4. Len(x) <= so + chunk
      <4>1. Len(x) \in Nat
        BY <1>3
      <4> QED BY <1>2, <1>3, <1>8, <4>1
    <3> QED BY <1>2, <1>6, <2>4, <3>3, <3>4 DEF q
  <2> QED BY <2>3, <2>4
<1>13. c.so = n \/ Measure(c, n) + (k + 1) <= 2 * n + 1
  <2>1. 2 * (n - so) + 1 + k <= 2 * n + 1
    <3>1. kind # "header"
      BY <1>3 DEF Kinds
    <3>2. Measure(a, n) = 2 * (n - so) + 1
      BY <3>1 DEF Measure, kind, so
    <3> QED BY <1>2, <3>2
  <2>2. c.so = n \/ chunk = rem
    BY <1>1, <1>3, <1>6, <1>8
  <2>3. CASE chunk = rem
    <3>1. Measure(c, n) = 2 * (n - (so + chunk))
      <4>1. c.s.state = "header"
        BY <1>6, <2>3
      <4> QED BY <1>1, <1>3, <1>6, <1>8, <4>1 DEF Measure
    <3> QED BY <1>1, <1>3, <1>8, <2>1, <3>1
  <2> QED BY <2>2, <2>3
<1>14. b + c.so = p + chunk /\ Len(c.s.rx) <= c.so
  BY <1>6, <1>8, <1>12
<1> HIDE DEF p
<1>15. c \in Following(s0, t, u, B, b, n, d, k + 1)
  BY <1>4, <1>11, <1>12, <1>13, <1>14 DEF Following
<1> QED BY <1>15 DEF c

(* One round more.                                                         *)
LEMMA RoundFollows ==
  ASSUME NEW s0, NEW u, NEW B, NEW b, NEW n, NEW d, NEW k, NEW units, NEW t, NEW a
  PROVE  /\ d \in Seq(AnyUnit) /\ k \in Nat /\ Readable(units) /\ t \in Tables(Entry)
         /\ InOrder(u, B, b, n, units) /\ a \in Following(s0, t, u, B, b, n, d, k)
         => Round(a, units, t) \subseteq Following(s0, t, u, B, b, n, d, k + 1)
<1> SUFFICES ASSUME d \in Seq(AnyUnit), k \in Nat, Readable(units), t \in Tables(Entry),
                    InOrder(u, B, b, n, units), a \in Following(s0, t, u, B, b, n, d, k)
             PROVE  Round(a, units, t) \subseteq Following(s0, t, u, B, b, n, d, k + 1)
  OBVIOUS
<1>1. Len(units) = n
  BY UnitsAt
<1>2. CASE a.so = n
  <2>1. a \in Following(s0, t, u, B, b, n, d, k + 1)
    BY <1>2 DEF Following
  <2> QED BY <1>1, <1>2, <2>1 DEF Round
<1>3. CASE a.so # n /\ a.s.state = "header"
  <2>1. Begin(a, units) \subseteq Following(s0, t, u, B, b, n, d, k + 1)
    BY <1>3, BeginFollows
  <2> QED BY <1>1, <1>3, <2>1 DEF Round
<1>4. CASE a.so # n /\ a.s.state # "header"
  <2>1. Carry(a, units, t) \in Following(s0, t, u, B, b, n, d, k + 1)
    BY <1>4, CarryFollows
  <2> QED BY <1>1, <1>4, <2>1 DEF Round
<1> QED BY <1>2, <1>3, <1>4

(* quic_parse_frames on a request stream: what the loop keeps of the       *)
(* stream, and what it decodes.                                            *)
LEMMA ParseTyped ==
  ASSUME NEW s, NEW units, NEW t
  PROVE  s \in StreamRecords /\ Readable(units) /\ t \in Tables(Entry) =>
           ParseHttp3(s, units, t) \subseteq Parses(s, t, Len(units))
<1> SUFFICES ASSUME s \in StreamRecords, Readable(units), t \in Tables(Entry)
             PROVE  ParseHttp3(s, units, t) \subseteq Parses(s, t, Len(units))
  OBVIOUS
<1> DEFINE W == [k \in Nat |-> Parses(s, t, Len(units))]
           n == 2 * Len(units)
           first == [s |-> s, so |-> 0, fields |-> {}]
<1>1. Len(units) \in Nat
  BY DEF Readable
<1>2. first \in Parses(s, t, Len(units))
  BY <1>1 DEF Parses
<1>3. first \in W[0] /\ W[n] = Parses(s, t, Len(units))
  BY <1>1, <1>2
<1>4. ASSUME NEW k \in 1..n, NEW a \in W[k - 1] PROVE Round(a, units, t) \subseteq W[k]
  <2>1. k \in Nat /\ k - 1 \in Nat
    BY <1>1
  <2>2. a \in Parses(s, t, Len(units)) /\ W[k] = Parses(s, t, Len(units))
    BY <2>1
  <2>3. Round(a, units, t) \subseteq Parses(s, t, Len(units))
    BY <2>2, RoundTyped
  <2> QED BY <2>2, <2>3
<1>5. /\ n = 2 * Len(units) /\ Len(units) \in Nat
      /\ [s |-> s, so |-> 0, fields |-> {}] \in W[0]
      /\ \A k \in 1..n : \A a \in W[k - 1] : Round(a, units, t) \subseteq W[k]
  BY <1>1, <1>3, <1>4
<1> HIDE DEF W, n, first
<1>6. Rounds(s, units, t) \subseteq W[n]
  BY ONLY <1>5, RoundsThrough, Zenon
<1> QED BY <1>3, <1>6 DEF ParseHttp3

(* The data of a frame in order is taken apart as the server put it        *)
(* together.                                                               *)
Followed(s, t, u, B, b, n, d) ==
  {a \in Parses(s, t, n) :
     InFrame(u, B, b + n, a.s.state, a.s.rem) /\ d \o a.s.rx = BodyUpTo(u, b + n)}

LEMMA ParseFollows ==
  ASSUME NEW s, NEW units, NEW t, NEW u, NEW B, NEW b, NEW n, NEW d
  PROVE  /\ s \in StreamRecords /\ Readable(units) /\ t \in Tables(Entry)
         /\ InOrder(u, B, b, n, units) /\ d \in Seq(AnyUnit) /\ d = BodyUpTo(u, b)
         /\ s.rx = <<>> /\ InFrame(u, B, b, s.state, s.rem)
         => ParseHttp3(s, units, t) \subseteq Followed(s, t, u, B, b, n, d)
<1> SUFFICES ASSUME s \in StreamRecords, Readable(units), t \in Tables(Entry),
                    InOrder(u, B, b, n, units), d \in Seq(AnyUnit), d = BodyUpTo(u, b),
                    s.rx = <<>>, InFrame(u, B, b, s.state, s.rem)
             PROVE  ParseHttp3(s, units, t) \subseteq Followed(s, t, u, B, b, n, d)
  OBVIOUS
<1> DEFINE F(k) == Following(s, t, u, B, b, n, d, k)
           W == [k \in Nat |-> F(k)]
           m == 2 * Len(units)
           first == [s |-> s, so |-> 0, fields |-> {}]
<1>1. Len(units) = n /\ n \in Nat /\ b \in Nat
  <2>1. Len(units) = n
    BY UnitsAt
  <2> QED BY <2>1 DEF InOrder
<1>2. first \in F(0)
  <2>1. first \in Parses(s, t, n)
    BY <1>1 DEF Parses
  <2>2. first.s = s /\ first.so = 0
    OBVIOUS
  <2>3. b + 0 = b /\ d \o <<>> = d /\ Len(<<>>) <= 0
    BY <1>1
  <2>4. Measure(first, n) + 0 <= 2 * n + 1
    BY <1>1 DEF Measure
  <2> HIDE DEF first
  <2> QED BY <2>1, <2>2, <2>3, <2>4 DEF Following
<1>3. ASSUME NEW k \in 1..m, NEW a \in W[k - 1] PROVE Round(a, units, t) \subseteq W[k]
  <2>1. k \in Nat /\ k - 1 \in Nat /\ (k - 1) + 1 = k
    BY <1>1
  <2> HIDE DEF F
  <2>2. a \in F(k - 1) /\ W[k] = F((k - 1) + 1)
    BY <2>1
  <2>3. /\ d \in Seq(AnyUnit) /\ k - 1 \in Nat /\ Readable(units) /\ t \in Tables(Entry)
        /\ InOrder(u, B, b, n, units) /\ a \in Following(s, t, u, B, b, n, d, k - 1)
    BY <2>1, <2>2 DEF F
  <2>4. Round(a, units, t) \subseteq Following(s, t, u, B, b, n, d, (k - 1) + 1)
    BY ONLY <2>3, RoundFollows, Zenon
  <2> HIDE DEF W
  <2> QED BY <2>2, <2>4 DEF F
<1>4. /\ m = 2 * Len(units) /\ Len(units) \in Nat
      /\ [s |-> s, so |-> 0, fields |-> {}] \in W[0]
      /\ \A k \in 1..m : \A a \in W[k - 1] : Round(a, units, t) \subseteq W[k]
  <2> HIDE DEF F
  <2>1. first \in W[0]
    BY <1>2
  <2> HIDE DEF W
  <2> QED BY <1>1, <1>3, <2>1
<1>5. W[m] = F(2 * n)
  <2> HIDE DEF F
  <2> QED BY <1>1
<1> HIDE DEF W, m, first
<1>6. Rounds(s, units, t) \subseteq W[m]
  BY ONLY <1>4, RoundsThrough, Zenon
<1>7. ASSUME NEW a \in F(2 * n) PROVE a \in Followed(s, t, u, B, b, n, d)
  <2>1. a \in Parses(s, t, n) /\ InFrame(u, B, b + a.so, a.s.state, a.s.rem)
        /\ d \o a.s.rx = BodyUpTo(u, b + a.so) /\ (a.so = n \/ Measure(a, n) + 2 * n <= 2 * n + 1)
    BY DEF Following
  <2>2. a.so \in 0..n
    BY <2>1 DEF Parses
  <2>3. a.so = n
    <3> SUFFICES ASSUME Measure(a, n) + 2 * n <= 2 * n + 1 PROVE a.so = n
      BY <2>1
    <3> DEFINE so == a.so
               r == IF a.s.state = "header" THEN 0 ELSE 1
    <3>1. r \in 0..1 /\ so \in 0..n /\ 2 * (n - so) + r + 2 * n <= 2 * n + 1
      BY <2>2 DEF Measure
    <3> HIDE DEF so, r
    <3>2. so = n
      BY <1>1, <3>1
    <3> QED BY <3>2 DEF so
  <2> QED BY <2>1, <2>3 DEF Followed
<1> QED BY <1>5, <1>6, <1>7 DEF ParseHttp3

-----------------------------------------------------------------------------
(* n entries more.                                                         *)
Adds(t, u, n) ==
  LET gone == t.count + n - u.count
  IN /\ u.insert_count = t.insert_count + n
     /\ u.count = IF t.count + n < TableSize THEN t.count + n ELSE TableSize
     /\ \A i \in gone + 1..t.count : Contents(u)[i - gone] = Contents(t)[i]

LEMMA AddsNone ==
  ASSUME NEW t \in Tables(Entry)
  PROVE  Adds(t, t, 0)
<1> DEFINE c == t.count
<1>1. TableSize \in Nat /\ c \in 0..TableSize /\ t.insert_count \in Nat
  BY TableSizeAssumption DEF Tables
<1> HIDE DEF c
<1>2. c + 0 - c = 0 /\ c = IF c + 0 < TableSize THEN c + 0 ELSE TableSize
  BY <1>1
<1>3. \A i \in 0 + 1..c : i - 0 = i
  BY <1>1
<1>4. t.insert_count = t.insert_count + 0
  BY <1>1
<1> QED BY <1>2, <1>3, <1>4 DEF Adds, c

LEMMA AddsOneMore ==
  ASSUME NEW t \in Tables(Entry), NEW u \in Tables(Entry), NEW w \in Tables(Entry), NEW n \in Nat,
         Adds(t, u, n), Adds(u, w, 1)
  PROVE  Adds(t, w, n + 1)
<1> DEFINE a == t.count
           b == u.count
           c == w.count
           g == a + n - b
           h == b + 1 - c
           k == a + (n + 1) - c
<1>1. TableSize \in Nat /\ a \in 0..TableSize /\ b \in 0..TableSize /\ c \in 0..TableSize
      /\ t.insert_count \in Nat
  BY TableSizeAssumption DEF Tables
<1>2. /\ u.insert_count = t.insert_count + n
      /\ b = IF a + n < TableSize THEN a + n ELSE TableSize
      /\ \A i \in g + 1..a : Contents(u)[i - g] = Contents(t)[i]
  BY DEF Adds
<1>3. /\ w.insert_count = u.insert_count + 1
      /\ c = IF b + 1 < TableSize THEN b + 1 ELSE TableSize
      /\ \A i \in h + 1..b : Contents(w)[i - h] = Contents(u)[i]
  BY DEF Adds
<1> HIDE DEF a, b, c
<1>4. k = g + h /\ g \in Int /\ h \in Int /\ g >= 0 /\ h >= 0 /\ a - g <= b
  BY <1>1, <1>2, <1>3
<1>5. ASSUME NEW i \in k + 1..a PROVE Contents(w)[i - k] = Contents(t)[i]
  <2> HIDE DEF g, h, k
  <2>1. i - g \in h + 1..b /\ i \in g + 1..a /\ (i - g) - h = i - k
    BY <1>1, <1>4
  <2> QED BY <1>2, <1>3, <2>1
<1>6. w.insert_count = t.insert_count + (n + 1)
  BY <1>1, <1>2, <1>3
<1>7. c = IF a + (n + 1) < TableSize THEN a + (n + 1) ELSE TableSize
  BY <1>1, <1>2, <1>3
<1> QED BY <1>5, <1>6, <1>7 DEF Adds, a, c

(* What an encoder may be asked for.                                       *)
Obeyable(i) ==
  \/ i.op = "literal name" /\ i \in Additions
  \/ i.op = "name reference" /\ i \in Additions /\ i.idx \in Nat
  \/ i.op = "duplicate" /\ i.idx \in Nat

(* What qpack_get_dynamic_entry finds, it finds in the table.              *)
LEMMA Latest ==
  ASSUME NEW t \in Tables(Entry), NEW idx \in Nat
  PROVE  GetDynamicEntry(t, idx) = {} \/ \E e \in Entry : GetDynamicEntry(t, idx) = {e}
<1>1. GetDynamicEntry(t, idx) = IF idx < t.count THEN {Contents(t)[t.count - idx]} ELSE {}
  BY GetCountsBack
<1>2. Contents(t) \in Seq(Entry) /\ Len(Contents(t)) = t.count /\ t.count \in Nat
  BY ContentsType, TableSizeAssumption DEF Tables
<1>3. CASE idx < t.count
  <2>1. t.count - idx \in 1..Len(Contents(t))
    BY <1>2, <1>3
  <2>2. Contents(t)[t.count - idx] \in Entry
    <3> DEFINE s == Contents(t)
               k == t.count - idx
    <3>1. s \in Seq(Entry) /\ k \in 1..Len(s)
      BY <1>2, <2>1
    <3> HIDE DEF s, k
    <3>2. s[k] \in Entry
      BY <3>1
    <3> QED BY <3>2 DEF s, k
  <2> QED BY <1>1, <1>3, <2>2
<1>4. CASE ~(idx < t.count)
  BY <1>1, <1>4
<1> QED BY <1>3, <1>4

LEMMA Adding ==
  ASSUME NEW t \in Tables(Entry), NEW i, Obeyable(i)
  PROVE  Addition(t, i) = {} \/ \E e \in Entry : Addition(t, i) = {e}
<1> DEFINE names == {NoEntry[1]} \cup {j.name : j \in Additions}
           values == {j.value : j \in Additions}
<1>1. Entry = {NoEntry} \cup (names \X values)
  BY DEF Entry
<1>2. ASSUME NEW e \in Entry PROVE e[1] \in names
  <2> HIDE DEF values
  <2> QED BY <1>1
<1>3. CASE i.op = "literal name"
  <2>1. Addition(t, i) = {<<i.name, i.value>>}
    BY <1>3 DEF Addition
  <2>2. i \in Additions
    BY <1>3 DEF Obeyable
  <2>3. i.name \in names /\ i.value \in values
    BY <2>2
  <2> HIDE DEF names, values
  <2>4. <<i.name, i.value>> \in Entry
    BY <1>1, <2>3
  <2> QED BY <2>1, <2>4
<1>4. CASE i.op = "name reference"
  <2>1. Addition(t, i) = {<<e[1], i.value>> : e \in GetDynamicEntry(t, i.idx)}
    BY <1>4 DEF Addition
  <2>2. i \in Additions /\ i.idx \in Nat
    BY <1>4 DEF Obeyable
  <2>3. i.value \in values
    BY <2>2
  <2>4. GetDynamicEntry(t, i.idx) = {} \/ \E e \in Entry : GetDynamicEntry(t, i.idx) = {e}
    BY <2>2, Latest
  <2> HIDE DEF names, values
  <2>5. CASE GetDynamicEntry(t, i.idx) = {}
    BY <2>1, <2>5
  <2>6. ASSUME NEW e \in Entry, GetDynamicEntry(t, i.idx) = {e}
        PROVE  \E x \in Entry : Addition(t, i) = {x}
    <3>1. Addition(t, i) = {<<e[1], i.value>>}
      BY <2>1, <2>6
    <3>2. <<e[1], i.value>> \in Entry
      BY <1>1, <1>2, <2>3
    <3> QED BY <3>1, <3>2
  <2> QED BY <2>4, <2>5, <2>6
<1>5. CASE i.op = "duplicate"
  <2>1. Addition(t, i) = GetDynamicEntry(t, i.idx)
    BY <1>5 DEF Addition
  <2>2. i.idx \in Nat
    BY <1>5 DEF Obeyable
  <2> QED BY <2>1, <2>2, Latest
<1> QED BY <1>3, <1>4, <1>5 DEF Obeyable

(* An instruction adds one entry or none.                                  *)
LEMMA Obeying ==
  ASSUME NEW t \in Tables(Entry), NEW i, Obeyable(i)
  PROVE  /\ Obey(t, i) \in Tables(Entry)
         /\ Obey(t, i) = t \/ Adds(t, Obey(t, i), 1)
         /\ \A e \in Entry : Addition(t, i) = {e} => Obey(t, i) = AddDynamicEntry(t, e)
<1>1. CASE Addition(t, i) = {}
  <2>1. Obey(t, i) = t
    BY <1>1 DEF Obey
  <2> QED BY <1>1, <2>1
<1>2. ASSUME NEW e \in Entry, Addition(t, i) = {e}
      PROVE  Obey(t, i) = AddDynamicEntry(t, e)
  <2>1. (CHOOSE x \in {e} : TRUE) = e
    OBVIOUS
  <2> QED BY <1>2, <2>1 DEF Obey
<1>3. ASSUME NEW e \in Entry, Addition(t, i) = {e}
      PROVE  Obey(t, i) \in Tables(Entry) /\ Adds(t, Obey(t, i), 1)
  <2> DEFINE u == AddDynamicEntry(t, e)
             gone == t.count + 1 - u.count
  <2>1. Obey(t, i) = u
    BY <1>2, <1>3
  <2>2. u \in Tables(Entry)
    BY AddKeepsTable
  <2>3. /\ u.insert_count = t.insert_count + 1
        /\ u.count = IF t.count + 1 < TableSize THEN t.count + 1 ELSE TableSize
        /\ \A j \in gone + 1..t.count : Contents(u)[j - gone] = Contents(t)[j]
    BY AddIsStep
  <2> HIDE DEF u
  <2> QED BY <2>1, <2>2, <2>3 DEF Adds
<1> QED BY <1>1, <1>2, <1>3, Adding

(* Nothing else is ever read.                                              *)
LEMMA InstructionsObeyable ==
  /\ \A i \in ToSet(Instructions) : Obeyable(i)
  /\ \A i \in Lookalikes : Obeyable(i)
  /\ Obeyable([op |-> "duplicate", idx |-> 2])
<1>1. ASSUME NEW i \in ToSet(Instructions) PROVE Obeyable(i)
  <2>1. PICK k \in DOMAIN Instructions : i = Instructions[k]
    BY DEF ToSet
  <2>2. i \in Additions
    BY DEF Additions
  <2>3. \/ i.op = "literal name"
        \/ i.op \in {"name reference", "duplicate"} /\ i.idx \in Nat
    BY <2>1, InstructionsAssumption
  <2> QED BY ONLY <2>2, <2>3 DEF Obeyable
<1>2. ASSUME NEW i \in Lookalikes PROVE Obeyable(i)
  <2>1. i \in Additions
    BY DEF Additions
  <2> QED BY <2>1, LookalikesAssumption DEF Obeyable
<1>3. Obeyable([op |-> "duplicate", idx |-> 2])
  BY DEF Obeyable
<1> QED BY <1>1, <1>2, <1>3

(* Tables with at most m entries more.                                     *)
Reached(t, m) == {u \in Tables(Entry) : \E n \in 0..m : Adds(t, u, n)}

LEMMA ObeyReaches ==
  ASSUME NEW t \in Tables(Entry), NEW m \in Nat, NEW u \in Reached(t, m), NEW i, Obeyable(i)
  PROVE  Obey(u, i) \in Reached(t, m + 1)
<1>1. u \in Tables(Entry)
  BY DEF Reached
<1>2. PICK n \in 0..m : Adds(t, u, n)
  BY DEF Reached
<1>3. Obey(u, i) \in Tables(Entry) /\ (Obey(u, i) = u \/ Adds(u, Obey(u, i), 1))
  BY <1>1, Obeying
<1>4. CASE Obey(u, i) = u
  <2>1. n \in 0..m + 1
    OBVIOUS
  <2> QED BY <1>2, <1>3, <1>4, <2>1 DEF Reached
<1>5. CASE Adds(u, Obey(u, i), 1)
  <2>1. n \in Nat /\ n + 1 \in 0..m + 1
    OBVIOUS
  <2>2. Adds(t, Obey(u, i), n + 1)
    BY <1>1, <1>2, <1>3, <1>5, <2>1, AddsOneMore
  <2> QED BY <1>3, <2>1, <2>2 DEF Reached
<1> QED BY <1>3, <1>4, <1>5

LEMMA UnitReaches ==
  ASSUME NEW t, NEW units, NEW k, NEW u
  PROVE  t \in Tables(Entry) /\ units \in Seq(AnyUnit) /\ k \in 1..Len(units) /\ u \in Reached(t, k - 1) =>
           Unit(u, units, k) \subseteq Reached(t, k)
<1> SUFFICES ASSUME t \in Tables(Entry), units \in Seq(AnyUnit), k \in 1..Len(units),
                    u \in Reached(t, k - 1)
             PROVE  Unit(u, units, k) \subseteq Reached(t, k)
  OBVIOUS
<1>1. k - 1 \in Nat /\ (k - 1) + 1 = k /\ \A n \in 0..k - 1 : n \in 0..k
  OBVIOUS
<1>2. u \in Reached(t, k)
  BY <1>1 DEF Reached
<1>3. ASSUME NEW i, Obeyable(i) PROVE Obey(u, i) \in Reached(t, k)
  <2>1. Obey(u, i) \in Reached(t, (k - 1) + 1)
    BY <1>1, <1>3, ObeyReaches
  <2> QED BY <1>1, <2>1
<1>4. CASE units[k][1] = "first"
  <2>1. units[k] \in AnyUnit
    OBVIOUS
  <2>2. Obeyable(units[k][2])
    BY <1>4, <2>1, UnitParts, InstructionsObeyable
  <2>3. Obey(u, units[k][2]) \in Reached(t, k)
    BY <1>3, <2>2
  <2> QED BY <1>2, <1>4, <2>3 DEF Unit
<1>5. CASE units[k][1] = "second"
  <2>1. \A i \in Lookalikes : Obey(u, i) \in Reached(t, k)
    BY <1>3, InstructionsObeyable
  <2> QED BY <1>2, <1>5, <2>1 DEF Unit
<1>6. CASE units[k][1] \notin {"first", "second"}
  <2>1. Obey(u, [op |-> "duplicate", idx |-> 2]) \in Reached(t, k)
    BY <1>3, InstructionsObeyable
  <2> QED BY <1>6, <2>1 DEF Unit
<1> QED BY <1>4, <1>5, <1>6

(* What each unit keeps, from W[k - 1] to W[k], holds at the end.          *)
LEMMA TablesThrough ==
  ASSUME NEW table, NEW units, NEW W, NEW n
  PROVE  /\ n = Len(units) /\ n \in Nat
         /\ table \in W[0]
         /\ \A k \in 1..n : \A a \in W[k - 1] : Unit(a, units, k) \subseteq W[k]
         => ParseEncoderInstructions(table, units) \subseteq W[n]
<1> SUFFICES ASSUME n = Len(units), n \in Nat, table \in W[0],
                    \A k \in 1..n : \A a \in W[k - 1] : Unit(a, units, k) \subseteq W[k]
             PROVE  ParseEncoderInstructions(table, units) \subseteq W[n]
  OBVIOUS
<1> DEFINE first == {table}
           F(h) == [k \in 0..n |-> IF k = 0 THEN first
                                   ELSE UNION {Unit(a, units, k) : a \in h[k - 1]}]
           R == [k \in 1..n |-> [a \in W[k - 1] |-> Unit(a, units, k)]]
           g == CHOOSE h : h = F(h)
<1>2. first \subseteq W[0] /\ \A k \in 1..n : \A a \in W[k - 1] : R[k][a] \subseteq W[k]
  OBVIOUS
<1>3. \E h : OutcomesOf(h, first, R, n) /\ \A k \in 0..n : h[k] \subseteq W[k]
  <2>1. n \in Nat /\ first \subseteq W[0]
        /\ \A k \in 1..n : \A a \in W[k - 1] : R[k][a] \subseteq W[k]
    BY <1>2
  <2> HIDE DEF R, first, F, g
  <2> QED BY ONLY <2>1, OutcomesExist, Zenon
<1>4. PICK h : OutcomesOf(h, first, R, n) /\ \A k \in 0..n : h[k] \subseteq W[k]
  BY <1>3, Zenon
<1>5. h = F(h)
  <2>1. ASSUME NEW k \in 0..n
        PROVE  (IF k = 0 THEN first ELSE UNION {R[k][a] : a \in h[k - 1]})
                 = IF k = 0 THEN first ELSE UNION {Unit(a, units, k) : a \in h[k - 1]}
    <3>1. CASE k = 0
      BY <3>1
    <3>2. CASE k # 0
      <4>1. k \in 1..n /\ k - 1 \in 0..n
        BY <3>2
      <4>2. h[k - 1] \subseteq W[k - 1]
        BY <1>4, <4>1
      <4>3. \A a \in h[k - 1] : R[k][a] = Unit(a, units, k)
        BY <4>1, <4>2
      <4> QED BY <3>2, <4>3
    <3> QED BY <3>1, <3>2
  <2>2. h = [k \in 0..n |-> IF k = 0 THEN first ELSE UNION {R[k][a] : a \in h[k - 1]}]
    BY <1>4 DEF OutcomesOf
  <2> HIDE DEF first, R
  <2>3. F(h) = [k \in 0..n |-> IF k = 0 THEN first ELSE UNION {R[k][a] : a \in h[k - 1]}]
    BY ONLY <2>1, Zenon
  <2> HIDE DEF F
  <2> QED BY ONLY <2>2, <2>3, Zenon
<1>6. g = F(g)
  <2> HIDE DEF F
  <2> QED BY <1>5, Zenon
<1>7. ParseEncoderInstructions(table, units) = g[n]
  BY DEF ParseEncoderInstructions
<1> HIDE DEF g
<1>8. /\ g[0] = first
      /\ \A k \in 1..n : g[k] = UNION {Unit(a, units, k) : a \in g[k - 1]}
  <2>1. 0 \in 0..n /\ \A k \in 1..n : k \in 0..n /\ k # 0
    OBVIOUS
  <2>2. \A k \in 0..n : g[k] = IF k = 0 THEN first
                               ELSE UNION {Unit(a, units, k) : a \in g[k - 1]}
    <3> HIDE DEF first
    <3> QED BY <1>6
  <2> HIDE DEF first
  <2> QED BY <2>1, <2>2
<1>9. n \in Nat /\ g[0] \subseteq W[0]
      /\ \A k \in 1..n : g[k - 1] \subseteq W[k - 1] => g[k] \subseteq W[k]
  <2> HIDE DEF F
  <2>1. ASSUME NEW k \in 1..n, g[k - 1] \subseteq W[k - 1] PROVE g[k] \subseteq W[k]
    <3>1. g[k] = UNION {Unit(a, units, k) : a \in g[k - 1]}
      BY <1>8
    <3> SUFFICES ASSUME NEW a \in g[k - 1] PROVE Unit(a, units, k) \subseteq W[k]
      BY <3>1
    <3>2. a \in W[k - 1]
      BY <2>1
    <3> QED BY <3>2
  <2> QED BY <1>2, <1>8, <2>1
<1>10. \A k \in 0..n : g[k] \subseteq W[k]
  <2> HIDE DEF F
  <2> QED BY ONLY <1>9, OutcomesStay, Zenon
<1>11. n \in 0..n
  OBVIOUS
<1> QED BY <1>7, <1>10, <1>11

(* A unit adds one entry at most, whatever it is taken for.                *)
LEMMA EncoderReaches ==
  ASSUME NEW t, NEW units
  PROVE  t \in Tables(Entry) /\ units \in Seq(AnyUnit) =>
           ParseEncoderInstructions(t, units) \subseteq Reached(t, Len(units))
<1> SUFFICES ASSUME t \in Tables(Entry), units \in Seq(AnyUnit)
             PROVE  ParseEncoderInstructions(t, units) \subseteq Reached(t, Len(units))
  OBVIOUS
<1> DEFINE W == [k \in Nat |-> Reached(t, k)]
           n == Len(units)
<1>1. n \in Nat
  OBVIOUS
<1>2. t \in W[0]
  <2>1. Adds(t, t, 0) /\ 0 \in 0..0
    BY AddsNone
  <2> QED BY <2>1 DEF Reached
<1>3. ASSUME NEW k \in 1..n, NEW a \in W[k - 1] PROVE Unit(a, units, k) \subseteq W[k]
  <2>1. k \in Nat /\ k - 1 \in Nat
    BY <1>1
  <2>2. W[k] = Reached(t, k) /\ a \in Reached(t, k - 1)
    BY <2>1
  <2>3. t \in Tables(Entry) /\ units \in Seq(AnyUnit) /\ k \in 1..Len(units) /\ a \in Reached(t, k - 1)
    BY <2>2
  <2>4. Unit(a, units, k) \subseteq Reached(t, k)
    BY ONLY <2>3, UnitReaches, Zenon
  <2> QED BY <2>2, <2>4
<1>4. W[n] = Reached(t, n)
  BY <1>1
<1>5. /\ n = Len(units) /\ n \in Nat /\ t \in W[0]
      /\ \A k \in 1..n : \A a \in W[k - 1] : Unit(a, units, k) \subseteq W[k]
  BY <1>1, <1>2, <1>3
<1> HIDE DEF W, n
<1>6. ParseEncoderInstructions(t, units) \subseteq W[n]
  BY ONLY <1>5, TablesThrough, Zenon
<1> QED BY <1>4, <1>6 DEF n

-----------------------------------------------------------------------------
(* The entries the encoder has inserted, each from those before it.        *)
LEMMA InsertedIs ==
  Len(Instructions) \in Nat /\ \A k \in 1..Len(Instructions) : Inserted[k] = InsertedBy(Inserted, k)
<1> DEFINE n == Len(Instructions)
           F(g) == [k \in 1..n |-> InsertedBy(g, k)]
           step == [k \in 1..n |-> [g \in [1..n -> Entry] |-> InsertedBy(g, k)]]
           names == {NoEntry[1]} \cup {j.name : j \in Additions}
           values == {j.value : j \in Additions}
<1>1. n \in Nat /\ \A k \in 1..n : Instructions[k] \in ToSet(Instructions)
  BY EncoderStreamIs DEF EncoderLaidOut
<1>2. Entry = {NoEntry} \cup (names \X values)
  BY DEF Entry
<1>3. ASSUME NEW k \in 1..n
      PROVE  LET i == Instructions[k]
             IN \/ i.op = "literal name"
                \/ i.op \in {"name reference", "duplicate"} /\ k - 1 - i.idx \in 1..k - 1
  <2> DEFINE i == Instructions[k]
             x == i.idx
  <2>1. k \in DOMAIN Instructions
    <3> DEFINE S == ToSet(Instructions)
    <3>1. Instructions \in Seq(S)
      BY InstructionsAssumption
    <3> HIDE DEF S
    <3>2. DOMAIN Instructions = 1..Len(Instructions)
      BY ONLY <3>1
    <3> QED BY <3>2
  <2>2. \/ i.op = "literal name"
        \/ i.op \in {"name reference", "duplicate"} /\ x \in Nat /\ x < k - 1
    BY <2>1, InstructionsAssumption
  <2> HIDE DEF x, i
  <2>3. x \in Nat /\ x < k - 1 => k - 1 - x \in 1..k - 1
    BY <1>1
  <2> QED BY <2>2, <2>3 DEF i, x
<1>4. ASSUME NEW k \in 1..n, NEW g \in [1..n -> Entry] PROVE InsertedBy(g, k) \in Entry
  <2> DEFINE i == Instructions[k]
             e == g[k - 1 - i.idx]
  <2>1. i \in Additions
    BY <1>1 DEF Additions
  <2>2. i.op = "literal name" => i.name \in names
    <3> HIDE DEF i
    <3> QED BY <2>1
  <2>3. i.value \in values
    BY <2>1
  <2> HIDE DEF names, values
  <2>4. CASE i.op = "literal name"
    <3>1. InsertedBy(g, k) = <<i.name, i.value>>
      BY <2>4 DEF InsertedBy
    <3>2. <<i.name, i.value>> \in names \X values
      BY <2>2, <2>3, <2>4
    <3> QED BY <1>2, <3>1, <3>2
  <2>5. CASE i.op \in {"name reference", "duplicate"} /\ k - 1 - i.idx \in 1..k - 1
    <3> DEFINE j == k - 1 - i.idx
    <3>1. j \in 1..k - 1
      BY <2>5
    <3> HIDE DEF j
    <3>2. j \in 1..n
      BY <1>1, <3>1
    <3>3. g[j] \in Entry
      BY <3>2
    <3>4. g[j][1] \in names
      BY <1>2, <3>3 DEF names
    <3>5. InsertedBy(g, k) = <<g[j][1], i.value>> \/ InsertedBy(g, k) = g[j]
      BY <2>5 DEF InsertedBy, j
    <3> QED BY <1>2, <2>3, <3>3, <3>4, <3>5
  <2> QED BY <1>3, <2>4, <2>5
<1>5. LooksBack(step, n, Entry)
  <2>1. step \in [1..n -> [[1..n -> Entry] -> Entry]]
    <3> DEFINE V == Entry
               M == [1..n -> V]
    <3> HIDE DEF V, M
    <3>1. \A k \in 1..n : \A g \in M : InsertedBy(g, k) \in V
      BY <1>4 DEF V, M
    <3>2. [k \in 1..n |-> [g \in M |-> InsertedBy(g, k)]] \in [1..n -> [M -> V]]
      BY <3>1
    <3> QED BY <3>2 DEF V, M
  <2>2. ASSUME NEW k \in 1..n, NEW g \in [1..n -> Entry], NEW h \in [1..n -> Entry],
               \A j \in 1..k - 1 : g[j] = h[j]
        PROVE  InsertedBy(g, k) = InsertedBy(h, k)
    <3>1. CASE Instructions[k].op = "literal name"
      BY <3>1 DEF InsertedBy
    <3>2. CASE /\ Instructions[k].op \in {"name reference", "duplicate"}
               /\ k - 1 - Instructions[k].idx \in 1..k - 1
      <4> DEFINE j == k - 1 - Instructions[k].idx
      <4>1. g[j] = h[j]
        BY <2>2, <3>2
      <4> HIDE DEF j
      <4>2. InsertedBy(g, k) = CASE Instructions[k].op = "literal name" ->
                                      <<Instructions[k].name, Instructions[k].value>>
                                 [] Instructions[k].op = "name reference" ->
                                      <<g[j][1], Instructions[k].value>>
                                 [] Instructions[k].op = "duplicate" -> g[j]
        BY DEF InsertedBy, j
      <4>3. InsertedBy(h, k) = CASE Instructions[k].op = "literal name" ->
                                      <<Instructions[k].name, Instructions[k].value>>
                                 [] Instructions[k].op = "name reference" ->
                                      <<h[j][1], Instructions[k].value>>
                                 [] Instructions[k].op = "duplicate" -> h[j]
        BY DEF InsertedBy, j
      <4> QED BY <4>1, <4>2, <4>3
    <3> QED BY <1>3, <3>1, <3>2
  <2>3. \A k \in 1..n : \A g, h \in [1..n -> Entry] :
          (\A j \in 1..k - 1 : g[j] = h[j]) => step[k][g] = step[k][h]
    BY <2>2
  <2> HIDE DEF step
  <2> QED BY <2>1, <2>3 DEF LooksBack
<1>6. Entry # {}
  BY <1>2
<1>7. PICK g : Solves(g, step, n, Entry)
  <2> HIDE DEF step, n
  <2>1. \E g : Solves(g, step, n, Entry)
    BY <1>1, <1>5, <1>6, EarlierValues
  <2> QED BY <2>1
<1>8. g = F(g)
  <2>1. g \in [1..n -> Entry] /\ \A k \in 1..n : g[k] = step[k][g]
    BY <1>7 DEF Solves
  <2>2. \A k \in 1..n : step[k][g] = InsertedBy(g, k)
    BY <2>1
  <2> HIDE DEF step, n
  <2> QED BY <2>1, <2>2
<1>9. Inserted = CHOOSE h : h = F(h)
  BY DEF Inserted
<1>10. Inserted = F(Inserted)
  <2> HIDE DEF F
  <2> QED BY <1>8, <1>9, Zenon
<1>11. \A k \in 1..n : Inserted[k] = InsertedBy(Inserted, k)
  <2> DEFINE I == Inserted
  <2>1. I = F(I)
    BY <1>10
  <2> HIDE DEF I, n
  <2>2. \A k \in 1..n : I[k] = InsertedBy(I, k)
    BY <2>1
  <2> QED BY <2>2 DEF I
<1> QED BY <1>1, <1>11

(* What refers to the table still does when there is less of it.           *)
LEMMA WithinBefore ==
  ASSUME NEW n, NEW m
  PROVE  n \in Nat /\ m \in Nat /\ n <= m /\ WithinTable(m) => WithinTable(n)
<1> SUFFICES ASSUME n \in Nat, m \in Nat, n <= m, WithinTable(m), NEW k \in DOMAIN Instructions, k <= n
             PROVE  k <= m
  BY DEF WithinTable
<1>1. k \in Nat
  <2> DEFINE S == ToSet(Instructions)
  <2>1. Instructions \in Seq(S)
    BY InstructionsAssumption
  <2> HIDE DEF S
  <2>2. DOMAIN Instructions = 1..Len(Instructions)
    BY ONLY <2>1
  <2> QED BY <2>2
<1> QED BY <1>1

(* The table has the last of the encoder's first k entries.                *)
HoldsFirst(t, k) ==
  /\ t \in Tables(Entry) /\ t.insert_count = k
  /\ t.count = IF k < TableSize THEN k ELSE TableSize
  /\ \A i \in 1..t.count : Contents(t)[i] = Inserted[k - t.count + i]

(* The table when the encoder stream has come as far as instruction k.  It *)
(* has fewer entries than the encoder for good once an instruction has     *)
(* been passed over; until it has passed that one, it has its first.       *)
AtTable(t, k) ==
  /\ t \in Tables(Entry)
  /\ WithinTable(k) => t.insert_count = k
  /\ ~WithinTable(k) => ~WithinTable(t.insert_count + 1)
  /\ WithinTable(t.insert_count) => HoldsFirst(t, t.insert_count)

LEMMA EmptyAtTable == EmptyTable \in Tables(Entry) /\ AtTable(EmptyTable, 0)
<1>1. TableSize \in Nat /\ TableSize > 0
  BY TableSizeAssumption
<1>2. NoEntry \in Entry
  BY DEF Entry
<1>3. EmptyTable \in Tables(Entry)
  BY <1>1, <1>2 DEF EmptyTable, Tables
<1>4. EmptyTable.count = 0 /\ EmptyTable.insert_count = 0 /\ 1..0 = {}
  BY DEF EmptyTable
<1>5. HoldsFirst(EmptyTable, 0)
  BY <1>1, <1>3, <1>4 DEF HoldsFirst
<1>6. WithinTable(0)
  <2> DEFINE S == ToSet(Instructions)
  <2>1. Instructions \in Seq(S)
    BY InstructionsAssumption
  <2> HIDE DEF S
  <2>2. DOMAIN Instructions = 1..Len(Instructions)
    BY ONLY <2>1
  <2>3. ASSUME NEW k \in DOMAIN Instructions PROVE ~(k <= 0)
    BY ONLY <2>2, <2>3
  <2> QED BY ONLY <2>3, Zenon DEF WithinTable
<1> QED BY <1>3, <1>4, <1>5, <1>6 DEF AtTable

(* The entry idx places before the last is the one the encoder means, as   *)
(* long as the client has it.                                              *)
LEMMA CountsBackAsMeant ==
  ASSUME NEW t, NEW k, NEW idx
  PROVE  k \in Nat /\ HoldsFirst(t, k) /\ idx \in Nat /\ idx < k =>
           GetDynamicEntry(t, idx) = IF idx < TableSize THEN {Inserted[k - idx]} ELSE {}
<1> SUFFICES ASSUME k \in Nat, HoldsFirst(t, k), idx \in Nat, idx < k
             PROVE  GetDynamicEntry(t, idx) = IF idx < TableSize THEN {Inserted[k - idx]} ELSE {}
  OBVIOUS
<1> DEFINE c == t.count
<1>1. t \in Tables(Entry) /\ c = (IF k < TableSize THEN k ELSE TableSize)
      /\ \A i \in 1..c : Contents(t)[i] = Inserted[k - c + i]
  BY DEF HoldsFirst
<1>2. GetDynamicEntry(t, idx) = IF idx < c THEN {Contents(t)[c - idx]} ELSE {}
  BY <1>1, GetCountsBack
<1>3. TableSize \in Nat /\ TableSize > 0
  BY TableSizeAssumption
<1> HIDE DEF c
<1>4. CASE idx < TableSize
  <2>1. idx < c /\ c - idx \in 1..c /\ k - c + (c - idx) = k - idx
    BY <1>1, <1>3, <1>4
  <2> QED BY <1>1, <1>2, <1>4, <2>1
<1>5. CASE ~(idx < TableSize)
  <2>1. ~(idx < c)
    BY <1>1, <1>3, <1>5
  <2> QED BY <1>2, <1>5, <2>1
<1> QED BY <1>4, <1>5

(* The next instruction, if it refers to nothing beyond the table, adds    *)
(* the next entry.                                                         *)
LEMMA NextHeld ==
  ASSUME NEW t, NEW k
  PROVE  k \in 0..Len(Instructions) - 1 /\ HoldsFirst(t, k) /\ WithinTable(k + 1) =>
           HoldsFirst(Obey(t, Instructions[k + 1]), k + 1)
<1> SUFFICES ASSUME k \in 0..Len(Instructions) - 1, HoldsFirst(t, k), WithinTable(k + 1)
             PROVE  HoldsFirst(Obey(t, Instructions[k + 1]), k + 1)
  OBVIOUS
<1> DEFINE i == Instructions[k + 1]
           e == Inserted[k + 1]
           u == Obey(t, i)
<1>1. Len(Instructions) \in Nat /\ e = InsertedBy(Inserted, k + 1) /\ k \in Nat
      /\ k + 1 \in 1..Len(Instructions)
  <2>1. k \in Nat /\ k + 1 \in 1..Len(Instructions)
    BY InsertedIs
  <2> QED BY <2>1, InsertedIs
<1>2. i \in ToSet(Instructions)
  BY <1>1, EncoderStreamIs DEF EncoderLaidOut
<1>3. Obeyable(i)
  BY <1>2, InstructionsObeyable
<1>4. t \in Tables(Entry) /\ t.insert_count = k
  BY DEF HoldsFirst
<1>5. i.op \in {"name reference", "duplicate"} =>
        GetDynamicEntry(t, i.idx) = {Inserted[(k + 1) - 1 - i.idx]}
  <2> SUFFICES ASSUME i.op \in {"name reference", "duplicate"}
               PROVE  GetDynamicEntry(t, i.idx) = {Inserted[(k + 1) - 1 - i.idx]}
    OBVIOUS
  <2> DEFINE x == i.idx
  <2>1. k + 1 \in DOMAIN Instructions
    <3> DEFINE S == ToSet(Instructions)
    <3>1. Instructions \in Seq(S)
      BY InstructionsAssumption
    <3> HIDE DEF S
    <3>2. DOMAIN Instructions = 1..Len(Instructions)
      BY ONLY <3>1
    <3> QED BY <1>1, <3>2
  <2>2. x \in Nat /\ x < (k + 1) - 1 /\ x < TableSize
    <3>1. x \in Nat /\ x < (k + 1) - 1
      BY <2>1, InstructionsAssumption
    <3>2. k + 1 <= k + 1
      BY ONLY <1>1
    <3> DEFINE o == i.op
    <3>3. o \in {"name reference", "duplicate"}
      OBVIOUS
    <3> HIDE DEF o
    <3>4. o # "literal name"
      BY ONLY <3>3
    <3>5. x < TableSize
      BY <2>1, <3>2, <3>4, Zenon DEF WithinTable, o
    <3> QED BY <3>1, <3>5
  <2> HIDE DEF x
  <2>3. x < k /\ (k + 1) - 1 - x = k - x
    BY ONLY <1>1, <2>2
  <2>4. k \in Nat /\ HoldsFirst(t, k) /\ x \in Nat /\ x < k
    BY <1>1, <2>2, <2>3
  <2>5. GetDynamicEntry(t, x) = IF x < TableSize THEN {Inserted[k - x]} ELSE {}
    BY ONLY <2>4, CountsBackAsMeant, Zenon
  <2> QED BY <2>2, <2>3, <2>5 DEF x
<1>6. Addition(t, i) = {e}
  <2>1. CASE i.op = "literal name"
    <3>1. e = <<i.name, i.value>>
      BY <1>1, <2>1 DEF InsertedBy
    <3> QED BY <2>1, <3>1 DEF Addition
  <2>2. CASE i.op = "name reference"
    <3> DEFINE f == Inserted[(k + 1) - 1 - i.idx]
    <3>1. e = <<f[1], i.value>>
      BY <1>1, <2>2 DEF InsertedBy
    <3>2. GetDynamicEntry(t, i.idx) = {f}
      BY <1>5, <2>2
    <3>3. Addition(t, i) = {<<x[1], i.value>> : x \in GetDynamicEntry(t, i.idx)}
      BY <2>2 DEF Addition
    <3> HIDE DEF f, e
    <3> QED BY <3>1, <3>2, <3>3
  <2>3. CASE i.op = "duplicate"
    <3>1. e = Inserted[(k + 1) - 1 - i.idx]
      BY <1>1, <2>3 DEF InsertedBy
    <3> QED BY <1>5, <2>3, <3>1 DEF Addition
  <2> QED BY <1>3, <2>1, <2>2, <2>3 DEF Obeyable
<1>7. e \in Entry
  <2>1. \E f \in Entry : Addition(t, i) = {f}
    BY <1>3, <1>4, <1>6, Adding
  <2> HIDE DEF e
  <2> QED BY <1>6, <2>1
<1>8. u = AddDynamicEntry(t, e) /\ u \in Tables(Entry)
  BY <1>3, <1>4, <1>6, <1>7, Obeying
<1> DEFINE gone == t.count + 1 - u.count
<1>9. /\ u.insert_count = t.insert_count + 1
      /\ u.count = IF t.count + 1 < TableSize THEN t.count + 1 ELSE TableSize
      /\ Contents(u)[u.count] = e
      /\ \A j \in gone + 1..t.count : Contents(u)[j - gone] = Contents(t)[j]
  <2> HIDE DEF e, u
  <2> QED BY <1>4, <1>7, <1>8, AddIsStep
<1> HIDE DEF u, e, i
<1> DEFINE c == t.count
           d == u.count
<1>10. TableSize \in Nat /\ TableSize > 0 /\ c \in 0..TableSize
  BY <1>4, TableSizeAssumption DEF Tables
<1>11. c = (IF k < TableSize THEN k ELSE TableSize)
       /\ \A j \in 1..c : Contents(t)[j] = Inserted[k - c + j]
  BY DEF HoldsFirst
<1>12. d = IF k + 1 < TableSize THEN k + 1 ELSE TableSize
  <2>1. d = IF c + 1 < TableSize THEN c + 1 ELSE TableSize
    BY <1>9
  <2> HIDE DEF c, d
  <2> QED BY <1>1, <1>10, <1>11, <2>1
<1>13. ASSUME NEW j \in 1..d PROVE Contents(u)[j] = Inserted[(k + 1) - d + j]
  <2>1. gone = c + 1 - d
    OBVIOUS
  <2> HIDE DEF gone, c, d
  <2>2. CASE j = d
    <3>1. (k + 1) - d + d = k + 1
      BY <1>1, <1>10, <1>12
    <3> QED BY <1>9, <2>2, <3>1 DEF d, e
  <2>3. CASE j # d
    <3>1. /\ j + gone \in gone + 1..c /\ (j + gone) - gone = j /\ j + gone \in 1..c
          /\ k - c + (j + gone) = (k + 1) - d + j
      BY <1>1, <1>10, <1>11, <1>12, <2>1, <2>3
    <3>2. Contents(u)[(j + gone) - gone] = Contents(t)[j + gone]
      BY <1>9, <3>1 DEF c
    <3>3. Contents(t)[j + gone] = Inserted[k - c + (j + gone)]
      BY <1>11, <3>1
    <3> QED BY <3>1, <3>2, <3>3
  <2> QED BY <2>2, <2>3
<1>14. u.insert_count = k + 1
  BY <1>4, <1>9
<1>15. HoldsFirst(u, k + 1)
  BY <1>8, <1>12, <1>13, <1>14 DEF HoldsFirst
<1> QED BY <1>15 DEF u, i

(* One that refers beyond the table is passed over, and from then on the   *)
(* client is behind.                                                       *)
LEMMA NextInserted ==
  ASSUME NEW t, NEW k
  PROVE  k \in 0..Len(Instructions) - 1 /\ AtTable(t, k) =>
           AtTable(Obey(t, Instructions[k + 1]), k + 1)
<1> SUFFICES ASSUME k \in 0..Len(Instructions) - 1, AtTable(t, k)
             PROVE  AtTable(Obey(t, Instructions[k + 1]), k + 1)
  OBVIOUS
<1> DEFINE i == Instructions[k + 1]
           u == Obey(t, i)
           c == t.insert_count
<1>1. k \in Nat /\ k + 1 \in Nat /\ k <= k + 1 /\ k + 1 \in 1..Len(Instructions)
  BY InsertedIs
<1>2. DOMAIN Instructions = 1..Len(Instructions)
  <2> DEFINE S == ToSet(Instructions)
  <2>1. Instructions \in Seq(S)
    BY InstructionsAssumption
  <2> HIDE DEF S
  <2> QED BY ONLY <2>1
<1>3. Obeyable(i)
  <2>1. i \in ToSet(Instructions)
    BY <1>1, EncoderStreamIs DEF EncoderLaidOut
  <2> QED BY <2>1, InstructionsObeyable
<1>4. t \in Tables(Entry) /\ c \in Nat
  BY DEF AtTable, Tables
<1>5. u \in Tables(Entry) /\ (u = t \/ Adds(t, u, 1))
  BY <1>3, <1>4, Obeying
<1> HIDE DEF u, c
<1>6. CASE WithinTable(k + 1)
  <2>1. WithinTable(k)
    BY ONLY <1>1, <1>6, WithinBefore, Zenon
  <2>2. HoldsFirst(t, k)
    BY <2>1 DEF AtTable
  <2>3. k \in 0..Len(Instructions) - 1 /\ HoldsFirst(t, k) /\ WithinTable(k + 1)
    BY <1>6, <2>2
  <2>4. HoldsFirst(u, k + 1)
    BY ONLY <2>3, NextHeld, Zenon DEF u, i
  <2>5. u.insert_count = k + 1
    BY <2>4 DEF HoldsFirst
  <2> QED BY <1>5, <1>6, <2>4, <2>5 DEF AtTable, u, i
<1>7. CASE ~WithinTable(k + 1) /\ WithinTable(k)
  <2>1. c = k /\ HoldsFirst(t, k)
    BY <1>7 DEF AtTable, c
  <2>2. \A n \in 1..Len(Instructions) : n <= k + 1 => n <= k \/ n = k + 1
    BY <1>1
  <2>3. i.op # "literal name" /\ ~(i.idx < TableSize)
    BY <1>2, <1>7, <2>2 DEF WithinTable, i
  <2>4. i.op \in {"name reference", "duplicate"} /\ i.idx \in Nat /\ i.idx < k
    <3> DEFINE x == i.idx
    <3>1. i.op \in {"name reference", "duplicate"} /\ x \in Nat /\ x < (k + 1) - 1
      BY <1>1, <1>2, <2>3, InstructionsAssumption
    <3> HIDE DEF x, i
    <3>2. (k + 1) - 1 = k
      BY <1>1
    <3> QED BY <3>1, <3>2 DEF x
  <2> DEFINE x == i.idx
  <2> HIDE DEF x
  <2>5. k \in Nat /\ HoldsFirst(t, k) /\ x \in Nat /\ x < k
    BY <1>1, <2>1, <2>4 DEF x
  <2>6. GetDynamicEntry(t, x) = IF x < TableSize THEN {Inserted[k - x]} ELSE {}
    BY ONLY <2>5, CountsBackAsMeant, Zenon
  <2>7. GetDynamicEntry(t, i.idx) = {}
    BY <2>3, <2>6 DEF x
  <2>8. Addition(t, i) = {}
    <3>1. CASE i.op = "name reference"
      BY <2>7, <3>1 DEF Addition
    <3>2. CASE i.op = "duplicate"
      BY <2>7, <3>2 DEF Addition
    <3> QED BY <2>4, <3>1, <3>2
  <2>9. u = t
    BY <2>8 DEF Obey, u
  <2>10. u.insert_count = k /\ HoldsFirst(u, k)
    BY <2>1, <2>9 DEF c
  <2> QED BY <1>5, <1>7, <2>10 DEF AtTable, u, i
<1>8. CASE ~WithinTable(k)
  <2>1. ~WithinTable(k + 1)
    BY ONLY <1>1, <1>8, WithinBefore, Zenon
  <2>2. ~WithinTable(c + 1)
    BY <1>8 DEF AtTable, c
  <2>3. CASE u = t
    <3>1. u.insert_count = c /\ (WithinTable(c) => HoldsFirst(u, c))
      BY <2>3 DEF AtTable, c
    <3> QED BY <1>5, <2>1, <2>2, <3>1 DEF AtTable, u, i
  <2>4. CASE Adds(t, u, 1)
    <3>1. u.insert_count = c + 1
      BY <2>4 DEF Adds, c
    <3>2. ~WithinTable((c + 1) + 1)
      <4>1. c + 1 \in Nat /\ (c + 1) + 1 \in Nat /\ c + 1 <= (c + 1) + 1
        BY <1>4
      <4> DEFINE a == c + 1
                 b == (c + 1) + 1
      <4>2. a \in Nat /\ b \in Nat /\ a <= b /\ ~WithinTable(a)
        BY <2>2, <4>1
      <4> HIDE DEF a, b
      <4>3. ~WithinTable(b)
        BY ONLY <4>2, WithinBefore, Zenon
      <4> QED BY <4>3 DEF b
    <3> QED BY <1>5, <2>1, <2>2, <3>1, <3>2 DEF AtTable, u, i
  <2> QED BY <1>5, <2>3, <2>4
<1> QED BY <1>6, <1>7, <1>8

(* The encoder stream in order: where it has come as far as instruction k, *)
(* and the data of the frame as far as instruction m, the table has the    *)
(* entries of these.                                                       *)
LEMMA EncoderFollows ==
  ASSUME NEW t, NEW k, NEW m, NEW data
  PROVE  /\ m \in 0..Len(Instructions) /\ k \in 0..m /\ AtTable(t, k)
         /\ data = Slice(EncoderUnits, 1 + 2 * k, 1 + 2 * m)
         => \A u \in ParseEncoderInstructions(t, data) : AtTable(u, m)
<1> SUFFICES ASSUME m \in 0..Len(Instructions), k \in 0..m, AtTable(t, k),
                    data = Slice(EncoderUnits, 1 + 2 * k, 1 + 2 * m)
             PROVE  \A u \in ParseEncoderInstructions(t, data) : AtTable(u, m)
  OBVIOUS
<1> DEFINE l == Len(Instructions)
           n == Len(data)
           W == [x \in Nat |-> {u \in Tables(Entry) :
                                  \E j \in Nat : (x = 2 * j \/ x + 1 = 2 * j) /\ AtTable(u, k + j)}]
<1>1. l \in Nat /\ Len(EncoderUnits) = 1 + 2 * l /\ EncoderUnits \in Seq(AnyUnit)
      /\ \A j \in 1..l : PairAt(EncoderUnits, j, Instructions[j])
  BY EncoderStreamIs DEF EncoderLaidOut
<1>2. k \in Nat /\ m \in Nat /\ k <= m /\ m <= l
  BY <1>1
<1>3. n = 2 * (m - k) /\ data \in Seq(AnyUnit)
      /\ \A i \in 1..n : data[i] = EncoderUnits[(1 + 2 * k) + i]
  <2> DEFINE b == 1 + 2 * k
             e == 1 + 2 * m
  <2>1. b \in 0..e /\ e \in 0..1 + 2 * l /\ e - b = 2 * (m - k)
    BY <1>1, <1>2
  <2> HIDE DEF b, e, l
  <2>2. EncoderUnits \in Seq(AnyUnit) /\ e \in 0..Len(EncoderUnits) /\ b \in 0..e
    BY <1>1, <2>1
  <2>3. IsSlice(AnyUnit, EncoderUnits, b, e, Slice(EncoderUnits, b, e))
    BY ONLY <2>2, SliceIs, Zenon
  <2> QED BY <2>1, <2>3 DEF IsSlice, b, e
<1> HIDE DEF n, l
<1>4. n \in Nat
  BY <1>2, <1>3
<1>5. t \in W[0]
  <2>1. 0 \in Nat /\ 0 = 2 * 0 /\ k + 0 = k /\ t \in Tables(Entry)
    BY <1>2 DEF AtTable
  <2> QED BY <2>1
<1>6. ASSUME NEW y \in 1..n, NEW a \in W[y - 1] PROVE Unit(a, data, y) \subseteq W[y]
  <2>1. y \in Nat /\ y - 1 \in Nat
    BY <1>4
  <2>2. PICK j \in Nat : (y - 1 = 2 * j \/ (y - 1) + 1 = 2 * j) /\ AtTable(a, k + j)
    BY <2>1
  <2>3. data[y] = EncoderUnits[(1 + 2 * k) + y]
    BY <1>3
  <2>4. CASE y - 1 = 2 * j
    <3> DEFINE q == k + j
    <3>1. /\ (1 + 2 * k) + y = 2 * (q + 1) /\ q \in 0..l - 1 /\ y < n /\ q + 1 \in 1..l
          /\ y + 1 = 2 * (j + 1) /\ k + (j + 1) = q + 1 /\ j + 1 \in Nat
      BY <1>1, <1>2, <1>3, <2>1, <2>4
    <3> HIDE DEF q
    <3>2. data[y] = <<"first", Instructions[q + 1]>>
      BY <1>1, <2>3, <3>1 DEF PairAt
    <3>3. Unit(a, data, y) = {Obey(a, Instructions[q + 1])}
      <4> DEFINE i == Instructions[q + 1]
                 x == data[y]
      <4>1. x[1] = "first" /\ x[2] = i
        BY <3>2
      <4> HIDE DEF i, x
      <4>2. Unit(a, data, y) = {IF y < Len(data) THEN Obey(a, x[2]) ELSE a}
        BY <4>1 DEF Unit, x
      <4>3. y < Len(data)
        BY <3>1 DEF n
      <4> QED BY <4>1, <4>2, <4>3 DEF i
    <3>4. q \in 0..Len(Instructions) - 1 /\ AtTable(a, q)
      BY <2>2, <3>1 DEF q, l
    <3>5. AtTable(Obey(a, Instructions[q + 1]), q + 1)
      BY ONLY <3>4, NextInserted, Zenon
    <3>6. Obey(a, Instructions[q + 1]) \in Tables(Entry)
      BY <3>5 DEF AtTable
    <3> DEFINE u == Obey(a, Instructions[q + 1])
    <3> HIDE DEF u
    <3>7. u \in W[y]
      <4>1. u \in Tables(Entry) /\ AtTable(u, k + (j + 1)) /\ j + 1 \in Nat /\ y + 1 = 2 * (j + 1)
        BY <3>1, <3>5, <3>6 DEF u
      <4> QED BY <2>1, <4>1
    <3> QED BY <3>3, <3>7 DEF u
  <2>5. CASE y = 2 * j
    <3> DEFINE q == k + j
    <3>1. (1 + 2 * k) + y = 2 * q + 1 /\ q \in 1..l /\ y # 1
      BY <1>1, <1>2, <1>3, <2>1, <2>5
    <3> HIDE DEF q
    <3>2. data[y] = <<"second", Instructions[q]>>
      BY <1>1, <2>3, <3>1 DEF PairAt
    <3>3. Unit(a, data, y) = {a}
      <4> DEFINE x == data[y]
      <4>1. x[1] = "second"
        BY <3>2
      <4> HIDE DEF x
      <4>2. Unit(a, data, y) = {a} \cup (IF y = 1 THEN {Obey(a, i) : i \in Lookalikes} ELSE {})
        BY <4>1 DEF Unit, x
      <4> QED BY <3>1, <4>2
    <3>4. a \in W[y]
      <4>1. a \in Tables(Entry)
        BY <2>2 DEF AtTable
      <4> QED BY <2>1, <2>2, <2>5, <4>1
    <3> QED BY <3>3, <3>4
  <2>6. (y - 1) + 1 = y
    BY <2>1
  <2> QED BY <2>2, <2>4, <2>5, <2>6
<1>7. ASSUME NEW u \in W[n] PROVE AtTable(u, m)
  <2>1. PICK j \in Nat : (n = 2 * j \/ n + 1 = 2 * j) /\ AtTable(u, k + j)
    BY <1>4
  <2>2. k + j = m
    <3>1. n = 2 * (m - k) /\ (n = 2 * j \/ n + 1 = 2 * j) /\ k \in Nat /\ m \in Nat /\ j \in Nat
      BY <1>2, <1>3, <2>1
    <3> QED BY ONLY <3>1
  <2> QED BY <2>1, <2>2
<1>8. /\ n = Len(data) /\ n \in Nat /\ t \in W[0]
      /\ \A y \in 1..n : \A a \in W[y - 1] : Unit(a, data, y) \subseteq W[y]
  <2> HIDE DEF W
  <2> QED BY <1>4, <1>5, <1>6 DEF n
<1> HIDE DEF W
<1>9. ParseEncoderInstructions(t, data) \subseteq W[n]
  BY ONLY <1>8, TablesThrough, Zenon
<1> QED BY <1>7, <1>9

-----------------------------------------------------------------------------
(* What the client has come to.                                            *)

(* What the server has to say.                                             *)
Said(u, l) ==
  /\ l \in Loads /\ DOMAIN u = StreamsOf(l) /\ u[EncoderStream] = EncoderUnits
  /\ \A sid \in DOMAIN u : u[sid] \in Seq(AnyUnit) /\ Headed(u[sid])
  /\ \E B : Framed(u[0], B)

(* What the client keeps.                                                  *)
ConnOK(c) ==
  /\ c \in [streams : Seq(StreamRecords), table : Tables(Entry), rx_data : Nat, max_rx_data : Nat,
            is_closed : BOOLEAN, next_sid : Nat]
  /\ Len(c.streams) \in 1..MaxStreams /\ c.streams[1].stream_id = 0
  /\ \A i, j \in 1..Len(c.streams) : c.streams[i].stream_id = c.streams[j].stream_id => i = j

(* A stream has met with none of these mishaps.                            *)
Spared(m, sid) == \A x \in m : x[2] # sid

(* Stream 0 as far as it is parsed: the loop is where the server's framing *)
(* is, and what is in the body so far has been delivered or is in rx_buf;  *)
(* the end is known when there is no more.                                 *)
FollowsBody(u, s, closed, d) ==
  /\ \E B : Framed(u, B) /\ InFrame(u, B, s.parsed, s.state, s.rem)
  /\ d \o s.rx = BodyUpTo(u, s.parsed)
  /\ s.fin \/ closed => s.parsed = Len(u)

ResponseFollowed(u, c, m, d) ==
  Spared(m, 0) => FollowsBody(u, c.streams[1], c.is_closed, d)

(* The encoder stream as far as it is parsed.                              *)
EncoderAt(c, k) ==
  /\ k \in 0..Len(Instructions) /\ AtTable(c.table, k)
  /\ \A i \in Slots(c.streams, EncoderStream) :
       \/ c.streams[i].type = "unread" /\ c.streams[i].parsed = 0 /\ k = 0
       \/ c.streams[i].type = "encoder" /\ c.streams[i].parsed = 1 + 2 * k
  /\ Slots(c.streams, EncoderStream) = {} => k = 0

EncoderFollowed(c, m) == Spared(m, EncoderStream) => \E k : EncoderAt(c, k)

(* The fields that are decoded.                                            *)
AsMeant(f) ==
  f.seen = f.base /\ WithinTable(f.base) =>
    f.got = IF f.meant < TableSize THEN {Inserted[f.base - f.meant]} ELSE {}
FieldsFollowed(fs, m) == Spared(m, EncoderStream) => \A f \in fs : AsMeant(f)

(* Only the encoder stream is unidirectional.                              *)
LEMMA StreamIds ==
  ASSUME NEW u, NEW l, Said(u, l)
  PROVE  /\ 0 \in DOMAIN u /\ EncoderStream \in DOMAIN u
         /\ \A sid \in DOMAIN u : sid \in Nat /\ (Unidirectional(sid) <=> sid = EncoderStream)
<1>1. DOMAIN u = {4 * k : k \in 0..l.requests - 1} \cup {EncoderStream} /\ l.requests \in Nat \ {0}
  BY LoadsAssumption DEF Said, StreamsOf
<1>2. ASSUME NEW k \in Nat PROVE ((4 * k) \div 2) % 2 = 0 /\ 4 * k \in Nat /\ 4 * k # 7
  BY Z3
<1>3. (7 \div 2) % 2 = 1
  BY Z3
<1>4. 0 \in 0..l.requests - 1 /\ 4 * 0 = 0
  BY <1>1
<1>5. ASSUME NEW sid \in DOMAIN u
      PROVE  sid \in Nat /\ (Unidirectional(sid) <=> sid = EncoderStream)
  <2>1. CASE sid = EncoderStream
    BY <1>3, <2>1 DEF EncoderStream, Unidirectional
  <2>2. ASSUME NEW k \in 0..l.requests - 1, sid = 4 * k
        PROVE  sid \in Nat /\ ~Unidirectional(sid) /\ sid # EncoderStream
    <3>1. k \in Nat
      BY <1>1
    <3> QED BY <1>2, <2>2, <3>1 DEF EncoderStream, Unidirectional
  <2> QED BY <1>1, <2>1, <2>2
<1>6. 0 \in DOMAIN u
  BY <1>1, <1>4
<1> QED BY <1>1, <1>5, <1>6

(* More mishaps.                                                           *)
LEMMA SparedBefore ==
  ASSUME NEW m, NEW x, NEW sid, Spared(m \cup x, sid)
  PROVE  Spared(m, sid)
  BY DEF Spared

-----------------------------------------------------------------------------
(* The slot of a stream.                                                   *)
LEMMA NewStreamTyped ==
  ASSUME NEW sid \in Nat
  PROVE  NewStream(sid) \in StreamRecords
<1>1. StreamWindow \in Nat /\ RxSize > 0 /\ HdrSize > 0
  BY SizesAssumption
<1>2. <<>> \in Seq(AnyUnit) /\ Len(<<>>) = 0
  OBVIOUS
<1> QED BY <1>1, <1>2 DEF NewStream, StreamRecords

(* One more, at the end.                                                   *)
LEMMA FindFinds ==
  ASSUME NEW c, NEW sid, ConnOK(c), sid \in Nat
  PROVE  LET s == Find(c.streams, sid)
         IN /\ s \in Seq(StreamRecords) /\ Len(s) \in 1..MaxStreams
            /\ Len(s) \in {Len(c.streams), Len(c.streams) + 1}
            /\ \A i \in 1..Len(c.streams) : s[i] = c.streams[i]
            /\ \A i \in 1..Len(s) : i > Len(c.streams) => s[i] = NewStream(sid) /\ Slots(c.streams, sid) = {}
<1> DEFINE n == Len(c.streams)
           s == Find(c.streams, sid)
<1>1. c.streams \in Seq(StreamRecords) /\ n \in 1..MaxStreams /\ MaxStreams \in Nat /\ n \in Nat
  BY SizesAssumption DEF ConnOK
<1>2. CASE Slots(c.streams, sid) # {} \/ n = MaxStreams
  <2>1. s = c.streams
    BY <1>2 DEF Find
  <2> HIDE DEF s
  <2>2. \A i \in 1..n : ~(i > n)
    BY <1>1
  <2> QED BY <1>1, <2>1, <2>2 DEF s
<1>3. CASE ~(Slots(c.streams, sid) # {} \/ n = MaxStreams)
  <2> DEFINE x == NewStream(sid)
             f == c.streams
  <2>1. s = Append(f, x) /\ x \in StreamRecords
    BY <1>3, NewStreamTyped DEF Find
  <2> HIDE DEF s, x
  <2>2. f \in Seq(StreamRecords) /\ x \in StreamRecords
    BY <1>1, <2>1
  <2> HIDE DEF f
  <2>3. Append(f, x) \in Seq(StreamRecords) /\ Len(Append(f, x)) = Len(f) + 1
        /\ \A i \in 1..Len(f) + 1 : Append(f, x)[i] = IF i <= Len(f) THEN f[i] ELSE x
    BY <2>2, AppendProperties
  <2>4. n + 1 \in 1..MaxStreams /\ n = Len(f) /\ \A i \in 1..n : i \in 1..n + 1 /\ i <= n
    BY <1>1, <1>3 DEF f
  <2>5. \A i \in 1..n + 1 : i > n => ~(i <= n)
    BY <1>1
  <2>6. Slots(f, sid) = {}
    BY <1>3 DEF f
  <2>7. /\ s \in Seq(StreamRecords) /\ Len(s) = n + 1
        /\ \A i \in 1..n : s[i] = f[i]
        /\ \A i \in 1..n + 1 : i > n => s[i] = x
    BY <2>1, <2>3, <2>4, <2>5
  <2> HIDE DEF n
  <2>8. Len(s) \in {n, n + 1} /\ Len(s) \in 1..MaxStreams
    BY <2>4, <2>7
  <2> QED BY <2>6, <2>7, <2>8 DEF s, x, f, n
<1> QED BY <1>2, <1>3

LEMMA SlotsAre ==
  ASSUME NEW s, s \in Seq(StreamRecords), NEW sid
  PROVE  Slots(s, sid) = {i \in 1..Len(s) : s[i].stream_id = sid}
<1>1. DOMAIN s = 1..Len(s)
  OBVIOUS
<1> QED BY <1>1 DEF Slots

(* quic_find_stream disturbs nothing.                                      *)
FoundFrom(c, e) ==
  /\ ConnOK(e)
  /\ e.streams[1] = c.streams[1] /\ e.table = c.table /\ e.is_closed = c.is_closed
  /\ e.rx_data = c.rx_data /\ e.max_rx_data = c.max_rx_data /\ e.next_sid = c.next_sid
  /\ \A k : EncoderAt(c, k) => EncoderAt(e, k)

LEMMA FindKeeps ==
  ASSUME NEW c, NEW sid, ConnOK(c), sid \in Nat
  PROVE  FoundFrom(c, [c EXCEPT !.streams = Find(@, sid)])
<1> DEFINE n == Len(c.streams)
           s == Find(c.streams, sid)
           e == [c EXCEPT !.streams = Find(@, sid)]
<1>1. /\ s \in Seq(StreamRecords) /\ Len(s) \in 1..MaxStreams
      /\ Len(s) \in {n, n + 1}
      /\ \A i \in 1..n : s[i] = c.streams[i]
      /\ \A i \in 1..Len(s) : i > n => s[i] = NewStream(sid) /\ Slots(c.streams, sid) = {}
  BY FindFinds
<1>2. /\ c.streams \in Seq(StreamRecords) /\ n \in 1..MaxStreams /\ MaxStreams \in Nat /\ n \in Nat
      /\ c.table \in Tables(Entry) /\ c.rx_data \in Nat /\ c.max_rx_data \in Nat
      /\ c.is_closed \in BOOLEAN /\ c.next_sid \in Nat
      /\ c = [streams |-> c.streams, table |-> c.table, rx_data |-> c.rx_data,
              max_rx_data |-> c.max_rx_data, is_closed |-> c.is_closed, next_sid |-> c.next_sid]
  BY SizesAssumption DEF ConnOK
<1>3. e = [streams |-> s, table |-> c.table, rx_data |-> c.rx_data, max_rx_data |-> c.max_rx_data,
           is_closed |-> c.is_closed, next_sid |-> c.next_sid]
  <2> HIDE DEF s
  <2>1. e = [c EXCEPT !.streams = s]
    BY DEF s
  <2> QED BY <1>2, <2>1
<1> HIDE DEF s, e, n
<1>4. \A i \in 1..Len(s) : i \in 1..n \/ i > n
  BY <1>1, <1>2
<1>5. /\ Slots(c.streams, sid) = {i \in 1..n : c.streams[i].stream_id = sid}
      /\ Slots(c.streams, EncoderStream) = {i \in 1..n : c.streams[i].stream_id = EncoderStream}
      /\ Slots(s, EncoderStream) = {i \in 1..Len(s) : s[i].stream_id = EncoderStream}
  BY <1>1, <1>2, SlotsAre DEF n
<1>6. NewStream(sid).stream_id = sid /\ NewStream(sid).type = "unread" /\ NewStream(sid).parsed = 0
  BY DEF NewStream
<1>7. ASSUME NEW i \in 1..Len(s), NEW j \in 1..Len(s), s[i].stream_id = s[j].stream_id PROVE i = j
  <2>1. CASE i \in 1..n /\ j \in 1..n
    BY <1>1, <1>7, <2>1 DEF ConnOK, n
  <2>2. CASE i \in 1..n /\ j > n
    <3>1. s[j].stream_id = sid /\ Slots(c.streams, sid) = {}
      BY <1>1, <1>6, <2>2
    <3>2. c.streams[i].stream_id = sid
      BY <1>1, <1>7, <2>2, <3>1
    <3> QED BY <1>5, <2>2, <3>1, <3>2
  <2>3. CASE i > n /\ j \in 1..n
    <3>1. s[i].stream_id = sid /\ Slots(c.streams, sid) = {}
      BY <1>1, <1>6, <2>3
    <3>2. c.streams[j].stream_id = sid
      BY <1>1, <1>7, <2>3, <3>1
    <3> QED BY <1>5, <2>3, <3>1, <3>2
  <2>4. CASE i > n /\ j > n
    <3> DEFINE l == Len(s)
    <3>1. l \in {n, n + 1} /\ i \in 1..l /\ j \in 1..l
      BY <1>1
    <3> HIDE DEF l
    <3> QED BY <1>2, <2>4, <3>1
  <2> QED BY <1>4, <2>1, <2>2, <2>3, <2>4
<1>8. 1 \in 1..n
  BY <1>2
<1>9. s[1] = c.streams[1] /\ c.streams[1].stream_id = 0
  BY <1>1, <1>8 DEF ConnOK
<1>10. ConnOK(e)
  <2>1. e.streams = s
    BY <1>3
  <2>2. e \in [streams : Seq(StreamRecords), table : Tables(Entry), rx_data : Nat, max_rx_data : Nat,
               is_closed : BOOLEAN, next_sid : Nat]
    BY <1>1, <1>2, <1>3
  <2> QED BY <1>1, <1>7, <1>9, <2>1, <2>2 DEF ConnOK
<1>11. ASSUME NEW k, EncoderAt(c, k) PROVE EncoderAt(e, k)
  <2>1. k \in 0..Len(Instructions) /\ AtTable(c.table, k)
        /\ (Slots(c.streams, EncoderStream) = {} => k = 0)
        /\ \A i \in Slots(c.streams, EncoderStream) :
             \/ c.streams[i].type = "unread" /\ c.streams[i].parsed = 0 /\ k = 0
             \/ c.streams[i].type = "encoder" /\ c.streams[i].parsed = 1 + 2 * k
    BY <1>11 DEF EncoderAt
  <2>2. ASSUME NEW i \in Slots(s, EncoderStream)
        PROVE  \/ s[i].type = "unread" /\ s[i].parsed = 0 /\ k = 0
               \/ s[i].type = "encoder" /\ s[i].parsed = 1 + 2 * k
    <3>1. i \in 1..Len(s) /\ s[i].stream_id = EncoderStream
      BY <1>5
    <3>2. CASE i \in 1..n
      <4>1. s[i] = c.streams[i] /\ i \in Slots(c.streams, EncoderStream)
        BY <1>1, <1>5, <3>1, <3>2
      <4> QED BY <2>1, <4>1
    <3>3. CASE i > n
      <4>1. s[i] = NewStream(sid) /\ Slots(c.streams, sid) = {} /\ sid = EncoderStream
        BY <1>1, <1>6, <3>1, <3>3
      <4> QED BY <1>6, <2>1, <4>1
    <3> QED BY <1>4, <3>1, <3>2, <3>3
  <2>3. ASSUME Slots(s, EncoderStream) = {} PROVE k = 0
    <3>1. ASSUME NEW i \in Slots(c.streams, EncoderStream) PROVE FALSE
      <4>1. i \in 1..n /\ c.streams[i].stream_id = EncoderStream
        BY <1>5
      <4>2. i \in 1..Len(s) /\ s[i] = c.streams[i]
        BY <1>1, <1>2, <4>1
      <4> QED BY <1>5, <2>3, <4>1, <4>2
    <3> QED BY <2>1, <3>1
  <2>4. e.streams = s /\ e.table = c.table
    BY <1>3
  <2> QED BY <2>1, <2>2, <2>3, <2>4 DEF EncoderAt
<1>12. FoundFrom(c, e)
  BY <1>3, <1>9, <1>10, <1>11 DEF FoundFrom
<1> QED BY <1>12 DEF e

(* Another content of a slot.                                              *)
Updated(c, e, i, s) ==
  /\ e \in [streams : Seq(StreamRecords), table : Tables(Entry), rx_data : Nat, max_rx_data : Nat,
            is_closed : BOOLEAN, next_sid : Nat]
  /\ e.streams = [c.streams EXCEPT ![i] = s]
  /\ i \in 1..Len(c.streams) /\ s \in StreamRecords /\ s.stream_id = c.streams[i].stream_id

LEMMA UpdateKeeps ==
  ASSUME NEW c, NEW e, NEW i, NEW s, ConnOK(c), Updated(c, e, i, s)
  PROVE  /\ ConnOK(e)
         /\ Len(e.streams) = Len(c.streams)
         /\ e.streams[i] = s
         /\ \A j \in 1..Len(c.streams) : j # i => e.streams[j] = c.streams[j]
         /\ \A sid : Slots(e.streams, sid) = Slots(c.streams, sid)
<1> DEFINE n == Len(c.streams)
           f == c.streams
           g == e.streams
<1>1. f \in Seq(StreamRecords) /\ n \in 1..MaxStreams /\ g = [f EXCEPT ![i] = s] /\ g \in Seq(StreamRecords)
      /\ i \in 1..n /\ s \in StreamRecords /\ s.stream_id = f[i].stream_id /\ f[1].stream_id = 0
      /\ \A a, b \in 1..n : f[a].stream_id = f[b].stream_id => a = b
  BY DEF ConnOK, Updated
<1>2. 1 \in 1..n
  BY <1>1, SizesAssumption
<1> HIDE DEF f, g
<1>3. n = Len(f) /\ DOMAIN f = 1..n
  BY <1>1 DEF f
<1>4. Len(g) = n /\ g[i] = s /\ \A j \in 1..n : j # i => g[j] = f[j]
  BY <1>1, <1>3
<1>5. \A j \in 1..n : g[j].stream_id = f[j].stream_id
  BY <1>1, <1>4
<1>6. \A a, b \in 1..n : g[a].stream_id = g[b].stream_id => a = b
  BY <1>1, <1>5
<1>7. g[1].stream_id = 0
  BY <1>1, <1>2, <1>5
<1>8. ConnOK(e)
  BY <1>1, <1>4, <1>6, <1>7 DEF ConnOK, Updated, g
<1>9. ASSUME NEW sid PROVE Slots(g, sid) = Slots(f, sid)
  <2>1. Slots(g, sid) = {j \in 1..n : g[j].stream_id = sid}
    <3>1. g \in Seq(StreamRecords) /\ Len(g) = n
      BY <1>1, <1>4
    <3>2. Slots(g, sid) = {j \in 1..Len(g) : g[j].stream_id = sid}
      BY ONLY <3>1, SlotsAre
    <3> QED BY <3>1, <3>2
  <2>2. Slots(f, sid) = {j \in 1..n : f[j].stream_id = sid}
    BY <1>1, <1>3, SlotsAre
  <2> QED BY <1>5, <2>1, <2>2
<1> QED BY <1>3, <1>4, <1>8, <1>9 DEF f, g

(* What quic_parse_frames may have come to within a packet, of what there  *)
(* was before it, ...                                                      *)
Outcome(a) ==
  a = [conn |-> a.conn, fields |-> a.fields, mishaps |-> a.mishaps, swallowed |-> a.swallowed]

PacketFollowed(a) ==
  /\ Outcome(a) /\ ConnOK(a.conn)
  /\ ResponseFollowed(content[0], a.conn, mishaps \cup a.mishaps, delivered)
  /\ EncoderFollowed(a.conn, mishaps \cup a.mishaps)
  /\ FieldsFollowed(a.fields, mishaps \cup a.mishaps)
  /\ a.conn.table \in Reached(conn.table, Len(EncoderUnits))

(* ... and before there was any STREAM frame.                              *)
NothingParsed(a) ==
  PacketFollowed(a) /\ a.conn.streams[1].rx = <<>> /\ a.conn.table = conn.table

(* Outcomes with one part changed.                                         *)
LEMMA WithMishaps ==
  ASSUME NEW a, NEW x
  PROVE  Outcome(a) =>
           [a EXCEPT !.mishaps = @ \cup x]
             = [conn |-> a.conn, fields |-> a.fields, mishaps |-> a.mishaps \cup x, swallowed |-> a.swallowed]
<1> DEFINE p == a.conn
           q == a.fields
           r == a.mishaps
           s == a.swallowed
<1> SUFFICES ASSUME Outcome(a)
             PROVE  [a EXCEPT !.mishaps = @ \cup x]
                      = [conn |-> p, fields |-> q, mishaps |-> r \cup x, swallowed |-> s]
  OBVIOUS
<1>1. a = [conn |-> p, fields |-> q, mishaps |-> r, swallowed |-> s]
  BY Zenon DEF Outcome
<1> HIDE DEF p, q, r, s
<1> QED BY ONLY <1>1

LEMMA WithConn ==
  ASSUME NEW a, NEW c, NEW x
  PROVE  Outcome(a) =>
           [a EXCEPT !.conn = c, !.mishaps = @ \cup x]
             = [conn |-> c, fields |-> a.fields, mishaps |-> a.mishaps \cup x, swallowed |-> a.swallowed]
<1> DEFINE p == a.conn
           q == a.fields
           r == a.mishaps
           s == a.swallowed
<1> SUFFICES ASSUME Outcome(a)
             PROVE  [a EXCEPT !.conn = c, !.mishaps = @ \cup x]
                      = [conn |-> c, fields |-> q, mishaps |-> r \cup x, swallowed |-> s]
  OBVIOUS
<1>1. a = [conn |-> p, fields |-> q, mishaps |-> r, swallowed |-> s]
  BY Zenon DEF Outcome
<1> HIDE DEF p, q, r, s
<1> DEFINE b == [a EXCEPT !.conn = c]
<1>2. b = [conn |-> c, fields |-> q, mishaps |-> r, swallowed |-> s]
  BY ONLY <1>1
<1>3. [a EXCEPT !.conn = c, !.mishaps = @ \cup x] = [b EXCEPT !.mishaps = @ \cup x]
  OBVIOUS
<1> HIDE DEF b
<1>4. [b EXCEPT !.mishaps = @ \cup x] = [conn |-> c, fields |-> q, mishaps |-> r \cup x, swallowed |-> s]
  BY ONLY <1>2
<1> QED BY ONLY <1>3, <1>4

LEMMA WithSwallowed ==
  ASSUME NEW a, NEW y
  PROVE  Outcome(a) =>
           [a EXCEPT !.swallowed = y]
             = [conn |-> a.conn, fields |-> a.fields, mishaps |-> a.mishaps, swallowed |-> y]
<1> DEFINE p == a.conn
           q == a.fields
           r == a.mishaps
           s == a.swallowed
<1> SUFFICES ASSUME Outcome(a)
             PROVE  [a EXCEPT !.swallowed = y] = [conn |-> p, fields |-> q, mishaps |-> r, swallowed |-> y]
  OBVIOUS
<1>1. a = [conn |-> p, fields |-> q, mishaps |-> r, swallowed |-> s]
  BY Zenon DEF Outcome
<1> HIDE DEF p, q, r, s
<1> QED BY ONLY <1>1

LEMMA WithClosed ==
  ASSUME NEW c, NEW y
  PROVE  ConnOK(c) =>
           [c EXCEPT !.is_closed = y]
             = [streams |-> c.streams, table |-> c.table, rx_data |-> c.rx_data,
                max_rx_data |-> c.max_rx_data, is_closed |-> y, next_sid |-> c.next_sid]
<1> DEFINE f == c.streams
           t == c.table
           r == c.rx_data
           m == c.max_rx_data
           b == c.is_closed
           n == c.next_sid
<1> SUFFICES ASSUME ConnOK(c)
             PROVE  [c EXCEPT !.is_closed = y]
                      = [streams |-> f, table |-> t, rx_data |-> r, max_rx_data |-> m, is_closed |-> y,
                         next_sid |-> n]
  OBVIOUS
<1>1. c = [streams |-> f, table |-> t, rx_data |-> r, max_rx_data |-> m, is_closed |-> b, next_sid |-> n]
  BY DEF ConnOK
<1> HIDE DEF f, t, r, m, b, n
<1> QED BY ONLY <1>1

(* What is followed stays followed when there are more mishaps.            *)
LEMMA LaterMishaps ==
  ASSUME NEW m, NEW x
  PROVE  /\ \A u, c, d : ResponseFollowed(u, c, m, d) => ResponseFollowed(u, c, m \cup x, d)
         /\ \A c : EncoderFollowed(c, m) => EncoderFollowed(c, m \cup x)
         /\ \A f : FieldsFollowed(f, m) => FieldsFollowed(f, m \cup x)
<1>1. \A sid : Spared(m \cup x, sid) => Spared(m, sid)
  BY DEF Spared
<1> QED BY <1>1 DEF ResponseFollowed, EncoderFollowed, FieldsFollowed

(* A mishap more, and nothing else.                                        *)
LEMMA MishapKeeps ==
  ASSUME NEW a, NEW x
  PROVE  PacketFollowed(a) => PacketFollowed([a EXCEPT !.mishaps = @ \cup x])
<1> SUFFICES ASSUME PacketFollowed(a) PROVE PacketFollowed([a EXCEPT !.mishaps = @ \cup x])
  OBVIOUS
<1> DEFINE m == mishaps \cup a.mishaps
           b == [a EXCEPT !.mishaps = @ \cup x]
<1>1. b = [conn |-> a.conn, fields |-> a.fields, mishaps |-> a.mishaps \cup x, swallowed |-> a.swallowed]
  <2>1. Outcome(a)
    BY DEF PacketFollowed
  <2> QED BY ONLY <2>1, WithMishaps, Zenon
<1> HIDE DEF b
<1>2. mishaps \cup b.mishaps = m \cup x /\ b.conn = a.conn /\ b.fields = a.fields /\ Outcome(b)
  BY <1>1 DEF Outcome
<1>3. /\ ResponseFollowed(content[0], a.conn, m, delivered)
      /\ EncoderFollowed(a.conn, m) /\ FieldsFollowed(a.fields, m)
  BY DEF PacketFollowed
<1> HIDE DEF m
<1>4. /\ ResponseFollowed(content[0], a.conn, m \cup x, delivered)
      /\ EncoderFollowed(a.conn, m \cup x) /\ FieldsFollowed(a.fields, m \cup x)
  BY ONLY <1>3, LaterMishaps, Zenon
<1>5. PacketFollowed(b)
  <2>1. ConnOK(a.conn) /\ a.conn.table \in Reached(conn.table, Len(EncoderUnits))
    BY DEF PacketFollowed
  <2> QED BY <1>2, <1>4, <2>1 DEF PacketFollowed
<1> QED BY <1>5 DEF b

(* A slot taken.                                                           *)
LEMMA FindKeepsPacket ==
  ASSUME NEW a, NEW sid
  PROVE  NothingParsed(a) /\ sid \in Nat => NothingParsed([a EXCEPT !.conn.streams = Find(@, sid)])
<1> SUFFICES ASSUME NothingParsed(a), sid \in Nat
             PROVE  NothingParsed([a EXCEPT !.conn.streams = Find(@, sid)])
  OBVIOUS
<1> DEFINE m == mishaps \cup a.mishaps
           e == [a.conn EXCEPT !.streams = Find(@, sid)]
           b == [a EXCEPT !.conn.streams = Find(@, sid)]
<1>1. b = [conn |-> e, fields |-> a.fields, mishaps |-> a.mishaps, swallowed |-> a.swallowed]
  <2>1. b = [a EXCEPT !.conn = e]
    OBVIOUS
  <2> HIDE DEF e, b
  <2> QED BY <2>1 DEF NothingParsed, PacketFollowed, Outcome
<1>2. FoundFrom(a.conn, e)
  <2>1. ConnOK(a.conn) /\ sid \in Nat
    BY DEF NothingParsed, PacketFollowed
  <2> QED BY <2>1, FindKeeps
<1> HIDE DEF b, e
<1>3. ConnOK(e) /\ e.streams[1] = a.conn.streams[1] /\ e.table = a.conn.table
      /\ e.is_closed = a.conn.is_closed /\ \A k : EncoderAt(a.conn, k) => EncoderAt(e, k)
  BY <1>2 DEF FoundFrom
<1>4. mishaps \cup b.mishaps = m /\ b.conn = e /\ b.fields = a.fields /\ Outcome(b)
  BY <1>1 DEF Outcome
<1>5. /\ ResponseFollowed(content[0], a.conn, m, delivered)
      /\ EncoderFollowed(a.conn, m) /\ FieldsFollowed(a.fields, m)
      /\ a.conn.table \in Reached(conn.table, Len(EncoderUnits))
      /\ a.conn.streams[1].rx = <<>> /\ a.conn.table = conn.table
  BY DEF NothingParsed, PacketFollowed
<1> HIDE DEF m
<1>6. ResponseFollowed(content[0], e, m, delivered)
  BY <1>3, <1>5 DEF ResponseFollowed
<1>7. EncoderFollowed(e, m)
  BY <1>3, <1>5 DEF EncoderFollowed
<1>8. NothingParsed(b)
  BY <1>3, <1>4, <1>5, <1>6, <1>7 DEF NothingParsed, PacketFollowed
<1> QED BY <1>8 DEF b

(* A NEW_CONNECTION_ID.                                                    *)
LEMMA MisparsedKeeps ==
  ASSUME NEW a
  PROVE  NothingParsed(a) => \A b \in Misparsed(a) : NothingParsed(b)
<1> SUFFICES ASSUME NothingParsed(a), NEW b \in Misparsed(a) PROVE NothingParsed(b)
  OBVIOUS
<1> DEFINE r == [a EXCEPT !.swallowed = TRUE]
<1>1. NothingParsed(r)
  <2>1. r = [conn |-> a.conn, fields |-> a.fields, mishaps |-> a.mishaps, swallowed |-> TRUE]
    <3>1. Outcome(a)
      BY DEF NothingParsed, PacketFollowed
    <3> QED BY ONLY <3>1, WithSwallowed, Zenon
  <2> HIDE DEF r
  <2> QED BY <2>1 DEF NothingParsed, PacketFollowed, Outcome
<1> HIDE DEF r
<1>2. \/ b = r
      \/ b = [r EXCEPT !.conn.streams = Find(@, Phantom)]
      \/ \E x : b = [r EXCEPT !.mishaps = @ \cup x]
  BY Zenon DEF Misparsed, r
<1>3. NothingParsed([r EXCEPT !.conn.streams = Find(@, Phantom)])
  <2>1. NothingParsed(r) /\ Phantom \in Nat
    BY <1>1 DEF Phantom
  <2> QED BY ONLY <2>1, FindKeepsPacket, Zenon
<1>4. ASSUME NEW x PROVE NothingParsed([r EXCEPT !.mishaps = @ \cup x])
  <2> DEFINE e == [r EXCEPT !.mishaps = @ \cup x]
  <2>1. PacketFollowed(r)
    BY <1>1 DEF NothingParsed
  <2>2. PacketFollowed(e)
    BY ONLY <2>1, MishapKeeps, Zenon
  <2>3. e.conn = r.conn
    BY <2>1 DEF PacketFollowed, Outcome
  <2> HIDE DEF e
  <2>4. NothingParsed(e)
    BY <1>1, <2>2, <2>3 DEF NothingParsed
  <2> QED BY <2>4 DEF e
<1> QED BY <1>1, <1>2, <1>3, <1>4, Zenon

(* A CONNECTION_CLOSE: where it comes before all of stream 0 has been      *)
(* parsed, that is a mishap.                                               *)
LEMMA CloseFollowed ==
  ASSUME NEW a, NEW l
  PROVE  /\ NothingParsed(a) /\ Said(content, l)
         => PacketFollowed([a EXCEPT !.conn.is_closed = TRUE, !.mishaps = @ \cup CutOff(a.conn)])
<1> SUFFICES ASSUME NothingParsed(a), Said(content, l)
             PROVE  PacketFollowed([a EXCEPT !.conn.is_closed = TRUE, !.mishaps = @ \cup CutOff(a.conn)])
  OBVIOUS
<1> DEFINE x == CutOff(a.conn)
           m == mishaps \cup a.mishaps
           c == a.conn
           e == [c EXCEPT !.is_closed = TRUE]
           u == content[0]
           b == [a EXCEPT !.conn.is_closed = TRUE, !.mishaps = @ \cup x]
<1>1. b = [conn |-> e, fields |-> a.fields, mishaps |-> a.mishaps \cup x, swallowed |-> a.swallowed]
  <2>1. b = [a EXCEPT !.conn = e, !.mishaps = @ \cup x]
    OBVIOUS
  <2>2. Outcome(a)
    BY DEF NothingParsed, PacketFollowed
  <2> HIDE DEF e, b, x
  <2>3. [a EXCEPT !.conn = e, !.mishaps = @ \cup x]
           = [conn |-> e, fields |-> a.fields, mishaps |-> a.mishaps \cup x, swallowed |-> a.swallowed]
    BY ONLY <2>2, WithConn, Zenon
  <2> QED BY <2>1, <2>3
<1>2. ConnOK(c) /\ c.streams \in Seq(StreamRecords) /\ 1 \in 1..Len(c.streams)
      /\ c.streams[1].stream_id = 0
  <2>1. ConnOK(c)
    BY DEF NothingParsed, PacketFollowed
  <2> QED BY <2>1, SizesAssumption DEF ConnOK
<1>3. e = [streams |-> c.streams, table |-> c.table, rx_data |-> c.rx_data, max_rx_data |-> c.max_rx_data,
           is_closed |-> TRUE, next_sid |-> c.next_sid]
  <2>1. ConnOK(c)
    BY <1>2
  <2> HIDE DEF c
  <2> QED BY ONLY <2>1, WithClosed, Zenon DEF e
<1> HIDE DEF e, b, c
<1>4. ConnOK(e)
  BY <1>2, <1>3 DEF ConnOK
<1>5. /\ ResponseFollowed(u, c, m, delivered)
      /\ EncoderFollowed(c, m) /\ FieldsFollowed(a.fields, m)
      /\ c.table \in Reached(conn.table, Len(EncoderUnits))
  BY DEF NothingParsed, PacketFollowed, c
<1> HIDE DEF m, u
<1>6. EncoderFollowed(e, m)
  BY <1>3, <1>5 DEF EncoderFollowed, EncoderAt
<1>7. ASSUME Spared(m \cup x, 0) PROVE FollowsBody(u, e.streams[1], TRUE, delivered)
  <2>1. Spared(m, 0) /\ <<"cut off", 0>> \notin x
    <3> DEFINE w == <<"cut off", 0>>
    <3>1. w[2] = 0
      OBVIOUS
    <3> HIDE DEF w, x
    <3>2. Spared(m, 0) /\ w \notin x
      BY <1>7, <3>1 DEF Spared
    <3> QED BY <3>2 DEF w
  <2>2. FollowsBody(u, c.streams[1], c.is_closed, delivered)
    BY <1>5, <2>1 DEF ResponseFollowed
  <2>3. 0 \in DOMAIN content
    BY StreamIds
  <2>4. PICK i \in Slots(c.streams, 0) : ~(c.streams[i].parsed < Len(u))
    BY <2>1, <2>3 DEF CutOff, u, c
  <2>5. i = 1
    <3>1. i \in 1..Len(c.streams) /\ c.streams[i].stream_id = 0
      BY <1>2, SlotsAre
    <3> QED BY <1>2, <3>1 DEF ConnOK
  <2>6. PICK B : Framed(u, B) /\ InFrame(u, B, c.streams[1].parsed, c.streams[1].state, c.streams[1].rem)
    BY <2>2 DEF FollowsBody
  <2>7. c.streams[1].parsed = Len(u)
    <3> DEFINE p == c.streams[1].parsed
               n == Len(u)
    <3>1. p \in 0..n /\ ~(p < n) /\ n \in Nat
      <4>1. u \in Seq(AnyUnit)
        BY <2>3 DEF Said, u
      <4> QED BY <2>4, <2>5, <2>6, <4>1 DEF InFrame
    <3> HIDE DEF p, n
    <3>2. p = n
      BY <3>1
    <3> QED BY <3>2 DEF p, n
  <2>8. e.streams[1] = c.streams[1]
    BY <1>3
  <2> QED BY <2>2, <2>7, <2>8 DEF FollowsBody
<1>8. ResponseFollowed(u, e, m \cup x, delivered)
  <2>1. e.is_closed = TRUE
    BY <1>3
  <2> QED BY <1>7, <2>1 DEF ResponseFollowed
<1>9. EncoderFollowed(e, m \cup x) /\ FieldsFollowed(a.fields, m \cup x)
  BY ONLY <1>5, <1>6, LaterMishaps, Zenon
<1>10. mishaps \cup b.mishaps = m \cup x /\ b.conn = e /\ b.fields = a.fields /\ Outcome(b)
  BY <1>1 DEF Outcome, m
<1>11. PacketFollowed(b)
  <2>1. e.table = c.table
    BY <1>3
  <2> QED BY <1>4, <1>5, <1>8, <1>9, <1>10, <2>1 DEF PacketFollowed, u
<1> QED BY <1>11 DEF b

(* The records a STREAM frame leaves behind, part by part.                 *)
ConnOf(g, t, r, m, b, n) ==
  [streams |-> g, table |-> t, rx_data |-> r, max_rx_data |-> m, is_closed |-> b, next_sid |-> n]

Stored(g, i, x) == [g EXCEPT ![i] = x]

OutcomeOf(c, q, y, z) == [conn |-> c, fields |-> q, mishaps |-> y, swallowed |-> z]

Overwritten(a, i, x, r, m, y) ==
  [a EXCEPT !.conn.streams[i] = x, !.conn.rx_data = r, !.conn.max_rx_data = m, !.mishaps = y]

LEMMA WithCounters ==
  ASSUME NEW a, NEW i, NEW x, NEW r, NEW m, NEW y
  PROVE  Outcome(a) /\ ConnOK(a.conn) =>
           Overwritten(a, i, x, r, m, y)
             = OutcomeOf(ConnOf(Stored(a.conn.streams, i, x), a.conn.table, r, m,
                                a.conn.is_closed, a.conn.next_sid),
                         a.fields, y, a.swallowed)
<1> DEFINE c == a.conn
           q == a.fields
           z == a.mishaps
           s == a.swallowed
           f == c.streams
           t == c.table
           cr == c.rx_data
           cm == c.max_rx_data
           cb == c.is_closed
           cn == c.next_sid
           g == [f EXCEPT ![i] = x]
           p1 == [a EXCEPT !.conn.streams[i] = x]
           p2 == [p1 EXCEPT !.conn.rx_data = r]
           p3 == [p2 EXCEPT !.conn.max_rx_data = m]
           p4 == [p3 EXCEPT !.mishaps = y]
<1> SUFFICES ASSUME Outcome(a), ConnOK(c)
             PROVE  Overwritten(a, i, x, r, m, y)
                      = OutcomeOf(ConnOf(g, t, r, m, cb, cn), q, y, s)
  BY DEF Stored
<1>1. a = [conn |-> c, fields |-> q, mishaps |-> z, swallowed |-> s]
  BY Zenon DEF Outcome
<1>2. c = [streams |-> f, table |-> t, rx_data |-> cr, max_rx_data |-> cm, is_closed |-> cb, next_sid |-> cn]
  BY DEF ConnOK
<1>3. Overwritten(a, i, x, r, m, y) = p4
  BY DEF Overwritten
<1> HIDE DEF c, q, z, s
<1> HIDE DEF f, t, cr, cm, cb, cn
<1>4. p1 = [conn |-> [streams |-> g, table |-> t, rx_data |-> cr, max_rx_data |-> cm, is_closed |-> cb,
                      next_sid |-> cn], fields |-> q, mishaps |-> z, swallowed |-> s]
  BY ONLY <1>1, <1>2
<1> HIDE DEF g, p1
<1>5. p2 = [conn |-> [streams |-> g, table |-> t, rx_data |-> r, max_rx_data |-> cm, is_closed |-> cb,
                      next_sid |-> cn], fields |-> q, mishaps |-> z, swallowed |-> s]
  BY ONLY <1>4
<1> HIDE DEF p2
<1>6. p3 = [conn |-> [streams |-> g, table |-> t, rx_data |-> r, max_rx_data |-> m, is_closed |-> cb,
                      next_sid |-> cn], fields |-> q, mishaps |-> z, swallowed |-> s]
  BY ONLY <1>5
<1> HIDE DEF p3
<1>7. p4 = [conn |-> [streams |-> g, table |-> t, rx_data |-> r, max_rx_data |-> m, is_closed |-> cb,
                      next_sid |-> cn], fields |-> q, mishaps |-> y, swallowed |-> s]
  BY ONLY <1>6
<1> HIDE DEF p4
<1> QED BY ONLY <1>3, <1>7 DEF ConnOf, OutcomeOf

ParsedInto(a, i, x, w) == [a EXCEPT !.conn.streams[i] = x, !.fields = @ \cup w]

LEMMA WithParse ==
  ASSUME NEW g, NEW t, NEW r, NEW m, NEW b, NEW n, NEW q, NEW y, NEW z, NEW i, NEW x, NEW w
  PROVE  ParsedInto(OutcomeOf(ConnOf(g, t, r, m, b, n), q, y, z), i, x, w)
           = OutcomeOf(ConnOf(Stored(g, i, x), t, r, m, b, n), q \cup w, y, z)
<1> DEFINE h == [g EXCEPT ![i] = x]
           a == OutcomeOf(ConnOf(g, t, r, m, b, n), q, y, z)
           p == [a EXCEPT !.conn.streams[i] = x]
<1> SUFFICES ParsedInto(a, i, x, w)
               = OutcomeOf(ConnOf(h, t, r, m, b, n), q \cup w, y, z)
  BY DEF Stored
<1>1. p = [conn |-> [streams |-> h, table |-> t, rx_data |-> r, max_rx_data |-> m, is_closed |-> b,
                     next_sid |-> n], fields |-> q, mishaps |-> y, swallowed |-> z]
  BY DEF ConnOf, OutcomeOf
<1>2. ParsedInto(a, i, x, w) = [p EXCEPT !.fields = @ \cup w]
  BY DEF ParsedInto
<1> HIDE DEF p, h
<1>3. [p EXCEPT !.fields = @ \cup w]
        = [conn |-> [streams |-> h, table |-> t, rx_data |-> r, max_rx_data |-> m, is_closed |-> b,
                     next_sid |-> n], fields |-> q \cup w, mishaps |-> y, swallowed |-> z]
  BY ONLY <1>1
<1> QED BY ONLY <1>2, <1>3 DEF ConnOf, OutcomeOf

TypedWith(a, i, x, w) == [a EXCEPT !.conn.streams[i].type = x, !.conn.table = w]

LEMMA WithTable ==
  ASSUME NEW g, NEW t, NEW r, NEW m, NEW b, NEW n, NEW q, NEW y, NEW z, NEW i, NEW x, NEW w
  PROVE  TypedWith(OutcomeOf(ConnOf(g, t, r, m, b, n), q, y, z), i, x, w)
           = OutcomeOf(ConnOf(Stored(g, i, [g[i] EXCEPT !.type = x]), w, r, m, b, n), q, y, z)
<1> DEFINE h == [g EXCEPT ![i].type = x]
           a == OutcomeOf(ConnOf(g, t, r, m, b, n), q, y, z)
           p == [a EXCEPT !.conn.streams[i].type = x]
<1> SUFFICES TypedWith(a, i, x, w)
               = OutcomeOf(ConnOf(h, w, r, m, b, n), q, y, z)
  BY DEF Stored
<1>1. p = [conn |-> [streams |-> h, table |-> t, rx_data |-> r, max_rx_data |-> m, is_closed |-> b,
                     next_sid |-> n], fields |-> q, mishaps |-> y, swallowed |-> z]
  BY DEF ConnOf, OutcomeOf
<1>2. TypedWith(a, i, x, w) = [p EXCEPT !.conn.table = w]
  BY DEF TypedWith
<1> HIDE DEF p, h
<1>3. [p EXCEPT !.conn.table = w]
        = [conn |-> [streams |-> h, table |-> w, rx_data |-> r, max_rx_data |-> m, is_closed |-> b,
                     next_sid |-> n], fields |-> q, mishaps |-> y, swallowed |-> z]
  BY ONLY <1>1
<1> QED BY ONLY <1>2, <1>3 DEF ConnOf, OutcomeOf

(* A STREAM frame of the server's.                                         *)
StreamFrameOK(u, f) ==
  /\ f.type = "STREAM" /\ f.sid \in DOMAIN u /\ f.fin \in BOOLEAN
  /\ LET n == Len(f.units)
     IN /\ f.off \in Nat /\ n \in Nat /\ f.off + n \in 0..Len(u[f.sid]) /\ n < RxSize
        /\ f.units = Slice(u[f.sid], f.off, f.off + n)
        /\ f.fin => f.off + n = Len(u[f.sid]) /\ f.sid # EncoderStream
        /\ f.sid = EncoderStream => n > 0

(* A field line that was written for the table as it is.                   *)
LEMMA DecodedAsMeant ==
  ASSUME NEW t, NEW k
  PROVE  AtTable(t, k) => \A f \in DecodedBy(t) : AsMeant(f)
<1> SUFFICES ASSUME AtTable(t, k), NEW line \in FieldLines PROVE AsMeant(DecodeField(t, line))
  BY DEF DecodedBy
<1> DEFINE base == line.base
           idx == line.idx
           seen == t.insert_count
           f == DecodeField(t, line)
<1>1. base \in Nat /\ idx \in Nat /\ idx < base
  BY DEF FieldLines
<1>2. WithinTable(seen) => HoldsFirst(t, seen)
  BY DEF AtTable
<1>3. f = [meant |-> idx, got |-> GetDynamicEntry(t, idx), base |-> base, seen |-> seen]
  BY DEF DecodeField
<1> HIDE DEF base, idx, seen, f
<1>4. f.meant = idx /\ f.got = GetDynamicEntry(t, idx) /\ f.base = base /\ f.seen = seen
  BY <1>3
<1>5. ASSUME seen = base, WithinTable(base)
      PROVE  f.got = IF idx < TableSize THEN {Inserted[base - idx]} ELSE {}
  <2>1. base \in Nat /\ HoldsFirst(t, base) /\ idx \in Nat /\ idx < base
    BY <1>1, <1>2, <1>5
  <2>2. GetDynamicEntry(t, idx) = IF idx < TableSize THEN {Inserted[base - idx]} ELSE {}
    BY ONLY <2>1, CountsBackAsMeant, Zenon
  <2> QED BY <1>4, <2>2
<1> QED BY <1>4, <1>5 DEF AsMeant, f

SlotAs(s, a, b, c, d) == [s EXCEPT !.fin = a, !.parsed = b, !.rx_data = c, !.max_rx_data = d]

SlotOf(s, a, b, c, d) ==
  [stream_id |-> s.stream_id, state |-> s.state, rem |-> s.rem, hdr |-> s.hdr, rx |-> s.rx,
   fin |-> a, type |-> s.type, rx_data |-> c, max_rx_data |-> d, parsed |-> b]

LEMMA SlotWith ==
  ASSUME NEW s, NEW a, NEW b, NEW c, NEW d
  PROVE  s \in StreamRecords =>
           SlotAs(s, a, b, c, d) = SlotOf(s, a, b, c, d)
<1> DEFINE s1 == s.stream_id
           s2 == s.state
           s3 == s.rem
           s4 == s.hdr
           s5 == s.rx
           s6 == s.fin
           s7 == s.type
           s8 == s.rx_data
           s9 == s.max_rx_data
           s10 == s.parsed
           p1 == [s EXCEPT !.fin = a]
           p2 == [p1 EXCEPT !.parsed = b]
           p3 == [p2 EXCEPT !.rx_data = c]
           p4 == [p3 EXCEPT !.max_rx_data = d]
<1> SUFFICES ASSUME s \in StreamRecords
             PROVE  SlotAs(s, a, b, c, d)
                      = [stream_id |-> s1, state |-> s2, rem |-> s3, hdr |-> s4, rx |-> s5,
                         fin |-> a, type |-> s7, rx_data |-> c, max_rx_data |-> d, parsed |-> b]
  BY DEF SlotOf
<1>1. s = [stream_id |-> s1, state |-> s2, rem |-> s3, hdr |-> s4, rx |-> s5,
           fin |-> s6, type |-> s7, rx_data |-> s8, max_rx_data |-> s9, parsed |-> s10]
  BY DEF StreamRecords
<1>2. SlotAs(s, a, b, c, d) = p4
  BY DEF SlotAs
<1> HIDE DEF s1, s2, s3, s4, s5, s6, s7, s8, s9, s10
<1>3. p1 = [stream_id |-> s1, state |-> s2, rem |-> s3, hdr |-> s4, rx |-> s5,
            fin |-> a, type |-> s7, rx_data |-> s8, max_rx_data |-> s9, parsed |-> s10]
  BY ONLY <1>1
<1> HIDE DEF p1
<1>4. p2 = [stream_id |-> s1, state |-> s2, rem |-> s3, hdr |-> s4, rx |-> s5,
            fin |-> a, type |-> s7, rx_data |-> s8, max_rx_data |-> s9, parsed |-> b]
  BY ONLY <1>3
<1> HIDE DEF p2
<1>5. p3 = [stream_id |-> s1, state |-> s2, rem |-> s3, hdr |-> s4, rx |-> s5,
            fin |-> a, type |-> s7, rx_data |-> c, max_rx_data |-> s9, parsed |-> b]
  BY ONLY <1>4
<1> HIDE DEF p3
<1>6. p4 = [stream_id |-> s1, state |-> s2, rem |-> s3, hdr |-> s4, rx |-> s5,
            fin |-> a, type |-> s7, rx_data |-> c, max_rx_data |-> d, parsed |-> b]
  BY ONLY <1>5
<1> QED BY <1>2, <1>6

(* What quic_parse_frames counts before it looks at the data.              *)
Counted(s, f) ==
  [s EXCEPT !.fin = @ \/ f.fin, !.parsed = @ + Len(f.units), !.rx_data = @ + Len(f.units),
            !.max_rx_data = Raised(@, s.rx_data + Len(f.units))]

LEMMA CountedIs ==
  ASSUME NEW s, NEW f
  PROVE  s \in StreamRecords /\ f.fin \in BOOLEAN /\ Len(f.units) \in Nat =>
           /\ Counted(s, f) \in StreamRecords
           /\ Counted(s, f).stream_id = s.stream_id /\ Counted(s, f).state = s.state
           /\ Counted(s, f).rem = s.rem /\ Counted(s, f).rx = s.rx /\ Counted(s, f).type = s.type
           /\ Counted(s, f).parsed = s.parsed + Len(f.units)
           /\ Counted(s, f).fin = (s.fin \/ f.fin)
<1> SUFFICES ASSUME s \in StreamRecords, f.fin \in BOOLEAN, Len(f.units) \in Nat
             PROVE  /\ Counted(s, f) \in StreamRecords
                    /\ Counted(s, f).stream_id = s.stream_id /\ Counted(s, f).state = s.state
                    /\ Counted(s, f).rem = s.rem /\ Counted(s, f).rx = s.rx /\ Counted(s, f).type = s.type
                    /\ Counted(s, f).parsed = s.parsed + Len(f.units)
                    /\ Counted(s, f).fin = (s.fin \/ f.fin)
  OBVIOUS
<1> DEFINE n == Len(f.units)
           a == (s.fin \/ f.fin)
           b == s.parsed + n
           c == s.rx_data + n
           d == Raised(s.max_rx_data, s.rx_data + n)
           x == Counted(s, f)
<1>1. a \in BOOLEAN
  BY Zenon
<1>2. b \in Nat /\ c \in Nat /\ d \in Nat
  <2>1. s.parsed \in Nat /\ s.rx_data \in Nat /\ s.max_rx_data \in Nat /\ n \in Nat
    BY DEF StreamRecords
  <2> QED BY ONLY <2>1 DEF Raised
<1>3. x = SlotAs(s, a, b, c, d)
  BY Zenon DEF Counted, SlotAs
<1>4. s \in StreamRecords
  OBVIOUS
<1> HIDE DEF a, b, c, d, x
<1>5. x = [stream_id |-> s.stream_id, state |-> s.state, rem |-> s.rem, hdr |-> s.hdr, rx |-> s.rx,
           fin |-> a, type |-> s.type, rx_data |-> c, max_rx_data |-> d, parsed |-> b]
  <2>1. SlotAs(s, a, b, c, d) = SlotOf(s, a, b, c, d)
    BY ONLY <1>4, SlotWith, Zenon
  <2> QED BY ONLY <1>3, <2>1, Zenon DEF SlotOf
<1>6. x \in StreamRecords /\ x.stream_id = s.stream_id /\ x.state = s.state
      /\ x.rem = s.rem /\ x.rx = s.rx /\ x.type = s.type /\ x.parsed = b /\ x.fin = a
  BY <1>1, <1>2, <1>4, <1>5 DEF StreamRecords
<1> QED BY <1>6, Zenon DEF x, a, b

(* All of it: the counters of the connection, and the mishaps.             *)
Noted(a, i, f) ==
  LET s == a.conn.streams[i]
      n == Len(f.units)
  IN OutcomeOf(ConnOf(Stored(a.conn.streams, i, Counted(s, f)), a.conn.table, a.conn.rx_data + n,
                      Raised(a.conn.max_rx_data, a.conn.rx_data + n), a.conn.is_closed, a.conn.next_sid),
               a.fields, a.mishaps \cup Mishaps(f, s), a.swallowed)

LEMMA NotedIs ==
  ASSUME NEW a, NEW i, NEW f
  PROVE  Outcome(a) /\ ConnOK(a.conn) =>
           StreamFrame(a, i, f) = IF Unidirectional(f.sid) THEN EncoderData(Noted(a, i, f), i, f.units)
                                  ELSE ResponseData(Noted(a, i, f), i, f.units)
<1> SUFFICES ASSUME Outcome(a), ConnOK(a.conn)
             PROVE  StreamFrame(a, i, f) = IF Unidirectional(f.sid) THEN EncoderData(Noted(a, i, f), i, f.units)
                                  ELSE ResponseData(Noted(a, i, f), i, f.units)
  OBVIOUS
<1> DEFINE n == Len(f.units)
           s == a.conn.streams[i]
           x == Counted(s, f)
           r == a.conn.rx_data + n
           m == Raised(a.conn.max_rx_data, a.conn.rx_data + n)
           y == a.mishaps \cup Mishaps(f, s)
           w == Overwritten(a, i, x, r, m, y)
<1>1. StreamFrame(a, i, f) = IF Unidirectional(f.sid) THEN EncoderData(w, i, f.units)
                             ELSE ResponseData(w, i, f.units)
  BY Zenon DEF StreamFrame, Counted, Overwritten
<1>2. w = Noted(a, i, f)
  <2>1. Outcome(a) /\ ConnOK(a.conn)
    OBVIOUS
  <2> HIDE DEF x, r, m, y, w
  <2>2. w = OutcomeOf(ConnOf(Stored(a.conn.streams, i, x), a.conn.table, r, m,
                             a.conn.is_closed, a.conn.next_sid), a.fields, y, a.swallowed)
    <3>1. Overwritten(a, i, x, r, m, y) = OutcomeOf(ConnOf(Stored(a.conn.streams, i, x), a.conn.table, r, m,
                             a.conn.is_closed, a.conn.next_sid), a.fields, y, a.swallowed)
      BY ONLY <2>1, WithCounters, Zenon
    <3>2. w = Overwritten(a, i, x, r, m, y)
      BY DEF w
    <3> QED BY ONLY <3>1, <3>2
  <2> QED BY ONLY <2>2, Zenon DEF Noted, x, r, m, y, s, n
<1> QED BY <1>1, <1>2, Zenon

(* Where a slot is stored, the rest of the connection stays.               *)
LEMMA StoredIn ==
  ASSUME NEW c, NEW i, NEW s, NEW t, NEW r, NEW m
  PROVE  /\ ConnOK(c) /\ i \in 1..Len(c.streams) /\ s \in StreamRecords
         /\ s.stream_id = c.streams[i].stream_id /\ t \in Tables(Entry) /\ r \in Nat /\ m \in Nat
         => Updated(c, ConnOf(Stored(c.streams, i, s), t, r, m, c.is_closed, c.next_sid), i, s)
<1> SUFFICES ASSUME ConnOK(c), i \in 1..Len(c.streams), s \in StreamRecords,
                    s.stream_id = c.streams[i].stream_id, t \in Tables(Entry), r \in Nat, m \in Nat
             PROVE  Updated(c, ConnOf(Stored(c.streams, i, s), t, r, m, c.is_closed, c.next_sid), i, s)
  OBVIOUS
<1> DEFINE f == c.streams
           g == Stored(f, i, s)
           b == c.is_closed
           n == c.next_sid
           T == Tables(Entry)
<1>1. f \in Seq(StreamRecords) /\ b \in BOOLEAN /\ n \in Nat /\ t \in T
  BY DEF ConnOK
<1>2. g \in Seq(StreamRecords) /\ g = [f EXCEPT ![i] = s]
  <2> DEFINE S == StreamRecords
  <2>1. f \in Seq(S) /\ i \in 1..Len(f) /\ s \in S
    BY <1>1
  <2> HIDE DEF f, S
  <2>2. [f EXCEPT ![i] = s] \in Seq(S)
    BY ONLY <2>1
  <2> QED BY <2>2 DEF Stored, S
<1> HIDE DEF f, g, b, n, T
<1>3. ConnOf(g, t, r, m, b, n) \in [streams : Seq(StreamRecords), table : T, rx_data : Nat,
                                    max_rx_data : Nat, is_closed : BOOLEAN, next_sid : Nat]
  BY <1>1, <1>2 DEF ConnOf
<1>4. ConnOf(g, t, r, m, b, n).streams = g
  BY DEF ConnOf
<1> QED BY <1>2, <1>3, <1>4 DEF Updated, f, g, b, n, T

(* A frame that came with no mishap to its stream is the next.             *)
LEMMA InPlace ==
  ASSUME NEW m, NEW f, NEW s, Spared(m \cup Mishaps(f, s), f.sid)
  PROVE  Spared(m, f.sid) /\ f.off = s.parsed /\ ~Tears(f.units)
<1> DEFINE x == <<"misplaced", f.sid>>
           y == <<"torn", f.sid>>
<1>1. x[2] = f.sid /\ y[2] = f.sid
  OBVIOUS
<1>2. Mishaps(f, s) = (IF f.off # s.parsed THEN {x} ELSE {}) \cup (IF Tears(f.units) THEN {y} ELSE {})
  BY DEF Mishaps
<1> HIDE DEF x, y
<1> QED BY <1>1, <1>2 DEF Spared

LEMMA FrameInOrder ==
  ASSUME NEW u, NEW f, NEW B, NEW l
  PROVE  Said(u, l) /\ StreamFrameOK(u, f) /\ ~Tears(f.units) /\ Framed(u[f.sid], B) =>
           InOrder(u[f.sid], B, f.off, Len(f.units), f.units) /\ Readable(f.units)
<1> SUFFICES ASSUME Said(u, l), StreamFrameOK(u, f), ~Tears(f.units), Framed(u[f.sid], B)
             PROVE  InOrder(u[f.sid], B, f.off, Len(f.units), f.units) /\ Readable(f.units)
  OBVIOUS
<1> DEFINE v == u[f.sid]
           b == f.off
           n == Len(f.units)
           e == b + n
           x == f.units
<1>1. /\ v \in Seq(AnyUnit) /\ Headed(v) /\ Len(v) \in Nat /\ b \in Nat /\ n \in Nat /\ e \in 0..Len(v)
      /\ n < RxSize /\ x = Slice(v, b, e)
  BY DEF Said, StreamFrameOK
<1>2. v \in Seq(AnyUnit) /\ Headed(v) /\ e \in 0..Len(v) /\ b \in 0..e
  <2> HIDE DEF v, b, n
  <2> QED BY <1>1
<1>3. e - b = n
  <2> HIDE DEF b, n
  <2> QED BY <1>1
<1> HIDE DEF v, b, n, e, x
<1>4. Readable(Slice(v, b, e))
  BY ONLY <1>2, PartsReadable, Zenon
<1>5. IsSlice(AnyUnit, v, b, e, Slice(v, b, e))
  BY ONLY <1>2, SliceIs, Zenon
<1>6. x \in Seq(AnyUnit) /\ Len(x) = n /\ \A i \in 1..n : x[i] = v[b + i]
  BY <1>1, <1>3, <1>5 DEF IsSlice
<1>7. ASSUME n > 0 PROVE v[b + n][1] # "type"
  <2>1. n \in 1..n /\ x # <<>>
    BY <1>1, <1>6, <1>7
  <2>2. Last(x) = v[b + n]
    BY <1>6, <2>1 DEF Last
  <2>3. Last(x)[1] \notin {"type", "first"}
    BY <2>1 DEF Tears, x
  <2> QED BY <2>2, <2>3
<1>8. InOrder(v, B, b, n, x)
  BY <1>1, <1>2, <1>7 DEF InOrder, v, e
<1> QED BY <1>1, <1>4, <1>8 DEF v, b, n, x

(* Any frame of the server can be read.                                    *)
LEMMA FrameReadable ==
  ASSUME NEW u, NEW f, NEW l
  PROVE  Said(u, l) /\ StreamFrameOK(u, f) => Readable(f.units)
<1> SUFFICES ASSUME Said(u, l), StreamFrameOK(u, f) PROVE Readable(f.units)
  OBVIOUS
<1> DEFINE v == u[f.sid]
           b == f.off
           n == Len(f.units)
           e == b + n
           x == f.units
<1>1. /\ v \in Seq(AnyUnit) /\ Headed(v) /\ Len(v) \in Nat /\ b \in Nat /\ n \in Nat /\ e \in 0..Len(v)
      /\ x = Slice(v, b, e)
  BY DEF Said, StreamFrameOK
<1>2. v \in Seq(AnyUnit) /\ Headed(v) /\ e \in 0..Len(v) /\ b \in 0..e
  <2> HIDE DEF v, b, n
  <2> QED BY <1>1
<1> HIDE DEF v, b, n, e, x
<1>3. Readable(Slice(v, b, e))
  BY ONLY <1>2, PartsReadable, Zenon
<1> QED BY <1>1, <1>3 DEF x

(* Stream 0, the data of a frame parsed.                                   *)
LEMMA BodyGrows ==
  ASSUME NEW u, NEW f, NEW l, NEW s, NEW m, NEW closed, NEW d, NEW t
  PROVE  /\ Said(u, l) /\ StreamFrameOK(u, f) /\ f.sid = 0
         /\ s \in StreamRecords /\ s.rx = <<>> /\ d \in Seq(AnyUnit) /\ t \in Tables(Entry)
         /\ Spared(m \cup Mishaps(f, s), 0)
         /\ (Spared(m, 0) => FollowsBody(u[0], s, closed, d))
         => \A a \in ParseHttp3(Counted(s, f), f.units, t) : FollowsBody(u[0], a.s, closed, d)
<1> DEFINE v == u[0]
           n == Len(f.units)
           x == Counted(s, f)
           b == s.parsed
<1> SUFFICES ASSUME Said(u, l), StreamFrameOK(u, f), f.sid = 0,
                    s \in StreamRecords, s.rx = <<>>, d \in Seq(AnyUnit), t \in Tables(Entry),
                    Spared(m \cup Mishaps(f, s), 0), Spared(m, 0) => FollowsBody(v, s, closed, d),
                    NEW a \in ParseHttp3(x, f.units, t)
             PROVE  FollowsBody(v, a.s, closed, d)
  OBVIOUS
<1>1. Spared(m, 0) /\ f.off = b /\ ~Tears(f.units)
  <2>1. Spared(m \cup Mishaps(f, s), f.sid)
    OBVIOUS
  <2>2. Spared(m, f.sid) /\ f.off = b /\ ~Tears(f.units)
    BY ONLY <2>1, InPlace
  <2> QED BY <2>2
<1>2. FollowsBody(v, s, closed, d)
  BY <1>1
<1>3. PICK B : Framed(v, B) /\ InFrame(v, B, b, s.state, s.rem)
  BY <1>2 DEF FollowsBody
<1>4. d \o s.rx = BodyUpTo(v, b) /\ (s.fin \/ closed => b = Len(v))
  BY <1>2, Zenon DEF FollowsBody
<1>5. d = BodyUpTo(v, b)
  <2>1. d \o <<>> = d
    OBVIOUS
  <2>2. d \o <<>> = BodyUpTo(v, b)
    BY <1>4
  <2> QED BY <2>1, <2>2
<1>6. InOrder(v, B, b, n, f.units) /\ Readable(f.units)
  <2>1. Said(u, l) /\ StreamFrameOK(u, f) /\ ~Tears(f.units) /\ Framed(u[f.sid], B)
    BY <1>1, <1>3
  <2>2. InOrder(u[f.sid], B, f.off, Len(f.units), f.units) /\ Readable(f.units)
    BY ONLY <2>1, FrameInOrder, Zenon
  <2> QED BY <1>1, <2>2
<1>7. f.fin \in BOOLEAN /\ Len(f.units) \in Nat /\ b + n \in 0..Len(v) /\ (f.fin => b + n = Len(v))
  BY <1>1 DEF StreamFrameOK
<1>8. /\ x \in StreamRecords /\ x.state = s.state
      /\ x.rem = s.rem /\ x.rx = s.rx /\ x.parsed = b + n /\ x.fin = (s.fin \/ f.fin)
  <2>1. s \in StreamRecords /\ f.fin \in BOOLEAN /\ Len(f.units) \in Nat
    BY <1>7
  <2> QED BY ONLY <2>1, CountedIs, Zenon
<1> HIDE DEF x, v, n, b
<1>9. a \in Followed(x, t, v, B, b, n, d)
  <2>1. /\ x \in StreamRecords /\ Readable(f.units) /\ t \in Tables(Entry)
        /\ InOrder(v, B, b, n, f.units) /\ d \in Seq(AnyUnit) /\ d = BodyUpTo(v, b)
        /\ x.rx = <<>> /\ InFrame(v, B, b, x.state, x.rem)
    BY <1>3, <1>5, <1>6, <1>8
  <2>2. ParseHttp3(x, f.units, t) \subseteq Followed(x, t, v, B, b, n, d)
    BY ONLY <2>1, ParseFollows, Zenon
  <2> QED BY <2>2
<1>10. a.s.parsed = b + n /\ a.s.fin = x.fin
       /\ InFrame(v, B, b + n, a.s.state, a.s.rem) /\ d \o a.s.rx = BodyUpTo(v, b + n)
  <2>1. a \in Parses(x, t, n) /\ InFrame(v, B, b + n, a.s.state, a.s.rem)
        /\ d \o a.s.rx = BodyUpTo(v, b + n)
    BY <1>9 DEF Followed
  <2> QED BY <1>8, <2>1 DEF Parses
<1>11. ASSUME a.s.fin \/ closed PROVE b + n = Len(v)
  <2>1. s.fin \/ closed \/ f.fin
    BY <1>8, <1>10, <1>11, Zenon
  <2>2. ASSUME b = Len(v) PROVE b + n = Len(v)
    <3>1. b \in Nat /\ n \in Nat /\ b + n \in 0..Len(v)
      BY <1>6, <1>7 DEF InOrder
    <3> DEFINE z == Len(v)
    <3> HIDE DEF z
    <3>2. b = z /\ b + n \in 0..z
      BY <2>2, <3>1 DEF z
    <3>3. b + n = z
      BY <3>1, <3>2
    <3> QED BY <3>3 DEF z
  <2> QED BY <1>4, <1>7, <2>1, <2>2, Zenon
<1>12. FollowsBody(v, a.s, closed, d)
  <2>1. \E C : Framed(v, C) /\ InFrame(v, C, a.s.parsed, a.s.state, a.s.rem)
    BY <1>3, <1>10
  <2>2. d \o a.s.rx = BodyUpTo(v, a.s.parsed)
    BY <1>10
  <2>3. a.s.fin \/ closed => a.s.parsed = Len(v)
    BY <1>10, <1>11
  <2> QED BY <2>1, <2>2, <2>3, Zenon DEF FollowsBody
<1> QED BY <1>12

LEMMA StoredTwice ==
  ASSUME NEW g, NEW i, NEW x, NEW z
  PROVE  i \in DOMAIN g => Stored(g, i, x)[i] = x /\ Stored(Stored(g, i, x), i, z) = Stored(g, i, z)
  BY DEF Stored

LEMMA OutcomeParts ==
  ASSUME NEW c, NEW q, NEW y, NEW z, NEW g, NEW t, NEW r, NEW m, NEW b, NEW n
  PROVE  /\ OutcomeOf(c, q, y, z).conn = c /\ OutcomeOf(c, q, y, z).fields = q
         /\ OutcomeOf(c, q, y, z).mishaps = y /\ Outcome(OutcomeOf(c, q, y, z))
         /\ ConnOf(g, t, r, m, b, n).streams = g /\ ConnOf(g, t, r, m, b, n).table = t
         /\ ConnOf(g, t, r, m, b, n).is_closed = b
  BY DEF OutcomeOf, Outcome, ConnOf

(* The slot of a frame, before there was any other.                        *)
LEMMA SlotOfFrame ==
  ASSUME NEW a, NEW f, NEW i, NEW l
  PROVE  /\ NothingParsed(a) /\ Said(content, l) /\ StreamFrameOK(content, f)
         /\ i \in Slots(a.conn.streams, f.sid)
         => /\ Outcome(a) /\ ConnOK(a.conn) /\ i \in 1..Len(a.conn.streams) /\ i \in DOMAIN a.conn.streams
            /\ a.conn.streams[i] \in StreamRecords /\ a.conn.streams[i].stream_id = f.sid
            /\ a.conn.streams[1].stream_id = 0 /\ 1 \in 1..Len(a.conn.streams)
            /\ (i = 1 <=> f.sid = 0)
            /\ a.conn.table \in Tables(Entry) /\ a.conn.rx_data + Len(f.units) \in Nat
            /\ Raised(a.conn.max_rx_data, a.conn.rx_data + Len(f.units)) \in Nat
            /\ Len(f.units) \in Nat /\ f.fin \in BOOLEAN
<1> SUFFICES ASSUME NothingParsed(a), Said(content, l), StreamFrameOK(content, f),
                    i \in Slots(a.conn.streams, f.sid)
             PROVE  /\ Outcome(a) /\ ConnOK(a.conn) /\ i \in 1..Len(a.conn.streams) /\ i \in DOMAIN a.conn.streams
            /\ a.conn.streams[i] \in StreamRecords /\ a.conn.streams[i].stream_id = f.sid
            /\ a.conn.streams[1].stream_id = 0 /\ 1 \in 1..Len(a.conn.streams)
            /\ (i = 1 <=> f.sid = 0)
            /\ a.conn.table \in Tables(Entry) /\ a.conn.rx_data + Len(f.units) \in Nat
            /\ Raised(a.conn.max_rx_data, a.conn.rx_data + Len(f.units)) \in Nat
            /\ Len(f.units) \in Nat /\ f.fin \in BOOLEAN
  OBVIOUS
<1> DEFINE c == a.conn
           g == c.streams
           n == Len(f.units)
<1>1. Outcome(a) /\ ConnOK(c)
  BY DEF NothingParsed, PacketFollowed
<1>2. /\ g \in Seq(StreamRecords) /\ c.table \in Tables(Entry) /\ c.rx_data \in Nat /\ c.max_rx_data \in Nat
      /\ Len(g) \in 1..MaxStreams /\ g[1].stream_id = 0
      /\ \A j, k \in 1..Len(g) : g[j].stream_id = g[k].stream_id => j = k
  BY <1>1 DEF ConnOK
<1>3. n \in Nat /\ f.fin \in BOOLEAN
  BY DEF StreamFrameOK
<1>4. i \in 1..Len(g) /\ g[i].stream_id = f.sid
  BY <1>2, SlotsAre
<1> HIDE DEF c
<1>5. i \in DOMAIN g /\ g[i] \in StreamRecords /\ 1 \in 1..Len(g)
  <2> DEFINE S == StreamRecords
             h == g
             k == MaxStreams
  <2>1. h \in Seq(S) /\ Len(h) \in 1..k /\ i \in 1..Len(h) /\ k \in Nat
    BY <1>2, <1>4, SizesAssumption
  <2> HIDE DEF S, h, k
  <2>2. i \in DOMAIN h /\ h[i] \in S /\ 1 \in 1..Len(h)
    BY ONLY <2>1
  <2> QED BY <2>2 DEF S, h
<1>6. i = 1 <=> f.sid = 0
  BY <1>2, <1>4, <1>5
<1>7. c.rx_data + n \in Nat /\ Raised(c.max_rx_data, c.rx_data + n) \in Nat
  <2> HIDE DEF n
  <2> QED BY ONLY <1>2, <1>3 DEF Raised
<1> QED BY <1>1, <1>2, <1>3, <1>4, <1>5, <1>6, <1>7 DEF c

(* A frame of a response.                                                  *)
LEMMA ResponseFrameFollowed ==
  ASSUME NEW a, NEW f, NEW i, NEW l, NEW b
  PROVE  /\ NothingParsed(a) /\ Said(content, l) /\ StreamFrameOK(content, f)
         /\ i \in Slots(a.conn.streams, f.sid) /\ f.sid # EncoderStream
         /\ delivered \in Seq(AnyUnit)
         /\ b \in ResponseData(Noted(a, i, f), i, f.units)
         => PacketFollowed(b)
<1> SUFFICES ASSUME NothingParsed(a), Said(content, l), StreamFrameOK(content, f),
                    i \in Slots(a.conn.streams, f.sid), f.sid # EncoderStream,
                    delivered \in Seq(AnyUnit),
                    b \in ResponseData(Noted(a, i, f), i, f.units)
             PROVE  PacketFollowed(b)
  OBVIOUS
<1> DEFINE c == a.conn
           g == c.streams
           s == g[i]
           n == Len(f.units)
           x == Counted(s, f)
           t == c.table
           r == c.rx_data + n
           m == Raised(c.max_rx_data, c.rx_data + n)
           M == Mishaps(f, s)
           y == a.mishaps \cup M
           cb == c.is_closed
           cn == c.next_sid
           w == Noted(a, i, f)
<1>1. /\ Outcome(a) /\ ConnOK(c) /\ i \in 1..Len(g) /\ i \in DOMAIN g
      /\ s \in StreamRecords /\ s.stream_id = f.sid
      /\ g[1].stream_id = 0 /\ 1 \in 1..Len(g) /\ (i = 1 <=> f.sid = 0)
      /\ t \in Tables(Entry) /\ r \in Nat /\ m \in Nat /\ n \in Nat /\ f.fin \in BOOLEAN
  <2>1. /\ NothingParsed(a) /\ Said(content, l) /\ StreamFrameOK(content, f)
        /\ i \in Slots(a.conn.streams, f.sid)
    OBVIOUS
  <2> QED BY ONLY <2>1, SlotOfFrame, Zenon
<1>2. w = OutcomeOf(ConnOf(Stored(g, i, x), t, r, m, cb, cn), a.fields, y, a.swallowed)
  BY Zenon DEF Noted
<1>3. x \in StreamRecords /\ x.stream_id = s.stream_id
  BY <1>1, CountedIs
<1> HIDE DEF x, r, m, w
<1>4. w.conn.streams[i] = x /\ w.conn.table = t
  <2> DEFINE h == Stored(g, i, x)
  <2>1. h[i] = x
    <3>1. i \in DOMAIN g
      BY <1>1
    <3> HIDE DEF g
    <3> QED BY ONLY <3>1 DEF Stored, h
  <2>2. w = OutcomeOf(ConnOf(h, t, r, m, cb, cn), a.fields, y, a.swallowed)
    BY <1>2
  <2> HIDE DEF h, y, t, cb, cn
  <2>3. w.conn.streams = h /\ w.conn.table = t
    BY ONLY <2>2 DEF OutcomeOf, ConnOf
  <2> QED BY <2>1, <2>3
<1>5. PICK p \in ParseHttp3(x, f.units, t) : b = ParsedInto(w, i, p.s, p.fields)
  <2>1. PICK p \in ParseHttp3(w.conn.streams[i], f.units, w.conn.table) :
          b = [w EXCEPT !.conn.streams[i] = p.s, !.fields = @ \cup p.fields]
    BY Zenon DEF ResponseData, w
  <2>2. b = ParsedInto(w, i, p.s, p.fields)
    BY <2>1, Zenon DEF ParsedInto
  <2> QED BY <1>4, <2>1, <2>2
<1> DEFINE z == p.s
           e == ConnOf(Stored(g, i, z), t, r, m, cb, cn)
<1>6. p \in Parses(x, t, n)
  <2>1. Said(content, l) /\ StreamFrameOK(content, f)
    OBVIOUS
  <2>2. Readable(f.units)
    BY ONLY <2>1, FrameReadable, Zenon
  <2>3. x \in StreamRecords /\ Readable(f.units) /\ t \in Tables(Entry)
    BY <1>1, <1>3, <2>2
  <2>4. ParseHttp3(x, f.units, t) \subseteq Parses(x, t, Len(f.units))
    BY ONLY <2>3, ParseTyped, Zenon
  <2> QED BY <2>4
<1>7. z \in StreamRecords /\ z.stream_id = s.stream_id /\ p.fields \subseteq DecodedBy(t)
  BY <1>3, <1>6 DEF Parses
<1>8. b = OutcomeOf(e, a.fields \cup p.fields, y, a.swallowed)
  <2> DEFINE h == Stored(g, i, x)
             q == a.fields
             sw == a.swallowed
  <2>1. w = OutcomeOf(ConnOf(h, t, r, m, cb, cn), q, y, sw)
    BY <1>2
  <2>2. Stored(h, i, z) = Stored(g, i, z)
    BY <1>1, StoredTwice
  <2> HIDE DEF h, q, sw, y, z, g, t, cb, cn
  <2>3. ParsedInto(w, i, z, p.fields) = OutcomeOf(ConnOf(Stored(h, i, z), t, r, m, cb, cn), q \cup p.fields, y, sw)
    BY ONLY <2>1, WithParse
  <2>4. b = ParsedInto(w, i, z, p.fields)
    BY <1>5 DEF z
  <2> QED BY <2>2, <2>3, <2>4 DEF q, sw
<1>9. Updated(c, e, i, z)
  <2>1. /\ ConnOK(c) /\ i \in 1..Len(c.streams) /\ z \in StreamRecords
        /\ z.stream_id = c.streams[i].stream_id /\ t \in Tables(Entry) /\ r \in Nat /\ m \in Nat
    BY <1>1, <1>7
  <2> HIDE DEF z
  <2> QED BY ONLY <2>1, StoredIn, Zenon
<1>10. /\ ConnOK(e) /\ Len(e.streams) = Len(g) /\ e.streams[i] = z
       /\ \A j \in 1..Len(g) : j # i => e.streams[j] = g[j]
       /\ \A sid : Slots(e.streams, sid) = Slots(g, sid)
  <2> HIDE DEF e, z
  <2>1. ConnOK(c) /\ Updated(c, e, i, z)
    BY <1>1, <1>9
  <2> HIDE DEF c
  <2>2. /\ ConnOK(e) /\ Len(e.streams) = Len(c.streams) /\ e.streams[i] = z
        /\ \A j \in 1..Len(c.streams) : j # i => e.streams[j] = c.streams[j]
        /\ \A sid : Slots(e.streams, sid) = Slots(c.streams, sid)
    BY ONLY <2>1, UpdateKeeps
  <2> QED BY <2>2
<1>11. e.table = t /\ e.is_closed = cb
  BY OutcomeParts
<1>12. b.conn = e /\ b.fields = a.fields \cup p.fields /\ b.mishaps = y /\ Outcome(b)
  <2> HIDE DEF e, y
  <2> QED BY <1>8, OutcomeParts
<1> DEFINE old == mishaps \cup a.mishaps
           u == content[0]
<1>13. mishaps \cup b.mishaps = old \cup M
  BY <1>12
<1>14. /\ ResponseFollowed(u, c, old, delivered)
       /\ EncoderFollowed(c, old) /\ FieldsFollowed(a.fields, old)
       /\ g[1].rx = <<>> /\ t = conn.table /\ t \in Reached(conn.table, Len(EncoderUnits))
  BY DEF NothingParsed, PacketFollowed
<1> HIDE DEF e, y, z, c
<1>15. ASSUME Spared(old \cup M, 0) PROVE FollowsBody(u, e.streams[1], cb, delivered)
  <2>1. CASE i = 1
    <3>1. /\ Said(content, l) /\ StreamFrameOK(content, f) /\ f.sid = 0
          /\ s \in StreamRecords /\ s.rx = <<>> /\ delivered \in Seq(AnyUnit) /\ t \in Tables(Entry)
          /\ Spared(old \cup Mishaps(f, s), 0)
          /\ (Spared(old, 0) => FollowsBody(content[0], s, cb, delivered))
      BY <1>1, <1>14, <1>15, <2>1 DEF ResponseFollowed
    <3>2. \A q \in ParseHttp3(Counted(s, f), f.units, t) : FollowsBody(content[0], q.s, cb, delivered)
      <4> HIDE DEF old, s, t, cb
      <4> QED BY ONLY <3>1, BodyGrows, Zenon
    <3>3. FollowsBody(u, z, cb, delivered)
      BY <1>5, <3>2 DEF x, z
    <3> QED BY <1>10, <2>1, <3>3
  <2>2. CASE i # 1
    <3>1. e.streams[1] = g[1]
      BY <1>1, <1>10, <2>2
    <3>2. Spared(old, 0)
      BY <1>15, SparedBefore
    <3> QED BY <1>14, <3>1, <3>2 DEF ResponseFollowed
  <2> QED BY <2>1, <2>2
<1>16. ResponseFollowed(u, e, old \cup M, delivered)
  BY <1>11, <1>15 DEF ResponseFollowed
<1>17. ASSUME NEW k, EncoderAt(c, k) PROVE EncoderAt(e, k)
  <2>1. ASSUME NEW j \in Slots(g, EncoderStream) PROVE e.streams[j] = g[j]
    <3>1. j \in 1..Len(g) /\ g[j].stream_id = EncoderStream
      BY <1>1, SlotsAre DEF ConnOK
    <3>2. j # i
      BY <1>1, <3>1
    <3> QED BY <1>10, <3>1, <3>2
  <2> QED BY <1>10, <1>11, <1>17, <2>1 DEF EncoderAt
<1>18. EncoderFollowed(e, old \cup M)
  <2>1. EncoderFollowed(e, old)
    BY <1>14, <1>17 DEF EncoderFollowed
  <2> QED BY ONLY <2>1, LaterMishaps, Zenon
<1>19. FieldsFollowed(a.fields \cup p.fields, old \cup M)
  <2>1. ASSUME Spared(old, EncoderStream), NEW fl \in a.fields \cup p.fields PROVE AsMeant(fl)
    <3>1. PICK k : EncoderAt(c, k)
      BY <1>14, <2>1 DEF EncoderFollowed
    <3>2. AtTable(t, k)
      BY <3>1 DEF EncoderAt
    <3>3. \A h \in DecodedBy(t) : AsMeant(h)
      BY <3>2, DecodedAsMeant
    <3>4. \A h \in a.fields : AsMeant(h)
      BY <1>14, <2>1 DEF FieldsFollowed
    <3> QED BY <1>7, <3>3, <3>4
  <2>2. FieldsFollowed(a.fields \cup p.fields, old)
    BY <2>1 DEF FieldsFollowed
  <2> QED BY ONLY <2>2, LaterMishaps, Zenon
<1> QED BY <1>10, <1>11, <1>12, <1>13, <1>14, <1>16, <1>18, <1>19 DEF PacketFollowed

-----------------------------------------------------------------------------
(* The encoder stream, frame by frame.                                     *)

(* What becomes of the type of a stream of the server's, and where the     *)
(* data begin.                                                             *)
TypeRead(s, units) ==
  IF s.type # "unread" \/ units = <<>> THEN s.type
  ELSE IF units[1][1] = "stream type" THEN units[1][2]
  ELSE "other"

DataLeft(s, units) == IF s.type = "unread" THEN Tail(units) ELSE units

TablesLeft(s, units, t) ==
  IF TypeRead(s, units) = "encoder" THEN ParseEncoderInstructions(t, DataLeft(s, units)) ELSE {t}

LEMMA EncoderDataIs ==
  ASSUME NEW a, NEW i, NEW units
  PROVE  EncoderData(a, i, units)
           = {TypedWith(a, i, TypeRead(a.conn.streams[i], units), t) :
                t \in TablesLeft(a.conn.streams[i], units, a.conn.table)}
BY Zenon DEF EncoderData, TypedWith, TypeRead, DataLeft, TablesLeft

(* Something has come of a stream type.                                    *)
LEMMA TypesRead ==
  ASSUME NEW s, NEW units
  PROVE  s \in StreamRecords /\ units \in Seq(AnyUnit) /\ units # <<>> =>
           /\ TypeRead(s, units) \in {"unread", "encoder", "other"}
           /\ DataLeft(s, units) \in Seq(AnyUnit) /\ Len(DataLeft(s, units)) \in 0..Len(units)
<1> SUFFICES ASSUME s \in StreamRecords, units \in Seq(AnyUnit), units # <<>>
             PROVE  /\ TypeRead(s, units) \in {"unread", "encoder", "other"}
                    /\ DataLeft(s, units) \in Seq(AnyUnit) /\ Len(DataLeft(s, units)) \in 0..Len(units)
  OBVIOUS
<1>1. s.type \in {"unread", "encoder", "other"}
  BY DEF StreamRecords
<1>2. units[1] \in AnyUnit
  OBVIOUS
<1>3. units[1][1] = "stream type" => units[1][2] = "encoder"
  <2> DEFINE x == units[1]
  <2> HIDE DEF x
  <2>1. x \in AnyUnit
    BY <1>2 DEF x
  <2>2. x[1] = "stream type" => x[2] = "encoder"
    BY ONLY <2>1 DEF AnyUnit
  <2> QED BY <2>2 DEF x
<1>4. Tail(units) \in Seq(AnyUnit) /\ Len(Tail(units)) = Len(units) - 1
  <2> DEFINE S == AnyUnit
  <2> HIDE DEF S
  <2>1. units \in Seq(S) /\ units # <<>>
    BY DEF S
  <2>2. Tail(units) \in Seq(S) /\ Len(Tail(units)) = Len(units) - 1
    BY ONLY <2>1
  <2> QED BY <2>2 DEF S
<1>5. Len(units) \in 0..Len(units) /\ Len(units) - 1 \in 0..Len(units)
  OBVIOUS
<1>6. TypeRead(s, units) \in {"unread", "encoder", "other"}
  <2> DEFINE x == units[1]
             y == s.type
  <2> HIDE DEF x, y
  <2>1. y \in {"unread", "encoder", "other"} /\ (x[1] = "stream type" => x[2] = "encoder")
    BY <1>1, <1>3 DEF x, y
  <2>2. TypeRead(s, units) = IF y # "unread" \/ units = <<>> THEN y ELSE IF x[1] = "stream type" THEN x[2] ELSE "other"
    BY DEF TypeRead, x, y
  <2> QED BY ONLY <2>1, <2>2
<1>7. DataLeft(s, units) \in Seq(AnyUnit) /\ Len(DataLeft(s, units)) \in 0..Len(units)
  <2>1. DataLeft(s, units) = Tail(units) \/ DataLeft(s, units) = units
    BY Zenon DEF DataLeft
  <2> DEFINE x == DataLeft(s, units)
             y == Tail(units)
  <2> HIDE DEF x, y
  <2>2. x = y \/ x = units
    BY <2>1 DEF x, y
  <2>3. y \in Seq(AnyUnit) /\ Len(y) = Len(units) - 1
    BY <1>4 DEF y
  <2>4. units \in Seq(AnyUnit)
    OBVIOUS
  <2>5. x \in Seq(AnyUnit) /\ Len(x) \in 0..Len(units)
    BY ONLY <1>5, <2>2, <2>3, <2>4
  <2> QED BY <2>5 DEF x
<1> QED BY <1>6, <1>7

(* The table that comes of a frame, in whatever order it came.             *)
LEMMA EncoderFrameTyped ==
  ASSUME NEW f, NEW s, NEW l, NEW t
  PROVE  /\ Said(content, l) /\ StreamFrameOK(content, f) /\ f.sid = EncoderStream
         /\ s \in StreamRecords /\ t \in Tables(Entry)
         => /\ TypeRead(s, f.units) \in {"unread", "encoder", "other"}
            /\ TablesLeft(s, f.units, t) \subseteq Reached(t, Len(EncoderUnits))
<1> SUFFICES ASSUME Said(content, l), StreamFrameOK(content, f), f.sid = EncoderStream,
                    s \in StreamRecords, t \in Tables(Entry)
             PROVE  /\ TypeRead(s, f.units) \in {"unread", "encoder", "other"}
                    /\ TablesLeft(s, f.units, t) \subseteq Reached(t, Len(EncoderUnits))
  OBVIOUS
<1> DEFINE n == Len(f.units)
           e == Len(EncoderUnits)
           d == DataLeft(s, f.units)
           k == Len(d)
<1>1. n \in Nat /\ n > 0 /\ f.off \in Nat /\ f.off + n \in 0..e
  BY DEF StreamFrameOK, Said
<1>2. f.units \in Seq(AnyUnit)
  <2>1. Said(content, l) /\ StreamFrameOK(content, f)
    OBVIOUS
  <2>2. Readable(f.units)
    BY ONLY <2>1, FrameReadable, Zenon
  <2> QED BY <2>2 DEF Readable
<1>3. f.units # <<>>
  BY <1>1
<1>4. /\ TypeRead(s, f.units) \in {"unread", "encoder", "other"}
      /\ d \in Seq(AnyUnit) /\ k \in 0..n
  <2>1. s \in StreamRecords /\ f.units \in Seq(AnyUnit) /\ f.units # <<>>
    BY <1>2, <1>3
  <2> QED BY ONLY <2>1, TypesRead, Zenon
<1>5. e \in Nat
  <2>1. EncoderUnits \in Seq(AnyUnit)
    BY EncoderStreamIs DEF EncoderLaidOut
  <2> QED BY <2>1, LenProperties
<1> HIDE DEF n, d, k, e
<1>6. \A j \in 0..k : j \in 0..e
  BY <1>1, <1>4, <1>5
<1>7. ParseEncoderInstructions(t, d) \subseteq Reached(t, e)
  <2>1. t \in Tables(Entry) /\ d \in Seq(AnyUnit)
    BY <1>4
  <2>2. ParseEncoderInstructions(t, d) \subseteq Reached(t, Len(d))
    BY ONLY <2>1, EncoderReaches, Zenon
  <2> QED BY <1>6, <2>2 DEF Reached, k
<1>8. t \in Reached(t, e)
  <2>1. 0 \in 0..e
    BY <1>5
  <2> QED BY <2>1, AddsNone DEF Reached
<1> QED BY <1>4, <1>7, <1>8 DEF TablesLeft, d, e

(* Where the client has followed the stream, and the frame is the next and *)
(* whole, it follows it further.                                           *)
LEMMA EncoderGrows ==
  ASSUME NEW f, NEW s, NEW l, NEW t, NEW k
  PROVE  /\ Said(content, l) /\ StreamFrameOK(content, f) /\ f.sid = EncoderStream
         /\ f.off = s.parsed /\ ~Tears(f.units)
         /\ k \in 0..Len(Instructions) /\ AtTable(t, k)
         /\ \/ s.type = "unread" /\ s.parsed = 0 /\ k = 0
            \/ s.type = "encoder" /\ s.parsed = 1 + 2 * k
         => /\ TypeRead(s, f.units) = "encoder"
            /\ \E m \in 0..Len(Instructions) :
                 /\ s.parsed + Len(f.units) = 1 + 2 * m
                 /\ \A u \in TablesLeft(s, f.units, t) : AtTable(u, m)
<1> SUFFICES ASSUME Said(content, l), StreamFrameOK(content, f), f.sid = EncoderStream,
                    f.off = s.parsed, ~Tears(f.units), k \in 0..Len(Instructions), AtTable(t, k),
                    \/ s.type = "unread" /\ s.parsed = 0 /\ k = 0
                    \/ s.type = "encoder" /\ s.parsed = 1 + 2 * k
             PROVE  /\ TypeRead(s, f.units) = "encoder"
                    /\ \E m \in 0..Len(Instructions) :
                         /\ s.parsed + Len(f.units) = 1 + 2 * m
                         /\ \A u \in TablesLeft(s, f.units, t) : AtTable(u, m)
  OBVIOUS
<1> DEFINE n == Len(f.units)
           b == s.parsed
           x == f.units
           E == EncoderUnits
           L == Len(Instructions)
<1>1. /\ L \in Nat /\ E \in Seq(AnyUnit) /\ Len(E) = 1 + 2 * L
      /\ E[1] = <<"stream type", "encoder">>
      /\ \A j \in 1..L : PairAt(E, j, Instructions[j])
  BY EncoderStreamIs DEF EncoderLaidOut
<1>2. b \in Nat /\ n \in Nat /\ n > 0 /\ b + n \in 0..1 + 2 * L /\ x = Slice(E, b, b + n)
  BY <1>1 DEF StreamFrameOK, Said
<1>3. x \in Seq(AnyUnit) /\ \A i \in 1..n : x[i] = E[b + i]
  <2>1. E \in Seq(AnyUnit) /\ b + n \in 0..Len(E) /\ b \in 0..b + n /\ (b + n) - b = n
    <3>1. L \in Nat /\ Len(E) = 1 + 2 * L /\ b \in Nat /\ n \in Nat /\ b + n \in 0..1 + 2 * L /\ E \in Seq(AnyUnit)
      BY <1>1, <1>2
    <3> HIDE DEF b, n, L, E
    <3> QED BY ONLY <3>1
  <2> DEFINE e == b + n
  <2> HIDE DEF E, b, e
  <2>2. E \in Seq(AnyUnit) /\ e \in 0..Len(E) /\ b \in 0..e
    BY <2>1 DEF e
  <2>3. IsSlice(AnyUnit, E, b, e, Slice(E, b, e))
    BY ONLY <2>2, SliceIs, Zenon
  <2> QED BY <1>2, <2>1, <2>3 DEF IsSlice, e
<1> HIDE DEF E, L, b
<1>4. ASSUME NEW j \in Nat, b + n = 2 * j PROVE FALSE
  <2>1. j \in 1..L /\ n \in 1..n
    <3>1. L \in Nat /\ b \in Nat /\ n \in Nat /\ n > 0 /\ b + n \in 0..1 + 2 * L /\ j \in Nat /\ b + n = 2 * j
      BY <1>1, <1>2, <1>4
    <3> HIDE DEF n
    <3> QED BY ONLY <3>1
  <2>2. x[n] = E[2 * j]
    BY <1>3, <1>4, <2>1
  <2>3. E[2 * j] = <<"first", Instructions[j]>>
    BY <1>1, <2>1 DEF PairAt
  <2>4. x # <<>> /\ Last(x) = x[n]
    BY <1>2, <1>3 DEF Last
  <2> QED BY <2>2, <2>3, <2>4 DEF Tears
<1> HIDE DEF n
<1>5. PICK m \in 0..L : b + n = 1 + 2 * m
  <2>1. \A z \in Nat : \E j \in Nat : z = 2 * j \/ z = 1 + 2 * j
    <3> SUFFICES ASSUME NEW z \in Nat PROVE z \div 2 \in Nat /\ (z = 2 * (z \div 2) \/ z = 1 + 2 * (z \div 2))
      OBVIOUS
    <3> QED BY Z3
  <2>2. PICK j \in Nat : b + n = 2 * j \/ b + n = 1 + 2 * j
    <3>1. b + n \in Nat
      BY <1>2
    <3> QED BY <2>1, <3>1
  <2>3. b + n = 1 + 2 * j
    BY <1>4, <2>2
  <2>4. j \in 0..L
    <3>1. L \in Nat /\ b + n \in 0..1 + 2 * L /\ j \in Nat /\ b + n = 1 + 2 * j
      BY <1>1, <1>2, <2>3
    <3> QED BY ONLY <3>1
  <2> QED BY <2>3, <2>4
<1>6. CASE s.type = "encoder" /\ b = 1 + 2 * k
  <2>1. k \in 0..m
    <3>1. /\ L \in Nat /\ b \in Nat /\ n \in Nat /\ k \in 0..L /\ m \in 0..L /\ b + n = 1 + 2 * m
          /\ b = 1 + 2 * k
      BY <1>1, <1>2, <1>5, <1>6 DEF L
    <3> QED BY ONLY <3>1
  <2>2. TypeRead(s, x) = "encoder" /\ DataLeft(s, x) = x
    BY <1>6 DEF TypeRead, DataLeft
  <2>3. /\ m \in 0..Len(Instructions) /\ k \in 0..m /\ AtTable(t, k)
        /\ x = Slice(EncoderUnits, 1 + 2 * k, 1 + 2 * m)
    BY <1>2, <1>5, <1>6, <2>1 DEF L, E
  <2> HIDE DEF x
  <2>4. \A u \in ParseEncoderInstructions(t, x) : AtTable(u, m)
    BY ONLY <2>3, EncoderFollows, Zenon
  <2> QED BY <1>5, <2>2, <2>4 DEF TablesLeft, x, b, n, L
<1>7. CASE s.type = "unread" /\ b = 0 /\ k = 0
  <2>1. 1 \in 1..n /\ x[1] = <<"stream type", "encoder">> /\ x # <<>>
    <3>1. 1 \in 1..n /\ b + 1 = 1
      BY <1>2, <1>7
    <3>2. x[1] = E[1]
      BY <1>3, <3>1
    <3>3. x # <<>>
      <4> HIDE DEF x
      <4>1. n = Len(x) /\ n > 0
        BY <1>2 DEF n, x
      <4> QED BY <4>1
    <3> QED BY <1>1, <3>1, <3>2, <3>3
  <2>2. TypeRead(s, x) = "encoder" /\ DataLeft(s, x) = Tail(x)
    <3> DEFINE y == x[1]
               z == s.type
    <3> HIDE DEF y, z
    <3>1. z = "unread" /\ y = <<"stream type", "encoder">> /\ x # <<>>
      BY <1>7, <2>1 DEF y, z
    <3>2. TypeRead(s, x) = IF z # "unread" \/ x = <<>> THEN z ELSE IF y[1] = "stream type" THEN y[2] ELSE "other"
      BY Zenon DEF TypeRead, y, z
    <3>3. DataLeft(s, x) = IF z = "unread" THEN Tail(x) ELSE x
      BY Zenon DEF DataLeft, z
    <3> HIDE DEF x
    <3> QED BY ONLY <3>1, <3>2, <3>3
  <2>3. n = 1 + 2 * m /\ 1 + 2 * k = 1 /\ k \in 0..m
    BY <1>2, <1>5, <1>7
  <2>4. Tail(x) = Slice(E, 1, n)
    <3>1. E \in Seq(AnyUnit) /\ n \in 0..Len(E) /\ 1 \in 0..n
      <4>1. /\ L \in Nat /\ Len(E) = 1 + 2 * L /\ b = 0 /\ n \in Nat /\ n > 0 /\ b + n \in 0..1 + 2 * L
            /\ E \in Seq(AnyUnit)
        BY <1>1, <1>2, <1>7
      <4> QED BY ONLY <4>1
    <3>2. IsSlice(AnyUnit, E, 1, n, Slice(E, 1, n))
      BY ONLY <3>1, SliceIs, Zenon
    <3> DEFINE y == Slice(E, 1, n)
               S == AnyUnit
    <3>3. y \in Seq(S) /\ Len(y) = n - 1 /\ \A i \in 1..n - 1 : y[i] = E[1 + i]
      BY <3>2 DEF IsSlice
    <3> HIDE DEF y, x, S
    <3>4. x \in Seq(S) /\ x # <<>> /\ Len(x) = n
      BY <1>3, <2>1 DEF S, n, x
    <3>5. Tail(x) \in Seq(S) /\ Len(Tail(x)) = n - 1 /\ \A i \in 1..n - 1 : Tail(x)[i] = x[i + 1]
      BY ONLY <3>4, HeadTailProperties
    <3>6. \A i \in 1..n - 1 : x[i + 1] = E[1 + i]
      <4>1. \A i \in 1..n - 1 : i + 1 \in 1..n /\ 0 + (i + 1) = 1 + i
        BY <1>2
      <4> QED BY <1>3, <1>7, <4>1
    <3> DEFINE z == Tail(x)
    <3> HIDE DEF z
    <3>7. z \in Seq(S) /\ y \in Seq(S) /\ Len(z) = Len(y) /\ \A i \in 1..Len(z) : z[i] = y[i]
      BY <3>3, <3>5, <3>6 DEF z
    <3>8. z = y
      BY ONLY <3>7, SeqEqual
    <3> QED BY <3>8 DEF z, y
  <2>5. /\ m \in 0..Len(Instructions) /\ k \in 0..m /\ AtTable(t, k)
        /\ Tail(x) = Slice(EncoderUnits, 1 + 2 * k, 1 + 2 * m)
    BY <2>3, <2>4 DEF L, E
  <2> DEFINE z == Tail(x)
  <2> HIDE DEF z
  <2>6. m \in 0..Len(Instructions) /\ k \in 0..m /\ AtTable(t, k)
        /\ z = Slice(EncoderUnits, 1 + 2 * k, 1 + 2 * m)
    BY <2>5 DEF z
  <2>7. \A u \in ParseEncoderInstructions(t, z) : AtTable(u, m)
    BY ONLY <2>6, EncoderFollows, Zenon
  <2> QED BY <1>5, <2>2, <2>7 DEF TablesLeft, z, b, n, L
<1> QED BY <1>6, <1>7 DEF b

LEMMA SlotTyped ==
  ASSUME NEW x, NEW y
  PROVE  x \in StreamRecords /\ y \in {"unread", "encoder", "other"} =>
           /\ [x EXCEPT !.type = y] \in StreamRecords
           /\ [x EXCEPT !.type = y].stream_id = x.stream_id
           /\ [x EXCEPT !.type = y].parsed = x.parsed /\ [x EXCEPT !.type = y].type = y
  BY DEF StreamRecords

(* A frame of the encoder stream.                                          *)
LEMMA EncoderFrameFollowed ==
  ASSUME NEW a, NEW f, NEW i, NEW l, NEW b
  PROVE  /\ NothingParsed(a) /\ Said(content, l) /\ StreamFrameOK(content, f)
         /\ i \in Slots(a.conn.streams, f.sid) /\ f.sid = EncoderStream
         /\ b \in EncoderData(Noted(a, i, f), i, f.units)
         => PacketFollowed(b)
<1> SUFFICES ASSUME NothingParsed(a), Said(content, l), StreamFrameOK(content, f),
                    i \in Slots(a.conn.streams, f.sid), f.sid = EncoderStream,
                    b \in EncoderData(Noted(a, i, f), i, f.units)
             PROVE  PacketFollowed(b)
  OBVIOUS
<1> DEFINE c == a.conn
           g == c.streams
           s == g[i]
           n == Len(f.units)
           x == Counted(s, f)
           t == c.table
           r == c.rx_data + n
           m == Raised(c.max_rx_data, c.rx_data + n)
           M == Mishaps(f, s)
           y == a.mishaps \cup M
           cb == c.is_closed
           cn == c.next_sid
           w == Noted(a, i, f)
           ty == TypeRead(s, f.units)
<1>1. /\ Outcome(a) /\ ConnOK(c) /\ i \in 1..Len(g) /\ i \in DOMAIN g
      /\ s \in StreamRecords /\ s.stream_id = f.sid
      /\ g[1].stream_id = 0 /\ 1 \in 1..Len(g) /\ (i = 1 <=> f.sid = 0)
      /\ t \in Tables(Entry) /\ r \in Nat /\ m \in Nat /\ n \in Nat /\ f.fin \in BOOLEAN
  <2>1. /\ NothingParsed(a) /\ Said(content, l) /\ StreamFrameOK(content, f)
        /\ i \in Slots(a.conn.streams, f.sid)
    OBVIOUS
  <2> QED BY ONLY <2>1, SlotOfFrame, Zenon
<1>2. i # 1
  BY <1>1 DEF EncoderStream
<1>3. w = OutcomeOf(ConnOf(Stored(g, i, x), t, r, m, cb, cn), a.fields, y, a.swallowed)
  BY Zenon DEF Noted
<1>4. x \in StreamRecords /\ x.stream_id = s.stream_id /\ x.type = s.type /\ x.parsed = s.parsed + n
  BY <1>1, CountedIs
<1> HIDE DEF x, r, m, w
<1>5. Stored(g, i, x)[i] = x /\ w.conn.streams[i] = x /\ w.conn.table = t
  <2> DEFINE h == Stored(g, i, x)
  <2>1. h[i] = x
    <3>1. i \in DOMAIN g
      BY <1>1
    <3> HIDE DEF g
    <3> QED BY ONLY <3>1 DEF Stored, h
  <2>2. w = OutcomeOf(ConnOf(h, t, r, m, cb, cn), a.fields, y, a.swallowed)
    BY <1>3
  <2> HIDE DEF h, y, t, cb, cn
  <2>3. w.conn.streams = h /\ w.conn.table = t
    BY ONLY <2>2 DEF OutcomeOf, ConnOf
  <2> QED BY <2>1, <2>3 DEF h
<1>6. TypeRead(x, f.units) = ty /\ TablesLeft(x, f.units, t) = TablesLeft(s, f.units, t)
  <2> HIDE DEF s, t
  <2> QED BY <1>4 DEF TypeRead, TablesLeft, DataLeft
<1>7. PICK tt \in TablesLeft(s, f.units, t) : b = TypedWith(w, i, ty, tt)
  <2>1. b \in {TypedWith(w, i, TypeRead(x, f.units), u) : u \in TablesLeft(x, f.units, t)}
    BY <1>5, EncoderDataIs DEF w
  <2> QED BY <1>6, <2>1
<1>8. ty \in {"unread", "encoder", "other"} /\ tt \in Reached(t, Len(EncoderUnits)) /\ tt \in Tables(Entry)
  <2>1. /\ Said(content, l) /\ StreamFrameOK(content, f) /\ f.sid = EncoderStream
        /\ s \in StreamRecords /\ t \in Tables(Entry)
    BY <1>1
  <2> HIDE DEF s, t
  <2>2. /\ TypeRead(s, f.units) \in {"unread", "encoder", "other"}
        /\ TablesLeft(s, f.units, t) \subseteq Reached(t, Len(EncoderUnits))
    BY ONLY <2>1, EncoderFrameTyped, Zenon
  <2> QED BY <1>7, <2>2 DEF Reached
<1> DEFINE z == [x EXCEPT !.type = ty]
           e == ConnOf(Stored(g, i, z), tt, r, m, cb, cn)
<1>9. z \in StreamRecords /\ z.stream_id = s.stream_id /\ z.parsed = s.parsed + n /\ z.type = ty
  <2> HIDE DEF ty
  <2>1. x \in StreamRecords /\ ty \in {"unread", "encoder", "other"}
    BY <1>4, <1>8
  <2>2. /\ z \in StreamRecords /\ z.stream_id = x.stream_id
        /\ z.parsed = x.parsed /\ z.type = ty
    BY ONLY <2>1, SlotTyped, Zenon
  <2> QED BY <1>4, <2>2
<1>10. b = OutcomeOf(e, a.fields, y, a.swallowed)
  <2> DEFINE h == Stored(g, i, x)
             q == a.fields
             sw == a.swallowed
             v == [h[i] EXCEPT !.type = ty]
  <2>1. w = OutcomeOf(ConnOf(h, t, r, m, cb, cn), q, y, sw)
    BY <1>3
  <2>2. h[i] = x
    BY <1>5
  <2>3. v = z
    <3> HIDE DEF h, ty
    <3> QED BY <2>2
  <2>4. Stored(h, i, z) = Stored(g, i, z)
    <3>1. i \in DOMAIN g
      BY <1>1
    <3> HIDE DEF z, g
    <3> QED BY ONLY <3>1 DEF Stored, h
  <2> HIDE DEF h, q, sw, y, z, g, t, cb, cn, ty
  <2>5. TypedWith(w, i, ty, tt) = OutcomeOf(ConnOf(Stored(h, i, v), tt, r, m, cb, cn), q, y, sw)
    BY ONLY <2>1, WithTable
  <2> HIDE DEF v
  <2>6. TypedWith(w, i, ty, tt) = OutcomeOf(ConnOf(Stored(h, i, z), tt, r, m, cb, cn), q, y, sw)
    BY ONLY <2>3, <2>5
  <2> QED BY <1>7, <2>4, <2>6 DEF q, sw, ty
<1>11. Updated(c, e, i, z)
  <2>1. /\ ConnOK(c) /\ i \in 1..Len(c.streams) /\ z \in StreamRecords
        /\ z.stream_id = c.streams[i].stream_id /\ tt \in Tables(Entry) /\ r \in Nat /\ m \in Nat
    BY <1>1, <1>8, <1>9
  <2> HIDE DEF z
  <2> QED BY ONLY <2>1, StoredIn, Zenon
<1>12. /\ ConnOK(e) /\ Len(e.streams) = Len(g) /\ e.streams[i] = z
       /\ \A j \in 1..Len(g) : j # i => e.streams[j] = g[j]
       /\ \A sid : Slots(e.streams, sid) = Slots(g, sid)
  <2> HIDE DEF e, z
  <2>1. ConnOK(c) /\ Updated(c, e, i, z)
    BY <1>1, <1>11
  <2> HIDE DEF c
  <2>2. /\ ConnOK(e) /\ Len(e.streams) = Len(c.streams) /\ e.streams[i] = z
        /\ \A j \in 1..Len(c.streams) : j # i => e.streams[j] = c.streams[j]
        /\ \A sid : Slots(e.streams, sid) = Slots(c.streams, sid)
    BY ONLY <2>1, UpdateKeeps
  <2> QED BY <2>2
<1>13. e.table = tt /\ e.is_closed = cb
  BY OutcomeParts
<1>14. b.conn = e /\ b.fields = a.fields /\ b.mishaps = y /\ Outcome(b)
  <2> HIDE DEF e, y
  <2> QED BY <1>10, OutcomeParts
<1> DEFINE old == mishaps \cup a.mishaps
           u == content[0]
<1>15. mishaps \cup b.mishaps = old \cup M
  BY <1>14
<1>16. /\ ResponseFollowed(u, c, old, delivered)
       /\ EncoderFollowed(c, old) /\ FieldsFollowed(a.fields, old) /\ t = conn.table
  BY DEF NothingParsed, PacketFollowed
<1> HIDE DEF e, y, z, c
<1>17. ResponseFollowed(u, e, old, delivered)
  <2>1. e.streams[1] = g[1]
    BY <1>1, <1>2, <1>12
  <2> QED BY <1>13, <1>16, <2>1 DEF ResponseFollowed
<1>18. ResponseFollowed(u, e, old \cup M, delivered) /\ FieldsFollowed(a.fields, old \cup M)
  <2> HIDE DEF old, u
  <2> QED BY ONLY <1>16, <1>17, LaterMishaps, Zenon
<1>19. ASSUME Spared(old \cup M, EncoderStream) PROVE \E j : EncoderAt(e, j)
  <2>1. Spared(old, EncoderStream) /\ f.off = s.parsed /\ ~Tears(f.units)
    <3>1. Spared(old \cup Mishaps(f, s), f.sid)
      BY <1>19
    <3> HIDE DEF old, s
    <3>2. Spared(old, f.sid) /\ f.off = s.parsed /\ ~Tears(f.units)
      BY ONLY <3>1, InPlace
    <3> QED BY <3>2
  <2>2. PICK k : EncoderAt(c, k)
    BY <1>16, <2>1 DEF EncoderFollowed
  <2>3. i \in Slots(g, EncoderStream)
    BY DEF c
  <2>4. /\ Said(content, l) /\ StreamFrameOK(content, f) /\ f.sid = EncoderStream
        /\ f.off = s.parsed /\ ~Tears(f.units)
        /\ k \in 0..Len(Instructions) /\ AtTable(t, k)
        /\ \/ s.type = "unread" /\ s.parsed = 0 /\ k = 0
           \/ s.type = "encoder" /\ s.parsed = 1 + 2 * k
    BY <2>1, <2>2, <2>3 DEF EncoderAt
  <2>5. /\ TypeRead(s, f.units) = "encoder"
        /\ \E j \in 0..Len(Instructions) :
             /\ s.parsed + Len(f.units) = 1 + 2 * j
             /\ \A v \in TablesLeft(s, f.units, t) : AtTable(v, j)
    <3> HIDE DEF s, t
    <3> QED BY ONLY <2>4, EncoderGrows, Zenon
  <2>6. PICK j \in 0..Len(Instructions) :
             /\ s.parsed + Len(f.units) = 1 + 2 * j
             /\ \A v \in TablesLeft(s, f.units, t) : AtTable(v, j)
    BY <2>5
  <2>7. AtTable(tt, j) /\ z.type = "encoder" /\ z.parsed = 1 + 2 * j
    BY <1>7, <1>9, <2>5, <2>6
  <2>8. ASSUME NEW o \in Slots(e.streams, EncoderStream) PROVE o = i
    <3>1. o \in Slots(g, EncoderStream)
      BY <1>12
    <3>2. g \in Seq(StreamRecords) /\ \A p, q \in 1..Len(g) : g[p].stream_id = g[q].stream_id => p = q
      BY <1>1 DEF ConnOK
    <3>3. o \in 1..Len(g) /\ g[o].stream_id = EncoderStream
      BY <3>1, <3>2, SlotsAre
    <3> QED BY <1>1, <3>2, <3>3
  <2>9. Slots(e.streams, EncoderStream) # {}
    BY <1>12, <2>3
  <2>10. EncoderAt(e, j)
    BY <1>12, <1>13, <2>7, <2>8, <2>9 DEF EncoderAt
  <2> QED BY <2>10
<1>20. EncoderFollowed(e, old \cup M)
  BY <1>19 DEF EncoderFollowed
<1>21. tt \in Reached(conn.table, Len(EncoderUnits))
  BY <1>8, <1>16
<1> QED BY <1>12, <1>13, <1>14, <1>15, <1>18, <1>20, <1>21 DEF PacketFollowed

-----------------------------------------------------------------------------
(* Packets.                                                                *)

(* What the server sends in a packet: it ends with the only STREAM frame.  *)
FrameOK(u, f) ==
  \/ StreamFrameOK(u, f)
  \/ f.type \in {"NEW_CONNECTION_ID", "CONNECTION_CLOSE"}

FramesOK(u, frames) ==
  /\ Len(frames) \in Nat
  /\ \A k \in 1..Len(frames) : FrameOK(u, frames[k])
  /\ \A k \in 1..Len(frames) - 1 : frames[k].type = "NEW_CONNECTION_ID"

(* A frame of any kind.                                                    *)
LEMMA FrameFollowed ==
  ASSUME NEW a, NEW f, NEW l
  PROVE  /\ NothingParsed(a) /\ Said(content, l) /\ FrameOK(content, f) /\ delivered \in Seq(AnyUnit)
         => \A b \in ParseFrame(a, f) :
              PacketFollowed(b) /\ (f.type = "NEW_CONNECTION_ID" => NothingParsed(b))
<1> SUFFICES ASSUME NothingParsed(a), Said(content, l), FrameOK(content, f), delivered \in Seq(AnyUnit),
                    NEW b \in ParseFrame(a, f)
             PROVE  PacketFollowed(b) /\ (f.type = "NEW_CONNECTION_ID" => NothingParsed(b))
  OBVIOUS
<1>0. PacketFollowed(a)
  BY DEF NothingParsed
<1>1. CASE f.type = "NEW_CONNECTION_ID"
  <2>1. b \in Misparsed(a)
    <3>1. ParseFrame(a, f) = Misparsed(a)
      BY <1>1 DEF ParseFrame
    <3> QED BY <3>1
  <2>2. NothingParsed(a)
    OBVIOUS
  <2>3. NothingParsed(b)
    BY ONLY <2>1, <2>2, MisparsedKeeps, Zenon
  <2> QED BY <2>3 DEF NothingParsed
<1>2. CASE f.type = "CONNECTION_CLOSE"
  <2> DEFINE e == [a EXCEPT !.conn.is_closed = TRUE, !.mishaps = @ \cup CutOff(a.conn)]
  <2>1. NothingParsed(a) /\ Said(content, l)
    OBVIOUS
  <2>2. PacketFollowed(e)
    BY ONLY <2>1, CloseFollowed, Zenon
  <2>3. ParseFrame(a, f) = {e}
    <3> HIDE DEF e
    <3>1. "CONNECTION_CLOSE" # "STREAM" /\ "CONNECTION_CLOSE" # "NEW_CONNECTION_ID"
      OBVIOUS
    <3> QED BY <1>2, <3>1, Zenon DEF ParseFrame, e
  <2> HIDE DEF e
  <2> QED BY <1>2, <2>2, <2>3
<1>3. CASE StreamFrameOK(content, f)
  <2>0. f.type = "STREAM" /\ f.type # "NEW_CONNECTION_ID" /\ f.sid \in Nat
        /\ (Unidirectional(f.sid) <=> f.sid = EncoderStream)
    BY <1>3, StreamIds DEF StreamFrameOK
  <2> DEFINE e == [a EXCEPT !.conn.streams = Find(@, f.sid)]
             j == [a EXCEPT !.mishaps = @ \cup {<<"lost", f.sid>>}]
             slots == Slots(e.conn.streams, f.sid)
  <2>1. ParseFrame(a, f) = IF a.swallowed \/ slots = {} THEN {j}
                           ELSE UNION {StreamFrame(e, i, f) : i \in slots}
    BY <2>0, Zenon DEF ParseFrame
  <2>2. CASE b = j
    <3>1. PacketFollowed(j)
      BY ONLY <1>0, MishapKeeps, Zenon
    <3> QED BY <2>0, <2>2, <3>1
  <2>3. ASSUME NEW i \in slots, b \in StreamFrame(e, i, f) PROVE PacketFollowed(b)
    <3>1. NothingParsed(e)
      <4>1. NothingParsed(a) /\ f.sid \in Nat
        BY <2>0
      <4> QED BY ONLY <4>1, FindKeepsPacket, Zenon
    <3> HIDE DEF e
    <3>2. Outcome(e) /\ ConnOK(e.conn)
      BY <3>1 DEF NothingParsed, PacketFollowed
    <3>3. StreamFrame(e, i, f) = IF Unidirectional(f.sid) THEN EncoderData(Noted(e, i, f), i, f.units)
                                 ELSE ResponseData(Noted(e, i, f), i, f.units)
      BY ONLY <3>2, NotedIs, Zenon
    <3>4. CASE f.sid = EncoderStream
      <4>1. b \in EncoderData(Noted(e, i, f), i, f.units)
        BY <2>0, <2>3, <3>3, <3>4
      <4>2. /\ NothingParsed(e) /\ Said(content, l) /\ StreamFrameOK(content, f)
            /\ i \in Slots(e.conn.streams, f.sid) /\ f.sid = EncoderStream
            /\ b \in EncoderData(Noted(e, i, f), i, f.units)
        BY <1>3, <3>1, <3>4, <4>1
      <4> QED BY ONLY <4>2, EncoderFrameFollowed, Zenon
    <3>5. CASE f.sid # EncoderStream
      <4>1. b \in ResponseData(Noted(e, i, f), i, f.units)
        BY <2>0, <2>3, <3>3, <3>5
      <4>2. /\ NothingParsed(e) /\ Said(content, l) /\ StreamFrameOK(content, f)
            /\ i \in Slots(e.conn.streams, f.sid) /\ f.sid # EncoderStream
            /\ delivered \in Seq(AnyUnit)
            /\ b \in ResponseData(Noted(e, i, f), i, f.units)
        BY <1>3, <3>1, <3>5, <4>1
      <4> QED BY ONLY <4>2, ResponseFrameFollowed, Zenon
    <3> QED BY <3>4, <3>5
  <2> HIDE DEF e, j
  <2>4. b = j \/ \E i \in slots : b \in StreamFrame(e, i, f)
    BY <2>1, Zenon
  <2> QED BY <2>0, <2>2, <2>3, <2>4
<1> QED BY <1>1, <1>2, <1>3 DEF FrameOK

(* The outcomes of a packet, frame by frame.                               *)
AfterFrame(outcomes, f) == UNION {ParseFrame(a, f) : a \in outcomes}

FrameByFrame(h, first, frames, m) ==
  h = [k \in 0..m |-> IF k = 0 THEN first ELSE AfterFrame(h[k - 1], frames[k])]

LEMMA FramesParsed ==
  ASSUME NEW first, NEW frames, NEW n \in Nat
  PROVE  \E h : FrameByFrame(h, first, frames, n)
<1> DEFINE T == {m \in Nat : \E h : FrameByFrame(h, first, frames, m)}
<1>1. 0 \in T
  <2> DEFINE h == [k \in 0..0 |-> first]
  <2>1. \A k \in 0..0 : k = 0
    OBVIOUS
  <2>2. FrameByFrame(h, first, frames, 0)
    BY <2>1 DEF FrameByFrame
  <2> QED BY <2>2
<1>2. ASSUME NEW m \in T PROVE m + 1 \in T
  <2>1. m \in Nat
    OBVIOUS
  <2>2. PICK h : FrameByFrame(h, first, frames, m)
    OBVIOUS
  <2> DEFINE x == AfterFrame(h[m], frames[m + 1])
             e == [k \in 0..m + 1 |-> IF k \in 0..m THEN h[k] ELSE x]
  <2>3. \A k \in 0..m : h[k] = IF k = 0 THEN first ELSE AfterFrame(h[k - 1], frames[k])
    BY <2>2 DEF FrameByFrame
  <2> HIDE DEF x
  <2>4. ASSUME NEW k \in 0..m + 1
        PROVE  e[k] = IF k = 0 THEN first ELSE AfterFrame(e[k - 1], frames[k])
    <3>1. CASE k \in 0..m
      <4>1. k # 0 => k - 1 \in 0..m /\ k - 1 \in 0..m + 1
        BY <2>1, <3>1
      <4>2. e[k] = h[k] /\ (k # 0 => e[k - 1] = h[k - 1])
        BY <3>1, <4>1
      <4> HIDE DEF e
      <4> QED BY <2>3, <3>1, <4>2
    <3>2. CASE k \notin 0..m
      <4>1. k = m + 1 /\ k # 0 /\ k - 1 = m /\ m \in 0..m /\ m \in 0..m + 1
        BY <2>1, <3>2
      <4>2. e[k] = x /\ e[k - 1] = h[m]
        BY <3>2, <4>1
      <4> HIDE DEF e
      <4> QED BY <4>1, <4>2 DEF x
    <3> QED BY <3>1, <3>2
  <2>5. e = [k \in 0..m + 1 |-> e[k]]
    OBVIOUS
  <2> HIDE DEF e
  <2>6. FrameByFrame(e, first, frames, m + 1)
    BY <2>4, <2>5 DEF FrameByFrame
  <2> QED BY <2>1, <2>6
<1> HIDE DEF T
<1>3. T \in SUBSET Nat
  BY DEF T
<1>4. T = Nat
  BY <1>1, <1>2, <1>3, SetInduction
<1> QED BY <1>4 DEF T

LEMMA ParseFramesIs ==
  ASSUME NEW c, NEW frames, Len(frames) \in Nat
  PROVE  \E h : /\ FrameByFrame(h, {OutcomeOf(c, {}, {}, FALSE)}, frames, Len(frames))
                /\ ParseFrames(c, frames) = h[Len(frames)]
<1> DEFINE n == Len(frames)
           first == {OutcomeOf(c, {}, {}, FALSE)}
           g == CHOOSE h : FrameByFrame(h, first, frames, n)
<1>1. FrameByFrame(g, first, frames, n)
  <2>1. \E h : FrameByFrame(h, first, frames, n)
    BY FramesParsed
  <2> HIDE DEF first, n
  <2> QED BY <2>1
<1>2. ParseFrames(c, frames) = g[n]
  BY Zenon DEF ParseFrames, FrameByFrame, AfterFrame, OutcomeOf
<1> HIDE DEF g
<1> QED BY <1>1, <1>2

(* All frames of a packet.                                                 *)
LEMMA FramesFollowed ==
  ASSUME NEW c, NEW frames, NEW l
  PROVE  /\ NothingParsed(OutcomeOf(c, {}, {}, FALSE)) /\ Said(content, l) /\ FramesOK(content, frames)
         /\ delivered \in Seq(AnyUnit)
         => \A b \in ParseFrames(c, frames) : PacketFollowed(b)
<1> SUFFICES ASSUME NothingParsed(OutcomeOf(c, {}, {}, FALSE)), Said(content, l),
                    FramesOK(content, frames), delivered \in Seq(AnyUnit)
             PROVE  \A b \in ParseFrames(c, frames) : PacketFollowed(b)
  OBVIOUS
<1> DEFINE n == Len(frames)
           o == OutcomeOf(c, {}, {}, FALSE)
           first == {o}
<1>1. n \in Nat /\ (\A k \in 1..n : FrameOK(content, frames[k]))
      /\ \A k \in 1..n - 1 : frames[k].type = "NEW_CONNECTION_ID"
  BY DEF FramesOK
<1>2. PICK h : FrameByFrame(h, first, frames, n) /\ ParseFrames(c, frames) = h[n]
  BY <1>1, ParseFramesIs
<1>3. NothingParsed(o)
  OBVIOUS
<1> HIDE DEF o, n
<1>4. h[0] = first /\ \A k \in 1..n : h[k] = AfterFrame(h[k - 1], frames[k])
  <2>1. \A k \in 0..n : h[k] = IF k = 0 THEN first ELSE AfterFrame(h[k - 1], frames[k])
    <3> HIDE DEF first
    <3> QED BY <1>2 DEF FrameByFrame
  <2>2. 0 \in 0..n /\ \A k \in 1..n : k \in 0..n /\ k # 0
    BY <1>1
  <2> HIDE DEF first
  <2> QED BY <2>1, <2>2
<1> DEFINE T == {k \in Nat : k <= n => \A b \in h[k] : PacketFollowed(b) /\ (k < n => NothingParsed(b))}
<1>5. 0 \in T
  BY <1>3, <1>4 DEF NothingParsed
<1>6. ASSUME NEW k \in T PROVE k + 1 \in T
  <2>1. k \in Nat
    OBVIOUS
  <2>2. SUFFICES ASSUME k + 1 <= n, NEW b \in h[k + 1]
                 PROVE  PacketFollowed(b) /\ (k + 1 < n => NothingParsed(b))
    BY <2>1
  <2>3. k + 1 \in 1..n /\ (k + 1) - 1 = k /\ k <= n /\ k < n /\ (k + 1 < n => k + 1 \in 1..n - 1)
    BY <1>1, <2>1, <2>2
  <2> DEFINE f == frames[k + 1]
  <2>4. PICK a \in h[k] : b \in ParseFrame(a, f)
    <3>1. h[k + 1] = AfterFrame(h[k], f)
      BY <1>4, <2>3
    <3> QED BY <2>2, <3>1 DEF AfterFrame
  <2>5. NothingParsed(a)
    BY <2>3, <2>4
  <2>6. FrameOK(content, f)
    BY <1>1, <2>3
  <2>7. k + 1 < n => f.type = "NEW_CONNECTION_ID"
    BY <1>1, <2>3
  <2> HIDE DEF f, T
  <2>8. NothingParsed(a) /\ Said(content, l) /\ FrameOK(content, f) /\ delivered \in Seq(AnyUnit)
    BY <2>5, <2>6
  <2>9. PacketFollowed(b) /\ (f.type = "NEW_CONNECTION_ID" => NothingParsed(b))
    BY ONLY <2>4, <2>8, FrameFollowed, Zenon
  <2> QED BY <2>7, <2>9
<1>7. T = Nat
  <2>1. T \in SUBSET Nat
    OBVIOUS
  <2> HIDE DEF T
  <2> QED BY <1>5, <1>6, <2>1, SetInduction
<1>8. \A b \in h[n] : PacketFollowed(b)
  <2>1. n \in T /\ n <= n
    BY <1>1, <1>7
  <2> QED BY <2>1
<1> QED BY <1>2, <1>8

-----------------------------------------------------------------------------
(* Calls of tls_core_recv, and the server.                                 *)

(* What tls_core_recv returns is gone from rx_buf.                         *)
RestIn(s, x) == [s EXCEPT !.rx = x]

LEMMA RestTyped ==
  ASSUME NEW s, NEW x
  PROVE  s \in StreamRecords /\ x \in Seq(AnyUnit) /\ Len(x) < RxSize =>
           /\ RestIn(s, x) \in StreamRecords
           /\ RestIn(s, x).stream_id = s.stream_id /\ RestIn(s, x).rx = x
           /\ RestIn(s, x).parsed = s.parsed /\ RestIn(s, x).state = s.state
           /\ RestIn(s, x).rem = s.rem /\ RestIn(s, x).fin = s.fin
  BY DEF StreamRecords, RestIn

Taken(c, n) ==
  LET rx == c.streams[1].rx
  IN [c EXCEPT !.streams[1].rx = SubSeq(rx, n + 1, Len(rx))]

LEMMA TakenIs ==
  ASSUME NEW c, NEW n
  PROVE  ConnOK(c) =>
           LET rx == c.streams[1].rx
               z == RestIn(c.streams[1], SubSeq(rx, n + 1, Len(rx)))
           IN Taken(c, n) = ConnOf(Stored(c.streams, 1, z), c.table, c.rx_data, c.max_rx_data,
                                   c.is_closed, c.next_sid)
<1> SUFFICES ASSUME ConnOK(c)
             PROVE  LET rx == c.streams[1].rx
                        z == RestIn(c.streams[1], SubSeq(rx, n + 1, Len(rx)))
                    IN Taken(c, n) = ConnOf(Stored(c.streams, 1, z), c.table, c.rx_data, c.max_rx_data,
                                            c.is_closed, c.next_sid)
  OBVIOUS
<1> DEFINE x == SubSeq(c.streams[1].rx, n + 1, Len(c.streams[1].rx))
           f == c.streams
           t == c.table
           r == c.rx_data
           m == c.max_rx_data
           b == c.is_closed
           k == c.next_sid
<1>1. c = [streams |-> f, table |-> t, rx_data |-> r, max_rx_data |-> m, is_closed |-> b, next_sid |-> k]
  BY DEF ConnOK
<1>2. Taken(c, n) = [c EXCEPT !.streams[1].rx = x]
  BY DEF Taken
<1> HIDE DEF x, f, t, r, m, b, k
<1>3. [c EXCEPT !.streams[1].rx = x]
        = [streams |-> [f EXCEPT ![1].rx = x], table |-> t, rx_data |-> r, max_rx_data |-> m,
           is_closed |-> b, next_sid |-> k]
  BY ONLY <1>1
<1>4. [f EXCEPT ![1].rx = x] = Stored(f, 1, RestIn(f[1], x))
  BY DEF Stored, RestIn
<1> DEFINE h == Stored(f, 1, RestIn(f[1], x))
<1> HIDE DEF h
<1>5. Taken(c, n) = ConnOf(h, t, r, m, b, k)
  BY <1>2, <1>3, <1>4 DEF ConnOf, h
<1> QED BY <1>5 DEF h, x, f, t, r, m, b, k

(* The rest of s behind its first n elements.                              *)
InTwo(d, s, n) ==
  /\ SubSeq(s, 1, n) \in Seq(AnyUnit) /\ SubSeq(s, n + 1, Len(s)) \in Seq(AnyUnit)
  /\ Len(SubSeq(s, n + 1, Len(s))) = Len(s) - n
  /\ d \o SubSeq(s, 1, n) \in Seq(AnyUnit)
  /\ (d \o SubSeq(s, 1, n)) \o SubSeq(s, n + 1, Len(s)) = d \o s

LEMMA InTwoParts ==
  ASSUME NEW d, NEW s, NEW n
  PROVE  d \in Seq(AnyUnit) /\ s \in Seq(AnyUnit) /\ n \in 0..Len(s) => InTwo(d, s, n)
<1> DEFINE S == AnyUnit
           e == Len(s)
           x == SubSeq(s, 1, n)
           y == SubSeq(s, n + 1, e)
<1> SUFFICES ASSUME d \in Seq(S), s \in Seq(S), n \in 0..e
             PROVE  /\ x \in Seq(S) /\ y \in Seq(S) /\ Len(y) = e - n
                    /\ d \o x \in Seq(S) /\ (d \o x) \o y = d \o s
  BY DEF InTwo
<1> HIDE DEF S
<1>1. e \in Nat /\ n \in Nat
  OBVIOUS
<1>2. IsSlice(S, s, 0, n, Slice(s, 0, n)) /\ IsSlice(S, s, n, e, Slice(s, n, e)) /\ IsSlice(S, s, 0, e, Slice(s, 0, e))
  <2>1. s \in Seq(S) /\ e \in 0..Len(s) /\ n \in 0..Len(s) /\ 0 \in 0..n /\ n \in 0..e /\ 0 \in 0..e
    BY <1>1
  <2> HIDE DEF e
  <2> QED BY ONLY <2>1, SliceIs, Zenon
<1>3. Slice(s, 0, n) = x /\ Slice(s, n, e) = y
  <2>1. 0 + 1 = 1
    OBVIOUS
  <2> QED BY <2>1 DEF Slice
<1>4. SubSeq(s, 1, e) = s
  <2> DEFINE w == SubSeq(s, 1, e)
  <2>1. w = Slice(s, 0, e)
    <3>1. 0 + 1 = 1
      OBVIOUS
    <3> QED BY <3>1 DEF Slice
  <2> HIDE DEF w
  <2>2. w \in Seq(S) /\ Len(w) = e - 0 /\ \A i \in 1..e - 0 : w[i] = s[0 + i]
    BY <1>2, <2>1 DEF IsSlice
  <2>3. e - 0 = e /\ \A i \in 1..e : 0 + i = i
    BY <1>1
  <2>4. w \in Seq(S) /\ s \in Seq(S) /\ Len(w) = Len(s) /\ \A i \in 1..Len(w) : w[i] = s[i]
    BY <2>2, <2>3
  <2>5. w = s
    BY ONLY <2>4, SeqEqual
  <2> QED BY <2>5 DEF w
<1>5. (d \o x) \o y = d \o SubSeq(s, 1, e)
  <2>1. d \in Seq(S) /\ s \in Seq(S) /\ e \in 0..Len(s) /\ n \in 0..e
    BY <1>1
  <2> HIDE DEF e
  <2> QED BY ONLY <2>1, PrefixGrows DEF x, y
<1>6. x \in Seq(S) /\ y \in Seq(S) /\ Len(y) = e - n
  BY <1>2, <1>3 DEF IsSlice
<1>7. d \o x \in Seq(S)
  <2> HIDE DEF x
  <2> QED BY <1>6
<1> QED BY <1>4, <1>5, <1>6, <1>7

(* tls_core_recv hands over what is in front.                              *)
LEMMA TakenKeeps ==
  ASSUME NEW c, NEW n, NEW d, NEW u
  PROVE  /\ ConnOK(c) /\ n \in 0..Len(c.streams[1].rx) /\ d \in Seq(AnyUnit)
         => /\ ConnOK(Taken(c, n)) /\ Taken(c, n).table = c.table
            /\ d \o SubSeq(c.streams[1].rx, 1, n) \in Seq(AnyUnit)
            /\ \A m : ResponseFollowed(u, c, m, d) =>
                        ResponseFollowed(u, Taken(c, n), m, d \o SubSeq(c.streams[1].rx, 1, n))
            /\ \A m : EncoderFollowed(c, m) => EncoderFollowed(Taken(c, n), m)
<1> DEFINE g == c.streams
           s == g[1]
           rx == s.rx
           x == SubSeq(rx, 1, n)
           y == SubSeq(rx, n + 1, Len(rx))
           z == RestIn(s, y)
           e == Taken(c, n)
<1> SUFFICES ASSUME ConnOK(c), n \in 0..Len(rx), d \in Seq(AnyUnit)
             PROVE  /\ ConnOK(e) /\ e.table = c.table /\ d \o x \in Seq(AnyUnit)
                    /\ \A m : ResponseFollowed(u, c, m, d) => ResponseFollowed(u, e, m, d \o x)
                    /\ \A m : EncoderFollowed(c, m) => EncoderFollowed(e, m)
  OBVIOUS
<1>1. /\ g \in Seq(StreamRecords) /\ Len(g) \in 1..MaxStreams /\ g[1].stream_id = 0
      /\ c.table \in Tables(Entry) /\ c.rx_data \in Nat /\ c.max_rx_data \in Nat
  BY DEF ConnOK
<1>2. 1 \in 1..Len(g) /\ s \in StreamRecords
  <2> DEFINE S == StreamRecords
             h == g
             k == MaxStreams
  <2>1. h \in Seq(S) /\ Len(h) \in 1..k /\ k \in Nat
    BY <1>1, SizesAssumption
  <2> HIDE DEF S, h, k
  <2>2. 1 \in 1..Len(h) /\ h[1] \in S
    BY ONLY <2>1
  <2> QED BY <2>2 DEF S, h
<1>3. rx \in Seq(AnyUnit) /\ Len(rx) < RxSize /\ RxSize \in Nat
  BY <1>2, SizesAssumption DEF StreamRecords
<1>4. /\ y \in Seq(AnyUnit) /\ Len(y) = Len(rx) - n
      /\ d \o x \in Seq(AnyUnit) /\ (d \o x) \o y = d \o rx
  <2>1. d \in Seq(AnyUnit) /\ rx \in Seq(AnyUnit) /\ n \in 0..Len(rx)
    BY <1>3
  <2> HIDE DEF rx
  <2>2. InTwo(d, rx, n)
    BY ONLY <2>1, InTwoParts, Zenon
  <2> QED BY <2>2, Zenon DEF InTwo
<1>5. Len(y) < RxSize
  <2> DEFINE k == Len(rx)
             j == Len(y)
  <2>1. k \in Nat /\ n \in 0..k /\ j = k - n /\ k < RxSize /\ RxSize \in Nat
    BY <1>3, <1>4
  <2> HIDE DEF k, j
  <2>2. j < RxSize
    BY ONLY <2>1
  <2> QED BY <2>2 DEF j
<1>6. /\ z \in StreamRecords /\ z.stream_id = s.stream_id /\ z.rx = y /\ z.parsed = s.parsed
      /\ z.state = s.state /\ z.rem = s.rem /\ z.fin = s.fin
  <2> HIDE DEF s, y
  <2>1. s \in StreamRecords /\ y \in Seq(AnyUnit) /\ Len(y) < RxSize
    BY <1>2, <1>4, <1>5
  <2> QED BY ONLY <2>1, RestTyped, ZenonT(60)
<1>7. e = ConnOf(Stored(g, 1, z), c.table, c.rx_data, c.max_rx_data, c.is_closed, c.next_sid)
  BY TakenIs, Zenon
<1> HIDE DEF e, z
<1>8. Updated(c, e, 1, z)
  <2>1. /\ ConnOK(c) /\ 1 \in 1..Len(c.streams) /\ z \in StreamRecords
        /\ z.stream_id = c.streams[1].stream_id /\ c.table \in Tables(Entry) /\ c.rx_data \in Nat
        /\ c.max_rx_data \in Nat
    BY <1>1, <1>2, <1>6
  <2>2. Updated(c, ConnOf(Stored(c.streams, 1, z), c.table, c.rx_data, c.max_rx_data, c.is_closed, c.next_sid),
                1, z)
    BY ONLY <2>1, StoredIn, Zenon
  <2> QED BY <1>7, <2>2
<1>9. /\ ConnOK(e) /\ Len(e.streams) = Len(g) /\ e.streams[1] = z
      /\ \A j \in 1..Len(g) : j # 1 => e.streams[j] = g[j]
      /\ \A sid : Slots(e.streams, sid) = Slots(g, sid)
  <2>1. ConnOK(c) /\ Updated(c, e, 1, z)
    BY <1>8
  <2>2. /\ ConnOK(e) /\ Len(e.streams) = Len(c.streams) /\ e.streams[1] = z
        /\ \A j \in 1..Len(c.streams) : j # 1 => e.streams[j] = c.streams[j]
        /\ \A sid : Slots(e.streams, sid) = Slots(c.streams, sid)
    BY ONLY <2>1, UpdateKeeps
  <2> QED BY <2>2
<1>10. e.table = c.table /\ e.is_closed = c.is_closed
  BY <1>7, OutcomeParts
<1>11. ASSUME NEW m, ResponseFollowed(u, c, m, d) PROVE ResponseFollowed(u, e, m, d \o x)
  <2>1. ASSUME Spared(m, 0) PROVE FollowsBody(u, z, c.is_closed, d \o x)
    <3>1. FollowsBody(u, s, c.is_closed, d)
      BY <1>11, <2>1 DEF ResponseFollowed
    <3>2. \E B : Framed(u, B) /\ InFrame(u, B, z.parsed, z.state, z.rem)
      BY <1>6, <3>1, Zenon DEF FollowsBody
    <3>3. (d \o x) \o z.rx = BodyUpTo(u, z.parsed)
      <4>1. d \o rx = BodyUpTo(u, s.parsed)
        BY <3>1, Zenon DEF FollowsBody
      <4> HIDE DEF x, y, rx, s
      <4> QED BY <1>4, <1>6, <4>1
    <3>4. z.fin \/ c.is_closed => z.parsed = Len(u)
      BY <1>6, <3>1, Zenon DEF FollowsBody
    <3> HIDE DEF x
    <3> QED BY <3>2, <3>3, <3>4, Zenon DEF FollowsBody
  <2> QED BY <1>9, <1>10, <2>1 DEF ResponseFollowed
<1>12. ASSUME NEW k, EncoderAt(c, k) PROVE EncoderAt(e, k)
  <2>1. ASSUME NEW j \in Slots(g, EncoderStream) PROVE e.streams[j] = g[j]
    <3>1. j \in 1..Len(g) /\ g[j].stream_id = EncoderStream
      BY <1>1, SlotsAre
    <3>2. j # 1
      BY <1>1, <3>1 DEF EncoderStream
    <3> QED BY <1>9, <3>1, <3>2
  <2> QED BY <1>9, <1>10, <1>12, <2>1 DEF EncoderAt
<1>13. \A m : EncoderFollowed(c, m) => EncoderFollowed(e, m)
  BY <1>12 DEF EncoderFollowed
<1> QED BY <1>4, <1>9, <1>10, <1>11, <1>13

LEMMA GreatestOfTwo ==
  ASSUME NEW x \in Int, NEW y \in Int
  PROVE  Max({x, y}) \in Int
<1> DEFINE m == IF x >= y THEN x ELSE y
           S == {x, y}
<1>1. m \in S /\ \A z \in S : m >= z
  OBVIOUS
<1>2. S \subseteq Int
  OBVIOUS
<1> HIDE DEF m, S
<1>3. Max(S) \in S
  BY <1>1 DEF Max
<1> QED BY <1>2, <1>3 DEF S

LEMMA LeastOfFour ==
  ASSUME NEW a \in Int, NEW b \in Int, NEW c \in Int, NEW d \in Int
  PROVE  /\ Min({a, b, c, d}) \in Int /\ Min({a, b, c, d}) <= a /\ Min({a, b, c, d}) <= b
<1> DEFINE S == {a, b, c, d}
           v == IF a <= b THEN a ELSE b
           w == IF c <= d THEN c ELSE d
           m == IF v <= w THEN v ELSE w
<1>1. m \in S
  OBVIOUS
<1>2. m <= a /\ m <= b /\ m <= c /\ m <= d
  OBVIOUS
<1>3. \A z \in S : m <= z
  <2> HIDE DEF m
  <2> QED BY <1>2
<1>4. S \subseteq Int /\ a \in S /\ b \in S
  OBVIOUS
<1> HIDE DEF m, S
<1>5. Min(S) \in S /\ \A z \in S : Min(S) <= z
  BY <1>1, <1>3 DEF Min
<1> QED BY <1>4, <1>5 DEF S

(* How far the server has come.                                            *)
ServerOK(u, s) ==
  /\ s = [sent |-> s.sent, total |-> s.total, fin |-> s.fin, resend |-> s.resend, closed |-> s.closed]
  /\ s.sent \in [DOMAIN u -> Nat] /\ s.total \in Int
  /\ \A sid \in DOMAIN u : s.sent[sid] <= Len(u[sid])
  /\ \A frames \in s.resend : FramesOK(u, frames)

(* What the client has announced.                                          *)
LEMMA CreditsTyped ==
  ASSUME NEW sid
  PROVE  ConnOK(conn) => Credit(sid) \in Int /\ TotalCredit \in Int
<1> SUFFICES ASSUME ConnOK(conn) PROVE Credit(sid) \in Int /\ TotalCredit \in Int
  OBVIOUS
<1> DEFINE g == conn.streams
           I == Slots(g, sid)
           T == {g[i].max_rx_data : i \in I}
<1>1. StreamCredit \in Int /\ ConnCredit \in Int /\ conn.max_rx_data \in Int /\ g \in Seq(StreamRecords)
      /\ \A i, j \in 1..Len(g) : g[i].stream_id = g[j].stream_id => i = j
  BY SizesAssumption DEF ConnOK
<1>2. TotalCredit \in Int
  BY <1>1, GreatestOfTwo DEF TotalCredit
<1>3. I = {i \in 1..Len(g) : g[i].stream_id = sid}
  BY <1>1, SlotsAre
<1>4. Credit(sid) = Max({StreamCredit} \cup T)
  BY DEF Credit
<1>5. CASE I = {}
  <2>1. {StreamCredit} \cup T = {StreamCredit, StreamCredit}
    BY <1>5
  <2> QED BY <1>1, <1>2, <1>4, <2>1, GreatestOfTwo
<1>6. ASSUME NEW i \in I PROVE Credit(sid) \in Int
  <2>1. \A j \in I : j = i
    BY <1>1, <1>3
  <2> DEFINE x == g[i].max_rx_data
  <2>2. x \in Int
    <3>1. g[i] \in StreamRecords
      <4> DEFINE S == StreamRecords
                 h == g
      <4>1. h \in Seq(S) /\ i \in 1..Len(h)
        BY <1>1, <1>3
      <4> HIDE DEF S, h
      <4>2. h[i] \in S
        BY ONLY <4>1
      <4> QED BY <4>2 DEF S, h
    <3> QED BY <3>1 DEF StreamRecords
  <2>3. T = {x}
    BY <2>1
  <2> HIDE DEF x, T
  <2>4. {StreamCredit} \cup T = {StreamCredit, x}
    BY <2>3
  <2> QED BY <1>1, <1>4, <2>2, <2>4, GreatestOfTwo
<1> QED BY <1>2, <1>5, <1>6

(* A new frame.                                                            *)
LEMMA StreamSent ==
  ASSUME NEW sid, NEW fin, NEW piece, NEW n
  PROVE  /\ Said(content, load) /\ ServerOK(content, server) /\ ConnOK(conn)
         /\ sid \in DOMAIN content /\ fin \in BOOLEAN /\ piece \in {0} \cup Pieces[sid]
         /\ n = Min({piece, Len(content[sid]) - server.sent[sid], Credit(sid) - server.sent[sid],
                     TotalCredit - server.total})
         /\ n > 0 \/ fin
         /\ fin => n = Len(content[sid]) - server.sent[sid] /\ ~Unidirectional(sid)
         => n \in Nat /\ server.sent[sid] + n <= Len(content[sid])
            /\ StreamFrameOK(content, Stream(sid, n, fin))
<1> SUFFICES ASSUME Said(content, load), ServerOK(content, server), ConnOK(conn),
                    sid \in DOMAIN content, fin \in BOOLEAN, piece \in {0} \cup Pieces[sid],
                    n = Min({piece, Len(content[sid]) - server.sent[sid], Credit(sid) - server.sent[sid],
                             TotalCredit - server.total}),
                    n > 0 \/ fin,
                    fin => n = Len(content[sid]) - server.sent[sid] /\ ~Unidirectional(sid)
             PROVE  n \in Nat /\ server.sent[sid] + n <= Len(content[sid])
                    /\ StreamFrameOK(content, Stream(sid, n, fin))
  OBVIOUS
<1> DEFINE v == content[sid]
           b == server.sent[sid]
           l == Len(v)
           f == Stream(sid, n, fin)
           cr == Credit(sid)
           tc == TotalCredit
           to == server.total
<1>1. v \in Seq(AnyUnit) /\ l \in Nat /\ b \in Nat /\ b <= l /\ to \in Int
      /\ (Unidirectional(sid) <=> sid = EncoderStream)
  <2>1. v \in Seq(AnyUnit) /\ b \in Nat /\ b <= l /\ to \in Int
    BY DEF Said, ServerOK
  <2>2. l \in Nat
    BY <2>1, LenProperties
  <2> QED BY <2>1, <2>2, StreamIds
<1>2. cr \in Int /\ tc \in Int
  BY CreditsTyped
<1>3. piece \in Nat /\ piece < RxSize
  <2>1. sid \in DOMAIN Pieces
    BY LoadsAssumption DEF Said
  <2>2. Pieces[sid] \subseteq 0..RxSize - 1 /\ RxSize \in Nat \ {0}
    BY <2>1, PiecesAssumption, SizesAssumption
  <2> QED BY <2>2
<1> HIDE DEF cr, tc, to, l, b, v
<1>4. n = Min({piece, l - b, cr - b, tc - to}) /\ (n > 0 \/ fin)
      /\ (fin => n = l - b /\ ~Unidirectional(sid))
  BY DEF cr, tc, to, l, b, v
<1>5. n \in Int /\ n <= piece /\ n <= l - b
  <2> DEFINE x == l - b
             y == cr - b
             z == tc - to
  <2>1. piece \in Int /\ x \in Int /\ y \in Int /\ z \in Int
    BY <1>1, <1>2, <1>3
  <2>2. n = Min({piece, x, y, z})
    BY <1>4
  <2> HIDE DEF x, y, z
  <2>3. /\ Min({piece, x, y, z}) \in Int /\ Min({piece, x, y, z}) <= piece
        /\ Min({piece, x, y, z}) <= x
    BY ONLY <2>1, LeastOfFour
  <2> DEFINE k == Min({piece, x, y, z})
  <2> HIDE DEF k
  <2>4. n = k /\ k \in Int /\ k <= piece /\ k <= x
    BY <2>2, <2>3 DEF k
  <2> QED BY <2>4 DEF x
<1>6. n \in Nat /\ b + n \in 0..l /\ n < RxSize /\ b \in 0..b + n /\ (b + n) - b = n /\ b + n <= l
      /\ (fin => b + n = l)
  <2>1. /\ n \in Int /\ n <= piece /\ n <= l - b /\ l \in Nat /\ b \in Nat /\ b <= l
        /\ piece \in Nat /\ piece < RxSize /\ RxSize \in Nat /\ (n > 0 \/ fin) /\ (fin => n = l - b)
    BY <1>1, <1>3, <1>4, <1>5, SizesAssumption
  <2> QED BY ONLY <2>1
<1> DEFINE e == b + n
           x == Slice(v, b, e)
<1>7. f = [type |-> "STREAM", sid |-> sid, off |-> b, fin |-> fin, units |-> x]
  BY DEF Stream, Slice, v, b
<1>8. x \in Seq(AnyUnit) /\ Len(x) = n
  <2>1. v \in Seq(AnyUnit) /\ e \in 0..Len(v) /\ b \in 0..e
    BY <1>1, <1>6 DEF l
  <2>2. e - b = n
    BY <1>6
  <2> HIDE DEF e
  <2>3. IsSlice(AnyUnit, v, b, e, Slice(v, b, e))
    BY ONLY <2>1, SliceIs, Zenon
  <2> QED BY <2>2, <2>3 DEF IsSlice
<1> HIDE DEF f, x
<1>9. f.type = "STREAM" /\ f.sid = sid /\ f.off = b /\ f.fin = fin /\ f.units = x
  BY <1>7
<1>10. StreamFrameOK(content, f)
  <2>1. f.sid \in DOMAIN content /\ f.fin \in BOOLEAN /\ Len(f.units) = n /\ content[f.sid] = v
    BY <1>8, <1>9 DEF v
  <2>2. f.fin => f.off + n = Len(content[f.sid]) /\ f.sid # EncoderStream
    BY <1>1, <1>4, <1>6, <1>9, <2>1 DEF l
  <2>3. f.sid = EncoderStream => n > 0
    BY <1>4, <1>9, <2>2
  <2>4. f.units = Slice(content[f.sid], f.off, f.off + n) /\ f.off + n \in 0..Len(content[f.sid])
    BY <1>6, <1>9, <2>1 DEF x, l
  <2> QED BY <1>1, <1>6, <1>9, <2>1, <2>2, <2>3, <2>4 DEF StreamFrameOK
<1> QED BY <1>6, <1>10 DEF f, b, l, v

-----------------------------------------------------------------------------
(* The invariant.                                                          *)

(* The invariant of the connection: what there is to say and to call, ...  *)
ContentInv == Said(content, load) /\ caller_len \in Nat /\ delivered \in Seq(AnyUnit)

(* ... what the server has sent of it, ...                                 *)
ServerInv == ServerOK(content, server) /\ \A p \in flight : FramesOK(content, p.frames)

(* ... and how far the client has followed it.                             *)
ClientInv ==
  /\ ConnOK(conn)
  /\ ResponseFollowed(content[0], conn, mishaps, delivered)
  /\ EncoderFollowed(conn, mishaps)
  /\ FieldsFollowed(fields, mishaps)

ReceiveInv == ContentInv /\ ServerInv /\ ClientInv /\ EndMeansAll

(* What a step makes of the header table.                                  *)
TableGrows == conn'.table \in Reached(conn.table, Len(EncoderUnits))

LEMMA TableStays ==
  ASSUME ConnOK(conn)
  PROVE  conn.table \in Reached(conn.table, Len(EncoderUnits))
<1>1. 0 \in 0..Len(EncoderUnits)
  <2>1. EncoderUnits \in Seq(AnyUnit)
    BY EncoderStreamIs DEF EncoderLaidOut
  <2>2. Len(EncoderUnits) \in Nat
    BY <2>1, LenProperties
  <2> QED BY <2>2
<1>2. conn.table \in Tables(Entry)
  BY DEF ConnOK
<1> QED BY <1>1, <1>2, AddsNone DEF Reached

(* Where tls_core_recv reports the end, there is no more.                  *)
LEMMA EndIsEnd ==
  ASSUME NEW c, NEW u, NEW m, NEW d
  PROVE  /\ ResponseFollowed(u, c, m, d) /\ Spared(m, 0) /\ Finished(c)
         /\ u \in Seq(AnyUnit) /\ d \in Seq(AnyUnit)
         => d = Body(u)
<1> SUFFICES ASSUME ResponseFollowed(u, c, m, d), Spared(m, 0), Finished(c),
                    u \in Seq(AnyUnit), d \in Seq(AnyUnit)
             PROVE  d = Body(u)
  OBVIOUS
<1> DEFINE s == c.streams[1]
<1>1. FollowsBody(u, s, c.is_closed, d)
  BY DEF ResponseFollowed
<1>2. d \o s.rx = BodyUpTo(u, s.parsed) /\ (s.fin \/ c.is_closed => s.parsed = Len(u))
  BY <1>1, Zenon DEF FollowsBody
<1>3. s.rx = <<>> /\ (c.is_closed \/ s.fin)
  BY DEF Finished
<1>4. BodyUpTo(u, Len(u)) = Body(u)
  BY FrontsOfBody DEF BodyFronts
<1> HIDE DEF s
<1>5. s.parsed = Len(u)
  BY <1>2, <1>3, Zenon
<1>6. d \o <<>> = d
  OBVIOUS
<1>7. d \o <<>> = Body(u)
  BY <1>2, <1>3, <1>4, <1>5
<1> QED BY <1>6, <1>7

(* A call of tls_core_recv that has come to c.                             *)
LEMMA ReturnFollowed ==
  ASSUME NEW c, NEW u, NEW m,
         ConnOK(c), caller_len \in Nat, delivered \in Seq(AnyUnit),
         ResponseFollowed(u, c, m, delivered), EncoderFollowed(c, m), Return(c)
  PROVE  /\ ConnOK(conn') /\ conn'.table = c.table /\ delivered' \in Seq(AnyUnit)
         /\ ResponseFollowed(u, conn', m, delivered') /\ EncoderFollowed(conn', m)
         /\ c.streams[1].rx = <<>> => delivered' = delivered
<1> DEFINE rx == c.streams[1].rx
           n == IF Len(rx) < caller_len THEN Len(rx) ELSE caller_len
<1>1. delivered' = delivered \o SubSeq(rx, 1, n) /\ conn' = Taken(c, n)
  BY DEF Return, Taken
<1>2. rx \in Seq(AnyUnit)
  <2>1. c.streams \in Seq(StreamRecords) /\ Len(c.streams) \in 1..MaxStreams
    BY DEF ConnOK
  <2>2. c.streams[1] \in StreamRecords
    <3> DEFINE S == StreamRecords
               h == c.streams
               k == MaxStreams
    <3>1. h \in Seq(S) /\ Len(h) \in 1..k /\ k \in Nat
      BY <2>1, SizesAssumption
    <3> HIDE DEF S, h, k
    <3>2. h[1] \in S
      BY ONLY <3>1
    <3> QED BY <3>2 DEF S, h
  <2> QED BY <2>2 DEF StreamRecords
<1>3. Len(rx) \in Nat /\ caller_len \in Nat
  BY <1>2, LenProperties
<1>4. n \in 0..Len(rx)
  <2> HIDE DEF rx
  <2> QED BY <1>3
<1>5. ASSUME rx = <<>> PROVE delivered' = delivered
  <2>1. Len(rx) = 0 /\ n = 0
    BY <1>3, <1>5
  <2>2. SubSeq(rx, 1, n) = <<>>
    BY <1>5, <2>1
  <2>3. delivered \o <<>> = delivered
    OBVIOUS
  <2> HIDE DEF n, rx
  <2> QED BY <1>1, <2>2, <2>3
<1> DEFINE d == delivered
           x == SubSeq(rx, 1, n)
           e == Taken(c, n)
<1>6. /\ ConnOK(e) /\ e.table = c.table /\ d \o x \in Seq(AnyUnit)
      /\ \A k : ResponseFollowed(u, c, k, d) => ResponseFollowed(u, e, k, d \o x)
      /\ \A k : EncoderFollowed(c, k) => EncoderFollowed(e, k)
  <2>1. ConnOK(c) /\ n \in 0..Len(c.streams[1].rx) /\ d \in Seq(AnyUnit)
    BY <1>4
  <2> HIDE DEF n, d
  <2> QED BY ONLY <2>1, TakenKeeps, Zenon
<1> HIDE DEF e, x
<1>7. delivered' = d \o x /\ conn' = e
  BY <1>1 DEF e, x
<1> QED BY <1>5, <1>6, <1>7

(* A packet that is parsed.                                                *)
LEMMA ParsedKeeps ==
  ASSUME ReceiveInv, NEW p \in flight, conn.streams[1].rx = <<>>, Parsed(p),
         UNCHANGED <<content, load, caller_len>>
  PROVE  ContentInv' /\ ClientInv' /\ EndMeansAll' /\ TableGrows
<1> DEFINE o == OutcomeOf(conn, {}, {}, FALSE)
           u == content[0]
<1>1. /\ Said(content, load) /\ caller_len \in Nat /\ delivered \in Seq(AnyUnit)
      /\ FramesOK(content, p.frames)
      /\ ConnOK(conn) /\ ResponseFollowed(u, conn, mishaps, delivered)
      /\ EncoderFollowed(conn, mishaps) /\ FieldsFollowed(fields, mishaps)
  BY DEF ReceiveInv, ContentInv, ServerInv, ClientInv
<1>2. PICK a \in ParseFrames(conn, p.frames) :
        /\ Return(a.conn) /\ ended' = Finished(a.conn)
        /\ fields' = fields \cup a.fields /\ mishaps' = mishaps \cup a.mishaps
  BY DEF Parsed
<1>3. NothingParsed(o)
  <2>1. o.conn = conn /\ o.fields = {} /\ o.mishaps = {} /\ Outcome(o)
    <3> DEFINE no == FALSE
    <3> HIDE DEF no
    <3>1. o = OutcomeOf(conn, {}, {}, no)
      BY DEF no
    <3> HIDE DEF o
    <3> QED BY ONLY <3>1 DEF OutcomeOf, Outcome
  <2>4. mishaps \cup o.mishaps = mishaps
    BY <2>1
  <2>2. FieldsFollowed({}, mishaps)
    BY DEF FieldsFollowed
  <2>3. conn.table \in Reached(conn.table, Len(EncoderUnits))
    BY <1>1, TableStays
  <2> HIDE DEF o
  <2> QED BY <1>1, <2>1, <2>2, <2>3, <2>4 DEF NothingParsed, PacketFollowed
<1>4. PacketFollowed(a)
  <2>1. NothingParsed(o) /\ Said(content, load) /\ FramesOK(content, p.frames) /\ delivered \in Seq(AnyUnit)
    BY <1>1, <1>3
  <2>2. \A b \in ParseFrames(conn, p.frames) : PacketFollowed(b)
    BY ONLY <2>1, FramesFollowed, Zenon
  <2> QED BY <1>2, <2>2
<1> DEFINE c == a.conn
           m == mishaps \cup a.mishaps
<1>5. /\ ConnOK(c) /\ ResponseFollowed(u, c, m, delivered)
      /\ EncoderFollowed(c, m) /\ FieldsFollowed(a.fields, m)
      /\ c.table \in Reached(conn.table, Len(EncoderUnits))
  BY <1>4 DEF PacketFollowed
<1> HIDE DEF c, m, u
<1>6. /\ ConnOK(conn') /\ conn'.table = c.table /\ delivered' \in Seq(AnyUnit)
      /\ ResponseFollowed(u, conn', m, delivered') /\ EncoderFollowed(conn', m)
      /\ c.streams[1].rx = <<>> => delivered' = delivered
  <2>1. ConnOK(c) /\ caller_len \in Nat /\ delivered \in Seq(AnyUnit)
        /\ ResponseFollowed(u, c, m, delivered) /\ EncoderFollowed(c, m) /\ Return(c)
    BY <1>1, <1>2, <1>5 DEF c
  <2> QED BY ONLY <2>1, ReturnFollowed
<1>7. FieldsFollowed(fields \cup a.fields, m)
  <2>1. FieldsFollowed(fields, m)
    <3>1. FieldsFollowed(fields, mishaps)
      BY <1>1
    <3> QED BY ONLY <3>1, LaterMishaps, Zenon DEF m
  <2> QED BY <1>5, <2>1 DEF FieldsFollowed
<1>8. mishaps' = m /\ content' = content /\ load' = load /\ caller_len' = caller_len
      /\ fields' = fields \cup a.fields /\ ended' = Finished(c)
  BY <1>2 DEF m, c
<1>9. ASSUME ended', Spared(m, 0) PROVE delivered' = Body(u)
  <2>1. u \in Seq(AnyUnit)
    BY <1>1, StreamIds DEF Said, u
  <2>2. /\ ResponseFollowed(u, c, m, delivered) /\ Spared(m, 0) /\ Finished(c)
        /\ u \in Seq(AnyUnit) /\ delivered \in Seq(AnyUnit)
    BY <1>1, <1>5, <1>8, <1>9, <2>1, Zenon
  <2>3. delivered = Body(u)
    BY ONLY <2>2, EndIsEnd, Zenon
  <2>4. c.streams[1].rx = <<>>
    BY <2>2 DEF Finished
  <2> QED BY <1>6, <2>3, <2>4
<1>10. ContentInv'
  BY <1>1, <1>6, <1>8 DEF ContentInv
<1>11. ClientInv'
  BY <1>6, <1>7, <1>8 DEF ClientInv, u
<1>12. EndMeansAll'
  BY <1>8, <1>9, Zenon DEF EndMeansAll, Whole, Spared, u
<1>13. TableGrows
  BY <1>5, <1>6 DEF TableGrows
<1> QED BY <1>10, <1>11, <1>12, <1>13

(* What the client has, and what it has come to, stay.                     *)
LEMMA ClientStays ==
  ASSUME ReceiveInv, UNCHANGED <<conn, content, load, caller_len, delivered, fields, mishaps>>
  PROVE  ContentInv' /\ ClientInv' /\ TableGrows
<1>1. ContentInv'
  BY DEF ReceiveInv, ContentInv
<1>2. ClientInv'
  BY DEF ReceiveInv, ClientInv
<1>3. TableGrows
  BY TableStays DEF ReceiveInv, ClientInv, TableGrows
<1> QED BY <1>1, <1>2, <1>3

(* The end, reported without a packet.                                     *)
LEMMA FinishedKeeps ==
  ASSUME ReceiveInv, UNCHANGED <<conn, content, delivered, mishaps>>, ended' => Finished(conn)
  PROVE  EndMeansAll'
<1> DEFINE u == content[0]
<1>1. ASSUME ended', Spared(mishaps, 0) PROVE delivered = Body(u)
  <2>1. u \in Seq(AnyUnit)
    BY StreamIds DEF ReceiveInv, ContentInv, Said
  <2>2. /\ ResponseFollowed(u, conn, mishaps, delivered) /\ Spared(mishaps, 0) /\ Finished(conn)
        /\ u \in Seq(AnyUnit) /\ delivered \in Seq(AnyUnit)
    BY <1>1, <2>1 DEF ReceiveInv, ContentInv, ClientInv
  <2> HIDE DEF u
  <2> QED BY ONLY <2>2, EndIsEnd, Zenon
<1> QED BY <1>1, Zenon DEF EndMeansAll, Whole, Spared

(* Where the end is not reported nothing is said of it.                    *)
LEMMA NotEnded ==
  ASSUME ~ended, UNCHANGED ended
  PROVE  EndMeansAll'
  BY DEF EndMeansAll

(* A packet that is received, decrypted or not.                            *)
LEMMA ReceiveKeepsClient ==
  ASSUME ReceiveInv, NEW p \in flight, Receive(p)
  PROVE  ContentInv' /\ ClientInv' /\ EndMeansAll' /\ TableGrows
<1>1. UNCHANGED <<content, load, caller_len>> /\ conn.streams[1].rx = <<>>
      /\ (Parsed(p) \/ NotDecrypted)
  BY DEF Receive
<1>2. CASE Parsed(p)
  BY <1>1, <1>2, ParsedKeeps
<1>3. CASE NotDecrypted
  <2>1. UNCHANGED <<conn, content, load, caller_len, delivered, fields, mishaps>>
        /\ ended' = Finished(conn)
    BY <1>1, <1>3 DEF NotDecrypted
  <2>2. ContentInv' /\ ClientInv' /\ TableGrows
    BY <2>1, ClientStays
  <2>3. EndMeansAll'
    BY <2>1, FinishedKeeps
  <2> QED BY <2>2, <2>3
<1> QED BY <1>1, <1>2, <1>3

(* A request.                                                              *)
LEMMA SendKeeps ==
  ASSUME ReceiveInv, SendRequest
  PROVE  ContentInv' /\ ClientInv' /\ EndMeansAll' /\ TableGrows
<1> DEFINE u == content[0]
           sent(c, k) == [c EXCEPT !.next_sid = k]
<1>1. /\ Said(content, load) /\ ContentInv
      /\ ConnOK(conn) /\ ResponseFollowed(u, conn, mishaps, delivered)
      /\ EncoderFollowed(conn, mishaps) /\ FieldsFollowed(fields, mishaps)
  BY DEF ReceiveInv, ContentInv, ClientInv
<1>2. PICK fits \in BOOLEAN :
        /\ ~ended /\ conn' = [conn EXCEPT !.next_sid = IF fits THEN @ + 4 ELSE @]
        /\ mishaps' = IF fits THEN mishaps ELSE mishaps \cup {<<"unsent", conn.next_sid>>}
        /\ UNCHANGED <<caller_len, load, ended, content, delivered, fields>>
  BY DEF SendRequest
<1> DEFINE k == IF fits THEN conn.next_sid + 4 ELSE conn.next_sid
           x == IF fits THEN {} ELSE {<<"unsent", conn.next_sid>>}
<1>3. mishaps' = mishaps \cup x
  BY <1>2
<1>4. conn' = sent(conn, k)
  BY <1>2
<1>5. k \in Nat
  BY <1>1 DEF ConnOK
<1> HIDE DEF k, x
<1>6. /\ ConnOK(conn') /\ conn'.streams = conn.streams /\ conn'.table = conn.table
      /\ conn'.is_closed = conn.is_closed
  <2>1. \A c : ConnOK(c) => /\ ConnOK(sent(c, k)) /\ sent(c, k).streams = c.streams
                            /\ sent(c, k).table = c.table /\ sent(c, k).is_closed = c.is_closed
    BY <1>5 DEF ConnOK
  <2> HIDE DEF sent
  <2> QED BY <1>1, <1>4, <2>1
<1>7. ResponseFollowed(u, conn', mishaps, delivered) /\ EncoderFollowed(conn', mishaps)
  BY <1>1, <1>6 DEF ResponseFollowed, EncoderFollowed, EncoderAt
<1> HIDE DEF u
<1>8. /\ ResponseFollowed(u, conn', mishaps \cup x, delivered)
      /\ EncoderFollowed(conn', mishaps \cup x) /\ FieldsFollowed(fields, mishaps \cup x)
  BY <1>1, <1>7, LaterMishaps, Zenon
<1>9. ClientInv'
  BY <1>2, <1>3, <1>6, <1>8 DEF ClientInv, u
<1>10. ContentInv'
  BY <1>1, <1>2 DEF ContentInv
<1>11. EndMeansAll'
  BY <1>2, NotEnded
<1>12. TableGrows
  BY <1>1, <1>6, TableStays DEF TableGrows
<1> QED BY <1>9, <1>10, <1>11, <1>12

(* A call that finds data in rx_buf.                                       *)
LEMMA BufferedKeeps ==
  ASSUME ReceiveInv, RecvBuffered
  PROVE  ContentInv' /\ ClientInv' /\ EndMeansAll' /\ TableGrows
<1> DEFINE u == content[0]
<1>1. /\ Said(content, load) /\ caller_len \in Nat /\ delivered \in Seq(AnyUnit)
      /\ ConnOK(conn) /\ ResponseFollowed(u, conn, mishaps, delivered)
      /\ EncoderFollowed(conn, mishaps) /\ FieldsFollowed(fields, mishaps)
  BY DEF ReceiveInv, ContentInv, ClientInv
<1>2. /\ ~ended /\ Return(conn)
      /\ UNCHANGED <<caller_len, load, ended, content, fields, mishaps>>
  BY DEF RecvBuffered
<1>3. /\ ConnOK(conn') /\ conn'.table = conn.table /\ delivered' \in Seq(AnyUnit)
      /\ ResponseFollowed(u, conn', mishaps, delivered') /\ EncoderFollowed(conn', mishaps)
  <2>1. ConnOK(conn) /\ caller_len \in Nat /\ delivered \in Seq(AnyUnit)
        /\ ResponseFollowed(u, conn, mishaps, delivered) /\ EncoderFollowed(conn, mishaps) /\ Return(conn)
    BY <1>1, <1>2
  <2> HIDE DEF u
  <2> QED BY ONLY <2>1, ReturnFollowed
<1>4. ContentInv'
  BY <1>1, <1>2, <1>3 DEF ContentInv
<1>5. ClientInv'
  BY <1>1, <1>2, <1>3 DEF ClientInv
<1>6. EndMeansAll'
  BY <1>2, NotEnded
<1>7. TableGrows
  BY <1>1, <1>3, TableStays DEF TableGrows
<1> QED BY <1>4, <1>5, <1>6, <1>7

ServerOf(a, b, c, d, e) == [sent |-> a, total |-> b, fin |-> c, resend |-> d, closed |-> e]

LEMMA ServerParts ==
  ASSUME NEW u, NEW s
  PROVE  ServerOK(u, s) => /\ s = ServerOf(s.sent, s.total, s.fin, s.resend, s.closed)
                           /\ s.sent \in [DOMAIN u -> Nat] /\ s.total \in Int
                           /\ \A sid \in DOMAIN u : s.sent[sid] <= Len(u[sid])
                           /\ \A frames \in s.resend : FramesOK(u, frames)
  BY Zenon DEF ServerOK, ServerOf

LEMMA ServerMade ==
  ASSUME NEW u, NEW a, NEW b, NEW c, NEW d, NEW e
  PROVE  /\ a \in [DOMAIN u -> Nat] /\ b \in Int
         /\ \A sid \in DOMAIN u : a[sid] <= Len(u[sid])
         /\ \A frames \in d : FramesOK(u, frames)
         => ServerOK(u, ServerOf(a, b, c, d, e))
<1> DEFINE s == ServerOf(a, b, c, d, e)
<1>1. s.sent = a /\ s.total = b /\ s.fin = c /\ s.resend = d /\ s.closed = e
  BY DEF ServerOf
<1>2. s = [sent |-> s.sent, total |-> s.total, fin |-> s.fin, resend |-> s.resend, closed |-> s.closed]
  <2>1. s = [sent |-> a, total |-> b, fin |-> c, resend |-> d, closed |-> e]
    BY DEF ServerOf
  <2> HIDE DEF s
  <2> QED BY <1>1, <2>1
<1> HIDE DEF s
<1>3. /\ a \in [DOMAIN u -> Nat] /\ b \in Int
      /\ (\A sid \in DOMAIN u : a[sid] <= Len(u[sid]))
      /\ (\A frames \in d : FramesOK(u, frames))
      => ServerOK(u, s)
  BY <1>1, <1>2 DEF ServerOK
<1> QED BY <1>3 DEF s

(* The server's record after each of its steps.                            *)
LEMMA ServerWith ==
  ASSUME NEW a, NEW b, NEW c, NEW d, NEW e, NEW x, NEW y
  PROVE  /\ [ServerOf(a, b, c, d, e) EXCEPT !.resend = @ \cup x] = ServerOf(a, b, c, d \cup x, e)
         /\ [ServerOf(a, b, c, d, e) EXCEPT !.resend = @ \ x] = ServerOf(a, b, c, d \ x, e)
         /\ [ServerOf(a, b, c, d, e) EXCEPT !.closed = y] = ServerOf(a, b, c, d, y)
  BY DEF ServerOf

More(a, sid, n) == [a EXCEPT ![sid] = @ + n]
Sent(s, sid, n, x) == [s EXCEPT !.sent[sid] = @ + n, !.total = @ + n, !.fin = x]

LEMMA ServerSent ==
  ASSUME NEW a, NEW b, NEW c, NEW d, NEW e, NEW sid, NEW n, NEW x
  PROVE  Sent(ServerOf(a, b, c, d, e), sid, n, x)
           = ServerOf(More(a, sid, n), b + n, x, d, e)
<1> DEFINE s == ServerOf(a, b, c, d, e)
           g == [a EXCEPT ![sid] = @ + n]
           k == b + n
           p1 == [s EXCEPT !.sent[sid] = @ + n]
           p2 == [p1 EXCEPT !.total = @ + n]
           p3 == [p2 EXCEPT !.fin = x]
<1>1. [s EXCEPT !.sent[sid] = @ + n, !.total = @ + n, !.fin = x] = p3
  OBVIOUS
<1>2. p1 = [sent |-> g, total |-> b, fin |-> c, resend |-> d, closed |-> e]
  BY DEF ServerOf
<1> HIDE DEF p1, g
<1>3. p2 = [sent |-> g, total |-> k, fin |-> c, resend |-> d, closed |-> e]
  BY ONLY <1>2
<1> HIDE DEF p2, k
<1>4. p3 = [sent |-> g, total |-> k, fin |-> x, resend |-> d, closed |-> e]
  BY ONLY <1>3
<1> HIDE DEF p3
<1>5. [s EXCEPT !.sent[sid] = @ + n, !.total = @ + n, !.fin = x] = ServerOf(g, k, x, d, e)
  BY ONLY <1>1, <1>4 DEF ServerOf
<1> QED BY <1>5 DEF g, k, Sent, More

(* The frames of a lost packet, kept to be sent again, and sent.           *)
LEMMA FramesBack ==
  ASSUME NEW u, NEW s, NEW frames
  PROVE  ServerOK(u, s) =>
           /\ FramesOK(u, frames) => ServerOK(u, [s EXCEPT !.resend = @ \cup {frames}])
           /\ ServerOK(u, [s EXCEPT !.resend = @ \ {frames}])
<1> SUFFICES ASSUME ServerOK(u, s)
             PROVE  /\ FramesOK(u, frames) => ServerOK(u, [s EXCEPT !.resend = @ \cup {frames}])
                    /\ ServerOK(u, [s EXCEPT !.resend = @ \ {frames}])
  OBVIOUS
<1> DEFINE a == s.sent
           b == s.total
           c == s.fin
           d == s.resend
           e == s.closed
           x == {frames}
<1>1. /\ s = ServerOf(a, b, c, d, e) /\ a \in [DOMAIN u -> Nat] /\ b \in Int
      /\ (\A sid \in DOMAIN u : a[sid] <= Len(u[sid]))
      /\ \A f \in d : FramesOK(u, f)
  <2>1. ServerOK(u, s)
    OBVIOUS
  <2> QED BY ONLY <2>1, ServerParts, Zenon
<1> HIDE DEF a, b, c, d, e, x
<1>2. [s EXCEPT !.resend = @ \cup x] = ServerOf(a, b, c, d \cup x, e)
      /\ [s EXCEPT !.resend = @ \ x] = ServerOf(a, b, c, d \ x, e)
  <2>1. s = ServerOf(a, b, c, d, e)
    BY <1>1
  <2>2. [s EXCEPT !.resend = @ \cup x] = ServerOf(a, b, c, d \cup x, e)
    BY ONLY <2>1 DEF ServerOf
  <2>3. [s EXCEPT !.resend = @ \ x] = ServerOf(a, b, c, d \ x, e)
    BY ONLY <2>1 DEF ServerOf
  <2> QED BY <2>2, <2>3
<1>3. ServerOK(u, ServerOf(a, b, c, d \ x, e))
  <2>1. /\ a \in [DOMAIN u -> Nat] /\ b \in Int /\ (\A sid \in DOMAIN u : a[sid] <= Len(u[sid]))
        /\ \A f \in d \ x : FramesOK(u, f)
    BY <1>1
  <2> QED BY ONLY <2>1, ServerMade, Zenon
<1>4. ASSUME FramesOK(u, frames) PROVE ServerOK(u, ServerOf(a, b, c, d \cup x, e))
  <2>1. /\ a \in [DOMAIN u -> Nat] /\ b \in Int /\ (\A sid \in DOMAIN u : a[sid] <= Len(u[sid]))
        /\ \A f \in d \cup x : FramesOK(u, f)
    BY <1>1, <1>4 DEF x
  <2> QED BY ONLY <2>1, ServerMade, Zenon
<1> QED BY <1>2, <1>3, <1>4 DEF x

LEMMA ClosedSays ==
  ASSUME NEW u, NEW s, NEW y
  PROVE  ServerOK(u, s) => ServerOK(u, [s EXCEPT !.closed = y])
<1> SUFFICES ASSUME ServerOK(u, s) PROVE ServerOK(u, [s EXCEPT !.closed = y])
  OBVIOUS
<1> DEFINE a == s.sent
           b == s.total
           c == s.fin
           d == s.resend
           e == s.closed
<1>1. /\ s = ServerOf(a, b, c, d, e) /\ a \in [DOMAIN u -> Nat] /\ b \in Int
      /\ (\A sid \in DOMAIN u : a[sid] <= Len(u[sid]))
      /\ \A f \in d : FramesOK(u, f)
  <2>1. ServerOK(u, s)
    OBVIOUS
  <2> QED BY ONLY <2>1, ServerParts, Zenon
<1> HIDE DEF a, b, c, d, e
<1>2. [s EXCEPT !.closed = y] = ServerOf(a, b, c, d, y)
  BY ONLY <1>1 DEF ServerOf
<1>3. ServerOK(u, ServerOf(a, b, c, d, y))
  <2>1. /\ a \in [DOMAIN u -> Nat] /\ b \in Int /\ (\A sid \in DOMAIN u : a[sid] <= Len(u[sid]))
        /\ \A f \in d : FramesOK(u, f)
    BY <1>1
  <2> QED BY ONLY <2>1, ServerMade, Zenon
<1> QED BY <1>2, <1>3

LEMMA MoreSent ==
  ASSUME NEW u, NEW s, NEW sid, NEW n, NEW y
  PROVE  /\ ServerOK(u, s) /\ sid \in DOMAIN u /\ n \in Nat /\ s.sent[sid] + n <= Len(u[sid])
         => ServerOK(u, [s EXCEPT !.sent[sid] = @ + n, !.total = @ + n, !.fin = y])
<1> SUFFICES ASSUME ServerOK(u, s), sid \in DOMAIN u, n \in Nat, s.sent[sid] + n <= Len(u[sid])
             PROVE  ServerOK(u, [s EXCEPT !.sent[sid] = @ + n, !.total = @ + n, !.fin = y])
  OBVIOUS
<1> DEFINE a == s.sent
           b == s.total
           c == s.fin
           d == s.resend
           e == s.closed
           g == [a EXCEPT ![sid] = @ + n]
           k == b + n
           t == [s EXCEPT !.sent[sid] = @ + n, !.total = @ + n, !.fin = y]
<1>1. /\ s = ServerOf(a, b, c, d, e) /\ a \in [DOMAIN u -> Nat] /\ b \in Int
      /\ (\A i \in DOMAIN u : a[i] <= Len(u[i]))
      /\ \A f \in d : FramesOK(u, f)
  <2>1. ServerOK(u, s)
    OBVIOUS
  <2> QED BY ONLY <2>1, ServerParts, Zenon
<1>2. t = ServerOf(g, k, y, d, e)
  <2> HIDE DEF a, b, c, d, e, g, k
  <2>1. s = ServerOf(a, b, c, d, e) /\ g = More(a, sid, n) /\ k = b + n
    BY <1>1 DEF g, k, More
  <2>2. Sent(ServerOf(a, b, c, d, e), sid, n, y) = ServerOf(More(a, sid, n), b + n, y, d, e)
    BY ONLY ServerSent
  <2>3. Sent(s, sid, n, y) = ServerOf(g, k, y, d, e)
    BY ONLY <2>1, <2>2
  <2> QED BY <2>3 DEF Sent
<1>3. a[sid] + n <= Len(u[sid])
  OBVIOUS
<1> HIDE DEF a, b, c, d, e, t
<1>4. g \in [DOMAIN u -> Nat] /\ k \in Int /\ \A i \in DOMAIN u : g[i] <= Len(u[i])
  BY <1>1, <1>3
<1> HIDE DEF g, k
<1>5. ServerOK(u, ServerOf(g, k, y, d, e))
  <2>1. /\ g \in [DOMAIN u -> Nat] /\ k \in Int /\ (\A i \in DOMAIN u : g[i] <= Len(u[i]))
        /\ \A f \in d : FramesOK(u, f)
    BY <1>1, <1>4
  <2> QED BY ONLY <2>1, ServerMade, Zenon
<1>6. ServerOK(u, t)
  BY <1>2, <1>5
<1> QED BY <1>6 DEF t

(* A packet is sent.                                                       *)
LEMMA LaunchSends ==
  ASSUME ReceiveInv, NEW frames, FramesOK(content, frames), Launch(frames),
         ServerOK(content, server')
  PROVE  ReceiveInv' /\ TableGrows
<1>1. /\ UNCHANGED <<conn, caller_len, load, ended, content, delivered, fields, mishaps>> /\ ~ended
  BY DEF Launch
<1>2. ContentInv' /\ ClientInv' /\ TableGrows
  BY <1>1, ClientStays
<1>3. EndMeansAll'
  BY <1>1, NotEnded
<1>4. PICK win \in Windows :
        flight' = flight \cup {[pn |-> server_pn, win |-> win, frames |-> frames]}
  BY DEF Launch
<1>5. ASSUME NEW p \in flight' PROVE FramesOK(content', p.frames)
  <2>1. CASE p \in flight
    BY <1>1, <2>1 DEF ReceiveInv, ServerInv
  <2>2. CASE p = [pn |-> server_pn, win |-> win, frames |-> frames]
    <3>1. p.frames = frames
      BY <2>2
    <3> QED BY <1>1, <3>1
  <2> QED BY <1>4, <2>1, <2>2
<1>6. ServerInv'
  BY <1>1, <1>5 DEF ServerInv
<1> QED BY <1>2, <1>3, <1>6 DEF ReceiveInv

(* Packets leave, and what they carried may be sent again.                 *)
LEMMA FlightLeft ==
  ASSUME ReceiveInv, content' = content, flight' \subseteq flight,
         \/ server' = server
         \/ \E p \in flight : server' = [server EXCEPT !.resend = @ \cup {p.frames}]
  PROVE  ServerInv'
<1>1. ServerOK(content, server) /\ \A p \in flight : FramesOK(content, p.frames)
  BY DEF ReceiveInv, ServerInv
<1>2. ASSUME NEW p \in flight
      PROVE  ServerOK(content, [server EXCEPT !.resend = @ \cup {p.frames}])
  BY <1>1, FramesBack
<1>3. ServerOK(content, server')
  BY <1>1, <1>2
<1> QED BY <1>1, <1>3 DEF ServerInv

(* The frames the server makes.                                            *)
LEMMA OneFrame ==
  ASSUME NEW u, NEW f, FrameOK(u, f)
  PROVE  FramesOK(u, <<f>>)
<1> DEFINE s == <<f>>
<1>1. Len(s) = 1 /\ s[1] = f
  OBVIOUS
<1> HIDE DEF s
<1>2. (\A k \in 1..Len(s) : FrameOK(u, s[k])) /\ Len(s) - 1 = 0
  BY <1>1
<1>3. FramesOK(u, s)
  BY <1>1, <1>2 DEF FramesOK
<1> QED BY <1>3 DEF s

LEMMA BehindMove ==
  ASSUME NEW u, NEW f, FrameOK(u, f)
  PROVE  FramesOK(u, <<Other("NEW_CONNECTION_ID")>> \o <<f>>)
<1> DEFINE g == Other("NEW_CONNECTION_ID")
           s == <<g>> \o <<f>>
<1>1. g.type = "NEW_CONNECTION_ID"
  BY DEF Other
<1> HIDE DEF g
<1>2. FrameOK(u, g)
  BY <1>1 DEF FrameOK
<1>3. Len(s) = 2 /\ s[1] = g /\ s[2] = f
  OBVIOUS
<1> HIDE DEF s
<1>4. /\ Len(s) \in Nat
      /\ \A k \in 1..Len(s) : FrameOK(u, s[k])
      /\ \A k \in 1..Len(s) - 1 : s[k].type = "NEW_CONNECTION_ID"
  BY <1>1, <1>2, <1>3
<1>5. FramesOK(u, s)
  BY <1>4 DEF FramesOK
<1> QED BY <1>5 DEF s, g

(* The server sends: new data, ...                                         *)
LEMMA ServerSendsKeeps ==
  ASSUME ReceiveInv, ServerSends
  PROVE  ReceiveInv' /\ TableGrows
<1> DEFINE Sends(sid, fin, moves, piece) ==
    LET left == Len(content[sid]) - server.sent[sid]
        n == Min({piece, left, Credit(sid) - server.sent[sid], TotalCredit - server.total})
    IN /\ sid = EncoderStream \/ sid < conn.next_sid
       /\ Whole(sid)
       /\ n > 0 \/ fin
       /\ fin => n = left /\ ~Unidirectional(sid) /\ sid \notin server.fin
       /\ moves => server_pn = 0
       /\ Launch((IF moves THEN <<Other("NEW_CONNECTION_ID")>> ELSE <<>>)
                   \o <<Stream(sid, n, fin)>>)
       /\ server' = [server EXCEPT !.sent[sid] = @ + n, !.total = @ + n,
                       !.fin = IF fin THEN @ \cup {sid} ELSE @]
<1>0. PICK sid \in DOMAIN content, fin \in BOOLEAN, moves \in BOOLEAN :
        \E piece \in {0} \cup Pieces[sid] : Sends(sid, fin, moves, piece)
  BY Zenon DEF ServerSends
<1>1. PICK piece \in {0} \cup Pieces[sid] : Sends(sid, fin, moves, piece)
  BY <1>0, Zenon
<1> DEFINE n == Min({piece, Len(content[sid]) - server.sent[sid], Credit(sid) - server.sent[sid],
                     TotalCredit - server.total})
           f == Stream(sid, n, fin)
           frames == (IF moves THEN <<Other("NEW_CONNECTION_ID")>> ELSE <<>>) \o <<f>>
           y == IF fin THEN server.fin \cup {sid} ELSE server.fin
<1>2. /\ n > 0 \/ fin
      /\ fin => n = Len(content[sid]) - server.sent[sid] /\ ~Unidirectional(sid)
      /\ Launch(frames)
  BY <1>1, Zenon
<1>3. server' = [server EXCEPT !.sent[sid] = @ + n, !.total = @ + n, !.fin = y]
  BY <1>1
<1>4. Said(content, load) /\ ServerOK(content, server) /\ ConnOK(conn)
  BY DEF ReceiveInv, ContentInv, ServerInv, ClientInv
<1>5. n \in Nat /\ server.sent[sid] + n <= Len(content[sid]) /\ StreamFrameOK(content, f)
  <2> DEFINE m == n
  <2>1. /\ Said(content, load) /\ ServerOK(content, server) /\ ConnOK(conn)
        /\ sid \in DOMAIN content /\ fin \in BOOLEAN /\ piece \in {0} \cup Pieces[sid]
        /\ m = Min({piece, Len(content[sid]) - server.sent[sid], Credit(sid) - server.sent[sid],
                    TotalCredit - server.total})
        /\ m > 0 \/ fin
        /\ fin => m = Len(content[sid]) - server.sent[sid] /\ ~Unidirectional(sid)
    BY <1>2, <1>4
  <2> HIDE DEF m
  <2>2. m \in Nat /\ server.sent[sid] + m <= Len(content[sid])
        /\ StreamFrameOK(content, Stream(sid, m, fin))
    BY ONLY <2>1, StreamSent
  <2> QED BY <2>2 DEF m
<1> HIDE DEF n, f, y
<1>6. FrameOK(content, f)
  BY <1>5 DEF FrameOK
<1>7. FramesOK(content, frames)
  <2>1. CASE moves
    BY <1>6, <2>1, BehindMove
  <2>2. CASE ~moves
    <3>1. frames = <<f>>
      BY <2>2
    <3> QED BY <1>6, <3>1, OneFrame
  <2> QED BY <2>1, <2>2
<1> HIDE DEF frames
<1>8. ServerOK(content, server')
  <2>1. ServerOK(content, server) /\ sid \in DOMAIN content /\ n \in Nat
        /\ server.sent[sid] + n <= Len(content[sid])
    BY <1>4, <1>5
  <2>2. ServerOK(content, [server EXCEPT !.sent[sid] = @ + n, !.total = @ + n, !.fin = y])
    BY ONLY <2>1, MoreSent
  <2> QED BY <1>3, <2>2
<1> QED BY <1>2, <1>7, <1>8, LaunchSends

(* ... what was lost, ...                                                  *)
LEMMA ServerResendsKeeps ==
  ASSUME ReceiveInv, ServerResends
  PROVE  ReceiveInv' /\ TableGrows
<1>1. PICK frames \in server.resend :
        Launch(frames) /\ server' = [server EXCEPT !.resend = @ \ {frames}]
  BY DEF ServerResends
<1>2. ServerOK(content, server)
  BY DEF ReceiveInv, ServerInv
<1>3. FramesOK(content, frames)
  BY <1>2 DEF ServerOK
<1>4. ServerOK(content, server')
  BY <1>1, <1>2, FramesBack
<1> QED BY <1>1, <1>3, <1>4, LaunchSends

(* ... and that it closes.                                                 *)
LEMMA ServerClosesKeeps ==
  ASSUME ReceiveInv, ServerCloses
  PROVE  ReceiveInv' /\ TableGrows
<1> DEFINE f == Other("CONNECTION_CLOSE")
           y == TRUE
<1>1. Launch(<<f>>) /\ server' = [server EXCEPT !.closed = y]
  BY DEF ServerCloses
<1>2. ServerOK(content, server)
  BY DEF ReceiveInv, ServerInv
<1>3. f.type = "CONNECTION_CLOSE"
  BY DEF Other
<1> HIDE DEF f, y
<1>4. FramesOK(content, <<f>>)
  BY <1>3, OneFrame DEF FrameOK
<1>5. ServerOK(content, server')
  BY <1>1, <1>2, ClosedSays
<1> QED BY <1>1, <1>4, <1>5, LaunchSends

(* The network loses a packet, ...                                         *)
LEMMA LoseKeeps ==
  ASSUME ReceiveInv, Lose
  PROVE  ReceiveInv' /\ TableGrows
<1>1. /\ UNCHANGED <<conn, caller_len, load, ended, content, delivered, fields, mishaps>> /\ ~ended
      /\ \E p \in flight : /\ flight' = flight \ {p}
                           /\ server' = [server EXCEPT !.resend = @ \cup {p.frames}]
  BY DEF Lose
<1>2. ContentInv' /\ ClientInv' /\ TableGrows
  BY <1>1, ClientStays
<1>3. EndMeansAll'
  BY <1>1, NotEnded
<1>4. ServerInv'
  BY <1>1, FlightLeft
<1> QED BY <1>2, <1>3, <1>4 DEF ReceiveInv

(* ... or delivers it, once or again.                                      *)
LEMMA ReceivedKeeps ==
  ASSUME ReceiveInv, RecvPacket \/ RecvPacketTwice
  PROVE  ReceiveInv' /\ TableGrows
<1>1. PICK p \in flight :
        /\ Receive(p) /\ flight' \subseteq flight
        /\ \/ server' = server
           \/ server' = [server EXCEPT !.resend = @ \cup {p.frames}]
  BY DEF RecvPacket, RecvPacketTwice
<1>2. ContentInv' /\ ClientInv' /\ EndMeansAll' /\ TableGrows
  BY <1>1, ReceiveKeepsClient
<1>3. content' = content
  BY <1>1 DEF Receive
<1>4. ServerInv'
  BY <1>1, <1>3, FlightLeft
<1> QED BY <1>2, <1>4 DEF ReceiveInv

(* Every step.                                                             *)
LEMMA ReceiveStep ==
  ASSUME ReceiveInv, [Next]_vars
  PROVE  ReceiveInv' /\ TableGrows
<1>1. CASE SendRequest
  <2>1. UNCHANGED <<content, server, flight>>
    BY <1>1 DEF SendRequest
  <2>2. ServerInv'
    BY <2>1, FlightLeft
  <2> QED BY <1>1, <2>2, SendKeeps DEF ReceiveInv
<1>2. CASE RecvBuffered
  <2>1. UNCHANGED <<content, server, flight>>
    BY <1>2 DEF RecvBuffered
  <2>2. ServerInv'
    BY <2>1, FlightLeft
  <2> QED BY <1>2, <2>2, BufferedKeeps DEF ReceiveInv
<1>3. CASE RecvNothing
  <2>1. UNCHANGED <<conn, content, load, caller_len, delivered, fields, mishaps, server, flight>>
        /\ Finished(conn)
    BY <1>3 DEF RecvNothing
  <2>2. ContentInv' /\ ClientInv' /\ TableGrows
    BY <2>1, ClientStays
  <2>3. EndMeansAll'
    BY <2>1, FinishedKeeps
  <2>4. ServerInv'
    BY <2>1, FlightLeft
  <2> QED BY <2>2, <2>3, <2>4 DEF ReceiveInv
<1>4. CASE RecvPacket \/ RecvPacketTwice
  BY <1>4, ReceivedKeeps
<1>5. CASE ServerSends
  BY <1>5, ServerSendsKeeps
<1>6. CASE ServerResends
  BY <1>6, ServerResendsKeeps
<1>7. CASE ServerCloses
  BY <1>7, ServerClosesKeeps
<1>8. CASE Lose
  BY <1>8, LoseKeeps
<1>9. CASE UNCHANGED vars
  <2>1. UNCHANGED <<conn, content, load, caller_len, ended, delivered, fields, mishaps, server, flight>>
    BY <1>9 DEF vars
  <2>2. ContentInv' /\ ClientInv' /\ TableGrows
    BY <2>1, ClientStays
  <2>3. EndMeansAll'
    BY <2>1 DEF ReceiveInv, EndMeansAll, Whole
  <2>4. ServerInv'
    BY <2>1, FlightLeft
  <2> QED BY <2>2, <2>3, <2>4 DEF ReceiveInv
<1> QED BY <1>1, <1>2, <1>3, <1>4, <1>5, <1>6, <1>7, <1>8, <1>9 DEF Next

(* The encoder stream has no HTTP/3 frames.                                *)
LEMMA EncoderHeaded == Headed(EncoderUnits)
<1> DEFINE u == EncoderUnits
           n == Len(Instructions)
<1>1. /\ n \in Nat /\ Len(u) = 1 + 2 * n /\ u[1] = <<"stream type", "encoder">>
      /\ \A k \in 1..n : /\ u[2 * k] = <<"first", Instructions[k]>>
                         /\ u[2 * k + 1] = <<"second", Instructions[k]>>
  BY EncoderStreamIs DEF EncoderLaidOut, PairAt
<1> HIDE DEF u, n
<1>2. n \in Nat /\ Len(u) = 1 + 2 * n
  BY <1>1
<1>3. ASSUME NEW k \in 1..n PROVE u[2 * k][1] = "first" /\ u[2 * k + 1][1] = "second"
  <2>1. u[2 * k] = <<"first", Instructions[k]>> /\ u[2 * k + 1] = <<"second", Instructions[k]>>
    BY <1>1, Zenon
  <2> QED BY ONLY <2>1
<1>4. u[1][1] = "stream type"
  <2> DEFINE x == <<"stream type", "encoder">>
  <2>1. x[1] = "stream type"
    OBVIOUS
  <2>2. u[1] = x
    BY <1>1, Zenon
  <2> HIDE DEF x
  <2> QED BY ONLY <2>1, <2>2
<1>5. ASSUME NEW i \in 1..Len(u) PROVE u[i][1] # "type"
  <2> DEFINE k == i \div 2
  <2>1. i \in 1..1 + 2 * n
    BY <1>2
  <2>2. k \in 0..n /\ (i = 2 * k \/ i = 2 * k + 1)
    BY ONLY <1>2, <2>1, Z3
  <2> HIDE DEF k
  <2>3. CASE k = 0
    <3>1. i = 1
      BY ONLY <2>1, <2>2, <2>3
    <3> QED BY <1>4, <3>1
  <2>4. CASE k # 0
    <3>1. k \in 1..n
      BY ONLY <1>2, <2>2, <2>4
    <3>2. u[2 * k][1] = "first" /\ u[2 * k + 1][1] = "second"
      BY <1>3, <3>1
    <3> QED BY <2>2, <3>2
  <2> QED BY <2>3, <2>4
<1>6. Headed(u)
  BY <1>5 DEF Headed
<1> QED BY <1>6 DEF u

(* At the beginning.                                                       *)
LEMMA ContentInit == Init => ContentInv
<1> SUFFICES ASSUME Init PROVE ContentInv
  OBVIOUS
<1>1. caller_len \in Nat /\ delivered \in Seq(AnyUnit) /\ load \in Loads
  BY SizesAssumption DEF Init
<1>2. PICK r \in Responses :
        content = [sid \in StreamsOf(load) |->
                     IF sid = EncoderStream THEN EncoderUnits
                     ELSE ResponseUnits(IF sid = 0 THEN r ELSE LaterResponse)]
  BY DEF Init
<1>3. 0 \in StreamsOf(load) /\ EncoderStream \in StreamsOf(load)
  <2>1. load.requests \in Nat \ {0}
    BY <1>1, LoadsAssumption
  <2>2. 0 \in 0..load.requests - 1 /\ 4 * 0 = 0
    BY <2>1
  <2> QED BY <2>2 DEF StreamsOf
<1>4. content[EncoderStream] = EncoderUnits /\ content[0] = ResponseUnits(r)
  BY <1>2, <1>3 DEF EncoderStream
<1>5. ASSUME NEW sid \in DOMAIN content
      PROVE  content[sid] \in Seq(AnyUnit) /\ Headed(content[sid])
  <2>1. CASE sid = EncoderStream
    <3>1. EncoderUnits \in Seq(AnyUnit)
      BY EncoderStreamIs DEF EncoderLaidOut
    <3> QED BY <1>4, <2>1, <3>1, EncoderHeaded
  <2>2. CASE sid # EncoderStream
    <3>1. PICK x \in Responses \cup {LaterResponse} : content[sid] = ResponseUnits(x)
      <4>1. content[sid] = ResponseUnits(IF sid = 0 THEN r ELSE LaterResponse)
        BY <1>2, <2>2
      <4> QED BY <4>1
    <3>2. WellFormed(ResponseUnits(x))
      BY ResponseWellFormed
    <3> QED BY <3>1, <3>2 DEF WellFormed
  <2> QED BY <2>1, <2>2
<1>6. \E B : Framed(content[0], B)
  <2>1. WellFormed(ResponseUnits(r))
    BY ResponseWellFormed
  <2> QED BY <1>4, <2>1 DEF WellFormed
<1>7. DOMAIN content = StreamsOf(load)
  BY <1>2
<1> QED BY <1>1, <1>4, <1>5, <1>6, <1>7 DEF ContentInv, Said

LEMMA ServerInit == Init => ServerInv
<1> SUFFICES ASSUME Init PROVE ServerInv
  OBVIOUS
<1> DEFINE a == [sid \in DOMAIN content |-> 0]
           no == FALSE
<1>1. server = ServerOf(a, 0, {}, {}, no) /\ flight = {}
  BY DEF Init, ServerOf
<1>2. a \in [DOMAIN content -> Nat] /\ \A sid \in DOMAIN content : a[sid] <= Len(content[sid])
  <2>1. ASSUME NEW sid \in DOMAIN content PROVE a[sid] <= Len(content[sid])
    <3>1. content[sid] \in Seq(AnyUnit)
      BY ContentInit DEF ContentInv, Said
    <3>2. Len(content[sid]) \in Nat
      BY <3>1, LenProperties
    <3> QED BY <3>2
  <2> QED BY <2>1
<1> HIDE DEF a, no
<1>3. /\ a \in [DOMAIN content -> Nat] /\ 0 \in Int
      /\ (\A sid \in DOMAIN content : a[sid] <= Len(content[sid]))
      /\ \A frames \in {} : FramesOK(content, frames)
  BY <1>2
<1>4. ServerOK(content, ServerOf(a, 0, {}, {}, no))
  BY ONLY <1>3, ServerMade, Zenon
<1> QED BY <1>1, <1>4 DEF ServerInv

(* A connection before anything has come.                                  *)
LEMMA ClientInit == Init => ClientInv
<1> SUFFICES ASSUME Init PROVE ClientInv
  OBVIOUS
<1> DEFINE s == NewStream(0)
           g == <<s>>
           t == EmptyTable
           no == FALSE
           u == content[0]
<1>1. conn = [streams |-> g, table |-> t, rx_data |-> 0, max_rx_data |-> ConnWindow,
              is_closed |-> no, next_sid |-> 0]
      /\ fields = {} /\ mishaps = {} /\ delivered = <<>>
  BY DEF Init
<1>2. /\ s.stream_id = 0 /\ s.state = "header" /\ s.rem = 0 /\ s.rx = <<>> /\ s.parsed = 0
      /\ s.fin = no
  BY DEF NewStream
<1>3. t \in Tables(Entry) /\ AtTable(t, 0)
  BY EmptyAtTable
<1>4. s \in StreamRecords
  BY NewStreamTyped
<1>5. no \in BOOLEAN /\ ~no
  OBVIOUS
<1> HIDE DEF s, t, no
<1>6. g \in Seq(StreamRecords) /\ Len(g) = 1 /\ g[1] = s
  BY <1>4
<1> HIDE DEF g
<1>7. conn.streams = g /\ conn.table = t /\ conn.is_closed = no
  BY <1>1
<1>8. ConnOK(conn)
  <2>1. ConnWindow \in Nat /\ 1 \in 1..MaxStreams
    BY SizesAssumption
  <2>2. conn \in [streams : Seq(StreamRecords), table : Tables(Entry), rx_data : Nat,
                  max_rx_data : Nat, is_closed : BOOLEAN, next_sid : Nat]
    BY <1>1, <1>3, <1>5, <1>6, <2>1
  <2>3. \A i, j \in 1..Len(g) : i = j
    BY <1>6
  <2> QED BY <1>2, <1>6, <1>7, <2>1, <2>2, <2>3 DEF ConnOK
<1>9. FollowsBody(u, s, no, <<>>)
  <2>0. Said(content, load)
    BY ContentInit DEF ContentInv
  <2>1. u \in Seq(AnyUnit)
    BY <2>0, StreamIds DEF Said
  <2>2. PICK B : Framed(u, B)
    BY <2>0 DEF Said
  <2>3. Len(u) \in Nat
    BY <2>1, LenProperties
  <2>4. InFrame(u, B, 0, "header", 0)
    BY <2>2, <2>3 DEF InFrame, Framed
  <2>5. BodyUpTo(u, 0) = <<>>
    BY <2>1, FrontsOfBody DEF BodyFronts
  <2>6. <<>> \o <<>> = <<>>
    OBVIOUS
  <2> HIDE DEF u
  <2> QED BY <1>2, <1>5, <2>2, <2>4, <2>5, <2>6 DEF FollowsBody
<1>10. ResponseFollowed(content[0], conn, mishaps, delivered)
  BY <1>1, <1>6, <1>7, <1>9 DEF ResponseFollowed
<1>11. EncoderFollowed(conn, mishaps)
  <2>1. Slots(g, EncoderStream) = {}
    <3>1. Slots(g, EncoderStream) = {i \in 1..Len(g) : g[i].stream_id = EncoderStream}
      BY <1>6, SlotsAre
    <3>2. \A i \in 1..Len(g) : g[i].stream_id = 0
      BY <1>2, <1>6
    <3> QED BY <3>1, <3>2 DEF EncoderStream
  <2>2. 0 \in 0..Len(Instructions)
    <3>1. Len(Instructions) \in Nat
      BY EncoderStreamIs DEF EncoderLaidOut
    <3> QED BY <3>1
  <2>3. EncoderAt(conn, 0)
    BY <1>3, <1>7, <2>1, <2>2 DEF EncoderAt
  <2> QED BY <2>3 DEF EncoderFollowed
<1>12. FieldsFollowed(fields, mishaps)
  BY <1>1 DEF FieldsFollowed
<1> QED BY <1>8, <1>10, <1>11, <1>12 DEF ClientInv

LEMMA ReceiveInit == Init => ReceiveInv
<1>1. Init => EndMeansAll
  BY DEF Init, EndMeansAll
<1> QED BY <1>1, ContentInit, ServerInit, ClientInit DEF ReceiveInv

-----------------------------------------------------------------------------
(* The client expects no number beyond the one after the largest.          *)
NextInv == largest \in Int /\ s_app_pn_next <= largest + 1

LEMMA NextStep ==
  ASSUME NumbersInv, NextInv, [Next]_vars
  PROVE  NextInv'
<1>1. ASSUME NEW p \in flight, Receive(p) PROVE NextInv'
  <2>1. p.pn \in Nat /\ largest \in Int
    BY DEF NumbersInv, NumberedFor
  <2>2. CASE Parsed(p)
    <3>1. s_app_pn_next' = p.pn + 1 /\ largest' = IF p.pn > largest THEN p.pn ELSE largest
      BY <2>2 DEF Parsed
    <3> QED BY <2>1, <3>1 DEF NextInv
  <2>3. CASE NotDecrypted
    BY <2>3 DEF NotDecrypted, NextInv
  <2> QED BY <1>1, <2>2, <2>3 DEF Receive
<1>2. ASSUME UNCHANGED <<s_app_pn_next, largest>> PROVE NextInv'
  BY <1>2 DEF NextInv
<1>3. CASE SendRequest \/ RecvBuffered \/ RecvNothing \/ Lose
  <2>1. UNCHANGED <<s_app_pn_next, largest>>
    BY <1>3 DEF SendRequest, RecvBuffered, RecvNothing, Lose, numbers
  <2> QED BY <1>2, <2>1
<1>4. CASE RecvPacket \/ RecvPacketTwice
  BY <1>1, <1>4 DEF RecvPacket, RecvPacketTwice
<1>5. CASE ServerSends \/ ServerResends \/ ServerCloses
  <2>1. \E frames : Launch(frames)
    <3>1. CASE ServerSends
      BY <3>1 DEF ServerSends
    <3>2. CASE ServerResends
      BY <3>2 DEF ServerResends
    <3>3. CASE ServerCloses
      BY <3>3 DEF ServerCloses
    <3> QED BY <1>5, <3>1, <3>2, <3>3
  <2>2. UNCHANGED <<s_app_pn_next, largest>>
    BY <2>1 DEF Launch, numbers
  <2> QED BY <1>2, <2>2
<1>6. CASE UNCHANGED vars
  BY <1>2, <1>6 DEF vars, numbers
<1> QED BY <1>3, <1>4, <1>5, <1>6 DEF Next

LEMMA NextInit == Init => NextInv
  BY DEF Init, NextInv

(* What the invariant says.                                                *)
LEMMA ClientTyped == ReceiveInv /\ NumbersInv /\ NextInv => TypeOK
<1> SUFFICES ASSUME ReceiveInv, NumbersInv, NextInv PROVE TypeOK
  OBVIOUS
<1> DEFINE g == conn.streams
           t == conn.table
<1>1. g \in Seq(StreamRecords) /\ Len(g) \in 1..MaxStreams /\ t \in Tables(Entry)
  BY DEF ReceiveInv, ClientInv, ConnOK
<1>2. \A i \in DOMAIN g : g[i] \in StreamRecords
  <2> DEFINE S == StreamRecords
  <2> HIDE DEF S, g
  <2>1. g \in Seq(S)
    BY <1>1 DEF S
  <2>2. \A i \in DOMAIN g : g[i] \in S
    BY ONLY <2>1
  <2> QED BY <2>2 DEF S
<1>3. \A s \in StreamRecords : s.rem \in Nat /\ Len(s.rx) < RxSize /\ Len(s.hdr) < HdrSize
  BY DEF StreamRecords
<1>4. Len(g) <= MaxStreams
  <2>1. MaxStreams \in Nat
    BY SizesAssumption
  <2> HIDE DEF g
  <2> QED BY <1>1, <2>1
<1>5. t.count \in 0..TableSize /\ t.tail \in 0..TableSize - 1
  BY <1>1 DEF Tables
<1>6. largest \in Int /\ s_app_pn_next <= largest + 1
  BY DEF NextInv
<1> HIDE DEF g, t
<1>7. \A i \in DOMAIN g : g[i].rem \in Nat /\ Len(g[i].rx) < RxSize /\ Len(g[i].hdr) < HdrSize
  BY ONLY <1>2, <1>3
<1> QED BY <1>4, <1>5, <1>6, <1>7 DEF TypeOK, g, t

LEMMA BodyFollowed == ReceiveInv => BodyInOrder
<1> SUFFICES ASSUME ReceiveInv, Whole(0)
             PROVE  IsPrefix(delivered \o conn.streams[1].rx, Body(content[0]))
  BY DEF BodyInOrder
<1> DEFINE u == content[0]
           s == conn.streams[1]
<1>1. u \in Seq(AnyUnit)
  BY StreamIds DEF ReceiveInv, ContentInv, Said
<1>2. FollowsBody(u, s, conn.is_closed, delivered)
  BY DEF ReceiveInv, ClientInv, ResponseFollowed, Whole, Spared
<1>3. s.parsed \in 0..Len(u) /\ delivered \o s.rx = BodyUpTo(u, s.parsed)
  BY <1>2 DEF FollowsBody, InFrame
<1>4. BodyFronts(u)
  BY <1>1, FrontsOfBody
<1> HIDE DEF u, s
<1>5. IsPrefix(BodyUpTo(u, s.parsed), Body(u))
  BY <1>3, <1>4 DEF BodyFronts
<1> QED BY <1>3, <1>5 DEF u, s

LEMMA FieldsMeant == ReceiveInv => FieldsRight
  BY Zenon DEF ReceiveInv, ClientInv, FieldsFollowed, AsMeant, FieldsRight, Whole, Spared

-----------------------------------------------------------------------------
(* The invariant.                                                          *)
LEMMA InvHolds == Spec => [](ReceiveInv /\ NumbersInv /\ NextInv)
<1>1. Init => ReceiveInv /\ NumbersInv /\ NextInv
  BY ReceiveInit, NumbersInit, NextInit
<1>2. ReceiveInv /\ NumbersInv /\ NextInv /\ [Next]_vars => (ReceiveInv /\ NumbersInv /\ NextInv)'
  BY ReceiveStep, NumbersStep, NextStep
<1> QED BY <1>1, <1>2, PTL DEF Spec

(* A slot of the stream table never counts below zero (rem of              *)
(* quic_parse_frames), rx_buf and h3_buf are never filled beyond their     *)
(* sizes, there are never more streams than the table has room for         *)
(* (quic_find_stream), the ring of the dynamic table stays in bounds, and  *)
(* the client expects no packet number beyond the one after the largest:   *)
(* whatever the server sends and the network does with it.                 *)
THEOREM ReceiveType == Spec => []TypeOK
  BY InvHolds, ClientTyped, PTL

(* tls_core_recv returns the front of the body of the first response, in   *)
(* order, nothing twice and nothing left out, as long as stream 0 meets    *)
(* with no mishap: with frames cut anywhere but in a header, any number of *)
(* other streams between, packets lost, repeated and in any order.         *)
THEOREM BodyDelivered == Spec => []BodyInOrder
  BY InvHolds, BodyFollowed, PTL

(* Where tls_core_recv returns -1 the application has all of the body, on  *)
(* the same condition.                                                     *)
THEOREM EndOfResponse == Spec => []EndMeansAll
<1>1. ReceiveInv => EndMeansAll
  BY DEF ReceiveInv
<1> QED BY <1>1, InvHolds, PTL

(* A field line that is decoded (decode_qpack_headers) when the table is   *)
(* as the server meant it is the field the server meant, as long as the    *)
(* encoder stream meets with no mishap.                                    *)
THEOREM FieldsDecoded == Spec => []FieldsRight
  BY InvHolds, FieldsMeant, PTL

-----------------------------------------------------------------------------
(* The ring and HeaderTable.                                               *)
LEMMA TableInit == Init => Abstract!Init
<1> SUFFICES ASSUME Init PROVE Abstract!Init
  OBVIOUS
<1> DEFINE t == EmptyTable
<1>1. conn.table = t
  BY DEF Init
<1>2. t.count = 0 /\ t.insert_count = 0
  BY DEF EmptyTable
<1> HIDE DEF t
<1>3. Contents(t) = <<>>
  BY <1>2 DEF Contents
<1> QED BY <1>1, <1>2, <1>3 DEF Abstract!Init

LEMMA ReachedIsStep ==
  ASSUME ReceiveInv, TableGrows
  PROVE  [Abstract!Next]_(Abstract!tableVars)
<1> DEFINE t == conn.table
           u == conn'.table
           x == Contents(t)
           y == Contents(u)
           m == Len(EncoderUnits)
<1>1. t \in Tables(Entry) /\ u \in Tables(Entry)
  BY DEF ReceiveInv, ClientInv, ConnOK, TableGrows, Reached
<1>2. PICK n \in 0..m : Adds(t, u, n)
  BY DEF TableGrows, Reached
<1>3. x \in Seq(Entry) /\ Len(x) = t.count /\ y \in Seq(Entry) /\ Len(y) = u.count
  BY <1>1, ContentsType
<1>4. t.count \in Nat /\ t.count <= TableSize /\ TableSize \in Nat /\ t.insert_count \in Nat
  BY <1>1, TableSizeAssumption DEF Tables
<1>5. m \in Nat
  <2>1. EncoderUnits \in Seq(AnyUnit)
    BY EncoderStreamIs DEF EncoderLaidOut
  <2> QED BY <2>1, LenProperties
<1>6. /\ u.insert_count = t.insert_count + n
      /\ u.count = IF t.count + n < TableSize THEN t.count + n ELSE TableSize
      /\ \A i \in (t.count + n - u.count) + 1..t.count : y[i - (t.count + n - u.count)] = x[i]
  BY <1>2 DEF Adds
<1> HIDE DEF x, y, m
<1>7. CASE n = 0
  <2>1. u.insert_count = t.insert_count /\ u.count = t.count
    BY <1>4, <1>6, <1>7
  <2>2. \A i \in 1..t.count : y[i] = x[i]
    BY <1>4, <1>6, <1>7, <2>1
  <2>3. x = y
    <3> DEFINE E == Entry
               c == t.count
    <3>1. x \in Seq(E) /\ Len(x) = c /\ y \in Seq(E) /\ Len(y) = c /\ \A i \in 1..c : y[i] = x[i]
      BY <1>3, <2>1, <2>2
    <3> HIDE DEF E, c
    <3> QED BY ONLY <3>1
  <2> QED BY <2>1, <2>3 DEF Abstract!tableVars, x, y
<1>8. CASE n # 0
  <2>1. n \in 1..m
    BY <1>5, <1>8
  <2>2. /\ u.insert_count = t.insert_count + n
        /\ Len(y) = IF Len(x) + n < TableSize THEN Len(x) + n ELSE TableSize
        /\ \A i \in (Len(x) + n - Len(y)) + 1..Len(x) : y[i - (Len(x) + n - Len(y))] = x[i]
    BY <1>3, <1>6
  <2>3. Abstract!Add(n)
    BY <2>2 DEF Abstract!Add, x, y
  <2> QED BY <2>1, <2>3 DEF Abstract!Next, m
<1> QED BY <1>7, <1>8

(* The ring of qpack.c implements the table of HeaderTable: a step of the  *)
(* connection adds entries at the end, and the oldest leave, or it leaves  *)
(* the table as it is.                                                     *)
THEOREM RingImplementsTable == Spec => ImplementsHeaderTable
<1>1. ReceiveInv /\ [Next]_vars => [Abstract!Next]_(Abstract!tableVars)
  BY ReceiveStep, ReachedIsStep
<1> QED BY <1>1, TableInit, InvHolds, PTL DEF Spec, ImplementsHeaderTable, Abstract!Spec
=============================================================================
