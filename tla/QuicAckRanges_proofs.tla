------------------------ MODULE QuicAckRanges_proofs ------------------------
(***************************************************************************)
(* Proofs about the table of received packet numbers, for every set of     *)
(* packet numbers and every table size.  AddReceivedCorrect says what one  *)
(* call of quic_add_received_pn does to a well-formed table; the           *)
(* invariants and the refinement of AckSet follow from it.                 *)
(***************************************************************************)
EXTENDS QuicAckRanges, InductionLemmas, FunctionTheorems

-----------------------------------------------------------------------------
(* Sequences and sets                                                      *)

(* RemoveAt drops entry i and moves the entries above it down by one.      *)
LEMMA RemoveAtEntries ==
  ASSUME NEW S, NEW s \in Seq(S), NEW i \in 1..Len(s)
  PROVE  /\ RemoveAt(s, i) \in Seq(S)
         /\ Len(RemoveAt(s, i)) = Len(s) - 1
         /\ \A j \in 1..Len(s) - 1 :
              RemoveAt(s, i)[j] = IF j < i THEN s[j] ELSE s[j + 1]
<1> DEFINE lo == SubSeq(s, 1, i - 1)
           hi == SubSeq(s, i + 1, Len(s))
<1>1. /\ Len(s) \in Nat
      /\ \A j \in 1..Len(s) : s[j] \in S
  BY ElementOfSeq, LenProperties
<1>2. /\ lo \in Seq(S)
      /\ Len(lo) = i - 1
      /\ \A j \in 1..i - 1 : lo[j] = s[j]
  <2>1. \A j \in 1..i - 1 : s[j] \in S
    BY <1>1
  <2>2. QED BY <2>1, <1>1, SubSeqProperties, Z3
<1>3. /\ hi \in Seq(S)
      /\ Len(hi) = Len(s) - i
      /\ \A j \in 1..Len(s) - i : hi[j] = s[i + j]
  <2>1. \A j \in i + 1..Len(s) : s[j] \in S
    BY <1>1
  <2>2. QED BY <2>1, <1>1, SubSeqProperties, Z3
<1>4. RemoveAt(s, i) = lo \o hi
  BY DEF RemoveAt
<1> HIDE DEF lo, hi
<1>5. /\ lo \o hi \in Seq(S)
      /\ Len(lo \o hi) = Len(lo) + Len(hi)
      /\ \A j \in 1..Len(lo) + Len(hi) :
           (lo \o hi)[j] = IF j <= Len(lo) THEN lo[j] ELSE hi[j - Len(lo)]
  BY <1>2, <1>3, ConcatProperties
<1>6. QED BY <1>1, <1>2, <1>3, <1>4, <1>5

(* InsertAt puts e at position i and moves the entries from i on up by one.*)
LEMMA InsertAtEntries ==
  ASSUME NEW S, NEW s \in Seq(S), NEW i \in 1..Len(s) + 1, NEW e \in S
  PROVE  /\ InsertAt(s, i, e) \in Seq(S)
         /\ Len(InsertAt(s, i, e)) = Len(s) + 1
         /\ \A j \in 1..Len(s) + 1 :
              InsertAt(s, i, e)[j] =
                IF j < i THEN s[j] ELSE IF j = i THEN e ELSE s[j - 1]
<1> DEFINE lo == SubSeq(s, 1, i - 1)
           hi == SubSeq(s, i, Len(s))
           le == lo \o <<e>>
<1>1. /\ Len(s) \in Nat
      /\ \A j \in 1..Len(s) : s[j] \in S
  BY ElementOfSeq, LenProperties
<1>2. /\ lo \in Seq(S)
      /\ Len(lo) = i - 1
      /\ \A j \in 1..i - 1 : lo[j] = s[j]
  <2>1. \A j \in 1..i - 1 : s[j] \in S
    BY <1>1
  <2>2. QED BY <2>1, <1>1, SubSeqProperties, Z3
<1>3. /\ hi \in Seq(S)
      /\ Len(hi) = Len(s) - i + 1
      /\ \A j \in 1..Len(s) - i + 1 : hi[j] = s[i + j - 1]
  <2>1. \A j \in i..Len(s) : s[j] \in S
    BY <1>1
  <2>2. QED BY <2>1, <1>1, SubSeqProperties, Z3
<1>4. InsertAt(s, i, e) = le \o hi
  BY DEF InsertAt
<1>5. /\ le \in Seq(S)
      /\ Len(le) = i
      /\ \A j \in 1..i : le[j] = IF j < i THEN s[j] ELSE e
  <2>1. /\ <<e>> \in Seq(S)
        /\ Len(<<e>>) = 1
        /\ <<e>>[1] = e
    OBVIOUS
  <2> HIDE DEF lo
  <2>2. /\ le \in Seq(S)
        /\ Len(le) = Len(lo) + Len(<<e>>)
        /\ \A j \in 1..Len(lo) + Len(<<e>>) :
             le[j] = IF j <= Len(lo) THEN lo[j] ELSE <<e>>[j - Len(lo)]
    BY <1>2, <2>1, ConcatProperties
  <2>3. Len(lo) = i - 1 /\ i \in Nat
    BY <1>1, <1>2
  <2>4. ASSUME NEW j \in 1..i
        PROVE  le[j] = IF j < i THEN s[j] ELSE e
    <3>1. le[j] = IF j <= i - 1 THEN lo[j] ELSE <<e>>[j - (i - 1)]
      BY <2>1, <2>2, <2>3
    <3>2. CASE j < i
      BY <3>1, <3>2, <1>2, <2>3
    <3>3. CASE j = i
      BY <3>1, <3>3, <2>1, <2>3
    <3>4. QED BY <3>2, <3>3, <2>3
  <2> HIDE DEF le
  <2>5. QED BY <2>1, <2>2, <2>3, <2>4
<1> HIDE DEF lo, hi, le
<1>6. /\ le \o hi \in Seq(S)
      /\ Len(le \o hi) = Len(le) + Len(hi)
      /\ \A j \in 1..Len(le) + Len(hi) :
           (le \o hi)[j] = IF j <= Len(le) THEN le[j] ELSE hi[j - Len(le)]
  BY <1>3, <1>5, ConcatProperties
<1>7. QED BY <1>1, <1>3, <1>4, <1>5, <1>6

-----------------------------------------------------------------------------
(* The table, seen through the two bounds of each range                    *)

Lo(rs, j) == rs[j].start
Hi(rs, j) == rs[j].end

(* The bounds of the ranges of a table are packet numbers.                 *)
LEMMA Bounds ==
  ASSUME NEW rs \in Seq(AckRange)
  PROVE  /\ Len(rs) \in Nat
         /\ \A j \in 1..Len(rs) : Lo(rs, j) \in Nat /\ Hi(rs, j) \in Nat
<1>1. Len(rs) \in Nat /\ \A j \in 1..Len(rs) : rs[j] \in AckRange
  BY LenProperties, ElementOfSeq
<1>2. \A r \in AckRange : r.start \in Nat /\ r.end \in Nat
  BY DEF AckRange
<1>3. QED BY <1>1, <1>2 DEF Lo, Hi

(* Ordered, in terms of the bounds.                                        *)
LEMMA OrderedBounds ==
  ASSUME NEW rs
  PROVE  Ordered(rs) <=>
           /\ \A j \in 1..Len(rs) : Lo(rs, j) <= Hi(rs, j)
           /\ \A j, k \in 1..Len(rs) : j < k => Hi(rs, j) + 1 < Lo(rs, k)
BY DEF Ordered, Lo, Hi

(* A range touches pn when pn lies in it or next to it.                    *)
LEMMA TouchingBounds ==
  ASSUME NEW rs, NEW pn, NEW j \in 1..Len(rs)
  PROVE  j \in Touching(rs, pn) <=> Lo(rs, j) - 1 <= pn /\ pn <= Hi(rs, j) + 1
BY DEF Touching, Lo, Hi

(* A number is covered exactly when some range of the table holds it.      *)
LEMMA CoveredBounds ==
  ASSUME NEW rs \in Seq(AckRange), NEW n
  PROVE  n \in Covered(rs) <=>
           n \in Nat /\ \E j \in 1..Len(rs) : Lo(rs, j) <= n /\ n <= Hi(rs, j)
<1>1. n \in Covered(rs) <=> \E j \in 1..Len(rs) : n \in Lo(rs, j) .. Hi(rs, j)
  BY DEF Covered, Lo, Hi
<1>2. QED BY <1>1, Bounds

(* One range replaced.                                                     *)
LEMMA ReplaceBounds ==
  ASSUME NEW rs \in Seq(AckRange), NEW i \in 1..Len(rs),
         NEW a \in Nat, NEW b \in Nat
  PROVE  LET new == [rs EXCEPT ![i] = Between(a, b)]
         IN  /\ new \in Seq(AckRange)
             /\ Len(new) = Len(rs)
             /\ \A j \in 1..Len(rs) :
                  /\ Lo(new, j) = IF j = i THEN a ELSE Lo(rs, j)
                  /\ Hi(new, j) = IF j = i THEN b ELSE Hi(rs, j)
<1> DEFINE new == [rs EXCEPT ![i] = Between(a, b)]
<1>1. Between(a, b) \in AckRange /\ Between(a, b).start = a /\ Between(a, b).end = b
  BY DEF Between, AckRange
<1>2. new \in Seq(AckRange) /\ Len(new) = Len(rs)
  BY <1>1, ExceptSeq
<1>3. \A j \in 1..Len(rs) : new[j] = IF j = i THEN Between(a, b) ELSE rs[j]
  BY <1>1, ExceptSeq, LenProperties
<1> HIDE DEF new
<1>4. QED BY <1>1, <1>2, <1>3 DEF Lo, Hi, new

(* One range removed.                                                      *)
LEMMA RemoveBounds ==
  ASSUME NEW rs \in Seq(AckRange), NEW i \in 1..Len(rs)
  PROVE  LET new == RemoveAt(rs, i)
         IN  /\ new \in Seq(AckRange)
             /\ Len(new) = Len(rs) - 1
             /\ \A j \in 1..Len(rs) - 1 :
                  /\ Lo(new, j) = IF j < i THEN Lo(rs, j) ELSE Lo(rs, j + 1)
                  /\ Hi(new, j) = IF j < i THEN Hi(rs, j) ELSE Hi(rs, j + 1)
BY RemoveAtEntries DEF Lo, Hi

(* One range inserted.                                                     *)
LEMMA InsertBounds ==
  ASSUME NEW rs \in Seq(AckRange), NEW i \in 1..Len(rs) + 1,
         NEW a \in Nat, NEW b \in Nat
  PROVE  LET new == InsertAt(rs, i, Between(a, b))
         IN  /\ new \in Seq(AckRange)
             /\ Len(new) = Len(rs) + 1
             /\ \A j \in 1..Len(rs) + 1 :
                  /\ Lo(new, j) = IF j < i THEN Lo(rs, j)
                                  ELSE IF j = i THEN a ELSE Lo(rs, j - 1)
                  /\ Hi(new, j) = IF j < i THEN Hi(rs, j)
                                  ELSE IF j = i THEN b ELSE Hi(rs, j - 1)
<1>1. Between(a, b) \in AckRange /\ Between(a, b).start = a /\ Between(a, b).end = b
  BY DEF Between, AckRange
<1> DEFINE e == Between(a, b)
           new == InsertAt(rs, i, e)
<1> HIDE DEF e
<1>2. /\ new \in Seq(AckRange)
      /\ Len(new) = Len(rs) + 1
      /\ \A j \in 1..Len(rs) + 1 :
           new[j] = IF j < i THEN rs[j] ELSE IF j = i THEN e ELSE rs[j - 1]
  BY <1>1, InsertAtEntries DEF e
<1> HIDE DEF new
<1>3. e.start = a /\ e.end = b
  BY <1>1 DEF e
<1>4. \A j \in 1..Len(rs) + 1 :
        /\ new[j].start = IF j < i THEN rs[j].start
                          ELSE IF j = i THEN a ELSE rs[j - 1].start
        /\ new[j].end = IF j < i THEN rs[j].end
                        ELSE IF j = i THEN b ELSE rs[j - 1].end
  BY <1>2, <1>3
<1>5. QED BY <1>2, <1>4 DEF Lo, Hi, new, e

-----------------------------------------------------------------------------
(* One call of quic_add_received_pn                                        *)

(* FirstTouching is the entry the scan of the C code stops at.             *)
LEMMA FirstTouchingLeast ==
  ASSUME NEW rs, NEW pn, Len(rs) \in Nat, Touching(rs, pn) # {}
  PROVE  /\ FirstTouching(rs, pn) \in Touching(rs, pn)
         /\ \A j \in Touching(rs, pn) : FirstTouching(rs, pn) <= j
<1>1. Touching(rs, pn) \subseteq Nat
  BY DEF Touching
<1>2. \E i \in Touching(rs, pn) : \A j \in Touching(rs, pn) : i <= j
  BY <1>1, LeastNumber
<1>3. QED BY <1>2 DEF FirstTouching

(* InsertPos exists, and splits the table into the ranges that start below *)
(* pn and those that do not.                                               *)
LEMMA InsertPosSplits ==
  ASSUME NEW rs \in Seq(AckRange), NEW pn \in Nat, Ordered(rs)
  PROVE  /\ InsertPos(rs, pn) \in 1..Len(rs) + 1
         /\ \A j \in 1..Len(rs) :
              IF j < InsertPos(rs, pn) THEN Lo(rs, j) < pn ELSE pn <= Lo(rs, j)
<1> DEFINE T == {k \in 1..Len(rs) + 1 : k <= Len(rs) => Lo(rs, k) >= pn}
           p == InsertPos(rs, pn)
<1>0. /\ Len(rs) \in Nat
      /\ \A j \in 1..Len(rs) : Lo(rs, j) \in Nat /\ Hi(rs, j) \in Nat
  BY Bounds
<1>1. T \subseteq Nat /\ Len(rs) + 1 \in T
  BY <1>0
<1>2. PICK k \in T : \A y \in T : k <= y
  <2> HIDE DEF T
  <2> QED BY <1>1, LeastNumber
<1>3. \A j \in 1..k - 1 : Lo(rs, j) < pn
  BY <1>0, <1>2
<1>4. \E q \in 1..Len(rs) + 1 :
        /\ q <= Len(rs) => rs[q].start >= pn
        /\ \A j \in 1..q - 1 : rs[j].start < pn
  BY <1>2, <1>3 DEF Lo
<1>5. /\ p \in 1..Len(rs) + 1
      /\ p <= Len(rs) => rs[p].start >= pn
      /\ \A j \in 1..p - 1 : rs[j].start < pn
  BY <1>4 DEF InsertPos
<1>6. /\ p <= Len(rs) => Lo(rs, p) >= pn
      /\ \A j \in 1..p - 1 : Lo(rs, j) < pn
  BY <1>5 DEF Lo
<1> HIDE DEF p, T
<1>7. /\ \A j \in 1..Len(rs) : Lo(rs, j) <= Hi(rs, j)
      /\ \A j, m \in 1..Len(rs) : j < m => Hi(rs, j) + 1 < Lo(rs, m)
  BY OrderedBounds
<1>8. ASSUME NEW j \in 1..Len(rs)
      PROVE  IF j < p THEN Lo(rs, j) < pn ELSE pn <= Lo(rs, j)
  <2>1. CASE j < p
    BY <2>1, <1>0, <1>5, <1>6
  <2>2. CASE j = p
    BY <2>2, <1>0, <1>5, <1>6
  <2>3. CASE p < j
    BY <2>3, <1>0, <1>5, <1>6, <1>7
  <2>4. QED BY <2>1, <2>2, <2>3, <1>0, <1>5
<1>9. QED BY <1>5, <1>8 DEF p

(* What each case of the call establishes: the table stays well formed and *)
(* covers pn besides what it covered before.                               *)
Records(rs, pn, new) ==
  /\ new \in Seq(AckRange)
  /\ Ordered(new)
  /\ Covered(new) = Covered(rs) \cup {pn}

(* pn is one below the first range it touches.  The merge with the range   *)
(* below never runs: that range would have been touched first.             *)
LEMMA ExtendDownRecords ==
  ASSUME NEW rs \in Seq(AckRange), Ordered(rs), NEW pn \in Nat,
         NEW i \in 1..Len(rs), pn = Lo(rs, i) - 1,
         \A j \in Touching(rs, pn) : i <= j
  PROVE  /\ Records(rs, pn, ExtendDown(rs, i, pn))
         /\ Len(ExtendDown(rs, i, pn)) = Len(rs)
<1> DEFINE new == [rs EXCEPT ![i] = Between(pn, Hi(rs, i))]
<1>0. /\ Len(rs) \in Nat
      /\ \A j \in 1..Len(rs) : Lo(rs, j) \in Nat /\ Hi(rs, j) \in Nat
  BY Bounds
<1>1. /\ \A j \in 1..Len(rs) : Lo(rs, j) <= Hi(rs, j)
      /\ \A j, k \in 1..Len(rs) : j < k => Hi(rs, j) + 1 < Lo(rs, k)
  BY OrderedBounds
<1>2. ASSUME NEW j \in 1..Len(rs), j < i
      PROVE  Hi(rs, j) + 1 < pn
  <2>1. j \notin Touching(rs, pn)
    BY <1>0, <1>2
  <2>2. ~ (Lo(rs, j) - 1 <= pn /\ pn <= Hi(rs, j) + 1)
    BY <2>1, TouchingBounds
  <2>3. QED BY <1>0, <1>1, <1>2, <2>2
<1>3. ExtendDown(rs, i, pn) = new
  <2>1. i > 1 => i - 1 \in 1..Len(rs) /\ i - 1 < i
    BY <1>0
  <2>2. ~ (i > 1 /\ Hi(rs, i - 1) >= pn - 1)
    BY <2>1, <1>0, <1>2
  <2>3. QED BY <2>2 DEF ExtendDown, Lo, Hi
<1>4. /\ new \in Seq(AckRange)
      /\ Len(new) = Len(rs)
      /\ \A j \in 1..Len(rs) : /\ Lo(new, j) = IF j = i THEN pn ELSE Lo(rs, j)
                               /\ Hi(new, j) = Hi(rs, j)
  BY <1>0, ReplaceBounds
<1> HIDE DEF new
<1>5. Ordered(new)
  <2>1. \A j \in 1..Len(new) : Lo(new, j) <= Hi(new, j)
    BY <1>0, <1>1, <1>4
  <2>2. \A j, k \in 1..Len(new) : j < k => Hi(new, j) + 1 < Lo(new, k)
    BY <1>0, <1>1, <1>2, <1>4
  <2>3. QED BY <2>1, <2>2, OrderedBounds
<1>6. ASSUME NEW n
      PROVE  n \in Covered(new) <=> n \in Covered(rs) \cup {pn}
  <2>1. ASSUME n \in Nat
        PROVE (\E j \in 1..Len(rs) : Lo(new, j) <= n /\ n <= Hi(new, j)) <=>
              (n = pn \/ \E j \in 1..Len(rs) : Lo(rs, j) <= n /\ n <= Hi(rs, j))
    BY <1>0, <1>1, <1>4, <2>1, SMTT(30)
  <2>2. QED BY <2>1, <1>4, CoveredBounds
<1>7. QED BY <1>3, <1>4, <1>5, <1>6 DEF Records

(* Only pn was missing between the range it is next above and the range    *)
(* after that: the two become one.                                         *)
LEMMA MergeRecords ==
  ASSUME NEW rs \in Seq(AckRange), Ordered(rs), NEW pn \in Nat,
         NEW i \in 1..Len(rs), pn = Hi(rs, i) + 1,
         i < Len(rs), Lo(rs, i + 1) <= pn + 1
  PROVE  /\ Records(rs, pn, ExtendUp(rs, i, pn))
         /\ Len(ExtendUp(rs, i, pn)) = Len(rs) - 1
<1> DEFINE mid == [rs EXCEPT ![i] = Between(Lo(rs, i), Hi(rs, i + 1))]
           new == RemoveAt(mid, i + 1)
<1>0. /\ Len(rs) \in Nat
      /\ \A j \in 1..Len(rs) : Lo(rs, j) \in Nat /\ Hi(rs, j) \in Nat
  BY Bounds
<1>1. /\ \A j \in 1..Len(rs) : Lo(rs, j) <= Hi(rs, j)
      /\ \A j, k \in 1..Len(rs) : j < k => Hi(rs, j) + 1 < Lo(rs, k)
  BY OrderedBounds
<1>2. i \in Nat /\ i + 1 \in 1..Len(rs) /\ Lo(rs, i + 1) = pn + 1
  BY <1>0, <1>1
<1>3. ExtendUp(rs, i, pn) = new
  BY DEF ExtendUp, Lo, Hi
<1>4. /\ mid \in Seq(AckRange)
      /\ Len(mid) = Len(rs)
      /\ \A j \in 1..Len(rs) : /\ Lo(mid, j) = Lo(rs, j)
                               /\ Hi(mid, j) = IF j = i THEN Hi(rs, i + 1)
                                               ELSE Hi(rs, j)
  BY <1>0, <1>2, ReplaceBounds
<1> HIDE DEF mid
<1>5. /\ new \in Seq(AckRange)
      /\ Len(new) = Len(rs) - 1
      /\ \A j \in 1..Len(rs) - 1 :
           /\ Lo(new, j) = IF j <= i THEN Lo(mid, j) ELSE Lo(mid, j + 1)
           /\ Hi(new, j) = IF j <= i THEN Hi(mid, j) ELSE Hi(mid, j + 1)
  <2>1. /\ new \in Seq(AckRange)
        /\ Len(new) = Len(mid) - 1
        /\ \A j \in 1..Len(mid) - 1 :
             /\ Lo(new, j) = IF j < i + 1 THEN Lo(mid, j) ELSE Lo(mid, j + 1)
             /\ Hi(new, j) = IF j < i + 1 THEN Hi(mid, j) ELSE Hi(mid, j + 1)
    BY <1>2, <1>4, RemoveBounds
  <2> HIDE DEF new
  <2>2. \A j \in 1..Len(rs) - 1 : j < i + 1 <=> j <= i
    BY <1>0, <1>2
  <2>3. QED BY <2>1, <2>2, <1>4
<1> HIDE DEF new
<1>6. \A j \in 1..Len(rs) - 1 :
        /\ Lo(new, j) = IF j <= i THEN Lo(rs, j) ELSE Lo(rs, j + 1)
        /\ Hi(new, j) = IF j < i THEN Hi(rs, j) ELSE Hi(rs, j + 1)
  <2> SUFFICES ASSUME NEW j \in 1..Len(rs) - 1
               PROVE  /\ Lo(new, j) = IF j <= i THEN Lo(rs, j) ELSE Lo(rs, j + 1)
                      /\ Hi(new, j) = IF j < i THEN Hi(rs, j) ELSE Hi(rs, j + 1)
    OBVIOUS
  <2>1. CASE j <= i
    BY <1>0, <1>2, <1>4, <1>5, <2>1, SMTT(30)
  <2>2. CASE j > i
    BY <1>0, <1>2, <1>4, <1>5, <2>2
  <2>3. QED BY <2>1, <2>2, <1>0
<1>7. Ordered(new)
  <2>0. \A j \in 1..Len(new) : /\ j \in 1..Len(rs) - 1
                                /\ j \in 1..Len(rs)
                                /\ j + 1 \in 1..Len(rs)
                                /\ j \in Nat
    BY <1>0, <1>5
  <2>1. ASSUME NEW j \in 1..Len(new)
        PROVE  Lo(new, j) <= Hi(new, j)
    <3>1. CASE j < i
      BY <3>1, <2>0, <1>0, <1>1, <1>2, <1>6
    <3>2. CASE j = i
      <4>1. Lo(new, j) = Lo(rs, i) /\ Hi(new, j) = Hi(rs, i + 1)
        BY <3>2, <2>0, <1>2, <1>6
      <4>2. QED BY <4>1, <1>0, <1>1, <1>2
    <3>3. CASE j > i
      BY <3>3, <2>0, <1>0, <1>1, <1>2, <1>6
    <3>4. QED BY <3>1, <3>2, <3>3, <2>0, <1>2
  <2>2. ASSUME NEW j \in 1..Len(new), NEW k \in 1..Len(new), j < k
        PROVE  Hi(new, j) + 1 < Lo(new, k)
    <3>1. Hi(new, j) = IF j < i THEN Hi(rs, j) ELSE Hi(rs, j + 1)
      BY <2>0, <1>6
    <3>2. Lo(new, k) = IF k <= i THEN Lo(rs, k) ELSE Lo(rs, k + 1)
      BY <2>0, <1>6
    <3>3. CASE k <= i
      <4>1. j < i
        BY <2>2, <3>3, <2>0, <1>2
      <4>2. QED BY <4>1, <3>1, <3>2, <3>3, <2>2, <2>0, <1>1
    <3>4. CASE k > i /\ j < i
      <4>1. j < k + 1 /\ ~ (k <= i)
        BY <3>4, <2>2, <2>0, <1>2
      <4>2. QED BY <4>1, <3>4, <3>1, <3>2, <2>0, <1>1
    <3>5. CASE k > i /\ ~ (j < i)
      <4>1. j + 1 < k + 1 /\ ~ (k <= i)
        BY <3>5, <2>2, <2>0, <1>2
      <4>2. QED BY <4>1, <3>5, <3>1, <3>2, <2>0, <1>1
    <3>6. QED BY <3>3, <3>4, <3>5, <2>0, <1>2
  <2>3. QED BY <2>1, <2>2, OrderedBounds
<1>8. ASSUME NEW n
      PROVE  n \in Covered(new) <=> n \in Covered(rs) \cup {pn}
  <2>1. ASSUME n \in Nat, NEW j \in 1..Len(new), Lo(new, j) <= n, n <= Hi(new, j)
        PROVE  n = pn \/ \E k \in 1..Len(rs) : Lo(rs, k) <= n /\ n <= Hi(rs, k)
    <3>1. CASE j < i
      BY <2>1, <3>1, <1>0, <1>5, <1>6
    <3>2. CASE j = i
      <4>1. Lo(rs, i) <= n /\ n <= Hi(rs, i + 1)
        BY <2>1, <3>2, <1>0, <1>2, <1>5, <1>6
      <4>2. n <= Hi(rs, i) \/ n = pn \/ Lo(rs, i + 1) <= n
        BY <2>1, <1>0, <1>2
      <4>3. QED BY <4>1, <4>2, <1>2
    <3>3. CASE j > i
      BY <2>1, <3>3, <1>0, <1>2, <1>5, <1>6
    <3>4. QED BY <3>1, <3>2, <3>3, <1>2, <1>5
  <2>2. ASSUME n \in Nat, NEW k \in 1..Len(rs), Lo(rs, k) <= n, n <= Hi(rs, k)
        PROVE  \E j \in 1..Len(new) : Lo(new, j) <= n /\ n <= Hi(new, j)
    <3>1. CASE k <= i
      <4>1. k \in 1..Len(new)
        BY <3>1, <1>0, <1>2, <1>5
      <4>2. Lo(new, k) <= n /\ n <= Hi(new, k)
        <5>1. Lo(new, k) = Lo(rs, k)
          BY <3>1, <4>1, <1>5, <1>6
        <5>2. Hi(new, k) = IF k < i THEN Hi(rs, k) ELSE Hi(rs, i + 1)
          <6>1. k \in 1..Len(rs) - 1
            BY <4>1, <1>5
          <6>2. Hi(new, k) = IF k < i THEN Hi(rs, k) ELSE Hi(rs, k + 1)
            BY <6>1, <1>6
          <6>3. k < i \/ k = i
            BY <3>1, <1>2, <6>1
          <6>4. QED BY <6>2, <6>3
        <5>3. k < i \/ k = i
          BY <3>1, <1>0, <1>2
        <5>4. Hi(rs, i) < Hi(rs, i + 1)
          BY <1>0, <1>1, <1>2
        <5>5. QED BY <5>1, <5>2, <5>3, <5>4, <2>2, <1>0, <1>2
      <4>3. QED BY <4>1, <4>2
    <3>2. CASE k > i
      <4>1. k - 1 \in 1..Len(new)
        BY <3>2, <1>0, <1>2, <1>5
      <4>2. Lo(new, k - 1) <= n /\ n <= Hi(new, k - 1)
        <5>1. k - 1 \in 1..Len(rs) - 1 /\ (k - 1) + 1 = k /\ ~ (k - 1 < i)
          BY <4>1, <3>2, <1>0, <1>2, <1>5
        <5>2. Hi(new, k - 1) = Hi(rs, k)
          BY <5>1, <1>6
        <5>3. Lo(new, k - 1) = IF k - 1 <= i THEN Lo(rs, k - 1) ELSE Lo(rs, k)
          BY <5>1, <1>6
        <5>4. k - 1 \in 1..Len(rs) /\ k - 1 < k
          BY <5>1, <1>0
        <5>5. PICK m \in 1..Len(rs) : m = k - 1
          BY <5>4
        <5>6. Lo(rs, m) <= Hi(rs, m) /\ Hi(rs, m) + 1 < Lo(rs, k)
          BY <5>4, <5>5, <1>1
        <5>7. Lo(rs, m) \in Nat /\ Hi(rs, m) \in Nat /\ Lo(rs, k) \in Nat
          BY <1>0
        <5>8. Lo(rs, m) < Lo(rs, k)
          BY <5>6, <5>7
        <5>9. Lo(new, m) = IF m <= i THEN Lo(rs, m) ELSE Lo(rs, k)
          BY <5>3, <5>5
        <5>10. Lo(new, m) <= n
          BY <5>7, <5>8, <5>9, <2>2
        <5>11. QED BY <5>2, <5>5, <5>10, <2>2
      <4>3. QED BY <4>1, <4>2
    <3>3. QED BY <3>1, <3>2, <1>0, <1>2
  <2>3. \E j \in 1..Len(new) : Lo(new, j) <= pn /\ pn <= Hi(new, j)
    <3>1. i \in 1..Len(new) /\ Lo(new, i) <= pn /\ pn <= Hi(new, i)
      BY <1>0, <1>1, <1>2, <1>5, <1>6
    <3>2. QED BY <3>1
  <2>4. QED BY <2>1, <2>2, <2>3, <1>5, CoveredBounds
<1>9. QED BY <1>3, <1>5, <1>7, <1>8 DEF Records

(* pn is one above a range and more than pn is missing before the next     *)
(* one: the range grows.                                                   *)
LEMMA GrowRecords ==
  ASSUME NEW rs \in Seq(AckRange), Ordered(rs), NEW pn \in Nat,
         NEW i \in 1..Len(rs), pn = Hi(rs, i) + 1,
         ~ (i < Len(rs) /\ Lo(rs, i + 1) <= pn + 1)
  PROVE  /\ Records(rs, pn, ExtendUp(rs, i, pn))
         /\ Len(ExtendUp(rs, i, pn)) = Len(rs)
<1> DEFINE new == [rs EXCEPT ![i] = Between(Lo(rs, i), pn)]
<1>0. /\ Len(rs) \in Nat
      /\ \A j \in 1..Len(rs) : Lo(rs, j) \in Nat /\ Hi(rs, j) \in Nat
  BY Bounds
<1>1. /\ \A j \in 1..Len(rs) : Lo(rs, j) <= Hi(rs, j)
      /\ \A j, k \in 1..Len(rs) : j < k => Hi(rs, j) + 1 < Lo(rs, k)
  BY OrderedBounds
<1>2. ExtendUp(rs, i, pn) = new
  BY DEF ExtendUp, Lo, Hi
<1>3. /\ new \in Seq(AckRange)
      /\ Len(new) = Len(rs)
      /\ \A j \in 1..Len(rs) : /\ Lo(new, j) = Lo(rs, j)
                               /\ Hi(new, j) = IF j = i THEN pn ELSE Hi(rs, j)
  BY <1>0, ReplaceBounds
<1> HIDE DEF new
<1>4. ASSUME NEW j \in 1..Len(rs), i < j
      PROVE  pn + 1 < Lo(rs, j)
  <2>1. i + 1 \in 1..Len(rs) /\ pn + 1 < Lo(rs, i + 1)
    BY <1>0, <1>4
  <2>2. CASE j = i + 1
    BY <2>1, <2>2
  <2>3. CASE j > i + 1
    BY <2>1, <2>3, <1>0, <1>1
  <2>4. QED BY <2>2, <2>3, <1>4, <1>0
<1>5. Ordered(new)
  <2>1. \A j \in 1..Len(new) : Lo(new, j) <= Hi(new, j)
    BY <1>0, <1>1, <1>3
  <2>2. \A j, k \in 1..Len(new) : j < k => Hi(new, j) + 1 < Lo(new, k)
    BY <1>0, <1>1, <1>3, <1>4
  <2>3. QED BY <2>1, <2>2, OrderedBounds
<1>6. ASSUME NEW n
      PROVE  n \in Covered(new) <=> n \in Covered(rs) \cup {pn}
  <2>1. ASSUME n \in Nat
        PROVE (\E j \in 1..Len(rs) : Lo(new, j) <= n /\ n <= Hi(new, j)) <=>
              (n = pn \/ \E j \in 1..Len(rs) : Lo(rs, j) <= n /\ n <= Hi(rs, j))
    BY <1>0, <1>1, <1>3, <2>1, SMTT(30)
  <2>2. QED BY <2>1, <1>3, CoveredBounds
<1>7. QED BY <1>2, <1>3, <1>5, <1>6 DEF Records

(* pn touches no range and there is room: it becomes a range of its own.   *)
LEMMA InsertRecords ==
  ASSUME NEW rs \in Seq(AckRange), Ordered(rs), NEW pn \in Nat,
         Touching(rs, pn) = {}
  PROVE  LET new == InsertAt(rs, InsertPos(rs, pn), Between(pn, pn))
         IN  Records(rs, pn, new) /\ Len(new) = Len(rs) + 1
<1> DEFINE p == InsertPos(rs, pn)
           new == InsertAt(rs, p, Between(pn, pn))
<1>0. /\ Len(rs) \in Nat
      /\ \A j \in 1..Len(rs) : Lo(rs, j) \in Nat /\ Hi(rs, j) \in Nat
  BY Bounds
<1>1. /\ \A j \in 1..Len(rs) : Lo(rs, j) <= Hi(rs, j)
      /\ \A j, k \in 1..Len(rs) : j < k => Hi(rs, j) + 1 < Lo(rs, k)
  BY OrderedBounds
<1>2. p \in 1..Len(rs) + 1 /\ p \in Nat
  BY <1>0, InsertPosSplits, SMTT(30)
<1>3. ASSUME NEW j \in 1..Len(rs)
      PROVE  IF j < p THEN Hi(rs, j) + 1 < pn ELSE pn + 1 < Lo(rs, j)
  <2>1. ~ (Lo(rs, j) - 1 <= pn /\ pn <= Hi(rs, j) + 1)
    BY TouchingBounds
  <2>2. IF j < p THEN Lo(rs, j) < pn ELSE pn <= Lo(rs, j)
    BY InsertPosSplits
  <2> HIDE DEF p
  <2>3. QED BY <2>1, <2>2, <1>0, <1>1, <1>2
<1> HIDE DEF p
<1>4. /\ new \in Seq(AckRange)
      /\ Len(new) = Len(rs) + 1
      /\ \A j \in 1..Len(rs) + 1 :
           /\ Lo(new, j) = IF j < p THEN Lo(rs, j)
                           ELSE IF j = p THEN pn ELSE Lo(rs, j - 1)
           /\ Hi(new, j) = IF j < p THEN Hi(rs, j)
                           ELSE IF j = p THEN pn ELSE Hi(rs, j - 1)
  BY <1>2, InsertBounds, SMTT(30)
<1> HIDE DEF new
<1>5. Ordered(new)
  <2>1. \A j \in 1..Len(new) : Lo(new, j) <= Hi(new, j)
    BY <1>0, <1>1, <1>2, <1>4
  <2>2. ASSUME NEW j \in 1..Len(new), NEW k \in 1..Len(new), j < k
        PROVE  Hi(new, j) + 1 < Lo(new, k)
    <3>0. /\ j \in 1..Len(rs) + 1 /\ k \in 1..Len(rs) + 1
          /\ j \in Nat /\ k \in Nat
      BY <1>0, <1>4
    <3>1. CASE k < p
      <4>1. j \in 1..Len(rs) /\ k \in 1..Len(rs) /\ j < p
        BY <2>2, <3>0, <3>1, <1>0, <1>2
      <4>2. Hi(new, j) = Hi(rs, j) /\ Lo(new, k) = Lo(rs, k)
        BY <3>0, <3>1, <4>1, <1>4
      <4>3. QED BY <2>2, <4>1, <4>2, <1>1
    <3>2. CASE k = p
      BY <2>2, <3>2, <1>0, <1>2, <1>3, <1>4
    <3>3. CASE k > p /\ j < p
      <4>1. /\ j \in 1..Len(rs) /\ k - 1 \in 1..Len(rs) /\ k - 1 >= p
            /\ ~ (k < p) /\ ~ (k = p) /\ ~ (k - 1 < p)
        BY <3>0, <3>3, <1>0, <1>2
      <4>2. Hi(new, j) = Hi(rs, j) /\ Lo(new, k) = Lo(rs, k - 1)
        BY <3>0, <3>3, <4>1, <1>4
      <4>3. Hi(rs, j) + 1 < pn /\ pn + 1 < Lo(rs, k - 1)
        BY <3>3, <4>1, <1>3
      <4>4. Hi(rs, j) \in Nat /\ Lo(rs, k - 1) \in Nat
        BY <4>1, <1>0
      <4>5. QED BY <4>2, <4>3, <4>4
    <3>4. CASE k > p /\ j = p
      BY <2>2, <3>4, <1>0, <1>2, <1>3, <1>4
    <3>5. CASE j > p
      <4>1. /\ j - 1 \in 1..Len(rs) /\ k - 1 \in 1..Len(rs) /\ j - 1 < k - 1
            /\ ~ (j < p) /\ ~ (j = p) /\ ~ (k < p) /\ ~ (k = p)
        BY <2>2, <3>0, <3>5, <1>0, <1>2
      <4>2. Hi(new, j) = Hi(rs, j - 1) /\ Lo(new, k) = Lo(rs, k - 1)
        BY <3>0, <4>1, <1>4
      <4>3. QED BY <4>1, <4>2, <1>1
    <3>6. QED BY <2>2, <3>1, <3>2, <3>3, <3>4, <3>5, <1>0, <1>2, <1>4
  <2>3. QED BY <2>1, <2>2, OrderedBounds
<1>6. ASSUME NEW n
      PROVE  n \in Covered(new) <=> n \in Covered(rs) \cup {pn}
  <2>1. ASSUME n \in Nat, NEW j \in 1..Len(new), Lo(new, j) <= n, n <= Hi(new, j)
        PROVE  n = pn \/ \E k \in 1..Len(rs) : Lo(rs, k) <= n /\ n <= Hi(rs, k)
    <3>1. CASE j < p
      BY <2>1, <3>1, <1>0, <1>2, <1>4
    <3>2. CASE j = p
      BY <2>1, <3>2, <1>2, <1>4
    <3>3. CASE j > p
      BY <2>1, <3>3, <1>0, <1>2, <1>4
    <3>4. QED BY <3>1, <3>2, <3>3, <1>0, <1>2, <1>4
  <2>2. ASSUME n \in Nat, NEW k \in 1..Len(rs), Lo(rs, k) <= n, n <= Hi(rs, k)
        PROVE  \E j \in 1..Len(new) : Lo(new, j) <= n /\ n <= Hi(new, j)
    <3>1. CASE k < p
      <4>1. k \in 1..Len(new) /\ Lo(new, k) = Lo(rs, k) /\ Hi(new, k) = Hi(rs, k)
        BY <3>1, <1>0, <1>2, <1>4
      <4>2. QED BY <4>1, <2>2
    <3>2. CASE k >= p
      <4>1. k + 1 \in 1..Len(new) /\ k + 1 > p /\ (k + 1) - 1 = k
        BY <3>2, <1>0, <1>2, <1>4
      <4>2. Lo(new, k + 1) = Lo(rs, k) /\ Hi(new, k + 1) = Hi(rs, k)
        BY <4>1, <1>2, <1>4
      <4>3. QED BY <4>1, <4>2, <2>2
    <3>3. QED BY <3>1, <3>2, <1>0, <1>2
  <2>3. \E j \in 1..Len(new) : Lo(new, j) <= pn /\ pn <= Hi(new, j)
    <3>1. p \in 1..Len(new) /\ Lo(new, p) = pn /\ Hi(new, p) = pn
      BY <1>0, <1>2, <1>4
    <3>2. QED BY <3>1
  <2>4. QED BY <2>1, <2>2, <2>3, <1>4, CoveredBounds
<1>7. QED BY <1>4, <1>5, <1>6 DEF Records, new, p

(* What quic_add_received_pn does to a well-formed table: the table stays  *)
(* well formed, and pn is covered from then on unless the table is full    *)
(* and pn touches nothing in it.                                           *)
THEOREM AddReceivedCorrect ==
  ASSUME NEW rs \in Seq(AckRange), Ordered(rs), Len(rs) <= Limit, NEW pn \in Nat
  PROVE  LET new == AddReceived(rs, pn)
         IN  /\ new \in Seq(AckRange)
             /\ Ordered(new)
             /\ Len(new) <= Limit
             /\ Covered(new) = IF Touching(rs, pn) = {} /\ Len(rs) >= Limit
                               THEN Covered(rs) ELSE Covered(rs) \cup {pn}
<1> DEFINE new == AddReceived(rs, pn)
           i == FirstTouching(rs, pn)
<1>0. /\ Len(rs) \in Nat
      /\ Limit \in Nat
      /\ \A j \in 1..Len(rs) : Lo(rs, j) \in Nat /\ Hi(rs, j) \in Nat
  BY Bounds, LimitAssumption
<1>1. CASE Touching(rs, pn) # {}
  <2>1. /\ i \in Touching(rs, pn)
        /\ \A j \in Touching(rs, pn) : i <= j
    BY <1>0, <1>1, FirstTouchingLeast
  <2>2. i \in 1..Len(rs)
    BY <2>1 DEF Touching
  <2>3. Lo(rs, i) - 1 <= pn /\ pn <= Hi(rs, i) + 1
    BY <2>1, <2>2, TouchingBounds
  <2>4. new = IF pn = Lo(rs, i) - 1 THEN ExtendDown(rs, i, pn)
              ELSE IF pn = Hi(rs, i) + 1 THEN ExtendUp(rs, i, pn) ELSE rs
    BY <1>1 DEF AddReceived, Lo, Hi
  <2>5. (Records(rs, pn, new) /\ Len(new) <= Len(rs)) \/ (new = rs /\ pn \in Covered(rs))
    <3>1. CASE pn = Lo(rs, i) - 1
      <4>1. new = ExtendDown(rs, i, pn)
        BY <2>4, <3>1
      <4> HIDE DEF new, i
      <4>2. Records(rs, pn, ExtendDown(rs, i, pn)) /\ Len(ExtendDown(rs, i, pn)) = Len(rs)
        BY <2>1, <2>2, <3>1, ExtendDownRecords
      <4>3. QED BY <4>1, <4>2, <1>0
    <3>2. CASE pn # Lo(rs, i) - 1 /\ pn = Hi(rs, i) + 1
      <4>1. new = ExtendUp(rs, i, pn)
        BY <2>4, <3>2
      <4> HIDE DEF new, i
      <4>2. Records(rs, pn, ExtendUp(rs, i, pn)) /\ Len(ExtendUp(rs, i, pn)) <= Len(rs)
        <5>1. CASE i < Len(rs) /\ Lo(rs, i + 1) <= pn + 1
          <6>1. /\ Records(rs, pn, ExtendUp(rs, i, pn))
                /\ Len(ExtendUp(rs, i, pn)) = Len(rs) - 1
            BY <2>2, <3>2, <5>1, MergeRecords
          <6>2. QED BY <6>1, <1>0
        <5>2. CASE ~ (i < Len(rs) /\ Lo(rs, i + 1) <= pn + 1)
          <6>1. /\ Records(rs, pn, ExtendUp(rs, i, pn))
                /\ Len(ExtendUp(rs, i, pn)) = Len(rs)
            BY <2>2, <3>2, <5>2, GrowRecords
          <6>2. QED BY <6>1, <1>0
        <5>3. QED BY <5>1, <5>2
      <4>3. QED BY <4>1, <4>2
    <3>3. CASE pn # Lo(rs, i) - 1 /\ pn # Hi(rs, i) + 1
      <4>1. new = rs
        BY <2>4, <3>3
      <4> HIDE DEF new, i
      <4>2. Lo(rs, i) <= pn /\ pn <= Hi(rs, i)
        BY <1>0, <2>2, <2>3, <3>3
      <4>3. pn \in Covered(rs)
        BY <2>2, <4>2, CoveredBounds
      <4>4. QED BY <4>1, <4>3
    <3>4. QED BY <3>1, <3>2, <3>3
  <2> HIDE DEF new, i
  <2>6. CASE Records(rs, pn, new) /\ Len(new) <= Len(rs)
    <3>1. new \in Seq(AckRange) /\ Ordered(new) /\ Covered(new) = Covered(rs) \cup {pn}
      BY <2>6 DEF Records
    <3>2. Len(new) <= Limit
      BY <2>6, <3>1, <1>0, Bounds
    <3>3. QED BY <1>1, <3>1, <3>2 DEF new
  <2>7. CASE new = rs /\ pn \in Covered(rs)
    <3>1. Covered(rs) = Covered(rs) \cup {pn}
      BY <2>7
    <3>2. QED BY <1>1, <2>7, <3>1 DEF new
  <2>8. QED BY <2>5, <2>6, <2>7
<1>2. CASE Touching(rs, pn) = {} /\ Len(rs) >= Limit
  BY <1>2 DEF AddReceived
<1>3. CASE Touching(rs, pn) = {} /\ ~ (Len(rs) >= Limit)
  <2>1. new = InsertAt(rs, InsertPos(rs, pn), Between(pn, pn))
    BY <1>3 DEF AddReceived
  <2>2. Records(rs, pn, new) /\ Len(new) = Len(rs) + 1
    BY <1>3, <2>1, InsertRecords
  <2> HIDE DEF new
  <2>3. new \in Seq(AckRange) /\ Ordered(new) /\ Covered(new) = Covered(rs) \cup {pn}
    BY <2>2 DEF Records
  <2>4. Len(new) <= Limit
    BY <2>2, <1>0, <1>3
  <2>5. QED BY <1>3, <2>3, <2>4 DEF new
<1>4. QED BY <1>1, <1>2, <1>3

-----------------------------------------------------------------------------
(* The table and the abstract set                                          *)

(* A number touches no range exactly when it is isolated in the set.       *)
LEMMA TouchingIsolated ==
  ASSUME NEW rs \in Seq(AckRange), Ordered(rs), NEW pn \in Nat
  PROVE  Abstract!Isolated(Covered(rs), pn) <=> Touching(rs, pn) = {}
<1>0. /\ Len(rs) \in Nat
      /\ \A j \in 1..Len(rs) : Lo(rs, j) \in Nat /\ Hi(rs, j) \in Nat
  BY Bounds
<1>1. \A j \in 1..Len(rs) : Lo(rs, j) <= Hi(rs, j)
  BY OrderedBounds
<1>2. Abstract!Isolated(Covered(rs), pn) <=>
        /\ pn - 1 \notin Covered(rs)
        /\ pn \notin Covered(rs)
        /\ pn + 1 \notin Covered(rs)
  BY DEF Abstract!Isolated
<1>3. ASSUME NEW j \in Touching(rs, pn)
      PROVE  pn - 1 \in Covered(rs) \/ pn \in Covered(rs) \/ pn + 1 \in Covered(rs)
  <2>1. j \in 1..Len(rs)
    BY DEF Touching
  <2>2. Lo(rs, j) - 1 <= pn /\ pn <= Hi(rs, j) + 1
    BY <2>1, TouchingBounds
  <2>3. CASE pn = Lo(rs, j) - 1
    <3>1. pn + 1 \in Nat /\ Lo(rs, j) <= pn + 1 /\ pn + 1 <= Hi(rs, j)
      BY <1>0, <1>1, <2>1, <2>3
    <3>2. QED BY <2>1, <3>1, CoveredBounds
  <2>4. CASE pn = Hi(rs, j) + 1
    <3>1. pn - 1 \in Nat /\ Lo(rs, j) <= pn - 1 /\ pn - 1 <= Hi(rs, j)
      BY <1>0, <1>1, <2>1, <2>4
    <3>2. QED BY <2>1, <3>1, CoveredBounds
  <2>5. CASE pn # Lo(rs, j) - 1 /\ pn # Hi(rs, j) + 1
    <3>1. Lo(rs, j) <= pn /\ pn <= Hi(rs, j)
      BY <1>0, <2>1, <2>2, <2>5
    <3>2. QED BY <2>1, <3>1, CoveredBounds
  <2>6. QED BY <2>3, <2>4, <2>5
<1>4. ASSUME NEW n, n = pn - 1 \/ n = pn \/ n = pn + 1, n \in Covered(rs)
      PROVE  Touching(rs, pn) # {}
  <2>1. PICK j \in 1..Len(rs) : Lo(rs, j) <= n /\ n <= Hi(rs, j)
    BY <1>4, CoveredBounds
  <2>2. Lo(rs, j) - 1 <= pn /\ pn <= Hi(rs, j) + 1
    BY <1>0, <1>4, <2>1
  <2>3. j \in Touching(rs, pn)
    BY <2>2, TouchingBounds
  <2>4. QED BY <2>3
<1>5. QED BY <1>2, <1>3, <1>4

(* The runs of the set begin where the ranges of the table do, so there    *)
(* are as many runs as ranges.                                             *)
LEMMA RunsAreRanges ==
  ASSUME NEW rs \in Seq(AckRange), Ordered(rs)
  PROVE  Cardinality(Abstract!RunStarts(Covered(rs))) = Len(rs)
<1> DEFINE R == Abstract!RunStarts(Covered(rs))
           f == [j \in 1..Len(rs) |-> Lo(rs, j)]
<1>0. /\ Len(rs) \in Nat
      /\ \A j \in 1..Len(rs) : Lo(rs, j) \in Nat /\ Hi(rs, j) \in Nat
  BY Bounds
<1>1. /\ \A j \in 1..Len(rs) : Lo(rs, j) <= Hi(rs, j)
      /\ \A j, k \in 1..Len(rs) : j < k => Hi(rs, j) + 1 < Lo(rs, k)
  BY OrderedBounds
<1>2. \A n : n \in R <=> n \in Covered(rs) /\ n - 1 \notin Covered(rs)
  BY DEF Abstract!RunStarts
<1>3. ASSUME NEW j \in 1..Len(rs)
      PROVE  Lo(rs, j) \in R
  <2>1. Lo(rs, j) \in Covered(rs)
    BY <1>0, <1>1, CoveredBounds
  <2>2. ASSUME NEW k \in 1..Len(rs), Lo(rs, k) <= Lo(rs, j) - 1, Lo(rs, j) - 1 <= Hi(rs, k)
        PROVE  FALSE
    <3>1. CASE k < j
      BY <2>2, <3>1, <1>0, <1>1
    <3>2. CASE k = j
      BY <2>2, <3>2, <1>0
    <3>3. CASE k > j
      <4>1. Hi(rs, j) + 1 < Lo(rs, k) /\ Lo(rs, j) <= Hi(rs, j)
        BY <3>3, <1>1
      <4>2. QED BY <2>2, <4>1, <1>0
    <3>4. QED BY <3>1, <3>2, <3>3, <1>0
  <2>3. Lo(rs, j) - 1 \notin Covered(rs)
    BY <2>2, CoveredBounds
  <2>4. QED BY <1>2, <2>1, <2>3
<1>4. ASSUME NEW n \in R
      PROVE  \E j \in 1..Len(rs) : Lo(rs, j) = n
  <2>1. n \in Nat /\ n \in Covered(rs) /\ n - 1 \notin Covered(rs)
    BY <1>2, CoveredBounds
  <2>2. PICK j \in 1..Len(rs) : Lo(rs, j) <= n /\ n <= Hi(rs, j)
    BY <2>1, CoveredBounds
  <2>3. ASSUME Lo(rs, j) < n
        PROVE  FALSE
    <3>1. n - 1 \in Nat /\ Lo(rs, j) <= n - 1 /\ n - 1 <= Hi(rs, j)
      BY <2>1, <2>2, <2>3, <1>0
    <3>2. n - 1 \in Covered(rs)
      BY <3>1, CoveredBounds
    <3>3. QED BY <3>2, <2>1
  <2>4. Lo(rs, j) = n
    BY <2>1, <2>2, <2>3, <1>0
  <2>5. QED BY <2>4
<1> HIDE DEF R
<1>5. f \in [1..Len(rs) -> R]
  BY <1>3
<1>6. \A j, k \in 1..Len(rs) : f[j] = f[k] => j = k
  <2> SUFFICES ASSUME NEW j \in 1..Len(rs), NEW k \in 1..Len(rs), j # k
               PROVE  f[j] # f[k]
    OBVIOUS
  <2>1. CASE j < k
    BY <2>1, <1>0, <1>1
  <2>2. CASE k < j
    BY <2>2, <1>0, <1>1
  <2>3. QED BY <2>1, <2>2, <1>0
<1>7. \A n \in R : \E j \in 1..Len(rs) : f[j] = n
  BY <1>4
<1> HIDE DEF f
<1>8. f \in Bijection(1..Len(rs), R)
  BY <1>5, <1>6, <1>7, Fun_IsBij
<1>9. ExistsBijection(1..Len(rs), R)
  BY <1>8 DEF ExistsBijection
<1>10. IsFiniteSet(1..Len(rs)) /\ Cardinality(1..Len(rs)) = Len(rs)
  <2>1. 0 \in Int /\ 1 \in Int /\ Len(rs) \in Int
    BY <1>0
  <2>2. /\ IsFiniteSet(1..Len(rs))
        /\ Cardinality(1..Len(rs)) = IF 1 > Len(rs) THEN 0 ELSE Len(rs) - 1 + 1
    BY <2>1, FS_Interval, Zenon
  <2>3. (IF 1 > Len(rs) THEN 0 ELSE Len(rs) - 1 + 1) = Len(rs)
    BY <1>0
  <2>4. Cardinality(1..Len(rs)) = Len(rs)
    BY <2>2, <2>3
  <2>5. QED BY <2>2, <2>4
<1>11. Cardinality(R) = Len(rs)
  BY <1>9, <1>10, FS_Bijection
<1>12. QED BY <1>11 DEF R

-----------------------------------------------------------------------------
(* The specification                                                       *)

IInv == TypeOK /\ RangesOrdered /\ NeverAcksUnreceived

(* The table is always well formed and covers received numbers only.       *)
THEOREM Invariance == Spec => []IInv
<1>1. Init => IInv
  <2> SUFFICES ASSUME Init PROVE IInv
    OBVIOUS
  <2>1. ranges = <<>> /\ received = {}
    BY DEF Init
  <2>2. ranges \in Seq(AckRange) /\ Len(ranges) = 0
    BY <2>1
  <2>3. 1..Len(ranges) = {}
    BY <2>2
  <2>4. Ordered(ranges) /\ Covered(ranges) = {}
    BY <2>3 DEF Ordered, Covered
  <2>5. QED BY <2>1, <2>2, <2>4, LimitAssumption
            DEF IInv, TypeOK, RangesOrdered, NeverAcksUnreceived
<1>2. IInv /\ [Next]_vars => IInv'
  <2> SUFFICES ASSUME IInv, [Next]_vars PROVE IInv'
    OBVIOUS
  <2>1. CASE Next
    <3>1. PICK pn \in PN : ReceivePacket(pn)
      BY <2>1 DEF Next
    <3>2. /\ ranges' = AddReceived(ranges, pn)
          /\ received' = received \cup {pn}
          /\ pn \in Nat
      BY <3>1, PNAssumption DEF ReceivePacket
    <3>3. /\ ranges \in Seq(AckRange) /\ Ordered(ranges) /\ Len(ranges) <= Limit
          /\ received \subseteq PN /\ Covered(ranges) \subseteq received
      BY DEF IInv, TypeOK, RangesOrdered, NeverAcksUnreceived
    <3>4. /\ ranges' \in Seq(AckRange) /\ Ordered(ranges') /\ Len(ranges') <= Limit
          /\ Covered(ranges') = IF Touching(ranges, pn) = {} /\ Len(ranges) >= Limit
                                THEN Covered(ranges) ELSE Covered(ranges) \cup {pn}
      BY <3>2, <3>3, AddReceivedCorrect
    <3>5. Covered(ranges') \subseteq received'
      BY <3>2, <3>3, <3>4
    <3>6. QED BY <3>2, <3>3, <3>4, <3>5
              DEF IInv, TypeOK, RangesOrdered, NeverAcksUnreceived
  <2>2. CASE UNCHANGED vars
    BY <2>2 DEF vars, IInv, TypeOK, RangesOrdered, NeverAcksUnreceived, Ordered, Covered
  <2>3. QED BY <2>1, <2>2
<1>3. QED BY <1>1, <1>2, PTL DEF Spec

(* The entries are ranges of packet numbers.                               *)
THEOREM TypeCorrect == Spec => []TypeOK
<1>1. IInv => TypeOK
  BY DEF IInv
<1>2. QED BY <1>1, Invariance, PTL

(* The array stays sorted, bounded, and free of adjacent ranges.           *)
THEOREM TableStaysOrdered == Spec => []RangesOrdered
<1>1. IInv => RangesOrdered
  BY DEF IInv
<1>2. QED BY <1>1, Invariance, PTL

(* No packet is acknowledged that was not received.                        *)
THEOREM OnlyReceivedAcked == Spec => []NeverAcksUnreceived
<1>1. IInv => NeverAcksUnreceived
  BY DEF IInv
<1>2. QED BY <1>1, Invariance, PTL

(* The table implements AckSet: every call does to the covered set exactly *)
(* what receiving the packet does to the abstract set.                     *)
THEOREM Refinement == Spec => ImplementsAckSet
<1>1. Init => Abstract!Init
  <2> SUFFICES ASSUME Init PROVE Abstract!Init
    OBVIOUS
  <2>1. ranges = <<>> /\ received = {}
    BY DEF Init
  <2>2. 1..Len(ranges) = {}
    BY <2>1
  <2>3. Covered(ranges) = {}
    BY <2>2 DEF Covered
  <2>4. QED BY <2>1, <2>3 DEF Abstract!Init
<1>2. IInv /\ [Next]_vars => [Abstract!Next]_(Abstract!asVars)
  <2> SUFFICES ASSUME IInv, [Next]_vars
               PROVE  Abstract!Next \/ UNCHANGED Abstract!asVars
    OBVIOUS
  <2>1. CASE Next
    <3>1. PICK pn \in PN : ReceivePacket(pn)
      BY <2>1 DEF Next
    <3>2. /\ ranges' = AddReceived(ranges, pn)
          /\ received' = received \cup {pn}
          /\ pn \in Nat
      BY <3>1, PNAssumption DEF ReceivePacket
    <3>3. ranges \in Seq(AckRange) /\ Ordered(ranges) /\ Len(ranges) <= Limit
      BY DEF IInv, TypeOK, RangesOrdered
    <3>4. Covered(ranges)' = IF Touching(ranges, pn) = {} /\ Len(ranges) >= Limit
                             THEN Covered(ranges) ELSE Covered(ranges) \cup {pn}
      BY <3>2, <3>3, AddReceivedCorrect
    <3>5. Abstract!Isolated(Covered(ranges), pn) <=> Touching(ranges, pn) = {}
      BY <3>2, <3>3, TouchingIsolated
    <3>6. Cardinality(Abstract!RunStarts(Covered(ranges))) = Len(ranges)
      BY <3>3, RunsAreRanges
    <3>7. Abstract!Receive(pn)
      <4>1. Abstract!Cardinality(Abstract!RunStarts(Covered(ranges))) = Len(ranges)
        BY <3>6 DEF Abstract!Cardinality, Cardinality
      <4>2. QED BY <3>2, <3>4, <3>5, <4>1 DEF Abstract!Receive
    <3>8. QED BY <3>7 DEF Abstract!Next
  <2>2. CASE UNCHANGED vars
    BY <2>2 DEF vars, Abstract!asVars, Covered
  <2>3. QED BY <2>1, <2>2
<1>3. QED BY <1>1, <1>2, Invariance, PTL DEF Spec, ImplementsAckSet, Abstract!Spec

-----------------------------------------------------------------------------
(* The ACK frame, written and read back                                    *)

(* The packet numbers of the ranges from the j-th on.                      *)
CoveredFrom(rs, j) == UNION {rs[m].start .. rs[m].end : m \in j..Len(rs)}

(* The walk's state after i further blocks of the frame built from rs.     *)
WalkState(rs, i) ==
  [curr |-> rs[Len(rs) - i].start, pns |-> CoveredFrom(rs, Len(rs) - i)]

(* The right-hand side of the recursion in ParseAck.                       *)
Walk(f, w) ==
  [i \in 0..Len(f.more) |->
     IF i = 0 THEN FirstBlock(f) ELSE NextBlock(w[i - 1], f.more[i])]

(* A range counted down from its end by its length less one.               *)
LEMMA CountedDown ==
  ASSUME NEW a \in Nat, NEW b \in Nat, a <= b
  PROVE  {b - p : p \in 0..b - a} = a..b
<1>1. ASSUME NEW p \in 0..b - a PROVE b - p \in a..b
  OBVIOUS
<1>2. ASSUME NEW x \in a..b PROVE \E p \in 0..b - a : x = b - p
  <2>1. b - x \in 0..b - a /\ x = b - (b - x)
    OBVIOUS
  <2> QED BY <2>1
<1> QED BY <1>1, <1>2

(* What the blocks of a built frame are, and that each takes the walk one  *)
(* range down.                                                             *)
LEMMA BuiltBlocks ==
  ASSUME NEW rs \in Seq(AckRange), Ordered(rs), rs # <<>>
  PROVE  /\ Len(rs) \in Nat \ {0}
         /\ Len(BuildAck(rs).more) = Len(rs) - 1
         /\ FirstBlock(BuildAck(rs)) = WalkState(rs, 0)
         /\ \A i \in 1..Len(rs) - 1 :
              NextBlock(WalkState(rs, i - 1), BuildAck(rs).more[i]) = WalkState(rs, i)
<1> DEFINE n == Len(rs)
           f == BuildAck(rs)
<1>1. /\ n \in Nat \ {0}
      /\ \A j \in 1..n : rs[j].start \in Nat /\ rs[j].end \in Nat
                         /\ rs[j].start <= rs[j].end
  <2>1. n \in Nat \ {0}
    BY EmptySeq, LenProperties
  <2>2. \A j \in 1..n : rs[j] \in AckRange
    BY ElementOfSeq
  <2> QED BY <2>1, <2>2 DEF Ordered, AckRange
<1>2. /\ f.largest = rs[n].end /\ f.first = rs[n].end - rs[n].start
      /\ Len(f.more) = n - 1
      /\ \A i \in 1..n - 1 : /\ f.more[i].gap = rs[n - i + 1].start - rs[n - i].end - 2
                             /\ f.more[i].len = rs[n - i].end - rs[n - i].start
  BY <1>1 DEF BuildAck
<1> HIDE DEF f
<1>3. FirstBlock(f) = WalkState(rs, 0)
  <2> DEFINE a == rs[n].start
             b == rs[n].end
  <2>1. /\ a \in Nat /\ b \in Nat /\ a <= b
        /\ f.largest = b /\ f.first = b - a
    BY <1>1, <1>2
  <2>2. CoveredFrom(rs, n) = a..b
    <3>1. n..n = {n}
      BY <1>1
    <3> QED BY <3>1 DEF CoveredFrom
  <2>3. WalkState(rs, 0) = [curr |-> a, pns |-> a..b]
    BY <1>1, <2>2 DEF WalkState
  <2> HIDE DEF a, b
  <2>4. FirstBlock(f) = [curr |-> a, pns |-> {b - p : p \in 0..b - a}]
    <3> DEFINE S == {f.largest - p : p \in 0..f.first}
    <3>1. S = {b - p : p \in 0..b - a}
      BY <2>1
    <3>2. FirstBlock(f) =
            [curr |-> IF f.largest >= f.first THEN f.largest - f.first ELSE f.largest,
             pns  |-> S]
      BY DEF FirstBlock
    <3> HIDE DEF S
    <3>3. f.largest >= f.first /\ f.largest - f.first = a
      BY <2>1
    <3> QED BY <3>1, <3>2, <3>3
  <2> QED BY <2>1, <2>3, <2>4, CountedDown
<1>4. ASSUME NEW i \in 1..n - 1
      PROVE  NextBlock(WalkState(rs, i - 1), f.more[i]) = WalkState(rs, i)
  <2> DEFINE a == rs[n - i].start
             b == rs[n - i].end
             c == rs[n - i + 1].start
             P == CoveredFrom(rs, n - i + 1)
             w == WalkState(rs, i - 1)
             block == f.more[i]
  <2>1. n - i \in 1..n /\ n - i + 1 \in 1..n /\ n - i < n - i + 1
    BY <1>1
  <2>2. a \in Nat /\ b \in Nat /\ a <= b /\ c \in Nat /\ b + 1 < c
    BY <1>1, <2>1 DEF Ordered
  <2>3. block.gap = c - b - 2 /\ block.len = b - a
    BY <1>2
  <2>4. w.curr = c /\ w.pns = P
    <3>1. n - (i - 1) = n - i + 1
      BY <1>1
    <3> QED BY <3>1 DEF WalkState
  <2>5. WalkState(rs, i) = [curr |-> a, pns |-> P \cup a..b]
    <3>1. (n - i)..n = ((n - i + 1)..n) \cup {n - i}
      BY <1>1, <2>1
    <3>2. CoveredFrom(rs, n - i) = P \cup a..b
      BY <3>1 DEF CoveredFrom
    <3> QED BY <3>2 DEF WalkState
  <2> HIDE DEF a, b, c, P, w, block
  <2>6. NextBlock(w, block) = [curr |-> a, pns |-> P \cup {b - p : p \in 0..b - a}]
    <3>1. /\ w.curr - block.gap - 2 = b /\ ~(w.curr < block.gap + 2)
          /\ b >= block.len /\ b - block.len = a
      BY <2>2, <2>3, <2>4
    <3> QED BY <2>3, <2>4, <3>1 DEF NextBlock
  <2>7. NextBlock(w, block) = WalkState(rs, i)
    BY <2>2, <2>5, <2>6, CountedDown
  <2> QED BY <2>7 DEF w, block
<1> QED BY <1>1, <1>2, <1>3, <1>4 DEF f

(* The parser's walk over a frame that was built goes through WalkState:   *)
(* the frame read back acknowledges what the table holds.                  *)
THEOREM BuiltFrameReadsBack ==
  ASSUME NEW rs \in Seq(AckRange), Ordered(rs), rs # <<>>
  PROVE  ParseAck(BuildAck(rs)) = Covered(rs)
<1> DEFINE N == Len(rs) - 1
           f == BuildAck(rs)
           g == [i \in 0..N |-> WalkState(rs, i)]
           w == CHOOSE v : v = Walk(f, v)
<1>1. /\ Len(rs) \in Nat /\ N \in Nat /\ Len(f.more) = N
      /\ FirstBlock(f) = WalkState(rs, 0)
      /\ \A i \in 1..N : NextBlock(WalkState(rs, i - 1), f.more[i]) = WalkState(rs, i)
  BY BuiltBlocks
<1> HIDE DEF f
<1>2. g = Walk(f, g)
  <2>1. ASSUME NEW i \in 0..N
        PROVE  g[i] = IF i = 0 THEN FirstBlock(f) ELSE NextBlock(g[i - 1], f.more[i])
    BY <1>1
  <2> QED BY <1>1, <2>1 DEF Walk
<1>3. w = Walk(f, w)
  BY <1>2
<1> HIDE DEF w, g
<1>4. \A i \in 0..N : w[i] = WalkState(rs, i)
  <2> DEFINE T == {i \in Nat : i <= N => w[i] = WalkState(rs, i)}
  <2>1. w[0] = FirstBlock(f)
    BY <1>1, <1>3 DEF Walk
  <2>2. ASSUME NEW i \in 1..N PROVE w[i] = NextBlock(w[i - 1], f.more[i])
    BY <1>1, <1>3 DEF Walk
  <2>3. 0 \in T
    BY <1>1, <2>1
  <2>4. ASSUME NEW i \in T PROVE i + 1 \in T
    <3> SUFFICES ASSUME i + 1 <= N PROVE w[i + 1] = WalkState(rs, i + 1)
      OBVIOUS
    <3>1. i + 1 \in 1..N /\ (i + 1) - 1 = i /\ w[i] = WalkState(rs, i)
      BY <1>1
    <3> QED BY <1>1, <2>2, <3>1
  <2> HIDE DEF T
  <2>5. T = Nat
    <3>1. T \in SUBSET Nat
      BY DEF T
    <3> QED BY <2>3, <2>4, <3>1, SetInduction
  <2> QED BY <2>5 DEF T
<1>5. ParseAck(f) = {m \in w[Len(f.more)].pns : m >= 0}
  BY DEF ParseAck, Walk, w
<1>6. w[Len(f.more)].pns = Covered(rs)
  <2>1. w[N].pns = CoveredFrom(rs, 1)
    <3>1. N \in 0..N /\ Len(rs) - N = 1
      BY <1>1
    <3>2. w[N] = WalkState(rs, N)
      BY <1>4, <3>1
    <3> HIDE DEF N
    <3> QED BY <3>1, <3>2 DEF WalkState
  <2> QED BY <1>1, <2>1 DEF CoveredFrom, Covered
<1>7. \A m \in Covered(rs) : m >= 0
  BY CoveredBounds
<1> QED BY <1>5, <1>6, <1>7 DEF f

(* The last frame was built from the table as it is.                       *)
AckCurrent == ack # NoAck => ranges # <<>> /\ ack = BuildAck(ranges)

LEMMA AckCurrentInvariance == Spec => []AckCurrent
<1>1. Init => AckCurrent
  BY DEF Init, AckCurrent
<1>2. IInv /\ AckCurrent /\ [Next]_vars => AckCurrent'
  <2> SUFFICES ASSUME IInv, AckCurrent, [Next]_vars PROVE AckCurrent'
    OBVIOUS
  <2>1. ASSUME NEW pn \in PN, ReceivePacket(pn) PROVE AckCurrent'
    <3>1. /\ ranges' = AddReceived(ranges, pn) /\ ack' = BuildAck(ranges') /\ pn \in Nat
      BY <2>1, PNAssumption DEF ReceivePacket
    <3>2. ranges \in Seq(AckRange) /\ Ordered(ranges) /\ Len(ranges) <= Limit
      BY DEF IInv, TypeOK, RangesOrdered
    <3>3. Covered(ranges') = IF Touching(ranges, pn) = {} /\ Len(ranges) >= Limit
                             THEN Covered(ranges) ELSE Covered(ranges) \cup {pn}
      BY <3>1, <3>2, AddReceivedCorrect
    <3>4. Covered(<<>>) = {}
      <4>1. 1..Len(<<>>) = {}
        OBVIOUS
      <4> QED BY <4>1 DEF Covered
    <3>5. Len(ranges) >= Limit => Covered(ranges) # {}
      <4> SUFFICES ASSUME Len(ranges) >= Limit PROVE Covered(ranges) # {}
        OBVIOUS
      <4>1. 1 \in 1..Len(ranges)
        BY <3>2, LimitAssumption, Bounds
      <4>2. Lo(ranges, 1) \in Covered(ranges)
        BY <3>2, <4>1, Bounds, OrderedBounds, CoveredBounds
      <4> QED BY <4>2
    <3>6. ranges' # <<>>
      BY <3>3, <3>4, <3>5
    <3> QED BY <3>1, <3>6 DEF AckCurrent
  <2>2. CASE UNCHANGED vars
    BY <2>2 DEF vars, AckCurrent
  <2> QED BY <2>1, <2>2 DEF Next
<1>3. QED BY <1>1, <1>2, Invariance, PTL DEF Spec

(* quic_parse_frames, given the frame of quic_build_ack_frame, finds the   *)
(* packet numbers of the table and no others, for tables of any size.      *)
THEOREM FrameExact == Spec => []AckFrameExact
<1>1. IInv /\ AckCurrent => AckFrameExact
  BY BuiltFrameReadsBack DEF IInv, TypeOK, RangesOrdered, AckCurrent, AckFrameExact
<1>2. QED BY <1>1, Invariance, AckCurrentInvariance, PTL

(* No frame acknowledges less than the one before it.                      *)
THEOREM NeverWithdrawn == Spec => AckNeverWithdrawn
<1>1. /\ IInv /\ AckCurrent /\ AckFrameExact
      /\ (IInv /\ AckCurrent /\ AckFrameExact)' /\ [Next]_vars
      => [ack # NoAck => ParseAck(ack) \subseteq ParseAck(ack')]_vars
  <2> SUFFICES ASSUME IInv, AckCurrent, AckFrameExact, AckFrameExact',
                      Next, ack # NoAck
               PROVE  ParseAck(ack) \subseteq ParseAck(ack')
    BY Zenon
  <2>1. PICK pn \in PN : ReceivePacket(pn)
    BY DEF Next
  <2>2. /\ ranges' = AddReceived(ranges, pn) /\ ack' = BuildAck(ranges') /\ pn \in Nat
    BY <2>1, PNAssumption DEF ReceivePacket
  <2>3. ranges \in Seq(AckRange) /\ Ordered(ranges) /\ Len(ranges) <= Limit
    BY DEF IInv, TypeOK, RangesOrdered
  <2>4. Covered(ranges) \subseteq Covered(ranges')
    BY <2>2, <2>3, AddReceivedCorrect
  <2>5. ack' # NoAck
    <3>1. DOMAIN ack' = {"largest", "first", "more"}
      BY <2>2 DEF BuildAck
    <3>2. DOMAIN NoAck = {}
      BY DEF NoAck
    <3> QED BY <3>1, <3>2
  <2> QED BY <2>4, <2>5 DEF AckFrameExact
<1>2. QED BY <1>1, Invariance, AckCurrentInvariance, FrameExact, PTL
          DEF Spec, AckNeverWithdrawn
=============================================================================
