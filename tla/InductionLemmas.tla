--------------------------- MODULE InductionLemmas ---------------------------
(***************************************************************************)
(* Induction without operator parameters.  A property of the natural       *)
(* numbers is given as the set of those that have it, and a recursive      *)
(* definition by a set of values and a step function, so that every lemma  *)
(* here can be cited with plain values and holds for every one of them.    *)
(* With it, what holds of sequences and of the pieces they are cut into.   *)
(***************************************************************************)
EXTENDS Integers, Sequences, SequencesExt, FiniteSets, TLAPS,
        WellFoundedInduction, FiniteSetTheorems, SequenceTheorems

(* Every set of natural numbers that is not empty has a least one.         *)
LEMMA LeastNumber ==
  ASSUME NEW T \in SUBSET Nat, T # {}
  PROVE  \E n \in T : \A m \in T : n <= m
<1>1. IsWellFoundedOn(OpToRel(<, Nat), Nat)
  BY NatLessThanWellFounded
<1>2. PICK x \in T : \A y \in T : ~(<<y, x>> \in OpToRel(<, Nat))
  BY <1>1, WFMin
<1>3. ASSUME NEW m \in T PROVE x <= m
  <2>1. x \in Nat /\ m \in Nat
    OBVIOUS
  <2>2. ~(m < x)
    BY <1>2, <2>1 DEF OpToRel
  <2> QED BY <2>1, <2>2
<1> QED BY <1>3

(* A bounded one has a greatest.                                           *)
LEMMA GreatestNumber ==
  ASSUME NEW T \in SUBSET Nat, T # {}, NEW b \in Nat, \A n \in T : n <= b
  PROVE  \E n \in T : \A m \in T : m <= n
<1> DEFINE D == {k \in 0..b : b - k \in T}
<1>1. PICK t \in T : TRUE
  OBVIOUS
<1>2. t \in Nat /\ t <= b
  OBVIOUS
<1>3. b - t \in 0..b /\ b - (b - t) = t
  BY <1>2
<1>4. D \in SUBSET Nat /\ D # {}
  BY <1>3
<1>5. PICK k \in D : \A j \in D : k <= j
  BY <1>4, LeastNumber
<1>6. ASSUME NEW m \in T PROVE m <= b - k
  <2>1. m \in Nat /\ m <= b
    OBVIOUS
  <2>2. b - m \in 0..b /\ b - (b - m) = m
    BY <2>1
  <2>3. k <= b - m /\ k \in Nat
    BY <1>5, <2>2
  <2> QED BY <2>1, <2>3
<1> QED BY <1>5, <1>6

(* Induction over the natural numbers.                                     *)
LEMMA SetInduction ==
  ASSUME NEW T \in SUBSET Nat, 0 \in T, \A n \in T : n + 1 \in T
  PROVE  T = Nat
<1> SUFFICES ASSUME T # Nat PROVE FALSE
  OBVIOUS
<1>1. PICK n \in Nat \ T : \A m \in Nat \ T : n <= m
  <2>1. Nat \ T \in SUBSET Nat /\ Nat \ T # {}
    OBVIOUS
  <2> QED BY <2>1, LeastNumber
<1>2. n # 0
  OBVIOUS
<1>3. n - 1 \in Nat /\ ~(n <= n - 1)
  BY <1>2
<1>4. n - 1 \in T
  BY <1>1, <1>3
<1>5. (n - 1) + 1 \in T
  BY <1>4
<1> QED BY <1>5, <1>2

(* What is defined by a first value and a step exists, of any length.      *)
LEMMA Recursion ==
  ASSUME NEW V, NEW first \in V, NEW n \in Nat, NEW step \in [1..n -> [V -> V]]
  PROVE  \E g \in [0..n -> V] :
           g[0] = first /\ \A i \in 1..n : g[i] = step[i][g[i - 1]]
<1> DEFINE Reaches(m) == \E g \in [0..m -> V] :
             g[0] = first /\ \A i \in 1..m : g[i] = step[i][g[i - 1]]
           T == {m \in Nat : m <= n => Reaches(m)}
<1>1. 0 \in T
  <2> DEFINE g == [i \in 0..0 |-> first]
  <2>1. g \in [0..0 -> V] /\ g[0] = first /\ \A i \in 1..0 : g[i] = step[i][g[i - 1]]
    OBVIOUS
  <2> QED BY <2>1
<1>2. ASSUME NEW m \in T PROVE m + 1 \in T
  <2>0. SUFFICES ASSUME m \in Nat, m <= n => Reaches(m), m + 1 <= n
                 PROVE  Reaches(m + 1)
    <3> HIDE DEF Reaches
    <3> QED OBVIOUS
  <2>1. m <= n /\ m + 1 \in 1..n /\ Reaches(m)
    <3> HIDE DEF Reaches
    <3> QED BY <2>0
  <2>2. PICK g \in [0..m -> V] : g[0] = first /\ \A i \in 1..m : g[i] = step[i][g[i - 1]]
    BY <2>1
  <2> DEFINE h == [i \in 0..m + 1 |-> IF i <= m THEN g[i] ELSE step[m + 1][g[m]]]
  <2>3. g[m] \in V /\ step[m + 1] \in [V -> V]
    BY <2>1
  <2>4. h \in [0..m + 1 -> V]
    BY <2>1, <2>3
  <2>5. h[0] = first
    BY <2>1, <2>2
  <2>6. ASSUME NEW i \in 1..m + 1 PROVE h[i] = step[i][h[i - 1]]
    <3>1. CASE i <= m
      BY <3>1, <2>1, <2>2
    <3>2. CASE ~(i <= m)
      <4>1. i = m + 1 /\ i - 1 = m
        BY <3>2, <2>1
      <4> QED BY <4>1, <2>1
    <3> QED BY <3>1, <3>2
  <2> QED BY <2>4, <2>5, <2>6
<1>3. T \in SUBSET Nat
  OBVIOUS
<1>4. T = Nat
  <2> HIDE DEF T
  <2> QED BY <1>1, <1>2, <1>3, SetInduction
<1> QED BY <1>4

(* What is defined at each place by its values at later places exists.     *)
LooksAhead(step, n, V) ==
  /\ step \in [1..n -> [[1..n -> V] -> V]]
  /\ \A i \in 1..n : \A g, h \in [1..n -> V] :
       (\A j \in i + 1..n : g[j] = h[j]) => step[i][g] = step[i][h]

Solves(g, step, n, V) == g \in [1..n -> V] /\ \A i \in 1..n : g[i] = step[i][g]

LEMMA LaterValues ==
  ASSUME NEW V, V # {}, NEW n \in Nat, NEW step, LooksAhead(step, n, V)
  PROVE  \E g : Solves(g, step, n, V)
<1> DEFINE Reaches(m) == \E g \in [1..n -> V] : \A i \in n - m + 1..n : g[i] = step[i][g]
           T == {m \in Nat : m <= n => Reaches(m)}
<1>1. 0 \in T
  <2>1. PICK v \in V : TRUE
    OBVIOUS
  <2>2. [i \in 1..n |-> v] \in [1..n -> V] /\ n - 0 + 1..n = {}
    OBVIOUS
  <2>3. Reaches(0)
    BY <2>2
  <2> HIDE DEF Reaches
  <2> QED BY <2>3
<1>2. ASSUME NEW m \in T PROVE m + 1 \in T
  <2>0. SUFFICES ASSUME m \in Nat, m <= n => Reaches(m), m + 1 <= n
                 PROVE  Reaches(m + 1)
    <3> HIDE DEF Reaches
    <3> QED OBVIOUS
  <2>1. m <= n /\ n - m \in 1..n /\ Reaches(m)
    <3> HIDE DEF Reaches
    <3> QED BY <2>0
  <2>2. PICK g \in [1..n -> V] : \A i \in n - m + 1..n : g[i] = step[i][g]
    BY <2>1
  <2> DEFINE h == [g EXCEPT ![n - m] = step[n - m][g]]
  <2>3. step[n - m] \in [[1..n -> V] -> V] /\ step[n - m][g] \in V
    BY <2>1, <2>2 DEF LooksAhead
  <2>4. h \in [1..n -> V]
    BY <2>1, <2>2, <2>3
  <2>5. h[n - m] = step[n - m][g] /\ \A j \in n - m + 1..n : h[j] = g[j]
    BY <2>1, <2>2
  <2>6. ASSUME NEW i \in n - m..n PROVE h[i] = step[i][h]
    <3> HIDE DEF h
    <3>1. i \in 1..n /\ \A j \in i + 1..n : j \in n - m + 1..n
      BY <2>1, <2>0
    <3>2. \A j \in i + 1..n : g[j] = h[j]
      BY <3>1, <2>5
    <3>3. step[i][g] = step[i][h]
      BY <3>1, <3>2, <2>2, <2>4 DEF LooksAhead
    <3>4. CASE i = n - m
      BY <3>3, <3>4, <2>5
    <3>5. CASE i # n - m
      <4>1. i \in n - m + 1..n
        BY <3>5, <2>1
      <4> QED BY <4>1, <2>2, <2>5, <3>3
    <3> QED BY <3>4, <3>5
  <2>7. n - (m + 1) + 1 = n - m
    BY <2>0
  <2> QED BY <2>4, <2>6, <2>7
<1>3. T \in SUBSET Nat
  OBVIOUS
<1>4. T = Nat
  <2> HIDE DEF T
  <2> QED BY <1>1, <1>2, <1>3, SetInduction
<1>5. Reaches(n)
  <2> HIDE DEF Reaches
  <2> QED BY <1>4
<1> QED BY <1>5 DEF Solves

(* Induction from the last place of a sequence to the first.               *)
LEMMA LaterInduction ==
  ASSUME NEW n \in Nat, NEW T \in SUBSET (1..n),
         \A i \in 1..n : (\A j \in i + 1..n : j \in T) => i \in T
  PROVE  T = 1..n
<1> SUFFICES ASSUME T # 1..n PROVE FALSE
  OBVIOUS
<1>1. PICK i \in (1..n) \ T : \A j \in (1..n) \ T : j <= i
  <2>1. (1..n) \ T \in SUBSET Nat /\ \A j \in (1..n) \ T : j <= n
    OBVIOUS
  <2>2. (1..n) \ T # {}
    BY Zenon
  <2> QED BY <2>1, <2>2, GreatestNumber
<1>2. \A j \in i + 1..n : j \in T
  <2> TAKE j \in i + 1..n
  <2>1. j \in 1..n /\ ~(j <= i)
    OBVIOUS
  <2> QED BY <1>1, <2>1
<1> QED BY <1>2

(* The recursion in FlattenSeq of the community modules.                   *)
LEMMA Flattening ==
  ASSUME NEW S, NEW seqs
  PROVE  seqs \in Seq(Seq(S)) /\ seqs # <<>> =>
           \E g \in [1..Len(seqs) -> Seq(S)] :
             /\ g[1] = seqs[1]
             /\ \A i \in 1..Len(seqs) - 1 : g[i + 1] = g[i] \o seqs[i + 1]
             /\ FlattenSeq(seqs) = g[Len(seqs)]
<1>0. SUFFICES ASSUME seqs \in Seq(Seq(S)), seqs # <<>>
               PROVE  \E g \in [1..Len(seqs) -> Seq(S)] :
                        /\ g[1] = seqs[1]
                        /\ \A i \in 1..Len(seqs) - 1 : g[i + 1] = g[i] \o seqs[i + 1]
                        /\ FlattenSeq(seqs) = g[Len(seqs)]
  OBVIOUS
<1> DEFINE n == Len(seqs)
           Body(a) == [i \in 1..n |-> IF i = 1 THEN seqs[i] ELSE a[i - 1] \o seqs[i]]
           w == CHOOSE a : a = Body(a)
<1>1. n \in Nat \ {0} /\ \A i \in 1..n : seqs[i] \in Seq(S)
  BY <1>0
<1>2. FlattenSeq(seqs) = w[n]
  BY <1>1 DEF FlattenSeq
<1>3. w = Body(w)
  <2> DEFINE step == [i \in 1..n - 1 |-> [x \in Seq(S) |-> x \o seqs[i + 1]]]
  <2>1. step \in [1..n - 1 -> [Seq(S) -> Seq(S)]]
    BY <1>1
  <2>2. PICK h \in [0..n - 1 -> Seq(S)] :
          h[0] = seqs[1] /\ \A i \in 1..n - 1 : h[i] = step[i][h[i - 1]]
    <3> DEFINE V == Seq(S)
               m == n - 1
               first == seqs[1]
    <3>1. m \in Nat /\ first \in V
      BY <1>1
    <3>2. step \in [1..m -> [V -> V]]
      BY <2>1
    <3>3. \E h \in [0..m -> V] : h[0] = first /\ \A i \in 1..m : h[i] = step[i][h[i - 1]]
      <4> HIDE DEF step, m, V, first
      <4> QED BY <3>1, <3>2, Recursion
    <3> QED BY <3>3
  <2> DEFINE f == [i \in 1..n |-> h[i - 1]]
  <2>3. ASSUME NEW i \in 1..n
        PROVE  f[i] = IF i = 1 THEN seqs[i] ELSE f[i - 1] \o seqs[i]
    <3>1. CASE i = 1
      BY <3>1, <2>2
    <3>2. CASE i # 1
      <4>1. i - 1 \in 1..n - 1 /\ i - 1 \in 1..n /\ (i - 1) + 1 = i /\ i - 1 - 1 \in 0..n - 1
        BY <3>2, <1>1
      <4>2. h[i - 1] = h[i - 1 - 1] \o seqs[i]
        BY <4>1, <2>2
      <4> QED BY <4>1, <4>2, <3>2
    <3> QED BY <3>1, <3>2
  <2>4. f = Body(f)
    BY <2>3
  <2> HIDE DEF f
  <2> QED BY <2>4
<1> HIDE DEF w
<1>4. \A i \in 1..n : w[i] = IF i = 1 THEN seqs[i] ELSE w[i - 1] \o seqs[i]
  BY <1>3
<1> DEFINE T == {i \in Nat : i + 1 \in 1..n => w[i + 1] \in Seq(S)}
<1>5. T = Nat
  <2>1. 0 \in T
    BY <1>1, <1>4
  <2>2. ASSUME NEW i \in T PROVE i + 1 \in T
    <3> SUFFICES ASSUME i + 1 + 1 \in 1..n PROVE w[i + 1 + 1] \in Seq(S)
      OBVIOUS
    <3>1. i + 1 \in 1..n /\ w[i + 1] \in Seq(S) /\ i + 1 + 1 # 1 /\ (i + 1 + 1) - 1 = i + 1
      OBVIOUS
    <3>2. w[i + 1 + 1] = w[i + 1] \o seqs[i + 1 + 1]
      BY <3>1, <1>4
    <3> QED BY <3>1, <3>2, <1>1
  <2>3. T \in SUBSET Nat
    OBVIOUS
  <2> HIDE DEF T
  <2> QED BY <2>1, <2>2, <2>3, SetInduction
<1>6. w \in [1..n -> Seq(S)]
  <2>1. \A i \in 1..n : w[i] \in Seq(S)
    <3> TAKE i \in 1..n
    <3>1. i - 1 \in Nat /\ (i - 1) + 1 = i
      BY <1>1
    <3> QED BY <3>1, <1>5
  <2> QED BY <2>1, <1>3
<1>7. w[1] = seqs[1] /\ \A i \in 1..n - 1 : w[i + 1] = w[i] \o seqs[i + 1]
  <2>1. w[1] = seqs[1]
    BY <1>1, <1>4
  <2>2. ASSUME NEW i \in 1..n - 1 PROVE w[i + 1] = w[i] \o seqs[i + 1]
    <3>1. i + 1 \in 1..n /\ i + 1 # 1 /\ (i + 1) - 1 = i
      BY <1>1
    <3> QED BY <3>1, <1>4
  <2> QED BY <2>1, <2>2
<1> QED BY <1>2, <1>6, <1>7

(* A part of a sequence is a sequence of its elements.                     *)
LEMMA Part ==
  ASSUME NEW S, NEW s \in Seq(S), NEW m \in Nat \ {0}, NEW n \in 0..Len(s), m <= n + 1
  PROVE  /\ SubSeq(s, m, n) \in Seq(S) /\ Len(SubSeq(s, m, n)) = n - m + 1
         /\ \A i \in 1..n - m + 1 : SubSeq(s, m, n)[i] = s[m + i - 1] /\ m + i - 1 \in m..n
<1>1. \A i \in m..n : s[i] \in S
  OBVIOUS
<1>2. /\ SubSeq(s, m, n) \in Seq(S)
      /\ Len(SubSeq(s, m, n)) = IF m <= n THEN n - m + 1 ELSE 0
      /\ \A i \in 1..n - m + 1 : SubSeq(s, m, n)[i] = s[m + i - 1]
  BY <1>1, SubSeqProperties
<1> QED BY <1>2

(* Parts may be joined in any order.                                      *)
Reassociates(s, t, u) == (s \o t) \o u = s \o (t \o u)

LEMMA Reassociated ==
  ASSUME NEW S, NEW s, NEW t, NEW u
  PROVE  s \in Seq(S) /\ t \in Seq(S) /\ u \in Seq(S) => Reassociates(s, t, u)
BY ConcatAssociative DEF Reassociates

(* A front of f behind a is a front of f behind a, in two parts as well.   *)
LEMMA PrefixGrows ==
  ASSUME NEW S, NEW a \in Seq(S), NEW f \in Seq(S), NEW e \in 0..Len(f), NEW b \in 0..e
  PROVE  /\ (a \o SubSeq(f, 1, b)) \o SubSeq(f, b + 1, e) = a \o SubSeq(f, 1, e)
         /\ IsPrefix(a \o SubSeq(f, 1, e), a \o f)
<1> DEFINE x == SubSeq(f, 1, b)
           y == SubSeq(f, b + 1, e)
           z == SubSeq(f, 1, e)
<1>1. x \in Seq(S) /\ y \in Seq(S) /\ z \in Seq(S) /\ Len(z) = e /\ \A i \in 1..e : z[i] = f[i]
  <2>1. x \in Seq(S)
    BY Part
  <2>2. y \in Seq(S)
    BY Part
  <2>3. z \in Seq(S) /\ Len(z) = e - 1 + 1 /\ \A i \in 1..e - 1 + 1 : z[i] = f[1 + i - 1]
    BY Part
  <2> HIDE DEF z
  <2> QED BY <2>1, <2>2, <2>3
<1>2. x \o y = z
  <2>1. 1 \in 1..Len(f) + 1 /\ b \in 1 - 1..Len(f) /\ e \in b..Len(f)
    OBVIOUS
  <2> QED BY <2>1, ConcatAdjacentSubSeq
<1> HIDE DEF x, y, z
<1>3. (a \o x) \o y = a \o z
  <2>1. (a \o x) \o y = a \o (x \o y)
    <3>1. a \in Seq(S) /\ x \in Seq(S) /\ y \in Seq(S)
      BY <1>1
    <3>2. Reassociates(a, x, y)
      BY <3>1, Reassociated, Zenon
    <3> QED BY <3>2 DEF Reassociates
  <2> QED BY <1>2, <2>1, Zenon
<1> DEFINE p == a \o z
           q == a \o f
<1>4. /\ p \in Seq(S) /\ Len(p) = Len(a) + e
      /\ \A i \in 1..Len(a) + e : p[i] = IF i <= Len(a) THEN a[i] ELSE z[i - Len(a)]
  <2>1. z \in Seq(S) /\ Len(z) = e
    BY <1>1
  <2>2. /\ a \o z \in Seq(S) /\ Len(a \o z) = Len(a) + Len(z)
        /\ \A i \in 1..Len(a) + Len(z) :
             (a \o z)[i] = IF i <= Len(a) THEN a[i] ELSE z[i - Len(a)]
    <3> HIDE DEF p, q
    <3> QED BY <2>1, ConcatProperties
  <2> QED BY <2>1, <2>2
<1>5. /\ q \in Seq(S) /\ Len(q) = Len(a) + Len(f)
      /\ \A i \in 1..Len(a) + Len(f) : q[i] = IF i <= Len(a) THEN a[i] ELSE f[i - Len(a)]
  BY ConcatProperties
<1> HIDE DEF p, q
<1>6. ASSUME NEW i \in 1..Len(p) PROVE p[i] = q[i] /\ i \in 1..Len(q)
  <2>1. i \in 1..Len(a) + e /\ i \in 1..Len(a) + Len(f)
    BY <1>4
  <2>2. ~(i <= Len(a)) => i - Len(a) \in 1..e
    BY <2>1
  <2> QED BY <2>1, <2>2, <1>1, <1>4, <1>5
<1>7. IsPrefix(p, q)
  <2>1. Len(p) <= Len(q) /\ Len(p) \in Nat
    BY <1>4, <1>5
  <2>2. SubSeq(p, 1, Len(p)) = SubSeq(q, 1, Len(p))
    BY <1>4, <1>5, <1>6, <2>1
  <2> QED BY <2>1, <2>2 DEF IsPrefix
<1> QED BY <1>3, <1>7 DEF x, y, z, p, q

(* A part that is cut in two.                                              *)
LEMMA PartOfPart ==
  ASSUME NEW S, NEW s \in Seq(S), NEW e \in 0..Len(s), NEW b \in 0..e, NEW u \in 0..e - b
  PROVE  LET d == SubSeq(s, b + 1, e)
         IN /\ SubSeq(d, u + 1, Len(d)) = SubSeq(s, b + u + 1, e)
            /\ SubSeq(d, 1, u) = SubSeq(s, b + 1, b + u)
<1> DEFINE d == SubSeq(s, b + 1, e)
           x == SubSeq(d, u + 1, Len(d))
           y == SubSeq(s, b + u + 1, e)
           v == SubSeq(d, 1, u)
           w == SubSeq(s, b + 1, b + u)
<1>1. /\ d \in Seq(S) /\ Len(d) = e - b
      /\ \A i \in 1..e - b : d[i] = s[b + i]
  <2>1. b + 1 \in Nat \ {0} /\ b + 1 <= e + 1 /\ e - (b + 1) + 1 = e - b
        /\ \A i \in 1..e - b : b + 1 + i - 1 = b + i
    OBVIOUS
  <2>2. /\ SubSeq(s, b + 1, e) \in Seq(S) /\ Len(SubSeq(s, b + 1, e)) = e - (b + 1) + 1
        /\ \A i \in 1..e - (b + 1) + 1 : SubSeq(s, b + 1, e)[i] = s[b + 1 + i - 1]
    BY <2>1, Part
  <2> QED BY <2>1, <2>2
<1> HIDE DEF d
<1>2. /\ x \in Seq(S) /\ Len(x) = e - b - u
      /\ \A i \in 1..e - b - u : x[i] = s[b + u + i]
  <2> DEFINE m == u + 1
             n == Len(d)
  <2>1. m \in Nat \ {0} /\ n \in 0..Len(d) /\ m <= n + 1 /\ n - m + 1 = e - b - u
    BY <1>1
  <2>2. SubSeq(d, m, n) \in Seq(S) /\ Len(SubSeq(d, m, n)) = n - m + 1
        /\ \A i \in 1..n - m + 1 : SubSeq(d, m, n)[i] = d[m + i - 1]
    <3> HIDE DEF m, n
    <3> QED BY <1>1, <2>1, Part
  <2>3. ASSUME NEW i \in 1..e - b - u PROVE d[m + i - 1] = s[b + u + i]
    <3>1. m + i - 1 \in 1..e - b /\ b + (m + i - 1) = b + u + i
      OBVIOUS
    <3> QED BY <1>1, <3>1
  <2> QED BY <2>1, <2>2, <2>3
<1>3. /\ y \in Seq(S) /\ Len(y) = e - b - u
      /\ \A i \in 1..e - b - u : y[i] = s[b + u + i]
  <2> DEFINE m == b + u + 1
  <2>1. m \in Nat \ {0} /\ m <= e + 1 /\ e - m + 1 = e - b - u
        /\ \A i \in 1..e - b - u : m + i - 1 = b + u + i
    OBVIOUS
  <2>2. SubSeq(s, m, e) \in Seq(S) /\ Len(SubSeq(s, m, e)) = e - m + 1
        /\ \A i \in 1..e - m + 1 : SubSeq(s, m, e)[i] = s[m + i - 1]
    <3> HIDE DEF m
    <3> QED BY <2>1, Part
  <2> QED BY <2>1, <2>2
<1>4. v \in Seq(S) /\ Len(v) = u /\ \A i \in 1..u : v[i] = s[b + i]
  <2>1. u \in 0..Len(d) /\ 1 <= u + 1 /\ 1 \in Nat \ {0}
    BY <1>1
  <2>2. /\ v \in Seq(S) /\ Len(v) = u - 1 + 1
        /\ \A i \in 1..u - 1 + 1 : v[i] = d[1 + i - 1]
    BY <1>1, <2>1, Part
  <2>3. ASSUME NEW i \in 1..u PROVE d[1 + i - 1] = s[b + i]
    BY <1>1
  <2> HIDE DEF v
  <2> QED BY <2>2, <2>3
<1>5. w \in Seq(S) /\ Len(w) = u /\ \A i \in 1..u : w[i] = s[b + i]
  <2> DEFINE m == b + 1
             n == b + u
  <2>1. m \in Nat \ {0} /\ n \in 0..Len(s) /\ m <= n + 1 /\ n - m + 1 = u
        /\ \A i \in 1..u : m + i - 1 = b + i
    OBVIOUS
  <2>2. SubSeq(s, m, n) \in Seq(S) /\ Len(SubSeq(s, m, n)) = n - m + 1
        /\ \A i \in 1..n - m + 1 : SubSeq(s, m, n)[i] = s[m + i - 1]
    <3> HIDE DEF m, n
    <3> QED BY <2>1, Part
  <2> QED BY <2>1, <2>2
<1> HIDE DEF x, y, v, w
<1>6. x = y /\ v = w
  <2>1. x = y
    BY <1>2, <1>3
  <2>2. v = w
    BY <1>4, <1>5, SMTT(30)
  <2> QED BY <2>1, <2>2
<1> QED BY <1>6 DEF x, y, v, w, d

-----------------------------------------------------------------------------
(* pieces are consecutive parts of s, none of them empty: the j-th is what *)
(* lies between p[j] and p[j + 1].                                         *)
CutAt(pieces, s, p) ==
  /\ p \in [1..Len(pieces) + 1 -> 0..Len(s)]
  /\ \A j \in 1..Len(pieces) : p[j] < p[j + 1] /\ pieces[j] = SubSeq(s, p[j] + 1, p[j + 1])

(* Nothing has been cut off.                                               *)
LEMMA CutNothing ==
  ASSUME NEW S, NEW s, NEW e
  PROVE  s \in Seq(S) /\ e \in 0..Len(s) => \E p : CutAt(<<>>, s, p) /\ p[1] = e
<1> SUFFICES ASSUME s \in Seq(S), e \in 0..Len(s)
             PROVE  \E p : CutAt(<<>>, s, p) /\ p[1] = e
  OBVIOUS
<1> DEFINE p == [j \in 1..1 |-> e]
<1>1. p \in [1..Len(<<>>) + 1 -> 0..Len(s)] /\ p[1] = e /\ 1..Len(<<>>) = {}
  OBVIOUS
<1>2. CutAt(<<>>, s, p)
  <2> HIDE DEF p
  <2> QED BY <1>1 DEF CutAt
<1> QED BY <1>1, <1>2

(* One more part in front.                                                 *)
InFront(s, e, f, rest) == <<SubSeq(s, e + 1, f)>> \o rest

OneMore(all, s, q, e, n) ==
  \E p : CutAt(all, s, p) /\ p[1] = e /\ \A j \in 1..n + 1 : p[j + 1] = q[j]

(* A part in front of parts is a cut that begins earlier.                  *)
LEMMA CutInFront ==
  ASSUME NEW S, NEW s, NEW rest, NEW q, NEW e
  PROVE  s \in Seq(S) /\ rest \in Seq(Seq(S)) /\ CutAt(rest, s, q) /\ e \in 0..q[1] - 1 =>
           /\ InFront(s, e, q[1], rest) \in Seq(Seq(S))
           /\ Len(InFront(s, e, q[1], rest)) = Len(rest) + 1
           /\ OneMore(InFront(s, e, q[1], rest), s, q, e, Len(rest))
<1> SUFFICES ASSUME s \in Seq(S), rest \in Seq(Seq(S)), CutAt(rest, s, q), e \in 0..q[1] - 1
             PROVE  /\ InFront(s, e, q[1], rest) \in Seq(Seq(S))
                    /\ Len(InFront(s, e, q[1], rest)) = Len(rest) + 1
                    /\ OneMore(InFront(s, e, q[1], rest), s, q, e, Len(rest))
  OBVIOUS
<1> DEFINE f == q[1]
           x == SubSeq(s, e + 1, f)
           all == <<x>> \o rest
           n == Len(rest)
           p == [j \in 1..n + 2 |-> IF j = 1 THEN e ELSE q[j - 1]]
<1>1. n \in Nat /\ q \in [1..n + 1 -> 0..Len(s)] /\ Len(s) \in Nat
      /\ \A j \in 1..n : q[j] < q[j + 1] /\ rest[j] = SubSeq(s, q[j] + 1, q[j + 1])
  BY DEF CutAt
<1>2. f \in 0..Len(s) /\ e \in 0..f - 1 /\ f \in Nat
  BY <1>1, SMTT(30)
<1>3. x \in Seq(S)
  <2>1. e + 1 \in Nat \ {0} /\ e + 1 <= f + 1
    BY <1>2
  <2> HIDE DEF f
  <2> QED BY <1>2, <2>1, Part
<1>4. all \in Seq(Seq(S)) /\ Len(all) = n + 1 /\ all[1] = x
      /\ \A j \in 2..n + 1 : all[j] = rest[j - 1]
  <2>1. <<x>> \in Seq(Seq(S)) /\ Len(<<x>>) = 1 /\ <<x>>[1] = x
    <3> HIDE DEF x
    <3> QED BY <1>3
  <2>2. /\ <<x>> \o rest \in Seq(Seq(S)) /\ Len(<<x>> \o rest) = 1 + n
        /\ \A i \in 1..1 + n : (<<x>> \o rest)[i] = IF i <= 1 THEN <<x>>[i] ELSE rest[i - 1]
    <3> HIDE DEF x
    <3> QED BY <2>1, ConcatProperties
  <2> HIDE DEF x
  <2> QED BY <1>1, <2>1, <2>2
<1>5. p \in [1..n + 2 -> 0..Len(s)] /\ p[1] = e /\ \A j \in 2..n + 2 : p[j] = q[j - 1]
  <2>1. \A j \in 1..n + 2 : j = 1 \/ j - 1 \in 1..n + 1
    BY <1>1
  <2>2. e \in 0..Len(s)
    BY <1>1, <1>2
  <2> HIDE DEF f, n
  <2> QED BY <1>1, <2>1, <2>2
<1> HIDE DEF p, all
<1>6. ASSUME NEW j \in 1..n + 1
      PROVE  p[j] < p[j + 1] /\ all[j] = SubSeq(s, p[j] + 1, p[j + 1])
  <2>1. CASE j = 1
    <3>1. p[1] = e /\ p[2] = f /\ 2 \in 2..n + 2 /\ 2 - 1 = 1
      BY <1>1, <1>5
    <3> HIDE DEF f
    <3> QED BY <1>2, <1>4, <2>1, <3>1
  <2>2. CASE j # 1
    <3>1. j - 1 \in 1..n /\ j \in 2..n + 1 /\ j \in 2..n + 2 /\ j + 1 \in 2..n + 2
          /\ (j + 1) - 1 = j /\ (j - 1) + 1 = j
      BY <1>1, <2>2
    <3>2. p[j] = q[j - 1] /\ p[j + 1] = q[j] /\ all[j] = rest[j - 1]
      BY <1>4, <1>5, <3>1
    <3>3. q[j - 1] < q[j] /\ rest[j - 1] = SubSeq(s, q[j - 1] + 1, q[j])
      BY <1>1, <3>1
    <3> QED BY <3>2, <3>3
  <2> QED BY <2>1, <2>2
<1>7. CutAt(all, s, p)
  <2>1. Len(all) = n + 1 /\ Len(all) + 1 = n + 2
    BY <1>1, <1>4
  <2> HIDE DEF n
  <2> QED BY <1>5, <1>6, <2>1 DEF CutAt
<1>8. \A j \in 1..n + 1 : p[j + 1] = q[j]
  <2>1. \A j \in 1..n + 1 : j + 1 \in 2..n + 2 /\ (j + 1) - 1 = j
    BY <1>1
  <2> QED BY <1>5, <2>1
<1>9. all = InFront(s, e, q[1], rest)
  BY DEF all, InFront
<1> QED BY <1>4, <1>5, <1>7, <1>8, <1>9 DEF OneMore

(* One part.                                                               *)
PieceAt(S, s, pieces, p, j) ==
  /\ p[j] \in 0..p[j + 1] - 1 /\ p[j + 1] \in 1..Len(s)
  /\ pieces[j] = SubSeq(s, p[j] + 1, p[j + 1]) /\ pieces[j] \in Seq(S)
  /\ Len(pieces[j]) = p[j + 1] - p[j]
  /\ pieces[j][1] = s[p[j] + 1]

(* What the j-th piece is: not empty, and a part of s at its place.        *)
LEMMA CutPiece ==
  ASSUME NEW S, NEW s, NEW pieces, NEW p, NEW j
  PROVE  s \in Seq(S) /\ CutAt(pieces, s, p) /\ Len(pieces) \in Nat /\ j \in 1..Len(pieces) =>
           PieceAt(S, s, pieces, p, j)
<1> SUFFICES ASSUME s \in Seq(S), CutAt(pieces, s, p), Len(pieces) \in Nat,
                    j \in 1..Len(pieces)
             PROVE  PieceAt(S, s, pieces, p, j)
  OBVIOUS
<1> DEFINE m == p[j] + 1
           n == p[j + 1]
<1>1. /\ p[j] \in 0..Len(s) /\ n \in 0..Len(s) /\ p[j] < n /\ Len(s) \in Nat
      /\ pieces[j] = SubSeq(s, m, n)
  <2>1. j \in 1..Len(pieces) + 1 /\ j + 1 \in 1..Len(pieces) + 1
    OBVIOUS
  <2> QED BY <2>1 DEF CutAt
<1>2. m \in Nat \ {0} /\ m <= n + 1 /\ 1 \in 1..n - m + 1 /\ n - m + 1 = n - p[j]
      /\ m + 1 - 1 = m
  BY <1>1
<1>3. /\ SubSeq(s, m, n) \in Seq(S) /\ Len(SubSeq(s, m, n)) = n - m + 1
      /\ \A i \in 1..n - m + 1 : SubSeq(s, m, n)[i] = s[m + i - 1]
  <2> HIDE DEF m, n
  <2> QED BY <1>1, <1>2, Part
<1>4. SubSeq(s, m, n)[1] = s[m]
  <2> HIDE DEF m, n
  <2> QED BY <1>2, <1>3
<1>5. p[j] \in 0..n - 1 /\ n \in 1..Len(s)
  BY <1>1
<1> QED BY <1>1, <1>2, <1>3, <1>4, <1>5 DEF PieceAt

(* Consecutive parts, put together, are a part.                            *)
LEMMA CutTogether ==
  ASSUME NEW S, NEW s, NEW pieces, NEW p
  PROVE  s \in Seq(S) /\ pieces \in Seq(Seq(S)) /\ CutAt(pieces, s, p) =>
           /\ p[1] \in 0..Len(s) /\ p[Len(pieces) + 1] \in p[1]..Len(s)
           /\ FlattenSeq(pieces) = SubSeq(s, p[1] + 1, p[Len(pieces) + 1])
<1> SUFFICES ASSUME s \in Seq(S), pieces \in Seq(Seq(S)), CutAt(pieces, s, p)
             PROVE  /\ p[1] \in 0..Len(s) /\ p[Len(pieces) + 1] \in p[1]..Len(s)
                    /\ FlattenSeq(pieces) = SubSeq(s, p[1] + 1, p[Len(pieces) + 1])
  OBVIOUS
<1> DEFINE n == Len(pieces)
           b == p[1]
<1>1. n \in Nat /\ p \in [1..n + 1 -> 0..Len(s)] /\ Len(s) \in Nat
      /\ \A j \in 1..n : p[j] < p[j + 1] /\ pieces[j] = SubSeq(s, p[j] + 1, p[j + 1])
  BY DEF CutAt
<1>2. b \in 0..Len(s)
  BY <1>1, SMTT(30)
<1>3. CASE pieces = <<>>
  <2>1. n = 0
    BY <1>3
  <2>2. FlattenSeq(pieces) = <<>>
    BY <1>3 DEF FlattenSeq
  <2>3. SubSeq(s, b + 1, b) = <<>>
    BY <1>2
  <2> QED BY <1>2, <2>1, <2>2, <2>3
<1>4. CASE pieces # <<>>
  <2>1. PICK g \in [1..n -> Seq(S)] :
          /\ g[1] = pieces[1]
          /\ \A i \in 1..n - 1 : g[i + 1] = g[i] \o pieces[i + 1]
          /\ FlattenSeq(pieces) = g[n]
    BY <1>4, Flattening
  <2>2. n >= 1
    BY <1>4, <1>1
  <2> DEFINE T == {i \in Nat : i + 1 <= n =>
                     /\ b < p[i + 2]
                     /\ g[i + 1] = SubSeq(s, b + 1, p[i + 2])}
  <2>3. 0 \in T
    <3>1. 1 \in 1..n
      BY <1>1, <2>2
    <3>2. p[1] < p[2] /\ pieces[1] = SubSeq(s, p[1] + 1, p[2])
      BY <1>1, <3>1
    <3> QED BY <2>1, <3>2
  <2>4. \A i \in T : i + 1 \in T
    <3> SUFFICES ASSUME NEW i \in Nat, b < p[i + 2], g[i + 1] = SubSeq(s, b + 1, p[i + 2]),
                        i + 2 <= n
                 PROVE  b < p[i + 3] /\ g[i + 2] = SubSeq(s, b + 1, p[i + 3])
      <4> HIDE DEF b
      <4>1. \A i \in T : i + 1 + 1 <= n => i + 1 <= n
        BY <1>1
      <4> QED BY <4>1
    <3>1. i + 1 \in 1..n - 1 /\ i + 2 \in 1..n /\ i + 3 \in 1..n + 1 /\ i + 2 \in 1..n + 1
          /\ (i + 1) + 1 = i + 2 /\ (i + 2) + 1 = i + 3
      BY <1>1
    <3>2. p[i + 2] < p[i + 3] /\ pieces[i + 2] = SubSeq(s, p[i + 2] + 1, p[i + 3])
      BY <1>1, <3>1
    <3>3. p[i + 2] \in 0..Len(s) /\ p[i + 3] \in 0..Len(s)
      BY <1>1, <3>1
    <3>4. g[i + 2] = g[i + 1] \o pieces[i + 2]
      BY <2>1, <3>1
    <3> DEFINE k == p[i + 2]
               f == p[i + 3]
    <3>5. b + 1 \in 1..Len(s) + 1 /\ k \in (b + 1) - 1..Len(s) /\ f \in k..Len(s) /\ b < f
      <4>1. b < k /\ k < f /\ k \in 0..Len(s) /\ f \in 0..Len(s) /\ b \in Nat
        BY <1>1, <1>2, <3>2, <3>3
      <4> HIDE DEF b, k, f
      <4> QED BY <1>1, <4>1
    <3>6. SubSeq(s, b + 1, k) \o SubSeq(s, k + 1, f) = SubSeq(s, b + 1, f)
      <4> HIDE DEF b, k, f
      <4> QED BY <3>5, ConcatAdjacentSubSeq
    <3> QED BY <3>2, <3>4, <3>5, <3>6
  <2> HIDE DEF T
  <2>5. T = Nat
    <3>1. T \in SUBSET Nat
      BY DEF T
    <3> QED BY <2>3, <2>4, <3>1, SetInduction
  <2>6. n - 1 \in T /\ n - 1 + 1 = n /\ n - 1 + 2 = n + 1
    BY <1>1, <2>2, <2>5
  <2>7. b < p[n + 1] /\ g[n] = SubSeq(s, b + 1, p[n + 1])
    BY <1>1, <2>6 DEF T
  <2>8. p[n + 1] \in 0..Len(s)
    BY <1>1
  <2> QED BY <1>2, <2>1, <2>7, <2>8
<1> QED BY <1>3, <1>4

-----------------------------------------------------------------------------
(* Sequences, their parts, and sequences joined from pieces.               *)

(* The part of s behind its first a elements, up to its b-th.              *)
Slice(s, a, b) == SubSeq(s, a + 1, b)

IsSlice(S, s, a, b, t) ==
  t \in Seq(S) /\ Len(t) = b - a /\ \A i \in 1..b - a : t[i] = s[a + i] /\ a + i \in 1..Len(s)

(* Its length and its elements.                                            *)
LEMMA SliceIs ==
  ASSUME NEW S, NEW s, NEW a, NEW b
  PROVE  s \in Seq(S) /\ b \in 0..Len(s) /\ a \in 0..b => IsSlice(S, s, a, b, Slice(s, a, b))
<1> SUFFICES ASSUME s \in Seq(S), b \in 0..Len(s), a \in 0..b
             PROVE  IsSlice(S, s, a, b, Slice(s, a, b))
  OBVIOUS
<1> DEFINE m == a + 1
           t == SubSeq(s, m, b)
<1>1. m \in Nat \ {0} /\ m <= b + 1 /\ b - m + 1 = b - a
      /\ \A i \in 1..b - a : m + i - 1 = a + i /\ a + i \in 1..Len(s)
  OBVIOUS
<1>2. t \in Seq(S) /\ Len(t) = b - m + 1 /\ \A i \in 1..b - m + 1 : t[i] = s[m + i - 1]
  <2> HIDE DEF m
  <2>1. /\ SubSeq(s, m, b) \in Seq(S) /\ Len(SubSeq(s, m, b)) = b - m + 1
        /\ \A i \in 1..b - m + 1 : SubSeq(s, m, b)[i] = s[m + i - 1]
    <3>1. s \in Seq(S) /\ b \in 0..Len(s) /\ m \in Nat \ {0} /\ m <= b + 1
      BY <1>1
    <3> QED BY <3>1, Part, ZenonT(40)
  <2> QED BY <2>1
<1>3. Slice(s, a, b) = t
  BY DEF Slice
<1> HIDE DEF t
<1> QED BY <1>1, <1>2, <1>3 DEF IsSlice

(* It is the only sequence with these elements.                            *)
LEMMA OnlySlice ==
  ASSUME NEW S, NEW s, NEW a, NEW b, NEW t
  PROVE  s \in Seq(S) /\ b \in 0..Len(s) /\ a \in 0..b /\ IsSlice(S, s, a, b, t) =>
           t = Slice(s, a, b)
<1> SUFFICES ASSUME s \in Seq(S), b \in 0..Len(s), a \in 0..b, IsSlice(S, s, a, b, t)
             PROVE  t = Slice(s, a, b)
  OBVIOUS
<1>1. IsSlice(S, s, a, b, Slice(s, a, b))
  BY SliceIs, Zenon
<1> DEFINE u == Slice(s, a, b)
<1>2. /\ t \in Seq(S) /\ Len(t) = b - a /\ \A i \in 1..b - a : t[i] = s[a + i]
      /\ u \in Seq(S) /\ Len(u) = b - a /\ \A i \in 1..b - a : u[i] = s[a + i]
  <2> HIDE DEF u
  <2> QED BY <1>1 DEF IsSlice, u
<1> HIDE DEF u
<1>3. t = u
  BY <1>2
<1> QED BY <1>3 DEF u

(* A part of a part is a part, parts that meet join, and the whole is one. *)
Nested(s, b, e, x, y) == Slice(Slice(s, b, e), x, y) = Slice(s, b + x, b + y)

(* A part of a part.                                                       *)
LEMMA NestedParts ==
  ASSUME NEW S, NEW s, NEW b, NEW e, NEW x, NEW y
  PROVE  s \in Seq(S) /\ e \in 0..Len(s) /\ b \in 0..e /\ y \in 0..e - b /\ x \in 0..y =>
           Nested(s, b, e, x, y)
<1> SUFFICES ASSUME s \in Seq(S), e \in 0..Len(s), b \in 0..e, y \in 0..e - b, x \in 0..y
             PROVE  Nested(s, b, e, x, y)
  OBVIOUS
<1> DEFINE d == Slice(s, b, e)
           t == Slice(d, x, y)
           m == b + x
           n == b + y
<1>1. IsSlice(S, s, b, e, d)
  BY SliceIs, Zenon
<1> HIDE DEF d
<1>2. d \in Seq(S) /\ Len(d) = e - b /\ \A i \in 1..e - b : d[i] = s[b + i]
  BY <1>1 DEF IsSlice
<1>3. IsSlice(S, d, x, y, t)
  <2>1. y \in 0..Len(d)
    BY <1>2
  <2> HIDE DEF t
  <2> QED BY <1>2, <2>1, SliceIs, Zenon DEF t
<1> HIDE DEF t
<1>4. t \in Seq(S) /\ Len(t) = y - x /\ \A i \in 1..y - x : t[i] = d[x + i]
  BY <1>3 DEF IsSlice
<1>5. n \in 0..Len(s) /\ m \in 0..n /\ n - m = y - x
  OBVIOUS
<1>6. ASSUME NEW i \in 1..y - x PROVE t[i] = s[m + i] /\ m + i \in 1..Len(s)
  <2>1. x + i \in 1..e - b /\ b + (x + i) = m + i
    OBVIOUS
  <2>2. d[x + i] = s[b + (x + i)]
    BY <1>2, <2>1
  <2>3. m + i \in 1..Len(s)
    OBVIOUS
  <2> HIDE DEF m
  <2> QED BY <1>4, <2>1, <2>2, <2>3
<1> HIDE DEF m, n
<1>7. IsSlice(S, s, m, n, t)
  BY <1>4, <1>5, <1>6 DEF IsSlice
<1>8. t = Slice(s, m, n)
  BY <1>5, <1>7, OnlySlice, Zenon
<1> QED BY <1>8 DEF Nested, m, n, t, d

Joins(s, a, b, c) == Slice(s, a, b) \o Slice(s, b, c) = Slice(s, a, c)

(* Two parts one behind the other.                                         *)
LEMMA JoinedParts ==
  ASSUME NEW S, NEW s, NEW a, NEW b, NEW c
  PROVE  s \in Seq(S) /\ c \in 0..Len(s) /\ b \in 0..c /\ a \in 0..b => Joins(s, a, b, c)
<1> SUFFICES ASSUME s \in Seq(S), c \in 0..Len(s), b \in 0..c, a \in 0..b
             PROVE  Joins(s, a, b, c)
  OBVIOUS
<1> DEFINE t == Slice(s, a, b)
           u == Slice(s, b, c)
           w == t \o u
<1>1. IsSlice(S, s, a, b, t) /\ IsSlice(S, s, b, c, u)
  <2>1. b \in 0..Len(s)
    OBVIOUS
  <2> HIDE DEF t, u
  <2> QED BY <2>1, SliceIs, Zenon DEF t, u
<1> HIDE DEF t, u
<1>2. /\ t \in Seq(S) /\ Len(t) = b - a /\ \A i \in 1..b - a : t[i] = s[a + i]
      /\ u \in Seq(S) /\ Len(u) = c - b /\ \A i \in 1..c - b : u[i] = s[b + i]
  BY <1>1 DEF IsSlice
<1>3. /\ w \in Seq(S) /\ Len(w) = Len(t) + Len(u)
      /\ \A i \in 1..Len(t) + Len(u) : w[i] = IF i <= Len(t) THEN t[i] ELSE u[i - Len(t)]
  BY <1>2, ConcatProperties
<1> HIDE DEF w
<1>4. ASSUME NEW i \in 1..c - a PROVE w[i] = s[a + i] /\ a + i \in 1..Len(s)
  <2>1. i \in 1..Len(t) + Len(u) /\ a + i \in 1..Len(s)
    BY <1>2
  <2>2. CASE i <= b - a
    BY <1>2, <1>3, <2>1, <2>2
  <2>3. CASE ~(i <= b - a)
    <3>1. i - (b - a) \in 1..c - b /\ b + (i - (b - a)) = a + i
      BY <2>3
    <3>2. u[i - (b - a)] = s[b + (i - (b - a))]
      BY <1>2, <3>1
    <3> QED BY <1>2, <1>3, <2>1, <2>3, <3>1, <3>2
  <2> QED BY <2>2, <2>3
<1>5. IsSlice(S, s, a, c, w)
  <2>1. Len(w) = c - a
    BY <1>2, <1>3
  <2> QED BY <1>3, <1>4, <2>1 DEF IsSlice
<1>6. w = Slice(s, a, c)
  <2>1. a \in 0..c
    OBVIOUS
  <2> QED BY <1>5, <2>1, OnlySlice, Zenon
<1> QED BY <1>6 DEF Joins, w, t, u

(* A sequence as a part of itself, and a part without elements.            *)
LEMMA WholePart ==
  ASSUME NEW S, NEW s
  PROVE  s \in Seq(S) => Slice(s, 0, Len(s)) = s
<1> SUFFICES ASSUME s \in Seq(S) PROVE Slice(s, 0, Len(s)) = s
  OBVIOUS
<1>1. Len(s) \in Nat /\ \A i \in 1..Len(s) : 0 + i = i
  OBVIOUS
<1>2. IsSlice(S, s, 0, Len(s), s)
  BY <1>1 DEF IsSlice
<1>3. Len(s) \in 0..Len(s) /\ 0 \in 0..Len(s)
  BY <1>1
<1> QED BY <1>2, <1>3, OnlySlice, Zenon

LEMMA EmptyPart ==
  ASSUME NEW S, NEW s, NEW a
  PROVE  s \in Seq(S) /\ a \in 0..Len(s) => Slice(s, a, a) = <<>>
<1> SUFFICES ASSUME s \in Seq(S), a \in 0..Len(s) PROVE Slice(s, a, a) = <<>>
  OBVIOUS
<1>1. a \in 0..a
  OBVIOUS
<1>2. IsSlice(S, s, a, a, Slice(s, a, a))
  BY <1>1, SliceIs, Zenon
<1> DEFINE t == Slice(s, a, a)
<1>3. t \in Seq(S) /\ Len(t) = 0
  <2>1. IsSlice(S, s, a, a, t)
    BY <1>2
  <2> HIDE DEF t
  <2> QED BY <2>1 DEF IsSlice
<1> HIDE DEF t
<1>4. t = <<>>
  BY <1>3
<1> QED BY <1>4 DEF t

(* What is behind a sequence leaves its parts as they are.                 *)
Extends(t, u, a, b) ==
  /\ Slice(t \o u, a, b) = Slice(t, a, b)
  /\ Slice(t \o u, a, Len(t \o u)) = Slice(t, a, Len(t)) \o u

(* What follows a sequence leaves its parts as they are.                   *)
LEMMA ExtendedParts ==
  ASSUME NEW S, NEW t, NEW u, NEW a, NEW b
  PROVE  t \in Seq(S) /\ u \in Seq(S) /\ b \in 0..Len(t) /\ a \in 0..b =>
           /\ t \o u \in Seq(S) /\ Len(t \o u) = Len(t) + Len(u)
           /\ Extends(t, u, a, b)
<1> SUFFICES ASSUME t \in Seq(S), u \in Seq(S), b \in 0..Len(t), a \in 0..b
             PROVE  /\ t \o u \in Seq(S) /\ Len(t \o u) = Len(t) + Len(u)
                    /\ Extends(t, u, a, b)
  OBVIOUS
<1> DEFINE w == t \o u
           m == Len(t)
           n == Len(w)
           x == Slice(w, a, b)
<1>1. /\ w \in Seq(S) /\ n = m + Len(u) /\ m \in Nat /\ Len(u) \in Nat
      /\ \A i \in 1..m + Len(u) : w[i] = IF i <= m THEN t[i] ELSE u[i - m]
  BY ConcatProperties
<1> HIDE DEF w
<1>2. ASSUME NEW c \in 0..m, NEW d \in 0..c PROVE Slice(w, d, c) = Slice(t, d, c)
  <2> DEFINE y == Slice(w, d, c)
  <2>1. c \in 0..Len(w) /\ c \in 0..Len(t)
    BY <1>1
  <2>2. IsSlice(S, w, d, c, y)
    <3> HIDE DEF y
    <3> QED BY <1>1, <2>1, SliceIs, Zenon DEF y
  <2> HIDE DEF y
  <2>3. y \in Seq(S) /\ Len(y) = c - d /\ \A i \in 1..c - d : y[i] = w[d + i]
    BY <2>2 DEF IsSlice
  <2>4. ASSUME NEW i \in 1..c - d PROVE y[i] = t[d + i] /\ d + i \in 1..Len(t)
    <3>1. d + i \in 1..m + Len(u) /\ d + i <= m /\ d + i \in 1..Len(t)
      BY <1>1
    <3> QED BY <1>1, <2>3, <3>1
  <2>5. IsSlice(S, t, d, c, y)
    BY <2>3, <2>4 DEF IsSlice
  <2>6. y = Slice(t, d, c)
    BY <2>1, <2>5, OnlySlice, Zenon
  <2> QED BY <2>6 DEF y
<1>3. Slice(w, a, b) = Slice(t, a, b)
  BY <1>2
<1>4. m \in 0..m /\ a \in 0..m /\ n \in 0..Len(w) /\ m \in 0..n
  BY <1>1
<1>5. Slice(w, a, m) = Slice(t, a, m)
  BY <1>2, <1>4
<1>6. Slice(w, m, n) = u
  <2>1. \A i \in 1..n - m : u[i] = w[m + i] /\ m + i \in 1..Len(w)
    <3> TAKE i \in 1..n - m
    <3>1. m + i \in 1..m + Len(u) /\ ~(m + i <= m) /\ (m + i) - m = i
      BY <1>1
    <3> QED BY <1>1, <3>1
  <2>2. IsSlice(S, w, m, n, u)
    <3>1. Len(u) = n - m
      BY <1>1
    <3> QED BY <2>1, <3>1 DEF IsSlice
  <2> HIDE DEF n, m
  <2> QED BY <1>1, <1>4, <2>2, OnlySlice, Zenon
<1>7. Joins(w, a, m, n)
  <2> HIDE DEF n, m
  <2> QED BY <1>1, <1>4, JoinedParts, Zenon
<1>8. Slice(w, a, n) = Slice(t, a, m) \o u
  BY <1>5, <1>6, <1>7, Zenon DEF Joins
<1>9. w \in Seq(S) /\ Len(w) = Len(t) + Len(u)
  BY <1>1
<1> QED BY <1>3, <1>8, <1>9, Zenon DEF Extends, w

(* Sequences with the same elements are the same.                          *)
LEMMA SameElements ==
  ASSUME NEW V, NEW u, NEW s
  PROVE  /\ u \in Seq(V) /\ s \in Seq(V) /\ Len(u) = Len(s)
         /\ \A i \in 1..Len(s) : u[i] = s[i]
         => u = s
OBVIOUS

(* Two sequences of sums over the same pieces are the same.                *)
Sums(g, s, n) ==
  g[1] = s[1] /\ \A i \in 1..n - 1 : g[i + 1] = g[i] \o s[i + 1]

SumsAgree(g, h, n) == \A i \in 1..n : h[i] = g[i]

(* A sum is decided by its terms.                                          *)
LEMMA SameSums ==
  ASSUME NEW s, NEW g, NEW n, NEW hs, NEW h, NEW m
  PROVE  /\ n \in Nat \ {0} /\ m \in Nat /\ n <= m
         /\ Sums(g, s, n) /\ Sums(h, hs, m)
         /\ \A i \in 1..n : hs[i] = s[i]
         => SumsAgree(g, h, n)
<1> SUFFICES ASSUME n \in Nat \ {0}, m \in Nat, n <= m, Sums(g, s, n), Sums(h, hs, m),
                    \A i \in 1..n : hs[i] = s[i]
             PROVE  SumsAgree(g, h, n)
  OBVIOUS
<1> DEFINE T == {k \in Nat : k + 1 <= n => h[k + 1] = g[k + 1]}
<1>1. 0 \in T
  <2>1. 1 \in 1..n
    OBVIOUS
  <2> QED BY <2>1 DEF Sums
<1>2. ASSUME NEW k \in T PROVE k + 1 \in T
  <2> SUFFICES ASSUME (k + 1) + 1 <= n PROVE h[(k + 1) + 1] = g[(k + 1) + 1]
    OBVIOUS
  <2>1. k \in Nat /\ k + 1 \in 1..n - 1 /\ k + 1 \in 1..m - 1 /\ (k + 1) + 1 \in 1..n
        /\ k + 1 <= n
    OBVIOUS
  <2>2. h[k + 1] = g[k + 1]
    BY <2>1
  <2>3. h[(k + 1) + 1] = h[k + 1] \o hs[(k + 1) + 1]
    BY <2>1 DEF Sums
  <2>4. g[(k + 1) + 1] = g[k + 1] \o s[(k + 1) + 1]
    BY <2>1 DEF Sums
  <2>5. hs[(k + 1) + 1] = s[(k + 1) + 1]
    BY <2>1
  <2> QED BY <2>2, <2>3, <2>4, <2>5
<1>3. T = Nat
  <2>1. T \in SUBSET Nat
    OBVIOUS
  <2> HIDE DEF T
  <2> QED BY <1>1, <1>2, <2>1, SetInduction
<1> SUFFICES ASSUME NEW i \in 1..n PROVE h[i] = g[i]
  BY DEF SumsAgree
<1>4. i - 1 \in Nat /\ (i - 1) + 1 = i /\ (i - 1) + 1 <= n
  OBVIOUS
<1>5. i - 1 \in T
  BY <1>3, <1>4
<1> QED BY <1>4, <1>5

(* The first k pieces of s, put together.                                  *)
FrontOf(s, k) == FlattenSeq(SubSeq(s, 1, k))

Fronts(S, s) ==
  /\ FrontOf(s, 0) = <<>>
  /\ \A k \in 0..Len(s) : FrontOf(s, k) \in Seq(S)
  /\ \A k \in 1..Len(s) : FrontOf(s, k) = FrontOf(s, k - 1) \o s[k]
  /\ FrontOf(s, Len(s)) = FlattenSeq(s)

(* Every sequence of sequences has its fronts, one piece longer each.      *)
LEMMA FrontsOf ==
  ASSUME NEW S, NEW s
  PROVE  s \in Seq(Seq(S)) => Fronts(S, s)
<1> SUFFICES ASSUME s \in Seq(Seq(S)) PROVE Fronts(S, s)
  OBVIOUS
<1> DEFINE n == Len(s)
<1>1. n \in Nat /\ SubSeq(s, 1, n) = s /\ SubSeq(s, 1, 0) = <<>> /\ <<>> \in Seq(S)
  BY SubSeqProperties
<1>2. FrontOf(s, 0) = <<>>
  <2>1. FlattenSeq(<<>>) = <<>>
    BY DEF FlattenSeq
  <2> QED BY <1>1, <2>1 DEF FrontOf
<1>3. FrontOf(s, n) = FlattenSeq(s)
  BY <1>1 DEF FrontOf
<1>4. CASE n = 0
  <2>1. 0..Len(s) = {0} /\ 1..Len(s) = {}
    BY <1>4
  <2>2. \A k \in 0..Len(s) : FrontOf(s, k) \in Seq(S)
    BY <1>1, <1>2, <2>1
  <2> QED BY <1>2, <1>3, <2>1, <2>2 DEF Fronts
<1>5. CASE n # 0
  <2>1. s # <<>>
    BY <1>5
  <2>2. PICK h \in [1..n -> Seq(S)] :
          h[1] = s[1] /\ \A i \in 1..n - 1 : h[i + 1] = h[i] \o s[i + 1]
    BY <2>1, Flattening
  <2>3. Sums(h, s, n)
    BY <2>2 DEF Sums
  <2>4. ASSUME NEW k \in 1..n PROVE FrontOf(s, k) = h[k]
    <3> DEFINE u == SubSeq(s, 1, k)
    <3>1. u \in Seq(Seq(S)) /\ Len(u) = k /\ \A i \in 1..k : u[i] = s[i]
      <4>1. \A i \in 1..k : s[i] \in Seq(S)
        OBVIOUS
      <4> QED BY <4>1, SubSeqProperties
    <3> HIDE DEF u
    <3>2. u # <<>>
      BY <3>1
    <3>3. PICK g \in [1..Len(u) -> Seq(S)] :
            /\ g[1] = u[1]
            /\ \A i \in 1..Len(u) - 1 : g[i + 1] = g[i] \o u[i + 1]
            /\ FlattenSeq(u) = g[Len(u)]
      BY <3>1, <3>2, Flattening
    <3>4. Sums(g, u, k) /\ FlattenSeq(u) = g[k]
      BY <3>1, <3>3 DEF Sums
    <3>5. k \in Nat \ {0} /\ n \in Nat /\ k <= n
      BY <1>1
    <3>6. \A i \in 1..k : h[i] = g[i]
      <4>1. \A i \in 1..k : s[i] = u[i]
        BY <3>1
      <4> HIDE DEF n
      <4>2. SumsAgree(g, h, k)
        BY <2>3, <3>4, <3>5, <4>1, SameSums, Zenon
      <4> QED BY <4>2 DEF SumsAgree
    <3>7. k \in 1..k
      OBVIOUS
    <3> QED BY <3>4, <3>6, <3>7 DEF FrontOf, u
  <2>5. \A k \in 0..n : FrontOf(s, k) \in Seq(S)
    <3> SUFFICES ASSUME NEW k \in 0..n PROVE FrontOf(s, k) \in Seq(S)
      OBVIOUS
    <3>1. CASE k = 0
      BY <1>1, <1>2, <3>1
    <3>2. CASE k # 0
      <4>1. k \in 1..n
        BY <3>2
      <4> QED BY <2>2, <2>4, <4>1
    <3> QED BY <3>1, <3>2
  <2>6. ASSUME NEW k \in 1..n PROVE FrontOf(s, k) = FrontOf(s, k - 1) \o s[k]
    <3>1. CASE k = 1
      <4>1. s[1] \in Seq(S) /\ k - 1 = 0
        BY <3>1, <1>1
      <4>2. <<>> \o s[1] = s[1]
        BY <4>1
      <4>3. FrontOf(s, k) = s[1]
        BY <2>2, <2>4, <3>1
      <4> QED BY <1>2, <3>1, <4>1, <4>2, <4>3
    <3>2. CASE k # 1
      <4>1. k - 1 \in 1..n - 1 /\ k - 1 \in 1..n /\ (k - 1) + 1 = k
        BY <3>2
      <4>2. h[(k - 1) + 1] = h[k - 1] \o s[(k - 1) + 1]
        BY <2>2, <4>1
      <4> QED BY <2>4, <4>1, <4>2
    <3> QED BY <3>1, <3>2
  <2> QED BY <1>2, <1>3, <2>5, <2>6 DEF Fronts
<1> QED BY <1>4, <1>5

(* A front is a part of every longer one.                                  *)
IsFront(s, k, m) ==
  /\ Len(FrontOf(s, k)) \in 0..Len(FrontOf(s, m))
  /\ Slice(FrontOf(s, m), 0, Len(FrontOf(s, k))) = FrontOf(s, k)

(* A front begins with every shorter one.                                  *)
LEMMA FrontsGrow ==
  ASSUME NEW S, NEW s, NEW k, NEW m
  PROVE  s \in Seq(Seq(S)) /\ m \in 0..Len(s) /\ k \in 0..m => IsFront(s, k, m)
<1> SUFFICES ASSUME s \in Seq(Seq(S)), m \in 0..Len(s), k \in 0..m PROVE IsFront(s, k, m)
  OBVIOUS
<1>0. Fronts(S, s)
  BY FrontsOf, Zenon
<1> DEFINE T == {d \in Nat : k + d <= Len(s) => IsFront(s, k, k + d)}
<1>1. 0 \in T
  <2>1. k + 0 = k /\ FrontOf(s, k) \in Seq(S)
    BY <1>0 DEF Fronts
  <2>2. Slice(FrontOf(s, k), 0, Len(FrontOf(s, k))) = FrontOf(s, k)
    BY <2>1, WholePart, Zenon
  <2>3. Len(FrontOf(s, k)) \in 0..Len(FrontOf(s, k))
    BY <2>1
  <2>4. IsFront(s, k, k)
    BY <2>2, <2>3 DEF IsFront
  <2> HIDE DEF IsFront
  <2> QED BY <2>1, <2>4
<1>2. ASSUME NEW d \in T PROVE d + 1 \in T
  <2> SUFFICES ASSUME k + (d + 1) <= Len(s) PROVE IsFront(s, k, k + (d + 1))
    OBVIOUS
  <2> DEFINE j == k + d
             t == FrontOf(s, j)
             u == s[j + 1]
             b == Len(FrontOf(s, k))
  <2>1. j \in 0..Len(s) /\ j + 1 \in 1..Len(s) /\ (j + 1) - 1 = j /\ k + (d + 1) = j + 1
        /\ d \in Nat /\ k + d <= Len(s)
    OBVIOUS
  <2>2. IsFront(s, k, j)
    BY <2>1
  <2>3. t \in Seq(S) /\ u \in Seq(S) /\ FrontOf(s, j + 1) = t \o u
    <3>1. FrontOf(s, j + 1) = FrontOf(s, (j + 1) - 1) \o s[j + 1]
      <4> HIDE DEF j
      <4> QED BY <1>0, <2>1 DEF Fronts
    <3>2. t \in Seq(S)
      <4> HIDE DEF j
      <4> QED BY <1>0, <2>1 DEF Fronts
    <3>3. u \in Seq(S)
      <4> HIDE DEF j
      <4> QED BY <2>1
    <3> QED BY <2>1, <3>1, <3>2, <3>3
  <2>4. b \in 0..Len(t) /\ Slice(t, 0, b) = FrontOf(s, k)
    BY <2>2 DEF IsFront
  <2>5. 0 \in 0..b
    BY <2>4
  <2> HIDE DEF t, u, b, j
  <2>6. /\ Len(t \o u) = Len(t) + Len(u)
        /\ Extends(t, u, 0, b)
    BY <2>3, <2>4, <2>5, ExtendedParts, Zenon
  <2>7. Slice(t \o u, 0, b) = FrontOf(s, k)
    BY <2>4, <2>6, Zenon DEF Extends
  <2>8. b \in 0..Len(t \o u)
    BY <2>3, <2>4, <2>6
  <2>9. IsFront(s, k, j + 1)
    BY <2>3, <2>7, <2>8, Zenon DEF IsFront, b
  <2> QED BY <2>1, <2>9, Zenon
<1>3. T = Nat
  <2>1. T \in SUBSET Nat
    OBVIOUS
  <2> HIDE DEF T
  <2> QED BY <1>1, <1>2, <2>1, SetInduction
<1>4. m - k \in Nat /\ k + (m - k) = m /\ m <= Len(s)
  OBVIOUS
<1>5. m - k \in T
  BY <1>3, <1>4
<1>6. k + (m - k) <= Len(s)
  BY <1>4
<1>7. IsFront(s, k, k + (m - k))
  BY <1>5, <1>6
<1> HIDE DEF T
<1> QED BY <1>4, <1>7

(* Another piece at the end.                                               *)
LEMMA FlattenAppended ==
  ASSUME NEW S, NEW s, NEW x
  PROVE  s \in Seq(Seq(S)) /\ x \in Seq(S) =>
           FlattenSeq(Append(s, x)) = FlattenSeq(s) \o x /\ FlattenSeq(s) \in Seq(S)
<1> SUFFICES ASSUME s \in Seq(Seq(S)), x \in Seq(S)
             PROVE  FlattenSeq(Append(s, x)) = FlattenSeq(s) \o x /\ FlattenSeq(s) \in Seq(S)
  OBVIOUS
<1> DEFINE t == Append(s, x)
           n == Len(s)
<1>1. t \in Seq(Seq(S)) /\ Len(t) = n + 1 /\ t[n + 1] = x /\ n \in Nat
      /\ \A i \in 1..n : t[i] = s[i]
  OBVIOUS
<1> HIDE DEF t
<1>2. SubSeq(t, 1, n) = s
  <2> DEFINE u == SubSeq(t, 1, n)
  <2>1. u \in Seq(Seq(S)) /\ Len(u) = n /\ \A i \in 1..n : u[i] = t[i]
    <3>1. n \in 0..Len(t) /\ 1 \in Nat \ {0} /\ 1 <= n + 1 /\ n - 1 + 1 = n
          /\ \A i \in 1..n : 1 + i - 1 = i
      BY <1>1
    <3>2. /\ SubSeq(t, 1, n) \in Seq(Seq(S)) /\ Len(SubSeq(t, 1, n)) = n - 1 + 1
          /\ \A i \in 1..n - 1 + 1 : SubSeq(t, 1, n)[i] = t[1 + i - 1]
      <4> HIDE DEF n, u
      <4> QED BY <1>1, <3>1, Part
    <3> QED BY <3>1, <3>2
  <2> HIDE DEF u
  <2>2. u = s
    <3> DEFINE V == Seq(S)
    <3>1. u \in Seq(V) /\ s \in Seq(V) /\ Len(u) = Len(s) /\ \A i \in 1..Len(s) : u[i] = s[i]
      BY <1>1, <2>1
    <3> HIDE DEF V, n
    <3> QED BY <3>1, SameElements, Zenon
  <2> QED BY <2>2 DEF u
<1>3. Fronts(S, t) /\ Fronts(S, s)
  BY <1>1, FrontsOf, Zenon
<1>4. FrontOf(t, n + 1) = FrontOf(t, n) \o x
  <2>1. n + 1 \in 1..Len(t) /\ (n + 1) - 1 = n
    BY <1>1
  <2>2. FrontOf(t, n + 1) = FrontOf(t, (n + 1) - 1) \o t[n + 1]
    <3> HIDE DEF n
    <3> QED BY <1>3, <2>1 DEF Fronts
  <2> QED BY <1>1, <2>1, <2>2
<1>5. FrontOf(t, n) = FlattenSeq(s)
  BY <1>2 DEF FrontOf
<1>6. FrontOf(t, n + 1) = FlattenSeq(t)
  BY <1>1, <1>3 DEF Fronts
<1>7. FlattenSeq(s) \in Seq(S)
  <2>1. n \in 0..Len(s) /\ FrontOf(s, n) = FlattenSeq(s)
    BY <1>1, <1>3 DEF Fronts
  <2> QED BY <1>3, <2>1 DEF Fronts
<1> QED BY <1>4, <1>5, <1>6, <1>7 DEF t

(* The pieces of a text lie one behind the other, from p[j] to p[j + 1].   *)
LaidOut(pieces, p) ==
  LET t == FlattenSeq(pieces)
      n == Len(pieces)
  IN /\ CutAt(pieces, t, p) /\ p[1] = 0 /\ p[n + 1] = Len(t)
     /\ \A k \in 0..n : FrontOf(pieces, k) = Slice(t, 0, p[k + 1])

(* Pieces that are not empty are laid out in the text they make up.        *)
LEMMA CutOf ==
  ASSUME NEW S, NEW pieces
  PROVE  pieces \in Seq(Seq(S)) /\ (\A j \in 1..Len(pieces) : pieces[j] # <<>>) =>
           FlattenSeq(pieces) \in Seq(S) /\ \E p : LaidOut(pieces, p)
<1> SUFFICES ASSUME pieces \in Seq(Seq(S)), \A j \in 1..Len(pieces) : pieces[j] # <<>>
             PROVE  FlattenSeq(pieces) \in Seq(S) /\ \E p : LaidOut(pieces, p)
  OBVIOUS
<1> DEFINE n == Len(pieces)
           t == FlattenSeq(pieces)
           F(k) == FrontOf(pieces, k)
           p == [j \in 1..n + 1 |-> Len(F(j - 1))]
<1>1. n \in Nat /\ Fronts(S, pieces)
  <2>1. Fronts(S, pieces)
    BY FrontsOf, Zenon
  <2> QED BY <2>1
<1>2. /\ F(0) = <<>> /\ F(n) = t
      /\ \A k \in 0..n : F(k) \in Seq(S)
      /\ \A k \in 1..n : F(k) = F(k - 1) \o pieces[k]
  BY <1>1 DEF Fronts
<1>3. ASSUME NEW k \in 0..n
      PROVE  Len(F(k)) \in 0..Len(t) /\ F(k) = Slice(t, 0, Len(F(k)))
  <2>1. IsFront(pieces, k, n)
    <3>1. n \in 0..Len(pieces) /\ k \in 0..n
      BY <1>1
    <3> HIDE DEF n
    <3> QED BY <3>1, FrontsGrow, Zenon
  <2> QED BY <1>2, <2>1 DEF IsFront
<1>4. t \in Seq(S)
  <2>1. n \in 0..n
    BY <1>1
  <2> HIDE DEF t, F
  <2> QED BY <1>2, <2>1
<1> HIDE DEF t, F
<1>5. ASSUME NEW j \in 1..n + 1
      PROVE  p[j] = Len(F(j - 1)) /\ j - 1 \in 0..n
  BY <1>1
<1>6. p \in [1..n + 1 -> 0..Len(t)] /\ p[1] = 0 /\ p[n + 1] = Len(t)
  <2>1. \A j \in 1..n + 1 : p[j] \in 0..Len(t)
    BY <1>3, <1>5
  <2>2. 1 \in 1..n + 1 /\ n + 1 \in 1..n + 1 /\ 1 - 1 = 0 /\ (n + 1) - 1 = n /\ Len(<<>>) = 0
    BY <1>1
  <2>3. p = [j \in 1..n + 1 |-> p[j]]
    OBVIOUS
  <2>4. p[1] = 0 /\ p[n + 1] = Len(t)
    <3> HIDE DEF p
    <3> QED BY <1>2, <1>5, <2>2
  <2>5. p \in [1..n + 1 -> 0..Len(t)]
    <3> HIDE DEF p
    <3> QED BY <2>1, <2>3
  <2> QED BY <2>4, <2>5
<1> HIDE DEF p
<1>7. ASSUME NEW j \in 1..n
      PROVE  p[j] < p[j + 1] /\ pieces[j] = SubSeq(t, p[j] + 1, p[j + 1])
  <2> DEFINE x == F(j - 1)
             y == pieces[j]
             a == Len(x)
             b == Len(F(j))
  <2>1. j \in 1..n + 1 /\ j + 1 \in 1..n + 1 /\ (j + 1) - 1 = j /\ j \in 0..n /\ j - 1 \in 0..n
    BY <1>1
  <2>2. p[j] = a /\ p[j + 1] = b
    BY <1>5, <2>1
  <2>3. x \in Seq(S) /\ y \in Seq(S) /\ F(j) = x \o y /\ y # <<>>
    <3>1. x \in Seq(S) /\ F(j) = x \o y
      <4> HIDE DEF n
      <4> QED BY <1>2, <2>1
    <3>2. y \in Seq(S) /\ y # <<>>
      OBVIOUS
    <3> QED BY <3>1, <3>2
  <2>4. a \in 0..a /\ a \in 0..Len(x)
    BY <2>3
  <2>5. b \in 0..Len(t) /\ x \o y = Slice(t, 0, b)
    BY <1>3, <2>1, <2>3
  <2> HIDE DEF x, y
  <2>6. Len(x \o y) = a + Len(y) /\ Extends(x, y, a, a)
    <3> HIDE DEF a
    <3> QED BY <2>3, <2>4, ExtendedParts, Zenon DEF a
  <2>7. b = a + Len(y) /\ Len(y) > 0 /\ a \in Nat
    BY <2>3, <2>6
  <2>8. Slice(x \o y, a, Len(x \o y)) = y
    <3>1. Slice(x \o y, a, Len(x \o y)) = Slice(x, a, Len(x)) \o y
      BY <2>6 DEF Extends
    <3>2. Slice(x, a, a) = <<>>
      <4> HIDE DEF a
      <4> QED BY <2>3, <2>4, EmptyPart, Zenon
    <3>3. <<>> \o y = y
      BY <2>3
    <3> QED BY <3>1, <3>2, <3>3
  <2>9. Len(x \o y) = b
    BY <2>6, <2>7
  <2>10. Nested(t, 0, b, a, b)
    <3>1. 0 \in 0..b /\ b \in 0..b - 0 /\ a \in 0..b
      BY <2>5, <2>7
    <3> HIDE DEF a, b
    <3> QED BY <1>4, <2>5, <3>1, NestedParts, Zenon
  <2>11. y = Slice(t, a, b)
    <3>1. 0 + a = a /\ 0 + b = b
      BY <2>5, <2>7
    <3> HIDE DEF a, b
    <3> QED BY <2>5, <2>8, <2>9, <2>10, <3>1 DEF Nested
  <2>12. p[j] < p[j + 1]
    BY <2>2, <2>7
  <2> QED BY <2>2, <2>11, <2>12 DEF Slice, y
<1>8. \A k \in 0..n : F(k) = Slice(t, 0, p[k + 1])
  <2> TAKE k \in 0..n
  <2>1. k + 1 \in 1..n + 1 /\ (k + 1) - 1 = k
    BY <1>1
  <2>2. p[k + 1] = Len(F(k))
    BY <1>5, <2>1
  <2> QED BY <1>3, <2>2
<1>9. CutAt(pieces, t, p)
  BY <1>6, <1>7 DEF CutAt
<1>10. LaidOut(pieces, p)
  BY <1>6, <1>8, <1>9 DEF LaidOut, F, t
<1> QED BY <1>4, <1>10 DEF t

(* The places are in order, and each position of the text is in one piece. *)
LEMMA CutOrder ==
  ASSUME NEW pieces, NEW s, NEW p, NEW i, NEW j
  PROVE  /\ CutAt(pieces, s, p) /\ Len(pieces) \in Nat /\ Len(s) \in Nat
         /\ j \in 1..Len(pieces) + 1 /\ i \in 1..j
         => p[i] <= p[j] /\ (i < j => p[i] < p[j]) /\ p[i] \in 0..Len(s) /\ p[j] \in 0..Len(s)
<1> SUFFICES ASSUME CutAt(pieces, s, p), Len(pieces) \in Nat, Len(s) \in Nat,
                    j \in 1..Len(pieces) + 1, i \in 1..j
             PROVE  p[i] <= p[j] /\ (i < j => p[i] < p[j])
                    /\ p[i] \in 0..Len(s) /\ p[j] \in 0..Len(s)
  OBVIOUS
<1> DEFINE n == Len(pieces)
           T == {d \in Nat : i + d <= n + 1 =>
                   p[i] <= p[i + d] /\ (d > 0 => p[i] < p[i + d])}
<1>1. /\ \A k \in 1..n + 1 : p[k] \in 0..Len(s)
      /\ \A k \in 1..n : p[k] < p[k + 1]
  BY DEF CutAt
<1>2. 0 \in T
  <2>1. i + 0 = i /\ i \in 1..n + 1
    OBVIOUS
  <2>2. p[i] <= p[i]
    BY <1>1, <2>1
  <2> QED BY <2>1, <2>2
<1>3. ASSUME NEW d \in T PROVE d + 1 \in T
  <2> SUFFICES ASSUME i + (d + 1) <= n + 1
               PROVE  p[i] < p[i + (d + 1)]
    <3>1. (i + (d + 1) \in 1..n + 1 /\ i \in 1..n + 1) \/ ~(i + (d + 1) <= n + 1)
      OBVIOUS
    <3> QED BY <1>1, <3>1
  <2>1. i + d \in 1..n /\ (i + d) + 1 = i + (d + 1) /\ i + d <= n + 1
        /\ i \in 1..n + 1 /\ i + d \in 1..n + 1 /\ i + (d + 1) \in 1..n + 1
    OBVIOUS
  <2>2. p[i] <= p[i + d]
    BY <2>1
  <2>3. p[i + d] < p[i + (d + 1)]
    BY <1>1, <2>1
  <2> QED BY <1>1, <2>1, <2>2, <2>3
<1>4. T = Nat
  <2>1. T \in SUBSET Nat
    OBVIOUS
  <2> HIDE DEF T
  <2> QED BY <1>2, <1>3, <2>1, SetInduction
<1>5. j - i \in Nat /\ i + (j - i) = j /\ j <= n + 1 /\ (i < j => j - i > 0)
      /\ i \in 1..n + 1 /\ j \in 1..n + 1
  OBVIOUS
<1>6. j - i \in T
  BY <1>4, <1>5
<1>7. p[i] <= p[j] /\ (i < j => p[i] < p[j])
  BY <1>5, <1>6
<1> QED BY <1>1, <1>5, <1>7

(* Where a place of the text lies among the pieces.                        *)
LEMMA CutPlace ==
  ASSUME NEW pieces, NEW s, NEW p, NEW x
  PROVE  /\ CutAt(pieces, s, p) /\ Len(pieces) \in Nat /\ Len(s) \in Nat
         /\ x \in Nat /\ p[1] <= x /\ x < p[Len(pieces) + 1]
         => \E f \in 1..Len(pieces) : p[f] <= x /\ x < p[f + 1]
<1> SUFFICES ASSUME CutAt(pieces, s, p), Len(pieces) \in Nat, Len(s) \in Nat,
                    x \in Nat, p[1] <= x, x < p[Len(pieces) + 1]
             PROVE  \E f \in 1..Len(pieces) : p[f] <= x /\ x < p[f + 1]
  OBVIOUS
<1> DEFINE n == Len(pieces)
           T == {k \in 1..n + 1 : p[k] <= x}
<1>1. /\ \A k \in 1..n + 1 : p[k] \in 0..Len(s)
      /\ \A k \in 1..n : p[k] < p[k + 1]
  BY DEF CutAt
<1>2. T \in SUBSET Nat /\ 1 \in T /\ T # {} /\ \A k \in T : k <= n + 1
  OBVIOUS
<1>3. PICK f \in T : \A k \in T : k <= f
  <2>1. n + 1 \in Nat
    OBVIOUS
  <2> HIDE DEF T
  <2> QED BY <1>2, <2>1, GreatestNumber
<1>4. f \in 1..n + 1 /\ p[f] <= x /\ f # n + 1
  <2>1. f \in 1..n + 1 /\ p[f] <= x
    OBVIOUS
  <2>2. ASSUME f = n + 1 PROVE FALSE
    <3>1. p[f] \in 0..Len(s)
      BY <1>1, <2>1
    <3> QED BY <2>1, <2>2, <3>1
  <2> QED BY <2>1, <2>2
<1>5. f \in 1..n /\ f + 1 \in 1..n + 1
  BY <1>4
<1>6. ~(p[f + 1] <= x)
  <2> SUFFICES ASSUME p[f + 1] <= x PROVE FALSE
    OBVIOUS
  <2>1. f + 1 \in T
    BY <1>5
  <2>2. f + 1 <= f
    BY <1>3, <2>1
  <2> QED BY <1>5, <2>2
<1>7. p[f + 1] \in Nat
  BY <1>1, <1>5
<1> QED BY <1>4, <1>5, <1>6, <1>7

-----------------------------------------------------------------------------
(* The sets of outcomes of a loop, one for each number of rounds: from     *)
(* each outcome a round comes to any of several.                           *)
OutcomesOf(g, first, R, n) ==
  g = [k \in 0..n |-> IF k = 0 THEN first ELSE UNION {R[k][x] : x \in g[k - 1]}]

(* What every round keeps, from W[k - 1] to W[k], holds of all of them.    *)
LEMMA OutcomesStay ==
  ASSUME NEW n, NEW W, NEW f
  PROVE  /\ n \in Nat /\ f[0] \subseteq W[0]
         /\ \A k \in 1..n : f[k - 1] \subseteq W[k - 1] => f[k] \subseteq W[k]
         => \A k \in 0..n : f[k] \subseteq W[k]
<1> SUFFICES ASSUME n \in Nat, f[0] \subseteq W[0],
                    \A k \in 1..n : f[k - 1] \subseteq W[k - 1] => f[k] \subseteq W[k],
                    NEW k \in 0..n
             PROVE  f[k] \subseteq W[k]
  OBVIOUS
<1> DEFINE T == {m \in Nat : m <= n => f[m] \subseteq W[m]}
<1>1. 0 \in T
  OBVIOUS
<1>2. ASSUME NEW m \in T PROVE m + 1 \in T
  <2> SUFFICES ASSUME m + 1 <= n PROVE f[m + 1] \subseteq W[m + 1]
    OBVIOUS
  <2>1. m \in Nat /\ m <= n /\ m + 1 \in 1..n /\ (m + 1) - 1 = m
    OBVIOUS
  <2>2. f[m] \subseteq W[m]
    BY <2>1
  <2> QED BY <2>1, <2>2
<1>3. T \in SUBSET Nat
  OBVIOUS
<1>4. T = Nat
  <2> HIDE DEF T
  <2> QED BY <1>1, <1>2, <1>3, SetInduction
<1> QED BY <1>4

(* There are such sets.                                                    *)
LEMMA OutcomesExist ==
  ASSUME NEW n, NEW W, NEW R, NEW first
  PROVE  /\ n \in Nat /\ first \subseteq W[0]
         /\ \A k \in 1..n : \A x \in W[k - 1] : R[k][x] \subseteq W[k]
         => \E g : OutcomesOf(g, first, R, n) /\ \A k \in 0..n : g[k] \subseteq W[k]
<1> SUFFICES ASSUME n \in Nat, first \subseteq W[0],
                    \A k \in 1..n : \A x \in W[k - 1] : R[k][x] \subseteq W[k]
             PROVE  \E g : OutcomesOf(g, first, R, n) /\ \A k \in 0..n : g[k] \subseteq W[k]
  OBVIOUS
<1> DEFINE V == UNION {W[k] : k \in 0..n}
           P == SUBSET V
           after(k, S) == IF S \subseteq W[k - 1] THEN UNION {R[k][x] : x \in S} ELSE {}
           step == [k \in 1..n |-> [S \in P |-> after(k, S)]]
<1>1. first \in P
  BY 0 \in 0..n
<1>2. step \in [1..n -> [P -> P]]
  <2> SUFFICES ASSUME NEW k \in 1..n, NEW S \in P PROVE after(k, S) \in P
    OBVIOUS
  <2> SUFFICES ASSUME NEW y \in after(k, S) PROVE y \in V
    OBVIOUS
  <2>1. S \subseteq W[k - 1]
    OBVIOUS
  <2>2. PICK x \in S : y \in R[k][x]
    BY <2>1
  <2>3. y \in W[k] /\ k \in 0..n
    BY <2>1, <2>2
  <2> QED BY <2>3
<1>3. PICK g \in [0..n -> P] : g[0] = first /\ \A k \in 1..n : g[k] = step[k][g[k - 1]]
  <2> HIDE DEF step, P
  <2> QED BY <1>1, <1>2, Recursion
<1>4. ASSUME NEW k \in 1..n, g[k - 1] \subseteq W[k - 1]
      PROVE  g[k] = UNION {R[k][x] : x \in g[k - 1]} /\ g[k] \subseteq W[k]
  <2>1. k - 1 \in 0..n /\ g[k - 1] \in P
    OBVIOUS
  <2> HIDE DEF P
  <2>2. g[k] = after(k, g[k - 1])
    BY <1>3, <2>1
  <2>3. g[k] = UNION {R[k][x] : x \in g[k - 1]}
    BY <2>2, <1>4
  <2> QED BY <2>3, <1>4
<1>5. \A k \in 0..n : g[k] \subseteq W[k]
  <2> HIDE DEF P, step
  <2>1. g[0] \subseteq W[0] /\ \A k \in 1..n : g[k - 1] \subseteq W[k - 1] => g[k] \subseteq W[k]
    BY <1>3, <1>4
  <2> QED BY <2>1, OutcomesStay
<1>6. \A k \in 0..n : g[k] = IF k = 0 THEN first ELSE UNION {R[k][x] : x \in g[k - 1]}
  <2> HIDE DEF P, step
  <2> SUFFICES ASSUME NEW k \in 0..n
               PROVE  g[k] = IF k = 0 THEN first ELSE UNION {R[k][x] : x \in g[k - 1]}
    OBVIOUS
  <2>1. CASE k = 0
    BY <1>3, <2>1
  <2>2. CASE k # 0
    <3>1. k \in 1..n /\ k - 1 \in 0..n
      BY <2>2
    <3> QED BY <1>4, <1>5, <2>2, <3>1
  <2> QED BY <2>1, <2>2
<1>7. OutcomesOf(g, first, R, n)
  <2> HIDE DEF P, step
  <2> QED BY <1>6 DEF OutcomesOf
<1> QED BY <1>5, <1>7

(* What is defined at each place by its values at earlier places exists.   *)
LooksBack(step, n, V) ==
  /\ step \in [1..n -> [[1..n -> V] -> V]]
  /\ \A i \in 1..n : \A g, h \in [1..n -> V] :
       (\A j \in 1..i - 1 : g[j] = h[j]) => step[i][g] = step[i][h]

LEMMA EarlierValues ==
  ASSUME NEW V, V # {}, NEW n \in Nat, NEW step, LooksBack(step, n, V)
  PROVE  \E g : Solves(g, step, n, V)
<1> DEFINE Reaches(m) == \E g \in [1..n -> V] : \A i \in 1..m : g[i] = step[i][g]
           T == {m \in Nat : m <= n => Reaches(m)}
<1>1. 0 \in T
  <2>1. PICK v \in V : TRUE
    OBVIOUS
  <2>2. [i \in 1..n |-> v] \in [1..n -> V] /\ 1..0 = {}
    OBVIOUS
  <2>3. Reaches(0)
    BY <2>2
  <2> HIDE DEF Reaches
  <2> QED BY <2>3
<1>2. ASSUME NEW m \in T PROVE m + 1 \in T
  <2>0. SUFFICES ASSUME m \in Nat, m <= n => Reaches(m), m + 1 <= n
                 PROVE  Reaches(m + 1)
    <3> HIDE DEF Reaches
    <3> QED OBVIOUS
  <2>1. m <= n /\ m + 1 \in 1..n /\ Reaches(m)
    <3> HIDE DEF Reaches
    <3> QED BY <2>0
  <2>2. PICK g \in [1..n -> V] : \A i \in 1..m : g[i] = step[i][g]
    BY <2>1
  <2> DEFINE h == [g EXCEPT ![m + 1] = step[m + 1][g]]
  <2>3. step[m + 1] \in [[1..n -> V] -> V] /\ step[m + 1][g] \in V
    BY <2>1, <2>2 DEF LooksBack
  <2>4. h \in [1..n -> V]
    BY <2>1, <2>2, <2>3
  <2>5. h[m + 1] = step[m + 1][g] /\ \A j \in 1..m : h[j] = g[j]
    BY <2>1, <2>2
  <2>6. ASSUME NEW i \in 1..m + 1 PROVE h[i] = step[i][h]
    <3> HIDE DEF h
    <3>1. i \in 1..n /\ \A j \in 1..i - 1 : j \in 1..m
      BY <2>1, <2>0
    <3>2. \A j \in 1..i - 1 : g[j] = h[j]
      BY <3>1, <2>5
    <3>3. step[i][g] = step[i][h]
      BY <3>1, <3>2, <2>2, <2>4 DEF LooksBack
    <3>4. CASE i = m + 1
      BY <3>3, <3>4, <2>5
    <3>5. CASE i # m + 1
      <4>1. i \in 1..m
        BY <3>5, <2>1
      <4> QED BY <4>1, <2>2, <2>5, <3>3
    <3> QED BY <3>4, <3>5
  <2> QED BY <2>4, <2>6
<1>3. T \in SUBSET Nat
  OBVIOUS
<1>4. T = Nat
  <2> HIDE DEF T
  <2> QED BY <1>1, <1>2, <1>3, SetInduction
<1>5. Reaches(n)
  <2> HIDE DEF Reaches
  <2> QED BY <1>4
<1> QED BY <1>5 DEF Solves
=============================================================================
