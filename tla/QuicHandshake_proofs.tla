------------------------ MODULE QuicHandshake_proofs ------------------------
(***************************************************************************)
(* Theorems of QuicHandshake, for every flight, cut and network.           *)
(*                                                                         *)
(* An attempt that has met a Retry never agrees with the server again: the *)
(* server answers none but the first ClientHello (OnlyTheFirst), since the *)
(* client's keys still come from its own id, and the transcript begins     *)
(* with the latest (LatestHello).                                          *)
(*                                                                         *)
(* A client in step never tears the flight: with the flight received up to *)
(* the end of datagram c there is a unit b where a message begins, such    *)
(* that all before b is in the transcript and all after it waits           *)
(* (Followed).  The parser, started at the beginning of a message, stops   *)
(* at the beginning of one (ParseInStep), which is shown by induction from *)
(* the end of the data downwards; and the next datagram in step fits       *)
(* crypto_data behind what waits (Fitting), with all its CRYPTO frames      *)
(* (ExtractedWhole).                                                       *)
(***************************************************************************)
EXTENDS QuicHandshake, InductionLemmas, TLAPS

(* How many messages the flight has.                                       *)
Count == Len(MessageLengths)

(* Where the messages of the flight lie: message m is at s[m] + 1 and      *)
(* after.                                                                  *)
Layout(s) ==
  /\ s \in [1..Count + 1 -> Nat] /\ s[1] = 0
  /\ \A m \in 1..Count : s[m + 1] = s[m] + MessageLengths[m]
  /\ Flight \in Seq(Nat \X Nat) /\ Len(Flight) = s[Count + 1]
  /\ \A m \in 1..Count : \A j \in 1..MessageLengths[m] :
       s[m] + j \in 1..Len(Flight) /\ Flight[s[m] + j] = <<m, j>>
  /\ \A p \in 1..Len(Flight) :
       \E m \in 1..Count : \E j \in 1..MessageLengths[m] : p = s[m] + j

(* There is one, and none is empty.                                        *)
LEMMA Lengths ==
  Count \in Nat \ {0} /\ \A m \in 1..Count : MessageLengths[m] \in Nat \ {0}
BY MessageLengthsAssumption DEF Count

(* The flight of the model is laid out so: FlattenSeq puts the units of    *)
(* the messages one behind the other.                                      *)
LEMMA FlightLaidOut == \E s : Layout(s)
<1> DEFINE all == [m \in 1..Count |-> Units(m)]
<1>1. Count \in Nat \ {0} /\ \A m \in 1..Count : MessageLengths[m] \in Nat \ {0}
  BY Lengths
<1>2. \A m \in 1..Count : /\ Units(m) \in Seq(Nat \X Nat)
                          /\ Len(Units(m)) = MessageLengths[m]
                          /\ \A j \in 1..MessageLengths[m] : Units(m)[j] = <<m, j>>
  <2> TAKE m \in 1..Count
  <2>1. MessageLengths[m] \in Nat /\ m \in Nat
    BY <1>1
  <2>2. Units(m) \in [1..MessageLengths[m] -> Nat \X Nat]
    BY <2>1 DEF Units
  <2> QED BY <2>1, <2>2 DEF Units
<1>3. all \in Seq(Seq(Nat \X Nat)) /\ Len(all) = Count /\ all # <<>>
  <2>1. all \in [1..Count -> Seq(Nat \X Nat)]
    BY <1>2
  <2>2. all \in Seq(Seq(Nat \X Nat)) /\ Len(all) = Count
    BY <1>1, <2>1
  <2>3. Len(<<>>) = 0
    OBVIOUS
  <2> QED BY <1>1, <2>2, <2>3
<1>4. PICK g \in [1..Count -> Seq(Nat \X Nat)] :
        /\ g[1] = all[1]
        /\ \A i \in 1..Count - 1 : g[i + 1] = g[i] \o all[i + 1]
        /\ FlattenSeq(all) = g[Count]
  <2> HIDE DEF all
  <2> QED BY <1>3, Flattening
<1>5. Flight = g[Count]
  BY <1>4 DEF Flight, Count
<1> DEFINE s == [m \in 1..Count + 1 |-> IF m = 1 THEN 0 ELSE Len(g[m - 1])]
           Laid(k) ==
             /\ \A m \in 1..k : s[m + 1] = s[m] + MessageLengths[m]
             /\ \A m \in 1..k : \A j \in 1..MessageLengths[m] :
                  s[m] + j \in 1..s[k + 1] /\ g[k][s[m] + j] = <<m, j>>
             /\ \A p \in 1..s[k + 1] :
                  \E m \in 1..k : \E j \in 1..MessageLengths[m] : p = s[m] + j
           T == {k \in Nat : k + 1 \in 1..Count => Laid(k + 1)}
<1>6. \A k \in 1..Count : g[k] \in Seq(Nat \X Nat) /\ Len(g[k]) \in Nat
  BY <1>4
<1>7. s \in [1..Count + 1 -> Nat] /\ s[1] = 0 /\ \A k \in 1..Count : s[k + 1] = Len(g[k])
  <2>1. ASSUME NEW m \in 1..Count + 1 PROVE s[m] \in Nat
    <3>1. CASE m = 1
      BY <3>1
    <3>2. CASE m # 1
      <4>1. m - 1 \in 1..Count
        BY <3>2, <1>1
      <4> QED BY <4>1, <3>2, <1>6
    <3> QED BY <3>1, <3>2
  <2>2. ASSUME NEW k \in 1..Count PROVE s[k + 1] = Len(g[k])
    BY <1>1
  <2>3. s[1] = 0
    BY <1>1
  <2> QED BY <2>1, <2>2, <2>3
<1> HIDE DEF s
<1>8. Laid(1)
  <2>1. 1 \in 1..Count /\ g[1] = Units(1) /\ s[2] = MessageLengths[1] /\ 1..1 = {1}
    BY <1>1, <1>2, <1>4, <1>7
  <2>2. s[1 + 1] = s[1] + MessageLengths[1] /\ 1 + 1 = 2
    BY <2>1, <1>7, <1>1
  <2>3. \A j \in 1..MessageLengths[1] : s[1] + j = j /\ j \in 1..s[2] /\ g[1][j] = <<1, j>>
    BY <2>1, <1>7, <1>1, <1>2, SMTT(30)
  <2> QED BY <2>1, <2>2, <2>3
<1>9. ASSUME NEW k \in 1..Count, k + 1 \in 1..Count, Laid(k) PROVE Laid(k + 1)
  <2> DEFINE n == MessageLengths[k + 1]
  <2>1. k \in Nat /\ k \in 1..Count - 1 /\ n \in Nat \ {0}
    BY <1>1, <1>9
  <2>2. g[k + 1] = g[k] \o Units(k + 1)
    <3>1. all[k + 1] = Units(k + 1)
      BY <1>9
    <3> HIDE DEF all
    <3> QED BY <2>1, <3>1, <1>4
  <2>3. /\ Units(k + 1) \in Seq(Nat \X Nat) /\ Len(Units(k + 1)) = n
        /\ \A j \in 1..n : Units(k + 1)[j] = <<k + 1, j>>
        /\ g[k] \in Seq(Nat \X Nat) /\ Len(g[k]) \in Nat
        /\ s[k + 1] = Len(g[k]) /\ s[k + 1 + 1] = Len(g[k + 1])
    BY <1>2, <1>6, <1>7, <1>9
  <2> HIDE DEF n
  <2>4. /\ s[k + 1 + 1] = s[k + 1] + n
        /\ \A p \in 1..s[k + 1] + n :
             g[k + 1][p] = IF p <= s[k + 1] THEN g[k][p] ELSE Units(k + 1)[p - s[k + 1]]
    <3> DEFINE x == g[k]
               y == Units(k + 1)
    <3>1. g[k + 1] = x \o y /\ x \in Seq(Nat \X Nat) /\ y \in Seq(Nat \X Nat)
      BY <2>2, <2>3
    <3>2. Len(y) = n /\ Len(x) = s[k + 1] /\ s[k + 1 + 1] = Len(g[k + 1])
      BY <2>3
    <3> HIDE DEF x, y
    <3>3. /\ Len(x \o y) = Len(x) + Len(y)
          /\ \A p \in 1..Len(x) + Len(y) : (x \o y)[p] = IF p <= Len(x) THEN x[p] ELSE y[p - Len(x)]
      BY <3>1, ConcatProperties, SMTT(30)
    <3>4. \A p \in 1..s[k + 1] + n : g[k + 1][p] = IF p <= s[k + 1] THEN x[p] ELSE y[p - s[k + 1]]
      BY <3>1, <3>2, <3>3
    <3> QED BY <3>1, <3>2, <3>3, <3>4 DEF x, y
  <2>c. s[k + 1] \in Nat /\ n \in Nat
    BY <2>1, <2>3
  <2>a. \A p \in 1..s[k + 1] : g[k + 1][p] = g[k][p] /\ p \in 1..s[k + 1 + 1]
    <3> TAKE p \in 1..s[k + 1]
    <3>1. p \in 1..s[k + 1] + n /\ p <= s[k + 1]
      BY <2>c
    <3> QED BY <3>1, <2>4
  <2>b. \A j \in 1..n : g[k + 1][s[k + 1] + j] = <<k + 1, j>> /\ s[k + 1] + j \in 1..s[k + 1 + 1]
    <3> TAKE j \in 1..n
    <3>1. /\ s[k + 1] + j \in 1..s[k + 1] + n /\ ~(s[k + 1] + j <= s[k + 1])
          /\ (s[k + 1] + j) - s[k + 1] = j
      BY <2>c
    <3> QED BY <3>1, <2>3, <2>4
  <2> USE DEF n
  <2>5. \A m \in 1..k + 1 : m \in 1..k \/ m = k + 1
    BY <2>1
  <2>6. \A m \in 1..k + 1 : s[m + 1] = s[m] + MessageLengths[m]
    BY <2>4, <2>5, <1>9
  <2>7. \A m \in 1..k + 1 : \A j \in 1..MessageLengths[m] :
          s[m] + j \in 1..s[k + 1 + 1] /\ g[k + 1][s[m] + j] = <<m, j>>
    BY <2>a, <2>b, <2>5, <1>9
  <2>8. \A p \in 1..s[k + 1 + 1] :
          \E m \in 1..k + 1 : \E j \in 1..MessageLengths[m] : p = s[m] + j
    <3> TAKE p \in 1..s[k + 1 + 1]
    <3>1. CASE p \in 1..s[k + 1]
      <4>1. \A m \in 1..k : m \in 1..k + 1
        BY <2>1
      <4> QED BY <3>1, <4>1, <1>9
    <3>2. CASE p \notin 1..s[k + 1]
      <4>1. p - s[k + 1] \in 1..n /\ p = s[k + 1] + (p - s[k + 1]) /\ k + 1 \in 1..k + 1
        BY <3>2, <2>1, <2>3, <2>4
      <4> QED BY <4>1
    <3> QED BY <3>1, <3>2
  <2> QED BY <2>6, <2>7, <2>8
<1>10. T = Nat
  <2> HIDE DEF Laid
  <2>1. 0 \in T
    BY <1>8
  <2>2. ASSUME NEW k \in T PROVE k + 1 \in T
    <3> SUFFICES ASSUME k + 1 + 1 \in 1..Count PROVE Laid(k + 1 + 1)
      OBVIOUS
    <3>1. k + 1 \in 1..Count /\ Laid(k + 1)
      BY <1>1
    <3> QED BY <3>1, <1>9
  <2>3. T \in SUBSET Nat
    OBVIOUS
  <2> HIDE DEF T
  <2> QED BY <2>1, <2>2, <2>3, SetInduction
<1>11. Laid(Count)
  <2> HIDE DEF Laid
  <2>1. Count - 1 \in Nat /\ (Count - 1) + 1 = Count
    BY <1>1
  <2>2. (Count - 1) + 1 \in 1..Count
    BY <2>1, <1>1
  <2>3. Count - 1 \in T
    <3> HIDE DEF T
    <3> QED BY <2>1, <1>10
  <2>4. Laid((Count - 1) + 1)
    BY <2>2, <2>3
  <2> QED BY <2>1, <2>4
<1>12. Len(Flight) = s[Count + 1] /\ Flight \in Seq(Nat \X Nat)
  BY <1>1, <1>5, <1>6, <1>7
<1>13. Layout(s)
  BY <1>5, <1>7, <1>11, <1>12 DEF Layout
<1> QED BY <1>13

(* A message begins behind the first b units of the flight, or it ends     *)
(* there.                                                                  *)
Boundary(b) == b \in 0..Len(Flight) /\ (b < Len(Flight) => HasHeader(Flight[b + 1]))

(* What lies behind a boundary: one message, whose header tells its        *)
(* length, then the next boundary; it is the Finished only at the end of   *)
(* the flight, and there is no header inside it.                           *)
LEMMA NextMessage ==
  ASSUME NEW b, Boundary(b), b < Len(Flight)
  PROVE  \E m \in 1..Count :
           /\ Flight[b + 1] = <<m, 1>> /\ LengthAt(Flight[b + 1]) = MessageLengths[m]
           /\ Boundary(b + MessageLengths[m])
           /\ m = Count <=> b + MessageLengths[m] = Len(Flight)
           /\ \A p \in b + 2..b + MessageLengths[m] : ~HasHeader(Flight[p])
<1>1. PICK s : Layout(s)
  BY FlightLaidOut
<1>2. /\ s \in [1..Count + 1 -> Nat] /\ Len(Flight) = s[Count + 1] /\ b \in Nat
      /\ b + 1 \in 1..Len(Flight) /\ HasHeader(Flight[b + 1]) /\ Len(Flight) \in Nat
  BY <1>1, Lengths, SMTT(30) DEF Layout, Boundary
<1>3. PICK m \in 1..Count : \E j \in 1..MessageLengths[m] : b + 1 = s[m] + j
  BY <1>1, <1>2 DEF Layout
<1>a. PICK j \in 1..MessageLengths[m] : b + 1 = s[m] + j
  BY <1>3
<1>b. /\ m \in Nat /\ m # 0 /\ MessageLengths[m] \in Nat \ {0}
      /\ m \in 1..Count + 1 /\ m + 1 \in 1..Count + 1
  BY Lengths
<1>c. s[m + 1] = s[m] + MessageLengths[m] /\ Flight[s[m] + j] = <<m, j>> /\ s[m] \in Nat
  BY <1>1, <1>2, <1>b DEF Layout
<1>4. /\ m \in Nat /\ m # 0 /\ MessageLengths[m] \in Nat \ {0} /\ s[m] \in Nat /\ m + 1 \in 1..Count + 1
      /\ s[m + 1] = s[m] + MessageLengths[m] /\ Flight[b + 1] = <<m, j>>
  BY <1>a, <1>b, <1>c
<1>5. j = 1 /\ b = s[m]
  BY <1>2, <1>a, <1>4 DEF HasHeader
<1>6. LengthAt(Flight[b + 1]) = MessageLengths[m]
  BY <1>4, <1>5 DEF LengthAt, ServerHelloUnit, HasHeader
<1>7. \A p \in b + 2..b + MessageLengths[m] : ~HasHeader(Flight[p])
  <2> TAKE p \in b + 2..b + MessageLengths[m]
  <2>1. p - b \in 1..MessageLengths[m] /\ s[m] + (p - b) = p /\ p - b # 1
    <3>1. b \in Nat /\ MessageLengths[m] \in Nat /\ s[m] = b
      BY <1>2, <1>4, <1>5
    <3> QED BY <3>1
  <2>2. Flight[p] = <<m, p - b>>
    BY <1>1, <2>1 DEF Layout
  <2> QED BY <2>1, <2>2 DEF HasHeader
<1>8. CASE m = Count
  <2>1. b + MessageLengths[m] = Len(Flight)
    BY <1>2, <1>4, <1>5, <1>8
  <2> QED BY <1>2, <1>4, <1>5, <1>6, <1>7, <1>8, <2>1 DEF Boundary
<1>9. CASE m # Count
  <2>1. m + 1 \in 1..Count /\ 1 \in 1..MessageLengths[m + 1]
    BY <1>9, Lengths
  <2>2. s[m + 1] + 1 \in 1..Len(Flight) /\ Flight[s[m + 1] + 1] = <<m + 1, 1>>
    BY <1>1, <2>1 DEF Layout
  <2>3. b + MessageLengths[m] = s[m + 1] /\ s[m + 1] < Len(Flight) /\ s[m + 1] \in Nat
    BY <1>2, <1>4, <1>5, <2>1, <2>2, SMTT(30)
  <2>4. Boundary(b + MessageLengths[m])
    BY <1>2, <2>2, <2>3 DEF Boundary, HasHeader
  <2> QED BY <1>2, <1>4, <1>5, <1>6, <1>7, <1>9, <2>3, <2>4
<1> QED BY <1>8, <1>9

(* One step of the parser at unit i of d, with f its results further on.   *)
Reading(d, n, f, i) ==
  IF i > n THEN [used |-> i - 1, finished |-> FALSE]
  ELSE IF i + LengthAt(d[i]) > n + 1 THEN [used |-> i - 1, finished |-> FALSE]
  ELSE [used |-> f[i + LengthAt(d[i])].used,
        finished |-> f[i + LengthAt(d[i])].finished \/ d[i] = FinishedUnit]

(* f holds the parser's results from each unit of d.                       *)
ReadBy(f, d, n) ==
  /\ f \in [1..n + 1 -> [used : Nat, finished : BOOLEAN]]
  /\ Parse(d) = f[1]
  /\ \A i \in 1..n + 1 : f[i] = Reading(d, n, f, i)

(* The parser's loop ends, since every step takes at least one unit.       *)
LEMMA ParseRecursion ==
  ASSUME NEW d, NEW n
  PROVE  n \in Nat /\ n = Len(d) /\ (\A i \in 1..n : LengthAt(d[i]) \in Nat \ {0}) =>
           \E f : ReadBy(f, d, n)
<1>0. SUFFICES ASSUME n \in Nat, n = Len(d), \A i \in 1..n : LengthAt(d[i]) \in Nat \ {0}
               PROVE  \E f : ReadBy(f, d, n)
  OBVIOUS
<1> DEFINE R == [used : Nat, finished : BOOLEAN]
           At(i, a) ==
             IF i > n THEN [used |-> i - 1, finished |-> FALSE]
             ELSE LET next == i + LengthAt(d[i])
                  IN IF next > n + 1
                     THEN [used |-> i - 1, finished |-> FALSE]
                     ELSE [a[next] EXCEPT !.finished = @ \/ d[i] = FinishedUnit]
           Body(a) == [i \in 1..n + 1 |-> At(i, a)]
           w == CHOOSE a : a = Body(a)
           step == [i \in 1..n + 1 |-> [a \in [1..n + 1 -> R] |-> At(i, a)]]
<1>1. Parse(d) = w[1]
  BY <1>0 DEF Parse
<1>2. ASSUME NEW i \in 1..n + 1, NEW a \in [1..n + 1 -> R]
      PROVE  /\ At(i, a) \in R
             /\ \A b \in [1..n + 1 -> R] :
                  (\A j \in i + 1..n + 1 : a[j] = b[j]) => At(i, a) = At(i, b)
  <2>1. CASE i > n
    BY <1>0, <2>1
  <2>2. CASE ~(i > n) /\ i + LengthAt(d[i]) > n + 1
    <3>1. i \in 1..n /\ LengthAt(d[i]) \in Nat
      BY <1>0, <2>2
    <3> QED BY <2>2, <3>1
  <2>3. CASE ~(i > n) /\ ~(i + LengthAt(d[i]) > n + 1)
    <3>1. i \in 1..n /\ LengthAt(d[i]) \in Nat \ {0}
      BY <1>0, <2>3
    <3> DEFINE next == i + LengthAt(d[i])
    <3>2. next \in i + 1..n + 1 /\ next \in 1..n + 1
      BY <1>0, <2>3, <3>1
    <3>3. a[next] \in R
      BY <3>2
    <3>4. At(i, a) = [a[next] EXCEPT !.finished = @ \/ d[i] = FinishedUnit]
      BY <2>3
    <3>5. \A b : At(i, b) = [b[next] EXCEPT !.finished = @ \/ d[i] = FinishedUnit]
      BY <2>3
    <3> HIDE DEF next, At
    <3>6. At(i, a) \in R
      BY <3>3, <3>4
    <3> QED BY <3>2, <3>5, <3>6
  <2> QED BY <2>1, <2>2, <2>3
<1>3. \E g : Solves(g, step, n + 1, R)
  <2> DEFINE top == n + 1
  <2>1. top \in Nat /\ R # {}
    <3>1. [used |-> 0, finished |-> FALSE] \in R /\ top \in Nat
      BY <1>0
    <3> HIDE DEF R, top
    <3> QED BY <3>1
  <2>2. step \in [1..top -> [[1..top -> R] -> R]]
    <3> HIDE DEF At, R
    <3> QED BY <1>2
  <2>3. \A i \in 1..top : \A g, h \in [1..top -> R] :
           (\A j \in i + 1..top : g[j] = h[j]) => step[i][g] = step[i][h]
    <3> HIDE DEF At, R
    <3> QED BY <1>2
  <2>4. LooksAhead(step, top, R)
    <3> HIDE DEF step, top, R
    <3> QED BY <2>2, <2>3 DEF LooksAhead
  <2>5. \E g : Solves(g, step, top, R)
    <3> HIDE DEF step, top, R
    <3> QED BY <2>1, <2>4, LaterValues
  <2> QED BY <2>5
<1>4. PICK g : g \in [1..n + 1 -> R] /\ \A i \in 1..n + 1 : g[i] = At(i, g)
  <2>1. PICK g : Solves(g, step, n + 1, R)
    BY <1>3
  <2>2. g \in [1..n + 1 -> R] /\ \A i \in 1..n + 1 : g[i] = step[i][g]
    <3> HIDE DEF step, R
    <3> QED BY <2>1 DEF Solves
  <2>3. \A i \in 1..n + 1 : step[i][g] = At(i, g)
    <3> HIDE DEF At, R
    <3> QED BY <2>2
  <2> HIDE DEF At, R, step
  <2> QED BY <2>2, <2>3
<1>5. w = Body(w)
  <2>1. g = Body(g)
    <3> HIDE DEF At, R
    <3> QED BY <1>4
  <2> HIDE DEF Body
  <2> QED BY <2>1
<1> HIDE DEF w
<1>6. \A i \in 1..n + 1 : w[i] = At(i, w)
  <2> HIDE DEF At
  <2> QED BY <1>5
<1>7. ASSUME NEW i \in 1..n + 1, \A j \in i + 1..n + 1 : w[j] \in R
      PROVE  At(i, w) \in R /\ At(i, w) = Reading(d, n, w, i)
  <2>1. CASE i > n
    BY <1>0, <2>1 DEF Reading
  <2>2. CASE ~(i > n)
    <3>1. i \in 1..n /\ LengthAt(d[i]) \in Nat \ {0}
      BY <1>0, <2>2
    <3>2. CASE i + LengthAt(d[i]) > n + 1
      BY <2>2, <3>1, <3>2 DEF Reading
    <3>3. CASE ~(i + LengthAt(d[i]) > n + 1)
      <4> DEFINE next == i + LengthAt(d[i])
      <4>1. next \in i + 1..n + 1
        BY <1>0, <3>1, <3>3
      <4>2. w[next] \in R
        BY <1>7, <4>1
      <4>3. At(i, w) = [w[next] EXCEPT !.finished = @ \/ d[i] = FinishedUnit]
        BY <2>2, <3>3
      <4>4. Reading(d, n, w, i) = [used |-> w[next].used,
                                   finished |-> w[next].finished \/ d[i] = FinishedUnit]
        BY <2>2, <3>3 DEF Reading
      <4> HIDE DEF next, At
      <4> QED BY <4>2, <4>3, <4>4
    <3> QED BY <3>2, <3>3
  <2> QED BY <2>1, <2>2
<1> HIDE DEF At, R, Body
<1> DEFINE T == {i \in 1..n + 1 : w[i] \in R}
<1>8. T = 1..n + 1
  <2> DEFINE top == n + 1
  <2>1. \A i \in 1..top : (\A j \in i + 1..top : j \in T) => i \in T
    <3> SUFFICES ASSUME NEW i \in 1..top, \A j \in i + 1..top : j \in T PROVE w[i] \in R
      OBVIOUS
    <3>1. \A j \in i + 1..n + 1 : w[j] \in R
      OBVIOUS
    <3> QED BY <3>1, <1>6, <1>7
  <2>2. top \in Nat /\ T \in SUBSET (1..top)
    BY <1>0
  <2> HIDE DEF T, top
  <2>3. T = 1..top
    BY <2>1, <2>2, LaterInduction
  <2> QED BY <2>3 DEF top
<1>9. \A i \in 1..n + 1 : w[i] \in R
  BY <1>8
<1>10. w \in [1..n + 1 -> R]
  BY <1>5, <1>9 DEF Body
<1>11. \A i \in 1..n + 1 : w[i] = Reading(d, n, w, i)
  <2> TAKE i \in 1..n + 1
  <2>1. \A j \in i + 1..n + 1 : w[j] \in R
    BY <1>0, <1>9
  <2> QED BY <2>1, <1>6, <1>7
<1> QED BY <1>1, <1>10, <1>11 DEF ReadBy, R

(* It never takes more than there is.                                      *)
LEMMA ParseUses ==
  ASSUME NEW d, Len(d) \in Nat, \A i \in 1..Len(d) : LengthAt(d[i]) \in Nat \ {0}
  PROVE  Parse(d).used \in 0..Len(d) /\ Parse(d).finished \in BOOLEAN
<1> DEFINE n == Len(d)
<1>a. PICK f : ReadBy(f, d, n)
  BY ParseRecursion
<1>1. /\ f \in [1..n + 1 -> [used : Nat, finished : BOOLEAN]]
      /\ Parse(d) = f[1] /\ \A i \in 1..n + 1 : f[i] = Reading(d, n, f, i)
  BY <1>a DEF ReadBy
<1> DEFINE top == n + 1
           T == {i \in 1..top : f[i].used \in i - 1..n}
<1>2. T = 1..top
  <2>1. ASSUME NEW i \in 1..top, \A j \in i + 1..top : j \in T PROVE i \in T
    <3>1. f[i] = Reading(d, n, f, i) /\ n \in Nat
      BY <1>1
    <3>2. CASE i > n
      BY <3>1, <3>2 DEF Reading
    <3>3. CASE ~(i > n)
      <4>1. i \in 1..n /\ LengthAt(d[i]) \in Nat \ {0}
        BY <3>3
      <4>2. CASE i + LengthAt(d[i]) > n + 1
        BY <3>1, <3>3, <4>1, <4>2 DEF Reading
      <4>3. CASE ~(i + LengthAt(d[i]) > n + 1)
        <5>1. i + LengthAt(d[i]) \in i + 1..top /\ i + LengthAt(d[i]) \in T
          BY <2>1, <4>1, <4>3
        <5>2. f[i].used = f[i + LengthAt(d[i])].used
          BY <3>1, <3>3, <4>3 DEF Reading
        <5> QED BY <5>1, <5>2, <4>1, SMTT(30)
      <4> QED BY <4>2, <4>3
    <3> QED BY <3>2, <3>3
  <2>2. top \in Nat /\ T \in SUBSET (1..top)
    OBVIOUS
  <2> HIDE DEF T, top
  <2> QED BY <2>1, <2>2, LaterInduction
<1>3. 1 \in T /\ 1 \in 1..n + 1
  BY <1>2
<1> QED BY <1>1, <1>3

(* No whole message lies between b, where one begins, and e.               *)
NoneWhole(b, e) == b < e => b + LengthAt(Flight[b + 1]) > e

(* The lengths the parser can find where there is no header.               *)
MisreadOK == misread \in [Headless -> Nat \ {0}]

(* No length the parser finds in the flight is zero.                       *)
LEMMA UnitLengths ==
  ASSUME MisreadOK, NEW p \in 1..Len(Flight)
  PROVE  LengthAt(Flight[p]) \in Nat \ {0}
<1>1. PICK s : Layout(s)
  BY FlightLaidOut
<1>2. PICK m \in 1..Count : \E j \in 1..MessageLengths[m] : p = s[m] + j
  BY <1>1 DEF Layout
<1>3. PICK j \in 1..MessageLengths[m] : p = s[m] + j
  BY <1>2
<1>4. Flight[p] = <<m, j>> /\ MessageLengths[m] \in Nat \ {0} /\ Flight \in Seq(Nat \X Nat)
  BY <1>1, <1>3, Lengths DEF Layout
<1>5. CASE HasHeader(Flight[p])
  BY <1>4, <1>5 DEF LengthAt
<1>6. CASE ~HasHeader(Flight[p])
  <2>1. Flight[p] \in Headless
    BY <1>4, <1>6 DEF Headless, Range
  <2>2. misread[Flight[p]] \in Nat \ {0}
    BY <2>1 DEF MisreadOK
  <2> QED BY <1>6, <2>2 DEF LengthAt
<1> QED BY <1>5, <1>6

(* The type of the flight.                                                 *)
LEMMA FlightIsSeq == Flight \in Seq(Nat \X Nat) /\ Len(Flight) \in Nat \ {0}
<1>1. PICK s : Layout(s)
  BY FlightLaidOut
<1>2. 1 \in 1..Count /\ 1 \in 1..MessageLengths[1]
  BY Lengths
<1>3. s[1] + 1 \in 1..Len(Flight) /\ Flight \in Seq(Nat \X Nat)
  BY <1>1, <1>2 DEF Layout
<1> QED BY <1>3

(* Started where a message begins, the parser takes whole messages up to a *)
(* boundary, leaves no whole message behind it, and finds the Finished     *)
(* exactly when it has taken the rest of the flight.                       *)
LEMMA ParseInStep ==
  ASSUME MisreadOK, NEW b, NEW e, Boundary(b), e \in b..Len(Flight)
  PROVE  LET p == Parse(SubSeq(Flight, b + 1, e))
         IN /\ p.used \in 0..e - b
            /\ Boundary(b + p.used) /\ NoneWhole(b + p.used, e)
            /\ NoneWhole(b, e) => p.used = 0
            /\ p.finished <=> b < Len(Flight) /\ b + p.used = Len(Flight)
<1> DEFINE d == SubSeq(Flight, b + 1, e)
           n == e - b
           N == Len(Flight)
<1>1. N \in Nat /\ b \in 0..N /\ e \in 0..N /\ n \in Nat /\ b + n = e
  BY FlightIsSeq DEF Boundary
<1>2. Len(d) = n /\ \A i \in 1..n : d[i] = Flight[b + i] /\ b + i \in 1..N
  <2>1. \A p \in b + 1..e : Flight[p] \in Nat \X Nat
    BY <1>1, FlightIsSeq
  <2>2. b + 1 \in Int /\ e \in Int
    BY <1>1
  <2>3. /\ Len(d) = IF b + 1 <= e THEN e - (b + 1) + 1 ELSE 0
        /\ \A i \in 1..e - (b + 1) + 1 : d[i] = Flight[b + 1 + i - 1]
    BY <2>1, <2>2, SubSeqProperties
  <2>4. Len(d) = n
    BY <1>1, <2>3
  <2>5. ASSUME NEW i \in 1..n PROVE d[i] = Flight[b + i] /\ b + i \in 1..N
    <3>1. i \in 1..e - (b + 1) + 1 /\ b + 1 + i - 1 = b + i /\ b + i \in 1..N
      BY <1>1
    <3> QED BY <2>3, <3>1
  <2> QED BY <2>4, <2>5
<1> HIDE DEF d, n, N
<1>3. \A i \in 1..n : LengthAt(d[i]) \in Nat \ {0}
  BY <1>2, UnitLengths DEF N
<1>a. PICK f : ReadBy(f, d, n)
  BY <1>1, <1>2, <1>3, ParseRecursion
<1>4. /\ f \in [1..n + 1 -> [used : Nat, finished : BOOLEAN]]
      /\ Parse(d) = f[1] /\ \A i \in 1..n + 1 : f[i] = Reading(d, n, f, i)
  BY <1>a DEF ReadBy
<1> DEFINE top == n + 1
           Good(i) == /\ f[i].used \in i - 1..n
                      /\ Boundary(b + f[i].used) /\ NoneWhole(b + f[i].used, e)
                      /\ f[i].finished <=> b + i - 1 < N /\ b + f[i].used = N
           T == {i \in 1..top : Boundary(b + i - 1) => Good(i)}
<1>5. T = 1..top
  <2>1. ASSUME NEW i \in 1..top, \A j \in i + 1..top : j \in T, Boundary(b + i - 1)
        PROVE  Good(i)
    <3>1. f[i] = Reading(d, n, f, i) /\ i \in 1..n + 1 /\ i \in Nat
      BY <1>1, <1>4
    <3>2. CASE i > n
      <4>1. i = n + 1 /\ b + i - 1 = e /\ i - 1 = n
        BY <1>1, <3>1, <3>2
      <4>2. f[i] = [used |-> i - 1, finished |-> FALSE]
        BY <3>1, <3>2 DEF Reading
      <4>3. f[i].used = n /\ f[i].finished = FALSE /\ b + f[i].used = e
        BY <1>1, <4>1, <4>2
      <4>4. NoneWhole(b + f[i].used, e)
        BY <1>1, <4>3 DEF NoneWhole
      <4>5. Boundary(b + f[i].used)
        BY <1>1, <2>1, <4>1, <4>3
      <4> HIDE DEF T
      <4> QED BY <1>1, <4>1, <4>3, <4>4, <4>5
    <3>3. CASE ~(i > n)
      <4> DEFINE u == Flight[b + i]
                 q == b + i - 1
      <4>1. /\ i \in 1..n /\ d[i] = u /\ LengthAt(u) \in Nat \ {0}
            /\ q \in Nat /\ q + 1 = b + i /\ q < e /\ q < N
        BY <1>1, <1>2, <1>3, <3>1, <3>3
      <4>2. PICK m \in 1..Count :
              /\ u = <<m, 1>> /\ LengthAt(u) = MessageLengths[m]
              /\ Boundary(q + MessageLengths[m])
              /\ m = Count <=> q + MessageLengths[m] = N
        <5>1. Boundary(q) /\ q < Len(Flight)
          BY <2>1, <4>1 DEF N
        <5> HIDE DEF q
        <5> QED BY <4>1, <5>1, NextMessage DEF N
      <4>3. u = FinishedUnit <=> q + LengthAt(u) = N
        BY <4>2 DEF FinishedUnit, Count
      <4>0. b + i - 1 = q
        OBVIOUS
      <4> HIDE DEF u, q
      <4>4. CASE i + LengthAt(u) > n + 1
        <5>1. f[i].used = i - 1 /\ f[i].finished = FALSE
          BY <3>1, <3>3, <4>1, <4>4 DEF Reading
        <5>2. b + f[i].used = q /\ q + LengthAt(u) > e
          BY <1>1, <4>1, <4>4, <5>1
        <5>3. NoneWhole(q, e)
          BY <4>1, <5>2 DEF NoneWhole, u
        <5>4. Boundary(q)
          BY <2>1 DEF q
        <5> HIDE DEF T
        <5> QED BY <1>1, <4>0, <4>1, <5>1, <5>2, <5>3, <5>4
      <4>5. CASE ~(i + LengthAt(u) > n + 1)
        <5> DEFINE next == i + LengthAt(u)
        <5>1. next \in i + 1..top /\ b + next - 1 = q + LengthAt(u) /\ next \in Nat
          <6>1. i \in Nat /\ LengthAt(u) \in Nat \ {0} /\ b \in Nat
            BY <1>1, <4>1
          <6> QED BY <6>1, <1>1, <4>0, <4>5
        <5>2. next \in T /\ next \in 1..top
          BY <2>1, <5>1, <3>1
        <5>3. f[i].used = f[next].used /\ f[i].finished = (f[next].finished \/ u = FinishedUnit)
          BY <3>1, <3>3, <4>1, <4>5 DEF Reading
        <5>4. Boundary(b + next - 1)
          BY <4>2, <5>1
        <5> HIDE DEF next
        <5>5. Good(next)
          BY <5>2, <5>4
        <5>6. f[next].finished \in BOOLEAN /\ f[next].used \in Nat
          BY <1>4, <5>2
        <5> HIDE DEF T
        <5>7. f[i].used \in i - 1..n
          BY <5>1, <5>3, <5>5, <3>1, <1>1
        <5>8. b + f[i].used = N => q + LengthAt(u) < N \/ q + LengthAt(u) = N
          <6> HAVE b + f[i].used = N
          <6> DEFINE k == f[next].used
                     end == q + LengthAt(u)
          <6>1. k >= next - 1 /\ b + k = N /\ k \in Nat
            BY <5>1, <5>3, <5>5, <5>6
          <6>2. end \in Nat /\ b \in Nat /\ N \in Nat /\ next \in Nat /\ b + next - 1 = end
            BY <1>1, <4>1, <5>1
          <6> HIDE DEF k, end, N, q
          <6>3. end < N \/ end = N
            BY <6>1, <6>2
          <6> QED BY <6>3 DEF end
        <5>9. f[i].finished <=> b + i - 1 < N /\ b + f[i].used = N
          <6>1. b + i - 1 < N
            BY <4>1, <1>1, <3>1
          <6>2. q + LengthAt(u) = N => b + f[next].used = N
            <7> HAVE q + LengthAt(u) = N
            <7>1. f[next].used >= next - 1 /\ f[next].used <= n /\ b + next - 1 = N
              BY <5>1, <5>5
            <7>2. b \in Nat /\ n \in Nat /\ N \in Nat /\ b + n <= N
              BY <1>1
            <7> QED BY <7>1, <7>2, <5>1, <5>6
          <6> QED BY <6>1, <6>2, <4>3, <5>1, <5>3, <5>5, <5>8
        <5> QED BY <5>3, <5>5, <5>7, <5>9
      <4> QED BY <4>4, <4>5
    <3> QED BY <3>2, <3>3
  <2>2. top \in Nat /\ T \in SUBSET (1..top)
    BY <1>1
  <2>3. \A i \in 1..top : (\A j \in i + 1..top : j \in T) => i \in T
    BY <2>1
  <2> HIDE DEF T, top
  <2> QED BY <2>2, <2>3, LaterInduction
<1>6. 1 \in 1..top /\ b + 1 - 1 = b
  BY <1>1
<1>7. Good(1)
  BY <1>5, <1>6
<1>8. NoneWhole(b, e) => f[1].used = 0
  <2>1. f[1] = Reading(d, n, f, 1)
    BY <1>4, <1>6
  <2>2. CASE b < e
    <3>1. 1 \in 1..n /\ d[1] = Flight[b + 1] /\ LengthAt(d[1]) \in Nat
      BY <1>1, <1>2, <1>3, <2>2
    <3>2. NoneWhole(b, e) => 1 + LengthAt(d[1]) > n + 1
      BY <1>1, <2>2, <3>1 DEF NoneWhole
    <3> QED BY <2>1, <3>1, <3>2 DEF Reading
  <2>3. CASE ~(b < e)
    <3>1. n = 0
      BY <1>1, <2>3
    <3> QED BY <2>1, <3>1 DEF Reading
  <2> QED BY <2>2, <2>3
<1> QED BY <1>4, <1>6, <1>7, <1>8 DEF d, n, N

-----------------------------------------------------------------------------
(* The flight begins with a message.                                       *)
LEMMA FlightBegins == Boundary(0) /\ HasHeader(Flight[1])
<1>1. PICK s : Layout(s)
  BY FlightLaidOut
<1>2. 1 \in 1..Count /\ 1 \in 1..MessageLengths[1]
  BY Lengths
<1>3. s[1] + 1 \in 1..Len(Flight) /\ Flight[s[1] + 1] = <<1, 1>> /\ s[1] = 0
  BY <1>1, <1>2 DEF Layout
<1>4. 0 + 1 = 1 /\ Flight[1] = <<1, 1>>
  BY <1>3
<1> QED BY <1>4, FlightIsSeq DEF Boundary, HasHeader

(* The units before the end of datagram c.                                 *)
EndOf(c) == IF c = 0 THEN 0 ELSE ends[c]

(* A cut goes through the whole flight in increasing order.                *)
LEMMA CutFacts ==
  ASSUME ends \in Cuts
  PROVE  /\ Len(ends) \in Nat \ {0} /\ ends \in Seq(Nat)
         /\ \A k \in Datagrams :
              /\ ends[k] \in 1..Len(Flight) /\ EndOf(k) = ends[k] /\ k - 1 \in 0..Len(ends)
              /\ First(ends, k) = EndOf(k - 1) + 1 /\ EndOf(k - 1) \in 0..ends[k] - 1
         /\ \A c \in 0..Len(ends) : EndOf(c) \in 0..Len(Flight)
<1>1. PICK n \in 1..Len(Flight) : ends \in [1..n -> 1..Len(Flight)]
  BY DEF Cuts
<1>2. Len(ends) = n /\ n \in Nat /\ ends \in Seq(Nat) /\ Len(Flight) \in Nat
  BY <1>1, FlightIsSeq, SMTT(30)
<1>3. \A k \in 1..n : ends[k] - First(ends, k) \in 0..MaxPayload - 1
  BY <1>2 DEF Cuts
<1>4. ASSUME NEW k \in 1..n
      PROVE  /\ ends[k] \in 1..Len(Flight) /\ EndOf(k) = ends[k] /\ k - 1 \in 0..n
             /\ First(ends, k) = EndOf(k - 1) + 1 /\ EndOf(k - 1) \in 0..ends[k] - 1
  <2>1. ends[k] \in 1..Len(Flight) /\ EndOf(k) = ends[k] /\ k - 1 \in 0..n
    BY <1>1 DEF EndOf
  <2>2. First(ends, k) = EndOf(k - 1) + 1 /\ EndOf(k - 1) \in Nat
    <3>1. CASE k = 1
      BY <3>1 DEF First, EndOf
    <3>2. CASE k # 1
      <4>1. k - 1 \in 1..n /\ k - 1 # 0
        BY <3>2
      <4>2. ends[k - 1] \in 1..Len(Flight)
        BY <1>1, <4>1
      <4> QED BY <3>2, <4>1, <4>2 DEF First, EndOf
    <3> QED BY <3>1, <3>2
  <2>3. ends[k] - First(ends, k) >= 0
    BY <1>3, SizesAssumption
  <2>4. EndOf(k - 1) \in 0..ends[k] - 1
    BY <2>1, <2>2, <2>3
  <2> QED BY <2>1, <2>2, <2>4
<1>5. ASSUME NEW c \in 0..n PROVE EndOf(c) \in 0..Len(Flight)
  <2>1. CASE c = 0
    BY <2>1, <1>2 DEF EndOf
  <2>2. CASE c # 0
    BY <2>2, <1>1 DEF EndOf
  <2> QED BY <2>1, <2>2
<1> QED BY <1>1, <1>2, <1>4, <1>5 DEF Datagrams

(* What waits, and a datagram that the property calls fitting, do fit.     *)
LEMMA Fitting ==
  ASSUME ends \in Cuts, NEW k \in Datagrams, HasRoom(k),
         NEW b, Boundary(b), b <= EndOf(k - 1), NoneWhole(b, EndOf(k - 1))
  PROVE  ends[k] - b <= CryptoSize
<1> DEFINE e == EndOf(k - 1)
           begun == {i \in 1..First(ends, k) : HasHeader(Flight[i])}
<1>1. /\ ends[k] \in 1..Len(Flight) /\ First(ends, k) = e + 1 /\ e \in 0..ends[k] - 1
      /\ b \in Nat /\ b < Len(Flight) /\ b <= e /\ Len(Flight) \in Nat
  <2>1. ends[k] \in 1..Len(Flight) /\ First(ends, k) = e + 1 /\ e \in 0..ends[k] - 1
    BY CutFacts
  <2>2. b \in Nat /\ Len(Flight) \in Nat
    BY FlightIsSeq DEF Boundary
  <2> HIDE DEF e
  <2>3. b <= e
    BY DEF e
  <2> QED BY <2>1, <2>2, <2>3
<1>2. PICK m \in 1..Count :
        /\ LengthAt(Flight[b + 1]) = MessageLengths[m]
        /\ \A p \in b + 2..b + MessageLengths[m] : ~HasHeader(Flight[p])
  BY <1>1, NextMessage
<1>3. b + 1 \in begun
  BY <1>1 DEF Boundary
<1>4. \A i \in begun : i <= b + 1
  <2> SUFFICES ASSUME NEW i \in 1..e + 1, HasHeader(Flight[i]), ~(i <= b + 1) PROVE FALSE
    BY <1>1
  <2>1. b < e
    BY <1>1
  <2>2. b + MessageLengths[m] > e /\ MessageLengths[m] \in Nat
    BY <1>2, <2>1, Lengths DEF NoneWhole
  <2>3. i \in b + 2..b + MessageLengths[m]
    BY <1>1, <2>2
  <2> QED BY <1>2, <2>3
<1>5. Max(begun) = b + 1
  <2>1. \A x \in begun : x \in Int
    OBVIOUS
  <2> HIDE DEF begun
  <2> QED BY <1>3, <1>4, <2>1 DEF Max
<1>6. ends[k] - Max(begun) < CryptoSize
  BY DEF HasRoom
<1> HIDE DEF begun, e
<1>7. ends[k] \in Int /\ b \in Int /\ CryptoSize \in Int
  BY <1>1, SizesAssumption
<1> QED BY <1>5, <1>6, <1>7

-----------------------------------------------------------------------------
(* What can be in crypto_data.                                             *)
Unit == {Flight[p] : p \in 1..Len(Flight)} \cup {ServerHelloUnit}

(* The types, with the bound on Retries that hello's type needs.           *)
HandshakeTypes ==
  /\ TypeOK
  /\ status = "running" => hello <= retry_count + 1 /\ retry_count <= 3
  /\ seen \in Seq(Nat)
  /\ crypto_data \in Seq(Unit)

(* Before the ServerHello nothing but the ClientHello has been hashed.     *)
BeforeKeys ==
  hs_keys = <<>> =>
    transcript = <<ClientHelloUnit(hello)>> /\ crypto_data = <<>> /\ seen = <<>>

(* The client has the flight up to the end of datagram c, and a message    *)
(* begins at b: what is before b is in the transcript, and what is after   *)
(* it waits.                                                               *)
Followed(c, b) ==
  /\ c \in 0..Len(ends)
  /\ \A i \in 1..Len(seen) : seen[i] <= c
  /\ c = 0 \/ \E i \in 1..Len(seen) : seen[i] = c
  /\ Boundary(b) /\ b <= EndOf(c) /\ NoneWhole(b, EndOf(c))
  /\ crypto_data = SubSeq(Flight, b + 1, EndOf(c))
  /\ transcript = hs_keys \o SubSeq(Flight, 1, b)
  /\ status = "done" => b = Len(Flight)

(* The inductive form of FlightIntact.                                     *)
Following == SameHandshakeKeys /\ InStep => \E c, b : Followed(c, b)

(* The server has answered no ClientHello but the first, and there are no  *)
(* keys before that.                                                       *)
OnlyTheFirst == answered <= 1 /\ (answered = 0 => hs_keys = <<>>)

(* The transcript begins with the latest ClientHello.                      *)
LatestHello ==
  transcript \in Seq(Int \X Nat) /\ transcript # <<>>
  /\ transcript[1] = ClientHelloUnit(hello)

(* A handle comes with keys the server has.                                *)
DoneWithKeys == status = "done" => SameHandshakeKeys

FlightInv ==
  /\ HandshakeTypes /\ OnlyTheFirst /\ LatestHello /\ DoneWithKeys
  /\ BeforeKeys /\ Following

(* It implies the property.                                                *)
LEMMA FlightInvIntact ==
  ASSUME FlightInv
  PROVE  FlightIntact
<1> SUFFICES ASSUME SameHandshakeKeys, InStep
             PROVE  /\ IsPrefix(transcript \o crypto_data, Agreed)
                    /\ Parse(crypto_data).used = 0
                    /\ status = "done" => transcript = Agreed
  BY DEF FlightIntact
<1>1. PICK c, b : Followed(c, b)
  BY DEF FlightInv, Following
<1> DEFINE e == EndOf(c)
           N == Len(Flight)
           Set == Int \X Nat
<1>2. /\ ends \in Cuts /\ MisreadOK /\ hs_keys \in Seq(Set) /\ Len(hs_keys) = 2
      /\ Agreed = hs_keys \o Flight
  <2>1. ends \in Cuts /\ MisreadOK /\ answered \in Int
    <3>1. TypeOK
      BY DEF FlightInv, HandshakeTypes
    <3>2. answered \in 0..hello /\ hello \in 1..4
      BY <3>1, Zenon DEF TypeOK
    <3>3. ends \in Cuts /\ MisreadOK
      BY <3>1, Zenon DEF TypeOK, MisreadOK
    <3> QED BY <3>2, <3>3
  <2> QED BY <2>1 DEF SameHandshakeKeys, Agreed, ClientHelloUnit, ServerHelloUnit
<1>3. e \in 0..N /\ b \in 0..e /\ N \in Nat /\ Flight \in Seq(Set)
  BY <1>1, <1>2, CutFacts, FlightIsSeq DEF Followed, Boundary
<1>4. /\ transcript \o crypto_data = hs_keys \o SubSeq(Flight, 1, e)
      /\ IsPrefix(hs_keys \o SubSeq(Flight, 1, e), hs_keys \o Flight)
  <2>1. transcript = hs_keys \o SubSeq(Flight, 1, b) /\ crypto_data = SubSeq(Flight, b + 1, e)
    BY <1>1 DEF Followed
  <2>2. hs_keys \in Seq(Set)
    BY <1>2
  <2> HIDE DEF e, Set
  <2> QED BY <1>3, <2>1, <2>2, PrefixGrows DEF N
<1>7. IsPrefix(transcript \o crypto_data, Agreed)
  BY <1>2, <1>4
<1>8. Parse(crypto_data).used = 0
  <2> DEFINE p == Parse(SubSeq(Flight, b + 1, e))
  <2>1. Boundary(b) /\ NoneWhole(b, e) /\ crypto_data = SubSeq(Flight, b + 1, e) /\ e \in b..N
    BY <1>1, <1>3 DEF Followed
  <2>2. MisreadOK
    BY <1>2
  <2> HIDE DEF e
  <2>3. p.used = 0
    BY <2>1, <2>2, ParseInStep
  <2> QED BY <2>1, <2>3
<1>9. status = "done" => transcript = Agreed
  <2> HAVE status = "done"
  <2>1. b = N /\ transcript = hs_keys \o SubSeq(Flight, 1, b)
    BY <1>1 DEF Followed
  <2>2. SubSeq(Flight, 1, N) = Flight
    BY <1>3, SubSeqFull
  <2> QED BY <1>2, <2>1, <2>2
<1> QED BY <1>7, <1>8, <1>9

-----------------------------------------------------------------------------
(* It holds at the start of an attempt.                                    *)
LEMMA FlightInit ==
  ASSUME Init
  PROVE  FlightInv
<1>1. OnlyTheFirst /\ LatestHello /\ DoneWithKeys
  <2>1. /\ answered = 0 /\ hs_keys = <<>> /\ status = "running" /\ hello = 1
        /\ transcript = <<ClientHelloUnit(1)>>
    BY DEF Init
  <2> QED BY <2>1 DEF OnlyTheFirst, LatestHello, DoneWithKeys, ClientHelloUnit
<1>2. HandshakeTypes
  <2>1. crypto_data \in Seq(Unit) /\ seen \in Seq(Nat) /\ Len(crypto_data) <= CryptoSize
    BY SizesAssumption DEF Init
  <2>2. misread \in [Headless -> Nat \ {0}]
    BY FlightIsSeq DEF Init
  <2>3. TypeOK
    BY <2>1, <2>2 DEF Init, TypeOK
  <2> QED BY <2>1, <2>3 DEF Init, HandshakeTypes
<1>3. BeforeKeys
  BY DEF Init, BeforeKeys
<1>4. Following
  BY DEF Init, Following, SameHandshakeKeys
<1> QED BY <1>1, <1>2, <1>3, <1>4 DEF FlightInv

(* Two hellos are not none.                                                *)
LEMMA TwoHellos == \A v, w : <<v, w>> # <<>>
  OBVIOUS

(* A step that neither processes a datagram nor gets keys nor sends a new  *)
(* ClientHello.                                                            *)
LEMMA FlightUnchanged ==
  ASSUME FlightInv, HandshakeTypes', status' = status \/ status' = "failed",
         UNCHANGED <<ends, misread, hello, hs_keys, crypto_data, transcript, seen>>,
         answered' = answered \/ (answered = 0 /\ answered' = 1)
  PROVE  FlightInv'
<1>1. OnlyTheFirst /\ LatestHello /\ DoneWithKeys /\ BeforeKeys /\ Following
  BY DEF FlightInv
<1>2. OnlyTheFirst' /\ LatestHello'
  BY <1>1 DEF OnlyTheFirst, LatestHello
<1>3. BeforeKeys'
  BY <1>1 DEF BeforeKeys
<1>4. answered' = answered \/ hs_keys = <<>>
  BY <1>1 DEF OnlyTheFirst
<1>5. DoneWithKeys'
  BY <1>1, <1>4, TwoHellos DEF DoneWithKeys, SameHandshakeKeys
<1>6. Following'
  <2> SUFFICES ASSUME SameHandshakeKeys', InStep' PROVE \E c, b : Followed(c, b)'
    BY DEF Following
  <2>1. hs_keys # <<>>
    BY TwoHellos DEF SameHandshakeKeys
  <2>2. SameHandshakeKeys /\ InStep
    BY <1>4, <2>1 DEF SameHandshakeKeys, InStep, NextInLine, HasRoom, Datagrams
  <2>3. PICK c, b : Followed(c, b)
    BY <1>1, <2>2 DEF Following
  <2>4. Followed(c, b)'
    BY <2>3 DEF Followed, EndOf, NoneWhole, LengthAt
  <2> QED BY <2>4
<1> QED BY <1>2, <1>3, <1>5, <1>6 DEF FlightInv

(* Being in step is lost once and for all.                                 *)
LEMMA InStepBefore ==
  ASSUME seen \in Seq(Nat), NEW k \in Nat, seen' = Append(seen, k), ends' = ends, InStep',
         UNCHANGED <<hello, answered>>
  PROVE  /\ InStep
         /\ k # 0 => HasRoom(k) /\ (\A j \in 1..Len(seen) : seen[j] < k)
                     /\ (k = 1 \/ \E j \in 1..Len(seen) : seen[j] = k - 1)
         /\ k = 0 => \A i \in Datagrams :
                       ends[i] < Len(Flight) => HasHeader(Flight[ends[i] + 1])
<1> DEFINE n == Len(seen)
<1>1. /\ n \in Nat /\ Len(seen') = n + 1 /\ seen'[n + 1] = k
      /\ \A i \in 1..n : seen'[i] = seen[i] /\ i \in 1..n + 1
  OBVIOUS
<1>2. \A i \in 1..n + 1 : seen'[i] # 0 =>
        /\ HasRoom(seen'[i])
        /\ \A j \in 1..i - 1 : seen'[j] < seen'[i]
        /\ seen'[i] = 1 \/ \E j \in 1..i - 1 : seen'[j] = seen'[i] - 1
  BY <1>1 DEF InStep, NextInLine, HasRoom
<1>3. (\E i \in 1..n + 1 : seen'[i] = 0) =>
        \A i \in Datagrams : ends[i] < Len(Flight) => HasHeader(Flight[ends[i] + 1])
  BY <1>1 DEF InStep, Contains, Datagrams
<1> HIDE DEF n
<1>4. InStep
  <2>1. ASSUME NEW i \in 1..n, seen[i] # 0 PROVE NextInLine(i) /\ HasRoom(seen[i])
    <3>1. seen'[i] = seen[i] /\ i \in 1..n + 1 /\ i \in Nat /\ \A j \in 1..i - 1 : j \in 1..n
      BY <1>1
    <3>2. \A j \in 1..i - 1 : seen'[j] = seen[j]
      BY <1>1, <3>1
    <3> QED BY <2>1, <3>1, <3>2, <1>2 DEF NextInLine
  <2>2. Contains(seen, 0) =>
          \A i \in Datagrams : ends[i] < Len(Flight) => HasHeader(Flight[ends[i] + 1])
    BY <1>1, <1>3 DEF Contains, n
  <2>3. hello = answered
    BY DEF InStep
  <2> QED BY <2>1, <2>2, <2>3 DEF InStep, n
<1>5. n + 1 \in 1..n + 1 /\ (n + 1) - 1 = n
  BY <1>1
<1>6. \A j \in 1..n : seen'[j] = seen[j]
  BY <1>1
<1> QED BY <1>1, <1>2, <1>3, <1>4, <1>5, <1>6 DEF n

-----------------------------------------------------------------------------
(* The flight is made of units.                                            *)
LEMMA FlightOfUnits == Flight \in Seq(Unit)
<1>1. Flight \in [1..Len(Flight) -> Nat \X Nat] /\ Len(Flight) \in Nat
  BY FlightIsSeq
<1>2. \A p \in 1..Len(Flight) : Flight[p] \in Unit
  BY DEF Unit
<1>3. Flight \in [1..Len(Flight) -> Unit]
  BY <1>1, <1>2
<1> QED BY <1>1, <1>3

(* The last CRYPTO frame that ends at unit i of datagram k or before.      *)
LEMMA LastFrameIs ==
  ASSUME ends \in Cuts, frames \in FrameCuts(ends), NEW k \in Datagrams
  PROVE  LET e == EndOf(k - 1)
         IN /\ LastFrame(k, e) = e
            /\ \A i \in e + 1..ends[k] :
                 LastFrame(k, i) = IF i \in frames THEN i ELSE LastFrame(k, i - 1)
            /\ ends[k] \in frames
            /\ \A i \in e..ends[k] : LastFrame(k, i) \in e..i
<1> DEFINE e == EndOf(k - 1)
           upto(i) == {First(ends, k) - 1} \cup (frames \cap First(ends, k)..i)
<1>1. /\ First(ends, k) = e + 1 /\ First(ends, k) - 1 = e /\ e \in Nat /\ ends[k] \in Nat
      /\ e < ends[k]
  <2>1. First(ends, k) = e + 1 /\ e \in 0..ends[k] - 1 /\ ends[k] \in 1..Len(Flight)
    BY CutFacts
  <2> HIDE DEF e
  <2> QED BY <2>1, FlightIsSeq
<1> HIDE DEF e
<1>2. LastFrame(k, e) = e
  <2>1. upto(e) = {e}
    BY <1>1
  <2>2. Max({e}) = e
    BY <1>1 DEF Max
  <2> QED BY <2>1, <2>2 DEF LastFrame
<1>3. ASSUME NEW i \in e + 1..ends[k]
      PROVE  LastFrame(k, i) = IF i \in frames THEN i ELSE LastFrame(k, i - 1)
  <2>1. CASE i \in frames
    <3>1. i \in upto(i) /\ \A j \in upto(i) : j \in Int /\ j <= i
      <4>1. upto(i) = {e} \cup (frames \cap e + 1..i)
        BY <1>1
      <4>2. i \in e + 1..i /\ e \in Int /\ e <= i /\ \A j \in e + 1..i : j \in Int /\ j <= i
        BY <1>1
      <4> HIDE DEF upto
      <4> QED BY <2>1, <4>1, <4>2
    <3> DEFINE T == upto(i)
    <3>2. i \in T /\ \A j \in T : j \in Int /\ j <= i
      BY <3>1
    <3> HIDE DEF upto, T
    <3>3. \A x \in T : (\A y \in T : x >= y) <=> x = i
      BY <3>2
    <3>4. Max(T) = i
      BY <3>2, <3>3, Zenon DEF Max
    <3> QED BY <2>1, <3>4 DEF LastFrame, T, upto
  <2>2. CASE i \notin frames
    <3>1. upto(i) = upto(i - 1)
      BY <1>1, <2>2
    <3> QED BY <2>2, <3>1 DEF LastFrame
  <2> QED BY <2>1, <2>2
<1>4. ends[k] \in frames
  <2>1. ends[k] \in Range(ends) /\ Range(ends) \subseteq frames
    <3>1. k \in DOMAIN ends
      BY CutFacts DEF Datagrams
    <3> QED BY <3>1 DEF Range, FrameCuts
  <2> QED BY <2>1
<1>5. ASSUME NEW i \in e..ends[k] PROVE LastFrame(k, i) \in e..i
  <2> DEFINE T == {e} \cup (frames \cap e + 1..i)
  <2>1. e \in T /\ T \in SUBSET Nat /\ T # {} /\ i \in Nat /\ \A j \in T : j <= i /\ j \in e..i
    BY <1>1
  <2>2. LastFrame(k, i) = Max(T)
    BY <1>1 DEF LastFrame
  <2> HIDE DEF T
  <2>3. \E x \in T : \A y \in T : y <= x
    BY <2>1, GreatestNumber
  <2>4. \E x \in T : \A y \in T : x >= y
    BY <2>1, <2>3
  <2>5. Max(T) \in T
    BY <2>4, Zenon DEF Max
  <2> QED BY <2>1, <2>2, <2>5, Zenon
<1> QED BY <1>2, <1>3, <1>4, <1>5 DEF e

(* One frame: what has been extracted before unit i, and after it.         *)
WithFrame(k, room, i, v) ==
  IF i < First(ends, k) THEN <<>>
  ELSE IF i \in frames /\ Len(v) + Len(SubSeq(Flight, LastFrame(k, i - 1) + 1, i)) <= room
       THEN v \o SubSeq(Flight, LastFrame(k, i - 1) + 1, i)
       ELSE v

(* The lemma Recursion as an implication.                                  *)
Steps(V, first, n, step) ==
  \E g \in [0..n -> V] : g[0] = first /\ \A i \in 1..n : g[i] = step[i][g[i - 1]]

LEMMA RecursionIf ==
  ASSUME NEW V, NEW first, NEW n, NEW step
  PROVE  first \in V /\ n \in Nat /\ step \in [1..n -> [V -> V]] => Steps(V, first, n, step)
BY Recursion DEF Steps

(* Extraction goes frame by frame.                                         *)
LEMMA ExtractedBy ==
  ASSUME ends \in Cuts, frames \in FrameCuts(ends), NEW k \in Datagrams,
         crypto_data \in Seq(Unit), Len(crypto_data) <= CryptoSize
  PROVE  LET room == CryptoSize - Len(crypto_data)
         IN \E w : /\ Extracted(k) = w[ends[k]]
                   /\ w[0] = <<>>
                   /\ \A i \in 1..ends[k] : w[i] = WithFrame(k, room, i, w[i - 1])
                   /\ \A i \in 0..ends[k] : w[i] \in Seq(Unit) /\ Len(w[i]) <= room
<1> DEFINE n == ends[k]
           e == EndOf(k - 1)
           room == CryptoSize - Len(crypto_data)
           frame(i) == SubSeq(Flight, LastFrame(k, i - 1) + 1, i)
           Body(g) == [i \in 0..n |->
                         IF i < First(ends, k) THEN <<>>
                         ELSE IF i \in frames /\ Len(g[i - 1]) + Len(frame(i)) <= room
                              THEN g[i - 1] \o frame(i)
                              ELSE g[i - 1]]
           w == CHOOSE g : g = Body(g)
           V == {v \in Seq(Unit) : Len(v) <= room}
           step == [i \in 1..n |-> [v \in V |-> WithFrame(k, room, i, v)]]
<1>1. Extracted(k) = w[n]
  BY DEF Extracted
<1>2. /\ n \in 1..Len(Flight) /\ n \in Nat /\ First(ends, k) = e + 1 /\ e \in 0..n - 1
      /\ room \in Nat /\ Len(Flight) \in Nat
  <2>1. n \in 1..Len(Flight) /\ First(ends, k) = e + 1 /\ e \in 0..n - 1
    BY CutFacts
  <2>2. Len(Flight) \in Nat /\ Len(crypto_data) \in Nat /\ CryptoSize \in Nat
    BY FlightIsSeq, SizesAssumption
  <2> HIDE DEF e
  <2> QED BY <2>1, <2>2
<1> DEFINE none == <<>>
<1>3. none \in V
  <2> HIDE DEF room
  <2>1. none \in Seq(Unit) /\ Len(none) <= room
    BY <1>2
  <2> HIDE DEF none
  <2> QED BY <2>1, Zenon
<1>4. ASSUME NEW i \in 1..n, ~(i < First(ends, k)) PROVE frame(i) \in Seq(Unit)
  <2> DEFINE m == LastFrame(k, i - 1) + 1
  <2>1. i - 1 \in e..n
    BY <1>2, <1>4
  <2>2. LastFrame(k, i - 1) \in e..i - 1
    BY <2>1, LastFrameIs
  <2>3. m \in Nat \ {0} /\ i \in 0..Len(Flight) /\ m <= i + 1
    BY <1>2, <2>2
  <2> HIDE DEF m
  <2>4. SubSeq(Flight, m, i) \in Seq(Unit)
    BY <2>3, FlightOfUnits, Part
  <2> QED BY <2>4 DEF m
<1>5. ASSUME NEW i \in 1..n, NEW v \in V PROVE WithFrame(k, room, i, v) \in V
  <2> DEFINE g == frame(i)
  <2>1. ~(i < First(ends, k)) => g \in Seq(Unit)
    BY <1>4
  <2>2. WithFrame(k, room, i, v) =
          IF i < First(ends, k) THEN <<>>
          ELSE IF i \in frames /\ Len(v) + Len(g) <= room THEN v \o g ELSE v
    BY DEF WithFrame
  <2>3. ~(i < First(ends, k)) => v \o g \in Seq(Unit) /\ Len(v \o g) = Len(v) + Len(g)
    <3> HIDE DEF g
    <3> QED BY <2>1, ConcatProperties
  <2> HIDE DEF g, room
  <2> QED BY <1>3, <2>2, <2>3
<1>6. step \in [1..n -> [V -> V]]
  BY <1>5
<1> HIDE DEF V, n
<1>7. PICK g \in [0..n -> V] : g[0] = <<>> /\ \A i \in 1..n : g[i] = step[i][g[i - 1]]
  <2> HIDE DEF step, none
  <2>1. Steps(V, none, n, step)
    BY <1>2, <1>3, <1>6, RecursionIf, Zenon
  <2> QED BY <2>1 DEF Steps, none
<1>8. ASSUME NEW i \in 1..n PROVE g[i] = WithFrame(k, room, i, g[i - 1])
  <2>1. i - 1 \in 0..n
    BY <1>2
  <2>2. g[i - 1] \in V
    BY <2>1
  <2> QED BY <1>7, <2>2
<1>9. g = Body(g)
  <2>1. ASSUME NEW i \in 0..n PROVE g[i] = Body(g)[i]
    <3>1. CASE i = 0
      <4>1. 0 < First(ends, k)
        BY <1>2
      <4> QED BY <1>7, <3>1, <4>1
    <3>2. CASE i # 0
      <4>1. i \in 1..n
        BY <1>2, <3>2
      <4>2. g[i] = WithFrame(k, room, i, g[i - 1])
        BY <1>8, <4>1
      <4> HIDE DEF room
      <4> QED BY <4>2 DEF WithFrame
    <3> QED BY <3>1, <3>2
  <2> HIDE DEF room
  <2> QED BY <2>1
<1>10. w = Body(w)
  <2> HIDE DEF Body
  <2> QED BY <1>9
<1>11. w[0] = <<>> /\ \A i \in 1..n : w[i] = WithFrame(k, room, i, w[i - 1])
  <2>1. 0 \in 0..n /\ 0 < First(ends, k) /\ \A i \in 1..n : i \in 0..n
    BY <1>2
  <2>2. ASSUME NEW i \in 0..n PROVE w[i] = Body(w)[i]
    <3> HIDE DEF w, Body
    <3> QED BY <1>10
  <2>3. w[0] = <<>>
    <3>1. Body(w)[0] = <<>>
      <4> HIDE DEF w, room
      <4> QED BY <2>1
    <3> HIDE DEF w, Body
    <3> QED BY <2>1, <2>2, <3>1
  <2>4. ASSUME NEW i \in 1..n PROVE w[i] = WithFrame(k, room, i, w[i - 1])
    <3>1. Body(w)[i] = WithFrame(k, room, i, w[i - 1])
      <4> HIDE DEF w, room
      <4> QED BY <2>1 DEF WithFrame
    <3> HIDE DEF w, Body
    <3> QED BY <2>1, <2>2, <3>1
  <2> HIDE DEF w
  <2> QED BY <2>3, <2>4
<1> HIDE DEF w
<1> DEFINE T == {i \in Nat : i <= n => w[i] \in V}
<1>12. 0 \in T
  BY <1>3, <1>11
<1>13. ASSUME NEW i \in T PROVE i + 1 \in T
  <2>1. CASE i + 1 <= n
    <3>1. i \in Nat /\ i + 1 \in 1..n /\ (i + 1) - 1 = i /\ w[i] \in V
      BY <1>2, <2>1
    <3>2. w[i + 1] = WithFrame(k, room, i + 1, w[i])
      <4> HIDE DEF room
      <4> QED BY <1>11, <3>1
    <3>3. w[i + 1] \in V
      BY <1>5, <3>1, <3>2
    <3> QED BY <3>1, <3>3
  <2>2. CASE ~(i + 1 <= n)
    BY <2>2
  <2> QED BY <2>1, <2>2
<1>14. T = Nat
  <2>1. T \in SUBSET Nat
    OBVIOUS
  <2> HIDE DEF T
  <2> QED BY <1>12, <1>13, <2>1, SetInduction
<1>15. \A i \in 0..n : w[i] \in Seq(Unit) /\ Len(w[i]) <= room
  <2>1. ASSUME NEW i \in 0..n PROVE w[i] \in V
    <3>1. i \in Nat /\ i <= n
      BY <1>2
    <3> QED BY <3>1, <1>14
  <2> HIDE DEF room
  <2> QED BY <2>1 DEF V
<1> HIDE DEF room
<1> QED BY <1>1, <1>11, <1>15 DEF n, room

(* What is appended to crypto_data fits.                                   *)
LEMMA ExtractedFits ==
  ASSUME ends \in Cuts, frames \in FrameCuts(ends), NEW k \in Datagrams,
         crypto_data \in Seq(Unit), Len(crypto_data) <= CryptoSize
  PROVE  Extracted(k) \in Seq(Unit) /\ Len(crypto_data) + Len(Extracted(k)) <= CryptoSize
<1> DEFINE n == ends[k]
           room == CryptoSize - Len(crypto_data)
<1>1. n \in 0..n
  <2>1. n \in 1..Len(Flight)
    BY CutFacts
  <2> HIDE DEF n
  <2> QED BY <2>1, FlightIsSeq
<1>2. Extracted(k) \in Seq(Unit) /\ Len(Extracted(k)) <= room
  <2> HIDE DEF room
  <2>1. PICK w : Extracted(k) = w[n] /\ \A i \in 0..n : w[i] \in Seq(Unit) /\ Len(w[i]) <= room
    BY ExtractedBy DEF room
  <2> HIDE DEF n
  <2> QED BY <1>1, <2>1
<1>3. Len(Extracted(k)) \in Nat /\ Len(crypto_data) \in Nat /\ CryptoSize \in Nat
  BY <1>2, SizesAssumption
<1> QED BY <1>2, <1>3

(* With room for the whole datagram every frame of it is extracted.        *)
LEMMA ExtractedWhole ==
  ASSUME ends \in Cuts, frames \in FrameCuts(ends), NEW k \in Datagrams,
         crypto_data \in Seq(Unit), Len(crypto_data) <= CryptoSize,
         Len(crypto_data) + (ends[k] - EndOf(k - 1)) <= CryptoSize
  PROVE  Extracted(k) = SubSeq(Flight, EndOf(k - 1) + 1, ends[k])
<1> DEFINE n == ends[k]
           e == EndOf(k - 1)
           room == CryptoSize - Len(crypto_data)
           last(i) == LastFrame(k, i)
<1>1. /\ n \in Nat /\ n <= Len(Flight) /\ First(ends, k) = e + 1 /\ e \in 0..n - 1
      /\ Len(Flight) \in Nat
  <2>1. n \in 1..Len(Flight) /\ First(ends, k) = e + 1 /\ e \in 0..n - 1
    BY CutFacts
  <2> HIDE DEF e, n
  <2> QED BY <2>1, FlightIsSeq
<1>2. n - e <= room /\ room \in Int
  <2>1. Len(crypto_data) \in Nat /\ CryptoSize \in Nat /\ e \in Nat
    BY <1>1, SizesAssumption
  <2>2. Len(crypto_data) + (n - e) <= CryptoSize
    OBVIOUS
  <2> HIDE DEF e, n
  <2> QED BY <2>1, <2>2, <1>1
<1>3. /\ last(e) = e /\ n \in frames
      /\ \A i \in e + 1..n : last(i) = IF i \in frames THEN i ELSE last(i - 1)
  BY LastFrameIs
<1>4. PICK w : /\ Extracted(k) = w[n]
               /\ w[0] = <<>>
               /\ \A i \in 1..n : w[i] = WithFrame(k, room, i, w[i - 1])
  BY ExtractedBy
<1> DEFINE Fine(i) == last(i) \in e..i /\ w[i] = SubSeq(Flight, e + 1, last(i))
           T == {j \in Nat : e + j <= n => Fine(e + j)}
<1> HIDE DEF n, e, room, last
<1>5. w[e] = <<>>
  <2>1. CASE e = 0
    BY <2>1, <1>4
  <2>2. CASE e # 0
    <3>1. e \in 1..n /\ e < First(ends, k)
      BY <1>1, <2>2
    <3> QED BY <1>4, <3>1 DEF WithFrame
  <2> QED BY <2>1, <2>2
<1>6. 0 \in T
  <2>1. e + 0 = e /\ e \in e..e
    BY <1>1
  <2>2. SubSeq(Flight, e + 1, e) = <<>>
    BY <1>1, FlightIsSeq
  <2>3. Fine(e)
    BY <1>3, <1>5, <2>1, <2>2
  <2> HIDE DEF Fine
  <2> QED BY <2>1, <2>3
<1>7. ASSUME NEW j \in T PROVE j + 1 \in T
  <2>0. SUFFICES ASSUME j \in Nat, e + j <= n => Fine(e + j), e + (j + 1) <= n
                 PROVE  Fine(e + (j + 1))
    <3> HIDE DEF Fine
    <3> QED OBVIOUS
  <2>1. PICK i \in Nat : i = e + (j + 1)
    BY <1>1, <2>0
  <2>2. i \in e + 1..n /\ i \in 1..n /\ i - 1 = e + j /\ e + j <= n /\ i - 1 \in e..n
    BY <1>1, <2>0, <2>1
  <2>3. last(i - 1) \in e..i - 1 /\ w[i - 1] = SubSeq(Flight, e + 1, last(i - 1))
    BY <2>0, <2>2
  <2>4. w[i] = WithFrame(k, room, i, w[i - 1]) /\ ~(i < First(ends, k))
    BY <1>1, <1>4, <2>2
  <2>5. CASE i \in frames
    <3> DEFINE m == last(i - 1)
    <3>1. last(i) = i
      BY <1>3, <2>2, <2>5
    <3>2. /\ e + 1 \in 1..Len(Flight) + 1 /\ m \in (e + 1) - 1..Len(Flight)
          /\ i \in m..Len(Flight) /\ m \in Nat /\ m + 1 \in Nat \ {0} /\ e + 1 \in Nat \ {0}
          /\ i \in 0..Len(Flight) /\ m + 1 <= i + 1 /\ m \in 0..Len(Flight) /\ e + 1 <= m + 1
      BY <1>1, <2>2, <2>3
    <3> HIDE DEF m
    <3>3. SubSeq(Flight, e + 1, m) \o SubSeq(Flight, m + 1, i) = SubSeq(Flight, e + 1, i)
      <4> DEFINE a == e + 1
      <4>1. a \in 1..Len(Flight) + 1 /\ m \in a - 1..Len(Flight) /\ i \in m..Len(Flight)
        BY <3>2
      <4> HIDE DEF a
      <4>2. SubSeq(Flight, a, m) \o SubSeq(Flight, m + 1, i) = SubSeq(Flight, a, i)
        BY <4>1, FlightIsSeq, ConcatAdjacentSubSeq
      <4> QED BY <4>2 DEF a
    <3>4. Len(SubSeq(Flight, e + 1, m)) = m - (e + 1) + 1
      <4> DEFINE a == e + 1
      <4>1. a \in Nat \ {0} /\ m \in 0..Len(Flight) /\ a <= m + 1
        BY <3>2
      <4> HIDE DEF a
      <4>2. Len(SubSeq(Flight, a, m)) = m - a + 1
        BY <4>1, FlightIsSeq, Part
      <4> QED BY <4>2 DEF a
    <3>5. Len(SubSeq(Flight, m + 1, i)) = i - (m + 1) + 1
      <4> DEFINE a == m + 1
      <4>1. a \in Nat \ {0} /\ i \in 0..Len(Flight) /\ a <= i + 1
        BY <3>2
      <4> HIDE DEF a
      <4>2. Len(SubSeq(Flight, a, i)) = i - a + 1
        BY <4>1, FlightIsSeq, Part
      <4> QED BY <4>2 DEF a
    <3>6. Len(w[i - 1]) + Len(SubSeq(Flight, m + 1, i)) <= room
      <4>1. w[i - 1] = SubSeq(Flight, e + 1, m)
        BY <2>3 DEF m
      <4>2. (m - (e + 1) + 1) + (i - (m + 1) + 1) <= room
        BY <1>1, <1>2, <2>2, <3>2
      <4> QED BY <3>4, <3>5, <4>1, <4>2
    <3>7. w[i] = w[i - 1] \o SubSeq(Flight, m + 1, i)
      BY <2>4, <2>5, <3>6 DEF WithFrame, m, last
    <3>8. Fine(i)
      <4>1. w[i - 1] = SubSeq(Flight, e + 1, m)
        BY <2>3 DEF m
      <4>2. w[i] = SubSeq(Flight, e + 1, i)
        BY <3>3, <3>7, <4>1
      <4>3. i \in e..i
        BY <1>1, <2>2
      <4> QED BY <3>1, <4>2, <4>3
    <3> HIDE DEF Fine
    <3> QED BY <2>1, <3>8
  <2>6. CASE i \notin frames
    <3>1. last(i) = last(i - 1)
      BY <1>3, <2>2, <2>6
    <3>2. w[i] = w[i - 1]
      BY <2>4, <2>6 DEF WithFrame
    <3>3. last(i) \in e..i
      BY <1>1, <2>2, <2>3, <3>1
    <3>4. Fine(i)
      BY <2>3, <3>1, <3>2, <3>3
    <3> HIDE DEF Fine
    <3> QED BY <2>1, <3>4
  <2> QED BY <2>5, <2>6
<1>8. T = Nat
  <2>1. T \in SUBSET Nat
    OBVIOUS
  <2> HIDE DEF T
  <2> QED BY <1>6, <1>7, <2>1, SetInduction
<1>9. Fine(n)
  <2>1. n - e \in Nat /\ e + (n - e) = n
    BY <1>1
  <2>2. n - e \in T
    BY <1>8, <2>1
  <2>3. e + (n - e) <= n => Fine(e + (n - e))
    <3> HIDE DEF Fine
    <3> QED BY <2>2
  <2> HIDE DEF Fine
  <2> QED BY <2>1, <2>3, <1>1
<1>10. last(n) = n
  <2>1. n \in e + 1..n
    BY <1>1
  <2> QED BY <1>3, <2>1
<1>11. Extracted(k) = SubSeq(Flight, e + 1, n)
  BY <1>4, <1>9, <1>10
<1> QED BY <1>11 DEF n, e

(* No length the parser finds in crypto_data is zero.                      *)
LEMMA UnitsPositive ==
  ASSUME MisreadOK, NEW d \in Seq(Unit), NEW i \in 1..Len(d)
  PROVE  LengthAt(d[i]) \in Nat \ {0}
<1>1. d[i] \in Unit
  OBVIOUS
<1>2. CASE d[i] = ServerHelloUnit
  BY <1>2 DEF LengthAt
<1>3. CASE \E p \in 1..Len(Flight) : d[i] = Flight[p]
  BY <1>3, UnitLengths
<1> QED BY <1>1, <1>2, <1>3 DEF Unit

(* A datagram, in step or not, keeps the types; in particular crypto_data  *)
(* never holds more than CryptoSize.                                       *)
LEMMA DatagramTypes ==
  ASSUME FlightInv, NEW k \in Datagrams, ReceiveHandshake(k)
  PROVE  HandshakeTypes' /\ OnlyTheFirst' /\ LatestHello' /\ DoneWithKeys'
<1> DEFINE d == crypto_data \o Extracted(k)
           p == Parse(d)
<1>1. /\ TypeOK /\ seen \in Seq(Nat) /\ crypto_data \in Seq(Unit)
      /\ status = "running" /\ hello <= retry_count + 1 /\ retry_count <= 3
      /\ OnlyTheFirst /\ LatestHello /\ SameHandshakeKeys
  BY DEF FlightInv, HandshakeTypes, ReceiveHandshake
<1>2. /\ ends \in Cuts /\ frames \in FrameCuts(ends) /\ MisreadOK
      /\ Len(crypto_data) <= CryptoSize
  BY <1>1, Zenon DEF TypeOK, MisreadOK
<1>3. /\ status' \in {"running", "done"} /\ crypto_data' = SubSeq(d, p.used + 1, Len(d))
      /\ transcript' = transcript \o SubSeq(d, 1, p.used)
      /\ seen' = Append(seen, k)
      /\ UNCHANGED <<orderly, ends, frames, misread, answered, hello, dcid, retry_count,
                     hs_keys>>
  BY <1>1 DEF ReceiveHandshake, serverVars, helloVars
<1>4. d \in Seq(Unit) /\ Len(d) \in Nat /\ Len(d) <= CryptoSize
  <2>1. Extracted(k) \in Seq(Unit) /\ Len(crypto_data) + Len(Extracted(k)) <= CryptoSize
    BY <1>1, <1>2, ExtractedFits
  <2> QED BY <1>1, <2>1, ConcatProperties
<1> HIDE DEF d
<1>5. p.used \in 0..Len(d)
  BY <1>2, <1>4, UnitsPositive, ParseUses
<1>6. crypto_data' \in Seq(Unit) /\ Len(crypto_data') <= CryptoSize
  <2> DEFINE m == p.used + 1
             n == Len(d)
  <2>1. m \in Nat \ {0} /\ n \in 0..Len(d) /\ m <= n + 1 /\ n - m + 1 <= n /\ n - m + 1 \in Nat
    BY <1>4, <1>5
  <2>2. SubSeq(d, m, n) \in Seq(Unit) /\ Len(SubSeq(d, m, n)) = n - m + 1
    <3> HIDE DEF m, n, p
    <3> QED BY <1>4, <2>1, Part
  <2> QED BY <1>3, <1>4, <2>1, <2>2, SizesAssumption
<1>7. seen' \in Seq(Nat)
  <2>1. k \in Nat
    BY <1>2, CutFacts DEF Datagrams
  <2> QED BY <1>1, <1>3, <2>1
<1>8. TypeOK'
  BY <1>1, <1>3, <1>6 DEF TypeOK
<1>9. LatestHello'
  <2> DEFINE t == SubSeq(d, 1, p.used)
             S == Int \X Nat
  <2>1. Unit \subseteq S
    BY FlightIsSeq DEF Unit, ServerHelloUnit
  <2>2. t \in Seq(Unit)
    <3> HIDE DEF p
    <3> QED BY <1>4, <1>5
  <2>3. t \in Seq(S)
    <3> HIDE DEF t, S
    <3> QED BY <2>1, <2>2
  <2>4. transcript \in Seq(S) /\ Len(transcript) \in Nat \ {0}
        /\ transcript[1] = ClientHelloUnit(hello)
    BY <1>1 DEF LatestHello
  <2> HIDE DEF t, S
  <2>5. transcript \o t \in Seq(S) /\ (transcript \o t)[1] = transcript[1]
        /\ Len(transcript \o t) # 0
    BY <2>3, <2>4, ConcatProperties
  <2>6. transcript \o t # <<>>
    BY <2>5
  <2>7. transcript' = transcript \o t
    BY <1>3 DEF t
  <2> QED BY <1>3, <2>4, <2>5, <2>6, <2>7 DEF LatestHello, S
<1>10. OnlyTheFirst' /\ DoneWithKeys'
  BY <1>1, <1>3 DEF OnlyTheFirst, DoneWithKeys, SameHandshakeKeys
<1> QED BY <1>1, <1>3, <1>6, <1>7, <1>8, <1>9, <1>10 DEF HandshakeTypes

(* A datagram in step: it is the next one, it fits, and the parser moves b *)
(* to the last boundary in what has come.                                  *)
LEMMA DatagramFollows ==
  ASSUME FlightInv, NEW k \in Datagrams, ReceiveHandshake(k)
  PROVE  Following'
<1> SUFFICES ASSUME InStep' PROVE \E c, b : Followed(c, b)'
  BY DEF Following
<1> DEFINE N == Len(Flight)
<1>1. /\ ends \in Cuts /\ MisreadOK /\ seen \in Seq(Nat) /\ k \in Nat \ {0}
      /\ N \in Nat /\ k \in 1..Len(ends) /\ k \in 0..Len(ends)
      /\ frames \in FrameCuts(ends) /\ crypto_data \in Seq(Unit)
      /\ Len(crypto_data) <= CryptoSize
  <2>1. TypeOK /\ seen \in Seq(Nat) /\ crypto_data \in Seq(Unit)
    BY DEF FlightInv, HandshakeTypes
  <2>2. /\ ends \in Cuts /\ MisreadOK /\ frames \in FrameCuts(ends)
        /\ Len(crypto_data) <= CryptoSize
    BY <2>1, Zenon DEF TypeOK, MisreadOK
  <2> QED BY <2>1, <2>2, CutFacts, FlightIsSeq DEF Datagrams
<1>2. /\ SameHandshakeKeys /\ status = "running" /\ seen' = Append(seen, k)
      /\ UNCHANGED <<ends, misread, hs_keys, hello, answered>>
  BY DEF ReceiveHandshake, serverVars, helloVars
<1>3. InStep /\ HasRoom(k) /\ (\A j \in 1..Len(seen) : seen[j] < k)
      /\ (k = 1 \/ \E j \in 1..Len(seen) : seen[j] = k - 1)
  BY <1>1, <1>2, InStepBefore
<1>4. PICK c, b : Followed(c, b)
  BY <1>2, <1>3 DEF FlightInv, Following
<1>5. c = k - 1
  <2>1. /\ c \in Nat /\ \A i \in 1..Len(seen) : seen[i] <= c
        /\ c = 0 \/ \E i \in 1..Len(seen) : seen[i] = c
    BY <1>1, <1>4, CutFacts DEF Followed
  <2>2. c < k
    BY <1>1, <1>3, <2>1
  <2>3. k - 1 <= c
    BY <1>1, <1>3, <2>1
  <2> QED BY <1>1, <2>1, <2>2, <2>3
<1> DEFINE e == EndOf(k - 1)
           f == ends[k]
           d == SubSeq(Flight, b + 1, f)
           p == Parse(d)
<1>6. /\ Boundary(b) /\ b \in Nat /\ e \in 0..f - 1 /\ f \in 1..N /\ EndOf(k) = f
      /\ b <= e /\ NoneWhole(b, e) /\ crypto_data = SubSeq(Flight, b + 1, e)
      /\ transcript = hs_keys \o SubSeq(Flight, 1, b)
  <2>1. Boundary(b) /\ b <= e /\ NoneWhole(b, e) /\ crypto_data = SubSeq(Flight, b + 1, e)
        /\ transcript = hs_keys \o SubSeq(Flight, 1, b)
    BY <1>4, <1>5 DEF Followed
  <2>2. b \in Nat
    BY <2>1, <1>1 DEF Boundary
  <2>3. e \in 0..f - 1 /\ f \in 1..N /\ EndOf(k) = f
    BY <1>1, CutFacts
  <2> QED BY <2>1, <2>2, <2>3
<1>7. f - b <= CryptoSize
  BY <1>1, <1>3, <1>6, Fitting
<1> HIDE DEF e, f
<1>8. crypto_data \o Extracted(k) = d
  <2>2. Len(crypto_data) = e - b
    <3>1. b + 1 \in Nat \ {0} /\ e \in 0..N /\ b + 1 <= e + 1 /\ e - (b + 1) + 1 = e - b
      BY <1>1, <1>6
    <3>2. Len(SubSeq(Flight, b + 1, e)) = e - (b + 1) + 1
      BY <3>1, FlightIsSeq, Part
    <3> QED BY <1>6, <3>1, <3>2
  <2>3. Extracted(k) = SubSeq(Flight, e + 1, f)
    <3>1. (e - b) + (f - e) <= CryptoSize
      BY <1>6, <1>7
    <3>2. Len(crypto_data) + (f - e) <= CryptoSize
      BY <2>2, <3>1
    <3> QED BY <1>1, <3>2, ExtractedWhole DEF e, f
  <2>4. b + 1 \in 1..N + 1 /\ e \in (b + 1) - 1..N /\ f \in e..N
    BY <1>1, <1>6
  <2>5. SubSeq(Flight, b + 1, e) \o SubSeq(Flight, e + 1, f) = SubSeq(Flight, b + 1, f)
    BY <2>4, FlightIsSeq, ConcatAdjacentSubSeq
  <2> QED BY <1>6, <2>3, <2>5
<1>9. /\ p.used \in 0..f - b
      /\ Boundary(b + p.used) /\ NoneWhole(b + p.used, f)
      /\ p.finished <=> b < N /\ b + p.used = N
  <2>1. f \in b..N
    BY <1>1, <1>6
  <2> QED BY <1>1, <1>6, <2>1, ParseInStep
<1>10. /\ transcript' = transcript \o SubSeq(d, 1, p.used)
       /\ crypto_data' = SubSeq(d, p.used + 1, Len(d))
       /\ status' = IF p.finished THEN "done" ELSE "running"
  BY <1>2, <1>8 DEF ReceiveHandshake
<1>30. PICK u \in 0..f - b : u = p.used
  BY <1>9
<1>31. PICK b2 \in Nat : b2 = b + u
  <2> HIDE DEF p
  <2>1. b \in Nat /\ f - b \in Int
    BY <1>6
  <2> QED BY <2>1
<1>11. Len(d) = f - b /\ d \in Seq(Unit) /\ Flight \in Seq(Unit) /\ u \in 0..f - b /\ b2 \in b..f
  <2>1. b + 1 \in Nat \ {0} /\ f \in 0..N /\ b + 1 <= f + 1 /\ f - (b + 1) + 1 = f - b
    BY <1>1, <1>6
  <2>2. SubSeq(Flight, b + 1, f) \in Seq(Unit) /\ Len(SubSeq(Flight, b + 1, f)) = f - (b + 1) + 1
    BY <2>1, FlightOfUnits, Part
  <2>3. b2 \in b..f
    <3> HIDE DEF p
    <3> QED BY <1>6, <1>31
  <2> QED BY <2>1, <2>2, <2>3, FlightOfUnits
<1> HIDE DEF p
<1>12. SubSeq(d, u + 1, Len(d)) = SubSeq(Flight, b2 + 1, f) /\ SubSeq(d, 1, u) = SubSeq(Flight, b + 1, b2)
  <2>1. b \in 0..f /\ f \in 0..N /\ N \in Nat
    BY <1>1, <1>6
  <2> QED BY <1>11, <1>31, <2>1, PartOfPart
<1>13. crypto_data' = SubSeq(Flight, b2 + 1, f) /\ transcript' = hs_keys \o SubSeq(Flight, 1, b2)
  <2>1. hs_keys \in Seq(Int \X Nat) /\ Flight \in Seq(Int \X Nat)
    <3>1. answered \in Int
      <4>1. TypeOK
        BY DEF FlightInv, HandshakeTypes
      <4>2. answered \in 0..hello /\ hello \in 1..4
        BY <4>1, Zenon DEF TypeOK
      <4> QED BY <4>2
    <3>2. Flight \in Seq(Int \X Nat)
      BY FlightIsSeq
    <3> QED BY <1>2, <3>1, <3>2 DEF SameHandshakeKeys, ClientHelloUnit, ServerHelloUnit
  <2>2. b2 \in 0..N /\ b \in 0..b2
    BY <1>1, <1>6, <1>11
  <2>3. (hs_keys \o SubSeq(Flight, 1, b)) \o SubSeq(Flight, b + 1, b2) = hs_keys \o SubSeq(Flight, 1, b2)
    BY <2>1, <2>2, PrefixGrows
  <2> QED BY <1>6, <1>10, <1>12, <1>30, <2>3
<1>14. Followed(k, b2)'
  <2>1. \A i \in 1..Len(seen') : seen'[i] <= k
    BY <1>1, <1>2, <1>3
  <2>2. \E i \in 1..Len(seen') : seen'[i] = k
    <3>1. Len(seen) + 1 \in 1..Len(seen') /\ seen'[Len(seen) + 1] = k
      BY <1>1, <1>2
    <3> QED BY <3>1
  <2>3. NoneWhole(b2, f)' /\ Boundary(b2) /\ EndOf(k)' = f /\ f' = f
    <3>1. NoneWhole(b2, f) /\ Boundary(b2)
      BY <1>9, <1>30, <1>31
    <3>2. LengthAt(Flight[b2 + 1])' = LengthAt(Flight[b2 + 1])
      BY <1>2 DEF LengthAt
    <3>3. f' = f
      BY <1>2 DEF f
    <3>4. NoneWhole(b2, f)'
      BY <3>1, <3>2, <3>3 DEF NoneWhole
    <3>5. EndOf(k)' = f
      BY <1>1, <1>2 DEF EndOf, f
    <3> QED BY <3>1, <3>3, <3>4, <3>5
  <2>4. status' = "done" => b2 = N
    BY <1>9, <1>10, <1>30, <1>31
  <2>5. b2 <= f
    BY <1>6, <1>11
  <2>6. NoneWhole(b2, EndOf(k))'
    BY <2>3 DEF NoneWhole
  <2>7. /\ k \in 0..Len(ends') /\ b2 <= EndOf(k)'
        /\ crypto_data' = SubSeq(Flight, b2 + 1, EndOf(k)')
        /\ transcript' = hs_keys' \o SubSeq(Flight, 1, b2)
    BY <1>1, <1>2, <1>13, <2>3, <2>5
  <2> QED BY <2>1, <2>2, <2>3, <2>4, <2>6, <2>7 DEF Followed
<1> QED BY <1>14

-----------------------------------------------------------------------------
(* A Retry takes a client that has keys out of step for good; one without  *)
(* keys begins again.                                                      *)
LEMMA RetryFollows ==
  ASSUME FlightInv, ReceiveRetry
  PROVE  FlightInv'
<1>1. /\ status = "running" /\ retry_count' = retry_count + 1
      /\ UNCHANGED <<orderly, ends, frames, misread, answered, hs_keys, crypto_data, seen>>
  BY DEF ReceiveRetry, serverVars
<1>2. /\ TypeOK /\ hello <= retry_count + 1 /\ retry_count <= 3
      /\ seen \in Seq(Nat) /\ crypto_data \in Seq(Unit)
      /\ OnlyTheFirst /\ LatestHello /\ BeforeKeys
  BY <1>1 DEF FlightInv, HandshakeTypes
<1>3. /\ answered \in 0..hello /\ hello \in 1..4 /\ retry_count \in 0..4
      /\ dcid \in {"ours", "theirs"}
  BY <1>2, Zenon DEF TypeOK
<1>4. CASE UNCHANGED <<hello, dcid, transcript>>
  <2>1. \/ status' = "failed"
        \/ status' = "running" /\ retry_count' <= 3
    <3>1. \/ status' = "failed"
          \/ status' = "running" /\ retry_count <= 2
      BY <1>1 DEF ReceiveRetry
    <3> QED BY <1>1, <1>3, <3>1
  <2>2. retry_count' \in 0..4 /\ hello <= retry_count' + 1
    BY <1>1, <1>2, <1>3
  <2>3. TypeOK'
    BY <1>1, <1>2, <1>4, <2>1, <2>2 DEF TypeOK
  <2>4. HandshakeTypes'
    BY <1>1, <1>2, <1>4, <2>1, <2>2, <2>3 DEF HandshakeTypes
  <2>5. status' = status \/ status' = "failed"
    BY <1>1, <2>1
  <2> QED BY <1>1, <1>4, <2>4, <2>5, FlightUnchanged
<1>5. CASE /\ retry_count <= 2
           /\ hello' = hello + 1 /\ dcid' = "theirs" /\ status' = status
           /\ transcript' = <<ClientHelloUnit(hello')>>
  <2>1. /\ retry_count' \in 0..3 /\ hello' \in 2..4 /\ answered \in 0..hello'
        /\ hello' <= retry_count' + 1
    BY <1>1, <1>2, <1>3, <1>5
  <2>2. HandshakeTypes'
    <3>1. hello' \in 1..4 /\ retry_count' \in 0..4 /\ retry_count' <= 3
      BY <2>1
    <3>2. TypeOK'
      BY <1>1, <1>2, <1>5, <2>1, <3>1 DEF TypeOK
    <3> QED BY <1>1, <1>2, <2>1, <3>1, <3>2 DEF HandshakeTypes
  <2>3. OnlyTheFirst' /\ DoneWithKeys'
    BY <1>1, <1>2, <1>5 DEF OnlyTheFirst, DoneWithKeys
  <2>4. LatestHello'
    BY <1>5, <2>1 DEF LatestHello, ClientHelloUnit
  <2>5. BeforeKeys'
    BY <1>1, <1>2, <1>5 DEF BeforeKeys, ClientHelloUnit
  <2>6. ~InStep'
    <3>1. answered <= 1
      BY <1>2 DEF OnlyTheFirst
    <3>2. hello' # answered'
      BY <1>1, <2>1, <3>1
    <3> QED BY <3>2 DEF InStep
  <2>7. Following'
    BY <2>6 DEF Following
  <2> QED BY <2>2, <2>3, <2>4, <2>5, <2>7 DEF FlightInv
<1>6. \/ UNCHANGED <<hello, dcid, transcript>>
      \/ /\ retry_count <= 2
         /\ hello' = hello + 1 /\ dcid' = "theirs" /\ status' = status
         /\ transcript' = <<ClientHelloUnit(hello')>>
  BY DEF ReceiveRetry
<1> QED BY <1>4, <1>5, <1>6

(* A hello behind a hello.                                                 *)
LEMMA TwoUnits == \A u, v : Append(<<u>>, v) = <<u, v>>
<1> SUFFICES ASSUME NEW u, NEW v PROVE Append(<<u>>, v) = <<u, v>>
  OBVIOUS
<1> DEFINE s == Append(<<u>>, v)
           t == <<u, v>>
           S == {u, v}
<1>1. <<u>> \in Seq(S) /\ v \in S
  OBVIOUS
<1>2. s \in Seq(S) /\ Len(s) = 2 /\ s[1] = u /\ s[2] = v
  BY <1>1
<1>3. t \in Seq(S) /\ Len(t) = 2 /\ t[1] = u /\ t[2] = v
  OBVIOUS
<1>4. \A i \in 1..2 : s[i] = t[i]
  BY <1>2, <1>3
<1> HIDE DEF s, t, S
<1>5. s = t
  BY <1>2, <1>3, <1>4, SeqEqual
<1> QED BY <1>5 DEF s, t

(* With the ServerHello the flight is followed from its beginning.         *)
LEMMA ServerHelloFollows ==
  ASSUME FlightInv, ReceiveServerHello
  PROVE  FlightInv'
<1>1. /\ hs_keys = <<>> /\ status = "running"
      /\ transcript' = Append(transcript, ServerHelloUnit) /\ hs_keys' = transcript'
      /\ UNCHANGED <<orderly, ends, frames, misread, answered, hello, retry_count,
                     status, crypto_data, seen>>
      /\ answered # 0 /\ dcid' = "theirs"
  BY DEF ReceiveServerHello, ServerIdTaken, sh_done, serverVars, Answered
<1>2. transcript = <<ClientHelloUnit(hello)>> /\ crypto_data = <<>> /\ seen = <<>>
  BY <1>1 DEF FlightInv, BeforeKeys
<1>3. hs_keys' = <<ClientHelloUnit(hello), ServerHelloUnit>>
  <2> DEFINE u == ClientHelloUnit(hello)
             v == ServerHelloUnit
  <2>1. transcript = <<u>> /\ hs_keys' = Append(transcript, v)
    BY <1>1, <1>2
  <2> HIDE DEF u, v
  <2>2. Append(<<u>>, v) = <<u, v>>
    BY TwoUnits
  <2>3. hs_keys' = <<u, v>>
    BY <2>1, <2>2
  <2> QED BY <2>3 DEF u, v
<1>4. HandshakeTypes'
  <2>1. TypeOK /\ (status = "running" => hello <= retry_count + 1 /\ retry_count <= 3)
        /\ seen \in Seq(Nat) /\ crypto_data \in Seq(Unit)
    BY DEF FlightInv, HandshakeTypes
  <2>2. TypeOK'
    BY <1>1, <2>1 DEF TypeOK
  <2> QED BY <1>1, <2>1, <2>2 DEF HandshakeTypes
<1>5. BeforeKeys'
  BY <1>3, TwoHellos DEF BeforeKeys
<1>6. Following'
  <2>1. ends \in Cuts
    <3>1. TypeOK
      BY DEF FlightInv, HandshakeTypes
    <3> QED BY <3>1, Zenon DEF TypeOK
  <2>2. Len(ends) \in Nat
    BY <2>1, CutFacts
  <2>3. 0 \in 0..Len(ends') /\ EndOf(0)' = 0 /\ NoneWhole(0, 0)'
    BY <1>1, <2>2 DEF EndOf, NoneWhole
  <2>4. SubSeq(Flight, 0 + 1, 0) = <<>> /\ SubSeq(Flight, 1, 0) = <<>>
    BY FlightIsSeq
  <2>5. transcript' = hs_keys' \o SubSeq(Flight, 1, 0)
    BY <1>1, <1>3, <2>4 DEF ClientHelloUnit, ServerHelloUnit
  <2>6. crypto_data' = SubSeq(Flight, 0 + 1, EndOf(0)') /\ NoneWhole(0, EndOf(0))'
    <3>1. crypto_data' = SubSeq(Flight, 0 + 1, EndOf(0)')
      BY <1>1, <1>2, <2>3, <2>4
    <3>2. NoneWhole(0, EndOf(0))'
      BY <2>3 DEF NoneWhole
    <3> QED BY <3>1, <3>2
  <2>7. Boundary(0)
    BY FlightBegins
  <2>8. Followed(0, 0)'
    BY <1>1, <1>2, <2>3, <2>5, <2>6, <2>7 DEF Followed
  <2> QED BY <2>8 DEF Following
<1>7. OnlyTheFirst' /\ DoneWithKeys'
  BY <1>1 DEF FlightInv, OnlyTheFirst, DoneWithKeys
<1>8. LatestHello'
  <2>1. hello \in Nat
    <3>1. TypeOK
      BY DEF FlightInv, HandshakeTypes
    <3>2. hello \in 1..4
      BY <3>1, Zenon DEF TypeOK
    <3> QED BY <3>2
  <2>2. transcript' = <<ClientHelloUnit(hello), ServerHelloUnit>> /\ hello' = hello
    BY <1>1, <1>3
  <2> QED BY <2>1, <2>2 DEF LatestHello, ClientHelloUnit, ServerHelloUnit
<1> QED BY <1>4, <1>5, <1>6, <1>7, <1>8 DEF FlightInv

(* A repeated ServerHello keeps the types.                                 *)
LEMMA AgainTypes ==
  ASSUME FlightInv, ReceiveServerHelloAgain
  PROVE  HandshakeTypes' /\ OnlyTheFirst' /\ LatestHello' /\ DoneWithKeys'
<1>1. /\ UNCHANGED <<orderly, ends, frames, misread, answered, hello, retry_count,
                     status, hs_keys, transcript>>
      /\ seen' = Append(seen, 0) /\ dcid' = "theirs"
      /\ crypto_data' = IF crypto_data = <<>> THEN <<>>
                        ELSE [crypto_data EXCEPT ![1] = ServerHelloUnit]
  BY DEF ReceiveServerHelloAgain, ServerIdTaken, serverVars
<1>2. TypeOK /\ (status = "running" => hello <= retry_count + 1 /\ retry_count <= 3)
      /\ seen \in Seq(Nat) /\ crypto_data \in Seq(Unit)
  BY DEF FlightInv, HandshakeTypes
<1>3. crypto_data' \in Seq(Unit) /\ Len(crypto_data') = Len(crypto_data)
  <2>1. ServerHelloUnit \in Unit
    BY DEF Unit
  <2>2. CASE crypto_data = <<>>
    BY <1>1, <2>2
  <2>3. CASE crypto_data # <<>>
    BY <1>1, <1>2, <2>1, <2>3
  <2> QED BY <2>2, <2>3
<1>4. TypeOK'
  BY <1>1, <1>2, <1>3 DEF TypeOK
<1>5. OnlyTheFirst' /\ LatestHello' /\ DoneWithKeys'
  BY <1>1 DEF FlightInv, OnlyTheFirst, LatestHello, DoneWithKeys, SameHandshakeKeys
<1> QED BY <1>1, <1>2, <1>3, <1>4, <1>5 DEF HandshakeTypes

(* A repeated ServerHello overwrites nothing while the client is in step:  *)
(* every datagram then ends with a message, so that nothing waits.         *)
LEMMA AgainFollows ==
  ASSUME FlightInv, ReceiveServerHelloAgain
  PROVE  Following'
<1> SUFFICES ASSUME InStep', SameHandshakeKeys' PROVE \E c, b : Followed(c, b)'
  BY DEF Following
<1>1. /\ ends \in Cuts /\ seen \in Seq(Nat) /\ Len(Flight) \in Nat
  <2>1. TypeOK /\ seen \in Seq(Nat)
    BY DEF FlightInv, HandshakeTypes
  <2> QED BY <2>1, FlightIsSeq, Zenon DEF TypeOK
<1>2. /\ UNCHANGED <<ends, misread, answered, hello, status, hs_keys, transcript>>
      /\ seen' = Append(seen, 0) /\ status' = "running"
      /\ crypto_data = <<>> => crypto_data' = <<>>
  BY DEF ReceiveServerHelloAgain, ServerIdTaken, serverVars
<1>3. InStep /\ \A i \in Datagrams :
                  ends[i] < Len(Flight) => HasHeader(Flight[ends[i] + 1])
  BY <1>1, <1>2, InStepBefore
<1>4. SameHandshakeKeys
  BY <1>2 DEF SameHandshakeKeys
<1>5. PICK c, b : Followed(c, b)
  BY <1>3, <1>4 DEF FlightInv, Following
<1> DEFINE e == EndOf(c)
           N == Len(Flight)
<1>6. /\ Boundary(b) /\ b \in Nat /\ b <= e /\ e \in 0..N /\ NoneWhole(b, e)
      /\ crypto_data = SubSeq(Flight, b + 1, e)
      /\ c = 0 \/ c \in Datagrams
  BY <1>1, <1>5, CutFacts DEF Followed, Boundary, Datagrams
<1>7. Boundary(e)
  <2>1. CASE c = 0
    BY <2>1, FlightBegins DEF EndOf
  <2>2. CASE c # 0
    <3>1. c \in Datagrams /\ e = ends[c]
      BY <2>2, <1>6 DEF EndOf
    <3> QED BY <3>1, <1>3, <1>6 DEF Boundary
  <2> QED BY <2>1, <2>2
<1>8. b = e
  <2> SUFFICES ASSUME b < e PROVE FALSE
    BY <1>6
  <2>6. b < N
    <3> HIDE DEF e
    <3> QED BY <1>1, <1>6
  <2>1. PICK m \in 1..Count :
          /\ LengthAt(Flight[b + 1]) = MessageLengths[m]
          /\ Boundary(b + MessageLengths[m])
          /\ \A p \in b + 2..b + MessageLengths[m] : ~HasHeader(Flight[p])
    BY <1>6, <2>6, NextMessage
  <2>2. MessageLengths[m] \in Nat /\ b + MessageLengths[m] > e
    BY <1>6, <2>1, Lengths DEF NoneWhole
  <2>3. b + MessageLengths[m] <= N
    BY <2>1 DEF Boundary
  <2> HIDE DEF e
  <2>4. e < N
    BY <1>1, <1>6, <2>2, <2>3
  <2>5. e + 1 \in b + 2..b + MessageLengths[m]
    BY <1>6, <2>2
  <2> QED BY <1>7, <2>1, <2>4, <2>5 DEF Boundary
<1>9. crypto_data = <<>> /\ crypto_data' = <<>>
  <2> HIDE DEF e
  <2>1. SubSeq(Flight, b + 1, e) = <<>>
    BY <1>6, <1>8, FlightIsSeq
  <2> QED BY <1>2, <1>6, <2>1
<1>10. Followed(c, b)'
  <2>1. /\ Followed(c, b) /\ seen' \in Seq(Nat) /\ Len(seen') = Len(seen) + 1
        /\ \A i \in 1..Len(seen) : i \in 1..Len(seen') /\ seen'[i] = seen[i]
        /\ seen'[Len(seen) + 1] = 0
    BY <1>1, <1>2, <1>5
  <2>2. c \in Nat /\ Len(seen) \in Nat
    BY <1>1, <1>5, CutFacts DEF Followed
  <2>3. \A i \in 1..Len(seen') : seen'[i] <= c
    <3>1. ASSUME NEW i \in 1..Len(seen') PROVE seen'[i] <= c
      <4>1. i \in 1..Len(seen) \/ i = Len(seen) + 1
        BY <2>1, <2>2
      <4>2. \A j \in 1..Len(seen) : seen[j] <= c
        BY <2>1 DEF Followed
      <4> QED BY <2>1, <2>2, <4>1, <4>2
    <3> QED BY <3>1
  <2>4. c = 0 \/ \E i \in 1..Len(seen') : seen'[i] = c
    BY <2>1 DEF Followed
  <2>5. EndOf(c)' = EndOf(c) /\ NoneWhole(b, EndOf(c))'
    BY <1>2, <1>5 DEF Followed, EndOf, NoneWhole, LengthAt
  <2> QED BY <1>2, <1>9, <2>1, <2>3, <2>4, <2>5 DEF Followed
<1> QED BY <1>10

(* Steps that leave the client's data alone keep the types.                *)
LEMMA TypesUnchanged ==
  ASSUME FlightInv, status' = status \/ status' = "failed",
         UNCHANGED <<orderly, ends, frames, misread, hello, retry_count,
                     crypto_data, seen>>,
         dcid' = dcid \/ dcid' = "theirs",
         answered' = answered \/ answered' \in 1..hello
  PROVE  HandshakeTypes'
<1>1. TypeOK /\ (status = "running" => hello <= retry_count + 1 /\ retry_count <= 3)
      /\ seen \in Seq(Nat) /\ crypto_data \in Seq(Unit)
  BY DEF FlightInv, HandshakeTypes
<1>2. answered \in 0..hello /\ hello \in 1..4
  BY <1>1, Zenon DEF TypeOK
<1>3. answered' \in 0..hello
  BY <1>2
<1>4. TypeOK'
  BY <1>1, <1>3 DEF TypeOK
<1> QED BY <1>1, <1>4 DEF HandshakeTypes

(* Every step keeps the invariant.                                         *)
LEMMA StepKeepsFlightInv ==
  ASSUME FlightInv, [Next]_vars
  PROVE  FlightInv'
<1>3. CASE ServerAnswers
  <2>1. PICK v \in 1..hello : ServerKeyId(v) = ClientKeyId /\ answered' = v
    BY <1>3 DEF ServerAnswers
  <2>2. answered = 0 /\ answered' = 1
    BY <1>3, <2>1 DEF ServerAnswers, ServerKeyId, ClientKeyId
  <2>3. /\ status' = status /\ answered' \in 1..hello
        /\ UNCHANGED <<orderly, ends, frames, misread, hello, dcid, retry_count, hs_keys,
                       crypto_data, transcript, seen>>
    BY <1>3, <2>1 DEF ServerAnswers, helloVars
  <2>4. HandshakeTypes'
    BY <2>3, TypesUnchanged
  <2> QED BY <2>2, <2>3, <2>4, FlightUnchanged
<1>5. CASE ReceiveRetry
  BY <1>5, RetryFollows
<1>6. CASE ReceiveServerHello
  BY <1>6, ServerHelloFollows
<1>7. CASE RefuseServerHello \/ TimeUp \/ UNCHANGED vars
  <2>1. /\ answered' = answered
        /\ status' = status \/ status' = "failed"
        /\ dcid' = dcid \/ dcid' = "theirs"
        /\ UNCHANGED <<orderly, ends, frames, misread, hello, retry_count, hs_keys,
                       crypto_data, transcript, seen>>
    BY <1>7 DEF RefuseServerHello, ServerIdTaken, TimeUp, vars, helloVars, serverVars
  <2>2. HandshakeTypes'
    BY <2>1, TypesUnchanged
  <2> QED BY <2>1, <2>2, FlightUnchanged
<1>8. CASE ReceiveServerHelloAgain
  <2>1. hs_keys' # <<>>
    BY <1>8 DEF ReceiveServerHelloAgain, sh_done
  <2>2. BeforeKeys'
    BY <2>1 DEF BeforeKeys
  <2> QED BY <1>8, <2>2, AgainTypes, AgainFollows DEF FlightInv
<1>9. CASE \E k \in Datagrams : ReceiveHandshake(k)
  <2>1. PICK k \in Datagrams : ReceiveHandshake(k)
    BY <1>9
  <2>2. hs_keys' # <<>>
    BY <2>1, TwoHellos DEF ReceiveHandshake, SameHandshakeKeys
  <2>3. BeforeKeys'
    BY <2>2 DEF BeforeKeys
  <2> QED BY <2>1, <2>3, DatagramTypes, DatagramFollows DEF FlightInv
<1> QED BY <1>3, <1>5, <1>6, <1>7, <1>8, <1>9 DEF Next

(* It is an invariant of the attempt.                                      *)
LEMMA FlightInvariance == Spec => []FlightInv
<1>1. Init => FlightInv
  BY FlightInit
<1>2. FlightInv /\ [Next]_vars => FlightInv'
  BY StepKeepsFlightInv
<1> QED BY <1>1, <1>2, PTL DEF Spec

(* Every variable of an attempt keeps its type; crypto_data never holds    *)
(* more than its 16384 bytes, whatever the network does (the test of the   *)
(* room in extract_crypto_frames).                                         *)
THEOREM HandshakeType == Spec => []TypeOK
<1>1. FlightInv => TypeOK
  BY DEF FlightInv, HandshakeTypes
<1> QED BY <1>1, FlightInvariance, PTL

(* For every flight, every cut and every order of arrival: while the       *)
(* client is in step, each unit is in the transcript or waits in           *)
(* crypto_data, in order and once, what waits is one unfinished message,   *)
(* and a handshake that is done has hashed what the server has (the        *)
(* parser's loop and the compaction of crypto_data).                       *)
THEOREM FlightNeverTorn == Spec => []FlightIntact
<1>1. FlightInv => FlightIntact
  BY FlightInvIntact
<1> QED BY <1>1, FlightInvariance, PTL

(* After a Retry the two ends do not agree any more, for any number of     *)
(* Retries and at whatever moment they come: no later ClientHello is ever  *)
(* answered, and a handle is returned only with keys from before the Retry *)
(* (nanotls_try_quic's Retry branch and original_dcid).                    *)
THEOREM RetriesNeverAgree == Spec => []RetryNeverAgrees
<1>1. ASSUME FlightInv, hello > 1
      PROVE  /\ answered <= 1 /\ transcript # Agreed
             /\ status = "done" => hs_keys = <<ClientHelloUnit(1), ServerHelloUnit>>
  <2>1. OnlyTheFirst /\ LatestHello /\ DoneWithKeys /\ answered \in Nat /\ hello \in Nat
    <3>1. TypeOK
      BY <1>1 DEF FlightInv, HandshakeTypes
    <3>2. answered \in 0..hello /\ hello \in 1..4
      BY <3>1, Zenon DEF TypeOK
    <3> QED BY <1>1, <3>2 DEF FlightInv
  <2>2. answered \in {0, 1}
    BY <2>1 DEF OnlyTheFirst
  <2>3. transcript # Agreed
    <3> DEFINE h == <<ClientHelloUnit(answered), ServerHelloUnit>>
    <3>1. h \in Seq(Int \X Nat) /\ Len(h) = 2 /\ h[1] = <<-answered, 1>>
      BY <2>1 DEF ClientHelloUnit, ServerHelloUnit
    <3>2. Flight \in Seq(Int \X Nat)
      BY FlightIsSeq
    <3> DEFINE S == Int \X Nat
    <3>3. (h \o Flight)[1] = h[1]
      <4>1. h \in Seq(S) /\ Flight \in Seq(S) /\ Len(h) = 2
        BY <3>1, <3>2
      <4> HIDE DEF h, S
      <4> QED BY <4>1, ConcatProperties
    <3>4. transcript[1] = <<-hello, 1>>
      BY <2>1 DEF LatestHello, ClientHelloUnit
    <3>5. -answered # -hello
      BY <1>1, <2>1, <2>2
    <3>6. <<-answered, 1>> # <<-hello, 1>>
      BY <3>5
    <3> HIDE DEF h
    <3> QED BY <3>1, <3>3, <3>4, <3>6 DEF Agreed, h
  <2>4. status = "done" => hs_keys = <<ClientHelloUnit(1), ServerHelloUnit>>
    <3> HAVE status = "done"
    <3>1. hs_keys = <<ClientHelloUnit(answered), ServerHelloUnit>>
      BY <2>1 DEF DoneWithKeys, SameHandshakeKeys
    <3>2. answered = 1
      BY <2>1, <2>2, <3>1, TwoHellos DEF OnlyTheFirst
    <3> QED BY <3>1, <3>2
  <2> QED BY <2>1, <2>3, <2>4 DEF OnlyTheFirst
<1>2. FlightInv => RetryNeverAgrees
  BY <1>1 DEF RetryNeverAgrees
<1> QED BY <1>2, FlightInvariance, PTL
=============================================================================
