--------------------------- MODULE Geohash_proofs ---------------------------
(***************************************************************************)
(* Proofs about Geohash, for every position, precision and grid.  What     *)
(* geohash_decode makes of a hash is the box that geohash_encode reached:  *)
(* it holds the position, its centre has the same hash, and it is the cell *)
(* of a regular grid that one division finds.  A hash get_neighbor returns *)
(* is decoded to the box beside it.                                        *)
(*                                                                         *)
(* The loops are followed along the boxes of the first encoding (LoopInv), *)
(* and a box is known by its place: which of how many equal parts of the   *)
(* globe it is on each axis (Place).  A character takes a place to one of  *)
(* 8 by 4 parts (CharPlace); the four tables take one step among these     *)
(* (RowMoves1 to RowMoves4), around the end where the parent cell takes    *)
(* the step; by induction over the characters get_neighbor takes one step  *)
(* or falls off the globe (NeighbourBeside).                               *)
(***************************************************************************)
EXTENDS Geohash, NaturalsInduction, WellFoundedInduction, SequenceTheorems,
        TLAPS

-----------------------------------------------------------------------------
(* Induction on the numbers: a property of numbers is given as the set of  *)
(* those that have it.                                                     *)

(* A set of numbers has a least one.                                       *)
LEMMA Least ==
    ASSUME NEW T \in SUBSET Nat, T # {}
    PROVE  \E m \in T : \A n \in T : m <= n
  <1> DEFINE R == OpToRel(<, Nat)
  <1>1. IsWellFoundedOn(R, Nat)
    BY NatLessThanWellFounded
  <1>2. \A x, y \in Nat : y < x => << y, x >> \in R
    BY DEF OpToRel
  <1> HIDE DEF R
  <1>3. \E x \in T : \A y \in T : << y, x >> \notin R
    BY <1>1, WFMin
  <1>4. PICK m \in T : \A y \in T : << y, m >> \notin R
    BY <1>3
  <1>5. \A n \in T : ~(n < m)
    BY <1>2, <1>4, Zenon
  <1> QED
    BY <1>5, T \subseteq Nat, m \in T, SMT

(* What holds of 0 and of each successor holds of all of them.             *)
LEMMA Induct ==
    ASSUME NEW S, 0 \in S, \A n \in Nat : n \in S => n + 1 \in S
    PROVE  Nat \subseteq S
  <1> SUFFICES ASSUME NEW k \in Nat, k \notin S
               PROVE  FALSE
    OBVIOUS
  <1>1. PICK m \in Nat \ S : \A n \in Nat \ S : m <= n
    BY Least
  <1>2. m # 0 /\ m - 1 \in Nat /\ m - 1 \in S
    BY <1>1
  <1>3. (m - 1) + 1 \in S
    BY <1>2
  <1> QED
    BY <1>1, <1>3

(* A function may be defined by its value at 0 and a step.                 *)
Recurs(V, base, n, step, f) ==
    /\ f \in [0 .. n -> V] /\ f[0] = base
    /\ \A j \in 1 .. n : f[j] = step[<< j, f[j - 1] >>]

LEMMA Recursion ==
    ASSUME NEW V, NEW base \in V, NEW n \in Nat, NEW step \in [(1 .. n) \X V -> V]
    PROVE  \E f : Recurs(V, base, n, step, f)
  <1> DEFINE Upto(k) == \E f : Recurs(V, base, k, step, f)
             S == {k \in Nat : k <= n => Upto(k)}
  <1>1. 0 \in S
    <2> DEFINE g == [j \in 0 .. 0 |-> base]
    <2>1. g \in [0 .. 0 -> V] /\ g[0] = base
      OBVIOUS
    <2>2. \A j \in 1 .. 0 : g[j] = step[<< j, g[j - 1] >>]
      OBVIOUS
    <2> HIDE DEF g
    <2> QED
      BY <2>1, <2>2 DEF Recurs
  <1>2. ASSUME NEW k \in Nat, k \in S
        PROVE  k + 1 \in S
    <2> SUFFICES ASSUME k + 1 <= n
                 PROVE  Upto(k + 1)
      OBVIOUS
    <2>1. PICK f : Recurs(V, base, k, step, f)
      BY <1>2
    <2> DEFINE v == step[<< k + 1, f[k] >>]
               g == [j \in 0 .. k + 1 |-> IF j = k + 1 THEN v ELSE f[j]]
    <2>2. v \in V
      <3>1. << k + 1, f[k] >> \in (1 .. n) \X V
        BY <2>1 DEF Recurs
      <3> QED
        BY <3>1
    <2> HIDE DEF v
    <2>3. g \in [0 .. k + 1 -> V] /\ g[0] = f[0]
      BY <2>1, <2>2 DEF Recurs
    <2>4. \A j \in 1 .. k + 1 : g[j] = step[<< j, g[j - 1] >>]
      <3>1. ASSUME NEW j \in 1 .. k
            PROVE  g[j] = step[<< j, g[j - 1] >>]
        <4>1. g[j] = f[j] /\ g[j - 1] = f[j - 1]
          OBVIOUS
        <4> QED
          BY <2>1, <4>1 DEF Recurs
      <3>2. g[k + 1] = v /\ g[(k + 1) - 1] = f[k]
        OBVIOUS
      <3> HIDE DEF g
      <3> QED
        BY <3>1, <3>2 DEF v
    <2> HIDE DEF g
    <2> QED
      BY <2>1, <2>3, <2>4 DEF Recurs
  <1>3. Nat \subseteq S
    BY <1>1, <1>2, Induct
  <1> QED
    BY <1>3

-----------------------------------------------------------------------------
Axes == {"lat", "lng"}

(* The width of a box after n bits. *)
Wide(b, n) ==
    \A axis \in Axes : b[axis].high - b[axis].low = Width[Cuts(axis, n)]

Inside(b, c) ==
    \A axis \in Axes : c[axis].low <= b[axis].low /\ b[axis].high <= c[axis].high

(* The trail of the first encoding, against the hash it made. *)
TrailOK ==
    /\ hash \in Seq({0, 1})
    /\ trail = [k \in 1 .. Len(hash) + 1 |-> trail[k]] /\ Len(hash) <= Bits(call)
    /\ trail[1] = Globe
    /\ \A k \in 0 .. Len(hash) :
         /\ IsBox(trail[k + 1]) /\ Wide(trail[k + 1], k)
         /\ OnGlobe(call) => Holds(trail[k + 1], call)
         /\ Inside(trail[Len(hash) + 1], trail[k + 1])
    /\ \A k \in 0 .. Len(hash) - 1 :
         trail[k + 2] = Halved(trail[k + 1], Axis(k), hash[k + 1])

(* Every loop over the hash goes along that trail. *)
OnTrail ==
    /\ i \in Nat
    /\ pc = "encode" => i = Len(hash)
    /\ pc \in {"encode", "null"} \/ (OnGlobe(call) /\ Len(hash) = Bits(call))
    /\ pc \in {"encode", "decode", "decoded", "again"} =>
         i <= Len(hash) /\ box = trail[i + 1]
    /\ pc = "decoded" => i = Len(hash)
    /\ pc \in {"decoded", "again"} => found = trail[Len(hash) + 1]

LoopInv ==
    /\ call \in Calls
    /\ pc \in {"encode", "null", "decode", "decoded", "again", "walk"}
    /\ pc # "walk" => TrailOK /\ OnTrail

-----------------------------------------------------------------------------
LEMMA CallFacts ==
    ASSUME NEW c \in Calls
    PROVE  /\ c.lat \in Int /\ c.lng \in Int /\ c.precision \in Int
           /\ Bits(c) \in Nat /\ Bits(c) <= 2 * MaxCuts
           /\ \A axis \in Axes : c[axis] \in Int
  BY CallsAssumption DEF Bits, Chars, Axes

(* Bit n halves the axis Axis(n) once more, and leaves the other alone. *)
LEMMA CutFacts ==
    ASSUME NEW n \in Nat, n < 2 * MaxCuts
    PROVE  /\ Axis(n) \in Axes
           /\ Cuts(Axis(n), n) \in 0 .. MaxCuts - 1
           /\ Cuts(Axis(n), n + 1) = Cuts(Axis(n), n) + 1
           /\ \A axis \in Axes \ {Axis(n)} : Cuts(axis, n + 1) = Cuts(axis, n)
           /\ \A axis \in Axes : Cuts(axis, n) \in 0 .. MaxCuts
  BY HalvingAssumption DEF Axis, Axes, Cuts

(* The two ways to halve an interval of even width are one. *)
LEMMA HalfFacts ==
    ASSUME NEW v \in [low : Int, high : Int], NEW w \in Nat \ {0},
           v.high - v.low = 2 * w, NEW bit \in {0, 1}
    PROVE  /\ DescentOf(v, bit) = HalfOf(v, bit)
           /\ HalfOf(v, bit) \in [low : Int, high : Int]
           /\ HalfOf(v, bit).high - HalfOf(v, bit).low = w
           /\ v.low <= HalfOf(v, bit).low /\ HalfOf(v, bit).high <= v.high
           /\ Mid(v) = v.low + w /\ Mid(v) \in Int
<1>1. v.low \in Int /\ v.high \in Int /\ v.high = v.low + 2 * w
  OBVIOUS
<1>2. Mid(v) = v.low + w /\ Delta(v) = w
  BY <1>1 DEF Mid, Delta
<1>3. /\ HalfOf(v, bit) = IF bit = 1 THEN [low |-> v.low + w, high |-> v.high]
                                     ELSE [low |-> v.low, high |-> v.low + w]
      /\ DescentOf(v, bit) = HalfOf(v, bit)
  BY <1>1, <1>2 DEF HalfOf, DescentOf
<1> QED
  BY <1>1, <1>2, <1>3

(* So are the two ways to halve a box, which leave a smaller one of the    *)
(* right width.                                                            *)
LEMMA HalvedFacts ==
    ASSUME NEW n \in Nat, n < 2 * MaxCuts, NEW b, IsBox(b), Wide(b, n),
           NEW bit \in {0, 1}
    PROVE  /\ Descended(b, Axis(n), bit) = Halved(b, Axis(n), bit)
           /\ IsBox(Halved(b, Axis(n), bit))
           /\ Wide(Halved(b, Axis(n), bit), n + 1)
           /\ Inside(Halved(b, Axis(n), bit), b)
           /\ Mid(b[Axis(n)]) \in Int
<1>1. PICK a \in Axes : a = Axis(n)
  BY CutFacts
<1>2. PICK w \in Nat \ {0} :
        /\ b[a].high - b[a].low = 2 * w
        /\ Width[Cuts(a, n + 1)] = w
  <2>0. Cuts(a, n) \in 0 .. MaxCuts - 1 /\ Cuts(a, n + 1) = Cuts(a, n) + 1
    BY <1>1, CutFacts
  <2>1. /\ Cuts(a, n) \in 0 .. MaxCuts - 1
        /\ Cuts(a, n + 1) = Cuts(a, n) + 1
        /\ Cuts(a, n + 1) \in 0 .. MaxCuts
    BY <2>0, HalvingAssumption
  <2>2. Width[Cuts(a, n)] = 2 * Width[Cuts(a, n + 1)]
    BY <2>1, HalvingAssumption
  <2>3. Width[Cuts(a, n + 1)] \in Nat \ {0}
    BY <2>1, HalvingAssumption
  <2> QED
    BY <2>2, <2>3 DEF Wide
<1>3. b \in [Axes -> [low : Int, high : Int]]
  BY DEF IsBox, Axes
<1>4. /\ DescentOf(b[a], bit) = HalfOf(b[a], bit)
      /\ HalfOf(b[a], bit) \in [low : Int, high : Int]
      /\ HalfOf(b[a], bit).high - HalfOf(b[a], bit).low = w
      /\ b[a].low <= HalfOf(b[a], bit).low /\ HalfOf(b[a], bit).high <= b[a].high
      /\ Mid(b[a]) \in Int
  BY <1>2, <1>3, HalfFacts
<1>5. /\ Halved(b, a, bit) = [b EXCEPT ![a] = HalfOf(b[a], bit)]
      /\ Descended(b, a, bit) = Halved(b, a, bit)
  BY <1>4 DEF Halved, Descended
<1>6. Halved(b, a, bit) \in [Axes -> [low : Int, high : Int]]
  BY <1>3, <1>4, <1>5
<1>7. /\ Halved(b, a, bit)[a] = HalfOf(b[a], bit)
      /\ \A axis \in Axes \ {a} : Halved(b, a, bit)[axis] = b[axis]
  BY <1>3, <1>5
<1>8. Wide(Halved(b, a, bit), n + 1)
  <2> SUFFICES ASSUME NEW axis \in Axes
               PROVE  Halved(b, a, bit)[axis].high - Halved(b, a, bit)[axis].low
                        = Width[Cuts(axis, n + 1)]
    BY DEF Wide
  <2>1. CASE axis = a
    BY <2>1, <1>2, <1>4, <1>7
  <2>2. CASE axis # a
    BY <2>2, <1>1, <1>7, CutFacts DEF Wide
  <2> QED
    BY <2>1, <2>2
<1>9. Inside(Halved(b, a, bit), b)
  BY <1>3, <1>4, <1>7 DEF Inside
<1> QED
  BY <1>1, <1>4, <1>5, <1>6, <1>8, <1>9 DEF IsBox, Axes

(* The half that a position is in is the one its bit names. *)
LEMMA BitFacts ==
    ASSUME NEW n \in Nat, n < 2 * MaxCuts, NEW b, IsBox(b), Wide(b, n),
           NEW at, \A axis \in Axes : at[axis] \in Int
    PROVE  /\ Bit(b, Axis(n), at) \in {0, 1}
           /\ Holds(b, at) => Holds(Halved(b, Axis(n), Bit(b, Axis(n), at)), at)
<1> DEFINE bit == Bit(b, Axis(n), at)
<1>1. PICK a \in Axes : a = Axis(n)
  BY CutFacts
<1>2. bit \in {0, 1} /\ (bit = 1 <=> at[a] > Mid(b[a]))
  BY <1>1 DEF Bit
<1>3. b \in [Axes -> [low : Int, high : Int]] /\ Mid(b[a]) \in Int
  BY <1>1, HalvedFacts DEF IsBox, Axes
<1>4. /\ Halved(b, a, bit)[a] = HalfOf(b[a], bit)
      /\ \A axis \in Axes \ {a} : Halved(b, a, bit)[axis] = b[axis]
  BY <1>3 DEF Halved
<1> HIDE DEF bit
<1>5. ASSUME Holds(b, at) PROVE Holds(Halved(b, a, bit), at)
  <2> SUFFICES ASSUME NEW axis \in Axes
               PROVE  LET v == Halved(b, a, bit)[axis]
                      IN  /\ \/ v.low < at[axis]
                             \/ v.low = at[axis] /\ at[axis] = -Half
                          /\ at[axis] <= v.high
    BY DEF Holds, Axes
  <2>0. /\ b[axis].low < at[axis] \/ (b[axis].low = at[axis] /\ at[axis] = -Half)
        /\ at[axis] <= b[axis].high
    BY <1>5 DEF Holds, Axes
  <2>1. CASE axis = a /\ bit = 1
    BY <2>0, <2>1, <1>2, <1>3, <1>4 DEF HalfOf
  <2>2. CASE axis = a /\ bit = 0
    BY <2>0, <2>2, <1>2, <1>3, <1>4 DEF HalfOf
  <2>3. CASE axis # a
    BY <2>0, <2>3, <1>4
  <2> QED
    BY <2>1, <2>2, <2>3, <1>2
<1> QED
  BY <1>1, <1>2, <1>5 DEF bit

LEMMA GlobeFacts ==
    /\ IsBox(Globe) /\ Wide(Globe, 0) /\ Inside(Globe, Globe)
    /\ \A c \in Calls : OnGlobe(c) => Holds(Globe, c)
<1>1. Half \in Nat /\ Width[0] = 2 * Half
  BY HalvingAssumption
<1>2. Globe \in [Axes -> [low : Int, high : Int]]
  BY <1>1 DEF Globe, Axes
<1>3. \A axis \in Axes : Globe[axis].low = -Half /\ Globe[axis].high = Half
  BY DEF Globe, Axes
<1>4. \A axis \in Axes : Cuts(axis, 0) = 0
  BY DEF Cuts
<1>5. \A axis \in Axes : Globe[axis].high - Globe[axis].low = Width[Cuts(axis, 0)]
  BY <1>1, <1>3, <1>4
<1>6. Inside(Globe, Globe)
  BY <1>1, <1>3 DEF Inside
<1>7. ASSUME NEW c \in Calls, OnGlobe(c) PROVE Holds(Globe, c)
  <2>1. \A axis \in Axes : c[axis] \in Int /\ -Half <= c[axis] /\ c[axis] <= Half
    BY <1>1, <1>7, CallFacts DEF OnGlobe, Axes
  <2> QED
    BY <1>1, <1>3, <2>1 DEF Holds, Axes
<1> QED
  BY <1>2, <1>5, <1>6, <1>7 DEF IsBox, Wide, Axes

LEMMA InsideTransitive ==
    ASSUME NEW a, NEW b, NEW c, IsBox(a), IsBox(b), IsBox(c),
           Inside(a, b), Inside(b, c)
    PROVE  Inside(a, c)
  BY DEF IsBox, Inside, Axes

-----------------------------------------------------------------------------
LEMMA InitLoop == Init => LoopInv
<1> SUFFICES ASSUME Init PROVE LoopInv
  OBVIOUS
<1>1. hash = << >> /\ trail = << Globe >> /\ call \in Calls /\ i = 0 /\ box = Globe
      /\ pc = "encode"
  BY DEF Init
<1>2. Len(hash) = 0 /\ hash \in Seq({0, 1}) /\ Len(hash) <= Bits(call)
  BY <1>1, CallFacts
<1>3. trail = [k \in 1 .. 1 |-> trail[k]] /\ trail[1] = Globe
  BY <1>1
<1>4. TrailOK
  BY <1>1, <1>2, <1>3, GlobeFacts DEF TrailOK
<1>5. OnTrail
  BY <1>1, <1>2, <1>3 DEF OnTrail
<1> QED
  BY <1>1, <1>4, <1>5 DEF LoopInv

(* The iteration of the first encoding makes the trail one box longer. *)
LEMMA EncodeLoop ==
    ASSUME LoopInv, EncodeBit
    PROVE  LoopInv'
<1> DEFINE n == Len(hash)
           bit == Bit(box, Axis(i), call)
           b == Halved(box, Axis(i), bit)
<1>1. /\ TrailOK /\ OnTrail /\ call \in Calls /\ pc = "encode" /\ OnGlobe(call)
      /\ i = n /\ i \in Nat /\ i < Bits(call) /\ box = trail[n + 1]
  BY DEF LoopInv, OnTrail, EncodeBit
<1>2. /\ hash' = Append(hash, bit) /\ trail' = Append(trail, b) /\ i' = i + 1
      /\ box' = b /\ pc' = pc /\ call' = call
  BY DEF EncodeBit
<1>3. /\ n \in Nat /\ n < 2 * MaxCuts /\ Bits(call) \in Nat
      /\ \A axis \in Axes : call[axis] \in Int
  BY <1>1, CallFacts, HalvingAssumption DEF TrailOK
<1>4. IsBox(box) /\ Wide(box, n) /\ Holds(box, call)
  <2>1. n \in 0 .. Len(hash)
    BY <1>3
  <2> QED
    BY <1>1, <2>1 DEF TrailOK
<1>5. bit \in {0, 1} /\ Holds(b, call)
  BY <1>1, <1>3, <1>4, BitFacts
<1>6. IsBox(b) /\ Wide(b, n + 1) /\ Inside(b, box)
  BY <1>1, <1>3, <1>4, <1>5, HalvedFacts
<1> HIDE DEF bit, b
<1>7. /\ hash' \in Seq({0, 1}) /\ Len(hash') = n + 1
      /\ hash'[n + 1] = bit /\ \A k \in 1 .. n : hash'[k] = hash[k]
  BY <1>1, <1>2, <1>5 DEF TrailOK
<1>8. /\ trail' = [k \in 1 .. n + 2 |-> trail'[k]]
      /\ trail'[n + 2] = b /\ \A k \in 1 .. n + 1 : trail'[k] = trail[k]
  <2>1. trail = [k \in 1 .. n + 1 |-> trail[k]]
    BY <1>1 DEF TrailOK
  <2>2. trail \in Seq({trail[k] : k \in 1 .. n + 1})
    BY <1>3, <2>1
  <2>3. Len(trail) = n + 1
    BY <1>3, <2>1
  <2> QED
    BY <1>2, <1>3, <2>1, <2>2, <2>3
<1> HIDE DEF n
<1>9. ASSUME NEW k \in 0 .. n + 1
      PROVE  /\ IsBox(trail'[k + 1]) /\ Wide(trail'[k + 1], k)
             /\ Holds(trail'[k + 1], call)
             /\ Inside(b, trail'[k + 1])
  <2>1. CASE k = n + 1
    <3>1. trail'[k + 1] = b
      BY <1>3, <1>8, <2>1
    <3>2. Inside(b, b)
      BY <1>6 DEF Inside, IsBox, Axes
    <3> QED
      BY <2>1, <3>1, <3>2, <1>5, <1>6
  <2>2. CASE k \in 0 .. n
    <3>1. k + 1 \in 1 .. n + 1 /\ trail'[k + 1] = trail[k + 1]
      BY <1>3, <1>8, <2>2
    <3>2. /\ IsBox(trail[k + 1]) /\ Wide(trail[k + 1], k)
          /\ Holds(trail[k + 1], call) /\ Inside(box, trail[k + 1])
      BY <1>1, <2>2 DEF TrailOK, n
    <3>3. Inside(b, trail[k + 1])
      BY <1>4, <1>6, <3>2, InsideTransitive
    <3> QED
      BY <3>1, <3>2, <3>3
  <2> QED
    BY <1>3, <2>1, <2>2
<1>10. ASSUME NEW k \in 0 .. n
       PROVE  trail'[k + 2] = Halved(trail'[k + 1], Axis(k), hash'[k + 1])
  <2>1. CASE k = n
    <3>1. trail'[k + 2] = b /\ trail'[k + 1] = box /\ hash'[k + 1] = bit
      BY <1>1, <1>3, <1>7, <1>8, <2>1 DEF n
    <3> QED
      BY <1>1, <2>1, <3>1 DEF b
  <2>2. CASE k \in 0 .. n - 1
    <3>1. /\ trail'[k + 2] = trail[k + 2] /\ trail'[k + 1] = trail[k + 1]
          /\ hash'[k + 1] = hash[k + 1]
      <4>1. k + 1 \in 1 .. n /\ k + 1 \in 1 .. n + 1 /\ k + 2 \in 1 .. n + 1
        BY <1>3, <2>2
      <4>2. trail'[k + 2] = trail[k + 2] /\ trail'[k + 1] = trail[k + 1]
        BY <1>8, <4>1
      <4>3. hash'[k + 1] = hash[k + 1]
        BY <1>7, <4>1
      <4> QED
        BY <4>2, <4>3
    <3>2. TrailOK
      BY <1>1
    <3>3. trail[k + 2] = Halved(trail[k + 1], Axis(k), hash[k + 1])
      BY <2>2, <3>2 DEF TrailOK, n
    <3> QED
      BY <3>1, <3>3
  <2> QED
    BY <1>3, <2>1, <2>2
<1>11. TrailOK'
  <2>0. trail[1] = Globe
    BY <1>1 DEF TrailOK
  <2>1. Len(hash') = n + 1 /\ Len(hash') <= Bits(call) /\ trail'[1] = Globe
    BY <1>1, <1>3, <1>7, <1>8, <2>0
  <2>2. trail'[Len(hash') + 1] = b /\ Len(hash') + 1 = n + 2 /\ Len(hash') - 1 = n
    BY <1>3, <1>8, <2>1
  <2> QED
    BY <1>2, <1>7, <1>8, <1>9, <1>10, <2>1, <2>2 DEF TrailOK
<1>12. OnTrail'
  BY <1>1, <1>2, <1>3, <1>7, <1>8 DEF OnTrail
<1> QED
  BY <1>1, <1>2, <1>11, <1>12 DEF LoopInv

(* The decoding goes along the trail. *)
LEMMA DecodeLoop ==
    ASSUME LoopInv, DecodeBit
    PROVE  LoopInv'
<1>1. CASE pc = "walk"
  BY <1>1 DEF LoopInv, DecodeBit
<1>2. CASE pc = "decode"
  <2>1. /\ TrailOK /\ OnTrail /\ call \in Calls /\ OnGlobe(call)
        /\ i \in Nat /\ i < Len(hash) /\ box = trail[i + 1]
    BY <1>2 DEF LoopInv, OnTrail, DecodeBit
  <2>2. /\ Len(hash) \in Nat /\ i < 2 * MaxCuts
        /\ i \in 0 .. Len(hash) - 1 /\ i \in 0 .. Len(hash)
        /\ hash[i + 1] \in {0, 1}
    BY <2>1, CallFacts, HalvingAssumption DEF TrailOK
  <2>3. IsBox(box) /\ Wide(box, i) /\ trail[i + 2] = Halved(box, Axis(i), hash[i + 1])
    BY <2>1, <2>2 DEF TrailOK
  <2>4. box' = trail[i + 2] /\ i' = i + 1
    BY <2>1, <2>2, <2>3, HalvedFacts DEF DecodeBit
  <2>5. UNCHANGED << pc, call, hash, found, trail >>
    BY DEF DecodeBit
  <2>6. TrailOK'
    BY <2>1, <2>5 DEF TrailOK
  <2>7. OnTrail'
    BY <1>2, <2>1, <2>2, <2>4, <2>5 DEF OnTrail
  <2> QED
    BY <1>2, <2>1, <2>5, <2>6, <2>7 DEF LoopInv
<1> QED
  BY <1>1, <1>2 DEF DecodeBit

(* The centre of a box lies in it, and not on its open border. *)
LEMMA CentreFacts ==
    ASSUME NEW n \in Nat, n <= 2 * MaxCuts, NEW b, IsBox(b), Wide(b, n),
           NEW axis \in Axes
    PROVE  /\ Centre(b)[axis] \in Int
           /\ b[axis].low < Centre(b)[axis] /\ Centre(b)[axis] <= b[axis].high
<1>1. Cuts(axis, n) \in 0 .. MaxCuts
  BY HalvingAssumption DEF Cuts, Axes
<1>2. b[axis].high - b[axis].low \in Nat \ {0}
  BY <1>1, HalvingAssumption DEF Wide
<1>3. b[axis].low \in Int /\ b[axis].high \in Int
  BY DEF IsBox, Axes
<1>4. Centre(b)[axis] = b[axis].high - (b[axis].high - b[axis].low) \div 2
  BY DEF Centre, Delta, Axes
<1> QED
  BY <1>2, <1>3, <1>4

(* Encoding the centre of the last box takes the same turns. *)
LEMMA AgainLoop ==
    ASSUME LoopInv, AgainBit
    PROVE  LoopInv'
<1> DEFINE last == trail[Len(hash) + 1]
           bit == Bit(box, Axis(i), Centre(found))
<1>1. /\ TrailOK /\ OnTrail /\ call \in Calls /\ OnGlobe(call) /\ pc = "again"
      /\ i \in Nat /\ i < Len(hash) /\ Len(hash) = Bits(call)
      /\ box = trail[i + 1] /\ found = last
  BY DEF LoopInv, OnTrail, AgainBit
<1>2. /\ Len(hash) \in Nat /\ Len(hash) <= 2 * MaxCuts /\ i < 2 * MaxCuts
      /\ i \in 0 .. Len(hash) - 1 /\ i \in 0 .. Len(hash)
      /\ i + 1 \in 0 .. Len(hash) /\ Len(hash) \in 0 .. Len(hash)
      /\ hash[i + 1] \in {0, 1}
  BY <1>1, CallFacts, HalvingAssumption DEF TrailOK
<1>3. /\ IsBox(box) /\ Wide(box, i)
      /\ trail[i + 2] = Halved(box, Axis(i), hash[i + 1])
  BY <1>1, <1>2 DEF TrailOK
<1>4. IsBox(last) /\ Wide(last, Len(hash))
  BY <1>1, <1>2 DEF TrailOK
<1>5. Inside(last, trail[i + 2])
  <2>1. Inside(last, trail[(i + 1) + 1])
    BY <1>1, <1>2 DEF TrailOK
  <2>2. (i + 1) + 1 = i + 2
    BY <1>2
  <2> QED
    BY <2>1, <2>2
<1> HIDE DEF last
<1>6. PICK a \in Axes : a = Axis(i)
  BY <1>1, <1>2, CutFacts
<1>7. /\ box \in [Axes -> [low : Int, high : Int]] /\ Mid(box[a]) \in Int
      /\ last \in [Axes -> [low : Int, high : Int]]
  BY <1>1, <1>2, <1>3, <1>4, <1>6, HalvedFacts DEF IsBox, Axes
<1>8. trail[i + 2][a] = HalfOf(box[a], hash[i + 1])
  BY <1>3, <1>6, <1>7 DEF Halved
<1>9. /\ Centre(found)[a] \in Int
      /\ last[a].low < Centre(found)[a] /\ Centre(found)[a] <= last[a].high
  BY <1>1, <1>2, <1>4, CentreFacts
<1>10. bit = hash[i + 1]
  <2>1. CASE hash[i + 1] = 1
    <3>1. Mid(box[a]) <= last[a].low
      BY <1>5, <1>8, <2>1 DEF Inside, HalfOf
    <3> QED
      BY <1>6, <1>7, <1>9, <2>1, <3>1 DEF Bit
  <2>2. CASE hash[i + 1] = 0
    <3>1. last[a].high <= Mid(box[a])
      BY <1>5, <1>8, <2>2 DEF Inside, HalfOf
    <3> QED
      BY <1>6, <1>7, <1>9, <2>2, <3>1 DEF Bit
  <2> QED
    BY <1>2, <2>1, <2>2
<1>11. /\ pc' = "again" /\ box' = trail[i + 2] /\ i' = i + 1
       /\ UNCHANGED << call, hash, found, trail >>
  BY <1>3, <1>10 DEF AgainBit
<1>12. TrailOK'
  BY <1>1, <1>11 DEF TrailOK
<1>13. OnTrail'
  BY <1>1, <1>2, <1>11 DEF OnTrail, last
<1> QED
  BY <1>1, <1>11, <1>12, <1>13 DEF LoopInv

LEMMA StepLoop == LoopInv /\ [Next]_vars => LoopInv'
<1> SUFFICES ASSUME LoopInv, [Next]_vars PROVE LoopInv'
  OBVIOUS
<1>1. CASE EncodeRefuses
  BY <1>1 DEF EncodeRefuses, LoopInv, TrailOK, OnTrail
<1>2. CASE EncodeEnds
  <2>1. TrailOK /\ OnTrail /\ Len(hash) = Bits(call) /\ Len(hash) \in Nat
    BY <1>2 DEF EncodeEnds, LoopInv, OnTrail, TrailOK
  <2>2. TrailOK'
    BY <1>2, <2>1 DEF EncodeEnds, TrailOK
  <2>3. OnTrail'
    BY <1>2, <2>1 DEF EncodeEnds, OnTrail, TrailOK
  <2> QED
    BY <1>2, <2>2, <2>3 DEF EncodeEnds, LoopInv
<1>3. CASE DecodeEnds
  <2>1. TrailOK /\ OnTrail /\ OnGlobe(call) /\ Len(hash) = Bits(call)
    BY <1>3 DEF DecodeEnds, LoopInv, OnTrail
  <2>2. TrailOK'
    BY <1>3, <2>1 DEF DecodeEnds, TrailOK
  <2>3. OnTrail'
    BY <1>3, <2>1 DEF DecodeEnds, OnTrail
  <2> QED
    BY <1>3, <2>2, <2>3 DEF DecodeEnds, LoopInv
<1>4. CASE AgainBegins
  <2>1. /\ TrailOK /\ OnTrail /\ OnGlobe(call) /\ Len(hash) = Bits(call)
        /\ Len(hash) \in Nat
    BY <1>4 DEF AgainBegins, LoopInv, OnTrail, TrailOK
  <2>2. TrailOK'
    BY <1>4, <2>1 DEF AgainBegins, TrailOK
  <2>3. OnTrail'
    BY <1>4, <2>1 DEF AgainBegins, OnTrail, TrailOK
  <2> QED
    BY <1>4, <2>2, <2>3 DEF AgainBegins, LoopInv
<1>5. CASE WalkBegins
  BY <1>5 DEF WalkBegins, LoopInv
<1>6. CASE UNCHANGED vars
  BY <1>6 DEF vars, LoopInv, TrailOK, OnTrail
<1> QED
  BY <1>1, <1>2, <1>3, <1>4, <1>5, <1>6, EncodeLoop, DecodeLoop, AgainLoop DEF Next

-----------------------------------------------------------------------------
LEMMA LoopAlways == Spec => []LoopInv
  BY InitLoop, StepLoop, PTL DEF Spec

LEMMA DecodedBox ==
    ASSUME LoopInv, pc = "decoded"
    PROVE  /\ Holds(box, call) /\ Wide(box, Bits(call))
           /\ call \in Calls /\ Len(hash) = Bits(call)
<1>1. /\ TrailOK /\ OnGlobe(call) /\ call \in Calls /\ Len(hash) = Bits(call)
      /\ box = trail[Len(hash) + 1]
  BY DEF LoopInv, OnTrail
<1>2. Len(hash) \in 0 .. Len(hash)
  BY <1>1 DEF TrailOK
<1> QED
  BY <1>1, <1>2 DEF TrailOK

(* The box geohash_decode makes of a hash holds the position               *)
(* geohash_encode made the hash of, for every position and precision.      *)
THEOREM BoxCorrect == Spec => []BoxHoldsPosition
<1>1. LoopInv => BoxHoldsPosition
  BY DecodedBox DEF BoxHoldsPosition
<1> QED
  BY <1>1, LoopAlways, PTL

(* The centre geohash_decode returns has the hash it was decoded from.     *)
THEOREM CentreCorrect == Spec => []CentreReturns
<1>1. LoopInv => CentreReturns
  BY DEF LoopInv, CentreReturns
<1> QED
  BY <1>1, LoopAlways, PTL

(* geohash_dimensions_for_precision tells the dimensions of a decoded box. *)
THEOREM DimensionsCorrect == Spec => []DimensionsAgree
<1>1. ASSUME LoopInv, pc = "decoded", NEW axis \in Axes
      PROVE  box[axis].high - box[axis].low =
               geohash_dimensions_for_precision(Chars(call.precision))[axis]
  <2>1. PICK p \in 1 .. 12 : p = Chars(call.precision)
    BY <1>1, DecodedBox, CallFacts DEF Chars
  <2>2. Wide(box, 5 * p)
    BY <1>1, <2>1, DecodedBox DEF Bits
  <2>3. /\ Cuts("lng", 5 * p) = (p * 5) \div 2 + (p % 2)
        /\ Cuts("lat", 5 * p) = (p * 5) \div 2
    BY DEF Cuts
  <2> QED
    BY <2>1, <2>2, <2>3 DEF Wide, Axes, geohash_dimensions_for_precision
<1>2. LoopInv => DimensionsAgree
  BY <1>1 DEF DimensionsAgree, Axes
<1> QED
  BY <1>2, LoopAlways, PTL

-----------------------------------------------------------------------------
(* Where the box of a hash lies: on each axis, which of how many equal     *)
(* parts of the globe it is.                                               *)
Places == [Axes -> [at : Int, of : Int]]
Whole == [axis \in Axes |-> [at |-> 0, of |-> 1]]
Deeper(s, axis, bit) ==
    [s EXCEPT ![axis] = [at |-> 2 * s[axis].at + bit, of |-> 2 * s[axis].of]]

Goes(h, f) ==
    /\ f \in [0 .. Len(h) -> Places] /\ f[0] = Whole
    /\ \A k \in 1 .. Len(h) : f[k] = Deeper(f[k - 1], Axis(k - 1), h[k])
Place(h) == CHOOSE f : Goes(h, f)

LEMMA DeeperIs ==
    ASSUME NEW s \in Places, NEW axis \in Axes, NEW bit \in {0, 1}
    PROVE  /\ Deeper(s, axis, bit) \in Places
           /\ Deeper(s, axis, bit)[axis] = [at |-> 2 * s[axis].at + bit, of |-> 2 * s[axis].of]
           /\ \A other \in Axes \ {axis} : Deeper(s, axis, bit)[other] = s[other]
  <1>1. s[axis].at \in Int /\ s[axis].of \in Int
    BY DEF Places
  <1>2. [at |-> 2 * s[axis].at + bit, of |-> 2 * s[axis].of] \in [at : Int, of : Int]
    BY <1>1
  <1> QED
    BY <1>2 DEF Deeper, Places

LEMMA PlaceIs ==
    ASSUME NEW h \in Seq({0, 1})
    PROVE  /\ Place(h)[0] = Whole
           /\ \A k \in 0 .. Len(h) : Place(h)[k] \in Places
           /\ \A k \in 0 .. Len(h) - 1 :
                Place(h)[k + 1] = Deeper(Place(h)[k], Axis(k), h[k + 1])
  <1> DEFINE n == Len(h)
             step == [p \in (1 .. n) \X Places |-> Deeper(p[2], Axis(p[1] - 1), h[p[1]])]
  <1>1. n \in Nat /\ \A k \in 1 .. n : h[k] \in {0, 1}
    BY LenProperties, ElementOfSeq
  <1>2. \A k \in Int : Axis(k) \in Axes
    BY DEF Axis, Axes
  <1>3. Whole \in Places
    BY DEF Whole, Places
  <1>4. \A k \in 1 .. n : \A s \in Places : Deeper(s, Axis(k - 1), h[k]) \in Places
    <2> TAKE k \in 1 .. n
    <2> TAKE s \in Places
    <2>1. Axis(k - 1) \in Axes /\ h[k] \in {0, 1}
      BY <1>1, <1>2
    <2> QED
      BY <2>1, DeeperIs
  <1>5. step \in [(1 .. n) \X Places -> Places]
    <2>1. \A p \in (1 .. n) \X Places : p[1] \in 1 .. n /\ p[2] \in Places
      OBVIOUS
    <2> QED
      BY <1>4, <2>1
  <1>6. \A k \in 1 .. n : \A s \in Places : step[<< k, s >>] = Deeper(s, Axis(k - 1), h[k])
    <2> TAKE k \in 1 .. n
    <2> TAKE s \in Places
    <2>1. << k, s >> \in (1 .. n) \X Places /\ << k, s >>[1] = k /\ << k, s >>[2] = s
      OBVIOUS
    <2> QED
      BY <2>1, Zenon
  <1> HIDE DEF step
  <1>7. PICK g : Recurs(Places, Whole, n, step, g)
    BY <1>1, <1>3, <1>5, Recursion
  <1>8. Goes(h, g)
    <2>1. g \in [0 .. n -> Places] /\ g[0] = Whole
      BY <1>7 DEF Recurs
    <2>2. ASSUME NEW k \in 1 .. n PROVE g[k] = Deeper(g[k - 1], Axis(k - 1), h[k])
      <3>1. g[k] = step[<< k, g[k - 1] >>]
        BY <1>7 DEF Recurs
      <3>2. g[k - 1] \in Places
        BY <1>1, <2>1
      <3> QED
        BY <1>6, <3>1, <3>2
    <2> QED
      BY <2>1, <2>2 DEF Goes
  <1>9. PICK f : f = Place(h)
    OBVIOUS
  <1>10. Goes(h, f)
    BY <1>8, <1>9, Zenon DEF Place
  <1>11. /\ f \in [0 .. n -> Places] /\ f[0] = Whole
         /\ \A k \in 1 .. n : f[k] = Deeper(f[k - 1], Axis(k - 1), h[k])
    BY <1>10 DEF Goes
  <1>12. ASSUME NEW k \in 0 .. n - 1 PROVE f[k + 1] = Deeper(f[k], Axis(k), h[k + 1])
    <2>1. k + 1 \in 1 .. n /\ (k + 1) - 1 = k
      BY <1>1
    <2>2. f[k + 1] = Deeper(f[(k + 1) - 1], Axis((k + 1) - 1), h[k + 1])
      BY <1>11, <2>1, Zenon
    <2> QED
      BY <2>1, <2>2, Zenon
  <1> QED
    BY <1>9, <1>11, <1>12

(* The place of a prefix does not depend on the rest of the hash. *)
LEMMA SamePlace ==
    ASSUME NEW h \in Seq({0, 1}), NEW g \in Seq({0, 1}), NEW n \in Nat, n <= Len(h), n <= Len(g),
           \A k \in 1 .. n : h[k] = g[k]
    PROVE  \A k \in 0 .. n : Place(h)[k] = Place(g)[k]
  <1> DEFINE S == {k \in Nat : k <= n => Place(h)[k] = Place(g)[k]}
  <1>1. 0 \in S
    BY PlaceIs
  <1>2. ASSUME NEW k \in Nat, k \in S PROVE k + 1 \in S
    <2> SUFFICES ASSUME k + 1 <= n PROVE Place(h)[k + 1] = Place(g)[k + 1]
      OBVIOUS
    <2>1. k \in 0 .. Len(h) - 1 /\ k \in 0 .. Len(g) - 1 /\ k + 1 \in 1 .. n /\ k <= n
      BY LenProperties
    <2>2. Place(h)[k] = Place(g)[k] /\ h[k + 1] = g[k + 1]
      BY <1>2, <2>1
    <2>3. /\ Place(h)[k + 1] = Deeper(Place(h)[k], Axis(k), h[k + 1])
          /\ Place(g)[k + 1] = Deeper(Place(g)[k], Axis(k), g[k + 1])
      BY <2>1, PlaceIs
    <2> QED
      BY <2>2, <2>3, Zenon
  <1> HIDE DEF S
  <1>3. Nat \subseteq S
    BY <1>1, <1>2, Induct
  <1> QED
    BY <1>3 DEF S

-----------------------------------------------------------------------------
(* The box after n bits, in those parts. *)
LowAt(b, s, n) ==
    \A axis \in Axes : /\ b[axis].low + Half = s[axis].at * Width[Cuts(axis, n)]
                       /\ s[axis].of * Width[Cuts(axis, n)] = 2 * Half

LEMMA Doubling ==
    \A c, w, e \in Int : /\ c * (2 * w) = (2 * c) * w
                         /\ (2 * c) * w + w = (2 * c + 1) * w
                         /\ c * w + e * w = (c + e) * w
  OBVIOUS

LEMMA LowDeeper ==
    ASSUME NEW n \in Nat, n < 2 * MaxCuts, NEW b, IsBox(b), Wide(b, n),
           NEW s \in Places, LowAt(b, s, n), NEW bit \in {0, 1}
    PROVE  LowAt(Halved(b, Axis(n), bit), Deeper(s, Axis(n), bit), n + 1)
  <1>1. PICK a \in Axes : a = Axis(n)
    BY CutFacts
  <1>2. PICK w \in Nat \ {0} : Width[Cuts(a, n + 1)] = w /\ Width[Cuts(a, n)] = 2 * w
    <2>1. Cuts(a, n) \in 0 .. MaxCuts - 1 /\ Cuts(a, n + 1) = Cuts(a, n) + 1
      BY <1>1, CutFacts
    <2>2. Cuts(a, n) + 1 \in 0 .. MaxCuts /\ MaxCuts \in Nat
      BY <2>1, HalvingAssumption
    <2> QED
      BY <2>1, <2>2, HalvingAssumption
  <1>3. b \in [Axes -> [low : Int, high : Int]] /\ Half \in Int
    BY HalvingAssumption DEF IsBox, Axes
  <1>4. PICK at \in Int, of \in Int, low \in Int :
          /\ s[a].at = at /\ s[a].of = of /\ b[a].low = low
          /\ low + Half = at * (2 * w) /\ of * (2 * w) = 2 * Half
    BY <1>2, <1>3 DEF Places, LowAt
  <1>5. /\ (2 * at) * w = low + Half /\ (2 * of) * w = 2 * Half
        /\ (2 * at + 1) * w = low + Half + w
    <2>1. at * (2 * w) = (2 * at) * w /\ of * (2 * w) = (2 * of) * w
          /\ (2 * at) * w + w = (2 * at + 1) * w
      BY Doubling
    <2>2. PICK m \in Int : m = (2 * at) * w
      OBVIOUS
    <2> QED
      BY <1>3, <1>4, <2>1, <2>2
  <1>6. /\ Halved(b, a, bit)[a] = HalfOf(b[a], bit)
        /\ \A axis \in Axes \ {a} : Halved(b, a, bit)[axis] = b[axis]
    BY <1>3 DEF Halved
  <1>7. HalfOf(b[a], bit).low = IF bit = 1 THEN low + w ELSE low
    <2>1. b[a].high - b[a].low = 2 * w
      BY <1>2 DEF Wide
    <2>2. Mid(b[a]) = b[a].low + w
      BY <1>3, <2>1, HalfFacts
    <2> QED
      BY <1>4, <2>2 DEF HalfOf
  <1>8. /\ Deeper(s, a, bit)[a].at = 2 * at + bit /\ Deeper(s, a, bit)[a].of = 2 * of
        /\ \A axis \in Axes \ {a} : Deeper(s, a, bit)[axis] = s[axis]
    <2>1. Deeper(s, a, bit)[a] = [at |-> 2 * s[a].at + bit, of |-> 2 * s[a].of]
      BY DeeperIs
    <2>2. \A axis \in Axes \ {a} : Deeper(s, a, bit)[axis] = s[axis]
      BY DeeperIs
    <2>3. Deeper(s, a, bit)[a].at = 2 * s[a].at + bit /\ Deeper(s, a, bit)[a].of = 2 * s[a].of
      BY <2>1
    <2> QED
      BY <1>4, <2>2, <2>3
  <1>9. /\ Halved(b, a, bit)[a].low + Half = Deeper(s, a, bit)[a].at * Width[Cuts(a, n + 1)]
        /\ Deeper(s, a, bit)[a].of * Width[Cuts(a, n + 1)] = 2 * Half
    <2>1. CASE bit = 0
      <3>1. Deeper(s, a, bit)[a].at = 2 * at /\ Halved(b, a, bit)[a].low = low
        BY <1>6, <1>7, <1>8, <2>1
      <3> QED
        BY <1>2, <1>5, <1>8, <3>1
    <2>2. CASE bit = 1
      <3>1. Deeper(s, a, bit)[a].at = 2 * at + 1 /\ Halved(b, a, bit)[a].low = low + w
        BY <1>6, <1>7, <1>8, <2>2
      <3>2. (low + w) + Half = low + Half + w
        BY <1>3
      <3> QED
        BY <1>2, <1>5, <1>8, <3>1, <3>2, Zenon
    <2> QED
      BY <2>1, <2>2
  <1>10. ASSUME NEW axis \in Axes \ {a}
         PROVE  /\ Halved(b, a, bit)[axis].low + Half
                      = Deeper(s, a, bit)[axis].at * Width[Cuts(axis, n + 1)]
                /\ Deeper(s, a, bit)[axis].of * Width[Cuts(axis, n + 1)] = 2 * Half
    <2>1. Cuts(axis, n + 1) = Cuts(axis, n)
      BY <1>1, CutFacts
    <2>2. /\ b[axis].low + Half = s[axis].at * Width[Cuts(axis, n)]
          /\ s[axis].of * Width[Cuts(axis, n)] = 2 * Half
      BY DEF LowAt
    <2>3. Halved(b, a, bit)[axis] = b[axis] /\ Deeper(s, a, bit)[axis] = s[axis]
      BY <1>6, <1>8
    <2> QED
      BY <2>1, <2>2, <2>3, Zenon
  <1> QED
    BY <1>1, <1>9, <1>10 DEF LowAt

LEMMA LowGlobe == LowAt(Globe, Whole, 0)
  <1>1. Width[0] = 2 * Half /\ Half \in Int
    BY HalvingAssumption
  <1>2. \A axis \in Axes : /\ Cuts(axis, 0) = 0 /\ Globe[axis].low = -Half
                           /\ Whole[axis].at = 0 /\ Whole[axis].of = 1
    BY DEF Cuts, Globe, Whole, Axes
  <1>3. -Half + Half = 0 * (2 * Half) /\ 1 * (2 * Half) = 2 * Half
    BY <1>1
  <1> QED
    BY <1>1, <1>2, <1>3 DEF LowAt

LEMMA TrailPlaces ==
    ASSUME TrailOK, call \in Calls
    PROVE  \A k \in 0 .. Len(hash) : LowAt(trail[k + 1], Place(hash)[k], k)
  <1> DEFINE S == {k \in Nat : k <= Len(hash) => LowAt(trail[k + 1], Place(hash)[k], k)}
  <1>1. hash \in Seq({0, 1}) /\ Len(hash) \in Nat /\ Len(hash) <= 2 * MaxCuts /\ MaxCuts \in Nat
    BY CallFacts, LenProperties, HalvingAssumption DEF TrailOK
  <1>2. 0 \in S
    <2>1. trail[0 + 1] = Globe /\ Place(hash)[0] = Whole
      BY <1>1, PlaceIs DEF TrailOK
    <2> QED
      BY <2>1, LowGlobe
  <1>3. ASSUME NEW k \in Nat, k \in S PROVE k + 1 \in S
    <2> SUFFICES ASSUME k + 1 <= Len(hash)
                 PROVE  LowAt(trail[(k + 1) + 1], Place(hash)[k + 1], k + 1)
      OBVIOUS
    <2>1. /\ k \in 0 .. Len(hash) - 1 /\ k \in 0 .. Len(hash) /\ (k + 1) + 1 = k + 2
          /\ k + 1 \in 1 .. Len(hash) /\ k < 2 * MaxCuts
      BY <1>1
    <2>2. /\ LowAt(trail[k + 1], Place(hash)[k], k) /\ Place(hash)[k] \in Places
          /\ hash[k + 1] \in {0, 1}
      BY <1>1, <1>3, <2>1, PlaceIs, ElementOfSeq
    <2>3. /\ IsBox(trail[k + 1]) /\ Wide(trail[k + 1], k)
          /\ trail[k + 2] = Halved(trail[k + 1], Axis(k), hash[k + 1])
      BY <2>1 DEF TrailOK
    <2>4. Place(hash)[k + 1] = Deeper(Place(hash)[k], Axis(k), hash[k + 1])
      BY <1>1, <2>1, PlaceIs
    <2>5. LowAt(Halved(trail[k + 1], Axis(k), hash[k + 1]),
                Deeper(Place(hash)[k], Axis(k), hash[k + 1]), k + 1)
      BY <2>1, <2>2, <2>3, LowDeeper
    <2> QED
      BY <2>1, <2>3, <2>4, <2>5, Zenon
  <1> HIDE DEF S
  <1>4. Nat \subseteq S
    BY <1>2, <1>3, Induct
  <1> QED
    BY <1>1, <1>4 DEF S

(* The one multiple of w that is less than w below a number. *)
LEMMA Division ==
    ASSUME NEW x \in Int, NEW w \in Nat \ {0}, NEW c \in Int, c * w <= x, x < c * w + w
    PROVE  x \div w = c
  OBVIOUS

(* The cell of a position is where a single division puts it: the boxes    *)
(* the bisection of geohash_encode ends in are the cells of a regular grid. *)
THEOREM GridCorrect == Spec => []CellsFormGrid
  <1>1. ASSUME LoopInv, pc = "decoded", NEW axis \in Axes
        PROVE  box[axis].low = Column(call[axis], Cuts(axis, Bits(call)))
                                 * Width[Cuts(axis, Bits(call))] - Half
    <2> DEFINE n == Bits(call)
               W == Width[Cuts(axis, n)]
    <2>1. /\ Holds(box, call) /\ Wide(box, n) /\ call \in Calls /\ Len(hash) = n
          /\ TrailOK /\ box = trail[Len(hash) + 1]
      BY <1>1, DecodedBox DEF LoopInv, OnTrail
    <2>2. n \in Nat /\ n <= 2 * MaxCuts /\ call[axis] \in Int /\ Half \in Nat \ {0}
      BY <2>1, CallFacts, HalvingAssumption
    <2>3. W \in Nat \ {0}
      <3>1. Cuts(axis, n) \in 0 .. MaxCuts
        BY <2>2, HalvingAssumption DEF Cuts, Axes
      <3> QED
        BY <3>1, HalvingAssumption
    <2>4. n \in 0 .. Len(hash)
      BY <2>1, <2>2
    <2>5. LowAt(box, Place(hash)[n], n) /\ Place(hash)[n] \in Places /\ IsBox(box)
      <3>1. LowAt(trail[n + 1], Place(hash)[n], n) /\ IsBox(trail[n + 1])
        BY <2>1, <2>4, TrailPlaces DEF TrailOK
      <3>2. hash \in Seq({0, 1})
        BY <2>1 DEF TrailOK
      <3> QED
        BY <2>1, <2>4, <3>1, <3>2, PlaceIs
    <2> HIDE DEF n
    <2>6. PICK low \in Int, x \in Int, c \in Int :
            /\ low = box[axis].low /\ x = call[axis]
            /\ low + Half = c * W /\ box[axis].high - box[axis].low = W
            /\ box[axis].high \in Int
      <3>1. box \in [Axes -> [low : Int, high : Int]]
        BY <2>5 DEF IsBox, Axes
      <3>2. box[axis].low \in Int /\ box[axis].high \in Int
        BY <3>1
      <3>3. Place(hash)[n][axis].at \in Int
        BY <2>5 DEF Places
      <3>4. box[axis].low + Half = Place(hash)[n][axis].at * W
        BY <2>5 DEF LowAt
      <3>5. box[axis].high - box[axis].low = W
        BY <2>1 DEF Wide, n
      <3> HIDE DEF W
      <3> QED
        BY <2>2, <3>2, <3>3, <3>4, <3>5, Zenon
    <2> HIDE DEF W
    <2>7. (low < x \/ (low = x /\ x = -Half)) /\ x <= low + W
      <3>1. /\ box[axis].low < call[axis] \/ (box[axis].low = call[axis] /\ call[axis] = -Half)
            /\ call[axis] <= box[axis].high
        BY <2>1 DEF Holds, Axes
      <3>2. PICK high \in Int : high = box[axis].high
        BY <2>6
      <3>3. high - low = W
        BY <2>6, <3>2
      <3>4. (low < x \/ (low = x /\ x = -Half)) /\ x <= high
        BY <2>6, <3>1, <3>2
      <3> QED
        BY <2>3, <3>3, <3>4
    <2>8. PICK m \in Int : m = c * W
      BY <2>3
    <2>9. CASE x = -Half
      <3>1. Inside(box, Globe)
        <4>1. 0 \in 0 .. Len(hash) /\ trail[0 + 1] = Globe
          BY <2>1, <2>2, <2>4 DEF TrailOK
        <4> QED
          BY <2>1, <4>1 DEF TrailOK
      <3>2. low >= -Half
        BY <2>6, <3>1 DEF Inside, Globe, Axes
      <3>3. low = -Half /\ 0 * W = 0
        BY <2>2, <2>3, <2>6, <2>7, <2>9, <3>2
      <3>4. Column(x, Cuts(axis, n)) = 0
        BY <2>9 DEF Column
      <3>5. low = 0 * W - Half
        BY <2>2, <3>3
      <3> QED
        BY <2>6, <3>4, <3>5, Zenon DEF W, n
    <2>10. CASE x # -Half
      <3>1. m <= x + Half - 1 /\ x + Half - 1 < m + W
        BY <2>2, <2>3, <2>6, <2>7, <2>8, <2>10
      <3>2. (x + Half - 1) \div W = c
        BY <2>2, <2>3, <2>8, <3>1, Division
      <3>3. low = c * W - Half
        BY <2>2, <2>6, <2>8
      <3> QED
        BY <2>6, <2>10, <3>2, <3>3 DEF Column, W, n
    <2> QED
      BY <2>9, <2>10
  <1>2. LoopInv => CellsFormGrid
    BY <1>1 DEF CellsFormGrid, Axes
  <1> QED
    BY <1>2, LoopAlways, PTL

-----------------------------------------------------------------------------
(* A character's bits on the axis it cuts three times, and on the other. *)
Three(x) == 4 * (x \div 16) + 2 * ((x \div 4) % 2) + (x % 2)
Two(x) == 2 * ((x \div 8) % 2) + ((x \div 2) % 2)

(* One step among size many, around the end if wraps. *)
Moves(from, to, size, step, wraps) ==
    to = from + step - (IF wraps THEN step * size ELSE 0)

(* What get_neighbor's tables do to these bits: m is what they put for its *)
(* entry.                                                                  *)
MovesThree(row, border, step) ==
    \A m \in 0 .. 31 :
        /\ row[m + 1] \in 0 .. 31 /\ Two(m) = Two(row[m + 1])
        /\ Moves(Three(row[m + 1]), Three(m), 8, step, row[m + 1] \in border)

MovesTwo(row, border, step) ==
    \A m \in 0 .. 31 :
        /\ row[m + 1] \in 0 .. 31 /\ Three(m) = Three(row[m + 1])
        /\ Moves(Two(row[m + 1]), Two(m), 4, step, row[m + 1] \in border)

Full(row) == \A c \in 0 .. 31 : \E m \in 0 .. 31 : row[m + 1] = c

LEMMA Fields ==
    /\ Three(0) = 0 /\ Two(0) = 0 /\ Three(1) = 1 /\ Two(1) = 0
    /\ Three(2) = 0 /\ Two(2) = 1 /\ Three(3) = 1 /\ Two(3) = 1
    /\ Three(4) = 2 /\ Two(4) = 0 /\ Three(5) = 3 /\ Two(5) = 0
    /\ Three(6) = 2 /\ Two(6) = 1 /\ Three(7) = 3 /\ Two(7) = 1
    /\ Three(8) = 0 /\ Two(8) = 2 /\ Three(9) = 1 /\ Two(9) = 2
    /\ Three(10) = 0 /\ Two(10) = 3 /\ Three(11) = 1 /\ Two(11) = 3
    /\ Three(12) = 2 /\ Two(12) = 2 /\ Three(13) = 3 /\ Two(13) = 2
    /\ Three(14) = 2 /\ Two(14) = 3 /\ Three(15) = 3 /\ Two(15) = 3
    /\ Three(16) = 4 /\ Two(16) = 0 /\ Three(17) = 5 /\ Two(17) = 0
    /\ Three(18) = 4 /\ Two(18) = 1 /\ Three(19) = 5 /\ Two(19) = 1
    /\ Three(20) = 6 /\ Two(20) = 0 /\ Three(21) = 7 /\ Two(21) = 0
    /\ Three(22) = 6 /\ Two(22) = 1 /\ Three(23) = 7 /\ Two(23) = 1
    /\ Three(24) = 4 /\ Two(24) = 2 /\ Three(25) = 5 /\ Two(25) = 2
    /\ Three(26) = 4 /\ Two(26) = 3 /\ Three(27) = 5 /\ Two(27) = 3
    /\ Three(28) = 6 /\ Two(28) = 2 /\ Three(29) = 7 /\ Two(29) = 2
    /\ Three(30) = 6 /\ Two(30) = 3 /\ Three(31) = 7 /\ Two(31) = 3
  BY DEF Three, Two

LEMMA Numbers ==
    \A m \in 0 .. 31 :
      \/ m = 0 \/ m = 1 \/ m = 2 \/ m = 3 \/ m = 4 \/ m = 5 \/ m = 6 \/ m = 7
      \/ m = 8 \/ m = 9 \/ m = 10 \/ m = 11 \/ m = 12 \/ m = 13 \/ m = 14 \/ m = 15
      \/ m = 16 \/ m = 17 \/ m = 18 \/ m = 19 \/ m = 20 \/ m = 21 \/ m = 22 \/ m = 23
      \/ m = 24 \/ m = 25 \/ m = 26 \/ m = 27 \/ m = 28 \/ m = 29 \/ m = 30 \/ m = 31
  OBVIOUS

LEMMA Row1 ==
    /\ even_neighbors[1][1] = 21 /\ even_neighbors[1][2] = 0 /\ even_neighbors[1][3] = 23
    /\ even_neighbors[1][4] = 2 /\ even_neighbors[1][5] = 1 /\ even_neighbors[1][6] = 4
    /\ even_neighbors[1][7] = 3 /\ even_neighbors[1][8] = 6 /\ even_neighbors[1][9] = 29
    /\ even_neighbors[1][10] = 8 /\ even_neighbors[1][11] = 31 /\ even_neighbors[1][12] = 10
    /\ even_neighbors[1][13] = 9 /\ even_neighbors[1][14] = 12 /\ even_neighbors[1][15] = 11
    /\ even_neighbors[1][16] = 14 /\ even_neighbors[1][17] = 5 /\ even_neighbors[1][18] = 16
    /\ even_neighbors[1][19] = 7 /\ even_neighbors[1][20] = 18 /\ even_neighbors[1][21] = 17
    /\ even_neighbors[1][22] = 20 /\ even_neighbors[1][23] = 19 /\ even_neighbors[1][24] = 22
    /\ even_neighbors[1][25] = 13 /\ even_neighbors[1][26] = 24 /\ even_neighbors[1][27] = 15
    /\ even_neighbors[1][28] = 26 /\ even_neighbors[1][29] = 25 /\ even_neighbors[1][30] = 28
    /\ even_neighbors[1][31] = 27 /\ even_neighbors[1][32] = 30
  BY DEF even_neighbors

LEMMA Row2 ==
    /\ even_neighbors[2][1] = 10 /\ even_neighbors[2][2] = 11 /\ even_neighbors[2][3] = 0
    /\ even_neighbors[2][4] = 1 /\ even_neighbors[2][5] = 14 /\ even_neighbors[2][6] = 15
    /\ even_neighbors[2][7] = 4 /\ even_neighbors[2][8] = 5 /\ even_neighbors[2][9] = 2
    /\ even_neighbors[2][10] = 3 /\ even_neighbors[2][11] = 8 /\ even_neighbors[2][12] = 9
    /\ even_neighbors[2][13] = 6 /\ even_neighbors[2][14] = 7 /\ even_neighbors[2][15] = 12
    /\ even_neighbors[2][16] = 13 /\ even_neighbors[2][17] = 26 /\ even_neighbors[2][18] = 27
    /\ even_neighbors[2][19] = 16 /\ even_neighbors[2][20] = 17 /\ even_neighbors[2][21] = 30
    /\ even_neighbors[2][22] = 31 /\ even_neighbors[2][23] = 20 /\ even_neighbors[2][24] = 21
    /\ even_neighbors[2][25] = 18 /\ even_neighbors[2][26] = 19 /\ even_neighbors[2][27] = 24
    /\ even_neighbors[2][28] = 25 /\ even_neighbors[2][29] = 22 /\ even_neighbors[2][30] = 23
    /\ even_neighbors[2][31] = 28 /\ even_neighbors[2][32] = 29
  BY DEF even_neighbors

LEMMA Row3 ==
    /\ even_neighbors[3][1] = 1 /\ even_neighbors[3][2] = 4 /\ even_neighbors[3][3] = 3
    /\ even_neighbors[3][4] = 6 /\ even_neighbors[3][5] = 5 /\ even_neighbors[3][6] = 16
    /\ even_neighbors[3][7] = 7 /\ even_neighbors[3][8] = 18 /\ even_neighbors[3][9] = 9
    /\ even_neighbors[3][10] = 12 /\ even_neighbors[3][11] = 11 /\ even_neighbors[3][12] = 14
    /\ even_neighbors[3][13] = 13 /\ even_neighbors[3][14] = 24 /\ even_neighbors[3][15] = 15
    /\ even_neighbors[3][16] = 26 /\ even_neighbors[3][17] = 17 /\ even_neighbors[3][18] = 20
    /\ even_neighbors[3][19] = 19 /\ even_neighbors[3][20] = 22 /\ even_neighbors[3][21] = 21
    /\ even_neighbors[3][22] = 0 /\ even_neighbors[3][23] = 23 /\ even_neighbors[3][24] = 2
    /\ even_neighbors[3][25] = 25 /\ even_neighbors[3][26] = 28 /\ even_neighbors[3][27] = 27
    /\ even_neighbors[3][28] = 30 /\ even_neighbors[3][29] = 29 /\ even_neighbors[3][30] = 8
    /\ even_neighbors[3][31] = 31 /\ even_neighbors[3][32] = 10
  BY DEF even_neighbors

LEMMA Row4 ==
    /\ even_neighbors[4][1] = 2 /\ even_neighbors[4][2] = 3 /\ even_neighbors[4][3] = 8
    /\ even_neighbors[4][4] = 9 /\ even_neighbors[4][5] = 6 /\ even_neighbors[4][6] = 7
    /\ even_neighbors[4][7] = 12 /\ even_neighbors[4][8] = 13 /\ even_neighbors[4][9] = 10
    /\ even_neighbors[4][10] = 11 /\ even_neighbors[4][11] = 0 /\ even_neighbors[4][12] = 1
    /\ even_neighbors[4][13] = 14 /\ even_neighbors[4][14] = 15 /\ even_neighbors[4][15] = 4
    /\ even_neighbors[4][16] = 5 /\ even_neighbors[4][17] = 18 /\ even_neighbors[4][18] = 19
    /\ even_neighbors[4][19] = 24 /\ even_neighbors[4][20] = 25 /\ even_neighbors[4][21] = 22
    /\ even_neighbors[4][22] = 23 /\ even_neighbors[4][23] = 28 /\ even_neighbors[4][24] = 29
    /\ even_neighbors[4][25] = 26 /\ even_neighbors[4][26] = 27 /\ even_neighbors[4][27] = 16
    /\ even_neighbors[4][28] = 17 /\ even_neighbors[4][29] = 30 /\ even_neighbors[4][30] = 31
    /\ even_neighbors[4][31] = 20 /\ even_neighbors[4][32] = 21
  BY DEF even_neighbors

LEMMA RowMoves1 ==
    /\ MovesThree(even_neighbors[1], even_borders[1], 1)
    /\ Full(even_neighbors[1])
  BY Numbers, Fields, Row1 DEF even_borders, MovesThree, Moves, Full

LEMMA RowMoves2 ==
    /\ MovesTwo(even_neighbors[2], even_borders[2], 1)
    /\ Full(even_neighbors[2])
  BY Numbers, Fields, Row2 DEF even_borders, MovesTwo, Moves, Full

LEMMA RowMoves3 ==
    /\ MovesThree(even_neighbors[3], even_borders[3], -1)
    /\ Full(even_neighbors[3])
  BY Numbers, Fields, Row3 DEF even_borders, MovesThree, Moves, Full

LEMMA RowMoves4 ==
    /\ MovesTwo(even_neighbors[4], even_borders[4], -1)
    /\ Full(even_neighbors[4])
  BY Numbers, Fields, Row4 DEF even_borders, MovesTwo, Moves, Full

-----------------------------------------------------------------------------
(* North and east lead up the axis, south and west down. *)
Line(d) == IF d % 2 = 1 THEN "lat" ELSE "lng"
Up(d) == IF d <= 2 THEN 1 ELSE -1

Borders(n) == IF n % 2 = 1 THEN odd_borders ELSE even_borders
Tables(n) == IF n % 2 = 1 THEN odd_neighbors ELSE even_neighbors

LEMMA FieldRange ==
    ASSUME NEW x \in 0 .. 31
    PROVE  Three(x) \in 0 .. 7 /\ Two(x) \in 0 .. 3
  BY DEF Three, Two

(* Of the axis that d lies along, character n has three bits or two. *)
LEMMA TableMoves ==
    ASSUME NEW n \in Nat, NEW d \in 1 .. 4
    PROVE  /\ IF Axis(n - 1) = Line(d)
              THEN MovesThree(Tables(n)[d], Borders(n)[d], Up(d))
              ELSE MovesTwo(Tables(n)[d], Borders(n)[d], Up(d))
           /\ Full(Tables(n)[d])
  <1> DEFINE r == IF n % 2 = 1 THEN << 2, 1, 4, 3 >>[d] ELSE d
  <1>1. << 2, 1, 4, 3 >>[1] = 2 /\ << 2, 1, 4, 3 >>[2] = 1
        /\ << 2, 1, 4, 3 >>[3] = 4 /\ << 2, 1, 4, 3 >>[4] = 3
    OBVIOUS
  <1>2. r \in 1 .. 4 /\ Tables(n)[d] = even_neighbors[r] /\ Borders(n)[d] = even_borders[r]
    <2>1. CASE n % 2 = 1
      <3>1. odd_neighbors[d] = even_neighbors[r] /\ odd_borders[d] = even_borders[r]
        BY <2>1 DEF odd_neighbors, odd_borders
      <3>2. r \in 1 .. 4
        BY <1>1, <2>1
      <3> QED
        BY <2>1, <3>1, <3>2 DEF Tables, Borders
    <2>2. CASE n % 2 # 1
      BY <2>2 DEF Tables, Borders
    <2> QED
      BY <2>1, <2>2
  <1>3. Axis(n - 1) = Line(d) <=> r \in {1, 3}
    <2>1. Axis(n - 1) = IF n % 2 = 1 THEN "lng" ELSE "lat"
      BY DEF Axis
    <2>2. d = 1 \/ d = 2 \/ d = 3 \/ d = 4
      OBVIOUS
    <2> QED
      BY <1>1, <2>1, <2>2 DEF Line
  <1>4. Up(d) = IF r <= 2 THEN 1 ELSE -1
    <2>1. d = 1 \/ d = 2 \/ d = 3 \/ d = 4
      OBVIOUS
    <2> QED
      BY <1>1, <2>1 DEF Up
  <1> HIDE DEF r
  <1>5. r = 1 \/ r = 2 \/ r = 3 \/ r = 4
    BY <1>2
  <1> QED
    BY <1>2, <1>3, <1>4, <1>5, RowMoves1, RowMoves2, RowMoves3, RowMoves4

-----------------------------------------------------------------------------
(* Characters as bits. *)
Binary == {0, 1}

LEMMA FiveBits ==
    ASSUME NEW a \in Binary, NEW b \in Binary, NEW c \in Binary, NEW d \in Binary, NEW e \in Binary
    PROVE  /\ 16 * a + 8 * b + 4 * c + 2 * d + e \in 0 .. 31
           /\ Three(16 * a + 8 * b + 4 * c + 2 * d + e) = 4 * a + 2 * c + e
           /\ Two(16 * a + 8 * b + 4 * c + 2 * d + e) = 2 * b + d
  BY DEF Three, Two, Binary

LEMMA CharFacts ==
    ASSUME NEW h \in Seq({0, 1}), NEW n \in Nat \ {0}, 5 * n <= Len(h)
    PROVE  /\ CharAt(h, n) \in 0 .. 31
           /\ Three(CharAt(h, n)) = 4 * h[5 * n - 4] + 2 * h[5 * n - 2] + h[5 * n]
           /\ Two(CharAt(h, n)) = 2 * h[5 * n - 3] + h[5 * n - 1]
           /\ h[5 * n - 4] \in {0, 1} /\ h[5 * n - 3] \in {0, 1} /\ h[5 * n - 2] \in {0, 1}
           /\ h[5 * n - 1] \in {0, 1} /\ h[5 * n] \in {0, 1}
  <1>1. /\ h[5 * n - 4] \in {0, 1} /\ h[5 * n - 3] \in {0, 1} /\ h[5 * n - 2] \in {0, 1}
        /\ h[5 * n - 1] \in {0, 1} /\ h[5 * n] \in {0, 1}
    BY ElementOfSeq, LenProperties
  <1>2. /\ h[5 * n - 4] \in Binary /\ h[5 * n - 3] \in Binary /\ h[5 * n - 2] \in Binary
        /\ h[5 * n - 1] \in Binary /\ h[5 * n] \in Binary
    BY <1>1, Zenon DEF Binary
  <1>3. /\ CharAt(h, n) \in 0 .. 31
        /\ Three(CharAt(h, n)) = 4 * h[5 * n - 4] + 2 * h[5 * n - 2] + h[5 * n]
        /\ Two(CharAt(h, n)) = 2 * h[5 * n - 3] + h[5 * n - 1]
    BY <1>2, FiveBits DEF CharAt
  <1> QED
    BY <1>1, <1>3, Zenon

LEMMA BitsFacts ==
    ASSUME NEW x \in 0 .. 31
    PROVE  /\ BitsOf(x) \in Seq({0, 1}) /\ Len(BitsOf(x)) = 5
           /\ x = 16 * BitsOf(x)[1] + 8 * BitsOf(x)[2] + 4 * BitsOf(x)[3]
                    + 2 * BitsOf(x)[4] + BitsOf(x)[5]
  <1>1. PICK a \in {0, 1}, b \in {0, 1}, c \in {0, 1}, d \in {0, 1}, e \in {0, 1} :
          /\ a = x \div 16 /\ b = (x \div 8) % 2 /\ c = (x \div 4) % 2
          /\ d = (x \div 2) % 2 /\ e = x % 2
    OBVIOUS
  <1>2. BitsOf(x) = << a, b, c, d, e >>
    BY <1>1 DEF BitsOf
  <1>3. x = 16 * a + 8 * b + 4 * c + 2 * d + e
    BY <1>1
  <1> QED
    BY <1>2, <1>3

(* A character put behind a hash. *)
Put(base, x) == base \o BitsOf(x)

LEMMA PutFacts ==
    ASSUME NEW base \in Seq({0, 1}), NEW x \in 0 .. 31
    PROVE  /\ Put(base, x) \in Seq({0, 1}) /\ Len(Put(base, x)) = Len(base) + 5
           /\ \A k \in 1 .. Len(base) : Put(base, x)[k] = base[k]
           /\ \A n \in Nat \ {0} : Len(base) = 5 * (n - 1) => CharAt(Put(base, x), n) = x
  <1> DEFINE b == BitsOf(x)
             p == Put(base, x)
  <1>1. /\ b \in Seq({0, 1}) /\ Len(b) = 5
        /\ x = 16 * b[1] + 8 * b[2] + 4 * b[3] + 2 * b[4] + b[5]
    BY BitsFacts
  <1>2. p = base \o b
    BY DEF Put
  <1> HIDE DEF b, p
  <1>3. /\ p \in Seq({0, 1}) /\ Len(p) = Len(base) + Len(b)
        /\ \A k \in 1 .. Len(base) + Len(b) :
             p[k] = IF k <= Len(base) THEN base[k] ELSE b[k - Len(base)]
    BY <1>1, <1>2, ConcatProperties, Zenon
  <1>4. Len(base) \in Nat
    BY LenProperties
  <1>5. \A k \in 1 .. Len(base) : p[k] = base[k]
    BY <1>1, <1>3, <1>4
  <1>6. ASSUME NEW n \in Nat \ {0}, Len(base) = 5 * (n - 1)
        PROVE  CharAt(p, n) = x
    <2>1. ASSUME NEW j \in 1 .. 5 PROVE p[Len(base) + j] = b[j]
      <3>1. /\ Len(base) + j \in 1 .. Len(base) + Len(b) /\ ~(Len(base) + j <= Len(base))
            /\ (Len(base) + j) - Len(base) = j
        BY <1>1, <1>4
      <3> QED
        BY <1>3, <3>1, Zenon
    <2>2. /\ p[Len(base) + 1] = b[1] /\ p[Len(base) + 2] = b[2] /\ p[Len(base) + 3] = b[3]
          /\ p[Len(base) + 4] = b[4] /\ p[Len(base) + 5] = b[5]
      BY <2>1
    <2>3. /\ 5 * n - 4 = Len(base) + 1 /\ 5 * n - 3 = Len(base) + 2 /\ 5 * n - 2 = Len(base) + 3
          /\ 5 * n - 1 = Len(base) + 4 /\ 5 * n = Len(base) + 5
      BY <1>6
    <2> QED
      BY <1>1, <2>2, <2>3, Zenon DEF CharAt
  <1> QED
    BY <1>1, <1>3, <1>5, <1>6 DEF p

-----------------------------------------------------------------------------
(* A character cuts one axis three times and the other twice. *)
Across(s, axis, x) ==
    [b \in Axes |-> IF b = axis
                    THEN [at |-> 8 * s[b].at + Three(x), of |-> 8 * s[b].of]
                    ELSE [at |-> 4 * s[b].at + Two(x), of |-> 4 * s[b].of]]

LEMMA DeeperParts ==
    ASSUME NEW p \in Places, NEW c \in Axes, NEW e \in Axes, c # e, NEW b \in Binary
    PROVE  LET q == Deeper(p, c, b)
           IN  /\ q[c].at = 2 * p[c].at + b /\ q[c].of = 2 * p[c].of
               /\ q[e].at = p[e].at /\ q[e].of = p[e].of
  <1>1. b \in {0, 1} /\ e \in Axes \ {c}
    BY DEF Binary
  <1>2. Deeper(p, c, b)[c] = [at |-> 2 * p[c].at + b, of |-> 2 * p[c].of]
    BY <1>1, DeeperIs
  <1>3. \A other \in Axes \ {c} : Deeper(p, c, b)[other] = p[other]
    BY <1>1, DeeperIs
  <1>4. /\ Deeper(p, c, b)[c].at = 2 * p[c].at + b
        /\ Deeper(p, c, b)[c].of = 2 * p[c].of
    BY <1>2
  <1> QED
    BY <1>1, <1>3, <1>4, Zenon

LEMMA CharPlace ==
    ASSUME NEW h \in Seq({0, 1}), NEW n \in Nat \ {0}, 5 * n <= Len(h)
    PROVE  /\ Place(h)[5 * n] = Across(Place(h)[5 * (n - 1)], Axis(n - 1), CharAt(h, n))
           /\ Place(h)[5 * n] \in Places /\ Place(h)[5 * (n - 1)] \in Places
  <1>1. PICK k \in Nat : k = 5 * (n - 1)
    OBVIOUS
  <1>2. /\ k \in 0 .. Len(h) - 1 /\ k + 1 \in 0 .. Len(h) - 1 /\ k + 2 \in 0 .. Len(h) - 1
        /\ k + 3 \in 0 .. Len(h) - 1 /\ k + 4 \in 0 .. Len(h) - 1 /\ k + 5 = 5 * n
        /\ 5 * n - 4 = k + 1 /\ 5 * n - 3 = k + 2 /\ 5 * n - 2 = k + 3 /\ 5 * n - 1 = k + 4
        /\ k \in 0 .. Len(h) /\ k + 5 \in 0 .. Len(h)
        /\ (k + 1) + 1 = k + 2 /\ (k + 2) + 1 = k + 3 /\ (k + 3) + 1 = k + 4 /\ (k + 4) + 1 = k + 5
    BY <1>1, LenProperties
  <1>3. PICK b1 \in Binary, b2 \in Binary, b3 \in Binary, b4 \in Binary, b5 \in Binary :
          b1 = h[k + 1] /\ b2 = h[k + 2] /\ b3 = h[k + 3] /\ b4 = h[k + 4] /\ b5 = h[k + 5]
    BY <1>2, CharFacts DEF Binary
  <1>4. /\ Three(CharAt(h, n)) = 4 * b1 + 2 * b3 + b5 /\ Two(CharAt(h, n)) = 2 * b2 + b4
    BY <1>2, <1>3, CharFacts
  <1>5. PICK a \in Axes, o \in Axes :
          /\ a # o /\ Axes = {a, o} /\ Axis(n - 1) = a
          /\ Axis(k) = a /\ Axis(k + 1) = o /\ Axis(k + 2) = a /\ Axis(k + 3) = o /\ Axis(k + 4) = a
    <2>1. k % 2 = (n - 1) % 2 /\ (k + 1) % 2 # k % 2 /\ (k + 2) % 2 = k % 2
          /\ (k + 3) % 2 # k % 2 /\ (k + 4) % 2 = k % 2 /\ k % 2 \in {0, 1}
          /\ (k + 1) % 2 \in {0, 1} /\ (k + 3) % 2 \in {0, 1}
      BY <1>1
    <2>2. CASE k % 2 = 0
      BY <2>1, <2>2 DEF Axis, Axes
    <2>3. CASE k % 2 = 1
      BY <2>1, <2>3 DEF Axis, Axes
    <2> QED
      BY <2>1, <2>2, <2>3
  <1>6. PICK s \in Places : s = Place(h)[k]
    BY <1>2, PlaceIs
  <1>7. /\ Place(h)[k + 1] = Deeper(s, a, b1)
        /\ Place(h)[k + 2] = Deeper(Place(h)[k + 1], o, b2)
        /\ Place(h)[k + 3] = Deeper(Place(h)[k + 2], a, b3)
        /\ Place(h)[k + 4] = Deeper(Place(h)[k + 3], o, b4)
        /\ Place(h)[k + 5] = Deeper(Place(h)[k + 4], a, b5)
    <2>1. \A j \in 0 .. Len(h) - 1 : Place(h)[j + 1] = Deeper(Place(h)[j], Axis(j), h[j + 1])
      BY PlaceIs
    <2>2. Place(h)[k + 1] = Deeper(Place(h)[k], Axis(k), h[k + 1])
      BY <1>2, <2>1, Zenon
    <2>3. Place(h)[(k + 1) + 1] = Deeper(Place(h)[k + 1], Axis(k + 1), h[(k + 1) + 1])
      BY <1>2, <2>1, Zenon
    <2>4. Place(h)[(k + 2) + 1] = Deeper(Place(h)[k + 2], Axis(k + 2), h[(k + 2) + 1])
      BY <1>2, <2>1, Zenon
    <2>5. Place(h)[(k + 3) + 1] = Deeper(Place(h)[k + 3], Axis(k + 3), h[(k + 3) + 1])
      BY <1>2, <2>1, Zenon
    <2>6. Place(h)[(k + 4) + 1] = Deeper(Place(h)[k + 4], Axis(k + 4), h[(k + 4) + 1])
      BY <1>2, <2>1, Zenon
    <2> QED
      BY <1>2, <1>3, <1>5, <1>6, <2>2, <2>3, <2>4, <2>5, <2>6, Zenon
  <1>9. /\ Place(h)[k + 1] \in Places /\ Place(h)[k + 2] \in Places /\ Place(h)[k + 3] \in Places
        /\ Place(h)[k + 4] \in Places /\ Place(h)[k + 5] \in Places
    <2>1. /\ k + 1 \in 0 .. Len(h) /\ k + 2 \in 0 .. Len(h) /\ k + 3 \in 0 .. Len(h)
          /\ k + 4 \in 0 .. Len(h) /\ k + 5 \in 0 .. Len(h)
      BY <1>2, LenProperties
    <2> QED
      BY <2>1, PlaceIs, Zenon
  <1>p1. PICK p1 \in Places : p1 = Place(h)[k + 1]
    BY <1>9
  <1>p2. PICK p2 \in Places : p2 = Place(h)[k + 2]
    BY <1>9
  <1>p3. PICK p3 \in Places : p3 = Place(h)[k + 3]
    BY <1>9
  <1>p4. PICK p4 \in Places : p4 = Place(h)[k + 4]
    BY <1>9
  <1>p5. PICK p5 \in Places : p5 = Place(h)[k + 5]
    BY <1>9
  <1>10. /\ p1[a].at = 2 * s[a].at + b1 /\ p1[a].of = 2 * s[a].of /\ p1[o].at = s[o].at /\ p1[o].of = s[o].of
         /\ p2[o].at = 2 * p1[o].at + b2 /\ p2[o].of = 2 * p1[o].of /\ p2[a].at = p1[a].at /\ p2[a].of = p1[a].of
         /\ p3[a].at = 2 * p2[a].at + b3 /\ p3[a].of = 2 * p2[a].of /\ p3[o].at = p2[o].at /\ p3[o].of = p2[o].of
         /\ p4[o].at = 2 * p3[o].at + b4 /\ p4[o].of = 2 * p3[o].of /\ p4[a].at = p3[a].at /\ p4[a].of = p3[a].of
         /\ p5[a].at = 2 * p4[a].at + b5 /\ p5[a].of = 2 * p4[a].of /\ p5[o].at = p4[o].at /\ p5[o].of = p4[o].of
    <2>0. /\ o # a /\ a # o /\ b1 \in Binary /\ b2 \in Binary /\ b3 \in Binary /\ b4 \in Binary
          /\ b5 \in Binary
      BY <1>5 DEF Binary
    <2>1. p1[a].at = 2 * s[a].at + b1 /\ p1[a].of = 2 * s[a].of /\ p1[o].at = s[o].at /\ p1[o].of = s[o].of
      <3>1. p1 = Deeper(s, a, b1)
        BY <1>7, <1>p1, Zenon
      <3> QED
        BY DeeperParts, <2>0, <3>1, SMT
    <2>2. p2[o].at = 2 * p1[o].at + b2 /\ p2[o].of = 2 * p1[o].of /\ p2[a].at = p1[a].at /\ p2[a].of = p1[a].of
      <3>1. p2 = Deeper(p1, o, b2)
        BY <1>7, <1>p1, <1>p2, Zenon
      <3> QED
        BY DeeperParts, <2>0, <3>1, SMT
    <2>3. p3[a].at = 2 * p2[a].at + b3 /\ p3[a].of = 2 * p2[a].of /\ p3[o].at = p2[o].at /\ p3[o].of = p2[o].of
      <3>1. p3 = Deeper(p2, a, b3)
        BY <1>7, <1>p2, <1>p3, Zenon
      <3> QED
        BY DeeperParts, <2>0, <3>1, SMT
    <2>4. p4[o].at = 2 * p3[o].at + b4 /\ p4[o].of = 2 * p3[o].of /\ p4[a].at = p3[a].at /\ p4[a].of = p3[a].of
      <3>1. p4 = Deeper(p3, o, b4)
        BY <1>7, <1>p3, <1>p4, Zenon
      <3> QED
        BY DeeperParts, <2>0, <3>1, SMT
    <2>5. p5[a].at = 2 * p4[a].at + b5 /\ p5[a].of = 2 * p4[a].of /\ p5[o].at = p4[o].at /\ p5[o].of = p4[o].of
      <3>1. p5 = Deeper(p4, a, b5)
        BY <1>7, <1>p4, <1>p5, Zenon
      <3> QED
        BY DeeperParts, <2>0, <3>1, SMT
    <2> QED
      BY <2>1, <2>2, <2>3, <2>4, <2>5, Zenon
  <1>11. PICK x \in Int, y \in Int, u \in Int, v \in Int :
           s[a].at = x /\ s[a].of = u /\ s[o].at = y /\ s[o].of = v
    BY DEF Places
  <1>12. /\ p5[a].at = 8 * x + (4 * b1 + 2 * b3 + b5) /\ p5[a].of = 8 * u
         /\ p5[o].at = 4 * y + (2 * b2 + b4) /\ p5[o].of = 4 * v
    <2>1. p5[a].at = 2 * (2 * (2 * x + b1) + b3) + b5 /\ p5[a].of = 2 * (2 * (2 * u))
      BY <1>10, <1>11, Zenon
    <2>2. p5[o].at = 2 * (2 * y + b2) + b4 /\ p5[o].of = 2 * (2 * v)
      BY <1>10, <1>11, Zenon
    <2> QED
      BY <2>1, <2>2 DEF Binary
  <1>13. /\ p5[a] = [at |-> p5[a].at, of |-> p5[a].of] /\ p5[o] = [at |-> p5[o].at, of |-> p5[o].of]
         /\ p5 = [b \in Axes |-> p5[b]]
    BY DEF Places
  <1>14. \A b \in Axes : p5[b] = Across(s, a, CharAt(h, n))[b]
    <2>1. p5[a] = Across(s, a, CharAt(h, n))[a]
      <3>1. Across(s, a, CharAt(h, n))[a] =
              [at |-> 8 * x + Three(CharAt(h, n)), of |-> 8 * u]
        BY <1>11 DEF Across
      <3> QED
        BY <1>4, <1>12, <1>13, <3>1, Zenon
    <2>2. p5[o] = Across(s, a, CharAt(h, n))[o]
      <3>1. Across(s, a, CharAt(h, n))[o] =
              [at |-> 4 * y + Two(CharAt(h, n)), of |-> 4 * v]
        BY <1>5, <1>11 DEF Across
      <3> QED
        BY <1>4, <1>12, <1>13, <3>1, Zenon
    <2> QED
      BY <1>5, <2>1, <2>2
  <1>15. p5 = Across(s, a, CharAt(h, n))
    <2>1. Across(s, a, CharAt(h, n)) = [b \in Axes |-> Across(s, a, CharAt(h, n))[b]]
      BY DEF Across
    <2> QED
      BY <1>13, <1>14, <2>1
  <1> QED
    BY <1>1, <1>2, <1>5, <1>6, <1>p5, <1>15

-----------------------------------------------------------------------------
(* One turn of get_neighbor's recursion. *)
Bases(h, d, n, before) ==
    IF CharAt(h, n) \in Borders(n)[d] THEN before ELSE {SubSeq(h, 1, 5 * (n - 1))}
Entry(h, d, n) == index_for_char(CharAt(h, n), Tables(n)[d])
Turn(h, d, n, before) == {base \o BitsOf(Entry(h, d, n)) : base \in Bases(h, d, n, before)}
Outside == {<< >>} \cup {BitsOf(char) : char \in 0 .. 31}

Nears(h, d, f) ==
    f = [n \in 0 .. Len(h) \div 5 |-> IF n = 0 THEN Outside ELSE Turn(h, d, n, f[n - 1])]

LEMMA EntryFacts ==
    ASSUME NEW h \in Seq({0, 1}), NEW n \in Nat \ {0}, 5 * n <= Len(h), NEW d \in 1 .. 4
    PROVE  Entry(h, d, n) \in 0 .. 31 /\ Tables(n)[d][Entry(h, d, n) + 1] = CharAt(h, n)
  <1>1. PICK c \in 0 .. 31 : c = CharAt(h, n)
    BY CharFacts
  <1>2. Full(Tables(n)[d])
    BY TableMoves, Zenon
  <1>3. PICK m \in 0 .. 31 : Tables(n)[d][m + 1] = c
    BY <1>2, Zenon DEF Full
  <1> QED
    BY <1>1, <1>3, Zenon DEF Entry, index_for_char

LEMMA TurnFacts ==
    ASSUME NEW h \in Seq({0, 1}), NEW n \in Nat \ {0}, 5 * n <= Len(h), NEW d \in 1 .. 4,
           NEW before \in SUBSET Seq({0, 1})
    PROVE  /\ Turn(h, d, n, before) \in SUBSET Seq({0, 1})
           /\ \A g \in Turn(h, d, n, before) :
                \E base \in Bases(h, d, n, before) : g = Put(base, Entry(h, d, n))
           /\ SubSeq(h, 1, 5 * (n - 1)) \in Seq({0, 1})
           /\ Len(SubSeq(h, 1, 5 * (n - 1))) = 5 * (n - 1)
           /\ \A k \in 1 .. 5 * (n - 1) : SubSeq(h, 1, 5 * (n - 1))[k] = h[k]
  <1> DEFINE front == SubSeq(h, 1, 5 * (n - 1))
  <1>1. /\ front \in Seq({0, 1}) /\ Len(front) = 5 * (n - 1)
        /\ \A k \in 1 .. 5 * (n - 1) : front[k] = h[k]
    <2>1. PICK m \in Nat : m = 5 * (n - 1) /\ m <= Len(h)
      BY LenProperties
    <2>2. SubSeq(h, 1, m) \in Seq({0, 1}) /\ Len(SubSeq(h, 1, m)) = m
          /\ \A k \in 1 .. m : SubSeq(h, 1, m)[k] = h[k]
      BY <2>1
    <2> QED
      BY <2>1, <2>2, Zenon
  <1>2. Bases(h, d, n, before) \subseteq Seq({0, 1})
    BY <1>1 DEF Bases
  <1>3. \A g \in Turn(h, d, n, before) :
          \E base \in Bases(h, d, n, before) : g = Put(base, Entry(h, d, n))
    BY Zenon DEF Turn, Put
  <1>4. ASSUME NEW g \in Turn(h, d, n, before)
        PROVE  g \in Seq({0, 1})
    <2>1. PICK base \in Bases(h, d, n, before) : g = Put(base, Entry(h, d, n))
      BY <1>3, Zenon
    <2>2. base \in Seq({0, 1})
      BY <1>2, Zenon
    <2>3. PICK e : e = Entry(h, d, n)
      OBVIOUS
    <2>4. e \in 0 .. 31
      BY <2>3, EntryFacts
    <2> QED
      BY <2>1, <2>2, <2>3, <2>4, PutFacts
  <1> QED
    BY <1>1, <1>3, <1>4

LEMMA OutsideFacts == Outside \in SUBSET Seq({0, 1})
  <1>1. \A char \in 0 .. 31 : BitsOf(char) \in Seq({0, 1})
    BY BitsFacts
  <1>2. << >> \in Seq({0, 1})
    BY EmptySeq
  <1>3. \A g \in Outside : g = << >> \/ \E char \in 0 .. 31 : g = BitsOf(char)
    BY Zenon DEF Outside
  <1> QED
    BY <1>1, <1>2, <1>3, Zenon

(* The recursion has a value, which get_neighbor returns. *)
LEMMA NearExists ==
    ASSUME NEW h \in Seq({0, 1}), NEW d \in 1 .. 4
    PROVE  \E f : /\ get_neighbor(h, d) = f[Len(h) \div 5]
                  /\ f[0] = Outside
                  /\ \A n \in 1 .. Len(h) \div 5 : f[n] = Turn(h, d, n, f[n - 1])
                  /\ \A n \in 0 .. Len(h) \div 5 : f[n] \in SUBSET Seq({0, 1})
  <1> DEFINE m == Len(h) \div 5
             V == SUBSET Seq({0, 1})
             step == [p \in (1 .. m) \X V |-> Turn(h, d, p[1], p[2])]
  <1>1. m \in Nat /\ \A n \in 1 .. m : n \in Nat \ {0} /\ 5 * n <= Len(h)
    BY LenProperties
  <1>2. \A n \in 1 .. m : \A v \in V : Turn(h, d, n, v) \in V
    BY <1>1, TurnFacts
  <1>3. Outside \in V
    BY OutsideFacts
  <1> HIDE DEF V
  <1>4. step \in [(1 .. m) \X V -> V]
    <2>1. \A p \in (1 .. m) \X V : p[1] \in 1 .. m /\ p[2] \in V
      OBVIOUS
    <2> QED
      BY <1>2, <2>1
  <1>5. \A n \in 1 .. m : \A v \in V : step[<< n, v >>] = Turn(h, d, n, v)
    <2> TAKE n \in 1 .. m
    <2> TAKE v \in V
    <2>1. << n, v >> \in (1 .. m) \X V /\ << n, v >>[1] = n /\ << n, v >>[2] = v
      OBVIOUS
    <2> QED
      BY <2>1, Zenon
  <1> HIDE DEF step
  <1>6. PICK g : Recurs(V, Outside, m, step, g)
    BY <1>1, <1>3, <1>4, Recursion
  <1>7. Nears(h, d, g)
    <2>1. g \in [0 .. m -> V] /\ g[0] = Outside
      BY <1>6 DEF Recurs
    <2>2. ASSUME NEW n \in 0 .. m
          PROVE  g[n] = IF n = 0 THEN Outside ELSE Turn(h, d, n, g[n - 1])
      <3>1. CASE n = 0
        BY <2>1, <3>1
      <3>2. CASE n \in 1 .. m
        <4>1. g[n] = step[<< n, g[n - 1] >>] /\ g[n - 1] \in V /\ n # 0
          <5>1. n # 0 /\ n - 1 \in 0 .. m
            BY <1>1, <3>2
          <5>2. \A j \in 1 .. m : g[j] = step[<< j, g[j - 1] >>]
            BY <1>6, Zenon DEF Recurs
          <5>3. \A j \in 0 .. m : g[j] \in V
            BY <2>1
          <5> QED
            BY <3>2, <5>1, <5>2, <5>3, Zenon
        <4> QED
          BY <1>5, <3>2, <4>1, Zenon
      <3> QED
        BY <1>1, <3>1, <3>2
    <2> QED
      BY <2>1, <2>2 DEF Nears, m
  <1>8. PICK f : f = (CHOOSE e : Nears(h, d, e))
    OBVIOUS
  <1>9. Nears(h, d, f)
    BY <1>7, <1>8, Zenon
  <1>10. get_neighbor(h, d) = f[m]
    <2>1. get_neighbor(h, d) = (CHOOSE f_1 : Nears(h, d, f_1))[m]
      BY Zenon DEF get_neighbor, Nears, Turn, Entry, Bases, Borders, Tables, Outside
    <2> QED
      BY <1>8, <2>1, Zenon
  <1>11. \A n \in 0 .. m : f[n] = IF n = 0 THEN Outside ELSE Turn(h, d, n, f[n - 1])
    BY <1>9, Zenon DEF Nears, m
  <1>12. f[0] = Outside /\ \A n \in 1 .. m : f[n] = Turn(h, d, n, f[n - 1])
    <2>1. 0 \in 0 .. m /\ \A n \in 1 .. m : n \in 0 .. m /\ n # 0
      BY <1>1
    <2> QED
      BY <1>11, <2>1, Zenon
  <1>13. \A n \in 0 .. m : f[n] \in V
    <2> DEFINE S == {n \in Nat : n <= m => f[n] \in V}
    <2>1. 0 \in S
      BY <1>3, <1>12
    <2>2. ASSUME NEW n \in Nat, n \in S PROVE n + 1 \in S
      <3> SUFFICES ASSUME n + 1 <= m PROVE f[n + 1] \in V
        OBVIOUS
      <3>1. f[n] \in V /\ n + 1 \in 1 .. m /\ (n + 1) - 1 = n
        BY <1>1, <2>2
      <3>2. f[n + 1] = Turn(h, d, n + 1, f[(n + 1) - 1])
        BY <1>12, <3>1, Zenon
      <3> QED
        BY <1>2, <3>1, <3>2, Zenon
    <2> HIDE DEF S
    <2>3. Nat \subseteq S
      BY <2>1, <2>2, Induct
    <2> QED
      BY <1>1, <2>3 DEF S
  <1> QED
    BY <1>10, <1>12, <1>13 DEF m, V

-----------------------------------------------------------------------------
(* A place one step in direction d, and when there is none. *)
Stepped(s, d) ==
    [s EXCEPT ![Line(d)] = [at |-> s[Line(d)].at + Up(d), of |-> s[Line(d)].of]]
Beyond(s, d) ==
    \/ s[Line(d)].at + Up(d) < 0
    \/ s[Line(d)].at + Up(d) >= s[Line(d)].of

LEMMA SteppedIs ==
    ASSUME NEW s \in Places, NEW d \in 1 .. 4
    PROVE  /\ Stepped(s, d) \in Places /\ Line(d) \in Axes /\ Up(d) \in {1, -1}
           /\ Stepped(s, d)[Line(d)].at = s[Line(d)].at + Up(d)
           /\ Stepped(s, d)[Line(d)].of = s[Line(d)].of
           /\ \A other \in Axes \ {Line(d)} : Stepped(s, d)[other] = s[other]
  <1>1. Line(d) \in Axes /\ Up(d) \in {1, -1}
    BY DEF Line, Axes, Up
  <1>2. s[Line(d)].at \in Int /\ s[Line(d)].of \in Int
    BY <1>1 DEF Places
  <1> DEFINE v == [at |-> s[Line(d)].at + Up(d), of |-> s[Line(d)].of]
  <1>3. v \in [at : Int, of : Int] /\ v.at = s[Line(d)].at + Up(d) /\ v.of = s[Line(d)].of
    BY <1>1, <1>2
  <1> HIDE DEF v
  <1>4. Stepped(s, d) = [s EXCEPT ![Line(d)] = v]
    BY Zenon DEF Stepped, v
  <1>5. /\ Stepped(s, d) \in Places /\ Stepped(s, d)[Line(d)] = v
        /\ \A other \in Axes \ {Line(d)} : Stepped(s, d)[other] = s[other]
    BY <1>1, <1>3, <1>4 DEF Places
  <1> QED
    BY <1>1, <1>3, <1>5

LEMMA PlacesEqual ==
    ASSUME NEW p \in Places, NEW q \in Places,
           \A axis \in Axes : p[axis].at = q[axis].at /\ p[axis].of = q[axis].of
    PROVE  p = q
  <1>1. \A axis \in Axes : /\ p[axis] = [at |-> p[axis].at, of |-> p[axis].of]
                           /\ q[axis] = [at |-> q[axis].at, of |-> q[axis].of]
    BY DEF Places
  <1>2. \A axis \in Axes : p[axis] = q[axis]
    BY <1>1, Zenon
  <1>3. p = [axis \in Axes |-> p[axis]] /\ q = [axis \in Axes |-> q[axis]]
    BY DEF Places
  <1> QED
    BY <1>2, <1>3

CutsBoth(s, a, x, p) ==
    /\ p \in Places
    /\ \A b \in Axes :
         /\ p[b].at = IF b = a THEN 8 * s[b].at + Three(x) ELSE 4 * s[b].at + Two(x)
         /\ p[b].of = IF b = a THEN 8 * s[b].of ELSE 4 * s[b].of

LEMMA AcrossIs ==
    ASSUME NEW s \in Places, NEW a \in Axes, NEW x \in 0 .. 31
    PROVE  CutsBoth(s, a, x, Across(s, a, x))
  <1>1. Three(x) \in Int /\ Two(x) \in Int
    BY FieldRange
  <1>2. \A b \in Axes : s[b].at \in Int /\ s[b].of \in Int
    BY DEF Places
  <1>3. ASSUME NEW b \in Axes
        PROVE  /\ Across(s, a, x)[b] \in [at : Int, of : Int]
               /\ Across(s, a, x)[b].at = IF b = a THEN 8 * s[b].at + Three(x)
                                                   ELSE 4 * s[b].at + Two(x)
               /\ Across(s, a, x)[b].of = IF b = a THEN 8 * s[b].of ELSE 4 * s[b].of
    <2>1. CASE b = a
      <3>1. Across(s, a, x)[b] = [at |-> 8 * s[b].at + Three(x), of |-> 8 * s[b].of]
        BY <2>1 DEF Across
      <3> QED
        BY <1>1, <1>2, <2>1, <3>1
    <2>2. CASE b # a
      <3>1. Across(s, a, x)[b] = [at |-> 4 * s[b].at + Two(x), of |-> 4 * s[b].of]
        BY <2>2 DEF Across
      <3> QED
        BY <1>1, <1>2, <2>2, <3>1
    <2> QED
      BY <2>1, <2>2
  <1>4. Across(s, a, x) = [b \in Axes |-> Across(s, a, x)[b]]
    BY DEF Across
  <1>5. Across(s, a, x) \in Places
    BY <1>3, <1>4 DEF Places
  <1> QED
    BY <1>3, <1>5 DEF CutsBoth

(* What an entry of a table does to the bits of a character. *)
Replaces(c, m, a, d, border) ==
    IF a = Line(d)
    THEN Two(m) = Two(c) /\ Moves(Three(c), Three(m), 8, Up(d), c \in border)
    ELSE Three(m) = Three(c) /\ Moves(Two(c), Two(m), 4, Up(d), c \in border)

(* A character replaced so lies one step away, if it wraps in the parent   *)
(* one step away; where that is beyond the globe, the step is too.         *)
Steps(s, a, c, m, d, border) ==
    /\ c \notin border => Across(s, a, m) = Stepped(Across(s, a, c), d)
    /\ c \in border => Across(Stepped(s, d), a, m) = Stepped(Across(s, a, c), d)
    /\ c \in border /\ Beyond(s, d) => Beyond(Across(s, a, c), d)

LEMMA AcrossStep ==
    ASSUME NEW s \in Places, NEW a \in Axes, NEW c \in 0 .. 31, NEW m \in 0 .. 31,
           NEW d \in 1 .. 4, NEW border, Replaces(c, m, a, d, border)
    PROVE  Steps(s, a, c, m, d, border)
  <1>1. PICK l \in Axes : l = Line(d)
    BY SteppedIs
  <1>2. PICK up \in {1, -1} : up = Up(d)
    BY SteppedIs
  <1>3. PICK from \in 0 .. 7, to \in 0 .. 7, size \in {4, 8} :
          /\ from = IF a = l THEN Three(c) ELSE Two(c)
          /\ to = IF a = l THEN Three(m) ELSE Two(m)
          /\ size = IF a = l THEN 8 ELSE 4
          /\ from < size /\ to < size
    BY FieldRange
  <1>4. /\ to = from + up - (IF c \in border THEN up * size ELSE 0)
        /\ (IF a = l THEN Two(m) ELSE Three(m)) = (IF a = l THEN Two(c) ELSE Three(c))
    BY <1>1, <1>2, <1>3 DEF Replaces, Moves
  <1>5. PICK x \in Int, u \in Int : x = s[l].at /\ u = s[l].of
    BY DEF Places
  <1>6. /\ Across(s, a, c) \in Places /\ Across(s, a, m) \in Places
        /\ Across(s, a, c)[l].at = size * x + from /\ Across(s, a, c)[l].of = size * u
        /\ Across(s, a, m)[l].at = size * x + to /\ Across(s, a, m)[l].of = size * u
        /\ \A o \in Axes \ {l} : /\ Across(s, a, c)[o].at = Across(s, a, m)[o].at
                                 /\ Across(s, a, c)[o].of = Across(s, a, m)[o].of
    <2>1. CutsBoth(s, a, c, Across(s, a, c))
      BY AcrossIs, Zenon
    <2>m. CutsBoth(s, a, m, Across(s, a, m))
      BY AcrossIs, Zenon
    <2>2. /\ Across(s, a, c)[l].at = size * x + from /\ Across(s, a, c)[l].of = size * u
          /\ Across(s, a, m)[l].at = size * x + to /\ Across(s, a, m)[l].of = size * u
      <3>1. CASE a = l
        <4>1. from = Three(c) /\ to = Three(m) /\ size = 8
          BY <1>3, <3>1
        <4> QED
          BY <1>5, <2>1, <2>m, <3>1, <4>1 DEF CutsBoth
      <3>2. CASE a # l
        <4>1. from = Two(c) /\ to = Two(m) /\ size = 4
          BY <1>3, <3>2
        <4> QED
          BY <1>5, <2>1, <2>m, <3>2, <4>1 DEF CutsBoth
      <3> QED
        BY <3>1, <3>2
    <2>3. \A o \in Axes \ {l} : /\ Across(s, a, c)[o].at = Across(s, a, m)[o].at
                                 /\ Across(s, a, c)[o].of = Across(s, a, m)[o].of
      <3>1. Axes = {"lat", "lng"}
        BY DEF Axes
      <3> TAKE o \in Axes \ {l}
      <3>3. o = a <=> a # l
        BY <3>1
      <3>4. CASE a = l
        BY <1>4, <2>1, <2>m, <3>3, <3>4 DEF CutsBoth
      <3>5. CASE a # l
        BY <1>4, <2>1, <2>m, <3>3, <3>5 DEF CutsBoth
      <3> QED
        BY <3>4, <3>5
    <2> QED
      BY <2>1, <2>m, <2>2, <2>3 DEF CutsBoth
  <1>7. PICK t \in Places : t = Stepped(Across(s, a, c), d)
    BY <1>6, SteppedIs
  <1>8. /\ t[l].at = size * x + from + up /\ t[l].of = size * u
        /\ \A o \in Axes \ {l} : t[o] = Across(s, a, c)[o]
    BY <1>1, <1>2, <1>6, <1>7, SteppedIs
  <1>9. ASSUME c \notin border PROVE Across(s, a, m) = t
    <2>1. size * x + to = size * x + from + up
      BY <1>4, <1>9
    <2>2. \A axis \in Axes : /\ Across(s, a, m)[axis].at = t[axis].at
                             /\ Across(s, a, m)[axis].of = t[axis].of
      BY <1>6, <1>8, <2>1
    <2> QED
      BY <1>6, <2>2, PlacesEqual
  <1>10. ASSUME c \in border PROVE Across(Stepped(s, d), a, m) = t
    <2>1. PICK r \in Places : r = Stepped(s, d)
      BY SteppedIs
    <2>2. /\ r[l].at = x + up /\ r[l].of = u
          /\ \A o \in Axes \ {l} : r[o] = s[o]
      BY <1>1, <1>2, <1>5, <2>1, SteppedIs
    <2>3. /\ Across(r, a, m) \in Places
          /\ Across(r, a, m)[l].at = size * (x + up) + to /\ Across(r, a, m)[l].of = size * u
          /\ \A o \in Axes \ {l} : /\ Across(s, a, c)[o].at = Across(r, a, m)[o].at
                                   /\ Across(s, a, c)[o].of = Across(r, a, m)[o].of
      <3>1. CutsBoth(r, a, m, Across(r, a, m))
        BY AcrossIs, Zenon
      <3>m. CutsBoth(s, a, m, Across(s, a, m))
        BY AcrossIs, Zenon
      <3>2. /\ Across(r, a, m)[l].at = size * (x + up) + to
            /\ Across(r, a, m)[l].of = size * u
        <4>1. CASE a = l
          <5>1. to = Three(m) /\ size = 8
            BY <1>3, <4>1
          <5> QED
            BY <2>2, <3>1, <4>1, <5>1 DEF CutsBoth
        <4>2. CASE a # l
          <5>1. to = Two(m) /\ size = 4
            BY <1>3, <4>2
          <5> QED
            BY <2>2, <3>1, <4>2, <5>1 DEF CutsBoth
        <4> QED
          BY <4>1, <4>2
      <3>3. \A o \in Axes \ {l} : /\ Across(s, a, m)[o].at = Across(r, a, m)[o].at
                                   /\ Across(s, a, m)[o].of = Across(r, a, m)[o].of
        BY <2>2, <3>1, <3>m DEF CutsBoth
      <3> QED
        BY <1>6, <3>1, <3>2, <3>3 DEF CutsBoth
    <2>4. size * (x + up) + to = size * x + from + up
      BY <1>4, <1>10
    <2>5. \A axis \in Axes : /\ Across(r, a, m)[axis].at = t[axis].at
                             /\ Across(r, a, m)[axis].of = t[axis].of
      BY <1>8, <2>3, <2>4
    <2> QED
      BY <2>1, <2>3, <2>5, PlacesEqual
  <1>11. ASSUME c \in border, Beyond(s, d) PROVE Beyond(Across(s, a, c), d)
    <2>1. x + up < 0 \/ x + up >= u
      BY <1>1, <1>2, <1>5, <1>11 DEF Beyond
    <2>2. size * x + from + up < 0 \/ size * x + from + up >= size * u
      BY <1>3, <1>4, <1>11, <2>1
    <2> QED
      BY <1>1, <1>2, <1>6, <2>2 DEF Beyond
  <1> QED
    BY <1>7, <1>9, <1>10, <1>11 DEF Steps

-----------------------------------------------------------------------------
(* What get_neighbor may return: a hash as long, one step away, unless     *)
(* that is beyond the globe.                                               *)
Beside(h, d, g, n) ==
    Beyond(Place(h)[n], d) \/ (Len(g) = n /\ Place(g)[n] = Stepped(Place(h)[n], d))

LEMMA TurnBeside ==
    ASSUME NEW h \in Seq({0, 1}), NEW n \in Nat \ {0}, 5 * n <= Len(h), NEW d \in 1 .. 4,
           NEW before \in SUBSET Seq({0, 1}),
           \A base \in before : Beside(h, d, base, 5 * (n - 1)),
           NEW g \in Turn(h, d, n, before)
    PROVE  Beside(h, d, g, 5 * n)
  <1> DEFINE front == SubSeq(h, 1, 5 * (n - 1))
             e == Entry(h, d, n)
             c == CharAt(h, n)
             a == Axis(n - 1)
             s == Place(h)[5 * (n - 1)]
             border == Borders(n)[d]
  <1>1. PICK base \in Bases(h, d, n, before) : g = Put(base, e)
    BY TurnFacts
  <1>2. /\ front \in Seq({0, 1}) /\ Len(front) = 5 * (n - 1)
        /\ \A k \in 1 .. 5 * (n - 1) : front[k] = h[k]
    BY TurnFacts
  <1>3. e \in 0 .. 31 /\ c \in 0 .. 31 /\ Tables(n)[d][e + 1] = c
    BY EntryFacts, CharFacts
  <1>4. /\ Place(h)[5 * n] = Across(s, a, c) /\ s \in Places /\ a \in Axes
    <2>1. Axis(n - 1) \in Axes
      BY DEF Axis, Axes
    <2> QED
      BY <2>1, CharPlace
  <1>5. base \in IF c \in border THEN before ELSE {front}
    BY Zenon DEF Bases
  <1>6. Replaces(c, e, a, d, border)
    <2>1. IF a = Line(d)
          THEN MovesThree(Tables(n)[d], Borders(n)[d], Up(d))
          ELSE MovesTwo(Tables(n)[d], Borders(n)[d], Up(d))
      BY TableMoves
    <2> HIDE DEF e, c, a, border
    <2>2. CASE a = Line(d)
      <3>1. Two(e) = Two(c) /\ Moves(Three(c), Three(e), 8, Up(d), c \in border)
        BY <1>3, <2>1, <2>2, Zenon DEF MovesThree, border
      <3> QED
        BY <2>2, <3>1 DEF Replaces, border
    <2>3. CASE a # Line(d)
      <3>1. Three(e) = Three(c) /\ Moves(Two(c), Two(e), 4, Up(d), c \in border)
        BY <1>3, <2>1, <2>3, Zenon DEF MovesTwo, border
      <3> QED
        BY <2>3, <3>1 DEF Replaces, border
    <2> QED
      BY <2>2, <2>3
  <1>7. base \in Seq({0, 1})
    BY <1>2, <1>5
  <1> HIDE DEF e, c, a, border, s
  <1>s. Steps(s, a, c, e, d, border)
    BY <1>3, <1>4, <1>6, AcrossStep
  <1>8. ASSUME Len(base) = 5 * (n - 1)
        PROVE  /\ Len(g) = 5 * n
               /\ Place(g)[5 * n] = Across(Place(base)[5 * (n - 1)], a, e)
    <2>1. /\ g \in Seq({0, 1}) /\ Len(g) = Len(base) + 5
          /\ \A k \in 1 .. Len(base) : g[k] = base[k]
          /\ CharAt(g, n) = e
      BY <1>1, <1>3, <1>7, <1>8, PutFacts
    <2>2. Len(g) = 5 * n /\ 5 * n <= Len(g) /\ 5 * (n - 1) <= Len(g) /\ 5 * (n - 1) \in Nat
          /\ 5 * (n - 1) <= Len(base) /\ 5 * (n - 1) \in 0 .. 5 * (n - 1)
      BY <1>8, <2>1
    <2>3. Place(g)[5 * (n - 1)] = Place(base)[5 * (n - 1)]
      <3>1. \A k \in 1 .. 5 * (n - 1) : g[k] = base[k]
        BY <1>8, <2>1
      <3> QED
        BY <1>7, <2>1, <2>2, <3>1, SamePlace
    <2>4. Place(g)[5 * n] = Across(Place(g)[5 * (n - 1)], a, CharAt(g, n))
      BY <2>1, <2>2, CharPlace DEF a
    <2> QED
      BY <2>1, <2>2, <2>3, <2>4
  <1>9. CASE c \notin border
    <2>1. base = front /\ Len(base) = 5 * (n - 1)
      BY <1>2, <1>5, <1>9
    <2>2. Place(front)[5 * (n - 1)] = s
      <3>1. 5 * (n - 1) \in Nat /\ 5 * (n - 1) <= Len(h) /\ 5 * (n - 1) <= Len(front)
            /\ 5 * (n - 1) \in 0 .. 5 * (n - 1)
        BY <1>2, LenProperties
      <3> QED
        BY <1>2, <3>1, SamePlace DEF s
    <2>3. Place(g)[5 * n] = Across(s, a, e) /\ Len(g) = 5 * n
      BY <1>8, <2>1, <2>2
    <2>4. Across(s, a, e) = Stepped(Across(s, a, c), d)
      BY <1>s, <1>9, Zenon DEF Steps
    <2> QED
      BY <1>4, <2>3, <2>4 DEF Beside
  <1>10. CASE c \in border
    <2>1. Beyond(s, d) \/ (Len(base) = 5 * (n - 1) /\ Place(base)[5 * (n - 1)] = Stepped(s, d))
      BY <1>5, <1>10 DEF Beside, s
    <2>2. CASE Beyond(s, d)
      <3>1. Beyond(Across(s, a, c), d)
        BY <1>s, <1>10, <2>2, Zenon DEF Steps
      <3> QED
        BY <1>4, <3>1 DEF Beside
    <2>3. CASE Len(base) = 5 * (n - 1) /\ Place(base)[5 * (n - 1)] = Stepped(s, d)
      <3>1. Place(g)[5 * n] = Across(Stepped(s, d), a, e) /\ Len(g) = 5 * n
        BY <1>8, <2>3
      <3>2. Across(Stepped(s, d), a, e) = Stepped(Across(s, a, c), d)
        BY <1>s, <1>10, Zenon DEF Steps
      <3> QED
        BY <1>4, <3>1, <3>2 DEF Beside
    <2> QED
      BY <2>1, <2>2, <2>3
  <1> QED
    BY <1>9, <1>10

LEMMA WholeBeyond == \A d \in 1 .. 4 : Beyond(Whole, d)
  <1>1. \A axis \in Axes : Whole[axis].at = 0 /\ Whole[axis].of = 1
    BY DEF Whole
  <1> QED
    BY <1>1, SteppedIs DEF Beyond, Line, Axes, Up

(* get_neighbor, on a hash of whole characters. *)
LEMMA NeighbourBeside ==
    ASSUME NEW h \in Seq({0, 1}), NEW d \in 1 .. 4
    PROVE  /\ get_neighbor(h, d) \in SUBSET Seq({0, 1})
           /\ \A m \in Nat : Len(h) = 5 * m =>
                \A g \in get_neighbor(h, d) : Beside(h, d, g, Len(h))
  <1> DEFINE m == Len(h) \div 5
  <1>1. m \in Nat /\ \A n \in 1 .. m : n \in Nat \ {0} /\ 5 * n <= Len(h)
    BY LenProperties
  <1>2. PICK f : /\ get_neighbor(h, d) = f[m] /\ f[0] = Outside
                 /\ \A n \in 1 .. m : f[n] = Turn(h, d, n, f[n - 1])
                 /\ \A n \in 0 .. m : f[n] \in SUBSET Seq({0, 1})
    BY NearExists
  <1> DEFINE S == {n \in Nat : n <= m => \A g \in f[n] : Beside(h, d, g, 5 * n)}
  <1>3. 0 \in S
    <2>1. Place(h)[0] = Whole
      BY PlaceIs
    <2>2. Beyond(Place(h)[5 * 0], d)
      BY <2>1, WholeBeyond
    <2> QED
      BY <2>2 DEF Beside
  <1>4. ASSUME NEW n \in Nat, n \in S PROVE n + 1 \in S
    <2> SUFFICES ASSUME n + 1 <= m, NEW g \in f[n + 1]
                 PROVE  Beside(h, d, g, 5 * (n + 1))
      OBVIOUS
    <2>1. /\ n + 1 \in 1 .. m /\ n \in 0 .. m /\ (n + 1) - 1 = n
          /\ \A base \in f[n] : Beside(h, d, base, 5 * n)
      BY <1>1, <1>4
    <2>2. f[n + 1] = Turn(h, d, n + 1, f[(n + 1) - 1])
      BY <1>2, <2>1, Zenon
    <2>3. g \in Turn(h, d, n + 1, f[n]) /\ f[n] \in SUBSET Seq({0, 1})
      BY <1>2, <2>1, <2>2, Zenon
    <2>4. n + 1 \in Nat \ {0} /\ 5 * (n + 1) <= Len(h)
      BY <1>1, <2>1
    <2>5. \A base \in f[n] : Beside(h, d, base, 5 * ((n + 1) - 1))
      BY <2>1, Zenon
    <2> QED
      BY <2>3, <2>4, <2>5, TurnBeside, Zenon
  <1> HIDE DEF S
  <1>5. Nat \subseteq S
    BY <1>3, <1>4, Induct
  <1>6. \A g \in get_neighbor(h, d) : Beside(h, d, g, 5 * m)
    BY <1>1, <1>2, <1>5 DEF S
  <1>7. \A k \in Nat : Len(h) = 5 * k => 5 * m = Len(h)
    OBVIOUS
  <1>8. m \in 0 .. m
    BY <1>1
  <1> QED
    BY <1>2, <1>6, <1>7, <1>8, Zenon

-----------------------------------------------------------------------------
(* How far direction o of geohash_neighbors leads on each axis. *)
By(o, axis) == IF axis = "lat" THEN Offset[o][1] ELSE Offset[o][2]
OffGlobe(s, o) == \E axis \in Axes : s[axis].at + By(o, axis) \notin 0 .. s[axis].of - 1
MovedBy(s, o, t) ==
    \A axis \in Axes : t[axis].at = s[axis].at + By(o, axis) /\ t[axis].of = s[axis].of

Neighbour(h, o, g) ==
    \/ OffGlobe(Place(h)[Len(h)], o)
    \/ Len(g) = Len(h) /\ MovedBy(Place(h)[Len(h)], o, Place(g)[Len(h)])

Corner(h, d, e) == UNION {get_neighbor(g, e) : g \in get_neighbor(h, d)}

LEMMA DirectNeighbour ==
    ASSUME NEW h \in Seq({0, 1}), NEW m \in Nat, Len(h) = 5 * m, NEW d \in 1 .. 4,
           NEW o, By(o, Line(d)) = Up(d), \A axis \in Axes \ {Line(d)} : By(o, axis) = 0,
           NEW g \in get_neighbor(h, d)
    PROVE  g \in Seq({0, 1}) /\ Neighbour(h, o, g)
  <1>1. g \in Seq({0, 1}) /\ Beside(h, d, g, Len(h))
    BY NeighbourBeside
  <1>2. PICK s \in Places : s = Place(h)[Len(h)]
    <2>1. Len(h) \in 0 .. Len(h)
      OBVIOUS
    <2> QED
      BY <2>1, PlaceIs
  <1>3. Line(d) \in Axes /\ Up(d) \in Int /\ \A axis \in Axes : s[axis].at \in Int /\ s[axis].of \in Int
    <2>1. Line(d) \in Axes /\ Up(d) \in Int
      BY DEF Line, Axes, Up
    <2>2. \A axis \in Axes : s[axis].at \in Int /\ s[axis].of \in Int
      BY DEF Places
    <2> QED
      BY <2>1, <2>2
  <1>4. CASE Beyond(s, d)
    <2>1. s[Line(d)].at + By(o, Line(d)) \notin 0 .. s[Line(d)].of - 1
      BY <1>3, <1>4 DEF Beyond
    <2> QED
      BY <1>1, <1>2, <1>3, <2>1, Zenon DEF Neighbour, OffGlobe
  <1>5. CASE Len(g) = Len(h) /\ Place(g)[Len(h)] = Stepped(s, d)
    <2>1. MovedBy(s, o, Stepped(s, d))
      <3> SUFFICES ASSUME NEW axis \in Axes
                   PROVE  /\ Stepped(s, d)[axis].at = s[axis].at + By(o, axis)
                          /\ Stepped(s, d)[axis].of = s[axis].of
        BY DEF MovedBy
      <3>1. CASE axis = Line(d)
        BY <3>1, SteppedIs
      <3>2. CASE axis # Line(d)
        <4>1. Stepped(s, d)[axis] = s[axis] /\ By(o, axis) = 0
          BY <3>2, SteppedIs
        <4> QED
          BY <1>3, <4>1
      <3> QED
        BY <3>1, <3>2
    <2> QED
      BY <1>1, <1>2, <1>5, <2>1, Zenon DEF Neighbour
  <1> QED
    BY <1>1, <1>2, <1>4, <1>5 DEF Beside

LEMMA CornerNeighbour ==
    ASSUME NEW h \in Seq({0, 1}), NEW m \in Nat, Len(h) = 5 * m, NEW d \in 1 .. 4, NEW e \in 1 .. 4,
           Line(d) # Line(e), NEW o, By(o, Line(d)) = Up(d), By(o, Line(e)) = Up(e),
           NEW g \in Corner(h, d, e)
    PROVE  g \in Seq({0, 1}) /\ Neighbour(h, o, g)
  <1>1. PICK f \in get_neighbor(h, d) : g \in get_neighbor(f, e)
    BY Zenon DEF Corner
  <1>2. f \in Seq({0, 1}) /\ Beside(h, d, f, Len(h))
    BY NeighbourBeside
  <1>3. g \in Seq({0, 1}) /\ (Len(f) = Len(h) => Beside(f, e, g, Len(h)))
    BY <1>1, <1>2, NeighbourBeside
  <1>4. PICK s \in Places : s = Place(h)[Len(h)]
    <2>1. Len(h) \in 0 .. Len(h)
      OBVIOUS
    <2> QED
      BY <2>1, PlaceIs
  <1>5. /\ Line(d) \in Axes /\ Up(d) \in Int /\ Line(e) \in Axes /\ Up(e) \in Int
        /\ Axes = {Line(d), Line(e)}
        /\ \A axis \in Axes : s[axis].at \in Int /\ s[axis].of \in Int
    <2>1. /\ Line(d) \in Axes /\ Up(d) \in Int /\ Line(e) \in Axes /\ Up(e) \in Int
          /\ Axes = {Line(d), Line(e)}
      BY DEF Line, Axes, Up
    <2>2. \A axis \in Axes : s[axis].at \in Int /\ s[axis].of \in Int
      BY DEF Places
    <2> QED
      BY <2>1, <2>2
  <1>6. CASE Beyond(s, d)
    <2>1. s[Line(d)].at + By(o, Line(d)) \notin 0 .. s[Line(d)].of - 1
      BY <1>5, <1>6 DEF Beyond
    <2> QED
      BY <1>3, <1>4, <1>5, <2>1, Zenon DEF Neighbour, OffGlobe
  <1>7. CASE Len(f) = Len(h) /\ Place(f)[Len(h)] = Stepped(s, d)
    <2>1. PICK t \in Places : t = Stepped(s, d)
      BY SteppedIs
    <2>2. /\ t[Line(d)].at = s[Line(d)].at + Up(d) /\ t[Line(d)].of = s[Line(d)].of
          /\ t[Line(e)] = s[Line(e)]
      <3>1. /\ Stepped(s, d)[Line(d)].at = s[Line(d)].at + Up(d)
            /\ Stepped(s, d)[Line(d)].of = s[Line(d)].of
            /\ \A other \in Axes \ {Line(d)} : Stepped(s, d)[other] = s[other]
        BY SteppedIs
      <3>2. Line(e) \in Axes \ {Line(d)}
        BY <1>5
      <3> QED
        BY <2>1, <3>1, <3>2, Zenon
    <2>3. Beyond(t, e) \/ (Len(g) = Len(h) /\ Place(g)[Len(h)] = Stepped(t, e))
      BY <1>3, <1>7, <2>1 DEF Beside
    <2>4. CASE Beyond(t, e)
      <3>1. s[Line(e)].at + By(o, Line(e)) \notin 0 .. s[Line(e)].of - 1
        BY <1>5, <2>2, <2>4 DEF Beyond
      <3> QED
        BY <1>3, <1>4, <1>5, <3>1, Zenon DEF Neighbour, OffGlobe
    <2>5. CASE Len(g) = Len(h) /\ Place(g)[Len(h)] = Stepped(t, e)
      <3>1. /\ Stepped(t, e)[Line(e)].at = t[Line(e)].at + Up(e)
            /\ Stepped(t, e)[Line(e)].of = t[Line(e)].of
            /\ Stepped(t, e)[Line(d)] = t[Line(d)]
        BY <1>5, SteppedIs
      <3>2. MovedBy(s, o, Stepped(t, e))
        BY <1>5, <2>2, <3>1 DEF MovedBy
      <3> QED
        BY <1>3, <1>4, <2>5, <3>2, Zenon DEF Neighbour
    <2> QED
      BY <2>3, <2>4, <2>5
  <1> QED
    BY <1>2, <1>4, <1>6, <1>7 DEF Beside

LEMMA NeighboursFacts ==
    ASSUME NEW h \in Seq({0, 1}), NEW m \in Nat, Len(h) = 5 * m
    PROVE  /\ DOMAIN geohash_neighbors(h) = DOMAIN Offset
           /\ \A o \in DOMAIN Offset : \A g \in geohash_neighbors(h)[o] :
                g \in Seq({0, 1}) /\ Neighbour(h, o, g)
  <1>1. geohash_neighbors(h) =
          [N |-> get_neighbor(h, NORTH), NE |-> Corner(h, NORTH, EAST),
           E |-> get_neighbor(h, EAST), SE |-> Corner(h, EAST, SOUTH),
           S |-> get_neighbor(h, SOUTH), SW |-> Corner(h, SOUTH, WEST),
           W |-> get_neighbor(h, WEST), NW |-> Corner(h, WEST, NORTH)]
    BY Zenon DEF geohash_neighbors, Corner
  <1>2. DOMAIN Offset = {"N", "NE", "E", "SE", "S", "SW", "W", "NW"}
    BY DEF Offset
  <1>3. DOMAIN geohash_neighbors(h) = DOMAIN Offset
    BY <1>1, <1>2
  <1>4. /\ By("N", "lat") = 1 /\ By("N", "lng") = 0 /\ By("NE", "lat") = 1 /\ By("NE", "lng") = 1
        /\ By("E", "lat") = 0 /\ By("E", "lng") = 1 /\ By("SE", "lat") = -1 /\ By("SE", "lng") = 1
        /\ By("S", "lat") = -1 /\ By("S", "lng") = 0 /\ By("SW", "lat") = -1 /\ By("SW", "lng") = -1
        /\ By("W", "lat") = 0 /\ By("W", "lng") = -1 /\ By("NW", "lat") = 1 /\ By("NW", "lng") = -1
    BY DEF By, Offset
  <1>5. /\ NORTH \in 1 .. 4 /\ EAST \in 1 .. 4 /\ SOUTH \in 1 .. 4 /\ WEST \in 1 .. 4
        /\ Line(NORTH) = "lat" /\ Line(EAST) = "lng" /\ Line(SOUTH) = "lat" /\ Line(WEST) = "lng"
        /\ Up(NORTH) = 1 /\ Up(EAST) = 1 /\ Up(SOUTH) = -1 /\ Up(WEST) = -1
    BY DEF NORTH, EAST, SOUTH, WEST, Line, Up
  <1>6. \A axis \in Axes \ {"lat"} : axis = "lng"
    BY DEF Axes
  <1>7. \A axis \in Axes \ {"lng"} : axis = "lat"
    BY DEF Axes
  <1>8. ASSUME NEW g \in get_neighbor(h, NORTH) PROVE g \in Seq({0, 1}) /\ Neighbour(h, "N", g)
    BY <1>4, <1>5, <1>6, DirectNeighbour
  <1>9. ASSUME NEW g \in get_neighbor(h, EAST) PROVE g \in Seq({0, 1}) /\ Neighbour(h, "E", g)
    BY <1>4, <1>5, <1>7, DirectNeighbour
  <1>10. ASSUME NEW g \in get_neighbor(h, SOUTH) PROVE g \in Seq({0, 1}) /\ Neighbour(h, "S", g)
    BY <1>4, <1>5, <1>6, DirectNeighbour
  <1>11. ASSUME NEW g \in get_neighbor(h, WEST) PROVE g \in Seq({0, 1}) /\ Neighbour(h, "W", g)
    BY <1>4, <1>5, <1>7, DirectNeighbour
  <1>12. ASSUME NEW g \in Corner(h, NORTH, EAST) PROVE g \in Seq({0, 1}) /\ Neighbour(h, "NE", g)
    BY <1>4, <1>5, CornerNeighbour
  <1>13. ASSUME NEW g \in Corner(h, EAST, SOUTH) PROVE g \in Seq({0, 1}) /\ Neighbour(h, "SE", g)
    BY <1>4, <1>5, CornerNeighbour
  <1>14. ASSUME NEW g \in Corner(h, SOUTH, WEST) PROVE g \in Seq({0, 1}) /\ Neighbour(h, "SW", g)
    BY <1>4, <1>5, CornerNeighbour
  <1>15. ASSUME NEW g \in Corner(h, WEST, NORTH) PROVE g \in Seq({0, 1}) /\ Neighbour(h, "NW", g)
    BY <1>4, <1>5, CornerNeighbour
  <1>16. ASSUME NEW o \in DOMAIN Offset, NEW g \in geohash_neighbors(h)[o]
         PROVE  g \in Seq({0, 1}) /\ Neighbour(h, o, g)
    <2>1. o = "N" \/ o = "NE" \/ o = "E" \/ o = "SE" \/ o = "S" \/ o = "SW" \/ o = "W" \/ o = "NW"
      BY <1>2
    <2> QED
      BY <1>1, <1>8, <1>9, <1>10, <1>11, <1>12, <1>13, <1>14, <1>15, <2>1
  <1> QED
    BY <1>3, <1>16

-----------------------------------------------------------------------------
(* The decoding of a neighbour: s is the place of the cell it started from. *)
WalkFrom(s) ==
    /\ LowAt(found, s, Bits(call)) /\ Wide(found, Bits(call))
    /\ \/ OffGlobe(s, dir)
       \/ /\ Len(hash) = Bits(call) /\ MovedBy(s, dir, Place(hash)[Bits(call)])
          /\ Wide(box, i) /\ LowAt(box, Place(hash)[i], i)

WalkInv ==
    pc = "walk" =>
        /\ hash \in Seq({0, 1}) /\ i \in 0 .. Len(hash)
        /\ dir \in DOMAIN Offset /\ IsBox(found) /\ IsBox(box)
        /\ \E s \in Places : WalkFrom(s)

LEMMA DescendedBox ==
    ASSUME NEW b, IsBox(b), NEW axis \in Axes, NEW bit \in {0, 1}
    PROVE  IsBox(Descended(b, axis, bit))
  <1>1. b \in [Axes -> [low : Int, high : Int]]
    BY DEF IsBox, Axes
  <1>2. b[axis] \in [low : Int, high : Int] /\ b[axis].low \in Int /\ b[axis].high \in Int
    BY <1>1
  <1>3. Delta(b[axis]) \in Int
    BY <1>2 DEF Delta
  <1>4. DescentOf(b[axis], bit) \in [low : Int, high : Int]
    BY <1>2, <1>3 DEF DescentOf
  <1>5. Descended(b, axis, bit) = [b EXCEPT ![axis] = DescentOf(b[axis], bit)]
    BY <1>1 DEF Descended
  <1> HIDE DEF Axes
  <1>6. Descended(b, axis, bit) \in [Axes -> [low : Int, high : Int]]
    BY <1>1, <1>4, <1>5
  <1> QED
    BY <1>6 DEF IsBox, Axes

LEMMA WalkStarts ==
    ASSUME LoopInv, WalkBegins
    PROVE  WalkInv'
  <1> DEFINE n == Bits(call)
  <1>1. /\ TrailOK /\ call \in Calls /\ Len(hash) = n /\ box = trail[Len(hash) + 1]
        /\ found = trail[Len(hash) + 1] /\ hash \in Seq({0, 1})
    BY DEF LoopInv, OnTrail, WalkBegins, TrailOK
  <1>2. n \in Nat /\ n <= 2 * MaxCuts /\ \E m \in Nat : n = 5 * m
    <2>1. Chars(call.precision) \in Nat
      BY <1>1, CallFacts DEF Chars
    <2>2. n = 5 * Chars(call.precision)
      BY DEF Bits
    <2> QED
      BY <1>1, <2>1, <2>2, CallFacts
  <1>3. n \in 0 .. Len(hash)
    BY <1>1, <1>2
  <1>4. PICK s \in Places : s = Place(hash)[n]
    BY <1>1, <1>3, PlaceIs
  <1>5. LowAt(found, s, n) /\ Wide(found, n) /\ IsBox(found)
    <2>1. \A k \in 0 .. Len(hash) : LowAt(trail[k + 1], Place(hash)[k], k)
      BY <1>1, TrailPlaces
    <2>2. \A k \in 0 .. Len(hash) : IsBox(trail[k + 1]) /\ Wide(trail[k + 1], k)
      BY <1>1 DEF TrailOK
    <2> QED
      BY <1>1, <1>3, <1>4, <2>1, <2>2
  <1>6. /\ pc' = "walk" /\ i' = 0 /\ box' = Globe /\ call' = call /\ found' = found
        /\ dir' \in DOMAIN geohash_neighbors(hash) /\ hash' \in geohash_neighbors(hash)[dir']
    BY DEF WalkBegins
  <1>7. /\ dir' \in DOMAIN Offset /\ hash' \in Seq({0, 1})
        /\ Neighbour(hash, dir', hash')
    <2>1. PICK m \in Nat : Len(hash) = 5 * m
      BY <1>1, <1>2
    <2>2. PICK o, g : o = dir' /\ g = hash'
      OBVIOUS
    <2>3. o \in DOMAIN Offset /\ g \in Seq({0, 1}) /\ Neighbour(hash, o, g)
      BY <1>1, <1>6, <2>1, <2>2, NeighboursFacts
    <2> QED
      BY <2>2, <2>3, Zenon
  <1>8. /\ Len(hash') \in Nat /\ i' \in 0 .. Len(hash')
        /\ OffGlobe(s, dir') \/ (Len(hash') = n /\ MovedBy(s, dir', Place(hash')[n]))
    BY <1>1, <1>4, <1>6, <1>7, LenProperties DEF Neighbour
  <1>9. Wide(box', i') /\ LowAt(box', Place(hash')[i'], i') /\ IsBox(box')
    <2>1. Place(hash')[0] = Whole
      BY <1>7, PlaceIs
    <2> QED
      BY <1>6, <2>1, GlobeFacts, LowGlobe
  <1> HIDE DEF n
  <1>10. Bits(call)' = n
    BY <1>6 DEF n
  <1>11. WalkFrom(s)'
    BY <1>5, <1>6, <1>8, <1>9, <1>10 DEF WalkFrom
  <1> QED
    BY <1>5, <1>6, <1>7, <1>8, <1>9, <1>11 DEF WalkInv

LEMMA WalkGoesOn ==
    ASSUME LoopInv, WalkInv, DecodeBit, pc = "walk"
    PROVE  WalkInv'
  <1>1. /\ hash \in Seq({0, 1}) /\ i \in 0 .. Len(hash) /\ i < Len(hash) /\ call \in Calls
        /\ dir \in DOMAIN Offset /\ IsBox(found) /\ IsBox(box)
    BY DEF WalkInv, LoopInv, DecodeBit
  <1>2. PICK s \in Places : WalkFrom(s)
    BY DEF WalkInv
  <1>3. /\ i' = i + 1 /\ box' = Descended(box, Axis(i), hash[i + 1])
        /\ UNCHANGED << pc, call, hash, found, dir >>
    BY DEF DecodeBit
  <1>4. /\ Len(hash) \in Nat /\ i \in Nat /\ i + 1 \in 1 .. Len(hash) /\ i \in 0 .. Len(hash) - 1
        /\ i \in 0 .. Len(hash) /\ hash[i + 1] \in {0, 1} /\ Axis(i) \in Axes
    BY <1>1, LenProperties, ElementOfSeq DEF Axis, Axes
  <1>5. IsBox(box')
    BY <1>1, <1>3, <1>4, DescendedBox
  <1>6. i' \in 0 .. Len(hash')
    BY <1>3, <1>4
  <1>7. ASSUME Len(hash) = Bits(call), Wide(box, i), LowAt(box, Place(hash)[i], i)
        PROVE  Wide(box', i') /\ LowAt(box', Place(hash)[i'], i')
    <2>1. i < 2 * MaxCuts
      BY <1>1, <1>7, CallFacts, HalvingAssumption
    <2>2. box' = Halved(box, Axis(i), hash[i + 1])
      BY <1>1, <1>3, <1>4, <1>7, <2>1, HalvedFacts
    <2>3. Wide(box', i + 1)
      BY <1>1, <1>4, <1>7, <2>1, <2>2, HalvedFacts
    <2>4. Place(hash)[i + 1] = Deeper(Place(hash)[i], Axis(i), hash[i + 1])
          /\ Place(hash)[i] \in Places
      BY <1>1, <1>4, PlaceIs
    <2>5. LowAt(Halved(box, Axis(i), hash[i + 1]),
                Deeper(Place(hash)[i], Axis(i), hash[i + 1]), i + 1)
      BY <1>1, <1>4, <1>7, <2>1, <2>4, LowDeeper
    <2> QED
      BY <1>3, <2>2, <2>3, <2>4, <2>5
  <1>8. WalkFrom(s)'
    <2>1. Bits(call)' = Bits(call)
      BY <1>3
    <2> QED
      BY <1>2, <1>3, <1>7, <2>1 DEF WalkFrom
  <1> QED
    BY <1>1, <1>3, <1>5, <1>6, <1>8 DEF WalkInv

LEMMA WalkStep == LoopInv /\ WalkInv /\ [Next]_vars => WalkInv'
  <1> SUFFICES ASSUME LoopInv, WalkInv, [Next]_vars PROVE WalkInv'
    OBVIOUS
  <1>1. CASE WalkBegins
    BY <1>1, WalkStarts
  <1>2. CASE DecodeBit
    BY <1>2, WalkGoesOn DEF DecodeBit, WalkInv
  <1>3. CASE UNCHANGED vars
    <2>1. Bits(call)' = Bits(call)
      BY <1>3 DEF vars
    <2> QED
      BY <1>3, <2>1 DEF vars, WalkInv, WalkFrom
  <1>4. CASE EncodeRefuses \/ EncodeBit \/ EncodeEnds \/ DecodeEnds \/ AgainBegins \/ AgainBit
    BY <1>4 DEF EncodeRefuses, EncodeBit, EncodeEnds, DecodeEnds, AgainBegins, AgainBit, WalkInv
  <1> QED
    BY <1>1, <1>2, <1>3, <1>4 DEF Next

LEMMA WalkAlways == Spec => [](LoopInv /\ WalkInv)
  <1>1. Init => WalkInv
    BY DEF Init, WalkInv
  <1> QED
    BY <1>1, InitLoop, StepLoop, WalkStep, PTL DEF Spec

LEMMA Steeper ==
    ASSUME NEW a \in Int, NEW b \in Int, NEW w \in Nat \ {0}
    PROVE  /\ a < 0 => a * w < 0 /\ a * w + w <= 0
           /\ a >= b => a * w >= b * w
           /\ (a + b) * w = a * w + b * w
  OBVIOUS

(* A neighbour lies where its direction says, for every hash, precision    *)
(* and grid, unless that is beyond the globe: the tables of get_neighbor   *)
(* agree with the order in which geohash_decode uses the bits.             *)
THEOREM NeighbourCorrect == Spec => []NeighbourTouches
  <1>1. ASSUME LoopInv, WalkInv, pc = "walk", i = Len(hash)
        PROVE  NeighbourTouches
    <2> DEFINE n == Bits(call)
               moved(v, k) == [low  |-> v.low + k * (v.high - v.low),
                               high |-> v.high + k * (v.high - v.low)]
               beside == [lat |-> moved(found.lat, Offset[dir][1]),
                          lng |-> moved(found.lng, Offset[dir][2])]
    <2>1. /\ call \in Calls /\ IsBox(found) /\ IsBox(box) /\ dir \in DOMAIN Offset
          /\ n \in Nat /\ n <= 2 * MaxCuts /\ Half \in Nat
      BY <1>1, CallFacts, HalvingAssumption DEF LoopInv, WalkInv
    <2>2. PICK s \in Places : WalkFrom(s)
      BY <1>1 DEF WalkInv
    <2>3. \A axis \in Axes : beside[axis] = moved(found[axis], By(dir, axis))
      BY DEF By, Axes
    <2>4. beside = [axis \in Axes |-> beside[axis]]
      BY DEF Axes
    <2> HIDE DEF beside, n
    <2>5. SUFFICES ASSUME \A axis \in Axes : beside[axis].low >= -Half /\ beside[axis].high <= Half
                   PROVE  box = beside
      BY <1>1 DEF NeighbourTouches, beside, Axes
    <2>6. ASSUME NEW axis \in Axes
          PROVE  /\ s[axis].at + By(dir, axis) \in 0 .. s[axis].of - 1
                 /\ MovedBy(s, dir, Place(hash)[n]) /\ Wide(box, n) /\ LowAt(box, Place(hash)[n], n)
                      => box[axis] = beside[axis]
      <3>1. PICK w \in Nat \ {0} : w = Width[Cuts(axis, n)]
        <4>1. Cuts(axis, n) \in 0 .. MaxCuts
          BY <2>1, HalvingAssumption DEF Cuts, Axes
        <4> QED
          BY <4>1, HalvingAssumption
      <3>2. PICK k \in Int : k = By(dir, axis)
        BY <2>1 DEF By, Offset
      <3>3. PICK at \in Int, of \in Int : at = s[axis].at /\ of = s[axis].of
        BY DEF Places
      <3>4. /\ found \in [Axes -> [low : Int, high : Int]] /\ box \in [Axes -> [low : Int, high : Int]]
        BY <2>1 DEF IsBox, Axes
      <3>5. PICK low \in Int, high \in Int : low = found[axis].low /\ high = found[axis].high
        BY <3>4
      <3>6. low + Half = at * w /\ of * w = 2 * Half /\ high - low = w
        BY <2>2, <3>1, <3>3, <3>5 DEF WalkFrom, LowAt, Wide, n
      <3>7. beside[axis] = [low |-> low + k * w, high |-> high + k * w]
        <4>1. beside[axis] = moved(found[axis], k)
          BY <2>3, <3>2
        <4> QED
          BY <3>5, <3>6, <4>1
      <3>8. low + k * w >= -Half /\ high + k * w <= Half
        <4>1. beside[axis].low >= -Half /\ beside[axis].high <= Half
          BY <2>5
        <4> QED
          BY <3>7, <4>1
      <3>9. PICK p \in Int, q \in Int, r \in Int, t \in Int :
              p = at * w /\ q = k * w /\ r = of * w /\ t = (at + k) * w /\ t = p + q
        BY Steeper
      <3>10. at + k \in 0 .. of - 1
        <4>1. at + k >= 0
          <5>1. at + k < 0 => t < 0
            BY <3>9, Steeper
          <5> QED
            BY <2>1, <3>6, <3>8, <3>9, <5>1
        <4>2. at + k < of
          <5>1. at + k >= of => t >= r
            BY <3>9, Steeper
          <5> QED
            BY <2>1, <3>1, <3>6, <3>8, <3>9, <5>1
        <4> QED
          BY <4>1, <4>2
      <3>11. ASSUME MovedBy(s, dir, Place(hash)[n]), Wide(box, n), LowAt(box, Place(hash)[n], n)
             PROVE  box[axis] = beside[axis]
        <4>1. PICK bl \in Int, bh \in Int : bl = box[axis].low /\ bh = box[axis].high
          BY <3>4
        <4>2. Place(hash)[n][axis].at = at + k
          BY <3>2, <3>3, <3>11 DEF MovedBy
        <4>3. bl + Half = (at + k) * w /\ bh - bl = w
          BY <3>1, <3>11, <4>1, <4>2 DEF LowAt, Wide
        <4>4. bl = low + q /\ bh = high + q
          <5>1. bl + Half = t /\ low + Half = p /\ t = p + q
            BY <3>6, <3>9, <4>3, Zenon
          <5>2. bh - bl = w /\ high - low = w
            BY <3>6, <4>3, Zenon
          <5> QED
            BY <2>1, <5>1, <5>2
        <4>5. box[axis] = [low |-> bl, high |-> bh]
          BY <3>4, <4>1
        <4> QED
          BY <3>7, <3>9, <4>4, <4>5, Zenon
      <3> QED
        BY <3>2, <3>3, <3>10, <3>11
    <2>7. ~OffGlobe(s, dir)
      BY <2>6 DEF OffGlobe
    <2>8. MovedBy(s, dir, Place(hash)[n]) /\ Wide(box, n) /\ LowAt(box, Place(hash)[n], n)
      BY <1>1, <2>2, <2>7 DEF WalkFrom, n
    <2>9. \A axis \in Axes : box[axis] = beside[axis]
      BY <2>6, <2>8
    <2>10. box = [axis \in Axes |-> box[axis]]
      BY <2>1 DEF IsBox, Axes
    <2> QED
      BY <2>4, <2>9, <2>10
  <1>2. LoopInv /\ WalkInv => NeighbourTouches
    BY <1>1 DEF NeighbourTouches
  <1> QED
    BY <1>2, WalkAlways, PTL

-----------------------------------------------------------------------------
(* What the loops leave alone. *)
IdleInv ==
    /\ IsBox(found) /\ dir \in {"none"} \cup DOMAIN Offset
    /\ pc = "null" => i <= Bits(call) /\ IsBox(box) /\ Wide(box, i)

LEMMA TrailBox ==
    ASSUME LoopInv, pc \in {"encode", "decode", "decoded", "again"}
    PROVE  i \in Nat /\ i <= Bits(call) /\ IsBox(box) /\ Wide(box, i)
  <1>1. /\ TrailOK /\ i \in Nat /\ i <= Len(hash) /\ box = trail[i + 1]
    BY DEF LoopInv, OnTrail
  <1>2. i \in 0 .. Len(hash) /\ Len(hash) <= Bits(call) /\ Len(hash) \in Nat /\ Bits(call) \in Int
    BY <1>1, LenProperties, CallFacts DEF TrailOK, LoopInv
  <1>3. \A k \in 0 .. Len(hash) : IsBox(trail[k + 1]) /\ Wide(trail[k + 1], k)
    BY <1>1 DEF TrailOK
  <1>4. i <= Bits(call)
    BY <1>1, <1>2
  <1> QED
    BY <1>1, <1>2, <1>3, <1>4, Zenon

LEMMA IdleStep == LoopInv /\ WalkInv /\ IdleInv /\ [Next]_vars => IdleInv'
  <1> SUFFICES ASSUME LoopInv, WalkInv, IdleInv, [Next]_vars PROVE IdleInv'
    OBVIOUS
  <1>1. CASE EncodeRefuses
    <2>1. i <= Bits(call) /\ IsBox(box) /\ Wide(box, i)
      BY <1>1, TrailBox DEF EncodeRefuses
    <2>2. UNCHANGED << call, i, box, found, dir >>
      BY <1>1 DEF EncodeRefuses
    <2>3. Bits(call)' = Bits(call)
      BY <2>2
    <2> QED
      BY <2>1, <2>2, <2>3 DEF IdleInv
  <1>2. CASE WalkBegins
    <2>1. /\ TrailOK /\ Len(hash) = Bits(call) /\ call \in Calls
      BY <1>2 DEF LoopInv, OnTrail, WalkBegins
    <2>2. PICK m \in Nat : Len(hash) = 5 * m
      <3>1. Chars(call.precision) \in Nat
        BY <2>1, CallFacts DEF Chars
      <3>2. Len(hash) = 5 * Chars(call.precision)
        BY <2>1 DEF Bits
      <3> QED
        BY <3>1, <3>2
    <2>3. DOMAIN geohash_neighbors(hash) = DOMAIN Offset
      BY <2>1, <2>2, NeighboursFacts DEF TrailOK
    <2>4. pc' = "walk" /\ found' = found /\ dir' \in DOMAIN geohash_neighbors(hash)
      BY <1>2 DEF WalkBegins
    <2> QED
      BY <2>3, <2>4 DEF IdleInv
  <1>3. CASE DecodeEnds
    <2>1. IsBox(box)
      BY <1>3, TrailBox DEF DecodeEnds
    <2>2. pc' = "decoded" /\ found' = box /\ dir' = dir
      BY <1>3 DEF DecodeEnds
    <2> QED
      BY <2>1, <2>2 DEF IdleInv
  <1>4. CASE EncodeBit \/ EncodeEnds \/ DecodeBit \/ AgainBegins \/ AgainBit
    <2>1. pc' # "null" /\ found' = found /\ dir' = dir
      BY <1>4 DEF EncodeBit, EncodeEnds, DecodeBit, AgainBegins, AgainBit
    <2> QED
      BY <2>1 DEF IdleInv
  <1>5. CASE UNCHANGED vars
    <2>1. Bits(call)' = Bits(call)
      BY <1>5 DEF vars
    <2> QED
      BY <1>5, <2>1 DEF vars, IdleInv
  <1> QED
    BY <1>1, <1>2, <1>3, <1>4, <1>5 DEF Next

(* The variables keep their shapes; on an axis halved n times the interval *)
(* is Width[n] wide in every loop.                                         *)
THEOREM GeohashTypeCorrect == Spec => []TypeOK
  <1>1. Init => IdleInv
    BY GlobeFacts DEF Init, IdleInv
  <1>2. ASSUME LoopInv, WalkInv, IdleInv PROVE TypeOK
    <2>1. CASE pc = "walk"
      BY <1>2, <2>1, LenProperties DEF LoopInv, WalkInv, IdleInv, TypeOK
    <2>2. CASE pc = "null"
      BY <1>2, <2>2 DEF LoopInv, TrailOK, OnTrail, IdleInv, TypeOK, Wide, Axes
    <2>3. CASE pc \in {"encode", "decode", "decoded", "again"}
      BY <1>2, <2>3, TrailBox DEF LoopInv, TrailOK, IdleInv, TypeOK, Wide, Axes
    <2> QED
      BY <1>2, <2>1, <2>2, <2>3 DEF LoopInv
  <1> QED
    BY <1>1, <1>2, WalkAlways, IdleStep, PTL DEF Spec
=============================================================================
