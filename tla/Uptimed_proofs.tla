--------------------------- MODULE Uptimed_proofs ---------------------------
(***************************************************************************)
(* What holds of uptimed for any width of an int, any interfaces, counters *)
(* and failures.                                                           *)
(***************************************************************************)
EXTENDS Uptimed, NaturalsInduction, WellFoundedInduction, SequenceTheorems,
        TLAPS

-----------------------------------------------------------------------------
(* Induction on the numbers: a property of numbers is given as the set of  *)
(* those that have it.                                                     *)

(* A set of numbers has a least one.                                       *)
LEMMA Least ==
    ASSUME NEW T \in SUBSET Nat, T # {}
    PROVE  \E m \in T : \A n \in T : m <= n
  <1> DEFINE R == OpToRel(<, Nat)
  <1>1. IsWellFoundedOn(R, Nat)
    BY NatLessThanWellFounded
  <1>2. \A x, y \in Nat : y < x => << y, x >> \in R
    BY DEF OpToRel
  <1> HIDE DEF R
  <1>3. \E x \in T : \A y \in T : << y, x >> \notin R
    BY <1>1, WFMin
  <1>4. PICK m \in T : \A y \in T : << y, m >> \notin R
    BY <1>3
  <1>5. \A n \in T : ~(n < m)
    BY <1>2, <1>4, Zenon
  <1> QED
    BY <1>5, T \subseteq Nat, m \in T, SMT

(* What holds of 0 and of each successor holds of all of them.             *)
LEMMA Induct ==
    ASSUME NEW S, 0 \in S, \A n \in Nat : n \in S => n + 1 \in S
    PROVE  Nat \subseteq S
  <1> SUFFICES ASSUME NEW k \in Nat, k \notin S
               PROVE  FALSE
    OBVIOUS
  <1>1. PICK m \in Nat \ S : \A n \in Nat \ S : m <= n
    BY Least
  <1>2. m # 0 /\ m - 1 \in Nat /\ m - 1 \in S
    BY <1>1
  <1>3. (m - 1) + 1 \in S
    BY <1>2
  <1> QED
    BY <1>1, <1>3

(* A function may be defined by its value at 0 and a step.                 *)
Recurs(V, base, n, step, f) ==
    /\ f \in [0 .. n -> V] /\ f[0] = base
    /\ \A i \in 1 .. n : f[i] = step[<< i, f[i - 1] >>]

LEMMA Recursion ==
    ASSUME NEW V, NEW base \in V, NEW n \in Nat, NEW step \in [(1 .. n) \X V -> V]
    PROVE  \E f : Recurs(V, base, n, step, f)
  <1> DEFINE Upto(k) == \E f : Recurs(V, base, k, step, f)
             S == {k \in Nat : k <= n => Upto(k)}
  <1>1. 0 \in S
    <2> DEFINE g == [i \in 0 .. 0 |-> base]
    <2>1. g \in [0 .. 0 -> V] /\ g[0] = base
      OBVIOUS
    <2>2. \A i \in 1 .. 0 : g[i] = step[<< i, g[i - 1] >>]
      OBVIOUS
    <2> HIDE DEF g
    <2> QED
      BY <2>1, <2>2 DEF Recurs
  <1>2. ASSUME NEW k \in Nat, k \in S
        PROVE  k + 1 \in S
    <2> SUFFICES ASSUME k + 1 <= n
                 PROVE  Upto(k + 1)
      OBVIOUS
    <2>1. PICK f : Recurs(V, base, k, step, f)
      BY <1>2
    <2> DEFINE v == step[<< k + 1, f[k] >>]
               g == [i \in 0 .. k + 1 |-> IF i = k + 1 THEN v ELSE f[i]]
    <2>2. v \in V
      <3>1. << k + 1, f[k] >> \in (1 .. n) \X V
        BY <2>1 DEF Recurs
      <3> QED
        BY <3>1
    <2> HIDE DEF v
    <2>3. g \in [0 .. k + 1 -> V] /\ g[0] = f[0]
      BY <2>1, <2>2 DEF Recurs
    <2>4. \A i \in 1 .. k + 1 : g[i] = step[<< i, g[i - 1] >>]
      <3>1. ASSUME NEW i \in 1 .. k
            PROVE  g[i] = step[<< i, g[i - 1] >>]
        <4>1. g[i] = f[i] /\ g[i - 1] = f[i - 1]
          OBVIOUS
        <4> QED
          BY <2>1, <4>1 DEF Recurs
      <3>2. g[k + 1] = v /\ g[(k + 1) - 1] = f[k]
        OBVIOUS
      <3> HIDE DEF g
      <3> QED
        BY <3>1, <3>2 DEF v
    <2> HIDE DEF g
    <2> QED
      BY <2>1, <2>3, <2>4 DEF Recurs
  <1>3. Nat \subseteq S
    BY <1>1, <1>2, Induct
  <1> QED
    BY <1>3

(* Nothing put together is nothing.                                        *)
LEMMA FlattenNothing == FlattenSeq(<< >>) = << >>
  BY DEF FlattenSeq

(* Two sequences put together, given by their values.                      *)
LEMMA ConcatIs ==
    ASSUME NEW S, NEW s \in Seq(S), NEW t \in Seq(S), NEW u \in Seq(S),
           Len(u) = Len(s) + Len(t),
           \A i \in 1 .. Len(s) : u[i] = s[i],
           \A i \in 1 .. Len(t) : u[Len(s) + i] = t[i]
    PROVE  s \o t = u
  <1>1. /\ s \o t \in Seq(S) /\ Len(s \o t) = Len(s) + Len(t)
        /\ Len(s) \in Nat /\ Len(t) \in Nat
        /\ \A i \in 1 .. Len(s) + Len(t) :
             (s \o t)[i] = IF i <= Len(s) THEN s[i] ELSE t[i - Len(s)]
    BY ConcatProperties, LenProperties
  <1>2. ASSUME NEW i \in 1 .. Len(s) + Len(t)
        PROVE  (s \o t)[i] = u[i]
    <2>1. CASE i \in 1 .. Len(s)
      BY <1>1, <2>1
    <2>2. CASE i - Len(s) \in 1 .. Len(t)
      BY <1>1, <2>2
    <2> QED
      BY <1>1, <2>1, <2>2
  <1> QED
    BY <1>1, <1>2, SeqEqual

(* Tuples are joined one member after the other.                           *)
LEMMA Tuples ==
    /\ \A a, b : << a >> \o << b >> = << a, b >>
    /\ \A a, b, c, d : << a >> \o << b >> \o << c >> \o << d >> = << a, b, c, d >>
  <1> SUFFICES ASSUME NEW a, NEW b, NEW c, NEW d
               PROVE  /\ << a >> \o << b >> = << a, b >>
                      /\ << a >> \o << b >> \o << c >> \o << d >> = << a, b, c, d >>
    BY Zenon
  <1> DEFINE S == {a, b, c, d}
  <1>0. a \in S /\ b \in S /\ c \in S /\ d \in S
    OBVIOUS
  <1> HIDE DEF S
  <1>1. /\ << a >> \in Seq(S) /\ << b >> \in Seq(S) /\ << c >> \in Seq(S)
        /\ << d >> \in Seq(S) /\ << a, b >> \in Seq(S) /\ << a, b, c >> \in Seq(S)
        /\ << a, b, c, d >> \in Seq(S)
        /\ Len(<< a >>) = 1 /\ Len(<< b >>) = 1 /\ Len(<< c >>) = 1 /\ Len(<< d >>) = 1
        /\ Len(<< a, b >>) = 2 /\ Len(<< a, b, c >>) = 3 /\ Len(<< a, b, c, d >>) = 4
    BY <1>0
  <1>2. << a >> \o << b >> = << a, b >>
    <2>1. /\ Len(<< a, b >>) = Len(<< a >>) + Len(<< b >>)
          /\ \A i \in 1 .. Len(<< a >>) : << a, b >>[i] = << a >>[i]
          /\ \A i \in 1 .. Len(<< b >>) : << a, b >>[Len(<< a >>) + i] = << b >>[i]
      <3>1. \A i \in 1 .. 1 : << a, b >>[i] = << a >>[i]
        OBVIOUS
      <3>2. \A i \in 1 .. 1 : << a, b >>[1 + i] = << b >>[i]
        OBVIOUS
      <3>3. Len(<< a, b >>) = Len(<< a >>) + Len(<< b >>)
        BY <1>1
      <3> QED
        BY <1>1, <3>1, <3>2, <3>3, Zenon
    <2> QED
      BY <1>1, <2>1, ConcatIs, Zenon
  <1>3. << a, b >> \o << c >> = << a, b, c >>
    <2>1. /\ Len(<< a, b, c >>) = Len(<< a, b >>) + Len(<< c >>)
          /\ \A i \in 1 .. Len(<< a, b >>) : << a, b, c >>[i] = << a, b >>[i]
          /\ \A i \in 1 .. Len(<< c >>) : << a, b, c >>[Len(<< a, b >>) + i] = << c >>[i]
      BY <1>1
    <2> QED
      BY <1>1, <2>1, ConcatIs, Zenon
  <1>4. << a, b, c >> \o << d >> = << a, b, c, d >>
    <2>1. /\ Len(<< a, b, c, d >>) = Len(<< a, b, c >>) + Len(<< d >>)
          /\ \A i \in 1 .. Len(<< a, b, c >>) : << a, b, c, d >>[i] = << a, b, c >>[i]
          /\ \A i \in 1 .. Len(<< d >>) : << a, b, c, d >>[Len(<< a, b, c >>) + i] = << d >>[i]
      BY <1>1
    <2> QED
      BY <1>1, <2>1, ConcatIs, Zenon
  <1>5. << a >> \o << b >> \o << c >> \o << d >> = << a, b, c, d >>
    BY <1>2, <1>3, <1>4, Zenon
  <1> QED
    BY <1>2, <1>5, Zenon

(* A function on 1 .. n is a sequence.                                     *)
LEMMA FunctionIsSeq ==
    ASSUME NEW V, NEW n \in Nat, NEW s \in [1 .. n -> V]
    PROVE  s \in Seq(V) /\ Len(s) = n
  <1>1. s \in Seq(V)
    BY SeqDef
  <1> QED
    BY <1>1, LenProperties

(* FlattenSeq puts sequences together from the left.                       *)
Flattens(n, ss, f) ==
    f = [i \in 1 .. n |-> IF i = 1 THEN ss[i] ELSE f[i - 1] \o ss[i]]

Follows(n, ss, f) == f[1] = ss[1] /\ \A i \in 1 .. n : f[i + 1] = f[i] \o ss[i + 1]

(* The steps of FlattenSeq.                                                *)
LEMMA FlattensAt ==
    ASSUME NEW n \in Nat, n >= 1, NEW ss, NEW f, Flattens(n, ss, f)
    PROVE  Follows(n - 1, ss, f)
  <1>1. \A i \in 1 .. n : f[i] = IF i = 1 THEN ss[i] ELSE f[i - 1] \o ss[i]
    BY Zenon DEF Flattens
  <1>2. f[1] = ss[1]
    BY <1>1
  <1>3. ASSUME NEW i \in 1 .. n - 1
        PROVE  f[i + 1] = f[i] \o ss[i + 1]
    <2>1. i + 1 \in 1 .. n /\ i + 1 # 1 /\ (i + 1) - 1 = i
      OBVIOUS
    <2>2. f[i + 1] = IF i + 1 = 1 THEN ss[i + 1] ELSE f[(i + 1) - 1] \o ss[i + 1]
      BY <1>1, <2>1, Zenon
    <2> QED
      BY <2>1, <2>2, Zenon
  <1> QED
    BY <1>2, <1>3, Zenon DEF Follows

(* The same of one sequence more.                                          *)
LEMMA FlattensNext ==
    ASSUME NEW n \in Nat, NEW ss, NEW f, Flattens(n + 1, ss, f)
    PROVE  Follows(n, ss, f)
  <1> DEFINE m == n + 1
  <1>1. m \in Nat /\ m >= 1 /\ m - 1 = n /\ Flattens(m, ss, f)
    OBVIOUS
  <1> HIDE DEF m
  <1> QED
    BY <1>1, FlattensAt

(* FlattenSeq is what is reached with the last sequence.                   *)
LEMMA FlattenSteps ==
    ASSUME NEW S, NEW n \in Nat, n >= 1, NEW ss \in [1 .. n -> Seq(S)]
    PROVE  \E f : /\ Flattens(n, ss, f) /\ FlattenSeq(ss) = f[n]
                  /\ \A i \in 1 .. n : f[i] \in Seq(S)
  <1> DEFINE V == Seq(S)
             step == [p \in (1 .. n) \X V |->
                        IF p[1] = 1 THEN ss[1] ELSE p[2] \o ss[p[1]]]
  <1>1. /\ << >> \in V /\ \A i \in 1 .. n : ss[i] \in V
        /\ \A u, w \in V : u \o w \in V
    BY ConcatProperties, EmptySeq
  <1> HIDE DEF V
  <1>2. step \in [(1 .. n) \X V -> V]
    BY <1>1
  <1>3. \A i \in 1 .. n : \A w \in V :
          step[<< i, w >>] = IF i = 1 THEN ss[1] ELSE w \o ss[i]
    <2> TAKE i \in 1 .. n
    <2> TAKE w \in V
    <2>1. << i, w >> \in (1 .. n) \X V /\ << i, w >>[1] = i /\ << i, w >>[2] = w
      OBVIOUS
    <2>2. step[<< i, w >>] = IF << i, w >>[1] = 1 THEN ss[1]
                             ELSE << i, w >>[2] \o ss[<< i, w >>[1]]
      BY <2>1, Zenon
    <2> QED
      BY <2>1, <2>2, Zenon
  <1> HIDE DEF step
  <1>4. PICK h : Recurs(V, << >>, n, step, h)
    BY <1>1, <1>2, Recursion
  <1> DEFINE g == [i \in 1 .. n |-> h[i]]
  <1>5. \A i \in 1 .. n : g[i] = IF i = 1 THEN ss[i] ELSE g[i - 1] \o ss[i]
    <2> TAKE i \in 1 .. n
    <2>1. g[i] = step[<< i, h[i - 1] >>] /\ h[i - 1] \in V
      BY <1>4 DEF Recurs
    <2>2. i # 1 => g[i - 1] = h[i - 1]
      OBVIOUS
    <2> HIDE DEF g
    <2> QED
      BY <1>3, <2>1, <2>2
  <1>6. Flattens(n, ss, g)
    <2>1. g = [i \in 1 .. n |-> g[i]]
      OBVIOUS
    <2> HIDE DEF g
    <2> QED
      BY <1>5, <2>1 DEF Flattens
  <1> DEFINE f == CHOOSE f : Flattens(n, ss, f)
  <1> HIDE DEF g
  <1>7. Flattens(n, ss, f)
    BY <1>6
  <1>8. FlattenSeq(ss) = f[n]
    <2>1. Len(ss) = n
      BY FunctionIsSeq
    <2>2. n # 0
      OBVIOUS
    <2> QED
      BY <2>1, <2>2, Zenon DEF FlattenSeq, Flattens
  <1> HIDE DEF f
  <1>9. /\ f[1] = ss[1]
        /\ \A i \in 1 .. n - 1 : f[i + 1] = f[i] \o ss[i + 1]
    BY <1>7, FlattensAt, Zenon DEF Follows
  <1>10. \A i \in 1 .. n : f[i] \in V
    <2> DEFINE P == {i \in Nat : i \in 1 .. n => f[i] \in V}
    <2>1. 0 \in P
      OBVIOUS
    <2>2. ASSUME NEW i \in Nat, i \in P
          PROVE  i + 1 \in P
      <3>1. CASE i = 0
        BY <1>1, <1>9, <3>1
      <3>2. CASE i \in 1 .. n - 1
        <4>1. f[i] \in V /\ ss[i + 1] \in V
          BY <1>1, <2>2, <3>2
        <4>2. f[i + 1] \in V
          BY <1>1, <1>9, <3>2, <4>1, Zenon
        <4> QED
          BY <4>2
      <3> QED
        BY <3>1, <3>2
    <2> HIDE DEF P
    <2>3. Nat \subseteq P
      BY <2>1, <2>2, Induct
    <2> QED
      BY <2>3 DEF P
  <1> QED
    BY <1>7, <1>8, <1>10 DEF V

(* FlattenSeq of one sequence more.                                        *)
LEMMA FlattenOneMore ==
    ASSUME NEW S, NEW n \in Nat, NEW ss \in [1 .. n + 1 -> Seq(S)]
    PROVE  /\ FlattenSeq(ss) \in Seq(S)
           /\ FlattenSeq(ss) = FlattenSeq([i \in 1 .. n |-> ss[i]]) \o ss[n + 1]
  <1> DEFINE tt == [i \in 1 .. n |-> ss[i]]
  <1>1. tt \in [1 .. n -> Seq(S)] /\ \A i \in 1 .. n : tt[i] = ss[i]
    OBVIOUS
  <1>2. n = 0 => tt = << >>
    OBVIOUS
  <1> HIDE DEF tt
  <1>3. PICK g : /\ Flattens(n + 1, ss, g) /\ FlattenSeq(ss) = g[n + 1]
                 /\ \A i \in 1 .. n + 1 : g[i] \in Seq(S)
    <2>1. n + 1 \in Nat /\ n + 1 >= 1
      OBVIOUS
    <2> QED
      BY <2>1, FlattenSteps, Zenon
  <1>4. /\ g[1] = ss[1]
        /\ \A i \in 1 .. n : g[i + 1] = g[i] \o ss[i + 1]
    <2>1. Follows(n, ss, g)
      BY <1>3, FlattensNext
    <2> QED
      BY <2>1 DEF Follows
  <1> SUFFICES FlattenSeq(ss) = FlattenSeq(tt) \o ss[n + 1]
    <2>1. n + 1 \in 1 .. n + 1
      OBVIOUS
    <2> QED
      BY <1>3, <2>1, Zenon DEF tt
  <1>5. CASE n = 0
    <2>1. g[n + 1] = << >> \o ss[n + 1]
      <3>1. ss[1] \in Seq(S)
        OBVIOUS
      <3> QED
        BY <1>4, <1>5, <3>1, ConcatEmptySeq
    <2>2. FlattenSeq(tt) = << >>
      BY <1>2, <1>5, FlattenNothing
    <2> QED
      BY <1>3, <2>1, <2>2, Zenon
  <1>6. CASE n >= 1
    <2>1. PICK f : Flattens(n, tt, f) /\ FlattenSeq(tt) = f[n]
      BY <1>1, <1>6, FlattenSteps
    <2>2. /\ f[1] = tt[1]
          /\ \A i \in 1 .. n - 1 : f[i + 1] = f[i] \o tt[i + 1]
      BY <1>6, <2>1, FlattensAt, Zenon DEF Follows
    <2> DEFINE P == {i \in Nat : i \in 1 .. n => g[i] = f[i]}
    <2>3. 0 \in P
      OBVIOUS
    <2>4. ASSUME NEW i \in Nat, i \in P
          PROVE  i + 1 \in P
      <3>1. CASE i = 0
        BY <1>1, <1>4, <2>2, <3>1
      <3>2. CASE i \in 1 .. n - 1
        <4>1. g[i] = f[i] /\ tt[i + 1] = ss[i + 1] /\ i \in 1 .. n
          BY <1>1, <2>4, <3>2
        <4>2. g[i + 1] = f[i + 1]
          BY <1>4, <2>2, <3>2, <4>1, Zenon
        <4> QED
          BY <4>2
      <3> QED
        BY <3>1, <3>2
    <2> HIDE DEF P
    <2>5. Nat \subseteq P
      BY <2>3, <2>4, Induct
    <2>6. g[n] = f[n]
      BY <1>6, <2>5 DEF P
    <2>7. n \in 1 .. n
      BY <1>6
    <2>8. g[n + 1] = g[n] \o ss[n + 1]
      BY <1>4, <2>7, Zenon
    <2> QED
      BY <1>3, <2>1, <2>6, <2>8, Zenon
  <1> QED
    BY <1>5, <1>6

-----------------------------------------------------------------------------
(* The kernel's counters only grow, and what is kept of the ones reported  *)
(* last are their lower bits.                                              *)
CpuInv ==
    /\ \A n \in {"user", "sys", "idle"} :
         cpu[n] \in Nat /\ seen[n] \in Nat /\ seen[n] <= cpu[n]
    /\ old_total = Total(seen) % W /\ old_busy = Busy(seen) % W

(* The packet of this turn: nothing without a link, else the four gauges   *)
(* and the traffic of the rows read.                                       *)
Spaces == {"host.", "host.mac"}
Metrics == {"load", "freemem", "procs", "uptime", "if-rx", "if-tx", "cpu"}
Metric == [ns : Spaces, stat : Metrics, value : Int, type : {"g", "c"}]
Stats(p) == [i \in 1 .. Len(p) |-> p[i].stat]
First == << "load", "freemem", "procs", "uptime" >>
Lines(n) ==
    FlattenSeq([i \in 1 .. n |->
        IF table[i].name \in Named THEN << "if-rx", "if-tx" >> ELSE << >>])

PacketInv ==
    /\ pc \in {"mac", "files", "connect"} => link = NoLink
    /\ ns \in Spaces /\ (link # NoLink => link = [ns |-> ns])
    /\ table \in Seq([name : STRING, bytes : Int \X Int])
    /\ row \in 0 .. Len(table) /\ (pc = "cpu" => row = Len(table))
    /\ line.name \in Named => line.bytes = << >>
    /\ pkt \in Seq(Metric) /\ wire \in Seq(Metric)
    /\ \A i \in 1 .. Len(pkt) : pkt[i].stat # "cpu"
    /\ link = NoLink => pkt = << >>
    /\ pc \in {"rows", "cpu"} /\ link # NoLink =>
         /\ Stats(pkt) = First \o Lines(row)
         /\ \A i \in 1 .. Len(pkt) : pkt[i].ns = ns
-----------------------------------------------------------------------------
(* Differences of counters that have wrapped are right when they fit. *)
LEMMA ModUnique ==
    ASSUME NEW w \in Nat, w > 1, NEW q \in Int, NEW r \in 0 .. w - 1
    PROVE  (w * q + r) % w = r
  OBVIOUS

LEMMA MinusRight ==
    ASSUME NEW a \in Nat, NEW b \in Nat, b <= a, a - b < W
    PROVE  Minus(a % W, b % W) = a - b
  <1>1. /\ a % W = a - W * (a \div W) /\ a \div W \in Int /\ a % W \in Int
        /\ b % W = b - W * (b \div W) /\ b \div W \in Int /\ b % W \in Int
    BY UptimedAssumption
  <1>2. PICK x \in Int, y \in Int : x = a \div W /\ y = b \div W
    BY <1>1
  <1>3. W * (y - x) = W * y - W * x /\ W * y \in Int /\ W * x \in Int
    BY UptimedAssumption
  <1>4. (a % W) - (b % W) = W * (y - x) + (a - b)
    BY <1>1, <1>2, <1>3, UptimedAssumption
  <1> QED
    BY <1>4, ModUnique, UptimedAssumption DEF Minus

LEMMA InRange ==
    ASSUME NEW a \in Int
    PROVE  a % W \in 0 .. W - 1 /\ (a \in 0 .. W - 1 => a % W = a)
  BY UptimedAssumption

LEMMA Smaller ==
    ASSUME NEW x \in Nat, NEW d \in Nat, d >= 1
    PROVE  x \div d \in 0 .. x
  OBVIOUS
-----------------------------------------------------------------------------
LEMMA StatsOfConcat ==
    ASSUME NEW p \in Seq(Metric), NEW q \in Seq(Metric)
    PROVE  /\ p \o q \in Seq(Metric)
           /\ Stats(p) \in Seq(Metrics)
           /\ Stats(p \o q) = Stats(p) \o Stats(q)
           /\ \A i \in 1 .. Len(p \o q) :
                \/ i \in 1 .. Len(p) /\ (p \o q)[i] = p[i]
                \/ \E j \in 1 .. Len(q) : (p \o q)[i] = q[j]
  <1>1. \A s \in Seq(Metric) : /\ Stats(s) \in Seq(Metrics) /\ Len(Stats(s)) = Len(s)
                               /\ \A i \in 1 .. Len(s) : Stats(s)[i] = s[i].stat
    <2> TAKE s \in Seq(Metric)
    <2>1. Len(s) \in Nat /\ \A i \in 1 .. Len(s) : s[i] \in Metric
      BY LenProperties, ElementOfSeq
    <2>2. Stats(s) \in [1 .. Len(s) -> Metrics]
      BY <2>1 DEF Stats, Metric
    <2> QED
      BY <2>1, <2>2, FunctionIsSeq DEF Stats
  <1>2. /\ p \o q \in Seq(Metric) /\ Len(p \o q) = Len(p) + Len(q)
        /\ Len(p) \in Nat /\ Len(q) \in Nat
        /\ \A i \in 1 .. Len(p) + Len(q) :
             (p \o q)[i] = IF i <= Len(p) THEN p[i] ELSE q[i - Len(p)]
    BY ConcatProperties, LenProperties
  <1>3. /\ Stats(p) \o Stats(q) \in Seq(Metrics)
        /\ Len(Stats(p) \o Stats(q)) = Len(p) + Len(q)
        /\ \A i \in 1 .. Len(p) + Len(q) :
             (Stats(p) \o Stats(q))[i]
               = IF i <= Len(p) THEN Stats(p)[i] ELSE Stats(q)[i - Len(p)]
    <2>1. /\ Stats(p) \in Seq(Metrics) /\ Stats(q) \in Seq(Metrics)
          /\ Len(Stats(p)) = Len(p) /\ Len(Stats(q)) = Len(q)
      BY <1>1
    <2>2. \A u, v \in Seq(Metrics) :
            /\ u \o v \in Seq(Metrics) /\ Len(u \o v) = Len(u) + Len(v)
            /\ \A i \in 1 .. Len(u) + Len(v) :
                 (u \o v)[i] = IF i <= Len(u) THEN u[i] ELSE v[i - Len(u)]
      BY ConcatProperties, Zenon
    <2> DEFINE n == Len(Stats(p)) + Len(Stats(q))
    <2>3. /\ Stats(p) \o Stats(q) \in Seq(Metrics) /\ Len(Stats(p) \o Stats(q)) = n
          /\ \A i \in 1 .. n :
               (Stats(p) \o Stats(q))[i] = IF i <= Len(Stats(p)) THEN Stats(p)[i]
                                          ELSE Stats(q)[i - Len(Stats(p))]
      BY <2>1, <2>2, Zenon
    <2> QED
      BY <2>1, <2>3
  <1>4. ASSUME NEW i \in 1 .. Len(p) + Len(q)
        PROVE  /\ Stats(p \o q)[i] = (Stats(p) \o Stats(q))[i]
               /\ \/ i \in 1 .. Len(p) /\ (p \o q)[i] = p[i]
                  \/ \E j \in 1 .. Len(q) : (p \o q)[i] = q[j]
    <2>1. Stats(p \o q)[i] = (p \o q)[i].stat
      BY <1>1, <1>2
    <2>2. CASE i <= Len(p)
      <3>1. i \in 1 .. Len(p)
        BY <1>2, <2>2
      <3> QED
        BY <1>1, <1>2, <1>3, <2>1, <2>2, <3>1
    <2>3. CASE ~(i <= Len(p))
      <3>1. i - Len(p) \in 1 .. Len(q)
        BY <1>2, <2>3
      <3> QED
        BY <1>1, <1>2, <1>3, <2>1, <2>3, <3>1
    <2> QED
      BY <2>2, <2>3
  <1>5. Stats(p \o q) = Stats(p) \o Stats(q)
    <2>1. /\ Stats(p \o q) \in Seq(Metrics)
          /\ Len(Stats(p \o q)) = Len(p) + Len(q)
      BY <1>1, <1>2
    <2> QED
      BY <1>3, <1>4, <2>1, SeqEqual
  <1> QED
    BY <1>1, <1>2, <1>4, <1>5

LEMMA PairsAreNotEmpty == \A t \in Int \X Int : t # << >>
  <1> SUFFICES ASSUME NEW a \in Int, NEW b \in Int
               PROVE  << a, b >> # << >>
    OBVIOUS
  <1>1. << a, b >> \in Seq(Int) /\ Len(<< a, b >>) = 2
    OBVIOUS
  <1>2. << >> \in Seq(Int) /\ Len(<< >>) = 0
    BY EmptySeq
  <1> QED
    BY <1>1, <1>2

LEMMA Words ==
    /\ First \in Seq(Metrics) /\ << "if-rx", "if-tx" >> \in Seq(Metrics)
    /\ << "cpu" >> \in Seq(Metrics) /\ << >> \in Seq(Metrics)
  <1>1. \A a, b, c, d \in Metrics :
          /\ << a, b, c, d >> \in Seq(Metrics) /\ << a, b >> \in Seq(Metrics)
          /\ << a >> \in Seq(Metrics)
    OBVIOUS
  <1>2. /\ "load" \in Metrics /\ "freemem" \in Metrics /\ "procs" \in Metrics
        /\ "uptime" \in Metrics /\ "if-rx" \in Metrics /\ "if-tx" \in Metrics
        /\ "cpu" \in Metrics
    BY DEF Metrics
  <1> QED
    BY <1>1, <1>2, EmptySeq, Zenon DEF First

(* The traffic of one row more. *)
LEMMA LinesOneMore ==
    ASSUME table \in Seq([name : STRING, bytes : Int \X Int]), NEW n \in 0 .. Len(table) - 1
    PROVE  Lines(n + 1) = Lines(n) \o (IF table[n + 1].name \in Named
                                       THEN << "if-rx", "if-tx" >> ELSE << >>)
  <1> DEFINE part(i) == IF table[i].name \in Named THEN << "if-rx", "if-tx" >> ELSE << >>
             ss == [i \in 1 .. n + 1 |-> part(i)]
  <1>1. Len(table) \in Nat /\ n \in Nat
    BY LenProperties
  <1>2. << "if-rx", "if-tx" >> \in Seq(Metrics) /\ << >> \in Seq(Metrics)
    BY Words
  <1>3. ss \in [1 .. n + 1 -> Seq(Metrics)]
    BY <1>2
  <1>4. [i \in 1 .. n |-> ss[i]] = [i \in 1 .. n |-> part(i)] /\ ss[n + 1] = part(n + 1)
    BY <1>1
  <1>5. FlattenSeq(ss) = FlattenSeq([i \in 1 .. n |-> ss[i]]) \o ss[n + 1]
    <2> HIDE DEF ss
    <2> QED
      BY <1>1, <1>3, FlattenOneMore
  <1>6. Lines(n + 1) = FlattenSeq(ss) /\ Lines(n) = FlattenSeq([i \in 1 .. n |-> part(i)])
    BY Zenon DEF Lines
  <1> QED
    <2> HIDE DEF ss
    <2> QED
      BY <1>4, <1>5, <1>6, Zenon

LEMMA LinesAre ==
    ASSUME table \in Seq([name : STRING, bytes : Int \X Int]), NEW n \in 0 .. Len(table)
    PROVE  Lines(n) \in Seq(Metrics)
  <1> DEFINE part(i) == IF table[i].name \in Named THEN << "if-rx", "if-tx" >> ELSE << >>
             ss == [i \in 1 .. n |-> part(i)]
  <1>1. CASE n = 0
    <2>1. Lines(n) = << >>
      <3>1. ss = << >>
        BY <1>1
      <3> QED
        BY <3>1, FlattenNothing, Zenon DEF Lines
    <2> QED
      BY <2>1, EmptySeq
  <1>2. CASE n # 0
    <2>1. n - 1 \in Nat /\ (n - 1) + 1 = n
      BY <1>2, LenProperties
    <2>2. << "if-rx", "if-tx" >> \in Seq(Metrics) /\ << >> \in Seq(Metrics)
      BY Words
    <2>3. ss \in [1 .. (n - 1) + 1 -> Seq(Metrics)]
      BY <2>1, <2>2
    <2>4. Lines(n) = FlattenSeq(ss)
      BY Zenon DEF Lines
    <2> HIDE DEF ss
    <2> QED
      BY <2>1, <2>3, <2>4, FlattenOneMore
  <1> QED
    BY <1>1, <1>2
-----------------------------------------------------------------------------
(* The turn: the packet grows by what it should. *)
LEMMA GaugesBuild ==
    ASSUME PacketInv, link # NoLink, Gauges
    PROVE  /\ pkt' \in Seq(Metric) /\ Stats(pkt') = First
           /\ \A i \in 1 .. Len(pkt') : pkt'[i].ns = ns /\ pkt'[i].stat # "cpu"
  <1> DEFINE m(s, t) == [ns |-> ns, stat |-> s, value |-> 0, type |-> t]
             p == << m("load", "g"), m("freemem", "g"), m("procs", "g"), m("uptime", "c") >>
  <1>1. pkt' = p
    <2>1. pkt' = << m("load", "g") >> \o << m("freemem", "g") >> \o << m("procs", "g") >>
                   \o << m("uptime", "c") >>
      BY DEF Gauges, Prepares, statsd_prepare, PacketInv
    <2> QED
      BY <2>1, Tuples, Zenon
  <1>2. \A s \in Metrics : \A t \in {"g", "c"} : m(s, t) \in Metric
    BY DEF PacketInv, Metric
  <1>3. p \in Seq(Metric) /\ Len(p) = 4
    <2>1. \A a, b, c, d \in Metric : << a, b, c, d >> \in Seq(Metric)
      OBVIOUS
    <2> QED
      BY <1>2, <2>1 DEF Metrics
  <1>4. Stats(p) = First
    <2>1. Stats(p) = [i \in 1 .. 4 |-> p[i].stat]
      BY <1>3 DEF Stats
    <2> QED
      BY <2>1 DEF First
  <1>5. \A i \in 1 .. 4 : p[i].ns = ns /\ p[i].stat # "cpu"
    OBVIOUS
  <1> HIDE DEF p
  <1> QED
    BY <1>1, <1>3, <1>4, <1>5

LEMMA RowBuilds ==
    ASSUME PacketInv, NEW l, l.name \in Named => l.bytes = << >> \/ l.bytes \in Int \X Int
    PROVE  /\ Traffic(l) \in Seq(Metric)
           /\ link = NoLink => Traffic(l) = << >>
           /\ link # NoLink =>
                 Stats(Traffic(l)) = IF l.name \in Named /\ l.bytes # << >>
                                     THEN << "if-rx", "if-tx" >> ELSE << >>
           /\ \A i \in 1 .. Len(Traffic(l)) :
                 Traffic(l)[i].ns = ns /\ Traffic(l)[i].stat # "cpu"
  <1>1. CASE l.name \in Named /\ l.bytes # << >> /\ link # NoLink
    <2> DEFINE m(s, v) == [ns |-> ns, stat |-> s, value |-> v, type |-> "c"]
               a == m("if-rx", atoi(l.bytes[1]))
               b == m("if-tx", atoi(l.bytes[2]))
    <2>1. Traffic(l) = << a, b >>
      <3>1. Traffic(l) = << a >> \o << b >>
        BY <1>1 DEF Traffic, Prepares, statsd_prepare, PacketInv
      <3> QED
        BY <3>1, Tuples, Zenon
    <2>2. atoi(l.bytes[1]) \in Int /\ atoi(l.bytes[2]) \in Int
      BY <1>1, UptimedAssumption DEF atoi
    <2>3. a \in Metric /\ b \in Metric
      BY <2>2 DEF Metric, Metrics, PacketInv
    <2>4. << a, b >> \in Seq(Metric) /\ Len(<< a, b >>) = 2
      <3> HIDE DEF a, b
      <3> QED
        BY <2>3
    <2>5. Stats(<< a, b >>) = << "if-rx", "if-tx" >>
      <3>1. Stats(<< a, b >>) = [i \in 1 .. 2 |-> << a, b >>[i].stat]
        BY <2>4 DEF Stats
      <3> QED
        BY <3>1
    <2>6. \A i \in 1 .. 2 : << a, b >>[i].ns = ns /\ << a, b >>[i].stat # "cpu"
      OBVIOUS
    <2> HIDE DEF a, b
    <2> QED
      BY <1>1, <2>1, <2>4, <2>5, <2>6
  <1>2. CASE ~(l.name \in Named /\ l.bytes # << >> /\ link # NoLink)
    <2>1. Traffic(l) = << >>
      <3>1. << >> \o << >> = << >>
        BY EmptySeq, ConcatEmptySeq
      <3>2. link = NoLink => \A s, v, t : Prepares(s, v, t) = << >>
        BY DEF Prepares, statsd_prepare
      <3> QED
        BY <1>2, <3>1, <3>2, Zenon DEF Traffic
    <2>2. Stats(<< >>) = << >> /\ << >> \in Seq(Metric) /\ Len(<< >>) = 0
      BY EmptySeq DEF Stats
    <2> QED
      BY <1>2, <2>1, <2>2
  <1> QED
    BY <1>1, <1>2
-----------------------------------------------------------------------------
(* What goes out with a report: nothing, or the packet and the gauge.      *)
LEMMA ReportSends ==
    ASSUME PacketInv, Reports
    PROVE  LET span_ == Minus(Total(cpu) % W, old_total)
               share == ((100 * Minus(Busy(cpu) % W, old_busy)) % W) \div span_
               gauge == [ns |-> ns, stat |-> "cpu", value |-> share, type |-> "g"]
           IN  wire' = << >> \/ (link # NoLink /\ wire' = pkt \o << gauge >>)
  <1>1. CASE link = NoLink
    BY <1>1 DEF Reports, statsd_send
  <1>2. CASE link # NoLink
    BY <1>2 DEF Reports, statsd_send, Prepares, statsd_prepare, PacketInv
  <1> QED
    BY <1>1, <1>2

(* What one more metric does to a packet. *)
LEMMA OneMore ==
    ASSUME NEW p \in Seq(Metric), NEW m \in Metric
    PROVE  /\ p \o << m >> \in Seq(Metric) /\ p \o << m >> # << >>
           /\ Last(p \o << m >>) = m
           /\ Stats(p \o << m >>) = Stats(p) \o << m.stat >>
           /\ \A i \in 1 .. Len(p \o << m >>) :
                \/ i \in 1 .. Len(p) /\ (p \o << m >>)[i] = p[i]
                \/ (p \o << m >>)[i] = m
  <1>1. << m >> \in Seq(Metric) /\ Len(<< m >>) = 1 /\ << m >>[1] = m
    OBVIOUS
  <1>2. /\ p \o << m >> \in Seq(Metric) /\ Len(p \o << m >>) = Len(p) + 1
        /\ Len(p) \in Nat /\ (p \o << m >>)[Len(p) + 1] = m
    BY <1>1, ConcatProperties, LenProperties
  <1>3. Stats(<< m >>) = << m.stat >>
    BY <1>1 DEF Stats
  <1>4. p \o << m >> # << >>
    BY <1>2, EmptySeq
  <1>5. Last(p \o << m >>) = m
    BY <1>2 DEF Last
  <1>6. /\ Stats(p \o << m >>) = Stats(p) \o Stats(<< m >>)
        /\ \A i \in 1 .. Len(p \o << m >>) :
             \/ i \in 1 .. Len(p) /\ (p \o << m >>)[i] = p[i]
             \/ \E j \in 1 .. Len(<< m >>) : (p \o << m >>)[i] = << m >>[j]
    BY <1>1, StatsOfConcat
  <1>7. \A j \in 1 .. Len(<< m >>) : << m >>[j] = m
    BY <1>1
  <1> QED
    BY <1>2, <1>3, <1>4, <1>5, <1>6, <1>7, Zenon

(* The gauge of a report is a metric, and its value an unsigned int. *)
LEMMA GaugeIs ==
    ASSUME CpuInv, PacketInv, Minus(Total(cpu) % W, old_total) # 0
    PROVE  LET span_ == Minus(Total(cpu) % W, old_total)
               share == ((100 * Minus(Busy(cpu) % W, old_busy)) % W) \div span_
               gauge == [ns |-> ns, stat |-> "cpu", value |-> share, type |-> "g"]
           IN  /\ share \in 0 .. W - 1 /\ gauge \in Metric
               /\ gauge.stat = "cpu" /\ gauge.ns = ns /\ gauge.value = share
  <1> DEFINE a == Minus(Busy(cpu) % W, old_busy)
             b == Minus(Total(cpu) % W, old_total)
             share == ((100 * a) % W) \div b
  <1>1. /\ Busy(cpu) \in Nat /\ Total(cpu) \in Nat
        /\ Busy(seen) \in Nat /\ Total(seen) \in Nat
    BY DEF CpuInv, Busy, Total
  <1>2. /\ Busy(cpu) % W \in Int /\ Total(cpu) % W \in Int
        /\ old_busy \in Int /\ old_total \in Int
    BY <1>1, InRange DEF CpuInv
  <1>3. a \in 0 .. W - 1 /\ b \in 0 .. W - 1
    BY <1>2, InRange DEF Minus
  <1>4. (100 * a) % W \in 0 .. W - 1
    BY <1>3, InRange
  <1>5. b \in Nat /\ b >= 1
    BY <1>3
  <1>6. share \in 0 .. W - 1
    <2> DEFINE x == (100 * a) % W
    <2>1. x \in Nat /\ x <= W - 1
      BY <1>4, UptimedAssumption
    <2> HIDE DEF x, b
    <2>2. x \div b \in 0 .. x
      BY <2>1, <1>5, Smaller
    <2> QED
      BY <2>1, <2>2, UptimedAssumption DEF x
  <1> HIDE DEF share
  <1>7. share \in Int
    BY <1>6, UptimedAssumption
  <1>8. [ns |-> ns, stat |-> "cpu", value |-> share, type |-> "g"] \in Metric
    BY <1>7 DEF Metric, Metrics, PacketInv
  <1> QED
    BY <1>6, <1>8 DEF share
-----------------------------------------------------------------------------
(* CpuInv and PacketInv are inductive. *)
LEMMA CpuInit == Init => CpuInv
  <1> SUFFICES ASSUME Init
               PROVE  CpuInv
    OBVIOUS
  <1>1. 0 % W = 0
    BY InRange, UptimedAssumption
  <1>2. Total(seen) = 0 /\ Busy(seen) = 0
    BY DEF Init, Total, Busy
  <1>3. \A n \in {"user", "sys", "idle"} : cpu[n] \in Nat /\ seen[n] = 0
    <2>1. cpu \in [{"user", "sys", "idle"} -> Nat]
      BY UptimedAssumption DEF Init
    <2>2. seen = [user |-> 0, sys |-> 0, idle |-> 0]
      BY DEF Init
    <2> QED
      BY <2>1, <2>2
  <1> QED
    BY <1>1, <1>2, <1>3 DEF Init, CpuInv

LEMMA CpuStep == CpuInv /\ [Next]_vars => CpuInv'
  <1> SUFFICES ASSUME CpuInv, [Next]_vars
               PROVE  CpuInv'
    OBVIOUS
  <1>1. CASE UNCHANGED << cpu, cpuvars >>
    BY <1>1 DEF CpuInv, cpuvars
  <1>2. CASE Reports
    <2>1. \A n \in {"user", "sys", "idle"} : cpu'[n] \in Nat /\ seen'[n] = cpu'[n]
      BY <1>2 DEF Reports, CpuInv
    <2>2. old_total' = Total(seen') % W /\ old_busy' = Busy(seen') % W
      BY <1>2 DEF Reports, Keep
    <2> QED
      BY <2>1, <2>2 DEF CpuInv, Total, Busy
  <1>3. CASE Sleep
    <2>1. PICK u \in Nat, s \in Nat, i \in Nat :
            cpu' = [user |-> cpu.user + u, sys |-> cpu.sys + s, idle |-> cpu.idle + i]
      BY <1>3, UptimedAssumption DEF Sleep
    <2>2. \A n \in {"user", "sys", "idle"} : cpu'[n] \in Nat /\ cpu[n] <= cpu'[n]
      BY <2>1 DEF CpuInv
    <2>3. UNCHANGED << old_total, old_busy, seen >>
      BY <1>3 DEF Sleep, cpuvars
    <2> QED
      BY <2>2, <2>3 DEF CpuInv
  <1>4. Reports \/ Sleep \/ UNCHANGED << cpu, cpuvars >>
    BY DEF Next, Process, FindMac, FindMacOverflows, OpenFiles, Connect, Gauges, NetRow,
           Dies, Wake, Finish, sigterm, vars, cpuvars
  <1> QED
    BY <1>1, <1>2, <1>3, <1>4

LEMMA PacketInit == Init => PacketInv
  <1> SUFFICES ASSUME Init
               PROVE  PacketInv
    OBVIOUS
  <1>1. << >> \in Seq(Metric) /\ << >> \in Seq([name : STRING, bytes : Int \X Int])
    BY EmptySeq
  <1>2. Len(<< >>) = 0
    BY EmptySeq
  <1> QED
    BY <1>1, <1>2 DEF Init, PacketInv, Spaces

LEMMA PacketNetRow ==
    ASSUME PacketInv, NetRow
    PROVE  PacketInv'
  <1> DEFINE read == IF row < Len(table) THEN table[row + 1] ELSE line
  <1>1. /\ Len(table) \in Nat /\ row \in 0 .. Len(table)
        /\ row < Len(table) => table[row + 1] \in [name : STRING, bytes : Int \X Int]
    <2>1. Len(table) \in Nat /\ row \in 0 .. Len(table)
      BY LenProperties DEF PacketInv
    <2>2. row < Len(table) => row + 1 \in 1 .. Len(table)
      BY <2>1
    <2>3. table \in Seq([name : STRING, bytes : Int \X Int])
      BY DEF PacketInv
    <2> QED
      BY <2>1, <2>2, <2>3, ElementOfSeq
  <1>2. read.name \in Named => read.bytes = << >> \/ read.bytes \in Int \X Int
    BY <1>1 DEF PacketInv
  <1>3. /\ Traffic(read) \in Seq(Metric)
        /\ link = NoLink => Traffic(read) = << >>
        /\ link # NoLink =>
              Stats(Traffic(read)) = IF read.name \in Named /\ read.bytes # << >>
                                     THEN << "if-rx", "if-tx" >> ELSE << >>
        /\ \A i \in 1 .. Len(Traffic(read)) :
              Traffic(read)[i].ns = ns /\ Traffic(read)[i].stat # "cpu"
    <2> HIDE DEF read
    <2> QED
      BY <1>2, RowBuilds
  <1>4. pkt' = pkt \o Traffic(read) /\ UNCHANGED << ns, link, wire, table >>
    BY DEF NetRow, linkvars
  <1>5. line'.name \in Named => line'.bytes = << >>
    BY DEF NetRow, Cut
  <1>6. \/ pc' = "rows" /\ row < Len(table) /\ row' = row + 1
        \/ pc' = "cpu" /\ row = Len(table) /\ row' = row
    BY <1>1 DEF NetRow
  <1>7. pc = "rows"
    BY DEF NetRow
  <1>8. /\ pkt' \in Seq(Metric)
        /\ Stats(pkt') = Stats(pkt) \o Stats(Traffic(read))
        /\ \A i \in 1 .. Len(pkt') :
             \/ i \in 1 .. Len(pkt) /\ pkt'[i] = pkt[i]
             \/ \E j \in 1 .. Len(Traffic(read)) : pkt'[i] = Traffic(read)[j]
    <2> DEFINE t == Traffic(read)
    <2>1. t \in Seq(Metric) /\ pkt \in Seq(Metric)
      BY <1>3 DEF PacketInv
    <2>2. pkt' = pkt \o t
      BY <1>4
    <2> HIDE DEF t
    <2> QED
      BY <2>1, <2>2, StatsOfConcat DEF t
  <1>9. \A i \in 1 .. Len(pkt') : pkt'[i].stat # "cpu"
    BY <1>3, <1>8 DEF PacketInv
  <1>10. link = NoLink => pkt' = << >>
    <2>1. << >> \o << >> = << >>
      BY EmptySeq, ConcatEmptySeq
    <2> QED
      BY <1>3, <1>4, <2>1, Zenon DEF PacketInv
  <1>11. ASSUME link # NoLink
         PROVE  /\ Stats(pkt') = First \o Lines(row')
                /\ \A i \in 1 .. Len(pkt') : pkt'[i].ns = ns
    <2>1. Stats(pkt) = First \o Lines(row) /\ \A i \in 1 .. Len(pkt) : pkt[i].ns = ns
      BY <1>7, <1>11 DEF PacketInv
    <2>2. \A i \in 1 .. Len(pkt') : pkt'[i].ns = ns
      <3> HIDE DEF read
      <3> QED
        BY <1>3, <1>8, <2>1
    <2>3. First \in Seq(Metrics) /\ Lines(row) \in Seq(Metrics)
      <3>1. table \in Seq([name : STRING, bytes : Int \X Int])
        BY DEF PacketInv
      <3>2. Lines(row) \in Seq(Metrics)
        BY <1>1, <3>1, LinesAre
      <3> QED
        BY <3>2, Words
    <2>4. CASE row < Len(table)
      <3> DEFINE more == IF table[row + 1].name \in Named THEN << "if-rx", "if-tx" >> ELSE << >>
      <3>1. Stats(Traffic(read)) = more
        <4>1. read = table[row + 1]
          BY <2>4
        <4>2. table[row + 1].bytes # << >>
          BY <1>1, <2>4, PairsAreNotEmpty
        <4>3. Stats(Traffic(read)) = IF read.name \in Named /\ read.bytes # << >>
                                     THEN << "if-rx", "if-tx" >> ELSE << >>
          BY <1>3, <1>11
        <4>4. /\ read.name = table[row + 1].name
              /\ read.bytes # << >>
          BY <4>1, <4>2
        <4> HIDE DEF read
        <4> QED
          BY <4>3, <4>4, Zenon
      <3>2. Lines(row + 1) = Lines(row) \o more
        <4>1. row \in 0 .. Len(table) - 1
          BY <1>1, <2>4
        <4>2. table \in Seq([name : STRING, bytes : Int \X Int])
          BY DEF PacketInv
        <4> QED
          BY <4>1, <4>2, LinesOneMore
      <3>3. more \in Seq(Metrics)
        BY Words
      <3>4. First \o (Lines(row) \o more) = (First \o Lines(row)) \o more
        <4> HIDE DEF more
        <4> QED
          BY <2>3, <3>3, ConcatAssociative
      <3>5. row' = row + 1
        BY <1>6, <2>4, <1>1
      <3> HIDE DEF more, read
      <3> QED
        BY <1>8, <2>1, <2>2, <3>1, <3>2, <3>4, <3>5, Zenon
    <2>5. CASE ~(row < Len(table))
      <3>1. Stats(Traffic(read)) = << >>
        BY <1>3, <1>11, <2>5 DEF PacketInv
      <3>2. Stats(pkt) \o << >> = Stats(pkt)
        BY StatsOfConcat, ConcatEmptySeq DEF PacketInv
      <3>3. row' = row
        BY <1>6, <2>5, <1>1
      <3> HIDE DEF read
      <3> QED
        BY <1>8, <2>1, <2>2, <3>1, <3>2, <3>3, Zenon
    <2> QED
      BY <2>4, <2>5
  <1>12. Lines(row)' = Lines(row')
    BY <1>4 DEF Lines
  <1>13. Stats(pkt)' = Stats(pkt')
    BY DEF Stats
  <1>14. row' \in 0 .. Len(table) /\ (pc' = "cpu" => row' = Len(table))
    BY <1>1, <1>6
  <1> HIDE DEF read
  <1> QED
    BY <1>4, <1>5, <1>6, <1>8, <1>9, <1>10, <1>11, <1>12, <1>13, <1>14 DEF PacketInv

(* The packet is left alone by the steps that are not of a turn. *)
LEMMA PacketKept ==
    ASSUME PacketInv, UNCHANGED << ns, link, pkt, wire, table, row, line >>,
           pc' \in {"mac", "files", "connect"} => link = NoLink,
           pc' \notin {"rows", "cpu"} \/ pc' = pc
    PROVE  PacketInv'
  <1>1. Lines(row)' = Lines(row) /\ Stats(pkt)' = Stats(pkt)
    BY DEF Lines, Stats
  <1> QED
    BY <1>1 DEF PacketInv

LEMMA PacketStep == CpuInv /\ PacketInv /\ [Next]_vars => PacketInv'
  <1> SUFFICES ASSUME CpuInv, PacketInv, [Next]_vars
               PROVE  PacketInv'
    OBVIOUS
  <1>0. \A p, q : Stats(p)' = Stats(p') /\ First' = First
    BY DEF Stats, First
  <1>1. CASE FindMac
    <2>1. /\ ns' \in Spaces /\ pc = "mac" /\ pc' = "files"
          /\ UNCHANGED << link, pkt, wire, table, row, line >>
      BY <1>1 DEF FindMac, netvars, Spaces
    <2> QED
      BY <2>1 DEF PacketInv
  <1>2. CASE Connect
    <2>1. /\ link' = NoLink \/ link' = [ns |-> ns]
          /\ pc = "connect" /\ pc' = "turn" /\ link = NoLink
          /\ UNCHANGED << ns, pkt, wire, table, row, line >>
      BY <1>2 DEF Connect, netvars, statsd_init_with_namespace, PacketInv
    <2>2. pkt = << >>
      BY <2>1 DEF PacketInv
    <2> QED
      BY <2>1, <2>2 DEF PacketInv
  <1>3. CASE Gauges
    <2>1. /\ pc' = "rows" /\ table' \in Seq([name : STRING, bytes : Int \X Int])
          /\ row' = 0 /\ UNCHANGED << ns, link, wire, line >>
      BY <1>3, UptimedAssumption DEF Gauges, linkvars
    <2>2. CASE link = NoLink
      <3>1. pkt' = << >>
        <4>1. << >> \o << >> = << >>
          BY EmptySeq, ConcatEmptySeq
        <4>2. pkt' = << >> \o << >> \o << >> \o << >>
          BY <1>3, <2>2 DEF Gauges, Prepares, statsd_prepare
        <4> QED
          BY <4>1, <4>2, Zenon
      <3>2. << >> \in Seq(Metric) /\ Len(<< >>) = 0
        BY EmptySeq
      <3>3. Len(table') \in Nat
        BY <2>1, LenProperties
      <3> QED
        BY <2>1, <2>2, <3>1, <3>2, <3>3 DEF PacketInv
    <2>3. CASE link # NoLink
      <3>1. /\ pkt' \in Seq(Metric) /\ Stats(pkt') = First
            /\ \A i \in 1 .. Len(pkt') : pkt'[i].ns = ns /\ pkt'[i].stat # "cpu"
        BY <1>3, <2>3, GaugesBuild
      <3>2. Lines(row)' = << >>
        <4>1. [i \in 1 .. 0 |-> IF table'[i].name \in Named
                                THEN << "if-rx", "if-tx" >> ELSE << >>] = << >>
          OBVIOUS
        <4> QED
          BY <2>1, <4>1, FlattenNothing, Zenon DEF Lines
      <3>3. First \o << >> = First
        BY ConcatEmptySeq DEF First, Metrics
      <3>4. Stats(pkt)' = Stats(pkt')
        BY DEF Stats
      <3>5. Len(table') \in Nat
        BY <2>1, LenProperties
      <3>6. (First \o Lines(row))' = First
        BY <3>2, <3>3, Zenon DEF First
      <3> QED
        BY <2>1, <2>3, <3>1, <3>4, <3>5, <3>6 DEF PacketInv
    <2> QED
      BY <2>2, <2>3
  <1>4. CASE NetRow
    BY <1>4, PacketNetRow
  <1>5. CASE Reports
    <2>1. /\ pc' = "sleep" /\ UNCHANGED << ns, link, pkt, table, row, line >>
      BY <1>5 DEF Reports, linkvars, netvars
    <2>2. wire' \in Seq(Metric)
      <3> DEFINE gauge == [ns |-> ns, stat |-> "cpu",
                           value |-> ((100 * Minus(Busy(cpu) % W, old_busy)) % W)
                                       \div Minus(Total(cpu) % W, old_total),
                           type |-> "g"]
      <3>1. wire' = << >> \/ (link # NoLink /\ wire' = pkt \o << gauge >>)
        BY <1>5, ReportSends
      <3>2. Minus(Total(cpu) % W, old_total) # 0
        BY <1>5 DEF Reports
      <3>3. gauge \in Metric
        BY <3>2, GaugeIs
      <3> HIDE DEF gauge
      <3>4. pkt \o << gauge >> \in Seq(Metric)
        BY <3>3, OneMore DEF PacketInv
      <3>5. << >> \in Seq(Metric)
        BY EmptySeq
      <3> QED
        BY <3>1, <3>4, <3>5
    <2> QED
      BY <2>1, <2>2 DEF PacketInv
  <1>6. CASE FindMacOverflows \/ Dies \/ Sleep \/ Wake \/ Finish
    BY <1>6, PacketKept
    DEF FindMacOverflows, Dies, Sleep, Wake, Finish, netvars, linkvars
  <1>7. CASE OpenFiles
    <2>1. link = NoLink
      BY <1>7 DEF OpenFiles, PacketInv
    <2> QED
      BY <1>7, <2>1, PacketKept DEF OpenFiles, netvars, linkvars
  <1>8. CASE sigterm \/ UNCHANGED vars
    <2>1. pc' \in {"mac", "files", "connect"} => link = NoLink
      BY <1>8 DEF PacketInv, sigterm, vars
    <2> QED
      BY <1>8, <2>1, PacketKept DEF sigterm, vars, netvars, linkvars
  <1> QED
    BY <1>1, <1>2, <1>3, <1>4, <1>5, <1>6, <1>7, <1>8 DEF Next, Process
-----------------------------------------------------------------------------
(* What a report makes true. *)
LEMMA ReportWhole ==
    ASSUME CpuInv, PacketInv, Reports
    PROVE  PacketWhole' /\ (wire' # << >> => Last(wire').value \in 0 .. W - 1)
  <1> DEFINE share == ((100 * Minus(Busy(cpu) % W, old_busy)) % W)
                        \div Minus(Total(cpu) % W, old_total)
             gauge == [ns |-> ns, stat |-> "cpu", value |-> share, type |-> "g"]
  <1>1. wire' = << >> \/ (link # NoLink /\ wire' = pkt \o << gauge >>)
    BY ReportSends
  <1>2. /\ share \in 0 .. W - 1 /\ gauge \in Metric
        /\ gauge.stat = "cpu" /\ gauge.ns = ns /\ gauge.value = share
    BY GaugeIs DEF Reports
  <1>3. UNCHANGED << ns, table >> /\ pc = "cpu"
    BY DEF Reports, linkvars, netvars
  <1> HIDE DEF gauge, share
  <1> SUFFICES ASSUME wire' # << >>
               PROVE  /\ [k \in DOMAIN wire' |-> wire'[k].stat] = Expected(table)
                      /\ \A k \in DOMAIN wire' : wire'[k].ns = ns
                      /\ Last(wire').value = share
    BY <1>2, <1>3 DEF PacketWhole, Expected, Counted
  <1>4. link # NoLink /\ wire' = pkt \o << gauge >> /\ pkt \in Seq(Metric)
    BY <1>1 DEF PacketInv
  <1>5. /\ wire' \in Seq(Metric) /\ Last(wire') = gauge
        /\ Stats(wire') = Stats(pkt) \o << gauge.stat >>
        /\ \A k \in 1 .. Len(wire') :
             \/ k \in 1 .. Len(pkt) /\ wire'[k] = pkt[k]
             \/ wire'[k] = gauge
    BY <1>2, <1>4, OneMore
  <1>6. /\ Stats(pkt) = First \o Lines(Len(table))
        /\ \A k \in 1 .. Len(pkt) : pkt[k].ns = ns
    BY <1>3, <1>4 DEF PacketInv
  <1>7. DOMAIN wire' = 1 .. Len(wire') /\ DOMAIN table = 1 .. Len(table)
    BY <1>5, LenProperties DEF PacketInv
  <1>8. \A k \in DOMAIN wire' : wire'[k].ns = ns
    BY <1>2, <1>5, <1>6, <1>7
  <1>9. Expected(table) = First \o Lines(Len(table)) \o << "cpu" >>
    BY <1>7, Zenon DEF Expected, Counted, First, Lines
  <1>10. Stats(wire') = [k \in DOMAIN wire' |-> wire'[k].stat]
    BY <1>7 DEF Stats
  <1>11. Stats(wire') = Expected(table)
    BY <1>2, <1>5, <1>6, <1>9, Zenon
  <1> QED
    BY <1>2, <1>5, <1>8, <1>10, <1>11

LEMMA ReportCpu ==
    ASSUME CpuInv, PacketInv, Reports
    PROVE  CpuRight'
  <1> DEFINE busy == Busy(cpu) - Busy(seen)
             total == Total(cpu) - Total(seen)
             share == ((100 * Minus(Busy(cpu) % W, old_busy)) % W)
                        \div Minus(Total(cpu) % W, old_total)
             gauge == [ns |-> ns, stat |-> "cpu", value |-> share, type |-> "g"]
  <1>1. wire' = << >> \/ (link # NoLink /\ wire' = pkt \o << gauge >>)
    BY ReportSends
  <1>2. gauge \in Metric /\ gauge.value = share
    BY GaugeIs DEF Reports
  <1>3. wire' # << >> => Last(wire') = gauge
    <2> SUFFICES ASSUME wire' # << >>
                 PROVE  Last(wire') = gauge
      OBVIOUS
    <2>1. pkt \in Seq(Metric) /\ gauge \in Metric
      BY <1>2 DEF PacketInv
    <2> HIDE DEF gauge, share
    <2>2. wire' = pkt \o << gauge >>
      BY <1>1
    <2>3. Last(pkt \o << gauge >>) = gauge
      BY <2>1, OneMore
    <2> QED
      BY <2>2, <2>3
  <1>4. span' = [busy |-> busy, total |-> total]
    BY DEF Reports
  <1>5. /\ Busy(cpu) \in Nat /\ Busy(seen) \in Nat /\ Busy(seen) <= Busy(cpu)
        /\ Total(cpu) \in Nat /\ Total(seen) \in Nat /\ Total(seen) <= Total(cpu)
    BY DEF CpuInv, Busy, Total
  <1>6. ASSUME 100 * busy < W, total < W
        PROVE  share = (100 * busy) \div total
    <2>1. busy \in Nat /\ total \in Nat /\ busy < W
      BY <1>5, <1>6, UptimedAssumption
    <2>2. Minus(Busy(cpu) % W, old_busy) = busy
      BY <1>5, <2>1, MinusRight DEF CpuInv
    <2>3. Minus(Total(cpu) % W, old_total) = total
      BY <1>5, <1>6, <2>1, MinusRight DEF CpuInv
    <2>4. (100 * busy) % W = 100 * busy
      <3>1. 100 * busy \in 0 .. W - 1
        BY <1>6, <2>1, UptimedAssumption
      <3> QED
        BY <3>1, InRange
    <2> HIDE DEF busy, total
    <2> QED
      BY <2>2, <2>3, <2>4
  <1> HIDE DEF share, gauge, busy, total
  <1> QED
    BY <1>2, <1>3, <1>4, <1>6 DEF CpuRight
-----------------------------------------------------------------------------
(* The theorems about uptimed. *)
UptimedInv == TypeOK /\ CpuInv /\ PacketInv /\ PacketWhole /\ CpuRight

LEMMA UptimedInit == Init => UptimedInv
  <1> SUFFICES ASSUME Init
               PROVE  UptimedInv
    OBVIOUS
  <1>1. CpuInv /\ PacketInv
    BY CpuInit, PacketInit
  <1>2. Len(<< >>) = 0 /\ DOMAIN << >> = {}
    BY EmptySeq
  <1>3. 0 \in 0 .. W - 1 /\ 0 \in 0 .. MaxTurns /\ 0 \in 0 .. 0
    BY UptimedAssumption
  <1>4. TypeOK
    BY <1>2, <1>3 DEF Init, TypeOK
  <1>5. PacketWhole /\ CpuRight
    BY DEF Init, PacketWhole, CpuRight
  <1> QED
    BY <1>1, <1>4, <1>5 DEF UptimedInv

LEMMA UptimedStep == UptimedInv /\ [Next]_vars => UptimedInv'
  <1> SUFFICES ASSUME UptimedInv, [Next]_vars
               PROVE  UptimedInv'
    OBVIOUS
  <1>1. TypeOK /\ CpuInv /\ PacketInv /\ PacketWhole /\ CpuRight
    BY DEF UptimedInv
  <1>2. CpuInv' /\ PacketInv'
    BY <1>1, CpuStep, PacketStep
  <1>3. /\ ns' \in {"host.", "host.mac"} /\ row' \in 0 .. Len(table')
        /\ old_total' \in 0 .. W - 1 /\ old_busy' \in 0 .. W - 1
        /\ \A i \in DOMAIN pkt' : pkt'[i].stat # "cpu"
    <2>1. \A n \in {"user", "sys", "idle"} : seen'[n] \in Nat
      BY <1>2 DEF CpuInv
    <2>2. Busy(seen') \in Int /\ Total(seen') \in Int
      BY <2>1 DEF Busy, Total
    <2>3. old_total' = Total(seen') % W /\ old_busy' = Busy(seen') % W
      BY <1>2 DEF CpuInv, Total, Busy
    <2>4. DOMAIN pkt' = 1 .. Len(pkt')
      BY <1>2, LenProperties DEF PacketInv
    <2> QED
      BY <1>2, <2>2, <2>3, <2>4, InRange DEF PacketInv, Spaces
  <1>4. kept' \subseteq {"link", "socket", "ns"}
    <2>1. CASE Connect
      BY <1>1, <2>1 DEF Connect, statsd_init_with_namespace, TypeOK
    <2>2. CASE Finish
      BY <1>1, <2>2 DEF Finish, statsd_finalize, TypeOK
    <2>3. UNCHANGED kept \/ Connect \/ Finish
      BY DEF Next, Process, FindMac, FindMacOverflows, OpenFiles, Gauges, NetRow,
             Reports, Dies, Sleep, Wake, sigterm, vars, linkvars
    <2> QED
      BY <1>1, <2>1, <2>2, <2>3 DEF TypeOK
  <1>5. /\ pc' \in {"mac", "files", "connect", "turn", "rows", "cpu", "sleep", "exit", "dead"}
        /\ running' \in BOOLEAN
    BY <1>1 DEF Next, Process, FindMac, FindMacOverflows, OpenFiles, Connect, Gauges, NetRow,
           Reports, Dies, Sleep, Wake, Finish, sigterm, vars, TypeOK
  <1>6. turns' \in 0 .. MaxTurns
    <2>1. UNCHANGED turns \/ (turns < MaxTurns /\ turns' = turns + 1)
      BY DEF Next, Process, FindMac, FindMacOverflows, OpenFiles, Connect, Gauges, NetRow,
             Reports, Dies, Sleep, Wake, Finish, sigterm, vars
    <2> QED
      BY <1>1, <2>1, UptimedAssumption DEF TypeOK
  <1>7. CASE Reports
    BY <1>1, <1>2, <1>3, <1>4, <1>5, <1>6, <1>7, ReportWhole, ReportCpu DEF UptimedInv, TypeOK
  <1>8. CASE ~Reports
    <2>1. UNCHANGED << wire, span >>
      BY <1>8 DEF Next, Process, FindMac, FindMacOverflows, OpenFiles, Connect, Gauges, NetRow,
             Dies, Sleep, Wake, Finish, sigterm, vars, cpuvars
    <2>2. pc' = "sleep" => pc = "sleep" /\ UNCHANGED << ns, table >>
      BY <1>8 DEF Next, Process, FindMac, FindMacOverflows, OpenFiles, Connect, Gauges, NetRow,
             Dies, Sleep, Wake, Finish, sigterm, vars, linkvars, netvars
    <2>3. PacketWhole'
      BY <1>1, <2>1, <2>2 DEF PacketWhole, Expected, Counted
    <2>4. CpuRight'
      BY <1>1, <2>1, <2>2 DEF CpuRight
    <2>5. wire' # << >> => Last(wire').value \in 0 .. W - 1
      BY <1>1, <2>1 DEF TypeOK
    <2> QED
      BY <1>2, <1>3, <1>4, <1>5, <1>6, <2>3, <2>4, <2>5 DEF UptimedInv, TypeOK
  <1> QED
    BY <1>7, <1>8

LEMMA UptimedInvariant == Spec => []UptimedInv
  <1> QED
    BY UptimedInit, UptimedStep, PTL DEF Spec

(* The variables have their types: old_total and old_busy stay unsigned    *)
(* ints, the gauge of a packet on the wire is one, and no packet that is   *)
(* still built has a gauge.                                                *)
THEOREM UptimedTypeCorrect == Spec => []TypeOK
  <1>1. UptimedInv => TypeOK
    BY DEF UptimedInv
  <1> QED
    BY <1>1, UptimedInvariant, PTL

(* main's loop of uptimed.c sends every metric once, in order, under the   *)
(* namespace it found, and the traffic of every row of /proc/net/dev that  *)
(* holds the name of the interface once, whatever that file holds.         *)
THEOREM PacketCorrect == Spec => []PacketWhole
  <1>1. UptimedInv => PacketWhole
    BY DEF UptimedInv
  <1> QED
    BY <1>1, UptimedInvariant, PTL

(* The unsigned differences of uptimed.c give the share of busy ticks of   *)
(* the minute wherever the counters of the kernel wrap, for any width of   *)
(* an int.                                                                 *)
THEOREM CpuCorrect == Spec => []CpuRight
  <1>1. UptimedInv => CpuRight
    BY DEF UptimedInv
  <1> QED
    BY <1>1, UptimedInvariant, PTL
=============================================================================
