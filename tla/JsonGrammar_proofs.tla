------------------------- MODULE JsonGrammar_proofs -------------------------
(***************************************************************************)
(* The parser of json.c, for every text: shapes, ownership of what is      *)
(* allocated, positions within the text, room in the string buffer, and    *)
(* that json_decode and json_validate decide RFC 4627.                     *)
(*                                                                         *)
(* Part 1, the parser by itself: helpers on sets and bytes, one iteration  *)
(* of parse_string, the ownership invariant LeakInv with a lemma for each  *)
(* step, the position invariant PosInv in the same way, their theorems.    *)
(* Part 2, the grammar by itself: pieces of a text, the existence of the   *)
(* function Means, what a piece means in terms of places in the text.      *)
(* Part 3, the parser's functions against the grammar: parse_number,       *)
(* utf8_validate_cz, one iteration of parse_string, the first byte of a    *)
(* value.                                                                  *)
(* Part 4, what the calls that are running still expect of the text, and   *)
(* how one step of the parser changes what is expected.                    *)
(* Part 5, the invariant ParseInv, a lemma for each step, the theorem.     *)
(***************************************************************************)
EXTENDS JsonGrammar, FiniteSetTheorems, NaturalsInduction, SequenceTheorems,
        WellFoundedInduction, TLAPS

-----------------------------------------------------------------------------
(* Induction on the numbers: a property of numbers is given as the set of  *)
(* those that have it.                                                     *)

(* A set of numbers has a least one.                                       *)
LEMMA Least ==
    ASSUME NEW T \in SUBSET Nat, T # {}
    PROVE  \E m \in T : \A n \in T : m <= n
  <1> DEFINE R == OpToRel(<, Nat)
  <1>1. IsWellFoundedOn(R, Nat)
    BY NatLessThanWellFounded
  <1>2. \A x, y \in Nat : y < x => << y, x >> \in R
    BY DEF OpToRel
  <1> HIDE DEF R
  <1>3. \E x \in T : \A y \in T : << y, x >> \notin R
    BY <1>1, WFMin
  <1>4. PICK m \in T : \A y \in T : << y, m >> \notin R
    BY <1>3
  <1>5. \A n \in T : ~(n < m)
    BY <1>2, <1>4, Zenon
  <1> QED
    BY <1>5, T \subseteq Nat, m \in T, SMT

(* What holds of 0 and of each successor holds of all of them.             *)
LEMMA Induct ==
    ASSUME NEW S, 0 \in S, \A n \in Nat : n \in S => n + 1 \in S
    PROVE  Nat \subseteq S
  <1> SUFFICES ASSUME NEW k \in Nat, k \notin S
               PROVE  FALSE
    OBVIOUS
  <1>1. PICK m \in Nat \ S : \A n \in Nat \ S : m <= n
    BY Least
  <1>2. m # 0 /\ m - 1 \in Nat /\ m - 1 \in S
    BY <1>1
  <1>3. (m - 1) + 1 \in S
    BY <1>2
  <1> QED
    BY <1>1, <1>3

-----------------------------------------------------------------------------
(* The least element of a set: it has the fewest elements below it. *)
LEMMA MinFacts ==
    ASSUME NEW S, S \subseteq Nat, S # {}
    PROVE  Min(S) \in S /\ \A y \in S : Min(S) <= y
<1> DEFINE below(n) == {m \in S : m < n}
           T == {below(n) : n \in S}
           R == StrictSubsetOrdering(S)
<1>1. T \subseteq FiniteSubsetsOf(S)
  <2>1. ASSUME NEW n \in S
        PROVE  IsFiniteSet(below(n)) /\ below(n) \subseteq S
    <3>1. below(n) \subseteq 0 .. n
      <4>1. ASSUME NEW m \in S, m < n
            PROVE  m \in 0 .. n
        BY <4>1
      <4> QED
        BY <4>1
    <3>2. IsFiniteSet(0 .. n)
      BY FS_Interval
    <3> QED
      BY <3>1, <3>2, FS_Subset
  <2> QED
    BY <2>1 DEF FiniteSubsetsOf
<1>2. PICK B \in T : \A C \in T : << C, B >> \notin R
  <2>1. T # {}
    OBVIOUS
  <2>2. IsWellFoundedOn(R, FiniteSubsetsOf(S))
    BY FS_StrictSubsetOrderingWellFounded
  <2> HIDE DEF T, R
  <2>3. \E B \in T : \A C \in T : ~ (<< C, B >> \in R)
    BY <1>1, <2>1, <2>2, WFMin, Zenon
  <2> QED
    BY <2>3
<1>3. PICK x \in S : B = below(x)
  BY <1>2
<1>4. ASSUME NEW y \in S, y < x
      PROVE  FALSE
  <2>1. below(y) \subseteq below(x)
    <3>1. ASSUME NEW m \in S, m < y
          PROVE  m < x
      <4>1. m \in Nat /\ y \in Nat /\ x \in Nat
        OBVIOUS
      <4> QED
        BY <1>4, <3>1, <4>1
    <3> QED
      BY <3>1
  <2>2. y \in below(x) /\ y \notin below(y)
    BY <1>4
  <2>3. << below(y), B >> \in R
    BY <1>3, <2>1, <2>2 DEF StrictSubsetOrdering
  <2> QED
    BY <1>2, <2>3
<1>5. \A y \in S : x <= y
  BY <1>4
<1> QED
  BY <1>5 DEF Min

-----------------------------------------------------------------------------
(* Bytes and positions. *)
(* A byte of the text is never the NUL. *)
LEMMA ByteFacts ==
    ASSUME NEW t \in Seq(1 .. 255), NEW n \in Int
    PROVE  /\ ByteAt(t, n) \in 0 .. 255
           /\ ByteAt(t, n) # 0 => n \in 1 .. Len(t)
           /\ n \in 1 .. Len(t) => ByteAt(t, n) # 0 /\ ByteAt(t, n) = t[n]
<1>1. Len(t) \in Nat
  OBVIOUS
<1>2. CASE n \in 1 .. Len(t)
  <2>1. t[n] \in 1 .. 255
    BY <1>2, ElementOfSeq
  <2>2. ByteAt(t, n) = t[n]
    BY <1>2 DEF ByteAt
  <2>3. \A c \in 1 .. 255 : c \in 0 .. 255 /\ c # 0
    OBVIOUS
  <2>4. t[n] \in 0 .. 255 /\ t[n] # 0
    BY <2>1, <2>3
  <2> QED
    BY <1>2, <2>2, <2>4
<1>3. CASE n \notin 1 .. Len(t)
  BY <1>3 DEF ByteAt
<1> QED
  BY <1>2, <1>3

(* Skipping a class of bytes ends at the NUL if not before. *)
LEMMA AfterAllFacts ==
    ASSUME NEW t \in Seq(1 .. 255), NEW n \in 1 .. Len(t) + 1,
           NEW class, 0 \notin class
    PROVE  AfterAll(t, n, class) \in n .. Len(t) + 1
<1> DEFINE S == {m \in n .. Len(t) + 1 : ByteAt(t, m) \notin class}
<1>0. Len(t) \in Nat
  OBVIOUS
<1>1. Len(t) + 1 \in S
  <2>1. ByteAt(t, Len(t) + 1) = 0
    BY <1>0 DEF ByteAt
  <2> QED
    BY <1>0, <2>1
<1>2. S \subseteq Nat
  BY <1>0
<1>3. Min(S) \in S
  BY <1>1, <1>2, MinFacts
<1> QED
  BY <1>3 DEF AfterAll

LEMMA SpaceFacts ==
    ASSUME text \in Seq(1 .. 255), NEW n \in 1 .. Len(text) + 1
    PROVE  AfterSpace(n) \in n .. Len(text) + 1
BY AfterAllFacts DEF AfterSpace, Spaces

(* parse_number stays within the text and its NUL. *)
LEMMA NumberFacts ==
    ASSUME NEW t \in Seq(1 .. 255), NEW n \in 1 .. Len(t) + 1
    PROVE  parse_number(t, n).end \in 1 .. Len(t) + 1
<1> DEFINE digits(k) == [ok |-> ByteAt(t, k) \in Digits, end |-> AfterAll(t, k, Digits)]
           start == IF ByteAt(t, n) = Minus THEN n + 1 ELSE n
           whole == IF ByteAt(t, start) = Zero THEN [ok |-> TRUE, end |-> start + 1]
                    ELSE digits(start)
           fraction == IF whole.ok /\ ByteAt(t, whole.end) = Dot
                       THEN digits(whole.end + 1) ELSE whole
           signed == ByteAt(t, fraction.end + 1) \in {Plus, Minus}
           power == fraction.end + (IF signed THEN 2 ELSE 1)
<1>0. Len(t) \in Nat
  OBVIOUS
<1>1. ASSUME NEW k \in 1 .. Len(t) + 1
      PROVE  digits(k).end \in 1 .. Len(t) + 1
  <2>1. 0 \notin Digits
    BY DEF Digits
  <2>2. AfterAll(t, k, Digits) \in k .. Len(t) + 1
    BY <2>1, AfterAllFacts
  <2> QED
    BY <1>0, <2>2
<1>2. ASSUME NEW k \in 1 .. Len(t) + 1, ByteAt(t, k) # 0
      PROVE  k + 1 \in 1 .. Len(t) + 1
  BY <1>0, <1>2 DEF ByteAt
<1>3. start \in 1 .. Len(t) + 1
  BY <1>2 DEF Minus
<1> HIDE DEF start
<1>4. whole.end \in 1 .. Len(t) + 1
  <2>1. CASE ByteAt(t, start) = Zero
    BY <1>2, <1>3, <2>1 DEF Zero
  <2>2. CASE ByteAt(t, start) # Zero
    <3>1. whole = digits(start)
      BY <2>2
    <3> QED
      BY <1>1, <1>3, <3>1
  <2> QED
    BY <2>1, <2>2
<1> HIDE DEF whole
<1>5. fraction.end \in 1 .. Len(t) + 1
  <2>1. CASE whole.ok /\ ByteAt(t, whole.end) = Dot
    <3>1. whole.end + 1 \in 1 .. Len(t) + 1
      BY <1>2, <1>4, <2>1 DEF Dot
    <3>2. fraction = digits(whole.end + 1)
      BY <2>1
    <3> QED
      BY <1>1, <3>1, <3>2
  <2>2. CASE ~(whole.ok /\ ByteAt(t, whole.end) = Dot)
    BY <1>4, <2>2
  <2> QED
    BY <2>1, <2>2
<1> HIDE DEF fraction
<1>6. CASE fraction.ok /\ ByteAt(t, fraction.end) \in {69, 101}
  <2>1. fraction.end + 1 \in 1 .. Len(t) + 1
    BY <1>2, <1>5, <1>6
  <2>2. signed => fraction.end + 2 \in 1 .. Len(t) + 1
    <3>1. signed => (fraction.end + 1) + 1 \in 1 .. Len(t) + 1
      BY <1>2, <2>1 DEF Plus, Minus
    <3> QED
      BY <1>5, <3>1
  <2>3. power \in 1 .. Len(t) + 1
    BY <2>1, <2>2
  <2> HIDE DEF power
  <2>4. digits(power).end \in 1 .. Len(t) + 1
    BY <1>1, <2>3
  <2>5. parse_number(t, n) = digits(power)
    BY <1>6 DEF parse_number, power, fraction, whole, start
  <2> QED
    BY <2>4, <2>5
<1>7. CASE ~(fraction.ok /\ ByteAt(t, fraction.end) \in {69, 101})
  <2>1. parse_number(t, n) = fraction
    BY <1>7 DEF parse_number, fraction, whole, start
  <2> QED
    BY <1>5, <2>1
<1> QED
  BY <1>6, <1>7

-----------------------------------------------------------------------------
(* What an iteration of parse_string takes and looks at ends before the    *)
(* NUL or with it.                                                         *)
Windows == [1 .. 12 -> 0 .. 255]

GoodUnit(b, u) ==
    /\ u.len \in 0 .. 12 /\ (u.len > 0 => b[u.len] # 0)
    /\ u.looks \in 1 .. 12 /\ (u.looks > 1 => b[u.looks - 1] # 0)
    /\ u.put \in Seq(1 .. 255) /\ Len(u.put) <= 4

LEMMA RefusedFacts ==
    ASSUME NEW b, NEW looks \in 1 .. 12, looks > 1 => b[looks - 1] # 0
    PROVE  GoodUnit(b, Refused(looks)) /\ Refused(looks).len = 0
BY DEF GoodUnit, Refused

LEMMA TakenFacts ==
    ASSUME NEW b, NEW len \in 1 .. 12, len > 1 => b[len - 1] # 0, b[len] # 0,
           NEW put \in Seq(1 .. 255), Len(put) <= 4
    PROVE  GoodUnit(b, Taken(len, put))
BY DEF GoodUnit, Taken

(* Whatever may follow a first byte is a continuation byte. *)
LEMMA FollowerFacts ==
    ASSUME NEW first, NEW k
    PROVE  Follower(first, k) \subseteq 128 .. 191
<1>1. /\ 160 .. 191 \subseteq 128 .. 191 /\ 128 .. 159 \subseteq 128 .. 191
      /\ 144 .. 191 \subseteq 128 .. 191 /\ 128 .. 143 \subseteq 128 .. 191
  BY SMT
<1> QED
  BY <1>1, SMT DEF Follower, Continuation

(* utf8_validate_cz stops at the first byte that does not fit. *)
LEMMA Utf8Facts ==
    ASSUME NEW b \in Windows, b[1] # 0
    PROVE  /\ utf8_validate_cz(b) \in 0 .. 4
           /\ \A k \in 1 .. utf8_validate_cz(b) : b[k] \in 1 .. 255
           /\ utf8_looks(b) \in 1 .. 4
           /\ utf8_looks(b) > 1 => b[utf8_looks(b) - 1] # 0
<1>0. \A k \in 1 .. 12 : b[k] \in 0 .. 255
  BY DEF Windows
<1>1. PICK p : p = Promised(b[1])
  OBVIOUS
<1>2. p \in 0 .. 4
  BY <1>1, SMT DEF Promised
<1>3. PICK M : M = Misplaced(b)
  OBVIOUS
<1>4. M \subseteq 2 .. p
  BY <1>1, <1>3 DEF Misplaced
<1>5. ASSUME NEW k \in 2 .. p, k \notin M
      PROVE  b[k] \in 1 .. 255
  <2>1. b[k] \in Follower(b[1], k)
    BY <1>1, <1>3, <1>5 DEF Misplaced
  <2>2. b[k] \in 128 .. 191
    <3>1. Follower(b[1], k) \subseteq 128 .. 191
      BY FollowerFacts
    <3> QED
      BY <2>1, <3>1
  <2> QED
    BY <2>2, SMT
<1>6. b[1] \in 1 .. 255
  <2>1. \A c \in 0 .. 255 : c # 0 => c \in 1 .. 255
    BY SMT
  <2>2. 1 \in 1 .. 12
    BY SMT
  <2> QED
    BY <1>0, <2>1, <2>2, Zenon
<1>7. utf8_validate_cz(b) = IF M = {} THEN p ELSE 0
  BY <1>1, <1>3 DEF utf8_validate_cz
<1>8. utf8_looks(b) = IF p = 0 THEN 1 ELSE IF M = {} THEN p ELSE Min(M)
  BY <1>1, <1>3 DEF utf8_looks
<1>9. ASSUME M = {}, NEW k \in 1 .. p
      PROVE  b[k] \in 1 .. 255
  <2>1. CASE k = 1
    BY <1>6, <2>1
  <2>2. CASE k # 1
    <3>1. k \in 2 .. p /\ k \notin M
      BY <1>2, <1>9, <2>2, SMT
    <3> QED
      BY <1>5, <3>1, Zenon
  <2> QED
    BY <2>1, <2>2
<1>10. CASE p = 0 \/ M = {}
  <2>1. /\ utf8_validate_cz(b) \in 0 .. 4
        /\ utf8_looks(b) \in 1 .. 4
        /\ utf8_looks(b) > 1 => M = {} /\ utf8_looks(b) - 1 \in 1 .. p
    BY <1>2, <1>4, <1>7, <1>8, <1>10, SMT
  <2>2. utf8_looks(b) > 1 => b[utf8_looks(b) - 1] # 0
    <3>1. \A c \in 1 .. 255 : c # 0
      BY SMT
    <3> QED
      BY <1>9, <2>1, <3>1, Zenon
  <2>3. \A k \in 1 .. utf8_validate_cz(b) : M = {} /\ k \in 1 .. p
    BY <1>2, <1>7, <1>10, SMT
  <2> QED
    BY <1>9, <2>1, <2>2, <2>3, Zenon
<1>11. CASE p # 0 /\ M # {}
  <2>1. M \subseteq Nat
    BY <1>2, <1>4, SMT
  <2>2. PICK m : m = Min(M)
    OBVIOUS
  <2>3. m \in M /\ \A y \in M : m <= y
    BY <1>11, <2>1, <2>2, MinFacts
  <2>4. m \in 2 .. 4 /\ m - 1 \in 1 .. p /\ m - 1 \notin M
    BY <1>2, <1>4, <2>3, SMT
  <2>5. b[m - 1] \in 1 .. 255
    <3>1. CASE m - 1 = 1
      BY <1>6, <3>1
    <3>2. CASE m - 1 # 1
      <4>1. m - 1 \in 2 .. p
        BY <1>2, <2>4, <3>2, SMT
      <4> QED
        BY <1>5, <2>4, <4>1, Zenon
    <3> QED
      BY <3>1, <3>2
  <2>6. \A c \in 1 .. 255 : c # 0
    BY SMT
  <2>7. b[m - 1] # 0
    BY <2>5, <2>6, Zenon
  <2>8. utf8_looks(b) = m /\ utf8_validate_cz(b) = 0
    BY <1>7, <1>8, <1>11, <2>2
  <2> QED
    BY <2>4, <2>7, <2>8, SMT
<1> QED
  BY <1>10, <1>11

Word16(v) == v \in Nat /\ v <= 65535

(* parse_hex16 stops at the first byte that is no digit. *)
LEMMA HexFacts ==
    ASSUME NEW b \in Windows, NEW n \in {2, 8}
    PROVE  LET h == parse_hex16(b, n)
           IN  /\ h.looks \in n + 1 .. n + 4
               /\ h.looks > n + 1 => b[h.looks - 1] # 0
               /\ h.val = None \/ Word16(h.val)
               /\ h.val # None => \A k \in n + 1 .. n + 4 : b[k] # 0
<1> DEFINE wrong == {k \in 1 .. 4 : b[n + k] \notin DOMAIN HexDigit}
           digit(k) == HexDigit[b[n + k]]
<1>0. \A k \in 1 .. 12 : b[k] \in 0 .. 255
  BY DEF Windows
<1>1. ASSUME NEW k \in 1 .. 4, k \notin wrong
      PROVE  b[n + k] # 0 /\ digit(k) \in 0 .. 15
  <2>1. PICK c : c = b[n + k]
    OBVIOUS
  <2>2. c \in (48 .. 57) \cup (65 .. 70) \cup (97 .. 102)
    BY <1>1, <2>1 DEF HexDigit
  <2>3. HexDigit[c] = IF c <= 57 THEN c - 48 ELSE IF c <= 70 THEN c - 55 ELSE c - 87
    BY <2>2 DEF HexDigit
  <2>4. c # 0 /\ HexDigit[c] \in 0 .. 15
    BY <2>2, <2>3, SMT
  <2> QED
    BY <2>1, <2>4
<1>2. CASE wrong # {}
  <2>1. PICK m : m = Min(wrong)
    OBVIOUS
  <2>2. m \in wrong /\ \A y \in wrong : m <= y
    <3>1. wrong \subseteq Nat
      OBVIOUS
    <3> HIDE DEF wrong
    <3> QED
      BY <1>2, <2>1, <3>1, MinFacts
  <2>3. m \in 1 .. 4
    BY <2>2
  <2>4. PICK L : L = n + m
    OBVIOUS
  <2>5. parse_hex16(b, n) = [val |-> None, looks |-> L]
    BY <1>2, <2>1, <2>4 DEF parse_hex16
  <2>6. L \in n + 1 .. n + 4 /\ L - 1 = n + (m - 1)
    BY <2>3, <2>4, SMT
  <2>7. L > n + 1 => b[L - 1] # 0
    <3>1. ASSUME L > n + 1
          PROVE  b[L - 1] # 0
      <4>1. m - 1 \in 1 .. 4 /\ m - 1 \notin wrong
        <5> HIDE DEF wrong
        <5> QED
          BY <2>2, <2>3, <2>4, <3>1, SMT
      <4>2. b[n + (m - 1)] # 0
        BY <1>1, <4>1, Zenon
      <4> QED
        BY <2>6, <4>2
    <3> QED
      BY <3>1
  <2>8. parse_hex16(b, n).val = None /\ parse_hex16(b, n).looks = L
    BY <2>5
  <2> HIDE DEF wrong
  <2> QED
    BY <2>6, <2>7, <2>8
<1>3. CASE wrong = {}
  <2>1. parse_hex16(b, n) =
          [val |-> ((digit(1) * 16 + digit(2)) * 16 + digit(3)) * 16 + digit(4),
           looks |-> n + 4]
    BY <1>3 DEF parse_hex16
  <2>2. \A k \in 1 .. 4 : b[n + k] # 0 /\ digit(k) \in 0 .. 15
    BY <1>1, <1>3
  <2>3. /\ digit(1) \in 0 .. 15 /\ digit(2) \in 0 .. 15
        /\ digit(3) \in 0 .. 15 /\ digit(4) \in 0 .. 15
    BY <2>2
  <2> DEFINE val == ((digit(1) * 16 + digit(2)) * 16 + digit(3)) * 16 + digit(4)
  <2>4. Word16(val)
    <3>1. \A h, i, j, k \in 0 .. 15 :
            Word16(((h * 16 + i) * 16 + j) * 16 + k)
      BY SMT DEF Word16
    <3> HIDE DEF digit
    <3> QED
      BY <2>3, <3>1, Zenon
  <2>5. \A k \in n + 1 .. n + 4 : b[k] # 0
    <3>1. ASSUME NEW k \in n + 1 .. n + 4
          PROVE  b[k] # 0
      <4>1. k - n \in 1 .. 4 /\ n + (k - n) = k
        BY SMT
      <4> QED
        BY <2>2, <4>1
    <3> QED
      BY <3>1
  <2>6. n + 4 \in n + 1 .. n + 4 /\ n + 4 - 1 \in n + 1 .. n + 4
    BY SMT
  <2>7. b[n + 4 - 1] # 0
    BY <2>5, <2>6
  <2>8. parse_hex16(b, n) = [val |-> val, looks |-> n + 4]
    BY <2>1
  <2> HIDE DEF val, wrong
  <2>9. parse_hex16(b, n).val = val /\ parse_hex16(b, n).looks = n + 4
    BY <2>8
  <2> QED
    BY <2>4, <2>5, <2>6, <2>7, <2>9, SMT
<1> QED
  BY <1>2, <1>3, SMT

(* Sequences of at most four bytes. *)
LEMMA SmallSeq ==
    ASSUME NEW S
    PROVE  /\ << >> \in Seq(S) /\ Len(<< >>) <= 4
           /\ \A x \in S : << x >> \in Seq(S) /\ Len(<< x >>) <= 4
           /\ \A x, y \in S : << x, y >> \in Seq(S) /\ Len(<< x, y >>) <= 4
           /\ \A x, y, z \in S : << x, y, z >> \in Seq(S) /\ Len(<< x, y, z >>) <= 4
           /\ \A x, y, z, w \in S :
                << x, y, z, w >> \in Seq(S) /\ Len(<< x, y, z, w >>) <= 4
OBVIOUS

Writable(u) == u \in Nat /\ u >= 1 /\ u <= 1114111

(* utf8_write_char writes one to four bytes, none of them a NUL. *)
LEMMA WriteFacts ==
    ASSUME NEW u, Writable(u)
    PROVE  /\ utf8_write_char(u) \in Seq(1 .. 255)
           /\ Len(utf8_write_char(u)) <= 4
<1> DEFINE B == 1 .. 255
<1>1. CASE u <= 127
  <2>1. utf8_write_char(u) = << u >>
    BY <1>1, SMT DEF Writable, utf8_write_char
  <2>2. u \in B
    BY <1>1, SMT DEF Writable
  <2> HIDE DEF B
  <2>3. << u >> \in Seq(B) /\ Len(<< u >>) <= 4
    BY <2>2, SmallSeq, Zenon
  <2> QED
    BY <2>1, <2>3, Zenon DEF B
<1>2. CASE u > 127 /\ u <= 2047
  <2> DEFINE x == 192 + (u \div 64)
             y == 128 + (u % 64)
  <2>2. utf8_write_char(u) = << x, y >>
    BY <1>2, SMT DEF Writable, utf8_write_char
  <2>3. x \in B /\ y \in B
    BY <1>2, SMT DEF Writable
  <2> HIDE DEF B, x, y
  <2>4. << x, y >> \in Seq(B) /\ Len(<< x, y >>) <= 4
    BY <2>3, SmallSeq, Zenon
  <2> QED
    BY <2>2, <2>4, Zenon DEF B
<1>3. CASE u > 2047 /\ u <= 65535
  <2> DEFINE x == 224 + (u \div 4096)
             y == 128 + ((u \div 64) % 64)
             z == 128 + (u % 64)
  <2>2. utf8_write_char(u) = << x, y, z >>
    BY <1>3, SMT DEF Writable, utf8_write_char
  <2>3. x \in B /\ y \in B /\ z \in B
    BY <1>3, SMT DEF Writable
  <2> HIDE DEF B, x, y, z
  <2>4. << x, y, z >> \in Seq(B) /\ Len(<< x, y, z >>) <= 4
    BY <2>3, SmallSeq, Zenon
  <2> QED
    BY <2>2, <2>4, Zenon DEF B
<1>4. CASE u > 65535
  <2> DEFINE x == 240 + (u \div 262144)
             y == 128 + ((u \div 4096) % 64)
             z == 128 + ((u \div 64) % 64)
             w == 128 + (u % 64)
  <2>2. utf8_write_char(u) = << x, y, z, w >>
    BY <1>4, SMT DEF Writable, utf8_write_char
  <2>3. x \in B /\ y \in B /\ z \in B /\ w \in B
    BY <1>4, SMT DEF Writable
  <2> HIDE DEF B, x, y, z, w
  <2>4. << x, y, z, w >> \in Seq(B) /\ Len(<< x, y, z, w >>) <= 4
    BY <2>3, SmallSeq, Zenon
  <2> QED
    BY <2>2, <2>4, Zenon DEF B
<1> QED
  BY <1>1, <1>2, <1>3, <1>4, SMT DEF Writable

(* A pair of escapes that is accepted stands for a scalar value. *)
LEMMA PairFacts ==
    ASSUME NEW uc, NEW lc
    PROVE  \/ from_surrogate_pair(uc, lc) = None
           \/ Writable(from_surrogate_pair(uc, lc))
<1> DEFINE both == uc \in 55296 .. 56319 /\ lc \in 56320 .. 57343
           pair == 65536 + (uc % 1024) * 1024 + (lc % 1024)
<1>1. both => uc \in Nat /\ lc \in Nat
  BY SMT
<1>2. uc \in Nat /\ lc \in Nat => uc % 1024 \in 0 .. 1023 /\ lc % 1024 \in 0 .. 1023
  BY SMT
<1>4. both => Writable(pair)
  <2> HIDE DEF both
  <2>1. ASSUME both
        PROVE  Writable(pair)
    <3>1. PICK x, y : x = uc % 1024 /\ y = lc % 1024
      OBVIOUS
    <3>2. x \in 0 .. 1023 /\ y \in 0 .. 1023
      BY <1>1, <1>2, <2>1, <3>1
    <3>3. Writable(65536 + x * 1024 + y)
      BY <3>2, SMT DEF Writable
    <3> QED
      BY <3>1, <3>3
  <2> QED
    BY <2>1
<1>5. from_surrogate_pair(uc, lc) = IF both THEN pair ELSE None
  BY SMT DEF from_surrogate_pair
<1> HIDE DEF both, pair
<1> QED
  BY <1>4, <1>5, Zenon

(* Each way out of an escape, in the order of the code. *)
LEMMA EscapeFacts ==
    ASSUME NEW b \in Windows, b[1] = Backslash
    PROVE  GoodUnit(b, Escape(b))
<1>0. \A k \in 1 .. 12 : b[k] \in 0 .. 255
  BY DEF Windows
<1> DEFINE uc == parse_hex16(b, 2)
           lc == parse_hex16(b, 8)
           pair == from_surrogate_pair(uc.val, lc.val)
<1>1. /\ uc.looks \in 3 .. 6
      /\ uc.looks > 3 => b[uc.looks - 1] # 0
      /\ uc.val = None \/ Word16(uc.val)
      /\ uc.val # None => \A k \in 3 .. 6 : b[k] # 0
  BY HexFacts
<1>2. /\ lc.looks \in 9 .. 12
      /\ lc.looks > 9 => b[lc.looks - 1] # 0
      /\ lc.val # None => \A k \in 9 .. 12 : b[k] # 0
  BY HexFacts
<1>3. pair = None \/ Writable(pair)
  BY PairFacts, Zenon
<1>4. Escape(b) =
        IF b[2] \in Plain \cup Letters THEN Taken(2, << Meant(b[2]) >>)
        ELSE IF b[2] # 117 THEN Refused(2)
        ELSE IF uc.val = None THEN Refused(uc.looks)
        ELSE IF Disallowed(uc.val) THEN Refused(6)
        ELSE IF uc.val \notin Surrogates THEN Taken(6, utf8_write_char(uc.val))
        ELSE IF b[7] # Backslash THEN Refused(7)
        ELSE IF b[8] # 117 THEN Refused(8)
        ELSE IF lc.val = None THEN Refused(lc.looks)
        ELSE IF pair = None THEN Refused(12)
        ELSE Taken(12, utf8_write_char(pair))
  BY Zenon DEF Escape
<1>5. b[1] # 0
  BY SMT DEF Backslash
<1> HIDE DEF uc, lc, pair
<1>6. CASE b[2] \in Plain \cup Letters
  <2>1. Meant(b[2]) \in 1 .. 255 /\ b[2] # 0
    BY <1>6, SMT DEF Plain, Letters, Meant, Quote, Backslash, Slash
  <2> DEFINE put == << Meant(b[2]) >>
  <2>2. put \in Seq(1 .. 255) /\ Len(put) <= 4
    BY <2>1, SmallSeq, Zenon
  <2>3. GoodUnit(b, Taken(2, put))
    <3> HIDE DEF put
    <3> QED
      BY <1>5, <2>1, <2>2, TakenFacts
  <2> QED
    BY <1>4, <1>6, <2>3, Zenon
<1>7. CASE b[2] \notin Plain \cup Letters /\ b[2] # 117
  <2>1. GoodUnit(b, Refused(2))
    BY <1>5, RefusedFacts
  <2> QED
    BY <1>4, <1>7, <2>1, Zenon
<1>8. CASE b[2] \notin Plain \cup Letters /\ b[2] = 117
  <2>1. CASE uc.val = None
    <3>1. uc.looks \in 1 .. 12 /\ (uc.looks > 1 => b[uc.looks - 1] # 0)
      BY <1>1, <1>8, SMT
    <3>2. GoodUnit(b, Refused(uc.looks))
      BY <3>1, RefusedFacts, Zenon
    <3> QED
      BY <1>4, <1>8, <2>1, <3>2, Zenon
  <2>2. CASE uc.val # None
    <3>1. b[5] # 0 /\ b[6] # 0 /\ Word16(uc.val)
      BY <1>1, <2>2
    <3>2. GoodUnit(b, Refused(6)) /\ GoodUnit(b, Refused(7))
      BY <3>1, RefusedFacts
    <3>3. ~Disallowed(uc.val) => GoodUnit(b, Taken(6, utf8_write_char(uc.val)))
      <4>1. ASSUME ~Disallowed(uc.val)
            PROVE  Writable(uc.val)
        BY <3>1, <4>1, SMT DEF Word16, Writable, Disallowed
      <4>2. ASSUME Writable(uc.val)
            PROVE  GoodUnit(b, Taken(6, utf8_write_char(uc.val)))
        <5>1. /\ utf8_write_char(uc.val) \in Seq(1 .. 255)
              /\ Len(utf8_write_char(uc.val)) <= 4
          BY <4>2, WriteFacts, Zenon
        <5> QED
          BY <3>1, <5>1, TakenFacts
      <4> QED
        BY <4>1, <4>2
    <3>4. b[7] = Backslash => GoodUnit(b, Refused(8))
      BY RefusedFacts DEF Backslash
    <3>5. b[8] = 117 => GoodUnit(b, Refused(lc.looks))
      <4>1. ASSUME b[8] = 117
            PROVE  lc.looks \in 1 .. 12 /\ (lc.looks > 1 => b[lc.looks - 1] # 0)
        BY <1>2, <4>1, SMT
      <4> QED
        BY <4>1, RefusedFacts, Zenon
    <3>6. lc.val # None => b[11] # 0 /\ b[12] # 0
      BY <1>2
    <3>7. lc.val # None => GoodUnit(b, Refused(12))
      BY <3>6, RefusedFacts
    <3>8. lc.val # None /\ pair # None => GoodUnit(b, Taken(12, utf8_write_char(pair)))
      <4>1. ASSUME Writable(pair), lc.val # None
            PROVE  GoodUnit(b, Taken(12, utf8_write_char(pair)))
        <5>1. /\ utf8_write_char(pair) \in Seq(1 .. 255)
              /\ Len(utf8_write_char(pair)) <= 4
          BY <4>1, WriteFacts, Zenon
        <5> QED
          BY <3>6, <4>1, <5>1, TakenFacts
      <4> QED
        BY <1>3, <4>1, Zenon
    <3>9. Escape(b) =
            IF Disallowed(uc.val) THEN Refused(6)
            ELSE IF uc.val \notin Surrogates THEN Taken(6, utf8_write_char(uc.val))
            ELSE IF b[7] # Backslash THEN Refused(7)
            ELSE IF b[8] # 117 THEN Refused(8)
            ELSE IF lc.val = None THEN Refused(lc.looks)
            ELSE IF pair = None THEN Refused(12)
            ELSE Taken(12, utf8_write_char(pair))
      BY <1>4, <1>8, <2>2, Zenon
    <3>a. CASE Disallowed(uc.val)
      BY <3>2, <3>9, <3>a, Zenon
    <3>b. CASE ~Disallowed(uc.val) /\ uc.val \notin Surrogates
      BY <3>3, <3>9, <3>b, Zenon
    <3>c. CASE ~Disallowed(uc.val) /\ uc.val \in Surrogates /\ b[7] # Backslash
      BY <3>2, <3>9, <3>c, Zenon
    <3>d. CASE /\ ~Disallowed(uc.val) /\ uc.val \in Surrogates
               /\ b[7] = Backslash /\ b[8] # 117
      BY <3>4, <3>9, <3>d, Zenon
    <3>e. CASE /\ ~Disallowed(uc.val) /\ uc.val \in Surrogates
               /\ b[7] = Backslash /\ b[8] = 117
      <4>1. Escape(b) = IF lc.val = None THEN Refused(lc.looks)
                        ELSE IF pair = None THEN Refused(12)
                        ELSE Taken(12, utf8_write_char(pair))
        BY <3>9, <3>e, Zenon
      <4> QED
        BY <3>5, <3>7, <3>8, <3>e, <4>1, Zenon
    <3> QED
      BY <3>a, <3>b, <3>c, <3>d, <3>e, Zenon
  <2> QED
    BY <2>1, <2>2
<1> QED
  BY <1>6, <1>7, <1>8

LEMMA CopyFacts ==
    ASSUME NEW S, NEW b, NEW len \in Nat, \A k \in 1 .. len : b[k] \in S
    PROVE  /\ [k \in 1 .. len |-> b[k]] \in Seq(S)
           /\ Len([k \in 1 .. len |-> b[k]]) = len
OBVIOUS

LEMMA UnitFacts ==
    ASSUME NEW b \in Windows
    PROVE  GoodUnit(b, Unit(b))
<1>0. \A k \in 1 .. 12 : b[k] \in 0 .. 255
  BY DEF Windows
<1>1. CASE b[1] = Backslash
  BY <1>1, EscapeFacts, Zenon DEF Unit
<1>2. CASE b[1] # Backslash /\ b[1] <= 31
  <2>1. GoodUnit(b, Refused(1))
    BY RefusedFacts
  <2> QED
    BY <1>2, <2>1, Zenon DEF Unit
<1>3. CASE b[1] # Backslash /\ ~(b[1] <= 31)
  <2> DEFINE len == utf8_validate_cz(b)
             put == [k \in 1 .. len |-> b[k]]
  <2>0. b[1] # 0
    BY <1>0, <1>3, SMT
  <2>1. /\ len \in 0 .. 4
        /\ \A k \in 1 .. len : b[k] \in 1 .. 255
        /\ utf8_looks(b) \in 1 .. 4
        /\ utf8_looks(b) > 1 => b[utf8_looks(b) - 1] # 0
    BY <2>0, Utf8Facts, Zenon
  <2>2. Unit(b) = IF len = 0 THEN Refused(utf8_looks(b)) ELSE Taken(len, put)
    BY <1>3, Zenon DEF Unit
  <2>3. GoodUnit(b, Refused(utf8_looks(b)))
    <3>1. utf8_looks(b) \in 1 .. 12
      BY <2>1, SMT
    <3> QED
      BY <2>1, <3>1, RefusedFacts, Zenon
  <2>4. CASE len = 0
    BY <2>2, <2>3, <2>4, Zenon
  <2>5. CASE len # 0
    <3>1. len \in 1 .. 12 /\ len \in Nat /\ len <= 4
      BY <2>1, <2>5, SMT
    <3>2. put \in Seq(1 .. 255) /\ Len(put) = len
      <4> HIDE DEF len
      <4> QED
        BY <2>1, <3>1, CopyFacts
    <3>3. b[len] # 0 /\ (len > 1 => b[len - 1] # 0)
      <4> HIDE DEF len
      <4>1. \A k \in 1 .. len : b[k] # 0
        BY <2>1, SMT
      <4>2. len \in 1 .. len /\ (len > 1 => len - 1 \in 1 .. len)
        BY <3>1, SMT
      <4> QED
        BY <4>1, <4>2, Zenon
    <3> HIDE DEF len, put
    <3>4. Len(put) <= 4
      BY <3>1, <3>2
    <3>5. GoodUnit(b, Taken(len, put))
      BY <3>1, <3>2, <3>3, <3>4, TakenFacts, Zenon
    <3> QED
      BY <2>2, <2>5, <3>5, Zenon
  <2> QED
    BY <2>4, <2>5
<1> QED
  BY <1>1, <1>2, <1>3
(* Putting a frame onto a stack, and taking it off. *)
IsStack(st) == \E F : st \in Seq(F)

LEMMA PushFacts ==
    ASSUME NEW st, IsStack(st), NEW f
    PROVE  /\ IsStack(<< f >> \o st)
           /\ DOMAIN (<< f >> \o st) = 1 .. Len(st) + 1
           /\ DOMAIN st = 1 .. Len(st) /\ Len(st) \in Nat
           /\ (<< f >> \o st)[1] = f
           /\ \A k \in 1 .. Len(st) : (<< f >> \o st)[k + 1] = st[k]
<1>1. PICK F : st \in Seq(F)
  BY DEF IsStack
<1> DEFINE G == F \cup {f}
<1>2. st \in Seq(G) /\ << f >> \in Seq(G)
  BY <1>1
<1>3. << f >> \o st \in Seq(G)
  BY <1>2
<1>4. IsStack(<< f >> \o st)
  BY <1>3 DEF IsStack
<1>5. /\ DOMAIN (<< f >> \o st) = 1 .. Len(st) + 1
      /\ DOMAIN st = 1 .. Len(st) /\ Len(st) \in Nat
      /\ (<< f >> \o st)[1] = f
      /\ \A k \in 1 .. Len(st) : (<< f >> \o st)[k + 1] = st[k]
  BY <1>2
<1> QED
  BY <1>4, <1>5

LEMMA PopFacts ==
    ASSUME NEW st, IsStack(st), st # << >>
    PROVE  /\ IsStack(Tail(st))
           /\ Len(st) \in Nat /\ Len(st) >= 1 /\ Head(st) = st[1]
           /\ DOMAIN st = 1 .. Len(st)
           /\ DOMAIN Tail(st) = 1 .. Len(st) - 1 /\ Len(Tail(st)) = Len(st) - 1
           /\ \A k \in 1 .. Len(st) - 1 : Tail(st)[k] = st[k + 1]
<1>1. PICK F : st \in Seq(F)
  BY DEF IsStack
<1>2. Tail(st) \in Seq(F)
  BY <1>1
<1>3. IsStack(Tail(st))
  BY <1>2 DEF IsStack
<1> QED
  BY <1>1, <1>3

-----------------------------------------------------------------------------
(* What belongs to whom: to the frames of a stack or to the value on its   *)
(* way up, each object to one of them, and together they are all there is. *)
Shared(st, g, lv, m) ==
    /\ IsStack(st)
    /\ m \in Nat /\ lv \subseteq 1 .. m
    /\ lv = g \cup UNION {Owned(st[k]) : k \in DOMAIN st}
    /\ \A j, k \in DOMAIN st : j # k => Owned(st[j]) \cap Owned(st[k]) = {}
    /\ \A k \in DOMAIN st : Owned(st[k]) \cap g = {}

LEMMA GiftGrows ==
    ASSUME NEW st, NEW g, NEW lv, NEW m, Shared(st, g, lv, m),
           NEW n, n \in Nat, n >= m, NEW fresh \in SUBSET (m + 1 .. n)
    PROVE  Shared(st, g \cup fresh, lv \cup fresh, n)
<1>1. fresh \cap lv = {}
  BY DEF Shared
<1>2. \A k \in DOMAIN st : Owned(st[k]) \subseteq lv
  BY DEF Shared
<1>3. \A k \in DOMAIN st : Owned(st[k]) \cap (g \cup fresh) = {}
  BY <1>1, <1>2 DEF Shared
<1>4. lv \cup fresh \subseteq 1 .. n
  <2>1. m \in Nat /\ lv \subseteq 1 .. m
    BY DEF Shared
  <2>2. ASSUME NEW x \in lv \cup fresh
        PROVE  x \in 1 .. n
    BY <2>1, <2>2
  <2> QED
    BY <2>2
<1> QED
  BY <1>3, <1>4 DEF Shared

LEMMA Pushed ==
    ASSUME NEW st, NEW g, NEW lv, NEW m, Shared(st, g, lv, m),
           NEW f, Owned(f) = g
    PROVE  Shared(<< f >> \o st, {}, lv, m)
<1> DEFINE new == << f >> \o st
<1>1. /\ IsStack(new)
      /\ DOMAIN new = 1 .. Len(st) + 1
      /\ DOMAIN st = 1 .. Len(st) /\ Len(st) \in Nat
      /\ new[1] = f
      /\ \A k \in 1 .. Len(st) : new[k + 1] = st[k]
  BY PushFacts DEF Shared
<1> HIDE DEF new
<1>2. \A k \in DOMAIN new : k = 1 \/ (k - 1 \in DOMAIN st /\ new[k] = st[k - 1])
  BY <1>1
<1>3. UNION {Owned(new[k]) : k \in DOMAIN new}
        = g \cup UNION {Owned(st[k]) : k \in DOMAIN st}
  <2>1. ASSUME NEW x \in UNION {Owned(new[k]) : k \in DOMAIN new}
        PROVE  x \in g \cup UNION {Owned(st[k]) : k \in DOMAIN st}
    <3>1. PICK k \in DOMAIN new : x \in Owned(new[k])
      OBVIOUS
    <3> QED
      BY <1>1, <1>2, <3>1
  <2>2. ASSUME NEW x \in g
        PROVE  x \in UNION {Owned(new[k]) : k \in DOMAIN new}
    <3>1. 1 \in DOMAIN new /\ x \in Owned(new[1])
      BY <1>1
    <3> QED
      BY <3>1
  <2>3. ASSUME NEW k \in DOMAIN st, NEW x \in Owned(st[k])
        PROVE  x \in UNION {Owned(new[j]) : j \in DOMAIN new}
    <3>1. k + 1 \in DOMAIN new /\ x \in Owned(new[k + 1])
      BY <1>1
    <3> QED
      BY <3>1
  <2> QED
    BY <2>1, <2>2, <2>3
<1>4. ASSUME NEW j \in DOMAIN new, NEW k \in DOMAIN new, j # k
      PROVE  Owned(new[j]) \cap Owned(new[k]) = {}
  <2>1. CASE j = 1
    BY <1>1, <1>2, <1>4, <2>1 DEF Shared
  <2>2. CASE k = 1
    BY <1>1, <1>2, <1>4, <2>2 DEF Shared
  <2>3. CASE j # 1 /\ k # 1
    <3>1. /\ j - 1 \in DOMAIN st /\ new[j] = st[j - 1]
          /\ k - 1 \in DOMAIN st /\ new[k] = st[k - 1]
          /\ j - 1 # k - 1
      BY <1>1, <1>2, <1>4, <2>3
    <3> QED
      BY <3>1 DEF Shared
  <2> QED
    BY <2>1, <2>2, <2>3
<1>5. Shared(new, {}, lv, m)
  BY <1>1, <1>3, <1>4 DEF Shared
<1> QED
  BY <1>5 DEF new

LEMMA Popped ==
    ASSUME NEW st, NEW g, NEW lv, NEW m, Shared(st, g, lv, m), st # << >>
    PROVE  Shared(Tail(st), g \cup Owned(Head(st)), lv, m)
<1> DEFINE new == Tail(st)
<1>1. /\ IsStack(new)
      /\ Len(st) \in Nat /\ Len(st) >= 1 /\ Head(st) = st[1]
      /\ DOMAIN st = 1 .. Len(st)
      /\ DOMAIN new = 1 .. Len(st) - 1
      /\ \A k \in 1 .. Len(st) - 1 : new[k] = st[k + 1]
  BY PopFacts DEF Shared
<1> HIDE DEF new
<1>2. \A k \in DOMAIN new : k + 1 \in DOMAIN st /\ new[k] = st[k + 1] /\ k + 1 # 1
  BY <1>1
<1>3. Owned(st[1]) \cup UNION {Owned(new[k]) : k \in DOMAIN new}
        = UNION {Owned(st[k]) : k \in DOMAIN st}
  <2>1. ASSUME NEW k \in DOMAIN st, NEW x \in Owned(st[k])
        PROVE  x \in Owned(st[1]) \cup UNION {Owned(new[j]) : j \in DOMAIN new}
    <3>1. CASE k = 1
      BY <2>1, <3>1
    <3>2. CASE k # 1
      <4>1. k - 1 \in DOMAIN new /\ x \in Owned(new[k - 1])
        BY <1>1, <2>1, <3>2
      <4> QED
        BY <4>1
    <3> QED
      BY <3>1, <3>2
  <2>2. 1 \in DOMAIN st
    BY <1>1
  <2>3. ASSUME NEW k \in DOMAIN new, NEW x \in Owned(new[k])
        PROVE  x \in UNION {Owned(st[j]) : j \in DOMAIN st}
    BY <1>2, <2>3
  <2> QED
    BY <2>1, <2>2, <2>3
<1>4. ASSUME NEW j \in DOMAIN new, NEW k \in DOMAIN new, j # k
      PROVE  Owned(new[j]) \cap Owned(new[k]) = {}
  <2>1. j + 1 # k + 1
    BY <1>1, <1>4
  <2> QED
    BY <1>2, <2>1 DEF Shared
<1>5. ASSUME NEW k \in DOMAIN new
      PROVE  Owned(new[k]) \cap (g \cup Owned(Head(st))) = {}
  <2>1. 1 \in DOMAIN st
    BY <1>1
  <2> QED
    BY <1>1, <1>2, <2>1 DEF Shared
<1>6. lv = (g \cup Owned(Head(st))) \cup UNION {Owned(new[k]) : k \in DOMAIN new}
  BY <1>1, <1>3 DEF Shared
<1>7. Shared(new, g \cup Owned(Head(st)), lv, m)
  BY <1>1, <1>4, <1>5, <1>6 DEF Shared
<1> QED
  BY <1>7 DEF new

LEMMA GiftFreed ==
    ASSUME NEW st, NEW g, NEW lv, NEW m, Shared(st, g, lv, m)
    PROVE  Shared(st, {}, lv \ g, m)
<1>1. lv \ g = UNION {Owned(st[k]) : k \in DOMAIN st}
  BY DEF Shared
<1> QED
  BY <1>1 DEF Shared

-----------------------------------------------------------------------------
(* The frames of a stack: arrays and objects, with one call of             *)
(* parse_string on top while it runs, and an object waiting below it when  *)
(* the string is a key.                                                    *)
Container(f) ==
    \/ f.fn = "array" /\ DOMAIN f = {"fn", "kids", "owns"}
    \/ f.fn = "object" /\ DOMAIN f = {"fn", "kids", "owns", "key", "held"}
Containers(st) == \A k \in DOMAIN st : Container(st[k])
StringFrame(f) ==
    /\ f.fn = "string" /\ DOMAIN f = {"fn", "of", "buf", "room", "owns"}
    /\ f.of \in {"value", "key"}
AwaitsKey(st) == st # << >> /\ Head(st).fn = "object" /\ Head(st).held = {}

Frames(st, at) ==
    IF at = "string"
    THEN /\ st # << >> /\ StringFrame(Head(st)) /\ Containers(Tail(st))
         /\ Head(st).of = "key" => AwaitsKey(Tail(st))
    ELSE Containers(st) /\ (at \in {"key", "colon"} => AwaitsKey(st))

LeakInv ==
    /\ out \in BOOLEAN
    /\ Shared(stack, gift, live, made)
    /\ Frames(stack, pc)
    /\ pc \notin {"return", "colon", "accepted"} => gift = {}
    /\ pc = "refused" => stack = << >>

LEMMA ContainersPush ==
    ASSUME NEW st, IsStack(st), Containers(st), NEW f, Container(f)
    PROVE  Containers(<< f >> \o st)
<1> DEFINE new == << f >> \o st
<1>1. /\ DOMAIN new = 1 .. Len(st) + 1
      /\ DOMAIN st = 1 .. Len(st) /\ Len(st) \in Nat
      /\ new[1] = f
      /\ \A k \in 1 .. Len(st) : new[k + 1] = st[k]
  BY PushFacts
<1> HIDE DEF new
<1>2. ASSUME NEW k \in DOMAIN new
      PROVE  Container(new[k])
  <2>1. CASE k = 1
    BY <1>1, <2>1
  <2>2. CASE k # 1
    <3>1. k - 1 \in DOMAIN st /\ new[k] = st[k - 1]
      BY <1>1, <1>2, <2>2
    <3> QED
      BY <3>1 DEF Containers
  <2> QED
    BY <2>1, <2>2
<1>3. Containers(new)
  BY <1>2 DEF Containers
<1> QED
  BY <1>3 DEF new

LEMMA ContainersPop ==
    ASSUME NEW st, IsStack(st), st # << >>, Containers(st)
    PROVE  Containers(Tail(st)) /\ Container(Head(st))
<1> DEFINE new == Tail(st)
<1>1. /\ Len(st) \in Nat /\ Len(st) >= 1 /\ Head(st) = st[1]
      /\ DOMAIN st = 1 .. Len(st) /\ DOMAIN new = 1 .. Len(st) - 1
      /\ \A k \in 1 .. Len(st) - 1 : new[k] = st[k + 1]
  BY PopFacts
<1> HIDE DEF new
<1>2. \A k \in DOMAIN new : k + 1 \in DOMAIN st /\ new[k] = st[k + 1]
  BY <1>1
<1>3. Containers(new)
  BY <1>2 DEF Containers
<1>4. Container(Head(st))
  BY <1>1 DEF Containers
<1> QED
  BY <1>3, <1>4 DEF new

LEMMA PushEnds ==
    ASSUME NEW st, IsStack(st), NEW f
    PROVE  /\ << f >> \o st # << >>
           /\ Head(<< f >> \o st) = f
           /\ Tail(<< f >> \o st) = st
<1>1. PICK F : st \in Seq(F)
  BY DEF IsStack
<1> DEFINE G == F \cup {f}
<1>2. st \in Seq(G) /\ << f >> \in Seq(G)
  BY <1>1
<1> QED
  BY <1>2

LEMMA NewFacts ==
    ASSUME LeakInv, Allocates(1)
    PROVE  /\ made' \in Nat /\ made' >= made
           /\ New(1) \in SUBSET (made + 1 .. made')
  BY DEF LeakInv, Shared, Allocates, New

-----------------------------------------------------------------------------
(* The steps, one lemma each. *)
LEMMA LeakInit ==
    ASSUME Init
    PROVE  LeakInv
<1>1. IsStack(stack)
  <2>1. stack \in Seq({})
    BY DEF Init
  <2> QED
    BY <2>1 DEF IsStack
<1>2. DOMAIN stack = {}
  BY DEF Init
<1>3. Shared(stack, gift, live, made)
  BY <1>1, <1>2 DEF Init, Shared
<1>4. Frames(stack, pc)
  BY <1>2 DEF Init, Frames, Containers
<1> QED
  BY <1>3, <1>4 DEF Init, LeakInv

(* Nothing allocated, nothing freed, no call begins or ends. *)
LEMMA LeakQuiet ==
    ASSUME LeakInv,
           UNCHANGED << out, stack, gift, made, live >>,
           pc' \notin {"string", "key", "colon", "refused"},
           pc # "string",
           pc' \in {"return", "accepted"} \/ gift = {}
    PROVE  LeakInv'
<1>1. Frames(stack', pc')
  BY DEF LeakInv, Frames
<1> QED
  BY <1>1 DEF LeakInv

LEMMA LeakStart ==
    ASSUME LeakInv, Start
    PROVE  LeakInv'
<1>1. gift = {}
  BY DEF Start, LeakInv
<1>2. UNCHANGED << out, stack, gift, made, live >> /\ pc' = "value" /\ pc = "start"
  BY <1>1 DEF Start, Continues
<1> QED
  BY <1>1, <1>2, LeakQuiet

(* A value that needs no loop, with its node or without one. *)
LEMMA LeakLeaf ==
    ASSUME LeakInv, pc = "value", UNCHANGED << out, stack >>,
           \/ /\ pc' = "return" /\ gift' = New(1)
              /\ Allocates(1) /\ live' = live \cup New(1)
           \/ pc' = "fail" /\ gift' = {} /\ UNCHANGED << made, live >>
    PROVE  LeakInv'
<1>0. gift = {} /\ Frames(stack, pc) /\ Shared(stack, gift, live, made) /\ out' \in BOOLEAN
  BY DEF LeakInv
<1>1. Frames(stack', pc')
  BY <1>0 DEF Frames
<1>2. CASE /\ pc' = "return" /\ gift' = New(1)
           /\ Allocates(1) /\ live' = live \cup New(1)
  <2>1. /\ made' \in Nat /\ made' >= made
        /\ New(1) \in SUBSET (made + 1 .. made')
    BY <1>2, NewFacts
  <2>2. Shared(stack, gift \cup New(1), live \cup New(1), made')
    BY <1>0, <2>1, GiftGrows
  <2>3. Shared(stack', gift', live', made')
    BY <1>0, <1>2, <2>2
  <2> QED
    BY <1>0, <1>1, <1>2, <2>3 DEF LeakInv
<1>3. CASE pc' = "fail" /\ gift' = {} /\ UNCHANGED << made, live >>
  BY <1>0, <1>1, <1>3 DEF LeakInv
<1> QED
  BY <1>2, <1>3

LEMMA LeakParseWord ==
    ASSUME LeakInv, ParseWord
    PROVE  LeakInv'
BY LeakLeaf DEF ParseWord, Returns, Fails

LEMMA LeakParseNumber ==
    ASSUME LeakInv, ParseNumber
    PROVE  LeakInv'
BY LeakLeaf DEF ParseNumber, Returns, Fails

(* [] and {}, or a call that begins with a new node. *)
LEMMA LeakBegin ==
    ASSUME LeakInv, pc \in {"value", "key"}, UNCHANGED out,
           Allocates(1), live' = live \cup New(1),
           \/ pc' = "return" /\ gift' = New(1) /\ UNCHANGED stack
           \/ /\ gift' = {}
              /\ \E f : /\ Owned(f) = New(1) /\ stack' = << f >> \o stack
                        /\ \/ Container(f) /\ pc' = "value"
                           \/ /\ Container(f) /\ f.fn = "object" /\ f.held = {}
                              /\ pc' = "key"
                           \/ StringFrame(f) /\ f.of = pc /\ pc' = "string"
    PROVE  LeakInv'
<1>0. gift = {} /\ Frames(stack, pc) /\ Shared(stack, gift, live, made) /\ out' \in BOOLEAN
  BY DEF LeakInv
<1>1. /\ made' \in Nat /\ made' >= made
      /\ New(1) \in SUBSET (made + 1 .. made')
  BY NewFacts
<1>2. Shared(stack, New(1), live', made')
  <2>1. Shared(stack, gift \cup New(1), live \cup New(1), made')
    BY <1>0, <1>1, GiftGrows
  <2> QED
    BY <1>0, <2>1
<1>3. IsStack(stack) /\ Containers(stack) /\ (pc = "key" => AwaitsKey(stack))
  BY <1>0 DEF Frames, Shared
<1>4. CASE pc' = "return" /\ gift' = New(1) /\ UNCHANGED stack
  <2>1. Frames(stack', pc')
    BY <1>3, <1>4 DEF Frames
  <2> QED
    BY <1>0, <1>2, <1>4, <2>1 DEF LeakInv
<1>5. ASSUME gift' = {},
             NEW f, Owned(f) = New(1), stack' = << f >> \o stack,
             \/ Container(f) /\ pc' = "value"
             \/ Container(f) /\ f.fn = "object" /\ f.held = {} /\ pc' = "key"
             \/ StringFrame(f) /\ f.of = pc /\ pc' = "string"
      PROVE  LeakInv'
  <2>1. Shared(stack', gift', live', made')
    <3>1. Shared(<< f >> \o stack, {}, live', made')
      BY <1>2, <1>5, Pushed
    <3> QED
      BY <1>5, <3>1
  <2>2. stack' # << >> /\ Head(stack') = f /\ Tail(stack') = stack
    BY <1>3, <1>5, PushEnds
  <2>3. Frames(stack', pc')
    <3>1. CASE pc' = "string"
      BY <1>3, <1>5, <2>2, <3>1 DEF Frames
    <3>2. CASE pc' # "string"
      <4>1. Containers(stack')
        BY <1>3, <1>5, <3>2, ContainersPush
      <4> QED
        BY <1>5, <2>2, <3>2, <4>1 DEF Frames, AwaitsKey
    <3> QED
      BY <3>1, <3>2
  <2> QED
    BY <1>0, <1>5, <2>1, <2>3 DEF LeakInv
<1> QED
  BY <1>4, <1>5

LEMMA LeakBeginArray ==
    ASSUME LeakInv, BeginArray
    PROVE  LeakInv'
<1> DEFINE f == [fn |-> "array", kids |-> << >>, owns |-> New(1)]
<1>1. Owned(f) = New(1) /\ Container(f)
  BY DEF Owned, Container
<1>2. \/ pc' = "return" /\ gift' = New(1) /\ UNCHANGED stack
      \/ gift' = {} /\ pc' = "value" /\ stack' = << f >> \o stack
  BY DEF BeginArray, Returns, Continues
<1>3. /\ pc = "value" /\ UNCHANGED out
      /\ Allocates(1) /\ live' = live \cup New(1)
  BY DEF BeginArray
<1> HIDE DEF f
<1> QED
  BY <1>1, <1>2, <1>3, LeakBegin

LEMMA LeakBeginObject ==
    ASSUME LeakInv, BeginObject
    PROVE  LeakInv'
<1> DEFINE f == [fn |-> "object", kids |-> << >>, owns |-> New(1),
                 key |-> << >>, held |-> {}]
<1>1. Owned(f) = New(1) /\ Container(f) /\ f.fn = "object" /\ f.held = {}
  BY DEF Owned, Container
<1>2. \/ pc' = "return" /\ gift' = New(1) /\ UNCHANGED stack
      \/ gift' = {} /\ pc' = "key" /\ stack' = << f >> \o stack
  BY DEF BeginObject, Returns, Continues
<1>3. /\ pc = "value" /\ UNCHANGED out
      /\ Allocates(1) /\ live' = live \cup New(1)
  BY DEF BeginObject
<1> HIDE DEF f
<1> QED
  BY <1>1, <1>2, <1>3, LeakBegin

LEMMA LeakBeginString ==
    ASSUME LeakInv, BeginString
    PROVE  LeakInv'
<1> DEFINE f == [fn |-> "string", of |-> pc, buf |-> << >>,
                 room |-> IF out THEN 16 ELSE 4, owns |-> New(1)]
<1>0. pc \in {"value", "key"}
  BY DEF BeginString
<1>1. Owned(f) = New(1) /\ StringFrame(f) /\ f.of = pc
  BY <1>0 DEF Owned, StringFrame
<1>2. gift' = {} /\ pc' = "string" /\ stack' = << f >> \o stack
  BY DEF BeginString, Continues
<1>3. UNCHANGED out /\ Allocates(1) /\ live' = live \cup New(1)
  BY DEF BeginString
<1> HIDE DEF f
<1> QED
  BY <1>0, <1>1, <1>2, <1>3, LeakBegin

LEMMA LeakNoKey ==
    ASSUME LeakInv, NoKey
    PROVE  LeakInv'
<1>1. gift = {}
  BY DEF NoKey, LeakInv
<1>2. UNCHANGED << out, stack, gift, made, live >> /\ pc = "key" /\ pc' = "fail"
  BY <1>1 DEF NoKey, Fails
<1> QED
  BY <1>1, <1>2, LeakQuiet

(* The frame on top is changed, and takes what the value owns. *)
LEMMA LeakReplaced ==
    ASSUME LeakInv, stack # << >>, Containers(Tail(stack)),
           UNCHANGED << out, made, live >>, gift' = {},
           NEW f, Owned(f) = gift \cup Owned(Head(stack)),
           stack' = << f >> \o Tail(stack),
           \/ Container(f) /\ pc' \in {"value", "fail"}
           \/ Container(f) /\ f.fn = "object" /\ f.held = {} /\ pc' = "key"
           \/ /\ StringFrame(f) /\ pc' = "string"
              /\ f.of = "key" => AwaitsKey(Tail(stack))
    PROVE  LeakInv'
<1>0. Shared(stack, gift, live, made) /\ out' \in BOOLEAN
  BY DEF LeakInv
<1>1. Shared(Tail(stack), gift \cup Owned(Head(stack)), live, made)
  BY <1>0, Popped
<1>2. Shared(<< f >> \o Tail(stack), {}, live, made)
  BY <1>1, Pushed
<1>3. Shared(stack', gift', live', made')
  BY <1>2
<1>4. IsStack(Tail(stack))
  BY <1>1 DEF Shared
<1>5. stack' # << >> /\ Head(stack') = f /\ Tail(stack') = Tail(stack)
  BY <1>4, PushEnds
<1>6. Frames(stack', pc')
  <2>1. CASE pc' = "string"
    BY <1>5, <2>1 DEF Frames, Container, StringFrame
  <2>2. CASE pc' # "string"
    <3>1. Containers(stack')
      BY <1>4, <2>2, ContainersPush
    <3> QED
      BY <1>5, <2>2, <3>1 DEF Frames, AwaitsKey
  <2> QED
    BY <2>1, <2>2
<1> QED
  BY <1>0, <1>3, <1>6 DEF LeakInv

(* A call returns, and what it owns goes up with its value. *)
LEMMA LeakPassedUp ==
    ASSUME LeakInv, stack # << >>, Containers(Tail(stack)),
           UNCHANGED out, stack' = Tail(stack),
           made' \in Nat, made' >= made,
           NEW fresh \in SUBSET (made + 1 .. made'),
           live' = live \cup fresh,
           gift' = (gift \cup Owned(Head(stack))) \cup fresh,
           pc' = "return" \/ (pc' = "colon" /\ AwaitsKey(Tail(stack)))
    PROVE  LeakInv'
<1>0. Shared(stack, gift, live, made) /\ out' \in BOOLEAN
  BY DEF LeakInv
<1>1. Shared(Tail(stack), gift \cup Owned(Head(stack)), live, made)
  BY <1>0, Popped
<1>2. Shared(Tail(stack), (gift \cup Owned(Head(stack))) \cup fresh,
             live \cup fresh, made')
  BY <1>1, GiftGrows
<1>3. Shared(stack', gift', live', made')
  BY <1>2
<1>4. Frames(stack', pc')
  BY DEF Frames
<1> QED
  BY <1>0, <1>3, <1>4 DEF LeakInv

(* A call fails, and what it owns is freed. *)
LEMMA LeakFreed ==
    ASSUME LeakInv, stack # << >>, Containers(Tail(stack)), gift = {},
           UNCHANGED << out, made >>, stack' = Tail(stack),
           live' = live \ Owned(Head(stack)), gift' = {}, pc' = "fail"
    PROVE  LeakInv'
<1>0. Shared(stack, gift, live, made) /\ out' \in BOOLEAN
  BY DEF LeakInv
<1>1. Shared(Tail(stack), gift \cup Owned(Head(stack)), live, made)
  BY <1>0, Popped
<1>2. Shared(Tail(stack), {}, live \ (gift \cup Owned(Head(stack))), made)
  BY <1>1, GiftFreed
<1>3. live \ (gift \cup Owned(Head(stack))) = live'
  OBVIOUS
<1>4. Shared(stack', gift', live', made')
  BY <1>2, <1>3
<1>5. Frames(stack', pc')
  BY DEF Frames
<1> QED
  BY <1>0, <1>4, <1>5 DEF LeakInv

(* Top in the cases that the steps distinguish. *)
LEMMA StringOnTop ==
    ASSUME LeakInv, pc = "string"
    PROVE  /\ stack # << >> /\ StringFrame(Top) /\ Containers(Tail(stack))
           /\ Top.of = "key" => AwaitsKey(Tail(stack))
           /\ Owned(Top) = Top.owns
           /\ gift = {}
BY DEF LeakInv, Frames, StringFrame, Owned, Top

LEMMA ContainerOnTop ==
    ASSUME LeakInv, pc # "string", stack # << >>
    PROVE  /\ Container(Top) /\ Containers(Tail(stack))
           /\ Top.fn = "array" => Owned(Top) = Top.owns
           /\ Top.fn = "object" => Owned(Top) = Top.owns \cup Top.held
<1>1. IsStack(stack) /\ Containers(stack)
  BY DEF LeakInv, Frames, Shared
<1> QED
  BY <1>1, ContainersPop DEF Owned, Top

LEMMA LeakStringTakes ==
    ASSUME LeakInv, StringTakes
    PROVE  LeakInv'
<1>1. /\ stack # << >> /\ StringFrame(Top) /\ Containers(Tail(stack))
      /\ Top.of = "key" => AwaitsKey(Tail(stack))
      /\ Owned(Top) = Top.owns /\ gift = {}
  BY StringOnTop DEF StringTakes
<1>2. PICK buf, room : stack' = << [Top EXCEPT !.buf = buf, !.room = room] >>
                                 \o Tail(stack)
  BY DEF StringTakes
<1> DEFINE f == [Top EXCEPT !.buf = buf, !.room = room]
<1>3. StringFrame(f) /\ f.of = Top.of /\ Owned(f) = Top.owns
  BY <1>1 DEF StringFrame, Owned
<1>4. UNCHANGED << out, made, live >> /\ gift' = {} /\ pc' = "string"
  BY DEF StringTakes, Continues
<1>5. Head(stack) = Top
  BY DEF Top
<1>6. Owned(f) = gift \cup Owned(Head(stack)) /\ stack' = << f >> \o Tail(stack)
  BY <1>1, <1>2, <1>3, <1>5
<1> HIDE DEF f
<1> QED
  BY <1>1, <1>3, <1>4, <1>6, LeakReplaced

LEMMA LeakStringFails ==
    ASSUME LeakInv, StringFails
    PROVE  LeakInv'
<1>1. /\ stack # << >> /\ Containers(Tail(stack))
      /\ Owned(Top) = Top.owns /\ gift = {}
  BY StringOnTop DEF StringFails
<1>2. /\ UNCHANGED << out, made >> /\ stack' = Tail(stack)
      /\ live' = live \ Owned(Head(stack)) /\ gift' = {} /\ pc' = "fail"
  BY <1>1 DEF StringFails, Fails, Top
<1> QED
  BY <1>1, <1>2, LeakFreed

LEMMA LeakStringEnds ==
    ASSUME LeakInv, StringEnds
    PROVE  LeakInv'
<1>0. made \in Nat
  BY DEF LeakInv, Shared
<1>1. /\ stack # << >> /\ StringFrame(Top) /\ Containers(Tail(stack))
      /\ Top.of = "key" => AwaitsKey(Tail(stack))
      /\ Owned(Head(stack)) = Top.owns /\ gift = {}
  BY StringOnTop DEF StringEnds, Top
<1>2. UNCHANGED out /\ stack' = Tail(stack)
  BY DEF StringEnds
<1>3. CASE /\ Top.of = "key" /\ pc' = "colon" /\ gift' = Top.owns
           /\ UNCHANGED << made, live >>
  <2>1. /\ {} \in SUBSET (made + 1 .. made') /\ live' = live \cup {}
        /\ gift' = (gift \cup Owned(Head(stack))) \cup {}
    BY <1>1, <1>3
  <2>2. made' \in Nat /\ made' >= made
    BY <1>0, <1>3
  <2> QED
    BY <1>1, <1>2, <1>3, <2>1, <2>2, LeakPassedUp
<1>4. CASE /\ pc' = "return" /\ gift' = Top.owns \cup New(1)
           /\ Allocates(1) /\ live' = live \cup New(1)
  <2>1. /\ made' \in Nat /\ made' >= made
        /\ New(1) \in SUBSET (made + 1 .. made')
    BY <1>4, NewFacts
  <2>2. gift' = (gift \cup Owned(Head(stack))) \cup New(1)
    BY <1>1, <1>4
  <2> QED
    BY <1>1, <1>2, <1>4, <2>1, <2>2, LeakPassedUp
<1> QED
  BY <1>3, <1>4 DEF StringEnds, Returns

LEMMA LeakElementReturns ==
    ASSUME LeakInv, ElementReturns
    PROVE  LeakInv'
<1>0. made \in Nat
  BY DEF LeakInv, Shared
<1>1. /\ stack # << >> /\ Container(Top) /\ Containers(Tail(stack))
      /\ Owned(Head(stack)) = Top.owns /\ Top.fn = "array"
  BY ContainerOnTop DEF ElementReturns, Top
<1>2. UNCHANGED << out, made, live >>
  BY DEF ElementReturns
<1>3. PICK kids :
        \/ pc' = "return" /\ stack' = Tail(stack) /\ gift' = Top.owns \cup gift
        \/ /\ pc' \in {"value", "fail"} /\ gift' = {}
           /\ stack' = << [Top EXCEPT !.kids = kids, !.owns = Top.owns \cup gift] >>
                     \o Tail(stack)
  BY DEF ElementReturns, Returns, Continues, Fails
<1> DEFINE f == [Top EXCEPT !.kids = kids, !.owns = Top.owns \cup gift]
<1>4. Container(f) /\ Owned(f) = gift \cup Owned(Head(stack))
  BY <1>1 DEF Container, Owned
<1>5. \/ pc' = "return" /\ stack' = Tail(stack) /\ gift' = Top.owns \cup gift
      \/ pc' \in {"value", "fail"} /\ gift' = {} /\ stack' = << f >> \o Tail(stack)
  BY <1>3
<1> HIDE DEF f
<1>6. CASE pc' = "return" /\ stack' = Tail(stack) /\ gift' = Top.owns \cup gift
  <2>1. /\ {} \in SUBSET (made + 1 .. made') /\ live' = live \cup {}
        /\ gift' = (gift \cup Owned(Head(stack))) \cup {}
        /\ made' \in Nat /\ made' >= made
    BY <1>0, <1>1, <1>2, <1>6
  <2> QED
    BY <1>1, <1>2, <1>6, <2>1, LeakPassedUp
<1>7. CASE /\ pc' \in {"value", "fail"} /\ gift' = {}
           /\ stack' = << f >> \o Tail(stack)
  BY <1>1, <1>2, <1>4, <1>7, LeakReplaced
<1> QED
  BY <1>5, <1>6, <1>7

LEMMA LeakMemberReturns ==
    ASSUME LeakInv, MemberReturns
    PROVE  LeakInv'
<1>0. made \in Nat
  BY DEF LeakInv, Shared
<1>1. /\ stack # << >> /\ Container(Top) /\ Containers(Tail(stack))
      /\ Owned(Head(stack)) = Top.owns \cup Top.held /\ Top.fn = "object"
  BY ContainerOnTop DEF MemberReturns, Top
<1>2. UNCHANGED << out, made, live >>
  BY DEF MemberReturns
<1>3. PICK kids :
        \/ pc' = "return" /\ stack' = Tail(stack) /\ gift' = Top.owns \cup Top.held \cup gift
        \/ /\ pc' \in {"value", "key", "fail"} /\ gift' = {}
           /\ stack' = << [Top EXCEPT !.kids = kids, !.owns = Top.owns \cup Top.held \cup gift,
                                 !.held = {}] >>
                     \o Tail(stack)
  BY DEF MemberReturns, Returns, Continues, Fails
<1> DEFINE f == [Top EXCEPT !.kids = kids, !.owns = Top.owns \cup Top.held \cup gift,
                                 !.held = {}]
<1>4. /\ Container(f) /\ Owned(f) = gift \cup Owned(Head(stack))
      /\ f.fn = "object" /\ f.held = {}
  BY <1>1 DEF Container, Owned
<1>5. \/ pc' = "return" /\ stack' = Tail(stack) /\ gift' = Top.owns \cup Top.held \cup gift
      \/ pc' \in {"value", "key", "fail"} /\ gift' = {} /\ stack' = << f >> \o Tail(stack)
  BY <1>3
<1> HIDE DEF f
<1>6. CASE pc' = "return" /\ stack' = Tail(stack) /\ gift' = Top.owns \cup Top.held \cup gift
  <2>1. /\ {} \in SUBSET (made + 1 .. made') /\ live' = live \cup {}
        /\ gift' = (gift \cup Owned(Head(stack))) \cup {}
        /\ made' \in Nat /\ made' >= made
    BY <1>0, <1>1, <1>2, <1>6
  <2> QED
    BY <1>1, <1>2, <1>6, <2>1, LeakPassedUp
<1>7. CASE /\ pc' \in {"value", "key", "fail"} /\ gift' = {}
           /\ stack' = << f >> \o Tail(stack)
  BY <1>1, <1>2, <1>4, <1>7, LeakReplaced
<1> QED
  BY <1>5, <1>6, <1>7

LEMMA LeakKeyReturns ==
    ASSUME LeakInv, KeyReturns
    PROVE  LeakInv'
<1>0. AwaitsKey(stack)
  BY DEF LeakInv, Frames, KeyReturns
<1>1. /\ stack # << >> /\ Container(Top) /\ Containers(Tail(stack))
      /\ Owned(Head(stack)) = Top.owns /\ Top.fn = "object"
  BY <1>0, ContainerOnTop DEF AwaitsKey, KeyReturns, Top
<1>2. PICK key : stack' = << [Top EXCEPT !.key = key, !.held = gift] >> \o Tail(stack)
  BY DEF KeyReturns
<1> DEFINE f == [Top EXCEPT !.key = key, !.held = gift]
<1>3. Container(f) /\ Owned(f) = gift \cup Owned(Head(stack))
  BY <1>1 DEF Container, Owned
<1>4. UNCHANGED << out, made, live >> /\ gift' = {} /\ pc' \in {"value", "fail"}
  BY DEF KeyReturns, Continues, Fails
<1>5. stack' = << f >> \o Tail(stack)
  BY <1>2
<1> HIDE DEF f
<1> QED
  BY <1>1, <1>3, <1>4, <1>5, LeakReplaced

LEMMA LeakArrayFails ==
    ASSUME LeakInv, ArrayFails
    PROVE  LeakInv'
<1>1. gift = {} /\ stack # << >>
  BY DEF LeakInv, ArrayFails
<1>2. Containers(Tail(stack)) /\ Owned(Top) = Top.owns
  BY ContainerOnTop DEF ArrayFails
<1>3. /\ UNCHANGED << out, made >> /\ stack' = Tail(stack)
      /\ live' = live \ Owned(Head(stack)) /\ gift' = {} /\ pc' = "fail"
  BY <1>2 DEF ArrayFails, Fails, Top
<1> QED
  BY <1>1, <1>2, <1>3, LeakFreed

LEMMA LeakObjectFails ==
    ASSUME LeakInv, ObjectFails
    PROVE  LeakInv'
<1>1. gift = {} /\ stack # << >>
  BY DEF LeakInv, ObjectFails
<1>2. Containers(Tail(stack)) /\ Owned(Top) = Top.owns \cup Top.held
  BY ContainerOnTop DEF ObjectFails
<1>3. /\ UNCHANGED << out, made >> /\ stack' = Tail(stack)
      /\ live' = live \ Owned(Head(stack)) /\ gift' = {} /\ pc' = "fail"
  BY <1>2 DEF ObjectFails, Fails, Top
<1> QED
  BY <1>1, <1>2, <1>3, LeakFreed

(* json_decode keeps the tree or, if something follows it, deletes it. *)
LEMMA LeakDecodeReturns ==
    ASSUME LeakInv, DecodeReturns
    PROVE  LeakInv'
<1>1. CASE pc' = "accepted" /\ UNCHANGED << gift, live >>
  <2>1. UNCHANGED << out, stack, gift, made, live >> /\ pc = "return"
    BY <1>1 DEF DecodeReturns
  <2> QED
    BY <1>1, <2>1, LeakQuiet
<1>2. CASE pc' = "refused" /\ live' = live \ gift /\ gift' = {}
  <2>1. UNCHANGED << out, stack, made >> /\ stack = << >> /\ pc = "return"
    BY DEF DecodeReturns
  <2>2. Shared(stack, {}, live \ gift, made)
    BY GiftFreed DEF LeakInv
  <2>3. Shared(stack', gift', live', made')
    BY <1>2, <2>1, <2>2
  <2>4. Frames(stack', pc')
    BY <1>2, <2>1 DEF LeakInv, Frames
  <2> QED
    BY <1>2, <2>1, <2>3, <2>4 DEF LeakInv
<1> QED
  BY <1>1, <1>2 DEF DecodeReturns

LEMMA LeakDecodeFails ==
    ASSUME LeakInv, DecodeFails
    PROVE  LeakInv'
<1>1. /\ UNCHANGED << out, stack, gift, made, live >>
      /\ pc = "fail" /\ pc' = "refused" /\ stack = << >>
  BY DEF DecodeFails
<1>2. Frames(stack', pc')
  BY <1>1 DEF LeakInv, Frames
<1> QED
  BY <1>1, <1>2 DEF LeakInv

LEMMA LeakStep ==
    LeakInv /\ [Next]_vars => LeakInv'
<1> SUFFICES ASSUME LeakInv, [Next]_vars
             PROVE  LeakInv'
  OBVIOUS
<1>1. CASE UNCHANGED vars
  BY <1>1 DEF LeakInv, vars
<1> QED
  BY <1>1, LeakStart, LeakParseWord, LeakParseNumber, LeakBeginArray,
     LeakBeginObject, LeakBeginString, LeakNoKey, LeakStringTakes,
     LeakStringFails, LeakStringEnds, LeakElementReturns, LeakKeyReturns,
     LeakMemberReturns, LeakArrayFails, LeakObjectFails, LeakDecodeReturns,
     LeakDecodeFails DEF Next

-----------------------------------------------------------------------------
(* Positions stay within the text and its NUL, and a string has room for   *)
(* the next character.                                                     *)
Positions == 1 .. Len(text) + 1
Places == {"start", "value", "string", "key", "colon", "return", "fail",
           "accepted", "refused"}

HasRoom(f, tree) ==
    /\ f.buf \in Seq(1 .. 255) /\ f.room \in Nat
    /\ tree => f.room >= 16 /\ Len(f.buf) + 4 <= f.room
    /\ ~tree => f.room = 4

PosInv ==
    /\ text \in Seq(1 .. 255)
    /\ s \in Positions /\ far \in Positions
    /\ pc \in Places
    /\ pc = "string" => HasRoom(Head(stack), out)

(* A text begins at its first byte, or at its NUL. *)
LEMMA PosInit ==
    ASSUME Init
    PROVE  PosInv
<1>1. text \in Seq(1 .. 255)
  BY TextsAssumption DEF Init
<1>2. 1 \in Positions
  BY <1>1 DEF Positions
<1> QED
  BY <1>1, <1>2 DEF Init, PosInv, Places

(* A position with a byte in it is not the last one. *)
LEMMA NextFacts ==
    ASSUME PosInv, NEW n \in Positions, At(n) # 0
    PROVE  n + 1 \in Positions
<1>1. Len(text) \in Nat
  BY DEF PosInv
<1> QED
  BY <1>1 DEF Positions, At, ByteAt

(* Nor does skip_space leave the text. *)
LEMMA SkipFacts ==
    ASSUME PosInv, NEW n \in Positions
    PROVE  AfterSpace(n) \in Positions
<1>1. text \in Seq(1 .. 255) /\ Len(text) \in Nat
  BY DEF PosInv
<1>2. AfterSpace(n) \in n .. Len(text) + 1
  BY <1>1, SpaceFacts DEF Positions
<1> QED
  BY <1>1, <1>2 DEF Positions

(* A step outside of a string: it moves to a position and looks at one. *)
LEMMA PosMoves ==
    ASSUME PosInv, UNCHANGED text, s' \in Positions,
           UNCHANGED far \/ \E n \in Positions : Looks(n),
           pc' \in Places, pc' # "string"
    PROVE  PosInv'
<1>1. far' \in Positions
  BY DEF PosInv, Looks
<1>2. Positions' = Positions
  BY DEF Positions
<1> QED
  BY <1>1, <1>2 DEF PosInv

LEMMA PosStart ==
    ASSUME PosInv, Start
    PROVE  PosInv'
<1>1. AfterSpace(s) \in Positions
  BY SkipFacts DEF PosInv
<1>2. /\ UNCHANGED text /\ s' \in Positions /\ pc' = "value"
      /\ \E n \in Positions : Looks(n)
  BY <1>1 DEF Start, Continues
<1> QED
  BY <1>2, PosMoves DEF Places

(* The words end where their bytes do; a wrong one is the text's own, or   *)
(* its NUL.                                                                *)
LEMMA WordFacts ==
    ASSUME PosInv, NEW word \in {w.word : w \in Words}
    PROVE  LET wrong == {k \in 1 .. Len(word) : At(s + k - 1) # word[k]}
           IN  IF wrong = {}
               THEN /\ s + Len(word) \in Positions
                    /\ s + Len(word) - 1 \in Positions
               ELSE s + Min(wrong) - 1 \in Positions
<1> DEFINE wrong == {k \in 1 .. Len(word) : At(s + k - 1) # word[k]}
<1>1. Len(word) \in {4, 5} /\ \A k \in 1 .. Len(word) : word[k] # 0
  <2>1. \/ word = << 110, 117, 108, 108 >>
        \/ word = << 102, 97, 108, 115, 101 >>
        \/ word = << 116, 114, 117, 101 >>
    BY DEF Words
  <2> QED
    BY <2>1
<1>2. s \in Positions /\ Len(text) \in Nat /\ s \in Nat
  BY DEF PosInv, Positions
<1>3. ASSUME NEW k \in 1 .. Len(word), k \notin wrong
      PROVE  s + k \in Positions /\ s + k - 1 \in Positions
  <2>1. At(s + k - 1) # 0
    BY <1>1, <1>3
  <2>2. s + k - 1 \in 1 .. Len(text)
    BY <2>1 DEF At, ByteAt
  <2> HIDE DEF wrong
  <2> QED
    BY <1>1, <1>2, <2>2 DEF Positions
<1>4. CASE wrong = {}
  <2>1. Len(word) \in 1 .. Len(word)
    <3>1. \A n \in {4, 5} : n \in 1 .. n
      OBVIOUS
    <3> QED
      BY <1>1, <3>1
  <2> QED
    BY <1>3, <1>4, <2>1
<1>5. CASE wrong # {}
  <2>1. PICK m : m = Min(wrong)
    OBVIOUS
  <2>2. wrong \subseteq 1 .. Len(word)
    OBVIOUS
  <2> HIDE DEF wrong
  <2>3. wrong \subseteq Nat
    BY <1>1, <2>2
  <2>4. m \in wrong /\ \A y \in wrong : m <= y
    BY <1>5, <2>1, <2>3, MinFacts
  <2>5. s + m - 1 \in Positions
    <3>1. CASE m = 1
      BY <1>2, <3>1
    <3>2. CASE m # 1
      <4>1. m - 1 \in 1 .. Len(word) /\ m - 1 \notin wrong
        BY <1>1, <2>2, <2>4, <3>2
      <4>2. s + (m - 1) \in Positions
        BY <1>3, <4>1
      <4>3. s + (m - 1) = s + m - 1
        BY <1>1, <1>2, <2>2, <2>4
      <4> QED
        BY <4>2, <4>3
    <3> QED
      BY <3>1, <3>2
  <2> QED
    BY <1>5, <2>1, <2>5 DEF wrong
<1> QED
  BY <1>4, <1>5

LEMMA PosParseWord ==
    ASSUME PosInv, ParseWord
    PROVE  PosInv'
<1>0. s \in Positions
  BY DEF PosInv
<1>1. PICK word \in {w.word : w \in Words} :
        LET wrong == {k \in 1 .. Len(word) : At(s + k - 1) # word[k]}
        IN  \/ /\ wrong = {} /\ pc' = "return" /\ s' = s + Len(word)
               /\ Looks(s + Len(word) - 1)
            \/ /\ wrong # {} /\ pc' = "fail" /\ s' = s
               /\ Looks(s + Min(wrong) - 1)
  BY DEF ParseWord, Returns, Fails
<1>2. /\ s' \in Positions /\ pc' \in {"return", "fail"}
      /\ \E n \in Positions : Looks(n)
  BY <1>0, <1>1, WordFacts
<1>3. UNCHANGED text
  BY DEF ParseWord
<1> QED
  BY <1>2, <1>3, PosMoves DEF Places

LEMMA PosParseNumber ==
    ASSUME PosInv, ParseNumber
    PROVE  PosInv'
<1>0. s \in Positions /\ text \in Seq(1 .. 255)
  BY DEF PosInv
<1>1. PICK n : n = parse_number(text, s)
  OBVIOUS
<1>2. n.end \in Positions
  BY <1>0, <1>1, NumberFacts DEF Positions
<1>3. /\ UNCHANGED text /\ Looks(n.end)
      /\ \/ pc' = "return" /\ s' = n.end
         \/ pc' = "fail" /\ s' = s
  BY <1>1 DEF ParseNumber, Returns, Fails
<1> QED
  BY <1>0, <1>2, <1>3, PosMoves DEF Places

LEMMA PosBegin ==
    ASSUME PosInv, BeginArray \/ BeginObject
    PROVE  PosInv'
<1>0. s \in Positions
  BY DEF PosInv
<1>1. At(s) # 0
  BY DEF BeginArray, BeginObject, OpenBracket, OpenBrace
<1>2. PICK first : first = AfterSpace(s + 1)
  OBVIOUS
<1>3. first \in Positions
  BY <1>0, <1>1, <1>2, NextFacts, SkipFacts
<1>4. At(first) \in {CloseBracket, CloseBrace} => first + 1 \in Positions
  BY <1>3, NextFacts DEF CloseBracket, CloseBrace
<1>5. /\ UNCHANGED text /\ Looks(first)
      /\ \/ /\ At(first) \in {CloseBracket, CloseBrace}
            /\ pc' = "return" /\ s' = first + 1
         \/ pc' \in {"value", "key"} /\ s' = first
  BY <1>2 DEF BeginArray, BeginObject, Returns, Continues
<1> QED
  BY <1>3, <1>4, <1>5, PosMoves DEF Places

LEMMA PosBeginString ==
    ASSUME LeakInv, PosInv, BeginString
    PROVE  PosInv'
<1> DEFINE f == [fn |-> "string", of |-> pc, buf |-> << >>,
                 room |-> IF out THEN 16 ELSE 4, owns |-> New(1)]
<1>0. s \in Positions /\ text' = text /\ out' = out /\ out \in BOOLEAN
  BY DEF PosInv, LeakInv, BeginString
<1>1. At(s) # 0
  BY DEF BeginString, Quote
<1>2. s' \in Positions /\ Looks(s) /\ pc' = "string"
  BY <1>0, <1>1, NextFacts DEF BeginString, Continues
<1>3. IsStack(stack) /\ stack' = << f >> \o stack
  BY DEF LeakInv, Shared, BeginString
<1>4. HasRoom(f, out)
  BY <1>0 DEF HasRoom
<1> HIDE DEF f
<1>5. Head(stack') = f
  BY <1>3, PushEnds
<1>6. HasRoom(Head(stack'), out')
  BY <1>0, <1>4, <1>5
<1>7. far' \in Positions
  BY <1>0, <1>2 DEF PosInv, Looks
<1>8. Positions' = Positions /\ text' \in Seq(1 .. 255)
  BY <1>0 DEF PosInv, Positions
<1> QED
  BY <1>2, <1>6, <1>7, <1>8 DEF PosInv, Places

LEMMA PosStays ==
    ASSUME PosInv, NoKey \/ ArrayFails \/ ObjectFails \/ DecodeFails
    PROVE  PosInv'
<1>1. s \in Positions
  BY DEF PosInv
<1>2. /\ UNCHANGED << text, s >> /\ pc' \in {"fail", "refused"}
      /\ UNCHANGED far \/ Looks(s)
  BY DEF NoKey, ArrayFails, ObjectFails, DecodeFails, Fails
<1> QED
  BY <1>1, <1>2, PosMoves DEF Places

(* The twelve bytes from the position on, as a string's loop sees them. *)
LEMMA WindowFacts ==
    ASSUME PosInv
    PROVE  LET u == Unit(Window)
           IN  /\ s + u.looks - 1 \in Positions
               /\ u.len > 0 => s + u.len \in Positions
               /\ u.put \in Seq(1 .. 255) /\ Len(u.put) <= 4
<1> DEFINE b == Window
<1>0. text \in Seq(1 .. 255) /\ Len(text) \in Nat /\ s \in Positions /\ s \in Nat
  BY DEF PosInv, Positions
<1>1. b \in Windows
  <2>1. ASSUME NEW k \in 1 .. 12
        PROVE  At(s + k - 1) \in 0 .. 255
    <3>1. s + k - 1 \in Int
      BY <1>0
    <3> QED
      BY <1>0, <3>1, ByteFacts DEF At
  <2> QED
    BY <2>1 DEF Window, Windows
<1>2. ASSUME NEW k \in 1 .. 12, b[k] # 0
      PROVE  s + k \in Positions
  <2>1. At(s + k - 1) # 0
    BY <1>2 DEF Window
  <2>2. s + k - 1 \in 1 .. Len(text)
    BY <2>1 DEF At, ByteAt
  <2> QED
    BY <1>0, <2>2 DEF Positions
<1> HIDE DEF b
<1>3. PICK u : u = Unit(b)
  OBVIOUS
<1>4. GoodUnit(b, u)
  BY <1>1, <1>3, UnitFacts
<1>5. u.len > 0 => s + u.len \in Positions
  BY <1>2, <1>4 DEF GoodUnit
<1>6. s + u.looks - 1 \in Positions
  <2>1. CASE u.looks = 1
    BY <1>0, <2>1
  <2>2. CASE u.looks # 1
    <3>1. u.looks \in 1 .. 12 /\ u.looks > 1 /\ b[u.looks - 1] # 0
      BY <1>4, <2>2 DEF GoodUnit
    <3>2. u.looks - 1 \in 1 .. 12 /\ s + (u.looks - 1) = s + u.looks - 1
      BY <1>0, <3>1
    <3>3. s + (u.looks - 1) \in Positions
      BY <1>2, <3>1, <3>2
    <3> QED
      BY <3>2, <3>3
  <2> QED
    BY <2>1, <2>2
<1> QED
  BY <1>3, <1>4, <1>5, <1>6 DEF GoodUnit, b

LEMMA PosStringFails ==
    ASSUME PosInv, StringFails
    PROVE  PosInv'
<1>1. PICK u : u = Unit(Window)
  OBVIOUS
<1>2. s \in Positions /\ s + u.looks - 1 \in Positions
  BY <1>1, WindowFacts DEF PosInv
<1>3. UNCHANGED << text, s >> /\ pc' = "fail" /\ Looks(s + u.looks - 1)
  BY <1>1 DEF StringFails, Fails
<1> QED
  BY <1>2, <1>3, PosMoves DEF Places

LEMMA PosStringEnds ==
    ASSUME PosInv, StringEnds
    PROVE  PosInv'
<1>1. s \in Positions /\ At(s) # 0
  BY DEF PosInv, StringEnds, Quote
<1>2. s + 1 \in Positions
  BY <1>1, NextFacts
<1>3. UNCHANGED text /\ s' = s + 1 /\ pc' \in {"colon", "return"} /\ Looks(s)
  BY DEF StringEnds, Returns
<1> QED
  BY <1>1, <1>2, <1>3, PosMoves DEF Places

(* After a value or a name: what follows the space decides. *)
LEMMA PosReturns ==
    ASSUME PosInv, ElementReturns \/ MemberReturns \/ KeyReturns \/ DecodeReturns
    PROVE  PosInv'
<1>0. s \in Positions
  BY DEF PosInv
<1>1. PICK next : next = AfterSpace(s)
  OBVIOUS
<1>2. next \in Positions
  BY <1>0, <1>1, SkipFacts
<1>3. At(next) # 0 => next + 1 \in Positions /\ AfterSpace(next + 1) \in Positions
  BY <1>2, NextFacts, SkipFacts
<1>4. /\ UNCHANGED text
      /\ \/ /\ At(next) \in {CloseBracket, CloseBrace} /\ Looks(next)
            /\ pc' = "return" /\ s' = next + 1
         \/ /\ At(next) \in {Comma, Colon} /\ Looks(AfterSpace(next + 1))
            /\ pc' \in {"value", "key"} /\ s' = AfterSpace(next + 1)
         \/ /\ Looks(next) /\ s' = s
            /\ pc' \in {"fail", "accepted", "refused"}
  BY <1>1 DEF ElementReturns, MemberReturns, KeyReturns, DecodeReturns,
              Returns, Continues, Fails
<1>5. At(next) \in {CloseBracket, CloseBrace, Comma, Colon} => At(next) # 0
  BY DEF CloseBracket, CloseBrace, Comma, Colon
<1> QED
  BY <1>0, <1>2, <1>3, <1>4, <1>5, PosMoves DEF Places

LEMMA AppendFacts ==
    ASSUME NEW S, NEW x \in Seq(S), NEW y \in Seq(S)
    PROVE  x \o y \in Seq(S) /\ Len(x \o y) = Len(x) + Len(y) /\ Len(x) \in Nat
OBVIOUS

LEMMA RoomFacts ==
    ASSUME NEW room \in Nat, NEW len \in Nat, NEW more \in Nat,
           more <= 4, room >= 16, len + 4 <= room
    PROVE  /\ len + more <= room
           /\ sb_need(room, len + more, 4) \in Nat
           /\ sb_need(room, len + more, 4) >= 16
           /\ len + more + 4 <= sb_need(room, len + more, 4)
BY DEF sb_need

(* One more character: it fits, and afterwards there is room for another.  *)
LEMMA TakesFacts ==
    ASSUME LeakInv, PosInv, StringTakes
    PROVE  /\ HasRoom(Head(stack'), out')
           /\ Len(Head(stack').buf) <= Top.room
           /\ stack' # << >> /\ Head(stack') = stack'[1]
<1>1. PICK u : u = Unit(Window)
  OBVIOUS
<1>2. u.put \in Seq(1 .. 255) /\ Len(u.put) <= 4 /\ Len(u.put) \in Nat
  BY <1>1, WindowFacts
<1>3. /\ stack # << >> /\ StringFrame(Top) /\ IsStack(Tail(stack))
      /\ HasRoom(Top, out)
  <2>1. stack # << >> /\ StringFrame(Top) /\ IsStack(stack)
    BY StringOnTop DEF StringTakes, LeakInv, Shared
  <2> QED
    BY <2>1, PopFacts DEF PosInv, StringTakes, Top
<1>4. PICK buf : buf = IF out THEN Top.buf \o u.put ELSE u.put
  OBVIOUS
<1>5. PICK room : room = IF out THEN sb_need(Top.room, Len(buf), 4) ELSE Top.room
  OBVIOUS
<1> DEFINE f == [Top EXCEPT !.buf = buf, !.room = room]
<1>6. stack' = << f >> \o Tail(stack)
  BY <1>1, <1>4, <1>5 DEF StringTakes
<1>7. f.buf = buf /\ f.room = room
  BY <1>3 DEF StringFrame
<1> HIDE DEF f
<1>8. Head(stack') = f /\ stack' # << >> /\ Head(stack') = stack'[1]
  BY <1>3, <1>6, PushEnds, PushFacts
<1>9. out' = out /\ out \in BOOLEAN
  BY DEF StringTakes, LeakInv
<1>10. Len(buf) <= Top.room /\ HasRoom(f, out)
  <2>1. CASE out
    <3>1. buf = Top.buf \o u.put /\ room = sb_need(Top.room, Len(buf), 4)
      BY <1>4, <1>5, <2>1
    <3>2. /\ Top.buf \in Seq(1 .. 255) /\ Top.room \in Nat
          /\ Top.room >= 16 /\ Len(Top.buf) + 4 <= Top.room
      BY <1>3, <2>1 DEF HasRoom
    <3>3. /\ buf \in Seq(1 .. 255) /\ Len(buf) \in Nat
          /\ Len(buf) = Len(Top.buf) + Len(u.put) /\ Len(Top.buf) \in Nat
      <4>1. PICK x, y : x = Top.buf /\ y = u.put
        OBVIOUS
      <4>2. x \o y \in Seq(1 .. 255) /\ Len(x \o y) = Len(x) + Len(y) /\ Len(x) \in Nat
        BY <1>2, <3>2, <4>1, AppendFacts
      <4>3. Len(x \o y) \in Nat
        BY <4>2
      <4> QED
        BY <3>1, <4>1, <4>2, <4>3
    <3>4. PICK len, more : len = Len(Top.buf) /\ more = Len(u.put)
      OBVIOUS
    <3>4a. len \in Nat /\ more \in Nat /\ more <= 4 /\ len + 4 <= Top.room
      BY <1>2, <3>2, <3>3, <3>4
    <3>5. /\ len + more <= Top.room
          /\ sb_need(Top.room, len + more, 4) \in Nat
          /\ sb_need(Top.room, len + more, 4) >= 16
          /\ len + more + 4 <= sb_need(Top.room, len + more, 4)
      BY <3>2, <3>4a, RoomFacts
    <3>6. Len(buf) = len + more
      BY <3>3, <3>4
    <3>7. /\ Len(buf) <= Top.room
          /\ room \in Nat /\ room >= 16 /\ Len(buf) + 4 <= room
      BY <3>1, <3>5, <3>6
    <3> QED
      BY <1>7, <2>1, <3>3, <3>7 DEF HasRoom
  <2>2. CASE ~out
    BY <1>2, <1>3, <1>4, <1>5, <1>7, <2>2 DEF HasRoom
  <2> QED
    BY <2>1, <2>2
<1> QED
  BY <1>7, <1>8, <1>9, <1>10

LEMMA PosStringTakes ==
    ASSUME LeakInv, PosInv, StringTakes
    PROVE  PosInv'
<1>1. PICK u : u = Unit(Window)
  OBVIOUS
<1>2. /\ u.len > 0 /\ s' = s + u.len /\ pc' = "string" /\ text' = text
      /\ Looks(s + u.looks - 1)
  BY <1>1 DEF StringTakes, Continues
<1>3. s' \in Positions /\ s + u.looks - 1 \in Positions
  BY <1>1, <1>2, WindowFacts
<1>4. far' \in Positions
  BY <1>2, <1>3 DEF PosInv, Looks
<1>5. Positions' = Positions /\ text' \in Seq(1 .. 255)
  BY <1>2 DEF PosInv, Positions
<1>6. HasRoom(Head(stack'), out')
  BY TakesFacts
<1> QED
  BY <1>2, <1>3, <1>4, <1>5, <1>6 DEF PosInv, Places

Inv == LeakInv /\ PosInv

LEMMA InvStep ==
    Inv /\ [Next]_vars => Inv'
<1> SUFFICES ASSUME Inv, [Next]_vars
             PROVE  Inv'
  OBVIOUS
<1>1. LeakInv /\ PosInv /\ LeakInv'
  BY LeakStep DEF Inv
<1>2. PosInv'
  <2>1. CASE UNCHANGED vars
    BY <1>1, <2>1 DEF PosInv, Positions, vars
  <2> QED
    BY <1>1, <2>1, PosStart, PosParseWord, PosParseNumber, PosBegin, PosBeginString,
       PosStays, PosStringTakes, PosStringFails, PosStringEnds, PosReturns DEF Next
<1> QED
  BY <1>1, <1>2 DEF Inv

(* The two invariants together say what TypeOK says. *)
LEMMA InvTyped ==
    Inv => TypeOK
<1> SUFFICES ASSUME Inv
             PROVE  TypeOK
  OBVIOUS
<1>1. LeakInv /\ PosInv
  BY DEF Inv
<1>2. made \in Nat /\ live \subseteq Ids /\ gift \subseteq Ids
  BY <1>1 DEF LeakInv, Shared, Ids
<1>3. /\ IsStack(stack)
      /\ \A k \in DOMAIN stack : Owned(stack[k]) \subseteq Ids
  BY <1>1 DEF LeakInv, Shared, Ids
<1>4. pc \in {"string", "key", "colon"} => stack # << >>
  BY <1>1 DEF LeakInv, Frames, AwaitsKey
<1>5. pc \in {"key", "colon"} => Top.fn = "object"
  BY <1>1 DEF LeakInv, Frames, AwaitsKey, Top
<1>6. ASSUME NEW k \in DOMAIN stack, Container(stack[k])
      PROVE  /\ FrameOK(stack[k]) /\ stack[k].owns \subseteq Ids
             /\ stack[k].fn # "string"
  BY <1>3, <1>6 DEF Container, FrameOK, Owned
<1>7. ASSUME NEW k \in DOMAIN stack, StringFrame(stack[k]), HasRoom(stack[k], out)
      PROVE  FrameOK(stack[k]) /\ stack[k].owns \subseteq Ids
  BY <1>3, <1>7 DEF StringFrame, FrameOK, Owned, HasRoom
<1>8. ASSUME NEW k \in DOMAIN stack
      PROVE  /\ FrameOK(stack[k]) /\ stack[k].owns \subseteq Ids
             /\ stack[k].fn = "string" <=> k = 1 /\ pc = "string"
  <2>1. CASE pc # "string"
    <3>1. Container(stack[k])
      BY <1>1, <1>8, <2>1 DEF LeakInv, Frames, Containers
    <3> QED
      BY <1>6, <2>1, <3>1
  <2>2. CASE pc = "string" /\ k = 1
    <3>1. StringFrame(stack[k]) /\ HasRoom(stack[k], out)
      <4>1. stack # << >>
        BY <1>4, <2>2
      <4>2. Head(stack) = stack[k]
        BY <1>3, <2>2, <4>1, PopFacts
      <4> QED
        BY <1>1, <2>2, <4>2 DEF LeakInv, Frames, PosInv
    <3> QED
      BY <1>7, <2>2, <3>1 DEF StringFrame
  <2>3. CASE pc = "string" /\ k # 1
    <3>1. Containers(Tail(stack)) /\ stack # << >>
      BY <1>1, <2>3 DEF LeakInv, Frames
    <3>2. k - 1 \in DOMAIN Tail(stack) /\ Tail(stack)[k - 1] = stack[k]
      BY <1>3, <1>8, <2>3, <3>1, PopFacts
    <3>3. Container(stack[k])
      BY <3>1, <3>2 DEF Containers
    <3> QED
      BY <1>6, <2>3, <3>3
  <2> QED
    BY <2>1, <2>2, <2>3
<1>9. s \in 1 .. Len(text) + 1 /\ text \in Seq(1 .. 255) /\ out \in BOOLEAN
  BY <1>1 DEF PosInv, Positions, LeakInv
<1> QED
  BY <1>1, <1>2, <1>4, <1>5, <1>8, <1>9 DEF TypeOK, PosInv, Places

LEMMA InvAlways == Spec => []Inv
<1>1. Init => Inv
  BY LeakInit, PosInit DEF Inv
<1> QED
  BY <1>1, InvStep, PTL DEF Spec

(* The shapes of the frames, and a position within the text, at every step *)
(* of every text.                                                          *)
THEOREM ParserTypeCorrect == Spec => []TypeOK
BY InvAlways, InvTyped, PTL

(* Every object belongs to one running call or to the value on its way up, *)
(* and a refused text leaves nothing behind, whatever the text.            *)
THEOREM LeaksCorrect == Spec => []NothingLeaks
<1>1. Inv => NothingLeaks
  BY DEF Inv, LeakInv, Shared, NothingLeaks
<1> QED
  BY <1>1, InvAlways, PTL

(* The parser never looks behind the NUL of its text. *)
THEOREM ReadsCorrect == Spec => []ReadsInside
<1>1. Inv => ReadsInside
  <2> SUFFICES ASSUME Inv
               PROVE  ReadsInside
    OBVIOUS
  <2>1. far \in 1 .. Len(text) + 1 /\ Len(text) \in Nat
    BY DEF Inv, PosInv, Positions
  <2> QED
    BY <2>1 DEF ReadsInside
<1> QED
  BY <1>1, InvAlways, PTL

(* What parse_string writes fits into the buffer it writes to. *)
THEOREM BufferCorrect == Spec => BufferHolds
<1>1. Inv /\ [Next]_vars
        => [pc = "string" /\ pc' = "string" => Len(stack'[1].buf) <= Top.room]_vars
  <2> SUFFICES ASSUME Inv, Next, pc = "string", pc' = "string"
               PROVE  Len(stack'[1].buf) <= Top.room
    OBVIOUS
  <2>1. StringTakes
    BY DEF Next, Start, ParseWord, ParseNumber, BeginArray, BeginObject, BeginString,
           NoKey, StringFails, StringEnds, ElementReturns, KeyReturns, MemberReturns,
           ArrayFails, ObjectFails, DecodeReturns, DecodeFails, Fails, Returns
  <2> QED
    BY <2>1, TakesFacts DEF Inv
<1> QED
  BY <1>1, InvAlways, PTL DEF Spec, BufferHolds

-----------------------------------------------------------------------------
(***************************************************************************)
(* Part 2.  Pieces of a text                                               *)
(***************************************************************************)

(* The bytes of a text from i to j. *)
Span(t, i, j) == i \in 1 .. Len(t) + 1 /\ j \in i - 1 .. Len(t)
Piece(t, i, j) == SubSeq(t, i, j)

(* A text is a sequence of bytes.                                          *)
LEMMA TextFacts ==
    ASSUME NEW t \in Text
    PROVE  /\ Len(t) \in Nat /\ DOMAIN t = 1 .. Len(t)
           /\ \A i \in 1 .. Len(t) : t[i] \in 1 .. 255
  <1>1. t \in Seq(1 .. 255)
    BY DEF Text
  <1>2. \A i \in 1 .. Len(t) : t[i] \in 1 .. 255
    BY <1>1, ElementOfSeq
  <1> QED
    BY <1>1, <1>2

(* A piece of a text is a text; its bytes, by their places in the whole.   *)
LEMMA PieceFacts ==
    ASSUME NEW t \in Text, NEW i, NEW j, Span(t, i, j)
    PROVE  /\ Piece(t, i, j) \in Text
           /\ Len(Piece(t, i, j)) = j - i + 1
           /\ DOMAIN Piece(t, i, j) = 1 .. j - i + 1
           /\ \A k \in 1 .. j - i + 1 : Piece(t, i, j)[k] = t[i + k - 1]
           /\ i \in Nat /\ i >= 1 /\ j \in Nat /\ i <= j + 1 /\ j <= Len(t)
  <1> DEFINE S == 1 .. 255
             b == SubSeq(t, i, j)
  <1>1. i \in Int /\ j \in Int /\ i \in Nat /\ j \in Nat /\ i >= 1 /\ j <= Len(t) /\ i <= j + 1
    BY TextFacts DEF Span
  <1>2. \A k \in i .. j : t[k] \in S
    <2>1. \A k \in i .. j : k \in 1 .. Len(t)
      BY <1>1, TextFacts
    <2> QED
      BY <2>1, TextFacts
  <1> HIDE DEF S
  <1>3. /\ b \in Seq(S) /\ Len(b) = IF i <= j THEN j - i + 1 ELSE 0
        /\ \A k \in 1 .. j - i + 1 : b[k] = t[i + k - 1]
    BY <1>1, <1>2, SubSeqProperties
  <1> HIDE DEF b
  <1>4. Len(b) = j - i + 1
    BY <1>1, <1>3
  <1>5. b \in Text /\ DOMAIN b = 1 .. j - i + 1
    BY <1>3, <1>4 DEF S, Text
  <1> QED
    BY <1>1, <1>3, <1>4, <1>5 DEF Piece, b

(* Two pieces with the same bytes are the same.                            *)
LEMMA PieceIs ==
    ASSUME NEW t \in Text, NEW i, NEW j, Span(t, i, j), NEW u \in Text,
           Len(u) = j - i + 1, \A k \in 1 .. Len(u) : u[k] = t[i + k - 1]
    PROVE  u = Piece(t, i, j)
  <1>1. /\ Piece(t, i, j) \in Text
        /\ Len(Piece(t, i, j)) = j - i + 1
        /\ \A k \in 1 .. j - i + 1 : Piece(t, i, j)[k] = t[i + k - 1]
    BY PieceFacts
  <1> QED
    BY <1>1, SeqEqual DEF Text

(* A piece of a piece is a piece of the whole text.                        *)
LEMMA PieceOfPiece ==
    ASSUME NEW t \in Text, NEW i, NEW j, Span(t, i, j), NEW k, NEW l,
           Span(Piece(t, i, j), k, l)
    PROVE  /\ SubSeq(Piece(t, i, j), k, l) = Piece(t, i + k - 1, i + l - 1)
           /\ Span(t, i + k - 1, i + l - 1)
  <1> DEFINE p == Piece(t, i, j)
             u == Piece(p, k, l)
  <1>1. /\ p \in Text /\ Len(p) = j - i + 1
        /\ \A m \in 1 .. j - i + 1 : p[m] = t[i + m - 1]
        /\ i \in Nat /\ i >= 1 /\ j \in Nat /\ i <= j + 1 /\ j <= Len(t)
    BY PieceFacts
  <1> HIDE DEF p
  <1>2. /\ u \in Text /\ Len(u) = l - k + 1
        /\ \A m \in 1 .. l - k + 1 : u[m] = p[k + m - 1]
        /\ k \in Nat /\ k >= 1 /\ l \in Nat /\ k <= l + 1 /\ l <= Len(p)
    <2>1. ASSUME NEW q \in Text, Span(q, k, l)
          PROVE  /\ Piece(q, k, l) \in Text /\ Len(Piece(q, k, l)) = l - k + 1
                 /\ \A m \in 1 .. l - k + 1 : Piece(q, k, l)[m] = q[k + m - 1]
                 /\ k \in Nat /\ k >= 1 /\ l \in Nat /\ k <= l + 1 /\ l <= Len(q)
      BY <2>1, PieceFacts
    <2>2. Span(p, k, l)
      BY DEF p
    <2> QED
      BY <1>1, <2>1, <2>2
  <1> HIDE DEF u
  <1>3. Span(t, i + k - 1, i + l - 1)
    BY <1>1, <1>2, TextFacts DEF Span
  <1>4. ASSUME NEW m \in 1 .. Len(u)
        PROVE  u[m] = t[(i + k - 1) + m - 1]
    <2>1. k + m - 1 \in 1 .. j - i + 1 /\ m \in 1 .. l - k + 1
      BY <1>1, <1>2
    <2>2. u[m] = p[k + m - 1] /\ p[k + m - 1] = t[i + (k + m - 1) - 1]
      BY <1>1, <1>2, <2>1
    <2>3. i + (k + m - 1) - 1 = (i + k - 1) + m - 1
      BY <1>1, <1>2
    <2> QED
      BY <2>2, <2>3
  <1>5. Len(u) = (i + l - 1) - (i + k - 1) + 1
    BY <1>1, <1>2
  <1>6. u = Piece(t, i + k - 1, i + l - 1)
    BY <1>2, <1>3, <1>4, <1>5, PieceIs
  <1> QED
    BY <1>3, <1>6 DEF u, p, Piece

(* A whole text is a piece of itself. *)
LEMMA Whole ==
    ASSUME NEW t \in Text
    PROVE  Span(t, 1, Len(t)) /\ t = Piece(t, 1, Len(t))
  <1>1. Span(t, 1, Len(t))
    BY TextFacts DEF Span
  <1>2. \A k \in 1 .. Len(t) : t[k] = t[1 + k - 1]
    BY TextFacts
  <1>3. Len(t) = Len(t) - 1 + 1
    BY TextFacts
  <1> QED
    BY <1>1, <1>2, <1>3, PieceIs

-----------------------------------------------------------------------------
(* Trimming a piece leaves a piece whose ends are no spaces. *)
BlankSpan(t, i, j) == \A k \in i .. j : t[k] \in Spaces
Inked(t, i, j) == i <= j /\ t[i] \notin Spaces /\ t[j] \notin Spaces

(* The greatest element of a bounded set.                                  *)
LEMMA MaxFacts ==
    ASSUME NEW n \in Nat, NEW S, S \subseteq 1 .. n, S # {}
    PROVE  Max(S) \in S /\ \A y \in S : y <= Max(S)
  <1> DEFINE T == {m \in Nat : n - m \in S}
  <1>1. T # {}
    <2>1. PICK y \in S : TRUE
      OBVIOUS
    <2>2. n - y \in Nat /\ n - (n - y) = y
      BY <2>1
    <2>3. n - y \in T
      BY <2>1, <2>2
    <2> QED
      BY <2>3
  <1>2. PICK m \in T : \A k \in T : m <= k
    BY <1>1, Least
  <1>3. \A y \in S : y <= n - m
    <2> TAKE y \in S
    <2>1. n - y \in Nat /\ n - (n - y) = y /\ y \in Nat
      OBVIOUS
    <2>2. n - y \in T
      BY <2>1
    <2> QED
      BY <1>2, <2>1, <2>2
  <1>4. \E x \in S : \A y \in S : x >= y
    <2>1. n - m \in S
      BY <1>2
    <2>2. \A y \in S : n - m >= y
      BY <1>3
    <2> QED
      BY <2>1, <2>2
  <1>5. Max(S) \in S /\ \A y \in S : Max(S) >= y
    <2>1. Max(S) = CHOOSE x \in S : \A y \in S : x >= y
      BY DEF Max
    <2> QED
      BY <1>4, <2>1
  <1> QED
    BY <1>5

(* What Trimmed leaves of a piece: nothing, or the piece between its first *)
(* and its last byte that is no space.                                     *)
LEMMA TrimmedSpan ==
    ASSUME NEW t \in Text, NEW i, NEW j, Span(t, i, j)
    PROVE  \/ BlankSpan(t, i, j) /\ Trimmed(Piece(t, i, j)) = << >>
           \/ \E a, b : /\ i <= a /\ b <= j /\ Span(t, a, b) /\ Inked(t, a, b)
                        /\ BlankSpan(t, i, a - 1) /\ BlankSpan(t, b + 1, j)
                        /\ Trimmed(Piece(t, i, j)) = Piece(t, a, b)
  <1> DEFINE p == Piece(t, i, j)
             inked == {k \in DOMAIN p : p[k] \notin Spaces}
             n == j - i + 1
  <1>1. /\ p \in Text /\ Len(p) = n /\ DOMAIN p = 1 .. n /\ n \in Nat
        /\ \A m \in 1 .. n : p[m] = t[i + m - 1]
        /\ i \in Nat /\ i >= 1 /\ j \in Nat /\ i <= j + 1 /\ j <= Len(t)
    BY PieceFacts
  <1> HIDE DEF p
  <1>2. \A k \in i .. j : k - i + 1 \in 1 .. n /\ p[k - i + 1] = t[k]
    <2> TAKE k \in i .. j
    <2>1. k - i + 1 \in 1 .. n /\ i + (k - i + 1) - 1 = k
      BY <1>1
    <2> QED
      BY <1>1, <2>1
  <1>3. CASE Blank(p)
    <2>1. BlankSpan(t, i, j)
      BY <1>1, <1>2, <1>3 DEF BlankSpan, Blank
    <2>2. Trimmed(p) = << >>
      BY <1>3 DEF Trimmed
    <2> QED
      BY <2>1, <2>2 DEF p
  <1>4. CASE ~Blank(p)
    <2>1. inked # {} /\ inked \subseteq 1 .. n /\ inked \subseteq Nat
      BY <1>1, <1>4 DEF Blank
    <2> DEFINE lo == Min(inked)
               hi == Max(inked)
    <2>2. lo \in inked /\ \A y \in inked : lo <= y
      BY <2>1, MinFacts
    <2>3. hi \in inked /\ \A y \in inked : y <= hi
      BY <1>1, <2>1, MaxFacts
    <2>4. Trimmed(p) = SubSeq(p, lo, hi)
      BY <1>4 DEF Trimmed
    <2> HIDE DEF lo, hi
    <2>5. lo \in 1 .. n /\ hi \in 1 .. n /\ lo <= hi /\ p[lo] \notin Spaces /\ p[hi] \notin Spaces
      BY <1>1, <2>2, <2>3
    <2>6. Span(p, lo, hi)
      BY <1>1, <2>5 DEF Span
    <2> DEFINE a == i + lo - 1
               b == i + hi - 1
    <2>7. SubSeq(p, lo, hi) = Piece(t, a, b) /\ Span(t, a, b)
      BY <2>6, PieceOfPiece DEF p
    <2>8. Inked(t, a, b) /\ i <= a /\ b <= j
      <3>1. p[lo] = t[a] /\ p[hi] = t[b]
        BY <1>1, <2>5
      <3> QED
        BY <1>1, <2>5, <3>1 DEF Inked
    <2>9. ASSUME NEW k \in i .. j, k < a \/ b < k
          PROVE  t[k] \in Spaces
      <3>1. k - i + 1 \in 1 .. n /\ p[k - i + 1] = t[k] /\ (k - i + 1 < lo \/ hi < k - i + 1)
        BY <1>1, <1>2, <2>5, <2>9
      <3>2. k - i + 1 \notin inked
        BY <2>2, <2>3, <2>5, <3>1
      <3> QED
        BY <1>1, <3>1, <3>2
    <2>10. BlankSpan(t, i, a - 1) /\ BlankSpan(t, b + 1, j)
      <3>1. \A k \in i .. a - 1 : k \in i .. j /\ k < a
        BY <1>1, <2>5, <2>8
      <3>2. \A k \in b + 1 .. j : k \in i .. j /\ b < k
        BY <1>1, <2>5, <2>8
      <3> QED
        BY <2>9, <3>1, <3>2 DEF BlankSpan
    <2> HIDE DEF a, b
    <2> QED
      BY <2>4, <2>7, <2>8, <2>10 DEF p
  <1> QED
    BY <1>3, <1>4

(* Trimming yields a text that is not longer.                              *)
LEMMA TrimmedFacts ==
    ASSUME NEW t \in Text
    PROVE  Trimmed(t) \in Text /\ Len(Trimmed(t)) <= Len(t)
  <1>1. Span(t, 1, Len(t)) /\ t = Piece(t, 1, Len(t)) /\ Len(t) \in Nat
    BY Whole, TextFacts
  <1>2. CASE Trimmed(t) = << >>
    BY <1>1, <1>2 DEF Text
  <1>3. ASSUME NEW a, NEW b, 1 <= a, b <= Len(t), Span(t, a, b), Trimmed(t) = Piece(t, a, b)
        PROVE  Trimmed(t) \in Text /\ Len(Trimmed(t)) <= Len(t)
    <2>1. Piece(t, a, b) \in Text /\ Len(Piece(t, a, b)) = b - a + 1 /\ a \in Nat /\ b \in Nat
      BY <1>3, PieceFacts
    <2> QED
      BY <1>1, <1>3, <2>1
  <1> QED
    BY <1>1, <1>2, <1>3, TrimmedSpan

-----------------------------------------------------------------------------
(***************************************************************************)
(* Part 2.  The function Means exists                                      *)
(***************************************************************************)

LEMMA PartFacts ==
    ASSUME NEW t \in Text, NEW p \in Parts(t)
    PROVE  /\ p[1] \in Text /\ p[2] \in Text
           /\ Len(p[1]) \in Nat /\ Len(p[2]) \in Nat /\ Len(t) \in Nat
           /\ Len(p[1]) + Len(p[2]) = Len(t)
  <1>1. PICK k \in 0 .. Len(t) : p = << SubSeq(t, 1, k), SubSeq(t, k + 1, Len(t)) >>
    BY DEF Parts
  <1>2. Span(t, 1, k) /\ Span(t, k + 1, Len(t)) /\ Len(t) \in Nat /\ k \in Nat
    BY TextFacts DEF Span
  <1>3. p[1] = Piece(t, 1, k) /\ p[2] = Piece(t, k + 1, Len(t))
    BY <1>1 DEF Piece
  <1>4. /\ Piece(t, 1, k) \in Text /\ Piece(t, k + 1, Len(t)) \in Text
        /\ Len(Piece(t, 1, k)) = k - 1 + 1
        /\ Len(Piece(t, k + 1, Len(t))) = Len(t) - (k + 1) + 1
    BY <1>2, PieceFacts
  <1> QED
    BY <1>2, <1>3, <1>4

(* The parts before and after a byte are shorter than the text.            *)
LEMMA AroundFacts ==
    ASSUME NEW t \in Text, NEW byte, NEW p \in Around(t, byte)
    PROVE  /\ p[1] \in Text /\ p[2] \in Text
           /\ Len(p[1]) \in Nat /\ Len(p[2]) \in Nat /\ Len(t) \in Nat
           /\ Len(p[1]) < Len(t) /\ Len(p[2]) < Len(t)
  <1>1. PICK k \in DOMAIN t : p = << SubSeq(t, 1, k - 1), SubSeq(t, k + 1, Len(t)) >>
    BY DEF Around
  <1>2. Span(t, 1, k - 1) /\ Span(t, k + 1, Len(t)) /\ Len(t) \in Nat /\ k \in 1 .. Len(t)
    BY TextFacts DEF Span
  <1>3. p[1] = Piece(t, 1, k - 1) /\ p[2] = Piece(t, k + 1, Len(t))
    BY <1>1 DEF Piece
  <1>4. /\ Piece(t, 1, k - 1) \in Text /\ Piece(t, k + 1, Len(t)) \in Text
        /\ Len(Piece(t, 1, k - 1)) = k - 1 - 1 + 1
        /\ Len(Piece(t, k + 1, Len(t))) = Len(t) - (k + 1) + 1
    BY <1>2, PieceFacts
  <1> QED
    BY <1>2, <1>3, <1>4

(* So is what stands between two brackets.                                 *)
LEMMA WithinFacts ==
    ASSUME NEW t \in Text, Len(t) >= 2
    PROVE  /\ Within(t) \in Text /\ Len(Within(t)) < Len(t)
           /\ Len(t) \in Nat /\ Len(Within(t)) \in Nat
  <1>1. Span(t, 2, Len(t) - 1) /\ Len(t) \in Nat
    BY TextFacts DEF Span
  <1>2. Piece(t, 2, Len(t) - 1) \in Text /\ Len(Piece(t, 2, Len(t) - 1)) = Len(t) - 1 - 2 + 1
    BY <1>1, PieceFacts
  <1>3. Within(t) = Piece(t, 2, Len(t) - 1)
    BY DEF Within, Piece
  <1> QED
    BY <1>1, <1>2, <1>3

-----------------------------------------------------------------------------
(* The function Means exists: what a text means depends on what texts of a *)
(* lower rank mean.  A tower holds the functions that come of n steps.     *)
Requests == Kinds \X Text
Rank(x) == 2 * Len(x[2]) + (IF x[1] \in {"characters", "value"} THEN 0 ELSE 1)
Agree(f, g, n) == \A y \in Requests : Rank(y) < n => f[y] = g[y]

(* Ranks are natural numbers.                                              *)
LEMMA RankFacts ==
    ASSUME NEW x \in Requests
    PROVE  Rank(x) \in Nat /\ x[1] \in Kinds /\ x[2] \in Text
  <1>1. x[1] \in Kinds /\ x[2] \in Text
    BY DEF Requests
  <1>2. Len(x[2]) \in Nat
    BY <1>1, TextFacts
  <1> QED
    <2> DEFINE n == Len(x[2])
               k == IF x[1] \in {"characters", "value"} THEN 0 ELSE 1
    <2>1. k \in Nat /\ n \in Nat
      BY <1>2
    <2> HIDE DEF n, k
    <2>2. 2 * n + k \in Nat
      BY <2>1
    <2> QED
      BY <1>1, <2>2 DEF Rank, n, k

(* Functions that agree below a rank agree on shorter texts.               *)
LEMMA ShorterAgree ==
    ASSUME NEW n \in Nat, NEW t \in Text, Len(t) < n, NEW f, NEW g, Agree(f, g, 2 * n)
    PROVE  \A kind \in Kinds : f[<< kind, t >>] = g[<< kind, t >>]
  <1> TAKE kind \in Kinds
  <1> DEFINE y == << kind, t >>
  <1>1. y \in Requests /\ y[1] = kind /\ y[2] = t
    BY DEF Requests
  <1> HIDE DEF y
  <1>2. Len(t) \in Nat
    BY TextFacts
  <1>3. Rank(y) < 2 * n
    BY <1>1, <1>2 DEF Rank
  <1> QED
    BY <1>1, <1>3 DEF Agree, y

LEMMA KindFacts ==
    /\ "characters" \in Kinds /\ "value" \in Kinds
    /\ "elements" \in Kinds /\ "members" \in Kinds
  BY DEF Kinds

(* What belongs to a meaning, with the quantifiers in place of the sets. *)
CharactersFrom(t, f, w) ==
    \E p \in Parts(t) : /\ Len(p[1]) \in 1 .. 12
                        /\ \E u \in UnitMeans(p[1]) : \E r \in f[<< "characters", p[2] >>] :
                              w = u \o r

(* CharactersMean, read as such a formula.                                 *)
LEMMA CharactersIn ==
    ASSUME NEW t, t # << >>, NEW f, NEW w
    PROVE  w \in CharactersMean(t, f) <=> CharactersFrom(t, f, w)
  <1> DEFINE X(p) == {u \o r : u \in UnitMeans(p[1]), r \in f[<< "characters", p[2] >>]}
             S == {p \in Parts(t) : Len(p[1]) \in 1 .. 12 /\ UnitMeans(p[1]) # {}}
  <1>1. \A p : w \in X(p) <=> \E u \in UnitMeans(p[1]) :
                              \E r \in f[<< "characters", p[2] >>] : w = u \o r
    OBVIOUS
  <1>2. CharactersMean(t, f) = UNION {X(p) : p \in S}
    BY DEF CharactersMean
  <1>3. \A p : p \in S <=> p \in Parts(t) /\ Len(p[1]) \in 1 .. 12 /\ UnitMeans(p[1]) # {}
    OBVIOUS
  <1> HIDE DEF X, S
  <1>4. w \in UNION {X(p) : p \in S} <=> \E p \in S : w \in X(p)
    OBVIOUS
  <1> QED
    BY <1>1, <1>2, <1>3, <1>4, Zenon DEF CharactersFrom

ElementsFrom(t, f, e) ==
    \/ \E v \in f[<< "value", t >>] : e = << v >>
    \/ \E p \in Around(t, Comma) : \E v \in f[<< "value", p[1] >>] :
       \E r \in f[<< "elements", p[2] >>] : e = << v >> \o r

(* ElementsMean, read as such a formula.                                   *)
LEMMA ElementsIn ==
    ASSUME NEW t, NEW f, NEW e
    PROVE  e \in ElementsMean(t, f) <=> ElementsFrom(t, f, e)
  <1> DEFINE X(p) == {<< v >> \o r : v \in f[<< "value", p[1] >>],
                                    r \in f[<< "elements", p[2] >>]}
             A == {<< v >> : v \in f[<< "value", t >>]}
  <1>1. \A p : e \in X(p) <=> \E v \in f[<< "value", p[1] >>] :
                              \E r \in f[<< "elements", p[2] >>] : e = << v >> \o r
    OBVIOUS
  <1>2. ElementsMean(t, f) = A \cup UNION {X(p) : p \in Around(t, Comma)}
    BY DEF ElementsMean
  <1>3. e \in A <=> \E v \in f[<< "value", t >>] : e = << v >>
    OBVIOUS
  <1> HIDE DEF X, A
  <1>4. e \in A \cup UNION {X(p) : p \in Around(t, Comma)} <=>
          e \in A \/ \E p \in Around(t, Comma) : e \in X(p)
    OBVIOUS
  <1> QED
    BY <1>1, <1>2, <1>3, <1>4, Zenon DEF ElementsFrom

MemberFrom(t, f, m) ==
    \E p \in Around(t, Colon) : \E k \in StringMeans(Trimmed(p[1]), f) :
    \E v \in f[<< "value", p[2] >>] : m = [key |-> k, value |-> v]

(* MemberMeans, read as such a formula.                                    *)
LEMMA MemberIn ==
    ASSUME NEW t, NEW f, NEW m
    PROVE  m \in MemberMeans(t, f) <=> MemberFrom(t, f, m)
  BY DEF MemberMeans, MemberFrom

MembersFrom(t, f, e) ==
    \/ \E m \in MemberMeans(t, f) : e = << m >>
    \/ \E p \in Around(t, Comma) : \E m \in MemberMeans(p[1], f) :
       \E r \in f[<< "members", p[2] >>] : e = << m >> \o r

(* MembersMean, read as such a formula.                                    *)
LEMMA MembersIn ==
    ASSUME NEW t, NEW f, NEW e
    PROVE  e \in MembersMean(t, f) <=> MembersFrom(t, f, e)
  <1> DEFINE X(p) == {<< m >> \o r : m \in MemberMeans(p[1], f),
                                    r \in f[<< "members", p[2] >>]}
             A == {<< m >> : m \in MemberMeans(t, f)}
  <1>1. \A p : e \in X(p) <=> \E m \in MemberMeans(p[1], f) :
                              \E r \in f[<< "members", p[2] >>] : e = << m >> \o r
    OBVIOUS
  <1>2. MembersMean(t, f) = A \cup UNION {X(p) : p \in Around(t, Comma)}
    BY DEF MembersMean
  <1>3. e \in A <=> \E m \in MemberMeans(t, f) : e = << m >>
    OBVIOUS
  <1> HIDE DEF X, A
  <1>4. e \in A \cup UNION {X(p) : p \in Around(t, Comma)} <=>
          e \in A \/ \E p \in Around(t, Comma) : e \in X(p)
    OBVIOUS
  <1> QED
    BY <1>1, <1>2, <1>3, <1>4, Zenon DEF MembersFrom

(* What a text means as characters depends on lower ranks only; then the   *)
(* same of elements, strings, members and values.                          *)
LEMMA CharactersLocal ==
    ASSUME NEW t \in Text, NEW f, NEW g, Agree(f, g, 2 * Len(t))
    PROVE  CharactersMean(t, f) = CharactersMean(t, g)
  <1>1. ASSUME NEW p \in Parts(t), Len(p[1]) \in 1 .. 12
        PROVE  f[<< "characters", p[2] >>] = g[<< "characters", p[2] >>]
    <2>0. /\ p[2] \in Text /\ Len(p[1]) \in Nat /\ Len(p[2]) \in Nat /\ Len(t) \in Nat
          /\ Len(p[1]) + Len(p[2]) = Len(t)
      BY PartFacts
    <2> DEFINE a == Len(p[1])
               b == Len(p[2])
               n == Len(t)
    <2>2. a \in 1 .. 12 /\ b \in Nat /\ n \in Nat /\ a + b = n
      BY <1>1, <2>0
    <2> HIDE DEF a, b, n
    <2>3. b < n
      BY <2>2
    <2>1. p[2] \in Text /\ Len(p[2]) < Len(t) /\ Len(t) \in Nat
      BY <2>0, <2>3 DEF b, n
    <2> QED
      BY <2>1, ShorterAgree, KindFacts
  <1>2. CASE t = << >>
    BY <1>2 DEF CharactersMean
  <1>3. CASE t # << >>
    <2>1. \A w : CharactersFrom(t, f, w) <=> CharactersFrom(t, g, w)
      BY <1>1, Zenon DEF CharactersFrom
    <2>2. \A w : w \in CharactersMean(t, f) <=> w \in CharactersMean(t, g)
      BY <1>3, <2>1, CharactersIn, Zenon
    <2> QED
      BY <2>2
  <1> QED
    BY <1>2, <1>3

LEMMA AroundAgree ==
    ASSUME NEW t \in Text, NEW byte, NEW p \in Around(t, byte), NEW f, NEW g,
           Agree(f, g, 2 * Len(t))
    PROVE  \A kind \in Kinds : /\ f[<< kind, p[1] >>] = g[<< kind, p[1] >>]
                               /\ f[<< kind, p[2] >>] = g[<< kind, p[2] >>]
  <1>1. /\ p[1] \in Text /\ p[2] \in Text /\ Len(t) \in Nat
        /\ Len(p[1]) < Len(t) /\ Len(p[2]) < Len(t)
    BY AroundFacts
  <1> QED
    BY <1>1, ShorterAgree

LEMMA ElementsLocal ==
    ASSUME NEW t \in Text, NEW f, NEW g, Agree(f, g, 2 * Len(t) + 1)
    PROVE  ElementsMean(t, f) = ElementsMean(t, g)
  <1>1. f[<< "value", t >>] = g[<< "value", t >>]
    <2> DEFINE y == << "value", t >>
    <2>1. y \in Requests /\ y[1] = "value" /\ y[2] = t
      BY KindFacts DEF Requests
    <2> HIDE DEF y
    <2>2. Len(t) \in Nat
      BY TextFacts
    <2>3. Rank(y) < 2 * Len(t) + 1
      BY <2>1, <2>2 DEF Rank
    <2> QED
      BY <2>1, <2>3 DEF Agree, y
  <1>2. Agree(f, g, 2 * Len(t))
    <2>1. Len(t) \in Nat
      BY TextFacts
    <2> QED
      BY <2>1, RankFacts DEF Agree
  <1>3. ASSUME NEW p \in Around(t, Comma)
        PROVE  /\ f[<< "value", p[1] >>] = g[<< "value", p[1] >>]
               /\ f[<< "elements", p[2] >>] = g[<< "elements", p[2] >>]
    <2>1. \A kind \in Kinds : /\ f[<< kind, p[1] >>] = g[<< kind, p[1] >>]
                             /\ f[<< kind, p[2] >>] = g[<< kind, p[2] >>]
      BY <1>2, AroundAgree
    <2> QED
      BY <2>1, KindFacts, Zenon
  <1>4. \A e : ElementsFrom(t, f, e) <=> ElementsFrom(t, g, e)
    BY <1>1, <1>3, Zenon DEF ElementsFrom
  <1>5. \A e : e \in ElementsMean(t, f) <=> e \in ElementsMean(t, g)
    BY <1>4, ElementsIn, Zenon
  <1> QED
    BY <1>5

LEMMA StringLocal ==
    ASSUME NEW t \in Text, NEW n \in Nat, Len(t) <= n, NEW f, NEW g, Agree(f, g, 2 * n)
    PROVE  StringMeans(t, f) = StringMeans(t, g)
  <1>1. CASE Between(t, Quote, Quote)
    <2>1. /\ Within(t) \in Text /\ Len(Within(t)) < Len(t)
          /\ Len(t) \in Nat /\ Len(Within(t)) \in Nat
      BY <1>1, WithinFacts DEF Between
    <2>2. Len(Within(t)) < n
      BY <2>1
    <2>3. f[<< "characters", Within(t) >>] = g[<< "characters", Within(t) >>]
      BY <2>1, <2>2, ShorterAgree, KindFacts
    <2> QED
      BY <2>3, Zenon DEF StringMeans
  <1>2. CASE ~Between(t, Quote, Quote)
    BY <1>2 DEF StringMeans
  <1> QED
    BY <1>1, <1>2

LEMMA MemberLocal ==
    ASSUME NEW t \in Text, NEW n \in Nat, Len(t) <= n, NEW f, NEW g, Agree(f, g, 2 * n)
    PROVE  MemberMeans(t, f) = MemberMeans(t, g)
  <1>1. ASSUME NEW p \in Around(t, Colon)
        PROVE  /\ StringMeans(Trimmed(p[1]), f) = StringMeans(Trimmed(p[1]), g)
               /\ f[<< "value", p[2] >>] = g[<< "value", p[2] >>]
    <2>1. /\ p[1] \in Text /\ p[2] \in Text /\ Len(t) \in Nat
          /\ Len(p[1]) \in Nat /\ Len(p[2]) \in Nat
          /\ Len(p[1]) < Len(t) /\ Len(p[2]) < Len(t)
      BY AroundFacts
    <2>2. Trimmed(p[1]) \in Text /\ Len(Trimmed(p[1])) <= Len(p[1])
      BY <2>1, TrimmedFacts
    <2>3. Len(Trimmed(p[1])) <= n /\ Len(p[2]) < n
      BY <2>1, <2>2, TextFacts
    <2> QED
      BY <2>1, <2>2, <2>3, StringLocal, ShorterAgree, KindFacts
  <1>2. \A m : MemberFrom(t, f, m) <=> MemberFrom(t, g, m)
    BY <1>1, Zenon DEF MemberFrom
  <1>3. \A m : m \in MemberMeans(t, f) <=> m \in MemberMeans(t, g)
    BY <1>2, MemberIn, Zenon
  <1> QED
    BY <1>3

LEMMA MembersLocal ==
    ASSUME NEW t \in Text, NEW f, NEW g, Agree(f, g, 2 * Len(t))
    PROVE  MembersMean(t, f) = MembersMean(t, g)
  <1>1. MemberMeans(t, f) = MemberMeans(t, g)
    BY MemberLocal, TextFacts
  <1>2. ASSUME NEW p \in Around(t, Comma)
        PROVE  /\ MemberMeans(p[1], f) = MemberMeans(p[1], g)
               /\ f[<< "members", p[2] >>] = g[<< "members", p[2] >>]
    <2>1. p[1] \in Text /\ Len(p[1]) <= Len(t) /\ Len(t) \in Nat
      BY AroundFacts
    <2>2. MemberMeans(p[1], f) = MemberMeans(p[1], g)
      BY <2>1, MemberLocal
    <2>3. \A kind \in Kinds : /\ f[<< kind, p[1] >>] = g[<< kind, p[1] >>]
                             /\ f[<< kind, p[2] >>] = g[<< kind, p[2] >>]
      BY AroundAgree
    <2> QED
      BY <2>2, <2>3, KindFacts, Zenon
  <1>3. \A e : MembersFrom(t, f, e) <=> MembersFrom(t, g, e)
    BY <1>1, <1>2, Zenon DEF MembersFrom
  <1>4. \A e : e \in MembersMean(t, f) <=> e \in MembersMean(t, g)
    BY <1>3, MembersIn, Zenon
  <1> QED
    BY <1>4

LEMMA ValueLocal ==
    ASSUME NEW t \in Text, NEW n \in Nat, Len(t) <= n, NEW f, NEW g, Agree(f, g, 2 * n)
    PROVE  ValueMeans(t, f) = ValueMeans(t, g)
  <1>1. StringMeans(t, f) = StringMeans(t, g)
    BY StringLocal
  <1>2. ASSUME Len(t) >= 2
        PROVE  /\ f[<< "elements", Within(t) >>] = g[<< "elements", Within(t) >>]
               /\ f[<< "members", Within(t) >>] = g[<< "members", Within(t) >>]
    <2>1. /\ Within(t) \in Text /\ Len(Within(t)) < Len(t)
          /\ Len(t) \in Nat /\ Len(Within(t)) \in Nat
      BY <1>2, WithinFacts
    <2>2. Len(Within(t)) < n
      BY <2>1
    <2> QED
      BY <2>1, <2>2, ShorterAgree, KindFacts
  <1>3. (IF Between(t, OpenBracket, CloseBracket)
         THEN Collection(t, "ARRAY", f[<< "elements", Within(t) >>]) ELSE {})
      = (IF Between(t, OpenBracket, CloseBracket)
         THEN Collection(t, "ARRAY", g[<< "elements", Within(t) >>]) ELSE {})
    BY <1>2, Zenon DEF Between
  <1>4. (IF Between(t, OpenBrace, CloseBrace)
         THEN Collection(t, "OBJECT", f[<< "members", Within(t) >>]) ELSE {})
      = (IF Between(t, OpenBrace, CloseBrace)
         THEN Collection(t, "OBJECT", g[<< "members", Within(t) >>]) ELSE {})
    BY <1>2, Zenon DEF Between
  <1> QED
    BY <1>1, <1>3, <1>4, Zenon DEF ValueMeans

Step(x, f) == Meaning(x[1], x[2], f)

(* So two functions that agree on lower ranks give a text the same         *)
(* meaning.                                                                *)
LEMMA MeaningLocal ==
    ASSUME NEW x \in Requests, NEW f, NEW g, Agree(f, g, Rank(x))
    PROVE  Step(x, f) = Step(x, g)
  <1> DEFINE t == x[2]
  <1>1. t \in Text /\ x[1] \in Kinds /\ Len(t) \in Nat /\ Len(t) <= Len(t)
    BY RankFacts, TextFacts
  <1>2. Agree(f, g, 2 * Len(t))
    <2>1. 2 * Len(t) <= Rank(x) /\ 2 * Len(t) \in Nat /\ Rank(x) \in Nat
      <3> DEFINE k == IF x[1] \in {"characters", "value"} THEN 0 ELSE 1
                 n == Len(t)
      <3>1. k \in Nat /\ n \in Nat /\ Rank(x) = 2 * n + k
        BY <1>1 DEF Rank
      <3> HIDE DEF n, k
      <3>2. 2 * n <= 2 * n + k /\ 2 * n \in Nat /\ 2 * n + k \in Nat
        BY <3>1
      <3> QED
        BY <3>1, <3>2 DEF n
    <2> HIDE DEF t
    <2> QED
      BY <2>1, RankFacts DEF Agree
  <1> HIDE DEF t
  <1>3. CASE x[1] = "characters"
    BY <1>1, <1>2, <1>3, CharactersLocal DEF Step, Meaning, t
  <1>4. CASE x[1] = "value"
    <2>1. Trimmed(t) \in Text /\ Len(Trimmed(t)) <= Len(t)
      BY <1>1, TrimmedFacts
    <2>2. ValueMeans(Trimmed(t), f) = ValueMeans(Trimmed(t), g)
      BY <1>1, <1>2, <2>1, ValueLocal
    <2> QED
      BY <1>4, <2>2 DEF Step, Meaning, t
  <1>5. CASE x[1] = "elements"
    <2>1. Agree(f, g, 2 * Len(t) + 1)
      BY <1>5 DEF Rank, t
    <2>2. ElementsMean(t, f) = ElementsMean(t, g)
      BY <1>1, <2>1, ElementsLocal
    <2> QED
      BY <1>5, <2>2 DEF Step, Meaning, t
  <1>6. CASE x[1] = "members"
    <2>1. MembersMean(t, f) = MembersMean(t, g)
      BY <1>1, <1>2, MembersLocal
    <2> QED
      BY <1>6, <2>1 DEF Step, Meaning, t
  <1> QED
    BY <1>1, <1>3, <1>4, <1>5, <1>6 DEF Kinds

Tower(n, h) == \A i \in 1 .. n : h[i] = [x \in Requests |-> Step(x, h[i - 1])]

(* There is a tower of every height.                                       *)
LEMMA TowerRises ==
    ASSUME NEW n \in Nat
    PROVE  \E h : Tower(n, h)
  <1> DEFINE S == {k \in Nat : \E h : Tower(k, h)}
  <1>1. 0 \in S
    BY DEF Tower
  <1>2. ASSUME NEW k \in Nat, k \in S
        PROVE  k + 1 \in S
    <2>1. PICK h : Tower(k, h)
      BY <1>2
    <2> DEFINE top == [x \in Requests |-> Step(x, h[k])]
               g == [i \in 0 .. k + 1 |-> IF i = k + 1 THEN top ELSE h[i]]
    <2> HIDE DEF top
    <2>2. ASSUME NEW i \in 1 .. k
          PROVE  g[i] = h[i] /\ g[i - 1] = h[i - 1]
      OBVIOUS
    <2>3. g[k + 1] = top /\ g[(k + 1) - 1] = h[k]
      OBVIOUS
    <2> HIDE DEF g
    <2>4. ASSUME NEW i \in 1 .. k
          PROVE  g[i] = [x \in Requests |-> Step(x, g[i - 1])]
      BY <2>1, <2>2, Zenon DEF Tower
    <2>5. g[k + 1] = [x \in Requests |-> Step(x, g[(k + 1) - 1])]
      BY <2>3, Zenon DEF top
    <2>6. \A i \in 1 .. k + 1 : i \in 1 .. k \/ i = k + 1
      OBVIOUS
    <2>7. Tower(k + 1, g)
      BY <2>4, <2>5, <2>6, Zenon DEF Tower
    <2> QED
      BY <2>7
  <1> HIDE DEF S
  <1>3. Nat \subseteq S
    BY <1>1, <1>2, Induct
  <1> QED
    BY <1>3 DEF S

Settled(k) ==
    \A c, d \in Nat : \A u, w :
        k <= c /\ k <= d /\ Tower(c, u) /\ Tower(d, w) => Agree(u[c], w[d], k)

(* From the step of its rank on, a text keeps its meaning.                 *)
LEMMA TowerSettles ==
    ASSUME NEW n \in Nat
    PROVE  Settled(n)
  <1> DEFINE S == {k \in Nat : Settled(k)}
  <1>1. 0 \in S
    <2>1. Settled(0)
      BY RankFacts DEF Settled, Agree
    <2> QED
      BY <2>1
  <1>2. ASSUME NEW k \in Nat, k \in S
        PROVE  k + 1 \in S
    <2>1. ASSUME NEW c \in Nat, NEW d \in Nat, NEW u, NEW w, k + 1 <= c, k + 1 <= d,
                 Tower(c, u), Tower(d, w), NEW y \in Requests, Rank(y) < k + 1
          PROVE  u[c][y] = w[d][y]
      <3>1. /\ c \in 1 .. c /\ d \in 1 .. d /\ c - 1 \in Nat /\ d - 1 \in Nat
            /\ k <= c - 1 /\ k <= d - 1
        BY <2>1
      <3>2. Tower(c - 1, u) /\ Tower(d - 1, w)
        BY <2>1, <3>1 DEF Tower
      <3>3. Agree(u[c - 1], w[d - 1], k)
        <4>1. Settled(k)
          BY <1>2
        <4> QED
          BY <3>1, <3>2, <4>1, Zenon DEF Settled
      <3>4. Agree(u[c - 1], w[d - 1], Rank(y))
        <4>1. \A z \in Requests : Rank(z) < Rank(y) => Rank(z) < k
          BY <2>1, RankFacts
        <4> QED
          BY <3>3, <4>1, Zenon DEF Agree
      <3>5. Step(y, u[c - 1]) = Step(y, w[d - 1])
        BY <3>4, MeaningLocal
      <3>6. u[c] = [x \in Requests |-> Step(x, u[c - 1])]
        BY <2>1, <3>1, Zenon DEF Tower
      <3>7. w[d] = [x \in Requests |-> Step(x, w[d - 1])]
        BY <2>1, <3>1, Zenon DEF Tower
      <3> QED
        BY <3>5, <3>6, <3>7, ZenonT(40)
    <2>2. Settled(k + 1)
      <3> SUFFICES ASSUME NEW c \in Nat, NEW d \in Nat, NEW u, NEW w, k + 1 <= c, k + 1 <= d,
                          Tower(c, u), Tower(d, w)
                   PROVE  Agree(u[c], w[d], k + 1)
        BY Zenon DEF Settled
      <3>1. \A y \in Requests : Rank(y) < k + 1 => u[c][y] = w[d][y]
        BY <2>1
      <3> QED
        BY <3>1, Zenon DEF Agree
    <2> QED
      BY <2>2
  <1> HIDE DEF S
  <1>3. Nat \subseteq S
    BY <1>1, <1>2, Induct
  <1> QED
    BY <1>3 DEF S

(* Hence a function as Means is defined to be: the meanings that have      *)
(* settled.                                                                *)
LEMMA MeansExists ==
    \E f : f = [x \in Requests |-> Step(x, f)]
  <1> DEFINE tower(x) == CHOOSE h : Tower(Rank(x) + 1, h)
             f == [x \in Requests |-> tower(x)[Rank(x) + 1][x]]
  <1>0. \A x \in Requests : /\ Rank(x) \in Nat /\ Rank(x) + 1 \in Nat
                            /\ (Rank(x) + 1) - 1 = Rank(x)
    BY RankFacts
  <1>1. ASSUME NEW x \in Requests
        PROVE  Tower(Rank(x) + 1, tower(x))
    BY <1>0, TowerRises, Zenon
  <1> HIDE DEF tower
  <1>2. ASSUME NEW x \in Requests
        PROVE  f[x] = Step(x, f)
    <2>1. f[x] = Step(x, tower(x)[Rank(x)])
      <3>1. Rank(x) + 1 \in 1 .. Rank(x) + 1
        BY <1>0
      <3>2. tower(x)[Rank(x) + 1]
              = [y \in Requests |-> Step(y, tower(x)[(Rank(x) + 1) - 1])]
        BY <1>1, <3>1, Zenon DEF Tower
      <3> QED
        BY <1>0, <3>2, Zenon
    <2>2. ASSUME NEW y \in Requests, Rank(y) < Rank(x)
          PROVE  tower(x)[Rank(x)][y] = f[y]
      <3>1. Tower(Rank(x), tower(x))
        <4>1. \A i \in 1 .. Rank(x) : i \in 1 .. Rank(x) + 1
          BY <1>0
        <4> QED
          BY <1>1, <4>1, Zenon DEF Tower
      <3>2. Rank(y) + 1 <= Rank(x) /\ Rank(y) < Rank(y) + 1 /\ Rank(y) + 1 <= Rank(y) + 1
        BY <1>0, <2>2
      <3>3. Tower(Rank(y) + 1, tower(y))
        BY <1>1
      <3>4. Rank(x) \in Nat /\ Rank(y) + 1 \in Nat
        BY <1>0
      <3>5. Settled(Rank(y) + 1)
        BY <3>4, TowerSettles
      <3>6. Agree(tower(x)[Rank(x)], tower(y)[Rank(y) + 1], Rank(y) + 1)
        BY <3>1, <3>2, <3>3, <3>4, <3>5, Zenon DEF Settled
      <3>7. tower(x)[Rank(x)][y] = tower(y)[Rank(y) + 1][y]
        BY <3>2, <3>6, Zenon DEF Agree
      <3> QED
        BY <3>7, Zenon
    <2> HIDE DEF f
    <2>3. Step(x, tower(x)[Rank(x)]) = Step(x, f)
      <3>1. Agree(tower(x)[Rank(x)], f, Rank(x))
        BY <2>2, Zenon DEF Agree
      <3> QED
        BY <3>1, MeaningLocal
    <2> QED
      BY <2>1, <2>3, Zenon
  <1>3. f = [x \in Requests |-> Step(x, f)]
    <2>1. f = [x \in Requests |-> f[x]]
      OBVIOUS
    <2> HIDE DEF f
    <2>2. [x \in Requests |-> f[x]] = [x \in Requests |-> Step(x, f)]
      BY <1>2, Zenon
    <2> QED
      BY <2>1, <2>2, Zenon
  <1> HIDE DEF f
  <1> QED
    BY <1>3

(* Every text means what its definition says: the recursive definition of  *)
(* Means is a function, so the grammar gives every text, however long, a   *)
(* meaning.                                                                *)
THEOREM MeansIs ==
    ASSUME NEW kind \in Kinds, NEW t \in Text
    PROVE  Means[<< kind, t >>] = Meaning(kind, t, Means)
  <1>1. Means = [x \in Kinds \X Text |-> Meaning(x[1], x[2], Means)]
    BY MeansExists, Zenon DEF Means, Step, Requests
  <1> DEFINE y == << kind, t >>
  <1>2. y \in Kinds \X Text /\ y[1] = kind /\ y[2] = t
    OBVIOUS
  <1> HIDE DEF y
  <1>3. Means[y] = Meaning(y[1], y[2], Means)
    BY <1>1, <1>2, Zenon
  <1> QED
    BY <1>2, <1>3, Zenon DEF y

-----------------------------------------------------------------------------
(***************************************************************************)
(* Part 2.  What a piece of a text means                                   *)
(***************************************************************************)

(* What a piece of a text means. *)
MeansChars(t, i, j, w) == w \in Means[<< "characters", Piece(t, i, j) >>]
MeansValue(t, i, j, v) == v \in Means[<< "value", Piece(t, i, j) >>]
MeansElements(t, i, j, e) == e \in Means[<< "elements", Piece(t, i, j) >>]
MeansMembers(t, i, j, e) == e \in Means[<< "members", Piece(t, i, j) >>]
MeansMember(t, i, j, m) == m \in MemberMeans(Piece(t, i, j), Means)
MeansKey(t, i, j, k) == k \in StringMeans(Trimmed(Piece(t, i, j)), Means)

(* A piece of a piece, by its places in the text. *)
LEMMA PieceWithin ==
    ASSUME NEW t \in Text, NEW i, NEW j, Span(t, i, j)
    PROVE  \A k, l : Span(Piece(t, i, j), k, l) =>
             SubSeq(Piece(t, i, j), k, l) = Piece(t, i + k - 1, i + l - 1)
  BY PieceOfPiece

LEMMA SubSpan ==
    ASSUME NEW t \in Text, NEW i, NEW j, Span(t, i, j), NEW k \in i .. j
    PROVE  /\ Span(t, i, k - 1) /\ Span(t, k + 1, j) /\ Span(t, i, k) /\ Span(t, k, j)
           /\ k \in 1 .. Len(t) /\ k \in Nat
  BY PieceFacts, TextFacts DEF Span

LEMMA AroundPiece ==
    ASSUME NEW t \in Text, NEW i, NEW j, Span(t, i, j), NEW byte, NEW p
    PROVE  p \in Around(Piece(t, i, j), byte) <=>
             \E k \in i .. j : /\ t[k] = byte
                               /\ p = << Piece(t, i, k - 1), Piece(t, k + 1, j) >>
  <1> DEFINE u == Piece(t, i, j)
             n == j - i + 1
  <1>1. /\ u \in Text /\ Len(u) = n /\ DOMAIN u = 1 .. n
        /\ \A m \in 1 .. n : u[m] = t[i + m - 1]
        /\ i \in Nat /\ i >= 1 /\ j \in Nat /\ i <= j + 1 /\ j <= Len(t)
    BY PieceFacts
  <1> HIDE DEF u
  <1>2. ASSUME NEW m \in 1 .. n, NEW k, k = i + m - 1
        PROVE  /\ SubSeq(u, 1, m - 1) = Piece(t, i, k - 1)
               /\ SubSeq(u, m + 1, Len(u)) = Piece(t, k + 1, j)
    <2>1. Span(u, 1, m - 1) /\ Span(u, m + 1, Len(u)) /\ u = Piece(t, i, j)
      BY <1>1 DEF Span, u
    <2>2. i = i + 1 - 1 /\ k - 1 = i + (m - 1) - 1
      BY <1>1, <1>2
    <2>3. k + 1 = i + (m + 1) - 1 /\ j = i + Len(u) - 1
      BY <1>1, <1>2
    <2>3a. \A k_1, l : Span(u, k_1, l) => SubSeq(u, k_1, l) = Piece(t, i + k_1 - 1, i + l - 1)
      BY <2>1, PieceWithin
    <2>4. SubSeq(u, 1, m - 1) = Piece(t, i, k - 1)
      <3>1. SubSeq(u, 1, m - 1) = Piece(t, i + 1 - 1, i + (m - 1) - 1)
        BY <2>1, <2>3a, Zenon
      <3> QED
        BY <2>2, <3>1
    <2>5. SubSeq(u, m + 1, Len(u)) = Piece(t, k + 1, j)
      <3>1. SubSeq(u, m + 1, Len(u)) = Piece(t, i + (m + 1) - 1, i + Len(u) - 1)
        BY <2>1, <2>3a, Zenon
      <3> QED
        BY <2>3, <3>1
    <2> QED
      BY <2>4, <2>5
  <1>3. ASSUME NEW m \in 1 .. n, u[m] = byte,
               p = << SubSeq(u, 1, m - 1), SubSeq(u, m + 1, Len(u)) >>
        PROVE  \E k \in i .. j : t[k] = byte /\ p = << Piece(t, i, k - 1), Piece(t, k + 1, j) >>
    <2> DEFINE k == i + m - 1
    <2>1. k \in i .. j /\ t[k] = byte
      BY <1>1, <1>3
    <2>2. /\ SubSeq(u, 1, m - 1) = Piece(t, i, k - 1)
          /\ SubSeq(u, m + 1, Len(u)) = Piece(t, k + 1, j)
      BY <1>2, Zenon
    <2> HIDE DEF k
    <2> QED
      BY <1>3, <2>1, <2>2, Zenon
  <1>4. ASSUME NEW k \in i .. j, t[k] = byte,
               p = << Piece(t, i, k - 1), Piece(t, k + 1, j) >>
        PROVE  \E m \in DOMAIN u : /\ u[m] = byte
                     /\ p = << SubSeq(u, 1, m - 1), SubSeq(u, m + 1, Len(u)) >>
    <2> DEFINE m == k - i + 1
    <2>1. m \in 1 .. n /\ i + m - 1 = k
      BY <1>1
    <2> HIDE DEF m
    <2>2. u[m] = byte
      BY <1>1, <1>4, <2>1
    <2>3. /\ SubSeq(u, 1, m - 1) = Piece(t, i, k - 1)
          /\ SubSeq(u, m + 1, Len(u)) = Piece(t, k + 1, j)
      BY <1>2, <2>1, Zenon
    <2> QED
      BY <1>1, <1>4, <2>1, <2>2, <2>3, Zenon
  <1>5. p \in Around(u, byte) <=>
          \E m \in DOMAIN u : /\ u[m] = byte
                     /\ p = << SubSeq(u, 1, m - 1), SubSeq(u, m + 1, Len(u)) >>
    BY DEF Around
  <1>6. p \in Around(u, byte) <=>
          \E k \in i .. j : t[k] = byte /\ p = << Piece(t, i, k - 1), Piece(t, k + 1, j) >>
    BY <1>1, <1>3, <1>4, <1>5, Zenon
  <1> QED
    BY <1>6 DEF u

(* To divide a piece at a byte is to choose the place of the byte. *)
LEMMA Divided ==
    ASSUME NEW t \in Text, NEW i, NEW j, Span(t, i, j), NEW byte
    PROVE  /\ \A p \in Around(Piece(t, i, j), byte) : \E k \in i .. j :
                t[k] = byte /\ p[1] = Piece(t, i, k - 1) /\ p[2] = Piece(t, k + 1, j)
           /\ \A k \in i .. j : t[k] = byte => \E p \in Around(Piece(t, i, j), byte) :
                p[1] = Piece(t, i, k - 1) /\ p[2] = Piece(t, k + 1, j)
  <1>1. ASSUME NEW p \in Around(Piece(t, i, j), byte)
        PROVE  \E k \in i .. j :
                t[k] = byte /\ p[1] = Piece(t, i, k - 1) /\ p[2] = Piece(t, k + 1, j)
    <2>1. PICK k \in i .. j : t[k] = byte /\ p = << Piece(t, i, k - 1), Piece(t, k + 1, j) >>
      BY AroundPiece
    <2>2. p[1] = Piece(t, i, k - 1) /\ p[2] = Piece(t, k + 1, j)
      BY <2>1
    <2> QED
      BY <2>1, <2>2, Zenon
  <1>2. ASSUME NEW k \in i .. j, t[k] = byte
        PROVE  \E p \in Around(Piece(t, i, j), byte) :
                p[1] = Piece(t, i, k - 1) /\ p[2] = Piece(t, k + 1, j)
    <2> DEFINE p == << Piece(t, i, k - 1), Piece(t, k + 1, j) >>
    <2>1. p \in Around(Piece(t, i, j), byte)
      BY <1>2, AroundPiece, Zenon
    <2>2. p[1] = Piece(t, i, k - 1) /\ p[2] = Piece(t, k + 1, j)
      OBVIOUS
    <2> HIDE DEF p
    <2> QED
      BY <2>1, <2>2, Zenon
  <1> QED
    BY <1>1, <1>2, Zenon

OneElement(t, i, j, e) == \E v : MeansValue(t, i, j, v) /\ e = << v >>
MoreElements(t, i, j, e) ==
    \E k \in i .. j : \E v, r :
       /\ t[k] = Comma /\ MeansValue(t, i, k - 1, v)
       /\ MeansElements(t, k + 1, j, r) /\ e = << v >> \o r

OneMember(t, i, j, e) == \E m : MeansMember(t, i, j, m) /\ e = << m >>
MoreMembers(t, i, j, e) ==
    \E k \in i .. j : \E m, r :
       /\ t[k] = Comma /\ MeansMember(t, i, k - 1, m)
       /\ MeansMembers(t, k + 1, j, r) /\ e = << m >> \o r

(* What a piece means as elements, by places: one value, or a value, a     *)
(* comma and more elements.                                                *)
LEMMA ElementsSpan ==
    ASSUME NEW t \in Text, NEW i, NEW j, Span(t, i, j), NEW e
    PROVE  MeansElements(t, i, j, e) <=> OneElement(t, i, j, e) \/ MoreElements(t, i, j, e)
  <1> DEFINE u == Piece(t, i, j)
  <1>1. MeansElements(t, i, j, e) <=> ElementsFrom(u, Means, e)
    <2>1. u \in Text
      BY PieceFacts
    <2>2. Means[<< "elements", u >>] = ElementsMean(u, Means)
      BY <2>1, MeansIs, KindFacts DEF Meaning
    <2> QED
      BY <2>2, ElementsIn DEF MeansElements
  <1>2. /\ \A p \in Around(u, Comma) : \E k \in i .. j :
              t[k] = Comma /\ p[1] = Piece(t, i, k - 1) /\ p[2] = Piece(t, k + 1, j)
        /\ \A k \in i .. j : t[k] = Comma => \E p \in Around(u, Comma) :
              p[1] = Piece(t, i, k - 1) /\ p[2] = Piece(t, k + 1, j)
    BY Divided
  <1>3. (\E p \in Around(u, Comma) : \E v \in Means[<< "value", p[1] >>] :
            \E r \in Means[<< "elements", p[2] >>] : e = << v >> \o r)
        <=> \E k \in i .. j : \E v, r :
                  /\ t[k] = Comma /\ MeansValue(t, i, k - 1, v)
                  /\ MeansElements(t, k + 1, j, r) /\ e = << v >> \o r
    <2> HIDE DEF u
    <2>1. ASSUME NEW p \in Around(u, Comma), NEW v \in Means[<< "value", p[1] >>],
                 NEW r \in Means[<< "elements", p[2] >>], e = << v >> \o r
          PROVE  \E k \in i .. j : \E v_1, r_1 :
                  /\ t[k] = Comma /\ MeansValue(t, i, k - 1, v_1)
                  /\ MeansElements(t, k + 1, j, r_1) /\ e = << v_1 >> \o r_1
      <3>1. PICK k \in i .. j :
              t[k] = Comma /\ p[1] = Piece(t, i, k - 1) /\ p[2] = Piece(t, k + 1, j)
        BY <1>2
      <3>2. MeansValue(t, i, k - 1, v) /\ MeansElements(t, k + 1, j, r)
        BY <2>1, <3>1 DEF MeansValue, MeansElements
      <3> QED
        BY <2>1, <3>1, <3>2, Zenon
    <2>2. ASSUME NEW k \in i .. j, NEW v, NEW r, t[k] = Comma, MeansValue(t, i, k - 1, v),
                 MeansElements(t, k + 1, j, r), e = << v >> \o r
          PROVE  \E p \in Around(u, Comma) : \E v_1 \in Means[<< "value", p[1] >>] :
                 \E r_1 \in Means[<< "elements", p[2] >>] : e = << v_1 >> \o r_1
      <3>1. PICK p \in Around(u, Comma) :
              p[1] = Piece(t, i, k - 1) /\ p[2] = Piece(t, k + 1, j)
        BY <1>2, <2>2
      <3>2. v \in Means[<< "value", p[1] >>] /\ r \in Means[<< "elements", p[2] >>]
        BY <2>2, <3>1 DEF MeansValue, MeansElements
      <3> QED
        BY <2>2, <3>2, Zenon
    <2> QED
      BY <2>1, <2>2, Zenon
  <1> QED
    BY <1>1, <1>3, Zenon DEF ElementsFrom, MeansValue, OneElement, MoreElements

(* A member: a name, a colon and a value.                                  *)
LEMMA MemberSpan ==
    ASSUME NEW t \in Text, NEW i, NEW j, Span(t, i, j), NEW m
    PROVE  MeansMember(t, i, j, m) <=>
             \E k \in i .. j : \E key, v :
                  /\ t[k] = Colon /\ MeansKey(t, i, k - 1, key)
                  /\ MeansValue(t, k + 1, j, v) /\ m = [key |-> key, value |-> v]
  <1> DEFINE u == Piece(t, i, j)
  <1>1. MeansMember(t, i, j, m) <=> MemberFrom(u, Means, m)
    BY MemberIn DEF MeansMember
  <1>2. /\ \A p \in Around(u, Colon) : \E k \in i .. j :
              t[k] = Colon /\ p[1] = Piece(t, i, k - 1) /\ p[2] = Piece(t, k + 1, j)
        /\ \A k \in i .. j : t[k] = Colon => \E p \in Around(u, Colon) :
              p[1] = Piece(t, i, k - 1) /\ p[2] = Piece(t, k + 1, j)
    BY Divided
  <1> HIDE DEF u
  <1>3. ASSUME MemberFrom(u, Means, m)
        PROVE  \E k \in i .. j : \E key, v :
                  /\ t[k] = Colon /\ MeansKey(t, i, k - 1, key)
                  /\ MeansValue(t, k + 1, j, v) /\ m = [key |-> key, value |-> v]
    <2>1. PICK p \in Around(u, Colon) : \E key \in StringMeans(Trimmed(p[1]), Means) :
               \E v \in Means[<< "value", p[2] >>] : m = [key |-> key, value |-> v]
      BY <1>3 DEF MemberFrom
    <2>2. PICK key \in StringMeans(Trimmed(p[1]), Means), v \in Means[<< "value", p[2] >>] :
               m = [key |-> key, value |-> v]
      BY <2>1, Zenon
    <2>3. PICK k \in i .. j :
              t[k] = Colon /\ p[1] = Piece(t, i, k - 1) /\ p[2] = Piece(t, k + 1, j)
      BY <1>2
    <2>4. MeansKey(t, i, k - 1, key) /\ MeansValue(t, k + 1, j, v)
      BY <2>3 DEF MeansKey, MeansValue
    <2> QED
      BY <2>2, <2>3, <2>4, Zenon
  <1>4. ASSUME NEW k \in i .. j, NEW key, NEW v, t[k] = Colon, MeansKey(t, i, k - 1, key),
               MeansValue(t, k + 1, j, v), m = [key |-> key, value |-> v]
        PROVE  MemberFrom(u, Means, m)
    <2>1. PICK p \in Around(u, Colon) :
              p[1] = Piece(t, i, k - 1) /\ p[2] = Piece(t, k + 1, j)
      BY <1>2, <1>4
    <2>2. key \in StringMeans(Trimmed(p[1]), Means) /\ v \in Means[<< "value", p[2] >>]
      BY <1>4, <2>1 DEF MeansKey, MeansValue
    <2> QED
      BY <1>4, <2>2, Zenon DEF MemberFrom
  <1> QED
    BY <1>1, <1>3, <1>4, Zenon

(* Members: one member, or a member, a comma and more members.             *)
LEMMA MembersSpan ==
    ASSUME NEW t \in Text, NEW i, NEW j, Span(t, i, j), NEW e
    PROVE  MeansMembers(t, i, j, e) <=> OneMember(t, i, j, e) \/ MoreMembers(t, i, j, e)
  <1> DEFINE u == Piece(t, i, j)
  <1>1. MeansMembers(t, i, j, e) <=> MembersFrom(u, Means, e)
    <2>1. u \in Text
      BY PieceFacts
    <2>2. Means[<< "members", u >>] = MembersMean(u, Means)
      BY <2>1, MeansIs, KindFacts DEF Meaning
    <2> QED
      BY <2>2, MembersIn DEF MeansMembers
  <1>2. /\ \A p \in Around(u, Comma) : \E k \in i .. j :
              t[k] = Comma /\ p[1] = Piece(t, i, k - 1) /\ p[2] = Piece(t, k + 1, j)
        /\ \A k \in i .. j : t[k] = Comma => \E p \in Around(u, Comma) :
              p[1] = Piece(t, i, k - 1) /\ p[2] = Piece(t, k + 1, j)
    BY Divided
  <1>3. (\E p \in Around(u, Comma) : \E m \in MemberMeans(p[1], Means) :
            \E r \in Means[<< "members", p[2] >>] : e = << m >> \o r)
        <=> \E k \in i .. j : \E m, r :
                  /\ t[k] = Comma /\ MeansMember(t, i, k - 1, m)
                  /\ MeansMembers(t, k + 1, j, r) /\ e = << m >> \o r
    <2> HIDE DEF u
    <2>1. ASSUME NEW p \in Around(u, Comma), NEW m \in MemberMeans(p[1], Means),
                 NEW r \in Means[<< "members", p[2] >>], e = << m >> \o r
          PROVE  \E k \in i .. j : \E m_1, r_1 :
                  /\ t[k] = Comma /\ MeansMember(t, i, k - 1, m_1)
                  /\ MeansMembers(t, k + 1, j, r_1) /\ e = << m_1 >> \o r_1
      <3>1. PICK k \in i .. j :
              t[k] = Comma /\ p[1] = Piece(t, i, k - 1) /\ p[2] = Piece(t, k + 1, j)
        BY <1>2
      <3>2. MeansMember(t, i, k - 1, m) /\ MeansMembers(t, k + 1, j, r)
        BY <2>1, <3>1 DEF MeansMember, MeansMembers
      <3> QED
        BY <2>1, <3>1, <3>2, Zenon
    <2>2. ASSUME NEW k \in i .. j, NEW m, NEW r, t[k] = Comma, MeansMember(t, i, k - 1, m),
                 MeansMembers(t, k + 1, j, r), e = << m >> \o r
          PROVE  \E p \in Around(u, Comma) : \E m_1 \in MemberMeans(p[1], Means) :
                 \E r_1 \in Means[<< "members", p[2] >>] : e = << m_1 >> \o r_1
      <3>1. PICK p \in Around(u, Comma) :
              p[1] = Piece(t, i, k - 1) /\ p[2] = Piece(t, k + 1, j)
        BY <1>2, <2>2
      <3>2. m \in MemberMeans(p[1], Means) /\ r \in Means[<< "members", p[2] >>]
        BY <2>2, <3>1 DEF MeansMember, MeansMembers
      <3> QED
        BY <2>2, <3>2, Zenon
    <2> QED
      BY <2>1, <2>2, Zenon
  <1> QED
    BY <1>1, <1>3, Zenon DEF MembersFrom, MeansMember, OneMember, MoreMembers

(* The first unit of characters, and the others. *)
LEMMA CharsSpan ==
    ASSUME NEW t \in Text, NEW i, NEW j, Span(t, i, j), NEW w
    PROVE  /\ i = j + 1 => (MeansChars(t, i, j, w) <=> w = << >>)
           /\ i <= j => (MeansChars(t, i, j, w) <=>
                \E n \in 1 .. 12 : \E u \in UnitMeans(Piece(t, i, i + n - 1)) : \E r :
                   i + n - 1 <= j /\ MeansChars(t, i + n, j, r) /\ w = u \o r)
  <1> DEFINE y == Piece(t, i, j)
  <1>1. y \in Text /\ Len(y) = j - i + 1 /\ i \in Nat /\ i >= 1 /\ j \in Nat /\ i <= j + 1 /\ j <= Len(t)
    BY PieceFacts
  <1>2. MeansChars(t, i, j, w) <=> w \in CharactersMean(y, Means)
    BY <1>1, MeansIs, KindFacts DEF Meaning, MeansChars
  <1>3. CASE i = j + 1
    <2>1. y = << >>
      BY <1>1, <1>3, EmptySeq DEF Text
    <2> HIDE DEF y
    <2>2. CharactersMean(y, Means) = {<< >>}
      BY <2>1 DEF CharactersMean
    <2> QED
      BY <1>1, <1>2, <1>3, <2>2
  <1>4. CASE i <= j
    <2>1. y # << >>
      BY <1>1, <1>4
    <2>2. MeansChars(t, i, j, w) <=> CharactersFrom(y, Means, w)
      BY <1>2, <2>1, CharactersIn
    <2>3. ASSUME NEW n \in 0 .. Len(y)
          PROVE  /\ SubSeq(y, 1, n) = Piece(t, i, i + n - 1)
                 /\ SubSeq(y, n + 1, Len(y)) = Piece(t, i + n, j)
                 /\ Len(SubSeq(y, 1, n)) = n
      <3> HIDE DEF y
      <3>1. Span(y, 1, n) /\ Span(y, n + 1, Len(y)) /\ y = Piece(t, i, j)
        BY <1>1 DEF Span, y
      <3>2. i = i + 1 - 1 /\ i + n = i + (n + 1) - 1 /\ j = i + Len(y) - 1
        BY <1>1
      <3>2a. \A k_1, l : Span(y, k_1, l) => SubSeq(y, k_1, l) = Piece(t, i + k_1 - 1, i + l - 1)
        BY <3>1, PieceWithin
      <3>3. SubSeq(y, 1, n) = Piece(t, i, i + n - 1)
        <4>1. SubSeq(y, 1, n) = Piece(t, i + 1 - 1, i + n - 1)
          BY <3>1, <3>2a, Zenon
        <4> QED
          BY <3>2, <4>1
      <3>4. SubSeq(y, n + 1, Len(y)) = Piece(t, i + n, j)
        <4>1. SubSeq(y, n + 1, Len(y)) = Piece(t, i + (n + 1) - 1, i + Len(y) - 1)
          BY <3>1, <3>2a, Zenon
        <4> QED
          BY <3>2, <4>1
      <3>5. Len(Piece(y, 1, n)) = n
        <4>1. Len(Piece(y, 1, n)) = n - 1 + 1
          BY <1>1, <3>1, PieceFacts
        <4> QED
          BY <4>1
      <3> QED
        BY <3>3, <3>4, <3>5 DEF Piece
    <2>4. \A p : p \in Parts(y) <=> \E n \in 0 .. Len(y) :
                   p = << SubSeq(y, 1, n), SubSeq(y, n + 1, Len(y)) >>
      BY DEF Parts
    <2>5. \A n : n \in 1 .. 12 /\ i + n - 1 <= j <=> n \in 0 .. Len(y) /\ n \in 1 .. 12
      BY <1>1, SMTT(30)
    <2> HIDE DEF y
    <2>6. ASSUME NEW p, NEW n \in 0 .. Len(y), p = << SubSeq(y, 1, n), SubSeq(y, n + 1, Len(y)) >>
          PROVE  p[1] = Piece(t, i, i + n - 1) /\ p[2] = Piece(t, i + n, j) /\ Len(p[1]) = n
      BY <2>3, <2>6
    <2>6a. /\ \A p \in Parts(y) : \E n \in 0 .. Len(y) :
                 p[1] = Piece(t, i, i + n - 1) /\ p[2] = Piece(t, i + n, j) /\ Len(p[1]) = n
           /\ \A n \in 0 .. Len(y) : \E p \in Parts(y) :
                 p[1] = Piece(t, i, i + n - 1) /\ p[2] = Piece(t, i + n, j) /\ Len(p[1]) = n
      BY <2>4, <2>6, Zenon
    <2>7. CharactersFrom(y, Means, w) <=>
                \E n \in 1 .. 12 : \E u \in UnitMeans(Piece(t, i, i + n - 1)) : \E r :
                   i + n - 1 <= j /\ MeansChars(t, i + n, j, r) /\ w = u \o r
      <3>1. ASSUME NEW p \in Parts(y), Len(p[1]) \in 1 .. 12, NEW u \in UnitMeans(p[1]),
                   NEW r \in Means[<< "characters", p[2] >>], w = u \o r
            PROVE  \E n \in 1 .. 12 : \E u_1 \in UnitMeans(Piece(t, i, i + n - 1)) : \E r_1 :
                     i + n - 1 <= j /\ MeansChars(t, i + n, j, r_1) /\ w = u_1 \o r_1
        <4>1. PICK n \in 0 .. Len(y) :
                 p[1] = Piece(t, i, i + n - 1) /\ p[2] = Piece(t, i + n, j) /\ Len(p[1]) = n
          BY <2>6a
        <4>2. n \in 1 .. 12 /\ i + n - 1 <= j /\ u \in UnitMeans(Piece(t, i, i + n - 1))
              /\ MeansChars(t, i + n, j, r)
          BY <2>5, <3>1, <4>1 DEF MeansChars
        <4> QED
          BY <3>1, <4>2, Zenon
      <3>2. ASSUME NEW n \in 1 .. 12, NEW u \in UnitMeans(Piece(t, i, i + n - 1)), NEW r,
                   i + n - 1 <= j, MeansChars(t, i + n, j, r), w = u \o r
            PROVE  CharactersFrom(y, Means, w)
        <4>1. PICK p \in Parts(y) :
                 p[1] = Piece(t, i, i + n - 1) /\ p[2] = Piece(t, i + n, j) /\ Len(p[1]) = n
          BY <2>5, <2>6a, <3>2
        <4>2. Len(p[1]) \in 1 .. 12 /\ u \in UnitMeans(p[1]) /\ r \in Means[<< "characters", p[2] >>]
          BY <3>2, <4>1 DEF MeansChars
        <4> QED
          BY <3>2, <4>2, Zenon DEF CharactersFrom
      <3>3. CharactersFrom(y, Means, w) => \E p \in Parts(y) : Len(p[1]) \in 1 .. 12
               /\ \E u \in UnitMeans(p[1]) : \E r \in Means[<< "characters", p[2] >>] : w = u \o r
        BY Zenon DEF CharactersFrom
      <3> QED
        BY <3>1, <3>2, <3>3, Zenon
    <2>8. i # j + 1
      BY <1>1, <1>4
    <2> QED
      BY <1>4, <2>2, <2>7, <2>8, Zenon
  <1> QED
    BY <1>3, <1>4

-----------------------------------------------------------------------------
(***************************************************************************)
(* Part 2.  Values and names without the space around them                 *)
(***************************************************************************)

LEMMA TrimmedTo ==
    ASSUME NEW t \in Text, NEW i, NEW j, Span(t, i, j), NEW a, NEW b,
           i <= a, b <= j, Span(t, a, b), Inked(t, a, b),
           BlankSpan(t, i, a - 1), BlankSpan(t, b + 1, j)
    PROVE  Trimmed(Piece(t, i, j)) = Piece(t, a, b)
  <1>1. /\ i \in Nat /\ j \in Nat /\ a \in Nat /\ b \in Nat /\ a <= b
        /\ t[a] \notin Spaces /\ t[b] \notin Spaces
        /\ \A k \in i .. a - 1 : t[k] \in Spaces
        /\ \A k \in b + 1 .. j : t[k] \in Spaces
    BY PieceFacts DEF Inked, BlankSpan
  <1>2. ~BlankSpan(t, i, j)
    <2>1. a \in i .. j
      BY <1>1
    <2> QED
      BY <1>1, <2>1 DEF BlankSpan
  <1>3. PICK c, d : /\ i <= c /\ d <= j /\ Span(t, c, d) /\ Inked(t, c, d)
                    /\ BlankSpan(t, i, c - 1) /\ BlankSpan(t, d + 1, j)
                    /\ Trimmed(Piece(t, i, j)) = Piece(t, c, d)
    BY <1>2, TrimmedSpan
  <1>4. /\ c \in Nat /\ d \in Nat /\ c <= d
        /\ t[c] \notin Spaces /\ t[d] \notin Spaces
        /\ \A k \in i .. c - 1 : t[k] \in Spaces
        /\ \A k \in d + 1 .. j : t[k] \in Spaces
    BY <1>3, PieceFacts DEF Inked, BlankSpan
  <1>5. c = a
    BY <1>1, <1>3, <1>4
  <1>6. d = b
    BY <1>1, <1>3, <1>4
  <1> QED
    BY <1>3, <1>5, <1>6

(* What a value means is what its inked part means. *)
Core(t, a, b, v) == Inked(t, a, b) /\ v \in ValueMeans(Piece(t, a, b), Means)
KeyCore(t, a, b, k) == Inked(t, a, b) /\ k \in StringMeans(Piece(t, a, b), Means)
Padded(t, i, a, b, j) ==
    /\ i <= a /\ b <= j /\ Span(t, a, b)
    /\ BlankSpan(t, i, a - 1) /\ BlankSpan(t, b + 1, j)

LEMMA EmptyMeansNothing == ValueMeans(<< >>, Means) = {} /\ StringMeans(<< >>, Means) = {}
  <1>1. ~IsNumber(<< >>)
    <2> SUFFICES ASSUME NEW p \in Parts(<< >>), IsWhole(p[1])
                 PROVE  FALSE
      BY DEF IsNumber
    <2>1. << >> \in Text /\ Len(<< >>) = 0
      BY DEF Text
    <2> DEFINE y == << >>
    <2>1a. y \in Text /\ Len(y) = 0 /\ p \in Parts(y)
      BY <2>1
    <2> HIDE DEF y
    <2>1b. /\ p[1] \in Text /\ Len(p[1]) \in Nat /\ Len(p[2]) \in Nat
           /\ Len(p[1]) + Len(p[2]) = Len(y)
      BY <2>1a, PartFacts
    <2>2. Len(p[1]) = 0 /\ p[1] \in Text
      <3> DEFINE m == Len(p[1])
                 n == Len(p[2])
                 k == Len(y)
      <3>1. m \in Nat /\ n \in Nat /\ k = 0 /\ m + n = k
        BY <2>1a, <2>1b, Zenon
      <3> HIDE DEF m, n, k
      <3>2. m = 0
        BY <3>1
      <3> QED
        BY <2>1b, <3>2 DEF m
    <2>3. p[1] = << >>
      BY <2>2, EmptySeq DEF Text
    <2> QED
      BY <2>3 DEF IsWhole, Without, Starts, Numeral
  <1>2. ~Between(<< >>, Quote, Quote) /\ ~Between(<< >>, OpenBracket, CloseBracket)
        /\ ~Between(<< >>, OpenBrace, CloseBrace)
    BY DEF Between
  <1>3. \A w \in Words : w.word # << >>
    <2> SUFFICES ASSUME NEW w \in Words
                 PROVE  w.word # << >>
      OBVIOUS
    <2>1. Len(w.word) \in {4, 5}
      <3> DEFINE word == w.word
      <3>1. \/ word = << 110, 117, 108, 108 >>
            \/ word = << 102, 97, 108, 115, 101 >>
            \/ word = << 116, 114, 117, 101 >>
        BY DEF Words
      <3> HIDE DEF word
      <3>2. Len(word) \in {4, 5}
        BY <3>1
      <3> QED
        BY <3>2 DEF word
    <2> QED
      BY <2>1
  <1>4. StringMeans(<< >>, Means) = {}
    BY <1>2 DEF StringMeans
  <1> QED
    BY <1>1, <1>2, <1>3, <1>4 DEF ValueMeans

(* A piece means a value if it is space, the core of the value, and space. *)
LEMMA ValueSpan ==
    ASSUME NEW t \in Text, NEW i, NEW j, Span(t, i, j), NEW v
    PROVE  MeansValue(t, i, j, v) <=> \E a, b : Padded(t, i, a, b, j) /\ Core(t, a, b, v)
  <1> DEFINE u == Piece(t, i, j)
  <1>1. MeansValue(t, i, j, v) <=> v \in ValueMeans(Trimmed(u), Means)
    <2>1. u \in Text
      BY PieceFacts
    <2>2. Means[<< "value", u >>] = ValueMeans(Trimmed(u), Means)
      BY <2>1, MeansIs, KindFacts DEF Meaning
    <2> QED
      BY <2>2 DEF MeansValue
  <1>2. ASSUME NEW a, NEW b, Padded(t, i, a, b, j), Core(t, a, b, v)
        PROVE  v \in ValueMeans(Trimmed(u), Means)
    <2>1. Trimmed(u) = Piece(t, a, b)
      BY <1>2, TrimmedTo DEF Padded, Core
    <2> QED
      BY <1>2, <2>1 DEF Core
  <1>3. ASSUME v \in ValueMeans(Trimmed(u), Means)
        PROVE  \E a, b : Padded(t, i, a, b, j) /\ Core(t, a, b, v)
    <2>1. Trimmed(u) # << >>
      BY <1>3, EmptyMeansNothing
    <2>2. PICK a, b : /\ i <= a /\ b <= j /\ Span(t, a, b) /\ Inked(t, a, b)
                      /\ BlankSpan(t, i, a - 1) /\ BlankSpan(t, b + 1, j)
                      /\ Trimmed(Piece(t, i, j)) = Piece(t, a, b)
      BY <2>1, TrimmedSpan
    <2>3. Padded(t, i, a, b, j) /\ Core(t, a, b, v)
      BY <1>3, <2>2 DEF Padded, Core
    <2> QED
      BY <2>3
  <1> QED
    BY <1>1, <1>2, <1>3

(* The same of a name.                                                     *)
LEMMA KeySpan ==
    ASSUME NEW t \in Text, NEW i, NEW j, Span(t, i, j), NEW v
    PROVE  MeansKey(t, i, j, v) <=> \E a, b : Padded(t, i, a, b, j) /\ KeyCore(t, a, b, v)
  <1> DEFINE u == Piece(t, i, j)
  <1>1. MeansKey(t, i, j, v) <=> v \in StringMeans(Trimmed(u), Means)
    BY DEF MeansKey
  <1>2. ASSUME NEW a, NEW b, Padded(t, i, a, b, j), KeyCore(t, a, b, v)
        PROVE  v \in StringMeans(Trimmed(u), Means)
    <2>1. Trimmed(u) = Piece(t, a, b)
      BY <1>2, TrimmedTo DEF Padded, KeyCore
    <2> QED
      BY <1>2, <2>1 DEF KeyCore
  <1>3. ASSUME v \in StringMeans(Trimmed(u), Means)
        PROVE  \E a, b : Padded(t, i, a, b, j) /\ KeyCore(t, a, b, v)
    <2>1. Trimmed(u) # << >>
      BY <1>3, EmptyMeansNothing
    <2>2. PICK a, b : /\ i <= a /\ b <= j /\ Span(t, a, b) /\ Inked(t, a, b)
                      /\ BlankSpan(t, i, a - 1) /\ BlankSpan(t, b + 1, j)
                      /\ Trimmed(Piece(t, i, j)) = Piece(t, a, b)
      BY <2>1, TrimmedSpan
    <2>3. Padded(t, i, a, b, j) /\ KeyCore(t, a, b, v)
      BY <1>3, <2>2 DEF Padded, KeyCore
    <2> QED
      BY <2>3
  <1> QED
    BY <1>1, <1>2, <1>3

(* Blanks before and after a value change nothing. *)
LEMMA BlankJoins ==
    ASSUME NEW t, NEW i \in Int, NEW k \in Int, NEW j \in Int
    PROVE  /\ BlankSpan(t, i, k - 1) /\ BlankSpan(t, k, j) => BlankSpan(t, i, j)
           /\ BlankSpan(t, i, k) /\ BlankSpan(t, k + 1, j) => BlankSpan(t, i, j)
           /\ BlankSpan(t, i, j) /\ i <= k => BlankSpan(t, k, j)
           /\ BlankSpan(t, i, j) /\ k <= j => BlankSpan(t, i, k)
           /\ j < i => BlankSpan(t, i, j)
  BY DEF BlankSpan

LEMMA PaddedNat ==
    ASSUME NEW t \in Text, NEW i \in Int, NEW a, NEW b, NEW j \in Int, Padded(t, i, a, b, j)
    PROVE  a \in Nat /\ b \in Nat /\ a \in Int /\ b \in Int /\ 1 <= a /\ b <= Len(t) /\ a <= b + 1
  BY PieceFacts DEF Padded

LEMMA PaddedMore ==
    ASSUME NEW t \in Text, NEW i \in Int, NEW a, NEW b, NEW j \in Int,
           NEW k \in Int, k <= i, NEW l \in Int, j <= l,
           BlankSpan(t, k, i - 1), BlankSpan(t, j + 1, l), Padded(t, i, a, b, j)
    PROVE  Padded(t, k, a, b, l)
  <1>1. a \in Int /\ b \in Int
    BY PaddedNat
  <1>2. BlankSpan(t, i, a - 1) /\ BlankSpan(t, b + 1, j) /\ i <= a /\ b <= j /\ Span(t, a, b)
    BY DEF Padded
  <1>3. BlankSpan(t, k, a - 1)
    BY <1>1, <1>2 DEF BlankSpan
  <1>4. BlankSpan(t, b + 1, l)
    BY <1>1, <1>2 DEF BlankSpan
  <1> QED
    BY <1>1, <1>2, <1>3, <1>4 DEF Padded

LEMMA PaddedLess ==
    ASSUME NEW t \in Text, NEW i \in Int, NEW a, NEW b, NEW j \in Int,
           NEW k \in Int, i <= k, NEW l \in Int, l <= j, k <= l + 1,
           BlankSpan(t, i, k - 1), BlankSpan(t, l + 1, j), Padded(t, i, a, b, j), Inked(t, a, b)
    PROVE  Padded(t, k, a, b, l)
  <1>1. a \in Int /\ b \in Int /\ a <= b
    BY PaddedNat DEF Inked
  <1>2. /\ BlankSpan(t, i, a - 1) /\ BlankSpan(t, b + 1, j) /\ i <= a /\ b <= j /\ Span(t, a, b)
        /\ t[a] \notin Spaces /\ t[b] \notin Spaces
    BY DEF Padded, Inked
  <1>3. k <= a
    BY <1>1, <1>2 DEF BlankSpan
  <1>4. b <= l
    BY <1>1, <1>2 DEF BlankSpan
  <1>5. BlankSpan(t, k, a - 1) /\ BlankSpan(t, b + 1, l)
    BY <1>1, <1>2 DEF BlankSpan
  <1> QED
    BY <1>2, <1>3, <1>4, <1>5 DEF Padded

(* A piece and the same piece with space around it mean the same value.    *)
LEMMA BlanksAround ==
    ASSUME NEW t \in Text, NEW i, NEW j, Span(t, i, j), NEW k, NEW l, Span(t, k, l),
           i <= k, l <= j, BlankSpan(t, i, k - 1), BlankSpan(t, l + 1, j), NEW v
    PROVE  /\ MeansValue(t, i, j, v) <=> MeansValue(t, k, l, v)
           /\ MeansKey(t, i, j, v) <=> MeansKey(t, k, l, v)
  <1>1. i \in Int /\ j \in Int /\ k \in Int /\ l \in Int /\ k <= l + 1
    BY PieceFacts
  <1>2. \A a, b : Inked(t, a, b) => (Padded(t, i, a, b, j) <=> Padded(t, k, a, b, l))
    BY <1>1, PaddedMore, PaddedLess
  <1>3. MeansValue(t, i, j, v) <=> MeansValue(t, k, l, v)
    <2>1. MeansValue(t, i, j, v) <=> \E a, b : Padded(t, i, a, b, j) /\ Core(t, a, b, v)
      BY ValueSpan
    <2>2. MeansValue(t, k, l, v) <=> \E a, b : Padded(t, k, a, b, l) /\ Core(t, a, b, v)
      BY ValueSpan
    <2>3. \A a, b : Core(t, a, b, v) => Inked(t, a, b)
      BY DEF Core
    <2> QED
      BY <1>2, <2>1, <2>2, <2>3, Zenon
  <1>4. MeansKey(t, i, j, v) <=> MeansKey(t, k, l, v)
    <2>1. MeansKey(t, i, j, v) <=> \E a, b : Padded(t, i, a, b, j) /\ KeyCore(t, a, b, v)
      BY KeySpan
    <2>2. MeansKey(t, k, l, v) <=> \E a, b : Padded(t, k, a, b, l) /\ KeyCore(t, a, b, v)
      BY KeySpan
    <2>3. \A a, b : KeyCore(t, a, b, v) => Inked(t, a, b)
      BY DEF KeyCore
    <2> QED
      BY <1>2, <2>1, <2>2, <2>3, Zenon
  <1> QED
    BY <1>3, <1>4

-----------------------------------------------------------------------------
(* The kinds of values. *)
MeansWord(t, a, b, v) == \E w \in Words : w.word = Piece(t, a, b) /\ v = w.value
MeansNumber(t, a, b, v) ==
    IsNumber(Piece(t, a, b)) /\ v = [tag |-> "NUMBER", number_ |-> Piece(t, a, b)]
Quoted(t, a, b, x) == t[a] = Quote /\ t[b] = Quote /\ a < b /\ MeansChars(t, a + 1, b - 1, x)
MeansString(t, a, b, v) ==
    \E x : Quoted(t, a, b, x) /\ v = [tag |-> "STRING", string_ |-> x]
Nothing(t, i, j, e) == BlankSpan(t, i, j) /\ e = << >>
MeansArray(t, a, b, v) ==
    /\ t[a] = OpenBracket /\ t[b] = CloseBracket /\ a < b
    /\ \E e : /\ MeansElements(t, a + 1, b - 1, e) \/ Nothing(t, a + 1, b - 1, e)
              /\ v = [tag |-> "ARRAY", kids |-> e]
MeansObject(t, a, b, v) ==
    /\ t[a] = OpenBrace /\ t[b] = CloseBrace /\ a < b
    /\ \E e : /\ MeansMembers(t, a + 1, b - 1, e) \/ Nothing(t, a + 1, b - 1, e)
              /\ v = [tag |-> "OBJECT", kids |-> e]

LEMMA BetweenPiece ==
    ASSUME NEW t \in Text, NEW a, NEW b, Span(t, a, b), a <= b, NEW o, NEW c
    PROVE  /\ Between(Piece(t, a, b), o, c) <=> a < b /\ t[a] = o /\ t[b] = c
           /\ a < b => /\ Within(Piece(t, a, b)) = Piece(t, a + 1, b - 1)
                       /\ Span(t, a + 1, b - 1)
  <1> DEFINE u == Piece(t, a, b)
             n == b - a + 1
  <1>1. /\ u \in Text /\ Len(u) = n /\ n \in Nat
        /\ \A m \in 1 .. n : u[m] = t[a + m - 1]
        /\ a \in Nat /\ a >= 1 /\ b \in Nat /\ b <= Len(t)
    BY PieceFacts
  <1> HIDE DEF u
  <1>2. u[1] = t[a] /\ u[n] = t[b] /\ u[Len(u)] = t[b]
    <2>1. 1 \in 1 .. n /\ n \in 1 .. n /\ a + 1 - 1 = a /\ a + n - 1 = b
      BY <1>1
    <2>2. u[1] = t[a + 1 - 1] /\ u[n] = t[a + n - 1]
      BY <1>1, <2>1
    <2> QED
      BY <1>1, <2>1, <2>2
  <1>3. Between(u, o, c) <=> a < b /\ t[a] = o /\ t[b] = c
    BY <1>1, <1>2 DEF Between
  <1>4. ASSUME a < b
        PROVE  Within(u) = Piece(t, a + 1, b - 1) /\ Span(t, a + 1, b - 1)
    <2>1. Span(u, 2, Len(u) - 1) /\ u = Piece(t, a, b)
      BY <1>1, <1>4 DEF Span, u
    <2>2. Within(u) = SubSeq(u, 2, Len(u) - 1)
      BY DEF Within
    <2>3. \A k_1, l : Span(u, k_1, l) => SubSeq(u, k_1, l) = Piece(t, a + k_1 - 1, a + l - 1)
      BY <2>1, PieceWithin
    <2>4. SubSeq(u, 2, Len(u) - 1) = Piece(t, a + 2 - 1, a + (Len(u) - 1) - 1)
      BY <2>1, <2>3, Zenon
    <2>5. a + 2 - 1 = a + 1 /\ a + (Len(u) - 1) - 1 = b - 1
      BY <1>1
    <2>6. Span(t, a + 1, b - 1)
      BY <1>1, <1>4, TextFacts DEF Span
    <2> QED
      BY <2>2, <2>4, <2>5, <2>6
  <1>5. a < b => Within(u) = Piece(t, a + 1, b - 1) /\ Span(t, a + 1, b - 1)
    BY <1>4
  <1> QED
    BY <1>3, <1>5, Zenon DEF u

(* A quoted string, by places.                                             *)
LEMMA QuotedSpan ==
    ASSUME NEW t \in Text, NEW a, NEW b, Span(t, a, b), a <= b, NEW x
    PROVE  x \in StringMeans(Piece(t, a, b), Means) <=> Quoted(t, a, b, x)
  <1>1. CASE a < b
    <2>1. /\ Between(Piece(t, a, b), Quote, Quote) <=> t[a] = Quote /\ t[b] = Quote
          /\ Within(Piece(t, a, b)) = Piece(t, a + 1, b - 1)
      BY <1>1, BetweenPiece
    <2> QED
      BY <1>1, <2>1 DEF StringMeans, Quoted, MeansChars
  <1>2. CASE ~(a < b)
    BY <1>2, BetweenPiece DEF StringMeans, Quoted
  <1> QED
    BY <1>1, <1>2

(* The core of a value is a word, a number, a string, an array or an       *)
(* object.                                                                 *)
LEMMA CoreCases ==
    ASSUME NEW t \in Text, NEW a, NEW b, Span(t, a, b), Inked(t, a, b), NEW v
    PROVE  Core(t, a, b, v) <=>
             \/ MeansWord(t, a, b, v) \/ MeansNumber(t, a, b, v) \/ MeansString(t, a, b, v)
             \/ MeansArray(t, a, b, v) \/ MeansObject(t, a, b, v)
  <1> DEFINE u == Piece(t, a, b)
             arr == IF Between(u, OpenBracket, CloseBracket)
                    THEN Collection(u, "ARRAY", Means[<< "elements", Within(u) >>]) ELSE {}
             obj == IF Between(u, OpenBrace, CloseBrace)
                    THEN Collection(u, "OBJECT", Means[<< "members", Within(u) >>]) ELSE {}
  <1>1. a <= b
    BY DEF Inked
  <1>2. v \in {w.value : w \in {w \in Words : w.word = u}} <=> MeansWord(t, a, b, v)
    BY DEF MeansWord
  <1>3. v \in {[tag |-> "NUMBER", number_ |-> n] : n \in {n \in {u} : IsNumber(n)}}
          <=> MeansNumber(t, a, b, v)
    BY DEF MeansNumber
  <1>4. v \in {[tag |-> "STRING", string_ |-> x] : x \in StringMeans(u, Means)}
          <=> MeansString(t, a, b, v)
    BY <1>1, QuotedSpan DEF MeansString
  <1>5. ASSUME a < b
        PROVE  Blank(Within(u)) <=> BlankSpan(t, a + 1, b - 1)
    <2> DEFINE y == Piece(t, a + 1, b - 1)
    <2>1. Within(u) = y /\ Span(t, a + 1, b - 1) /\ a \in Nat /\ b \in Nat
      <3>1. Within(u) = y /\ Span(t, a + 1, b - 1)
        BY <1>1, <1>5, BetweenPiece, Zenon
      <3> QED
        BY <3>1, PieceFacts
    <2>2. /\ DOMAIN y = 1 .. (b - 1) - (a + 1) + 1
          /\ \A m \in 1 .. (b - 1) - (a + 1) + 1 : y[m] = t[a + 1 + m - 1]
      <3>1. ASSUME NEW i, NEW j, Span(t, i, j)
            PROVE  /\ DOMAIN Piece(t, i, j) = 1 .. j - i + 1
                   /\ \A m \in 1 .. j - i + 1 : Piece(t, i, j)[m] = t[i + m - 1]
        BY <3>1, PieceFacts
      <3> QED
        BY <2>1, <3>1
    <2> HIDE DEF y
    <2>3. ASSUME Blank(y), NEW k \in a + 1 .. b - 1
          PROVE  t[k] \in Spaces
      <3>1. k - a \in 1 .. (b - 1) - (a + 1) + 1 /\ a + 1 + (k - a) - 1 = k
        BY <2>1
      <3>2. y[k - a] = t[a + 1 + (k - a) - 1] /\ y[k - a] \in Spaces
        BY <2>2, <2>3, <3>1 DEF Blank
      <3> QED
        BY <3>1, <3>2
    <2>4. ASSUME BlankSpan(t, a + 1, b - 1), NEW m \in DOMAIN y
          PROVE  y[m] \in Spaces
      <3>1. a + 1 + m - 1 \in a + 1 .. b - 1 /\ m \in 1 .. (b - 1) - (a + 1) + 1
        BY <2>1, <2>2
      <3> QED
        BY <2>2, <2>4, <3>1 DEF BlankSpan
    <2> QED
      BY <2>1, <2>3, <2>4 DEF Blank, BlankSpan
  <1>6. v \in arr <=> MeansArray(t, a, b, v)
    <2>1. CASE a < b /\ t[a] = OpenBracket /\ t[b] = CloseBracket
      <3>1. Between(u, OpenBracket, CloseBracket) /\ Within(u) = Piece(t, a + 1, b - 1)
        <4>1. /\ Between(Piece(t, a, b), OpenBracket, CloseBracket)
              /\ Within(Piece(t, a, b)) = Piece(t, a + 1, b - 1)
          BY <1>1, <2>1, BetweenPiece
        <4> QED
          BY <4>1
      <3>2. arr = Collection(u, "ARRAY", Means[<< "elements", Within(u) >>])
        BY <3>1
      <3>3. \A e : e \in Means[<< "elements", Within(u) >>] <=> MeansElements(t, a + 1, b - 1, e)
        BY <3>1 DEF MeansElements
      <3> HIDE DEF u, arr
      <3>4. v \in arr <=> \E e : /\ \/ e \in Means[<< "elements", Within(u) >>]
                                    \/ Blank(Within(u)) /\ e = << >>
                                 /\ v = [tag |-> "ARRAY", kids |-> e]
        BY <3>2 DEF Collection
      <3>5. Blank(Within(u)) <=> BlankSpan(t, a + 1, b - 1)
        BY <1>5, <2>1
      <3> QED
        BY <2>1, <3>3, <3>4, <3>5 DEF MeansArray, Nothing
    <2>2. CASE ~(a < b /\ t[a] = OpenBracket /\ t[b] = CloseBracket)
      <3>1. ~Between(u, OpenBracket, CloseBracket)
        BY <1>1, <2>2, BetweenPiece
      <3> QED
        BY <2>2, <3>1 DEF MeansArray
    <2> QED
      BY <2>1, <2>2
  <1>7. v \in obj <=> MeansObject(t, a, b, v)
    <2>1. CASE a < b /\ t[a] = OpenBrace /\ t[b] = CloseBrace
      <3>1. Between(u, OpenBrace, CloseBrace) /\ Within(u) = Piece(t, a + 1, b - 1)
        <4>1. /\ Between(Piece(t, a, b), OpenBrace, CloseBrace)
              /\ Within(Piece(t, a, b)) = Piece(t, a + 1, b - 1)
          BY <1>1, <2>1, BetweenPiece
        <4> QED
          BY <4>1
      <3>2. obj = Collection(u, "OBJECT", Means[<< "members", Within(u) >>])
        BY <3>1
      <3>3. \A e : e \in Means[<< "members", Within(u) >>] <=> MeansMembers(t, a + 1, b - 1, e)
        BY <3>1 DEF MeansMembers
      <3> HIDE DEF u, obj
      <3>4. v \in obj <=> \E e : /\ \/ e \in Means[<< "members", Within(u) >>]
                                    \/ Blank(Within(u)) /\ e = << >>
                                 /\ v = [tag |-> "OBJECT", kids |-> e]
        BY <3>2 DEF Collection
      <3>5. Blank(Within(u)) <=> BlankSpan(t, a + 1, b - 1)
        BY <1>5, <2>1
      <3> QED
        BY <2>1, <3>3, <3>4, <3>5 DEF MeansObject, Nothing
    <2>2. CASE ~(a < b /\ t[a] = OpenBrace /\ t[b] = CloseBrace)
      <3>1. ~Between(u, OpenBrace, CloseBrace)
        BY <1>1, <2>2, BetweenPiece
      <3> QED
        BY <2>2, <3>1 DEF MeansObject
    <2> QED
      BY <2>1, <2>2
  <1>8. ValueMeans(u, Means) =
          {w.value : w \in {w \in Words : w.word = u}}
          \cup {[tag |-> "NUMBER", number_ |-> n] : n \in {n \in {u} : IsNumber(n)}}
          \cup {[tag |-> "STRING", string_ |-> x] : x \in StringMeans(u, Means)}
          \cup arr \cup obj
    BY DEF ValueMeans
  <1> HIDE DEF arr, obj
  <1>9. v \in ValueMeans(u, Means) <=>
             \/ MeansWord(t, a, b, v) \/ MeansNumber(t, a, b, v) \/ MeansString(t, a, b, v)
             \/ MeansArray(t, a, b, v) \/ MeansObject(t, a, b, v)
    BY <1>2, <1>3, <1>4, <1>6, <1>7, <1>8
  <1> QED
    BY <1>9 DEF Core

-----------------------------------------------------------------------------
(***************************************************************************)
(* Part 2.  Lists, by their first item                                     *)
(***************************************************************************)

(* Tuples of whatever. *)
Tuple(e) == \E S : e \in Seq(S)

(* Tuples can be joined and compared; << v >> is one.                      *)
LEMMA TupleFacts ==
    /\ Tuple(<< >>)
    /\ \A x : Tuple(<< x >>)
    /\ \A a, b : Tuple(a) /\ Tuple(b) => Tuple(a \o b)
    /\ \A a : Tuple(a) => a \o << >> = a /\ << >> \o a = a
    /\ \A a, x : Tuple(a) => Append(a, x) = a \o << x >>
    /\ \A a, b, c : Tuple(a) /\ Tuple(b) /\ Tuple(c) => (a \o b) \o c = a \o (b \o c)
  <1>1. Tuple(<< >>)
    <2>1. << >> \in Seq({})
      BY EmptySeq
    <2> QED
      BY <2>1, Zenon DEF Tuple
  <1>2. \A x : Tuple(<< x >>)
    <2> TAKE x
    <2>1. << x >> \in Seq({x})
      OBVIOUS
    <2> QED
      BY <2>1, Zenon DEF Tuple
  <1>3. ASSUME NEW a, NEW b, Tuple(a), Tuple(b)
        PROVE  \E S : a \in Seq(S) /\ b \in Seq(S)
    <2>1. PICK A : a \in Seq(A)
      BY <1>3, Zenon DEF Tuple
    <2>2. PICK B : b \in Seq(B)
      BY <1>3, Zenon DEF Tuple
    <2>3. a \in Seq(A \cup B)
      BY <2>1, SeqMonotonic
    <2>4. b \in Seq(A \cup B)
      BY <2>2, SeqMonotonic
    <2> QED
      BY <2>3, <2>4, Zenon
  <1>4. ASSUME NEW a, NEW b, Tuple(a), Tuple(b)
        PROVE  Tuple(a \o b)
    <2>1. PICK S : a \in Seq(S) /\ b \in Seq(S)
      BY <1>3, <1>4, Zenon
    <2>2. a \o b \in Seq(S)
      BY <2>1, ConcatProperties
    <2> QED
      BY <2>2, Zenon DEF Tuple
  <1>5. ASSUME NEW a, Tuple(a)
        PROVE  a \o << >> = a /\ << >> \o a = a
    <2>1. PICK S : a \in Seq(S)
      BY <1>5, Zenon DEF Tuple
    <2> QED
      BY <2>1, ConcatEmptySeq
  <1>6. ASSUME NEW a, NEW x, Tuple(a)
        PROVE  Append(a, x) = a \o << x >>
    <2>1. PICK S : a \in Seq(S)
      BY <1>6, Zenon DEF Tuple
    <2>2. a \in Seq(S \cup {x}) /\ x \in S \cup {x}
      BY <2>1, SeqMonotonic
    <2> QED
      BY <2>2, AppendIsConcat
  <1>7. ASSUME NEW a, NEW b, NEW c, Tuple(a), Tuple(b), Tuple(c)
        PROVE  (a \o b) \o c = a \o (b \o c)
    <2>1. PICK S : a \in Seq(S) /\ b \in Seq(S)
      BY <1>3, <1>7, Zenon
    <2>2. PICK C : c \in Seq(C)
      BY <1>7, Zenon DEF Tuple
    <2>3. a \in Seq(S \cup C)
      BY <2>1, SeqMonotonic
    <2>4. b \in Seq(S \cup C)
      BY <2>1, SeqMonotonic
    <2>5. c \in Seq(S \cup C)
      BY <2>2, SeqMonotonic
    <2> QED
      BY <2>3, <2>4, <2>5, ConcatAssociative
  <1>8. \A a, b : Tuple(a) /\ Tuple(b) => Tuple(a \o b)
    BY <1>4
  <1>9. \A a : Tuple(a) => a \o << >> = a /\ << >> \o a = a
    BY <1>5
  <1>10. \A a, x : Tuple(a) => Append(a, x) = a \o << x >>
    BY <1>6
  <1>11. \A a, b, c : Tuple(a) /\ Tuple(b) /\ Tuple(c) => (a \o b) \o c = a \o (b \o c)
    BY <1>7
  <1> QED
    BY <1>1, <1>2, <1>8, <1>9, <1>10, <1>11, Zenon

LEMMA WrittenTuple == \A u : Tuple(utf8_write_char(u))
  <1> TAKE u
  <1>1. \A a : Tuple(<< a >>)
    BY TupleFacts
  <1>2. \A a, b : Tuple(<< a, b >>)
    <2> TAKE a, b
    <2>1. << a, b >> \in Seq({a, b})
      OBVIOUS
    <2> QED
      BY <2>1, Zenon DEF Tuple
  <1>3. \A a, b, c : Tuple(<< a, b, c >>)
    <2> TAKE a, b, c
    <2>1. << a, b, c >> \in Seq({a, b, c})
      OBVIOUS
    <2> QED
      BY <2>1, Zenon DEF Tuple
  <1>4. \A a, b, c, d : Tuple(<< a, b, c, d >>)
    <2> TAKE a, b, c, d
    <2>1. << a, b, c, d >> \in Seq({a, b, c, d})
      OBVIOUS
    <2> QED
      BY <2>1, Zenon DEF Tuple
  <1>5. \/ \E a : utf8_write_char(u) = << a >>
        \/ \E a, b : utf8_write_char(u) = << a, b >>
        \/ \E a, b, c : utf8_write_char(u) = << a, b, c >>
        \/ \E a, b, c, d : utf8_write_char(u) = << a, b, c, d >>
    BY DEF utf8_write_char
  <1> QED
    BY <1>1, <1>2, <1>3, <1>4, <1>5, Zenon

(* What one character means is a tuple of bytes.                           *)
LEMMA UnitTuple ==
    ASSUME NEW t \in Text, NEW u \in UnitMeans(t)
    PROVE  Tuple(u)
  <1>1. Tuple(t)
    BY Zenon DEF Tuple, Text
  <1>2. \A a : Tuple(<< a >>)
    BY TupleFacts
  <1>3. \/ u = t
        \/ \E x : u = utf8_write_char(x)
        \/ \E x : u = << x >>
    BY DEF UnitMeans
  <1> QED
    BY <1>1, <1>2, <1>3, WrittenTuple

(* What characters, elements and members mean is a tuple. *)
LEMMA ListTuples ==
    ASSUME NEW t \in Text
    PROVE  \A i, j, w : Span(t, i, j) /\ (\/ MeansChars(t, i, j, w) \/ MeansElements(t, i, j, w)
                                          \/ MeansMembers(t, i, j, w))
                          => Tuple(w)
  <1> DEFINE Fine(n) == \A i, j, w : /\ Span(t, i, j) /\ j - i + 1 <= n
                                     /\ \/ MeansChars(t, i, j, w) \/ MeansElements(t, i, j, w)
                                        \/ MeansMembers(t, i, j, w)
                                     => Tuple(w)
             F == {n \in Nat : Fine(n)}
  <1>1. ASSUME NEW i, NEW j, Span(t, i, j), NEW w, NEW n \in Nat, j - i + 1 <= n,
               Fine(n - 1) \/ n = 0,
               \/ MeansChars(t, i, j, w) \/ MeansElements(t, i, j, w) \/ MeansMembers(t, i, j, w)
        PROVE  Tuple(w)
    <2>0. i \in Nat /\ j \in Nat /\ i >= 1 /\ i <= j + 1 /\ j <= Len(t) /\ Len(t) \in Nat
      BY <1>1, PieceFacts, TextFacts
    <2>1. CASE MeansChars(t, i, j, w)
      <3>1. CASE i = j + 1
        BY <1>1, <2>1, <3>1, CharsSpan, TupleFacts
      <3>2. CASE i # j + 1
        <4>1. i <= j
          BY <2>0, <3>2
        <4>2a. PICK m \in 1 .. 12 : \E u \in UnitMeans(Piece(t, i, i + m - 1)) : \E r :
                 i + m - 1 <= j /\ MeansChars(t, i + m, j, r) /\ w = u \o r
          BY <1>1, <2>1, <4>1, CharsSpan
        <4>2. PICK u, r : /\ u \in UnitMeans(Piece(t, i, i + m - 1))
                          /\ i + m - 1 <= j /\ MeansChars(t, i + m, j, r) /\ w = u \o r
          BY <4>2a, Zenon
        <4>3. Span(t, i, i + m - 1) /\ Span(t, i + m, j) /\ j - (i + m) + 1 <= n - 1 /\ n # 0
          BY <1>1, <2>0, <4>1, <4>2 DEF Span
        <4>4. Piece(t, i, i + m - 1) \in Text
          BY <4>3, PieceFacts
        <4>5. Tuple(u)
          <5> DEFINE y == Piece(t, i, i + m - 1)
          <5>1. y \in Text /\ u \in UnitMeans(y)
            BY <4>2, <4>4
          <5> HIDE DEF y
          <5> QED
            BY <5>1, UnitTuple
        <4>6. Tuple(r)
          BY <1>1, <4>2, <4>3
        <4> QED
          BY <4>2, <4>5, <4>6, TupleFacts
      <3> QED
        BY <3>1, <3>2
    <2>2. ASSUME NEW k \in i .. j, NEW r, NEW x,
                 MeansElements(t, k + 1, j, r) \/ MeansMembers(t, k + 1, j, r), w = << x >> \o r
          PROVE  Tuple(w)
      <3>1. Span(t, k + 1, j) /\ j - (k + 1) + 1 <= n - 1 /\ n # 0
        BY <1>1, <2>0, <2>2 DEF Span
      <3>2. Tuple(r)
        BY <1>1, <2>2, <3>1
      <3>3. Tuple(<< x >>)
        BY TupleFacts
      <3> QED
        BY <2>2, <3>2, <3>3, TupleFacts
    <2>3. CASE MeansElements(t, i, j, w)
      <3>1. OneElement(t, i, j, w) \/ MoreElements(t, i, j, w)
        BY <1>1, <2>3, ElementsSpan
      <3>2. OneElement(t, i, j, w) => Tuple(w)
        BY TupleFacts DEF OneElement
      <3> QED
        BY <2>2, <3>1, <3>2 DEF MoreElements
    <2>4. CASE MeansMembers(t, i, j, w)
      <3>1. OneMember(t, i, j, w) \/ MoreMembers(t, i, j, w)
        BY <1>1, <2>4, MembersSpan
      <3>2. OneMember(t, i, j, w) => Tuple(w)
        BY TupleFacts DEF OneMember
      <3> QED
        BY <2>2, <3>1, <3>2 DEF MoreMembers
    <2> QED
      BY <1>1, <2>1, <2>3, <2>4
  <1>2. Fine(0)
    <2> SUFFICES ASSUME NEW i, NEW j, NEW w, Span(t, i, j), j - i + 1 <= 0,
                        \/ MeansChars(t, i, j, w) \/ MeansElements(t, i, j, w)
                        \/ MeansMembers(t, i, j, w)
                 PROVE  Tuple(w)
      BY Zenon
    <2> HIDE DEF Fine
    <2>1. 0 \in Nat
      OBVIOUS
    <2> QED
      BY <1>1, <2>1, Zenon
  <1>3. ASSUME NEW n \in Nat, Fine(n)
        PROVE  Fine(n + 1)
    <2> DEFINE m == n + 1
    <2>1. m \in Nat /\ m - 1 = n
      OBVIOUS
    <2> HIDE DEF m
    <2>2. Fine(m - 1)
      BY <1>3, <2>1
    <2>3. Fine(m)
      <3> SUFFICES ASSUME NEW i, NEW j, NEW w, Span(t, i, j), j - i + 1 <= m,
                          \/ MeansChars(t, i, j, w) \/ MeansElements(t, i, j, w)
                          \/ MeansMembers(t, i, j, w)
                   PROVE  Tuple(w)
        BY Zenon
      <3> HIDE DEF Fine
      <3> QED
        BY <1>1, <2>1, <2>2, Zenon
    <2> QED
      BY <2>3 DEF m
  <1> HIDE DEF Fine
  <1>4. Nat \subseteq F
    <2>1. 0 \in F /\ \A n \in Nat : n \in F => n + 1 \in F
      BY <1>2, <1>3
    <2> HIDE DEF F
    <2> QED
      BY <2>1, Induct
  <1> SUFFICES ASSUME NEW i, NEW j, NEW w, Span(t, i, j),
                      \/ MeansChars(t, i, j, w) \/ MeansElements(t, i, j, w)
                      \/ MeansMembers(t, i, j, w)
               PROVE  Tuple(w)
    BY Zenon
  <1>5. j - i + 1 \in Nat
    BY PieceFacts
  <1> DEFINE n == j - i + 1
  <1>6. n \in Nat /\ j - i + 1 <= n
    BY <1>5
  <1> HIDE DEF n
  <1>7. Fine(n)
    BY <1>4, <1>6
  <1> QED
    BY <1>6, <1>7 DEF Fine

-----------------------------------------------------------------------------
(* A list is its first item and what follows it. *)
TailElements(t, p, j, more) ==
    \/ Nothing(t, p, j, more)
    \/ \E k \in p .. j : /\ t[k] = Comma /\ BlankSpan(t, p, k - 1)
                         /\ MeansElements(t, k + 1, j, more)

FirstElement(t, i, j, e, q, v, more) ==
    /\ q \in i .. j /\ MeansValue(t, i, q, v) /\ TailElements(t, q + 1, j, more)
    /\ e = << v >> \o more

TailMembers(t, p, j, more) ==
    \/ Nothing(t, p, j, more)
    \/ \E k \in p .. j : /\ t[k] = Comma /\ BlankSpan(t, p, k - 1)
                         /\ MeansMembers(t, k + 1, j, more)

FirstMember(t, i, j, e, c, q, key, v, more) ==
    /\ c \in i .. j /\ q \in c + 1 .. j /\ t[c] = Colon
    /\ MeansKey(t, i, c - 1, key) /\ MeansValue(t, c + 1, q, v)
    /\ TailMembers(t, q + 1, j, more)
    /\ e = << [key |-> key, value |-> v] >> \o more

(* What has a meaning has a byte that is no space. *)
LEMMA ValueLong ==
    ASSUME NEW t \in Text, NEW i, NEW j, Span(t, i, j), NEW v,
           MeansValue(t, i, j, v) \/ MeansKey(t, i, j, v)
    PROVE  i <= j
  <1>1. PICK a, b : Padded(t, i, a, b, j) /\ Inked(t, a, b)
    BY ValueSpan, KeySpan DEF Core, KeyCore
  <1>2. i \in Int /\ j \in Int
    BY PieceFacts
  <1>3. i <= a /\ a <= b /\ b <= j /\ a \in Int /\ b \in Int
    BY <1>1, <1>2, PaddedNat DEF Padded, Inked
  <1> QED
    BY <1>2, <1>3

(* Elements are a value, its end, and what follows it up to the bracket.   *)
LEMMA ElementsFirst ==
    ASSUME NEW t \in Text, NEW i, NEW j, Span(t, i, j), NEW e
    PROVE  MeansElements(t, i, j, e) <=>
             \E q, v, more : FirstElement(t, i, j, e, q, v, more)
  <1>0. i \in Nat /\ j \in Nat /\ i >= 1 /\ i <= j + 1 /\ j <= Len(t) /\ Len(t) \in Nat
    BY PieceFacts, TextFacts
  <1>1. ASSUME NEW v, MeansValue(t, i, j, v), e = << v >>
        PROVE  FirstElement(t, i, j, e, j, v, << >>)
    <2>1. i <= j
      BY <1>1, ValueLong
    <2>2. e = << v >> \o << >>
      BY <1>1, TupleFacts
    <2>3. Nothing(t, j + 1, j, << >>)
      BY <1>0 DEF Nothing, BlankSpan
    <2> QED
      BY <1>0, <1>1, <2>1, <2>2, <2>3 DEF FirstElement, TailElements
  <1>2. ASSUME NEW k \in i .. j, NEW v, NEW r, t[k] = Comma, MeansValue(t, i, k - 1, v),
               MeansElements(t, k + 1, j, r), e = << v >> \o r
        PROVE  FirstElement(t, i, j, e, k - 1, v, r)
    <2>1. Span(t, i, k - 1)
      BY SubSpan
    <2>2. i <= k - 1
      BY <1>2, <2>1, ValueLong
    <2>3. BlankSpan(t, k, k - 1)
      BY <1>0 DEF BlankSpan
    <2>4. (k - 1) + 1 = k /\ k \in k .. j /\ k - 1 \in i .. j
      BY <1>0, <2>2
    <2>5. TailElements(t, k, j, r)
      BY <1>2, <2>3, <2>4 DEF TailElements
    <2> QED
      BY <1>2, <2>4, <2>5 DEF FirstElement
  <1>3. ASSUME NEW q, NEW v, NEW more, FirstElement(t, i, j, e, q, v, more)
        PROVE  MeansElements(t, i, j, e)
    <2>1. q \in i .. j /\ MeansValue(t, i, q, v) /\ e = << v >> \o more /\ q \in Nat
      BY <1>0, <1>3 DEF FirstElement
    <2>1a. Span(t, i, q)
      BY <2>1, SubSpan
    <2>2. CASE Nothing(t, q + 1, j, more)
      <3>1. MeansValue(t, i, j, v)
        <4>1. i <= i /\ q <= j /\ BlankSpan(t, i, i - 1) /\ BlankSpan(t, q + 1, j)
          BY <1>0, <2>1, <2>2 DEF Nothing, BlankSpan
        <4> QED
          BY <2>1, <2>1a, <4>1, BlanksAround
      <3>2. e = << v >>
        <4>1. more = << >>
          BY <2>2 DEF Nothing
        <4>2. Tuple(<< v >>)
          BY TupleFacts
        <4> QED
          BY <2>1, <4>1, <4>2, TupleFacts
      <3> QED
        BY <3>1, <3>2, ElementsSpan DEF OneElement
    <2>3. ASSUME NEW k \in q + 1 .. j, t[k] = Comma, BlankSpan(t, q + 1, k - 1),
                 MeansElements(t, k + 1, j, more)
          PROVE  MeansElements(t, i, j, e)
      <3>1. k \in i .. j /\ k \in Nat
        BY <1>0, <2>1
      <3>2. Span(t, i, k - 1)
        BY <3>1, SubSpan
      <3>3. MeansValue(t, i, k - 1, v)
        <4>1. i <= i /\ q <= k - 1 /\ BlankSpan(t, i, i - 1)
          BY <1>0, <2>1, <3>1 DEF BlankSpan
        <4> QED
          BY <2>1, <2>1a, <2>3, <3>2, <4>1, BlanksAround
      <3> QED
        <4>1. MoreElements(t, i, j, e)
          BY <2>1, <2>3, <3>1, <3>3 DEF MoreElements
        <4> QED
          BY <4>1, ElementsSpan
    <2> QED
      BY <1>3, <2>2, <2>3 DEF FirstElement, TailElements
  <1>4. ASSUME MeansElements(t, i, j, e)
        PROVE  \E q, v, more : FirstElement(t, i, j, e, q, v, more)
    <2>1. OneElement(t, i, j, e) \/ MoreElements(t, i, j, e)
      BY <1>4, ElementsSpan
    <2> QED
      BY <1>1, <1>2, <2>1 DEF OneElement, MoreElements
  <1> QED
    BY <1>3, <1>4, Zenon

(* A member and what follows it, in the same way. *)
LEMMA MembersFirst ==
    ASSUME NEW t \in Text, NEW i, NEW j, Span(t, i, j), NEW e
    PROVE  MeansMembers(t, i, j, e) <=>
             \E c, q, key, v, more : FirstMember(t, i, j, e, c, q, key, v, more)
  <1>0. i \in Nat /\ j \in Nat /\ i >= 1 /\ i <= j + 1 /\ j <= Len(t) /\ Len(t) \in Nat
    BY PieceFacts, TextFacts
  <1>1. ASSUME NEW l, l \in i - 1 .. j, NEW m, NEW more,
               MeansMember(t, i, l, m), TailMembers(t, l + 1, j, more), e = << m >> \o more
        PROVE  \E c, q, key, v, more_1 : FirstMember(t, i, j, e, c, q, key, v, more_1)
    <2>0. Span(t, i, l) /\ l \in Int
      BY <1>0, <1>1 DEF Span
    <2>1. PICK c, key, v :
             /\ c \in i .. l /\ t[c] = Colon /\ MeansKey(t, i, c - 1, key)
             /\ MeansValue(t, c + 1, l, v) /\ m = [key |-> key, value |-> v]
      BY <1>1, <2>0, MemberSpan
    <2>2. Span(t, c + 1, l)
      BY <2>0, <2>1, SubSpan
    <2>3. c + 1 <= l
      BY <2>1, <2>2, ValueLong
    <2>4. c \in i .. j /\ l \in c + 1 .. j
      BY <1>0, <1>1, <2>0, <2>1, <2>3
    <2>5. FirstMember(t, i, j, e, c, l, key, v, more)
      BY <1>1, <2>1, <2>4 DEF FirstMember
    <2> QED
      BY <2>5
  <1>2. ASSUME MeansMembers(t, i, j, e)
        PROVE  \E c, q, key, v, more : FirstMember(t, i, j, e, c, q, key, v, more)
    <2>1. CASE OneMember(t, i, j, e)
      <3>1. PICK m : MeansMember(t, i, j, m) /\ e = << m >>
        BY <2>1 DEF OneMember
      <3>2. e = << m >> \o << >>
        BY <3>1, TupleFacts
      <3>3. TailMembers(t, j + 1, j, << >>) /\ j \in i - 1 .. j
        BY <1>0 DEF Nothing, BlankSpan, TailMembers
      <3> QED
        BY <1>1, <3>1, <3>2, <3>3
    <2>2. CASE MoreMembers(t, i, j, e)
      <3>1. PICK k, m, r :
                  /\ k \in i .. j /\ t[k] = Comma /\ MeansMember(t, i, k - 1, m)
                  /\ MeansMembers(t, k + 1, j, r) /\ e = << m >> \o r
        BY <2>2 DEF MoreMembers
      <3>2. BlankSpan(t, k, k - 1)
        BY <1>0, <3>1 DEF BlankSpan
      <3>3. (k - 1) + 1 = k /\ k \in k .. j /\ k - 1 \in i - 1 .. j
        BY <1>0, <3>1
      <3>4. TailMembers(t, k, j, r)
        BY <3>1, <3>2, <3>3 DEF TailMembers
      <3>5. TailMembers(t, (k - 1) + 1, j, r)
        BY <3>3, <3>4
      <3> QED
        BY <1>1, <3>1, <3>3, <3>5
    <2> QED
      BY <1>2, <2>1, <2>2, MembersSpan
  <1>3. ASSUME NEW c, NEW q, NEW key, NEW v, NEW more,
               FirstMember(t, i, j, e, c, q, key, v, more)
        PROVE  MeansMembers(t, i, j, e)
    <2> DEFINE m == [key |-> key, value |-> v]
    <2>1. /\ c \in i .. j /\ q \in c + 1 .. j /\ t[c] = Colon /\ c \in Nat /\ q \in Nat
          /\ MeansKey(t, i, c - 1, key) /\ MeansValue(t, c + 1, q, v)
          /\ TailMembers(t, q + 1, j, more) /\ e = << m >> \o more
      BY <1>0, <1>3 DEF FirstMember
    <2> HIDE DEF m
    <2>2. ASSUME NEW l \in q .. j, BlankSpan(t, q + 1, l)
          PROVE  MeansMember(t, i, l, m)
      <3>1. Span(t, i, l) /\ Span(t, c + 1, l) /\ Span(t, c + 1, q) /\ c \in i .. l
        BY <1>0, <2>1, <2>2 DEF Span
      <3>2. MeansValue(t, c + 1, l, v)
        <4>1. c + 1 <= c + 1 /\ q <= l /\ BlankSpan(t, c + 1, (c + 1) - 1)
          BY <2>1 DEF BlankSpan
        <4> QED
          BY <2>1, <2>2, <3>1, <4>1, BlanksAround
      <3> QED
        BY <2>1, <3>1, <3>2, MemberSpan DEF m
    <2>3. CASE Nothing(t, q + 1, j, more)
      <3>1. j \in q .. j /\ BlankSpan(t, q + 1, j)
        BY <1>0, <2>1, <2>3 DEF Nothing
      <3>2. MeansMember(t, i, j, m)
        BY <2>2, <3>1
      <3>3. e = << m >>
        <4>1. more = << >>
          BY <2>3 DEF Nothing
        <4>2. Tuple(<< m >>)
          BY TupleFacts
        <4> QED
          BY <2>1, <4>1, <4>2, TupleFacts
      <3> QED
        BY <3>2, <3>3, MembersSpan DEF OneMember
    <2>4. ASSUME NEW k \in q + 1 .. j, t[k] = Comma, BlankSpan(t, q + 1, k - 1),
                 MeansMembers(t, k + 1, j, more)
          PROVE  MeansMembers(t, i, j, e)
      <3>1. k \in i .. j /\ k - 1 \in q .. j
        BY <1>0, <2>1
      <3>2. MeansMember(t, i, k - 1, m)
        BY <2>2, <2>4, <3>1
      <3> QED
        <4>1. MoreMembers(t, i, j, e)
          BY <2>1, <2>4, <3>1, <3>2 DEF MoreMembers
        <4> QED
          BY <4>1, MembersSpan
    <2> QED
      BY <2>1, <2>3, <2>4 DEF TailMembers
  <1> QED
    BY <1>2, <1>3, Zenon

-----------------------------------------------------------------------------
(***************************************************************************)
(* Part 3.  parse_number and the grammar of numbers                        *)
(***************************************************************************)

(* parse_number, part by part. *)
DigitsAt(t, k) == [ok |-> ByteAt(t, k) \in Digits, end |-> AfterAll(t, k, Digits)]
StartAt(t, n) == IF ByteAt(t, n) = Minus THEN n + 1 ELSE n
WholeAt(t, n) == IF ByteAt(t, StartAt(t, n)) = Zero
                 THEN [ok |-> TRUE, end |-> StartAt(t, n) + 1]
                 ELSE DigitsAt(t, StartAt(t, n))
FractionAt(t, n) == IF WholeAt(t, n).ok /\ ByteAt(t, WholeAt(t, n).end) = Dot
                    THEN DigitsAt(t, WholeAt(t, n).end + 1) ELSE WholeAt(t, n)
PowerAt(t, n) == FractionAt(t, n).end
                   + (IF ByteAt(t, FractionAt(t, n).end + 1) \in {Plus, Minus} THEN 2 ELSE 1)

(* parse_number, from these parts.                                         *)
LEMMA ParseNumberIs ==
    ASSUME NEW t, NEW n
    PROVE  parse_number(t, n) =
             IF FractionAt(t, n).ok /\ ByteAt(t, FractionAt(t, n).end) \in {69, 101}
             THEN DigitsAt(t, PowerAt(t, n)) ELSE FractionAt(t, n)
  BY Zenon DEF parse_number, DigitsAt, StartAt, WholeAt, FractionAt, PowerAt

(* Digits from i to j, at least one. *)
Digs(t, i, j) == i <= j /\ \A k \in i .. j : t[k] \in Digits
WholeSpan(t, i, j) ==
    /\ i <= j
    /\ LET start == IF t[i] = Minus THEN i + 1 ELSE i
       IN  Digs(t, start, j) /\ (t[start] = Zero => start = j)
FractionSpan(t, i, j) == j = i - 1 \/ (i <= j /\ t[i] = Dot /\ Digs(t, i + 1, j))
ExponentSpan(t, i, j) ==
    \/ j = i - 1
    \/ /\ i <= j /\ t[i] \in {69, 101}
       /\ Digs(t, IF i + 1 <= j /\ t[i + 1] \in {Plus, Minus} THEN i + 2 ELSE i + 1, j)

(* skip_space and the like stop at the first byte of another class. *)
LEMMA AfterAllIs ==
    ASSUME NEW t \in Text, NEW class, 0 \notin class, NEW n \in 1 .. Len(t) + 1
    PROVE  /\ AfterAll(t, n, class) \in n .. Len(t) + 1
           /\ \A k \in n .. AfterAll(t, n, class) - 1 : t[k] \in class
           /\ ByteAt(t, AfterAll(t, n, class)) \notin class
           /\ \A m \in n .. Len(t) + 1 :
                 /\ \A k \in n .. m - 1 : t[k] \in class
                 /\ ByteAt(t, m) \notin class
                 => m = AfterAll(t, n, class)
  <1> DEFINE N == Len(t)
             M == {m \in n .. N + 1 : ByteAt(t, m) \notin class}
             a == AfterAll(t, n, class)
  <1>1. N \in Nat /\ n \in Nat /\ n >= 1
    BY TextFacts
  <1>2. N + 1 \in M
    BY <1>1 DEF ByteAt
  <1>3. a \in M /\ \A y \in M : a <= y
    <2>1. M \subseteq Nat /\ M # {}
      BY <1>1, <1>2
    <2>2. a = Min(M)
      BY DEF AfterAll
    <2> HIDE DEF M, a
    <2> QED
      BY <2>1, <2>2, MinFacts
  <1> HIDE DEF a
  <1>4. a \in n .. N + 1 /\ ByteAt(t, a) \notin class /\ a \in Nat
    BY <1>1, <1>3
  <1>5. ASSUME NEW k \in n .. a - 1
        PROVE  t[k] \in class
    <2>1. k \in n .. N + 1 /\ k \in 1 .. N /\ ~(a <= k)
      BY <1>1, <1>4
    <2>2. k \notin M
      BY <1>3, <2>1
    <2>3. ByteAt(t, k) \in class
      BY <2>1, <2>2
    <2> QED
      BY <2>1, <2>3 DEF ByteAt
  <1>6. ASSUME NEW m \in n .. N + 1, \A k \in n .. m - 1 : t[k] \in class,
               ByteAt(t, m) \notin class
        PROVE  m = a
    <2>1. m \in M
      BY <1>6
    <2>2. a <= m
      BY <1>3, <2>1
    <2>3. ASSUME a < m PROVE FALSE
      <3>1. a \in n .. m - 1 /\ a \in 1 .. N
        BY <1>1, <1>4, <1>6, <2>3
      <3>2. ByteAt(t, a) = t[a]
        BY <3>1 DEF ByteAt
      <3> QED
        BY <1>4, <1>6, <3>1, <3>2
    <2> QED
      BY <1>4, <1>6, <2>2, <2>3
  <1> QED
    BY <1>4, <1>5, <1>6 DEF a

(* Where a run of digits ends.                                             *)
LEMMA DigitsAtFacts ==
    ASSUME NEW t \in Text, NEW n \in 1 .. Len(t) + 1
    PROVE  LET d == DigitsAt(t, n)
           IN  /\ d.end \in n .. Len(t) + 1
               /\ d.ok => Digs(t, n, d.end - 1)
               /\ ByteAt(t, d.end) \notin Digits
               /\ \A m \in n .. Len(t) : Digs(t, n, m) /\ ByteAt(t, m + 1) \notin Digits =>
                     d.ok /\ d.end = m + 1
  <1> DEFINE e == AfterAll(t, n, Digits)
             N == Len(t)
  <1>0. N \in Nat /\ n \in Nat /\ n >= 1 /\ n <= N + 1
    BY TextFacts
  <1>1. DigitsAt(t, n).end = e /\ (DigitsAt(t, n).ok <=> ByteAt(t, n) \in Digits)
    BY DEF DigitsAt
  <1>2. /\ e \in n .. N + 1
        /\ \A k \in n .. e - 1 : t[k] \in Digits
        /\ ByteAt(t, e) \notin Digits
        /\ \A m \in n .. N + 1 :
              (\A k \in n .. m - 1 : t[k] \in Digits) /\ ByteAt(t, m) \notin Digits => m = e
    <2>1. 0 \notin Digits
      BY DEF Digits
    <2> QED
      BY <2>1, AfterAllIs
  <1> HIDE DEF e
  <1>3. ByteAt(t, n) \in Digits => n # e /\ Digs(t, n, e - 1)
    BY <1>0, <1>2 DEF Digs
  <1>4. ASSUME NEW m \in n .. N, Digs(t, n, m), ByteAt(t, m + 1) \notin Digits
        PROVE  ByteAt(t, n) \in Digits /\ e = m + 1
    <2>1. m + 1 \in n .. N + 1 /\ m + 1 - 1 = m /\ n <= m /\ n \in 1 .. N
      BY <1>0, <1>4
    <2>2. \A k \in n .. m + 1 - 1 : t[k] \in Digits
      BY <1>4, <2>1 DEF Digs
    <2>3. m + 1 = e
      BY <1>2, <1>4, <2>1, <2>2
    <2>4. t[n] \in Digits
      BY <1>0, <1>4, <2>1 DEF Digs
    <2> QED
      BY <2>1, <2>3, <2>4 DEF ByteAt
  <1> QED
    BY <1>1, <1>2, <1>3, <1>4

(* The grammar of numbers, by places. *)
LEMMA NumeralSpan ==
    ASSUME NEW t \in Text, NEW i, NEW j, Span(t, i, j)
    PROVE  /\ Numeral(Piece(t, i, j)) <=> Digs(t, i, j)
           /\ i <= j <=> Piece(t, i, j) # << >>
           /\ \A bytes : Starts(Piece(t, i, j), bytes) <=> i <= j /\ t[i] \in bytes
           /\ i <= j => Tail(Piece(t, i, j)) = Piece(t, i + 1, j) /\ Span(t, i + 1, j)
  <1> DEFINE u == Piece(t, i, j)
             n == j - i + 1
  <1>1. /\ u \in Text /\ Len(u) = n /\ n \in Nat /\ DOMAIN u = 1 .. n
        /\ \A m \in 1 .. n : u[m] = t[i + m - 1]
        /\ i \in Nat /\ i >= 1 /\ j \in Nat /\ i <= j + 1 /\ j <= Len(t)
    BY PieceFacts
  <1> HIDE DEF u
  <1>2. i <= j <=> u # << >>
    <2>1. u # << >> <=> Len(u) # 0
      BY EmptySeq, <1>1 DEF Text
    <2> QED
      BY <1>1, <2>1
  <1>3. i <= j => u[1] = t[i]
    <2>1. i <= j => 1 \in 1 .. n /\ i + 1 - 1 = i
      BY <1>1
    <2> QED
      BY <1>1, <2>1
  <1>4. Numeral(u) <=> Digs(t, i, j)
    <2>1. ASSUME \A m \in DOMAIN u : u[m] \in Digits, NEW k \in i .. j
          PROVE  t[k] \in Digits
      <3>1. k - i + 1 \in 1 .. n /\ i + (k - i + 1) - 1 = k
        BY <1>1
      <3> QED
        BY <1>1, <2>1, <3>1
    <2>2. ASSUME \A k \in i .. j : t[k] \in Digits, NEW m \in DOMAIN u
          PROVE  u[m] \in Digits
      <3>1. i + m - 1 \in i .. j /\ m \in 1 .. n
        BY <1>1
      <3> QED
        BY <1>1, <2>2, <3>1
    <2> QED
      BY <1>2, <2>1, <2>2 DEF Numeral, Digs
  <1>5. \A bytes : Starts(u, bytes) <=> i <= j /\ t[i] \in bytes
    BY <1>2, <1>3 DEF Starts
  <1>6. ASSUME i <= j
        PROVE  Tail(u) = Piece(t, i + 1, j) /\ Span(t, i + 1, j)
    <2>1. Span(u, 2, Len(u)) /\ u = Piece(t, i, j)
      BY <1>1, <1>6 DEF Span, u
    <2>2. Tail(u) = SubSeq(u, 2, Len(u))
      <3>1. u \in Seq(1 .. 255) /\ u # << >>
        BY <1>1, <1>2, <1>6 DEF Text
      <3> QED
        BY <3>1, TailIsSubSeq
    <2>3. SubSeq(u, 2, Len(u)) = Piece(t, i + 2 - 1, i + Len(u) - 1)
      <3>1. \A k_1, l : Span(u, k_1, l) => SubSeq(u, k_1, l) = Piece(t, i + k_1 - 1, i + l - 1)
        BY <2>1, PieceWithin
      <3> QED
        BY <2>1, <3>1, Zenon
    <2>4. i + 2 - 1 = i + 1 /\ i + Len(u) - 1 = j
      BY <1>1
    <2>5. Span(t, i + 1, j)
      BY <1>1, <1>6, TextFacts DEF Span
    <2> QED
      BY <2>2, <2>3, <2>4, <2>5
  <1>7. i <= j => Tail(u) = Piece(t, i + 1, j) /\ Span(t, i + 1, j)
    BY <1>6
  <1> QED
    BY <1>2, <1>4, <1>5, <1>7, Zenon DEF u

(* The parser of the part before the point against the grammar of it.      *)
LEMMA WholeIs ==
    ASSUME NEW t \in Text, NEW i, NEW j, Span(t, i, j)
    PROVE  IsWhole(Piece(t, i, j)) <=> WholeSpan(t, i, j)
  <1> DEFINE u == Piece(t, i, j)
             d == Without(u, {Minus})
  <1>1. i \in Nat /\ i >= 1 /\ j \in Nat /\ i <= j + 1
    BY PieceFacts
  <1>2. ASSUME NEW k, k \in {i, i + 1}, Span(t, k, j), d = Piece(t, k, j)
        PROVE  IsWhole(u) <=> Digs(t, k, j) /\ (t[k] = Zero => k = j)
    <2>1. Numeral(d) <=> Digs(t, k, j)
      BY <1>2, NumeralSpan
    <2>2. IsWhole(u) <=> Numeral(d) /\ (d[1] = Zero => Len(d) = 1)
      BY DEF IsWhole
    <2>3. Digs(t, k, j) => d[1] = t[k] /\ (Len(d) = 1 <=> k = j)
      <3> SUFFICES ASSUME Digs(t, k, j) PROVE d[1] = t[k] /\ (Len(d) = 1 <=> k = j)
        OBVIOUS
      <3>1. /\ Len(d) = j - k + 1 /\ \A m \in 1 .. j - k + 1 : d[m] = t[k + m - 1]
            /\ k \in Nat /\ k <= j
        <4> DEFINE y == Piece(t, k, j)
        <4>1. /\ Len(y) = j - k + 1 /\ \A m \in 1 .. j - k + 1 : y[m] = t[k + m - 1]
              /\ k \in Nat
          BY <1>2, PieceFacts
        <4>2. k <= j
          BY DEF Digs
        <4>3. d = y
          BY <1>2
        <4> HIDE DEF d, y
        <4> QED
          BY <4>1, <4>2, <4>3
      <3> HIDE DEF d
      <3>2. 1 \in 1 .. j - k + 1 /\ k + 1 - 1 = k
        BY <1>1, <3>1
      <3>3. d[1] = t[k]
        BY <3>1, <3>2
      <3> QED
        BY <1>1, <3>1, <3>3
    <2> HIDE DEF d
    <2> QED
      BY <2>1, <2>2, <2>3
  <1>3. CASE i <= j /\ t[i] = Minus
    <2>1. Starts(u, {Minus}) /\ Tail(u) = Piece(t, i + 1, j) /\ Span(t, i + 1, j)
      BY <1>3, NumeralSpan
    <2>2. d = Piece(t, i + 1, j)
      BY <2>1 DEF Without
    <2>3. IsWhole(u) <=> Digs(t, i + 1, j) /\ (t[i + 1] = Zero => i + 1 = j)
      BY <1>2, <2>1, <2>2
    <2> QED
      BY <1>1, <1>3, <2>3 DEF WholeSpan
  <1>4. CASE ~(i <= j /\ t[i] = Minus)
    <2>1. ~Starts(u, {Minus})
      BY <1>4, NumeralSpan
    <2>2. d = Piece(t, i, j)
      BY <2>1 DEF Without
    <2>3. IsWhole(u) <=> Digs(t, i, j) /\ (t[i] = Zero => i = j)
      BY <1>2, <2>2
    <2>4. Digs(t, i, j) => i <= j
      BY DEF Digs
    <2> QED
      BY <1>4, <2>3, <2>4 DEF WholeSpan
  <1> QED
    BY <1>3, <1>4

(* The parser of the part after the point against the grammar of it.       *)
LEMMA FractionIs ==
    ASSUME NEW t \in Text, NEW i, NEW j, Span(t, i, j)
    PROVE  /\ IsFraction(Piece(t, i, j)) <=> FractionSpan(t, i, j)
           /\ IsExponent(Piece(t, i, j)) <=> ExponentSpan(t, i, j)
  <1> DEFINE u == Piece(t, i, j)
  <1>1. i \in Nat /\ i >= 1 /\ j \in Nat /\ i <= j + 1
    BY PieceFacts
  <1>2. /\ i <= j <=> u # << >>
        /\ \A bytes : Starts(u, bytes) <=> i <= j /\ t[i] \in bytes
        /\ i <= j => Tail(u) = Piece(t, i + 1, j) /\ Span(t, i + 1, j)
    BY NumeralSpan
  <1> HIDE DEF u
  <1>3. CASE i > j
    <2>1. u = << >> /\ j = i - 1
      BY <1>1, <1>2, <1>3
    <2> QED
      BY <1>1, <1>3, <2>1 DEF IsFraction, IsExponent, FractionSpan, ExponentSpan, u
  <1>4. CASE i <= j
    <2> DEFINE y == Piece(t, i + 1, j)
    <2>1. u # << >> /\ Tail(u) = y /\ Span(t, i + 1, j) /\ j # i - 1
      BY <1>1, <1>2, <1>4
    <2>2. /\ Numeral(y) <=> Digs(t, i + 1, j)
          /\ \A bytes : Starts(y, bytes) <=> i + 1 <= j /\ t[i + 1] \in bytes
          /\ i + 1 <= j => Tail(y) = Piece(t, i + 1 + 1, j) /\ Span(t, i + 1 + 1, j)
      BY <2>1, NumeralSpan
    <2>3. IsFraction(u) <=> FractionSpan(t, i, j)
      <3>1. Starts(u, {Dot}) <=> t[i] = Dot
        BY <1>2, <1>4
      <3>2. IsFraction(u) <=> Starts(u, {Dot}) /\ Numeral(y)
        BY <2>1, Zenon DEF IsFraction
      <3> HIDE DEF y
      <3> QED
        BY <1>4, <2>1, <2>2, <3>1, <3>2 DEF FractionSpan
    <2>4. Numeral(Without(y, {Plus, Minus})) <=>
            Digs(t, IF i + 1 <= j /\ t[i + 1] \in {Plus, Minus} THEN i + 2 ELSE i + 1, j)
      <3>1. CASE i + 1 <= j /\ t[i + 1] \in {Plus, Minus}
        <4>1. Without(y, {Plus, Minus}) = Tail(y)
          BY <2>2, <3>1 DEF Without
        <4>2. i + 1 + 1 = i + 2
          BY <1>1
        <4>3. Without(y, {Plus, Minus}) = Piece(t, i + 2, j) /\ Span(t, i + 2, j)
          BY <2>2, <3>1, <4>1, <4>2
        <4> QED
          BY <3>1, <4>3, NumeralSpan
      <3>2. CASE ~(i + 1 <= j /\ t[i + 1] \in {Plus, Minus})
        <4>1. Without(y, {Plus, Minus}) = y
          BY <2>2, <3>2 DEF Without
        <4> QED
          BY <2>2, <3>2, <4>1
      <3> QED
        BY <3>1, <3>2
    <2>5. IsExponent(u) <=> ExponentSpan(t, i, j)
      BY <1>2, <1>4, <2>1, <2>4 DEF IsExponent, ExponentSpan
    <2> QED
      BY <2>3, <2>5 DEF u
  <1> QED
    BY <1>1, <1>3, <1>4

(* To part a piece in two is to choose a place.                            *)
LEMMA PartsSpan ==
    ASSUME NEW t \in Text, NEW i, NEW j, Span(t, i, j)
    PROVE  /\ \A p \in Parts(Piece(t, i, j)) : \E k \in i - 1 .. j :
                 p[1] = Piece(t, i, k) /\ p[2] = Piece(t, k + 1, j)
           /\ \A k \in i - 1 .. j : \E p \in Parts(Piece(t, i, j)) :
                 p[1] = Piece(t, i, k) /\ p[2] = Piece(t, k + 1, j)
  <1> DEFINE u == Piece(t, i, j)
  <1>1. /\ u \in Text /\ Len(u) = j - i + 1
        /\ i \in Nat /\ i >= 1 /\ j \in Nat /\ i <= j + 1 /\ j <= Len(t)
    BY PieceFacts
  <1>1a. u = Piece(t, i, j)
    OBVIOUS
  <1> HIDE DEF u
  <1>2. ASSUME NEW n \in 0 .. Len(u), NEW k, k = i + n - 1
        PROVE  /\ SubSeq(u, 1, n) = Piece(t, i, k)
               /\ SubSeq(u, n + 1, Len(u)) = Piece(t, k + 1, j)
    <2>1. Span(u, 1, n) /\ Span(u, n + 1, Len(u))
      BY <1>1 DEF Span
    <2>2. \A k_1, l : Span(u, k_1, l) => SubSeq(u, k_1, l) = Piece(t, i + k_1 - 1, i + l - 1)
      BY <1>1a, PieceWithin
    <2>3. SubSeq(u, 1, n) = Piece(t, i + 1 - 1, i + n - 1)
      BY <2>1, <2>2, Zenon
    <2>4. SubSeq(u, n + 1, Len(u)) = Piece(t, i + (n + 1) - 1, i + Len(u) - 1)
      BY <2>1, <2>2, Zenon
    <2>5. i + 1 - 1 = i /\ i + (n + 1) - 1 = k + 1 /\ i + Len(u) - 1 = j
      BY <1>1, <1>2
    <2> QED
      BY <1>2, <2>3, <2>4, <2>5
  <1>3. \A p : p \in Parts(u) <=> \E n \in 0 .. Len(u) :
                   p = << SubSeq(u, 1, n), SubSeq(u, n + 1, Len(u)) >>
    BY DEF Parts
  <1>4. ASSUME NEW p \in Parts(u)
        PROVE  \E k \in i - 1 .. j : p[1] = Piece(t, i, k) /\ p[2] = Piece(t, k + 1, j)
    <2>1. PICK n \in 0 .. Len(u) : p = << SubSeq(u, 1, n), SubSeq(u, n + 1, Len(u)) >>
      BY <1>3
    <2> DEFINE k == i + n - 1
    <2>2. p[1] = Piece(t, i, k) /\ p[2] = Piece(t, k + 1, j)
      BY <1>2, <2>1
    <2>3. k \in i - 1 .. j
      BY <1>1
    <2> QED
      BY <2>2, <2>3
  <1>5. ASSUME NEW k \in i - 1 .. j
        PROVE  \E p \in Parts(u) : p[1] = Piece(t, i, k) /\ p[2] = Piece(t, k + 1, j)
    <2> DEFINE n == k - i + 1
    <2>1. n \in 0 .. Len(u) /\ k = i + n - 1
      BY <1>1
    <2> HIDE DEF n
    <2> DEFINE p == << SubSeq(u, 1, n), SubSeq(u, n + 1, Len(u)) >>
    <2>2. p \in Parts(u)
      BY <1>3, <2>1
    <2>3. p[1] = Piece(t, i, k) /\ p[2] = Piece(t, k + 1, j)
      BY <1>2, <2>1
    <2> HIDE DEF p
    <2> QED
      BY <2>2, <2>3
  <1> QED
    BY <1>1a, <1>4, <1>5

NumberSpan(t, i, j, k, l) ==
    /\ k \in i - 1 .. j /\ l \in k .. j
    /\ WholeSpan(t, i, k) /\ FractionSpan(t, k + 1, l) /\ ExponentSpan(t, l + 1, j)

(* A number by the places where its parts end.                             *)
LEMMA NumberIs ==
    ASSUME NEW t \in Text, NEW i, NEW j, Span(t, i, j)
    PROVE  IsNumber(Piece(t, i, j)) <=> \E k, l : NumberSpan(t, i, j, k, l)
  <1>1. i \in Nat /\ i >= 1 /\ j \in Nat /\ i <= j + 1 /\ j <= Len(t) /\ Len(t) \in Nat
    BY PieceFacts, TextFacts
  <1>2. ASSUME NEW k \in i - 1 .. j, NEW l \in k .. j
        PROVE  /\ Span(t, i, k) /\ Span(t, k + 1, j) /\ Span(t, k + 1, l) /\ Span(t, l + 1, j)
               /\ l \in (k + 1) - 1 .. j
    BY <1>1 DEF Span
  <1>3. ASSUME IsNumber(Piece(t, i, j))
        PROVE  \E k, l : NumberSpan(t, i, j, k, l)
    <2>1. PICK p \in Parts(Piece(t, i, j)) : \E q \in Parts(p[2]) :
            IsWhole(p[1]) /\ IsFraction(q[1]) /\ IsExponent(q[2])
      BY <1>3 DEF IsNumber
    <2>2. PICK q \in Parts(p[2]) : IsWhole(p[1]) /\ IsFraction(q[1]) /\ IsExponent(q[2])
      BY <2>1
    <2>3. PICK k \in i - 1 .. j : p[1] = Piece(t, i, k) /\ p[2] = Piece(t, k + 1, j)
      BY PartsSpan
    <2>3a. k \in Int /\ k \in k .. j
      BY <1>1
    <2>4. Span(t, i, k) /\ Span(t, k + 1, j)
      BY <1>2, <2>3a
    <2>5. PICK l \in (k + 1) - 1 .. j : q[1] = Piece(t, k + 1, l) /\ q[2] = Piece(t, l + 1, j)
      BY <2>2, <2>3, <2>4, PartsSpan
    <2>6. l \in k .. j
      BY <2>3a
    <2>7. Span(t, k + 1, l) /\ Span(t, l + 1, j)
      BY <1>2, <2>6
    <2>8. WholeSpan(t, i, k) /\ FractionSpan(t, k + 1, l) /\ ExponentSpan(t, l + 1, j)
      BY <2>2, <2>3, <2>4, <2>5, <2>7, WholeIs, FractionIs
    <2> QED
      BY <2>6, <2>8 DEF NumberSpan
  <1>4. ASSUME NEW k, NEW l, NumberSpan(t, i, j, k, l)
        PROVE  IsNumber(Piece(t, i, j))
    <2>1. k \in i - 1 .. j /\ l \in k .. j
      BY <1>4 DEF NumberSpan
    <2>2. /\ Span(t, i, k) /\ Span(t, k + 1, j) /\ Span(t, k + 1, l) /\ Span(t, l + 1, j)
          /\ l \in (k + 1) - 1 .. j
      BY <1>2, <2>1
    <2>3. PICK p \in Parts(Piece(t, i, j)) : p[1] = Piece(t, i, k) /\ p[2] = Piece(t, k + 1, j)
      BY <2>1, PartsSpan
    <2>4. PICK q \in Parts(Piece(t, k + 1, j)) :
             q[1] = Piece(t, k + 1, l) /\ q[2] = Piece(t, l + 1, j)
      <3> DEFINE m == k + 1
      <3>1. Span(t, m, j) /\ l \in m - 1 .. j
        BY <2>2, Zenon
      <3>2. \A k_1 \in m - 1 .. j : \E p_1 \in Parts(Piece(t, m, j)) :
               p_1[1] = Piece(t, m, k_1) /\ p_1[2] = Piece(t, k_1 + 1, j)
        BY <3>1, PartsSpan
      <3> QED
        BY <3>1, <3>2, Zenon DEF m
    <2>5. IsWhole(p[1]) /\ IsFraction(q[1]) /\ IsExponent(q[2])
      BY <1>4, <2>2, <2>3, <2>4, WholeIs, FractionIs DEF NumberSpan
    <2> QED
      BY <2>3, <2>4, <2>5 DEF IsNumber
  <1> QED
    BY <1>3, <1>4

-----------------------------------------------------------------------------
(* What parse_number takes is a number of the grammar ...                  *)
THEOREM NumberSound ==
    ASSUME NEW t \in Text, NEW n \in 1 .. Len(t) + 1, parse_number(t, n).ok
    PROVE  LET e == parse_number(t, n).end
           IN  e \in n + 1 .. Len(t) + 1 /\ IsNumber(Piece(t, n, e - 1))
  <1> DEFINE N == Len(t)
             start == StartAt(t, n)
             whole == WholeAt(t, n)
             fraction == FractionAt(t, n)
             power == PowerAt(t, n)
             e == parse_number(t, n).end
  <1>1. N \in Nat /\ n \in Nat /\ n >= 1 /\ n <= N + 1
    BY TextFacts
  <1>2. /\ start = IF ByteAt(t, n) = Minus THEN n + 1 ELSE n
        /\ whole = IF ByteAt(t, start) = Zero THEN [ok |-> TRUE, end |-> start + 1]
                   ELSE DigitsAt(t, start)
        /\ fraction = IF whole.ok /\ ByteAt(t, whole.end) = Dot
                      THEN DigitsAt(t, whole.end + 1) ELSE whole
        /\ power = fraction.end
                     + (IF ByteAt(t, fraction.end + 1) \in {Plus, Minus} THEN 2 ELSE 1)
        /\ parse_number(t, n) =
             IF fraction.ok /\ ByteAt(t, fraction.end) \in {69, 101}
             THEN DigitsAt(t, power) ELSE fraction
    BY ParseNumberIs, Zenon DEF StartAt, WholeAt, FractionAt, PowerAt
  <1> HIDE DEF start, whole, fraction, power, N
  <1>3. ASSUME NEW k \in 1 .. N + 1
        PROVE  /\ ByteAt(t, k) # 0 => k \in 1 .. N /\ t[k] = ByteAt(t, k) /\ k + 1 \in 1 .. N + 1
               /\ k \in 1 .. N => ByteAt(t, k) = t[k]
    BY <1>1 DEF ByteAt, N
  <1>4. ASSUME NEW k \in 1 .. N + 1
        PROVE  /\ DigitsAt(t, k).end \in k .. N + 1
               /\ DigitsAt(t, k).ok => Digs(t, k, DigitsAt(t, k).end - 1)
    BY DigitsAtFacts DEF N
  <1>5. start \in n .. N + 1 /\ start \in {n, n + 1}
        /\ (start = n + 1 => n \in 1 .. N /\ t[n] = Minus)
        /\ (start = n => ByteAt(t, n) # Minus)
    BY <1>1, <1>2, <1>3 DEF Minus
  <1>6. fraction.ok
    <2>1. CASE ~fraction.ok
      BY <1>2, <2>1
    <2> QED
      BY <2>1
  <1>7. whole.ok
    BY <1>2, <1>6
  <1>8. /\ whole.end - 1 \in n .. N /\ WholeSpan(t, n, whole.end - 1) /\ whole.end \in n + 1 .. N + 1
        /\ whole.end \in 1 .. N + 1
    <2> DEFINE w == whole.end
    <2>1. CASE ByteAt(t, start) = Zero
      <3>1. w = start + 1
        BY <1>2, <2>1
      <3>2. start \in 1 .. N /\ t[start] = Zero
        BY <1>1, <1>3, <1>5, <2>1 DEF Zero
      <3>3. Digs(t, start, start)
        BY <3>2 DEF Digs, Digits, Zero
      <3>4. w - 1 = start
        BY <1>5, <3>1
      <3>5. WholeSpan(t, n, start)
        BY <1>1, <1>3, <1>5, <3>2, <3>3 DEF WholeSpan
      <3> QED
        BY <1>1, <1>5, <3>1, <3>2, <3>4, <3>5
    <2>2. CASE ByteAt(t, start) # Zero
      <3>1. whole = DigitsAt(t, start)
        BY <1>2, <2>2
      <3>2. start \in 1 .. N + 1
        BY <1>1, <1>5
      <3>3. w \in start .. N + 1 /\ Digs(t, start, w - 1)
        BY <1>4, <1>7, <3>1, <3>2
      <3> HIDE DEF w
      <3>4. start <= w - 1 /\ w - 1 \in n .. N /\ w \in n + 1 .. N + 1 /\ w \in 1 .. N + 1
        BY <1>1, <1>5, <3>3 DEF Digs
      <3>5. t[start] # Zero /\ start \in 1 .. N
        BY <1>1, <1>3, <1>5, <2>2, <3>4
      <3>6. WholeSpan(t, n, w - 1)
        BY <1>1, <1>3, <1>5, <3>3, <3>4, <3>5 DEF WholeSpan
      <3> QED
        BY <3>4, <3>6 DEF w
    <2> QED
      BY <2>1, <2>2
  <1>9. /\ fraction.end \in whole.end .. N + 1
        /\ FractionSpan(t, whole.end, fraction.end - 1)
    <2>1. CASE whole.ok /\ ByteAt(t, whole.end) = Dot
      <3>1. fraction = DigitsAt(t, whole.end + 1)
        BY <1>2, <2>1
      <3>2. whole.end + 1 \in 1 .. N + 1 /\ t[whole.end] = Dot
        BY <1>3, <1>8, <2>1 DEF Dot
      <3>3. fraction.end \in whole.end + 1 .. N + 1 /\ Digs(t, whole.end + 1, fraction.end - 1)
        BY <1>4, <1>6, <3>1, <3>2
      <3> QED
        BY <1>1, <1>8, <3>2, <3>3 DEF FractionSpan, Digs
    <2>2. CASE ~(whole.ok /\ ByteAt(t, whole.end) = Dot)
      <3>1. fraction = whole
        BY <1>2, <2>2
      <3> QED
        BY <1>1, <1>8, <3>1 DEF FractionSpan
    <2> QED
      BY <2>1, <2>2
  <1>10. e \in fraction.end .. N + 1 /\ ExponentSpan(t, fraction.end, e - 1)
    <2> DEFINE f == fraction.end
    <2>0. f \in n + 1 .. N + 1 /\ f \in 1 .. N + 1
      BY <1>1, <1>8, <1>9
    <2>1. CASE fraction.ok /\ ByteAt(t, f) \in {69, 101}
      <3>1. parse_number(t, n) = DigitsAt(t, power)
        BY <1>2, <2>1
      <3>2. f + 1 \in 1 .. N + 1 /\ t[f] \in {69, 101} /\ f \in 1 .. N
        BY <1>3, <2>0, <2>1
      <3>3. CASE ByteAt(t, f + 1) \in {Plus, Minus}
        <4>1. power = f + 2
          BY <1>2, <3>3
        <4>2. f + 1 \in 1 .. N /\ t[f + 1] \in {Plus, Minus} /\ f + 1 + 1 \in 1 .. N + 1
          BY <1>3, <3>2, <3>3 DEF Plus, Minus
        <4>3. f + 2 \in 1 .. N + 1
          BY <2>0, <4>2
        <4>4. e \in f + 2 .. N + 1 /\ Digs(t, f + 2, e - 1)
          BY <1>4, <3>1, <4>1, <4>3
        <4> HIDE DEF e, f
        <4>5. f + 1 <= e - 1 /\ f <= e - 1 /\ e \in f .. N + 1
          BY <1>1, <2>0, <4>4
        <4> QED
          BY <3>2, <4>2, <4>4, <4>5 DEF ExponentSpan, f
      <3>4. CASE ~(ByteAt(t, f + 1) \in {Plus, Minus})
        <4>1. power = f + 1
          BY <1>2, <3>4
        <4>4. e \in f + 1 .. N + 1 /\ Digs(t, f + 1, e - 1)
          BY <1>4, <3>1, <3>2, <4>1
        <4> HIDE DEF e, f
        <4>5. f + 1 <= e - 1 /\ f <= e - 1 /\ e \in f .. N + 1
          BY <1>1, <2>0, <4>4 DEF Digs
        <4>6. t[f + 1] \notin {Plus, Minus}
          BY <1>1, <1>3, <2>0, <3>4, <4>5
        <4> QED
          BY <3>2, <4>4, <4>5, <4>6 DEF ExponentSpan, f
      <3> QED
        BY <3>3, <3>4
    <2>2. CASE ~(fraction.ok /\ ByteAt(t, f) \in {69, 101})
      <3>1. e = f
        BY <1>2, <2>2
      <3> QED
        BY <1>1, <2>0, <3>1 DEF ExponentSpan
    <2> QED
      BY <2>1, <2>2
  <1> HIDE DEF e
  <1> DEFINE k == whole.end - 1
             l == fraction.end - 1
  <1>11. /\ k + 1 = whole.end /\ l + 1 = fraction.end
         /\ k \in n - 1 .. e - 1 /\ l \in k .. e - 1
         /\ e \in n + 1 .. N + 1
    BY <1>1, <1>8, <1>9, <1>10, SMTT(30)
  <1>12. NumberSpan(t, n, e - 1, k, l)
    BY <1>8, <1>9, <1>10, <1>11 DEF NumberSpan
  <1>13. Span(t, n, e - 1)
    BY <1>1, <1>11 DEF Span, N
  <1>14. IsNumber(Piece(t, n, e - 1))
    BY <1>12, <1>13, NumberIs
  <1> QED
    BY <1>11, <1>14 DEF e, N

(* ... and it takes every number of the grammar that no digit, point or    *)
(* exponent follows, up to its end: the two together say that it is the    *)
(* longest match.                                                          *)
THEOREM NumberComplete ==
    ASSUME NEW t \in Text, NEW n, NEW b, Span(t, n, b), IsNumber(Piece(t, n, b)),
           ByteAt(t, b + 1) \notin Digits \cup {Dot, 69, 101}
    PROVE  parse_number(t, n).ok /\ parse_number(t, n).end = b + 1
  <1> DEFINE N == Len(t)
             start == StartAt(t, n)
             whole == WholeAt(t, n)
             fraction == FractionAt(t, n)
             power == PowerAt(t, n)
  <1>1. N \in Nat /\ n \in Nat /\ n >= 1 /\ n <= b + 1 /\ b \in Nat /\ b <= N
    BY TextFacts, PieceFacts
  <1>2. /\ start = IF ByteAt(t, n) = Minus THEN n + 1 ELSE n
        /\ whole = IF ByteAt(t, start) = Zero THEN [ok |-> TRUE, end |-> start + 1]
                   ELSE DigitsAt(t, start)
        /\ fraction = IF whole.ok /\ ByteAt(t, whole.end) = Dot
                      THEN DigitsAt(t, whole.end + 1) ELSE whole
        /\ power = fraction.end
                     + (IF ByteAt(t, fraction.end + 1) \in {Plus, Minus} THEN 2 ELSE 1)
        /\ parse_number(t, n) =
             IF fraction.ok /\ ByteAt(t, fraction.end) \in {69, 101}
             THEN DigitsAt(t, power) ELSE fraction
    BY ParseNumberIs, Zenon DEF StartAt, WholeAt, FractionAt, PowerAt
  <1>3. PICK k, l : NumberSpan(t, n, b, k, l)
    BY NumberIs
  <1> HIDE DEF start, whole, fraction, power, N
  <1>4. /\ k \in n - 1 .. b /\ l \in k .. b
        /\ WholeSpan(t, n, k) /\ FractionSpan(t, k + 1, l) /\ ExponentSpan(t, l + 1, b)
    BY <1>3 DEF NumberSpan
  <1>5. \A x \in 1 .. N : ByteAt(t, x) = t[x]
    BY DEF ByteAt, N
  <1>6. ASSUME NEW x \in 1 .. N, NEW y \in x .. N, Digs(t, x, y), ByteAt(t, y + 1) \notin Digits
        PROVE  DigitsAt(t, x).ok /\ DigitsAt(t, x).end = y + 1
    <2>1. x \in 1 .. N + 1
      BY <1>1
    <2>2. y \in x .. Len(t) /\ x \in 1 .. Len(t) + 1
      BY <2>1 DEF N
    <2> QED
      BY <1>6, <2>2, DigitsAtFacts
  <1>7. /\ n <= k /\ k \in Nat /\ l \in Nat /\ k <= l /\ l <= b /\ n \in 1 .. N
    BY <1>1, <1>4 DEF WholeSpan
  <1>8. /\ start \in n .. k /\ start \in 1 .. N /\ Digs(t, start, k) /\ (t[start] = Zero => start = k)
    <2>1. ByteAt(t, n) = t[n]
      BY <1>5, <1>7
    <2>2. Digs(t, start, k) /\ (t[start] = Zero => start = k)
      BY <1>2, <1>4, <2>1 DEF WholeSpan
    <2>3. start \in {n, n + 1} /\ start <= k
      BY <1>2, <2>2 DEF Digs
    <2> QED
      BY <1>1, <1>7, <2>2, <2>3
  <1>9. ByteAt(t, k + 1) \notin Digits
    <2>1. CASE l = k
      <3>1. CASE b = l
        BY <1>1, <2>1, <3>1
      <3>2. CASE b # l
        <4>1. t[l + 1] \in {69, 101} /\ l + 1 \in 1 .. N
          BY <1>1, <1>4, <1>7, <3>2 DEF ExponentSpan
        <4> QED
          BY <1>5, <2>1, <4>1 DEF Digits
      <3> QED
        BY <3>1, <3>2
    <2>2. CASE l # k
      <3>1. t[k + 1] = Dot /\ k + 1 \in 1 .. N
        BY <1>1, <1>4, <1>7, <2>2 DEF FractionSpan
      <3> QED
        BY <1>5, <3>1 DEF Dot, Digits
    <2> QED
      BY <2>1, <2>2
  <1>10. whole.ok /\ whole.end = k + 1
    <2>1. CASE ByteAt(t, start) = Zero
      <3>1. t[start] = Zero
        BY <1>5, <1>8, <2>1
      <3> QED
        BY <1>2, <1>8, <2>1, <3>1
    <2>2. CASE ByteAt(t, start) # Zero
      <3>1. k \in start .. N
        BY <1>1, <1>7, <1>8
      <3> QED
        BY <1>2, <1>6, <1>8, <1>9, <2>2, <3>1
    <2> QED
      BY <2>1, <2>2
  <1>11. fraction.ok /\ fraction.end = l + 1
    <2>1. CASE l = k
      <3>1. ByteAt(t, k + 1) # Dot
        <4>1. CASE b = l
          BY <2>1, <4>1
        <4>2. CASE b # l
          <5>1. t[l + 1] \in {69, 101} /\ l + 1 \in 1 .. N
            BY <1>1, <1>4, <1>7, <4>2 DEF ExponentSpan
          <5> QED
            BY <1>5, <2>1, <5>1 DEF Dot
        <4> QED
          BY <4>1, <4>2
      <3> QED
        BY <1>2, <1>10, <2>1, <3>1
    <2>2. CASE l # k
      <3>1. t[k + 1] = Dot /\ k + 1 \in 1 .. N /\ Digs(t, k + 1 + 1, l)
        BY <1>1, <1>4, <1>7, <2>2 DEF FractionSpan
      <3>2. ByteAt(t, k + 1) = Dot
        BY <1>5, <3>1
      <3>3. ByteAt(t, l + 1) \notin Digits
        <4>1. CASE b = l
          BY <4>1
        <4>2. CASE b # l
          <5>1. t[l + 1] \in {69, 101} /\ l + 1 \in 1 .. N
            BY <1>1, <1>4, <1>7, <4>2 DEF ExponentSpan
          <5> QED
            BY <1>5, <5>1 DEF Digits
        <4> QED
          BY <4>1, <4>2
      <3>4. k + 1 + 1 \in 1 .. N /\ l \in k + 1 + 1 .. N
        BY <1>1, <1>7, <3>1 DEF Digs
      <3>5. DigitsAt(t, k + 1 + 1).ok /\ DigitsAt(t, k + 1 + 1).end = l + 1
        BY <1>6, <3>1, <3>3, <3>4
      <3> QED
        BY <1>2, <1>10, <3>2, <3>5
    <2> QED
      BY <2>1, <2>2
  <1>12. CASE b = l
    <2>1. ByteAt(t, fraction.end) \notin {69, 101}
      BY <1>11, <1>12
    <2> QED
      BY <1>2, <1>11, <1>12, <2>1
  <1>13. CASE b # l
    <2> DEFINE f == l + 1
               first == IF f + 1 <= b /\ t[f + 1] \in {Plus, Minus} THEN f + 2 ELSE f + 1
    <2>1. t[f] \in {69, 101} /\ f \in 1 .. N /\ Digs(t, first, b) /\ f \in Nat
      BY <1>1, <1>4, <1>7, <1>13 DEF ExponentSpan
    <2>2. ByteAt(t, fraction.end) \in {69, 101}
      BY <1>5, <1>11, <2>1
    <2>3. fraction.end = f
      BY <1>11
    <2> HIDE DEF f
    <2>4. first \in {f + 1, f + 2} /\ first <= b
      BY <2>1 DEF Digs
    <2>5. f + 1 <= b /\ f + 1 \in 1 .. N
      BY <1>1, <2>1, <2>4
    <2>6. ByteAt(t, f + 1) = t[f + 1]
      BY <1>5, <2>5
    <2>7. power = first
      BY <1>2, <2>3, <2>5, <2>6
    <2> HIDE DEF first
    <2>8. first \in 1 .. N /\ b \in first .. N /\ ByteAt(t, b + 1) \notin Digits
      BY <1>1, <2>1, <2>4
    <2>9. DigitsAt(t, first).ok /\ DigitsAt(t, first).end = b + 1
      BY <1>6, <2>1, <2>8
    <2> QED
      BY <1>2, <1>11, <2>2, <2>7, <2>9, SMTT(30)
  <1> QED
    BY <1>12, <1>13

-----------------------------------------------------------------------------
(***************************************************************************)
(* Part 3.  utf8_validate_cz and RFC 3629                                  *)
(***************************************************************************)

(* utf8_validate_cz against RFC 3629. *)
LEMMA ValidateIs ==
    ASSUME NEW b, NEW n \in 1 .. 12
    PROVE  utf8_validate_cz(b) = n <=>
             Promised(b[1]) = n /\ \A k \in 2 .. n : b[k] \in Follower(b[1], k)
  <1> DEFINE p == Promised(b[1])
  <1>1. Misplaced(b) = {} <=> \A k \in 2 .. p : b[k] \in Follower(b[1], k)
    BY DEF Misplaced
  <1>2. utf8_validate_cz(b) = IF Misplaced(b) = {} THEN p ELSE 0
    BY DEF utf8_validate_cz
  <1> HIDE DEF p
  <1>3. CASE p = n
    BY <1>1, <1>2, <1>3 DEF p
  <1>4. CASE p # n
    BY <1>2, <1>4 DEF p
  <1> QED
    BY <1>3, <1>4

(* The masks of utf8_read_char, as subtractions.                           *)
LEMMA LowBits ==
    /\ \A c \in 128 .. 191 : c % 64 = c - 128
    /\ \A c \in 192 .. 223 : c % 32 = c - 192
    /\ \A c \in 224 .. 239 : c % 16 = c - 224
    /\ \A c \in 240 .. 247 : c % 8 = c - 240
    /\ \A c \in 65 .. 70 : c % 32 = c - 64
    /\ \A c \in 97 .. 102 : c % 32 = c - 96
    /\ \A c \in 55296 .. 56319 : c % 1024 = c - 55296
    /\ \A c \in 56320 .. 57343 : c % 1024 = c - 56320
  <1>1. \A c \in 128 .. 191 : c % 64 = c - 128
    OBVIOUS
  <1>2. \A c \in 192 .. 223 : c % 32 = c - 192
    OBVIOUS
  <1>3. \A c \in 224 .. 239 : c % 16 = c - 224
    OBVIOUS
  <1>4. \A c \in 240 .. 247 : c % 8 = c - 240
    OBVIOUS
  <1>5. \A c \in 65 .. 70 : c % 32 = c - 64
    OBVIOUS
  <1>6. \A c \in 97 .. 102 : c % 32 = c - 96
    OBVIOUS
  <1>7. \A c \in 55296 .. 56319 : c % 1024 = c - 55296
    OBVIOUS
  <1>8. \A c \in 56320 .. 57343 : c % 1024 = c - 56320
    OBVIOUS
  <1> QED
    BY <1>1, <1>2, <1>3, <1>4, <1>5, <1>6, <1>7, <1>8

(* The code points of two, three and four bytes. *)
Mix2(a, b) == a * 64 + b
Mix3(a, b, c) == a * 4096 + b * 64 + c
Mix4(a, b, c, d) == a * 262144 + b * 4096 + c * 64 + d
Code2(x, y) == Mix2(x % 32, y % 64)
Code3(x, y, z) == Mix3(x % 16, y % 64, z % 64)
Code4(x, y, z, w) == Mix4(x % 8, y % 64, z % 64, w % 64)

Flat3(x, y, z) == (x - 224) * 4096 + (y - 128) * 64 + (z - 128)
Flat4(x, y, z, w) == (x - 240) * 262144 + (y - 128) * 4096 + (z - 128) * 64 + (w - 128)

(* What RFC 3629 says of them. *)
Two(x, y) ==
    /\ x \in 192 .. 223 /\ y \in 128 .. 191
    /\ Code2(x, y) >= 128 /\ Code2(x, y) <= 2047
    /\ Code2(x, y) \notin Surrogates
Three(x, y, z) ==
    /\ x \in 224 .. 239 /\ y \in 128 .. 191 /\ z \in 128 .. 191
    /\ Code3(x, y, z) >= 2048 /\ Code3(x, y, z) <= 65535
    /\ Code3(x, y, z) \notin Surrogates
Four(x, y, z, w) ==
    /\ x \in 240 .. 247 /\ y \in 128 .. 191 /\ z \in 128 .. 191 /\ w \in 128 .. 191
    /\ Code4(x, y, z, w) >= 65536 /\ Code4(x, y, z, w) <= 1114111
    /\ Code4(x, y, z, w) \notin Surrogates

(* The surrogates are one interval.                                        *)
LEMMA RangesAre == \A c \in Int : c \in Surrogates <=> 55296 <= c /\ c <= 57343
  BY SMT DEF Surrogates

(* The code point of two, three and four bytes, without the masks.         *)
LEMMA CodeOfTwo ==
    ASSUME NEW x \in 192 .. 223, NEW y \in 128 .. 191
    PROVE  Code2(x, y) = (x - 192) * 64 + (y - 128)
  <1>1. x % 32 = x - 192 /\ y % 64 = y - 128
    BY LowBits, SMT
  <1>2. Code2(x, y) = Mix2(x - 192, y - 128)
    BY <1>1, Zenon DEF Code2
  <1> QED
    BY <1>2, SMT DEF Mix2

LEMMA CodeOfThree ==
    ASSUME NEW x \in 224 .. 239, NEW y \in 128 .. 191, NEW z \in 128 .. 191
    PROVE  Code3(x, y, z) = Flat3(x, y, z)
  <1>1. x % 16 = x - 224 /\ y % 64 = y - 128 /\ z % 64 = z - 128
    BY LowBits, SMT
  <1>2. Code3(x, y, z) = Mix3(x - 224, y - 128, z - 128)
    BY <1>1, Zenon DEF Code3
  <1> QED
    BY <1>2, SMT DEF Mix3, Flat3

LEMMA CodeOfFour ==
    ASSUME NEW x \in 240 .. 247, NEW y \in 128 .. 191, NEW z \in 128 .. 191,
           NEW w \in 128 .. 191
    PROVE  Code4(x, y, z, w) = Flat4(x, y, z, w)
  <1>1. x % 8 = x - 240 /\ y % 64 = y - 128 /\ z % 64 = z - 128 /\ w % 64 = w - 128
    BY LowBits, SMT
  <1>2. Code4(x, y, z, w) = Mix4(x - 240, y - 128, z - 128, w - 128)
    BY <1>1, Zenon DEF Code4
  <1> QED
    BY <1>2, SMT DEF Mix4, Flat4

(* RFC 3629 on two, three and four bytes, as the ranges of the followers.  *)
LEMMA Utf8Two ==
    ASSUME NEW x \in 1 .. 255, NEW y \in 1 .. 255
    PROVE  Two(x, y) <=> Promised(x) = 2 /\ y \in Follower(x, 2)
  <1>0. Promised(x) = 2 <=> x \in 194 .. 223
    BY SMT DEF Promised
  <1>1. CASE x \in 192 .. 223 /\ y \in 128 .. 191
    <2> DEFINE c == Code2(x, y)
    <2>3. c = (x - 192) * 64 + (y - 128)
      BY <1>1, CodeOfTwo, SMT
    <2>7. y \in Follower(x, 2)
      BY <1>1, SMT DEF Follower, Continuation
    <2> HIDE DEF c
    <2>6. (c >= 128 /\ c <= 2047 /\ c \notin Surrogates) <=> x \in 194 .. 223
      BY <1>1, <2>3, RangesAre, SMT
    <2> QED
      BY <1>0, <1>1, <2>6, <2>7, SMT DEF c, Two
  <1>2. CASE ~(x \in 192 .. 223 /\ y \in 128 .. 191)
    <2>1. x \in 194 .. 223 => x \in 192 .. 223 /\ Follower(x, 2) = 128 .. 191
      BY SMT DEF Follower, Continuation
    <2> QED
      BY <1>0, <1>2, <2>1, SMT DEF Two
  <1> QED
    BY <1>1, <1>2, SMT

LEMMA Utf8Three ==
    ASSUME NEW x \in 1 .. 255, NEW y \in 1 .. 255, NEW z \in 1 .. 255
    PROVE  Three(x, y, z) <=> Promised(x) = 3 /\ y \in Follower(x, 2) /\ z \in Follower(x, 3)
  <1>0. Promised(x) = 3 <=> x \in 224 .. 239
    BY SMT DEF Promised
  <1>1. CASE x \in 224 .. 239 /\ y \in 128 .. 191 /\ z \in 128 .. 191
    <2> DEFINE c == Code3(x, y, z)
    <2>4. c = (x - 224) * 4096 + (y - 128) * 64 + (z - 128)
      <3>1. c = Flat3(x, y, z)
        BY <1>1, CodeOfThree, Zenon
      <3> QED
        BY <3>1, SMT DEF Flat3
    <2>5. z \in Follower(x, 3)
      BY <1>1, SMT DEF Follower, Continuation
    <2>6. y \in Follower(x, 2) <=> (x = 224 => y >= 160) /\ (x = 237 => y <= 159)
      BY <1>1, SMT DEF Follower, Continuation
    <2> HIDE DEF c
    <2>7. c >= 2048 /\ c <= 65535 <=> (x = 224 => y >= 160)
      BY <1>1, <2>4, SMT
    <2>8. c \in Surrogates <=> x = 237 /\ y >= 160
      BY <1>1, <2>4, RangesAre, SMT
    <2>9. (c >= 2048 /\ c <= 65535 /\ c \notin Surrogates) <=> y \in Follower(x, 2)
      BY <2>6, <2>7, <2>8, SMT
    <2> QED
      BY <1>0, <1>1, <2>5, <2>9, SMT DEF c, Three
  <1>2. CASE ~(x \in 224 .. 239 /\ y \in 128 .. 191 /\ z \in 128 .. 191)
    <2>1. Follower(x, 2) \subseteq 128 .. 191 /\ Follower(x, 3) \subseteq 128 .. 191
      BY SMT DEF Follower, Continuation
    <2> QED
      BY <1>0, <1>2, <2>1, SMT DEF Three
  <1> QED
    BY <1>1, <1>2, SMT

LEMMA Utf8Four ==
    ASSUME NEW x \in 1 .. 255, NEW y \in 1 .. 255, NEW z \in 1 .. 255, NEW w \in 1 .. 255
    PROVE  Four(x, y, z, w) <=> Promised(x) = 4 /\ y \in Follower(x, 2) /\ z \in Follower(x, 3)
                                  /\ w \in Follower(x, 4)
  <1>0. Promised(x) = 4 <=> x \in 240 .. 244
    BY SMT DEF Promised
  <1>1. CASE x \in 240 .. 247 /\ y \in 128 .. 191 /\ z \in 128 .. 191 /\ w \in 128 .. 191
    <2> DEFINE c == Code4(x, y, z, w)
    <2>5. c = (x - 240) * 262144 + (y - 128) * 4096 + (z - 128) * 64 + (w - 128)
      <3>1. c = Flat4(x, y, z, w)
        BY <1>1, CodeOfFour, Zenon
      <3> QED
        BY <3>1, SMT DEF Flat4
    <2>6. z \in Follower(x, 3) /\ w \in Follower(x, 4)
      BY <1>1, SMT DEF Follower, Continuation
    <2>7. x \in 240 .. 244 =>
            (y \in Follower(x, 2) <=> (x = 240 => y >= 144) /\ (x = 244 => y <= 143))
      BY <1>1, SMT DEF Follower, Continuation
    <2> HIDE DEF c
    <2>8. c >= 65536 /\ c <= 1114111
            <=> (x = 240 => y >= 144) /\ x <= 244 /\ (x = 244 => y <= 143)
      BY <1>1, <2>5, SMT
    <2>10. c >= 65536 => c \notin Surrogates
      BY <1>1, <2>5, RangesAre, SMT
    <2>11. (c >= 65536 /\ c <= 1114111 /\ c \notin Surrogates)
             <=> x \in 240 .. 244 /\ y \in Follower(x, 2)
      BY <1>1, <2>7, <2>8, <2>10, SMT
    <2> QED
      BY <1>0, <1>1, <2>6, <2>11, SMT DEF c, Four
  <1>2. CASE ~(x \in 240 .. 247 /\ y \in 128 .. 191 /\ z \in 128 .. 191 /\ w \in 128 .. 191)
    <2>1. /\ Follower(x, 2) \subseteq 128 .. 191 /\ Follower(x, 3) \subseteq 128 .. 191
          /\ Follower(x, 4) \subseteq 128 .. 191
      BY SMT DEF Follower, Continuation
    <2>2. x \in 240 .. 244 => x \in 240 .. 247
      BY SMT
    <2> QED
      BY <1>0, <1>2, <2>1, <2>2, SMT DEF Four
  <1> QED
    BY <1>1, <1>2, SMT

(* The bytes of y are the first ones of b. *)
Begins(y, b) == y \in Text /\ Len(y) \in 1 .. 12 /\ \A k \in 1 .. Len(y) : y[k] = b[k]

(* utf8_validate_cz accepts exactly the sequences of RFC 3629: no overlong *)
(* form, no surrogate, nothing above U+10FFFF.                             *)
THEOREM Utf8Is ==
    ASSUME NEW b, NEW y, Begins(y, b)
    PROVE  IsUtf8(y) <=> utf8_validate_cz(b) = Len(y)
  <1> DEFINE n == Len(y)
  <1>1. n \in 1 .. 12 /\ \A k \in 1 .. n : y[k] = b[k] /\ b[k] \in 1 .. 255
    BY TextFacts DEF Begins
  <1>2. utf8_validate_cz(b) = n <=>
             Promised(b[1]) = n /\ \A k \in 2 .. n : b[k] \in Follower(b[1], k)
    BY <1>1, ValidateIs
  <1>3. IsUtf8(y) <=>
            /\ n \in 1 .. 4
            /\ y[1] \in << 0 .. 127, 192 .. 223, 224 .. 239, 240 .. 247 >>[n]
            /\ \A k \in 2 .. n : y[k] \in 128 .. 191
            /\ CodePoint(y) >= << 0, 128, 2048, 65536 >>[n]
            /\ CodePoint(y) <= << 127, 2047, 65535, 1114111 >>[n]
            /\ CodePoint(y) \notin Surrogates
    BY SMT DEF IsUtf8
  <1>4. CodePoint(y) =
            IF n = 1 THEN y[1]
            ELSE IF n = 2 THEN Code2(y[1], y[2])
            ELSE IF n = 3 THEN Code3(y[1], y[2], y[3])
            ELSE Code4(y[1], y[2], y[3], y[4])
    BY SMT DEF CodePoint, Bits6, Code2, Code3, Code4, Mix2, Mix3, Mix4
  <1> HIDE DEF n
  <1>5. CASE n = 1
    <2>1. b[1] = y[1] /\ b[1] \in 1 .. 255
      BY <1>1, <1>5
    <2>2. Promised(b[1]) = 1 <=> b[1] <= 127
      BY <2>1 DEF Promised
    <2>3. \A k \in 2 .. n : FALSE
      BY <1>5
    <2>4. IsUtf8(y) <=> y[1] \in 0 .. 127
      <3>1. << 0 .. 127, 192 .. 223, 224 .. 239, 240 .. 247 >>[1] = 0 .. 127
        OBVIOUS
      <3>2. << 0, 128, 2048, 65536 >>[1] = 0 /\ << 127, 2047, 65535, 1114111 >>[1] = 127
        BY SMT
      <3>3. \A c \in 0 .. 127 : c \notin Surrogates
        BY RangesAre, SMT
      <3> QED
        BY <1>3, <1>4, <1>5, <2>3, <3>1, <3>2, <3>3
    <2> QED
      BY <1>2, <1>5, <2>1, <2>2, <2>3, <2>4 DEF n
  <1>6. CASE n = 2
    <2>1. /\ b[1] = y[1] /\ b[1] \in 1 .. 255 /\ b[2] = y[2] /\ b[2] \in 1 .. 255
      BY <1>1, <1>6
    <2>2. \A k : k \in 2 .. n <=> k = 2
      BY <1>6
    <2>3. << 0 .. 127, 192 .. 223, 224 .. 239, 240 .. 247 >>[2] = 192 .. 223
          /\ << 0, 128, 2048, 65536 >>[2] = 128
          /\ << 127, 2047, 65535, 1114111 >>[2] = 2047
      BY SMT
    <2>4. IsUtf8(y) <=> Two(y[1], y[2])
      BY <1>3, <1>4, <1>6, <2>2, <2>3, SMT DEF Two
    <2>5. utf8_validate_cz(b) = n <=> Promised(b[1]) = 2 /\ b[2] \in Follower(b[1], 2)
      BY <1>2, <1>6, <2>2
    <2>6. Two(y[1], y[2]) <=> Promised(y[1]) = 2 /\ y[2] \in Follower(y[1], 2)
      BY <2>1, Utf8Two, Zenon
    <2> QED
      BY <2>1, <2>4, <2>5, <2>6, SMT DEF n
  <1>7. CASE n = 3
    <2>1. /\ b[1] = y[1] /\ b[1] \in 1 .. 255 /\ b[2] = y[2] /\ b[2] \in 1 .. 255
          /\ b[3] = y[3] /\ b[3] \in 1 .. 255
      BY <1>1, <1>7
    <2>2. \A k : k \in 2 .. n <=> k = 2 \/ k = 3
      BY <1>7
    <2>3. << 0 .. 127, 192 .. 223, 224 .. 239, 240 .. 247 >>[3] = 224 .. 239
          /\ << 0, 128, 2048, 65536 >>[3] = 2048
          /\ << 127, 2047, 65535, 1114111 >>[3] = 65535
      BY SMT
    <2>4. IsUtf8(y) <=> Three(y[1], y[2], y[3])
      BY <1>3, <1>4, <1>7, <2>2, <2>3, SMT DEF Three
    <2>5. utf8_validate_cz(b) = n <=>
             Promised(b[1]) = 3 /\ b[2] \in Follower(b[1], 2) /\ b[3] \in Follower(b[1], 3)
      BY <1>2, <1>7, <2>2
    <2>6. Three(y[1], y[2], y[3])
            <=> /\ Promised(y[1]) = 3
                /\ y[2] \in Follower(y[1], 2) /\ y[3] \in Follower(y[1], 3)
      BY <2>1, Utf8Three, Zenon
    <2> QED
      BY <2>1, <2>4, <2>5, <2>6, SMT DEF n
  <1>8. CASE n = 4
    <2>1. /\ b[1] = y[1] /\ b[1] \in 1 .. 255 /\ b[2] = y[2] /\ b[2] \in 1 .. 255
          /\ b[3] = y[3] /\ b[3] \in 1 .. 255 /\ b[4] = y[4] /\ b[4] \in 1 .. 255
      BY <1>1, <1>8
    <2>2. \A k : k \in 2 .. n <=> k = 2 \/ k = 3 \/ k = 4
      BY <1>8
    <2>3. << 0 .. 127, 192 .. 223, 224 .. 239, 240 .. 247 >>[4] = 240 .. 247
          /\ << 0, 128, 2048, 65536 >>[4] = 65536
          /\ << 127, 2047, 65535, 1114111 >>[4] = 1114111
      BY SMT
    <2>4. IsUtf8(y) <=> Four(y[1], y[2], y[3], y[4])
      BY <1>3, <1>4, <1>8, <2>2, <2>3, SMT DEF Four
    <2>5. utf8_validate_cz(b) = n <=>
             /\ Promised(b[1]) = 4 /\ b[2] \in Follower(b[1], 2) /\ b[3] \in Follower(b[1], 3)
             /\ b[4] \in Follower(b[1], 4)
      BY <1>2, <1>8, <2>2
    <2>6. Four(y[1], y[2], y[3], y[4])
            <=> /\ Promised(y[1]) = 4 /\ y[2] \in Follower(y[1], 2)
                /\ y[3] \in Follower(y[1], 3) /\ y[4] \in Follower(y[1], 4)
      <3>1. /\ y[1] \in 1 .. 255 /\ y[2] \in 1 .. 255
            /\ y[3] \in 1 .. 255 /\ y[4] \in 1 .. 255
        BY <2>1, Zenon
      <3>2. Four(y[1], y[2], y[3], y[4])
              <=> Promised(y[1]) = 4 /\ y[2] \in Follower(y[1], 2)
                    /\ y[3] \in Follower(y[1], 3) /\ y[4] \in Follower(y[1], 4)
        BY <3>1, Utf8Four, Zenon
      <3> QED
        BY <3>2, Zenon
    <2> QED
      BY <2>1, <2>4, <2>5, <2>6, SMT DEF n
  <1>9. CASE n \notin 1 .. 4
    <2>1. Promised(b[1]) \in 0 .. 4
      BY DEF Promised
    <2>2. ~IsUtf8(y)
      BY <1>9, SMT DEF IsUtf8, n
    <2>3. Promised(b[1]) # n
      BY <1>9, <1>1, <2>1, SMT
    <2> QED
      BY <1>2, <2>2, <2>3, SMT DEF n
  <1> QED
    BY <1>1, <1>5, <1>6, <1>7, <1>8, <1>9

-----------------------------------------------------------------------------
(***************************************************************************)
(* Part 3.  One iteration of parse_string and the characters of the grammar*)
(***************************************************************************)

(* One iteration of parse_string against the characters of the grammar. *)
HexDigits == Digits \cup (65 .. 70) \cup (97 .. 102)
DigitOf(c) == IF c \in Digits THEN c - 48 ELSE (c % 32) + 9

(* hex_digit reads a hexadecimal digit.                                    *)
LEMMA DigitIs ==
    ASSUME NEW c
    PROVE  /\ c \in DOMAIN HexDigit <=> c \in HexDigits
           /\ c \in HexDigits => HexDigit[c] = DigitOf(c) /\ HexDigit[c] \in 0 .. 15
  <1>1. c \in DOMAIN HexDigit <=> c \in HexDigits
    BY DEF HexDigit, HexDigits, Digits
  <1>2. ASSUME c \in HexDigits
        PROVE  HexDigit[c] = DigitOf(c) /\ HexDigit[c] \in 0 .. 15
    <2>1. HexDigit[c] = IF c <= 57 THEN c - 48 ELSE IF c <= 70 THEN c - 55 ELSE c - 87
      BY <1>2 DEF HexDigit, HexDigits, Digits
    <2>2. CASE c \in 48 .. 57
      BY <2>1, <2>2, SMT DEF DigitOf, Digits
    <2>3. CASE c \in 65 .. 70
      <3>1. c % 32 = c - 64
        BY <2>3, LowBits, SMT
      <3>2. c \notin Digits /\ HexDigit[c] = c - 55
        BY <2>1, <2>3, SMT DEF Digits
      <3>3. DigitOf(c) = (c - 64) + 9
        BY <3>1, <3>2, Zenon DEF DigitOf
      <3> QED
        BY <2>3, <3>2, <3>3, SMT
    <2>4. CASE c \in 97 .. 102
      <3>1. c % 32 = c - 96
        BY <2>4, LowBits, SMT
      <3>2. c \notin Digits /\ HexDigit[c] = c - 87
        BY <2>1, <2>4, SMT DEF Digits
      <3>3. DigitOf(c) = (c - 96) + 9
        BY <3>1, <3>2, Zenon DEF DigitOf
      <3> QED
        BY <2>4, <3>2, <3>3, SMT
    <2> QED
      BY <1>2, <2>2, <2>3, <2>4, SMT DEF HexDigits, Digits
  <1> QED
    BY <1>1, <1>2

(* parse_hex16 against the grammar's \uXXXX, at the first byte of a window *)
(* or at the seventh.                                                      *)
HexAt(b, m) ==
    b[m + 1] = Backslash /\ b[m + 2] = 117 /\ parse_hex16(b, m + 2).val # None

(* parse_hex16 takes the four digits of the grammar and their value.       *)
LEMMA HexIs ==
    ASSUME NEW b \in Windows, NEW m \in {0, 6}, NEW z, Len(z) = 6,
           \A k \in 1 .. 6 : z[k] = b[m + k]
    PROVE  /\ IsHex(z) <=> HexAt(b, m)
           /\ IsHex(z) => Hex(z) = parse_hex16(b, m + 2).val
  <1> DEFINE h == parse_hex16(b, m + 2)
             wrong == {k \in 1 .. 4 : b[(m + 2) + k] \notin DOMAIN HexDigit}
             d(k) == HexDigit[b[(m + 2) + k]]
             val == ((d(1) * 16 + d(2)) * 16 + d(3)) * 16 + d(4)
  <1>1. h = IF wrong # {} THEN [val |-> None, looks |-> (m + 2) + Min(wrong)]
            ELSE [val |-> val, looks |-> (m + 2) + 4]
    BY Zenon DEF parse_hex16
  <1>2. \A k \in 1 .. 4 : b[(m + 2) + k] = z[k + 2]
    <2>1. ASSUME NEW k \in 1 .. 4
          PROVE  b[(m + 2) + k] = z[k + 2]
      <3>1. k + 2 \in 1 .. 6 /\ m + (k + 2) = (m + 2) + k
        OBVIOUS
      <3> QED
        BY <3>1
    <2> QED
      BY <2>1
  <1>3. b[m + 1] = z[1] /\ b[m + 2] = z[2]
    OBVIOUS
  <1>4. wrong = {} <=> \A k \in 3 .. 6 : z[k] \in HexDigits
    <2>1. ASSUME wrong = {}, NEW k \in 3 .. 6
          PROVE  z[k] \in HexDigits
      <3>1. k - 2 \in 1 .. 4 /\ (k - 2) + 2 = k
        OBVIOUS
      <3>2. b[(m + 2) + (k - 2)] \in DOMAIN HexDigit
        BY <2>1, <3>1
      <3>3. b[(m + 2) + (k - 2)] = z[k]
        BY <1>2, <3>1
      <3> QED
        BY <3>2, <3>3, DigitIs, Zenon
    <2>2. ASSUME \A k \in 3 .. 6 : z[k] \in HexDigits
          PROVE  wrong = {}
      <3>1. ASSUME NEW k \in 1 .. 4
            PROVE  b[(m + 2) + k] \in DOMAIN HexDigit
        <4>1. k + 2 \in 3 .. 6
          OBVIOUS
        <4>2. z[k + 2] \in DOMAIN HexDigit
          BY <2>2, <4>1, DigitIs, Zenon
        <4> QED
          BY <1>2, <4>2
      <3> QED
        BY <3>1
    <2> QED
      BY <2>1, <2>2
  <1>5. IsHex(z) <=> z[1] = Backslash /\ z[2] = 117 /\ wrong = {}
    BY <1>4, Zenon DEF IsHex, HexDigits
  <1>6. ASSUME wrong = {}
        PROVE  h.val = Hex(z) /\ h.val # None
    <2>1. h.val = val
      <3> HIDE DEF val, wrong
      <3> QED
        BY <1>1, <1>6
    <2>2. d(1) = DigitOf(z[3]) /\ d(1) \in 0 .. 15
      <3>1. z[3] \in HexDigits /\ b[(m + 2) + 1] = z[3]
        BY <1>2, <1>4, <1>6
      <3> QED
        BY <3>1, DigitIs, Zenon
    <2>3. d(2) = DigitOf(z[4]) /\ d(2) \in 0 .. 15
      <3>1. z[4] \in HexDigits /\ b[(m + 2) + 2] = z[4]
        BY <1>2, <1>4, <1>6
      <3> QED
        BY <3>1, DigitIs, Zenon
    <2>4. d(3) = DigitOf(z[5]) /\ d(3) \in 0 .. 15
      <3>1. z[5] \in HexDigits /\ b[(m + 2) + 3] = z[5]
        BY <1>2, <1>4, <1>6
      <3> QED
        BY <3>1, DigitIs, Zenon
    <2>5. d(4) = DigitOf(z[6]) /\ d(4) \in 0 .. 15
      <3>1. z[6] \in HexDigits /\ b[(m + 2) + 4] = z[6]
        BY <1>2, <1>4, <1>6
      <3> QED
        BY <3>1, DigitIs, Zenon
    <2>6. Hex(z) = 4096 * DigitOf(z[3]) + 256 * DigitOf(z[4]) + 16 * DigitOf(z[5])
                     + DigitOf(z[6])
      BY DEF Hex, DigitOf
    <2> HIDE DEF d, wrong
    <2>8. val = 4096 * d(1) + 256 * d(2) + 16 * d(3) + d(4) /\ val # None
      <3>1. PICK e, f, g, i : e = d(1) /\ f = d(2) /\ g = d(3) /\ i = d(4)
        OBVIOUS
      <3>2. e \in 0 .. 15 /\ f \in 0 .. 15 /\ g \in 0 .. 15 /\ i \in 0 .. 15
        BY <2>2, <2>3, <2>4, <2>5, <3>1
      <3>3. val = ((e * 16 + f) * 16 + g) * 16 + i
        BY <3>1
      <3>4. /\ ((e * 16 + f) * 16 + g) * 16 + i = 4096 * e + 256 * f + 16 * g + i
            /\ ((e * 16 + f) * 16 + g) * 16 + i # None
        BY <3>2, SMT DEF None
      <3> QED
        BY <3>1, <3>3, <3>4
    <2>9. Hex(z) = 4096 * d(1) + 256 * d(2) + 16 * d(3) + d(4)
      BY <2>2, <2>3, <2>4, <2>5, <2>6
    <2> QED
      BY <2>1, <2>8, <2>9
  <1>7. ASSUME wrong # {}
        PROVE  h.val = None
    <2> HIDE DEF wrong, val
    <2> QED
      BY <1>1, <1>7
  <1>8. HexAt(b, m) <=> z[1] = Backslash /\ z[2] = 117 /\ h.val # None
    BY <1>3 DEF HexAt
  <1> HIDE DEF h, wrong
  <1>9. IsHex(z) <=> HexAt(b, m)
    BY <1>5, <1>6, <1>7, <1>8
  <1>10. IsHex(z) => Hex(z) = h.val
    BY <1>5, <1>6
  <1> QED
    BY <1>9, <1>10 DEF h

ShortMeans(y) == {<< e[2] >> : e \in {e \in ShortEscapes : y = << Backslash, e[1] >>}}
HexMeans(y) ==
    IF Hex(y) \in Surrogates \cup {0} THEN {} ELSE {utf8_write_char(Hex(y))}
PairMeans(y) ==
    {utf8_write_char(65536 + 1024 * (Hex(SubSeq(y, 1, 6)) - 55296)
                       + Hex(SubSeq(y, 7, 12)) - 56320)}

(* The kinds of a character exclude each other.                            *)
LEMMA UnitCases ==
    ASSUME NEW y
    PROVE  /\ y[1] # Backslash => UnitMeans(y) = IF IsBare(y) THEN {y} ELSE ShortMeans(y)
           /\ y[1] = Backslash =>
                UnitMeans(y) = IF IsHex(y) THEN HexMeans(y)
                               ELSE IF IsPair(y) THEN PairMeans(y) ELSE ShortMeans(y)
  <1>1. IsBare(y) => y[1] # Backslash
    BY DEF IsBare
  <1>2. IsHex(y) => y[1] = Backslash /\ Len(y) = 6
    BY DEF IsHex
  <1>3. IsPair(y) => y[1] = Backslash /\ Len(y) = 12
    <2>1. ASSUME IsPair(y)
          PROVE  y[1] = Backslash /\ Len(y) = 12
      <3>1. SubSeq(y, 1, 6)[1] = y[1]
        OBVIOUS
      <3> QED
        BY <2>1, <3>1 DEF IsPair, IsHex
    <2> QED
      BY <2>1
  <1>4. UnitMeans(y) = CASE IsBare(y) -> {y} [] IsHex(y) -> HexMeans(y)
                         [] IsPair(y) -> PairMeans(y) [] OTHER -> ShortMeans(y)
    BY SMT DEF UnitMeans, HexMeans, PairMeans, ShortMeans
  <1> QED
    BY <1>1, <1>2, <1>3, <1>4

(* The two-byte escapes.                                                   *)
LEMMA ShortIs ==
    ASSUME NEW b, NEW y, Begins(y, b), NEW u
    PROVE  u \in ShortMeans(y) <=>
             /\ b[1] = Backslash /\ Len(y) = 2 /\ b[2] \in Plain \cup Letters
             /\ u = << Meant(b[2]) >>
  <1>1. \A e \in ShortEscapes : e[1] \in Plain \cup Letters /\ e[2] = Meant(e[1])
    BY DEF ShortEscapes, Plain, Letters, Meant, Quote, Backslash, Slash
  <1>2. \A c \in Plain \cup Letters : \E e \in ShortEscapes : e[1] = c
    BY DEF ShortEscapes, Plain, Letters, Quote, Backslash, Slash
  <1>3. y \in Text /\ \A k \in 1 .. Len(y) : y[k] = b[k]
    BY DEF Begins
  <1>4. \A c : y = << Backslash, c >> <=> Len(y) = 2 /\ b[1] = Backslash /\ b[2] = c
    <2>1. ASSUME NEW c, Len(y) = 2, b[1] = Backslash, b[2] = c
          PROVE  y = << Backslash, c >>
      <3>1. y[1] = Backslash /\ y[2] = c
        BY <1>3, <2>1
      <3> QED
        BY <1>3, <2>1, <3>1 DEF Text
    <2>2. ASSUME NEW c, y = << Backslash, c >>
          PROVE  Len(y) = 2 /\ b[1] = Backslash /\ b[2] = c
      <3>1. Len(y) = 2 /\ y[1] = Backslash /\ y[2] = c
        BY <2>2
      <3> QED
        BY <1>3, <3>1
    <2> QED
      BY <2>1, <2>2
  <1>5. u \in ShortMeans(y) <=>
          \E e \in ShortEscapes : y = << Backslash, e[1] >> /\ u = << e[2] >>
    BY SMT DEF ShortMeans
  <1>6. ASSUME NEW e \in ShortEscapes, y = << Backslash, e[1] >>, u = << e[2] >>
        PROVE  /\ b[1] = Backslash /\ Len(y) = 2 /\ b[2] \in Plain \cup Letters
               /\ u = << Meant(b[2]) >>
    BY <1>1, <1>4, <1>6, Zenon
  <1>7. ASSUME b[1] = Backslash, Len(y) = 2, b[2] \in Plain \cup Letters,
               u = << Meant(b[2]) >>
        PROVE  \E e \in ShortEscapes : y = << Backslash, e[1] >> /\ u = << e[2] >>
    <2>1. PICK e \in ShortEscapes : e[1] = b[2]
      BY <1>2, <1>7, Zenon
    <2> QED
      BY <1>1, <1>4, <1>7, <2>1, Zenon
  <1> QED
    BY <1>5, <1>6, <1>7, Zenon

Low10(c) == c % 1024
Blend(x, y) == 65536 + x * 1024 + y
HighHalf(uc) == uc \in 55296 .. 56319
LowHalf(lc) == lc \in 56320 .. 57343

PairFits(x, z) == x - 55296 \in 0 .. 1023 /\ z - 56320 \in 0 .. 1023
PairPoint(x, z) == 65536 + 1024 * (x - 55296) + z - 56320

LEMMA PairIsSome ==
    ASSUME NEW x \in Int, NEW z \in Int, PairFits(x, z)
    PROVE  PairPoint(x, z) # None
  BY SMT DEF PairFits, PairPoint, None

(* from_surrogate_pair computes the scalar value of the grammar.           *)
LEMMA PairIs ==
    ASSUME NEW uc \in Int, NEW lc \in Int
    PROVE  from_surrogate_pair(uc, lc) =
             IF PairFits(uc, lc) THEN PairPoint(uc, lc) ELSE None
  <1>5. from_surrogate_pair(uc, lc) =
          IF HighHalf(uc) /\ LowHalf(lc) THEN Blend(Low10(uc), Low10(lc)) ELSE None
    BY SMT DEF from_surrogate_pair, HighHalf, LowHalf, Blend, Low10
  <1>3. CASE HighHalf(uc) /\ LowHalf(lc)
    <2>2. Low10(uc) = uc - 55296 /\ Low10(lc) = lc - 56320
      BY <1>3, LowBits, SMT DEF HighHalf, LowHalf, Low10
    <2>3. PICK x, y : x = Low10(uc) /\ y = Low10(lc)
      OBVIOUS
    <2>4. from_surrogate_pair(uc, lc) = Blend(x, y)
      BY <1>3, <1>5, <2>3, Zenon
    <2>5. Blend(x, y) = 65536 + 1024 * (uc - 55296) + lc - 56320
      BY <2>2, <2>3, SMT DEF Blend
    <2>6. PairFits(uc, lc)
      BY <1>3, SMT DEF HighHalf, LowHalf, PairFits
    <2>7. Blend(x, y) = PairPoint(uc, lc)
      BY <2>5 DEF PairPoint
    <2> QED
      BY <2>4, <2>6, <2>7, Zenon
  <1>4. CASE ~(HighHalf(uc) /\ LowHalf(lc))
    <2>1. ~PairFits(uc, lc)
      BY <1>4, SMT DEF HighHalf, LowHalf, PairFits
    <2> QED
      BY <1>4, <1>5, <2>1, Zenon
  <1> QED
    BY <1>3, <1>4

(* What parse_string takes at a window, and nothing else, is a character. *)
TakesAll(y, b, u) == Len(y) = Unit(b).len /\ u = Unit(b).put

(* A character that is no escape.                                          *)
LEMMA BareIs ==
    ASSUME NEW b \in Windows, NEW y, Begins(y, b), b[1] # Backslash, NEW u
    PROVE  u \in UnitMeans(y) <=> b[1] # Quote /\ TakesAll(y, b, u)
  <1>1. y \in Text /\ Len(y) \in 1 .. 12 /\ y[1] = b[1] /\ \A k \in 1 .. Len(y) : y[k] = b[k]
    BY DEF Begins
  <1>2. u \in UnitMeans(y) <=> IsBare(y) /\ u = y
    <2>1. u \notin ShortMeans(y)
      BY ShortIs
    <2> QED
      BY <1>1, <2>1, UnitCases, SMT
  <1>3. IsBare(y) <=> utf8_validate_cz(b) = Len(y) /\ b[1] > 31 /\ b[1] # Quote
    BY <1>1, Utf8Is, SMT DEF IsBare
  <1>4. b[1] \in 0 .. 255
    BY DEF Windows
  <1>5. CASE b[1] <= 31
    <2>1. Unit(b) = Refused(1)
      BY <1>5, Zenon DEF Unit
    <2>2. Unit(b).len = 0
      BY <2>1 DEF Refused
    <2> QED
      <3>1. ~(b[1] > 31)
        BY <1>4, <1>5
      <3>2. Len(y) # 0
        BY <1>1
      <3> QED
        BY <1>2, <1>3, <2>2, <3>1, <3>2, Zenon DEF TakesAll
  <1>6. CASE ~(b[1] <= 31)
    <2> DEFINE len == utf8_validate_cz(b)
               put == [k \in 1 .. len |-> b[k]]
    <2>1. Unit(b) = IF len = 0 THEN Refused(utf8_looks(b)) ELSE Taken(len, put)
      BY <1>6, Zenon DEF Unit
    <2>2. len = Len(y) => put = y
      <3>1. ASSUME len = Len(y)
            PROVE  y = [k \in 1 .. Len(y) |-> b[k]]
        <4>1. y = [k \in 1 .. Len(y) |-> y[k]]
          BY <1>1 DEF Text
        <4>2. [k \in 1 .. Len(y) |-> y[k]] = [k \in 1 .. Len(y) |-> b[k]]
          BY <1>1
        <4> QED
          BY <4>1, <4>2, Zenon
      <3> QED
        BY <3>1, Zenon
    <2> HIDE DEF len, put
    <2>3. Unit(b).len = len /\ (len # 0 => Unit(b).put = put)
      BY <2>1 DEF Refused, Taken
    <2>4. Len(y) = Unit(b).len => Unit(b).put = y
      BY <1>1, <2>2, <2>3, SMT
    <2>5. IsBare(y) <=> Len(y) = Unit(b).len /\ b[1] # Quote
      <3>1. b[1] > 31
        BY <1>4, <1>6
      <3>2. IsBare(y) <=> len = Len(y) /\ b[1] # Quote
        BY <1>3, <3>1, Zenon DEF len
      <3> QED
        BY <2>3, <3>2, Zenon
    <2> QED
      BY <1>2, <2>4, <2>5, Zenon DEF TakesAll
  <1> QED
    BY <1>5, <1>6

(* An escape: short, \uXXXX, or a surrogate pair.                          *)
LEMMA EscapeIs ==
    ASSUME NEW b \in Windows, NEW y, Begins(y, b), b[1] = Backslash, NEW u
    PROVE  u \in UnitMeans(y) <=> TakesAll(y, b, u)
  <1> DEFINE n == Len(y)
             uc == parse_hex16(b, 2)
             lc == parse_hex16(b, 8)
             pair == from_surrogate_pair(uc.val, lc.val)
  <1>1. y \in Text /\ n \in 1 .. 12 /\ y[1] = b[1] /\ \A k \in 1 .. n : y[k] = b[k]
    BY DEF Begins
  <1>2. Unit(b) =
        IF b[2] \in Plain \cup Letters THEN Taken(2, << Meant(b[2]) >>)
        ELSE IF b[2] # 117 THEN Refused(2)
        ELSE IF uc.val = None THEN Refused(uc.looks)
        ELSE IF Disallowed(uc.val) THEN Refused(6)
        ELSE IF uc.val \notin Surrogates THEN Taken(6, utf8_write_char(uc.val))
        ELSE IF b[7] # Backslash THEN Refused(7)
        ELSE IF b[8] # 117 THEN Refused(8)
        ELSE IF lc.val = None THEN Refused(lc.looks)
        ELSE IF pair = None THEN Refused(12)
        ELSE Taken(12, utf8_write_char(pair))
    BY Zenon DEF Escape, Unit
  <1>3. u \in ShortMeans(y) <=> n = 2 /\ b[2] \in Plain \cup Letters /\ u = << Meant(b[2]) >>
    BY ShortIs, Zenon
  <1>4. 117 \notin Plain \cup Letters
    BY DEF Plain, Letters, Quote, Backslash, Slash
  <1>5. IsHex(y) <=> n = 6 /\ b[2] = 117 /\ uc.val # None
    <2>1. CASE n = 6
      <3>1. \A k \in 1 .. 6 : y[k] = b[0 + k]
        BY <1>1, <2>1
      <3>2. IsHex(y) <=> HexAt(b, 0)
        BY <2>1, <3>1, HexIs
      <3>3. HexAt(b, 0) <=> b[2] = 117 /\ uc.val # None
        BY DEF HexAt
      <3> QED
        BY <2>1, <3>2, <3>3
    <2>2. CASE n # 6
      BY <2>2 DEF IsHex
    <2> QED
      BY <2>1, <2>2
  <1>6. IsHex(y) => Hex(y) = uc.val
    <2>1. ASSUME n = 6, IsHex(y)
          PROVE  Hex(y) = parse_hex16(b, 0 + 2).val
      <3>1. \A k \in 1 .. 6 : y[k] = b[0 + k]
        BY <1>1, <2>1
      <3> QED
        BY <2>1, <3>1, HexIs
    <2> QED
      BY <1>5, <2>1
  <1>7. uc.val = None \/ Word16(uc.val)
    BY HexFacts
  <1>8. lc.val = None \/ Word16(lc.val)
    BY HexFacts
  <1> DEFINE y1 == SubSeq(y, 1, 6)
             y2 == SubSeq(y, 7, 12)
             both == /\ b[2] = 117 /\ uc.val # None /\ b[7] = Backslash /\ b[8] = 117
                     /\ lc.val # None
  <1>9. n = 12 => /\ IsHex(y1) /\ IsHex(y2) <=> both
                  /\ both => Hex(y1) = uc.val /\ Hex(y2) = lc.val
    <2>1. ASSUME n = 12
          PROVE  /\ Len(y1) = 6 /\ Len(y2) = 6
                 /\ \A k \in 1 .. 6 : y1[k] = y[k] /\ y2[k] = y[6 + k]
      BY <1>1, <2>1 DEF Text
    <2>2. ASSUME n = 12
          PROVE  \A k \in 1 .. 6 : y1[k] = b[0 + k] /\ y2[k] = b[6 + k]
      BY <1>1, <2>1, <2>2
    <2> HIDE DEF y1, y2
    <2>3. ASSUME n = 12
          PROVE  /\ IsHex(y1) <=> HexAt(b, 0)
                 /\ IsHex(y1) => Hex(y1) = parse_hex16(b, 0 + 2).val
      BY <2>1, <2>2, <2>3, HexIs
    <2>4. ASSUME n = 12
          PROVE  /\ IsHex(y2) <=> HexAt(b, 6)
                 /\ IsHex(y2) => Hex(y2) = parse_hex16(b, 6 + 2).val
      BY <2>1, <2>2, <2>4, HexIs
    <2>5. /\ HexAt(b, 0) <=> b[2] = 117 /\ uc.val # None
          /\ HexAt(b, 6) <=> b[7] = Backslash /\ b[8] = 117 /\ lc.val # None
          /\ parse_hex16(b, 0 + 2) = uc /\ parse_hex16(b, 6 + 2) = lc
      BY DEF HexAt
    <2> QED
      BY <2>3, <2>4, <2>5
  <1> HIDE DEF uc, lc
  <1>10. both => pair = IF PairFits(uc.val, lc.val) THEN PairPoint(uc.val, lc.val) ELSE None
    <2>1. ASSUME both
          PROVE  uc.val \in Int /\ lc.val \in Int
      BY <1>7, <1>8, <2>1 DEF Word16
    <2> QED
      BY <2>1, PairIs
  <1>11. both => (pair # None <=> PairFits(uc.val, lc.val))
    <2>1. ASSUME both, PairFits(uc.val, lc.val)
          PROVE  PairPoint(uc.val, lc.val) # None
      <3>1. uc.val \in Int /\ lc.val \in Int
        BY <1>7, <1>8, <2>1 DEF Word16
      <3> QED
        BY <2>1, <3>1, PairIsSome
    <2> QED
      BY <1>10, <2>1
  <1>12. IsPair(y) <=> n = 12 /\ IsHex(y1) /\ IsHex(y2) /\ PairFits(Hex(y1), Hex(y2))
    BY DEF IsPair, PairFits
  <1>13. PairMeans(y) = {utf8_write_char(PairPoint(Hex(y1), Hex(y2)))}
    BY DEF PairMeans, PairPoint
  <1> HIDE DEF y1, y2
  <1>14. IsPair(y) <=> n = 12 /\ both /\ pair # None
    BY <1>9, <1>11, <1>12
  <1>15. IsPair(y) => PairMeans(y) = {utf8_write_char(pair)}
    BY <1>9, <1>10, <1>11, <1>13, <1>14
  <1>16. HexMeans(y) = IF Hex(y) \in Surrogates \cup {0} THEN {} ELSE {utf8_write_char(Hex(y))}
    BY Zenon DEF HexMeans
  <1>17. UnitMeans(y) = IF IsHex(y) THEN HexMeans(y)
                        ELSE IF IsPair(y) THEN PairMeans(y) ELSE ShortMeans(y)
    BY <1>1, UnitCases
  <1>18. \A l, put : /\ Taken(l, put).len = l /\ Taken(l, put).put = put
                     /\ Refused(l).len = 0
    BY DEF Taken, Refused
  <1>19. n # 0
    BY <1>1
  <1> HIDE DEF n, pair
  <1>20. PairFits(uc.val, lc.val) => uc.val \in Surrogates /\ uc.val # 0
    <2>1. ASSUME PairFits(uc.val, lc.val), uc.val \in Int
          PROVE  uc.val \in Surrogates /\ uc.val # 0
      BY <2>1, SMT DEF PairFits, Surrogates
    <2>2. None - 55296 \notin 0 .. 1023
      BY SMT DEF None
    <2>3. PairFits(uc.val, lc.val) => uc.val # None
      BY <2>2 DEF PairFits
    <2> QED
      BY <1>7, <2>1, <2>3 DEF Word16
  <1>21. TakesAll(y, b, u) <=> n = Unit(b).len /\ u = Unit(b).put
    BY DEF TakesAll, n
  <1>22. 2 # 6 /\ 2 # 12 /\ 6 # 12
    OBVIOUS
  <1>23. u \in UnitMeans(y) <=>
            \/ n = 6 /\ b[2] = 117 /\ uc.val # None /\ uc.val # 0
                 /\ uc.val \notin Surrogates /\ u = utf8_write_char(uc.val)
            \/ n = 12 /\ both /\ pair # None /\ u = utf8_write_char(pair)
            \/ n = 2 /\ b[2] \in Plain \cup Letters /\ u = << Meant(b[2]) >>
    <2>1. u \in HexMeans(y) <=>
            Hex(y) # 0 /\ Hex(y) \notin Surrogates /\ u = utf8_write_char(Hex(y))
      <3>1. Hex(y) \in Surrogates \cup {0} <=> Hex(y) \in Surrogates \/ Hex(y) = 0
        BY Zenon
      <3> QED
        BY <1>16, <3>1, Zenon
    <2>2. CASE IsHex(y)
      <3>1. u \in UnitMeans(y) <=>
              uc.val # 0 /\ uc.val \notin Surrogates /\ u = utf8_write_char(uc.val)
        BY <1>6, <1>17, <2>1, <2>2, Zenon
      <3> QED
        BY <1>5, <1>22, <2>2, <3>1, Zenon
    <2>3. CASE ~IsHex(y) /\ IsPair(y)
      <3>1. u \in UnitMeans(y) <=> u = utf8_write_char(pair)
        BY <1>15, <1>17, <2>3, Zenon
      <3> QED
        BY <1>5, <1>14, <1>22, <2>3, <3>1, Zenon
    <2>4. CASE ~IsHex(y) /\ ~IsPair(y)
      <3>1. u \in UnitMeans(y) <=> u \in ShortMeans(y)
        BY <1>17, <2>4, Zenon
      <3> QED
        BY <1>3, <1>5, <1>14, <2>4, <3>1, Zenon
    <2> QED
      BY <2>2, <2>3, <2>4, Zenon
  <1>24. Disallowed(uc.val) <=> uc.val = 0
    BY DEF Disallowed
  <1>25. pair # None /\ both => uc.val \in Surrogates /\ uc.val # 0
    BY <1>11, <1>20, Zenon
  <1>26. CASE b[2] \in Plain \cup Letters
    <2>0. Unit(b) = Taken(2, << Meant(b[2]) >>)
      BY <1>2, <1>26, Zenon
    <2>1. Unit(b).len = 2 /\ Unit(b).put = << Meant(b[2]) >> /\ b[2] # 117
      BY <2>0, <1>4, <1>26, <1>18
    <2> QED
      BY <1>21, <1>23, <1>26, <2>1, Zenon
  <1>27. CASE /\ b[2] \notin Plain \cup Letters
              /\ b[2] # 117 \/ uc.val = None \/ Disallowed(uc.val)
    <2>0. \E l : Unit(b) = Refused(l)
      BY <1>2, <1>27, Zenon
    <2>1. Unit(b).len = 0
      BY <2>0, <1>18, Zenon
    <2> QED
      BY <1>19, <1>21, <1>23, <1>24, <1>25, <1>27, <2>1, Zenon
  <1>28. CASE /\ b[2] \notin Plain \cup Letters /\ b[2] = 117 /\ uc.val # None
              /\ ~Disallowed(uc.val) /\ uc.val \notin Surrogates
    <2>0. Unit(b) = Taken(6, utf8_write_char(uc.val))
      BY <1>2, <1>28, Zenon
    <2>1. Unit(b).len = 6 /\ Unit(b).put = utf8_write_char(uc.val)
      BY <2>0, <1>18
    <2> QED
      BY <1>21, <1>23, <1>24, <1>25, <1>28, <2>1, Zenon
  <1>29. CASE /\ b[2] \notin Plain \cup Letters /\ b[2] = 117 /\ uc.val # None
              /\ ~Disallowed(uc.val) /\ uc.val \in Surrogates
              /\ b[7] # Backslash \/ b[8] # 117 \/ lc.val = None \/ pair = None
    <2>0. \E l : Unit(b) = Refused(l)
      BY <1>2, <1>29, Zenon
    <2>1. Unit(b).len = 0
      BY <2>0, <1>18, Zenon
    <2> QED
      BY <1>19, <1>21, <1>23, <1>29, <2>1, Zenon
  <1>30. CASE /\ b[2] \notin Plain \cup Letters /\ b[2] = 117 /\ uc.val # None
              /\ ~Disallowed(uc.val) /\ uc.val \in Surrogates
              /\ b[7] = Backslash /\ b[8] = 117 /\ lc.val # None /\ pair # None
    <2>0. Unit(b) = Taken(12, utf8_write_char(pair))
      BY <1>2, <1>30, Zenon
    <2>1. Unit(b).len = 12 /\ Unit(b).put = utf8_write_char(pair)
      BY <2>0, <1>18
    <2> QED
      BY <1>21, <1>23, <1>30, <2>1, Zenon
  <1> QED
    BY <1>26, <1>27, <1>28, <1>29, <1>30, Zenon

(* One iteration of parse_string takes a character of the grammar and      *)
(* appends what it means, and it takes nothing else: every window of       *)
(* twelve bytes against every prefix of it.                                *)
THEOREM UnitIs ==
    ASSUME NEW b \in Windows, NEW y, Begins(y, b), NEW u
    PROVE  u \in UnitMeans(y) <=> b[1] # Quote /\ TakesAll(y, b, u)
  <1>1. Backslash # Quote
    BY DEF Backslash, Quote
  <1>2. CASE b[1] = Backslash
    BY <1>1, <1>2, EscapeIs
  <1>3. CASE b[1] # Backslash
    BY <1>3, BareIs
  <1> QED
    BY <1>2, <1>3

-----------------------------------------------------------------------------
(***************************************************************************)
(* Part 3.  The kind of a value, by its first byte                         *)
(***************************************************************************)

(* What the first byte of a value says of its kind. *)
WordLetters == {110, 102, 116}

(* The first bytes of null, false and true.                                *)
LEMMA WordBytes ==
    /\ \A w \in Words : w.word \in Text /\ Len(w.word) \in 4 .. 5 /\ w.word[1] \in WordLetters
    /\ \A w \in Words : \A k \in 1 .. Len(w.word) : w.word[k] \notin Spaces
    /\ \A w, x \in Words : w.word[1] = x.word[1] => w = x
    /\ {w.word[1] : w \in Words} = WordLetters
  <1> DEFINE null == [word |-> << 110, 117, 108, 108 >>, value |-> [tag |-> "NULL"]]
             false == [word |-> << 102, 97, 108, 115, 101 >>,
                       value |-> [tag |-> "BOOL", bool_ |-> FALSE]]
             true == [word |-> << 116, 114, 117, 101 >>,
                      value |-> [tag |-> "BOOL", bool_ |-> TRUE]]
  <1>1. \A w : w \in Words <=> w = null \/ w = false \/ w = true
    BY DEF Words
  <1>2. /\ null.word \in Text /\ Len(null.word) = 4 /\ null.word[1] = 110
        /\ \A k \in 1 .. 4 : null.word[k] \notin Spaces
    BY DEF Text, Spaces
  <1>3. /\ false.word \in Text /\ Len(false.word) = 5 /\ false.word[1] = 102
        /\ \A k \in 1 .. 5 : false.word[k] \notin Spaces
    BY DEF Text, Spaces
  <1>4. /\ true.word \in Text /\ Len(true.word) = 4 /\ true.word[1] = 116
        /\ \A k \in 1 .. 4 : true.word[k] \notin Spaces
    BY DEF Text, Spaces
  <1> HIDE DEF null, false, true
  <1>5. \A w \in Words : w.word \in Text /\ Len(w.word) \in 4 .. 5 /\ w.word[1] \in WordLetters
    BY <1>1, <1>2, <1>3, <1>4 DEF WordLetters
  <1>6. \A w \in Words : \A k \in 1 .. Len(w.word) : w.word[k] \notin Spaces
    BY <1>1, <1>2, <1>3, <1>4, SMTT(30)
  <1>7. \A w, x \in Words : w.word[1] = x.word[1] => w = x
    BY <1>1, <1>2, <1>3, <1>4
  <1>8. {w.word[1] : w \in Words} = WordLetters
    BY <1>1, <1>2, <1>3, <1>4, SMT DEF WordLetters
  <1> QED
    BY <1>5, <1>6, <1>7, <1>8

(* A number begins with a digit or a minus and ends with a digit.          *)
LEMMA NumberEnds ==
    ASSUME NEW t \in Text, NEW i, NEW j, Span(t, i, j), IsNumber(Piece(t, i, j))
    PROVE  i <= j /\ t[i] \in Digits \cup {Minus} /\ t[j] \in Digits
  <1>1. PICK k, l : NumberSpan(t, i, j, k, l)
    BY NumberIs
  <1>2. /\ i \in Nat /\ j \in Nat /\ k \in i - 1 .. j /\ l \in k .. j
        /\ WholeSpan(t, i, k) /\ FractionSpan(t, k + 1, l) /\ ExponentSpan(t, l + 1, j)
    BY <1>1, PieceFacts DEF NumberSpan
  <1>3. \A m, n \in Int : Digs(t, m, n) => m <= n /\ t[m] \in Digits /\ t[n] \in Digits
    BY DEF Digs
  <1>4. k \in Int /\ l \in Int /\ i <= k
    BY <1>2 DEF WholeSpan
  <1>5. t[k] \in Digits /\ t[i] \in Digits \cup {Minus}
    BY <1>2, <1>3, <1>4, SMT DEF WholeSpan
  <1>6. t[l] \in Digits
    <2>1. CASE l = k
      BY <1>5, <2>1
    <2>2. CASE l # k
      BY <1>2, <1>3, <1>4, <2>2, SMT DEF FractionSpan
    <2> QED
      BY <2>1, <2>2
  <1>7. t[j] \in Digits
    <2>1. CASE j = l
      BY <1>6, <2>1
    <2>2. CASE j # l
      <3>1. \E m \in Int : Digs(t, m, j)
        BY <1>2, <1>4, <2>2, SMT DEF ExponentSpan
      <3> QED
        BY <1>2, <1>3, <3>1
    <2> QED
      BY <2>1, <2>2
  <1> QED
    BY <1>2, <1>4, <1>5, <1>7

(* These bytes differ.                                                     *)
LEMMA KindBytes ==
    /\ \A c \in Digits \cup {Minus} : c \notin WordLetters \cup {Quote, OpenBracket, OpenBrace}
    /\ \A c \in WordLetters : c \notin {Quote, OpenBracket, OpenBrace}
    /\ Quote # OpenBracket /\ Quote # OpenBrace /\ OpenBracket # OpenBrace
    /\ \A c \in WordLetters \cup Digits \cup {Minus, Quote, OpenBracket, OpenBrace} :
         c \notin {CloseBracket, CloseBrace, Comma, Colon} \cup Spaces
    /\ \A c \in {CloseBracket, CloseBrace, Comma, Colon, Quote} \cup Digits : c \notin Spaces
    /\ CloseBracket # CloseBrace /\ Comma # CloseBracket /\ Comma # CloseBrace
    /\ Comma # Quote /\ Colon # Quote /\ CloseBrace # Quote
  BY DEF WordLetters, Digits, Minus, Quote, OpenBracket, OpenBrace, CloseBracket, CloseBrace,
         Comma, Colon, Spaces

(* The first byte of each kind of value.                                   *)
LEMMA CoreFirst ==
    ASSUME NEW t \in Text, NEW a, NEW b, Span(t, a, b), NEW v
    PROVE  /\ MeansWord(t, a, b, v) => t[a] \in WordLetters /\ a <= b /\ t[b] \notin Spaces
           /\ MeansNumber(t, a, b, v) =>
                t[a] \in Digits \cup {Minus} /\ a <= b /\ t[b] \notin Spaces
           /\ MeansString(t, a, b, v) => t[a] = Quote /\ a <= b /\ t[b] \notin Spaces
           /\ MeansArray(t, a, b, v) => t[a] = OpenBracket /\ a <= b /\ t[b] \notin Spaces
           /\ MeansObject(t, a, b, v) => t[a] = OpenBrace /\ a <= b /\ t[b] \notin Spaces
  <1>1. a \in Nat /\ b \in Nat
    BY PieceFacts
  <1>2. ASSUME MeansWord(t, a, b, v)
        PROVE  t[a] \in WordLetters /\ a <= b /\ t[b] \notin Spaces
    <2>1. PICK w \in Words : w.word = Piece(t, a, b)
      BY <1>2 DEF MeansWord
    <2> DEFINE n == Len(w.word)
    <2>2. n \in 4 .. 5 /\ w.word[1] \in WordLetters /\ \A k \in 1 .. n : w.word[k] \notin Spaces
      BY WordBytes
    <2>3. n = b - a + 1 /\ \A k \in 1 .. b - a + 1 : w.word[k] = t[a + k - 1]
      BY <2>1, PieceFacts
    <2> HIDE DEF n
    <2>4. b - a + 1 \in 4 .. 5
      BY <2>2, <2>3
    <2>5. w.word[1] = t[a] /\ w.word[b - a + 1] = t[b]
      <3>1. 1 \in 1 .. b - a + 1 /\ b - a + 1 \in 1 .. b - a + 1
            /\ a + 1 - 1 = a /\ a + (b - a + 1) - 1 = b
        BY <1>1, <2>4
      <3> QED
        BY <2>3, <3>1
    <2>6. w.word[b - a + 1] \notin Spaces
      BY <2>2, <2>3, <2>4
    <2> QED
      BY <1>1, <2>2, <2>4, <2>5, <2>6
  <1>3. ASSUME MeansNumber(t, a, b, v)
        PROVE  t[a] \in Digits \cup {Minus} /\ a <= b /\ t[b] \notin Spaces
    BY <1>3, NumberEnds, KindBytes DEF MeansNumber
  <1>4. MeansString(t, a, b, v) => t[a] = Quote /\ a <= b /\ t[b] \notin Spaces
    BY <1>1, KindBytes DEF MeansString, Quoted
  <1>5. MeansArray(t, a, b, v) => t[a] = OpenBracket /\ a <= b /\ t[b] \notin Spaces
    BY <1>1, KindBytes DEF MeansArray
  <1>6. MeansObject(t, a, b, v) => t[a] = OpenBrace /\ a <= b /\ t[b] \notin Spaces
    BY <1>1, KindBytes DEF MeansObject
  <1> QED
    BY <1>2, <1>3, <1>4, <1>5, <1>6

(* Which kind a value is, by its first byte. *)
LEMMA CoreKind ==
    ASSUME NEW t \in Text, NEW a, NEW b, Span(t, a, b), NEW v
    PROVE  /\ Core(t, a, b, v) =>
                /\ a <= b
                /\ t[a] \in WordLetters \cup Digits \cup {Minus, Quote, OpenBracket, OpenBrace}
           /\ t[a] \in WordLetters => (Core(t, a, b, v) <=> MeansWord(t, a, b, v))
           /\ t[a] = Quote => (Core(t, a, b, v) <=> MeansString(t, a, b, v))
           /\ t[a] = OpenBracket => (Core(t, a, b, v) <=> MeansArray(t, a, b, v))
           /\ t[a] = OpenBrace => (Core(t, a, b, v) <=> MeansObject(t, a, b, v))
           /\ t[a] \notin WordLetters \cup {Quote, OpenBracket, OpenBrace} =>
                (Core(t, a, b, v) <=> MeansNumber(t, a, b, v))
  <1> DEFINE any == \/ MeansWord(t, a, b, v) \/ MeansNumber(t, a, b, v)
                    \/ MeansString(t, a, b, v)
                    \/ MeansArray(t, a, b, v) \/ MeansObject(t, a, b, v)
  <1>1. any => Inked(t, a, b)
                 /\ t[a] \in WordLetters \cup Digits \cup {Minus, Quote, OpenBracket, OpenBrace}
    <2>1. any => /\ a <= b /\ t[b] \notin Spaces
                 /\ t[a] \in WordLetters \cup Digits \cup {Minus, Quote, OpenBracket, OpenBrace}
      BY CoreFirst, SMT
    <2> HIDE DEF any
    <2> QED
      BY <2>1, KindBytes, SMT DEF Inked
  <1>2. Core(t, a, b, v) => Inked(t, a, b) /\ a <= b
    BY DEF Core, Inked
  <1>3. Core(t, a, b, v) <=> any
    <2>1. Inked(t, a, b) => (Core(t, a, b, v) <=> any)
      BY CoreCases
    <2> QED
      BY <1>1, <1>2, <2>1, Zenon
  <1> QED
    BY <1>1, <1>2, <1>3, CoreFirst, KindBytes, SMT

-----------------------------------------------------------------------------
(***************************************************************************)
(* Part 4.  What the calls that are running expect of the text             *)
(***************************************************************************)

(* What a frame that is running still expects of the text: v has been read *)
(* for it up to p, and it returns v2 with the text read up to p2.          *)
ArrayValue(e) == [tag |-> "ARRAY", kids |-> e]
ObjectValue(e) == [tag |-> "OBJECT", kids |-> e]
StringValue(x) == [tag |-> "STRING", string_ |-> x]
Entry(k, v) == [key |-> k, value |-> v]

ClosesArray(t, f, v, p, v2, p2) ==
    \E b, more : /\ b \in p .. Len(t) /\ t[b] = CloseBracket
                 /\ TailElements(t, p, b - 1, more)
                 /\ v2 = ArrayValue(f.kids \o (<< v >> \o more)) /\ p2 = b + 1

ClosesObject(t, f, v, p, v2, p2) ==
    \E b, more : /\ b \in p .. Len(t) /\ t[b] = CloseBrace
                 /\ TailMembers(t, p, b - 1, more)
                 /\ v2 = ObjectValue(f.kids \o (<< Entry(f.key, v) >> \o more)) /\ p2 = b + 1

Closes(t, f, v, p, v2, p2) ==
    \/ f.fn = "array" /\ ClosesArray(t, f, v, p, v2, p2)
    \/ f.fn = "object" /\ ClosesObject(t, f, v, p, v2, p2)

(* What all of the frames expect, if the text means tot. *)
Path(t, g, vs, ps) == \A k \in 1 .. Len(g) : Closes(t, g[k], vs[k], ps[k], vs[k + 1], ps[k + 1])
Chain(t, g, v, p, tot) ==
    \E vs, ps : /\ vs[1] = v /\ ps[1] = p /\ Path(t, g, vs, ps)
                /\ vs[Len(g) + 1] = tot /\ BlankSpan(t, ps[Len(g) + 1], Len(t))

(* Without a frame, the value that has been read is the meaning, and only  *)
(* space is left.                                                          *)
LEMMA ChainEmpty ==
    ASSUME NEW t, NEW v, NEW p, NEW tot
    PROVE  Chain(t, << >>, v, p, tot) <=> v = tot /\ BlankSpan(t, p, Len(t))
  <1>1. Len(<< >>) = 0 /\ 0 + 1 = 1 /\ \A k \in 1 .. 0 : FALSE
    OBVIOUS
  <1>2. ASSUME Chain(t, << >>, v, p, tot)
        PROVE  v = tot /\ BlankSpan(t, p, Len(t))
    <2>1. PICK vs, ps : /\ vs[1] = v /\ ps[1] = p
                        /\ vs[Len(<< >>) + 1] = tot /\ BlankSpan(t, ps[Len(<< >>) + 1], Len(t))
      BY <1>2 DEF Chain
    <2> QED
      BY <1>1, <2>1
  <1>3. ASSUME v = tot, BlankSpan(t, p, Len(t))
        PROVE  Chain(t, << >>, v, p, tot)
    <2> DEFINE vs == [k \in 1 .. 1 |-> v]
               ps == [k \in 1 .. 1 |-> p]
    <2>1. vs[1] = v /\ ps[1] = p
      OBVIOUS
    <2> HIDE DEF vs, ps
    <2>2. Path(t, << >>, vs, ps)
      BY <1>1 DEF Path
    <2>3. vs[Len(<< >>) + 1] = tot /\ BlankSpan(t, ps[Len(<< >>) + 1], Len(t))
      BY <1>1, <1>3, <2>1
    <2> QED
      BY <2>1, <2>2, <2>3, Zenon DEF Chain
  <1> QED
    BY <1>2, <1>3

(* With a frame on top, what follows closes that frame, and the value it   *)
(* returns goes to the others.                                             *)
LEMMA ChainStep ==
    ASSUME NEW t, NEW g, IsStack(g), NEW f, NEW v, NEW p, NEW tot
    PROVE  Chain(t, << f >> \o g, v, p, tot) <=>
             \E v2, p2 : Closes(t, f, v, p, v2, p2) /\ Chain(t, g, v2, p2, tot)
  <1> DEFINE h == << f >> \o g
             n == Len(g)
  <1>1. n \in Nat /\ Len(h) = n + 1 /\ h[1] = f /\ \A k \in 1 .. n : h[k + 1] = g[k]
    <2>1. /\ IsStack(h) /\ DOMAIN h = 1 .. n + 1 /\ n \in Nat /\ h[1] = f
          /\ \A k \in 1 .. n : h[k + 1] = g[k]
      BY PushFacts
    <2>2. \E F : h \in Seq(F)
      BY <2>1 DEF IsStack
    <2> HIDE DEF h, n
    <2>3. Len(h) \in Nat /\ DOMAIN h = 1 .. Len(h)
      BY <2>2
    <2>4. Len(h) = n + 1
      BY <2>1, <2>3
    <2> QED
      BY <2>1, <2>4
  <1> HIDE DEF h, n
  <1>2. ASSUME NEW vs, NEW ps, vs[1] = v, ps[1] = p, Path(t, h, vs, ps),
               vs[Len(h) + 1] = tot, BlankSpan(t, ps[Len(h) + 1], Len(t))
        PROVE  Closes(t, f, v, p, vs[2], ps[2]) /\ Chain(t, g, vs[2], ps[2], tot)
    <2>1. \A k \in 1 .. n + 1 : Closes(t, h[k], vs[k], ps[k], vs[k + 1], ps[k + 1])
      BY <1>1, <1>2 DEF Path
    <2>2. Closes(t, f, v, p, vs[2], ps[2])
      <3>1. 1 \in 1 .. n + 1 /\ 1 + 1 = 2
        BY <1>1
      <3> QED
        BY <1>1, <1>2, <2>1, <3>1
    <2> DEFINE ws == [k \in 1 .. n + 1 |-> vs[k + 1]]
               qs == [k \in 1 .. n + 1 |-> ps[k + 1]]
    <2>3. \A k \in 1 .. n + 1 : ws[k] = vs[k + 1] /\ qs[k] = ps[k + 1]
      OBVIOUS
    <2> HIDE DEF ws, qs
    <2>4. Path(t, g, ws, qs)
      <3>1. ASSUME NEW k \in 1 .. n
            PROVE  Closes(t, g[k], ws[k], qs[k], ws[k + 1], qs[k + 1])
        <4>1. k + 1 \in 1 .. n + 1 /\ k \in 1 .. n + 1
          BY <1>1
        <4>2. Closes(t, h[k + 1], vs[k + 1], ps[k + 1], vs[(k + 1) + 1], ps[(k + 1) + 1])
          BY <2>1, <4>1
        <4>3. /\ h[k + 1] = g[k] /\ ws[k] = vs[k + 1] /\ qs[k] = ps[k + 1]
              /\ ws[k + 1] = vs[(k + 1) + 1] /\ qs[k + 1] = ps[(k + 1) + 1]
          BY <1>1, <2>3, <4>1
        <4> QED
          BY <4>2, <4>3, Zenon
      <3> QED
        BY <3>1 DEF Path, n
    <2>5. 1 \in 1 .. n + 1 /\ n + 1 \in 1 .. n + 1 /\ 1 + 1 = 2 /\ Len(h) + 1 = (n + 1) + 1
      BY <1>1
    <2>6. ws[1] = vs[2] /\ qs[1] = ps[2] /\ ws[n + 1] = tot /\ BlankSpan(t, qs[n + 1], Len(t))
      BY <1>2, <2>3, <2>5
    <2>7. Chain(t, g, vs[2], ps[2], tot)
      BY <2>4, <2>6, Zenon DEF Chain, n
    <2> QED
      BY <2>2, <2>7
  <1>3. ASSUME NEW v2, NEW p2, Closes(t, f, v, p, v2, p2), Chain(t, g, v2, p2, tot)
        PROVE  Chain(t, h, v, p, tot)
    <2>1. PICK ws, qs : /\ ws[1] = v2 /\ qs[1] = p2 /\ Path(t, g, ws, qs)
                        /\ ws[n + 1] = tot /\ BlankSpan(t, qs[n + 1], Len(t))
      BY <1>3, Zenon DEF Chain, n
    <2> DEFINE vs == [k \in 1 .. n + 2 |-> IF k = 1 THEN v ELSE ws[k - 1]]
               ps == [k \in 1 .. n + 2 |-> IF k = 1 THEN p ELSE qs[k - 1]]
    <2>2. vs[1] = v /\ ps[1] = p /\ \A k \in 1 .. n + 1 : vs[k + 1] = ws[k] /\ ps[k + 1] = qs[k]
      <3>1. 1 \in 1 .. n + 2
        BY <1>1
      <3>2. \A k \in 1 .. n + 1 : k + 1 \in 1 .. n + 2 /\ k + 1 # 1 /\ (k + 1) - 1 = k
        BY <1>1
      <3> QED
        BY <3>1, <3>2
    <2> HIDE DEF vs, ps
    <2>3. \A k \in 1 .. n : Closes(t, g[k], ws[k], qs[k], ws[k + 1], qs[k + 1])
      BY <2>1 DEF Path, n
    <2>4. Path(t, h, vs, ps)
      <3>1. ASSUME NEW k \in 1 .. n + 1
            PROVE  Closes(t, h[k], vs[k], ps[k], vs[k + 1], ps[k + 1])
        <4>1. CASE k = 1
          <5>1. 1 \in 1 .. n + 1
            BY <1>1
          <5>2. vs[1 + 1] = v2 /\ ps[1 + 1] = p2
            BY <2>1, <2>2, <5>1
          <5> QED
            BY <1>1, <1>3, <2>2, <4>1, <5>2, Zenon
        <4>2. CASE k # 1
          <5>1. PICK j \in 1 .. n : k = j + 1
            <6>1. k - 1 \in 1 .. n /\ k = (k - 1) + 1
              BY <1>1, <4>2
            <6> QED
              BY <6>1
          <5>2. j \in 1 .. n + 1 /\ j + 1 \in 1 .. n + 1
            BY <1>1
          <5>3. /\ vs[j + 1] = ws[j] /\ ps[j + 1] = qs[j]
                /\ vs[(j + 1) + 1] = ws[j + 1] /\ ps[(j + 1) + 1] = qs[j + 1]
            BY <2>2, <5>2
          <5>4. Closes(t, g[j], ws[j], qs[j], ws[j + 1], qs[j + 1]) /\ h[j + 1] = g[j]
            BY <1>1, <2>3
          <5> QED
            BY <5>1, <5>3, <5>4, Zenon
        <4> QED
          BY <4>1, <4>2
      <3> QED
        BY <1>1, <3>1 DEF Path
    <2>5. vs[Len(h) + 1] = tot /\ BlankSpan(t, ps[Len(h) + 1], Len(t))
      <3>1. n + 1 \in 1 .. n + 1 /\ Len(h) + 1 = (n + 1) + 1
        BY <1>1
      <3> QED
        BY <2>1, <2>2, <3>1
    <2> QED
      BY <2>2, <2>4, <2>5, Zenon DEF Chain
  <1>4. ASSUME Chain(t, h, v, p, tot)
        PROVE  \E v2, p2 : Closes(t, f, v, p, v2, p2) /\ Chain(t, g, v2, p2, tot)
    <2>1. PICK vs, ps : /\ vs[1] = v /\ ps[1] = p /\ Path(t, h, vs, ps)
                        /\ vs[Len(h) + 1] = tot /\ BlankSpan(t, ps[Len(h) + 1], Len(t))
      BY <1>4, Zenon DEF Chain
    <2>2. Closes(t, f, v, p, vs[2], ps[2]) /\ Chain(t, g, vs[2], ps[2], tot)
      BY <1>2, <2>1
    <2> QED
      BY <2>2
  <1> QED
    BY <1>3, <1>4 DEF h

(* Space before what is expected changes nothing. *)
LEMMA TailSkips ==
    ASSUME NEW t \in Text, NEW p \in 1 .. Len(t) + 1, NEW q \in p .. Len(t) + 1,
           BlankSpan(t, p, q - 1), NEW b \in q .. Len(t), NEW more
    PROVE  /\ TailElements(t, p, b - 1, more) <=> TailElements(t, q, b - 1, more)
           /\ TailMembers(t, p, b - 1, more) <=> TailMembers(t, q, b - 1, more)
  <1>1. p \in Int /\ q \in Int /\ b \in Int /\ b - 1 \in Int /\ q - 1 \in Int /\ p <= q /\ q <= b
    BY TextFacts
  <1>2. BlankSpan(t, p, b - 1) <=> BlankSpan(t, q, b - 1)
    <2>1. q - 1 <= b - 1
      BY <1>1
    <2> QED
      BY <1>1, BlankJoins
  <1>3. Nothing(t, p, b - 1, more) <=> Nothing(t, q, b - 1, more)
    BY <1>2 DEF Nothing
  <1>4. ASSUME NEW k \in p .. b - 1, t[k] = Comma
        PROVE  k \in q .. b - 1 /\ (BlankSpan(t, p, k - 1) <=> BlankSpan(t, q, k - 1))
    <2>1. ~(k <= q - 1)
      <3>1. k \in p .. q - 1 => t[k] \in Spaces
        BY DEF BlankSpan
      <3> QED
        BY <1>1, <1>4, <3>1, KindBytes
    <2>2. k \in Int /\ k - 1 \in Int /\ q - 1 <= k - 1 /\ q <= k
      BY <1>1, <2>1
    <2> QED
      BY <1>1, <2>2, BlankJoins
  <1>5. \A k : k \in q .. b - 1 => k \in p .. b - 1
    BY <1>1
  <1> QED
    BY <1>3, <1>4, <1>5 DEF TailElements, TailMembers

(* Space before what closes a frame changes nothing.                       *)
LEMMA ClosesSkips ==
    ASSUME NEW t \in Text, NEW p \in 1 .. Len(t) + 1, NEW q \in p .. Len(t) + 1,
           BlankSpan(t, p, q - 1), NEW f, NEW v, NEW v2, NEW p2
    PROVE  Closes(t, f, v, p, v2, p2) <=> Closes(t, f, v, q, v2, p2)
  <1>1. p \in Int /\ q \in Int /\ p <= q /\ Len(t) \in Nat
    BY TextFacts
  <1>2. ASSUME NEW b \in p .. Len(t), t[b] = CloseBracket \/ t[b] = CloseBrace
        PROVE  b \in q .. Len(t)
    <2>1. b \in p .. q - 1 => t[b] \in Spaces
      BY DEF BlankSpan
    <2>2. ~(b <= q - 1)
      BY <1>1, <1>2, <2>1, KindBytes
    <2> QED
      BY <1>1, <2>2
  <1>3. \A b : b \in q .. Len(t) => b \in p .. Len(t)
    BY <1>1
  <1>4. \A b \in q .. Len(t) : \A more :
          /\ TailElements(t, p, b - 1, more) <=> TailElements(t, q, b - 1, more)
          /\ TailMembers(t, p, b - 1, more) <=> TailMembers(t, q, b - 1, more)
    BY TailSkips
  <1>5. ClosesArray(t, f, v, p, v2, p2) <=> ClosesArray(t, f, v, q, v2, p2)
    BY <1>2, <1>3, <1>4, Zenon DEF ClosesArray
  <1>6. ClosesObject(t, f, v, p, v2, p2) <=> ClosesObject(t, f, v, q, v2, p2)
    BY <1>2, <1>3, <1>4, Zenon DEF ClosesObject
  <1> QED
    BY <1>5, <1>6, Zenon DEF Closes

(* A stack is empty or has a frame on top. *)
LEMMA StackSplits ==
    ASSUME NEW g, IsStack(g)
    PROVE  g = << >> \/ \E f, h : IsStack(h) /\ g = << f >> \o h /\ f = g[1] /\ h = Tail(g)
  <1>1. PICK F : g \in Seq(F)
    BY DEF IsStack
  <1>2. CASE g # << >>
    <2>1. g = << g[1] >> \o Tail(g)
      BY <1>1, <1>2
    <2>2. IsStack(Tail(g))
      BY <1>2, PopFacts
    <2> QED
      BY <2>1, <2>2
  <1> QED
    BY <1>2

(* The same for all of the frames.                                         *)
LEMMA ChainSkips ==
    ASSUME NEW t \in Text, NEW p \in 1 .. Len(t) + 1, NEW q \in p .. Len(t) + 1,
           BlankSpan(t, p, q - 1), NEW g, IsStack(g), NEW v, NEW tot
    PROVE  Chain(t, g, v, p, tot) <=> Chain(t, g, v, q, tot)
  <1>1. CASE g = << >>
    <2>1. BlankSpan(t, p, Len(t)) <=> BlankSpan(t, q, Len(t))
      <3>1. p \in Int /\ q \in Int /\ Len(t) \in Int /\ q - 1 <= Len(t) /\ p <= q /\ q - 1 \in Int
        BY TextFacts
      <3> QED
        BY <3>1, BlankJoins
    <2> QED
      BY <1>1, <2>1, ChainEmpty
  <1>2. ASSUME NEW f, NEW h, IsStack(h), g = << f >> \o h
        PROVE  Chain(t, g, v, p, tot) <=> Chain(t, g, v, q, tot)
    <2>1. \A v2, p2 : Closes(t, f, v, p, v2, p2) <=> Closes(t, f, v, q, v2, p2)
      BY ClosesSkips
    <2> QED
      BY <1>2, <2>1, ChainStep, Zenon
  <1> QED
    BY <1>1, <1>2, StackSplits

(* After a value comes what ends it. *)
Enders == Spaces \cup {0, Comma, CloseBracket, CloseBrace}

(* After a value in a frame comes space, a comma or the bracket that       *)
(* closes it.                                                              *)
LEMMA ClosesByte ==
    ASSUME NEW t \in Text, NEW p \in 1 .. Len(t) + 1, NEW f, NEW v, NEW v2, NEW p2,
           Closes(t, f, v, p, v2, p2)
    PROVE  ByteAt(t, p) \in Enders /\ p2 \in p + 1 .. Len(t) + 1
  <1>1. PICK b : /\ b \in p .. Len(t) /\ t[b] \in {CloseBracket, CloseBrace} /\ p2 = b + 1
                 /\ \E more : TailElements(t, p, b - 1, more) \/ TailMembers(t, p, b - 1, more)
    BY DEF Closes, ClosesArray, ClosesObject
  <1>2. p \in 1 .. Len(t) /\ ByteAt(t, p) = t[p] /\ b \in Int /\ p \in Int /\ Len(t) \in Nat
    BY <1>1, TextFacts DEF ByteAt
  <1>3. \/ BlankSpan(t, p, b - 1)
        \/ \E k \in p .. b - 1 : t[k] = Comma /\ BlankSpan(t, p, k - 1)
    BY <1>1 DEF TailElements, TailMembers, Nothing
  <1>4. PICK k \in p .. b : t[k] \in {Comma, CloseBracket, CloseBrace} /\ BlankSpan(t, p, k - 1)
    <2>1. CASE BlankSpan(t, p, b - 1)
      <3>1. b \in p .. b
        BY <1>1, <1>2
      <3> QED
        BY <1>1, <2>1, <3>1
    <2>2. ASSUME NEW k \in p .. b - 1, t[k] = Comma /\ BlankSpan(t, p, k - 1)
          PROVE  k \in p .. b
      BY <1>2
    <2> QED
      BY <1>3, <2>1, <2>2
  <1>5. t[p] \in Enders
    <2>1. CASE k = p
      BY <1>4, <2>1 DEF Enders
    <2>2. CASE k # p
      <3>1. p \in p .. k - 1
        BY <1>2, <2>2
      <3> QED
        BY <1>4, <3>1 DEF BlankSpan, Enders
    <2> QED
      BY <2>1, <2>2
  <1> QED
    BY <1>1, <1>2, <1>5

(* After a value comes one of them, or the end of the text.                *)
LEMMA ChainByte ==
    ASSUME NEW t \in Text, NEW p \in 1 .. Len(t) + 1, NEW g, IsStack(g), NEW v, NEW tot,
           Chain(t, g, v, p, tot)
    PROVE  ByteAt(t, p) \in Enders
  <1>1. CASE g = << >>
    <2>1. BlankSpan(t, p, Len(t))
      BY <1>1, ChainEmpty
    <2>2. CASE p \in 1 .. Len(t)
      <3>1. p \in p .. Len(t)
        BY <2>2, TextFacts
      <3> QED
        BY <2>1, <2>2, <3>1 DEF BlankSpan, Enders, ByteAt
    <2>3. CASE p \notin 1 .. Len(t)
      BY <2>3 DEF ByteAt, Enders
    <2> QED
      BY <2>2, <2>3
  <1>2. ASSUME NEW f, NEW h, IsStack(h), g = << f >> \o h
        PROVE  ByteAt(t, p) \in Enders
    <2>1. PICK v2, p2 : Closes(t, f, v, p, v2, p2)
      BY <1>2, ChainStep, Zenon
    <2> QED
      BY <2>1, ClosesByte
  <1> QED
    BY <1>1, <1>2, StackSplits

-----------------------------------------------------------------------------
(***************************************************************************)
(* Part 4.  A value or a name is expected                                  *)
(***************************************************************************)

(* A value is expected at p, and then what the frames of g expect. *)
AwaitsAt(t, g, p, a, b, v, tot) ==
    /\ p <= a /\ Span(t, a, b) /\ BlankSpan(t, p, a - 1) /\ Core(t, a, b, v)
    /\ Chain(t, g, v, b + 1, tot)
Awaits(t, g, p, tot) == \E a, b, v : AwaitsAt(t, g, p, a, b, v, tot)

(* A colon is expected at p, and then the value of the name. *)
Keyed(f, key) == [fn |-> "object", kids |-> f.kids, key |-> key]
Named(g, key) == << Keyed(g[1], key) >> \o Tail(g)
KeyChain(t, g, key, p, tot) ==
    \E c : /\ c \in p .. Len(t) /\ t[c] = Colon /\ BlankSpan(t, p, c - 1)
           /\ Awaits(t, Named(g, key), c + 1, tot)

(* A name is expected at p. *)
AwaitsKeyAt(t, g, p, a, b, key, tot) ==
    /\ p <= a /\ Span(t, a, b) /\ BlankSpan(t, p, a - 1) /\ KeyCore(t, a, b, key)
    /\ KeyChain(t, g, key, b + 1, tot)
AwaitsName(t, g, p, tot) == \E a, b, key : AwaitsKeyAt(t, g, p, a, b, key, tot)

(* A core begins and ends within the text.                                 *)
LEMMA InkedBytes ==
    ASSUME NEW t \in Text, NEW a, NEW b, Span(t, a, b)
    PROVE  /\ a \in Nat /\ b \in Nat /\ a >= 1 /\ b <= Len(t) /\ a <= b + 1
           /\ \A v : Core(t, a, b, v) \/ KeyCore(t, a, b, v) =>
                a <= b /\ t[a] \notin Spaces /\ t[b] \notin Spaces
  BY PieceFacts DEF Core, KeyCore, Inked

(* Space before it changes nothing. *)
LEMMA PlaceSkips ==
    ASSUME NEW t \in Text, NEW p \in 1 .. Len(t) + 1, NEW q \in p .. Len(t) + 1,
           BlankSpan(t, p, q - 1), NEW a \in 1 .. Len(t), t[a] \notin Spaces
    PROVE  p <= a /\ BlankSpan(t, p, a - 1) <=> q <= a /\ BlankSpan(t, q, a - 1)
  <1>1. p \in Int /\ q \in Int /\ p <= q /\ a \in Int /\ a - 1 \in Int /\ q - 1 \in Int
    BY TextFacts
  <1>2. p <= a => q <= a
    <2>1. a \in p .. q - 1 => t[a] \in Spaces
      BY DEF BlankSpan
    <2> QED
      BY <1>1, <2>1
  <1>3. q <= a => (BlankSpan(t, p, a - 1) <=> BlankSpan(t, q, a - 1))
    <2>1. q <= a => q - 1 <= a - 1
      BY <1>1
    <2> QED
      BY <1>1, <2>1, BlankJoins
  <1> QED
    BY <1>1, <1>2, <1>3

(* Space before a value that is expected changes nothing.                  *)
LEMMA AwaitsSkips ==
    ASSUME NEW t \in Text, NEW p \in 1 .. Len(t) + 1, NEW q \in p .. Len(t) + 1,
           BlankSpan(t, p, q - 1), NEW g, NEW tot
    PROVE  Awaits(t, g, p, tot) <=> Awaits(t, g, q, tot)
  <1>1. ASSUME NEW a, NEW b, NEW v
        PROVE  AwaitsAt(t, g, p, a, b, v, tot) <=> AwaitsAt(t, g, q, a, b, v, tot)
    <2>1. Span(t, a, b) /\ Core(t, a, b, v) => a \in 1 .. Len(t) /\ t[a] \notin Spaces
      BY InkedBytes, TextFacts
    <2>2. Span(t, a, b) /\ Core(t, a, b, v) =>
            (p <= a /\ BlankSpan(t, p, a - 1) <=> q <= a /\ BlankSpan(t, q, a - 1))
      BY <2>1, PlaceSkips
    <2> QED
      BY <2>2, Zenon DEF AwaitsAt
  <1> QED
    BY <1>1, Zenon DEF Awaits

(* A value is expected if a piece that starts here means it.               *)
LEMMA AwaitsMeans ==
    ASSUME NEW t \in Text, NEW p \in 1 .. Len(t) + 1, NEW g, IsStack(g), NEW tot
    PROVE  Awaits(t, g, p, tot) <=>
             \E q, v : q \in p .. Len(t) /\ MeansValue(t, p, q, v) /\ Chain(t, g, v, q + 1, tot)
  <1>0. p \in Int /\ p \in Nat /\ Len(t) \in Nat
    BY TextFacts
  <1>1. ASSUME NEW a, NEW b, NEW v, AwaitsAt(t, g, p, a, b, v, tot)
        PROVE  b \in p .. Len(t) /\ MeansValue(t, p, b, v) /\ Chain(t, g, v, b + 1, tot)
    <2>1. /\ p <= a /\ Span(t, a, b) /\ BlankSpan(t, p, a - 1) /\ Core(t, a, b, v)
          /\ Chain(t, g, v, b + 1, tot)
      BY <1>1 DEF AwaitsAt
    <2>2. a \in Nat /\ b \in Nat /\ a <= b /\ b <= Len(t)
      BY <2>1, InkedBytes
    <2>3. Span(t, p, b) /\ b \in p .. Len(t)
      BY <1>0, <2>1, <2>2 DEF Span
    <2>4. BlankSpan(t, b + 1, b)
      BY <2>2 DEF BlankSpan
    <2>5. Padded(t, p, a, b, b)
      BY <2>1, <2>2, <2>4 DEF Padded
    <2>6. MeansValue(t, p, b, v)
      BY <2>1, <2>3, <2>5, ValueSpan
    <2> QED
      BY <2>1, <2>3, <2>6
  <1>2. ASSUME NEW q \in p .. Len(t), NEW v, MeansValue(t, p, q, v), Chain(t, g, v, q + 1, tot)
        PROVE  Awaits(t, g, p, tot)
    <2>1. Span(t, p, q)
      BY <1>0 DEF Span
    <2>2. PICK a, b : Padded(t, p, a, b, q) /\ Core(t, a, b, v)
      BY <1>2, <2>1, ValueSpan
    <2>3. /\ p <= a /\ b <= q /\ Span(t, a, b) /\ BlankSpan(t, p, a - 1)
          /\ BlankSpan(t, b + 1, q)
      BY <2>2 DEF Padded
    <2>4. a \in Nat /\ b \in Nat /\ a <= b /\ b <= Len(t) /\ a >= 1
      BY <2>2, <2>3, InkedBytes
    <2>5. /\ b + 1 \in 1 .. Len(t) + 1 /\ q + 1 \in b + 1 .. Len(t) + 1
          /\ (q + 1) - 1 = q
      BY <1>0, <2>3, <2>4
    <2>6. Chain(t, g, v, b + 1, tot)
      BY <1>2, <2>3, <2>5, ChainSkips
    <2>7. AwaitsAt(t, g, p, a, b, v, tot)
      BY <2>2, <2>3, <2>6 DEF AwaitsAt
    <2> QED
      BY <2>7 DEF Awaits
  <1> QED
    BY <1>1, <1>2 DEF Awaits

(* At a byte that is no space its core starts here.                        *)
LEMMA AwaitsHere ==
    ASSUME NEW t \in Text, NEW p \in 1 .. Len(t) + 1, ByteAt(t, p) \notin Spaces, NEW g, NEW tot
    PROVE  Awaits(t, g, p, tot) <=>
             \E b, v : Span(t, p, b) /\ Core(t, p, b, v) /\ Chain(t, g, v, b + 1, tot)
  <1>1. ASSUME NEW a, NEW b, NEW v, AwaitsAt(t, g, p, a, b, v, tot)
        PROVE  a = p
    <2>1. Span(t, a, b) /\ p <= a /\ BlankSpan(t, p, a - 1) /\ Core(t, a, b, v)
      BY <1>1 DEF AwaitsAt
    <2>2. a \in Nat /\ a <= Len(t)
      BY <2>1, InkedBytes
    <2>3. p < a => p \in p .. a - 1 /\ p \in 1 .. Len(t)
      BY <2>2, TextFacts
    <2>4. ~(p < a)
      BY <2>1, <2>3 DEF BlankSpan, ByteAt
    <2> QED
      BY <2>1, <2>2, <2>4
  <1>2. ASSUME NEW b, NEW v, Span(t, p, b), Core(t, p, b, v), Chain(t, g, v, b + 1, tot)
        PROVE  AwaitsAt(t, g, p, p, b, v, tot)
    <2>1. BlankSpan(t, p, p - 1) /\ p <= p
      BY DEF BlankSpan
    <2> QED
      BY <1>2, <2>1 DEF AwaitsAt
  <1>3. ASSUME Awaits(t, g, p, tot)
        PROVE  \E b, v : Span(t, p, b) /\ Core(t, p, b, v) /\ Chain(t, g, v, b + 1, tot)
    <2>1. PICK a, b, v : AwaitsAt(t, g, p, a, b, v, tot)
      BY <1>3 DEF Awaits
    <2>2. AwaitsAt(t, g, p, p, b, v, tot)
      BY <1>1, <2>1
    <2> QED
      BY <2>2 DEF AwaitsAt
  <1> QED
    BY <1>2, <1>3 DEF Awaits

(* At the start of the text, the whole of it is expected.                  *)
LEMMA AwaitsWhole ==
    ASSUME NEW t \in Text, NEW tot
    PROVE  MeansValue(t, 1, Len(t), tot) <=> Awaits(t, << >>, 1, tot)
  <1>0. Len(t) \in Nat /\ 1 \in 1 .. Len(t) + 1 /\ IsStack(<< >>) /\ Span(t, 1, Len(t))
    BY TextFacts, Whole DEF IsStack
  <1>1. Awaits(t, << >>, 1, tot) <=>
          \E q, v : /\ q \in 1 .. Len(t) /\ MeansValue(t, 1, q, v)
                    /\ v = tot /\ BlankSpan(t, q + 1, Len(t))
    BY <1>0, AwaitsMeans, ChainEmpty
  <1>2. ASSUME NEW q \in 1 .. Len(t), MeansValue(t, 1, q, tot), BlankSpan(t, q + 1, Len(t))
        PROVE  MeansValue(t, 1, Len(t), tot)
    <2>1. Span(t, 1, q) /\ BlankSpan(t, 1, 1 - 1) /\ q <= Len(t) /\ 1 <= 1
      BY <1>0 DEF Span, BlankSpan
    <2> QED
      BY <1>0, <1>2, <2>1, BlanksAround
  <1>3. ASSUME MeansValue(t, 1, Len(t), tot)
        PROVE  Len(t) \in 1 .. Len(t) /\ BlankSpan(t, Len(t) + 1, Len(t))
    <2>1. 1 <= Len(t)
      BY <1>0, <1>3, ValueLong
    <2> QED
      BY <1>0, <2>1 DEF BlankSpan
  <1> QED
    BY <1>1, <1>2, <1>3

(* Space before a name that is expected changes nothing.                   *)
LEMMA NameSkips ==
    ASSUME NEW t \in Text, NEW p \in 1 .. Len(t) + 1, NEW q \in p .. Len(t) + 1,
           BlankSpan(t, p, q - 1), NEW g, NEW tot
    PROVE  /\ AwaitsName(t, g, p, tot) <=> AwaitsName(t, g, q, tot)
           /\ \A key : KeyChain(t, g, key, p, tot) <=> KeyChain(t, g, key, q, tot)
  <1>1. ASSUME NEW a, NEW b, NEW v
        PROVE  AwaitsKeyAt(t, g, p, a, b, v, tot) <=> AwaitsKeyAt(t, g, q, a, b, v, tot)
    <2>1. Span(t, a, b) /\ KeyCore(t, a, b, v) => a \in 1 .. Len(t) /\ t[a] \notin Spaces
      BY InkedBytes, TextFacts
    <2>2. Span(t, a, b) /\ KeyCore(t, a, b, v) =>
            (p <= a /\ BlankSpan(t, p, a - 1) <=> q <= a /\ BlankSpan(t, q, a - 1))
      BY <2>1, PlaceSkips
    <2> QED
      BY <2>2, Zenon DEF AwaitsKeyAt
  <1>2. ASSUME NEW c, t[c] = Colon
        PROVE  c \in p .. Len(t) /\ BlankSpan(t, p, c - 1)
                 <=> c \in q .. Len(t) /\ BlankSpan(t, q, c - 1)
    <2>1. CASE c \in 1 .. Len(t)
      <3>1. t[c] \notin Spaces
        BY <1>2, KindBytes
      <3>2. p <= c /\ BlankSpan(t, p, c - 1) <=> q <= c /\ BlankSpan(t, q, c - 1)
        BY <2>1, <3>1, PlaceSkips
      <3>3. c \in p .. Len(t) <=> p <= c
        BY <2>1, TextFacts
      <3>4. c \in q .. Len(t) <=> q <= c
        BY <2>1, TextFacts
      <3> QED
        BY <3>2, <3>3, <3>4
    <2>2. CASE c \notin 1 .. Len(t)
      <3>1. c \notin p .. Len(t) /\ c \notin q .. Len(t)
        BY <2>2, TextFacts
      <3> QED
        BY <3>1
    <2> QED
      BY <2>1, <2>2
  <1>3. \A key : KeyChain(t, g, key, p, tot) <=> KeyChain(t, g, key, q, tot)
    BY <1>2, Zenon DEF KeyChain
  <1>4. AwaitsName(t, g, p, tot) <=> AwaitsName(t, g, q, tot)
    BY <1>1, Zenon DEF AwaitsName
  <1> QED
    BY <1>3, <1>4

NameMeans(t, g, p, c, key, tot) ==
    /\ c \in p .. Len(t) /\ t[c] = Colon /\ MeansKey(t, p, c - 1, key)
    /\ Awaits(t, Named(g, key), c + 1, tot)

(* A name is expected if a piece up to a colon means it.                   *)
LEMMA AwaitsNameMeans ==
    ASSUME NEW t \in Text, NEW p \in 1 .. Len(t) + 1, NEW g, NEW tot
    PROVE  AwaitsName(t, g, p, tot) <=> \E c, key : NameMeans(t, g, p, c, key, tot)
  <1>0. p \in Int /\ p \in Nat /\ p >= 1 /\ Len(t) \in Nat
    BY TextFacts
  <1>1. ASSUME NEW a, NEW b, NEW key, AwaitsKeyAt(t, g, p, a, b, key, tot)
        PROVE  \E c : NameMeans(t, g, p, c, key, tot)
    <2>1. /\ p <= a /\ Span(t, a, b) /\ BlankSpan(t, p, a - 1) /\ KeyCore(t, a, b, key)
          /\ KeyChain(t, g, key, b + 1, tot)
      BY <1>1 DEF AwaitsKeyAt
    <2>2. a \in Nat /\ b \in Nat /\ a <= b /\ b <= Len(t)
      BY <2>1, InkedBytes
    <2>3. PICK c : /\ c \in b + 1 .. Len(t) /\ t[c] = Colon /\ BlankSpan(t, b + 1, c - 1)
                   /\ Awaits(t, Named(g, key), c + 1, tot)
      BY <2>1 DEF KeyChain
    <2>4. c \in Nat /\ b <= c - 1 /\ c \in p .. Len(t) /\ Span(t, p, c - 1)
      BY <1>0, <2>1, <2>2, <2>3 DEF Span
    <2>5. Padded(t, p, a, b, c - 1)
      BY <2>1, <2>3, <2>4 DEF Padded
    <2>6. MeansKey(t, p, c - 1, key)
      BY <2>1, <2>4, <2>5, KeySpan
    <2> QED
      BY <2>3, <2>4, <2>6 DEF NameMeans
  <1>2. ASSUME NEW c, NEW key, NameMeans(t, g, p, c, key, tot)
        PROVE  AwaitsName(t, g, p, tot)
    <2>1. /\ c \in p .. Len(t) /\ t[c] = Colon /\ MeansKey(t, p, c - 1, key)
          /\ Awaits(t, Named(g, key), c + 1, tot)
      BY <1>2 DEF NameMeans
    <2>2. Span(t, p, c - 1) /\ c \in Nat /\ c <= Len(t)
      BY <1>0, <2>1 DEF Span
    <2>3. PICK a, b : Padded(t, p, a, b, c - 1) /\ KeyCore(t, a, b, key)
      BY <2>1, <2>2, KeySpan
    <2>4. /\ p <= a /\ b <= c - 1 /\ Span(t, a, b) /\ BlankSpan(t, p, a - 1)
          /\ BlankSpan(t, b + 1, c - 1)
      BY <2>3 DEF Padded
    <2>5. b \in Nat
      BY <2>3, <2>4, InkedBytes
    <2>6. c \in b + 1 .. Len(t)
      BY <2>2, <2>4, <2>5
    <2>7. KeyChain(t, g, key, b + 1, tot)
      BY <2>1, <2>4, <2>6 DEF KeyChain
    <2>8. AwaitsKeyAt(t, g, p, a, b, key, tot)
      BY <2>3, <2>4, <2>7 DEF AwaitsKeyAt
    <2> QED
      BY <2>8 DEF AwaitsName
  <1> QED
    BY <1>1, <1>2 DEF AwaitsName

(* At a byte that is no space the name starts here.                        *)
LEMMA AwaitsNameHere ==
    ASSUME NEW t \in Text, NEW p \in 1 .. Len(t) + 1, ByteAt(t, p) \notin Spaces, NEW g, NEW tot
    PROVE  AwaitsName(t, g, p, tot) <=>
             \E b, key : Span(t, p, b) /\ KeyCore(t, p, b, key) /\ KeyChain(t, g, key, b + 1, tot)
  <1>1. ASSUME NEW a, NEW b, NEW v, AwaitsKeyAt(t, g, p, a, b, v, tot)
        PROVE  a = p
    <2>1. Span(t, a, b) /\ p <= a /\ BlankSpan(t, p, a - 1) /\ KeyCore(t, a, b, v)
      BY <1>1 DEF AwaitsKeyAt
    <2>2. a \in Nat /\ a <= Len(t)
      BY <2>1, InkedBytes
    <2>3. p < a => p \in p .. a - 1 /\ p \in 1 .. Len(t)
      BY <2>2, TextFacts
    <2>4. ~(p < a)
      BY <2>1, <2>3 DEF BlankSpan, ByteAt
    <2> QED
      BY <2>1, <2>2, <2>4
  <1>2. ASSUME NEW b, NEW v, Span(t, p, b), KeyCore(t, p, b, v), KeyChain(t, g, v, b + 1, tot)
        PROVE  AwaitsKeyAt(t, g, p, p, b, v, tot)
    <2>1. BlankSpan(t, p, p - 1) /\ p <= p
      BY DEF BlankSpan
    <2> QED
      BY <1>2, <2>1 DEF AwaitsKeyAt
  <1>3. ASSUME AwaitsName(t, g, p, tot)
        PROVE  \E b, key : Span(t, p, b) /\ KeyCore(t, p, b, key) /\ KeyChain(t, g, key, b + 1, tot)
    <2>1. PICK a, b, v : AwaitsKeyAt(t, g, p, a, b, v, tot)
      BY <1>3 DEF AwaitsName
    <2>2. AwaitsKeyAt(t, g, p, p, b, v, tot)
      BY <1>1, <2>1
    <2> QED
      BY <2>2 DEF AwaitsKeyAt
  <1> QED
    BY <1>2, <1>3 DEF AwaitsName

(* The elements that follow p, and the bracket that ends them, are what an *)
(* array that awaits a value at p expects.                                 *)
ArrayRest(t, f, g, p, b, e, tot) ==
    /\ b \in p .. Len(t) /\ t[b] = CloseBracket /\ MeansElements(t, p, b - 1, e)
    /\ Chain(t, g, ArrayValue(f.kids \o e), b + 1, tot)
ObjectRest(t, f, g, p, b, e, tot) ==
    /\ b \in p .. Len(t) /\ t[b] = CloseBrace /\ MeansMembers(t, p, b - 1, e)
    /\ Chain(t, g, ObjectValue(f.kids \o e), b + 1, tot)

(* Elements and their bracket are a first value and what its array         *)
(* expects.                                                                *)
LEMMA ElementsAwait ==
    ASSUME NEW t \in Text, NEW p \in 1 .. Len(t) + 1, NEW g, IsStack(g), NEW f, f.fn = "array",
           NEW tot
    PROVE  Awaits(t, << f >> \o g, p, tot) <=> \E b, e : ArrayRest(t, f, g, p, b, e, tot)
  <1>0. p \in Int /\ p \in Nat /\ p >= 1 /\ Len(t) \in Nat /\ IsStack(<< f >> \o g)
    BY TextFacts, PushFacts
  <1>1. ASSUME NEW q \in p .. Len(t), NEW v, MeansValue(t, p, q, v),
               Chain(t, << f >> \o g, v, q + 1, tot)
        PROVE  \E b, e : ArrayRest(t, f, g, p, b, e, tot)
    <2>1. PICK v2, p2 : Closes(t, f, v, q + 1, v2, p2) /\ Chain(t, g, v2, p2, tot)
      BY <1>1, ChainStep
    <2>2. ClosesArray(t, f, v, q + 1, v2, p2)
      BY <2>1 DEF Closes
    <2>3. PICK b, more : /\ b \in q + 1 .. Len(t) /\ t[b] = CloseBracket
                         /\ TailElements(t, q + 1, b - 1, more)
                         /\ v2 = ArrayValue(f.kids \o (<< v >> \o more)) /\ p2 = b + 1
      BY <2>2, Zenon DEF ClosesArray
    <2>4. b \in p .. Len(t) /\ q \in p .. b - 1 /\ Span(t, p, b - 1)
      BY <1>0, <2>3 DEF Span
    <2> DEFINE e == << v >> \o more
    <2>5. FirstElement(t, p, b - 1, e, q, v, more)
      BY <1>1, <2>3, <2>4, Zenon DEF FirstElement
    <2>6. MeansElements(t, p, b - 1, e)
      BY <2>4, <2>5, ElementsFirst, Zenon
    <2>7. Chain(t, g, ArrayValue(f.kids \o e), b + 1, tot)
      BY <2>1, <2>3, Zenon
    <2> HIDE DEF e
    <2> QED
      BY <2>3, <2>4, <2>6, <2>7, Zenon DEF ArrayRest
  <1>2. ASSUME NEW b, NEW e, ArrayRest(t, f, g, p, b, e, tot)
        PROVE  \E q, v : /\ q \in p .. Len(t) /\ MeansValue(t, p, q, v)
                         /\ Chain(t, << f >> \o g, v, q + 1, tot)
    <2>1. /\ b \in p .. Len(t) /\ t[b] = CloseBracket /\ MeansElements(t, p, b - 1, e)
          /\ Chain(t, g, ArrayValue(f.kids \o e), b + 1, tot)
      BY <1>2 DEF ArrayRest
    <2>2. Span(t, p, b - 1)
      BY <1>0, <2>1 DEF Span
    <2>3. PICK q, v, more : FirstElement(t, p, b - 1, e, q, v, more)
      BY <2>1, <2>2, ElementsFirst, Zenon
    <2>4. /\ q \in p .. b - 1 /\ MeansValue(t, p, q, v) /\ TailElements(t, q + 1, b - 1, more)
          /\ e = << v >> \o more
      BY <2>3, Zenon DEF FirstElement
    <2>5. q \in p .. Len(t) /\ b \in q + 1 .. Len(t)
      BY <1>0, <2>1, <2>4
    <2> DEFINE v2 == ArrayValue(f.kids \o e)
    <2>6. ClosesArray(t, f, v, q + 1, v2, b + 1)
      BY <2>1, <2>4, <2>5, Zenon DEF ClosesArray
    <2>7. Closes(t, f, v, q + 1, v2, b + 1)
      BY <2>6, Zenon DEF Closes
    <2>8. Chain(t, << f >> \o g, v, q + 1, tot)
      BY <2>1, <2>7, ChainStep, Zenon
    <2> QED
      BY <2>4, <2>5, <2>8, Zenon
  <1>3. Awaits(t, << f >> \o g, p, tot) <=>
          \E q, v : /\ q \in p .. Len(t) /\ MeansValue(t, p, q, v)
                    /\ Chain(t, << f >> \o g, v, q + 1, tot)
    BY <1>0, AwaitsMeans, Zenon
  <1> QED
    BY <1>1, <1>2, <1>3, Zenon

(* The frame of an object, with the name just read.                        *)
LEMMA NamedPush ==
    ASSUME NEW g, IsStack(g), NEW f, NEW key
    PROVE  Named(<< f >> \o g, key) = << Keyed(f, key) >> \o g
  <1>1. PICK F : g \in Seq(F)
    BY DEF IsStack
  <1>2. (<< f >> \o g)[1] = f /\ Tail(<< f >> \o g) = g
    <2> DEFINE G == F \cup {f}
    <2>1. g \in Seq(G) /\ << f >> \in Seq(G)
      BY <1>1
    <2> QED
      BY <2>1
  <1> QED
    BY <1>2, Zenon DEF Named

(* Members and their brace are a first name and what its object expects.   *)
LEMMA MembersAwait ==
    ASSUME NEW t \in Text, NEW p \in 1 .. Len(t) + 1, NEW g, IsStack(g), NEW f, NEW tot
    PROVE  AwaitsName(t, << f >> \o g, p, tot) <=> \E b, e : ObjectRest(t, f, g, p, b, e, tot)
  <1>0. p \in Int /\ p \in Nat /\ p >= 1 /\ Len(t) \in Nat
    BY TextFacts
  <1>1. \A key : /\ IsStack(<< Keyed(f, key) >> \o g)
                 /\ Named(<< f >> \o g, key) = << Keyed(f, key) >> \o g
                 /\ Keyed(f, key).fn = "object" /\ Keyed(f, key).kids = f.kids
                 /\ Keyed(f, key).key = key
    BY PushFacts, NamedPush DEF Keyed
  <1>2. ASSUME NEW c, NEW key, NameMeans(t, << f >> \o g, p, c, key, tot)
        PROVE  \E b, e : ObjectRest(t, f, g, p, b, e, tot)
    <2> DEFINE k == Keyed(f, key)
    <2>0. IsStack(<< k >> \o g) /\ k.fn = "object" /\ k.kids = f.kids /\ k.key = key
      BY <1>1
    <2>1. /\ c \in p .. Len(t) /\ t[c] = Colon /\ MeansKey(t, p, c - 1, key)
          /\ Awaits(t, << k >> \o g, c + 1, tot)
      BY <1>1, <1>2, Zenon DEF NameMeans
    <2> HIDE DEF k
    <2>2. c + 1 \in 1 .. Len(t) + 1 /\ c \in Int
      BY <1>0, <2>1
    <2>3. PICK q, v : /\ q \in c + 1 .. Len(t) /\ MeansValue(t, c + 1, q, v)
                      /\ Chain(t, << k >> \o g, v, q + 1, tot)
      BY <2>0, <2>1, <2>2, AwaitsMeans
    <2>4. PICK v2, p2 : Closes(t, k, v, q + 1, v2, p2) /\ Chain(t, g, v2, p2, tot)
      BY <2>3, ChainStep
    <2>5. ClosesObject(t, k, v, q + 1, v2, p2)
      BY <2>0, <2>4 DEF Closes
    <2>6. PICK b, more : /\ b \in q + 1 .. Len(t) /\ t[b] = CloseBrace
                         /\ TailMembers(t, q + 1, b - 1, more)
                         /\ v2 = ObjectValue(k.kids \o (<< Entry(k.key, v) >> \o more))
                         /\ p2 = b + 1
      BY <2>5, Zenon DEF ClosesObject
    <2>7. /\ b \in p .. Len(t) /\ c \in p .. b - 1 /\ q \in c + 1 .. b - 1
          /\ Span(t, p, b - 1)
      BY <1>0, <2>1, <2>2, <2>3, <2>6 DEF Span
    <2> DEFINE e == << Entry(key, v) >> \o more
    <2>8. FirstMember(t, p, b - 1, e, c, q, key, v, more)
      BY <2>1, <2>3, <2>6, <2>7, Zenon DEF FirstMember, Entry
    <2>9. MeansMembers(t, p, b - 1, e)
      BY <2>7, <2>8, MembersFirst, Zenon
    <2>10. Chain(t, g, ObjectValue(f.kids \o e), b + 1, tot)
      BY <2>0, <2>4, <2>6, Zenon
    <2> HIDE DEF e
    <2> QED
      BY <2>6, <2>7, <2>9, <2>10, Zenon DEF ObjectRest
  <1>3. ASSUME NEW b, NEW e, ObjectRest(t, f, g, p, b, e, tot)
        PROVE  \E c, key : NameMeans(t, << f >> \o g, p, c, key, tot)
    <2>1. /\ b \in p .. Len(t) /\ t[b] = CloseBrace /\ MeansMembers(t, p, b - 1, e)
          /\ Chain(t, g, ObjectValue(f.kids \o e), b + 1, tot)
      BY <1>3 DEF ObjectRest
    <2>2. Span(t, p, b - 1)
      BY <1>0, <2>1 DEF Span
    <2>3. PICK c, q, key, v, more : FirstMember(t, p, b - 1, e, c, q, key, v, more)
      BY <2>1, <2>2, MembersFirst, Zenon
    <2>4. /\ c \in p .. b - 1 /\ q \in c + 1 .. b - 1 /\ t[c] = Colon
          /\ MeansKey(t, p, c - 1, key) /\ MeansValue(t, c + 1, q, v)
          /\ TailMembers(t, q + 1, b - 1, more)
          /\ e = << Entry(key, v) >> \o more
      BY <2>3, Zenon DEF FirstMember, Entry
    <2>5. /\ c \in p .. Len(t) /\ c + 1 \in 1 .. Len(t) + 1 /\ q \in c + 1 .. Len(t)
          /\ b \in q + 1 .. Len(t)
      BY <1>0, <2>1, <2>4
    <2> DEFINE k == Keyed(f, key)
               v2 == ObjectValue(f.kids \o e)
    <2>6. IsStack(<< k >> \o g) /\ k.fn = "object" /\ k.kids = f.kids /\ k.key = key
      BY <1>1
    <2>7. Named(<< f >> \o g, key) = << k >> \o g
      BY <1>1
    <2> HIDE DEF k
    <2>8. ClosesObject(t, k, v, q + 1, v2, b + 1)
      BY <2>1, <2>4, <2>5, <2>6, Zenon DEF ClosesObject
    <2>9. Closes(t, k, v, q + 1, v2, b + 1)
      BY <2>6, <2>8, Zenon DEF Closes
    <2>10. Chain(t, << k >> \o g, v, q + 1, tot)
      BY <2>1, <2>9, ChainStep, Zenon
    <2>11. Awaits(t, << k >> \o g, c + 1, tot)
      BY <2>4, <2>5, <2>6, <2>10, AwaitsMeans, Zenon
    <2>12. NameMeans(t, << f >> \o g, p, c, key, tot)
      BY <2>4, <2>5, <2>7, <2>11, Zenon DEF NameMeans
    <2> QED
      BY <2>12
  <1> QED
    BY <1>2, <1>3, AwaitsNameMeans

-----------------------------------------------------------------------------
(***************************************************************************)
(* Part 4.  A collection after one of its items                            *)
(***************************************************************************)

(* What follows a value within a collection, at a byte that is no space.   *)
LEMMA TailHere ==
    ASSUME NEW t \in Text, NEW p \in 1 .. Len(t) + 1, ByteAt(t, p) \notin Spaces,
           NEW b \in p .. Len(t), NEW more
    PROVE  /\ TailElements(t, p, b - 1, more) <=>
                \/ b = p /\ more = << >>
                \/ b \in p + 1 .. Len(t) /\ t[p] = Comma /\ MeansElements(t, p + 1, b - 1, more)
           /\ TailMembers(t, p, b - 1, more) <=>
                \/ b = p /\ more = << >>
                \/ b \in p + 1 .. Len(t) /\ t[p] = Comma /\ MeansMembers(t, p + 1, b - 1, more)
  <1>0. p \in Int /\ b \in Int /\ Len(t) \in Nat /\ p \in 1 .. Len(t)
    BY TextFacts
  <1>1. t[p] \notin Spaces
    BY <1>0 DEF ByteAt
  <1>2. BlankSpan(t, p, b - 1) <=> b = p
    <2>1. p <= b - 1 => p \in p .. b - 1
      BY <1>0
    <2> QED
      BY <1>0, <1>1, <2>1 DEF BlankSpan
  <1>3. Nothing(t, p, b - 1, more) <=> b = p /\ more = << >>
    BY <1>2 DEF Nothing
  <1>4. \A k \in p .. b - 1 : BlankSpan(t, p, k - 1) <=> k = p
    <2>1. \A k \in p .. b - 1 : k \in Int /\ (k # p => p \in p .. k - 1) /\ ~(p <= p - 1)
      BY <1>0
    <2> QED
      BY <1>0, <1>1, <2>1 DEF BlankSpan
  <1>5. p \in p .. b - 1 <=> b \in p + 1 .. Len(t)
    BY <1>0
  <1> QED
    BY <1>3, <1>4, <1>5 DEF TailElements, TailMembers

EndsArray(t, f, g, v, p, b, more, tot) ==
    /\ b \in p .. Len(t) /\ t[b] = CloseBracket /\ TailElements(t, p, b - 1, more)
    /\ Chain(t, g, ArrayValue(f.kids \o (<< v >> \o more)), b + 1, tot)
EndsObject(t, f, g, v, p, b, more, tot) ==
    /\ b \in p .. Len(t) /\ t[b] = CloseBrace /\ TailMembers(t, p, b - 1, more)
    /\ Chain(t, g, ObjectValue(f.kids \o (<< Entry(f.key, v) >> \o more)), b + 1, tot)

(* What follows an element, for the array on top.                          *)
LEMMA ChainArray ==
    ASSUME NEW t, NEW g, IsStack(g), NEW f, f.fn = "array", NEW v, NEW p, NEW tot
    PROVE  Chain(t, << f >> \o g, v, p, tot) <=>
             \E b, more : EndsArray(t, f, g, v, p, b, more, tot)
  <1>1. \A v2, p2 : Closes(t, f, v, p, v2, p2) <=> ClosesArray(t, f, v, p, v2, p2)
    BY DEF Closes
  <1>2. Chain(t, << f >> \o g, v, p, tot) <=>
          \E v2, p2 : ClosesArray(t, f, v, p, v2, p2) /\ Chain(t, g, v2, p2, tot)
    BY <1>1, ChainStep, Zenon
  <1> QED
    BY <1>2, Zenon DEF ClosesArray, EndsArray

(* What follows a member, for the object on top.                           *)
LEMMA ChainObject ==
    ASSUME NEW t, NEW g, IsStack(g), NEW f, f.fn = "object", NEW v, NEW p, NEW tot
    PROVE  Chain(t, << f >> \o g, v, p, tot) <=>
             \E b, more : EndsObject(t, f, g, v, p, b, more, tot)
  <1>1. \A v2, p2 : Closes(t, f, v, p, v2, p2) <=> ClosesObject(t, f, v, p, v2, p2)
    BY DEF Closes
  <1>2. Chain(t, << f >> \o g, v, p, tot) <=>
          \E v2, p2 : ClosesObject(t, f, v, p, v2, p2) /\ Chain(t, g, v2, p2, tot)
    BY <1>1, ChainStep, Zenon
  <1> QED
    BY <1>2, Zenon DEF ClosesObject, EndsObject

(* An element or a member at the end of what a collection holds. *)
LEMMA Grown ==
    ASSUME NEW kids, Tuple(kids), NEW x
    PROVE  /\ Tuple(Append(kids, x))
           /\ kids \o (<< x >> \o << >>) = Append(kids, x)
           /\ \A more : Tuple(more) => kids \o (<< x >> \o more) = Append(kids, x) \o more
  <1>1. Tuple(<< x >>) /\ Tuple(kids \o << x >>) /\ Append(kids, x) = kids \o << x >>
    BY TupleFacts, Zenon
  <1>2. << x >> \o << >> = << x >>
    BY <1>1, TupleFacts, Zenon
  <1>3. ASSUME NEW more, Tuple(more)
        PROVE  kids \o (<< x >> \o more) = Append(kids, x) \o more
    <2>1. (kids \o << x >>) \o more = kids \o (<< x >> \o more)
      <3>1. \A a, b, c : Tuple(a) /\ Tuple(b) /\ Tuple(c) => (a \o b) \o c = a \o (b \o c)
        BY TupleFacts
      <3> QED
        BY <1>1, <1>3, <3>1, SMT
    <2> QED
      BY <1>1, <2>1, Zenon
  <1> QED
    BY <1>1, <1>2, <1>3, Zenon

(* An element has been read: the array ends, or another element follows.   *)
LEMMA ElementEnds ==
    ASSUME NEW t \in Text, NEW p \in 1 .. Len(t) + 1, ByteAt(t, p) \notin Spaces,
           NEW g, IsStack(g), NEW f, f.fn = "array", Tuple(f.kids), NEW v, NEW tot,
           NEW f2, f2.fn = "array", f2.kids = Append(f.kids, v)
    PROVE  /\ Chain(t, << f >> \o g, v, p, tot) => ByteAt(t, p) \in {CloseBracket, Comma}
           /\ ByteAt(t, p) = CloseBracket =>
                (Chain(t, << f >> \o g, v, p, tot)
                   <=> Chain(t, g, ArrayValue(f2.kids), p + 1, tot))
           /\ ByteAt(t, p) = Comma =>
                (Chain(t, << f >> \o g, v, p, tot) <=> Awaits(t, << f2 >> \o g, p + 1, tot))
  <1>0. p \in Int /\ Len(t) \in Nat
    BY TextFacts
  <1>00. /\ f.kids \o (<< v >> \o << >>) = f2.kids
         /\ \A more : Tuple(more) => f.kids \o (<< v >> \o more) = f2.kids \o more
    <2>1. PICK k, y : k = f.kids /\ y = v
      OBVIOUS
    <2>2. /\ k \o (<< y >> \o << >>) = Append(k, y)
          /\ \A more : Tuple(more) => k \o (<< y >> \o more) = Append(k, y) \o more
      <3>1. Tuple(k)
        BY <2>1
      <3> QED
        BY <3>1, Grown
    <2> QED
      BY <2>1, <2>2
  <1>1. ASSUME NEW b, NEW more, EndsArray(t, f, g, v, p, b, more, tot)
        PROVE  /\ p \in 1 .. Len(t) /\ ByteAt(t, p) = t[p]
               /\ \/ /\ t[p] = CloseBracket /\ Chain(t, g, ArrayValue(f2.kids), p + 1, tot)
                  \/ /\ t[p] = Comma /\ p + 1 \in 1 .. Len(t) + 1
                     /\ ArrayRest(t, f2, g, p + 1, b, more, tot)
    <2>1. /\ b \in p .. Len(t) /\ t[b] = CloseBracket /\ TailElements(t, p, b - 1, more)
          /\ Chain(t, g, ArrayValue(f.kids \o (<< v >> \o more)), b + 1, tot)
      BY <1>1 DEF EndsArray
    <2>2. p \in 1 .. Len(t) /\ ByteAt(t, p) = t[p]
      BY <1>0, <2>1 DEF ByteAt
    <2>3. CASE b = p /\ more = << >>
      <3>1. f.kids \o (<< v >> \o more) = f2.kids
        BY <1>00, <2>3
      <3> QED
        BY <2>1, <2>2, <2>3, <3>1
    <2>4. CASE b \in p + 1 .. Len(t) /\ t[p] = Comma /\ MeansElements(t, p + 1, b - 1, more)
      <3>1. Span(t, p + 1, b - 1) /\ p + 1 \in 1 .. Len(t) + 1
        BY <1>0, <2>4 DEF Span
      <3>2. Tuple(more)
        BY <2>4, <3>1, ListTuples, Zenon
      <3>3. f.kids \o (<< v >> \o more) = f2.kids \o more
        BY <1>00, <3>2
      <3>4. Chain(t, g, ArrayValue(f2.kids \o more), b + 1, tot)
        BY <2>1, <3>3
      <3> QED
        BY <2>1, <2>2, <2>4, <3>1, <3>4 DEF ArrayRest
    <2> QED
      BY <2>1, <2>3, <2>4, TailHere
  <1>2. CloseBracket # Comma
    BY KindBytes
  <1>3. ASSUME ByteAt(t, p) = CloseBracket, Chain(t, g, ArrayValue(f2.kids), p + 1, tot)
        PROVE  EndsArray(t, f, g, v, p, p, << >>, tot)
    <2>1. p \in p .. Len(t) /\ t[p] = CloseBracket
      BY <1>0, <1>3 DEF ByteAt, CloseBracket
    <2>2. f.kids \o (<< v >> \o << >>) = f2.kids
      BY <1>00
    <2>3. TailElements(t, p, p - 1, << >>)
      BY <2>1, TailHere
    <2>4. Chain(t, g, ArrayValue(f.kids \o (<< v >> \o << >>)), p + 1, tot)
      BY <1>3, <2>2
    <2> QED
      BY <2>1, <2>3, <2>4, Zenon DEF EndsArray
  <1>4. ASSUME ByteAt(t, p) = Comma
        PROVE  p \in 1 .. Len(t) /\ t[p] = Comma /\ p + 1 \in 1 .. Len(t) + 1
    BY <1>0, <1>4 DEF ByteAt, Comma
  <1>5. ASSUME ByteAt(t, p) = Comma, NEW b, NEW more, ArrayRest(t, f2, g, p + 1, b, more, tot)
        PROVE  EndsArray(t, f, g, v, p, b, more, tot)
    <2>1. /\ b \in p + 1 .. Len(t) /\ t[b] = CloseBracket
          /\ MeansElements(t, p + 1, b - 1, more)
          /\ Chain(t, g, ArrayValue(f2.kids \o more), b + 1, tot)
      BY <1>5 DEF ArrayRest
    <2>2. b \in p .. Len(t) /\ Span(t, p + 1, b - 1)
      BY <1>0, <1>4, <1>5, <2>1 DEF Span
    <2>3. TailElements(t, p, b - 1, more)
      BY <1>4, <1>5, <2>1, <2>2, TailHere
    <2>4. Tuple(more)
      BY <2>1, <2>2, ListTuples, Zenon
    <2>5. f.kids \o (<< v >> \o more) = f2.kids \o more
      BY <1>00, <2>4
    <2>6. Chain(t, g, ArrayValue(f.kids \o (<< v >> \o more)), b + 1, tot)
      BY <2>1, <2>5
    <2> QED
      BY <2>1, <2>2, <2>3, <2>6, Zenon DEF EndsArray
  <1>6. Chain(t, << f >> \o g, v, p, tot) <=> \E b, more : EndsArray(t, f, g, v, p, b, more, tot)
    BY ChainArray, Zenon
  <1>7. ByteAt(t, p) = Comma =>
          (Awaits(t, << f2 >> \o g, p + 1, tot) <=>
             \E b, e : ArrayRest(t, f2, g, p + 1, b, e, tot))
    BY <1>4, ElementsAwait, Zenon
  <1>8. Chain(t, << f >> \o g, v, p, tot) => ByteAt(t, p) \in {CloseBracket, Comma}
    BY <1>1, <1>6
  <1>9. ByteAt(t, p) = CloseBracket =>
          (Chain(t, << f >> \o g, v, p, tot) <=> Chain(t, g, ArrayValue(f2.kids), p + 1, tot))
    BY <1>1, <1>2, <1>3, <1>6, Zenon
  <1>10. ByteAt(t, p) = Comma =>
           (Chain(t, << f >> \o g, v, p, tot) <=> Awaits(t, << f2 >> \o g, p + 1, tot))
    BY <1>1, <1>2, <1>5, <1>6, <1>7, Zenon
  <1> QED
    BY <1>8, <1>9, <1>10

(* A member has been read: the object ends, or another name follows.       *)
LEMMA MemberEnds ==
    ASSUME NEW t \in Text, NEW p \in 1 .. Len(t) + 1, ByteAt(t, p) \notin Spaces,
           NEW g, IsStack(g), NEW f, f.fn = "object", Tuple(f.kids), NEW v, NEW tot,
           NEW f2, f2.kids = Append(f.kids, Entry(f.key, v))
    PROVE  /\ Chain(t, << f >> \o g, v, p, tot) => ByteAt(t, p) \in {CloseBrace, Comma}
           /\ ByteAt(t, p) = CloseBrace =>
                (Chain(t, << f >> \o g, v, p, tot)
                   <=> Chain(t, g, ObjectValue(f2.kids), p + 1, tot))
           /\ ByteAt(t, p) = Comma =>
                (Chain(t, << f >> \o g, v, p, tot) <=> AwaitsName(t, << f2 >> \o g, p + 1, tot))
  <1>0. p \in Int /\ Len(t) \in Nat
    BY TextFacts
  <1> DEFINE x == Entry(f.key, v)
  <1>00. /\ f.kids \o (<< x >> \o << >>) = f2.kids
         /\ \A more : Tuple(more) => f.kids \o (<< x >> \o more) = f2.kids \o more
    <2>1. PICK k, y : k = f.kids /\ y = x
      OBVIOUS
    <2>2. /\ k \o (<< y >> \o << >>) = Append(k, y)
          /\ \A more : Tuple(more) => k \o (<< y >> \o more) = Append(k, y) \o more
      <3>1. Tuple(k)
        BY <2>1
      <3> QED
        BY <3>1, Grown
    <2> QED
      BY <2>1, <2>2
  <1>1. ASSUME NEW b, NEW more, EndsObject(t, f, g, v, p, b, more, tot)
        PROVE  /\ p \in 1 .. Len(t) /\ ByteAt(t, p) = t[p]
               /\ \/ /\ t[p] = CloseBrace /\ Chain(t, g, ObjectValue(f2.kids), p + 1, tot)
                  \/ /\ t[p] = Comma /\ p + 1 \in 1 .. Len(t) + 1
                     /\ ObjectRest(t, f2, g, p + 1, b, more, tot)
    <2>1. /\ b \in p .. Len(t) /\ t[b] = CloseBrace /\ TailMembers(t, p, b - 1, more)
          /\ Chain(t, g, ObjectValue(f.kids \o (<< x >> \o more)), b + 1, tot)
      BY <1>1 DEF EndsObject
    <2>2. p \in 1 .. Len(t) /\ ByteAt(t, p) = t[p]
      BY <1>0, <2>1 DEF ByteAt
    <2> HIDE DEF x
    <2>3. CASE b = p /\ more = << >>
      <3>1. f.kids \o (<< x >> \o more) = f2.kids
        BY <1>00, <2>3
      <3> QED
        BY <2>1, <2>2, <2>3, <3>1
    <2>4. CASE b \in p + 1 .. Len(t) /\ t[p] = Comma /\ MeansMembers(t, p + 1, b - 1, more)
      <3>1. Span(t, p + 1, b - 1) /\ p + 1 \in 1 .. Len(t) + 1
        BY <1>0, <2>4 DEF Span
      <3>2. Tuple(more)
        BY <2>4, <3>1, ListTuples, Zenon
      <3>3. f.kids \o (<< x >> \o more) = f2.kids \o more
        BY <1>00, <3>2
      <3>4. Chain(t, g, ObjectValue(f2.kids \o more), b + 1, tot)
        BY <2>1, <3>3
      <3> QED
        BY <2>1, <2>2, <2>4, <3>1, <3>4 DEF ObjectRest
    <2> QED
      BY <2>1, <2>3, <2>4, TailHere
  <1>2. CloseBrace # Comma
    BY KindBytes
  <1>3. ASSUME ByteAt(t, p) = CloseBrace, Chain(t, g, ObjectValue(f2.kids), p + 1, tot)
        PROVE  EndsObject(t, f, g, v, p, p, << >>, tot)
    <2>1. p \in p .. Len(t) /\ t[p] = CloseBrace
      BY <1>0, <1>3 DEF ByteAt, CloseBrace
    <2>2. f.kids \o (<< x >> \o << >>) = f2.kids
      BY <1>00
    <2>3. TailMembers(t, p, p - 1, << >>)
      BY <2>1, TailHere
    <2>4. Chain(t, g, ObjectValue(f.kids \o (<< x >> \o << >>)), p + 1, tot)
      BY <1>3, <2>2
    <2> QED
      BY <2>1, <2>3, <2>4, Zenon DEF EndsObject
  <1>4. ASSUME ByteAt(t, p) = Comma
        PROVE  p \in 1 .. Len(t) /\ t[p] = Comma /\ p + 1 \in 1 .. Len(t) + 1
    BY <1>0, <1>4 DEF ByteAt, Comma
  <1>5. ASSUME ByteAt(t, p) = Comma, NEW b, NEW more, ObjectRest(t, f2, g, p + 1, b, more, tot)
        PROVE  EndsObject(t, f, g, v, p, b, more, tot)
    <2>1. /\ b \in p + 1 .. Len(t) /\ t[b] = CloseBrace
          /\ MeansMembers(t, p + 1, b - 1, more)
          /\ Chain(t, g, ObjectValue(f2.kids \o more), b + 1, tot)
      BY <1>5 DEF ObjectRest
    <2>2. b \in p .. Len(t) /\ Span(t, p + 1, b - 1)
      BY <1>0, <1>4, <1>5, <2>1 DEF Span
    <2>3. TailMembers(t, p, b - 1, more)
      BY <1>4, <1>5, <2>1, <2>2, TailHere
    <2>4. Tuple(more)
      BY <2>1, <2>2, ListTuples, Zenon
    <2>5. f.kids \o (<< x >> \o more) = f2.kids \o more
      BY <1>00, <2>4
    <2>6. Chain(t, g, ObjectValue(f.kids \o (<< x >> \o more)), b + 1, tot)
      BY <2>1, <2>5
    <2> QED
      BY <2>1, <2>2, <2>3, <2>6, Zenon DEF EndsObject
  <1>6. Chain(t, << f >> \o g, v, p, tot) <=> \E b, more : EndsObject(t, f, g, v, p, b, more, tot)
    BY ChainObject, Zenon
  <1>7. ByteAt(t, p) = Comma =>
          (AwaitsName(t, << f2 >> \o g, p + 1, tot) <=>
             \E b, e : ObjectRest(t, f2, g, p + 1, b, e, tot))
    BY <1>4, MembersAwait, Zenon
  <1>8. Chain(t, << f >> \o g, v, p, tot) => ByteAt(t, p) \in {CloseBrace, Comma}
    BY <1>1, <1>6
  <1>9. ByteAt(t, p) = CloseBrace =>
          (Chain(t, << f >> \o g, v, p, tot) <=> Chain(t, g, ObjectValue(f2.kids), p + 1, tot))
    BY <1>1, <1>2, <1>3, <1>6, Zenon
  <1>10. ByteAt(t, p) = Comma =>
           (Chain(t, << f >> \o g, v, p, tot) <=> AwaitsName(t, << f2 >> \o g, p + 1, tot))
    BY <1>1, <1>2, <1>5, <1>6, <1>7, Zenon
  <1> QED
    BY <1>8, <1>9, <1>10

-----------------------------------------------------------------------------
(***************************************************************************)
(* Part 4.  A value, by its first byte                                     *)
(***************************************************************************)

(* A word is expected at its first byte: all of it must be there.          *)
LEMMA WordHere ==
    ASSUME NEW t \in Text, NEW p \in 1 .. Len(t) + 1, NEW g, IsStack(g), NEW tot,
           NEW w \in Words, ByteAt(t, p) = w.word[1]
    PROVE  /\ (\A k \in 1 .. Len(w.word) : ByteAt(t, p + k - 1) = w.word[k]) =>
                (Awaits(t, g, p, tot) <=> Chain(t, g, w.value, p + Len(w.word), tot))
           /\ Awaits(t, g, p, tot) =>
                \A k \in 1 .. Len(w.word) : ByteAt(t, p + k - 1) = w.word[k]
  <1>0. /\ p \in Int /\ p \in Nat /\ p >= 1 /\ Len(t) \in Nat
        /\ w.word \in Text /\ Len(w.word) \in 4 .. 5 /\ Len(w.word) \in Nat
        /\ \A k \in 1 .. Len(w.word) : w.word[k] # 0
    <2>1. w.word \in Text /\ Len(w.word) \in 4 .. 5
      BY WordBytes
    <2>2. \A k \in 1 .. Len(w.word) : w.word[k] \in 1 .. 255
      BY <2>1, TextFacts
    <2>3. \A c \in 1 .. 255 : c # 0
      OBVIOUS
    <2>4. \A k \in 1 .. Len(w.word) : w.word[k] # 0
      BY <2>2, <2>3, Zenon
    <2>5. p \in Int /\ p \in Nat /\ p >= 1 /\ Len(t) \in Nat
      BY TextFacts
    <2> QED
      BY <2>1, <2>4, <2>5
  <1>1. ByteAt(t, p) \in WordLetters /\ ByteAt(t, p) \notin Spaces
    <2>1. w.word[1] \in WordLetters
      BY WordBytes
    <2> QED
      BY <2>1, KindBytes
  <1>2. p \in 1 .. Len(t) /\ t[p] = ByteAt(t, p)
    BY <1>1 DEF ByteAt, WordLetters
  <1>3. ASSUME NEW b, NEW v, Span(t, p, b)
        PROVE  Core(t, p, b, v) <=> v = w.value /\ w.word = Piece(t, p, b)
    <2>1. Core(t, p, b, v) <=> MeansWord(t, p, b, v)
      BY <1>1, <1>2, <1>3, CoreKind
    <2>2. ASSUME NEW x \in Words, x.word = Piece(t, p, b)
          PROVE  x = w
      <3>1. Len(x.word) \in 4 .. 5
        BY WordBytes
      <3>2. x.word[1] = t[p]
        <4>1. /\ Len(Piece(t, p, b)) = b - p + 1 /\ b \in Nat
              /\ \A k \in 1 .. b - p + 1 : Piece(t, p, b)[k] = t[p + k - 1]
          BY <1>3, PieceFacts
        <4>2. b - p + 1 \in 4 .. 5
          BY <2>2, <3>1, <4>1
        <4>3. 1 \in 1 .. b - p + 1 /\ p + 1 - 1 = p
          BY <1>0, <4>1, <4>2
        <4> QED
          BY <2>2, <4>1, <4>3
      <3> QED
        BY <1>2, <3>2, WordBytes
    <2> QED
      BY <2>1, <2>2 DEF MeansWord
  <1>4. ASSUME NEW b, Span(t, p, b), w.word = Piece(t, p, b)
        PROVE  /\ b + 1 = p + Len(w.word)
               /\ \A k \in 1 .. Len(w.word) : ByteAt(t, p + k - 1) = w.word[k]
    <2>1. /\ Len(w.word) = b - p + 1 /\ b \in Nat /\ b <= Len(t)
          /\ \A k \in 1 .. b - p + 1 : w.word[k] = t[p + k - 1]
      <3>1. /\ Len(Piece(t, p, b)) = b - p + 1 /\ b \in Nat /\ b <= Len(t)
            /\ \A k \in 1 .. b - p + 1 : Piece(t, p, b)[k] = t[p + k - 1]
        BY <1>4, PieceFacts
      <3> QED
        BY <1>4, <3>1
    <2>2. \A k \in 1 .. Len(w.word) : p + k - 1 \in 1 .. Len(t)
      BY <1>0, <2>1
    <2> QED
      BY <1>0, <2>1, <2>2 DEF ByteAt
  <1>5. ASSUME \A k \in 1 .. Len(w.word) : ByteAt(t, p + k - 1) = w.word[k]
        PROVE  \E b : Span(t, p, b) /\ w.word = Piece(t, p, b)
    <2>1. \A k \in 1 .. Len(w.word) :
            p + k - 1 \in 1 .. Len(t) /\ w.word[k] = t[p + k - 1]
      BY <1>0, <1>5 DEF ByteAt
    <2> DEFINE b == p + Len(w.word) - 1
    <2>2. Span(t, p, b) /\ Len(w.word) = b - p + 1
      <3>1. Len(w.word) \in 1 .. Len(w.word)
        BY <1>0
      <3>2. p + Len(w.word) - 1 \in 1 .. Len(t)
        BY <2>1, <3>1
      <3> QED
        BY <1>0, <3>2 DEF Span
    <2> HIDE DEF b
    <2> DEFINE x == w.word
    <2>3. x \in Text /\ Len(x) = b - p + 1 /\ \A k \in 1 .. Len(x) : x[k] = t[p + k - 1]
      BY <1>0, <2>1, <2>2
    <2> HIDE DEF x
    <2>4. x = Piece(t, p, b)
      BY <2>2, <2>3, PieceIs, Zenon
    <2> QED
      BY <2>2, <2>4 DEF x
  <1>6. Awaits(t, g, p, tot) <=>
          \E b, v : Span(t, p, b) /\ Core(t, p, b, v) /\ Chain(t, g, v, b + 1, tot)
    BY <1>1, AwaitsHere, Zenon
  <1>7. Awaits(t, g, p, tot) =>
          /\ Chain(t, g, w.value, p + Len(w.word), tot)
          /\ \A k \in 1 .. Len(w.word) : ByteAt(t, p + k - 1) = w.word[k]
    <2>1. ASSUME NEW b, NEW v, Span(t, p, b), Core(t, p, b, v), Chain(t, g, v, b + 1, tot)
          PROVE  /\ Chain(t, g, w.value, p + Len(w.word), tot)
                 /\ \A k \in 1 .. Len(w.word) : ByteAt(t, p + k - 1) = w.word[k]
      <3>1. v = w.value /\ w.word = Piece(t, p, b)
        BY <1>3, <2>1
      <3> QED
        BY <1>4, <2>1, <3>1
    <2> QED
      BY <1>6, <2>1, Zenon
  <1>8. ASSUME \A k \in 1 .. Len(w.word) : ByteAt(t, p + k - 1) = w.word[k],
               Chain(t, g, w.value, p + Len(w.word), tot)
        PROVE  Awaits(t, g, p, tot)
    <2>1. PICK b : Span(t, p, b) /\ w.word = Piece(t, p, b)
      BY <1>5, <1>8
    <2>2. b + 1 = p + Len(w.word) /\ Core(t, p, b, w.value)
      BY <1>3, <1>4, <2>1
    <2> QED
      BY <1>6, <1>8, <2>1, <2>2
  <1> QED
    BY <1>7, <1>8, Zenon

NumberValue(n) == [tag |-> "NUMBER", number_ |-> n]

(* What ends a value does not continue a number.                           *)
LEMMA EnderBytes == \A c \in Enders : c \notin Digits \cup {Dot, 69, 101}
  BY DEF Enders, Spaces, Comma, CloseBracket, CloseBrace, Digits, Dot

(* A number is expected: it is what parse_number finds.                    *)
LEMMA NumberHere ==
    ASSUME NEW t \in Text, NEW p \in 1 .. Len(t) + 1, NEW g, IsStack(g), NEW tot,
           ByteAt(t, p) \notin WordLetters \cup {Quote, OpenBracket, OpenBrace} \cup Spaces
    PROVE  LET n == parse_number(t, p)
           IN  /\ n.ok => (Awaits(t, g, p, tot) <=>
                             Chain(t, g, NumberValue(SubSeq(t, p, n.end - 1)), n.end, tot))
               /\ Awaits(t, g, p, tot) => n.ok
  <1>0. p \in Int /\ p \in Nat /\ p >= 1 /\ Len(t) \in Nat
    BY TextFacts
  <1>1. PICK n : n = parse_number(t, p)
    OBVIOUS
  <1>2. Awaits(t, g, p, tot) <=>
          \E b, v : Span(t, p, b) /\ Core(t, p, b, v) /\ Chain(t, g, v, b + 1, tot)
    BY AwaitsHere
  <1>3. p \in 1 .. Len(t) => \A b, v : Span(t, p, b) => (Core(t, p, b, v) <=> MeansNumber(t, p, b, v))
    <2>1. p \in 1 .. Len(t) => t[p] = ByteAt(t, p)
      BY DEF ByteAt
    <2> QED
      BY <2>1, CoreKind
  <1>4. ASSUME NEW b, NEW v, Span(t, p, b), Core(t, p, b, v), Chain(t, g, v, b + 1, tot)
        PROVE  n.ok /\ Chain(t, g, NumberValue(SubSeq(t, p, n.end - 1)), n.end, tot)
    <2>1. p <= b /\ b \in Nat /\ b <= Len(t)
      BY <1>4, InkedBytes
    <2>2. p \in 1 .. Len(t) /\ b + 1 \in 1 .. Len(t) + 1
      BY <1>0, <2>1
    <2>3. IsNumber(Piece(t, p, b)) /\ v = NumberValue(Piece(t, p, b))
      <3>1. MeansNumber(t, p, b, v)
        BY <1>3, <1>4, <2>2
      <3> QED
        BY <3>1 DEF MeansNumber, NumberValue
    <2>4. ByteAt(t, b + 1) \notin Digits \cup {Dot, 69, 101}
      <3>1. ByteAt(t, b + 1) \in Enders
        BY <1>4, <2>2, ChainByte
      <3> QED
        BY <3>1, EnderBytes
    <2>5. n.ok /\ n.end = b + 1
      BY <1>1, <1>4, <2>3, <2>4, NumberComplete
    <2>6. n.end - 1 = b
      BY <2>1, <2>5
    <2> QED
      BY <1>4, <2>3, <2>5, <2>6 DEF Piece
  <1>5. ASSUME n.ok, Chain(t, g, NumberValue(SubSeq(t, p, n.end - 1)), n.end, tot)
        PROVE  Awaits(t, g, p, tot)
    <2>1. n.end \in p + 1 .. Len(t) + 1 /\ IsNumber(Piece(t, p, n.end - 1))
      BY <1>1, <1>5, NumberSound
    <2> DEFINE b == n.end - 1
    <2>2. b + 1 = n.end /\ Span(t, p, b) /\ p \in 1 .. Len(t)
      BY <1>0, <2>1 DEF Span
    <2>3. MeansNumber(t, p, b, NumberValue(Piece(t, p, b)))
      BY <2>1 DEF MeansNumber, NumberValue
    <2>4. Chain(t, g, NumberValue(Piece(t, p, b)), b + 1, tot)
      BY <1>5, <2>2 DEF Piece
    <2> HIDE DEF b
    <2>5. Core(t, p, b, NumberValue(Piece(t, p, b)))
      BY <1>3, <2>2, <2>3
    <2> QED
      BY <1>2, <2>2, <2>4, <2>5, Zenon
  <1> QED
    BY <1>1, <1>2, <1>4, <1>5, Zenon

(* The first byte that is no space. *)
Inks(t, p, q) == q \in p .. Len(t) + 1 /\ BlankSpan(t, p, q - 1) /\ ByteAt(t, q) \notin Spaces

(* skip_space goes to the first byte that is no space.                     *)
LEMMA InksFirst ==
    ASSUME NEW t \in Text, NEW p \in 1 .. Len(t) + 1, NEW q, Inks(t, p, q),
           NEW b \in p .. Len(t), t[b] \notin Spaces, BlankSpan(t, p, b - 1)
    PROVE  b = q
  <1>0. p \in Int /\ q \in Int /\ b \in Int /\ Len(t) \in Nat
    BY TextFacts DEF Inks
  <1>1. ~(b < q)
    <2>1. b < q => b \in p .. q - 1
      BY <1>0
    <2> QED
      BY <2>1 DEF Inks, BlankSpan
  <1>2. ~(q < b)
    <2>1. q < b => q \in p .. b - 1 /\ q \in 1 .. Len(t)
      BY <1>0 DEF Inks
    <2> QED
      BY <2>1 DEF Inks, BlankSpan, ByteAt
  <1> QED
    BY <1>0, <1>1, <1>2

OpensArray(t, g, p, b, e, tot) ==
    /\ b \in p + 1 .. Len(t) /\ t[b] = CloseBracket
    /\ MeansElements(t, p + 1, b - 1, e) \/ Nothing(t, p + 1, b - 1, e)
    /\ Chain(t, g, ArrayValue(e), b + 1, tot)
OpensObject(t, g, p, b, e, tot) ==
    /\ b \in p + 1 .. Len(t) /\ t[b] = CloseBrace
    /\ MeansMembers(t, p + 1, b - 1, e) \/ Nothing(t, p + 1, b - 1, e)
    /\ Chain(t, g, ObjectValue(e), b + 1, tot)

(* After an opening bracket: nothing and the closing one, or the first     *)
(* item.                                                                   *)
LEMMA OpensIs ==
    ASSUME NEW t \in Text, NEW p \in 1 .. Len(t) + 1, NEW g, IsStack(g), NEW tot
    PROVE  /\ ByteAt(t, p) = OpenBracket =>
                (Awaits(t, g, p, tot) <=> \E b, e : OpensArray(t, g, p, b, e, tot))
           /\ ByteAt(t, p) = OpenBrace =>
                (Awaits(t, g, p, tot) <=> \E b, e : OpensObject(t, g, p, b, e, tot))
  <1>0. p \in Int /\ p \in Nat /\ p >= 1 /\ Len(t) \in Nat
    BY TextFacts
  <1>1. ByteAt(t, p) \in {OpenBracket, OpenBrace} =>
          /\ p \in 1 .. Len(t) /\ t[p] = ByteAt(t, p) /\ ByteAt(t, p) \notin Spaces
    <2>1. OpenBracket # 0 /\ OpenBrace # 0
      BY DEF OpenBracket, OpenBrace
    <2> QED
      BY <2>1, KindBytes DEF ByteAt
  <1>2. ByteAt(t, p) \notin Spaces => (Awaits(t, g, p, tot) <=>
          \E b, v : Span(t, p, b) /\ Core(t, p, b, v) /\ Chain(t, g, v, b + 1, tot))
    BY AwaitsHere
  <1>3. \A b : Span(t, p, b) /\ p < b <=> b \in p + 1 .. Len(t)
    BY <1>0 DEF Span
  <1>4. ASSUME ByteAt(t, p) = OpenBracket, NEW b, NEW v, Span(t, p, b)
        PROVE  Core(t, p, b, v) <=>
                 /\ b \in p + 1 .. Len(t) /\ t[b] = CloseBracket
                 /\ \E e : /\ MeansElements(t, p + 1, b - 1, e) \/ Nothing(t, p + 1, b - 1, e)
                           /\ v = ArrayValue(e)
    <2>1. Core(t, p, b, v) <=> MeansArray(t, p, b, v)
      BY <1>1, <1>4, CoreKind
    <2> QED
      BY <1>1, <1>3, <1>4, <2>1, Zenon DEF MeansArray, ArrayValue
  <1>5. ASSUME ByteAt(t, p) = OpenBrace, NEW b, NEW v, Span(t, p, b)
        PROVE  Core(t, p, b, v) <=>
                 /\ b \in p + 1 .. Len(t) /\ t[b] = CloseBrace
                 /\ \E e : /\ MeansMembers(t, p + 1, b - 1, e) \/ Nothing(t, p + 1, b - 1, e)
                           /\ v = ObjectValue(e)
    <2>1. Core(t, p, b, v) <=> MeansObject(t, p, b, v)
      BY <1>1, <1>5, CoreKind
    <2> QED
      BY <1>1, <1>3, <1>5, <2>1, Zenon DEF MeansObject, ObjectValue
  <1>6. ByteAt(t, p) = OpenBracket =>
          (Awaits(t, g, p, tot) <=> \E b, e : OpensArray(t, g, p, b, e, tot))
    <2>1. ASSUME ByteAt(t, p) = OpenBracket,
                 NEW b, NEW v, Span(t, p, b), Core(t, p, b, v), Chain(t, g, v, b + 1, tot)
          PROVE  \E e : OpensArray(t, g, p, b, e, tot)
      <3>1. PICK e : /\ b \in p + 1 .. Len(t) /\ t[b] = CloseBracket
                     /\ MeansElements(t, p + 1, b - 1, e) \/ Nothing(t, p + 1, b - 1, e)
                     /\ v = ArrayValue(e)
        BY <1>4, <2>1, Zenon
      <3>2. OpensArray(t, g, p, b, e, tot)
        BY <2>1, <3>1 DEF OpensArray
      <3> QED
        BY <3>2
    <2>2. ASSUME ByteAt(t, p) = OpenBracket, NEW b, NEW e, OpensArray(t, g, p, b, e, tot)
          PROVE  Span(t, p, b) /\ Core(t, p, b, ArrayValue(e))
                   /\ Chain(t, g, ArrayValue(e), b + 1, tot)
      <3>1. Span(t, p, b)
        BY <1>3, <2>2 DEF OpensArray
      <3> QED
        BY <1>4, <2>2, <3>1, Zenon DEF OpensArray
    <2> QED
      BY <1>1, <1>2, <2>1, <2>2, Zenon
  <1>7. ByteAt(t, p) = OpenBrace =>
          (Awaits(t, g, p, tot) <=> \E b, e : OpensObject(t, g, p, b, e, tot))
    <2>1. ASSUME ByteAt(t, p) = OpenBrace,
                 NEW b, NEW v, Span(t, p, b), Core(t, p, b, v), Chain(t, g, v, b + 1, tot)
          PROVE  \E e : OpensObject(t, g, p, b, e, tot)
      <3>1. PICK e : /\ b \in p + 1 .. Len(t) /\ t[b] = CloseBrace
                     /\ MeansMembers(t, p + 1, b - 1, e) \/ Nothing(t, p + 1, b - 1, e)
                     /\ v = ObjectValue(e)
        BY <1>5, <2>1, Zenon
      <3>2. OpensObject(t, g, p, b, e, tot)
        BY <2>1, <3>1 DEF OpensObject
      <3> QED
        BY <3>2
    <2>2. ASSUME ByteAt(t, p) = OpenBrace, NEW b, NEW e, OpensObject(t, g, p, b, e, tot)
          PROVE  Span(t, p, b) /\ Core(t, p, b, ObjectValue(e))
                   /\ Chain(t, g, ObjectValue(e), b + 1, tot)
      <3>1. Span(t, p, b)
        BY <1>3, <2>2 DEF OpensObject
      <3> QED
        BY <1>5, <2>2, <3>1, Zenon DEF OpensObject
    <2> QED
      BY <1>1, <1>2, <2>1, <2>2, Zenon
  <1> QED
    BY <1>6, <1>7

(* Only a quote begins a name. *)
LEMMA NameQuote ==
    ASSUME NEW t \in Text, NEW p \in 1 .. Len(t) + 1, ByteAt(t, p) \notin Spaces, NEW g,
           NEW tot, AwaitsName(t, g, p, tot)
    PROVE  ByteAt(t, p) = Quote
  <1>1. PICK b, key : Span(t, p, b) /\ KeyCore(t, p, b, key)
    BY AwaitsNameHere, Zenon
  <1>2. p <= b /\ b \in Nat /\ p \in Nat /\ p >= 1 /\ b <= Len(t) /\ Len(t) \in Nat
    BY <1>1, InkedBytes, TextFacts
  <1>3. Quoted(t, p, b, key)
    BY <1>1, <1>2, QuotedSpan DEF KeyCore
  <1> QED
    BY <1>2, <1>3 DEF Quoted, ByteAt

(* An array is expected at its bracket: it closes at once, or a value is   *)
(* expected.                                                               *)
LEMMA ArrayHere ==
    ASSUME NEW t \in Text, NEW p \in 1 .. Len(t), ByteAt(t, p) = OpenBracket,
           NEW g, IsStack(g), NEW tot, NEW q, Inks(t, p + 1, q),
           NEW f, f.fn = "array", f.kids = << >>
    PROVE  /\ ByteAt(t, q) = CloseBracket =>
                (Awaits(t, g, p, tot) <=> Chain(t, g, ArrayValue(<< >>), q + 1, tot))
           /\ ByteAt(t, q) # CloseBracket =>
                (Awaits(t, g, p, tot) <=> Awaits(t, << f >> \o g, q, tot))
  <1>0. p \in Int /\ Len(t) \in Nat /\ p + 1 \in 1 .. Len(t) + 1 /\ q \in p + 1 .. Len(t) + 1
    BY TextFacts DEF Inks
  <1>1. /\ BlankSpan(t, p + 1, q - 1) /\ ByteAt(t, q) \notin Spaces /\ q \in Int
        /\ q \in 1 .. Len(t) + 1 /\ IsStack(<< f >> \o g)
    BY <1>0, PushFacts DEF Inks
  <1>2. Awaits(t, g, p, tot) <=> \E b, e : OpensArray(t, g, p, b, e, tot)
    BY <1>0, OpensIs
  <1>3. Awaits(t, << f >> \o g, q, tot) <=> \E b, e : ArrayRest(t, f, g, p + 1, b, e, tot)
    <2>1. Awaits(t, << f >> \o g, p + 1, tot) <=> Awaits(t, << f >> \o g, q, tot)
      BY <1>0, <1>1, AwaitsSkips
    <2>2. Awaits(t, << f >> \o g, p + 1, tot)
            <=> \E b, e : ArrayRest(t, f, g, p + 1, b, e, tot)
      BY <1>0, ElementsAwait, Zenon
    <2> QED
      BY <2>1, <2>2, Zenon
  <1>4. ByteAt(t, q) = CloseBracket => q \in p + 1 .. Len(t) /\ t[q] = CloseBracket
    BY <1>0 DEF ByteAt, CloseBracket
  <1>5. ASSUME NEW b, NEW e, OpensArray(t, g, p, b, e, tot)
        PROVE  \/ ArrayRest(t, f, g, p + 1, b, e, tot)
               \/ ByteAt(t, q) = CloseBracket /\ Chain(t, g, ArrayValue(<< >>), q + 1, tot)
    <2>1. /\ b \in p + 1 .. Len(t) /\ t[b] = CloseBracket /\ Chain(t, g, ArrayValue(e), b + 1, tot)
          /\ MeansElements(t, p + 1, b - 1, e) \/ Nothing(t, p + 1, b - 1, e)
      BY <1>5 DEF OpensArray
    <2>2. CASE MeansElements(t, p + 1, b - 1, e)
      <3>1. Span(t, p + 1, b - 1)
        BY <1>0, <2>1 DEF Span
      <3>2. Tuple(e)
        BY <2>2, <3>1, ListTuples, Zenon
      <3>3. f.kids \o e = e
        BY <3>2, TupleFacts
      <3> QED
        BY <2>1, <2>2, <3>3 DEF ArrayRest
    <2>3. CASE Nothing(t, p + 1, b - 1, e)
      <3>1. e = << >> /\ BlankSpan(t, p + 1, b - 1) /\ t[b] \notin Spaces
        BY <2>1, <2>3, KindBytes DEF Nothing
      <3>2. b = q
        BY <1>0, <2>1, <3>1, InksFirst
      <3> QED
        BY <1>0, <2>1, <3>1, <3>2 DEF ByteAt
    <2> QED
      BY <2>1, <2>2, <2>3
  <1>6. ASSUME NEW b, NEW e, ArrayRest(t, f, g, p + 1, b, e, tot)
        PROVE  OpensArray(t, g, p, b, e, tot)
    <2>1. /\ b \in p + 1 .. Len(t) /\ t[b] = CloseBracket /\ MeansElements(t, p + 1, b - 1, e)
          /\ Chain(t, g, ArrayValue(f.kids \o e), b + 1, tot)
      BY <1>6 DEF ArrayRest
    <2>2. Span(t, p + 1, b - 1)
      BY <1>0, <2>1 DEF Span
    <2>3. Tuple(e)
      BY <2>1, <2>2, ListTuples, Zenon
    <2>4. f.kids \o e = e
      BY <2>3, TupleFacts
    <2> QED
      BY <2>1, <2>4 DEF OpensArray
  <1>7. ASSUME ByteAt(t, q) = CloseBracket, Chain(t, g, ArrayValue(<< >>), q + 1, tot)
        PROVE  OpensArray(t, g, p, q, << >>, tot)
    BY <1>1, <1>4, <1>7 DEF OpensArray, Nothing
  <1>8. ASSUME ByteAt(t, q) = CloseBracket
        PROVE  ~Awaits(t, << f >> \o g, q, tot)
    <2>1. \A b, v : ~(Span(t, q, b) /\ Core(t, q, b, v))
      BY <1>4, <1>8, CoreKind, KindBytes
    <2> QED
      BY <1>1, <2>1, AwaitsHere, Zenon
  <1>9. Awaits(t, g, p, tot) <=>
          \/ Awaits(t, << f >> \o g, q, tot)
          \/ ByteAt(t, q) = CloseBracket /\ Chain(t, g, ArrayValue(<< >>), q + 1, tot)
    BY <1>2, <1>3, <1>5, <1>6, <1>7, Zenon
  <1> QED
    BY <1>8, <1>9, Zenon

(* An object is expected at its brace: it closes at once, or a name is     *)
(* expected.                                                               *)
LEMMA ObjectHere ==
    ASSUME NEW t \in Text, NEW p \in 1 .. Len(t), ByteAt(t, p) = OpenBrace,
           NEW g, IsStack(g), NEW tot, NEW q, Inks(t, p + 1, q),
           NEW f, f.kids = << >>
    PROVE  /\ ByteAt(t, q) = CloseBrace =>
                (Awaits(t, g, p, tot) <=> Chain(t, g, ObjectValue(<< >>), q + 1, tot))
           /\ ByteAt(t, q) # CloseBrace =>
                (Awaits(t, g, p, tot) <=> AwaitsName(t, << f >> \o g, q, tot))
  <1>0. p \in Int /\ Len(t) \in Nat /\ p + 1 \in 1 .. Len(t) + 1 /\ q \in p + 1 .. Len(t) + 1
    BY TextFacts DEF Inks
  <1>1. /\ BlankSpan(t, p + 1, q - 1) /\ ByteAt(t, q) \notin Spaces /\ q \in Int
        /\ q \in 1 .. Len(t) + 1
    BY <1>0 DEF Inks
  <1>2. Awaits(t, g, p, tot) <=> \E b, e : OpensObject(t, g, p, b, e, tot)
    BY <1>0, OpensIs
  <1>3. AwaitsName(t, << f >> \o g, q, tot) <=> \E b, e : ObjectRest(t, f, g, p + 1, b, e, tot)
    <2>1. AwaitsName(t, << f >> \o g, p + 1, tot) <=> AwaitsName(t, << f >> \o g, q, tot)
      BY <1>0, <1>1, NameSkips
    <2>2. AwaitsName(t, << f >> \o g, p + 1, tot)
            <=> \E b, e : ObjectRest(t, f, g, p + 1, b, e, tot)
      BY <1>0, MembersAwait, Zenon
    <2> QED
      BY <2>1, <2>2, Zenon
  <1>4. ByteAt(t, q) = CloseBrace => q \in p + 1 .. Len(t) /\ t[q] = CloseBrace
    BY <1>0 DEF ByteAt, CloseBrace
  <1>5. ASSUME NEW b, NEW e, OpensObject(t, g, p, b, e, tot)
        PROVE  \/ ObjectRest(t, f, g, p + 1, b, e, tot)
               \/ ByteAt(t, q) = CloseBrace /\ Chain(t, g, ObjectValue(<< >>), q + 1, tot)
    <2>1. /\ b \in p + 1 .. Len(t) /\ t[b] = CloseBrace /\ Chain(t, g, ObjectValue(e), b + 1, tot)
          /\ MeansMembers(t, p + 1, b - 1, e) \/ Nothing(t, p + 1, b - 1, e)
      BY <1>5 DEF OpensObject
    <2>2. CASE MeansMembers(t, p + 1, b - 1, e)
      <3>1. Span(t, p + 1, b - 1)
        BY <1>0, <2>1 DEF Span
      <3>2. Tuple(e)
        BY <2>2, <3>1, ListTuples, Zenon
      <3>3. f.kids \o e = e
        BY <3>2, TupleFacts
      <3> QED
        BY <2>1, <2>2, <3>3 DEF ObjectRest
    <2>3. CASE Nothing(t, p + 1, b - 1, e)
      <3>1. e = << >> /\ BlankSpan(t, p + 1, b - 1) /\ t[b] \notin Spaces
        BY <2>1, <2>3, KindBytes DEF Nothing
      <3>2. b = q
        BY <1>0, <2>1, <3>1, InksFirst
      <3> QED
        BY <1>0, <2>1, <3>1, <3>2 DEF ByteAt
    <2> QED
      BY <2>1, <2>2, <2>3
  <1>6. ASSUME NEW b, NEW e, ObjectRest(t, f, g, p + 1, b, e, tot)
        PROVE  OpensObject(t, g, p, b, e, tot)
    <2>1. /\ b \in p + 1 .. Len(t) /\ t[b] = CloseBrace /\ MeansMembers(t, p + 1, b - 1, e)
          /\ Chain(t, g, ObjectValue(f.kids \o e), b + 1, tot)
      BY <1>6 DEF ObjectRest
    <2>2. Span(t, p + 1, b - 1)
      BY <1>0, <2>1 DEF Span
    <2>3. Tuple(e)
      BY <2>1, <2>2, ListTuples, Zenon
    <2>4. f.kids \o e = e
      BY <2>3, TupleFacts
    <2> QED
      BY <2>1, <2>4 DEF OpensObject
  <1>7. ASSUME ByteAt(t, q) = CloseBrace, Chain(t, g, ObjectValue(<< >>), q + 1, tot)
        PROVE  OpensObject(t, g, p, q, << >>, tot)
    BY <1>1, <1>4, <1>7 DEF OpensObject, Nothing
  <1>8. ASSUME ByteAt(t, q) = CloseBrace
        PROVE  ~AwaitsName(t, << f >> \o g, q, tot)
    BY <1>1, <1>8, NameQuote, KindBytes
  <1>9. Awaits(t, g, p, tot) <=>
          \/ AwaitsName(t, << f >> \o g, q, tot)
          \/ ByteAt(t, q) = CloseBrace /\ Chain(t, g, ObjectValue(<< >>), q + 1, tot)
    BY <1>2, <1>3, <1>5, <1>6, <1>7, Zenon
  <1> QED
    BY <1>8, <1>9, Zenon

-----------------------------------------------------------------------------
(***************************************************************************)
(* Part 4.  Within a string                                                *)
(***************************************************************************)

(* Within quotes: buf has been read, w and the quote at j are to come.     *)
AfterString(t, of, g, x, p, tot) ==
    \/ of = "value" /\ Chain(t, g, StringValue(x), p, tot)
    \/ of = "key" /\ KeyChain(t, g, x, p, tot)
QuoteAt(t, of, g, buf, p, j, w, tot) ==
    /\ j \in p .. Len(t) /\ t[j] = Quote /\ MeansChars(t, p, j - 1, w)
    /\ AfterString(t, of, g, buf \o w, j + 1, tot)
AwaitsQuote(t, of, g, buf, p, tot) == \E j, w : QuoteAt(t, of, g, buf, p, j, w, tot)

(* Characters mean a tuple.                                                *)
LEMMA CharsTuple ==
    ASSUME NEW t \in Text, NEW p \in 1 .. Len(t) + 1, NEW j \in p .. Len(t), NEW w,
           MeansChars(t, p, j - 1, w)
    PROVE  Span(t, p, j - 1) /\ Tuple(w) /\ << >> \o w = w
  <1>1. p \in Int /\ j \in Int /\ Len(t) \in Nat
    BY TextFacts
  <1>2. Span(t, p, j - 1)
    BY <1>1 DEF Span
  <1>3. Tuple(w)
    BY <1>2, ListTuples, Zenon
  <1> QED
    BY <1>2, <1>3, TupleFacts

(* A string is expected at its opening quote: what is within it is         *)
(* expected after it.                                                      *)
LEMMA StringHere ==
    ASSUME NEW t \in Text, NEW p \in 1 .. Len(t), ByteAt(t, p) = Quote,
           NEW g, IsStack(g), NEW tot
    PROVE  /\ Awaits(t, g, p, tot) <=> AwaitsQuote(t, "value", g, << >>, p + 1, tot)
           /\ AwaitsName(t, g, p, tot) <=> AwaitsQuote(t, "key", g, << >>, p + 1, tot)
  <1>0. p \in Int /\ Len(t) \in Nat /\ p + 1 \in 1 .. Len(t) + 1 /\ p \in 1 .. Len(t) + 1
    BY TextFacts
  <1>1. t[p] = Quote /\ ByteAt(t, p) \notin Spaces
    BY KindBytes DEF ByteAt
  <1>2. \A b : Span(t, p, b) /\ p < b <=> b \in p + 1 .. Len(t)
    BY <1>0 DEF Span
  <1>3. ASSUME NEW b, NEW v, Span(t, p, b)
        PROVE  Core(t, p, b, v) <=>
                 \E x : Quoted(t, p, b, x) /\ v = StringValue(x)
    <2>1. Core(t, p, b, v) <=> MeansString(t, p, b, v)
      BY <1>1, <1>3, CoreKind
    <2> QED
      BY <2>1 DEF MeansString, StringValue
  <1>4. ASSUME NEW b, NEW x, Span(t, p, b)
        PROVE  KeyCore(t, p, b, x) <=> Quoted(t, p, b, x)
    <2>1. KeyCore(t, p, b, x) => p <= b
      BY DEF KeyCore, Inked
    <2>2. Quoted(t, p, b, x) => p <= b /\ Inked(t, p, b)
      <3>1. b \in Nat
        BY <1>4, PieceFacts
      <3> QED
        BY <1>0, <3>1, KindBytes DEF Quoted, Inked
    <2>3. p <= b => (x \in StringMeans(Piece(t, p, b), Means) <=> Quoted(t, p, b, x))
      BY <1>4, QuotedSpan
    <2> QED
      BY <2>1, <2>2, <2>3 DEF KeyCore
  <1>5. ASSUME NEW of, NEW b, NEW x, Span(t, p, b)
        PROVE  Quoted(t, p, b, x) /\ AfterString(t, of, g, x, b + 1, tot)
                 <=> QuoteAt(t, of, g, << >>, p + 1, b, x, tot)
    <2>1. Quoted(t, p, b, x) <=>
            b \in p + 1 .. Len(t) /\ t[b] = Quote /\ MeansChars(t, p + 1, b - 1, x)
      BY <1>1, <1>2, <1>5 DEF Quoted
    <2>2. b \in p + 1 .. Len(t) /\ MeansChars(t, p + 1, b - 1, x) => << >> \o x = x
      BY <1>0, CharsTuple
    <2> QED
      BY <2>1, <2>2, Zenon DEF QuoteAt
  <1>6. \A of, b, x : QuoteAt(t, of, g, << >>, p + 1, b, x, tot) => Span(t, p, b)
    BY <1>2 DEF QuoteAt
  <1>7. /\ \A x, b : AfterString(t, "value", g, x, b, tot) <=> Chain(t, g, StringValue(x), b, tot)
        /\ \A x, b : AfterString(t, "key", g, x, b, tot) <=> KeyChain(t, g, x, b, tot)
    BY DEF AfterString
  <1>8. Awaits(t, g, p, tot) <=> AwaitsQuote(t, "value", g, << >>, p + 1, tot)
    <2>1. Awaits(t, g, p, tot) <=>
            \E b, v : Span(t, p, b) /\ Core(t, p, b, v) /\ Chain(t, g, v, b + 1, tot)
      BY <1>0, <1>1, AwaitsHere, Zenon
    <2>2. ASSUME NEW b, NEW v, Span(t, p, b), Core(t, p, b, v), Chain(t, g, v, b + 1, tot)
          PROVE  \E x : QuoteAt(t, "value", g, << >>, p + 1, b, x, tot)
      <3>1. PICK x : Quoted(t, p, b, x) /\ v = StringValue(x)
        BY <1>3, <2>2
      <3>2. AfterString(t, "value", g, x, b + 1, tot)
        BY <1>7, <2>2, <3>1
      <3>3. QuoteAt(t, "value", g, << >>, p + 1, b, x, tot)
        BY <1>5, <2>2, <3>1, <3>2
      <3> QED
        BY <3>3
    <2>3. ASSUME NEW b, NEW x, QuoteAt(t, "value", g, << >>, p + 1, b, x, tot)
          PROVE  /\ Span(t, p, b) /\ Core(t, p, b, StringValue(x))
                 /\ Chain(t, g, StringValue(x), b + 1, tot)
      <3>1. Span(t, p, b)
        BY <1>6, <2>3
      <3>2. Quoted(t, p, b, x) /\ AfterString(t, "value", g, x, b + 1, tot)
        BY <1>5, <2>3, <3>1
      <3> QED
        BY <1>3, <1>7, <3>1, <3>2
    <2> QED
      BY <2>1, <2>2, <2>3, Zenon DEF AwaitsQuote
  <1>9. AwaitsName(t, g, p, tot) <=> AwaitsQuote(t, "key", g, << >>, p + 1, tot)
    <2>1. AwaitsName(t, g, p, tot) <=>
            \E b, key : Span(t, p, b) /\ KeyCore(t, p, b, key) /\ KeyChain(t, g, key, b + 1, tot)
      BY <1>0, <1>1, AwaitsNameHere, Zenon
    <2>2. \A b, x : /\ Span(t, p, b) /\ KeyCore(t, p, b, x) /\ KeyChain(t, g, x, b + 1, tot)
                    <=> QuoteAt(t, "key", g, << >>, p + 1, b, x, tot)
      BY <1>4, <1>5, <1>6, <1>7, Zenon
    <2> QED
      BY <2>1, <2>2, Zenon DEF AwaitsQuote
  <1> QED
    BY <1>8, <1>9

WindowAt(t, p) == [k \in 1 .. 12 |-> ByteAt(t, p + k - 1)]

(* The pieces that start at p are the beginnings of the window at p.       *)
LEMMA WindowIs ==
    ASSUME NEW t \in Text, NEW p \in 1 .. Len(t) + 1
    PROVE  /\ WindowAt(t, p) \in Windows /\ WindowAt(t, p)[1] = ByteAt(t, p)
           /\ \A n \in 1 .. 12 : p + n - 1 <= Len(t) =>
                /\ Span(t, p, p + n - 1)
                /\ Begins(Piece(t, p, p + n - 1), WindowAt(t, p))
                /\ Len(Piece(t, p, p + n - 1)) = n
           /\ \A n \in 1 .. 12 : WindowAt(t, p)[n] # 0 => p + n - 1 <= Len(t)
  <1>0. p \in Int /\ p \in Nat /\ p >= 1 /\ Len(t) \in Nat
    BY TextFacts
  <1>1. \A k \in 1 .. 12 : WindowAt(t, p)[k] = ByteAt(t, p + k - 1)
    BY DEF WindowAt
  <1>2. WindowAt(t, p) \in Windows
    <2>1. ASSUME NEW k \in 1 .. 12
          PROVE  ByteAt(t, p + k - 1) \in 0 .. 255
      <3>1. p + k - 1 \in Int
        BY <1>0
      <3> QED
        BY <3>1, ByteFacts DEF Text
    <2> QED
      BY <2>1 DEF WindowAt, Windows
  <1>3. WindowAt(t, p)[1] = ByteAt(t, p)
    <2>1. 1 \in 1 .. 12 /\ p + 1 - 1 = p
      BY <1>0
    <2> QED
      BY <1>1, <2>1
  <1>4. ASSUME NEW n \in 1 .. 12, p + n - 1 <= Len(t)
        PROVE  /\ Span(t, p, p + n - 1)
               /\ Begins(Piece(t, p, p + n - 1), WindowAt(t, p))
               /\ Len(Piece(t, p, p + n - 1)) = n
    <2>1. Span(t, p, p + n - 1) /\ p + n - 1 - p + 1 = n
      BY <1>0, <1>4 DEF Span
    <2>2. /\ Piece(t, p, p + n - 1) \in Text /\ Len(Piece(t, p, p + n - 1)) = n
          /\ \A k \in 1 .. n : Piece(t, p, p + n - 1)[k] = t[p + k - 1]
      <3>1. PICK j : j = p + n - 1
        OBVIOUS
      <3>2. Span(t, p, j) /\ j - p + 1 = n
        BY <1>0, <2>1, <3>1
      <3>3. /\ Piece(t, p, j) \in Text /\ Len(Piece(t, p, j)) = n
            /\ \A k \in 1 .. n : Piece(t, p, j)[k] = t[p + k - 1]
        <4>1. /\ Piece(t, p, j) \in Text /\ Len(Piece(t, p, j)) = j - p + 1
              /\ \A k \in 1 .. j - p + 1 : Piece(t, p, j)[k] = t[p + k - 1]
          BY <3>2, PieceFacts
        <4> QED
          BY <3>2, <4>1
      <3> QED
        BY <3>1, <3>3
    <2>3. \A k \in 1 .. n : WindowAt(t, p)[k] = t[p + k - 1]
      <3>1. \A k \in 1 .. n : k \in 1 .. 12 /\ p + k - 1 \in 1 .. Len(t)
        BY <1>0, <1>4
      <3> QED
        BY <1>1, <3>1 DEF ByteAt
    <2> QED
      BY <1>4, <2>1, <2>2, <2>3 DEF Begins
  <1>5. ASSUME NEW n \in 1 .. 12, WindowAt(t, p)[n] # 0
        PROVE  p + n - 1 <= Len(t)
    <2>1. p + n - 1 \in 1 .. Len(t)
      BY <1>1, <1>5 DEF ByteAt
    <2> QED
      BY <1>0, <2>1
  <1> QED
    BY <1>2, <1>3, <1>4, <1>5

(* At a quote nothing more is to come.                                     *)
LEMMA StringStops ==
    ASSUME NEW t \in Text, NEW p \in 1 .. Len(t), ByteAt(t, p) = Quote,
           NEW of, NEW g, NEW buf, Tuple(buf), NEW tot
    PROVE  AwaitsQuote(t, of, g, buf, p, tot) <=> AfterString(t, of, g, buf, p + 1, tot)
  <1>0. p \in Int /\ p \in Nat /\ Len(t) \in Nat /\ p \in 1 .. Len(t) + 1
    BY TextFacts
  <1>1. t[p] = Quote /\ p \in p .. Len(t) /\ Span(t, p, p - 1)
    BY <1>0 DEF ByteAt, Span
  <1>2. MeansChars(t, p, p - 1, << >>)
    <2>1. p = (p - 1) + 1
      BY <1>0
    <2> QED
      BY <1>1, <2>1, CharsSpan
  <1>3. buf \o << >> = buf
    BY TupleFacts
  <1>4. AfterString(t, of, g, buf, p + 1, tot) => QuoteAt(t, of, g, buf, p, p, << >>, tot)
    BY <1>1, <1>2, <1>3 DEF QuoteAt
  <1>5. ASSUME NEW j, NEW w, QuoteAt(t, of, g, buf, p, j, w, tot)
        PROVE  AfterString(t, of, g, buf, p + 1, tot)
    <2>1. /\ j \in p .. Len(t) /\ MeansChars(t, p, j - 1, w)
          /\ AfterString(t, of, g, buf \o w, j + 1, tot)
      BY <1>5 DEF QuoteAt
    <2>2. Span(t, p, j - 1) /\ j \in Int
      BY <1>0, <2>1 DEF Span
    <2>3. CASE j = p
      <3>1. w = << >>
        <4>1. p = (j - 1) + 1
          BY <1>0, <2>3
        <4> QED
          BY <2>1, <2>2, <4>1, CharsSpan
      <3> QED
        BY <1>3, <2>1, <2>3, <3>1
    <2>4. CASE j # p
      <3>1. p <= j - 1
        BY <1>0, <2>1, <2>2, <2>4
      <3>2. PICK n \in 1 .. 12 :
              p + n - 1 <= j - 1 /\ \E u : u \in UnitMeans(Piece(t, p, p + n - 1))
        <4>1. \E n \in 1 .. 12 : \E u \in UnitMeans(Piece(t, p, p + n - 1)) : \E r :
                p + n - 1 <= j - 1 /\ MeansChars(t, p + n, j - 1, r) /\ w = u \o r
          BY <2>1, <2>2, <3>1, CharsSpan
        <4> QED
          BY <4>1
      <3>3. p + n - 1 <= Len(t)
        BY <1>0, <2>1, <2>2, <3>2
      <3>4. Begins(Piece(t, p, p + n - 1), WindowAt(t, p)) /\ WindowAt(t, p)[1] = Quote
        BY <1>0, <3>3, WindowIs
      <3>5. WindowAt(t, p) \in Windows
        BY <1>0, WindowIs
      <3> QED
        BY <3>2, <3>4, <3>5, UnitIs
    <2> QED
      BY <2>3, <2>4
  <1> QED
    BY <1>4, <1>5 DEF AwaitsQuote

(* At any other byte one character is taken, or the text has no meaning.   *)
LEMMA StringSteps ==
    ASSUME NEW t \in Text, NEW p \in 1 .. Len(t) + 1, ByteAt(t, p) # Quote,
           NEW of, NEW g, NEW buf, Tuple(buf), NEW tot
    PROVE  LET u == Unit(WindowAt(t, p))
           IN  /\ Tuple(buf \o u.put)
               /\ AwaitsQuote(t, of, g, buf, p, tot) <=>
                    u.len > 0 /\ AwaitsQuote(t, of, g, buf \o u.put, p + u.len, tot)
  <1>0. p \in Int /\ p \in Nat /\ p >= 1 /\ Len(t) \in Nat
    BY TextFacts
  <1>1. PICK b : b = WindowAt(t, p)
    OBVIOUS
  <1>2. /\ b \in Windows
        /\ \A n \in 1 .. 12 : p + n - 1 <= Len(t) =>
             /\ Span(t, p, p + n - 1) /\ Begins(Piece(t, p, p + n - 1), b)
             /\ Len(Piece(t, p, p + n - 1)) = n
        /\ \A n \in 1 .. 12 : b[n] # 0 => p + n - 1 <= Len(t)
        /\ b[1] # Quote
    BY <1>1, WindowIs
  <1>3. PICK u : u = Unit(b)
    OBVIOUS
  <1>4. u.len \in 0 .. 12 /\ (u.len > 0 => b[u.len] # 0) /\ Tuple(u.put)
    <2>1. GoodUnit(b, u)
      BY <1>2, <1>3, UnitFacts
    <2> QED
      BY <2>1 DEF GoodUnit, Tuple
  <1>5. Tuple(buf \o u.put)
    BY <1>4, TupleFacts
  <1>6. ASSUME NEW n \in 1 .. 12, p + n - 1 <= Len(t), NEW x
        PROVE  x \in UnitMeans(Piece(t, p, p + n - 1)) <=> n = u.len /\ x = u.put
    <2>1. Begins(Piece(t, p, p + n - 1), b) /\ Len(Piece(t, p, p + n - 1)) = n
      BY <1>2, <1>6
    <2>2. x \in UnitMeans(Piece(t, p, p + n - 1))
            <=> b[1] # Quote /\ TakesAll(Piece(t, p, p + n - 1), b, x)
      BY <1>2, <2>1, UnitIs
    <2> QED
      BY <1>2, <1>3, <2>1, <2>2 DEF TakesAll
  <1>7. ASSUME NEW r, Tuple(r)
        PROVE  (buf \o u.put) \o r = buf \o (u.put \o r)
    <2>1. PICK y : y = u.put
      OBVIOUS
    <2>2. (buf \o y) \o r = buf \o (y \o r)
      <3>1. Tuple(y)
        BY <1>4, <2>1
      <3>2. \A k, l, m : Tuple(k) /\ Tuple(l) /\ Tuple(m) => (k \o l) \o m = k \o (l \o m)
        BY TupleFacts
      <3> QED
        BY <1>7, <3>1, <3>2, SMT
    <2> QED
      BY <2>1, <2>2
  <1>8. ASSUME NEW j, NEW w, QuoteAt(t, of, g, buf, p, j, w, tot)
        PROVE  u.len > 0 /\ \E r : QuoteAt(t, of, g, buf \o u.put, p + u.len, j, r, tot)
    <2>1. /\ j \in p .. Len(t) /\ t[j] = Quote /\ MeansChars(t, p, j - 1, w)
          /\ AfterString(t, of, g, buf \o w, j + 1, tot)
      BY <1>8 DEF QuoteAt
    <2>2. j # p /\ p <= j - 1 /\ j \in Int /\ Span(t, p, j - 1)
      <3>1. j # p
        BY <1>0, <2>1 DEF ByteAt
      <3> QED
        BY <1>0, <2>1, <3>1 DEF Span
    <2>3. PICK n \in 1 .. 12 : \E x, r :
            /\ x \in UnitMeans(Piece(t, p, p + n - 1)) /\ p + n - 1 <= j - 1
            /\ MeansChars(t, p + n, j - 1, r) /\ w = x \o r
      <3>1. \E n \in 1 .. 12 : \E x \in UnitMeans(Piece(t, p, p + n - 1)) : \E r :
              p + n - 1 <= j - 1 /\ MeansChars(t, p + n, j - 1, r) /\ w = x \o r
        BY <2>1, <2>2, CharsSpan
      <3> QED
        BY <3>1
    <2>4. PICK x, r : /\ x \in UnitMeans(Piece(t, p, p + n - 1)) /\ p + n - 1 <= j - 1
                      /\ MeansChars(t, p + n, j - 1, r) /\ w = x \o r
      BY <2>3
    <2>5. p + n - 1 <= Len(t) /\ p + n \in 1 .. Len(t) + 1 /\ j \in p + n .. Len(t)
      BY <1>0, <2>1, <2>2, <2>4
    <2>6. n = u.len /\ x = u.put
      BY <1>6, <2>4, <2>5
    <2>7. Tuple(r)
      BY <2>4, <2>5, CharsTuple
    <2>8. (buf \o u.put) \o r = buf \o w
      BY <1>7, <2>4, <2>6, <2>7
    <2>9. QuoteAt(t, of, g, buf \o u.put, p + u.len, j, r, tot)
      BY <2>1, <2>4, <2>5, <2>6, <2>8 DEF QuoteAt
    <2> QED
      BY <2>6, <2>9
  <1>9. ASSUME u.len > 0, NEW j, NEW r, QuoteAt(t, of, g, buf \o u.put, p + u.len, j, r, tot)
        PROVE  QuoteAt(t, of, g, buf, p, j, u.put \o r, tot)
    <2>1. PICK n \in 1 .. 12 : n = u.len
      BY <1>4, <1>9
    <2>2. /\ j \in p + n .. Len(t) /\ t[j] = Quote /\ MeansChars(t, p + n, j - 1, r)
          /\ AfterString(t, of, g, (buf \o u.put) \o r, j + 1, tot)
      BY <1>9, <2>1 DEF QuoteAt
    <2>3. p + n - 1 <= Len(t)
      BY <1>2, <1>4, <1>9, <2>1
    <2>4. /\ j \in p .. Len(t) /\ p <= j - 1 /\ Span(t, p, j - 1) /\ p + n - 1 <= j - 1
          /\ p + n \in 1 .. Len(t) + 1
      BY <1>0, <2>2, <2>3 DEF Span
    <2>5. u.put \in UnitMeans(Piece(t, p, p + n - 1))
      BY <1>6, <2>1, <2>3
    <2>6. MeansChars(t, p, j - 1, u.put \o r)
      BY <2>2, <2>4, <2>5, CharsSpan
    <2>7. Tuple(r)
      BY <2>2, <2>4, CharsTuple
    <2>8. AfterString(t, of, g, buf \o (u.put \o r), j + 1, tot)
      BY <1>7, <2>2, <2>7
    <2> QED
      BY <2>2, <2>4, <2>6, <2>8 DEF QuoteAt
  <1>10. AwaitsQuote(t, of, g, buf, p, tot) <=>
           u.len > 0 /\ AwaitsQuote(t, of, g, buf \o u.put, p + u.len, tot)
    BY <1>8, <1>9, Zenon DEF AwaitsQuote
  <1> QED
    BY <1>1, <1>3, <1>5, <1>10, Zenon

(* After a name comes a colon, and after it the value. *)
LEMMA KeyHere ==
    ASSUME NEW t \in Text, NEW p \in 1 .. Len(t) + 1, NEW q, Inks(t, p, q),
           NEW g, NEW key, NEW tot
    PROVE  /\ KeyChain(t, g, key, p, tot) => ByteAt(t, q) = Colon
           /\ ByteAt(t, q) = Colon =>
                (KeyChain(t, g, key, p, tot) <=> Awaits(t, Named(g, key), q + 1, tot))
  <1>0. p \in Int /\ Len(t) \in Nat /\ q \in p .. Len(t) + 1 /\ BlankSpan(t, p, q - 1)
    BY TextFacts DEF Inks
  <1>1. ASSUME NEW c, c \in p .. Len(t), t[c] = Colon, BlankSpan(t, p, c - 1)
        PROVE  c = q /\ ByteAt(t, q) = Colon
    <2>1. t[c] \notin Spaces
      BY <1>1, KindBytes
    <2>2. c = q
      BY <1>1, <2>1, InksFirst
    <2> QED
      BY <1>0, <1>1, <2>2 DEF ByteAt
  <1>2. ByteAt(t, q) = Colon => q \in p .. Len(t) /\ t[q] = Colon
    BY <1>0 DEF ByteAt, Colon
  <1> QED
    BY <1>0, <1>1, <1>2, Zenon DEF KeyChain

(* Nothing but space may follow the value. *)
LEMMA DecodeHere ==
    ASSUME NEW t \in Text, NEW p \in 1 .. Len(t) + 1, NEW q, Inks(t, p, q),
           NEW v, NEW tot
    PROVE  Chain(t, << >>, v, p, tot) <=> v = tot /\ ByteAt(t, q) = 0
  <1>0. p \in Int /\ p >= 1 /\ Len(t) \in Nat /\ q \in p .. Len(t) + 1 /\ BlankSpan(t, p, q - 1)
    BY TextFacts DEF Inks
  <1>1. BlankSpan(t, p, Len(t)) => q = Len(t) + 1
    <2>1. q # Len(t) + 1 => q \in p .. Len(t) /\ ByteAt(t, q) = t[q]
      BY <1>0 DEF ByteAt
    <2> QED
      BY <2>1 DEF Inks, BlankSpan
  <1>2. q = Len(t) + 1 <=> ByteAt(t, q) = 0
    <2>1. q = Len(t) + 1 => q \notin 1 .. Len(t)
      BY <1>0
    <2>2. q # Len(t) + 1 => q \in 1 .. Len(t)
      BY <1>0
    <2>3. q \in Int
      BY <1>0
    <2> QED
      BY <2>1, <2>2, <2>3, ByteFacts DEF Text, ByteAt
  <1>3. q = Len(t) + 1 => BlankSpan(t, p, Len(t))
    <2>1. q = Len(t) + 1 => q - 1 = Len(t)
      BY <1>0
    <2> QED
      BY <1>0, <2>1
  <1> QED
    BY <1>1, <1>2, <1>3, ChainEmpty

-----------------------------------------------------------------------------
(***************************************************************************)
(* Part 5.  The invariant                                                  *)
(***************************************************************************)

(* The calls that are running, as the grammar sees them: the same frames   *)
(* with the values they hold, whether a tree is built or not.              *)
FrameShows(f, r, tree) ==
    /\ r.fn = f.fn
    /\ f.fn = "array" => Tuple(r.kids) /\ (tree => r.kids = f.kids)
    /\ f.fn = "object" =>
         Tuple(r.kids) /\ (tree => r.kids = f.kids /\ r.key = f.key)
    /\ f.fn = "string" => r.of = f.of /\ Tuple(r.buf) /\ (tree => r.buf = f.buf)

Shadow(st, g, tree) ==
    /\ IsStack(g) /\ Len(g) = Len(st)
    /\ \A k \in 1 .. Len(g) : FrameShows(st[k], g[k], tree)

(* What the parser is still to find in the text, if the text means tot.    *)
Expects(t, at, g, gv, p, tot) ==
    \/ at \in {"start", "value"} /\ Awaits(t, g, p, tot)
    \/ at = "key" /\ AwaitsName(t, g, p, tot)
    \/ at = "string" /\ AwaitsQuote(t, g[1].of, Tail(g), g[1].buf, p, tot)
    \/ at = "colon" /\ KeyChain(t, g, gv.string_, p, tot)
    \/ at = "return" /\ Chain(t, g, gv, p, tot)
    \/ at = "accepted" /\ tot = gv

TextMeans(t, tot) == MeansValue(t, 1, Len(t), tot)

Tracks(g, gv) ==
    /\ Shadow(stack, g, out)
    /\ out /\ pc \in {"colon", "return", "accepted"} => value = gv
    /\ \A tot : TextMeans(text, tot) <=> Expects(text, pc, g, gv, s, tot)
    /\ pc \in {"value", "key"} => ByteAt(text, s) \notin Spaces

(* What holds while json_decode and json_validate run: either the text has *)
(* been given up, and it means nothing, or the calls that are running      *)
(* expect of the rest of it exactly what the text means.                   *)
ParseInv ==
    \/ pc \in {"fail", "refused"} /\ \A tot : ~TextMeans(text, tot)
    \/ \E g, gv : Tracks(g, gv)

(* A call is pushed, returns, or is the last to return.                    *)
LEMMA ShadowPush ==
    ASSUME NEW st, IsStack(st), NEW g, NEW tree, Shadow(st, g, tree), NEW f, NEW r,
           FrameShows(f, r, tree)
    PROVE  Shadow(<< f >> \o st, << r >> \o g, tree)
  <1>1. IsStack(g) /\ Len(g) = Len(st) /\ \A k \in 1 .. Len(g) : FrameShows(st[k], g[k], tree)
    BY DEF Shadow
  <1> DEFINE x == << f >> \o st
             y == << r >> \o g
  <1>2. /\ IsStack(x) /\ DOMAIN x = 1 .. Len(st) + 1 /\ Len(st) \in Nat /\ x[1] = f
        /\ \A k \in 1 .. Len(st) : x[k + 1] = st[k]
    BY PushFacts
  <1>3. /\ IsStack(y) /\ DOMAIN y = 1 .. Len(g) + 1 /\ y[1] = r
        /\ \A k \in 1 .. Len(g) : y[k + 1] = g[k]
    <2>1. IsStack(g)
      BY <1>1
    <2> QED
      BY <2>1, PushFacts
  <1> HIDE DEF x, y
  <1>4. Len(x) = Len(st) + 1 /\ Len(y) = Len(st) + 1
    <2>1. \A z : IsStack(z) => Len(z) \in Nat /\ DOMAIN z = 1 .. Len(z)
      BY DEF IsStack
    <2>2. Len(x) \in Nat /\ 1 .. Len(x) = 1 .. Len(st) + 1
      BY <1>2, <2>1
    <2>3. Len(y) \in Nat /\ 1 .. Len(y) = 1 .. Len(st) + 1
      BY <1>1, <1>3, <2>1
    <2> QED
      BY <1>2, <2>2, <2>3
  <1>5. ASSUME NEW k \in 1 .. Len(st) + 1
        PROVE  FrameShows(x[k], y[k], tree)
    <2>1. CASE k = 1
      BY <1>2, <1>3, <2>1
    <2>2. CASE k # 1
      <3>1. PICK j \in 1 .. Len(st) : k = j + 1
        <4>1. k - 1 \in 1 .. Len(st) /\ k = (k - 1) + 1
          BY <1>2, <2>2
        <4> QED
          BY <4>1
      <3> QED
        BY <1>1, <1>2, <1>3, <3>1
    <2> QED
      BY <2>1, <2>2
  <1>6. Shadow(x, y, tree)
    BY <1>3, <1>4, <1>5 DEF Shadow
  <1> QED
    BY <1>6 DEF x, y

LEMMA ShadowPop ==
    ASSUME NEW st, IsStack(st), st # << >>, NEW g, NEW tree, Shadow(st, g, tree)
    PROVE  /\ g # << >> /\ IsStack(g) /\ IsStack(Tail(g)) /\ g = << g[1] >> \o Tail(g)
           /\ FrameShows(Head(st), g[1], tree)
           /\ IsStack(Tail(st)) /\ Shadow(Tail(st), Tail(g), tree)
  <1>1. IsStack(g) /\ Len(g) = Len(st) /\ \A k \in 1 .. Len(g) : FrameShows(st[k], g[k], tree)
    BY DEF Shadow
  <1>2. /\ IsStack(Tail(st)) /\ Len(st) \in Nat /\ Len(st) >= 1 /\ Head(st) = st[1]
        /\ Len(Tail(st)) = Len(st) - 1
        /\ \A k \in 1 .. Len(st) - 1 : Tail(st)[k] = st[k + 1]
    BY PopFacts
  <1>3. g # << >>
    <2>1. Len(<< >>) = 0
      OBVIOUS
    <2> QED
      BY <1>1, <1>2, <2>1
  <1>4. /\ IsStack(Tail(g)) /\ Len(Tail(g)) = Len(g) - 1
        /\ \A k \in 1 .. Len(g) - 1 : Tail(g)[k] = g[k + 1]
    BY <1>1, <1>3, PopFacts
  <1>5. g = << g[1] >> \o Tail(g)
    BY <1>1, <1>3, StackSplits
  <1>6. FrameShows(Head(st), g[1], tree)
    BY <1>1, <1>2
  <1>7. \A k \in 1 .. Len(Tail(g)) : FrameShows(Tail(st)[k], Tail(g)[k], tree)
    <2>1. \A k \in 1 .. Len(g) - 1 : k + 1 \in 1 .. Len(g)
      BY <1>1, <1>2
    <2> QED
      BY <1>1, <1>2, <1>4, <2>1
  <1> QED
    BY <1>1, <1>2, <1>3, <1>4, <1>5, <1>6, <1>7 DEF Shadow

LEMMA ShadowEmpty ==
    ASSUME NEW g, NEW tree, Shadow(<< >>, g, tree)
    PROVE  g = << >>
  <1>1. IsStack(g) /\ Len(g) = 0
    BY DEF Shadow
  <1>2. PICK F : g \in Seq(F)
    BY <1>1 DEF IsStack
  <1> QED
    BY <1>1, <1>2

(* A step that keeps track of the text, and one that gives it up.          *)
LEMMA Moves ==
    ASSUME NEW g, NEW gv, Tracks(g, gv), UNCHANGED << text, out >>,
           NEW g2, NEW gv2, Shadow(stack', g2, out),
           out /\ pc' \in {"colon", "return", "accepted"} => value' = gv2,
           \A tot : Expects(text, pc, g, gv, s, tot) <=> Expects(text, pc', g2, gv2, s', tot),
           pc' \in {"value", "key"} => ByteAt(text, s') \notin Spaces
    PROVE  ParseInv'
  <1>1. text' = text /\ out' = out
    OBVIOUS
  <1>2. Shadow(stack', g2, out')
    BY <1>1
  <1>3. \A tot : TextMeans(text', tot) <=> Expects(text', pc', g2, gv2, s', tot)
    <2>1. \A tot : TextMeans(text, tot) <=> Expects(text, pc', g2, gv2, s', tot)
      BY DEF Tracks
    <2> QED
      BY <1>1, <2>1
  <1>4. ByteAt(text', s') = ByteAt(text, s')
    BY <1>1
  <1>5. \E h, hv : /\ Shadow(stack', h, out')
                   /\ out' /\ pc' \in {"colon", "return", "accepted"} => value' = hv
                   /\ \A tot : TextMeans(text', tot) <=> Expects(text', pc', h, hv, s', tot)
                   /\ pc' \in {"value", "key"} => ByteAt(text', s') \notin Spaces
    <2>1. out' /\ pc' \in {"colon", "return", "accepted"} => value' = gv2
      BY <1>1
    <2>2. pc' \in {"value", "key"} => ByteAt(text', s') \notin Spaces
      BY <1>4
    <2> WITNESS g2, gv2
    <2> QED
      BY <1>2, <1>3, <2>1, <2>2
  <1> QED
    BY <1>5, Zenon DEF ParseInv, Tracks

(* A step after which the text can mean nothing any more.                  *)
LEMMA Falls ==
    ASSUME NEW g, NEW gv, Tracks(g, gv), UNCHANGED text, pc' \in {"fail", "refused"},
           \A tot : ~Expects(text, pc, g, gv, s, tot)
    PROVE  ParseInv'
  <1>1. \A tot : ~TextMeans(text, tot)
    BY DEF Tracks
  <1>2. \A tot : ~TextMeans(text', tot)
    BY <1>1
  <1> QED
    BY <1>2 DEF ParseInv

(* Where the parser stands, by what it expects there. *)
LEMMA ExpectsIs ==
    /\ \A t, g, gv, p, tot : Expects(t, "start", g, gv, p, tot) <=> Awaits(t, g, p, tot)
    /\ \A t, g, gv, p, tot : Expects(t, "value", g, gv, p, tot) <=> Awaits(t, g, p, tot)
    /\ \A t, g, gv, p, tot : Expects(t, "key", g, gv, p, tot) <=> AwaitsName(t, g, p, tot)
    /\ \A t, g, gv, p, tot : Expects(t, "string", g, gv, p, tot) <=>
          AwaitsQuote(t, g[1].of, Tail(g), g[1].buf, p, tot)
    /\ \A t, g, gv, p, tot : Expects(t, "colon", g, gv, p, tot) <=>
          KeyChain(t, g, gv.string_, p, tot)
    /\ \A t, g, gv, p, tot : Expects(t, "return", g, gv, p, tot) <=> Chain(t, g, gv, p, tot)
    /\ \A t, g, gv, p, tot : Expects(t, "accepted", g, gv, p, tot) <=> tot = gv
    /\ \A t, g, gv, p, tot : ~Expects(t, "fail", g, gv, p, tot)
    /\ \A t, g, gv, p, tot : ~Expects(t, "refused", g, gv, p, tot)
  BY DEF Expects

(* Space before what is expected at the start changes nothing.             *)
LEMMA Ready ==
    ASSUME Inv, NEW g, NEW gv, Tracks(g, gv)
    PROVE  /\ text \in Text /\ s \in 1 .. Len(text) + 1 /\ Len(text) \in Nat /\ s \in Int
           /\ IsStack(stack) /\ IsStack(g) /\ Shadow(stack, g, out)
           /\ pc \in {"value", "key"} => ByteAt(text, s) \notin Spaces
           /\ out /\ pc \in {"colon", "return", "accepted"} => value = gv
           /\ \A n \in 1 .. Len(text) + 1 : Inks(text, n, AfterSpace(n))
  <1>1. text \in Text /\ s \in 1 .. Len(text) + 1 /\ IsStack(stack)
    BY DEF Inv, PosInv, Positions, LeakInv, Shared, Text
  <1>2. ASSUME NEW n \in 1 .. Len(text) + 1
        PROVE  Inks(text, n, AfterSpace(n))
    <2>1. 0 \notin Spaces
      BY DEF Spaces
    <2>2. PICK q : q = AfterAll(text, n, Spaces)
      OBVIOUS
    <2>3. /\ q \in n .. Len(text) + 1 /\ \A k \in n .. q - 1 : text[k] \in Spaces
          /\ ByteAt(text, q) \notin Spaces
      BY <1>1, <2>1, <2>2, AfterAllIs
    <2> QED
      BY <2>2, <2>3 DEF Inks, AfterSpace, BlankSpan
  <1> QED
    BY <1>1, <1>2, TextFacts DEF Tracks, Shadow

-----------------------------------------------------------------------------
(***************************************************************************)
(* Part 5.  Steps at the first byte of a value                             *)
(***************************************************************************)

LEMMA TracksStart ==
    ASSUME Inv, Start, NEW g, NEW gv, Tracks(g, gv)
    PROVE  ParseInv'
  <1>0. /\ text \in Text /\ s \in 1 .. Len(text) + 1 /\ Shadow(stack, g, out)
        /\ \A n \in 1 .. Len(text) + 1 : Inks(text, n, AfterSpace(n))
    BY Ready
  <1>1. PICK q : q = AfterSpace(s)
    OBVIOUS
  <1>2. /\ pc = "start" /\ pc' = "value" /\ s' = q
        /\ UNCHANGED << text, out >> /\ UNCHANGED stack
    BY <1>1 DEF Start, Continues
  <1>3. q \in s .. Len(text) + 1 /\ BlankSpan(text, s, q - 1) /\ ByteAt(text, q) \notin Spaces
    BY <1>0, <1>1 DEF Inks
  <1>4. \A tot : Awaits(text, g, s, tot) <=> Awaits(text, g, q, tot)
    BY <1>0, <1>3, AwaitsSkips
  <1>5. \A tot : Expects(text, pc, g, gv, s, tot) <=> Expects(text, pc', g, gv, s', tot)
    BY <1>2, <1>4, ExpectsIs
  <1>6. Shadow(stack', g, out)
    BY <1>0, <1>2
  <1> QED
    BY <1>2, <1>3, <1>5, <1>6, Moves

(* The steps of parse_value at a word, a number, an array, an object and a *)
(* string.                                                                 *)
LEMMA TracksWord ==
    ASSUME Inv, ParseWord, NEW g, NEW gv, Tracks(g, gv)
    PROVE  ParseInv'
  <1>0. /\ text \in Text /\ s \in 1 .. Len(text) + 1 /\ Shadow(stack, g, out) /\ IsStack(g)
    BY Ready
  <1>1. /\ pc = "value" /\ UNCHANGED << text, out >> /\ UNCHANGED stack
    BY DEF ParseWord
  <1>2. PICK w \in Words :
          /\ At(s) = w.word[1]
          /\ \/ /\ \A k \in 1 .. Len(w.word) : At(s + k - 1) = w.word[k]
                /\ pc' = "return" /\ value' = (IF out THEN w.value ELSE NoValue)
                /\ s' = s + Len(w.word)
             \/ /\ \E k \in 1 .. Len(w.word) : At(s + k - 1) # w.word[k]
                /\ pc' = "fail"
    BY DEF ParseWord, Returns, Fails
  <1>3. ByteAt(text, s) = w.word[1]
    BY <1>2 DEF At
  <1>4. CASE \A k \in 1 .. Len(w.word) : At(s + k - 1) = w.word[k]
    <2>1. \A tot : Awaits(text, g, s, tot) <=> Chain(text, g, w.value, s + Len(w.word), tot)
      BY <1>0, <1>3, <1>4, WordHere DEF At
    <2>2. pc' = "return" /\ s' = s + Len(w.word) /\ (out => value' = w.value)
      BY <1>2, <1>4
    <2>3. \A tot : Expects(text, pc, g, gv, s, tot) <=> Expects(text, pc', g, w.value, s', tot)
      BY <1>1, <2>1, <2>2, ExpectsIs
    <2>4. Shadow(stack', g, out)
      BY <1>0, <1>1
    <2> QED
      BY <1>1, <2>2, <2>3, <2>4, Moves
  <1>5. CASE \E k \in 1 .. Len(w.word) : At(s + k - 1) # w.word[k]
    <2>1. \A tot : ~Awaits(text, g, s, tot)
      BY <1>0, <1>3, <1>5, WordHere DEF At
    <2>2. \A tot : ~Expects(text, pc, g, gv, s, tot)
      BY <1>1, <2>1, ExpectsIs
    <2>3. pc' = "fail"
      BY <1>2, <1>5
    <2> QED
      BY <1>1, <2>2, <2>3, Falls
  <1> QED
    BY <1>4, <1>5

LEMMA TracksNumber ==
    ASSUME Inv, ParseNumber, NEW g, NEW gv, Tracks(g, gv)
    PROVE  ParseInv'
  <1>0. /\ text \in Text /\ s \in 1 .. Len(text) + 1 /\ Shadow(stack, g, out) /\ IsStack(g)
        /\ pc = "value" => ByteAt(text, s) \notin Spaces
    BY Ready
  <1>1. PICK n : n = parse_number(text, s)
    OBVIOUS
  <1>2. /\ pc = "value" /\ UNCHANGED << text, out >> /\ UNCHANGED stack
        /\ At(s) \notin {Quote, OpenBracket, OpenBrace} \cup {w.word[1] : w \in Words}
        /\ \/ /\ n.ok /\ pc' = "return" /\ s' = n.end
              /\ out => value' = NumberValue(SubSeq(text, s, n.end - 1))
           \/ ~n.ok /\ pc' = "fail"
    BY <1>1 DEF ParseNumber, Returns, Fails, NumberValue
  <1>3. ByteAt(text, s) \notin WordLetters \cup {Quote, OpenBracket, OpenBrace} \cup Spaces
    <2>1. {w.word[1] : w \in Words} = WordLetters
      BY WordBytes
    <2> QED
      BY <1>0, <1>2, <2>1 DEF At
  <1>4. \A tot : /\ n.ok => (Awaits(text, g, s, tot) <=>
                       Chain(text, g, NumberValue(SubSeq(text, s, n.end - 1)), n.end, tot))
                 /\ Awaits(text, g, s, tot) => n.ok
    BY <1>0, <1>1, <1>3, NumberHere
  <1>5. CASE n.ok
    <2> DEFINE v == NumberValue(SubSeq(text, s, n.end - 1))
    <2>1. pc' = "return" /\ s' = n.end /\ (out => value' = v)
      BY <1>2, <1>5
    <2>2. \A tot : Awaits(text, g, s, tot) <=> Chain(text, g, v, n.end, tot)
      BY <1>4, <1>5
    <2> HIDE DEF v
    <2>3. \A tot : Expects(text, pc, g, gv, s, tot) <=> Expects(text, pc', g, v, s', tot)
      BY <1>2, <2>1, <2>2, ExpectsIs
    <2>4. Shadow(stack', g, out)
      BY <1>0, <1>2
    <2> QED
      BY <1>2, <2>1, <2>3, <2>4, Moves
  <1>6. CASE ~n.ok
    <2>1. \A tot : ~Expects(text, pc, g, gv, s, tot)
      BY <1>2, <1>4, <1>6, ExpectsIs
    <2>2. pc' = "fail"
      BY <1>2, <1>6
    <2> QED
      BY <1>2, <2>1, <2>2, Falls
  <1> QED
    BY <1>5, <1>6

LEMMA TracksArray ==
    ASSUME Inv, BeginArray, NEW g, NEW gv, Tracks(g, gv)
    PROVE  ParseInv'
  <1> DEFINE f == [fn |-> "array", kids |-> << >>, owns |-> New(1)]
             r == [fn |-> "array", kids |-> << >>]
  <1>0. /\ text \in Text /\ s \in 1 .. Len(text) + 1 /\ Len(text) \in Nat
        /\ Shadow(stack, g, out) /\ IsStack(g) /\ IsStack(stack)
        /\ \A n \in 1 .. Len(text) + 1 : Inks(text, n, AfterSpace(n))
    BY Ready
  <1>1. PICK q : q = AfterSpace(s + 1)
    OBVIOUS
  <1>2. /\ pc = "value" /\ UNCHANGED << text, out >> /\ ByteAt(text, s) = OpenBracket
        /\ \/ /\ ByteAt(text, q) = CloseBracket /\ pc' = "return" /\ s' = q + 1
              /\ out => value' = ArrayValue(<< >>)
              /\ UNCHANGED stack
           \/ /\ ByteAt(text, q) # CloseBracket /\ pc' = "value" /\ s' = q
              /\ stack' = << f >> \o stack
    BY <1>1 DEF BeginArray, Returns, Continues, ArrayValue, At
  <1>3. s \in 1 .. Len(text) /\ s + 1 \in 1 .. Len(text) + 1
    BY <1>0, <1>2 DEF ByteAt, OpenBracket
  <1>4. Inks(text, s + 1, q)
    BY <1>0, <1>1, <1>3
  <1>5. FrameShows(f, r, out) /\ r.fn = "array" /\ r.kids = << >>
    BY TupleFacts DEF FrameShows
  <1> HIDE DEF f, r
  <1>6. \A tot : /\ ByteAt(text, q) = CloseBracket =>
                      (Awaits(text, g, s, tot) <=> Chain(text, g, ArrayValue(<< >>), q + 1, tot))
                 /\ ByteAt(text, q) # CloseBracket =>
                      (Awaits(text, g, s, tot) <=> Awaits(text, << r >> \o g, q, tot))
    BY <1>0, <1>2, <1>3, <1>4, <1>5, ArrayHere
  <1>7. CASE ByteAt(text, q) = CloseBracket
    <2>1. pc' = "return" /\ s' = q + 1 /\ (out => value' = ArrayValue(<< >>)) /\ UNCHANGED stack
      BY <1>2, <1>7
    <2>2. \A tot : Expects(text, pc, g, gv, s, tot)
                     <=> Expects(text, pc', g, ArrayValue(<< >>), s', tot)
      BY <1>2, <1>6, <1>7, <2>1, ExpectsIs
    <2>3. Shadow(stack', g, out)
      BY <1>0, <2>1
    <2> QED
      BY <1>2, <2>1, <2>2, <2>3, Moves
  <1>8. CASE ByteAt(text, q) # CloseBracket
    <2>1. pc' = "value" /\ s' = q /\ stack' = << f >> \o stack
      BY <1>2, <1>8
    <2>2. \A tot : Expects(text, pc, g, gv, s, tot)
                     <=> Expects(text, pc', << r >> \o g, gv, s', tot)
      BY <1>2, <1>6, <1>8, <2>1, ExpectsIs
    <2>3. Shadow(stack', << r >> \o g, out)
      BY <1>0, <1>5, <2>1, ShadowPush
    <2>4. ByteAt(text, s') \notin Spaces
      BY <1>4, <2>1 DEF Inks
    <2> QED
      BY <1>2, <2>1, <2>2, <2>3, <2>4, Moves
  <1> QED
    BY <1>7, <1>8

LEMMA TracksObject ==
    ASSUME Inv, BeginObject, NEW g, NEW gv, Tracks(g, gv)
    PROVE  ParseInv'
  <1> DEFINE f == [fn |-> "object", kids |-> << >>, owns |-> New(1), key |-> << >>, held |-> {}]
             r == [fn |-> "object", kids |-> << >>, key |-> << >>]
  <1>0. /\ text \in Text /\ s \in 1 .. Len(text) + 1 /\ Len(text) \in Nat
        /\ Shadow(stack, g, out) /\ IsStack(g) /\ IsStack(stack)
        /\ \A n \in 1 .. Len(text) + 1 : Inks(text, n, AfterSpace(n))
    BY Ready
  <1>1. PICK q : q = AfterSpace(s + 1)
    OBVIOUS
  <1>2. /\ pc = "value" /\ UNCHANGED << text, out >> /\ ByteAt(text, s) = OpenBrace
        /\ \/ /\ ByteAt(text, q) = CloseBrace /\ pc' = "return" /\ s' = q + 1
              /\ out => value' = ObjectValue(<< >>)
              /\ UNCHANGED stack
           \/ /\ ByteAt(text, q) # CloseBrace /\ pc' = "key" /\ s' = q
              /\ stack' = << f >> \o stack
    BY <1>1 DEF BeginObject, Returns, Continues, ObjectValue, At
  <1>3. s \in 1 .. Len(text) /\ s + 1 \in 1 .. Len(text) + 1
    BY <1>0, <1>2 DEF ByteAt, OpenBrace
  <1>4. Inks(text, s + 1, q)
    BY <1>0, <1>1, <1>3
  <1>5. FrameShows(f, r, out) /\ r.kids = << >>
    BY TupleFacts DEF FrameShows
  <1> HIDE DEF f, r
  <1>6. \A tot : /\ ByteAt(text, q) = CloseBrace =>
                      (Awaits(text, g, s, tot) <=> Chain(text, g, ObjectValue(<< >>), q + 1, tot))
                 /\ ByteAt(text, q) # CloseBrace =>
                      (Awaits(text, g, s, tot) <=> AwaitsName(text, << r >> \o g, q, tot))
    BY <1>0, <1>2, <1>3, <1>4, <1>5, ObjectHere
  <1>7. CASE ByteAt(text, q) = CloseBrace
    <2>1. pc' = "return" /\ s' = q + 1 /\ (out => value' = ObjectValue(<< >>)) /\ UNCHANGED stack
      BY <1>2, <1>7
    <2>2. \A tot : Expects(text, pc, g, gv, s, tot)
                     <=> Expects(text, pc', g, ObjectValue(<< >>), s', tot)
      BY <1>2, <1>6, <1>7, <2>1, ExpectsIs
    <2>3. Shadow(stack', g, out)
      BY <1>0, <2>1
    <2> QED
      BY <1>2, <2>1, <2>2, <2>3, Moves
  <1>8. CASE ByteAt(text, q) # CloseBrace
    <2>1. pc' = "key" /\ s' = q /\ stack' = << f >> \o stack
      BY <1>2, <1>8
    <2>2. \A tot : Expects(text, pc, g, gv, s, tot)
                     <=> Expects(text, pc', << r >> \o g, gv, s', tot)
      BY <1>2, <1>6, <1>8, <2>1, ExpectsIs
    <2>3. Shadow(stack', << r >> \o g, out)
      BY <1>0, <1>5, <2>1, ShadowPush
    <2>4. ByteAt(text, s') \notin Spaces
      BY <1>4, <2>1 DEF Inks
    <2> QED
      BY <1>2, <2>1, <2>2, <2>3, <2>4, Moves
  <1> QED
    BY <1>7, <1>8

(* The top of a stack that has just been pushed. *)
LEMMA TopOf ==
    ASSUME NEW g, IsStack(g), NEW r
    PROVE  (<< r >> \o g)[1] = r /\ Tail(<< r >> \o g) = g /\ IsStack(<< r >> \o g)
  BY PushFacts, PushEnds

LEMMA TracksString ==
    ASSUME Inv, BeginString, NEW g, NEW gv, Tracks(g, gv)
    PROVE  ParseInv'
  <1> DEFINE f == [fn |-> "string", of |-> pc, buf |-> << >>,
                   room |-> IF out THEN 16 ELSE 4, owns |-> New(1)]
             r == [fn |-> "string", of |-> pc, buf |-> << >>]
  <1>0. /\ text \in Text /\ s \in 1 .. Len(text) + 1 /\ Len(text) \in Nat
        /\ Shadow(stack, g, out) /\ IsStack(g) /\ IsStack(stack)
    BY Ready
  <1>1. /\ pc \in {"value", "key"} /\ UNCHANGED << text, out >> /\ ByteAt(text, s) = Quote
        /\ stack' = << f >> \o stack /\ pc' = "string" /\ s' = s + 1
    BY DEF BeginString, Continues, At
  <1>2. s \in 1 .. Len(text)
    BY <1>0, <1>1 DEF ByteAt, Quote
  <1>3. FrameShows(f, r, out) /\ r.of = pc /\ r.buf = << >>
    BY TupleFacts DEF FrameShows
  <1> HIDE DEF f, r
  <1>4. \A tot : Expects(text, pc, g, gv, s, tot)
                   <=> AwaitsQuote(text, pc, g, << >>, s + 1, tot)
    <2>1. \A tot : /\ Awaits(text, g, s, tot) <=> AwaitsQuote(text, "value", g, << >>, s + 1, tot)
                   /\ AwaitsName(text, g, s, tot) <=> AwaitsQuote(text, "key", g, << >>, s + 1, tot)
      BY <1>0, <1>1, <1>2, StringHere
    <2> QED
      BY <1>1, <2>1, ExpectsIs
  <1>5. (<< r >> \o g)[1] = r /\ Tail(<< r >> \o g) = g
    BY <1>0, TopOf
  <1>6. \A tot : Expects(text, pc', << r >> \o g, gv, s', tot)
                   <=> AwaitsQuote(text, pc, g, << >>, s + 1, tot)
    <2>1. PICK h : h = << r >> \o g
      OBVIOUS
    <2>2. h[1].of = pc /\ Tail(h) = g /\ h[1].buf = << >>
      BY <1>3, <1>5, <2>1
    <2>3. \A tot : Expects(text, "string", h, gv, s + 1, tot)
                     <=> AwaitsQuote(text, h[1].of, Tail(h), h[1].buf, s + 1, tot)
      BY ExpectsIs
    <2> QED
      BY <1>1, <2>1, <2>2, <2>3
  <1>7. Shadow(stack', << r >> \o g, out)
    BY <1>0, <1>1, <1>3, ShadowPush
  <1>8. \A tot : Expects(text, pc, g, gv, s, tot)
                   <=> Expects(text, pc', << r >> \o g, gv, s', tot)
    BY <1>4, <1>6
  <1> QED
    BY <1>1, <1>7, <1>8, Moves

(* A member that has no quote in its place is refused.                     *)
LEMMA TracksNoKey ==
    ASSUME Inv, NoKey, NEW g, NEW gv, Tracks(g, gv)
    PROVE  ParseInv'
  <1>0. /\ text \in Text /\ s \in 1 .. Len(text) + 1
        /\ pc = "key" => ByteAt(text, s) \notin Spaces
    BY Ready
  <1>1. pc = "key" /\ UNCHANGED text /\ ByteAt(text, s) # Quote /\ pc' = "fail"
    BY DEF NoKey, Fails, At
  <1>2. \A tot : ~AwaitsName(text, g, s, tot)
    BY <1>0, <1>1, NameQuote
  <1>3. \A tot : ~Expects(text, pc, g, gv, s, tot)
    BY <1>1, <1>2, ExpectsIs
  <1> QED
    BY <1>1, <1>3, Falls

-----------------------------------------------------------------------------
(***************************************************************************)
(* Part 5.  Steps within a string and after an element                     *)
(***************************************************************************)

(* What parse_string has read so far is on top of both stacks. *)
LEMMA OnString ==
    ASSUME Inv, NEW g, NEW gv, Tracks(g, gv), pc = "string"
    PROVE  /\ stack # << >> /\ StringFrame(Top) /\ IsStack(Tail(stack))
           /\ IsStack(Tail(g)) /\ Shadow(Tail(stack), Tail(g), out)
           /\ g[1].of = Top.of /\ Tuple(g[1].buf) /\ (out => g[1].buf = Top.buf)
  <1>1. stack # << >> /\ StringFrame(Top)
    BY StringOnTop DEF Inv
  <1>2. IsStack(stack) /\ Shadow(stack, g, out)
    BY Ready
  <1>3. /\ FrameShows(Top, g[1], out) /\ IsStack(Tail(stack)) /\ IsStack(Tail(g))
        /\ Shadow(Tail(stack), Tail(g), out)
    BY <1>1, <1>2, ShadowPop DEF Top
  <1> QED
    BY <1>1, <1>3 DEF FrameShows, StringFrame

(* One more character of a string.                                         *)
LEMMA TracksTakes ==
    ASSUME Inv, StringTakes, NEW g, NEW gv, Tracks(g, gv)
    PROVE  ParseInv'
  <1>0. /\ text \in Text /\ s \in 1 .. Len(text) + 1 /\ IsStack(g)
    BY Ready
  <1>1. pc = "string"
    BY DEF StringTakes
  <1>2. /\ StringFrame(Top) /\ IsStack(Tail(stack)) /\ IsStack(Tail(g))
        /\ Shadow(Tail(stack), Tail(g), out)
        /\ g[1].of = Top.of /\ Tuple(g[1].buf) /\ (out => g[1].buf = Top.buf)
    BY <1>1, OnString
  <1>3. PICK u : u = Unit(WindowAt(text, s))
    OBVIOUS
  <1>4. Window = WindowAt(text, s)
    BY DEF Window, WindowAt, At
  <1>5. PICK buf : buf = IF out THEN Top.buf \o u.put ELSE u.put
    OBVIOUS
  <1>6. PICK room : room = IF out THEN sb_need(Top.room, Len(buf), 4) ELSE Top.room
    OBVIOUS
  <1> DEFINE f == [Top EXCEPT !.buf = buf, !.room = room]
             r == [fn |-> "string", of |-> g[1].of, buf |-> g[1].buf \o u.put]
             h == << r >> \o Tail(g)
  <1>7. /\ UNCHANGED << text, out >> /\ ByteAt(text, s) # Quote /\ u.len > 0
        /\ stack' = << f >> \o Tail(stack) /\ pc' = "string" /\ s' = s + u.len
    BY <1>3, <1>4, <1>5, <1>6 DEF StringTakes, Continues, At
  <1>8. \A tot : /\ Tuple(g[1].buf \o u.put)
                 /\ AwaitsQuote(text, g[1].of, Tail(g), g[1].buf, s, tot) <=>
                      /\ u.len > 0
                      /\ AwaitsQuote(text, g[1].of, Tail(g), g[1].buf \o u.put, s + u.len, tot)
    BY <1>0, <1>2, <1>3, <1>7, StringSteps
  <1>9. /\ FrameShows(f, r, out)
        /\ r.of = g[1].of /\ r.buf = g[1].buf \o u.put
    <2>1. f.fn = "string" /\ f.of = Top.of /\ f.buf = buf
      BY <1>2 DEF StringFrame
    <2>2. out => buf = g[1].buf \o u.put
      BY <1>2, <1>5
    <2>3. r.fn = "string" /\ r.of = g[1].of /\ r.buf = g[1].buf \o u.put
      OBVIOUS
    <2>4. Tuple(r.buf)
      BY <1>8, <2>3
    <2> HIDE DEF f, r
    <2> QED
      BY <1>2, <2>1, <2>2, <2>3, <2>4 DEF FrameShows
  <1> HIDE DEF f, r
  <1>10. h[1] = r /\ Tail(h) = Tail(g)
    BY <1>2, TopOf
  <1>11. Shadow(stack', h, out)
    BY <1>2, <1>7, <1>9, ShadowPush
  <1> HIDE DEF h
  <1>12. \A tot : Expects(text, pc, g, gv, s, tot)
                    <=> AwaitsQuote(text, g[1].of, Tail(g), g[1].buf \o u.put, s + u.len, tot)
    <2>1. \A tot : Expects(text, "string", g, gv, s, tot)
                     <=> AwaitsQuote(text, g[1].of, Tail(g), g[1].buf, s, tot)
      BY ExpectsIs
    <2> QED
      BY <1>1, <1>7, <1>8, <2>1
  <1>13. \A tot : Expects(text, pc', h, gv, s', tot)
                    <=> AwaitsQuote(text, g[1].of, Tail(g), g[1].buf \o u.put, s + u.len, tot)
    <2>1. \A tot : Expects(text, "string", h, gv, s + u.len, tot)
                     <=> AwaitsQuote(text, h[1].of, Tail(h), h[1].buf, s + u.len, tot)
      BY ExpectsIs
    <2> QED
      BY <1>7, <1>9, <1>10, <2>1
  <1>14. \A tot : Expects(text, pc, g, gv, s, tot) <=> Expects(text, pc', h, gv, s', tot)
    BY <1>12, <1>13
  <1> QED
    BY <1>7, <1>11, <1>14, Moves

(* A character that is not one.                                            *)
LEMMA TracksStringFails ==
    ASSUME Inv, StringFails, NEW g, NEW gv, Tracks(g, gv)
    PROVE  ParseInv'
  <1>0. text \in Text /\ s \in 1 .. Len(text) + 1
    BY Ready
  <1>1. pc = "string"
    BY DEF StringFails
  <1>2. Tuple(g[1].buf)
    BY <1>1, OnString
  <1>3. PICK u : u = Unit(WindowAt(text, s))
    OBVIOUS
  <1>4. Window = WindowAt(text, s)
    BY DEF Window, WindowAt, At
  <1>5. UNCHANGED text /\ ByteAt(text, s) # Quote /\ u.len = 0 /\ pc' = "fail"
    BY <1>3, <1>4 DEF StringFails, Fails, At
  <1>6. \A tot : ~AwaitsQuote(text, g[1].of, Tail(g), g[1].buf, s, tot)
    <2>1. \A tot : AwaitsQuote(text, g[1].of, Tail(g), g[1].buf, s, tot) => u.len > 0
      BY <1>0, <1>2, <1>3, <1>5, StringSteps
    <2> QED
      BY <1>5, <2>1
  <1>7. \A tot : ~Expects(text, pc, g, gv, s, tot)
    <2>1. \A tot : Expects(text, "string", g, gv, s, tot)
                     <=> AwaitsQuote(text, g[1].of, Tail(g), g[1].buf, s, tot)
      BY ExpectsIs
    <2> QED
      BY <1>1, <1>6, <2>1
  <1> QED
    BY <1>5, <1>7, Falls

(* The quote that ends a string.                                           *)
LEMMA TracksStringEnds ==
    ASSUME Inv, StringEnds, NEW g, NEW gv, Tracks(g, gv)
    PROVE  ParseInv'
  <1>0. text \in Text /\ s \in 1 .. Len(text) + 1
    BY Ready
  <1>1. pc = "string"
    BY DEF StringEnds
  <1>2. /\ StringFrame(Top) /\ IsStack(Tail(g)) /\ Shadow(Tail(stack), Tail(g), out)
        /\ g[1].of = Top.of /\ Tuple(g[1].buf) /\ (out => g[1].buf = Top.buf)
    BY <1>1, OnString
  <1> DEFINE x == StringValue(g[1].buf)
             h == Tail(g)
  <1>3. /\ UNCHANGED << text, out >> /\ ByteAt(text, s) = Quote
        /\ stack' = Tail(stack) /\ s' = s + 1
        /\ \/ Top.of = "key" /\ pc' = "colon"
           \/ Top.of = "value" /\ pc' = "return"
        /\ out => value' = StringValue(Top.buf)
    BY DEF StringEnds, Returns, At, StringValue
  <1>4. s \in 1 .. Len(text)
    BY <1>0, <1>3 DEF ByteAt, Quote
  <1>5. \A tot : AwaitsQuote(text, g[1].of, h, g[1].buf, s, tot)
                   <=> AfterString(text, g[1].of, h, g[1].buf, s + 1, tot)
    BY <1>0, <1>2, <1>3, <1>4, StringStops
  <1>6. x.string_ = g[1].buf /\ (out => value' = x)
    BY <1>2, <1>3 DEF StringValue
  <1>7. \A tot : Expects(text, pc, g, gv, s, tot)
                   <=> AfterString(text, g[1].of, h, g[1].buf, s + 1, tot)
    <2>1. \A tot : Expects(text, "string", g, gv, s, tot)
                     <=> AwaitsQuote(text, g[1].of, h, g[1].buf, s, tot)
      BY ExpectsIs
    <2> QED
      BY <1>1, <1>5, <2>1
  <1>8. \A tot : Expects(text, pc', h, x, s', tot)
                   <=> AfterString(text, g[1].of, h, g[1].buf, s + 1, tot)
    <2>1. CASE Top.of = "key"
      <3>1. pc' = "colon" /\ g[1].of = "key" /\ s' = s + 1
        BY <1>2, <1>3, <2>1
      <3>2. \A tot : Expects(text, "colon", h, x, s + 1, tot)
                       <=> KeyChain(text, h, x.string_, s + 1, tot)
        BY ExpectsIs
      <3>3. \A tot : AfterString(text, "key", h, g[1].buf, s + 1, tot)
                       <=> KeyChain(text, h, g[1].buf, s + 1, tot)
        BY DEF AfterString
      <3> HIDE DEF x, h
      <3> QED
        BY <1>6, <3>1, <3>2, <3>3
    <2>2. CASE Top.of = "value"
      <3>1. pc' = "return" /\ g[1].of = "value" /\ s' = s + 1
        BY <1>2, <1>3, <2>2
      <3>2. \A tot : Expects(text, "return", h, x, s + 1, tot)
                       <=> Chain(text, h, x, s + 1, tot)
        BY ExpectsIs
      <3>3. \A tot : AfterString(text, "value", h, g[1].buf, s + 1, tot)
                       <=> Chain(text, h, x, s + 1, tot)
        BY DEF AfterString
      <3> HIDE DEF x, h
      <3> QED
        BY <3>1, <3>2, <3>3
    <2> QED
      BY <1>3, <2>1, <2>2
  <1>9. Shadow(stack', h, out)
    BY <1>2, <1>3
  <1>10. \A tot : Expects(text, pc, g, gv, s, tot) <=> Expects(text, pc', h, x, s', tot)
    BY <1>7, <1>8
  <1>11. pc' \notin {"value", "key"}
    BY <1>3
  <1> HIDE DEF x, h
  <1> QED
    BY <1>3, <1>6, <1>9, <1>10, <1>11, Moves

(* After an element: a comma, a bracket, or nothing else.                  *)
LEMMA TracksElement ==
    ASSUME Inv, ElementReturns, NEW g, NEW gv, Tracks(g, gv)
    PROVE  ParseInv'
  <1>0. /\ text \in Text /\ s \in 1 .. Len(text) + 1 /\ Len(text) \in Nat
        /\ Shadow(stack, g, out) /\ IsStack(g) /\ IsStack(stack)
        /\ out /\ pc = "return" => value = gv
        /\ \A n \in 1 .. Len(text) + 1 : Inks(text, n, AfterSpace(n))
    BY Ready
  <1>1. pc = "return" /\ stack # << >> /\ Top.fn = "array" /\ UNCHANGED << text, out >>
    BY DEF ElementReturns
  <1>2. PICK f, h : f = g[1] /\ h = Tail(g)
    OBVIOUS
  <1>3. /\ g = << f >> \o h /\ IsStack(h) /\ FrameShows(Top, f, out)
        /\ IsStack(Tail(stack)) /\ Shadow(Tail(stack), h, out)
    BY <1>0, <1>1, <1>2, ShadowPop DEF Top
  <1>4. f.fn = "array" /\ Tuple(f.kids) /\ (out => f.kids = Top.kids)
    BY <1>1, <1>3 DEF FrameShows
  <1>5. PICK q : q = AfterSpace(s)
    OBVIOUS
  <1>6. /\ Inks(text, s, q) /\ q \in s .. Len(text) + 1 /\ q \in 1 .. Len(text) + 1
        /\ BlankSpan(text, s, q - 1) /\ ByteAt(text, q) \notin Spaces
    <2>1. Inks(text, s, q)
      BY <1>0, <1>5
    <2> QED
      BY <1>0, <2>1 DEF Inks
  <1> DEFINE kids == IF out THEN Append(Top.kids, value) ELSE Top.kids
             owns == Top.owns \cup gift
             top == [Top EXCEPT !.kids = kids, !.owns = owns]
             f2 == [fn |-> "array", kids |-> Append(f.kids, gv)]
  <1>7. f2.fn = "array" /\ f2.kids = Append(f.kids, gv) /\ Tuple(f2.kids)
          /\ (out => f2.kids = kids)
    BY <1>0, <1>1, <1>4, Grown
  <1>8. FrameShows(top, f2, out)
    <2>1. Container(Top)
      BY <1>1, ContainerOnTop DEF Inv
    <2>2. top.fn = "array" /\ top.kids = kids
      BY <1>1, <2>1 DEF Container
    <2> HIDE DEF top, f2, kids
    <2> QED
      BY <1>7, <2>2 DEF FrameShows
  <1>9. \/ /\ ByteAt(text, q) = CloseBracket /\ stack' = Tail(stack)
           /\ pc' = "return" /\ s' = q + 1 /\ (out => value' = ArrayValue(kids))
        \/ /\ ByteAt(text, q) = Comma /\ stack' = << top >> \o Tail(stack)
           /\ pc' = "value" /\ s' = AfterSpace(q + 1)
        \/ /\ ByteAt(text, q) \notin {CloseBracket, Comma} /\ pc' = "fail"
    BY <1>5 DEF ElementReturns, Returns, Continues, Fails, At, ArrayValue
  <1> HIDE DEF f2, top, kids
  <1>10. \A tot : Expects(text, pc, g, gv, s, tot) <=> Chain(text, << f >> \o h, gv, q, tot)
    <2>1. \A tot : Expects(text, "return", g, gv, s, tot) <=> Chain(text, g, gv, s, tot)
      BY ExpectsIs
    <2>2. \A tot : Chain(text, g, gv, s, tot) <=> Chain(text, g, gv, q, tot)
      BY <1>0, <1>6, ChainSkips
    <2> QED
      BY <1>1, <1>3, <2>1, <2>2
  <1>11. \A tot :
           /\ Chain(text, << f >> \o h, gv, q, tot) => ByteAt(text, q) \in {CloseBracket, Comma}
           /\ ByteAt(text, q) = CloseBracket =>
                (Chain(text, << f >> \o h, gv, q, tot)
                   <=> Chain(text, h, ArrayValue(f2.kids), q + 1, tot))
           /\ ByteAt(text, q) = Comma =>
                (Chain(text, << f >> \o h, gv, q, tot)
                   <=> Awaits(text, << f2 >> \o h, q + 1, tot))
    BY <1>0, <1>3, <1>4, <1>6, <1>7, ElementEnds
  <1>12. CASE ByteAt(text, q) = CloseBracket
    <2>1. /\ stack' = Tail(stack) /\ pc' = "return" /\ s' = q + 1
          /\ out => value' = ArrayValue(f2.kids)
      BY <1>7, <1>9, <1>12, KindBytes
    <2>2. \A tot : Expects(text, pc, g, gv, s, tot)
                     <=> Expects(text, pc', h, ArrayValue(f2.kids), s', tot)
      BY <1>10, <1>11, <1>12, <2>1, ExpectsIs
    <2>3. Shadow(stack', h, out)
      BY <1>3, <2>1
    <2> QED
      BY <1>1, <2>1, <2>2, <2>3, Moves
  <1>13. CASE ByteAt(text, q) = Comma
    <2>1. /\ stack' = << top >> \o Tail(stack) /\ pc' = "value" /\ s' = AfterSpace(q + 1)
      BY <1>9, <1>13, KindBytes
    <2>2. q + 1 \in 1 .. Len(text) + 1
      BY <1>0, <1>6, <1>13 DEF ByteAt, Comma
    <2>3. /\ s' \in q + 1 .. Len(text) + 1 /\ BlankSpan(text, q + 1, s' - 1)
          /\ ByteAt(text, s') \notin Spaces
      BY <1>0, <2>1, <2>2 DEF Inks
    <2>4. IsStack(<< f2 >> \o h)
      BY <1>3, PushFacts
    <2>5. \A tot : Awaits(text, << f2 >> \o h, q + 1, tot)
                     <=> Awaits(text, << f2 >> \o h, s', tot)
      BY <1>0, <2>2, <2>3, AwaitsSkips
    <2>6. \A tot : Expects(text, pc, g, gv, s, tot)
                     <=> Expects(text, pc', << f2 >> \o h, gv, s', tot)
      BY <1>10, <1>11, <1>13, <2>1, <2>5, ExpectsIs
    <2>7. Shadow(stack', << f2 >> \o h, out)
      BY <1>3, <1>8, <2>1, ShadowPush
    <2> QED
      BY <1>1, <2>1, <2>3, <2>6, <2>7, Moves
  <1>14. CASE ByteAt(text, q) \notin {CloseBracket, Comma}
    <2>1. pc' = "fail"
      BY <1>9, <1>14
    <2>2. \A tot : ~Expects(text, pc, g, gv, s, tot)
      BY <1>10, <1>11, <1>14
    <2> QED
      BY <1>1, <2>1, <2>2, Falls
  <1> QED
    BY <1>12, <1>13, <1>14

-----------------------------------------------------------------------------
(***************************************************************************)
(* Part 5.  Steps after a member and at the end of the text; the theorem   *)
(***************************************************************************)

LEMMA TracksMember ==
    ASSUME Inv, MemberReturns, NEW g, NEW gv, Tracks(g, gv)
    PROVE  ParseInv'
  <1>0. /\ text \in Text /\ s \in 1 .. Len(text) + 1 /\ Len(text) \in Nat
        /\ Shadow(stack, g, out) /\ IsStack(g) /\ IsStack(stack)
        /\ out /\ pc = "return" => value = gv
        /\ \A n \in 1 .. Len(text) + 1 : Inks(text, n, AfterSpace(n))
    BY Ready
  <1>1. pc = "return" /\ stack # << >> /\ Top.fn = "object" /\ UNCHANGED << text, out >>
    BY DEF MemberReturns
  <1>2. PICK f, h : f = g[1] /\ h = Tail(g)
    OBVIOUS
  <1>3. /\ g = << f >> \o h /\ IsStack(h) /\ FrameShows(Top, f, out)
        /\ IsStack(Tail(stack)) /\ Shadow(Tail(stack), h, out)
    BY <1>0, <1>1, <1>2, ShadowPop DEF Top
  <1>4. /\ f.fn = "object" /\ Tuple(f.kids)
        /\ out => f.kids = Top.kids /\ f.key = Top.key
    BY <1>1, <1>3 DEF FrameShows
  <1>5. PICK q : q = AfterSpace(s)
    OBVIOUS
  <1>6. /\ Inks(text, s, q) /\ q \in s .. Len(text) + 1 /\ q \in 1 .. Len(text) + 1
        /\ BlankSpan(text, s, q - 1) /\ ByteAt(text, q) \notin Spaces
    <2>1. Inks(text, s, q)
      BY <1>0, <1>5
    <2> QED
      BY <1>0, <2>1 DEF Inks
  <1> DEFINE kids == IF out THEN Append(Top.kids, Entry(Top.key, value)) ELSE Top.kids
             owns == Top.owns \cup Top.held \cup gift
             top == [Top EXCEPT !.kids = kids, !.owns = owns, !.held = {}]
             x == Entry(f.key, gv)
             f2 == [fn |-> "object", kids |-> Append(f.kids, x), key |-> f.key]
  <1>7. /\ f2.fn = "object" /\ f2.kids = Append(f.kids, x) /\ f2.key = f.key
        /\ Tuple(f2.kids)
        /\ out => f2.kids = kids
    <2>1. Tuple(Append(f.kids, x))
      BY <1>4, Grown
    <2>2. out => Append(f.kids, x) = kids
      BY <1>0, <1>1, <1>4
    <2> HIDE DEF x, kids
    <2> QED
      BY <2>1, <2>2
  <1>8. FrameShows(top, f2, out)
    <2>1. Container(Top)
      BY <1>1, ContainerOnTop DEF Inv
    <2>2. top.fn = "object" /\ top.kids = kids /\ top.key = Top.key
      BY <1>1, <2>1 DEF Container
    <2> HIDE DEF top, f2, kids, x
    <2> QED
      BY <1>4, <1>7, <2>2 DEF FrameShows
  <1>9. \/ /\ ByteAt(text, q) = CloseBrace /\ stack' = Tail(stack)
           /\ pc' = "return" /\ s' = q + 1 /\ (out => value' = ObjectValue(kids))
        \/ /\ ByteAt(text, q) = Comma /\ stack' = << top >> \o Tail(stack)
           /\ pc' = "key" /\ s' = AfterSpace(q + 1)
        \/ /\ ByteAt(text, q) \notin {CloseBrace, Comma} /\ pc' = "fail"
    BY <1>5 DEF MemberReturns, Returns, Continues, Fails, At, ObjectValue, Entry
  <1> HIDE DEF f2, top, kids
  <1>10. \A tot : Expects(text, pc, g, gv, s, tot) <=> Chain(text, << f >> \o h, gv, q, tot)
    <2>1. \A tot : Expects(text, "return", g, gv, s, tot) <=> Chain(text, g, gv, s, tot)
      BY ExpectsIs
    <2>2. \A tot : Chain(text, g, gv, s, tot) <=> Chain(text, g, gv, q, tot)
      BY <1>0, <1>6, ChainSkips
    <2> QED
      BY <1>1, <1>3, <2>1, <2>2
  <1>11. \A tot :
           /\ Chain(text, << f >> \o h, gv, q, tot) => ByteAt(text, q) \in {CloseBrace, Comma}
           /\ ByteAt(text, q) = CloseBrace =>
                (Chain(text, << f >> \o h, gv, q, tot)
                   <=> Chain(text, h, ObjectValue(f2.kids), q + 1, tot))
           /\ ByteAt(text, q) = Comma =>
                (Chain(text, << f >> \o h, gv, q, tot)
                   <=> AwaitsName(text, << f2 >> \o h, q + 1, tot))
    BY <1>0, <1>3, <1>4, <1>6, <1>7, MemberEnds
  <1> HIDE DEF x
  <1>12. CASE ByteAt(text, q) = CloseBrace
    <2>1. /\ stack' = Tail(stack) /\ pc' = "return" /\ s' = q + 1
          /\ out => value' = ObjectValue(f2.kids)
      BY <1>7, <1>9, <1>12, KindBytes
    <2>2. \A tot : Expects(text, pc, g, gv, s, tot)
                     <=> Expects(text, pc', h, ObjectValue(f2.kids), s', tot)
      BY <1>10, <1>11, <1>12, <2>1, ExpectsIs
    <2>3. Shadow(stack', h, out)
      BY <1>3, <2>1
    <2> QED
      BY <1>1, <2>1, <2>2, <2>3, Moves
  <1>13. CASE ByteAt(text, q) = Comma
    <2>1. /\ stack' = << top >> \o Tail(stack) /\ pc' = "key" /\ s' = AfterSpace(q + 1)
      BY <1>9, <1>13, KindBytes
    <2>2. q + 1 \in 1 .. Len(text) + 1
      BY <1>0, <1>6, <1>13 DEF ByteAt, Comma
    <2>3. /\ s' \in q + 1 .. Len(text) + 1 /\ BlankSpan(text, q + 1, s' - 1)
          /\ ByteAt(text, s') \notin Spaces
      BY <1>0, <2>1, <2>2 DEF Inks
    <2>4. \A tot : AwaitsName(text, << f2 >> \o h, q + 1, tot)
                     <=> AwaitsName(text, << f2 >> \o h, s', tot)
      BY <1>0, <2>2, <2>3, NameSkips
    <2>5. \A tot : Expects(text, pc, g, gv, s, tot)
                     <=> Expects(text, pc', << f2 >> \o h, gv, s', tot)
      BY <1>10, <1>11, <1>13, <2>1, <2>4, ExpectsIs
    <2>6. Shadow(stack', << f2 >> \o h, out)
      BY <1>3, <1>8, <2>1, ShadowPush
    <2> QED
      BY <1>1, <2>1, <2>3, <2>5, <2>6, Moves
  <1>14. CASE ByteAt(text, q) \notin {CloseBrace, Comma}
    <2>1. pc' = "fail"
      BY <1>9, <1>14
    <2>2. \A tot : ~Expects(text, pc, g, gv, s, tot)
      BY <1>10, <1>11, <1>14
    <2> QED
      BY <1>1, <2>1, <2>2, Falls
  <1> QED
    BY <1>12, <1>13, <1>14

(* After a name: a colon, or nothing else.                                 *)
LEMMA TracksKey ==
    ASSUME Inv, KeyReturns, NEW g, NEW gv, Tracks(g, gv)
    PROVE  ParseInv'
  <1>0. /\ text \in Text /\ s \in 1 .. Len(text) + 1 /\ Len(text) \in Nat
        /\ Shadow(stack, g, out) /\ IsStack(g) /\ IsStack(stack)
        /\ out /\ pc = "colon" => value = gv
        /\ \A n \in 1 .. Len(text) + 1 : Inks(text, n, AfterSpace(n))
    BY Ready
  <1>1. pc = "colon" /\ UNCHANGED << text, out >>
    BY DEF KeyReturns
  <1>2. stack # << >> /\ Top.fn = "object" /\ Container(Top)
    <2>1. AwaitsKey(stack)
      BY <1>1 DEF Inv, LeakInv, Frames
    <2>2. stack # << >> /\ Top.fn = "object"
      BY <2>1 DEF AwaitsKey, Top
    <2> QED
      BY <1>1, <2>2, ContainerOnTop DEF Inv
  <1>3. PICK f, h : f = g[1] /\ h = Tail(g)
    OBVIOUS
  <1>4. /\ g = << f >> \o h /\ IsStack(h) /\ FrameShows(Top, f, out)
        /\ IsStack(Tail(stack)) /\ Shadow(Tail(stack), h, out)
    BY <1>0, <1>2, <1>3, ShadowPop DEF Top
  <1>5. PICK q : q = AfterSpace(s)
    OBVIOUS
  <1>6. /\ Inks(text, s, q) /\ q \in 1 .. Len(text) + 1
    <2>1. Inks(text, s, q)
      BY <1>0, <1>5
    <2> QED
      BY <1>0, <2>1 DEF Inks
  <1> DEFINE top == [Top EXCEPT !.key = IF out THEN value.string_ ELSE @, !.held = gift]
             f2 == Keyed(f, gv.string_)
             g2 == Named(g, gv.string_)
  <1>7. g2 = << f2 >> \o h
    BY <1>4, NamedPush
  <1>8. FrameShows(top, f2, out)
    <2>1. f2.fn = "object" /\ f2.kids = f.kids /\ f2.key = gv.string_
      BY DEF Keyed
    <2>2. top.fn = "object" /\ top.kids = Top.kids /\ (out => top.key = value.string_)
      BY <1>2 DEF Container
    <2>3. Tuple(f.kids) /\ (out => f.kids = Top.kids)
      BY <1>2, <1>4 DEF FrameShows
    <2>4. out => value.string_ = gv.string_
      BY <1>0, <1>1
    <2> HIDE DEF top, f2
    <2> QED
      BY <2>1, <2>2, <2>3, <2>4 DEF FrameShows
  <1>9. /\ stack' = << top >> \o Tail(stack)
        /\ \/ ByteAt(text, q) = Colon /\ pc' = "value" /\ s' = AfterSpace(q + 1)
           \/ ByteAt(text, q) # Colon /\ pc' = "fail"
    BY <1>5 DEF KeyReturns, Continues, Fails, At
  <1> HIDE DEF f2, top, g2
  <1>10. \A tot : Expects(text, pc, g, gv, s, tot) <=> KeyChain(text, g, gv.string_, s, tot)
    <2>1. \A tot : Expects(text, "colon", g, gv, s, tot) <=> KeyChain(text, g, gv.string_, s, tot)
      BY ExpectsIs
    <2> QED
      BY <1>1, <2>1
  <1>11. \A tot :
           /\ KeyChain(text, g, gv.string_, s, tot) => ByteAt(text, q) = Colon
           /\ ByteAt(text, q) = Colon =>
                (KeyChain(text, g, gv.string_, s, tot) <=> Awaits(text, g2, q + 1, tot))
    BY <1>0, <1>6, KeyHere DEF g2
  <1>12. CASE ByteAt(text, q) = Colon
    <2>1. pc' = "value" /\ s' = AfterSpace(q + 1)
      BY <1>9, <1>12
    <2>2. q + 1 \in 1 .. Len(text) + 1
      BY <1>0, <1>6, <1>12 DEF ByteAt, Colon
    <2>3. /\ s' \in q + 1 .. Len(text) + 1 /\ BlankSpan(text, q + 1, s' - 1)
          /\ ByteAt(text, s') \notin Spaces
      BY <1>0, <2>1, <2>2 DEF Inks
    <2>4. \A tot : Awaits(text, g2, q + 1, tot) <=> Awaits(text, g2, s', tot)
      BY <1>0, <2>2, <2>3, AwaitsSkips
    <2>5. \A tot : Expects(text, pc, g, gv, s, tot) <=> Expects(text, pc', g2, gv, s', tot)
      BY <1>10, <1>11, <1>12, <2>1, <2>4, ExpectsIs
    <2>6. Shadow(stack', g2, out)
      BY <1>4, <1>7, <1>8, <1>9, ShadowPush
    <2> QED
      BY <1>1, <2>1, <2>3, <2>5, <2>6, Moves
  <1>13. CASE ByteAt(text, q) # Colon
    <2>1. pc' = "fail"
      BY <1>9, <1>13
    <2>2. \A tot : ~Expects(text, pc, g, gv, s, tot)
      BY <1>10, <1>11, <1>13
    <2> QED
      BY <1>1, <2>1, <2>2, Falls
  <1> QED
    BY <1>12, <1>13

(* After the last value: the end of the text, or nothing else.             *)
LEMMA TracksDecode ==
    ASSUME Inv, DecodeReturns, NEW g, NEW gv, Tracks(g, gv)
    PROVE  ParseInv'
  <1>0. /\ text \in Text /\ s \in 1 .. Len(text) + 1 /\ Shadow(stack, g, out)
        /\ out /\ pc = "return" => value = gv
        /\ \A n \in 1 .. Len(text) + 1 : Inks(text, n, AfterSpace(n))
    BY Ready
  <1>1. PICK q : q = AfterSpace(s)
    OBVIOUS
  <1>2. /\ pc = "return" /\ stack = << >> /\ UNCHANGED << text, out, stack, s >>
        /\ \/ ByteAt(text, q) = 0 /\ pc' = "accepted" /\ UNCHANGED value
           \/ ByteAt(text, q) # 0 /\ pc' = "refused"
    BY <1>1 DEF DecodeReturns, At
  <1>3. g = << >>
    BY <1>0, <1>2, ShadowEmpty
  <1>4. \A tot : Expects(text, pc, g, gv, s, tot) <=> gv = tot /\ ByteAt(text, q) = 0
    <2>1. \A tot : Expects(text, "return", g, gv, s, tot) <=> Chain(text, g, gv, s, tot)
      BY ExpectsIs
    <2>2. Inks(text, s, q)
      BY <1>0, <1>1
    <2>3. \A tot : Chain(text, << >>, gv, s, tot) <=> gv = tot /\ ByteAt(text, q) = 0
      BY <1>0, <2>2, DecodeHere
    <2> QED
      BY <1>2, <1>3, <2>1, <2>3
  <1>5. CASE ByteAt(text, q) = 0
    <2>1. pc' = "accepted" /\ value' = value
      BY <1>2, <1>5
    <2>2. \A tot : Expects(text, pc, g, gv, s, tot) <=> Expects(text, pc', g, gv, s', tot)
      BY <1>4, <1>5, <2>1, ExpectsIs
    <2>3. Shadow(stack', g, out)
      BY <1>0, <1>2
    <2> QED
      BY <1>0, <1>2, <2>1, <2>2, <2>3, Moves
  <1>6. CASE ByteAt(text, q) # 0
    <2>1. pc' = "refused"
      BY <1>2, <1>6
    <2>2. \A tot : ~Expects(text, pc, g, gv, s, tot)
      BY <1>4, <1>6
    <2> QED
      BY <1>2, <2>1, <2>2, Falls
  <1> QED
    BY <1>5, <1>6

(* A text that has been given up means nothing. *)
LEMMA GivenUp ==
    ASSUME ParseInv, pc \in {"fail", "refused"}
    PROVE  \A tot : ~TextMeans(text, tot)
  <1>1. ASSUME NEW g, NEW gv, Tracks(g, gv)
        PROVE  \A tot : ~TextMeans(text, tot)
    BY <1>1, ExpectsIs DEF Tracks
  <1> QED
    BY <1>1 DEF ParseInv

(* The parser fails where the text cannot continue.                        *)
LEMMA TracksFails ==
    ASSUME ParseInv, ArrayFails \/ ObjectFails \/ DecodeFails
    PROVE  ParseInv'
  <1>1. pc = "fail" /\ pc' \in {"fail", "refused"} /\ text' = text
    BY DEF ArrayFails, ObjectFails, DecodeFails, Fails
  <1>2. \A tot : ~TextMeans(text, tot)
    BY <1>1, GivenUp
  <1> QED
    BY <1>1, <1>2 DEF ParseInv

(* Every step keeps ParseInv.                                              *)
LEMMA ParseStep ==
    Inv /\ ParseInv /\ [Next]_vars => ParseInv'
  <1> SUFFICES ASSUME Inv, ParseInv, [Next]_vars
               PROVE  ParseInv'
    OBVIOUS
  <1>1. CASE UNCHANGED vars
    BY <1>1 DEF vars, ParseInv, Tracks
  <1>2. CASE ArrayFails \/ ObjectFails \/ DecodeFails
    BY <1>2, TracksFails
  <1>3. CASE Next /\ ~(ArrayFails \/ ObjectFails \/ DecodeFails)
    <2>1. pc \notin {"fail", "refused"}
      BY <1>3 DEF Next, Start, ParseWord, ParseNumber, BeginArray, BeginObject, BeginString,
         NoKey, StringTakes, StringFails, StringEnds, ElementReturns, KeyReturns,
         MemberReturns, DecodeReturns
    <2>2. PICK g, gv : Tracks(g, gv)
      BY <2>1 DEF ParseInv
    <2> QED
      BY <1>3, <2>2, TracksStart, TracksWord, TracksNumber, TracksArray, TracksObject,
         TracksString, TracksNoKey, TracksTakes, TracksStringFails, TracksStringEnds,
         TracksElement, TracksKey, TracksMember, TracksDecode DEF Next
  <1> QED
    BY <1>1, <1>2, <1>3

(* It holds at the start: the whole text is expected.                      *)
LEMMA ParseInit ==
    Init => ParseInv
  <1> SUFFICES ASSUME Init
               PROVE  ParseInv
    OBVIOUS
  <1>1. text \in Text /\ pc = "start" /\ s = 1 /\ stack = << >>
    BY TextsAssumption DEF Init, Text
  <1>2. Shadow(stack, << >>, out)
    <2>1. Len(<< >>) = 0 /\ \A k \in 1 .. 0 : FALSE
      OBVIOUS
    <2> QED
      BY <1>1, <2>1 DEF Shadow, IsStack
  <1>3. \A tot : TextMeans(text, tot) <=> Expects(text, pc, << >>, NoValue, s, tot)
    <2>1. \A tot : TextMeans(text, tot) <=> Awaits(text, << >>, 1, tot)
      BY <1>1, AwaitsWhole DEF TextMeans
    <2>2. \A tot : Expects(text, "start", << >>, NoValue, 1, tot) <=> Awaits(text, << >>, 1, tot)
      BY ExpectsIs
    <2> QED
      BY <1>1, <2>1, <2>2
  <1>4. Tracks(<< >>, NoValue)
    BY <1>1, <1>2, <1>3 DEF Tracks
  <1> QED
    BY <1>4 DEF ParseInv

(* json_decode accepts what the grammar gives a meaning, with that meaning *)
(* as its tree, and json_validate accepts the same texts, whatever the     *)
(* text.                                                                   *)
THEOREM DecodesCorrect == Spec => []DecodesJson
  <1>1. Inv /\ ParseInv => DecodesJson
    <2> SUFFICES ASSUME Inv, ParseInv, Ended
                 PROVE  LET means == Means[<< "value", text >>]
                        IN  /\ pc = "accepted" <=> means # {}
                            /\ pc = "accepted" /\ out => means = {value}
      BY DEF DecodesJson
    <2> DEFINE means == Means[<< "value", text >>]
    <2>1. \A tot : TextMeans(text, tot) <=> tot \in means
      <3>1. text \in Text
        BY DEF Inv, PosInv, Text
      <3>2. text = Piece(text, 1, Len(text))
        BY <3>1, Whole
      <3> QED
        BY <3>2 DEF TextMeans, MeansValue
    <2> HIDE DEF means
    <2>2. CASE pc = "refused"
      <3>1. \A tot : tot \notin means
        BY <2>1, <2>2, GivenUp
      <3> QED
        BY <2>2, <3>1 DEF means
    <2>3. CASE pc = "accepted"
      <3>1. PICK g, gv : Tracks(g, gv)
        BY <2>3 DEF ParseInv
      <3>2. \A tot : tot \in means <=> tot = gv
        BY <2>1, <2>3, <3>1, ExpectsIs DEF Tracks
      <3>3. means = {gv} /\ (out => value = gv)
        BY <2>3, <3>1, <3>2 DEF Tracks
      <3> QED
        BY <2>3, <3>3 DEF means
    <2> QED
      BY <2>2, <2>3 DEF Ended
  <1>2. Inv /\ ParseInv /\ [Next]_vars => Inv' /\ ParseInv'
    BY InvStep, ParseStep
  <1>3. Init => ParseInv
    BY ParseInit
  <1> QED
    BY <1>1, <1>2, <1>3, ParseStep, InvAlways, PTL DEF Spec
=============================================================================
