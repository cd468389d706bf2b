---------------------------- MODULE JsonGrammar ----------------------------
(***************************************************************************)
(* The grammar of JSON that json_decode is checked against: what a text    *)
(* means, as the set of its trees.  It divides a text at any place, where  *)
(* the parser goes from left to right.                                     *)
(***************************************************************************)
EXTENDS JsonParse

Text == Seq(1 .. 255)

Parts(t) == {<< SubSeq(t, 1, k), SubSeq(t, k + 1, Len(t)) >> : k \in 0 .. Len(t)}

Blank(t) == \A k \in DOMAIN t : t[k] \in Spaces
Numeral(t) == t # << >> /\ \A k \in DOMAIN t : t[k] \in Digits

Starts(t, bytes) == t # << >> /\ t[1] \in bytes
Without(t, bytes) == IF Starts(t, bytes) THEN Tail(t) ELSE t

IsWhole(t) ==
    LET digits == Without(t, {Minus})
    IN  Numeral(digits) /\ (digits[1] = Zero => Len(digits) = 1)
IsFraction(t) == t = << >> \/ (Starts(t, {Dot}) /\ Numeral(Tail(t)))
IsExponent(t) ==
    t = << >> \/ (Starts(t, {69, 101}) /\ Numeral(Without(Tail(t), {Plus, Minus})))

IsNumber(t) ==
    \E p \in Parts(t) : \E q \in Parts(p[2]) :
        IsWhole(p[1]) /\ IsFraction(q[1]) /\ IsExponent(q[2])

(* \uXXXX, as a number. *)
IsHex(t) ==
    /\ Len(t) = 6 /\ t[1] = Backslash /\ t[2] = 117
    /\ \A k \in 3 .. 6 : t[k] \in Digits \cup (65 .. 70) \cup (97 .. 102)
Hex(t) ==
    LET digit(k) == IF t[k] \in Digits THEN t[k] - 48 ELSE (t[k] % 32) + 9
    IN  4096 * digit(3) + 256 * digit(4) + 16 * digit(5) + digit(6)

ShortEscapes ==
    {<< 34, 34 >>, << 92, 92 >>, << 47, 47 >>, << 98, 8 >>, << 102, 12 >>,
     << 110, 10 >>, << 114, 13 >>, << 116, 9 >>}

(* One character within quotes.  A tree holds C strings of scalar values,  *)
(* so neither U+0000 nor half a surrogate pair means anything.             *)
IsBare(t) == IsUtf8(t) /\ t[1] > 31 /\ t[1] \notin {Quote, Backslash}
IsPair(t) ==
    /\ Len(t) = 12 /\ IsHex(SubSeq(t, 1, 6)) /\ IsHex(SubSeq(t, 7, 12))
    /\ Hex(SubSeq(t, 1, 6)) - 55296 \in 0 .. 1023
    /\ Hex(SubSeq(t, 7, 12)) - 56320 \in 0 .. 1023

UnitMeans(t) ==
    CASE IsBare(t) -> {t}
      [] IsHex(t)  -> IF Hex(t) \in Surrogates \cup {0} THEN {}
                      ELSE {utf8_write_char(Hex(t))}
      [] IsPair(t) -> {utf8_write_char(65536 + 1024 * (Hex(SubSeq(t, 1, 6)) - 55296)
                                             + Hex(SubSeq(t, 7, 12)) - 56320)}
      [] OTHER     -> {<< e[2] >> : e \in {e \in ShortEscapes :
                                              t = << Backslash, e[1] >>}}

Trimmed(t) ==
    IF Blank(t) THEN << >>
    ELSE LET inked == {k \in DOMAIN t : t[k] \notin Spaces}
         IN  SubSeq(t, Min(inked), Max(inked))

(* The parts of t before and after a byte. *)
Around(t, byte) ==
    {<< SubSeq(t, 1, k - 1), SubSeq(t, k + 1, Len(t)) >> :
        k \in {k \in DOMAIN t : t[k] = byte}}

(* What a text means as characters, as a value, as elements or as members  *)
(* of a collection, given what shorter texts mean, and the same text as a  *)
(* value.                                                                  *)
CharactersMean(t, means) ==
    IF t = << >> THEN {<< >>}
    ELSE UNION {{u \o r : u \in UnitMeans(p[1]), r \in means[<< "characters", p[2] >>]} :
                   p \in {p \in Parts(t) : Len(p[1]) \in 1 .. 12 /\ UnitMeans(p[1]) # {}}}

ElementsMean(t, means) ==
    {<< v >> : v \in means[<< "value", t >>]}
        \cup UNION {{<< v >> \o r : v \in means[<< "value", p[1] >>],
                                   r \in means[<< "elements", p[2] >>]} :
                       p \in Around(t, Comma)}

Between(t, open, close) == Len(t) >= 2 /\ t[1] = open /\ t[Len(t)] = close
Within(t) == SubSeq(t, 2, Len(t) - 1)

StringMeans(t, means) ==
    IF Between(t, Quote, Quote) THEN means[<< "characters", Within(t) >>] ELSE {}

MemberMeans(t, means) ==
    UNION {{[key |-> k, value |-> v] :
              k \in StringMeans(Trimmed(p[1]), means), v \in means[<< "value", p[2] >>]} :
             p \in Around(t, Colon)}

MembersMean(t, means) ==
    {<< m >> : m \in MemberMeans(t, means)}
        \cup UNION {{<< m >> \o r : m \in MemberMeans(p[1], means),
                                   r \in means[<< "members", p[2] >>]} :
                       p \in Around(t, Comma)}

Collection(t, tag, kids) ==
    {[tag |-> tag, kids |-> k] :
        k \in kids \cup (IF Blank(Within(t)) THEN {<< >>} ELSE {})}

ValueMeans(t, means) ==
    {w.value : w \in {w \in Words : w.word = t}}
        \cup {[tag |-> "NUMBER", number_ |-> n] : n \in {n \in {t} : IsNumber(n)}}
        \cup {[tag |-> "STRING", string_ |-> b] : b \in StringMeans(t, means)}
        \cup (IF Between(t, OpenBracket, CloseBracket)
              THEN Collection(t, "ARRAY", means[<< "elements", Within(t) >>]) ELSE {})
        \cup (IF Between(t, OpenBrace, CloseBrace)
              THEN Collection(t, "OBJECT", means[<< "members", Within(t) >>]) ELSE {})

Kinds == {"characters", "value", "elements", "members"}

Meaning(kind, t, means) ==
    IF kind = "characters" THEN CharactersMean(t, means)
    ELSE IF kind = "value" THEN ValueMeans(Trimmed(t), means)
    ELSE IF kind = "elements" THEN ElementsMean(t, means)
    ELSE MembersMean(t, means)

Means[x \in Kinds \X Text] == Meaning(x[1], x[2], Means)

-----------------------------------------------------------------------------
(* json_decode accepts what the grammar gives a meaning, and its tree is   *)
(* that meaning; json_validate accepts the same texts.                     *)
Ended == pc \in {"accepted", "refused"}

DecodesJson ==
    Ended =>
        LET means == Means[<< "value", text >>]
        IN  /\ pc = "accepted" <=> means # {}
            /\ pc = "accepted" /\ out => means = {value}
=============================================================================
