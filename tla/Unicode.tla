------------------------------ MODULE Unicode ------------------------------
(***************************************************************************)
(* The helpers of json.c for UTF-8, UTF-16 and hexadecimal.  A byte is     *)
(* 0 .. 255; b is a function to bytes, b[1] the one the pointer is at.     *)
(* Each reader says how many bytes it looks at, because the bytes after    *)
(* the NUL that ends a text are not the text's.                            *)
(***************************************************************************)
EXTENDS Integers, Sequences, FiniteSetsExt

Surrogates == 55296 .. 57343                   \* D800 .. DFFF
Scalars == (0 .. 1114111) \ Surrogates         \* up to 10FFFF

Continuation == 128 .. 191

(* The mistake: ED is like any other first byte. *)
FollowerSurrogates(first, k) ==
    IF k # 2 THEN Continuation
    ELSE IF first = 224 THEN 160 .. 191
    ELSE IF first = 240 THEN 144 .. 191
    ELSE IF first = 244 THEN 128 .. 143
    ELSE Continuation

(* The bytes that may follow the first one, by position. *)
Follower(first, k) ==
    IF k # 2 THEN Continuation
    ELSE IF first = 224 THEN 160 .. 191    \* E0: no overlong forms
    ELSE IF first = 237 THEN 128 .. 159    \* ED: no surrogates
    ELSE IF first = 240 THEN 144 .. 191    \* F0: no overlong forms
    ELSE IF first = 244 THEN 128 .. 143    \* F4: not beyond 10FFFF
    ELSE Continuation

Promised(first) ==
    IF first <= 127 THEN 1
    ELSE IF first \in 194 .. 223 THEN 2
    ELSE IF first \in 224 .. 239 THEN 3
    ELSE IF first \in 240 .. 244 THEN 4
    ELSE 0

Misplaced(b) == {k \in 2 .. Promised(b[1]) : b[k] \notin Follower(b[1], k)}

(* The length of the character, 0 if there is none. *)
utf8_validate_cz(b) == IF Misplaced(b) = {} THEN Promised(b[1]) ELSE 0

(* It stops at the first byte that does not fit.  The mistake: it looks at *)
(* all the bytes there should be.                                          *)
utf8_looksAhead(b) == IF Promised(b[1]) = 0 THEN 1 ELSE Promised(b[1])

utf8_looks(b) ==
    IF Promised(b[1]) = 0 THEN 1
    ELSE IF Misplaced(b) = {} THEN Promised(b[1]) ELSE Min(Misplaced(b))

utf8_write_char(u) ==
    IF u <= 127 THEN << u >>
    ELSE IF u <= 2047 THEN << 192 + (u \div 64), 128 + (u % 64) >>
    ELSE IF u <= 65535
    THEN << 224 + (u \div 4096), 128 + ((u \div 64) % 64), 128 + (u % 64) >>
    ELSE << 240 + (u \div 262144), 128 + ((u \div 4096) % 64),
            128 + ((u \div 64) % 64), 128 + (u % 64) >>

-----------------------------------------------------------------------------
None == -1

from_surrogate_pair(uc, lc) ==
    IF uc \in 55296 .. 56319 /\ lc \in 56320 .. 57343
    THEN 65536 + (uc % 1024) * 1024 + (lc % 1024)
    ELSE None

HexDigit == [c \in (48 .. 57) \cup (65 .. 70) \cup (97 .. 102) |->
               IF c <= 57 THEN c - 48 ELSE IF c <= 70 THEN c - 55 ELSE c - 87]

(* The four digits after b[n]. *)
parse_hex16(b, n) ==
    LET wrong == {k \in 1 .. 4 : b[n + k] \notin DOMAIN HexDigit}
        digit(k) == HexDigit[b[n + k]]
    IN  IF wrong # {} THEN [val |-> None, looks |-> n + Min(wrong)]
        ELSE [val |-> ((digit(1) * 16 + digit(2)) * 16 + digit(3)) * 16 + digit(4),
              looks |-> n + 4]

write_hex16(val) ==
    LET hex(d) == IF d < 10 THEN 48 + d ELSE 55 + d
    IN  << hex(val \div 4096), hex((val \div 256) % 16), hex((val \div 16) % 16),
           hex(val % 16) >>
-----------------------------------------------------------------------------
(* For reference: the scalar value a sequence of bytes stands for in UTF-8 *)
(* (RFC 3629, which json.c names).                                         *)
Bits6(t, k) == t[k] % 64
CodePoint(t) ==
    IF Len(t) = 1 THEN t[1]
    ELSE IF Len(t) = 2 THEN (t[1] % 32) * 64 + Bits6(t, 2)
    ELSE IF Len(t) = 3 THEN (t[1] % 16) * 4096 + Bits6(t, 2) * 64 + Bits6(t, 3)
    ELSE (t[1] % 8) * 262144 + Bits6(t, 2) * 4096 + Bits6(t, 3) * 64 + Bits6(t, 4)

IsUtf8(t) ==
    /\ Len(t) \in 1 .. 4
    /\ t[1] \in << 0 .. 127, 192 .. 223, 224 .. 239, 240 .. 247 >>[Len(t)]
    /\ \A k \in 2 .. Len(t) : t[k] \in 128 .. 191
    /\ CodePoint(t) >= << 0, 128, 2048, 65536 >>[Len(t)]
    /\ CodePoint(t) <= << 127, 2047, 65535, 1114111 >>[Len(t)]
    /\ CodePoint(t) \notin Surrogates
=============================================================================
