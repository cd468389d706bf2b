----------------------------- MODULE MCJsonText -----------------------------
(***************************************************************************)
(* An instance of JsonText for TLC: trees with every kind of value and     *)
(* character, what is written of them, and texts one byte away from a      *)
(* correct one.                                                            *)
(***************************************************************************)
EXTENDS JsonText

Str(bytes) == [tag |-> "STRING", string_ |-> bytes]
Num(bytes) == [tag |-> "NUMBER", number_ |-> bytes]
Array(kids) == [tag |-> "ARRAY", kids |-> kids]
Object(kids) == [tag |-> "OBJECT", kids |-> kids]
Member(key, node) == [key |-> key, value |-> node]

(* Characters at every border: controls, quotes, one to four bytes. *)
Characters ==
    {<< c >> : c \in {1, 8, 9, 10, 12, 13, 30, 31, 32, 34, 47, 92, 97, 127}}
        \cup {utf8_write_char(u) : u \in {128, 2047, 2048, 55295, 57344, 65535,
                                          65536, 1114111}}

(* Thirteen letters leave parse_string three bytes before it needs more. *)
Long == [k \in 1 .. 13 |-> 97]

Simple ==
    {[tag |-> "NULL"], [tag |-> "BOOL", bool_ |-> TRUE], [tag |-> "BOOL", bool_ |-> FALSE]}
        \cup {Str(c) : c \in Characters \cup {<< >>}}
        \cup {Str(c \o d) : c, d \in {<< 9 >>, << 34 >>, << 92 >>, << 110 >>, << 195, 169 >>}}
        \cup {Str(SubSeq(Long, 1, k) \o c) : k \in 11 .. 13, c \in Characters}
        \cup {Num(n) : n \in {<< 48 >>, << 45, 48 >>, << 49, 46, 53 >>,
                              << 49, 101, 43, 50, 50 >>, << 105, 110, 102 >>,
                              << 45, 110, 97, 110 >>}}

Few == {[tag |-> "NULL"], Str(<< 34 >>), Str(<< 31 >>), Num(<< 45, 49 >>),
        Num(<< 110, 97, 110 >>), Array(<< >>), Object(<< >>)}

McTrees ==
    Simple \cup {Array(<< >>), Object(<< >>)}
        \cup {Array(<< a >>) : a \in Few} \cup {Array(<< a, b >>) : a, b \in Few}
        \cup {Object(<< Member(k, a), Member(<< 97 >>, b) >>) :
                k \in {<< >>, << 97 >>, << 92 >>, << 31 >>}, a, b \in Few}
        \cup {Array(<< Array(<< a >>), Object(<< Member(<< 97 >>, Array(<< b, a >>)) >>) >>) :
                a, b \in Few}

(* Texts that use much of the grammar, and what becomes of them when a     *)
(* byte is added, lost or changed.                                         *)
Seeds ==
    { \* {"a":[1,{}]}
      << 123, 34, 97, 34, 58, 91, 49, 44, 123, 125, 93, 125 >>,
      \* ["\ud834\udD1e"]
      << 91, 34, 92, 117, 100, 56, 51, 52, 92, 117, 100, 68, 49, 101, 34, 93 >>,
      \* ["\u00e9\n\/"]
      << 91, 34, 92, 117, 48, 48, 101, 57, 92, 110, 92, 47, 34, 93 >>,
      \* "\u0001"
      << 34, 92, 117, 48, 48, 48, 49, 34 >>,
      \* [true,"]"] with spaces
      << 32, 91, 116, 114, 117, 101, 44, 34, 93, 34, 9, 93, 10 >>,
      \* false, null, and numbers
      << 102, 97, 108, 115, 101 >>, << 110, 117, 108, 108 >>,
      << 45, 49, 46, 53, 69, 43, 49, 48 >>, << 48, 46, 48, 101, 49 >>,
      \* strings with characters of two, three and four bytes
      << 34, 195, 169, 224, 160, 128, 34 >>, << 34, 237, 159, 191, 34 >>,
      << 34, 240, 144, 128, 128, 34 >>, << 34, 244, 143, 191, 191, 34 >>,
      \* {"":0,"":""}
      << 123, 34, 34, 58, 48, 44, 34, 34, 58, 34, 34, 125 >> }

Bytes ==
    {9, 31, 34, 43, 44, 45, 46, 48, 49, 58, 68, 91, 92, 93, 97, 101, 110, 117, 123,
     125, 127, 128, 143, 144, 160, 191, 193, 194, 224, 237, 240, 244, 245, 255}

Edited(t) ==
    {t} \cup {SubSeq(t, 1, k - 1) : k \in 1 .. Len(t)}
        \cup {SubSeq(t, 1, k - 1) \o SubSeq(t, k + 1, Len(t)) : k \in 1 .. Len(t)}
        \cup {SubSeq(t, 1, k - 1) \o << c >> \o SubSeq(t, k, Len(t)) :
                k \in 1 .. Len(t) + 1, c \in Bytes}
        \cup {[t EXCEPT ![k] = c] : k \in 1 .. Len(t), c \in Bytes}

(* All short texts of brackets, separators, quotes, a digit and a space. *)
Short == UNION {[1 .. n -> {32, 34, 44, 49, 58, 91, 93, 123, 125}] : n \in 0 .. 4}

McTexts == Short \cup {w.text : w \in Written} \cup UNION {Edited(t) : t \in Seeds}
=============================================================================
