----------------------------- MODULE JsonParse -----------------------------
(***************************************************************************)
(* json_decode and json_validate of json.c: a recursive descent over the   *)
(* bytes of a text.  The calls of parse_array, parse_object and            *)
(* parse_string that are running are a stack; one step is one iteration of *)
(* their loops, or what happens when a call returns.                       *)
(*                                                                         *)
(* What the parser allocates (nodes and strings) is numbered, and every    *)
(* frame says what it owns, so that the failure paths can be checked.      *)
(* A number stands for its text: strtod is not modelled.                   *)
(***************************************************************************)
EXTENDS Unicode

CONSTANT Texts     \* the texts to parse

ASSUME TextsAssumption == Texts \subseteq Seq(1 .. 255)

VARIABLES
    text,       \* the text
    out,        \* is a tree wanted?  json_decode: yes; json_validate: no
    pc,         \* what comes next
    s,          \* the position reached in the text
    stack,      \* the calls that are running, the innermost first
    value,      \* what the last call that returned delivers
    gift,       \* what was allocated for it
    made,       \* how much has been allocated
    live,       \* what of that is not freed
    far         \* the farthest position ever looked at

vars == << text, out, pc, s, stack, value, gift, made, live, far >>

Quote == 34
Backslash == 92
Slash == 47
Comma == 44
Colon == 58
OpenBracket == 91
CloseBracket == 93
OpenBrace == 123
CloseBrace == 125
Minus == 45
Plus == 43
Dot == 46
Zero == 48
Digits == 48 .. 57
Spaces == {9, 10, 13, 32}

(* The text ends with a NUL. *)
ByteAt(t, n) == IF n \in 1 .. Len(t) THEN t[n] ELSE 0
At(n) == ByteAt(text, n)

NoValue == [tag |-> "NONE"]

(* New numbers for n objects. *)
New(n) == IF out THEN made + 1 .. made + n ELSE {}
Allocates(n) == made' = IF out THEN made + n ELSE made

Looks(n) == far' = IF n > far THEN n ELSE far

AfterAll(t, n, class) == Min({m \in n .. Len(t) + 1 : ByteAt(t, m) \notin class})
AfterSpace(n) == AfterAll(text, n, Spaces)

-----------------------------------------------------------------------------
(* parse_number: where it stops in t, and whether it found a number. *)
parse_number(t, n) ==
    LET digits(k) == [ok |-> ByteAt(t, k) \in Digits, end |-> AfterAll(t, k, Digits)]
        start == IF ByteAt(t, n) = Minus THEN n + 1 ELSE n
        whole == IF ByteAt(t, start) = Zero THEN [ok |-> TRUE, end |-> start + 1]
                 ELSE digits(start)
        fraction == IF whole.ok /\ ByteAt(t, whole.end) = Dot
                    THEN digits(whole.end + 1) ELSE whole
        signed == ByteAt(t, fraction.end + 1) \in {Plus, Minus}
    IN  IF fraction.ok /\ ByteAt(t, fraction.end) \in {69, 101}
        THEN digits(fraction.end + (IF signed THEN 2 ELSE 1))
        ELSE fraction

(* The escapes of one letter:  " \ / b f n r t  *)
Plain == {Quote, Backslash, Slash}
Letters == {98, 102, 110, 114, 116}
Meant(c) ==
    IF c = 98 THEN 8 ELSE IF c = 102 THEN 12 ELSE IF c = 110 THEN 10
    ELSE IF c = 114 THEN 13 ELSE IF c = 116 THEN 9 ELSE c

(* One iteration of parse_string at b: how many bytes it takes (0 when it  *)
(* refuses), what it writes, and how many bytes it looks at.               *)
Refused(looks) == [len |-> 0, put |-> << >>, looks |-> looks]
Taken(len, put) == [len |-> len, put |-> put, looks |-> len]

(* A C string cannot hold U+0000.  The mistake: it may. *)
DisallowedNone(u) == FALSE
Disallowed(u) == u = 0

Escape(b) ==
    LET uc == parse_hex16(b, 2)
        lc == parse_hex16(b, 8)
        pair == from_surrogate_pair(uc.val, lc.val)
    IN  IF b[2] \in Plain \cup Letters THEN Taken(2, << Meant(b[2]) >>)
        ELSE IF b[2] # 117 THEN Refused(2)
        ELSE IF uc.val = None THEN Refused(uc.looks)
        ELSE IF Disallowed(uc.val) THEN Refused(6)
        ELSE IF uc.val \notin Surrogates THEN Taken(6, utf8_write_char(uc.val))
        ELSE IF b[7] # Backslash THEN Refused(7)
        ELSE IF b[8] # 117 THEN Refused(8)
        ELSE IF lc.val = None THEN Refused(lc.looks)
        ELSE IF pair = None THEN Refused(12)
        ELSE Taken(12, utf8_write_char(pair))

Unit(b) ==
    IF b[1] = Backslash THEN Escape(b)
    ELSE IF b[1] <= 31 THEN Refused(1)
    ELSE LET len == utf8_validate_cz(b)
         IN  IF len = 0 THEN Refused(utf8_looks(b))
             ELSE Taken(len, [k \in 1 .. len |-> b[k]])

(* sb_need(&sb, need) and sb_grow: the room of a buffer of that length.    *)
(* No need here exceeds the first room, so the loop of sb_grow doubles     *)
(* once.  The mistake: the test is one byte off.                           *)
sb_needLate(room, length, need) ==
    IF room - length >= need - 1 THEN room ELSE 2 * room

sb_need(room, length, need) == IF room - length >= need THEN room ELSE 2 * room

-----------------------------------------------------------------------------
Init ==
    /\ text \in Texts /\ out \in BOOLEAN
    /\ pc = "start" /\ s = 1 /\ stack = << >>
    /\ value = NoValue /\ gift = {}
    /\ made = 0 /\ live = {} /\ far = 1

Top == Head(stack)

(* A call returns true, with a value at the position after it; or false.   *)
Returns(to, v, owns, at) ==
    pc' = to /\ value' = (IF out THEN v ELSE NoValue) /\ gift' = owns /\ s' = at
Fails == pc' = "fail" /\ value' = NoValue /\ gift' = {} /\ UNCHANGED s
Continues(at, there) == pc' = at /\ value' = NoValue /\ gift' = {} /\ s' = there

Start ==
    /\ pc = "start"
    /\ Continues("value", AfterSpace(s)) /\ Looks(AfterSpace(s))
    /\ UNCHANGED << text, out, stack, made, live >>

(* null, false and true. *)
Words == {[word |-> << 110, 117, 108, 108 >>, value |-> [tag |-> "NULL"]],
          [word |-> << 102, 97, 108, 115, 101 >>,
           value |-> [tag |-> "BOOL", bool_ |-> FALSE]],
          [word |-> << 116, 114, 117, 101 >>,
           value |-> [tag |-> "BOOL", bool_ |-> TRUE]]}

ParseWord ==
    /\ pc = "value"
    /\ \E w \in Words :
         LET wrong == {k \in 1 .. Len(w.word) : At(s + k - 1) # w.word[k]}
         IN  /\ At(s) = w.word[1]
             /\ \/ /\ wrong = {}
                   /\ Returns("return", w.value, New(1), s + Len(w.word))
                   /\ Allocates(1) /\ live' = live \cup New(1)
                   /\ Looks(s + Len(w.word) - 1)
                \/ /\ wrong # {}
                   /\ Fails /\ Looks(s + Min(wrong) - 1)
                   /\ UNCHANGED << made, live >>
    /\ UNCHANGED << text, out, stack >>

ParseNumber ==
    /\ pc = "value"
    /\ At(s) \notin {Quote, OpenBracket, OpenBrace} \cup {w.word[1] : w \in Words}
    /\ LET n == parse_number(text, s)
       IN  /\ \/ /\ n.ok
                 /\ Returns("return",
                            [tag |-> "NUMBER", number_ |-> SubSeq(text, s, n.end - 1)],
                            New(1), n.end)
                 /\ Allocates(1) /\ live' = live \cup New(1)
              \/ ~n.ok /\ Fails /\ UNCHANGED << made, live >>
           /\ Looks(n.end)
    /\ UNCHANGED << text, out, stack >>

(* parse_array and parse_object begin; [] and {} end at once. *)
BeginArray ==
    /\ pc = "value" /\ At(s) = OpenBracket
    /\ Allocates(1) /\ live' = live \cup New(1)
    /\ LET first == AfterSpace(s + 1)
       IN  /\ \/ /\ At(first) = CloseBracket
                 /\ Returns("return", [tag |-> "ARRAY", kids |-> << >>], New(1),
                            first + 1)
                 /\ UNCHANGED stack
              \/ /\ At(first) # CloseBracket
                 /\ stack' = << [fn |-> "array", kids |-> << >>, owns |-> New(1)] >>
                             \o stack
                 /\ Continues("value", first)
           /\ Looks(first)
    /\ UNCHANGED << text, out >>

BeginObject ==
    /\ pc = "value" /\ At(s) = OpenBrace
    /\ Allocates(1) /\ live' = live \cup New(1)
    /\ LET first == AfterSpace(s + 1)
       IN  /\ \/ /\ At(first) = CloseBrace
                 /\ Returns("return", [tag |-> "OBJECT", kids |-> << >>], New(1),
                            first + 1)
                 /\ UNCHANGED stack
              \/ /\ At(first) # CloseBrace
                 /\ stack' = << [fn |-> "object", kids |-> << >>, owns |-> New(1),
                                 key |-> << >>, held |-> {}] >> \o stack
                 /\ Continues("key", first)
           /\ Looks(first)
    /\ UNCHANGED << text, out >>

(* parse_string begins: for a value or a key. *)
BeginString ==
    /\ pc \in {"value", "key"} /\ At(s) = Quote
    /\ Allocates(1) /\ live' = live \cup New(1)
    /\ stack' = << [fn |-> "string", of |-> pc, buf |-> << >>,
                    room |-> IF out THEN 16 ELSE 4, owns |-> New(1)] >> \o stack
    /\ Continues("string", s + 1) /\ Looks(s)
    /\ UNCHANGED << text, out >>

NoKey ==
    /\ pc = "key" /\ At(s) # Quote
    /\ Fails /\ Looks(s)
    /\ UNCHANGED << text, out, stack, made, live >>

Window == [k \in 1 .. 12 |-> At(s + k - 1)]

(* Without a tree every character is written to the same four bytes. *)
StringTakes ==
    /\ pc = "string" /\ At(s) # Quote
    /\ LET u == Unit(Window)
           buf == IF out THEN Top.buf \o u.put ELSE u.put
       IN  /\ u.len > 0
           /\ stack' = << [Top EXCEPT !.buf = buf,
                                      !.room = IF out THEN sb_need(@, Len(buf), 4)
                                               ELSE @] >> \o Tail(stack)
           /\ Continues("string", s + u.len) /\ Looks(s + u.looks - 1)
    /\ UNCHANGED << text, out, made, live >>

StringFails ==
    /\ pc = "string" /\ At(s) # Quote
    /\ LET u == Unit(Window)
       IN  u.len = 0 /\ Looks(s + u.looks - 1)
    /\ live' = live \ Top.owns
    /\ stack' = Tail(stack)
    /\ Fails
    /\ UNCHANGED << text, out, made >>

StringEnds ==
    /\ pc = "string" /\ At(s) = Quote
    /\ stack' = Tail(stack)
    /\ LET str == [tag |-> "STRING", string_ |-> Top.buf]
       IN  \/ /\ Top.of = "key"
              /\ Returns("colon", str, Top.owns, s + 1)
              /\ UNCHANGED << made, live >>
           \/ /\ Top.of = "value"
              /\ Returns("return", str, Top.owns \cup New(1), s + 1)
              /\ Allocates(1) /\ live' = live \cup New(1)
    /\ Looks(s)
    /\ UNCHANGED << text, out >>

(* An element has been parsed; it goes into the array before the code      *)
(* looks what follows.                                                     *)
ElementReturns ==
    /\ pc = "return" /\ stack # << >> /\ Top.fn = "array"
    /\ LET next == AfterSpace(s)
           kids == IF out THEN Append(Top.kids, value) ELSE Top.kids
           owns == Top.owns \cup gift
           grown == << [Top EXCEPT !.kids = kids, !.owns = owns] >> \o Tail(stack)
       IN  \/ /\ At(next) = CloseBracket
              /\ stack' = Tail(stack)
              /\ Returns("return", [tag |-> "ARRAY", kids |-> kids], owns, next + 1)
              /\ Looks(next)
           \/ /\ At(next) = Comma
              /\ stack' = grown
              /\ Continues("value", AfterSpace(next + 1))
              /\ Looks(AfterSpace(next + 1))
           \/ /\ At(next) \notin {CloseBracket, Comma}
              /\ stack' = grown /\ Fails /\ Looks(next)
    /\ UNCHANGED << text, out, made, live >>

(* The name of a member has been parsed. *)
KeyReturns ==
    /\ pc = "colon"
    /\ stack' = << [Top EXCEPT !.key = IF out THEN value.string_ ELSE @,
                               !.held = gift] >> \o Tail(stack)
    /\ LET next == AfterSpace(s)
       IN  \/ /\ At(next) = Colon
              /\ Continues("value", AfterSpace(next + 1))
              /\ Looks(AfterSpace(next + 1))
           \/ At(next) # Colon /\ Fails /\ Looks(next)
    /\ UNCHANGED << text, out, made, live >>

(* The value of a member has been parsed: name and value go into the tree. *)
MemberReturns ==
    /\ pc = "return" /\ stack # << >> /\ Top.fn = "object"
    /\ LET next == AfterSpace(s)
           kids == IF out THEN Append(Top.kids, [key |-> Top.key, value |-> value])
                   ELSE Top.kids
           owns == Top.owns \cup Top.held \cup gift
           grown == << [Top EXCEPT !.kids = kids, !.owns = owns, !.held = {}] >>
                    \o Tail(stack)
       IN  \/ /\ At(next) = CloseBrace
              /\ stack' = Tail(stack)
              /\ Returns("return", [tag |-> "OBJECT", kids |-> kids], owns, next + 1)
              /\ Looks(next)
           \/ /\ At(next) = Comma
              /\ stack' = grown
              /\ Continues("key", AfterSpace(next + 1))
              /\ Looks(AfterSpace(next + 1))
           \/ /\ At(next) \notin {CloseBrace, Comma}
              /\ stack' = grown /\ Fails /\ Looks(next)
    /\ UNCHANGED << text, out, made, live >>

(* The failure labels: the array or object goes, with what is in it, and   *)
(* a name that has no value yet.                                           *)
ArrayFails ==
    /\ pc = "fail" /\ stack # << >> /\ Top.fn = "array"
    /\ live' = live \ Top.owns
    /\ stack' = Tail(stack) /\ Fails
    /\ UNCHANGED << text, out, made, far >>

(* The mistake: label failure instead of failure_free_key. *)
ObjectFailsKeepsKey ==
    /\ pc = "fail" /\ stack # << >> /\ Top.fn = "object"
    /\ live' = live \ Top.owns
    /\ stack' = Tail(stack) /\ Fails
    /\ UNCHANGED << text, out, made, far >>

ObjectFails ==
    /\ pc = "fail" /\ stack # << >> /\ Top.fn = "object"
    /\ live' = live \ (Top.owns \cup Top.held)
    /\ stack' = Tail(stack) /\ Fails
    /\ UNCHANGED << text, out, made, far >>

(* Back in json_decode: nothing but space may follow the value. *)
DecodeReturns ==
    /\ pc = "return" /\ stack = << >>
    /\ LET next == AfterSpace(s)
       IN  /\ \/ /\ At(next) = 0
                 /\ pc' = "accepted" /\ UNCHANGED << value, gift, live >>
              \/ /\ At(next) # 0
                 /\ pc' = "refused" /\ live' = live \ gift
                 /\ value' = NoValue /\ gift' = {}
           /\ Looks(next)
    /\ UNCHANGED << text, out, s, stack, made >>

DecodeFails ==
    /\ pc = "fail" /\ stack = << >>
    /\ pc' = "refused"
    /\ UNCHANGED << text, out, s, stack, value, gift, made, live, far >>

Next ==
    \/ Start
    \/ ParseWord \/ ParseNumber \/ BeginArray \/ BeginObject \/ BeginString
    \/ NoKey \/ StringTakes \/ StringFails \/ StringEnds
    \/ ElementReturns \/ KeyReturns \/ MemberReturns
    \/ ArrayFails \/ ObjectFails
    \/ DecodeReturns \/ DecodeFails

Spec == Init /\ [][Next]_vars

-----------------------------------------------------------------------------
(* Shapes of the variables; a call of parse_string is the innermost one.   *)
Ids == 1 .. made

FrameOK(f) ==
    \/ /\ f.fn = "array"
       /\ DOMAIN f = {"fn", "kids", "owns"}
    \/ /\ f.fn = "object"
       /\ DOMAIN f = {"fn", "kids", "owns", "key", "held"}
       /\ f.held \subseteq Ids
    \/ /\ f.fn = "string"
       /\ DOMAIN f = {"fn", "of", "buf", "room", "owns"}
       /\ f.of \in {"value", "key"} /\ f.buf \in Seq(1 .. 255) /\ f.room \in Nat

TypeOK ==
    /\ text \in Seq(1 .. 255) /\ out \in BOOLEAN
    /\ pc \in {"start", "value", "string", "key", "colon", "return", "fail",
              "accepted", "refused"}
    /\ s \in 1 .. Len(text) + 1
    /\ made \in Nat /\ live \subseteq Ids /\ gift \subseteq Ids
    /\ \A k \in DOMAIN stack : FrameOK(stack[k]) /\ stack[k].owns \subseteq Ids
    /\ pc \in {"string", "key", "colon"} => stack # << >>
    /\ pc \in {"key", "colon"} => Top.fn = "object"
    /\ \A k \in DOMAIN stack : stack[k].fn = "string" <=> k = 1 /\ pc = "string"

(* What is allocated belongs to one call that is running or to the value   *)
(* on its way up, so nothing leaks and nothing is freed twice, wherever a  *)
(* text breaks off (the labels failure and failure_free_key).              *)
Owned(f) == IF f.fn = "object" THEN f.owns \cup f.held ELSE f.owns

NothingLeaks ==
    /\ live = gift \cup UNION {Owned(stack[k]) : k \in DOMAIN stack}
    /\ \A j, k \in DOMAIN stack : j # k => Owned(stack[j]) \cap Owned(stack[k]) = {}
    /\ \A k \in DOMAIN stack : Owned(stack[k]) \cap gift = {}
    /\ pc = "refused" => live = {}

(* No byte behind the NUL is looked at, wherever a text breaks off (within *)
(* a character, an escape, a pair of escapes, a word or a number).         *)
ReadsInside == far <= Len(text) + 1

(* A character fits into the room parse_string keeps for it, with a tree   *)
(* in the string buffer and without in throwaway_buffer.                   *)
BufferHolds ==
    [][pc = "string" /\ pc' = "string" => Len(stack'[1].buf) <= Top.room]_vars
=============================================================================
