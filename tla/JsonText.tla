------------------------------ MODULE JsonText ------------------------------
(***************************************************************************)
(* What json_stringify writes, and what json_decode makes of it.           *)
(***************************************************************************)
EXTENDS JsonGrammar, SequencesExt

CONSTANTS
    Trees,     \* the trees that are written
    Depth      \* how deep they are, at most

-----------------------------------------------------------------------------
(* The strings of a tree are valid UTF-8, which the code asserts: every    *)
(* byte belongs to a character.                                            *)
Strings ==
    {t \in Text : \A i \in DOMAIN t : \E j \in 1 .. i : \E n \in 1 .. 4 :
        i < j + n /\ j + n <= Len(t) + 1 /\ IsUtf8(SubSeq(t, j, j + n - 1))}

(* number_ is what printf makes of a number: a text, or inf or nan.        *)
Leaves ==
    {w.value : w \in Words} \cup [tag : {"STRING"}, string_ : Strings]
                           \cup [tag : {"NUMBER"}, number_ : Text]

Arrays(nodes) == [tag : {"ARRAY"}, kids : Seq(nodes)]
Objects(nodes) == [tag : {"OBJECT"}, kids : Seq([key : Strings, value : nodes])]

(* The nodes with at most so many levels of collections. *)
Nodes[depth \in Nat] ==
    IF depth = 0 THEN Leaves
    ELSE Leaves \cup Arrays(Nodes[depth - 1]) \cup Objects(Nodes[depth - 1])

ASSUME TreesAssumption == Depth \in Nat /\ Trees \subseteq Nodes[Depth]

-----------------------------------------------------------------------------
(* emit_string: the bytes of a character of several bytes are written as   *)
(* they are.                                                               *)
EmitByteBare(c) ==    \* the mistake: a backslash is not escaped
    CASE c = Quote -> << Backslash, Quote >>
      [] c < 31    -> << Backslash, 117 >> \o write_hex16(c)
      [] OTHER     -> << c >>

EmitByte(c) ==
    CASE c \in {Quote, Backslash} -> << Backslash, c >>
      [] c = 8     -> << Backslash, 98 >>
      [] c = 9     -> << Backslash, 116 >>
      [] c = 10    -> << Backslash, 110 >>
      [] c = 12    -> << Backslash, 102 >>
      [] c = 13    -> << Backslash, 114 >>
      [] c \in (1 .. 30) \ {8, 9, 10, 12, 13} ->
           << Backslash, 117 >> \o write_hex16(c)
      [] c >= 31 /\ c \notin {Quote, Backslash} -> << c >>

emit_string(str) ==
    << Quote >> \o FlattenSeq([k \in DOMAIN str |-> EmitByte(str[k])]) \o << Quote >>

Word(v) == (CHOOSE w \in Words : w.value = v).word
Null == [tag |-> "NULL"]

number_is_valid(num) ==
    LET n == parse_number(num, 1) IN n.ok /\ n.end = Len(num) + 1

emit_number(num) == IF number_is_valid(num) THEN num ELSE Word(Null)

(* Texts in a row, with one between each two of them. *)
Separated(texts, between) ==
    FlattenSeq([k \in DOMAIN texts |->
                  IF k < Len(texts) THEN texts[k] \o between ELSE texts[k]])

(* What becomes of a collection, given what its children become. *)
emit_array(array, emitted) ==
    << OpenBracket >>
    \o Separated([k \in DOMAIN array.kids |-> emitted[array.kids[k]]], << Comma >>)
    \o << CloseBracket >>

emit_object(object, emitted) ==
    << OpenBrace >>
    \o Separated([k \in DOMAIN object.kids |->
                    emit_string(object.kids[k].key) \o << Colon >>
                      \o emitted[object.kids[k].value]], << Comma >>)
    \o << CloseBrace >>

emit_leaf(node) ==
    CASE node.tag \in {"NULL", "BOOL"} -> Word(node)
      [] node.tag = "STRING" -> emit_string(node.string_)
      [] node.tag = "NUMBER" -> emit_number(node.number_)

emit_node(node, emitted) ==
    CASE node.tag = "ARRAY"  -> emit_array(node, emitted)
      [] node.tag = "OBJECT" -> emit_object(node, emitted)
      [] OTHER               -> emit_leaf(node)

emit_value[depth \in Nat] ==
    [node \in Nodes[depth] |->
        emit_node(node, IF depth = 0 THEN {} ELSE emit_value[depth - 1])]

(* Every element on a line of its own, indented with JSON_SPACE. *)
Indent(level) == [k \in 1 .. 4 * level |-> 32]
Line == << 10 >>

Block(open, kids, close, level) ==
    IF kids = << >> THEN open \o close
    ELSE open \o Line
           \o Separated([k \in DOMAIN kids |-> Indent(level + 1) \o kids[k]],
                        << Comma >> \o Line)
           \o Line \o Indent(level) \o close

emit_array_indented(array, emitted, level) ==
    Block(<< OpenBracket >>,
          [k \in DOMAIN array.kids |-> emitted[array.kids[k]]],
          << CloseBracket >>, level)

emit_object_indented(object, emitted, level) ==
    Block(<< OpenBrace >>,
          [k \in DOMAIN object.kids |->
              emit_string(object.kids[k].key) \o << Colon, 32 >>
                \o emitted[object.kids[k].value]],
          << CloseBrace >>, level)

emit_node_indented(node, emitted, level) ==
    CASE node.tag = "ARRAY"  -> emit_array_indented(node, emitted, level)
      [] node.tag = "OBJECT" -> emit_object_indented(node, emitted, level)
      [] OTHER               -> emit_leaf(node)

(* The recursion starts at level 0 with the depth Depth, and each call     *)
(* adds a level and takes one from the depth.                              *)
emit_value_indented[depth \in Nat] ==
    [node \in Nodes[depth] |->
        emit_node_indented(node, IF depth = 0 THEN {} ELSE emit_value_indented[depth - 1],
                           Depth - depth)]

Written ==
    {[tree |-> t, text |-> emit_value[Depth][t]] : t \in Trees}
        \cup {[tree |-> t, text |-> emit_value_indented[Depth][t]] : t \in Trees}

-----------------------------------------------------------------------------
(* The tree that comes of reading what was written: inf and nan become     *)
(* null.  A string that holds U+001F is not read back: emit_string writes  *)
(* it as it is, and parse_string refuses it.                               *)
UnitSeparator == 31

IsReadable(node, readable) ==
    /\ node.tag = "STRING" => UnitSeparator \notin ToSet(node.string_)
    /\ node.tag = "ARRAY" => \A k \in DOMAIN node.kids : node.kids[k] \in readable
    /\ node.tag = "OBJECT" => \A k \in DOMAIN node.kids :
          UnitSeparator \notin ToSet(node.kids[k].key) /\ node.kids[k].value \in readable

Readable[depth \in Nat] ==
    {node \in Nodes[depth] :
        IsReadable(node, IF depth = 0 THEN {} ELSE Readable[depth - 1])}

IsReadAs(node, readAs) ==
    CASE node.tag = "NUMBER" -> IF IsNumber(node.number_) THEN node ELSE Null
      [] node.tag = "ARRAY"  ->
           [tag |-> "ARRAY", kids |-> [k \in DOMAIN node.kids |-> readAs[node.kids[k]]]]
      [] node.tag = "OBJECT" ->
           [tag |-> "OBJECT",
            kids |-> [k \in DOMAIN node.kids |->
                        [key |-> node.kids[k].key, value |-> readAs[node.kids[k].value]]]]
      [] OTHER -> node

ReadAs[depth \in Nat] ==
    [node \in Nodes[depth] |->
        IsReadAs(node, IF depth = 0 THEN {} ELSE ReadAs[depth - 1])]

(* What json_stringify writes, on one line or on several, is read back as  *)
(* the tree it was written from.                                           *)
RoundTrips ==
    Ended /\ out =>
        \A w \in Written :
            w.text = text =>
                IF w.tree \in Readable[Depth] THEN pc = "accepted" /\ value = ReadAs[Depth][w.tree]
                ELSE pc = "refused"
=============================================================================
