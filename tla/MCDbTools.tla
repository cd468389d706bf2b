----------------------------- MODULE MCDbTools -----------------------------
(* An instance of DbTools for TLC: two keys and the empty one, and records *)
(* that are short, that just fit a line of db_load, and that do not, the   *)
(* rest of the line then looking like a record of its own.                 *)
EXTENDS DbTools

SomeChars == {"a", "b", "v", "D", " ", "CR", "NL"}
SomeKeys == {<< >>, << "a" >>, << "b" >>}
InOrder == << << >>, << "a" >>, << "b" >> >>
EmptyKey == {<< >>}
Short == << "v" >>
Fits == << "v", "v", "v" >>
Spills == << "v", "v", "v", "a", " ", "v" >>
Payloads == {Short, Fits, Spills}
NotJson == {Fits}
DeleteText == << "D" >>
ByHand == {<< "a", " ", "D", "CR", "NL", " ", "v", "NL", "b", "NL", "b", " ", "v" >>}
Recoverable == {"begin", "read", "full"}
=============================================================================
