-------------------------------- MODULE Geo --------------------------------
(***************************************************************************)
(* geo.c: what revgeo_getdata makes of one answer of the geocoding service. *)
(*                                                                         *)
(* A text (a UT_string, a char array) is a sequence of tokens; the empty   *)
(* sequence is the empty string and \o is what utstring_printf does, which *)
(* appends.  A parsed JSON document is a tree of records with the tags of  *)
(* json.h.                                                                 *)
(***************************************************************************)
EXTENDS Sequences

CONSTANTS
    Token,    \* the pieces of text that occur in answers and replies
    Upper,    \* toupper on tokens, a function in [Token -> Token]
    Coords,   \* the positions clients ask about
    Origin    \* latitude 0, longitude 0, which is never looked up

Text == Seq(Token)

(* The four static UT_strings of get_reversegeo that a lookup fills, named *)
(* after the JSON members they end up in ("village" is the code's addr).   *)
Fields == {"village", "locality", "cc", "tzname"}
Buffers == [Fields -> Text]
Cleared == [f \in Fields |-> << >>]

-----------------------------------------------------------------------------
(* JSON lookup.  Nil is the NULL pointer of json_find_member, and of       *)
(* json_decode when the text is not JSON.                                  *)
Nil == [tag |-> "NIL"]

Member(node, name) ==
    IF node.tag = "OBJECT" /\ name \in DOMAIN node.members
    THEN node.members[name]
    ELSE Nil

Zeroth(node) ==
    IF node.tag = "ARRAY" /\ node.elements # << >>
    THEN Head(node.elements)
    ELSE Nil

(* The text of a node whose tag was checked to be JSON_STRING. *)
StringOf(node) == IF node.tag = "STRING" THEN node.text ELSE << >>

Capitals(text) == [i \in DOMAIN text |-> Upper[text[i]]]

(* opencage_decode prints timezone.name without checking its tag.  A JSON *)
(* null has a NULL string_, printed as "(null)".  For any other tag the     *)
(* string_ it reads is the bytes of another union member, which the C       *)
(* language leaves undefined: it may be NULL, it may point at bytes that    *)
(* are no text of the answer (Stray), or the process may die, which the     *)
(* daemon's Crash action covers.                                            *)
Stray == << "stray" >>

TimezoneNode(json) ==
    Member(Member(Member(Zeroth(Member(json, "results")), "annotations"),
                  "timezone"), "name")

TimezoneTexts(json) ==
    LET node == TimezoneNode(json)
    IN  CASE node.tag \in {"NIL", "STRING"} -> {StringOf(node)}
          [] node.tag = "NULL"              -> {<< "(null)" >>}
          [] OTHER                          -> {<< "(null)" >>, Stray}

(* What each decoder can append to the four buffers.  An answer without       *)
(* results, or with an empty list of them, appends nothing, and still      *)
(* counts as decoded.                                                      *)
opencage_decode(json) ==
    LET zeroth == Zeroth(Member(json, "results"))
        ac == Member(zeroth, "components")
    IN  {[village  |-> StringOf(Member(zeroth, "formatted")),
          locality |-> StringOf(Member(ac, "city")),
          cc       |-> Capitals(StringOf(Member(ac, "country_code"))),
          tzname   |-> tz] : tz \in TimezoneTexts(json)}

locationiq_decode(json) ==
    LET address == Member(json, "address")
    IN  {[village  |-> StringOf(Member(json, "display_name")),
          locality |-> StringOf(Member(address, "city")),
          cc       |-> Capitals(StringOf(Member(address, "country_code"))),
          tzname   |-> << >>]}

Decode(provider, json) ==
    IF provider = "opencage" THEN opencage_decode(json)
                             ELSE locationiq_decode(json)

-----------------------------------------------------------------------------
(* http_get: the outcome of one curl_easy_perform.  HttpFailed covers a    *)
(* transport error, the timeout of 2000 ms and every status but 200; else  *)
(* the outcome is the document that json_decode makes of the body.         *)
HttpFailed == [tag |-> "HTTP_FAILED"]

(* revgeo_getdata: success, and what was appended to the buffers.  The     *)
(* origin is refused before any call is made.                              *)
revgeo_getdata(provider, x, outcome) ==
    CASE x = Origin ->
            {[ok |-> FALSE,
              text |-> [Cleared EXCEPT !["village"] = << "Unknown (0,0)" >>]]}
      [] x # Origin /\ outcome \in {HttpFailed, Nil} ->
            {[ok |-> FALSE, text |-> Cleared]}
      [] OTHER ->
            {[ok |-> TRUE, text |-> t] : t \in Decode(provider, outcome)}
=============================================================================
