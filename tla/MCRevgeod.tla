----------------------------- MODULE MCRevgeod -----------------------------
(***************************************************************************)
(* Instances of the daemon for TLC.  "home" and "garden" lie in the same   *)
(* cell, "away" in another one, "nowhere" off the globe.                   *)
(***************************************************************************)
EXTENDS RevgeodProps, TLC

CONSTANTS c1, c2

OneClient == {c1}
TwoClients == {c1, c2}
Symmetry == Permutations(TwoClients)

McToken == {"(null)", "stray", "Unknown (0,0)", "unknown address", "unknown",
            "??", "street", "lawn", "town", "fr", "FR", "Paris", "U+001F", "sea"}
McUpper == [t \in McToken |-> IF t = "fr" THEN "FR" ELSE t]
McCoords == {"origin", "home", "garden", "away", "nowhere"}
McKeys == {"cell0", "cell1", "cell2"}
McGeohash == [x \in McCoords |->
    CASE x = "origin"              -> "cell0"
      [] x \in {"home", "garden"}  -> "cell1"
      [] x = "away"                -> "cell2"
      [] x = "nowhere"             -> "none"]
McApps == {"app"}

Str(t) == [tag |-> "STRING", text |-> << t >>]
Object(f) == [tag |-> "OBJECT", members |-> f]
Array(s) == [tag |-> "ARRAY", elements |-> s]

OcAnswer(components, annotations) ==
    Object([results |-> Array(<< Object([formatted |-> Str("street"),
                                         components |-> components,
                                         annotations |-> annotations]) >>)])
Zone(node) == Object([timezone |-> Object([name |-> node])])
Bare == Object([f \in {} |-> Nil])

(* OpenCage: a full answer; one with no city and no time zone; one whose   *)
(* time zone has no string; one with an empty list of results.             *)
OcFull == OcAnswer(Object([city |-> Str("town"), country_code |-> Str("fr")]),
                   Zone(Str("Paris")))
OcBare == OcAnswer(Bare, Bare)
OcNullZone == OcAnswer(Object([country_code |-> Str("fr")]),
                       Zone([tag |-> "NULL"]))
OcNumberZone == OcAnswer(Bare, Zone([tag |-> "NUMBER"]))
OcEmpty == Object([results |-> Array(<< >>)])
OcControl == OcAnswer(Object([city |-> Str("U+001F")]), Bare)

OcReplies == [x \in McCoords |->
    CASE x = "home"   -> {OcFull}
      [] x = "garden" -> {OcBare}
      [] x = "away"   -> {OcNullZone}
      [] OTHER        -> {OcBare}]
OcOddReplies == [OcReplies EXCEPT !["home"] = {OcFull, OcNumberZone},
                                  !["away"] = {OcControl}]
OcEmptyReplies == [OcReplies EXCEPT !["away"] = {OcEmpty}]

LqFull == Object([display_name |-> Str("lawn"),
                  address |-> Object([city |-> Str("town"),
                                      country_code |-> Str("fr")])])
LqError == Object([error |-> Str("sea")])
LqNear == Object([display_name |-> Str("street")])
LqReplies == [x \in McCoords |->
    CASE x = "home"   -> {LqFull}
      [] x = "garden" -> {LqNear, LqError}
      [] OTHER        -> {LqError}]

Rev(a, x) == [op |-> "rev", app |-> a, at |-> x]
On(op, k) == [op |-> op, key |-> k]
Bye(op) == [op |-> op]

RevRequests == {Rev("app", "home"), Rev("noapp", "garden"), Rev("noapp", "away")}
EdgeRequests == {Rev("app", "origin"), Rev("app", "nowhere"), Rev("noapp", "nocoord")}
KillRequests == {On("kill", "cell1"), On("kill", "none")}
LookRequests == {On("lookup", "cell1"), On("lookup", "none"), Bye("dump"),
                 Bye("stats"), Bye("other"), Bye("post")}

CacheRequests == {Rev("noapp", "home"), Rev("noapp", "garden"), On("kill", "cell1")}
MostRequests == RevRequests \cup EdgeRequests \cup KillRequests \cup LookRequests

NoFaults == {}
NoBadKeys == {}
NoControl == {}
Control == {"U+001F"}
FullOnly == {"full"}
=============================================================================
