------------------------------ MODULE Queries ------------------------------
(***************************************************************************)
(* The vocabulary of the HTTP interface of revgeod.c: what a client can    *)
(* ask, the record the daemon caches under a geohash, and the "address"    *)
(* object it answers with.                                                 *)
(***************************************************************************)
EXTENDS Geo

CONSTANTS
    Clients,    \* HTTP clients, one connection each
    Keys,       \* keys that occur: geohash cells, and whatever /kill is given
    Apps,       \* values of the "app" parameter
    Geohash,    \* geohash_encode: Coords -> Keys \cup {NoKey}
    Provider,   \* api_provider: "opencage" or "locationiq"
    Replies,    \* Coords -> the documents the provider may answer with
    CtlTokens,  \* texts holding U+001F, which json.c emits but cannot parse
    Requests,   \* the requests clients make
    NoApp, NoCoord, NoKey,    \* a parameter that is missing or empty;
                              \* NoKey also for coordinates off the globe
    Null                      \* the JSON null in a reply

AllRequests ==
    [op : {"rev"}, app : Apps \cup {NoApp}, at : Coords \cup {NoCoord}]
        \cup [op : {"kill", "lookup"}, key : Keys \cup {NoKey}]
        \cup [op : {"dump", "stats", "other", "post"}]

Outcomes(x) == Replies[x] \cup {Nil, HttpFailed}

(* The texts the provider can give for x, as revgeo_getdata delivers them. *)
Answers(x) ==
    {r.text : r \in {s \in UNION {revgeo_getdata(Provider, x, o)
                                    : o \in Outcomes(x)} : s.ok}}

ASSUME QueriesAssumption ==
    /\ Origin \in Coords
    /\ Geohash \in [Coords -> Keys \cup {NoKey}]
    /\ Provider \in {"opencage", "locationiq"}
    /\ Requests \subseteq AllRequests
    /\ NoCoord \notin Coords
    /\ NoKey \notin Keys
    /\ NoApp \notin Apps

(* Every text is made of tokens; so is the one printed for the origin. *)
ASSUME TextsAssumption ==
    /\ "Unknown (0,0)" \in Token
    /\ \A x \in Coords : \A t \in Answers(x) : t \in Buffers

-----------------------------------------------------------------------------
(* The cached record: village and cc always, the others when not empty. *)
EntryMembersNoTown(b) ==    \* a mistake: the locality is not stored
    {"village", "cc"} \cup {f \in {"tzname"} : b[f] # << >>}

EntryMembers(b) ==
    {"village", "cc"} \cup {f \in {"locality", "tzname"} : b[f] # << >>}

EntryOf(b) == [f \in EntryMembers(b) |-> b[f]]

IsEntry(e) == DOMAIN e \subseteq Fields /\ e \in [DOMAIN e -> Text]

(* json_decode of a cached record: json.c writes U+001F raw, inside a      *)
(* string, where its parser refuses it.                                    *)
Decodable(e) ==
    \A f \in DOMAIN e : \A i \in DOMAIN e[f] : e[f][i] \notin CtlTokens

(* The address object of an answer from the cache: the members that are    *)
(* strings, or a placeholder when the record does not parse.               *)
CorruptBody ==
    [village |-> << "unknown" >>, locality |-> << "unknown" >>,
     cc |-> << "??" >>, tzname |-> Null]

HitBody(e) == IF Decodable(e) THEN e ELSE CorruptBody

(* The address object of an answer that was not cached, from the buffers;  *)
(* ap is the buffer of that name, or the text put in its place.            *)
UnknownAddress == << "unknown address" >>

MissBody(ap, b) ==
    [f \in {"village", "cc", "tzname"} \cup {g \in {"locality"} : b[g] # << >>} |->
        CASE f = "village"                    -> ap
          [] f = "tzname" /\ b[f] = << >>     -> Null
          [] OTHER                            -> b[f]]

(* The pages in plain text, which the status stands for. *)
NoBody == [f \in {} |-> << >>]

(* What a cached record and an address object have in common: the members  *)
(* that hold a text.                                                       *)
Essence(body) == [f \in {g \in DOMAIN body : body[g] # Null} |-> body[f]]

Cell(r) == IF r.at = NoCoord THEN NoKey ELSE Geohash[r.at]
=============================================================================
