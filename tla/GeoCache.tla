------------------------------ MODULE GeoCache ------------------------------
(***************************************************************************)
(* What revgeod promises its clients, without threads, transactions or     *)
(* buffers: every request takes effect at one instant; an answer is the    *)
(* one the provider gave for a position of the same cell, word for word,   *)
(* whether it comes from the cache or not; an entry stays until /kill      *)
(* names it; and /kill says what it did.                                   *)
(***************************************************************************)
EXTENDS Queries, FiniteSets

CONSTANTS NoReq, NoReply,
          ReadsMiss,    \* a read of the store may miss what is there
          WritesFail    \* a write of the store may fail

VARIABLES
    store,    \* what is cached: a partial function from Keys to answers
    asked,    \* the request of each client, or NoReq
    told      \* what it was told, or NoReply

vars == << store, asked, told >>

(* The part of an answer that holds text; it is also the cached record. *)
Served(a) == EntryOf(a)

Init ==
    /\ store = [k \in {} |-> Cleared]
    /\ asked = [c \in Clients |-> NoReq]
    /\ told = [c \in Clients |-> NoReply]

Ask(c, r) ==
    /\ asked[c] = NoReq
    /\ asked' = [asked EXCEPT ![c] = r]
    /\ UNCHANGED << store, told >>

Tell(c, status, body) ==
    /\ asked[c] # NoReq /\ told[c] = NoReply
    /\ told' = [told EXCEPT ![c] = [status |-> status, body |-> body]]
    /\ UNCHANGED asked

Absent(k) == k \notin DOMAIN store \/ ReadsMiss

Reject(c) ==
    /\ asked[c].op = "rev" /\ Cell(asked[c]) = NoKey
    /\ Tell(c, 406, NoBody)
    /\ UNCHANGED store

AnswerCached(c) ==
    LET k == Cell(asked[c])
    IN  /\ asked[c].op = "rev" /\ k \in DOMAIN store
        /\ Tell(c, 200, Served(store[k]))
        /\ UNCHANGED store

(* A new answer is served and cached; only a failing write excuses not to. *)
AnswerFresh(c) ==
    LET k == Cell(asked[c])
    IN  /\ asked[c].op = "rev" /\ k # NoKey /\ Absent(k)
        /\ \E a \in Answers(asked[c].at) :
             /\ Tell(c, 200, Served(a))
             /\ \/ store' = [x \in DOMAIN store \cup {k} |->
                               IF x = k THEN a ELSE store[x]]
                \/ WritesFail /\ UNCHANGED store

(* No answer: a placeholder is served, and nothing is cached. *)
AnswerUnknown(c) ==
    /\ asked[c].op = "rev" /\ Cell(asked[c]) # NoKey /\ Absent(Cell(asked[c]))
    /\ Tell(c, 200, [village |-> UnknownAddress, cc |-> << >>])
    /\ UNCHANGED store

Kill(c) ==
    LET k == asked[c].key
    IN  /\ asked[c].op = "kill" /\ k \in DOMAIN store
        /\ Tell(c, 200, NoBody)
        /\ store' = [x \in DOMAIN store \ {k} |-> store[x]]

KillNothing(c) ==
    /\ asked[c].op = "kill" /\ asked[c].key # NoKey
    /\ asked[c].key \notin DOMAIN store \/ WritesFail
    /\ Tell(c, 404, NoBody)
    /\ UNCHANGED store

Lookup(c) ==
    LET k == asked[c].key
    IN  /\ asked[c].op = "lookup" /\ k # NoKey
        /\ \/ k \in DOMAIN store /\ Tell(c, 200, Served(store[k]))
           \/ Absent(k) /\ Tell(c, 404, NoBody)
        /\ UNCHANGED store

NoGeohash(c) ==
    /\ asked[c].op \in {"kill", "lookup"} /\ asked[c].key = NoKey
    /\ Tell(c, 422, NoBody)
    /\ UNCHANGED store

Dump(c) ==
    /\ asked[c].op = "dump"
    /\ \/ Tell(c, 200, [k \in DOMAIN store |-> Served(store[k])])
       \/ ReadsMiss /\ Tell(c, 200, [k \in {} |-> << >>])
    /\ UNCHANGED store

Stats(c) ==
    /\ asked[c].op = "stats"
    /\ Tell(c, 200, Cardinality(DOMAIN store))
    /\ UNCHANGED store

Refuse(c) ==
    /\ \/ asked[c].op = "post" /\ Tell(c, 405, NoBody)
       \/ asked[c].op = "other" /\ Tell(c, 404, NoBody)
    /\ UNCHANGED store

(* Connections end: delivered, hung up, or all of them with the process. *)
Close(S) ==
    /\ asked' = [c \in Clients |-> IF c \in S THEN NoReq ELSE asked[c]]
    /\ told' = [c \in Clients |-> IF c \in S THEN NoReply ELSE told[c]]
    /\ UNCHANGED store

Next ==
    \/ \E c \in Clients :
        \/ \E r \in Requests : Ask(c, r)
        \/ asked[c] # NoReq /\ ( \/ Reject(c) \/ AnswerCached(c)
                                 \/ AnswerFresh(c) \/ AnswerUnknown(c)
                                 \/ Kill(c) \/ KillNothing(c) \/ Lookup(c)
                                 \/ NoGeohash(c) \/ Dump(c) \/ Stats(c)
                                 \/ Refuse(c) )
    \/ \E S \in SUBSET Clients : Close(S)

Spec == Init /\ [][Next]_vars
=============================================================================
