---------------------------- MODULE RevgeodProps ----------------------------
(***************************************************************************)
(* The properties of Revgeod.                                              *)
(***************************************************************************)
EXTENDS Revgeod

MainStates == {"down", "init", "open", "signals", "start", "assign", "sleep",
               "stop", "join", "free", "close", "finalize", "exit"}

ProcOK ==
    /\ main \in MainStates /\ live \subseteq Handles
    /\ mhdaemon \in BOOLEAN /\ quit \in BOOLEAN

ConnOK ==
    /\ conn \in [Clients -> Requests \cup {NoReq}]
    /\ reply = [c \in Clients |-> reply[c]]

(* There is no worker before MHD_start_daemon, and a handler in progress   *)
(* has a connection that carries a request of its kind and has no response *)
(* yet.                                                                    *)
WorkOK ==
    /\ worker \in {"none", "idle"} \cup Handling
    /\ cur \in Clients \cup {NoClient}
    /\ main \in {"down", "init", "open", "signals", "start"} => worker = "none"
    /\ worker \in Handling =>
         /\ cur \in Clients /\ conn[cur] # NoReq /\ reply[cur] = NoReply
         /\ worker = "kill" => conn[cur].op = "kill" /\ conn[cur].key \in Keys
         /\ worker # "kill" => conn[cur].op = "rev" /\ Cell(conn[cur]) # NoKey

StatOK ==
    /\ st \in [Counters -> Nat] /\ rejected \in Nat
    /\ DOMAIN appcache \subseteq Apps
    /\ appcache \in [DOMAIN appcache -> Nat]
    /\ sent \in Nat /\ boots \in Nat

(* A write transaction is open exactly between the halves of db_put and    *)
(* db_del, and it is of the function that is in progress.                  *)
HoldsEntries(map) == \A k \in DOMAIN map : IsEntry(map[k])

StoreOK ==
    /\ bufs \in Buffers
    /\ IsMap(disk) /\ HoldsEntries(disk)
    /\ IsTxn(txn) /\ (txn # NoTxn => HoldsEntries(txn.view))
    /\ txn.fn = CASE worker = "commit" -> "put"
                  [] worker = "kill"   -> "del"
                  [] OTHER             -> "none"

(* Shapes of the variables, and what the steps of the handlers rely on. *)
TypeOK == ProcOK /\ ConnOK /\ WorkOK /\ StatOK /\ StoreOK

(* A counted /rev request was refused, was a hit, went to the provider, or *)
(* is being looked up right now; only the configured provider is counted;  *)
(* and it failed no more often than it was asked (get_reversegeo, struct   *)
(* statistics).                                                            *)
StatsAddUp ==
    /\ st["requests"] = rejected + st["lmdb"] + st["opencage"] + st["locationiq"]
                          + (IF worker = "get" THEN 1 ELSE 0)
    /\ \A p \in {"opencage", "locationiq"} \ {Provider} : st[p] = 0
    /\ st["geofail"] + (IF worker \in {"fetch", "put", "commit"} THEN 1 ELSE 0)
         <= st[Provider]

(* What a client may be told about position x: the answer of the provider  *)
(* for x itself, the answer for a position of the same cell if the cache   *)
(* is named as its source, or a placeholder.                               *)
Permitted(x) ==
    {[source |-> Provider, body |-> MissBody(a["village"], a)] : a \in Answers(x)}
    \cup {[source |-> Provider, body |-> MissBody(UnknownAddress, Cleared)]}
    \cup {[source |-> "lmdb", body |-> HitBody(EntryOf(a))] :
            a \in UNION {Answers(y) : y \in {z \in Coords : Geohash[z] = Geohash[x]}}}

(* No response about one place shows text of another: not from the static  *)
(* buffers of an earlier request, not from another cell's record.          *)
ReplyBelongsToCell ==
    \A c \in Clients :
        conn[c] # NoReq /\ reply[c] # NoReply =>
            (conn[c].op = "rev" /\ reply[c].status = 200 =>
                \E p \in Permitted(conn[c].at) :
                    p.source = reply[c].source /\ p.body = reply[c].body)

(* What is cached under a geohash is what the provider answered, on one    *)
(* occasion, for one position of that cell: never a failure, never a mix   *)
(* of two answers, never an answer for elsewhere.                          *)
OnlyAnswersCached ==
    \A k \in DOMAIN disk :
        \E x \in Coords : \E a \in Answers(x) :
            Geohash[x] = k /\ disk[k] = EntryOf(a)

(* The handles the handlers use are not released under a worker that is    *)
(* still there: catcher stops the daemon first.  The window of main()      *)
(* before mhdaemon is assigned is excepted (see the README).               *)
StopBeforeRelease == mhdaemon /\ worker # "none" => live = Handles

(* Entries stay: one disappears only by a /kill that names it, and one is  *)
(* replaced only after a read of it failed; no crash, restart, failed      *)
(* write or request for another cell touches it.                           *)
EntriesStay ==
    [][\A k \in DOMAIN disk :
        /\ k \notin DOMAIN disk' =>
             cur \in Clients /\ conn[cur].op = "kill" /\ conn[cur].key = k
        /\ k \in DOMAIN disk' /\ disk'[k] # disk[k] =>
             {"begin", "read"} \cap DbFaults # {}]_vars

(* Every request ends: answered, or its connection closed. *)
Answered == \A c \in Clients : conn[c] # NoReq ~> conn[c] = NoReq

(* SIGINT ends the process, whatever the worker was doing. *)
SigintExits == main = "stop" ~> main = "down"

(* What README.md:58 says: "cache the positive result". *)
PositiveCached == \A k \in DOMAIN disk : disk[k]["village"] # << >>

(* What revgeod.c:310 expects of a record it reads back: "a string which   *)
(* contains a JSON object".                                                *)
StoredParses == \A k \in DOMAIN disk : Decodable(disk[k])

-----------------------------------------------------------------------------
(* The refinement.  A cached record gives back the answer it was made of;  *)
(* a response is seen without the source it names and without JSON nulls.  *)
AnswerOf(e) == [f \in Fields |-> IF f \in DOMAIN e THEN e[f] ELSE << >>]

Seen(r, p) ==
    IF p = NoReply THEN NoReply
    ELSE [status |-> p.status,
          body   |-> IF p.status = 200 /\ r.op = "rev" THEN Essence(p.body)
                     ELSE IF p.status = 200 /\ r.op = "stats" THEN p.body.db_entries
                     ELSE p.body]

Cache ==
    INSTANCE GeoCache WITH
        store <- [k \in DOMAIN disk |-> AnswerOf(disk[k])],
        asked <- conn,
        told  <- [c \in Clients |-> IF conn[c] = NoReq THEN NoReply
                                    ELSE Seen(conn[c], reply[c])],
        ReadsMiss <- DbFaults \cap {"begin", "read"} # {},
        WritesFail <- DbFaults # {}

(* The daemon implements the cache. *)
ImplementsCache == Cache!Spec
=============================================================================
