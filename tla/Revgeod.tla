------------------------------ MODULE Revgeod ------------------------------
(***************************************************************************)
(* revgeod.c: the main thread, which boots, sleeps, and runs the SIGINT    *)
(* handler; the one worker thread of libmicrohttpd, which runs the HTTP    *)
(* handlers one at a time; and the clients.  The handlers of /rev and      *)
(* /kill are cut into steps at the database and network calls, where the   *)
(* signal and a crash can fall between.                                    *)
(***************************************************************************)
EXTENDS Queries, Integers, FiniteSets

CONSTANTS
    BadKeys, DbFaults,    \* see Db
    NoClient, NoReq, NoReply,
    MaxSent,    \* bound: requests made
    MaxBoots    \* bound: starts of the process

VARIABLES
    main,       \* where the main thread is
    live,       \* the handles that are open: statsd, curl, db
    mhdaemon,   \* has the global of that name been assigned
    quit,       \* libmicrohttpd's shutdown flag
    worker,     \* where the worker thread is
    cur,        \* the connection whose handler it is running
    bufs,       \* addr, locality, cc, tzname: static in get_reversegeo
    conn,       \* the request each connection carries, or NoReq
    reply,      \* the response queued for it, or NoReply
    st,         \* struct statistics
    appcache,   \* queries per application name
    rejected,   \* ghost: /rev requests refused with 406
    sent, boots,    \* requests and starts so far, for the bounds
    disk, txn       \* the database, see Db

INSTANCE Db

dbvars == << disk, txn >>
procvars == << main, live, mhdaemon, quit >>
workvars == << worker, cur, bufs >>
connvars == << conn, reply >>
statvars == << st, appcache, rejected >>
vars == << procvars, workvars, connvars, statvars, sent, boots, dbvars >>

ASSUME RevgeodAssumption ==
    /\ MaxSent \in Nat /\ MaxBoots \in Nat
    /\ BadKeys \subseteq Keys /\ DbFaults \subseteq AllDbFaults
    /\ NoReq \notin AllRequests
    /\ NoClient \notin Clients

Handles == {"statsd", "curl", "db"}
Counters == {"requests", "geofail", "opencage", "locationiq", "lmdb", "stats"}
Zero == [n \in Counters |-> 0]
Count(n) == st' = [st EXCEPT ![n] = @ + 1]
NoApps == [a \in {} |-> 0]

(* Steps of a handler that has begun. *)
Handling == {"get", "fetch", "put", "commit", "kill"}

-----------------------------------------------------------------------------
(* A response: status, the member "s" of the address object, the body. *)
Response(status, source, body) ==
    [status |-> status, source |-> source, body |-> body]

Page(status) == Response(status, "none", NoBody)

(* The handler queues its response and returns to the event loop. *)
Respond(c, r) ==
    /\ reply' = [reply EXCEPT ![c] = r]
    /\ worker' = "idle"
    /\ cur' = NoClient

Waiting(c) == worker = "idle" /\ conn[c] # NoReq /\ reply[c] = NoReply

(* Mistake: only the queries of named applications are counted. *)
CountedNamed(r) ==
    /\ IF r.app = NoApp THEN UNCHANGED st ELSE Count("requests")
    /\ appcache' = appcache

(* handle_connection, dispatch.  get_reversegeo counts every call, and     *)
(* the application if it was named, before it looks at the coordinates.    *)
Counted(r) ==
    /\ Count("requests")
    /\ appcache' =
         IF r.app = NoApp THEN appcache
         ELSE [a \in DOMAIN appcache \cup {r.app} |->
                 IF a # r.app THEN appcache[a]
                 ELSE IF a \in DOMAIN appcache THEN appcache[a] + 1 ELSE 1]

RevRejects(c) ==
    /\ Waiting(c) /\ conn[c].op = "rev" /\ Cell(conn[c]) = NoKey
    /\ Counted(conn[c])
    /\ rejected' = rejected + 1
    /\ Respond(c, Page(406))
    /\ UNCHANGED << procvars, bufs, conn, sent, boots, dbvars >>

(* Mistakes: a position without a geohash is not refused; the buffers are  *)
(* not renewed.                                                            *)
RevBeginsUnchecked(c) ==
    /\ Waiting(c) /\ conn[c].op = "rev"
    /\ Counted(conn[c])
    /\ bufs' = Cleared
    /\ worker' = "get" /\ cur' = c
    /\ UNCHANGED << procvars, connvars, rejected, sent, boots, dbvars >>

RevBeginsStale(c) ==
    /\ Waiting(c) /\ conn[c].op = "rev" /\ Cell(conn[c]) # NoKey
    /\ Counted(conn[c])
    /\ worker' = "get" /\ cur' = c
    /\ UNCHANGED << procvars, bufs, connvars, rejected, sent, boots, dbvars >>

RevBegins(c) ==
    /\ Waiting(c) /\ conn[c].op = "rev" /\ Cell(conn[c]) # NoKey
    /\ Counted(conn[c])
    /\ bufs' = Cleared
    /\ worker' = "get" /\ cur' = c
    /\ UNCHANGED << procvars, connvars, rejected, sent, boots, dbvars >>

RevHits ==
    /\ worker = "get" /\ "db" \in live
    /\ \E r \in db_get(Cell(conn[cur])) :
         /\ r.found
         /\ Respond(cur, Response(200, "lmdb", HitBody(r.value)))
    /\ Count("lmdb")
    /\ UNCHANGED << procvars, bufs, conn, appcache, rejected, sent, boots, dbvars >>

RevMisses ==
    /\ worker = "get" /\ "db" \in live
    /\ Miss \in db_get(Cell(conn[cur]))
    /\ Count(Provider)
    /\ worker' = "fetch"
    /\ UNCHANGED << procvars, cur, bufs, connvars, appcache, rejected, sent,
                    boots, dbvars >>

(* utstring_printf appends to what the buffer holds. *)
Appended(text) == [f \in Fields |-> bufs[f] \o text[f]]

(* Mistake: what a failed lookup left in the buffers is cached too. *)
RevFetchFailsCached ==
    /\ worker = "fetch" /\ "curl" \in live
    /\ \E o \in Outcomes(conn[cur].at) :
         \E r \in revgeo_getdata(Provider, conn[cur].at, o) :
            /\ ~r.ok
            /\ bufs' = Appended(r.text)
    /\ Count("geofail")
    /\ worker' = "put"
    /\ UNCHANGED << procvars, cur, connvars, appcache, rejected, sent, boots, dbvars >>

RevFetchFails ==
    /\ worker = "fetch" /\ "curl" \in live
    /\ \E o \in Outcomes(conn[cur].at) :
         \E r \in revgeo_getdata(Provider, conn[cur].at, o) :
            /\ ~r.ok
            /\ bufs' = Appended(r.text)
    /\ Count("geofail")
    /\ Respond(cur, Response(200, Provider, MissBody(UnknownAddress, bufs')))
    /\ UNCHANGED << procvars, conn, appcache, rejected, sent, boots, dbvars >>

RevFetches ==
    /\ worker = "fetch" /\ "curl" \in live
    /\ \E o \in Outcomes(conn[cur].at) :
         \E r \in revgeo_getdata(Provider, conn[cur].at, o) :
            /\ r.ok
            /\ bufs' = Appended(r.text)
    /\ worker' = "put"
    /\ UNCHANGED << procvars, cur, connvars, statvars, sent, boots, dbvars >>

(* db_put failing is only logged: the client gets the answer anyway. *)
RespondFetched ==
    Respond(cur, Response(200, Provider, MissBody(bufs["village"], bufs)))

RevPuts ==
    /\ worker = "put" /\ "db" \in live
    /\ \/ /\ PutBegins(Cell(conn[cur]), EntryOf(bufs))
          /\ worker' = "commit"
          /\ UNCHANGED << cur, reply >>
       \/ BeginFails /\ RespondFetched
    /\ UNCHANGED << procvars, bufs, conn, statvars, sent, boots >>

RevCommits ==
    /\ worker = "commit" /\ "db" \in live
    /\ CommitOk \/ CommitFails
    /\ RespondFetched
    /\ UNCHANGED << procvars, bufs, conn, statvars, sent, boots >>

-----------------------------------------------------------------------------
(* get_kill. *)
KillPage(rc) == Page(IF rc = 0 THEN 200 ELSE 404)

KillBegins(c) ==
    /\ Waiting(c) /\ conn[c].op = "kill" /\ conn[c].key # NoKey /\ "db" \in live
    /\ \/ DelBegins(conn[c].key) /\ worker' = "kill" /\ cur' = c /\ UNCHANGED reply
       \/ BeginFails /\ Respond(c, KillPage(1))
    /\ UNCHANGED << procvars, bufs, conn, statvars, sent, boots >>

(* Mistake: no response is queued when the deletion failed. *)
KillCommitsSilent ==
    /\ worker = "kill" /\ "db" \in live
    /\ CommitOk \/ CommitFails
    /\ IF DelReturn = 0 THEN Respond(cur, KillPage(0))
       ELSE worker' = "idle" /\ cur' = NoClient /\ UNCHANGED reply
    /\ UNCHANGED << procvars, bufs, conn, statvars, sent, boots >>

KillCommits ==
    /\ worker = "kill" /\ "db" \in live
    /\ CommitOk \/ CommitFails
    /\ Respond(cur, KillPage(DelReturn))
    /\ UNCHANGED << procvars, bufs, conn, statvars, sent, boots >>

(* get_lookup returns the record as stored. *)
Lookup(c) ==
    /\ Waiting(c) /\ conn[c].op = "lookup" /\ conn[c].key # NoKey /\ "db" \in live
    /\ \E r \in db_get(conn[c].key) :
         Respond(c, IF r.found THEN Response(200, "none", r.value) ELSE Page(404))
    /\ UNCHANGED << procvars, bufs, conn, statvars, sent, boots, dbvars >>

NoGeohash(c) ==
    /\ Waiting(c) /\ conn[c].op \in {"kill", "lookup"} /\ conn[c].key = NoKey
    /\ Respond(c, Page(422))
    /\ UNCHANGED << procvars, bufs, conn, statvars, sent, boots, dbvars >>

(* get_dumpall: one object per record; a record that does not parse adds   *)
(* nothing to its object, and a failing db_enum leaves the array empty.    *)
DumpOf(map) == [k \in DOMAIN map |->
                  IF Decodable(map[k]) THEN map[k] ELSE [f \in {} |-> << >>]]

Dump(c) ==
    /\ Waiting(c) /\ conn[c].op = "dump" /\ "db" \in live
    /\ \/ Respond(c, Response(200, "none", DumpOf(disk)))
       \/ /\ "begin" \in DbFaults
          /\ Respond(c, Response(200, "none", [k \in {} |-> << >>]))
    /\ UNCHANGED << procvars, bufs, conn, statvars, sent, boots, dbvars >>

Stats(c) ==
    /\ Waiting(c) /\ conn[c].op = "stats" /\ "db" \in live
    /\ Count("stats")
    /\ Respond(c, Response(200, "none",
         [counters |-> st', apps |-> appcache,
          db_entries |-> Cardinality(DOMAIN disk)]))
    /\ UNCHANGED << procvars, bufs, conn, appcache, rejected, sent, boots, dbvars >>

(* Any other path, and any other method. *)
Refuse(c) ==
    /\ Waiting(c) /\ conn[c].op \in {"other", "post"}
    /\ Respond(c, Page(IF conn[c].op = "post" THEN 405 ELSE 404))
    /\ UNCHANGED << procvars, bufs, conn, statvars, sent, boots, dbvars >>

-----------------------------------------------------------------------------
(* Clients, and the worker's event loop. *)
Send(c, r) ==
    /\ worker # "none" /\ ~quit /\ conn[c] = NoReq /\ sent < MaxSent
    /\ conn' = [conn EXCEPT ![c] = r]
    /\ sent' = sent + 1
    /\ UNCHANGED << procvars, workvars, reply, statvars, boots, dbvars >>

(* A connection ends: its response was written, or its client hung up.  A  *)
(* hang-up during the handler is noticed when the handler has returned.    *)
Closed(c) ==
    /\ conn' = [conn EXCEPT ![c] = NoReq]
    /\ reply' = [reply EXCEPT ![c] = NoReply]
    /\ UNCHANGED << procvars, workvars, statvars, sent, boots, dbvars >>

Deliver(c) == worker = "idle" /\ reply[c] # NoReply /\ Closed(c)

HangUp(c) == worker = "idle" /\ conn[c] # NoReq /\ reply[c] = NoReply /\ Closed(c)

(* Asked to stop, the loop closes every connection and the thread ends. *)
WorkerExit ==
    /\ worker = "idle" /\ quit
    /\ worker' = "none"
    /\ conn' = [c \in Clients |-> NoReq]
    /\ reply' = [c \in Clients |-> NoReply]
    /\ UNCHANGED << procvars, cur, bufs, statvars, sent, boots, dbvars >>

-----------------------------------------------------------------------------
(* The process ends: everything but the database is gone. *)
Gone ==
    /\ main' = "down" /\ live' = {} /\ mhdaemon' = FALSE /\ quit' = FALSE
    /\ worker' = "none" /\ cur' = NoClient /\ bufs' = Cleared
    /\ conn' = [c \in Clients |-> NoReq]
    /\ reply' = [c \in Clients |-> NoReply]
    /\ st' = Zero /\ appcache' = NoApps /\ rejected' = 0
    /\ TxnLost
    /\ UNCHANGED << sent, boots >>

(* SIGKILL, SIGTERM, a second SIGINT (which runs the handler again in the  *)
(* worker, on handles already released), a failed assertion, power loss.   *)
Crash == main # "down" /\ Gone

MainOnly == UNCHANGED << workvars, connvars, statvars, sent, dbvars >>

(* main(): statsd, curl, database, signals, daemon. *)
Boot ==
    /\ main = "down" /\ boots < MaxBoots
    /\ main' = "init" /\ live' = {"statsd"} /\ boots' = boots + 1
    /\ UNCHANGED << mhdaemon, quit >> /\ MainOnly

InitCurl ==
    /\ main = "init"
    /\ main' = "open" /\ live' = live \cup {"curl"}
    /\ UNCHANGED << mhdaemon, quit, boots >> /\ MainOnly

OpenDb ==
    /\ main = "open"
    /\ main' = "signals" /\ live' = live \cup {"db"}
    /\ UNCHANGED << mhdaemon, quit, boots >> /\ MainOnly

InstallSignals ==
    /\ main = "signals"
    /\ main' = "start"
    /\ UNCHANGED << live, mhdaemon, quit, boots >> /\ MainOnly

(* MHD_start_daemon runs the worker before its result is assigned. *)
StartDaemon ==
    /\ main = "start"
    /\ main' = "assign" /\ worker' = "idle"
    /\ UNCHANGED << live, mhdaemon, quit, cur, bufs, connvars, statvars, sent,
                    boots, dbvars >>

AssignDaemon ==
    /\ main = "assign"
    /\ main' = "sleep" /\ mhdaemon' = TRUE
    /\ UNCHANGED << live, quit, boots >> /\ MainOnly

(* db_open or MHD_start_daemon fails: main returns 1. *)
BootFails == main \in {"open", "start"} /\ Gone

(* catcher, on the main thread once it is installed. *)
Sigint ==
    /\ main \in {"start", "assign", "sleep"}
    /\ main' = "stop"
    /\ UNCHANGED << live, mhdaemon, quit, boots >> /\ MainOnly

(* Mistakes: the worker is asked to stop but not waited for, or waited for *)
(* but not asked.                                                          *)
StopDaemonNoJoin ==
    /\ main = "stop"
    /\ main' = "free" /\ quit' = mhdaemon
    /\ UNCHANGED << live, mhdaemon, boots >> /\ MainOnly

StopDaemonNoFlag ==
    /\ main = "stop"
    /\ main' = IF mhdaemon THEN "join" ELSE "free"
    /\ UNCHANGED << live, mhdaemon, quit, boots >> /\ MainOnly

(* MHD_stop_daemon: nothing for a NULL daemon, else flag and join. *)
StopDaemon ==
    /\ main = "stop"
    /\ main' = IF mhdaemon THEN "join" ELSE "free"
    /\ quit' = mhdaemon
    /\ UNCHANGED << live, mhdaemon, boots >> /\ MainOnly

Joined ==
    /\ main = "join" /\ worker = "none"
    /\ main' = "free"
    /\ UNCHANGED << live, mhdaemon, quit, boots >> /\ MainOnly

Release(here, handle, next) ==
    /\ main = here
    /\ main' = next /\ live' = live \ {handle}
    /\ UNCHANGED << mhdaemon, quit, boots >> /\ MainOnly

FreeCurl       == Release("free", "curl", "close")
CloseDb        == Release("close", "db", "finalize")
FinalizeStatsd == Release("finalize", "statsd", "exit")

Exit == main = "exit" /\ Gone

-----------------------------------------------------------------------------
Init ==
    /\ main = "down" /\ live = {} /\ mhdaemon = FALSE /\ quit = FALSE
    /\ worker = "none" /\ cur = NoClient /\ bufs = Cleared
    /\ conn = [c \in Clients |-> NoReq]
    /\ reply = [c \in Clients |-> NoReply]
    /\ st = Zero /\ appcache = NoApps /\ rejected = 0
    /\ sent = 0 /\ boots = 0
    /\ disk = [k \in {} |-> << >>] /\ txn = NoTxn

(* One request: the handlers begin with a connection, and go on alone. *)
Accept(c) ==
    \/ RevRejects(c) \/ RevBegins(c) \/ KillBegins(c) \/ Lookup(c)
    \/ NoGeohash(c) \/ Dump(c) \/ Stats(c) \/ Refuse(c)

Continue ==
    \/ RevHits \/ RevMisses \/ RevFetchFails \/ RevFetches \/ RevPuts
    \/ RevCommits \/ KillCommits

Booting ==
    \/ InitCurl \/ OpenDb \/ InstallSignals \/ StartDaemon \/ AssignDaemon

Stopping ==
    \/ StopDaemon \/ Joined \/ FreeCurl \/ CloseDb \/ FinalizeStatsd \/ Exit

Next ==
    \/ \E c \in Clients :
        \/ Accept(c) \/ Deliver(c) \/ HangUp(c)
        \/ \E r \in Requests : Send(c, r)
    \/ Continue \/ WorkerExit
    \/ Boot \/ Booting \/ BootFails \/ Sigint \/ Stopping \/ Crash

Spec == Init /\ [][Next]_vars

(* The scheduler runs both threads; curl gives up after 2000 ms, so even   *)
(* a fetch ends; the event loop serves every connection that is ready in   *)
(* each round, hence the strong fairness per client.  Nothing obliges a    *)
(* client to ask, an operator to interrupt, or the process to be started   *)
(* again.                                                                  *)
Fairness ==
    /\ WF_vars(Continue)
    /\ WF_vars(WorkerExit)
    /\ WF_vars(Booting)
    /\ WF_vars(Stopping)
    /\ \A c \in Clients : SF_vars(Accept(c)) /\ SF_vars(Deliver(c))

FairSpec == Spec /\ Fairness
=============================================================================
