--------------------------- MODULE Revgeod_proofs ---------------------------
(***************************************************************************)
(* What holds of the daemon for any clients, keys, positions, answers,     *)
(* database failures and bounds.                                           *)
(***************************************************************************)
EXTENDS RevgeodProps, Uptime, TLAPS, SequenceTheorems

(* What a lookup delivers is made of tokens, and on success it is one of   *)
(* the provider's answers for the position (revgeo_getdata).               *)
LEMMA GetdataDelivers ==
    ASSUME NEW x \in Coords, NEW o \in Outcomes(x),
           NEW r \in revgeo_getdata(Provider, x, o)
    PROVE  /\ r.ok \in BOOLEAN
           /\ r.text \in Buffers
           /\ r.ok => r.text \in Answers(x)
           /\ ~r.ok /\ x # Origin => r.text = Cleared
           /\ ~r.ok => [r.text EXCEPT !["village"] = << >>] = Cleared
  <1>1. r.ok => r.text \in Answers(x)
    BY DEF Answers
  <1>2. CASE x = Origin
    <2>1. r = [ok |-> FALSE,
               text |-> [Cleared EXCEPT !["village"] = << "Unknown (0,0)" >>]]
      BY <1>2 DEF revgeo_getdata
    <2>2. << "Unknown (0,0)" >> \in Text
      <3>1. \A t \in Token : << t >> \in Seq(Token)
        OBVIOUS
      <3> QED
        BY <3>1, TextsAssumption DEF Text
    <2>3. Cleared \in Buffers
      BY DEF Buffers, Cleared, Text
    <2>4. [Cleared EXCEPT !["village"] = << "Unknown (0,0)" >>] \in Buffers
      BY <2>2, <2>3 DEF Buffers
    <2>5. [[Cleared EXCEPT !["village"] = << "Unknown (0,0)" >>]
             EXCEPT !["village"] = << >>] = Cleared
      BY DEF Cleared
    <2> QED
      BY <2>1, <2>4, <2>5, <1>2
  <1>3. CASE x # Origin /\ o \in {HttpFailed, Nil}
    <2>1. r = [ok |-> FALSE, text |-> Cleared]
      BY <1>3 DEF revgeo_getdata
    <2>2. [Cleared EXCEPT !["village"] = << >>] = Cleared
      BY DEF Cleared
    <2> QED
      BY <2>1, <2>2 DEF Buffers, Cleared, Text
  <1>4. CASE x # Origin /\ o \notin {HttpFailed, Nil}
    <2>1. r.ok
      BY <1>4 DEF revgeo_getdata
    <2> QED
      BY <1>1, <2>1, TextsAssumption
  <1> QED
    BY <1>2, <1>3, <1>4

(* Appending to the buffers keeps them made of tokens, and appending to    *)
(* empty buffers (utstring_renew) is an assignment.                        *)
LEMMA AppendedText ==
    ASSUME bufs \in Buffers, NEW t \in Buffers
    PROVE  Appended(t) \in Buffers /\ (bufs = Cleared => Appended(t) = t)
  BY ConcatEmptySeq DEF Appended, Buffers, Cleared, Text

(* The record made of the buffers is a record (get_reversegeo). *)
LEMMA EntryOfText ==
    ASSUME NEW b \in Buffers
    PROVE  IsEntry(EntryOf(b))
  BY DEF EntryOf, EntryMembers, IsEntry, Buffers, Fields

-----------------------------------------------------------------------------
(* The write transactions of db_put and db_del, and what a commit leaves,  *)
(* are well formed.                                                        *)
LEMMA PutTxn ==
    ASSUME IsMap(disk), HoldsEntries(disk),
           NEW k \in Keys, NEW e, IsEntry(e), NEW t \in mdb_put(k, e)
    PROVE  IsTxn(t) /\ t.fn = "put" /\ HoldsEntries(t.view) /\ t # NoTxn
  <1>1. IsMap(With(disk, k, e)) /\ HoldsEntries(With(disk, k, e))
    BY DEF With, IsMap, HoldsEntries
  <1>2. \/ t = [fn |-> "put", view |-> With(disk, k, e), rc |-> "ok"]
        \/ t = [fn |-> "put", view |-> disk, rc |-> "badvalsize"]
        \/ t = [fn |-> "put", view |-> disk, rc |-> "full"]
    BY DEF mdb_put, Full
  <1>3. /\ t.fn = "put" /\ t.view \in {With(disk, k, e), disk}
        /\ t.rc \in {"ok", "badvalsize", "full"}
    BY <1>2
  <1>4. IsMap(t.view) /\ HoldsEntries(t.view)
    BY <1>1, <1>3 DEF IsMap, HoldsEntries
  <1> QED
    BY <1>3, <1>4 DEF IsTxn, NoTxn

LEMMA DelTxn ==
    ASSUME IsMap(disk), HoldsEntries(disk),
           NEW k \in Keys, NEW t \in mdb_del(k)
    PROVE  IsTxn(t) /\ t.fn = "del" /\ HoldsEntries(t.view) /\ t # NoTxn
  <1>1. IsMap(Without(disk, k)) /\ HoldsEntries(Without(disk, k))
    BY DEF Without, IsMap, HoldsEntries
  <1>2. \/ t = [fn |-> "del", view |-> Without(disk, k), rc |-> "ok"]
        \/ t = [fn |-> "del", view |-> disk, rc |-> "notfound"]
        \/ t = [fn |-> "del", view |-> disk, rc |-> "full"]
    BY DEF mdb_del, Full
  <1>3. /\ t.fn = "del" /\ t.view \in {Without(disk, k), disk}
        /\ t.rc \in {"ok", "notfound", "full"}
    BY <1>2
  <1>4. IsMap(t.view) /\ HoldsEntries(t.view)
    BY <1>1, <1>3 DEF IsMap, HoldsEntries
  <1> QED
    BY <1>3, <1>4 DEF IsTxn, NoTxn

LEMMA CommitTxn ==
    ASSUME IsMap(disk), HoldsEntries(disk), IsTxn(txn),
           txn # NoTxn => HoldsEntries(txn.view), CommitOk \/ CommitFails
    PROVE  IsMap(disk') /\ HoldsEntries(disk') /\ txn' = NoTxn
  BY DEF CommitOk, CommitFails, IsTxn
-----------------------------------------------------------------------------
(* What a connection carries has the fields its operation needs. *)
LEMMA RequestFields ==
    ASSUME NEW r \in Requests
    PROVE  /\ r.op = "rev" =>
                r.app \in Apps \cup {NoApp} /\ Cell(r) \in Keys \cup {NoKey}
           /\ r.op = "rev" /\ Cell(r) # NoKey => r.at \in Coords
           /\ r.op \in {"kill", "lookup"} => r.key \in Keys \cup {NoKey}
  <1>1. r \in AllRequests
    BY QueriesAssumption
  <1>2. /\ r.op = "rev" => r.app \in Apps \cup {NoApp} /\ r.at \in Coords \cup {NoCoord}
        /\ r.op \in {"kill", "lookup"} => r.key \in Keys \cup {NoKey}
    BY <1>1 DEF AllRequests
  <1> QED
    BY <1>2, QueriesAssumption DEF Cell

(* Counting a query keeps the counters counters (get_reversegeo). *)
LEMMA CountedStats ==
    ASSUME StatOK, NEW r \in Requests, r.op = "rev", Counted(r)
    PROVE  /\ st' \in [Counters -> Nat]
           /\ DOMAIN appcache' \subseteq Apps
           /\ appcache' \in [DOMAIN appcache' -> Nat]
  <1>1. r.app \in Apps \cup {NoApp}
    BY RequestFields
  <1>2. st' \in [Counters -> Nat]
    BY DEF StatOK, Counted, Count, Counters
  <1>3. CASE r.app = NoApp
    BY <1>2, <1>3 DEF StatOK, Counted
  <1>4. CASE r.app # NoApp
    BY <1>1, <1>2, <1>4 DEF StatOK, Counted
  <1> QED
    BY <1>3, <1>4

(* A step that leaves the store, the buffers and the worker's open         *)
(* transaction alone leaves StoreOK as it was.                             *)
LEMMA StoreUntouched ==
    ASSUME StoreOK, UNCHANGED << bufs, disk, txn >>,
           worker \notin {"commit", "kill"}, worker' \notin {"commit", "kill"}
    PROVE  StoreOK'
  BY DEF StoreOK, HoldsEntries

(* A handler's first step (handle_connection). *)
LEMMA AcceptStep ==
    ASSUME TypeOK, NEW c \in Clients, Accept(c)
    PROVE  TypeOK'
  <1>1. /\ UNCHANGED << procvars, conn, sent, boots >>
        /\ Waiting(c) /\ conn[c] \in Requests
        /\ UNCHANGED disk
    BY DEF Accept, RevRejects, RevBegins, KillBegins, Lookup, NoGeohash, Dump,
           Stats, Refuse, procvars, connvars, dbvars, DelBegins, BeginFails,
           Waiting, TypeOK, ConnOK
  <1>2. ProcOK'
    BY <1>1 DEF TypeOK, ProcOK, procvars
  <1>3. ConnOK'
    BY <1>1 DEF TypeOK, ConnOK, Accept, RevRejects, RevBegins, KillBegins, Lookup,
           NoGeohash, Dump, Stats, Refuse, Respond, connvars
  <1>4. CASE RevRejects(c)
    <2>1. WorkOK'
      BY <1>1, <1>4 DEF TypeOK, WorkOK, RevRejects, Waiting, Respond, Handling, procvars
    <2>2. StatOK'
      BY <1>1, <1>4, CountedStats DEF RevRejects, TypeOK, StatOK
    <2>3. StoreOK'
      BY <1>1, <1>4, StoreUntouched DEF RevRejects, Respond, dbvars, TypeOK, Waiting
    <2> QED
      BY <1>2, <1>3, <2>1, <2>2, <2>3 DEF TypeOK
  <1>5. CASE RevBegins(c)
    <2>1. WorkOK'
      BY <1>1, <1>5 DEF TypeOK, WorkOK, RevBegins, Waiting, Handling, procvars, connvars
    <2>2. StatOK'
      BY <1>1, <1>5, CountedStats DEF RevBegins, TypeOK, StatOK
    <2>3. StoreOK'
      BY <1>1, <1>5 DEF RevBegins, Waiting, dbvars, TypeOK, StoreOK, HoldsEntries,
                        Cleared, Buffers, Text
    <2> QED
      BY <1>2, <1>3, <2>1, <2>2, <2>3 DEF TypeOK
  <1>6. CASE KillBegins(c)
    <2>1. WorkOK'
      BY <1>1, <1>6, RequestFields
         DEF TypeOK, WorkOK, KillBegins, Waiting, Respond, Handling, procvars
    <2>2. StatOK'
      BY <1>6 DEF KillBegins, TypeOK, StatOK, statvars
    <2>3. CASE DelBegins(conn[c].key) /\ worker' = "kill"
      <3>1. txn' \in mdb_del(conn[c].key) /\ conn[c].key \in Keys
        BY <1>1, <1>6, <2>3, RequestFields DEF DelBegins, KillBegins
      <3>2. IsTxn(txn') /\ txn'.fn = "del" /\ HoldsEntries(txn'.view)
        BY <3>1, DelTxn DEF TypeOK, StoreOK
      <3>3. StoreOK'
        BY <1>1, <1>6, <2>3, <3>2 DEF TypeOK, StoreOK, KillBegins, HoldsEntries
      <3> QED
        BY <1>2, <1>3, <2>1, <2>2, <3>3 DEF TypeOK
    <2>4. CASE BeginFails /\ Respond(c, KillPage(1))
      <3>1. StoreOK'
        BY <1>1, <1>6, <2>4, StoreUntouched
           DEF BeginFails, KillBegins, Respond, TypeOK, Waiting
      <3> QED
        BY <1>2, <1>3, <2>1, <2>2, <3>1 DEF TypeOK
    <2> QED
      BY <1>6, <2>3, <2>4 DEF KillBegins
  <1>7. CASE Lookup(c) \/ NoGeohash(c) \/ Dump(c) \/ Stats(c) \/ Refuse(c)
    <2>1. WorkOK'
      BY <1>1, <1>7 DEF TypeOK, WorkOK, Lookup, NoGeohash, Dump, Stats, Refuse, Waiting,
                        Respond, Handling, procvars
    <2>2. StatOK'
      BY <1>7 DEF Lookup, NoGeohash, Dump, Stats, Refuse, TypeOK, StatOK, statvars,
                  Count, Counters
    <2>3. StoreOK'
      BY <1>1, <1>7, StoreUntouched DEF Lookup, NoGeohash, Dump, Stats, Refuse,
            Respond, dbvars, TypeOK, Waiting
    <2> QED
      BY <1>2, <1>3, <2>1, <2>2, <2>3 DEF TypeOK
  <1> QED
    BY <1>4, <1>5, <1>6, <1>7 DEF Accept
(* The handler goes on after a database or network call. *)
LEMMA ContinueStep ==
    ASSUME TypeOK, Continue
    PROVE  TypeOK'
  <1>1. /\ UNCHANGED << procvars, conn, sent, boots >>
        /\ worker \in Handling /\ cur \in Clients /\ conn[cur] \in Requests
        /\ reply[cur] = NoReply
    BY DEF Continue, RevHits, RevMisses, RevFetchFails, RevFetches, RevPuts,
           RevCommits, KillCommits, procvars, connvars, Handling, TypeOK, WorkOK,
           ConnOK
  <1>2. ProcOK'
    BY <1>1 DEF TypeOK, ProcOK, procvars
  <1>3. ConnOK'
    BY <1>1 DEF TypeOK, ConnOK, Continue, RevHits, RevMisses, RevFetchFails,
           RevFetches, RevPuts, RevCommits, RespondFetched, KillCommits, Respond,
           connvars
  <1>4. WorkOK'
    BY <1>1 DEF TypeOK, WorkOK, Continue, RevHits, RevMisses, RevFetchFails,
           RevFetches, RevPuts, RevCommits, RespondFetched, KillCommits, Respond,
           procvars, connvars, Handling
  <1>5. StatOK'
    BY <1>1, QueriesAssumption
       DEF TypeOK, StatOK, Continue, RevHits, RevMisses, RevFetchFails,
           RevFetches, RevPuts, RevCommits, KillCommits, statvars, Count, Counters
  <1>6. CASE RevHits \/ RevMisses
    <2>1. StoreOK'
      BY <1>1, <1>6, StoreUntouched
         DEF RevHits, RevMisses, Respond, dbvars, TypeOK
    <2> QED
      BY <1>2, <1>3, <1>4, <1>5, <2>1 DEF TypeOK
  <1>7. CASE RevFetchFails \/ RevFetches
    <2>1. conn[cur].at \in Coords
      BY <1>1, <1>7, RequestFields DEF RevFetchFails, RevFetches, TypeOK, WorkOK,
                                       Handling
    <2>2. bufs' \in Buffers
      BY <1>7, <2>1, GetdataDelivers, AppendedText
         DEF RevFetchFails, RevFetches, TypeOK, StoreOK
    <2>3. StoreOK'
      BY <1>7, <2>2 DEF RevFetchFails, RevFetches, Respond, dbvars, TypeOK, StoreOK,
                        HoldsEntries
    <2> QED
      BY <1>2, <1>3, <1>4, <1>5, <2>3 DEF TypeOK
  <1>8. CASE RevPuts
    <2>1. Cell(conn[cur]) \in Keys
      BY <1>1, <1>8, RequestFields DEF RevPuts, TypeOK, WorkOK, Handling
    <2>2. CASE PutBegins(Cell(conn[cur]), EntryOf(bufs)) /\ worker' = "commit"
      <3>1. txn' \in mdb_put(Cell(conn[cur]), EntryOf(bufs))
        BY <2>2 DEF PutBegins
      <3>2. IsTxn(txn') /\ txn'.fn = "put" /\ HoldsEntries(txn'.view)
        BY <2>1, <3>1, PutTxn, EntryOfText DEF TypeOK, StoreOK
      <3>3. StoreOK'
        BY <1>8, <2>2, <3>2 DEF RevPuts, PutBegins, TypeOK, StoreOK, HoldsEntries
      <3> QED
        BY <1>2, <1>3, <1>4, <1>5, <3>3 DEF TypeOK
    <2>3. CASE BeginFails /\ RespondFetched
      <3>1. StoreOK'
        BY <1>8, <2>3, StoreUntouched
           DEF RevPuts, BeginFails, RespondFetched, Respond, TypeOK
      <3> QED
        BY <1>2, <1>3, <1>4, <1>5, <3>1 DEF TypeOK
    <2> QED
      BY <1>8, <2>2, <2>3 DEF RevPuts
  <1>9. CASE RevCommits \/ KillCommits
    <2>1. /\ CommitOk \/ CommitFails
          /\ worker' = "idle" /\ UNCHANGED bufs
      BY <1>9 DEF RevCommits, KillCommits, RespondFetched, Respond
    <2>2. IsMap(disk') /\ HoldsEntries(disk') /\ txn' = NoTxn
      BY <2>1, CommitTxn DEF TypeOK, StoreOK
    <2>3. StoreOK'
      BY <2>1, <2>2 DEF TypeOK, StoreOK, NoTxn, IsTxn
    <2> QED
      BY <1>2, <1>3, <1>4, <1>5, <2>3 DEF TypeOK
  <1> QED
    BY <1>6, <1>7, <1>8, <1>9 DEF Continue

(* The event loop and the clients. *)
LEMMA LoopStep ==
    ASSUME TypeOK,
           \/ WorkerExit
           \/ \E c \in Clients : Deliver(c) \/ HangUp(c)
           \/ \E c \in Clients : \E r \in Requests : Send(c, r)
    PROVE  TypeOK'
  <1>1. CASE WorkerExit
    BY <1>1 DEF WorkerExit, TypeOK, ProcOK, ConnOK, WorkOK, StatOK, StoreOK,
                procvars, statvars, dbvars, Handling, HoldsEntries
  <1>2. ASSUME NEW c \in Clients, Deliver(c) \/ HangUp(c)
        PROVE  TypeOK'
    BY <1>2 DEF Deliver, HangUp, Closed, TypeOK, ProcOK, ConnOK, WorkOK, StatOK,
                StoreOK, procvars, workvars, statvars, dbvars, Handling, HoldsEntries
  <1>3. ASSUME NEW c \in Clients, NEW r \in Requests, Send(c, r)
        PROVE  TypeOK'
    <2>1. /\ ProcOK' /\ ConnOK' /\ StatOK' /\ StoreOK'
      BY <1>3 DEF Send, TypeOK, ProcOK, ConnOK, StatOK, StoreOK, procvars, workvars,
                  statvars, dbvars, HoldsEntries
    <2>2. WorkOK'
      BY <1>3 DEF Send, TypeOK, ConnOK, WorkOK, procvars, workvars, Handling
    <2> QED
      BY <2>1, <2>2 DEF TypeOK
  <1> QED
    BY <1>1, <1>2, <1>3

(* The process ends, one way or another. *)
LEMMA GoneStep ==
    ASSUME TypeOK, Gone
    PROVE  TypeOK'
  <1>1. ProcOK' /\ ConnOK' /\ WorkOK'
    BY DEF Gone, ProcOK, ConnOK, WorkOK, Handling, MainStates
  <1>2. StatOK'
    BY DEF Gone, TypeOK, StatOK, Zero, NoApps
  <1>3. StoreOK'
    BY DEF Gone, TxnLost, TypeOK, StoreOK, HoldsEntries, IsTxn, NoTxn, Cleared,
           Buffers, Text
  <1> QED
    BY <1>1, <1>2, <1>3 DEF TypeOK

(* main() and catcher. *)
LEMMA MainStep ==
    ASSUME TypeOK,
           \/ Boot \/ Booting \/ BootFails \/ Sigint \/ Stopping \/ Crash
    PROVE  TypeOK'
  <1>1. CASE Gone
    BY <1>1, GoneStep
  <1>2. CASE StartDaemon
    <2>1. ProcOK' /\ ConnOK' /\ WorkOK' /\ StatOK'
      BY <1>2 DEF StartDaemon, TypeOK, ProcOK, ConnOK, WorkOK, StatOK, MainStates,
                  connvars, statvars, Handling
    <2>2. StoreOK'
      BY <1>2 DEF StartDaemon, TypeOK, WorkOK, StoreOK, dbvars, HoldsEntries
    <2> QED
      BY <2>1, <2>2 DEF TypeOK
  <1>3. CASE \/ Boot \/ InitCurl \/ OpenDb \/ InstallSignals \/ AssignDaemon
             \/ Sigint \/ StopDaemon \/ Joined \/ FreeCurl \/ CloseDb
             \/ FinalizeStatsd
    <2>1. MainOnly /\ boots' \in {boots, boots + 1}
      BY <1>3 DEF Boot, InitCurl, OpenDb, InstallSignals, AssignDaemon, Sigint,
                  StopDaemon, Joined, FreeCurl, CloseDb, FinalizeStatsd, Release
    <2>2. ProcOK'
      BY <1>3 DEF Boot, InitCurl, OpenDb, InstallSignals, AssignDaemon, Sigint,
                  StopDaemon, Joined, FreeCurl, CloseDb, FinalizeStatsd, Release,
                  TypeOK, ProcOK, MainStates, Handles
    <2>3. ConnOK' /\ StatOK' /\ StoreOK'
      BY <2>1 DEF MainOnly, workvars, connvars, statvars, dbvars, TypeOK, ConnOK,
                  StatOK, StoreOK, HoldsEntries
    <2>4. main' \in {"down", "init", "open", "signals", "start"} => worker = "none"
      BY <1>3 DEF Boot, InitCurl, OpenDb, InstallSignals, AssignDaemon, Sigint,
                  StopDaemon, Joined, FreeCurl, CloseDb, FinalizeStatsd, Release,
                  TypeOK, WorkOK
    <2>5. WorkOK'
      BY <2>1, <2>4 DEF MainOnly, workvars, connvars, TypeOK, WorkOK
    <2> QED
      BY <2>2, <2>3, <2>5 DEF TypeOK
  <1> QED
    BY <1>1, <1>2, <1>3 DEF Booting, Stopping, BootFails, Crash, Exit

(* The type invariant, with what each step of a handler relies on: for any *)
(* clients, keys, positions, answers, database failures and bounds.        *)
THEOREM TypeCorrect == Spec => []TypeOK
  <1>1. Init => TypeOK
    <2> SUFFICES ASSUME Init PROVE TypeOK
      OBVIOUS
    <2>1. ProcOK /\ ConnOK /\ WorkOK
      BY DEF Init, ProcOK, ConnOK, WorkOK, Handling, MainStates
    <2>2. StatOK
      BY DEF Init, StatOK, Zero, NoApps
    <2>3. StoreOK
      BY DEF Init, StoreOK, HoldsEntries, IsMap, IsTxn, NoTxn, Cleared, Buffers, Text
    <2> QED
      BY <2>1, <2>2, <2>3 DEF TypeOK
  <1>2. TypeOK /\ [Next]_vars => TypeOK'
    <2> SUFFICES ASSUME TypeOK, [Next]_vars PROVE TypeOK'
      OBVIOUS
    <2>1. CASE Next
      BY <2>1, AcceptStep, ContinueStep, LoopStep, MainStep DEF Next
    <2>2. CASE UNCHANGED vars
      BY <2>2 DEF vars, procvars, workvars, connvars, statvars, dbvars, TypeOK, ProcOK,
                  ConnOK, WorkOK, StatOK, StoreOK, HoldsEntries
    <2> QED
      BY <2>1, <2>2
  <1> QED
    BY <1>1, <1>2, PTL DEF Spec
-----------------------------------------------------------------------------
(* catcher stops the daemon before it releases anything: what is open at   *)
(* each point of main() and catcher, and from where the worker is gone.    *)
ReleaseInv ==
    /\ main = "init" => live = {"statsd"}
    /\ main = "open" => live = {"statsd", "curl"}
    /\ main \in {"signals", "start", "assign", "sleep"} => live = Handles
    /\ mhdaemon => main \in {"sleep", "stop", "join", "free", "close", "finalize",
                             "exit"}
    /\ mhdaemon /\ main \in {"stop", "join"} => live = Handles
    /\ mhdaemon /\ main \in {"free", "close", "finalize", "exit"} => worker = "none"

(* The worker's own steps leave the main thread's state, and no handler    *)
(* runs when the worker is gone.                                           *)
LEMMA WorkerSteps ==
    ASSUME TypeOK,
           \/ \E c \in Clients :
                \/ Accept(c) \/ Deliver(c) \/ HangUp(c)
                \/ \E r \in Requests : Send(c, r)
           \/ Continue \/ WorkerExit
    PROVE  UNCHANGED << main, live, mhdaemon, quit >> /\ worker # "none"
  <1>1. CASE \E c \in Clients : Accept(c)
    BY <1>1 DEF Accept, RevRejects, RevBegins, KillBegins, Lookup, NoGeohash, Dump,
                Stats, Refuse, Waiting, procvars
  <1>2. CASE \E c \in Clients : \/ Deliver(c) \/ HangUp(c)
                               \/ \E r \in Requests : Send(c, r)
    BY <1>2 DEF Deliver, HangUp, Closed, Send, procvars
  <1>3. CASE Continue \/ WorkerExit
    BY <1>3 DEF Continue, RevHits, RevMisses, RevFetchFails, RevFetches, RevPuts,
                RevCommits, KillCommits, WorkerExit, procvars
  <1> QED
    BY <1>1, <1>2, <1>3

(* No handler runs on released handles: the shutdown order of catcher is   *)
(* right, however a SIGINT falls between the steps of a handler.           *)
THEOREM ReleaseCorrect == Spec => []StopBeforeRelease
  <1>1. Init => ReleaseInv
    BY DEF Init, ReleaseInv
  <1>2. TypeOK /\ ReleaseInv /\ [Next]_vars => ReleaseInv'
    <2> SUFFICES ASSUME TypeOK, ReleaseInv, [Next]_vars PROVE ReleaseInv'
      OBVIOUS
    <2>1. CASE \/ \E c \in Clients :
                   \/ Accept(c) \/ Deliver(c) \/ HangUp(c)
                   \/ \E r \in Requests : Send(c, r)
               \/ Continue \/ WorkerExit
      BY <2>1, WorkerSteps DEF ReleaseInv
    <2>2. CASE Gone
      BY <2>2 DEF Gone, ReleaseInv
    <2>3. CASE Boot \/ InitCurl \/ OpenDb \/ InstallSignals \/ AssignDaemon
      BY <2>3 DEF Boot, InitCurl, OpenDb, InstallSignals, AssignDaemon, MainOnly,
                  workvars, ReleaseInv, Handles
    <2>4. CASE StartDaemon
      BY <2>4 DEF StartDaemon, ReleaseInv
    <2>5. CASE Sigint \/ StopDaemon \/ Joined
      BY <2>5 DEF Sigint, StopDaemon, Joined, MainOnly, workvars, ReleaseInv
    <2>6. CASE FreeCurl \/ CloseDb \/ FinalizeStatsd
      BY <2>6 DEF FreeCurl, CloseDb, FinalizeStatsd, Release, MainOnly, workvars,
                  ReleaseInv
    <2>7. CASE UNCHANGED vars
      BY <2>7 DEF vars, procvars, workvars, ReleaseInv
    <2> QED
      BY <2>1, <2>2, <2>3, <2>4, <2>5, <2>6, <2>7
         DEF Next, Booting, Stopping, BootFails, Crash, Exit
  <1>3. ReleaseInv /\ TypeOK => StopBeforeRelease
    BY DEF ReleaseInv, StopBeforeRelease
  <1> QED
    BY <1>1, <1>2, <1>3, TypeCorrect, PTL DEF Spec

-----------------------------------------------------------------------------
(* The counters that /stats reports add up, at every step of a handler.    *)
THEOREM StatsCorrect == Spec => []StatsAddUp
  <1>1. Init => StatsAddUp
    BY QueriesAssumption DEF Init, StatsAddUp, Zero, Counters
  <1>2. TypeOK /\ StatsAddUp /\ [Next]_vars => StatsAddUp'
    <2> SUFFICES ASSUME TypeOK, StatsAddUp, [Next]_vars PROVE StatsAddUp'
      OBVIOUS
    <2>1. /\ st \in [Counters -> Nat] /\ rejected \in Nat
          /\ Provider \in {"opencage", "locationiq"}
      BY QueriesAssumption DEF TypeOK, StatOK
    <2>2. ASSUME NEW c \in Clients, Accept(c)
          PROVE  StatsAddUp'
      <3>1. CASE RevRejects(c)
        BY <2>1, <3>1 DEF RevRejects, Waiting, Counted, Count, Respond, StatsAddUp,
                          Counters
      <3>2. CASE RevBegins(c)
        BY <2>1, <3>2 DEF RevBegins, Waiting, Counted, Count, StatsAddUp, Counters
      <3>3. CASE KillBegins(c) \/ Lookup(c) \/ NoGeohash(c) \/ Dump(c) \/ Refuse(c)
        BY <2>1, <3>3 DEF KillBegins, Lookup, NoGeohash, Dump, Refuse, Waiting,
                          Respond, statvars, StatsAddUp
      <3>4. CASE Stats(c)
        BY <2>1, <3>4 DEF Stats, Waiting, Count, Respond, StatsAddUp, Counters
      <3> QED
        BY <2>2, <3>1, <3>2, <3>3, <3>4 DEF Accept
    <2>3. CASE RevHits
      BY <2>1, <2>3 DEF RevHits, Count, Respond, StatsAddUp, Counters
    <2>4. CASE RevMisses
      BY <2>1, <2>4 DEF RevMisses, Count, StatsAddUp, Counters
    <2>5. CASE RevFetchFails
      BY <2>1, <2>5 DEF RevFetchFails, Count, Respond, StatsAddUp, Counters
    <2>6. CASE RevFetches \/ RevPuts \/ RevCommits \/ KillCommits
      <3>1. /\ UNCHANGED << st, rejected >>
            /\ worker # "get" /\ worker' \notin {"get", "fetch"}
            /\ worker' \in {"put", "commit"} => worker \in {"fetch", "put"}
        BY <2>6 DEF RevFetches, RevPuts, RevCommits, RespondFetched, KillCommits,
                    Respond, statvars
      <3> QED
        BY <2>1, <3>1 DEF StatsAddUp, Counters
    <2>7. CASE Gone
      <3>1. worker' = "none" /\ rejected' = 0 /\ \A n \in Counters : st'[n] = 0
        BY <2>7 DEF Gone, Zero
      <3> QED
        BY <2>1, <3>1 DEF StatsAddUp, Counters
    <2>8. CASE \/ WorkerExit \/ StartDaemon
               \/ \E c \in Clients : \/ Deliver(c) \/ HangUp(c)
                                     \/ \E r \in Requests : Send(c, r)
      BY <2>1, <2>8 DEF WorkerExit, StartDaemon, Deliver, HangUp, Closed, Send, TypeOK,
                        WorkOK, statvars, workvars, StatsAddUp
    <2>9. CASE \/ Boot \/ InitCurl \/ OpenDb \/ InstallSignals \/ AssignDaemon
               \/ Sigint \/ StopDaemon \/ Joined \/ FreeCurl \/ CloseDb
               \/ FinalizeStatsd \/ UNCHANGED vars
      <3>1. UNCHANGED << worker, st, rejected >>
        BY <2>9 DEF Boot, InitCurl, OpenDb, InstallSignals, AssignDaemon, Sigint,
                    StopDaemon, Joined, FreeCurl, CloseDb, FinalizeStatsd, Release,
                    MainOnly, workvars, statvars, vars
      <3> QED
        BY <3>1 DEF StatsAddUp
    <2> QED
      BY <2>2, <2>3, <2>4, <2>5, <2>6, <2>7, <2>8, <2>9
         DEF Next, Continue, Booting, Stopping, BootFails, Crash, Exit
  <1> QED
    BY <1>1, <1>2, TypeCorrect, PTL DEF Spec
-----------------------------------------------------------------------------
(* The cache: what is in it, how long it stays, and what clients are told  *)
(* from it.                                                                *)

(* A record that belongs under key k: one of the provider's answers for a  *)
(* position of that cell.                                                  *)
Proper(k, e) ==
    \E x \in Coords : \E a \in Answers(x) : Geohash[x] = k /\ e = EntryOf(a)

(* The buffers are empty until the lookup and hold its answer after it;    *)
(* an open transaction sees proper records only.                           *)
AnswerInv ==
    /\ \A k \in DOMAIN disk : Proper(k, disk[k])
    /\ worker \in {"get", "fetch"} => bufs = Cleared
    /\ worker \in {"put", "commit"} => bufs \in Answers(conn[cur].at)
    /\ txn # NoTxn => \A k \in DOMAIN txn.view : Proper(k, txn.view[k])

(* The database changes only when a handler commits. *)
LEMMA DiskSteps ==
    ASSUME [Next]_vars
    PROVE  UNCHANGED disk \/ (RevCommits /\ CommitOk) \/ (KillCommits /\ CommitOk)
  <1>1. CASE \E c \in Clients :
              \/ Accept(c) \/ Deliver(c) \/ HangUp(c)
              \/ \E r \in Requests : Send(c, r)
    BY <1>1 DEF Accept, RevRejects, RevBegins, KillBegins, DelBegins, BeginFails,
                Lookup, NoGeohash, Dump, Stats, Refuse, Deliver, HangUp, Closed, Send,
                dbvars
  <1>2. CASE Continue \/ WorkerExit
    BY <1>2 DEF Continue, RevHits, RevMisses, RevFetchFails, RevFetches, RevPuts,
                PutBegins, BeginFails, RevCommits, KillCommits, CommitFails,
                WorkerExit, dbvars
  <1>3. CASE \/ Boot \/ Booting \/ BootFails \/ Sigint \/ Stopping \/ Crash
             \/ UNCHANGED vars
    BY <1>3 DEF Boot, Booting, InitCurl, OpenDb, InstallSignals, StartDaemon,
                AssignDaemon, BootFails, Sigint, Stopping, StopDaemon, Joined,
                FreeCurl, CloseDb, FinalizeStatsd, Release, Exit, Crash, Gone,
                TxnLost, MainOnly, dbvars, vars
  <1> QED
    BY <1>1, <1>2, <1>3 DEF Next

(* A handler in progress is served by its own steps only: every other step *)
(* leaves the request, the buffers and the transaction, or ends it all.    *)
LEMMA OtherSteps ==
    ASSUME TypeOK, [Next]_vars, ~Continue, \A c \in Clients : ~Accept(c)
    PROVE  \/ /\ UNCHANGED << bufs, disk, txn >>
              /\ worker' \in Handling =>
                   UNCHANGED << worker, cur >> /\ conn'[cur] = conn[cur]
           \/ Gone
  <1>1. CASE \E c \in Clients : \/ Deliver(c) \/ HangUp(c)
                               \/ \E r \in Requests : Send(c, r)
    BY <1>1 DEF Deliver, HangUp, Closed, Send, workvars, dbvars, Handling,
                TypeOK, WorkOK, ConnOK
  <1>2. CASE WorkerExit \/ StartDaemon
    BY <1>2 DEF WorkerExit, StartDaemon, dbvars, Handling
  <1>3. CASE \/ Boot \/ InitCurl \/ OpenDb \/ InstallSignals \/ AssignDaemon
             \/ Sigint \/ StopDaemon \/ Joined \/ FreeCurl \/ CloseDb
             \/ FinalizeStatsd \/ UNCHANGED vars
    BY <1>3 DEF Boot, InitCurl, OpenDb, InstallSignals, AssignDaemon, Sigint,
                StopDaemon, Joined, FreeCurl, CloseDb, FinalizeStatsd, Release,
                MainOnly, workvars, connvars, dbvars, vars
  <1> QED
    BY <1>1, <1>2, <1>3 DEF Next, Booting, Stopping, BootFails, Crash, Exit

LEMMA AnswerInvStep ==
    ASSUME TypeOK, AnswerInv, [Next]_vars
    PROVE  AnswerInv'
  <1>1. ASSUME NEW c \in Clients, Accept(c)
        PROVE  AnswerInv'
    <2>1. CASE RevBegins(c)
      BY <2>1 DEF RevBegins, Waiting, dbvars, connvars, AnswerInv
    <2>2. CASE KillBegins(c)
      <3>1. ASSUME DelBegins(conn[c].key)
            PROVE  \A k \in DOMAIN txn'.view : Proper(k, txn'.view[k])
        <4>1. txn' \in mdb_del(conn[c].key)
          BY <3>1 DEF DelBegins
        <4>2. txn'.view \in {disk, Without(disk, conn[c].key)}
          BY <4>1 DEF mdb_del, Full
        <4> QED
          BY <4>2 DEF Without, AnswerInv
      <3>2. AnswerInv'
        BY <2>2, <3>1 DEF KillBegins, DelBegins, BeginFails, Waiting, Respond,
                          AnswerInv
      <3> QED
        BY <3>2
    <2>3. CASE \/ RevRejects(c) \/ Lookup(c) \/ NoGeohash(c) \/ Dump(c) \/ Stats(c)
               \/ Refuse(c)
      BY <2>3 DEF RevRejects, Lookup, NoGeohash, Dump, Stats, Refuse, Respond, dbvars,
                  AnswerInv
    <2> QED
      BY <1>1, <2>1, <2>2, <2>3 DEF Accept
  <1>2. CASE RevHits \/ RevMisses
    BY <1>2 DEF RevHits, RevMisses, Respond, connvars, dbvars, AnswerInv
  <1>3. CASE RevFetchFails
    BY <1>3 DEF RevFetchFails, Respond, dbvars, AnswerInv
  <1>4. CASE RevFetches
    <2>1. conn[cur].at \in Coords
      BY <1>4, RequestFields DEF RevFetches, TypeOK, ConnOK, WorkOK, Handling
    <2>2. PICK o \in Outcomes(conn[cur].at) :
            \E r \in revgeo_getdata(Provider, conn[cur].at, o) :
                r.ok /\ bufs' = Appended(r.text)
      BY <1>4 DEF RevFetches
    <2>3. PICK r \in revgeo_getdata(Provider, conn[cur].at, o) :
            r.ok /\ bufs' = Appended(r.text)
      BY <2>2
    <2>4. r.text \in Answers(conn[cur].at) /\ r.text \in Buffers
      BY <2>1, <2>3, GetdataDelivers
    <2>5. bufs' = r.text
      BY <1>4, <2>3, <2>4, AppendedText
         DEF RevFetches, AnswerInv, TypeOK, StoreOK
    <2> QED
      BY <1>4, <2>4, <2>5 DEF RevFetches, connvars, dbvars, AnswerInv
  <1>5. CASE RevPuts
    <2>1. conn[cur].at \in Coords /\ Geohash[conn[cur].at] = Cell(conn[cur])
      BY <1>5, RequestFields, QueriesAssumption
         DEF RevPuts, TypeOK, ConnOK, WorkOK, Handling, Cell
    <2>2. Proper(Cell(conn[cur]), EntryOf(bufs))
      BY <1>5, <2>1 DEF RevPuts, AnswerInv, Proper
    <2>3. ASSUME PutBegins(Cell(conn[cur]), EntryOf(bufs))
          PROVE  \A k \in DOMAIN txn'.view : Proper(k, txn'.view[k])
      <3>1. txn' \in mdb_put(Cell(conn[cur]), EntryOf(bufs))
        BY <2>3 DEF PutBegins
      <3>2. txn'.view \in {disk, With(disk, Cell(conn[cur]), EntryOf(bufs))}
        BY <3>1 DEF mdb_put, Full
      <3> QED
        BY <2>2, <3>2 DEF With, AnswerInv
    <2> QED
      BY <1>5, <2>3 DEF RevPuts, PutBegins, BeginFails, RespondFetched, Respond,
                        AnswerInv
  <1>6. CASE RevCommits \/ KillCommits
    BY <1>6 DEF RevCommits, KillCommits, RespondFetched, Respond, CommitOk,
                CommitFails, AnswerInv
  <1>7. CASE ~Continue /\ \A c \in Clients : ~Accept(c)
    <2>1. CASE Gone
      BY <2>1 DEF Gone, TxnLost, AnswerInv
    <2>2. CASE /\ UNCHANGED << bufs, disk, txn >>
               /\ worker' \in Handling =>
                    UNCHANGED << worker, cur >> /\ conn'[cur] = conn[cur]
      BY <2>2 DEF AnswerInv, Handling
    <2> QED
      BY <1>7, <2>1, <2>2, OtherSteps
  <1> QED
    BY <1>1, <1>2, <1>3, <1>4, <1>5, <1>6, <1>7 DEF Continue

LEMMA AnswerInvCorrect == Spec => []AnswerInv
  <1>1. Init => AnswerInv
    BY DEF Init, AnswerInv
  <1>2. TypeOK /\ AnswerInv /\ [Next]_vars => AnswerInv'
    BY AnswerInvStep
  <1> QED
    BY <1>1, <1>2, TypeCorrect, PTL DEF Spec

(* Nothing is ever cached but an answer of the provider for the cell.      *)
THEOREM CacheCorrect == Spec => []OnlyAnswersCached
  <1>1. AnswerInv => OnlyAnswersCached
    BY DEF AnswerInv, OnlyAnswersCached, Proper
  <1> QED
    BY <1>1, AnswerInvCorrect, PTL
-----------------------------------------------------------------------------
ReadFaults == {"begin", "read"} \cap DbFaults # {}

(* A lookup goes on only when its cell is not cached (or the read failed), *)
(* and an open transaction differs from the content at its own key only.   *)
ViewInv ==
    /\ worker \in {"fetch", "put", "commit"} =>
         Cell(conn[cur]) \notin DOMAIN disk \/ ReadFaults
    /\ worker = "commit" => \A k \in DOMAIN disk :
         k \in DOMAIN txn.view /\ (txn.view[k] = disk[k] \/ k = Cell(conn[cur]))
    /\ worker = "kill" => \A k \in DOMAIN disk :
         IF k \in DOMAIN txn.view THEN txn.view[k] = disk[k] ELSE k = conn[cur].key

LEMMA ViewInvStep ==
    ASSUME TypeOK, ViewInv, [Next]_vars
    PROVE  ViewInv'
  <1>1. ASSUME NEW c \in Clients, Accept(c)
        PROVE  ViewInv'
    <2>1. CASE KillBegins(c)
      <3>1. ASSUME DelBegins(conn[c].key)
            PROVE  txn'.view \in {disk, Without(disk, conn[c].key)}
        <4>1. txn' \in mdb_del(conn[c].key)
          BY <3>1 DEF DelBegins
        <4> QED
          BY <4>1 DEF mdb_del, Full
      <3> QED
        BY <2>1, <3>1 DEF KillBegins, DelBegins, Without, Respond, ViewInv
    <2>2. CASE \/ RevRejects(c) \/ RevBegins(c) \/ Lookup(c) \/ NoGeohash(c)
               \/ Dump(c) \/ Stats(c) \/ Refuse(c)
      BY <2>2 DEF RevRejects, RevBegins, Lookup, NoGeohash, Dump, Stats, Refuse,
                  Respond, ViewInv
    <2> QED
      BY <1>1, <2>1, <2>2 DEF Accept
  <1>2. CASE RevHits \/ RevFetchFails \/ RevCommits \/ KillCommits
    BY <1>2 DEF RevHits, RevFetchFails, RevCommits, KillCommits, RespondFetched,
                Respond, ViewInv
  <1>3. CASE RevMisses
    <2>1. Cell(conn[cur]) \notin DOMAIN disk \/ ReadFaults
      BY <1>3 DEF RevMisses, db_get, Miss, ReadFaults
    <2> QED
      BY <1>3, <2>1 DEF RevMisses, connvars, dbvars, ViewInv, Cell
  <1>4. CASE RevFetches
    BY <1>4 DEF RevFetches, connvars, dbvars, ViewInv, Cell
  <1>5. CASE RevPuts
    <2>1. CASE PutBegins(Cell(conn[cur]), EntryOf(bufs)) /\ worker' = "commit"
      <3>1. txn' \in mdb_put(Cell(conn[cur]), EntryOf(bufs))
        BY <2>1 DEF PutBegins
      <3>2. txn'.view \in {disk, With(disk, Cell(conn[cur]), EntryOf(bufs))}
        BY <3>1 DEF mdb_put, Full
      <3>3. UNCHANGED << conn, disk >> /\ cur' = cur
        BY <1>5, <2>1 DEF RevPuts, PutBegins, RespondFetched, Respond, BeginFails
      <3> QED
        BY <1>5, <2>1, <3>2, <3>3 DEF RevPuts, With, ViewInv, Cell
    <2>2. CASE RespondFetched
      BY <2>2 DEF RespondFetched, Respond, ViewInv
    <2> QED
      BY <1>5, <2>1, <2>2 DEF RevPuts
  <1>6. CASE ~Continue /\ \A c \in Clients : ~Accept(c)
    <2>1. CASE Gone
      BY <2>1 DEF Gone, ViewInv
    <2>2. CASE /\ UNCHANGED << bufs, disk, txn >>
               /\ worker' \in Handling =>
                    UNCHANGED << worker, cur >> /\ conn'[cur] = conn[cur]
      BY <2>2 DEF ViewInv, Handling, Cell
    <2> QED
      BY <1>6, <2>1, <2>2, OtherSteps
  <1> QED
    BY <1>1, <1>2, <1>3, <1>4, <1>5, <1>6 DEF Continue

(* Entries stay: nothing but a /kill that names it removes an entry, and   *)
(* without failing reads nothing replaces one, through crashes, restarts,  *)
(* failed writes and lookups of other cells.                               *)
THEOREM EntriesStayCorrect == Spec => EntriesStay
  <1> DEFINE Kept == \A k \in DOMAIN disk :
        /\ k \notin DOMAIN disk' =>
             cur \in Clients /\ conn[cur].op = "kill" /\ conn[cur].key = k
        /\ k \in DOMAIN disk' /\ disk'[k] # disk[k] =>
             {"begin", "read"} \cap DbFaults # {}
  <1>1. Init => ViewInv
    BY DEF Init, ViewInv
  <1>2. TypeOK /\ ViewInv /\ [Next]_vars => ViewInv'
    BY ViewInvStep
  <1>3. TypeOK /\ ViewInv /\ [Next]_vars => [Kept]_vars
    <2> SUFFICES ASSUME TypeOK, ViewInv, [Next]_vars PROVE Kept
      OBVIOUS
    <2>1. CASE UNCHANGED disk
      BY <2>1
    <2>2. CASE RevCommits /\ CommitOk
      BY <2>2 DEF RevCommits, CommitOk, ViewInv, ReadFaults
    <2>3. CASE KillCommits /\ CommitOk
      BY <2>3 DEF KillCommits, CommitOk, ViewInv, TypeOK, WorkOK, Handling
    <2> QED
      BY <2>1, <2>2, <2>3, DiskSteps
  <1> QED
    BY <1>1, <1>2, <1>3, TypeCorrect, PTL DEF Spec, EntriesStay
-----------------------------------------------------------------------------
(* The responses that may wait on a connection with request r. *)
Fair(r, p) ==
    r.op = "rev" /\ p # NoReply /\ p.status = 200 =>
        \E q \in Permitted(r.at) : q.source = p.source /\ q.body = p.body

ReplyInv ==
    \A c \in Clients :
        /\ conn[c] = NoReq => reply[c] = NoReply
        /\ conn[c] # NoReq => Fair(conn[c], reply[c])

(* The three responses of get_reversegeo with status 200. *)
LEMMA HitIsFair ==
    ASSUME AnswerInv, NEW r, r.op = "rev", r.at \in Coords,
           Geohash[r.at] \in DOMAIN disk
    PROVE  Fair(r, Response(200, "lmdb", HitBody(disk[Geohash[r.at]])))
  <1>1. PICK y \in Coords : \E a \in Answers(y) :
          Geohash[y] = Geohash[r.at] /\ disk[Geohash[r.at]] = EntryOf(a)
    BY DEF AnswerInv, Proper
  <1>2. PICK a \in Answers(y) : disk[Geohash[r.at]] = EntryOf(a)
    BY <1>1
  <1>3. [source |-> "lmdb", body |-> HitBody(EntryOf(a))] \in Permitted(r.at)
    BY <1>1, <1>2 DEF Permitted
  <1> QED
    BY <1>2, <1>3 DEF Fair, Response

LEMMA FetchedIsFair ==
    ASSUME NEW r, NEW a \in Answers(r.at)
    PROVE  Fair(r, Response(200, Provider, MissBody(a["village"], a)))
  <1>1. [source |-> Provider, body |-> MissBody(a["village"], a)] \in Permitted(r.at)
    BY DEF Permitted
  <1> QED
    BY <1>1 DEF Fair, Response

LEMMA UnknownIsFair ==
    ASSUME NEW r, NEW b \in Buffers, [b EXCEPT !["village"] = << >>] = Cleared
    PROVE  Fair(r, Response(200, Provider, MissBody(UnknownAddress, b)))
  <1>1. \A f \in {"locality", "cc", "tzname"} : b[f] = Cleared[f]
    BY DEF Cleared, Buffers, Fields
  <1>2. MissBody(UnknownAddress, b) = MissBody(UnknownAddress, Cleared)
    BY <1>1 DEF MissBody
  <1>3. [source |-> Provider, body |-> MissBody(UnknownAddress, Cleared)]
          \in Permitted(r.at)
    BY DEF Permitted
  <1> QED
    BY <1>2, <1>3 DEF Fair, Response

(* Responding fairly on one connection is fair on all. *)
LEMMA RespondFairly ==
    ASSUME TypeOK, ReplyInv, NEW c \in Clients, NEW p, Respond(c, p),
           conn[c] # NoReq, conn' = conn, Fair(conn[c], p)
    PROVE  ReplyInv'
  <1>1. reply' = [reply EXCEPT ![c] = p] /\ DOMAIN reply = Clients
    BY DEF Respond, TypeOK, ConnOK
  <1>2. reply'[c] = p
    BY <1>1
  <1>3. \A d \in Clients \ {c} : reply'[d] = reply[d]
    BY <1>1
  <1>4. ASSUME NEW d \in Clients
        PROVE  /\ conn'[d] = NoReq => reply'[d] = NoReply
               /\ conn'[d] # NoReq => Fair(conn'[d], reply'[d])
    <2>1. CASE d = c
      BY <1>2, <2>1
    <2>2. CASE d # c
      BY <1>3, <2>2 DEF ReplyInv
    <2> QED
      BY <2>1, <2>2
  <1>5. \A d \in Clients : Fair(conn'[d], reply'[d]) <=> Fair(conn[d], reply[d])'
    BY DEF Fair, Permitted
  <1> QED
    BY <1>4, <1>5, Zenon DEF ReplyInv

LEMMA ReplyInvStep ==
    ASSUME TypeOK, AnswerInv, ReplyInv, [Next]_vars
    PROVE  ReplyInv'
  <1>1. ASSUME NEW c \in Clients, Accept(c)
        PROVE  ReplyInv'
    <2>1. conn' = conn /\ conn[c] # NoReq
      BY <1>1 DEF Accept, RevRejects, RevBegins, KillBegins, Lookup, NoGeohash, Dump,
                  Stats, Refuse, connvars, Waiting
    <2>2. CASE UNCHANGED reply
      BY <2>1, <2>2 DEF ReplyInv, Fair, Permitted
    <2>3. CASE RevRejects(c)
      <3>1. Fair(conn[c], Page(406))
        BY DEF Fair, Page, Response
      <3> QED
        BY <2>1, <2>3, <3>1, RespondFairly DEF RevRejects
    <2>4. ASSUME conn[c].op # "rev", NEW p, Respond(c, p)
          PROVE  ReplyInv'
      BY <2>1, <2>4, RespondFairly DEF Fair
    <2> QED
      BY <1>1, <2>2, <2>3, <2>4 DEF Accept, RevBegins, connvars, KillBegins, Lookup,
                                    NoGeohash, Dump, Stats, Refuse
  <1>2. ASSUME Continue
        PROVE  ReplyInv'
    <2>1. /\ conn' = conn /\ cur \in Clients /\ conn[cur] # NoReq
          /\ conn[cur] \in Requests
      BY <1>2 DEF Continue, RevHits, RevMisses, RevFetchFails, RevFetches, RevPuts,
                  RevCommits, KillCommits, connvars, TypeOK, ConnOK, WorkOK, Handling
    <2>2. worker # "kill" => /\ conn[cur].op = "rev" /\ conn[cur].at \in Coords
                            /\ Cell(conn[cur]) = Geohash[conn[cur].at]
      BY <1>2, <2>1, RequestFields, QueriesAssumption
         DEF Continue, RevHits, RevMisses, RevFetchFails, RevFetches, RevPuts,
             RevCommits, KillCommits, TypeOK, WorkOK, Handling, Cell
    <2>3. CASE UNCHANGED reply
      BY <2>1, <2>3 DEF ReplyInv, Fair, Permitted
    <2>4. CASE RevHits
      <3>1. /\ Geohash[conn[cur].at] \in DOMAIN disk
            /\ Respond(cur, Response(200, "lmdb",
                                     HitBody(disk[Geohash[conn[cur].at]])))
        BY <2>2, <2>4 DEF RevHits, db_get, Miss
      <3> QED
        BY <2>1, <2>2, <2>4, <3>1, HitIsFair, RespondFairly DEF RevHits
    <2>5. CASE RevFetchFails
      <3>1. PICK o \in Outcomes(conn[cur].at) :
              \E r \in revgeo_getdata(Provider, conn[cur].at, o) :
                  ~r.ok /\ bufs' = Appended(r.text)
        BY <2>5 DEF RevFetchFails
      <3>2. PICK r \in revgeo_getdata(Provider, conn[cur].at, o) :
              ~r.ok /\ bufs' = Appended(r.text)
        BY <3>1
      <3>3. /\ r.text \in Buffers
            /\ [r.text EXCEPT !["village"] = << >>] = Cleared
        BY <2>2, <2>5, <3>2, GetdataDelivers DEF RevFetchFails
      <3>4. bufs' = r.text
        BY <2>5, <3>2, <3>3, AppendedText
           DEF RevFetchFails, AnswerInv, TypeOK, StoreOK
      <3>5. Respond(cur, Response(200, Provider, MissBody(UnknownAddress, bufs')))
        BY <2>5 DEF RevFetchFails
      <3> QED
        BY <2>1, <3>3, <3>4, <3>5, UnknownIsFair, RespondFairly
    <2>6. CASE (RevPuts \/ RevCommits) /\ RespondFetched
      <3>1. bufs \in Answers(conn[cur].at)
        BY <2>6 DEF RevPuts, RevCommits, AnswerInv
      <3> QED
        BY <2>1, <2>6, <3>1, FetchedIsFair, RespondFairly DEF RespondFetched
    <2>7. CASE KillCommits
      <3>1. conn[cur].op # "rev"
        BY <2>7 DEF KillCommits, TypeOK, WorkOK, Handling
      <3> QED
        BY <2>1, <2>7, <3>1, RespondFairly DEF KillCommits, Fair
    <2> QED
      BY <1>2, <2>3, <2>4, <2>5, <2>6, <2>7
         DEF Continue, RevMisses, RevFetches, RevPuts, RevCommits, connvars
  <1>3. CASE Gone \/ WorkerExit
    BY <1>3 DEF Gone, WorkerExit, ReplyInv
  <1>4. ASSUME NEW c \in Clients, Deliver(c) \/ HangUp(c)
        PROVE  ReplyInv'
    BY <1>4 DEF Deliver, HangUp, Closed, TypeOK, ConnOK, ReplyInv, Fair, Permitted
  <1>5. ASSUME NEW c \in Clients, NEW r \in Requests, Send(c, r)
        PROVE  ReplyInv'
    BY <1>5 DEF Send, TypeOK, ConnOK, ReplyInv, Fair, Permitted
  <1>6. CASE Boot \/ Booting \/ Sigint \/ (Stopping /\ ~Gone) \/ UNCHANGED vars
    <2>1. UNCHANGED << conn, reply >>
      BY <1>6 DEF Boot, Booting, InitCurl, OpenDb, InstallSignals, StartDaemon,
                  AssignDaemon, Sigint, Stopping, StopDaemon, Joined, FreeCurl,
                  CloseDb, FinalizeStatsd, Release, Exit, MainOnly, connvars, vars
    <2> QED
      BY <2>1 DEF ReplyInv, Fair, Permitted
  <1> QED
    BY <1>1, <1>2, <1>3, <1>4, <1>5, <1>6 DEF Next, BootFails, Crash

(* No client is told about one place what belongs to another.              *)
THEOREM RepliesCorrect == Spec => []ReplyBelongsToCell
  <1>1. Init => ReplyInv
    BY DEF Init, ReplyInv
  <1>2. TypeOK /\ AnswerInv /\ ReplyInv /\ [Next]_vars => ReplyInv'
    BY ReplyInvStep
  <1>3. ReplyInv => ReplyBelongsToCell
    BY DEF ReplyInv, Fair, ReplyBelongsToCell
  <1> QED
    BY <1>1, <1>2, <1>3, TypeCorrect, AnswerInvCorrect, PTL DEF Spec
-----------------------------------------------------------------------------
(* The transaction between the halves of a call is what its one operation  *)
(* made of the content, which nothing else changes meanwhile.              *)
TxnInv ==
    /\ worker = "commit" => txn \in mdb_put(Cell(conn[cur]), EntryOf(bufs))
    /\ worker = "kill" => txn \in mdb_del(conn[cur].key)

LEMMA TxnInvStep ==
    ASSUME TypeOK, TxnInv, [Next]_vars
    PROVE  TxnInv'
  <1>1. ASSUME NEW c \in Clients, Accept(c)
        PROVE  TxnInv'
    <2>1. CASE KillBegins(c)
      BY <2>1 DEF KillBegins, DelBegins, BeginFails, Respond, TxnInv, mdb_del, Full
    <2>2. CASE \/ RevRejects(c) \/ RevBegins(c) \/ Lookup(c) \/ NoGeohash(c)
               \/ Dump(c) \/ Stats(c) \/ Refuse(c)
      BY <2>2 DEF RevRejects, RevBegins, Lookup, NoGeohash, Dump, Stats, Refuse,
                  Respond, TxnInv
    <2> QED
      BY <1>1, <2>1, <2>2 DEF Accept
  <1>2. CASE Continue /\ ~RevPuts
    BY <1>2 DEF Continue, RevHits, RevMisses, RevFetchFails, RevFetches, RevCommits,
                KillCommits, RespondFetched, Respond, TxnInv
  <1>3. CASE RevPuts
    BY <1>3 DEF RevPuts, PutBegins, BeginFails, RespondFetched, Respond, TxnInv,
                mdb_put, Full, Cell
  <1>4. CASE ~Continue /\ \A c \in Clients : ~Accept(c)
    <2>1. CASE Gone
      BY <2>1 DEF Gone, TxnInv
    <2>2. CASE /\ UNCHANGED << bufs, disk, txn >>
               /\ worker' \in Handling =>
                    UNCHANGED << worker, cur >> /\ conn'[cur] = conn[cur]
      BY <2>2 DEF TxnInv, Handling, Cell, mdb_put, mdb_del, Full
    <2> QED
      BY <1>4, <2>1, <2>2, OtherSteps
  <1> QED
    BY <1>1, <1>2, <1>3, <1>4

(* What the refinement needs of the constants: NULL and the placeholder    *)
(* for "no response yet" are no texts and no responses; and the three      *)
(* ways in which the code is known to break the promises are excluded:     *)
(* keys LMDB refuses, commits that fail by themselves, and answers that    *)
(* json.c writes but cannot read.                                          *)
PlaceholdersApart ==
    /\ Null \notin Text \cup {UnknownAddress}
    /\ \A status, source, body : NoReply # Response(status, source, body)

Reliable ==
    /\ "commit" \notin DbFaults
    /\ \A x \in Coords : Geohash[x] \notin BadKeys
    /\ \A x \in Coords : \A a \in Answers(x) : Decodable(EntryOf(a))

(* A record gives back the answer it was made of, and the address objects  *)
(* of a hit and of a miss hold the same texts.                             *)
LEMMA EntryGivesBack ==
    ASSUME PlaceholdersApart, NEW b \in Buffers
    PROVE  /\ AnswerOf(EntryOf(b)) = b
           /\ Essence(EntryOf(b)) = EntryOf(b)
           /\ Essence(MissBody(b["village"], b)) = EntryOf(b)
  <1>1. /\ DOMAIN b = Fields /\ b = [f \in Fields |-> b[f]]
        /\ \A f \in Fields : b[f] \in Text /\ b[f] # Null
    BY DEF Buffers, PlaceholdersApart
  <1>2. AnswerOf(EntryOf(b)) = [f \in Fields |-> b[f]]
    <2>1. DOMAIN EntryOf(b) = EntryMembers(b)
      BY DEF EntryOf
    <2>2. \A f \in EntryMembers(b) : EntryOf(b)[f] = b[f]
      BY DEF EntryOf
    <2>3. \A f \in Fields : f \notin EntryMembers(b) => b[f] = << >>
      BY DEF Fields, EntryMembers
    <2> QED
      BY <2>1, <2>2, <2>3 DEF AnswerOf
  <1>3. \A f \in EntryMembers(b) : f \in Fields
    BY DEF Fields, EntryMembers
  <1>4. Essence(EntryOf(b)) = EntryOf(b)
    <2>1. DOMAIN EntryOf(b) = EntryMembers(b)
      BY DEF EntryOf
    <2>2. \A f \in EntryMembers(b) : EntryOf(b)[f] = b[f] /\ b[f] # Null
      BY <1>1, <1>3 DEF EntryOf
    <2>3. {g \in DOMAIN EntryOf(b) : EntryOf(b)[g] # Null} = EntryMembers(b)
      BY <2>1, <2>2
    <2> QED
      BY <2>2, <2>3 DEF Essence, EntryOf
  <1>5. Essence(MissBody(b["village"], b)) = EntryOf(b)
    <2> DEFINE m == MissBody(b["village"], b)
               M == {"village", "cc", "tzname"} \cup {g \in {"locality"} : b[g] # << >>}
    <2>1. /\ DOMAIN m = M
          /\ \A f \in M : m[f] = IF f = "tzname" /\ b[f] = << >> THEN Null ELSE b[f]
      BY DEF MissBody
    <2>2. {g \in DOMAIN m : m[g] # Null} = EntryMembers(b)
      BY <1>1, <2>1 DEF EntryMembers, Fields
    <2>3. \A f \in EntryMembers(b) : m[f] = b[f]
      BY <2>1 DEF EntryMembers
    <2> HIDE DEF m
    <2>4. Essence(m) = [f \in EntryMembers(b) |-> m[f]]
      BY <2>2 DEF Essence
    <2> QED
      BY <2>3, <2>4 DEF EntryOf, m
  <1> QED
    BY <1>1, <1>2, <1>4, <1>5

LEMMA UnknownEssence ==
    ASSUME PlaceholdersApart, NEW b \in Buffers,
           [b EXCEPT !["village"] = << >>] = Cleared
    PROVE  Essence(MissBody(UnknownAddress, b)) = [village |-> UnknownAddress, cc |-> << >>]
  <1> DEFINE m == MissBody(UnknownAddress, b)
  <1>1. \A f \in {"locality", "cc", "tzname"} : b[f] = << >>
    BY DEF Cleared, Buffers, Fields
  <1>2. /\ DOMAIN m = {"village", "cc", "tzname"}
        /\ m["village"] = UnknownAddress /\ m["cc"] = << >> /\ m["tzname"] = Null
    BY <1>1 DEF MissBody
  <1>3. << >> # Null /\ UnknownAddress # Null
    <2>1. << >> \in Text
      BY DEF Text
    <2> QED
      BY <2>1 DEF PlaceholdersApart
  <1> HIDE DEF m
  <1>4. {g \in DOMAIN m : m[g] # Null} = {"village", "cc"}
    BY <1>2, <1>3
  <1>5. Essence(m) = [f \in {"village", "cc"} |-> m[f]]
    BY <1>4 DEF Essence
  <1> QED
    BY <1>2, <1>5 DEF m

(* What is cached is read back word for word. *)
LEMMA CachedReadsBack ==
    ASSUME PlaceholdersApart, Reliable, AnswerInv, NEW k \in DOMAIN disk
    PROVE  /\ Decodable(disk[k]) /\ HitBody(disk[k]) = disk[k]
           /\ Essence(disk[k]) = disk[k]
           /\ EntryOf(AnswerOf(disk[k])) = disk[k]
  <1>1. PICK x \in Coords : \E a \in Answers(x) : disk[k] = EntryOf(a)
    BY DEF AnswerInv, Proper
  <1>2. PICK a \in Answers(x) : disk[k] = EntryOf(a)
    BY <1>1
  <1>3. a \in Buffers
    BY TextsAssumption
  <1>4. Decodable(disk[k])
    BY <1>2 DEF Reliable
  <1> QED
    BY <1>2, <1>3, <1>4, EntryGivesBack DEF HitBody
-----------------------------------------------------------------------------
(* The cache as the mapping shows it. *)
Store == [k \in DOMAIN disk |-> AnswerOf(disk[k])]
Told == [c \in Clients |-> IF conn[c] = NoReq THEN NoReply
                           ELSE Seen(conn[c], reply[c])]
AbstractVars == << Store, conn, Told >>

(* GeoCache speaks of requests and answers in the same words. *)
LEMMA SameVocabulary ==
    /\ Cache!NoBody = NoBody /\ Cache!UnknownAddress = UnknownAddress
    /\ \A r : Cache!Cell(r) = Cell(r)
    /\ \A a : Cache!Served(a) = EntryOf(a)
    /\ \A x : Cache!Answers(x) = Answers(x)
    /\ \A S : Cache!Cardinality(S) = Cardinality(S)
  <1>1. /\ Cache!NoBody = NoBody /\ Cache!UnknownAddress = UnknownAddress
        /\ Cache!Fields = Fields /\ Cache!Cleared = Cleared
        /\ Cache!Nil = Nil /\ Cache!HttpFailed = HttpFailed /\ Cache!Stray = Stray
    BY DEF Cache!NoBody, NoBody, Cache!UnknownAddress, UnknownAddress, Cache!Fields,
           Fields, Cache!Cleared, Cleared, Cache!Nil, Nil, Cache!HttpFailed, HttpFailed,
           Cache!Stray, Stray
  <1>2. ASSUME NEW r PROVE Cache!Cell(r) = Cell(r)
    BY DEF Cache!Cell, Cell
  <1>3. ASSUME NEW a PROVE Cache!Served(a) = EntryOf(a)
    BY DEF Cache!Served, Cache!EntryOf, EntryOf, Cache!EntryMembers, EntryMembers
  <1>4. \A node, name : Cache!Member(node, name) = Member(node, name)
    BY <1>1 DEF Cache!Member, Member
  <1>5. \A node : /\ Cache!Zeroth(node) = Zeroth(node)
                  /\ Cache!StringOf(node) = StringOf(node)
    BY <1>1 DEF Cache!Zeroth, Zeroth, Cache!StringOf, StringOf
  <1>6. \A text : Cache!Capitals(text) = Capitals(text)
    BY DEF Cache!Capitals, Capitals
  <1>7. \A json : Cache!TimezoneNode(json) = TimezoneNode(json)
    BY <1>4, <1>5 DEF Cache!TimezoneNode, TimezoneNode
  <1>8. \A json : Cache!TimezoneTexts(json) = TimezoneTexts(json)
    BY <1>1, <1>5, <1>7 DEF Cache!TimezoneTexts, TimezoneTexts
  <1>9. \A json : /\ Cache!opencage_decode(json) = opencage_decode(json)
                  /\ Cache!locationiq_decode(json) = locationiq_decode(json)
    BY <1>4, <1>5, <1>6, <1>8 DEF Cache!opencage_decode, opencage_decode,
       Cache!locationiq_decode, locationiq_decode
  <1>10. \A p, json : Cache!Decode(p, json) = Decode(p, json)
    BY <1>9 DEF Cache!Decode, Decode
  <1>11. \A p, x, o : Cache!revgeo_getdata(p, x, o) = revgeo_getdata(p, x, o)
    BY <1>1, <1>10 DEF Cache!revgeo_getdata, revgeo_getdata
  <1>12. \A x : Cache!Outcomes(x) = Outcomes(x)
    BY <1>1 DEF Cache!Outcomes, Outcomes
  <1>13. ASSUME NEW x PROVE Cache!Answers(x) = Answers(x)
    BY <1>11, <1>12 DEF Cache!Answers, Answers
  <1>14. ASSUME NEW S PROVE Cache!Cardinality(S) = Cardinality(S)
    BY DEF Cache!Cardinality, Cardinality
  <1> QED
    BY <1>1, <1>2, <1>3, <1>13, <1>14

(* A step that leaves the content, the requests and the responses alone is *)
(* a stutter of the cache.                                                 *)
LEMMA Stutters ==
    ASSUME UNCHANGED << disk, conn, reply >>
    PROVE  UNCHANGED AbstractVars
  BY DEF AbstractVars, Store, Told, Seen

(* Tell of GeoCache, with the mapping. *)
Tells(c, status, seen) ==
    /\ conn[c] # NoReq /\ Told[c] = NoReply
    /\ Told' = [Told EXCEPT ![c] = [status |-> status, body |-> seen]]
    /\ UNCHANGED conn

(* A handler that responds tells its client something, and nobody else. *)
LEMMA RespondTells ==
    ASSUME TypeOK, PlaceholdersApart, NEW c \in Clients, conn[c] # NoReq,
           reply[c] = NoReply, conn' = conn,
           NEW status, NEW source, NEW body, NEW seen,
           Respond(c, Response(status, source, body)),
           Seen(conn[c], Response(status, source, body))
             = [status |-> status, body |-> seen]
    PROVE  Tells(c, status, seen)
  <1> DEFINE p == Response(status, source, body)
  <1>1. /\ reply' = [reply EXCEPT ![c] = p] /\ DOMAIN reply = Clients
        /\ p # NoReply
    BY DEF Respond, TypeOK, ConnOK, PlaceholdersApart
  <1>2. Told[c] = NoReply
    BY DEF Told, Seen
  <1>3. Told' = [Told EXCEPT ![c] = Seen(conn[c], p)]
    <2>1. \A d \in Clients : Told'[d] = IF conn[d] = NoReq THEN NoReply
                                        ELSE Seen(conn[d], reply'[d])
      BY DEF Told, Seen
    <2>2. \A d \in Clients \ {c} : reply'[d] = reply[d]
      BY <1>1
    <2>3. reply'[c] = p
      BY <1>1
    <2>4. \A d \in Clients : Told'[d] = IF d = c THEN Seen(conn[c], p) ELSE Told[d]
      BY <2>1, <2>2, <2>3 DEF Told
    <2>5. Told' = [d \in Clients |-> Told'[d]]
      BY DEF Told
    <2> QED
      BY <2>4, <2>5 DEF Told
  <1> QED
    BY <1>2, <1>3 DEF Tells

(* Connections that end take what was asked and told with them. *)
LEMMA ClosedCloses ==
    ASSUME TypeOK, NEW S \in SUBSET Clients, UNCHANGED disk,
           conn' = [c \in Clients |-> IF c \in S THEN NoReq ELSE conn[c]],
           \A c \in Clients \ S : reply'[c] = reply[c]
    PROVE  Cache!Next
  <1>1. Told' = [c \in Clients |-> IF c \in S THEN NoReply ELSE Told[c]]
    <2>1. \A c \in Clients : Told'[c] = IF c \in S THEN NoReply ELSE Told[c]
      BY DEF Told, Seen
    <2>2. Told' = [c \in Clients |-> Told'[c]]
      BY DEF Told
    <2> QED
      BY <2>1, <2>2
  <1>2. Cache!Close(S)
    BY <1>1 DEF Cache!Close, Told, AnswerOf
  <1> QED
    BY <1>2 DEF Cache!Next

(* Pages are seen as they are. *)
LEMMA PageSeen ==
    ASSUME NEW r, NEW status, status # 200 \/ r.op \notin {"rev", "stats"},
           PlaceholdersApart
    PROVE  Seen(r, Page(status)) = [status |-> status, body |-> NoBody]
  <1>1. Page(status) # NoReply
    BY DEF Page, PlaceholdersApart
  <1>2. Page(status).status = status /\ Page(status).body = NoBody
    BY DEF Page, Response
  <1> QED
    BY <1>1, <1>2 DEF Seen

(* A response of get_reversegeo is seen by the texts it holds. *)
LEMMA AddressSeen ==
    ASSUME NEW r, NEW source, NEW body, r.op = "rev", PlaceholdersApart
    PROVE  Seen(r, Response(200, source, body))
             = [status |-> 200, body |-> Essence(body)]
  <1> DEFINE p == Response(200, source, body)
  <1>1. p # NoReply
    BY DEF PlaceholdersApart
  <1>2. p.status = 200 /\ p.body = body
    BY DEF Response
  <1> HIDE DEF p
  <1> QED
    BY <1>1, <1>2 DEF Seen, p

-----------------------------------------------------------------------------
(* Handlers that make one call or none. *)
LEMMA AcceptMaps ==
    ASSUME TypeOK, AnswerInv, ReplyInv, PlaceholdersApart, Reliable,
           NEW c \in Clients, Accept(c)
    PROVE  Cache!Next \/ UNCHANGED AbstractVars
  <1>1. /\ conn' = conn /\ conn[c] # NoReq /\ reply[c] = NoReply
        /\ disk' = disk /\ conn[c] \in Requests
    BY DEF Accept, RevRejects, RevBegins, KillBegins, Lookup, NoGeohash, Dump, Stats,
           Refuse, Waiting, connvars, dbvars, DelBegins, BeginFails, TypeOK, ConnOK
  <1>2. Store' = Store
    BY <1>1 DEF Store
  <1>3. ASSUME NEW status, status # 200 \/ conn[c].op \notin {"rev", "stats"},
               Respond(c, Page(status))
        PROVE  Tells(c, status, NoBody)
    BY <1>1, <1>3, PageSeen, RespondTells DEF Page
  <1>4. CASE RevRejects(c)
    <2>1. Tells(c, 406, NoBody)
      BY <1>3, <1>4 DEF RevRejects
    <2> QED
      BY <1>1, <1>2, <1>4, <2>1, SameVocabulary DEF RevRejects, Cache!Reject, Cache!Next, Cache!Tell, Tells, Store, Told
  <1>5. CASE RevBegins(c)
    BY <1>5, Stutters DEF RevBegins, connvars, dbvars
  <1>6. CASE KillBegins(c)
    <2>1. CASE UNCHANGED reply
      BY <1>1, <2>1, Stutters
    <2>2. CASE BeginFails /\ Respond(c, KillPage(1))
      <3>1. Tells(c, 404, NoBody)
        BY <1>3, <2>2 DEF KillPage
      <3>2. DbFaults # {}
        BY <2>2 DEF BeginFails
      <3>3. Cache!KillNothing(c)
        BY <1>1, <1>2, <1>6, <3>1, <3>2, SameVocabulary DEF KillBegins, Cache!KillNothing, Cache!Tell, Tells, Store, Told
      <3> QED
        BY <1>1, <3>3 DEF Cache!Next
    <2> QED
      BY <1>6, <2>1, <2>2 DEF KillBegins
  <1>7. CASE Lookup(c)
    <2>1. CASE conn[c].key \in DOMAIN disk
                /\ Respond(c, Response(200, "none", disk[conn[c].key]))
      <3>1. Seen(conn[c], Response(200, "none", disk[conn[c].key]))
              = [status |-> 200, body |-> disk[conn[c].key]]
        <4>1. Response(200, "none", disk[conn[c].key]) # NoReply
          BY DEF PlaceholdersApart
        <4>2. conn[c].op = "lookup"
          BY <1>7 DEF Lookup
        <4> QED
          BY <4>1, <4>2 DEF Seen, Response
      <3>2. Tells(c, 200, disk[conn[c].key])
        BY <1>1, <2>1, <3>1, RespondTells
      <3>3. Cache!Served(Store[conn[c].key]) = disk[conn[c].key]
        BY <2>1, CachedReadsBack, SameVocabulary DEF Store
      <3> QED
        BY <1>1, <1>2, <1>7, <2>1, <3>2, <3>3, SameVocabulary DEF Lookup, Cache!Lookup, Cache!Next, Cache!Tell, Tells, Store, Told
    <2>2. CASE (conn[c].key \notin DOMAIN disk \/ ReadFaults) /\ Respond(c, Page(404))
      <3>1. Tells(c, 404, NoBody)
        BY <1>3, <2>2
      <3>2. Cache!Absent(conn[c].key)
        BY <2>2 DEF Cache!Absent, Store, ReadFaults
      <3> QED
        BY <1>1, <1>2, <1>7, <3>1, <3>2, SameVocabulary DEF Lookup, Cache!Lookup, Cache!Next, Cache!Tell, Tells, Store, Told
    <2> QED
      BY <1>7, <2>1, <2>2 DEF Lookup, db_get, Miss, ReadFaults
  <1>8. CASE NoGeohash(c)
    <2>1. Tells(c, 422, NoBody)
      BY <1>3, <1>8 DEF NoGeohash
    <2> QED
      BY <1>1, <1>2, <1>8, <2>1, SameVocabulary DEF NoGeohash, Cache!NoGeohash, Cache!Next, Cache!Tell, Tells, Store, Told
  <1>9. CASE Dump(c)
    <2>1. ASSUME NEW body, Respond(c, Response(200, "none", body))
          PROVE  Tells(c, 200, body)
      <3>1. Response(200, "none", body) # NoReply
        BY DEF PlaceholdersApart
      <3>2. conn[c].op = "dump"
        BY <1>9 DEF Dump
      <3>3. Seen(conn[c], Response(200, "none", body)) = [status |-> 200, body |-> body]
        BY <3>1, <3>2 DEF Seen, Response
      <3> QED
        BY <1>1, <2>1, <3>3, RespondTells
    <2>2. CASE Respond(c, Response(200, "none", DumpOf(disk)))
      <3>1. DumpOf(disk) = [k \in DOMAIN Store |-> Cache!Served(Store[k])]
        BY CachedReadsBack, SameVocabulary DEF DumpOf, Store
      <3>2. Tells(c, 200, [k \in DOMAIN Store |-> Cache!Served(Store[k])])
        <4>1. Tells(c, 200, DumpOf(disk))
          BY <2>1, <2>2
        <4> QED
          BY <3>1, <4>1
      <3> QED
        BY <1>1, <1>2, <1>9, <3>2, SameVocabulary DEF Dump, Cache!Dump, Cache!Next, Cache!Tell, Tells, Store, Told
    <2>3. CASE /\ "begin" \in DbFaults
               /\ Respond(c, Response(200, "none", [k \in {} |-> << >>]))
      <3>1. Tells(c, 200, [k \in {} |-> << >>])
        BY <2>1, <2>3
      <3> QED
        BY <1>1, <1>2, <1>9, <2>3, <3>1, SameVocabulary DEF Dump, Cache!Dump, Cache!Next, Cache!Tell, Tells, Store, Told
    <2> QED
      BY <1>9, <2>2, <2>3 DEF Dump
  <1>10. CASE Stats(c)
    <2> DEFINE body == [counters |-> st', apps |-> appcache,
                        db_entries |-> Cardinality(DOMAIN disk)]
    <2>1. Response(200, "none", body) # NoReply
      BY DEF PlaceholdersApart
    <2>2. conn[c].op = "stats"
      BY <1>10 DEF Stats
    <2>3. Seen(conn[c], Response(200, "none", body))
            = [status |-> 200, body |-> Cardinality(DOMAIN disk)]
      BY <2>1, <2>2 DEF Seen, Response
    <2>4. Tells(c, 200, Cardinality(DOMAIN disk))
      BY <1>1, <1>10, <2>3, RespondTells DEF Stats
    <2>5. DOMAIN disk = DOMAIN Store
      BY DEF Store
    <2>6. Cache!Stats(c)
      BY <1>2, <2>2, <2>4, <2>5, SameVocabulary DEF Cache!Stats, Cache!Tell, Tells, Store, Told
    <2> QED
      BY <1>1, <2>6 DEF Cache!Next
  <1>11. CASE Refuse(c)
    <2>1. CASE conn[c].op = "post"
      <3>1. Tells(c, 405, NoBody)
        BY <1>3, <1>11, <2>1 DEF Refuse
      <3> QED
        BY <1>1, <1>2, <2>1, <3>1, SameVocabulary DEF Cache!Refuse, Cache!Next, Cache!Tell, Tells, Store, Told
    <2>2. CASE conn[c].op = "other"
      <3>1. Tells(c, 404, NoBody)
        BY <1>3, <1>11, <2>2 DEF Refuse
      <3> QED
        BY <1>1, <1>2, <2>2, <3>1, SameVocabulary DEF Cache!Refuse, Cache!Next, Cache!Tell, Tells, Store, Told
    <2> QED
      BY <1>11, <2>1, <2>2 DEF Refuse
  <1> QED
    BY <1>4, <1>5, <1>6, <1>7, <1>8, <1>9, <1>10, <1>11 DEF Accept

(* The later halves of /rev and /kill. *)
LEMMA ActsOfNext ==
    ASSUME NEW c \in Clients, conn[c] # NoReq,
           \/ Cache!AnswerCached(c) \/ Cache!AnswerFresh(c)
           \/ Cache!AnswerUnknown(c) \/ Cache!Kill(c) \/ Cache!KillNothing(c)
    PROVE  Cache!Next
  BY Zenon DEF Cache!Next

LEMMA ContinueMaps ==
    ASSUME TypeOK, AnswerInv, ViewInv, TxnInv, PlaceholdersApart, Reliable, Continue
    PROVE  Cache!Next \/ UNCHANGED AbstractVars
  <1>1. /\ conn' = conn /\ cur \in Clients /\ conn[cur] # NoReq /\ reply[cur] = NoReply
        /\ conn[cur] \in Requests
    BY DEF Continue, RevHits, RevMisses, RevFetchFails, RevFetches, RevPuts, RevCommits,
           KillCommits, connvars, TypeOK, ConnOK, WorkOK, Handling
  <1>2. worker # "kill" => /\ conn[cur].op = "rev" /\ conn[cur].at \in Coords
                          /\ Cell(conn[cur]) = Geohash[conn[cur].at]
                          /\ Cell(conn[cur]) # NoKey
    BY <1>1, RequestFields, QueriesAssumption
       DEF Continue, RevHits, RevMisses, RevFetchFails, RevFetches, RevPuts, RevCommits,
           KillCommits, TypeOK, WorkOK, Handling, Cell
  <1> DEFINE k == Cell(conn[cur])
  <1> PICK c \in Clients : c = cur
    BY <1>1
  <1>3. ASSUME NEW source, NEW body, worker # "kill",
               Respond(cur, Response(200, source, body))
        PROVE  Tells(cur, 200, Essence(body))
    <2>1. Seen(conn[cur], Response(200, source, body))
            = [status |-> 200, body |-> Essence(body)]
      BY <1>2, <1>3, AddressSeen
    <2> QED
      BY <1>1, <1>3, <2>1, RespondTells
  <1>4. CASE RevHits
    <2>1. /\ k \in DOMAIN disk /\ UNCHANGED disk
          /\ Respond(cur, Response(200, "lmdb", HitBody(disk[k])))
      BY <1>4 DEF RevHits, db_get, Miss, dbvars
    <2>2. Essence(HitBody(disk[k])) = disk[k] /\ EntryOf(AnswerOf(disk[k])) = disk[k]
      BY <2>1, CachedReadsBack
    <2>3. Tells(cur, 200, disk[k])
      <3>1. worker # "kill"
        BY <1>4 DEF RevHits
      <3>2. Tells(cur, 200, Essence(HitBody(disk[k])))
        BY <1>3, <2>1, <3>1
      <3> QED
        BY <2>2, <3>2
    <2>4. Cache!Served(Store[k]) = disk[k]
      BY <2>1, <2>2, SameVocabulary DEF Store
    <2>5. Store' = Store
      BY <2>1 DEF Store
    <2>6. conn[cur].op = "rev"
      BY <1>2, <1>4 DEF RevHits
    <2>7. Cache!AnswerCached(c)
      BY <2>1, <2>3, <2>4, <2>5, <2>6, SameVocabulary
         DEF Cache!AnswerCached, Cache!Tell, Tells, Store, Told
    <2> QED
      BY <1>1, <2>7, ActsOfNext
  <1>5. CASE RevMisses \/ RevFetches
    BY <1>5, Stutters DEF RevMisses, RevFetches, connvars, dbvars
  <1>6. CASE RevFetchFails
    <2>1. PICK o \in Outcomes(conn[cur].at) :
            \E r \in revgeo_getdata(Provider, conn[cur].at, o) :
                ~r.ok /\ bufs' = Appended(r.text)
      BY <1>6 DEF RevFetchFails
    <2>2. PICK r \in revgeo_getdata(Provider, conn[cur].at, o) :
            ~r.ok /\ bufs' = Appended(r.text)
      BY <2>1
    <2>3. /\ r.text \in Buffers
          /\ [r.text EXCEPT !["village"] = << >>] = Cleared
      BY <1>2, <1>6, <2>2, GetdataDelivers DEF RevFetchFails
    <2>4. bufs' = r.text
      BY <1>6, <2>2, <2>3, AppendedText DEF RevFetchFails, AnswerInv, TypeOK, StoreOK
    <2>5. Respond(cur, Response(200, Provider, MissBody(UnknownAddress, r.text)))
      BY <1>6, <2>4 DEF RevFetchFails
    <2>6. Tells(cur, 200, [village |-> UnknownAddress, cc |-> << >>])
      <3>1. worker # "kill"
        BY <1>6 DEF RevFetchFails
      <3>2. Tells(cur, 200, Essence(MissBody(UnknownAddress, r.text)))
        BY <1>3, <2>5, <3>1
      <3> QED
        BY <2>3, <3>2, UnknownEssence
    <2>7. Store' = Store
      BY <1>6 DEF RevFetchFails, dbvars, Store
    <2>8. Cache!Absent(k)
      BY <1>6 DEF RevFetchFails, ViewInv, Cache!Absent, ReadFaults
    <2>9. conn[cur].op = "rev" /\ k # NoKey
      BY <1>2, <1>6 DEF RevFetchFails
    <2>10. Cache!AnswerUnknown(c)
      BY <2>6, <2>7, <2>8, <2>9, SameVocabulary
         DEF Cache!AnswerUnknown, Cache!Tell, Tells, Store, Told
    <2> QED
      BY <1>1, <2>10, ActsOfNext
  <1>7. ASSUME worker \in {"put", "commit"}, RespondFetched,
               \/ UNCHANGED disk /\ DbFaults # {}
               \/ disk' = With(disk, k, EntryOf(bufs))
        PROVE  Cache!Next
    <2>1. bufs \in Answers(conn[cur].at) /\ bufs \in Buffers
      BY <1>2, <1>7, TextsAssumption DEF AnswerInv
    <2>2. AnswerOf(EntryOf(bufs)) = bufs
          /\ Essence(MissBody(bufs["village"], bufs)) = EntryOf(bufs)
      BY <2>1, EntryGivesBack
    <2>3. Tells(cur, 200, EntryOf(bufs))
      <3>1. worker # "kill"
        BY <1>7
      <3>2. Tells(cur, 200, Essence(MissBody(bufs["village"], bufs)))
        BY <1>3, <1>7, <3>1 DEF RespondFetched
      <3> QED
        BY <2>2, <3>2
    <2>4. \/ Store' = [x \in DOMAIN Store \cup {k} |->
                         IF x = k THEN bufs ELSE Store[x]]
          \/ DbFaults # {} /\ Store' = Store
      <3>1. CASE UNCHANGED disk /\ DbFaults # {}
        BY <3>1 DEF Store
      <3>2. CASE disk' = With(disk, k, EntryOf(bufs))
        <4>1. /\ DOMAIN disk' = DOMAIN disk \cup {k}
              /\ \A x \in DOMAIN disk' :
                   disk'[x] = IF x = k THEN EntryOf(bufs) ELSE disk[x]
          BY <3>2 DEF With
        <4>2. Store' = [x \in DOMAIN disk' |-> AnswerOf(disk'[x])]
          BY DEF Store, AnswerOf
        <4> QED
          BY <2>2, <4>1, <4>2 DEF Store
      <3> QED
        BY <1>7, <3>1, <3>2
    <2>5. Cache!Absent(k)
      <3>1. ReadFaults \/ k \notin DOMAIN disk
        BY <1>7 DEF ViewInv
      <3> QED
        BY <3>1 DEF Cache!Absent, ReadFaults
    <2>6. conn[cur].op = "rev" /\ k # NoKey
      BY <1>2, <1>7
    <2>7. Cache!Served(bufs) = EntryOf(bufs) /\ Cache!Cell(conn[cur]) = k
          /\ bufs \in Cache!Answers(conn[cur].at)
      BY <2>1, SameVocabulary
    <2>8. Cache!AnswerFresh(c)
      <3> HIDE DEF k
      <3>1. PICK a \in Cache!Answers(conn[c].at) : a = bufs
        BY <2>7
      <3>2. /\ Told' = [Told EXCEPT ![c] = [status |-> 200, body |-> Cache!Served(a)]]
            /\ conn[c] # NoReq /\ Told[c] = NoReply /\ UNCHANGED conn
        BY <2>3, <2>7, <3>1 DEF Tells
      <3>3. \/ Store' = [x \in DOMAIN Store \cup {Cache!Cell(conn[c])} |->
                         IF x = Cache!Cell(conn[c]) THEN a ELSE Store[x]]
            \/ DbFaults # {} /\ UNCHANGED Store
        BY <2>4, <2>7, <3>1
      <3> QED
        BY <2>5, <2>6, <2>7, <3>2, <3>3 DEF Cache!AnswerFresh, Cache!Tell, Store, Told
    <2> QED
      BY <1>1, <2>8, ActsOfNext
  <1>8. CASE RevPuts
    <2>1. CASE PutBegins(Cell(conn[cur]), EntryOf(bufs)) /\ UNCHANGED reply
      BY <1>1, <2>1, Stutters DEF PutBegins
    <2>2. CASE BeginFails /\ RespondFetched
      BY <1>7, <1>8, <2>2 DEF RevPuts, BeginFails
    <2> QED
      BY <1>8, <2>1, <2>2 DEF RevPuts
  <1>9. CASE RevCommits
    <2>1. txn \in mdb_put(k, EntryOf(bufs))
      BY <1>9 DEF RevCommits, TxnInv
    <2>2. k \notin BadKeys
      BY <1>2, <1>9 DEF RevCommits, Reliable
    <2>3. \/ txn.rc = "ok" /\ txn.view = With(disk, k, EntryOf(bufs))
          \/ txn.rc = "full" /\ DbFaults # {}
      BY <2>1, <2>2 DEF mdb_put, Full
    <2>4. CASE CommitOk
      <3>1. disk' = With(disk, k, EntryOf(bufs))
        BY <2>3, <2>4 DEF CommitOk
      <3> QED
        BY <1>7, <1>9, <3>1 DEF RevCommits
    <2>5. CASE CommitFails
      <3>1. UNCHANGED disk /\ DbFaults # {}
        BY <2>3, <2>5 DEF CommitFails
      <3> QED
        BY <1>7, <1>9, <3>1 DEF RevCommits
    <2> QED
      BY <1>9, <2>4, <2>5 DEF RevCommits
  <1>10. CASE KillCommits
    <2> DEFINE n == conn[cur].key
    <2>1. conn[cur].op = "kill" /\ n \in Keys /\ n # NoKey
      BY <1>10, QueriesAssumption DEF KillCommits, TypeOK, WorkOK, Handling
    <2>2. txn \in mdb_del(n)
      BY <1>10 DEF KillCommits, TxnInv
    <2>3. \/ n \in DOMAIN disk /\ txn.rc = "ok" /\ txn.view = Without(disk, n)
          \/ n \notin DOMAIN disk /\ txn.rc = "notfound" /\ txn.view = disk
          \/ DbFaults # {} /\ txn.rc = "full"
      BY <2>2 DEF mdb_del, Full
    <2>4. ASSUME NEW status, Respond(cur, Page(status))
          PROVE  Tells(cur, status, NoBody)
      BY <1>1, <2>1, <2>4, PageSeen, RespondTells DEF Page
    <2>5. CASE txn.rc = "ok"
      <3>1. n \in DOMAIN disk /\ disk' = Without(disk, n)
        BY <1>10, <2>3, <2>5 DEF KillCommits, CommitOk, CommitFails, Reliable
      <3>2. Tells(cur, 200, NoBody)
        BY <1>10, <2>4, <2>5 DEF KillCommits, KillPage, DelReturn
      <3>3. Store' = [x \in DOMAIN Store \ {n} |-> Store[x]]
        <4>1. /\ DOMAIN disk' = DOMAIN disk \ {n}
              /\ \A x \in DOMAIN disk' : disk'[x] = disk[x]
          BY <3>1 DEF Without
        <4>2. Store' = [x \in DOMAIN disk' |-> AnswerOf(disk'[x])]
          BY DEF Store, AnswerOf
        <4> QED
          BY <4>1, <4>2 DEF Store
      <3>4. Cache!Kill(c)
        BY <2>1, <3>1, <3>2, <3>3, SameVocabulary
           DEF Cache!Kill, Cache!Tell, Tells, Store, Told
      <3> QED
        BY <1>1, <3>4, ActsOfNext
    <2>6. CASE txn.rc # "ok"
      <3>1. Tells(cur, 404, NoBody)
        BY <1>10, <2>4, <2>6 DEF KillCommits, KillPage, DelReturn
      <3>2. UNCHANGED disk /\ (n \notin DOMAIN disk \/ DbFaults # {})
        BY <1>10, <2>3, <2>6 DEF KillCommits, CommitOk, CommitFails
      <3>3. Store' = Store
        BY <3>2 DEF Store
      <3>4. Cache!KillNothing(c)
        BY <2>1, <3>1, <3>2, <3>3, SameVocabulary
           DEF Cache!KillNothing, Cache!Tell, Tells, Store, Told
      <3> QED
        BY <1>1, <3>4, ActsOfNext
    <2> QED
      BY <2>5, <2>6
  <1> QED
    BY <1>4, <1>5, <1>6, <1>8, <1>9, <1>10 DEF Continue

(* The clients, the event loop and the main thread. *)
LEMMA OtherMaps ==
    ASSUME TypeOK, ReplyInv, PlaceholdersApart, [Next]_vars,
           ~Continue, \A c \in Clients : ~Accept(c)
    PROVE  Cache!Next \/ UNCHANGED AbstractVars
  <1>1. ASSUME NEW c \in Clients, NEW r \in Requests, Send(c, r)
        PROVE  Cache!Next
    <2>1. /\ conn' = [conn EXCEPT ![c] = r] /\ DOMAIN conn = Clients /\ reply' = reply
          /\ conn[c] = NoReq /\ reply[c] = NoReply /\ disk' = disk
      BY <1>1 DEF Send, TypeOK, ConnOK, ReplyInv, dbvars
    <2>2. Told' = Told
      <3>1. \A d \in Clients : Told'[d] = Told[d]
        BY <2>1 DEF Told, Seen
      <3>2. Told' = [d \in Clients |-> Told'[d]]
        BY DEF Told
      <3> QED
        BY <3>1, <3>2 DEF Told
    <2>3. Store' = Store
      BY <2>1 DEF Store
    <2>4. Cache!Ask(c, r)
      BY <2>1, <2>2, <2>3 DEF Cache!Ask, Store, Told
    <2> QED
      BY <2>4 DEF Cache!Next
  <1>2. ASSUME NEW c \in Clients, Deliver(c) \/ HangUp(c)
        PROVE  Cache!Next
    <2>1. /\ conn' = [conn EXCEPT ![c] = NoReq] /\ DOMAIN conn = Clients
          /\ reply' = [reply EXCEPT ![c] = NoReply] /\ DOMAIN reply = Clients
          /\ disk' = disk
      BY <1>2 DEF Deliver, HangUp, Closed, TypeOK, ConnOK, dbvars
    <2>2. /\ conn' = [d \in Clients |-> IF d \in {c} THEN NoReq ELSE conn[d]]
          /\ \A d \in Clients \ {c} : reply'[d] = reply[d]
      BY <2>1
    <2> QED
      BY <2>1, <2>2, ClosedCloses
  <1>3. CASE Gone \/ WorkerExit
    <2>1. /\ conn' = [c \in Clients |-> IF c \in Clients THEN NoReq ELSE conn[c]]
          /\ disk' = disk
      BY <1>3 DEF Gone, TxnLost, WorkerExit, dbvars
    <2> QED
      BY <2>1, ClosedCloses
  <1>4. CASE Boot \/ Booting \/ Sigint \/ (Stopping /\ ~Gone) \/ UNCHANGED vars
    <2>1. UNCHANGED << disk, conn, reply >>
      BY <1>4 DEF Boot, Booting, InitCurl, OpenDb, InstallSignals, StartDaemon,
                  AssignDaemon, Sigint, Stopping, StopDaemon, Joined, FreeCurl,
                  CloseDb, FinalizeStatsd, Release, Exit, MainOnly, connvars, dbvars, vars
    <2> QED
      BY <2>1, Stutters
  <1> QED
    BY <1>1, <1>2, <1>3, <1>4 DEF Next, BootFails, Crash

(* The daemon implements the cache: for any clients, keys, positions,      *)
(* answers and crashes, every step of the threads is one of the steps      *)
(* GeoCache allows, or none, as long as the store accepts the keys, its    *)
(* commits fail for want of space only, and json.c can read what it wrote. *)
THEOREM CacheImplemented ==
    ASSUME PlaceholdersApart, Reliable
    PROVE  Spec => ImplementsCache
  <1>1. Init => Cache!Init
    BY DEF Init, Cache!Init, Cache!Cleared, Cleared, Seen
  <1>2. Init => TxnInv /\ ViewInv /\ ReplyInv
    BY DEF Init, TxnInv, ViewInv, ReplyInv
  <1>3. TypeOK /\ TxnInv /\ [Next]_vars => TxnInv'
    BY TxnInvStep
  <1>4. TypeOK /\ ViewInv /\ [Next]_vars => ViewInv'
    BY ViewInvStep
  <1>5. TypeOK /\ AnswerInv /\ ReplyInv /\ [Next]_vars => ReplyInv'
    BY ReplyInvStep
  <1>6. TypeOK /\ AnswerInv /\ ViewInv /\ TxnInv /\ ReplyInv /\ [Next]_vars
          => [Cache!Next]_(Cache!vars)
    <2> SUFFICES ASSUME TypeOK, AnswerInv, ViewInv, TxnInv, ReplyInv, [Next]_vars
                 PROVE  Cache!Next \/ UNCHANGED AbstractVars
      BY DEF Cache!vars, AbstractVars, Store, Told
    <2> QED
      BY AcceptMaps, ContinueMaps, OtherMaps
  <1> QED
    BY <1>1, <1>2, <1>3, <1>4, <1>5, <1>6, TypeCorrect, AnswerInvCorrect, PTL
       DEF Spec, ImplementsCache, Cache!Spec
-----------------------------------------------------------------------------
(* Division by a constant, as the next proof needs it. *)
LEMMA Divided ==
    ASSUME NEW s \in Nat, NEW b \in {60, 3600, 86400}
    PROVE  /\ Quotient(s, b) \in Nat
           /\ Quotient(s, b) * b <= s
           /\ s < Quotient(s, b) * b + b
<1>1. Quotient(s, b) = s \div b
  BY DEF Quotient
<1>2. CASE b = 60
  BY <1>1, <1>2
<1>3. CASE b = 3600
  BY <1>1, <1>3
<1>4. CASE b = 86400
  BY <1>1, <1>4
<1> QED
  BY <1>2, <1>3, <1>4

(* Every uptime that is not negative is readable. *)
THEOREM UptimeReadable == \A s \in Nat : Readable(s)
<1> SUFFICES ASSUME NEW s \in Nat PROVE Readable(s)
  OBVIOUS
<1> DEFINE d == Quotient(s, 86400)
           h == Quotient(s, 3600)
           m == Quotient(s, 60)
<1>1. d \in Nat /\ d * 86400 <= s /\ s < d * 86400 + 86400
  BY Divided
<1>2. h \in Nat /\ h * 3600 <= s /\ s < h * 3600 + 3600
  BY Divided
<1>3. m \in Nat /\ m * 60 <= s /\ s < m * 60 + 60
  BY Divided
<1>4. days(s) = d /\ hours(s) = h - d * 24 /\ mins(s) = m - h * 60
  <2>1. days(s) = d /\ hours(s) = h - d * 24
    BY DEF days, hours
  <2>2. mins(s) = m - d * 24 * 60 - (h - d * 24) * 60
    BY <2>1 DEF mins
  <2> HIDE DEF d, h, m
  <2> QED
    BY <2>1, <2>2, <1>1, <1>2, <1>3
<1> HIDE DEF d, h, m
<1>5. h - d * 24 >= 0 /\ h - d * 24 <= 23
  BY <1>1, <1>2
<1>6. m - h * 60 >= 0 /\ m - h * 60 <= 59
  BY <1>2, <1>3
<1>7. d * 86400 + (h - d * 24) * 3600 + (m - h * 60) * 60 = m * 60
  BY <1>1, <1>2, <1>3
<1> QED
  BY <1>1, <1>2, <1>3, <1>4, <1>5, <1>6, <1>7 DEF Readable

(* A clock that was set back behind the start of the daemon gives the      *)
(* uptime until the start, each number with a minus of its own.            *)
THEOREM UptimeMirrored ==
    \A s \in Nat : days(-s) = -days(s) /\ hours(-s) = -hours(s) /\ mins(-s) = -mins(s)
<1> SUFFICES ASSUME NEW s \in Nat
             PROVE  days(-s) = -days(s) /\ hours(-s) = -hours(s) /\ mins(-s) = -mins(s)
  OBVIOUS
<1>1. ASSUME NEW b \in {60, 3600, 86400}
      PROVE  Quotient(s, b) \in Int /\ Quotient(-s, b) = -Quotient(s, b)
  BY DEF Quotient
<1>2. days(-s) = -days(s) /\ days(s) \in Int
  BY <1>1 DEF days
<1>3. hours(-s) = -hours(s) /\ hours(s) \in Int
  BY <1>1, <1>2 DEF hours
<1> QED
  BY <1>1, <1>2, <1>3 DEF mins
=============================================================================
