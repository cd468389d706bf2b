------------------------------ MODULE DbTools ------------------------------
(***************************************************************************)
(* Two processes on one LMDB directory.  The daemon writes records; a      *)
(* program opens the directory by itself, call by call as db_open does,    *)
(* and walks it with a cursor (db_dump, db_list, lmdb-mydump), looks keys  *)
(* up (lmdb-ll-look) or loads a file of records (db_load).  LMDB is        *)
(* external: one write transaction at a time, readers with a snapshot, and *)
(* keys in order.                                                          *)
(***************************************************************************)
EXTENDS Db, SequencesExt

CONSTANTS
    Chars,        \* what texts are made of
    Order,        \* the keys, texts themselves, in LMDB's order
    Written,      \* the payloads the daemon writes
    Texts,        \* the texts, other than the last dump, that are loaded
    BufSize,      \* of the buffers of db_load and of db_get's callers
    SP, NL, CR, NUL, DELETE,
    Undecodable,  \* payloads json_decode refuses
    OpenFaults,   \* the calls of db_open that can fail
    MaxRuns,      \* bound: programs started
    MaxWrites     \* bound: records the daemon writes

VARIABLES
    daemon,     \* "idle", "waits" for the writer lock, "commit"
    order,      \* the record it waits to write
    holder,     \* whose txn is: "none", "daemon" or "tool"
    pc, fn,     \* the program: where it is in db.c, and what it runs
    held,       \* what it has allocated or begun and not yet given back
    view, at,   \* the snapshot and the place of its cursor
    out,        \* what it printed
    input,      \* what is left of its standard input
    result,     \* how the last program ended
    file,       \* the last complete dump
    backup,     \* ghost: the content file was made of
    calm,       \* ghost: file is loaded, nothing failed and nobody else wrote
    runs, writes

storevars == << disk, txn, holder >>
daemonvars == << daemon, order, writes >>
backupvars == << file, backup >>
progvars == << view, at, out, input >>
vars == << storevars, daemonvars, pc, fn, held, progvars, result,
           backupvars, calm, runs >>

AllOpenFaults == {"env_create", "set_maxdbs", "env_open", "txn_begin",
                  "dbi_open", "txn_commit", "cursor_open"}
Programs == {"dump", "list", "mydump", "look", "load"}
RdOnly == fn # "load"
Empty == [k \in {} |-> << >>]

ASSUME DbToolsAssumption ==
    /\ Keys \cup Written \cup Texts \subseteq Seq(Chars)
    /\ {SP, NL, CR} \subseteq Chars /\ SP # NL /\ SP # CR /\ NL # CR
    /\ Order \in Seq(Keys) /\ Range(Order) = Keys
    /\ \A i, j \in DOMAIN Order : Order[i] = Order[j] => i = j
    /\ BufSize \in Nat /\ BufSize >= 2
    /\ OpenFaults \subseteq AllOpenFaults /\ DbFaults \subseteq AllDbFaults
    /\ BadKeys \subseteq Keys /\ MaxRuns \in Nat /\ MaxWrites \in Nat
    /\ DELETE \notin Written

-----------------------------------------------------------------------------
(* Texts. *)
Finds(text, c) == {i \in 1 .. Len(text) : text[i] = c}

(* Mistakes: the 0 behind the place; bp for bp + 1. *)
CutBehind(text, c) ==
    IF Finds(text, c) = {} THEN text ELSE SubSeq(text, 1, Min(Finds(text, c)))
BehindWithIt(text, c) == SubSeq(text, Min(Finds(text, c)), Len(text))

(* strchr and a 0 in the place it found; and what stands behind it. *)
CutAt(text, c) ==
    IF Finds(text, c) = {} THEN text ELSE SubSeq(text, 1, Min(Finds(text, c)) - 1)
Behind(text, c) == SubSeq(text, Min(Finds(text, c)) + 1, Len(text))

(* A line of db_dump, which leaves out the NUL a record ends with; the     *)
(* next piece of a text that fgets delivers; and the records of a content  *)
(* under some keys, as db_dump prints them.                                *)
Line(k, v) == k \o << SP >> \o v \o << NL >>
Fgets(text) == SubSeq(text, 1, Min({BufSize - 1, Len(text)} \cup Finds(text, NL)))

Dumped(map, keys) ==
    FlattenSeq([i \in DOMAIN keys |->
                   IF keys[i] \in DOMAIN map THEN Line(keys[i], map[keys[i]]) ELSE << >>])

(* Mistake: the NUL is not copied. *)
FetchedNoNul(v) == SubSeq(v, 1, Min({BufSize, Len(v)}))

(* What db_get leaves in a buffer, and whether that is a string. *)
Fetched(v) == SubSeq(Append(v, NUL), 1, Min({BufSize, Len(v) + 1}))
IsString(text) == Finds(text, NUL) # {}

-----------------------------------------------------------------------------
(* The program's calls return, or it ends, with what it has not freed. *)
ToolOnly == UNCHANGED << daemonvars, backupvars, runs >>
Quietly == UNCHANGED << storevars, calm >> /\ ToolOnly

GoesOn(next, keeps) == pc' = next /\ held' = keeps /\ UNCHANGED << fn, result >>

Ends(keeps, how) ==
    /\ pc' = "idle" /\ held' = keeps /\ fn' = "none" /\ result' = how
    /\ view' = Empty /\ at' = 0 /\ out' = << >> /\ input' = << >>

(* A program is started; what it loads is the last dump or another text. *)
Run(f) ==
    /\ pc = "idle" /\ runs < MaxRuns
    /\ pc' = "env_create" /\ held' = {"struct"} /\ fn' = f /\ result' = "none"
    /\ \E text \in IF f = "load" THEN {file} \cup Texts ELSE {<< >>} :
         input' = text /\ calm' = (text = file)
    /\ runs' = runs + 1
    /\ UNCHANGED << storevars, daemonvars, backupvars, view, at, out >>

(* The process dies: killed, or by a NULL pointer.  LMDB drops its         *)
(* transactions and its lock.                                              *)
Dies ==
    /\ Ends({}, "died")
    /\ IF holder = "tool" THEN TxnLost /\ holder' = "none" ELSE UNCHANGED storevars
    /\ UNCHANGED calm /\ ToolOnly

Killed == pc # "idle" /\ Dies

-----------------------------------------------------------------------------
(* db_open.  When set_maxdbs or env_open fail the environment is kept.     *)
Call(name, next, keeps) ==
    /\ pc = name
    /\ \/ GoesOn(next, held \cup keeps) /\ UNCHANGED progvars
       \/ name \in OpenFaults /\ Ends(held \ {"struct"}, "not opened")
    /\ Quietly

mdb_env_create == Call("env_create", "set_maxdbs", {"env"})
mdb_env_set_maxdbs == Call("set_maxdbs", "env_open", {})
mdb_env_open == Call("env_open", "txn_begin", {})

(* What mdb_txn_begin returns is dropped: db_open goes on without a txn.   *)
(* A program that will write waits for the writer lock.                    *)
mdb_txn_begin ==
    /\ pc = "txn_begin"
    /\ \/ /\ RdOnly \/ holder = "none"
          /\ holder' = IF RdOnly THEN holder ELSE "tool"
          /\ GoesOn("dbi_open", held \cup {"txn"})
       \/ /\ "txn_begin" \in OpenFaults
          /\ GoesOn("dbi_open", held)
          /\ UNCHANGED holder
    /\ UNCHANGED << disk, txn, progvars, calm >> /\ ToolOnly

Unlocks == holder' = IF holder = "tool" THEN "none" ELSE holder

(* Mistake: the transaction is not aborted. *)
mdb_dbi_openKeepsTxn ==
    /\ pc = "dbi_open" /\ "txn" \in held
    /\ \/ GoesOn("txn_commit", held) /\ UNCHANGED progvars
       \/ "dbi_open" \in OpenFaults /\ Ends({"txn"}, "not opened")
    /\ Quietly

mdb_dbi_open ==
    \/ /\ pc = "dbi_open" /\ "txn" \in held
       /\ GoesOn("txn_commit", held) /\ UNCHANGED progvars
       /\ Quietly
    \/ /\ pc = "dbi_open" /\ "txn" \in held /\ "dbi_open" \in OpenFaults
       /\ Ends({}, "not opened")
       /\ Unlocks
       /\ UNCHANGED << disk, txn, calm >> /\ ToolOnly
    \/ pc = "dbi_open" /\ "txn" \notin held /\ Dies

mdb_txn_commit ==
    /\ pc = "txn_commit"
    /\ \/ GoesOn("opened", held \ {"txn"}) /\ UNCHANGED progvars
       \/ "txn_commit" \in OpenFaults /\ Ends({}, "not opened")
    /\ Unlocks
    /\ UNCHANGED << disk, txn, calm >> /\ ToolOnly

-----------------------------------------------------------------------------
(* db_dump, db_list and db_enum: a read transaction and a cursor.  The     *)
(* result of mdb_cursor_open is dropped: the cursor is then whatever was   *)
(* on the stack.                                                           *)
Walks == fn \in {"dump", "list", "mydump"}

(* Mistake: a read transaction that fails to begin is not cleaned up. *)
WalkBeginsOrStays ==
    /\ pc = "opened" /\ Walks
    /\ \/ /\ GoesOn("cursor_open", held \cup {"txn"})
          /\ view' = disk /\ UNCHANGED << at, out, input >>
       \/ "begin" \in DbFaults /\ Ends(held, "failed")
    /\ Quietly

WalkBegins ==
    /\ pc = "opened" /\ Walks
    /\ \/ /\ GoesOn("cursor_open", held \cup {"txn"})
          /\ view' = disk /\ UNCHANGED << at, out, input >>
       \/ "begin" \in DbFaults /\ Ends({}, "failed")
    /\ Quietly

mdb_cursor_open ==
    \/ /\ pc = "cursor_open"
       /\ GoesOn("walk", held \cup {"cursor"}) /\ UNCHANGED progvars
       /\ Quietly
    \/ pc = "cursor_open" /\ "cursor_open" \in OpenFaults /\ Dies

Ahead(map) == {i \in DOMAIN Order : i > at /\ Order[i] \in DOMAIN map}

(* Mistake: each record is read in a transaction of its own. *)
VisitsAnew ==
    /\ pc = "walk" /\ Ahead(disk) # {}
    /\ LET k == Order[Min(Ahead(disk))]
       IN  /\ ~(fn = "mydump" /\ disk[k] \in Undecodable)
           /\ out' = out \o Line(k, disk[k])
    /\ at' = Min(Ahead(disk))
    /\ \/ fn # "mydump" /\ GoesOn("walk", held)
       \/ fn # "dump" /\ GoesOn("close", held)
    /\ UNCHANGED << view, input >> /\ Quietly

(* One turn of the loop: db_dump goes on, the callback of lmdb-mydump      *)
(* returns 1, another one may return either.                               *)
Visits ==
    /\ pc = "walk" /\ Ahead(view) # {}
    /\ LET k == Order[Min(Ahead(view))]
       IN  /\ ~(fn = "mydump" /\ view[k] \in Undecodable)
           /\ out' = out \o Line(k, view[k])
    /\ at' = Min(Ahead(view))
    /\ \/ fn # "mydump" /\ GoesOn("walk", held)
       \/ fn # "dump" /\ GoesOn("close", held)
    /\ UNCHANGED << view, input >> /\ Quietly

(* lmdb-mydump gives json_stringify the NULL it got from json_decode. *)
MydumpFails ==
    /\ pc = "walk" /\ fn = "mydump" /\ Ahead(view) # {}
    /\ view[Order[Min(Ahead(view))]] \in Undecodable
    /\ Dies

(* The end of the database, or of the walk. *)
WalkEnds ==
    /\ pc = "close" \/ (pc = "walk" /\ Ahead(view) = {})
    /\ Ends({}, "done")
    /\ IF fn = "dump" THEN file' = out /\ backup' = view ELSE UNCHANGED backupvars
    /\ UNCHANGED << storevars, daemonvars, calm, runs >>

-----------------------------------------------------------------------------
(* lmdb-ll-look: one db_get per line, whose buffer it takes for a string.  *)
Looks ==
    /\ pc = "opened" /\ fn = "look"
    /\ \E k \in Keys :
         \E r \in db_get(k) : out' = IF r.found THEN Fetched(r.value) ELSE << >>
    /\ GoesOn("opened", held)
    /\ UNCHANGED << view, at, input >> /\ Quietly

LookEnds == pc = "opened" /\ fn = "look" /\ Ends({}, "done") /\ Quietly

-----------------------------------------------------------------------------
(* db_load: one transaction per record, and failures only reported.        *)
(* Pieces holds the one line, cut, that fgets delivers.                    *)
Pieces == {CutAt(CutAt(text, CR), NL) : text \in {Fgets(input)}}
Consumes ==
    /\ input' = SubSeq(input, Len(Fgets(input)) + 1, Len(input))
    /\ UNCHANGED << view, at, out >>

db_put(k, v) == IF v = DELETE THEN DelBegins(k) ELSE PutBegins(k, v)

Loading == pc = "opened" /\ fn = "load" /\ input # << >>

LoadSkips ==
    /\ Loading /\ \E piece \in Pieces : Finds(piece, SP) = {}
    /\ Consumes
    /\ GoesOn("opened", held)
    /\ Quietly

LoadPuts ==
    /\ Loading /\ holder = "none"
    /\ \E piece \in {p \in Pieces : Finds(p, SP) # {}} :
       \/ /\ \E k \in {CutAt(piece, SP)}, v \in {Behind(piece, SP)} : db_put(k, v)
          /\ holder' = "tool"
          /\ GoesOn("commit", held \cup {"txn"})
          /\ UNCHANGED calm
       \/ /\ BeginFails /\ UNCHANGED holder
          /\ GoesOn("opened", held)
          /\ calm' = FALSE
    /\ Consumes
    /\ ToolOnly

LoadCommits ==
    /\ pc = "commit"
    /\ \/ CommitOk /\ UNCHANGED calm
       \/ CommitFails /\ calm' = FALSE
    /\ holder' = "none"
    /\ GoesOn("opened", held \ {"txn"})
    /\ UNCHANGED progvars /\ ToolOnly

LoadEnds ==
    /\ pc = "opened" /\ fn = "load" /\ input = << >>
    /\ Ends({}, "loaded")
    /\ Quietly

-----------------------------------------------------------------------------
(* The daemon's db_put and db_del, which wait for the writer lock. *)
DaemonOnly == UNCHANGED << pc, fn, held, progvars, result, backupvars, runs >>

DaemonAsks(k, v) ==
    /\ daemon = "idle" /\ writes < MaxWrites
    /\ daemon' = "waits" /\ order' = [key |-> k, value |-> v]
    /\ writes' = writes + 1
    /\ UNCHANGED << storevars, calm >> /\ DaemonOnly

DaemonPuts ==
    /\ daemon = "waits" /\ holder = "none"
    /\ db_put(order.key, order.value)
    /\ daemon' = "commit" /\ holder' = "daemon"
    /\ UNCHANGED << order, writes, calm >> /\ DaemonOnly

DaemonCommits ==
    /\ daemon = "commit"
    /\ CommitOk \/ CommitFails
    /\ daemon' = "idle" /\ holder' = "none" /\ calm' = FALSE
    /\ UNCHANGED << order, writes >> /\ DaemonOnly

DaemonDies ==
    /\ daemon # "idle" /\ daemon' = "idle"
    /\ IF holder = "daemon" THEN TxnLost /\ holder' = "none" ELSE UNCHANGED storevars
    /\ UNCHANGED << order, writes, calm >> /\ DaemonOnly

-----------------------------------------------------------------------------
Init ==
    /\ disk = Empty /\ txn = NoTxn /\ holder = "none"
    /\ daemon = "idle" /\ order = NoTxn /\ writes = 0
    /\ pc = "idle" /\ fn = "none" /\ held = {} /\ result = "none" /\ runs = 0
    /\ view = Empty /\ at = 0 /\ out = << >> /\ input = << >>
    /\ file = << >> /\ backup = Empty /\ calm = TRUE

Opens ==
    \/ mdb_env_create \/ mdb_env_set_maxdbs \/ mdb_env_open \/ mdb_txn_begin
    \/ mdb_dbi_open \/ mdb_txn_commit

Works ==
    \/ WalkBegins \/ mdb_cursor_open \/ Visits \/ MydumpFails \/ WalkEnds
    \/ LookEnds
    \/ LoadSkips \/ LoadPuts \/ LoadCommits \/ LoadEnds

Next ==
    \/ \E f \in Programs : Run(f)
    \/ Opens \/ Works \/ Looks \/ Killed
    \/ \E k \in Keys \ BadKeys, v \in Written \cup {DELETE} : DaemonAsks(k, v)
    \/ DaemonPuts \/ DaemonCommits \/ DaemonDies

(* Both processes run.  The lock is a mutex that need not be fair, but the *)
(* text a program loads is finite, and so are the programs.                *)
Fairness ==
    /\ WF_vars(Opens) /\ WF_vars(Works)
    /\ WF_vars(DaemonPuts) /\ WF_vars(DaemonCommits)

Spec == Init /\ [][Next]_vars /\ Fairness
-----------------------------------------------------------------------------
Places == {"idle", "opened", "walk", "close", "commit"}
            \cup AllOpenFaults
Resources == {"struct", "env", "txn", "cursor"}

(* The types of the variables. *)
TypeOK ==
    /\ IsMap(disk) /\ IsTxn(txn) /\ IsMap(view) /\ IsMap(backup)
    /\ holder \in {"none", "daemon", "tool"}
    /\ daemon \in {"idle", "waits", "commit"} /\ writes \in 0 .. MaxWrites
    /\ pc \in Places /\ fn \in Programs \cup {"none"} /\ held \subseteq Resources
    /\ result \in {"none", "not opened", "opened", "failed", "done", "loaded", "died"}
    /\ at \in 0 .. Len(Order) /\ runs \in 0 .. MaxRuns /\ calm \in BOOLEAN

(* The only thing that is ever left allocated is the environment, when     *)
(* db_open fails before it has a transaction; and nobody reads a line or   *)
(* sits in a callback with the writer lock.  So a program that fails,      *)
(* dies or waits for its input never keeps the daemon from writing, and no *)
(* reader slot of LMDB is lost.                                            *)
GivesBack ==
    /\ pc = "idle" => held \subseteq {"env"}
    /\ pc = "opened" => held = {"struct", "env"}
    /\ holder = "tool" => fn = "load" /\ "txn" \in held
    /\ holder = "daemon" <=> daemon = "commit"

(* A dump is a consistent copy: whatever the daemon writes meanwhile, what *)
(* db_dump has printed so far is the part up to its cursor of one content  *)
(* of the database, and its whole output is all of that content.           *)
BackupWhole ==
    /\ fn = "dump" /\ pc = "walk" => out = Dumped(view, SubSeq(Order, 1, at))
    /\ file = Dumped(backup, Order)

(* The records db_load can take back: the line fits the buffer, but for    *)
(* its newline, and is cut where the key ends.                             *)
Loadable(k, v) ==
    /\ k \notin BadKeys /\ Finds(k, SP) = {} /\ v # DELETE
    /\ Finds(k \o v, CR) \cup Finds(k \o v, NL) = {}
    /\ Len(k) + 1 + Len(v) <= BufSize - 1

(* Dump and load are a backup: if every record of the dump is loadable and *)
(* the load went undisturbed, then every record is back as it was.         *)
RestoresBackup ==
    result = "loaded" /\ calm /\ (\A k \in DOMAIN backup : Loadable(k, backup[k]))
        => \A k \in DOMAIN backup : k \in DOMAIN disk /\ disk[k] = backup[k]

(* What lmdb-ll-look takes from its buffer for a string ends before the    *)
(* buffer does, unless the record filled the buffer, when it does not end. *)
OnlyFullBuffersUnended ==
    fn = "look" /\ out # << >> => (IsString(out) \/ Len(out) = BufSize)

(* The lock is shared: a write of the daemon is not kept waiting for ever, *)
(* and a program that was started ends, whatever failed in it or before.   *)
LockIsShared ==
    /\ daemon = "waits" ~> daemon # "waits"
    /\ pc # "idle" ~> pc = "idle"
=============================================================================
