# A verification development for revgeod

`revgeod` is an HTTP daemon that turns positions into addresses: it asks a
geocoding service (OpenCage or LocationIQ) and keeps the answers in an LMDB
database under the geohash of the position. This directory holds TLA+ modules
that model its C source, TLC configurations that check them on small instances,
and TLAPS proofs that hold for every instance. `PROJECT.json` maps every
definition to the lines it models, and lists the runs, their mutants, the
hazards and the theorems.

## Inventory

| Part | State it keeps | Operations | What makes it correct |
|---|---|---|---|
| HTTP handlers, `revgeod.c` 137-555 | `st` (counters), `appcache` (queries per application), the static buffers of `get_reversegeo` | `/rev`, `/kill`, `/lookup`, `/dump`, `/stats`, refusals | answers belong to the place asked for; only answers are cached; the counters add up; every request ends |
| Process, `revgeod.c` 99-127, 557-644 | `mhdaemon`, `db`, the curl and statsd handles | boot, SIGINT (`catcher`), exit | nothing is released under the worker; SIGINT ends the process; a crash loses nothing cached |
| Answer cache, `db.c` | the LMDB environment | `db_put`, `db_del`, `db_get`, `db_enum`, `db_numentries`; `db_open`, `db_close`; for the tools `db_load`, `db_list`, `db_dump` | return codes tell the truth; a call touches its own key only; atomic over a crash |
| Geocoding client, `geo.c` | the curl handle, two static buffers | `revgeo_getdata`, the decoders, `http_get` | a failure delivers nothing; fields come from the members they are named after |
| JSON, `json.c` | the trees it builds | parse, emit, build, look up, check | the links of a tree agree; deleting frees the subtree, once; what is emitted parses back to the same tree |
| Geohash, `geohash.c` | none | encode, decode, neighbours, dimensions | a cell contains what was encoded to it; its centre encodes to it |
| Programs beside the daemon: `lmdb-mydump.c`, `lmdb-ll-look.c`, and `db_dump`, `db_list`, `db_load` of `db.c`, which no `main` here calls | an LMDB environment of their own | walk the database, look keys up, load records | a dump is one content of the database; loading it brings it back; nobody keeps the writer lock |
| `statsd-client.c`, `uptimed.c` | the statsd link; the last counters | sending statistics; reporting load, memory, traffic and CPU every minute | each metric once and right; SIGTERM ends the daemon |
| `uptime.c` | none | the text of an uptime | days, hours and minutes carry right |
| Vendored containers `uthash.h`, `utstring.h`; clients, build files, packaging | - | - | outside the project |

### How the parts interact

Two threads live in the daemon. The main thread initialises statsd, curl and
LMDB in this order, installs the handler for SIGINT, starts libmicrohttpd and
sleeps for ever. The one worker thread of libmicrohttpd runs every handler, one
at a time, so a handler is never interleaved with another one; the interleavings
that matter are those of a handler's steps with the signal handler on the main
thread, with a crash, and with clients that ask and hang up. Handlers call
`db.c` (one transaction per call) and `geo.c` (one HTTP request of at most two
seconds, which blocks all other clients). The address that a miss answers with
is built from the static buffers, the one that a hit answers with from the
stored JSON text: two code paths that should say the same thing.

### What is hard here

The order of the releases in `catcher` against the worker; buffers that are
static and only appended to; transactions whose failures are reported through
two return codes of which one is kept; a process that dies between `mdb_put` and
the commit; counters incremented at different points of a handler with several
early returns; texts that are stored and do not parse again. `PROJECT.json`
lists each of these at its line, with the properties that would catch it, and
those that no property covers yet with the reason.

## Modules

| Module | What it is |
|---|---|
| `Geo` | `geo.c` as operators: what one answer of the service puts into the buffers |
| `Queries` | the vocabulary of the HTTP interface: requests, cached records, address objects |
| `Db` | `db.c` over LMDB: two variables and one operator for each half of a call; no specification of its own |
| `DbCalls` | any caller of `db.c`; its properties; refinement to `KVMap` |
| `KVMap` | abstract specification: an atomic map with truthful return codes |
| `Revgeod` | the daemon: `revgeod.c` over `Queries` and `Db` |
| `GeoCache` | abstract specification: an atomic, honest cache of answers |
| `RevgeodProps` | the properties of the daemon, and the refinement to `GeoCache` |
| `DbTools` | a program that opens the database beside the daemon: `db_open` call by call, the walks, the lookups, the load, and the daemon's writes; its properties |
| `Geohash` | `geohash.c`: the loops of encode and decode, the neighbour tables, the dimensions |
| `JsonTree` | the trees of `json.c`, changed by any sequence of legal calls |
| `JsonForest` | abstract specification: every node has a sequence of children |
| `Unicode` | the helpers of `json.c` for UTF-8, UTF-16 and hexadecimal, with the definitions of RFC 3629 |
| `JsonParse` | `json_decode` and `json_validate`: the recursive descent over a text |
| `JsonGrammar` | the grammar of RFC 4627, as the set of trees a text means, and what it asks of the parser |
| `JsonText` | what `json_stringify` writes, and that the parser reads it back |
| `StatsdClient` | `statsd-client.c` as operators: what each function returns and leaves allocated |
| `Uptimed` | `uptimed.c`, with its properties |
| `Uptime` | `uptime.c` as operators |
| `MCDbCalls`, `MCDbTools`, `MCRevgeod`, `MCGeohash`, `MCJsonTree`, `MCJsonText`, `MCUptimed` | the values of the constants for TLC |
| `DbCalls_proofs`, `DbTools_proofs`, `Revgeod_proofs` (with `Uptime`), `Geohash_proofs`, `JsonTree_proofs`, `JsonGrammar_proofs` (with `JsonParse`), `JsonText_proofs`, `Uptimed_proofs` | theorems and their proofs |

`Revgeod`, `DbCalls` and `DbTools` build on `Db`; `Revgeod` takes the answers of the
service from `Geo`. `Geohash`, `JsonTree` and `JsonText` (with `JsonGrammar`, `JsonParse`
and `Unicode`) stand alone: the daemon's model
needs of the geohash only that it is a function of the position, and of a JSON
document only its value.

### From the code to the model

*Texts.* A text is a sequence of tokens. `utstring_printf` appends, so filling a
buffer is concatenation, and a buffer that is not renewed keeps its old text; the
empty text is the empty sequence, as the code tests lengths. A JSON document is
a tree of records with `json.h`'s tags. The text that `json_stringify` makes of a
record is modelled by the record itself and by `Decodable`, which says whether
`json_decode` accepts the text again.

*Database.* `disk` is the committed content, `txn` the open write transaction.
`db_put` and `db_del` are two steps, begin-and-change and commit, because the
process can die in between; `db_get` reads one snapshot and is one step. What
LMDB does is external: it may refuse to begin, to read, to write (full) or to
commit, as `DbFaults` says, and it refuses the keys in `BadKeys`. A transaction
in which a write failed for lack of space cannot commit any more. After a failed
commit the code aborts the transaction, which LMDB has already released; that is
undefined, and the model lets the process go on or die.

*Programs beside the daemon.* Here a text is a sequence of characters, and keys
and payloads are texts. `pc` is the place in `db.c`, `held` what the program has
allocated or begun (`struct db`, the environment, a transaction, a cursor), and
`view` its snapshot. One step is one call of LMDB, one turn of a loop or one line
of input. `holder` is LMDB's lock on writers, which both processes wait for:
`txn` is its transaction, made by the `mdb_put` and `mdb_del` of `Db`. `db_open`
drops what its `mdb_txn_begin` returns and goes on; with a NULL transaction the
next call ends the process (`Dies`). A callback of `db_enum` and `db_list` may
stop the walk or not; that of `lmdb-mydump` always stops it, after the first
record. `db_load` reads pieces of at most `BufSize - 1` characters, cuts them at
the first CR or newline, and splits them at the first space. `file` is the output
of the last complete dump, which a later program may load, and `backup` a ghost:
the content it was made of. Either process may be killed between any two steps.

*uptimed.* The three counters of `/proc/stat` that count are natural numbers, as
the kernel has 64 bits for them; `main` keeps them modulo `W`. The values that
`sysinfo` delivers are not told apart. `NetRow` is one turn of the loop over
`/proc/net/dev`: after the last row `fgets` fails, the row is still in the
buffer, and `strtok_r` has cut it after its first word. A namespace with a
hardware address overflows its array by two bytes; going on and dying are both
steps. So they are without a link, when a buffer is appended that nothing was
written to. `seen` and `span` are ghosts.

*Handlers.* `/rev` is `RevRejects`, or `RevBegins` (counted, buffers renewed),
then `RevHits`, or `RevMisses`, then `RevFetchFails`, or `RevFetches`, `RevPuts`
and `RevCommits`. `/kill` is `KillBegins` and `KillCommits`. The others make one
call to the database and are one step. `Respond` is the queued response;
`Deliver` and `HangUp` end a connection.

*Process.* `main` walks through `main()`. `StartDaemon` and `AssignDaemon` are
two steps, because libmicrohttpd starts the worker before the global
`mhdaemon` is assigned. `Sigint` enters `catcher` on the main thread;
`StopDaemon` (which does nothing for a NULL daemon), `Joined`, `FreeCurl`,
`CloseDb`, `FinalizeStatsd` and `Exit` are its calls in order. `Crash` is every
other way to die, from a power failure to the second SIGINT that interrupts
`catcher`.

*Geohash.* Positions are integers on a grid on which every midpoint of the
bisection is a grid point; the doubles of the code hold these midpoints exactly,
so nothing is rounded. `Half` is 90 degrees of latitude and 180 of longitude, as
the axes are never compared. A hash is the sequence of its bits, five to a
character; the letters of `char_map` are only names. `EncodeBit`, `DecodeBit`
and `AgainBit` are one iteration of the loop each, so that the interval of every
iteration is a state. After a decoding the centre is encoded again, or one of
the eight neighbours decoded. `get_neighbor` returns a set: at the edge of the
globe it reaches the empty string and reads a character before its beginning,
and whatever it finds there decides what it returns. `trail` is a ghost: the
boxes the first encoding went through.

*JSON trees.* `heap` holds the allocated nodes with the pointers of
`struct JsonNode`; a node that is not in it was freed or never made.
`append_node`, `prepend_node` and `json_remove_from_parent` are operators on the
heap that write the fields the functions write, in that order where it matters.
`json_delete` recurs: `stack` holds its running calls, and one step deletes one
child or frees one node. Values of strings, numbers and booleans are left out. A
tree belongs to one thread, so no call begins while another one runs. That a
node is not put under one of its own descendants is the caller's part, which the
assertions of the code do not test (`MayPut`).

*JSON texts.* Here a text is the sequence of its bytes, which a NUL ends, and
everything the parser decides on is a byte. `stack` holds the running calls of
`parse_array`, `parse_object` and `parse_string`; a step is one iteration of
their loops or what happens when a call returns (`return`, `colon`) or fails
(`fail`, where the failure labels free what a call holds). A call of
`parse_value` that needs no loop, as for a word or a number, is one step. `out`
is true for `json_decode`, which builds a tree, and false for `json_validate`,
which passes null pointers and builds none. What is allocated is numbered; a
frame owns numbers, `gift` belongs to the value that is on its way up, and `live`
is what is not freed. `far` is the farthest byte anything looked at. A number
stands for its text: neither `strtod` nor `printf` is modelled. `emit_value` and
`emit_value_indented` are operators on trees; strings are valid UTF-8, as
`emit_string` asserts. `escape_unicode` is constantly false in the code, so
`to_surrogate_pair` is never called. Of the string buffers (`SB`) the model
keeps the length and the room of those that `parse_string` fills.

## Runs

| Run | Instance | What it shows |
|---|---|---|
| `DbMap` | 2 keys, 2 payloads, every LMDB failure but that of a commit | `TypeOK`; `DelHonest`, `PutHonest`, `ChangesOwnKey`; `db.c` implements `KVMap` |
| `DbPutBadKey` | a third key, which LMDB refuses | `PutHonest` fails: `db_put` returns 0 and stores nothing |
| `DbDelCommit` | failing commits | `DelHonest` fails: `db_del` returns 0 and the record stays |
| `DbTools` | 2 keys and the empty one, a buffer of 6, payloads that are short, just fit and do not fit a line, a text written by hand, 3 programs, 2 writes of the daemon, every failure of `db_open` and of LMDB but that of a commit | `TypeOK`, `GivesBack`, `BackupWhole`, `RestoresBackup`, `OnlyFullBuffersUnended`; with fair processes `LockIsShared` |
| `RevSafety` | 2 clients, every kind of request, OpenCage with odd answers, every failure, 3 requests, 2 boots | `TypeOK`, `StatsAddUp`, `ReplyBelongsToCell`, `OnlyAnswersCached`, `StopBeforeRelease`, `EntriesStay` |
| `RevCache` | 2 clients, LocationIQ, lookups of two positions of one cell and a kill, a full database, failing lookups, fair threads, 3 requests, 2 boots | the daemon implements `GeoCache`; `Answered`, `SigintExits` |
| `RevPositive` | an answer with an empty list of results | `PositiveCached` fails: an empty address is cached |
| `RevParses` | an answer that holds U+001F | `StoredParses` fails: the record never parses again |
| `Geohash` | a position in every cell of two characters, every corner of the cells of one character and the points beside it, precisions -1, 0 and 13, the poles, the antimeridian, points off the globe | `TypeOK`, `BoxHoldsPosition`, `CentreReturns`, `DimensionsAgree`, `CellsFormGrid`, `NeighbourTouches` |
| `JsonTree` | 4 nodes, 2 keys | `TypeOK`, `LinksAgree`, `CheckAccepts`; the trees implement `JsonForest` |
| `JsonText` | what is written of about 420 trees, on one line and on several; 14 seeds and every text one byte away from them; every short text of structural bytes; with and without a tree | `TypeOK`, `NothingLeaks`, `ReadsInside`, `BufferHolds`; the parser agrees with the grammar (`DecodesJson`) and reads back what was written (`RoundTrips`) |
| `Uptimed` | ints of 10 bits, counters near zero and near the wrap, minutes without ticks, with few and with too many, 3 tables of interfaces, every failure, 2 minutes after the first report | `TypeOK`, `PacketWhole`, `CpuRight`; with a fair process `StopsOnTerm` |

*Bounds of the daemon and the store.* `MaxSent` bounds the requests made and `MaxBoots` the starts of the
process; every other variable is then bounded. Three requests are enough for
the longest story a property tells: fill a cell, empty it or lose it, ask again,
with a second client between any two steps. Two boots let every step be
followed by a crash and a life with what was left on disk. Of the positions,
two share a cell (`home`, `garden`), one has its own (`away`), one is the
origin, one off the globe. Two clients suffice because the worker serves one at
a time; they are interchangeable, so the safety runs use symmetry.

*Bounds of the programs.* Three programs are enough for a load by hand, a dump
and a load of the dump, or for one that fails in `db_open` between two others;
two writes of the daemon fall between any of their steps, and change or delete
what the dump held. The buffer of six characters stands for the 8192 of the code:
`Fits` fills a line but for the newline, and the rest of `Spills` looks like a
record of its own. In `Uptimed` a report since boot and two reports of a minute
each cover the wrap of every counter, of their sum and of the product with 100.

*Bounds of the libraries.* The grid of `Geohash` is 2^16 points wide, which
allows 15 cuts of each axis: six characters, the default of the code, and every
combination of character position and table. All 1024 cells of two characters
are decoded with all their neighbours, so every entry of every table is used,
with and without the recursion into the parent. In `JsonTree` four nodes are
enough for a parent with a first, a middle and a last child, and for a chain of
depth four that `json_delete` descends. Nodes are interchangeable: symmetry.
The trees of `JsonText` hold the characters at every border between two cases of
the code (controls, quotes, one to four bytes, the neighbours of the surrogates),
in strings that end just before, at and after the place where the buffer grows;
numbers, infinity and nan; lists in lists, with `Depth` = 4 levels at most. A text may break off, gain, lose or
change a byte at every place of the seeds, which between them use every rule of
the grammar; the bytes put there include both ends of every range that
`utf8_validate_cz` distinguishes.

*Deadlock* is not checked in the runs of the daemon, which ends when its boots
are used up, nor in `DbTools` and `Uptimed`, which stop at their bounds, nor in `Geohash` and `JsonText`, whose computation ends; the runs of
`DbCalls` and `JsonTree` check it.

*Fairness.* In `RevCache` both threads are scheduled: weak fairness of a
handler's steps, of boot, of `catcher` and of the worker's end. A step that
waits for the geocoder ends because curl gives up after 2000 ms
(`CURLOPT_TIMEOUT_MS`, `geo.c` 261). The event loop looks at every ready
connection in each round, while serving the others disables the step of one:
hence strong fairness for each client's accept and deliver. Clients, the
operator and crashes are not fair. In `DbTools` the program and the daemon's
write are weakly fair, each where it has no one to wait for; LMDB's lock is a
mutex that promises no turn, but the texts that are loaded are finite, and the
model bounds the writes of the daemon. Reading a further line of
`lmdb-ll-look` is not fair, as its input ends. In `Uptimed` the process is weakly
fair: `sleep` returns.

### What the failing runs say

* `db_put` falls through to the commit when `mdb_put` failed and returns the
  commit's code, 0. In the daemon keys are short geohashes and nothing comes of
  it; `db_load` passes whatever its input holds and reports nothing.
* `db_del` keeps `mdb_del`'s code and forgets the commit's: `/kill` can answer
  "deleted" while the record is still there.
* `README.md` 58 says that the positive result is cached; an answer without any
  result counts as decoded and is cached as an empty address.
* `json.c` 1180 escapes the characters below 0x1F, its parser refuses those up to
  0x1F. A record with U+001F is stored and, read back, is not "a string which
  contains a JSON object" (`revgeod.c` 310); the cell answers "unknown" until
  somebody kills it.

## Proofs

The theorems hold for every value of the constants that the modules' assumptions
allow, and TLC evaluates these assumptions in every run:

* the daemon and the store, for every set of clients, keys, applications,
  positions, answers, requests and failures (`QueriesAssumption`,
  `TextsAssumption`, `RevgeodAssumption`, `DbCallsAssumption`: placeholders differ
  from the real values, the geohash is a function, texts are made of tokens);
* the programs beside the daemon, for every set of keys and texts, every size of
  the buffer and every failure (`DbToolsAssumption`: keys and texts are sequences
  of `Chars`, `Order` lists each key once, the three separators differ);
* `geohash.c`, for every grid that can be halved as often as the calls ask
  (`HalvingAssumption`, `CallsAssumption`), and so for the 30 cuts of twelve
  characters that no run reaches;
* the trees of `json.c`, for every number of nodes (`NullAssumption`: the null
  pointer is no node), and its parser, for every text of non-zero bytes
  (`TextsAssumption` of `JsonParse`), and what is written, for every set of trees
  of which none is deeper than `Depth`, for every `Depth` (`TreesAssumption`);
* `uptimed.c`, for every even width `W` of the ints, every counter and every
  content of `/proc/net/dev` (`UptimedAssumption`).

Three theorems have a hypothesis of their own, which the table names and the notes
behind it explain.

| Theorem | States | Argument |
|---|---|---|
| `TypeCorrect` | `Spec => []TypeOK` | `TypeOK` is inductive because it also says what a handler in progress relies on: it has a connection with a request of its kind and no response, and its transaction is of its function |
| `ReleaseCorrect` | `[]StopBeforeRelease` | `ReleaseInv`: which handles are open at each point of `main`; once `mhdaemon` is assigned, `catcher` passes its join only without a worker |
| `StatsCorrect` | `[]StatsAddUp` | inductive beside `TypeOK`: each handler step moves one unit from one term to another |
| `CacheCorrect` | `[]OnlyAnswersCached` | `AnswerInv`: when a handler is at its put, the buffers hold one answer for its position, nothing more; when it is at its commit, the transaction's view is proper too |
| `EntriesStayCorrect` | `Spec => EntriesStay` | `ViewInv`: the view of a transaction differs from the disk at the handler's own cell only |
| `RepliesCorrect` | `[]ReplyBelongsToCell` | `ReplyInv` on top of `AnswerInv`: a response for a position is a permitted one from the moment it is queued |
| `CacheImplemented` | `Spec => ImplementsCache`, under `PlaceholdersApart` and `Reliable` | the mapping of `RevgeodProps` shows a request as served when its response is queued, and a record as stored when it is committed; `AnswerInv`, `ViewInv`, `ReplyInv` and `TxnInv` (an open transaction is what its one operation made of the content) say that the response is one `GeoCache` allows of the content it sees (`EntryGivesBack`: what is cached is read back word for word). Every other step, crashes of the transaction included, is an abstract one or a stutter |
| `DbTypeCorrect` | `Spec => []TypeOK` of `DbCalls` | `DbInv`: a transaction is what its call's one operation made of the content |
| `DbImplementsMap` | `Spec => ImplementsMap`, if no key is refused and no commit fails by itself | the begin of a call is a stutter, its commit the abstract step; the two hypotheses are those that `DbPutBadKey` and `DbDelCommit` show to be needed |
| `PutHonestCorrect`, `DelHonestCorrect` | `Spec => []PutHonest` if no key is refused, `[]DelHonest` if no commit fails by itself | `DbInv`, and what a commit returns in each case (`CommitReturns`) |
| `ChangesOwnKeyCorrect` | `Spec => ChangesOwnKey`, for every failure | a transaction's view differs from the disk at its call's key only |
| `GivesBackCorrect` | `Spec => []GivesBack` of `DbTools` | `HeldAt`: what the program holds at each place; `HolderAt`: who has the lock. `GivesBack` alone does not say with what `db_open` reaches its errors |
| `BackupCorrect` | `[]BackupWhole` of `DbTools` | `DumpInv`: what a walk has printed is the part up to its cursor (`Prefix`) of its snapshot, which no commit of the daemon changes, and a dump leaves its loop only at the end. What is printed is a concatenation of a line for each key: an induction over the keys (`DumpedIs`) |
| `BuffersCorrect` | `[]OnlyFullBuffersUnended` | `WalkInv`, and what `db_get` copies into a buffer of any size |
| `TypeCorrect` of `DbTools` | `[]TypeOK`, under `AllKeys` | `TypeInv`: the parts of `TypeOK`, and that the daemon waits to write a key |
| `RestoresCorrect` | `[]RestoresBackup`, under `AllKeys` | `LoadInv`: while an undisturbed load runs, there is a number n such that the first n keys of the dump have their records in the database (or in the transaction about to commit) and the rest of the input is the lines of the other keys. `FgetsLine`: one piece of the input is then one whole line, and its cuts give the key and the payload back |
| `UptimeReadable`, `UptimeMirrored` | the text of an uptime of any length, and of a time before the start | `Divided`: quotients by 60, 3600 and 86400 |
| `BoxCorrect`, `CentreCorrect`, `DimensionsCorrect` | `[]BoxHoldsPosition`, `[]CentreReturns`, `[]DimensionsAgree` | `LoopInv`: the box of every loop is the one the first encoding had after as many bits (`trail`), these boxes hold the position, have widths that depend on the number of cuts only, and lie inside each other; so the centre of the last one takes the same turns |
| `GridCorrect` | `[]CellsFormGrid` | `LoopInv`, and an induction over the bits: a box is known by its place, which of how many equal parts of the globe it is on each axis (`Place`), and a position lies in one of them only (`Division`) |
| `NeighbourCorrect` | `[]NeighbourTouches` | `WalkInv`: the decoding of a neighbour ends at the place of what `get_neighbor` returned. A character takes a place to one of 8 by 4 parts (`CharPlace`); each of the four tables is one step among these, around the end exactly where the parent cell takes the step (`RowMoves1` to `RowMoves4`); by induction over the characters the recursion takes one step or falls off the globe (`NeighbourBeside`) |
| `GeohashTypeCorrect` | `Spec => []TypeOK` of `Geohash` | `IdleInv` beside the two above: what the loops leave alone |
| `PointersCorrect`, `LinksCorrect` | `Spec => []TypeOK`, `[]LinksAgree` of `JsonTree` | `Inv`: there are sequences of children (`Represents`) of which all pointers can be read off, and the running calls of `json_delete` stand at distinct nodes that are in no tree. `LinksAgree` alone is not inductive: it says nothing that keeps a node from being in two lists. Each operation has a lemma that names the new sequences |
| `CheckCorrect` | `Spec => []CheckAccepts` | `Inv`, and that the nodes are finitely many (`FiniteHeap`): the walk of `json_check` is then the sequence of children, by induction over its places |
| `ForestImplemented` | `Spec => ImplementsForest` | a node of the forest shows its tag, key and sequence of children; the sequences of `Inv` are the only ones the pointers represent (`ChildrenAre`). What `json_delete` is about to free is the least set that holds the nodes it stands at and is closed under the pointers, which `SubtreeLeast` and `DoomedLeast` show of both modules' recursive definitions; so the first step of the call takes the subtree out of sight and the others show nothing |
| `ParserTypeCorrect`, `LeaksCorrect`, `ReadsCorrect`, `BufferCorrect` | `Spec => []TypeOK`, `[]NothingLeaks`, `[]ReadsInside`, `BufferHolds` of `JsonParse` | `LeakInv`: each frame owns objects of its own, and below a string that is a key waits an object that holds none; every step pushes, pops or replaces a frame and hands over or frees what it owns (`Pushed`, `Popped`, `GiftGrows`, `GiftFreed`). `PosInv`: a helper goes on only after a byte that is not the NUL (`GoodUnit`), and between two characters a string has room for four bytes |
| `DecodesCorrect` | `Spec => []DecodesJson` of `JsonGrammar`, for every text | `ParseInv`, explained below: either the text has been given up and means nothing, or the running calls expect of the rest of the text exactly what the text means |
| `MeansIs` | the grammar's recursive definition has a value for every text | a text's meaning depends on texts of a lower rank only (`MeaningLocal`); a tower of approximations settles at the rank (`TowerSettles`) |
| `NumberSound`, `NumberComplete` | what `parse_number` takes is a number, and the longest one | both by the places where the parts of a number end (`NumberIs`, `ParseNumberIs`) |
| `Utf8Is` | `utf8_validate_cz` decides RFC 3629 | its ranges of bytes against the code points, for two, three and four bytes |
| `UnitIs` | one iteration of `parse_string` takes one character of the grammar or fails | `Utf8Is`, `HexIs`, `PairIs`, `ShortIs`, for every window of twelve bytes |
| `RoundTripsCorrect` | `Spec => []RoundTrips` of `JsonText`, for all trees | `WrittenMeans`, and `DecodesCorrect`, which says that the parser finds what a text means |
| `WrittenMeans` | what is written of a tree, on one line or on several, has the tree as its only meaning, with null for inf and nan, or none if a string holds U+001F | by induction on the depth, every node is `Legible`: explained below |
| `NumberValid` | `number_is_valid` accepts the numbers of the grammar | `NumberSound`, `NumberComplete` |
| `UptimedTypeCorrect`, `PacketCorrect`, `CpuCorrect` | `Spec => []TypeOK`, `[]PacketWhole`, `[]CpuRight` of `Uptimed` | `UptimedInv`: `CpuInv` relates what is kept of the counters to their true values at the last report, modulo `W`; `PacketInv` says how much of the packet the rows read so far make up. That a difference of remainders is the true one takes that the minute has fewer than `W` ticks, and a hundred times the busy ones are fewer than `W`, which `CpuRight` asks for |

*The hypotheses.* `Reliable`: no commit fails by itself, LMDB accepts the geohash of
every position, and `json_decode` accepts what was written of every answer. The
run `RevCache` satisfies it; that it is needed is what `DbDelCommit`,
`DbPutBadKey` and `RevParses` show. `PlaceholdersApart`: the model's values for "no
response yet" and "null" are no response and no text. `AllKeys`: `Keys` has what
`db_load` may cut from any line as a key, as in the program, where a key is any
string (`BadKeys` says which of them LMDB refuses). The small instance of the run
`DbTools` has just the keys its texts name, and TLC checks `TypeOK` and
`RestoresBackup` of it directly.

*Induction.* The first lemmas of the modules that need them (`Least`, `Induct`,
`Recursion`) give a property of numbers as the set of the numbers that have it,
which keeps them within first-order logic; `Recursion` says that a recursive
function has the value its definition gives it, and `FlattenSteps` says the same of
sequences put together of many. Their statements are the same wherever they
stand; each module that uses them proves them for itself.

*The parser and the grammar.* The grammar divides a text at any place; the parser
goes from left to right and keeps only a position and a stack. `DecodesJson`
speaks of the end and says nothing of the way there, so `ParseInv` says at every
place what the grammar still expects. `Shadow` gives each running call the values
it has read, also where `json_validate` builds no tree. `Expects` then says what
must follow the position: a value (`Awaits`), a name (`AwaitsName`), the rest of
a string (`AwaitsQuote`), a colon (`KeyChain`), or what closes the calls that are
running (`Chain`, one link for each frame). The invariant is an equivalence: the
text means a tree if and only if the rest of it, put together with what has been
read, yields that tree. At the start that is the definition of the meaning; each
step of the parser keeps it or shows that nothing can follow; at the end only the
value that was returned is left, so a meaning is unique as well. The lemmas of
parts 2 and 4 turn the grammar's divisions into this form: `ElementsFirst` and
`MembersFirst` find the first item of a list, `AwaitsHere` the core of a value
behind space, `StringSteps` one character of a string.

*The emitter.* The text of a node is put together of the texts of its children, and
the proof keeps track of where each of them stands (`Sits`): `FlattenPlaces` gives
every text of a row its place, `RowOne` and `RowBlock` the items of a collection
theirs, on one line and indented, with nothing but space between an item and the
comma or the bracket behind it (`Rows`). A text is `Legible` as a tree if, wherever
it stands before a byte that ends a value, the parser that awaits a value there
goes on behind it with that tree, or gives up if the node is not readable; this is
said with `Awaits` and `Chain`, the terms of `ParseInv`. `CharactersWalk` shows it
of a string, from its last character to the first, whether a byte was escaped or
not; `ArrayWalk` and `ObjectWalk` of the items in a row, from the last to the first.
`TreesLegible` is the induction: a collection of legible children is legible. The
emitters and the trees are recursive functions of the depth, not RECURSIVE
operators, so that the prover can expand them (`EmitIs`, `IndentedIs`).

*Model-checked only.* `Answered`, `SigintExits`, `LockIsShared` and `StopsOnTerm`
are liveness properties, which the prover cannot treat under fairness. Every other
property of the runs that pass is stated by a theorem.

## Limits of the model

* *The window at boot.* If SIGINT arrives after libmicrohttpd has started the
  worker and before `mhdaemon` is assigned, `catcher` stops nothing and releases
  curl and LMDB under the worker. The model has these steps, and
  `StopBeforeRelease` excepts them: it speaks of the time after the assignment.
  What the handler does with a released handle is not modelled (its steps need
  the handle open), and neither is a signal that finds the main thread inside a
  library call with its locks held.
* `Provider` is the same at every boot, though the environment could change it.
* In the daemon's model texts have no length: the 8192-byte buffer of `db_get` is
  in `DbTools` only. There a record that fills it is left without its NUL, and
  what reading on behind the buffer does is not modelled.
* `db_open` is one step of the daemon's model, which succeeds or ends the process;
  its calls are those of `DbTools`. When `mdb_env_set_maxdbs` or `mdb_env_open`
  fails it leaves the environment open (`GivesBack` excepts it), which the
  end of the process frees.
* `RestoresBackup` excepts dumps with a record too long for a line of `db_load`,
  whose rest may overwrite another record, and with a payload "DELETE".
* `lmdb-ll-look` replaces the newline of a line by the digit 0, and looks up what
  geohash comes of it: any key, in the model. Its leaks, and that of the second
  `json_decode` in `lmdb-mydump`, are left out.
* The traffic counters of `uptimed` pass through `atoi`: beyond 2^31 bytes the
  reported value is the wrapped, possibly negative one (`Traffic`); no property
  speaks of it. Interfaces whose name contains the given one are reported under
  the same names, which `PacketWhole` takes as given.
* Of `statsd-client.c` the wrappers around `send_stat`, and sampling, are not
  modelled: they keep no state, and `revgeod.c` ignores what they return. What a
  failing `statsd_init` leaves allocated is in `StatsdClient`; no property speaks
  of it, as the process makes one link.
* An out-of-memory condition, and an emitter that returns NULL, are not modelled.
* `get_dumpall` cuts keys at 11 characters; keys have no length here.
* `geohash_decode` of a character outside the alphabet, and of an upper-case
  letter, is not modelled: hashes are those the library makes itself. Nor is the
  `%.16g` with which `/dump` prints a centre.
* `geohash.h` 54 says that the default precision is 12; the code takes 6, for
  which `Chars` stands. Every caller passes a precision, and nothing depends on it.
* The nodes of a JSON tree and its texts are allocated without fail
  (`out_of_memory` exits).
* `RoundTrips` and `DecodesJson` compare numbers as texts: that `%.16g` and
  `strtod` lose nothing is not modelled. `RoundTrips` excepts strings with
  U+001F, for which it states the refusal that `RevParses` is about.

## Plan

Built so far: the store, the programs beside it, the daemon, the geohash, the JSON
trees and texts, statistics and uptime, the abstract specifications, and the
proofs above, which cover every safety property of the runs that pass. Next:

1. The queries of the applications add up to at most the requests.
2. A property about the packets of `uptimed` that are lost, and about the counters
   beyond 2^31.
