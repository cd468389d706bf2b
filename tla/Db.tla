--------------------------------- MODULE Db ---------------------------------
(***************************************************************************)
(* db.c over LMDB.  disk is the committed content, a partial function on   *)
(* Keys; txn is the write transaction of the one thread that writes.       *)
(* LMDB itself is external: it is modelled by the return codes db.c tests  *)
(* for and by atomic commits.                                              *)
(***************************************************************************)
EXTENDS Naturals

CONSTANTS
    Keys,       \* keys callers pass
    BadKeys,    \* those LMDB refuses to store (empty, or over 511 bytes)
    DbFaults    \* which LMDB failures can happen

VARIABLES disk, txn

AllDbFaults == {"begin",    \* mdb_txn_begin fails
                "read",     \* mdb_get fails though the key is there
                "full",     \* no page is left: mdb_put, mdb_del fail and
                            \* leave the transaction unable to commit
                "commit"}   \* the commit itself fails (an I/O error)

(* The maps on some of the keys. *)
IsMap(map) == map = [k \in DOMAIN map |-> map[k]] /\ DOMAIN map \subseteq Keys

With(map, k, v) == [x \in DOMAIN map \cup {k} |-> IF x = k THEN v ELSE map[x]]

(* Mistake: mdb_drop for mdb_del. *)
WithoutAny(map, k) == [x \in {} |-> map[k]]

Without(map, k) == [x \in DOMAIN map \ {k} |-> map[x]]

(* A write transaction: the function of db.c that runs it, its view of the *)
(* database, and the code the one operation in it returned; "full" leaves  *)
(* the transaction unable to commit.                                       *)
NoTxn == [fn |-> "none"]

IsTxn(t) ==
    \/ t = NoTxn
    \/ /\ t.fn \in {"put", "del"}
       /\ t.rc \in {"ok", "notfound", "badvalsize", "full"}
       /\ IsMap(t.view)

Full(f) ==
    IF "full" \in DbFaults
    THEN {[fn |-> f, view |-> disk, rc |-> "full"]}
    ELSE {}

mdb_put(k, v) ==
    IF k \in BadKeys
    THEN {[fn |-> "put", view |-> disk, rc |-> "badvalsize"]}
    ELSE {[fn |-> "put", view |-> With(disk, k, v), rc |-> "ok"]} \cup Full("put")

mdb_del(k) ==
    IF k \notin DOMAIN disk
    THEN {[fn |-> "del", view |-> disk, rc |-> "notfound"]}
    ELSE {[fn |-> "del", view |-> Without(disk, k), rc |-> "ok"]} \cup Full("del")

(* The two halves of db_put and db_del: everything up to the commit, and   *)
(* the commit, with the value the function returns (0 is success).         *)
BeginFails == "begin" \in DbFaults /\ txn = NoTxn /\ UNCHANGED << disk, txn >>

PutBegins(k, v) == txn = NoTxn /\ txn' \in mdb_put(k, v) /\ UNCHANGED disk

DelBegins(k) == txn = NoTxn /\ txn' \in mdb_del(k) /\ UNCHANGED disk

CommitOk == /\ txn # NoTxn /\ txn.rc # "full"
            /\ disk' = txn.view
            /\ txn' = NoTxn

(* Mistake: the failed transaction is not aborted. *)
CommitFailsOpen == /\ txn # NoTxn
                   /\ txn.rc = "full" \/ "commit" \in DbFaults
                   /\ UNCHANGED << disk, txn >>

CommitFails == /\ txn # NoTxn
               /\ txn.rc = "full" \/ "commit" \in DbFaults
               /\ txn' = NoTxn
               /\ UNCHANGED disk

(* Mistakes: db_put always succeeds, or has its result the wrong way round; *)
(* db_del fails for a missing key only.                                     *)
PutReturnAlways(committed) == 0
PutReturnInverted(committed) == IF committed THEN 1 ELSE 0
DelReturnNotFound == IF txn.rc = "notfound" THEN 1 ELSE 0

(* db_put returns what the commit returned and forgets mdb_put's code;     *)
(* db_del returns mdb_del's code and forgets the commit's.                 *)
PutReturn(committed) == IF committed THEN 0 ELSE 1
DelReturn == IF txn.rc = "ok" THEN 0 ELSE 1

(* db_get in one step: it reads a snapshot, and any error is a miss. *)
Miss == [found |-> FALSE]
db_get(k) ==
    LET faults == IF {"begin", "read"} \cap DbFaults # {} THEN {Miss} ELSE {}
    IN  IF k \in DOMAIN disk
        THEN {[found |-> TRUE, value |-> disk[k]]} \cup faults
        ELSE {Miss}

(* The process dies: LMDB keeps what was committed. *)
TxnLost == txn' = NoTxn /\ UNCHANGED disk
=============================================================================
