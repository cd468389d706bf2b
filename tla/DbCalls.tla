------------------------------ MODULE DbCalls ------------------------------
(***************************************************************************)
(* Any caller of db_put, db_del and db_get: revgeod, and db_load, whose    *)
(* keys are whatever the loaded file says.  One call at a time, as each    *)
(* process has one thread that writes.                                     *)
(***************************************************************************)
EXTENDS Db

CONSTANTS
    Values,    \* payloads
    DELETE,    \* the payload "DELETE", which db_put takes as an order
    NoCall     \* no call has returned yet

VARIABLES
    call,      \* the call in progress, or NoCall
    last       \* the call that returned last, with what it returned

vars == << disk, txn, call, last >>

ASSUME DbCallsAssumption ==
    /\ BadKeys \subseteq Keys
    /\ DbFaults \subseteq AllDbFaults
    /\ DELETE \notin Values
    /\ \A k \in Keys :
         /\ NoCall # [fn |-> "del", key |-> k]
         /\ \A v \in Values : NoCall # [fn |-> "put", key |-> k, value |-> v]

(* What a caller may find on disk: the records of earlier runs. *)
Init ==
    /\ \E D \in SUBSET (Keys \ BadKeys) : disk \in [D -> Values]
    /\ txn = NoTxn
    /\ call = NoCall
    /\ last = NoCall

Returned(c, rc) ==
    last' = IF c.fn = "put"
            THEN [fn |-> "put", key |-> c.key, value |-> c.value, rc |-> rc]
            ELSE [fn |-> "del", key |-> c.key, rc |-> rc]

DbPut(k, v) ==
    LET c == [fn |-> "put", key |-> k, value |-> v]
    IN  /\ call = NoCall
        /\ v # DELETE
        /\ \/ PutBegins(k, v) /\ call' = c /\ UNCHANGED last
           \/ BeginFails /\ Returned(c, 1) /\ UNCHANGED call

DbDel(k) ==
    LET c == [fn |-> "del", key |-> k]
    IN  /\ call = NoCall
        /\ \/ DelBegins(k) /\ call' = c /\ UNCHANGED last
           \/ BeginFails /\ Returned(c, 1) /\ UNCHANGED call

(* db_put(db, k, "DELETE") is db_del(db, k). *)
DbPutDELETE(k, v) == v = DELETE /\ DbDel(k)

DbCommit ==
    /\ call # NoCall
    /\ \/ /\ CommitOk
          /\ Returned(call, IF call.fn = "put" THEN PutReturn(TRUE)
                                               ELSE DelReturn)
       \/ /\ CommitFails
          /\ Returned(call, IF call.fn = "put" THEN PutReturn(FALSE)
                                               ELSE DelReturn)
    /\ call' = NoCall

DbGet(k) ==
    /\ call = NoCall
    /\ \E r \in db_get(k) :
         last' = IF r.found
                 THEN [fn |-> "get", key |-> k, value |-> r.value]
                 ELSE [fn |-> "get", key |-> k]
    /\ UNCHANGED << disk, txn, call >>

Crash == TxnLost /\ call' = NoCall /\ last' = NoCall

Next ==
    \/ \E k \in Keys :
        \/ \E v \in Values \cup {DELETE} : DbPut(k, v) \/ DbPutDELETE(k, v)
        \/ DbDel(k)
        \/ DbGet(k)
    \/ DbCommit
    \/ Crash

Spec == Init /\ [][Next]_vars

-----------------------------------------------------------------------------
(* Shapes of the variables; a transaction is open exactly while a call is  *)
(* in progress, the two are of the same function, and the view is the      *)
(* committed content but for the key of the call.                          *)
TypeOK ==
    /\ IsMap(disk) /\ \A k \in DOMAIN disk : disk[k] \in Values
    /\ IsTxn(txn)
    /\ call = NoCall <=> txn = NoTxn
    /\ call # NoCall =>
        /\ call \in [fn : {"put"}, key : Keys, value : Values]
                      \cup [fn : {"del"}, key : Keys]
        /\ txn.fn = call.fn
        /\ \A k \in DOMAIN txn.view : txn.view[k] \in Values
        /\ \A k \in Keys \ {call.key} :
             /\ k \in DOMAIN txn.view <=> k \in DOMAIN disk
             /\ k \in DOMAIN disk => txn.view[k] = disk[k]

(* "Return 0 if record can be stored" (db.c:147): after a 0 the record is  *)
(* there, until another call changes it, and it survives a crash.          *)
PutHonest ==
    last # NoCall /\ last.fn = "put" /\ last.rc = 0 =>
        last.key \in DOMAIN disk /\ disk[last.key] = last.value

(* "Return 0 if keystr is deleted, nonzero otherwise" (db.c:116): after a  *)
(* 0 the key is gone.                                                      *)
DelHonest ==
    last # NoCall /\ last.fn = "del" /\ last.rc = 0 => last.key \notin DOMAIN disk

(* A call that failed, or that died with the process, left the content as  *)
(* it was; a call that worked changed its own key and no other.            *)
ChangesOwnKey ==
    [][disk' # disk =>
        /\ call # NoCall /\ last'.rc = 0
        /\ \A k \in Keys \ {call.key} :
             /\ k \in DOMAIN disk' <=> k \in DOMAIN disk
             /\ k \in DOMAIN disk => disk'[k] = disk[k]]_vars

(* db.c implements the map its comments describe, if every key can be      *)
(* stored and the commit itself does not fail.                             *)
Map == INSTANCE KVMap WITH map <- disk
ImplementsMap == Map!Spec
=============================================================================
