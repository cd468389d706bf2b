--------------------------- MODULE DbCalls_proofs ---------------------------
(***************************************************************************)
(* db.c implements the map of KVMap, for any keys and values, if no key is *)
(* refused by mdb_put and no commit fails by itself: the two exceptions    *)
(* the runs DbPutBadKey and DbDelCommit show to be necessary.              *)
(***************************************************************************)
EXTENDS DbCalls, TLAPS

(* The transaction of a call is what the call's one LMDB operation made of *)
(* the committed content, which nobody else changes meanwhile.             *)
Pending ==
    /\ call # NoCall =>
         \/ /\ call \in [fn : {"put"}, key : Keys, value : Values]
            /\ txn \in mdb_put(call.key, call.value)
         \/ /\ call \in [fn : {"del"}, key : Keys]
            /\ txn \in mdb_del(call.key)
    /\ call = NoCall <=> txn = NoTxn

Content == IsMap(disk) /\ \A k \in DOMAIN disk : disk[k] \in Values

DbInv == Content /\ Pending

(* The record of a call is not NoCall. *)
LEMMA CallIsNew ==
    ASSUME NEW k \in Keys
    PROVE  /\ \A v \in Values : [fn |-> "put", key |-> k, value |-> v] # NoCall
           /\ [fn |-> "del", key |-> k] # NoCall
  BY DbCallsAssumption

(* A transaction that has begun is not NoTxn. *)
LEMMA Begun ==
    ASSUME NEW k, NEW v
    PROVE  /\ \A t \in mdb_put(k, v) : t # NoTxn /\ t.fn = "put"
           /\ \A t \in mdb_del(k) : t # NoTxn /\ t.fn = "del"
  BY DEF mdb_put, mdb_del, Full, NoTxn

(* What can be committed is the content with the call's key stored or      *)
(* deleted, or, when there was nothing to delete, the content itself.      *)
LEMMA Committed ==
    ASSUME DbInv, call # NoCall, CommitOk
    PROVE  /\ call.fn = "put" =>
                \/ disk' = With(disk, call.key, call.value) /\ txn.rc = "ok"
                \/ disk' = disk /\ txn.rc = "badvalsize" /\ call.key \in BadKeys
           /\ call.fn = "del" =>
                \/ /\ call.key \in DOMAIN disk /\ txn.rc = "ok"
                   /\ disk' = Without(disk, call.key)
                \/ disk' = disk /\ txn.rc = "notfound"
  BY DEF DbInv, Pending, CommitOk, mdb_put, mdb_del, Full

LEMMA InitDbInv == Init => DbInv
  BY DEF Init, DbInv, Content, Pending, IsMap

LEMMA StepDbInv == DbInv /\ [Next]_vars => DbInv'
<1> SUFFICES ASSUME DbInv, [Next]_vars PROVE DbInv'
  OBVIOUS
<1>1. ASSUME NEW k \in Keys, NEW v \in Values \cup {DELETE}, DbPut(k, v)
      PROVE  DbInv'
  <2>1. v \in Values
    BY <1>1 DEF DbPut
  <2>2. CASE /\ PutBegins(k, v)
             /\ call' = [fn |-> "put", key |-> k, value |-> v]
    BY <2>1, <2>2, CallIsNew, Begun
       DEF DbInv, Content, Pending, PutBegins, IsMap, mdb_put, Full
  <2>3. CASE BeginFails /\ UNCHANGED call
    BY <2>3 DEF DbInv, Content, Pending, BeginFails, IsMap, mdb_put, mdb_del, Full
  <2> QED
    BY <1>1, <2>2, <2>3 DEF DbPut
<1>2. ASSUME NEW k \in Keys, DbDel(k) PROVE DbInv'
  <2>2. CASE DelBegins(k) /\ call' = [fn |-> "del", key |-> k]
    BY <2>2, CallIsNew, Begun
       DEF DbInv, Content, Pending, DelBegins, IsMap, mdb_del, Full
  <2>3. CASE BeginFails /\ UNCHANGED call
    BY <2>3 DEF DbInv, Content, Pending, BeginFails, IsMap, mdb_put, mdb_del, Full
  <2> QED
    BY <1>2, <2>2, <2>3 DEF DbDel
<1>3. ASSUME NEW k \in Keys, DbGet(k) PROVE DbInv'
  BY <1>3 DEF DbInv, Content, Pending, DbGet, IsMap, mdb_put, mdb_del, Full
<1>4. ASSUME DbCommit PROVE DbInv'
  <2>1. call' = NoCall /\ txn' = NoTxn
    BY <1>4 DEF DbCommit, CommitOk, CommitFails
  <2>2. CASE CommitOk
    <3>1. Content'
      BY <1>4, <2>2, Committed
         DEF DbCommit, DbInv, Content, Pending, IsMap, With, Without
    <3> QED
      BY <2>1, <3>1 DEF DbInv, Pending
  <2>3. CASE CommitFails
    BY <2>1, <2>3 DEF DbInv, Content, Pending, CommitFails, IsMap
  <2> QED
    BY <1>4, <2>2, <2>3 DEF DbCommit
<1>5. ASSUME Crash PROVE DbInv'
  BY <1>5 DEF Crash, TxnLost, DbInv, Content, Pending, IsMap
<1>6. ASSUME UNCHANGED vars PROVE DbInv'
  BY <1>6 DEF vars, DbInv, Content, Pending, IsMap, mdb_put, mdb_del, Full
<1> QED
  BY <1>1, <1>2, <1>3, <1>4, <1>5, <1>6 DEF Next, DbPutDELETE

-----------------------------------------------------------------------------
(* The invariant says more than the type invariant. *)
LEMMA DbInvTypes == DbInv => TypeOK
<1> SUFFICES ASSUME DbInv PROVE TypeOK
  OBVIOUS
<1>1. CASE call = NoCall
  BY <1>1 DEF DbInv, Content, Pending, TypeOK, IsTxn
<1>2. ASSUME NEW k \in Keys, NEW v \in Values,
             call = [fn |-> "put", key |-> k, value |-> v],
             call # NoCall, txn \in mdb_put(k, v)
      PROVE  TypeOK
  BY <1>2, Begun
     DEF DbInv, Content, Pending, TypeOK, IsTxn, IsMap, mdb_put, Full, With
<1>3. ASSUME NEW k \in Keys, call = [fn |-> "del", key |-> k],
             call # NoCall, txn \in mdb_del(k)
      PROVE  TypeOK
  BY <1>3, Begun
     DEF DbInv, Content, Pending, TypeOK, IsTxn, IsMap, mdb_del, Full, Without
<1> QED
  BY <1>1, <1>2, <1>3 DEF DbInv, Pending

(* The shapes of the variables; a call and its transaction go together     *)
(* (db_put and db_del).                                                    *)
THEOREM DbTypeCorrect == Spec => []TypeOK
<1>1. Init => DbInv
  BY InitDbInv
<1>2. DbInv /\ [Next]_vars => DbInv'
  BY StepDbInv
<1>3. DbInv => TypeOK
  BY DbInvTypes
<1> QED
  BY <1>1, <1>2, <1>3, PTL DEF Spec

-----------------------------------------------------------------------------
LEMMA InitMaps == Init => Map!Init
  BY DEF Init, Map!Init

LEMMA CommitMaps ==
    ASSUME DbInv, BadKeys = {}, "commit" \notin DbFaults, DbCommit
    PROVE  Map!Next
<1>1. ASSUME NEW k \in Keys, NEW v \in Values,
             call = [fn |-> "put", key |-> k, value |-> v]
      PROVE  Map!Stored(k, v) \/ Map!NotStored(k, v)
  <2>1. CASE CommitOk /\ Returned(call, PutReturn(TRUE))
    BY <1>1, <2>1, Committed
       DEF DbCommit, Returned, PutReturn, Map!Stored, With
  <2>2. CASE CommitFails /\ Returned(call, PutReturn(FALSE))
    BY <1>1, <2>2 DEF CommitFails, Returned, PutReturn, Map!NotStored
  <2> QED
    BY <1>1, <2>1, <2>2 DEF DbCommit
<1>2. ASSUME NEW k \in Keys, call = [fn |-> "del", key |-> k]
      PROVE  Map!Deleted(k) \/ Map!NotDeleted(k)
  <2>1. CASE CommitOk /\ Returned(call, DelReturn)
    BY <1>2, <2>1, Committed
       DEF DbCommit, Returned, DelReturn, Map!Deleted, Map!NotDeleted, Without
  <2>2. CASE CommitFails /\ Returned(call, DelReturn)
    BY <1>2, <2>2 DEF CommitFails, Returned, DelReturn, Map!NotDeleted
  <2> QED
    BY <1>2, <2>1, <2>2 DEF DbCommit
<1> QED
  BY <1>1, <1>2 DEF DbCommit, DbInv, Pending, Map!Next

LEMMA StepMaps ==
    ASSUME DbInv, BadKeys = {}, "commit" \notin DbFaults, [Next]_vars
    PROVE  [Map!Next]_<< disk, last >>
<1>1. ASSUME NEW k \in Keys, NEW v \in Values \cup {DELETE}, DbPut(k, v)
      PROVE  UNCHANGED << disk, last >> \/ Map!NotStored(k, v)
  BY <1>1 DEF DbPut, PutBegins, BeginFails, Returned, Map!NotStored
<1>2. ASSUME NEW k \in Keys, DbDel(k)
      PROVE  UNCHANGED << disk, last >> \/ Map!NotDeleted(k)
  BY <1>2 DEF DbDel, DelBegins, BeginFails, Returned, Map!NotDeleted
<1>3. ASSUME NEW k \in Keys, DbGet(k)
      PROVE  Map!Got(k) \/ Map!NotGot(k)
  BY <1>3 DEF DbGet, db_get, Miss, Map!Got, Map!NotGot
<1>4. ASSUME DbCommit PROVE Map!Next
  BY <1>4, CommitMaps
<1>5. ASSUME Crash PROVE Map!Forgotten
  BY <1>5 DEF Crash, TxnLost, Map!Forgotten
<1>6. ASSUME NEW k \in Keys, NEW v \in Values \cup {DELETE}, DbPut(k, v)
      PROVE  v \in Values
  BY <1>6 DEF DbPut
<1> QED
  BY <1>1, <1>2, <1>3, <1>4, <1>5, <1>6 DEF Next, vars, DbPutDELETE, Map!Next

(* db.c implements the map of its comments: calls take effect at once, and *)
(* their return values tell the truth (db_put, db_del, db_get), when every *)
(* key can be stored and no commit fails by itself.                        *)
THEOREM DbImplementsMap ==
    ASSUME BadKeys = {}, "commit" \notin DbFaults
    PROVE  Spec => ImplementsMap
<1>1. Init => DbInv /\ Map!Init
  BY InitDbInv, InitMaps
<1>2. DbInv /\ [Next]_vars => DbInv' /\ [Map!Next]_<< disk, last >>
  BY StepDbInv, StepMaps
<1> QED
  BY <1>1, <1>2, PTL DEF Spec, ImplementsMap, Map!Spec

-----------------------------------------------------------------------------
(* What a commit makes of the call, whatever fails: the content is that of *)
(* the call, or unchanged; and the call returned is the one in progress.   *)
LEMMA CommitReturns ==
    ASSUME DbInv, DbCommit
    PROVE  /\ call # NoCall
           /\ call.fn = "put" =>
                /\ last' = [fn |-> "put", key |-> call.key, value |-> call.value,
                           rc |-> last'.rc]
                /\ \/ /\ disk' = With(disk, call.key, call.value)
                      /\ last'.rc = 0
                   \/ disk' = disk /\ call.key \in BadKeys
                   \/ disk' = disk /\ last'.rc = 1
           /\ call.fn = "del" =>
                /\ last' = [fn |-> "del", key |-> call.key, rc |-> last'.rc]
                /\ \/ disk' = Without(disk, call.key) /\ last'.rc = 0
                   \/ disk' = disk /\ last'.rc = 1
                   \/ disk' = disk /\ "commit" \in DbFaults
           /\ call.fn \in {"put", "del"}
<1>1. call # NoCall /\ call.fn \in {"put", "del"}
  BY DEF DbCommit, DbInv, Pending
<1>2. CASE CommitOk /\ Returned(call, IF call.fn = "put" THEN PutReturn(TRUE)
                                                        ELSE DelReturn)
  BY <1>1, <1>2, Committed DEF Returned, PutReturn, DelReturn
<1>3. CASE CommitFails /\ Returned(call, IF call.fn = "put" THEN PutReturn(FALSE)
                                                           ELSE DelReturn)
  BY <1>1, <1>3 DEF CommitFails, Returned, PutReturn, DelReturn
<1> QED
  BY <1>1, <1>2, <1>3 DEF DbCommit

(* Every other step leaves the content alone, and reports no success of a  *)
(* write that it did not report before.                                    *)
LEMMA OtherReturns ==
    ASSUME DbInv, [Next]_vars, ~DbCommit
    PROVE  /\ disk' = disk
           /\ last' = last \/ last' = NoCall \/ last'.fn = "get" \/ last'.rc = 1
<1>1. ASSUME NEW k \in Keys, NEW v \in Values \cup {DELETE}, DbPut(k, v)
      PROVE  disk' = disk /\ (last' = last \/ last'.rc = 1)
  BY <1>1 DEF DbPut, PutBegins, BeginFails, Returned
<1>2. ASSUME NEW k \in Keys, DbDel(k)
      PROVE  disk' = disk /\ (last' = last \/ last'.rc = 1)
  BY <1>2 DEF DbDel, DelBegins, BeginFails, Returned
<1>3. ASSUME NEW k \in Keys, DbGet(k)
      PROVE  disk' = disk /\ last'.fn = "get"
  BY <1>3 DEF DbGet, db_get, Miss
<1>4. ASSUME Crash
      PROVE  disk' = disk /\ last' = NoCall
  BY <1>4 DEF Crash, TxnLost
<1> QED
  BY <1>1, <1>2, <1>3, <1>4 DEF Next, vars, DbPutDELETE

(* When every key can be stored, db_put returns 0 only if the record is    *)
(* there, whatever fails: the commit's code is enough (db_put).            *)
THEOREM PutHonestCorrect ==
    ASSUME BadKeys = {}
    PROVE  Spec => []PutHonest
<1>1. Init => DbInv /\ PutHonest
  BY InitDbInv DEF Init, PutHonest
<1>2. DbInv /\ PutHonest /\ [Next]_vars => DbInv' /\ PutHonest'
  <2> SUFFICES ASSUME DbInv, PutHonest, [Next]_vars PROVE PutHonest'
    BY StepDbInv
  <2>1. CASE DbCommit
    BY <2>1, CommitReturns DEF PutHonest, With
  <2>2. CASE ~DbCommit
    BY <2>2, OtherReturns DEF PutHonest
  <2> QED
    BY <2>1, <2>2
<1> QED
  BY <1>1, <1>2, PTL DEF Spec

(* When no commit fails by itself, db_del returns 0 only if the key is     *)
(* gone (db_del).                                                          *)
THEOREM DelHonestCorrect ==
    ASSUME "commit" \notin DbFaults
    PROVE  Spec => []DelHonest
<1>1. Init => DbInv /\ DelHonest
  BY InitDbInv DEF Init, DelHonest
<1>2. DbInv /\ DelHonest /\ [Next]_vars => DbInv' /\ DelHonest'
  <2> SUFFICES ASSUME DbInv, DelHonest, [Next]_vars PROVE DelHonest'
    BY StepDbInv
  <2>1. CASE DbCommit
    BY <2>1, CommitReturns DEF DelHonest, Without
  <2>2. CASE ~DbCommit
    BY <2>2, OtherReturns DEF DelHonest
  <2> QED
    BY <2>1, <2>2
<1> QED
  BY <1>1, <1>2, PTL DEF Spec

(* A call that failed or died changed nothing, and one that worked changed *)
(* its own key only, under every fault and for every key (db_put, db_del). *)
THEOREM ChangesOwnKeyCorrect == Spec => ChangesOwnKey
<1> DEFINE Own ==
        disk' # disk =>
          /\ call # NoCall /\ last'.rc = 0
          /\ \A k \in Keys \ {call.key} :
               /\ k \in DOMAIN disk' <=> k \in DOMAIN disk
               /\ k \in DOMAIN disk => disk'[k] = disk[k]
<1>1. DbInv /\ [Next]_vars => [Own]_vars
  <2> SUFFICES ASSUME DbInv, [Next]_vars PROVE Own
    OBVIOUS
  <2>1. CASE DbCommit
    BY <2>1, CommitReturns DEF With, Without
  <2>2. CASE ~DbCommit
    BY <2>2, OtherReturns
  <2> QED
    BY <2>1, <2>2
<1>2. Init => DbInv
  BY InitDbInv
<1>3. DbInv /\ [Next]_vars => DbInv'
  BY StepDbInv
<1> QED
  BY <1>1, <1>2, <1>3, PTL DEF Spec, ChangesOwnKey
=============================================================================
