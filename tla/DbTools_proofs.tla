--------------------------- MODULE DbTools_proofs ---------------------------
(***************************************************************************)
(* Whatever fails or dies, a program leaves neither a transaction nor the  *)
(* writer lock behind (GivesBack); a dump is a consistent copy             *)
(* (BackupWhole) that a load brings back (RestoresBackup); and the buffers *)
(* of lmdb-ll-look (OnlyFullBuffersUnended): for any keys, texts, buffers, *)
(* failures and bounds.                                                    *)
(***************************************************************************)
EXTENDS DbTools, NaturalsInduction, WellFoundedInduction, SequenceTheorems,
        TLAPS

-----------------------------------------------------------------------------
(* Induction on the numbers: a property of numbers is given as the set of  *)
(* those that have it.                                                     *)

(* A set of numbers has a least one.                                       *)
LEMMA Least ==
    ASSUME NEW T \in SUBSET Nat, T # {}
    PROVE  \E m \in T : \A n \in T : m <= n
  <1> DEFINE R == OpToRel(<, Nat)
  <1>1. IsWellFoundedOn(R, Nat)
    BY NatLessThanWellFounded
  <1>2. \A x, y \in Nat : y < x => << y, x >> \in R
    BY DEF OpToRel
  <1> HIDE DEF R
  <1>3. \E x \in T : \A y \in T : << y, x >> \notin R
    BY <1>1, WFMin
  <1>4. PICK m \in T : \A y \in T : << y, m >> \notin R
    BY <1>3
  <1>5. \A n \in T : ~(n < m)
    BY <1>2, <1>4, Zenon
  <1> QED
    BY <1>5, T \subseteq Nat, m \in T, SMT

(* What holds of 0 and of each successor holds of all of them.             *)
LEMMA Induct ==
    ASSUME NEW S, 0 \in S, \A n \in Nat : n \in S => n + 1 \in S
    PROVE  Nat \subseteq S
  <1> SUFFICES ASSUME NEW k \in Nat, k \notin S
               PROVE  FALSE
    OBVIOUS
  <1>1. PICK m \in Nat \ S : \A n \in Nat \ S : m <= n
    BY Least
  <1>2. m # 0 /\ m - 1 \in Nat /\ m - 1 \in S
    BY <1>1
  <1>3. (m - 1) + 1 \in S
    BY <1>2
  <1> QED
    BY <1>1, <1>3

(* A function may be defined by its value at 0 and a step.                 *)
Recurs(V, base, n, step, f) ==
    /\ f \in [0 .. n -> V] /\ f[0] = base
    /\ \A i \in 1 .. n : f[i] = step[<< i, f[i - 1] >>]

LEMMA Recursion ==
    ASSUME NEW V, NEW base \in V, NEW n \in Nat, NEW step \in [(1 .. n) \X V -> V]
    PROVE  \E f : Recurs(V, base, n, step, f)
  <1> DEFINE Upto(k) == \E f : Recurs(V, base, k, step, f)
             S == {k \in Nat : k <= n => Upto(k)}
  <1>1. 0 \in S
    <2> DEFINE g == [i \in 0 .. 0 |-> base]
    <2>1. g \in [0 .. 0 -> V] /\ g[0] = base
      OBVIOUS
    <2>2. \A i \in 1 .. 0 : g[i] = step[<< i, g[i - 1] >>]
      OBVIOUS
    <2> HIDE DEF g
    <2> QED
      BY <2>1, <2>2 DEF Recurs
  <1>2. ASSUME NEW k \in Nat, k \in S
        PROVE  k + 1 \in S
    <2> SUFFICES ASSUME k + 1 <= n
                 PROVE  Upto(k + 1)
      OBVIOUS
    <2>1. PICK f : Recurs(V, base, k, step, f)
      BY <1>2
    <2> DEFINE v == step[<< k + 1, f[k] >>]
               g == [i \in 0 .. k + 1 |-> IF i = k + 1 THEN v ELSE f[i]]
    <2>2. v \in V
      <3>1. << k + 1, f[k] >> \in (1 .. n) \X V
        BY <2>1 DEF Recurs
      <3> QED
        BY <3>1
    <2> HIDE DEF v
    <2>3. g \in [0 .. k + 1 -> V] /\ g[0] = f[0]
      BY <2>1, <2>2 DEF Recurs
    <2>4. \A i \in 1 .. k + 1 : g[i] = step[<< i, g[i - 1] >>]
      <3>1. ASSUME NEW i \in 1 .. k
            PROVE  g[i] = step[<< i, g[i - 1] >>]
        <4>1. g[i] = f[i] /\ g[i - 1] = f[i - 1]
          OBVIOUS
        <4> QED
          BY <2>1, <4>1 DEF Recurs
      <3>2. g[k + 1] = v /\ g[(k + 1) - 1] = f[k]
        OBVIOUS
      <3> HIDE DEF g
      <3> QED
        BY <3>1, <3>2 DEF v
    <2> HIDE DEF g
    <2> QED
      BY <2>1, <2>3, <2>4 DEF Recurs
  <1>3. Nat \subseteq S
    BY <1>1, <1>2, Induct
  <1> QED
    BY <1>3

(* Nothing put together is nothing.                                        *)
LEMMA FlattenNothing == FlattenSeq(<< >>) = << >>
  BY DEF FlattenSeq

(* A function on 1 .. n is a sequence.                                     *)
LEMMA FunctionIsSeq ==
    ASSUME NEW V, NEW n \in Nat, NEW s \in [1 .. n -> V]
    PROVE  s \in Seq(V) /\ Len(s) = n
  <1>1. s \in Seq(V)
    BY SeqDef
  <1> QED
    BY <1>1, LenProperties

(* FlattenSeq puts sequences together from the left.                       *)
Flattens(n, ss, f) ==
    f = [i \in 1 .. n |-> IF i = 1 THEN ss[i] ELSE f[i - 1] \o ss[i]]

Follows(n, ss, f) == f[1] = ss[1] /\ \A i \in 1 .. n : f[i + 1] = f[i] \o ss[i + 1]

(* The steps of FlattenSeq.                                                *)
LEMMA FlattensAt ==
    ASSUME NEW n \in Nat, n >= 1, NEW ss, NEW f, Flattens(n, ss, f)
    PROVE  Follows(n - 1, ss, f)
  <1>1. \A i \in 1 .. n : f[i] = IF i = 1 THEN ss[i] ELSE f[i - 1] \o ss[i]
    BY Zenon DEF Flattens
  <1>2. f[1] = ss[1]
    BY <1>1
  <1>3. ASSUME NEW i \in 1 .. n - 1
        PROVE  f[i + 1] = f[i] \o ss[i + 1]
    <2>1. i + 1 \in 1 .. n /\ i + 1 # 1 /\ (i + 1) - 1 = i
      OBVIOUS
    <2>2. f[i + 1] = IF i + 1 = 1 THEN ss[i + 1] ELSE f[(i + 1) - 1] \o ss[i + 1]
      BY <1>1, <2>1, Zenon
    <2> QED
      BY <2>1, <2>2, Zenon
  <1> QED
    BY <1>2, <1>3, Zenon DEF Follows

(* The same of one sequence more.                                          *)
LEMMA FlattensNext ==
    ASSUME NEW n \in Nat, NEW ss, NEW f, Flattens(n + 1, ss, f)
    PROVE  Follows(n, ss, f)
  <1> DEFINE m == n + 1
  <1>1. m \in Nat /\ m >= 1 /\ m - 1 = n /\ Flattens(m, ss, f)
    OBVIOUS
  <1> HIDE DEF m
  <1> QED
    BY <1>1, FlattensAt

(* FlattenSeq is what is reached with the last sequence.                   *)
LEMMA FlattenSteps ==
    ASSUME NEW S, NEW n \in Nat, n >= 1, NEW ss \in [1 .. n -> Seq(S)]
    PROVE  \E f : /\ Flattens(n, ss, f) /\ FlattenSeq(ss) = f[n]
                  /\ \A i \in 1 .. n : f[i] \in Seq(S)
  <1> DEFINE V == Seq(S)
             step == [p \in (1 .. n) \X V |->
                        IF p[1] = 1 THEN ss[1] ELSE p[2] \o ss[p[1]]]
  <1>1. /\ << >> \in V /\ \A i \in 1 .. n : ss[i] \in V
        /\ \A u, w \in V : u \o w \in V
    BY ConcatProperties, EmptySeq
  <1> HIDE DEF V
  <1>2. step \in [(1 .. n) \X V -> V]
    BY <1>1
  <1>3. \A i \in 1 .. n : \A w \in V :
          step[<< i, w >>] = IF i = 1 THEN ss[1] ELSE w \o ss[i]
    <2> TAKE i \in 1 .. n
    <2> TAKE w \in V
    <2>1. << i, w >> \in (1 .. n) \X V /\ << i, w >>[1] = i /\ << i, w >>[2] = w
      OBVIOUS
    <2>2. step[<< i, w >>] = IF << i, w >>[1] = 1 THEN ss[1]
                             ELSE << i, w >>[2] \o ss[<< i, w >>[1]]
      BY <2>1, Zenon
    <2> QED
      BY <2>1, <2>2, Zenon
  <1> HIDE DEF step
  <1>4. PICK h : Recurs(V, << >>, n, step, h)
    BY <1>1, <1>2, Recursion
  <1> DEFINE g == [i \in 1 .. n |-> h[i]]
  <1>5. \A i \in 1 .. n : g[i] = IF i = 1 THEN ss[i] ELSE g[i - 1] \o ss[i]
    <2> TAKE i \in 1 .. n
    <2>1. g[i] = step[<< i, h[i - 1] >>] /\ h[i - 1] \in V
      BY <1>4 DEF Recurs
    <2>2. i # 1 => g[i - 1] = h[i - 1]
      OBVIOUS
    <2> HIDE DEF g
    <2> QED
      BY <1>3, <2>1, <2>2
  <1>6. Flattens(n, ss, g)
    <2>1. g = [i \in 1 .. n |-> g[i]]
      OBVIOUS
    <2> HIDE DEF g
    <2> QED
      BY <1>5, <2>1 DEF Flattens
  <1> DEFINE f == CHOOSE f : Flattens(n, ss, f)
  <1> HIDE DEF g
  <1>7. Flattens(n, ss, f)
    BY <1>6
  <1>8. FlattenSeq(ss) = f[n]
    <2>1. Len(ss) = n
      BY FunctionIsSeq
    <2>2. n # 0
      OBVIOUS
    <2> QED
      BY <2>1, <2>2, Zenon DEF FlattenSeq, Flattens
  <1> HIDE DEF f
  <1>9. /\ f[1] = ss[1]
        /\ \A i \in 1 .. n - 1 : f[i + 1] = f[i] \o ss[i + 1]
    BY <1>7, FlattensAt, Zenon DEF Follows
  <1>10. \A i \in 1 .. n : f[i] \in V
    <2> DEFINE P == {i \in Nat : i \in 1 .. n => f[i] \in V}
    <2>1. 0 \in P
      OBVIOUS
    <2>2. ASSUME NEW i \in Nat, i \in P
          PROVE  i + 1 \in P
      <3>1. CASE i = 0
        BY <1>1, <1>9, <3>1
      <3>2. CASE i \in 1 .. n - 1
        <4>1. f[i] \in V /\ ss[i + 1] \in V
          BY <1>1, <2>2, <3>2
        <4>2. f[i + 1] \in V
          BY <1>1, <1>9, <3>2, <4>1, Zenon
        <4> QED
          BY <4>2
      <3> QED
        BY <3>1, <3>2
    <2> HIDE DEF P
    <2>3. Nat \subseteq P
      BY <2>1, <2>2, Induct
    <2> QED
      BY <2>3 DEF P
  <1> QED
    BY <1>7, <1>8, <1>10 DEF V

(* FlattenSeq of one sequence more.                                        *)
LEMMA FlattenOneMore ==
    ASSUME NEW S, NEW n \in Nat, NEW ss \in [1 .. n + 1 -> Seq(S)]
    PROVE  /\ FlattenSeq(ss) \in Seq(S)
           /\ FlattenSeq(ss) = FlattenSeq([i \in 1 .. n |-> ss[i]]) \o ss[n + 1]
  <1> DEFINE tt == [i \in 1 .. n |-> ss[i]]
  <1>1. tt \in [1 .. n -> Seq(S)] /\ \A i \in 1 .. n : tt[i] = ss[i]
    OBVIOUS
  <1>2. n = 0 => tt = << >>
    OBVIOUS
  <1> HIDE DEF tt
  <1>3. PICK g : /\ Flattens(n + 1, ss, g) /\ FlattenSeq(ss) = g[n + 1]
                 /\ \A i \in 1 .. n + 1 : g[i] \in Seq(S)
    <2>1. n + 1 \in Nat /\ n + 1 >= 1
      OBVIOUS
    <2> QED
      BY <2>1, FlattenSteps, Zenon
  <1>4. /\ g[1] = ss[1]
        /\ \A i \in 1 .. n : g[i + 1] = g[i] \o ss[i + 1]
    <2>1. Follows(n, ss, g)
      BY <1>3, FlattensNext
    <2> QED
      BY <2>1 DEF Follows
  <1> SUFFICES FlattenSeq(ss) = FlattenSeq(tt) \o ss[n + 1]
    <2>1. n + 1 \in 1 .. n + 1
      OBVIOUS
    <2> QED
      BY <1>3, <2>1, Zenon DEF tt
  <1>5. CASE n = 0
    <2>1. g[n + 1] = << >> \o ss[n + 1]
      <3>1. ss[1] \in Seq(S)
        OBVIOUS
      <3> QED
        BY <1>4, <1>5, <3>1, ConcatEmptySeq
    <2>2. FlattenSeq(tt) = << >>
      BY <1>2, <1>5, FlattenNothing
    <2> QED
      BY <1>3, <2>1, <2>2, Zenon
  <1>6. CASE n >= 1
    <2>1. PICK f : Flattens(n, tt, f) /\ FlattenSeq(tt) = f[n]
      BY <1>1, <1>6, FlattenSteps
    <2>2. /\ f[1] = tt[1]
          /\ \A i \in 1 .. n - 1 : f[i + 1] = f[i] \o tt[i + 1]
      BY <1>6, <2>1, FlattensAt, Zenon DEF Follows
    <2> DEFINE P == {i \in Nat : i \in 1 .. n => g[i] = f[i]}
    <2>3. 0 \in P
      OBVIOUS
    <2>4. ASSUME NEW i \in Nat, i \in P
          PROVE  i + 1 \in P
      <3>1. CASE i = 0
        BY <1>1, <1>4, <2>2, <3>1
      <3>2. CASE i \in 1 .. n - 1
        <4>1. g[i] = f[i] /\ tt[i + 1] = ss[i + 1] /\ i \in 1 .. n
          BY <1>1, <2>4, <3>2
        <4>2. g[i + 1] = f[i + 1]
          BY <1>4, <2>2, <3>2, <4>1, Zenon
        <4> QED
          BY <4>2
      <3> QED
        BY <3>1, <3>2
    <2> HIDE DEF P
    <2>5. Nat \subseteq P
      BY <2>3, <2>4, Induct
    <2>6. g[n] = f[n]
      BY <1>6, <2>5 DEF P
    <2>7. n \in 1 .. n
      BY <1>6
    <2>8. g[n + 1] = g[n] \o ss[n + 1]
      BY <1>4, <2>7, Zenon
    <2> QED
      BY <1>3, <2>1, <2>6, <2>8, Zenon
  <1> QED
    BY <1>5, <1>6

-----------------------------------------------------------------------------
Open == {"struct", "env"}
InTxn == Open \cup {"txn"}

(* What the program holds at each place.  GivesBack is not inductive by    *)
(* itself: that db_open ends without a transaction follows from where it   *)
(* got one, and that an error gives the lock back from who has it where.   *)
HeldAt ==
    /\ pc = "idle" => held \subseteq {"env"} /\ fn = "none"
    /\ pc = "env_create" => held = {"struct"}
    /\ pc \in {"set_maxdbs", "env_open", "txn_begin", "opened"} => held = Open
    /\ pc = "dbi_open" => held \in {Open, InTxn}
    /\ pc \in {"txn_commit", "cursor_open", "commit"} => held = InTxn
    /\ pc \in {"walk", "close"} => held = InTxn \cup {"cursor"}
    /\ pc \in {"cursor_open", "walk", "close"} => fn # "load"
    /\ pc = "commit" => fn = "load"

HolderAt ==
    /\ holder = "tool" <=> fn = "load" /\ "txn" \in held
    /\ holder = "daemon" <=> daemon = "commit"

IInv == HeldAt /\ HolderAt

(* A step of the daemon. *)
LEMMA DaemonKeeps ==
    ASSUME IInv, DaemonOnly, holder # "tool", holder' # "tool",
           holder' = "daemon" <=> daemon' = "commit"
    PROVE  IInv'
<1>1. HeldAt'
  BY DEF IInv, HeldAt, DaemonOnly
<1>2. HolderAt'
  BY DEF IInv, HolderAt, DaemonOnly
<1> QED
  BY <1>1, <1>2 DEF IInv

(* A program that ends with no transaction and no lock. *)
LEMMA EndsKeeps ==
    ASSUME IInv, NEW keeps, NEW how, Ends(keeps, how), keeps \subseteq {"env"},
           daemon' = daemon, holder' = IF holder = "tool" THEN "none" ELSE holder
    PROVE  IInv'
<1>1. HeldAt'
  BY DEF Ends, HeldAt
<1>2. HolderAt'
  BY DEF Ends, HolderAt, IInv
<1> QED
  BY <1>1, <1>2 DEF IInv

(* A program that dies. *)
LEMMA DiesKeeps == ASSUME IInv, Dies PROVE IInv'
<1>1. holder' = IF holder = "tool" THEN "none" ELSE holder
  BY DEF Dies, TxnLost, storevars
<1>2. daemon' = daemon
  BY DEF Dies, ToolOnly, daemonvars
<1>3. Ends({}, "died")
  BY DEF Dies
<1> QED
  BY <1>1, <1>2, <1>3, EndsKeeps

(* db_open. *)
LEMMA CallKeeps ==
    ASSUME IInv, Opens PROVE IInv'
<1>1. CASE mdb_env_create
  BY <1>1 DEF mdb_env_create, Call, GoesOn, Ends, Quietly, ToolOnly, storevars,
              daemonvars, IInv, HeldAt, HolderAt, Open, InTxn
<1>2. CASE mdb_env_set_maxdbs
  BY <1>2 DEF mdb_env_set_maxdbs, Call, GoesOn, Ends, Quietly, ToolOnly, storevars,
              daemonvars, IInv, HeldAt, HolderAt, Open, InTxn
<1>3. CASE mdb_env_open
  BY <1>3 DEF mdb_env_open, Call, GoesOn, Ends, Quietly, ToolOnly, storevars,
              daemonvars, IInv, HeldAt, HolderAt, Open, InTxn
<1>4. CASE mdb_txn_begin
  BY <1>4 DEF mdb_txn_begin, RdOnly, GoesOn, ToolOnly,
              daemonvars, IInv, HeldAt, HolderAt, Open, InTxn
<1>5. CASE mdb_dbi_open
  BY <1>5, DiesKeeps DEF mdb_dbi_open, GoesOn, Ends, Quietly, ToolOnly, storevars, Unlocks,
              daemonvars, IInv, HeldAt, HolderAt, Open, InTxn
<1>6. CASE mdb_txn_commit
  BY <1>6 DEF mdb_txn_commit, GoesOn, Ends, ToolOnly, Unlocks,
              daemonvars, IInv, HeldAt, HolderAt, Open, InTxn
<1> QED
  BY <1>1, <1>2, <1>3, <1>4, <1>5, <1>6 DEF Opens

(* The walks, the lookups and the load. *)
LEMMA WorkKeeps ==
    ASSUME IInv, Works \/ Looks PROVE IInv'
<1>1. CASE WalkBegins
  BY <1>1 DEF WalkBegins, Walks, GoesOn, Ends, Quietly, ToolOnly, storevars,
              daemonvars, IInv, HeldAt, HolderAt, Open, InTxn
<1>2. CASE mdb_cursor_open
  BY <1>2, DiesKeeps DEF mdb_cursor_open, GoesOn, Quietly, ToolOnly, storevars,
              daemonvars, IInv, HeldAt, HolderAt, Open, InTxn
<1>3. CASE Visits
  <2>1. pc = "walk" /\ (GoesOn("walk", held) \/ GoesOn("close", held))
    BY <1>3 DEF Visits
  <2>2. UNCHANGED << holder, daemon >>
    BY <1>3 DEF Visits, Quietly, ToolOnly, storevars, daemonvars
  <2> QED
    BY <2>1, <2>2 DEF GoesOn, IInv, HeldAt, HolderAt
<1>4. CASE MydumpFails
  BY <1>4, DiesKeeps DEF MydumpFails
<1>5. CASE WalkEnds
  BY <1>5 DEF WalkEnds, Ends, storevars, daemonvars, IInv, HeldAt, HolderAt
<1>6. CASE Looks \/ LookEnds
  BY <1>6 DEF Looks, LookEnds, GoesOn, Ends, Quietly, ToolOnly, storevars,
              daemonvars, IInv, HeldAt, HolderAt, Open
<1>7. CASE LoadSkips
  BY <1>7 DEF LoadSkips, Loading, GoesOn, Quietly, ToolOnly, storevars,
              daemonvars, IInv, HeldAt, HolderAt, Open
<1>8. CASE LoadPuts
  <2>1. pc = "opened" /\ fn = "load" /\ holder = "none" /\ daemon' = daemon
    BY <1>8 DEF LoadPuts, Loading, ToolOnly, daemonvars
  <2>2. \/ holder' = "tool" /\ GoesOn("commit", held \cup {"txn"})
        \/ holder' = holder /\ GoesOn("opened", held)
    BY <1>8 DEF LoadPuts
  <2> QED
    BY <2>1, <2>2 DEF GoesOn, IInv, HeldAt, HolderAt, Open, InTxn
<1>9. CASE LoadCommits
  <2>1. pc = "commit" /\ holder' = "none" /\ GoesOn("opened", held \ {"txn"}) /\ daemon' = daemon
    BY <1>9 DEF LoadCommits, ToolOnly, daemonvars
  <2> QED
    BY <2>1 DEF GoesOn, IInv, HeldAt, HolderAt, Open, InTxn
<1>10. CASE LoadEnds
  BY <1>10 DEF LoadEnds, Ends, Quietly, ToolOnly, storevars, daemonvars,
               IInv, HeldAt, HolderAt, Open
<1> QED
  BY <1>1, <1>2, <1>3, <1>4, <1>5, <1>6, <1>7, <1>8, <1>9, <1>10 DEF Works

(* The daemon. *)
LEMMA DaemonStep ==
    ASSUME IInv, NEW k, NEW v,
           DaemonAsks(k, v) \/ DaemonPuts \/ DaemonCommits \/ DaemonDies
    PROVE  IInv'
<1>1. CASE DaemonAsks(k, v)
  BY <1>1 DEF DaemonAsks, DaemonOnly, storevars, IInv, HeldAt, HolderAt
<1>2. CASE DaemonPuts
  BY <1>2, DaemonKeeps DEF DaemonPuts
<1>3. CASE DaemonCommits
  <2>1. daemon = "commit" /\ daemon' = "idle" /\ holder' = "none" /\ DaemonOnly
    BY <1>3 DEF DaemonCommits
  <2> QED
    BY <2>1, DaemonKeeps DEF IInv, HolderAt
<1>4. CASE DaemonDies
  BY <1>4 DEF DaemonDies, DaemonOnly, storevars, IInv, HeldAt, HolderAt
<1> QED
  BY <1>1, <1>2, <1>3, <1>4

LEMMA NextKeeps == ASSUME IInv, [Next]_vars PROVE IInv'
<1>1. CASE \E f \in Programs : Run(f)
  BY <1>1 DEF Run, storevars, daemonvars, IInv, HeldAt, HolderAt
<1>2. CASE Opens
  BY <1>2, CallKeeps
<1>3. CASE Works \/ Looks
  BY <1>3, WorkKeeps
<1>4. CASE Killed
  BY <1>4, DiesKeeps DEF Killed
<1>5. CASE \E k \in Keys \ BadKeys, v \in Written \cup {DELETE} : DaemonAsks(k, v)
  BY <1>5, DaemonStep
<1>6. CASE DaemonPuts \/ DaemonCommits \/ DaemonDies
  BY <1>6, DaemonStep
<1>7. CASE UNCHANGED vars
  BY <1>7 DEF vars, storevars, daemonvars, IInv, HeldAt, HolderAt
<1> QED
  BY <1>1, <1>2, <1>3, <1>4, <1>5, <1>6, <1>7 DEF Next

(* A program that ended, failed or died, at whatever call, and one that    *)
(* waits for its input, hold no transaction and no lock.                   *)
THEOREM GivesBackCorrect == Spec => []GivesBack
<1>1. Init => IInv
  BY DEF Init, IInv, HeldAt, HolderAt
<1>2. IInv /\ [Next]_vars => IInv'
  BY NextKeeps
<1>3. IInv => GivesBack
  BY DEF IInv, HeldAt, HolderAt, GivesBack, Open, InTxn
<1> QED
  BY <1>1, <1>2, <1>3, PTL DEF Spec
-----------------------------------------------------------------------------
(* Texts. *)
Text == Seq(Chars)
Free(text, c) == \A i \in 1 .. Len(text) : text[i] # c

(* What is assumed of the constants. *)
LEMMA Given ==
    /\ Keys \subseteq Text /\ Written \subseteq Text /\ Texts \subseteq Text
    /\ SP \in Chars /\ NL \in Chars /\ CR \in Chars
    /\ SP # NL /\ SP # CR /\ NL # CR
    /\ BufSize \in Nat /\ BufSize >= 2
  BY DbToolsAssumption DEF Text

LEMMA Associates == \A a, b, c \in Text : (a \o b) \o c = a \o (b \o c)
  BY ConcatAssociative DEF Text

LEMMA TextJoins ==
    \A a, b, c \in Text : a \o b \in Text /\ (a \o b) \o c = a \o (b \o c)
  <1>1. \A a, b \in Text : a \o b \in Text
    BY ConcatProperties DEF Text
  <1> QED
    BY <1>1, Associates, Zenon

LEMMA MinIs ==
    ASSUME NEW S \in SUBSET Int, NEW m \in S, \A n \in S : m <= n
    PROVE  Min(S) = m
  <1>1. \E x \in S : \A y \in S : x =< y
    OBVIOUS
  <1>2. Min(S) \in S /\ \A n \in S : Min(S) =< n
    BY <1>1, Zenon DEF Min
  <1>3. PICK x : x = Min(S)
    BY Zenon
  <1>4. x \in S /\ x =< m
    BY <1>2, <1>3, Zenon
  <1>5. m =< x
    BY <1>4
  <1>6. x = m
    BY <1>4, <1>5
  <1> QED
    BY <1>3, <1>6

(* What a text is made of. *)
Joins(t, a, b) == t = a \o b
Stands(t, a, c, b) == t = a \o << c >> \o b

LEMMA Splits ==
    ASSUME NEW a \in Text, NEW b \in Text, NEW t, Joins(t, a, b)
    PROVE  /\ t \in Text /\ Len(t) = Len(a) + Len(b)
           /\ SubSeq(t, 1, Len(a)) = a
           /\ SubSeq(t, Len(a) + 1, Len(t)) = b
           /\ \A i \in 1 .. Len(a) : t[i] = a[i]
  <1>1. /\ t \in Text /\ Len(t) = Len(a) + Len(b) /\ Len(a) \in Nat /\ Len(b) \in Nat
        /\ \A i \in 1 .. Len(a) + Len(b) : t[i] = IF i <= Len(a) THEN a[i] ELSE b[i - Len(a)]
    BY ConcatProperties, LenProperties DEF Text, Joins
  <1>2. \A i \in 1 .. Len(t) : t[i] \in Chars
    BY <1>1, ElementOfSeq DEF Text
  <1>3. SubSeq(t, 1, Len(a)) = a
    <2>1. \A i \in 1 .. Len(a) : t[i] \in Chars
      BY <1>1, <1>2
    <2>2. /\ SubSeq(t, 1, Len(a)) \in Text /\ Len(SubSeq(t, 1, Len(a))) = Len(a)
          /\ \A i \in 1 .. Len(a) : SubSeq(t, 1, Len(a))[i] = t[i]
      BY <1>1, <2>1, SubSeqProperties DEF Text
    <2>3. \A i \in 1 .. Len(a) : SubSeq(t, 1, Len(a))[i] = a[i]
      BY <1>1, <2>2
    <2> QED
      BY <2>2, <2>3, SeqEqual DEF Text
  <1>4. SubSeq(t, Len(a) + 1, Len(t)) = b
    <2>1. \A i \in Len(a) + 1 .. Len(t) : t[i] \in Chars
      BY <1>1, <1>2
    <2>2. /\ SubSeq(t, Len(a) + 1, Len(t)) \in Text
          /\ Len(SubSeq(t, Len(a) + 1, Len(t))) = Len(b)
          /\ \A i \in 1 .. Len(b) : SubSeq(t, Len(a) + 1, Len(t))[i] = t[Len(a) + i]
      <3> DEFINE lo == Len(a) + 1
                 hi == Len(t)
                 back == SubSeq(t, lo, hi)
      <3>1. lo \in Int /\ hi \in Int /\ Len(b) = hi - lo + 1 /\ lo <= hi + 1
        BY <1>1
      <3>2. \A i \in lo .. hi : t[i] \in Chars
        BY <2>1
      <3>3. \A i \in 1 .. Len(b) : lo + i - 1 = Len(a) + i
        BY <1>1
      <3> HIDE DEF lo, hi
      <3>4. /\ back \in Seq(Chars) /\ Len(back) = IF lo <= hi THEN hi - lo + 1 ELSE 0
            /\ \A i \in 1 .. hi - lo + 1 : back[i] = t[lo + i - 1]
        BY <3>1, <3>2, SubSeqProperties
      <3> HIDE DEF back
      <3>5. back \in Text
        BY <3>4 DEF Text
      <3> DEFINE n == Len(b)
                 from == Len(a)
      <3>6. /\ n = hi - lo + 1 /\ (n = IF lo <= hi THEN hi - lo + 1 ELSE 0)
            /\ \A i \in 1 .. n : lo + i - 1 = from + i
        BY <3>1, <3>3
      <3> HIDE DEF n, from
      <3>7. Len(back) = n
        BY <3>4, <3>6
      <3>8. \A i \in 1 .. n : back[i] = t[from + i]
        BY <3>4, <3>6
      <3> QED
        BY <3>5, <3>7, <3>8 DEF back, lo, hi, n, from
    <2>3. \A i \in 1 .. Len(b) : SubSeq(t, Len(a) + 1, Len(t))[i] = b[i]
      BY <1>1, <2>2
    <2> QED
      BY <2>2, <2>3, SeqEqual DEF Text
  <1> QED
    BY <1>1, <1>3, <1>4

LEMMA AllSplit ==
    \A a, b \in Text : \A t : Joins(t, a, b) => t \in Text /\ Len(t) = Len(a) + Len(b)
  BY Splits

LEMMA FreeParts ==
    /\ \A a, b \in Text : \A c : Free(a, c) /\ Free(b, c) <=> Free(a \o b, c)
    /\ \A x, c : x # c => Free(<< x >>, c)
    /\ \A a \in Text : \A c : Free(a, c) <=> Finds(a, c) = {}
  <1>1. ASSUME NEW a \in Text, NEW b \in Text, NEW c
        PROVE  Free(a, c) /\ Free(b, c) <=> Free(a \o b, c)
    <2>1. /\ Len(a \o b) = Len(a) + Len(b) /\ Len(a) \in Nat /\ Len(b) \in Nat
          /\ \A i \in 1 .. Len(a) + Len(b) :
               (a \o b)[i] = IF i <= Len(a) THEN a[i] ELSE b[i - Len(a)]
      BY ConcatProperties, LenProperties DEF Text
    <2>2. ASSUME Free(a \o b, c) PROVE Free(b, c)
      <3> SUFFICES ASSUME NEW i \in 1 .. Len(b) PROVE b[i] # c
        BY DEF Free
      <3>1. Len(a) + i \in 1 .. Len(a) + Len(b) /\ (Len(a) + i) - Len(a) = i
        BY <2>1
      <3>2. (a \o b)[Len(a) + i] # c
        BY <2>1, <2>2, <3>1 DEF Free
      <3> QED
        BY <2>1, <3>1, <3>2
    <2>3. ASSUME Free(a \o b, c) PROVE Free(a, c)
      BY <2>1, <2>3 DEF Free
    <2>4. ASSUME Free(a, c), Free(b, c) PROVE Free(a \o b, c)
      BY <2>1, <2>4 DEF Free
    <2> QED
      BY <2>2, <2>3, <2>4
  <1>2. \A x, c : x # c => Free(<< x >>, c)
    BY DEF Free
  <1>3. \A a \in Text : \A c : Free(a, c) <=> Finds(a, c) = {}
    BY DEF Free, Finds
  <1> QED
    BY <1>1, <1>2, <1>3

LEMMA FirstFound ==
    ASSUME NEW a \in Text, NEW c \in Chars, NEW b \in Text, Free(a, c),
           NEW t, Stands(t, a, c, b)
    PROVE  /\ t \in Text
           /\ Len(t) = Len(a) + 1 + Len(b)
           /\ Len(a) + 1 \in Finds(t, c)
           /\ \A i \in Finds(t, c) : Len(a) + 1 <= i
           /\ CutAt(t, c) = a
           /\ Behind(t, c) = b
  <1> DEFINE ac == a \o << c >>
  <1>1. << c >> \in Text /\ Len(<< c >>) = 1 /\ << c >>[1] = c
    BY DEF Text
  <1>2. /\ ac \in Text /\ Len(ac) = Len(a) + 1 /\ Len(a) \in Nat
        /\ ac[Len(a) + 1] = c /\ \A i \in 1 .. Len(a) : ac[i] = a[i]
    BY <1>1, ConcatProperties, LenProperties DEF Text
  <1>3. Joins(t, ac, b)
    BY Zenon DEF ac, Joins, Stands
  <1> HIDE DEF ac
  <1>4. /\ t \in Text /\ Len(t) = Len(a) + 1 + Len(b) /\ Len(b) \in Nat
        /\ \A i \in 1 .. Len(ac) : t[i] = ac[i]
    <2>1. /\ t \in Text /\ Len(t) = Len(ac) + Len(b)
          /\ \A i \in 1 .. Len(ac) : t[i] = ac[i]
      BY <1>2, <1>3, Splits
    <2>2. Len(b) \in Nat
      BY LenProperties DEF Text
    <2> QED
      BY <1>2, <2>1, <2>2
  <1>5. t[Len(a) + 1] = c /\ \A i \in 1 .. Len(a) : t[i] = a[i]
    BY <1>2, <1>4
  <1>6. SubSeq(t, Len(ac) + 1, Len(t)) = b
    BY <1>2, <1>3, Splits
  <1>7. SubSeq(t, 1, Len(a)) = a
    <2>1. << c >> \o b \in Text
      BY <1>1, ConcatProperties DEF Text
    <2>2. Joins(t, a, << c >> \o b)
      BY <1>1, ConcatAssociative DEF Text, Joins, Stands
    <2> QED
      BY <2>1, <2>2, Splits
  <1>8. /\ Len(a) + 1 \in Finds(t, c) /\ Finds(t, c) \in SUBSET Int
        /\ \A i \in Finds(t, c) : Len(a) + 1 <= i
    BY <1>2, <1>4, <1>5 DEF Finds, Free
  <1>9. Min(Finds(t, c)) = Len(a) + 1
    BY <1>8, MinIs
  <1>10. CutAt(t, c) = a /\ Behind(t, c) = b
    <2>1. (Len(a) + 1) - 1 = Len(a) /\ Len(ac) + 1 = (Len(a) + 1) + 1
      BY <1>2
    <2> QED
      BY <1>6, <1>7, <1>8, <1>9, <2>1 DEF CutAt, Behind
  <1> QED
    BY <1>4, <1>8, <1>10

(* A piece of a dump that fgets delivers, and what the load makes of it.   *)
Fgot(k, v, r, piece, rest) ==
    \/ piece = Line(k, v) /\ rest = r
    \/ piece = k \o << SP >> \o v /\ rest = << NL >> \o r

LEMMA LineIs ==
    ASSUME NEW k \in Text, NEW v \in Text, NEW r \in Text,
           Free(k, SP), Free(k, NL), Free(v, NL), Free(k, CR), Free(v, CR)
    PROVE  /\ Line(k, v) \in Text /\ Len(Line(k, v)) = Len(k) + Len(v) + 2
           /\ k \o << SP >> \o v \in Text
           /\ Free(k \o << SP >> \o v, NL) /\ Free(k \o << SP >> \o v, CR)
           /\ Len(k \o << SP >> \o v) = Len(k) + Len(v) + 1
           /\ Line(k, v) = k \o << SP >> \o v \o << NL >>
           /\ Line(k, v) \o r = k \o << SP >> \o v \o (<< NL >> \o r)
           /\ << NL >> \o r \in Text
  <1> DEFINE body == k \o << SP >> \o v
  <1>1. << SP >> \in Text /\ << NL >> \in Text /\ Len(<< SP >>) = 1 /\ Len(<< NL >>) = 1
    BY Given DEF Text
  <1>2. Free(<< SP >>, NL) /\ Free(<< SP >>, CR)
    BY FreeParts, Given, Zenon
  <1>3. k \o << SP >> \in Text /\ Len(k \o << SP >>) = Len(k) + 1
    BY <1>1, ConcatProperties DEF Text
  <1>4. Free(k \o << SP >>, NL) /\ Free(k \o << SP >>, CR)
    BY <1>1, <1>2, FreeParts, Zenon
  <1>5. body \in Text /\ Len(body) = Len(k) + 1 + Len(v)
    <2>1. \A a, b \in Text : a \o b \in Text /\ Len(a \o b) = Len(a) + Len(b)
      BY ConcatProperties DEF Text
    <2> QED
      BY <1>3, <2>1
  <1>6. Free(body, NL) /\ Free(body, CR)
    BY <1>3, <1>4, FreeParts, Zenon
  <1>7. Line(k, v) = body \o << NL >>
    BY DEF Line
  <1> HIDE DEF body
  <1>8. Line(k, v) \in Text /\ Len(Line(k, v)) = Len(body) + 1
    <2>1. Line(k, v) \in Text /\ Len(Line(k, v)) = Len(body) + Len(<< NL >>)
      BY <1>1, <1>5, <1>7, AllSplit, Zenon DEF Joins
    <2> QED
      BY <1>1, <2>1
  <1>9. Line(k, v) \o r = body \o (<< NL >> \o r) /\ << NL >> \o r \in Text
    BY <1>1, <1>5, <1>7, ConcatAssociative, ConcatProperties DEF Text
  <1>10. Len(k) \in Nat /\ Len(v) \in Nat
    BY LenProperties DEF Text
  <1> QED
    BY <1>5, <1>6, <1>7, <1>8, <1>9, <1>10 DEF body

LEMMA FgetsLine ==
    ASSUME NEW k \in Text, NEW v \in Text, NEW r \in Text,
           Free(k, SP), Free(k, NL), Free(v, NL), Free(k, CR), Free(v, CR),
           Len(k) + 1 + Len(v) <= BufSize - 1,
           NEW text, Joins(text, Line(k, v), r)
    PROVE  /\ Fgot(k, v, r, Fgets(text), SubSeq(text, Len(Fgets(text)) + 1, Len(text)))
           /\ CutAt(CutAt(Fgets(text), CR), NL) = k \o << SP >> \o v
  <1> DEFINE body == k \o << SP >> \o v
             line_ == Line(k, v)
             nr == << NL >> \o r
             S == {BufSize - 1, Len(text)} \cup Finds(text, NL)
  <1>1. /\ line_ \in Text /\ Len(line_) = Len(body) + 1
        /\ body \in Text /\ Free(body, NL) /\ Free(body, CR) /\ nr \in Text
        /\ Len(body) = Len(k) + Len(v) + 1 /\ Len(body) \in Nat
    <2>1. Len(k) \in Nat /\ Len(v) \in Nat
      BY LenProperties DEF Text
    <2>2. /\ line_ \in Text /\ Len(line_) = Len(k) + Len(v) + 2
          /\ body \in Text /\ Free(body, NL) /\ Free(body, CR)
          /\ Len(body) = Len(k) + Len(v) + 1 /\ nr \in Text
      BY LineIs, Zenon
    <2> HIDE DEF line_, body, nr
    <2> QED
      BY <2>1, <2>2
  <1>2. /\ NL \in Chars /\ << >> \in Text /\ << NL >> \in Text
        /\ Len(r) \in Nat /\ BufSize \in Nat
    <2>1. << >> \in Text
      BY EmptySeq DEF Text
    <2>2. << NL >> \in Text
      BY Given DEF Text
    <2>3. Len(r) \in Nat
      BY LenProperties DEF Text
    <2> QED
      BY <2>1, <2>2, <2>3, Given, Zenon
  <1>3. /\ Joins(line_, body, << NL >>) /\ Joins(text, line_, r) /\ Joins(text, body, nr)
        /\ Stands(line_, body, NL, << >>) /\ Stands(text, body, NL, r)
    <2>1. Line(k, v) = body \o << NL >> /\ Line(k, v) \o r = body \o (<< NL >> \o r)
      <3>1. Line(k, v) = body \o << NL >>
        BY Zenon DEF Line
      <3> DEFINE nl == << NL >>
      <3>2. body \in Text /\ nl \in Text
        BY <1>1, <1>2
      <3> HIDE DEF body, nl
      <3>3. (body \o nl) \o r = body \o (nl \o r)
        BY <3>2, Associates, Zenon
      <3> QED
        BY <3>1, <3>3, Zenon DEF nl
    <2>2. body \o << NL >> \o << >> = body \o << NL >>
      <3> HIDE DEF body
      <3> QED
        BY <1>1, <2>1, ConcatEmptySeq DEF Text
    <2> QED
      BY <2>1, <2>2, Zenon DEF Joins, Stands
  <1>4. Free(<< NL >>, CR)
    BY FreeParts, Given, Zenon
  <1>5. Free(line_, CR)
    <2>1. Free(body \o << NL >>, CR)
      <3> HIDE DEF body
      <3> QED
        BY <1>1, <1>2, <1>4, FreeParts, Zenon
    <2> QED
      BY <1>3, <2>1, Zenon DEF Joins
  <1>6. Fgets(text) = SubSeq(text, 1, Min(S))
    BY DEF Fgets
  <1>7. Fgot(k, v, r, line_, r) /\ Fgot(k, v, r, body, nr)
    BY Zenon DEF Fgot
  <1> SUFFICES /\ Fgot(k, v, r, Fgets(text), SubSeq(text, Len(Fgets(text)) + 1, Len(text)))
               /\ CutAt(CutAt(Fgets(text), CR), NL) = body
    BY Zenon
  <1> HIDE DEF body, line_, nr, S
  <1>8. /\ text \in Text /\ Len(text) = Len(body) + 1 + Len(r)
        /\ Len(body) + 1 \in Finds(text, NL)
        /\ \A i \in Finds(text, NL) : Len(body) + 1 <= i
    BY <1>1, <1>2, <1>3, FirstFound
  <1>9. S \in SUBSET Int /\ \A n \in S : n \in {BufSize - 1, Len(text)} \/ Len(body) + 1 <= n
    <2>1. Finds(text, NL) \in SUBSET Int
      BY DEF Finds
    <2> QED
      BY <1>1, <1>2, <1>8, <2>1 DEF S
  <1>10. Len(body) + 1 \in S /\ BufSize - 1 \in S /\ Len(body) <= BufSize - 1
    BY <1>1, <1>8 DEF S
  <1>11. CASE BufSize - 1 >= Len(body) + 1
    <2>1. \A n \in S : Len(body) + 1 <= n
      BY <1>1, <1>2, <1>8, <1>9, <1>11
    <2>2. Min(S) = Len(line_)
      BY <1>1, <1>9, <1>10, <2>1, MinIs
    <2>3. Fgets(text) = line_ /\ SubSeq(text, Len(line_) + 1, Len(text)) = r
      <3>1. SubSeq(text, 1, Len(line_)) = line_ /\ SubSeq(text, Len(line_) + 1, Len(text)) = r
        BY <1>1, <1>3, Splits
      <3> QED
        BY <1>6, <2>2, <3>1, Zenon
    <2>4. CutAt(line_, CR) = line_
      BY <1>1, <1>5, FreeParts, Zenon DEF CutAt
    <2>5. CutAt(line_, NL) = body
      BY <1>1, <1>2, <1>3, FirstFound
    <2> QED
      BY <1>7, <2>3, <2>4, <2>5, Zenon
  <1>12. CASE ~(BufSize - 1 >= Len(body) + 1)
    <2>1. BufSize - 1 = Len(body)
      BY <1>1, <1>2, <1>10, <1>12
    <2>2. Len(body) \in S /\ \A n \in S : Len(body) <= n
      BY <1>1, <1>2, <1>8, <1>9, <1>10, <2>1
    <2>3. Min(S) = Len(body)
      BY <1>9, <2>2, MinIs
    <2>4. Fgets(text) = body /\ SubSeq(text, Len(body) + 1, Len(text)) = nr
      <3>1. SubSeq(text, 1, Len(body)) = body /\ SubSeq(text, Len(body) + 1, Len(text)) = nr
        BY <1>1, <1>3, Splits
      <3> QED
        BY <1>6, <2>3, <3>1, Zenon
    <2>5. CutAt(body, CR) = body /\ CutAt(body, NL) = body
      BY <1>1, FreeParts, Zenon DEF CutAt
    <2> QED
      BY <1>7, <2>4, <2>5, Zenon
  <1> QED
    BY <1>11, <1>12

LEMMA FgetsNewline ==
    ASSUME NEW r \in Text, NEW text, Joins(text, << NL >>, r)
    PROVE  /\ Fgets(text) = << NL >>
           /\ SubSeq(text, Len(Fgets(text)) + 1, Len(text)) = r
           /\ Finds(CutAt(CutAt(Fgets(text), CR), NL), SP) = {}
  <1> DEFINE S == {BufSize - 1, Len(text)} \cup Finds(text, NL)
  <1>1. /\ NL \in Chars /\ << >> \in Text /\ << NL >> \in Text /\ Len(<< NL >>) = 1
        /\ Len(r) \in Nat /\ Len(<< >>) = 0 /\ BufSize \in Nat /\ BufSize >= 2
    BY LenProperties, EmptySeq, Given DEF Text
  <1>2. Stands(text, << >>, NL, r) /\ Joins(text, << NL >>, r)
    <2>1. << >> \o << NL >> = << NL >>
      BY <1>1, ConcatEmptySeq DEF Text
    <2> QED
      BY <2>1, Zenon DEF Stands, Joins
  <1>3. Free(<< >>, NL) /\ Free(<< >>, SP) /\ Free(<< >>, CR)
    BY <1>1 DEF Free
  <1>4. /\ text \in Text /\ Len(text) = 1 + Len(r) /\ 1 \in Finds(text, NL)
        /\ \A i \in Finds(text, NL) : 1 <= i
    <2>1. /\ text \in Text /\ Len(text) = Len(<< >>) + 1 + Len(r)
          /\ Len(<< >>) + 1 \in Finds(text, NL)
          /\ \A i \in Finds(text, NL) : Len(<< >>) + 1 <= i
      BY <1>1, <1>2, <1>3, FirstFound
    <2> QED
      BY <1>1, <2>1
  <1>5. S \in SUBSET Int /\ 1 \in S /\ \A n \in S : 1 <= n
    BY <1>1, <1>4 DEF Finds
  <1>6. Min(S) = 1
    <2> HIDE DEF S
    <2> QED
      BY <1>5, MinIs
  <1>7. Fgets(text) = << NL >> /\ SubSeq(text, Len(<< NL >>) + 1, Len(text)) = r
    <2>1. Fgets(text) = SubSeq(text, 1, Len(<< NL >>))
      <3>1. Min(S) = Len(<< NL >>)
        BY <1>1, <1>6
      <3> QED
        BY <3>1, Zenon DEF Fgets
    <2>2. /\ SubSeq(text, 1, Len(<< NL >>)) = << NL >>
          /\ SubSeq(text, Len(<< NL >>) + 1, Len(text)) = r
      <3> DEFINE nl == << NL >>
      <3>1. nl \in Text /\ Joins(text, nl, r)
        BY <1>1, <1>2
      <3> HIDE DEF nl
      <3>2. SubSeq(text, 1, Len(nl)) = nl /\ SubSeq(text, Len(nl) + 1, Len(text)) = r
        BY <3>1, Splits
      <3> QED
        BY <3>2, Zenon DEF nl
    <2> QED
      BY <2>1, <2>2, Zenon
  <1>8. CutAt(<< NL >>, CR) = << NL >>
    BY <1>1, FreeParts, Given, Zenon DEF CutAt
  <1>9. CutAt(<< NL >>, NL) = << >>
    <2>1. Stands(<< NL >>, << >>, NL, << >>)
      BY <1>1, ConcatEmptySeq DEF Text, Stands
    <2> QED
      BY <1>1, <1>3, <2>1, FirstFound
  <1>10. Finds(<< >>, SP) = {}
    BY <1>1, <1>3, FreeParts, Zenon
  <1> QED
    BY <1>7, <1>8, <1>9, <1>10, Zenon
-----------------------------------------------------------------------------
(* The records of a content as db_dump prints them, and the first of them. *)
Contents(map) == \A k \in DOMAIN map : map[k] \in Text
LineOf(map, i) ==
    IF Order[i] \in DOMAIN map THEN Line(Order[i], map[Order[i]]) ELSE << >>
Prefix(map, n) == FlattenSeq([i \in 1 .. n |-> LineOf(map, i)])

LEMMA OrderIs ==
    /\ Len(Order) \in Nat /\ DOMAIN Order = 1 .. Len(Order)
    /\ \A i \in 1 .. Len(Order) : Order[i] \in Keys /\ Order[i] \in Text
    /\ \A i, j \in 1 .. Len(Order) : Order[i] = Order[j] => i = j
    /\ \A k \in Keys : \E i \in 1 .. Len(Order) : Order[i] = k
  <1>1. Order \in Seq(Keys) /\ Range(Order) = Keys
    BY DbToolsAssumption, Zenon
  <1>2. \A i, j \in DOMAIN Order : Order[i] = Order[j] => i = j
    BY DbToolsAssumption, Zenon
  <1>3. Len(Order) \in Nat /\ DOMAIN Order = 1 .. Len(Order)
    BY <1>1, LenProperties
  <1>4. \A i \in 1 .. Len(Order) : Order[i] \in Keys
    BY <1>1, ElementOfSeq
  <1> QED
    BY <1>1, <1>2, <1>3, <1>4, Given DEF Range

LEMMA LineOfIs ==
    ASSUME NEW map, Contents(map), NEW i \in 1 .. Len(Order)
    PROVE  LineOf(map, i) \in Text
  <1>1. \A k, v \in Text : Line(k, v) \in Text
    <2> SUFFICES ASSUME NEW k \in Text, NEW v \in Text
                 PROVE  Line(k, v) \in Text
      OBVIOUS
    <2>1. << SP >> \in Text /\ << NL >> \in Text
      BY Given DEF Text
    <2>2. \A a, b \in Text : a \o b \in Text
      BY ConcatProperties DEF Text
    <2> QED
      BY <2>1, <2>2, Zenon DEF Line
  <1>2. << >> \in Text
    BY EmptySeq DEF Text
  <1> QED
    BY <1>1, <1>2, OrderIs, Zenon DEF LineOf, Contents

LEMMA PrefixIs ==
    ASSUME NEW map, Contents(map)
    PROVE  /\ Prefix(map, 0) = << >>
           /\ \A n \in 0 .. Len(Order) : Prefix(map, n) \in Text
           /\ \A n \in 0 .. Len(Order) - 1 :
                Prefix(map, n + 1) = Prefix(map, n) \o LineOf(map, n + 1)
  <1>1. Prefix(map, 0) = << >>
    <2>1. [i \in 1 .. 0 |-> LineOf(map, i)] = << >>
      OBVIOUS
    <2> QED
      BY <2>1, FlattenNothing, Zenon DEF Prefix
  <1>2. << >> \in Text
    BY EmptySeq DEF Text
  <1>3. ASSUME NEW n \in 0 .. Len(Order) - 1
        PROVE  /\ Prefix(map, n + 1) \in Text
               /\ Prefix(map, n + 1) = Prefix(map, n) \o LineOf(map, n + 1)
    <2> DEFINE ss == [i \in 1 .. n + 1 |-> LineOf(map, i)]
    <2>1. n \in Nat /\ n + 1 \in 1 .. n + 1
      BY OrderIs
    <2>2. \A i \in 1 .. n + 1 : LineOf(map, i) \in Seq(Chars)
      BY LineOfIs, OrderIs DEF Text
    <2>3. ss \in [1 .. n + 1 -> Seq(Chars)]
      BY <2>2
    <2>4. ss[n + 1] = LineOf(map, n + 1)
      BY <2>1
    <2>5. [i \in 1 .. n |-> ss[i]] = [i \in 1 .. n |-> LineOf(map, i)]
      BY <2>1
    <2>6. Prefix(map, n + 1) = FlattenSeq(ss)
      BY Zenon DEF Prefix
    <2> HIDE DEF ss
    <2>7. /\ FlattenSeq(ss) \in Seq(Chars)
          /\ FlattenSeq(ss) = FlattenSeq([i \in 1 .. n |-> ss[i]]) \o ss[n + 1]
      BY <2>1, <2>3, FlattenOneMore
    <2> QED
      BY <2>4, <2>5, <2>6, <2>7, Zenon DEF Prefix, Text
  <1>4. ASSUME NEW n \in 0 .. Len(Order)
        PROVE  Prefix(map, n) \in Text
    <2>1. CASE n = 0
      BY <1>1, <1>2, <2>1, Zenon
    <2>2. CASE n # 0
      <3>1. n - 1 \in 0 .. Len(Order) - 1 /\ (n - 1) + 1 = n
        BY <2>2, OrderIs
      <3> QED
        BY <1>3, <3>1
    <2> QED
      BY <2>1, <2>2
  <1> QED
    BY <1>1, <1>3, <1>4

LEMMA DumpedIs ==
    ASSUME NEW map
    PROVE  /\ Dumped(map, Order) = Prefix(map, Len(Order))
           /\ \A n \in 0 .. Len(Order) : Dumped(map, SubSeq(Order, 1, n)) = Prefix(map, n)
  <1>1. Dumped(map, Order) = Prefix(map, Len(Order))
    BY OrderIs, Zenon DEF Dumped, Prefix, LineOf
  <1>2. ASSUME NEW n \in 0 .. Len(Order)
        PROVE  Dumped(map, SubSeq(Order, 1, n)) = Prefix(map, n)
    <2> DEFINE s == SubSeq(Order, 1, n)
    <2>1. \A i \in 1 .. n : Order[i] \in Keys
      BY OrderIs
    <2>2. n \in Int /\ 1 \in Int /\ n \in Nat /\ n - 1 + 1 = n
      BY OrderIs
    <2>3. s \in Seq(Keys) /\ Len(s) = n /\ \A i \in 1 .. n : s[i] = Order[i]
      BY <2>1, <2>2, SubSeqProperties
    <2>4. DOMAIN s = 1 .. n
      BY <2>3, LenProperties
    <2> HIDE DEF s
    <2>5. \A i \in 1 .. n : (IF s[i] \in DOMAIN map THEN Line(s[i], map[s[i]]) ELSE << >>)
                               = LineOf(map, i)
      BY <2>3, Zenon DEF LineOf
    <2>6. [i \in DOMAIN s |->
             IF s[i] \in DOMAIN map THEN Line(s[i], map[s[i]]) ELSE << >>]
            = [i \in 1 .. n |-> LineOf(map, i)]
      BY <2>4, <2>5
    <2> QED
      BY <2>6, Zenon DEF Dumped, Prefix, s
  <1> QED
    BY <1>1, <1>2

(* The dump of more records begins with the dump of fewer, and is that if  *)
(* none of the others is there.                                            *)
Extends(map, n, m) ==
    /\ \E r \in Text : Prefix(map, m) = Prefix(map, n) \o r
    /\ (\A i \in n + 1 .. m : Order[i] \notin DOMAIN map)
          => Prefix(map, m) = Prefix(map, n)

LEMMA PrefixGrows ==
    ASSUME NEW map, Contents(map), NEW n \in 0 .. Len(Order), NEW m \in n .. Len(Order)
    PROVE  Extends(map, n, m)
  <1> DEFINE S == {k \in Nat : n + k <= Len(Order) => Extends(map, n, n + k)}
  <1>1. << >> \in Text /\ \A t \in Text : t \o << >> = t
    BY EmptySeq, ConcatEmptySeq DEF Text
  <1>2. n \in Nat /\ Len(Order) \in Nat
    BY OrderIs
  <1>3. 0 \in S
    <2>1. n + 0 = n
      BY <1>2
    <2>2. Prefix(map, n) = Prefix(map, n) \o << >>
      BY <1>1, PrefixIs, Zenon
    <2>3. Extends(map, n, n + 0)
      BY <1>1, <2>1, <2>2, Zenon DEF Extends
    <2> QED
      BY <2>3
  <1>4. ASSUME NEW k \in Nat, k \in S PROVE k + 1 \in S
    <2> SUFFICES ASSUME n + (k + 1) <= Len(Order)
                 PROVE  Extends(map, n, n + (k + 1))
      OBVIOUS
    <2>1. /\ n + k \in 0 .. Len(Order) - 1 /\ n + (k + 1) = (n + k) + 1
          /\ n + k <= Len(Order) /\ n + (k + 1) \in 1 .. Len(Order)
      BY <1>2
    <2>2. Extends(map, n, n + k)
      BY <1>4, <2>1
    <2>3. Prefix(map, n + (k + 1)) = Prefix(map, n + k) \o LineOf(map, n + (k + 1))
      BY <2>1, PrefixIs
    <2>4. LineOf(map, n + (k + 1)) \in Text /\ Prefix(map, n) \in Text /\ Prefix(map, n + k) \in Text
      BY <2>1, LineOfIs, PrefixIs
    <2> DEFINE more == LineOf(map, n + (k + 1))
               end == Prefix(map, n + (k + 1))
    <2>5. \E r \in Text : end = Prefix(map, n) \o r
      <3>1. PICK r \in Text : Prefix(map, n + k) = Prefix(map, n) \o r
        BY <2>2 DEF Extends
      <3>4. more \in Text /\ Prefix(map, n) \in Text
        BY <2>4
      <3> HIDE DEF more, end
      <3>2. /\ (Prefix(map, n) \o r) \o more = Prefix(map, n) \o (r \o more)
            /\ r \o more \in Text
        BY <3>1, <3>4, TextJoins, Zenon
      <3>3. end = (Prefix(map, n) \o r) \o more
        BY <2>3, <3>1, Zenon DEF more, end
      <3> QED
        BY <3>2, <3>3, Zenon
    <2>6. ASSUME \A i \in n + 1 .. n + (k + 1) : Order[i] \notin DOMAIN map
          PROVE  end = Prefix(map, n)
      <3>1. /\ \A i \in n + 1 .. n + k : Order[i] \notin DOMAIN map
            /\ Order[n + (k + 1)] \notin DOMAIN map
        BY <1>2, <2>6
      <3>2. more = << >>
        BY <3>1, Zenon DEF LineOf
      <3>3. Prefix(map, n + k) = Prefix(map, n)
        BY <2>2, <3>1, Zenon DEF Extends
      <3> QED
        BY <1>1, <2>3, <2>4, <3>2, <3>3, Zenon
    <2> HIDE DEF end
    <2> QED
      BY <2>5, <2>6, Zenon DEF Extends, end
  <1>5. m - n \in S
    <2> HIDE DEF S
    <2>1. Nat \subseteq S
      BY <1>3, <1>4, Induct
    <2> QED
      BY <1>2, <2>1
  <1>6. n + (m - n) = m /\ m <= Len(Order)
    BY <1>2
  <1> QED
    BY <1>5, <1>6
-----------------------------------------------------------------------------
(* The texts that go round. *)
DataInv ==
    /\ Contents(disk) /\ Contents(view) /\ Contents(backup)
    /\ txn # NoTxn => Contents(txn.view)
    /\ input \in Text
    /\ daemon = "waits" => order.value = DELETE \/ order.value \in Text

(* What a program prints, and when.  BackupWhole is not inductive by       *)
(* itself: a walk begins with nothing printed, and a dump leaves its loop  *)
(* only at the end.                                                        *)
WalkInv ==
    /\ pc \in {"cursor_open", "walk", "close"} => Walks
    /\ pc = "close" => fn # "dump"
    /\ fn # "look" /\ pc \notin {"walk", "close"} => out = << >> /\ at = 0
    /\ at \in 0 .. Len(Order)
    /\ fn = "dump" /\ pc = "walk" => out = Prefix(view, at)
    /\ file = Prefix(backup, Len(Order))
    /\ OnlyFullBuffersUnended

DumpInv == DataInv /\ WalkInv

LEMMA EmptyFine == << >> \in Text /\ Contents(Empty) /\ 0 \in 0 .. Len(Order)
  <1>1. << >> \in Text
    BY EmptySeq DEF Text
  <1>2. Contents(Empty)
    BY DEF Contents, Empty
  <1> QED
    BY <1>1, <1>2, OrderIs

(* The first and the last thing a program does. *)
LEMMA EndsDump ==
    ASSUME DumpInv, NEW keeps, NEW how, Ends(keeps, how), disk' = disk, txn' \in {txn, NoTxn},
           UNCHANGED << daemon, order, file, backup >>
    PROVE  DumpInv'
  <1>1. DataInv'
    BY EmptyFine DEF DumpInv, DataInv, Ends
  <1>2. WalkInv'
    BY EmptyFine DEF DumpInv, WalkInv, Ends, OnlyFullBuffersUnended
  <1> QED
    BY <1>1, <1>2 DEF DumpInv

LEMMA DiesDump == ASSUME DumpInv, Dies PROVE DumpInv'
  <1>1. disk' = disk /\ txn' \in {txn, NoTxn}
    BY DEF Dies, TxnLost, storevars
  <1>2. Ends({}, "died") /\ UNCHANGED << daemon, order, file, backup >>
    BY DEF Dies, ToolOnly, daemonvars, backupvars
  <1> QED
    BY <1>1, <1>2, EndsDump

LEMMA RunDump == ASSUME DumpInv, IInv, NEW f, Run(f) PROVE DumpInv'
  <1>1. input' \in Text
    <2>1. file \in Text
      BY PrefixIs, OrderIs DEF DumpInv, DataInv, WalkInv
    <2> QED
      BY <2>1, EmptyFine, Given DEF Run
  <1>2. DataInv'
    BY <1>1 DEF DumpInv, DataInv, Run, storevars, daemonvars, backupvars
  <1>3. out = << >> /\ at = 0
    BY DEF DumpInv, WalkInv, Run, IInv, HeldAt
  <1>4. WalkInv'
    BY <1>3 DEF DumpInv, WalkInv, Run, backupvars, OnlyFullBuffersUnended, Walks
  <1> QED
    BY <1>2, <1>4 DEF DumpInv

(* Steps that print and read nothing. *)
LEMMA GoesOnDump ==
    ASSUME DumpInv, NEW next, NEW keeps, GoesOn(next, keeps), UNCHANGED progvars,
           UNCHANGED << disk, txn, daemon, order, file, backup >>,
           pc \notin {"walk", "close"}, next \notin {"cursor_open", "walk", "close"}
    PROVE  DumpInv'
  <1>1. DataInv'
    BY DEF DumpInv, DataInv, progvars
  <1>2. WalkInv'
    BY DEF DumpInv, WalkInv, progvars, GoesOn, OnlyFullBuffersUnended, Walks
  <1> QED
    BY <1>1, <1>2 DEF DumpInv

LEMMA OpensDump == ASSUME DumpInv, Opens PROVE DumpInv'
  <1>1. ASSUME NEW name \in AllOpenFaults, NEW next, NEW keeps, Call(name, next, keeps),
               next \notin {"cursor_open", "walk", "close"}
        PROVE  DumpInv'
    <2>1. /\ UNCHANGED << disk, txn, daemon, order, file, backup >>
          /\ pc \notin {"walk", "close"}
      BY <1>1 DEF Call, Quietly, ToolOnly, storevars, daemonvars, backupvars, AllOpenFaults
    <2>2. \/ GoesOn(next, held \cup keeps) /\ UNCHANGED progvars
          \/ Ends(held \ {"struct"}, "not opened")
      BY <1>1 DEF Call
    <2> QED
      BY <1>1, <2>1, <2>2, EndsDump, GoesOnDump
  <1>2. CASE mdb_env_create \/ mdb_env_set_maxdbs \/ mdb_env_open
    BY <1>1, <1>2 DEF mdb_env_create, mdb_env_set_maxdbs, mdb_env_open, AllOpenFaults
  <1>3. CASE mdb_txn_begin
    <2>1. /\ UNCHANGED << disk, txn, daemon, order, file, backup >> /\ UNCHANGED progvars
          /\ pc \notin {"walk", "close"}
          /\ GoesOn("dbi_open", held \cup {"txn"}) \/ GoesOn("dbi_open", held)
      BY <1>3 DEF mdb_txn_begin, ToolOnly, daemonvars, backupvars
    <2> QED
      BY <2>1, GoesOnDump
  <1>4. CASE mdb_dbi_open
    <2>1. CASE Dies
      BY <2>1, DiesDump
    <2>2. CASE ~Dies
      <3>1. /\ UNCHANGED << disk, txn, daemon, order, file, backup >>
            /\ pc \notin {"walk", "close"}
            /\ \/ GoesOn("txn_commit", held) /\ UNCHANGED progvars
               \/ Ends({}, "not opened")
        BY <1>4, <2>2 DEF mdb_dbi_open, Quietly, ToolOnly, storevars, daemonvars, backupvars
      <3> QED
        BY <3>1, EndsDump, GoesOnDump
    <2> QED
      BY <2>1, <2>2
  <1>5. CASE mdb_txn_commit
    <2>1. /\ UNCHANGED << disk, txn, daemon, order, file, backup >>
          /\ pc \notin {"walk", "close"}
          /\ \/ GoesOn("opened", held \ {"txn"}) /\ UNCHANGED progvars
             \/ Ends({}, "not opened")
      BY <1>5 DEF mdb_txn_commit, ToolOnly, daemonvars, backupvars
    <2> QED
      BY <2>1, EndsDump, GoesOnDump
  <1> QED
    BY <1>2, <1>3, <1>4, <1>5 DEF Opens

(* The cursor. *)
LEMMA AheadIs ==
    ASSUME NEW map, at \in 0 .. Len(Order), Ahead(map) # {}
    PROVE  /\ Min(Ahead(map)) \in Ahead(map) /\ Min(Ahead(map)) \in at + 1 .. Len(Order)
           /\ \A i \in at + 1 .. Min(Ahead(map)) - 1 : Order[i] \notin DOMAIN map
  <1>1. Ahead(map) \in SUBSET Nat /\ Ahead(map) \in SUBSET Int
    BY OrderIs DEF Ahead
  <1>2. PICK m \in Ahead(map) : \A n \in Ahead(map) : m <= n
    BY <1>1, Least
  <1>3. Min(Ahead(map)) = m
    BY <1>1, <1>2, MinIs
  <1>4. m \in at + 1 .. Len(Order) /\ at \in Nat
    BY <1>2, OrderIs DEF Ahead
  <1>5. \A i \in at + 1 .. m - 1 : Order[i] \notin DOMAIN map
    BY <1>2, <1>4, OrderIs DEF Ahead
  <1> QED
    BY <1>2, <1>3, <1>4, <1>5

LEMMA VisitsDump == ASSUME DumpInv, Visits PROVE DumpInv'
  <1> DEFINE m == Min(Ahead(view))
             k == Order[m]
             line_ == Line(k, view[k])
  <1>1. /\ pc = "walk" /\ Walks /\ at \in 0 .. Len(Order) /\ Contents(view)
        /\ fn = "dump" => out = Prefix(view, at)
    BY DEF DumpInv, DataInv, WalkInv, Visits
  <1>2. /\ at' = m /\ UNCHANGED << disk, txn, daemon, order, file, backup, view, input, fn >>
        /\ pc' \in {"walk", "close"} /\ (fn = "dump" => pc' = "walk")
        /\ out' = out \o line_
    BY DEF Visits, GoesOn, Quietly, ToolOnly, storevars, daemonvars, backupvars
  <1>3. /\ m \in Ahead(view) /\ m \in at + 1 .. Len(Order)
        /\ \A i \in at + 1 .. m - 1 : Order[i] \notin DOMAIN view
    BY <1>1, AheadIs DEF Visits
  <1> HIDE DEF m
  <1>4. DataInv'
    BY <1>2 DEF DumpInv, DataInv
  <1>5. ASSUME fn = "dump" PROVE out' = Prefix(view, m)
    <2>1. m - 1 \in at .. Len(Order) /\ m - 1 \in 0 .. Len(Order) - 1 /\ (m - 1) + 1 = m
      BY <1>1, <1>3, OrderIs
    <2>2. Prefix(view, m - 1) = Prefix(view, at)
      BY <1>1, <1>3, <2>1, PrefixGrows DEF Extends
    <2>3. Prefix(view, m) = Prefix(view, m - 1) \o LineOf(view, m)
      <3>1. Prefix(view, (m - 1) + 1) = Prefix(view, m - 1) \o LineOf(view, (m - 1) + 1)
        BY <1>1, <2>1, PrefixIs
      <3> QED
        BY <2>1, <3>1
    <2>4. LineOf(view, m) = line_
      BY <1>3 DEF LineOf, Ahead
    <2>5. out = Prefix(view, at)
      BY <1>1, <1>5
    <2> QED
      BY <1>2, <2>2, <2>3, <2>4, <2>5, Zenon
  <1>6. WalkInv'
    <2>1. at' \in 0 .. Len(Order)
      BY <1>1, <1>2, <1>3
    <2>2. fn # "look"
      BY <1>1 DEF Walks
    <2>3. fn' = "dump" => out' = Prefix(view', at')
      BY <1>2, <1>5, Zenon
    <2>4. file' = Prefix(backup', Len(Order))
      BY <1>2, Zenon DEF DumpInv, WalkInv
    <2>5. Walks' /\ fn' # "look" /\ pc' \in {"walk", "close"} /\ (pc' = "close" => fn' # "dump")
      BY <1>1, <1>2, <2>2 DEF Walks
    <2> QED
      BY <2>1, <2>3, <2>4, <2>5 DEF WalkInv, OnlyFullBuffersUnended
  <1> QED
    BY <1>4, <1>6 DEF DumpInv

LEMMA WalkEndsDump == ASSUME DumpInv, WalkEnds PROVE DumpInv'
  <1>1. CASE fn # "dump"
    BY <1>1, EndsDump DEF WalkEnds, storevars, daemonvars, backupvars
  <1>2. CASE fn = "dump"
    <2>1. /\ pc = "walk" /\ Ahead(view) = {} /\ Contents(view) /\ at \in 0 .. Len(Order)
          /\ out = Prefix(view, at)
      BY <1>2 DEF WalkEnds, DumpInv, DataInv, WalkInv
    <2>2. /\ Ends({}, "done") /\ file' = out /\ backup' = view
          /\ UNCHANGED << disk, txn, daemon, order >>
      BY <1>2 DEF WalkEnds, storevars, daemonvars
    <2>3. Prefix(view, Len(Order)) = Prefix(view, at)
      <3>1. \A i \in at + 1 .. Len(Order) : Order[i] \notin DOMAIN view
        BY <2>1, OrderIs DEF Ahead
      <3>2. Len(Order) \in at .. Len(Order)
        BY <2>1, OrderIs
      <3> QED
        BY <2>1, <3>1, <3>2, PrefixGrows DEF Extends
    <2>4. DataInv'
      BY <2>1, <2>2, EmptyFine DEF DumpInv, DataInv, Ends
    <2>5. WalkInv'
      BY <2>1, <2>2, <2>3, EmptyFine DEF WalkInv, Ends, OnlyFullBuffersUnended
    <2> QED
      BY <2>4, <2>5 DEF DumpInv
  <1> QED
    BY <1>1, <1>2

LEMMA WalksDump ==
    ASSUME DumpInv, WalkBegins \/ mdb_cursor_open \/ Visits \/ MydumpFails \/ WalkEnds
    PROVE  DumpInv'
  <1>1. CASE WalkBegins
    <2>1. UNCHANGED << disk, txn, daemon, order, file, backup >>
      BY <1>1 DEF WalkBegins, Quietly, ToolOnly, storevars, daemonvars, backupvars
    <2>2. CASE Ends({}, "failed")
      BY <2>1, <2>2, EndsDump
    <2>3. CASE /\ GoesOn("cursor_open", held \cup {"txn"})
               /\ view' = disk /\ UNCHANGED << at, out, input >>
      <3>1. DataInv'
        BY <2>1, <2>3 DEF DumpInv, DataInv
      <3>2. WalkInv'
        BY <1>1, <2>1, <2>3 DEF WalkBegins, Walks, DumpInv, WalkInv, GoesOn,
                                OnlyFullBuffersUnended
      <3> QED
        BY <3>1, <3>2 DEF DumpInv
    <2> QED
      BY <1>1, <2>2, <2>3 DEF WalkBegins
  <1>2. CASE mdb_cursor_open
    <2>1. CASE Dies
      BY <2>1, DiesDump
    <2>2. CASE ~Dies
      <3>1. /\ pc = "cursor_open" /\ GoesOn("walk", held \cup {"cursor"})
            /\ UNCHANGED << disk, txn, daemon, order, file, backup >>
            /\ UNCHANGED << view, at, out, input >>
        BY <1>2, <2>2 DEF mdb_cursor_open, Quietly, ToolOnly, storevars, daemonvars,
                          backupvars, progvars
      <3>2. DataInv'
        BY <3>1 DEF DumpInv, DataInv
      <3>3. /\ Walks /\ fn # "look" /\ out = << >> /\ at = 0 /\ Prefix(view, 0) = << >>
        BY <3>1, PrefixIs DEF DumpInv, DataInv, WalkInv, Walks
      <3>4. WalkInv'
        BY <3>1, <3>3, EmptyFine DEF DumpInv, WalkInv, GoesOn, Walks, OnlyFullBuffersUnended
      <3> QED
        BY <3>2, <3>4 DEF DumpInv
    <2> QED
      BY <2>1, <2>2
  <1>3. CASE MydumpFails
    BY <1>3, DiesDump DEF MydumpFails
  <1> QED
    BY <1>1, <1>2, <1>3, VisitsDump, WalkEndsDump

(* The lookups: what db_get leaves in the buffer. *)
LEMMA FetchedIs ==
    ASSUME NEW v \in Text
    PROVE  IsString(Fetched(v)) \/ Len(Fetched(v)) = BufSize
  <1> DEFINE W == Chars \cup {NUL}
             whole == Append(v, NUL)
             S == {BufSize, Len(v) + 1}
  <1>1. v \in Seq(W)
    BY DEF Text
  <1>2. /\ whole \in Seq(W) /\ Len(whole) = Len(v) + 1 /\ whole[Len(v) + 1] = NUL
        /\ Len(v) \in Nat /\ \A i \in 1 .. Len(v) + 1 : whole[i] \in W
    BY <1>1, AppendProperties, LenProperties, ElementOfSeq
  <1>3. BufSize \in Nat /\ BufSize >= 2
    BY Given
  <1>4. Fetched(v) = SubSeq(whole, 1, Min(S))
    BY DEF Fetched
  <1>7. /\ S \in SUBSET Int /\ BufSize \in S /\ Len(v) + 1 \in S
        /\ \A n \in S : n = BufSize \/ n = Len(v) + 1
    BY <1>2, <1>3
  <1> HIDE DEF whole, W, S
  <1>5. CASE Len(v) + 1 <= BufSize
    <2>1. Min(S) = Len(v) + 1
      BY <1>2, <1>3, <1>5, <1>7, MinIs
    <2>2. /\ Len(SubSeq(whole, 1, Len(v) + 1)) = Len(v) + 1
          /\ SubSeq(whole, 1, Len(v) + 1)[Len(v) + 1] = NUL
      BY <1>2, SubSeqProperties
    <2>3. Len(Fetched(v)) = Len(v) + 1 /\ Fetched(v)[Len(v) + 1] = NUL
      BY <1>4, <2>1, <2>2, Zenon
    <2> QED
      BY <1>2, <2>3 DEF IsString, Finds
  <1>6. CASE ~(Len(v) + 1 <= BufSize)
    <2>1. Min(S) = BufSize
      BY <1>2, <1>3, <1>6, <1>7, MinIs
    <2>2. Len(SubSeq(whole, 1, BufSize)) = BufSize
      <3>1. \A i \in 1 .. BufSize : whole[i] \in W
        BY <1>2, <1>3, <1>6
      <3> QED
        BY <1>3, <3>1, SubSeqProperties
    <2> QED
      BY <1>4, <2>1, <2>2, Zenon
  <1> QED
    BY <1>5, <1>6

LEMMA LooksDump == ASSUME DumpInv, Looks \/ LookEnds PROVE DumpInv'
  <1>1. CASE LookEnds
    BY <1>1, EndsDump DEF LookEnds, Quietly, ToolOnly, storevars, daemonvars, backupvars
  <1>2. CASE Looks
    <2>1. PICK k \in Keys : \E r \in db_get(k) :
                              out' = IF r.found THEN Fetched(r.value) ELSE << >>
      BY <1>2 DEF Looks
    <2>2. PICK r \in db_get(k) : out' = IF r.found THEN Fetched(r.value) ELSE << >>
      BY <2>1
    <2>3. /\ pc = "opened" /\ fn = "look" /\ pc' = "opened" /\ fn' = "look"
          /\ UNCHANGED << disk, txn, daemon, order, file, backup, view, at, input >>
      BY <1>2 DEF Looks, GoesOn, Quietly, ToolOnly, storevars, daemonvars, backupvars
    <2>4. r = Miss \/ (k \in DOMAIN disk /\ r = [found |-> TRUE, value |-> disk[k]])
      BY <2>2 DEF db_get
    <2>5. out' # << >> => IsString(out') \/ Len(out') = BufSize
      <3>1. CASE r = Miss
        BY <2>2, <3>1 DEF Miss
      <3>2. CASE k \in DOMAIN disk /\ r = [found |-> TRUE, value |-> disk[k]]
        <4>1. r.found /\ r.value = disk[k] /\ disk[k] \in Text
          BY <3>2 DEF DumpInv, DataInv, Contents
        <4> QED
          BY <2>2, <4>1, FetchedIs
      <3> QED
        BY <2>4, <3>1, <3>2
    <2>6. DataInv'
      BY <2>3 DEF DumpInv, DataInv
    <2>7. WalkInv'
      BY <2>3, <2>5 DEF DumpInv, WalkInv, OnlyFullBuffersUnended
    <2> QED
      BY <2>6, <2>7 DEF DumpInv
  <1> QED
    BY <1>1, <1>2

(* What the load takes out of a text is text. *)
LEMMA FindsFirst ==
    ASSUME NEW t \in Text, NEW c, Finds(t, c) # {}
    PROVE  Min(Finds(t, c)) \in 1 .. Len(t) /\ Min(Finds(t, c)) \in Finds(t, c)
  <1>1. Len(t) \in Nat
    BY LenProperties DEF Text
  <1>2. Finds(t, c) \in SUBSET Nat /\ Finds(t, c) \in SUBSET Int /\ Finds(t, c) \subseteq 1 .. Len(t)
    BY <1>1 DEF Finds
  <1>3. PICK m \in Finds(t, c) : \A n \in Finds(t, c) : m <= n
    BY <1>2, Least
  <1>4. Min(Finds(t, c)) = m
    BY <1>2, <1>3, MinIs
  <1> QED
    BY <1>2, <1>3, <1>4

LEMMA PartIsText ==
    ASSUME NEW t \in Text, NEW m \in Int, NEW n \in Int, m >= 1, n <= Len(t)
    PROVE  /\ SubSeq(t, m, n) \in Text
           /\ Len(SubSeq(t, m, n)) = IF m <= n THEN n - m + 1 ELSE 0
  <1>1. \A i \in m .. n : t[i] \in Chars
    BY ElementOfSeq, LenProperties DEF Text
  <1> QED
    BY <1>1, SubSeqProperties DEF Text

LEMMA CutsAreText ==
    ASSUME NEW t \in Text, NEW c
    PROVE  /\ CutAt(t, c) \in Text /\ Len(CutAt(t, c)) <= Len(t)
           /\ Finds(t, c) # {} => Behind(t, c) \in Text
  <1>1. Len(t) \in Nat
    BY LenProperties DEF Text
  <1>2. CASE Finds(t, c) = {}
    BY <1>1, <1>2 DEF CutAt
  <1>3. CASE Finds(t, c) # {}
    <2>1. PICK m \in 1 .. Len(t) : m = Min(Finds(t, c))
      BY <1>3, FindsFirst
    <2>2. /\ SubSeq(t, 1, m - 1) \in Text /\ Len(SubSeq(t, 1, m - 1)) <= Len(t)
          /\ SubSeq(t, m + 1, Len(t)) \in Text
      BY <1>1, PartIsText
    <2> QED
      BY <1>3, <2>1, <2>2, Zenon DEF CutAt, Behind
  <1> QED
    BY <1>2, <1>3

LEMMA FgetsIsText ==
    ASSUME NEW t \in Text
    PROVE  /\ Fgets(t) \in Text /\ Len(Fgets(t)) < BufSize
           /\ SubSeq(t, Len(Fgets(t)) + 1, Len(t)) \in Text
           /\ CutAt(CutAt(Fgets(t), CR), NL) \in Text
           /\ Len(CutAt(CutAt(Fgets(t), CR), NL)) < BufSize
  <1> DEFINE S == {BufSize - 1, Len(t)} \cup Finds(t, NL)
  <1>1. Len(t) \in Nat /\ BufSize \in Nat /\ BufSize >= 2
    BY LenProperties, Given DEF Text
  <1>2. S \in SUBSET Nat /\ S \in SUBSET Int /\ BufSize - 1 \in S /\ Len(t) \in S
    BY <1>1 DEF Finds
  <1>3. Fgets(t) = SubSeq(t, 1, Min(S))
    BY DEF Fgets
  <1> HIDE DEF S
  <1>4. PICK m \in S : \A n \in S : m <= n
    BY <1>2, Least
  <1>5. Min(S) = m
    BY <1>2, <1>4, MinIs
  <1>6. m \in Nat /\ m <= Len(t) /\ m < BufSize
    BY <1>1, <1>2, <1>4
  <1>7. SubSeq(t, 1, m) \in Text /\ Len(SubSeq(t, 1, m)) = m /\ SubSeq(t, m + 1, Len(t)) \in Text
    BY <1>1, <1>6, PartIsText
  <1>8. /\ Fgets(t) \in Text /\ Len(Fgets(t)) < BufSize
        /\ SubSeq(t, Len(Fgets(t)) + 1, Len(t)) \in Text
    BY <1>3, <1>5, <1>6, <1>7
  <1>9. \A s \in Text : \A c : CutAt(s, c) \in Text /\ Len(CutAt(s, c)) <= Len(s) /\ Len(s) \in Nat
    BY CutsAreText, LenProperties DEF Text
  <1>10. PICK s \in Text : s = Fgets(t)
    BY <1>8
  <1>11. /\ CutAt(CutAt(s, CR), NL) \in Text
         /\ Len(CutAt(CutAt(s, CR), NL)) <= Len(CutAt(s, CR))
         /\ Len(CutAt(s, CR)) <= Len(s) /\ Len(CutAt(s, CR)) \in Nat /\ Len(s) \in Nat
         /\ Len(CutAt(CutAt(s, CR), NL)) \in Nat
    BY <1>9
  <1>12. Len(CutAt(CutAt(s, CR), NL)) < BufSize
    BY <1>1, <1>8, <1>10, <1>11
  <1> QED
    BY <1>8, <1>10, <1>11, <1>12, Zenon

(* What a write transaction is, once it has begun; that it holds texts,    *)
(* and the record it was begun for unless that failed.                     *)
LEMMA PutIs ==
    ASSUME NEW k, NEW v, v # DELETE, db_put(k, v)
    PROVE  /\ disk' = disk
           /\ \/ k \in BadKeys /\ txn' = [fn |-> "put", view |-> disk, rc |-> "badvalsize"]
              \/ k \notin BadKeys /\ txn' = [fn |-> "put", view |-> With(disk, k, v), rc |-> "ok"]
              \/ k \notin BadKeys /\ txn' = [fn |-> "put", view |-> disk, rc |-> "full"]
  BY DEF db_put, PutBegins, mdb_put, Full

LEMMA DelIs ==
    ASSUME NEW k, NEW v, v = DELETE, db_put(k, v)
    PROVE  /\ disk' = disk
           /\ \/ txn' = [fn |-> "del", view |-> disk, rc |-> "notfound"]
              \/ txn' = [fn |-> "del", view |-> Without(disk, k), rc |-> "ok"]
              \/ txn' = [fn |-> "del", view |-> disk, rc |-> "full"]
  BY DEF db_put, DelBegins, mdb_del, Full

LEMMA PutText ==
    ASSUME Contents(disk), NEW k, NEW v, v = DELETE \/ v \in Text, db_put(k, v)
    PROVE  disk' = disk /\ Contents(txn'.view)
  <1>1. CASE v = DELETE
    <2>1. Contents(Without(disk, k))
      BY DEF Contents, Without
    <2> QED
      BY <1>1, <2>1, DelIs
  <1>2. CASE v # DELETE
    <2>1. Contents(With(disk, k, v))
      BY <1>2 DEF Contents, With
    <2> QED
      BY <1>2, <2>1, PutIs
  <1> QED
    BY <1>1, <1>2

(* Steps of a transaction, of the program or of the daemon, print nothing. *)
LEMMA TxnDump ==
    ASSUME DumpInv, Contents(disk'), txn' # NoTxn => Contents(txn'.view), input' \in Text,
           daemon' = "waits" => order'.value = DELETE \/ order'.value \in Text,
           UNCHANGED << file, backup, view, at, out, fn >>,
           \/ pc' = pc
           \/ pc \notin {"cursor_open", "walk", "close"} /\ pc' \notin {"cursor_open", "walk", "close"}
    PROVE  DumpInv'
  <1>1. DataInv'
    BY DEF DumpInv, DataInv
  <1>2. WalkInv'
    BY DEF DumpInv, WalkInv, OnlyFullBuffersUnended, Walks
  <1> QED
    BY <1>1, <1>2 DEF DumpInv

LEMMA CommitText ==
    ASSUME DumpInv, CommitOk \/ CommitFails
    PROVE  Contents(disk') /\ txn' = NoTxn
  BY DEF DumpInv, DataInv, CommitOk, CommitFails

LEMMA LoadsDump ==
    ASSUME DumpInv, IInv, LoadSkips \/ LoadPuts \/ LoadCommits \/ LoadEnds
    PROVE  DumpInv'
  <1>1. CASE LoadSkips
    <2>1. /\ UNCHANGED << disk, txn, daemon, order, file, backup, view, at, out, fn >>
          /\ pc = "opened" /\ pc' = "opened"
          /\ input' = SubSeq(input, Len(Fgets(input)) + 1, Len(input))
      BY <1>1 DEF LoadSkips, Loading, Consumes, GoesOn, Quietly, ToolOnly, storevars,
                  daemonvars, backupvars
    <2>2. input' \in Text
      BY <2>1, FgetsIsText DEF DumpInv, DataInv
    <2> QED
      BY <2>1, <2>2, TxnDump DEF DumpInv, DataInv
  <1>2. CASE LoadPuts
    <2>1. /\ UNCHANGED << daemon, order, file, backup, view, at, out, fn >>
          /\ pc = "opened" /\ pc' \in {"opened", "commit"}
          /\ input' = SubSeq(input, Len(Fgets(input)) + 1, Len(input))
      BY <1>2 DEF LoadPuts, Loading, Consumes, GoesOn, ToolOnly, daemonvars, backupvars
    <2>2. input' \in Text
      BY <2>1, FgetsIsText DEF DumpInv, DataInv
    <2>3. PICK piece \in {p \in Pieces : Finds(p, SP) # {}} :
            \/ \E k \in {CutAt(piece, SP)}, v \in {Behind(piece, SP)} : db_put(k, v)
            \/ BeginFails
      BY <1>2 DEF LoadPuts
    <2>4. Contents(disk') /\ (txn' # NoTxn => Contents(txn'.view))
      <3>1. CASE BeginFails
        BY <3>1 DEF BeginFails, DumpInv, DataInv
      <3>2. CASE ~BeginFails
        <4>1. db_put(CutAt(piece, SP), Behind(piece, SP))
          BY <2>3, <3>2
        <4>2. Behind(piece, SP) \in Text
          <5>1. piece \in Text /\ Finds(piece, SP) # {}
            BY <2>3, FgetsIsText DEF Pieces, DumpInv, DataInv
          <5> QED
            BY <5>1, CutsAreText
        <4> QED
          BY <4>1, <4>2, PutText DEF DumpInv, DataInv
      <3> QED
        BY <3>1, <3>2
    <2> QED
      BY <2>1, <2>2, <2>4, TxnDump DEF DumpInv, DataInv
  <1>3. CASE LoadCommits
    <2>1. /\ UNCHANGED << daemon, order, file, backup, view, at, out, input, fn >>
          /\ pc = "commit" /\ pc' = "opened"
      BY <1>3 DEF LoadCommits, GoesOn, ToolOnly, daemonvars, backupvars, progvars
    <2>2. Contents(disk') /\ txn' = NoTxn
      BY <1>3, CommitText DEF LoadCommits
    <2> QED
      BY <2>1, <2>2, TxnDump DEF DumpInv, DataInv
  <1>4. CASE LoadEnds
    BY <1>4, EndsDump DEF LoadEnds, Quietly, ToolOnly, storevars, daemonvars, backupvars
  <1> QED
    BY <1>1, <1>2, <1>3, <1>4

LEMMA DaemonDump ==
    ASSUME DumpInv,
           \/ \E k \in Keys \ BadKeys, v \in Written \cup {DELETE} : DaemonAsks(k, v)
           \/ DaemonPuts \/ DaemonCommits \/ DaemonDies
    PROVE  DumpInv'
  <1>1. CASE \E k \in Keys \ BadKeys, v \in Written \cup {DELETE} : DaemonAsks(k, v)
    <2>1. PICK k \in Keys \ BadKeys, v \in Written \cup {DELETE} : DaemonAsks(k, v)
      BY <1>1
    <2>2. v = DELETE \/ v \in Text
      BY Given
    <2>3. /\ order'.value = v /\ UNCHANGED << disk, txn, input, pc >>
          /\ UNCHANGED << file, backup, view, at, out, fn >>
      BY <2>1 DEF DaemonAsks, DaemonOnly, storevars, progvars, backupvars
    <2> QED
      BY <2>2, <2>3, TxnDump DEF DumpInv, DataInv
  <1>2. CASE DaemonPuts
    <2>1. /\ daemon = "waits" /\ daemon' = "commit" /\ UNCHANGED << input, pc >>
          /\ UNCHANGED << file, backup, view, at, out, fn >>
      BY <1>2 DEF DaemonPuts, DaemonOnly, progvars, backupvars
    <2>2. disk' = disk /\ Contents(txn'.view)
      BY <1>2, <2>1, PutText DEF DaemonPuts, DumpInv, DataInv
    <2> QED
      BY <2>1, <2>2, TxnDump DEF DumpInv, DataInv
  <1>3. CASE DaemonCommits
    <2>1. /\ daemon' = "idle" /\ UNCHANGED << input, pc >>
          /\ UNCHANGED << file, backup, view, at, out, fn >>
      BY <1>3 DEF DaemonCommits, DaemonOnly, progvars, backupvars
    <2>2. Contents(disk') /\ txn' = NoTxn
      BY <1>3, CommitText DEF DaemonCommits
    <2> QED
      BY <2>1, <2>2, TxnDump DEF DumpInv, DataInv
  <1>4. CASE DaemonDies
    <2>1. /\ daemon' = "idle" /\ UNCHANGED << input, pc >>
          /\ UNCHANGED << file, backup, view, at, out, fn >>
      BY <1>4 DEF DaemonDies, DaemonOnly, progvars, backupvars
    <2>2. disk' = disk /\ txn' \in {txn, NoTxn}
      BY <1>4 DEF DaemonDies, TxnLost, storevars
    <2> QED
      BY <2>1, <2>2, TxnDump DEF DumpInv, DataInv
  <1> QED
    BY <1>1, <1>2, <1>3, <1>4

LEMMA NextDump == ASSUME DumpInv, IInv, [Next]_vars PROVE DumpInv'
  <1>1. CASE \E f \in Programs : Run(f)
    BY <1>1, RunDump
  <1>2. CASE Opens
    BY <1>2, OpensDump
  <1>3. CASE Works \/ Looks
    BY <1>3, WalksDump, LooksDump, LoadsDump DEF Works
  <1>4. CASE Killed
    BY <1>4, DiesDump DEF Killed
  <1>5. CASE \/ \E k \in Keys \ BadKeys, v \in Written \cup {DELETE} : DaemonAsks(k, v)
             \/ DaemonPuts \/ DaemonCommits \/ DaemonDies
    BY <1>5, DaemonDump
  <1>6. CASE UNCHANGED vars
    BY <1>6, TxnDump DEF vars, storevars, daemonvars, progvars, backupvars, DumpInv, DataInv
  <1> QED
    BY <1>1, <1>2, <1>3, <1>4, <1>5, <1>6 DEF Next

LEMMA InitDump == Init => IInv /\ DumpInv
  <1> SUFFICES ASSUME Init PROVE IInv /\ DumpInv
    OBVIOUS
  <1>1. Contents(Empty) /\ << >> \in Text /\ 0 \in 0 .. Len(Order)
    BY EmptyFine
  <1>2. Prefix(Empty, Len(Order)) = << >>
    <2>1. \A i \in 0 + 1 .. Len(Order) : Order[i] \notin DOMAIN Empty
      BY DEF Empty
    <2>2. Len(Order) \in 0 .. Len(Order)
      BY OrderIs
    <2> QED
      BY <1>1, <2>1, <2>2, PrefixGrows, PrefixIs DEF Extends
  <1>3. DataInv
    BY <1>1 DEF DataInv, Init
  <1>4. WalkInv
    BY <1>1, <1>2 DEF WalkInv, Init, OnlyFullBuffersUnended
  <1>5. IInv
    BY DEF Init, IInv, HeldAt, HolderAt
  <1> QED
    BY <1>3, <1>4, <1>5 DEF DumpInv

LEMMA DumpAlways == Spec => [](IInv /\ DumpInv)
  <1>1. Init => IInv /\ DumpInv
    BY InitDump
  <1>2. IInv /\ DumpInv /\ [Next]_vars => IInv' /\ DumpInv'
    BY NextKeeps, NextDump
  <1> QED
    BY <1>1, <1>2, PTL DEF Spec

(* What a dump has printed is at every moment the part up to its cursor of *)
(* one content of the database, and a complete dump is all of it, whatever *)
(* the daemon writes or which program dies meanwhile.                      *)
THEOREM BackupCorrect == Spec => []BackupWhole
  <1>1. DumpInv => BackupWhole
    <2> SUFFICES ASSUME DumpInv PROVE BackupWhole
      OBVIOUS
    <2>1. fn = "dump" /\ pc = "walk" => out = Dumped(view, SubSeq(Order, 1, at))
      BY DumpedIs DEF DumpInv, WalkInv
    <2>2. file = Dumped(backup, Order)
      BY DumpedIs DEF DumpInv, WalkInv
    <2> QED
      BY <2>1, <2>2 DEF BackupWhole
  <1> QED
    BY <1>1, DumpAlways, PTL

(* A lookup leaves a buffer without its NUL only when the record filled    *)
(* it, for records and buffers of any size.                                *)
THEOREM BuffersCorrect == Spec => []OnlyFullBuffersUnended
  <1>1. DumpInv => OnlyFullBuffersUnended
    BY DEF DumpInv, WalkInv
  <1> QED
    BY <1>1, DumpAlways, PTL
-----------------------------------------------------------------------------
(* The keys of a line that db_load cuts are among Keys: as they are when   *)
(* Keys has every key that fits a line, whatever else it has.              *)
AllKeys ==
    \A s \in Text : Len(s) < BufSize => CutAt(CutAt(CutAt(s, CR), NL), SP) \in Keys

(* The types, part by part, with the key that the daemon waits to write.   *)
StoreTypes == IsMap(disk) /\ IsTxn(txn) /\ holder \in {"none", "daemon", "tool"}
ProgTypes ==
    /\ pc \in Places /\ fn \in Programs \cup {"none"} /\ held \subseteq Resources
    /\ result \in {"none", "not opened", "opened", "failed", "done", "loaded", "died"}
    /\ IsMap(view) /\ runs \in 0 .. MaxRuns
DaemonTypes ==
    /\ daemon \in {"idle", "waits", "commit"} /\ writes \in 0 .. MaxWrites
    /\ daemon = "waits" => order.key \in Keys
OtherTypes == IsMap(backup) /\ calm \in BOOLEAN
TypeInv == StoreTypes /\ ProgTypes /\ DaemonTypes /\ OtherTypes

LEMMA MapsAre ==
    ASSUME NEW map, IsMap(map), NEW k
    PROVE  /\ IsMap(Without(map, k)) /\ IsMap(Empty)
           /\ k \in Keys => \A v : IsMap(With(map, k, v))
  BY DEF IsMap, Without, With, Empty

LEMMA PutType ==
    ASSUME IsMap(disk), NEW k \in Keys, NEW v, db_put(k, v)
    PROVE  IsMap(disk') /\ IsTxn(txn')
  <1>1. CASE v = DELETE
    BY <1>1, DelIs, MapsAre DEF IsTxn
  <1>2. CASE v # DELETE
    BY <1>2, PutIs, MapsAre DEF IsTxn
  <1> QED
    BY <1>1, <1>2

LEMMA CommitType ==
    ASSUME IsMap(disk), IsTxn(txn), CommitOk \/ CommitFails
    PROVE  IsMap(disk') /\ IsTxn(txn')
  BY DEF CommitOk, CommitFails, IsTxn

LEMMA EndsType ==
    ASSUME TypeInv, NEW keeps, keeps \subseteq Resources,
           NEW how \in {"not opened", "failed", "done", "loaded", "died"},
           Ends(keeps, how), runs' = runs
    PROVE  ProgTypes'
  BY MapsAre DEF TypeInv, StoreTypes, ProgTypes, Ends, Places

LEMMA GoesOnType ==
    ASSUME TypeInv, NEW next \in Places, NEW keeps, keeps \subseteq Resources,
           GoesOn(next, keeps), runs' = runs, view' \in {view, disk}
    PROVE  ProgTypes'
  BY DEF TypeInv, StoreTypes, ProgTypes, GoesOn

LEMMA ToolType ==
    ASSUME TypeInv, ToolOnly, calm' \in BOOLEAN
    PROVE  DaemonTypes' /\ OtherTypes'
  BY DEF TypeInv, ToolOnly, daemonvars, backupvars, DaemonTypes, OtherTypes

LEMMA QuietType ==
    ASSUME TypeInv, Quietly
    PROVE  StoreTypes' /\ DaemonTypes' /\ OtherTypes' /\ runs' = runs
  BY ToolType DEF TypeInv, Quietly, ToolOnly, storevars, StoreTypes, OtherTypes

LEMMA DiesType == ASSUME TypeInv, Dies PROVE TypeInv'
  <1>1. ProgTypes'
    BY EndsType DEF Dies, ToolOnly
  <1>2. StoreTypes'
    BY DEF Dies, TxnLost, storevars, TypeInv, StoreTypes, IsTxn
  <1>3. DaemonTypes' /\ OtherTypes'
    BY ToolType DEF Dies, TypeInv, OtherTypes
  <1> QED
    BY <1>1, <1>2, <1>3 DEF TypeInv

LEMMA RunType == ASSUME TypeInv, NEW f \in Programs, Run(f) PROVE TypeInv'
  <1>1. ProgTypes'
    <2>1. runs' \in 0 .. MaxRuns
      <3>1. MaxRuns \in Nat
        BY DbToolsAssumption
      <3>2. runs \in 0 .. MaxRuns /\ runs < MaxRuns /\ runs' = runs + 1
        BY DEF Run, TypeInv, ProgTypes
      <3> QED
        BY <3>1, <3>2
    <2> QED
      BY <2>1 DEF Run, TypeInv, ProgTypes, Places, AllOpenFaults, Resources
  <1>2. StoreTypes' /\ DaemonTypes' /\ OtherTypes'
    <2>1. calm' \in BOOLEAN
      BY DEF Run
    <2> QED
      BY <2>1 DEF Run, TypeInv, StoreTypes, DaemonTypes, OtherTypes, storevars, daemonvars,
                  backupvars
  <1> QED
    BY <1>1, <1>2 DEF TypeInv

LEMMA OpensType == ASSUME TypeInv, Opens PROVE TypeInv'
  <1>1. ASSUME NEW name, NEW next \in Places, NEW keeps, keeps \subseteq Resources,
               Call(name, next, keeps)
        PROVE  TypeInv'
    <2>1. StoreTypes' /\ DaemonTypes' /\ OtherTypes' /\ runs' = runs
      BY <1>1, QuietType DEF Call
    <2>2. held \cup keeps \subseteq Resources /\ held \ {"struct"} \subseteq Resources
      BY <1>1 DEF TypeInv, ProgTypes
    <2>3. ProgTypes'
      <3>1. CASE GoesOn(next, held \cup keeps) /\ UNCHANGED progvars
        BY <2>1, <2>2, <3>1, GoesOnType DEF progvars
      <3>2. CASE Ends(held \ {"struct"}, "not opened")
        BY <2>1, <2>2, <3>2, EndsType
      <3> QED
        BY <1>1, <3>1, <3>2 DEF Call
    <2> QED
      BY <2>1, <2>3 DEF TypeInv
  <1>2. CASE mdb_env_create
    BY <1>1, <1>2 DEF mdb_env_create, Places, AllOpenFaults, Resources
  <1>3. CASE mdb_env_set_maxdbs \/ mdb_env_open
    BY <1>1, <1>3 DEF mdb_env_set_maxdbs, mdb_env_open, Places, AllOpenFaults, Resources
  <1>4. ASSUME GoesOn("dbi_open", held \cup {"txn"}) \/ GoesOn("dbi_open", held)
                 \/ GoesOn("txn_commit", held) \/ GoesOn("opened", held \ {"txn"})
                 \/ Ends({}, "not opened"),
               runs' = runs, view' = view \/ Ends({}, "not opened")
        PROVE  ProgTypes'
    <2>1. /\ held \cup {"txn"} \subseteq Resources /\ held \subseteq Resources
          /\ held \ {"txn"} \subseteq Resources
          /\ {"dbi_open", "txn_commit", "opened"} \subseteq Places
      BY DEF TypeInv, ProgTypes, Resources, Places, AllOpenFaults
    <2>2. CASE Ends({}, "not opened")
      BY <1>4, <2>2, EndsType
    <2>3. CASE ~Ends({}, "not opened")
      BY <1>4, <2>1, <2>3, GoesOnType
    <2> QED
      BY <2>2, <2>3
  <1>5. CASE mdb_txn_begin
    <2>1. StoreTypes'
      BY <1>5 DEF mdb_txn_begin, TypeInv, StoreTypes
    <2>2. ProgTypes'
      BY <1>4, <1>5 DEF mdb_txn_begin, ToolOnly, progvars
    <2>3. DaemonTypes' /\ OtherTypes'
      BY <1>5, ToolType DEF mdb_txn_begin, TypeInv, OtherTypes
    <2> QED
      BY <2>1, <2>2, <2>3 DEF TypeInv
  <1>6. CASE mdb_dbi_open
    <2>1. CASE Dies
      BY <2>1, DiesType
    <2>2. CASE ~Dies
      <3>1. StoreTypes'
        BY <1>6, <2>2 DEF mdb_dbi_open, Quietly, storevars, TypeInv, StoreTypes, Unlocks
      <3>2. ProgTypes'
        BY <1>4, <1>6, <2>2 DEF mdb_dbi_open, Quietly, ToolOnly, progvars
      <3>3. DaemonTypes' /\ OtherTypes'
        BY <1>6, <2>2, ToolType DEF mdb_dbi_open, Quietly, TypeInv, OtherTypes
      <3> QED
        BY <3>1, <3>2, <3>3 DEF TypeInv
    <2> QED
      BY <2>1, <2>2
  <1>7. CASE mdb_txn_commit
    <2>1. StoreTypes'
      BY <1>7 DEF mdb_txn_commit, TypeInv, StoreTypes, Unlocks
    <2>2. ProgTypes'
      BY <1>4, <1>7 DEF mdb_txn_commit, ToolOnly, progvars
    <2>3. DaemonTypes' /\ OtherTypes'
      BY <1>7, ToolType DEF mdb_txn_commit, TypeInv, OtherTypes
    <2> QED
      BY <2>1, <2>2, <2>3 DEF TypeInv
  <1> QED
    BY <1>2, <1>3, <1>5, <1>6, <1>7 DEF Opens

LEMMA WorksType == ASSUME TypeInv, DumpInv, AllKeys, Works \/ Looks PROVE TypeInv'
  <1>1. /\ held \subseteq Resources /\ held \cup {"txn"} \subseteq Resources
        /\ held \cup {"cursor"} \subseteq Resources /\ held \ {"txn"} \subseteq Resources
        /\ {} \subseteq Resources
        /\ {"opened", "cursor_open", "walk", "close", "commit"} \subseteq Places
    BY DEF TypeInv, ProgTypes, Resources, Places, AllOpenFaults
  <1>2. ASSUME NEW next \in {"opened", "cursor_open", "walk", "close", "commit"},
               NEW keeps \in {held, held \cup {"txn"}, held \cup {"cursor"}, held \ {"txn"}},
               GoesOn(next, keeps), runs' = runs, view' \in {view, disk}
        PROVE  ProgTypes'
    BY <1>1, <1>2, GoesOnType
  <1>3. ASSUME NEW how \in {"failed", "done", "loaded"}, Ends({}, how), runs' = runs
        PROVE  ProgTypes'
    BY <1>1, <1>3, EndsType
  <1>4. ASSUME Quietly, ProgTypes' PROVE TypeInv'
    BY <1>4, QuietType DEF TypeInv
  <1>5. CASE WalkBegins
    BY <1>2, <1>3, <1>4, <1>5 DEF WalkBegins, Quietly, ToolOnly
  <1>6. CASE mdb_cursor_open
    BY <1>2, <1>4, <1>6, DiesType DEF mdb_cursor_open, Quietly, ToolOnly, progvars
  <1>7. CASE Visits
    <2>1. Quietly /\ (GoesOn("walk", held) \/ GoesOn("close", held)) /\ view' = view
          /\ runs' = runs
      BY <1>7 DEF Visits, Quietly, ToolOnly
    <2> QED
      BY <1>2, <1>4, <2>1
  <1>8. CASE MydumpFails
    BY <1>8, DiesType DEF MydumpFails
  <1>9. CASE WalkEnds
    <2>1. ProgTypes'
      BY <1>3, <1>9 DEF WalkEnds
    <2>2. StoreTypes' /\ DaemonTypes'
      BY <1>9 DEF WalkEnds, storevars, daemonvars, TypeInv, StoreTypes, DaemonTypes
    <2>3. OtherTypes'
      BY <1>9 DEF WalkEnds, backupvars, TypeInv, OtherTypes, ProgTypes
    <2> QED
      BY <2>1, <2>2, <2>3 DEF TypeInv
  <1>10. CASE Looks \/ LookEnds
    BY <1>2, <1>3, <1>4, <1>10 DEF Looks, LookEnds, Quietly, ToolOnly
  <1>11. CASE LoadSkips
    BY <1>2, <1>4, <1>11 DEF LoadSkips, Consumes, Quietly, ToolOnly
  <1>12. CASE LoadPuts
    <2>1. ToolOnly /\ view' = view /\ runs' = runs /\ calm' \in {calm, FALSE}
          /\ (GoesOn("commit", held \cup {"txn"}) \/ GoesOn("opened", held))
          /\ holder' \in {"tool", holder}
      BY <1>12 DEF LoadPuts, Consumes, ToolOnly
    <2>2. ProgTypes'
      BY <1>2, <2>1
    <2>3. DaemonTypes' /\ OtherTypes'
      BY <2>1, ToolType DEF TypeInv, OtherTypes
    <2>4. PICK piece \in {p \in Pieces : Finds(p, SP) # {}} :
            \/ \E k \in {CutAt(piece, SP)}, v \in {Behind(piece, SP)} : db_put(k, v)
            \/ BeginFails
      BY <1>12 DEF LoadPuts
    <2>5. IsMap(disk) /\ IsTxn(txn)
      BY DEF TypeInv, StoreTypes
    <2>6. IsMap(disk') /\ IsTxn(txn')
      <3>1. CASE BeginFails
        BY <2>5, <3>1 DEF BeginFails
      <3>2. CASE ~BeginFails
        <4>1. db_put(CutAt(piece, SP), Behind(piece, SP))
          BY <2>4, <3>2
        <4>2. CutAt(piece, SP) \in Keys
          <5>1. Fgets(input) \in Text /\ Len(Fgets(input)) < BufSize
            BY FgetsIsText DEF DumpInv, DataInv
          <5>2. piece = CutAt(CutAt(Fgets(input), CR), NL)
            BY <2>4 DEF Pieces
          <5> QED
            BY <5>1, <5>2 DEF AllKeys
        <4> QED
          BY <2>5, <4>1, <4>2, PutType
      <3> QED
        BY <3>1, <3>2
    <2> QED
      BY <2>1, <2>2, <2>3, <2>6 DEF TypeInv, StoreTypes
  <1>13. CASE LoadCommits
    <2>1. ToolOnly /\ view' = view /\ runs' = runs /\ calm' \in {calm, FALSE}
          /\ GoesOn("opened", held \ {"txn"}) /\ holder' = "none"
      BY <1>13 DEF LoadCommits, ToolOnly, progvars
    <2>2. ProgTypes'
      BY <1>2, <2>1
    <2>3. DaemonTypes' /\ OtherTypes'
      BY <2>1, ToolType DEF TypeInv, OtherTypes
    <2>4. IsMap(disk') /\ IsTxn(txn')
      BY <1>13, CommitType DEF LoadCommits, TypeInv, StoreTypes
    <2> QED
      BY <2>1, <2>2, <2>3, <2>4 DEF TypeInv, StoreTypes
  <1>14. CASE LoadEnds
    BY <1>3, <1>4, <1>14 DEF LoadEnds, Quietly, ToolOnly
  <1> QED
    BY <1>5, <1>6, <1>7, <1>8, <1>9, <1>10, <1>11, <1>12, <1>13, <1>14 DEF Works

LEMMA DaemonType ==
    ASSUME TypeInv,
           \/ \E k \in Keys \ BadKeys, v \in Written \cup {DELETE} : DaemonAsks(k, v)
           \/ DaemonPuts \/ DaemonCommits \/ DaemonDies
    PROVE  TypeInv'
  <1>1. ASSUME DaemonOnly, calm' \in {calm, FALSE} PROVE ProgTypes' /\ OtherTypes'
    BY <1>1 DEF DaemonOnly, progvars, backupvars, TypeInv, ProgTypes, OtherTypes
  <1>2. CASE \E k \in Keys \ BadKeys, v \in Written \cup {DELETE} : DaemonAsks(k, v)
    <2>1. PICK k \in Keys \ BadKeys, v \in Written \cup {DELETE} : DaemonAsks(k, v)
      BY <1>2
    <2>2. DaemonOnly /\ calm' = calm /\ UNCHANGED storevars
          /\ daemon' = "waits" /\ order'.key = k
      BY <2>1 DEF DaemonAsks
    <2>3. writes' \in 0 .. MaxWrites
      <3>1. MaxWrites \in Nat /\ writes \in 0 .. MaxWrites /\ writes < MaxWrites
            /\ writes' = writes + 1
        BY <2>1, DbToolsAssumption DEF DaemonAsks, TypeInv, DaemonTypes
      <3> QED
        BY <3>1
    <2> QED
      BY <1>1, <2>2, <2>3 DEF TypeInv, StoreTypes, DaemonTypes, storevars
  <1>3. CASE DaemonPuts
    <2>1. DaemonOnly /\ calm' = calm /\ daemon = "waits" /\ daemon' = "commit"
          /\ holder' = "daemon" /\ writes' = writes /\ db_put(order.key, order.value)
      BY <1>3 DEF DaemonPuts
    <2>2. IsMap(disk') /\ IsTxn(txn')
      BY <2>1, PutType DEF TypeInv, StoreTypes, DaemonTypes
    <2> QED
      BY <1>1, <2>1, <2>2 DEF TypeInv, StoreTypes, DaemonTypes
  <1>4. CASE DaemonCommits
    <2>1. DaemonOnly /\ calm' = FALSE /\ daemon' = "idle" /\ holder' = "none"
          /\ writes' = writes
      BY <1>4 DEF DaemonCommits
    <2>2. IsMap(disk') /\ IsTxn(txn')
      BY <1>4, CommitType DEF DaemonCommits, TypeInv, StoreTypes
    <2> QED
      BY <1>1, <2>1, <2>2 DEF TypeInv, StoreTypes, DaemonTypes
  <1>5. CASE DaemonDies
    <2>1. DaemonOnly /\ calm' = calm /\ daemon' = "idle" /\ holder' \in {"none", holder}
          /\ writes' = writes /\ disk' = disk /\ txn' \in {txn, NoTxn}
      BY <1>5 DEF DaemonDies, storevars, TxnLost
    <2> QED
      BY <1>1, <2>1 DEF TypeInv, StoreTypes, DaemonTypes, IsTxn
  <1> QED
    BY <1>2, <1>3, <1>4, <1>5

(* Every variable keeps its type: no record gets a key that has no place   *)
(* in LMDB's order, given that Keys has the keys that fit a line.          *)
THEOREM TypeCorrect == ASSUME AllKeys PROVE Spec => []TypeOK
  <1>1. Init => TypeInv
    <2>1. MaxRuns \in Nat /\ MaxWrites \in Nat /\ 0 \in 0 .. MaxRuns /\ 0 \in 0 .. MaxWrites
      BY DbToolsAssumption
    <2>2. Init => IsMap(disk) /\ IsMap(view) /\ IsMap(backup)
      BY DEF Init, IsMap, Empty
    <2> QED
      BY <2>1, <2>2 DEF Init, TypeInv, StoreTypes, ProgTypes, DaemonTypes, OtherTypes, IsTxn,
                        Places, Resources
  <1>2. TypeInv /\ DumpInv /\ [Next]_vars => TypeInv'
    <2> SUFFICES ASSUME TypeInv, DumpInv, [Next]_vars PROVE TypeInv'
      OBVIOUS
    <2>1. CASE UNCHANGED vars
      BY <2>1 DEF vars, storevars, daemonvars, progvars, backupvars,
                  TypeInv, StoreTypes, ProgTypes, DaemonTypes, OtherTypes
    <2>2. CASE Killed
      BY <2>2, DiesType DEF Killed
    <2> QED
      BY <2>1, <2>2, RunType, OpensType, WorksType, DaemonType DEF Next
  <1>3. TypeInv /\ DumpInv => TypeOK
    BY DEF TypeInv, StoreTypes, ProgTypes, DaemonTypes, OtherTypes, TypeOK, DumpInv, WalkInv
  <1> QED
    BY <1>1, <1>2, <1>3, DumpAlways, PTL DEF Spec
-----------------------------------------------------------------------------
(* How far a load has come: what is left of the dump behind the n-th key,  *)
(* perhaps after the newline of a line that filled the buffer; and that    *)
(* the records up to there are back.                                       *)
Left(dump, map, n, t) ==
    \E r \in Text : Joins(dump, Prefix(map, n), r) /\ (t = r \/ Joins(t, << NL >>, r))
Restored(now, map, n) ==
    \A i \in 1 .. n : Order[i] \in DOMAIN map =>
                        Order[i] \in DOMAIN now /\ now[Order[i]] = map[Order[i]]
NoneIn(map, n, m) == \A i \in n + 1 .. m : Order[i] \notin DOMAIN map
AllLoadable(map) == \A k \in DOMAIN map : Loadable(k, map[k])

LEMMA RestoredMore ==
    ASSUME NEW now, NEW map, NEW n \in 0 .. Len(Order), NEW m \in n .. Len(Order),
           Restored(now, map, n), NoneIn(map, n, m)
    PROVE  Restored(now, map, m)
  <1> SUFFICES ASSUME NEW i \in 1 .. m, Order[i] \in DOMAIN map
               PROVE  Order[i] \in DOMAIN now /\ now[Order[i]] = map[Order[i]]
    BY DEF Restored
  <1>1. n \in Nat /\ m \in Nat
    BY OrderIs
  <1>2. i \in 1 .. n \/ i \in n + 1 .. m
    BY <1>1
  <1> QED
    BY <1>2 DEF Restored, NoneIn

LEMMA RestoredWith ==
    ASSUME NEW now, NEW map, NEW n \in 0 .. Len(Order), NEW m \in n + 1 .. Len(Order),
           Restored(now, map, n), NoneIn(map, n, m - 1)
    PROVE  Restored(With(now, Order[m], map[Order[m]]), map, m)
  <1> DEFINE k == Order[m]
             w == With(now, k, map[k])
  <1>1. n \in Nat /\ m \in 1 .. Len(Order) /\ m - 1 \in n .. Len(Order)
    BY OrderIs
  <1>2. Restored(now, map, m - 1)
    BY <1>1, RestoredMore
  <1>3. DOMAIN w = DOMAIN now \cup {k} /\ w[k] = map[k]
        /\ \A x \in DOMAIN now : x # k => w[x] = now[x]
    BY DEF With
  <1> HIDE DEF w
  <1>4. ASSUME NEW i \in 1 .. m, Order[i] \in DOMAIN map
        PROVE  Order[i] \in DOMAIN w /\ w[Order[i]] = map[Order[i]]
    <2>1. CASE i = m
      BY <1>3, <2>1
    <2>2. CASE i # m
      <3>1. i \in 1 .. m - 1 /\ i \in 1 .. Len(Order)
        BY <1>1, <2>2, OrderIs
      <3>2. Order[i] \in DOMAIN now /\ now[Order[i]] = map[Order[i]]
        BY <1>2, <1>4, <3>1 DEF Restored
      <3>3. Order[i] # k
        BY <1>1, <2>2, <3>1, OrderIs
      <3> QED
        BY <1>3, <3>2, <3>3
    <2> QED
      BY <2>1, <2>2
  <1>5. Restored(w, map, m)
    BY <1>4 DEF Restored
  <1> QED
    BY <1>5 DEF w

(* The next record of the dump, if there is one.                           *)
LEMMA NextRecord ==
    ASSUME NEW map, Contents(map), NEW n \in 0 .. Len(Order), NEW r \in Text,
           Joins(Prefix(map, Len(Order)), Prefix(map, n), r)
    PROVE  \/ r = << >> /\ NoneIn(map, n, Len(Order))
           \/ \E m \in n + 1 .. Len(Order), q \in Text :
                /\ Order[m] \in DOMAIN map /\ NoneIn(map, n, m - 1)
                /\ Joins(r, Line(Order[m], map[Order[m]]), q)
                /\ Joins(Prefix(map, Len(Order)), Prefix(map, m), q)
  <1> DEFINE last == Len(Order)
             all == Prefix(map, last)
             done == Prefix(map, n)
  <1>1. /\ last \in Nat /\ n \in Nat /\ last \in n .. last
        /\ all \in Text /\ done \in Text /\ all = done \o r
    <2>1. Len(Order) \in Nat /\ Len(Order) \in 0 .. Len(Order)
      BY OrderIs
    <2>2. all \in Text /\ done \in Text
      BY <2>1, PrefixIs
    <2> QED
      BY <2>1, <2>2 DEF Joins
  <1>2. CASE NoneIn(map, n, last)
    <2>1. all = done
      BY <1>1, <1>2, PrefixGrows DEF Extends, NoneIn
    <2> HIDE DEF all, done
    <2>2. done \o r = done
      BY <1>1, <2>1, Zenon
    <2>3. r = << >>
      BY <1>1, <2>2, ConcatEqualIffEmpty DEF Text
    <2> QED
      BY <1>2, <2>3
  <1>3. CASE ~NoneIn(map, n, last)
    <2> DEFINE T == {i \in n + 1 .. last : Order[i] \in DOMAIN map}
    <2>1. T \in SUBSET Nat /\ T # {}
      BY <1>1, <1>3 DEF NoneIn
    <2>2. PICK m \in T : \A i \in T : m <= i
      BY <2>1, Least
    <2>3. /\ m \in n + 1 .. last /\ Order[m] \in DOMAIN map /\ m \in Nat
          /\ m - 1 \in n .. last /\ m - 1 \in 0 .. last - 1 /\ (m - 1) + 1 = m
          /\ m \in 0 .. last /\ last \in m .. last
      BY <1>1, <2>2
    <2>4. NoneIn(map, n, m - 1)
      BY <1>1, <2>2, <2>3 DEF NoneIn
    <2> DEFINE rec == Line(Order[m], map[Order[m]])
               upto == Prefix(map, m)
    <2>5. rec = LineOf(map, m) /\ rec \in Text
      <3>1. rec = LineOf(map, m)
        BY <2>3 DEF LineOf
      <3>2. LineOf(map, m) \in Text
        BY <2>3, LineOfIs
      <3> QED
        BY <3>1, <3>2
    <2>6. upto = done \o rec
      <3>1. Prefix(map, m - 1) = done
        BY <2>3, <2>4, PrefixGrows DEF Extends, NoneIn
      <3>2. Prefix(map, (m - 1) + 1) = Prefix(map, m - 1) \o LineOf(map, (m - 1) + 1)
        BY <2>3, PrefixIs
      <3> HIDE DEF rec
      <3>3. Prefix(map, m) = Prefix(map, m - 1) \o LineOf(map, m)
        BY <2>3, <3>2
      <3> QED
        BY <2>5, <3>1, <3>3, Zenon
    <2>7. PICK q \in Text : all = upto \o q
      BY <2>3, PrefixGrows DEF Extends
    <2>8. done \in Text /\ all = done \o r
      BY <1>1
    <2> HIDE DEF rec, upto, done, all
    <2>9. (done \o rec) \o q = done \o (rec \o q) /\ rec \o q \in Text
      BY <2>5, <2>7, <2>8, TextJoins, Zenon
    <2>10. done \o r = done \o (rec \o q)
      BY <2>6, <2>7, <2>8, <2>9, Zenon
    <2>11. r = rec \o q
      <3> DEFINE u == rec \o q
      <3>1. u \in Seq(Chars) /\ r \in Seq(Chars) /\ done \in Seq(Chars)
        BY <2>8, <2>9 DEF Text
      <3> HIDE DEF u
      <3>2. \A s, t, v \in Seq(Chars) : s \o t = s \o v => t = v
        BY ConcatSimplifications, Zenon
      <3>3. done \o r = done \o u => r = u
        BY <3>1, <3>2
      <3> QED
        BY <2>10, <3>3, Zenon DEF u
    <2>12. Joins(r, rec, q) /\ Joins(all, upto, q)
      BY <2>7, <2>11, Zenon DEF Joins
    <2> QED
      BY <2>3, <2>4, <2>12, Zenon DEF rec, upto, all
  <1> QED
    BY <1>2, <1>3

LEMMA LoadableIs ==
    ASSUME NEW k \in Text, NEW v \in Text, Loadable(k, v)
    PROVE  /\ Free(k, SP) /\ Free(k, NL) /\ Free(v, NL) /\ Free(k, CR) /\ Free(v, CR)
           /\ Len(k) + 1 + Len(v) <= BufSize - 1 /\ k \notin BadKeys /\ v # DELETE
  <1>1. /\ Finds(k, SP) = {} /\ Finds(k \o v, CR) = {} /\ Finds(k \o v, NL) = {}
        /\ Len(k) + 1 + Len(v) <= BufSize - 1 /\ k \notin BadKeys /\ v # DELETE
    BY DEF Loadable
  <1>2. k \o v \in Text
    BY ConcatProperties DEF Text
  <1>3. Free(k, SP) /\ Free(k \o v, CR) /\ Free(k \o v, NL)
    BY <1>1, <1>2, FreeParts, Zenon
  <1>4. Free(k, CR) /\ Free(v, CR) /\ Free(k, NL) /\ Free(v, NL)
    BY <1>3, FreeParts, Zenon
  <1> QED
    BY <1>1, <1>3, <1>4, Zenon

LEMMA PieceIs ==
    ASSUME NEW k \in Text, NEW v \in Text, Free(k, SP), NEW t, t = k \o << SP >> \o v
    PROVE  CutAt(t, SP) = k /\ Behind(t, SP) = v /\ Finds(t, SP) # {}
  <1>1. Stands(t, k, SP, v)
    BY Zenon DEF Stands
  <1>2. SP \in Chars
    BY Given
  <1> QED
    BY <1>1, <1>2, FirstFound

(* One turn of the loop of db_load on such a text: the newline that was    *)
(* left over, or the next record as it was printed.                        *)
Cut(t) == CutAt(CutAt(Fgets(t), CR), NL)
Rest(t) == SubSeq(t, Len(Fgets(t)) + 1, Len(t))

LEMMA LoadTurn ==
    ASSUME NEW map, Contents(map), AllLoadable(map), NEW dump, dump = Prefix(map, Len(Order)),
           NEW n \in 0 .. Len(Order), NEW t, Left(dump, map, n, t)
    PROVE  \/ t = << >> /\ NoneIn(map, n, Len(Order))
           \/ Finds(Cut(t), SP) = {} /\ Left(dump, map, n, Rest(t))
           \/ \E m \in n + 1 .. Len(Order) :
                /\ Order[m] \in DOMAIN map /\ NoneIn(map, n, m - 1)
                /\ Finds(Cut(t), SP) # {}
                /\ CutAt(Cut(t), SP) = Order[m] /\ Behind(Cut(t), SP) = map[Order[m]]
                /\ Left(dump, map, m, Rest(t))
  <1>1. PICK r \in Text : /\ Joins(dump, Prefix(map, n), r)
                          /\ t = r \/ Joins(t, << NL >>, r)
    BY DEF Left
  <1>2. CASE Joins(t, << NL >>, r)
    <2>1. Rest(t) = r /\ Finds(Cut(t), SP) = {}
      BY <1>2, FgetsNewline DEF Rest, Cut
    <2>2. Left(dump, map, n, Rest(t))
      BY <1>1, <2>1, Zenon DEF Left
    <2> QED
      BY <2>1, <2>2
  <1>3. CASE t = r
    <2>1. CASE r = << >> /\ NoneIn(map, n, Len(Order))
      BY <1>3, <2>1
    <2>2. CASE ~(r = << >> /\ NoneIn(map, n, Len(Order)))
      <3>1. Joins(Prefix(map, Len(Order)), Prefix(map, n), r)
        BY <1>1, Zenon
      <3>2. PICK m \in n + 1 .. Len(Order), q \in Text :
                /\ Order[m] \in DOMAIN map /\ NoneIn(map, n, m - 1)
                /\ Joins(r, Line(Order[m], map[Order[m]]), q)
                /\ Joins(dump, Prefix(map, m), q)
        <4>1. \E m \in n + 1 .. Len(Order), q \in Text :
                /\ Order[m] \in DOMAIN map /\ NoneIn(map, n, m - 1)
                /\ Joins(r, Line(Order[m], map[Order[m]]), q)
                /\ Joins(Prefix(map, Len(Order)), Prefix(map, m), q)
          BY <2>2, <3>1, NextRecord
        <4> QED
          BY <4>1, Zenon
      <3> DEFINE k == Order[m]
                 v == map[k]
      <3>3. k \in Text /\ v \in Text /\ k \in DOMAIN map /\ Loadable(k, v)
        <4>1. m \in 1 .. Len(Order)
          BY OrderIs
        <4> QED
          BY <3>2, <4>1, OrderIs DEF Contents, AllLoadable
      <3>4. Joins(t, Line(k, v), q)
        BY <1>3, <3>2, Zenon
      <3> HIDE DEF k, v
      <3>5. /\ Free(k, SP) /\ Free(k, NL) /\ Free(v, NL) /\ Free(k, CR) /\ Free(v, CR)
            /\ Len(k) + 1 + Len(v) <= BufSize - 1
        BY <3>3, LoadableIs
      <3>6. /\ Fgot(k, v, q, Fgets(t), SubSeq(t, Len(Fgets(t)) + 1, Len(t)))
            /\ CutAt(CutAt(Fgets(t), CR), NL) = k \o << SP >> \o v
        BY <3>3, <3>4, <3>5, FgetsLine
      <3>7. Rest(t) = q \/ Joins(Rest(t), << NL >>, q)
        BY <3>6, Zenon DEF Fgot, Rest, Joins
      <3>8. /\ CutAt(Cut(t), SP) = k /\ Behind(Cut(t), SP) = v /\ Finds(Cut(t), SP) # {}
        <4>1. Cut(t) = k \o << SP >> \o v
          BY <3>6, Zenon DEF Cut
        <4> QED
          BY <3>3, <3>5, <4>1, PieceIs
      <3>9. Left(dump, map, m, Rest(t))
        BY <3>2, <3>7, Zenon DEF Left
      <3> QED
        BY <3>2, <3>8, <3>9, Zenon DEF k, v
    <2> QED
      BY <2>1, <2>2
  <1> QED
    BY <1>1, <1>2, <1>3
-----------------------------------------------------------------------------
(* How far the load has come.  RestoresBackup is not inductive by itself:  *)
(* while a dump is loaded undisturbed, there is a place in it up to which  *)
(* the database, or the transaction about to commit, has its records, and  *)
(* behind which everything is still to be read.                            *)
LoadAt(n) ==
    /\ Left(file, backup, n, input)
    /\ pc = "opened" => Restored(disk, backup, n)
    /\ pc = "commit" => (txn.rc = "full" \/ (txn.rc = "ok" /\ Restored(txn.view, backup, n)))
Reads ==
    /\ pc \notin {"opened", "commit"} => input = file
    /\ pc \in {"opened", "commit"} => \E n \in 0 .. Len(Order) : LoadAt(n)
LoadInv ==
    /\ result # "none" => pc = "idle"
    /\ fn = "load" /\ calm /\ AllLoadable(backup) => Reads
    /\ result = "loaded" /\ calm /\ AllLoadable(backup) => Restored(disk, backup, Len(Order))

(* Programs that do not load, and how a program ends.                      *)
LEMMA OtherLoad ==
    ASSUME fn' # "load", result' # "loaded", result' # "none" => pc' = "idle"
    PROVE  LoadInv'
  BY DEF LoadInv

LEMMA GoesOnLoad ==
    ASSUME LoadInv, NEW next, NEW keeps, GoesOn(next, keeps), pc # "idle", fn # "load"
    PROVE  LoadInv'
  BY DEF LoadInv, GoesOn

LEMMA EndsLoad ==
    ASSUME NEW keeps, NEW how \in {"not opened", "failed", "done", "died"}, Ends(keeps, how)
    PROVE  LoadInv'
  BY DEF LoadInv, Ends

LEMMA DiesLoad == ASSUME Dies PROVE LoadInv'
  BY EndsLoad DEF Dies

LEMMA RunLoad == ASSUME NEW f, Run(f) PROVE LoadInv'
  <1>1. /\ pc' = "env_create" /\ fn' = f /\ result' = "none" /\ file' = file
        /\ \E text : input' = text /\ calm' = (text = file)
    BY DEF Run, backupvars
  <1>2. calm' => input' = file'
    BY <1>1
  <1>3. fn' = "load" /\ calm' /\ AllLoadable(backup') => Reads'
    BY <1>1, <1>2 DEF Reads
  <1> QED
    BY <1>1, <1>3 DEF LoadInv

(* db_open reads nothing. *)
LEMMA OpenedLoad ==
    ASSUME LoadInv, DumpInv, NEW next, NEW keeps, GoesOn(next, keeps),
           pc \notin {"idle", "opened", "commit"}, next # "commit",
           UNCHANGED << input, file, backup, calm >>
    PROVE  LoadInv'
  <1>1. result = "none" /\ result' = "none" /\ pc' = next /\ fn' = fn
    BY DEF LoadInv, GoesOn
  <1>2. ASSUME fn = "load", calm, AllLoadable(backup) PROVE Reads'
    <2>1. input = file
      BY <1>2 DEF LoadInv, Reads
    <2>2. CASE next # "opened"
      BY <1>1, <2>1, <2>2 DEF Reads
    <2>3. CASE next = "opened"
      <3>1. Contents(backup) /\ file = Prefix(backup, Len(Order))
        BY DEF DumpInv, DataInv, WalkInv
      <3>2. file \in Text
        BY <3>1, PrefixIs, OrderIs
      <3>3. Prefix(backup, 0) = << >>
        BY <3>1, PrefixIs
      <3>4. << >> \o file = file
        BY <3>2, ConcatEmptySeq DEF Text
      <3>5. Left(file, backup, 0, file)
        BY <3>2, <3>3, <3>4, Zenon DEF Left, Joins
      <3>6. Restored(disk', backup, 0)
        BY DEF Restored
      <3>7. 0 \in 0 .. Len(Order) /\ LoadAt(0)'
        BY <1>1, <2>1, <2>3, <3>5, <3>6, EmptyFine DEF LoadAt
      <3>8. \E n \in 0 .. Len(Order) : LoadAt(n)'
        BY <3>7
      <3>9. pc' \in {"opened", "commit"}
        BY <1>1, <2>3
      <3> QED
        BY <3>8, <3>9 DEF Reads
    <2> QED
      BY <2>2, <2>3
  <1> QED
    BY <1>1, <1>2 DEF LoadInv

LEMMA OpensLoad == ASSUME LoadInv, DumpInv, Opens PROVE LoadInv'
  <1>1. ASSUME NEW name, NEW next, NEW keeps, Call(name, next, keeps),
               name \notin {"idle", "opened", "commit"}, next # "commit"
        PROVE  LoadInv'
    <2>1. UNCHANGED << file, backup, calm >> /\ pc = name
      BY <1>1 DEF Call, Quietly, ToolOnly, backupvars
    <2>2. CASE GoesOn(next, held \cup keeps) /\ UNCHANGED progvars
      BY <1>1, <2>1, <2>2, OpenedLoad DEF progvars
    <2>3. CASE Ends(held \ {"struct"}, "not opened")
      BY <2>3, EndsLoad
    <2> QED
      BY <1>1, <2>2, <2>3 DEF Call
  <1>2. CASE mdb_env_create \/ mdb_env_set_maxdbs \/ mdb_env_open
    BY <1>1, <1>2 DEF mdb_env_create, mdb_env_set_maxdbs, mdb_env_open
  <1>3. CASE mdb_txn_begin
    <2>1. /\ UNCHANGED << input, file, backup, calm >> /\ pc = "txn_begin"
          /\ GoesOn("dbi_open", held \cup {"txn"}) \/ GoesOn("dbi_open", held)
      BY <1>3 DEF mdb_txn_begin, ToolOnly, backupvars, progvars
    <2> QED
      BY <2>1, OpenedLoad
  <1>4. CASE mdb_dbi_open
    <2>1. CASE Dies
      BY <2>1, DiesLoad
    <2>2. CASE ~Dies
      <3>1. /\ UNCHANGED << file, backup, calm >> /\ pc = "dbi_open"
            /\ \/ GoesOn("txn_commit", held) /\ UNCHANGED input
               \/ Ends({}, "not opened")
        BY <1>4, <2>2 DEF mdb_dbi_open, Quietly, ToolOnly, backupvars, progvars
      <3> QED
        BY <3>1, OpenedLoad, EndsLoad
    <2> QED
      BY <2>1, <2>2
  <1>5. CASE mdb_txn_commit
    <2>1. /\ UNCHANGED << file, backup, calm >> /\ pc = "txn_commit"
          /\ \/ GoesOn("opened", held \ {"txn"}) /\ UNCHANGED input
             \/ Ends({}, "not opened")
      BY <1>5 DEF mdb_txn_commit, ToolOnly, backupvars, progvars
    <2> QED
      BY <2>1, OpenedLoad, EndsLoad
  <1> QED
    BY <1>2, <1>3, <1>4, <1>5 DEF Opens

(* Walks and lookups are not loads. *)
LEMMA OthersLoad ==
    ASSUME LoadInv, IInv, DumpInv,
           \/ WalkBegins \/ mdb_cursor_open \/ Visits \/ MydumpFails \/ WalkEnds
           \/ Looks \/ LookEnds
    PROVE  LoadInv'
  <1>1. CASE WalkBegins
    BY <1>1, GoesOnLoad, EndsLoad DEF WalkBegins, Walks
  <1>2. CASE mdb_cursor_open
    <2>1. fn # "load" /\ pc = "cursor_open"
      BY <1>2 DEF IInv, HeldAt, mdb_cursor_open
    <2> QED
      BY <1>2, <2>1, GoesOnLoad, DiesLoad DEF mdb_cursor_open
  <1>3. CASE Visits
    <2>1. fn # "load" /\ pc = "walk" /\ (GoesOn("walk", held) \/ GoesOn("close", held))
      BY <1>3 DEF IInv, HeldAt, Visits
    <2> QED
      BY <2>1, GoesOnLoad
  <1>4. CASE MydumpFails
    BY <1>4, DiesLoad DEF MydumpFails
  <1>5. CASE WalkEnds
    BY <1>5, EndsLoad DEF WalkEnds
  <1>6. CASE Looks
    <2>1. fn # "load" /\ pc # "idle" /\ GoesOn("opened", held)
      BY <1>6 DEF Looks
    <2> QED
      BY <2>1, GoesOnLoad
  <1>7. CASE LookEnds
    BY <1>7, EndsLoad DEF LookEnds
  <1> QED
    BY <1>1, <1>2, <1>3, <1>4, <1>5, <1>6, <1>7

LEMMA TurnOf ==
    ASSUME LoadInv, DumpInv, fn = "load", calm, AllLoadable(backup), pc = "opened"
    PROVE  \E n \in 0 .. Len(Order) :
             /\ Restored(disk, backup, n)
             /\ \/ input = << >> /\ NoneIn(backup, n, Len(Order))
                \/ Finds(Cut(input), SP) = {} /\ Left(file, backup, n, Rest(input))
                \/ \E m \in n + 1 .. Len(Order) :
                     /\ Order[m] \in DOMAIN backup /\ NoneIn(backup, n, m - 1)
                     /\ Finds(Cut(input), SP) # {}
                     /\ CutAt(Cut(input), SP) = Order[m]
                     /\ Behind(Cut(input), SP) = backup[Order[m]]
                     /\ Left(file, backup, m, Rest(input))
  <1>1. PICK n \in 0 .. Len(Order) : LoadAt(n)
    BY DEF LoadInv, Reads
  <1>2. Restored(disk, backup, n) /\ Left(file, backup, n, input)
    BY <1>1 DEF LoadAt
  <1>3. Contents(backup) /\ file = Prefix(backup, Len(Order))
    BY DEF DumpInv, DataInv, WalkInv
  <1> QED
    BY <1>2, <1>3, LoadTurn

LEMMA SkipsLoad == ASSUME LoadInv, DumpInv, LoadSkips PROVE LoadInv'
  <1>1. /\ fn = "load" /\ pc = "opened" /\ pc' = "opened" /\ fn' = "load" /\ result' = result
        /\ UNCHANGED << disk, file, backup, calm >>
        /\ input # << >> /\ input' = Rest(input) /\ Finds(Cut(input), SP) = {}
    BY DEF LoadSkips, Loading, Pieces, Consumes, GoesOn, Quietly, ToolOnly, storevars,
           backupvars, Cut, Rest
  <1>2. result = "none"
    BY <1>1 DEF LoadInv
  <1>3. ASSUME calm, AllLoadable(backup) PROVE Reads'
    <2>1. PICK n \in 0 .. Len(Order) :
            Restored(disk, backup, n) /\ Left(file, backup, n, Rest(input))
      BY <1>1, <1>3, TurnOf
    <2>2. LoadAt(n)'
      BY <1>1, <2>1 DEF LoadAt
    <2>3. \E i \in 0 .. Len(Order) : LoadAt(i)'
      BY <2>2
    <2> QED
      BY <1>1, <2>3 DEF Reads
  <1> QED
    BY <1>1, <1>2, <1>3 DEF LoadInv

LEMMA PutsLoad == ASSUME LoadInv, DumpInv, LoadPuts PROVE LoadInv'
  <1>1. /\ fn = "load" /\ pc = "opened" /\ fn' = "load" /\ result' = result
        /\ UNCHANGED << file, backup >> /\ input # << >> /\ input' = Rest(input)
        /\ Finds(Cut(input), SP) # {}
    BY DEF LoadPuts, Loading, Pieces, Consumes, GoesOn, ToolOnly, backupvars, Cut, Rest
  <1>2. result = "none"
    BY <1>1 DEF LoadInv
  <1>3. ASSUME calm', AllLoadable(backup) PROVE Reads'
    <2>1. /\ calm /\ pc' = "commit"
          /\ db_put(CutAt(Cut(input), SP), Behind(Cut(input), SP))
      BY <1>3 DEF LoadPuts, Pieces, GoesOn, Cut
    <2>11. PICK n \in 0 .. Len(Order) : \E m \in n + 1 .. Len(Order) :
            /\ Restored(disk, backup, n)
            /\ Order[m] \in DOMAIN backup /\ NoneIn(backup, n, m - 1)
            /\ CutAt(Cut(input), SP) = Order[m]
            /\ Behind(Cut(input), SP) = backup[Order[m]]
            /\ Left(file, backup, m, Rest(input))
      BY <1>1, <1>3, <2>1, TurnOf
    <2>2. PICK m \in n + 1 .. Len(Order) :
            /\ Restored(disk, backup, n)
            /\ Order[m] \in DOMAIN backup /\ NoneIn(backup, n, m - 1)
            /\ CutAt(Cut(input), SP) = Order[m]
            /\ Behind(Cut(input), SP) = backup[Order[m]]
            /\ Left(file, backup, m, Rest(input))
      BY <2>11
    <2> DEFINE k == Order[m]
               v == backup[k]
    <2>3. db_put(k, v) /\ k \in DOMAIN backup /\ m \in 0 .. Len(Order)
      BY <2>1, <2>2, OrderIs
    <2>4. k \notin BadKeys /\ v # DELETE
      BY <1>3, <2>3 DEF AllLoadable, Loadable
    <2>5. Restored(With(disk, k, v), backup, m)
      BY <2>2, RestoredWith
    <2> HIDE DEF k, v
    <2>6. \/ txn' = [fn |-> "put", view |-> With(disk, k, v), rc |-> "ok"]
          \/ txn' = [fn |-> "put", view |-> disk, rc |-> "full"]
      BY <2>3, <2>4, PutIs
    <2>7. txn'.rc = "full" \/ (txn'.rc = "ok" /\ Restored(txn'.view, backup, m))
      BY <2>5, <2>6
    <2>8. Left(file', backup', m, input')
      BY <1>1, <2>2
    <2>9. LoadAt(m)'
      BY <1>1, <2>1, <2>7, <2>8 DEF LoadAt
    <2>10. \E i \in 0 .. Len(Order) : LoadAt(i)'
      BY <2>3, <2>9
    <2> QED
      BY <2>1, <2>10 DEF Reads
  <1> QED
    BY <1>1, <1>2, <1>3 DEF LoadInv

LEMMA CommitsLoad == ASSUME LoadInv, IInv, LoadCommits PROVE LoadInv'
  <1>1. /\ fn = "load" /\ pc = "commit" /\ pc' = "opened" /\ fn' = "load" /\ result' = result
        /\ UNCHANGED << input, file, backup >>
    BY DEF LoadCommits, GoesOn, ToolOnly, backupvars, progvars, IInv, HeldAt
  <1>2. result = "none"
    BY <1>1 DEF LoadInv
  <1>3. ASSUME calm', AllLoadable(backup) PROVE Reads'
    <2>1. calm /\ CommitOk
      BY <1>3 DEF LoadCommits
    <2>2. PICK n \in 0 .. Len(Order) : LoadAt(n)
      BY <1>1, <1>3, <2>1 DEF LoadInv, Reads
    <2>3. Restored(disk', backup, n) /\ Left(file, backup, n, input)
      BY <1>1, <2>1, <2>2 DEF LoadAt, CommitOk
    <2>4. LoadAt(n)'
      BY <1>1, <2>3 DEF LoadAt
    <2>5. \E i \in 0 .. Len(Order) : LoadAt(i)'
      BY <2>4
    <2> QED
      BY <1>1, <2>5 DEF Reads
  <1> QED
    BY <1>1, <1>2, <1>3 DEF LoadInv

(* Nothing is left only when nothing is left to restore. *)
LEMMA NothingLeft ==
    ASSUME NEW map, Contents(map), NEW n \in 0 .. Len(Order),
           NEW t \in Text, Len(t) = 0, Left(Prefix(map, Len(Order)), map, n, t)
    PROVE  NoneIn(map, n, Len(Order))
  <1> DEFINE nl == << NL >>
  <1>1. nl \in Text /\ Len(nl) = 1
    BY Given DEF Text
  <1>2. \A a, b \in Text : Joins(t, a, b) => Len(a) = 0
    <2> SUFFICES ASSUME NEW a \in Text, NEW b \in Text, Joins(t, a, b)
                 PROVE  Len(a) = 0
      OBVIOUS
    <2>1. Len(t) = Len(a) + Len(b)
      BY Splits
    <2> DEFINE la == Len(a)
               lb == Len(b)
    <2>2. la \in Nat /\ lb \in Nat
      BY LenProperties DEF Text
    <2>3. 0 = la + lb
      BY <2>1
    <2> HIDE DEF la, lb
    <2>4. la = 0
      BY <2>2, <2>3
    <2> QED
      BY <2>4 DEF la
  <1>3. PICK r \in Text : /\ Joins(Prefix(map, Len(Order)), Prefix(map, n), r)
                          /\ t = r \/ Joins(t, nl, r)
    BY DEF Left
  <1> HIDE DEF nl
  <1>4. ~Joins(t, nl, r)
    BY <1>1, <1>2
  <1>5. ASSUME NEW m \in n + 1 .. Len(Order), NEW q \in Text, Order[m] \in DOMAIN map,
               Joins(r, Line(Order[m], map[Order[m]]), q)
        PROVE  FALSE
    <2> DEFINE k == Order[m]
               v == map[k]
               rec == Line(k, v)
               body == k \o << SP >> \o v
    <2>0. Joins(r, rec, q)
      BY <1>5, Zenon
    <2>1. k \in Text /\ v \in Text
      <3>1. m \in 1 .. Len(Order)
        BY OrderIs
      <3> QED
        BY <1>5, <3>1, OrderIs DEF Contents
    <2> HIDE DEF k, v
    <2>2. << SP >> \in Text
      BY Given DEF Text
    <2>3. body \in Text
      <3>1. \A a, b \in Text : a \o b \in Text
        BY ConcatProperties DEF Text
      <3> QED
        BY <2>1, <2>2, <3>1, Zenon
    <2>4. Joins(rec, body, nl)
      BY Zenon DEF Line, Joins, nl
    <2> HIDE DEF rec, body
    <2>5. rec \in Text /\ Len(rec) = Len(body) + 1 /\ Len(body) \in Nat
      <3>1. rec \in Text /\ Len(rec) = Len(body) + Len(nl)
        BY <1>1, <2>3, <2>4, AllSplit, Zenon
      <3>2. Len(body) \in Nat
        BY <2>3, LenProperties DEF Text
      <3> QED
        BY <1>1, <3>1, <3>2
    <2>6. Joins(t, rec, q)
      <3>1. r = t
        BY <1>3, <1>4, Zenon
      <3> QED
        BY <2>0, <3>1, Zenon
    <2>7. Len(rec) = 0
      <3>1. rec \in Text /\ Joins(t, rec, q)
        BY <2>5, <2>6
      <3> QED
        BY <1>2, <3>1, Zenon
    <2>8. \A j \in Nat : j + 1 # 0
      OBVIOUS
    <2> QED
      BY <2>5, <2>7, <2>8, Zenon
  <1>6. Joins(Prefix(map, Len(Order)), Prefix(map, n), r)
    BY <1>3
  <1> QED
    BY <1>5, <1>6, NextRecord

LEMMA EndsRestored == ASSUME LoadInv, DumpInv, LoadEnds PROVE LoadInv'
  <1>1. /\ fn = "load" /\ pc = "opened" /\ fn' = "none" /\ pc' = "idle" /\ result' = "loaded"
        /\ UNCHANGED << disk, file, backup, calm >> /\ input = << >>
    BY DEF LoadEnds, Ends, Quietly, ToolOnly, storevars, backupvars
  <1>2. ASSUME calm, AllLoadable(backup) PROVE Restored(disk, backup, Len(Order))
    <2>1. PICK n \in 0 .. Len(Order) : LoadAt(n)
      BY <1>1, <1>2 DEF LoadInv, Reads
    <2>2. Restored(disk, backup, n) /\ Left(file, backup, n, << >>)
      BY <1>1, <2>1 DEF LoadAt
    <2>3. Contents(backup) /\ file = Prefix(backup, Len(Order))
      BY DEF DumpInv, DataInv, WalkInv
    <2>4. NoneIn(backup, n, Len(Order)) /\ Len(Order) \in n .. Len(Order)
      <3>1. << >> \in Text /\ Len(<< >>) = 0
        BY EmptySeq DEF Text
      <3>2. PICK t \in Text : t = << >> /\ Len(t) = 0
        BY <3>1
      <3>3. Left(Prefix(backup, Len(Order)), backup, n, t)
        BY <2>2, <2>3, <3>2
      <3>4. NoneIn(backup, n, Len(Order))
        BY <2>3, <3>2, <3>3, NothingLeft
      <3> QED
        BY <3>4, OrderIs
    <2> QED
      BY <2>2, <2>4, RestoredMore
  <1> QED
    BY <1>1, <1>2 DEF LoadInv

LEMMA LoadsLoad ==
    ASSUME LoadInv, IInv, DumpInv, LoadSkips \/ LoadPuts \/ LoadCommits \/ LoadEnds
    PROVE  LoadInv'
  BY SkipsLoad, PutsLoad, CommitsLoad, EndsRestored

(* The daemon: a commit of its own spoils the load, and what it does       *)
(* before that is not seen.                                                *)
LEMMA DaemonLoad ==
    ASSUME LoadInv, IInv,
           \/ \E k \in Keys \ BadKeys, v \in Written \cup {DELETE} : DaemonAsks(k, v)
           \/ DaemonPuts \/ DaemonCommits \/ DaemonDies
    PROVE  LoadInv'
  <1>1. UNCHANGED << pc, fn, result, input, file, backup >>
    BY DEF DaemonAsks, DaemonPuts, DaemonCommits, DaemonDies, DaemonOnly, progvars, backupvars
  <1>2. CASE calm' = FALSE
    BY <1>1, <1>2 DEF LoadInv
  <1>3. CASE calm' # FALSE
    <2>1. disk' = disk /\ calm' = calm
      BY <1>3 DEF DaemonAsks, DaemonPuts, DaemonCommits, DaemonDies, storevars, TxnLost,
                  db_put, PutBegins, DelBegins
    <2>2. pc = "commit" => txn' = txn
      <3>1. pc = "commit" => holder = "tool" /\ daemon # "commit"
        BY DEF IInv, HeldAt, HolderAt, InTxn, Open
      <3> QED
        BY <3>1 DEF DaemonAsks, DaemonPuts, DaemonCommits, DaemonDies, storevars
    <2>3. Reads => Reads'
      <3>1. ASSUME NEW n, LoadAt(n) PROVE LoadAt(n)'
        BY <1>1, <2>1, <2>2, <3>1 DEF LoadAt
      <3> QED
        BY <1>1, <3>1 DEF Reads
    <2> QED
      BY <1>1, <2>1, <2>3 DEF LoadInv
  <1> QED
    BY <1>2, <1>3

LEMMA NextLoad == ASSUME LoadInv, IInv, DumpInv, [Next]_vars PROVE LoadInv'
  <1>1. CASE \E f \in Programs : Run(f)
    BY <1>1, RunLoad
  <1>2. CASE Opens
    BY <1>2, OpensLoad
  <1>3. CASE Works \/ Looks
    BY <1>3, OthersLoad, LoadsLoad DEF Works
  <1>4. CASE Killed
    BY <1>4, DiesLoad DEF Killed
  <1>5. CASE \/ \E k \in Keys \ BadKeys, v \in Written \cup {DELETE} : DaemonAsks(k, v)
             \/ DaemonPuts \/ DaemonCommits \/ DaemonDies
    BY <1>5, DaemonLoad
  <1>6. CASE UNCHANGED vars
    <2>1. UNCHANGED << disk, txn, pc, fn, input, result, file, backup, calm >>
      BY <1>6 DEF vars, storevars, progvars, backupvars
    <2>2. Reads => Reads'
      <3>1. ASSUME NEW n, LoadAt(n) PROVE LoadAt(n)'
        BY <2>1, <3>1 DEF LoadAt
      <3> QED
        BY <2>1, <3>1 DEF Reads
    <2> QED
      BY <2>1, <2>2 DEF LoadInv
  <1> QED
    BY <1>1, <1>2, <1>3, <1>4, <1>5, <1>6 DEF Next

(* That a dump leaves out no record takes that it had keys in LMDB's order *)
(* only, which is part of the type invariant.                              *)
LEMMA RestoresTyped == Spec /\ []TypeOK => []RestoresBackup
  <1>1. Init => LoadInv
    BY DEF Init, LoadInv
  <1>2. LoadInv /\ IInv /\ DumpInv /\ [Next]_vars => LoadInv'
    BY NextLoad
  <1>3. LoadInv /\ TypeOK => RestoresBackup
    <2> SUFFICES ASSUME LoadInv, TypeOK, result = "loaded", calm,
                        \A k \in DOMAIN backup : Loadable(k, backup[k]),
                        NEW k \in DOMAIN backup
                 PROVE  k \in DOMAIN disk /\ disk[k] = backup[k]
      BY DEF RestoresBackup
    <2>1. Restored(disk, backup, Len(Order))
      BY DEF LoadInv, AllLoadable
    <2>2. k \in Keys
      BY DEF TypeOK, IsMap
    <2>3. PICK i \in 1 .. Len(Order) : Order[i] = k
      BY <2>2, OrderIs
    <2> QED
      BY <2>1, <2>3 DEF Restored
  <1> QED
    BY <1>1, <1>2, <1>3, DumpAlways, PTL DEF Spec

(* A dump whose records all fit a line, loaded undisturbed, puts every     *)
(* record back: for any contents, size of the buffer and keys of which     *)
(* none that db_load may cut from a line is missing, and whatever was in   *)
(* the database before.                                                    *)
THEOREM RestoresCorrect == ASSUME AllKeys PROVE Spec => []RestoresBackup
  BY TypeCorrect, RestoresTyped, PTL
=============================================================================
