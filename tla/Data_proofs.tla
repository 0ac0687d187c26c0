------------------------------ MODULE Data_proofs ------------------------------
(***************************************************************************)
(* What is proved of the data: the cached answers (QueryCache), for any    *)
(* processes and requests; the versions of metrics (Metrics) and the rows  *)
(* of their uses, for any transactions that overlap; the walk over the     *)
(* lineage, for any lineage; the page of a dashboard (Boards); and where   *)
(* the blocks of a canvas lie (Layout), for any canvas that the agent and  *)
(* the user lead to and any width of the page.                             *)
(***************************************************************************)
EXTENDS MCData, WellFoundedInduction, FiniteSetTheorems,
        SequenceTheorems, TLAPS

-----------------------------------------------------------------------------
(***************************************************************************)
(* Cached answers.                                                         *)
(***************************************************************************)
\* What is in Redis or about to be stored was computed after every clear that reached
\* all there was, whoever cleared; the copy of a process after its own.
CacheInv ==
    /\ CacheTypeOK
    /\ \A p \in Procs :
          /\ redis # 0 => redis >= cleared[p]
          /\ memory[p] # 0 => memory[p] >= cleared[p]
          /\ \A r \in Readers : reader[r].pc = "ran" /\ ~reader[r].forced
                                   => reader[r].val >= cleared[p]

LEMMA Nobody ==
    ASSUME NEW n \in Nat
    PROVE  NoReader \in [pc : {"idle", "run", "ran"}, proc : Procs, forced : BOOLEAN, val : 0 .. n]
<1> DEFINE q == CHOOSE p \in Procs : TRUE
<1>1. q \in Procs
  BY CacheAssumption
<1>2. NoReader = [pc |-> "idle", proc |-> q, forced |-> FALSE, val |-> 0]
  BY DEF NoReader
<1> HIDE DEF q
<1>3. 0 \in 0 .. n /\ FALSE \in BOOLEAN
  OBVIOUS
<1> QED
  BY <1>1, <1>2, <1>3

LEMMA CacheInitially == CacheInit => CacheInv
<1> SUFFICES ASSUME CacheInit PROVE CacheInv
  OBVIOUS
<1>1. NoReader.pc = "idle" /\ NoReader.val = 0
  BY DEF NoReader
<1>2. redisUp \in BOOLEAN
  BY DEF CacheInit
<1>3. data \in Versions \ {0}
  BY CacheAssumption DEF CacheInit, Versions
<1>4. reader \in [Readers -> [pc : {"idle", "run", "ran"}, proc : Procs, forced : BOOLEAN,
                              val : 0 .. data]]
  BY Nobody DEF CacheInit
<1>5. CacheTypeOK
  BY <1>1, <1>2, <1>3, <1>4 DEF CacheInit, CacheTypeOK
<1> QED
  BY <1>1, <1>5 DEF CacheInit, CacheInv

LEMMA AskKeeps ==
    ASSUME CacheInv, NEW r \in Readers, NEW p \in Procs, NEW forced \in BOOLEAN, Ask(r, p, forced)
    PROVE  CacheInv'
BY DEF CacheInv, CacheTypeOK, Ask

LEMMA SqlKeeps == ASSUME CacheInv, NEW r \in Readers, RunSql(r) PROVE CacheInv'
<1>1. NoReader \in [pc : {"idle", "run", "ran"}, proc : Procs, forced : BOOLEAN, val : 0 .. data]
  BY Nobody DEF CacheInv, CacheTypeOK, Versions
<1>2. CASE reader' = Failed(r)
  BY <1>1, <1>2 DEF CacheInv, CacheTypeOK, RunSql, Failed, NoReader
<1>3. CASE reader' = [reader EXCEPT ![r].pc = "ran", ![r].val = data]
  BY <1>3 DEF CacheInv, CacheTypeOK, RunSql, Versions
<1> QED
  BY <1>2, <1>3 DEF RunSql

LEMMA StoreKeeps == ASSUME CacheInv, NEW r \in Readers, Store(r) PROVE CacheInv'
<1>1. NoReader \in [pc : {"idle", "run", "ran"}, proc : Procs, forced : BOOLEAN, val : 0 .. data]
  BY Nobody DEF CacheInv, CacheTypeOK, Versions
<1>2. CacheTypeOK'
  BY <1>1 DEF CacheInv, CacheTypeOK, Store, NoReader
<1> QED
  BY <1>2 DEF CacheInv, CacheTypeOK, Store, NoReader

LEMMA ClearKeeps == ASSUME CacheInv, NEW p \in Procs, Clear(p) PROVE CacheInv'
<1>1. CacheTypeOK'
  BY DEF CacheInv, CacheTypeOK, Clear, ClearedMemory, Versions
<1>2. CASE Reaches
  BY <1>1, <1>2 DEF CacheInv, CacheTypeOK, Clear, ClearedMemory, Reaches, Versions
<1>3. CASE ~Reaches
  BY <1>1, <1>3 DEF CacheInv, CacheTypeOK, Clear, ClearedMemory
<1> QED
  BY <1>2, <1>3

LEMMA RestartKeeps == ASSUME CacheInv, NEW p \in Procs, ProcessRestart(p) PROVE CacheInv'
<1>1. NoReader \in [pc : {"idle", "run", "ran"}, proc : Procs, forced : BOOLEAN, val : 0 .. data]
  BY Nobody DEF CacheInv, CacheTypeOK, Versions
<1>2. CacheTypeOK'
  BY <1>1 DEF CacheInv, CacheTypeOK, ProcessRestart, NoReader
<1> QED
  BY <1>2 DEF CacheInv, CacheTypeOK, ProcessRestart, NoReader

LEMMA DataKeep == ASSUME CacheInv, DataChange \/ KeyExpires \/ Outage PROVE CacheInv'
<1>1. CASE DataChange
  BY <1>1, CacheAssumption DEF CacheInv, CacheTypeOK, DataChange, Versions
<1>2. CASE KeyExpires
  BY <1>2 DEF CacheInv, CacheTypeOK, KeyExpires, Versions
<1>3. CASE Outage
  <2>1. redisUp' \in BOOLEAN
    BY <1>3 DEF Outage
  <2>2. CacheTypeOK'
    BY <1>3, <2>1 DEF CacheInv, CacheTypeOK, Outage
  <2> QED
    BY <1>3, <2>2 DEF CacheInv, Outage
<1> QED
  BY <1>1, <1>2, <1>3

LEMMA CacheInvariant == CacheSpec => []CacheInv
<1>1. CacheInv /\ UNCHANGED cacheVars => CacheInv'
  BY DEF CacheInv, CacheTypeOK, cacheVars
<1>2. CacheInv /\ [CacheNext]_cacheVars => CacheInv'
  BY <1>1, AskKeeps, SqlKeeps, StoreKeeps, ClearKeeps, RestartKeeps, DataKeep DEF CacheNext
<1> QED
  BY <1>2, CacheInitially, PTL DEF CacheSpec

\* A cached answer is of data that there were.
THEOREM CacheTypeCorrect == CacheSpec => []CacheTypeOK
BY CacheInvariant, PTL DEF CacheInv

\* What a process finds after it cleared a source with Redis at hand is no older than
\* the clear, nor is what its requests will store.
THEOREM NothingFromBefore == CacheSpec => []ClearedHere
<1>1. CacheInv => ClearedHere
  BY DEF CacheInv, CacheTypeOK, ClearedHere, Cached
<1> QED
  BY <1>1, CacheInvariant, PTL

-----------------------------------------------------------------------------
(***************************************************************************)
(* Versions of metrics.                                                    *)
(***************************************************************************)
\* What a transaction keeps between its beginning and its end.
Creates == [op : {"create"}, metric : Ids, new : Rows]
Updates == [op : {"update"}, metric : Ids, read : Rows, new : Rows]
Publishes == [op : Numbering, metric : Ids, read : Rows, new : Rows, snapshot : Snapshots]

MetricsTyped ==
    /\ row \in [Ids -> Rows \cup {NoMetric}] /\ used \subseteq Ids
    /\ versions \in [Ids -> [Numbers -> Snapshots \cup {NoMetric}]]
    /\ begun \in 0 .. MaxTxns
    /\ txn \in [Txns -> {NoTxn} \cup Creates \cup Updates \cup Publishes]

\* An id is given once, to one row; the versions go with it.
IdsGiven ==
    \A m \in Ids : /\ Exists(m) => m \in used
                   /\ ~Exists(m) => \A n \in Numbers : versions[m][n] = NoMetric
KeysApart == \A m, n \in Ids : Exists(m) /\ Exists(n) /\ row[m].key = row[n].key => m = n

\* The id that is to be given to a new metric is nobody else's.
Creating ==
    \A t \in Txns : txn[t].op = "create" =>
        /\ txn[t].metric \notin used /\ txn[t].new.version = 1
        /\ \A s \in Txns \ {t} : txn[s] # NoTxn => txn[s].metric # txn[t].metric

\* What was read of a row that is still there had its key and no later version; only
\* the next version is written.
Changing ==
    \A t \in Txns : txn[t].op \in {"update"} \cup Numbering =>
        /\ txn[t].metric \in used /\ txn[t].new.key = txn[t].read.key
        /\ Exists(txn[t].metric) => /\ row[txn[t].metric].key = txn[t].read.key
                                    /\ row[txn[t].metric].version >= txn[t].read.version
        /\ txn[t].new.version = txn[t].read.version + (IF txn[t].op = "update" THEN 0 ELSE 1)

MetricsInv == MetricsTyped /\ IdsGiven /\ KeysApart /\ Creating /\ Changing /\ HistoryWhole

LEMMA MergedRows ==
    ASSUME NEW read \in Rows, NEW new \in Rows, NEW now \in Rows
    PROVE  /\ Merged(read, new, now) \in Rows
           /\ Merged(read, new, now).key = IF new.key = read.key THEN now.key ELSE new.key
           /\ Merged(read, new, now).version =
                  IF new.version = read.version THEN now.version ELSE new.version
<1>1. DOMAIN new = {"key", "refs", "deps", "version"}
  BY DEF Rows
<1>2. Merged(read, new, now) =
          [key |-> IF new.key = read.key THEN now.key ELSE new.key,
           refs |-> IF new.refs = read.refs THEN now.refs ELSE new.refs,
           deps |-> IF new.deps = read.deps THEN now.deps ELSE new.deps,
           version |-> IF new.version = read.version THEN now.version ELSE new.version]
  BY <1>1 DEF Merged
<1> QED
  BY <1>2 DEF Rows

LEMMA MetricsInitially == MetricsInit => MetricsInv
<1> SUFFICES ASSUME MetricsInit PROVE MetricsInv
  OBVIOUS
<1>1. MetricsTyped
  BY MetricsAssumption DEF MetricsInit, MetricsTyped
<1>2. IdsGiven /\ KeysApart /\ HistoryWhole
  BY DEF MetricsInit, IdsGiven, KeysApart, HistoryWhole, Exists
<1>3. Creating /\ Changing
  BY DEF MetricsInit, Creating, Changing, NoTxn, Numbering
<1> QED
  BY <1>1, <1>2, <1>3 DEF MetricsInv

\* A transaction begins: what the others know of the rows stays as it is.
LEMMA BeginKeeps ==
    ASSUME MetricsInv, NEW t \in Txns, NEW rec \in Creates \cup Updates \cup Publishes, Begin(t, rec),
           rec.op = "create" => /\ rec.metric \notin used /\ rec.new.version = 1
                                /\ \A s \in Txns : txn[s] # NoTxn => txn[s].metric # rec.metric,
           rec.op # "create" =>
               /\ rec.metric \in used /\ rec.read = row[rec.metric] /\ rec.new.key = rec.read.key
               /\ rec.new.version = rec.read.version + (IF rec.op = "update" THEN 0 ELSE 1)
    PROVE  MetricsInv'
<1>1. MetricsTyped'
  BY MetricsAssumption DEF MetricsInv, MetricsTyped, Begin
<1>2. IdsGiven' /\ KeysApart' /\ HistoryWhole'
  BY DEF MetricsInv, Begin, IdsGiven, KeysApart, HistoryWhole, Exists
<1>3. txn[t] = NoTxn /\ txn' = [txn EXCEPT ![t] = rec]
  BY DEF Begin
<1>4. txn'[t] = rec /\ \A s \in Txns \ {t} : txn'[s] = txn[s]
  BY <1>3 DEF MetricsInv, MetricsTyped
<1>5. Creating'
  <2> SUFFICES ASSUME NEW c \in Txns, txn'[c].op = "create"
               PROVE  /\ txn'[c].metric \notin used /\ txn'[c].new.version = 1
                      /\ \A s \in Txns \ {c} : txn'[s] # NoTxn => txn'[s].metric # txn'[c].metric
    BY DEF Creating, Begin
  <2>1. CASE c = t
    BY <1>4, <2>1
  <2>2. CASE c # t
    <3>1. /\ txn[c].op = "create" /\ txn[c].metric \notin used /\ txn[c].new.version = 1
          /\ \A s \in Txns \ {c} : txn[s] # NoTxn => txn[s].metric # txn[c].metric
      BY <1>4, <2>2 DEF MetricsInv, Creating
    <3>2. rec.metric # txn[c].metric
      BY <3>1 DEF NoTxn
    <3> QED
      BY <1>4, <2>2, <3>1, <3>2
  <2> QED
    BY <2>1, <2>2
<1>6. Changing'
  <2> SUFFICES ASSUME NEW c \in Txns, txn'[c].op \in {"update"} \cup Numbering
               PROVE  /\ txn'[c].metric \in used /\ txn'[c].new.key = txn'[c].read.key
                      /\ Exists(txn'[c].metric) =>
                             /\ row[txn'[c].metric].key = txn'[c].read.key
                             /\ row[txn'[c].metric].version >= txn'[c].read.version
                      /\ txn'[c].new.version =
                             txn'[c].read.version + (IF txn'[c].op = "update" THEN 0 ELSE 1)
    BY DEF Changing, Begin, Exists
  <2>1. CASE c = t
    <3>1. rec.op # "create"
      BY <1>4, <2>1 DEF Numbering
    <3>2. rec.read \in Rows
      BY <3>1 DEF Creates, Updates, Publishes
    <3> QED
      BY <1>4, <2>1, <3>1, <3>2 DEF Rows
  <2>2. CASE c # t
    BY <1>4, <2>2 DEF MetricsInv, Changing
  <2> QED
    BY <2>1, <2>2
<1> QED
  BY <1>1, <1>2, <1>5, <1>6 DEF MetricsInv

LEMMA CreateBegins ==
    ASSUME MetricsInv, NEW t \in Txns, NEW m \in Ids, NEW key \in Keys, NEW refs \in Formulas,
           BeginCreate(t, m, key, refs)
    PROVE  MetricsInv'
<1> DEFINE rec == [op |-> "create", metric |-> m,
                   new |-> [key |-> key, refs |-> refs, deps |-> OrNull(Inferred(refs)), version |-> 1]]
<1>1. OrNull(Inferred(refs)) \in Deps
  BY DEF OrNull, Inferred, Deps
<1>2. rec \in Creates
  BY <1>1, MetricsAssumption DEF Creates, Rows
<1>3. Begin(t, rec) /\ rec.metric \notin used /\ rec.new.version = 1 /\ rec.op = "create"
      /\ \A s \in Txns : txn[s] # NoTxn => txn[s].metric # rec.metric
  BY DEF BeginCreate
<1> HIDE DEF rec
<1> QED
  BY <1>2, <1>3, BeginKeeps

LEMMA UpdateBegins ==
    ASSUME MetricsInv, NEW t \in Txns, NEW m \in Ids, NEW refs \in Formulas, BeginUpdate(t, m, refs)
    PROVE  MetricsInv'
<1> DEFINE rec == [op |-> "update", metric |-> m, read |-> row[m],
                   new |-> [row[m] EXCEPT !.refs = refs, !.deps = OrNull(Inferred(refs))]]
<1>1. OrNull(Inferred(refs)) \in Deps
  BY DEF OrNull, Inferred, Deps
<1>2. row[m] \in Rows /\ m \in used
  BY DEF BeginUpdate, Exists, MetricsInv, MetricsTyped, IdsGiven
<1>3. rec \in Updates /\ rec.new.version = row[m].version /\ rec.new.key = row[m].key
  BY <1>1, <1>2 DEF Updates, Rows
<1>4. rec.op = "update" /\ rec.metric = m /\ rec.read = row[m]
  OBVIOUS
<1>5. Begin(t, rec)
  BY DEF BeginUpdate
<1> HIDE DEF rec
<1>6. rec.new.version = rec.read.version + 0
  BY <1>2, <1>3, <1>4 DEF Rows
<1> QED
  BY <1>2, <1>3, <1>4, <1>5, <1>6, BeginKeeps

LEMMA PublishBegins ==
    ASSUME MetricsInv, NEW t \in Txns, NEW m \in Ids, BeginPublish(t, m) PROVE MetricsInv'
<1> DEFINE rec == [op |-> "publish", metric |-> m, read |-> row[m],
                   new |-> [row[m] EXCEPT !.version = @ + 1],
                   snapshot |-> [refs |-> row[m].refs, deps |-> SetOf(row[m].deps)]]
<1>1. row[m] \in Rows /\ m \in used /\ row[m].version < MaxVersion
  BY DEF BeginPublish, Exists, MetricsInv, MetricsTyped, IdsGiven
<1>2. SetOf(row[m].deps) \in SUBSET Ids
  BY <1>1 DEF SetOf, Rows, Deps
<1>3. rec \in Publishes /\ rec.new.version = row[m].version + 1 /\ rec.new.key = row[m].key
  BY <1>1, <1>2, MetricsAssumption DEF Publishes, Rows, Snapshots, Numbering
<1>4. rec.op = "publish" /\ rec.metric = m /\ rec.read = row[m]
  OBVIOUS
<1>5. Begin(t, rec)
  BY DEF BeginPublish
<1> HIDE DEF rec
<1> QED
  BY <1>1, <1>3, <1>4, <1>5, BeginKeeps

LEMMA RollbackBegins ==
    ASSUME MetricsInv, NEW t \in Txns, NEW m \in Ids, NEW n \in Numbers, BeginRollback(t, m, n)
    PROVE  MetricsInv'
<1> DEFINE rec == [op |-> "rollback", metric |-> m, read |-> row[m],
                   new |-> [row[m] EXCEPT !.refs = versions[m][n].refs, !.deps = versions[m][n].deps,
                                          !.version = @ + 1],
                   snapshot |-> versions[m][n]]
<1>1. row[m] \in Rows /\ m \in used /\ row[m].version < MaxVersion /\ versions[m][n] \in Snapshots
  BY DEF BeginRollback, Exists, MetricsInv, MetricsTyped, IdsGiven
<1>2. /\ rec \in Publishes /\ rec.new.version = row[m].version + 1 /\ rec.new.key = row[m].key
  <2>1. versions[m][n].refs \in Formulas /\ versions[m][n].deps \in Deps
    BY <1>1 DEF Snapshots, Deps
  <2>2. row[m].version + 1 \in 1 .. MaxVersion
    BY <1>1, MetricsAssumption DEF Rows
  <2>3. rec.new \in Rows /\ rec.new.version = row[m].version + 1 /\ rec.new.key = row[m].key
    BY <1>1, <2>1, <2>2 DEF Rows
  <2> QED
    BY <1>1, <2>3 DEF Publishes, Numbering
<1>3. rec.op = "rollback" /\ rec.metric = m /\ rec.read = row[m]
  OBVIOUS
<1>4. Begin(t, rec)
  BY DEF BeginRollback
<1> HIDE DEF rec
<1> QED
  BY <1>1, <1>2, <1>3, <1>4, BeginKeeps

\* A transaction is over: the others go on with what they know.
LEMMA EndsTyped ==
    ASSUME MetricsInv, NEW t \in Txns, txn' = [txn EXCEPT ![t] = NoTxn]
    PROVE  /\ txn' \in [Txns -> {NoTxn} \cup Creates \cup Updates \cup Publishes]
           /\ \A s \in Txns \ {t} : txn'[s] = txn[s]
           /\ txn'[t].op \notin {"create", "update"} \cup Numbering
BY DEF MetricsInv, MetricsTyped, NoTxn, Numbering

LEMMA RollbackKeeps == ASSUME MetricsInv, NEW t \in Txns, Rollback(t) PROVE MetricsInv'
<1>1. /\ txn' \in [Txns -> {NoTxn} \cup Creates \cup Updates \cup Publishes]
      /\ \A s \in Txns \ {t} : txn'[s] = txn[s]
      /\ txn'[t].op \notin {"create", "update"} \cup Numbering /\ txn'[t] = NoTxn
  BY EndsTyped DEF Rollback, MetricsInv, MetricsTyped
<1>2. MetricsTyped' /\ IdsGiven' /\ KeysApart' /\ HistoryWhole'
  BY <1>1 DEF Rollback, MetricsInv, MetricsTyped, IdsGiven, KeysApart, HistoryWhole, Exists
<1>3. Creating'
  BY <1>1 DEF Rollback, MetricsInv, Creating
<1>4. Changing'
  BY <1>1 DEF Rollback, MetricsInv, Changing, Exists
<1> QED
  BY <1>2, <1>3, <1>4 DEF MetricsInv

LEMMA CreateCommits ==
    ASSUME MetricsInv, NEW t \in Txns, Commit(t), txn[t].op = "create" PROVE MetricsInv'
<1> DEFINE m == txn[t].metric
           new == txn[t].new
<1>1. /\ m \in Ids /\ new \in Rows /\ m \notin used /\ new.version = 1
      /\ \A s \in Txns \ {t} : txn[s] # NoTxn => txn[s].metric # m
      /\ txn[t] # NoTxn
  <2>1. txn[t] \in Creates
    BY DEF MetricsInv, MetricsTyped, NoTxn, Updates, Publishes, Numbering
  <2> QED
    BY <2>1 DEF MetricsInv, Creating, Creates, NoTxn
<1>2. /\ row' = [row EXCEPT ![m] = new] /\ used' = used \cup {m} /\ UNCHANGED <<versions, begun>>
      /\ \A n \in Ids : Exists(n) => row[n].key # new.key
      /\ txn' = [txn EXCEPT ![t] = NoTxn]
  BY DEF Commit, Fits, Numbered, Numbering
<1>3. /\ txn' \in [Txns -> {NoTxn} \cup Creates \cup Updates \cup Publishes]
      /\ \A s \in Txns \ {t} : txn'[s] = txn[s]
      /\ txn'[t].op \notin {"create", "update"} \cup Numbering /\ txn'[t] = NoTxn
  BY <1>2, EndsTyped DEF MetricsInv, MetricsTyped
<1> HIDE DEF m, new
<1>4. row \in [Ids -> Rows \cup {NoMetric}] /\ ~Exists(m) /\ NoMetric \notin Rows
  BY <1>1, MetricsAssumption DEF MetricsInv, MetricsTyped, IdsGiven
<1>5. MetricsTyped'
  BY <1>1, <1>2, <1>3, <1>4 DEF MetricsInv, MetricsTyped
<1>6. /\ row'[m] = new /\ new # NoMetric /\ \A n \in Ids \ {m} : row'[n] = row[n]
  BY <1>1, <1>2, <1>4
<1>7. IdsGiven'
  BY <1>1, <1>2, <1>6 DEF MetricsInv, IdsGiven, Exists
<1>8. KeysApart'
  BY <1>1, <1>2, <1>6 DEF MetricsInv, KeysApart, Exists
<1>9. HistoryWhole'
  <2>1. \A n \in Numbers : versions[m][n] = NoMetric
    BY <1>1, <1>4 DEF MetricsInv, IdsGiven
  <2>2. \A n \in Numbers : ~(n <= new.version)
    BY <1>1, MetricsAssumption DEF Numbers
  <2> QED
    BY <1>1, <1>2, <1>6, <2>1, <2>2 DEF MetricsInv, HistoryWhole, Exists
<1>10. Creating'
  BY <1>1, <1>2, <1>3 DEF MetricsInv, Creating, NoTxn
<1>11. Changing'
  BY <1>1, <1>2, <1>3, <1>6 DEF MetricsInv, Changing, Exists
<1> QED
  BY <1>5, <1>7, <1>8, <1>9, <1>10, <1>11 DEF MetricsInv

\* A change of a row is committed only if nobody else numbered a version in between.
LEMMA ChangeCommits ==
    ASSUME MetricsInv, NEW t \in Txns, Commit(t), txn[t].op # "create" PROVE MetricsInv'
<1> DEFINE m == txn[t].metric
           new == txn[t].new
           read == txn[t].read
           old == row[m]
<1>1. txn[t] \in Updates \cup Publishes /\ txn[t].op \in {"update"} \cup Numbering
  BY DEF Commit, MetricsInv, MetricsTyped, NoTxn, Creates, Updates, Publishes
<1>2. /\ m \in Ids /\ read \in Rows /\ new \in Rows /\ Exists(m) /\ m \in used
      /\ new.key = read.key /\ old.key = read.key /\ old.version >= read.version
      /\ new.version = read.version + (IF txn[t].op = "update" THEN 0 ELSE 1)
  BY <1>1 DEF Commit, Fits, MetricsInv, Changing, Updates, Publishes
<1>3. /\ row' = [row EXCEPT ![m] = Merged(read, new, old)] /\ UNCHANGED begun
      /\ txn' = [txn EXCEPT ![t] = NoTxn] /\ used' = used \cup {m}
  BY DEF Commit
<1>4. used' = used
  BY <1>2, <1>3
<1>5. /\ txn' \in [Txns -> {NoTxn} \cup Creates \cup Updates \cup Publishes]
      /\ \A s \in Txns \ {t} : txn'[s] = txn[s]
      /\ txn'[t].op \notin {"create", "update"} \cup Numbering /\ txn'[t] = NoTxn
  BY <1>3, EndsTyped DEF MetricsInv, MetricsTyped
<1>6. old \in Rows /\ row \in [Ids -> Rows \cup {NoMetric}] /\ NoMetric \notin Rows \cup Snapshots
  BY <1>2, MetricsAssumption DEF MetricsInv, MetricsTyped, Exists
<1>7. /\ row'[m] \in Rows /\ row'[m].key = old.key
      /\ row'[m].version = IF txn[t].op = "update" THEN old.version ELSE read.version + 1
      /\ \A n \in Ids \ {m} : row'[n] = row[n]
      /\ row' \in [Ids -> Rows \cup {NoMetric}]
  <2>1. /\ row'[m] = Merged(read, new, old) /\ \A n \in Ids \ {m} : row'[n] = row[n]
    BY <1>2, <1>3, <1>6
  <2>2. /\ Merged(read, new, old) \in Rows /\ Merged(read, new, old).key = old.key
        /\ Merged(read, new, old).version =
               IF new.version = read.version THEN old.version ELSE new.version
    BY <1>2, <1>6, MergedRows
  <2>3. new.version = read.version <=> txn[t].op = "update"
    BY <1>2 DEF Rows
  <2>4. txn[t].op # "update" => new.version = read.version + 1
    BY <1>2
  <2>5. row' \in [Ids -> Rows \cup {NoMetric}]
    BY <1>2, <1>3, <1>6, <2>2
  <2> QED
    BY <2>1, <2>2, <2>3, <2>4, <2>5
\* Versions: one more, the next one, or as they were.
<1>8. /\ versions' \in [Ids -> [Numbers -> Snapshots \cup {NoMetric}]]
      /\ \A k \in Ids \ {m} : versions'[k] = versions[k]
      /\ \A n \in Numbers : versions'[m][n] # NoMetric <=> n <= row'[m].version
      /\ row'[m].version >= old.version
  <2>1. \A n \in Numbers : versions[m][n] # NoMetric <=> n <= old.version
    BY <1>2 DEF MetricsInv, HistoryWhole
  <2>2. CASE txn[t].op = "update"
    <3>1. versions' = versions
      BY <2>2 DEF Commit, Numbered, Numbering
    <3> QED
      BY <1>2, <1>6, <1>7, <2>1, <2>2, <3>1 DEF MetricsInv, MetricsTyped, Rows
  <2>3. CASE txn[t].op # "update"
    <3>1. /\ versions' = [versions EXCEPT ![m][new.version] = txn[t].snapshot]
          /\ versions[m][new.version] = NoMetric
      BY <1>1, <2>3 DEF Commit, Fits, Numbered
    <3>2. txn[t].snapshot \in Snapshots
      BY <1>1, <2>3 DEF Updates, Publishes
    <3>3. new.version = read.version + 1 /\ new.version \in Numbers
      BY <1>2, <2>3 DEF Rows, Numbers
    <3>4. ~(new.version <= old.version)
      BY <2>1, <3>1, <3>3
    <3>5. old.version = read.version
      BY <1>2, <1>6, <3>3, <3>4 DEF Rows
    <3>6. row'[m].version = new.version /\ new.version = old.version + 1
      BY <1>7, <2>3, <3>3, <3>5
    <3>7. /\ versions' \in [Ids -> [Numbers -> Snapshots \cup {NoMetric}]]
          /\ \A k \in Ids \ {m} : versions'[k] = versions[k]
          /\ versions'[m][new.version] = txn[t].snapshot
          /\ \A n \in Numbers \ {new.version} : versions'[m][n] = versions[m][n]
      BY <1>2, <3>1, <3>2, <3>3 DEF MetricsInv, MetricsTyped
    <3>8. txn[t].snapshot # NoMetric
      BY <1>6, <3>2
    <3>9. old.version \in Int /\ row'[m].version >= old.version
      BY <1>6, <3>6 DEF Rows
    <3>10. ASSUME NEW n \in Numbers PROVE versions'[m][n] # NoMetric <=> n <= row'[m].version
      <4>1. CASE n = new.version
        <5>1. versions'[m][n] # NoMetric
          BY <3>7, <3>8, <4>1
        <5>2. n <= row'[m].version
          BY <3>6, <3>9, <4>1
        <5> QED
          BY <5>1, <5>2
      <4>2. CASE n # new.version
        <5>1. versions'[m][n] # NoMetric <=> n <= old.version
          BY <2>1, <3>7, <4>2
        <5>2. n \in Int
          BY DEF Numbers
        <5> QED
          BY <3>6, <3>9, <4>2, <5>1, <5>2
      <4> QED
        BY <4>1, <4>2
    <3> QED
      BY <3>7, <3>9, <3>10
  <2> QED
    BY <2>2, <2>3
<1> HIDE DEF m, new, read, old
<1>9. row[m] = old
  BY DEF old
<1>10. MetricsTyped'
  BY <1>3, <1>4, <1>5, <1>7, <1>8 DEF MetricsInv, MetricsTyped
<1>11. IdsGiven' /\ KeysApart'
  <2>1. IdsGiven'
    BY <1>2, <1>4, <1>6, <1>7, <1>8 DEF MetricsInv, IdsGiven, Exists
  <2>2. \A k \in Ids : /\ row'[k] # NoMetric => Exists(k)
                       /\ row'[k] # NoMetric => row'[k].key = row[k].key
    BY <1>2, <1>7, <1>9 DEF Exists
  <2>3. ASSUME NEW a \in Ids, NEW b \in Ids, row'[a] # NoMetric, row'[b] # NoMetric,
               row'[a].key = row'[b].key
        PROVE  a = b
    <3>1. Exists(a) /\ Exists(b) /\ row[a].key = row[b].key
      BY <2>2, <2>3
    <3> QED
      BY <3>1 DEF MetricsInv, KeysApart
  <2> QED
    BY <2>1, <2>3 DEF KeysApart, Exists
<1>12. HistoryWhole'
  BY <1>2, <1>7, <1>8 DEF MetricsInv, HistoryWhole, Exists
<1>13. Creating'
  BY <1>4, <1>5 DEF MetricsInv, Creating
<1>14. Changing'
  <2> SUFFICES ASSUME NEW c \in Txns, txn'[c].op \in {"update"} \cup Numbering
               PROVE  /\ txn'[c].metric \in used' /\ txn'[c].new.key = txn'[c].read.key
                      /\ row'[txn'[c].metric] # NoMetric =>
                             /\ row'[txn'[c].metric].key = txn'[c].read.key
                             /\ row'[txn'[c].metric].version >= txn'[c].read.version
                      /\ txn'[c].new.version =
                             txn'[c].read.version + (IF txn'[c].op = "update" THEN 0 ELSE 1)
    BY DEF Changing, Exists
  <2>1. c # t /\ txn'[c] = txn[c]
    BY <1>5
  <2>2. txn[c] \in Updates \cup Publishes
    BY <2>1 DEF MetricsInv, MetricsTyped, NoTxn, Creates, Numbering
  <2>3. txn[c].metric \in Ids /\ txn[c].read \in Rows
    BY <2>2 DEF Updates, Publishes
  <2>4. /\ txn[c].metric \in used /\ txn[c].new.key = txn[c].read.key
        /\ Exists(txn[c].metric) =>
               /\ row[txn[c].metric].key = txn[c].read.key
               /\ row[txn[c].metric].version >= txn[c].read.version
        /\ txn[c].new.version = txn[c].read.version + (IF txn[c].op = "update" THEN 0 ELSE 1)
    BY <2>1 DEF MetricsInv, Changing
  <2>5. CASE txn[c].metric = m
    <3>1. old.key = txn[c].read.key /\ old.version >= txn[c].read.version
      BY <1>2, <1>9, <2>4, <2>5
    <3>2. row'[m].version >= txn[c].read.version
      BY <1>6, <1>7, <1>8, <2>3, <3>1 DEF Rows
    <3> QED
      BY <1>4, <1>7, <2>1, <2>4, <2>5, <3>1, <3>2
  <2>6. CASE txn[c].metric # m
    <3>1. row'[txn[c].metric] = row[txn[c].metric]
      BY <1>7, <2>3, <2>6
    <3> QED
      BY <1>4, <2>1, <2>4, <3>1 DEF Exists
  <2> QED
    BY <2>5, <2>6
<1> QED
  BY <1>10, <1>11, <1>12, <1>13, <1>14 DEF MetricsInv

LEMMA DeleteKeeps == ASSUME MetricsInv, NEW m \in Ids, Delete(m) PROVE MetricsInv'
<1>1. /\ row' = [row EXCEPT ![m] = NoMetric] /\ UNCHANGED <<used, txn, begun>>
      /\ versions' = [versions EXCEPT ![m] = [n \in Numbers |-> NoMetric]] /\ Exists(m)
  BY DEF Delete
<1>2. MetricsTyped'
  BY <1>1 DEF MetricsInv, MetricsTyped
<1>3. /\ row'[m] = NoMetric /\ \A n \in Numbers : versions'[m][n] = NoMetric
      /\ \A k \in Ids \ {m} : row'[k] = row[k] /\ versions'[k] = versions[k]
  BY <1>1 DEF MetricsInv, MetricsTyped
<1>4. IdsGiven' /\ KeysApart' /\ HistoryWhole'
  BY <1>1, <1>3 DEF MetricsInv, IdsGiven, KeysApart, HistoryWhole, Exists
<1>5. Creating'
  BY <1>1 DEF MetricsInv, Creating
<1>6. Changing'
  <2>1. \A t \in Txns : txn[t].op \in {"update"} \cup Numbering => txn[t].metric \in Ids
    BY DEF MetricsInv, MetricsTyped, NoTxn, Creates, Updates, Publishes, Numbering
  <2> QED
    BY <1>1, <1>3, <2>1 DEF MetricsInv, Changing, Exists
<1> QED
  BY <1>2, <1>4, <1>5, <1>6 DEF MetricsInv

LEMMA MetricsInvariant == MetricsSpec => []MetricsInv
<1>1. MetricsInv /\ UNCHANGED metricsVars => MetricsInv'
  BY DEF MetricsInv, MetricsTyped, IdsGiven, KeysApart, Creating, Changing, HistoryWhole, Exists,
         metricsVars
<1>2. ASSUME MetricsInv, NEW t \in Txns, Commit(t) PROVE MetricsInv'
  BY <1>2, CreateCommits, ChangeCommits
<1>3. MetricsInv /\ [MetricsNext]_metricsVars => MetricsInv'
  BY <1>1, <1>2, CreateBegins, UpdateBegins, PublishBegins, RollbackBegins, RollbackKeeps, DeleteKeeps
     DEF MetricsNext
<1> QED
  BY <1>3, MetricsInitially, PTL DEF MetricsSpec

\* A metric's row, its transactions and its versions have their values, an id and a
\* key name one metric.
THEOREM MetricsTypeCorrect == MetricsSpec => []MetricsTypeOK
<1>1. MetricsInv => MetricsTypeOK
  BY DEF MetricsInv, MetricsTyped, IdsGiven, KeysApart, MetricsTypeOK, Creates, Updates, Publishes
<1> QED
  BY <1>1, MetricsInvariant, PTL

\* The versions of a metric are numbered without a gap up to the one its row names,
\* however publishing, rolling back, updating and deleting overlap.
THEOREM VersionsAreWhole == MetricsSpec => []HistoryWhole
BY MetricsInvariant, PTL DEF MetricsInv

\* Nobody changes a version that was published while its metric lives.
THEOREM VersionsStand == MetricsSpec => HistoryStands
<1> DEFINE Stands == \A m \in Ids, n \in Numbers :
               versions[m][n] # NoMetric /\ Exists(m)' => versions'[m][n] = versions[m][n]
<1>1. ASSUME MetricsInv, NEW t \in Txns, Commit(t) PROVE Stands
  <2>1. CASE Numbered(t)
    <3>1. txn[t].op \in Numbering /\ versions[txn[t].metric][txn[t].new.version] = NoMetric
      BY <1>1, <2>1 DEF Commit, Fits, Numbered
    <3>2. versions' = [versions EXCEPT ![txn[t].metric][txn[t].new.version] = txn[t].snapshot]
      BY <1>1, <2>1 DEF Commit
    <3> QED
      BY <3>1, <3>2 DEF MetricsInv, MetricsTyped
  <2>2. CASE ~Numbered(t)
    BY <1>1, <2>2 DEF Commit
  <2> QED
    BY <2>1, <2>2
<1>2. ASSUME MetricsInv, NEW m \in Ids, Delete(m) PROVE Stands
  BY <1>2 DEF Delete, MetricsInv, MetricsTyped, Exists
<1>3. ASSUME UNCHANGED versions PROVE Stands
  BY <1>3
<1>4. ASSUME NEW t \in Txns, NEW rec, Begin(t, rec) PROVE Stands
  BY <1>3, <1>4 DEF Begin
<1>5. MetricsInv /\ [MetricsNext]_metricsVars => [Stands]_metricsVars
  <2> SUFFICES ASSUME MetricsInv, MetricsNext PROVE Stands
    OBVIOUS
  <2> HIDE DEF Stands
  <2>1. CASE \E t \in Txns : Commit(t) \/ Rollback(t)
    BY <1>1, <1>3, <2>1 DEF Rollback
  <2>2. CASE \E m \in Ids : Delete(m)
    BY <1>2, <2>2
  <2>3. CASE \E t \in Txns, m \in Ids :
                 \/ \E key \in Keys, refs \in Formulas : BeginCreate(t, m, key, refs)
                 \/ \E refs \in Formulas : BeginUpdate(t, m, refs)
                 \/ BeginPublish(t, m) \/ \E n \in Numbers : BeginRollback(t, m, n)
    BY <1>4, <2>3 DEF BeginCreate, BeginUpdate, BeginPublish, BeginRollback
  <2> QED
    BY <2>1, <2>2, <2>3 DEF MetricsNext
<1> QED
  BY <1>5, MetricsInvariant, PTL DEF MetricsSpec, HistoryStands

-----------------------------------------------------------------------------
(***************************************************************************)
(* Induction, by the least counterexample.                                 *)
(***************************************************************************)
LEMMA Least ==
    ASSUME NEW T \in SUBSET Nat, T # {}
    PROVE  \E m \in T : \A k \in T : m <= k
<1>1. PICK m \in T : \A k \in T : <<k, m>> \notin OpToRel(<, Nat)
  BY WFMin, NatLessThanWellFounded, Zenon
<1>2. \A k \in T : ~(k < m)
  BY <1>1, Zenon DEF OpToRel
<1> QED
  BY <1>2

-----------------------------------------------------------------------------
(***************************************************************************)
(* The walk over the lineage.                                              *)
(***************************************************************************)
Rounds == Cardinality(Ids) + 1

LEMMA Finite == IsFiniteSet(Ids) /\ Cardinality(Ids) \in Nat /\ Rounds \in Nat
BY MetricsAssumption, FS_CardinalityType DEF Rounds

\* The definition of the loop defines one.
LEMMA WalkSteps ==
    ASSUME NEW root
    PROVE  /\ Walk(root)[0] = [queue |-> {root}, seen |-> {}]
           /\ \A n \in 1 .. Rounds : Walk(root)[n] = Followed(Walk(root)[n - 1])
<1> DEFINE start == [queue |-> {root}, seen |-> {}]
           LoopTo(f, m) == f = [n \in 0 .. m |-> IF n = 0 THEN start ELSE Followed(f[n - 1])]
           Bad == {m \in Nat : ~ \E f : LoopTo(f, m)}
<1> HIDE DEF start
<1>1. ASSUME Bad # {} PROVE FALSE
  <2>1. PICK m \in Bad : \A k \in Bad : m <= k
    BY <1>1, Least
  <2>2. CASE m = 0
    <3> DEFINE f == [n \in 0 .. 0 |-> start]
    <3>1. LoopTo(f, 0)
      OBVIOUS
    <3> QED
      BY <2>1, <2>2, <3>1
  <2>3. CASE m # 0
    <3>1. m - 1 \in Nat /\ m - 1 \notin Bad
      BY <2>1, <2>3
    <3>2. PICK f : LoopTo(f, m - 1)
      BY <3>1
    <3> DEFINE g == [n \in 0 .. m |-> IF n = m THEN Followed(f[m - 1]) ELSE f[n]]
    <3>3. LoopTo(g, m)
      <4>1. \A n \in 0 .. m - 1 : f[n] = IF n = 0 THEN start ELSE Followed(f[n - 1])
        BY <3>2
      <4>2. \A n \in 0 .. m : g[n] = IF n = 0 THEN start ELSE Followed(g[n - 1])
        BY <2>1, <2>3, <4>1
      <4> QED
        BY <4>2
    <3> QED
      BY <2>1, <3>3
  <2> QED
    BY <2>2, <2>3
<1>2. \E f : LoopTo(f, Rounds)
  BY <1>1, Finite
<1>3. Walk(root) = CHOOSE f : LoopTo(f, Rounds)
  BY Zenon DEF Walk, Rounds, start
<1>4. LoopTo(Walk(root), Rounds)
  BY <1>2, <1>3, Zenon
<1>5. \A n \in 0 .. Rounds :
         Walk(root)[n] = IF n = 0 THEN start ELSE Followed(Walk(root)[n - 1])
  BY <1>4
<1> QED
  BY <1>5, Finite DEF start

Childish == \A m \in Ids : Children(m) \in SUBSET Ids

\* What is seen is reached, and what was seen and is not waited for was followed.
Walked(s, root) ==
    /\ s.queue \in SUBSET Ids /\ s.seen \in SUBSET Reached(root)
    /\ s.queue \subseteq s.seen \cup {root}
    /\ \A k \in (s.seen \cup {root}) \ s.queue : Children(k) \subseteq s.seen

\* What the loop may still do.
Left(s) == Cardinality(s.queue) + Cardinality(Ids \ s.seen)

LEMMA ReachedIsClosed ==
    ASSUME Childish, NEW root \in Ids
    PROVE  Reached(root) \subseteq Ids /\ Children(root) \subseteq Reached(root) /\ Closed(Reached(root))
<1>1. Reached(root) \subseteq Ids /\ Children(root) \subseteq Reached(root)
  BY DEF Reached, Childish
<1>2. ASSUME NEW k \in Reached(root), NEW m \in Children(k) PROVE m \in Reached(root)
  <2>1. m \in Ids
    BY <1>1, <1>2 DEF Childish
  <2>2. ASSUME NEW ids \in SUBSET Ids, Children(root) \subseteq ids, Closed(ids) PROVE m \in ids
    <3>1. k \in ids
      BY <1>2, <2>2 DEF Reached
    <3> QED
      BY <1>2, <2>2, <3>1 DEF Closed
  <2> QED
    BY <2>1, <2>2 DEF Reached
<1> QED
  BY <1>1, <1>2 DEF Closed

\* One round of the loop.
LEMMA FollowedWalks ==
    ASSUME Childish, NEW root \in Ids, NEW s, Walked(s, root), s.queue # {}
    PROVE  Walked(Followed(s), root) /\ Left(Followed(s)) <= Left(s) - 1 /\ Left(s) \in Nat
<1> DEFINE m == CHOOSE q \in s.queue : TRUE
           fresh == Children(m) \ s.seen
           t == Followed(s)
<1>1. m \in s.queue /\ m \in Ids
  BY DEF Walked
<1>2. t = [queue |-> (s.queue \ {m}) \cup fresh, seen |-> s.seen \cup Children(m)]
  BY DEF Followed, Fresh
<1> HIDE DEF m, t
<1>3. t.queue = (s.queue \ {m}) \cup fresh /\ t.seen = s.seen \cup Children(m)
  BY <1>2
<1>4. Children(m) \in SUBSET Ids /\ s.queue \in SUBSET Ids /\ s.seen \in SUBSET Ids
  BY <1>1, ReachedIsClosed DEF Walked, Childish
<1>5. Children(m) \subseteq Reached(root)
  BY <1>1, ReachedIsClosed DEF Walked, Closed
<1>6. Walked(t, root)
  <2>1. t.queue \in SUBSET Ids /\ t.seen \in SUBSET Reached(root)
    BY <1>3, <1>4, <1>5 DEF Walked
  <2>2. t.queue \subseteq t.seen \cup {root}
    BY <1>3 DEF Walked
  <2>3. ASSUME NEW k \in (t.seen \cup {root}) \ t.queue PROVE Children(k) \subseteq t.seen
    <3>1. CASE k = m
      BY <1>3, <3>1
    <3>2. CASE k # m
      <4>1. k \in (s.seen \cup {root}) \ s.queue
        BY <1>3, <2>3, <3>2
      <4> QED
        BY <1>3, <4>1 DEF Walked
    <3> QED
      BY <3>1, <3>2
  <2> QED
    BY <2>1, <2>2, <2>3 DEF Walked
<1>7. /\ IsFiniteSet(s.queue) /\ IsFiniteSet(fresh) /\ IsFiniteSet(Ids \ s.seen) /\ IsFiniteSet(s.queue \ {m})
      /\ fresh \in SUBSET (Ids \ s.seen)
  <2>1. fresh \in SUBSET (Ids \ s.seen) /\ Ids \ s.seen \in SUBSET Ids /\ s.queue \ {m} \in SUBSET Ids
    BY <1>4
  <2>2. fresh \in SUBSET Ids
    BY <2>1
  <2> QED
    BY <1>4, <2>1, <2>2, Finite, FS_Subset
<1> HIDE DEF fresh
<1>8. Cardinality(s.queue \ {m}) = Cardinality(s.queue) - 1
  BY <1>1, <1>7, FS_RemoveElement
<1>9. Cardinality(t.queue) <= Cardinality(s.queue) - 1 + Cardinality(fresh)
  <2>1. Cardinality(t.queue) = Cardinality(s.queue \ {m}) + Cardinality(fresh)
                                 - Cardinality((s.queue \ {m}) \cap fresh)
    BY <1>3, <1>7, FS_Union
  <2>2. Cardinality((s.queue \ {m}) \cap fresh) \in Nat
    <3>1. (s.queue \ {m}) \cap fresh \in SUBSET fresh
      OBVIOUS
    <3> QED
      BY <3>1, <1>7, FS_Subset, FS_CardinalityType
  <2>3. Cardinality(s.queue) \in Nat /\ Cardinality(fresh) \in Nat
    BY <1>7, FS_CardinalityType
  <2> QED
    BY <1>8, <2>1, <2>2, <2>3
<1>10. Cardinality(Ids \ t.seen) = Cardinality(Ids \ s.seen) - Cardinality(fresh)
  <2>1. Ids \ t.seen = (Ids \ s.seen) \ fresh
    BY <1>3, <1>4 DEF fresh
  <2>2. (Ids \ s.seen) \cap fresh = fresh
    BY <1>7
  <2>3. Cardinality((Ids \ s.seen) \ fresh)
          = Cardinality(Ids \ s.seen) - Cardinality((Ids \ s.seen) \cap fresh)
    BY <1>7, FS_Difference
  <2> QED
    BY <2>1, <2>2, <2>3
<1>11. /\ Cardinality(s.queue) \in Nat /\ Cardinality(fresh) \in Nat /\ Cardinality(Ids \ s.seen) \in Nat
       /\ Cardinality(t.queue) \in Nat
  <2>1. IsFiniteSet(t.queue)
    BY <1>6, Finite, FS_Subset DEF Walked
  <2> QED
    BY <1>7, <2>1, FS_CardinalityType
<1>12. Left(t) <= Left(s) - 1 /\ Left(s) \in Nat
  BY <1>9, <1>10, <1>11 DEF Left
<1> QED
  BY <1>6, <1>12 DEF t

\* The loop ends within its rounds, and where it ends everything reached was seen.
LEMMA ResolveReaches ==
    ASSUME Childish, NEW root \in Ids
    PROVE  Resolve(root).queue = {} /\ Resolve(root).seen = Reached(root)
<1> DEFINE at(n) == Walk(root)[n]
           Good(n) == Walked(at(n), root) /\ (at(n).queue = {} \/ Left(at(n)) + n <= Rounds)
           Bad == {n \in 0 .. Rounds : ~Good(n)}
<1>1. Good(0)
  <2>1. at(0) = [queue |-> {root}, seen |-> {}]
    BY WalkSteps
  <2>2. at(0).queue = {root} /\ at(0).seen = {}
    BY <2>1
  <2>3. Walked(at(0), root)
    BY <2>2 DEF Walked
  <2>4. Left(at(0)) = Rounds
    <3>1. Cardinality({root}) = 1 /\ Ids \ {} = Ids
      BY FS_Singleton
    <3> QED
      BY <2>2, <3>1, Finite DEF Left, Rounds
  <2> QED
    BY <2>3, <2>4, Finite
<1>2. ASSUME NEW n \in 1 .. Rounds, Good(n - 1) PROVE Good(n)
  <2>1. at(n) = Followed(at(n - 1)) /\ n \in Int
    <3>1. \A k \in 1 .. Rounds : Walk(root)[k] = Followed(Walk(root)[k - 1])
      BY WalkSteps
    <3> QED
      BY <3>1
  <2>2. CASE at(n - 1).queue = {}
    <3>1. at(n) = at(n - 1)
      BY <2>1, <2>2 DEF Followed
    <3> QED
      BY <1>2, <2>2, <3>1
  <2>3. CASE at(n - 1).queue # {}
    <3>1. /\ Walked(at(n), root) /\ Left(at(n)) <= Left(at(n - 1)) - 1 /\ Left(at(n - 1)) \in Nat
      BY <1>2, <2>1, <2>3, FollowedWalks
    <3>2. Left(at(n)) \in Int
      <4>1. at(n).queue \in SUBSET Ids /\ Ids \ at(n).seen \in SUBSET Ids
        BY <3>1 DEF Walked
      <4> QED
        BY <4>1, Finite, FS_Subset, FS_CardinalityType DEF Left
    <3> QED
      BY <1>2, <2>1, <2>3, <3>1, <3>2, Finite
  <2> QED
    BY <2>2, <2>3
<1> HIDE DEF Good
<1>3. Bad = {}
  <2> SUFFICES ASSUME Bad # {} PROVE FALSE
    OBVIOUS
  <2>1. PICK n \in Bad : \A k \in Bad : n <= k
    <3>1. Bad \in SUBSET Nat
      OBVIOUS
    <3> QED
      BY <3>1, Least
  <2>2. n # 0 /\ n \in 0 .. Rounds
    BY <1>1, <2>1
  <2>3. n \in 1 .. Rounds /\ n - 1 \in 0 .. Rounds /\ ~(n <= n - 1)
    BY <2>2, Finite
  <2>4. Good(n - 1)
    BY <2>1, <2>3
  <2> QED
    BY <1>2, <2>1, <2>3, <2>4
<1>4. Good(Rounds)
  BY <1>3, Finite
<1> USE DEF Good
<1>5. Walked(at(Rounds), root)
  BY <1>4
<1>6. at(Rounds).queue = {}
  <2> SUFFICES ASSUME at(Rounds).queue # {} PROVE FALSE
    OBVIOUS
  <2>1. Left(at(Rounds)) + Rounds <= Rounds
    BY <1>4
  <2>2. /\ IsFiniteSet(at(Rounds).queue) /\ IsFiniteSet(Ids \ at(Rounds).seen)
    <3>1. at(Rounds).queue \in SUBSET Ids /\ Ids \ at(Rounds).seen \in SUBSET Ids
      BY <1>5 DEF Walked
    <3> QED
      BY <3>1, Finite, FS_Subset
  <2>3. Cardinality(at(Rounds).queue) \in Nat /\ Cardinality(Ids \ at(Rounds).seen) \in Nat
    BY <2>2, FS_CardinalityType
  <2>4. Cardinality(at(Rounds).queue) = 0
    BY <2>1, <2>3, Finite DEF Left
  <2> QED
    BY <2>2, <2>4, FS_EmptySet
<1>7. at(Rounds).seen = Reached(root)
  <2>1. at(Rounds).seen \in SUBSET Ids
    BY <1>5, ReachedIsClosed DEF Walked
  <2>2. Children(root) \subseteq at(Rounds).seen /\ Closed(at(Rounds).seen)
    BY <1>5, <1>6 DEF Walked, Closed
  <2>3. Reached(root) \subseteq at(Rounds).seen
    BY <2>1, <2>2 DEF Reached
  <2> QED
    BY <1>5, <2>3 DEF Walked
<1>8. Resolve(root) = at(Rounds)
  BY DEF Resolve, Rounds
<1> QED
  BY <1>6, <1>7, <1>8

LEMMA TypedChildren == MetricsTypeOK => Childish
<1> SUFFICES ASSUME MetricsTypeOK, NEW m \in Ids PROVE Children(m) \in SUBSET Ids
  BY DEF Childish
<1>1. CASE Exists(m)
  <2>1. row[m].deps \in Deps
    BY <1>1 DEF MetricsTypeOK, Exists, Rows
  <2> QED
    BY <1>1, <2>1 DEF Children, SetOf, Deps
<1>2. CASE ~Exists(m)
  BY <1>2 DEF Children
<1> QED
  BY <1>1, <1>2

\* resolve_dependencies ends, on cycles too, and finds all a metric depends on and
\* nothing else, whatever the lineage has become and in whatever order it is followed.
THEOREM WalkFindsAll == MetricsSpec => []WalkIsReach
<1>1. MetricsTypeOK => WalkIsReach
  BY TypedChildren, ResolveReaches DEF WalkIsReach
<1> QED
  BY <1>1, MetricsTypeCorrect, PTL

-----------------------------------------------------------------------------
(***************************************************************************)
(* Uses of metrics.                                                        *)
(***************************************************************************)
\* What a request keeps while it runs.
Alters == [op : {"change"}, place : UsedMetrics, at : {"checked"}]
Listing ==
    [op : {"put", "add"}, place : Places, at : {"loaded", "saved", "checked"},
     read : SUBSET UsedMetrics, target : SUBSET UsedMetrics, locks : BOOLEAN,
     ins : SUBSET UsedMetrics, rows : SUBSET (Canvases \X UsedMetrics)]

UsesTyped ==
    /\ metrics \subseteq UsedMetrics /\ tasks \subseteq Boards /\ owed \subseteq Boards
    /\ blocks \in [Canvases -> SUBSET UsedMetrics] /\ charts \in [Boards -> SUBSET UsedMetrics]
    /\ usage \in [Places -> [UsedMetrics -> Nat]] /\ made \in 0 .. MaxRequests
    /\ excused \in [Canvases -> SUBSET UsedMetrics]
    /\ request \in [Requests -> {NoRequest} \cup Alters \cup Listing]

\* A request takes rows only of metrics it drops and adds only metrics it lists; one
\* that does not lock its canvas drops none.
Dropping ==
    \A s \in Requests : request[s].op \in {"put", "add"} =>
        LET r == request[s] IN
        /\ r.ins \subseteq r.target /\ r.rows \subseteq Canvases \X (r.read \ r.target)
        /\ r.op = "put" => r.place \in Canvases /\ (r.locks \/ r.read = r.target)
        /\ r.op = "add" => r.place \in Boards /\ r.read = {}

\* Who holds the lock of a canvas's row.
Holds(s, c) ==
    request[s].op = "put" /\ request[s].place = c /\ request[s].locks /\ request[s].at # "loaded"
OneHolds == \A c \in Canvases, s, q \in Requests : Holds(s, c) /\ Holds(q, c) => s = q

\* What a request that holds the lock found listed still is, or another canvas has
\* unlisted it since; what it did not find it will add.
Looked ==
    \A s \in Requests, c \in Canvases : Holds(s, c) /\ request[s].at = "checked" =>
        \A m \in request[s].target \cap metrics :
            m \in request[s].ins \/ usage[c][m] > 0 \/ m \in excused[c]

UsesInv == UsesTyped /\ Dropping /\ OneHolds /\ Looked /\ SavedIsListed

LEMMA RequestKinds ==
    ASSUME UsesTyped, NEW s \in Requests
    PROVE  /\ request[s].op \in {"put", "add"} => request[s] \in Listing
           /\ request[s] # NoRequest /\ request[s].op \notin {"put", "add"} => request[s] \in Alters
BY DEF UsesTyped, NoRequest, Alters, Listing

LEMMA UsesInitially == UsesInit => UsesInv
<1> SUFFICES ASSUME UsesInit PROVE UsesInv
  OBVIOUS
<1>1. UsesTyped
  BY UsesAssumption DEF UsesInit, UsesTyped
<1>2. \A s \in Requests : request[s].op = "none"
  BY DEF UsesInit, NoRequest
<1>3. Dropping /\ OneHolds /\ Looked /\ SavedIsListed
  BY <1>2 DEF UsesInit, Dropping, OneHolds, Looked, Holds, SavedIsListed
<1> QED
  BY <1>1, <1>3 DEF UsesInv

\* A request that is over, or fails, leaves the others as they were.
LEMMA OverKeeps ==
    ASSUME UsesInv, NEW s \in Requests, request' = [request EXCEPT ![s] = NoRequest],
           UNCHANGED <<metrics, blocks, charts, usage, made, tasks, owed, excused>>
    PROVE  UsesInv'
<1>1. request'[s].op = "none" /\ \A q \in Requests \ {s} : request'[q] = request[q]
  BY DEF UsesInv, UsesTyped, NoRequest
<1>2. UsesTyped'
  BY DEF UsesInv, UsesTyped
<1>3. Dropping'
  BY <1>1 DEF UsesInv, Dropping
<1>4. OneHolds' /\ Looked'
  BY <1>1 DEF UsesInv, OneHolds, Looked, Holds
<1>5. SavedIsListed'
  BY DEF UsesInv, SavedIsListed
<1> QED
  BY <1>2, <1>3, <1>4, <1>5 DEF UsesInv

\* A request that begins holds nothing yet.
LEMMA StartsKeep ==
    ASSUME UsesInv, NEW s \in Requests, NEW rec \in Alters \cup Listing,
           request' = [request EXCEPT ![s] = rec], made' = made + 1, made < MaxRequests,
           tasks' \subseteq Boards, owed' \subseteq Boards,
           UNCHANGED <<metrics, blocks, charts, usage, excused>>,
           rec.op = "put" => rec.at = "loaded",
           rec.op \in {"put", "add"} =>
              /\ rec.ins = {} /\ rec.rows = {}
              /\ rec.op = "put" => rec.place \in Canvases /\ (rec.locks \/ rec.read = rec.target)
              /\ rec.op = "add" => rec.place \in Boards /\ rec.read = {}
    PROVE  UsesInv'
<1>1. request'[s] = rec /\ \A q \in Requests \ {s} : request'[q] = request[q]
  BY DEF UsesInv, UsesTyped
<1>2. UsesTyped'
  BY UsesAssumption DEF UsesInv, UsesTyped
<1>3. Dropping'
  BY <1>1 DEF UsesInv, Dropping
<1>4. OneHolds' /\ Looked'
  BY <1>1 DEF UsesInv, OneHolds, Looked, Holds
<1>5. SavedIsListed'
  BY DEF UsesInv, SavedIsListed
<1> QED
  BY <1>2, <1>3, <1>4, <1>5 DEF UsesInv

LEMMA PutKeeps ==
    ASSUME UsesInv, NEW s \in Requests, NEW c \in Canvases, NEW target \in SUBSET UsedMetrics,
           NEW touched \in BOOLEAN, Put(s, c, target, touched)
    PROVE  UsesInv'
<1> DEFINE rec == [op |-> "put", place |-> c, at |-> "loaded", read |-> blocks[c],
                   target |-> target, locks |-> touched, ins |-> {}, rows |-> {}]
<1>1. blocks[c] \in SUBSET UsedMetrics /\ c \in Places
  BY DEF UsesInv, UsesTyped, Places
<1>2. rec \in Listing
  BY <1>1 DEF Listing
<1>3. rec.op = "put" /\ rec.at = "loaded" /\ rec.ins = {} /\ rec.rows = {} /\ rec.place \in Canvases
  OBVIOUS
<1>4. rec.locks \/ rec.read = rec.target
  BY DEF Put
<1>5. /\ request' = [request EXCEPT ![s] = rec] /\ made' = made + 1 /\ made < MaxRequests
      /\ UNCHANGED <<metrics, blocks, charts, usage, excused>> /\ UNCHANGED <<tasks, owed>>
  BY DEF Put, Start
<1> HIDE DEF rec
<1>6. tasks' \subseteq Boards /\ owed' \subseteq Boards
  BY <1>5 DEF UsesInv, UsesTyped
<1> QED
  BY <1>2, <1>3, <1>4, <1>5, <1>6, StartsKeep

LEMMA AddKeeps ==
    ASSUME UsesInv, NEW s \in Requests, NEW b \in Boards, NEW m \in UsedMetrics, AddChart(s, b, m)
    PROVE  UsesInv'
<1> DEFINE rec == [op |-> "add", place |-> b, at |-> "saved", read |-> {}, target |-> {m},
                   locks |-> FALSE, ins |-> {}, rows |-> {}]
<1>1. b \in Places /\ FALSE \in BOOLEAN
  BY DEF Places
<1>2. rec \in Listing
  BY <1>1 DEF Listing
<1>3. rec.op = "add" /\ rec.ins = {} /\ rec.rows = {} /\ rec.place \in Boards /\ rec.read = {}
  OBVIOUS
<1>4. /\ request' = [request EXCEPT ![s] = rec] /\ made' = made + 1 /\ made < MaxRequests
      /\ UNCHANGED <<metrics, blocks, charts, usage, excused>> /\ UNCHANGED <<tasks, owed>>
  BY DEF AddChart, Start
<1> HIDE DEF rec
<1>5. tasks' \subseteq Boards /\ owed' \subseteq Boards
  BY <1>4 DEF UsesInv, UsesTyped
<1> QED
  BY <1>2, <1>3, <1>4, <1>5, StartsKeep

LEMMA ChangeKeeps ==
    ASSUME UsesInv, NEW s \in Requests, NEW m \in UsedMetrics, Change(s, m) PROVE UsesInv'
<1> DEFINE rec == [op |-> "change", place |-> m, at |-> "checked"]
<1>1. rec \in Alters /\ rec.op = "change"
  BY DEF Alters
<1>2. /\ request' = [request EXCEPT ![s] = rec] /\ made' = made + 1 /\ made < MaxRequests
      /\ UNCHANGED <<metrics, blocks, charts, usage, excused>>
  BY DEF Change
<1>3. tasks' \subseteq Boards /\ owed' \subseteq Boards
  BY DEF Change, Dependent, UsesInv, UsesTyped
<1> HIDE DEF rec
<1> QED
  BY <1>1, <1>2, <1>3, StartsKeep

\* A request waits until nobody holds the row it is to lock.
LEMMA SaveKeeps == ASSUME UsesInv, NEW s \in Requests, Save(s) PROVE UsesInv'
<1> DEFINE rec == [request[s] EXCEPT !.at = "saved"]
<1>1. request[s] \in Listing /\ request[s].op = "put" /\ request[s].at = "loaded"
  BY RequestKinds DEF Save, UsesInv
<1>2. /\ request' = [request EXCEPT ![s] = rec]
      /\ UNCHANGED <<metrics, blocks, charts, usage, made, tasks, owed, excused>>
  BY DEF Save, Goes
<1>3. /\ rec \in Listing /\ rec.op = "put" /\ rec.at = "saved" /\ rec.place = request[s].place
      /\ rec.locks = request[s].locks /\ rec.read = request[s].read /\ rec.target = request[s].target
      /\ rec.ins = request[s].ins /\ rec.rows = request[s].rows
  BY <1>1 DEF Listing
<1> HIDE DEF rec
<1>4. request'[s] = rec /\ \A q \in Requests \ {s} : request'[q] = request[q]
  BY <1>2 DEF UsesInv, UsesTyped
<1>5. UsesTyped'
  BY <1>2, <1>3 DEF UsesInv, UsesTyped
<1>6. Dropping'
  BY <1>1, <1>3, <1>4 DEF UsesInv, Dropping
<1>7. rec.locks => \A q \in Requests : ~Holds(q, rec.place)
  BY <1>3 DEF Save, Locked, Holds
<1>8. OneHolds'
  BY <1>4, <1>7 DEF UsesInv, OneHolds, Holds
<1>9. Looked'
  BY <1>2, <1>3, <1>4 DEF UsesInv, Looked, Holds
<1>10. SavedIsListed'
  BY <1>2 DEF UsesInv, SavedIsListed
<1> QED
  BY <1>5, <1>6, <1>8, <1>9, <1>10 DEF UsesInv

LEMMA CheckKeeps == ASSUME UsesInv, NEW s \in Requests, Check(s) PROVE UsesInv'
<1> DEFINE p == request[s].place
           target == request[s].target
           rec == [request[s] EXCEPT !.at = "checked", !.ins = Missing(p, target),
                                     !.rows = Unlisted(request[s].read \ target)]
<1>1. request[s] \in Listing /\ request[s].at = "saved"
  BY RequestKinds DEF Check, UsesInv
<1>2. CASE request' = [request EXCEPT ![s] = NoRequest]
  BY <1>2, OverKeeps DEF Check
<1>3. CASE request' = [request EXCEPT ![s] = rec]
  <2>1. Missing(p, target) \subseteq target /\ target \subseteq UsedMetrics
    BY <1>1 DEF Missing, Listing
  <2>2. Unlisted(request[s].read \ target) \subseteq Canvases \X (request[s].read \ target)
    BY DEF Unlisted
  <2>3. request[s].read \subseteq UsedMetrics
    BY <1>1 DEF Listing
  <2>4. /\ rec.op = request[s].op /\ rec.at = "checked" /\ rec.place = p
        /\ rec.locks = request[s].locks /\ rec.read = request[s].read /\ rec.target = target
        /\ rec.ins = Missing(p, target) /\ rec.rows = Unlisted(request[s].read \ target)
        /\ rec \in Listing
    BY <1>1, <2>1, <2>2, <2>3 DEF Listing
  <2>5. UNCHANGED <<metrics, blocks, charts, usage, made, tasks, owed, excused>>
    BY DEF Check
  <2>6. usage \in [Places -> [UsedMetrics -> Nat]] /\ p \in Places
    BY <1>1 DEF UsesInv, UsesTyped, Listing
  <2>7. \A m \in target : m \in rec.ins \/ usage[p][m] > 0
    BY <2>1, <2>4, <2>6 DEF Missing
  <2> HIDE DEF p, target, rec
  <2>8. request'[s] = rec /\ \A q \in Requests \ {s} : request'[q] = request[q]
    BY <1>3 DEF UsesInv, UsesTyped
  <2>9. UsesTyped'
    BY <1>3, <2>4, <2>5 DEF UsesInv, UsesTyped
  <2>10. Dropping'
    BY <2>1, <2>2, <2>4, <2>8 DEF UsesInv, Dropping, p, target
  <2>11. OneHolds'
    BY <1>1, <2>4, <2>8 DEF UsesInv, OneHolds, Holds, p
  <2>12. Looked'
    BY <2>4, <2>5, <2>7, <2>8 DEF UsesInv, Looked, Holds
  <2>13. SavedIsListed'
    BY <2>5 DEF UsesInv, SavedIsListed
  <2> QED
    BY <2>9, <2>10, <2>11, <2>12, <2>13 DEF UsesInv
<1> QED
  BY <1>2, <1>3 DEF Check

\* What a commit does to the rows of usage.
LEMMA CommitRows ==
    ASSUME UsesInv, NEW s \in Requests, CommitRequest(s)
    PROVE  /\ request[s] \in Listing /\ request[s].at = "checked"
           /\ request[s].rows \subseteq Canvases \X (request[s].read \ request[s].target)
           /\ request[s].ins \subseteq request[s].target
           /\ usage' \in [Places -> [UsedMetrics -> Nat]]
           /\ \A p \in Places, m \in UsedMetrics :
                 /\ <<p, m>> \notin request[s].rows => usage'[p][m] >= usage[p][m]
                 /\ <<p, m>> \notin request[s].rows /\ p = request[s].place /\ m \in request[s].ins
                       => usage'[p][m] > 0
<1> DEFINE r == request[s]
<1>1. r \in Listing /\ r.at = "checked"
  BY RequestKinds DEF CommitRequest, UsesInv
<1>2. r.rows \subseteq Canvases \X (r.read \ r.target) /\ r.ins \subseteq r.target
  BY DEF CommitRequest, UsesInv, Dropping
<1>3. usage \in [Places -> [UsedMetrics -> Nat]]
  BY DEF UsesInv, UsesTyped
<1>4. usage' = [p \in Places |-> [m \in UsedMetrics |->
                  IF <<p, m>> \in r.rows THEN 0
                  ELSE usage[p][m] + (IF p = r.place /\ m \in r.ins THEN 1 ELSE 0)]]
  BY DEF CommitRequest
<1> HIDE DEF r
<1>5. ASSUME NEW p \in Places, NEW m \in UsedMetrics
      PROVE  /\ usage'[p][m] = IF <<p, m>> \in r.rows THEN 0
                               ELSE usage[p][m] + (IF p = r.place /\ m \in r.ins THEN 1 ELSE 0)
             /\ usage[p][m] \in Nat
  BY <1>3, <1>4
<1>6. usage' \in [Places -> [UsedMetrics -> Nat]]
  BY <1>3, <1>4
<1>7. ASSUME NEW p \in Places, NEW m \in UsedMetrics, <<p, m>> \notin r.rows
      PROVE  usage'[p][m] >= usage[p][m] /\ (p = r.place /\ m \in r.ins => usage'[p][m] > 0)
  BY <1>5, <1>7
<1> QED
  BY <1>1, <1>2, <1>6, <1>7 DEF r

\* A metric that was listed, or excused, is so after a commit, unless the request's own
\* canvas dropped it.
LEMMA CommitLists ==
    ASSUME UsesInv, NEW s \in Requests, CommitRequest(s), NEW c \in Canvases, NEW m \in UsedMetrics,
           usage[c][m] > 0 \/ m \in excused[c]
    PROVE  \/ usage'[c][m] > 0 \/ m \in excused'[c]
           \/ c = request[s].place /\ m \in request[s].read \ request[s].target
<1> DEFINE r == request[s]
           unlisted == {x[2] : x \in r.rows}
<1>1. c \in Places /\ usage[c][m] \in Nat
  BY DEF Places, UsesInv, UsesTyped
<1>2. usage'[c][m] \in Nat
  BY <1>1, CommitRows
<1>3. excused'[c] = (excused[c] \cup (IF c = r.place THEN {} ELSE unlisted))
                    \ (IF c = r.place THEN r.ins ELSE {})
  BY DEF CommitRequest
<1>4. CASE <<c, m>> \in r.rows
  <2>1. m \in r.read \ r.target
    BY <1>4, CommitRows
  <2>2. m \in unlisted
    BY <1>4
  <2> QED
    BY <1>3, <2>1, <2>2
<1>5. CASE <<c, m>> \notin r.rows
  <2>1. usage'[c][m] >= usage[c][m] /\ (c = r.place /\ m \in r.ins => usage'[c][m] > 0)
    BY <1>1, <1>5, CommitRows
  <2>2. CASE usage[c][m] > 0
    BY <1>1, <1>2, <2>1, <2>2
  <2>3. CASE m \in excused[c]
    BY <1>3, <2>1, <2>3
  <2> QED
    BY <2>2, <2>3
<1> QED
  BY <1>4, <1>5

\* What a canvas dropped was dropped under its lock.
LEMMA DroppedLocked ==
    ASSUME UsesInv, NEW s \in Requests, CommitRequest(s), NEW c \in Canvases, c = request[s].place,
           request[s].read \ request[s].target # {}
    PROVE  Holds(s, c) /\ request[s].op = "put"
<1>1. request[s] \in Listing /\ request[s].at = "checked" /\ request[s].op \in {"put", "add"}
  BY RequestKinds DEF CommitRequest, UsesInv
<1>2. request[s].op = "put"
  BY <1>1, UsesAssumption DEF UsesInv, Dropping
<1>3. request[s].locks
  BY <1>2 DEF UsesInv, Dropping
<1> QED
  BY <1>1, <1>2, <1>3 DEF Holds

LEMMA CommitKeeps == ASSUME UsesInv, NEW s \in Requests, CommitRequest(s) PROVE UsesInv'
<1> DEFINE r == request[s]
<1>1. /\ r \in Listing /\ r.at = "checked" /\ r.op \in {"put", "add"}
      /\ r.rows \subseteq Canvases \X (r.read \ r.target) /\ r.ins \subseteq r.target
  BY CommitRows DEF CommitRequest
<1>2. /\ request' = [request EXCEPT ![s] = NoRequest] /\ UNCHANGED <<metrics, made, tasks, owed>>
      /\ blocks' = IF r.op = "put" /\ r.locks THEN [blocks EXCEPT ![r.place] = r.target] ELSE blocks
      /\ charts' = IF r.op = "add" THEN [charts EXCEPT ![r.place] = @ \cup r.target] ELSE charts
  BY DEF CommitRequest
<1>3. request'[s].op = "none" /\ \A q \in Requests \ {s} : request'[q] = request[q]
  BY <1>2 DEF UsesInv, UsesTyped, NoRequest
<1>4. /\ r.op = "put" => r.place \in Canvases /\ (r.locks \/ r.read = r.target)
      /\ r.op = "add" => r.place \in Boards /\ r.read = {}
      /\ r.target \subseteq UsedMetrics
  BY <1>1 DEF UsesInv, Dropping, Listing
<1>5. UsesTyped'
  <2>1. blocks' \in [Canvases -> SUBSET UsedMetrics] /\ charts' \in [Boards -> SUBSET UsedMetrics]
    BY <1>2, <1>4 DEF UsesInv, UsesTyped
  <2>2. usage' \in [Places -> [UsedMetrics -> Nat]]
    BY CommitRows
  <2>3. excused' \in [Canvases -> SUBSET UsedMetrics]
    <3>1. {x[2] : x \in r.rows} \subseteq UsedMetrics
      BY <1>1 DEF Listing
    <3> QED
      BY <3>1 DEF CommitRequest, UsesInv, UsesTyped
  <2>4. request' \in [Requests -> {NoRequest} \cup Alters \cup Listing]
    BY <1>2 DEF UsesInv, UsesTyped
  <2> QED
    BY <1>2, <2>1, <2>2, <2>3, <2>4 DEF UsesInv, UsesTyped
<1>6. Dropping'
  BY <1>3 DEF UsesInv, Dropping
<1>7. OneHolds'
  BY <1>3 DEF UsesInv, OneHolds, Holds
<1>8. Looked'
  <2> SUFFICES ASSUME NEW q \in Requests, NEW c \in Canvases, (Holds(q, c))', request'[q].at = "checked",
                      NEW m \in request'[q].target \cap metrics'
               PROVE  m \in request'[q].ins \/ usage'[c][m] > 0 \/ m \in excused'[c]
    BY DEF Looked
  <2>1. q # s /\ request'[q] = request[q] /\ Holds(q, c) /\ request[q].at = "checked"
    BY <1>3 DEF Holds
  <2>2. m \in request[q].ins \/ usage[c][m] > 0 \/ m \in excused[c]
    BY <1>2, <2>1 DEF UsesInv, Looked
  <2>3. m \in UsedMetrics
    BY <1>2 DEF UsesInv, UsesTyped
  <2>4. ~(c = r.place /\ m \in r.read \ r.target)
    BY <2>1, DroppedLocked DEF UsesInv, OneHolds
  <2> QED
    BY <2>1, <2>2, <2>3, <2>4, CommitLists
<1>9. SavedIsListed'
  <2> SUFFICES ASSUME NEW c \in Canvases, NEW m \in (blocks'[c] \cap metrics') \ excused'[c]
               PROVE  usage'[c][m] > 0
    BY DEF SavedIsListed
  <2>1. m \in metrics /\ m \in UsedMetrics /\ c \in Places
    BY <1>2 DEF UsesInv, UsesTyped, Places
  <2>2. CASE r.op = "put" /\ r.locks /\ c = r.place
    <3>1. m \in r.target
      BY <1>2, <1>4, <2>2 DEF UsesInv, UsesTyped
    <3>2. Holds(s, c)
      BY <1>1, <2>2 DEF Holds
    <3>3. m \in r.ins \/ usage[c][m] > 0 \/ m \in excused[c]
      BY <1>1, <2>1, <3>1, <3>2 DEF UsesInv, Looked
    <3>4. CASE m \in r.ins
      BY <1>1, <2>1, <2>2, <3>1, <3>4, CommitRows
    <3>5. CASE usage[c][m] > 0 \/ m \in excused[c]
      BY <2>1, <3>1, <3>5, CommitLists
    <3> QED
      BY <3>3, <3>4, <3>5
  <2>3. CASE ~(r.op = "put" /\ r.locks /\ c = r.place)
    <3>1. blocks'[c] = blocks[c]
      BY <1>2, <1>4, <2>3 DEF UsesInv, UsesTyped
    <3>2. usage[c][m] > 0 \/ m \in excused[c]
      BY <2>1, <3>1 DEF UsesInv, SavedIsListed
    <3>3. ~(c = r.place /\ m \in r.read \ r.target)
      BY <2>3, DroppedLocked DEF Holds
    <3> QED
      BY <2>1, <3>2, <3>3, CommitLists
  <2> QED
    BY <2>2, <2>3
<1> QED
  BY <1>5, <1>6, <1>7, <1>8, <1>9 DEF UsesInv

\* The assistant writes into a canvas that nobody holds.
LEMMA WriteKeeps ==
    ASSUME UsesInv, NEW c \in Canvases, NEW m \in UsedMetrics, Write(c, m) PROVE UsesInv'
<1>1. UNCHANGED <<metrics, charts, usage, request, made, tasks, owed>>
  BY DEF Write
<1>2. UsesTyped'
  BY DEF Write, UsesInv, UsesTyped
<1>3. /\ excused'[c] = excused[c] \cup {m} /\ blocks'[c] \subseteq blocks[c] \cup {m}
      /\ \A d \in Canvases \ {c} : blocks'[d] = blocks[d] /\ excused'[d] = excused[d]
  BY DEF Write, UsesInv, UsesTyped
<1>4. Dropping' /\ OneHolds'
  BY <1>1 DEF UsesInv, Dropping, OneHolds, Holds
<1>5. Looked'
  BY <1>1, <1>3 DEF UsesInv, Looked, Holds
<1>6. SavedIsListed'
  BY <1>1, <1>3 DEF UsesInv, SavedIsListed
<1> QED
  BY <1>2, <1>4, <1>5, <1>6 DEF UsesInv

LEMMA DeletionKeeps == ASSUME UsesInv, NEW m \in UsedMetrics, DeleteMetric(m) PROVE UsesInv'
<1>1. UNCHANGED <<blocks, charts, request, made, tasks, owed, excused>> /\ metrics' = metrics \ {m}
  BY DEF DeleteMetric
<1>2. UsesTyped'
  BY DEF DeleteMetric, UsesInv, UsesTyped
<1>3. \A p \in Places, n \in UsedMetrics \ {m} : usage'[p][n] = usage[p][n]
  BY DEF DeleteMetric, UsesInv, UsesTyped
<1>4. Dropping' /\ OneHolds'
  BY <1>1 DEF UsesInv, Dropping, OneHolds, Holds
<1>5. metrics' \subseteq UsedMetrics \ {m} /\ Canvases \subseteq Places
  BY <1>1 DEF UsesInv, UsesTyped, Places
<1>6. Looked'
  BY <1>1, <1>3, <1>5 DEF UsesInv, Looked, Holds
<1>7. SavedIsListed'
  BY <1>1, <1>3, <1>5 DEF UsesInv, SavedIsListed
<1> QED
  BY <1>2, <1>4, <1>6, <1>7 DEF UsesInv

\* The dashboards' tasks and charts, and a step that changes nothing.
LEMMA BoardsKeep ==
    ASSUME UsesInv,
           \/ UNCHANGED usesVars
           \/ \E b \in Boards : Notify(b)
           \/ \E b \in Boards, m \in UsedMetrics : Pin(b, m)
    PROVE  UsesInv'
<1>1. /\ UNCHANGED <<metrics, blocks, usage, request, made, excused>>
      /\ tasks' \subseteq tasks /\ owed' \subseteq owed /\ charts' \in [Boards -> SUBSET UsedMetrics]
  BY DEF Notify, Pin, usesVars, UsesInv, UsesTyped
<1>2. UsesTyped'
  BY <1>1 DEF UsesInv, UsesTyped
<1>3. Dropping' /\ OneHolds' /\ Looked' /\ SavedIsListed'
  BY <1>1 DEF UsesInv, Dropping, OneHolds, Looked, Holds, SavedIsListed
<1> QED
  BY <1>2, <1>3 DEF UsesInv

LEMMA UsesInvariant == UsesInit /\ [][UsesNext]_usesVars => []UsesInv
<1>1. ASSUME UsesInv, NEW s \in Requests, Abort(s) \/ Changed(s) PROVE UsesInv'
  BY <1>1, OverKeeps DEF Abort, Changed
<1>2. UsesInv /\ [UsesNext]_usesVars => UsesInv'
  BY <1>1, PutKeeps, AddKeeps, ChangeKeeps, SaveKeeps, CheckKeeps, CommitKeeps, WriteKeeps,
     DeletionKeeps, BoardsKeep DEF UsesNext
<1> QED
  BY <1>2, UsesInitially, PTL

\* A canvas that was saved with a metric is listed as its user, unless the assistant
\* wrote the metric or another canvas unlisted it since.
THEOREM SavedCanvasesListed == UsesSpec => []SavedIsListed
BY UsesInvariant, PTL DEF UsesInv, UsesSpec

\* No canvas takes a dashboard off the list of a metric that lives.
THEOREM DashboardsStayListed == UsesInit /\ [][UsesNext]_usesVars => BoardsStayListed
<1> DEFINE Stay == \A b \in Boards, m \in UsedMetrics :
               usage[b][m] > 0 => usage'[b][m] > 0 \/ m \notin metrics'
<1>1. ASSUME UsesInv, NEW s \in Requests, CommitRequest(s) PROVE Stay
  <2> SUFFICES ASSUME NEW b \in Boards, NEW m \in UsedMetrics, usage[b][m] > 0 PROVE usage'[b][m] > 0
    OBVIOUS
  <2>1. b \in Places /\ usage[b][m] \in Nat
    BY <1>1 DEF Places, UsesInv, UsesTyped
  <2>2. <<b, m>> \notin request[s].rows
    BY <1>1, UsesAssumption, CommitRows
  <2>3. usage'[b][m] >= usage[b][m] /\ usage'[b][m] \in Nat
    BY <1>1, <2>1, <2>2, CommitRows
  <2> QED
    BY <2>1, <2>3
<1>2. ASSUME UsesInv, NEW n \in UsedMetrics, DeleteMetric(n) PROVE Stay
  BY <1>2 DEF DeleteMetric, UsesInv, UsesTyped, Places
<1>3. UsesInv /\ [UsesNext]_usesVars => [Stay]_usesVars
  BY <1>1, <1>2 DEF UsesNext, Put, AddChart, Start, Change, Save, Goes, Check, Abort, Changed, Notify,
     Pin, Write, usesVars
<1> QED
  BY <1>3, UsesInvariant, PTL DEF BoardsStayListed

-----------------------------------------------------------------------------
(***************************************************************************)
(* What the layout's proofs keep needing: induction over the blocks of a   *)
(* list, what a recursion over them yields, and the greatest of a set.     *)
(***************************************************************************)
LEMMA Inductive ==
    ASSUME NEW N \in Nat, NEW G, 0 \in G, \A n \in 1 .. N : n - 1 \in G => n \in G
    PROVE  \A n \in 0 .. N : n \in G
<1> DEFINE Bad == {n \in 0 .. N : n \notin G}
<1>1. ASSUME Bad # {} PROVE FALSE
  <2>0. Bad \in SUBSET Nat
    OBVIOUS
  <2>1. PICK n \in Bad : \A k \in Bad : n <= k
    <3> HIDE DEF Bad
    <3> QED
      BY <1>1, <2>0, Least
  <2>2. n \in 1 .. N /\ n - 1 \in 0 .. N
    BY <2>1
  <2>3. n - 1 \notin Bad
    BY <2>1, <2>2
  <2> QED
    BY <2>1, <2>2, <2>3
<1> QED
  BY <1>1

Recurses(f, N, S, base, step) ==
    /\ f \in [0 .. N -> S] /\ f[0] = base
    /\ \A n \in 1 .. N : f[n] = step[n][f[n - 1]]

LEMMA Recursion ==
    ASSUME NEW N \in Nat, NEW S, NEW base \in S, NEW step \in [1 .. N -> [S -> S]]
    PROVE  \E f : Recurses(f, N, S, base, step)
<1> DEFINE G == {m \in 0 .. N : \E f : Recurses(f, m, S, base, step)}
<1>1. 0 \in G
  <2>1. Recurses([n \in 0 .. 0 |-> base], 0, S, base, step)
    BY DEF Recurses
  <2> QED
    BY <2>1
<1>2. ASSUME NEW m \in 1 .. N, m - 1 \in G PROVE m \in G
  <2>1. PICK f : Recurses(f, m - 1, S, base, step)
    BY <1>2
  <2>2. m \in Nat /\ m # 0 /\ m - 1 \in 0 .. m - 1 /\ step[m] \in [S -> S]
    OBVIOUS
  <2> DEFINE last == step[m][f[m - 1]]
             g == [n \in 0 .. m |-> IF n = m THEN last ELSE f[n]]
  <2>3. last \in S
    BY <2>1, <2>2 DEF Recurses
  <2>4. g[m] = last /\ \A n \in 0 .. m - 1 : g[n] = f[n]
    BY <2>2
  <2>5. g \in [0 .. m -> S]
    BY <2>1, <2>2, <2>3 DEF Recurses
  <2>6. g[0] = base
    BY <2>1, <2>2, <2>4 DEF Recurses
  <2>7. ASSUME NEW n \in 1 .. m PROVE g[n] = step[n][g[n - 1]]
    <3>1. n - 1 \in 0 .. m - 1 /\ g[n - 1] = f[n - 1]
      BY <2>2, <2>4
    <3>2. CASE n = m
      BY <2>4, <3>1, <3>2
    <3>3. CASE n # m
      <4>1. n \in 1 .. m - 1 /\ n \in 0 .. m - 1
        BY <2>2, <3>3
      <4> QED
        BY <2>1, <2>4, <3>1, <4>1 DEF Recurses
    <3> QED
      BY <3>2, <3>3
  <2>8. Recurses(g, m, S, base, step)
    BY <2>5, <2>6, <2>7 DEF Recurses
  <2>9. m \in 0 .. N
    OBVIOUS
  <2> HIDE DEF g
  <2> QED
    BY <2>8, <2>9
<1>3. \A n \in 0 .. N : n \in G
  <2> HIDE DEF G
  <2>1. \A n \in 1 .. N : n - 1 \in G => n \in G
    BY <1>2
  <2> QED
    BY <1>1, <2>1, Inductive
<1>4. N \in G
  BY <1>3
<1> QED
  BY <1>4

\* A recursive definition is the function that recurses.
LEMMA MaxOf ==
    ASSUME NEW S \in SUBSET Int, IsFiniteSet(S), S # {}
    PROVE  Max(S) \in S /\ \A y \in S : Max(S) >= y
<1>1. PICK n \in Nat : ExistsSurjection(1 .. n, S)
  BY FS_NatSurjection
<1>2. PICK f \in [1 .. n -> S] : \A y \in S : \E i \in 1 .. n : f[i] = y
  BY <1>1 DEF ExistsSurjection, Surjection
<1>3. \A i \in 1 .. n : f[i] \in Int
  BY <1>2
<1> DEFINE G == {m \in 0 .. n : m = 0 \/ \E k \in 1 .. m : \A i \in 1 .. m : f[k] >= f[i]}
<1>4. 0 \in G
  OBVIOUS
<1>5. ASSUME NEW m \in 1 .. n, m - 1 \in G PROVE m \in G
  <2>1. m \in Nat /\ m \in 0 .. n /\ \A i \in 1 .. m : i = m \/ i \in 1 .. m - 1
    OBVIOUS
  <2>2. CASE m = 1
    <3>1. \A i \in 1 .. m : f[1] >= f[i]
      BY <1>3, <2>2
    <3> QED
      BY <2>1, <2>2, <3>1
  <2>3. CASE m # 1
    <3>1. PICK k \in 1 .. m - 1 : \A i \in 1 .. m - 1 : f[k] >= f[i]
      BY <1>5, <2>3
    <3>2. k \in 1 .. m /\ m \in 1 .. m /\ f[k] \in Int /\ f[m] \in Int /\ \A i \in 1 .. m : f[i] \in Int
      BY <1>3, <2>1
    <3>3. CASE f[k] >= f[m]
      <4>1. \A i \in 1 .. m : f[k] >= f[i]
        BY <2>1, <3>1, <3>3
      <4> QED
        BY <2>1, <3>2, <4>1
    <3>4. CASE f[m] >= f[k]
      <4>1. \A i \in 1 .. m : f[m] >= f[i]
        BY <2>1, <3>1, <3>2, <3>4
      <4> QED
        BY <2>1, <3>2, <4>1
    <3> QED
      BY <3>2, <3>3, <3>4
  <2> QED
    BY <2>2, <2>3
<1>6. n \in G
  <2> HIDE DEF G
  <2> QED
    BY <1>4, <1>5, Inductive
<1>7. n # 0
  <2>1. PICK y \in S : TRUE
    OBVIOUS
  <2>2. PICK i \in 1 .. n : f[i] = y
    BY <1>2, <2>1
  <2> QED
    BY <2>2
<1>8. PICK k \in 1 .. n : \A i \in 1 .. n : f[k] >= f[i]
  BY <1>6, <1>7
<1>9. f[k] \in S /\ \A y \in S : f[k] >= y
  BY <1>2, <1>8
<1> QED
  BY <1>9, Zenon DEF Max

LEMMA MaxIs ==
    ASSUME NEW S \in SUBSET Int, NEW m \in S, \A y \in S : m >= y
    PROVE  Max(S) = m
<1>1. Max(S) \in S /\ \A y \in S : Max(S) >= y
  BY Zenon DEF Max
<1>2. m \in Int /\ Max(S) \in Int /\ m >= Max(S) /\ Max(S) >= m
  BY <1>1
<1> QED
  BY <1>2

LEMMA MaxOfTwo == ASSUME NEW a \in Int, NEW b \in Int PROVE Max({a, b}) = IF a >= b THEN a ELSE b
<1>1. CASE a >= b
  <2>1. {a, b} \in SUBSET Int /\ a \in {a, b} /\ \A y \in {a, b} : a >= y
    BY <1>1
  <2>2. Max({a, b}) = a
    BY <2>1, MaxIs
  <2> QED
    BY <1>1, <2>2
<1>2. CASE ~(a >= b)
  <2>1. {a, b} \in SUBSET Int /\ b \in {a, b} /\ \A y \in {a, b} : b >= y
    BY <1>2
  <2>2. Max({a, b}) = b
    BY <2>1, MaxIs
  <2> QED
    BY <1>2, <2>2
<1> QED
  BY <1>1, <1>2

LEMMA MinOfTwo == ASSUME NEW a \in Int, NEW b \in Int PROVE Min({a, b}) = IF a <= b THEN a ELSE b
<1> DEFINE m == IF a <= b THEN a ELSE b
<1>1. m \in {a, b} /\ \A y \in {a, b} : m <= y
  OBVIOUS
<1>2. Min({a, b}) \in {a, b} /\ \A y \in {a, b} : Min({a, b}) <= y
  <2> HIDE DEF m
  <2> QED
    BY <1>1, Zenon DEF Min
<1> QED
  BY <1>2

LEMMA Divides ==
    ASSUME NEW a \in Int, NEW d \in Nat \ {0}
    PROVE  a \div d \in Int /\ d * (a \div d) <= a /\ a < d * (a \div d) + d
OBVIOUS

LEMMA Ordered ==
    ASSUME NEW a \in Int, NEW b \in Int, NEW d \in Nat \ {0}, d * a < d * b + d
    PROVE  a <= b
<1>1. CASE a >= b + 1
  <2>1. d * (a - b - 1) >= 0
    BY <1>1
  <2> QED
    BY <2>1
<1> QED
  BY <1>1

\* The more a line takes, the fewer lines there are.
LEMMA FewerLines ==
    ASSUME NEW n \in Nat, NEW c \in Nat \ {0}, NEW d \in Nat \ {0}, c <= d
    PROVE  n \div d <= n \div c
<1> DEFINE q == n \div d
           p == n \div c
<1>1. q \in Int /\ p \in Int /\ d * q <= n /\ n < c * p + c
  BY Divides
<1> HIDE DEF q, p
<1>2. CASE q >= 0
  <2>1. c * q <= d * q
    BY <1>1, <1>2
  <2>2. c * q < c * p + c
    BY <1>1, <2>1
  <2>3. q <= p
    BY <1>1, <2>2, Ordered
  <2> QED
    BY <2>3 DEF q, p
<1>3. CASE q < 0
  <2>1. p >= 0
    BY DEF p
  <2> QED
    BY <1>1, <1>3, <2>1 DEF q, p
<1> QED
  BY <1>1, <1>2, <1>3

\* The two ways to round a quotient up.
LEMMA RoundedUp ==
    ASSUME NEW n \in Nat, NEW d \in Nat \ {0}
    PROVE  (n + d - 1) \div d = -((-n) \div d)
<1> DEFINE p == (n + d - 1) \div d
           q == (-n) \div d
<1>1. p \in Int /\ d * p <= n + d - 1 /\ n + d - 1 < d * p + d
  BY Divides
<1>2. q \in Int /\ d * q <= -n /\ -n < d * q + d
  BY Divides
<1> HIDE DEF p, q
<1>3. d * (p + q) < d /\ d * (p + q) > -d
  BY <1>1, <1>2
<1>4. p + q <= 0
  <2>1. d * (p + q) < d * 0 + d
    BY <1>1, <1>2, <1>3
  <2> QED
    BY <1>1, <1>2, <2>1, Ordered
<1>5. 0 <= p + q
  <2>1. d * 0 < d * (p + q) + d
    BY <1>1, <1>2, <1>3
  <2> QED
    BY <1>1, <1>2, <2>1, Ordered
<1> QED
  BY <1>1, <1>2, <1>4, <1>5 DEF p, q

-----------------------------------------------------------------------------
(***************************************************************************)
(* The measures of a canvas and of its blocks, on the server and the page. *)
(***************************************************************************)
Geometries ==
    {g \in [fullW : Nat, chartW : Nat, kpiW : Nat, cols : {1, 2}, leftX : {20}, rightX : Nat, midX : Nat] :
        /\ g.fullW >= 320 /\ g.chartW >= 320 /\ g.kpiW >= 90
        /\ g.rightX = g.chartW + 40 /\ g.midX = g.chartW + 30
        /\ g.cols = 1 => g.chartW = g.fullW
        /\ g.chartW <= g.fullW}

\* The community modules that both translations use are the same.
LEMMA SameMax ==
    ASSUME NEW S
    PROVE  /\ Server!Max(S) = Max(S) /\ Page!Max(S) = Max(S)
           /\ Server!Min(S) = Min(S) /\ Page!Min(S) = Min(S)
BY Zenon DEF Server!Max, Page!Max, Server!Min, Page!Min, Max, Min

LEMMA GeometryIs ==
    ASSUME NEW width \in Nat
    PROVE  /\ Server!Geometry(width) \in Geometries
           /\ Page!resolveGeometry(width) = Server!Geometry(width)
<1> DEFINE avail == IF width > 0 THEN Max({320, width - 40}) ELSE 980
<1>1. avail \in Nat /\ avail >= 320
  <2>1. CASE width > 0
    <3>1. Max({320, width - 40}) = IF 320 >= width - 40 THEN 320 ELSE width - 40
      BY MaxOfTwo
    <3> QED
      BY <2>1, <3>1
  <2> QED
    BY <2>1
<1> DEFINE two == avail >= 740
           column == (2 * (avail - 20) + 2) \div 4
           chartW == IF two THEN column ELSE avail
           kpiW == (2 * (avail - 40) + 3) \div 6
           g == [fullW |-> avail, chartW |-> chartW, kpiW |-> kpiW, cols |-> IF two THEN 2 ELSE 1,
                 leftX |-> 20, rightX |-> 20 + chartW + 20, midX |-> 20 + chartW + 10]
<1>2. Server!Geometry(width) = g
  <2>1. /\ 2 * Server!MarginX = 40 /\ 2 * Server!ColGap = 40 /\ 2 * Server!MinColW + Server!ColGap = 740
        /\ Server!ColGap \div 2 = 10 /\ 2 * 2 = 4 /\ 2 * 3 = 6 /\ Server!MarginX = 20 /\ Server!ColGap = 20
        /\ Server!FallbackW = 980
    BY DEF Server!MarginX, Server!ColGap, Server!MinColW, Server!FallbackW
  <2> HIDE DEF avail
  <2>2. /\ Server!Rounded(avail - 20, 2) = column /\ Server!Rounded(avail - 40, 3) = kpiW
    BY DEF Server!Rounded
  <2>3. avail = IF width > 0 THEN Server!Max({320, width - 40}) ELSE 980
    BY SameMax DEF avail
  <2> HIDE DEF column, kpiW
  <2> QED
    BY <2>1, <2>2, <2>3 DEF Server!Geometry
<1>3. Page!resolveGeometry(width) = g
  <2>1. /\ Page!REPORT.marginX = 20 /\ Page!REPORT.marginX * 2 = 40 /\ Page!REPORT.colGap = 20
        /\ Page!REPORT.colGap * 2 = 40 /\ Page!REPORT.minColW * 2 + Page!REPORT.colGap = 740
        /\ Page!REPORT.fallbackW = 980 /\ Page!REPORT.colGap \div 2 = 10
    BY DEF Page!REPORT
  <2>2. Page!Round(avail - 20, 2) = column /\ Page!Round(avail - 40, 3) = kpiW
    <3> HIDE DEF avail
    <3> QED
      BY <1>1 DEF Page!Round
  <2>3. avail = IF width > 0 THEN Page!Max({320, width - 40}) ELSE 980
    BY SameMax DEF avail
  <2> HIDE DEF column, kpiW, avail
  <2> QED
    BY <2>1, <2>2, <2>3 DEF Page!resolveGeometry
<1>4. g \in Geometries
  <2> HIDE DEF avail
  <2>1. column \in Nat /\ (two => column >= 320 /\ column <= avail) /\ kpiW \in Nat /\ kpiW >= 90
    BY <1>1
  <2> HIDE DEF column, kpiW
  <2>2. chartW \in Nat /\ chartW >= 320 /\ chartW <= avail /\ (~two => chartW = avail)
    BY <1>1, <2>1
  <2> HIDE DEF chartW
  <2> QED
    BY <1>1, <2>1, <2>2 DEF Geometries
<1> QED
  BY <1>2, <1>3, <1>4

LEMMA TextIs ==
    ASSUME NEW len \in Nat, NEW v \in Nat
    PROVE  /\ Server!TextHeight(len, v) \in Nat /\ Server!TextHeight(len, v) >= 62
           /\ Page!estimateTextHeight(len, v) = Server!TextHeight(len, v)
           /\ \A w \in Nat : 0 < v /\ v <= w => Server!TextHeight(len, w) <= Server!TextHeight(len, v)
<1> DEFINE Usable(w) == IF 80 >= (IF w = 0 THEN 980 ELSE w) - 40 THEN 80 ELSE (IF w = 0 THEN 980 ELSE w) - 40
           Line(w) == IF 8 >= Usable(w) \div 14 THEN 8 ELSE Usable(w) \div 14
           n == IF len = 0 THEN 1 ELSE len
           Lines(w) == (n - 1) \div Line(w) + 1
<1>1. n \in Nat \ {0} /\ Max({1, len}) = n
  <2>1. Max({1, len}) = IF 1 >= len THEN 1 ELSE len
    BY MaxOfTwo
  <2> QED
    BY <2>1
<1>2. ASSUME NEW w \in Nat
      PROVE  /\ Usable(w) \in Nat /\ Max({80, (IF w = 0 THEN 980 ELSE w) - 40}) = Usable(w)
             /\ Line(w) \in Nat \ {0} /\ Max({8, Usable(w) \div 14}) = Line(w)
  <2>1. (IF w = 0 THEN 980 ELSE w) - 40 \in Int /\ Usable(w) \in Nat
    OBVIOUS
  <2>2. Max({80, (IF w = 0 THEN 980 ELSE w) - 40}) = Usable(w)
    BY <2>1, MaxOfTwo
  <2> HIDE DEF Usable
  <2>3. Usable(w) \div 14 \in Int
    BY <2>1
  <2>4. Max({8, Usable(w) \div 14}) = Line(w)
    BY <2>3, MaxOfTwo
  <2> QED
    BY <2>1, <2>2, <2>3, <2>4
<1>3. ASSUME NEW w \in Nat
      PROVE  /\ Lines(w) \in Nat /\ Lines(w) >= 1
             /\ (n + Line(w) - 1) \div Line(w) = Lines(w)
             /\ -((-n) \div Line(w)) = Lines(w)
             /\ Max({1, Lines(w)}) = Lines(w)
  <2>1. Line(w) \in Nat \ {0}
    BY <1>2
  <2> HIDE DEF Line, n
  <2>2. (n - 1) \div Line(w) \in Nat
    BY <1>1, <2>1
  <2>3. (n + Line(w) - 1) \div Line(w) = Lines(w)
    <3> DEFINE p == (n + Line(w) - 1) \div Line(w)
               q == (n - 1) \div Line(w)
               d == Line(w)
    <3>3. d \in Nat \ {0} /\ n + d - 1 \in Int /\ n - 1 \in Int
      BY <1>1, <2>1
    <3>1. p \in Int /\ d * p <= n + d - 1 /\ n + d - 1 < d * p + d
      <4> HIDE DEF d
      <4> QED
        BY <3>3, Divides DEF d
    <3>2. q \in Int /\ d * q <= n - 1 /\ n - 1 < d * q + d
      <4> HIDE DEF d
      <4> QED
        BY <3>3, Divides DEF d
    <3> HIDE DEF p, q, d
    <3>4. d * p < d * (q + 1) + d /\ d * (q + 1) < d * p + d
      BY <1>1, <3>1, <3>2, <3>3
    <3>5. p <= q + 1 /\ q + 1 <= p
      BY <3>1, <3>2, <3>3, <3>4, Ordered
    <3> QED
      BY <3>1, <3>2, <3>5 DEF p, q, d
  <2>4. -((-n) \div Line(w)) = Lines(w)
    BY <1>1, <2>1, <2>3, RoundedUp
  <2>5. Lines(w) \in Nat /\ Lines(w) >= 1
    BY <2>2
  <2> HIDE DEF Lines
  <2>6. Max({1, Lines(w)}) = Lines(w)
    BY <2>5, MaxOfTwo
  <2> QED
    BY <2>3, <2>4, <2>5, <2>6
<1>4. ASSUME NEW w \in Nat
      PROVE  /\ Server!TextHeight(len, w) = Lines(w) * 22 + 40
             /\ Page!estimateTextHeight(len, w) = Lines(w) * 22 + 40
  <2>0. /\ Max({80, (IF w = 0 THEN 980 ELSE w) - 40}) = Usable(w)
        /\ Max({8, Usable(w) \div 14}) = Line(w)
        /\ Max({1, Lines(w)}) = Lines(w) /\ Max({1, len}) = n
    BY <1>1, <1>2, <1>3
  <2>1. /\ Server!Max({80, (IF w = 0 THEN 980 ELSE w) - 40}) = Usable(w)
        /\ Server!Max({8, Usable(w) \div 14}) = Line(w)
        /\ Server!Max({1, Lines(w)}) = Lines(w) /\ Server!Max({1, len}) = n
    <3> HIDE DEF n, Lines, Line, Usable
    <3> QED
      BY <2>0, SameMax
  <2>3. /\ Page!Max({80, (IF w = 0 THEN 980 ELSE w) - 40}) = Usable(w)
        /\ Page!Max({8, Usable(w) \div 14}) = Line(w)
        /\ Page!Max({1, Lines(w)}) = Lines(w)
    <3> HIDE DEF n, Lines, Line, Usable
    <3> QED
      BY <2>0, SameMax
  <2>2. (n + Line(w) - 1) \div Line(w) = Lines(w) /\ -((-n) \div Line(w)) = Lines(w)
    BY <1>3
  <2>4. Server!FallbackW = 980 /\ Page!REPORT.fallbackW = 980
    BY DEF Server!FallbackW, Page!REPORT
  <2>5. n = IF len = 0 THEN 1 ELSE len
    OBVIOUS
  <2> HIDE DEF n, Lines, Line, Usable
  <2>6. Server!TextHeight(len, w) = Lines(w) * 22 + 40
    <3> DEFINE v0 == IF w = 0 THEN Server!FallbackW ELSE w
               u == Server!Max({80, v0 - 40})
               l == Server!Max({8, u \div 14})
               m == Server!Max({1, len})
               c == Server!Ceiling(m, l)
    <3>1. Server!TextHeight(len, w) = Server!Max({1, c}) * 22 + 40
      BY Zenon DEF Server!TextHeight
    <3>2. v0 = IF w = 0 THEN 980 ELSE w
      BY <2>4
    <3> HIDE DEF v0
    <3>3. u = Usable(w)
      BY <2>1, <3>2
    <3> HIDE DEF u, m
    <3>4. l = Line(w)
      BY <2>1, <3>3
    <3> HIDE DEF l
    <3>5. c = Lines(w)
      BY <2>1, <2>2, <3>4 DEF Server!Ceiling, m
    <3> HIDE DEF c
    <3> QED
      BY <2>1, <3>1, <3>5
  <2>7. Page!estimateTextHeight(len, w) = Lines(w) * 22 + 40
    <3> DEFINE v0 == IF w = 0 THEN Page!REPORT.fallbackW ELSE w
               u == Page!Max({80, v0 - 40})
               l == Page!Max({8, u \div 14})
               m == IF len = 0 THEN 1 ELSE len
               c == Page!Ceil(m, l)
    <3>1. Page!estimateTextHeight(len, w) = Page!Max({1, c}) * 22 + 40
      BY Zenon DEF Page!estimateTextHeight
    <3>2. v0 = IF w = 0 THEN 980 ELSE w
      BY <2>4
    <3> HIDE DEF v0
    <3>3. u = Usable(w)
      BY <2>3, <3>2
    <3> HIDE DEF u
    <3>4. l = Line(w)
      BY <2>3, <3>3
    <3> HIDE DEF l, m
    <3>5. c = Lines(w)
      BY <2>2, <2>5, <3>4 DEF Page!Ceil, m
    <3> HIDE DEF c
    <3> QED
      BY <2>3, <3>1, <3>5
  <2> QED
    BY <2>6, <2>7
<1>5. ASSUME NEW w \in Nat, 0 < v, v <= w PROVE Lines(w) <= Lines(v)
  <2>1. Usable(v) <= Usable(w) /\ Usable(v) \in Nat /\ Usable(w) \in Nat
    BY <1>2, <1>5
  <2> HIDE DEF Usable
  <2>2. Line(v) <= Line(w) /\ Line(v) \in Nat \ {0} /\ Line(w) \in Nat \ {0}
    BY <2>1
  <2> HIDE DEF Line
  <2>3. n - 1 \in Nat
    BY <1>1
  <2> HIDE DEF n
  <2>4. (n - 1) \div Line(w) <= (n - 1) \div Line(v)
    BY <2>2, <2>3, FewerLines
  <2>5. (n - 1) \div Line(w) \in Int /\ (n - 1) \div Line(v) \in Int
    BY <2>2, <2>3
  <2> QED
    BY <2>4, <2>5
<1> HIDE DEF Lines
<1>6. \A w \in Nat : Lines(w) \in Nat /\ Lines(w) >= 1 /\ (0 < v /\ v <= w => Lines(w) <= Lines(v))
  BY <1>3, <1>5
<1> QED
  BY <1>4, <1>6

LEMMA HeightIs ==
    ASSUME NEW b \in LayoutBlock, NEW g \in Geometries
    PROVE  /\ Server!BlockHeight(b, g) \in Nat /\ Server!BlockHeight(b, g) >= IF b.h > 0 THEN 1 ELSE 44
           /\ Page!estimateBlockHeight(b, g) = Server!BlockHeight(b, g)
<1> DEFINE w == IF b.w > 0 THEN b.w ELSE g.fullW
<1>1. /\ b.h \in Nat /\ b.w \in Nat /\ b.text \in Nat
      /\ b.kind \in {"text", "h1", "h2", "chart", "kpi", "image"}
      /\ w \in Nat
  BY DEF LayoutBlock, Kinds, Geometries
<1>2. /\ Server!TextHeight(b.text, w) \in Nat /\ Server!TextHeight(b.text, w) >= 62
      /\ Page!estimateTextHeight(b.text, w) = Server!TextHeight(b.text, w)
  <2> HIDE DEF w
  <2> QED
    BY <1>1, TextIs
<1>3. Server!Ceiling(b.text, 40) = Page!Ceil(b.text, 40) /\ Server!Ceiling(b.text, 50) = Page!Ceil(b.text, 50)
  <2> DEFINE t == b.text
  <2>1. t \in Nat /\ (t + 40 - 1) \div 40 = -((-t) \div 40) /\ (t + 50 - 1) \div 50 = -((-t) \div 50)
    <3>1. t \in Nat
      BY <1>1
    <3> HIDE DEF t
    <3> QED
      BY <3>1, RoundedUp
  <2> QED
    BY <2>1, Zenon DEF Server!Ceiling, Page!Ceil
<1>4. /\ Server!Ceiling(b.text, 40) \in Nat /\ Server!Ceiling(b.text, 50) \in Nat
      /\ b.text > 0 => Server!Ceiling(b.text, 40) >= 1 /\ Server!Ceiling(b.text, 50) >= 1
  BY <1>1 DEF Server!Ceiling
<1>5. Server!KpiH = 132 /\ Server!ChartH = 320 /\ Page!REPORT.kpiH = 132 /\ Page!REPORT.chartH = 320
  BY DEF Server!KpiH, Server!ChartH, Page!REPORT
<1>6. w = IF b.w > 0 THEN b.w ELSE g.fullW
  OBVIOUS
<1> HIDE DEF w
<1>7. Server!BlockHeight(b, g) \in Nat /\ Server!BlockHeight(b, g) >= IF b.h > 0 THEN 1 ELSE 44
  BY <1>1, <1>2, <1>4, <1>5, <1>6 DEF Server!BlockHeight
<1>8. Page!estimateBlockHeight(b, g) = Server!BlockHeight(b, g)
  BY <1>1, <1>2, <1>3, <1>5, <1>6 DEF Server!BlockHeight, Page!estimateBlockHeight
<1> QED
  BY <1>7, <1>8

LEMMA WidthIs ==
    ASSUME NEW b \in LayoutBlock, NEW g \in Geometries
    PROVE  Server!WidthOf(b, g) \in Nat \ {0} /\ Page!widthOf(b, g) = Server!WidthOf(b, g)
BY DEF LayoutBlock, Kinds, Geometries, Server!WidthOf, Page!widthOf

-----------------------------------------------------------------------------
(***************************************************************************)
(* An arrangement of a list of list, block by block.                     *)
(***************************************************************************)
Deepest(s) == IF s.left >= s.right THEN s.left ELSE s.right
Below(bottom) == IF bottom > 32 THEN bottom + 24 ELSE bottom

PlaceStates == [left : Nat, right : Nat, row : Nat, kpis : {0, 1, 2}, out : Seq(LayoutBlock)]
PlaceStart == [left |-> 32, right |-> 32, row |-> 0, kpis |-> 0, out |-> <<>>]

\* What the next block becomes and where the columns end then.
KpiRow(s) == IF s.kpis = 0 THEN Below(Deepest(s)) ELSE s.row
KpiX(g, s) == 20 + s.kpis * (g.kpiW + 20)
KpiPlaced(g, s, b) ==
    [left |-> IF s.left >= KpiRow(s) + 132 THEN s.left ELSE KpiRow(s) + 132,
     right |-> IF s.right >= KpiRow(s) + 132 THEN s.right ELSE KpiRow(s) + 132,
     row |-> KpiRow(s), kpis |-> IF s.kpis = 2 THEN 0 ELSE s.kpis + 1,
     out |-> Append(s.out, Server!At(b, KpiX(g, s), KpiRow(s), g.kpiW, 132))]
ChartPlaced(g, s, b) ==
    LET onLeft == g.cols = 1 \/ s.left <= s.right
        y == Below(IF onLeft THEN s.left ELSE s.right)
    IN [left |-> IF onLeft THEN y + 320 ELSE s.left, right |-> IF onLeft THEN s.right ELSE y + 320,
        row |-> 0, kpis |-> 0,
        out |-> Append(s.out, Server!At(b, IF onLeft THEN 20 ELSE g.rightX, y, g.chartW, 320))]
Plain(b) == IF b.kind = "image" THEN b ELSE [b EXCEPT !.h = 0]
FullWidth(g, b) == IF b.kind = "image" /\ b.w > 0 /\ b.w < g.fullW THEN b.w ELSE g.fullW
WholePlaced(g, s, b) ==
    LET y == Below(Deepest(s))
        end == y + Server!BlockHeight(Plain(b), g)
    IN [left |-> end, right |-> end, row |-> 0, kpis |-> 0,
        out |-> Append(s.out, Server!At(Plain(b), 20, y, FullWidth(g, b), Plain(b).h))]
Placed(g, s, b) ==
    CASE b.kind = "kpi" -> KpiPlaced(g, s, b)
      [] b.kind = "chart" -> ChartPlaced(g, s, b)
      [] OTHER -> WholePlaced(g, s, b)

LEMMA PlainIs == ASSUME NEW b \in LayoutBlock PROVE Plain(b) \in LayoutBlock
BY DEF LayoutBlock, Plain

LEMMA AtTypes ==
    ASSUME NEW b \in LayoutBlock, NEW x \in Int, NEW y \in Int, NEW w \in Nat, NEW h \in Nat
    PROVE  Server!At(b, x, y, w, h) \in LayoutBlock
BY DEF LayoutBlock, Server!At

LEMMA AtIs ==
    ASSUME NEW b \in LayoutBlock, NEW x, NEW y, NEW w, NEW h
    PROVE  /\ Server!At(b, x, y, w, h).kind = b.kind /\ Server!At(b, x, y, w, h).id = b.id
           /\ Server!At(b, x, y, w, h).placed = TRUE /\ Server!At(b, x, y, w, h).text = b.text
           /\ Server!At(b, x, y, w, h).x = x /\ Server!At(b, x, y, w, h).y = y
           /\ Server!At(b, x, y, w, h).w = w /\ Server!At(b, x, y, w, h).h = h
BY DEF LayoutBlock, Server!At

LEMMA DeepestIs ==
    ASSUME NEW s \in PlaceStates
    PROVE  /\ Server!Max({s.left, s.right}) = Deepest(s) /\ Deepest(s) \in Nat
           /\ Deepest(s) >= s.left /\ Deepest(s) >= s.right
<1>1. s.left \in Int /\ s.right \in Int /\ s.left \in Nat /\ s.right \in Nat
  BY DEF PlaceStates
<1>2. Max({s.left, s.right}) = Deepest(s)
  BY <1>1, MaxOfTwo DEF Deepest
<1>3. Server!Max({s.left, s.right}) = Deepest(s)
  BY <1>2, SameMax
<1> QED
  BY <1>1, <1>3 DEF Deepest

LEMMA BelowIs ==
    ASSUME NEW bottom \in Int
    PROVE  /\ Server!Under(bottom) = Below(bottom) /\ Page!below(bottom) = Below(bottom)
           /\ Below(bottom) \in Int /\ Below(bottom) >= bottom /\ (bottom \in Nat => Below(bottom) \in Nat)
BY DEF Below, Server!Under, Server!StartY, Server!GapY, Page!below, Page!REPORT

LEMMA BelowDeepest ==
    ASSUME NEW s \in PlaceStates
    PROVE  /\ Below(Deepest(s)) \in Nat /\ Below(Deepest(s)) >= s.left /\ Below(Deepest(s)) >= s.right
           /\ KpiRow(s) \in Nat
<1>1. Deepest(s) \in Nat /\ Deepest(s) >= s.left /\ Deepest(s) >= s.right
  BY DeepestIs
<1>2. s.left \in Nat /\ s.right \in Nat /\ s.row \in Nat
  BY DEF PlaceStates
<1> QED
  BY <1>1, <1>2 DEF Below, KpiRow

LEMMA PlacingIs ==
    ASSUME NEW g \in Geometries, NEW s \in PlaceStates, NEW b \in LayoutBlock
    PROVE  Server!Placing(g, s, b) = Placed(g, s, b)
<1> DEFINE deepest == Server!Max({s.left, s.right})
           level == IF s.kpis = 0 THEN Server!Under(deepest) ELSE s.row
           useLeft == g.cols = 1 \/ s.left <= s.right
           col == Server!Under(IF useLeft THEN s.left ELSE s.right)
           end == Server!Under(deepest) + Server!BlockHeight(Plain(b), g)
           full == IF b.kind = "image" /\ b.w > 0 THEN Server!Min({b.w, g.fullW}) ELSE g.fullW
<1>1. /\ s.left \in Nat /\ s.right \in Nat /\ s.row \in Nat /\ s.kpis \in {0, 1, 2}
      /\ g.leftX = 20 /\ g.fullW \in Nat /\ b.w \in Nat
  BY DEF PlaceStates, Geometries, LayoutBlock
<1>2. deepest = Deepest(s) /\ Deepest(s) \in Nat
  BY DeepestIs
<1>3. Server!Under(deepest) = Below(Deepest(s)) /\ Below(Deepest(s)) \in Nat
  BY <1>2, BelowIs
<1>4. level = KpiRow(s) /\ level \in Nat
  <2> HIDE DEF deepest
  <2> QED
    BY <1>1, <1>3 DEF KpiRow
<1>5. col = Below(IF useLeft THEN s.left ELSE s.right)
  <2>1. (IF useLeft THEN s.left ELSE s.right) \in Int
    BY <1>1
  <2> HIDE DEF useLeft
  <2> QED
    BY <2>1, BelowIs
<1>6. end = Below(Deepest(s)) + Server!BlockHeight(Plain(b), g)
  BY <1>3
<1>7. full = FullWidth(g, b)
  <2>1. b.w \in Int /\ g.fullW \in Int
    BY <1>1
  <2>2. Min({b.w, g.fullW}) = IF b.w <= g.fullW THEN b.w ELSE g.fullW
    BY <2>1, MinOfTwo
  <2>3. Server!Min({b.w, g.fullW}) = Min({b.w, g.fullW})
    BY SameMax
  <2> QED
    BY <2>1, <2>2, <2>3 DEF FullWidth
<1>8. /\ Server!KpiH = 132 /\ Server!ChartH = 320 /\ Server!ColGap = 20
  BY DEF Server!KpiH, Server!ChartH, Server!ColGap
<1>9. Server!Max({s.left, level + 132}) = IF s.left >= level + 132 THEN s.left ELSE level + 132
  <2>1. s.left \in Int /\ level + 132 \in Int
    BY <1>1, <1>4
  <2> HIDE DEF level
  <2> QED
    BY <2>1, MaxOfTwo, SameMax
<1>10. Server!Max({s.right, level + 132}) = IF s.right >= level + 132 THEN s.right ELSE level + 132
  <2>1. s.right \in Int /\ level + 132 \in Int
    BY <1>1, <1>4
  <2> HIDE DEF level
  <2> QED
    BY <2>1, MaxOfTwo, SameMax
<1>11. (s.kpis + 1) % 3 = IF s.kpis = 2 THEN 0 ELSE s.kpis + 1
  BY <1>1
<1>12. Server!Placing(g, s, b) =
         CASE b.kind = "kpi" ->
              [left |-> Server!Max({s.left, level + Server!KpiH}), right |-> Server!Max({s.right, level + Server!KpiH}),
               row |-> level, kpis |-> (s.kpis + 1) % 3,
               out |-> Append(s.out, Server!At(b, g.leftX + s.kpis * (g.kpiW + Server!ColGap), level, g.kpiW, Server!KpiH))]
           [] b.kind = "chart" ->
              [left |-> IF useLeft THEN col + Server!ChartH ELSE s.left,
               right |-> IF useLeft THEN s.right ELSE col + Server!ChartH, row |-> 0, kpis |-> 0,
               out |-> Append(s.out,
                   Server!At(b, IF useLeft THEN g.leftX ELSE g.rightX, col, g.chartW, Server!ChartH))]
           [] OTHER ->
              [left |-> end, right |-> end, row |-> 0, kpis |-> 0,
               out |-> Append(s.out, Server!At(Plain(b), g.leftX, Server!Under(deepest), full, Plain(b).h))]
  BY DEF Server!Placing, Plain
<1> HIDE DEF deepest, level, col, end, full
<1>13. CASE b.kind = "kpi"
  <2>1. Placed(g, s, b) = KpiPlaced(g, s, b)
    BY <1>13 DEF Placed
  <2>2. Server!Placing(g, s, b) =
              [left |-> Server!Max({s.left, level + 132}), right |-> Server!Max({s.right, level + 132}),
               row |-> level, kpis |-> (s.kpis + 1) % 3,
               out |-> Append(s.out, Server!At(b, KpiX(g, s), level, g.kpiW, 132))]
    BY <1>1, <1>8, <1>12, <1>13 DEF KpiX
  <2> QED
    BY <1>4, <1>9, <1>10, <1>11, <2>1, <2>2 DEF KpiPlaced
<1>14. CASE b.kind = "chart"
  <2>1. Placed(g, s, b) = ChartPlaced(g, s, b)
    BY <1>14 DEF Placed
  <2>2. Server!Placing(g, s, b) =
              [left |-> IF useLeft THEN col + 320 ELSE s.left,
               right |-> IF useLeft THEN s.right ELSE col + 320, row |-> 0, kpis |-> 0,
               out |-> Append(s.out, Server!At(b, IF useLeft THEN 20 ELSE g.rightX, col, g.chartW, 320))]
    BY <1>1, <1>8, <1>12, <1>14
  <2> QED
    BY <1>5, <2>1, <2>2 DEF ChartPlaced
<1>15. CASE b.kind \notin {"kpi", "chart"}
  <2>1. Placed(g, s, b) = WholePlaced(g, s, b)
    BY <1>15 DEF Placed
  <2>2. Server!Placing(g, s, b) =
              [left |-> end, right |-> end, row |-> 0, kpis |-> 0,
               out |-> Append(s.out, Server!At(Plain(b), 20, Server!Under(deepest), full, Plain(b).h))]
    BY <1>1, <1>12, <1>15
  <2> QED
    BY <1>3, <1>6, <1>7, <2>1, <2>2 DEF WholePlaced
<1> QED
  BY <1>13, <1>14, <1>15

\* The block that is laid last, and what the step does to the columns.
LEMMA PlacedTypes ==
    ASSUME NEW g \in Geometries, NEW s \in PlaceStates, NEW b \in LayoutBlock
    PROVE  Placed(g, s, b) \in PlaceStates
<1>1. /\ s.left \in Nat /\ s.right \in Nat /\ s.row \in Nat /\ s.kpis \in {0, 1, 2} /\ s.out \in Seq(LayoutBlock)
      /\ g.fullW \in Nat /\ g.chartW \in Nat /\ g.kpiW \in Nat /\ g.rightX \in Nat /\ b.w \in Nat
  BY DEF PlaceStates, Geometries, LayoutBlock
<1>2. Below(Deepest(s)) \in Nat /\ KpiRow(s) \in Nat
  BY BelowDeepest
<1>3. CASE b.kind = "kpi"
  <2> DEFINE c == Server!At(b, KpiX(g, s), KpiRow(s), g.kpiW, 132)
  <2>1. KpiX(g, s) \in Int /\ KpiRow(s) \in Int
    <3>1. /\ 0 * (g.kpiW + 20) = 0 /\ 1 * (g.kpiW + 20) = g.kpiW + 20
          /\ 2 * (g.kpiW + 20) = g.kpiW + 20 + g.kpiW + 20
      BY <1>1
    <3>2. s.kpis * (g.kpiW + 20) \in {0, g.kpiW + 20, g.kpiW + 20 + g.kpiW + 20}
      BY <1>1, <3>1
    <3> HIDE DEF c
    <3> QED
      BY <1>1, <1>2, <3>2 DEF KpiX
  <2>2. c \in LayoutBlock
    BY <1>1, <2>1, AtTypes
  <2>3. Append(s.out, c) \in Seq(LayoutBlock)
    <3> HIDE DEF c
    <3> QED
      BY <1>1, <2>2
  <2>4. KpiPlaced(g, s, b) =
            [left |-> IF s.left >= KpiRow(s) + 132 THEN s.left ELSE KpiRow(s) + 132,
             right |-> IF s.right >= KpiRow(s) + 132 THEN s.right ELSE KpiRow(s) + 132,
             row |-> KpiRow(s), kpis |-> IF s.kpis = 2 THEN 0 ELSE s.kpis + 1, out |-> Append(s.out, c)]
    BY Zenon DEF KpiPlaced
  <2> HIDE DEF c
  <2> QED
    BY <1>1, <1>2, <1>3, <2>3, <2>4 DEF Placed, PlaceStates
<1>4. CASE b.kind = "chart"
  <2> DEFINE onLeft == g.cols = 1 \/ s.left <= s.right
             bottom == IF onLeft THEN s.left ELSE s.right
             y == Below(bottom)
             x == IF onLeft THEN 20 ELSE g.rightX
             c == Server!At(b, x, y, g.chartW, 320)
  <2>1. bottom \in Nat /\ x \in Nat
    BY <1>1
  <2>2. y \in Nat
    <3> HIDE DEF bottom
    <3> QED
      BY <2>1, BelowIs
  <2>3. c \in LayoutBlock
    <3>1. x \in Int /\ y \in Int /\ g.chartW \in Nat /\ 320 \in Nat
      BY <1>1, <2>1, <2>2
    <3> HIDE DEF x, y
    <3> QED
      BY <3>1, AtTypes
  <2>4. Append(s.out, c) \in Seq(LayoutBlock)
    <3> HIDE DEF c
    <3> QED
      BY <1>1, <2>3
  <2>5. ChartPlaced(g, s, b) = [left |-> IF onLeft THEN y + 320 ELSE s.left,
        right |-> IF onLeft THEN s.right ELSE y + 320, row |-> 0, kpis |-> 0, out |-> Append(s.out, c)]
    BY Zenon DEF ChartPlaced
  <2> HIDE DEF c, y
  <2> QED
    BY <1>1, <1>4, <2>2, <2>4, <2>5 DEF Placed, PlaceStates
<1>5. CASE b.kind \notin {"kpi", "chart"}
  <2> DEFINE h == Server!BlockHeight(Plain(b), g)
             c == Server!At(Plain(b), 20, Below(Deepest(s)), FullWidth(g, b), Plain(b).h)
  <2>1. h \in Nat
    BY PlainIs, HeightIs
  <2>2. FullWidth(g, b) \in Nat /\ Plain(b).h \in Nat
    <3>1. Plain(b).h \in Nat
      BY PlainIs DEF LayoutBlock
    <3> QED
      BY <1>1, <3>1 DEF FullWidth
  <2>3. c \in LayoutBlock
    <3>1. 20 \in Int /\ Below(Deepest(s)) \in Int /\ Plain(b) \in LayoutBlock
      BY <1>2, PlainIs
    <3> QED
      BY <2>2, <3>1, AtTypes
  <2>4. Append(s.out, c) \in Seq(LayoutBlock)
    <3> HIDE DEF c
    <3> QED
      BY <1>1, <2>3
  <2>5. WholePlaced(g, s, b) = [left |-> Below(Deepest(s)) + h, right |-> Below(Deepest(s)) + h,
                                row |-> 0, kpis |-> 0, out |-> Append(s.out, c)]
    BY Zenon DEF WholePlaced
  <2> HIDE DEF c, h
  <2> QED
    BY <1>2, <1>5, <2>1, <2>4, <2>5 DEF Placed, PlaceStates
<1> QED
  BY <1>3, <1>4, <1>5

LEMMA PlacingsAre ==
    ASSUME NEW list \in Seq(LayoutBlock), NEW width \in Nat
    PROVE  /\ Server!Placings(list, width) \in [0 .. Len(list) -> PlaceStates]
           /\ Server!Placings(list, width)[0] = PlaceStart
           /\ \A n \in 1 .. Len(list) :
                 Server!Placings(list, width)[n] =
                     Placed(Server!Geometry(width), Server!Placings(list, width)[n - 1], list[n])
<1> DEFINE g == Server!Geometry(width)
           f == Server!Placings(list, width)
           N == Len(list)
           step == [n \in 1 .. N |-> [s \in PlaceStates |-> Server!Placing(g, s, list[n])]]
<1>1. g \in Geometries /\ N \in Nat /\ \A n \in 1 .. N : list[n] \in LayoutBlock
  BY GeometryIs
<1>2. \A n \in 1 .. N : \A s \in PlaceStates :
         Server!Placing(g, s, list[n]) = Placed(g, s, list[n]) /\ Placed(g, s, list[n]) \in PlaceStates
  <2> HIDE DEF g
  <2> QED
    BY <1>1, PlacingIs, PlacedTypes
<1>3. step \in [1 .. N -> [PlaceStates -> PlaceStates]]
  BY <1>2
<1>4. PlaceStart \in PlaceStates
  BY DEF PlaceStart, PlaceStates
<1>5. PICK h : Recurses(h, N, PlaceStates, PlaceStart, step)
  <2> HIDE DEF step, N
  <2> QED
    BY <1>1, <1>3, <1>4, Recursion
<1>6. h = [n \in 0 .. N |-> IF n = 0 THEN PlaceStart ELSE Server!Placing(g, h[n - 1], list[n])]
  <2>1. /\ h \in [0 .. N -> PlaceStates] /\ h[0] = PlaceStart
        /\ \A n \in 1 .. N : h[n] = step[n][h[n - 1]]
    BY <1>5, Zenon DEF Recurses
  <2> HIDE DEF g, N
  <2>2. ASSUME NEW n \in 1 .. N PROVE n # 0 /\ h[n] = Server!Placing(g, h[n - 1], list[n])
    <3>1. n - 1 \in 0 .. N /\ n # 0
      BY <1>1
    <3>2. h[n - 1] \in PlaceStates
      BY <2>1, <3>1
    <3> QED
      BY <2>1, <3>1, <3>2
  <2>3. \A n \in 0 .. N : n = 0 \/ n \in 1 .. N
    BY <1>1
  <2> QED
    BY <2>1, <2>2, <2>3
<1>7. f = CHOOSE e : e = [n \in 0 .. N |-> IF n = 0 THEN PlaceStart ELSE Server!Placing(g, e[n - 1], list[n])]
  BY Zenon DEF Server!Placings, PlaceStart, Server!StartY
<1> HIDE DEF f
<1>8. f = [n \in 0 .. N |-> IF n = 0 THEN PlaceStart ELSE Server!Placing(g, f[n - 1], list[n])]
  BY <1>6, <1>7, Zenon
<1>9. \A n \in 0 .. N : f[n] = IF n = 0 THEN PlaceStart ELSE Server!Placing(g, f[n - 1], list[n])
  BY <1>8, Zenon
<1> DEFINE G == {n \in 0 .. N : f[n] \in PlaceStates}
<1>10. 0 \in G
  BY <1>1, <1>4, <1>9
<1>11. ASSUME NEW n \in 1 .. N, n - 1 \in G PROVE n \in G
  <2>1. n \in 0 .. N /\ n # 0 /\ f[n - 1] \in PlaceStates
    BY <1>1, <1>11
  <2> HIDE DEF g, N
  <2> QED
    BY <1>2, <1>9, <2>1
<1>12. \A n \in 0 .. N : f[n] \in PlaceStates
  <2> HIDE DEF G
  <2>1. \A n \in 1 .. N : n - 1 \in G => n \in G
    BY <1>11
  <2>2. \A n \in 0 .. N : n \in G
    BY <1>1, <1>10, <2>1, Inductive
  <2> QED
    BY <2>2 DEF G
<1>13. f[0] = PlaceStart
  BY <1>1, <1>9
<1>14. ASSUME NEW n \in 1 .. N PROVE f[n] = Placed(g, f[n - 1], list[n])
  <2>1. n \in 0 .. N /\ n # 0 /\ n - 1 \in 0 .. N
    BY <1>1
  <2> HIDE DEF g, N
  <2> QED
    BY <1>2, <1>9, <1>12, <2>1
<1>15. f \in [0 .. N -> PlaceStates]
  <2> HIDE DEF N
  <2> QED
    BY <1>8, <1>12
<1> QED
  BY <1>13, <1>14, <1>15 DEF f

LEMMA ApartAppends ==
    ASSUME NEW list \in Seq(LayoutBlock), NEW c \in LayoutBlock, NEW g, Apart(list, g),
           \A k \in 1 .. Len(list) : list[k].placed /\ c.placed => ~Overlap(list[k], c, g)
    PROVE  Apart(Append(list, c), g)
<1> DEFINE more == Append(list, c)
<1>1. /\ DOMAIN list = 1 .. Len(list) /\ DOMAIN more = 1 .. Len(list) + 1 /\ Len(list) \in Nat
      /\ \A k \in 1 .. Len(list) : more[k] = list[k]
      /\ more[Len(list) + 1] = c
  OBVIOUS
<1>2. ASSUME NEW i \in DOMAIN more, NEW j \in DOMAIN more, i < j, more[i].placed, more[j].placed
      PROVE  ~Overlap(more[i], more[j], g)
  <2> HIDE DEF more
  <2>1. i \in 1 .. Len(list) /\ more[i] = list[i]
    BY <1>1, <1>2
  <2>2. CASE j \in 1 .. Len(list)
    <3>1. more[j] = list[j]
      BY <1>1, <2>2
    <3> QED
      BY <1>1, <1>2, <2>1, <2>2, <3>1 DEF Apart
  <2>3. CASE j = Len(list) + 1
    <3>1. more[j] = c
      BY <1>1, <2>3
    <3> QED
      BY <1>2, <2>1, <3>1
  <2> QED
    BY <1>1, <2>2, <2>3
<1> HIDE DEF more
<1>3. Apart(more, g)
  BY <1>2 DEF Apart
<1> QED
  BY <1>3 DEF more

\* Blocks of which one ends where the other begins, or beside it.
LEMMA BesideApart ==
    ASSUME NEW a \in LayoutBlock, NEW c \in LayoutBlock, NEW g \in Geometries,
           \/ Server!Bottom(a, g) <= c.y
           \/ a.x + Server!WidthOf(a, g) <= c.x
           \/ c.x + Server!WidthOf(c, g) <= a.x
    PROVE  ~Overlap(a, c, g)
<1>1. Server!WidthOf(a, g) \in Nat /\ Server!WidthOf(c, g) \in Nat
  BY WidthIs
<1>2. a.x \in Int /\ c.x \in Int /\ c.y \in Int /\ a.y \in Int
  BY DEF LayoutBlock
<1>3. Server!Bottom(a, g) \in Int
  BY <1>2, HeightIs DEF Server!Bottom
<1> QED
  BY <1>1, <1>2, <1>3 DEF Overlap

\* Once a text has the width of the canvas it is as low as it was estimated, or lower.
LEMMA LaidIsLower ==
    ASSUME NEW g \in Geometries, NEW b \in LayoutBlock, NEW y \in Nat,
           b.kind \notin {"kpi", "chart"}, b.kind = "text" => b.w <= g.fullW
    PROVE  Server!BlockHeight(Server!At(Plain(b), 20, y, FullWidth(g, b), Plain(b).h), g)
               <= Server!BlockHeight(Plain(b), g)
<1> DEFINE c == Server!At(Plain(b), 20, y, FullWidth(g, b), Plain(b).h)
           v == IF b.w > 0 THEN b.w ELSE g.fullW
<1>1. c.kind = Plain(b).kind /\ c.text = Plain(b).text /\ c.w = FullWidth(g, b) /\ c.h = Plain(b).h
  <2>1. Plain(b) \in LayoutBlock
    BY PlainIs
  <2> QED
    BY <2>1 DEF LayoutBlock, Server!At
<1>2. /\ Plain(b).kind = b.kind /\ Plain(b).text = b.text /\ Plain(b).w = b.w
      /\ (b.kind # "image" => Plain(b).h = 0) /\ Plain(b).h \in Nat
      /\ b.w \in Nat /\ b.text \in Nat /\ g.fullW \in Nat /\ g.fullW >= 320
  BY DEF Plain, LayoutBlock, Geometries
<1>3. Server!BlockHeight(Plain(b), g) \in Nat
  BY PlainIs, HeightIs
<1> HIDE DEF c
<1>4. CASE b.kind = "text"
  <2>1. v \in Nat /\ 0 < v /\ v <= g.fullW
    BY <1>2, <1>4
  <2>2. /\ Server!TextHeight(b.text, g.fullW) <= Server!TextHeight(b.text, v)
    <3> HIDE DEF v
    <3> QED
      BY <1>2, <2>1, TextIs
  <2>3. Server!BlockHeight(Plain(b), g) = Server!TextHeight(b.text, v)
    BY <1>2, <1>4 DEF Server!BlockHeight
  <2>4. Server!BlockHeight(c, g) = Server!TextHeight(b.text, g.fullW)
    BY <1>1, <1>2, <1>4 DEF Server!BlockHeight, FullWidth
  <2> QED
    BY <2>2, <2>3, <2>4 DEF c
<1>5. CASE b.kind # "text"
  <2>1. Server!BlockHeight(c, g) = Server!BlockHeight(Plain(b), g)
    BY <1>1, <1>2, <1>5 DEF Server!BlockHeight
  <2> QED
    BY <1>3, <2>1 DEF c
<1> QED
  BY <1>4, <1>5

\* A block above what is open in its column, or in the other column.
Clears(c, s, g) ==
    /\ c.placed /\ c.w > 0
    /\ Server!Bottom(c, g) <= s.left \/ c.x >= g.rightX
    /\ Server!Bottom(c, g) <= s.right \/ c.x + c.w <= g.rightX
    /\ s.kpis > 0 => Server!Bottom(c, g) <= s.row \/ c.x + c.w <= KpiX(g, s)
AllClear(s, g) ==
    /\ \A k \in 1 .. Len(s.out) : Clears(s.out[k], s, g)
    /\ s.kpis > 0 => s.left >= s.row + 132 /\ s.right >= s.row + 132
    /\ Apart(s.out, g)

LEMMA ClearAppends ==
    ASSUME NEW g \in Geometries, NEW s \in PlaceStates, NEW r \in PlaceStates, NEW c \in LayoutBlock,
           AllClear(s, g), r.out = Append(s.out, c), c.placed, c.w > 0,
           Clears(c, r, g), r.kpis > 0 => r.left >= r.row + 132 /\ r.right >= r.row + 132,
           \A a \in LayoutBlock : Clears(a, s, g) =>
               /\ Clears(a, r, g)
               /\ \/ Server!Bottom(a, g) <= c.y \/ a.x + a.w <= c.x \/ c.x + c.w <= a.x
    PROVE  AllClear(r, g)
<1>1. s.out \in Seq(LayoutBlock) /\ Len(s.out) \in Nat
  BY DEF PlaceStates
<1>2. \A k \in 1 .. Len(s.out) : s.out[k] \in LayoutBlock /\ Clears(s.out[k], s, g)
  BY <1>1 DEF AllClear
<1>3. ASSUME NEW k \in 1 .. Len(s.out) PROVE ~Overlap(s.out[k], c, g)
  <2> DEFINE a == s.out[k]
  <2>1. a \in LayoutBlock /\ Clears(a, s, g)
    BY <1>2
  <2> HIDE DEF a
  <2>2. a.w > 0 /\ a.w \in Nat /\ c.w \in Nat
    BY <2>1 DEF Clears, LayoutBlock
  <2>3. Server!WidthOf(a, g) = a.w /\ Server!WidthOf(c, g) = c.w
    BY <2>2 DEF Server!WidthOf
  <2>4. \/ Server!Bottom(a, g) <= c.y \/ a.x + a.w <= c.x \/ c.x + c.w <= a.x
    BY <2>1
  <2>5. ~Overlap(a, c, g)
    BY <2>1, <2>3, <2>4, BesideApart
  <2> QED
    BY <2>5 DEF a
<1>4. Apart(s.out, g)
  BY DEF AllClear
<1>5. Apart(r.out, g)
  BY <1>1, <1>3, <1>4, ApartAppends
<1>6. ASSUME NEW k \in 1 .. Len(r.out) PROVE Clears(r.out[k], r, g)
  <2>1. k \in 1 .. Len(s.out) + 1
    BY <1>1
  <2>2. CASE k \in 1 .. Len(s.out)
    <3>1. r.out[k] = s.out[k]
      BY <1>1, <2>2
    <3> QED
      BY <1>2, <2>2, <3>1
  <2>3. CASE k = Len(s.out) + 1
    <3>1. r.out[k] = c
      BY <1>1, <2>3
    <3> QED
      BY <3>1
  <2> QED
    BY <2>1, <2>2, <2>3
<1> QED
  BY <1>5, <1>6 DEF AllClear

LEMMA KpiClear ==
    ASSUME NEW g \in Geometries, NEW s \in PlaceStates, NEW b \in LayoutBlock, AllClear(s, g), b.kind = "kpi"
    PROVE  AllClear(KpiPlaced(g, s, b), g)
<1> DEFINE r == KpiPlaced(g, s, b)
           y == KpiRow(s)
           x == KpiX(g, s)
           c == Server!At(b, x, y, g.kpiW, 132)
<1>1. /\ s.left \in Nat /\ s.right \in Nat /\ s.row \in Nat /\ s.kpis \in {0, 1, 2} /\ g.kpiW \in Nat
      /\ g.kpiW > 0
  BY DEF PlaceStates, Geometries
<1>2. y \in Nat /\ (s.kpis = 0 => y >= s.left /\ y >= s.right) /\ (s.kpis > 0 => y = s.row)
  BY <1>1, BelowDeepest DEF KpiRow
<1>3. x \in Int /\ x >= 20 /\ (s.kpis # 2 => x + g.kpiW <= 20 + (s.kpis + 1) * (g.kpiW + 20))
  BY <1>1 DEF KpiX
<1>4. c \in LayoutBlock /\ c.placed /\ c.kind = "kpi" /\ c.x = x /\ c.y = y /\ c.w = g.kpiW /\ c.h = 132
  <2>1. x \in Int /\ y \in Int /\ g.kpiW \in Nat /\ 132 \in Nat
    BY <1>1, <1>2, <1>3
  <2> HIDE DEF x, y
  <2>2. c \in LayoutBlock
    BY <2>1, AtTypes
  <2>3. c.kind = b.kind /\ c.placed = TRUE /\ c.x = x /\ c.y = y /\ c.w = g.kpiW /\ c.h = 132
    BY DEF LayoutBlock, Server!At
  <2> QED
    BY <2>2, <2>3
<1>5. r \in PlaceStates
  <2>1. Placed(g, s, b) = r
    BY DEF Placed
  <2> QED
    BY <2>1, PlacedTypes
<1>6. /\ r.left = (IF s.left >= y + 132 THEN s.left ELSE y + 132)
      /\ r.right = (IF s.right >= y + 132 THEN s.right ELSE y + 132)
      /\ r.row = y /\ r.kpis = (IF s.kpis = 2 THEN 0 ELSE s.kpis + 1) /\ r.out = Append(s.out, c)
  BY DEF KpiPlaced
<1> HIDE DEF r, c, y
<1>7. Server!Bottom(c, g) = y + 132
  BY <1>4 DEF Server!Bottom, Server!BlockHeight
<1>8. Clears(c, r, g)
  <2>1. r.kpis > 0 => c.x + c.w <= KpiX(g, r)
    BY <1>1, <1>3, <1>4, <1>6 DEF KpiX
  <2> QED
    BY <1>1, <1>2, <1>4, <1>6, <1>7, <2>1 DEF Clears
<1>9. r.kpis > 0 => r.left >= r.row + 132 /\ r.right >= r.row + 132
  BY <1>1, <1>2, <1>6
<1>10. ASSUME NEW a \in LayoutBlock, Clears(a, s, g)
       PROVE  /\ Clears(a, r, g)
              /\ \/ Server!Bottom(a, g) <= c.y \/ a.x + a.w <= c.x \/ c.x + c.w <= a.x
  <2>1. Server!Bottom(a, g) \in Int /\ a.x \in Int /\ a.w \in Nat /\ g.rightX \in Nat
    BY HeightIs DEF Server!Bottom, LayoutBlock, Geometries
  <2>2. /\ Server!Bottom(a, g) <= s.left \/ a.x >= g.rightX
        /\ Server!Bottom(a, g) <= s.right \/ a.x + a.w <= g.rightX
        /\ a.w > 0 /\ a.placed
    BY <1>10 DEF Clears
  <2>3. CASE s.kpis = 0
    <3>1. Server!Bottom(a, g) <= y
      BY <1>1, <1>2, <2>1, <2>2, <2>3
    <3> QED
      BY <1>1, <1>2, <1>4, <1>6, <2>1, <2>2, <3>1 DEF Clears
  <2>4. CASE s.kpis > 0
    <3>1. Server!Bottom(a, g) <= y \/ a.x + a.w <= x
      BY <1>2, <1>10, <2>4 DEF Clears
    <3>2. r.kpis > 0 => x <= KpiX(g, r)
      BY <1>1, <1>3, <1>6 DEF KpiX
    <3>3. KpiX(g, r) \in Int \/ r.kpis = 0
      BY <1>1, <1>6 DEF KpiX
    <3>4. Clears(a, r, g)
      BY <1>1, <1>2, <1>3, <1>6, <2>1, <2>2, <3>1, <3>2, <3>3 DEF Clears
    <3> QED
      BY <1>4, <3>1, <3>4
  <2> QED
    BY <1>1, <2>3, <2>4
<1>11. AllClear(r, g)
  BY <1>4, <1>1, <1>5, <1>6, <1>8, <1>9, <1>10, ClearAppends
<1> QED
  BY <1>11 DEF r

LEMMA ChartClear ==
    ASSUME NEW g \in Geometries, NEW s \in PlaceStates, NEW b \in LayoutBlock, AllClear(s, g), b.kind = "chart"
    PROVE  AllClear(ChartPlaced(g, s, b), g)
<1> DEFINE r == ChartPlaced(g, s, b)
           onLeft == g.cols = 1 \/ s.left <= s.right
           bottom == IF onLeft THEN s.left ELSE s.right
           y == Below(bottom)
           x == IF onLeft THEN 20 ELSE g.rightX
           c == Server!At(b, x, y, g.chartW, 320)
<1>1. /\ s.left \in Nat /\ s.right \in Nat /\ g.chartW \in Nat /\ g.chartW > 0
      /\ g.rightX = g.chartW + 40 /\ g.rightX \in Nat
  BY DEF PlaceStates, Geometries
<1>2. y \in Nat /\ y >= bottom
  <2>1. bottom \in Nat
    BY <1>1
  <2> HIDE DEF bottom
  <2> QED
    BY <2>1, BelowIs
<1>4. c \in LayoutBlock /\ c.placed /\ c.kind = "chart" /\ c.x = x /\ c.y = y /\ c.w = g.chartW /\ c.h = 320
  <2>1. x \in Int /\ y \in Int /\ g.chartW \in Nat /\ 320 \in Nat
    BY <1>1, <1>2
  <2> HIDE DEF x, y
  <2>2. c \in LayoutBlock
    BY <2>1, AtTypes
  <2>3. c.kind = b.kind /\ c.placed = TRUE /\ c.x = x /\ c.y = y /\ c.w = g.chartW /\ c.h = 320
    BY DEF LayoutBlock, Server!At
  <2> QED
    BY <2>2, <2>3
<1>5. r \in PlaceStates
  <2>1. Placed(g, s, b) = r
    BY DEF Placed
  <2> QED
    BY <2>1, PlacedTypes
<1>6. /\ r.left = (IF onLeft THEN y + 320 ELSE s.left) /\ r.right = (IF onLeft THEN s.right ELSE y + 320)
      /\ r.kpis = 0 /\ r.out = Append(s.out, c)
  BY DEF ChartPlaced
<1> HIDE DEF r, c, y
<1>7. Server!Bottom(c, g) = y + 320
  BY <1>4 DEF Server!Bottom, Server!BlockHeight
<1>8. Clears(c, r, g)
  BY <1>1, <1>2, <1>4, <1>6, <1>7 DEF Clears
<1>10. ASSUME NEW a \in LayoutBlock, Clears(a, s, g)
       PROVE  /\ Clears(a, r, g)
              /\ \/ Server!Bottom(a, g) <= c.y \/ a.x + a.w <= c.x \/ c.x + c.w <= a.x
  <2>1. Server!Bottom(a, g) \in Int /\ a.x \in Int /\ a.w \in Nat
    BY HeightIs DEF Server!Bottom, LayoutBlock
  <2>2. /\ Server!Bottom(a, g) <= s.left \/ a.x >= g.rightX
        /\ Server!Bottom(a, g) <= s.right \/ a.x + a.w <= g.rightX
        /\ a.w > 0 /\ a.placed
    BY <1>10 DEF Clears
  <2>3. Clears(a, r, g)
    BY <1>1, <1>2, <1>6, <2>1, <2>2 DEF Clears
  <2> QED
    BY <1>1, <1>2, <1>4, <2>1, <2>2, <2>3
<1>11. AllClear(r, g)
  BY <1>4, <1>1, <1>5, <1>6, <1>8, <1>10, ClearAppends
<1> QED
  BY <1>11 DEF r

LEMMA WholeClear ==
    ASSUME NEW g \in Geometries, NEW s \in PlaceStates, NEW b \in LayoutBlock, AllClear(s, g),
           b.kind \notin {"kpi", "chart"}, b.kind = "text" => b.w <= g.fullW
    PROVE  AllClear(WholePlaced(g, s, b), g)
<1> DEFINE r == WholePlaced(g, s, b)
           y == Below(Deepest(s))
           h == Server!BlockHeight(Plain(b), g)
           c == Server!At(Plain(b), 20, y, FullWidth(g, b), Plain(b).h)
<1>1. /\ s.left \in Nat /\ s.right \in Nat /\ g.fullW \in Nat /\ g.fullW > 0 /\ g.rightX \in Nat
      /\ Plain(b) \in LayoutBlock /\ b.w \in Nat
  <2>1. Plain(b) \in LayoutBlock
    BY PlainIs
  <2>2. s.left \in Nat /\ s.right \in Nat
    BY DEF PlaceStates
  <2>3. g.fullW \in Nat /\ g.fullW > 0 /\ g.rightX \in Nat
    BY DEF Geometries
  <2>4. b.w \in Nat
    BY DEF LayoutBlock
  <2> QED
    BY <2>1, <2>2, <2>3, <2>4
<1>2. y \in Nat /\ y >= s.left /\ y >= s.right
  BY BelowDeepest
<1>3. h \in Nat
  BY <1>1, HeightIs
<1>4. c \in LayoutBlock /\ c.placed /\ c.x = 20 /\ c.y = y /\ c.w = FullWidth(g, b) /\ c.w > 0
  <2>1. 20 \in Int /\ y \in Int /\ FullWidth(g, b) \in Nat /\ FullWidth(g, b) > 0 /\ Plain(b).h \in Nat
    BY <1>1, <1>2 DEF FullWidth, LayoutBlock
  <2> HIDE DEF y
  <2>2. c \in LayoutBlock
    BY <1>1, <2>1, AtTypes
  <2>3. c.placed = TRUE /\ c.x = 20 /\ c.y = y /\ c.w = FullWidth(g, b)
    BY <1>1 DEF LayoutBlock, Server!At
  <2> QED
    BY <2>1, <2>2, <2>3
<1>5. r \in PlaceStates
  <2>1. Placed(g, s, b) = r
    BY DEF Placed
  <2> QED
    BY <2>1, PlacedTypes
<1>6. r.left = y + h /\ r.right = y + h /\ r.kpis = 0 /\ r.out = Append(s.out, c)
  BY DEF WholePlaced
<1>7. Server!BlockHeight(c, g) <= h /\ Server!BlockHeight(c, g) \in Nat
  <2>1. Server!BlockHeight(c, g) <= h
    <3> HIDE DEF y
    <3> QED
      BY <1>2, LaidIsLower
  <2> HIDE DEF c
  <2> QED
    BY <1>4, <2>1, HeightIs
<1> HIDE DEF r, c, y, h
<1>8. Server!Bottom(c, g) <= y + h /\ Server!Bottom(c, g) \in Int
  BY <1>2, <1>3, <1>4, <1>7 DEF Server!Bottom
<1>9. Clears(c, r, g)
  BY <1>1, <1>2, <1>3, <1>4, <1>6, <1>8 DEF Clears
<1>10. ASSUME NEW a \in LayoutBlock, Clears(a, s, g)
       PROVE  /\ Clears(a, r, g)
              /\ \/ Server!Bottom(a, g) <= c.y \/ a.x + a.w <= c.x \/ c.x + c.w <= a.x
  <2>1. Server!Bottom(a, g) \in Int /\ a.x \in Int /\ a.w \in Nat
    BY HeightIs DEF Server!Bottom, LayoutBlock
  <2>2. /\ Server!Bottom(a, g) <= s.left \/ a.x >= g.rightX
        /\ Server!Bottom(a, g) <= s.right \/ a.x + a.w <= g.rightX
        /\ a.w > 0 /\ a.placed
    BY <1>10 DEF Clears
  <2>3. Server!Bottom(a, g) <= y
    BY <1>1, <1>2, <2>1, <2>2
  <2>4. Clears(a, r, g)
    BY <1>1, <1>2, <1>3, <1>6, <2>1, <2>2, <2>3 DEF Clears
  <2> QED
    BY <1>4, <2>3, <2>4
<1>11. AllClear(r, g)
  BY <1>4, <1>1, <1>5, <1>6, <1>9, <1>10, ClearAppends
<1> QED
  BY <1>11 DEF r

\* Whatever was placed where before, an arrangement has no block over another.
LEMMA ArrangementIsApart ==
    ASSUME NEW list \in Seq(LayoutBlock), NEW width \in Nat,
           \A b \in Range(list) : b.kind = "text" => b.w <= Server!Geometry(width).fullW
    PROVE  Apart(Server!Arranged(list, width), Server!Geometry(width))
<1> DEFINE g == Server!Geometry(width)
           f == Server!Placings(list, width)
           G == {n \in 0 .. Len(list) : AllClear(f[n], g)}
<1>1. /\ f \in [0 .. Len(list) -> PlaceStates] /\ f[0] = PlaceStart
      /\ \A n \in 1 .. Len(list) : f[n] = Placed(g, f[n - 1], list[n])
  BY PlacingsAre
<1>2. g \in Geometries /\ Len(list) \in Nat
  BY GeometryIs
<1>3. \A n \in 1 .. Len(list) : list[n] \in LayoutBlock /\ (list[n].kind = "text" => list[n].w <= g.fullW)
  BY DEF Range
<1>4. Server!Arranged(list, width) = f[Len(list)].out
  BY DEF Server!Arranged
<1> HIDE DEF f, g
<1>5. AllClear(PlaceStart, g)
  BY DEF AllClear, PlaceStart, Apart
<1>6. 0 \in G
  BY <1>1, <1>2, <1>5
<1>7. ASSUME NEW n \in 1 .. Len(list), n - 1 \in G PROVE n \in G
  <2>1. n \in 0 .. Len(list) /\ f[n - 1] \in PlaceStates /\ AllClear(f[n - 1], g) /\ list[n] \in LayoutBlock
    BY <1>1, <1>2, <1>3, <1>7
  <2>2. list[n].kind = "text" => list[n].w <= g.fullW
    BY <1>3
  <2>3. AllClear(Placed(g, f[n - 1], list[n]), g)
    BY <1>2, <2>1, <2>2, KpiClear, ChartClear, WholeClear DEF Placed
  <2> QED
    BY <1>1, <2>1, <2>3
<1>8. Len(list) \in G
  <2> HIDE DEF G
  <2>1. \A n \in 1 .. Len(list) : n - 1 \in G => n \in G
    BY <1>7
  <2>2. \A n \in 0 .. Len(list) : n \in G
    BY <1>2, <1>6, <2>1, Inductive
  <2> QED
    BY <1>2, <2>2
<1>9. Apart(f[Len(list)].out, g)
  BY <1>8 DEF AllClear
<1> QED
  BY <1>4, <1>9 DEF g

\* The block as it is laid.
Laid(g, s, b) ==
    CASE b.kind = "kpi" -> Server!At(b, KpiX(g, s), KpiRow(s), g.kpiW, 132)
      [] b.kind = "chart" ->
            Server!At(b, IF g.cols = 1 \/ s.left <= s.right THEN 20 ELSE g.rightX,
                      Below(IF g.cols = 1 \/ s.left <= s.right THEN s.left ELSE s.right), g.chartW, 320)
      [] OTHER -> Server!At(Plain(b), 20, Below(Deepest(s)), FullWidth(g, b), Plain(b).h)

LEMMA LaidIsLast ==
    ASSUME NEW g \in Geometries, NEW s \in PlaceStates, NEW b \in LayoutBlock
    PROVE  /\ Placed(g, s, b).out = Append(s.out, Laid(g, s, b))
           /\ Laid(g, s, b) \in LayoutBlock
           /\ Laid(g, s, b).kind = b.kind /\ (b.kind = "text" => Laid(g, s, b).w = g.fullW)
<1>1. Placed(g, s, b).out = Append(s.out, Laid(g, s, b))
  <2>1. CASE b.kind = "kpi"
    BY <2>1 DEF Placed, KpiPlaced, Laid
  <2>2. CASE b.kind = "chart"
    BY <2>2 DEF Placed, ChartPlaced, Laid
  <2>3. CASE b.kind \notin {"kpi", "chart"}
    BY <2>3 DEF Placed, WholePlaced, Laid
  <2> QED
    BY <2>1, <2>2, <2>3
<1>2. /\ s.left \in Nat /\ s.right \in Nat /\ s.kpis \in {0, 1, 2} /\ KpiRow(s) \in Nat
      /\ Below(Deepest(s)) \in Nat
  BY BelowDeepest DEF PlaceStates
<1>3. /\ g.fullW \in Nat /\ g.chartW \in Nat /\ g.kpiW \in Nat /\ g.rightX \in Nat
  BY DEF Geometries
<1>4. Plain(b) \in LayoutBlock /\ FullWidth(g, b) \in Nat /\ Plain(b).kind = b.kind
      /\ (b.kind = "text" => FullWidth(g, b) = g.fullW)
  BY <1>3, PlainIs DEF FullWidth, LayoutBlock, Plain
<1>5. Laid(g, s, b) \in LayoutBlock
  <2>1. CASE b.kind = "kpi"
    <3>1. KpiX(g, s) \in Int /\ KpiRow(s) \in Int /\ 132 \in Nat
      BY <1>2, <1>3 DEF KpiX
    <3>2. Laid(g, s, b) = Server!At(b, KpiX(g, s), KpiRow(s), g.kpiW, 132)
      BY <2>1 DEF Laid
    <3>3. Server!At(b, KpiX(g, s), KpiRow(s), g.kpiW, 132) \in LayoutBlock
      BY <1>3, <3>1, AtTypes
    <3> QED
      BY <3>2, <3>3
  <2>2. CASE b.kind = "chart"
    <3> DEFINE x == IF g.cols = 1 \/ s.left <= s.right THEN 20 ELSE g.rightX
               bottom == IF g.cols = 1 \/ s.left <= s.right THEN s.left ELSE s.right
    <3>1. x \in Int /\ bottom \in Nat /\ 320 \in Nat
      BY <1>2, <1>3
    <3>2. Laid(g, s, b) = Server!At(b, x, Below(bottom), g.chartW, 320)
      BY <2>2 DEF Laid
    <3> HIDE DEF x, bottom
    <3>3. Below(bottom) \in Int
      BY <3>1, BelowIs
    <3>4. Server!At(b, x, Below(bottom), g.chartW, 320) \in LayoutBlock
      BY <1>3, <3>1, <3>3, AtTypes
    <3> QED
      BY <3>2, <3>4
  <2>3. CASE b.kind \notin {"kpi", "chart"}
    <3>1. Laid(g, s, b) = Server!At(Plain(b), 20, Below(Deepest(s)), FullWidth(g, b), Plain(b).h)
      BY <2>3 DEF Laid
    <3>2. 20 \in Int /\ Below(Deepest(s)) \in Int
      BY <1>2
    <3>3. Plain(b).h \in Nat
      BY <1>4 DEF LayoutBlock
    <3>4. Server!At(Plain(b), 20, Below(Deepest(s)), FullWidth(g, b), Plain(b).h) \in LayoutBlock
      BY <1>4, <3>2, <3>3, AtTypes
    <3> QED
      BY <3>1, <3>4
  <2> QED
    BY <2>1, <2>2, <2>3
<1>6. Laid(g, s, b).kind = b.kind /\ (b.kind = "text" => Laid(g, s, b).w = g.fullW)
  <2>1. CASE b.kind = "kpi"
    BY <2>1 DEF Laid, Server!At, LayoutBlock
  <2>2. CASE b.kind = "chart"
    BY <2>2 DEF Laid, Server!At, LayoutBlock
  <2>3. CASE b.kind \notin {"kpi", "chart"}
    BY <1>4, <2>3 DEF Laid, Server!At, LayoutBlock
  <2> QED
    BY <2>1, <2>2, <2>3
<1> QED
  BY <1>1, <1>5, <1>6

LEMMA AtTwice ==
    ASSUME NEW b \in LayoutBlock, NEW x \in Int, NEW y \in Int, NEW w \in Nat, NEW h \in Nat
    PROVE  Server!At(Server!At(b, x, y, w, h), x, y, w, h) = Server!At(b, x, y, w, h)
BY DEF LayoutBlock, Server!At

\* A block that was laid is laid there again.
LEMMA LaidStays ==
    ASSUME NEW g \in Geometries, NEW s \in PlaceStates, NEW b \in LayoutBlock,
           b.kind = "text" => b.w = g.fullW
    PROVE  Placed(g, s, Laid(g, s, b)) = Placed(g, s, b)
<1> DEFINE c == Laid(g, s, b)
<1>1. c.kind = b.kind /\ c \in LayoutBlock
  BY LaidIsLast
<1>2. CASE b.kind = "kpi"
  <2>1. c = Server!At(b, KpiX(g, s), KpiRow(s), g.kpiW, 132)
    BY <1>2 DEF Laid
  <2>2. Server!At(c, KpiX(g, s), KpiRow(s), g.kpiW, 132) = c
    <3> HIDE DEF c
    <3> QED
      BY <2>1 DEF LayoutBlock, Server!At
  <2> HIDE DEF c
  <2>3. Server!At(c, KpiX(g, s), KpiRow(s), g.kpiW, 132) = Server!At(b, KpiX(g, s), KpiRow(s), g.kpiW, 132)
    BY <2>1, <2>2
  <2>4. KpiPlaced(g, s, c) = KpiPlaced(g, s, b)
    BY <2>3, Zenon DEF KpiPlaced
  <2>5. Placed(g, s, c) = KpiPlaced(g, s, c) /\ Placed(g, s, b) = KpiPlaced(g, s, b)
    BY <1>1, <1>2 DEF Placed
  <2> QED
    BY <2>4, <2>5 DEF c
<1>3. CASE b.kind = "chart"
  <2> DEFINE x == IF g.cols = 1 \/ s.left <= s.right THEN 20 ELSE g.rightX
             y == Below(IF g.cols = 1 \/ s.left <= s.right THEN s.left ELSE s.right)
  <2>1. c = Server!At(b, x, y, g.chartW, 320)
    BY <1>3 DEF Laid
  <2>10. x \in Int /\ y \in Int
    <3> DEFINE d == IF g.cols = 1 \/ s.left <= s.right THEN s.left ELSE s.right
    <3>1. x \in Int /\ d \in Int
      BY DEF Geometries, PlaceStates
    <3> HIDE DEF d
    <3>2. Below(d) \in Int
      BY <3>1 DEF Below
    <3> QED
      BY <3>1, <3>2 DEF d
  <2> HIDE DEF c
  <2>2. Server!At(c, x, y, g.chartW, 320) = c
    <3>1. g.chartW \in Nat /\ 320 \in Nat /\ b \in LayoutBlock
      BY DEF Geometries
    <3>2. Server!At(Server!At(b, x, y, g.chartW, 320), x, y, g.chartW, 320) = Server!At(b, x, y, g.chartW, 320)
      <4> HIDE DEF x, y
      <4> QED
        BY <2>10, <3>1, AtTwice
    <3> QED
      BY <2>1, <3>2
  <2>3. Server!At(c, x, y, g.chartW, 320) = Server!At(b, x, y, g.chartW, 320)
    BY <2>1, <2>2
  <2>4. ChartPlaced(g, s, c) = ChartPlaced(g, s, b)
    BY <2>3, Zenon DEF ChartPlaced
  <2>5. Placed(g, s, c) = ChartPlaced(g, s, c) /\ Placed(g, s, b) = ChartPlaced(g, s, b)
    BY <1>1, <1>3 DEF Placed
  <2> QED
    BY <2>4, <2>5 DEF c
<1>4. CASE b.kind \notin {"kpi", "chart"}
  <2> DEFINE y == Below(Deepest(s))
             p == Plain(b)
             w == FullWidth(g, b)
  <2>1. c = Server!At(p, 20, y, w, p.h)
    BY <1>4 DEF Laid
  <2>2. /\ p \in LayoutBlock /\ p.kind = b.kind /\ p.w = b.w /\ p.text = b.text /\ (b.kind # "image" => p.h = 0)
        /\ b.w \in Nat /\ g.fullW \in Nat
    BY PlainIs DEF Plain, LayoutBlock, Geometries
  <2> HIDE DEF c, y, p
  <2>3. c.kind = b.kind /\ c.w = w /\ c.h = p.h /\ c.text = b.text
    BY <2>1, <2>2 DEF LayoutBlock, Server!At
  <2>4. FullWidth(g, c) = w
    BY <2>2, <2>3 DEF FullWidth
  <2>5. Plain(c) = c
    <3>1. CASE b.kind = "image"
      BY <2>3, <3>1 DEF Plain
    <3>2. CASE b.kind # "image"
      <4>1. c.h = 0 /\ Plain(c) = [c EXCEPT !.h = 0]
        BY <2>2, <2>3, <3>2 DEF Plain
      <4> QED
        BY <1>1, <4>1 DEF LayoutBlock
    <3> QED
      BY <3>1, <3>2
  <2>6. Server!At(c, 20, y, w, c.h) = c
    <3> HIDE DEF w
    <3> QED
      BY <2>1, <2>2, <2>3 DEF LayoutBlock, Server!At
  <2>7. Server!BlockHeight(c, g) = Server!BlockHeight(p, g)
    <3>1. CASE b.kind = "text"
      BY <2>2, <2>3, <3>1 DEF Server!BlockHeight, FullWidth
    <3>2. CASE b.kind # "text"
      BY <1>4, <2>2, <2>3, <3>2 DEF Server!BlockHeight
    <3> QED
      BY <3>1, <3>2
  <2> HIDE DEF w
  <2>8. WholePlaced(g, s, c) = [left |-> y + Server!BlockHeight(c, g), right |-> y + Server!BlockHeight(c, g),
                                row |-> 0, kpis |-> 0, out |-> Append(s.out, c)]
    BY <2>4, <2>5, <2>6 DEF WholePlaced, y
  <2>9. WholePlaced(g, s, b) = [left |-> y + Server!BlockHeight(p, g), right |-> y + Server!BlockHeight(p, g),
                                row |-> 0, kpis |-> 0, out |-> Append(s.out, c)]
    BY <2>1 DEF WholePlaced, y, p, w
  <2>10. Placed(g, s, c) = WholePlaced(g, s, c) /\ Placed(g, s, b) = WholePlaced(g, s, b)
    BY <1>1, <1>4 DEF Placed
  <2> QED
    BY <2>7, <2>8, <2>9, <2>10 DEF c
<1> QED
  BY <1>2, <1>3, <1>4

\* An arrangement has the blocks of its list, each as it was laid.
LEMMA ArrangementIs ==
    ASSUME NEW list \in Seq(LayoutBlock), NEW width \in Nat
    PROVE  LET f == Server!Placings(list, width)
           IN /\ Server!Arranged(list, width) \in Seq(LayoutBlock)
              /\ \A n \in 0 .. Len(list) : Len(f[n].out) = n
              /\ \A n \in 1 .. Len(list) : Server!Arranged(list, width)[n] =
                     Laid(Server!Geometry(width), f[n - 1], list[n])
<1> DEFINE f == Server!Placings(list, width)
           g == Server!Geometry(width)
           N == Len(list)
           G == {n \in 0 .. N : /\ Len(f[n].out) = n
                                /\ \A k \in 1 .. n : f[n].out[k] = Laid(g, f[k - 1], list[k])}
<1>1. /\ f \in [0 .. N -> PlaceStates] /\ f[0] = PlaceStart
      /\ \A n \in 1 .. N : f[n] = Placed(g, f[n - 1], list[n])
  BY PlacingsAre
<1>2. g \in Geometries /\ N \in Nat /\ \A n \in 1 .. N : list[n] \in LayoutBlock
  BY GeometryIs
<1>3. Server!Arranged(list, width) = f[N].out
  BY DEF Server!Arranged
<1> HIDE DEF f, g, N
<1>4. 0 \in G
  <2>1. Len(f[0].out) = 0
    BY <1>1 DEF PlaceStart
  <2> QED
    BY <1>2, <2>1
<1>5. ASSUME NEW n \in 1 .. N, n - 1 \in G PROVE n \in G
  <2>1. n \in 0 .. N /\ n - 1 \in 0 .. N /\ f[n - 1] \in PlaceStates /\ list[n] \in LayoutBlock /\ n \in Nat
    BY <1>1, <1>2
  <2> DEFINE c == Laid(g, f[n - 1], list[n])
             o == f[n - 1].out
  <2>2. f[n].out = Append(o, c) /\ c \in LayoutBlock
    BY <1>1, <1>2, <2>1, LaidIsLast
  <2>3. o \in Seq(LayoutBlock)
    BY <2>1 DEF PlaceStates
  <2>4. Len(o) = n - 1 /\ \A k \in 1 .. n - 1 : o[k] = Laid(g, f[k - 1], list[k])
    BY <1>5
  <2>5. c = Laid(g, f[n - 1], list[n])
    OBVIOUS
  <2> HIDE DEF c, o
  <2>6. Len(f[n].out) = n /\ f[n].out[n] = c /\ \A k \in 1 .. n - 1 : f[n].out[k] = o[k]
    BY <2>1, <2>2, <2>3, <2>4
  <2>7. ASSUME NEW k \in 1 .. n PROVE f[n].out[k] = Laid(g, f[k - 1], list[k])
    <3>1. k = n \/ k \in 1 .. n - 1
      BY <2>1
    <3> QED
      BY <2>4, <2>5, <2>6, <3>1
  <2> QED
    BY <2>1, <2>6, <2>7
<1>6. \A n \in 0 .. N : n \in G
  <2> HIDE DEF G
  <2>1. \A n \in 1 .. N : n - 1 \in G => n \in G
    BY <1>5
  <2> QED
    BY <1>2, <1>4, <2>1, Inductive
<1>7. N \in G /\ N \in 0 .. N
  BY <1>2, <1>6
<1>8. f[N].out \in Seq(LayoutBlock)
  BY <1>1, <1>7 DEF PlaceStates
<1> QED
  BY <1>3, <1>6, <1>7, <1>8 DEF f, g, N

LEMMA ArrangementStays ==
    ASSUME NEW list \in Seq(LayoutBlock), NEW width \in Nat,
           \A b \in Range(list) : b.kind = "text" => b.w = Server!Geometry(width).fullW
    PROVE  Server!Arranged(Server!Arranged(list, width), width) = Server!Arranged(list, width)
<1> DEFINE once == Server!Arranged(list, width)
           f == Server!Placings(list, width)
           e == Server!Placings(once, width)
           g == Server!Geometry(width)
           N == Len(list)
           G == {n \in 0 .. N : e[n] = f[n]}
<1>1. /\ f \in [0 .. N -> PlaceStates] /\ f[0] = PlaceStart
      /\ \A n \in 1 .. N : f[n] = Placed(g, f[n - 1], list[n])
  BY PlacingsAre
<1>2. g \in Geometries /\ N \in Nat
  BY GeometryIs
<1>3. \A n \in 1 .. N : list[n] \in LayoutBlock /\ (list[n].kind = "text" => list[n].w = g.fullW)
  BY DEF Range
<1>4. /\ once \in Seq(LayoutBlock) /\ \A n \in 0 .. N : Len(f[n].out) = n
      /\ \A n \in 1 .. N : once[n] = Laid(g, f[n - 1], list[n])
  BY ArrangementIs
<1>5. once = f[N].out
  BY DEF Server!Arranged
<1>6. Len(once) = N
  BY <1>2, <1>4, <1>5
<1>7. /\ e[0] = PlaceStart /\ \A n \in 1 .. N : e[n] = Placed(g, e[n - 1], once[n])
  <2> HIDE DEF once, N
  <2> QED
    BY <1>4, <1>6, PlacingsAre
<1>8. Server!Arranged(once, width) = e[N].out
  BY <1>6, Zenon DEF Server!Arranged
<1> HIDE DEF f, e, g, N, once
<1>9. 0 \in G
  BY <1>1, <1>2, <1>7
<1>10. ASSUME NEW n \in 1 .. N, n - 1 \in G PROVE n \in G
  <2>1. n \in 0 .. N /\ n - 1 \in 0 .. N /\ f[n - 1] \in PlaceStates /\ e[n - 1] = f[n - 1]
    BY <1>1, <1>2, <1>10
  <2>2. e[n] = Placed(g, f[n - 1], Laid(g, f[n - 1], list[n]))
    BY <1>4, <1>7, <2>1
  <2>3. e[n] = Placed(g, f[n - 1], list[n])
    BY <1>2, <1>3, <2>1, <2>2, LaidStays
  <2> QED
    BY <1>1, <2>1, <2>3
<1>11. N \in G
  <2> HIDE DEF G
  <2>1. \A n \in 1 .. N : n - 1 \in G => n \in G
    BY <1>10
  <2>2. \A n \in 0 .. N : n \in G
    BY <1>2, <1>9, <2>1, Inductive
  <2> QED
    BY <1>2, <2>2
<1> QED
  BY <1>5, <1>8, <1>11 DEF once

\* The texts of an arrangement have the width of the canvas.
LEMMA ArrangementIsWide ==
    ASSUME NEW list \in Seq(LayoutBlock), NEW width \in Nat
    PROVE  \A b \in Range(Server!Arranged(list, width)) : b.kind = "text" => b.w = Server!Geometry(width).fullW
<1> DEFINE once == Server!Arranged(list, width)
           f == Server!Placings(list, width)
           g == Server!Geometry(width)
           N == Len(list)
<1>1. /\ f \in [0 .. N -> PlaceStates]
  BY PlacingsAre
<1>2. g \in Geometries /\ N \in Nat /\ \A n \in 1 .. N : list[n] \in LayoutBlock
  BY GeometryIs
<1>3. /\ once \in Seq(LayoutBlock) /\ \A n \in 0 .. N : Len(f[n].out) = n
      /\ \A n \in 1 .. N : once[n] = Laid(g, f[n - 1], list[n])
  BY ArrangementIs
<1>4. once = f[N].out
  BY DEF Server!Arranged
<1>5. Len(once) = N
  BY <1>2, <1>3, <1>4
<1> HIDE DEF once, f, g, N
<1>6. ASSUME NEW n \in 1 .. N, once[n].kind = "text" PROVE once[n].w = g.fullW
  <2>1. f[n - 1] \in PlaceStates /\ list[n] \in LayoutBlock
    BY <1>1, <1>2
  <2>2. /\ Laid(g, f[n - 1], list[n]).kind = list[n].kind
        /\ list[n].kind = "text" => Laid(g, f[n - 1], list[n]).w = g.fullW
    BY <1>2, <2>1, LaidIsLast
  <2> QED
    BY <1>3, <1>6, <2>2
<1>7. \A b \in Range(once) : \E n \in 1 .. N : b = once[n]
  BY <1>3, <1>5 DEF Range
<1> QED
  BY <1>6, <1>7 DEF once, g

-----------------------------------------------------------------------------
(***************************************************************************)
(* The slots that are free.                                                *)
(***************************************************************************)
LEMMA RunningMax ==
    ASSUME NEW N \in Nat, NEW v \in [1 .. N -> Int], NEW P \in SUBSET (1 .. N), NEW f, f[0] = 32,
           \A n \in 1 .. N : f[n] = IF n \in P THEN Max({f[n - 1], v[n]}) ELSE f[n - 1]
    PROVE  f[N] = Max({32} \cup {v[k] : k \in P}) /\ f[N] \in Nat /\ f[N] >= 32 /\ \A k \in P : f[N] >= v[k]
<1> DEFINE G == {n \in 0 .. N : /\ f[n] \in Int /\ f[n] >= 32
                                /\ f[n] = 32 \/ \E k \in P : f[n] = v[k]
                                /\ \A k \in P : k <= n => f[n] >= v[k]}
<1>1. 0 \in G
  OBVIOUS
<1>2. ASSUME NEW n \in 1 .. N, n - 1 \in G PROVE n \in G
  <2>1. /\ f[n - 1] \in Int /\ f[n - 1] >= 32 /\ (f[n - 1] = 32 \/ \E k \in P : f[n - 1] = v[k])
        /\ \A k \in P : k <= n - 1 => f[n - 1] >= v[k]
    BY <1>2
  <2>2. n \in 0 .. N /\ v[n] \in Int /\ \A k \in P : k \in 1 .. N /\ v[k] \in Int
    OBVIOUS
  <2>3. \A k \in P : k <= n => k = n \/ k <= n - 1
    BY <2>2
  <2>4. CASE n \notin P
    <3>1. f[n] = f[n - 1]
      BY <2>4
    <3>2. \A k \in P : k <= n => f[n] >= v[k]
      BY <2>1, <2>3, <2>4, <3>1
    <3> QED
      BY <2>1, <2>2, <3>1, <3>2
  <2>5. CASE n \in P
    <3>1. f[n] = IF f[n - 1] >= v[n] THEN f[n - 1] ELSE v[n]
      <4>1. f[n] = Max({f[n - 1], v[n]})
        BY <2>5
      <4>2. Max({f[n - 1], v[n]}) = IF f[n - 1] >= v[n] THEN f[n - 1] ELSE v[n]
        BY <2>1, <2>2, MaxOfTwo
      <4> QED
        BY <4>1, <4>2
    <3>2. f[n] \in Int /\ f[n] >= f[n - 1] /\ f[n] >= v[n] /\ f[n] >= 32
      BY <2>1, <2>2, <3>1
    <3>3. f[n] = 32 \/ \E k \in P : f[n] = v[k]
      BY <2>1, <2>5, <3>1
    <3>4. \A k \in P : k <= n => f[n] >= v[k]
      BY <2>1, <2>2, <2>3, <3>2
    <3> QED
      BY <2>2, <3>2, <3>3, <3>4
  <2> QED
    BY <2>4, <2>5
<1>3. N \in G
  <2> HIDE DEF G
  <2>1. \A n \in 1 .. N : n - 1 \in G => n \in G
    BY <1>2
  <2>2. \A n \in 0 .. N : n \in G
    BY <1>1, <2>1, Inductive
  <2> QED
    BY <2>2
<1>4. /\ f[N] \in Int /\ f[N] >= 32 /\ (f[N] = 32 \/ \E k \in P : f[N] = v[k])
      /\ \A k \in P : f[N] >= v[k]
  BY <1>3
<1> DEFINE S == {32} \cup {v[k] : k \in P}
<1>5. S \in SUBSET Int /\ f[N] \in S /\ \A y \in S : f[N] >= y
  BY <1>4
<1>6. Max(S) = f[N]
  <2> HIDE DEF S
  <2> QED
    BY <1>5, MaxIs
<1> QED
  BY <1>4, <1>6

Lefts(list, g) == {k \in 1 .. Len(list) : /\ list[k].placed
                                           /\ \/ Server!WidthOf(list[k], g) >= g.fullW - 40
                                              \/ 2 * list[k].x + Server!WidthOf(list[k], g) < 2 * g.midX}
Rights(list, g) == {k \in 1 .. Len(list) : /\ list[k].placed
                                            /\ \/ Server!WidthOf(list[k], g) >= g.fullW - 40
                                               \/ ~(2 * list[k].x + Server!WidthOf(list[k], g) < 2 * g.midX)}
Depth(list, g, column) == Max({32} \cup {Server!Bottom(list[k], g) : k \in column})

LEMMA BottomIs ==
    ASSUME NEW b \in LayoutBlock, NEW g \in Geometries
    PROVE  /\ Server!Bottom(b, g) \in Int /\ Server!Bottom(b, g) >= b.y
           /\ b.y + Page!estimateBlockHeight(b, g) = Server!Bottom(b, g)
<1>1. b.y \in Int
  BY DEF LayoutBlock
<1> QED
  BY <1>1, HeightIs DEF Server!Bottom

\* The server's cursor, column by column.
LEMMA CursorIs ==
    ASSUME NEW list \in Seq(LayoutBlock), NEW width \in Nat
    PROVE  LET g == Server!Geometry(width)
           IN Server!Cursor(list, width) = [left |-> Depth(list, g, Lefts(list, g)),
                                            right |-> Depth(list, g, Rights(list, g))]
<1> DEFINE g == Server!Geometry(width)
           isWide(b) == Server!WidthOf(b, g) >= g.fullW - 40
           left(b) == 2 * b.x + Server!WidthOf(b, g) < 2 * g.midX
           L == {b \in Server!Placed(list) : isWide(b) \/ left(b)}
           R == {b \in Server!Placed(list) : isWide(b) \/ ~left(b)}
<1>1. Server!Cursor(list, width) =
          [left |-> Server!Max({Server!StartY} \cup {Server!Bottom(b, g) : b \in L}),
           right |-> Server!Max({Server!StartY} \cup {Server!Bottom(b, g) : b \in R})]
  BY DEF Server!Cursor
<1>2. Server!Placed(list) = {b \in Range(list) : b.placed} /\ Range(list) = {list[k] : k \in 1 .. Len(list)}
  BY DEF Server!Placed, Server!Range, Range
<1> HIDE DEF g
<1>3. L = {list[k] : k \in Lefts(list, g)} /\ R = {list[k] : k \in Rights(list, g)}
  BY <1>2 DEF Lefts, Rights
<1>4. /\ {Server!Bottom(b, g) : b \in L} = {Server!Bottom(list[k], g) : k \in Lefts(list, g)}
      /\ {Server!Bottom(b, g) : b \in R} = {Server!Bottom(list[k], g) : k \in Rights(list, g)}
  <2> HIDE DEF L, R
  <2> QED
    BY <1>3
<1> HIDE DEF L, R
<1>5. Server!StartY = 32
  BY DEF Server!StartY
<1> QED
  BY <1>1, <1>4, <1>5, SameMax DEF Depth, g

CursorStates == [leftBottom : Nat, rightBottom : Nat]

LEMMA LoweredIs ==
    ASSUME NEW list \in Seq(LayoutBlock), NEW g \in Geometries, NEW k \in 1 .. Len(list), NEW c \in CursorStates
    PROVE  /\ Page!lowered(c, list[k], g) \in CursorStates
           /\ Page!lowered(c, list[k], g).leftBottom =
                  IF k \in Lefts(list, g) THEN Max({c.leftBottom, Server!Bottom(list[k], g)}) ELSE c.leftBottom
           /\ Page!lowered(c, list[k], g).rightBottom =
                  IF k \in Rights(list, g) THEN Max({c.rightBottom, Server!Bottom(list[k], g)}) ELSE c.rightBottom
<1> DEFINE b == list[k]
           w == Server!WidthOf(b, g)
           bottom == Server!Bottom(b, g)
           inLeft == w >= g.fullW - 40 \/ 2 * b.x + w < 2 * g.midX
           inRight == w >= g.fullW - 40 \/ ~(2 * b.x + w < 2 * g.midX)
<1>1. b \in LayoutBlock
  OBVIOUS
<1>2. /\ (k \in Lefts(list, g)) = (b.placed /\ inLeft) /\ (k \in Rights(list, g)) = (b.placed /\ inRight)
  BY DEF Lefts, Rights
<1> HIDE DEF b
<1>3. w \in Nat /\ Page!widthOf(b, g) = w /\ g.midX \in Int /\ b.x \in Int /\ b.placed \in BOOLEAN
  <2>1. w \in Nat /\ Page!widthOf(b, g) = w
    BY <1>1, WidthIs
  <2>2. g.midX \in Int /\ b.x \in Int /\ b.placed \in BOOLEAN
    BY <1>1 DEF LayoutBlock, Geometries
  <2> QED
    BY <2>1, <2>2
<1>4. bottom \in Int /\ b.y + Page!estimateBlockHeight(b, g) = bottom
  BY <1>1, BottomIs
<1>5. b.x * 2 + w < g.midX * 2 <=> 2 * b.x + w < 2 * g.midX
  <2> HIDE DEF w
  <2> QED
    BY <1>3
<1>6. c.leftBottom \in Int /\ c.rightBottom \in Int /\ c.leftBottom \in Nat /\ c.rightBottom \in Nat
  BY DEF CursorStates
<1> HIDE DEF bottom
<1>7. /\ Max({c.leftBottom, bottom}) \in Nat /\ Max({c.rightBottom, bottom}) \in Nat
  <2>1. Max({c.leftBottom, bottom}) = IF c.leftBottom >= bottom THEN c.leftBottom ELSE bottom
    BY <1>4, <1>6, MaxOfTwo
  <2>2. Max({c.rightBottom, bottom}) = IF c.rightBottom >= bottom THEN c.rightBottom ELSE bottom
    BY <1>4, <1>6, MaxOfTwo
  <2> QED
    BY <1>4, <1>6, <2>1, <2>2
<1>8. Page!Max({c.leftBottom, bottom}) = Max({c.leftBottom, bottom})
      /\ Page!Max({c.rightBottom, bottom}) = Max({c.rightBottom, bottom})
  BY SameMax
<1> DEFINE ml == Max({c.leftBottom, bottom})
           mr == Max({c.rightBottom, bottom})
<1>9. Page!lowered(c, b, g) =
          IF ~b.placed THEN c
          ELSE [leftBottom |-> IF inLeft THEN ml ELSE c.leftBottom, rightBottom |-> IF inRight THEN mr ELSE c.rightBottom]
  <2> HIDE DEF w, ml, mr
  <2>1. Page!lowered(c, b, g) =
          IF ~b.placed THEN c
          ELSE [leftBottom |-> IF Page!widthOf(b, g) >= g.fullW - 40 \/ b.x * 2 + Page!widthOf(b, g) < g.midX * 2
                               THEN Page!Max({c.leftBottom, b.y + Page!estimateBlockHeight(b, g)}) ELSE c.leftBottom,
                rightBottom |-> IF Page!widthOf(b, g) >= g.fullW - 40 \/ ~(b.x * 2 + Page!widthOf(b, g) < g.midX * 2)
                               THEN Page!Max({c.rightBottom, b.y + Page!estimateBlockHeight(b, g)}) ELSE c.rightBottom]
    BY DEF Page!lowered
  <2>2. ml = Page!Max({c.leftBottom, b.y + Page!estimateBlockHeight(b, g)})
        /\ mr = Page!Max({c.rightBottom, b.y + Page!estimateBlockHeight(b, g)})
    BY <1>4, <1>8 DEF ml, mr
  <2> QED
    BY <1>3, <1>5, <2>1, <2>2
<1> HIDE DEF ml, mr, inLeft, inRight
<1>10. ml \in Nat /\ mr \in Nat
  BY <1>7 DEF ml, mr
<1>11. /\ Page!lowered(c, b, g) \in CursorStates
       /\ Page!lowered(c, b, g).leftBottom = IF b.placed /\ inLeft THEN ml ELSE c.leftBottom
       /\ Page!lowered(c, b, g).rightBottom = IF b.placed /\ inRight THEN mr ELSE c.rightBottom
  BY <1>6, <1>9, <1>10 DEF CursorStates
<1> QED
  BY <1>2, <1>11 DEF b, ml, mr, bottom

\* Block by block or all at once, the columns end where they end.
LEMMA CursorsAgree ==
    ASSUME NEW list \in Seq(LayoutBlock), NEW width \in Nat
    PROVE  LET g == Server!Geometry(width)
               cur == Server!Cursor(list, width)
           IN /\ Page!deriveCursor(list, width) = [leftBottom |-> cur.left, rightBottom |-> cur.right]
              /\ cur.left \in Nat /\ cur.left >= 32 /\ cur.right \in Nat /\ cur.right >= 32
              /\ \A k \in Lefts(list, g) : cur.left >= Server!Bottom(list[k], g)
              /\ \A k \in Rights(list, g) : cur.right >= Server!Bottom(list[k], g)
<1> DEFINE g == Server!Geometry(width)
           cur == Server!Cursor(list, width)
           N == Len(list)
           start == [leftBottom |-> 32, rightBottom |-> 32]
           step == [n \in 1 .. N |-> [c \in CursorStates |-> Page!lowered(c, list[n], g)]]
           f == CHOOSE e : e = [n \in 0 .. N |-> IF n = 0 THEN start ELSE Page!lowered(e[n - 1], list[n], g)]
<1>1. g \in Geometries /\ Page!resolveGeometry(width) = g /\ N \in Nat
  BY GeometryIs
<1>2. Page!deriveCursor(list, width) = f[N]
  <2>1. Page!REPORT.startY = 32
    BY DEF Page!REPORT
  <2>2. Page!deriveCursor(list, width) =
          (CHOOSE e : e = [n \in 0 .. Len(list) |->
              IF n = 0 THEN [leftBottom |-> Page!REPORT.startY, rightBottom |-> Page!REPORT.startY]
              ELSE Page!lowered(e[n - 1], list[n], Page!resolveGeometry(width))])[Len(list)]
    BY DEF Page!deriveCursor
  <2> HIDE DEF g
  <2> QED
    BY <1>1, <2>1, <2>2, Zenon
<1> HIDE DEF g
<1>3. \A n \in 1 .. N : \A c \in CursorStates : Page!lowered(c, list[n], g) \in CursorStates
  BY <1>1, LoweredIs
<1>4. step \in [1 .. N -> [CursorStates -> CursorStates]] /\ start \in CursorStates
  BY <1>3 DEF CursorStates
<1>5. PICK h : Recurses(h, N, CursorStates, start, step)
  <2> HIDE DEF step, N, start
  <2> QED
    BY <1>1, <1>4, Recursion
<1>6. h \in [0 .. N -> CursorStates] /\ h[0] = start /\ \A n \in 1 .. N : h[n] = step[n][h[n - 1]]
  BY <1>5, Zenon DEF Recurses
<1>7. ASSUME NEW n \in 1 .. N PROVE n # 0 /\ n - 1 \in 0 .. N /\ h[n] = Page!lowered(h[n - 1], list[n], g)
  <2> HIDE DEF start
  <2>1. n - 1 \in 0 .. N /\ n # 0
    BY <1>1
  <2>2. h[n - 1] \in CursorStates
    BY <1>6, <2>1
  <2> QED
    BY <1>6, <2>1, <2>2
<1>8. h = [n \in 0 .. N |-> IF n = 0 THEN start ELSE Page!lowered(h[n - 1], list[n], g)]
  <2> HIDE DEF start, N
  <2>1. \A n \in 0 .. N : n = 0 \/ n \in 1 .. N
    BY <1>1
  <2> QED
    BY <1>6, <1>7, <2>1
<1>9. f = [n \in 0 .. N |-> IF n = 0 THEN start ELSE Page!lowered(f[n - 1], list[n], g)]
  <2> HIDE DEF N, start
  <2> QED
    BY <1>8, Zenon
<1> HIDE DEF f
<1>10. \A n \in 0 .. N : f[n] = IF n = 0 THEN start ELSE Page!lowered(f[n - 1], list[n], g)
  BY <1>9, Zenon
<1> DEFINE G == {n \in 0 .. N : f[n] \in CursorStates}
<1>11. 0 \in G
  BY <1>1, <1>4, <1>10
<1>12. ASSUME NEW n \in 1 .. N, n - 1 \in G PROVE n \in G
  <2>1. n \in 0 .. N /\ n # 0 /\ f[n - 1] \in CursorStates
    BY <1>1, <1>12
  <2> HIDE DEF N, start
  <2> QED
    BY <1>3, <1>10, <2>1
<1>13. \A n \in 0 .. N : f[n] \in CursorStates
  <2> HIDE DEF G
  <2>1. \A n \in 1 .. N : n - 1 \in G => n \in G
    BY <1>12
  <2>2. \A n \in 0 .. N : n \in G
    BY <1>1, <1>11, <2>1, Inductive
  <2> QED
    BY <2>2 DEF G
<1> DEFINE v == [k \in 1 .. N |-> Server!Bottom(list[k], g)]
           l == [n \in 0 .. N |-> f[n].leftBottom]
           r == [n \in 0 .. N |-> f[n].rightBottom]
           P == Lefts(list, g)
           Q == Rights(list, g)
<1>14. v \in [1 .. N -> Int] /\ P \in SUBSET (1 .. N) /\ Q \in SUBSET (1 .. N)
  <2>1. \A k \in 1 .. N : Server!Bottom(list[k], g) \in Int
    BY <1>1, BottomIs
  <2> QED
    BY <2>1 DEF Lefts, Rights
<1>15. l[0] = 32 /\ r[0] = 32
  BY <1>1, <1>10
<1>16. ASSUME NEW n \in 1 .. N
       PROVE  /\ l[n] = IF n \in P THEN Max({l[n - 1], v[n]}) ELSE l[n - 1]
              /\ r[n] = IF n \in Q THEN Max({r[n - 1], v[n]}) ELSE r[n - 1]
  <2>1. n \in 0 .. N /\ n # 0 /\ n - 1 \in 0 .. N
    BY <1>1
  <2>2. f[n] = Page!lowered(f[n - 1], list[n], g) /\ f[n - 1] \in CursorStates
    BY <1>10, <1>13, <2>1
  <2>3. /\ f[n].leftBottom = IF n \in P THEN Max({f[n - 1].leftBottom, v[n]}) ELSE f[n - 1].leftBottom
        /\ f[n].rightBottom = IF n \in Q THEN Max({f[n - 1].rightBottom, v[n]}) ELSE f[n - 1].rightBottom
    <3>1. /\ Page!lowered(f[n - 1], list[n], g).leftBottom =
                 IF n \in P THEN Max({f[n - 1].leftBottom, Server!Bottom(list[n], g)}) ELSE f[n - 1].leftBottom
          /\ Page!lowered(f[n - 1], list[n], g).rightBottom =
                 IF n \in Q THEN Max({f[n - 1].rightBottom, Server!Bottom(list[n], g)}) ELSE f[n - 1].rightBottom
      <4>1. n \in 1 .. Len(list) /\ f[n - 1] \in CursorStates /\ g \in Geometries
        BY <1>1, <2>2
      <4> QED
        BY <4>1, LoweredIs
    <3>2. v[n] = Server!Bottom(list[n], g)
      OBVIOUS
    <3> HIDE DEF v, P, Q
    <3> QED
      BY <2>2, <3>1, <3>2
  <2> QED
    BY <2>1, <2>3
<1> HIDE DEF l, r
<1>17. l[N] = Max({32} \cup {v[k] : k \in P}) /\ l[N] \in Nat /\ l[N] >= 32 /\ \A k \in P : l[N] >= v[k]
  <2> HIDE DEF v, P, N
  <2> QED
    BY <1>1, <1>14, <1>15, <1>16, RunningMax
<1>18. r[N] = Max({32} \cup {v[k] : k \in Q}) /\ r[N] \in Nat /\ r[N] >= 32 /\ \A k \in Q : r[N] >= v[k]
  <2> HIDE DEF v, Q, N
  <2> QED
    BY <1>1, <1>14, <1>15, <1>16, RunningMax
<1>19. {v[k] : k \in P} = {Server!Bottom(list[k], g) : k \in P} /\ {v[k] : k \in Q} = {Server!Bottom(list[k], g) : k \in Q}
  BY <1>14
<1>20. cur = [left |-> l[N], right |-> r[N]]
  <2>1. cur = [left |-> Depth(list, g, P), right |-> Depth(list, g, Q)]
    BY CursorIs DEF g
  <2>2. l[N] = Depth(list, g, P) /\ r[N] = Depth(list, g, Q)
    <3> HIDE DEF v, P, Q, N
    <3> QED
      BY <1>17, <1>18, <1>19 DEF Depth
  <2> QED
    BY <2>1, <2>2
<1>21. f[N] = [leftBottom |-> l[N], rightBottom |-> r[N]]
  <2>1. N \in 0 .. N /\ f[N] \in CursorStates
    BY <1>1, <1>13
  <2>2. l[N] = f[N].leftBottom /\ r[N] = f[N].rightBottom
    BY <2>1 DEF l, r
  <2> HIDE DEF N
  <2> QED
    BY <2>1, <2>2 DEF CursorStates
<1>22. \A k \in P : v[k] = Server!Bottom(list[k], g)
  BY <1>14
<1>23. \A k \in Q : v[k] = Server!Bottom(list[k], g)
  BY <1>14
<1>24. cur.left = l[N] /\ cur.right = r[N]
  BY <1>20
<1> HIDE DEF cur, v, P, Q, N
<1> QED
  BY <1>2, <1>17, <1>18, <1>21, <1>22, <1>23, <1>24 DEF g, cur, P, Q

LEMMA SameCardinality ==
    ASSUME NEW S
    PROVE  Server!Cardinality(S) = Cardinality(S) /\ Page!Cardinality(S) = Cardinality(S)
BY Zenon DEF Server!Cardinality, Page!Cardinality, Cardinality

LEMMA ChartSlotsAgree ==
    ASSUME NEW list \in Seq(LayoutBlock), NEW width \in Nat
    PROVE  LET g == Server!Geometry(width)
               cur == Server!Cursor(list, width)
               onLeft == cur.left <= cur.right
           IN /\ Page!nextChartSlot(list, width) = Server!ChartSlot(list, width)
              /\ Server!ChartSlot(list, width) = [x |-> IF onLeft THEN 20 ELSE g.rightX,
                                                  y |-> Below(IF onLeft THEN cur.left ELSE cur.right)]
<1> DEFINE g == Server!Geometry(width)
           cur == Server!Cursor(list, width)
           onLeft == cur.left <= cur.right
<1>1. g \in Geometries /\ Page!resolveGeometry(width) = g
  BY GeometryIs
<1>2. g.leftX = 20
  BY <1>1 DEF Geometries
<1>3. /\ Page!deriveCursor(list, width) = [leftBottom |-> cur.left, rightBottom |-> cur.right]
      /\ cur.left \in Nat /\ cur.right \in Nat
  BY CursorsAgree
<1>4. /\ Server!Under(cur.left) = Below(cur.left) /\ Server!Under(cur.right) = Below(cur.right)
      /\ Page!below(cur.left) = Below(cur.left) /\ Page!below(cur.right) = Below(cur.right)
  <2>1. cur.left \in Int /\ cur.right \in Int
    BY <1>3
  <2> HIDE DEF cur
  <2> QED
    BY <2>1, BelowIs
<1> HIDE DEF g, cur
<1>5. Server!ChartSlot(list, width) = IF onLeft THEN [x |-> 20, y |-> Below(cur.left)]
                                      ELSE [x |-> g.rightX, y |-> Below(cur.right)]
  BY <1>2, <1>4 DEF Server!ChartSlot, g, cur
<1>6. Page!nextChartSlot(list, width) =
          LET right == cur.right < cur.left
          IN [x |-> IF right THEN g.rightX ELSE 20, y |-> Page!below(IF right THEN cur.right ELSE cur.left)]
  BY <1>1, <1>2, <1>3 DEF Page!nextChartSlot
<1>7. (cur.right < cur.left) = ~onLeft
  BY <1>3
<1> QED
  BY <1>4, <1>5, <1>6, <1>7 DEF g, cur

LEMMA FullSlotsAgree ==
    ASSUME NEW list \in Seq(LayoutBlock), NEW width \in Nat
    PROVE  LET cur == Server!Cursor(list, width)
           IN /\ Page!nextFullWidthSlot(list, width) = Server!FullSlot(list, width)
              /\ Server!FullSlot(list, width) =
                     [x |-> 20, y |-> Below(IF cur.left >= cur.right THEN cur.left ELSE cur.right)]
<1> DEFINE cur == Server!Cursor(list, width)
           deep == IF cur.left >= cur.right THEN cur.left ELSE cur.right
<1>1. /\ Page!deriveCursor(list, width) = [leftBottom |-> cur.left, rightBottom |-> cur.right]
      /\ cur.left \in Nat /\ cur.right \in Nat
  BY CursorsAgree
<1> HIDE DEF cur
<1>2. cur.left \in Int /\ cur.right \in Int
  BY <1>1
<1>3. Max({cur.left, cur.right}) = deep
  BY <1>2, MaxOfTwo
<1>4. Server!Max({cur.left, cur.right}) = deep /\ Page!Max({cur.left, cur.right}) = deep
  BY <1>3, SameMax
<1>5. Server!Under(deep) = Below(deep) /\ Page!below(deep) = Below(deep)
  <2>1. deep \in Int
    BY <1>2
  <2> HIDE DEF deep
  <2> QED
    BY <2>1, BelowIs
<1> HIDE DEF deep
<1>6. Server!FullSlot(list, width) = [x |-> 20, y |-> Below(deep)]
  BY <1>4, <1>5 DEF Server!FullSlot, cur, Server!MarginX
<1>7. Page!nextFullWidthSlot(list, width) = [x |-> 20, y |-> Below(deep)]
  BY <1>1, <1>4, <1>5 DEF Page!nextFullWidthSlot, Page!REPORT
<1> QED
  BY <1>6, <1>7 DEF deep, cur

\* The blocks that a canvas can have: what has an id has a place, no higher than a snap
\* may put it, and what has a height is no lower than a card.
WellBlock == {b \in LayoutBlock : /\ b.id => b.placed
                                  /\ b.placed => b.y >= -4
                                  /\ b.h = 0 \/ b.h >= 132}

LEMMA WellHeights ==
    ASSUME NEW b \in WellBlock, NEW g \in Geometries
    PROVE  b \in LayoutBlock /\ Server!BlockHeight(b, g) >= 44 /\ (b.placed => Server!Bottom(b, g) >= 40)
<1>1. b \in LayoutBlock /\ (b.h = 0 \/ b.h >= 132) /\ (b.placed => b.y >= -4)
  BY DEF WellBlock
<1>2. b.h \in Nat /\ b.y \in Int
  BY <1>1 DEF LayoutBlock
<1>3. Server!BlockHeight(b, g) \in Nat /\ Server!BlockHeight(b, g) >= IF b.h > 0 THEN 1 ELSE 44
  BY <1>1, HeightIs
<1>4. b.h > 0 => Server!BlockHeight(b, g) = b.h
  BY DEF Server!BlockHeight
<1> QED
  BY <1>1, <1>2, <1>3, <1>4 DEF Server!Bottom

Kpis(list) == {i \in DOMAIN list : list[i].placed /\ list[i].kind = "kpi"}
LastRow(list) == {i \in Kpis(list) : Max({list[j].y : j \in Kpis(list)}) - list[i].y <= 5}

\* The images of a finite set of indexes have a greatest.
LEMMA MaxOver ==
    ASSUME NEW N \in Nat, NEW P \in SUBSET (1 .. N), P # {}, NEW v \in [P -> Int]
    PROVE  /\ Max({v[i] : i \in P}) \in Int
           /\ \E i \in P : Max({v[k] : k \in P}) = v[i]
           /\ \A i \in P : Max({v[k] : k \in P}) >= v[i]
<1> DEFINE S == {v[i] : i \in P}
           G == {n \in 0 .. N : \/ \A i \in P : i > n
                                \/ \E k \in P : \A i \in P : i <= n => v[k] >= v[i]}
<1>1. \A i \in P : i \in 1 .. N /\ v[i] \in Int
  OBVIOUS
<1>2. 0 \in G
  OBVIOUS
<1>3. ASSUME NEW n \in 1 .. N, n - 1 \in G PROVE n \in G
  <2>1. n \in 0 .. N /\ \A i \in P : i <= n => i = n \/ i <= n - 1
    BY <1>1
  <2>2. CASE \A i \in P : i > n - 1
    <3>1. \A i \in P : i <= n => i = n
      BY <1>1, <2>2
    <3>2. (\A i \in P : i > n) \/ n \in P
      BY <1>1, <3>1
    <3>3. \A i \in P : i <= n => v[i] = v[n] /\ v[i] \in Int
      BY <1>1, <3>1
    <3> QED
      BY <1>1, <2>1, <3>2, <3>3
  <2>3. CASE \E k \in P : \A i \in P : i <= n - 1 => v[k] >= v[i]
    <3>1. PICK k \in P : \A i \in P : i <= n - 1 => v[k] >= v[i]
      BY <2>3
    <3>2. CASE n \in P /\ v[n] >= v[k]
      <4>1. \A i \in P : i <= n => v[n] >= v[i]
        BY <1>1, <2>1, <3>1, <3>2
      <4> QED
        BY <2>1, <3>2, <4>1
    <3>3. CASE ~(n \in P /\ v[n] >= v[k])
      <4>1. \A i \in P : i <= n => v[k] >= v[i]
        BY <1>1, <2>1, <3>1, <3>3
      <4> QED
        BY <2>1, <4>1
    <3> QED
      BY <3>2, <3>3
  <2> QED
    BY <1>3, <2>2, <2>3
<1>4. N \in G
  <2> HIDE DEF G
  <2>1. \A n \in 1 .. N : n - 1 \in G => n \in G
    BY <1>3
  <2>2. \A n \in 0 .. N : n \in G
    BY <1>2, <2>1, Inductive
  <2> QED
    BY <2>2
<1>5. PICK k \in P : \A i \in P : v[k] >= v[i]
  <2>1. PICK i \in P : i \in 1 .. N
    BY <1>1
  <2>2. ~(i > N) /\ \A j \in P : j <= N
    BY <1>1, <2>1
  <2>3. \E k \in P : \A j \in P : j <= N => v[k] >= v[j]
    BY <1>4, <2>2
  <2> QED
    BY <2>2, <2>3
<1>6. S \in SUBSET Int /\ v[k] \in S /\ \A y \in S : v[k] >= y
  BY <1>1, <1>5
<1>7. Max(S) = v[k]
  <2> HIDE DEF S
  <2> QED
    BY <1>6, MaxIs
<1> QED
  BY <1>1, <1>5, <1>7

\* A row of cards grows to three; the next row is below it.
LEMMA KpiSlotsAgree ==
    ASSUME NEW list \in Seq(WellBlock), NEW width \in Nat
    PROVE  /\ Page!nextKpiSlot(list, width) = Server!KpiSlot(list, width)
           /\ Server!KpiSlot(list, width) \in [x : Int, y : Int]
           /\ Server!KpiSlot(list, width).y >= -4
<1> DEFINE g == Server!Geometry(width)
           N == Len(list)
           K == Kpis(list)
           ys == {list[j].y : j \in K}
           last == Max(ys)
           C == LastRow(list)
           xs == {list[i].x : i \in C}
           P == {j \in 1 .. N : list[j].placed}
           bs == {Server!Bottom(list[i], g) : i \in P}
<1>1. /\ g \in Geometries /\ Page!resolveGeometry(width) = g /\ g.leftX = 20 /\ g.kpiW \in Nat
      /\ N \in Nat /\ DOMAIN list = 1 .. N
  <2>1. g \in Geometries /\ Page!resolveGeometry(width) = g
    BY GeometryIs
  <2>2. g.leftX = 20 /\ g.kpiW \in Nat
    BY <2>1 DEF Geometries
  <2> QED
    BY <2>1, <2>2
<1>2. \A i \in 1 .. N : list[i] \in WellBlock /\ list[i] \in LayoutBlock /\ list[i].y \in Int /\ list[i].x \in Int
  BY DEF WellBlock, LayoutBlock
<1> HIDE DEF g, N
<1>3. K \in SUBSET (1 .. N) /\ \A i \in K : list[i].placed /\ list[i].y >= -4
  BY <1>1, <1>2 DEF Kpis, WellBlock
<1>4. CASE K = {}
  <2>1. Server!KpiSlot(list, width) = [x |-> 20, y |-> IF bs = {} THEN 32 ELSE Server!Under(Max(bs))]
    <3>1. {Server!Bottom(b, g) : b \in Server!Placed(list)} = bs
      BY <1>1 DEF Server!Placed, Server!Range
    <3>2. {i \in DOMAIN list : list[i].placed /\ list[i].kind = "kpi"} = {}
      BY <1>4 DEF Kpis
    <3> HIDE DEF bs
    <3> QED
      BY <1>1, <3>1, <3>2, SameMax DEF Server!KpiSlot, Server!StartY, g
  <2>2. Page!nextKpiSlot(list, width) = [x |-> 20, y |-> Page!below(Max({32} \cup bs))]
    <3>1. {Page!blockBottom(list[i], 1, g) : i \in {j \in DOMAIN list : list[j].placed}} = bs
      <4>1. \A i \in P : Page!blockBottom(list[i], 1, g) = Server!Bottom(list[i], g)
        BY <1>1, <1>2, BottomIs DEF Page!blockBottom
      <4>2. {j \in DOMAIN list : list[j].placed} = P
        BY <1>1
      <4> HIDE DEF P
      <4> QED
        BY <4>1, <4>2
    <3>2. {i \in DOMAIN list : list[i].placed /\ list[i].kind = "kpi"} = {}
      BY <1>4 DEF Kpis
    <3>3. Page!REPORT.startY = 32
      BY DEF Page!REPORT
    <3> HIDE DEF bs
    <3> QED
      BY <1>1, <3>1, <3>2, <3>3, SameMax DEF Page!nextKpiSlot
  <2>3. CASE P = {}
    <3>1. bs = {}
      BY <2>3
    <3>2. {32} \cup bs = {32} /\ Max({32}) = 32
      <4>1. {32} \in SUBSET Int /\ 32 \in {32} /\ \A y \in {32} : 32 >= y
        OBVIOUS
      <4>2. Max({32}) = 32
        BY <4>1, MaxIs
      <4> QED
        BY <3>1, <4>2
    <3>3. Page!below(32) = 32
      BY DEF Page!below, Page!REPORT
    <3> HIDE DEF bs
    <3> QED
      BY <2>1, <2>2, <3>1, <3>2, <3>3
  <2>4. CASE P # {}
    <3> DEFINE v == [i \in P |-> Server!Bottom(list[i], g)]
    <3>1. \A i \in P : Server!Bottom(list[i], g) \in Int /\ Server!Bottom(list[i], g) >= 40
      BY <1>1, <1>2, BottomIs, WellHeights
    <3>2. v \in [P -> Int] /\ P \in SUBSET (1 .. N) /\ {v[i] : i \in P} = bs
      BY <3>1
    <3>3. Max(bs) \in Int /\ (\E i \in P : Max(bs) = v[i]) /\ \A i \in P : Max(bs) >= v[i]
      <4>1. /\ Max({v[i] : i \in P}) \in Int /\ \E i \in P : Max({v[k] : k \in P}) = v[i]
            /\ \A i \in P : Max({v[k] : k \in P}) >= v[i]
        <5> HIDE DEF P, v
        <5> QED
          BY <1>1, <2>4, <3>2, MaxOver
      <4> HIDE DEF P, v, bs
      <4> QED
        BY <3>2, <4>1
    <3>4. Max(bs) >= 40
      BY <3>1, <3>3
    <3>5. bs # {} /\ bs \in SUBSET Int /\ Max(bs) \in bs /\ \A y \in bs : Max(bs) >= y
      BY <2>4, <3>1, <3>3
    <3>6. Max({32} \cup bs) = Max(bs)
      <4> DEFINE m == Max(bs)
      <4>1. {32} \cup bs \in SUBSET Int /\ m \in {32} \cup bs /\ \A y \in {32} \cup bs : m >= y
        <5> HIDE DEF bs
        <5>1. m \in Int /\ m >= 32 /\ m \in bs /\ bs \in SUBSET Int /\ \A y \in bs : m >= y
          BY <3>3, <3>4, <3>5
        <5> QED
          BY <5>1
      <4> HIDE DEF m, bs
      <4>2. Max({32} \cup bs) = m
        BY <4>1, MaxIs
      <4> QED
        BY <4>2 DEF m
    <3>7. Server!Under(Max(bs)) = Below(Max(bs)) /\ Page!below(Max(bs)) = Below(Max(bs))
          /\ Below(Max(bs)) \in Int /\ Below(Max(bs)) >= Max(bs)
      <4> HIDE DEF bs
      <4> QED
        BY <3>3, BelowIs
    <3>8. Server!KpiSlot(list, width) = [x |-> 20, y |-> Below(Max(bs))]
      <4> HIDE DEF bs
      <4> QED
        BY <2>1, <3>5, <3>7
    <3>9. Page!nextKpiSlot(list, width) = [x |-> 20, y |-> Below(Max(bs))]
      <4> HIDE DEF bs
      <4> QED
        BY <2>2, <3>6, <3>7
    <3> HIDE DEF bs
    <3>10. Below(Max(bs)) \in Int /\ Below(Max(bs)) >= -4
      BY <3>3, <3>4, <3>7
    <3> QED
      BY <3>8, <3>9, <3>10
  <2> QED
    BY <2>3, <2>4
<1>5. CASE K # {}
  <2> DEFINE v == [i \in K |-> list[i].y]
  <2>1. v \in [K -> Int] /\ {v[i] : i \in K} = ys
    BY <1>2, <1>3
  <2>2. last \in Int /\ (\E i \in K : last = v[i]) /\ \A i \in K : last >= v[i]
    <3>1. /\ Max({v[i] : i \in K}) \in Int /\ \E i \in K : Max({v[k] : k \in K}) = v[i]
          /\ \A i \in K : Max({v[k] : k \in K}) >= v[i]
      <4> HIDE DEF K, v
      <4> QED
        BY <1>1, <1>3, <1>5, <2>1, MaxOver
    <3> HIDE DEF K, v, ys
    <3> QED
      BY <2>1, <3>1
  <2>3. last >= -4
    BY <1>3, <2>2
  <2>4. C = {i \in K : last - list[i].y <= 5} /\ C = {i \in K : list[i].y >= last - 5}
    <3>1. C = {i \in K : last - list[i].y <= 5}
      BY DEF LastRow
    <3>2. \A i \in K : list[i].y \in Int
      BY <1>2, <1>3
    <3> HIDE DEF K, last, C
    <3> QED
      BY <2>2, <3>1, <3>2
  <2>5. C \in SUBSET (1 .. N) /\ C # {}
    <3>1. C \in SUBSET (1 .. N)
      BY <1>3, <2>4
    <3>2. PICK i \in K : last = v[i]
      BY <2>2
    <3>3. i \in K /\ last - list[i].y <= 5
      <4>1. list[i].y = last
        BY <3>2
      <4> HIDE DEF last, K
      <4> QED
        BY <2>2, <4>1
    <3>4. i \in C
      BY <2>4, <3>3
    <3> QED
      BY <3>1, <3>4
  <2>6. Max(xs) \in Int
    <3> DEFINE u == [i \in C |-> list[i].x]
    <3>1. u \in [C -> Int] /\ {u[i] : i \in C} = xs
      BY <1>2, <2>5
    <3> HIDE DEF u, C, xs
    <3>2. Max({u[i] : i \in C}) \in Int
      BY <1>1, <2>5, <3>1, MaxOver
    <3> QED
      BY <3>1, <3>2
  <2>7. Cardinality(C) \in Nat
    <3>1. IsFiniteSet(1 .. N)
      BY <1>1, FS_Interval
    <3>2. IsFiniteSet(C)
      BY <2>5, <3>1, FS_Subset
    <3> QED
      BY <3>2, FS_CardinalityType
  <2> DEFINE slot == IF Cardinality(C) < 3 THEN [x |-> Max(xs) + g.kpiW + 20, y |-> last]
                     ELSE [x |-> 20, y |-> last + 132 + 24]
  <2>8. Server!KpiSlot(list, width) = slot
    <3>1. {i \in DOMAIN list : list[i].placed /\ list[i].kind = "kpi"} = K
      BY DEF Kpis
    <3> HIDE DEF K
    <3>2. Server!Max(ys) = last
      BY SameMax
    <3> HIDE DEF last, ys
    <3>3. {i \in K : last - list[i].y <= 5} = C
      BY <2>4
    <3> HIDE DEF C
    <3>4. Server!Max(xs) = Max(xs) /\ Server!Cardinality(C) = Cardinality(C)
      BY SameMax, SameCardinality
    <3> HIDE DEF xs
    <3>5. Server!KpiSlot(list, width) =
              IF K = {} THEN [x |-> g.leftX, y |-> IF {Server!Bottom(b, g) : b \in Server!Placed(list)} = {} THEN Server!StartY
                                                 ELSE Server!Under(Server!Max({Server!Bottom(b, g) : b \in Server!Placed(list)}))]
              ELSE IF Server!Cardinality(C) < 3
              THEN [x |-> Server!Max(xs) + g.kpiW + Server!ColGap, y |-> last]
              ELSE [x |-> g.leftX, y |-> last + Server!KpiH + Server!GapY]
      BY <3>1, <3>2, <3>3 DEF Server!KpiSlot, ys, xs, g
    <3> QED
      BY <1>1, <1>5, <3>4, <3>5 DEF Server!ColGap, Server!KpiH, Server!GapY
  <2>9. Page!nextKpiSlot(list, width) = slot
    <3>1. {i \in DOMAIN list : list[i].placed /\ list[i].kind = "kpi"} = K
      BY DEF Kpis
    <3> HIDE DEF K
    <3>2. Page!Max(ys) = last
      BY SameMax
    <3> HIDE DEF last, ys
    <3>3. {i \in K : list[i].y >= last - 5} = C
      BY <2>4
    <3> HIDE DEF C
    <3>4. Page!Max(xs) = Max(xs) /\ Page!Cardinality(C) = Cardinality(C)
      BY SameMax, SameCardinality
    <3> HIDE DEF xs
    <3> DEFINE bottom == Page!Max({Page!REPORT.startY} \cup
                 {Page!blockBottom(list[i], 1, g) : i \in {j \in DOMAIN list : list[j].placed}})
    <3>5. Page!nextKpiSlot(list, width) =
              IF K = {} THEN [x |-> g.leftX, y |-> Page!below(bottom)]
              ELSE IF Page!Cardinality(C) >= 3
              THEN [x |-> g.leftX, y |-> last + Page!REPORT.kpiH + Page!REPORT.gapY]
              ELSE [x |-> Page!Max(xs) + g.kpiW + Page!REPORT.colGap, y |-> last]
      <4> HIDE DEF g
      <4> QED
        BY <1>1, <3>1, <3>2, <3>3 DEF Page!nextKpiSlot, ys, xs
    <3>6. Page!REPORT.kpiH = 132 /\ Page!REPORT.gapY = 24 /\ Page!REPORT.colGap = 20
      BY DEF Page!REPORT
    <3> HIDE DEF bottom
    <3> QED
      BY <1>1, <1>5, <2>7, <3>4, <3>5, <3>6
  <2>10. slot \in [x : Int, y : Int] /\ slot.y >= -4
    <3> HIDE DEF last, C, xs
    <3> QED
      BY <1>1, <2>2, <2>3, <2>6
  <2> HIDE DEF slot
  <2> QED
    BY <2>8, <2>9, <2>10
<1> QED
  BY <1>4, <1>5

-----------------------------------------------------------------------------
(***************************************************************************)
(* The page's arrangement is the server's.                                 *)
(***************************************************************************)
PutStates == [l : Nat, r : Nat, rowY : Nat, n : {0, 1, 2}, out : Seq(LayoutBlock)]
PutStart == [l |-> 32, r |-> 32, rowY |-> 0, n |-> 0, out |-> <<>>]
View(c) == [left |-> c.l, right |-> c.r, row |-> c.rowY, kpis |-> c.n, out |-> c.out]
PutAs(c, b, p) == [l |-> p.left, r |-> p.right, rowY |-> IF b.kind = "kpi" THEN p.row ELSE c.rowY,
                   n |-> p.kpis, out |-> p.out]

LEMMA PutIs ==
    ASSUME NEW g \in Geometries, NEW c \in PutStates, NEW b \in LayoutBlock
    PROVE  View(c) \in PlaceStates /\ Page!putNext(c, b, g) = PutAs(c, b, Placed(g, View(c), b))
<1> DEFINE s == View(c)
           deep == Page!Max({c.l, c.r})
<1>1. /\ s \in PlaceStates /\ s.left = c.l /\ s.right = c.r /\ s.row = c.rowY /\ s.kpis = c.n /\ s.out = c.out
      /\ c.l \in Nat /\ c.r \in Nat /\ c.rowY \in Nat /\ c.n \in {0, 1, 2} /\ c.out \in Seq(LayoutBlock)
  BY DEF PutStates, PlaceStates, View
<1>2. /\ g.leftX = 20 /\ g.fullW \in Nat /\ g.kpiW \in Nat /\ g.chartW \in Nat /\ g.rightX \in Nat
      /\ b.w \in Nat
  BY DEF Geometries, LayoutBlock
<1> HIDE DEF s
<1>3. deep = Deepest(s)
  <2>1. c.l \in Int /\ c.r \in Int
    BY <1>1
  <2>2. Max({c.l, c.r}) = IF c.l >= c.r THEN c.l ELSE c.r
    BY <2>1, MaxOfTwo
  <2>3. deep = Max({c.l, c.r})
    BY SameMax
  <2> QED
    BY <1>1, <2>2, <2>3 DEF Deepest
<1>4. Deepest(s) \in Nat /\ Below(Deepest(s)) \in Nat /\ KpiRow(s) \in Nat
  BY <1>1, DeepestIs, BelowDeepest
<1>5. Page!below(Deepest(s)) = Below(Deepest(s))
  <2>1. Deepest(s) \in Int
    BY <1>4
  <2> QED
    BY <2>1, BelowIs
<1>6. /\ Page!REPORT.kpiH = 132 /\ Page!REPORT.chartH = 320 /\ Page!REPORT.colGap = 20
  BY DEF Page!REPORT
<1>7. ASSUME NEW u, NEW x, NEW y, NEW w, NEW h PROVE Page!Put(u, x, y, w, h) = Server!At(u, x, y, w, h)
  BY DEF Page!Put, Server!At
<1>8. CASE b.kind = "kpi"
  <2> DEFINE y == IF c.n = 0 THEN Page!below(deep) ELSE c.rowY
             out == Append(c.out, Page!Put(b, g.leftX + c.n * (g.kpiW + Page!REPORT.colGap), y, g.kpiW, Page!REPORT.kpiH))
  <2>1. y = KpiRow(s)
    BY <1>1, <1>3, <1>5 DEF KpiRow
  <2> HIDE DEF y, deep
  <2>3. /\ Page!Max({c.l, y + 132}) = IF c.l >= y + 132 THEN c.l ELSE y + 132
        /\ Page!Max({c.r, y + 132}) = IF c.r >= y + 132 THEN c.r ELSE y + 132
    <3>1. c.l \in Int /\ c.r \in Int /\ y + 132 \in Int
      BY <1>1, <1>4, <2>1
    <3> QED
      BY <3>1, MaxOfTwo, SameMax
  <2>4. out = Append(s.out, Server!At(b, KpiX(g, s), KpiRow(s), g.kpiW, 132))
    <3>1. g.leftX + c.n * (g.kpiW + Page!REPORT.colGap) = KpiX(g, s)
      BY <1>1, <1>2, <1>6 DEF KpiX
    <3> QED
      BY <1>1, <1>6, <1>7, <2>1, <3>1
  <2>2. Page!putNext(c, b, g) =
            [l |-> Page!Max({c.l, y + 132}), r |-> Page!Max({c.r, y + 132}), rowY |-> y,
             n |-> IF c.n = 2 THEN 0 ELSE c.n + 1, out |-> out]
    <3>1. Page!putNext(c, b, g) = Page!putKpi(c, b, g)
      BY <1>8 DEF Page!putNext
    <3>2. Page!putKpi(c, b, g) =
              [l |-> Page!Max({c.l, y + Page!REPORT.kpiH}), r |-> Page!Max({c.r, y + Page!REPORT.kpiH}), rowY |-> y,
               n |-> IF c.n = 2 THEN 0 ELSE c.n + 1, out |-> out]
      BY DEF Page!putKpi, y, deep
    <3> HIDE DEF out
    <3> QED
      BY <1>6, <3>1, <3>2
  <2> HIDE DEF out
  <2>5. Placed(g, s, b) =
            [left |-> IF c.l >= y + 132 THEN c.l ELSE y + 132, right |-> IF c.r >= y + 132 THEN c.r ELSE y + 132,
             row |-> y, kpis |-> IF c.n = 2 THEN 0 ELSE c.n + 1, out |-> out]
    BY <1>1, <1>8, <2>1, <2>4 DEF Placed, KpiPlaced
  <2> QED
    BY <1>1, <1>8, <2>2, <2>3, <2>5 DEF PutAs, s
<1>9. CASE b.kind = "chart"
  <2> DEFINE onLeft == g.cols = 1 \/ c.l <= c.r
             bottom == IF onLeft THEN c.l ELSE c.r
             y == Page!below(bottom)
             out == Append(c.out, Page!Put(b, IF onLeft THEN g.leftX ELSE g.rightX, y, g.chartW, Page!REPORT.chartH))
  <2>1. y = Below(bottom)
    <3>1. bottom \in Int
      BY <1>1
    <3> HIDE DEF bottom
    <3> QED
      BY <3>1, BelowIs
  <2> HIDE DEF y
  <2>3. out = Append(s.out, Server!At(b, IF onLeft THEN 20 ELSE g.rightX, Below(bottom), g.chartW, 320))
    <3> HIDE DEF onLeft, bottom
    <3> QED
      BY <1>1, <1>2, <1>6, <1>7, <2>1
  <2>2. Page!putNext(c, b, g) =
            [l |-> IF onLeft THEN y + 320 ELSE c.l, r |-> IF onLeft THEN c.r ELSE y + 320, rowY |-> c.rowY,
             n |-> 0, out |-> out]
    <3>1. Page!putNext(c, b, g) = Page!putChart(c, b, g)
      BY <1>9 DEF Page!putNext
    <3>2. Page!putChart(c, b, g) =
              [l |-> IF onLeft THEN y + Page!REPORT.chartH ELSE c.l,
               r |-> IF onLeft THEN c.r ELSE y + Page!REPORT.chartH, rowY |-> c.rowY, n |-> 0, out |-> out]
      BY DEF Page!putChart, y
    <3> HIDE DEF out, onLeft
    <3> QED
      BY <1>6, <3>1, <3>2
  <2> HIDE DEF out
  <2>4. Placed(g, s, b) =
            [left |-> IF onLeft THEN y + 320 ELSE c.l, right |-> IF onLeft THEN c.r ELSE y + 320,
             row |-> 0, kpis |-> 0, out |-> out]
    BY <1>1, <1>9, <2>1, <2>3 DEF Placed, ChartPlaced
  <2> HIDE DEF onLeft
  <2> QED
    BY <1>1, <1>9, <2>2, <2>4 DEF PutAs, s
<1>10. CASE b.kind \notin {"kpi", "chart"}
  <2> DEFINE cleaned == IF b.kind = "image" THEN b ELSE [b EXCEPT !.h = 0]
             y == Page!below(deep)
             end == y + Page!estimateBlockHeight(cleaned, g)
             w == IF b.kind = "image" /\ b.w > 0 /\ b.w < g.fullW THEN b.w ELSE g.fullW
             out == Append(c.out, Page!Put(cleaned, g.leftX, y, w, cleaned.h))
  <2>1. y = Below(Deepest(s)) /\ cleaned = Plain(b) /\ w = FullWidth(g, b)
    BY <1>3, <1>5 DEF Plain, FullWidth
  <2> HIDE DEF y
  <2>2. end = Below(Deepest(s)) + Server!BlockHeight(Plain(b), g)
    BY <2>1, PlainIs, HeightIs
  <2>3. Page!putNext(c, b, g) = [l |-> end, r |-> end, rowY |-> c.rowY, n |-> 0, out |-> out]
    <3>1. Page!putNext(c, b, g) = Page!putWhole(c, b, g)
      BY <1>10 DEF Page!putNext
    <3>2. Page!putWhole(c, b, g) = [l |-> end, r |-> end, rowY |-> c.rowY, n |-> 0, out |-> out]
      BY DEF Page!putWhole, y
    <3> QED
      BY <3>1, <3>2
  <2> HIDE DEF w, cleaned
  <2>4. out = Append(s.out, Server!At(Plain(b), 20, Below(Deepest(s)), FullWidth(g, b), Plain(b).h))
    BY <1>1, <1>2, <1>7, <2>1
  <2> HIDE DEF out, end
  <2>5. Placed(g, s, b) = [left |-> end, right |-> end, row |-> 0, kpis |-> 0, out |-> out]
    BY <1>1, <1>10, <2>2, <2>4 DEF Placed, WholePlaced
  <2> QED
    BY <1>1, <1>10, <2>3, <2>5 DEF PutAs, s
<1> QED
  BY <1>1, <1>8, <1>9, <1>10 DEF s

\* The open row counts only while it has a card.
LEMMA PlacedAlike ==
    ASSUME NEW g \in Geometries, NEW s \in PlaceStates, NEW r \in PlaceStates, NEW b \in LayoutBlock,
           s.left = r.left, s.right = r.right, s.kpis = r.kpis, s.out = r.out, s.kpis > 0 => s.row = r.row
    PROVE  Placed(g, s, b) = Placed(g, r, b)
<1>0. s.left = r.left /\ s.right = r.right /\ s.kpis = r.kpis /\ s.out = r.out
  OBVIOUS
<1>1. s.kpis \in {0, 1, 2}
  BY DEF PlaceStates
<1>2. Deepest(s) = Deepest(r) /\ KpiRow(s) = KpiRow(r) /\ KpiX(g, s) = KpiX(g, r)
  BY <1>1 DEF Deepest, KpiRow, KpiX
<1>3. KpiPlaced(g, s, b) = KpiPlaced(g, r, b)
  BY <1>0, <1>2, Zenon DEF KpiPlaced
<1>4. ChartPlaced(g, s, b) = ChartPlaced(g, r, b)
  BY <1>0 DEF ChartPlaced
<1>5. WholePlaced(g, s, b) = WholePlaced(g, r, b)
  BY <1>0, <1>2, Zenon DEF WholePlaced
<1> QED
  BY <1>3, <1>4, <1>5, Zenon DEF Placed

LEMMA PuttingsAre ==
    ASSUME NEW list \in Seq(LayoutBlock), NEW width \in Nat
    PROVE  /\ \A n \in 0 .. Len(list) : Page!putFrom(list, width)[n] \in PutStates
           /\ Page!putFrom(list, width)[0] = PutStart
           /\ \A n \in 1 .. Len(list) :
                 Page!putFrom(list, width)[n] =
                     Page!putNext(Page!putFrom(list, width)[n - 1], list[n], Server!Geometry(width))
<1> DEFINE g == Server!Geometry(width)
           f == Page!putFrom(list, width)
           N == Len(list)
           step == [n \in 1 .. N |-> [s \in PutStates |-> Page!putNext(s, list[n], g)]]
<1>1. g \in Geometries /\ Page!resolveGeometry(width) = g /\ N \in Nat /\ \A n \in 1 .. N : list[n] \in LayoutBlock
  BY GeometryIs
<1>2. f = CHOOSE e : e = [n \in 0 .. N |-> IF n = 0 THEN PutStart ELSE Page!putNext(e[n - 1], list[n], g)]
  <2>1. Page!REPORT.startY = 32
    BY DEF Page!REPORT
  <2> HIDE DEF g
  <2> QED
    BY <1>1, <2>1, Zenon DEF Page!putFrom, PutStart
<1> HIDE DEF g, f
<1>3. ASSUME NEW n \in 1 .. N, NEW s \in PutStates PROVE Page!putNext(s, list[n], g) \in PutStates
  <2> DEFINE p == Placed(g, View(s), list[n])
  <2>1. list[n] \in LayoutBlock
    BY <1>1
  <2>2. View(s) \in PlaceStates /\ Page!putNext(s, list[n], g) = PutAs(s, list[n], p)
    BY <1>1, <2>1, PutIs
  <2>3. p \in PlaceStates
    BY <1>1, <2>1, <2>2, PlacedTypes
  <2> HIDE DEF p
  <2> QED
    BY <2>2, <2>3 DEF PutAs, PutStates, PlaceStates
<1>4. step \in [1 .. N -> [PutStates -> PutStates]]
  BY <1>3
<1>5. PutStart \in PutStates
  BY DEF PutStart, PutStates
<1>6. PICK h : Recurses(h, N, PutStates, PutStart, step)
  <2> HIDE DEF step, N
  <2> QED
    BY <1>1, <1>4, <1>5, Recursion
<1>7. h \in [0 .. N -> PutStates] /\ h[0] = PutStart /\ \A n \in 1 .. N : h[n] = step[n][h[n - 1]]
  BY <1>6, Zenon DEF Recurses
<1>8. ASSUME NEW n \in 1 .. N PROVE n # 0 /\ h[n] = Page!putNext(h[n - 1], list[n], g)
  <2>1. n - 1 \in 0 .. N /\ n # 0
    BY <1>1
  <2>2. h[n - 1] \in PutStates
    BY <1>7, <2>1
  <2> QED
    BY <1>7, <2>1, <2>2
<1>9. h = [n \in 0 .. N |-> IF n = 0 THEN PutStart ELSE Page!putNext(h[n - 1], list[n], g)]
  <2> HIDE DEF N
  <2>1. \A n \in 0 .. N : n = 0 \/ n \in 1 .. N
    BY <1>1
  <2> QED
    BY <1>7, <1>8, <2>1
<1>10. f = [n \in 0 .. N |-> IF n = 0 THEN PutStart ELSE Page!putNext(f[n - 1], list[n], g)]
  <2> HIDE DEF N
  <2> QED
    BY <1>2, <1>9, Zenon
<1>11. \A n \in 0 .. N : f[n] = IF n = 0 THEN PutStart ELSE Page!putNext(f[n - 1], list[n], g)
  BY <1>10, Zenon
<1> DEFINE G == {n \in 0 .. N : f[n] \in PutStates}
<1>12. 0 \in G
  BY <1>1, <1>5, <1>11
<1>13. ASSUME NEW n \in 1 .. N, n - 1 \in G PROVE n \in G
  <2>1. n \in 0 .. N /\ n # 0 /\ f[n - 1] \in PutStates
    BY <1>1, <1>13
  <2> HIDE DEF N
  <2> QED
    BY <1>3, <1>11, <2>1
<1>14. \A n \in 0 .. N : f[n] \in PutStates
  <2> HIDE DEF G
  <2>1. \A n \in 1 .. N : n - 1 \in G => n \in G
    BY <1>13
  <2>2. \A n \in 0 .. N : n \in G
    BY <1>1, <1>12, <2>1, Inductive
  <2> QED
    BY <2>2 DEF G
<1>15. \A n \in 1 .. N : n \in 0 .. N /\ n # 0
  BY <1>1
<1> HIDE DEF N
<1>16. f[0] = PutStart
  BY <1>1, <1>11
<1>17. \A n \in 1 .. N : f[n] = Page!putNext(f[n - 1], list[n], g)
  BY <1>11, <1>15
<1> QED
  BY <1>14, <1>16, <1>17 DEF N, f, g

LEMMA ArrangementsAgree ==
    ASSUME NEW list \in Seq(LayoutBlock), NEW width \in Nat
    PROVE  Page!applyReportLayout(list, width) = Server!Arranged(list, width)
<1> DEFINE g == Server!Geometry(width)
           e == Page!putFrom(list, width)
           f == Server!Placings(list, width)
           N == Len(list)
           G == {n \in 0 .. N : /\ e[n].l = f[n].left /\ e[n].r = f[n].right /\ e[n].n = f[n].kpis
                                /\ e[n].out = f[n].out /\ (e[n].n > 0 => e[n].rowY = f[n].row)}
<1>1. g \in Geometries /\ N \in Nat /\ \A n \in 1 .. N : list[n] \in LayoutBlock
  BY GeometryIs
<1>2. /\ \A n \in 0 .. N : e[n] \in PutStates
      /\ e[0] = PutStart /\ \A n \in 1 .. N : e[n] = Page!putNext(e[n - 1], list[n], g)
  BY PuttingsAre
<1>3. /\ f \in [0 .. N -> PlaceStates] /\ f[0] = PlaceStart
      /\ \A n \in 1 .. N : f[n] = Placed(g, f[n - 1], list[n])
  BY PlacingsAre
<1>4. Server!Arranged(list, width) = f[N].out /\ Page!applyReportLayout(list, width) = e[N].out
  BY DEF Server!Arranged, Page!applyReportLayout
<1> HIDE DEF g, e, f, N
<1>5. 0 \in G
  BY <1>1, <1>2, <1>3 DEF PutStart, PlaceStart
<1>6. ASSUME NEW n \in 1 .. N, n - 1 \in G PROVE n \in G
  <2> DEFINE c == e[n - 1]
             s == f[n - 1]
             b == list[n]
             p == Placed(g, s, b)
  <2>1. n \in 0 .. N /\ n - 1 \in 0 .. N
    BY <1>1
  <2>2. c \in PutStates /\ s \in PlaceStates /\ b \in LayoutBlock
    BY <1>1, <1>2, <1>3, <2>1
  <2>3. c.l = s.left /\ c.r = s.right /\ c.n = s.kpis /\ c.out = s.out /\ (c.n > 0 => c.rowY = s.row)
    BY <1>6
  <2>4. e[n] = Page!putNext(c, b, g) /\ f[n] = p
    BY <1>2, <1>3
  <2> HIDE DEF c, s, b
  <2>5. View(c) \in PlaceStates /\ Page!putNext(c, b, g) = PutAs(c, b, Placed(g, View(c), b))
    BY <1>1, <2>2, PutIs
  <2>6. /\ View(c).left = s.left /\ View(c).right = s.right /\ View(c).kpis = s.kpis /\ View(c).out = s.out
        /\ View(c).kpis > 0 => View(c).row = s.row
    BY <2>3 DEF View
  <2>7. Placed(g, View(c), b) = p
    BY <1>1, <2>2, <2>5, <2>6, PlacedAlike
  <2>8. e[n] = PutAs(c, b, p)
    BY <2>4, <2>5, <2>7
  <2>9. p.kpis > 0 => b.kind = "kpi"
    BY DEF Placed, ChartPlaced, WholePlaced
  <2> HIDE DEF p
  <2>10. /\ e[n].l = p.left /\ e[n].r = p.right /\ e[n].n = p.kpis /\ e[n].out = p.out
         /\ e[n].n > 0 => e[n].rowY = p.row
    BY <2>8, <2>9 DEF PutAs
  <2> QED
    BY <2>1, <2>4, <2>10
<1>7. N \in G
  <2> HIDE DEF G
  <2>1. \A n \in 1 .. N : n - 1 \in G => n \in G
    BY <1>6
  <2>2. \A n \in 0 .. N : n \in G
    BY <1>1, <1>5, <2>1, Inductive
  <2> QED
    BY <1>1, <2>2
<1> QED
  BY <1>4, <1>7

-----------------------------------------------------------------------------
(***************************************************************************)
(* The order in which blocks are numbered.                                 *)
(***************************************************************************)
LEMMA InsertionIs ==
    ASSUME NEW S, NEW s \in Seq(S), NEW i \in 1 .. Len(s) + 1, NEW e \in S
    PROVE  /\ InsertAt(s, i, e) \in Seq(S) /\ Len(InsertAt(s, i, e)) = Len(s) + 1
           /\ \A k \in 1 .. Len(s) + 1 :
                 InsertAt(s, i, e)[k] = IF k < i THEN s[k] ELSE IF k = i THEN e ELSE s[k - 1]
<1> DEFINE a == SubSeq(s, 1, i - 1)
           c == SubSeq(s, i, Len(s))
           r == a \o <<e>>
<1>1. Len(s) \in Nat /\ i \in Nat /\ i >= 1 /\ i <= Len(s) + 1
  OBVIOUS
<1>2. a \in Seq(S) /\ Len(a) = i - 1 /\ \A k \in 1 .. i - 1 : a[k] = s[k]
  BY <1>1
<1>3. c \in Seq(S) /\ Len(c) = Len(s) - i + 1 /\ \A k \in 1 .. Len(s) - i + 1 : c[k] = s[k + i - 1]
  BY <1>1
<1>4. InsertAt(s, i, e) = r \o c
  BY DEF InsertAt
<1> HIDE DEF a, c
<1>5. r \in Seq(S) /\ Len(r) = i /\ r[i] = e /\ \A k \in 1 .. i - 1 : r[k] = s[k]
  BY <1>1, <1>2
<1> HIDE DEF r
<1>6. r \o c \in Seq(S) /\ Len(r \o c) = Len(s) + 1
  <2>1. r \in Seq(S) /\ c \in Seq(S) /\ Len(r) + Len(c) = Len(s) + 1
    BY <1>1, <1>3, <1>5
  <2> QED
    BY <2>1, ConcatProperties
<1>7. ASSUME NEW k \in 1 .. Len(s) + 1
      PROVE  (r \o c)[k] = IF k < i THEN s[k] ELSE IF k = i THEN e ELSE s[k - 1]
  <2>1. CASE k <= i
    <3>1. (r \o c)[k] = r[k]
      BY <1>1, <1>3, <1>5, <2>1
    <3> QED
      BY <1>1, <1>5, <2>1, <3>1
  <2>2. CASE k > i
    <3>1. k - i \in 1 .. Len(s) - i + 1 /\ (k - i) + i - 1 = k - 1
      BY <1>1, <2>2
    <3>2. (r \o c)[k] = c[k - i]
      BY <1>1, <1>3, <1>5, <2>2
    <3>3. c[k - i] = s[k - 1]
      BY <1>3, <3>1
    <3> QED
      BY <1>1, <2>2, <3>2, <3>3
  <2>3. k <= i \/ k > i
    BY <1>1
  <2> QED
    BY <2>1, <2>2, <2>3
<1> QED
  BY <1>4, <1>6, <1>7

LEMMA SameInsertion ==
    ASSUME NEW s, NEW i, NEW e
    PROVE  Server!InsertAt(s, i, e) = InsertAt(s, i, e) /\ Page!InsertAt(s, i, e) = InsertAt(s, i, e)
BY DEF Server!InsertAt, Page!InsertAt, InsertAt

\* Where a block goes behind the blocks at later.
LEMMA PositionIs ==
    ASSUME NEW n \in Nat, NEW later \in SUBSET (1 .. n)
    PROVE  1 + Max({0} \cup later) \in 1 .. n + 1
<1>1. CASE later = {}
  <2>1. {0} \cup later = {0} /\ {0} \in SUBSET Int /\ 0 \in {0} /\ \A y \in {0} : 0 >= y
    BY <1>1
  <2>2. Max({0}) = 0
    BY <2>1, MaxIs
  <2> QED
    BY <2>1, <2>2
<1>2. CASE later # {}
  <2> DEFINE v == [k \in later |-> k]
  <2>1. v \in [later -> Int] /\ \A k \in later : v[k] = k
    OBVIOUS
  <2> HIDE DEF v
  <2>2. /\ \E i \in later : Max({v[k] : k \in later}) = v[i]
        /\ \A i \in later : Max({v[k] : k \in later}) >= v[i]
    BY <1>2, <2>1, MaxOver
  <2>3. PICK m \in later : \A k \in later : m >= k
    BY <2>1, <2>2
  <2>4. {0} \cup later \in SUBSET Int /\ m \in {0} \cup later /\ \A y \in {0} \cup later : m >= y
    BY <2>3
  <2>5. Max({0} \cup later) = m
    BY <2>4, MaxIs
  <2> QED
    BY <2>5
<1> QED
  BY <1>1, <1>2

Sorting(f, N, first) ==
    /\ f \in [0 .. N -> Seq(1 .. N)] /\ f[0] = <<>>
    /\ \A n \in 1 .. N : f[n] = Server!Behind(f[n - 1], n, first)

LEMMA BehindIs ==
    ASSUME NEW N \in Nat, NEW first, NEW s \in Seq(1 .. N), NEW n \in 1 .. N
    PROVE  /\ Server!Behind(s, n, first) \in Seq(1 .. N)
           /\ \E i \in 1 .. Len(s) + 1 : Server!Behind(s, n, first) = InsertAt(s, i, n)
<1> DEFINE later == {k \in DOMAIN s : <<n, s[k]>> \notin first}
           i == 1 + Max({0} \cup later)
<1>1. later \in SUBSET (1 .. Len(s)) /\ Len(s) \in Nat
  OBVIOUS
<1>2. Server!Behind(s, n, first) = InsertAt(s, i, n)
  BY SameMax, SameInsertion DEF Server!Behind
<1>3. i \in 1 .. Len(s) + 1
  <2> HIDE DEF later
  <2> QED
    BY <1>1, PositionIs
<1> HIDE DEF i
<1>4. InsertAt(s, i, n) \in Seq(1 .. N)
  BY <1>3, InsertionIs
<1> QED
  BY <1>2, <1>3, <1>4

LEMMA SortedIs ==
    ASSUME NEW N \in Nat, NEW first
    PROVE  \E f : Sorting(f, N, first) /\ Server!Sorted(N, first) = f[N]
<1> DEFINE S == Seq(1 .. N)
           step == [n \in 1 .. N |-> [s \in S |-> Server!Behind(s, n, first)]]
           f == CHOOSE e : e = [n \in 0 .. N |-> IF n = 0 THEN <<>> ELSE Server!Behind(e[n - 1], n, first)]
<1>1. Server!Sorted(N, first) = f[N]
  BY Zenon DEF Server!Sorted
<1>2. \A n \in 1 .. N : \A s \in S : Server!Behind(s, n, first) \in S
  BY BehindIs
<1>3. <<>> \in S
  OBVIOUS
<1> HIDE DEF S
<1>4. step \in [1 .. N -> [S -> S]]
  BY <1>2
<1>5. PICK h : Recurses(h, N, S, <<>>, step)
  <2> HIDE DEF step
  <2> QED
    BY <1>3, <1>4, Recursion
<1>6. h \in [0 .. N -> S] /\ h[0] = <<>> /\ \A n \in 1 .. N : h[n] = step[n][h[n - 1]]
  BY <1>5, Zenon DEF Recurses
<1>7. ASSUME NEW n \in 1 .. N PROVE n # 0 /\ h[n] = Server!Behind(h[n - 1], n, first)
  <2>1. n - 1 \in 0 .. N /\ n # 0
    OBVIOUS
  <2>2. h[n - 1] \in S
    BY <1>6, <2>1
  <2> QED
    BY <1>6, <2>1, <2>2
<1>8. h = [n \in 0 .. N |-> IF n = 0 THEN <<>> ELSE Server!Behind(h[n - 1], n, first)]
  <2>1. \A n \in 0 .. N : n = 0 \/ n \in 1 .. N
    OBVIOUS
  <2> QED
    BY <1>6, <1>7, <2>1
<1>9. f = [n \in 0 .. N |-> IF n = 0 THEN <<>> ELSE Server!Behind(f[n - 1], n, first)]
  BY <1>8, Zenon
<1> HIDE DEF f
<1>10. \A n \in 0 .. N : f[n] = IF n = 0 THEN <<>> ELSE Server!Behind(f[n - 1], n, first)
  BY <1>9, Zenon
<1> DEFINE G == {n \in 0 .. N : f[n] \in S}
<1>11. 0 \in G
  BY <1>3, <1>10
<1>12. ASSUME NEW n \in 1 .. N, n - 1 \in G PROVE n \in G
  <2>1. n \in 0 .. N /\ n # 0 /\ f[n - 1] \in S
    BY <1>12
  <2> QED
    BY <1>2, <1>10, <2>1
<1>13. \A n \in 0 .. N : f[n] \in S
  <2> HIDE DEF G
  <2>1. \A n \in 1 .. N : n - 1 \in G => n \in G
    BY <1>12
  <2>2. \A n \in 0 .. N : n \in G
    BY <1>11, <2>1, Inductive
  <2> QED
    BY <2>2 DEF G
<1>14. f \in [0 .. N -> S]
  BY <1>9, <1>13
<1>15. f[0] = <<>> /\ \A n \in 1 .. N : f[n] = Server!Behind(f[n - 1], n, first)
  <2>1. 0 \in 0 .. N /\ \A n \in 1 .. N : n \in 0 .. N /\ n # 0
    OBVIOUS
  <2> QED
    BY <1>10, <2>1
<1>16. Sorting(f, N, first)
  BY <1>14, <1>15 DEF Sorting, S
<1> QED
  BY <1>1, <1>16

\* Each of the first n blocks is there once.
Permutes(s, n) ==
    /\ Len(s) = n /\ \A k \in 1 .. n : s[k] \in 1 .. n
    /\ \A j, k \in 1 .. n : s[j] = s[k] => j = k

LEMMA SortedPermutes ==
    ASSUME NEW N \in Nat, NEW first, NEW f, Sorting(f, N, first)
    PROVE  \A n \in 0 .. N : Permutes(f[n], n)
<1> DEFINE G == {n \in 0 .. N : Permutes(f[n], n)}
<1>1. 0 \in G
  BY DEF Sorting, Permutes
<1>2. ASSUME NEW n \in 1 .. N, n - 1 \in G PROVE n \in G
  <2> DEFINE s == f[n - 1]
  <2>1. n \in 0 .. N /\ n - 1 \in 0 .. N
    OBVIOUS
  <2>2. s \in Seq(1 .. N) /\ f[n] = Server!Behind(s, n, first)
    BY <2>1 DEF Sorting
  <2>3. Permutes(s, n - 1)
    BY <1>2
  <2> HIDE DEF s
  <2>4. PICK i \in 1 .. Len(s) + 1 : f[n] = InsertAt(s, i, n)
    BY <2>2, BehindIs
  <2>5. /\ Len(f[n]) = Len(s) + 1
        /\ \A k \in 1 .. Len(s) + 1 : f[n][k] = IF k < i THEN s[k] ELSE IF k = i THEN n ELSE s[k - 1]
    BY <2>2, <2>4, InsertionIs
  <2>6. Len(s) = n - 1 /\ (\A k \in 1 .. n - 1 : s[k] \in 1 .. n - 1)
        /\ \A j, k \in 1 .. n - 1 : s[j] = s[k] => j = k
    BY <2>3 DEF Permutes
  <2>7. i \in 1 .. n /\ Len(f[n]) = n
        /\ \A k \in 1 .. n : f[n][k] = IF k < i THEN s[k] ELSE IF k = i THEN n ELSE s[k - 1]
    BY <2>5, <2>6
  <2>8. ASSUME NEW k \in 1 .. n
        PROVE  /\ f[n][k] \in 1 .. n /\ (k = i <=> f[n][k] = n)
               /\ k < i => f[n][k] = s[k] /\ k \in 1 .. n - 1
               /\ k > i => f[n][k] = s[k - 1] /\ k - 1 \in 1 .. n - 1
    <3>1. CASE k < i
      <4>1. k \in 1 .. n - 1 /\ f[n][k] = s[k]
        BY <2>7, <3>1
      <4>2. s[k] \in 1 .. n - 1
        BY <2>6, <4>1
      <4> QED
        BY <2>7, <3>1, <4>1, <4>2
    <3>2. CASE k = i
      BY <2>7, <3>2
    <3>3. CASE k > i
      <4>1. k - 1 \in 1 .. n - 1 /\ f[n][k] = s[k - 1]
        BY <2>7, <3>3
      <4>2. s[k - 1] \in 1 .. n - 1
        BY <2>6, <4>1
      <4> QED
        BY <2>7, <3>3, <4>1, <4>2
    <3> QED
      BY <2>7, <3>1, <3>2, <3>3
  <2>9. ASSUME NEW j \in 1 .. n, NEW k \in 1 .. n, f[n][j] = f[n][k] PROVE j = k
    <3>1. CASE j = i \/ k = i
      BY <2>8, <2>9, <3>1
    <3>2. CASE j < i /\ k < i
      BY <2>6, <2>8, <2>9, <3>2
    <3>3. CASE j > i /\ k > i
      <4>1. j - 1 = k - 1
        BY <2>6, <2>8, <2>9, <3>3
      <4> QED
        BY <4>1
    <3>4. CASE j < i /\ k > i
      <4>1. j = k - 1
        BY <2>6, <2>8, <2>9, <3>4
      <4> QED
        BY <2>7, <3>4, <4>1
    <3>5. CASE j > i /\ k < i
      <4>1. j - 1 = k
        BY <2>6, <2>8, <2>9, <3>5
      <4> QED
        BY <2>7, <3>5, <4>1
    <3> QED
      BY <2>7, <3>1, <3>2, <3>3, <3>4, <3>5
  <2>10. Permutes(f[n], n)
    BY <2>7, <2>8, <2>9 DEF Permutes
  <2> QED
    BY <2>1, <2>10
<1>3. \A n \in 0 .. N : n \in G
  <2> HIDE DEF G
  <2>1. \A n \in 1 .. N : n - 1 \in G => n \in G
    BY <1>2
  <2> QED
    BY <1>1, <2>1, Inductive
<1> QED
  BY <1>3

ServiceFirst(list) == {p \in (1 .. Len(list)) \X (1 .. Len(list)) : Server!ServiceBefore(list[p[1]], list[p[2]])}
ToolFirst(list) == {p \in (1 .. Len(list)) \X (1 .. Len(list)) : Server!ToolBefore(list[p[1]], list[p[2]])}

LEMMA ServiceOrderIs ==
    ASSUME NEW list \in Seq(LayoutBlock)
    PROVE  /\ Permutes(Server!ServiceOrder(list), Len(list))
           /\ \E f : Sorting(f, Len(list), ServiceFirst(list)) /\ Server!ServiceOrder(list) = f[Len(list)]
<1> DEFINE N == Len(list)
<1>1. N \in Nat /\ N \in 0 .. N
  OBVIOUS
<1>2. Server!ServiceOrder(list) = Server!Sorted(N, ServiceFirst(list))
  BY DEF Server!ServiceOrder, ServiceFirst
<1> HIDE DEF N
<1>3. PICK f : Sorting(f, N, ServiceFirst(list)) /\ Server!Sorted(N, ServiceFirst(list)) = f[N]
  BY <1>1, SortedIs
<1>4. Permutes(f[N], N)
  BY <1>1, <1>3, SortedPermutes
<1> QED
  BY <1>2, <1>3, <1>4 DEF N

LEMMA ToolOrderIs ==
    ASSUME NEW list \in Seq(LayoutBlock)
    PROVE  Permutes(Server!ToolOrder(list), Len(list)) /\ Server!ToolOrder(list) = Server!Sorted(Len(list), ToolFirst(list))
<1> DEFINE N == Len(list)
<1>1. N \in Nat /\ N \in 0 .. N
  OBVIOUS
<1>2. Server!ToolOrder(list) = Server!Sorted(N, ToolFirst(list))
  BY DEF Server!ToolOrder, ToolFirst
<1> HIDE DEF N
<1>3. PICK f : Sorting(f, N, ToolFirst(list)) /\ Server!Sorted(N, ToolFirst(list)) = f[N]
  BY <1>1, SortedIs
<1>4. Permutes(f[N], N)
  BY <1>1, <1>3, SortedPermutes
<1> QED
  BY <1>2, <1>3, <1>4 DEF N

LEMMA SameNearness ==
    ASSUME NEW a \in Int, NEW b \in Int
    PROVE  Page!SameRow(a, b) <=> Server!Near(a, b)
BY DEF Page!SameRow, Server!Near

LEMMA SameBefore ==
    ASSUME NEW a \in LayoutBlock, NEW b \in LayoutBlock
    PROVE  Page!comesFirst(a, b) <=> Server!ServiceBefore(a, b)
<1>1. a.placed \in BOOLEAN /\ b.placed \in BOOLEAN /\ a.y \in Int /\ b.y \in Int
  BY DEF LayoutBlock
<1>2. Page!SameRow(a.y, b.y) <=> Server!Near(a.y, b.y)
  BY <1>1, SameNearness
<1> QED
  BY <1>1, <1>2 DEF Page!comesFirst, Server!ServiceBefore

LEMMA OrdersAgree ==
    ASSUME NEW list \in Seq(LayoutBlock)
    PROVE  Page!order(list) = Server!ServiceOrder(list)
<1> DEFINE N == Len(list)
           first == ServiceFirst(list)
           Later(s, n) == {k \in DOMAIN s : ~Page!comesFirst(list[n], list[s[k]])}
           Next1(s, n) == Page!InsertAt(s, 1 + Page!Max({0} \cup Later(s, n)), n)
           e == CHOOSE g : g = [n \in 0 .. N |-> IF n = 0 THEN <<>> ELSE Next1(g[n - 1], n)]
<1>1. Page!order(list) = e[N]
  BY Zenon DEF Page!order
<1>2. N \in Nat /\ \A n \in 1 .. N : list[n] \in LayoutBlock
  OBVIOUS
<1>3. ASSUME NEW s \in Seq(1 .. N), NEW n \in 1 .. N PROVE Next1(s, n) = Server!Behind(s, n, first)
  <2> DEFINE later == {k \in DOMAIN s : <<n, s[k]>> \notin first}
  <2>1. ASSUME NEW k \in DOMAIN s PROVE <<n, s[k]>> \in first <=> Page!comesFirst(list[n], list[s[k]])
    <3>1. s[k] \in 1 .. N
      OBVIOUS
    <3>2. list[n] \in LayoutBlock /\ list[s[k]] \in LayoutBlock
      BY <1>2, <3>1
    <3>3. <<n, s[k]>> \in first <=> Server!ServiceBefore(list[n], list[s[k]])
      BY <3>1 DEF ServiceFirst
    <3> QED
      BY <3>2, <3>3, SameBefore
  <2>2. later = Later(s, n)
    <3> HIDE DEF first
    <3> QED
      BY <2>1
  <2>3. Server!Behind(s, n, first) = Server!InsertAt(s, 1 + Server!Max({0} \cup later), n)
    BY DEF Server!Behind
  <2> HIDE DEF later, first
  <2>4. Server!Max({0} \cup later) = Page!Max({0} \cup later)
    BY SameMax
  <2> QED
    BY <2>2, <2>3, <2>4, SameInsertion
<1>4. PICK f : Sorting(f, N, first) /\ Server!ServiceOrder(list) = f[N]
  BY ServiceOrderIs
<1> HIDE DEF first, Next1, Later, N
<1>5. ASSUME NEW n \in 1 .. N PROVE n # 0 /\ f[n] = Next1(f[n - 1], n)
  <2>1. n # 0 /\ n - 1 \in 0 .. N
    BY <1>2
  <2>2. f[n - 1] \in Seq(1 .. N) /\ f[n] = Server!Behind(f[n - 1], n, first)
    BY <1>4, <2>1 DEF Sorting
  <2> QED
    BY <1>3, <2>1, <2>2
<1>6. f = [n \in 0 .. N |-> IF n = 0 THEN <<>> ELSE Next1(f[n - 1], n)]
  <2>1. \A n \in 0 .. N : n = 0 \/ n \in 1 .. N
    BY <1>2
  <2>2. f \in [0 .. N -> Seq(1 .. N)] /\ f[0] = <<>>
    BY <1>4 DEF Sorting
  <2> QED
    BY <1>5, <2>1, <2>2
<1>7. e = [n \in 0 .. N |-> IF n = 0 THEN <<>> ELSE Next1(e[n - 1], n)]
  BY <1>6, Zenon
<1> HIDE DEF e
<1>8. \A n \in 0 .. N : e[n] = IF n = 0 THEN <<>> ELSE Next1(e[n - 1], n)
  BY <1>7, Zenon
<1> DEFINE G == {n \in 0 .. N : e[n] = f[n]}
<1>9. 0 \in G
  <2>1. f[0] = <<>>
    BY <1>4 DEF Sorting
  <2> QED
    BY <1>2, <1>8, <2>1
<1>10. ASSUME NEW n \in 1 .. N, n - 1 \in G PROVE n \in G
  <2>1. n \in 0 .. N /\ n # 0 /\ e[n - 1] = f[n - 1]
    BY <1>2, <1>10
  <2>2. e[n] = Next1(f[n - 1], n)
    BY <1>8, <2>1
  <2>3. f[n] = Next1(f[n - 1], n)
    BY <1>5
  <2> QED
    BY <2>1, <2>2, <2>3
<1>11. N \in G
  <2> HIDE DEF G
  <2>1. \A n \in 1 .. N : n - 1 \in G => n \in G
    BY <1>10
  <2>2. \A n \in 0 .. N : n \in G
    BY <1>2, <1>9, <2>1, Inductive
  <2> QED
    BY <1>2, <2>2
<1> QED
  BY <1>1, <1>4, <1>11

\* Where the rows are exact the tools order blocks as the service does.
LEMMA ToolOrdersAlike ==
    ASSUME NEW list \in Seq(LayoutBlock),
           \A b, c \in Range(list) : b.placed /\ c.placed /\ Server!Near(b.y, c.y) => b.y = c.y
    PROVE  Server!ToolOrder(list) = Server!ServiceOrder(list)
<1>1. ASSUME NEW i \in 1 .. Len(list), NEW j \in 1 .. Len(list)
      PROVE  Server!ToolBefore(list[i], list[j]) <=> Server!ServiceBefore(list[i], list[j])
  <2> DEFINE b == list[i]
             c == list[j]
  <2>1. b \in Range(list) /\ c \in Range(list)
    BY DEF Range
  <2>2. b.placed \in BOOLEAN /\ c.placed \in BOOLEAN /\ b.y \in Int /\ c.y \in Int /\ b.x \in Int /\ c.x \in Int
    <3>1. b \in LayoutBlock /\ c \in LayoutBlock
      OBVIOUS
    <3> HIDE DEF b, c
    <3> QED
      BY <3>1 DEF LayoutBlock
  <2> HIDE DEF b, c
  <2>3. b.placed /\ c.placed /\ Server!Near(b.y, c.y) => b.y = c.y
    BY <2>1
  <2>4. Server!ToolBefore(b, c) <=> Server!ServiceBefore(b, c)
    BY <2>2, <2>3 DEF Server!ToolBefore, Server!ServiceBefore, Server!Near
  <2> QED
    BY <2>4 DEF b, c
<1>2. ToolFirst(list) = ServiceFirst(list)
  BY <1>1 DEF ToolFirst, ServiceFirst
<1>3. Server!ServiceOrder(list) = Server!Sorted(Len(list), ServiceFirst(list))
  BY DEF Server!ServiceOrder, ServiceFirst
<1> QED
  BY <1>2, <1>3, ToolOrderIs

-----------------------------------------------------------------------------
(***************************************************************************)
(* The numbers of blocks.                                                  *)
(***************************************************************************)
Labels(N) == [keys : Seq(Int), extra : Nat, out : [1 .. N -> Nat \X Nat]]
Closest(keys, b) == {k \in DOMAIN keys : b.placed /\ Server!Near(keys[k], b.y)}

LEMMA LeastOf ==
    ASSUME NEW n \in Nat, NEW S \in SUBSET (1 .. n), S # {}
    PROVE  Min(S) \in S /\ \A k \in S : Min(S) <= k
<1>1. S \in SUBSET Nat
  OBVIOUS
<1>2. PICK m \in S : \A k \in S : m <= k
  BY <1>1, Least
<1> QED
  BY <1>2, Zenon DEF Min

LEMMA LeastIs ==
    ASSUME NEW S \in SUBSET Int, NEW m \in S, \A k \in S : m <= k
    PROVE  Min(S) = m
<1>1. Min(S) \in S /\ \A k \in S : Min(S) <= k
  BY Zenon DEF Min
<1>2. m \in Int /\ Min(S) \in Int /\ m <= Min(S) /\ Min(S) <= m
  BY <1>1
<1> QED
  BY <1>2

LEMMA RowIs ==
    ASSUME NEW keys \in Seq(Int), NEW b \in LayoutBlock
    PROVE  /\ Server!Row(keys, b) \in 1 .. Len(keys) + 1
           /\ Closest(keys, b) = {} <=> Server!Row(keys, b) = Len(keys) + 1
           /\ Closest(keys, b) # {} => /\ Server!Row(keys, b) \in Closest(keys, b)
                                       /\ \A k \in Closest(keys, b) : Server!Row(keys, b) <= k
           /\ Server!Row(keys, b) = Page!Min(Closest(keys, b) \cup {Len(keys) + 1})
<1> DEFINE near == Closest(keys, b)
           n == Len(keys)
<1>1. n \in Nat /\ near \in SUBSET (1 .. n)
  BY DEF Closest
<1>2. Server!Row(keys, b) = IF near = {} THEN n + 1 ELSE Min(near)
  BY SameMax DEF Server!Row, Closest
<1> HIDE DEF near, n
<1>3. CASE near = {}
  <2>1. near \cup {n + 1} \in SUBSET Int /\ n + 1 \in near \cup {n + 1} /\ \A k \in near \cup {n + 1} : n + 1 <= k
    BY <1>1, <1>3
  <2>2. Min(near \cup {n + 1}) = n + 1
    BY <2>1, LeastIs
  <2> QED
    BY <1>1, <1>2, <1>3, <2>2, SameMax DEF near, n
<1>4. CASE near # {}
  <2>1. Min(near) \in near /\ \A k \in near : Min(near) <= k
    BY <1>1, <1>4, LeastOf
  <2> DEFINE m == Min(near)
  <2>2. near \cup {n + 1} \in SUBSET Int /\ m \in near \cup {n + 1} /\ \A k \in near \cup {n + 1} : m <= k
    <3>1. m \in near /\ m \in 1 .. n /\ \A k \in near : m <= k
      BY <1>1, <2>1
    <3> HIDE DEF m
    <3> QED
      BY <1>1, <3>1
  <2> HIDE DEF m
  <2>3. Min(near \cup {n + 1}) = m
    BY <2>2, LeastIs
  <2>4. m \in 1 .. n
    BY <1>1, <2>1 DEF m
  <2> QED
    BY <1>1, <1>2, <1>4, <2>1, <2>3, <2>4, SameMax DEF m, near, n
<1> QED
  BY <1>3, <1>4

NumberedAs(s, b, i, key) ==
    LET r == Server!Row(s.keys, b)
        mine == IF b.placed THEN b.y ELSE key
    IN [keys |-> IF r = Len(s.keys) + 1 /\ mine \notin Range(s.keys) THEN Append(s.keys, mine) ELSE s.keys,
        extra |-> IF b.placed THEN s.extra ELSE s.extra + 1,
        out |-> [s.out EXCEPT ![i] = <<r, Cardinality({j \in DOMAIN s.out : s.out[j][1] = r}) + 1>>]]

LEMMA NumberedIs ==
    ASSUME NEW list \in Seq(LayoutBlock), NEW s \in Labels(Len(list)), NEW i \in 1 .. Len(list), NEW key \in Int
    PROVE  /\ Server!Numbered(s, list, i, key) = NumberedAs(s, list[i], i, key)
           /\ Server!Numbered(s, list, i, key) \in Labels(Len(list))
<1> DEFINE b == list[i]
           r == Server!Row(s.keys, b)
           mine == IF b.placed THEN b.y ELSE key
           N == Len(list)
           same == {j \in DOMAIN s.out : s.out[j][1] = r}
<1>1. s.keys \in Seq(Int) /\ s.extra \in Nat /\ s.out \in [1 .. N -> Nat \X Nat] /\ N \in Nat /\ i \in 1 .. N
  BY DEF Labels
<1>2. b \in LayoutBlock
  OBVIOUS
<1> HIDE DEF b, N
<1>3. r \in 1 .. Len(s.keys) + 1 /\ Len(s.keys) \in Nat
  <2>1. Server!Row(s.keys, b) \in 1 .. Len(s.keys) + 1
    BY <1>1, <1>2, RowIs
  <2> QED
    BY <1>1, <2>1
<1>4. mine \in Int /\ b.placed \in BOOLEAN
  BY <1>2 DEF LayoutBlock
<1> HIDE DEF mine, r
<1>5. r > Len(s.keys) <=> r = Len(s.keys) + 1
  BY <1>3
<1>6. Cardinality(same) \in Nat
  <2>1. same \in SUBSET (1 .. N)
    BY <1>1
  <2>2. IsFiniteSet(1 .. N)
    BY <1>1, FS_Interval
  <2> HIDE DEF same
  <2>3. IsFiniteSet(same)
    BY <2>1, <2>2, FS_Subset
  <2> QED
    BY <2>3, FS_CardinalityType
<1>7. Server!Numbered(s, list, i, key) =
          [keys |-> IF r > Len(s.keys) /\ mine \notin Range(s.keys) THEN Append(s.keys, mine) ELSE s.keys,
           extra |-> IF b.placed THEN s.extra ELSE s.extra + 1,
           out |-> [s.out EXCEPT ![i] = <<r, Server!Cardinality(same) + 1>>]]
  BY DEF Server!Numbered, r, b, mine, Server!Range, Range
<1>8. Server!Cardinality(same) = Cardinality(same)
  BY SameCardinality
<1>9. NumberedAs(s, b, i, key) =
          [keys |-> IF r = Len(s.keys) + 1 /\ mine \notin Range(s.keys) THEN Append(s.keys, mine) ELSE s.keys,
           extra |-> IF b.placed THEN s.extra ELSE s.extra + 1,
           out |-> [s.out EXCEPT ![i] = <<r, Cardinality(same) + 1>>]]
  BY DEF NumberedAs, r, mine
<1>10. NumberedAs(s, b, i, key) \in Labels(N)
  <2> DEFINE c == Cardinality(same) + 1
             more == Append(s.keys, mine)
  <2>1. c \in Nat /\ r \in Nat /\ more \in Seq(Int)
    BY <1>1, <1>3, <1>4, <1>6
  <2> HIDE DEF c, more, same
  <2>2. [s.out EXCEPT ![i] = <<r, c>>] \in [1 .. N -> Nat \X Nat]
    BY <1>1, <2>1
  <2> DEFINE o == [s.out EXCEPT ![i] = <<r, c>>]
             ks == IF r = Len(s.keys) + 1 /\ mine \notin Range(s.keys) THEN more ELSE s.keys
             x == IF b.placed THEN s.extra ELSE s.extra + 1
  <2>3. NumberedAs(s, b, i, key) = [keys |-> ks, extra |-> x, out |-> o]
    BY <1>9 DEF c, more
  <2>4. ks \in Seq(Int) /\ x \in Nat /\ o \in [1 .. N -> Nat \X Nat]
    BY <1>1, <2>1, <2>2
  <2> HIDE DEF ks, x, o
  <2>5. [keys |-> ks, extra |-> x, out |-> o] \in Labels(N)
    BY <2>4, Zenon DEF Labels
  <2> QED
    BY <2>3, <2>5, Zenon
<1>11. Server!Numbered(s, list, i, key) = NumberedAs(s, b, i, key)
  <2> DEFINE ks == IF r = Len(s.keys) + 1 /\ mine \notin Range(s.keys) THEN Append(s.keys, mine) ELSE s.keys
             x == IF b.placed THEN s.extra ELSE s.extra + 1
             o == [s.out EXCEPT ![i] = <<r, Cardinality(same) + 1>>]
  <2>1. ks = IF r > Len(s.keys) /\ mine \notin Range(s.keys) THEN Append(s.keys, mine) ELSE s.keys
    BY <1>5
  <2>2. Server!Numbered(s, list, i, key) =
          [keys |-> IF r > Len(s.keys) /\ mine \notin Range(s.keys) THEN Append(s.keys, mine) ELSE s.keys,
           extra |-> x, out |-> o]
    BY <1>7, <1>8
  <2>3. NumberedAs(s, b, i, key) = [keys |-> ks, extra |-> x, out |-> o]
    BY <1>9
  <2> HIDE DEF ks, x, o, same
  <2> QED
    BY <2>1, <2>2, <2>3
<1> QED
  BY <1>10, <1>11 DEF b, N

InRow(out, r) == {j \in DOMAIN out : out[j][1] = r}
\* The numbers of a row count its blocks.
Counted(out) ==
    /\ NoTwins(out)
    /\ \A j \in DOMAIN out : \/ out[j] = <<0, 0>>
                             \/ out[j][1] >= 1 /\ out[j][2] >= 1 /\ out[j][2] <= Cardinality(InRow(out, out[j][1]))

LEMMA CountedStays ==
    ASSUME NEW N \in Nat, NEW out \in [1 .. N -> Nat \X Nat], Counted(out), NEW p \in 1 .. N, out[p] = <<0, 0>>,
           NEW r \in Nat \ {0}
    PROVE  Counted([out EXCEPT ![p] = <<r, Cardinality(InRow(out, r)) + 1>>])
<1> DEFINE c == Cardinality(InRow(out, r)) + 1
           o == [out EXCEPT ![p] = <<r, c>>]
<1>1. ASSUME NEW q PROVE IsFiniteSet(InRow(out, q)) /\ Cardinality(InRow(out, q)) \in Nat
  <2>1. IsFiniteSet(1 .. N) /\ InRow(out, q) \in SUBSET (1 .. N)
    BY FS_Interval DEF InRow
  <2>2. IsFiniteSet(InRow(out, q))
    BY <2>1, FS_Subset
  <2> QED
    BY <2>2, FS_CardinalityType
<1>2. c \in Nat /\ c >= 1
  BY <1>1
<1>3. p \notin InRow(out, r)
  BY DEF InRow
<1>4. InRow(o, r) = InRow(out, r) \cup {p}
  <2> HIDE DEF c
  <2> QED
    BY DEF InRow
<1>5. Cardinality(InRow(o, r)) = c
  BY <1>1, <1>3, <1>4, FS_AddElement
<1>6. ASSUME NEW q \in Nat, q # r, q # 0 PROVE InRow(o, q) = InRow(out, q)
  <2> HIDE DEF c
  <2> QED
    BY <1>6 DEF InRow
<1>7. ASSUME NEW j \in 1 .. N
      PROVE  /\ out[j] \in Nat \X Nat /\ out[j] = <<out[j][1], out[j][2]>> /\ out[j][1] \in Nat /\ out[j][2] \in Nat
             /\ o[j] = IF j = p THEN <<r, c>> ELSE out[j]
  OBVIOUS
<1>8. DOMAIN o = 1 .. N /\ DOMAIN out = 1 .. N
  OBVIOUS
<1>9. ASSUME NEW j \in 1 .. N
      PROVE  out[j] = <<0, 0>> \/ (out[j][1] >= 1 /\ out[j][2] >= 1 /\ out[j][2] <= Cardinality(InRow(out, out[j][1])))
  BY <1>8 DEF Counted
<1> HIDE DEF o
<1>10. ASSUME NEW j \in 1 .. N
       PROVE  \/ o[j] = <<0, 0>>
              \/ o[j][1] >= 1 /\ o[j][2] >= 1 /\ o[j][2] <= Cardinality(InRow(o, o[j][1]))
  <2>1. CASE j = p
    <3>1. o[j] = <<r, c>> /\ o[j][1] = r /\ o[j][2] = c
      <4> HIDE DEF c
      <4> QED
        BY <1>7, <2>1
    <3> HIDE DEF c
    <3> QED
      BY <1>2, <1>5, <3>1
  <2>2. CASE j # p
    <3>1. o[j] = out[j]
      BY <1>7, <2>2
    <3>2. CASE out[j] = <<0, 0>>
      BY <3>1, <3>2
    <3>3. CASE out[j] # <<0, 0>> /\ out[j][1] = r
      <4>1. out[j][2] <= Cardinality(InRow(out, r))
        BY <1>9, <3>3
      <4>2. out[j][2] <= c
        BY <1>1, <1>7, <4>1
      <4> HIDE DEF c
      <4> QED
        BY <1>5, <1>9, <3>1, <3>3, <4>2
    <3>4. CASE out[j] # <<0, 0>> /\ out[j][1] # r
      <4>1. out[j][1] \in Nat /\ out[j][1] # 0
        BY <1>7, <1>9, <3>4
      <4>2. InRow(o, out[j][1]) = InRow(out, out[j][1])
        BY <1>6, <3>4, <4>1
      <4> QED
        BY <1>9, <3>1, <3>4, <4>2
    <3> QED
      BY <3>2, <3>3, <3>4
  <2> QED
    BY <2>1, <2>2
<1>11. ASSUME NEW j \in 1 .. N, j # p, out[j] # <<0, 0>> PROVE out[j] # <<r, c>>
  <2>1. CASE out[j][1] = r
    <3>1. out[j][2] <= Cardinality(InRow(out, r))
      BY <1>9, <1>11, <2>1
    <3>2. out[j][2] # c
      BY <1>1, <1>7, <3>1
    <3> HIDE DEF c
    <3> QED
      BY <3>2
  <2>2. CASE out[j][1] # r
    <3> HIDE DEF c
    <3> QED
      BY <2>2
  <2> QED
    BY <2>1, <2>2
<1>12. <<r, c>> # <<0, 0>>
  OBVIOUS
<1> HIDE DEF c
<1>13. NoTwins(out)
  BY DEF Counted
<1>14. ASSUME NEW i \in 1 .. N, NEW j \in 1 .. N, o[i] = o[j] PROVE i = j \/ o[i] = <<0, 0>>
  <2>1. CASE i # p /\ j # p
    <3>1. o[i] = out[i] /\ o[j] = out[j]
      BY <1>7, <2>1
    <3> QED
      BY <1>8, <1>13, <1>14, <3>1 DEF NoTwins
  <2>2. CASE i = p /\ j # p
    <3>1. o[i] = <<r, c>> /\ o[j] = out[j]
      BY <1>7, <2>2
    <3> QED
      BY <1>11, <1>12, <1>14, <2>2, <3>1
  <2>3. CASE i # p /\ j = p
    <3>1. o[j] = <<r, c>> /\ o[i] = out[i]
      BY <1>7, <2>3
    <3> QED
      BY <1>11, <1>12, <1>14, <2>3, <3>1
  <2> QED
    BY <2>1, <2>2, <2>3
<1>15. Counted(o)
  BY <1>8, <1>10, <1>14 DEF Counted, NoTwins
<1> QED
  BY <1>15 DEF o, c

\* Blocks are numbered one after the other, in an order, or left out.
NumbersGiven(f, N, list, o) ==
    /\ f \in [0 .. N -> Labels(N)]
    /\ f[0].out = [i \in 1 .. N |-> <<0, 0>>]
    /\ \A n \in 1 .. N : \/ f[n] = f[n - 1]
                         \/ \E key \in Int : f[n] = NumberedAs(f[n - 1], list[o[n]], o[n], key)

LEMMA NumberingHasNoTwins ==
    ASSUME NEW list \in Seq(LayoutBlock), NEW o, Permutes(o, Len(list)), NEW f, NumbersGiven(f, Len(list), list, o)
    PROVE  NoTwins(f[Len(list)].out)
<1> DEFINE N == Len(list)
           G == {n \in 0 .. N : /\ Counted(f[n].out)
                                /\ \A k \in 1 .. N : k > n => f[n].out[o[k]] = <<0, 0>>}
<1>1. N \in Nat /\ \A n \in 1 .. N : list[n] \in LayoutBlock
  OBVIOUS
<1>2. (\A k \in 1 .. N : o[k] \in 1 .. N) /\ \A j, k \in 1 .. N : o[j] = o[k] => j = k
  BY DEF Permutes
<1>3. /\ \A n \in 0 .. N : f[n] \in Labels(N)
      /\ f[0].out = [i \in 1 .. N |-> <<0, 0>>]
      /\ \A n \in 1 .. N : \/ f[n] = f[n - 1]
                           \/ \E key \in Int : f[n] = NumberedAs(f[n - 1], list[o[n]], o[n], key)
  BY DEF NumbersGiven
<1> HIDE DEF N
<1>4. 0 \in G
  <2>1. Counted([i \in 1 .. N |-> <<0, 0>>])
    BY DEF Counted, NoTwins
  <2> QED
    BY <1>1, <1>2, <1>3, <2>1
<1>5. ASSUME NEW n \in 1 .. N, n - 1 \in G PROVE n \in G
  <2> DEFINE s == f[n - 1]
             p == o[n]
  <2>1. n \in 0 .. N /\ n - 1 \in 0 .. N /\ p \in 1 .. N
    BY <1>1, <1>2
  <2>2. s \in Labels(N) /\ Counted(s.out) /\ \A k \in 1 .. N : k > n - 1 => s.out[o[k]] = <<0, 0>>
    BY <1>3, <1>5, <2>1
  <2>3. s.out[p] = <<0, 0>> /\ \A k \in 1 .. N : k > n => s.out[o[k]] = <<0, 0>>
    <3>1. n \in 1 .. N /\ n > n - 1 /\ \A k \in 1 .. N : k > n => k > n - 1
      BY <1>1
    <3> HIDE DEF s
    <3> QED
      BY <2>2, <3>1
  <2>4. CASE f[n] = s
    <3>1. f[n].out = s.out
      BY <2>4
    <3> HIDE DEF s, p
    <3>2. Counted(f[n].out) /\ \A k \in 1 .. N : k > n => f[n].out[o[k]] = <<0, 0>>
      BY <2>2, <2>3, <3>1
    <3> QED
      BY <2>1, <3>2
  <2>5. CASE f[n] # s
    <3>1. PICK key \in Int : f[n] = NumberedAs(s, list[p], p, key)
      BY <1>3, <2>5
    <3> DEFINE b == list[p]
               r == Server!Row(s.keys, b)
    <3>2. b \in LayoutBlock /\ s.keys \in Seq(Int) /\ s.out \in [1 .. N -> Nat \X Nat] /\ DOMAIN s.out = 1 .. N
      BY <1>1, <2>1, <2>2 DEF Labels
    <3> HIDE DEF s, p, b
    <3>3. r \in Nat \ {0}
      <4>1. Server!Row(s.keys, b) \in 1 .. Len(s.keys) + 1
        BY <3>2, RowIs
      <4> QED
        BY <4>1
    <3> HIDE DEF r
    <3>4. f[n].out = [s.out EXCEPT ![p] = <<r, Cardinality(InRow(s.out, r)) + 1>>]
      BY <3>1 DEF NumberedAs, InRow, r, b
    <3>5. Counted(f[n].out)
      <4>1. s.out[p] = <<0, 0>> /\ Counted(s.out)
        BY <2>2, <2>3
      <4> DEFINE out == s.out
      <4>2. out[p] = <<0, 0>> /\ Counted(out) /\ out \in [1 .. N -> Nat \X Nat]
        BY <3>2, <4>1
      <4> HIDE DEF out
      <4>3. Counted([out EXCEPT ![p] = <<r, Cardinality(InRow(out, r)) + 1>>])
        BY <1>1, <2>1, <3>3, <4>2, CountedStays
      <4> QED
        BY <3>4, <4>3 DEF out
    <3>6. ASSUME NEW k \in 1 .. N, k > n PROVE f[n].out[o[k]] = <<0, 0>>
      <4>1. o[k] # p /\ o[k] \in 1 .. N
        BY <1>2, <3>6, <2>1 DEF p
      <4>2. f[n].out[o[k]] = s.out[o[k]]
        BY <3>2, <3>4, <4>1
      <4> QED
        BY <2>3, <3>6, <4>2
    <3> QED
      BY <2>1, <3>5, <3>6
  <2> QED
    BY <2>4, <2>5
<1>6. N \in G
  <2> HIDE DEF G
  <2>1. \A n \in 1 .. N : n - 1 \in G => n \in G
    BY <1>5
  <2>2. \A n \in 0 .. N : n \in G
    BY <1>1, <1>4, <2>1, Inductive
  <2> QED
    BY <1>1, <2>2
<1> QED
  BY <1>6 DEF Counted, N

Unlabelled(N, keys) == [keys |-> keys, extra |-> 0, out |-> [i \in 1 .. N |-> <<0, 0>>]]
\* The service numbers all blocks in its order.
Serving(f, list) ==
    LET o == Server!ServiceOrder(list)
    IN /\ f \in [0 .. Len(list) -> Labels(Len(list))] /\ f[0] = Unlabelled(Len(list), <<>>)
       /\ \A n \in 1 .. Len(list) : f[n] = NumberedAs(f[n - 1], list[o[n]], o[n], -1 - f[n - 1].extra)

LEMMA UnlabelledIs ==
    ASSUME NEW list \in Seq(LayoutBlock), NEW keys \in Seq(Int)
    PROVE  /\ Server!NoNumbers(list, keys) = Unlabelled(Len(list), keys)
           /\ Unlabelled(Len(list), keys) \in Labels(Len(list))
<1> DEFINE N == Len(list)
           zero == [i \in 1 .. N |-> <<0, 0>>]
<1>1. DOMAIN list = 1 .. N
  OBVIOUS
<1>2. Server!NoNumbers(list, keys) = Unlabelled(N, keys)
  BY <1>1, Zenon DEF Server!NoNumbers, Unlabelled
<1>3. zero \in [1 .. N -> Nat \X Nat] /\ 0 \in Nat
  OBVIOUS
<1>4. Unlabelled(N, keys) = [keys |-> keys, extra |-> 0, out |-> zero]
  BY DEF Unlabelled
<1> HIDE DEF zero, N
<1>5. Unlabelled(N, keys) \in Labels(N)
  BY <1>3, <1>4 DEF Labels
<1> QED
  BY <1>2, <1>5 DEF N

LEMMA ServiceLabelsAre ==
    ASSUME NEW list \in Seq(LayoutBlock)
    PROVE  \E f : Serving(f, list) /\ Server!ServiceLabels(list) = f[Len(list)].out
<1> DEFINE N == Len(list)
           L == Labels(N)
           o == Server!ServiceOrder(list)
           base == Unlabelled(N, <<>>)
           one(s, n) == Server!Numbered(s, list, o[n], -1 - s.extra)
           step == [n \in 1 .. N |-> [s \in L |-> one(s, n)]]
           f == CHOOSE e : e = [n \in 0 .. N |-> IF n = 0 THEN base ELSE one(e[n - 1], n)]
<1>1. N \in Nat /\ (\A n \in 1 .. N : list[n] \in LayoutBlock) /\ <<>> \in Seq(Int)
  OBVIOUS
<1>2. base \in L /\ Server!NoNumbers(list, <<>>) = base
  BY <1>1, UnlabelledIs
<1>3. Server!ServiceLabels(list) = f[N].out
  <2>1. Server!ServiceLabels(list) =
          (CHOOSE e : e = [n \in 0 .. Len(list) |->
              IF n = 0 THEN Server!NoNumbers(list, <<>>)
              ELSE Server!Numbered(e[n - 1], list, Server!ServiceOrder(list)[n], -1 - e[n - 1].extra)])[Len(list)].out
    BY DEF Server!ServiceLabels
  <2> HIDE DEF base
  <2> QED
    BY <1>2, <2>1, Zenon
<1>4. \A n \in 1 .. N : o[n] \in 1 .. N
  BY ServiceOrderIs DEF Permutes
<1>5. ASSUME NEW n \in 1 .. N, NEW s \in L
      PROVE  one(s, n) = NumberedAs(s, list[o[n]], o[n], -1 - s.extra) /\ one(s, n) \in L
  <2>1. -1 - s.extra \in Int /\ o[n] \in 1 .. N
    BY <1>4 DEF Labels
  <2> HIDE DEF o
  <2> QED
    BY <2>1, NumberedIs
<1> HIDE DEF N, L, o, base, one
<1>6. step \in [1 .. N -> [L -> L]]
  BY <1>5
<1>7. PICK h : Recurses(h, N, L, base, step)
  <2> HIDE DEF step
  <2> QED
    BY <1>1, <1>2, <1>6, Recursion
<1>8. h \in [0 .. N -> L] /\ h[0] = base /\ \A n \in 1 .. N : h[n] = step[n][h[n - 1]]
  BY <1>7, Zenon DEF Recurses
<1>9. ASSUME NEW n \in 1 .. N PROVE n # 0 /\ h[n] = one(h[n - 1], n)
  <2>1. n - 1 \in 0 .. N /\ n # 0
    BY <1>1
  <2>2. h[n - 1] \in L
    BY <1>8, <2>1
  <2> QED
    BY <1>8, <2>1, <2>2
<1>10. h = [n \in 0 .. N |-> IF n = 0 THEN base ELSE one(h[n - 1], n)]
  <2>1. \A n \in 0 .. N : n = 0 \/ n \in 1 .. N
    BY <1>1
  <2> QED
    BY <1>8, <1>9, <2>1
<1>11. f = [n \in 0 .. N |-> IF n = 0 THEN base ELSE one(f[n - 1], n)]
  BY <1>10, Zenon
<1> HIDE DEF f
<1>12. \A n \in 0 .. N : f[n] = IF n = 0 THEN base ELSE one(f[n - 1], n)
  BY <1>11, Zenon
<1> DEFINE G == {n \in 0 .. N : f[n] \in L}
<1>13. 0 \in G
  BY <1>1, <1>2, <1>12
<1>14. ASSUME NEW n \in 1 .. N, n - 1 \in G PROVE n \in G
  <2>1. n \in 0 .. N /\ n # 0 /\ f[n - 1] \in L
    BY <1>1, <1>14
  <2> QED
    BY <1>5, <1>12, <2>1
<1>15. \A n \in 0 .. N : f[n] \in L
  <2> HIDE DEF G
  <2>1. \A n \in 1 .. N : n - 1 \in G => n \in G
    BY <1>14
  <2>2. \A n \in 0 .. N : n \in G
    BY <1>1, <1>13, <2>1, Inductive
  <2> QED
    BY <2>2 DEF G
<1>16. f \in [0 .. N -> L] /\ f[0] = base
  BY <1>1, <1>11, <1>12, <1>15
<1>17. ASSUME NEW n \in 1 .. N PROVE f[n] = NumberedAs(f[n - 1], list[o[n]], o[n], -1 - f[n - 1].extra)
  <2>1. n \in 0 .. N /\ n # 0 /\ n - 1 \in 0 .. N
    BY <1>1
  <2>2. f[n] = one(f[n - 1], n) /\ f[n - 1] \in L
    BY <1>12, <1>15, <2>1
  <2> QED
    BY <1>5, <2>2
<1>18. Serving(f, list)
  BY <1>16, <1>17 DEF Serving, N, L, o, base
<1> QED
  BY <1>3, <1>18 DEF N

LEMMA ServingNumbers ==
    ASSUME NEW list \in Seq(LayoutBlock), NEW f, Serving(f, list)
    PROVE  NumbersGiven(f, Len(list), list, Server!ServiceOrder(list))
<1> DEFINE N == Len(list)
           o == Server!ServiceOrder(list)
<1>1. f \in [0 .. N -> Labels(N)] /\ f[0] = Unlabelled(N, <<>>) /\ N \in Nat
      /\ \A n \in 1 .. N : f[n] = NumberedAs(f[n - 1], list[o[n]], o[n], -1 - f[n - 1].extra)
  BY DEF Serving
<1>2. f[0].out = [i \in 1 .. N |-> <<0, 0>>]
  BY <1>1 DEF Unlabelled
<1> HIDE DEF N, o
<1>3. ASSUME NEW n \in 1 .. N PROVE \E key \in Int : f[n] = NumberedAs(f[n - 1], list[o[n]], o[n], key)
  <2>1. n - 1 \in 0 .. N
    BY <1>1
  <2>2. f[n - 1] \in Labels(N)
    BY <1>1, <2>1
  <2>3. -1 - f[n - 1].extra \in Int
    BY <2>2 DEF Labels
  <2> QED
    BY <1>1, <2>3
<1>4. NumbersGiven(f, N, list, o)
  BY <1>1, <1>2, <1>3 DEF NumbersGiven
<1> QED
  BY <1>4 DEF N, o

LEMMA ServiceNumbersName ==
    ASSUME NEW list \in Seq(LayoutBlock)
    PROVE  NoTwins(Server!ServiceLabels(list))
<1>1. PICK f : Serving(f, list) /\ Server!ServiceLabels(list) = f[Len(list)].out
  BY ServiceLabelsAre
<1>2. NumbersGiven(f, Len(list), list, Server!ServiceOrder(list))
  BY <1>1, ServingNumbers
<1>3. Permutes(Server!ServiceOrder(list), Len(list))
  BY ServiceOrderIs
<1> QED
  BY <1>1, <1>2, <1>3, NumberingHasNoTwins

Shown(s) == [rows |-> s.keys, extraRows |-> s.extra, out |-> s.out]

LEMMA LabelledIs ==
    ASSUME NEW list \in Seq(LayoutBlock), NEW s \in Labels(Len(list)), NEW i \in 1 .. Len(list)
    PROVE  Page!labelled(Shown(s), i, list) = Shown(NumberedAs(s, list[i], i, -1 - s.extra))
<1> DEFINE b == list[i]
           keys == s.keys
           mine == {k \in DOMAIN keys : b.placed /\ Page!SameRow(keys[k], b.y)}
           r == Server!Row(keys, b)
           key == IF b.placed THEN b.y ELSE -1 - s.extra
           same == {j \in DOMAIN s.out : s.out[j][1] = r}
           rows == IF r = Len(keys) + 1 /\ key \notin Range(keys) THEN Append(keys, key) ELSE keys
           extra == IF b.placed THEN s.extra ELSE s.extra + 1
           out == [s.out EXCEPT ![i] = <<r, Cardinality(same) + 1>>]
<1>1. b \in LayoutBlock
  OBVIOUS
<1>2. keys \in Seq(Int) /\ s.extra \in Nat /\ \A k \in DOMAIN keys : keys[k] \in Int
  BY DEF Labels
<1> HIDE DEF b, keys
<1>3. b.placed \in BOOLEAN /\ b.y \in Int
  BY <1>1 DEF LayoutBlock
<1>4. mine = Closest(keys, b)
  BY <1>2, <1>3, SameNearness DEF Closest
<1>5. /\ r = Page!Min(mine \cup {Len(keys) + 1})
      /\ mine = {} <=> r = Len(keys) + 1
  <2> HIDE DEF mine
  <2> QED
    BY <1>1, <1>2, <1>4, RowIs
<1>6. Page!Contains(keys, key) <=> key \in Range(keys)
  <2>1. DOMAIN keys = 1 .. Len(keys)
    BY <1>2
  <2> HIDE DEF key
  <2> QED
    BY <2>1 DEF Page!Contains, Range
<1>7. 1 + Page!Cardinality(same) = Cardinality(same) + 1
  <2>1. Page!Cardinality(same) = Cardinality(same)
    BY SameCardinality
  <2>2. Cardinality(same) \in Nat
    <3>1. IsFiniteSet(1 .. Len(list)) /\ same \in SUBSET (1 .. Len(list))
      <4>1. Len(list) \in Int /\ 1 \in Int
        OBVIOUS
      <4>2. IsFiniteSet(1 .. Len(list))
        BY <4>1, FS_Interval
      <4>3. s.out \in [1 .. Len(list) -> Nat \X Nat]
        BY DEF Labels
      <4> HIDE DEF r
      <4> QED
        BY <4>2, <4>3
    <3> HIDE DEF same
    <3>2. IsFiniteSet(same)
      BY <3>1, FS_Subset
    <3> QED
      BY <3>2, FS_CardinalityType
  <2> HIDE DEF same
  <2> QED
    BY <2>1, <2>2
<1>8. s.extra + (IF b.placed THEN 0 ELSE 1) = extra
  BY <1>2, <1>3
<1> DEFINE row1 == Page!Min(mine \cup {Len(keys) + 1})
           same1 == {j \in DOMAIN s.out : s.out[j][1] = row1}
           rows1 == IF mine = {} /\ ~Page!Contains(keys, key) THEN Append(keys, key) ELSE keys
           extra1 == s.extra + (IF b.placed THEN 0 ELSE 1)
           out1 == [s.out EXCEPT ![i] = <<row1, 1 + Page!Cardinality(same1)>>]
<1>9. Page!labelled(Shown(s), i, list) = [rows |-> rows1, extraRows |-> extra1, out |-> out1]
  <2>1. Shown(s).rows = keys /\ Shown(s).extraRows = s.extra /\ Shown(s).out = s.out
    BY DEF Shown, keys
  <2> HIDE DEF keys
  <2> QED
    BY <2>1 DEF Page!labelled, b
<1>10. row1 = r
  BY <1>5
<1>11. out1 = out
  <2>1. same1 = same
    BY <1>10
  <2> HIDE DEF row1, r, same, same1
  <2> QED
    BY <1>7, <1>10, <2>1
<1>12. rows1 = rows
  <2> HIDE DEF mine, r, key
  <2> QED
    BY <1>5, <1>6
<1>13. NumberedAs(s, b, i, -1 - s.extra) = [keys |-> rows, extra |-> extra, out |-> out]
  BY DEF NumberedAs, keys
<1> HIDE DEF rows, rows1, extra, extra1, out, out1
<1>14. Page!labelled(Shown(s), i, list) = Shown(NumberedAs(s, b, i, -1 - s.extra))
  BY <1>8, <1>9, <1>11, <1>12, <1>13 DEF Shown, extra1
<1> QED
  BY <1>14 DEF b

LEMMA LabelsAgree ==
    ASSUME NEW list \in Seq(LayoutBlock)
    PROVE  Page!assignBlockLabels(list) = Server!ServiceLabels(list)
<1> DEFINE N == Len(list)
           o == Server!ServiceOrder(list)
           base == [rows |-> <<>>, extraRows |-> 0, out |-> [i \in 1 .. N |-> <<0, 0>>]]
           e == CHOOSE g : g = [n \in 0 .. N |-> IF n = 0 THEN base ELSE Page!labelled(g[n - 1], o[n], list)]
<1>1. Page!assignBlockLabels(list) = e[N].out
  <2>1. DOMAIN list = 1 .. N
    OBVIOUS
  <2>2. Page!order(list) = o
    BY OrdersAgree
  <2>3. Page!assignBlockLabels(list) =
          (CHOOSE g : g = [n \in 0 .. Len(list) |->
              IF n = 0 THEN [rows |-> <<>>, extraRows |-> 0, out |-> [i \in DOMAIN list |-> <<0, 0>>]]
              ELSE Page!labelled(g[n - 1], Page!order(list)[n], list)])[Len(list)].out
    BY DEF Page!assignBlockLabels
  <2> HIDE DEF o
  <2> QED
    BY <2>1, <2>2, <2>3, Zenon
<1>2. PICK f : Serving(f, list) /\ Server!ServiceLabels(list) = f[N].out
  BY ServiceLabelsAre
<1>3. /\ f \in [0 .. N -> Labels(N)] /\ f[0] = Unlabelled(N, <<>>)
      /\ \A n \in 1 .. N : f[n] = NumberedAs(f[n - 1], list[o[n]], o[n], -1 - f[n - 1].extra)
  BY <1>2 DEF Serving
<1>4. N \in Nat /\ \A n \in 1 .. N : o[n] \in 1 .. N
  BY ServiceOrderIs DEF Permutes
<1>5. Shown(f[0]) = base
  <2> DEFINE zero == [i \in 1 .. N |-> <<0, 0>>]
  <2>1. f[0] = [keys |-> <<>>, extra |-> 0, out |-> zero]
    BY <1>3 DEF Unlabelled
  <2> HIDE DEF zero
  <2>2. Shown(f[0]) = [rows |-> <<>>, extraRows |-> 0, out |-> zero]
    BY <2>1 DEF Shown
  <2> QED
    BY <2>2 DEF zero
<1>6. ASSUME NEW n \in 1 .. N PROVE n # 0 /\ Shown(f[n]) = Page!labelled(Shown(f[n - 1]), o[n], list)
  <2>1. n # 0 /\ n - 1 \in 0 .. N /\ o[n] \in 1 .. N
    BY <1>4
  <2>2. f[n - 1] \in Labels(N) /\ f[n] = NumberedAs(f[n - 1], list[o[n]], o[n], -1 - f[n - 1].extra)
    BY <1>3, <2>1
  <2> HIDE DEF o
  <2>3. Page!labelled(Shown(f[n - 1]), o[n], list) = Shown(NumberedAs(f[n - 1], list[o[n]], o[n], -1 - f[n - 1].extra))
    BY <2>1, <2>2, LabelledIs
  <2> QED
    BY <2>1, <2>2, <2>3
<1> DEFINE h == [n \in 0 .. N |-> Shown(f[n])]
<1>7. h = [n \in 0 .. N |-> IF n = 0 THEN base ELSE Page!labelled(h[n - 1], o[n], list)]
  <2> HIDE DEF base, N, o
  <2>1. \A n \in 0 .. N : n = 0 \/ (n \in 1 .. N /\ n - 1 \in 0 .. N)
    BY <1>4
  <2>2. ASSUME NEW n \in 0 .. N PROVE h[n] = IF n = 0 THEN base ELSE Page!labelled(h[n - 1], o[n], list)
    <3>1. CASE n = 0
      BY <1>5, <3>1
    <3>2. CASE n # 0
      <4>1. n \in 1 .. N /\ n - 1 \in 0 .. N
        BY <2>1, <3>2
      <4>2. h[n] = Shown(f[n]) /\ h[n - 1] = Shown(f[n - 1])
        BY <4>1
      <4> HIDE DEF h
      <4> QED
        BY <1>6, <3>2, <4>1, <4>2
    <3> QED
      BY <3>1, <3>2
  <2> QED
    BY <2>2
<1> HIDE DEF base, N, o
<1>8. e = [n \in 0 .. N |-> IF n = 0 THEN base ELSE Page!labelled(e[n - 1], o[n], list)]
  <2> HIDE DEF h
  <2> QED
    BY <1>7, Zenon
<1> HIDE DEF e
<1>9. \A n \in 0 .. N : e[n] = IF n = 0 THEN base ELSE Page!labelled(e[n - 1], o[n], list)
  BY <1>8, Zenon
<1> DEFINE G == {n \in 0 .. N : e[n] = Shown(f[n])}
<1>10. 0 \in G
  BY <1>4, <1>5, <1>9
<1>11. ASSUME NEW n \in 1 .. N, n - 1 \in G PROVE n \in G
  <2>1. n \in 0 .. N /\ n # 0 /\ e[n - 1] = Shown(f[n - 1])
    BY <1>4, <1>11
  <2>2. e[n] = Page!labelled(Shown(f[n - 1]), o[n], list)
    BY <1>9, <2>1
  <2> QED
    BY <1>6, <2>1, <2>2
<1>12. N \in G
  <2> HIDE DEF G
  <2>1. \A n \in 1 .. N : n - 1 \in G => n \in G
    BY <1>11
  <2>2. \A n \in 0 .. N : n \in G
    BY <1>4, <1>10, <2>1, Inductive
  <2> QED
    BY <1>4, <2>2
<1>13. e[N].out = f[N].out
  BY <1>12 DEF Shown
<1> QED
  BY <1>1, <1>2, <1>13

\* The rows as the blocks come, and the blocks that the tools number in them.
Keyed(k, list, o) ==
    /\ k \in [0 .. Len(list) -> Seq(Int)] /\ k[0] = <<>>
    /\ \A n \in 1 .. Len(list) :
          k[n] = IF list[o[n]].placed /\ Server!Row(k[n - 1], list[o[n]]) = Len(k[n - 1]) + 1
                 THEN Append(k[n - 1], list[o[n]].y) ELSE k[n - 1]
Tooling(f, list) ==
    LET o == Server!ToolOrder(list)
    IN /\ f \in [0 .. Len(list) -> Labels(Len(list))] /\ f[0] = Unlabelled(Len(list), Server!RowKeys(list, o))
       /\ \A n \in 1 .. Len(list) :
             f[n] = IF list[o[n]].id THEN NumberedAs(f[n - 1], list[o[n]], o[n], Len(f[n - 1].keys)) ELSE f[n - 1]

LEMMA RowKeysAre ==
    ASSUME NEW list \in Seq(LayoutBlock), NEW o, Permutes(o, Len(list))
    PROVE  /\ Server!RowKeys(list, o) \in Seq(Int)
           /\ \E k : Keyed(k, list, o) /\ Server!RowKeys(list, o) = k[Len(list)]
<1> DEFINE N == Len(list)
           S == Seq(Int)
           one(s, n) == IF list[o[n]].placed /\ Server!Row(s, list[o[n]]) > Len(s)
                        THEN Append(s, list[o[n]].y) ELSE s
           step == [n \in 1 .. N |-> [s \in S |-> one(s, n)]]
           f == CHOOSE e : e = [n \in 0 .. N |-> IF n = 0 THEN <<>> ELSE one(e[n - 1], n)]
<1>1. N \in Nat /\ <<>> \in S
  OBVIOUS
<1>2. Server!RowKeys(list, o) = f[N]
  BY Zenon DEF Server!RowKeys
<1>3. ASSUME NEW n \in 1 .. N PROVE list[o[n]] \in LayoutBlock
  <2>1. o[n] \in 1 .. N
    BY DEF Permutes
  <2> QED
    BY <2>1
<1> HIDE DEF N
<1>4. ASSUME NEW n \in 1 .. N, NEW s \in S
      PROVE  /\ one(s, n) \in S
             /\ one(s, n) = IF list[o[n]].placed /\ Server!Row(s, list[o[n]]) = Len(s) + 1
                            THEN Append(s, list[o[n]].y) ELSE s
  <2> DEFINE b == list[o[n]]
  <2>1. b \in LayoutBlock
    BY <1>3
  <2> HIDE DEF b
  <2>2. Server!Row(s, b) \in 1 .. Len(s) + 1
    BY <2>1, RowIs
  <2>3. b.y \in Int
    BY <2>1 DEF LayoutBlock
  <2>4. Len(s) \in Nat /\ (Server!Row(s, b) > Len(s) <=> Server!Row(s, b) = Len(s) + 1) /\ Append(s, b.y) \in S
    BY <2>2, <2>3
  <2> HIDE DEF S
  <2> QED
    BY <2>4 DEF b
<1> HIDE DEF one, S
<1>5. step \in [1 .. N -> [S -> S]]
  BY <1>4
<1>6. PICK h : Recurses(h, N, S, <<>>, step)
  <2> HIDE DEF step
  <2> QED
    BY <1>1, <1>5, Recursion
<1>7. h \in [0 .. N -> S] /\ h[0] = <<>> /\ \A n \in 1 .. N : h[n] = step[n][h[n - 1]]
  BY <1>6, Zenon DEF Recurses
<1>8. ASSUME NEW n \in 1 .. N PROVE n # 0 /\ h[n] = one(h[n - 1], n)
  <2>1. n - 1 \in 0 .. N /\ n # 0
    BY <1>1
  <2>2. h[n - 1] \in S
    BY <1>7, <2>1
  <2> QED
    BY <1>7, <2>1, <2>2
<1>9. h = [n \in 0 .. N |-> IF n = 0 THEN <<>> ELSE one(h[n - 1], n)]
  <2>1. \A n \in 0 .. N : n = 0 \/ n \in 1 .. N
    BY <1>1
  <2> QED
    BY <1>7, <1>8, <2>1
<1>10. f = [n \in 0 .. N |-> IF n = 0 THEN <<>> ELSE one(f[n - 1], n)]
  BY <1>9, Zenon
<1> HIDE DEF f
<1>11. \A n \in 0 .. N : f[n] = IF n = 0 THEN <<>> ELSE one(f[n - 1], n)
  BY <1>10, Zenon
<1> DEFINE G == {n \in 0 .. N : f[n] \in S}
<1>12. 0 \in G
  BY <1>1, <1>11
<1>13. ASSUME NEW n \in 1 .. N, n - 1 \in G PROVE n \in G
  <2>1. n \in 0 .. N /\ n # 0 /\ f[n - 1] \in S
    BY <1>1, <1>13
  <2> QED
    BY <1>4, <1>11, <2>1
<1>14. \A n \in 0 .. N : f[n] \in S
  <2> HIDE DEF G
  <2>1. \A n \in 1 .. N : n - 1 \in G => n \in G
    BY <1>13
  <2>2. \A n \in 0 .. N : n \in G
    BY <1>1, <1>12, <2>1, Inductive
  <2> QED
    BY <2>2 DEF G
<1>15. f \in [0 .. N -> S] /\ f[0] = <<>> /\ N \in 0 .. N
  BY <1>1, <1>10, <1>11, <1>14
<1>16. ASSUME NEW n \in 1 .. N
       PROVE  f[n] = IF list[o[n]].placed /\ Server!Row(f[n - 1], list[o[n]]) = Len(f[n - 1]) + 1
                     THEN Append(f[n - 1], list[o[n]].y) ELSE f[n - 1]
  <2>1. n \in 0 .. N /\ n # 0 /\ n - 1 \in 0 .. N
    BY <1>1
  <2>2. f[n] = one(f[n - 1], n) /\ f[n - 1] \in S
    BY <1>11, <1>14, <2>1
  <2> QED
    BY <1>4, <2>2
<1>17. Keyed(f, list, o)
  BY <1>15, <1>16 DEF Keyed, N, S
<1> QED
  BY <1>2, <1>14, <1>15, <1>17 DEF N, S

LEMMA ToolLabelsAre ==
    ASSUME NEW list \in Seq(LayoutBlock)
    PROVE  \E f : Tooling(f, list) /\ Server!ToolLabels(list) = f[Len(list)].out
<1> DEFINE N == Len(list)
           L == Labels(N)
           o == Server!ToolOrder(list)
           K == Server!RowKeys(list, o)
           base == Unlabelled(N, K)
           one(s, n) == IF list[o[n]].id THEN Server!Numbered(s, list, o[n], Len(s.keys)) ELSE s
           step == [n \in 1 .. N |-> [s \in L |-> one(s, n)]]
           f == CHOOSE e : e = [n \in 0 .. N |-> IF n = 0 THEN base ELSE one(e[n - 1], n)]
<1>1. N \in Nat /\ K \in Seq(Int) /\ \A n \in 1 .. N : o[n] \in 1 .. N
  BY ToolOrderIs, RowKeysAre DEF Permutes
<1>2. base \in L /\ Server!NoNumbers(list, K) = base
  <2> HIDE DEF K
  <2> QED
    BY <1>1, UnlabelledIs
<1>3. Server!ToolLabels(list) = f[N].out
  <2>1. Server!ToolLabels(list) =
          (CHOOSE e : e = [n \in 0 .. Len(list) |->
              IF n = 0 THEN Server!NoNumbers(list, K)
              ELSE IF list[o[n]].id THEN Server!Numbered(e[n - 1], list, o[n], Len(e[n - 1].keys))
                   ELSE e[n - 1]])[Len(list)].out
    BY Zenon DEF Server!ToolLabels
  <2> HIDE DEF base, K, o
  <2> QED
    BY <1>2, <2>1, Zenon
<1>5. ASSUME NEW n \in 1 .. N, NEW s \in L
      PROVE  /\ one(s, n) = IF list[o[n]].id THEN NumberedAs(s, list[o[n]], o[n], Len(s.keys)) ELSE s
             /\ one(s, n) \in L
  <2>1. Len(s.keys) \in Int /\ o[n] \in 1 .. N
    BY <1>1 DEF Labels
  <2> HIDE DEF o
  <2>2. /\ Server!Numbered(s, list, o[n], Len(s.keys)) = NumberedAs(s, list[o[n]], o[n], Len(s.keys))
        /\ Server!Numbered(s, list, o[n], Len(s.keys)) \in L
    BY <2>1, NumberedIs
  <2> HIDE DEF L
  <2> QED
    BY <2>2
<1> HIDE DEF N, L, o, base, one, K
<1>6. step \in [1 .. N -> [L -> L]]
  BY <1>5
<1>7. PICK h : Recurses(h, N, L, base, step)
  <2> HIDE DEF step
  <2> QED
    BY <1>1, <1>2, <1>6, Recursion
<1>8. h \in [0 .. N -> L] /\ h[0] = base /\ \A n \in 1 .. N : h[n] = step[n][h[n - 1]]
  BY <1>7, Zenon DEF Recurses
<1>9. ASSUME NEW n \in 1 .. N PROVE n # 0 /\ h[n] = one(h[n - 1], n)
  <2>1. n - 1 \in 0 .. N /\ n # 0
    BY <1>1
  <2>2. h[n - 1] \in L
    BY <1>8, <2>1
  <2> QED
    BY <1>8, <2>1, <2>2
<1>10. h = [n \in 0 .. N |-> IF n = 0 THEN base ELSE one(h[n - 1], n)]
  <2>1. \A n \in 0 .. N : n = 0 \/ n \in 1 .. N
    BY <1>1
  <2> QED
    BY <1>8, <1>9, <2>1
<1>11. f = [n \in 0 .. N |-> IF n = 0 THEN base ELSE one(f[n - 1], n)]
  BY <1>10, Zenon
<1> HIDE DEF f
<1>12. \A n \in 0 .. N : f[n] = IF n = 0 THEN base ELSE one(f[n - 1], n)
  BY <1>11, Zenon
<1> DEFINE G == {n \in 0 .. N : f[n] \in L}
<1>13. 0 \in G
  BY <1>1, <1>2, <1>12
<1>14. ASSUME NEW n \in 1 .. N, n - 1 \in G PROVE n \in G
  <2>1. n \in 0 .. N /\ n # 0 /\ f[n - 1] \in L
    BY <1>1, <1>14
  <2> QED
    BY <1>5, <1>12, <2>1
<1>15. \A n \in 0 .. N : f[n] \in L
  <2> HIDE DEF G
  <2>1. \A n \in 1 .. N : n - 1 \in G => n \in G
    BY <1>14
  <2>2. \A n \in 0 .. N : n \in G
    BY <1>1, <1>13, <2>1, Inductive
  <2> QED
    BY <2>2 DEF G
<1>16. f \in [0 .. N -> L] /\ f[0] = base
  BY <1>1, <1>11, <1>12, <1>15
<1>17. ASSUME NEW n \in 1 .. N
       PROVE  f[n] = IF list[o[n]].id THEN NumberedAs(f[n - 1], list[o[n]], o[n], Len(f[n - 1].keys)) ELSE f[n - 1]
  <2>1. n \in 0 .. N /\ n # 0 /\ n - 1 \in 0 .. N
    BY <1>1
  <2>2. f[n] = one(f[n - 1], n) /\ f[n - 1] \in L
    BY <1>12, <1>15, <2>1
  <2> QED
    BY <1>5, <2>2
<1>18. Tooling(f, list)
  BY <1>16, <1>17 DEF Tooling, N, L, o, base, K
<1> QED
  BY <1>3, <1>18 DEF N

LEMMA ToolNumbersName ==
    ASSUME NEW list \in Seq(LayoutBlock)
    PROVE  NoTwins(Server!ToolLabels(list))
<1> DEFINE N == Len(list)
           o == Server!ToolOrder(list)
<1>1. PICK f : Tooling(f, list) /\ Server!ToolLabels(list) = f[N].out
  BY ToolLabelsAre
<1>2. /\ f \in [0 .. N -> Labels(N)] /\ f[0] = Unlabelled(N, Server!RowKeys(list, o)) /\ N \in Nat
      /\ \A n \in 1 .. N :
             f[n] = IF list[o[n]].id THEN NumberedAs(f[n - 1], list[o[n]], o[n], Len(f[n - 1].keys)) ELSE f[n - 1]
  BY <1>1 DEF Tooling
<1>3. f[0].out = [i \in 1 .. N |-> <<0, 0>>]
  BY <1>2 DEF Unlabelled
<1>4. Permutes(o, N)
  BY ToolOrderIs
<1> HIDE DEF N, o
<1>5. ASSUME NEW n \in 1 .. N
      PROVE  f[n] = f[n - 1] \/ \E key \in Int : f[n] = NumberedAs(f[n - 1], list[o[n]], o[n], key)
  <2>1. n - 1 \in 0 .. N
    BY <1>2
  <2>2. f[n - 1] \in Labels(N)
    BY <1>2, <2>1
  <2>3. Len(f[n - 1].keys) \in Int
    BY <2>2 DEF Labels
  <2> QED
    BY <1>2, <2>3
<1>6. NumbersGiven(f, N, list, o)
  BY <1>2, <1>3, <1>5 DEF NumbersGiven
<1>7. NoTwins(f[N].out)
  BY <1>4, <1>6, NumberingHasNoTwins DEF N
<1> QED
  BY <1>1, <1>7 DEF N

Begins(s, t) == Len(s) <= Len(t) /\ \A j \in 1 .. Len(s) : t[j] = s[j]
Rowed(s, b) == IF Server!Row(s, b) = Len(s) + 1 THEN Append(s, b.y) ELSE s

\* A row that was found or made is found again when more rows have come.
LEMMA RowStays ==
    ASSUME NEW s \in Seq(Int), NEW t \in Seq(Int), NEW b \in LayoutBlock, b.placed,
           Begins(s, t), Begins(Rowed(s, b), t)
    PROVE  Server!Row(t, b) = Server!Row(s, b) /\ Server!Row(t, b) <= Len(t)
<1> DEFINE r == Server!Row(s, b)
           q == Server!Row(t, b)
           near == Closest(s, b)
           all == Closest(t, b)
<1>1. r \in 1 .. Len(s) + 1 /\ (near = {} <=> r = Len(s) + 1)
      /\ (near # {} => r \in near /\ \A k \in near : r <= k)
  BY RowIs
<1>2. q \in 1 .. Len(t) + 1 /\ (all = {} <=> q = Len(t) + 1)
      /\ (all # {} => q \in all /\ \A k \in all : q <= k)
  BY RowIs
<1>3. Rowed(s, b) = IF r = Len(s) + 1 THEN Append(s, b.y) ELSE s
  BY DEF Rowed
<1>4. /\ near = {k \in 1 .. Len(s) : Server!Near(s[k], b.y)}
      /\ all = {k \in 1 .. Len(t) : Server!Near(t[k], b.y)}
      /\ b.y \in Int /\ Len(s) \in Nat /\ Len(t) \in Nat /\ Server!Near(b.y, b.y)
  BY DEF Closest, LayoutBlock, Server!Near
<1> HIDE DEF r, q, near, all
<1>5. Len(s) <= Len(t) /\ \A j \in 1 .. Len(s) : t[j] = s[j]
  BY DEF Begins
<1>6. r \in all
  <2>1. CASE near # {}
    <3>1. r \in 1 .. Len(s) /\ Server!Near(s[r], b.y)
      BY <1>1, <1>4, <2>1
    <3>2. r \in 1 .. Len(t) /\ t[r] = s[r]
      BY <1>4, <1>5, <3>1
    <3> QED
      BY <1>4, <3>1, <3>2
  <2>2. CASE near = {}
    <3>1. r = Len(s) + 1 /\ Rowed(s, b) = Append(s, b.y)
      BY <1>1, <1>3, <2>2
    <3>2. Len(Append(s, b.y)) = Len(s) + 1 /\ Append(s, b.y)[Len(s) + 1] = b.y
      BY <1>4
    <3>3. Len(Rowed(s, b)) = r /\ Rowed(s, b)[r] = b.y
      BY <3>1, <3>2
    <3>4. r \in 1 .. Len(t) /\ t[r] = b.y
      BY <1>1, <1>4, <3>3 DEF Begins
    <3> QED
      BY <1>4, <3>4
  <2> QED
    BY <2>1, <2>2
<1>7. ASSUME NEW k \in all PROVE r <= k
  <2>1. k \in 1 .. Len(t) /\ Server!Near(t[k], b.y)
    BY <1>4
  <2>2. CASE k <= Len(s)
    <3>1. k \in 1 .. Len(s) /\ t[k] = s[k]
      BY <1>4, <1>5, <2>1, <2>2
    <3>2. k \in near
      BY <1>4, <2>1, <3>1
    <3> QED
      BY <1>1, <3>2
  <2>3. CASE k > Len(s)
    BY <1>1, <1>4, <2>1, <2>3
  <2> QED
    BY <1>4, <2>1, <2>2, <2>3
<1>8. q \in all /\ q <= r
  BY <1>2, <1>6
<1>9. r <= q /\ q \in 1 .. Len(t)
  BY <1>4, <1>7, <1>8
<1>10. q = r
  BY <1>1, <1>8, <1>9
<1> QED
  BY <1>9, <1>10 DEF r, q

LEMMA KeyedBegins ==
    ASSUME NEW list \in Seq(LayoutBlock), NEW o, Permutes(o, Len(list)), NEW k, Keyed(k, list, o)
    PROVE  \A m \in 0 .. Len(list) : Begins(k[m], k[Len(list)])
<1> DEFINE N == Len(list)
<1>1. k \in [0 .. N -> Seq(Int)] /\ N \in Nat
  BY DEF Keyed
<1>2. ASSUME NEW n \in 1 .. N PROVE k[n - 1] \in Seq(Int) /\ k[n] \in Seq(Int) /\ Begins(k[n - 1], k[n])
  <2>1. n - 1 \in 0 .. N /\ n \in 0 .. N /\ o[n] \in 1 .. N
    BY <1>1 DEF Permutes
  <2>2. k[n - 1] \in Seq(Int) /\ k[n] \in Seq(Int) /\ list[o[n]] \in LayoutBlock
    <3>1. list[o[n]] \in LayoutBlock
      BY <2>1
    <3> HIDE DEF N
    <3>2. k[n - 1] \in Seq(Int)
      BY <1>1, <2>1
    <3>3. k[n] \in Seq(Int)
      BY <1>1, <2>1
    <3> QED
      BY <3>1, <3>2, <3>3
  <2>3. list[o[n]].y \in Int
    BY <2>2 DEF LayoutBlock
  <2>4. k[n] = k[n - 1] \/ k[n] = Append(k[n - 1], list[o[n]].y)
    BY DEF Keyed
  <2> QED
    BY <2>2, <2>3, <2>4 DEF Begins
<1>3. ASSUME NEW m \in 0 .. N PROVE Begins(k[m], k[N])
  <2> DEFINE G == {n \in 0 .. N : n >= m => Begins(k[m], k[n])}
  <2>0. k[m] \in Seq(Int)
    BY <1>1
  <2>1. 0 \in G
    <3>1. m = 0 \/ ~(0 >= m)
      BY <1>1
    <3>2. Begins(k[m], k[m])
      BY <2>0 DEF Begins
    <3> QED
      BY <1>1, <3>1, <3>2
  <2>2. ASSUME NEW n \in 1 .. N, n - 1 \in G PROVE n \in G
    <3>1. n \in 0 .. N /\ (n >= m => n = m \/ n - 1 >= m)
      BY <1>1
    <3>2. Begins(k[m], k[m])
      BY <2>0 DEF Begins
    <3>3. ASSUME n - 1 >= m PROVE Begins(k[m], k[n])
      <4>1. Begins(k[m], k[n - 1]) /\ Begins(k[n - 1], k[n])
        BY <1>2, <2>2, <3>3
      <4>2. Len(k[m]) \in Nat /\ Len(k[n - 1]) \in Nat /\ Len(k[n]) \in Nat
        BY <1>2, <2>0
      <4> QED
        BY <4>1, <4>2 DEF Begins
    <3> QED
      BY <3>1, <3>2, <3>3
  <2> HIDE DEF G
  <2>3. \A n \in 1 .. N : n - 1 \in G => n \in G
    BY <2>2
  <2>4. \A n \in 0 .. N : n \in G
    BY <1>1, <2>1, <2>3, Inductive
  <2>5. N \in G /\ N >= m
    BY <1>1, <2>4
  <2> QED
    BY <2>5 DEF G
<1> QED
  BY <1>3 DEF N

\* Where every block has a place and an id and rows are exact, the tools make
\* the rows of the service before they number the blocks.
LEMMA ToolsAgree ==
    ASSUME NEW list \in Seq(LayoutBlock),
           \A b \in Range(list) : b.id /\ b.placed,
           \A b, c \in Range(list) : b.placed /\ c.placed /\ Server!Near(b.y, c.y) => b.y = c.y
    PROVE  Server!ToolLabels(list) = Server!ServiceLabels(list)
<1> DEFINE N == Len(list)
           o == Server!ServiceOrder(list)
           K == Server!RowKeys(list, o)
<1>1. o = Server!ToolOrder(list) /\ Permutes(o, N) /\ N \in Nat
  BY ToolOrdersAlike, ServiceOrderIs
<1>2. PICK f : Serving(f, list) /\ Server!ServiceLabels(list) = f[N].out
  BY ServiceLabelsAre
<1>3. PICK t : Tooling(t, list) /\ Server!ToolLabels(list) = t[N].out
  BY ToolLabelsAre
<1>4. K \in Seq(Int) /\ \E k : Keyed(k, list, o) /\ K = k[N]
  BY <1>1, RowKeysAre
<1>5. PICK k : Keyed(k, list, o) /\ K = k[N]
  BY <1>4
<1>6. /\ f \in [0 .. N -> Labels(N)] /\ f[0] = Unlabelled(N, <<>>)
      /\ \A n \in 1 .. N : f[n] = NumberedAs(f[n - 1], list[o[n]], o[n], -1 - f[n - 1].extra)
  BY <1>2 DEF Serving
<1>7. /\ t \in [0 .. N -> Labels(N)] /\ t[0] = Unlabelled(N, K)
      /\ \A n \in 1 .. N :
            t[n] = IF list[o[n]].id THEN NumberedAs(t[n - 1], list[o[n]], o[n], Len(t[n - 1].keys)) ELSE t[n - 1]
  BY <1>1, <1>3 DEF Tooling
<1>8. ASSUME NEW n \in 1 .. N
      PROVE  list[o[n]] \in LayoutBlock /\ list[o[n]].id /\ list[o[n]].placed /\ n - 1 \in 0 .. N
             /\ list[o[n]].y \in Int
  <2>1. o[n] \in 1 .. N
    BY <1>1 DEF Permutes
  <2>2. list[o[n]] \in Range(list) /\ list[o[n]] \in LayoutBlock
    BY <2>1 DEF Range
  <2>3. list[o[n]].id /\ list[o[n]].placed
    BY <2>2, Zenon
  <2>4. list[o[n]].y \in Int
    BY <2>2 DEF LayoutBlock
  <2>5. n - 1 \in 0 .. N
    BY <1>1
  <2> QED
    BY <2>2, <2>3, <2>4, <2>5
<1>9. \A m \in 0 .. N : Begins(k[m], K)
  BY <1>1, <1>5, KeyedBegins DEF N
<1>10. k \in [0 .. N -> Seq(Int)] /\ k[0] = <<>>
       /\ \A n \in 1 .. N : k[n] = Rowed(k[n - 1], list[o[n]])
  BY <1>5, <1>8 DEF Keyed, Rowed
<1> HIDE DEF N, o, K
<1> DEFINE G == {n \in 0 .. N : f[n].keys = k[n] /\ t[n].keys = K /\ t[n].out = f[n].out}
<1>11. 0 \in G
  <2>1. f[0].keys = <<>> /\ t[0].keys = K /\ f[0].out = [i \in 1 .. N |-> <<0, 0>>]
        /\ t[0].out = [i \in 1 .. N |-> <<0, 0>>]
    BY <1>6, <1>7 DEF Unlabelled
  <2>2. 0 \in 0 .. N /\ t[0].out = f[0].out
    BY <1>1, <2>1
  <2> QED
    BY <1>10, <2>1, <2>2
<1>12. ASSUME NEW n \in 1 .. N, n - 1 \in G PROVE n \in G
  <2> DEFINE b == list[o[n]]
             s == k[n - 1]
             r == Server!Row(s, b)
  <2>1. b \in LayoutBlock /\ b.id /\ b.placed /\ n - 1 \in 0 .. N /\ n \in 0 .. N /\ b.y \in Int
    BY <1>1, <1>8
  <2>2. s \in Seq(Int) /\ k[n] = Rowed(s, b) /\ Begins(s, K) /\ Begins(Rowed(s, b), K)
    <3>1. s \in Seq(Int) /\ k[n] = Rowed(s, b) /\ Begins(k[n - 1], K) /\ Begins(k[n], K)
      BY <1>9, <1>10, <2>1
    <3> QED
      BY <3>1
  <2>3. f[n - 1].keys = s /\ t[n - 1].keys = K /\ t[n - 1].out = f[n - 1].out
    BY <1>12
  <2>4. f[n] = NumberedAs(f[n - 1], b, o[n], -1 - f[n - 1].extra) /\ t[n] = NumberedAs(t[n - 1], b, o[n], Len(K))
    BY <1>6, <1>7, <2>1, <2>3
  <2> HIDE DEF b, s, G
  <2>5. Server!Row(K, b) = r /\ r <= Len(K) /\ Len(K) \in Nat
    BY <1>4, <2>1, <2>2, RowStays
  <2>6. r \in 1 .. Len(s) + 1
    BY <2>1, <2>2, RowIs
  <2>7. r = Len(s) + 1 => b.y \notin Range(s)
    <3> SUFFICES ASSUME r = Len(s) + 1, b.y \in Range(s) PROVE FALSE
      OBVIOUS
    <3>1. PICK j \in 1 .. Len(s) : s[j] = b.y
      BY <2>2 DEF Range
    <3>2. j \in Closest(s, b)
      BY <2>1, <2>2, <3>1 DEF Closest, Server!Near
    <3>3. Closest(s, b) = {}
      BY <2>1, <2>2, RowIs
    <3> QED
      BY <3>2, <3>3
  <2>8. f[n].keys = k[n]
    <3>1. f[n].keys = IF r = Len(s) + 1 /\ b.y \notin Range(s) THEN Append(s, b.y) ELSE s
      BY <2>1, <2>3, <2>4 DEF NumberedAs
    <3>2. f[n].keys = IF r = Len(s) + 1 THEN Append(s, b.y) ELSE s
      BY <2>7, <3>1
    <3> QED
      BY <2>2, <3>2 DEF Rowed
  <2>9. t[n].keys = K
    <3>1. t[n].keys = IF r = Len(K) + 1 /\ b.y \notin Range(K) THEN Append(K, b.y) ELSE K
      BY <2>1, <2>3, <2>4, <2>5 DEF NumberedAs
    <3>2. r # Len(K) + 1
      BY <2>2, <2>5, <2>6
    <3> QED
      BY <3>1, <3>2
  <2>10. t[n].out = f[n].out
    <3> DEFINE new(out) == [out EXCEPT ![o[n]] = <<r, Cardinality({j \in DOMAIN out : out[j][1] = r}) + 1>>]
    <3>1. f[n].out = new(f[n - 1].out)
      BY <2>3, <2>4 DEF NumberedAs
    <3>2. t[n].out = new(t[n - 1].out)
      BY <2>3, <2>4, <2>5 DEF NumberedAs
    <3> HIDE DEF new
    <3> QED
      BY <2>3, <3>1, <3>2
  <2> QED
    BY <2>1, <2>8, <2>9, <2>10 DEF G
<1>13. N \in G
  <2> HIDE DEF G
  <2>1. \A n \in 1 .. N : n - 1 \in G => n \in G
    BY <1>12
  <2>2. \A n \in 0 .. N : n \in G
    BY <1>1, <1>11, <2>1, Inductive
  <2> QED
    BY <1>1, <2>2
<1> QED
  BY <1>2, <1>3, <1>13

-----------------------------------------------------------------------------
(***************************************************************************)
(* Lists of blocks that a canvas can have.                                 *)
(***************************************************************************)
LEMMA WellList ==
    ASSUME NEW list \in Seq(WellBlock)
    PROVE  list \in Seq(LayoutBlock) /\ \A b \in Range(list) : b \in WellBlock
<1>1. list \in Seq(LayoutBlock)
  BY DEF WellBlock
<1>2. \A b \in Range(list) : b \in WellBlock
  BY DEF Range
<1> QED
  BY <1>1, <1>2

LEMMA LaidWell ==
    ASSUME NEW g \in Geometries, NEW s \in PlaceStates, NEW b \in WellBlock
    PROVE  Laid(g, s, b) \in WellBlock
<1>1. b \in LayoutBlock /\ (b.h = 0 \/ b.h >= 132)
  BY DEF WellBlock
<1>2. Laid(g, s, b) \in LayoutBlock
  BY <1>1, LaidIsLast
<1>3. KpiRow(s) \in Nat /\ Below(Deepest(s)) \in Nat
  BY BelowDeepest
<1>4. Laid(g, s, b).placed /\ Laid(g, s, b).y >= -4 /\ (Laid(g, s, b).h = 0 \/ Laid(g, s, b).h >= 132)
  <2>1. CASE b.kind = "kpi"
    <3>1. Laid(g, s, b) = Server!At(b, KpiX(g, s), KpiRow(s), g.kpiW, 132)
      BY <2>1 DEF Laid
    <3>2. Laid(g, s, b).placed = TRUE /\ Laid(g, s, b).y = KpiRow(s) /\ Laid(g, s, b).h = 132
      BY <1>1, <3>1 DEF Server!At, LayoutBlock
    <3> QED
      BY <1>3, <3>2
  <2>2. CASE b.kind = "chart"
    <3> DEFINE col == IF g.cols = 1 \/ s.left <= s.right THEN s.left ELSE s.right
               x == IF g.cols = 1 \/ s.left <= s.right THEN 20 ELSE g.rightX
    <3>1. Laid(g, s, b) = Server!At(b, x, Below(col), g.chartW, 320)
      BY <2>2 DEF Laid
    <3>2. col \in Nat
      BY DEF PlaceStates
    <3> HIDE DEF col, x
    <3>3. Below(col) \in Nat
      BY <3>2, BelowIs
    <3>4. Laid(g, s, b).placed = TRUE /\ Laid(g, s, b).y = Below(col) /\ Laid(g, s, b).h = 320
      BY <1>1, <3>1 DEF Server!At, LayoutBlock
    <3> QED
      BY <3>3, <3>4
  <2>3. CASE b.kind \notin {"kpi", "chart"}
    <3>1. Laid(g, s, b) = Server!At(Plain(b), 20, Below(Deepest(s)), FullWidth(g, b), Plain(b).h)
      BY <2>3 DEF Laid
    <3>2. Plain(b) \in LayoutBlock
      BY <1>1, PlainIs
    <3>3. Plain(b).h = 0 \/ Plain(b).h >= 132
      BY <1>1 DEF Plain, LayoutBlock
    <3>4. Laid(g, s, b).placed = TRUE /\ Laid(g, s, b).y = Below(Deepest(s)) /\ Laid(g, s, b).h = Plain(b).h
      BY <3>1, <3>2 DEF Server!At, LayoutBlock
    <3> QED
      BY <1>3, <3>3, <3>4
  <2> QED
    BY <2>1, <2>2, <2>3
<1> QED
  BY <1>2, <1>4 DEF WellBlock

LEMMA ArrangedWell ==
    ASSUME NEW list \in Seq(WellBlock), NEW width \in Nat
    PROVE  Server!Arranged(list, width) \in Seq(WellBlock)
<1> DEFINE f == Server!Placings(list, width)
           g == Server!Geometry(width)
           N == Len(list)
           a == Server!Arranged(list, width)
<1>1. list \in Seq(LayoutBlock) /\ N \in Nat /\ \A n \in 1 .. N : list[n] \in WellBlock
  BY WellList
<1>2. a \in Seq(LayoutBlock) /\ (\A n \in 0 .. N : Len(f[n].out) = n)
      /\ \A n \in 1 .. N : a[n] = Laid(g, f[n - 1], list[n])
  BY <1>1, ArrangementIs
<1>3. f \in [0 .. N -> PlaceStates] /\ g \in Geometries
  BY <1>1, PlacingsAre, GeometryIs
<1>4. a = f[N].out
  BY DEF Server!Arranged
<1> HIDE DEF f, g, N, a
<1>5. Len(a) = N
  BY <1>1, <1>2, <1>4
<1>6. ASSUME NEW n \in 1 .. N PROVE a[n] \in WellBlock
  <2>1. n - 1 \in 0 .. N
    BY <1>1
  <2>2. f[n - 1] \in PlaceStates
    BY <1>3, <2>1
  <2> QED
    BY <1>1, <1>2, <1>3, <2>2, LaidWell
<1>7. a \in Seq(WellBlock)
  BY <1>2, <1>5, <1>6
<1> QED
  BY <1>7 DEF a

\* What grew in the free slots of g: cards of a column and texts across.
InStrip(b, g) == b.placed /\ (b.w = g.fullW \/ (b.w = g.chartW /\ b.x \in {20, g.rightX}))
Strips(list, g) == Apart(list, g) /\ \A k \in 1 .. Len(list) : InStrip(list[k], g)

LEMMA SlotIsClear ==
    ASSUME NEW g \in Geometries, NEW a \in LayoutBlock, InStrip(a, g), NEW c \in LayoutBlock, InStrip(c, g),
           \/ Server!Bottom(a, g) <= c.y
           \/ /\ c.x = 20 /\ c.w = g.chartW
              /\ a.w >= g.fullW - 40 \/ 2 * a.x + a.w < 2 * g.midX => Server!Bottom(a, g) <= c.y
           \/ /\ c.x = g.rightX /\ c.w = g.chartW
              /\ a.w >= g.fullW - 40 \/ ~(2 * a.x + a.w < 2 * g.midX) => Server!Bottom(a, g) <= c.y
    PROVE  ~Overlap(a, c, g)
<1>1. /\ g.fullW \in Nat /\ g.chartW \in Nat /\ g.fullW >= 320 /\ g.chartW >= 320
      /\ g.rightX = g.chartW + 40 /\ g.midX = g.chartW + 30
  BY DEF Geometries
<1>2. a.w \in Nat /\ a.w > 0 /\ c.w \in Nat /\ c.w > 0 /\ a.x \in Int /\ c.x \in Int /\ a.y \in Int /\ c.y \in Int
  BY <1>1 DEF InStrip, LayoutBlock
<1>3. Server!WidthOf(a, g) = a.w /\ Server!WidthOf(c, g) = c.w /\ Server!Bottom(a, g) \in Int
  BY <1>2, BottomIs DEF Server!WidthOf
<1>4. \/ Server!Bottom(a, g) <= c.y
      \/ a.x + a.w <= c.x
      \/ c.x + c.w <= a.x
  BY <1>1, <1>2, <1>3 DEF InStrip
<1> QED
  BY <1>3, <1>4, BesideApart

LEMMA SlotApart ==
    ASSUME NEW list \in Seq(LayoutBlock), NEW width \in Nat, NEW c \in LayoutBlock,
           Strips(list, Server!Geometry(width)), c.placed,
           \/ /\ c.x = Server!ChartSlot(list, width).x /\ c.y = Server!ChartSlot(list, width).y
              /\ c.w = Server!Geometry(width).chartW
           \/ /\ c.x = Server!FullSlot(list, width).x /\ c.y = Server!FullSlot(list, width).y
              /\ c.w = Server!Geometry(width).fullW
    PROVE  Strips(Append(list, c), Server!Geometry(width))
<1> DEFINE g == Server!Geometry(width)
           cur == Server!Cursor(list, width)
           onLeft == cur.left <= cur.right
<1>1. g \in Geometries
  BY GeometryIs
<1>2. /\ cur.left \in Nat /\ cur.right \in Nat
      /\ \A k \in Lefts(list, g) : cur.left >= Server!Bottom(list[k], g)
      /\ \A k \in Rights(list, g) : cur.right >= Server!Bottom(list[k], g)
  BY CursorsAgree
<1>3. \/ c.x = (IF onLeft THEN 20 ELSE g.rightX) /\ c.y = Below(IF onLeft THEN cur.left ELSE cur.right) /\ c.w = g.chartW
      \/ c.x = 20 /\ c.y = Below(IF cur.left >= cur.right THEN cur.left ELSE cur.right) /\ c.w = g.fullW
  BY ChartSlotsAgree, FullSlotsAgree
<1>4. Strips(list, g)
  OBVIOUS
<1> HIDE DEF g, cur
<1>5. InStrip(c, g)
  BY <1>3 DEF InStrip
<1>6. /\ c.y \in Int
      /\ \/ c.y >= cur.left /\ c.y >= cur.right
         \/ c.x = 20 /\ c.w = g.chartW /\ c.y >= cur.left
         \/ c.x = g.rightX /\ c.w = g.chartW /\ c.y >= cur.right
  <2>1. c.y \in Int
    BY DEF LayoutBlock
  <2> QED
    BY <1>2, <1>3, <2>1 DEF Below
<1>7. ASSUME NEW k \in 1 .. Len(list) PROVE ~Overlap(list[k], c, g)
  <2> DEFINE a == list[k]
  <2>1. a \in LayoutBlock /\ InStrip(a, g)
    BY <1>4 DEF Strips
  <2>2. /\ k \in Lefts(list, g) <=> (a.w >= g.fullW - 40 \/ 2 * a.x + a.w < 2 * g.midX)
        /\ k \in Rights(list, g) <=> (a.w >= g.fullW - 40 \/ ~(2 * a.x + a.w < 2 * g.midX))
    <3>1. a.w > 0 /\ a.placed
      BY <1>1, <2>1 DEF InStrip, Geometries
    <3>2. Server!WidthOf(a, g) = a.w
      BY <3>1 DEF Server!WidthOf
    <3> QED
      BY <3>1, <3>2 DEF Lefts, Rights
  <2>3. Server!Bottom(a, g) \in Int
    BY <1>1, <2>1, BottomIs
  <2>4. /\ k \in Lefts(list, g) => cur.left >= Server!Bottom(a, g)
        /\ k \in Rights(list, g) => cur.right >= Server!Bottom(a, g)
        /\ k \in Lefts(list, g) \/ k \in Rights(list, g)
    BY <1>2, <2>2
  <2> HIDE DEF a
  <2>5. \/ Server!Bottom(a, g) <= c.y
        \/ /\ c.x = 20 /\ c.w = g.chartW
           /\ a.w >= g.fullW - 40 \/ 2 * a.x + a.w < 2 * g.midX => Server!Bottom(a, g) <= c.y
        \/ /\ c.x = g.rightX /\ c.w = g.chartW
           /\ a.w >= g.fullW - 40 \/ ~(2 * a.x + a.w < 2 * g.midX) => Server!Bottom(a, g) <= c.y
    BY <1>2, <1>6, <2>2, <2>3, <2>4
  <2>6. ~Overlap(a, c, g)
    BY <1>1, <1>5, <2>1, <2>5, SlotIsClear
  <2> QED
    BY <2>6 DEF a
<1>8. Apart(Append(list, c), g)
  BY <1>4, <1>7, ApartAppends DEF Strips
<1>9. ASSUME NEW k \in 1 .. Len(Append(list, c)) PROVE InStrip(Append(list, c)[k], g)
  <2>1. k \in 1 .. Len(list) \/ Append(list, c)[k] = c
    OBVIOUS
  <2>2. k \in 1 .. Len(list) => Append(list, c)[k] = list[k]
    OBVIOUS
  <2> QED
    BY <1>4, <1>5, <2>1, <2>2 DEF Strips
<1>10. Strips(Append(list, c), g)
  BY <1>8, <1>9 DEF Strips
<1> QED
  BY <1>10 DEF g

-----------------------------------------------------------------------------
(***************************************************************************)
(* The blocks of one canvas as the agent, the page and the user go.        *)
(***************************************************************************)
LayoutInv ==
    /\ LayoutTypeOK
    /\ pageBlocks \in Seq(WellBlock) /\ stored \in Seq(WellBlock)
    /\ "page" \in grown => Strips(pageBlocks, Geo)
    /\ "server" \in grown => Strips(stored, Server!Geometry(0))

Free == {p \in [x : Int, y : Int] : p.y >= -4}

LEMMA WidthsAre ==
    ASSUME LayoutTypeOK
    PROVE  wide \in Nat /\ Geo = Server!Geometry(wide) /\ Geo \in Geometries
           /\ Server!Geometry(0) \in Geometries /\ Page!resolveGeometry(0) = Server!Geometry(0)
<1>1. wide \in Nat
  BY LayoutAssumption DEF LayoutTypeOK
<1>2. 0 \in Nat
  OBVIOUS
<1> QED
  BY <1>1, <1>2, GeometryIs DEF Geo

LEMMA BlankIs ==
    ASSUME NEW kind \in Kinds, NEW len \in Nat
    PROVE  Blank(kind, len) \in LayoutBlock /\ Blank(kind, len).kind = kind
BY DEF Blank, LayoutBlock

LEMMA PutIsWell ==
    ASSUME NEW b \in LayoutBlock, NEW slot \in Free, NEW w \in Nat, NEW h \in Nat, h = 0 \/ h >= 132
    PROVE  /\ PutBlock(b, slot, w, h) \in WellBlock /\ PutBlock(b, slot, w, h).placed
           /\ PutBlock(b, slot, w, h).x = slot.x /\ PutBlock(b, slot, w, h).y = slot.y
           /\ PutBlock(b, slot, w, h).w = w /\ PutBlock(b, slot, w, h).h = h /\ PutBlock(b, slot, w, h).kind = b.kind
<1>1. slot.x \in Int /\ slot.y \in Int /\ slot.y >= -4
  BY DEF Free
<1>2. PutBlock(b, slot, w, h) = [b EXCEPT !.placed = TRUE, !.x = slot.x, !.y = slot.y, !.w = w, !.h = h]
  BY DEF PutBlock
<1> QED
  BY <1>1, <1>2 DEF WellBlock, LayoutBlock

LEMMA SlotsAreFree ==
    ASSUME NEW list \in Seq(WellBlock), NEW width \in Nat
    PROVE  /\ Server!ChartSlot(list, width) \in Free /\ Page!nextChartSlot(list, width) = Server!ChartSlot(list, width)
           /\ Server!KpiSlot(list, width) \in Free /\ Page!nextKpiSlot(list, width) = Server!KpiSlot(list, width)
           /\ Server!FullSlot(list, width) \in Free
           /\ Page!nextFullWidthSlot(list, width) = Server!FullSlot(list, width)
<1> DEFINE g == Server!Geometry(width)
           cur == Server!Cursor(list, width)
<1>1. list \in Seq(LayoutBlock)
  BY WellList
<1>2. Server!KpiSlot(list, width) \in Free /\ Page!nextKpiSlot(list, width) = Server!KpiSlot(list, width)
  BY KpiSlotsAgree DEF Free
<1>3. cur.left \in Nat /\ cur.right \in Nat
  BY <1>1, CursorsAgree
<1>4. g.rightX \in Int
  BY GeometryIs DEF Geometries
<1>5. /\ Page!nextChartSlot(list, width) = Server!ChartSlot(list, width)
      /\ Server!ChartSlot(list, width) = [x |-> IF cur.left <= cur.right THEN 20 ELSE g.rightX,
                                          y |-> Below(IF cur.left <= cur.right THEN cur.left ELSE cur.right)]
  BY <1>1, ChartSlotsAgree
<1>6. /\ Page!nextFullWidthSlot(list, width) = Server!FullSlot(list, width)
      /\ Server!FullSlot(list, width) =
             [x |-> 20, y |-> Below(IF cur.left >= cur.right THEN cur.left ELSE cur.right)]
  BY <1>1, FullSlotsAgree
<1> HIDE DEF g, cur
<1>7. Server!ChartSlot(list, width) \in Free
  BY <1>3, <1>4, <1>5 DEF Free, Below
<1>8. Server!FullSlot(list, width) \in Free
  BY <1>3, <1>6 DEF Free, Below
<1> QED
  BY <1>2, <1>5, <1>6, <1>7, <1>8

LEMMA PageSlotIs ==
    ASSUME LayoutInv, NEW b \in LayoutBlock
    PROVE  /\ PageSlot(b) \in Free
           /\ b.kind = "chart" => PageSlot(b) = Server!ChartSlot(pageBlocks, wide)
           /\ b.kind \notin {"kpi", "chart"} => PageSlot(b) = Server!FullSlot(pageBlocks, wide)
<1>1. wide \in Nat /\ pageBlocks \in Seq(WellBlock)
  BY WidthsAre DEF LayoutInv
<1> QED
  BY <1>1, SlotsAreFree DEF PageSlot

Resized(b, w, h) == [b EXCEPT !.w = w, !.h = h]
LEMMA ResizedIs ==
    ASSUME NEW b \in WellBlock, NEW w \in Nat, NEW h \in Nat, h = 0 \/ h >= 132
    PROVE  /\ Resized(b, w, h) \in WellBlock /\ (b.placed => Resized(b, w, h).placed)
           /\ Resized(b, w, h).x = b.x /\ Resized(b, w, h).y = b.y /\ Resized(b, w, h).w = w
<1> DEFINE r == Resized(b, w, h)
<1>1. b \in LayoutBlock /\ (b.id => b.placed) /\ (b.placed => b.y >= -4)
  BY DEF WellBlock
<1>2. r \in LayoutBlock
  BY <1>1 DEF LayoutBlock, Resized
<1>3. (r.placed <=> b.placed) /\ r.x = b.x /\ r.y = b.y /\ r.w = w /\ r.h = h /\ (r.id <=> b.id)
  BY <1>1 DEF LayoutBlock, Resized
<1> HIDE DEF r
<1>4. r \in WellBlock
  BY <1>1, <1>2, <1>3 DEF WellBlock
<1> QED
  BY <1>3, <1>4 DEF r

LEMMA SizedIs ==
    ASSUME LayoutTypeOK, NEW b \in WellBlock
    PROVE  /\ Sized(b) \in WellBlock /\ (b.placed => Sized(b).placed) /\ Sized(b).x = b.x /\ Sized(b).y = b.y
           /\ b.kind = "chart" => Sized(b).w = Geo.chartW
           /\ b.kind \notin {"kpi", "chart"} => Sized(b).w = Geo.fullW
<1>1. Geo.kpiW \in Nat /\ Geo.chartW \in Nat /\ Geo.fullW \in Nat
  BY WidthsAre DEF Geometries
<1>2. Page!REPORT.kpiH = 132 /\ Page!REPORT.chartH = 320
  BY DEF Page!REPORT
<1>3. CASE b.kind = "kpi"
  <2>1. Sized(b) = Resized(b, Geo.kpiW, 132)
    BY <1>2, <1>3 DEF Sized, Resized
  <2>2. PICK h \in Nat : h = 132
    OBVIOUS
  <2>3. LET r == Resized(b, Geo.kpiW, h)
        IN r \in WellBlock /\ (b.placed => r.placed) /\ r.x = b.x /\ r.y = b.y /\ r.w = Geo.kpiW
    <3>1. h = 0 \/ h >= 132
      BY <2>2
    <3>2. Geo.kpiW \in Nat /\ b \in WellBlock /\ h \in Nat
      BY <1>1
    <3> QED
      BY <3>1, <3>2, ResizedIs
  <2> QED
    BY <1>3, <2>1, <2>2, <2>3
<1>4. CASE b.kind = "chart"
  <2>1. Sized(b) = Resized(b, Geo.chartW, 320)
    BY <1>2, <1>4 DEF Sized, Resized
  <2>2. PICK h \in Nat : h = 320
    OBVIOUS
  <2>3. LET r == Resized(b, Geo.chartW, h)
        IN r \in WellBlock /\ (b.placed => r.placed) /\ r.x = b.x /\ r.y = b.y /\ r.w = Geo.chartW
    <3>1. h = 0 \/ h >= 132
      BY <2>2
    <3>2. Geo.chartW \in Nat /\ b \in WellBlock /\ h \in Nat
      BY <1>1
    <3> QED
      BY <3>1, <3>2, ResizedIs
  <2> QED
    BY <1>4, <2>1, <2>2, <2>3
<1>5. CASE b.kind \notin {"kpi", "chart"}
  <2>1. Sized(b) = Resized(b, Geo.fullW, 0)
    BY <1>2, <1>5 DEF Sized, Resized
  <2>2. 0 \in Nat /\ (0 = 0 \/ 0 >= 132)
    OBVIOUS
  <2>3. LET r == Resized(b, Geo.fullW, 0)
        IN r \in WellBlock /\ (b.placed => r.placed) /\ r.x = b.x /\ r.y = b.y /\ r.w = Geo.fullW
    BY <1>1, <2>2, ResizedIs
  <2> QED
    BY <1>5, <2>1, <2>3
<1> QED
  BY <1>3, <1>4, <1>5

LEMMA ServerBlockIs ==
    ASSUME LayoutInv, NEW kind \in Kinds, NEW len \in Nat
    PROVE  LET b == ServerBlock(kind, len)
           IN /\ b \in WellBlock /\ b.placed /\ b.kind = kind
              /\ kind = "chart" => /\ b.x = Server!ChartSlot(stored, 0).x /\ b.y = Server!ChartSlot(stored, 0).y
                                   /\ b.w = Server!Geometry(0).chartW
              /\ kind \notin {"kpi", "chart"} =>
                     /\ b.x = Server!FullSlot(stored, 0).x /\ b.y = Server!FullSlot(stored, 0).y
                     /\ b.w = Server!Geometry(0).fullW
<1> DEFINE g == Server!Geometry(0)
           b == ServerBlock(kind, len)
<1>1. g.kpiW \in Nat /\ g.chartW \in Nat /\ g.fullW \in Nat
  BY WidthsAre DEF Geometries, LayoutInv
<1>2. stored \in Seq(WellBlock) /\ 0 \in Nat
  BY DEF LayoutInv
<1>3. Server!ChartSlot(stored, 0) \in Free /\ Server!KpiSlot(stored, 0) \in Free /\ Server!FullSlot(stored, 0) \in Free
  BY <1>2, SlotsAreFree
<1>4. /\ Blank(kind, 0) \in LayoutBlock /\ Blank(kind, 0).kind = kind
      /\ Blank(kind, len) \in LayoutBlock /\ Blank(kind, len).kind = kind
  BY <1>2, BlankIs
<1>5. CASE kind = "kpi"
  <2>1. b = PutBlock(Blank(kind, 0), Server!KpiSlot(stored, 0), g.kpiW, 132)
    BY <1>5 DEF ServerBlock, Server!KpiH
  <2>2. 132 \in Nat
    OBVIOUS
  <2> HIDE DEF b, g
  <2>3. b \in WellBlock /\ b.placed /\ b.kind = kind
    BY <1>1, <1>3, <1>4, <2>1, <2>2, PutIsWell
  <2> QED
    BY <1>5, <2>3 DEF b
<1>6. CASE kind = "chart"
  <2>1. b = PutBlock(Blank(kind, 0), Server!ChartSlot(stored, 0), g.chartW, 320)
    BY <1>6 DEF ServerBlock, Server!ChartH
  <2>2. 320 \in Nat
    OBVIOUS
  <2> HIDE DEF b, g
  <2>3. b \in WellBlock /\ b.placed /\ b.kind = kind /\ b.x = Server!ChartSlot(stored, 0).x
        /\ b.y = Server!ChartSlot(stored, 0).y /\ b.w = g.chartW
    BY <1>1, <1>3, <1>4, <2>1, <2>2, PutIsWell
  <2> QED
    BY <1>6, <2>3 DEF b, g
<1>7. CASE kind \notin {"kpi", "chart"}
  <2>1. b = PutBlock(Blank(kind, len), Server!FullSlot(stored, 0), g.fullW, 0)
    BY <1>7 DEF ServerBlock
  <2>2. 0 \in Nat
    OBVIOUS
  <2> HIDE DEF b, g
  <2>3. b \in WellBlock /\ b.placed /\ b.kind = kind /\ b.x = Server!FullSlot(stored, 0).x
        /\ b.y = Server!FullSlot(stored, 0).y /\ b.w = g.fullW
    BY <1>1, <1>3, <1>4, <2>1, <2>2, PutIsWell
  <2> QED
    BY <1>7, <2>3 DEF b, g
<1> QED
  BY <1>5, <1>6, <1>7

LEMMA Appended ==
    ASSUME NEW S, NEW s \in Seq(S), NEW e \in S
    PROVE  Append(s, e) \in Seq(S)
OBVIOUS

LEMMA WellTypes ==
    ASSUME NEW p \in Seq(WellBlock)
    PROVE  p \in Seq(LayoutBlock)
BY WellList

LEMMA AddStoredKeeps ==
    ASSUME LayoutInv, NEW kind \in Kinds, NEW len \in Nat, AddStored(kind, len)
    PROVE  LayoutInv'
<1> DEFINE b == ServerBlock(kind, len)
<1>1. /\ stored' = Append(stored, b) /\ pageBlocks' = Append(pageBlocks, Sized(b))
      /\ wide' = wide /\ persists' = persists /\ touches' = touches /\ grown' \subseteq grown
      /\ "page" \in grown' => SameWidth /\ pageBlocks = stored /\ kind # "kpi"
      /\ "server" \in grown' => kind # "kpi"
  BY DEF AddStored
<1>2. /\ b \in WellBlock /\ b.placed /\ b.kind = kind
      /\ kind = "chart" => /\ b.x = Server!ChartSlot(stored, 0).x /\ b.y = Server!ChartSlot(stored, 0).y
                           /\ b.w = Server!Geometry(0).chartW
      /\ kind \notin {"kpi", "chart"} =>
             /\ b.x = Server!FullSlot(stored, 0).x /\ b.y = Server!FullSlot(stored, 0).y
             /\ b.w = Server!Geometry(0).fullW
  BY ServerBlockIs
<1> HIDE DEF b
<1>3. /\ Sized(b) \in WellBlock /\ (b.placed => Sized(b).placed) /\ Sized(b).x = b.x /\ Sized(b).y = b.y
      /\ b.kind = "chart" => Sized(b).w = Geo.chartW
      /\ b.kind \notin {"kpi", "chart"} => Sized(b).w = Geo.fullW
  BY <1>2, SizedIs DEF LayoutInv
<1>4. stored' \in Seq(WellBlock) /\ pageBlocks' \in Seq(WellBlock)
  BY <1>1, <1>2, <1>3, Appended DEF LayoutInv
<1>5. LayoutTypeOK'
  <2>1. stored' \in Seq(LayoutBlock) /\ pageBlocks' \in Seq(LayoutBlock)
    BY <1>4, WellTypes
  <2> QED
    BY <1>1, <2>1 DEF LayoutInv, LayoutTypeOK
<1>6. stored \in Seq(LayoutBlock) /\ b \in LayoutBlock /\ Sized(b) \in LayoutBlock /\ 0 \in Nat
  BY <1>2, <1>3, WellTypes DEF LayoutInv, WellBlock
<1>7. ASSUME "server" \in grown' PROVE Strips(stored', Server!Geometry(0))
  <2>1. Strips(stored, Server!Geometry(0)) /\ kind # "kpi"
    BY <1>1, <1>7 DEF LayoutInv
  <2>2. \/ /\ b.x = Server!ChartSlot(stored, 0).x /\ b.y = Server!ChartSlot(stored, 0).y
           /\ b.w = Server!Geometry(0).chartW
        \/ /\ b.x = Server!FullSlot(stored, 0).x /\ b.y = Server!FullSlot(stored, 0).y
           /\ b.w = Server!Geometry(0).fullW
    BY <1>2, <2>1
  <2>3. Strips(Append(stored, b), Server!Geometry(0))
    BY <1>2, <1>6, <2>1, <2>2, SlotApart
  <2> QED
    BY <1>1, <2>3
<1>8. ASSUME "page" \in grown' PROVE Strips(pageBlocks', Geo')
  <2> DEFINE c == Sized(b)
  <2>1. Strips(pageBlocks, Geo) /\ kind # "kpi" /\ pageBlocks = stored /\ Geo = Server!Geometry(0) /\ Geo' = Geo
    BY <1>1, <1>8, WidthsAre DEF LayoutInv, SameWidth, Geo
  <2>2. c.placed /\ c \in LayoutBlock
    BY <1>2, <1>3, <1>6
  <2>3. \/ /\ c.x = Server!ChartSlot(stored, 0).x /\ c.y = Server!ChartSlot(stored, 0).y
           /\ c.w = Server!Geometry(0).chartW
        \/ /\ c.x = Server!FullSlot(stored, 0).x /\ c.y = Server!FullSlot(stored, 0).y
           /\ c.w = Server!Geometry(0).fullW
    BY <1>2, <1>3, <2>1
  <2> HIDE DEF c
  <2>4. Strips(stored, Server!Geometry(0))
    BY <2>1
  <2>5. Strips(Append(stored, c), Server!Geometry(0))
    BY <1>6, <2>2, <2>3, <2>4, SlotApart
  <2> QED
    BY <1>1, <2>1, <2>5 DEF c
<1> QED
  BY <1>4, <1>5, <1>7, <1>8 DEF LayoutInv

LEMMA AddShownKeeps ==
    ASSUME LayoutInv, NEW kind \in Kinds, NEW len \in Nat, AddShown(kind, len)
    PROVE  LayoutInv'
<1> DEFINE b == Blank(kind, len)
           p == PutBlock(b, PageSlot(b), 0, 0)
           c == Sized(p)
<1>1. /\ pageBlocks' = Append(pageBlocks, c) /\ stored' = stored
      /\ wide' = wide /\ persists' = persists /\ touches' = touches
      /\ grown' = IF kind = "kpi" THEN grown \ {"page"} ELSE grown
  BY DEF AddShown
<1>2. b \in LayoutBlock /\ b.kind = kind
  BY BlankIs
<1> HIDE DEF b
<1>3. /\ PageSlot(b) \in Free
      /\ b.kind = "chart" => PageSlot(b) = Server!ChartSlot(pageBlocks, wide)
      /\ b.kind \notin {"kpi", "chart"} => PageSlot(b) = Server!FullSlot(pageBlocks, wide)
  BY <1>2, PageSlotIs
<1>4. p \in WellBlock /\ p.placed /\ p.x = PageSlot(b).x /\ p.y = PageSlot(b).y /\ p.kind = b.kind
  <2>1. 0 \in Nat
    OBVIOUS
  <2> QED
    BY <1>2, <1>3, <2>1, PutIsWell
<1> HIDE DEF p
<1>5. /\ c \in WellBlock /\ (p.placed => c.placed) /\ c.x = p.x /\ c.y = p.y
      /\ p.kind = "chart" => c.w = Geo.chartW
      /\ p.kind \notin {"kpi", "chart"} => c.w = Geo.fullW
  BY <1>4, SizedIs DEF LayoutInv
<1> HIDE DEF c
<1>6. pageBlocks' \in Seq(WellBlock) /\ stored' \in Seq(WellBlock)
  BY <1>1, <1>5, Appended DEF LayoutInv
<1>7. LayoutTypeOK'
  <2>1. stored' \in Seq(LayoutBlock) /\ pageBlocks' \in Seq(LayoutBlock)
    BY <1>6, WellTypes
  <2> QED
    BY <1>1, <2>1 DEF LayoutInv, LayoutTypeOK
<1>8. ASSUME "page" \in grown' PROVE Strips(pageBlocks', Geo')
  <2>1. Strips(pageBlocks, Geo) /\ kind # "kpi" /\ Geo = Server!Geometry(wide) /\ Geo' = Geo /\ wide \in Nat
    BY <1>1, <1>8, WidthsAre DEF LayoutInv, Geo
  <2>2. c.placed /\ c \in LayoutBlock /\ pageBlocks \in Seq(LayoutBlock)
    BY <1>4, <1>5, WellTypes DEF WellBlock, LayoutInv
  <2>3. \/ /\ c.x = Server!ChartSlot(pageBlocks, wide).x /\ c.y = Server!ChartSlot(pageBlocks, wide).y
           /\ c.w = Server!Geometry(wide).chartW
        \/ /\ c.x = Server!FullSlot(pageBlocks, wide).x /\ c.y = Server!FullSlot(pageBlocks, wide).y
           /\ c.w = Server!Geometry(wide).fullW
    BY <1>2, <1>3, <1>4, <1>5, <2>1
  <2>4. Strips(pageBlocks, Server!Geometry(wide))
    BY <2>1
  <2>5. Strips(Append(pageBlocks, c), Server!Geometry(wide))
    BY <2>1, <2>2, <2>3, <2>4, SlotApart
  <2> QED
    BY <1>1, <2>1, <2>5
<1>9. "server" \in grown' => Strips(stored', Server!Geometry(0))
  BY <1>1 DEF LayoutInv
<1> QED
  BY <1>6, <1>7, <1>8, <1>9 DEF LayoutInv

\* A change by hand that leaves blocks a canvas can have.
LEMMA TouchKeeps ==
    ASSUME LayoutInv, Touch, pageBlocks' \in Seq(WellBlock), stored' = stored, wide' = wide, persists' = persists
    PROVE  LayoutInv'
<1>1. touches' \in 0 .. MaxTouches /\ grown' = grown \ {"page"}
  BY LayoutAssumption DEF LayoutInv, LayoutTypeOK, Touch
<1>2. pageBlocks' \in Seq(LayoutBlock)
  BY WellTypes
<1>3. LayoutTypeOK'
  BY <1>1, <1>2 DEF LayoutInv, LayoutTypeOK
<1>4. stored' \in Seq(WellBlock) /\ ("server" \in grown' => Strips(stored', Server!Geometry(0)))
  BY <1>1 DEF LayoutInv
<1>5. "page" \notin grown'
  BY <1>1
<1> QED
  BY <1>3, <1>4, <1>5 DEF LayoutInv

LEMMA AddByHandKeeps ==
    ASSUME LayoutInv, NEW kind \in Kinds, AddByHand(kind)
    PROVE  LayoutInv'
<1> DEFINE N == Len(pageBlocks)
           v == [i \in 1 .. N |-> (IF pageBlocks[i].placed THEN pageBlocks[i].y ELSE 0)
                                  + (IF pageBlocks[i].h > 0 THEN pageBlocks[i].h ELSE 250)]
           S == {v[i] : i \in 1 .. N}
           y == IF pageBlocks = <<>> THEN 180 ELSE Max(S) + 20
           h == IF kind \in {"image", "chart"} THEN 250 ELSE 0
           slot == [x |-> 20, y |-> y]
<1>1. pageBlocks \in Seq(WellBlock) /\ N \in Nat /\ \A i \in 1 .. N : pageBlocks[i] \in WellBlock
  BY DEF LayoutInv
<1>2. S = {(IF b.placed THEN b.y ELSE 0) + (IF b.h > 0 THEN b.h ELSE 250) : b \in Range(pageBlocks)}
  BY <1>1 DEF Range
<1>3. Touch /\ pageBlocks' = Append(pageBlocks, PutBlock(Blank(kind, 6), slot, 250, h))
      /\ stored' = stored /\ wide' = wide /\ persists' = persists
  <2> HIDE DEF S
  <2> QED
    BY <1>2 DEF AddByHand
<1>4. v \in [1 .. N -> Int] /\ \A i \in 1 .. N : v[i] >= -4
  <2>1. ASSUME NEW i \in 1 .. N PROVE v[i] \in Int /\ v[i] >= -4
    <3>1. pageBlocks[i] \in LayoutBlock /\ (pageBlocks[i].placed => pageBlocks[i].y >= -4)
      BY <1>1 DEF WellBlock
    <3>2. pageBlocks[i].y \in Int /\ pageBlocks[i].h \in Nat
      BY <3>1 DEF LayoutBlock
    <3> QED
      BY <3>1, <3>2
  <2> QED
    BY <2>1
<1> HIDE DEF v
<1>5. y \in Int /\ y >= -4
  <2>1. CASE pageBlocks = <<>>
    BY <2>1
  <2>2. CASE pageBlocks # <<>>
    <3>1. 1 .. N \in SUBSET (1 .. N) /\ 1 .. N # {}
      BY <1>1, <2>2
    <3>2. Max(S) \in Int /\ \E i \in 1 .. N : Max(S) = v[i]
      <4> HIDE DEF N
      <4> QED
        BY <1>1, <1>4, <3>1, MaxOver
    <3> QED
      BY <1>4, <2>2, <3>2
  <2> QED
    BY <2>1, <2>2
<1>6. slot \in Free
  <2> HIDE DEF y
  <2> QED
    BY <1>5 DEF Free
<1>7. h \in Nat /\ (h = 0 \/ h >= 132) /\ 250 \in Nat /\ 6 \in Nat
  OBVIOUS
<1> HIDE DEF slot, h
<1>8. PutBlock(Blank(kind, 6), slot, 250, h) \in WellBlock
  <2>1. Blank(kind, 6) \in LayoutBlock
    BY <1>7, BlankIs
  <2> QED
    BY <1>6, <1>7, <2>1, PutIsWell
<1>9. pageBlocks' \in Seq(WellBlock)
  BY <1>1, <1>3, <1>8, Appended
<1> QED
  BY <1>3, <1>9, TouchKeeps

LEMMA InsertInsightKeeps ==
    ASSUME LayoutInv, NEW i \in DOMAIN pageBlocks, InsertInsight(i)
    PROVE  LayoutInv'
<1> DEFINE b == Blank("text", 30)
           c == [b EXCEPT !.id = FALSE]
<1>1. Touch /\ pageBlocks' = InsertAt(pageBlocks, i + 1, c) /\ stored' = stored /\ wide' = wide /\ persists' = persists
  BY DEF InsertInsight
<1>2. c \in WellBlock
  <2>1. 30 \in Nat /\ "text" \in Kinds
    BY DEF Kinds
  <2>2. b \in LayoutBlock
    BY <2>1, BlankIs
  <2>3. b.placed = FALSE /\ b.h = 0
    BY DEF Blank
  <2> HIDE DEF b
  <2>4. c \in LayoutBlock /\ c.id = FALSE /\ c.placed = b.placed /\ c.h = b.h
    BY <2>2 DEF LayoutBlock
  <2> HIDE DEF c
  <2> QED
    BY <2>3, <2>4 DEF WellBlock
<1>3. pageBlocks \in Seq(WellBlock) /\ i + 1 \in 1 .. Len(pageBlocks) + 1
  BY DEF LayoutInv
<1> HIDE DEF c
<1>4. pageBlocks' \in Seq(WellBlock)
  BY <1>1, <1>2, <1>3, InsertionIs
<1> QED
  BY <1>1, <1>4, TouchKeeps

LEMMA DuplicateKeeps ==
    ASSUME LayoutInv, NEW i \in DOMAIN pageBlocks, Duplicate(i)
    PROVE  LayoutInv'
<1> DEFINE b == pageBlocks[i]
           c == [b EXCEPT !.id = TRUE]
           p == PutBlock(c, PageSlot(b), b.w, b.h)
<1>1. Touch /\ pageBlocks' = InsertAt(pageBlocks, i + 1, p) /\ stored' = stored /\ wide' = wide /\ persists' = persists
  BY DEF Duplicate
<1>2. pageBlocks \in Seq(WellBlock) /\ i + 1 \in 1 .. Len(pageBlocks) + 1 /\ b \in WellBlock
  BY DEF LayoutInv
<1> HIDE DEF b
<1>3. b \in LayoutBlock /\ (b.h = 0 \/ b.h >= 132)
  BY <1>2 DEF WellBlock
<1>4. b.w \in Nat /\ b.h \in Nat /\ c \in LayoutBlock
  BY <1>3 DEF LayoutBlock
<1>5. PageSlot(b) \in Free
  BY <1>3, PageSlotIs
<1> HIDE DEF c
<1>6. p \in WellBlock
  BY <1>3, <1>4, <1>5, PutIsWell
<1> HIDE DEF p
<1>7. pageBlocks' \in Seq(WellBlock)
  BY <1>1, <1>2, <1>6, InsertionIs
<1> QED
  BY <1>1, <1>7, TouchKeeps

LEMMA DragSizeKeeps ==
    ASSUME LayoutInv, NEW i \in DOMAIN pageBlocks, NEW w \in Sizes, NEW h \in Sizes, DragSize(i, w, h)
    PROVE  LayoutInv'
<1> DEFINE b == pageBlocks[i]
           c == [b EXCEPT !.w = w, !.h = h]
<1>1. Touch /\ stored' = stored /\ wide' = wide /\ persists' = persists
      /\ pageBlocks' = [pageBlocks EXCEPT ![i].w = w, ![i].h = h]
  BY DEF DragSize
<1>2. pageBlocks \in Seq(WellBlock) /\ b \in WellBlock
  BY DEF LayoutInv
<1>3. w \in Nat /\ h \in Nat /\ h >= 132
  BY LayoutAssumption
<1>4. b \in LayoutBlock /\ (b.id => b.placed) /\ (b.placed => b.y >= -4)
  BY <1>2 DEF WellBlock
<1>5. pageBlocks' = [pageBlocks EXCEPT ![i] = c]
  BY <1>1
<1> HIDE DEF b
<1>6. c \in LayoutBlock /\ c.placed = b.placed /\ c.y = b.y /\ c.h = h /\ c.id = b.id
  BY <1>3, <1>4 DEF LayoutBlock
<1> HIDE DEF c
<1>7. c \in WellBlock
  BY <1>3, <1>4, <1>6 DEF WellBlock
<1>8. pageBlocks' \in Seq(WellBlock)
  BY <1>2, <1>5, <1>7
<1> QED
  BY <1>1, <1>8, TouchKeeps

LEMMA ArrangedIsWell ==
    ASSUME LayoutInv, NEW list \in Seq(WellBlock)
    PROVE  Page!applyReportLayout(list, wide) \in Seq(WellBlock)
<1>1. wide \in Nat
  BY WidthsAre DEF LayoutInv
<1>2. list \in Seq(LayoutBlock)
  BY WellTypes
<1> QED
  BY <1>1, <1>2, ArrangementsAgree, ArrangedWell

LEMMA MoveBlockKeeps ==
    ASSUME LayoutInv, NEW i \in DOMAIN pageBlocks, MoveBlock(i)
    PROVE  LayoutInv'
<1> DEFINE list == [pageBlocks EXCEPT ![i] = pageBlocks[i + 1], ![i + 1] = pageBlocks[i]]
<1>1. Touch /\ i < Len(pageBlocks) /\ pageBlocks' = Page!applyReportLayout(list, wide)
      /\ stored' = stored /\ wide' = wide /\ persists' = persists
  BY DEF MoveBlock
<1>2. pageBlocks \in Seq(WellBlock)
  BY DEF LayoutInv
<1>3. pageBlocks[i] \in WellBlock /\ pageBlocks[i + 1] \in WellBlock
  BY <1>1, <1>2
<1>4. list \in Seq(WellBlock)
  <2>1. DOMAIN list = 1 .. Len(pageBlocks) /\ Len(pageBlocks) \in Nat
    BY <1>2
  <2>2. \A k \in 1 .. Len(pageBlocks) : list[k] \in WellBlock
    BY <1>2, <1>3
  <2>3. list = [k \in 1 .. Len(pageBlocks) |-> list[k]]
    BY <1>2
  <2> HIDE DEF list
  <2> QED
    BY <2>1, <2>2, <2>3
<1> HIDE DEF list
<1>5. pageBlocks' \in Seq(WellBlock)
  BY <1>1, <1>4, ArrangedIsWell
<1> QED
  BY <1>1, <1>5, TouchKeeps

LEMMA ArrangeByHandKeeps == ASSUME LayoutInv, ArrangeByHand PROVE LayoutInv'
<1>1. Touch /\ pageBlocks' = Page!applyReportLayout(pageBlocks, wide)
      /\ stored' = stored /\ wide' = wide /\ persists' = persists
  BY DEF ArrangeByHand
<1>2. pageBlocks' \in Seq(WellBlock)
  BY <1>1, ArrangedIsWell DEF LayoutInv
<1> QED
  BY <1>1, <1>2, TouchKeeps

LEMMA ArrangeByAgentKeeps == ASSUME LayoutInv, ArrangeByAgent PROVE LayoutInv'
<1>1. /\ touches < MaxTouches /\ touches' = touches + 1 /\ wide' = wide /\ persists' = persists /\ grown' = {}
      /\ stored' = Server!Arranged(stored, 0) /\ pageBlocks' = Page!applyReportLayout(pageBlocks, wide)
  BY DEF ArrangeByAgent
<1>2. pageBlocks' \in Seq(WellBlock)
  BY <1>1, ArrangedIsWell DEF LayoutInv
<1>3. stored' \in Seq(WellBlock)
  <2>1. stored \in Seq(WellBlock) /\ 0 \in Nat
    BY DEF LayoutInv
  <2> QED
    BY <1>1, <2>1, ArrangedWell
<1>4. pageBlocks' \in Seq(LayoutBlock) /\ stored' \in Seq(LayoutBlock)
  BY <1>2, <1>3, WellTypes
<1>5. LayoutTypeOK'
  BY <1>1, <1>4, LayoutAssumption DEF LayoutInv, LayoutTypeOK
<1> QED
  BY <1>1, <1>2, <1>3, <1>5 DEF LayoutInv

LEMMA SaveBlocksKeeps == ASSUME LayoutInv, SaveBlocks PROVE LayoutInv'
<1>1. /\ stored' = pageBlocks /\ pageBlocks' = pageBlocks /\ wide' = wide /\ persists' = persists /\ touches' = touches
      /\ grown' = IF "page" \in grown /\ SameWidth THEN {"page", "server"} ELSE grown \ {"server"}
  BY DEF SaveBlocks
<1>2. LayoutTypeOK'
  BY <1>1 DEF LayoutInv, LayoutTypeOK
<1>3. Geo' = Geo /\ Page!resolveGeometry(0) = Server!Geometry(0)
  BY <1>1, WidthsAre DEF LayoutInv, Geo
<1>4. "page" \in grown' => "page" \in grown
  BY <1>1
<1>5. "server" \in grown' => "page" \in grown /\ Geo = Server!Geometry(0)
  BY <1>1, <1>3 DEF SameWidth
<1> QED
  BY <1>1, <1>2, <1>3, <1>4, <1>5 DEF LayoutInv

LEMMA MeasureKeeps == ASSUME LayoutInv, Measure PROVE LayoutInv'
<1>1. /\ touches < MaxTouches /\ touches' = touches + 1 /\ wide' \in PageWidths /\ grown' = grown \ {"page"}
      /\ pageBlocks' = pageBlocks /\ stored' = stored /\ persists' = persists
  BY DEF Measure
<1>2. LayoutTypeOK'
  BY <1>1, LayoutAssumption DEF LayoutInv, LayoutTypeOK
<1> QED
  BY <1>1, <1>2 DEF LayoutInv

\* Where an edge may come to lie that the mouse left on the canvas.
Edges == {v \in Int : v >= -4}

LEMMA SnapIs ==
    ASSUME NEW a \in Nat
    PROVE  Page!snapToGrid(a) \in Edges
<1>1. (a + 4) \div 8 \in Int /\ a + 4 < 8 * ((a + 4) \div 8) + 8
  <2>1. a + 4 \in Int /\ 8 \in Nat \ {0}
    OBVIOUS
  <2> QED
    BY <2>1, Divides
<1>2. Page!snapToGrid(a) = ((a + 8 \div 2) \div 8) * 8
  BY DEF Page!snapToGrid, Page!Round
<1>3. 8 \div 2 = 4
  OBVIOUS
<1> QED
  BY <1>1, <1>2, <1>3 DEF Edges

LEMMA SnappedIs ==
    ASSUME NEW a \in Nat, NEW d \in Int, NEW v \in Edges, NEW o, o[1] \in Int, o[2] \in Int
    PROVE  Page!snapped(<<a, d>>, v, o) \in Edges
BY DEF Page!snapped, Page!Within, Edges

LEMMA AlignedIs ==
    ASSUME NEW a \in Nat, NEW d \in Int, NEW others \in Seq(Int \X Int)
    PROVE  Page!Aligned(<<a, d>>, others) \in Edges
<1> DEFINE N == Len(others)
           cur == <<a, d>>
           one(v, n) == Page!snapped(cur, v, others[n])
           base == Page!snapToGrid(a)
           step == [n \in 1 .. N |-> [v \in Edges |-> one(v, n)]]
           f == CHOOSE e : e = [n \in 0 .. N |-> IF n = 0 THEN base ELSE one(e[n - 1], n)]
<1>1. N \in Nat
  OBVIOUS
<1>2. base \in Edges
  BY SnapIs
<1>3. Page!Aligned(cur, others) = f[N]
  BY DEF Page!Aligned
<1>4. ASSUME NEW n \in 1 .. N, NEW v \in Edges PROVE one(v, n) \in Edges
  <2>1. others[n][1] \in Int /\ others[n][2] \in Int
    OBVIOUS
  <2> QED
    BY <2>1, SnappedIs
<1> HIDE DEF N, cur, one, base
<1>5. step \in [1 .. N -> [Edges -> Edges]]
  BY <1>4
<1>6. PICK h : Recurses(h, N, Edges, base, step)
  <2> HIDE DEF step
  <2> QED
    BY <1>1, <1>2, <1>5, Recursion
<1>7. h \in [0 .. N -> Edges] /\ h[0] = base /\ \A n \in 1 .. N : h[n] = step[n][h[n - 1]]
  BY <1>6, Zenon DEF Recurses
<1>8. ASSUME NEW n \in 1 .. N PROVE n # 0 /\ h[n] = one(h[n - 1], n)
  <2>1. n - 1 \in 0 .. N /\ n # 0
    BY <1>1
  <2>2. h[n - 1] \in Edges
    BY <1>7, <2>1
  <2> QED
    BY <1>7, <2>1, <2>2
<1>9. h = [n \in 0 .. N |-> IF n = 0 THEN base ELSE one(h[n - 1], n)]
  <2>1. \A n \in 0 .. N : n = 0 \/ n \in 1 .. N
    BY <1>1
  <2> QED
    BY <1>7, <1>8, <2>1
<1>10. f = [n \in 0 .. N |-> IF n = 0 THEN base ELSE one(f[n - 1], n)]
  BY <1>9, Zenon
<1> HIDE DEF f
<1>11. \A n \in 0 .. N : f[n] = IF n = 0 THEN base ELSE one(f[n - 1], n)
  BY <1>10, Zenon
<1> DEFINE G == {n \in 0 .. N : f[n] \in Edges}
<1>12. 0 \in G
  BY <1>1, <1>2, <1>11
<1>13. ASSUME NEW n \in 1 .. N, n - 1 \in G PROVE n \in G
  <2>1. n \in 0 .. N /\ n # 0 /\ f[n - 1] \in Edges
    BY <1>1, <1>13
  <2> QED
    BY <1>4, <1>11, <2>1
<1>14. N \in G
  <2> HIDE DEF G
  <2>1. \A n \in 1 .. N : n - 1 \in G => n \in G
    BY <1>13
  <2>2. \A n \in 0 .. N : n \in G
    BY <1>1, <1>12, <2>1, Inductive
  <2> QED
    BY <1>1, <2>2
<1> QED
  BY <1>3, <1>14 DEF cur

LEMMA BoundsAre ==
    ASSUME NEW b \in LayoutBlock, NEW n \in Nat \ {0}
    PROVE  LET p == Page!Bounds(b, n)
           IN p.x \in Int /\ p.y \in Int /\ p.w \in Int /\ p.h \in Int
<1> DEFINE p == Page!Bounds(b, n)
<1>1. p.h = Page!estimateBlockHeight(b, Page!resolveGeometry(0)) /\ p.w = (IF b.w > 0 THEN b.w ELSE 400)
      /\ p.x = (IF b.placed THEN b.x ELSE ((n - 1) % 2) * 420)
      /\ p.y = (IF b.placed THEN b.y ELSE ((n - 1) \div 2) * 400)
  BY DEF Page!Bounds
<1>2. p.h \in Int
  <2>1. Page!resolveGeometry(0) \in Geometries
    <3>1. 0 \in Nat
      OBVIOUS
    <3> QED
      BY <3>1, GeometryIs
  <2> QED
    BY <1>1, <2>1, HeightIs
<1>3. b.x \in Int /\ b.y \in Int /\ b.w \in Nat
  BY DEF LayoutBlock
<1> HIDE DEF p
<1> QED
  BY <1>1, <1>2, <1>3 DEF p

LEMMA AlignmentIsFree ==
    ASSUME NEW cur, cur.x \in Nat, cur.y \in Nat, cur.w \in Int, cur.h \in Int, NEW alt \in BOOLEAN,
           NEW others, NEW n \in Nat, DOMAIN others = 1 .. n,
           \A k \in 1 .. n : /\ others[k].x \in Int /\ others[k].y \in Int
                             /\ others[k].w \in Int /\ others[k].h \in Int
    PROVE  Page!detectAlignment(cur, others, alt) \in Free
<1> DEFINE xs == [i \in DOMAIN others |-> <<others[i].x, others[i].w>>]
           ys == [i \in DOMAIN others |-> <<others[i].y, others[i].h>>]
           x == Page!Aligned(<<cur.x, cur.w>>, xs)
           y == Page!Aligned(<<cur.y, cur.h>>, ys)
<1>1. xs \in Seq(Int \X Int) /\ ys \in Seq(Int \X Int)
  OBVIOUS
<1>2. Page!detectAlignment(cur, others, alt) = IF alt THEN [x |-> cur.x, y |-> cur.y] ELSE [x |-> x, y |-> y]
  BY DEF Page!detectAlignment
<1> HIDE DEF xs, ys
<1>3. x \in Edges /\ y \in Edges
  BY <1>1, AlignedIs
<1> HIDE DEF x, y
<1> QED
  BY <1>2, <1>3 DEF Edges, Free

LEMMA DragKeeps ==
    ASSUME LayoutInv, NEW i \in DOMAIN pageBlocks, NEW spot \in Spots, NEW alt \in BOOLEAN, Drag(i, spot, alt)
    PROVE  LayoutInv'
<1> DEFINE N == Len(pageBlocks)
           b == pageBlocks[i]
           mine == Page!Bounds(b, i)
           all == [k \in DOMAIN pageBlocks |-> Page!Bounds(pageBlocks[k], k)]
           others == RemoveAt(all, i)
           cur == [mine EXCEPT !.x = spot.x, !.y = spot.y]
           to == Page!detectAlignment(cur, others, alt)
           P == [x : Int, y : Int, w : Int, h : Int]
<1>1. Touch /\ stored' = stored /\ wide' = wide /\ persists' = persists
      /\ pageBlocks' = [pageBlocks EXCEPT ![i] = PutBlock(b, to, b.w, b.h)]
  BY DEF Drag
<1>2. pageBlocks \in Seq(WellBlock) /\ N \in Nat /\ i \in 1 .. N /\ DOMAIN pageBlocks = 1 .. N
      /\ \A k \in 1 .. N : pageBlocks[k] \in WellBlock
  BY DEF LayoutInv
<1>3. ASSUME NEW k \in 1 .. N PROVE Page!Bounds(pageBlocks[k], k) \in P
  <2> DEFINE p == Page!Bounds(pageBlocks[k], k)
  <2>1. pageBlocks[k] \in LayoutBlock /\ k \in Nat \ {0}
    BY <1>2 DEF WellBlock
  <2>2. p.x \in Int /\ p.y \in Int /\ p.w \in Int /\ p.h \in Int
    BY <2>1, BoundsAre
  <2>3. p = [x |-> p.x, y |-> p.y, w |-> p.w, h |-> p.h]
    BY DEF Page!Bounds
  <2> HIDE DEF p
  <2> QED
    BY <2>2, <2>3 DEF p
<1>4. mine \in P /\ all \in Seq(P) /\ Len(all) = N
  BY <1>2, <1>3
<1> HIDE DEF b, mine, all, N
<1>5. cur.x = spot.x /\ cur.y = spot.y /\ cur.w = mine.w /\ cur.h = mine.h
  BY <1>4
<1>6. spot.x \in Nat /\ spot.y \in Nat /\ mine.w \in Int /\ mine.h \in Int
  BY <1>4, LayoutAssumption
<1>7. others \in Seq(P)
  <2> HIDE DEF P
  <2>1. SubSeq(all, 1, i - 1) \in Seq(P) /\ SubSeq(all, i + 1, Len(all)) \in Seq(P)
    BY <1>2, <1>4
  <2>2. SubSeq(all, 1, i - 1) \o SubSeq(all, i + 1, Len(all)) \in Seq(P)
    BY <2>1
  <2> QED
    BY <2>2 DEF RemoveAt
<1> HIDE DEF cur, others
<1>8. Len(others) \in Nat /\ DOMAIN others = 1 .. Len(others)
      /\ \A k \in 1 .. Len(others) : /\ others[k].x \in Int /\ others[k].y \in Int
                                     /\ others[k].w \in Int /\ others[k].h \in Int
  <2>1. Len(others) \in Nat /\ DOMAIN others = 1 .. Len(others) /\ \A k \in 1 .. Len(others) : others[k] \in P
    <3> HIDE DEF P
    <3> QED
      BY <1>7
  <2> QED
    BY <2>1
<1>9. to \in Free
  BY <1>5, <1>6, <1>8, AlignmentIsFree
<1> HIDE DEF to
<1>10. b \in WellBlock
  BY <1>2 DEF b
<1>11. b \in LayoutBlock /\ (b.h = 0 \/ b.h >= 132)
  BY <1>10 DEF WellBlock
<1>12. b.w \in Nat /\ b.h \in Nat
  BY <1>11 DEF LayoutBlock
<1>13. PutBlock(b, to, b.w, b.h) \in WellBlock
  BY <1>9, <1>11, <1>12, PutIsWell
<1>14. pageBlocks' \in Seq(WellBlock)
  BY <1>1, <1>2, <1>13
<1> QED
  BY <1>1, <1>14, TouchKeeps

LEMMA LayoutInitially == LayoutInit => LayoutInv
<1> SUFFICES ASSUME LayoutInit PROVE LayoutInv
  OBVIOUS
<1>1. pageBlocks = <<>> /\ stored = <<>> /\ touches = 0 /\ wide \in PageWidths /\ persists \in BOOLEAN
      /\ grown = {"page", "server"}
  BY DEF LayoutInit
<1>2. LayoutTypeOK
  BY <1>1, LayoutAssumption DEF LayoutTypeOK
<1>3. \A g : Strips(<<>>, g)
  BY DEF Strips, Apart
<1> QED
  BY <1>1, <1>2, <1>3 DEF LayoutInv

LEMMA LayoutKeeps == ASSUME LayoutInv, [LayoutNext]_layoutVars PROVE LayoutInv'
<1>1. ASSUME NEW kind \in {"chart", "kpi"}, AddStored(kind, 0) \/ AddShown(kind, 0) PROVE LayoutInv'
  <2>1. kind \in Kinds /\ 0 \in Nat
    BY DEF Kinds
  <2> QED
    BY <1>1, <2>1, AddStoredKeeps, AddShownKeeps
<1>2. ASSUME NEW kind \in Narratives, NEW len \in Texts, AddStored(kind, len) \/ AddShown(kind, len)
      PROVE  LayoutInv'
  <2>1. kind \in Kinds /\ len \in Nat
    BY LayoutAssumption DEF Kinds
  <2> QED
    BY <1>2, <2>1, AddStoredKeeps, AddShownKeeps
<1>3. ASSUME NEW kind \in {"text", "h1", "image", "chart"}, AddByHand(kind) PROVE LayoutInv'
  <2>1. kind \in Kinds
    BY DEF Kinds
  <2> QED
    BY <1>3, <2>1, AddByHandKeeps
<1>4. ASSUME NEW i \in DOMAIN pageBlocks, InsertInsight(i) \/ Duplicate(i) \/ MoveBlock(i) PROVE LayoutInv'
  BY <1>4, InsertInsightKeeps, DuplicateKeeps, MoveBlockKeeps
<1>5. ASSUME NEW i \in DOMAIN pageBlocks, NEW spot \in Spots, NEW alt \in BOOLEAN, Drag(i, spot, alt)
      PROVE  LayoutInv'
  BY <1>5, DragKeeps
<1>6. ASSUME NEW i \in DOMAIN pageBlocks, NEW w \in Sizes, NEW h \in Sizes, DragSize(i, w, h) PROVE LayoutInv'
  BY <1>6, DragSizeKeeps
<1>7. ASSUME ArrangeByHand \/ ArrangeByAgent \/ SaveBlocks \/ Measure PROVE LayoutInv'
  BY <1>7, ArrangeByHandKeeps, ArrangeByAgentKeeps, SaveBlocksKeeps, MeasureKeeps
<1>8. ASSUME UNCHANGED layoutVars PROVE LayoutInv'
  BY <1>8 DEF layoutVars, LayoutInv, LayoutTypeOK, Geo
<1> QED
  BY <1>1, <1>2, <1>3, <1>4, <1>5, <1>6, <1>7, <1>8 DEF LayoutNext

LEMMA ListsAre ==
    ASSUME LayoutInv, NEW list \in Lists
    PROVE  list \in Seq(WellBlock) /\ list \in Seq(LayoutBlock)
<1>1. list \in Seq(WellBlock)
  BY DEF Lists, LayoutInv
<1> QED
  BY <1>1, WellTypes

LEMMA WidthIsNat == ASSUME LayoutInv, NEW width \in Widths PROVE width \in Nat
BY WidthsAre DEF LayoutInv, Widths

\* What the two sides compute from any list that a canvas can hold.
LEMMA ListsAgree == LayoutInv => TwinsAgree
<1> SUFFICES ASSUME LayoutInv, NEW list \in Lists, NEW width \in Widths
             PROVE  /\ Page!nextChartSlot(list, width) = Server!ChartSlot(list, width)
                    /\ Page!nextKpiSlot(list, width) = Server!KpiSlot(list, width)
                    /\ Page!nextFullWidthSlot(list, width) = Server!FullSlot(list, width)
                    /\ Page!applyReportLayout(list, width) = Server!Arranged(list, width)
                    /\ Page!assignBlockLabels(list) = Server!ServiceLabels(list)
  BY DEF TwinsAgree
<1>1. list \in Seq(WellBlock) /\ list \in Seq(LayoutBlock) /\ width \in Nat
  BY ListsAre, WidthIsNat
<1> QED
  BY <1>1, SlotsAreFree, ArrangementsAgree, LabelsAgree

LEMMA ArrangementsClear == LayoutInv => ArrangedApart
<1> SUFFICES ASSUME LayoutInv, NEW list \in Lists, NEW width \in Widths,
                    \A b \in Range(list) : b.kind = "text" => b.w <= Server!Geometry(width).fullW
             PROVE  Apart(Server!Arranged(list, width), Server!Geometry(width))
  BY DEF ArrangedApart
<1>1. list \in Seq(LayoutBlock) /\ width \in Nat
  BY ListsAre, WidthIsNat
<1> QED
  BY <1>1, ArrangementIsApart

LEMMA ArrangementsSettle == LayoutInv => ArrangeSettles
<1> SUFFICES ASSUME LayoutInv, NEW list \in Lists, NEW width \in Widths
             PROVE  LET once == Server!Arranged(list, width)
                        twice == Server!Arranged(once, width)
                    IN /\ Server!Arranged(twice, width) = twice
                       /\ (\A b \in Range(list) : b.kind = "text" => b.w = Server!Geometry(width).fullW)
                            => twice = once
  BY DEF ArrangeSettles
<1> DEFINE once == Server!Arranged(list, width)
           twice == Server!Arranged(once, width)
<1>1. list \in Seq(WellBlock) /\ list \in Seq(LayoutBlock) /\ width \in Nat
  BY ListsAre, WidthIsNat
<1>2. once \in Seq(WellBlock)
  BY <1>1, ArrangedWell
<1>3. once \in Seq(LayoutBlock)
  BY <1>2, WellTypes
<1>4. \A b \in Range(once) : b.kind = "text" => b.w = Server!Geometry(width).fullW
  BY <1>1, ArrangementIsWide
<1>5. (\A b \in Range(list) : b.kind = "text" => b.w = Server!Geometry(width).fullW) => twice = once
  BY <1>1, ArrangementStays
<1> HIDE DEF once
<1>6. Server!Arranged(twice, width) = twice
  BY <1>1, <1>3, <1>4, ArrangementStays
<1> QED
  BY <1>5, <1>6 DEF once

LEMMA NumbersName == LayoutInv => NumbersNameBlocks
<1> SUFFICES ASSUME LayoutInv, NEW list \in Lists
             PROVE  /\ NoTwins(Page!assignBlockLabels(list)) /\ NoTwins(Server!ToolLabels(list))
                    /\ (/\ \A b \in Range(list) : b.id
                        /\ \A b, c \in Range(list) :
                               b.placed /\ c.placed /\ Server!Near(b.y, c.y) => b.y = c.y)
                           => Page!assignBlockLabels(list) = Server!ToolLabels(list)
  BY DEF NumbersNameBlocks
<1>1. list \in Seq(WellBlock) /\ list \in Seq(LayoutBlock)
  BY ListsAre
<1>2. Page!assignBlockLabels(list) = Server!ServiceLabels(list)
  BY <1>1, LabelsAgree
<1>3. NoTwins(Server!ServiceLabels(list)) /\ NoTwins(Server!ToolLabels(list))
  BY <1>1, ServiceNumbersName, ToolNumbersName
<1>4. ASSUME \A b \in Range(list) : b.id,
             \A b, c \in Range(list) : b.placed /\ c.placed /\ Server!Near(b.y, c.y) => b.y = c.y
      PROVE  Server!ToolLabels(list) = Server!ServiceLabels(list)
  <2>1. \A b \in Range(list) : b.id /\ b.placed
    BY <1>1, <1>4, WellList DEF WellBlock
  <2> QED
    BY <1>1, <1>4, <2>1, ToolsAgree
<1> QED
  BY <1>2, <1>3, <1>4

LEMMA GrownAreApart == LayoutInv => GrownApart
BY DEF LayoutInv, GrownApart, Strips

LEMMA LayoutInvariant == LayoutInit /\ [][LayoutNext]_layoutVars => []LayoutInv
<1>1. LayoutInv /\ [LayoutNext]_layoutVars => LayoutInv'
  BY LayoutKeeps
<1> QED
  BY <1>1, LayoutInitially, PTL

\* Whatever the agent adds and the user does to the blocks, both lists hold blocks and
\* the counters stay in their bounds.
THEOREM LayoutTypeCorrect == LayoutSpec => []LayoutTypeOK
BY LayoutInvariant, PTL DEF LayoutInv, LayoutSpec

\* The page and the server, which each place, arrange and number the blocks of a canvas
\* with code of their own, agree for every canvas the actions lead to and every width;
\* arrangements have no block over another and settle, what only grew in free slots lies
\* apart, and a number names one block.
THEOREM LayoutIsSound == LayoutSpec => []LayoutSound
<1>1. LayoutInv => LayoutSound
  BY ListsAgree, ArrangementsClear, ArrangementsSettle, NumbersName, GrownAreApart DEF LayoutSound
<1> QED
  BY <1>1, LayoutInvariant, PTL DEF LayoutSpec

-----------------------------------------------------------------------------
(***************************************************************************)
(* One dashboard and what reaches its page.                                *)
(***************************************************************************)
Events(n) == [no : 1 .. n, ours : BOOLEAN]

LEMMA PublishKeeps ==
    ASSUME BoardsTypeOK, NEW ours \in BOOLEAN, Publish(ours)
    PROVE  /\ published' \in 0 .. MaxEvents /\ heard \in 0 .. published'
           /\ queue' \in Seq(Events(published')) /\ Len(queue') <= Capacity
           /\ ~open => queue' = <<>>
<1> DEFINE n == published + 1
           e == [no |-> n, ours |-> ours]
           E == Events(n)
<1>1. /\ published \in 0 .. MaxEvents /\ heard \in 0 .. published /\ published < MaxEvents /\ published' = n
      /\ Len(queue) <= Capacity /\ (~open => queue = <<>>) /\ MaxEvents \in Nat /\ Capacity \in Nat \ {0}
      /\ queue \in Seq(Events(published))
  BY BoardsAssumption DEF BoardsTypeOK, Publish, Events
<1>2. e \in E /\ Events(published) \subseteq E
  BY <1>1 DEF Events
<1>3. queue \in Seq(E)
  BY <1>1, <1>2
<1>4. queue' = IF open THEN Append(IF Len(queue) < Capacity THEN queue ELSE Tail(queue), e) ELSE queue
  BY DEF Publish, Queued
<1> HIDE DEF e, E
<1>5. queue' \in Seq(E) /\ Len(queue') <= Capacity
  <2>1. CASE Len(queue) < Capacity
    BY <1>1, <1>2, <1>3, <1>4, <2>1
  <2>2. CASE ~(Len(queue) < Capacity)
    <3>1. queue # <<>>
      BY <1>1, <2>2
    <3>2. Tail(queue) \in Seq(E) /\ Len(Tail(queue)) = Len(queue) - 1
      BY <1>3, <3>1
    <3> QED
      BY <1>1, <1>2, <1>3, <1>4, <2>2, <3>2
  <2> QED
    BY <2>1, <2>2
<1> QED
  BY <1>1, <1>4, <1>5 DEF E

VersionsFit ==
    /\ payload \in Nat /\ build \in Nat /\ page \in Nat /\ told \in Nat /\ version \in Edits
    /\ payload <= version /\ build <= version /\ page <= version /\ told <= version
QueueFits ==
    /\ published \in 0 .. MaxEvents /\ heard \in 0 .. published
    /\ queue \in Seq(Events(published)) /\ Len(queue) <= Capacity
    /\ ~open => queue = <<>>
Switches ==
    /\ board \in {"live", "trash", "gone"} /\ scheduled \in BOOLEAN /\ job \in BOOLEAN
    /\ due \in BOOLEAN /\ open \in BOOLEAN /\ refresh \in BOOLEAN

LEMMA BoardsParts == BoardsTypeOK <=> Switches /\ VersionsFit /\ QueueFits
<1>1. {payload, build, page, told} \subseteq 0 .. version
      <=> payload \in 0 .. version /\ build \in 0 .. version /\ page \in 0 .. version /\ told \in 0 .. version
  OBVIOUS
<1>2. ASSUME version \in Edits, NEW v
      PROVE  v \in 0 .. version <=> v \in Nat /\ v <= version
  BY <1>2, BoardsAssumption DEF Edits
<1>3. version \in Edits /\ {payload, build, page, told} \subseteq 0 .. version <=> VersionsFit
  BY <1>1, <1>2 DEF VersionsFit
<1> HIDE DEF VersionsFit
<1> QED
  BY <1>3 DEF BoardsTypeOK, Switches, QueueFits, Events

LEMMA BoardsTypesKeep == ASSUME BoardsTypeOK, [BoardsNext]_boardsVars PROVE BoardsTypeOK'
<1> DEFINE switches == <<board, scheduled, job, due, open, refresh>>
           shown == <<payload, build, page, told, version>>
           fits == <<published, heard, queue, open>>
<1>1. Switches /\ VersionsFit /\ QueueFits /\ MaxEdits \in Nat /\ MaxEvents \in Nat /\ Capacity \in Nat
  BY BoardsParts, BoardsAssumption
<1>2. (UNCHANGED shown => VersionsFit') /\ (UNCHANGED fits => QueueFits') /\ (UNCHANGED switches => Switches')
  BY <1>1 DEF VersionsFit, QueueFits, Switches, Events, Edits
<1>3. ASSUME NEW ours \in BOOLEAN, Publish(ours), UNCHANGED <<heard, open>> PROVE QueueFits'
  BY <1>3, PublishKeeps DEF QueueFits
<1>4. Switches' /\ VersionsFit' /\ QueueFits'
  <2>1. CASE Edit
    <3>1. version' = version + 1 /\ version <= MaxEdits /\ UNCHANGED <<payload, build, page, told>>
      BY <2>1 DEF Edit
    <3>2. version \in 1 .. MaxEdits + 1
      BY <1>1 DEF VersionsFit, Edits
    <3>3. version' \in 1 .. MaxEdits + 1 /\ version \in Nat /\ version' >= version
      BY <1>1, <3>1, <3>2
    <3>4. VersionsFit'
      BY <1>1, <3>1, <3>3 DEF Edits, VersionsFit
    <3> QED
      BY <1>2, <2>1, <3>4 DEF Edit
  <2>2. CASE Fetch
    <3>3. ASSUME payload # 0 PROVE VersionsFit'
      <4>1. page' = payload /\ UNCHANGED <<payload, build, told, version>>
        BY <2>2, <3>3 DEF Fetch
      <4>2. version' \in Edits /\ version \in Nat
        BY <1>1, <4>1 DEF VersionsFit, Edits
      <4> QED
        BY <1>1, <4>1, <4>2 DEF VersionsFit
    <3>4. ASSUME payload = 0 PROVE VersionsFit'
      <4>1. build' = version /\ UNCHANGED <<payload, page, told, version>>
        BY <2>2, <3>4 DEF Fetch
      <4>2. version' \in Edits /\ version \in Nat
        BY <1>1, <4>1 DEF VersionsFit, Edits
      <4> QED
        BY <1>1, <4>1, <4>2 DEF VersionsFit
    <3>1. VersionsFit'
      BY <3>3, <3>4
    <3>2. Switches'
      BY <1>1, <2>2 DEF Fetch, Switches
    <3> QED
      BY <1>2, <2>2, <3>1, <3>2 DEF Fetch
  <2>3. CASE Built
    <3>1. VersionsFit'
      BY <1>1, <2>3 DEF Built, Edits, VersionsFit
    <3>2. Switches'
      BY <1>1, <2>3 DEF Built, Switches
    <3> QED
      BY <1>2, <2>3, <3>1, <3>2 DEF Built
  <2>4. CASE Expire
    <3>1. VersionsFit'
      BY <1>1, <2>4 DEF Expire, Edits, VersionsFit
    <3> QED
      BY <1>2, <2>4, <3>1 DEF Expire
  <2>5. CASE Reopen
    <3>1. Switches'
      BY <1>1, <2>5 DEF Reopen, Switches
    <3> QED
      BY <1>2, <2>5, <3>1 DEF Reopen
  <2>6. CASE Other \/ Cron
    <3>1. Publish(FALSE) /\ FALSE \in BOOLEAN /\ UNCHANGED <<heard, open>>
      BY <2>6 DEF Other, Cron
    <3>2. QueueFits'
      BY <1>3, <3>1
    <3> QED
      BY <1>2, <2>6, <3>2 DEF Other, Cron
  <2>7. CASE Refresh
    <3>1. Switches'
      BY <1>1, <2>7 DEF Refresh, Switches
    <3> QED
      BY <1>2, <2>7, <3>1 DEF Refresh
  <2>8. CASE Announce
    <3>1. Switches'
      BY <1>1, <2>8 DEF Announce, Switches
    <3>2. CASE board = "gone"
      BY <1>2, <2>8, <3>1, <3>2 DEF Announce
    <3>3. CASE board # "gone"
      <4>1. Publish(TRUE) /\ TRUE \in BOOLEAN /\ UNCHANGED <<heard, open>>
        BY <2>8, <3>3 DEF Announce
      <4>2. QueueFits'
        BY <1>3, <4>1
      <4>3. told' = version /\ UNCHANGED <<payload, build, page, version>>
        BY <2>8, <3>3 DEF Announce
      <4>4. VersionsFit'
        BY <1>1, <4>3 DEF VersionsFit, Edits
      <4> QED
        BY <3>1, <4>2, <4>4
    <3> QED
      BY <3>2, <3>3
  <2>9. CASE Connect
    <3>1. Switches'
      BY <1>1, <2>9 DEF Connect, Switches
    <3>2. heard' = published /\ open' /\ ~open /\ UNCHANGED <<published, queue>>
      BY <2>9 DEF Connect
    <3>3. QueueFits'
      BY <1>1, <3>2 DEF QueueFits, Events
    <3> QED
      BY <1>2, <2>9, <3>1, <3>3 DEF Connect
  <2>10. CASE Disconnect \/ Restart
    <3>1. Switches'
      BY <1>1, <2>10 DEF Disconnect, Restart, Switches
    <3>2. VersionsFit'
      BY <1>1, <2>10 DEF Disconnect, Restart, VersionsFit, Edits
    <3>3. queue' = <<>> /\ UNCHANGED <<published, heard>>
      BY <2>10 DEF Disconnect, Restart
    <3> DEFINE E == Events(published)
    <3>4. E = Events(published)
      OBVIOUS
    <3> HIDE DEF E
    <3>5. <<>> \in Seq(E) /\ Len(<<>>) = 0
      OBVIOUS
    <3>6. QueueFits'
      BY <1>1, <3>3, <3>4, <3>5 DEF QueueFits
    <3> QED
      BY <3>1, <3>2, <3>6
  <2>11. CASE Hear
    <3> DEFINE E == Events(published)
    <3>1. queue \in Seq(E) /\ queue # <<>> /\ open
      BY <1>1, <2>11 DEF Hear, QueueFits
    <3> HIDE DEF E
    <3>2. Head(queue) \in E /\ Tail(queue) \in Seq(E) /\ Len(Tail(queue)) = Len(queue) - 1 /\ Len(queue) \in Nat
      BY <3>1
    <3>3. Head(queue).no \in 1 .. published /\ Head(queue).ours \in BOOLEAN
      BY <3>2 DEF E, Events
    <3>4. queue' = Tail(queue) /\ heard' = Head(queue).no /\ due' = (due \/ Head(queue).ours)
          /\ UNCHANGED <<board, scheduled, job, open, refresh, published>>
      BY <2>11 DEF Hear
    <3>5. heard' \in 0 .. published
      BY <1>1, <3>3, <3>4 DEF QueueFits
    <3>6. QueueFits'
      BY <1>1, <3>1, <3>2, <3>4, <3>5 DEF QueueFits, E
    <3>7. Switches'
      BY <1>1, <3>3, <3>4 DEF Switches
    <3> QED
      BY <1>2, <2>11, <3>6, <3>7 DEF Hear
  <2>12. CASE Schedule
    <3>1. Switches'
      BY <1>1, <2>12 DEF Schedule, Switches
    <3> QED
      BY <1>2, <2>12, <3>1 DEF Schedule
  <2>13. CASE MoveToTrash \/ Recover \/ Purge
    <3>1. Switches'
      BY <1>1, <2>13 DEF MoveToTrash, Recover, Purge, Move, Switches
    <3> QED
      BY <1>2, <2>13, <3>1 DEF MoveToTrash, Recover, Purge, Move
  <2>14. CASE UNCHANGED boardsVars
    BY <1>2, <2>14 DEF boardsVars
  <2> QED
    BY <2>1, <2>2, <2>3, <2>4, <2>5, <2>6, <2>7, <2>8, <2>9, <2>10, <2>11, <2>12, <2>13, <2>14 DEF BoardsNext
<1> QED
  BY <1>4, BoardsParts, PTL

\* The page, the payload and what is being built are of versions there have been; the
\* queue of the owner's connection never holds more than its capacity, and only events
\* that were published.
THEOREM BoardTypeCorrect == BoardsInit /\ [][BoardsNext]_boardsVars => []BoardsTypeOK
<1>1. BoardsInit => BoardsTypeOK
  <2> SUFFICES ASSUME BoardsInit PROVE BoardsTypeOK
    OBVIOUS
  <2> DEFINE E == Events(0)
  <2>1. E = Events(published)
    BY DEF BoardsInit
  <2> HIDE DEF E
  <2>2. <<>> \in Seq(E) /\ Len(<<>>) = 0
    OBVIOUS
  <2>3. QueueFits
    BY <2>1, <2>2, BoardsAssumption DEF BoardsInit, QueueFits
  <2>4. VersionsFit
    BY BoardsAssumption DEF BoardsInit, VersionsFit, Edits
  <2>5. Switches
    BY DEF BoardsInit, Switches
  <2> QED
    BY <2>3, <2>4, <2>5, BoardsParts
<1>2. BoardsTypeOK /\ [BoardsNext]_boardsVars => BoardsTypeOK'
  BY BoardsTypesKeep
<1> QED
  BY <1>1, <1>2, PTL

-----------------------------------------------------------------------------
(***************************************************************************)
(* How many rows a use can have.                                           *)
(***************************************************************************)
\* The requests that found no row of the metric and are to insert one.
Adders(p, m) ==
    {s \in Requests : /\ request[s].op \in {"put", "add"} /\ request[s].at = "checked"
                      /\ request[s].place = p /\ m \in request[s].ins}
\* The rows there are and the rows that are to come are at most as many as the requests
\* that run at a time: who looks after a row is there adds none.
RowsBounded ==
    \A p \in Places, m \in UsedMetrics : usage[p][m] + Cardinality(Adders(p, m)) <= Cardinality(Requests)
RowsHaveMetrics == \A p \in Places, m \in UsedMetrics : usage[p][m] > 0 => m \in metrics
RowsInv == UsesInv /\ RowsBounded /\ RowsHaveMetrics

LEMMA AddersFinite ==
    ASSUME NEW A, A \subseteq Requests
    PROVE  /\ IsFiniteSet(A) /\ Cardinality(A) \in Nat /\ Cardinality(Requests) \in Nat
           /\ Cardinality(A) <= Cardinality(Requests)
<1>1. IsFiniteSet(Requests)
  BY UsesAssumption
<1>2. IsFiniteSet(A) /\ Cardinality(A) <= Cardinality(Requests)
  BY <1>1, FS_Subset
<1> QED
  BY <1>1, <1>2, FS_CardinalityType

LEMMA FewerAdders ==
    ASSUME NEW A, NEW B, A \subseteq Requests, B \subseteq A
    PROVE  Cardinality(B) <= Cardinality(A) /\ Cardinality(B) \in Nat /\ Cardinality(A) \in Nat
<1>1. IsFiniteSet(A)
  BY AddersFinite
<1>2. IsFiniteSet(B) /\ Cardinality(B) <= Cardinality(A)
  BY <1>1, FS_Subset
<1> QED
  BY <1>1, <1>2, FS_CardinalityType

\* Nobody comes to add, and no row comes.
LEMMA NoMoreRows ==
    ASSUME UsesInv, RowsBounded, RowsHaveMetrics, UsesInv',
           \A p \in Places, m \in UsedMetrics :
              /\ (Adders(p, m))' \subseteq Adders(p, m)
              /\ usage'[p][m] <= usage[p][m]
              /\ usage'[p][m] > 0 => m \in metrics'
    PROVE  (RowsBounded /\ RowsHaveMetrics)'
<1> SUFFICES ASSUME NEW p \in Places, NEW m \in UsedMetrics
             PROVE  usage'[p][m] + Cardinality((Adders(p, m))') <= Cardinality(Requests)
  BY DEF RowsBounded, RowsHaveMetrics
<1> DEFINE A == Adders(p, m)
           B == (Adders(p, m))'
<1>1. A \subseteq Requests /\ B \subseteq A
  BY DEF Adders
<1>2. usage[p][m] \in Nat /\ usage'[p][m] \in Nat /\ usage'[p][m] <= usage[p][m]
  BY DEF UsesInv, UsesTyped
<1>3. usage[p][m] + Cardinality(A) <= Cardinality(Requests)
  BY DEF RowsBounded
<1> HIDE DEF A, B
<1>4. Cardinality(B) <= Cardinality(A) /\ Cardinality(B) \in Nat /\ Cardinality(A) \in Nat /\ Cardinality(Requests) \in Nat
  BY <1>1, FewerAdders, AddersFinite
<1>5. usage'[p][m] + Cardinality(B) <= Cardinality(Requests)
  BY <1>2, <1>3, <1>4
<1> QED
  BY <1>5 DEF B

\* A request that is not about to add is no adder.
LEMMA OthersAdd ==
    ASSUME UsesInv, NEW s \in Requests, NEW rec, request' = [request EXCEPT ![s] = rec],
           ~(rec.op \in {"put", "add"} /\ rec.at = "checked"), NEW p, NEW m
    PROVE  (Adders(p, m))' = Adders(p, m) \ {s}
<1>1. request'[s] = rec /\ \A q \in Requests \ {s} : request'[q] = request[q]
  BY DEF UsesInv, UsesTyped
<1> QED
  BY <1>1 DEF Adders

LEMMA CheckBounds ==
    ASSUME UsesInv, RowsBounded, RowsHaveMetrics, UsesInv', NEW s \in Requests, Check(s)
    PROVE  (RowsBounded /\ RowsHaveMetrics)'
<1> DEFINE p0 == request[s].place
           target == request[s].target
           rec == [request[s] EXCEPT !.at = "checked", !.ins = Missing(p0, target),
                                     !.rows = Unlisted(request[s].read \ target)]
<1>1. UNCHANGED <<metrics, usage>>
  BY DEF Check
<1>2. RowsHaveMetrics'
  BY <1>1 DEF RowsHaveMetrics
<1>3. \A p \in Places, m \in UsedMetrics : usage[p][m] \in Nat
  BY DEF UsesInv, UsesTyped
<1>4. CASE request' = [request EXCEPT ![s] = NoRequest]
  <2>1. NoRequest.op = "none"
    BY DEF NoRequest
  <2>2. \A p, m : (Adders(p, m))' \subseteq Adders(p, m)
    <3>1. ASSUME NEW p, NEW m PROVE (Adders(p, m))' \subseteq Adders(p, m)
      BY <1>4, <2>1, OthersAdd DEF Adders
    <3> QED
      BY <3>1
  <2> QED
    BY <1>1, <1>3, <2>2, NoMoreRows DEF RowsHaveMetrics
<1>5. CASE request' = [request EXCEPT ![s] = rec]
  <2>1. request[s] \in Listing
    BY RequestKinds DEF Check, UsesInv
  <2>2. rec.place = p0 /\ rec.ins = Missing(p0, target)
    BY <2>1 DEF Listing
  <2>3. \A m \in rec.ins : usage[p0][m] = 0
    BY <2>2 DEF Missing
  <2> HIDE DEF rec, p0, target
  <2>4. request'[s] = rec /\ \A q \in Requests \ {s} : request'[q] = request[q]
    BY <1>5 DEF UsesInv, UsesTyped
  <2> SUFFICES ASSUME NEW p \in Places, NEW m \in UsedMetrics
               PROVE  usage'[p][m] + Cardinality((Adders(p, m))') <= Cardinality(Requests)
    BY <1>2 DEF RowsBounded
  <2> DEFINE A == Adders(p, m)
             B == (Adders(p, m))'
  <2>5. A \subseteq Requests /\ B \subseteq Requests
    BY DEF Adders
  <2>6. CASE p = p0 /\ m \in rec.ins
    <3>1. usage'[p][m] = 0
      BY <1>1, <2>3, <2>6
    <3> HIDE DEF B
    <3>2. Cardinality(B) <= Cardinality(Requests) /\ Cardinality(B) \in Nat
      BY <2>5, AddersFinite
    <3>3. usage'[p][m] + Cardinality(B) <= Cardinality(Requests)
      BY <3>1, <3>2
    <3> QED
      BY <3>3 DEF B
  <2>7. CASE ~(p = p0 /\ m \in rec.ins)
    <3>1. B \subseteq A
      BY <2>2, <2>4, <2>7 DEF Adders
    <3>2. usage'[p][m] = usage[p][m] /\ usage[p][m] + Cardinality(A) <= Cardinality(Requests)
          /\ usage[p][m] \in Nat
      BY <1>1, <1>3 DEF RowsBounded
    <3> HIDE DEF A, B
    <3>3. Cardinality(B) <= Cardinality(A) /\ Cardinality(B) \in Nat /\ Cardinality(A) \in Nat /\ Cardinality(Requests) \in Nat
      BY <2>5, <3>1, FewerAdders, AddersFinite
    <3>4. usage'[p][m] + Cardinality(B) <= Cardinality(Requests)
      BY <3>2, <3>3
    <3> QED
      BY <3>4 DEF B
  <2> QED
    BY <2>6, <2>7
<1> QED
  BY <1>4, <1>5 DEF Check

LEMMA CommitBounds ==
    ASSUME UsesInv, RowsBounded, RowsHaveMetrics, UsesInv', NEW s \in Requests, CommitRequest(s)
    PROVE  (RowsBounded /\ RowsHaveMetrics)'
<1> DEFINE r == request[s]
<1>1. /\ r \in Listing /\ r.op \in {"put", "add"} /\ r.at = "checked" /\ r.ins \subseteq metrics
      /\ UNCHANGED metrics /\ request' = [request EXCEPT ![s] = NoRequest]
  BY RequestKinds DEF CommitRequest, UsesInv
<1>2. usage' = [p \in Places |-> [m \in UsedMetrics |->
                  IF <<p, m>> \in r.rows THEN 0
                  ELSE usage[p][m] + (IF p = r.place /\ m \in r.ins THEN 1 ELSE 0)]]
  BY DEF CommitRequest
<1> SUFFICES ASSUME NEW p \in Places, NEW m \in UsedMetrics
             PROVE  /\ usage'[p][m] + Cardinality((Adders(p, m))') <= Cardinality(Requests)
                    /\ usage'[p][m] > 0 => m \in metrics'
  BY DEF RowsBounded, RowsHaveMetrics
<1> DEFINE A == Adders(p, m)
           B == (Adders(p, m))'
           u == usage[p][m]
           v == usage'[p][m]
<1>3. v = IF <<p, m>> \in r.rows THEN 0 ELSE u + (IF p = r.place /\ m \in r.ins THEN 1 ELSE 0)
  BY <1>2
<1>4. u \in Nat /\ u + Cardinality(A) <= Cardinality(Requests) /\ (u > 0 => m \in metrics)
  BY DEF UsesInv, UsesTyped, RowsBounded, RowsHaveMetrics
<1>5. NoRequest.op = "none"
  BY DEF NoRequest
<1>6. B = A \ {s}
  BY <1>1, <1>5, OthersAdd
<1>7. A \subseteq Requests /\ (p = r.place /\ m \in r.ins => s \in A)
  BY <1>1 DEF Adders
<1> HIDE DEF A, B, r, u, v
<1>8. IsFiniteSet(A) /\ Cardinality(A) \in Nat /\ Cardinality(Requests) \in Nat
      /\ Cardinality(B) <= Cardinality(A) /\ Cardinality(B) \in Nat
  BY <1>6, <1>7, AddersFinite, FewerAdders
<1>9. s \in A => Cardinality(B) = Cardinality(A) - 1
  BY <1>6, <1>8, FS_RemoveElement
<1>10. v + Cardinality(B) <= Cardinality(Requests)
  BY <1>3, <1>4, <1>7, <1>8, <1>9
<1>11. v > 0 => m \in metrics
  BY <1>1, <1>3, <1>4
<1> QED
  BY <1>1, <1>10, <1>11 DEF B, v

LEMMA RowsStep == ASSUME RowsInv, [UsesNext]_usesVars PROVE RowsInv'
<1>1. UsesInv /\ RowsBounded /\ RowsHaveMetrics /\ UsesInv'
  <2>1. ASSUME UsesInv, NEW s \in Requests, Abort(s) \/ Changed(s) PROVE UsesInv'
    BY <2>1, OverKeeps DEF Abort, Changed
  <2> QED
    BY <2>1, PutKeeps, AddKeeps, ChangeKeeps, SaveKeeps, CheckKeeps, CommitKeeps, WriteKeeps,
       DeletionKeeps, BoardsKeep DEF UsesNext, RowsInv
<1>2. \A p \in Places, m \in UsedMetrics : usage[p][m] \in Nat
  BY <1>1 DEF UsesInv, UsesTyped
<1>3. ASSUME NEW s \in Requests, NEW rec, request' = [request EXCEPT ![s] = rec],
             ~(rec.op \in {"put", "add"} /\ rec.at = "checked"), UNCHANGED <<metrics, usage>>
      PROVE  (RowsBounded /\ RowsHaveMetrics)'
  <2>1. \A p, m : (Adders(p, m))' \subseteq Adders(p, m)
    <3>1. ASSUME NEW p, NEW m PROVE (Adders(p, m))' \subseteq Adders(p, m)
      BY <1>1, <1>3, OthersAdd DEF Adders
    <3> QED
      BY <3>1
  <2> QED
    BY <1>1, <1>2, <1>3, <2>1, NoMoreRows DEF RowsHaveMetrics
<1>4. ASSUME UNCHANGED <<metrics, usage, request>> PROVE (RowsBounded /\ RowsHaveMetrics)'
  BY <1>1, <1>4 DEF RowsBounded, RowsHaveMetrics, Adders
<1>5. ASSUME NEW s \in Requests, NEW c \in Canvases, NEW target \in SUBSET UsedMetrics, NEW touched \in BOOLEAN,
             Put(s, c, target, touched)
      PROVE  (RowsBounded /\ RowsHaveMetrics)'
  <2> DEFINE rec == [op |-> "put", place |-> c, at |-> "loaded", read |-> blocks[c],
                     target |-> target, locks |-> touched, ins |-> {}, rows |-> {}]
  <2>1. request' = [request EXCEPT ![s] = rec] /\ UNCHANGED <<metrics, usage>> /\ rec.at = "loaded"
    BY <1>5 DEF Put, Start
  <2> QED
    BY <1>3, <2>1
<1>6. ASSUME NEW s \in Requests, NEW b \in Boards, NEW m \in UsedMetrics, AddChart(s, b, m)
      PROVE  (RowsBounded /\ RowsHaveMetrics)'
  <2> DEFINE rec == [op |-> "add", place |-> b, at |-> "saved", read |-> {}, target |-> {m},
                     locks |-> FALSE, ins |-> {}, rows |-> {}]
  <2>1. request' = [request EXCEPT ![s] = rec] /\ UNCHANGED <<metrics, usage>> /\ rec.at = "saved"
    BY <1>6 DEF AddChart, Start
  <2> QED
    BY <1>3, <2>1
<1>7. ASSUME NEW s \in Requests, NEW m \in UsedMetrics, Change(s, m) PROVE (RowsBounded /\ RowsHaveMetrics)'
  <2> DEFINE rec == [op |-> "change", place |-> m, at |-> "checked"]
  <2>1. request' = [request EXCEPT ![s] = rec] /\ UNCHANGED <<metrics, usage>> /\ rec.op = "change"
    BY <1>7 DEF Change
  <2> QED
    BY <1>3, <2>1
<1>8. ASSUME NEW s \in Requests, Save(s) PROVE (RowsBounded /\ RowsHaveMetrics)'
  <2> DEFINE rec == [request[s] EXCEPT !.at = "saved"]
  <2>1. request[s] \in Listing
    BY <1>1, <1>8, RequestKinds DEF Save, UsesInv
  <2>2. request' = [request EXCEPT ![s] = rec] /\ UNCHANGED <<metrics, usage>> /\ rec.at = "saved"
    BY <1>8, <2>1 DEF Save, Goes, Listing
  <2> HIDE DEF rec
  <2> QED
    BY <1>3, <2>2
<1>9. ASSUME NEW s \in Requests, Abort(s) \/ Changed(s) PROVE (RowsBounded /\ RowsHaveMetrics)'
  <2>1. request' = [request EXCEPT ![s] = NoRequest] /\ UNCHANGED <<metrics, usage>> /\ NoRequest.op = "none"
    BY <1>9 DEF Abort, Changed, NoRequest
  <2> QED
    BY <1>3, <2>1
<1>10. ASSUME NEW s \in Requests, Check(s) PROVE (RowsBounded /\ RowsHaveMetrics)'
  BY <1>1, <1>10, CheckBounds
<1>11. ASSUME NEW s \in Requests, CommitRequest(s) PROVE (RowsBounded /\ RowsHaveMetrics)'
  BY <1>1, <1>11, CommitBounds
<1>12. ASSUME NEW n \in UsedMetrics, DeleteMetric(n) PROVE (RowsBounded /\ RowsHaveMetrics)'
  <2>1. \A p, m : (Adders(p, m))' = Adders(p, m)
    BY <1>12 DEF DeleteMetric, Adders
  <2>2. \A p \in Places, m \in UsedMetrics : usage'[p][m] = IF m = n THEN 0 ELSE usage[p][m]
    BY <1>1, <1>12 DEF DeleteMetric, UsesInv, UsesTyped
  <2>3. \A p \in Places, m \in UsedMetrics : usage'[p][m] <= usage[p][m] /\ (usage'[p][m] > 0 => m \in metrics')
    BY <1>1, <1>2, <1>12, <2>2 DEF DeleteMetric, RowsHaveMetrics
  <2> QED
    BY <1>1, <2>1, <2>3, NoMoreRows
<1>13. ASSUME \/ UNCHANGED usesVars \/ \E b \in Boards : Notify(b)
              \/ \E b \in Boards, m \in UsedMetrics : Pin(b, m)
              \/ \E c \in Canvases, m \in UsedMetrics : Write(c, m)
       PROVE  (RowsBounded /\ RowsHaveMetrics)'
  <2>1. UNCHANGED <<metrics, usage, request>>
    BY <1>13 DEF usesVars, Notify, Pin, Write
  <2> QED
    BY <1>4, <2>1
<1>14. (RowsBounded /\ RowsHaveMetrics)'
  BY <1>5, <1>6, <1>7, <1>8, <1>9, <1>10, <1>11, <1>12, <1>13 DEF UsesNext
<1> QED
  BY <1>1, <1>14 DEF RowsInv

LEMMA RowsInitially == UsesInit => RowsInv
<1> SUFFICES ASSUME UsesInit PROVE RowsInv
  OBVIOUS
<1>1. \A p \in Places, m \in UsedMetrics : usage[p][m] = 0
  BY DEF UsesInit
<1>2. \A p, m : Adders(p, m) \subseteq Requests
  BY DEF Adders
<1>3. \A p, m : Cardinality(Adders(p, m)) \in Nat /\ Cardinality(Requests) \in Nat
                /\ Cardinality(Adders(p, m)) <= Cardinality(Requests)
  BY <1>2, AddersFinite
<1>4. RowsBounded
  BY <1>1, <1>3 DEF RowsBounded
<1>5. RowsHaveMetrics
  BY <1>1 DEF RowsHaveMetrics
<1> QED
  BY <1>4, <1>5, UsesInitially DEF RowsInv

LEMMA RowsTyped == ASSUME RowsInv PROVE UsesTypeOK
<1>1. UsesTyped /\ RowsHaveMetrics
  BY DEF RowsInv, UsesInv
<1>2. ASSUME NEW p \in Places, NEW m \in UsedMetrics PROVE usage[p][m] \in 0 .. Cardinality(Requests)
  <2>1. Adders(p, m) \subseteq Requests
    BY DEF Adders
  <2>2. Cardinality(Adders(p, m)) \in Nat /\ Cardinality(Requests) \in Nat
    BY <2>1, AddersFinite
  <2>3. usage[p][m] \in Nat /\ usage[p][m] + Cardinality(Adders(p, m)) <= Cardinality(Requests)
    BY <1>1 DEF UsesTyped, RowsInv, RowsBounded
  <2> QED
    BY <2>2, <2>3
<1>3. usage \in [Places -> [UsedMetrics -> 0 .. Cardinality(Requests)]]
  BY <1>1, <1>2 DEF UsesTyped
<1>4. \A s \in Requests : request[s] = NoRequest \/ request[s].at \in {"loaded", "saved", "checked"}
  BY <1>1 DEF UsesTyped, Alters, Listing
<1> QED
  BY <1>1, <1>3, <1>4 DEF UsesTyped, RowsHaveMetrics, UsesTypeOK

\* A use has no more rows than requests run at a time, and none when the metric is gone.
THEOREM UsesTypeCorrect == UsesInit /\ [][UsesNext]_usesVars => []UsesTypeOK
<1>1. RowsInv /\ [UsesNext]_usesVars => RowsInv'
  BY RowsStep
<1>2. RowsInv => UsesTypeOK
  BY RowsTyped
<1> QED
  BY <1>1, <1>2, RowsInitially, PTL

-----------------------------------------------------------------------------
\* Each part of the suite runs as its module says while the others rest: what the rows
\* and the answers keep to holds of the suite that is checked.
THEOREM RowsAreKept == Spec => RowsKept
<1>1. Init => UsesInit /\ CacheInit /\ MetricsInit
  BY DEF Init
<1>2. [Next]_vars => [UsesNext]_usesVars /\ [CacheNext]_cacheVars /\ [MetricsNext]_metricsVars
  BY DEF Next, vars
<1>3. UsesInv /\ ClearedHere /\ HistoryWhole /\ WalkIsReach => RowsWhole
  BY DEF UsesInv, RowsWhole
<1> QED
  BY <1>1, <1>2, <1>3, UsesInvariant, NothingFromBefore, VersionsAreWhole, VersionsStand,
     WalkFindsAll, DashboardsStayListed, PTL DEF Spec, CacheSpec, MetricsSpec, RowsKept

\* What is proved of the layout holds of the suite that is checked.
THEOREM LayoutStaysSound == Spec => []LayoutHolds
<1>1. Init => LayoutInit
  BY DEF Init
<1>2. [Next]_vars => [LayoutNext]_layoutVars
  BY DEF Next, vars
<1>3. LayoutSound => LayoutHolds
  BY DEF LayoutHolds
<1> QED
  BY <1>1, <1>2, <1>3, LayoutIsSound, PTL DEF Spec, LayoutSpec

\* No part of the suite leaves its types, the bounds of its counters included.
THEOREM TypeCorrect == Spec => []TypeOK
<1>1. Init => CacheInit /\ MetricsInit /\ UsesInit /\ BoardsInit /\ LayoutInit
  BY DEF Init
<1>2. [Next]_vars => /\ [CacheNext]_cacheVars /\ [MetricsNext]_metricsVars /\ [UsesNext]_usesVars
                     /\ [BoardsNext]_boardsVars /\ [LayoutNext]_layoutVars
  BY DEF Next, vars
<1>3. CacheTypeOK /\ MetricsTypeOK /\ UsesTypeOK /\ BoardsTypeOK /\ LayoutTypeOK => TypeOK
  BY DEF TypeOK
<1> QED
  BY <1>1, <1>2, <1>3, CacheTypeCorrect, MetricsTypeCorrect, UsesTypeCorrect, BoardTypeCorrect,
     LayoutTypeCorrect, PTL DEF Spec, CacheSpec, MetricsSpec, LayoutSpec
=============================================================================
