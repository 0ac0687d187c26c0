-------------------------------- MODULE Metrics --------------------------------
(***************************************************************************)
(* The metrics of one user: definitions, the versions published of them    *)
(* and the dependencies read out of their formulas.  A formula is the set  *)
(* of keys it refers to.  Every operation is a transaction that reads the  *)
(* row first and writes at its end the columns it changed.  Then who uses  *)
(* a metric.                                                               *)
(***************************************************************************)
EXTENDS Naturals, FiniteSets

CONSTANTS
    Ids, Keys,     \* of the metrics; an id is never used twice
    NoMetric,      \* no row
    NoDeps,        \* depends_on_metric_ids is null
    MaxVersion,    \* bound: versions of a metric
    MaxTxns,       \* bound: transactions in all
    Txns           \* transactions at a time

Formulas == SUBSET Keys
Deps == (SUBSET Ids) \cup {NoDeps}
Rows == [key : Keys, refs : Formulas, deps : Deps, version : 1 .. MaxVersion]
Snapshots == [refs : Formulas, deps : SUBSET Ids]
Numbers == 2 .. MaxVersion   \* the row starts at version 1, of which none is kept

ASSUME MetricsAssumption ==
    /\ MaxVersion \in Nat \ {0, 1} /\ MaxTxns \in Nat /\ NoMetric \notin Rows \cup Snapshots
    /\ IsFiniteSet(Ids)

VARIABLES
    row,       \* metric_definitions, by id
    used,      \* ids that were given
    versions,  \* metric_versions: versions[m][n]
    txn,       \* what each transaction read and is to write
    begun

metricsVars == <<row, used, versions, txn, begun>>

NoTxn == [op |-> "none"]
Exists(m) == row[m] # NoMetric
SetOf(deps) == IF deps = NoDeps THEN {} ELSE deps

MetricsTypeOK ==
    /\ row \in [Ids -> Rows \cup {NoMetric}] /\ used \subseteq Ids
    /\ versions \in [Ids -> [Numbers -> Snapshots \cup {NoMetric}]]
    /\ begun \in 0 .. MaxTxns
    /\ \A t \in Txns : txn[t] = NoTxn \/ txn[t].op = "create" \/ txn[t].read \in Rows
    /\ \A m \in Ids : Exists(m) => m \in used
    /\ \A m, n \in Ids : Exists(m) /\ Exists(n) /\ row[m].key = row[n].key => m = n

MetricsInit ==
    /\ row = [m \in Ids |-> NoMetric] /\ used = {} /\ begun = 0
    /\ versions = [m \in Ids |-> [n \in Numbers |-> NoMetric]]
    /\ txn = [t \in Txns |-> NoTxn]

-----------------------------------------------------------------------------
\* _infer_metric_meta: the metrics of the user that have the keys now.
Inferred(refs) == {m \in Ids : Exists(m) /\ row[m].key \in refs}
OrNull(ids) == IF ids = {} THEN NoDeps ELSE ids

Begin(t, rec) ==
    /\ txn[t] = NoTxn /\ begun < MaxTxns
    /\ txn' = [txn EXCEPT ![t] = rec] /\ begun' = begun + 1
    /\ UNCHANGED <<row, used, versions>>

\* create_metric: the key must be free when it looks.
BeginCreate(t, m, key, refs) ==
    /\ m \notin used /\ \A s \in Txns : txn[s] # NoTxn => txn[s].metric # m
    /\ \A n \in Ids : Exists(n) => row[n].key # key
    /\ Begin(t, [op |-> "create", metric |-> m,
                 new |-> [key |-> key, refs |-> refs, deps |-> OrNull(Inferred(refs)), version |-> 1]])

\* update_metric: the type and the dependencies follow a changed formula.
BeginUpdate(t, m, refs) ==
    /\ Exists(m) /\ refs # row[m].refs
    /\ Begin(t, [op |-> "update", metric |-> m, read |-> row[m],
                 new |-> [row[m] EXCEPT !.refs = refs, !.deps = OrNull(Inferred(refs))]])

\* publish_version: a snapshot of the row as it was read.
BeginPublish(t, m) ==
    /\ Exists(m) /\ row[m].version < MaxVersion
    /\ Begin(t, [op |-> "publish", metric |-> m, read |-> row[m],
                 new |-> [row[m] EXCEPT !.version = @ + 1],
                 snapshot |-> [refs |-> row[m].refs, deps |-> SetOf(row[m].deps)]])

\* rollback_to: the snapshot becomes the row and the newest version.
BeginRollback(t, m, n) ==
    /\ Exists(m) /\ versions[m][n] # NoMetric /\ row[m].version < MaxVersion
    /\ Begin(t, [op |-> "rollback", metric |-> m, read |-> row[m],
                 new |-> [row[m] EXCEPT !.refs = versions[m][n].refs, !.deps = versions[m][n].deps,
                                        !.version = @ + 1],
                 snapshot |-> versions[m][n]])

-----------------------------------------------------------------------------
\* The end of a transaction.  Only the columns that differ from what was read are
\* written, over whatever others wrote since.
Merged(read, new, now) ==
    [c \in DOMAIN new |-> IF new[c] = read[c] THEN now[c] ELSE new[c]]

Numbering == {"publish", "rollback"}
\* The unique constraints on (key, user) and (metric, version), and a row that is
\* gone: the transaction fails and is rolled back.
\* Mutation: the versions have no constraint.
Fits_unnumbered(t) ==
    /\ txn[t].op = "create" => \A n \in Ids : Exists(n) => row[n].key # txn[t].new.key
    /\ txn[t].op # "create" => Exists(txn[t].metric)
\* Mutation: the keys have none.
Fits_shared(t) ==
    /\ txn[t].op # "create" => Exists(txn[t].metric)
    /\ txn[t].op \in Numbering => versions[txn[t].metric][txn[t].new.version] = NoMetric
Fits(t) ==
    /\ txn[t].op = "create" => \A n \in Ids : Exists(n) => row[n].key # txn[t].new.key
    /\ txn[t].op # "create" => Exists(txn[t].metric)
    /\ txn[t].op \in Numbering => versions[txn[t].metric][txn[t].new.version] = NoMetric

\* Mutation: a rollback leaves no version of its own.
Numbered_published(t) == txn[t].op = "publish"
Numbered(t) == txn[t].op \in Numbering

Commit(t) ==
    LET m == txn[t].metric
        new == txn[t].new
    IN  /\ txn[t] # NoTxn /\ Fits(t)
        /\ row' = [row EXCEPT ![m] = IF txn[t].op = "create" THEN new
                                     ELSE Merged(txn[t].read, new, row[m])]
        /\ used' = used \cup {m}
        /\ versions' = IF Numbered(t) THEN [versions EXCEPT ![m][new.version] = txn[t].snapshot]
                       ELSE versions
        /\ txn' = [txn EXCEPT ![t] = NoTxn] /\ UNCHANGED begun

Rollback(t) ==
    /\ txn[t] # NoTxn
    /\ txn' = [txn EXCEPT ![t] = NoTxn] /\ UNCHANGED <<row, used, versions, begun>>

\* delete_metric: the versions go with the row; the ids that other rows hold stay.
Delete(m) ==
    /\ Exists(m) /\ row' = [row EXCEPT ![m] = NoMetric]
    /\ versions' = [versions EXCEPT ![m] = [n \in Numbers |-> NoMetric]]
    /\ UNCHANGED <<used, txn, begun>>

MetricsNext ==
    \/ \E t \in Txns :
          \/ \E m \in Ids :
                \/ \E key \in Keys, refs \in Formulas : BeginCreate(t, m, key, refs)
                \/ \E refs \in Formulas : BeginUpdate(t, m, refs)
                \/ BeginPublish(t, m)
                \/ \E n \in Numbers : BeginRollback(t, m, n)
          \/ Commit(t) \/ Rollback(t)
    \/ \E m \in Ids : Delete(m)

MetricsSpec == MetricsInit /\ [][MetricsNext]_metricsVars

-----------------------------------------------------------------------------
\* resolve_dependencies: breadth first, with a set of the ids seen.  Walk(root)[n] is
\* the loop after n rounds; an id enters the queue once, the first one perhaps again.
Children(m) == IF Exists(m) THEN SetOf(row[m].deps) ELSE {}
\* Mutation: what was seen is not followed, the first level included.
Fresh_none(children, seen) == {}
Fresh(children, seen) == children \ seen
Followed(s) ==
    IF s.queue = {} THEN s
    ELSE LET m == CHOOSE q \in s.queue : TRUE
         IN  [queue |-> (s.queue \ {m}) \cup Fresh(Children(m), s.seen),
              seen |-> s.seen \cup Children(m)]
Walk(root) ==
    LET loop[n \in 0 .. Cardinality(Ids) + 1] ==
            IF n = 0 THEN [queue |-> {root}, seen |-> {}] ELSE Followed(loop[n - 1])
    IN  loop
Resolve(root) == Walk(root)[Cardinality(Ids) + 1]

\* What a chain of dependencies leads to: what is in every set that has the direct
\* ones and, with a metric, its own.
Closed(ids) == \A k \in ids : Children(k) \subseteq ids
Reached(root) ==
    {m \in Ids : \A ids \in SUBSET Ids : Children(root) \subseteq ids /\ Closed(ids) => m \in ids}

\* The walk ends, on cycles too, and finds exactly the metrics that a chain of
\* dependencies leads to, those that were deleted among them.
WalkIsReach ==
    \A m \in Ids : Resolve(m).queue = {} /\ Resolve(m).seen = Reached(m)

\* However publishing, rolling back and updating overlap, the versions of a metric
\* are numbered without a gap or a repetition up to the one its row names.
HistoryWhole ==
    \A m \in Ids : Exists(m) =>
        \A n \in Numbers : versions[m][n] # NoMetric <=> n <= row[m].version

\* A version stays as it was published while the metric lives.
HistoryStands ==
    [][\A m \in Ids, n \in Numbers :
         versions[m][n] # NoMetric /\ Exists(m)' => versions'[m][n] = versions[m][n]]_metricsVars

\* What the docstring of resolve_dependencies takes for granted: the dependencies
\* are acyclic.  An update may close a cycle, see the README.
DependenciesAreADag == \A m \in Ids : m \notin Resolve(m).seen

\* What the column's comment says of version: it grows with every change of the
\* definition.  An update leaves it.
ChangesAreNumbered ==
    [][\A m \in Ids : Exists(m) /\ Exists(m)' /\ row'[m].refs # row[m].refs
                      => row'[m].version > row[m].version]_metricsVars

-----------------------------------------------------------------------------
(***************************************************************************)
(* Who uses a metric: the blocks of canvases and the charts of dashboards, *)
(* the rows of metric_usage kept of them, and what a change of a metric    *)
(* tells the dashboards.  Requests are transactions that overlap; a row a  *)
(* transaction wrote is locked until it ends.                              *)
(***************************************************************************)

CONSTANTS
    UsedMetrics, Canvases, Boards,
    Requests,      \* requests at a time
    MaxRequests    \* bound: requests in all

ASSUME UsesAssumption ==
    MaxRequests \in Nat /\ Canvases \cap Boards = {} /\ IsFiniteSet(Requests)

Places == Canvases \cup Boards

VARIABLES
    metrics,   \* metrics that exist
    blocks,    \* blocks[c]: metrics of the committed blocks of a canvas
    charts,    \* charts[b]: metrics of the charts of a dashboard
    usage,     \* usage[p][m]: rows that are not soft-deleted
    request,   \* what each request does
    made,
    tasks,     \* _BACKGROUND_TASKS: dashboards to refresh
    owed,      \* ghost: dashboards that a committed change has still to reach
    excused    \* ghost: excused[c]: metrics the assistant wrote, or another canvas unlisted

usesVars == <<metrics, blocks, charts, usage, request, made, tasks, owed, excused>>

NoRequest == [op |-> "none"]
\* A user has one row for a metric, and no more than the requests that looked for
\* it at a time; none when the metric is gone.
UsesTypeOK ==
    /\ metrics \subseteq UsedMetrics /\ tasks \subseteq Boards /\ owed \subseteq Boards
    /\ blocks \in [Canvases -> SUBSET UsedMetrics] /\ charts \in [Boards -> SUBSET UsedMetrics]
    /\ usage \in [Places -> [UsedMetrics -> 0 .. Cardinality(Requests)]] /\ made \in 0 .. MaxRequests
    /\ excused \in [Canvases -> SUBSET UsedMetrics]
    /\ \A s \in Requests : request[s] = NoRequest \/ request[s].at \in {"loaded", "saved", "checked"}
    /\ \A p \in Places, m \in UsedMetrics : usage[p][m] > 0 => m \in metrics

UsesInit ==
    /\ metrics = UsedMetrics /\ blocks = [c \in Canvases |-> {}] /\ charts = [b \in Boards |-> {}]
    /\ usage = [p \in Places |-> [m \in UsedMetrics |-> 0]]
    /\ request = [s \in Requests |-> NoRequest] /\ made = 0
    /\ tasks = {} /\ owed = {} /\ excused = [c \in Canvases |-> {}]

-----------------------------------------------------------------------------
\* A request begins with what it reads.
Start(s, rec) ==
    /\ request[s] = NoRequest /\ made < MaxRequests
    /\ request' = [request EXCEPT ![s] = rec] /\ made' = made + 1
    /\ UNCHANGED <<metrics, blocks, charts, usage, tasks, owed, excused>>
Goes(s, at) ==
    /\ request' = [request EXCEPT ![s].at = at]
    /\ UNCHANGED <<metrics, blocks, charts, usage, made, tasks, owed, excused>>

\* PUT /canvases/{id}/blocks: the row is updated, and locked, when the blocks are not those that
\* were read.
Put(s, c, target, touched) ==
    /\ target # blocks[c] => touched
    /\ Start(s, [op |-> "put", place |-> c, at |-> "loaded", read |-> blocks[c],
                 target |-> target, locks |-> touched, ins |-> {}, rows |-> {}])
\* Mutation: the row is not waited for.
Locked_never(c) == FALSE
Locked(c) == \E s \in Requests : request[s].op = "put" /\ request[s].place = c
                                 /\ request[s].locks /\ request[s].at # "loaded"
Save(s) ==
    /\ request[s].op = "put" /\ request[s].at = "loaded"
    /\ request[s].locks => ~Locked(request[s].place)
    /\ Goes(s, "saved")

\* POST /dashboards/{id}/charts; POST /canvases/{id}/pin-to-dashboard does without
\* the usage.
AddChart(s, b, m) ==
    Start(s, [op |-> "add", place |-> b, at |-> "saved", read |-> {}, target |-> {m},
              locks |-> FALSE, ins |-> {}, rows |-> {}])
Pin(b, m) ==
    /\ charts' = [charts EXCEPT ![b] = @ \cup {m}]
    /\ UNCHANGED <<metrics, blocks, usage, request, made, tasks, owed, excused>>

\* record_metric_usage, for each metric: one row is enough, two are an error, none
\* is an insert, which fails if there is no such metric.
\* Mutation: the rows are not looked for.
Missing_all(p, target) == target
Missing(p, target) == {m \in target : usage[p][m] = 0}
Recordable(p, target) ==
    Missing(p, target) \subseteq metrics /\ \A m \in target : usage[p][m] <= 1
\* The rows of the metrics that left the blocks: a call without a reference
\* soft-deletes those of every canvas.
\* Mutation: of every place.
Unlisted_all(dropped) == {use \in Places \X dropped : usage[use[1]][use[2]] > 0}
Unlisted(dropped) == {use \in Canvases \X dropped : usage[use[1]][use[2]] > 0}
Check(s) ==
    LET p == request[s].place
        target == request[s].target
    IN  /\ request[s].op \in {"put", "add"} /\ request[s].at = "saved"
        /\ request' = [request EXCEPT ![s] =
                         IF Recordable(p, target)
                         THEN [@ EXCEPT !.at = "checked", !.ins = Missing(p, target),
                                        !.rows = Unlisted(request[s].read \ target)]
                         ELSE NoRequest]
        /\ UNCHANGED <<metrics, blocks, charts, usage, made, tasks, owed, excused>>

CommitRequest(s) ==
    LET r == request[s]
        unlisted == {use[2] : use \in r.rows}
    IN  /\ r.op \in {"put", "add"} /\ r.at = "checked" /\ r.ins \subseteq metrics
        /\ usage' = [p \in Places |-> [m \in UsedMetrics |->
                       IF <<p, m>> \in r.rows THEN 0
                       ELSE usage[p][m] + (IF p = r.place /\ m \in r.ins THEN 1 ELSE 0)]]
        /\ blocks' = IF r.op = "put" /\ r.locks THEN [blocks EXCEPT ![r.place] = r.target] ELSE blocks
        /\ charts' = IF r.op = "add" THEN [charts EXCEPT ![r.place] = @ \cup r.target] ELSE charts
        /\ excused' = [c \in Canvases |-> (excused[c] \cup (IF c = r.place THEN {} ELSE unlisted))
                                          \ (IF c = r.place THEN r.ins ELSE {})]
        /\ request' = [request EXCEPT ![s] = NoRequest]
        /\ UNCHANGED <<metrics, made, tasks, owed>>

\* A foreign key, a disconnect or a server error: nothing of it remains.
Abort(s) ==
    /\ request[s] # NoRequest /\ request' = [request EXCEPT ![s] = NoRequest]
    /\ UNCHANGED <<metrics, blocks, charts, usage, made, tasks, owed, excused>>

\* CanvasBlockWriter: the assistant adds or removes a chart, without the usage.
Write(c, m) ==
    /\ ~Locked(c)
    /\ blocks' = [blocks EXCEPT ![c] = IF m \in @ THEN @ \ {m} ELSE @ \cup {m}]
    /\ excused' = [excused EXCEPT ![c] = @ \cup {m}]
    /\ UNCHANGED <<metrics, charts, usage, request, made, tasks, owed>>

-----------------------------------------------------------------------------
\* update_metric, publish, rollback: _trigger_dependent_dashboards starts a task for
\* every dashboard with a row, before the request commits.
\* Mutation: a dashboard that two overlapping requests listed twice is left out.
Dependent_single(m) == {b \in Boards : usage[b][m] = 1}
Dependent(m) == {b \in Boards : usage[b][m] > 0}
Change(s, m) ==
    /\ request[s] = NoRequest /\ made < MaxRequests /\ m \in metrics
    /\ request' = [request EXCEPT ![s] = [op |-> "change", place |-> m, at |-> "checked"]]
    /\ made' = made + 1 /\ tasks' = tasks \cup Dependent(m)
    /\ owed' = owed \cup {b \in Boards : m \in charts[b] /\ usage[b][m] > 0}
    /\ UNCHANGED <<metrics, blocks, charts, usage, excused>>
Changed(s) ==
    /\ request[s].op = "change" /\ request' = [request EXCEPT ![s] = NoRequest]
    /\ UNCHANGED <<metrics, blocks, charts, usage, made, tasks, owed, excused>>

\* refresh_dashboard_and_notify: the refresh, and the event to the owner's pages.
Notify(b) ==
    /\ b \in tasks /\ tasks' = tasks \ {b} /\ owed' = owed \ {b}
    /\ UNCHANGED <<metrics, blocks, charts, usage, request, made, excused>>

\* delete_metric: the rows go by cascade; blocks and charts keep the id.
DeleteMetric(m) ==
    /\ m \in metrics /\ metrics' = metrics \ {m}
    /\ usage' = [p \in Places |-> [usage[p] EXCEPT ![m] = 0]]
    /\ UNCHANGED <<blocks, charts, request, made, tasks, owed, excused>>

UsesNext ==
    \/ \E s \in Requests :
          \/ \E c \in Canvases, target \in SUBSET UsedMetrics, touched \in BOOLEAN :
                Put(s, c, target, touched)
          \/ \E b \in Boards, m \in UsedMetrics : AddChart(s, b, m)
          \/ \E m \in UsedMetrics : Change(s, m)
          \/ Save(s) \/ Check(s) \/ CommitRequest(s) \/ Abort(s) \/ Changed(s)
    \/ \E b \in Boards : Notify(b) \/ \E m \in UsedMetrics : Pin(b, m)
    \/ \E m \in UsedMetrics : DeleteMetric(m) \/ \E c \in Canvases : Write(c, m)
UsesFair == \A b \in Boards : WF_usesVars(Notify(b))
UsesSpec == UsesInit /\ [][UsesNext]_usesVars /\ UsesFair

-----------------------------------------------------------------------------
\* Whatever requests overlap, a canvas that a request saved with a metric is listed
\* as its user, unless another canvas unlisted it since: the usage is looked up only
\* after the row of the canvas is locked.
SavedIsListed ==
    \A c \in Canvases : \A m \in (blocks[c] \cap metrics) \ excused[c] : usage[c][m] > 0

\* A dashboard that listed a metric stays listed, whatever canvases do, until the
\* metric is deleted.
BoardsStayListed ==
    [][\A b \in Boards, m \in UsedMetrics :
         usage[b][m] > 0 => usage'[b][m] > 0 \/ m \notin metrics']_usesVars

\* A dashboard that shows a metric and is listed hears of every change of it.
ListedIsTold == \A b \in Boards : b \in owed ~> b \notin owed

\* What the model says of deleted_at: it is set when the user of the metric unbinds
\* it.  It is also set when another canvas does, see the README.
OthersStayListed ==
    [][\A c \in Canvases, m \in UsedMetrics :
         usage[c][m] > 0 /\ m \in blocks[c] /\ m \in blocks'[c] =>
             usage'[c][m] > 0 \/ m \notin metrics']_usesVars

=============================================================================
