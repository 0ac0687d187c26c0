------------------------------- MODULE ChartDesk -------------------------------
(***************************************************************************)
(* The charts of the canvas page: each has a configuration and shows a     *)
(* result (pages/FreeCanvas, stores/crossFilterStore.ts).  A value clicked *)
(* on one chart cuts all of them; applying the panel, a cut, taking it     *)
(* back, a forced refresh and another data source are asynchronous, and    *)
(* each goes on from the configurations it saw when it began.  Then the    *)
(* chart that is made of a table.                                          *)
(***************************************************************************)
EXTENDS Integers, Sequences, SequencesExt, FiniteSets, FiniteSetsExt

CONSTANTS
    Charts,
    Fields,      \* what a chart may ask for
    Cuts,        \* <<dimension, value>>
    Jobs,        \* what is under way at a time
    MaxBegun     \* bound: clicks, applications, refreshes and changes of source

NoCut == <<"none", 0>>
NotThere == [fields |-> "absent", cuts |-> {}]
ToChoose == [fields |-> "blank", cuts |-> {}]  \* the fields have to be chosen again
NoJob == [at |-> "idle", scope |-> {}, alone |-> {}]

ASSUME DeskAssumption == NoCut \notin Cuts /\ Fields \cap {"absent", "blank"} = {}

VARIABLES
    configs,     \* chartConfigs
    results,     \* chartResults: the configuration a result is of
    cut,         \* the store's filter
    lastSig,     \* lastCrossFilterSigRef
    lastCleared, \* lastClearedSigRef
    jobs,        \* what is under way
    begun,       \* how many of them there were
    off,         \* ghost: charts two of them worked on, or one failed for
    fresh,       \* ghost: charts configured beside the clicks, or that two worked on
    stuck        \* ghost: a cut was left behind

deskVars == <<configs, results, cut, lastSig, lastCleared, jobs, begun, off, fresh, stuck>>

DeskInit ==
    /\ configs = [b \in Charts |-> NotThere] /\ results = configs
    /\ cut = NoCut /\ lastSig = NoCut /\ lastCleared = NoCut
    /\ jobs = [k \in Jobs |-> NoJob] /\ begun = 0 /\ off = {} /\ fresh = {} /\ stuck = FALSE

Configured == {b \in Charts : configs[b] # NotThere}

-----------------------------------------------------------------------------
(* What is under way: on which charts, and on which alone. *)

Meeting(k, job, now) ==
    [i \in Jobs |->
        IF i = k THEN [job EXCEPT !.alone = {b \in job.scope : \A h \in Jobs \ {k} : b \notin now[h].scope}]
        ELSE [now[i] EXCEPT !.alone = @ \ job.scope]]
SetOut(k, job, beside) ==
    LET met == {b \in job.scope : \E i \in Jobs : b \in jobs[i].scope}
    IN /\ jobs[k].at = "idle" /\ jobs' = Meeting(k, job, jobs)
       /\ begun < MaxBegun /\ begun' = begun + 1
       /\ off' = off \cup met /\ fresh' = beside \cup met
Goes(k, job) == jobs' = [jobs EXCEPT ![k] = job] /\ UNCHANGED begun
Ended(k) == Goes(k, NoJob)
Right(k, charts) == off' = off \ (charts \cap jobs[k].alone)

-----------------------------------------------------------------------------
(* A click on a value: the effect loops over the charts, sets the configuration of  *)
(* each and waits for its result. *)

Loop(cutting, c) ==
    [at |-> "loop", scope |-> Configured, alone |-> {}, cutting |-> cutting, cut |-> c,
     seen |-> configs, asking |-> {}]

Only(c) == {b \in Configured : \A d \in configs[b].cuts : d[1] = c[1]}

Click(k, c) ==
    /\ c # cut /\ cut' = c /\ lastSig' = c /\ Configured # {}
    /\ SetOut(k, Loop(TRUE, c), fresh \ Only(c))
    /\ stuck' = (stuck \/ (cut # NoCut /\ cut[1] # c[1]))
    /\ UNCHANGED <<configs, results, lastCleared>>

\* The same value again, or the chip.  A value that was the last to be taken back is
\* not taken back again.
TakeBack(k) ==
    /\ cut # NoCut /\ cut' = NoCut /\ lastSig' = NoCut /\ lastCleared' = lastSig
    /\ IF lastSig = lastCleared
       THEN stuck' = TRUE /\ UNCHANGED <<jobs, begun, off, fresh>>
       ELSE /\ IF Configured = {} THEN UNCHANGED <<jobs, begun, off, fresh>>
               ELSE SetOut(k, Loop(FALSE, lastSig), fresh \ Only(lastSig))
            /\ UNCHANGED stuck
    /\ UNCHANGED <<configs, results>>

WithCut_beside(config, c) == [config EXCEPT !.cuts = @ \cup {c}]
WithCut(config, c) == [config EXCEPT !.cuts = {d \in @ : d[1] # c[1]} \cup {c}]
WithoutCut(config, c) == [config EXCEPT !.cuts = {d \in @ : d[1] # c[1]}]
Wanted(j, b) == IF j.cutting THEN WithCut(j.seen[b], j.cut) ELSE WithoutCut(j.seen[b], j.cut)

\* A chart the cut was not on is not asked for again when it is taken back.
Configure(k, b) ==
    LET j == jobs[k]
        rest == j.scope \ {b}
    IN /\ j.at = "loop" /\ j.asking = {} /\ b \in j.scope
       /\ configs' = [configs EXCEPT ![b] = Wanted(j, b)]
       /\ IF j.cutting \/ \E d \in j.seen[b].cuts : d[1] = j.cut[1]
          THEN Goes(k, [j EXCEPT !.asking = {b}])
          ELSE IF rest = {} THEN Ended(k) ELSE Goes(k, [j EXCEPT !.scope = rest])
       /\ UNCHANGED <<results, cut, lastSig, lastCleared, off, fresh, stuck>>

\* What cannot be asked for, or fails, leaves the result that was there.
LoopAnswer(k, b, well) ==
    LET j == jobs[k]
        rest == j.scope \ {b}
    IN /\ j.at = "loop" /\ b \in j.asking /\ (well => j.seen[b].fields # "blank")
       /\ results' = IF well THEN [results EXCEPT ![b] = Wanted(j, b)] ELSE results
       /\ IF rest = {} THEN Ended(k) ELSE Goes(k, [j EXCEPT !.scope = rest, !.asking = {}])
       /\ IF well THEN Right(k, {b}) ELSE off' = IF results[b] = NotThere THEN off ELSE off \cup {b}
       /\ UNCHANGED <<configs, cut, lastSig, lastCleared, fresh, stuck>>

-----------------------------------------------------------------------------
(* The panel. *)

\* The panel follows the chart that is selected, its cuts included.
Apply(k, b, f) ==
    /\ SetOut(k, [at |-> "apply", scope |-> {b}, alone |-> {}, chart |-> b,
                 config |-> [fields |-> f, cuts |-> configs[b].cuts]], fresh)
    /\ UNCHANGED <<configs, results, cut, lastSig, lastCleared, stuck>>
ApplyAnswer_result(k) ==
    LET j == jobs[k] IN
    /\ j.at = "apply" /\ Ended(k) /\ Right(k, j.scope)
    /\ results' = [results EXCEPT ![j.chart] = j.config]
    /\ configs' = IF configs[j.chart] = NotThere THEN [configs EXCEPT ![j.chart] = j.config] ELSE configs
    /\ fresh' = IF configs[j.chart] = NotThere THEN fresh \cup {j.chart} ELSE fresh
    /\ UNCHANGED <<cut, lastSig, lastCleared, stuck>>
ApplyAnswer(k) ==
    LET j == jobs[k] IN
    /\ j.at = "apply" /\ Ended(k) /\ Right(k, j.scope)
    /\ results' = [results EXCEPT ![j.chart] = j.config]
    /\ configs' = [configs EXCEPT ![j.chart] = j.config]
    /\ fresh' = IF configs[j.chart] = NotThere THEN fresh \cup {j.chart} ELSE fresh
    /\ UNCHANGED <<cut, lastSig, lastCleared, stuck>>

\* A chart put down by hand asks for nothing yet.
AddChartByHand(b, f) ==
    /\ configs[b] = NotThere /\ \A k \in Jobs : b \notin jobs[k].scope
    /\ configs' = [configs EXCEPT ![b] = [fields |-> f, cuts |-> {}]] /\ fresh' = fresh \cup {b}
    /\ UNCHANGED <<results, cut, lastSig, lastCleared, jobs, begun, off, stuck>>

\* An application, or a change of source, that fails changes nothing here.
JobFails(k) ==
    /\ jobs[k].at \in {"apply", "switch"} /\ Ended(k)
    /\ UNCHANGED <<configs, results, cut, lastSig, lastCleared, off, fresh, stuck>>

-----------------------------------------------------------------------------
(* All charts at once. *)

\* handleForceRefresh takes the cut back and asks for what still has it.  It may find no
\* chart in the older list it closed over, and do nothing.
Refreshing == [at |-> "refresh", scope |-> Configured, alone |-> {}, seen |-> configs]
Refresh(k) ==
    /\ Configured # {} /\ \A i \in Jobs : jobs[i].at # "refresh"
    /\ cut = NoCut /\ SetOut(k, Refreshing, fresh)
    /\ UNCHANGED <<configs, results, cut, lastSig, lastCleared, stuck>>
RefreshCut(k, i) ==
    /\ Configured # {} /\ \A h \in Jobs : jobs[h].at # "refresh"
    /\ cut # NoCut /\ i # k /\ jobs[k].at = "idle" /\ jobs[i].at = "idle"
    /\ cut' = NoCut /\ lastSig' = NoCut /\ lastCleared' = lastSig
    /\ IF lastSig = lastCleared
       THEN stuck' = TRUE /\ SetOut(k, Refreshing, fresh)
       ELSE /\ begun < MaxBegun /\ begun' = begun + 1 /\ jobs' = Meeting(i, Loop(FALSE, lastSig), Meeting(k, Refreshing, jobs))
            /\ off' = off \cup Configured /\ fresh' = fresh \cup Configured /\ UNCHANGED stuck
    /\ UNCHANGED <<configs, results>>
RefreshAnswer(k, failed) ==
    LET j == jobs[k]
        told == {b \in j.scope \ failed : j.seen[b].fields # "blank"}
    IN /\ j.at = "refresh" /\ Ended(k) /\ Right(k, told)
       /\ results' = [b \in Charts |-> IF b \in told THEN j.seen[b] ELSE results[b]]
       /\ UNCHANGED <<configs, cut, lastSig, lastCleared, fresh, stuck>>

\* handleSelectDatasource keeps the charts and has their fields chosen again; a chart
\* that came while the server was asked loses its configuration.  The chip stays.
Switch(k) ==
    /\ SetOut(k, [at |-> "switch", scope |-> Charts, alone |-> {}, seen |-> configs], fresh)
    /\ UNCHANGED <<configs, results, cut, lastSig, lastCleared, stuck>>
Remapped_shows(seen) ==
    /\ configs' = [b \in Charts |-> IF seen[b] = NotThere THEN NotThere ELSE ToChoose]
    /\ UNCHANGED results
Remapped(seen) ==
    /\ configs' = [b \in Charts |-> IF seen[b] = NotThere THEN NotThere ELSE ToChoose]
    /\ results' = [b \in Charts |-> NotThere]
SwitchAnswer(k) ==
    /\ jobs[k].at = "switch" /\ Ended(k) /\ Right(k, Charts) /\ Remapped(jobs[k].seen)
    /\ fresh' = Charts /\ UNCHANGED <<cut, lastSig, lastCleared, stuck>>

DeskNext ==
    \E k \in Jobs :
        \/ \E c \in Cuts : Click(k, c)
        \/ TakeBack(k) \/ ApplyAnswer(k) \/ JobFails(k) \/ Refresh(k) \/ Switch(k) \/ SwitchAnswer(k)
        \/ \E b \in Charts : Configure(k, b) \/ \E well \in BOOLEAN : LoopAnswer(k, b, well)
        \/ \E b \in Charts, f \in Fields : Apply(k, b, f) \/ AddChartByHand(b, f)
        \/ \E i \in Jobs : RefreshCut(k, i)
        \/ \E failed \in SUBSET Charts : RefreshAnswer(k, failed)

DeskSpec == DeskInit /\ [][DeskNext]_deskVars

-----------------------------------------------------------------------------
(* Properties. *)

Configurations == [fields : Fields \cup {"absent", "blank"}, cuts : SUBSET Cuts]
DeskTypeOK ==
    /\ configs \in [Charts -> Configurations] /\ results \in [Charts -> Configurations]
    /\ {cut, lastSig, lastCleared} \subseteq Cuts \cup {NoCut}
    /\ \A k \in Jobs : jobs[k].at \in {"idle", "loop", "apply", "refresh", "switch"}
                       /\ jobs[k].alone \subseteq Charts
    /\ off \subseteq Charts /\ fresh \subseteq Charts /\ stuck \in BOOLEAN

\* When nothing is under way a chart shows the result of its configuration or none,
\* unless two things were done to it at once or the last failed.
ResultsTold ==
    (\A k \in Jobs : jobs[k].at = "idle") =>
        \A b \in Charts \ off : results[b] \in {NotThere, configs[b]}

\* And the charts are cut by the value the chip names, and by no other, unless a cut was
\* left behind: another dimension was clicked without taking the last back, or a value
\* was taken back twice.
CutsTold ==
    (\A k \in Jobs : jobs[k].at = "idle") /\ ~stuck =>
        \A b \in Configured \ (off \cup fresh) : configs[b].cuts = {cut} \ {NoCut}

DeskSound == ResultsTold /\ CutsTold

-----------------------------------------------------------------------------
(***************************************************************************)
(* The chart that render_chart makes of a table (services/agent_tools.py): *)
(* the table is checked, turned into the categories and series of a chart  *)
(* of the wanted type, and the chart is checked.  The page builds its own  *)
(* charts of several measures (echarts/echartsUtils.ts), and they are to   *)
(* be the same.  And what stats_analyzer says of a column of numbers.      *)
(***************************************************************************)

CONSTANTS
    Headings,    \* the columns' names, the label's first
    Labels,      \* what stands in the first column
    Amounts,     \* what stands in the others
    Missing,     \* an amount that is None
    MaxRows,     \* bound
    Checked,     \* the rows whose width is looked at: the code looks at 10
    MaxNumbers   \* bound

ASSUME OptionAssumption == {MaxRows, Checked, MaxNumbers} \subseteq Nat /\ Missing \in Int

VARIABLES
    table,       \* the type that is wanted, the columns and the rows
    numbers      \* a column, for its statistics

optionVars == <<table, numbers>>

\* Upright are bars, lines and areas, grouped are grouped and stacked bars, pie stands
\* for the ring, too.
ChartKinds == {"upright", "grouped", "lying", "pie", "funnel", "kpi", "scatter", "radar", "heatmap", "sankey"}

OptionInit ==
    /\ table \in [type : ChartKinds \cup {"unknown"}, columns : Headings, rows : {<<>>}]
    /\ numbers = <<>>

\* A row has a label, and perhaps fewer or more amounts than there are columns for.
AddRow(label, amounts) ==
    /\ numbers = <<>> /\ Len(table.rows) < MaxRows
    /\ table' = [table EXCEPT !.rows = Append(@, [label |-> label, amounts |-> amounts])]
    /\ UNCHANGED numbers
AddNumber(v) ==
    /\ table.rows = <<>> /\ table.type = "unknown" /\ table.columns = <<>>
    /\ Len(numbers) < MaxNumbers /\ numbers' = Append(numbers, v) /\ UNCHANGED table

-----------------------------------------------------------------------------
(* The checks. *)

Rows == DOMAIN table.rows
Measures == 1 .. Len(table.columns) - 1
Has(i, m) == m <= Len(table.rows[i].amounts)
Fits(i) == Len(table.rows[i].amounts) = Len(table.columns) - 1

\* What is missing, of no known type or does not fit is answered with what to mend.
TableValid ==
    /\ table.columns # <<>> /\ table.rows # <<>> /\ table.type \in ChartKinds
    /\ \A i \in Rows : i <= Checked => Fits(i)

-----------------------------------------------------------------------------
(* Several measures: what stays below the largest goes by the right axis. *)

Label == [i \in Rows |-> table.rows[i].label]
Safe(v) == IF v = Missing THEN 0 ELSE v
\* columns.index finds the first column of a name.
Place(m) == Min({q \in 1 .. Len(table.columns) : table.columns[q] = table.columns[m + 1]}) - 1
Told(i, m) == IF m > 0 /\ Has(i, m) THEN Safe(table.rows[i].amounts[m]) ELSE 0
Column(m) == [i \in Rows |-> Told(i, m)]
Largest(m) == Max({Told(i, m) : i \in Rows})
RightAxis_many(m) == Largest(m) > 0 /\ \E q \in Measures : Largest(q) >= Largest(m) /\ q # m
RightAxis(m) == Largest(m) > 0 /\ \E q \in Measures : Largest(q) > Largest(m)

\* The labels of lying bars are turned round, and the bars are not.
BuildMultiMeasure ==
    [categories |-> IF table.type = "lying" THEN Reverse(Label) ELSE Label,
     series |-> [m \in Measures |-> [of |-> m, values |-> Column(Place(m)), right |-> RightAxis(Place(m))]]]

\* The page's rows are records: of two columns of a name the last stays.
PagePlace(m) == Max({q \in 1 .. Len(table.columns) : table.columns[q] = table.columns[m + 1]}) - 1
PageLargest(m) == FoldSeq(LAMBDA v, most : IF v > most THEN v ELSE most, 0, Column(PagePlace(m)))
PageOption ==
    [categories |-> IF table.type = "lying" THEN Reverse(Label) ELSE Label,
     series |-> [m \in Measures |->
        [of |-> m, values |-> Column(PagePlace(m)),
         right |-> PageLargest(m) > 0 /\ PageLargest(m) < Max({PageLargest(q) : q \in Measures})]]]

-----------------------------------------------------------------------------
(* The other charts show one measure, a heat map two columns. *)

Shown(rows, measures) ==
    [categories |-> [n \in DOMAIN rows |-> table.rows[rows[n]].label],
     series |-> [m \in 1 .. measures |->
        [of |-> m, right |-> FALSE,
         values |-> [n \in DOMAIN rows |-> IF Has(rows[n], m) THEN table.rows[rows[n]].amounts[m] ELSE 0]]]]

Every == [i \in Rows |-> i]
Wide(n) == SelectSeq(Every, LAMBDA i : Has(i, n))
Falling(rows) == SortSeq(rows, LAMBDA i, h : table.rows[i].amounts[1] > table.rows[h].amounts[1])
Lying_labels == [Shown(Every, 1) EXCEPT !.categories = Reverse(@)]
Lying == Shown(Reverse(Every), 1)

Several == table.type \in {"upright", "grouped", "lying"} /\ Len(table.columns) >= 3
Option ==
    CASE Several                      -> BuildMultiMeasure
      [] table.type = "lying" /\ ~Several -> Lying
      [] table.type = "grouped" /\ ~Several -> Shown(Every, Len(table.columns) - 1)
      [] table.type \in {"upright", "pie", "radar"} /\ ~Several -> Shown(Every, 1)
      [] table.type = "funnel"        -> Shown(Falling(Wide(1)), 1)
      [] table.type = "scatter"       -> Shown(Wide(1), 1)
      [] table.type = "heatmap"       -> Shown(Wide(2), 2)
      [] table.type = "kpi"           -> Shown(<<1>>, 1)
      [] table.type = "sankey"        -> Shown(<<>>, 0)

\* What Python cannot compare or index ends the call.
Nones(i) == \E m \in 1 .. Len(table.rows[i].amounts) : table.rows[i].amounts[m] = Missing
NoneAmong(m) == Cardinality({i \in Rows : Has(i, m)}) > 1 /\ \E i \in Rows : Has(i, m) /\ table.rows[i].amounts[m] = Missing
Raises ==
    \/ table.type = "pie" /\ \E i \in Rows : ~Has(i, 1)
    \/ table.type = "radar" /\ \E i \in Rows : Nones(i)
    \/ table.type = "funnel" /\ NoneAmong(1)
    \/ table.type = "heatmap" /\ NoneAmong(2)

\* A type that no chart is made of, or a chart without a series, is not accepted.
Accepted == TableValid /\ ~Raises /\ Option.series # <<>>

-----------------------------------------------------------------------------
(* The statistics of a column, in quarters. *)

Ascending(s) == SortSeq(s, LAMBDA v, w : v < w)
Quantile_floor(s, k) == 4 * s[((Len(s) - 1) * k) \div 4 + 1]
Quantile(s, k) ==
    LET at == (Len(s) - 1) * k
        low == at \div 4 + 1
        high == Min({low + 1, Len(s)})
    IN 4 * s[low] + (s[high] - s[low]) * (at % 4)
Quartile(s, k) == Quantile(Ascending(s), k)
\* What lies more than one and a half spreads of the middle half beside it.
Outliers(s) ==
    LET spread == Quartile(s, 3) - Quartile(s, 1)
    IN {i \in DOMAIN s : \/ 8 * s[i] < 2 * Quartile(s, 1) - 3 * spread
                         \/ 8 * s[i] > 2 * Quartile(s, 3) + 3 * spread}

OptionNext ==
    \/ \E label \in Labels, n \in 0 .. MaxRows : \E amounts \in [1 .. n -> Amounts] : AddRow(label, amounts)
    \/ \E v \in Amounts : AddNumber(v)

OptionSpec == OptionInit /\ [][OptionNext]_optionVars

-----------------------------------------------------------------------------
(* Properties. *)

OptionTypeOK == Len(table.rows) <= MaxRows /\ Len(numbers) <= MaxNumbers

Unlike == \A m, q \in DOMAIN table.columns : table.columns[m] = table.columns[q] => m = q

\* Heat maps and the like leave out what has no value.
Needed == IF table.type = "heatmap" THEN 2 ELSE IF table.type \in {"funnel", "scatter"} THEN 1 ELSE 0

\* A chart that is accepted has, for every row as wide as the table, a place with the
\* row's label and amounts; several measures are all there.  Lying bars of several
\* measures are not meant, nor columns that share a name.
ShowsTable ==
    Accepted /\ ~(Several /\ (table.type = "lying" \/ ~Unlike)) =>
        /\ Several => {Option.series[n].of : n \in DOMAIN Option.series} = Measures
        /\ \A i \in Rows :
             Fits(i) /\ (table.type = "kpi" => i = 1) /\ Has(i, Needed) =>
                \E p \in DOMAIN Option.categories :
                    /\ Option.categories[p] = table.rows[i].label
                    /\ \A n \in DOMAIN Option.series :
                         LET s == Option.series[n]
                         IN s.of \in Measures =>
                                s.values[p] = IF Several THEN Told(i, s.of) ELSE table.rows[i].amounts[s.of]

\* The server's chart of several measures is the page's, the axes included.
LikePage == Accepted /\ Several /\ Unlike => BuildMultiMeasure = PageOption

\* The quartile in the middle is the middle number or half way between the two, the
\* others are each other's in the mirror, and no number of the middle half is an outlier.
QuartilesTrue ==
    LET s == Ascending(numbers)
        n == Len(s)
        Mirrored == [i \in 1 .. n |-> -s[n + 1 - i]]
    IN n > 0 =>
        /\ Quantile(s, 2) = 2 * (s[(n + 1) \div 2] + s[n \div 2 + 1])
        /\ Quantile(s, 3) = -Quantile(Mirrored, 1)
        /\ 2 * Cardinality(Outliers(numbers)) <= n

OptionSound == ShowsTable /\ LikePage /\ QuartilesTrue

=============================================================================
