------------------------------- MODULE QueryBuild -------------------------------
(***************************************************************************)
(* The statement that the query engine makes of a chart's configuration    *)
(* (services/query_engine.py): the fields are looked up in the source's    *)
(* columns, then SELECT, WHERE, GROUP BY and ORDER BY are built from the   *)
(* same lists, each by a function of its own, and have to agree.  A name   *)
(* is the same in capitals; an output column is the pair of what it is     *)
(* made of.  Then what the words of time in a filter come to.              *)
(***************************************************************************)
EXTENDS Integers, Sequences, SequencesExt, FiniteSets, FiniteSetsExt

CONSTANTS
    NumberColumns, TextColumns,  \* the source's columns of numbers and of text
    DayColumns,  \* those that look like dates
    Preferred,   \* the column that is taken of several dates
    TimeWords,   \* month, daily and the like, asked for as if they were columns
    Foreign,     \* names the source does not have
    MaxParts,    \* bound on the parts a configuration has
    DefaultLimit, TopLimitOfTool, \* 50 and 1000
    Limits       \* those that are asked for

ASSUME BuildAssumption ==
    /\ {MaxParts, DefaultLimit, TopLimitOfTool} \subseteq Nat /\ Limits \subseteq Int
    /\ DefaultLimit \in 1 .. TopLimitOfTool

VARIABLE ask     \* the configuration that is put together

buildVars == <<ask>>

Columns == NumberColumns \cup TextColumns \cup DayColumns
AskedFields == Columns \cup TimeWords \cup Foreign
Bare(c) == <<"column", c>>
Trunc(c) == <<"trunc", c>>

\* A measure names a field and an aggregation, or is a metric's expression with its alias.
Aggregations == {"sum", "count"}
PlainMeasures ==
    [field : (Columns \ DayColumns) \cup Foreign, agg : Aggregations \cup {"odd"}, metric : {FALSE}]
MetricMeasures == [field : {"none"}, agg : {"none"}, metric : {TRUE}]
\* A filter's value is nothing, one value, a list of one or of two, or a list of nothing.
FilterShapes == {"empty", "one", "list", "pair", "blanks"}
AskedFilters == [field : NumberColumns \cup Foreign, op : {"eq", "between", "in", "odd"}, value : FilterShapes]
\* A sort names a column or word, the alias of a bucket, of a measure or of a metric.
SortNames == {Bare(f) : f \in AskedFields} \cup {Trunc(c) : c \in DayColumns}
             \cup ({"sum"} \X NumberColumns) \cup {<<"metric", "alias">>, <<"blank", "blank">>}
AskedSorts == [field : SortNames, order : {"asc", "desc"}]
NoSort == [field |-> <<"none", "none">>, order |-> "none"]

EmptyAsk == [dims |-> <<>>, measures |-> <<>>, filters |-> <<>>, buckets |-> {}, sort |-> NoSort, limit |-> 0]
BuildInit == ask = EmptyAsk
Parts == Len(ask.dims) + Len(ask.measures) + Len(ask.filters) + Cardinality(ask.buckets)
         + (IF ask.sort = NoSort THEN 0 ELSE 1)
MoreParts == Parts < MaxParts /\ ask.limit = 0 /\ ask.sort = NoSort
AddDimension(f) ==
    MoreParts /\ ask.measures = <<>> /\ ask.filters = <<>> /\ ask' = [ask EXCEPT !.dims = Append(@, f)]
AddMeasure(m) == MoreParts /\ ask.filters = <<>> /\ ask' = [ask EXCEPT !.measures = Append(@, m)]
AddFilter(f) == MoreParts /\ ask' = [ask EXCEPT !.filters = Append(@, f)]
AddBucket(f) == MoreParts /\ f \notin ask.buckets /\ ask' = [ask EXCEPT !.buckets = @ \cup {f}]
SortBy(s) == MoreParts /\ ask' = [ask EXCEPT !.sort = s]
LimitTo(n) == MoreParts /\ ask' = [ask EXCEPT !.limit = n]
BuildNext ==
    \/ \E f \in AskedFields : AddDimension(f) \/ AddBucket(f)
    \/ \E m \in PlainMeasures \cup MetricMeasures : AddMeasure(m)
    \/ \E f \in AskedFilters : AddFilter(f)
    \/ \E s \in AskedSorts : SortBy(s)
    \/ \E n \in Limits : LimitTo(n)
BuildSpec == BuildInit /\ [][BuildNext]_buildVars

-----------------------------------------------------------------------------
(* Looking the names up.  A word of time stands for the date of the source. *)

MainDate == IF Cardinality(DayColumns) = 1 THEN DayColumns ELSE DayColumns \cap {Preferred}
Dimension(f) == IF f \in TimeWords THEN MainDate ELSE {f} \cap Columns
Dims == [i \in DOMAIN ask.dims |-> CHOOSE c \in Dimension(ask.dims[i]) : TRUE]

Plain(m) == ~m.metric
\* Only what the source has is known to be a number.
MeasureFits(m) ==
    Plain(m) => m.field \in Columns /\ m.agg \in Aggregations /\ (m.agg = "sum" => m.field \in NumberColumns)
Counts(f) == f.value \notin {"empty", "blanks"}
FilterFits(f) ==
    Counts(f) => /\ f.field \in Columns /\ f.op # "odd"
                 /\ f.op = "between" => f.value = "pair"
                 /\ f.op = "in" => f.value \in {"list", "pair"}
Valid ==
    /\ \A i \in DOMAIN ask.dims : Dimension(ask.dims[i]) # {}
    /\ \A i \in DOMAIN ask.measures : MeasureFits(ask.measures[i])
    /\ \A i \in DOMAIN ask.filters : FilterFits(ask.filters[i])

-----------------------------------------------------------------------------
(* The clauses.  A bucket is known by the name of the column it cuts. *)

Bucketed(c) == c \in ask.buckets
Alias(m) == IF Plain(m) THEN <<m.agg, m.field>> ELSE <<"metric", "alias">>
DimensionItem(c) == IF Bucketed(c) THEN Trunc(c) ELSE Bare(c)

Grouped == [i \in DOMAIN Dims |-> DimensionItem(Dims[i])]
Aggregated == [i \in DOMAIN ask.measures |-> Alias(ask.measures[i])]
BuildSelect == Grouped \o Aggregated
\* The names of the result: a measure goes by its field, not by its alias.
ResultColumns ==
    Grouped \o [i \in DOMAIN ask.measures |->
        IF Plain(ask.measures[i]) THEN Bare(ask.measures[i].field) ELSE Alias(ask.measures[i])]
\* Mutation: grouped by the column that is cut.
BuildGroupBy_uncut == [i \in DOMAIN Dims |-> Bare(Dims[i])]
BuildGroupBy == Grouped

\* Nothing counts or there is nothing: the first leaves WHERE alone, and the engine's own
\* guard refuses the statement.
Conditions == SelectSeq(ask.filters, Counts)
HolesOf(f) == IF f.op = "between" \/ (f.op = "in" /\ f.value = "pair") THEN 2 ELSE 1
ParamsOf(f) == IF f.op \in {"between", "in"} /\ f.value = "pair" THEN 2 ELSE 1
BuildWhere == [holes |-> FoldSeq(LAMBDA f, n : n + HolesOf(f), 0, Conditions),
               params |-> FoldSeq(LAMBDA f, n : n + ParamsOf(f), 0, Conditions),
               torn |-> ask.filters # <<>> /\ Conditions = <<>>]

\* A sort's field is a dimension, a measure's field or its alias; else the sort is left out,
\* also when it names a bucket.
SortedDimensions == {i \in DOMAIN Dims : ask.sort.field = Bare(Dims[i])}
\* Mutation: only a field is looked for.
SortsMeasure_field(m) == Plain(m) /\ ask.sort.field = Bare(m.field)
SortsMeasure(m) == ask.sort.field = Alias(m) \/ (Plain(m) /\ ask.sort.field = Bare(m.field))
SortedMeasures == {i \in DOMAIN ask.measures : SortsMeasure(ask.measures[i])}
SortedItem ==
    CASE ask.sort.field[1] = "blank"  -> {ask.sort.field}
      [] SortedDimensions # {}        -> {Grouped[Min(SortedDimensions)]}
      [] SortedDimensions = {} /\ SortedMeasures # {} -> {Aggregated[Min(SortedMeasures)]}
      [] OTHER                        -> {}
NormalizeSort == {<<item, ask.sort.order>> : item \in SortedItem}
BuildOrderBy ==
    IF NormalizeSort # {} THEN NormalizeSort
    ELSE {<<Aggregated[i], "desc">> : i \in DOMAIN Aggregated \cap {1}}

\* The tool's limit: none is the default.
ToolLimit(n) ==
    LET l == IF n = 0 THEN DefaultLimit ELSE n
        most == IF l > TopLimitOfTool THEN TopLimitOfTool ELSE l
    IN  IF most < 1 THEN 1 ELSE most

\* The statement is parsed before it runs.
Parses == BuildSelect # <<>> /\ ~BuildWhere.torn
Executes == Valid /\ Parses
\* A row is a record of the result's names: of two columns of a name the last stays.
RowOf == [c \in Range(ResultColumns) |-> Max({i \in DOMAIN ResultColumns : ResultColumns[i] = c})]

-----------------------------------------------------------------------------
BuildTypeOK ==
    /\ ask.dims \in Seq(AskedFields) /\ ask.measures \in Seq(PlainMeasures \cup MetricMeasures)
    /\ ask.filters \in Seq(AskedFilters) /\ ask.buckets \in SUBSET AskedFields
    /\ ask.sort \in AskedSorts \cup {NoSort} /\ ask.limit \in Limits \cup {0}
    /\ Parts <= MaxParts

\* What the four builders make of one configuration agrees: the rows are ordered by
\* something that is selected, and by what is asked for if that is selected; what is
\* selected and not aggregated is grouped by; every hole of WHERE has its parameter; the row
\* shows every measure unless two are of one field or a measure is of a dimension; and the
\* limit is within its bounds.
BuildSound ==
    Valid =>
      /\ \A o \in BuildOrderBy : o[1][1] = "blank" \/ o[1] \in Range(BuildSelect)
      /\ \A c \in Range(BuildSelect) : c[1] \in {"column", "trunc"} <=> c \in Range(BuildGroupBy)
      /\ BuildWhere.holes = BuildWhere.params
      /\ Len(ResultColumns) = Len(BuildSelect)
      /\ (\A i, j \in DOMAIN ask.measures : i # j => ask.measures[i].field # ask.measures[j].field)
         /\ (\A i \in DOMAIN ask.measures : ask.measures[i].field \notin Range(Dims))
         => \A i \in DOMAIN ask.measures : \E c \in DOMAIN RowOf : RowOf[c] = Len(Dims) + i
      /\ ask.sort.field \in Range(BuildSelect) /\ ask.sort.field[1] # "trunc" =>
           BuildOrderBy = {<<ask.sort.field, ask.sort.order>>}
      /\ ToolLimit(ask.limit) \in 1 .. TopLimitOfTool

-----------------------------------------------------------------------------
(***************************************************************************)
(* What a filter's words of time come to (services/relative_time.py):      *)
(* now() - interval 3 month, the last 3 months, this month, last year.     *)
(* They become a window of days, and the filter's operator takes its start,*)
(* its end or both.  A day is its number, as are months, years and weeks.  *)
(***************************************************************************)

CONSTANTS
    MonthDays,   \* how many days the months of a year have
    WeekDays,
    MaxMonths,   \* bound: the calendar has that many months
    Amount       \* the numbers that are said, in halves: 3 is one and a half

ASSUME RelativeAssumption ==
    /\ MonthDays \in Seq(Nat \ {0}) /\ MonthDays # <<>>
    /\ WeekDays \in Nat \ {0} /\ MaxMonths \in Nat /\ Amount \subseteq Nat

VARIABLES
    clockDay,    \* today
    phrase       \* what the filter says, and its operator

relativeVars == <<clockDay, phrase>>

-----------------------------------------------------------------------------
(* The calendar, which is the library's. *)

LengthOf(m) == MonthDays[(m % Len(MonthDays)) + 1]
FirstOf[m \in 0 .. MaxMonths] == IF m = 0 THEN 0 ELSE FirstOf[m - 1] + LengthOf(m - 1)
MonthOf(d) == Max({m \in 0 .. MaxMonths - 1 : FirstOf[m] <= d})
YearOf(d) == MonthOf(d) \div Len(MonthDays)
WeekOf(d) == d \div WeekDays
Calendar == 0 .. FirstOf[MaxMonths] - 1

\* relativedelta stays in the month it reaches.
AddMonths(d, n) ==
    LET m == MonthOf(d) + n
        of == d - FirstOf[MonthOf(d)]
    IN  FirstOf[m] + (IF of < LengthOf(m) THEN of ELSE LengthOf(m) - 1)

-----------------------------------------------------------------------------
(* The window. *)

Forms == {"ago", "ahead", "last", "this month", "last month", "this year", "last year",
          "this week", "today", "yesterday", "before yesterday", "a number", "other"}
TimeUnits == {"day", "week", "month", "quarter", "year", "hour"}

\* A quarter counts as a month where an interval is told, and is unknown elsewhere; what
\* is neither counts as days, weeks and years too.
Unit(p) ==
    IF p.unit = "month" \/ (p.unit = "quarter" /\ p.form # "last") THEN "months" ELSE "days"
Spoken(p) == p.form # "last" \/ p.unit \notin {"quarter", "hour"}
WholeOf(n) == n \div 2
\* Mutation: a month has thirty days.
ApplyUnits_thirty(d, n, unit) == IF unit = "months" THEN d + 3 * n ELSE d + n
ApplyUnits(d, n, unit) == IF unit = "months" THEN AddMonths(d, n) ELSE d + n

FirstOfMonth == FirstOf[MonthOf(clockDay)]
FirstOfYear(y) == FirstOf[y * Len(MonthDays)]
From(start) == [start |-> start, end |-> clockDay]

NoWindow == [start |-> 0, end |-> -1]
\* The day before yesterday is in a table that nobody reads; a number alone counts as
\* that many days.
ResolveWindow(p) ==
    CASE p.form = "ago"         -> From(ApplyUnits(clockDay, -WholeOf(p.n), Unit(p)))
      [] p.form = "ahead"       -> From(ApplyUnits(clockDay, WholeOf(p.n), Unit(p)))
      [] p.form = "last" /\ Spoken(p) -> From(ApplyUnits(clockDay, -WholeOf(p.n), Unit(p)))
      [] p.form = "a number"    -> From(clockDay - WholeOf(p.n))
      [] p.form = "this month"  -> From(FirstOfMonth)
      [] p.form = "last month"  -> [start |-> AddMonths(FirstOfMonth, -1), end |-> FirstOfMonth - 1]
      [] p.form = "this year"   -> From(FirstOfYear(YearOf(clockDay)))
      [] p.form = "last year"   -> [start |-> FirstOfYear(YearOf(clockDay) - 1),
                                    end |-> FirstOfYear(YearOf(clockDay)) - 1]
      [] p.form = "this week"   -> From(clockDay - (clockDay % WeekDays))
      [] p.form = "yesterday"   -> [start |-> clockDay - 1, end |-> clockDay - 1]
      [] p.form = "today"       -> From(clockDay)
      [] OTHER                  -> NoWindow
Resolved(p) == ResolveWindow(p) # NoWindow

\* The operator: whole windows only for eq, and gt and lt take in the day they name.
ApplyToFilter(p) ==
    LET w == ResolveWindow(p)
    IN  CASE ~Resolved(p)                -> [op |-> p.op, low |-> 0, high |-> 0]
          [] Resolved(p) /\ p.op \in {"gt", "gte"} -> [op |-> "gte", low |-> w.start, high |-> 0]
          [] Resolved(p) /\ p.op \in {"lt", "lte"} -> [op |-> "lte", low |-> 0, high |-> w.end]
          [] Resolved(p) /\ p.op = "eq"  -> [op |-> "between", low |-> w.start, high |-> w.end]
          [] OTHER                       -> [op |-> p.op, low |-> 0, high |-> 0]
\* The days that the filter lets through.
Through(f) ==
    {d \in Calendar : /\ f.op \in {"gte", "between"} => f.low <= d
                      /\ f.op \in {"lte", "between"} => d <= f.high}

-----------------------------------------------------------------------------
Silent == [form |-> "other", n |-> 0, unit |-> "day", op |-> "eq"]
Operators == {"eq", "gt", "gte", "lt", "lte", "neq"}
Phrase == [form : {"ago", "ahead", "last"}, n : Amount, unit : TimeUnits, op : Operators]
          \cup [form : {"a number"}, n : Amount, unit : {"day"}, op : Operators]
          \cup [form : Forms \ {"ago", "ahead", "last", "a number"}, n : {0}, unit : {"day"}, op : Operators]

\* The calendar starts two years before, and ends some months after.
RelativeInit == clockDay = FirstOfYear(2) /\ phrase = Silent
NextDay ==
    /\ phrase = Silent /\ clockDay < FirstOfYear(3) - 1
    /\ clockDay' = clockDay + 1 /\ UNCHANGED phrase
Say(p) == phrase = Silent /\ phrase' = p /\ UNCHANGED clockDay
RelativeNext == NextDay \/ \E p \in Phrase : Say(p)
RelativeSpec == RelativeInit /\ [][RelativeNext]_relativeVars

RelativeTypeOK == clockDay \in Calendar /\ (phrase = Silent \/ phrase \in Phrase)

-----------------------------------------------------------------------------
\* What is meant by the words that name a month, a year, a week or a day.
Meant(form) ==
    {d \in Calendar :
        CASE form = "this month" -> MonthOf(d) = MonthOf(clockDay) /\ d <= clockDay
          [] form = "last month" -> MonthOf(d) = MonthOf(clockDay) - 1
          [] form = "this year"  -> YearOf(d) = YearOf(clockDay) /\ d <= clockDay
          [] form = "last year"  -> YearOf(d) = YearOf(clockDay) - 1
          [] form = "this week"  -> WeekOf(d) = WeekOf(clockDay) /\ d <= clockDay
          [] form = "today"      -> d = clockDay
          [] form = "yesterday"  -> d = clockDay - 1}
NamedForms == {"this month", "last month", "this year", "last year", "this week", "today", "yesterday"}

\* What says a month, a year, a week or a day lets its days through and no other, last
\* month at the turn of the year too; what counts back ends today and starts as many
\* months or days before; and with eq a day passes exactly when it passes with gte and
\* with lte (resolve_window and apply_to_filter).
RelativeSound ==
    LET w == ResolveWindow(phrase)
        As(op) == Through(ApplyToFilter([phrase EXCEPT !.op = op]))
    IN  /\ phrase.form \in NamedForms => As("eq") = Meant(phrase.form)
        /\ phrase.form \in {"ago", "last", "a number"} /\ Resolved(phrase) =>
             /\ w.start <= w.end /\ w.end = clockDay
             /\ IF Unit(phrase) = "months" /\ phrase.form # "a number"
                THEN /\ MonthOf(w.start) = MonthOf(clockDay) - WholeOf(phrase.n)
                     /\ w.start - FirstOf[MonthOf(w.start)] <= clockDay - FirstOfMonth
                ELSE w.start + WholeOf(phrase.n) = clockDay
        /\ Resolved(phrase) => As("eq") = As("gte") \cap As("lte")

=============================================================================
