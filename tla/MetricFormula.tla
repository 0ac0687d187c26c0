----------------------------- MODULE MetricFormula -----------------------------
(***************************************************************************)
(* What a metric's formula may be, and what a measure comes to that names  *)
(* a metric (services/metric_service.py): the scanner of derived formulas, *)
(* one symbol after the other, and resolve_measures over the metrics that  *)
(* there are.  A block keeps what its measures came to, and is asked again *)
(* later (api/v1/canvases.py, query_canvas).                               *)
(* Then the order in which metrics are computed that need each other.      *)
(***************************************************************************)
EXTENDS Integers, Sequences, FiniteSets, FiniteSetsExt

CONSTANTS
    MaxSymbols,  \* bound on the length of a formula
    MaxCatalog,  \* bound on the number of metrics
    MetricNames,      \* numbers for names: of fields, and keys and names of metrics
    SchemaNames      \* the names that are columns of the source

ASSUME FormulaAssumption ==
    /\ {MaxSymbols, MaxCatalog} \subseteq Nat
    /\ MetricNames \subseteq Nat \ {0} /\ SchemaNames \subseteq MetricNames

VARIABLES
    formula,     \* its symbols
    catalog,     \* the metrics, in the order of their names
    measure      \* what is asked for

formulaVars == <<formula, catalog, measure>>

-----------------------------------------------------------------------------
(* Formulas.  An aggregate is a call of an allowed one with one field, or with a   *)
(* placeholder for it; a compound has anything else in it; a ref is metric("key"). *)

Operands == {"aggregate", "ref", "quoted", "number"}
Symbols == Operands \cup {"template", "compound", "word", "op", "(", ")"}

Unread == [ok |-> TRUE, depth |-> 0, operand |-> FALSE]
\* Mutation: an operator is not followed by an operand.
ReadSymbol_any(s, x) ==
    CASE x = "("  -> [s EXCEPT !.depth = @ + 1]
      [] x = ")"  -> [s EXCEPT !.depth = @ - 1, !.ok = @ /\ s.depth > 0]
      [] OTHER    -> [s EXCEPT !.operand = TRUE, !.ok = @ /\ x \in Operands \cup {"op"}]
ReadSymbol(s, x) ==
    CASE x = "("         -> [s EXCEPT !.depth = @ + 1, !.operand = FALSE]
      [] x = ")"         -> [s EXCEPT !.depth = @ - 1, !.operand = TRUE, !.ok = @ /\ s.depth > 0]
      [] x = "op"        -> [s EXCEPT !.operand = FALSE, !.ok = @ /\ s.operand]
      [] x \in Operands  -> [s EXCEPT !.operand = TRUE]
      [] OTHER           -> [s EXCEPT !.ok = FALSE]
Scanned[n \in 0 .. MaxSymbols] ==
    IF n = 0 THEN Unread
    ELSE IF n <= Len(formula) THEN ReadSymbol(Scanned[n - 1], formula[n]) ELSE Scanned[n - 1]
ValidDerived ==
    LET end == Scanned[MaxSymbols] IN end.ok /\ end.depth = 0 /\ end.operand
\* An aggregate alone, with a placeholder too, needs no scanning.
Single == Len(formula) = 1 /\ formula[1] \in {"aggregate", "template"}
FormulaAllowed == Single \/ ValidDerived

\* What a sum of products is: an operand, one in brackets, or two and an operator.
Spans == {p \in (1 .. MaxSymbols) \X (1 .. MaxSymbols) : p[1] <= p[2] /\ p[2] <= Len(formula)}
Expression[p \in Spans] ==
    \/ p[1] = p[2] /\ formula[p[1]] \in Operands
    \/ /\ p[1] + 1 < p[2] /\ formula[p[1]] = "(" /\ formula[p[2]] = ")"
       /\ Expression[<<p[1] + 1, p[2] - 1>>]
    \/ \E m \in p[1] + 1 .. p[2] - 1 :
         formula[m] = "op" /\ Expression[<<p[1], m - 1>>] /\ Expression[<<m + 1, p[2]>>]
WellFormed == formula # <<>> /\ Expression[<<1, Len(formula)>>]

OpenedBy(n) == Cardinality({i \in 1 .. n : formula[i] = "("})
ClosedBy(n) == Cardinality({i \in 1 .. n : formula[i] = ")"})
Balanced ==
    /\ OpenedBy(Len(formula)) = ClosedBy(Len(formula))
    /\ \A n \in DOMAIN formula : ClosedBy(n) <= OpenedBy(n)
\* An operator stands behind an operand; what stands behind it is not looked at so closely.
Operated ==
    \A i \in DOMAIN formula : formula[i] = "op" =>
        /\ i > 1 /\ formula[i - 1] \in Operands \cup {")"}
        /\ i < Len(formula) /\ formula[i + 1] # "op"

-----------------------------------------------------------------------------
(* Metrics: private, global or another user's; fixed, or a template for a field; the *)
(* distinct ones count without repetition.                                           *)

Metric == [key : MetricNames, name : MetricNames, field : MetricNames, owner : {"me", "none", "other"},
           active : BOOLEAN, kind : {"fixed", "template", "distinct"}]
NoMeasure == [ref |-> "none", name |-> 0, field |-> 0, dim |-> 0, count |-> FALSE]
\* A measure has a field, or none; so has a block a dimension.
Field == MetricNames \cup {0}
MeasureAsked ==
    [ref : {"id"}, name : 1 .. MaxCatalog, field : Field, dim : SchemaNames \cup {0}, count : {FALSE}]
    \cup [ref : {"key"}, name : MetricNames, field : Field, dim : SchemaNames \cup {0}, count : {FALSE}]
    \cup [ref : {"plain"}, name : {0}, field : MetricNames, dim : {0}, count : BOOLEAN]

Entries == DOMAIN catalog
MaySee(i) == catalog[i].owner # "other"
Offered(i) == MaySee(i) /\ catalog[i].active
Template(i) == catalog[i].kind # "fixed"

\* By its id also what is switched off; by its key what is switched on, whosever it is, and
\* of several the global one, then the user's own: the database puts no owner first.
FoundById(i) == {i} \cap {h \in Entries : MaySee(h)}
Keyed(k) == {i \in Entries : catalog[i].active /\ catalog[i].key = k}
Rank(i) == CASE catalog[i].owner = "none" -> 1 [] catalog[i].owner = "me" -> 2 [] OTHER -> 3
\* Mutation: the first that has the key.
FoundByKey_first(k) == {i \in Keyed(k) : i = Min(Keyed(k))}
FoundByKey(k) == {i \in Keyed(k) : \A h \in Keyed(k) : Rank(i) <= Rank(h)}

\* The index of names keeps the last metric that has one, the index of what counts without
\* repetition the first.
ByName(w) ==
    LET all == {i \in Entries : Offered(i) /\ w \in {catalog[i].key, catalog[i].name}}
    IN  {i \in all : i = Max(all)}
ByDistinct(w) ==
    LET all == {i \in Entries : Offered(i) /\ catalog[i].kind = "distinct" /\ catalog[i].field = w}
    IN  {i \in all : i = Min(all)}

\* A metric over a field; a template without a field raises.
OverField(i, field) == [is |-> "metric", of |-> i, over |-> IF Template(i) THEN field ELSE catalog[i].field]
Unresolved == [is |-> "error", of |-> 0, over |-> 0]
ResolveMetric(i, field) == IF Template(i) /\ field = 0 THEN Unresolved ELSE OverField(i, field)

Filled(m) == IF m.field # 0 THEN m.field ELSE m.dim
Referred(m) == IF m.ref = "id" THEN FoundById(m.name) ELSE FoundByKey(m.name)
Upgraded(m) == IF ByName(m.field) # {} \/ ~m.count THEN ByName(m.field) ELSE ByDistinct(m.field)
\* What a measure may come to; a set, as two metrics of a key and an owner are as good.
Resolve(m) ==
    CASE m.ref \in {"id", "key"} /\ Referred(m) = {}  -> {Unresolved}
      [] m.ref \in {"id", "key"} /\ Referred(m) # {}  -> {ResolveMetric(i, Filled(m)) : i \in Referred(m)}
      [] m.ref = "plain" /\ Upgraded(m) # {}          -> {OverField(i, catalog[i].field) : i \in Upgraded(m)}
      [] OTHER -> {[is |-> IF m.count THEN "count" ELSE "sum", of |-> 0, over |-> m.field]}

\* The block keeps the metric's id and no field: asked again, its dimension is all there is.
Again(e, dim) == [ref |-> "id", name |-> e.of, field |-> 0, dim |-> dim, count |-> FALSE]

\* What is told of a source whose columns change: the templates whose field is not there.
Broken == {i \in Entries : Offered(i) /\ Template(i) /\ catalog[i].field \notin SchemaNames}

-----------------------------------------------------------------------------
FormulaInit == formula = <<>> /\ catalog = <<>> /\ measure = NoMeasure
AddSymbol(x) ==
    /\ catalog = <<>> /\ Len(formula) < MaxSymbols
    /\ formula' = Append(formula, x) /\ UNCHANGED <<catalog, measure>>
\* A user has one metric of a key.  Another user's that is switched off is as good as none;
\* what is not offered is looked for by nothing but its key and id: one name and one kind
\* of template stand for all.
Distinguished(m) ==
    /\ m.owner = "other" => m.active
    /\ m.owner = "other" \/ ~m.active => m.name = m.key /\ m.kind # "distinct"
AddMetric(m) ==
    /\ formula = <<>> /\ measure = NoMeasure /\ Len(catalog) < MaxCatalog /\ Distinguished(m)
    /\ \A i \in Entries : catalog[i].name <= m.name /\ <<catalog[i].key, catalog[i].owner>> # <<m.key, m.owner>>
    /\ catalog' = Append(catalog, m) /\ UNCHANGED <<formula, measure>>
NameMeasure(m) ==
    /\ catalog # <<>> /\ measure = NoMeasure
    /\ measure' = m /\ UNCHANGED <<formula, catalog>>
FormulaNext ==
    \/ \E x \in Symbols : AddSymbol(x)
    \/ \E m \in Metric : AddMetric(m)
    \/ \E m \in MeasureAsked : NameMeasure(m)
FormulaSpec == FormulaInit /\ [][FormulaNext]_formulaVars

FormulaTypeOK ==
    /\ formula \in Seq(Symbols) /\ Len(formula) <= MaxSymbols
    /\ catalog \in Seq(Metric) /\ Len(catalog) <= MaxCatalog
    /\ measure \in MeasureAsked \cup {NoMeasure}

\* A well-formed formula is allowed (assert_formula_allowed), and what is allowed closes
\* its brackets, has no words and no placeholders beside others, and no operator without
\* an operand before it.
FormulaSound ==
    /\ WellFormed => FormulaAllowed
    /\ FormulaAllowed /\ ~Single =>
         Balanced /\ Operated /\ \A i \in DOMAIN formula : formula[i] \notin {"word", "template", "compound"}

\* Another user's metric is taken only by a key nobody else has (get_metric_by_key); what
\* a block keeps comes to the same metric again while the user may see it, a fixed one to
\* the same expression; and a measure that is taken for a metric by its field's name is
\* over a column, unless the metric is told to be broken (check_metric_field_bindings).
MeasuresSound ==
    measure # NoMeasure =>
      \A e \in Resolve(measure) : e.is = "metric" =>
        /\ ~MaySee(e.of) => measure.ref = "key" /\ \A i \in Keyed(measure.name) : ~MaySee(i)
        /\ MaySee(e.of) => \A f \in Resolve(Again(e, measure.dim)) :
             IF Template(e.of) THEN f \in {Unresolved, OverField(e.of, measure.dim)} ELSE f = e
        /\ measure.ref = "plain" /\ Template(e.of) => e.over \in SchemaNames \/ e.of \in Broken

-----------------------------------------------------------------------------
(***************************************************************************)
(* The order in which a metric and the metrics it is derived from are      *)
(* computed (services/query_engine.py, execute_derived_metric): depth      *)
(* first, with a cache of what was computed and a stack of what is being   *)
(* computed, in which a metric that is met again is a circle.              *)
(***************************************************************************)

CONSTANT Formulas            \* the metrics

VARIABLES
    needs,       \* metric -> the metrics its depends_on_metric_ids names
    gone,        \* metrics that are named and no longer there
    stack,       \* the calls that run, the innermost last: a metric and what it has yet to look at
    computed,    \* the metrics of the cache, in the order they were computed
    outcome,     \* of the call
    circle       \* the stack and the metric that was met again

derivedVars == <<needs, gone, stack, computed, outcome, circle>>

NoCircle == [path |-> <<>>, back |-> "none"]
Stacked == [i \in DOMAIN stack |-> stack[i].id]
\* Mutation: nothing is kept.
Cached_none == {}
Cached == {computed[i] : i \in DOMAIN computed}
Running == {stack[i].id : i \in DOMAIN stack}

DerivedInit ==
    /\ needs \in [Formulas -> SUBSET Formulas] /\ gone \in SUBSET Formulas
    /\ stack = <<>> /\ computed = <<>> /\ outcome = "none" /\ circle = NoCircle

AskMetric(x) ==
    /\ outcome = "none" /\ x \notin gone
    /\ stack' = <<[id |-> x, todo |-> needs[x]]>> /\ outcome' = "running"
    /\ UNCHANGED <<needs, gone, computed, circle>>

\* The innermost call looks at one of what it needs: what is in the cache or no longer
\* there is passed over, anything else is a call of its own.
Top == stack[Len(stack)]
\* Mutation: one of the others is not looked at.
Looked_all(d) == [stack EXCEPT ![Len(stack)].todo = {}]
Looked(d) == [stack EXCEPT ![Len(stack)].todo = @ \ {d}]
PassOver(d) ==
    /\ outcome = "running" /\ d \in Top.todo /\ d \in Cached \cup gone
    /\ stack' = Looked(d)
    /\ UNCHANGED <<needs, gone, computed, outcome, circle>>
Descend(d) ==
    /\ outcome = "running" /\ d \in Top.todo /\ d \notin Cached \cup gone \cup Running
    /\ stack' = Append(Looked(d), [id |-> d, todo |-> needs[d]])
    /\ UNCHANGED <<needs, gone, computed, outcome, circle>>
\* CircularDependencyError goes through every call of the stack.
MeetAgain(d) ==
    /\ outcome = "running" /\ d \in Top.todo /\ d \notin Cached \cup gone /\ d \in Running
    /\ outcome' = "circular" /\ circle' = [path |-> Stacked, back |-> d] /\ stack' = <<>>
    /\ UNCHANGED <<needs, gone, computed>>

Compute ==
    /\ outcome = "running" /\ Top.todo = {}
    /\ computed' = Append(computed, Top.id)
    /\ stack' = SubSeq(stack, 1, Len(stack) - 1)
    /\ outcome' = IF Len(stack) = 1 THEN "done" ELSE "running"
    /\ UNCHANGED <<needs, gone, circle>>
QueryRaises ==
    /\ outcome = "running" /\ Top.todo = {}
    /\ outcome' = "failed" /\ stack' = <<>>
    /\ UNCHANGED <<needs, gone, computed, circle>>

DerivedNext ==
    \/ \E x \in Formulas : AskMetric(x) \/ PassOver(x) \/ Descend(x) \/ MeetAgain(x)
    \/ Compute \/ QueryRaises
DerivedSpec == DerivedInit /\ [][DerivedNext]_derivedVars

-----------------------------------------------------------------------------
MetricCall == [id : Formulas \ gone, todo : SUBSET Formulas]
DerivedTypeOK ==
    /\ needs \in [Formulas -> SUBSET Formulas] /\ gone \in SUBSET Formulas
    /\ stack \in Seq(MetricCall) /\ computed \in Seq(Formulas)
    /\ outcome \in {"none", "running", "done", "circular", "failed"}
    /\ (outcome = "running") <=> (stack # <<>>)

\* One after the other is needed by the one before, so the path goes round.
Circular(path, back) ==
    /\ path # <<>> /\ \E i \in DOMAIN path : path[i] = back
    /\ back \in needs[path[Len(path)]]
    /\ \A i \in 1 .. Len(path) - 1 : path[i + 1] \in needs[path[i]]

\* Every metric is computed once, after all those it needs that are there; what is called
\* circular is needed, over some others, by itself, and what is computed is not
\* (execute_derived_metric's cache and recursion stack).
DerivedSound ==
    /\ \A i, j \in DOMAIN computed : i # j => computed[i] # computed[j]
    /\ \A i \in DOMAIN computed : \A d \in needs[computed[i]] \ gone :
          \E j \in DOMAIN computed : j < i /\ computed[j] = d
    /\ outcome = "circular" => Circular(circle.path, circle.back)
    /\ \A i, j \in DOMAIN stack : i # j => stack[i].id # stack[j].id

=============================================================================
