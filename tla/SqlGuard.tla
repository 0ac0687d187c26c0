-------------------------------- MODULE SqlGuard --------------------------------
(***************************************************************************)
(* How a statement that a model wrote gets to the data (services/sql_guard *)
(* .py, sql_guard_ast.py, query_sql of agent_tools.py and the /ai/query    *)
(* route): it is parsed and checked, given a limit, checked to read the    *)
(* source it was asked of, run, and its first rows are told.  A statement  *)
(* is what the checks look at of it.                                       *)
(***************************************************************************)
EXTENDS Naturals, FiniteSets

CONSTANTS
    Views,       \* names of WITH clauses
    MaxDepth,    \* subqueries in subqueries: the code allows 2
    RowsTold,    \* rows of the answer: the code's 50
    RowsFound,   \* how many rows a statement may find
    MaxTraits    \* bound on what a statement has beyond a plain one

ASSUME GuardAssumption == {MaxDepth, RowsTold, MaxTraits} \subseteq Nat /\ RowsFound \subseteq Nat

VARIABLES
    statement,
    source,      \* whether it is a remote database, is there, and has a name that starts with a digit
    traits       \* how many steps the statement was put together in

guardVars == <<statement, source, traits>>

\* A schema is named after the source or, where the tool asks, after the remote database.
LocalSource == [external |-> FALSE, digit |-> FALSE, found |-> TRUE]
Sources == [external : BOOLEAN, digit : BOOLEAN, found : BOOLEAN]
SchemaByName == "by name"
ToolSchema == IF source.external THEN "by database" ELSE SchemaByName

\* A table is told with its catalog and schema; odd is a name that starts with a digit.
Table(catalog, schema, name, odd) ==
    [catalog |-> catalog, schema |-> schema, name |-> name, odd |-> odd]
TableRef(schema) ==
    IF source.external THEN Table(schema, "public", "t", FALSE)
    ELSE Table("none", schema, "data", source.digit)
ToolRef == TableRef(ToolSchema)
OtherTables ==
    {Table("none", "none", "data", FALSE), Table("none", "other", "data", FALSE),
     Table("other", "public", "t", FALSE)}
    \cup {Table("none", schema, v, FALSE) : schema \in {"none", "other"}, v \in Views}
Tables == {ToolRef, TableRef(SchemaByName)} \cup OtherTables

\* What no statement may have.
Refusals == {"set operation", "cross join", "star", "odd aggregate", "file function", "keyword"}
PlainStatement ==
    [parses |-> TRUE, count |-> 1, select |-> TRUE, depth |-> 0, has |-> {}, views |-> {},
     tables |-> {}, limits |-> {}, question |-> "none", rows |-> 0, ends |-> "rows", grouped |-> FALSE]

GuardInit == statement = PlainStatement /\ source \in Sources /\ traits = 0

PutTogether(s) == traits < MaxTraits /\ traits' = traits + 1 /\ statement' = s /\ UNCHANGED source
Reads(t) == t \notin statement.tables /\ PutTogether([statement EXCEPT !.tables = @ \cup {t}])
Carries(x) == x \notin statement.has /\ PutTogether([statement EXCEPT !.has = @ \cup {x}])
Defines(v) == v \notin statement.views /\ PutTogether([statement EXCEPT !.views = @ \cup {v}])
Nests == statement.depth <= MaxDepth /\ PutTogether([statement EXCEPT !.depth = @ + 1])
\* The limit of the statement itself, or of a part of it.
LimitedAt(place) ==
    place \notin statement.limits /\ PutTogether([statement EXCEPT !.limits = @ \cup {place}])
Torn == statement.parses /\ PutTogether([statement EXCEPT !.parses = FALSE])
Many(n) == statement.count = 1 /\ PutTogether([statement EXCEPT !.count = n])
Writes == statement.select /\ PutTogether([statement EXCEPT !.select = FALSE])
Groups == ~statement.grouped /\ PutTogether([statement EXCEPT !.grouped = TRUE])
AskedWith(q) == statement.question = "none" /\ PutTogether([statement EXCEPT !.question = q])
FindsRows(n, end) ==
    statement.rows = 0 /\ statement.ends = "rows" /\ PutTogether([statement EXCEPT !.rows = n, !.ends = end])
GuardNext ==
    \/ \E t \in Tables : Reads(t)
    \/ \E x \in Refusals : Carries(x)
    \/ \E v \in Views : Defines(v)
    \/ Nests \/ Torn \/ Writes \/ Groups
    \/ \E place \in {"outer", "inner"} : LimitedAt(place)
    \/ \E n \in {0, 2} : Many(n)
    \/ \E q \in {"plain", "odd words", "odd intent"} : AskedWith(q)
    \/ \E n \in RowsFound, end \in {"rows", "timeout", "raises"} : FindsRows(n, end)
GuardSpec == GuardInit /\ [][GuardNext]_guardVars

-----------------------------------------------------------------------------
(* The checks of the parsed statement. *)

SingleStatement(s) == s.parses /\ s.count = 1
StatementType(s) == s.select
SubqueryDepth(s) == s.depth <= MaxDepth
TraitsAllowed(s) == s.has \cap {"set operation", "cross join", "star", "odd aggregate", "file function"} = {}
\* A name of a WITH clause is passed over, whatever stands before it.
TableRefs(s) == \A t \in s.tables : t.name \in s.views \/ (t.schema # "none" /\ ~t.odd)
\* Mutation: a statement that has a limit is given another in its place.
InjectLimit_other(s) == [s EXCEPT !.limits = {"outer", "inner"} \ @]
InjectLimit(s) == IF s.limits # {} THEN s ELSE [s EXCEPT !.limits = {"outer"}]
AstFullCheck(s) ==
    SingleStatement(s) /\ StatementType(s) /\ SubqueryDepth(s) /\ TraitsAllowed(s) /\ TableRefs(s)

\* Third layer: the parsed statement, then the words of it that are not quoted.
ValidateSql(s) == AstFullCheck(s) /\ "keyword" \notin s.has
\* First and second layer: what was asked, when something was.
SanitizeInput(s) == s.question # "odd words"
AnalyzeIntent(s) == s.question # "odd intent"
FullCheck(s) == SanitizeInput(s) /\ AnalyzeIntent(s) /\ ValidateSql(s)

\* The owner of a table is its catalog, or its schema where it has none.
Owner(t) == IF t.catalog # "none" THEN t.catalog ELSE t.schema
\* Mutation: only what has a schema and no catalog is looked at.
TableOwnership_local(s) == \A t \in s.tables : t.catalog = "none" => Owner(t) \in {"none", ToolSchema}
TableOwnership(s) == \A t \in s.tables : Owner(t) \in {"none", ToolSchema}

-----------------------------------------------------------------------------
(* query_sql: nothing is asked of it in words. *)

LetThrough(s) == ValidateSql(s) /\ source.found /\ TableOwnership(s)
Smaller(n, m) == IF n < m THEN n ELSE m
\* An error of a source that is there tells how its table is to be named.
Refuse(hint) == [kind |-> "error", rows |-> 0, hint |-> hint]
Execute(s) ==
    CASE ~(ValidateSql(s) /\ source.found)                   -> Refuse({})
      [] ValidateSql(s) /\ source.found /\ ~LetThrough(InjectLimit(s)) -> Refuse({ToolRef})
      [] LetThrough(InjectLimit(s)) /\ s.ends # "rows"       -> Refuse({ToolRef})
      [] OTHER -> [kind |-> "rows", rows |-> Smaller(s.rows, RowsTold), hint |-> {}]
\* What is grouped is said to be complete, and the count is that of the rows that are told.
SaysComplete(s) == Execute(s).kind = "rows" /\ s.grouped

(* The route of a question: it tells a table's name of its own, checks, and has the tool   *)
(* check again.  What is refused is logged in a way the log raises at, and what succeeds   *)
(* returns an error's text that is not there.                                              *)
AiRef == TableRef(SchemaByName)
AiQuery(s) ==
    CASE ~source.found                                       -> "no source"
      [] source.found /\ ~FullCheck(s)                       -> "raises"
      [] source.found /\ FullCheck(s) /\ Execute(InjectLimit(s)).kind = "error" -> "error"
      [] OTHER                                               -> "raises"

-----------------------------------------------------------------------------
Statements ==
    [parses : BOOLEAN, count : {0, 1, 2}, select : BOOLEAN, depth : 0 .. MaxDepth + 1,
     has : SUBSET Refusals, views : SUBSET Views, tables : SUBSET Tables,
     limits : SUBSET {"outer", "inner"}, question : {"none", "plain", "odd words", "odd intent"},
     rows : RowsFound \cup {0}, ends : {"rows", "timeout", "raises"}, grouped : BOOLEAN]
GuardTypeOK == source \in Sources /\ traits \in 0 .. MaxTraits /\ statement \in Statements

Reading(t) == [PlainStatement EXCEPT !.tables = {t}]
\* The two checks of the tables, of their form (check_table_refs) and of their owner
\* (check_table_ownership), leave only the source's tables and the statement's own views;
\* what passes has a limit and passes again as it was left, as the route has it checked
\* twice; the table that an error names passes unless a local source's name starts with
\* a digit, and the route's own name for it unless the source is a remote database.
GuardSound ==
    LET s == InjectLimit(statement)
    IN  /\ LetThrough(statement) => \A t \in statement.tables :
             Owner(t) = ToolSchema \/ (Owner(t) = "none" /\ t.name \in statement.views)
        /\ FullCheck(statement) => FullCheck(s) /\ s.limits # {} /\ InjectLimit(s) = s
        /\ \A t \in Execute(statement).hint : LetThrough(Reading(t)) \/ (source.digit /\ ~source.external)
        /\ source.found /\ ~source.digit => (LetThrough(Reading(AiRef)) <=> ~source.external)
        /\ AiQuery(statement) = "error" => Execute(s).kind = "error"
        /\ SaysComplete(statement) /\ statement.rows <= RowsTold => Execute(statement).rows = statement.rows

=============================================================================
