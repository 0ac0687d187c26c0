------------------------------- MODULE ReactLoop -------------------------------
(***************************************************************************)
(* ReactGraphAgent: the loop of the language model and its tools, driven   *)
(* by Graph.invoke, with the limits that keep it from running away.  The   *)
(* conversation is the number of tool calls that have no reply yet.        *)
(***************************************************************************)
EXTENDS Integers, Sequences, FiniteSets, FiniteSetsExt

CONSTANTS
    MaxIterations, MaxFailures, MaxParallel, MaxQueries,  \* the limits of the agent
    MaxCalls   \* bound: tool calls the model proposes at once

ASSUME ReactAssumption ==
    {MaxIterations, MaxFailures, MaxParallel, MaxQueries, MaxCalls} \subseteq Nat \ {0}

QueryTools == {"query_sql", "query_engine"}
Known == QueryTools \cup {"render_chart"}
Proposals == UNION {[1 .. n -> Known \cup {"unknown"}] : n \in 0 .. MaxCalls}

VARIABLES
    node,      \* node of the graph that runs next, or how it ended
    iteration, queryCount, queryFails, streak,  \* of the state of the graph
    reason,    \* done_reason
    proposed,  \* tool_calls of the last reply
    todo,      \* calls of this round that are still to run, by their places
    unpaired,  \* messages: calls without a tool message
    spoken,    \* a text meant as the answer was emitted
    queries    \* ghost: query tools that ran

reactVars == <<node, iteration, queryCount, queryFails, streak, reason, proposed, todo,
               unpaired, spoken, queries>>

ReactTypeOK ==
    /\ node \in {"reason", "execute", "tools", "done", "error"}
    /\ iteration \in 0 .. MaxIterations + 1 /\ streak \in 0 .. 2
    /\ queryFails \in 0 .. MaxFailures + MaxParallel - 1
    /\ queryCount \in 0 .. MaxQueries + MaxParallel
    /\ reason \in {"none", "circuit_breaker", "invalid_tool_wrapup"}
    /\ proposed \in Proposals /\ todo \subseteq 1 .. MaxCalls /\ unpaired \in 0 .. MaxCalls
    /\ spoken \in BOOLEAN /\ queries \in Nat

ReactInit ==
    /\ node = "reason" /\ iteration = 0 /\ queryCount = 0 /\ queryFails = 0 /\ streak = 0
    /\ reason = "none" /\ proposed = <<>> /\ todo = {} /\ unpaired = 0
    /\ spoken = FALSE /\ queries = 0

-----------------------------------------------------------------------------
\* _tools_for_state.
Allowed == IF queryCount >= MaxQueries THEN Known \ QueryTools ELSE Known

\* _route_reason.
\* Mutation: the number of rounds is not looked at.
NextNode_unbounded(calls) == IF calls # <<>> THEN "execute" ELSE "done"
NextNode(calls) == IF calls # <<>> /\ iteration + 1 <= MaxIterations THEN "execute" ELSE "done"

\* A reply without a call ends the loop, and one that is no report is written
\* anew; a wrap-up that fails leaves an apology.
\* Mutation: an empty reply is taken as it is.
Speaks_asis(calls, text) == calls = <<>> /\ text # "none"
Speaks(calls, text) == calls = <<>>
Reason ==
    /\ node = "reason"
    /\ \E calls \in Proposals, text \in {"none", "some"} :
          /\ proposed' = calls /\ node' = NextNode(calls)
          /\ spoken' = (spoken \/ Speaks(calls, text))
    /\ iteration' = IF iteration > MaxIterations THEN iteration ELSE iteration + 1
    /\ UNCHANGED <<queryCount, queryFails, streak, reason, todo, unpaired, queries>>

\* An exception in a node ends the graph.
Break ==
    /\ node \in {"reason", "tools"} /\ node' = "error"
    /\ UNCHANGED <<iteration, queryCount, queryFails, streak, reason, proposed, todo, unpaired,
                   spoken, queries>>

\* The calls past MaxParallel wait for a later round, and so do the ones that
\* are not allowed, of which the model hears only when none is left.
Taken == {k \in DOMAIN proposed : k <= MaxParallel}
Runnable == {k \in Taken : proposed[k] \in Allowed}

Start ==
    /\ node = "execute" /\ Runnable # {}
    /\ node' = "tools" /\ todo' = Runnable /\ unpaired' = Cardinality(Runnable)
    /\ UNCHANGED <<iteration, queryCount, queryFails, streak, reason, proposed, spoken, queries>>

\* Nothing to run: the first time the model is corrected, the second time a
\* report is forced.
\* Mutation: it is corrected every time.
Wraps_never == FALSE
Wraps == streak + 1 >= 2
Refuse ==
    /\ node = "execute" /\ Runnable = {}
    /\ streak' = streak + 1
    /\ node' = IF Wraps THEN "done" ELSE "reason"
    /\ reason' = IF Wraps THEN "invalid_tool_wrapup" ELSE reason
    /\ spoken' = (spoken \/ Wraps)
    /\ UNCHANGED <<iteration, queryCount, queryFails, proposed, todo, unpaired, queries>>

\* ToolExecutor.execute_tool_call: the tool returns or raises, which becomes an
\* error result; its reply is appended.
Failures(t, fails) == IF t # "query_sql" THEN queryFails ELSE IF fails THEN queryFails + 1 ELSE 0
Tool ==
    /\ node = "tools" /\ todo # {}
    /\ LET k == Min(todo)
       IN  /\ \E fails \in BOOLEAN : queryFails' = Failures(proposed[k], fails)
           /\ todo' = todo \ {k} /\ unpaired' = unpaired - 1
           /\ queries' = queries + (IF proposed[k] \in QueryTools THEN 1 ELSE 0)
    /\ UNCHANGED <<node, iteration, queryCount, streak, reason, proposed, spoken>>

\* query_used: sum(1 for n in tool_calls if n in _QUERY_TOOLS).  A call is a dict,
\* never one of the names.
QueryUsed == 0

\* The end of a round: the calls past the limit are reported, repeated failures
\* end the loop, and otherwise the model is asked on.
\* Mutation: only the limit itself ends it.
Broken_exact == queryFails = MaxFailures
Broken == queryFails >= MaxFailures
Finish ==
    /\ node = "tools" /\ todo = {}
    /\ IF Broken
       THEN node' = "done" /\ reason' = "circuit_breaker" /\ spoken' = TRUE
              /\ UNCHANGED <<queryCount, streak>>
       ELSE node' = "reason" /\ queryCount' = queryCount + QueryUsed /\ streak' = 0
              /\ UNCHANGED <<reason, spoken>>
    /\ UNCHANGED <<iteration, queryFails, proposed, todo, unpaired, queries>>

ReactNext == Reason \/ Break \/ Start \/ Refuse \/ Tool \/ Finish
ReactFair == WF_reactVars(ReactNext)
ReactSpec == ReactInit /\ [][ReactNext]_reactVars /\ ReactFair

-----------------------------------------------------------------------------
\* The model is asked again only with a conversation it accepts, where every
\* call has its reply, and never after too many failed queries, however they
\* fell into rounds.
Askable == node = "reason" => unpaired = 0 /\ queryFails < MaxFailures

\* The loop ends with something said, except at the last round's calls.
Answered == node = "done" => spoken \/ (iteration > MaxIterations /\ proposed # <<>>)

\* The conversation of a worker is one its model accepts, and ends in words.
LoopSound == Askable /\ Answered

\* The loop ends.
ReactEnds == <>(node \in {"done", "error"})

\* What the agent's header and its tests say of the limit on queries: past it
\* no query tool runs.  One does, see the README.
QueriesLimited == queries < MaxQueries + MaxParallel
=============================================================================
