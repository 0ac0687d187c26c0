----------------------------- MODULE Orchestrator -----------------------------
(***************************************************************************)
(* AgentOrchestrator and CanvasOrchestrator: a plan of steps, run level by *)
(* level, each step a small loop of the language model and its tools under *)
(* a time limit, a budget of model calls, and the report at the end.       *)
(*                                                                         *)
(* A tool "works" when its result is no error; in the canvas orchestrator  *)
(* a step is done only when a tool also returned a canvas_action.          *)
(***************************************************************************)
EXTENDS Integers, FiniteSets

CONSTANTS
    MaxSteps,      \* bound: steps of a plan
    MaxToolCalls,  \* _MAX_TOOL_CALLS_PER_STEP
    MaxErrors,     \* failed model calls in a row that end a step
    MaxRepeats,   \* failures of one call that end a step
    NoReport

ASSUME OrchestratorAssumption ==
    {MaxSteps, MaxToolCalls, MaxErrors, MaxRepeats} \subseteq Nat \ {0}

Steps == 1 .. MaxSteps
Extra == MaxSteps + 1   \* the chart _fill_missing_chart_types adds
All == Steps \cup {Extra}
Results == {"none", "ok", "error", "text", "skipped", "timeout"}

VARIABLES
    canvas,   \* CanvasOrchestrator runs, not AgentOrchestrator
    deps, charts,  \* the plan: depends_on, and the render_chart steps
    stage,    \* node of the graph
    st,       \* the loop of each step
    results,  \* results of the steps
    sink,     \* state_sink["results"]
    count,    \* llm_call_counter
    report,   \* the results the report was made from
    arranged, \* arrange_layout was emitted
    asked,    \* ghost: model calls made
    worked    \* ghost: steps one of whose tools worked

orchVars == <<canvas, deps, charts, stage, st, results, sink, count, report, arranged, asked, worked>>

Idle == [phase |-> "idle", calls |-> 0, errs |-> 0, silent |-> 0, bad |-> 0, last |-> "none"]
Blank == [s \in All |-> "none"]

OrchTypeOK ==
    /\ {canvas, arranged} \subseteq BOOLEAN
    /\ deps \in [Steps -> SUBSET Steps] /\ charts \subseteq Steps
    /\ stage \in {"plan", "steps", "charts", "fill", "report", "done", "broken"}
    /\ st \in [All -> [phase : {"idle", "run", "over"}, calls : 0 .. MaxToolCalls + 1,
                       errs : 0 .. MaxErrors - 1, silent : 0 .. 1, bad : Nat,
                       last : {"none", "ok", "error"}]]
    /\ {results, sink} \subseteq [All -> Results] /\ report \in [All -> Results] \cup {NoReport}
    /\ {count, asked} \subseteq Nat /\ worked \subseteq All

OrchInit ==
    /\ canvas \in BOOLEAN
    /\ deps \in {d \in [Steps -> SUBSET Steps] : \A s \in Steps : d[s] \subseteq 1 .. s - 1}
    /\ charts \in (IF canvas THEN {{}} ELSE SUBSET Steps)
    /\ stage = "plan" /\ st = [s \in All |-> Idle] /\ results = Blank /\ sink = Blank
    /\ count = 0 /\ report = NoReport /\ arranged = FALSE /\ asked = 0 /\ worked = {}

-----------------------------------------------------------------------------
In(phase) == {s \in All : st[s].phase = phase}
Data == Steps \ charts
\* 1 + steps * per_step + 1 + 2.
Budget == MaxSteps * MaxToolCalls + 4

\* _group_steps_by_level: level after level, the data steps all of whose data
\* dependencies are of the levels before.
\* Mutation: a step goes next to its dependencies.
Level_flat == Data \cap In("idle")
Level == {s \in Data \cap In("idle") : deps[s] \cap Data \cap In("idle") = {}}

Started(which) == [s \in All |-> IF s \in which THEN [Idle EXCEPT !.phase = "run"] ELSE st[s]]
Ends(s, r) == /\ st' = [st EXCEPT ![s].phase = "over"]
              /\ results' = [results EXCEPT ![s] = r]
Goes(s, change) == st' = [st EXCEPT ![s] = change]

-----------------------------------------------------------------------------
\* The planner, or the plan made without it when it fails.
Plan ==
    /\ stage = "plan" /\ stage' = "steps"
    /\ count' = (IF canvas THEN 0 ELSE 1) /\ asked' = asked + 1
    /\ UNCHANGED <<canvas, deps, charts, st, results, sink, report, arranged, worked>>

\* The next level starts, all its steps at once.
StartLevel ==
    /\ stage = "steps" /\ In("run") = {}
    /\ Level # {} /\ st' = Started(Level)
    /\ UNCHANGED <<canvas, deps, charts, stage, results, sink, count, report, arranged, asked, worked>>

\* A chart waits for nothing else: one at a time, in the order of the plan.
\* Mutation: it waits until the charts before it are done well.
ChartReady_ok(s) == \A d \in deps[s] \cap charts : results[d] = "ok"
ChartReady(s) == deps[s] \cap charts \subseteq In("over")
StartChart ==
    /\ stage = "charts" /\ In("run") = {}
    /\ \E s \in charts \cap In("idle") :
          /\ ChartReady(s)
          /\ st' = Started({s})
    /\ UNCHANGED <<canvas, deps, charts, stage, results, sink, count, report, arranged, asked, worked>>

\* The end of _execute_steps_node.  With the budget spent, the charts are
\* skipped, which gives each of them a result.
Skipped(which) == [s \in All |-> IF s \in which THEN "skipped" ELSE results[s]]
StepsDone ==
    /\ stage = "steps" /\ ~canvas /\ Data \subseteq In("over")
    /\ LET spent == count >= Budget
       IN  /\ stage' = IF charts = {} \/ spent THEN "report" ELSE "charts"
           /\ results' = IF spent THEN Skipped(charts) ELSE results
           /\ sink' = results'
    /\ UNCHANGED <<canvas, deps, charts, st, count, report, arranged, asked, worked>>

\* Mutation: the loop over the charts stops at the first.
ChartsOver_first == charts \cap In("over") # {}
ChartsOver == charts \subseteq In("over")
ChartsDone ==
    /\ stage = "charts" /\ ChartsOver
    /\ stage' = "report" /\ sink' = results
    /\ UNCHANGED <<canvas, deps, charts, st, results, count, report, arranged, asked, worked>>

\* CanvasOrchestrator: when the charts that landed are all of one type, another
\* one is added; then the page is told to arrange the blocks.
Fill ==
    /\ stage = "steps" /\ canvas /\ Data \subseteq In("over")
    /\ \/ /\ Cardinality({s \in Steps : results[s] = "ok"}) >= 1 /\ MaxSteps >= 2
          /\ stage' = "fill" /\ st' = Started({Extra}) /\ UNCHANGED <<sink, arranged>>
       \/ /\ stage' = "report" /\ sink' = results
          /\ arranged' = (\E s \in All : results[s] = "ok")
          /\ UNCHANGED st
    /\ UNCHANGED <<canvas, deps, charts, results, count, report, asked, worked>>
Filled ==
    /\ stage = "fill" /\ Extra \in In("over")
    /\ stage' = "report" /\ sink' = results /\ arranged' = (\E s \in All : results[s] = "ok")
    /\ UNCHANGED <<canvas, deps, charts, st, results, count, report, asked, worked>>

\* The report, by the model or from the template, and done.
Report ==
    /\ stage = "report" /\ stage' = "done" /\ report' = results
    /\ count' = count + 1 /\ asked' = asked + (IF canvas THEN 0 ELSE 1)
    /\ UNCHANGED <<canvas, deps, charts, st, results, sink, arranged, worked>>

\* AGENT_ORCHESTRATOR_TIMEOUT: the graph is cancelled with its steps, and the
\* template report is made from the sink.
WholeTimeout ==
    /\ ~canvas /\ stage \notin {"done", "broken"} /\ stage' = "done" /\ report' = sink
    /\ st' = [s \in All |-> IF st[s].phase = "run" THEN [st[s] EXCEPT !.phase = "over"] ELSE st[s]]
    /\ UNCHANGED <<canvas, deps, charts, results, sink, count, arranged, asked, worked>>

\* An exception ends the graph with no word to the user; the steps of the level
\* go on by themselves.
NodeRaises ==
    /\ stage \notin {"done", "broken"} /\ stage' = "broken"
    /\ UNCHANGED <<canvas, deps, charts, st, results, sink, count, report, arranged, asked, worked>>

-----------------------------------------------------------------------------
\* One turn of a step's loop: the model is asked, unless the budget is spent.
Loops(s) == s \in In("run") /\ st[s].calls < MaxToolCalls
\* Mutation: the budget is not looked at inside the loop.
WithinBudget_always == TRUE
WithinBudget == canvas \/ count + 1 <= Budget
Asks == count' = (IF canvas THEN count ELSE count + 1) /\ asked' = asked + 1

Spent(s) ==
    /\ Loops(s) /\ ~WithinBudget /\ count' = count + 1 /\ Ends(s, "skipped")
    /\ UNCHANGED <<canvas, deps, charts, stage, sink, report, arranged, asked, worked>>

\* The model call fails.
\* Mutation: one failure too many is forgiven.
GivesUp_later(s) == st[s].errs >= MaxErrors
GivesUp(s) == st[s].errs + 1 >= MaxErrors
Raise(s) ==
    /\ Loops(s) /\ WithinBudget /\ Asks
    /\ IF GivesUp(s) THEN Ends(s, "error")
       ELSE Goes(s, [st[s] EXCEPT !.errs = @ + 1]) /\ UNCHANGED results
    /\ UNCHANGED <<canvas, deps, charts, stage, sink, report, arranged, worked>>

\* It answers without a tool: fine after a tool that worked, otherwise it is
\* told to use one, once.
Text(s) ==
    /\ Loops(s) /\ WithinBudget /\ Asks
    /\ \/ ~canvas /\ st[s].last = "ok" /\ Ends(s, "ok")
       \/ /\ canvas \/ st[s].last # "ok"
          /\ IF st[s].silent + 1 >= 2 THEN Ends(s, "skipped")
             ELSE /\ Goes(s, [st[s] EXCEPT !.silent = @ + 1, !.calls = @ + 1])
                  /\ results' = IF canvas THEN results ELSE [results EXCEPT ![s] = "text"]
    /\ UNCHANGED <<canvas, deps, charts, stage, sink, report, arranged, worked>>

Verdict(works) == IF works THEN "ok" ELSE "error"

\* AgentOrchestrator runs n tools, of which good work.
\* Mutation: the result of a round is that it ran.
Outcome_ran(good, n) == "ok"
Outcome(good, n) == IF good = n THEN "ok" ELSE "failing"
DataTools(s) ==
    /\ Loops(s) /\ WithinBudget /\ ~canvas /\ Asks
    /\ \E n \in 1 .. MaxToolCalls - st[s].calls, good \in 0 .. MaxToolCalls, last \in BOOLEAN :
          /\ good <= n /\ (last => good > 0) /\ (~last => good < n)
          /\ worked' = IF good > 0 THEN worked \cup {s} ELSE worked
          /\ LET next == [st[s] EXCEPT !.calls = @ + n, !.silent = 0, !.errs = 0,
                                       !.bad = @ + n - good, !.last = Verdict(last)]
             IN  \/ Outcome(good, n) = "ok" /\ Goes(s, next)
                      /\ results' = [results EXCEPT ![s] = "ok"]
                 \/ Outcome(good, n) # "ok" /\ Goes(s, next) /\ UNCHANGED results
                 \/ Outcome(good, n) # "ok" /\ next.bad >= MaxRepeats /\ Ends(s, "skipped")
                 \/ good < n /\ Ends(s, "error")   \* an unknown tool
    /\ UNCHANGED <<canvas, deps, charts, stage, sink, report, arranged>>

\* CanvasOrchestrator runs n tools, of which acts return a canvas_action; the
\* step is over when there is one, with the result of the last tool.
CanvasTools(s) ==
    /\ Loops(s) /\ canvas /\ Asks
    /\ \E n \in 1 .. 2, acts \in 0 .. 2, last \in {"ok", "error", "none"} :
          /\ acts <= n /\ (last = "ok" => acts > 0) /\ (last # "ok" => acts < n)
          /\ worked' = IF acts > 0 THEN worked \cup {s} ELSE worked
          /\ LET bad == st[s].bad + (IF last = "error" THEN 1 ELSE 0)
                 calls == st[s].calls + n
             IN  \/ bad >= MaxRepeats /\ Ends(s, "skipped")
                 \/ last = "error" /\ Ends(s, "error")   \* an unknown tool
                 \/ acts > 0 /\ Ends(s, IF last = "ok" THEN "ok" ELSE "error")
                 \/ acts = 0 /\ calls >= MaxToolCalls /\ Ends(s, "skipped")
                 \/ acts = 0 /\ calls < MaxToolCalls /\ UNCHANGED results
                      /\ Goes(s, [st[s] EXCEPT !.calls = calls, !.bad = bad])
    /\ UNCHANGED <<canvas, deps, charts, stage, sink, report, arranged>>

\* The tool calls of the step are used up.
Cap(s) ==
    /\ s \in In("run") /\ st[s].calls >= MaxToolCalls
    /\ Ends(s, IF canvas THEN "skipped" ELSE Verdict(st[s].last = "ok"))
    /\ UNCHANGED <<canvas, deps, charts, stage, sink, count, report, arranged, asked, worked>>

\* AGENT_STEP_TIMEOUT.
StepTimeout(s) ==
    /\ s \in In("run") /\ Ends(s, "timeout")
    /\ UNCHANGED <<canvas, deps, charts, stage, sink, count, report, arranged, asked, worked>>

StepGoes(s) == Spent(s) \/ Raise(s) \/ Text(s) \/ DataTools(s) \/ CanvasTools(s) \/ Cap(s)
Advance == Plan \/ StartLevel \/ StartChart \/ StepsDone \/ ChartsDone \/ Fill \/ Filled \/ Report

OrchNext == Advance \/ WholeTimeout \/ NodeRaises \/ \E s \in All : StepGoes(s) \/ StepTimeout(s)
\* The event loop runs what can run, and asyncio.wait_for fires.
OrchFair == WF_orchVars(Advance) /\ \A s \in All : WF_orchVars(StepTimeout(s))
OrchSpec == OrchInit /\ [][OrchNext]_orchVars /\ OrchFair

-----------------------------------------------------------------------------
\* A data step runs with the results of the data steps it depends on.
DepsFirst == \A s \in Data : st[s].phase # "idle" =>
    \A d \in deps[s] \ charts : results[d] # "none"

\* The model is asked at most as often as the budget says, however the steps
\* of a level interleave; the report is the one call over it.
CallsBounded == ~canvas => asked <= Budget + 1

\* The report finds a result of every step, unless time ran out.
EveryStepTold == stage = "report" => \A s \in Steps : results[s] # "none"

\* A step that is called done had a tool that worked.
DoneMeansWorked == \A s \in All : results[s] = "ok" => s \in worked

\* A plan is run in its order, within its budget, and reported as it went.
PlanSound == DepsFirst /\ CallsBounded /\ EveryStepTold /\ DoneMeansWorked

\* Every task comes to its report or breaks off.
OrchEnds == <>(stage \in {"done", "broken"})

-----------------------------------------------------------------------------
\* Said by comments of the code and not so, see the README.

\* Time ran out: the report shows the steps that were done.
TimeoutReportsDone == stage = "done" => \A s \in Steps : results[s] = "ok" => report[s] = "ok"

\* A step whose tool worked stays done.
WorkKept == [][\A s \in All : results[s] = "ok" => results'[s] = "ok"]_orchVars

\* A block landed: the layout is arranged.
LandedIsArranged == canvas /\ stage = "done" /\ worked # {} => arranged
=============================================================================
