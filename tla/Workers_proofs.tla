---------------------------- MODULE Workers_proofs ----------------------------
(***************************************************************************)
(* What is proved of the workers: the loop of one (ReactLoop), for any     *)
(* limits, the graph that runs the steps of a plan (Orchestrator), for any *)
(* plan and any limits, and the write window their SQL waits for           *)
(* (DuckWindow), for any processes and lifetimes of the keys.              *)
(***************************************************************************)
EXTENDS MCWorkers, FiniteSetTheorems, WellFoundedInduction, TLAPS

-----------------------------------------------------------------------------
(***************************************************************************)
(* The loop of a worker: the inductive invariant.                          *)
(***************************************************************************)
\* The calls of a round are the ones without a reply, and each of them may still
\* add a failure to a number of failures that was below the limit when the round
\* began.
Rounds ==
    /\ node = "tools" => unpaired = Cardinality(todo)
    /\ node = "tools" => queryFails + Cardinality(todo) <= MaxFailures + MaxParallel - 1
    /\ node \in {"reason", "execute"} => unpaired = 0 /\ queryFails < MaxFailures
    /\ node \in {"reason", "execute", "tools"} => streak <= 1

ReactInv == ReactTypeOK /\ Rounds /\ Answered

LEMMA Limits ==
    /\ MaxIterations \in Nat /\ MaxIterations >= 1 /\ MaxFailures \in Nat /\ MaxFailures >= 1
    /\ MaxParallel \in Nat /\ MaxParallel >= 1 /\ MaxQueries \in Nat /\ MaxQueries >= 1
    /\ MaxCalls \in Nat /\ MaxCalls >= 1
BY ReactAssumption

\* A round runs at most MaxParallel of at most MaxCalls calls, from the first on.
LEMMA Calls ==
    ASSUME proposed \in Proposals
    PROVE  /\ Runnable \subseteq 1 .. MaxCalls /\ IsFiniteSet(Runnable)
           /\ Cardinality(Runnable) \in Nat /\ Cardinality(Runnable) <= MaxCalls
           /\ Cardinality(Runnable) <= MaxParallel
<1>1. MaxCalls \in Nat /\ MaxParallel \in Nat
  BY ReactAssumption
<1>2. PICK n \in 0 .. MaxCalls : proposed \in [1 .. n -> Known \cup {"unknown"}]
  BY DEF Proposals
<1>3. Runnable \subseteq 1 .. MaxCalls /\ Runnable \subseteq 1 .. MaxParallel
  BY <1>1, <1>2 DEF Runnable, Taken
<1>4. ASSUME NEW m \in Nat, Runnable \subseteq 1 .. m
      PROVE  /\ IsFiniteSet(Runnable) /\ Cardinality(Runnable) \in Nat
             /\ Cardinality(Runnable) <= m
  <2>1. IsFiniteSet(1 .. m) /\ Cardinality(1 .. m) = m
    BY <1>4, FS_Interval
  <2> QED
    BY <1>4, <2>1, FS_Subset, FS_CardinalityType
<1> QED
  BY <1>1, <1>3, <1>4

\* A set of calls loses its least one.
LEMMA LeastCall ==
    ASSUME NEW S \in SUBSET (1 .. MaxCalls), S # {}
    PROVE  /\ Min(S) \in S /\ IsFiniteSet(S) /\ Cardinality(S) \in Nat \ {0}
           /\ Cardinality(S \ {Min(S)}) = Cardinality(S) - 1
<1>1. IsFiniteSet(1 .. MaxCalls)
  BY ReactAssumption, FS_Interval
<1>2. IsFiniteSet(S) /\ Cardinality(S) \in Nat /\ Cardinality(S) # 0
  BY <1>1, FS_Subset, FS_CardinalityType, FS_EmptySet
<1>3. \E x \in S : \A y \in S : x <= y
  <2>1. S \subseteq Nat
    BY ReactAssumption
  <2> DEFINE R == OpToRel(<, Nat)
  <2>2. IsWellFoundedOn(R, Nat)
    BY NatLessThanWellFounded
  <2>3. \A a, b \in Nat : a < b => <<a, b>> \in R
    BY DEF OpToRel
  <2> HIDE DEF R
  <2>4. PICK x \in S : \A y \in S : <<y, x>> \notin R
    BY <2>1, <2>2, WFMin
  <2>5. \A y \in S : ~(y < x)
    BY <2>1, <2>3, <2>4
  <2> QED
    BY <2>1, <2>5
<1>4. Min(S) \in S
  BY <1>3 DEF Min
<1> QED
  BY <1>2, <1>4, FS_RemoveElement

LEMMA ReactInitially == ReactInit => ReactInv
<1> SUFFICES ASSUME ReactInit PROVE ReactInv
  OBVIOUS
<1> USE Limits DEF ReactInit
<1>1. proposed \in Proposals
  <2>1. <<>> \in [1 .. 0 -> Known \cup {"unknown"}] /\ 0 \in 0 .. MaxCalls
    OBVIOUS
  <2> QED
    BY <2>1 DEF Proposals
<1>2. ReactTypeOK
  <2>1. spoken \in BOOLEAN
    OBVIOUS
  <2>2. todo \subseteq 1 .. MaxCalls
    OBVIOUS
  <2>3. /\ iteration \in 0 .. MaxIterations + 1 /\ streak \in 0 .. 2 /\ unpaired \in 0 .. MaxCalls
        /\ queryFails \in 0 .. MaxFailures + MaxParallel - 1
        /\ queryCount \in 0 .. MaxQueries + MaxParallel
    OBVIOUS
  <2> QED
    BY <1>1, <2>1, <2>2, <2>3 DEF ReactTypeOK
<1> QED
  BY <1>2 DEF ReactInv, Rounds, Answered

\* The model is asked.
LEMMA ReasonKeeps == ASSUME ReactInv, Reason PROVE ReactInv'
<1> USE Limits DEF ReactInv, Reason
<1>1. ReactTypeOK'
  BY DEF ReactTypeOK, NextNode
<1>2. Rounds'
  BY DEF Rounds, NextNode
<1>3. Answered'
  <2>1. node' = NextNode(proposed') /\ (proposed' = <<>> => spoken')
    BY DEF Speaks
  <2> QED
    BY <2>1 DEF ReactTypeOK, Answered, NextNode
<1> QED
  BY <1>1, <1>2, <1>3

LEMMA BreakKeeps == ASSUME ReactInv, Break PROVE ReactInv'
BY DEF ReactInv, Break, ReactTypeOK, Rounds, Answered

\* A round begins, within the limits.
LEMMA StartKeeps == ASSUME ReactInv, Start PROVE ReactInv'
<1> USE Limits DEF ReactInv, Start
<1>1. /\ Runnable \subseteq 1 .. MaxCalls /\ Cardinality(Runnable) \in 0 .. MaxCalls
      /\ Cardinality(Runnable) <= MaxParallel
  BY Calls DEF ReactTypeOK
<1>2. ReactTypeOK'
  BY <1>1 DEF ReactTypeOK
<1>3. Rounds'
  BY <1>1 DEF Rounds, ReactTypeOK
<1>4. Answered'
  BY DEF Answered
<1> QED
  BY <1>2, <1>3, <1>4

\* A reply of which nothing may run; the second one in a row ends the loop.
LEMMA RefuseKeeps == ASSUME ReactInv, Refuse PROVE ReactInv'
<1> USE Limits DEF ReactInv, Refuse
<1>1. ReactTypeOK'
  BY DEF ReactTypeOK, Rounds, Wraps
<1>2. Rounds'
  BY DEF ReactTypeOK, Rounds, Wraps
<1>3. Answered'
  BY DEF Answered, Wraps
<1> QED
  BY <1>1, <1>2, <1>3

\* A call of the round has its reply.
LEMMA ToolKeeps == ASSUME ReactInv, Tool PROVE ReactInv'
<1> USE Limits DEF ReactInv
<1> DEFINE k == Min(todo)
<1>1. PICK fails \in BOOLEAN : queryFails' = Failures(proposed[k], fails)
  BY DEF Tool
<1>2. queryFails \in Nat /\ queryFails' \in Nat /\ queryFails' <= queryFails + 1
  BY <1>1 DEF ReactTypeOK, Failures
<1>3. /\ Cardinality(todo) \in Nat \ {0} /\ Cardinality(todo') = Cardinality(todo) - 1
      /\ todo' \subseteq 1 .. MaxCalls
  BY LeastCall DEF Tool, ReactTypeOK
<1>4. /\ node = "tools" /\ unpaired' = unpaired - 1
      /\ queries' = queries + (IF proposed[k] \in QueryTools THEN 1 ELSE 0)
      /\ UNCHANGED <<node, iteration, queryCount, streak, reason, proposed, spoken>>
  BY DEF Tool
<1> HIDE DEF k
<1>5. ReactTypeOK'
  BY <1>2, <1>3, <1>4 DEF ReactTypeOK, Rounds
<1>6. Rounds'
  BY <1>2, <1>3, <1>4 DEF Rounds
<1>7. Answered'
  BY <1>4 DEF Answered
<1> QED
  BY <1>5, <1>6, <1>7

\* The round is over: its conversation is complete.
LEMMA FinishKeeps == ASSUME ReactInv, Finish PROVE ReactInv'
<1> USE Limits DEF ReactInv, Finish, Broken, QueryUsed
<1>1. unpaired = 0
  BY FS_EmptySet DEF Rounds
<1>2. ReactTypeOK'
  <2>1. spoken' \in BOOLEAN
    BY DEF ReactTypeOK
  <2>2. queryCount' \in 0 .. MaxQueries + MaxParallel /\ streak' \in 0 .. 2
    BY DEF ReactTypeOK
  <2> QED
    BY <2>1, <2>2 DEF ReactTypeOK
<1>3. Rounds'
  BY <1>1 DEF Rounds, ReactTypeOK
<1>4. Answered'
  BY DEF Answered
<1> QED
  BY <1>2, <1>3, <1>4

LEMMA ReactInvariant == ReactInit /\ [][ReactNext]_reactVars => []ReactInv
<1>1. ReactInv /\ UNCHANGED reactVars => ReactInv'
  BY DEF ReactInv, reactVars, ReactTypeOK, Rounds, Answered
<1>2. ReactInv /\ [ReactNext]_reactVars => ReactInv'
  BY <1>1, ReasonKeeps, BreakKeeps, StartKeeps, RefuseKeeps, ToolKeeps, FinishKeeps DEF ReactNext
<1> QED
  BY <1>2, ReactInitially, PTL

\* The loop of ReactGraphAgent keeps its counters within its limits.
THEOREM ReactTypeCorrect == ReactSpec => []ReactTypeOK
BY ReactInvariant, PTL DEF ReactInv, ReactSpec

\* The loop asks the model only with a conversation whose calls all have their
\* replies and never after too many failed queries, and ends in words, but at
\* the last round's calls.
THEOREM WorkerSound == ReactSpec => []LoopSound
<1>1. ReactInv => LoopSound
  BY DEF ReactInv, Rounds, LoopSound, Askable
<1> QED
  BY <1>1, ReactInvariant, PTL DEF ReactSpec

-----------------------------------------------------------------------------
(***************************************************************************)
(* The graph of a plan: the inductive invariant.                           *)
(***************************************************************************)
StepState == [phase : {"idle", "run", "over"}, calls : 0 .. MaxToolCalls + 1,
              errs : 0 .. MaxErrors - 1, silent : 0 .. 1, bad : Nat, last : {"none", "ok", "error"}]

\* Nothing happens before the plan.
Fresh == stage = "plan" => asked = 0 /\ \A s \in All : st[s].phase = "idle"

\* A step that is over has its result, unless time ran out, and past the data
\* steps each of them has.
Told ==
    /\ (canvas => charts = {}) /\ (stage = "fill" => canvas)
    /\ stage # "done" => \A s \in All : st[s].phase = "over" => results[s] # "none"
    /\ stage \in {"charts", "fill", "report"} => \A s \in Data : results[s] # "none"

\* The model is asked no more often than it is counted; only the report is not
\* held back by the budget.
Budgeted == ~canvas => /\ asked <= count /\ asked <= Budget + 1
                       /\ stage # "done" => asked <= Budget

\* The last tool of a step, or its result, is well only when a tool worked.
Earned == \A s \in All : st[s].last = "ok" \/ results[s] = "ok" => s \in worked

OrchInv == OrchTypeOK /\ Fresh /\ Told /\ EveryStepTold /\ Budgeted /\ Earned /\ DepsFirst

LEMMA PlanLimits ==
    /\ MaxSteps \in Nat /\ MaxSteps >= 1 /\ MaxToolCalls \in Nat /\ MaxToolCalls >= 1
    /\ MaxErrors \in Nat /\ MaxErrors >= 1 /\ MaxRepeats \in Nat /\ MaxRepeats >= 1
    /\ Budget \in Nat /\ Budget >= 4
    /\ Steps \subseteq All /\ Extra \in All /\ Extra \notin Steps
<1>1. /\ MaxSteps \in Nat /\ MaxSteps >= 1 /\ MaxToolCalls \in Nat /\ MaxToolCalls >= 1
      /\ MaxErrors \in Nat /\ MaxErrors >= 1 /\ MaxRepeats \in Nat /\ MaxRepeats >= 1
  BY OrchestratorAssumption
<1>2. MaxSteps * MaxToolCalls \in Nat
  BY <1>1
<1> QED
  BY <1>1, <1>2 DEF Budget, Steps, All, Extra

LEMMA OrchInitially == OrchInit => OrchInv
<1> SUFFICES ASSUME OrchInit PROVE OrchInv
  OBVIOUS
<1> USE PlanLimits DEF OrchInit, Idle, Blank
<1>1. deps \in [Steps -> SUBSET Steps] /\ charts \subseteq Steps /\ (canvas => charts = {})
  OBVIOUS
<1>2. st \in [All -> StepState] /\ \A s \in All : st[s].phase = "idle" /\ st[s].last = "none"
  <2>1. Idle \in StepState
    BY DEF StepState
  <2> QED
    BY <2>1
<1>3. {results, sink} \subseteq [All -> Results] /\ \A s \in All : results[s] = "none"
  BY DEF Results
<1>4. {canvas, arranged} \subseteq BOOLEAN
  OBVIOUS
<1>5. OrchTypeOK
  BY <1>1, <1>2, <1>3, <1>4 DEF OrchTypeOK, StepState
<1>6. Fresh /\ Told /\ EveryStepTold /\ Budgeted
  BY <1>1, <1>2, <1>3 DEF Fresh, Told, EveryStepTold, Budgeted
<1>7. Earned /\ DepsFirst
  BY <1>2, <1>3 DEF Earned, DepsFirst, Data
<1> QED
  BY <1>5, <1>6, <1>7 DEF OrchInv

-----------------------------------------------------------------------------
(***************************************************************************)
(* One turn of a step's loop.                                              *)
(***************************************************************************)
\* What a turn may do: go on or end with a result, which a tool that works has
\* earned, within the budget.
LEMMA TurnKeeps ==
    ASSUME OrchInv, NEW s \in In("run"), NEW next \in StepState, NEW r \in Results,
           st' = [st EXCEPT ![s] = next], results' = [results EXCEPT ![s] = r],
           next.phase # "idle", next.phase = "over" \/ results[s] # "none" => r # "none",
           r = "ok" \/ next.last = "ok" => s \in worked',
           worked \subseteq worked', worked' \subseteq All,
           {count', asked'} \subseteq Nat, Budgeted',
           UNCHANGED <<canvas, deps, charts, stage, sink, report, arranged>>
    PROVE  OrchInv'
<1> USE PlanLimits DEF OrchInv
<1>1. /\ s \in All /\ st \in [All -> StepState] /\ results \in [All -> Results]
      /\ st[s].phase = "run"
  BY DEF In, OrchTypeOK, StepState
<1>2. st' \in [All -> StepState] /\ results' \in [All -> Results]
  BY <1>1
<1>3. \A t \in All : /\ st'[t] = IF t = s THEN next ELSE st[t]
                     /\ results'[t] = IF t = s THEN r ELSE results[t]
  BY <1>1
<1>4. OrchTypeOK'
  BY <1>2 DEF OrchTypeOK, StepState
<1>5. Fresh'
  BY <1>1 DEF Fresh
<1>6. \A t \in All : results[t] # "none" => results'[t] # "none"
  BY <1>3
<1>7. Told' /\ EveryStepTold'
  BY <1>3, <1>6 DEF Told, EveryStepTold, Data
<1>8. Earned'
  BY <1>3 DEF Earned
<1>9. DepsFirst'
  <2> SUFFICES ASSUME NEW t \in Data, st'[t].phase # "idle", NEW d \in deps[t] \ charts
               PROVE  results'[d] # "none"
    BY DEF DepsFirst, Data
  <2>1. st[t].phase # "idle" /\ d \in All
    BY <1>1, <1>3 DEF Data, OrchTypeOK
  <2> QED
    BY <1>6, <2>1 DEF DepsFirst
<1> QED
  BY <1>4, <1>5, <1>7, <1>8, <1>9

\* A model call within the budget.
LEMMA AskedInBudget ==
    ASSUME OrchInv, WithinBudget, Asks, UNCHANGED <<canvas, stage>>
    PROVE  {count', asked'} \subseteq Nat /\ Budgeted'
BY PlanLimits DEF OrchInv, OrchTypeOK, Budgeted, WithinBudget, Asks

\* A step ends.
LEMMA EndKeeps ==
    ASSUME OrchInv, NEW s \in In("run"), NEW r \in Results \ {"none"}, Ends(s, r),
           r = "ok" => s \in worked', worked \subseteq worked', worked' \subseteq All,
           {count', asked'} \subseteq Nat, Budgeted',
           UNCHANGED <<canvas, deps, charts, stage, sink, report, arranged>>
    PROVE  OrchInv'
<1> DEFINE next == [st[s] EXCEPT !.phase = "over"]
<1>1. s \in All /\ st[s] \in StepState
  BY DEF OrchInv, OrchTypeOK, StepState, In
<1>2. next \in StepState /\ next.phase = "over" /\ next.last = st[s].last
  BY <1>1 DEF StepState
<1>3. st' = [st EXCEPT ![s] = next] /\ results' = [results EXCEPT ![s] = r]
  BY DEF Ends
<1>4. next.last = "ok" => s \in worked'
  BY <1>1, <1>2 DEF OrchInv, Earned
<1> HIDE DEF next
<1> QED
  BY <1>2, <1>3, <1>4, TurnKeeps

\* A step goes on.
LEMMA GoKeeps ==
    ASSUME OrchInv, NEW s \in In("run"), NEW next \in StepState, Goes(s, next),
           next.phase = "run", NEW r \in Results \ {"none"},
           results' = results \/ results' = [results EXCEPT ![s] = r],
           r = "ok" /\ results' # results => s \in worked', next.last = "ok" => s \in worked',
           worked \subseteq worked', worked' \subseteq All,
           {count', asked'} \subseteq Nat, Budgeted',
           UNCHANGED <<canvas, deps, charts, stage, sink, report, arranged>>
    PROVE  OrchInv'
<1>1. s \in All /\ results \in [All -> Results] /\ st' = [st EXCEPT ![s] = next]
  BY DEF OrchInv, OrchTypeOK, In, Goes
<1>2. CASE results' = results
  <2>1. results' = [results EXCEPT ![s] = results[s]] /\ results[s] \in Results
    BY <1>1, <1>2
  <2>2. results[s] = "ok" => s \in worked'
    BY <1>1 DEF OrchInv, Earned
  <2> QED
    BY <1>1, <2>1, <2>2, TurnKeeps
<1>3. CASE results' # results
  BY <1>1, <1>3, TurnKeeps
<1> QED
  BY <1>2, <1>3

LEMMA SpentKeeps == ASSUME OrchInv, NEW s \in All, Spent(s) PROVE OrchInv'
<1>1. s \in In("run") /\ Ends(s, "skipped") /\ count' = count + 1
      /\ UNCHANGED <<canvas, deps, charts, stage, sink, report, arranged, asked, worked>>
  BY DEF Spent, Loops
<1>2. worked \subseteq All /\ {count', asked'} \subseteq Nat /\ Budgeted'
  BY <1>1, PlanLimits DEF OrchInv, OrchTypeOK, Budgeted
<1> QED
  BY <1>1, <1>2, EndKeeps DEF Results

LEMMA RaiseKeeps == ASSUME OrchInv, NEW s \in All, Raise(s) PROVE OrchInv'
<1>1. /\ s \in In("run") /\ st[s] \in StepState /\ st[s].phase = "run" /\ worked \subseteq All
      /\ st[s].last = "ok" => s \in worked
      /\ UNCHANGED <<canvas, deps, charts, stage, sink, report, arranged, worked>>
  BY DEF OrchInv, OrchTypeOK, StepState, Earned, Raise, Loops, In
<1>2. {count', asked'} \subseteq Nat /\ Budgeted'
  BY <1>1, AskedInBudget DEF Raise
<1>3. CASE Ends(s, "error")
  BY <1>1, <1>2, <1>3, EndKeeps DEF Results
<1>4. ASSUME ~GivesUp(s), Goes(s, [st[s] EXCEPT !.errs = @ + 1]), UNCHANGED results
      PROVE  OrchInv'
  <2> DEFINE next == [st[s] EXCEPT !.errs = @ + 1]
  <2>1. next \in StepState /\ next.phase = "run" /\ next.last = st[s].last
    BY <1>1, <1>4, PlanLimits DEF StepState, GivesUp
  <2> HIDE DEF next
  <2>2. Goes(s, next) /\ "error" \in Results \ {"none"}
    BY <1>4 DEF next, Results
  <2> QED
    BY <1>1, <1>2, <1>4, <2>1, <2>2, GoKeeps
<1> QED
  BY <1>3, <1>4 DEF Raise

LEMMA TextKeeps == ASSUME OrchInv, NEW s \in All, Text(s) PROVE OrchInv'
<1>1. /\ s \in In("run") /\ st[s] \in StepState /\ st[s].phase = "run" /\ worked \subseteq All
      /\ st[s].last = "ok" => s \in worked
      /\ st[s].calls < MaxToolCalls
      /\ UNCHANGED <<canvas, deps, charts, stage, sink, report, arranged, worked>>
  BY DEF OrchInv, OrchTypeOK, StepState, Earned, Text, Loops, In
<1>2. {count', asked'} \subseteq Nat /\ Budgeted'
  BY <1>1, AskedInBudget DEF Text
<1>3. CASE st[s].last = "ok" /\ Ends(s, "ok")
  BY <1>1, <1>2, <1>3, EndKeeps DEF Results
<1>4. CASE Ends(s, "skipped")
  BY <1>1, <1>2, <1>4, EndKeeps DEF Results
<1>5. ASSUME ~(st[s].silent + 1 >= 2), Goes(s, [st[s] EXCEPT !.silent = @ + 1, !.calls = @ + 1]),
             results' = IF canvas THEN results ELSE [results EXCEPT ![s] = "text"]
      PROVE  OrchInv'
  <2> DEFINE next == [st[s] EXCEPT !.silent = @ + 1, !.calls = @ + 1]
  <2>1. next \in StepState /\ next.phase = "run" /\ next.last = st[s].last
    <3>1. st[s].silent + 1 \in 0 .. 1 /\ st[s].calls + 1 \in 0 .. MaxToolCalls + 1
      BY <1>1, <1>5, PlanLimits DEF StepState
    <3> QED
      BY <1>1, <3>1 DEF StepState
  <2> HIDE DEF next
  <2>2. Goes(s, next) /\ "text" \in Results \ {"none"}
    BY <1>5 DEF next, Results
  <2> QED
    BY <1>1, <1>2, <1>5, <2>1, <2>2, GoKeeps
<1> QED
  BY <1>3, <1>4, <1>5 DEF Text

LEMMA DataToolsKeep == ASSUME OrchInv, NEW s \in All, DataTools(s) PROVE OrchInv'
<1>1. /\ s \in In("run") /\ st[s] \in StepState /\ st[s].phase = "run" /\ worked \subseteq All
      /\ st[s].calls < MaxToolCalls
      /\ UNCHANGED <<canvas, deps, charts, stage, sink, report, arranged>>
  BY DEF OrchInv, OrchTypeOK, StepState, DataTools, Loops, In
<1>2. {count', asked'} \subseteq Nat /\ Budgeted'
  BY <1>1, AskedInBudget DEF DataTools
<1>3. PICK n \in 1 .. MaxToolCalls - st[s].calls, good \in 0 .. MaxToolCalls, last \in BOOLEAN :
          /\ good <= n /\ (last => good > 0) /\ (~last => good < n)
          /\ worked' = IF good > 0 THEN worked \cup {s} ELSE worked
          /\ LET next == [st[s] EXCEPT !.calls = @ + n, !.silent = 0, !.errs = 0,
                                       !.bad = @ + n - good, !.last = Verdict(last)]
             IN  \/ Outcome(good, n) = "ok" /\ Goes(s, next)
                      /\ results' = [results EXCEPT ![s] = "ok"]
                 \/ Outcome(good, n) # "ok" /\ Goes(s, next) /\ UNCHANGED results
                 \/ Outcome(good, n) # "ok" /\ next.bad >= MaxRepeats /\ Ends(s, "skipped")
                 \/ good < n /\ Ends(s, "error")
  BY DEF DataTools
<1> DEFINE next == [st[s] EXCEPT !.calls = @ + n, !.silent = 0, !.errs = 0,
                                 !.bad = @ + n - good, !.last = Verdict(last)]
<1>4. next \in StepState /\ next.phase = "run" /\ (next.last = "ok" => good > 0)
  <2>1. Verdict(last) \in {"ok", "error"} /\ (Verdict(last) = "ok" => good > 0)
    BY <1>3 DEF Verdict
  <2>2. /\ st[s].calls + n \in 0 .. MaxToolCalls + 1 /\ st[s].bad + n - good \in Nat
        /\ 0 \in 0 .. MaxErrors - 1
    BY <1>1, <1>3, PlanLimits DEF StepState
  <2> DEFINE calls == st[s].calls + n
             bad == st[s].bad + n - good
             verdict == Verdict(last)
  <2>3. next = [st[s] EXCEPT !.calls = calls, !.silent = 0, !.errs = 0, !.bad = bad,
                             !.last = verdict]
    OBVIOUS
  <2> HIDE DEF next, calls, bad, verdict
  <2>4. calls \in 0 .. MaxToolCalls + 1 /\ bad \in Nat
    BY <2>2 DEF calls, bad
  <2>5. verdict \in {"ok", "error"} /\ (verdict = "ok" => good > 0)
    BY <2>1 DEF verdict
  <2>6. next.last = verdict /\ next.phase = "run"
    BY <1>1, <2>3 DEF StepState
  <2>7. next = [phase |-> st[s].phase, calls |-> calls, errs |-> 0, silent |-> 0, bad |-> bad,
                last |-> verdict]
    BY <1>1, <2>3 DEF StepState
  <2>8. next \in StepState
    BY <1>1, <2>2, <2>4, <2>5, <2>7 DEF StepState
  <2> QED
    BY <2>5, <2>6, <2>8
<1>5. /\ worked \subseteq worked' /\ worked' \subseteq All
      /\ good > 0 => s \in worked'
  BY <1>1, <1>3
<1> HIDE DEF next
<1>6. ASSUME Outcome(good, n) = "ok", Goes(s, next), results' = [results EXCEPT ![s] = "ok"]
      PROVE  OrchInv'
  <2>1. good > 0
    BY <1>3, <1>6 DEF Outcome
  <2> QED
    BY <1>1, <1>2, <1>4, <1>5, <1>6, <2>1, GoKeeps DEF Results
<1>7. ASSUME Goes(s, next), UNCHANGED results
      PROVE  OrchInv'
  <2>1. "text" \in Results \ {"none"}
    BY DEF Results
  <2> QED
    BY <1>1, <1>2, <1>4, <1>5, <1>7, <2>1, GoKeeps
<1>8. CASE Ends(s, "skipped")
  BY <1>1, <1>2, <1>5, <1>8, EndKeeps DEF Results
<1>9. CASE Ends(s, "error")
  BY <1>1, <1>2, <1>5, <1>9, EndKeeps DEF Results
<1> QED
  BY <1>3, <1>6, <1>7, <1>8, <1>9 DEF next

LEMMA CanvasToolsKeep == ASSUME OrchInv, NEW s \in All, CanvasTools(s) PROVE OrchInv'
<1>1. /\ s \in In("run") /\ st[s] \in StepState /\ st[s].phase = "run" /\ worked \subseteq All
      /\ st[s].last = "ok" => s \in worked
      /\ WithinBudget /\ UNCHANGED <<canvas, deps, charts, stage, sink, report, arranged>>
  BY DEF OrchInv, OrchTypeOK, StepState, Earned, CanvasTools, Loops, In, WithinBudget
<1>2. {count', asked'} \subseteq Nat /\ Budgeted'
  BY <1>1, AskedInBudget DEF CanvasTools
<1>3. PICK n \in 1 .. 2, acts \in 0 .. 2, last \in {"ok", "error", "none"} :
          /\ acts <= n /\ (last = "ok" => acts > 0) /\ (last # "ok" => acts < n)
          /\ worked' = IF acts > 0 THEN worked \cup {s} ELSE worked
          /\ LET bad == st[s].bad + (IF last = "error" THEN 1 ELSE 0)
                 calls == st[s].calls + n
             IN  \/ bad >= MaxRepeats /\ Ends(s, "skipped")
                 \/ last = "error" /\ Ends(s, "error")
                 \/ acts > 0 /\ Ends(s, IF last = "ok" THEN "ok" ELSE "error")
                 \/ acts = 0 /\ calls >= MaxToolCalls /\ Ends(s, "skipped")
                 \/ acts = 0 /\ calls < MaxToolCalls /\ UNCHANGED results
                      /\ Goes(s, [st[s] EXCEPT !.calls = calls, !.bad = bad])
  BY DEF CanvasTools
<1> DEFINE bad == st[s].bad + (IF last = "error" THEN 1 ELSE 0)
           calls == st[s].calls + n
           next == [st[s] EXCEPT !.calls = calls, !.bad = bad]
<1>4. /\ worked \subseteq worked' /\ worked' \subseteq All
      /\ acts > 0 => s \in worked'
  BY <1>1, <1>3
<1>5. ASSUME calls < MaxToolCalls, UNCHANGED results, Goes(s, next)
      PROVE  OrchInv'
  <2>1. next \in StepState /\ next.phase = "run" /\ next.last = st[s].last
    <3>1. calls \in 0 .. MaxToolCalls + 1 /\ bad \in Nat
      BY <1>1, <1>3, <1>5, PlanLimits DEF StepState
    <3> HIDE DEF calls, bad
    <3> QED
      BY <1>1, <3>1 DEF StepState
  <2> HIDE DEF next
  <2>2. "text" \in Results \ {"none"}
    BY DEF Results
  <2> QED
    BY <1>1, <1>2, <1>4, <1>5, <2>1, <2>2, GoKeeps
<1>6. CASE Ends(s, "skipped")
  BY <1>1, <1>2, <1>4, <1>6, EndKeeps DEF Results
<1>7. CASE Ends(s, "error")
  BY <1>1, <1>2, <1>4, <1>7, EndKeeps DEF Results
<1>8. CASE acts > 0 /\ Ends(s, "ok")
  BY <1>1, <1>2, <1>4, <1>8, EndKeeps DEF Results
<1> QED
  BY <1>3, <1>5, <1>6, <1>7, <1>8

LEMMA CapKeeps == ASSUME OrchInv, NEW s \in All, Cap(s) PROVE OrchInv'
<1> DEFINE r == IF canvas THEN "skipped" ELSE Verdict(st[s].last = "ok")
<1>1. /\ s \in In("run") /\ Ends(s, r) /\ worked \subseteq All
      /\ {count', asked'} \subseteq Nat /\ Budgeted'
      /\ UNCHANGED <<canvas, deps, charts, stage, sink, report, arranged, worked>>
  BY DEF OrchInv, OrchTypeOK, Budgeted, Cap
<1>2. r \in Results \ {"none"} /\ (r = "ok" => s \in worked)
  BY DEF Results, Verdict, OrchInv, Earned
<1> HIDE DEF r
<1> QED
  BY <1>1, <1>2, EndKeeps

LEMMA TimeoutKeeps == ASSUME OrchInv, NEW s \in All, StepTimeout(s) PROVE OrchInv'
<1>1. /\ s \in In("run") /\ Ends(s, "timeout") /\ worked \subseteq All
      /\ {count', asked'} \subseteq Nat /\ Budgeted'
      /\ UNCHANGED <<canvas, deps, charts, stage, sink, report, arranged, worked>>
  BY DEF OrchInv, OrchTypeOK, Budgeted, StepTimeout
<1> QED
  BY <1>1, EndKeeps DEF Results

-----------------------------------------------------------------------------
(***************************************************************************)
(* The nodes of the graph.                                                 *)
(***************************************************************************)
LEMMA PlanKeeps == ASSUME OrchInv, Plan PROVE OrchInv'
<1> USE PlanLimits DEF OrchInv, Plan
<1>1. {count', asked'} \subseteq Nat /\ asked = 0
  BY DEF OrchTypeOK, Fresh
<1>2. OrchTypeOK'
  BY <1>1 DEF OrchTypeOK
<1>3. Fresh' /\ Told' /\ EveryStepTold'
  BY DEF Fresh, Told, EveryStepTold
<1>4. Budgeted'
  BY <1>1 DEF Budgeted
<1>5. Earned' /\ DepsFirst'
  BY DEF Earned, DepsFirst, Data
<1> QED
  BY <1>2, <1>3, <1>4, <1>5

\* Steps that start know the results of the data steps they depend on.
LEMMA StartsKeep ==
    ASSUME OrchInv, NEW which \in SUBSET All, st' = Started(which), stage # "plan",
           \A s \in which \cap Data : \A d \in deps[s] \ charts : results[d] # "none",
           \/ stage' = stage
           \/ stage' = "fill" /\ canvas /\ stage # "done" /\ \A s \in Data : results[s] # "none",
           UNCHANGED <<canvas, deps, charts, results, sink, count, report, arranged, asked, worked>>
    PROVE  OrchInv'
<1> USE PlanLimits DEF OrchInv
<1> DEFINE new == [Idle EXCEPT !.phase = "run"]
<1>1. new \in StepState /\ new.phase = "run" /\ new.last = "none"
  BY DEF StepState, Idle
<1> HIDE DEF new
<1>2. /\ st \in [All -> StepState] /\ st' \in [All -> StepState]
      /\ \A s \in All : st'[s] = IF s \in which THEN new ELSE st[s]
  BY <1>1 DEF OrchTypeOK, StepState, Started, new
<1>3. OrchTypeOK'
  BY <1>2 DEF OrchTypeOK, StepState
<1>4. Fresh' /\ Told' /\ EveryStepTold' /\ Budgeted'
  BY <1>1, <1>2 DEF Fresh, Told, EveryStepTold, Budgeted, Data
<1>5. Earned'
  BY <1>1, <1>2 DEF Earned
<1>6. DepsFirst'
  <2> SUFFICES ASSUME NEW s \in Data, st'[s].phase # "idle", NEW d \in deps[s] \ charts
               PROVE  results[d] # "none"
    BY DEF DepsFirst, Data
  <2> QED
    BY <1>2 DEF DepsFirst, Data
<1> QED
  BY <1>3, <1>4, <1>5, <1>6

\* A level: what its steps depend on has started before, and nothing runs.
LEMMA LevelKeeps == ASSUME OrchInv, StartLevel PROVE OrchInv'
<1>1. /\ stage = "steps" /\ In("run") = {} /\ st' = Started(Level) /\ Level \subseteq All
      /\ UNCHANGED <<canvas, deps, charts, stage, results, sink, count, report, arranged, asked,
                     worked>>
  BY PlanLimits DEF StartLevel, Level, Data
<1>2. ASSUME NEW s \in Level, NEW d \in deps[s] \ charts PROVE results[d] # "none"
  <2>1. d \in Data /\ d \in All
    BY PlanLimits DEF Level, Data, OrchInv, OrchTypeOK
  <2>2. st[d].phase = "over"
    BY <1>1, <2>1 DEF Level, In, OrchInv, OrchTypeOK
  <2> QED
    BY <1>1, <2>1, <2>2 DEF OrchInv, Told
<1> QED
  BY <1>1, <1>2, StartsKeep

LEMMA ChartKeeps == ASSUME OrchInv, StartChart PROVE OrchInv'
<1>1. PICK s \in charts \cap In("idle") : st' = Started({s})
  BY DEF StartChart
<1>2. /\ stage = "charts" /\ {s} \subseteq All /\ {s} \cap Data = {}
      /\ UNCHANGED <<canvas, deps, charts, stage, results, sink, count, report, arranged, asked,
                     worked>>
  BY <1>1 DEF StartChart, Data, In
<1> QED
  BY <1>1, <1>2, StartsKeep

\* The data steps are over: each has its result.
LEMMA DataTold ==
    ASSUME OrchInv, stage # "done", Data \subseteq In("over")
    PROVE  \A s \in Data : results[s] # "none"
BY DEF OrchInv, Told, In

LEMMA StepsDoneKeeps == ASSUME OrchInv, StepsDone PROVE OrchInv'
<1> USE PlanLimits DEF OrchInv
<1>1. /\ stage = "steps" /\ \A s \in Data : results[s] # "none"
      /\ stage' \in {"report", "charts"} /\ sink' = results'
      /\ stage' = "report" => charts = {} \/ count >= Budget
      /\ UNCHANGED <<canvas, deps, charts, st, count, report, arranged, asked, worked>>
  BY DataTold DEF StepsDone
<1>2. results' = IF count >= Budget THEN Skipped(charts) ELSE results
  BY DEF StepsDone
<1>3. results \in [All -> Results] /\ charts \subseteq Steps /\ Data \subseteq All
  BY DEF OrchTypeOK, Data
<1>4. /\ results' \in [All -> Results]
      /\ \A s \in All : results'[s] = results[s] \/ results'[s] = "skipped"
      /\ count >= Budget => \A s \in charts : results'[s] = "skipped"
  BY <1>2, <1>3 DEF Skipped, Results
<1>5. OrchTypeOK'
  BY <1>1, <1>4 DEF OrchTypeOK
<1>6. Fresh' /\ Told' /\ Budgeted'
  BY <1>1, <1>3, <1>4 DEF Fresh, Told, Budgeted, Data
<1>7. EveryStepTold'
  BY <1>1, <1>3, <1>4 DEF EveryStepTold, Data
<1>8. Earned'
  BY <1>1, <1>4 DEF Earned
<1>9. DepsFirst'
  <2> SUFFICES ASSUME NEW s \in Data, st[s].phase # "idle", NEW d \in deps[s] \ charts
               PROVE  results'[d] # "none"
    BY <1>1 DEF DepsFirst, Data
  <2>1. d \in All /\ results[d] # "none"
    BY DEF DepsFirst, Data, OrchTypeOK
  <2> QED
    BY <1>4, <2>1
<1> QED
  BY <1>5, <1>6, <1>7, <1>8, <1>9

\* To the report with the results as they are, each step having one.
LEMMA ToReportKeeps ==
    ASSUME OrchInv, stage \notin {"plan", "done"}, stage' = "report", sink' = results,
           \A s \in Steps : results[s] # "none", arranged' \in BOOLEAN,
           UNCHANGED <<canvas, deps, charts, st, results, count, report, asked, worked>>
    PROVE  OrchInv'
<1> USE DEF OrchInv
<1>1. OrchTypeOK'
  BY DEF OrchTypeOK
<1>2. Fresh' /\ Told' /\ EveryStepTold' /\ Budgeted'
  BY DEF Fresh, Told, EveryStepTold, Budgeted, Data
<1>3. Earned' /\ DepsFirst'
  BY DEF Earned, DepsFirst, Data
<1> QED
  BY <1>1, <1>2, <1>3

LEMMA ChartsDoneKeeps == ASSUME OrchInv, ChartsDone PROVE OrchInv'
<1>1. \A s \in charts : results[s] # "none"
  BY DEF OrchInv, Told, ChartsDone, ChartsOver, In
<1>2. \A s \in Steps : results[s] # "none"
  BY <1>1 DEF OrchInv, Told, ChartsDone, Data
<1>3. arranged \in BOOLEAN
  BY DEF OrchInv, OrchTypeOK
<1> QED
  BY <1>2, <1>3, ToReportKeeps DEF ChartsDone

LEMMA FillKeeps == ASSUME OrchInv, Fill PROVE OrchInv'
<1>1. charts = {} /\ Data = Steps
  BY DEF OrchInv, Told, Fill, Data
<1>2. \A s \in Data : results[s] # "none"
  BY DataTold DEF Fill
<1>3. CASE stage' = "fill" /\ st' = Started({Extra}) /\ UNCHANGED <<sink, arranged>>
  <2>1. {Extra} \subseteq All /\ {Extra} \cap Data = {}
    BY <1>1, PlanLimits
  <2> QED
    BY <1>2, <1>3, <2>1, StartsKeep DEF Fill
<1>4. CASE /\ stage' = "report" /\ sink' = results /\ UNCHANGED st
           /\ arranged' = (\E s \in All : results[s] = "ok")
  BY <1>1, <1>2, <1>4, ToReportKeeps DEF Fill
<1> QED
  BY <1>3, <1>4 DEF Fill

LEMMA FilledKeeps == ASSUME OrchInv, Filled PROVE OrchInv'
<1>1. \A s \in Steps : results[s] # "none"
  <2>1. \A s \in Data : results[s] # "none"
    BY DEF OrchInv, Told, Filled
  <2>2. Data = Steps
    BY DEF OrchInv, Told, Filled, Data
  <2> QED
    BY <2>1, <2>2
<1> QED
  BY <1>1, ToReportKeeps DEF Filled

LEMMA ReportKeeps == ASSUME OrchInv, Report PROVE OrchInv'
<1> USE PlanLimits DEF OrchInv, Report
<1>1. {count', asked'} \subseteq Nat /\ report' \in [All -> Results] /\ stage' = "done"
  BY DEF OrchTypeOK
<1>2. OrchTypeOK'
  BY <1>1 DEF OrchTypeOK
<1>3. Fresh' /\ Told' /\ EveryStepTold'
  BY <1>1 DEF Fresh, Told, EveryStepTold
<1>4. Budgeted'
  BY <1>1 DEF Budgeted, OrchTypeOK
<1>5. Earned' /\ DepsFirst'
  BY DEF Earned, DepsFirst, Data
<1> QED
  BY <1>2, <1>3, <1>4, <1>5

\* Time runs out: what runs is cancelled, and nothing else is said of it.
LEMMA WholeTimeoutKeeps == ASSUME OrchInv, WholeTimeout PROVE OrchInv'
<1> USE PlanLimits DEF OrchInv, WholeTimeout
<1>1. st \in [All -> StepState]
  BY DEF OrchTypeOK, StepState
<1>2. ASSUME NEW s \in All
      PROVE  /\ st'[s] \in StepState /\ st'[s].last = st[s].last
             /\ st'[s].phase # "idle" => st[s].phase # "idle"
  <2> DEFINE next == [st[s] EXCEPT !.phase = "over"]
  <2>1. next \in StepState /\ next.last = st[s].last
    BY <1>1 DEF StepState
  <2>2. st'[s] = IF st[s].phase = "run" THEN next ELSE st[s]
    OBVIOUS
  <2> HIDE DEF next
  <2> QED
    BY <1>1, <2>1, <2>2
<1>3. st' = [s \in All |-> st'[s]]
  OBVIOUS
<1>4. st' \in [All -> StepState]
  BY <1>2, <1>3
<1>5. OrchTypeOK'
  BY <1>4 DEF OrchTypeOK, StepState
<1>6. Fresh' /\ Told' /\ EveryStepTold' /\ Budgeted'
  BY DEF Fresh, Told, EveryStepTold, Budgeted
<1>7. Earned'
  BY <1>2 DEF Earned
<1>8. DepsFirst'
  BY <1>2 DEF DepsFirst, Data
<1> QED
  BY <1>5, <1>6, <1>7, <1>8

LEMMA NodeRaisesKeeps == ASSUME OrchInv, NodeRaises PROVE OrchInv'
<1> USE DEF OrchInv, NodeRaises
<1>1. OrchTypeOK'
  BY DEF OrchTypeOK
<1>2. Fresh' /\ Told' /\ EveryStepTold' /\ Budgeted'
  BY DEF Fresh, Told, EveryStepTold, Budgeted
<1>3. Earned' /\ DepsFirst'
  BY DEF Earned, DepsFirst, Data
<1> QED
  BY <1>1, <1>2, <1>3

LEMMA OrchStutter == ASSUME OrchInv, UNCHANGED orchVars PROVE OrchInv'
<1> USE DEF OrchInv, orchVars
<1>1. OrchTypeOK' /\ Fresh' /\ Told'
  BY DEF OrchTypeOK, Fresh, Told, Data
<1>2. EveryStepTold' /\ Budgeted' /\ Earned' /\ DepsFirst'
  BY DEF EveryStepTold, Budgeted, Earned, DepsFirst, Data
<1> QED
  BY <1>1, <1>2

\* The invariant holds in every run of the graph.
LEMMA OrchInvariant == OrchInit /\ [][OrchNext]_orchVars => []OrchInv
<1>1. ASSUME OrchInv, NEW s \in All, StepGoes(s) \/ StepTimeout(s) PROVE OrchInv'
  BY <1>1, SpentKeeps, RaiseKeeps, TextKeeps, DataToolsKeep, CanvasToolsKeep, CapKeeps, TimeoutKeeps
     DEF StepGoes
<1>2. OrchInv /\ Advance => OrchInv'
  BY PlanKeeps, LevelKeeps, ChartKeeps, StepsDoneKeeps, ChartsDoneKeeps, FillKeeps, FilledKeeps,
     ReportKeeps DEF Advance
<1>3. OrchInv /\ [OrchNext]_orchVars => OrchInv'
  BY <1>1, <1>2, WholeTimeoutKeeps, NodeRaisesKeeps, OrchStutter DEF OrchNext
<1> QED
  BY <1>3, OrchInitially, PTL

\* The orchestrators keep the loops of their steps within their limits.
THEOREM OrchTypeCorrect == OrchSpec => []OrchTypeOK
BY OrchInvariant, PTL DEF OrchInv, OrchSpec

\* A plan is run in its order, within its budget of model calls, whatever its
\* steps do next to each other, and its report finds a result of every step, of
\* which none is called done without a tool that worked.
THEOREM PlansAreSound == OrchSpec => []PlanSound
<1>1. OrchInv => PlanSound
  BY PlanLimits
     DEF OrchInv, Told, Budgeted, Earned, PlanSound, CallsBounded, DoneMeansWorked
<1> QED
  BY <1>1, OrchInvariant, PTL DEF OrchSpec

-----------------------------------------------------------------------------
(***************************************************************************)
(* The write window.                                                       *)
(***************************************************************************)
\* The values of the keys and counters are those DuckTypeOK names, through every
\* step of the windows, the queries and the coordination loops.
THEOREM DuckTypeCorrect == DuckSpec => []DuckTypeOK
<1> USE TTLAssumption, WindowsAssumption
<1>1. DuckInit => DuckTypeOK
  BY DEF DuckInit, DuckTypeOK
<1>2. DuckTypeOK /\ [DuckNext]_duckVars => DuckTypeOK'
  <2> SUFFICES ASSUME DuckTypeOK, [DuckNext]_duckVars PROVE DuckTypeOK'
    OBVIOUS
  <2> USE DEF DuckTypeOK
  <2>1. ASSUME NEW p \in Process, Query(p) PROVE DuckTypeOK'
    BY <2>1 DEF Query
  <2>2. ASSUME NEW p \in Process, Coordination(p) PROVE DuckTypeOK'
    BY <2>2 DEF Coordination, Look, Renew
  <2>3. ASSUME NEW p \in Process, Enter(p) PROVE DuckTypeOK'
    BY <2>3 DEF Enter, Step
  <2>4. ASSUME NEW p \in Process, Window(p) PROVE DuckTypeOK'
    BY <2>4 DEF Window, Leave, Announce, Await, Open, Written, Close, Retract, Step
  <2>5. ASSUME NEW p \in Process, Die(p) PROVE DuckTypeOK'
    BY <2>5 DEF Die
  <2>6. CASE Tick
    BY <2>6 DEF Tick, Left
  <2>7. CASE UNCHANGED duckVars
    BY <2>7 DEF duckVars
  <2> QED
    BY <2>1, <2>2, <2>3, <2>4, <2>5, <2>6, <2>7 DEF DuckNext
<1> QED
  BY <1>1, <1>2, PTL DEF DuckSpec

-----------------------------------------------------------------------------
\* A connection the writers cannot know of exists only inside a window of its
\* own process, between its unregistering and its close; the read-write
\* connection only while the window writes.
Hidden == {"announce", "await", "open", "close"}

ReaderInv ==
    /\ DuckTypeOK
    /\ \A p \in Process :
          /\ conn[p] = "ro" /\ p \notin registered => pc[p] \in Hidden
          /\ pc[p] = "write" => conn[p] = "rw"
          /\ conn[p] = "rw" => pc[p] \in {"write", "close"}

\* Outside the windows of its process every reader is registered, whatever
\* queries, windows and deaths interleave.
THEOREM ReadersAreKnown == DuckSpec => []ReadersRegister
<1>1. DuckInit => ReaderInv
  <2> SUFFICES ASSUME DuckInit PROVE ReaderInv
    OBVIOUS
  <2>1. DuckTypeOK
    BY TTLAssumption, WindowsAssumption DEF DuckInit, DuckTypeOK
  <2> QED
    BY <2>1 DEF DuckInit, ReaderInv
<1>2. DuckTypeOK' /\ ReaderInv /\ [DuckNext]_duckVars => ReaderInv'
  <2> SUFFICES ASSUME DuckTypeOK', ReaderInv, [DuckNext]_duckVars PROVE ReaderInv'
    OBVIOUS
  <2> USE DEF ReaderInv, DuckTypeOK, Hidden
  <2>1. ASSUME NEW p \in Process, Query(p) PROVE ReaderInv'
    BY <2>1 DEF Query
  <2>2. ASSUME NEW p \in Process, Coordination(p) PROVE ReaderInv'
    BY <2>2 DEF Coordination, Look, Renew
  <2>3. ASSUME NEW p \in Process, Enter(p) PROVE ReaderInv'
    BY <2>3 DEF Enter, Step
  <2>4. ASSUME NEW p \in Process, Window(p) PROVE ReaderInv'
    <3>1. CASE Leave(p) \/ Announce(p) \/ Await(p)
      BY <2>4, <3>1 DEF Leave, Announce, Await, Step
    <3>2. CASE Open(p)
      BY <2>4, <3>2 DEF Open, Step, MayWrite
    <3>3. CASE Written(p) \/ Close(p) \/ Retract(p)
      BY <2>4, <3>3 DEF Written, Close, Retract, Step
    <3> QED
      BY <2>4, <3>1, <3>2, <3>3 DEF Window
  <2>5. ASSUME NEW p \in Process, Die(p) PROVE ReaderInv'
    BY <2>5 DEF Die
  <2>6. CASE Tick
    BY <2>6 DEF Tick
  <2>7. CASE UNCHANGED duckVars
    BY <2>7 DEF duckVars
  <2> QED
    BY <2>1, <2>2, <2>3, <2>4, <2>5, <2>6, <2>7 DEF DuckNext
<1>3. ReaderInv => ReadersRegister
  BY DEF ReaderInv, ReadersRegister, Hidden
<1> QED
  BY <1>1, <1>2, <1>3, DuckTypeCorrect, PTL DEF DuckSpec

-----------------------------------------------------------------------------
\* Each part of the suite runs as its module says while the others rest, so what the
\* worker, the graph and the window keep to holds of the suite that is checked.
THEOREM TypeCorrect == Spec => []TypeOK
<1>1. Init => ReactInit /\ OrchInit /\ DuckInit
  BY DEF Init
<1>2. [Next]_vars => [ReactNext]_reactVars /\ [OrchNext]_orchVars /\ [DuckNext]_duckVars
  BY DEF Next, vars
<1>3. ReactInv /\ OrchInv /\ DuckTypeOK => TypeOK
  BY DEF ReactInv, OrchInv, TypeOK
<1> QED
  BY <1>1, <1>2, <1>3, ReactInvariant, OrchInvariant, DuckTypeCorrect, PTL DEF Spec, DuckSpec
=============================================================================
