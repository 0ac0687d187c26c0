------------------------------ MODULE MCWorkers ------------------------------
(* The loop of one worker, the two graphs that run steps of a plan and the    *)
(* write window their SQL waits for, each on its own: part says which of them *)
(* this behaviour is of.                                                      *)
EXTENDS ReactLoop, Orchestrator, DuckWindow

VARIABLE part

GraphRests == ~canvas /\ charts = {} /\ \A s \in Steps : deps[s] = {}

Init ==
    /\ ReactInit /\ OrchInit /\ DuckInit
    /\ \/ part \in {"react", "duck"} /\ GraphRests
       \/ part = "graph"
Next ==
    \/ part = "react" /\ ReactNext /\ UNCHANGED <<part, orchVars, duckVars>>
    \/ part = "graph" /\ OrchNext /\ UNCHANGED <<part, reactVars, duckVars>>
    \/ part = "duck" /\ DuckNext /\ UNCHANGED <<part, reactVars, orchVars>>
vars == <<part, reactVars, orchVars, duckVars>>

\* ReactFair, OrchFair and DuckFair, each in its part.
Fair ==
    /\ WF_reactVars(part = "react" /\ ReactNext)
    /\ WF_orchVars(part = "graph" /\ Advance)
    /\ \A s \in All : WF_orchVars(part = "graph" /\ StepTimeout(s))
    /\ \A p \in Process : /\ WF_duckVars(part = "duck" /\ Window(p))
                         /\ WF_duckVars(part = "duck" /\ Coordination(p))
    /\ WF_duckVars(part = "duck" /\ Tick)
Spec == Init /\ [][Next]_vars /\ Fair

TypeOK ==
    /\ part = "react" => ReactTypeOK
    /\ part = "graph" => OrchTypeOK
    /\ part = "duck" => DuckTypeOK

\* ReactEnds and OrchEnds, each in its part: whatever the model answers and the
\* tools do, the loop of a worker and the graph of a plan come to their end.
EveryLoopEnds ==
    /\ part = "react" => ReactEnds
    /\ part = "graph" => OrchEnds

\* WindowsEnd and IntentHeals where there are windows: neither the death of a
\* writer nor that of a reader keeps the others off the file for ever.
FileHeals ==
    /\ part = "duck" => WindowsEnd
    /\ part = "duck" => IntentHeals

=============================================================================
