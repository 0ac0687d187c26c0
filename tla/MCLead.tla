-------------------------------- MODULE MCLead --------------------------------
(* The agent of a round, the memory of its session and what the model is     *)
(* shown of both, each on its own: part says which of the three this         *)
(* behaviour is of, and the others stay put.                                 *)
EXTENDS LeadAgent, SessionMemory, ContextWindow

VARIABLE part

\* lead_agent_tools.QUOTA with one observation less, one dispatch less and
\* one repair less.
SmallQuota == [observe |-> 1, dispatch |-> 2, repair |-> 1]

\* A table of 60 rows, a long error, a description and a plain text.
SmallResults ==
    {[kind |-> "rows", size |-> 9000, rows |-> 60], [kind |-> "error", size |-> 2500, rows |-> 0],
     [kind |-> "meta", size |-> 5000, rows |-> 0], [kind |-> "plain", size |-> 3000, rows |-> 0]}

\* No chart, or two that fill the note.
SmallCharts == {<<>>, <<615, 615>>}

LeadRests == mode = "legacy" /\ entry = "chat" /\ msg = ClearGoal

Init ==
    /\ LeadInit /\ MemoryInit /\ ContextInit
    /\ \/ part = "lead"
       \/ part \in {"memory", "context"} /\ LeadRests
Next ==
    \/ part = "lead" /\ LeadNext /\ UNCHANGED <<part, memoryVars, contextVars>>
    \/ part = "memory" /\ MemoryNext /\ UNCHANGED <<part, leadVars, contextVars>>
    \/ part = "context" /\ ContextNext /\ UNCHANGED <<part, leadVars, memoryVars>>
vars == <<part, leadVars, memoryVars, contextVars>>

\* LeadFair, of the one part that has fairness.
Fair == WF_leadVars(part = "lead" /\ Turn) /\ WF_leadVars(part = "lead" /\ Kernel)
Spec == Init /\ [][Next]_vars /\ Fair

TypeOK ==
    /\ part = "lead" => LeadTypeOK
    /\ part = "memory" => MemoryTypeOK
    /\ part = "context" => ContextTypeOK

\* RequestEnds, where requests are made.
EveryRequestEnds == part = "lead" => RequestEnds

=============================================================================
