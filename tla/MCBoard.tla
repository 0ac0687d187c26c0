------------------------------- MODULE MCBoard -------------------------------
(* What shows and keeps a canvas, each on its own: the agent's actions on its *)
(* blocks, the saves of the page, the assistant next to it.                   *)
EXTENDS CanvasActions, CanvasAutosave, AssistantStore

VARIABLE part

ActionsRest == persist
StoreRests == created = Canvases /\ talked = created /\ running = {}

Init ==
    /\ CanvasInit /\ AutosaveInit /\ StoreInit
    /\ \/ part = "actions" /\ StoreRests
       \/ part = "autosave" /\ ActionsRest /\ StoreRests
       \/ part = "assistant" /\ ActionsRest
Next ==
    \/ part = "actions" /\ CanvasNext /\ UNCHANGED <<part, autosaveVars, storeVars>>
    \/ part = "autosave" /\ AutosaveNext /\ UNCHANGED <<part, canvasVars, storeVars>>
    \/ part = "assistant" /\ StoreNext /\ UNCHANGED <<part, canvasVars, autosaveVars>>
vars == <<part, canvasVars, autosaveVars, storeVars>>

\* AutosaveFair and StoreFair, each in its part.
Fair ==
    /\ WF_autosaveVars(part = "autosave" /\ Fire)
    /\ WF_autosaveVars(part = "autosave" /\ LandSome)
    /\ WF_autosaveVars(part = "autosave" /\ AnswerSome)
    /\ \A i \in Streams : WF_storeVars(part = "assistant" /\ Begin(i))
                          /\ WF_storeVars(part = "assistant" /\ End(i))
Spec == Init /\ [][Next]_vars /\ Fair

TypeOK ==
    /\ part = "actions" => CanvasTypeOK
    /\ part = "autosave" => AutosaveTypeOK
    /\ part = "assistant" => StoreTypeOK

\* Settles and Unlocks, each in its part: what was edited comes to its row, and
\* the input of the assistant opens again.
PageSettles ==
    /\ part = "autosave" => Settles
    /\ part = "assistant" => Unlocks

=============================================================================
