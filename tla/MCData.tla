------------------------------- MODULE MCData --------------------------------
(* What the canvases and the dashboards show and where it comes from, each    *)
(* on its own: query results, metric definitions, their uses, one dashboard,  *)
(* and where the blocks of a canvas lie.                                      *)
EXTENDS QueryCache, Metrics, Boards, Layout

VARIABLE part

\* Beside a block of the grid and near its corner.
SomeSpots == {[x |-> 500, y |-> 37], [x |-> 18, y |-> 2]}

LayoutRests == wide = 0 /\ persists

Init ==
    /\ CacheInit /\ MetricsInit /\ UsesInit /\ BoardsInit /\ LayoutInit
    /\ \/ part \in {"cache", "metrics", "uses", "board"} /\ LayoutRests
       \/ part = "layout"
Next ==
    \/ part = "cache" /\ CacheNext /\ UNCHANGED <<part, metricsVars, usesVars, boardsVars, layoutVars>>
    \/ part = "metrics" /\ MetricsNext /\ UNCHANGED <<part, cacheVars, usesVars, boardsVars, layoutVars>>
    \/ part = "uses" /\ UsesNext /\ UNCHANGED <<part, cacheVars, metricsVars, boardsVars, layoutVars>>
    \/ part = "board" /\ BoardsNext /\ UNCHANGED <<part, cacheVars, metricsVars, usesVars, layoutVars>>
    \/ part = "layout" /\ LayoutNext /\ UNCHANGED <<part, cacheVars, metricsVars, usesVars, boardsVars>>
vars == <<part, cacheVars, metricsVars, usesVars, boardsVars, layoutVars>>

\* UsesFair and BoardsFair, each in its part.
Fair ==
    /\ \A b \in Boards : WF_usesVars(part = "uses" /\ Notify(b))
    /\ WF_boardsVars(part = "board" /\ Fetch) /\ SF_boardsVars(part = "board" /\ Built)
    /\ WF_boardsVars(part = "board" /\ Expire) /\ WF_boardsVars(part = "board" /\ Reopen)
    /\ WF_boardsVars(part = "board" /\ Hear)
Spec == Init /\ [][Next]_vars /\ Fair

TypeOK ==
    /\ part = "cache" => CacheTypeOK
    /\ part = "metrics" => MetricsTypeOK
    /\ part = "uses" => UsesTypeOK
    /\ part = "board" => BoardsTypeOK
    /\ part = "layout" => LayoutTypeOK

\* LayoutSound, in its part: what is computed from a list of blocks is what it is
\* meant to be.
LayoutHolds == part = "layout" => LayoutSound

\* ClearedHere, HistoryWhole, WalkIsReach and SavedIsListed, each in its part: what
\* requests that overlap leave in the cache and in the rows, and what is read off those.
RowsWhole ==
    /\ part = "cache" => ClearedHere
    /\ part = "metrics" => HistoryWhole /\ WalkIsReach
    /\ part = "uses" => SavedIsListed

\* The rows and the answers kept of them are whole, and no request changes a version that
\* was published or takes a dashboard off the list of a metric's users.
RowsKept == []RowsWhole /\ HistoryStands /\ BoardsStayListed

\* ListedIsTold, CatchesUp and NewestHeard, each in its part: whoever shows data
\* comes to show them as they are in the end.
PagesFollow ==
    /\ part = "uses" => ListedIsTold
    /\ part = "board" => CatchesUp
    /\ part = "board" => NewestHeard

=============================================================================
