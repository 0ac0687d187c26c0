---------------------------- MODULE CanvasAutosave ---------------------------
(***************************************************************************)
(* The autosave of FreeCanvas: the effect that runs when the blocks or the *)
(* canvas change, its 1.5 s timer, its cleanup, flushBlocksNow before a    *)
(* message, and the PUT requests they send, which may reach the server in  *)
(* any order and fail.                                                     *)
(*                                                                         *)
(* The blocks of a canvas are a number; 0 is the empty list, the same on   *)
(* every canvas.                                                           *)
(***************************************************************************)
EXTENDS Integers, Sequences, SequencesExt

CONSTANTS
    UserCanvases,  \* the canvases of the user
    MaxEdits,  \* bound: edits and messages
    MaxPuts,   \* bound: requests without an answer
    MaxOpens,  \* bound: canvases opened
    Nothing       \* no snapshot, no effect, no answer awaited

Drafts == 0 .. MaxEdits
Snapshot == [c : UserCanvases, v : Drafts]
Effect == [c : UserCanvases, v : Drafts, fired : BOOLEAN]

ASSUME AutosaveAssumption ==
    /\ {MaxEdits, MaxPuts, MaxOpens} \subseteq Nat \ {0}
    /\ UserCanvases # {} /\ Nothing \notin Snapshot \cup Effect

Put == [c : UserCanvases, v : Drafts, kind : {"timer", "cleanup", "flush"}, landed : BOOLEAN]
Losses == {"undo", "forgotten", "order", "stale", "failed"}

VARIABLES
    saved,    \* Canvas.blocks of each canvas
    cur,      \* canvasId
    blocks,   \* the blocks the page shows
    lastSync, \* lastBackendSyncRef
    pending,  \* pendingSaveRef
    effect,   \* the snapshot the last run of the effect captured, its timer
    puts,     \* requests without an answer, in the order they were sent
    fetched,  \* answer to openCanvasById on its way
    edits, opens, \* counters
    last,     \* ghost: what the page last showed of each canvas
    shown,    \* ghost: every list it showed of each canvas
    losses    \* ghost: the known ways of losing an edit that happened

autosaveVars == <<saved, cur, blocks, lastSync, pending, effect, puts, fetched, edits, opens,
                  last, shown, losses>>

AutosaveTypeOK ==
    /\ saved \in [UserCanvases -> Drafts] /\ last \in [UserCanvases -> Drafts]
    /\ shown \in [UserCanvases -> SUBSET Drafts]
    /\ cur \in UserCanvases /\ blocks \in Drafts /\ lastSync \in Drafts \cup {Nothing}
    /\ pending \in Snapshot \cup {Nothing} /\ fetched \in Snapshot \cup {Nothing}
    /\ effect = Nothing \/ effect \in Effect
    /\ puts \in Seq(Put) /\ Len(puts) <= MaxPuts /\ losses \subseteq Losses
    /\ edits \in 0 .. MaxEdits /\ opens \in 0 .. MaxOpens

AutosaveInit ==
    /\ saved = [c \in UserCanvases |-> 0] /\ last = saved /\ shown = [c \in UserCanvases |-> {0}]
    /\ cur = CHOOSE c \in UserCanvases : TRUE
    /\ blocks = 0 /\ lastSync = Nothing /\ pending = Nothing /\ effect = Nothing
    /\ puts = <<>> /\ fetched = Nothing /\ edits = 0 /\ opens = 0 /\ losses = {}

-----------------------------------------------------------------------------
\* Mutation: a request carries the synchronised list instead of the shown one.
Request_synced(c, v, kind) == [c |-> c, v |-> lastSync, kind |-> kind, landed |-> FALSE]
Request(c, v, kind) == [c |-> c, v |-> v, kind |-> kind, landed |-> FALSE]

\* The row of c will hold v once these requests have landed in order.
Flying(sent, c) == {i \in DOMAIN sent : sent[i].c = c /\ ~sent[i].landed}
WillHold(sent, c, v) ==
    \/ Flying(sent, c) = {} /\ saved[c] = v
    \/ \E i \in Flying(sent, c) : sent[i].v = v /\ \A j \in Flying(sent, c) : j <= i

\* The cleanup of the effect: the timer is cleared, and a snapshot that is
\* still pending is sent at once.
\* Mutation: the cleanup only clears the timer.
Leftover_dropped(c) == <<>>
\* Mutation: the cleanup sends it to the canvas the page now shows.
Leftover_current(c) == IF effect # Nothing /\ pending # Nothing /\ pending.c = effect.c
                       THEN <<Request(c, pending.v, "cleanup")>> ELSE <<>>
Leftover(c) == IF effect # Nothing /\ pending # Nothing /\ pending.c = effect.c
               THEN <<Request(effect.c, pending.v, "cleanup")>> ELSE <<>>

\* The page shows v of canvas c: cleanup, then the effect, which does nothing
\* when v is what was last saved, of whatever canvas.
Render(c, v, lost) ==
    LET sent == puts \o Leftover(c)
        left == IF Leftover(c) # <<>> THEN Nothing ELSE pending
    IN  /\ Len(sent) <= MaxPuts /\ puts' = sent
        /\ cur' = c /\ blocks' = v /\ last' = [last EXCEPT ![c] = v]
        /\ shown' = [shown EXCEPT ![c] = @ \cup {v}]
        /\ IF v = lastSync
           THEN /\ effect' = Nothing /\ pending' = left
                /\ losses' = losses \cup lost \cup (IF ~WillHold(sent, c, v) THEN {"undo"} ELSE {})
           ELSE /\ effect' = [c |-> c, v |-> v, fired |-> FALSE]
                /\ pending' = [c |-> c, v |-> v]
                /\ losses' = losses \cup lost

\* An edit of the user or of the agent: a new list, the saved one again, or
\* none.
Edit ==
    /\ edits < MaxEdits /\ edits' = edits + 1
    /\ \E v \in {edits + 1, saved[cur], 0} : v # blocks /\ Render(cur, v, {})
    /\ UNCHANGED <<saved, lastSync, fetched, opens>>

\* The timer of the effect fires.  The request goes to the canvas the effect
\* captured.
\* Mutation: the timer never fires.
Fire_never == FALSE /\ UNCHANGED autosaveVars
Fire ==
    /\ effect # Nothing /\ ~effect.fired /\ Len(puts) < MaxPuts
    /\ effect' = [effect EXCEPT !.fired = TRUE]
    /\ puts' = Append(puts, Request(effect.c, effect.v, "timer"))
    /\ UNCHANGED <<saved, cur, blocks, lastSync, pending, fetched, edits, opens, last, shown, losses>>

\* flushBlocksNow sends what the page shows; the timer stays.
FlushNow ==
    /\ edits < MaxEdits /\ edits' = edits + 1 /\ Len(puts) < MaxPuts
    /\ puts' = Append(puts, Request(cur, blocks, "flush"))
    /\ UNCHANGED <<saved, cur, blocks, lastSync, pending, effect, fetched, opens, last, shown, losses>>

\* PUT /canvases/{id}/blocks.
PutLands(i) ==
    /\ ~puts[i].landed
    /\ saved' = [saved EXCEPT ![puts[i].c] = puts[i].v]
    /\ puts' = [puts EXCEPT ![i].landed = TRUE]
    /\ losses' = losses \cup (IF \E j \in 1 .. i - 1 : puts[j].c = puts[i].c /\ ~puts[j].landed
                              THEN {"order"} ELSE {})
    /\ UNCHANGED <<cur, blocks, lastSync, pending, effect, fetched, edits, opens, last, shown>>

\* The answer: the timer's request clears the snapshot it sent, the flush
\* clears any.
Forgotten(p) ==
    /\ pending # Nothing
    /\ (p.kind = "timer" => pending.v = p.v) /\ p.kind # "cleanup"

Answer(i) ==
    /\ puts[i].landed
    /\ puts' = RemoveAt(puts, i) /\ lastSync' = puts[i].v
    /\ pending' = IF Forgotten(puts[i]) THEN Nothing ELSE pending
    /\ losses' = losses \cup (IF Forgotten(puts[i]) /\ ~WillHold(puts, pending.c, pending.v)
                              THEN {"forgotten"} ELSE {})
    /\ UNCHANGED <<saved, cur, blocks, effect, fetched, edits, opens, last, shown>>

\* A request fails: the page only logs it.
Fail(i) ==
    /\ ~puts[i].landed
    /\ puts' = RemoveAt(puts, i) /\ losses' = losses \cup {"failed"}
    /\ UNCHANGED <<saved, cur, blocks, lastSync, pending, effect, fetched, edits, opens, last, shown>>

\* openCanvasById: the server reads the row, and the page shows it later.
Fetch(c) ==
    /\ fetched = Nothing /\ opens < MaxOpens /\ opens' = opens + 1
    /\ fetched' = [c |-> c, v |-> saved[c]]
    /\ UNCHANGED <<saved, cur, blocks, lastSync, pending, effect, puts, edits, last, shown, losses>>

Open ==
    /\ fetched # Nothing /\ fetched' = Nothing
    /\ Render(fetched.c, fetched.v, IF fetched.v # last[fetched.c] THEN {"stale"} ELSE {})
    /\ UNCHANGED <<saved, lastSync, edits, opens>>

LandSome == \E i \in DOMAIN puts : PutLands(i)
AnswerSome == \E i \in DOMAIN puts : Answer(i)

AutosaveNext ==
    \/ Edit \/ Fire \/ FlushNow \/ Open \/ LandSome \/ AnswerSome
    \/ \E i \in DOMAIN puts : Fail(i)
    \/ \E c \in UserCanvases : Fetch(c)

\* Timers fire; the server answers.
AutosaveFair == WF_autosaveVars(Fire) /\ WF_autosaveVars(LandSome) /\ WF_autosaveVars(AnswerSome)

AutosaveSpec == AutosaveInit /\ [][AutosaveNext]_autosaveVars /\ AutosaveFair

-----------------------------------------------------------------------------
Armed(c) == c = cur /\ effect # Nothing /\ ~effect.fired /\ effect.v = blocks

\* The comment of the effect says that no pending snapshot is lost when the
\* page leaves a canvas or changes again.  It is so but for five ways: the
\* page returns to what it takes for saved while another list is on its way;
\* a late answer, of a flush above all, forgets a newer snapshot; two requests
\* land in the wrong order; a canvas is opened before its last save has
\* landed; and a request fails.
Unlost == losses = {} => \A c \in UserCanvases : WillHold(puts, c, last[c]) \/ Armed(c)

\* The same without the exceptions.
NeverLost == "failed" \notin losses => \A c \in UserCanvases : WillHold(puts, c, last[c]) \/ Armed(c)

\* Every request carries, and every row holds, a list that the page has shown
\* of that very canvas.
NoCrossTalk ==
    /\ \A c \in UserCanvases : saved[c] \in shown[c]
    /\ \A i \in DOMAIN puts : puts[i].v \in shown[puts[i].c]

\* No edit is lost, and none is saved into another canvas.
SavesSound == Unlost /\ NoCrossTalk

\* Once the user is done, the row of the canvas on the page comes to hold what
\* the page shows, but for those five ways.
Settles == <>[](losses = {} => \A c \in UserCanvases : saved[c] = last[c])
=============================================================================
