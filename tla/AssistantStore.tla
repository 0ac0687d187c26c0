---------------------------- MODULE AssistantStore ----------------------------
(***************************************************************************)
(* The canvas assistant's store: one lock, one cancel function and one     *)
(* home canvas shared by every stream of the tab, the conversation shown,  *)
(* and the effects of AIAssistant that follow the canvas of the page.      *)
(*                                                                         *)
(* A canvas has one session, so a session is written as its canvas.  None  *)
(* is the draft, the absent session, list or stream.                       *)
(***************************************************************************)
EXTENDS Integers, FiniteSets

CONSTANTS
    Canvases,  \* the canvases that may exist
    Turns,     \* bound: the streams, numbered in the order they start
    Visits,    \* bound: changes of the page
    MaxSlips,  \* bound: slips after which the user does nothing more
    None

ASSUME StoreAssumption == Turns \in Nat \ {0} /\ Visits \in Nat /\ None \notin Canvases \cup Nat

Streams == 1 .. Turns
Place == Canvases \cup {None}
Phases == {"none", "saving", "asking", "reading", "done", "over"}
Slips == {"early", "closing", "late", "draft", "remount"}

VARIABLES
    page,     \* canvas AIAssistant was last rendered with
    created,  \* canvases that exist
    talked,   \* canvases with a session
    running,  \* canvases whose turn runs in the backend
    store,    \* the store and the variables of its module
    due,      \* the effect on canvasSessions has to run
    streams,  \* what send and resumeStream are doing
    moves,    \* counter: changes of the page
    mount,    \* which AIAssistant is on the page
    strayed,  \* ghost: an action was applied to a page of another canvas
    slips     \* ghost: known slips that happened

storeVars == <<page, created, talked, running, store, due, streams, moves, mount, strayed, slips>>

Empty == [lock |-> FALSE, streaming |-> FALSE, cancel |-> None, home |-> None, active |-> None,
          session |-> None, listed |-> None, live |-> FALSE, loaded |-> FALSE,
          listing |-> None, restoring |-> {}, history |-> None, bubbles |-> {}]

\* The store, as its create function fills it.
Stores ==
    [lock : BOOLEAN, streaming : BOOLEAN, cancel : Streams \cup {None}, home : Place,
     active : Place, session : Place, listed : Place, live : BOOLEAN, loaded : BOOLEAN,
     listing : Place, restoring : SUBSET Canvases, history : Place, bubbles : SUBSET Streams]

StoreTypeOK ==
    /\ page \in Place /\ created \subseteq Canvases
    /\ talked \subseteq created /\ running \subseteq talked
    /\ store \in Stores /\ due \in BOOLEAN /\ strayed \in BOOLEAN
    /\ streams \in [Streams -> [phase : Phases, canvas : Place, resumed : BOOLEAN,
                                mount : 0 .. Visits]]
    /\ mount \in 0 .. Visits /\ moves \in 0 .. Visits /\ slips \subseteq Slips

StoreInit ==
    /\ page = None /\ mount = 0 /\ moves = 0 /\ due = FALSE /\ strayed = FALSE /\ slips = {}
    /\ created \in {{}, Canvases} /\ talked \in {{}, created} /\ running \in {{}, talked}
    /\ store = Empty
    /\ streams = [i \in Streams |-> [phase |-> "none", canvas |-> None, resumed |-> FALSE,
                                 mount |-> 0]]

-----------------------------------------------------------------------------
In(phases) == {i \in Streams : streams[i].phase \in phases}
Careful == Cardinality(slips) <= MaxSlips
Early == In({"saving", "asking"})
Unused(i) == streams[i].phase = "none" /\ \A j \in 1 .. i - 1 : streams[j].phase # "none"

\* The finally block of a stream, whichever stream holds the lock by now.
Released(s) == [s EXCEPT !.cancel = None, !.home = None, !.lock = FALSE, !.streaming = FALSE]

\* refreshSessions.  Only the answer to the last request counts.
Refreshed(s, c) == IF c = None THEN [s EXCEPT !.active = None, !.listed = None, !.live = FALSE]
                   ELSE [s EXCEPT !.active = c, !.listing = c]

\* Does resetForCanvas leave everything as it is?
OwnStream(s, c) == s.lock /\ c # None /\ s.home \in {c, None}

\* resetForCanvas: a stream of another canvas is cancelled, which runs its
\* finally block, and the conversation is emptied.
Cuts(s, c) == s.lock /\ s.home # c
\* Mutation: the list of the canvas left behind stays.
Reset_listed(s, c) == IF OwnStream(s, c) THEN [s EXCEPT !.active = c]
                      ELSE Refreshed([Released(s) EXCEPT !.session = None, !.loaded = FALSE,
                                        !.history = None, !.bubbles = {}], c)
Reset(s, c) ==
    IF OwnStream(s, c) THEN [s EXCEPT !.active = c]
    ELSE Refreshed([Empty EXCEPT
             !.restoring = s.restoring, !.lock = s.lock /\ ~Cuts(s, c),
             !.cancel = IF Cuts(s, c) THEN None ELSE s.cancel,
             !.home = IF Cuts(s, c) /\ s.cancel # None THEN None ELSE s.home], c)
CutBy(s, c) == IF Cuts(s, c) /\ ~OwnStream(s, c) THEN {s.cancel} \ {None} ELSE {}

\* The effect on canvasId, whose component last saw prev.
SamePlace(s, prev, c) == prev = c \/ s.active = c \/ (prev = None /\ s.active = None)
Moved(s, prev, c) == IF SamePlace(s, prev, c) THEN Refreshed(s, c) ELSE Reset(s, c)
CutMoving(s, prev, c) == IF SamePlace(s, prev, c) THEN {} ELSE CutBy(s, c)

\* onCanvasReady up to its first await.
\* Mutation: a stream in progress is not looked at.
Restores_anyway(s, c) == c # None /\ ~s.loaded /\ s.active = c
Restores(s, c) == c # None /\ ~s.loaded /\ ~s.streaming /\ s.active = c
Readied(s, c) ==
    LET sid == IF s.session = None THEN s.listed ELSE s.session
    IN  IF ~Restores(s, c) \/ sid = None THEN s
        ELSE [s EXCEPT !.session = sid, !.loaded = TRUE, !.restoring = @ \cup {c}]

Over(cut) == [i \in Streams |-> IF i \in cut THEN [streams[i] EXCEPT !.phase = "over"]
                                ELSE streams[i]]
Goes(i, phase) == streams' = [streams EXCEPT ![i].phase = phase]

-----------------------------------------------------------------------------
\* The page shows canvas c, or a draft.
Visit(c) ==
    /\ moves < Visits /\ moves' = moves + 1
    /\ Careful
    /\ c \in created \cup {None} /\ c # page /\ page' = c
    /\ store' = Readied(Moved(store, page, c), c)
    /\ streams' = Over(CutMoving(store, page, c))
    /\ slips' = IF Early # {} THEN slips \cup {"early"} ELSE slips
    /\ UNCHANGED <<created, talked, running, due, mount, strayed>>

\* The user went to another route and comes back: the page mounts as a draft
\* and shows a canvas, if any, later.
Remount ==
    /\ moves < Visits /\ moves' = moves + 1
    /\ Careful
    /\ page' = None /\ mount' = mount + 1
    /\ store' = Moved(store, None, None)
    /\ slips' = slips \cup (IF Early # {} THEN {"early"} ELSE {})
                      \cup (IF {store.session, store.history} # {None} \/ store.bubbles # {}
                            THEN {"remount"} ELSE {})
    /\ UNCHANGED <<created, talked, running, due, streams, strayed>>

\* The list arrives; canvasSessions is a new array, so its effect will run.
ListArrives ==
    /\ store.listing # None
    /\ IF store.active = store.listing
       THEN /\ store' = [store EXCEPT !.listing = None, !.live = store.listing \in running,
                              !.listed = IF store.listing \in talked THEN store.listing ELSE None]
            /\ due' = TRUE
       ELSE store' = [store EXCEPT !.listing = None] /\ UNCHANGED due
    /\ UNCHANGED <<page, created, talked, running, streams, moves, mount, strayed, slips>>

Ready ==
    /\ due /\ due' = FALSE
    /\ store' = Readied(store, page)
    /\ UNCHANGED <<page, created, talked, running, streams, moves, mount, strayed, slips>>

\* listMessages answers.  The history replaces what is shown, and a turn that
\* still runs is followed again.
StillWanted(c) == store.active = c
Restored(c) ==
    /\ c \in store.restoring
    /\ LET rest == [store EXCEPT !.restoring = @ \ {c}]
           read == [rest EXCEPT !.history = c, !.bubbles = {}]
           follows == StillWanted(c) /\ read.live /\ read.listed = c /\ read.session # None
                        /\ ~read.streaming /\ ~read.lock
       IN  \/ /\ ~StillWanted(c)
              /\ store' = rest /\ UNCHANGED <<streams, slips>>
           \/ /\ StillWanted(c) /\ ~follows
              /\ store' = read /\ UNCHANGED <<streams, slips>>
           \/ \E i \in Streams :
                /\ follows /\ Unused(i)
                /\ store' = [read EXCEPT !.lock = TRUE, !.streaming = TRUE, !.home = c,
                                         !.cancel = i, !.bubbles = {i}]
                /\ streams' = [streams EXCEPT ![i] = [phase |-> "reading", canvas |-> c,
                                                      resumed |-> TRUE, mount |-> mount]]
                /\ slips' = IF In({"done"}) # {} THEN slips \cup {"closing"} ELSE slips
    /\ UNCHANGED <<page, created, talked, running, due, moves, mount, strayed>>

\* listMessages fails.
Unrestored(c) ==
    /\ c \in store.restoring
    /\ store' = [store EXCEPT !.restoring = @ \ {c},
                              !.session = IF StillWanted(c) THEN None ELSE @]
    /\ UNCHANGED <<page, created, talked, running, due, streams, moves, mount, strayed, slips>>

-----------------------------------------------------------------------------
\* send, up to the awaits that create the canvas and save its blocks.
\* Mutation: the lock is only looked at.
Taken_late(s) == [s EXCEPT !.streaming = TRUE]
Taken(s) == [s EXCEPT !.lock = TRUE, !.streaming = TRUE]
Send(i) ==
    /\ Careful /\ Unused(i) /\ ~store.lock /\ ~store.streaming
    /\ store' = Taken(store)
    /\ streams' = [streams EXCEPT ![i].phase = "saving", ![i].canvas = page,
                                 ![i].mount = mount]
    /\ slips' = slips \cup (IF In({"done"}) # {} THEN {"closing"} ELSE {})
                      \cup (IF store.active \in store.restoring THEN {"late"} ELSE {})
    /\ UNCHANGED <<page, created, talked, running, due, moves, mount, strayed>>

\* ensureCanvas gives a draft its canvas, and the page shows it.
Ensure(i) ==
    /\ streams[i].phase = "saving" /\ streams[i].canvas = None
    /\ \E c \in Canvases \ created :
          /\ created' = created \cup {c} /\ page' = c
          /\ store' = Readied(Moved(store, page, c), c)
          /\ streams' = [Over(CutMoving(store, page, c)) EXCEPT ![i].canvas = c]
    /\ UNCHANGED <<talked, running, due, moves, mount, strayed, slips>>

\* The stream gets its home and its bubble; fetch is called.
Begin(i) ==
    /\ streams[i].phase = "saving"
    /\ store' = [store EXCEPT !.home = streams[i].canvas, !.bubbles = @ \cup {i}]
    /\ Goes(i, "asking")
    /\ slips' = IF streams[i].canvas = None THEN slips \cup {"draft"} ELSE slips
    /\ UNCHANGED <<page, created, talked, running, due, moves, mount, strayed>>

\* The canvas has its session when the turn starts.
\* Mutation: the session is made when the turn ends.
WithSession_later(c) == talked
WithSession(c) == talked \cup ({c} \ {None})

\* The answer has a body: the reader can be cancelled from here on.
Connect(i) ==
    /\ streams[i].phase = "asking"
    /\ store' = [store EXCEPT !.cancel = i]
    /\ Goes(i, "reading")
    /\ talked' = WithSession(streams[i].canvas)
    /\ running' = running \cup ({streams[i].canvas} \ {None})
    /\ UNCHANGED <<page, created, due, moves, mount, strayed, slips>>

\* session_created, the first event of a sent stream.
Welcome(i) ==
    /\ streams[i].phase = "reading" /\ ~streams[i].resumed /\ store.session = None
    /\ store' = Refreshed([store EXCEPT !.session = streams[i].canvas], streams[i].canvas)
    /\ UNCHANGED <<page, created, talked, running, due, streams, moves, mount, strayed, slips>>

\* canvas_action: the page shows the change.
Act(i) ==
    /\ streams[i].phase = "reading"
    /\ strayed' = (strayed \/ (streams[i].mount = mount /\ page # streams[i].canvas))
    /\ UNCHANGED <<page, created, talked, running, store, due, streams, moves, mount, slips>>

\* done unlocks before the reader has come to its end.
Done(i) ==
    /\ streams[i].phase = "reading"
    /\ store' = [store EXCEPT !.lock = FALSE, !.streaming = FALSE]
    /\ Goes(i, "done")
    /\ running' = running \ {streams[i].canvas}
    /\ UNCHANGED <<page, created, talked, due, moves, mount, strayed, slips>>

\* The reader ends, its watchdog cancels it, the connection breaks or cannot be
\* opened.
\* Mutation: a silent backend is waited for.
Ending_spoken == {"asking", "done"}
Ending == {"asking", "reading", "done"}
End(i) ==
    /\ streams[i].phase \in Ending
    /\ store' = Released(store)
    /\ Goes(i, "over")
    /\ UNCHANGED <<page, created, talked, running, due, moves, mount, strayed, slips>>

\* The turn ends in the backend with no stream to tell.
Finish(c) ==
    /\ c \in running /\ running' = running \ {c}
    /\ ~\E i \in In({"reading"}) : streams[i].canvas = c
    /\ UNCHANGED <<page, created, talked, store, due, streams, moves, mount, strayed, slips>>

-----------------------------------------------------------------------------
\* abortCanvasStream.  A stream without a reader goes on.
Abort ==
    /\ Careful /\ store.streaming
    /\ store' = IF store.cancel # None THEN Released(store)
                ELSE [store EXCEPT !.lock = FALSE, !.streaming = FALSE]
    /\ streams' = Over({store.cancel} \ {None})
    /\ slips' = IF Early # {} THEN slips \cup {"early"} ELSE slips
    /\ UNCHANGED <<page, created, talked, running, due, moves, mount, strayed>>

NewConversation ==
    /\ Careful /\ ~store.lock
    /\ store' = [store EXCEPT !.session = None, !.history = None, !.bubbles = {}]
    /\ UNCHANGED <<page, created, talked, running, due, streams, moves, mount, strayed, slips>>

Progress(i) == Ensure(i) \/ Begin(i) \/ Connect(i) \/ Act(i) \/ Welcome(i) \/ Done(i)

StoreNext ==
    \/ Remount \/ \E c \in Place : Visit(c)
    \/ ListArrives \/ Ready \/ Abort \/ NewConversation
    \/ \E c \in Canvases : Restored(c) \/ Unrestored(c) \/ Finish(c)
    \/ \E i \in Streams : Send(i) \/ Progress(i) \/ End(i)

\* createCanvas and flushBlocks end, and a stream is read until it ends or 90 s
\* without a byte make its watchdog cancel it.
StoreFair == \A i \in Streams : WF_storeVars(Begin(i)) /\ WF_storeVars(End(i))

StoreSpec == StoreInit /\ [][StoreNext]_storeVars /\ StoreFair

-----------------------------------------------------------------------------
(* The slips are the ways around the store's guards that the README lists. *)

\* The conversation on the page, and the session the next message goes to, are
\* those of the page's canvas, and so are the actions of the agent applied to it.
OwnCanvas == slips \cap {"early", "closing", "draft", "remount"} = {} =>
    ~strayed /\ {store.history, store.session} \subseteq {None, page}

\* What the effect of AIAssistant says of a page mounted anew: the conversation
\* of another canvas is not shown.  It is, see the README.
RemountResets == slips \subseteq {"remount"} /\ page # None => store.session \in {None, page}

\* The bubble the stream writes to is on the page: no part of the answer is lost.
BubbleShown == slips = {} => In({"reading"}) \subseteq store.bubbles

\* A stream in progress holds the lock and can be stopped; it is the only one.
LockHeld == slips = {} =>
    /\ Cardinality(Early \cup In({"reading"})) <= 1
    /\ Early # {} => store.lock
    /\ \A i \in In({"reading"}) : store.lock /\ store.cancel = i /\ store.home = streams[i].canvas

\* The assistant shows the conversation of its canvas, all of it, and holds its
\* lock as long as a stream writes to it.
AssistantSound == OwnCanvas /\ BubbleShown /\ LockHeld

\* The assistant can be used again.
Unlocks == store.lock ~> ~store.lock
=============================================================================
