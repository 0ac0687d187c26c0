---------------------------- MODULE CanvasActions ----------------------------
(***************************************************************************)
(* One canvas: the agent's tools with their ledger, the block writer, the  *)
(* database row, and the page that shows the blocks, receives the          *)
(* canvas_action events of a turn and saves what it shows.                 *)
(*                                                                         *)
(* With CANVAS_BACKEND_PERSIST the writer changes the row inside the       *)
(* transaction of the turn, which the turn commits when it ends: from its  *)
(* first write on, the tools see its list and a save waits for the row.    *)
(* Geometry is left out, and with it arrange_layout.                       *)
(***************************************************************************)
EXTENDS Integers, Sequences, SequencesExt, FiniteSets

CONSTANTS
    Texts,      \* contents a text block may have
    Slots,      \* tool calls a worker runs at once
    MaxId,      \* bound: block ids ever given
    MaxTurns,   \* bound: turns of the agent
    MaxCalls,   \* bound: actions of a turn
    NoBlocks    \* what _load_canvas_blocks returns on an error; no transaction

Ids == 1 .. MaxId
Block == [id : Ids \cup {0}, kind : {"chart", "text"}, body : Texts \cup {"chart", "patched"}]

ASSUME CanvasAssumption ==
    /\ {MaxId, MaxTurns, MaxCalls} \subseteq Nat \ {0}
    /\ {"chart", "patched"} \cap Texts = {} /\ NoBlocks \notin Seq(Block)

Chart == [id |-> 0, kind |-> "chart", body |-> "chart"]
Text(t) == [id |-> 0, kind |-> "text", body |-> t]
Action == [op : {"add"}, block : Block] \cup [op : {"update", "remove"}, id : Ids]
             \cup {[op |-> "clear"]}
Free == [at |-> "free"]

VARIABLES
    persist,  \* settings.CANVAS_BACKEND_PERSIST
    row,      \* Canvas.blocks as committed
    tx,       \* the list written by the turn and not committed, or NoBlocks
    screen,   \* the blocks the page shows
    sent,     \* the page's blocks when it opened the stream
    stream,   \* canvas_action events on their way to the page
    saving,   \* the list of a PUT on its way, or NoBlocks
    ledger,   \* CanvasActionLedger of the turn
    call,     \* tool call of each slot
    turn,     \* number of the turn
    busy,  \* the turn's task runs
    log,      \* the actions the turn returned
    fresh,    \* next block id
    touched,  \* ghost: the user deleted a block during the turn
    severed   \* ghost: a page was reloaded in the midst of something, or a flush failed

canvasVars == <<persist, row, tx, screen, sent, stream, saving, ledger, call, turn,
                busy, log, fresh, touched, severed>>
pageVars == <<screen, sent, saving, touched, severed>>

NewLedger == [texts |-> {}, charts |-> FALSE, removed |-> {}]

CanvasTypeOK ==
    /\ {persist, busy, touched, severed} \subseteq BOOLEAN
    /\ {row, screen, sent} \subseteq Seq(Block) /\ stream \in Seq(Action) /\ log \in Seq(Action)
    /\ {tx, saving} \subseteq Seq(Block) \cup {NoBlocks}
    /\ ledger \in [texts : SUBSET Texts, charts : BOOLEAN, removed : SUBSET Ids]
    /\ \A c \in Slots : call[c].at \in {"free", "load", "read", "write"}
    /\ turn \in 0 .. MaxTurns /\ fresh \in 1 .. MaxId + 1

CanvasInit ==
    /\ persist \in BOOLEAN
    /\ row = <<>> /\ tx = NoBlocks /\ screen = <<>> /\ sent = <<>> /\ stream = <<>>
    /\ saving = NoBlocks /\ touched = FALSE /\ ledger = NewLedger
    /\ call = [c \in Slots |-> Free] /\ turn = 0 /\ busy = FALSE
    /\ log = <<>> /\ fresh = 1 /\ severed = FALSE

-----------------------------------------------------------------------------
\* What a query of the turn's session returns.
View == IF tx = NoBlocks THEN row ELSE tx

\* The list CanvasBlockWriter makes of an action, and whether it has one.
Patched(b) == [b EXCEPT !.body = "patched"]
IsChart(b, id) == b.kind = "chart" /\ b.id = id

Writable(blocks, a) ==
    a.op = "update" => \E i \in DOMAIN blocks : IsChart(blocks[i], a.id)

\* Mutation: clearing spares the blocks removing spares.
Cleared_charts(blocks) == SelectSeq(blocks, LAMBDA b : b.kind # "chart")
Cleared(blocks) == <<>>

Without(blocks, id) ==
    LET Left[n \in 0 .. Len(blocks)] ==
            IF n = 0 THEN <<>>
            ELSE IF IsChart(blocks[n], id) THEN Left[n - 1] ELSE Append(Left[n - 1], blocks[n])
    IN  Left[Len(blocks)]

Written(blocks, a) ==
    CASE a.op = "add" -> Append(blocks, a.block)
      [] a.op = "update" -> [i \in DOMAIN blocks |->
                               IF IsChart(blocks[i], a.id) THEN Patched(blocks[i]) ELSE blocks[i]]
      [] a.op = "remove" -> Without(blocks, a.id)
      [] OTHER -> Cleared(blocks)

\* The list handleCanvasAction makes of one: the index comes from the blocks
\* of the render that opened the stream.
IndexOf(a) == LET hits == {i \in DOMAIN sent :
                              IF a.op = "update" THEN IsChart(sent[i], a.id) ELSE sent[i].id = a.id}
              IN  IF hits = {} THEN 0 ELSE CHOOSE i \in hits : \A j \in hits : i <= j

Shown(blocks, a) ==
    CASE a.op = "add" -> Append(blocks, a.block)
      [] a.op = "update" -> [i \in DOMAIN blocks |->
                               IF i = IndexOf(a) /\ blocks[i].kind = "chart"
                               THEN Patched(blocks[i]) ELSE blocks[i]]
      [] a.op = "remove" -> IF IndexOf(a) \in DOMAIN blocks THEN RemoveAt(blocks, IndexOf(a))
                            ELSE blocks
      [] OTHER -> <<>>

-----------------------------------------------------------------------------
\* AddTextBlockTool asks the ledger before it loads the blocks.
Untold(a) == a.op = "add" /\ a.block.kind = "text" => a.block.body \notin ledger.texts

Requests == {[op |-> "add", block |-> b] : b \in {Chart} \cup {Text(t) : t \in Texts}}
              \cup [op : {"update", "remove"}, id : 1 .. fresh - 1] \cup {[op |-> "clear"]}

BeginCall(c) ==
    /\ busy /\ call[c] = Free
    /\ Len(log) + Cardinality({d \in Slots : call[d] # Free}) < MaxCalls
    /\ \E a \in Requests :
          /\ Untold(a)
          /\ call' = [call EXCEPT ![c] = [at |-> "load", act |-> a]]
    /\ UNCHANGED <<persist, row, tx, stream, ledger, turn, busy, log, fresh, pageVars>>

\* The check of each tool against the blocks it loaded and the ids removed.
BlockedBy(a, seen, gone) ==
    /\ seen # NoBlocks
    /\ LET known == {seen[i].id : i \in DOMAIN seen} IN
       CASE a.op = "add" -> a.block.kind = "text" /\ \E i \in DOMAIN seen : seen[i].body = a.block.body
         [] a.op = "remove" -> a.id \in gone \/ a.id \notin known
         [] a.op = "update" -> (a.id \in gone \/ a.id \notin known) /\ ~ledger.charts
         [] OTHER -> FALSE
\* Mutation: blocked_reason does not ask the ledger.
Blocked_unledgered(a, seen) == BlockedBy(a, seen, {})
Blocked(a, seen) == BlockedBy(a, seen, ledger.removed)

Recorded(a, seen) ==
    CASE a.op = "add" /\ a.block.kind = "text" ->
            [ledger EXCEPT !.texts = @ \cup {a.block.body}]
      [] a.op = "add" /\ a.block.kind = "chart" -> [ledger EXCEPT !.charts = TRUE]
      [] a.op = "remove" -> [ledger EXCEPT !.removed = @ \cup {a.id}]
      [] a.op = "clear" /\ seen # NoBlocks ->
            [ledger EXCEPT !.removed = @ \cup {seen[i].id : i \in DOMAIN seen}]
      [] OTHER -> ledger

\* What the tool returns becomes a canvas_action event.
Return(c, a) ==
    /\ call' = [call EXCEPT ![c] = Free]
    /\ log' = Append(log, a) /\ stream' = Append(stream, a)

\* The load: two calls that use the turn's one session at the same time may
\* fail, and a failed load checks nothing.
Load(c) ==
    /\ call[c].at = "load"
    /\ LET a == call[c].act
           clash == \E d \in Slots \ {c} : call[d] # Free
       IN  \E seen \in {View} \cup (IF clash THEN {NoBlocks} ELSE {}) :
              IF Blocked(a, seen)
              THEN call' = [call EXCEPT ![c] = Free] /\ UNCHANGED <<ledger, log, stream>>
              ELSE /\ ledger' = Recorded(a, seen)
                   /\ IF persist
                      THEN call' = [call EXCEPT ![c].at = "read"] /\ UNCHANGED <<log, stream>>
                      ELSE Return(c, a)
    /\ UNCHANGED <<persist, row, tx, turn, busy, fresh, pageVars>>

\* CanvasBlockWriter.apply: read the row, make the list, flush it.
Read(c) ==
    /\ call[c].at = "read"
    /\ call' = [call EXCEPT ![c] = [at |-> "write", act |-> call[c].act, base |-> View]]
    /\ UNCHANGED <<persist, row, tx, stream, ledger, turn, busy, log, fresh, pageVars>>

\* The writer gives an added block its id.
Numbered(a) == IF a.op = "add" THEN [a EXCEPT !.block.id = fresh] ELSE a

Write(c) ==
    /\ call[c].at = "write"
    /\ LET a == Numbered(call[c].act) IN
       /\ a.op = "add" => fresh <= MaxId
       /\ fresh' = IF a.op = "add" THEN fresh + 1 ELSE fresh
       /\ tx' = IF Writable(call[c].base, a) THEN Written(call[c].base, a) ELSE tx
       /\ Return(c, a)
    /\ UNCHANGED <<persist, row, ledger, turn, busy, pageVars>>

\* Mutation: a turn that wrote nothing commits its empty list too.
Committed_always == tx
Committed == View

\* The end of the turn commits; a crash of the worker rolls back.
Commit ==
    /\ busy /\ \A c \in Slots : call[c] = Free
    /\ row' = Committed /\ tx' = NoBlocks /\ busy' = FALSE
    /\ UNCHANGED <<persist, stream, ledger, call, turn, log, fresh, pageVars>>

Crash ==
    /\ busy
    /\ tx' = NoBlocks /\ busy' = FALSE /\ call' = [c \in Slots |-> Free]
    /\ UNCHANGED <<persist, row, stream, ledger, turn, log, fresh, pageVars>>

-----------------------------------------------------------------------------
\* send: flushBlocksNow, then the request.  A failed flush is ignored.
Flush ==
    \/ row' = screen /\ UNCHANGED severed
    \/ severed' = TRUE /\ UNCHANGED row

SendAfter(flush) ==
    /\ ~busy /\ stream = <<>> /\ saving = NoBlocks /\ turn < MaxTurns
    /\ flush
    /\ turn' = turn + 1 /\ busy' = TRUE /\ sent' = screen
    /\ ledger' = NewLedger /\ log' = <<>> /\ touched' = FALSE
    /\ UNCHANGED <<persist, tx, screen, stream, saving, call, fresh>>
\* Mutation: the request leaves before the blocks are saved.
Send_unflushed == SendAfter(UNCHANGED <<row, severed>>)
SendTurn == SendAfter(Flush)

\* The page applies an event.  A block the writer did not number gets its id
\* here.
Deliver ==
    /\ stream # <<>>
    /\ LET given == Head(stream)
           new == given.op = "add" /\ given.block.id = 0
           a == IF new THEN Numbered(given) ELSE given
       IN  /\ new => fresh <= MaxId
           /\ fresh' = IF new THEN fresh + 1 ELSE fresh
           /\ screen' = Shown(screen, a)
    /\ stream' = Tail(stream)
    /\ UNCHANGED <<persist, row, tx, sent, saving, ledger, call, turn, busy, log, touched,
                   severed>>

\* The user deletes a block.
Delete ==
    /\ \E i \in DOMAIN screen : screen' = RemoveAt(screen, i)
    /\ touched' = TRUE
    /\ UNCHANGED <<persist, row, tx, sent, stream, saving, ledger, call, turn, busy, log,
                   fresh, severed>>

\* The page may save what it shows, one PUT at a time; when it does, and in
\* what order the saves arrive, is told in CanvasAutosave.
Save ==
    /\ saving = NoBlocks /\ saving' = screen
    /\ UNCHANGED <<persist, row, tx, screen, sent, stream, ledger, call, turn, busy, log,
                   fresh, touched, severed>>

\* A save waits for the row while the turn holds it.
Land ==
    /\ saving # NoBlocks /\ tx = NoBlocks
    /\ row' = saving /\ saving' = NoBlocks
    /\ UNCHANGED <<persist, tx, screen, sent, stream, ledger, call, turn, busy, log, fresh,
                   touched, severed>>

\* The page is loaded anew: it shows the row, and the events published so far
\* are skipped by the replay.
Reload ==
    /\ screen' = row /\ sent' = row /\ stream' = <<>>
    /\ severed' = (severed \/ busy \/ stream # <<>> \/ saving # NoBlocks)
    /\ UNCHANGED <<persist, row, tx, saving, ledger, call, turn, busy, log, fresh, touched>>

CanvasNext ==
    \/ \E c \in Slots : BeginCall(c) \/ Load(c) \/ Read(c) \/ Write(c)
    \/ Commit \/ Crash
    \/ SendTurn \/ Deliver \/ Delete \/ Save \/ Land \/ Reload

CanvasSpec == CanvasInit /\ [][CanvasNext]_canvasVars

-----------------------------------------------------------------------------
TextCount(blocks, t) == Cardinality({i \in DOMAIN blocks : blocks[i].body = t})

\* A turn never returns two removals of one block, nor the same text twice:
\* the ledger stands in for a database that lags behind the page.
NoRepeat ==
    \A i, j \in DOMAIN log : i < j /\ log[i].op = log[j].op =>
        /\ log[i].op = "remove" => log[i].id # log[j].id
        /\ log[i].op = "add" /\ log[i].block.kind = "text" => log[i].block.body # log[j].block.body

\* Over several turns, with a page that saves late, agents add no text the
\* page already shows, as long as no flush failed and no page was reloaded in
\* the middle of a turn.
NoDuplicateText ==
    ~severed => \A t \in Texts : TextCount(screen, t) <= 1

\* The list the page will show agrees with the list of the turn, in order, as
\* long as the turn only adds and clears and the user leaves the page alone.
Told(blocks, actions) ==
    LET After[n \in 0 .. Len(actions)] ==
            IF n = 0 THEN blocks ELSE Shown(After[n - 1], actions[n])
    IN  After[Len(actions)]
Calm == persist /\ tx # NoBlocks /\ ~touched /\ ~severed
OnlyGrows == \A i \in DOMAIN log : log[i].op \in {"add", "clear"}
AgreeOnAdds == (Calm /\ OnlyGrows) => Told(screen, stream) = tx

\* Nothing comes twice to a canvas, and the page shows what the row will hold.
BlocksSound == NoRepeat /\ NoDuplicateText /\ AgreeOnAdds

\* canvas_block_writer.py says that the writer and handleCanvasAction make
\* the same blocks of every action.
SameBlocks == Calm => Told(screen, stream) = tx
=============================================================================
