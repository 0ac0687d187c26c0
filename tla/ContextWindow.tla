---------------------------- MODULE ContextWindow ----------------------------
(***************************************************************************)
(* What the model is shown of a conversation (services/context): the       *)
(* window that ai._load_server_window reads, the text the supervisor       *)
(* decides on, the messages of a direct answer and of a worker, and the    *)
(* messages of every step of the single agent's loop, rebuilt from the     *)
(* provider's blocks each time.                                            *)
(*                                                                         *)
(* A text is its length in characters.  The tables of budgets.py are not   *)
(* enforced: no block but a tool result is compressed by them.             *)
(***************************************************************************)
EXTENDS Integers, Sequences, SequencesExt

CONSTANTS
    MaxTalk,       \* bound: rounds of the conversation
    Lengths,       \* lengths of a question or an answer
    Results,       \* what a tool may answer
    Charts,        \* lengths of the lines that tell of an answer's charts
    Summaries,     \* lengths of the long-term memory, 0 for none
    LoopSteps,     \* bound: steps of the agent's loop
    WindowRounds,  \* settings.WINDOW_MAX_ROUNDS
    TurnsInContext,\* settings.LEAD_MAX_TURNS_IN_CTX
    DecisionLimit, \* settings.LEAD_CTX_MAX_TOKENS, counted in characters
    LiveReserve,   \* settings.LEAD_CTX_LIVE_RESERVE_TOKENS
    AnswerLimit,   \* settings.LEAD_CTX_ANSWER_HISTORY_TOKENS
    ResultLimit,   \* characters of TOOL_RESULT_MAX_TOKENS
    MetaLimit,     \* characters of TOOL_RESULT_META_MAX_TOKENS
    RowLimit,      \* settings.RESULT_MAX_ROWS
    RowLength,     \* length of a row of a result
    NoteLimit,     \* settings.LEAD_CTX_CHART_SUMMARY_TOKENS
    KeepMessages   \* messages of a worker that are never folded

\* Texts have a length and results a size.  The window is never longer than
\* what the context may hold, what is left for the newest turn beside the
\* memory and a note is worth a cut, and a description may be longer than a
\* result.
ASSUME ContextAssumption ==
    /\ {WindowRounds, TurnsInContext} \cup Lengths \subseteq Nat \ {0}
    /\ {DecisionLimit, LiveReserve, AnswerLimit, ResultLimit, MetaLimit, RowLimit, RowLength, NoteLimit,
        KeepMessages, MaxTalk, LoopSteps} \cup Summaries \subseteq Nat
    /\ Charts \subseteq Seq(Nat)
    /\ Results \subseteq [kind : {"rows", "error", "meta", "plain"}, size : Nat, rows : Nat]
    /\ ResultLimit <= MetaLimit
    /\ 2 * WindowRounds <= TurnsInContext
    /\ 40 < AnswerLimit
    /\ 2 * LiveReserve <= DecisionLimit
    /\ DecisionLimit \div 4 + 40 + 4 < LiveReserve
    /\ 2 * WindowRounds + 2 <= KeepMessages

VARIABLES
    talk,     \* the session's rounds: its question, answer (0: empty) and charts
    live,     \* a round is running
    summary,  \* length of the memory the round read
    note,     \* length of the note of charts the round was given
    window,   \* the turns the provider was built with
    groups,   \* the steps' messages added to the provider
    layout,   \* how often the canvas was read again in this round
    sent      \* the messages of the last step sent to the model

contextVars == <<talk, live, summary, note, window, groups, layout, sent>>

-----------------------------------------------------------------------------
(* The window. *)

\* The rows of ai_messages, oldest first: a question at every odd place and
\* its answer behind it.
Stored(rounds) ==
    [k \in 1 .. 2 * Len(rounds) |->
        LET round == rounds[(k + 1) \div 2]
        IN  IF k % 2 = 1 THEN [role |-> "user", len |-> round.ask, charts |-> <<>>, at |-> k]
            ELSE [role |-> "assistant", len |-> round.answer, charts |-> round.charts, at |-> k]]

LastN(s, n) == SubSeq(s, IF Len(s) > n THEN Len(s) - n + 1 ELSE 1, Len(s))
FirstN(s, n) == SubSeq(s, 1, IF Len(s) < n THEN Len(s) ELSE n)

Least(S) == CHOOSE k \in S : \A j \in S : k <= j
Largest(S) == CHOOSE k \in S : \A j \in S : j <= k

\* context_utils.align_history_pairs: no answer before the first question.
Align(history) ==
    LET questions == {i \in DOMAIN history : history[i].role = "user"}
    IN  IF questions = {} THEN <<>> ELSE SubSeq(history, Least(questions), Len(history))

\* The rows without the round's own question, which the agent adds itself,
\* and without answers that are still empty.
Said(rows, own) ==
    LET Kept[n \in 0 .. Len(rows)] ==
            IF n = 0 THEN <<>>
            ELSE IF rows[n].at = own \/ (rows[n].role = "assistant" /\ rows[n].len = 0) THEN Kept[n - 1]
            ELSE Append(Kept[n - 1], rows[n])
    IN  Kept[Len(rows)]

\* Mutation: the oldest rows are read.
ServerWindow_oldest(rounds) ==
    FirstN(Align(Said(FirstN(Stored(rounds), 2 * WindowRounds + 2), 2 * Len(rounds) - 1)), 2 * WindowRounds)

\* ai._load_server_window.
ServerWindow(rounds) ==
    FirstN(Align(Said(LastN(Stored(rounds), 2 * WindowRounds + 2), 2 * Len(rounds) - 1)), 2 * WindowRounds)

Characters(lengths) ==
    LET Sum[n \in 0 .. Len(lengths)] == IF n = 0 THEN 0 ELSE Sum[n - 1] + lengths[n]
    IN  Sum[Len(lengths)]

\* ChartLines are added, each with its newline, while they fit.
ChartLines(charts, k) == Characters([i \in 1 .. k |-> charts[i] + 1])
Used(charts, used) ==
    LET fit == {k \in 1 .. Len(charts) : used + ChartLines(charts, k) - 1 <= NoteLimit}
    IN  IF used >= NoteLimit \/ fit = {} THEN used ELSE used + ChartLines(charts, Largest(fit))

NoteLines(rows) ==
    LET Told[n \in 0 .. Len(rows)] == IF n = 0 THEN 0 ELSE Used(rows[n].charts, Told[n - 1])
    IN  Told[Len(rows)]

\* ai._build_chart_summary_note: the charts of the last six rows, the oldest
\* first, while they fit.  The title has 23 characters.
ChartNote(rounds) ==
    LET lines == NoteLines(LastN(Stored(rounds), 6))
    IN  IF lines = 0 THEN 0 ELSE 23 + lines

-----------------------------------------------------------------------------
(* What is chosen of it. *)

\* Characters of the turns, each with so many more around it.
Total(ts, around) == Characters([i \in DOMAIN ts |-> ts[i].len + around])

\* The newest turns that fit into the room whole; when not even the newest
\* does, the part of it that fits, if any is worth it.
NewestThatFit(ts, room, around, part) ==
    LET fit == {k \in 1 .. Len(ts) : Total(LastN(ts, k), around) <= room}
    IN  CASE fit # {} -> LastN(ts, Largest(fit))
          [] fit = {} /\ ts # <<>> /\ part > 0 -> <<[Last(ts) EXCEPT !.len = part]>>
          [] OTHER -> <<>>

\* A leading answer goes, unless answers are all there is.
DropLoneAnswer(ts) == IF Align(ts) = <<>> THEN ts ELSE Align(ts)

DecisionMemory_unreserved == IF summary = 0 THEN 0 ELSE IF summary + 6 > DecisionLimit THEN DecisionLimit + 1 ELSE summary + 6

\* The memory with its title (6 characters), and no more of it than leaves
\* the reserve free.
DecisionMemory ==
    LET memory == summary + 6
        most == DecisionLimit - LiveReserve
    IN  IF summary = 0 THEN 0 ELSE IF memory > most THEN most + 1 ELSE memory

DecisionNote == IF note > DecisionLimit \div 4 THEN DecisionLimit \div 4 ELSE note

\* assembler.render_window_for_decision: note, memory and newest turns.  A
\* turn's line has its speaker before it (4 characters) and ends in a newline.
DecisionTurns ==
    LET used == DecisionNote + DecisionMemory
        remain == DecisionLimit - used - 1
    IN  DropLoneAnswer(NewestThatFit(LastN(window, TurnsInContext), DecisionLimit - used, 5,
                                     IF remain > 40 THEN remain - 3 ELSE 0))

\* Characters of the text before its hard limit: the parts that are not
\* empty, one to a line.
DecisionLength ==
    LET turns == IF DecisionTurns = <<>> THEN 0 ELSE Total(DecisionTurns, 5) - 1
        Line(part) == IF part > 0 THEN part + 1 ELSE 0
        lines == Line(DecisionNote) + Line(DecisionMemory) + Line(turns)
    IN  IF lines = 0 THEN 0 ELSE lines - 1

\* sources/window.select_for_answer.
AnswerTurns ==
    DropLoneAnswer(NewestThatFit(LastN(LastN(window, TurnsInContext), 12), AnswerLimit, 0, AnswerLimit))

Text(role, length) == [role |-> role, id |-> 0, kind |-> "text", size |-> length, rows |-> 0, at |-> 0]
TurnMessage(t) == [Text(t.role, t.len) EXCEPT !.at = t.at]

\* assembler.for_answer: the memory is capped at its own limit.
AnswerMessages(question) ==
    LET cap == (DecisionLimit * 5) \div 9
        memory == IF summary = 0 THEN <<>> 
                  ELSE <<Text("memory", IF summary > cap THEN cap + 1 ELSE summary)>>
    IN  <<Text("system", 0)>> \o memory \o [i \in DOMAIN AnswerTurns |-> TurnMessage(AnswerTurns[i])]
            \o <<Text("user", question)>>

\* context_utils.compress_history: by the number of messages only.
CompressHistory(messages) ==
    LET head == IF messages # <<>> /\ messages[1].role = "system" THEN <<messages[1]>> ELSE <<>>
        rest == SubSeq(messages, Len(head) + 1, Len(messages))
    IN  IF Len(rest) <= KeepMessages THEN messages
        ELSE head \o <<Text("user", 0)>> \o LastN(rest, KeepMessages)

\* assembler.build_worker_messages, of provider.for_worker.
WorkerMessages ==
    LET turns == LastN(LastN(window, TurnsInContext), 2 * WindowRounds)
    IN  CompressHistory(<<Text("system", 0)>>
            \o (IF summary = 0 THEN <<>> ELSE <<Text("memory", summary)>>)
            \o [i \in DOMAIN turns |-> TurnMessage(turns[i])])

-----------------------------------------------------------------------------
(* The messages of a step of the single agent's loop. *)

Compact_shared(m) == IF m.size * Len(groups) > ResultLimit THEN [m EXCEPT !.size = ResultLimit \div Len(groups)] ELSE m

\* context_utils.compact_result_json, through assembler.compress_tool_message.
Compact(m) ==
    LET few == IF m.rows > RowLimit THEN RowLimit ELSE m.rows
        short == m.size - (m.rows - few) * RowLength
        cap == IF m.kind = "rows" THEN ResultLimit ELSE MetaLimit
    IN  CASE m.size <= ResultLimit \/ m.kind = "error" -> m
          [] m.size > ResultLimit /\ m.kind = "plain" -> [m EXCEPT !.size = ResultLimit]
          [] OTHER -> [m EXCEPT !.rows = few, !.size = IF short > cap THEN cap ELSE short]

\* provider.for_agent_loop: every source's block, the canvas as it was last
\* read.
StateText == [Text("system", summary + note) EXCEPT !.at = layout]

\* assembler.for_agent_loop: the state, the window, the question, and every
\* step's calls with their results, each result cut by itself.
LoopMessages ==
    <<StateText>>
        \o [i \in DOMAIN window |-> TurnMessage(window[i])]
        \o <<Text("user", Last(talk).ask)>>
        \o [k \in 1 .. 2 * Len(groups) |->
               LET group == groups[(k + 1) \div 2]
               IN  IF k % 2 = 1 THEN group[1] ELSE Compact(group[2])]

-----------------------------------------------------------------------------
ContextInit ==
    /\ talk = <<>> /\ live = FALSE /\ summary = 0 /\ note = 0 /\ window = <<>>
    /\ groups = <<>> /\ layout = 0 /\ sent = <<>>

\* A request stores its question with an empty answer, and reads the memory,
\* the charts and the window before its agent starts.
Ask ==
    /\ ~live /\ Len(talk) < MaxTalk
    /\ \E length \in Lengths, memory \in Summaries :
          LET rounds == Append(talk, [ask |-> length, answer |-> 0, charts |-> <<>>])
          IN  /\ talk' = rounds /\ summary' = memory
              /\ note' = ChartNote(rounds) /\ window' = ServerWindow(rounds)
    /\ live' = TRUE
    /\ UNCHANGED <<groups, layout, sent>>

\* A step of the loop: the messages are sent, and the calls that come back
\* are added with their results; a dispatch reads the canvas again.
LoopStep ==
    /\ live /\ Len(groups) < LoopSteps
    /\ sent' = LoopMessages
    /\ \E result \in Results, dispatched \in BOOLEAN :
          LET call == Len(groups) + 1
          IN  /\ groups' = Append(groups, <<[Text("assistant", 0) EXCEPT !.id = call],
                                            [role |-> "tool", id |-> call, kind |-> result.kind,
                                             size |-> result.size, rows |-> result.rows, at |-> 0]>>)
              /\ layout' = IF dispatched THEN call ELSE layout
    /\ UNCHANGED <<talk, live, summary, note, window>>

\* The round's task ends and stores the answer; one that failed leaves it
\* empty.
StoreAnswer ==
    /\ live /\ live' = FALSE
    /\ \E length \in Lengths \cup {0}, charts \in Charts :
          /\ length = 0 => charts = <<>>
          /\ talk' = [talk EXCEPT ![Len(talk)] = [@ EXCEPT !.answer = length, !.charts = charts]]
    /\ summary' = 0 /\ note' = 0 /\ window' = <<>>
    /\ groups' = <<>> /\ layout' = 0 /\ sent' = <<>>

ContextNext == Ask \/ LoopStep \/ StoreAnswer
ContextSpec == ContextInit /\ [][ContextNext]_contextVars

-----------------------------------------------------------------------------
ContextTypeOK ==
    /\ talk \in Seq([ask : Lengths, answer : Lengths \cup {0}, charts : Charts \cup {<<>>}])
    /\ Len(talk) <= MaxTalk /\ live \in BOOLEAN
    /\ summary \in Summaries \cup {0} /\ note \in 0 .. 24 + NoteLimit
    /\ Len(window) <= 2 * WindowRounds /\ Len(groups) <= LoopSteps /\ layout \in 0 .. LoopSteps
    /\ live \/ sent = <<>>

\* The window ends with the newest row that says something, whatever the
\* rounds before left empty, and begins with a question.
WindowIsRecent ==
    live /\ Len(talk) > 1 =>
        LET before == Len(talk) - 1
        IN  /\ window # <<>> /\ window[1].role = "user"
            /\ Last(window).at = IF talk[before].answer = 0 THEN 2 * before - 1 ELSE 2 * before

\* However long the memory and the note of charts are, the text the
\* supervisor decides on still shows the newest turn, and after its hard
\* limit still a part of it; the two newlines the hard limit does not
\* foresee can take a turn of one character.
NewestIsSeen ==
    live /\ window # <<>> =>
        /\ DecisionTurns # <<>> /\ Last(DecisionTurns).at = Last(window).at
        /\ DecisionLength - Last(DecisionTurns).len < DecisionLimit \/ Last(window).len = 1
        /\ \E i \in DOMAIN AnswerMessages(1) : AnswerMessages(1)[i].at = Last(window).at
        /\ \E i \in DOMAIN WorkerMessages : WorkerMessages[i].at = Last(window).at

\* The messages of a step only extend those of the step before: nothing that
\* was sent is cut again or moved because more results came, but the system
\* text follows the canvas.
LoopExtends == sent # <<>> => IsPrefix(Tail(sent), Tail(LoopMessages))

\* Every call of the round stands with its result behind it in every later
\* step; an error is whole, everything else has a limit.
ResultsStand ==
    \A g \in DOMAIN groups : \E i \in DOMAIN LoopMessages :
        LET call == LoopMessages[i]
            result == LoopMessages[i + 1]
        IN  /\ call.role = "assistant" /\ call.id = g /\ i < Len(LoopMessages)
            /\ result.role = "tool" /\ result.id = g
            /\ IF result.kind = "error" THEN result.size = groups[g][2].size
               ELSE result.size <= IF result.kind = "meta" THEN MetaLimit ELSE ResultLimit

\* The four of them.
ContextSound == WindowIsRecent /\ NewestIsSeen /\ LoopExtends /\ ResultsStand
=============================================================================
