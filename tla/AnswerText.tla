------------------------------ MODULE AnswerText ------------------------------
(***************************************************************************)
(* What becomes of an answer's text on its way through the round's task    *)
(* (services/chat_task.py): code fences are cut out, the rest is stored,   *)
(* and what is shown is the rest without status lines.  The agent's text   *)
(* comes in pieces; a fence's state lives across them, a run of backticks  *)
(* that opens one does not.                                                *)
(*                                                                         *)
(* A text is a sequence of: "t" words, "c" words inside a fence, "s" words *)
(* that make their line a status line, "e" the line that tells of a failed *)
(* tool, "tick" a backtick and "n" a line break.                          *)
(***************************************************************************)
EXTENDS Naturals, Sequences, FiniteSets, SequencesExt, FiniteSetsExt

CONSTANTS
    Pieces,     \* what a piece of the agent's text may be
    MaxPieces,  \* bound: pieces, failures and reports of a round
    Drawings,   \* charts, by their key
    MaxCharts   \* bound: charts the tools draw

VARIABLES
    fence,      \* _fence_state is open
    ticks,      \* backticks at the end of _fence_buffer, at most two
    full,       \* full_content
    snapshot,   \* the registry's copy for late readers
    visible,    \* the message deltas published so far
    charts,     \* collected_charts
    posted,     \* every piece that went through the fence filter
    split,      \* a piece ended in one or two backticks outside a fence
    pieces,     \* pieces, failures and reports so far
    drawn       \* the charts of the tools' results, as they came

answerVars == <<fence, ticks, full, snapshot, visible, charts, posted, split, pieces, drawn>>

AnswerInit ==
    /\ fence = FALSE /\ ticks = 0 /\ split = FALSE /\ pieces = 0
    /\ full = <<>> /\ snapshot = <<>> /\ visible = <<>> /\ posted = <<>>
    /\ charts = <<>> /\ drawn = <<>>

-----------------------------------------------------------------------------
(* The filters. *)

\* A part of what is visible ends a line: "n", or "nn" once two breaks were made
\* of it.
EndsLine(out) == out # <<>> /\ Last(out) \in {"n", "nn"}

\* What a character does to s: the fence, the run of backticks before it in this
\* piece and the parts that are visible.
EndFence(out) ==
    IF out = <<>> \/ Last(out) = "nn" THEN out
    ELSE IF Last(out) = "n" THEN Append(Front(out), "nn") ELSE Append(out, "nn")
Char(s, ch) ==
    IF s.open
    THEN IF ch # "tick" THEN [s EXCEPT !.ticks = 0]
         ELSE IF s.ticks < 2 THEN [s EXCEPT !.ticks = @ + 1]
         ELSE [s EXCEPT !.open = FALSE, !.ticks = 0, !.out = EndFence(@)]
    ELSE IF ch = "tick" /\ s.run = 2
    THEN [s EXCEPT !.open = TRUE, !.run = 0, !.ticks = 0,
                   !.out = IF @ = <<>> \/ EndsLine(@) THEN @ ELSE Append(@, "nn")]
    ELSE IF ch = "tick" THEN [s EXCEPT !.run = @ + 1]
    ELSE [s EXCEPT !.run = 0, !.out = @ \o [i \in 1 .. s.run |-> "tick"] \o <<ch>>]

Read(open, seen, piece) ==
    LET s == FoldLeft(Char, [open |-> open, ticks |-> seen, run |-> 0, out |-> <<>>], piece)
    IN [s EXCEPT !.out = @ \o [i \in 1 .. s.run |-> "tick"]]

Characters(out) ==
    FlattenSeq([i \in DOMAIN out |-> IF out[i] = "nn" THEN <<"n", "n">> ELSE <<out[i]>>])
\* A line break behind something, in the same piece, becomes two.
DoubleBreaks(text) ==
    FlattenSeq([i \in DOMAIN text |->
        IF text[i] = "n" /\ i > 1 /\ text[i - 1] # "n" THEN <<"n", "n">> ELSE <<text[i]>>])

\* _filter_status_text and _filter_canvas_tool_result_lines: a line that starts
\* with status words goes, and no more than one empty line is left in a row.
Line(text, start) ==
    SubSeq(text, start, Min({i \in start .. Len(text) : text[i] = "n"} \cup {Len(text) + 1}) - 1)
Filtered(text) ==
    LET starts == {1} \cup {i + 1 : i \in {k \in DOMAIN text : text[k] = "n"}}
        kept == SetToSortSeq({i \in starts : ~IsPrefix(<<"s">>, Line(text, i))}, LAMBDA i, j : i < j)
        joined == FlattenSeq([k \in DOMAIN kept |->
                      (IF k > 1 THEN <<"n">> ELSE <<>>) \o Line(text, kept[k])])
        third(i) == i > 2 /\ \A k \in i - 2 .. i : joined[k] = "n"
    IN FlattenSeq([i \in DOMAIN joined |-> IF third(i) THEN <<>> ELSE <<joined[i]>>])
Blank(text) == \A i \in DOMAIN text : text[i] = "n"

-----------------------------------------------------------------------------
(* The events of the agent. *)

\* _strip_and_normalize: the piece's visible text joins full_content.
Visible(piece) == DoubleBreaks(Characters(Read(fence, ticks, piece).out))
Strip_forgets(piece) ==
    LET s == Read(fence, ticks, piece) IN
    /\ pieces < MaxPieces /\ pieces' = pieces + 1
    /\ fence' = s.open /\ ticks' = 0
    /\ full' = full \o Visible(piece)
    /\ posted' = posted \o piece
    /\ split' = (split \/ s.run > 0)
Strip(piece) ==
    LET s == Read(fence, ticks, piece) IN
    /\ pieces < MaxPieces /\ pieces' = pieces + 1
    /\ fence' = s.open /\ ticks' = s.ticks
    /\ full' = full \o Visible(piece)
    /\ posted' = posted \o piece
    /\ split' = (split \/ s.run > 0)

Show_early(text) ==
    /\ snapshot' = full
    /\ visible' = visible \o text
Show(text) ==
    /\ snapshot' = full'
    /\ visible' = visible \o text
Hide == UNCHANGED <<snapshot, visible>>

TextPiece(piece) ==
    LET text == Filtered(Visible(piece)) IN
    /\ Strip(piece)
    /\ IF Blank(text) THEN Hide ELSE Show(text)
    /\ UNCHANGED <<charts, drawn>>

\* A tool's error, told in a line of its own: it goes through the fence too.
ToolFailed ==
    LET text == Visible(<<"n", "n", "e", "n">>) IN
    /\ Strip(<<"n", "n", "e", "n">>)
    /\ IF text = <<>> THEN Hide ELSE Show(text)
    /\ UNCHANGED <<charts, drawn>>

\* A report is only the answer when nothing else is.
Report(piece) ==
    /\ Blank(full)
    /\ Strip(piece)
    /\ LET text == Filtered(Visible(piece)) IN IF Blank(text) THEN Hide ELSE Show(text)
    /\ UNCHANGED <<charts, drawn>>

ChartDrawn_latest(c) ==
    /\ Len(drawn) < MaxCharts
    /\ drawn' = Append(drawn, c)
    /\ charts' = IF charts # <<>> /\ Last(charts) = c THEN charts ELSE Append(charts, c)
    /\ UNCHANGED <<fence, ticks, full, snapshot, visible, posted, split, pieces>>
ChartDrawn(c) ==
    /\ Len(drawn) < MaxCharts
    /\ drawn' = Append(drawn, c)
    /\ charts' = IF Contains(charts, c) THEN charts ELSE Append(charts, c)
    /\ UNCHANGED <<fence, ticks, full, snapshot, visible, posted, split, pieces>>

AnswerNext ==
    \/ \E p \in Pieces : TextPiece(p) \/ Report(p)
    \/ ToolFailed
    \/ \E c \in Drawings : ChartDrawn(c)

AnswerSpec == AnswerInit /\ [][AnswerNext]_answerVars

-----------------------------------------------------------------------------
(* Properties. *)

AnswerTypeOK ==
    /\ fence \in BOOLEAN /\ split \in BOOLEAN /\ ticks \in 0 .. 2 /\ pieces \in 0 .. MaxPieces
    /\ \A text \in {full, snapshot, visible, posted} :
           Range(text) \subseteq {"t", "c", "s", "e", "tick", "n"}
    /\ Range(charts) \subseteq Drawings /\ Range(drawn) \subseteq Drawings

Words(text) == SelectSeq(text, LAMBDA ch : ch # "n")

\* The runs of backticks, each named by its first; a fence is a run of three.
RunStarts(text) == {i \in DOMAIN text : text[i] = "tick" /\ (i = 1 \/ text[i - 1] # "tick")}
Fences(text) ==
    \A i \in RunStarts(text) :
        /\ i + 2 \in DOMAIN text /\ text[i + 1] = "tick" /\ text[i + 2] = "tick"
        /\ i + 3 \in DOMAIN text => text[i + 3] # "tick"
Outside(text) ==
    LET keep == SelectSeq([i \in DOMAIN text |-> i],
                    LAMBDA i : /\ text[i] # "tick"
                               /\ Cardinality({k \in RunStarts(text) : k < i}) % 2 = 0)
    IN [k \in DOMAIN keep |-> text[keep[k]]]

\* However the text came in pieces, what is stored of it is what lies outside its
\* fences, as long as no opening fence was split over two pieces.
FencesCut == Fences(posted) /\ ~split => Words(full) = Words(Outside(posted))

\* What readers were shown is the stored text with lines left out, in its order;
\* the copy a late reader starts from is a beginning of the stored text that has
\* everything visible so far; and a tool's error that is stored is visible.
ShownIsStored ==
    LET unmatched == FoldLeft(LAMBDA rest, ch :
                         IF rest # <<>> /\ Head(rest) = ch THEN Tail(rest) ELSE rest, visible, snapshot)
        errors(text) == SelectSeq(text, LAMBDA ch : ch = "e")
    IN unmatched = <<>> /\ IsPrefix(snapshot, full) /\ errors(visible) = errors(full)

\* The charts of the answer are those drawn, each once, in the order they first came.
ChartsOnce ==
    /\ Range(charts) = Range(drawn)
    /\ Len(charts) = Cardinality(Range(drawn))

AnswerTextSound == FencesCut /\ ShownIsStored /\ ChartsOnce

=============================================================================
