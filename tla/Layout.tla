-------------------------------- MODULE Layout --------------------------------
(***************************************************************************)
(* The places of a canvas's blocks as the agent, the page and the user     *)
(* change them: the server places what the agent adds into the stored      *)
(* blocks (canvas_block_writer) for a canvas of 980 px, the page adopts    *)
(* the place but sizes the block for its own width, or places the block    *)
(* itself; the user drags, resizes, duplicates, moves and arranges.        *)
(***************************************************************************)
EXTENDS Integers, Sequences, FiniteSets, SequencesExt, FiniteSetsExt

CONSTANTS
    MaxBlocks,   \* bound: blocks on the canvas
    MaxTouches,  \* bound: changes by hand
    Narratives,  \* kinds of text the agent adds
    PageWidths,  \* widths of the page's canvas, 0: not measured yet
    Texts,       \* lengths of a text
    Spots,       \* where the mouse may leave a dragged block
    Sizes        \* widths and heights a block may be dragged to

ASSUME LayoutAssumption ==
    /\ Sizes \subseteq 200 .. 1200 /\ PageWidths \subseteq Nat /\ Texts \subseteq Nat
    /\ Narratives \subseteq {"text", "h1", "h2"} /\ Spots \subseteq [x : Nat, y : Nat]
    /\ MaxBlocks \in Nat /\ MaxTouches \in Nat

VARIABLES
    pageBlocks, \* the blocks the page shows
    stored,   \* the blocks of the canvas's row
    wide,     \* the width the page measured
    persists, \* settings.CANVAS_BACKEND_PERSIST: the server stores what the agent adds
    touches,  \* changes made by hand so far
    grown     \* which of the two lists was only ever appended to, in free slots

layoutVars == <<pageBlocks, stored, wide, persists, touches, grown>>

Server == INSTANCE ServerLayout
Page == INSTANCE PageLayout

Blank(kind, len) == [kind |-> kind, id |-> TRUE, placed |-> FALSE,
                     x |-> 0, y |-> 0, w |-> 0, h |-> 0, text |-> len]
PutBlock(b, slot, w, h) == [b EXCEPT !.placed = TRUE, !.x = slot.x, !.y = slot.y, !.w = w, !.h = h]
Geo == Page!resolveGeometry(wide)
SameWidth == Geo = Page!resolveGeometry(0)

LayoutInit ==
    /\ pageBlocks = <<>> /\ stored = <<>> /\ touches = 0
    /\ wide \in PageWidths /\ persists \in BOOLEAN
    /\ grown = {"page", "server"}

\* _add_chart and _add_text: placed and sized for the fallback width.
ServerBlock(kind, len) ==
    LET geo == Server!Geometry(0)
    IN CASE kind = "kpi" ->
              PutBlock(Blank(kind, 0), Server!KpiSlot(stored, 0), geo.kpiW, Server!KpiH)
         [] kind = "chart" ->
              PutBlock(Blank(kind, 0), Server!ChartSlot(stored, 0), geo.chartW, Server!ChartH)
         [] OTHER -> PutBlock(Blank(kind, len), Server!FullSlot(stored, 0), geo.fullW, 0)

\* The page's size for a block the agent adds.
Sized(b) ==
    CASE b.kind = "kpi" -> [b EXCEPT !.w = Geo.kpiW, !.h = Page!REPORT.kpiH]
      [] b.kind = "chart" -> [b EXCEPT !.w = Geo.chartW, !.h = Page!REPORT.chartH]
      [] OTHER -> [b EXCEPT !.w = Geo.fullW, !.h = 0]

PageSlot_fallback(b) ==
    CASE b.kind = "kpi" -> Page!nextKpiSlot(pageBlocks, 0)
      [] b.kind = "chart" -> Page!nextChartSlot(pageBlocks, 0)
      [] OTHER -> Page!nextFullWidthSlot(pageBlocks, 0)
PageSlot(b) ==
    CASE b.kind = "kpi" -> Page!nextKpiSlot(pageBlocks, wide)
      [] b.kind = "chart" -> Page!nextChartSlot(pageBlocks, wide)
      [] OTHER -> Page!nextFullWidthSlot(pageBlocks, wide)

\* The agent adds a block and the server stores it: the page adopts its place.
AddStored(kind, len) ==
    /\ persists /\ Len(pageBlocks) < MaxBlocks /\ Len(stored) < MaxBlocks
    /\ LET b == ServerBlock(kind, len) IN
       /\ stored' = Append(stored, b)
       /\ pageBlocks' = Append(pageBlocks, Sized(b))
       /\ grown' = grown \ ((IF SameWidth /\ pageBlocks = stored THEN {} ELSE {"page"})
                            \cup (IF kind = "kpi" THEN {"page", "server"} ELSE {}))
    /\ UNCHANGED <<wide, persists, touches>>

\* The agent adds a block that only the page places.
AddShown(kind, len) ==
    /\ ~persists /\ Len(pageBlocks) < MaxBlocks
    /\ LET b == Blank(kind, len) IN
       pageBlocks' = Append(pageBlocks, Sized(PutBlock(b, PageSlot(b), 0, 0)))
    /\ grown' = IF kind = "kpi" THEN grown \ {"page"} ELSE grown
    /\ UNCHANGED <<stored, wide, persists, touches>>

Touch ==
    /\ touches < MaxTouches /\ touches' = touches + 1
    /\ grown' = grown \ {"page"}

\* The toolbar's buttons: a square below everything.
AddByHand(kind) ==
    /\ Touch /\ Len(pageBlocks) < MaxBlocks
    /\ LET bottom == Max({(IF b.placed THEN b.y ELSE 0) + (IF b.h > 0 THEN b.h ELSE 250)
                          : b \in Range(pageBlocks)})
           y == IF pageBlocks = <<>> THEN 180 ELSE bottom + 20
       IN pageBlocks' = Append(pageBlocks, PutBlock(Blank(kind, 6), [x |-> 20, y |-> y], 250,
                                       IF kind \in {"image", "chart"} THEN 250 ELSE 0))
    /\ UNCHANGED <<stored, wide, persists>>

\* An insight becomes a text behind its chart, with neither a place nor an id.
InsertInsight(i) ==
    /\ Touch /\ Len(pageBlocks) < MaxBlocks /\ pageBlocks[i].kind \in {"chart", "kpi"}
    /\ pageBlocks' = InsertAt(pageBlocks, i + 1, [Blank("text", 30) EXCEPT !.id = FALSE])
    /\ UNCHANGED <<stored, wide, persists>>

\* A copy behind its original, in the next free slot.
Duplicate(i) ==
    /\ Touch /\ Len(pageBlocks) < MaxBlocks
    /\ LET b == pageBlocks[i] IN
       pageBlocks' =
           InsertAt(pageBlocks, i + 1, PutBlock([b EXCEPT !.id = TRUE], PageSlot(b), b.w, b.h))
    /\ UNCHANGED <<stored, wide, persists>>

Drag(i, spot, alt) ==
    /\ Touch
    /\ LET mine == Page!Bounds(pageBlocks[i], i)
           others == RemoveAt([k \in DOMAIN pageBlocks |-> Page!Bounds(pageBlocks[k], k)], i)
           to == Page!detectAlignment([mine EXCEPT !.x = spot.x, !.y = spot.y], others, alt)
       IN pageBlocks' = [pageBlocks EXCEPT ![i] = PutBlock(@, to, @.w, @.h)]
    /\ UNCHANGED <<stored, wide, persists>>

DragSize(i, w, h) ==
    /\ Touch
    /\ pageBlocks' = [pageBlocks EXCEPT ![i].w = w, ![i].h = h]
    /\ UNCHANGED <<stored, wide, persists>>

\* Up or down in the order, then everything is arranged.
MoveBlock(i) ==
    /\ Touch /\ i < Len(pageBlocks)
    /\ pageBlocks' = Page!applyReportLayout(
           [pageBlocks EXCEPT ![i] = pageBlocks[i + 1], ![i + 1] = pageBlocks[i]], wide)
    /\ UNCHANGED <<stored, wide, persists>>

ArrangeByHand ==
    /\ Touch /\ pageBlocks # <<>>
    /\ pageBlocks' = Page!applyReportLayout(pageBlocks, wide)
    /\ UNCHANGED <<stored, wide, persists>>

\* The agent's arrange_layout: each side arranges its own list.
ArrangeByAgent ==
    /\ touches < MaxTouches /\ touches' = touches + 1 /\ pageBlocks # <<>>
    /\ stored' = Server!Arranged(stored, 0)
    /\ pageBlocks' = Page!applyReportLayout(pageBlocks, wide)
    /\ grown' = {}
    /\ UNCHANGED <<wide, persists>>

\* The autosave.
SaveBlocks ==
    /\ stored # pageBlocks
    /\ stored' = pageBlocks
    /\ grown' = IF "page" \in grown /\ SameWidth THEN {"page", "server"} ELSE grown \ {"server"}
    /\ UNCHANGED <<pageBlocks, wide, persists, touches>>

\* The window changes its size.
Measure ==
    /\ touches < MaxTouches /\ touches' = touches + 1
    /\ wide' \in PageWidths \ {wide}
    /\ grown' = grown \ {"page"}
    /\ UNCHANGED <<pageBlocks, stored, persists>>

LayoutNext ==
    \/ \E kind \in {"chart", "kpi"} : AddStored(kind, 0) \/ AddShown(kind, 0)
    \/ \E kind \in Narratives, len \in Texts : AddStored(kind, len) \/ AddShown(kind, len)
    \/ \E kind \in {"text", "h1", "image", "chart"} : AddByHand(kind)
    \/ \E i \in DOMAIN pageBlocks : InsertInsight(i) \/ Duplicate(i) \/ MoveBlock(i)
    \/ \E i \in DOMAIN pageBlocks, spot \in Spots, alt \in BOOLEAN : Drag(i, spot, alt)
    \/ \E i \in DOMAIN pageBlocks, w, h \in Sizes : DragSize(i, w, h)
    \/ ArrangeByHand \/ ArrangeByAgent \/ SaveBlocks \/ Measure

LayoutSpec == LayoutInit /\ [][LayoutNext]_layoutVars

-----------------------------------------------------------------------------
(* Properties. *)

Kinds == {"text", "h1", "h2", "chart", "kpi", "image"}
LayoutBlock == [kind : Kinds, id : BOOLEAN, placed : BOOLEAN, x : Int, y : Int, w : Nat, h : Nat,
                text : Nat]

\* Both lists hold blocks; the page has one of its widths.
LayoutTypeOK ==
    /\ pageBlocks \in Seq(LayoutBlock) /\ stored \in Seq(LayoutBlock)
    /\ wide \in PageWidths /\ persists \in BOOLEAN /\ touches \in 0 .. MaxTouches
    /\ grown \subseteq {"page", "server"}

Lists == {pageBlocks, stored}
Widths == {0, wide}

\* The page and the server, which promise the same coordinates, find the same slots,
\* arrange a canvas alike and agree about its numbers: the two translations.
TwinsAgree ==
    \A list \in Lists, width \in Widths :
        /\ Page!nextChartSlot(list, width) = Server!ChartSlot(list, width)
        /\ Page!nextKpiSlot(list, width) = Server!KpiSlot(list, width)
        /\ Page!nextFullWidthSlot(list, width) = Server!FullSlot(list, width)
        /\ Page!applyReportLayout(list, width) = Server!Arranged(list, width)
        /\ Page!assignBlockLabels(list) = Server!ServiceLabels(list)

Overlap(a, b, geo) ==
    /\ a.x < b.x + Server!WidthOf(b, geo) /\ b.x < a.x + Server!WidthOf(a, geo)
    /\ a.y < Server!Bottom(b, geo) /\ b.y < Server!Bottom(a, geo)
Apart(list, geo) ==
    \A i, j \in DOMAIN list :
        i < j /\ list[i].placed /\ list[j].placed => ~Overlap(list[i], list[j], geo)

\* An arrangement has no block over another, whatever was dragged where before:
\* provided no text was wider than the canvas, for its height is estimated first.
ArrangedApart ==
    \A list \in Lists, width \in Widths :
        LET geo == Server!Geometry(width) IN
        (\A b \in Range(list) : b.kind = "text" => b.w <= geo.fullW)
            => Apart(Server!Arranged(list, width), geo)

\* To arrange twice is to have arranged: once the texts have their width nothing moves.
ArrangeSettles ==
    \A list \in Lists, width \in Widths :
        LET once == Server!Arranged(list, width)
            twice == Server!Arranged(once, width)
        IN /\ Server!Arranged(twice, width) = twice
           /\ (\A b \in Range(list) : b.kind = "text" => b.w = Server!Geometry(width).fullW)
                => twice = once

\* Blocks that only ever took the next free slot of one geometry lie apart.
GrownApart ==
    /\ "page" \in grown => Apart(pageBlocks, Geo)
    /\ "server" \in grown => Apart(stored, Server!Geometry(0))

NoTwins(labels) ==
    \A i, j \in DOMAIN labels : labels[i] = labels[j] => i = j \/ labels[i] = <<0, 0>>

\* A number names one block; and where rows are exact, not a few pixels off, and
\* every block has its id, the number the user sees is the one the model is told.
NumbersNameBlocks ==
    \A list \in Lists :
        /\ NoTwins(Page!assignBlockLabels(list)) /\ NoTwins(Server!ToolLabels(list))
        /\ (/\ \A b \in Range(list) : b.id
            /\ \A b, c \in Range(list) :
                   b.placed /\ c.placed /\ Server!Near(b.y, c.y) => b.y = c.y)
               => Page!assignBlockLabels(list) = Server!ToolLabels(list)

LayoutSound ==
    /\ TwinsAgree /\ ArrangedApart /\ ArrangeSettles /\ GrownApart /\ NumbersNameBlocks

=============================================================================
