----------------------------- MODULE ServerLayout -----------------------------
(* Where the server puts the blocks of a canvas (canvas_layout_service) and    *)
(* the numbers it tells the model (canvas_tools._assign_block_labels).  A      *)
(* block is a record of its kind (kpi: a chart that is a kpi_card), whether    *)
(* it has an id, whether it has a place x, y, its width and height (0: none)   *)
(* and the length of its text, one paragraph.                                  *)
EXTENDS Integers, Sequences, FiniteSets, SequencesExt, FiniteSetsExt

MarginX == 20
GapY == 24
ColGap == 20
StartY == 32
ChartH == 320
KpiH == 132
MinColW == 360
FallbackW == 980

\* _round of a non-negative quotient n / d, halves up.
Rounded(n, d) == (2 * n + d) \div (2 * d)
Ceiling(n, d) == (n + d - 1) \div d

\* resolve_geometry; width 0 stands for None.
Geometry(width) ==
    LET avail == IF width > 0 THEN Max({320, width - 2 * MarginX}) ELSE FallbackW
        two == avail >= 2 * MinColW + ColGap
        chartW == IF two THEN Rounded(avail - ColGap, 2) ELSE avail
    IN [fullW |-> avail, chartW |-> chartW, kpiW |-> Rounded(avail - 2 * ColGap, 3),
        cols |-> IF two THEN 2 ELSE 1, leftX |-> MarginX,
        rightX |-> MarginX + chartW + ColGap,
        midX |-> MarginX + chartW + ColGap \div 2]

TextHeight(length, width) ==
    LET usable == Max({80, (IF width = 0 THEN FallbackW ELSE width) - 40})
        line == Max({8, usable \div 14})
    IN Max({1, Ceiling(Max({1, length}), line)}) * 22 + 40

BlockHeight(b, geo) ==
    IF b.h > 0 THEN b.h ELSE
    CASE b.kind = "h1" -> IF b.text = 0 THEN 56 ELSE Ceiling(b.text, 40) * 34 + 24
      [] b.kind = "h2" -> IF b.text = 0 THEN 44 ELSE Ceiling(b.text, 50) * 30 + 20
      [] b.kind = "text" -> TextHeight(b.text, IF b.w > 0 THEN b.w ELSE geo.fullW)
      [] b.kind = "kpi" -> KpiH
      [] b.kind = "chart" -> ChartH
      [] OTHER -> 300

Bottom(b, geo) == b.y + BlockHeight(b, geo)
WidthOf(b, geo) ==
    IF b.w > 0 THEN b.w
    ELSE IF b.kind \in {"text", "h1", "h2"} THEN geo.fullW ELSE geo.chartW

Placed(blocks) == {b \in Range(blocks) : b.placed}
\* Below what ends at bottom; the first block of all starts at the top.
Under(bottom) == IF bottom > StartY THEN bottom + GapY ELSE bottom

\* derive_cursor: how deep each of the two columns is.
Cursor(blocks, width) ==
    LET geo == Geometry(width)
        wide(b) == WidthOf(b, geo) >= geo.fullW - 40
        left(b) == 2 * b.x + WidthOf(b, geo) < 2 * geo.midX
        depth(column) == Max({StartY} \cup {Bottom(b, geo) : b \in column})
    IN [left |-> depth({b \in Placed(blocks) : wide(b) \/ left(b)}),
        right |-> depth({b \in Placed(blocks) : wide(b) \/ ~left(b)})]

ChartSlot(blocks, width) ==
    LET geo == Geometry(width) cur == Cursor(blocks, width)
    IN IF cur.left <= cur.right THEN [x |-> geo.leftX, y |-> Under(cur.left)]
       ELSE [x |-> geo.rightX, y |-> Under(cur.right)]

KpiSlot(blocks, width) ==
    LET geo == Geometry(width)
        kpis == {i \in DOMAIN blocks : blocks[i].placed /\ blocks[i].kind = "kpi"}
        last == Max({blocks[i].y : i \in kpis})
        row == {i \in kpis : last - blocks[i].y <= 5}
        bottoms == {Bottom(b, geo) : b \in Placed(blocks)}
    IN IF kpis = {}
       THEN [x |-> geo.leftX, y |-> IF bottoms = {} THEN StartY ELSE Under(Max(bottoms))]
       ELSE IF Cardinality(row) < 3
       THEN [x |-> Max({blocks[i].x : i \in row}) + geo.kpiW + ColGap, y |-> last]
       ELSE [x |-> geo.leftX, y |-> last + KpiH + GapY]

FullSlot(blocks, width) ==
    LET cur == Cursor(blocks, width)
    IN [x |-> MarginX, y |-> Under(Max({cur.left, cur.right}))]

At(b, x, y, w, h) == [b EXCEPT !.placed = TRUE, !.x = x, !.y = y, !.w = w, !.h = h]

\* apply_report_layout: s.kpis is how many KPI cards the open row at s.row holds,
\* 0 when there is none.
Placing(geo, s, b) ==
    LET deepest == Max({s.left, s.right})
        row == IF s.kpis = 0 THEN Under(deepest) ELSE s.row
        useLeft == geo.cols = 1 \/ s.left <= s.right
        col == Under(IF useLeft THEN s.left ELSE s.right)
        plain == IF b.kind = "image" THEN b ELSE [b EXCEPT !.h = 0]
        end == Under(deepest) + BlockHeight(plain, geo)
        full == IF b.kind = "image" /\ b.w > 0 THEN Min({b.w, geo.fullW}) ELSE geo.fullW
    IN CASE b.kind = "kpi" ->
              [left |-> Max({s.left, row + KpiH}), right |-> Max({s.right, row + KpiH}),
               row |-> row, kpis |-> (s.kpis + 1) % 3,
               out |-> Append(s.out, At(b, geo.leftX + s.kpis * (geo.kpiW + ColGap), row, geo.kpiW, KpiH))]
         [] b.kind = "chart" ->
              [left |-> IF useLeft THEN col + ChartH ELSE s.left,
               right |-> IF useLeft THEN s.right ELSE col + ChartH, row |-> 0, kpis |-> 0,
               out |-> Append(s.out,
                   At(b, IF useLeft THEN geo.leftX ELSE geo.rightX, col, geo.chartW, ChartH))]
         [] OTHER ->
              [left |-> end, right |-> end, row |-> 0, kpis |-> 0,
               out |-> Append(s.out, At(plain, geo.leftX, Under(deepest), full, plain.h))]

Placings(blocks, width) ==
    LET s[n \in 0 .. Len(blocks)] ==
            IF n = 0 THEN [left |-> StartY, right |-> StartY, row |-> 0, kpis |-> 0, out |-> <<>>]
            ELSE Placing(Geometry(width), s[n - 1], blocks[n])
    IN s
Arranged(blocks, width) == Placings(blocks, width)[Len(blocks)].out

Near(a, b) == a - b <= 10 /\ b - a <= 10

\* sorted, stable: each block goes behind the last one it does not come before.
\* first has the pairs of blocks of which the first one comes before the other.
Behind(order, i, first) ==
    InsertAt(order, 1 + Max({0} \cup {k \in DOMAIN order : <<i, order[k]>> \notin first}), i)
Sorted(count, first) ==
    LET order[n \in 0 .. count] == IF n = 0 THEN <<>> ELSE Behind(order[n - 1], n, first)
    IN order[count]

\* assign_block_labels of the layout service: rows of 10 px, a row from left to
\* right; a block without a place is a row of its own, after the others.
ServiceBefore(a, b) ==
    IF ~(a.placed /\ b.placed) THEN a.placed /\ ~b.placed
    ELSE IF Near(a.y, b.y) THEN a.x < b.x ELSE a.y < b.y
Row(keys, b) ==
    LET near == {k \in DOMAIN keys : b.placed /\ Near(keys[k], b.y)}
    IN IF near = {} THEN Len(keys) + 1 ELSE Min(near)
\* Block i gets the next number of its row; a row without a place is entered
\* under a key that no y should have.
Numbered(s, blocks, i, key) ==
    LET row == Row(s.keys, blocks[i])
        mine == IF blocks[i].placed THEN blocks[i].y ELSE key
        col == Cardinality({j \in DOMAIN s.out : s.out[j][1] = row}) + 1
    IN [keys |-> IF row > Len(s.keys) /\ mine \notin Range(s.keys) THEN Append(s.keys, mine) ELSE s.keys,
        extra |-> IF blocks[i].placed THEN s.extra ELSE s.extra + 1,
        out |-> [s.out EXCEPT ![i] = <<row, col>>]]
NoNumbers(blocks, keys) ==
    [keys |-> keys, extra |-> 0, out |-> [i \in DOMAIN blocks |-> <<0, 0>>]]
ServiceOrder(blocks) ==
    Sorted(Len(blocks), {p \in (1 .. Len(blocks)) \X (1 .. Len(blocks)) : ServiceBefore(blocks[p[1]], blocks[p[2]])})
ServiceLabels(blocks) ==
    LET order == ServiceOrder(blocks)
        s[n \in 0 .. Len(blocks)] ==
            IF n = 0 THEN NoNumbers(blocks, <<>>)
            ELSE Numbered(s[n - 1], blocks, order[n], -1 - s[n - 1].extra)
    IN s[Len(blocks)].out

\* _assign_block_labels of the tools: sorted by y, then x, before the rows are
\* made, and only blocks with an id are numbered.
ToolBefore_rowsOnly(a, b) ==
    IF ~(a.placed /\ b.placed) THEN a.placed /\ ~b.placed ELSE a.y < b.y
ToolBefore(a, b) ==
    IF ~(a.placed /\ b.placed) THEN a.placed /\ ~b.placed
    ELSE a.y < b.y \/ (a.y = b.y /\ a.x < b.x)
ToolOrder(blocks) ==
    Sorted(Len(blocks), {p \in (1 .. Len(blocks)) \X (1 .. Len(blocks)) : ToolBefore(blocks[p[1]], blocks[p[2]])})
RowKeys(blocks, order) ==
    LET keys[n \in 0 .. Len(blocks)] ==
            IF n = 0 THEN <<>>
            ELSE IF blocks[order[n]].placed /\ Row(keys[n - 1], blocks[order[n]]) > Len(keys[n - 1])
            THEN Append(keys[n - 1], blocks[order[n]].y) ELSE keys[n - 1]
    IN keys[Len(blocks)]
ToolLabels(blocks) ==
    LET order == ToolOrder(blocks)
        s[n \in 0 .. Len(blocks)] ==
            IF n = 0 THEN NoNumbers(blocks, RowKeys(blocks, order))
            ELSE IF blocks[order[n]].id
            THEN Numbered(s[n - 1], blocks, order[n], Len(s[n - 1].keys)) ELSE s[n - 1]
    IN s[Len(blocks)].out

=============================================================================
