------------------------------ MODULE PageLayout ------------------------------
(* Where the page puts the blocks of a canvas (utils/reportLayout), the        *)
(* numbers it shows on them, and what a drag snaps to (useBlockAlignment).     *)
(* Blocks are those of ServerLayout.                                           *)
EXTENDS Integers, Sequences, FiniteSets, SequencesExt, FiniteSetsExt

REPORT == [marginX |-> 20, gapY |-> 24, colGap |-> 20, startY |-> 32, chartH |-> 320,
           kpiH |-> 132, minColW |-> 360, fallbackW |-> 980]

\* Math.round of n / d for n >= 0.
Round(n, d) == (n + d \div 2) \div d
Ceil(n, d) == -((-n) \div d)

resolveGeometry(width) ==
    LET avail == IF width > 0 THEN Max({320, width - REPORT.marginX * 2}) ELSE REPORT.fallbackW
        two == avail >= REPORT.minColW * 2 + REPORT.colGap
        column == Round(avail - REPORT.colGap, 2)
        chartW == IF two THEN column ELSE avail
    IN [fullW |-> avail, chartW |-> chartW, kpiW |-> Round(avail - REPORT.colGap * 2, 3),
        cols |-> IF two THEN 2 ELSE 1, leftX |-> REPORT.marginX,
        rightX |-> REPORT.marginX + chartW + REPORT.colGap,
        midX |-> REPORT.marginX + chartW + REPORT.colGap \div 2]

estimateTextHeight(length, widthPx) ==
    LET usable == Max({80, (IF widthPx = 0 THEN REPORT.fallbackW ELSE widthPx) - 40})
        charsPerLine == Max({8, usable \div 14})
        lines == Max({1, Ceil(IF length = 0 THEN 1 ELSE length, charsPerLine)})
    IN lines * 22 + 40

estimateBlockHeight(b, geo) ==
    CASE b.h > 0 -> b.h
      [] b.h = 0 /\ b.kind = "h1" -> IF b.text > 0 THEN Ceil(b.text, 40) * 34 + 24 ELSE 56
      [] b.h = 0 /\ b.kind = "h2" -> IF b.text > 0 THEN Ceil(b.text, 50) * 30 + 20 ELSE 44
      [] b.h = 0 /\ b.kind = "text" ->
            estimateTextHeight(b.text, IF b.w > 0 THEN b.w ELSE geo.fullW)
      [] b.h = 0 /\ b.kind = "kpi" -> REPORT.kpiH
      [] b.h = 0 /\ b.kind = "chart" -> REPORT.chartH
      [] b.h = 0 /\ b.kind = "image" -> 300

\* Without a place a block counts where the page renders it.
blockBottom(b, index, geo) ==
    (IF b.placed THEN b.y ELSE ((index - 1) \div 2) * 400) + estimateBlockHeight(b, geo)

widthOf(b, geo) ==
    CASE b.w > 0 -> b.w
      [] b.w = 0 /\ b.kind \in {"text", "h1", "h2"} -> geo.fullW
      [] b.w = 0 /\ b.kind \notin {"text", "h1", "h2"} -> geo.chartW

\* The columns below one more block.
lowered(c, b, geo) ==
    LET w == widthOf(b, geo)
        bottom == b.y + estimateBlockHeight(b, geo)
        whole == w >= geo.fullW - 40
        left == b.x * 2 + w < geo.midX * 2
    IN IF ~b.placed THEN c
       ELSE [leftBottom |-> IF whole \/ left THEN Max({c.leftBottom, bottom}) ELSE c.leftBottom,
             rightBottom |-> IF whole \/ ~left THEN Max({c.rightBottom, bottom}) ELSE c.rightBottom]
deriveCursor(blocks, width) ==
    LET c[n \in 0 .. Len(blocks)] ==
            IF n = 0 THEN [leftBottom |-> REPORT.startY, rightBottom |-> REPORT.startY]
            ELSE lowered(c[n - 1], blocks[n], resolveGeometry(width))
    IN c[Len(blocks)]

below(bottom) == bottom + (IF bottom > REPORT.startY THEN REPORT.gapY ELSE 0)

nextChartSlot(blocks, width) ==
    LET geo == resolveGeometry(width)
        cur == deriveCursor(blocks, width)
        right == cur.rightBottom < cur.leftBottom
    IN [x |-> IF right THEN geo.rightX ELSE geo.leftX,
        y |-> below(IF right THEN cur.rightBottom ELSE cur.leftBottom)]

nextKpiSlot_fourth(blocks, width) ==
    LET geo == resolveGeometry(width)
        kpis == {i \in DOMAIN blocks : blocks[i].placed /\ blocks[i].kind = "kpi"}
        bottom == Max({REPORT.startY} \cup
                      {blockBottom(blocks[i], 1, geo) : i \in {j \in DOMAIN blocks : blocks[j].placed}})
        lastY == Max({blocks[i].y : i \in kpis})
        row == {i \in kpis : blocks[i].y >= lastY - 5}
    IN IF kpis = {} THEN [x |-> geo.leftX, y |-> below(bottom)]
       ELSE IF Cardinality(row) > 3 THEN [x |-> geo.leftX, y |-> lastY + REPORT.kpiH + REPORT.gapY]
       ELSE [x |-> Max({blocks[i].x : i \in row}) + geo.kpiW + REPORT.colGap, y |-> lastY]
nextKpiSlot(blocks, width) ==
    LET geo == resolveGeometry(width)
        kpis == {i \in DOMAIN blocks : blocks[i].placed /\ blocks[i].kind = "kpi"}
        bottom == Max({REPORT.startY} \cup
                      {blockBottom(blocks[i], 1, geo) : i \in {j \in DOMAIN blocks : blocks[j].placed}})
        lastY == Max({blocks[i].y : i \in kpis})
        row == {i \in kpis : blocks[i].y >= lastY - 5}
    IN IF kpis = {} THEN [x |-> geo.leftX, y |-> below(bottom)]
       ELSE IF Cardinality(row) >= 3 THEN [x |-> geo.leftX, y |-> lastY + REPORT.kpiH + REPORT.gapY]
       ELSE [x |-> Max({blocks[i].x : i \in row}) + geo.kpiW + REPORT.colGap, y |-> lastY]

nextFullWidthSlot(blocks, width) ==
    LET cur == deriveCursor(blocks, width)
    IN [x |-> REPORT.marginX, y |-> below(Max({cur.leftBottom, cur.rightBottom}))]

\* applyReportLayout.  cur also says where the open row of KPI cards is and how
\* many it holds, 0 when none is open.
Put(b, x, y, w, h) == [b EXCEPT !.placed = TRUE, !.x = x, !.y = y, !.w = w, !.h = h]
putKpi(cur, b, geo) ==
    LET y == IF cur.n = 0 THEN below(Max({cur.l, cur.r})) ELSE cur.rowY
        end == y + REPORT.kpiH
    IN [l |-> Max({cur.l, end}), r |-> Max({cur.r, end}), rowY |-> y,
        n |-> IF cur.n = 2 THEN 0 ELSE cur.n + 1,
        out |-> Append(cur.out, Put(b, geo.leftX + cur.n * (geo.kpiW + REPORT.colGap), y,
                                    geo.kpiW, REPORT.kpiH))]
putChart(cur, b, geo) ==
    LET onLeft == geo.cols = 1 \/ cur.l <= cur.r
        y == below(IF onLeft THEN cur.l ELSE cur.r)
    IN [l |-> IF onLeft THEN y + REPORT.chartH ELSE cur.l,
        r |-> IF onLeft THEN cur.r ELSE y + REPORT.chartH, rowY |-> cur.rowY, n |-> 0,
        out |-> Append(cur.out, Put(b, IF onLeft THEN geo.leftX ELSE geo.rightX, y,
                                    geo.chartW, REPORT.chartH))]
putWhole(cur, b, geo) ==
    LET cleaned == IF b.kind = "image" THEN b ELSE [b EXCEPT !.h = 0]
        y == below(Max({cur.l, cur.r}))
        end == y + estimateBlockHeight(cleaned, geo)
        w == IF b.kind = "image" /\ b.w > 0 /\ b.w < geo.fullW THEN b.w ELSE geo.fullW
    IN [l |-> end, r |-> end, rowY |-> cur.rowY, n |-> 0,
        out |-> Append(cur.out, Put(cleaned, geo.leftX, y, w, cleaned.h))]
putNext(cur, b, geo) ==
    CASE b.kind = "kpi" -> putKpi(cur, b, geo)
      [] b.kind = "chart" -> putChart(cur, b, geo)
      [] OTHER -> putWhole(cur, b, geo)
putFrom(blocks, width) ==
    LET cur[n \in 0 .. Len(blocks)] ==
            IF n = 0 THEN [l |-> REPORT.startY, r |-> REPORT.startY, rowY |-> 0, n |-> 0, out |-> <<>>]
            ELSE putNext(cur[n - 1], blocks[n], resolveGeometry(width))
    IN cur
applyReportLayout(blocks, width) == putFrom(blocks, width)[Len(blocks)].out

-----------------------------------------------------------------------------
\* assignBlockLabels: sorted, then every row is numbered from 1; a block
\* without a place opens a row of its own.
SameRow(y1, y2) == y1 - y2 \in -10 .. 10
comesFirst(a, b) ==
    IF a.placed /\ b.placed
    THEN IF SameRow(a.y, b.y) THEN a.x < b.x ELSE a.y < b.y
    ELSE a.placed /\ ~b.placed
\* sort, stable: a block goes behind the last one that it does not come before.
order(blocks) ==
    LET sorted[n \in 0 .. Len(blocks)] ==
            IF n = 0 THEN <<>>
            ELSE LET s == sorted[n - 1]
                     later == {k \in DOMAIN s : ~comesFirst(blocks[n], blocks[s[k]])}
                 IN InsertAt(s, 1 + Max({0} \cup later), n)
    IN sorted[Len(blocks)]
\* keys are those of the map of row letters, -1, -2, ... without a place.
labelled(s, i, blocks) ==
    LET b == blocks[i]
        mine == {k \in DOMAIN s.rows : b.placed /\ SameRow(s.rows[k], b.y)}
        row == Min(mine \cup {Len(s.rows) + 1})
        key == IF b.placed THEN b.y ELSE -1 - s.extraRows
        col == 1 + Cardinality({j \in DOMAIN s.out : s.out[j][1] = row})
    IN [rows |-> IF mine = {} /\ ~Contains(s.rows, key) THEN Append(s.rows, key) ELSE s.rows,
        extraRows |-> s.extraRows + (IF b.placed THEN 0 ELSE 1),
        out |-> [s.out EXCEPT ![i] = <<row, col>>]]
assignBlockLabels(blocks) ==
    LET sorted == order(blocks)
        s[n \in 0 .. Len(blocks)] ==
            IF n = 0 THEN [rows |-> <<>>, extraRows |-> 0, out |-> [i \in DOMAIN blocks |-> <<0, 0>>]]
            ELSE labelled(s[n - 1], sorted[n], blocks)
    IN s[Len(blocks)].out

-----------------------------------------------------------------------------
\* What the page renders a block as: without a place the blocks fill two columns.
Bounds(b, index) ==
    [x |-> IF b.placed THEN b.x ELSE ((index - 1) % 2) * 420,
     y |-> IF b.placed THEN b.y ELSE ((index - 1) \div 2) * 400,
     w |-> IF b.w > 0 THEN b.w ELSE 400,
     h |-> estimateBlockHeight(b, resolveGeometry(0))]

snapToGrid(v) == Round(v, 8) * 8
Within(a, b) == a - b \in -4 .. 4

\* detectAlignment along one axis: the last edge of another block that is near
\* wins over the grid.  cur and others are pairs of a start and a length.
snapped(cur, v, o) ==
    LET end == cur[1] + cur[2]
        last == o[1] + o[2]
    IN IF Within(cur[1], last) THEN last
       ELSE IF Within(end, o[1]) THEN o[1] - cur[2]
       ELSE IF Within(end, last) THEN last - cur[2]
       ELSE IF Within(cur[1], o[1]) THEN o[1] ELSE v
Aligned(cur, others) ==
    LET at[n \in 0 .. Len(others)] ==
            IF n = 0 THEN snapToGrid(cur[1]) ELSE snapped(cur, at[n - 1], others[n])
    IN at[Len(others)]

detectAlignment(cur, others, altPressed) ==
    IF altPressed THEN [x |-> cur.x, y |-> cur.y]
    ELSE [x |-> Aligned(<<cur.x, cur.w>>, [i \in DOMAIN others |-> <<others[i].x, others[i].w>>]),
          y |-> Aligned(<<cur.y, cur.h>>, [i \in DOMAIN others |-> <<others[i].y, others[i].h>>])]

=============================================================================
