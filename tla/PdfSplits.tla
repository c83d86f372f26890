----------------------------- MODULE PdfSplits -----------------------------
(***************************************************************************)
(* Dotted rules in the tables of a PDF page.  The OpenDataLoader report    *)
(* misses them, so its tables are rebuilt before they are adapted: a cell  *)
(* that a dotted rule crosses is divided, rows that only the ends of       *)
(* vertical rules show are inferred, values that are close are drawn onto  *)
(* one boundary, and what the cell held goes to the part its middle is in. *)
(*                                                                         *)
(* A box is <<left, bottom, right, top>> in points, y growing upwards.  A  *)
(* rule is a thin box, given by the middle of its thickness and its two    *)
(* ends.  A text is a sequence of words.                                   *)
(***************************************************************************)
EXTENDS Integers, Sequences, FiniteSets, SequencesExt, FiniteSetsExt

CONSTANTS
  TablePages,                      \* pages: sequences of tables, a nested one after its outer table
  DottedH, DottedV,                \* dotted rules that may be drawn
  VerticalSegments, HorizontalSegments,  \* solid ones
  Markers, Codes,                  \* words that are a bullet, and short code-like words
  MaxRules

VARIABLES
  report,   \* the tables of the page as reported
  tables,   \* the same, rebuilt one after another
  rules,    \* what is drawn on the page
  pc,       \* "drawing", "rebuilding", "done"
  queue     \* tables still to be rebuilt, in order

vars == <<report, tables, rules, pc, queue>>

Tol == 2          \* _AXIS_MERGE_TOL_PT, _INTERIOR_PAD_PT, _CONTAINMENT_PAD_PT
MinRowHeight == 8

------------------------------------------------------------------------------
(* Boundaries. *)

Near(a, b) == a - b <= Tol /\ b - a <= Tol
Inside(v, lo, hi) == lo + Tol < v /\ v < hi - Tol
Overlap(a, b, c, d) == Max({0, Min({b, d}) - Max({a, c})})
\* The values in order, without those close to the one kept before them.
DedupeClose(values) ==
  FoldLeft(LAMBDA out, v : IF out = <<>> \/ v - Last(out) > Tol THEN Append(out, v) ELSE out,
           <<>>, SetToSortSeq(values, <))

Encloses(outer, inner) ==
  /\ inner[1] >= outer[1] - Tol /\ inner[3] <= outer[3] + Tol
  /\ inner[2] >= outer[2] - Tol /\ inner[4] <= outer[4] + Tol

CellYs(cells) == UNION {{cells[i].box[2], cells[i].box[4]} : i \in DOMAIN cells}
CellXs(cells) == UNION {{cells[i].box[1], cells[i].box[3]} : i \in DOMAIN cells}
Grid(t) ==
  LET ys == DedupeClose(ToSet(t.ys))
      xs == DedupeClose(ToSet(t.xs))
  IN IF Len(ys) < 2 \/ Len(xs) < 2
     THEN [ys |-> DedupeClose(CellYs(t.cells)), xs |-> DedupeClose(CellXs(t.cells))]
     ELSE [ys |-> ys, xs |-> xs]

\* The dotted rules that cross a cell: well inside it, along most of its span.
Crosses(rule, lo, hi, from, to) ==
  /\ Inside(rule.at, lo, hi)
  /\ to > from
  /\ 10 * (Min({rule.hi, to}) - Max({rule.lo, from})) >= 7 * (to - from)
CellSplits(drawn, lo, hi, from, to) ==
  LET crossing == SelectSeq(drawn, LAMBDA r : Crosses(r, lo, hi, from, to))
      sorted == SortSeq(crossing, LAMBDA a, b : a.at < b.at)
  IN FoldLeft(LAMBDA out, r : IF out = <<>> \/ r.at - Last(out).at > Tol
                              THEN Append(out, [at |-> r.at, css |-> r.css]) ELSE out,
              <<>>, sorted)
Values(splits) == [k \in DOMAIN splits |-> splits[k].at]

XSplits(cells, dottedV) ==
  [i \in DOMAIN cells |-> LET b == cells[i].box IN CellSplits(dottedV, b[1], b[3], b[2], b[4])]
\* The splits of each cell as values.
XValues(splits) == [i \in DOMAIN splits |-> Values(splits[i])]
YValues(splits) == [i \in DOMAIN splits |-> [k \in DOMAIN splits[i] |-> Values(splits[i][k])]]

Bands(cells, xs) ==
  [i \in DOMAIN cells |->
     LET cuts == DedupeClose({cells[i].box[1], cells[i].box[3]} \cup ToSet(xs[i]))
     IN [k \in 1 .. Len(cuts) - 1 |-> <<cuts[k], cuts[k + 1]>>]]
\* Each part of a cell between vertical splits has horizontal splits of its own.
YSplits(cells, bands, dottedH) ==
  [i \in DOMAIN cells |-> [k \in DOMAIN bands[i] |->
     CellSplits(dottedH, cells[i].box[2], cells[i].box[4], bands[i][k][1], bands[i][k][2])]]

NewBoundaries(values, existing) ==
  SelectSeq(DedupeClose(values), LAMBDA v : \A k \in DOMAIN existing : ~Near(v, existing[k]))
AllX(xs) == UNION {ToSet(xs[i]) : i \in DOMAIN xs}
AllY(ys) == UNION {AllX(ys[i]) : i \in DOMAIN ys}
Merged(existing, values) == DedupeClose(ToSet(existing) \cup ToSet(NewBoundaries(values, existing)))

------------------------------------------------------------------------------
(* Rows that only the ends of vertical rules show. *)

MergeIntervals(intervals) ==
  LET wide == {v \in ToSet(intervals) : v[2] - v[1] > Tol}
      sorted == SetToSortSeq(wide, LAMBDA a, b : a[1] < b[1] \/ (a[1] = b[1] /\ a[2] < b[2]))
  IN FoldLeft(LAMBDA out, v :
                IF out = <<>> \/ v[1] > Last(out)[2] + Tol THEN Append(out, v)
                ELSE Append(Front(out), <<Last(out)[1], Max({Last(out)[2], v[2]})>>),
              <<>>, sorted)
Subtract(interval, covered) ==
  FoldLeft(LAMBDA open, c :
             FlattenSeq([k \in DOMAIN open |->
               LET v == open[k] IN
               IF c[2] <= v[1] + Tol \/ c[1] >= v[2] - Tol THEN <<v>>
               ELSE (IF v[1] < c[1] - Tol THEN <<<<v[1], Min({c[1], v[2]})>>>> ELSE <<>>)
                    \o (IF c[2] < v[2] - Tol THEN <<<<Max({c[2], v[1]}), v[2]>>>> ELSE <<>>)]),
           <<interval>>, MergeIntervals(covered))

\* A keyed list: the entry close to y takes the value, else a new one does.
\* A key 0 is never recognised.
AddNear(buckets, y, value) ==
  LET near == SelectSeq(buckets, LAMBDA e : Near(e.y, y))
      key == IF near = <<>> \/ near[1].y = 0 THEN y ELSE near[1].y
  IN IF \E k \in DOMAIN buckets : buckets[k].y = key
     THEN [k \in DOMAIN buckets |-> IF buckets[k].y = key
             THEN [buckets[k] EXCEPT !.vs = Append(@, value)] ELSE buckets[k]]
     ELSE Append(buckets, [y |-> key, vs |-> <<value>>])

RECURSIVE TextBoxes(_)
TextBoxes(node) ==
  IF node.kids # <<>> THEN UNION {TextBoxes(node.kids[k]) : k \in DOMAIN node.kids}
  ELSE IF node.text # <<>> THEN node.box ELSE {}
TextOfCells(cells) == UNION {UNION {TextBoxes(cells[i].kids[k]) : k \in DOMAIN cells[i].kids} : i \in DOMAIN cells}

CrossesText(y, texts) == \E b \in texts : 2 * b[2] + 1 < 2 * y /\ 2 * y < 2 * b[4] - 1
EndpointPoints(box, xs, segments, texts) ==
  LET touches(s) == \/ box[2] - Tol <= s.lo /\ s.lo <= box[4] + Tol
                    \/ box[2] - Tol <= s.hi /\ s.hi <= box[4] + Tol
      ends(s) ==
        IF /\ box[1] - Tol <= s.at /\ s.at <= box[3] + Tol
           /\ \E k \in DOMAIN xs : Near(s.at, xs[k])
           /\ touches(s)
        THEN SelectSeq(<<<<s.at, s.lo>>, <<s.at, s.hi>>>>,
                       LAMBDA p : Inside(p[2], box[2], box[4]) /\ ~CrossesText(p[2], texts))
        ELSE <<>>
  IN FlattenSeq([k \in DOMAIN segments |-> ends(segments[k])])
VirtualRows(points) ==
  LET grouped == FoldLeft(LAMBDA rows, p : AddNear(rows, p[2], p[1]), <<>>, points)
      kept == [k \in DOMAIN grouped |->
                 [y |-> grouped[k].y,
                  xs |-> FoldLeft(LAMBDA xs, x : IF \E j \in DOMAIN xs : Near(x, xs[j]) THEN xs ELSE Append(xs, x),
                                  <<>>, grouped[k].vs)]]
  IN SelectSeq(kept, LAMBDA r : Len(r.xs) >= 2)
RowIntervals(row, box, segments) ==
  LET from == Max({box[1], Min(ToSet(row.xs))})
      to == Min({box[3], Max(ToSet(row.xs))})
      drawn == SelectSeq(segments, LAMBDA s :
                 Near(s.at, row.y) /\ Min({to, s.hi}) - Max({from, s.lo}) >= Tol)
      merged == MergeIntervals([k \in DOMAIN drawn |-> <<Max({from, drawn[k].lo}), Min({to, drawn[k].hi})>>])
  IN IF to - from < Tol THEN <<>> ELSE IF merged = <<>> THEN <<<<from, to>>>> ELSE merged
\* Where a boundary of the cells or a split already runs.
Coverage(cells, bands, ysplits) ==
  LET lines == FlattenSeq([i \in DOMAIN cells |-> FlattenSeq([k \in DOMAIN bands[i] |->
                 LET ys == <<cells[i].box[2], cells[i].box[4]>> \o ysplits[i][k]
                 IN [j \in DOMAIN ys |-> [y |-> ys[j], v |-> bands[i][k]]]])])
  IN FoldLeft(LAMBDA out, l : AddNear(out, l.y, l.v), <<>>, lines)
CoveredAt(y, coverage) ==
  LET near == SelectSeq(coverage, LAMBDA e : Near(e.y, y))
  IN IF near = <<>> THEN <<>> ELSE near[1].vs

DedupeEndpoints(splits) ==
  LET before(a, b) == \/ a.y < b.y
                      \/ a.y = b.y /\ (a.from < b.from \/ (a.from = b.from /\ a.to < b.to))
      same(a, b) == Near(a.y, b.y) /\ Near(a.from, b.from) /\ Near(a.to, b.to)
  IN FoldLeft(LAMBDA out, s : IF \E k \in DOMAIN out : same(s, out[k]) THEN out ELSE Append(out, s),
              <<>>, SetToSortSeq(ToSet(splits), before))
NotThin(candidates, ys) ==
  FoldLeft(LAMBDA kept, c :
             LET merged == DedupeClose(ToSet(ys) \cup ToSet(kept) \cup {c})
             IN IF \E k \in 1 .. Len(merged) - 1 : merged[k + 1] - merged[k] < MinRowHeight THEN kept ELSE Append(kept, c),
           <<>>, candidates)
EnoughText(ys, texts, box) ==
  LET bands == {k \in 1 .. Len(ys) - 1 : ys[k] >= box[2] - Tol /\ ys[k + 1] <= box[4] + Tol}
      filled == {k \in bands : \E b \in texts : 2 * ys[k] <= b[2] + b[4] /\ b[2] + b[4] <= 2 * ys[k + 1]}
  IN bands # {} /\ 100 * Cardinality(filled) >= 65 * Cardinality(bands)

\* Those that run along a boundary, or make no row too thin.
HighEnough(splits, ys) ==
  LET known(y) == \E k \in DOMAIN ys : Near(y, ys[k])
      kept(new) == SelectSeq(splits, LAMBDA s : known(s.y) \/ \E k \in DOMAIN new : Near(s.y, new[k]))
  IN kept(NotThin(DedupeClose({y \in {splits[k].y : k \in DOMAIN splits} : ~known(y)}), ys))
\* The parts of a row that no boundary or split covers yet.
OpenParts(row, parts, covered) ==
  LET open(free) == [k \in DOMAIN free |-> [y |-> row.y, from |-> free[k][1], to |-> free[k][2]]]
  IN open(SelectSeq(FlattenSeq([k \in DOMAIN parts |-> Subtract(parts[k], covered)]), LAMBDA v : v[2] - v[1] >= Tol))
EndpointSplits(t, bands, ysplits, ys, xs, drawn) ==
  LET texts == TextOfCells(t.cells)
      coverage == Coverage(t.cells, bands, ysplits)
      all(rows) == FlattenSeq([k \in DOMAIN rows |->
                     OpenParts(rows[k], RowIntervals(rows[k], t.box, drawn.hs), CoveredAt(rows[k].y, coverage))])
      meant(kept) == IF kept # <<>> /\ EnoughText(DedupeClose(ToSet(ys) \cup {kept[k].y : k \in DOMAIN kept}), texts, t.box)
                     THEN kept ELSE <<>>
  IN IF drawn.vs = <<>> \/ Len(xs) < 2 THEN <<>>
     ELSE meant(HighEnough(DedupeEndpoints(all(VirtualRows(EndpointPoints(t.box, xs, drawn.vs, texts)))), ys))

\* An inferred row divides the parts of cells it covers for the most part.  It
\* has no border of its own.
MergeEndpoints(cells, bands, ysplits, endpoints) ==
  LET byY == FoldLeft(LAMBDA out, s : AddNear(out, s.y, s), <<>>, endpoints)
      within(band, splits) ==
        LET over == SelectSeq(splits, LAMBDA s : Overlap(band[1], band[2], s.from, s.to) >= Tol)
        IN [j \in DOMAIN over |-> <<Max({band[1], over[j].from}), Min({band[2], over[j].to})>>]
      length(band, splits) == FoldLeft(LAMBDA sum, v : sum + v[2] - v[1], 0, MergeIntervals(within(band, splits)))
      divides(e, box, band) ==
        /\ Inside(e.y, box[2], box[4])
        /\ length(band, e.vs) >= Tol
        /\ 100 * length(band, e.vs) >= 85 * (band[2] - band[1])
  IN [i \in DOMAIN cells |-> [k \in DOMAIN bands[i] |->
       LET more == {byY[j].y : j \in {j \in DOMAIN byY : divides(byY[j], cells[i].box, bands[i][k])}}
       IN DedupeClose(ToSet(ysplits[i][k]) \cup more)]]

------------------------------------------------------------------------------
(* Drawing close values onto one boundary. *)

Nearest(v, boundaries) ==
  LET d(k) == IF boundaries[k] > v THEN boundaries[k] - v ELSE v - boundaries[k]
  IN boundaries[CHOOSE k \in DOMAIN boundaries : \A j \in DOMAIN boundaries : d(k) < d(j) \/ (d(k) = d(j) /\ k <= j)]
Snap(values, boundaries) ==
  DedupeClose({Nearest(v, boundaries) : v \in {v \in ToSet(values) : Near(v, Nearest(v, boundaries))}})
SnapBorders(splits, boundaries) ==
  LET hits == SelectSeq(splits, LAMBDA s : Near(s.at, Nearest(s.at, boundaries)))
      drawn == [k \in DOMAIN hits |-> [hits[k] EXCEPT !.at = Nearest(@, boundaries)]]
  IN FoldLeft(LAMBDA out, s : IF \E k \in DOMAIN out : out[k].at = s.at THEN out ELSE Append(out, s), <<>>, drawn)

BoundaryIndex(v, boundaries) ==
  LET near == {k \in DOMAIN boundaries : Near(v, boundaries[k])}
  IN IF near = {} THEN 0 ELSE Min(near)

------------------------------------------------------------------------------
(* Texts that the report ran together over several rows. *)

RECURSIVE Bullets(_)
Bullets(node) ==
  (IF Len(node.text) >= 2 /\ node.text[1] \in Markers THEN {node.text[1]} ELSE {})
  \cup UNION {Bullets(node.kids[k]) : k \in DOMAIN node.kids}

BulletUnits(text, separators) ==
  FoldLeft(LAMBDA units, w : IF units = <<>> \/ w \in separators THEN Append(units, <<w>>)
                             ELSE Append(Front(units), Append(Last(units), w)),
           <<>>, text)
\* One unit per row crossed, or none at all.
Units(text, separators, count) ==
  IF text # <<>> /\ separators # {} /\ Len(BulletUnits(text, separators)) = count
    THEN {BulletUnits(text, separators)}
  ELSE IF text # <<>> /\ Len(text) = count /\ ToSet(text) \subseteq Codes
    THEN {[k \in DOMAIN text |-> <<text[k]>>]} ELSE {}
\* The first unit is the topmost.
BottomUp(units) == Reverse(units)
SplitLeaf(leaf, ys, separators) ==
  IF leaf.box = {} \/ leaf.text = <<>> THEN <<leaf>>
  ELSE LET b == CHOOSE box \in leaf.box : TRUE
           inner == SelectSeq(ys, LAMBDA y : Inside(y, b[2], b[4]))
           cuts == <<b[2]>> \o inner \o <<b[4]>>
           units == Units(leaf.text, separators, Len(inner) + 1)
       IN IF inner = <<>> \/ units = {} THEN <<leaf>>
          ELSE LET us == BottomUp(CHOOSE u \in units : TRUE)
               IN [k \in DOMAIN us |-> [leaf EXCEPT !.text = us[k], !.box = {<<b[1], cuts[k], b[3], cuts[k + 1]>>}]]
RECURSIVE Presplit(_, _, _)
Presplit(kids, ys, separators) ==
  FlattenSeq([k \in DOMAIN kids |->
    IF kids[k].kids # <<>> THEN <<[kids[k] EXCEPT !.kids = Presplit(@, ys, separators)]>>
    ELSE SplitLeaf(kids[k], ys, separators)])

PresplitCells(cells, ysplits) ==
  LET separators == UNION {UNION {Bullets(cells[i].kids[k]) : k \in DOMAIN cells[i].kids} : i \in DOMAIN cells}
      ysOf(i) == SetToSortSeq(AllX(ysplits[i]), <)
  IN [i \in DOMAIN cells |-> IF ysOf(i) = <<>> THEN cells[i]
                             ELSE [cells[i] EXCEPT !.kids = Presplit(@, ysOf(i), separators)]]

------------------------------------------------------------------------------
(* Handing out what a cell held. *)

\* A middle on a boundary belongs to one of its two sides.
CentreIn(b, sub) ==
  /\ 2 * sub[1] <= b[1] + b[3] /\ b[1] + b[3] < 2 * sub[3]
  /\ 2 * sub[2] <= b[2] + b[4] /\ b[2] + b[4] < 2 * sub[4]
EnclosedBy(b, sub) == sub[1] <= b[1] /\ b[3] <= sub[3] /\ sub[2] <= b[2] /\ b[4] <= sub[4]
Hull(boxes) ==
  <<Min({b[1] : b \in boxes}), Min({b[2] : b \in boxes}), Max({b[3] : b \in boxes}), Max({b[4] : b \in boxes})>>

RECURSIVE LeafBoxes(_)
LeafBoxes(node) ==
  UNION {IF node.kids[k].type = "span" \/ node.kids[k].kids = <<>> THEN node.kids[k].box
         ELSE LeafBoxes(node.kids[k]) : k \in DOMAIN node.kids}

\* The text a list item takes from the children it keeps.
RECURSIVE ChildText(_)
ChildText(node) ==
  FlattenSeq([k \in DOMAIN node.kids |->
    LET kid == node.kids[k] IN
    CASE kid.type = "paragraph" -> kid.text
      [] kid.type = "list item" -> IF kid.text # <<>> THEN kid.text ELSE ChildText(kid)
      [] kid.type = "list" -> ChildText(kid)
      [] OTHER -> <<>>])
TextAfter(node, kids, fits) ==
  LET spans == SelectSeq(kids, LAMBDA n : n.type = "span")
      own == IF fits THEN node.text ELSE <<>>
      rebuilt == ChildText([node EXCEPT !.kids = kids])
      parts == own \o (IF rebuilt = own THEN <<>> ELSE rebuilt)
      item == IF node.type = "list item" /\ parts # <<>> THEN parts ELSE node.text
  IN IF spans # <<>> THEN FlattenSeq([k \in DOMAIN spans |-> spans[k].text]) ELSE item

RECURSIVE Restricted(_, _)
Restricted(node, sub) ==
  LET kids == FlattenSeq([k \in DOMAIN node.kids |-> Restricted(node.kids[k], sub)])
      centred == \E b \in node.box : CentreIn(b, sub)
      fits == node.type = "list item" /\ node.text # <<>> /\ \E b \in node.box : EnclosedBy(b, sub)
      boxes == LeafBoxes([node EXCEPT !.kids = kids]) \cup (IF fits THEN node.box ELSE {})
  IN IF node.type = "span" THEN IF centred THEN <<node>> ELSE <<>>
     ELSE IF node.kids = <<>> THEN IF node.box = {} \/ centred THEN <<node>> ELSE <<>>
     ELSE IF kids = <<>> /\ ~fits THEN <<>>
     ELSE <<[node EXCEPT !.kids = kids, !.text = TextAfter(node, kids, fits),
                         !.box = IF boxes = {} THEN @ ELSE {Hull(boxes)}]>>
Distributed(kids, sub) == FlattenSeq([k \in DOMAIN kids |-> Restricted(kids[k], sub)])

------------------------------------------------------------------------------
(* Rebuilding a table. *)

BorderAt(borders, v) ==
  LET near == SelectSeq(borders, LAMBDA s : Near(v, s.at))
  IN IF near = <<>> THEN {} ELSE {Last(near).css}
Overrides(sub, xborders, yborders) ==
  [left |-> BorderAt(xborders, sub[1]), right |-> BorderAt(xborders, sub[3]),
   bottom |-> BorderAt(yborders, sub[2]), top |-> BorderAt(yborders, sub[4])]
WithBorders(old, new) == [s \in DOMAIN old |-> IF new[s] = {} THEN old[s] ELSE new[s]]

SubCell(cell, sub, row, col, rowspan, colspan, borders) ==
  [cell EXCEPT !.box = sub, !.row = row, !.col = col, !.rowspan = rowspan, !.colspan = colspan,
               !.kids = Distributed(@, sub), !.borders = WithBorders(@, borders)]

SubCells(cell, bands, ysplits, xborders, yborders, ys, xs) ==
  LET ny == Len(ys) - 1
      parts(k) ==
        LET lo == BoundaryIndex(bands[k][1], xs)
            hi == BoundaryIndex(bands[k][2], xs)
            cuts == DedupeClose({cell.box[2], cell.box[4]} \cup ToSet(ysplits[k]))
            part(j) ==
              LET low == BoundaryIndex(cuts[j], ys)
                  high == BoundaryIndex(cuts[j + 1], ys)
                  sub == <<bands[k][1], cuts[j], bands[k][2], cuts[j + 1]>>
              IN IF low = 0 \/ high = 0 \/ high <= low THEN <<>>
                 ELSE <<SubCell(cell, sub, ny - (high - 2), lo, high - low, hi - lo,
                                Overrides(sub, xborders, yborders[k]))>>
        IN IF lo = 0 \/ hi = 0 \/ hi <= lo THEN <<>>
           ELSE FlattenSeq([j \in 1 .. Len(cuts) - 1 |-> part(j)])
  IN FlattenSeq([k \in DOMAIN bands |-> parts(k)])
InRows(cells) ==
  SortSeq(cells, LAMBDA a, b : a.row < b.row \/ (a.row = b.row /\ a.col < b.col))

\* Rules within a nested table are that table's.
RulesOutside(drawn, boxes, horizontal) ==
  LET mid(r) == r.lo + r.hi
      within(r, b) == IF horizontal
        THEN 2 * b[1] <= mid(r) /\ mid(r) <= 2 * b[3] /\ b[2] <= r.at /\ r.at <= b[4]
        ELSE 2 * b[2] <= mid(r) /\ mid(r) <= 2 * b[4] /\ b[1] <= r.at /\ r.at <= b[3]
  IN SelectSeq(drawn, LAMBDA r : \A b \in boxes : ~within(r, b))

Nested(i) == {tables[j].box : j \in {j \in DOMAIN tables : j # i /\ Encloses(tables[i].box, tables[j].box)}}
DrawnOn(i) ==
  [h |-> RulesOutside(rules.h, Nested(i), TRUE), v |-> RulesOutside(rules.v, Nested(i), FALSE),
   vs |-> RulesOutside(rules.vs, Nested(i), FALSE), hs |-> RulesOutside(rules.hs, Nested(i), TRUE)]

\* The rows that only rules' ends show are added last.
AllSplits(t, bands, dotted, endpoints) ==
  IF endpoints = <<>> THEN dotted ELSE MergeEndpoints(t.cells, bands, dotted, endpoints)
\* Everything that divides the cells of a table.
Plan(t, drawn) ==
  LET grid == Grid(t)
      xb == XSplits(t.cells, drawn.v)
      x == XValues(xb)
      xs == Merged(grid.xs, AllX(x))
      bands == Bands(t.cells, x)
      yb == YSplits(t.cells, bands, drawn.h)
      dotted == YValues(yb)
      with(y) == [grid |-> grid, x |-> x, y |-> y, xb |-> xb, yb |-> yb, ys |-> Merged(grid.ys, AllY(y)), xs |-> xs]
  IN with(AllSplits(t, bands, dotted, EndpointSplits(t, bands, dotted, Merged(grid.ys, AllY(dotted)), xs, drawn)))
Divides(plan) == AllY(plan.y) # {} \/ NewBoundaries(AllX(plan.x), plan.grid.xs) # <<>>
GridOK(plan) == Len(plan.grid.ys) >= 2 /\ Len(plan.grid.xs) >= 2

\* A table inside a cell is copied as it is now.
Copied(kids) == [k \in DOMAIN kids |-> IF kids[k].type = "table" THEN [kids[k] EXCEPT !.copy = {tables[kids[k].ref].cells}] ELSE kids[k]]

Rebuilt(t, plan) ==
  LET bands == Bands(t.cells, [i \in DOMAIN t.cells |-> Snap(plan.x[i], plan.xs)])
      y == [i \in DOMAIN t.cells |-> [k \in DOMAIN plan.y[i] |-> Snap(plan.y[i][k], plan.ys)]]
      xb == [i \in DOMAIN t.cells |-> SnapBorders(plan.xb[i], plan.xs)]
      yb == [i \in DOMAIN t.cells |-> [k \in DOMAIN plan.yb[i] |-> SnapBorders(plan.yb[i][k], plan.ys)]]
      cells == PresplitCells(t.cells, y)
      new == FlattenSeq([i \in DOMAIN cells |->
               SubCells([cells[i] EXCEPT !.kids = Copied(@)], bands[i], y[i], xb[i], yb[i], plan.ys, plan.xs)])
  IN IF new = <<>> THEN t
     ELSE [t EXCEPT !.cells = InRows(new), !.ys = Reverse(plan.ys), !.xs = plan.xs]

ApplySplits(i) ==
  LET t == tables[i]
      apply(plan) == IF t.cells # <<>> /\ GridOK(plan) /\ Divides(plan) THEN Rebuilt(t, plan) ELSE t
  IN apply(Plan(t, DrawnOn(i)))

\* Innermost tables first.
Depth(i) == Cardinality({j \in DOMAIN tables : j # i /\ Encloses(tables[j].box, tables[i].box)})
Order == SortSeq([i \in DOMAIN tables |-> i], LAMBDA a, b : Depth(a) > Depth(b))

------------------------------------------------------------------------------
NoRules == [h |-> <<>>, v |-> <<>>, vs |-> <<>>, hs |-> <<>>]
Drawn == Len(rules.h) + Len(rules.v) + Len(rules.vs) + Len(rules.hs)

Init ==
  /\ report \in TablePages
  /\ tables = report
  /\ rules = NoRules
  /\ pc = "drawing"
  /\ queue = <<>>

\* The page's drawing (external): each rule at most once.
DrawOne(kind, all) ==
  /\ pc = "drawing"
  /\ Drawn < MaxRules
  /\ \E r \in all \ ToSet(rules[kind]) : rules' = [rules EXCEPT ![kind] = Append(@, r)]
  /\ UNCHANGED <<report, tables, pc, queue>>
Draw == \/ DrawOne("h", DottedH)
        \/ DrawOne("v", DottedV)
        \/ DrawOne("vs", VerticalSegments)
        \/ DrawOne("hs", HorizontalSegments)

\* A page with horizontal lines only is left as it is.
ReadPage ==
  /\ pc = "drawing"
  /\ IF rules.h = <<>> /\ rules.v = <<>> /\ rules.vs = <<>>
     THEN pc' = "done" /\ queue' = queue
     ELSE pc' = "rebuilding" /\ queue' = Order
  /\ UNCHANGED <<report, tables, rules>>

Rebuild ==
  /\ pc = "rebuilding"
  /\ tables' = [tables EXCEPT ![Head(queue)] = ApplySplits(Head(queue))]
  /\ queue' = Tail(queue)
  /\ pc' = IF Len(queue) = 1 THEN "done" ELSE pc
  /\ UNCHANGED <<report, rules>>

Next == Draw \/ ReadPage \/ Rebuild
Spec == Init /\ [][Next]_vars

------------------------------------------------------------------------------
(* Properties. *)

RECURSIVE WordsOf(_)
WordsOf(node) ==
  IF node.kids = <<>> THEN ToSet(node.text)
  ELSE UNION {WordsOf(node.kids[k]) : k \in DOMAIN node.kids}
       \cup (IF node.type = "list item" THEN ToSet(node.text) ELSE {})
Words(cell) == UNION {WordsOf(cell.kids[k]) : k \in DOMAIN cell.kids}
RowCount(t) == Len(t.ys) - 1
ColCount(t) == Len(t.xs) - 1
Slots(c) == (c.row .. c.row + c.rowspan - 1) \X (c.col .. c.col + c.colspan - 1)
WasRebuilt(i) == tables[i] # report[i]

\* A rebuilt table is a grid: its cells fill every slot and no two of them
\* share one, however close the rules, the cell edges and the old boundaries
\* are to each other.
GridTiled ==
  pc = "done" => \A i \in DOMAIN tables : WasRebuilt(i) =>
    LET t == tables[i] IN
    /\ UNION {Slots(t.cells[k]) : k \in DOMAIN t.cells} = (1 .. RowCount(t)) \X (1 .. ColCount(t))
    /\ \A k, l \in DOMAIN t.cells : k # l => Slots(t.cells[k]) \cap Slots(t.cells[l]) = {}

\* Dividing a cell neither loses nor repeats a word of it, also when texts
\* that ran together over several rows are taken apart.
WordsPlacedOnce ==
  pc = "done" => \A i \in DOMAIN tables : \A k \in DOMAIN report[i].cells :
    \A w \in Words(report[i].cells[k]) \ Markers :
      Cardinality({l \in DOMAIN tables[i].cells : w \in Words(tables[i].cells[l])}) = 1

\* Words that were above one another are not read in the other order: a part
\* of a divided text is not below one that followed it.
RowsReadDown ==
  pc = "done" => \A i \in DOMAIN tables : \A k \in DOMAIN report[i].cells : \A n \in DOMAIN report[i].cells[k].kids :
    LET text == report[i].cells[k].kids[n].text
        row(w) == Max({0} \cup {tables[i].cells[l].row : l \in {l \in DOMAIN tables[i].cells : w \in Words(tables[i].cells[l])}})
    IN report[i].cells[k].kids[n].kids = <<>> =>
       \A a, b \in DOMAIN text : a < b /\ {text[a], text[b]} \cap Markers = {} => row(text[a]) <= row(text[b])

\* A cell that no rule crosses stays whole, spanning what its neighbours are
\* divided into: rules beside it, and rules of a table inside it, leave it alone.
UncrossedStayWhole ==
  pc = "done" => \A i \in DOMAIN tables : \A k \in DOMAIN report[i].cells :
    LET b == report[i].cells[k].box
        inner(r) == \E n \in Nested(i) : n[1] <= r.lo /\ r.hi <= n[3] /\ n[2] <= r.at /\ r.at <= n[4]
        crossed == \/ \E r \in ToSet(rules.h) : ~inner(r) /\ Inside(r.at, b[2], b[4]) /\ 2 * Overlap(r.lo, r.hi, b[1], b[3]) > b[3] - b[1]
                   \/ \E r \in ToSet(rules.v) : Inside(r.at, b[1], b[3])
                   \/ \E r, q \in ToSet(rules.vs) : \E y \in {r.lo, r.hi} :
                        Inside(y, b[2], b[4]) /\ 2 * Overlap(Min({r.at, q.at}), Max({r.at, q.at}), b[1], b[3]) > b[3] - b[1]
    IN ~crossed => \E l \in DOMAIN tables[i].cells : tables[i].cells[l].box = b

\* Where a dotted rule divides a cell, the parts on both sides of it show it.
BothSidesDotted ==
  pc = "done" => \A i \in DOMAIN tables : \A k, l \in DOMAIN tables[i].cells :
    LET a == tables[i].cells[k]
        b == tables[i].cells[l]
    IN /\ a.box[4] = b.box[2] /\ a.box[1] = b.box[1] /\ a.box[3] = b.box[3] /\ a.from = b.from =>
            a.borders.top = b.borders.bottom
       /\ a.box[3] = b.box[1] /\ a.box[2] = b.box[2] /\ a.box[4] = b.box[4] /\ a.from = b.from =>
            a.borders.right = b.borders.left

\* A table in a cell of a rebuilt table is the rebuilt one.
NestedRebuilt ==
  pc = "done" => \A i \in DOMAIN tables : \A k \in DOMAIN tables[i].cells :
    \A n \in DOMAIN tables[i].cells[k].kids :
      LET kid == tables[i].cells[k].kids[n]
      IN kid.type = "table" => kid.copy \subseteq {tables[kid.ref].cells}

==============================================================================
