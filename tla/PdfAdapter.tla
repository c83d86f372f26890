----------------------------- MODULE PdfAdapter -----------------------------
(***************************************************************************)
(* The report of the OpenDataLoader CLI (a tree of text, list, table,      *)
(* image and wrapper nodes) becomes a flat document: one top-level node    *)
(* per step, then new identities, then the links between the parts of a    *)
(* table that goes on over pages.                                          *)
(*                                                                         *)
(* A node is [type, id, page, box, style, text, spans, kids, row, col,     *)
(* prev, next, data]; 0 is an unknown page, the empty set an absent value. *)
(* A text is a sequence of characters, "_" a blank and "/" a line break.   *)
(* A path is a sequence of <<kind, number>>.                               *)
(***************************************************************************)
EXTENDS Integers, Sequences, FiniteSets, SequencesExt, FiniteSetsExt

CONSTANTS
  Reports,     \* reports of the CLI: sequences of nodes
  Digits,      \* characters of a numeric line
  Connectors,  \* arrows drawn between boxes
  RowGap,      \* tops this close are one row of a cell
  StripGap     \* tops this close are one row of a strip

VARIABLES raw, pos, paras, assets, links, pc

vars == <<raw, pos, paras, assets, links, pc>>

Blanks == {"_", "/"}
Blank(text) == \A i \in DOMAIN text : text[i] \in Blanks
NonBlank(text) == SelectSeq(text, LAMBDA ch : ch \notin Blanks)
OrElse(a, b) == IF a # 0 THEN a ELSE b
Abs(n) == IF n < 0 THEN -n ELSE n
Of(s) == CHOOSE x \in s : TRUE
JoinLines(parts) ==
  FoldLeft(LAMBDA t, p : IF t = <<>> THEN p ELSE t \o <<"/">> \o p, <<>>,
           SelectSeq(parts, LAMBDA p : p # <<>>))

------------------------------------------------------------------------------
(* Text of a node. *)

RECURSIVE TextOf(_)
TextOf(node) ==
  LET kids == [i \in DOMAIN node.kids |-> TextOf(node.kids[i])] IN
  CASE node.type \in {"paragraph", "heading", "caption", "formula", "list item"} -> node.text
    [] node.type \in {"header", "footer", "text block", "cell", "list", "table"} -> JoinLines(kids)
    [] OTHER -> <<>>

\* Types that make a paragraph even without text.
KeptEmpty == {"caption", "header", "footer", "formula"}

Lines(text) ==
  LET cut == {0} \cup {i \in DOMAIN text : text[i] = "/"} \cup {Len(text) + 1}
      after(i) == Min({j \in cut : j > i})
      part(i) == SubSeq(text, i + 1, after(i) - 1)
      starts == SetToSortSeq(cut \ {Len(text) + 1}, <)
  IN SelectSeq([k \in DOMAIN starts |-> part(starts[k])], LAMBDA l : ~Blank(l))

------------------------------------------------------------------------------
(* Geometry. *)

Geometry(node) == [page |-> node.page, box |-> node.box]
Compose(a, b) == [page |-> OrElse(a.page, b.page), box |-> IF a.box # {} THEN a.box ELSE b.box]
Higher(b) == IF b[4] > b[2] THEN b[4] - b[2] ELSE 0
MergeBoxes(a, b) ==
  IF a = {} THEN b ELSE IF b = {} THEN a
  ELSE LET x == Of(a)  y == Of(b)
       IN {<<Min({x[1], y[1]}), Min({x[2], y[2]}), Max({x[3], y[3]}), Max({x[4], y[4]})>>}

\* _runs_on_same_visual_line: the boxes overlap, or their middles are close.
SameLine(a, b) ==
  a.box = {} \/ b.box = {} \/
  LET x == Of(a.box)  y == Of(b.box)
      overlap == Min({x[4], y[4]}) - Max({x[2], y[2]})
      short == Min({Higher(x), Higher(y)})
  IN \/ short > 0 /\ 100 * overlap >= 45 * short
     \/ 50 * Abs((x[2] + x[4]) - (y[2] + y[4])) <= Max({55 * short, 200})

------------------------------------------------------------------------------
(* Runs. *)

\* _expand_wide_space_span_text: a wide blank becomes as many as it covers.
Widened(text, box) ==
  IF text = <<>> \/ ~Blank(text) \/ Contains(text, "/") \/ box = {} THEN text
  ELSE LET b == Of(box)
           width == b[3] - b[1]
           blank == IF Higher(b) = 0 THEN 8 ELSE Max({Higher(b), 2})
           count == Min({Max({(4 * width + blank) \div (2 * blank), Len(text)}), 80})
       IN IF width <= 0 \/ count <= Len(text) THEN text ELSE [i \in 1 .. count |-> "_"]

\* Where each run's text is found in the raw text, in order.
MatchesAt(text, part, i) ==
  i + Len(part) <= Len(text) /\ \A k \in DOMAIN part : text[i + k] = part[k]
Positions(text, runs) ==
  LET step(acc, run) ==
        LET at == {i \in acc.cursor .. Len(text) : MatchesAt(text, run.text, i)} IN
        IF run.text = <<>> THEN [acc EXCEPT !.found = Append(@, <<acc.cursor, acc.cursor>>)]
        ELSE IF at = {} THEN [acc EXCEPT !.found = Append(@, <<>>)]
        ELSE LET i == Min(at) IN [found |-> Append(acc.found, <<i, i + Len(run.text)>>),
                                  cursor |-> i + Len(run.text)]
  IN FoldLeft(step, [found |-> <<>>, cursor |-> 0], runs).found

Between(text, left, right) ==
  IF left = <<>> \/ right = <<>> THEN <<>>
  ELSE IF right[1] < left[2] THEN <<>> ELSE SubSeq(text, left[2] + 1, right[1])

NeedsSeparator(left, right, sep) ==
  IF Blank(sep)
  THEN /\ left = <<>> \/ left[Len(left)] \notin Blanks
       /\ right = <<>> \/ right[1] \notin Blanks
  ELSE ~MatchesAt(right, sep, 0)

Numeric(text) == NonBlank(text) # <<>> /\ \A i \in DOMAIN NonBlank(text) : NonBlank(text)[i] \in Digits
\* Two numbers on two lines stay on two lines.
LineSeparator(left, right, sep) ==
  IF Blank(sep) /\ ~Contains(sep, "/") /\ Numeric(left) /\ Numeric(right) THEN <<"/">> ELSE sep

\* _reconstruct_visual_run_text: what the raw text has between two lines.
Reconstructed(runs, text) ==
  LET after(prev, run, sep) ==
        IF ~SameLine(prev, run) /\ sep # <<>> /\ NeedsSeparator(prev.text, run.text, sep)
        THEN [run EXCEPT !.text = LineSeparator(prev.text, run.text, sep) \o @] ELSE run
      whole(at) ==
        FoldLeft(LAMBDA done, i : Append(done, after(done[Len(done)], runs[i], Between(text, at[i - 1], at[i]))),
                 <<runs[1]>>, [i \in 1 .. Len(runs) - 1 |-> i + 1])
  IN whole(Positions(text, runs))

FillRun(run) == Len(run.text) > 1 /\ Blank(run.text) /\ ~Contains(run.text, "/")
CanMerge(a, b) ==
  /\ a.page = 0 \/ b.page = 0 \/ a.page = b.page
  /\ a.style = b.style
  /\ a.text = <<>> \/ a.text[Len(a.text)] # "/"
  /\ b.text = <<>> \/ b.text[1] # "/"
  /\ FillRun(a) = FillRun(b)
  /\ SameLine(a, b)
Merged(runs) ==
  LET step(done, run) ==
        IF done # <<>> /\ CanMerge(done[Len(done)], run)
        THEN [done EXCEPT ![Len(done)].text = @ \o run.text,
                          ![Len(done)].box = MergeBoxes(done[Len(done)].box, run.box)]
        ELSE Append(done, run)
  IN FoldLeft(step, <<>>, runs)

Run(text, geo, style) ==
  [kind |-> "run", path |-> <<>>, text |-> text, page |-> geo.page, box |-> geo.box, style |-> style]

\* _runs_from_text_node: spans do not say where a line ends, so a text with
\* line breaks they lack stays one run.
RunsOf(node, geo, text) ==
  LET spans == node.spans
      broken == Contains(text, "/") /\ \A i \in DOMAIN spans : ~Contains(spans[i].text, "/")
      run(s) == LET g == Compose([page |-> 0, box |-> s.box], geo)
                IN Run(Widened(s.text, g.box), g, IF s.style = "" THEN node.style ELSE s.style)
  IN IF text = <<>> THEN <<>>
     ELSE IF broken \/ spans = <<>> THEN <<Run(text, geo, node.style)>>
     ELSE Merged(Reconstructed([i \in DOMAIN spans |-> run(spans[i])], text))

RunsText(content) ==
  FoldLeft(LAMBDA t, n : IF n.kind = "run" THEN t \o n.text ELSE t, <<>>, content)

\* _reconstructed_text_for_node: the runs' text unless they lost characters.
ParagraphText(text, runs) ==
  IF NonBlank(text) = NonBlank(RunsText(runs)) THEN RunsText(runs) ELSE text

------------------------------------------------------------------------------
(* Pages of a paragraph. *)

RECURSIVE SetPage(_, _)
SetPage(para, page) ==
  LET node(n) ==
        IF n.kind # "table" THEN [n EXCEPT !.page = OrElse(@, page)]
        ELSE LET p == OrElse(n.page, page)
             IN [n EXCEPT !.page = p,
                   !.cells = [c \in DOMAIN n.cells |->
                     [n.cells[c] EXCEPT !.paras = [k \in DOMAIN @ |-> SetPage(@[k], p)]]]]
  IN [para EXCEPT !.content = [i \in DOMAIN @ |-> node(@[i])]]

PageOf(para) ==
  LET known == {i \in DOMAIN para.content : para.content[i].page # 0}
  IN IF known = {} THEN 0 ELSE para.content[Min(known)].page

------------------------------------------------------------------------------
(* Paragraphs. *)

Para(path, box, text, content) == [path |-> path, box |-> box, text |-> text, content |-> content]

\* _paragraph_from_text_node: none for a node without text.
TextParas(node, path, geo, page) ==
  LET para(text, runs) ==
        Para(path, geo.box, IF runs = <<>> THEN text ELSE ParagraphText(text, runs), runs)
      given(text) ==
        IF Blank(text) /\ node.type \notin KeptEmpty THEN <<>>
        ELSE <<SetPage(para(text, RunsOf(node, geo, text)), OrElse(geo.page, page))>>
  IN given(TextOf(node))

ImageId(path) == <<"odl-img", path>>
ImagePara(node, path) ==
  Para(path, node.box, <<>>,
       <<[kind |-> "image", path |-> <<>>, id |-> ImageId(path), data |-> node.data,
          page |-> node.page, box |-> node.box]>>)

\* Rows of boxes whose tops are close, each row known by the mean of its tops.
TopOf(para) == Of(para.box)[4]
LeftOf(para) == Of(para.box)[1]
RowsOf(ps, gap, paged) ==
  LET top(row) == FoldLeft(LAMBDA s, i : s + TopOf(ps[i]), 0, row)
      near(row, i) == /\ paged => PageOf(ps[row[1]]) = PageOf(ps[i])
                      /\ Abs(TopOf(ps[i]) * Len(row) - top(row)) <= gap * Len(row)
      step(rows, i) ==
        LET fits == {r \in DOMAIN rows : near(rows[r], i)}
        IN IF fits = {} THEN Append(rows, <<i>>) ELSE [rows EXCEPT ![Min(fits)] = Append(@, i)]
  IN FoldLeft(step, <<>>, SelectSeq([i \in DOMAIN ps |-> i], LAMBDA i : ps[i].box # {}))

RowKey(ps, row, paged) ==
  <<IF paged THEN PageOf(ps[row[1]]) ELSE 0,
    -Max({TopOf(ps[row[k]]) : k \in DOMAIN row}), Min({LeftOf(ps[row[k]]) : k \in DOMAIN row}), row[1]>>
Less(a, b) == \E k \in DOMAIN a : a[k] < b[k] /\ \A j \in 1 .. k - 1 : a[j] = b[j]
SortedRows(ps, gap, paged) ==
  LET across(rows) ==
        [r \in DOMAIN rows |->
           SortSeq(rows[r], LAMBDA i, j : Less(<<LeftOf(ps[i]), i>>, <<LeftOf(ps[j]), j>>))]
  IN across(SortSeq(RowsOf(ps, gap, paged),
                    LAMBDA a, b : Less(RowKey(ps, a, paged), RowKey(ps, b, paged))))

\* _sort_cell_paragraphs_by_visual_position: those with a box among themselves.
ReadingOrder(ps) ==
  LET rank(i) == Cardinality({j \in 1 .. i : ps[j].box # {}})
      placed(order) ==
        IF Len(order) < 2 THEN ps
        ELSE [i \in DOMAIN ps |-> IF ps[i].box = {} THEN ps[i] ELSE ps[order[rank(i)]]]
  IN placed(FlattenSeq(SortedRows(ps, RowGap, TRUE)))

\* A child without a paragraph of its own leaves its number to the next one.
CellIndexAfter(k, child, made) ==
  IF child.type \in {"table", "image", "list"} \/ made # <<>> THEN k + 1 ELSE k

CellText(ps) == JoinLines([i \in DOMAIN ps |-> ps[i].text])
\* TableCellIR.recompute_text keeps the lines of empty paragraphs.
CellTextWhole(ps) ==
  FoldLeft(LAMBDA t, p : t \o <<"/">> \o p.text, ps[1].text, Tail(ps))

\* Boxes of a flow chart: three or more one-table paragraphs joined by arrows.
IsBox(para) == para.box # {} /\ Len(para.content) = 1 /\ para.content[1].kind = "table"
IsConnector(para) ==
  /\ para.box # {} /\ para.content # <<>>
  /\ \A i \in DOMAIN para.content : para.content[i].kind = "run"
  /\ ~Blank(RunsText(para.content))
  /\ ToSet(NonBlank(RunsText(para.content))) \subseteq Connectors
StripTable(ps, path) ==
  LET cell(r, k, p) == [row |-> r, col |-> k, path |-> <<>>, text |-> p.text, paras |-> <<p>>]
      table(box, rows) ==
        Para(path, box, <<>>,
          <<[kind |-> "table", path |-> <<>>, raw |-> {}, page |-> PageOf(ps[1]), box |-> box,
             cells |-> FlattenSeq([r \in DOMAIN rows |-> [k \in DOMAIN rows[r] |-> cell(r, k, ps[rows[r][k]])]]),
             prev |-> {}, next |-> {}]>>)
  IN table(FoldLeft(LAMBDA b, p : MergeBoxes(b, p.box), {}, ps), SortedRows(ps, StripGap, FALSE))
IsStrip(ps) ==
  /\ Len(ps) >= 3
  /\ Cardinality({i \in DOMAIN ps : IsBox(ps[i])}) >= 3
  /\ \E i \in DOMAIN ps : IsConnector(ps[i])
  /\ IsBox(ps[1]) /\ IsBox(ps[Len(ps)])
\* _collapse_table_connector_sequences.
Collapsed(ps, path) ==
  LET joins(i) == IsBox(ps[i]) \/ IsConnector(ps[i])
      starts == {i \in DOMAIN ps : ~joins(i) \/ i = 1 \/ ~joins(i - 1)}
      end(i) == IF ~joins(i) THEN i ELSE Max({j \in i .. Len(ps) : \A k \in i .. j : joins(k)})
      add(acc, block) ==
        IF IsStrip(block)
        THEN [n |-> acc.n + 1, out |-> Append(acc.out, StripTable(block, Append(path, <<"strip", acc.n + 1>>)))]
        ELSE [acc EXCEPT !.out = @ \o block]
  IN FoldLeft(LAMBDA acc, i : add(acc, SubSeq(ps, i, end(i))), [n |-> 0, out |-> <<>>],
              SetToSortSeq(starts, <)).out

\* _list_item_text_without_child_duplicates: lines the children repeat.
ItemText(text, children) ==
  LET overlaps(mine, theirs) ==
        {n \in 1 .. Min({Len(mine), Len(theirs)}) :
           SubSeq(mine, Len(mine) - n + 1, Len(mine)) = SubSeq(theirs, 1, n)}
      left(mine, theirs) ==
        IF mine = <<>> \/ theirs = <<>> THEN text
        ELSE IF Len(mine) <= Len(theirs) /\ SubSeq(theirs, 1, Len(mine)) = mine THEN <<>>
        ELSE IF overlaps(mine, theirs) # {}
        THEN JoinLines(SubSeq(mine, 1, Len(mine) - Max(overlaps(mine, theirs))))
        ELSE text
  IN IF Blank(text) THEN <<>>
     ELSE left(Lines(text), Lines(JoinLines([i \in DOMAIN children |-> children[i].text])))

RECURSIVE ChildParas(_, _, _, _, _)

\* _cell_paragraphs.
CellParas(cell, path, page) ==
  LET onPage(child, ps) == IF child.type = "list" THEN [i \in DOMAIN ps |-> SetPage(ps[i], page)] ELSE ps
      add(acc, child, ps) == [k |-> CellIndexAfter(acc.k, child, ps), out |-> acc.out \o onPage(child, ps)]
      whole(ps) == IF ps = <<>> THEN <<Para(Append(path, <<"p", 1>>), {}, <<>>, <<>>)>> ELSE ReadingOrder(ps)
  IN whole(FoldLeft(LAMBDA acc, child : add(acc, child,
                      ChildParas(child, Append(path, <<"p", acc.k + 1>>), page, Geometry(child), page)),
                    [k |-> 0, out |-> <<>>], cell.kids).out)

\* A paragraph of one table: _table_node_to_ir and _append_table_cell.
TablePara(node, path, page) ==
  LET tbl == Append(path, <<"tbl", 1>>)
      filled(c, ps) == [row |-> c.row, col |-> c.col, path |-> <<>>, text |-> CellText(ps), paras |-> ps]
      at(c) == tbl \o <<<<"tr", c.row>>, <<"tc", c.col>>>>
  IN SetPage(Para(path, node.box, <<>>,
       <<[kind |-> "table", path |-> <<>>, raw |-> node.id, page |-> node.page, box |-> node.box,
          cells |-> [i \in DOMAIN node.kids |-> LET c == node.kids[i] IN
                       filled(c, CellParas(c, at(c), OrElse(c.page, node.page)))],
          prev |-> {}, next |-> {}]>>),
       OrElse(node.page, page))

\* _paragraphs_from_list_node: an item's own lines, then its children.
ListParas(node, path) ==
  LET own(item, at, text) ==
        IF text = <<>> THEN <<>>
        ELSE TextParas(IF text = item.text THEN item ELSE [item EXCEPT !.text = text, !.spans = <<>>],
                       at, Geometry(item), 0)
      whole(item, at, children) == own(item, at, ItemText(item.text, children)) \o children
      at(k) == Append(path, <<"li", k>>)
  IN FlattenSeq([k \in DOMAIN node.kids |-> LET item == node.kids[k] IN
       whole(item, at(k), Collapsed(FlattenSeq([c \in DOMAIN item.kids |-> LET kid == item.kids[c] IN
         ChildParas(kid, Append(at(k), <<"c", c>>), item.page, Compose(Geometry(kid), Geometry(item)), 0)]),
         at(k)))])

\* What a child of a cell, a list item or a wrapper becomes.
ChildParas(kid, path, page, geo, textPage) ==
  CASE kid.type = "table" -> <<TablePara(kid, path, page)>>
    [] kid.type = "image" -> <<SetPage(ImagePara(kid, path), page)>>
    [] kid.type = "list" -> ListParas(kid, path)
    [] OTHER -> TextParas(kid, path, geo, textPage)

\* _paragraphs_from_container_node: headers and footers are flattened.
ContainerParas(node, path) ==
  LET orOwn(ps) == IF ps # <<>> THEN ps ELSE TextParas(node, path, Geometry(node), node.page)
  IN orOwn(FlattenSeq([c \in DOMAIN node.kids |-> LET kid == node.kids[c] IN
       ChildParas(kid, Append(path, <<"c", c>>), node.page, Compose(Geometry(kid), Geometry(node)), node.page)]))

------------------------------------------------------------------------------
(* Tables the report repeats. *)

Signature(node) == <<node.id, node.page, node.box>>
RECURSIVE TablesBelow(_, _)
\* Signatures of the named tables inside another table.
TablesBelow(node, inside) ==
  LET table == node.type = "table" IN
  (IF table /\ inside /\ node.id # {} THEN {Signature(node)} ELSE {})
  \cup UNION {TablesBelow(node.kids[i], inside \/ table) : i \in DOMAIN node.kids}
NestedTables == UNION {TablesBelow(raw[i], FALSE) : i \in DOMAIN raw}
Repeated(node) == node.type = "table" /\ node.id # {} /\ Signature(node) \in NestedTables

------------------------------------------------------------------------------
(* Assembly. *)

\* The index of the table's paragraph is taken before it is added.
LinkIndex(n) == n
Link(node, n) ==
  IF node.id = {} THEN <<>>
  ELSE <<[at |-> LinkIndex(n), id |-> node.id, prev |-> node.prev, next |-> node.next]>>

RECURSIVE ImagesIn(_)
ImagesIn(para) ==
  UNION {LET n == para.content[i] IN
         CASE n.kind = "image" -> {n}
           [] n.kind = "table" ->
                UNION {UNION {ImagesIn(n.cells[c].paras[k]) : k \in DOMAIN n.cells[c].paras} : c \in DOMAIN n.cells}
           [] OTHER -> {}
         : i \in DOMAIN para.content}
AssetsOf(ps) == UNION {{<<n.id, d>> : d \in n.data} : n \in UNION {ImagesIn(ps[i]) : i \in DOMAIN ps}}

\* One node of a wrapper or of the top level; n paragraphs are there already.
Converted(node, n, wrapped) ==
  LET path == <<<<"p", n + 1>>>> IN
  CASE Repeated(node) -> [paras |-> <<>>, links |-> <<>>]
    [] node.type = "table" /\ ~Repeated(node) -> [paras |-> <<TablePara(node, path, 0)>>, links |-> Link(node, n)]
    [] node.type \in {"header", "footer"} /\ ~wrapped ->
         [paras |-> ContainerParas(node, path), links |-> <<>>]
    [] node.type \in {"image", "header", "footer"} /\ wrapped ->
         [paras |-> TextParas(node, path, Geometry(node), 0), links |-> <<>>]
    [] OTHER -> [paras |-> ChildParas(node, path, 0, Geometry(node), 0), links |-> <<>>]

\* build_doc_ir_from_odl_result, one top-level node; a text block emits its
\* children.
Emitted(nodes, wrapped) ==
  LET add(acc, new) == [paras |-> acc.paras \o new.paras, links |-> acc.links \o new.links]
  IN FoldLeft(LAMBDA acc, node : add(acc, Converted(node, Len(acc.paras), wrapped)),
              [paras |-> paras, links |-> links], nodes)
ConvertNode ==
  /\ pc = "convert" /\ pos <= Len(raw)
  /\ LET wrapped == raw[pos].type = "text block" IN
     \E all \in {Emitted(IF wrapped THEN raw[pos].kids ELSE <<raw[pos]>>, wrapped)} :
       /\ paras' = all.paras
       /\ links' = all.links
       /\ assets' = assets \cup AssetsOf(SubSeq(all.paras, Len(paras) + 1, Len(all.paras)))
  /\ pos' = pos + 1
  /\ UNCHANGED <<raw, pc>>

------------------------------------------------------------------------------
(* New identities, and the links of a table over several pages. *)

\* The number of a node among those of its kind in the paragraph.
Number(content, i) == Cardinality({j \in 1 .. i : content[j].kind = content[i].kind})

RECURSIVE Renamed(_, _, _)
\* _canonicalize_paragraph_unit_ids and _canonicalize_table_unit_ids.
Renamed(para, path, top) ==
  LET number(i) == Number(para.content, i)
      cell(c, at) ==
        LET to == at \o <<<<"tr", c.row>>, <<"tc", c.col>>>>
            ps == [k \in DOMAIN c.paras |-> Renamed(c.paras[k], Append(to, <<"p", k>>), FALSE)]
        IN [c EXCEPT !.path = to, !.paras = ps, !.text = CellTextWhole(ps)]
      node(i) ==
        LET n == para.content[i] IN
        CASE n.kind = "run" -> [n EXCEPT !.path = Append(path, <<"r", number(i)>>)]
          [] n.kind = "image" -> [n EXCEPT !.path = Append(path, <<"img", number(i)>>)]
          [] OTHER ->
               LET at == (IF top THEN Append(path, <<"r", 1>>) ELSE path) \o <<<<"tbl", number(i)>>>>
               IN [n EXCEPT !.path = at, !.cells = [c \in DOMAIN n.cells |-> cell(n.cells[c], at)]]
      content == [i \in DOMAIN para.content |-> node(i)]
      tables == SelectSeq(content, LAMBDA n : n.kind = "table")
      cells == FlattenSeq([t \in DOMAIN tables |-> [c \in DOMAIN tables[t].cells |-> tables[t].cells[c].text]])
  IN [para EXCEPT !.path = path, !.content = content,
        !.text = IF tables # <<>> THEN JoinLines(<<RunsText(content)>> \o cells)
                 ELSE IF @ = <<>> THEN RunsText(content) ELSE @]

Canonicalize ==
  /\ pc = "convert" /\ pos > Len(raw)
  /\ paras' = [i \in DOMAIN paras |-> Renamed(paras[i], <<<<"s", 1>>, <<"p", i>>>>, TRUE)]
  /\ pc' = "link"
  /\ UNCHANGED <<raw, pos, assets, links>>

\* _apply_table_continuation_links.
TableAt(i) ==
  IF i + 1 \notin DOMAIN paras THEN {}
  ELSE LET tables == SelectSeq(paras[i + 1].content, LAMBDA n : n.kind = "table")
       IN IF tables = <<>> THEN {} ELSE {tables[1].path}
LinkTables ==
  /\ pc = "link"
  /\ LET known == SelectSeq(links, LAMBDA l : TableAt(l.at) # {})
         target(id) == LET hits == {k \in DOMAIN known : id # {} /\ known[k].id = id}
                       IN IF hits = {} THEN {} ELSE TableAt(known[Max(hits)].at)
         of(path) == {k \in DOMAIN known : TableAt(known[k].at) = {path}}
         node(n) == IF n.kind # "table" \/ of(n.path) = {} THEN n
                    ELSE LET l == known[Max(of(n.path))]
                         IN [n EXCEPT !.prev = target(l.prev), !.next = target(l.next)]
     IN paras' = [i \in DOMAIN paras |->
                    [paras[i] EXCEPT !.content = [k \in DOMAIN @ |-> node(@[k])]]]
  /\ pc' = "done"
  /\ UNCHANGED <<raw, pos, assets, links>>

Init ==
  /\ raw \in Reports
  /\ pos = 1 /\ paras = <<>> /\ assets = {} /\ links = <<>> /\ pc = "convert"

Next == ConvertNode \/ Canonicalize \/ LinkTables

Spec == Init /\ [][Next]_vars

------------------------------------------------------------------------------
(* Properties. *)

RECURSIVE NodesIn(_)
\* A paragraph and everything in it, in order.
NodesIn(para) ==
  LET inside(n) ==
        IF n.kind # "table" THEN <<n>>
        ELSE <<n>> \o FlattenSeq([c \in DOMAIN n.cells |->
               <<[kind |-> "cell", path |-> n.cells[c].path, paras |-> n.cells[c].paras]>>
               \o FlattenSeq([k \in DOMAIN n.cells[c].paras |-> NodesIn(n.cells[c].paras[k])])])
  IN <<[kind |-> "paragraph", path |-> para.path]>>
     \o FlattenSeq([i \in DOMAIN para.content |-> inside(para.content[i])])
DocNodes == FlattenSeq([i \in DOMAIN paras |-> NodesIn(paras[i])])
OfKind(kind) == SelectSeq(DocNodes, LAMBDA n : n.kind = kind)

RECURSIVE RawNodes(_)
RawNodes(node) == {node} \cup UNION {RawNodes(node.kids[i]) : i \in DOMAIN node.kids}
AllRaw == UNION {RawNodes(raw[i]) : i \in DOMAIN raw}

\* What is only read for its text: a wrapper inside another node, and in a text block of the
\* top level whatever is no table and no list (Converted, wrapped).
TextOnly ==
  LET inner == UNION {ToSet(n.kids) : n \in AllRaw}
      blocks == {raw[i] : i \in {j \in DOMAIN raw : raw[j].type = "text block"}}
  IN UNION {RawNodes(n) : n \in {k \in inner : k.type \in {"header", "footer", "text block"}}
                             \cup {k \in UNION {ToSet(b.kids) : b \in blocks} : k.type \notin {"table", "list"}}}

\* A picture of the report is in the document once, however deep in lists, cells and strips it
\* is and also when its table is given twice; and it shows its own data, no two images sharing
\* an identity.  Not claimed of what is only read for its text (TextOnly): an image that is a
\* child of a text block is lost.
ImagesKeepTheirData ==
  pc = "done" =>
    LET images == OfKind("image") IN
    /\ \A n \in AllRaw \ TextOnly : n.type = "image" /\ n.data # {} =>
         Cardinality({i \in DOMAIN images : images[i].data = n.data}) = 1
    /\ \A i, j \in DOMAIN images : i # j => images[i].id # images[j].id
    /\ \A i \in DOMAIN images : {a[2] : a \in {a \in assets : a[1] = images[i].id}} = images[i].data

\* No character of the report is lost on the way, though texts are rebuilt
\* from spans, list items drop lines their children repeat and repeated tables
\* are left out.
TextKept ==
  pc = "done" =>
    UNION {ToSet(NonBlank(n.text)) : n \in AllRaw} \subseteq UNION {ToSet(paras[i].text) : i \in DOMAIN paras}

\* A table of the report is in the document once, also when the report gives
\* it a second time inside another one.
TablesOnce ==
  pc = "done" =>
    LET tables == OfKind("table") IN
    \A n \in AllRaw : n.type = "table" /\ n.id # {} =>
      Cardinality({i \in DOMAIN tables : tables[i].raw = n.id}) = 1

\* The parts of a table over several pages lead to each other and back.
LinksLeadBack ==
  pc = "done" =>
    LET tables == OfKind("table") IN
    /\ \A i \in DOMAIN tables, p \in {"next", "prev"} : \A to \in tables[i][p] :
         \E j \in DOMAIN tables : tables[j].path = to /\
           tables[j][IF p = "next" THEN "prev" ELSE "next"] = {tables[i].path}
    /\ \A i, j \in DOMAIN raw : raw[i].type = "table" /\ raw[j].type = "table"
         /\ raw[i].next # {} /\ raw[i].next = raw[j].id /\ ~Repeated(raw[i]) /\ ~Repeated(raw[j]) =>
         \E k \in DOMAIN tables : tables[k].raw = raw[i].id /\ tables[k].next # {}

\* A cell is read page by page and down each page.
CellsReadDown ==
  pc = "done" =>
    LET cells == OfKind("cell") IN
    \A c \in DOMAIN cells : LET ps == cells[c].paras IN
      \A i, j \in DOMAIN ps : i < j /\ ps[i].box # {} /\ ps[j].box # {} =>
        /\ PageOf(ps[i]) <= PageOf(ps[j])
        /\ PageOf(ps[i]) = PageOf(ps[j]) => TopOf(ps[j]) - TopOf(ps[i]) <= 2 * RowGap

\* No two nodes of a document have the same identity: annotations address
\* nodes by it.
NodeIdsUnique ==
  pc = "done" =>
    LET nodes == DocNodes
    IN Cardinality({<<nodes[i].kind, nodes[i].path>> : i \in DOMAIN nodes}) = Len(nodes)

==============================================================================
