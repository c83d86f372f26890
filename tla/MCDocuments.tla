---------------------------- MODULE MCDocuments -----------------------------
(***************************************************************************)
(* Small instances of the document processor: edits of text, tables,       *)
(* batches and styles, the DOCX and HWPX parsers, rendering and review,    *)
(* and the three stages of a PDF.  A behaviour follows one of them; the    *)
(* variables of the others are off.                                        *)
(***************************************************************************)
EXTENDS Integers, Sequences, FiniteSets, TLC

VARIABLES
  part,   \* the component a behaviour follows
  run, textJob, blocks, delta,
  table, nativeTable, tableEdits, lastEdit,
  batch, preview, mapping, file, drift, misplaced,
  styledFormat, layout, ir, native, grid, tableW, head, ref, textW, drawing, reported, edits,
  format, skipEmpty, source, currentPage, pageOffset, section, seen, lastVert, columns, pages, paras, assets,
  doc, readFrom, shownBlocks, truncated, phase, listed, out,
  pdf, option, pagePc, fault, profile, structured, pdfDoc, todo, rendered,
  raw, pos, pdfParas, pdfAssets, links, adapterPc,
  report, tables, rules, splitPc, queue

On(component) == part = component
Off == "off"
None == -1

------------------------------------------------------------------------------
\* Every paragraph of up to three runs and letters, and every new text of up to two letters.
DX == INSTANCE DocText WITH Chars <- {"a", "b"}, MaxRuns <- 3, MaxText <- 3, MaxNew <- 2

------------------------------------------------------------------------------
\* Tables with and without merged cells.
CellAt(id, rs, cs, at) == [id |-> id, rs |-> rs, cs |-> cs, at |-> at]
SmallCell(i) == CellAt(i,1,1,<<0, 0>>)
Square == <<<<SmallCell(1),SmallCell(2)>>,<<SmallCell(3),SmallCell(4)>>>>
Column == <<<<SmallCell(1)>>,<<SmallCell(2)>>>>
TallMerge == LET m == CellAt(1,2,1,<<0, 0>>) IN <<<<m, SmallCell(2)>>,<<m,SmallCell(3)>>,<<SmallCell(4),SmallCell(5)>>>>
WideMerge == LET m == CellAt(1,1,2,<<0, 0>>) IN <<<<m, m>>,<<SmallCell(2),SmallCell(3)>>>>
TableLayouts == {Square,Column,TallMerge,WideMerge}
DT == INSTANCE DocTables WITH native <- nativeTable, edits <- tableEdits, Layouts <- TableLayouts, MaxTableEdits <- 2

------------------------------------------------------------------------------
\* A document with a table, and one with two runs in a paragraph.
FileRun(id, text) == [kind |-> "run", id |-> id, text |-> text]
FileTable(id) == [kind |-> "table", id |-> id, text |-> ""]
FilePara(id, items) == [id |-> id, items |-> items]
WithTable == <<FilePara(1,<<FileRun(2,"x")>>), FilePara(3,<<FileTable(4)>>), FilePara(5,<<FileRun(6,"y")>>)>>
TwoRuns == <<FilePara(1,<<FileRun(2,"x"),FileRun(3,"y")>>), FilePara(4,<<FileRun(5,"x")>>)>>
BatchSources == {WithTable,TwoRuns}
DB == INSTANCE DocBatch WITH Sources <- BatchSources, NewTexts <- {"z"}, MaxBatch <- 2

------------------------------------------------------------------------------
\* A table with a wide and one with a tall merge; header entries that several nodes share.
StyledCell(r, c, rs, cs) == [row |-> r, col |-> c, rs |-> rs, cs |-> cs]
WideLast == [c1 |-> StyledCell(1, 1, 1, 1), c2 |-> StyledCell(1, 2, 1, 1), c3 |-> StyledCell(2, 1, 1, 2)]
TallFirst == [c1 |-> StyledCell(1, 1, 2, 1), c2 |-> StyledCell(1, 2, 1, 1), c3 |-> StyledCell(2, 2, 1, 1)]
StyledTables == {WideLast, TallFirst}
CellParas == [c1 |-> {"p2"}, c2 |-> {"p3"}, c3 |-> {}]
HeaderRefs == [r1 |-> 0, r2 |-> 0, p1 |-> 3, p2 |-> 3, p3 |-> 1, c1 |-> 1, c2 |-> 1, c3 |-> 4]
FieldSets == {{"width", "padding"}, {"mode", "offset"}, {"fill", "halign"}}
DS == INSTANCE DocStyles WITH format <- styledFormat, cells <- layout, Runs <- {"r1", "r2"}, Paras <- {"p1", "p2", "p3"}, Image <- "img", Table <- "tbl", Layouts <- StyledTables,
        InCell <- CellParas, SharedRefs <- HeaderRefs, Values <- {1, 2}, Together <- FieldSets, MaxStyleEdits <- 2

------------------------------------------------------------------------------
\* Blocks of DOCX bodies and HWPX sections: breaks, images, links, tables, lines that turn a page or column.
Missing == <<>>   \* a picture whose data is not in the file
DocxRun(t, im, br) == [k |-> "r", text |-> t, images |-> im, breaks |-> br]
Hyperlink(t) == [k |-> "link", text |-> t, images |-> <<>>, breaks |-> 0]
DocxPara(before, ch, sect) == [k |-> "p", before |-> before, children |-> ch, sect |-> sect]
Png == <<"x", "png">>
Gif == <<"x", "gif">>
InnerPara(t) == [k |-> "p", text |-> t]
InnerTable == [k |-> "t", text |-> <<>>]
DocxCell(s, body) == [span |-> s, body |-> body]
DocxBodies == {DocxPara(b, ch, "none") : b \in BOOLEAN, ch \in {<<>>, <<DocxRun(<<"a">>, <<>>, 0)>>, <<DocxRun(<<>>, <<Png, Gif>>, 0), DocxRun(<<"b">>, <<Png>>, 1)>>,
              <<DocxRun(<<>>, <<>>, 0)>>, <<DocxRun(<<"a">>, <<Missing>>, 2)>>, <<Hyperlink(<<"u">>)>>, <<DocxRun(<<"a">>, <<>>, 0), Hyperlink(<<"u">>)>>}}
          \cup {DocxPara(FALSE, <<DocxRun(<<"a">>, <<Gif>>, 0)>>, s) : s \in {"continuous", "nextPage"}}
          \cup {[k |-> "t", rows |-> <<<<DocxCell(2, <<InnerPara(<<"a">>), InnerTable>>), DocxCell(1, <<InnerPara(<<>>), InnerTable>>)>>, <<DocxCell(1, <<InnerTable, InnerPara(<<>>), InnerPara(<<"b">>)>>)>>>>]}
HwpxText(t) == [k |-> "t", text |-> t, image |-> Missing, rows |-> <<>>]
HwpxPicture(im) == [k |-> "pic", text |-> <<>>, image |-> im, rows |-> <<>>]
HwpxTable == [k |-> "tbl", text |-> <<>>, image |-> Missing, rows |-> <<<<[addr |-> 1, paras |-> <<<<"c">>, <<>>>>]>>, <<[addr |-> 2, paras |-> <<>>]>>>>]
Line(p, v, h) == [pos |-> p, vert |-> v, horz |-> h]
HwpxPara(before, lines, runs, cols) == [k |-> "h", before |-> before, lines |-> lines, runs |-> runs, columns |-> cols]
OneLine == <<Line(0, 0, 0)>>
PageTurns == <<Line(0, 1, 0), Line(1, 0, 0)>>
ColumnTurns == <<Line(0, 1, 0), Line(2, 0, 1), Line(3, 0, 0)>>
OddLines == <<Line(0, None, 0), Line(2, 2, 0), Line(9, 1, 0)>>
Letters == <<<<HwpxText(<<"a">>), HwpxText(<<"b">>)>>, <<HwpxText(<<"c">>)>>>>
MixedRuns == <<<<HwpxText(<<>>), HwpxPicture(Png), HwpxText(<<>>)>>, <<HwpxText(<<"a">>), HwpxPicture(Missing), HwpxTable>>>>
TableFirst == <<<<>>, <<HwpxText(<<>>)>>, <<HwpxTable, HwpxText(<<"a">>), HwpxPicture(Gif)>>>>
HwpxBodies == {HwpxPara(b, ls, Letters, None) : b \in BOOLEAN, ls \in {<<>>, OneLine, PageTurns}}
           \cup {HwpxPara(FALSE, PageTurns, TableFirst, None), HwpxPara(TRUE, <<Line(0, 2, 0), Line(8, 1, 0)>>, TableFirst, None), HwpxPara(FALSE, OddLines, MixedRuns, None), HwpxPara(FALSE, ColumnTurns, Letters, None), HwpxPara(FALSE, OneLine, <<>>, None),
                 HwpxPara(FALSE, <<Line(0, 1, 0)>>, <<<<HwpxText(<<"a">>)>>>>, 2)}
LayoutColumns == <<1, 2>>
DP == INSTANCE DocParse WITH page <- currentPage, DocxBlocks <- DocxBodies, HwpxBlocks <- HwpxBodies, SectionColumns <- LayoutColumns, ControlWidth <- 8, MaxBlocks <- 3

------------------------------------------------------------------------------
\* Documents with columns, merged cells, PDF boxes, no pages, runs that spill over a page, and many blocks.
NodeOf(k, t, pg, hid, ast, box, cells, rows) ==
  [k |-> k, text |-> t, page |-> pg, hidden |-> hid, asset |-> ast, box |-> box, cells |-> cells, rows |-> rows]
Text(t, pg) == NodeOf("run", t, pg, FALSE, FALSE, TRUE, <<>>, 0)
TextNoBox(t, pg) == NodeOf("run", t, pg, FALSE, FALSE, FALSE, <<>>, 0)
HiddenText(t, pg) == NodeOf("run", t, pg, TRUE, FALSE, TRUE, <<>>, 0)
Picture(ast, pg) == NodeOf("image", <<>>, pg, FALSE, ast, TRUE, <<>>, 0)
Grid(cells, rows, pg) == NodeOf("table", <<>>, pg, FALSE, FALSE, TRUE, cells, rows)
GridCell(r, c, rs, cs, ps) == [row |-> r, col |-> c, rs |-> rs, cs |-> cs, paras |-> ps, box |-> TRUE]
Para(nodes) == [nodes |-> nodes, columns |-> 1, column |-> None, box |-> TRUE]
ColumnPara(nodes, n, k) == [nodes |-> nodes, columns |-> n, column |-> k, box |-> TRUE]
A1 == <<"a">>
A2 == <<"a", "a">>
Aba == <<"a", "b", "a">>
MergedGrid == Grid(<<GridCell(1, 1, 2, 1, <<2>>), GridCell(1, 2, 1, 2, <<3>>), GridCell(2, 3, 1, 1, <<4>>)>>, 2, 1)
Columned == [pdf |-> FALSE, pages |-> <<1, 2>>, body |-> <<1, 5, 6, 7, 8>>,
       paras |-> <<Para(<<Text(A2, 1), MergedGrid, Text(<<"a", "b">>, 1)>>), Para(<<Text(A2, 1), Text(A1, 1)>>), Para(<<Picture(TRUE, 1), Text(A1, 1)>>), Para(<<>>),
                   ColumnPara(<<Text(A1, 1)>>, 2, 1), ColumnPara(<<HiddenText(A1, 1), Text(Aba, 1)>>, 2, 0), ColumnPara(<<Text(A1, 1), Text(A1, 2)>>, 3, 0), Para(<<Picture(FALSE, 2), Text(A2, None)>>)>>]
PdfPaged == [pdf |-> TRUE, pages |-> <<1, 2>>, body |-> <<1, 2, 3>>,
       paras |-> <<Para(<<Text(A1, 1), TextNoBox(<<"b">>, 1), Text(A1, None), Text(<<"b">>, 1)>>), Para(<<Text(A1, 2), Grid(<<GridCell(1, 1, 1, 1, <<4>>)>>, 1, 2)>>),
                   Para(<<Text(A2, 2)>>), Para(<<Text(A1, None), Text(<<"b">>, None)>>)>>]
Unpaged == [pdf |-> FALSE, pages |-> <<>>, body |-> <<1, 2, 3>>,
       paras |-> <<Para(<<Text(<<"^", "a">>, None), Text(A2, None)>>), Para(<<Text(<<" ">>, None)>>), Para(<<Text(A2, None), Picture(TRUE, None), Text(Aba \o A2, None)>>)>>]
Spilling == [pdf |-> FALSE, pages |-> <<1, 2>>, body |-> <<1, 2>>,
       paras |-> <<Para(<<Text(Aba, 1), Text(A2, 2), Text(A1, None)>>), Para(<<Text(A1, 1), Picture(TRUE, 1), Text(A2, 2)>>)>>]
Long == [pdf |-> FALSE, pages |-> <<1>>, body |-> [i \in 1 .. 8 |-> i], paras |-> [i \in 1 .. 8 |-> Para(<<Text(A1, 1)>>)]]
OpenDocuments == {Columned, PdfPaged, Unpaged, Spilling, Long}
SelectedTexts == {A1, A2, <<"a", "b">>, <<"b", "a">>, Aba}
DR == INSTANCE DocRender WITH blocks <- shownBlocks, Documents <- OpenDocuments, Selections <- SelectedTexts, ReadLimit <- 3, MaxBlockText <- 2,
        MaxText <- 10, MaxKept <- 7, MaxMarks <- 6, MaxTargets <- 9

------------------------------------------------------------------------------
\* Pages of text, scans, vector drawings and images; the values of the pages option.
BlankPage == [normal |-> 0, odd |-> 0, fffd |-> 0, inner |-> 0, texts |-> <<>>, objs |-> <<>>, w |-> 20, h |-> 30]
TextPage(n, o, f, s) == [BlankPage EXCEPT !.normal = n, !.odd = o, !.fffd = f, !.inner = s, !.texts = <<<<1, 1, 19, 29>>>>]
PageImage(box, px) == [type |-> "image", box |-> box, px |-> px, n |-> 1]
PagePath(n) == [type |-> "path", box |-> <<2, 2, 18, 2>>, px |-> <<0, 0>>, n |-> n]
PdfPageKinds ==
  {TextPage(40, 2, 0, 5), TextPage(15, 0, 7, 0), TextPage(15, 0, 8, 0), TextPage(5, 60, 0, 0), TextPage(2, 0, 1, 3), BlankPage,
   [TextPage(40, 0, 0, 0) EXCEPT !.objs = <<PagePath(101)>>],
   [BlankPage EXCEPT !.objs = <<PagePath(101)>>],
   [BlankPage EXCEPT !.objs = <<PagePath(101), PageImage(<<1, 1, 9, 9>>, <<3, 3>>)>>],
   [TextPage(40, 0, 0, 0) EXCEPT !.objs = <<PageImage(<<0, 0, 20, 30>>, <<40, 60>>)>>],
   [TextPage(40, 0, 0, 0) EXCEPT !.objs = <<PageImage(<<2, 2, 12, 12>>, <<10, 10>>), PageImage(<<12, 20, 18, 28>>, <<9, 12>>)>>],
   [TextPage(40, 0, 0, 0) EXCEPT !.objs = <<PageImage(<<15, 20, 25, 30>>, <<5, 5>>), PageImage(<<4, 4, 4, 9>>, <<1, 1>>), PageImage(<<-9, 3, -2, 9>>, <<1, 1>>), PageImage(<<21, 3, 24, 9>>, <<1, 1>>)>>]}
TwoPagePdfs == {<<a, b>> : a, b \in PdfPageKinds}
PagesOption(k, p) == [kind |-> k, parts |-> p]
PagesOptions == {PagesOption("all", <<>>), PagesOption("list", <<<<2, 2>>>>), PagesOption("list", <<>>), PagesOption("list", <<<<0, 0>>>>), PagesOption("text", <<>>),
          PagesOption("text", <<<<1, 2>>>>), PagesOption("text", <<<<2, 1>>>>), PagesOption("text", <<<<1, 3>>>>), PagesOption("text", <<<<1, 1>>>>)}
PP == INSTANCE PdfPages WITH pc <- pagePc, doc <- pdfDoc, Pdfs <- TwoPagePdfs, Selections <- PagesOptions,
        OdlOutcomes <- {"ok", "no_jar", "no_java", "exit_code", "no_output"}, Scale <- 3

------------------------------------------------------------------------------
\* Reports of one or two nodes out of fifteen.
OdlNode(type) == [type |-> type, id |-> {}, page |-> 0, box |-> {}, style |-> "n", text |-> <<>>, spans |-> <<>>,
            kids |-> <<>>, row |-> 1, col |-> 1, prev |-> {}, next |-> {}, data |-> {}]
OdlText(text) == [OdlNode("paragraph") EXCEPT !.text = text]
Placed(node, page, box) == [node EXCEPT !.page = page, !.box = {box}]
OdlSpan(text, box, style) == [text |-> text, box |-> box, style |-> style]
OdlImage(d) == [OdlNode("image") EXCEPT !.data = {d}]
OdlCell(r, c, kids) == [OdlNode("cell") EXCEPT !.row = r, !.col = c, !.kids = kids]
OdlTable(id, page, cells) == [OdlNode("table") EXCEPT !.id = {id}, !.page = page, !.box = {<<0, 0, 50, 50>>}, !.kids = cells]
OdlItem(text, kids) == [OdlNode("list item") EXCEPT !.text = text, !.kids = kids, !.page = 1]
OdlList(items) == [OdlNode("list") EXCEPT !.kids = items]
Wrapped(type, kids) == [OdlNode(type) EXCEPT !.kids = kids, !.page = 1]
NestedTable == OdlTable("t9", 1, <<OdlCell(1, 1, <<OdlText(<<"k">>), OdlImage("i7")>>)>>)
StripBox(id, l) == [OdlTable(id, 1, <<OdlCell(1, 1, <<OdlText(<<id>>)>>)>>) EXCEPT !.box = {<<l, 0, l + 5, 10>>}]
StripArrow(l) == Placed(OdlText(<<">">>), 1, <<l, 2, l + 2, 8>>)
OdlNodes ==
  {Placed([OdlText(<<"a", "_", "b", ".">>) EXCEPT !.spans = <<OdlSpan(<<"a">>, {<<0, 0, 5, 10>>}, ""), OdlSpan(<<"b">>, {<<9, 0, 12, 10>>}, "")>>], 1, <<0, 0, 12, 10>>),
   Placed([OdlText(<<"1", "_", "2">>) EXCEPT !.spans = <<OdlSpan(<<"1">>, {<<0, 20, 5, 30>>}, ""), OdlSpan(<<"2">>, {<<0, 0, 5, 10>>}, "b")>>], 1, <<0, 0, 12, 30>>),
   [OdlText(<<"c", "_", "d">>) EXCEPT !.spans = <<OdlSpan(<<"c">>, {<<0, 0, 5, 10>>}, ""), OdlSpan(<<"_">>, {<<5, 0, 40, 10>>}, ""), OdlSpan(<<"d">>, {<<40, 0, 45, 10>>}, "")>>],
   OdlText(<<"_">>), [OdlNode("caption") EXCEPT !.page = 1],
   OdlImage("i0"),
   OdlList(<<OdlItem(<<"e", "/", "f">>, <<OdlText(<<"f">>), OdlText(<<"g">>)>>), OdlItem(<<"h">>, <<OdlText(<<"h">>), OdlImage("i1"), OdlList(<<OdlItem(<<"j">>, <<OdlImage("i2")>>)>>)>>)>>),
   OdlList(<<OdlItem(<<"m", "/", "x">>, <<OdlText(<<"m">>)>>)>>),
   OdlList(<<OdlItem(<<>>, <<StripBox("u", 0), StripArrow(6), StripBox("v", 9), StripBox("w", 16), OdlText(<<"q">>)>>)>>),
   [OdlTable("t1", 1, <<OdlCell(1, 1, <<OdlImage("i3"), OdlImage("i4"), OdlText(<<"_">>), NestedTable>>), OdlCell(1, 2, <<>>)>>) EXCEPT !.next = {"t2"}],
   [OdlTable("t2", 2, <<OdlCell(1, 1, <<Placed(OdlText(<<"l">>), 2, <<0, 10, 5, 20>>), Placed(OdlText(<<"n">>), 1, <<0, 0, 5, 10>>), OdlText(<<"o">>), Placed(OdlText(<<"p">>), 2, <<0, 30, 5, 42>>)>>),
                   OdlCell(1, 2, <<Placed(OdlText(<<"r">>), 2, <<0, 0, 5, 20>>), Placed(OdlText(<<"s">>), 2, <<8, 0, 12, 29>>), Placed(OdlText(<<"t">>), 2, <<3, 0, 6, 35>>)>>)>>) EXCEPT !.prev = {"t1"}],
   NestedTable,
   Wrapped("text block", <<NestedTable, OdlText(<<"y">>), OdlImage("i8"), OdlList(<<OdlItem(<<"z">>, <<OdlImage("i9")>>)>>)>>),
   Wrapped("header", <<OdlText(<<"A">>), OdlImage("i5"), OdlList(<<OdlItem(<<"B">>, <<>>)>>), OdlTable("t5", 0, <<OdlCell(1, 1, <<OdlList(<<OdlItem(<<"C">>, <<OdlImage("i6")>>)>>)>>)>>)>>),
   Wrapped("footer", <<>>)}
\* No node twice; the nested table is given a second time at most once.
OdlReports == {s \in UNION {[1 .. n -> OdlNodes] : n \in 1 .. 2} :
  /\ \A i, j \in DOMAIN s : i # j => s[i] # s[j]
  /\ Cardinality({i \in DOMAIN s : s[i] = NestedTable \/ s[i].type = "text block"}) <= 1}
PA == INSTANCE PdfAdapter WITH paras <- pdfParas, assets <- pdfAssets, pc <- adapterPc, Reports <- OdlReports, Digits <- {"1", "2"}, Connectors <- {">"},
        RowGap <- 10, StripGap <- 18

------------------------------------------------------------------------------
\* Pages with a table, a table in a table, uneven edges or rows without rules.
NoBorders == [left |-> {}, right |-> {}, bottom |-> {}, top |-> {}]
Kid(type, box, text, kids) == [type |-> type, box |-> {box}, text |-> text, kids |-> kids, ref |-> 0, copy |-> {}]
KidPara(box, text) == Kid("paragraph", box, text, <<>>)
KidSpan(box, text) == Kid("span", box, text, <<>>)
GridLeaf(n, box, row, col, rs, cs, kids) == [from |-> n, box |-> box, row |-> row, col |-> col, rowspan |-> rs, colspan |-> cs, kids |-> kids, borders |-> NoBorders]
RawTable(box, cells, ys, xs) == [box |-> box, cells |-> cells, ys |-> ys, xs |-> xs]
\* A category beside two details, one of them run together over two rows.
FlatTable == RawTable(<<0, 10, 60, 50>>,
  <<GridLeaf(1, <<0, 10, 20, 50>>, 1, 1, 1, 1, <<KidPara(<<2, 32, 18, 46>>, <<"a">>)>>),
    GridLeaf(2, <<20, 10, 40, 50>>, 1, 2, 1, 1, <<Kid("paragraph", <<22, 14, 38, 46>>, <<"b", "c">>, <<KidSpan(<<22, 34, 38, 46>>, <<"b">>), KidSpan(<<22, 14, 38, 24>>, <<"c">>)>>)>>),
    GridLeaf(3, <<40, 10, 60, 50>>, 1, 3, 1, 1, <<KidPara(<<42, 14, 58, 46>>, <<"6", "7">>)>>)>>,
  <<50, 10>>, <<0, 20, 40, 60>>)
\* A category over two rows whose edges the report gives a little apart; the
\* grid is not reported.
UnevenTable == RawTable(<<0, 10, 40, 50>>,
  <<GridLeaf(1, <<0, 10, 20, 50>>, 1, 1, 2, 1, <<KidPara(<<2, 12, 18, 48>>, <<"*", "d", "*", "e">>)>>),
    GridLeaf(2, <<20, 31, 40, 50>>, 1, 2, 1, 1, <<KidPara(<<22, 40, 38, 48>>, <<"f">>)>>),
    GridLeaf(3, <<21, 10, 40, 30>>, 2, 2, 1, 1,
       <<Kid("list", <<22, 12, 38, 28>>, <<>>, <<Kid("list item", <<22, 20, 38, 28>>, <<"g">>, <<KidPara(<<22, 20, 38, 28>>, <<"g">>)>>),
                                               Kid("list item", <<22, 12, 38, 19>>, <<"h">>, <<>>)>>)>>)>>,
  <<>>, <<>>)
\* A table in a table.
TableInTable == <<RawTable(<<0, 10, 40, 50>>,
    <<GridLeaf(1, <<0, 10, 40, 50>>, 1, 1, 1, 1, <<KidPara(<<4, 40, 36, 48>>, <<"i">>),
         [Kid("table", <<4, 12, 36, 28>>, <<>>, <<>>) EXCEPT !.ref = 2]>>)>>, <<50, 10>>, <<0, 40>>),
  RawTable(<<4, 12, 36, 28>>, <<GridLeaf(1, <<4, 12, 36, 28>>, 1, 1, 1, 1, <<KidPara(<<5, 14, 15, 26>>, <<"j">>), KidPara(<<22, 14, 34, 26>>, <<"k">>)>>)>>, <<28, 12>>, <<4, 36>>)>>
\* Rows that only the column rules show.
OpenTable == RawTable(<<0, 10, 60, 50>>,
  <<GridLeaf(1, <<0, 10, 20, 50>>, 1, 1, 1, 1, <<KidPara(<<2, 34, 18, 46>>, <<"l">>)>>),
    GridLeaf(2, <<20, 10, 40, 50>>, 1, 2, 1, 1, <<KidPara(<<22, 34, 38, 46>>, <<"m">>), KidPara(<<22, 14, 38, 24>>, <<"n">>)>>),
    GridLeaf(3, <<40, 10, 60, 50>>, 1, 3, 1, 1, <<KidPara(<<42, 34, 58, 46>>, <<"o">>), KidPara(<<42, 14, 58, 24>>, <<"p">>)>>)>>,
  <<50, 10>>, <<0, 20, 40, 60>>)
TablePagesGiven == {<<OpenTable>>, <<FlatTable>>, <<UnevenTable>>, TableInTable}
Rule(at, lo, hi, css) == [at |-> at, lo |-> lo, hi |-> hi, css |-> css]
HorizontalDots == {Rule(30, 20, 60, "x"), Rule(30, 0, 60, "y"), Rule(28, 40, 60, "x"), Rule(34, 0, 20, "x"), Rule(20, 4, 36, "x"), Rule(33, 0, 40, "x")}
VerticalDots == {Rule(10, 10, 50, "x"), Rule(30, 10, 50, "x"), Rule(21, 10, 50, "y"), Rule(20, 12, 28, "x")}
VerticalLines == {Rule(20, 30, 50, ""), Rule(40, 30, 50, ""), Rule(60, 31, 50, ""), Rule(0, 10, 29, "")}
HorizontalLines == {Rule(30, 20, 40, ""), Rule(31, 45, 60, "")}
PS == INSTANCE PdfSplits WITH pc <- splitPc, TablePages <- TablePagesGiven, DottedH <- HorizontalDots, DottedV <- VerticalDots,
        VerticalSegments <- VerticalLines, HorizontalSegments <- HorizontalLines, Markers <- {"*"}, Codes <- {"6", "7"}, MaxRules <- 3

------------------------------------------------------------------------------
textVars    == <<run, textJob, blocks, delta>>
tableVars   == <<table, nativeTable, tableEdits, lastEdit>>
batchVars   == <<batch, preview, mapping, file, drift, misplaced>>
styleVars   == <<styledFormat, layout, ir, native, grid, tableW, head, ref, textW, drawing, reported, edits>>
parseVars   == <<format, skipEmpty, source, currentPage, pageOffset, section, seen, lastVert, columns, pages, paras, assets>>
renderVars  == <<doc, readFrom, shownBlocks, truncated, phase, listed, out>>
pageVars    == <<pdf, option, pagePc, fault, profile, structured, pdfDoc, todo, rendered>>
adapterVars == <<raw, pos, pdfParas, pdfAssets, links, adapterPc>>
splitVars   == <<report, tables, rules, splitPc, queue>>
documentVars == <<part, textVars, tableVars, batchVars, styleVars, parseVars, renderVars, pageVars, adapterVars, splitVars>>

DocumentsInit ==
  /\ part \in {"text", "tables", "batch", "styles", "parse", "render", "pages", "adapter", "splits"}
  /\ IF On("text") THEN DX!TextInit
     ELSE /\ run = Off /\ textJob = Off /\ blocks = Off /\ delta = Off
  /\ IF On("tables") THEN DT!TableInit
     ELSE /\ table = Off /\ nativeTable = Off /\ tableEdits = Off /\ lastEdit = Off
  /\ IF On("batch") THEN DB!BatchInit
     ELSE /\ batch = Off /\ preview = Off /\ mapping = Off /\ file = Off /\ drift = Off
          /\ misplaced = Off
  /\ IF On("styles") THEN DS!Init
     ELSE /\ styledFormat = Off /\ layout = Off /\ ir = Off /\ native = Off /\ grid = Off
          /\ tableW = Off /\ head = Off /\ ref = Off /\ textW = Off /\ drawing = Off /\ reported = Off
          /\ edits = Off
  /\ IF On("parse") THEN DP!ParseInit
     ELSE /\ format = Off /\ skipEmpty = Off /\ source = Off /\ currentPage = Off /\ pageOffset = Off
          /\ section = Off /\ seen = Off /\ lastVert = Off /\ columns = Off /\ pages = Off
          /\ paras = Off /\ assets = Off
  /\ IF On("render") THEN DR!RenderInit
     ELSE /\ doc = Off /\ readFrom = Off /\ shownBlocks = Off /\ truncated = Off /\ phase = Off
          /\ listed = Off /\ out = Off
  /\ IF On("pages") THEN PP!Init
     ELSE /\ pdf = Off /\ option = Off /\ pagePc = Off /\ fault = Off /\ profile = Off
          /\ structured = Off /\ pdfDoc = Off /\ todo = Off /\ rendered = Off
  /\ IF On("adapter") THEN PA!Init
     ELSE /\ raw = Off /\ pos = Off /\ pdfParas = Off /\ pdfAssets = Off /\ links = Off
          /\ adapterPc = Off
  /\ IF On("splits") THEN PS!Init
     ELSE /\ report = Off /\ tables = Off /\ rules = Off /\ splitPc = Off /\ queue = Off

\* Only the variables of the component in focus change.
Rest ==
  /\ UNCHANGED part
  /\ IF On("text") THEN TRUE ELSE UNCHANGED textVars
  /\ IF On("tables") THEN TRUE ELSE UNCHANGED tableVars
  /\ IF On("batch") THEN TRUE ELSE UNCHANGED batchVars
  /\ IF On("styles") THEN TRUE ELSE UNCHANGED styleVars
  /\ IF On("parse") THEN TRUE ELSE UNCHANGED parseVars
  /\ IF On("render") THEN TRUE ELSE UNCHANGED renderVars
  /\ IF On("pages") THEN TRUE ELSE UNCHANGED pageVars
  /\ IF On("adapter") THEN TRUE ELSE UNCHANGED adapterVars
  /\ IF On("splits") THEN TRUE ELSE UNCHANGED splitVars

EditText   == On("text") /\ DX!TextNext /\ Rest
EditTable  == On("tables") /\ DT!TableNext /\ Rest
EditBatch  == On("batch") /\ DB!BatchNext /\ Rest
EditStyle  == On("styles") /\ DS!Next /\ Rest
ParseFile  == On("parse") /\ DP!ParseNext /\ Rest
Render     == On("render") /\ DR!RenderNext /\ Rest
ParsePages == On("pages") /\ PP!Next /\ Rest
Adapt      == On("adapter") /\ PA!Next /\ Rest
Split      == On("splits") /\ PS!Next /\ Rest

DocumentsNext == EditText \/ EditTable \/ EditBatch \/ EditStyle \/ ParseFile \/ Render \/ ParsePages \/ Adapt \/ Split
DocumentsSpec == DocumentsInit /\ [][DocumentsNext]_documentVars

------------------------------------------------------------------------------
\* An edit does what it says and nothing else: texts, tables and batches hit their targets in
\* file and preview alike, and neighbours, sources and shared styles stay (edit_engine.py).
\* Tables until a column is inserted beside merged cells; a batch up to the block in which
\* its file and its copy have parted, as after the removal of a DOCX table.
EditsExact ==
  /\ [](/\ On("text") => DX!TextReplaced /\ DX!FormattingKept
        /\ On("tables") => DT!NoCellDropped /\ DT!TableInStep
        /\ On("batch") => DB!EditsHitTheirTargets /\ DB!PreviewIsOutput /\ DB!SourceKept
        /\ On("styles") => DS!WidthsFollowGrid /\ DS!TextAreaFits /\ DS!DrawingWhole)
  /\ [][On("styles") => DS!LocalStep]_styleVars
\* What a file contains is parsed, shown and marked: content and pages in order, every node
\* once, cells in place, the marks of runs on their own characters, and those of paragraphs
\* too up to the page break a paragraph may have (document_ir_parser.py, html_exporter.py,
\* annotations.py).
ContentShown ==
  /\ On("parse") => DP!ContentKept /\ DP!PagesListed /\ DP!PagesFollowLines
  /\ On("render") => /\ DR!EveryNodeOnce /\ DR!CellsInPlace /\ DR!SelectionMarked
                     /\ DR!BlocksIdentified /\ DR!BlocksAreTheText /\ DR!PdfHighlightsSelection
                     /\ DR!TargetsHaveContext
=============================================================================
