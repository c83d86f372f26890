------------------------------ MODULE DocRender -----------------------------
(***************************************************************************)
(* What is shown of a document that was read: the pages of paragraphs a    *)
(* client reads, the targets it may edit and their context, the HTML       *)
(* export, the review HTML with its highlighted selections, the highlights *)
(* written into a PDF, and the text blocks of a resume import with the     *)
(* preview that marks them (document_processor/api.py, annotations.py,     *)
(* html_exporter.py, pdf/annotations.py, resume/worker.py, preview.py).    *)
(*                                                                         *)
(* A document holds its paragraphs by number; body lists the top-level     *)
(* ones and a table node's cells list their own, one level deep.  A target *)
(* is <<p>>, <<p, n>> for node n of it, or <<p, n, c>> for cell c of a     *)
(* table.  A text is a sequence of characters, a rendering the sequence of *)
(* pieces a reader meets.  Sizes, fonts and colours are left out.          *)
(***************************************************************************)
EXTENDS Integers, Sequences, SequencesExt, FiniteSetsExt

CONSTANTS
  Documents,     \* the documents that may be open
  Selections,    \* the texts a client selects
  ReadLimit,     \* paragraphs a resume import reads at a time
  MaxBlockText,  \* MAX_BLOCK_TEXT: characters of a block
  MaxText,       \* MAX_TEXT: characters of all blocks
  MaxKept,       \* MAX_BLOCKS
  MaxMarks,      \* annotations of a preview
  MaxTargets     \* the max_targets argument

VARIABLES
  doc,        \* the document
  readFrom,   \* start of the next page of paragraphs
  blocks,     \* the blocks of the resume import
  truncated,  \* its truncated flag
  phase,      \* "open", "reading" or "read"
  listed,     \* the editable targets a client was told of
  out         \* the last answer

renderVars == <<doc, readFrom, blocks, truncated, phase, listed, out>>

None == -1
Blank == " "      \* white space
Control == "^"    \* a control character
Newline == "/"

Joined(texts) == FlattenSeq(texts)
IsRun(node) == node.k = "run"
Para(p) == doc.paras[p]
Node(p, n) == doc.paras[p].nodes[n]
NodesOf(p) == DOMAIN doc.paras[p].nodes
RunText(p) == LET runs == SelectSeq(Para(p).nodes, IsRun) IN Joined([i \in DOMAIN runs |-> runs[i].text])
Mixed(p) == \E n \in NodesOf(p) : ~IsRun(Node(p, n))
HasTables(p) == \E n \in NodesOf(p) : Node(p, n).k = "table"
CellParas(node) == Joined([c \in DOMAIN node.cells |-> node.cells[c].paras])

\* ParagraphIR.recompute_text and TableCellIR.recompute_text: the runs, then the cells' texts,
\* each on a line of its own.
Lines(texts) ==
  FoldLeft(LAMBDA a, t : IF t = <<>> THEN a ELSE IF a = <<>> THEN t ELSE a \o <<Newline>> \o t, <<>>, texts)
CellText(cell) ==
  Joined([i \in DOMAIN cell.paras |-> (IF i > 1 THEN <<Newline>> ELSE <<>>) \o RunText(cell.paras[i])])
ParaText(p) ==
  Lines(<<RunText(p)>> \o
        [n \in NodesOf(p) |-> Lines([c \in DOMAIN Node(p, n).cells |-> CellText(Node(p, n).cells[c])])])

\* _iter_doc_ir_paragraphs: a paragraph comes before those of its tables.
AllParas ==
  Joined([i \in DOMAIN doc.body |->
    <<doc.body[i]>> \o Joined([n \in NodesOf(doc.body[i]) |-> CellParas(Node(doc.body[i], n))])])

\* paragraph_page_number: the first page a node of it, or of its tables, is on.
FirstPage(pages) == LET known == SelectSeq(pages, LAMBDA x : x # None) IN IF known = <<>> THEN None ELSE known[1]
PageOf(nodes) ==
  FirstPage(Joined([i \in DOMAIN nodes |->
    <<nodes[i].page>> \o Joined([j \in DOMAIN CellParas(nodes[i]) |->
      LET inner == Para(CellParas(nodes[i])[j]).nodes IN [x \in DOMAIN inner |-> inner[x].page]])]))
ParaPage(p) == PageOf(Para(p).nodes)

-----------------------------------------------------------------------------
\* Selections.

\* A search that starts again after the match misses the overlapping ones.
OccurrencesApart(text, sel) ==
  SelectSeq([i \in 1 .. Len(text) |-> i - 1],
            LAMBDA i : /\ i + Len(sel) <= Len(text) /\ SubSeq(text, i + 1, i + Len(sel)) = sel
                       /\ ~\E j \in 0 .. i - 1 : i < j + Len(sel) /\ SubSeq(text, j + 1, j + Len(sel)) = sel)

\* _find_text_occurrences: every position the selection stands at, overlapping ones too.
Occurrences(text, sel) ==
  SelectSeq([i \in 1 .. Len(text) |-> i - 1],
            LAMBDA i : i + Len(sel) <= Len(text) /\ SubSeq(text, i + 1, i + Len(sel)) = sel)

NoSpan == [ok |-> FALSE, start |-> 0, stop |-> 0]

\* _resolve_text_annotation_span; <<>> selects the whole target.
Span(text, ann) ==
  LET found == Occurrences(text, ann.sel)
  IN CASE ann.sel = <<>> -> [ok |-> TRUE, start |-> 0, stop |-> Len(text)]
       [] found = <<>> \/ (ann.occ = None /\ Len(found) > 1) \/ ann.occ >= Len(found) -> NoSpan
       [] OTHER -> LET start == found[(IF ann.occ = None THEN 0 ELSE ann.occ) + 1]
                   IN [ok |-> TRUE, start |-> start, stop |-> start + Len(ann.sel)]

\* _validate_text_annotations_for_doc, for one annotation.
Resolved(ann) ==
  LET p == ann.target[1]
  IN CASE ann.kind = "paragraph" /\ Len(ann.target) = 1 /\ ~Mixed(p) -> Span(ParaText(p), ann)
       [] ann.kind = "run" /\ Len(ann.target) = 2 /\ IsRun(Node(p, ann.target[2])) ->
            Span(Node(p, ann.target[2]).text, ann)
       [] OTHER -> NoSpan

-----------------------------------------------------------------------------
\* Rendering.

\* paragraph_page_fragments: a paragraph whose nodes are on several pages is cut where the page changes.
Fragments(p) ==
  LET nodes == Para(p).nodes
      pages == {nodes[n].page : n \in DOMAIN nodes} \ {None}
      page(n) == IF nodes[n].page # None THEN nodes[n].page ELSE ParaPage(p)
      step(acc, n) ==
        IF acc # <<>> /\ page(Last(Last(acc))) = page(n) THEN Front(acc) \o <<Append(Last(acc), n)>>
        ELSE Append(acc, <<n>>)
      order == [n \in DOMAIN nodes |-> n]
      parts == IF Cardinality(pages) <= 1 THEN <<order>> ELSE FoldLeft(step, <<>>, order)
  IN [i \in DOMAIN parts |->
        [para |-> p, nodes |-> parts[i], page |-> PageOf([j \in DOMAIN parts[i] |-> nodes[parts[i][j]]])]]

\* The positions a cell's spans cover besides its own.
Covered(cell) ==
  ((cell.row .. cell.row + cell.rs - 1) \X (cell.col .. cell.col + cell.cs - 1)) \ {<<cell.row, cell.col>>}

\* _render_table: the rows of the HTML table; a position no cell has or covers gets an empty cell.
TableHtml(table) ==
  LET cells == {table.cells[c] : c \in DOMAIN table.cells}
      height == Max({c.row + c.rs - 1 : c \in cells} \cup {table.rows})
      width == Max({c.col + c.cs - 1 : c \in cells})
      step(acc, at) ==
        LET here == {c \in DOMAIN table.cells : table.cells[c].row = at[1] /\ table.cells[c].col = at[2]}
            c == CHOOSE x \in here : TRUE
        IN IF at \in acc.covered THEN acc
           ELSE IF here = {}
           THEN [acc EXCEPT !.rows[at[1]] = Append(@, [cell |-> 0, rs |-> 1, cs |-> 1])]
           ELSE [rows |-> [acc.rows EXCEPT ![at[1]] =
                             Append(@, [cell |-> c, rs |-> table.cells[c].rs, cs |-> table.cells[c].cs])],
                 covered |-> acc.covered \cup Covered(table.cells[c])]
      order == Joined([r \in 1 .. height |-> [c \in 1 .. width |-> <<r, c>>]])
  IN IF cells = {} THEN <<>>
     ELSE FoldLeft(step, [rows |-> [r \in 1 .. height |-> <<>>], covered |-> {}], order).rows

\* _run_annotations_for_segment: the part of an annotation that falls on run n, which starts at
\* cursor in its paragraph's text.
Segment(ann, p, n, cursor) ==
  LET from == IF ann.target = <<p>> THEN cursor ELSE 0
  IN IF ann.target \notin {<<p>>, <<p, n>>} THEN {}
     ELSE (Max({0, ann.start - from}) + 1) .. Min({Len(Node(p, n).text), ann.stop - from})

\* _apply_annotations: the annotations on each character of a run.
Marks(p, n, cursor, anns) ==
  [c \in DOMAIN Node(p, n).text |-> {a \in DOMAIN anns : c \in Segment(anns[a], p, n, cursor)}]

Piece(p, n, page, marks, rows) == [para |-> p, node |-> n, page |-> page, marks |-> marks, rows |-> rows]

\* A run or an image of _render_paragraph_like; the export leaves hidden runs out, the review
\* shows them, and an image without stored data leaves nothing.
Inline(acc, p, n, page, anns, review) ==
  LET node == Node(p, n)
  IN IF IsRun(node)
     THEN [pieces |-> IF node.hidden /\ ~review THEN acc.pieces
                      ELSE Append(acc.pieces, Piece(p, n, page, Marks(p, n, acc.cursor, anns), <<>>)),
           cursor |-> acc.cursor + Len(node.text)]
     ELSE [acc EXCEPT !.pieces = IF node.asset THEN Append(@, Piece(p, n, page, <<>>, <<>>)) ELSE @]

NoPieces == [pieces |-> <<>>, cursor |-> 0]

\* _render_cell, for a cell of plain paragraphs.
CellHtml(cell, page, anns, review) ==
  Joined([i \in DOMAIN cell.paras |->
    FoldLeft(LAMBDA acc, n : Inline(acc, cell.paras[i], n, page, anns, review), NoPieces,
             [n \in NodesOf(cell.paras[i]) |-> n]).pieces])

\* _render_paragraph_like, of a fragment.
FragmentHtml(f, page, anns, review) ==
  LET tds(rows) == SelectSeq(Joined(rows), LAMBDA td : td.cell # 0)
      step(acc, n) ==
        IF Node(f.para, n).k # "table" THEN Inline(acc, f.para, n, page, anns, review)
        ELSE LET rows == TableHtml(Node(f.para, n))
                 shown == tds(rows)
             IN [acc EXCEPT !.pieces = @ \o <<Piece(f.para, n, page, <<>>, rows)>> \o
                   Joined([i \in DOMAIN shown |->
                     CellHtml(Node(f.para, n).cells[shown[i].cell], page, anns, review)])]
  IN FoldLeft(step, NoPieces, f.nodes).pieces

\* _render_paragraph_sequence: neighbours of the same column layout are set in columns together.
ColumnGroups(frags) ==
  LET key(f) == Para(f.para).columns
      step(acc, f) ==
        IF acc # <<>> /\ key(f) > 1 /\ key(Last(Last(acc))) = key(f)
        THEN Front(acc) \o <<Append(Last(acc), f)>> ELSE Append(acc, <<f>>)
  IN FoldLeft(step, <<>>, frags)

\* _render_column_group: the export sets two indexed columns side by side, left before right.
InColumns(group, review) ==
  LET side(k) == SelectSeq(group, LAMBDA f : Para(f.para).column = k)
  IN IF ~review /\ Para(group[1].para).columns = 2 /\ \A i \in DOMAIN group : Para(group[i].para).column \in {0, 1}
     THEN side(0) \o side(1) ELSE group

SequenceHtml(frags, page, anns, review) ==
  LET ordered(groups) == Joined([i \in DOMAIN groups |-> InColumns(groups[i], review)])
      shown(fs) == Joined([i \in DOMAIN fs |-> FragmentHtml(fs[i], page, anns, review)])
  IN shown(ordered(ColumnGroups(frags)))

\* _render_paged_body: the fragments of each listed page, then those on no page.
PagedHtml(anns, review) ==
  LET paged(all, pages) == Joined([i \in DOMAIN pages |->
        SequenceHtml(SelectSeq(all, LAMBDA f : f.page = pages[i]), pages[i], anns, review)])
  IN paged(Joined([i \in DOMAIN doc.body |-> Fragments(doc.body[i])]), Append(doc.pages, None))

Whole(p) == [para |-> p, nodes |-> [n \in NodesOf(p) |-> n], page |-> None]

\* render_html_document and _render_annotated_html: a document without pages is one sequence.
Html(anns, review) ==
  IF doc.pages # <<>> THEN PagedHtml(anns, review)
  ELSE SequenceHtml([i \in DOMAIN doc.body |-> Whole(doc.body[i])], None, anns, review)

-----------------------------------------------------------------------------
\* The client's calls.
Answer(k, ok, asked, pieces) == [k |-> k, ok |-> ok, asked |-> asked, pieces |-> pieces]

WithSpan(ann) == [kind |-> ann.kind, target |-> ann.target, sel |-> ann.sel, occ |-> ann.occ,
                  start |-> Resolved(ann).start, stop |-> Resolved(ann).stop]

\* render_review_html: one annotation that cannot be placed refuses the whole request.
Reviewed(k, anns) ==
  IF \A a \in DOMAIN anns : Resolved(anns[a]).ok
  THEN LET placed == [a \in DOMAIN anns |-> WithSpan(anns[a])]
       IN Answer(k, TRUE, placed, Html(placed, TRUE))
  ELSE Answer(k, FALSE, <<>>, <<>>)

RenderReview(anns) ==
  /\ out' = Reviewed("review", anns)
  /\ UNCHANGED <<doc, readFrom, blocks, truncated, phase, listed>>

ExportHtml ==
  /\ out' = Answer("export", TRUE, <<>>, Html(<<>>, FALSE))
  /\ UNCHANGED <<doc, readFrom, blocks, truncated, phase, listed>>

\* register_paragraph, register_run, ...: a target is located by its page and its box.
LocatedPage(target) ==
  LET p == target[1]
      around == {<<q, n>> \in UNION {{q} \X NodesOf(q) : q \in DOMAIN doc.paras} :
                   \E i \in DOMAIN CellParas(Node(q, n)) : CellParas(Node(q, n))[i] = p}
      outer == IF around = {} THEN None
               ELSE LET a == CHOOSE x \in around : TRUE
                    IN FirstPage(<<Node(a[1], a[2]).page, ParaPage(a[1])>>)
      para == FirstPage(<<ParaPage(p), outer>>)
  IN IF Len(target) = 1 THEN para ELSE FirstPage(<<Node(p, target[2]).page, para>>)
Box(target) == IF Len(target) = 1 THEN Para(target[1]).box
               ELSE IF Len(target) = 2 THEN Node(target[1], target[2]).box
               ELSE Node(target[1], target[2]).cells[target[3]].box

\* _run_locations_for_paragraph: the runs that have a box, with their places in the text.
RunLocations(target) ==
  LET p == target[1]
      start(n) == Len(Joined([i \in 1 .. n - 1 |-> IF IsRun(Node(p, i)) THEN Node(p, i).text ELSE <<>>]))
      own == IF Len(target) = 1 THEN NodesOf(p) ELSE IF Len(target) = 2 THEN {target[2]} ELSE {}
      from(n) == IF Len(target) = 1 THEN start(n) ELSE 0
  IN {[node |-> n, start |-> from(n), stop |-> from(n) + Len(Node(p, n).text)] :
        n \in {x \in own : IsRun(Node(p, x)) /\ Node(p, x).box}}

\* The boxes of the selected runs, in order, reach from the selection's start to its end.
Tiles(runs, start, stop) ==
  LET order == SetToSortSeq(runs, LAMBDA x, y : x.node < y.node)
  IN /\ runs # {} /\ order[1].start = start /\ Last(order).stop = stop
     /\ \A i \in 1 .. Len(order) - 1 : order[i].stop = order[i + 1].start

PdfText(target) ==
  CASE Len(target) = 1 -> ParaText(target[1])
    [] Len(target) = 2 -> Node(target[1], target[2]).text
    [] OTHER -> CellText(Node(target[1], target[2]).cells[target[3]])

\* _resolve_annotation_rects: the runs to highlight, none for a box around the whole target.
PdfRuns(ann) ==
  LET span == Span(PdfText(ann.target), ann)
      inside == {r \in RunLocations(ann.target) : r.start >= span.start /\ r.stop <= span.stop}
  IN CASE ann.sel = <<>> -> [ok |-> TRUE, runs |-> {}]
       [] span.ok /\ Tiles(inside, span.start, span.stop) -> [ok |-> TRUE, runs |-> {r.node : r \in inside}]
       [] OTHER -> [ok |-> FALSE, runs |-> {}]

\* resolve_pdf_annotations_for_doc, for one annotation: its target has a box on one of the pages.
PdfPlaced(ann) ==
  LET on(page, marked) ==
        [ok |-> /\ page # None /\ Box(ann.target)
                /\ doc.pages = <<>> \/ page <= Len(doc.pages)
                /\ marked.ok,
         page |-> page, runs |-> marked.runs]
  IN on(LocatedPage(ann.target), PdfRuns(ann))

\* apply_pdf_annotations: only a PDF is written to, and only when every annotation is placed.
AnnotatePdf(ann) ==
  LET answer(at) ==
        LET ok == doc.pdf /\ at.ok
        IN Answer("pdf", ok, <<ann>>, IF ok THEN <<[page |-> at.page, runs |-> at.runs]>> ELSE <<>>)
  IN /\ out' = answer(PdfPlaced(ann))
     /\ UNCHANGED <<doc, readFrom, blocks, truncated, phase, listed>>

\* _cell_writable
CellWritable(cell) ==
  cell.paras # <<>> /\ \A i \in DOMAIN cell.paras : Para(cell.paras[i]).nodes # <<>> /\ ~Mixed(cell.paras[i])

\* _collect_editable_targets: a cell is listed with its first paragraph, then each paragraph, its runs,
\* tables and images; the list stops at the limit.
Targets(onlyWritable) ==
  LET cellsAt(p) == Joined([i \in DOMAIN doc.body |-> Joined([n \in NodesOf(doc.body[i]) |->
                      LET cells == Node(doc.body[i], n).cells
                          mine == SelectSeq([c \in DOMAIN cells |-> c],
                                    LAMBDA c : cells[c].paras # <<>> /\ cells[c].paras[1] = p
                                               /\ (~onlyWritable \/ CellWritable(cells[c])))
                      IN [c \in DOMAIN mine |-> <<doc.body[i], n, mine[c]>>]])])
      kinds(p) == Joined([k \in 1 .. 3 |->
                    LET these == SelectSeq([n \in NodesOf(p) |-> n],
                                           LAMBDA n : Node(p, n).k = <<"run", "table", "image">>[k])
                    IN [n \in DOMAIN these |-> <<p, these[n]>>]])
      at(p) == cellsAt(p) \o (IF onlyWritable /\ Mixed(p) THEN <<>> ELSE <<<<p>>>>) \o kinds(p)
      all == Joined([i \in DOMAIN AllParas |-> at(AllParas[i])])
  IN SubSeq(all, 1, Min({MaxTargets, Len(all)}))

ListTargets(onlyWritable) ==
  /\ listed' = Targets(onlyWritable)
  /\ out' = Answer("targets", TRUE, <<>>, <<>>)
  /\ UNCHANGED <<doc, readFrom, blocks, truncated, phase>>

\* get_document_context: a run or an image is looked up by its paragraph, a cell by its first
\* paragraph and a table by its first cell's; 0 when there is none.
Anchor(target) ==
  LET first(cell) == IF cell.paras = <<>> THEN 0 ELSE cell.paras[1]
      node == Node(target[1], target[2])
  IN CASE Len(target) = 1 \/ (Len(target) = 2 /\ node.k # "table") -> target[1]
       [] Len(target) = 2 -> IF node.cells = <<>> THEN 0 ELSE first(node.cells[1])
       [] OTHER -> first(node.cells[target[3]])

GetContext(target, before, after) ==
  LET n == IF Anchor(target) = 0 THEN 0 ELSE CHOOSE i \in DOMAIN AllParas : AllParas[i] = Anchor(target)
      from == Max({1, n - before})
      to == Min({Len(AllParas), n + after})
  IN /\ out' = Answer("context", n # 0, target, IF n = 0 THEN <<>> ELSE SubSeq(AllParas, from, to))
     /\ UNCHANGED <<doc, readFrom, blocks, truncated, phase, listed>>

-----------------------------------------------------------------------------
\* The resume import.

\* The text of a paragraph's blocks: its own runs when it holds tables, whose paragraphs follow;
\* control characters are removed.
Cleaned(p) == SelectSeq(IF HasTables(p) THEN RunText(p) ELSE ParaText(p), LAMBDA c : c # Control)
Blanks(text) == \A i \in DOMAIN text : text[i] \in {Blank, Newline}
Count(list) == FoldLeft(LAMBDA a, b : a + Len(b.text), 0, list)

Fits(list, text) == Count(list) + Len(text) <= MaxText /\ Len(list) < MaxKept

\* The paragraph loop of extract: a text is cut into blocks until one does not fit.
ReadParagraph(acc, p) ==
  LET text == Cleaned(p)
      starts == SelectSeq([i \in DOMAIN text |-> i - 1], LAMBDA i : i % MaxBlockText = 0)
      step(a, start) ==
        LET part == SubSeq(text, start + 1, Min({start + MaxBlockText, Len(text)}))
        IN IF a.truncated THEN a
           ELSE IF ~Fits(a.blocks, part) THEN [a EXCEPT !.truncated = TRUE]
           ELSE [a EXCEPT !.blocks = Append(@, [para |-> p, start |-> start, text |-> part])]
  IN IF Blanks(text) THEN acc ELSE FoldLeft(step, acc, starts)

\* A page of read_document and the blocks of its paragraphs.
ReadPage ==
  /\ phase \in {"open", "reading"}
  /\ LET end == Min({Len(AllParas), readFrom + ReadLimit}) IN
     \E done \in {FoldLeft(ReadParagraph, [blocks |-> blocks, truncated |-> FALSE], SubSeq(AllParas, readFrom + 1, end))} :
        /\ blocks' = done.blocks /\ truncated' = done.truncated
        /\ readFrom' = end
        /\ phase' = IF done.truncated \/ end >= Len(AllParas) THEN "read" ELSE "reading"
  /\ UNCHANGED <<doc, listed, out>>

\* The number of the occurrence that stands at start.
Occurrence(text, quote, start) ==
  CHOOSE i \in 0 .. Len(text) : Occurrences(text, quote)[i + 1] = start

\* The annotations of one block: on its paragraph, or on each of its runs when it is mixed.
BlockMarks(b) ==
  LET raw == RunText(b.para)
      stop == b.start + Len(b.text)
      mark(kind, target, text, quote, at) ==
        [kind |-> kind, target |-> target, sel |-> quote, occ |-> Occurrence(text, quote, at)]
      piece(n) ==
        LET before == Len(Joined([i \in 1 .. n - 1 |-> IF IsRun(Node(b.para, i)) THEN Node(b.para, i).text ELSE <<>>]))
            text == Node(b.para, n).text
            left == Max({0, b.start - before})
            right == Min({Len(text), stop - before})
        IN IF ~IsRun(Node(b.para, n)) \/ left >= right THEN <<>>
           ELSE <<mark("run", <<b.para, n>>, text, SubSeq(text, left + 1, right), left)>>
  IN IF SubSeq(raw, b.start + 1, Min({stop, Len(raw)})) # b.text THEN <<>>
     ELSE IF ~Mixed(b.para) THEN <<mark("paragraph", <<b.para>>, raw, b.text, b.start)>>
     ELSE Joined([n \in NodesOf(b.para) |-> piece(n)])

\* source_annotations, up to its limit, each with the block it stands for.
SourceAnnotations ==
  LET of(i, marks) == [j \in DOMAIN marks |-> [block |-> i, ann |-> marks[j]]]
      first(all) == SubSeq(all, 1, Min({MaxMarks, Len(all)}))
  IN first(Joined([i \in DOMAIN blocks |-> of(i, BlockMarks(blocks[i]))]))

\* The end of extract: the preview marks the blocks.
Preview ==
  LET anns(all) == [i \in DOMAIN all |-> all[i].ann]
  IN /\ phase = "read"
     /\ out' = Reviewed("preview", anns(SourceAnnotations))
     /\ UNCHANGED <<doc, readFrom, blocks, truncated, phase, listed>>

-----------------------------------------------------------------------------
AllTargets ==
  LET nodes == UNION {{<<p, n>> : n \in NodesOf(p)} : p \in DOMAIN doc.paras}
  IN {<<p>> : p \in DOMAIN doc.paras} \cup nodes
     \cup UNION {{t \o <<c>> : c \in DOMAIN Node(t[1], t[2]).cells} : t \in nodes}

Requests ==
  [kind : {"paragraph", "run"}, target : AllTargets, sel : Selections \cup {<<>>}, occ : {None, 0, 1}]

RenderInit ==
  /\ doc \in Documents
  /\ readFrom = 0 /\ blocks = <<>> /\ truncated = FALSE /\ phase = "open" /\ listed = <<>>
  /\ out = Answer("none", FALSE, <<>>, <<>>)

RenderNext ==
  \/ /\ out.k = "none"
     /\ \/ \E anns \in {<<a>> : a \in Requests}
                        \cup {<<a, [kind |-> "paragraph", target |-> t, sel |-> <<>>, occ |-> None]>> :
                                a \in {r \in Requests : Resolved(r).ok}, t \in AllTargets} : RenderReview(anns)
        \/ \E a \in Requests : AnnotatePdf(a)
        \/ ExportHtml
        \/ \E w \in BOOLEAN : ListTargets(w)
  \/ \E i \in DOMAIN listed : out.k = "targets" /\ \E before, after \in 0 .. 1 : GetContext(listed[i], before, after)
  \/ out.k = "none" /\ ReadPage
  \/ out.k = "none" /\ Preview

RenderSpec == RenderInit /\ [][RenderNext]_renderVars

-----------------------------------------------------------------------------
Shown == out.k \in {"review", "export", "preview"} /\ out.ok

\* The nodes a rendering shows.
Visible(p, n) ==
  \/ IsRun(Node(p, n)) /\ (out.k # "export" \/ ~Node(p, n).hidden)
  \/ Node(p, n).k = "table"
  \/ Node(p, n).k = "image" /\ Node(p, n).asset
PlacedIn(p, n) == {i \in DOMAIN out.pieces : out.pieces[i].para = p /\ out.pieces[i].node = n}

\* EveryNodeOnce: however a document is cut into pages and columns, each visible run, image and
\* table is shown exactly once, on its own page, and the nodes of a paragraph in their order.
EveryNodeOnce ==
  Shown =>
    /\ \A p \in DOMAIN doc.paras : \A n \in NodesOf(p) :
         /\ Cardinality(PlacedIn(p, n)) = (IF Visible(p, n) THEN 1 ELSE 0)
         /\ \A i \in PlacedIn(p, n) :
              doc.pages # <<>> /\ Node(p, n).page # None /\ (\E b \in DOMAIN doc.body : doc.body[b] = p) =>
                out.pieces[i].page = Node(p, n).page
    /\ \A i, j \in DOMAIN out.pieces :
         i < j /\ out.pieces[i].para = out.pieces[j].para => out.pieces[i].node < out.pieces[j].node

\* Where a browser puts the cells of a table: each goes to the first free column of its row.
BrowserLayout(rows) ==
  LET put(acc, td, r) ==
        LET c == Min({x \in 1 .. 20 : <<r, x>> \notin acc.taken})
        IN [taken |-> acc.taken \cup ((r .. r + td.rs - 1) \X (c .. c + td.cs - 1)),
            at |-> acc.at \cup {<<td.cell, r, c>>}]
      row(acc, r) == FoldLeft(LAMBDA a, td : put(a, td, r), acc, rows[r])
  IN FoldLeft(row, [taken |-> {}, at |-> {}], [r \in DOMAIN rows |-> r]).at

\* CellsInPlace: a browser shows every cell of a table, merged ones too, at its own row and column.
CellsInPlace ==
  Shown =>
    \A i \in DOMAIN out.pieces : out.pieces[i].rows # <<>> =>
      LET cells == Node(out.pieces[i].para, out.pieces[i].node).cells
          at == BrowserLayout(out.pieces[i].rows)
      IN \A c \in DOMAIN cells : {x \in at : x[1] = c} = {<<c, cells[c].row, cells[c].col>>}

\* The characters of the document, as <<paragraph, node, character>>, that a range of a
\* paragraph's runs covers.
CharsOf(p) ==
  Joined([n \in NodesOf(p) |-> IF IsRun(Node(p, n)) THEN [c \in DOMAIN Node(p, n).text |-> <<p, n, c>>] ELSE <<>>])
CharRange(p, start, stop) == {CharsOf(p)[i] : i \in (start + 1) .. stop}
\* The characters an annotation means: the only place its selection stands at, or the numbered one.
Wanted(ann) ==
  LET p == ann.target[1]
      chars == SelectSeq(CharsOf(p), LAMBDA c : Len(ann.target) = 1 \/ c[2] = ann.target[2])
      letter(i) == Node(p, chars[i][2]).text[chars[i][3]]
      stands(i) == i + Len(ann.sel) <= Len(chars) /\ \A j \in DOMAIN ann.sel : letter(i + j) = ann.sel[j]
      places == {i \in 0 .. Len(chars) : stands(i)}
      meant == {i \in places : IF ann.occ = None THEN places = {i}
                               ELSE Cardinality({j \in places : j < i}) = ann.occ}
  IN IF ann.sel = <<>> THEN {chars[i] : i \in DOMAIN chars}
     ELSE {chars[i + j] : i \in meant, j \in DOMAIN ann.sel}
Marked(a) ==
  UNION {{<<out.pieces[i].para, out.pieces[i].node, c>> :
            c \in {x \in DOMAIN out.pieces[i].marks : a \in out.pieces[i].marks[x]}} : i \in DOMAIN out.pieces}
\* The characters whose marks are claimed: all those of a run that is marked by itself, but of
\* a paragraph that breaks over pages only those before its first break.  _render_paragraph_like
\* counts each part after a break from 0 again, so a mark of the paragraph is shown there on the
\* characters that stand as far from the break as its own do from the beginning.
AllChars(p) == {CharsOf(p)[i] : i \in DOMAIN CharsOf(p)}
Breaks(p) == doc.pages # <<>> /\ \E b \in DOMAIN doc.body : doc.body[b] = p
BeforeBreak(p) ==
  IF Breaks(p) THEN {c \in AllChars(p) : Contains(Fragments(p)[1].nodes, c[2])} ELSE AllChars(p)

\* SelectionMarked: the characters that carry an annotation in the review are the ones it selects,
\* whatever runs, tables and other annotations its paragraph has; for a selection of a paragraph,
\* up to its first page break.
SelectionMarked ==
  out.k = "review" /\ out.ok =>
    \A a \in DOMAIN out.asked :
      LET ann == out.asked[a]
          p == ann.target[1]
          told == IF Len(ann.target) = 1 THEN BeforeBreak(p) ELSE AllChars(p)
      IN Marked(a) \subseteq AllChars(p) /\ Marked(a) \cap told = Wanted(ann) \cap told

\* The annotations of a block, the characters it stands for, and whether it stands where it says.
MarksOf(b) == {i \in DOMAIN SourceAnnotations : SourceAnnotations[i].block = b}
BlockChars(b) == CharRange(blocks[b].para, blocks[b].start, blocks[b].start + Len(blocks[b].text))
AllMarked(b) == MarksOf(b) # {} /\ Len(SourceAnnotations) < MaxMarks

\* BlocksIdentified: in the preview of an import, the marks of a block cover its own characters and
\* no others; what was cut or cleaned before it does not shift them.  In a paragraph without tables
\* or images, up to its first page break; a mixed one is marked run by run, and wholly.
BlocksIdentified ==
  out.k = "preview" /\ out.ok =>
    \A b \in DOMAIN blocks :
      LET p == blocks[b].para
          told == IF Mixed(p) THEN AllChars(p) ELSE BeforeBreak(p)
          marked == UNION {Marked(a) : a \in MarksOf(b)}
      IN AllMarked(b) => marked \subseteq AllChars(p) /\ marked \cap told = BlockChars(b) \cap told

\* BlocksAreTheText: the blocks of an import are the document's text, each paragraph's once and in
\* order; what does not fit is announced and is only ever the end.
BlocksAreTheText ==
  phase = "read" =>
    LET texts == [i \in DOMAIN AllParas |-> IF Blanks(Cleaned(AllParas[i])) THEN <<>> ELSE Cleaned(AllParas[i])]
        all == Joined(texts)
        kept == Joined([i \in DOMAIN blocks |-> blocks[i].text])
    IN /\ IsPrefix(kept, all) /\ Len(kept) <= MaxText
       /\ truncated <=> kept # all

\* PdfHighlightsSelection: a highlight written into a PDF covers exactly the runs that spell the selection,
\* all of them on the page it is written to.
PdfHighlightsSelection ==
  out.k = "pdf" /\ out.ok /\ out.asked[1].sel # <<>> =>
    LET p == out.asked[1].target[1]
        runs == SetToSortSeq(out.pieces[1].runs, <)
    IN /\ Joined([i \in DOMAIN runs |-> Node(p, runs[i]).text]) = out.asked[1].sel
       /\ \A i \in DOMAIN runs : Node(p, runs[i]).page \in {None, out.pieces[1].page}

\* TargetsHaveContext: every target a client is told it may edit can be looked up again, and its
\* surroundings include the paragraph its text is in.
TargetsHaveContext ==
  out.k = "context" =>
    LET t == out.asked
        home == IF Len(t) = 3 THEN {Node(t[1], t[2]).cells[t[3]].paras[i] : i \in DOMAIN Node(t[1], t[2]).cells[t[3]].paras}
                ELSE IF Len(t) = 2 /\ Node(t[1], t[2]).k = "table"
                THEN {CellParas(Node(t[1], t[2]))[i] : i \in DOMAIN CellParas(Node(t[1], t[2]))}
                ELSE {t[1]}
    IN out.ok /\ \E i \in DOMAIN out.pieces : out.pieces[i] \in home
=============================================================================
