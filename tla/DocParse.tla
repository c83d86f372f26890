------------------------------ MODULE DocParse ------------------------------
(***************************************************************************)
(* Reading a DOCX or HWPX file into the intermediate document              *)
(* (document_processor/core/document_ir_parser.py): which nodes a          *)
(* paragraph gets, the page each node is put on, the pages the document    *)
(* lists, and the images it stores.  One step reads one block of the file. *)
(*                                                                         *)
(* A text is a sequence of characters.  A DOCX paragraph is a sequence of  *)
(* children, "r" for a run of its own and "link" for the runs inside a     *)
(* hyperlink; an HWPX run is a sequence of "t", "pic" and "tbl" elements,  *)
(* and its paragraph carries the line segments the word processor laid     *)
(* out.  Absent numbers are None.                                          *)
(***************************************************************************)
EXTENDS Integers, Sequences, SequencesExt, FiniteSetsExt

CONSTANTS
  DocxBlocks,      \* the paragraphs and tables a DOCX body may hold
  HwpxBlocks,      \* the paragraphs an HWPX section may hold
  SectionColumns,  \* the columns of each section's layout, in order
  ControlWidth,    \* _HWPX_CONTROL_TEXTPOS_WIDTH: positions a control takes
  MaxBlocks        \* bound: blocks in a file

VARIABLES
  format,     \* "docx" or "hwpx"
  skipEmpty,  \* the skip_empty argument
  source,     \* the blocks read so far, each with its section
  page,       \* current_page_number, or section_page_number in HWPX
  pageOffset, \* page_offset
  section,    \* the section being read
  seen,       \* has_seen_content / saw_paragraph
  lastVert,   \* last_vertpos
  columns,    \* current_column_style
  pages,      \* the pages listed, with the section whose layout each took
  paras,      \* the paragraphs of the intermediate document
  assets      \* the stored images, as <<data, mime type>>

parseVars == <<format, skipEmpty, source, page, pageOffset, section, seen, lastVert,
               columns, pages, paras, assets>>

None == -1
NoImage == <<>>  \* a picture whose data is not in the file
Sum(s) == FoldLeft(LAMBDA a, b : a + b, 0, s)
Joined(texts) == FlattenSeq(texts)

-----------------------------------------------------------------------------
\* Nodes of the intermediate document.
Run(text, at) == [k |-> "run", text |-> text, page |-> at, asset |-> None, cells |-> <<>>]
Image(asset, at) == [k |-> "image", text |-> <<>>, page |-> at, asset |-> asset, cells |-> <<>>]
Table(cells, at) == [k |-> "table", text |-> <<>>, page |-> at, asset |-> None, cells |-> cells]

\* set_paragraph_page_number without override: a node keeps the page it has.
WithPage(content, p) ==
  [i \in DOMAIN content |-> IF content[i].page = None THEN [content[i] EXCEPT !.page = p] ELSE content[i]]

\* _ensure_page_info: a page is listed once, with the layout of its first block.
EnsurePage(listed, p, layout) ==
  IF \E x \in listed : x.page = p THEN listed ELSE listed \cup {[page |-> p, layout |-> layout]}

\* _register_image_asset: the same data under the same type is stored once.
Register(store, image) ==
  LET same == {i \in DOMAIN store : store[i] = image}
  IN IF same # {} THEN [store |-> store, id |-> Min(same)]
     ELSE [store |-> Append(store, image), id |-> Len(store) + 1]

-----------------------------------------------------------------------------
\* DOCX.

\* _parse_docx_run_images: the run's embedded pictures whose part is in the file.
RunImages(acc, run) ==
  FoldLeft(LAMBDA a, image :
             IF image = NoImage THEN a
             ELSE LET r == Register(a.store, image)
                  IN [store |-> r.store, content |-> Append(a.content, Image(r.id, None))],
           acc, run.images)

\* _parse_docx_paragraph_content: paragraph.runs leaves the hyperlinks out,
\* paragraph.text does not.
DocxContent(b, store) ==
  LET runs == SelectSeq(b.children, LAMBDA c : c.k = "r")
      whole == Joined([i \in DOMAIN b.children |-> b.children[i].text])
      step(a, run) ==
        LET kept == run.text # <<>> \/ (~skipEmpty /\ \A i \in DOMAIN run.images : run.images[i] = NoImage)
        IN RunImages([a EXCEPT !.content = IF kept THEN Append(@, Run(run.text, None)) ELSE @], run)
  IN IF runs = <<>>
     THEN [store |-> store,
           content |-> IF whole # <<>> \/ ~skipEmpty THEN <<Run(whole, None)>> ELSE <<>>]
     ELSE FoldLeft(step, [store |-> store, content |-> <<>>], runs)

\* The cell's blocks of _parse_docx_table: a nested table joins the last paragraph read,
\* or a new one when the cell has none yet.  held says whether that paragraph is in the cell.
CellParagraphs(body) ==
  LET step(a, block) ==
        CASE block.k = "p" ->
               LET kept == block.text # <<>> \/ ~skipEmpty
               IN [held |-> kept, any |-> TRUE,
                   list |-> IF kept THEN Append(a.list, [text |-> block.text, tables |-> 0]) ELSE a.list]
          [] block.k = "t" /\ ~a.any ->
               [held |-> TRUE, any |-> TRUE, list |-> Append(a.list, [text |-> <<>>, tables |-> 1])]
          [] OTHER -> IF a.held THEN [a EXCEPT !.list[Len(a.list)].tables = @ + 1] ELSE a
  IN FoldLeft(step, [held |-> FALSE, any |-> FALSE, list |-> <<>>], body).list

\* _parse_docx_table: a cell stands at the grid column its row has reached.
DocxTable(rows) ==
  LET col(r, i) == 1 + Sum([j \in 1 .. i - 1 |-> rows[r][j].span])
  IN FlattenSeq([r \in DOMAIN rows |->
       [i \in DOMAIN rows[r] |-> [row |-> r, col |-> col(r, i), paras |-> CellParagraphs(rows[r][i].body)]]])

DocxBreaks(b) == Sum([i \in DOMAIN b.children |-> b.children[i].breaks])

\* An empty paragraph is kept unless the caller skips them.
Kept(content) == content # <<>> \/ ~skipEmpty

LayoutOf(s) == IF s < Len(SectionColumns) THEN s ELSE Len(SectionColumns)

\* The paragraph branch of _build_docx_doc_ir.
DocxParagraph(b) ==
  LET start == IF seen /\ b.before THEN page + 1 ELSE page
      parsed == DocxContent(b, assets)
  IN /\ b.k = "p"
     /\ pages' = EnsurePage(pages, start, LayoutOf(section))
     /\ assets' = parsed.store
     /\ paras' = IF Kept(parsed.content)
                 THEN Append(paras, [columns |-> SectionColumns[LayoutOf(section)], from |-> Len(source) + 1,
                                     content |-> WithPage(parsed.content, start)])
                 ELSE paras
     /\ seen' = TRUE
     /\ page' = start + DocxBreaks(b) + (IF b.sect \notin {"none", "continuous"} THEN 1 ELSE 0)
     /\ section' = IF b.sect # "none" /\ section < Len(SectionColumns) THEN section + 1 ELSE section
     /\ UNCHANGED <<pageOffset, lastVert, columns>>

\* Its table branch.
DocxBodyTable(b) ==
  /\ b.k = "t"
  /\ pages' = EnsurePage(pages, page, LayoutOf(section))
  /\ paras' = Append(paras, [columns |-> SectionColumns[LayoutOf(section)], from |-> Len(source) + 1,
                             content |-> <<Table(DocxTable(b.rows), page)>>])
  /\ seen' = TRUE
  /\ UNCHANGED <<page, section, assets, pageOffset, lastVert, columns>>

-----------------------------------------------------------------------------
\* HWPX.

\* A line starts a page when it stands higher than the last one and not further right.
StartsPage(last, line) ==
  /\ last.vert # None /\ line.vert # None /\ line.vert < last.vert
  /\ last.horz = None \/ line.horz = None \/ line.horz <= last.horz

\* _hwpx_paragraph_layout_segments
LayoutSegments(b, start) ==
  LET step(a, line) ==
        LET p == IF a.segments # <<>> /\ StartsPage(a, line) THEN a.page + 1 ELSE a.page
        IN [segments |-> Append(a.segments, [pos |-> Max({line.pos, 0}), vert |-> line.vert, page |-> p]),
            page |-> p,
            vert |-> IF line.vert # None THEN line.vert ELSE a.vert,
            horz |-> IF line.horz # None THEN line.horz ELSE a.horz]
      walk == FoldLeft(step, [segments |-> <<>>, page |-> start, vert |-> None, horz |-> None], b.lines)
  IN IF b.lines = <<>> THEN <<[pos |-> 0, vert |-> None, page |-> start]>> ELSE walk.segments

\* _hwpx_layout_page_for_textpos: the page of the last line that starts at or before pos.
PageForTextpos(segments, pos) ==
  LET before == {i \in DOMAIN segments : \A j \in 1 .. i : segments[j].pos <= pos}
  IN IF before = {} THEN segments[1].page ELSE segments[Max(before)].page

\* flush_pending_text: the texts read since the last control become one run.
Flush(a, segments) ==
  IF ~a.some THEN a
  ELSE LET empty == a.text = <<>> /\ (skipEmpty \/ a.control)
       IN [a EXCEPT !.text = <<>>, !.some = FALSE,
                    !.content = IF empty THEN @ ELSE Append(@, Run(a.text, PageForTextpos(segments, a.start))),
                    !.emitted = @ \/ ~empty]

\* _parse_hwpx_picture_image: a picture without stored data leaves no node.
Picture(a, child, segments) ==
  IF child.image = NoImage THEN a
  ELSE LET r == Register(a.store, child.image)
       IN [a EXCEPT !.store = r.store, !.emitted = TRUE,
                    !.content = Append(@, Image(r.id, PageForTextpos(segments, a.pos)))]

\* _parse_hwpx_table, for cells of plain text: an empty cell gets an empty paragraph.
HwpxTable(rows) ==
  LET cells(r) == [i \in DOMAIN rows[r] |->
        [row |-> r, col |-> rows[r][i].addr,
         paras |-> LET kept == SelectSeq(rows[r][i].paras, LAMBDA t : t # <<>> \/ ~skipEmpty)
                   IN IF rows[r][i].paras = <<>> /\ ~skipEmpty THEN <<[text |-> <<>>, tables |-> 0]>>
                      ELSE [j \in DOMAIN kept |-> [text |-> kept[j], tables |-> 0]]]]
  IN FlattenSeq([r \in DOMAIN rows |-> cells(r)])

HwpxChild(a, child, segments) ==
  IF child.k = "t"
  THEN [a EXCEPT !.start = IF a.some THEN @ ELSE a.pos, !.some = TRUE,
                 !.text = @ \o child.text, !.pos = @ + Len(child.text)]
  ELSE LET f == [Flush(a, segments) EXCEPT !.control = TRUE]
           after == IF child.k = "pic" THEN Picture(f, child, segments)
                    ELSE [f EXCEPT !.emitted = TRUE,
                          !.content = Append(@, Table(HwpxTable(child.rows), PageForTextpos(segments, f.pos)))]
       IN [after EXCEPT !.pos = @ + ControlWidth]

HwpxRun(acc, run, segments) ==
  LET open == [acc EXCEPT !.some = FALSE, !.text = <<>>, !.emitted = FALSE, !.control = FALSE]
      done == Flush(FoldLeft(LAMBDA a, child : HwpxChild(a, child, segments), open, run), segments)
  IN IF done.emitted \/ skipEmpty THEN done
     ELSE [done EXCEPT !.content = Append(@, Run(<<>>, PageForTextpos(segments, done.pos)))]

\* _parse_hwpx_paragraph_content
HwpxContent(b, store, segments) ==
  LET start == [store |-> store, content |-> <<>>, text |-> <<>>, some |-> FALSE, start |-> 0, pos |-> 0,
                emitted |-> FALSE, control |-> FALSE]
  IN IF b.runs = <<>>
     THEN [store |-> store, content |-> IF skipEmpty THEN <<>> ELSE <<Run(<<>>, segments[1].page)>>]
     ELSE FoldLeft(LAMBDA a, run : HwpxRun(a, run, segments), start, b.runs)

FirstVert(b) == IF b.lines = <<>> THEN None ELSE b.lines[1].vert

\* _hwpx_layout_last_vertpos
LastVert(segments, height) ==
  LET known == SelectSeq(segments, LAMBDA s : s.vert # None)
  IN IF known # <<>> THEN Last(known).vert ELSE height

\* The height the paragraph's first line is compared with: an explicit break forgets it,
\* so that the drop that comes with the break is not counted again.
HeightBefore(b) == IF seen /\ b.before THEN None ELSE lastVert

\* The page a paragraph starts on, in its section.
PageBefore(b) ==
  LET broken == IF seen /\ b.before THEN page + 1 ELSE page
      vert == FirstVert(b)
  IN IF seen /\ HeightBefore(b) # None /\ vert # None /\ vert < HeightBefore(b) THEN broken + 1 ELSE broken

\* Every page a paragraph's lines stand on is listed.
Listed(listed, segments) ==
  FoldLeft(LAMBDA l, s : EnsurePage(l, s.page, section), listed, segments)

\* The paragraph loop of _build_hwpx_doc_ir.
HwpxParagraph(b) ==
  LET start == PageBefore(b)
      segments == LayoutSegments(b, pageOffset + start)
      parsed == HwpxContent(b, assets, segments)
      style == IF b.columns # None THEN b.columns ELSE columns
  IN /\ columns' = style
     /\ pages' = Listed(pages, segments)
     /\ assets' = parsed.store
     /\ paras' = IF Kept(parsed.content)
                 THEN Append(paras, [columns |-> style, from |-> Len(source) + 1,
                                     content |-> WithPage(parsed.content, pageOffset + start)])
                 ELSE paras
     /\ page' = Max({start} \cup {segments[i].page - pageOffset : i \in DOMAIN segments})
     /\ lastVert' = LastVert(segments, HeightBefore(b))
     /\ seen' = TRUE
     /\ UNCHANGED <<pageOffset, section>>

\* Its section loop: the next section starts on a page of its own.
HwpxSection ==
  /\ format = "hwpx" /\ seen /\ section < Len(SectionColumns)
  /\ section' = section + 1
  /\ pageOffset' = pageOffset + page
  /\ page' = 1 /\ lastVert' = None /\ seen' = FALSE
  /\ columns' = SectionColumns[section + 1]
  /\ UNCHANGED <<format, skipEmpty, source, pages, paras, assets>>

-----------------------------------------------------------------------------
ParseInit ==
  /\ format \in {"docx", "hwpx"} /\ skipEmpty \in BOOLEAN
  /\ source = <<>> /\ page = 1 /\ pageOffset = 0 /\ section = 1 /\ seen = FALSE
  /\ lastVert = None /\ columns = SectionColumns[1]
  /\ pages = {} /\ paras = <<>> /\ assets = <<>>

\* build_doc_ir_from_file: a DOC file is read as the DOCX it converts to, an HWP file as HWPX.
ReadBlock(b) ==
  /\ source' = Append(source, [block |-> b, section |-> section])
  /\ \/ format = "docx" /\ (DocxParagraph(b) \/ DocxBodyTable(b))
     \/ format = "hwpx" /\ HwpxParagraph(b)
  /\ UNCHANGED <<format, skipEmpty>>

ParseNext ==
  \/ Len(source) < MaxBlocks /\ \E b \in IF format = "docx" THEN DocxBlocks ELSE HwpxBlocks : ReadBlock(b)
  \/ Len(source) < MaxBlocks /\ HwpxSection

ParseSpec == ParseInit /\ [][ParseNext]_parseVars

-----------------------------------------------------------------------------
ParaOf(i) == {n \in DOMAIN paras : paras[n].from = i}

\* What a block shows a reader: its text, its pictures and its tables.
CellText(cell) == Joined([i \in DOMAIN cell.body |-> IF cell.body[i].k = "p" THEN cell.body[i].text ELSE <<>>])
NestedIn(cell) == Cardinality({i \in DOMAIN cell.body : cell.body[i].k = "t"})
Present(images) == SelectSeq(images, LAMBDA im : im # NoImage)
Shows(b) ==
  CASE b.k = "t" -> LET cells == FlattenSeq(b.rows)
                    IN [text |-> Joined([i \in DOMAIN cells |-> CellText(cells[i])]), images |-> <<>>,
                        tables |-> 1 + Sum([i \in DOMAIN cells |-> NestedIn(cells[i])])]
    [] b.k = "p" -> [text |-> Joined([i \in DOMAIN b.children |-> b.children[i].text]),
                     images |-> Present(Joined([i \in DOMAIN b.children |-> b.children[i].images])), tables |-> 0]
    [] OTHER -> LET all == FlattenSeq(b.runs)
                    texts(rows) == Joined([r \in DOMAIN rows |-> Joined([i \in DOMAIN rows[r] |-> Joined(rows[r][i].paras)])])
                IN [text |-> Joined([i \in DOMAIN all |->
                                CASE all[i].k = "t" -> all[i].text [] all[i].k = "tbl" -> texts(all[i].rows)
                                  [] OTHER -> <<>>]),
                    images |-> Present([i \in DOMAIN all |-> IF all[i].k = "pic" THEN all[i].image ELSE NoImage]),
                    tables |-> Cardinality({i \in DOMAIN all : all[i].k = "tbl"})]

\* What its paragraphs of the intermediate document hold.
NodeText(node) ==
  IF node.k # "table" THEN node.text
  ELSE Joined([c \in DOMAIN node.cells |->
         Joined([p \in DOMAIN node.cells[c].paras |-> node.cells[c].paras[p].text])])
NodeTables(node) ==
  IF node.k # "table" THEN 0
  ELSE 1 + Sum([c \in DOMAIN node.cells |->
             Sum([p \in DOMAIN node.cells[c].paras |-> node.cells[c].paras[p].tables])])
Holds(content) ==
  [text |-> Joined([n \in DOMAIN content |-> NodeText(content[n])]),
   images |-> LET pics == SelectSeq(content, LAMBDA n : n.k = "image")
              IN [n \in DOMAIN pics |-> assets[pics[n].asset]],
   tables |-> Sum([n \in DOMAIN content |-> NodeTables(content[n])])]

\* Two ways a file's text is left out by design of the readers: a hyperlink beside runs,
\* and, when empty paragraphs are skipped, a table nested after one.
LinkBesideRuns(b) == b.k = "p" /\ {b.children[i].k : i \in DOMAIN b.children} = {"r", "link"}
NestedAfterEmpty(b) ==
  /\ skipEmpty /\ b.k = "t"
  /\ \E r \in DOMAIN b.rows : \E i \in DOMAIN b.rows[r] : \E n \in 1 .. Len(b.rows[r][i].body) - 1 :
       b.rows[r][i].body[n] = [k |-> "p", text |-> <<>>] /\ b.rows[r][i].body[n + 1].k = "t"

\* ContentKept: whatever is skipped, merged or stored once while a file is read, every block's
\* text, pictures and tables reach the document, in their order, and an image node still
\* names its own picture.
ContentKept ==
  \A i \in DOMAIN source :
    LET b == source[i].block
        nothing == [text |-> <<>>, images |-> <<>>, tables |-> 0]
    IN LinkBesideRuns(b) \/ NestedAfterEmpty(b)
       \/ (IF ParaOf(i) = {} THEN nothing ELSE Holds(paras[CHOOSE n \in ParaOf(i) : TRUE].content)) = Shows(b)

\* PagesListed: every page some node is put on is in the document's page list, and pages never
\* go backwards along the text; the renderers show the nodes of listed pages only.
PagesListed ==
  LET numbers == Joined([n \in DOMAIN paras |-> [i \in DOMAIN paras[n].content |-> paras[n].content[i].page]])
  IN /\ \A i \in DOMAIN numbers : \E p \in pages : p.page = numbers[i]
     /\ \A i \in 1 .. Len(numbers) - 1 : numbers[i] <= numbers[i + 1]

\* The lines of the file, laid out in one column with every height known, read as one sequence:
\* a line opens a page when its section or an explicit break does, or when it stands higher
\* than the line before it.
OneColumn ==
  \A i \in DOMAIN source : LET b == source[i].block IN
    /\ b.lines # <<>> /\ \A l \in DOMAIN b.lines : b.lines[l].vert # None /\ b.lines[l].horz = 0
    /\ \A r \in DOMAIN b.runs : \A c \in DOMAIN b.runs[r] : b.runs[r][c].k = "pic" => b.runs[r][c].image # NoImage
Lines ==
  FlattenSeq([i \in DOMAIN source |->
    [l \in DOMAIN source[i].block.lines |->
       [from |-> i, pos |-> source[i].block.lines[l].pos, vert |-> source[i].block.lines[l].vert,
        section |-> source[i].section, breaks |-> l = 1 /\ source[i].block.before]]])
Opens(k) ==
  k > 1 /\ (Lines[k].section # Lines[k - 1].section \/ Lines[k].breaks \/ Lines[k].vert < Lines[k - 1].vert)
LinePage(k) == 1 + Cardinality({j \in 1 .. k : Opens(j)})
Width(node) == IF node.k = "run" THEN Len(node.text) ELSE ControlWidth
StartOf(content, n) == Sum([j \in 1 .. n - 1 |-> Width(content[j])])

\* PagesFollowLines: in an HWPX file of one column, each node is on the page of the line its
\* first character stands on.
PagesFollowLines ==
  format = "hwpx" /\ OneColumn =>
    \A p \in DOMAIN paras : \A n \in DOMAIN paras[p].content :
      LET own == {k \in DOMAIN Lines : Lines[k].from = paras[p].from
                                       /\ Lines[k].pos <= StartOf(paras[p].content, n)}
      IN paras[p].content[n].page = LinePage(Max(own))
=============================================================================
