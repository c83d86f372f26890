----------------------------- MODULE DocStyles -----------------------------
(***************************************************************************)
(* Style edits of document_processor/edit_engine.py: one StyleEdit is      *)
(* applied to the document IR (the preview) and to the native file.  A     *)
(* DOCX keeps styles on the nodes and a grid of column widths; an HWPX     *)
(* keeps character, paragraph and border styles in header tables that      *)
(* nodes share by reference, so an edit clones the entry it changes.       *)
(*                                                                         *)
(* The document has runs, paragraphs, one table and one image.  A value is *)
(* a small number, 0 when the property is absent; lengths are in one unit. *)
(***************************************************************************)
EXTENDS Integers, Sequences, FiniteSets, FiniteSetsExt, SequencesExt

CONSTANTS
  Runs, Paras, Image, Table, \* node ids
  Layouts,     \* tables: functions from cell ids to [row, col, rs, cs]
  InCell,      \* the paragraphs of each cell: function from cells to sets
  SharedRefs,  \* initial header references: function from nodes to ids
  Values,      \* the values an edit may set
  Together,    \* the sets of several fields that one edit may set
  MaxStyleEdits

Absent == 0
Clear == -1 \* the field is listed in clear_fields

VARIABLES
  format,   \* "docx" or "hwpx"
  cells,    \* the table's layout
  ir,       \* IR styles: node -> field -> value
  native,   \* values kept on the native nodes: node -> field -> value
  grid,     \* DOCX: column widths
  tableW,   \* DOCX tblW, HWPX sz width
  head,     \* HWPX header tables: kind -> id -> field -> value
  ref,      \* HWPX references: node -> id
  textW,    \* HWPX subList textWidth of each cell
  drawing,  \* DOCX: the children of the image's drawing element
  reported, \* modified_target_ids of the last edit
  edits     \* edits applied so far

vars == <<format, cells, ir, native, grid, tableW, head, ref, textW, drawing, reported, edits>>

Fields == [run |-> {"bold", "script"}, para |-> {"align", "indent"},
           cell |-> {"width", "height", "padding", "fill", "valign", "halign"},
           table |-> {"mode", "offset"}, image |-> {"width", "mode", "offset"}]

KindOf(n) == CASE n \in Runs -> "run" [] n \in Paras -> "para"
               [] n \in DOMAIN cells -> "cell" [] n = Table -> "table" [] n = Image -> "image"

Nodes == Runs \union Paras \union DOMAIN cells \union {Table, Image}

\* A StyleEdit: a target and some fields, each given a value or cleared.
StyleEdits ==
  UNION {{[target |-> n, set |-> s] :
            s \in UNION {[F -> Values \union {Clear}] :
                           F \in {{f} : f \in Fields[KindOf(n)]}
                                  \union {G \in Together : G \subseteq Fields[KindOf(n)]}}}
         : n \in Nodes}

Put(style, set, F) ==
  [f \in DOMAIN style |->
     IF f \notin DOMAIN set \cap F THEN style[f]
     ELSE IF set[f] = Clear THEN Absent ELSE set[f]]

-----------------------------------------------------------------------------
(* The IR *)

CoversColumn(c, col) == cells[c].col <= col /\ col < cells[c].col + cells[c].cs
CoversRow(c, row) == cells[c].row <= row /\ row < cells[c].row + cells[c].rs

\* The cells that a size edit of one cell resizes with it.
Resized(e, f) ==
  IF KindOf(e.target) # "cell" \/ f \notin DOMAIN e.set THEN {}
  ELSE {c \in DOMAIN cells :
          IF f = "width" THEN CoversColumn(c, cells[e.target].col)
          ELSE CoversRow(c, cells[e.target].row)}

Direct(n) == Fields[KindOf(n)] \ (IF KindOf(n) = "cell" THEN {"width", "height"} ELSE {})

StyleIR(e) ==
  [n \in Nodes |->
     Put(ir[n], e.set,
         UNION {IF n = e.target THEN Direct(n) ELSE {},
                IF n \in Resized(e, "width") THEN {"width"} ELSE {},
                IF n \in Resized(e, "height") THEN {"height"} ELSE {}})]

ModifiedIds(e) == {e.target} \union Resized(e, "width") \union Resized(e, "height")

-----------------------------------------------------------------------------
(* DOCX *)

ColumnsOf(c) == cells[c].col..(cells[c].col + cells[c].cs - 1)
SpanWidth(g, c) == FoldSet(LAMBDA i, acc : acc + g[i], 0, ColumnsOf(c) \cap DOMAIN g)

\* _docx_apply_column_width_to_cells: the cells whose width is the new sum.
DocxCellWidth(e, g) ==
  {c \in DOMAIN cells : CoversColumn(c, cells[e.target].col)}

SetsWidth(e) ==
  KindOf(e.target) = "cell" /\ "width" \in DOMAIN e.set

NewGrid(e) == [grid EXCEPT ![cells[e.target].col] = e.set["width"]]

DocxSizes(e) ==
  LET widths == SetsWidth(e) /\ e.set["width"] # Clear
      rows == {c \in DOMAIN cells : cells[c].row = cells[e.target].row}
  IN [n \in Nodes |->
        [f \in DOMAIN native[n] |->
           CASE f = "width" /\ widths /\ n \in DocxCellWidth(e, NewGrid(e)) -> SpanWidth(NewGrid(e), n)
             [] f = "width" /\ ~widths /\ SetsWidth(e) /\ n = e.target -> Absent
             [] f = "height" /\ KindOf(e.target) = "cell" /\ f \in DOMAIN e.set /\ n \in rows ->
                  Put(native[n], e.set, {"height"})["height"]
             [] OTHER -> native[n][f]]]

DocxRunStyle(e, style) == Put(style, e.set, {"bold", "script"})
DocxParaStyle(e, style) == Put(style, e.set, {"align", "indent"})
DocxBorders(e, style) == Put(style, e.set, {"padding", "fill"})
DocxCellStyle(e, style) == DocxBorders(e, Put(style, e.set, {"valign"}))

\* An inline table drops its position; clearing an offset leaves it.
DocxTableStyle(e, style) ==
  IF "mode" \in DOMAIN e.set /\ e.set["mode"] = 1
    THEN [style EXCEPT !["offset"] = Absent, !["mode"] = 1]
    ELSE [style EXCEPT !["mode"] = 2,
                       !["offset"] = IF "offset" \in DOMAIN e.set /\ e.set["offset"] # Clear
                                       THEN e.set["offset"] ELSE @]

\* Clearing an image's size leaves its extent.
DocxExtent(e, style) ==
  IF "width" \in DOMAIN e.set /\ e.set["width"] # Clear
    THEN Put(style, e.set, {"width"}) ELSE style

DocxDirect(e, n, style) ==
  CASE KindOf(n) = "run" -> DocxRunStyle(e, style)
    [] KindOf(n) = "para" -> DocxParaStyle(e, style)
    [] KindOf(n) = "cell" -> DocxCellStyle(e, style)
    [] KindOf(n) = "table" -> DocxTableStyle(e, style)
    [] KindOf(n) = "image" -> DocxExtent(e, style)

InlineChildren == <<"extent", "effectExtent", "docPr", "graphic">>
AnchorChildren == <<"simplePos", "positionH", "positionV", "extent", "effectExtent",
                    "wrap", "docPr", "graphic">>
Placing == {"positionH", "positionV", "wrap"}

\* _docx_update_anchor_position: new positions go after simplePos.  An empty
\* effectExtent element is false in "effect_extent or extent", so the new wrap
\* goes after the extent.
UpdateAnchor(d) ==
  FoldLeft(LAMBDA acc, x :
             CASE x \in Placing -> acc
               [] x = "simplePos" -> acc \o <<"simplePos", "positionH", "positionV">>
               [] x = "extent" -> acc \o <<"extent", "wrap">>
               [] OTHER -> Append(acc, x), <<>>, d)

IsAnchor(d) == "simplePos" \in Range(d)

\* Inline and anchored drawings are rebuilt from each other's children.
DocxDrawing(e) ==
  LET set(f) == IF f \in DOMAIN e.set THEN e.set[f] ELSE Absent
      d == IF set("mode") = 2 /\ ~IsAnchor(drawing) THEN AnchorChildren
           ELSE IF set("mode") = 1 /\ IsAnchor(drawing) THEN InlineChildren
           ELSE drawing
  IN IF IsAnchor(d) /\ set("offset") > 0 THEN UpdateAnchor(d) ELSE d

HalignTargets(e) ==
  IF KindOf(e.target) = "cell" /\ "halign" \in DOMAIN e.set THEN InCell[e.target] ELSE {}

ApplyDocx(e) ==
  /\ native' = [n \in Nodes |->
                  CASE n = e.target -> DocxDirect(e, n, DocxSizes(e)[n])
                    [] n \in HalignTargets(e) ->
                         [native[n] EXCEPT !["align"] = IF e.set["halign"] = Clear THEN Absent
                                                        ELSE e.set["halign"]]
                    [] OTHER -> DocxSizes(e)[n]]
  /\ IF SetsWidth(e) /\ e.set["width"] # Clear
       THEN /\ grid' = NewGrid(e)
            /\ tableW' = FoldSet(LAMBDA i, acc : acc + NewGrid(e)[i], 0, DOMAIN grid)
       ELSE UNCHANGED <<grid, tableW>>
  /\ drawing' = IF KindOf(e.target) = "image" THEN DocxDrawing(e) ELSE drawing
  /\ UNCHANGED <<head, ref, textW>>

-----------------------------------------------------------------------------
(* HWPX *)

HwpxSupports(e) == "script" \notin DOMAIN e.set

RefKind(n) == CASE n \in Runs -> "char" [] n \in Paras -> "para" [] OTHER -> "border"
\* What the header entries keep for runs, paragraphs and cells.
CharFields == {"bold"}
ParaFields == {"align", "indent"}
BorderFields == {"fill"}
HeadFields == [char |-> CharFields, para |-> ParaFields, border |-> BorderFields]

NextId(entries) == IF DOMAIN entries = {} THEN 0 ELSE Max(DOMAIN entries) + 1

DefaultEntry(kind) == [f \in HeadFields[kind] |-> Absent]

\* Clone the entry a node refers to, change the clone, and refer to it.
CloneRef(h, r, n, set) ==
  LET kind == RefKind(n)
      new == NextId(h[kind])
      source == IF r[n] \in DOMAIN h[kind] THEN h[kind][r[n]] ELSE DefaultEntry(kind)
      entry == Put(source, set, HeadFields[kind])
  IN [head |-> [h EXCEPT ![kind] = [i \in DOMAIN @ \union {new} |->
                                      IF i = new THEN entry ELSE @[i]]],
      ref |-> [r EXCEPT ![n] = new]]

\* The nodes of an edit that take a clone, with what it changes.
Clones(e) ==
  CASE KindOf(e.target) \in {"run", "para"} -> {<<e.target, e.set>>}
    [] KindOf(e.target) = "cell" ->
         (IF "fill" \in DOMAIN e.set THEN {<<e.target, e.set>>} ELSE {})
           \union {<<p, [align |-> e.set["halign"]]>> : p \in HalignTargets(e)}
    [] OTHER -> {}

Cloned(e) ==
  FoldSet(LAMBDA x, acc : CloneRef(acc.head, acc.ref, x[1], x[2]),
          [head |-> head, ref |-> ref], Clones(e))

\* A merged cell and its column leave each other's widths alone.
HwpxResized(e, f) ==
  LET t == cells[e.target] IN
  IF KindOf(e.target) # "cell" \/ f \notin DOMAIN e.set THEN {}
  ELSE IF f = "height" THEN {c \in DOMAIN cells : cells[c].row = t.row}
  ELSE {c \in DOMAIN cells : cells[c].col = t.col
                               /\ (c = e.target \/ (t.cs = 1 /\ cells[c].cs = 1))}

\* What is kept on the element: the placement of objects, an image's size,
\* and a cell's margins and vertical alignment.
HwpxPlacement == {"mode", "offset"}
HwpxCellMargin == {"padding"}
HwpxOnNode(n) ==
  CASE KindOf(n) = "table" -> HwpxPlacement
    [] KindOf(n) = "image" -> HwpxPlacement \union {"width"}
    [] KindOf(n) = "cell" -> HwpxCellMargin \union {"valign"}
    [] OTHER -> {}

HwpxNative(e) ==
  [n \in Nodes |->
     Put(native[n], e.set,
         UNION {IF n = e.target THEN HwpxOnNode(n) ELSE {},
                IF n \in HwpxResized(e, "width") THEN {"width"} ELSE {},
                IF n \in HwpxResized(e, "height") THEN {"height"} ELSE {}})]

\* _hwpx_update_cell_text_area
TextArea(c, style, old) ==
  IF style["width"] = Absent THEN old ELSE Max({style["width"] - 2 * style["padding"], 0})

RowWidth(nat, row) ==
  FoldSet(LAMBDA c, acc : acc + nat[c]["width"], 0, {c \in DOMAIN cells : cells[c].row = row})

\* _update_hwpx_table_size_from_cells
TableWidth(nat) ==
  LET w == Max({RowWidth(nat, cells[c].row) : c \in DOMAIN cells})
  IN IF w > 0 THEN w ELSE tableW

ApplyHwpx(e) ==
  /\ HwpxSupports(e)
  /\ native' = HwpxNative(e)
  /\ head' = Cloned(e).head
  /\ ref' = Cloned(e).ref
  /\ textW' = IF KindOf(e.target) = "cell"
                   /\ DOMAIN e.set \cap {"width", "height", "padding"} # {}
                THEN [c \in DOMAIN cells |-> TextArea(c, native'[c], textW[c])]
                ELSE textW
  /\ tableW' = IF KindOf(e.target) = "cell" THEN TableWidth(native') ELSE tableW
  /\ UNCHANGED <<grid, drawing>>

-----------------------------------------------------------------------------
NativeFields(n) == Fields[KindOf(n)]
Columns(layout) == 1..Max({layout[c].col + layout[c].cs - 1 : c \in DOMAIN layout})

\* A parsed document: every column two units wide, styles shared by reference.
Init ==
  /\ format \in {"docx", "hwpx"}
  /\ cells \in Layouts
  /\ format = "docx" => \A c \in DOMAIN cells : cells[c].rs = 1
  /\ native = [n \in Nodes |->
                 [f \in NativeFields(n) |->
                    IF f = "width" /\ n \in DOMAIN cells THEN 2 * cells[n].cs
                    ELSE IF f = "mode" THEN 1 ELSE Absent]]
  /\ ir = native
  /\ grid = [i \in Columns(cells) |-> 2]
  /\ tableW = 2 * Cardinality(Columns(cells))
  /\ ref = SharedRefs
  /\ head = [k \in DOMAIN HeadFields |->
               [i \in {SharedRefs[n] : n \in {m \in DOMAIN SharedRefs : RefKind(m) = k}} |->
                  DefaultEntry(k)]]
  /\ textW = [c \in DOMAIN cells |-> 2 * cells[c].cs]
  /\ drawing = InlineChildren
  /\ reported = {}
  /\ edits = 0

\* A style edit of a native document, together with its preview.
StyleEdit(e) ==
  /\ \/ format = "docx" /\ ApplyDocx(e)
     \/ format = "hwpx" /\ ApplyHwpx(e)
  /\ ir' = StyleIR(e)
  /\ reported' = ModifiedIds(e)
  /\ edits' = edits + 1
  /\ UNCHANGED <<format, cells>>

Next == edits < MaxStyleEdits /\ \E e \in StyleEdits : StyleEdit(e)

Spec == Init /\ [][Next]_vars

-----------------------------------------------------------------------------
Looks(n) ==
  <<native[n], IF format = "hwpx" /\ n \in DOMAIN ref THEN head[RefKind(n)][ref[n]] ELSE <<>>>>

(* No edit changes how a node looks that it does not report as modified    *)
(* (a paragraph belongs to its cell): the header entries that HWPX nodes   *)
(* share are cloned before they are changed, under ids that no other node  *)
(* uses (_hwpx_clone_or_create_header_ref).                                *)
LocalStep ==
  \A n \in Nodes :
    Looks(n)' # Looks(n) =>
      \/ n \in reported'
      \/ \E c \in reported' \cap DOMAIN cells : n \in InCell[c]

(* However widths are edited, a DOCX cell is as wide as the grid columns   *)
(* it spans, and the table as wide as its grid (_docx_set_column_width,    *)
(* _docx_apply_column_width_to_cells).                                     *)
WidthsFollowGrid ==
  format = "docx" =>
    /\ \A c \in DOMAIN cells :
         native[c]["width"] # Absent => native[c]["width"] = SpanWidth(grid, c)
    /\ tableW = FoldSet(LAMBDA i, acc : acc + grid[i], 0, DOMAIN grid)

(* The text area of every HWPX cell is what its padding leaves of its      *)
(* width, whatever the order of size and padding edits                     *)
(* (_hwpx_update_cell_text_area).                                          *)
TextAreaFits ==
  format = "hwpx" =>
    \A c \in DOMAIN cells :
      native[c]["width"] # Absent =>
        textW[c] = Max({native[c]["width"] - 2 * native[c]["padding"], 0})

(* An anchored drawing has one horizontal and one vertical position and    *)
(* one wrap, an inline one has none, and neither loses its picture.        *)
DrawingWhole ==
  /\ \A x \in Placing :
       Cardinality({i \in DOMAIN drawing : drawing[i] = x}) = IF IsAnchor(drawing) THEN 1 ELSE 0
  /\ \A x \in Range(InlineChildren) :
       Cardinality({i \in DOMAIN drawing : drawing[i] = x}) = 1
=============================================================================
