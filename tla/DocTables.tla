----------------------------- MODULE DocTables ------------------------------
(***************************************************************************)
(* Row and column edits of a table (document_processor/models.py, TableIR, *)
(* and edit_engine.py): on the intermediate document, whose rows repeat a  *)
(* merged cell in every slot it covers, and on the DOCX or HWPX table      *)
(* behind it, which a batch edits in the same order.                       *)
(*                                                                         *)
(* A cell is its id, its spans, and the position its native anchor names.  *)
(* Native tables are modelled for plain tables; spans are the IR's.        *)
(***************************************************************************)
EXTENDS Integers, Sequences, SequencesExt, FiniteSetsExt

CONSTANTS Layouts,      \* the tables to start from, as sequences of rows of cells
          MaxTableEdits

VARIABLES
  table,    \* [rows, rc, cc]: the cells by row, and the stored counts
  native,   \* the rows of cell ids in the file, NoNative without a file
  edits,    \* edits applied so far; also makes the ids of new cells
  lastEdit  \* [before, gone, skewed]: the cells the last edit met and was to remove, and
            \* whether by then a column was inserted into a table with merged cells

tableVars == <<table, native, edits, lastEdit>>

NoNative == <<>>
Nowhere == <<0, 0>>
Cell(id, rs, cs, at) == [id |-> id, rs |-> rs, cs |-> cs, at |-> at]
BlankCell == Cell(0, 1, 1, Nowhere)     \* TableCellIR(), without an id

-----------------------------------------------------------------------------
\* _table_cell_origin_positions: reading the rows left to right, a cell that fills a
\* slot covered by an earlier one is skipped; any other takes the next free column.
\* _cell_is_covered_slot_filler: the same cell again, or one whose anchor names the slot.
FillsSlot(cell, covering, slot) == (cell.id # 0 /\ cell.id = covering.id) \/ cell.at = slot

Slots(r, c, cell) == (r .. r + cell.rs - 1) \X (c .. c + cell.cs - 1)

Placed(acc, r, cell) ==
  LET c == IF r = acc.row THEN acc.col ELSE 1
      taken(k) == \E x \in acc.occupied : x.slot = <<r, k>>
      at(k) == (CHOOSE x \in acc.occupied : x.slot = <<r, k>>).cell
      free == CHOOSE k \in c .. c + Cardinality(acc.occupied) :
                ~taken(k) /\ \A j \in c .. k - 1 : taken(j)
      slots == Slots(r, free, cell)
  IN IF taken(c) /\ FillsSlot(cell, at(c), <<r, c>>)
     THEN [acc EXCEPT !.row = r, !.col = c + 1]
     ELSE IF cell.id \in acc.seen
     THEN [acc EXCEPT !.row = r, !.col = free + 1]
     ELSE [row |-> r, col |-> free + 1, seen |-> acc.seen \cup ({cell.id} \ {0}),
           occupied |-> {x \in acc.occupied : x.slot \notin slots} \cup {[slot |-> s, cell |-> cell] : s \in slots},
           origins |-> acc.origins \cup {[row |-> r, col |-> free, cell |-> cell]}]

Origins(rows) ==
  LET entries == FlattenSeq([r \in DOMAIN rows |-> [k \in DOMAIN rows[r] |-> [row |-> r, cell |-> rows[r][k]]]])
      start == [row |-> 0, col |-> 1, seen |-> {}, occupied |-> {}, origins |-> {}]
  IN FoldLeft(LAMBDA acc, e : Placed(acc, e.row, e.cell), start, entries).origins

Widest(rows) == Max({Len(rows[r]) : r \in DOMAIN rows} \cup {0})

\* _expanded_table_cells: every slot of the grid, at least as large as the stored
\* counts; holes become blank cells, a row ends at its last cell.
Expanded(t) ==
  LET os == Origins(t.rows)
      height == Max({t.rc, Len(t.rows)} \cup {o.row + o.cell.rs - 1 : o \in os})
      width == Max({t.cc, Widest(t.rows)} \cup {o.col + o.cell.cs - 1 : o \in os})
      over(r, c) == {o \in os : <<r, c>> \in Slots(o.row, o.col, o.cell)}
      last(r) == Max({c \in 1 .. width : over(r, c) # {}} \cup {0})
      top(r, c) == CHOOSE o \in over(r, c) : \A p \in over(r, c) : <<p.row, p.col>> = <<o.row, o.col>>
                                                \/ p.row < o.row \/ (p.row = o.row /\ p.col < o.col)
  IN IF os = {} THEN t.rows
     ELSE [r \in 1 .. height |-> [c \in 1 .. last(r) |-> IF over(r, c) = {} THEN BlankCell ELSE top(r, c).cell]]

\* _recompute_table_shape, then _refresh_doc_ir_native_paths: the counts and the anchors.
Recomputed(t) ==
  LET anchored(cell, os) ==
        IF cell.id = 0 \/ ~\E o \in os : o.cell.id = cell.id THEN cell
        ELSE LET o == CHOOSE x \in os : x.cell.id = cell.id IN [cell EXCEPT !.at = <<o.row, o.col>>]
      shape(rows, os) ==
        [rows |-> [r \in DOMAIN rows |-> [k \in DOMAIN rows[r] |-> anchored(rows[r][k], os)]],
         rc |-> Max({Len(rows)} \cup {o.row + o.cell.rs - 1 : o \in os}),
         cc |-> Max({Widest(rows)} \cup {o.col + o.cell.cs - 1 : o \in os})]
      filled(rows) == shape(rows, Origins(rows))
  IN filled(Expanded(t))

-----------------------------------------------------------------------------
Without(rows, ids) == [r \in DOMAIN rows |-> SelectSeq(rows[r], LAMBDA cell : cell.id \notin ids)]
InsertedAt(rows, n, row) == SubSeq(rows, 1, n) \o <<row>> \o SubSeq(rows, n + 1, Len(rows))
Ids(rows) == {rows[r][k].id : <<r, k>> \in {x \in (DOMAIN rows) \X (1 .. Widest(rows)) : x[2] \in DOMAIN rows[x[1]]}} \ {0}
CellIds == Ids(table.rows)
Merged(rows) == \E r \in DOMAIN rows : \E k \in DOMAIN rows[r] : rows[r][k].rs > 1 \/ rows[r][k].cs > 1
Plain == native # NoNative

NewId(k) == 100 * (edits + 1) + k
\* _cloned_or_default_cell_style: the style, spans included, of the cell next to it.
Template(os, r, c) == IF \E o \in os : o.row = r /\ o.col = c
                      THEN (CHOOSE o \in os : o.row = r /\ o.col = c).cell ELSE BlankCell
NewCell(k, like) == Cell(NewId(k), like.rs, like.cs, Nowhere)

\* Both sides, or neither: the batch writes nothing when the file refuses the edit.
Commit(t, rows, gone, skews) ==
  /\ table' = Recomputed(t) /\ native' = rows
  /\ edits' = edits + 1
  /\ lastEdit' = [before |-> CellIds, gone |-> gone, skewed |-> lastEdit.skewed \/ skews]

\* The same edits of the file's table: rows in DOCX and columns in HWPX stand for both.
NativeWithoutRow(r) == IF Plain THEN RemoveAt(native, r) ELSE native
NativeWithRow(at) == IF Plain THEN InsertedAt(native, at, [c \in DOMAIN native[1] |-> NewId(c)]) ELSE native
NativeWithoutColumn(c) ==
  IF Plain THEN [r \in DOMAIN native |-> IF c <= Len(native[r]) THEN RemoveAt(native[r], c) ELSE native[r]] ELSE native

RemoveTableRow(r) ==
  LET gone == {o.cell.id : o \in {x \in Origins(table.rows) : x.row = r}}
      kept == Without(table.rows, gone)
  IN /\ r \in 1 .. table.rc /\ table.rc > 1
     /\ Plain => r <= Len(native) /\ Len(native) > 1
     /\ Commit([table EXCEPT !.rows = IF r <= Len(kept) THEN RemoveAt(kept, r) ELSE kept],
               NativeWithoutRow(r), gone, FALSE)

\* The row is put before or after row r.  Without values each side makes one cell for
\* each column it counts; given values must be as many as both count.
InsertTableRow(r, after) ==
  LET at == IF after THEN r ELSE r - 1
      os == Origins(table.rows)
  IN /\ r \in 1 .. table.rc
     /\ Plain => r <= Len(native)
     /\ Commit([table EXCEPT !.rows = InsertedAt(@, at, [c \in 1 .. table.cc |-> NewCell(c, Template(os, r, c))])],
               NativeWithRow(at), {}, FALSE)

RemoveTableColumn(c) ==
  LET gone == {o.cell.id : o \in {x \in Origins(table.rows) : x.col = c}} IN
  /\ c \in 1 .. table.cc /\ table.cc > 1
  /\ Plain => c <= Len(native[1]) /\ Len(native[1]) > 1
  /\ Commit([table EXCEPT !.rows = Without(@, gone)],
            NativeWithoutColumn(c), gone, FALSE)

\* append_cell of each row in turn: at the column, or at the end of a shorter row.
Spliced(row, at, x) == IF at >= Len(row) THEN Append(row, x) ELSE InsertAt(row, at + 1, x)

NativeWithColumn(at) ==
  IF Plain THEN [r \in DOMAIN native |-> Spliced(native[r], at, NewId(r))] ELSE native

InsertTableColumn(c, after) ==
  LET at == IF after THEN c ELSE c - 1
      os == Origins(table.rows)
      put(t, r) == LET rows == [k \in 1 .. Max({r, Len(t.rows)}) |-> IF k <= Len(t.rows) THEN t.rows[k] ELSE <<>>]
                   IN [t EXCEPT !.rows = Expanded([t EXCEPT !.rows =
                         [rows EXCEPT ![r] = Spliced(@, at, NewCell(r, Template(os, r, c)))]])]
  IN /\ c \in 1 .. table.cc
     /\ Plain => c <= Len(native[1])
     /\ Commit(FoldLeft(put, table, [r \in 1 .. table.rc |-> r]),
               NativeWithColumn(at), {}, Merged(table.rows))

TableInit ==
  /\ \E rows \in Layouts, file \in BOOLEAN :
       /\ table = Recomputed([rows |-> rows, rc |-> 0, cc |-> 0])
       /\ native = IF Merged(rows) \/ ~file THEN NoNative
                   ELSE [r \in DOMAIN rows |-> [k \in DOMAIN rows[r] |-> rows[r][k].id]]
  /\ edits = 0
  /\ lastEdit = [before |-> {}, gone |-> {}, skewed |-> FALSE]

TableNext ==
  /\ edits < MaxTableEdits
  /\ \E k \in 1 .. Max({table.rc, table.cc}) :
       \/ RemoveTableRow(k) \/ RemoveTableColumn(k)
       \/ \E after \in BOOLEAN : InsertTableRow(k, after) \/ InsertTableColumn(k, after)

-----------------------------------------------------------------------------
\* An edit of rows or columns loses no cell but those it was asked to remove, in plain and
\* in merged tables, before or after other edits.  Not claimed once a column was inserted
\* into a table with merged cells: there the code does lose cells.  A new cell takes its
\* neighbour's rowspan and covers the slot below it, whose cell is then skipped as a filler.
NoCellDropped == ~lastEdit.skewed => lastEdit.before \ lastEdit.gone \subseteq CellIds

\* The cells of the IR are at the places of the cells of the file, so that an anchor the
\* next edit of the batch goes through names the right one.
TableInStep ==
  Plain => \A r \in DOMAIN native : \A c \in DOMAIN native[r] :
    /\ r \in DOMAIN table.rows /\ c \in DOMAIN table.rows[r]
    /\ table.rows[r][c].id = native[r][c] /\ table.rows[r][c].at = <<r, c>>

=============================================================================
