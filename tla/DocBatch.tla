------------------------------ MODULE DocBatch ------------------------------
(***************************************************************************)
(* A batch of edits of one document (document_processor/api.py,            *)
(* apply_document_edits, and edit_engine.py): the batch is tried on the    *)
(* intermediate document, then carried out edit by edit on the bytes of    *)
(* the DOCX or HWPX file; a copy of the intermediate document is edited    *)
(* alongside and says where in the file the next edit goes.                *)
(*                                                                         *)
(* The file is a sequence of blocks: in DOCX a table is a block of its     *)
(* own, in HWPX it sits in a paragraph.  Blocks and runs of the file carry *)
(* the id of the node they were parsed from or made for, which the code    *)
(* does not have and the properties need.                                  *)
(***************************************************************************)
EXTENDS Integers, Sequences, SequencesExt, FiniteSetsExt

CONSTANTS Sources,     \* documents to start from: sequences of paragraphs
          NewTexts, MaxBatch

VARIABLES
  batch,     \* [pc, type, edits, done, path]: the call and its progress
  preview,   \* the intermediate document after the edits validated so far
  mapping,   \* the copy that follows the file
  file,      \* the blocks of current_bytes
  drift,     \* the block of the file from which on the copy no longer tells where things
             \* are, 0 while it does
  misplaced  \* an edit of the file that hit another node than its target

batchVars == <<batch, preview, mapping, file, drift, misplaced>>

Run(id, text) == [kind |-> "run", id |-> id, text |-> text]
Tbl(id) == [kind |-> "table", id |-> id, text |-> ""]
Para(id, items) == [id |-> id, items |-> items]

IsTable(p) == p.items # <<>> /\ p.items[1].kind = "table"
RunsOf(p) == SelectSeq(p.items, LAMBDA x : x.kind = "run")
TextOf(p) == SelectSeq([k \in DOMAIN RunsOf(p) |-> RunsOf(p)[k].text], LAMBDA t : t # "")
IndexOf(doc, id) == CHOOSE i \in DOMAIN doc : doc[i].id = id
HomeOf(doc, id) == {i \in DOMAIN doc : \E k \in DOMAIN doc[i].items : doc[i].items[k].id = id}
Nodes(doc) == {doc[i].id : i \in DOMAIN doc}
              \cup UNION {{doc[i].items[k].id : k \in DOMAIN doc[i].items} : i \in DOMAIN doc}

\* Ids of what edit n of the batch makes: _new_inserted_node_id is distinct from all others.
Fresh(n, part) == 1000 * n + part

Before(s, i, pos) == IF pos = "before" THEN i ELSE i + 1    \* where an insertion goes
WithItems(doc, i, items) == [doc EXCEPT ![i].items = items]
FirstTakes(items, text) == [k \in DOMAIN items |-> IF k = 1 THEN [items[k] EXCEPT !.text = text]
                                                   ELSE [items[k] EXCEPT !.text = ""]]

-----------------------------------------------------------------------------
\* The intermediate document.  Each operation has the conditions under which it does
\* not raise and its result (_apply_structural_doc_ir_operation, _apply_single_edit).
IsPara(doc, id) == \E i \in DOMAIN doc : doc[i].id = id
IsItem(doc, id, kind) == \E i \in DOMAIN doc : \E k \in DOMAIN doc[i].items :
                           doc[i].items[k].id = id /\ doc[i].items[k].kind = kind

InsertParagraphIR(doc, e, n) ==
  InsertAt(doc, Before(doc, IndexOf(doc, e.target), e.pos), Para(Fresh(n, 1), <<Run(Fresh(n, 2), e.text)>>))

\* A document never becomes empty (_ensure_doc_ir_has_content).
RemoveParagraphIR(doc, e, n) ==
  LET rest == RemoveAt(doc, IndexOf(doc, e.target)) IN
  IF rest = <<>> THEN <<Para(Fresh(n, 1), <<Run(Fresh(n, 2), "")>>)>> ELSE rest

\* Mutant: a run inserted into a paragraph always goes last.
InsertRunIRLast(doc, e, n) ==
  LET i == IF IsPara(doc, e.target) THEN IndexOf(doc, e.target) ELSE CHOOSE x \in HomeOf(doc, e.target) : TRUE IN
  WithItems(doc, i, Append(doc[i].items, Run(Fresh(n, 1), e.text)))

InsertRunIR(doc, e, n) ==
  IF IsPara(doc, e.target)
  THEN LET i == IndexOf(doc, e.target) IN
       WithItems(doc, i, IF e.pos = "before" THEN <<Run(Fresh(n, 1), e.text)>> \o doc[i].items
                                             ELSE Append(doc[i].items, Run(Fresh(n, 1), e.text)))
  ELSE LET i == CHOOSE x \in HomeOf(doc, e.target) : TRUE
           k == CHOOSE x \in DOMAIN doc[i].items : doc[i].items[x].id = e.target
       IN WithItems(doc, i, InsertAt(doc[i].items, Before(doc[i].items, k, e.pos), Run(Fresh(n, 1), e.text)))

\* remove_run and remove_table: the paragraph stays, even with nothing left in it.
RemoveItemIR(doc, e) ==
  LET i == CHOOSE x \in HomeOf(doc, e.target) : TRUE IN
  WithItems(doc, i, SelectSeq(doc[i].items, LAMBDA x : x.id # e.target))

InsertTableIR(doc, e, n) ==
  InsertAt(doc, Before(doc, IndexOf(doc, e.target), e.pos), Para(Fresh(n, 1), <<Tbl(Fresh(n, 2))>>))

\* A text edit: of a run, or of a paragraph of runs only (which keeps what DocText shows).
EditTextIR(doc, e) ==
  IF IsPara(doc, e.target)
  THEN WithItems(doc, IndexOf(doc, e.target), FirstTakes(doc[IndexOf(doc, e.target)].items, e.text))
  ELSE LET i == CHOOSE x \in HomeOf(doc, e.target) : TRUE IN
       WithItems(doc, i, [k \in DOMAIN doc[i].items |->
                            IF doc[i].items[k].id = e.target THEN [doc[i].items[k] EXCEPT !.text = e.text]
                            ELSE doc[i].items[k]])

AcceptedIR(doc, e) ==
  CASE e.op \in {"insert_paragraph", "remove_paragraph", "insert_table"} -> IsPara(doc, e.target)
    [] e.op = "insert_run" -> IsPara(doc, e.target) \/ IsItem(doc, e.target, "run")
    [] e.op = "remove_run" -> IsItem(doc, e.target, "run")
    [] e.op = "remove_table" -> IsItem(doc, e.target, "table")
    [] e.op = "text" -> \/ IsPara(doc, e.target) /\ ~IsTable(doc[IndexOf(doc, e.target)])
                        \/ IsItem(doc, e.target, "run")

AppliedIR(doc, e, n) ==
  CASE e.op = "insert_paragraph" -> InsertParagraphIR(doc, e, n)
    [] e.op = "remove_paragraph" -> RemoveParagraphIR(doc, e, n)
    [] e.op = "insert_run" -> InsertRunIR(doc, e, n)
    [] e.op \in {"remove_run", "remove_table"} -> RemoveItemIR(doc, e)
    [] e.op = "insert_table" -> InsertTableIR(doc, e, n)
    [] e.op = "text" -> EditTextIR(doc, e)

-----------------------------------------------------------------------------
\* The native anchor of a node, as _refresh_doc_ir_native_paths numbers the copy: its
\* paragraph, and its place among the runs of it.
PathOf(doc, id) ==
  IF IsPara(doc, id) THEN [block |-> IndexOf(doc, id), run |-> 0]
  ELSE LET i == CHOOSE x \in HomeOf(doc, id) : TRUE
           k == CHOOSE x \in DOMAIN doc[i].items : doc[i].items[x].id = id
       IN [block |-> i, run |-> Len(SelectSeq(SubSeq(doc[i].items, 1, k), LAMBDA x : x.kind = "run"))]

\* What is at a path of the file, or "nothing".  A table block of DOCX is no paragraph.
Docx == batch.type = "docx"
FoundPara(path) == path.block \in DOMAIN file /\ (Docx => ~IsTable(file[path.block]))
FoundRun(path) == FoundPara(path) /\ path.run \in 1 .. Len(RunsOf(file[path.block]))
FoundTable(path) == path.block \in DOMAIN file /\ IsTable(file[path.block])

NativeFinds(e, path) ==
  CASE e.op \in {"insert_paragraph", "remove_paragraph", "insert_table"} -> FoundPara(path)
    [] e.op = "remove_table" -> FoundTable(path)
    [] OTHER -> IF path.run = 0 THEN FoundPara(path) ELSE FoundRun(path)

RunAt(path) == RunsOf(file[path.block])[path.run]
NodeAt(e, path) == IF path.run = 0 THEN (IF e.op = "remove_table" THEN file[path.block].items[1].id ELSE file[path.block].id)
                   ELSE RunAt(path).id
TextAt(path) == IF path.run = 0 THEN TextOf(file[path.block])
                ELSE SelectSeq(<<RunAt(path).text>>, LAMBDA t : t # "")
ExpectedText(e) == IF IsPara(mapping, e.target) THEN TextOf(mapping[IndexOf(mapping, e.target)])
                   ELSE LET i == CHOOSE x \in HomeOf(mapping, e.target) : TRUE
                            k == CHOOSE x \in DOMAIN mapping[i].items : mapping[i].items[x].id = e.target
                        IN SelectSeq(<<mapping[i].items[k].text>>, LAMBDA t : t # "")

\* The text hash, which text edits must and removals may carry, is compared with the
\* file's own text as well.
HashAgrees(e, path) == (e.op = "text" \/ e.guarded) => TextAt(path) = ExpectedText(e)

\* _ensure_docx_container_has_paragraph looks for a paragraph, tables aside;
\* _ensure_hwpx_parent_has_paragraph sees the table's paragraph too.
BlankPara(n) == Para(Fresh(n, 1), <<Run(Fresh(n, 2), "")>>)
EnsureDocxParagraph(blocks, n) == IF \A i \in DOMAIN blocks : IsTable(blocks[i]) THEN Append(blocks, BlankPara(n)) ELSE blocks
EnsureHwpxParagraph(blocks, n) == IF blocks = <<>> THEN <<BlankPara(n)>> ELSE blocks

\* What both formats do alike.
InsertedNative(e, path, n) ==
  LET b == path.block
      k == CHOOSE x \in DOMAIN file[b].items : file[b].items[x].id = RunAt(path).id
      new == Run(Fresh(n, 1), e.text)
  IN CASE e.op = "insert_paragraph" -> InsertAt(file, Before(file, b, e.pos), Para(Fresh(n, 1), <<Run(Fresh(n, 2), e.text)>>))
       [] e.op = "insert_table" -> InsertAt(file, Before(file, b, e.pos), Para(Fresh(n, 1), <<Tbl(Fresh(n, 2))>>))
       [] e.op = "insert_run" ->
            WithItems(file, b, IF path.run > 0 THEN InsertAt(file[b].items, Before(file[b].items, k, e.pos), new)
                               ELSE IF e.pos = "before" THEN <<new>> \o file[b].items ELSE Append(file[b].items, new))
       [] e.op = "text" ->
            WithItems(file, b, IF path.run > 0 THEN [file[b].items EXCEPT ![k].text = e.text]
                               ELSE FirstTakes(file[b].items, e.text))

WithoutRun(path) == SelectSeq(file[path.block].items, LAMBDA x : x.id # RunAt(path).id)

\* _apply_docx_structural_operation.
AppliedDocx(e, path, n) ==
  CASE e.op = "remove_paragraph" -> EnsureDocxParagraph(RemoveAt(file, path.block), n)
    [] e.op = "remove_table" -> RemoveAt(file, path.block)
    [] e.op = "remove_run" -> WithItems(file, path.block, WithoutRun(path))
    [] OTHER -> InsertedNative(e, path, n)

\* _apply_hwpx_structural_operation: a paragraph that loses its last run gets an empty
\* one; a table cannot be taken out of the paragraph it is looked for in (ApplyNative).
AppliedHwpx(e, path, n) ==
  CASE e.op = "remove_paragraph" -> EnsureHwpxParagraph(RemoveAt(file, path.block), n)
    [] e.op = "remove_run" -> WithItems(file, path.block, IF WithoutRun(path) = <<>> THEN <<Run(Fresh(n, 3), "")>>
                                                          ELSE WithoutRun(path))
    [] OTHER -> InsertedNative(e, path, n)

\* The first block in which the two sides part, if they do: the DOCX block of a removed
\* table goes while its paragraph stays in the copy; a paragraph is added at the end of the
\* file only; a run stays in the file only.
PartsAt(e, path, n) ==
  CASE e.op = "remove_table" -> {path.block}
    [] e.op = "remove_paragraph" /\ Docx ->
         IF Len(EnsureDocxParagraph(RemoveAt(file, path.block), n)) = Len(file) /\ Len(mapping) > 1
         THEN {Len(file)} ELSE {}
    [] e.op = "remove_run" /\ ~Docx -> IF Len(RunsOf(file[path.block])) = 1 THEN {path.block} ELSE {}
    [] OTHER -> {}

\* The blocks before it move with what is inserted and removed before it.
Aligned(block) == drift = 0 \/ block < drift
DriftAfter(block, new, parts) ==
  LET moved == IF drift # 0 /\ block < drift THEN drift + Len(new) - Len(file) ELSE drift
      all == parts \cup ({moved} \ {0})
  IN IF all = {} THEN 0 ELSE Min(all)

-----------------------------------------------------------------------------
\* Output requests: an explicit path (stem and suffix), a bare file name, both, neither.
FileNames == {"source", "other"} \X {".docx", ".hwpx", ".txt"}
NoName == <<"none", "none">>
NativeSuffix == IF Docx THEN ".docx" ELSE ".hwpx"
SourcePath == <<"source", NativeSuffix>>

Requested(req) == IF req.path # NoName THEN req.path
                  ELSE IF req.name # NoName THEN req.name ELSE <<"source_edited", NativeSuffix>>

\* _normalize_output_path_for_source_doc_type: the suffix of the format is forced.
FinalPath(req) == <<Requested(req)[1], NativeSuffix>>

\* _validate_output_options, _validate_output_filename_extension, _validate_apply_output_request.
OutputAllowed(req) ==
  /\ ~(req.path # NoName /\ req.name # NoName)
  /\ req.name # NoName => req.name[2] = NativeSuffix
  /\ FinalPath(req) # SourcePath

-----------------------------------------------------------------------------
BatchInit ==
  /\ batch = [pc |-> "idle", type |-> "docx", edits |-> <<>>, done |-> 0, path |-> NoName]
  /\ preview = <<>> /\ mapping = <<>> /\ file = <<>>
  /\ drift = 0 /\ misplaced = FALSE

\* _resolve_document_args: the file is parsed.
OpenDocument(doc, type) ==
  /\ batch.pc = "idle"
  /\ batch' = [batch EXCEPT !.pc = "validate", !.type = type]
  /\ preview' = doc /\ mapping' = doc /\ file' = doc
  /\ UNCHANGED <<drift, misplaced>>

Edits(doc) == [op : {"insert_paragraph", "insert_run", "insert_table"}, target : Nodes(doc), text : NewTexts,
               pos : {"before", "after"}, guarded : {FALSE}]
              \cup [op : {"remove_paragraph", "remove_run", "remove_table"}, target : Nodes(doc), text : {""},
                    pos : {"after"}, guarded : BOOLEAN]
              \cup [op : {"text"}, target : Nodes(doc), text : NewTexts, pos : {"after"}, guarded : {TRUE}]

\* _validate_document_edits_for_doc tries the edits in order on the intermediate
\* document; one it refuses rejects the batch.
ValidateEdit(e) ==
  /\ batch.pc = "validate" /\ Len(batch.edits) < MaxBatch
  /\ IF AcceptedIR(preview, e)
     THEN /\ preview' = AppliedIR(preview, e, Len(batch.edits) + 1)
          /\ batch' = [batch EXCEPT !.edits = Append(@, e)]
     ELSE /\ batch' = [batch EXCEPT !.pc = "rejected"] /\ UNCHANGED preview
  /\ UNCHANGED <<mapping, file, drift, misplaced>>

\* The whole batch is valid; so must be the output.  The bytes are read again: the file
\* may have been replaced since it was parsed.
BeginNative(req, replaced) ==
  /\ batch.pc = "validate" /\ batch.edits # <<>>
  /\ IF OutputAllowed(req)
     THEN /\ batch' = [batch EXCEPT !.pc = "native", !.path = FinalPath(req)]
          /\ IF replaced THEN \E doc \in Sources : file' = doc /\ drift' = (IF doc = file THEN 0 ELSE 1)
                         ELSE UNCHANGED <<file, drift>>
     ELSE /\ batch' = [batch EXCEPT !.pc = "rejected"] /\ UNCHANGED <<file, drift>>
  /\ UNCHANGED <<preview, mapping, misplaced>>

\* One edit on the bytes and on the copy.  HWPX cannot take a table out of the paragraph
\* it looks for it in, and raises.
ApplyNative ==
  LET n == batch.done + 1
      e == batch.edits[n]
      path == PathOf(mapping, e.target)
  IN /\ batch.pc = "native" /\ batch.done < Len(batch.edits)
     /\ UNCHANGED preview
     /\ IF ~NativeFinds(e, path) \/ ~HashAgrees(e, path)
        THEN batch' = [batch EXCEPT !.pc = "rejected"] /\ UNCHANGED <<mapping, file, drift, misplaced>>
        ELSE IF e.op = "remove_table" /\ ~Docx
        THEN batch' = [batch EXCEPT !.pc = "raised"] /\ UNCHANGED <<mapping, file, drift, misplaced>>
        ELSE /\ file' = IF Docx THEN AppliedDocx(e, path, n) ELSE AppliedHwpx(e, path, n)
             /\ mapping' = AppliedIR(mapping, e, n)
             /\ drift' = DriftAfter(path.block, file', PartsAt(e, path, n))
             /\ misplaced' = (misplaced \/ (Aligned(path.block) /\ NodeAt(e, path) # e.target))
             /\ batch' = [batch EXCEPT !.done = n]

\* Written once, after the last edit.
WriteOutput ==
  /\ batch.pc = "native" /\ batch.done = Len(batch.edits)
  /\ batch' = [batch EXCEPT !.pc = "written"]
  /\ UNCHANGED <<preview, mapping, file, drift, misplaced>>

Requests == {[path |-> p, name |-> n] : p, n \in {NoName} \cup FileNames}

BatchNext ==
  \/ \E doc \in Sources, type \in {"docx", "hwpx"} : OpenDocument(doc, type)
  \/ \E e \in Edits(preview) : ValidateEdit(e)
  \/ \E req \in Requests, replaced \in BOOLEAN : BeginNative(req, replaced)
  \/ ApplyNative \/ WriteOutput

-----------------------------------------------------------------------------
\* Through every insertion and removal of a batch, each edit of the file hits the node
\* its target names.  Not claimed from the block on in which file and copy have parted
\* (PartsAt, or a file replaced since it was parsed): there the code does miss.  After the
\* table of a DOCX file is removed, its empty paragraph in the copy stands for the paragraph
\* after the table.
EditsHitTheirTargets == ~misplaced

\* What is written is what the preview showed, block by block and run by run, up to the
\* block in which the two parted.
PreviewIsOutput ==
  batch.pc = "written" =>
    IF drift = 0 THEN file = preview ELSE SubSeq(file, 1, drift - 1) = SubSeq(preview, 1, drift - 1)

\* However the output was asked for, the source file is not overwritten and the output
\* has the suffix of its format.
SourceKept == batch.pc = "written" => batch.path # SourcePath /\ batch.path[2] = NativeSuffix
=============================================================================
