------------------------------ MODULE DocText -------------------------------
(***************************************************************************)
(* Replacing the text of a paragraph that is made of several formatted     *)
(* runs (document_processor/edit_engine.py, _replace_paragraph_text and    *)
(* what it calls).  The new text is aligned with the old one by            *)
(* difflib; every block that differs is written into the runs it falls     *)
(* in, so that formatting survives around the change.                      *)
(*                                                                         *)
(* difflib is external: any alignment whose equal blocks are equal may be  *)
(* what it returns.                                                        *)
(***************************************************************************)
EXTENDS Integers, Sequences, SequencesExt

CONSTANTS Chars, MaxRuns, MaxText, MaxNew   \* MaxText bounds the old text, MaxNew the new one

VARIABLES
  run,      \* run[k]: the text of run k of the paragraph
  textJob,  \* [pc, runs, new, ops]: the runs as found, the text wanted, the alignment
  blocks,   \* the differing blocks still to write, first one first
  delta     \* delta[k]: how much run k has grown so far

textVars == <<run, textJob, blocks, delta>>

Texts == UNION {[1 .. n -> Chars] : n \in 0 .. MaxText}
Sub(s, i, j) == SubSeq(s, i + 1, IF j < Len(s) THEN j ELSE Len(s))   \* Python's s[i:j], 0 <= i
Concat(texts) == FlattenSeq(texts)

-----------------------------------------------------------------------------
\* _build_run_spans: where each run lies in the text.
RunSpans(runs) ==
  [k \in DOMAIN runs |->
     LET start == Len(Concat(SubSeq(runs, 1, k - 1))) IN
     [run |-> k, start |-> start, end |-> start + Len(runs[k]), full |-> start]]

\* _clip_run_spans: the parts of the spans a block i1..i2 covers.  An insertion
\* between two runs goes to the one before it.
Covers(span, i1, i2) == IF i1 = i2 THEN span.start <= i2 /\ i1 <= span.end
                                   ELSE i1 < span.end /\ span.start < i2

ClipRunSpans(spans, i1, i2) ==
  LET hit == SelectSeq(spans, LAMBDA span : Covers(span, i1, i2))
      before == SelectSeq(hit, LAMBDA span : span.end = i1)
  IN IF i1 = i2 THEN IF Len(hit) > 1 /\ before # <<>> THEN <<Head(before)>> ELSE hit
     ELSE [k \in DOMAIN hit |-> [hit[k] EXCEPT !.start = IF @ < i1 THEN i1 ELSE @,
                                               !.end = IF @ > i2 THEN i2 ELSE @]]

\* SequenceMatcher.get_opcodes without the equal ones: one or two differing blocks,
\* everything around and between them equal.
Block(i1, i2, j1, j2) == [i1 |-> i1, i2 |-> i2, j1 |-> j1, j2 |-> j2]
Alignments(a, b) ==
  LET m == Len(a)
      n == Len(b)
      outer == {Block(p, m - q, p, n - q) :     \* p characters equal before, q after
                  <<p, q>> \in {x \in (0 .. MaxText) \X (0 .. MaxText) :
                                 /\ x[1] + x[2] <= m /\ x[1] + x[2] <= n
                                 /\ Sub(a, 0, x[1]) = Sub(b, 0, x[1])
                                 /\ Sub(a, m - x[2], m) = Sub(b, n - x[2], n)}}
      split(o) == {<<Block(o.i1, i, o.j1, j), Block(i + k, o.i2, j + k, o.j2)>> :
                     <<i, j, k>> \in {x \in (o.i1 .. o.i2) \X (o.j1 .. o.j2) \X (1 .. MaxText) :
                                      /\ x[1] + x[3] <= o.i2 /\ x[2] + x[3] <= o.j2
                                      /\ x[1] + x[2] > o.i1 + o.j1
                                      /\ x[1] + x[2] + 2 * x[3] < o.i2 + o.j2
                                      /\ Sub(a, x[1], x[1] + x[3]) = Sub(b, x[2], x[2] + x[3])}}
  IN IF a = b THEN {<<>>} ELSE {<<o>> : o \in outer} \cup UNION {split(o) : o \in outer}

\* A block as work: the spans it may fall in, the text it stands for, and the depth of
\* the call that found it.
Work(o, base, new, spans, depth) ==
  [i1 |-> base + o.i1, i2 |-> base + o.i2, text |-> Sub(new, o.j1, o.j2), spans |-> spans, depth |-> depth]

-----------------------------------------------------------------------------
TextInit ==
  /\ run = <<>> /\ textJob = [pc |-> "idle", runs |-> <<>>, new |-> <<>>, ops |-> <<>>]
  /\ blocks = <<>> /\ delta = <<>>

\* _replace_paragraph_text: a single run takes the whole text.
StartText(runs, new) ==
  /\ textJob.pc = "idle"
  /\ delta' = [k \in DOMAIN runs |-> 0]
  /\ \/ /\ Len(runs) = 1 /\ run' = <<new>> /\ blocks' = <<>>
        /\ textJob' = [pc |-> "write", runs |-> runs, new |-> new, ops |-> <<>>]
     \/ /\ Len(runs) # 1 /\ run' = runs
        /\ \E ops \in Alignments(Concat(runs), new) :
             /\ textJob' = [pc |-> "write", runs |-> runs, new |-> new, ops |-> ops]
             /\ blocks' = [k \in DOMAIN ops |-> Work(ops[k], 0, new, RunSpans(runs), 0)]

\* _apply_to_run_with_offsets: a range of a run, moved by what was written before.
Written(texts, grown, k, new, from, to) ==
  [texts EXCEPT ![k] = Sub(@, 0, from + grown[k]) \o new \o Sub(@, to + grown[k], Len(@))]
Grown(grown, k, new, from, to) == [grown EXCEPT ![k] = @ + Len(new) - (to - from)]

\* A block inside one run.
WriteOne ==
  LET w == Head(blocks)
      hit == ClipRunSpans(w.spans, w.i1, w.i2)
      s == hit[1]
  IN /\ textJob.pc = "write" /\ blocks # <<>> /\ Len(hit) = 1
     /\ run' = Written(run, delta, s.run, w.text, w.i1 - s.full, w.i2 - s.full)
     /\ delta' = Grown(delta, s.run, w.text, w.i1 - s.full, w.i2 - s.full)
     /\ blocks' = Tail(blocks)
     /\ UNCHANGED textJob

\* A block over several runs is aligned once more (_apply_multi_run, depth 0).
Realign ==
  LET w == Head(blocks)
      hit == ClipRunSpans(w.spans, w.i1, w.i2)
      old == Sub(Concat(textJob.runs), w.i1, w.i2)
  IN /\ textJob.pc = "write" /\ blocks # <<>> /\ Len(hit) > 1 /\ w.depth = 0
     /\ \E ops \in Alignments(old, w.text) :
          blocks' = [k \in DOMAIN ops |-> Work(ops[k], w.i1, w.text, hit, 1)] \o Tail(blocks)
     /\ UNCHANGED <<run, textJob, delta>>

\* Still over several runs (depth 1): the first takes the text, the others lose theirs.
FirstTakesAll ==
  LET w == Head(blocks)
      hit == ClipRunSpans(w.spans, w.i1, w.i2)
      put(acc, s) == LET new == IF s = hit[1] THEN w.text ELSE <<>> IN
        [texts |-> Written(acc.texts, acc.grown, s.run, new, s.start - s.full, s.end - s.full),
         grown |-> Grown(acc.grown, s.run, new, s.start - s.full, s.end - s.full)]
      all == FoldLeft(put, [texts |-> run, grown |-> delta], hit)
  IN /\ textJob.pc = "write" /\ blocks # <<>> /\ Len(hit) > 1 /\ w.depth = 1
     /\ run' = all.texts /\ delta' = all.grown
     /\ blocks' = Tail(blocks)
     /\ UNCHANGED textJob

\* A block that falls in no run is passed over.
PassOver ==
  /\ textJob.pc = "write" /\ blocks # <<>>
  /\ ClipRunSpans(Head(blocks).spans, Head(blocks).i1, Head(blocks).i2) = <<>>
  /\ blocks' = Tail(blocks)
  /\ UNCHANGED <<run, textJob, delta>>

EndText ==
  /\ textJob.pc = "write" /\ blocks = <<>>
  /\ textJob' = [textJob EXCEPT !.pc = "done"]
  /\ UNCHANGED <<run, blocks, delta>>

\* The paragraphs: a text cut at any places, so that some runs are empty.
Cuts(t, n) == {c \in [0 .. n -> 0 .. Len(t)] : c[0] = 0 /\ c[n] = Len(t) /\ \A k \in 1 .. n : c[k - 1] <= c[k]}
Paragraphs == {<<>>} \cup UNION {{[k \in 1 .. n |-> Sub(t, c[k - 1], c[k])] : c \in Cuts(t, n)} :
                                 t \in Texts, n \in 1 .. MaxRuns}

TextNext ==
  \/ \E runs \in Paragraphs, new \in {t \in Texts : Len(t) <= MaxNew} : StartText(runs, new)
  \/ WriteOne \/ Realign \/ FirstTakesAll \/ PassOver \/ EndText

-----------------------------------------------------------------------------
\* A paragraph that has runs reads exactly the new text when the edit is done, however
\* the texts were aligned and the blocks fell across its runs.
TextReplaced == textJob.pc = "done" /\ run # <<>> => Concat(run) = textJob.new

\* A run that no differing block reaches keeps its text and so its formatting: a change
\* never spreads to its neighbours.
FormattingKept ==
  textJob.pc = "done" /\ Len(run) > 1 =>
    LET span == RunSpans(textJob.runs) IN
    \A k \in DOMAIN run :
      \/ run[k] = textJob.runs[k]
      \/ \E o \in Range(textJob.ops) :
           IF o.i1 = o.i2 THEN o.i1 \in span[k].start .. span[k].end
                          ELSE o.i1 < span[k].end /\ span[k].start < o.i2

=============================================================================
