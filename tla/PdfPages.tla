------------------------------ MODULE PdfPages ------------------------------
(***************************************************************************)
(* Reading a PDF: every page is probed and triaged, the structured ones of *)
(* the selection are parsed by the OpenDataLoader CLI (external), every    *)
(* page of the selection is listed with what became of it, and images that *)
(* are too coarse are cut anew from the page.  Scan-like pages are         *)
(* rendered whole by a second pass over the same file.                     *)
(*                                                                         *)
(* A page counts its characters by kind; its objects have boxes in points. *)
(* Ratios are compared as integers.                                        *)
(***************************************************************************)
EXTENDS Integers, Sequences, FiniteSets, SequencesExt, FiniteSetsExt

CONSTANTS
  Pdfs,        \* files, each a sequence of pages
  Selections,  \* values of the "pages" option
  OdlOutcomes, \* what the CLI may do: "ok" or a failure
  Scale        \* pixels of a rendered point

VARIABLES
  pdf, option,   \* the file and the option
  pc, fault,     \* the step of the parse, and how it failed
  profile,       \* probe_pdf: one profile per page
  structured,    \* pages handed to the CLI
  doc,           \* pages listed and images of the document
  todo,          \* images whose resolution is still to be looked at
  rendered       \* pages rendered as scans

vars == <<pdf, option, pc, fault, profile, structured, doc, todo, rendered>>

Pages == 1 .. Len(pdf)
NoDoc == [pages |-> <<>>, images |-> <<>>]

------------------------------------------------------------------------------
(* Probe. *)

NonSpace(page) == page.normal + page.odd + page.fffd
\* A ratio of two counts in percent; of nothing it is 0.
AtLeast(n, of, percent) == of > 0 /\ 100 * n >= percent * of
AtMost(n, of, percent) == 100 * n <= percent * of

CharCount(page) == NonSpace(page) + page.inner
ReplacementBreaks(page) == page.fffd >= 8 /\ AtLeast(page.fffd, NonSpace(page), 30)
TextReadable(page) ==
  /\ AtLeast(page.normal, NonSpace(page), 50)
  /\ CharCount(page) > 20
  /\ ~ReplacementBreaks(page)

Side(a, b) == IF b > a THEN b - a ELSE 0
Area(box) == Side(box[1], box[3]) * Side(box[2], box[4])
Union(a, b) == <<Min({a[1], b[1]}), Min({a[2], b[2]}), Max({a[3], b[3]}), Max({a[4], b[4]})>>
\* The bounds of what has an area: text first, then the page's objects.
ContentArea(page) ==
  LET boxes == SelectSeq(page.texts \o [i \in DOMAIN page.objs |-> page.objs[i].box],
                         LAMBDA b : Area(b) > 0)
  IN IF boxes = <<>> THEN page.w * page.h
     ELSE Max({Area(FoldLeft(Union, boxes[1], boxes)), 1})

Objs(page, type) == SelectSeq(page.objs, LAMBDA o : o.type = type)
ImageArea(page) == FoldLeft(LAMBDA s, o : s + Area(o.box), 0, Objs(page, "image"))
PathCount(page) == FoldLeft(LAMBDA s, o : s + o.n, 0, Objs(page, "path"))

\* _probe_single_page.
Profile(page) ==
  [chars |-> CharCount(page), readable |-> TextReadable(page),
   normal |-> page.normal, fffd |-> page.fffd, nonspace |-> NonSpace(page),
   paths |-> PathCount(page),
   image |-> ImageArea(page), area |-> page.w * page.h, content |-> ContentArea(page),
   w |-> page.w, h |-> page.h]

\* decide_page.
ImagesFill(p) == AtLeast(p.image, p.area, 95) \/ AtLeast(p.image, p.content, 90)
VectorScan(p) ==
  p.chars = 0 /\ ~p.readable /\ ~AtLeast(p.image, p.area, 20) /\ p.paths > 100
ScanLike(p) ==
  \/ ImagesFill(p)
  \/ p.fffd >= 8 /\ AtLeast(p.fffd, p.nonspace, 30)
  \/ p.chars >= 50 /\ AtMost(p.normal, p.nonspace, 10)
  \/ VectorScan(p)

------------------------------------------------------------------------------
(* The selection. *)

\* _parse_pages_option, after the validator of the option: a list of pages, or
\* a text of pages and ranges.
PagesOf(opt) == UNION {opt.parts[i][1] .. opt.parts[i][2] : i \in DOMAIN opt.parts}
BadOption(opt) ==
  \/ opt.kind = "list" /\ \E i \in DOMAIN opt.parts : opt.parts[i][1] < 1
  \/ opt.kind = "text" /\ opt.parts = <<>>
BadRange(opt) == \E i \in DOMAIN opt.parts : opt.parts[i][1] > opt.parts[i][2]
OutOfRange(opt) == opt.kind # "all" /\ ~(PagesOf(opt) \subseteq Pages)
Selected(opt) == IF opt.kind = "all" THEN Pages ELSE PagesOf(opt)

StructuredPages == {p \in Pages : ~ScanLike(profile[p]) /\ p \in Selected(option)}

------------------------------------------------------------------------------
(* The document. *)

\* What the CLI reports of the pages it was given: every page's number, and
\* the images, which are shown at the size of their box.
OdlImages ==
  LET on(p) == LET o == Objs(pdf[p], "image")
               IN [i \in DOMAIN o |-> [page |-> p, box |-> o[i].box, px |-> o[i].px]]
  IN FlattenSeq([p \in 1 .. Len(pdf) |-> IF p \in structured THEN on(p) ELSE <<>>])
OdlPages == IF structured = {} THEN <<>> ELSE [p \in 1 .. Len(pdf) |-> p]

\* _apply_probe_page_metadata: pages the CLI did not report are added, and
\* selected ones say whether they were parsed; then the selection is kept.
ListedPages ==
  LET page(p) == [number |-> p, w |-> profile[p].w, h |-> profile[p].h,
                  status |-> IF p \notin Selected(option) THEN "none"
                             ELSE IF ScanLike(profile[p]) THEN "skipped" ELSE "parsed"]
      known == OdlPages \o SelectSeq([p \in 1 .. Len(pdf) |-> p], LAMBDA p : ~Contains(OdlPages, p))
      all == [i \in DOMAIN known |-> page(known[i])]
  IN SelectSeq(SortSeq(all, LAMBDA a, b : a.number < b.number),
               LAMBDA a : a.number \in Selected(option))

------------------------------------------------------------------------------
(* Images that are too coarse. *)

Width(box) == Side(box[1], box[3])
Height(box) == Side(box[2], box[4])
\* _asset_px_per_pt below 1.1 pixels a point, on a known size.
TooCoarse(image) ==
  /\ Width(image.box) > 0 /\ Height(image.box) > 0
  /\ image.px[1] > 0 /\ image.px[2] > 0
  /\ 10 * image.px[1] < 11 * Width(image.box) \/ 10 * image.px[2] < 11 * Height(image.box)

Clamp(v, upper) == Max({0, Min({v, upper})})
\* _bbox_to_pixel_bounds: left, right, top, bottom, from the top of the page.
PixelBounds(box, w, h) ==
  <<Clamp(box[1] * Scale, w * Scale - 1), Clamp(box[3] * Scale, w * Scale),
    Clamp((h - box[4]) * Scale, h * Scale - 1), Clamp((h - box[2]) * Scale, h * Scale)>>

\* _crop_bbox_to_png_bytes: the cut, when it is not empty.
Crop(image, page) ==
  LET b == PixelBounds(image.box, page.w, page.h)
  IN IF b[2] <= b[1] \/ b[4] <= b[3] THEN {} ELSE {b}

\* pixel_bbox_to_doc_bbox: pixels of a rendered page back to points.
DocBox(b, h) == <<b[1] \div Scale, h - b[4] \div Scale, b[2] \div Scale, h - b[3] \div Scale>>

------------------------------------------------------------------------------
(* Steps. *)

Fail(why) == pc' = "failed" /\ fault' = why

\* parse_pdf_to_doc_ir: the configuration is validated, then the file probed.
Configure ==
  /\ pc = "start"
  /\ \/ BadOption(option) /\ Fail("option")
     \/ ~BadOption(option) /\ pc' = "probe" /\ UNCHANGED fault
  /\ UNCHANGED <<pdf, option, profile, structured, doc, todo, rendered>>

Probe ==
  /\ pc = "probe"
  /\ \/ Fail("probe") /\ UNCHANGED profile
     \/ /\ profile' = [p \in Pages |-> Profile(pdf[p])]
        /\ pc' = "select" /\ UNCHANGED fault
  /\ UNCHANGED <<pdf, option, structured, doc, todo, rendered>>

Select ==
  /\ pc = "select"
  /\ \/ (BadRange(option) \/ OutOfRange(option)) /\ Fail("pages") /\ UNCHANGED structured
     \/ /\ ~BadRange(option) /\ ~OutOfRange(option)
        /\ structured' = StructuredPages
        /\ pc' = (IF StructuredPages = {} THEN "list" ELSE "odl")
        /\ UNCHANGED fault
  /\ UNCHANGED <<pdf, option, profile, doc, todo, rendered>>

\* run_odl_json: the CLI, and the output it must leave.
RunOdl ==
  /\ pc = "odl"
  /\ \E outcome \in OdlOutcomes :
       \/ outcome # "ok" /\ Fail(outcome) /\ UNCHANGED doc
       \/ outcome = "ok" /\ pc' = "list" /\ doc' = [doc EXCEPT !.images = OdlImages] /\ UNCHANGED fault
  /\ UNCHANGED <<pdf, option, profile, structured, todo, rendered>>

ListPages ==
  /\ pc = "list"
  /\ doc' = [doc EXCEPT !.pages = ListedPages]
  /\ todo' = {i \in DOMAIN doc.images : TooCoarse(doc.images[i])}
  /\ pc' = "images"
  /\ UNCHANGED <<pdf, option, fault, profile, structured, rendered>>

\* One coarse image of the lowest page left; the page must be listed.
ReplaceImage ==
  /\ pc = "images" /\ todo # {}
  /\ LET lowest == Min({doc.images[i].page : i \in todo})
         i == Min({i \in todo : doc.images[i].page = lowest})
         at == {k \in DOMAIN doc.pages : doc.pages[k].number = lowest}
         cuts == UNION {Crop(doc.images[i], doc.pages[k]) : k \in at}
     IN /\ todo' = todo \ {i}
        /\ \/ cuts = {} /\ UNCHANGED doc
           \/ \E b \in cuts, k \in at :
                doc' = [doc EXCEPT !.images[i].px = <<b[2] - b[1], b[4] - b[3]>>,
                                   !.images[i].box = DocBox(b, doc.pages[k].h)]
  /\ UNCHANGED <<pdf, option, pc, fault, profile, structured, rendered>>

Finish ==
  /\ pc = "images" /\ todo = {}
  /\ pc' = "parsed"
  /\ UNCHANGED <<pdf, option, fault, profile, structured, doc, todo, rendered>>

\* render_scan_like_pdf_pages: a pass of its own over the file.
RenderScans ==
  /\ pc = "parsed"
  /\ rendered' = {p \in Pages : ScanLike(Profile(pdf[p]))}
  /\ pc' = "done"
  /\ UNCHANGED <<pdf, option, fault, profile, structured, doc, todo>>

Init ==
  /\ pdf \in Pdfs /\ option \in Selections
  /\ pc = "start" /\ fault = "none"
  /\ profile = <<>> /\ structured = {} /\ doc = NoDoc /\ todo = {} /\ rendered = {}

Next == Configure \/ Probe \/ Select \/ RunOdl \/ ListPages \/ ReplaceImage \/ Finish \/ RenderScans

Spec == Init /\ [][Next]_vars

------------------------------------------------------------------------------
(* Properties. *)

Wanted == Selected(option)
PageSet(status) == {doc.pages[i].number : i \in {i \in DOMAIN doc.pages : doc.pages[i].status = status}}

\* Every page asked for is accounted for once and in order: its content was
\* parsed, or it is marked skipped and the scan pass renders it; nothing of a
\* page that was not asked for is in the document.
PagesAccounted ==
  pc = "done" =>
    /\ [i \in DOMAIN doc.pages |-> doc.pages[i].number] = SetToSortSeq(Wanted, <)
    /\ PageSet("parsed") = structured
    /\ PageSet("skipped") = rendered \cap Wanted
    /\ {doc.images[i].page : i \in DOMAIN doc.images} \subseteq PageSet("parsed")

\* A page with a readable text layer is parsed unless images all but fill it:
\* a few broken characters, or many drawn lines, never cost its text.
ReadablePagesParsed ==
  pc = "done" => \A p \in Wanted :
    profile[p].readable /\ ~ImagesFill(profile[p]) => p \in PageSet("parsed")

\* An image that lies on its page is sharp in the end, and a new cut shows
\* exactly what the old image showed.
ImagesSharp ==
  pc = "done" => LET before == OdlImages IN
    \A i \in DOMAIN before :
      LET image == doc.images[i]  page == pdf[image.page]  old == before[i].box IN
      (old[1] >= 0 /\ old[2] >= 0 /\ old[3] <= page.w /\ old[4] <= page.h) =>
        ~TooCoarse(image) /\ (image.px # before[i].px => image.box = old)

==============================================================================
