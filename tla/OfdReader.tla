----------------------------- MODULE OfdReader -----------------------------
(***************************************************************************)
(* Reading an OFD package: the handles of src/xilou_impl/xilou_view.cpp,    *)
(* COFD_Package, COFD_Document and COFD_Page of src/ofd, and ofd2pdf of     *)
(* src/xilou_impl/xilou_convert.cpp, which reads all pages of a document.   *)
(*                                                                         *)
(* A page is built from its XML file: the constructor finds its area, and  *)
(* Parse walks its layers, its templates and the annotation files of its   *)
(* ID, and puts the objects into holders.  All pages of a document share   *)
(* the COFD_Document, whose bbox_ every Area that is parsed overwrites.    *)
(*                                                                         *)
(* PageBlocks only group elements: a layer is the sequence of the elements *)
(* in it.  Coordinates are one-dimensional.                                *)
(***************************************************************************)
EXTENDS Integers, Sequences, SequencesExt

CONSTANTS
  Packages,    \* packages a client may open
  Handles,     \* page handles a viewer keeps
  AreaNames,   \* sizes of pages
  Objects,     \* page objects
  DrawParams,  \* IDs of DrawParam resources, positive
  NoArea,      \* what is no area
  MaxLoads     \* bound on the pages loaded from one document

(* A rectangle: its origin, and its origin once it is rotated.  turned says *)
(* that it is the rotated one, moved to 0; a PhysicalBox never is.         *)
Area == [name : AreaNames, off : Int, far : Int, turned : BOOLEAN]
Box == {a \in Area : ~a.turned}
DefaultArea == [name |-> "612x792", off |-> 0, far |-> 0, turned |-> FALSE]

(* Files of the package, as far as the reader looks.  node: the root has   *)
(* the Page (or PageAnnot) element.  A file without an Area, and one whose *)
(* PhysicalBox is not four numbers, has NoArea.  A hidden element is a     *)
(* path, text or image with Visible="false"; a composite is not asked.  An *)
(* annotation is shown if it has an Appearance; an outer box is a Boundary  *)
(* of the annotation itself.                                               *)
Element == [kind : {"plain", "hidden", "composite"}, objs : Seq(Objects)]
Layer == [type : {"Body", "Background", "Foreground"},
          dp : DrawParams \cup {0}, elems : Seq(Element)]
Use == [id : Int, z : {"Body", "Background", "Foreground"}]
Annot == [shown : BOOLEAN, outer : BOOLEAN, box : Int, far : Int,
          elems : Seq(Element)]
File == [node : BOOLEAN, area : Box \cup {NoArea}, rotated : BOOLEAN,
         layers : Seq(Layer), uses : Seq(Use), annots : Seq(Annot)]

(* A Document.xml: the pages with their IDs and locations, the templates,  *)
(* and the annotation files with the IDs of their pages.                   *)
IsDocument(d) ==
  /\ d.area \in Box \cup {NoArea}
  /\ d.files \in [DOMAIN d.files -> File]
  /\ d.pages \in Seq([id : Int, loc : STRING])
  /\ d.templates \in Seq([id : Int, loc : STRING])
  /\ d.annots \in Seq([page : Int, loc : STRING])

ASSUME ReaderAssumption ==
  /\ DrawParams \subseteq Nat \ {0} /\ MaxLoads \in Nat
  /\ "612x792" \in AreaNames /\ NoArea \notin Area
  /\ \A p \in Packages : \A i \in 1 .. Len(p) : IsDocument(p[i])

Slots == {"page", "bg", "fg", "bgT", "bodyT", "fgT"}

VARIABLES
  pkg,      \* the DocBodies of ofd.xml
  open,     \* which handles the client has: none, package, document
  doc,      \* the document
  docArea,  \* its bbox_
  cur,      \* the page that is parsed
  run,      \* where Parse is
  handle,   \* the handle the page is loaded for
  pages,    \* the pages the client holds
  loads,    \* pages loaded since LoadDocument
  job,      \* ofd2pdf: the page to be converted, counted from 1; 0 when idle
  pdf,      \* the pages of the PDF
  foreign   \* history: an Area of a page or template was parsed

session == <<pkg, open, doc>>
vars == <<session, docArea, cur, run, handle, pages, loads, job, pdf, foreign>>

NoPage == [index |-> 0]
NoHolder == [made |-> FALSE, rot |-> FALSE, off |-> 0, xml |-> 0, objs |-> <<>>]
Idle == [phase |-> "idle", at |-> 0, layer |-> 0, slot |-> "page",
         rest |-> <<>>, elems |-> <<>>, dp |-> 0]
NoDocument == [area |-> NoArea, files |-> <<>>, pages |-> <<>>,
               templates |-> <<>>, annots |-> <<>>]

(* std::map::insert keeps the first of two equal keys.                     *)
FirstLoc(seq, id) ==
  LET hits == {i \in 1 .. Len(seq) : seq[i].id = id}
  IN  IF hits = {} THEN "" ELSE seq[CHOOSE i \in hits : \A k \in hits : i <= k].loc

(* ReadAndCacheXml and the search for the root's element.                  *)
Found(loc) == loc \in DOMAIN doc.files /\ doc.files[loc].node

PageFile == doc.files[cur.loc]

-----------------------------------------------------------------------------
(* Mutant: an Area is parsed only once.                                    *)
AreaOfOnce(file, known) ==
  IF known # DefaultArea \/ file.area = NoArea THEN known ELSE file.area

(* COFD_Document::ParseArea.                                               *)
AreaOf(file, known) == IF file.area = NoArea THEN known ELSE file.area

Turned(a) == [a EXCEPT !.turned = TRUE, !.off = 0]

(* The constructor of COFD_Page: the area ...                              *)
PageArea(file, a) == IF file.rotated THEN Turned(a) ELSE a

(* ... and the holder of the page's own objects.                           *)
NewHolder(file, a) ==
  [NoHolder EXCEPT !.made = TRUE, !.rot = file.rotated,
                   !.off = IF file.rotated THEN 0 - a.far ELSE a.off]

(* Mutant: the layer stays where the document's area puts it.              *)
NewGroundOfDocument(i) ==
  [NoHolder EXCEPT !.made = TRUE, !.xml = i,
                   !.off = AreaOf(doc, DefaultArea).off + cur.area.off]

(* A background or foreground layer i: constructed like a page without an  *)
(* Area, then SetPageArea.                                                 *)
NewGround(i) ==
  [NoHolder EXCEPT !.made = TRUE, !.xml = i,
                   !.off = docArea.off + cur.area.off]

(* Mutant: a holder that parses a second template stays where it is.       *)
PlacedOnce(hd, a) == IF hd.objs # <<>> THEN hd ELSE [hd EXCEPT !.off = a.off]

(* ParseXXTemplate places the holder by the template's area; a rotation of  *)
(* the file that made the holder stays.                                    *)
Placed(hd, a) == [hd EXCEPT !.off = a.off]

(* ParseElement: the objects of an element.  A composite's objects are     *)
(* parsed by a page whose layer_drawparam, g, was never set.               *)
Parsed(e, hd, dp, g) ==
  [i \in 1 .. (IF e.kind = "hidden" THEN 0 ELSE Len(e.objs)) |->
     [obj |-> e.objs[i], rot |-> hd.rot, off |-> hd.off,
      dp |-> IF e.kind = "composite" THEN g ELSE dp]]

Garbage == DrawParams \cup {0}

-----------------------------------------------------------------------------
Init ==
  /\ pkg \in Packages
  /\ open = "none"
  /\ doc = NoDocument /\ docArea = DefaultArea
  /\ cur = NoPage /\ run = Idle /\ handle = "none"
  /\ pages = [h \in Handles |-> NoPage]
  /\ loads = 0 /\ job = 0 /\ pdf = <<>>
  /\ foreign = FALSE

(* xilou_OpenPackage gives a handle even for a package without documents.  *)
(* The COFD_Package has an empty PDF document of its own.                  *)
OpenPackage ==
  /\ open = "none"
  /\ open' = "package" /\ pdf' = <<>>
  /\ UNCHANGED <<pkg, doc, docArea, cur, run, handle, pages, loads, job, foreign>>

(* xilou_LoadDocument: the constructor of COFD_Document.  Nothing is loaded *)
(* from the package of a conversion once it is over.                       *)
LoadDocument(i) ==
  /\ open = "package" /\ pdf = <<>>
  /\ open' = "document"
  /\ doc' = pkg[i]
  /\ docArea' = AreaOf(pkg[i], DefaultArea)
  /\ UNCHANGED <<pkg, cur, run, handle, pages, loads, job, pdf, foreign>>

(* xilou_DropDocument, after its pages were dropped.                       *)
DropDocument ==
  /\ open = "document" /\ run = Idle /\ job = 0
  /\ \A h \in Handles : pages[h] = NoPage
  /\ open' = "package" /\ doc' = NoDocument /\ docArea' = DefaultArea
  /\ loads' = 0 /\ foreign' = FALSE
  /\ UNCHANGED <<pkg, cur, run, handle, pages, job, pdf>>

ClosePackage ==
  /\ open = "package"
  /\ open' = "none"
  /\ UNCHANGED <<pkg, doc, docArea, cur, run, handle, pages, loads, job, pdf,
                 foreign>>

(* COFD_Document::LoadPage and the constructor of the page.                *)
StartPage(n, loc) ==
  LET file == doc.files[loc]
      a == AreaOf(file, docArea)
  IN  /\ docArea' = a
      /\ foreign' = (foreign \/ file.area # NoArea)
      /\ cur' = [index |-> n, id |-> doc.pages[n].id, loc |-> loc,
                 area |-> PageArea(file, a),
                 holders |-> [s \in Slots |-> IF s = "page" THEN NewHolder(file, a)
                                              ELSE NoHolder],
                 annots |-> <<>>]
      /\ run' = [Idle EXCEPT !.phase = "layers"]

(* xilou_LoadPage for page n, counted from 1.                              *)
LoadPage(h, n) ==
  /\ open = "document" /\ run = Idle /\ job = 0
  /\ pages[h] = NoPage /\ loads < MaxLoads /\ pdf = <<>>
  /\ loads' = loads + 1
  /\ LET loc == FirstLoc(doc.pages, doc.pages[n].id)
     IN  IF Found(loc) THEN StartPage(n, loc) /\ handle' = h
         ELSE UNCHANGED <<docArea, foreign, cur, run, handle>>
  /\ UNCHANGED <<session, pages, job, pdf>>

(* One element of the layer, template layer or appearance at hand.         *)
ParseElement ==
  /\ run.elems # <<>>
  /\ \E g \in Garbage :
       cur' = IF run.slot = "annot"
              THEN [cur EXCEPT !.annots[Len(cur.annots)].objs = @ \o
                      Parsed(Head(run.elems), cur.annots[Len(cur.annots)], run.dp, g)]
              ELSE [cur EXCEPT !.holders[run.slot].objs = @ \o
                      Parsed(Head(run.elems), cur.holders[run.slot], run.dp, g)]
  /\ run' = [run EXCEPT !.elems = Tail(@)]
  /\ UNCHANGED <<session, docArea, handle, pages, loads, job, pdf, foreign>>

(* Mutant: the DrawParam of the layer before stays when a layer has none.  *)
LayerParamKept(l) == IF l.dp = 0 THEN run.dp ELSE l.dp
LayerParam(l) == l.dp

GroundSlot(type) ==
  CASE type = "Background" -> "bg" [] type = "Foreground" -> "fg"
    [] OTHER -> "page"

AtEnd(phase) == run.phase = phase /\ run.elems = <<>>

(* Parse: on to the next layer of the page.  A second background layer     *)
(* gets the holder of the first, which parses its own element again.       *)
NextLayer ==
  /\ AtEnd("layers") /\ run.layer < Len(PageFile.layers)
  /\ LET i == run.layer + 1
         l == PageFile.layers[i]
         s == GroundSlot(l.type)
         hd == IF cur.holders[s].made THEN cur.holders[s] ELSE NewGround(i)
     IN  /\ cur' = [cur EXCEPT !.holders[s] = hd]
         /\ run' = [run EXCEPT !.layer = i, !.slot = s, !.dp = LayerParam(l),
                      !.elems = IF s = "page" THEN l.elems
                                ELSE PageFile.layers[hd.xml].elems]
  /\ UNCHANGED <<session, docArea, handle, pages, loads, job, pdf, foreign>>

EndOfLayers ==
  /\ AtEnd("layers") /\ run.layer = Len(PageFile.layers)
  /\ run' = [Idle EXCEPT !.phase = "templates"]
  /\ UNCHANGED <<session, docArea, cur, handle, pages, loads, job, pdf, foreign>>

TemplateSlot(z) ==
  CASE z = "Background" -> "bgT" [] z = "Foreground" -> "fgT"
    [] OTHER -> "bodyT"

TemplateLoc(u) == FirstLoc(doc.templates, u.id)

(* Parse: on to the next template the page uses; one that cannot be read is *)
(* passed over.                                                            *)
NextTemplate ==
  /\ AtEnd("templates") /\ run.rest = <<>> /\ run.at < Len(PageFile.uses)
  /\ LET u == PageFile.uses[run.at + 1]
         s == TemplateSlot(u.z)
         file == doc.files[TemplateLoc(u)]
         a == AreaOf(file, docArea)
         hd == IF cur.holders[s].made THEN cur.holders[s] ELSE NewHolder(file, a)
     IN  IF Found(TemplateLoc(u))
         THEN /\ docArea' = a
              /\ foreign' = (foreign \/ file.area # NoArea)
              /\ cur' = [cur EXCEPT !.holders[s] = Placed(hd, a)]
              /\ run' = [run EXCEPT !.at = @ + 1, !.slot = s, !.rest = file.layers]
         ELSE /\ run' = [run EXCEPT !.at = @ + 1]
              /\ UNCHANGED <<docArea, foreign, cur>>
  /\ UNCHANGED <<session, handle, pages, loads, job, pdf>>

(* ParseXXTemplate: one layer, whatever its Type.                          *)
NextTemplateLayer ==
  /\ AtEnd("templates") /\ run.rest # <<>>
  /\ run' = [run EXCEPT !.rest = Tail(@), !.dp = LayerParam(Head(run.rest)),
                        !.elems = Head(run.rest).elems]
  /\ UNCHANGED <<session, docArea, cur, handle, pages, loads, job, pdf, foreign>>

EndOfTemplates ==
  /\ AtEnd("templates") /\ run.rest = <<>> /\ run.at = Len(PageFile.uses)
  /\ run' = [Idle EXCEPT !.phase = "annots", !.slot = "annot"]
  /\ UNCHANGED <<session, docArea, cur, handle, pages, loads, job, pdf, foreign>>

ForThisPage(a) == a.page = cur.id

(* ParsePageAnnots: on to the next annotation file of the page's ID.       *)
NextAnnotFile ==
  /\ AtEnd("annots") /\ run.rest = <<>> /\ run.at < Len(doc.annots)
  /\ LET a == doc.annots[run.at + 1]
     IN  run' = [run EXCEPT !.at = @ + 1,
                   !.rest = IF ForThisPage(a) /\ Found(a.loc)
                            THEN doc.files[a.loc].annots ELSE <<>>]
  /\ UNCHANGED <<session, docArea, cur, handle, pages, loads, job, pdf, foreign>>

(* The holder of an annotation.  The origin of an outer box has already    *)
(* been moved by the page's matrix when it is added to it.                 *)
NewAnnot(a) ==
  LET hd == cur.holders["page"]
      left == (IF hd.rot THEN a.far ELSE a.box) + hd.off
  IN  [NoHolder EXCEPT !.made = TRUE, !.rot = hd.rot,
                       !.off = IF a.outer THEN hd.off + left ELSE hd.off]

(* ParsePageAnnot: one Annot of the file; the layer_drawparam its objects   *)
(* are parsed with was never set.                                          *)
NextAnnot ==
  /\ AtEnd("annots") /\ run.rest # <<>>
  /\ LET a == Head(run.rest)
     IN  IF a.shown
         THEN /\ cur' = [cur EXCEPT !.annots = Append(@, NewAnnot(a))]
              /\ \E g \in Garbage :
                   run' = [run EXCEPT !.rest = Tail(@), !.dp = g,
                                      !.elems = a.elems]
         ELSE /\ run' = [run EXCEPT !.rest = Tail(@)]
              /\ UNCHANGED cur
  /\ UNCHANGED <<session, docArea, handle, pages, loads, job, pdf, foreign>>

AllParsed == AtEnd("annots") /\ run.rest = <<>> /\ run.at = Len(doc.annots)

(* Parse is done: xilou_LoadPage returns the page ...                      *)
PageLoaded ==
  /\ AllParsed /\ job = 0
  /\ pages' = [pages EXCEPT ![handle] = cur]
  /\ cur' = NoPage /\ run' = Idle /\ handle' = "none"
  /\ UNCHANGED <<session, docArea, loads, job, pdf, foreign>>

(* xilou_DropPage.                                                         *)
DropPage(h) ==
  /\ pages[h] # NoPage
  /\ pages' = [pages EXCEPT ![h] = NoPage]
  /\ UNCHANGED <<session, docArea, cur, run, handle, loads, job, pdf, foreign>>

-----------------------------------------------------------------------------
(* ofd2pdf, which xilou_Convert calls with the first document of a package  *)
(* of its own: pages are taken last to first.                              *)
StartConvert ==
  /\ open = "document" /\ run = Idle /\ job = 0 /\ loads = 0 /\ pdf = <<>>
  /\ doc = pkg[1] /\ Len(doc.pages) \in 1 .. MaxLoads
  /\ job' = Len(doc.pages)
  /\ UNCHANGED <<session, docArea, cur, run, handle, pages, loads, pdf, foreign>>

(* A page that cannot be loaded ends the process: it is not looked at.     *)
ConvertLoad ==
  /\ job > 0 /\ run = Idle
  /\ LET loc == FirstLoc(doc.pages, doc.pages[job].id)
     IN  Found(loc) /\ StartPage(job, loc)
  /\ loads' = loads + 1
  /\ UNCHANGED <<session, handle, pages, job, pdf>>

ConvertDies ==
  /\ job > 0 /\ run = Idle
  /\ ~Found(FirstLoc(doc.pages, doc.pages[job].id))
  /\ job' = 0 /\ open' = "none" /\ doc' = NoDocument /\ pdf' = <<>>
  /\ docArea' = DefaultArea /\ loads' = 0 /\ foreign' = FALSE
  /\ UNCHANGED <<pkg, cur, run, handle, pages>>

(* Mutant: the foreground template is moved before the page's own objects. *)
OrderSwapped == <<"bgT", "bg", "bodyT", "fgT", "page", "fg">>
(* The order in which the objects of the holders are moved.                *)
Order == <<"bgT", "bg", "bodyT", "page", "fgT", "fg">>

Moved(page) == FlattenSeq([i \in 1 .. Len(Order) |-> page.holders[Order[i]].objs])

Inserted(page) == <<page>> \o pdf

(* The new PDF page gets number 0 and the objects of the holders; the OFD   *)
(* page is deleted.                                                        *)
ConvertPage ==
  /\ AllParsed /\ job > 0
  /\ pdf' = Inserted([index |-> cur.index, area |-> cur.area, objs |-> Moved(cur)])
  /\ job' = job - 1
  /\ cur' = NoPage /\ run' = Idle
  /\ UNCHANGED <<session, docArea, handle, pages, loads, foreign>>

Next ==
  \/ OpenPackage \/ ClosePackage \/ DropDocument
  \/ \E i \in 1 .. Len(pkg) : LoadDocument(i)
  \/ \E h \in Handles : DropPage(h) \/ \E n \in 1 .. Len(doc.pages) : LoadPage(h, n)
  \/ ParseElement \/ NextLayer \/ EndOfLayers
  \/ NextTemplate \/ NextTemplateLayer \/ EndOfTemplates
  \/ NextAnnotFile \/ NextAnnot \/ PageLoaded
  \/ StartConvert \/ ConvertLoad \/ ConvertDies \/ ConvertPage

Spec == Init /\ [][Next]_vars

-----------------------------------------------------------------------------
(* What the pages must be, read off the files of the document.  A stated   *)
(* object names the DrawParams and the offsets it may have.                *)

Placing(file) == IF file.area = NoArea THEN Int ELSE {file.area.off}

ElementStates(e, dps, offs) ==
  [k \in 1 .. (IF e.kind = "hidden" THEN 0 ELSE Len(e.objs)) |->
     [obj |-> e.objs[k], offs |-> offs,
      dps |-> IF e.kind = "composite" THEN Garbage ELSE dps]]

LayerState(l, offs) ==
  FlattenSeq([j \in 1 .. Len(l.elems) |->
    ElementStates(l.elems[j], {l.dp}, offs)])

LayersState(layers, offs) ==
  FlattenSeq([i \in 1 .. Len(layers) |-> LayerState(layers[i], offs)])

(* What one layer, or one template the page uses, puts into holder s.      *)
LayerInto(file, s, i) ==
  IF GroundSlot(file.layers[i].type) = s
  THEN LayerState(file.layers[i],
                  IF s = "page" /\ ~file.rotated THEN Placing(file) ELSE Int)
  ELSE <<>>

UseInto(file, s, i) ==
  LET loc == TemplateLoc(file.uses[i])
  IN  IF TemplateSlot(file.uses[i].z) = s /\ Found(loc)
      THEN LayersState(doc.files[loc].layers, Placing(doc.files[loc]))
      ELSE <<>>

Stated(file, s) ==
  IF s \in {"page", "bg", "fg"}
  THEN FlattenSeq([i \in 1 .. Len(file.layers) |-> LayerInto(file, s, i)])
  ELSE FlattenSeq([i \in 1 .. Len(file.uses) |-> UseInto(file, s, i)])

SameObjects(objs, stated) ==
  /\ Len(objs) = Len(stated)
  /\ \A i \in 1 .. Len(objs) : objs[i].obj = stated[i].obj /\ objs[i].dp \in stated[i].dps

OwnFile(n) == doc.files[doc.pages[n].loc]

(* Documents whose pages have IDs of their own, and pages with at most one *)
(* background and one foreground layer.                                    *)
DistinctPages ==
  \A i, j \in 1 .. Len(doc.pages) : doc.pages[i].id = doc.pages[j].id => i = j
OneGround(file) ==
  \A i, j \in 1 .. Len(file.layers) :
    /\ GroundSlot(file.layers[i].type) = GroundSlot(file.layers[j].type)
    /\ GroundSlot(file.layers[i].type) # "page"
    => i = j

Held == {h \in Handles : pages[h] # NoPage}

(* Every variable has its type, and a page is parsed or held only while    *)
(* its document is open.                                                   *)
TypeOK ==
  /\ open \in {"none", "package", "document"}
  /\ docArea \in Box
  /\ run.phase \in {"idle", "layers", "templates", "annots"}
  /\ run.slot \in Slots \cup {"annot"} /\ run.dp \in Garbage
  /\ loads \in 0 .. MaxLoads /\ job \in 0 .. MaxLoads
  /\ (run # Idle \/ Held # {} \/ job > 0) => open = "document"
  /\ run.phase = "idle" <=> cur = NoPage
  /\ \A p \in {cur} \cup {pages[h] : h \in Handles} : p # NoPage =>
       /\ p.index \in 1 .. Len(doc.pages) /\ p.area \in Area
       /\ DOMAIN p.holders = Slots

(* A page that is loaded holds the visible objects of its file and of its  *)
(* templates, each once, in the order of the file, in the holder of its    *)
(* layer and with the DrawParam of its own layer: whatever other pages     *)
(* were loaded before (Parse and ParseXXTemplate).                         *)
LayersWhole ==
  DistinctPages =>
    \A h \in Held : OneGround(OwnFile(pages[h].index)) =>
      \A s \in Slots : SameObjects(pages[h].holders[s].objs,
                                   Stated(OwnFile(pages[h].index), s))

(* A page has the Area of its own file, whichever Areas were left in the   *)
(* document's bbox_ by the pages and templates before; one without has the *)
(* document's, as long as no other Area was parsed.                        *)
AreaOfThePage ==
  DistinctPages => \A h \in Held :
    LET file == OwnFile(pages[h].index)
        area == IF file.area = NoArea THEN AreaOf(doc, DefaultArea) ELSE file.area
    IN  file.area # NoArea \/ ~foreign =>
          /\ pages[h].area.name = area.name
          /\ pages[h].area.turned = file.rotated

(* The Area of a file places the objects of the file: those of an unrotated *)
(* page and those of each template, though templates of one ZOrder share a *)
(* holder and all share the document's bbox_.                              *)
ObjectsPlaced ==
  DistinctPages => \A h \in Held :
    LET file == OwnFile(pages[h].index)
    IN  OneGround(file) => \A s \in Slots : \A i \in 1 .. Len(Stated(file, s)) :
          pages[h].holders[s].objs[i].off \in Stated(file, s)[i].offs

(* The background and the foreground of an unrotated page lie on its own   *)
(* objects if its area starts at 0, even where the area is not its own but  *)
(* the one another page left behind (SetPageArea adds the page's origin to  *)
(* one the constructor took from the document).                            *)
GroundsAligned ==
  \A h \in Held : \A s \in {"bg", "fg"} :
    LET page == pages[h].holders["page"]
    IN  pages[h].holders[s].made /\ ~page.rot /\ page.off = 0
          => pages[h].holders[s].off = 0

(* The annotations of a file that are there to be seen, and their objects. *)
ShownIn(annots) ==
  FlattenSeq([i \in 1 .. Len(annots) |->
    IF annots[i].shown THEN <<annots[i]>> ELSE <<>>])

ShownObjects(elems) ==
  FlattenSeq([j \in 1 .. Len(elems) |->
    IF elems[j].kind = "hidden" THEN <<>> ELSE elems[j].objs])

(* A page has the annotations of the files of its own ID that are there    *)
(* to be seen, in order and with their objects; one without an outer box   *)
(* is placed like the page (ParsePageAnnot).                               *)
AnnotsOfThePage ==
  \A h \in Held :
    LET page == pages[h]
        shown == FlattenSeq([i \in 1 .. Len(doc.annots) |->
                   IF doc.annots[i].page = page.id /\ Found(doc.annots[i].loc)
                   THEN ShownIn(doc.files[doc.annots[i].loc].annots) ELSE <<>>])
    IN  /\ Len(page.annots) = Len(shown)
        /\ \A i \in 1 .. Len(shown) :
             /\ [k \in 1 .. Len(page.annots[i].objs) |-> page.annots[i].objs[k].obj]
                  = ShownObjects(shown[i].elems)
             /\ ~shown[i].outer => page.annots[i].off = page.holders["page"].off

(* A page that is loaded has everything its files put on it: layers,        *)
(* templates and annotations.                                              *)
PagesWhole == LayersWhole /\ AnnotsOfThePage

(* The order in which RenderPageImpl draws the holders of a page, without   *)
(* its annotations and signatures.                                         *)
ScreenOrder == <<"bgT", "bg", "bodyT", "page", "fgT", "fg">>

(* A finished PDF has the pages of the document in its order, though they   *)
(* are converted last to first, and on each page the visible objects of    *)
(* its file in the order in which the screen shows them (ofd2pdf).         *)
PdfLikeScreen ==
  open = "document" /\ job = 0 /\ pdf # <<>> =>
    /\ Len(pdf) = Len(doc.pages)
    /\ \A i \in 1 .. Len(pdf) :
         /\ pdf[i].index = i
         /\ DistinctPages /\ OneGround(OwnFile(i)) =>
              SameObjects(pdf[i].objs,
                          FlattenSeq([k \in 1 .. Len(ScreenOrder) |->
                                        Stated(OwnFile(i), ScreenOrder[k])]))

=============================================================================
