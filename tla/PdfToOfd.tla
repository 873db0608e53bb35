------------------------------ MODULE PdfToOfd ------------------------------
(***************************************************************************)
(* Converting a PDF to an OFD package: pdf2ofd of src/xilou_impl/           *)
(* xilou_pdfconvert.cpp, the objects it converts (Cxml_textobj,             *)
(* Cxml_imageobj, Cxml_pathobj), and the writer behind them: Cxml_package,  *)
(* Cxml_Document, Cxml_page and Cxml_Res.                                  *)
(*                                                                         *)
(* The writer builds several XML files side by side (one per page and one   *)
(* for its annotations, PublicRes.xml, Annotations.xml, Document.xml and    *)
(* OFD.xml) that name each other's elements by IDs from one counter.        *)
(* Images are written to the archive while pages are converted, the rest   *)
(* by save().  Every write may fail.                                       *)
(*                                                                         *)
(* A form is the sequence of the objects in it: page_object_convert descends *)
(* into it and appends to the same page.                                   *)
(***************************************************************************)
EXTENDS Integers, Sequences, Bags

CONSTANTS
  Docs,      \* the PDF documents pdf2ofd may be given
  Fonts,     \* fonts of the PDF
  FontName,  \* the base and family name of a font
  Embedded,  \* the fonts with a font file in the PDF
  Addrs,     \* addresses a CPDF_Font may be allocated at
  FirstID    \* m_id of a new package

NoID == 0
NoDocument == [max |-> NoID, pages |-> <<>>, res |-> FALSE, annots |-> FALSE]

PdfObject == [kind : {"path", "text", "image", "noimage", "badimage", "shading"},
              font : Fonts]
PdfAnnot == [form : BOOLEAN, objs : Seq(PdfObject)]
PdfPage == [loads : BOOLEAN, objs : Seq(PdfObject), annots : Seq(PdfAnnot)]
Document == [valid : BOOLEAN, pages : Seq(PdfPage)]

ASSUME DocsAssumption == Docs \subseteq Document
ASSUME WriterAssumption == FirstID \in Nat /\ Embedded \subseteq Fonts

VARIABLES
  pdf,      \* the document
  pc,       \* where pdf2ofd is
  page,     \* the loop variable i, counted from 1
  part,     \* 0 for the page's own content, else the annotation
  item,     \* the next object of the part
  live,     \* the fonts PDFium holds, and where
  nextId,   \* m_id
  nodes,    \* elements of the XML trees: ID, kind, origin in the PDF, the ID
            \* they refer to and the font they stand for
  hasRes,   \* m_res holds the PublicRes
  fontRes,  \* m_fontRes: addresses of fonts and the IDs of their nodes
  pages,    \* m_pages: the PDF page and its converted annotations
  saved,    \* page_index of save()
  docPages, \* the Page nodes of the Document tree
  annots,   \* the Page nodes of the Annotations tree
  open,     \* zip_handler_ is not null
  entries,  \* the entries written to the archive, with their copies
  docXml,   \* Document.xml as written
  resXml,   \* PublicRes.xml as written
  file,     \* the entries a reader of the finished file finds
  result,   \* what pdf2ofd returns
  failed,   \* history: an open or a write failed
  moved     \* history: an address m_fontRes knows now holds another font

cursor == <<page, part, item>>
tree == <<nodes, hasRes, fontRes, docPages, annots>>
disk == <<docXml, resXml, file>>
vars == <<pdf, pc, cursor, live, nextId, tree, pages, saved, open, entries,
          disk, result, failed, moved>>

Kinds == {"path", "text", "image", "noimage", "font", "media", "layer", "page",
          "annot"}
NoFont == "none"
Node(id, kind, at, ref, font) ==
  [id |-> id, kind |-> kind, at |-> at, ref |-> ref, font |-> font]

PdfPages == pdf.pages
Annots == PdfPages[page].annots
Objs == CASE part = 0 -> PdfPages[page].objs
          [] part > 0 /\ Annots[part].form -> Annots[part].objs
          [] OTHER -> <<>>
Obj == Objs[item]

FontNodes == {n \in nodes : n.kind = "font"}

-----------------------------------------------------------------------------
(* COFD_ZipEntry::WriteBinary: a failing write leaves no entry.            *)
Write(name, ok) ==
  /\ ok => open
  /\ entries' = IF ok THEN entries (+) SetToBag({name}) ELSE entries
  /\ failed' = (failed \/ ~ok)

Init ==
  /\ pdf \in Docs
  /\ pc = "start"
  /\ page = 1 /\ part = 0 /\ item = 1
  /\ live = <<>>
  /\ nextId = FirstID
  /\ nodes = {} /\ hasRes = FALSE /\ fontRes = <<>>
  /\ pages = <<>> /\ saved = 0
  /\ docPages = <<>> /\ annots = <<>>
  /\ open = FALSE /\ entries = EmptyBag
  /\ docXml = NoDocument /\ resXml = {} /\ file = {}
  /\ result = "none"
  /\ failed = FALSE /\ moved = FALSE

(* pdf2ofd without a document.                                             *)
Refuse ==
  /\ pc = "start" /\ ~pdf.valid
  /\ pc' = "end" /\ result' = "false"
  /\ UNCHANGED <<pdf, cursor, live, nextId, tree, pages, saved, open, entries,
                 disk, failed, moved>>

(* setpath: the archive is opened for writing; nobody looks whether it is. *)
SetPath ==
  /\ pc = "start" /\ pdf.valid
  /\ pc' = "page"
  /\ open' \in BOOLEAN
  /\ failed' = ~open'
  /\ UNCHANGED <<pdf, cursor, live, nextId, tree, pages, saved, entries, disk,
                 result, moved>>

(* Mutant: the loop ends at a page that cannot be loaded.                  *)
SkipPageEnds ==
  /\ pc = "page" /\ page <= Len(PdfPages)
  /\ ~PdfPages[page].loads
  /\ page' = Len(PdfPages) + 1
  /\ UNCHANGED <<pdf, pc, part, item, live, nextId, tree, pages, saved, open,
                 entries, disk, result, failed, moved>>

(* FPDF_LoadPage fails: the page is left out.                              *)
SkipPage ==
  /\ pc = "page" /\ page <= Len(PdfPages)
  /\ ~PdfPages[page].loads
  /\ page' = page + 1
  /\ UNCHANGED <<pdf, pc, part, item, live, nextId, tree, pages, saved, open,
                 entries, disk, result, failed, moved>>

LoadPage ==
  /\ pc = "page" /\ page <= Len(PdfPages)
  /\ PdfPages[page].loads
  /\ pc' = "object" /\ part' = 0 /\ item' = 1
  /\ pages' = Append(pages, [src |-> page, annots |-> <<>>])
  /\ UNCHANGED <<pdf, page, live, nextId, tree, saved, open, entries, disk,
                 result, failed, moved>>

AtObject(kinds) ==
  /\ pc = "object" /\ item <= Len(Objs)
  /\ Obj.kind \in kinds

(* A path, and an image no encoder makes a file of, become elements        *)
(* without an ID.                                                          *)
ConvertPlain ==
  /\ AtObject({"path", "noimage"})
  /\ nodes' = nodes \cup {Node(NoID, Obj.kind, cursor, NoID, NoFont)}
  /\ item' = item + 1
  /\ UNCHANGED <<pdf, pc, page, part, live, nextId, hasRes, fontRes, docPages,
                 annots, pages, saved, open, entries, disk, result, failed,
                 moved>>

(* An image that cannot be decoded: the bitmap GetIndependentBitmap did    *)
(* not make is used, and the process ends.                                 *)
ConvertDies ==
  /\ AtObject({"badimage"})
  /\ pc' = "dead"
  /\ UNCHANGED <<pdf, cursor, live, nextId, tree, pages, saved, open, entries,
                 disk, result, failed, moved>>

SkipShading ==
  /\ AtObject({"shading"})
  /\ item' = item + 1
  /\ UNCHANGED <<pdf, pc, page, part, live, nextId, tree, pages, saved, open,
                 entries, disk, result, failed, moved>>

(* Mutant: any font node will do.                                          *)
SameFontAny(f) == FontNodes

(* The nodes Cxml_Res::getFontID matches a font with.                      *)
SameFont(f) == {n \in FontNodes : FontName[n.font] = FontName[f]}

(* Where PDFium holds a font: fonts of closed pages may be gone, and their  *)
(* addresses are free again.                                               *)
AddrsOf(f) ==
  IF f \in DOMAIN live THEN {live[f]}
  ELSE Addrs \ {live[g] : g \in DOMAIN live}

(* Cxml_Res::getFontID for the font f at address a: n is the node.         *)
KnownFont(a, n) == a \in DOMAIN fontRes /\ n \in FontNodes /\ n.id = fontRes[a]
NamedFont(f, a, n) == a \notin DOMAIN fontRes /\ n \in SameFont(f)
NewFont(f, a) == a \notin DOMAIN fontRes /\ SameFont(f) = {}

With(fun, x, y) == [z \in DOMAIN fun \cup {x} |-> IF z = x THEN y ELSE fun[z]]

(* Cxml_textobj::convert.                                                  *)
ConvertText ==
  /\ AtObject({"text"})
  /\ \E a \in AddrsOf(Obj.font) :
       /\ live' = With(live, Obj.font, a)
       /\ \/ \E n \in nodes :
               /\ KnownFont(a, n) \/ NamedFont(Obj.font, a, n)
               /\ nextId' = nextId + 1
               /\ nodes' = nodes \cup {Node(nextId', "text", cursor, n.id, Obj.font)}
               /\ moved' = (moved \/ (KnownFont(a, n) /\ n.font # Obj.font))
               /\ UNCHANGED fontRes
          \/ /\ NewFont(Obj.font, a)
             /\ nextId' = nextId + 2
             /\ nodes' = nodes \cup
                  {Node(nextId + 1, "text", cursor, nextId + 2, Obj.font),
                   Node(nextId + 2, "font", cursor, NoID, Obj.font)}
             /\ fontRes' = With(fontRes, a, nextId + 2)
             /\ UNCHANGED moved
  /\ hasRes' = TRUE
  /\ item' = item + 1
  /\ UNCHANGED <<pdf, pc, page, part, docPages, annots, pages, saved, open,
                 entries, disk, result, failed>>

(* Mutant: the media is given the ID of the image object.                  *)
ImageNodesShared(ok) ==
  IF ok THEN {Node(nextId + 1, "image", cursor, nextId + 1, NoFont),
              Node(nextId + 1, "media", cursor, nextId + 1, NoFont)}
  ELSE {Node(nextId + 1, "image", cursor, NoID, NoFont)}

(* The image object and, if its file could be written, its media, whose    *)
(* file is named after the object's ID.                                    *)
ImageNodes(ok) ==
  IF ok THEN {Node(nextId + 1, "image", cursor, nextId + 2, NoFont),
              Node(nextId + 2, "media", cursor, nextId + 1, NoFont)}
  ELSE {Node(nextId + 1, "image", cursor, NoID, NoFont)}

ImageFile(id) == <<"image", id>>

(* Cxml_imageobj::convert and appendImageRes.                              *)
ConvertImage ==
  /\ AtObject({"image"})
  /\ \E ok \in BOOLEAN :
       /\ Write(ImageFile(nextId + 1), ok)
       /\ nodes' = nodes \cup ImageNodes(ok)
       /\ nextId' = IF ok THEN nextId + 2 ELSE nextId + 1
  /\ hasRes' = TRUE
  /\ item' = item + 1
  /\ UNCHANGED <<pdf, pc, page, part, live, fontRes, docPages, annots, pages,
                 saved, open, disk, result, moved>>

EndOfPart == pc = "object" /\ item > Len(Objs)

Kept(p) == IF p > 0 /\ Annots[p].form THEN <<p>> ELSE <<>>

(* convert_pdf_annot: on to the next annotation; one without an appearance  *)
(* form is dropped.                                                        *)
NextPart ==
  /\ EndOfPart
  /\ part < Len(Annots)
  /\ part' = part + 1 /\ item' = 1
  /\ pages' = [pages EXCEPT ![Len(pages)].annots = @ \o Kept(part)]
  /\ UNCHANGED <<pdf, pc, page, live, nextId, tree, saved, open, entries, disk,
                 result, failed, moved>>

(* The page is done and closed: PDFium may let its fonts go.               *)
ClosePage ==
  /\ EndOfPart
  /\ part = Len(Annots)
  /\ pages' = [pages EXCEPT ![Len(pages)].annots = @ \o Kept(part)]
  /\ \E keep \in SUBSET DOMAIN live : live' = [f \in keep |-> live[f]]
  /\ page' = page + 1 /\ pc' = "page"
  /\ UNCHANGED <<pdf, part, item, nextId, tree, saved, open, entries, disk,
                 result, failed, moved>>

(* All pages are converted: save() opens the archive if it is not.         *)
SaveBegins ==
  /\ pc = "page" /\ page > Len(PdfPages)
  /\ pc' = "content" /\ saved' = 1
  /\ open' \in {b \in BOOLEAN : open => b}
  /\ failed' = (failed \/ ~open')
  /\ UNCHANGED <<pdf, cursor, live, nextId, tree, pages, entries, disk, result,
                 moved>>

Src == pages[saved].src

(* save_page: genPageXml makes the layer, the page gets its ID, Content.xml  *)
(* is written, and the page joins the Document tree ...                    *)
SaveContent ==
  /\ pc = "content" /\ saved <= Len(pages)
  /\ nextId' = nextId + 2
  /\ nodes' = nodes \cup
       {Node(nextId + 1, "layer", <<Src, 0, 0>>, NoID, NoFont),
        Node(nextId + 2, "page", <<Src, 0, 0>>, NoID, NoFont)}
  /\ \E ok \in BOOLEAN :
       /\ Write(<<"content", saved>>, ok)
       /\ docPages' = IF ok THEN Append(docPages, [id |-> nextId + 2, loc |-> saved])
                      ELSE docPages
       /\ pc' = IF ok THEN "annotation" ELSE "close"
  /\ UNCHANGED <<pdf, cursor, live, hasRes, fontRes, annots, pages, saved, open,
                 disk, result, moved>>

(* Mutant: the page is named by the ID handed out last.                    *)
AnnotPageLastID == nextId'
AnnotPage == docPages[saved].id

(* ... and save_page_annot writes its annotations, which get their IDs now, *)
(* and enters them in the Annotations tree.                                *)
SaveAnnotation ==
  /\ pc = "annotation"
  /\ LET kept == pages[saved].annots
     IN  /\ nextId' = nextId + Len(kept)
         /\ nodes' = nodes \cup
              {Node(nextId + i, "annot", <<Src, kept[i], 0>>, NoID, NoFont)
                 : i \in 1 .. Len(kept)}
  /\ \E ok \in BOOLEAN :
       /\ Write(<<"annotation", saved>>, ok)
       /\ annots' = IF ok THEN Append(annots, [page |-> AnnotPage, loc |-> saved])
                    ELSE annots
  /\ saved' = saved + 1 /\ pc' = "content"
  /\ UNCHANGED <<pdf, cursor, live, hasRes, fontRes, docPages, pages, open,
                 disk, result, moved>>

(* Mutant: the common data are made when the document is created.          *)
MaxUnitIDEarly == FirstID + 1

(* createCommonData: MaxUnitID is one more ID.                             *)
MaxUnitID == nextId + 1

(* Cxml_Document::save: the tree is written; if that fails nothing else is. *)
SaveDocument ==
  /\ pc = "content" /\ saved > Len(pages)
  /\ nextId' = nextId + 1
  /\ \E ok \in BOOLEAN :
       /\ Write(<<"document">>, ok)
       /\ docXml' = IF ok THEN [max |-> MaxUnitID, pages |-> docPages,
                                res |-> hasRes, annots |-> annots # <<>>]
                    ELSE docXml
       /\ pc' = IF ok THEN "res" ELSE "ofd"
  /\ UNCHANGED <<pdf, cursor, live, tree, pages, saved, open, resXml, file,
                 result, moved>>

FontFiles == {n.id : n \in {m \in FontNodes : m.font \in Embedded}}

ResNodes == {n \in nodes : n.kind \in {"font", "media"}}

(* saveRes: one entry per embedded font, whatever becomes of it, and       *)
(* PublicRes.xml.                                                          *)
SaveRes ==
  /\ pc = "res"
  /\ IF ~hasRes THEN UNCHANGED <<entries, failed, resXml>>
     ELSE \E lost \in SUBSET FontFiles, ok \in BOOLEAN :
            LET new == {<<"font", i>> : i \in FontFiles \ lost}
                       \cup (IF ok THEN {<<"publicres">>} ELSE {})
            IN  /\ new # {} => open
                /\ entries' = entries (+) SetToBag(new)
                /\ failed' = (failed \/ lost # {} \/ ~ok)
                /\ resXml' = IF ok THEN ResNodes ELSE resXml
  /\ pc' = "annots"
  /\ UNCHANGED <<pdf, cursor, live, nextId, tree, pages, saved, open, docXml,
                 file, result, moved>>

(* saveAnnots.                                                             *)
SaveAnnots ==
  /\ pc = "annots"
  /\ IF annots = <<>> THEN UNCHANGED <<entries, failed>>
     ELSE \E ok \in BOOLEAN : Write(<<"annotations">>, ok)
  /\ pc' = "ofd"
  /\ UNCHANGED <<pdf, cursor, live, nextId, tree, pages, saved, open, disk,
                 result, moved>>

(* save_ofdxml, also if the document could not be saved.                   *)
SaveOfdXml ==
  /\ pc = "ofd"
  /\ \E ok \in BOOLEAN : Write(<<"ofd">>, ok)
  /\ pc' = "close"
  /\ UNCHANGED <<pdf, cursor, live, nextId, tree, pages, saved, open, disk,
                 result, moved>>

(* pdf2ofd returns true whatever save() said; the package is destroyed and  *)
(* the archive's directory written.                                        *)
Return ==
  /\ pc = "close"
  /\ \E ok \in BOOLEAN :
       /\ ok => open
       /\ file' = IF ok THEN BagToSet(entries) ELSE {}
       /\ failed' = (failed \/ ~ok)
  /\ result' = "true" /\ pc' = "end"
  /\ UNCHANGED <<pdf, cursor, live, nextId, tree, pages, saved, open, entries,
                 docXml, resXml, moved>>

Next ==
  \/ Refuse \/ SetPath \/ SkipPage \/ LoadPage \/ ConvertPlain \/ ConvertDies
  \/ SkipShading \/ ConvertText \/ ConvertImage \/ NextPart \/ ClosePage
  \/ SaveBegins \/ SaveContent \/ SaveAnnotation \/ SaveDocument \/ SaveRes
  \/ SaveAnnots \/ SaveOfdXml \/ Return

Spec == Init /\ [][Next]_vars

-----------------------------------------------------------------------------
(***************************************************************************)
(* Properties                                                              *)
(***************************************************************************)
NodeType == [id : Nat, kind : Kinds, at : Nat \X Nat \X Nat, ref : Nat,
             font : Fonts \cup {NoFont}]
PageRef == [id : Nat, loc : Nat]
AnnotRef == [page : Nat, loc : Nat]

(* Every variable has its type; a reader finds only entries that were      *)
(* written.                                                                *)
TypeOK ==
  /\ pdf \in Docs
  /\ pc \in {"start", "page", "object", "content", "annotation", "res",
             "annots", "ofd", "close", "end", "dead"}
  /\ page \in Nat \ {0} /\ part \in Nat /\ item \in Nat \ {0} /\ saved \in Nat
  /\ live \in [DOMAIN live -> Addrs] /\ DOMAIN live \subseteq Fonts
  /\ nextId \in Nat
  /\ nodes \subseteq NodeType
  /\ hasRes \in BOOLEAN
  /\ fontRes \in [DOMAIN fontRes -> Nat] /\ DOMAIN fontRes \subseteq Addrs
  /\ pages \in Seq([src : Nat, annots : Seq(Nat)])
  /\ docPages \in Seq(PageRef) /\ annots \in Seq(AnnotRef)
  /\ open \in BOOLEAN /\ IsABag(entries)
  /\ docXml \in [max : Nat, pages : Seq(PageRef), res : BOOLEAN, annots : BOOLEAN]
  /\ resXml \subseteq NodeType
  /\ file \subseteq BagToSet(entries)
  /\ result \in {"none", "true", "false"}
  /\ failed \in BOOLEAN /\ moved \in BOOLEAN

(* No two elements of the package, in whichever of its files, get the same  *)
(* ID, although IDs are drawn from Cxml_package's counter at conversion and *)
(* at saving, for objects, resources, layers, pages and annotations.       *)
UniqueIds ==
  \A m, n \in nodes : m.id = n.id /\ m.id # NoID => m = n

(* The MaxUnitID of Document.xml is above every ID of every file of the     *)
(* package, those that are written after it included: the merge relies on  *)
(* it.                                                                     *)
MaxUnitIDCovers ==
  docXml # NoDocument => \A n \in nodes : n.id < docXml.max

(* A text names a font of the right name, unless an address that m_fontRes  *)
(* remembers was given to another font after a page was closed.            *)
TextFonts ==
  ~moved => \A t, n \in nodes :
              t.kind = "text" /\ n.kind = "font" /\ n.id = t.ref
              => FontName[n.font] = FontName[t.font]

(* Annotations.xml attaches the annotations of a page to that page's ID.   *)
AnnotsOnOwnPage ==
  \A i \in 1 .. Len(annots) :
    \E k \in 1 .. Len(docPages) :
      docPages[k] = [id |-> annots[i].page, loc |-> annots[i].loc]

Objects(l, p) == IF p = 0 THEN PdfPages[l].objs ELSE PdfPages[l].annots[p].objs

(* A whole package: every object of a page that could be loaded is in a    *)
(* page of the document (shadings excepted), so are the objects of its      *)
(* annotations, and every font and image that is named is in PublicRes.xml *)
(* and has its file.                                                       *)
Whole ==
  /\ {<<"ofd">>, <<"document">>} \subseteq file
  /\ \A n \in nodes :
       n.kind \in {"text", "image"} =>
         \E r \in resXml :
           /\ r.id = n.ref
           /\ r.kind = "media" => <<"image", r.ref>> \in file
           /\ r.kind = "font" /\ r.font \in Embedded => <<"font", r.id>> \in file
  /\ resXml # {} => docXml.res /\ <<"publicres">> \in file
  /\ \A l \in 1 .. Len(PdfPages) :
       PdfPages[l].loads =>
         \E k \in 1 .. Len(docXml.pages) :
           LET loc == docXml.pages[k].loc
           IN  /\ pages[loc].src = l
               /\ {<<"content", loc>>, <<"annotation", loc>>} \subseteq file
               /\ \A p \in 0 .. Len(PdfPages[l].annots) :
                    (p > 0 => PdfPages[l].annots[p].form) =>
                      \A i \in 1 .. Len(Objects(l, p)) :
                        \/ Objects(l, p)[i].kind = "shading"
                        \/ \E n \in nodes : n.at = <<l, p, i>>

(* A package is whole when pdf2ofd answers true and no open or write of    *)
(* save() and of the image conversion failed.                              *)
WholeIfNothingFailed == pc = "end" /\ result = "true" /\ ~failed => Whole

=============================================================================
