----------------------------- MODULE PdfEditing -----------------------------
(***************************************************************************)
(* The editing and conversion calls of the API: xilou_OpenPackage,          *)
(* xilou_AppendImagePage, xilou_AddTextOnPage, xilou_Save2File,             *)
(* xilou_ClosePackage and xilou_Convert, over the files they read and       *)
(* write.                                                                  *)
(*                                                                         *)
(* PDFium reads the pages of a file when it needs them, from a file that   *)
(* stays open, and a target is truncated before anything is read: a call   *)
(* may take away what a package has yet to read.  Targets may be            *)
(* unwritable, and writes may fail.                                        *)
(*                                                                         *)
(* One call is one step; what pdf2ofd and ofd2pdf do inside, and what in a *)
(* file ends the process meanwhile, is in PdfToOfd, OfdDocument, OfdReader *)
(* and ObjectParsers.  Paths are told apart by how they end.               *)
(***************************************************************************)
EXTENDS Integers, Sequences, FiniteSets, SequencesExt, Selection

CONSTANTS
  Handles,    \* XILOU_PACKAGE variables of the client
  Disks,      \* the files there may be at the beginning
  Ending,     \* of each path: "pdf", "txt" or "other"
  Images,     \* image files, by name
  Decodable,  \* those that can be read and decoded
  Jsons,      \* texts for AddTextOnPage
  MaxCalls,   \* bound on the calls that get somewhere
  MaxPages,   \* bound on the pages of a package
  MaxTexts,   \* bound on the texts of a page
  Absent,     \* no file
  NoPackage   \* a handle that is NULL

Paths == DOMAIN Ending

(* A page: the page of a file or the image it came from, and the texts     *)
(* added to it.                                                            *)
Page(name, texts) == [name |-> name, texts |-> texts]
Lost == Page("lost", <<>>)
Pages == [name : STRING, texts : Seq(STRING)]

(* A file.  whole: it was written to the end.                              *)
File(kind, pages, whole) == [kind |-> kind, pages |-> pages, whole |-> whole]
Files == [kind : {"pdf", "ofd", "txt"}, pages : Seq(Pages), whole : BOOLEAN]

(* A package: a CXilou_Document, or an OFD package without documents.      *)
NoPath == "memory"
Packages ==
  [kind : {"pdf", "ofd", "junk"}, source : Paths \cup {NoPath}, stale : BOOLEAN,
   pages : Seq([page : Pages, mem : BOOLEAN])]

(* The texts of a JSON string: "abort" stands for a location without a     *)
(* number "top" or a text that is no string, "skip" for an element without *)
(* text or location.                                                       *)
ASSUME JsonAssumption ==
  \A j \in Jsons : j.is \in {"null", "bad", "good"} /\ j.items \in Seq(STRING)
ASSUME PathAssumption ==
  /\ \A p \in Paths : Ending[p] \in {"pdf", "txt", "other"}
  /\ Decodable \subseteq Images /\ {MaxCalls, MaxPages, MaxTexts} \subseteq Nat
  /\ Images \subseteq STRING /\ "lost" \in STRING \ Images
ASSUME DiskAssumption ==
  /\ Absent \notin Files /\ NoPackage \notin Packages
  /\ \A d \in Disks :
       /\ d \in [Paths -> Files \cup {Absent}]
       /\ \A p \in Paths : d[p] # Absent =>
            \A i \in 1 .. Len(d[p].pages) : d[p].pages[i].name # "lost"

VARIABLES
  disk,     \* the files
  pkg,      \* the packages: kind, pages, m_file_stream's path and whether its
            \* file was written to since, each page's name and texts
  last,     \* the last call and its answer
  alive,    \* the process has not ended
  built,    \* history: the document that the successful calls describe
  clobbered,\* history: a file was written to while a package read from it
  calls     \* history: how many calls got somewhere

vars == <<disk, pkg, last, alive, built, clobbered, calls>>

Call(op, h, p, code, ok) == [op |-> op, h |-> h, p |-> p, code |-> code, ok |-> ok]
XILOU_E_SUC == "SUC"
(* What these calls answer: codes of xilou_errcode.h, NULL or false; the   *)
(* end of the process counts as an answer, too.                            *)
Codes ==
  {XILOU_E_SUC, "LOADIMAGE", "FILEHANDLETYPE", "NEWPAGE", "INVALID_HANDLE_ERROR",
   "NOTIMPLEMENT", "INVALIDPAGEINDEX", "INVALIDPARAMETER", "INVALIDTEXTJSON",
   "LOADPAGE", "LOADFONTDATA", "null", "false", "killed"}

(* A page of a package; mem: it is not read from m_file_stream.            *)
PkgPage(page, mem) == [page |-> page, mem |-> mem]
(* CXilou_Document.                                                        *)
Package(kind, source, pages) ==
  [kind |-> kind, source |-> source, stale |-> FALSE, pages |-> pages]
KindOf(pk) == IF pk = NoPackage THEN "null" ELSE pk.kind
FromFile(kind, p) ==
  Package(kind, p, [i \in DOMAIN disk[p].pages |-> PkgPage(disk[p].pages[i], FALSE)])

-----------------------------------------------------------------------------
(* What a successful call makes of a document, as the API describes it.    *)
Edited(pages, call) ==
  CASE call.op = "open"  -> call.pages
    [] call.op = "image" -> pages \o <<Page(call.name, <<>>)>>
    [] call.op = "text"  ->
         [pages EXCEPT ![call.idx + 1] = Page(@.name, @.texts \o call.texts)]

Did(h, call) == [built EXCEPT ![h] = Edited(@, call)]

-----------------------------------------------------------------------------
(* What PDFium gets of the pages of pk: those it reads from a file that    *)
(* was written to may be gone.                                             *)
Readings(pk) ==
  {[i \in DOMAIN pk.pages |-> IF i \in gone THEN Lost ELSE pk.pages[i].page] :
     gone \in SUBSET {i \in DOMAIN pk.pages : pk.stale /\ ~pk.pages[i].mem}}

(* Files that appear when content of that kind is written: all of it, or   *)
(* as much as came before the write that failed.  Of a PDF that may be     *)
(* some pages; an archive is nothing without its directory, at the end.    *)
Results(kind, pages) ==
  {File(kind, pages, TRUE)} \cup
  {File(kind, SubSeq(pages, 1, n), FALSE) : n \in 0 .. (IF kind = "pdf" THEN Len(pages) ELSE 0)}

(* The packages after p was truncated, of which others may still read.     *)
Truncated(p) ==
  [h \in Handles |-> IF pkg[h] # NoPackage /\ pkg[h].source = p
                     THEN [pkg[h] EXCEPT !.stale = TRUE] ELSE pkg[h]]

-----------------------------------------------------------------------------
Init ==
  /\ disk \in Disks
  /\ pkg = [h \in Handles |-> NoPackage]
  /\ last = Call("none", "none", NoPath, XILOU_E_SUC, TRUE)
  /\ alive = TRUE
  /\ built = [h \in Handles |-> <<>>]
  /\ clobbered = FALSE /\ calls = 0

Die(op, h, p) ==
  /\ alive' = FALSE
  /\ last' = Call(op, h, p, "killed", TRUE)
  /\ UNCHANGED <<disk, pkg, built, clobbered, calls>>

(* A call that answers code and does nothing else.                         *)
Answer(code) ==
  /\ last' = Call("none", "none", NoPath, code, TRUE)
  /\ UNCHANGED <<disk, pkg, alive, built, clobbered, calls>>

(* The call gets somewhere.                                                *)
Counted == calls < MaxCalls /\ calls' = calls + 1

(* What xilou_OpenPackage can make of the file at p.  An empty file is     *)
(* refused.  PDFium gives up on a file that is not whole or repairs it.    *)
(* Whatever is no PDF becomes an OFD package; one that is no OFD either,   *)
(* "junk", has no documents.                                               *)
Opened(p) ==
  LET f == disk[p]
      junk == {Package("junk", p, <<>>)}
  IN  CASE f.kind = "pdf" /\ f.whole  -> {FromFile("pdf", p)}
        [] f.kind = "pdf" /\ ~f.whole -> {NoPackage, FromFile("pdf", p)}
        [] f.kind = "ofd" /\ f.whole  -> {FromFile("ofd", p)}
        [] f.kind # "pdf" /\ ~f.whole -> {NoPackage} \cup junk
        [] f.kind = "txt" /\ f.whole  -> IF f.pages = <<>> THEN {NoPackage} ELSE junk

(* The stream of a file that cannot be opened is used all the same, and    *)
(* the XML of an OFD may end the process (ParseOFD).                       *)
Deadly(p) == disk[p] # Absent => disk[p].kind = "ofd"

(* xilou_OpenPackage.                                                      *)
OpenPackage(h, p) ==
  /\ alive /\ pkg[h] = NoPackage
  /\ \/ Deadly(p) /\ Die("open", h, p)
     \/ /\ disk[p] # Absent /\ Counted
        /\ \E pk \in Opened(p) :
             /\ pkg' = [pkg EXCEPT ![h] = pk]
             /\ built' = IF pk = NoPackage THEN built
                          ELSE Did(h, [op |-> "open", pages |-> [i \in DOMAIN pk.pages |-> pk.pages[i].page]])
             /\ last' = Call("open", h, p, IF pk = NoPackage THEN "null" ELSE XILOU_E_SUC, TRUE)
        /\ UNCHANGED <<disk, alive, clobbered>>

(* xilou_ClosePackage.                                                     *)
ClosePackage(h) ==
  /\ alive /\ pkg[h] # NoPackage /\ Counted
  /\ pkg' = [pkg EXCEPT ![h] = NoPackage]
  /\ built' = [built EXCEPT ![h] = <<>>]
  /\ last' = Call("edit", h, NoPath, XILOU_E_SUC, TRUE)
  /\ UNCHANGED <<disk, alive, clobbered>>

(* FPDFPage_New: the page is inserted at index, or at the end.             *)
FPDFPage_New(pages, index, page) ==
  LET at == IF index > Len(pages) THEN Len(pages) ELSE index
  IN  InsertAt(pages, at + 1, page)

(* Mutant: the new package is made before the image is looked at.          *)
AppendImagePageEarly(h, img) ==
  /\ alive /\ pkg[h] = NoPackage
  /\ pkg' = [pkg EXCEPT ![h] = Package("pdf", NoPath, <<>>)]
  /\ last' = Call("edit", h, NoPath, "LOADIMAGE", TRUE)
  /\ UNCHANGED <<disk, alive, built, clobbered, calls>>

(* xilou_AppendImagePage.  A handle that is NULL becomes a new PDF before  *)
(* the page is made.  FPDFPage_New fails where the page tree of a file is  *)
(* broken.                                                                 *)
AppendImagePage(h, img) ==
  LET doc == IF pkg[h] = NoPackage THEN Package("pdf", NoPath, <<>>) ELSE pkg[h]
      page == PkgPage(Page(img, <<>>), TRUE)
  IN
  /\ alive /\ Len(doc.pages) < MaxPages
  /\ \/ img \notin Decodable /\ Answer("LOADIMAGE")
     \/ /\ img \in Decodable /\ doc.kind # "pdf"
        /\ Answer("FILEHANDLETYPE")
     \/ /\ img \in Decodable /\ doc.kind = "pdf" /\ doc.source # NoPath
        /\ Answer("NEWPAGE")
     \/ /\ img \in Decodable /\ doc.kind = "pdf" /\ Counted
        /\ pkg' = [pkg EXCEPT ![h] =
             [doc EXCEPT !.pages = FPDFPage_New(@, Len(@) + 1, page)]]
        /\ built' = Did(h, [op |-> "image", name |-> img])
        /\ last' = Call("edit", h, NoPath, XILOU_E_SUC, TRUE)
        /\ UNCHANGED <<disk, alive, clobbered>>

(* The texts the loop of xilou_AddTextOnPage inserts.                      *)
Inserted(items) ==
  Selected(items, {i \in DOMAIN items : items[i] \notin {"skip", "abort"}})

(* The early returns of xilou_AddTextOnPage, in their order.  An index     *)
(* that equals the number of pages fails when the page is loaded.          *)
TextRefusal(h, idx, json) ==
  IF pkg[h] = NoPackage THEN "INVALID_HANDLE_ERROR"
  ELSE IF pkg[h].kind # "pdf" THEN "NOTIMPLEMENT"
  ELSE IF idx < 0 \/ idx > Len(pkg[h].pages) THEN "INVALIDPAGEINDEX"
  ELSE IF json.is = "null" THEN "INVALIDPARAMETER"
  ELSE IF json.is = "bad" THEN "INVALIDTEXTJSON"
  ELSE IF idx = Len(pkg[h].pages) \/ pkg[h].pages[idx + 1].page = Lost THEN "LOADPAGE"
  ELSE "none"

(* xilou_AddTextOnPage.  The texts reach the document when the content of  *)
(* the page is generated, at the end.  With JSON_NOEXCEPTION a value of    *)
(* another type than the loop asks for aborts the process.  The font, a    *)
(* subset of a system file, is made before the page is loaded.  A page     *)
(* that is gone from its file cannot be loaded.                            *)
AddTextOnPage(h, idx, json) ==
  /\ alive
  /\ \/ /\ TextRefusal(h, idx, json) # "none"
        /\ Answer(TextRefusal(h, idx, json))
     \/ /\ TextRefusal(h, idx, json) \in {"none", "LOADPAGE"}
        /\ Answer("LOADFONTDATA")
     \/ /\ TextRefusal(h, idx, json) = "none"
        /\ pkg[h].stale /\ ~pkg[h].pages[idx + 1].mem
        /\ Answer("LOADPAGE")
     \/ /\ TextRefusal(h, idx, json) = "none"
        /\ Contains(json.items, "abort")
        /\ Die("edit", h, NoPath)
     \/ /\ TextRefusal(h, idx, json) = "none"
        /\ ~Contains(json.items, "abort") /\ Counted
        /\ Len(pkg[h].pages[idx + 1].page.texts) < MaxTexts
        /\ pkg' = [pkg EXCEPT ![h].pages[idx + 1].page.texts = @ \o Inserted(json.items)]
        /\ built' = Did(h, [op |-> "text", idx |-> idx, texts |-> Inserted(json.items)])
        /\ last' = Call("edit", h, NoPath, XILOU_E_SUC, TRUE)
        /\ UNCHANGED <<disk, alive, clobbered>>

-----------------------------------------------------------------------------
(* Mutant: only objects that the parser knows are written.                 *)
SavedPagesOld(kind, pk) ==
  {Selected(r, {i \in DOMAIN r : r[i].name \notin Images}) : r \in Readings(pk)}

(* The pages of a copy.  FPDF_SaveAsCopy leaves out objects it cannot      *)
(* read, pdf2ofd whole pages.                                              *)
SavedPages(kind, pk) ==
  IF kind = "pdf" THEN Readings(pk)
  ELSE {Selected(r, {i \in DOMAIN r : r[i] # Lost}) : r \in Readings(pk)}

(* A file is written at p, with one of the contents: p is truncated        *)
(* before, while packages may read from it.  own: the call reads from it.  *)
Write(op, h, p, kind, contents, own) ==
  /\ \E pages \in contents : \E f \in Results(kind, pages) :
       /\ disk' = [disk EXCEPT ![p] = f] /\ Counted
       /\ last' = Call(op, h, p, XILOU_E_SUC, f.whole)
  /\ pkg' = Truncated(p)
  /\ clobbered' = (clobbered \/ own \/ Truncated(p) # pkg)
  /\ UNCHANGED <<alive, built>>

(* p cannot be opened for writing; nobody notices.                         *)
NotWritten(op, h, p) ==
  /\ last' = Call(op, h, p, XILOU_E_SUC, FALSE)
  /\ UNCHANGED <<disk, pkg, alive, built, clobbered, calls>>

(* An image of a page from a file that cannot be decoded ends the process  *)
(* in pdf2ofd (Cxml_imageobj::convert), which has opened p before.         *)
DieWriting(op, h, p, pk, own) ==
  /\ \E i \in DOMAIN pk.pages : ~pk.pages[i].mem
  /\ \/ Die(op, h, p)
     \/ /\ disk' = [disk EXCEPT ![p] = File("ofd", <<>>, FALSE)]
        /\ last' = Call(op, h, p, "killed", FALSE)
        /\ pkg' = Truncated(p)
        /\ clobbered' = (clobbered \/ own \/ Truncated(p) # pkg)
        /\ alive' = FALSE
        /\ UNCHANGED <<built, calls>>

(* xilou_Save2File.                                                        *)
Save2File(h, p) ==
  LET kind == IF Ending[p] = "pdf" THEN "pdf" ELSE "ofd"
  IN
  /\ alive
  /\ \/ /\ KindOf(pkg[h]) = "null"
        /\ Answer("INVALID_HANDLE_ERROR")
     \/ KindOf(pkg[h]) \in {"ofd", "junk"} /\ Answer("NOTIMPLEMENT")
     \/ /\ KindOf(pkg[h]) = "pdf"
        /\ \/ NotWritten("save", h, p)
           \/ Write("save", h, p, kind, SavedPages(kind, Truncated(p)[h]), FALSE)
           \/ kind = "ofd" /\ DieWriting("save", h, p, pkg[h], FALSE)

(* ofd2pdf, which opens its target when all pages are read, and xtotxt,    *)
(* which does nothing.                                                     *)
ConvertOfd(pk, src, dst) ==
  \/ Ending[dst] = "txt" /\ Answer(XILOU_E_SUC)
  \/ Ending[dst] # "txt" /\ NotWritten("convert", "none", dst)
  \/ /\ Ending[dst] # "txt"
     /\ Write("convert", "none", dst, "pdf", Readings(pk), src = dst)

(* pdf2ofd and pdf2txt truncate their target before they read the pages;   *)
(* pdf2txt writes to a stream it could not open.                           *)
ConvertPdf(pk, src, dst) ==
  LET own == [pk EXCEPT !.stale = (src = dst)]
      txt == Ending[dst] = "txt"
  IN
  \/ txt /\ pk.pages # <<>> /\ Die("convert", "none", dst)
  \/ ~(txt /\ pk.pages # <<>>) /\ NotWritten("convert", "none", dst)
  \/ txt /\ Write("convert", "none", dst, "txt", Readings(own), src = dst)
  \/ ~txt /\ Write("convert", "none", dst, "ofd", SavedPages("ofd", own), src = dst)
  \/ ~txt /\ DieWriting("convert", "none", dst, pk, src = dst)

(* xilou_Convert, with a package of its own.  An OFD may end the process   *)
(* when it is opened, and in ofd2pdf by a page that cannot be loaded or    *)
(* parsed, before the target is opened.                                    *)
Convert(src, dst) ==
  /\ alive
  /\ \/ Deadly(src) /\ Die("convert", "none", src)
     \/ /\ disk[src] # Absent
        /\ \E pk \in Opened(src) :
             \/ /\ KindOf(pk) \in {"null", "junk"}
                /\ Answer("false")
             \/ KindOf(pk) = "ofd" /\ ConvertOfd(pk, src, dst)
             \/ KindOf(pk) = "pdf" /\ ConvertPdf(pk, src, dst)

(* What calls answer to NULL for a path or for the place of a handle.      *)
NullArgument ==
  /\ alive
  /\ \E code \in {"INVALID_HANDLE_ERROR", "INVALIDPARAMETER", "false"} : Answer(code)

Next ==
  \/ \E h \in Handles, p \in Paths : OpenPackage(h, p) \/ Save2File(h, p)
  \/ \E h \in Handles : ClosePackage(h)
  \/ \E h \in Handles, img \in Images : AppendImagePage(h, img)
  \/ \E h \in Handles, j \in Jsons : \E idx \in -1 .. MaxPages : AddTextOnPage(h, idx, j)
  \/ \E src, dst \in Paths : Convert(src, dst)
  \/ NullArgument

Spec == Init /\ [][Next]_vars

-----------------------------------------------------------------------------
(* Every variable has its type: files and packages stay well-formed, and a *)
(* handle that is NULL has no document.                                    *)
TypeOK ==
  /\ disk \in [Paths -> Files \cup {Absent}]
  /\ pkg \in [Handles -> Packages \cup {NoPackage}]
  /\ built \in [Handles -> Seq(Pages)]
  /\ \A h \in Handles : pkg[h] = NoPackage => built[h] = <<>>
  /\ last \in [op : {"none", "open", "edit", "save", "convert"},
               h : Handles \cup {"none"}, p : Paths \cup {NoPath},
               code : Codes, ok : BOOLEAN]
  /\ alive \in BOOLEAN /\ clobbered \in BOOLEAN /\ calls \in 0 .. MaxCalls

(* The pages of a package, in the order of the calls that made them and    *)
(* with the texts of their own index: what the successful calls say, and   *)
(* nothing a failed one began.                                             *)
BuiltAsCalled ==
  \A h \in Handles : pkg[h] # NoPackage =>
    [i \in DOMAIN pkg[h].pages |-> pkg[h].pages[i].page] = built[h]

(* Pages are lost only where a file is written over while it is read: the  *)
(* stream of a package stays open as long as the package.                  *)
LostOnlyByOverwrite ==
  (\E p \in Paths : disk[p] # Absent /\ Contains(disk[p].pages, Lost)) => clobbered

(* A package holds the document that the calls built.  So does a copy that *)
(* could be written, image pages and texts too, if nobody wrote to the     *)
(* package's file (and it had not lost pages when it was opened); pages    *)
(* are lost in no other way.                                               *)
SavedAsCalled ==
  LET h == last.h
  IN  /\ BuiltAsCalled /\ LostOnlyByOverwrite
      /\ (/\ last.op = "save" /\ last.code = XILOU_E_SUC /\ last.ok /\ ~pkg[h].stale
          /\ ~Contains(built[h], Lost)) =>
            disk[last.p] = File(IF Ending[last.p] = "pdf" THEN "pdf" ELSE "ofd",
                                built[h], TRUE)

(* A call that answers with a failure leaves every file and every package  *)
(* as it was, whichever of its early returns it takes.  One that ends the  *)
(* process, by whatever it reads, leaves every file but its target as it   *)
(* was, and no file at its target that passes for a whole one.             *)
FailuresContained ==
  [][/\ alive' /\ last'.code # XILOU_E_SUC => UNCHANGED <<disk, pkg>>
     /\ ~alive' => \A p \in Paths : \/ disk'[p] = disk[p]
                                    \/ p = last'.p /\ ~disk'[p].whole]_vars

(* What xilou_convert.h:38 says of xilou_Save2File: 0 is success.  The     *)
(* document is then in the file.                                           *)
SuccessIsSaved ==
  (last.op = "save" /\ last.code = XILOU_E_SUC) =>
    disk[last.p] = File(IF Ending[last.p] = "pdf" THEN "pdf" ELSE "ofd",
                        built[last.h], TRUE)

=============================================================================
