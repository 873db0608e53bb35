---------------------------- MODULE OfdDocument ----------------------------
(***************************************************************************)
(* Opening a package and a document: the loops over ofd.xml               *)
(* (COFD_ParseOfdXml) and Document.xml (the constructor of COFD_Document), *)
(* which fill the lists of pages, templates and annotation files and the    *)
(* tables of resources, and the lookups in these tables.                   *)
(*                                                                         *)
(* Every loop takes one element a step.  A loop may fail to go on to its   *)
(* next element, and a step may end the process.  IDs of resources are      *)
(* read as floating-point numbers and kept as integers.                    *)
(*                                                                         *)
(* Locations stand for themselves, whether they are relative or not.  The  *)
(* groups of a resource file and the Page elements of an annotation list   *)
(* only hold their items: a file is the sequence of these.  The area of    *)
(* the document is in OfdReader, its signatures are in OfdSignatures.      *)
(***************************************************************************)
EXTENDS Integers, Sequences, FiniteSets, SequencesExt

CONSTANTS
  Packages,  \* the DocBodies of the ofd.xml of each package
  Asked,     \* IDs that pages look up
  Exact,     \* the integers below are floating-point numbers: 2^24
  Nothing    \* what a lookup finds when there is nothing

Kinds == {"DrawParam", "ColorSpace", "Font", "MultiMedia", "CompositeGraphicUnit"}
NoId == -1               \* an element without ID
kDefaultFontID == -1001

(* An item of a resource file.  file is the path made of the base of the   *)
(* resource file and the FontFile or MediaFile: "" without such an element *)
(* and, if the base is empty, with an empty one.                           *)
Item == [kind : Kinds, id : Nat \cup {NoId}, file : STRING]

(* A child of CommonData, and a DocBody: root is FALSE without a DocRoot,  *)
(* info says whether there are a DocInfo and, in it, a DocID.              *)
Common == [tag : {"Res", "TemplatePage"}, id : Int, loc : STRING]

(* A Document.xml.  node: it can be read.  A resource file that cannot be  *)
(* read is not in res, an annotation list not in notes.  binary: the font  *)
(* files that are there, and are fonts.                                    *)
IsDocument(d) ==
  /\ {d.node, d.hasPages} \subseteq BOOLEAN
  /\ d.common \in Seq(Common)
  /\ d.pages \in Seq([id : Int, loc : STRING])
  /\ d.annots \in STRING
  /\ \A f \in DOMAIN d.res : d.res[f] \in Seq(Item)
  /\ \A f \in DOMAIN d.notes : d.notes[f] \in Seq([page : Int, loc : STRING])
  /\ d.binary \subseteq STRING

ASSUME DocumentAssumption ==
  /\ Asked \subseteq Nat /\ Exact \in Nat \ {0, 1} /\ Exact % 2 = 0
  /\ Nothing \notin Item
  /\ \A p \in Packages : p \in Seq(Range(p)) /\ \A i \in 1 .. Len(p) :
       /\ p[i].root \in BOOLEAN /\ p[i].info \in {"none", "noid", "id"}
       /\ IsDocument(p[i].doc)

VARIABLES
  pkg,        \* the package that is open
  systemFont, \* whether a substitute for a font can be found
  phase,      \* what the library is doing, or the handle the client has
  rest,       \* elements the loop has yet to look at
  items,      \* items of a resource file it has yet to look at
  doc_info,   \* doc_info_: the documents of the package
  doc,        \* the document
  pageno2pageid, pageid2pageurl, id2templates, pageid2annoturl,
  table,      \* drawparams_, colorspaces_, fonts_, multi_medias_, compositeobj_
  answer      \* the last lookup and what it found

lists == <<pageno2pageid, pageid2pageurl, id2templates, pageid2annoturl>>
session == <<pkg, systemFont, doc_info, doc>>
vars == <<session, phase, rest, items, lists, table, answer>>

NoDocument ==
  [node |-> FALSE, hasPages |-> FALSE, common |-> <<>>, pages |-> <<>>, annots |-> "",
   res |-> <<>>, notes |-> <<>>, binary |-> {}]
NoAnswer == [kind |-> "none", id |-> 0, found |-> Nothing]
DefaultFont == [kind |-> "Font", id |-> kDefaultFontID, file |-> ""]
EmptyTable == [k \in Kinds |-> <<>>]

Parsing == {"bodies", "common", "res", "pages", "annots"}
Phases == {"closed", "package", "document", "dead"} \cup Parsing

-----------------------------------------------------------------------------
(* The steps between two floating-point numbers at v.                      *)
Ulp(v) == IF v < Exact THEN 1
          ELSE CHOOSE u \in {2 ^ k : k \in 1 .. 30} : v \div u \in (Exact \div 2) .. (Exact - 1)

(* The floating-point number next to v, the even one of two.               *)
Rounded[v \in Nat] ==
  LET u == Ulp(v)
      q == v \div u
      r == 2 * (v % u)
  IN  IF r < u \/ (r = u /\ q % 2 = 0) THEN q * u ELSE (q + 1) * u

(* StringToFloat of a decimal number, as an int.                           *)
StringToFloat[n \in Nat] ==
  IF n = 0 THEN 0
  ELSE Rounded[Rounded[10 * StringToFloat[n \div 10]] + (n % 10)]

(* Mutant: the last of two equal keys is kept.                             *)
InsertLast(map, key, value) ==
  [k \in DOMAIN map \cup {key} |-> IF k = key THEN value ELSE map[k]]

(* std::map::insert keeps the first of two equal keys.                     *)
Insert(map, key, value) ==
  [k \in DOMAIN map \cup {key} |-> IF k \in DOMAIN map THEN map[k] ELSE value]

At(map, key) == IF key \in DOMAIN map THEN map[key] ELSE Nothing

(* Items that are entered into their table: those with an ID, fonts that   *)
(* could be loaded, media with a file.                                     *)
Usable(d, it) ==
  /\ it.id # NoId
  /\ it.kind = "Font" =>
       IF it.file = "" THEN systemFont ELSE it.file \in d.binary
  /\ it.kind = "MultiMedia" => it.file # ""

-----------------------------------------------------------------------------
Init ==
  /\ pkg = <<>> /\ systemFont \in BOOLEAN
  /\ phase = "closed" /\ rest = <<>> /\ items = <<>>
  /\ doc_info = <<>> /\ doc = NoDocument
  /\ pageno2pageid = <<>> /\ pageid2pageurl = <<>>
  /\ id2templates = <<>> /\ pageid2annoturl = <<>>
  /\ table = EmptyTable /\ answer = NoAnswer

(* The rest of the process' life.                                          *)
Die ==
  /\ phase' = "dead" /\ rest' = <<>> /\ items' = <<>>
  /\ UNCHANGED <<session, lists, table, answer>>

(* xilou_OpenPackage of an OFD, ParseOFD.                                  *)
OpenPackage(p) ==
  /\ phase = "closed"
  /\ phase' = "bodies" /\ pkg' = p /\ rest' = p /\ doc_info' = <<>>
  /\ UNCHANGED <<systemFont, doc, items, lists, table, answer>>

(* Mutant: a DocBody whose Document.xml cannot be read ends the list.      *)
ParseDocBodyUnread ==
  /\ phase = "bodies" /\ rest # <<>>
  /\ LET b == Head(rest)
     IN  IF ~b.root \/ ~b.doc.node THEN UNCHANGED vars
         ELSE IF b.info = "noid" THEN Die
         ELSE /\ doc_info' = Append(doc_info, b.doc) /\ rest' = Tail(rest)
              /\ UNCHANGED <<pkg, systemFont, doc, phase, items, lists, table, answer>>

(* One turn of the loop of COFD_ParseOfdXml.  Without a DocRoot the loop   *)
(* continues with the same DocBody; a Title is looked for in the DocID,    *)
(* whether or not there is one.                                            *)
ParseDocBody ==
  /\ phase = "bodies" /\ rest # <<>>
  /\ LET b == Head(rest)
     IN  IF ~b.root THEN UNCHANGED vars
         ELSE IF b.info = "noid" THEN Die
         ELSE /\ doc_info' = Append(doc_info, b.doc) /\ rest' = Tail(rest)
              /\ UNCHANGED <<pkg, systemFont, doc, phase, items, lists, table, answer>>

(* The package is handed out whatever ParseOFD says of it.                 *)
OpenPackageReturns ==
  /\ phase = "bodies" /\ rest = <<>>
  /\ phase' = "package"
  /\ UNCHANGED <<session, rest, items, lists, table, answer>>

(* xilou_LoadDocument, COFD_Package::OpenDocument.                         *)
OpenDocument(i) ==
  /\ phase = "package" /\ doc_info[i].node
  /\ phase' = "common" /\ doc' = doc_info[i] /\ rest' = doc_info[i].common
  /\ UNCHANGED <<pkg, systemFont, doc_info, items, lists, table, answer>>

(* Mutant: a template without an ID is entered, too.                       *)
ParseCommonDataUnguarded ==
  /\ phase = "common" /\ rest # <<>>
  /\ LET e == Head(rest)
     IN  IF e.loc = "" THEN Die
         ELSE /\ rest' = Tail(rest)
              /\ IF e.tag = "Res" /\ e.loc \in DOMAIN doc.res
                   THEN phase' = "res" /\ items' = doc.res[e.loc]
                   ELSE UNCHANGED <<phase, items>>
              /\ id2templates' = IF e.tag = "TemplatePage"
                                   THEN Insert(id2templates, e.id, e.loc)
                                   ELSE id2templates
              /\ UNCHANGED <<session, pageno2pageid, pageid2pageurl,
                             pageid2annoturl, table, answer>>

(* One child of CommonData.  The first character of its location is looked *)
(* at without asking whether there is one.                                 *)
ParseCommonData ==
  /\ phase = "common" /\ rest # <<>>
  /\ LET e == Head(rest)
         unasked == e.tag = "Res" \/ e.id > 0
     IN  IF unasked /\ e.loc = "" THEN Die
         ELSE /\ rest' = Tail(rest)
              /\ IF e.tag = "Res" /\ e.loc \in DOMAIN doc.res
                   THEN phase' = "res" /\ items' = doc.res[e.loc]
                   ELSE UNCHANGED <<phase, items>>
              /\ id2templates' = IF e.tag = "TemplatePage" /\ e.id > 0
                                   THEN Insert(id2templates, e.id, e.loc)
                                   ELSE id2templates
              /\ UNCHANGED <<session, pageno2pageid, pageid2pageurl,
                             pageid2annoturl, table, answer>>

(* One item in ParseRes: HandleResDrawParam, HandleResColorSpaces,         *)
(* HandleFonts, HandleMultiMedias, HandleResCompositeObj.                  *)
ParseRes ==
  /\ phase = "res" /\ items # <<>>
  /\ LET it == Head(items)
     IN  table' = IF Usable(doc, it)
                    THEN [table EXCEPT ![it.kind] = Insert(@, StringToFloat[it.id], it)]
                    ELSE table
  /\ items' = Tail(items)
  /\ UNCHANGED <<session, phase, rest, lists, answer>>

ParseResReturns ==
  /\ phase = "res" /\ items = <<>>
  /\ phase' = "common"
  /\ UNCHANGED <<session, rest, items, lists, table, answer>>

(* A Document.xml without Pages has no annotations either.                 *)
ParseCommonDataReturns ==
  /\ phase = "common" /\ rest = <<>>
  /\ IF doc.hasPages THEN phase' = "pages" /\ rest' = doc.pages
     ELSE phase' = "document" /\ UNCHANGED rest
  /\ UNCHANGED <<session, items, lists, table, answer>>

(* One Page of Document.xml.                                               *)
ParsePage ==
  /\ phase = "pages" /\ rest # <<>>
  /\ LET p == Head(rest)
     IN  IF p.id # NoId /\ p.loc # ""
           THEN /\ pageno2pageid' = Append(pageno2pageid, p.id)
                /\ pageid2pageurl' = Insert(pageid2pageurl, p.id, p.loc)
           ELSE UNCHANGED <<pageno2pageid, pageid2pageurl>>
  /\ rest' = Tail(rest)
  /\ UNCHANGED <<session, phase, items, id2templates, pageid2annoturl, table, answer>>

(* The head of ParseAnnotations.                                           *)
ParseAnnotations ==
  /\ phase = "pages" /\ rest = <<>>
  /\ IF doc.annots # "" /\ doc.annots \in DOMAIN doc.notes
       THEN phase' = "annots" /\ rest' = doc.notes[doc.annots]
       ELSE phase' = "document" /\ UNCHANGED rest
  /\ UNCHANGED <<session, items, lists, table, answer>>

(* One FileLoc.  An empty one is looked at again and again.                *)
ParseFileLoc ==
  /\ phase = "annots" /\ rest # <<>>
  /\ IF Head(rest).loc = "" THEN UNCHANGED vars
     ELSE /\ pageid2annoturl' = Append(pageid2annoturl, Head(rest))
          /\ rest' = Tail(rest)
          /\ UNCHANGED <<session, phase, items, pageno2pageid, pageid2pageurl,
                         id2templates, table, answer>>

ParseAnnotationsReturns ==
  /\ phase = "annots" /\ rest = <<>>
  /\ phase' = "document"
  /\ UNCHANGED <<session, rest, items, lists, table, answer>>

-----------------------------------------------------------------------------
(* FindDrawParam, FindCompositeObject, FindMedia, FindColorSpace: the last *)
(* finds the stock RGB where the others find nothing.                      *)
Find(kind, id) ==
  /\ phase = "document" /\ kind # "Font"
  /\ answer' = [kind |-> kind, id |-> id, found |-> At(table[kind], StringToFloat[id])]
  /\ UNCHANGED <<session, phase, rest, items, lists, table>>

(* FindFont enters the default font the first time it is needed.           *)
FindFont(id) ==
  /\ phase = "document"
  /\ LET key == StringToFloat[id]
         fonts == table["Font"]
         more == IF key \notin DOMAIN fonts /\ systemFont
                   THEN Insert(fonts, kDefaultFontID, DefaultFont) ELSE fonts
     IN  /\ table' = [table EXCEPT !["Font"] = more]
         /\ answer' = [kind |-> "Font", id |-> id,
                       found |-> IF key \in DOMAIN more THEN more[key]
                                 ELSE At(more, kDefaultFontID)]
  /\ UNCHANGED <<session, phase, rest, items, lists>>

(* Mutant: the page is looked up by its index.                             *)
PageUrlByIndex(i) ==
  /\ phase = "document"
  /\ answer' = [kind |-> "Page", id |-> i,
                found |-> IF i > Len(pageno2pageid) THEN Nothing
                          ELSE At(pageid2pageurl, i)]
  /\ UNCHANGED <<session, phase, rest, items, lists, table>>

(* PageUrl, LoadPage: the index is let through if it is the number of      *)
(* pages; what lies behind the vector may be the ID of any page, or none.  *)
PageUrl(i) ==
  /\ phase = "document" /\ (pageno2pageid = <<>> => i > 0)
  /\ \E id \in IF i < Len(pageno2pageid) THEN {pageno2pageid[i + 1]}
               ELSE DOMAIN pageid2pageurl \cup {NoId} :
       answer' = [kind |-> "Page", id |-> i,
                  found |-> IF i > Len(pageno2pageid) THEN Nothing
                            ELSE At(pageid2pageurl, id)]
  /\ UNCHANGED <<session, phase, rest, items, lists, table>>

(* The first page of a document without pages: the vector has no elements  *)
(* to read.                                                                *)
PageUrlDies ==
  /\ phase = "document" /\ pageno2pageid = <<>>
  /\ phase' = "dead" /\ answer' = [kind |-> "Page", id |-> 0, found |-> Nothing]
  /\ UNCHANGED <<session, rest, items, lists, table>>

(* The members go with the COFD_Document.                                  *)
NoLists ==
  /\ pageno2pageid' = <<>> /\ pageid2pageurl' = <<>>
  /\ id2templates' = <<>> /\ pageid2annoturl' = <<>>
  /\ table' = EmptyTable

(* xilou_DropDocument.                                                     *)
CloseDocument ==
  /\ phase = "document"
  /\ phase' = "package" /\ doc' = NoDocument /\ answer' = NoAnswer
  /\ NoLists
  /\ UNCHANGED <<pkg, systemFont, doc_info, rest, items>>

(* xilou_ClosePackage, or another process.                                 *)
ClosePackage ==
  /\ phase \in {"package", "dead"}
  /\ phase' = "closed" /\ pkg' = <<>> /\ doc_info' = <<>> /\ doc' = NoDocument
  /\ answer' = NoAnswer
  /\ NoLists
  /\ UNCHANGED <<systemFont, rest, items>>

(* What the library does by itself once it is called.                      *)
Parse ==
  \/ ParseDocBody \/ OpenPackageReturns
  \/ ParseCommonData \/ ParseRes \/ ParseResReturns \/ ParseCommonDataReturns
  \/ ParsePage \/ ParseAnnotations \/ ParseFileLoc \/ ParseAnnotationsReturns

Next ==
  \/ Parse
  \/ \E p \in Packages : OpenPackage(p)
  \/ \E i \in 1 .. Len(doc_info) : OpenDocument(i)
  \/ \E kind \in Kinds, id \in Asked : Find(kind, id)
  \/ \E id \in Asked : FindFont(id)
  \/ \E i \in 0 .. Len(pageno2pageid) + 1 : PageUrl(i)
  \/ PageUrlDies \/ CloseDocument \/ ClosePackage

Spec == Init /\ [][Next]_vars /\ WF_vars(Parse)

-----------------------------------------------------------------------------
TypeOK ==
  /\ phase \in Phases /\ systemFont \in BOOLEAN
  /\ pkg \in Packages \cup {<<>>}
  /\ IsDocument(doc) /\ \A i \in 1 .. Len(doc_info) : IsDocument(doc_info[i])
  /\ items \in Seq(Item)
  /\ pageno2pageid \in Seq(Int) /\ DOMAIN pageid2pageurl \subseteq Int
  /\ DOMAIN id2templates \subseteq Nat
  /\ \A k \in Kinds : \A n \in DOMAIN table[k] : table[k][n] \in Item \cup {DefaultFont}

(* The references to resource files that can be read, and the places of    *)
(* all items: the reference, and the item in its file.                     *)
ResAt(d) ==
  {i \in 1 .. Len(d.common) : d.common[i].tag = "Res" /\ d.common[i].loc \in DOMAIN d.res}
ItemPlaces(d) ==
  UNION {{<<i, k>> : k \in 1 .. Len(d.res[d.common[i].loc])} : i \in ResAt(d)}
ItemAt(d, p) == d.res[d.common[p[1]].loc][p[2]]
Before(p, q) == p[1] < q[1] \/ (p[1] = q[1] /\ p[2] < q[2])

(* The places of usable items of a kind, and of those with an ID.          *)
UsableAt(d, kind) == {p \in ItemPlaces(d) : ItemAt(d, p).kind = kind /\ Usable(d, ItemAt(d, p))}
Own(d, kind, id) == {p \in UsableAt(d, kind) : ItemAt(d, p).id = id}

(* IDs that a float holds.                                                 *)
ExactIds(d) == \A p \in ItemPlaces(d) : ItemAt(d, p).id <= Exact

(* A page that refers to a resource gets the first usable one of this very *)
(* ID, over all resource files; without one, a font is the default font    *)
(* and the others are nothing.  So as long as all IDs are numbers that a   *)
(* float can hold: the tables are keyed by StringToFloat.                  *)
OwnResource ==
  answer.kind \in Kinds /\ ExactIds(doc) /\ answer.id <= Exact =>
    LET own == Own(doc, answer.kind, answer.id)
    IN  IF own = {}
          THEN answer.found = IF answer.kind = "Font" /\ systemFont THEN DefaultFont ELSE Nothing
          ELSE \E p \in own : /\ answer.found = ItemAt(doc, p)
                              /\ \A q \in own \ {p} : Before(p, q)

(* The places of the pages that have an ID and a location, and how many of *)
(* them there are up to a place.                                           *)
ListedAt(d) == {k \in 1 .. Len(d.pages) : d.pages[k].id # NoId /\ d.pages[k].loc # ""}
Place(d, k) == Cardinality({j \in ListedAt(d) : j <= k})

(* The first page that was given this ID.                                  *)
FirstOf(d, id, m) ==
  /\ m \in ListedAt(d) /\ d.pages[m].id = id
  /\ \A j \in ListedAt(d) : d.pages[j].id = id => m <= j

TemplateIds(d, n) ==
  {d.common[i].id : i \in {k \in 1 .. Len(d.common) :
     k <= n /\ d.common[k].tag = "TemplatePage" /\ d.common[k].id > 0}}

(* A document that is handed out has all pages of Document.xml that have an *)
(* ID and a location, in this order, and all its templates and annotation  *)
(* files; annotations are lost with the Pages element only.                *)
ListsComplete ==
  phase = "document" =>
    /\ doc.hasPages =>
         /\ Len(pageno2pageid) = Cardinality(ListedAt(doc))
         /\ \A k \in ListedAt(doc) : pageno2pageid[Place(doc, k)] = doc.pages[k].id
    /\ doc.hasPages /\ doc.annots # "" /\ doc.annots \in DOMAIN doc.notes =>
         pageid2annoturl = doc.notes[doc.annots]
    /\ DOMAIN id2templates = TemplateIds(doc, Len(doc.common))

(* The page found for an index is the one of that place among the pages of *)
(* Document.xml that have an ID and a location, under the location that    *)
(* its ID was given first: no page is lost or moved on the way through the *)
(* two tables.  Behind the last page there is none; only an index that     *)
(* equals the number of pages is not told apart.                           *)
PageOfTheIndex ==
  answer.kind = "Page" =>
    LET listed == IF doc.hasPages THEN ListedAt(doc) ELSE {}
    IN  /\ \A k \in listed : Place(doc, k) = answer.id + 1 =>
             \E m \in listed : /\ FirstOf(doc, doc.pages[k].id, m)
                              /\ answer.found = doc.pages[m].loc
        /\ answer.id > Cardinality(listed) => answer.found = Nothing

(* A document is what Document.xml says: its lists are whole, and a page   *)
(* number leads through both tables to the page of that place (Parse,      *)
(* ParsePages, PageUrl).                                                   *)
DocumentAsWritten == ListsComplete /\ PageOfTheIndex

(* The process ends for four reasons only: a DocInfo without a DocID, a    *)
(* resource reference and a template without a location, and a page of a   *)
(* document that has none.                                                 *)
OpeningDeathExplained ==
  phase = "dead" =>
    \/ \E i \in 1 .. Len(pkg) : pkg[i].info = "noid"
    \/ \E i \in 1 .. Len(doc.common) :
         /\ doc.common[i].loc = ""
         /\ doc.common[i].tag = "Res" \/ doc.common[i].id > 0
    \/ /\ answer.kind = "Page" /\ answer.id = 0
       /\ doc.hasPages => ListedAt(doc) = {}

(* Files in which every DocBody has a DocRoot and every FileLoc a location.*)
GoesOn(p) ==
  \A i \in 1 .. Len(p) :
    /\ p[i].root
    /\ \A f \in DOMAIN p[i].doc.notes : \A k \in 1 .. Len(p[i].doc.notes[f]) :
         p[i].doc.notes[f][k].loc # ""

(* Opening a package or a document of such a file comes to an end.         *)
OpeningEnds == (phase \in Parsing /\ GoesOn(pkg)) ~> (phase \notin Parsing)

(* What the interface says of every file: xilou_OpenPackage and            *)
(* xilou_LoadDocument come back, with a handle.                            *)
EveryOpeningEnds == (phase \in Parsing) ~> (phase \notin Parsing)
=============================================================================
