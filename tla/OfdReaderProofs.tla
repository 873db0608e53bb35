-------------------------- MODULE OfdReaderProofs --------------------------
(***************************************************************************)
(* Proofs about OfdReader, for every set of packages and handles.          *)
(*                                                                         *)
(* First what the document's shared area does to the pages (ReaderInv).    *)
(* Then what is on a page (WholeInv): while a page is parsed, what a       *)
(* holder has, followed by what is left of the layer or template at hand,  *)
(* is what the files state up to there.                                    *)
(*                                                                         *)
(* What the files state is a FlattenSeq.  Facts about it are proved from   *)
(* the least length for which they fail (LeastNat).                        *)
(***************************************************************************)
EXTENDS OfdReader, SequenceTheorems, WellFoundedInduction, TLAPS

(* The members of a holder, a page and the position of Parse.              *)
HolderFields == {"made", "rot", "off", "xml", "objs"}
PageFields == {"index", "id", "loc", "area", "holders", "annots"}
RunFields == {"phase", "at", "layer", "slot", "rest", "elems", "dp"}

IsHolder(hd) == DOMAIN hd = HolderFields /\ hd.off \in Int

Shaped(p) ==
  /\ DOMAIN p = PageFields /\ DOMAIN p.holders = Slots
  /\ \A s \in Slots : IsHolder(p.holders[s])
  /\ p.holders["page"].made
  /\ p.area \in Area

(* GroundsAligned of one page.                                             *)
Aligned(p) ==
  \A s \in {"bg", "fg"} :
    p.holders[s].made /\ ~p.holders["page"].rot /\ p.holders["page"].off = 0
      => p.holders[s].off = 0

(* AreaOfThePage of one page of document d; f stands for foreign.          *)
Distinct(d) ==
  \A i, j \in 1 .. Len(d.pages) : d.pages[i].id = d.pages[j].id => i = j
RightArea(p, d, f) ==
  Distinct(d) =>
    LET file == d.files[d.pages[p.index].loc]
        area == IF file.area = NoArea THEN AreaOf(d, DefaultArea) ELSE file.area
    IN  file.area # NoArea \/ ~f =>
          p.area.name = area.name /\ p.area.turned = file.rotated

Good(p, d, f) == Shaped(p) /\ Aligned(p) /\ RightArea(p, d, f)

Empty == \A h \in Handles : pages[h] = NoPage

-----------------------------------------------------------------------------
(* Which handles and pages are there while which calls are under way.      *)
LifeInv ==
  /\ pkg \in Packages
  /\ loads \in Nat /\ job \in Int
  /\ open = "document" => doc \in {pkg[i] : i \in 1 .. Len(pkg)}
  /\ open # "document" => run = Idle /\ job = 0 /\ Empty
  /\ loads = 0 => run = Idle /\ Empty
  /\ job > 0 => Empty /\ job <= Len(doc.pages)
  /\ DOMAIN pages = Handles
  /\ DOMAIN run = RunFields
  /\ run.phase = "idle" => run = Idle

(* The area that all pages share is the document's until one is parsed;    *)
(* while the layers of a page are parsed it is that page's.                *)
SharedAreaInv ==
  /\ docArea \in Box /\ foreign \in BOOLEAN
  /\ open = "document" /\ ~foreign => docArea = AreaOf(doc, DefaultArea)
  /\ open # "document" => ~foreign
  /\ run.phase = "layers" /\ ~cur.holders["page"].rot =>
       cur.area.off = docArea.off /\ cur.holders["page"].off = docArea.off

PagesInv ==
  /\ run.phase # "idle" => Good(cur, doc, foreign)
  /\ \A h \in Handles : pages[h] # NoPage => Good(pages[h], doc, foreign)

ReaderInv == LifeInv /\ SharedAreaInv /\ PagesInv

-----------------------------------------------------------------------------
(* Areas and holders.                                                      *)
LEMMA BoxFacts ==
  ASSUME NEW a \in Box
  PROVE  a \in Area /\ a.off \in Int /\ a.far \in Int /\ a.turned = FALSE
  BY DEF Box, Area

LEMMA DefaultIsBox == DefaultArea \in Box
  BY ReaderAssumption DEF DefaultArea, Box, Area

LEMMA AreaOfIsBox ==
  ASSUME NEW file, file.area \in Box \cup {NoArea}, NEW known \in Box
  PROVE  AreaOf(file, known) \in Box
  BY DEF AreaOf

LEMMA PageAreaFacts ==
  ASSUME NEW file \in File, NEW a \in Box
  PROVE  /\ PageArea(file, a) \in Area
         /\ PageArea(file, a).name = a.name
         /\ PageArea(file, a).turned = file.rotated
         /\ ~file.rotated => PageArea(file, a).off = a.off
<1>1. file.rotated \in BOOLEAN
  BY DEF File
<1>2. CASE file.rotated
  <2>1. PICK n \in AreaNames, o \in Int, f \in Int, t \in BOOLEAN :
          a = [name |-> n, off |-> o, far |-> f, turned |-> t]
    BY BoxFacts DEF Area
  <2>2. PageArea(file, a) = [name |-> n, off |-> 0, far |-> f, turned |-> TRUE]
    BY <1>2, <2>1 DEF PageArea, Turned
  <2>3. PageArea(file, a) \in Area
    BY <2>2 DEF Area
  <2>4. PageArea(file, a).name = a.name /\ PageArea(file, a).turned = TRUE
    BY <2>1, <2>2
  <2>5. file.rotated = TRUE
    BY <1>1, <1>2
  <2> QED BY <2>3, <2>4, <2>5
<1>3. CASE ~file.rotated
  BY <1>1, <1>3, BoxFacts DEF PageArea
<1> QED BY <1>2, <1>3

LEMMA NewHolderFacts ==
  ASSUME NEW file \in File, NEW a \in Box
  PROVE  /\ IsHolder(NewHolder(file, a))
         /\ NewHolder(file, a).made
         /\ NewHolder(file, a).rot = file.rotated
         /\ ~file.rotated => NewHolder(file, a).off = a.off
<1>1. file.rotated \in BOOLEAN /\ a.off \in Int /\ a.far \in Int
  BY BoxFacts DEF File
<1> QED BY <1>1 DEF NewHolder, NoHolder, IsHolder, HolderFields

LEMMA PlacedFacts ==
  ASSUME NEW hd, IsHolder(hd), NEW a \in Box
  PROVE  IsHolder(Placed(hd, a))
  BY BoxFacts DEF Placed, IsHolder, HolderFields

LEMMA NewGroundFacts ==
  ASSUME NEW i, docArea \in Box, cur.area \in Area
  PROVE  /\ IsHolder(NewGround(i))
         /\ NewGround(i).off = docArea.off + cur.area.off
         /\ NewGround(i).made
<1>1. docArea.off \in Int /\ cur.area.off \in Int
  BY BoxFacts DEF Area
<1> QED BY <1>1 DEF NewGround, NoHolder, IsHolder, HolderFields

-----------------------------------------------------------------------------
(* Pages.                                                                  *)

(* An Area that is parsed elsewhere only weakens what a page promises.     *)
LEMMA GoodLater ==
  ASSUME NEW p, NEW d, NEW f \in BOOLEAN, NEW g \in BOOLEAN, f => g, Good(p, d, f)
  PROVE  Good(p, d, g)
  BY DEF Good, RightArea

(* Objects and annotations that are added change nothing of it.            *)
WithObjects(p, s, x) == [p EXCEPT !.holders[s].objs = x]

LEMMA GoodWithObjects ==
  ASSUME NEW p, NEW d, NEW f, NEW s, NEW x, Good(p, d, f)
  PROVE  /\ Good(WithObjects(p, s, x), d, f)
         /\ WithObjects(p, s, x).area = p.area
         /\ WithObjects(p, s, x).holders["page"].rot = p.holders["page"].rot
         /\ WithObjects(p, s, x).holders["page"].off = p.holders["page"].off
<1> DEFINE q == WithObjects(p, s, x)
<1>1. DOMAIN p = PageFields /\ DOMAIN p.holders = Slots
  BY DEF Good, Shaped
<1>2. /\ DOMAIN q = PageFields /\ DOMAIN q.holders = Slots
      /\ q.area = p.area /\ q.index = p.index
  BY <1>1 DEF PageFields, WithObjects
<1>3. ASSUME NEW t \in Slots
      PROVE  /\ DOMAIN q.holders[t] = DOMAIN p.holders[t]
             /\ DOMAIN p.holders[t] = HolderFields =>
                  /\ q.holders[t].made = p.holders[t].made
                  /\ q.holders[t].rot = p.holders[t].rot
                  /\ q.holders[t].off = p.holders[t].off
  <2>1. q.holders = [p.holders EXCEPT ![s].objs = x]
    BY <1>1 DEF PageFields, WithObjects
  <2>2. CASE t = s
    <3>1. q.holders[t] = [p.holders[t] EXCEPT !.objs = x]
      BY <1>1, <2>1, <2>2
    <3> QED BY <3>1 DEF HolderFields
  <2>3. CASE t # s
    BY <1>1, <2>1, <2>3
  <2> QED BY <2>2, <2>3
<1>4. \A t \in Slots : DOMAIN p.holders[t] = HolderFields
  BY DEF Good, Shaped, IsHolder
<1>5. \A t \in Slots : /\ DOMAIN q.holders[t] = HolderFields
                       /\ q.holders[t].made = p.holders[t].made
                       /\ q.holders[t].rot = p.holders[t].rot
                       /\ q.holders[t].off = p.holders[t].off
  BY <1>3, <1>4
<1> HIDE DEF q
<1>6. "page" \in Slots /\ "bg" \in Slots /\ "fg" \in Slots
  BY DEF Slots
<1>7. Shaped(q)
  BY <1>2, <1>5, <1>6 DEF Good, Shaped, IsHolder
<1>8. Aligned(q)
  BY <1>5, <1>6 DEF Good, Aligned
<1>9. RightArea(q, d, f)
  BY <1>2 DEF Good, RightArea
<1> QED BY <1>2, <1>5, <1>6, <1>7, <1>8, <1>9 DEF Good, q

LEMMA GoodWithAnnots ==
  ASSUME NEW p, NEW d, NEW f, NEW x, Good(p, d, f)
  PROVE  LET q == [p EXCEPT !.annots = x]
         IN  Good(q, d, f) /\ q.area = p.area /\ q.holders = p.holders
<1> DEFINE q == [p EXCEPT !.annots = x]
<1>1. /\ DOMAIN q = PageFields /\ q.holders = p.holders
      /\ q.area = p.area /\ q.index = p.index
  BY DEF Good, Shaped, PageFields
<1> HIDE DEF q
<1>2. Good(q, d, f)
  BY <1>1 DEF Good, Shaped, Aligned, RightArea
<1> QED BY <1>1, <1>2 DEF q

(* A holder other than the page's own may be replaced by one that is       *)
(* aligned with the page.                                                  *)
LEMMA GoodWithHolder ==
  ASSUME NEW p, NEW d, NEW f, Good(p, d, f), NEW s \in Slots, NEW hd, IsHolder(hd),
         s = "page" => hd = p.holders["page"],
         s \in {"bg", "fg"} /\ hd.made /\ ~p.holders["page"].rot
           /\ p.holders["page"].off = 0 => hd.off = 0
  PROVE  LET q == [p EXCEPT !.holders[s] = hd]
         IN  Good(q, d, f) /\ q.area = p.area
             /\ q.holders["page"] = p.holders["page"]
<1> DEFINE q == [p EXCEPT !.holders[s] = hd]
<1>1. DOMAIN p = PageFields /\ DOMAIN p.holders = Slots
  BY DEF Good, Shaped
<1>2. /\ DOMAIN q = PageFields /\ DOMAIN q.holders = Slots
      /\ q.area = p.area /\ q.index = p.index
      /\ q.holders = [p.holders EXCEPT ![s] = hd]
  BY <1>1 DEF PageFields
<1> HIDE DEF q
<1>3. \A t \in Slots : q.holders[t] = IF t = s THEN hd ELSE p.holders[t]
  BY <1>1, <1>2
<1>4. "page" \in Slots /\ "bg" \in Slots /\ "fg" \in Slots
  BY DEF Slots
<1>5. q.holders["page"] = p.holders["page"]
  BY <1>3, <1>4
<1>6. Shaped(q)
  BY <1>2, <1>3, <1>4, <1>5 DEF Good, Shaped
<1>7. Aligned(q)
  BY <1>3, <1>4, <1>5 DEF Good, Aligned
<1>8. RightArea(q, d, f)
  BY <1>2 DEF Good, RightArea
<1> QED BY <1>2, <1>5, <1>6, <1>7, <1>8 DEF Good, q

(* What COFD_Document::LoadPage reads: the file of the page asked for, if   *)
(* IDs are distinct.                                                       *)
LEMMA FilesTyped ==
  ASSUME NEW p \in Packages, NEW d \in {p[i] : i \in 1 .. Len(p)}
  PROVE  /\ d.area \in Box \cup {NoArea}
         /\ \A loc \in DOMAIN d.files : /\ d.files[loc] \in File
                                        /\ d.files[loc].area \in Box \cup {NoArea}
<1>1. IsDocument(d)
  BY ReaderAssumption
<1>2. \A loc \in DOMAIN d.files : d.files[loc] \in File
  BY <1>1 DEF IsDocument
<1> QED BY <1>1, <1>2 DEF IsDocument, File

LEMMA FirstOfDistinct ==
  ASSUME NEW d, Distinct(d), NEW n \in 1 .. Len(d.pages)
  PROVE  FirstLoc(d.pages, d.pages[n].id) = d.pages[n].loc
<1> DEFINE hits == {i \in 1 .. Len(d.pages) : d.pages[i].id = d.pages[n].id}
<1>1. hits = {n}
  BY DEF Distinct
<1>2. (CHOOSE i \in hits : \A k \in hits : i <= k) = n
  BY <1>1
<1> QED BY <1>1, <1>2 DEF FirstLoc

(* The constructor of a page gives it its area and an own holder that is   *)
(* placed by it.                                                           *)
LEMMA StartPageGood ==
  ASSUME LifeInv, SharedAreaInv, open = "document",
         NEW n \in 1 .. Len(doc.pages),
         Found(FirstLoc(doc.pages, doc.pages[n].id)),
         StartPage(n, FirstLoc(doc.pages, doc.pages[n].id))
  PROVE  /\ Good(cur', doc, foreign')
         /\ docArea' \in Box /\ foreign' \in BOOLEAN /\ (foreign => foreign')
         /\ ~foreign' => docArea' = AreaOf(doc, DefaultArea)
         /\ ~cur'.holders["page"].rot => /\ cur'.area.off = docArea'.off
                                         /\ cur'.holders["page"].off = docArea'.off
         /\ run' = [Idle EXCEPT !.phase = "layers"]
<1> DEFINE loc == FirstLoc(doc.pages, doc.pages[n].id)
           file == doc.files[loc]
           a == AreaOf(file, docArea)
<1>1. file \in File /\ file.area \in Box \cup {NoArea} /\ file.rotated \in BOOLEAN
  <2>1. loc \in DOMAIN doc.files
    BY DEF Found
  <2>2. file \in File /\ file.area \in Box \cup {NoArea}
    BY <2>1, FilesTyped DEF LifeInv
  <2> QED BY <2>2 DEF File
<1>2. a \in Box
  BY <1>1, AreaOfIsBox DEF SharedAreaInv
<1>3. /\ docArea' = a /\ foreign' = (foreign \/ file.area # NoArea)
      /\ cur' = [index |-> n, id |-> doc.pages[n].id, loc |-> loc,
                 area |-> PageArea(file, a),
                 holders |-> [s \in Slots |-> IF s = "page" THEN NewHolder(file, a)
                                              ELSE NoHolder],
                 annots |-> <<>>]
      /\ run' = [Idle EXCEPT !.phase = "layers"]
  BY DEF StartPage
<1> HIDE DEF file, a
<1>4. /\ DOMAIN cur' = PageFields /\ DOMAIN cur'.holders = Slots
      /\ cur'.area = PageArea(file, a) /\ cur'.index = n
      /\ \A s \in Slots : cur'.holders[s] = IF s = "page" THEN NewHolder(file, a)
                                            ELSE NoHolder
  BY <1>3 DEF PageFields
<1>5. "page" \in Slots /\ "bg" \in Slots /\ "fg" \in Slots
  BY DEF Slots
<1>6. IsHolder(NoHolder) /\ NoHolder.made = FALSE
  BY DEF NoHolder, IsHolder, HolderFields
<1>7. Shaped(cur')
  BY <1>1, <1>2, <1>4, <1>5, <1>6, NewHolderFacts, PageAreaFacts DEF Shaped
<1>8. Aligned(cur')
  BY <1>4, <1>5, <1>6 DEF Aligned
<1>9. RightArea(cur', doc, foreign')
  <2> SUFFICES ASSUME Distinct(doc), file.area # NoArea \/ ~foreign'
               PROVE  LET area == IF file.area = NoArea THEN AreaOf(doc, DefaultArea)
                                  ELSE file.area
                      IN  /\ cur'.area.name = area.name
                          /\ cur'.area.turned = file.rotated
    <3>1. Distinct(doc) => doc.files[doc.pages[cur'.index].loc] = file
      BY <1>4, FirstOfDistinct DEF file
    <3> QED BY <3>1 DEF RightArea
  <2>1. a = IF file.area = NoArea THEN AreaOf(doc, DefaultArea) ELSE file.area
    BY <1>3 DEF a, AreaOf, SharedAreaInv
  <2> QED BY <1>1, <1>2, <1>4, <2>1, PageAreaFacts
<1>10. ~foreign' => docArea' = AreaOf(doc, DefaultArea)
  BY <1>3 DEF a, AreaOf, SharedAreaInv
<1>11. ~cur'.holders["page"].rot => /\ cur'.area.off = docArea'.off
                                    /\ cur'.holders["page"].off = docArea'.off
  BY <1>1, <1>2, <1>3, <1>4, <1>5, NewHolderFacts, PageAreaFacts
<1>12. foreign' \in BOOLEAN /\ (foreign => foreign')
  BY <1>3 DEF SharedAreaInv
<1> QED BY <1>2, <1>3, <1>7, <1>8, <1>9, <1>10, <1>11, <1>12 DEF Good

-----------------------------------------------------------------------------
(* The invariant holds initially and every step keeps it.                  *)
LEMMA IdleFacts ==
  /\ DOMAIN Idle = RunFields /\ Idle.phase = "idle" /\ Idle.elems = <<>>
  /\ \A x : DOMAIN [Idle EXCEPT !.phase = x] = RunFields
  /\ \A x : [Idle EXCEPT !.phase = x].phase = x
  BY DEF Idle, RunFields

LEMMA ReaderInit == Init => ReaderInv
<1> SUFFICES ASSUME Init PROVE ReaderInv
  OBVIOUS
<1>1. Empty /\ DOMAIN pages = Handles
  BY DEF Init, Empty
<1>2. LifeInv
  BY <1>1, IdleFacts DEF Init, LifeInv
<1>3. SharedAreaInv
  BY IdleFacts, DefaultIsBox DEF Init, SharedAreaInv
<1>4. PagesInv
  BY <1>1, IdleFacts DEF Init, PagesInv, Empty
<1> QED BY <1>2, <1>3, <1>4 DEF ReaderInv

(* Parsing happens in an open document, after a load.                      *)
LEMMA Parsing ==
  ASSUME ReaderInv, run.phase # "idle"
  PROVE  open = "document" /\ loads # 0 /\ Good(cur, doc, foreign)
  BY IdleFacts DEF ReaderInv, LifeInv, PagesInv

LEMMA HeldLater ==
  ASSUME ReaderInv, doc' = doc, pages' = pages, foreign' \in BOOLEAN,
         foreign => foreign'
  PROVE  \A h \in Handles : pages'[h] # NoPage => Good(pages'[h], doc', foreign')
  BY GoodLater DEF ReaderInv, PagesInv, SharedAreaInv

(* A step of Parse that leaves the shared area alone.                      *)
LEMMA ParseStep ==
  ASSUME ReaderInv, run.phase # "idle",
         UNCHANGED <<session, docArea, pages, loads, job, foreign>>,
         DOMAIN run' = RunFields, run'.phase # "idle",
         Good(cur', doc, foreign),
         run'.phase = "layers" =>
           /\ run.phase = "layers" /\ cur'.area = cur.area
           /\ cur'.holders["page"].rot = cur.holders["page"].rot
           /\ cur'.holders["page"].off = cur.holders["page"].off
  PROVE  ReaderInv'
<1>1. LifeInv'
  BY Parsing DEF ReaderInv, LifeInv, Empty, session
<1>2. SharedAreaInv'
  BY DEF ReaderInv, SharedAreaInv, session
<1>3. PagesInv'
  BY HeldLater DEF ReaderInv, PagesInv, SharedAreaInv, session
<1> QED BY <1>1, <1>2, <1>3 DEF ReaderInv

(* Steps of the client that leave no page and parse none.                  *)
LEMMA QuietStep ==
  ASSUME ReaderInv, pkg' = pkg, UNCHANGED <<cur, run, pages>>, run = Idle, Empty,
         loads' \in Nat, job' \in Int, job' > 0 => job' <= Len(doc'.pages),
         open' = "document" => doc' \in {pkg[i] : i \in 1 .. Len(pkg)},
         open' # "document" => job' = 0 /\ foreign' = FALSE,
         docArea' \in Box, foreign' \in BOOLEAN,
         open' = "document" /\ ~foreign' => docArea' = AreaOf(doc', DefaultArea)
  PROVE  ReaderInv'
<1>1. Empty' /\ run' = Idle
  BY DEF Empty
<1>2. LifeInv'
  BY <1>1, IdleFacts DEF ReaderInv, LifeInv
<1>3. SharedAreaInv'
  BY <1>1, IdleFacts DEF SharedAreaInv
<1>4. PagesInv'
  BY <1>1, IdleFacts DEF PagesInv, Empty
<1> QED BY <1>2, <1>3, <1>4 DEF ReaderInv

LEMMA ClientStep ==
  ASSUME ReaderInv,
         \/ OpenPackage \/ ClosePackage \/ DropDocument
         \/ \E i \in 1 .. Len(pkg) : LoadDocument(i)
         \/ StartConvert \/ ConvertDies
  PROVE  ReaderInv'
<1>1. CASE OpenPackage
  BY <1>1, QuietStep DEF OpenPackage, ReaderInv, LifeInv, SharedAreaInv
<1>2. CASE ClosePackage
  BY <1>2, QuietStep DEF ClosePackage, ReaderInv, LifeInv, SharedAreaInv
<1>3. CASE DropDocument
  <2>1. /\ UNCHANGED <<pkg, cur, run, pages>> /\ run = Idle /\ Empty
        /\ open' = "package" /\ job' = 0 /\ loads' = 0
        /\ docArea' = DefaultArea /\ foreign' = FALSE
    BY <1>3 DEF DropDocument, Empty
  <2>2. loads' \in Nat /\ job' \in Int /\ ~(job' > 0) /\ docArea' \in Box
    BY <2>1, DefaultIsBox
  <2> QED BY <2>1, <2>2, QuietStep
<1>4. ASSUME NEW i \in 1 .. Len(pkg), LoadDocument(i) PROVE ReaderInv'
  <2>1. AreaOf(pkg[i], DefaultArea) \in Box
    <3>1. pkg[i].area \in Box \cup {NoArea}
      BY FilesTyped DEF ReaderInv, LifeInv
    <3> QED BY <3>1, AreaOfIsBox, DefaultIsBox
  <2>2. doc' \in {pkg[k] : k \in 1 .. Len(pkg)}
    BY <1>4 DEF LoadDocument
  <2> QED BY <1>4, <2>1, <2>2, QuietStep
          DEF LoadDocument, ReaderInv, LifeInv, SharedAreaInv
<1>5. CASE StartConvert
  <2>1. job' \in Int /\ job' = Len(doc'.pages)
    BY <1>5 DEF StartConvert, session
  <2> QED BY <1>5, <2>1, QuietStep DEF StartConvert, ReaderInv, LifeInv,
             SharedAreaInv, session
<1>6. CASE ConvertDies
  <2>1. /\ UNCHANGED <<pkg, cur, run, pages>> /\ run = Idle /\ Empty
        /\ open' = "none" /\ job' = 0 /\ loads' = 0
        /\ docArea' = DefaultArea /\ foreign' = FALSE
    BY <1>6 DEF ConvertDies, ReaderInv, LifeInv
  <2>2. loads' \in Nat /\ job' \in Int /\ ~(job' > 0) /\ docArea' \in Box
    BY <2>1, DefaultIsBox
  <2> QED BY <2>1, <2>2, QuietStep
<1> QED BY <1>1, <1>2, <1>3, <1>4, <1>5, <1>6

(* A page that is started, by the client or by ofd2pdf.                    *)
LEMMA StartStep ==
  ASSUME ReaderInv, open = "document", NEW n \in 1 .. Len(doc.pages),
         Found(FirstLoc(doc.pages, doc.pages[n].id)),
         StartPage(n, FirstLoc(doc.pages, doc.pages[n].id)),
         loads' = loads + 1, UNCHANGED <<session, pages, job>>
  PROVE  ReaderInv'
<1>1. /\ Good(cur', doc, foreign')
      /\ docArea' \in Box /\ foreign' \in BOOLEAN /\ (foreign => foreign')
      /\ ~foreign' => docArea' = AreaOf(doc, DefaultArea)
      /\ ~cur'.holders["page"].rot => /\ cur'.area.off = docArea'.off
                                      /\ cur'.holders["page"].off = docArea'.off
      /\ run' = [Idle EXCEPT !.phase = "layers"]
  BY StartPageGood DEF ReaderInv
<1>2. /\ run'.phase = "layers" /\ DOMAIN run' = RunFields
      /\ pkg' = pkg /\ open' = open /\ doc' = doc
  BY <1>1, IdleFacts DEF session
<1>3. LifeInv'
  BY <1>2 DEF ReaderInv, LifeInv, Empty
<1>4. SharedAreaInv'
  BY <1>1, <1>2 DEF SharedAreaInv
<1>5. PagesInv'
  BY <1>1, <1>2, HeldLater DEF PagesInv
<1> QED BY <1>3, <1>4, <1>5 DEF ReaderInv

LEMMA LoadStep ==
  ASSUME ReaderInv,
         \/ \E h \in Handles : \E n \in 1 .. Len(doc.pages) : LoadPage(h, n)
         \/ ConvertLoad
  PROVE  ReaderInv'
<1>1. ASSUME NEW h \in Handles, NEW n \in 1 .. Len(doc.pages), LoadPage(h, n)
      PROVE  ReaderInv'
  <2>1. CASE Found(FirstLoc(doc.pages, doc.pages[n].id))
    BY <1>1, <2>1, StartStep DEF LoadPage
  <2>2. CASE ~Found(FirstLoc(doc.pages, doc.pages[n].id))
    <3>1. /\ UNCHANGED <<session, docArea, cur, run, pages, job, foreign>>
          /\ run = Idle /\ loads' = loads + 1 /\ open = "document"
      BY <1>1, <2>2 DEF LoadPage
    <3>2. LifeInv'
      BY <3>1 DEF ReaderInv, LifeInv, Empty, session
    <3>3. SharedAreaInv' /\ PagesInv'
      BY <3>1 DEF ReaderInv, SharedAreaInv, PagesInv, session
    <3> QED BY <3>2, <3>3 DEF ReaderInv
  <2> QED BY <2>1, <2>2
<1>2. CASE ConvertLoad
  <2>1. job \in Nat \ {0} /\ open = "document"
    BY <1>2 DEF ConvertLoad, ReaderInv, LifeInv
  <2>2. job \in 1 .. Len(doc.pages)
    BY <1>2 DEF ConvertLoad, ReaderInv, LifeInv
  <2> QED BY <1>2, <2>1, <2>2, StartStep DEF ConvertLoad
<1> QED BY <1>1, <1>2

(* The steps of Parse.                                                     *)
LEMMA ElementStep ==
  ASSUME ReaderInv, ParseElement
  PROVE  ReaderInv'
<1>1. run.phase # "idle"
  BY IdleFacts DEF ParseElement, ReaderInv, LifeInv
<1>2. Good(cur, doc, foreign)
  BY <1>1, Parsing
<1>3. DOMAIN run' = RunFields /\ run'.phase = run.phase
  BY DEF ParseElement, ReaderInv, LifeInv, RunFields
<1>4. /\ Good(cur', doc, foreign) /\ cur'.area = cur.area
      /\ cur'.holders["page"].rot = cur.holders["page"].rot
      /\ cur'.holders["page"].off = cur.holders["page"].off
  <2>1. CASE run.slot = "annot"
    <3>1. PICK g \in Garbage :
            cur' = [cur EXCEPT !.annots[Len(cur.annots)].objs = @ \o
                      Parsed(Head(run.elems), cur.annots[Len(cur.annots)], run.dp, g)]
      BY <2>1 DEF ParseElement
    <3> DEFINE x == [cur.annots EXCEPT ![Len(cur.annots)].objs = @ \o
                      Parsed(Head(run.elems), cur.annots[Len(cur.annots)], run.dp, g)]
    <3>2. cur' = [cur EXCEPT !.annots = x]
      BY <3>1
    <3>3. ASSUME NEW y
          PROVE  LET q == [cur EXCEPT !.annots = y]
                 IN  Good(q, doc, foreign) /\ q.area = cur.area /\ q.holders = cur.holders
      BY <1>2, GoodWithAnnots
    <3> HIDE DEF x
    <3> QED BY <3>2, <3>3
  <2>2. CASE run.slot # "annot"
    <3>1. PICK g \in Garbage :
            cur' = [cur EXCEPT !.holders[run.slot].objs = @ \o
                      Parsed(Head(run.elems), cur.holders[run.slot], run.dp, g)]
      BY <2>2 DEF ParseElement
    <3> DEFINE x == cur.holders[run.slot].objs \o
                      Parsed(Head(run.elems), cur.holders[run.slot], run.dp, g)
    <3>2. cur' = [cur EXCEPT !.holders[run.slot].objs = x]
      BY <3>1
    <3> HIDE DEF x
    <3>3. cur' = WithObjects(cur, run.slot, x)
      BY <3>2 DEF WithObjects
    <3> QED BY <1>2, <3>3, GoodWithObjects
  <2> QED BY <2>1, <2>2
<1>5. UNCHANGED <<session, docArea, pages, loads, job, foreign>>
  BY DEF ParseElement
<1> QED BY <1>1, <1>3, <1>4, <1>5, ParseStep

LEMMA LayerStep ==
  ASSUME ReaderInv, NextLayer
  PROVE  ReaderInv'
<1>1. run.phase = "layers"
  BY DEF NextLayer, AtEnd
<1>2. Good(cur, doc, foreign)
  BY <1>1, Parsing
<1> DEFINE i == run.layer + 1
           s == GroundSlot(PageFile.layers[i].type)
           hd == IF cur.holders[s].made THEN cur.holders[s] ELSE NewGround(i)
<1>3. cur' = [cur EXCEPT !.holders[s] = hd]
  BY DEF NextLayer
<1>4. DOMAIN run' = RunFields /\ run'.phase = "layers"
  BY <1>1 DEF NextLayer, ReaderInv, LifeInv, RunFields
<1>5. UNCHANGED <<session, docArea, pages, loads, job, foreign>>
  BY DEF NextLayer
<1>6. s \in {"page", "bg", "fg"} /\ s \in Slots
  BY DEF GroundSlot, Slots
<1>7. /\ docArea \in Box /\ cur.area \in Area
      /\ ~cur.holders["page"].rot => /\ cur.area.off = docArea.off
                                     /\ cur.holders["page"].off = docArea.off
  BY <1>1, <1>2 DEF ReaderInv, SharedAreaInv, Good, Shaped
<1>8. /\ IsHolder(NewGround(i)) /\ NewGround(i).off = docArea.off + cur.area.off
  BY <1>7, NewGroundFacts
<1> HIDE DEF s, i
<1>9. IsHolder(hd) /\ (s = "page" => hd = cur.holders["page"])
  BY <1>2, <1>6, <1>8 DEF Good, Shaped
<1>10. s \in {"bg", "fg"} /\ hd.made /\ ~cur.holders["page"].rot
         /\ cur.holders["page"].off = 0 => hd.off = 0
  BY <1>2, <1>7, <1>8 DEF Good, Aligned
<1> HIDE DEF hd
<1>11. /\ Good(cur', doc, foreign) /\ cur'.area = cur.area
       /\ cur'.holders["page"] = cur.holders["page"]
  BY <1>2, <1>3, <1>6, <1>9, <1>10, GoodWithHolder
<1> QED BY <1>1, <1>4, <1>5, <1>11, ParseStep

LEMMA TemplateStep ==
  ASSUME ReaderInv, NextTemplate
  PROVE  ReaderInv'
<1>1. run.phase = "templates"
  BY DEF NextTemplate, AtEnd
<1>2. Good(cur, doc, foreign) /\ open = "document" /\ loads # 0
  BY <1>1, Parsing
<1> DEFINE u == PageFile.uses[run.at + 1]
           s == TemplateSlot(u.z)
           file == doc.files[TemplateLoc(u)]
           a == AreaOf(file, docArea)
           hd == IF cur.holders[s].made THEN cur.holders[s] ELSE NewHolder(file, a)
<1>3. DOMAIN run' = RunFields /\ run'.phase = "templates"
  BY <1>1 DEF NextTemplate, ReaderInv, LifeInv, RunFields
<1>4. UNCHANGED <<session, pages, loads, job>>
  BY DEF NextTemplate
<1>5. CASE ~Found(TemplateLoc(u))
  <2>1. UNCHANGED <<docArea, foreign, cur>>
    BY <1>5 DEF NextTemplate
  <2> QED BY <1>1, <1>2, <1>3, <1>4, <2>1, ParseStep
<1>6. CASE Found(TemplateLoc(u))
  <2>1. /\ docArea' = a /\ foreign' = (foreign \/ file.area # NoArea)
        /\ cur' = [cur EXCEPT !.holders[s] = Placed(hd, a)]
    BY <1>6 DEF NextTemplate
  <2>2. file \in File /\ file.area \in Box \cup {NoArea}
    BY <1>2, <1>6, FilesTyped DEF Found, ReaderInv, LifeInv
  <2>3. a \in Box
    BY <2>2, AreaOfIsBox DEF ReaderInv, SharedAreaInv
  <2>4. s \in {"bgT", "fgT", "bodyT"} /\ s \in Slots
    BY DEF TemplateSlot, Slots
  <2>5. /\ foreign' \in BOOLEAN /\ (foreign => foreign')
        /\ ~foreign' => docArea' = AreaOf(doc, DefaultArea)
    BY <1>2, <2>1 DEF AreaOf, ReaderInv, SharedAreaInv
  <2> HIDE DEF s, file, a
  <2>6. IsHolder(Placed(hd, a))
    <3>1. IsHolder(hd)
      BY <1>2, <2>2, <2>3, <2>4, NewHolderFacts DEF Good, Shaped
    <3> HIDE DEF hd
    <3> QED BY <2>3, <3>1, PlacedFacts
  <2> HIDE DEF hd
  <2>7. Good(cur', doc, foreign)
    BY <1>2, <2>1, <2>4, <2>6, GoodWithHolder
  <2>8. Good(cur', doc, foreign')
    BY <2>5, <2>7, GoodLater DEF ReaderInv, SharedAreaInv
  <2>9. LifeInv'
    BY <1>2, <1>3, <1>4 DEF ReaderInv, LifeInv, Empty, session
  <2>10. SharedAreaInv'
    BY <1>2, <1>3, <1>4, <2>1, <2>3, <2>5 DEF SharedAreaInv, session
  <2>11. PagesInv'
    BY <1>4, <2>5, <2>8, HeldLater DEF PagesInv, session
  <2> QED BY <2>9, <2>10, <2>11 DEF ReaderInv
<1> QED BY <1>5, <1>6

(* The steps of Parse that only move on.                                   *)
LEMMA MoveStep ==
  ASSUME ReaderInv,
         EndOfLayers \/ NextTemplateLayer \/ EndOfTemplates \/ NextAnnotFile
  PROVE  ReaderInv'
<1>1. run.phase # "idle" /\ UNCHANGED <<session, docArea, cur, pages, loads, job, foreign>>
  BY DEF EndOfLayers, NextTemplateLayer, EndOfTemplates, NextAnnotFile, AtEnd
<1>2. DOMAIN run' = RunFields /\ run'.phase \in {"templates", "annots"}
  BY DEF EndOfLayers, NextTemplateLayer, EndOfTemplates, NextAnnotFile, AtEnd,
         Idle, ReaderInv, LifeInv, RunFields
<1>3. Good(cur', doc, foreign)
  BY <1>1, Parsing
<1> QED BY <1>1, <1>2, <1>3, ParseStep

LEMMA AnnotStep ==
  ASSUME ReaderInv, NextAnnot
  PROVE  ReaderInv'
<1>1. run.phase = "annots" /\ UNCHANGED <<session, docArea, pages, loads, job, foreign>>
  BY DEF NextAnnot, AtEnd
<1>2. Good(cur, doc, foreign)
  BY <1>1, Parsing
<1>3. DOMAIN run' = RunFields /\ run'.phase = "annots"
  BY <1>1 DEF NextAnnot, ReaderInv, LifeInv, RunFields
<1>4. Good(cur', doc, foreign)
  <2>1. CASE Head(run.rest).shown
    <3> DEFINE x == Append(cur.annots, NewAnnot(Head(run.rest)))
    <3>1. cur' = [cur EXCEPT !.annots = x]
      BY <2>1 DEF NextAnnot
    <3> HIDE DEF x
    <3> QED BY <1>2, <3>1, GoodWithAnnots
  <2>2. CASE ~Head(run.rest).shown
    BY <1>2, <2>2 DEF NextAnnot
  <2> QED BY <2>1, <2>2
<1> QED BY <1>1, <1>3, <1>4, ParseStep

(* The page that was parsed is given to the client or to the PDF.          *)
LEMMA DoneStep ==
  ASSUME ReaderInv, PageLoaded \/ ConvertPage
  PROVE  ReaderInv'
<1>1. /\ run.phase = "annots" /\ run' = Idle
      /\ UNCHANGED <<session, docArea, loads, foreign>>
  BY DEF PageLoaded, ConvertPage, AllParsed, AtEnd
<1>2. Good(cur, doc, foreign) /\ open = "document" /\ loads # 0
  BY <1>1, Parsing
<1>3. SharedAreaInv'
  BY <1>1, <1>2, IdleFacts DEF ReaderInv, SharedAreaInv, session
<1>4. CASE PageLoaded
  <2>1. pages' = [pages EXCEPT ![handle] = cur] /\ job' = job /\ job = 0
    BY <1>4 DEF PageLoaded
  <2>2. LifeInv'
    BY <1>1, <1>2, <2>1, IdleFacts DEF ReaderInv, LifeInv, session
  <2>3. PagesInv'
    BY <1>1, <1>2, <2>1, IdleFacts DEF ReaderInv, LifeInv, PagesInv, session
  <2> QED BY <1>3, <2>2, <2>3 DEF ReaderInv
<1>5. CASE ConvertPage
  <2>1. pages' = pages /\ job' = job - 1 /\ job > 0
    BY <1>5 DEF ConvertPage
  <2>2. LifeInv'
    BY <1>1, <1>2, <2>1, IdleFacts DEF ReaderInv, LifeInv, Empty, session
  <2>3. PagesInv'
    BY <1>1, <2>1, IdleFacts DEF ReaderInv, PagesInv, session
  <2> QED BY <1>3, <2>2, <2>3 DEF ReaderInv
<1> QED BY <1>4, <1>5

LEMMA DropStep ==
  ASSUME ReaderInv, NEW h \in Handles, DropPage(h)
  PROVE  ReaderInv'
<1>1. /\ pages[h] # NoPage /\ pages' = [pages EXCEPT ![h] = NoPage]
      /\ UNCHANGED <<session, docArea, cur, run, loads, job, foreign>>
  BY DEF DropPage
<1>2. ~Empty
  BY <1>1 DEF Empty
<1>3. LifeInv'
  BY <1>1, <1>2 DEF ReaderInv, LifeInv, session
<1>4. SharedAreaInv'
  BY <1>1 DEF ReaderInv, SharedAreaInv, session
<1>5. PagesInv'
  BY <1>1 DEF ReaderInv, LifeInv, PagesInv, session
<1> QED BY <1>3, <1>4, <1>5 DEF ReaderInv

LEMMA ReaderStep == ReaderInv /\ [Next]_vars => ReaderInv'
<1> SUFFICES ASSUME ReaderInv, [Next]_vars PROVE ReaderInv'
  OBVIOUS
<1>1. CASE UNCHANGED vars
  BY <1>1 DEF vars, session, ReaderInv, LifeInv, SharedAreaInv, PagesInv, Empty
<1>2. CASE Next
  BY <1>2, ClientStep, LoadStep, DropStep, ElementStep, LayerStep, TemplateStep,
     MoveStep, AnnotStep, DoneStep DEF Next
<1> QED BY <1>1, <1>2

LEMMA ReaderInvariant == Spec => []ReaderInv
  BY ReaderInit, ReaderStep, PTL DEF Spec

-----------------------------------------------------------------------------
(* Every page a client holds has the Area of its own file, in whichever    *)
(* order the pages of the document are loaded, dropped and converted, and  *)
(* however many: an Area another page or template left in the document's   *)
(* bbox_ only shows on a page that has none (COFD_Document::ParseArea and  *)
(* the constructor of COFD_Page).                                          *)
THEOREM PagesKeepTheirArea == Spec => []AreaOfThePage
<1>1. ReaderInv => AreaOfThePage
  BY DEF ReaderInv, PagesInv, Good, RightArea, Distinct, AreaOfThePage,
         DistinctPages, OwnFile, Held
<1> QED BY <1>1, ReaderInvariant, PTL

(* The background and the foreground of an unrotated page whose own        *)
(* objects start at 0 start there too, whichever pages and templates moved *)
(* the shared bbox_ before (SetPageArea).                                  *)
THEOREM GroundsStayAligned == Spec => []GroundsAligned
<1>1. ReaderInv => GroundsAligned
  BY DEF ReaderInv, PagesInv, Good, Aligned, GroundsAligned, Held
<1> QED BY <1>1, ReaderInvariant, PTL

-----------------------------------------------------------------------------
(* FlattenSeq.  It is defined by a recursive function, chosen in a LET.    *)

(* Induction is the search for the least counterexample.                   *)
LEMMA LeastNat ==
  ASSUME NEW T, T \subseteq Nat, T # {}
  PROVE  \E x \in T : \A y \in T : x <= y
<1> DEFINE R == OpToRel(<, Nat)
<1>1. IsWellFoundedOn(R, Nat)
  BY NatLessThanWellFounded
<1>2. R = {ss \in Nat \X Nat : ss[1] < ss[2]}
  BY DEF OpToRel
<1> HIDE DEF R
<1>3. PICK x \in T : \A y \in T : ~ (<<y, x>> \in R)
  BY <1>1, WFMin
<1>4. \A y \in T : ~(y < x)
  BY <1>2, <1>3
<1>5. QED
  BY <1>4

(* g concatenates the first n sequences of s one by one, as FlattenSeq does. *)
Turn(g, s, i) == IF i = 1 THEN s[i] ELSE g[i - 1] \o s[i]
Cat(g, s, n) == g = [i \in 1 .. n |-> Turn(g, s, i)]

LEMMA CatValue ==
  ASSUME NEW g, NEW s, NEW n \in Nat, Cat(g, s, n), NEW i \in 1 .. n
  PROVE  g[i] = Turn(g, s, i)
  BY DEF Cat

LEMMA CatUnique ==
  ASSUME NEW g, NEW s, NEW m \in Nat, Cat(g, s, m),
         NEW h, NEW t, NEW k \in Nat, Cat(h, t, k),
         NEW n \in 1 .. m, n <= k, \A i \in 1 .. n : s[i] = t[i]
  PROVE  g[n] = h[n]
<1> DEFINE T == {j \in Nat : j \in 1 .. n /\ g[j] # h[j]}
<1>1. SUFFICES ASSUME T # {} PROVE FALSE
  OBVIOUS
<1>2. PICK x \in T : \A y \in T : x <= y
  BY <1>1, LeastNat
<1>3. x \in 1 .. n /\ x \in 1 .. m /\ x \in 1 .. k /\ g[x] # h[x] /\ s[x] = t[x]
  BY <1>2
<1>4. g[x] = Turn(g, s, x) /\ h[x] = Turn(h, t, x)
  BY <1>3, CatValue
<1>5. x # 1
  BY <1>3, <1>4 DEF Turn
<1>6. x - 1 \in 1 .. n /\ x - 1 \notin T
  BY <1>2, <1>3, <1>5
<1>7. g[x - 1] = h[x - 1]
  BY <1>6
<1>8. QED
  BY <1>3, <1>4, <1>5, <1>7 DEF Turn

LEMMA CatExists == ASSUME NEW s, NEW n \in Nat PROVE \E g : Cat(g, s, n)
<1> DEFINE T == {j \in Nat : ~ \E g : Cat(g, s, j)}
<1>1. SUFFICES ASSUME T # {} PROVE FALSE
  OBVIOUS
<1>2. PICK x \in T : \A y \in T : x <= y
  BY <1>1, LeastNat
<1>3. x \in Nat /\ ~ \E g : Cat(g, s, x)
  BY <1>2
<1>4. CASE x = 0
  <2> DEFINE g == [i \in 1 .. 0 |-> 0]
  <2>1. g = [i \in 1 .. 0 |-> Turn(g, s, i)]
    OBVIOUS
  <2> QED BY <1>3, <1>4, <2>1 DEF Cat
<1>5. CASE x # 0
  <2> DEFINE w == x - 1
  <2>1. w \in Nat /\ w \notin T
    BY <1>2, <1>3, <1>5
  <2>2. PICK f : Cat(f, s, w)
    BY <2>1
  <2> DEFINE g == [i \in 1 .. x |-> Turn(f, s, i)]
  <2>3. \A i \in 1 .. w : g[i] = f[i]
    BY <1>3, <2>1, <2>2, CatValue
  <2>4. \A i \in 1 .. x : Turn(f, s, i) = Turn(g, s, i)
    <3> SUFFICES ASSUME NEW i \in 1 .. x, i # 1 PROVE Turn(f, s, i) = Turn(g, s, i)
      BY DEF Turn
    <3>1. i - 1 \in 1 .. w
      BY <1>3
    <3>2. f[i - 1] = g[i - 1]
      BY <2>3, <3>1
    <3> HIDE DEF g
    <3> QED BY <3>2 DEF Turn
  <2>5. g = [i \in 1 .. x |-> Turn(g, s, i)]
    <3>1. \A i \in 1 .. x : g[i] = Turn(g, s, i)
      BY <2>4
    <3>2. DOMAIN g = 1 .. x /\ g = [i \in DOMAIN g |-> g[i]]
      OBVIOUS
    <3> HIDE DEF g
    <3> QED BY <3>1, <3>2
  <2> QED BY <1>3, <2>5 DEF Cat
<1>6. QED
  BY <1>4, <1>5

LEMMA FlattenIs ==
  ASSUME NEW s, Len(s) \in Nat, Len(s) # 0
  PROVE  \E g : Cat(g, s, Len(s)) /\ FlattenSeq(s) = g[Len(s)]
<1> DEFINE F == CHOOSE g : Cat(g, s, Len(s))
<1>1. Cat(F, s, Len(s))
  BY CatExists
<1>2. FlattenSeq(s) = F[Len(s)]
  BY DEF FlattenSeq, Cat, Turn
<1> QED BY <1>1, <1>2

(* FlattenSeq of no sequences, of one more at the end, and its type.       *)
LEMMA FlattenNone == ASSUME NEW s, Len(s) = 0 PROVE FlattenSeq(s) = s
  BY DEF FlattenSeq

LEMMA FlattenOne ==
  ASSUME NEW s, Len(s) = 1 PROVE FlattenSeq(s) = s[1]
<1>1. PICK g : Cat(g, s, Len(s)) /\ FlattenSeq(s) = g[Len(s)]
  <2>1. Len(s) \in Nat /\ Len(s) # 0
    OBVIOUS
  <2> QED BY <2>1, FlattenIs
<1>2. g[1] = Turn(g, s, 1)
  BY <1>1, CatValue
<1> QED BY <1>1, <1>2 DEF Turn

LEMMA FlattenMore ==
  ASSUME NEW s, NEW t, Len(s) \in Nat, Len(s) # 0, Len(t) = Len(s) + 1,
         \A i \in 1 .. Len(s) : t[i] = s[i]
  PROVE  FlattenSeq(t) = FlattenSeq(s) \o t[Len(t)]
<1>1. PICK g : Cat(g, s, Len(s)) /\ FlattenSeq(s) = g[Len(s)]
  BY FlattenIs
<1>2. PICK h : Cat(h, t, Len(t)) /\ FlattenSeq(t) = h[Len(t)]
  BY FlattenIs
<1>3. h[Len(s)] = g[Len(s)]
  <2> DEFINE m == Len(s)
  <2>1. m \in 1 .. m /\ m <= Len(t) /\ Len(t) \in Nat /\ m \in Nat
    OBVIOUS
  <2> QED BY <1>1, <1>2, <2>1, CatUnique
<1>4. h[Len(t)] = Turn(h, t, Len(t))
  BY <1>2, CatValue
<1>5. Turn(h, t, Len(t)) = h[Len(s)] \o t[Len(t)]
  <2>1. Len(t) # 1 /\ Len(t) - 1 = Len(s)
    OBVIOUS
  <2> QED BY <2>1 DEF Turn
<1> QED BY <1>1, <1>2, <1>3, <1>4, <1>5

LEMMA FlattenType ==
  ASSUME NEW S, NEW s \in Seq(Seq(S)) PROVE FlattenSeq(s) \in Seq(S)
<1>1. CASE Len(s) = 0
  <2>1. s = <<>>
    BY <1>1
  <2>2. FlattenSeq(s) = <<>>
    BY <1>1, <2>1, FlattenNone
  <2> QED BY <2>2
<1>2. CASE Len(s) # 0
  <2>1. PICK g : Cat(g, s, Len(s)) /\ FlattenSeq(s) = g[Len(s)]
    BY <1>2, FlattenIs
  <2> DEFINE T == {j \in Nat : j \in 1 .. Len(s) /\ g[j] \notin Seq(S)}
  <2>2. SUFFICES ASSUME T # {} PROVE FALSE
    BY <1>2, <2>1
  <2>3. PICK x \in T : \A y \in T : x <= y
    BY <2>2, LeastNat
  <2>4. x \in 1 .. Len(s) /\ g[x] \notin Seq(S) /\ g[x] = Turn(g, s, x) /\ s[x] \in Seq(S)
    BY <2>1, <2>3, CatValue
  <2>5. x # 1
    BY <2>4 DEF Turn
  <2>6. x - 1 \in 1 .. Len(s) /\ x - 1 \notin T
    BY <2>3, <2>4, <2>5
  <2>7. g[x - 1] \in Seq(S)
    BY <2>6
  <2>8. g[x - 1] \o s[x] \in Seq(S)
    BY <2>4, <2>7
  <2> QED BY <2>4, <2>5, <2>8 DEF Turn
<1> QED BY <1>1, <1>2

LEMMA FlattenSnoc ==
  ASSUME NEW S, NEW s \in Seq(Seq(S)), NEW t \in Seq(Seq(S)), Len(t) = Len(s) + 1,
         \A i \in 1 .. Len(s) : t[i] = s[i]
  PROVE  FlattenSeq(t) = FlattenSeq(s) \o t[Len(t)]
<1>1. CASE Len(s) = 0
  <2>1. s = <<>> /\ Len(t) = 1 /\ t[1] \in Seq(S)
    BY <1>1
  <2>2. FlattenSeq(s) = <<>> /\ FlattenSeq(t) = t[1]
    BY <2>1, <1>1, FlattenNone, FlattenOne
  <2> QED BY <2>1, <2>2, ConcatEmptySeq
<1>2. CASE Len(s) # 0
  <2>1. Len(s) \in Nat
    OBVIOUS
  <2> QED BY <1>2, <2>1, FlattenMore
<1> QED BY <1>1, <1>2

LEMMA Assoc ==
  ASSUME NEW S, NEW a \in Seq(S), NEW b \in Seq(S), NEW c \in Seq(S)
  PROVE  (a \o b) \o c = a \o (b \o c)
  OBVIOUS

LEMMA FlattenCons ==
  ASSUME NEW S, NEW t \in Seq(Seq(S)), t # <<>>
  PROVE  FlattenSeq(t) = t[1] \o FlattenSeq(Tail(t))
<1> DEFINE n == Len(t)
           P(k) == [i \in 1 .. k |-> t[i]]
           Q(k) == [i \in 1 .. k - 1 |-> t[i + 1]]
           Split(k) == FlattenSeq(P(k)) = t[1] \o FlattenSeq(Q(k))
           T == {j \in Nat : j \in 1 .. n /\ ~Split(j)}
<1>1. n \in Nat \ {0} /\ \A i \in 1 .. n : t[i] \in Seq(S)
  OBVIOUS
<1>2. \A k \in 1 .. n : /\ P(k) \in Seq(Seq(S)) /\ Len(P(k)) = k
                        /\ Q(k) \in Seq(Seq(S)) /\ Len(Q(k)) = k - 1
  BY <1>1
<1>3. T = {}
  <2> SUFFICES ASSUME T # {} PROVE FALSE
    OBVIOUS
  <2>1. PICK x \in T : \A y \in T : x <= y
    BY LeastNat
  <2>2. x \in 1 .. n /\ FlattenSeq(P(x)) # t[1] \o FlattenSeq(Q(x))
    <3> HIDE DEF P, Q
    <3> QED BY <2>1
  <2>3. CASE x = 1
    <3>1. FlattenSeq(P(1)) = t[1]
      <4>1. P(1)[1] = t[1] /\ Len(P(1)) = 1
        BY <1>1, <1>2
      <4> HIDE DEF P
      <4> QED BY <4>1, FlattenOne
    <3>2. FlattenSeq(Q(1)) = <<>>
      <4>1. Len(Q(1)) = 0 /\ Q(1) \in Seq(Seq(S))
        BY <1>1, <1>2
      <4> HIDE DEF Q
      <4>2. Q(1) = <<>>
        BY <4>1
      <4> QED BY <4>1, <4>2, FlattenNone
    <3>3. t[1] \o <<>> = t[1]
      BY <1>1, ConcatEmptySeq
    <3> HIDE DEF P, Q
    <3> QED BY <2>2, <2>3, <3>1, <3>2, <3>3
  <2>4. CASE x # 1
    <3> DEFINE w == x - 1
    <3>1. w \in 1 .. n /\ w \notin T
      <4> HIDE DEF Split
      <4> QED BY <2>1, <2>2, <2>4
    <3>2. FlattenSeq(P(w)) = t[1] \o FlattenSeq(Q(w))
      <4> HIDE DEF P, Q, w
      <4> QED BY <3>1
    <3>3. FlattenSeq(P(x)) = FlattenSeq(P(w)) \o t[x]
      <4>1. /\ P(w) \in Seq(Seq(S)) /\ P(x) \in Seq(Seq(S)) /\ Len(P(x)) = Len(P(w)) + 1
            /\ Len(P(x)) = x
        BY <1>2, <2>2, <3>1
      <4>2. \A i \in 1 .. Len(P(w)) : P(x)[i] = P(w)[i]
        BY <1>1, <1>2, <2>2, <3>1
      <4>3. P(x)[x] = t[x]
        BY <2>2
      <4> HIDE DEF P, w
      <4> QED BY <4>1, <4>2, <4>3, FlattenSnoc
    <3>4. FlattenSeq(Q(x)) = FlattenSeq(Q(w)) \o t[x]
      <4>1. /\ Q(w) \in Seq(Seq(S)) /\ Q(x) \in Seq(Seq(S)) /\ Len(Q(x)) = Len(Q(w)) + 1
            /\ Len(Q(x)) = w
        BY <1>2, <2>2, <3>1
      <4>2. \A i \in 1 .. Len(Q(w)) : Q(x)[i] = Q(w)[i]
        BY <1>1, <1>2, <2>2, <3>1
      <4>3. Q(x)[w] = t[x]
        BY <2>2, <3>1
      <4> HIDE DEF Q, w
      <4> QED BY <4>1, <4>2, <4>3, FlattenSnoc
    <3>5. t[1] \in Seq(S) /\ t[x] \in Seq(S) /\ FlattenSeq(Q(w)) \in Seq(S)
      <4>1. Q(w) \in Seq(Seq(S))
        BY <1>2, <3>1
      <4> HIDE DEF Q, w
      <4> QED BY <1>1, <2>2, <4>1, FlattenType
    <3> HIDE DEF P, Q, w
    <3> DEFINE a == t[1]
               q == FlattenSeq(Q(w))
               c == t[x]
    <3>6. (a \o q) \o c = a \o (q \o c)
      <4>1. a \in Seq(S) /\ q \in Seq(S) /\ c \in Seq(S)
        BY <3>5
      <4> HIDE DEF a, q, c, n, T
      <4> QED BY ONLY <4>1, Assoc
    <3> QED BY <2>2, <3>2, <3>3, <3>4, <3>6
  <2> QED BY <2>3, <2>4
<1>4. FlattenSeq(P(n)) = t[1] \o FlattenSeq(Q(n))
  <2>1. n \in 1 .. n
    BY <1>1
  <2> HIDE DEF P, Q, n
  <2> QED BY <1>1, <1>3, <2>1
<1>5. P(n) = t
  OBVIOUS
<1>6. Q(n) = Tail(t)
  <2>1. Tail(t) \in Seq(Seq(S)) /\ Len(Tail(t)) = n - 1 /\ \A i \in 1 .. n - 1 : Tail(t)[i] = t[i + 1]
    BY <1>1
  <2>2. Q(n) \in Seq(Seq(S)) /\ Len(Q(n)) = n - 1 /\ \A i \in 1 .. n - 1 : Q(n)[i] = t[i + 1]
    BY <1>1, <1>2
  <2> HIDE DEF Q
  <2> QED BY <2>1, <2>2, SeqEqual
<1> HIDE DEF P, Q
<1> QED BY <1>4, <1>5, <1>6
(* The same for sequences that are made from others, item by item.         *)
LEMMA FlattenFirst ==
  ASSUME NEW S, NEW s \in Seq(Seq(S)), NEW t \in Seq(Seq(S)), Len(s) = Len(t) + 1,
         \A i \in 1 .. Len(t) : t[i] = s[i + 1]
  PROVE  FlattenSeq(s) = s[1] \o FlattenSeq(t)
<1>1. s # <<>> /\ Len(t) \in Nat
  OBVIOUS
<1>2. /\ Tail(s) \in Seq(Seq(S)) /\ Len(Tail(s)) = Len(t)
      /\ \A i \in 1 .. Len(t) : Tail(s)[i] = s[i + 1]
  BY <1>1
<1>3. t = Tail(s)
  BY <1>2, SeqEqual
<1> QED BY <1>1, <1>3, FlattenCons

-----------------------------------------------------------------------------
(* What is on a page while it is parsed: what is there, followed by what   *)
(* is left of the layer, the template or the annotation at hand, is what   *)
(* the files state up to there.                                            *)

(* Found, TemplateLoc and UseInto of document d.                           *)
FoundIn(d, loc) == loc \in DOMAIN d.files /\ d.files[loc].node
TemplateIn(d, u) == FirstLoc(d.templates, u.id)
UseOf(d, file, s, i) ==
  LET loc == TemplateIn(d, file.uses[i])
  IN  IF TemplateSlot(file.uses[i].z) = s /\ FoundIn(d, loc)
      THEN LayersState(d.files[loc].layers, Placing(d.files[loc])) ELSE <<>>

OwnSlots == {"page", "bg", "fg"}

(* What holder s must hold after m layers and n uses of templates.         *)
OwnDone(file, s, m) == FlattenSeq([i \in 1 .. m |-> LayerInto(file, s, i)])
UsesDone(d, file, s, n) == FlattenSeq([i \in 1 .. n |-> UseOf(d, file, s, i)])
Due(d, file, s, m, n) ==
  IF s \in OwnSlots THEN OwnDone(file, s, m) ELSE UsesDone(d, file, s, n)

ParsedObject == [obj : Objects, rot : BOOLEAN, off : Int, dp : Garbage]
StatedObject == [obj : Objects, offs : SUBSET Int, dps : SUBSET Garbage]

HolderRec == [made : BOOLEAN, rot : BOOLEAN, off : Int, xml : Nat,
              objs : Seq(ParsedObject)]

(* SameObjects, and each object in its place.                              *)
Matches(objs, st) ==
  /\ SameObjects(objs, st)
  /\ \A i \in 1 .. Len(objs) : objs[i].off \in st[i].offs

Pending(elems, dp, offs) ==
  FlattenSeq([j \in 1 .. Len(elems) |-> ElementStates(elems[j], {dp}, offs)])

Coming(hd, elems, dp, rest, due) ==
  \E st \in Seq(StatedObject), offs \in SUBSET Int :
    /\ hd.off \in offs /\ Matches(hd.objs, st)
    /\ due = (st \o Pending(elems, dp, offs)) \o LayersState(rest, offs)

(* How far Parse is with the layers and the templates, and what it has at  *)
(* hand for holder s.                                                      *)
LayersAt(r, file) == IF r.phase = "layers" THEN r.layer ELSE Len(file.layers)
UsesAt(r, file) ==
  IF r.phase = "layers" THEN 0 ELSE IF r.phase = "templates" THEN r.at ELSE Len(file.uses)
ElemsFor(r, s) == IF r.slot = s THEN r.elems ELSE <<>>
RestFor(r, s) == IF r.slot = s THEN r.rest ELSE <<>>

SlotsDue(p, d, r) ==
  LET file == d.files[p.loc]
  IN  OneGround(file) => \A s \in Slots :
        Coming(p.holders[s], ElemsFor(r, s), r.dp, RestFor(r, s),
               Due(d, file, s, LayersAt(r, file), UsesAt(r, file)))

(* The annotations of page id in the first n files.                        *)
NoteFile(d, id, i) ==
  IF d.annots[i].page = id /\ FoundIn(d, d.annots[i].loc)
  THEN ShownIn(d.files[d.annots[i].loc].annots) ELSE <<>>
NotesDone(d, id, n) == FlattenSeq([i \in 1 .. n |-> NoteFile(d, id, i)])

Names(objs) == [k \in 1 .. Len(objs) |-> objs[k].obj]

(* Holder x has the objects of annotation a but those of elems.            *)
NoteDue(x, a, off, elems) ==
  /\ Names(x.objs) \o ShownObjects(elems) = ShownObjects(a.elems)
  /\ ~a.outer => x.off = off

NotesAre(p, st, elems) ==
  /\ p.annots \in Seq(HolderRec)
  /\ Len(p.annots) = Len(st)
  /\ \A i \in 1 .. Len(st) :
       NoteDue(p.annots[i], st[i], p.holders["page"].off,
               IF i = Len(st) THEN elems ELSE <<>>)

NotesDue(p, d, r) ==
  IF r.phase = "annots"
  THEN \E st \in Seq(Annot) :
         /\ NotesAre(p, st, r.elems)
         /\ st = <<>> => r.elems = <<>>
         /\ st \o ShownIn(r.rest) = NotesDone(d, p.id, r.at)
  ELSE p.annots = <<>>

(* Where Parse is.                                                         *)
RunOK(p, d, r) ==
  LET file == d.files[p.loc]
  IN  /\ r.elems \in Seq(Element) /\ r.dp \in Garbage
      /\ r.phase = "layers" =>
           /\ r.layer \in 0 .. Len(file.layers)
           /\ r.slot \in OwnSlots /\ r.rest = <<>>
      /\ r.phase = "templates" =>
           r.at \in 0 .. Len(file.uses) /\ r.slot \in Slots /\ r.rest \in Seq(Layer)
      /\ r.phase = "annots" =>
           r.at \in 0 .. Len(d.annots) /\ r.slot = "annot" /\ r.rest \in Seq(Annot)

(* The page: its file, and its holders.  A holder that is not made is      *)
(* empty, and a background or foreground is made by a layer.               *)
OwnOffs(file, s) == IF s = "page" /\ ~file.rotated THEN Placing(file) ELSE Int
PageOK(p, d) ==
  /\ p.index \in 1 .. Len(d.pages)
  /\ p.loc = FirstLoc(d.pages, d.pages[p.index].id) /\ FoundIn(d, p.loc)
  /\ p.holders["page"].made
  /\ p.holders["page"].off \in OwnOffs(d.files[p.loc], "page")
  /\ \A s \in Slots :
       /\ p.holders[s] \in HolderRec
       /\ ~p.holders[s].made => p.holders[s].objs = <<>>

HoldersMade(p, d, r) ==
  /\ r.slot \in Slots => p.holders[r.slot].made
  /\ r.phase = "layers" => \A s \in {"bg", "fg"} : p.holders[s].made =>
       LET k == p.holders[s].xml
       IN  k \in 1 .. r.layer /\ GroundSlot(d.files[p.loc].layers[k].type) = s

InParse(p, d, r) ==
  PageOK(p, d) /\ RunOK(p, d, r) /\ HoldersMade(p, d, r) /\ SlotsDue(p, d, r)
    /\ NotesDue(p, d, r)

(* A page that is parsed.                                                  *)
SlotsWhole(p, d) ==
  LET file == d.files[p.loc]
  IN  OneGround(file) => \A s \in Slots :
        Matches(p.holders[s].objs, Due(d, file, s, Len(file.layers), Len(file.uses)))
WholePage(p, d) ==
  PageOK(p, d) /\ SlotsWhole(p, d) /\ NotesAre(p, NotesDone(d, p.id, Len(d.annots)), <<>>)

(* A page of the PDF, and the pages converted so far.                      *)
OwnOf(d, n) == d.files[d.pages[n].loc]
PdfPage(x, d, n) ==
  /\ x.index = n
  /\ Distinct(d) /\ OneGround(OwnOf(d, n)) =>
       SameObjects(x.objs, FlattenSeq([k \in 1 .. Len(ScreenOrder) |->
         Due(d, OwnOf(d, n), ScreenOrder[k], Len(OwnOf(d, n).layers), Len(OwnOf(d, n).uses))]))

PdfInv ==
  /\ pdf \in Seq([index : Int, area : Area, objs : Seq(ParsedObject)])
  /\ open = "document" /\ (job > 0 \/ pdf # <<>>) =>
       /\ Len(pdf) = Len(doc.pages) - job
       /\ \A i \in 1 .. Len(pdf) : PdfPage(pdf[i], doc, job + i)

WholeInv ==
  /\ run.phase \in {"idle", "layers", "templates", "annots"}
  /\ run.phase # "idle" => InParse(cur, doc, run)
  /\ run.phase # "idle" /\ job > 0 => cur.index = job
  /\ \A h \in Handles : pages[h] # NoPage => WholePage(pages[h], doc)
  /\ PdfInv

-----------------------------------------------------------------------------
(* Elements: what they state, and what is parsed of them.                  *)

(* A function on 1 .. n is a sequence.                                     *)
LEMMA IsSeq ==
  ASSUME NEW S, NEW n \in Nat, NEW f, f = [i \in 1 .. n |-> f[i]],
         \A i \in 1 .. n : f[i] \in S
  PROVE  f \in Seq(S) /\ Len(f) = n
  OBVIOUS

(* Objects of an element.                                                  *)
LEMMA ElementFacts ==
  ASSUME NEW e \in Element
  PROVE  e.objs \in Seq(Objects) /\ e.kind \in {"plain", "hidden", "composite"}
  BY DEF Element

LEMMA ElementStatesType ==
  ASSUME NEW e \in Element, NEW dp \in Garbage, NEW offs \in SUBSET Int
  PROVE  ElementStates(e, {dp}, offs) \in Seq(StatedObject)
<1> DEFINE n == IF e.kind = "hidden" THEN 0 ELSE Len(e.objs)
<1>1. n \in Nat /\ \A k \in 1 .. n : e.objs[k] \in Objects
  BY ElementFacts
<1>2. \A k \in 1 .. n : [obj |-> e.objs[k], offs |-> offs,
                         dps |-> IF e.kind = "composite" THEN Garbage ELSE {dp}]
                          \in StatedObject
  BY <1>1 DEF StatedObject
<1> HIDE DEF n
<1>3. [k \in 1 .. n |-> [obj |-> e.objs[k], offs |-> offs,
                         dps |-> IF e.kind = "composite" THEN Garbage ELSE {dp}]]
        \in Seq(StatedObject)
  BY <1>1, <1>2
<1> QED BY <1>3 DEF ElementStates, n

LEMMA ParsedType ==
  ASSUME NEW e \in Element, NEW hd \in HolderRec, NEW dp \in Garbage, NEW g \in Garbage
  PROVE  Parsed(e, hd, dp, g) \in Seq(ParsedObject)
<1> DEFINE n == IF e.kind = "hidden" THEN 0 ELSE Len(e.objs)
<1>1. n \in Nat /\ \A k \in 1 .. n : e.objs[k] \in Objects
  BY ElementFacts
<1>2. \A k \in 1 .. n : [obj |-> e.objs[k], rot |-> hd.rot, off |-> hd.off,
                         dp |-> IF e.kind = "composite" THEN g ELSE dp]
                          \in ParsedObject
  BY <1>1 DEF ParsedObject, HolderRec
<1> HIDE DEF n
<1>3. [k \in 1 .. n |-> [obj |-> e.objs[k], rot |-> hd.rot, off |-> hd.off,
                         dp |-> IF e.kind = "composite" THEN g ELSE dp]]
        \in Seq(ParsedObject)
  BY <1>1, <1>2
<1> QED BY <1>3 DEF Parsed, n

LEMMA ParsedMatches ==
  ASSUME NEW e \in Element, NEW hd \in HolderRec, NEW dp \in Garbage, NEW g \in Garbage,
         NEW offs \in SUBSET Int, hd.off \in offs
  PROVE  Matches(Parsed(e, hd, dp, g), ElementStates(e, {dp}, offs))
<1> DEFINE n == IF e.kind = "hidden" THEN 0 ELSE Len(e.objs)
           v == IF e.kind = "composite" THEN g ELSE dp
           w == IF e.kind = "composite" THEN Garbage ELSE {dp}
           a == [i \in 1 .. n |-> [obj |-> e.objs[i], rot |-> hd.rot, off |-> hd.off,
                                   dp |-> v]]
           b == [i \in 1 .. n |-> [obj |-> e.objs[i], offs |-> offs, dps |-> w]]
<1>1. n \in Nat /\ v \in w
  BY ElementFacts
<1>2. Parsed(e, hd, dp, g) = a /\ ElementStates(e, {dp}, offs) = b
  BY DEF Parsed, ElementStates
<1> HIDE DEF n, v, w
<1>3. Len(a) = n /\ Len(b) = n
  BY <1>1
<1>4. \A i \in 1 .. n : /\ a[i].obj = b[i].obj /\ a[i].dp \in b[i].dps
                        /\ a[i].off \in b[i].offs
  BY <1>1
<1> HIDE DEF a, b
<1> QED BY <1>2, <1>3, <1>4 DEF Matches, SameObjects

LEMMA MatchesConcat ==
  ASSUME NEW a \in Seq(ParsedObject), NEW b \in Seq(ParsedObject),
         NEW s \in Seq(StatedObject), NEW t \in Seq(StatedObject),
         Matches(a, s), Matches(b, t)
  PROVE  Matches(a \o b, s \o t)
<1> DEFINE c == a \o b
           u == s \o t
<1>1. Len(a) \in Nat /\ Len(b) \in Nat /\ Len(s) = Len(a) /\ Len(t) = Len(b)
  BY DEF Matches, SameObjects
<1>2. Len(c) = Len(a) + Len(b) /\ Len(u) = Len(a) + Len(b)
  BY <1>1
<1>3. \A i \in 1 .. Len(a) + Len(b) :
        /\ c[i] = IF i <= Len(a) THEN a[i] ELSE b[i - Len(a)]
        /\ u[i] = IF i <= Len(a) THEN s[i] ELSE t[i - Len(a)]
  BY <1>1
<1> HIDE DEF c, u
<1>4. ASSUME NEW i \in 1 .. Len(c)
      PROVE  c[i].obj = u[i].obj /\ c[i].dp \in u[i].dps /\ c[i].off \in u[i].offs
  <2>1. CASE i <= Len(a)
    <3>1. i \in 1 .. Len(a) /\ c[i] = a[i] /\ u[i] = s[i]
      BY <1>1, <1>2, <1>3, <2>1
    <3> QED BY <3>1 DEF Matches, SameObjects
  <2>2. CASE ~(i <= Len(a))
    <3> DEFINE k == i - Len(a)
    <3>1. k \in 1 .. Len(b) /\ c[i] = b[k] /\ u[i] = t[k]
      BY <1>1, <1>2, <1>3, <2>2
    <3> HIDE DEF k
    <3> QED BY <3>1 DEF Matches, SameObjects
  <2> QED BY <2>1, <2>2
<1> QED BY <1>2, <1>4 DEF Matches, SameObjects, c, u

LEMMA SameConcat ==
  ASSUME NEW a \in Seq(ParsedObject), NEW b \in Seq(ParsedObject),
         NEW s \in Seq(StatedObject), NEW t \in Seq(StatedObject),
         SameObjects(a, s), SameObjects(b, t)
  PROVE  SameObjects(a \o b, s \o t)
<1> DEFINE c == a \o b
           u == s \o t
<1>1. Len(a) \in Nat /\ Len(b) \in Nat /\ Len(s) = Len(a) /\ Len(t) = Len(b)
  BY DEF SameObjects
<1>2. Len(c) = Len(a) + Len(b) /\ Len(u) = Len(a) + Len(b)
  BY <1>1
<1>3. \A i \in 1 .. Len(a) + Len(b) :
        /\ c[i] = IF i <= Len(a) THEN a[i] ELSE b[i - Len(a)]
        /\ u[i] = IF i <= Len(a) THEN s[i] ELSE t[i - Len(a)]
  BY <1>1
<1> HIDE DEF c, u
<1>4. ASSUME NEW i \in 1 .. Len(c)
      PROVE  c[i].obj = u[i].obj /\ c[i].dp \in u[i].dps
  <2>1. CASE i <= Len(a)
    <3>1. i \in 1 .. Len(a) /\ c[i] = a[i] /\ u[i] = s[i]
      BY <1>1, <1>2, <1>3, <2>1
    <3> QED BY <3>1 DEF SameObjects
  <2>2. CASE ~(i <= Len(a))
    <3> DEFINE k == i - Len(a)
    <3>1. k \in 1 .. Len(b) /\ c[i] = b[k] /\ u[i] = t[k]
      BY <1>1, <1>2, <1>3, <2>2
    <3> HIDE DEF k
    <3> QED BY <3>1 DEF SameObjects
  <2> QED BY <2>1, <2>2
<1> QED BY <1>2, <1>4 DEF SameObjects, c, u

-----------------------------------------------------------------------------
(* What is left of a layer, and of a template.                             *)
LEMMA PendingSeq ==
  ASSUME NEW elems \in Seq(Element), NEW dp \in Garbage, NEW offs \in SUBSET Int
  PROVE  [j \in 1 .. Len(elems) |-> ElementStates(elems[j], {dp}, offs)]
           \in Seq(Seq(StatedObject))
<1>1. Len(elems) \in Nat /\ \A j \in 1 .. Len(elems) : elems[j] \in Element
  OBVIOUS
<1>2. \A j \in 1 .. Len(elems) : ElementStates(elems[j], {dp}, offs) \in Seq(StatedObject)
  BY <1>1, ElementStatesType
<1> DEFINE f == [j \in 1 .. Len(elems) |-> ElementStates(elems[j], {dp}, offs)]
<1>3. /\ f = [j \in 1 .. Len(elems) |-> f[j]]
      /\ \A j \in 1 .. Len(elems) : f[j] \in Seq(StatedObject)
  BY <1>2
<1>4. f \in Seq(Seq(StatedObject))
  <2> HIDE DEF f
  <2> QED BY <1>1, <1>3, IsSeq
<1> QED BY <1>4

LEMMA PendingType ==
  ASSUME NEW elems \in Seq(Element), NEW dp \in Garbage, NEW offs \in SUBSET Int
  PROVE  Pending(elems, dp, offs) \in Seq(StatedObject)
<1> DEFINE s == [j \in 1 .. Len(elems) |-> ElementStates(elems[j], {dp}, offs)]
<1>1. s \in Seq(Seq(StatedObject))
  BY PendingSeq
<1> HIDE DEF s
<1>2. FlattenSeq(s) \in Seq(StatedObject)
  BY <1>1, FlattenType
<1> QED BY <1>2 DEF Pending, s

LEMMA FlattenVoid == FlattenSeq(<<>>) = <<>>
  BY FlattenNone

LEMMA PendingNone == \A dp, offs : Pending(<<>>, dp, offs) = <<>>
<1> SUFFICES ASSUME NEW dp, NEW offs PROVE Pending(<<>>, dp, offs) = <<>>
  OBVIOUS
<1>1. [j \in 1 .. Len(<<>>) |-> ElementStates(<<>>[j], {dp}, offs)] = <<>>
  OBVIOUS
<1> QED BY <1>1, FlattenVoid DEF Pending

LEMMA PendingCons ==
  ASSUME NEW elems \in Seq(Element), NEW dp \in Garbage, NEW offs \in SUBSET Int,
         elems # <<>>
  PROVE  Pending(elems, dp, offs)
           = ElementStates(Head(elems), {dp}, offs) \o Pending(Tail(elems), dp, offs)
<1> DEFINE s == [j \in 1 .. Len(elems) |-> ElementStates(elems[j], {dp}, offs)]
           t == [j \in 1 .. Len(Tail(elems)) |-> ElementStates(Tail(elems)[j], {dp}, offs)]
<1>1. s \in Seq(Seq(StatedObject)) /\ t \in Seq(Seq(StatedObject))
  <2>1. Tail(elems) \in Seq(Element)
    OBVIOUS
  <2> QED BY <2>1, PendingSeq
<1>2. /\ Len(elems) \in Nat /\ Len(Tail(elems)) \in Nat /\ Len(elems) = Len(Tail(elems)) + 1
      /\ \A i \in 1 .. Len(Tail(elems)) : Tail(elems)[i] = elems[i + 1]
  OBVIOUS
<1>3. Len(s) = Len(t) + 1 /\ \A i \in 1 .. Len(t) : t[i] = s[i + 1]
  BY <1>2
<1>4. s[1] = ElementStates(Head(elems), {dp}, offs)
  BY <1>2
<1>5. Pending(elems, dp, offs) = FlattenSeq(s) /\ Pending(Tail(elems), dp, offs) = FlattenSeq(t)
  BY DEF Pending
<1> HIDE DEF s, t
<1>6. FlattenSeq(s) = s[1] \o FlattenSeq(t)
  BY <1>1, <1>3, FlattenFirst
<1> QED BY <1>4, <1>5, <1>6

-----------------------------------------------------------------------------
(* Layers, and what is coming for a holder.                                *)
LEMMA LayerFacts ==
  ASSUME NEW l \in Layer
  PROVE  /\ l.elems \in Seq(Element) /\ l.dp \in Garbage
         /\ l.type \in {"Body", "Background", "Foreground"}
  BY DEF Layer, Garbage

LEMMA LayerIsPending ==
  ASSUME NEW l, NEW offs PROVE LayerState(l, offs) = Pending(l.elems, l.dp, offs)
  BY DEF LayerState, Pending

LEMMA LayerStateType ==
  ASSUME NEW l \in Layer, NEW offs \in SUBSET Int
  PROVE  LayerState(l, offs) \in Seq(StatedObject)
  BY LayerFacts, LayerIsPending, PendingType

LEMMA LayersSeq ==
  ASSUME NEW ls \in Seq(Layer), NEW offs \in SUBSET Int
  PROVE  [i \in 1 .. Len(ls) |-> LayerState(ls[i], offs)] \in Seq(Seq(StatedObject))
<1> DEFINE f == [i \in 1 .. Len(ls) |-> LayerState(ls[i], offs)]
<1>1. Len(ls) \in Nat /\ \A i \in 1 .. Len(ls) : ls[i] \in Layer
  OBVIOUS
<1>2. \A i \in 1 .. Len(ls) : LayerState(ls[i], offs) \in Seq(StatedObject)
  BY <1>1, LayerStateType
<1>3. /\ f = [i \in 1 .. Len(ls) |-> f[i]]
      /\ \A i \in 1 .. Len(ls) : f[i] \in Seq(StatedObject)
  BY <1>2
<1>4. f \in Seq(Seq(StatedObject))
  <2> HIDE DEF f
  <2> QED BY <1>1, <1>3, IsSeq
<1> QED BY <1>4

LEMMA LayersType ==
  ASSUME NEW ls \in Seq(Layer), NEW offs \in SUBSET Int
  PROVE  LayersState(ls, offs) \in Seq(StatedObject)
<1> DEFINE s == [i \in 1 .. Len(ls) |-> LayerState(ls[i], offs)]
<1>1. s \in Seq(Seq(StatedObject))
  BY LayersSeq
<1> HIDE DEF s
<1>2. FlattenSeq(s) \in Seq(StatedObject)
  BY <1>1, FlattenType
<1> QED BY <1>2 DEF LayersState, s

LEMMA LayersNone == \A offs : LayersState(<<>>, offs) = <<>>
<1> SUFFICES ASSUME NEW offs PROVE LayersState(<<>>, offs) = <<>>
  OBVIOUS
<1>1. [i \in 1 .. Len(<<>>) |-> LayerState(<<>>[i], offs)] = <<>>
  OBVIOUS
<1> QED BY <1>1, FlattenVoid DEF LayersState

LEMMA LayersCons ==
  ASSUME NEW ls \in Seq(Layer), NEW offs \in SUBSET Int, ls # <<>>
  PROVE  LayersState(ls, offs)
           = Pending(Head(ls).elems, Head(ls).dp, offs) \o LayersState(Tail(ls), offs)
<1> DEFINE s == [i \in 1 .. Len(ls) |-> LayerState(ls[i], offs)]
           t == [i \in 1 .. Len(Tail(ls)) |-> LayerState(Tail(ls)[i], offs)]
<1>1. s \in Seq(Seq(StatedObject)) /\ t \in Seq(Seq(StatedObject))
  <2>1. Tail(ls) \in Seq(Layer)
    OBVIOUS
  <2> QED BY <2>1, LayersSeq
<1>2. /\ Len(ls) \in Nat /\ Len(Tail(ls)) \in Nat /\ Len(ls) = Len(Tail(ls)) + 1
      /\ \A i \in 1 .. Len(Tail(ls)) : Tail(ls)[i] = ls[i + 1]
  OBVIOUS
<1>3. Len(s) = Len(t) + 1 /\ \A i \in 1 .. Len(t) : t[i] = s[i + 1]
  BY <1>2
<1>4. s[1] = Pending(Head(ls).elems, Head(ls).dp, offs)
  BY <1>2, LayerIsPending
<1>5. LayersState(ls, offs) = FlattenSeq(s) /\ LayersState(Tail(ls), offs) = FlattenSeq(t)
  BY DEF LayersState
<1> HIDE DEF s, t
<1>6. FlattenSeq(s) = s[1] \o FlattenSeq(t)
  BY <1>1, <1>3, FlattenFirst
<1> QED BY <1>4, <1>5, <1>6

-----------------------------------------------------------------------------
(* What comes into a holder.                                               *)
LEMMA NothingComing ==
  ASSUME NEW hd, NEW dp, NEW due, Coming(hd, <<>>, dp, <<>>, due)
  PROVE  Matches(hd.objs, due) /\ due \in Seq(StatedObject) /\ hd.off \in Int
<1>1. PICK st \in Seq(StatedObject), offs \in SUBSET Int :
        /\ hd.off \in offs /\ Matches(hd.objs, st)
        /\ due = (st \o Pending(<<>>, dp, offs)) \o LayersState(<<>>, offs)
  BY DEF Coming
<1>2. due = (st \o <<>>) \o <<>>
  BY <1>1, PendingNone, LayersNone
<1>3. due = st
  BY <1>2, ConcatEmptySeq
<1> QED BY <1>1, <1>3

LEMMA NothingLeft ==
  ASSUME NEW hd, NEW dp, NEW due \in Seq(StatedObject), Matches(hd.objs, due), hd.off \in Int
  PROVE  Coming(hd, <<>>, dp, <<>>, due)
<1>1. due = (due \o <<>>) \o <<>>
  BY ConcatEmptySeq
<1>2. due = (due \o Pending(<<>>, dp, Int)) \o LayersState(<<>>, Int)
  BY <1>1, PendingNone, LayersNone
<1>3. Int \in SUBSET Int
  OBVIOUS
<1> QED BY <1>2, <1>3 DEF Coming

(* One more layer, and one more template, for a holder that lacks nothing. *)
LEMMA LayerComes ==
  ASSUME NEW hd, NEW due \in Seq(StatedObject), Matches(hd.objs, due),
         NEW offs \in SUBSET Int, hd.off \in offs, NEW l \in Layer
  PROVE  Coming(hd, l.elems, l.dp, <<>>, due \o LayerState(l, offs))
<1> DEFINE p == Pending(l.elems, l.dp, offs)
<1>1. p \in Seq(StatedObject)
  BY LayerFacts, PendingType
<1>2. LayerState(l, offs) = p
  BY LayerIsPending
<1>3. due \o p \in Seq(StatedObject)
  <2> HIDE DEF p
  <2> QED BY <1>1
<1>4. due \o p = (due \o p) \o LayersState(<<>>, offs)
  <2>1. \A x \in Seq(StatedObject) : x = x \o <<>>
    BY ConcatEmptySeq
  <2>2. LayersState(<<>>, offs) = <<>>
    BY LayersNone
  <2> HIDE DEF p
  <2> QED BY <1>3, <2>1, <2>2
<1> QED BY <1>2, <1>4 DEF Coming

LEMMA TemplateComes ==
  ASSUME NEW hd, NEW dp, NEW due \in Seq(StatedObject), Matches(hd.objs, due),
         NEW offs \in SUBSET Int, hd.off \in offs, NEW ls
  PROVE  Coming(hd, <<>>, dp, ls, due \o LayersState(ls, offs))
<1>1. due \o Pending(<<>>, dp, offs) = due
  BY PendingNone, ConcatEmptySeq
<1> QED BY <1>1 DEF Coming

(* The next layer of the template at hand.                                 *)
LEMMA NextComes ==
  ASSUME NEW hd, NEW dp, NEW ls \in Seq(Layer), ls # <<>>, NEW due,
         Coming(hd, <<>>, dp, ls, due)
  PROVE  Coming(hd, Head(ls).elems, Head(ls).dp, Tail(ls), due)
<1>1. PICK st \in Seq(StatedObject), offs \in SUBSET Int :
        /\ hd.off \in offs /\ Matches(hd.objs, st)
        /\ due = (st \o Pending(<<>>, dp, offs)) \o LayersState(ls, offs)
  BY DEF Coming
<1>2. st \o Pending(<<>>, dp, offs) = st
  BY PendingNone, ConcatEmptySeq
<1> DEFINE a == Pending(Head(ls).elems, Head(ls).dp, offs)
           b == LayersState(Tail(ls), offs)
<1>3. Head(ls) \in Layer /\ Tail(ls) \in Seq(Layer)
  OBVIOUS
<1>4. a \in Seq(StatedObject) /\ b \in Seq(StatedObject)
  BY <1>3, LayerFacts, PendingType, LayersType
<1>5. due = st \o (a \o b)
  BY <1>1, <1>2, LayersCons
<1>6. due = (st \o a) \o b
  <2> HIDE DEF a, b
  <2> QED BY <1>4, <1>5, Assoc
<1> QED BY <1>1, <1>6 DEF Coming

(* The next element of the layer at hand.                                  *)
WithMore(hd, x) == [hd EXCEPT !.objs = @ \o x]

LEMMA WithMoreFacts ==
  ASSUME NEW hd \in HolderRec, NEW x \in Seq(ParsedObject)
  PROVE  /\ WithMore(hd, x) \in HolderRec
         /\ WithMore(hd, x).objs = hd.objs \o x /\ WithMore(hd, x).off = hd.off
         /\ WithMore(hd, x).made = hd.made /\ WithMore(hd, x).rot = hd.rot
         /\ WithMore(hd, x).xml = hd.xml
<1>1. hd.objs \o x \in Seq(ParsedObject)
  BY DEF HolderRec
<1> QED BY <1>1 DEF HolderRec, WithMore

LEMMA ElementComes ==
  ASSUME NEW hd \in HolderRec, NEW elems \in Seq(Element), elems # <<>>,
         NEW dp \in Garbage, NEW g \in Garbage, NEW ls \in Seq(Layer), NEW due,
         Coming(hd, elems, dp, ls, due)
  PROVE  Coming(WithMore(hd, Parsed(Head(elems), hd, dp, g)), Tail(elems), dp, ls, due)
<1>1. PICK st \in Seq(StatedObject), offs \in SUBSET Int :
        /\ hd.off \in offs /\ Matches(hd.objs, st)
        /\ due = (st \o Pending(elems, dp, offs)) \o LayersState(ls, offs)
  BY DEF Coming
<1> DEFINE x == Parsed(Head(elems), hd, dp, g)
           y == ElementStates(Head(elems), {dp}, offs)
           z == Pending(Tail(elems), dp, offs)
           u == LayersState(ls, offs)
<1>2. Head(elems) \in Element /\ Tail(elems) \in Seq(Element)
  OBVIOUS
<1>3. /\ x \in Seq(ParsedObject) /\ y \in Seq(StatedObject) /\ z \in Seq(StatedObject)
      /\ Matches(x, y)
  BY <1>1, <1>2, ParsedType, ElementStatesType, PendingType, ParsedMatches
<1>4. due = (st \o (y \o z)) \o u
  BY <1>1, PendingCons
<1>5. hd.objs \in Seq(ParsedObject)
  BY DEF HolderRec
<1>6. WithMore(hd, x).objs = hd.objs \o x /\ WithMore(hd, x).off = hd.off
  <2> HIDE DEF x
  <2> QED BY <1>3, WithMoreFacts
<1> HIDE DEF x, y, z, u
<1>7. st \o y \in Seq(StatedObject)
  BY <1>3
<1>8. st \o (y \o z) = (st \o y) \o z
  <2>1. st \in Seq(StatedObject) /\ y \in Seq(StatedObject) /\ z \in Seq(StatedObject)
    BY <1>3
  <2> QED BY ONLY <2>1, Assoc
<1>9. Matches(WithMore(hd, x).objs, st \o y)
  BY <1>1, <1>3, <1>5, <1>6, MatchesConcat
<1> QED BY <1>1, <1>4, <1>6, <1>7, <1>8, <1>9 DEF Coming, x, z, u

-----------------------------------------------------------------------------
(* What the layers and the templates of a file state.                      *)
LEMMA FileFacts ==
  ASSUME NEW file \in File
  PROVE  /\ file.layers \in Seq(Layer) /\ file.uses \in Seq(Use)
         /\ file.annots \in Seq(Annot) /\ file.rotated \in BOOLEAN
         /\ Placing(file) \in SUBSET Int
         /\ \A s : OwnOffs(file, s) \in SUBSET Int
<1>1. file.area \in Box \cup {NoArea} /\ file.rotated \in BOOLEAN
  BY DEF File
<1>2. Placing(file) \in SUBSET Int
  BY <1>1, BoxFacts DEF Placing
<1> QED BY <1>1, <1>2 DEF File, OwnOffs

LEMMA LayerIntoType ==
  ASSUME NEW file \in File, NEW s, NEW i \in 1 .. Len(file.layers)
  PROVE  LayerInto(file, s, i) \in Seq(StatedObject)
<1>1. file.layers[i] \in Layer /\ OwnOffs(file, s) \in SUBSET Int
  BY FileFacts
<1>2. LayerState(file.layers[i], OwnOffs(file, s)) \in Seq(StatedObject)
  BY <1>1, LayerStateType
<1>3. <<>> \in Seq(StatedObject)
  OBVIOUS
<1> QED BY <1>2, <1>3 DEF LayerInto, OwnOffs

LEMMA UseOfType ==
  ASSUME NEW d, IsDocument(d), NEW file, NEW s, NEW i
  PROVE  UseOf(d, file, s, i) \in Seq(StatedObject)
<1> DEFINE loc == TemplateIn(d, file.uses[i])
<1>1. CASE FoundIn(d, loc)
  <2>1. d.files[loc] \in File
    BY <1>1 DEF FoundIn, IsDocument
  <2>2. LayersState(d.files[loc].layers, Placing(d.files[loc])) \in Seq(StatedObject)
    BY <2>1, FileFacts, LayersType
  <2>3. <<>> \in Seq(StatedObject)
    OBVIOUS
  <2> QED BY <2>2, <2>3 DEF UseOf
<1>2. CASE ~FoundIn(d, loc)
  BY <1>2 DEF UseOf
<1> QED BY <1>1, <1>2

-----------------------------------------------------------------------------
(* What is due after some layers and some templates.                       *)
LEMMA OwnSeq ==
  ASSUME NEW file \in File, NEW s, NEW m \in 0 .. Len(file.layers)
  PROVE  /\ [i \in 1 .. m |-> LayerInto(file, s, i)] \in Seq(Seq(StatedObject))
         /\ Len([i \in 1 .. m |-> LayerInto(file, s, i)]) = m
<1> DEFINE f == [i \in 1 .. m |-> LayerInto(file, s, i)]
<1>1. Len(file.layers) \in Nat
  BY FileFacts
<1>2. m \in Nat /\ \A i \in 1 .. m : LayerInto(file, s, i) \in Seq(StatedObject)
  BY <1>1, LayerIntoType
<1>3. /\ f = [i \in 1 .. m |-> f[i]]
      /\ \A i \in 1 .. m : f[i] \in Seq(StatedObject)
  BY <1>2
<1>4. f \in Seq(Seq(StatedObject)) /\ Len(f) = m
  <2> HIDE DEF f
  <2> QED BY <1>2, <1>3, IsSeq
<1> QED BY <1>4

LEMMA OwnType ==
  ASSUME NEW file \in File, NEW s, NEW m \in 0 .. Len(file.layers)
  PROVE  OwnDone(file, s, m) \in Seq(StatedObject)
<1> DEFINE f == [i \in 1 .. m |-> LayerInto(file, s, i)]
<1>1. f \in Seq(Seq(StatedObject))
  BY OwnSeq
<1> HIDE DEF f
<1>2. FlattenSeq(f) \in Seq(StatedObject)
  BY <1>1, FlattenType
<1> QED BY <1>2 DEF OwnDone, f

LEMMA OwnNext ==
  ASSUME NEW file \in File, NEW s, NEW m \in Nat, m < Len(file.layers)
  PROVE  OwnDone(file, s, m + 1) = OwnDone(file, s, m) \o LayerInto(file, s, m + 1)
<1> DEFINE f == [i \in 1 .. m |-> LayerInto(file, s, i)]
           g == [i \in 1 .. m + 1 |-> LayerInto(file, s, i)]
<1>1. Len(file.layers) \in Nat
  BY FileFacts
<1>2. f \in Seq(Seq(StatedObject)) /\ Len(f) = m
  BY <1>1, OwnSeq
<1>3. g \in Seq(Seq(StatedObject)) /\ Len(g) = m + 1
  BY <1>1, OwnSeq
<1>4. g[m + 1] = LayerInto(file, s, m + 1) /\ \A i \in 1 .. m : g[i] = f[i]
  OBVIOUS
<1> HIDE DEF f, g
<1>5. FlattenSeq(g) = FlattenSeq(f) \o g[Len(g)]
  BY <1>2, <1>3, <1>4, FlattenSnoc
<1> QED BY <1>3, <1>4, <1>5 DEF OwnDone, f, g

UseSeq(d, file, s, m) == [i \in 1 .. m |-> UseOf(d, file, s, i)]

LEMMA UsesSeq ==
  ASSUME NEW d, IsDocument(d), NEW file, NEW s, NEW m \in Nat
  PROVE  UseSeq(d, file, s, m) \in Seq(Seq(StatedObject)) /\ Len(UseSeq(d, file, s, m)) = m
<1> DEFINE f == [i \in 1 .. m |-> UseOf(d, file, s, i)]
<1>1. \A i \in 1 .. m : UseOf(d, file, s, i) \in Seq(StatedObject)
  BY UseOfType
<1>2. /\ f = [i \in 1 .. m |-> f[i]]
      /\ \A i \in 1 .. m : f[i] \in Seq(StatedObject)
  BY <1>1
<1>3. f \in Seq(Seq(StatedObject)) /\ Len(f) = m
  <2> HIDE DEF f
  <2> QED BY <1>2, IsSeq
<1> QED BY <1>3 DEF UseSeq

LEMMA UsesType ==
  ASSUME NEW d, IsDocument(d), NEW file, NEW s, NEW m \in Nat
  PROVE  UsesDone(d, file, s, m) \in Seq(StatedObject)
<1>1. UseSeq(d, file, s, m) \in Seq(Seq(StatedObject))
  BY UsesSeq
<1>2. FlattenSeq(UseSeq(d, file, s, m)) \in Seq(StatedObject)
  BY <1>1, FlattenType
<1> QED BY <1>2 DEF UsesDone, UseSeq

LEMMA UsesNext ==
  ASSUME NEW d, IsDocument(d), NEW file, NEW s, NEW m \in Nat
  PROVE  UsesDone(d, file, s, m + 1) = UsesDone(d, file, s, m) \o UseOf(d, file, s, m + 1)
<1> DEFINE f == UseSeq(d, file, s, m)
           g == UseSeq(d, file, s, m + 1)
<1>1. /\ f \in Seq(Seq(StatedObject)) /\ Len(f) = m
      /\ g \in Seq(Seq(StatedObject)) /\ Len(g) = m + 1
  BY UsesSeq
<1>2. g[m + 1] = UseOf(d, file, s, m + 1) /\ \A i \in 1 .. m : g[i] = f[i]
  BY DEF UseSeq
<1> HIDE DEF f, g
<1>3. FlattenSeq(g) = FlattenSeq(f) \o g[Len(g)]
  BY <1>1, <1>2, FlattenSnoc
<1> QED BY <1>1, <1>2, <1>3 DEF UsesDone, UseSeq, f, g

LEMMA NothingDue ==
  ASSUME NEW d, NEW file, NEW s
  PROVE  Due(d, file, s, 0, 0) = <<>>
<1>1. [i \in 1 .. 0 |-> LayerInto(file, s, i)] = <<>>
  OBVIOUS
<1>2. [i \in 1 .. 0 |-> UseOf(d, file, s, i)] = <<>>
  OBVIOUS
<1> QED BY <1>1, <1>2, FlattenVoid DEF Due, OwnDone, UsesDone

LEMMA DueType ==
  ASSUME NEW d, IsDocument(d), NEW file \in File, NEW s,
         NEW m \in 0 .. Len(file.layers), NEW n \in Nat
  PROVE  Due(d, file, s, m, n) \in Seq(StatedObject)
  BY OwnType, UsesType DEF Due

(* One layer more concerns the holder of its type only, one template more  *)
(* that of its ZOrder.                                                     *)
LEMMA DueLayer ==
  ASSUME NEW d, IsDocument(d), NEW file \in File, NEW s,
         NEW m \in Nat, m < Len(file.layers)
  PROVE  Due(d, file, s, m + 1, 0) =
           IF GroundSlot(file.layers[m + 1].type) = s
           THEN Due(d, file, s, m, 0) \o LayerState(file.layers[m + 1], OwnOffs(file, s))
           ELSE Due(d, file, s, m, 0)
<1>1. Len(file.layers) \in Nat /\ m \in 0 .. Len(file.layers)
  BY FileFacts
<1>2. CASE s \in OwnSlots
  <2>1. OwnDone(file, s, m + 1) = OwnDone(file, s, m) \o LayerInto(file, s, m + 1)
    BY OwnNext
  <2>2. OwnDone(file, s, m) \o <<>> = OwnDone(file, s, m)
    BY <1>1, OwnType, ConcatEmptySeq
  <2> QED BY <1>2, <2>1, <2>2 DEF Due, LayerInto, OwnOffs
<1>3. CASE s \notin OwnSlots
  BY <1>3 DEF Due, OwnSlots, GroundSlot
<1> QED BY <1>2, <1>3

LEMMA DueUse ==
  ASSUME NEW d, IsDocument(d), NEW file \in File, NEW s, NEW m, NEW n \in Nat,
         NEW u, file.uses[n + 1] = u, NEW loc, TemplateIn(d, u) = loc
  PROVE  Due(d, file, s, m, n + 1) =
           IF TemplateSlot(u.z) = s /\ FoundIn(d, loc)
           THEN Due(d, file, s, m, n)
                  \o LayersState(d.files[loc].layers, Placing(d.files[loc]))
           ELSE Due(d, file, s, m, n)
<1>1. CASE s \notin OwnSlots
  <2>1. UsesDone(d, file, s, n + 1) = UsesDone(d, file, s, n) \o UseOf(d, file, s, n + 1)
    BY UsesNext
  <2>2. UsesDone(d, file, s, n) \o <<>> = UsesDone(d, file, s, n)
    BY UsesType, ConcatEmptySeq
  <2> QED BY <1>1, <2>1, <2>2 DEF Due, UseOf
<1>2. CASE s \in OwnSlots
  BY <1>2 DEF Due, OwnSlots, TemplateSlot
<1> QED BY <1>1, <1>2

-----------------------------------------------------------------------------
(* Annotations.                                                            *)
LEMMA AnnotFacts ==
  ASSUME NEW a \in Annot
  PROVE  /\ a.elems \in Seq(Element) /\ a.box \in Int /\ a.far \in Int
         /\ a.shown \in BOOLEAN /\ a.outer \in BOOLEAN
  BY DEF Annot

ShownSeq(annots) ==
  [i \in 1 .. Len(annots) |-> IF annots[i].shown THEN <<annots[i]>> ELSE <<>>]
ObjectsSeq(elems) ==
  [j \in 1 .. Len(elems) |-> IF elems[j].kind = "hidden" THEN <<>> ELSE elems[j].objs]

LEMMA ShownSeqType ==
  ASSUME NEW annots \in Seq(Annot)
  PROVE  ShownSeq(annots) \in Seq(Seq(Annot)) /\ Len(ShownSeq(annots)) = Len(annots)
<1> DEFINE f == ShownSeq(annots)
<1>1. Len(annots) \in Nat /\ \A i \in 1 .. Len(annots) : annots[i] \in Annot
  OBVIOUS
<1>2. /\ f = [i \in 1 .. Len(annots) |-> f[i]]
      /\ \A i \in 1 .. Len(annots) : f[i] \in Seq(Annot)
  BY <1>1 DEF ShownSeq
<1> HIDE DEF f
<1>3. f \in Seq(Seq(Annot)) /\ Len(f) = Len(annots)
  BY <1>1, <1>2, IsSeq
<1> QED BY <1>3 DEF f

LEMMA ObjectsSeqType ==
  ASSUME NEW elems \in Seq(Element)
  PROVE  ObjectsSeq(elems) \in Seq(Seq(Objects)) /\ Len(ObjectsSeq(elems)) = Len(elems)
<1> DEFINE f == ObjectsSeq(elems)
<1>1. Len(elems) \in Nat /\ \A i \in 1 .. Len(elems) : elems[i] \in Element
  OBVIOUS
<1>2. /\ f = [i \in 1 .. Len(elems) |-> f[i]]
      /\ \A i \in 1 .. Len(elems) : f[i] \in Seq(Objects)
  BY <1>1, ElementFacts DEF ObjectsSeq
<1> HIDE DEF f
<1>3. f \in Seq(Seq(Objects)) /\ Len(f) = Len(elems)
  BY <1>1, <1>2, IsSeq
<1> QED BY <1>3 DEF f

LEMMA ShownType ==
  ASSUME NEW annots \in Seq(Annot) PROVE ShownIn(annots) \in Seq(Annot)
<1>1. FlattenSeq(ShownSeq(annots)) \in Seq(Annot)
  BY ShownSeqType, FlattenType
<1> QED BY <1>1 DEF ShownIn, ShownSeq

LEMMA ObjectsType ==
  ASSUME NEW elems \in Seq(Element) PROVE ShownObjects(elems) \in Seq(Objects)
<1>1. FlattenSeq(ObjectsSeq(elems)) \in Seq(Objects)
  BY ObjectsSeqType, FlattenType
<1> QED BY <1>1 DEF ShownObjects, ObjectsSeq

LEMMA ShownNone == ShownIn(<<>>) = <<>> /\ ShownObjects(<<>>) = <<>>
<1>1. [i \in 1 .. Len(<<>>) |-> IF <<>>[i].shown THEN <<<<>>[i]>> ELSE <<>>] = <<>>
  OBVIOUS
<1>2. [j \in 1 .. Len(<<>>) |-> IF <<>>[j].kind = "hidden" THEN <<>> ELSE <<>>[j].objs] = <<>>
  OBVIOUS
<1> QED BY <1>1, <1>2, FlattenVoid DEF ShownIn, ShownObjects

LEMMA ShownCons ==
  ASSUME NEW annots \in Seq(Annot), annots # <<>>
  PROVE  ShownIn(annots) = (IF Head(annots).shown THEN <<Head(annots)>> ELSE <<>>)
                             \o ShownIn(Tail(annots))
<1> DEFINE s == ShownSeq(annots)
           t == ShownSeq(Tail(annots))
<1>1. /\ Len(annots) \in Nat /\ Len(Tail(annots)) \in Nat
      /\ Len(annots) = Len(Tail(annots)) + 1 /\ Tail(annots) \in Seq(Annot)
      /\ \A i \in 1 .. Len(Tail(annots)) : Tail(annots)[i] = annots[i + 1]
  OBVIOUS
<1>2. /\ s \in Seq(Seq(Annot)) /\ t \in Seq(Seq(Annot))
      /\ Len(s) = Len(t) + 1 /\ Len(t) = Len(Tail(annots))
  BY <1>1, ShownSeqType
<1>3. \A i \in 1 .. Len(t) : t[i] = s[i + 1]
  BY <1>1, <1>2 DEF ShownSeq
<1>4. s[1] = IF Head(annots).shown THEN <<Head(annots)>> ELSE <<>>
  BY <1>1 DEF ShownSeq
<1> HIDE DEF s, t
<1>5. FlattenSeq(s) = s[1] \o FlattenSeq(t)
  BY <1>2, <1>3, FlattenFirst
<1>6. ShownIn(annots) = FlattenSeq(s) /\ ShownIn(Tail(annots)) = FlattenSeq(t)
  BY DEF ShownIn, ShownSeq, s, t
<1> QED BY <1>4, <1>5, <1>6

LEMMA ObjectsCons ==
  ASSUME NEW elems \in Seq(Element), elems # <<>>
  PROVE  ShownObjects(elems) =
           (IF Head(elems).kind = "hidden" THEN <<>> ELSE Head(elems).objs)
             \o ShownObjects(Tail(elems))
<1> DEFINE s == ObjectsSeq(elems)
           t == ObjectsSeq(Tail(elems))
<1>1. /\ Len(elems) \in Nat /\ Len(Tail(elems)) \in Nat
      /\ Len(elems) = Len(Tail(elems)) + 1 /\ Tail(elems) \in Seq(Element)
      /\ \A i \in 1 .. Len(Tail(elems)) : Tail(elems)[i] = elems[i + 1]
  OBVIOUS
<1>2. /\ s \in Seq(Seq(Objects)) /\ t \in Seq(Seq(Objects))
      /\ Len(s) = Len(t) + 1 /\ Len(t) = Len(Tail(elems))
  BY <1>1, ObjectsSeqType
<1>3. \A i \in 1 .. Len(t) : t[i] = s[i + 1]
  BY <1>1, <1>2 DEF ObjectsSeq
<1>4. s[1] = IF Head(elems).kind = "hidden" THEN <<>> ELSE Head(elems).objs
  BY <1>1 DEF ObjectsSeq
<1> HIDE DEF s, t
<1>5. FlattenSeq(s) = s[1] \o FlattenSeq(t)
  BY <1>2, <1>3, FlattenFirst
<1>6. ShownObjects(elems) = FlattenSeq(s) /\ ShownObjects(Tail(elems)) = FlattenSeq(t)
  BY DEF ShownObjects, ObjectsSeq, s, t
<1> QED BY <1>4, <1>5, <1>6

NoteSeq(d, id, n) == [i \in 1 .. n |-> NoteFile(d, id, i)]

LEMMA NotesSeq ==
  ASSUME NEW d, IsDocument(d), NEW id, NEW n \in Nat
  PROVE  NoteSeq(d, id, n) \in Seq(Seq(Annot)) /\ Len(NoteSeq(d, id, n)) = n
<1> DEFINE f == NoteSeq(d, id, n)
<1>1. \A i : NoteFile(d, id, i) \in Seq(Annot)
  <2> SUFFICES ASSUME NEW i, FoundIn(d, d.annots[i].loc)
               PROVE  ShownIn(d.files[d.annots[i].loc].annots) \in Seq(Annot)
    BY DEF NoteFile
  <2>1. d.files[d.annots[i].loc] \in File
    BY DEF FoundIn, IsDocument
  <2> QED BY <2>1, FileFacts, ShownType
<1>2. /\ f = [i \in 1 .. n |-> f[i]]
      /\ \A i \in 1 .. n : f[i] \in Seq(Annot)
  BY <1>1 DEF NoteSeq
<1> HIDE DEF f
<1>3. f \in Seq(Seq(Annot)) /\ Len(f) = n
  BY <1>2, IsSeq
<1> QED BY <1>3 DEF f

LEMMA NotesType ==
  ASSUME NEW d, IsDocument(d), NEW id, NEW n \in Nat
  PROVE  NotesDone(d, id, n) \in Seq(Annot)
<1>1. FlattenSeq(NoteSeq(d, id, n)) \in Seq(Annot)
  BY NotesSeq, FlattenType
<1> QED BY <1>1 DEF NotesDone, NoteSeq

LEMMA NotesNone == \A d, id : NotesDone(d, id, 0) = <<>>
<1> SUFFICES ASSUME NEW d, NEW id PROVE NotesDone(d, id, 0) = <<>>
  OBVIOUS
<1>1. [i \in 1 .. 0 |-> NoteFile(d, id, i)] = <<>>
  OBVIOUS
<1> QED BY <1>1, FlattenVoid DEF NotesDone

LEMMA NotesNext ==
  ASSUME NEW d, IsDocument(d), NEW id, NEW n \in Nat
  PROVE  NotesDone(d, id, n + 1) = NotesDone(d, id, n) \o NoteFile(d, id, n + 1)
<1> DEFINE f == NoteSeq(d, id, n)
           g == NoteSeq(d, id, n + 1)
<1>1. /\ f \in Seq(Seq(Annot)) /\ Len(f) = n
      /\ g \in Seq(Seq(Annot)) /\ Len(g) = n + 1
  BY NotesSeq
<1>2. g[n + 1] = NoteFile(d, id, n + 1) /\ \A i \in 1 .. n : g[i] = f[i]
  BY DEF NoteSeq
<1> HIDE DEF f, g
<1>3. FlattenSeq(g) = FlattenSeq(f) \o g[Len(g)]
  BY <1>1, <1>2, FlattenSnoc
<1> QED BY <1>1, <1>2, <1>3 DEF NotesDone, NoteSeq, f, g

LEMMA NamesType ==
  ASSUME NEW a \in Seq(ParsedObject) PROVE Names(a) \in Seq(Objects) /\ Len(Names(a)) = Len(a)
<1>1. Len(a) \in Nat /\ \A k \in 1 .. Len(a) : a[k] \in ParsedObject
  OBVIOUS
<1>2. \A k \in 1 .. Len(a) : a[k].obj \in Objects
  BY <1>1 DEF ParsedObject
<1> QED BY <1>1, <1>2 DEF Names

LEMMA NamesConcat ==
  ASSUME NEW a \in Seq(ParsedObject), NEW b \in Seq(ParsedObject)
  PROVE  Names(a \o b) = Names(a) \o Names(b)
<1> DEFINE c == a \o b
           u == Names(a) \o Names(b)
<1>1. /\ c \in Seq(ParsedObject) /\ Len(c) = Len(a) + Len(b)
      /\ Len(a) \in Nat /\ Len(b) \in Nat
      /\ \A i \in 1 .. Len(a) + Len(b) : c[i] = IF i <= Len(a) THEN a[i] ELSE b[i - Len(a)]
  OBVIOUS
<1>2. /\ Names(a) \in Seq(Objects) /\ Len(Names(a)) = Len(a)
      /\ Names(b) \in Seq(Objects) /\ Len(Names(b)) = Len(b)
  BY NamesType
<1>3. /\ u \in Seq(Objects) /\ Len(u) = Len(a) + Len(b)
      /\ \A i \in 1 .. Len(a) + Len(b) :
           u[i] = IF i <= Len(a) THEN Names(a)[i] ELSE Names(b)[i - Len(a)]
  <2> DEFINE v == Names(a)
             w == Names(b)
  <2>1. v \in Seq(Objects) /\ w \in Seq(Objects) /\ Len(v) = Len(a) /\ Len(w) = Len(b)
    BY <1>2
  <2> HIDE DEF v, w
  <2>2. /\ v \o w \in Seq(Objects) /\ Len(v \o w) = Len(v) + Len(w)
        /\ \A i \in 1 .. Len(v) + Len(w) :
             (v \o w)[i] = IF i <= Len(v) THEN v[i] ELSE w[i - Len(v)]
    BY <2>1, ConcatProperties
  <2> QED BY <2>1, <2>2 DEF v, w
<1> HIDE DEF c, u
<1>4. Names(c) \in Seq(Objects) /\ Len(Names(c)) = Len(a) + Len(b)
  BY <1>1, NamesType
<1>5. ASSUME NEW i \in 1 .. Len(a) + Len(b) PROVE Names(c)[i] = u[i]
  <2>1. Names(c)[i] = c[i].obj
    BY <1>1 DEF Names
  <2>2. CASE i <= Len(a)
    <3>1. i \in 1 .. Len(a) /\ c[i] = a[i] /\ u[i] = Names(a)[i]
      BY <1>1, <1>3, <2>2
    <3> QED BY <2>1, <3>1 DEF Names
  <2>3. CASE ~(i <= Len(a))
    <3> DEFINE k == i - Len(a)
    <3>1. k \in 1 .. Len(b) /\ c[i] = b[k] /\ u[i] = Names(b)[k]
      BY <1>1, <1>3, <2>3
    <3> HIDE DEF k
    <3> QED BY <2>1, <3>1 DEF Names
  <2> QED BY <2>2, <2>3
<1>6. Names(c) = u
  BY <1>3, <1>4, <1>5, SeqEqual
<1> QED BY <1>6 DEF c, u

LEMMA NamesParsed ==
  ASSUME NEW e \in Element, NEW hd, NEW dp, NEW g
  PROVE  Names(Parsed(e, hd, dp, g)) = IF e.kind = "hidden" THEN <<>> ELSE e.objs
<1> DEFINE n == IF e.kind = "hidden" THEN 0 ELSE Len(e.objs)
           a == Parsed(e, hd, dp, g)
           v == IF e.kind = "composite" THEN g ELSE dp
<1>1. n \in Nat /\ e.objs \in Seq(Objects)
  BY ElementFacts
<1>2. a = [i \in 1 .. n |-> [obj |-> e.objs[i], rot |-> hd.rot, off |-> hd.off, dp |-> v]]
  BY DEF Parsed
<1> HIDE DEF a, v
<1>3. Len(a) = n /\ \A i \in 1 .. n : a[i].obj = e.objs[i]
  <2> HIDE DEF n
  <2> QED BY <1>1, <1>2
<1>4. Names(a) = [i \in 1 .. n |-> e.objs[i]]
  BY <1>3 DEF Names
<1>5. CASE e.kind = "hidden"
  BY <1>4, <1>5 DEF a
<1>6. CASE e.kind # "hidden"
  BY <1>1, <1>4, <1>6 DEF a
<1> QED BY <1>5, <1>6

LEMMA NoteElement ==
  ASSUME NEW x \in HolderRec, NEW a, NEW off, NEW elems \in Seq(Element), elems # <<>>,
         NEW dp \in Garbage, NEW g \in Garbage, NoteDue(x, a, off, elems)
  PROVE  NoteDue(WithMore(x, Parsed(Head(elems), x, dp, g)), a, off, Tail(elems))
<1> DEFINE y == Parsed(Head(elems), x, dp, g)
           o == IF Head(elems).kind = "hidden" THEN <<>> ELSE Head(elems).objs
           z == ShownObjects(Tail(elems))
           w == Names(x.objs)
<1>1. Head(elems) \in Element /\ Tail(elems) \in Seq(Element)
  OBVIOUS
<1>2. y \in Seq(ParsedObject) /\ Names(y) = o
  BY <1>1, ParsedType, NamesParsed
<1>3. x.objs \in Seq(ParsedObject)
  BY DEF HolderRec
<1>4. w \in Seq(Objects) /\ o \in Seq(Objects) /\ z \in Seq(Objects)
  BY <1>1, <1>2, <1>3, NamesType, ObjectsType
<1>5. w \o (o \o z) = ShownObjects(a.elems)
  BY ObjectsCons DEF NoteDue
<1> HIDE DEF y, o, z, w
<1>6. WithMore(x, y).objs = x.objs \o y /\ WithMore(x, y).off = x.off
  BY <1>2, WithMoreFacts
<1>7. Names(WithMore(x, y).objs) = w \o o
  BY <1>2, <1>3, <1>6, NamesConcat DEF w
<1>8. (w \o o) \o z = w \o (o \o z)
  BY ONLY <1>4, Assoc
<1> QED BY <1>5, <1>6, <1>7, <1>8 DEF NoteDue, y, z

-----------------------------------------------------------------------------
(* The steps of Parse, for a page p of document d with Parse at r.         *)
SamePage(q, p) ==
  q.index = p.index /\ q.id = p.id /\ q.loc = p.loc /\ q.annots = p.annots
IsPage(p) == DOMAIN p = PageFields /\ DOMAIN p.holders = Slots

LEMMA FileOfPage ==
  ASSUME NEW d, IsDocument(d), NEW p, PageOK(p, d)
  PROVE  d.files[p.loc] \in File
  BY DEF PageOK, FoundIn, IsDocument

LEMMA HolderFacts ==
  ASSUME NEW d, NEW p, PageOK(p, d), NEW s \in Slots
  PROVE  /\ p.holders[s] \in HolderRec /\ p.holders[s].objs \in Seq(ParsedObject)
         /\ p.holders[s].off \in Int /\ p.holders[s].made \in BOOLEAN
  BY DEF PageOK, HolderRec

(* Holder s of the page is replaced.                                       *)
Replaced(q, p, s, hd) ==
  /\ SamePage(q, p)
  /\ \A t \in Slots : q.holders[t] = IF t = s THEN hd ELSE p.holders[t]

LEMMA ReplacedOK ==
  ASSUME NEW d, NEW p, PageOK(p, d), NEW q, NEW s \in Slots, NEW hd \in HolderRec,
         Replaced(q, p, s, hd), ~hd.made => hd.objs = <<>>,
         s = "page" => hd.made /\ hd.off = p.holders["page"].off
  PROVE  PageOK(q, d)
<1>1. "page" \in Slots
  BY DEF Slots
<1> QED BY <1>1 DEF PageOK, Replaced, SamePage

LEMMA ElementInto ==
  ASSUME NEW d, IsDocument(d), NEW p, NEW r, InParse(p, d, r), r.slot \in Slots,
         r.elems # <<>>, r.phase \in {"layers", "templates"}, NEW g \in Garbage, NEW q, NEW r2,
         Replaced(q, p, r.slot, WithMore(p.holders[r.slot],
                    Parsed(Head(r.elems), p.holders[r.slot], r.dp, g))),
         r2.phase = r.phase, r2.at = r.at, r2.layer = r.layer, r2.slot = r.slot,
         r2.rest = r.rest, r2.dp = r.dp, r2.elems = Tail(r.elems)
  PROVE  InParse(q, d, r2)
<1> DEFINE s == r.slot
           hd == p.holders[s]
           x == Parsed(Head(r.elems), hd, r.dp, g)
           file == d.files[p.loc]
<1>1. /\ PageOK(p, d) /\ r.elems \in Seq(Element) /\ r.dp \in Garbage /\ hd \in HolderRec
      /\ hd.made
  BY HolderFacts DEF InParse, RunOK, HoldersMade
<1>2. Head(r.elems) \in Element /\ Tail(r.elems) \in Seq(Element)
  BY <1>1
<1>3. x \in Seq(ParsedObject)
  BY <1>1, <1>2, ParsedType
<1>4. r.rest \in Seq(Layer)
  <2>1. r.rest = <<>> \/ r.rest \in Seq(Layer)
    BY DEF InParse, RunOK
  <2>2. <<>> \in Seq(Layer)
    OBVIOUS
  <2> QED BY <2>1, <2>2
<1>5. /\ WithMore(hd, x) \in HolderRec /\ WithMore(hd, x).off = hd.off
      /\ WithMore(hd, x).made = hd.made /\ WithMore(hd, x).xml = hd.xml
  <2> HIDE DEF x, hd
  <2> QED BY <1>1, <1>3, WithMoreFacts
<1>6. PageOK(q, d)
  BY <1>1, <1>5, ReplacedOK
<1>7. RunOK(q, d, r2)
  BY <1>2 DEF InParse, RunOK, Replaced, SamePage
<1>8. \A t \in Slots : /\ q.holders[t].made = p.holders[t].made
                       /\ q.holders[t].xml = p.holders[t].xml
  BY <1>5 DEF Replaced
<1>9. HoldersMade(q, d, r2)
  <2>1. "bg" \in Slots /\ "fg" \in Slots
    BY DEF Slots
  <2> QED BY <1>8, <2>1 DEF InParse, HoldersMade, Replaced, SamePage
<1>10. SlotsDue(q, d, r2)
  <2> SUFFICES ASSUME OneGround(file), NEW t \in Slots
               PROVE  Coming(q.holders[t], ElemsFor(r2, t), r2.dp, RestFor(r2, t),
                             Due(d, file, t, LayersAt(r2, file), UsesAt(r2, file)))
    BY DEF SlotsDue, Replaced, SamePage
  <2> DEFINE due == Due(d, file, t, LayersAt(r, file), UsesAt(r, file))
  <2>1. due = Due(d, file, t, LayersAt(r2, file), UsesAt(r2, file))
    BY DEF LayersAt, UsesAt
  <2>2. Coming(p.holders[t], ElemsFor(r, t), r.dp, RestFor(r, t), due)
    BY DEF InParse, SlotsDue
  <2> HIDE DEF due
  <2>3. CASE t = s
    <3>1. Coming(hd, r.elems, r.dp, r.rest, due)
      BY <2>2, <2>3 DEF ElemsFor, RestFor
    <3>2. Coming(WithMore(hd, x), Tail(r.elems), r.dp, r.rest, due)
      BY <1>1, <1>4, <3>1, ElementComes
    <3>3. q.holders[t] = WithMore(hd, x)
      BY <2>3 DEF Replaced
    <3> HIDE DEF hd, x
    <3> QED BY <2>1, <2>3, <3>2, <3>3 DEF ElemsFor, RestFor
  <2>4. CASE t # s
    <3>1. q.holders[t] = p.holders[t]
      BY <2>4 DEF Replaced
    <3> HIDE DEF hd, x
    <3> QED BY <2>1, <2>2, <2>4, <3>1 DEF ElemsFor, RestFor
  <2> QED BY <2>3, <2>4
<1>11. NotesDue(q, d, r2)
  BY DEF InParse, NotesDue, Replaced, SamePage
<1> QED BY <1>6, <1>7, <1>9, <1>10, <1>11 DEF InParse

(* Nothing is at hand for holder s: it holds what is due.                  *)
LEMMA SlotMatches ==
  ASSUME NEW d, IsDocument(d), NEW p, NEW r, InParse(p, d, r), NEW s \in Slots,
         ElemsFor(r, s) = <<>>, RestFor(r, s) = <<>>, OneGround(d.files[p.loc])
  PROVE  LET file == d.files[p.loc]
             due == Due(d, file, s, LayersAt(r, file), UsesAt(r, file))
         IN  Matches(p.holders[s].objs, due) /\ due \in Seq(StatedObject)
<1> DEFINE file == d.files[p.loc]
           due == Due(d, file, s, LayersAt(r, file), UsesAt(r, file))
<1>1. Coming(p.holders[s], ElemsFor(r, s), r.dp, RestFor(r, s), due)
  BY DEF InParse, SlotsDue
<1>2. Coming(p.holders[s], <<>>, r.dp, <<>>, due)
  BY <1>1
<1> HIDE DEF due
<1>3. Matches(p.holders[s].objs, due) /\ due \in Seq(StatedObject)
  BY <1>2, NothingComing
<1> QED BY <1>3 DEF due

LayerTaken(q, r2, p, d, r, new) ==
  LET file == d.files[p.loc]
      i == r.layer + 1
      l == file.layers[i]
      s == GroundSlot(l.type)
      hd == IF p.holders[s].made THEN p.holders[s] ELSE new
  IN  /\ Replaced(q, p, s, hd)
      /\ r2.phase = r.phase /\ r2.layer = i /\ r2.slot = s /\ r2.dp = l.dp
      /\ r2.rest = r.rest
      /\ r2.elems = IF s = "page" THEN l.elems ELSE file.layers[hd.xml].elems

LEMMA LayerTurn ==
  ASSUME NEW d, IsDocument(d), NEW p, NEW r, InParse(p, d, r), r.phase = "layers",
         r.elems = <<>>, r.layer < Len(d.files[p.loc].layers),
         NEW new \in HolderRec, new.made, new.xml = r.layer + 1, new.objs = <<>>,
         NEW q, NEW r2, LayerTaken(q, r2, p, d, r, new)
  PROVE  InParse(q, d, r2)
<1> DEFINE file == d.files[p.loc]
           i == r.layer + 1
           l == file.layers[i]
           s == GroundSlot(l.type)
           hd == IF p.holders[s].made THEN p.holders[s] ELSE new
<1>0. /\ i = r.layer + 1 /\ d.files[p.loc].layers[i] = l /\ GroundSlot(l.type) = s
      /\ new.xml = i /\ hd = IF p.holders[s].made THEN p.holders[s] ELSE new
      /\ Replaced(q, p, s, hd)
      /\ r2.phase = r.phase /\ r2.layer = i /\ r2.slot = s /\ r2.dp = l.dp
      /\ r2.rest = r.rest
      /\ r2.elems = IF s = "page" THEN l.elems ELSE d.files[p.loc].layers[hd.xml].elems
  BY DEF LayerTaken
<1> HIDE DEF i, l, s, hd
<1> USE <1>0
<1>1. PageOK(p, d) /\ file \in File
  BY FileOfPage DEF InParse
<1>2. /\ file.layers \in Seq(Layer) /\ Len(file.layers) \in Nat
      /\ r.layer \in Nat /\ i \in 1 .. Len(file.layers) /\ r.rest = <<>>
  BY <1>1, FileFacts DEF InParse, RunOK
<1> HIDE DEF file
<1>a. r.layer = i - 1 /\ i \in Nat /\ i <= Len(file.layers)
  BY <1>2
<1>3. l \in Layer /\ l.elems \in Seq(Element) /\ l.dp \in Garbage
  BY <1>2, LayerFacts DEF file
<1>4. s \in OwnSlots /\ s \in Slots
  BY DEF GroundSlot, OwnSlots, Slots
<1>5. hd \in HolderRec /\ hd.made
  BY <1>1, <1>4, HolderFacts
<1>6. s # "page" => /\ hd.xml \in 1 .. i /\ GroundSlot(file.layers[hd.xml].type) = s
                    /\ OneGround(file) => ~p.holders[s].made /\ hd.xml = i
  <2> SUFFICES ASSUME s # "page"
               PROVE  /\ hd.xml \in 1 .. i /\ GroundSlot(file.layers[hd.xml].type) = s
                      /\ OneGround(file) => ~p.holders[s].made /\ hd.xml = i
    OBVIOUS
  <2>1. s \in {"bg", "fg"}
    BY <1>4 DEF OwnSlots
  <2>2. CASE p.holders[s].made
    <3> DEFINE k == p.holders[s].xml
    <3>1. k \in 1 .. r.layer /\ GroundSlot(file.layers[k].type) = s /\ hd.xml = k
      BY <2>1, <2>2 DEF InParse, HoldersMade, file
    <3> HIDE DEF k
    <3>2. k \in 1 .. Len(file.layers) /\ k # i /\ k \in 1 .. i
      BY <1>a, <1>2, <3>1
    <3>3. ~OneGround(file)
      BY <1>2, <3>1, <3>2 DEF OneGround, file
    <3> QED BY <3>1, <3>2, <3>3
  <2>3. CASE ~p.holders[s].made
    <3>1. hd.xml = i /\ file.layers[i] = l
      BY <2>3 DEF file
    <3>2. i \in 1 .. i
      BY <1>2
    <3> QED BY <2>3, <3>1, <3>2
  <2> QED BY <2>2, <2>3
<1>7. s = "page" => hd = p.holders["page"] /\ p.holders["page"].off \in OwnOffs(file, "page")
  BY <1>1 DEF PageOK, file
<1>8. PageOK(q, d)
  BY <1>1, <1>4, <1>5, <1>7, ReplacedOK
<1>9. RunOK(q, d, r2)
  <2>1. r2.elems \in Seq(Element)
    <3>1. CASE s = "page"
      BY <1>3, <3>1
    <3>2. CASE s # "page"
      <4>1. hd.xml \in 1 .. Len(file.layers)
        BY <1>a, <1>2, <1>6, <3>2
      <4>2. file.layers[hd.xml] \in Layer
        BY <1>2, <4>1
      <4> QED BY <3>2, <4>2, LayerFacts DEF file
    <3> QED BY <3>1, <3>2
  <2>2. i \in 0 .. Len(file.layers)
    BY <1>a, <1>2
  <2> QED BY <1>2, <1>3, <1>4, <2>1, <2>2 DEF RunOK, Replaced, SamePage, file
<1>10. HoldersMade(q, d, r2)
  <2>1. q.holders[s].made
    BY <1>4, <1>5 DEF Replaced
  <2>2. ASSUME NEW t \in {"bg", "fg"}, q.holders[t].made
        PROVE  LET k == q.holders[t].xml
               IN  k \in 1 .. i /\ GroundSlot(file.layers[k].type) = t
    <3>1. t \in Slots /\ t # "page"
      BY DEF Slots
    <3>2. CASE t = s
      BY <1>6, <3>1, <3>2 DEF Replaced
    <3>3. CASE t # s
      <4>1. q.holders[t] = p.holders[t]
        BY <3>1, <3>3 DEF Replaced
      <4> DEFINE k == p.holders[t].xml
      <4>2. k \in 1 .. r.layer /\ GroundSlot(file.layers[k].type) = t
        BY <2>2, <4>1 DEF InParse, HoldersMade, file
      <4> HIDE DEF k
      <4>3. k \in 1 .. i
        BY <1>a, <4>2
      <4> QED BY <4>1, <4>2, <4>3 DEF k
    <3> QED BY <3>2, <3>3
  <2> QED BY <2>1, <2>2 DEF HoldersMade, Replaced, SamePage, file
<1>11. SlotsDue(q, d, r2)
  <2> SUFFICES ASSUME OneGround(file), NEW t \in Slots
               PROVE  Coming(q.holders[t], ElemsFor(r2, t), r2.dp, RestFor(r2, t),
                             Due(d, file, t, i, 0))
    BY DEF SlotsDue, Replaced, SamePage, LayersAt, UsesAt, file
  <2> DEFINE due == Due(d, file, t, r.layer, 0)
  <2>1. Matches(p.holders[t].objs, due) /\ due \in Seq(StatedObject)
    BY <1>2, SlotMatches DEF LayersAt, UsesAt, ElemsFor, RestFor, file
  <2>2. Due(d, file, t, i, 0) = IF s = t THEN due \o LayerState(l, OwnOffs(file, t)) ELSE due
    <3>1. r.layer + 1 = i /\ r.layer < Len(file.layers)
      BY <1>a, <1>2
    <3>2. file.layers[i] = l
      BY DEF file
    <3> QED BY <1>1, <1>2, <3>1, <3>2, DueLayer
  <2> HIDE DEF due
  <2>3. CASE t = s
    <3>1. hd.objs = p.holders[s].objs
      BY <1>1, <1>4 DEF PageOK
    <3>2. hd.off \in OwnOffs(file, s) /\ OwnOffs(file, s) \in SUBSET Int
      <4>1. OwnOffs(file, s) \in SUBSET Int
        BY <1>1, FileFacts
      <4>2. hd.off \in Int
        BY <1>5 DEF HolderRec
      <4> QED BY <1>7, <4>1, <4>2 DEF OwnOffs
    <3>3. Coming(hd, l.elems, l.dp, <<>>, due \o LayerState(l, OwnOffs(file, s)))
      BY <1>3, <2>1, <2>3, <3>1, <3>2, LayerComes
    <3>4. ElemsFor(r2, t) = l.elems /\ RestFor(r2, t) = <<>> /\ q.holders[t] = hd
      BY <1>2, <1>6, <2>3 DEF ElemsFor, RestFor, Replaced, file
    <3> QED BY <2>2, <2>3, <3>3, <3>4
  <2>4. CASE t # s
    <3>1. ElemsFor(r2, t) = <<>> /\ RestFor(r2, t) = <<>> /\ q.holders[t] = p.holders[t]
      BY <2>4 DEF ElemsFor, RestFor, Replaced
    <3>2. p.holders[t].off \in Int
      BY <1>1, HolderFacts
    <3> QED BY <2>1, <2>2, <2>4, <3>1, <3>2, NothingLeft
  <2> QED BY <2>3, <2>4
<1>12. NotesDue(q, d, r2)
  BY DEF InParse, NotesDue, Replaced, SamePage
<1> QED BY <1>8, <1>9, <1>10, <1>11, <1>12 DEF InParse

LEMMA LayersEnd ==
  ASSUME NEW d, IsDocument(d), NEW p, NEW r, InParse(p, d, r), r.phase = "layers",
         r.elems = <<>>, r.layer = Len(d.files[p.loc].layers)
  PROVE  InParse(p, d, [Idle EXCEPT !.phase = "templates"])
<1> DEFINE file == d.files[p.loc]
           r2 == [Idle EXCEPT !.phase = "templates"]
<1>1. PageOK(p, d) /\ file \in File
  BY FileOfPage DEF InParse
<1>2. /\ r2.phase = "templates" /\ r2.at = 0 /\ r2.slot = "page" /\ r2.rest = <<>>
      /\ r2.elems = <<>> /\ r2.dp = 0
  BY DEF Idle
<1> HIDE DEF r2
<1>3. RunOK(p, d, r2)
  <2>1. /\ 0 \in 0 .. Len(file.uses) /\ 0 \in Garbage /\ "page" \in Slots
        /\ <<>> \in Seq(Layer) /\ <<>> \in Seq(Element)
    BY <1>1, FileFacts DEF Garbage, Slots
  <2> QED BY <1>2, <2>1 DEF RunOK
<1>4. HoldersMade(p, d, r2)
  BY <1>1, <1>2 DEF HoldersMade, PageOK
<1>5. SlotsDue(p, d, r2)
  <2> SUFFICES ASSUME OneGround(file), NEW t \in Slots
               PROVE  Coming(p.holders[t], <<>>, r2.dp, <<>>,
                             Due(d, file, t, Len(file.layers), 0))
    BY <1>2 DEF SlotsDue, LayersAt, UsesAt, ElemsFor, RestFor
  <2> DEFINE due == Due(d, file, t, Len(file.layers), 0)
  <2>1. r.rest = <<>>
    BY DEF InParse, RunOK
  <2>2. Matches(p.holders[t].objs, due) /\ due \in Seq(StatedObject)
    BY <2>1, SlotMatches DEF LayersAt, UsesAt, ElemsFor, RestFor
  <2>3. p.holders[t].off \in Int
    BY <1>1, HolderFacts
  <2> HIDE DEF due
  <2> QED BY <2>2, <2>3, NothingLeft DEF due
<1>6. NotesDue(p, d, r2)
  BY <1>2 DEF InParse, NotesDue
<1>7. InParse(p, d, r2)
  BY <1>1, <1>3, <1>4, <1>5, <1>6 DEF InParse
<1> QED BY <1>7 DEF r2

LEMMA TemplateTurn ==
  ASSUME NEW d, IsDocument(d), NEW p, NEW r, InParse(p, d, r), r.phase = "templates",
         r.elems = <<>>, r.rest = <<>>, r.at < Len(d.files[p.loc].uses),
         NEW u, d.files[p.loc].uses[r.at + 1] = u, NEW s, TemplateSlot(u.z) = s,
         FoundIn(d, TemplateIn(d, u)), NEW file, d.files[TemplateIn(d, u)] = file,
         NEW hd \in HolderRec, hd.made, hd.objs = p.holders[s].objs,
         hd.off \in Placing(file), NEW q, Replaced(q, p, s, hd),
         NEW r2, r2.phase = r.phase, r2.at = r.at + 1, r2.slot = s, r2.dp = r.dp,
         r2.rest = file.layers, r2.elems = r.elems
  PROVE  InParse(q, d, r2)
<1> DEFINE own == d.files[p.loc]
<1>1. PageOK(p, d) /\ own \in File /\ file \in File
  BY FileOfPage DEF InParse, FoundIn, IsDocument
<1>2. /\ Len(own.uses) \in Nat /\ r.at \in Nat /\ r.at + 1 \in 0 .. Len(own.uses)
  <2>1. own.uses \in Seq(Use) /\ r.at \in 0 .. Len(own.uses)
    BY <1>1, FileFacts DEF InParse, RunOK
  <2> HIDE DEF own
  <2>2. r.at < Len(own.uses)
    BY DEF own
  <2> QED BY <2>1, <2>2
<1>3. s \notin OwnSlots /\ s \in Slots /\ s # "page"
  BY DEF TemplateSlot, OwnSlots, Slots
<1>4. PageOK(q, d)
  BY <1>1, <1>3, ReplacedOK
<1>5. file.layers \in Seq(Layer) /\ Placing(file) \in SUBSET Int
  BY <1>1, FileFacts
<1>6. RunOK(q, d, r2)
  BY <1>2, <1>3, <1>5 DEF InParse, RunOK, Replaced, SamePage
<1>7. HoldersMade(q, d, r2)
  BY <1>3 DEF HoldersMade, Replaced
<1>8. SlotsDue(q, d, r2)
  <2> SUFFICES ASSUME OneGround(own), NEW t \in Slots
               PROVE  Coming(q.holders[t], ElemsFor(r2, t), r2.dp, RestFor(r2, t),
                             Due(d, own, t, Len(own.layers), r.at + 1))
    BY DEF SlotsDue, Replaced, SamePage, LayersAt, UsesAt
  <2> DEFINE due == Due(d, own, t, Len(own.layers), r.at)
  <2>1. Matches(p.holders[t].objs, due) /\ due \in Seq(StatedObject)
    BY SlotMatches DEF LayersAt, UsesAt, ElemsFor, RestFor
  <2>2. Due(d, own, t, Len(own.layers), r.at + 1)
          = IF s = t THEN due \o LayersState(file.layers, Placing(file)) ELSE due
    <3>1. Due(d, own, t, Len(own.layers), r.at + 1)
            = IF TemplateSlot(u.z) = t /\ FoundIn(d, TemplateIn(d, u))
              THEN due \o LayersState(d.files[TemplateIn(d, u)].layers,
                                      Placing(d.files[TemplateIn(d, u)]))
              ELSE due
      BY <1>1, <1>2, DueUse
    <3> HIDE DEF due, own
    <3> QED BY <3>1
  <2> HIDE DEF due
  <2>3. CASE t = s
    <3>1. Coming(hd, <<>>, r.dp, file.layers, due \o LayersState(file.layers, Placing(file)))
      BY <1>5, <2>1, <2>3, TemplateComes
    <3>2. ElemsFor(r2, t) = <<>> /\ RestFor(r2, t) = file.layers /\ q.holders[t] = hd
      BY <2>3 DEF ElemsFor, RestFor, Replaced
    <3> QED BY <2>2, <2>3, <3>1, <3>2
  <2>4. CASE t # s
    <3>1. ElemsFor(r2, t) = <<>> /\ RestFor(r2, t) = <<>> /\ q.holders[t] = p.holders[t]
      BY <2>4 DEF ElemsFor, RestFor, Replaced
    <3>2. p.holders[t].off \in Int
      BY <1>1, HolderFacts
    <3> QED BY <2>1, <2>2, <2>4, <3>1, <3>2, NothingLeft
  <2> QED BY <2>3, <2>4
<1>9. NotesDue(q, d, r2)
  BY DEF InParse, NotesDue, Replaced, SamePage
<1> QED BY <1>4, <1>6, <1>7, <1>8, <1>9 DEF InParse

LEMMA TemplatePassed ==
  ASSUME NEW d, IsDocument(d), NEW p, NEW r, InParse(p, d, r), r.phase = "templates",
         r.elems = <<>>, r.rest = <<>>, r.at < Len(d.files[p.loc].uses),
         ~FoundIn(d, TemplateIn(d, d.files[p.loc].uses[r.at + 1])),
         NEW r2, r2.phase = r.phase, r2.at = r.at + 1, r2.slot = r.slot, r2.dp = r.dp,
         r2.rest = r.rest, r2.elems = r.elems
  PROVE  InParse(p, d, r2)
<1> DEFINE own == d.files[p.loc]
<1>1. PageOK(p, d) /\ own \in File
  BY FileOfPage DEF InParse
<1>2. /\ Len(own.uses) \in Nat /\ r.at \in Nat /\ r.at + 1 \in 0 .. Len(own.uses)
  <2>1. own.uses \in Seq(Use) /\ r.at \in 0 .. Len(own.uses)
    BY <1>1, FileFacts DEF InParse, RunOK
  <2> HIDE DEF own
  <2>2. r.at < Len(own.uses)
    BY DEF own
  <2> QED BY <2>1, <2>2
<1>3. RunOK(p, d, r2)
  BY <1>2 DEF InParse, RunOK
<1>4. HoldersMade(p, d, r2)
  BY DEF InParse, HoldersMade
<1>5. SlotsDue(p, d, r2)
  <2> SUFFICES ASSUME OneGround(own), NEW t \in Slots
               PROVE  Coming(p.holders[t], <<>>, r2.dp, <<>>,
                             Due(d, own, t, Len(own.layers), r.at + 1))
    BY DEF SlotsDue, LayersAt, UsesAt, ElemsFor, RestFor
  <2> DEFINE due == Due(d, own, t, Len(own.layers), r.at)
  <2>1. Matches(p.holders[t].objs, due) /\ due \in Seq(StatedObject)
    BY SlotMatches DEF LayersAt, UsesAt, ElemsFor, RestFor
  <2>2. Due(d, own, t, Len(own.layers), r.at + 1) = due
    BY <1>1, <1>2, DueUse
  <2>3. p.holders[t].off \in Int
    BY <1>1, HolderFacts
  <2> HIDE DEF due
  <2> QED BY <2>1, <2>2, <2>3, NothingLeft
<1>6. NotesDue(p, d, r2)
  BY DEF InParse, NotesDue
<1> QED BY <1>1, <1>3, <1>4, <1>5, <1>6 DEF InParse

LEMMA TemplateLayerTurn ==
  ASSUME NEW d, IsDocument(d), NEW p, NEW r, InParse(p, d, r), r.phase = "templates",
         r.elems = <<>>, r.rest # <<>>,
         NEW r2, r2.phase = r.phase, r2.at = r.at, r2.slot = r.slot,
         r2.rest = Tail(r.rest), r2.dp = Head(r.rest).dp, r2.elems = Head(r.rest).elems
  PROVE  InParse(p, d, r2)
<1> DEFINE own == d.files[p.loc]
<1>1. PageOK(p, d) /\ r.rest \in Seq(Layer) /\ r.slot \in Slots
  BY DEF InParse, RunOK
<1>2. /\ Tail(r.rest) \in Seq(Layer) /\ Head(r.rest).dp \in Garbage
      /\ Head(r.rest).elems \in Seq(Element)
  <2>1. Head(r.rest) \in Layer /\ Tail(r.rest) \in Seq(Layer)
    BY <1>1
  <2> QED BY <2>1, LayerFacts
<1>3. RunOK(p, d, r2)
  BY <1>2 DEF InParse, RunOK
<1>4. HoldersMade(p, d, r2)
  BY DEF InParse, HoldersMade
<1>5. SlotsDue(p, d, r2)
  <2> SUFFICES ASSUME OneGround(own), NEW t \in Slots
               PROVE  Coming(p.holders[t], ElemsFor(r2, t), r2.dp, RestFor(r2, t),
                             Due(d, own, t, Len(own.layers), r.at))
    BY DEF SlotsDue, LayersAt, UsesAt
  <2> DEFINE due == Due(d, own, t, Len(own.layers), r.at)
  <2>1. Coming(p.holders[t], ElemsFor(r, t), r.dp, RestFor(r, t), due)
    BY DEF InParse, SlotsDue, LayersAt, UsesAt
  <2>2. p.holders[t].off \in Int
    BY <1>1, HolderFacts
  <2> HIDE DEF due
  <2>3. CASE t = r.slot
    <3>1. Coming(p.holders[t], <<>>, r.dp, r.rest, due)
      BY <2>1, <2>3 DEF ElemsFor, RestFor
    <3>2. Coming(p.holders[t], Head(r.rest).elems, Head(r.rest).dp, Tail(r.rest), due)
      BY <1>1, <3>1, NextComes
    <3> QED BY <2>3, <3>2 DEF ElemsFor, RestFor, due
  <2>4. CASE t # r.slot
    <3>1. Coming(p.holders[t], <<>>, r.dp, <<>>, due)
      BY <2>1, <2>4 DEF ElemsFor, RestFor
    <3>2. Coming(p.holders[t], <<>>, r2.dp, <<>>, due)
      BY <2>2, <3>1, NothingComing, NothingLeft
    <3> QED BY <2>4, <3>2 DEF ElemsFor, RestFor, due
  <2> QED BY <2>3, <2>4
<1>6. NotesDue(p, d, r2)
  BY DEF InParse, NotesDue
<1> QED BY <1>1, <1>3, <1>4, <1>5, <1>6 DEF InParse

(* Annotations leave the holders alone.                                    *)
SameHolders(q, p) ==
  q.index = p.index /\ q.id = p.id /\ q.loc = p.loc /\ q.holders = p.holders

LEMMA NotesOnly ==
  ASSUME NEW d, IsDocument(d), NEW p, NEW r, InParse(p, d, r), NEW q, SameHolders(q, p),
         NEW r2, r.phase = "annots", r2.phase = "annots", r2.slot = r.slot
  PROVE  PageOK(q, d) /\ HoldersMade(q, d, r2) /\ SlotsDue(q, d, r2)
<1> DEFINE own == d.files[p.loc]
<1>1. PageOK(p, d) /\ r.slot = "annot" /\ PageOK(q, d)
  BY DEF InParse, RunOK, PageOK, SameHolders
<1>2. HoldersMade(q, d, r2)
  BY <1>1 DEF HoldersMade, Slots
<1>3. SlotsDue(q, d, r2)
  <2> SUFFICES ASSUME OneGround(own), NEW t \in Slots
               PROVE  Coming(p.holders[t], <<>>, r2.dp, <<>>,
                             Due(d, own, t, Len(own.layers), Len(own.uses)))
    <3>1. \A t \in Slots : ElemsFor(r2, t) = <<>> /\ RestFor(r2, t) = <<>>
      BY <1>1 DEF ElemsFor, RestFor, Slots
    <3> QED BY <3>1 DEF SlotsDue, LayersAt, UsesAt, SameHolders
  <2> DEFINE due == Due(d, own, t, Len(own.layers), Len(own.uses))
  <2>1. ElemsFor(r, t) = <<>> /\ RestFor(r, t) = <<>>
    BY <1>1 DEF ElemsFor, RestFor, Slots
  <2>2. Matches(p.holders[t].objs, due) /\ due \in Seq(StatedObject)
    BY <2>1, SlotMatches DEF LayersAt, UsesAt
  <2>3. p.holders[t].off \in Int
    BY <1>1, HolderFacts
  <2> HIDE DEF due
  <2> QED BY <2>2, <2>3, NothingLeft DEF due
<1> QED BY <1>1, <1>2, <1>3

LEMMA TemplatesEnd ==
  ASSUME NEW d, IsDocument(d), NEW p, NEW r, InParse(p, d, r), r.phase = "templates",
         r.elems = <<>>, r.rest = <<>>, r.at = Len(d.files[p.loc].uses)
  PROVE  InParse(p, d, [Idle EXCEPT !.phase = "annots", !.slot = "annot"])
<1> DEFINE own == d.files[p.loc]
           r2 == [Idle EXCEPT !.phase = "annots", !.slot = "annot"]
<1>1. PageOK(p, d) /\ p.annots = <<>>
  BY DEF InParse, NotesDue
<1>2. /\ r2.phase = "annots" /\ r2.at = 0 /\ r2.slot = "annot" /\ r2.rest = <<>>
      /\ r2.elems = <<>> /\ r2.dp = 0
  BY DEF Idle
<1> HIDE DEF r2
<1>3. RunOK(p, d, r2)
  <2>1. Len(d.annots) \in Nat
    BY DEF IsDocument
  <2>2. /\ 0 \in 0 .. Len(d.annots) /\ 0 \in Garbage
        /\ <<>> \in Seq(Annot) /\ <<>> \in Seq(Element)
    BY <2>1 DEF Garbage
  <2> QED BY <1>2, <2>2 DEF RunOK
<1>4. HoldersMade(p, d, r2)
  BY <1>2 DEF HoldersMade, Slots
<1>5. SlotsDue(p, d, r2)
  <2> SUFFICES ASSUME OneGround(own), NEW t \in Slots
               PROVE  Coming(p.holders[t], <<>>, r2.dp, <<>>,
                             Due(d, own, t, Len(own.layers), Len(own.uses)))
    <3>1. \A t \in Slots : ElemsFor(r2, t) = <<>> /\ RestFor(r2, t) = <<>>
      BY <1>2 DEF ElemsFor, RestFor
    <3> QED BY <1>2, <3>1 DEF SlotsDue, LayersAt, UsesAt
  <2> DEFINE due == Due(d, own, t, Len(own.layers), Len(own.uses))
  <2>1. Matches(p.holders[t].objs, due) /\ due \in Seq(StatedObject)
    BY SlotMatches DEF LayersAt, UsesAt, ElemsFor, RestFor
  <2>2. p.holders[t].off \in Int
    BY <1>1, HolderFacts
  <2> HIDE DEF due
  <2> QED BY <2>1, <2>2, NothingLeft DEF due
<1>6. NotesDue(p, d, r2)
  <2>1. <<>> \in Seq(Annot) /\ <<>> \in Seq(HolderRec) /\ Len(<<>>) = 0
    OBVIOUS
  <2>2. NotesAre(p, <<>>, r2.elems)
    BY <1>1, <2>1 DEF NotesAre
  <2>3. <<>> \o ShownIn(<<>>) = NotesDone(d, p.id, 0)
    BY ShownNone, NotesNone
  <2> QED BY <1>2, <2>1, <2>2, <2>3 DEF NotesDue
<1>7. InParse(p, d, r2)
  BY <1>1, <1>3, <1>4, <1>5, <1>6 DEF InParse
<1> QED BY <1>7 DEF r2

NotesIn(d, id, a) ==
  IF a.page = id /\ FoundIn(d, a.loc) THEN d.files[a.loc].annots ELSE <<>>

LEMMA NoteFileTurn ==
  ASSUME NEW d, IsDocument(d), NEW p, NEW r, InParse(p, d, r), r.phase = "annots",
         r.elems = <<>>, r.rest = <<>>, r.at < Len(d.annots),
         NEW r2, r2.phase = r.phase, r2.at = r.at + 1, r2.slot = r.slot, r2.dp = r.dp,
         r2.rest = NotesIn(d, p.id, d.annots[r.at + 1]), r2.elems = r.elems
  PROVE  InParse(p, d, r2)
<1> DEFINE a == d.annots[r.at + 1]
<1>1. Len(d.annots) \in Nat /\ r.at \in Nat /\ r.at + 1 \in 0 .. Len(d.annots)
  BY DEF IsDocument, InParse, RunOK
<1>2. r2.rest \in Seq(Annot) /\ ShownIn(r2.rest) = NoteFile(d, p.id, r.at + 1)
  <2>1. CASE a.page = p.id /\ FoundIn(d, a.loc)
    <3>1. d.files[a.loc] \in File
      BY <2>1 DEF FoundIn, IsDocument
    <3> QED BY <2>1, <3>1, FileFacts DEF NoteFile, NotesIn
  <2>2. CASE ~(a.page = p.id /\ FoundIn(d, a.loc))
    BY <2>2, ShownNone DEF NoteFile, NotesIn
  <2> QED BY <2>1, <2>2
<1>3. RunOK(p, d, r2)
  BY <1>1, <1>2 DEF InParse, RunOK
<1>4. PageOK(p, d) /\ HoldersMade(p, d, r2) /\ SlotsDue(p, d, r2)
  BY NotesOnly DEF SameHolders
<1>5. NotesDue(p, d, r2)
  <2>1. PICK st \in Seq(Annot) :
          /\ NotesAre(p, st, r.elems)
          /\ st = <<>> => r.elems = <<>>
          /\ st \o ShownIn(r.rest) = NotesDone(d, p.id, r.at)
    BY DEF InParse, NotesDue
  <2>2. st = NotesDone(d, p.id, r.at)
    BY <2>1, ShownNone, ConcatEmptySeq
  <2>3. NotesDone(d, p.id, r.at + 1) = st \o ShownIn(r2.rest)
    BY <1>1, <1>2, <2>2, NotesNext
  <2> QED BY <2>1, <2>3 DEF NotesDue
<1> QED BY <1>3, <1>4, <1>5 DEF InParse

LEMMA NotePassed ==
  ASSUME NEW d, IsDocument(d), NEW p, NEW r, InParse(p, d, r), r.phase = "annots",
         r.elems = <<>>, r.rest # <<>>, ~Head(r.rest).shown,
         NEW r2, r2.phase = r.phase, r2.at = r.at, r2.slot = r.slot, r2.dp = r.dp,
         r2.rest = Tail(r.rest), r2.elems = r.elems
  PROVE  InParse(p, d, r2)
<1>1. r.rest \in Seq(Annot) /\ Tail(r.rest) \in Seq(Annot)
  BY DEF InParse, RunOK
<1>2. RunOK(p, d, r2)
  BY <1>1 DEF InParse, RunOK
<1>3. PageOK(p, d) /\ HoldersMade(p, d, r2) /\ SlotsDue(p, d, r2)
  BY NotesOnly DEF SameHolders
<1>4. ShownIn(r.rest) = ShownIn(Tail(r.rest))
  <2>1. ShownIn(r.rest) = <<>> \o ShownIn(Tail(r.rest))
    BY <1>1, ShownCons
  <2> QED BY <1>1, <2>1, ShownType, ConcatEmptySeq
<1>5. NotesDue(p, d, r2)
  BY <1>4 DEF InParse, NotesDue
<1> QED BY <1>2, <1>3, <1>5 DEF InParse

LEMMA NoteTurn ==
  ASSUME NEW d, IsDocument(d), NEW p, NEW r, InParse(p, d, r), r.phase = "annots",
         r.elems = <<>>, r.rest # <<>>, NEW a, Head(r.rest) = a, a.shown,
         NEW x \in HolderRec, x.objs = <<>>, ~a.outer => x.off = p.holders["page"].off,
         NEW q, SameHolders(q, p), q.annots = Append(p.annots, x),
         NEW r2, r2.phase = r.phase, r2.at = r.at, r2.slot = r.slot, r2.dp \in Garbage,
         r2.rest = Tail(r.rest), r2.elems = a.elems
  PROVE  InParse(q, d, r2)
<1>1. r.rest \in Seq(Annot) /\ Tail(r.rest) \in Seq(Annot) /\ a \in Annot
  BY DEF InParse, RunOK
<1>2. a.elems \in Seq(Element)
  BY <1>1, AnnotFacts
<1>3. RunOK(q, d, r2)
  BY <1>1, <1>2 DEF InParse, RunOK, SameHolders
<1>4. PageOK(q, d) /\ HoldersMade(q, d, r2) /\ SlotsDue(q, d, r2)
  BY NotesOnly
<1>5. NotesDue(q, d, r2)
  <2>1. PICK st \in Seq(Annot) :
          /\ NotesAre(p, st, r.elems)
          /\ st = <<>> => r.elems = <<>>
          /\ st \o ShownIn(r.rest) = NotesDone(d, p.id, r.at)
    BY DEF InParse, NotesDue
  <2> DEFINE su == st \o <<a>>
             z == ShownIn(Tail(r.rest))
  <2>2. su \in Seq(Annot) /\ Len(su) = Len(st) + 1 /\ Len(st) \in Nat
        /\ su # <<>> /\ su[Len(st) + 1] = a /\ \A i \in 1 .. Len(st) : su[i] = st[i]
    BY <1>1
  <2>3. su \o z = NotesDone(d, q.id, r.at)
    <3>1. ShownIn(r.rest) = <<a>> \o z
      BY <1>1, ShownCons
    <3>2. z \in Seq(Annot)
      BY <1>1, ShownType
    <3>a. <<a>> \in Seq(Annot)
      BY <1>1
    <3> DEFINE o == <<a>>
    <3> HIDE DEF z, o
    <3>3. st \in Seq(Annot) /\ o \in Seq(Annot) /\ z \in Seq(Annot)
      BY <3>2, <3>a DEF o
    <3>4. (st \o o) \o z = st \o (o \o z)
      BY ONLY <3>3, Assoc
    <3> QED BY <2>1, <3>1, <3>4 DEF o, SameHolders
  <2> HIDE DEF su, z
  <2>4. NotesAre(q, su, r2.elems)
    <3>1. p.annots \in Seq(HolderRec) /\ Len(p.annots) = Len(st)
      BY <2>1 DEF NotesAre
    <3>2. /\ q.annots \in Seq(HolderRec) /\ Len(q.annots) = Len(su)
          /\ q.annots[Len(st) + 1] = x /\ \A i \in 1 .. Len(st) : q.annots[i] = p.annots[i]
      BY <2>2, <3>1
    <3>3. ASSUME NEW i \in 1 .. Len(su)
          PROVE  NoteDue(q.annots[i], su[i], q.holders["page"].off,
                         IF i = Len(su) THEN r2.elems ELSE <<>>)
      <4>1. CASE i = Len(su)
        <5>1. Names(<<>>) = <<>>
          BY DEF Names
        <5>2. <<>> \o ShownObjects(a.elems) = ShownObjects(a.elems)
          BY <1>2, ObjectsType, ConcatEmptySeq
        <5>3. NoteDue(x, a, p.holders["page"].off, a.elems)
          BY <5>1, <5>2 DEF NoteDue
        <5>4. q.annots[i] = x /\ su[i] = a
          BY <2>2, <3>2, <4>1
        <5> QED BY <4>1, <5>3, <5>4 DEF SameHolders
      <4>2. CASE i # Len(su)
        <5>1. i \in 1 .. Len(st)
          BY <2>2, <4>2
        <5>2. NoteDue(p.annots[i], st[i], p.holders["page"].off, <<>>)
          <6>1. NoteDue(p.annots[i], st[i], p.holders["page"].off,
                        IF i = Len(st) THEN r.elems ELSE <<>>)
            BY <2>1, <5>1 DEF NotesAre
          <6> QED BY <6>1
        <5>3. q.annots[i] = p.annots[i] /\ su[i] = st[i]
          BY <2>2, <3>2, <5>1
        <5> QED BY <4>2, <5>2, <5>3 DEF SameHolders
      <4> QED BY <4>1, <4>2
    <3> QED BY <3>2, <3>3 DEF NotesAre
  <2> QED BY <2>2, <2>3, <2>4 DEF NotesDue, z
<1> QED BY <1>3, <1>4, <1>5 DEF InParse

LastGets(annots, z) == [annots EXCEPT ![Len(annots)] = WithMore(@, z)]

LEMMA NoteElementTurn ==
  ASSUME NEW d, IsDocument(d), NEW p, NEW r, InParse(p, d, r), r.phase = "annots",
         r.elems # <<>>, NEW g \in Garbage, NEW q, SameHolders(q, p),
         q.annots = LastGets(p.annots, Parsed(Head(r.elems), p.annots[Len(p.annots)],
                                              r.dp, g)),
         NEW r2, r2.phase = r.phase, r2.at = r.at, r2.slot = r.slot, r2.dp = r.dp,
         r2.rest = r.rest, r2.elems = Tail(r.elems)
  PROVE  InParse(q, d, r2)
<1> DEFINE n == Len(p.annots)
<1>1. r.elems \in Seq(Element) /\ Tail(r.elems) \in Seq(Element) /\ r.dp \in Garbage
      /\ Head(r.elems) \in Element
  BY DEF InParse, RunOK
<1>2. RunOK(q, d, r2)
  BY <1>1 DEF InParse, RunOK, SameHolders
<1>3. PageOK(q, d) /\ HoldersMade(q, d, r2) /\ SlotsDue(q, d, r2)
  BY NotesOnly
<1>4. NotesDue(q, d, r2)
  <2>1. PICK st \in Seq(Annot) :
          /\ NotesAre(p, st, r.elems)
          /\ st = <<>> => r.elems = <<>>
          /\ st \o ShownIn(r.rest) = NotesDone(d, p.id, r.at)
    BY DEF InParse, NotesDue
  <2>2. /\ p.annots \in Seq(HolderRec) /\ Len(p.annots) = Len(st) /\ n = Len(st)
        /\ n \in Nat /\ n # 0 /\ n \in 1 .. n
    BY <2>1 DEF NotesAre
  <2> DEFINE x == p.annots[n]
             y == WithMore(x, Parsed(Head(r.elems), x, r.dp, g))
  <2>3. x \in HolderRec
    BY <2>2
  <2>4. y \in HolderRec
    <3>1. Parsed(Head(r.elems), x, r.dp, g) \in Seq(ParsedObject)
      BY <1>1, <2>3, ParsedType
    <3> HIDE DEF x
    <3> QED BY <2>3, <3>1, WithMoreFacts
  <2>5. NoteDue(y, st[n], p.holders["page"].off, Tail(r.elems))
    <3>1. NoteDue(x, st[n], p.holders["page"].off, r.elems)
      BY <2>1, <2>2 DEF NotesAre
    <3> HIDE DEF x
    <3> QED BY <1>1, <2>3, <3>1, NoteElement
  <2>6. q.annots = [p.annots EXCEPT ![n] = y]
    BY <2>2 DEF LastGets
  <2> HIDE DEF x, y
  <2>7. /\ q.annots \in Seq(HolderRec) /\ Len(q.annots) = Len(st)
        /\ \A i \in 1 .. Len(st) : q.annots[i] = IF i = n THEN y ELSE p.annots[i]
    BY <2>2, <2>4, <2>6
  <2>8. NotesAre(q, st, r2.elems)
    <3>1. ASSUME NEW i \in 1 .. Len(st)
          PROVE  NoteDue(q.annots[i], st[i], q.holders["page"].off,
                         IF i = Len(st) THEN r2.elems ELSE <<>>)
      <4>1. CASE i = n
        BY <2>2, <2>5, <2>7, <4>1 DEF SameHolders
      <4>2. CASE i # n
        <5>1. NoteDue(p.annots[i], st[i], p.holders["page"].off,
                      IF i = Len(st) THEN r.elems ELSE <<>>)
          BY <2>1 DEF NotesAre
        <5> QED BY <2>2, <2>7, <4>2, <5>1 DEF SameHolders
      <4> QED BY <4>1, <4>2
    <3> QED BY <2>7, <3>1 DEF NotesAre
  <2>9. st # <<>>
    BY <2>2
  <2> QED BY <2>1, <2>8, <2>9 DEF NotesDue, SameHolders
<1> QED BY <1>2, <1>3, <1>4 DEF InParse

-----------------------------------------------------------------------------
(* The holders the reader makes.                                           *)
MadeHolder(rot, off, xml) ==
  [made |-> TRUE, rot |-> rot, off |-> off, xml |-> xml, objs |-> <<>>]

LEMMA MadeHolders ==
  /\ NoHolder \in HolderRec /\ NoHolder.objs = <<>> /\ ~NoHolder.made
  /\ \A rot \in BOOLEAN, off \in Int, xml \in Nat :
       LET hd == MadeHolder(rot, off, xml)
       IN  /\ hd \in HolderRec /\ hd.made /\ hd.objs = <<>> /\ hd.xml = xml
           /\ hd.off = off /\ hd.rot = rot
<1>1. <<>> \in Seq(ParsedObject)
  OBVIOUS
<1>2. NoHolder \in HolderRec
  BY <1>1 DEF NoHolder, HolderRec
<1>3. NoHolder.objs = <<>> /\ ~NoHolder.made
  BY DEF NoHolder
<1>4. ASSUME NEW rot \in BOOLEAN, NEW off \in Int, NEW xml \in Nat
      PROVE  MadeHolder(rot, off, xml) \in HolderRec
  BY <1>1 DEF MadeHolder, HolderRec
<1>5. ASSUME NEW rot, NEW off, NEW xml
      PROVE  LET hd == MadeHolder(rot, off, xml)
             IN  /\ hd.made /\ hd.objs = <<>> /\ hd.xml = xml
                 /\ hd.off = off /\ hd.rot = rot
  BY DEF MadeHolder
<1> QED BY <1>2, <1>3, <1>4, <1>5

LEMMA IsMade ==
  ASSUME NEW x, DOMAIN x = HolderFields, x = [f \in DOMAIN x |-> x[f]],
         x.made = TRUE, x.objs = <<>>
  PROVE  x = MadeHolder(x.rot, x.off, x.xml)
  BY DEF MadeHolder, HolderFields

LEMMA PlacedNew ==
  ASSUME NEW rot \in BOOLEAN, NEW off \in Int
  PROVE  [NoHolder EXCEPT !.made = TRUE, !.rot = rot, !.off = off] = MadeHolder(rot, off, 0)
<1> DEFINE x == [NoHolder EXCEPT !.made = TRUE, !.rot = rot, !.off = off]
<1>1. x.made = TRUE /\ x.rot = rot /\ x.off = off /\ x.xml = 0 /\ x.objs = <<>>
  BY DEF NoHolder
<1>2. DOMAIN x = HolderFields /\ x = [f \in DOMAIN x |-> x[f]]
  BY DEF NoHolder, HolderFields
<1> HIDE DEF x
<1>3. x = MadeHolder(rot, off, 0)
  BY <1>1, <1>2, IsMade
<1> QED BY <1>3 DEF x

LEMMA NewHolderRec ==
  ASSUME NEW file \in File, NEW a \in Box
  PROVE  /\ NewHolder(file, a) \in HolderRec /\ NewHolder(file, a).objs = <<>>
         /\ NewHolder(file, a).made
<1> DEFINE off == IF file.rotated THEN 0 - a.far ELSE a.off
<1>1. file.rotated \in BOOLEAN /\ a.off \in Int /\ a.far \in Int
  BY BoxFacts DEF File
<1>2. off \in Int
  BY <1>1
<1>3. NewHolder(file, a)
        = [NoHolder EXCEPT !.made = TRUE, !.rot = file.rotated, !.off = off]
  BY DEF NewHolder
<1> HIDE DEF off
<1>4. [NoHolder EXCEPT !.made = TRUE, !.rot = file.rotated, !.off = off]
        = MadeHolder(file.rotated, off, 0)
  BY <1>1, <1>2, PlacedNew
<1> QED BY <1>1, <1>2, <1>3, <1>4, MadeHolders

LEMMA AreaPlaces ==
  ASSUME NEW file \in File, NEW known \in Box
  PROVE  AreaOf(file, known) \in Box /\ AreaOf(file, known).off \in Placing(file)
<1>1. file.area \in Box \cup {NoArea}
  BY DEF File
<1> QED BY <1>1, BoxFacts DEF AreaOf, Placing

(* The constructor of COFD_Page: nothing is parsed, nothing is due.        *)
LEMMA PageStarts ==
  ASSUME NEW d, IsDocument(d), NEW n \in 1 .. Len(d.pages), NEW loc,
         FirstLoc(d.pages, d.pages[n].id) = loc, FoundIn(d, loc),
         NEW known \in Box, NEW a, AreaOf(d.files[loc], known) = a,
         NEW q, q.index = n, q.loc = loc, q.annots = <<>>,
         \A s \in Slots : q.holders[s] = IF s = "page" THEN NewHolder(d.files[loc], a)
                                         ELSE NoHolder
  PROVE  InParse(q, d, [Idle EXCEPT !.phase = "layers"])
<1> DEFINE file == d.files[loc]
           r == [Idle EXCEPT !.phase = "layers"]
<1>1. file \in File /\ file.rotated \in BOOLEAN /\ file.layers \in Seq(Layer)
  <2>1. file \in File
    BY DEF FoundIn, IsDocument
  <2> QED BY <2>1, FileFacts
<1>2. a \in Box /\ a.off \in Placing(file)
  BY <1>1, AreaPlaces
<1>3. /\ r.phase = "layers" /\ r.layer = 0 /\ r.slot = "page" /\ r.rest = <<>>
      /\ r.elems = <<>> /\ r.dp = 0
  BY DEF Idle
<1> HIDE DEF r
<1>4. "page" \in Slots /\ "page" \in OwnSlots /\ "bg" \in Slots /\ "fg" \in Slots
  BY DEF Slots, OwnSlots
<1>5. \A s \in Slots : /\ q.holders[s] \in HolderRec /\ q.holders[s].objs = <<>>
                       /\ s # "page" => ~q.holders[s].made
  BY <1>1, <1>2, NewHolderRec, MadeHolders
<1>6. q.holders["page"].made /\ q.holders["page"].off \in OwnOffs(file, "page")
  <2>1. q.holders["page"] = NewHolder(file, a) /\ q.holders["page"].off \in Int
    BY <1>4, <1>5 DEF HolderRec
  <2>2. ~file.rotated => q.holders["page"].off = a.off
    BY <1>1, <1>2, <2>1, NewHolderFacts
  <2> QED BY <1>1, <1>2, <2>1, <2>2, NewHolderFacts DEF OwnOffs
<1>7. PageOK(q, d)
  BY <1>5, <1>6 DEF PageOK
<1>8. RunOK(q, d, r)
  <2>1. 0 \in 0 .. Len(file.layers) /\ 0 \in Garbage /\ <<>> \in Seq(Element)
    BY <1>1 DEF Garbage
  <2> QED BY <1>3, <1>4, <2>1 DEF RunOK
<1>9. HoldersMade(q, d, r)
  BY <1>3, <1>4, <1>5, <1>6 DEF HoldersMade
<1>10. SlotsDue(q, d, r)
  <2> SUFFICES ASSUME NEW s \in Slots
               PROVE  Coming(q.holders[s], <<>>, r.dp, <<>>, Due(d, file, s, 0, 0))
    BY <1>3 DEF SlotsDue, LayersAt, UsesAt, ElemsFor, RestFor
  <2>1. <<>> \in Seq(StatedObject) /\ Matches(q.holders[s].objs, <<>>)
        /\ q.holders[s].off \in Int
    BY <1>5 DEF Matches, SameObjects, HolderRec
  <2> QED BY <2>1, NothingDue, NothingLeft
<1>11. NotesDue(q, d, r)
  BY <1>3 DEF NotesDue
<1>12. InParse(q, d, r)
  BY <1>7, <1>8, <1>9, <1>10, <1>11 DEF InParse
<1> QED BY <1>12 DEF r

(* Parse is done: the page holds all that is due.                          *)
LEMMA ParseEnds ==
  ASSUME NEW d, IsDocument(d), NEW p, NEW r, InParse(p, d, r), r.phase = "annots",
         r.elems = <<>>, r.rest = <<>>, r.at = Len(d.annots)
  PROVE  WholePage(p, d)
<1> DEFINE own == d.files[p.loc]
<1>1. PageOK(p, d)
  BY DEF InParse
<1>2. SlotsWhole(p, d)
  <2> SUFFICES ASSUME OneGround(own), NEW t \in Slots
               PROVE  Matches(p.holders[t].objs,
                              Due(d, own, t, Len(own.layers), Len(own.uses)))
    BY DEF SlotsWhole
  <2>1. ElemsFor(r, t) = <<>> /\ RestFor(r, t) = <<>>
    BY DEF ElemsFor, RestFor
  <2> QED BY <2>1, SlotMatches DEF LayersAt, UsesAt
<1>3. NotesAre(p, NotesDone(d, p.id, Len(d.annots)), <<>>)
  <2>1. PICK st \in Seq(Annot) :
          /\ NotesAre(p, st, r.elems)
          /\ st \o ShownIn(r.rest) = NotesDone(d, p.id, r.at)
    BY DEF InParse, NotesDue
  <2>2. st = NotesDone(d, p.id, r.at)
    BY <2>1, ShownNone, ConcatEmptySeq
  <2> QED BY <2>1, <2>2
<1> QED BY <1>1, <1>2, <1>3 DEF WholePage

LEMMA NewGroundRec ==
  ASSUME NEW i \in Nat, docArea \in Box, cur.area \in Area
  PROVE  /\ NewGround(i) \in HolderRec /\ NewGround(i).made /\ NewGround(i).xml = i
         /\ NewGround(i).objs = <<>>
<1> DEFINE x == NewGround(i)
<1>a. docArea.off \in Int
  BY BoxFacts
<1>b. cur.area.off \in Int
  BY DEF Area
<1>1. docArea.off + cur.area.off \in Int
  BY <1>a, <1>b
<1>2. /\ x.made = TRUE /\ x.rot = FALSE /\ x.off = docArea.off + cur.area.off
      /\ x.xml = i /\ x.objs = <<>>
  BY DEF NewGround, NoHolder
<1>3. DOMAIN x = HolderFields /\ x = [f \in DOMAIN x |-> x[f]]
  BY DEF NewGround, NoHolder, HolderFields
<1> HIDE DEF x
<1>4. x = MadeHolder(FALSE, docArea.off + cur.area.off, i)
  BY <1>2, <1>3, IsMade
<1>5. x \in HolderRec
  BY <1>1, <1>4, MadeHolders
<1> QED BY <1>2, <1>5 DEF x

LEMMA NewAnnotRec ==
  ASSUME NEW a \in Annot, cur.holders["page"] \in HolderRec
  PROVE  /\ NewAnnot(a) \in HolderRec /\ NewAnnot(a).objs = <<>>
         /\ ~a.outer => NewAnnot(a).off = cur.holders["page"].off
<1> DEFINE hd == cur.holders["page"]
           left == (IF hd.rot THEN a.far ELSE a.box) + hd.off
           off == IF a.outer THEN hd.off + left ELSE hd.off
<1>1. hd.rot \in BOOLEAN /\ hd.off \in Int /\ a.far \in Int /\ a.box \in Int
  BY AnnotFacts DEF HolderRec
<1>2. off \in Int
  BY <1>1
<1>3. NewAnnot(a) = [NoHolder EXCEPT !.made = TRUE, !.rot = hd.rot, !.off = off]
  BY DEF NewAnnot
<1>4. ~a.outer => off = hd.off
  OBVIOUS
<1> HIDE DEF off, hd
<1>5. NewAnnot(a) = MadeHolder(hd.rot, off, 0)
  BY <1>1, <1>2, <1>3, PlacedNew
<1> QED BY <1>1, <1>2, <1>4, <1>5, MadeHolders DEF hd

LEMMA PlacedRec ==
  ASSUME NEW hd \in HolderRec, NEW a \in Box
  PROVE  /\ Placed(hd, a) \in HolderRec /\ Placed(hd, a).off = a.off
         /\ Placed(hd, a).made = hd.made /\ Placed(hd, a).objs = hd.objs
<1>1. a.off \in Int
  BY BoxFacts
<1> QED BY <1>1 DEF Placed, HolderRec

-----------------------------------------------------------------------------
(* The parts of ReaderInv that the steps need.                             *)
LEMMA OpenDocument ==
  ASSUME ReaderInv, open = "document"
  PROVE  IsDocument(doc) /\ docArea \in Box
  BY ReaderAssumption DEF ReaderInv, LifeInv, SharedAreaInv

LEMMA AtWork ==
  ASSUME ReaderInv, WholeInv, run.phase # "idle"
  PROVE  /\ open = "document" /\ IsDocument(doc) /\ InParse(cur, doc, run)
         /\ IsPage(cur) /\ DOMAIN run = RunFields /\ docArea \in Box /\ cur.area \in Area
         /\ \A s \in Slots : DOMAIN cur.holders[s] = HolderFields
<1>1. open = "document" /\ Good(cur, doc, foreign)
  BY Parsing
<1>2. IsDocument(doc) /\ docArea \in Box
  BY <1>1, OpenDocument
<1>3. IsPage(cur) /\ cur.area \in Area
      /\ \A s \in Slots : DOMAIN cur.holders[s] = HolderFields
  BY <1>1 DEF Good, Shaped, IsPage, IsHolder
<1>4. InParse(cur, doc, run) /\ DOMAIN run = RunFields
  BY DEF WholeInv, ReaderInv, LifeInv
<1> QED BY <1>1, <1>2, <1>3, <1>4

LEMMA ReplacedIs ==
  ASSUME NEW p, IsPage(p), NEW s \in Slots, NEW hd
  PROVE  Replaced([p EXCEPT !.holders[s] = hd], p, s, hd)
  BY DEF IsPage, PageFields, Replaced, SamePage

LEMMA AnnotsIs ==
  ASSUME NEW p, IsPage(p), NEW x
  PROVE  /\ SameHolders([p EXCEPT !.annots = x], p)
         /\ [p EXCEPT !.annots = x].annots = x
  BY DEF IsPage, PageFields, SameHolders

-----------------------------------------------------------------------------
(* The steps of Parse.                                                     *)
LEMMA StillWhole ==
  ASSUME WholeInv, InParse(cur', doc, run'),
         run'.phase \in {"idle", "layers", "templates", "annots"}, job > 0 => cur'.index = job,
         UNCHANGED <<session, pages, job, pdf>>
  PROVE  WholeInv'
<1>1. pkg' = pkg /\ open' = open /\ doc' = doc
  BY DEF session
<1>2. PdfInv'
  BY <1>1 DEF WholeInv, PdfInv
<1> QED BY <1>1, <1>2 DEF WholeInv

LEMMA OnWithParse ==
  ASSUME WholeInv, run.phase # "idle", InParse(cur', doc, run'), cur'.index = cur.index,
         run'.phase \in {"layers", "templates", "annots"},
         UNCHANGED <<session, pages, job, pdf>>
  PROVE  WholeInv'
  BY StillWhole DEF WholeInv

LEMMA WholeElement ==
  ASSUME ReaderInv, WholeInv, ParseElement
  PROVE  WholeInv'
<1>1. run.phase # "idle"
  BY IdleFacts DEF ParseElement, ReaderInv, LifeInv
<1>2. /\ open = "document" /\ IsDocument(doc) /\ InParse(cur, doc, run)
      /\ IsPage(cur) /\ DOMAIN run = RunFields
      /\ \A s \in Slots : DOMAIN cur.holders[s] = HolderFields
  BY <1>1, AtWork
<1>3. /\ run.elems # <<>> /\ run' = [run EXCEPT !.elems = Tail(@)]
      /\ UNCHANGED <<session, pages, job, pdf>>
  BY DEF ParseElement
<1>4. /\ run'.phase = run.phase /\ run'.at = run.at /\ run'.layer = run.layer
      /\ run'.slot = run.slot /\ run'.rest = run.rest /\ run'.dp = run.dp
      /\ run'.elems = Tail(run.elems)
  BY <1>2, <1>3 DEF RunFields
<1>5. CASE run.slot = "annot"
  <2>1. PICK g \in Garbage :
          cur' = [cur EXCEPT !.annots[Len(cur.annots)].objs = @ \o
                    Parsed(Head(run.elems), cur.annots[Len(cur.annots)], run.dp, g)]
    BY <1>5 DEF ParseElement
  <2> DEFINE n == Len(cur.annots)
             z == Parsed(Head(run.elems), cur.annots[n], run.dp, g)
             x == [cur.annots EXCEPT ![n] = WithMore(@, z)]
  <2>2. cur' = [cur EXCEPT !.annots = x]
    BY <2>1 DEF WithMore
  <2>3. SameHolders(cur', cur) /\ cur'.annots = x
    <3> HIDE DEF x
    <3> QED BY <1>2, <2>2, AnnotsIs
  <2>4. run.phase = "annots"
    BY <1>1, <1>2, <1>5 DEF WholeInv, InParse, RunOK, OwnSlots, Slots
  <2>5. InParse(cur', doc, run')
    <3>1. cur'.annots = LastGets(cur.annots, z)
      BY <2>3 DEF LastGets
    <3> HIDE DEF x
    <3> QED BY <1>2, <1>3, <1>4, <2>3, <2>4, <3>1, NoteElementTurn
  <2> QED BY <1>1, <1>3, <1>4, <2>3, <2>4, <2>5, OnWithParse DEF SameHolders
<1>6. CASE run.slot # "annot"
  <2>1. PICK g \in Garbage :
          cur' = [cur EXCEPT !.holders[run.slot].objs = @ \o
                    Parsed(Head(run.elems), cur.holders[run.slot], run.dp, g)]
    BY <1>6 DEF ParseElement
  <2> DEFINE z == Parsed(Head(run.elems), cur.holders[run.slot], run.dp, g)
             hd == WithMore(cur.holders[run.slot], z)
  <2>2. cur' = [cur EXCEPT !.holders[run.slot] = hd]
    BY <2>1 DEF WithMore
  <2>3. run.slot \in Slots /\ run.phase \in {"layers", "templates"}
    BY <1>1, <1>2, <1>6 DEF WholeInv, InParse, RunOK, OwnSlots, Slots
  <2>4. Replaced(cur', cur, run.slot, hd)
    <3> HIDE DEF hd
    <3> QED BY <1>2, <2>2, <2>3, ReplacedIs
  <2>5. InParse(cur', doc, run')
    BY <1>2, <1>3, <1>4, <2>3, <2>4, ElementInto
  <2> QED BY <1>1, <1>3, <1>4, <2>3, <2>4, <2>5, OnWithParse DEF Replaced, SamePage
<1> QED BY <1>5, <1>6

LEMMA WholeLayer ==
  ASSUME ReaderInv, WholeInv, NextLayer
  PROVE  WholeInv'
<1>1. run.phase = "layers" /\ run.elems = <<>>
  BY DEF NextLayer, AtEnd
<1>2. /\ open = "document" /\ IsDocument(doc) /\ InParse(cur, doc, run)
      /\ IsPage(cur) /\ DOMAIN run = RunFields /\ docArea \in Box /\ cur.area \in Area
  BY <1>1, AtWork
<1> DEFINE i == run.layer + 1
           l == PageFile.layers[i]
           s == GroundSlot(l.type)
           hd == IF cur.holders[s].made THEN cur.holders[s] ELSE NewGround(i)
<1>3. /\ run.layer < Len(PageFile.layers)
      /\ cur' = [cur EXCEPT !.holders[s] = hd]
      /\ run' = [run EXCEPT !.layer = i, !.slot = s, !.dp = l.dp,
                   !.elems = IF s = "page" THEN l.elems ELSE PageFile.layers[hd.xml].elems]
      /\ UNCHANGED <<session, pages, job, pdf>>
  BY DEF NextLayer, LayerParam
<1>4. s \in Slots
  BY DEF GroundSlot, Slots
<1>5. i \in Nat
  BY <1>1, <1>2, FileOfPage, FileFacts DEF InParse, RunOK
<1>6. /\ NewGround(i) \in HolderRec /\ NewGround(i).made /\ NewGround(i).xml = i
      /\ NewGround(i).objs = <<>>
  BY <1>2, <1>5, NewGroundRec
<1>7. Replaced(cur', cur, s, hd)
  <2> HIDE DEF hd, s
  <2> QED BY <1>2, <1>3, <1>4, ReplacedIs
<1>8. /\ run'.phase = run.phase /\ run'.layer = i /\ run'.slot = s /\ run'.dp = l.dp
      /\ run'.rest = run.rest
      /\ run'.elems = IF s = "page" THEN l.elems ELSE PageFile.layers[hd.xml].elems
  <2> HIDE DEF hd, s, l, i
  <2> QED BY <1>2, <1>3 DEF RunFields
<1>9. InParse(cur', doc, run')
  <2> DEFINE new == NewGround(i)
  <2>1. LayerTaken(cur', run', cur, doc, run, new)
    BY <1>7, <1>8 DEF LayerTaken, PageFile
  <2>2. run.layer < Len(doc.files[cur.loc].layers)
    BY <1>3 DEF PageFile
  <2>3. new \in HolderRec /\ new.made /\ new.xml = run.layer + 1 /\ new.objs = <<>>
    BY <1>6
  <2> HIDE DEF new
  <2> QED BY <1>1, <1>2, <2>1, <2>2, <2>3, LayerTurn
<1> QED BY <1>1, <1>3, <1>7, <1>8, <1>9, OnWithParse DEF Replaced, SamePage

LEMMA WholeTemplate ==
  ASSUME ReaderInv, WholeInv, NextTemplate
  PROVE  WholeInv'
<1>1. run.phase = "templates" /\ run.elems = <<>> /\ run.rest = <<>>
  BY DEF NextTemplate, AtEnd
<1>2. /\ open = "document" /\ IsDocument(doc) /\ InParse(cur, doc, run)
      /\ IsPage(cur) /\ DOMAIN run = RunFields /\ docArea \in Box
  BY <1>1, AtWork
<1> DEFINE u == PageFile.uses[run.at + 1]
           s == TemplateSlot(u.z)
           loc == TemplateLoc(u)
           file == doc.files[loc]
           a == AreaOf(file, docArea)
           old == IF cur.holders[s].made THEN cur.holders[s] ELSE NewHolder(file, a)
           hd == Placed(old, a)
<1>3. run.at < Len(PageFile.uses) /\ UNCHANGED <<session, pages, job, pdf>>
  BY DEF NextTemplate
<1>4. /\ run.at < Len(doc.files[cur.loc].uses)
      /\ doc.files[cur.loc].uses[run.at + 1] = u /\ TemplateSlot(u.z) = s
      /\ TemplateIn(doc, u) = loc /\ doc.files[loc] = file
      /\ Found(loc) <=> FoundIn(doc, loc)
  BY <1>3 DEF PageFile, TemplateIn, TemplateLoc, Found, FoundIn
<1>5. CASE ~Found(loc)
  <2>1. cur' = cur /\ run' = [run EXCEPT !.at = @ + 1]
    BY <1>5 DEF NextTemplate
  <2>2. /\ run'.phase = run.phase /\ run'.at = run.at + 1 /\ run'.slot = run.slot
        /\ run'.dp = run.dp /\ run'.rest = run.rest /\ run'.elems = run.elems
    BY <1>2, <2>1 DEF RunFields
  <2> HIDE DEF u, s, loc, file
  <2>3. InParse(cur, doc, run')
    BY <1>1, <1>2, <1>4, <1>5, <2>2, TemplatePassed
  <2> QED BY <1>1, <1>3, <2>1, <2>2, <2>3, OnWithParse
<1>6. CASE Found(loc)
  <2>1. /\ cur' = [cur EXCEPT !.holders[s] = hd]
        /\ run' = [run EXCEPT !.at = @ + 1, !.slot = s, !.rest = file.layers]
    BY <1>6 DEF NextTemplate
  <2>2. s \in Slots
    BY DEF TemplateSlot, Slots
  <2> HIDE DEF u, s, loc, file
  <2>3. file \in File
    BY <1>2, <1>4, <1>6 DEF Found, IsDocument
  <2>4. a \in Box /\ a.off \in Placing(file)
    BY <1>2, <2>3, AreaPlaces
  <2> HIDE DEF a
  <2>5. old \in HolderRec /\ old.made /\ old.objs = cur.holders[s].objs
    <3>1. NewHolder(file, a) \in HolderRec /\ NewHolder(file, a).objs = <<>>
          /\ NewHolder(file, a).made
      BY <2>3, <2>4, NewHolderRec
    <3>2. cur.holders[s] \in HolderRec
          /\ (~cur.holders[s].made => cur.holders[s].objs = <<>>)
      BY <1>2, <2>2 DEF InParse, PageOK
    <3> QED BY <3>1, <3>2
  <2> HIDE DEF old
  <2>6. /\ hd \in HolderRec /\ hd.made /\ hd.objs = cur.holders[s].objs
        /\ hd.off \in Placing(file)
    BY <2>4, <2>5, PlacedRec
  <2> HIDE DEF hd
  <2>7. Replaced(cur', cur, s, hd)
    BY <1>2, <2>1, <2>2, ReplacedIs
  <2>8. /\ run'.phase = run.phase /\ run'.at = run.at + 1 /\ run'.slot = s
        /\ run'.dp = run.dp /\ run'.rest = file.layers /\ run'.elems = run.elems
    BY <1>2, <2>1 DEF RunFields
  <2>9. InParse(cur', doc, run')
    <3>1. FoundIn(doc, TemplateIn(doc, u)) /\ doc.files[TemplateIn(doc, u)] = file
      BY <1>4, <1>6
    <3> QED BY <1>1, <1>2, <1>4, <2>6, <2>7, <2>8, <3>1, TemplateTurn
  <2> QED BY <1>1, <1>3, <2>7, <2>8, <2>9, OnWithParse DEF Replaced, SamePage
<1> QED BY <1>5, <1>6

(* The steps of Parse that leave the page as it is.                        *)
LEMMA WholeMove ==
  ASSUME ReaderInv, WholeInv,
         EndOfLayers \/ NextTemplateLayer \/ EndOfTemplates \/ NextAnnotFile
  PROVE  WholeInv'
<1>1. /\ run.phase # "idle" /\ cur' = cur /\ run.elems = <<>>
      /\ UNCHANGED <<session, pages, job, pdf>>
  BY DEF EndOfLayers, NextTemplateLayer, EndOfTemplates, NextAnnotFile, AtEnd
<1>2. IsDocument(doc) /\ InParse(cur, doc, run) /\ DOMAIN run = RunFields
  BY <1>1, AtWork
<1>3. InParse(cur, doc, run') /\ run'.phase \in {"layers", "templates", "annots"}
  <2>1. CASE EndOfLayers
    <3>1. /\ run.phase = "layers" /\ run.layer = Len(doc.files[cur.loc].layers)
          /\ run' = [Idle EXCEPT !.phase = "templates"]
      BY <2>1 DEF EndOfLayers, AtEnd, PageFile
    <3> QED BY <1>1, <1>2, <3>1, LayersEnd, IdleFacts
  <2>2. CASE NextTemplateLayer
    <3>1. /\ run.phase = "templates" /\ run.rest # <<>>
          /\ run' = [run EXCEPT !.rest = Tail(@), !.dp = Head(run.rest).dp,
                                !.elems = Head(run.rest).elems]
      BY <2>2 DEF NextTemplateLayer, AtEnd, LayerParam
    <3>2. /\ run'.phase = run.phase /\ run'.at = run.at /\ run'.slot = run.slot
          /\ run'.rest = Tail(run.rest) /\ run'.dp = Head(run.rest).dp
          /\ run'.elems = Head(run.rest).elems
      BY <1>2, <3>1 DEF RunFields
    <3> QED BY <1>1, <1>2, <3>1, <3>2, TemplateLayerTurn
  <2>3. CASE EndOfTemplates
    <3>1. /\ run.phase = "templates" /\ run.rest = <<>>
          /\ run.at = Len(doc.files[cur.loc].uses)
          /\ run' = [Idle EXCEPT !.phase = "annots", !.slot = "annot"]
      BY <2>3 DEF EndOfTemplates, AtEnd, PageFile
    <3>2. run'.phase = "annots"
      BY <3>1 DEF Idle
    <3> QED BY <1>1, <1>2, <3>1, <3>2, TemplatesEnd
  <2>4. CASE NextAnnotFile
    <3> DEFINE x == NotesIn(doc, cur.id, doc.annots[run.at + 1])
    <3>1. /\ run.phase = "annots" /\ run.rest = <<>> /\ run.at < Len(doc.annots)
          /\ run' = [run EXCEPT !.at = @ + 1, !.rest = x]
      BY <2>4 DEF NextAnnotFile, AtEnd, ForThisPage, Found, FoundIn, NotesIn
    <3>2. /\ run'.phase = run.phase /\ run'.at = run.at + 1 /\ run'.slot = run.slot
          /\ run'.dp = run.dp /\ run'.rest = x /\ run'.elems = run.elems
      <4> HIDE DEF x
      <4> QED BY <1>2, <3>1 DEF RunFields
    <3> QED BY <1>1, <1>2, <3>1, <3>2, NoteFileTurn
  <2> QED BY <2>1, <2>2, <2>3, <2>4
<1> QED BY <1>1, <1>3, OnWithParse

LEMMA WholeAnnot ==
  ASSUME ReaderInv, WholeInv, NextAnnot
  PROVE  WholeInv'
<1>1. /\ run.phase = "annots" /\ run.elems = <<>> /\ run.rest # <<>>
      /\ UNCHANGED <<session, pages, job, pdf>>
  BY DEF NextAnnot, AtEnd
<1>2. /\ IsDocument(doc) /\ InParse(cur, doc, run) /\ DOMAIN run = RunFields
      /\ IsPage(cur)
  BY <1>1, AtWork
<1> DEFINE a == Head(run.rest)
<1>3. a \in Annot /\ cur.holders["page"] \in HolderRec
  <2>1. run.rest \in Seq(Annot)
    BY <1>1, <1>2 DEF InParse, RunOK
  <2>2. "page" \in Slots
    BY DEF Slots
  <2> QED BY <1>1, <1>2, <2>1, <2>2 DEF InParse, PageOK
<1>4. CASE a.shown
  <2> DEFINE new == NewAnnot(a)
             x == Append(cur.annots, new)
  <2>1. PICK g \in Garbage :
          /\ cur' = [cur EXCEPT !.annots = x]
          /\ run' = [run EXCEPT !.rest = Tail(@), !.dp = g, !.elems = a.elems]
    BY <1>4 DEF NextAnnot
  <2>2. /\ run'.phase = run.phase /\ run'.at = run.at /\ run'.slot = run.slot
        /\ run'.dp \in Garbage /\ run'.rest = Tail(run.rest) /\ run'.elems = a.elems
    <3> HIDE DEF a
    <3> QED BY <1>2, <2>1 DEF RunFields
  <2>3. /\ new \in HolderRec /\ new.objs = <<>>
        /\ ~a.outer => new.off = cur.holders["page"].off
    BY <1>3, NewAnnotRec
  <2>4. SameHolders(cur', cur) /\ cur'.annots = x
    <3> HIDE DEF x
    <3> QED BY <1>2, <2>1, AnnotsIs
  <2>5. InParse(cur', doc, run')
    <3>1. Head(run.rest) = a
      OBVIOUS
    <3> HIDE DEF new, a
    <3> QED BY <1>1, <1>2, <1>4, <2>2, <2>3, <2>4, <3>1, NoteTurn
  <2> QED BY <1>1, <2>2, <2>4, <2>5, OnWithParse DEF SameHolders
<1>5. CASE ~a.shown
  <2>1. cur' = cur /\ run' = [run EXCEPT !.rest = Tail(@)]
    BY <1>5 DEF NextAnnot
  <2>2. /\ run'.phase = run.phase /\ run'.at = run.at /\ run'.slot = run.slot
        /\ run'.dp = run.dp /\ run'.rest = Tail(run.rest) /\ run'.elems = run.elems
    BY <1>2, <2>1 DEF RunFields
  <2>3. InParse(cur, doc, run')
    BY <1>1, <1>2, <1>5, <2>2, NotePassed
  <2> QED BY <1>1, <2>1, <2>2, <2>3, OnWithParse
<1> QED BY <1>4, <1>5

-----------------------------------------------------------------------------
(* The objects of the holders, one holder after the other.                 *)
Prefix(s, k) == [i \in 1 .. k |-> s[i]]

LEMMA PrefixFacts ==
  ASSUME NEW S, NEW s \in Seq(S)
  PROVE  /\ \A k \in 0 .. Len(s) : /\ Prefix(s, k) \in Seq(S) /\ Len(Prefix(s, k)) = k
                                   /\ \A i \in 1 .. k : Prefix(s, k)[i] = s[i]
         /\ Prefix(s, Len(s)) = s /\ Prefix(s, 0) = <<>> /\ Len(s) \in Nat
<1>1. Len(s) \in Nat
  OBVIOUS
<1>2. ASSUME NEW k \in 0 .. Len(s)
      PROVE  /\ Prefix(s, k) \in Seq(S) /\ Len(Prefix(s, k)) = k
             /\ \A i \in 1 .. k : Prefix(s, k)[i] = s[i]
  <2>1. k \in Nat /\ \A i \in 1 .. k : s[i] \in S
    BY <1>1
  <2> QED BY <2>1 DEF Prefix
<1>3. Prefix(s, Len(s)) = s
  BY DEF Prefix
<1>4. Prefix(s, 0) = <<>>
  BY DEF Prefix
<1> QED BY <1>1, <1>2, <1>3, <1>4

LEMMA FlattenSame ==
  ASSUME NEW a \in Seq(Seq(ParsedObject)), NEW b \in Seq(Seq(StatedObject)),
         Len(a) = Len(b), \A i \in 1 .. Len(a) : SameObjects(a[i], b[i])
  PROVE  SameObjects(FlattenSeq(a), FlattenSeq(b))
<1> DEFINE Same(k) == SameObjects(FlattenSeq(Prefix(a, k)), FlattenSeq(Prefix(b, k)))
           T == {k \in Nat : k \in 0 .. Len(a) /\ ~Same(k)}
<1>1. Len(a) \in Nat
  OBVIOUS
<1>2. ASSUME NEW k \in 0 .. Len(a)
      PROVE  /\ Prefix(a, k) \in Seq(Seq(ParsedObject)) /\ Len(Prefix(a, k)) = k
             /\ \A i \in 1 .. k : Prefix(a, k)[i] = a[i]
             /\ Prefix(b, k) \in Seq(Seq(StatedObject)) /\ Len(Prefix(b, k)) = k
             /\ \A i \in 1 .. k : Prefix(b, k)[i] = b[i]
  BY PrefixFacts
<1>3. Same(0)
  BY PrefixFacts, FlattenVoid DEF SameObjects
<1>4. ASSUME NEW w \in Nat, w < Len(a), Same(w)
      PROVE  Same(w + 1)
  <2>1. w \in 0 .. Len(a) /\ w + 1 \in 0 .. Len(a) /\ w + 1 \in 1 .. Len(a)
    BY <1>1, <1>4
  <2> DEFINE x == Prefix(a, w)
             y == Prefix(b, w)
  <2>2. FlattenSeq(Prefix(a, w + 1)) = FlattenSeq(x) \o a[w + 1]
    <3> DEFINE z == Prefix(a, w + 1)
    <3>a. /\ x \in Seq(Seq(ParsedObject)) /\ Len(x) = w
          /\ \A i \in 1 .. w : x[i] = a[i]
      BY <1>2, <2>1
    <3>b. /\ z \in Seq(Seq(ParsedObject)) /\ Len(z) = w + 1
          /\ \A i \in 1 .. w + 1 : z[i] = a[i]
      BY <1>2, <2>1
    <3> HIDE DEF x, z
    <3>c. w + 1 \in 1 .. w + 1 /\ \A i \in 1 .. w : i \in 1 .. w + 1
      OBVIOUS
    <3>d. z[Len(z)] = a[w + 1]
      BY <3>b, <3>c
    <3>1. Len(z) = Len(x) + 1 /\ \A i \in 1 .. Len(x) : z[i] = x[i]
      BY <3>a, <3>b, <3>c
    <3>2. FlattenSeq(z) = FlattenSeq(x) \o z[Len(z)]
      BY <3>a, <3>b, <3>1, FlattenSnoc
    <3> QED BY <3>d, <3>2 DEF z
  <2>3. FlattenSeq(Prefix(b, w + 1)) = FlattenSeq(y) \o b[w + 1]
    <3> DEFINE z == Prefix(b, w + 1)
    <3>a. /\ y \in Seq(Seq(StatedObject)) /\ Len(y) = w
          /\ \A i \in 1 .. w : y[i] = b[i]
      BY <1>2, <2>1
    <3>b. /\ z \in Seq(Seq(StatedObject)) /\ Len(z) = w + 1
          /\ \A i \in 1 .. w + 1 : z[i] = b[i]
      BY <1>2, <2>1
    <3> HIDE DEF y, z
    <3>c. w + 1 \in 1 .. w + 1 /\ \A i \in 1 .. w : i \in 1 .. w + 1
      OBVIOUS
    <3>d. z[Len(z)] = b[w + 1]
      BY <3>b, <3>c
    <3>1. Len(z) = Len(y) + 1 /\ \A i \in 1 .. Len(y) : z[i] = y[i]
      BY <3>a, <3>b, <3>c
    <3>2. FlattenSeq(z) = FlattenSeq(y) \o z[Len(z)]
      BY <3>a, <3>b, <3>1, FlattenSnoc
    <3> QED BY <3>d, <3>2 DEF z
  <2>4. a[w + 1] \in Seq(ParsedObject) /\ b[w + 1] \in Seq(StatedObject)
        /\ SameObjects(a[w + 1], b[w + 1])
    BY <2>1
  <2>5. FlattenSeq(x) \in Seq(ParsedObject) /\ FlattenSeq(y) \in Seq(StatedObject)
    BY <1>2, <2>1, FlattenType
  <2> QED BY <1>4, <2>2, <2>3, <2>4, <2>5, SameConcat
<1>5. T = {}
  <2> SUFFICES ASSUME T # {} PROVE FALSE
    OBVIOUS
  <2> HIDE DEF Same
  <2>1. PICK x \in T : \A y \in T : x <= y
    BY LeastNat
  <2>2. x \in Nat /\ x <= Len(a) /\ ~Same(x) /\ x # 0
    BY <1>3, <2>1
  <2> DEFINE w == x - 1
  <2>3. w \in Nat /\ w < Len(a) /\ w + 1 = x
    BY <1>1, <2>2
  <2>4. Same(w)
    BY <1>1, <2>1, <2>3
  <2> QED BY <1>4, <2>2, <2>3, <2>4
<1>6. Same(Len(a))
  <2> HIDE DEF Same
  <2> QED BY <1>1, <1>5
<1>7. Prefix(a, Len(a)) = a /\ Prefix(b, Len(a)) = b
  BY PrefixFacts
<1> QED BY <1>6, <1>7

(* What ofd2pdf moves to the PDF page is what the screen shows.            *)
DueSeq(d, file) ==
  [k \in 1 .. Len(ScreenOrder) |->
     Due(d, file, ScreenOrder[k], Len(file.layers), Len(file.uses))]
MovedSeq(p) == [i \in 1 .. Len(Order) |-> p.holders[Order[i]].objs]

LEMMA MovedType ==
  ASSUME NEW d, NEW p, PageOK(p, d)
  PROVE  /\ MovedSeq(p) \in Seq(Seq(ParsedObject)) /\ Len(MovedSeq(p)) = Len(Order)
         /\ Moved(p) = FlattenSeq(MovedSeq(p)) /\ Moved(p) \in Seq(ParsedObject)
<1>1. Len(Order) \in Nat /\ \A i \in 1 .. Len(Order) : Order[i] \in Slots
  BY DEF Order, Slots
<1>2. \A i \in 1 .. Len(Order) : p.holders[Order[i]].objs \in Seq(ParsedObject)
  BY <1>1, HolderFacts
<1>3. MovedSeq(p) \in Seq(Seq(ParsedObject)) /\ Len(MovedSeq(p)) = Len(Order)
  BY <1>1, <1>2 DEF MovedSeq
<1> QED BY <1>3, FlattenType DEF Moved, MovedSeq

LEMMA MovedSame ==
  ASSUME NEW d, IsDocument(d), NEW p, WholePage(p, d), OneGround(d.files[p.loc])
  PROVE  SameObjects(Moved(p), FlattenSeq(DueSeq(d, d.files[p.loc])))
<1> DEFINE own == d.files[p.loc]
<1>1. PageOK(p, d) /\ SlotsWhole(p, d) /\ own \in File
  BY FileOfPage DEF WholePage
<1>2. /\ Len(Order) \in Nat /\ Len(Order) = Len(ScreenOrder)
      /\ \A i \in 1 .. Len(Order) : Order[i] \in Slots /\ ScreenOrder[i] = Order[i]
  BY DEF Order, ScreenOrder, Slots
<1>3. /\ MovedSeq(p) \in Seq(Seq(ParsedObject)) /\ Len(MovedSeq(p)) = Len(Order)
      /\ Moved(p) = FlattenSeq(MovedSeq(p))
  BY <1>1, MovedType
<1>4. /\ DueSeq(d, own) \in Seq(Seq(StatedObject)) /\ Len(DueSeq(d, own)) = Len(Order)
  <2>1. \A s : Due(d, own, s, Len(own.layers), Len(own.uses)) \in Seq(StatedObject)
    <3> HIDE DEF own
    <3>1. Len(own.layers) \in Nat /\ Len(own.uses) \in Nat
      BY <1>1, FileFacts
    <3>2. Len(own.layers) \in 0 .. Len(own.layers)
      BY <3>1
    <3> QED BY <1>1, <3>1, <3>2, DueType
  <2> HIDE DEF own
  <2> QED BY <1>2, <2>1 DEF DueSeq
<1>5. ASSUME NEW i \in 1 .. Len(Order)
      PROVE  SameObjects(MovedSeq(p)[i], DueSeq(d, own)[i])
  <2>1. MovedSeq(p)[i] = p.holders[Order[i]].objs
    BY DEF MovedSeq
  <2>2. DueSeq(d, own)[i] = Due(d, own, Order[i], Len(own.layers), Len(own.uses))
    BY <1>2 DEF DueSeq
  <2>3. Matches(p.holders[Order[i]].objs,
                Due(d, own, Order[i], Len(own.layers), Len(own.uses)))
    BY <1>1, <1>2 DEF SlotsWhole
  <2> QED BY <2>1, <2>2, <2>3 DEF Matches
<1> QED BY <1>3, <1>4, <1>5, FlattenSame

LEMMA FileOfDistinct ==
  ASSUME NEW d, Distinct(d), NEW p, PageOK(p, d)
  PROVE  d.files[p.loc] = OwnOf(d, p.index)
  BY FirstOfDistinct DEF PageOK, OwnOf

LEMMA ConvertedPage ==
  ASSUME NEW d, IsDocument(d), NEW p, WholePage(p, d), NEW x,
         x.index = p.index, x.objs = Moved(p)
  PROVE  PdfPage(x, d, p.index)
<1> SUFFICES ASSUME Distinct(d), OneGround(OwnOf(d, p.index))
             PROVE  SameObjects(x.objs, FlattenSeq(DueSeq(d, OwnOf(d, p.index))))
  BY DEF PdfPage, DueSeq
<1>1. d.files[p.loc] = OwnOf(d, p.index)
  BY FileOfDistinct DEF WholePage
<1> QED BY <1>1, MovedSame

-----------------------------------------------------------------------------
(* Steps while no page is parsed and none is held.                         *)
LEMMA NothingThere ==
  ASSUME run' = Idle, \A h \in Handles : pages'[h] = NoPage, PdfInv'
  PROVE  WholeInv'
  BY IdleFacts DEF WholeInv

LEMMA WholeClient ==
  ASSUME ReaderInv, WholeInv,
         \/ OpenPackage \/ ClosePackage \/ DropDocument
         \/ \E i \in 1 .. Len(pkg) : LoadDocument(i)
         \/ StartConvert \/ ConvertDies
  PROVE  WholeInv'
<1>1. PdfInv /\ <<>> \in Seq([index : Int, area : Area, objs : Seq(ParsedObject)])
  BY DEF WholeInv
<1>2. run = Idle /\ Empty /\ run' = run /\ pages' = pages
  BY DEF OpenPackage, ClosePackage, DropDocument, LoadDocument, StartConvert,
         ConvertDies, ReaderInv, LifeInv, Empty
<1>3. PdfInv'
  <2>1. CASE OpenPackage
    BY <1>1, <2>1 DEF OpenPackage, PdfInv
  <2>2. CASE ClosePackage
    BY <1>1, <2>2 DEF ClosePackage, PdfInv
  <2>3. CASE DropDocument
    BY <1>1, <2>3 DEF DropDocument, PdfInv
  <2>4. CASE \E i \in 1 .. Len(pkg) : LoadDocument(i)
    <3>1. pdf' = pdf /\ pdf = <<>> /\ job' = job /\ job = 0
      BY <2>4 DEF LoadDocument, ReaderInv, LifeInv
    <3> QED BY <1>1, <3>1 DEF PdfInv
  <2>5. CASE StartConvert
    <3>1. pdf' = <<>> /\ job' = Len(doc.pages) /\ doc' = doc /\ open = "document"
      BY <2>5 DEF StartConvert, session
    <3>2. Len(doc.pages) \in Nat
      BY <3>1, OpenDocument DEF IsDocument
    <3>3. Len(<<>>) = Len(doc.pages) - Len(doc.pages)
      BY <3>2
    <3> QED BY <1>1, <3>1, <3>3 DEF PdfInv
  <2>6. CASE ConvertDies
    BY <1>1, <2>6 DEF ConvertDies, PdfInv
  <2> QED BY <2>1, <2>2, <2>3, <2>4, <2>5, <2>6
<1> QED BY <1>2, <1>3, NothingThere DEF Empty

(* A page that is started, by the client or by ofd2pdf.                    *)
LEMMA WholeStart ==
  ASSUME ReaderInv, WholeInv, open = "document", NEW n \in 1 .. Len(doc.pages),
         Found(FirstLoc(doc.pages, doc.pages[n].id)),
         StartPage(n, FirstLoc(doc.pages, doc.pages[n].id)),
         job > 0 => n = job, UNCHANGED <<session, pages, job, pdf>>
  PROVE  WholeInv'
<1> DEFINE loc == FirstLoc(doc.pages, doc.pages[n].id)
           file == doc.files[loc]
           a == AreaOf(file, docArea)
<1>1. IsDocument(doc) /\ docArea \in Box
  BY OpenDocument
<1>2. /\ cur' = [index |-> n, id |-> doc.pages[n].id, loc |-> loc,
                 area |-> PageArea(file, a),
                 holders |-> [s \in Slots |-> IF s = "page" THEN NewHolder(file, a)
                                              ELSE NoHolder],
                 annots |-> <<>>]
      /\ run' = [Idle EXCEPT !.phase = "layers"]
  BY DEF StartPage
<1>3. FoundIn(doc, loc)
  BY DEF Found, FoundIn
<1>4. /\ FirstLoc(doc.pages, doc.pages[n].id) = loc
      /\ AreaOf(doc.files[loc], docArea) = a
  OBVIOUS
<1>5. \A s \in Slots : cur'.holders[s] = IF s = "page" THEN NewHolder(doc.files[loc], a)
                                         ELSE NoHolder
  <2> HIDE DEF a, loc
  <2> QED BY <1>2
<1>6. cur'.index = n /\ cur'.loc = loc /\ cur'.annots = <<>>
  BY <1>2
<1> HIDE DEF loc, a
<1>7. InParse(cur', doc, run')
  BY <1>1, <1>2, <1>3, <1>4, <1>5, <1>6, PageStarts
<1>8. run'.phase = "layers"
  BY <1>2, IdleFacts
<1> QED BY <1>6, <1>7, <1>8, StillWhole

LEMMA WholeLoad ==
  ASSUME ReaderInv, WholeInv,
         \/ \E h \in Handles : \E n \in 1 .. Len(doc.pages) : LoadPage(h, n)
         \/ ConvertLoad
  PROVE  WholeInv'
<1>1. ASSUME NEW h \in Handles, NEW n \in 1 .. Len(doc.pages), LoadPage(h, n)
      PROVE  WholeInv'
  <2>1. CASE Found(FirstLoc(doc.pages, doc.pages[n].id))
    BY <1>1, <2>1, WholeStart DEF LoadPage
  <2>2. CASE ~Found(FirstLoc(doc.pages, doc.pages[n].id))
    BY <1>1, <2>2 DEF LoadPage, WholeInv, PdfInv, session
  <2> QED BY <2>1, <2>2
<1>2. CASE ConvertLoad
  <2>1. job \in Nat \ {0} /\ open = "document"
    BY <1>2 DEF ConvertLoad, ReaderInv, LifeInv
  <2>2. job \in 1 .. Len(doc.pages)
    BY <1>2 DEF ConvertLoad, ReaderInv, LifeInv
  <2> QED BY <1>2, <2>1, <2>2, WholeStart DEF ConvertLoad
<1> QED BY <1>1, <1>2

(* The page that was parsed is given to the client or to the PDF.          *)
LEMMA WholeDone ==
  ASSUME ReaderInv, WholeInv, PageLoaded \/ ConvertPage
  PROVE  WholeInv'
<1>1. /\ run.phase = "annots" /\ run.elems = <<>> /\ run.rest = <<>>
      /\ run.at = Len(doc.annots) /\ run' = Idle
      /\ pkg' = pkg /\ open' = open /\ doc' = doc
  BY DEF PageLoaded, ConvertPage, AllParsed, AtEnd, session
<1>2. IsDocument(doc) /\ InParse(cur, doc, run) /\ open = "document" /\ cur.area \in Area
  BY <1>1, AtWork
<1>3. WholePage(cur, doc)
  BY <1>1, <1>2, ParseEnds
<1>4. CASE PageLoaded
  <2>1. pages' = [pages EXCEPT ![handle] = cur] /\ job' = job /\ pdf' = pdf
    BY <1>4 DEF PageLoaded
  <2>2. PdfInv'
    BY <1>1, <2>1 DEF WholeInv, PdfInv
  <2>3. \A h \in Handles : pages'[h] # NoPage => WholePage(pages'[h], doc')
    BY <1>1, <1>3, <2>1 DEF WholeInv, ReaderInv, LifeInv
  <2> QED BY <1>1, <2>2, <2>3, IdleFacts DEF WholeInv
<1>5. CASE ConvertPage
  <2> DEFINE x == [index |-> cur.index, area |-> cur.area, objs |-> Moved(cur)]
             Pages == [index : Int, area : Area, objs : Seq(ParsedObject)]
  <2>1. pages' = pages /\ job' = job - 1 /\ job > 0 /\ pdf' = <<x>> \o pdf
    BY <1>5 DEF ConvertPage, Inserted
  <2>2. PageOK(cur, doc) /\ cur.index \in Int /\ cur.index = job
    <3>1. PageOK(cur, doc) /\ cur.index = job
      BY <1>1, <1>3, <2>1 DEF WholePage, WholeInv
    <3>2. Len(doc.pages) \in Nat
      BY <1>2 DEF IsDocument
    <3> QED BY <3>1, <3>2 DEF PageOK
  <2>3. x \in Pages /\ x.index = cur.index /\ x.objs = Moved(cur)
    BY <1>2, <2>2, MovedType
  <2> HIDE DEF x
  <2>4. PdfPage(x, doc, job)
    BY <1>2, <1>3, <2>2, <2>3, ConvertedPage
  <2> HIDE DEF Pages
  <2>5. /\ pdf \in Seq(Pages) /\ Len(pdf) = Len(doc.pages) - job
        /\ \A i \in 1 .. Len(pdf) : PdfPage(pdf[i], doc, job + i)
    BY <1>2, <2>1 DEF WholeInv, PdfInv, Pages
  <2>6. /\ pdf' \in Seq(Pages) /\ Len(pdf') = Len(pdf) + 1 /\ pdf'[1] = x
        /\ \A i \in 1 .. Len(pdf') : i # 1 => pdf'[i] = pdf[i - 1]
    BY <2>1, <2>3, <2>5
  <2>7. job \in Int /\ Len(doc.pages) \in Nat /\ Len(pdf) \in Nat
    BY <1>2, <2>5 DEF ReaderInv, LifeInv, IsDocument
  <2>8. ASSUME NEW i \in 1 .. Len(pdf')
        PROVE  PdfPage(pdf'[i], doc, job' + i)
    <3>1. CASE i = 1
      <4>1. job' + i = job
        BY <2>1, <2>7, <3>1
      <4> QED BY <2>4, <2>6, <3>1, <4>1
    <3>2. CASE i # 1
      <4>1. i - 1 \in 1 .. Len(pdf) /\ job' + i = job + (i - 1)
        BY <2>1, <2>6, <2>7, <3>2
      <4> QED BY <2>5, <2>6, <3>2, <4>1
    <3> QED BY <3>1, <3>2
  <2>9. Len(pdf') = Len(doc.pages) - job'
    BY <2>1, <2>5, <2>6, <2>7
  <2>10. PdfInv'
    BY <1>1, <2>6, <2>8, <2>9 DEF PdfInv, Pages
  <2>11. \A h \in Handles : pages'[h] # NoPage => WholePage(pages'[h], doc')
    BY <1>1, <2>1 DEF WholeInv
  <2> QED BY <1>1, <2>10, <2>11, IdleFacts DEF WholeInv
<1> QED BY <1>4, <1>5

LEMMA WholeDrop ==
  ASSUME ReaderInv, WholeInv, NEW h \in Handles, DropPage(h)
  PROVE  WholeInv'
<1>1. /\ pages' = [pages EXCEPT ![h] = NoPage]
      /\ UNCHANGED <<session, cur, run, job, pdf>>
  BY DEF DropPage
<1>2. PdfInv'
  BY <1>1 DEF WholeInv, PdfInv, session
<1>3. \A k \in Handles : pages'[k] # NoPage => WholePage(pages'[k], doc')
  BY <1>1 DEF WholeInv, ReaderInv, LifeInv, session
<1> QED BY <1>1, <1>2, <1>3 DEF WholeInv, session

LEMMA WholeInit == Init => WholeInv
<1> SUFFICES ASSUME Init PROVE WholeInv
  OBVIOUS
<1>1. PdfInv
  BY DEF Init, PdfInv
<1> QED BY <1>1, IdleFacts DEF Init, WholeInv

LEMMA WholeStep == ReaderInv /\ WholeInv /\ [Next]_vars => WholeInv'
<1> SUFFICES ASSUME ReaderInv, WholeInv, [Next]_vars PROVE WholeInv'
  OBVIOUS
<1>1. CASE UNCHANGED vars
  BY <1>1 DEF vars, session, WholeInv, PdfInv
<1>2. CASE Next
  BY <1>2, WholeClient, WholeLoad, WholeDrop, WholeElement, WholeLayer, WholeTemplate,
     WholeMove, WholeAnnot, WholeDone DEF Next
<1> QED BY <1>1, <1>2

LEMMA WholeInvariant == Spec => [](ReaderInv /\ WholeInv)
<1>1. Init => ReaderInv /\ WholeInv
  BY ReaderInit, WholeInit
<1>2. ReaderInv /\ WholeInv /\ [Next]_vars => ReaderInv' /\ WholeInv'
  BY ReaderStep, WholeStep
<1> QED BY <1>1, <1>2, PTL DEF Spec

(* What is stated of a file is what is due once all of it was parsed.      *)
LEMMA StatedIsDue ==
  ASSUME NEW file, NEW s
  PROVE  Stated(file, s) = Due(doc, file, s, Len(file.layers), Len(file.uses))
<1>1. \A i : UseInto(file, s, i) = UseOf(doc, file, s, i)
  BY DEF UseInto, UseOf, TemplateLoc, TemplateIn, Found, FoundIn
<1> QED BY <1>1 DEF Stated, Due, OwnDone, UsesDone, OwnSlots

LEMMA HeldWhole ==
  ASSUME WholeInv, NEW h \in Held
  PROVE  /\ PageOK(pages[h], doc)
         /\ DistinctPages /\ OneGround(OwnFile(pages[h].index)) =>
              \A s \in Slots : Matches(pages[h].holders[s].objs,
                                       Stated(OwnFile(pages[h].index), s))
<1>1. WholePage(pages[h], doc)
  BY DEF WholeInv, Held
<1>2. PageOK(pages[h], doc) /\ SlotsWhole(pages[h], doc)
  BY <1>1 DEF WholePage
<1>3. DistinctPages => doc.files[pages[h].loc] = OwnFile(pages[h].index)
  BY <1>2, FileOfDistinct DEF DistinctPages, Distinct, OwnOf, OwnFile
<1> QED BY <1>2, <1>3, StatedIsDue DEF SlotsWhole

(* Every page a client holds has the annotations of its ID with their      *)
(* objects, and, if page IDs are distinct and the page has at most one     *)
(* background and one foreground layer, each holder has the visible        *)
(* objects that the layers and templates of the page's own file put there, *)
(* each once, in the order of the files and with the DrawParam of its own  *)
(* layer: whichever pages are loaded, dropped and converted before and     *)
(* after (Parse, ParseXXTemplate, ParsePageAnnot of COFD_Page).            *)
THEOREM PagesAreWhole == Spec => []PagesWhole
<1>1. WholeInv => LayersWhole
  BY HeldWhole DEF LayersWhole, Matches
<1>2. ASSUME WholeInv PROVE AnnotsOfThePage
  <2> SUFFICES ASSUME NEW h \in Held
               PROVE  LET page == pages[h]
                          shown == NotesDone(doc, page.id, Len(doc.annots))
                      IN  /\ Len(page.annots) = Len(shown)
                          /\ \A i \in 1 .. Len(shown) :
                               /\ Names(page.annots[i].objs) = ShownObjects(shown[i].elems)
                               /\ ~shown[i].outer =>
                                    page.annots[i].off = page.holders["page"].off
    BY DEF AnnotsOfThePage, NotesDone, NoteFile, Names, Found, FoundIn
  <2> DEFINE page == pages[h]
             shown == NotesDone(doc, page.id, Len(doc.annots))
  <2>1. NotesAre(page, shown, <<>>)
    BY <1>2 DEF WholeInv, Held, WholePage
  <2> HIDE DEF shown, page
  <2>2. /\ page.annots \in Seq(HolderRec) /\ Len(page.annots) = Len(shown)
        /\ \A i \in 1 .. Len(shown) :
             NoteDue(page.annots[i], shown[i], page.holders["page"].off, <<>>)
    BY <2>1 DEF NotesAre
  <2>3. ASSUME NEW i \in 1 .. Len(shown)
        PROVE  /\ Names(page.annots[i].objs) = ShownObjects(shown[i].elems)
               /\ ~shown[i].outer => page.annots[i].off = page.holders["page"].off
    <3> DEFINE x == page.annots[i]
    <3>1. x \in HolderRec /\ NoteDue(x, shown[i], page.holders["page"].off, <<>>)
      BY <2>2
    <3> HIDE DEF x
    <3>2. Names(x.objs) \in Seq(Objects)
      <4>1. x.objs \in Seq(ParsedObject)
        BY <3>1 DEF HolderRec
      <4> QED BY <4>1, NamesType
    <3>3. Names(x.objs) \o <<>> = Names(x.objs)
      BY <3>2, ConcatEmptySeq
    <3> QED BY <3>1, <3>3, ShownNone DEF NoteDue, x
  <2> QED BY <2>2, <2>3 DEF page, shown
<1> QED BY <1>1, <1>2, WholeInvariant, PTL DEF PagesWhole

(* On such a page, every object lies where the Area of the file it came    *)
(* from puts it (the page's own objects: if it is not rotated), though all *)
(* templates of one ZOrder share a holder that each of them moves, and all *)
(* files share the document's bbox_ (ParseXXTemplate, ParseArea).          *)
THEOREM ObjectsStayPlaced == Spec => []ObjectsPlaced
<1>1. WholeInv => ObjectsPlaced
  BY HeldWhole DEF ObjectsPlaced, Matches, SameObjects
<1> QED BY <1>1, WholeInvariant, PTL

(* A finished PDF has the pages of the document in its order, and on each  *)
(* such page the visible objects of its file in the order of the screen,   *)
(* however many pages there are: ofd2pdf counts down and inserts each page *)
(* at the front.                                                           *)
THEOREM PdfIsLikeScreen == Spec => []PdfLikeScreen
<1>1. ASSUME ReaderInv, WholeInv PROVE PdfLikeScreen
  <2> SUFFICES ASSUME open = "document", job = 0, pdf # <<>>
               PROVE  /\ Len(pdf) = Len(doc.pages)
                      /\ \A i \in 1 .. Len(pdf) : PdfPage(pdf[i], doc, i)
    BY StatedIsDue DEF PdfLikeScreen, PdfPage, DistinctPages, Distinct, OwnFile, OwnOf
  <2>1. /\ Len(pdf) = Len(doc.pages) - job
        /\ \A i \in 1 .. Len(pdf) : PdfPage(pdf[i], doc, job + i)
    BY <1>1 DEF WholeInv, PdfInv
  <2>2. Len(doc.pages) \in Nat
    BY <1>1, OpenDocument DEF IsDocument
  <2> QED BY <2>1, <2>2
<1> QED BY <1>1, WholeInvariant, PTL

-----------------------------------------------------------------------------
(* How many pages may be loaded: a conversion loads what it has left.      *)
BoundInv ==
  /\ open \in {"none", "package", "document"}
  /\ loads <= MaxLoads /\ 0 <= job /\ job <= MaxLoads
  /\ job > 0 => loads + job <= IF run.phase = "idle" THEN MaxLoads ELSE MaxLoads + 1
  /\ run.phase = "idle" => cur = NoPage

LEMMA BoundStep == ReaderInv /\ BoundInv /\ [Next]_vars => BoundInv'
<1> SUFFICES ASSUME ReaderInv, BoundInv, [Next]_vars PROVE BoundInv'
  OBVIOUS
<1>1. loads \in Nat /\ job \in Int /\ MaxLoads \in Nat /\ DOMAIN run = RunFields
  BY ReaderAssumption DEF ReaderInv, LifeInv
<1>a. open' \in {"none", "package", "document"}
  <2>1. open' = open \/ open' \in {"none", "package", "document"}
    BY DEF Next, OpenPackage, ClosePackage, LoadDocument, DropDocument, DropPage, LoadPage,
       ParseElement, NextLayer, EndOfLayers, NextTemplate, NextTemplateLayer,
       EndOfTemplates, NextAnnotFile, NextAnnot, PageLoaded, StartConvert, ConvertLoad,
       ConvertDies, ConvertPage, session, vars
  <2> QED BY <2>1 DEF BoundInv
<1>2. CASE UNCHANGED vars
  BY <1>2 DEF vars, session, BoundInv
<1>3. ASSUME UNCHANGED <<loads, job>>, run.phase # "idle", run'.phase # "idle"
      PROVE  BoundInv'
  BY <1>a, <1>3 DEF BoundInv
<1>4. CASE ParseElement
  <2>1. run.phase # "idle" /\ run'.phase = run.phase
    BY <1>1, <1>4, IdleFacts DEF ParseElement, ReaderInv, LifeInv, RunFields
  <2> QED BY <1>3, <1>4, <2>1 DEF ParseElement
<1>5. CASE NextLayer \/ EndOfLayers \/ NextTemplate \/ NextTemplateLayer
             \/ EndOfTemplates \/ NextAnnotFile \/ NextAnnot
  <2>1. run.phase # "idle" /\ run'.phase # "idle"
    BY <1>1, <1>5 DEF NextLayer, EndOfLayers, NextTemplate, NextTemplateLayer,
       EndOfTemplates, NextAnnotFile, NextAnnot, AtEnd, Idle, RunFields
  <2>2. UNCHANGED <<loads, job>>
    BY <1>5 DEF NextLayer, EndOfLayers, NextTemplate, NextTemplateLayer,
       EndOfTemplates, NextAnnotFile, NextAnnot
  <2> QED BY <1>3, <2>1, <2>2
<1>6. CASE OpenPackage \/ ClosePackage \/ \E i \in 1 .. Len(pkg) : LoadDocument(i)
  <2>1. UNCHANGED <<loads, job, run, cur>>
    BY <1>6 DEF OpenPackage, ClosePackage, LoadDocument
  <2> QED BY <1>a, <2>1 DEF BoundInv
<1>7. ASSUME NEW h \in Handles, DropPage(h) PROVE BoundInv'
  <2>1. UNCHANGED <<loads, job, run, cur>>
    BY <1>7 DEF DropPage
  <2> QED BY <1>a, <2>1 DEF BoundInv
<1>8. CASE DropDocument \/ ConvertDies
  <2>1. loads' = 0 /\ job' = 0 /\ run' = run /\ cur' = cur
    BY <1>8 DEF DropDocument, ConvertDies
  <2> QED BY <1>a, <1>1, <2>1 DEF BoundInv
<1>9. ASSUME NEW h \in Handles, NEW n \in 1 .. Len(doc.pages), LoadPage(h, n)
      PROVE  BoundInv'
  <2>1. loads' = loads + 1 /\ loads < MaxLoads /\ job' = job /\ job = 0
    BY <1>9 DEF LoadPage
  <2>2. run'.phase = "idle" => cur' = NoPage
    <3>1. CASE Found(FirstLoc(doc.pages, doc.pages[n].id))
      BY <1>9, <3>1, IdleFacts DEF LoadPage, StartPage
    <3>2. CASE ~Found(FirstLoc(doc.pages, doc.pages[n].id))
      BY <1>9, <3>2 DEF LoadPage, BoundInv
    <3> QED BY <3>1, <3>2
  <2> QED BY <1>a, <1>1, <2>1, <2>2 DEF BoundInv
<1>10. CASE StartConvert
  <2>1. /\ UNCHANGED <<loads, run, cur>> /\ run = Idle /\ loads = 0
        /\ job' \in 1 .. MaxLoads
    BY <1>10 DEF StartConvert
  <2> QED BY <1>a, <1>1, <2>1, IdleFacts DEF BoundInv
<1>11. CASE ConvertLoad
  <2>1. /\ loads' = loads + 1 /\ job' = job /\ job > 0 /\ run = Idle
        /\ run' = [Idle EXCEPT !.phase = "layers"]
    BY <1>11 DEF ConvertLoad, StartPage
  <2>2. run'.phase = "layers" /\ run.phase = "idle"
    BY <2>1, IdleFacts
  <2> QED BY <1>a, <1>1, <2>1, <2>2 DEF BoundInv
<1>12. CASE PageLoaded
  <2>1. UNCHANGED <<loads, job>> /\ job = 0 /\ cur' = NoPage
    BY <1>12 DEF PageLoaded
  <2> QED BY <1>a, <2>1 DEF BoundInv
<1>13. CASE ConvertPage
  <2>1. /\ loads' = loads /\ job' = job - 1 /\ job > 0 /\ cur' = NoPage
        /\ run.phase = "annots" /\ run' = Idle
    BY <1>13 DEF ConvertPage, AllParsed, AtEnd
  <2> QED BY <1>a, <1>1, <2>1, IdleFacts DEF BoundInv
<1> QED BY <1>2, <1>4, <1>5, <1>6, <1>7, <1>8, <1>9, <1>10, <1>11, <1>12, <1>13 DEF Next

(* Every variable has its type; no more pages are loaded than the bound    *)
(* allows, by a viewer or by ofd2pdf; and a page is parsed or held only    *)
(* while its document is open.                                             *)
THEOREM ReaderTypes == Spec => []TypeOK
<1>1. Init => BoundInv
  BY ReaderAssumption, IdleFacts DEF Init, BoundInv
<1>2. ASSUME ReaderInv, WholeInv, BoundInv PROVE TypeOK
  <2>1. /\ loads \in 0 .. MaxLoads /\ job \in 0 .. MaxLoads /\ docArea \in Box
        /\ open \in {"none", "package", "document"}
    BY <1>2, ReaderAssumption DEF BoundInv, ReaderInv, LifeInv, SharedAreaInv
  <2>2. run.phase \in {"idle", "layers", "templates", "annots"}
    BY <1>2 DEF WholeInv
  <2>3. run.slot \in Slots \cup {"annot"} /\ run.dp \in Garbage
    <3>1. CASE run.phase = "idle"
      <4>1. run = Idle
        BY <1>2, <3>1 DEF ReaderInv, LifeInv
      <4> QED BY <4>1 DEF Idle, Slots, Garbage
    <3>2. CASE run.phase # "idle"
      BY <1>2, <2>2, <3>2 DEF WholeInv, InParse, RunOK, OwnSlots, Slots
    <3> QED BY <3>1, <3>2
  <2>4. (run # Idle \/ Held # {} \/ job > 0) => open = "document"
    BY <1>2, <2>1 DEF ReaderInv, LifeInv, Held, Empty
  <2>5. ASSUME NEW p, Good(p, doc, foreign), p.index \in 1 .. Len(doc.pages)
        PROVE  /\ p # NoPage /\ p.area \in Area /\ DOMAIN p.holders = Slots
    <3>1. "area" \in DOMAIN p /\ "area" \notin DOMAIN NoPage
      BY <2>5 DEF Good, Shaped, PageFields, NoPage
    <3> QED BY <2>5, <3>1 DEF Good, Shaped
  <2>6. run.phase # "idle" => Good(cur, doc, foreign) /\ cur.index \in 1 .. Len(doc.pages)
    BY <1>2 DEF ReaderInv, PagesInv, WholeInv, InParse, PageOK
  <2>7. run.phase = "idle" <=> cur = NoPage
    BY <1>2, <2>5, <2>6 DEF BoundInv
  <2>8. \A h \in Handles : pages[h] # NoPage =>
          Good(pages[h], doc, foreign) /\ pages[h].index \in 1 .. Len(doc.pages)
    BY <1>2 DEF ReaderInv, PagesInv, WholeInv, WholePage, PageOK
  <2>9. \A p \in {cur} \cup {pages[h] : h \in Handles} : p # NoPage =>
          /\ p.index \in 1 .. Len(doc.pages) /\ p.area \in Area
          /\ DOMAIN p.holders = Slots
    BY <2>5, <2>6, <2>7, <2>8
  <2> QED BY <2>1, <2>2, <2>3, <2>4, <2>7, <2>9 DEF TypeOK
<1> QED BY <1>1, <1>2, BoundStep, WholeInvariant, PTL DEF Spec

=============================================================================
