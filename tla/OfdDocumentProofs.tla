------------------------- MODULE OfdDocumentProofs -------------------------
(***************************************************************************)
(* What the loops over ofd.xml and Document.xml leave in the lists of a    *)
(* document, and what may end them, for files of any length.               *)
(***************************************************************************)
EXTENDS OfdDocument, FiniteSetTheorems, WellFoundedInduction, TLAPS

Docs == UNION {{p[i].doc : i \in 1 .. Len(p)} : p \in Packages}
PageEntry == [id : Int, loc : STRING]
NoteEntry == [page : Int, loc : STRING]

LEMMA DocFacts ==
  ASSUME NEW d \in Docs
  PROVE  /\ d.common \in Seq(Common) /\ d.pages \in Seq(PageEntry)
         /\ \A f \in DOMAIN d.notes : d.notes[f] \in Seq(NoteEntry)
         /\ d.hasPages \in BOOLEAN
         /\ \A f \in DOMAIN d.res : d.res[f] \in Seq(Item)
<1>1. PICK p \in Packages : \E i \in 1 .. Len(p) : d = p[i].doc
  BY DEF Docs
<1>2. IsDocument(d)
  BY <1>1, DocumentAssumption
<1>3. QED
  BY <1>2 DEF IsDocument, PageEntry, NoteEntry

-----------------------------------------------------------------------------
(* Places of pages.                                                        *)

LEMMA PlaceFacts ==
  ASSUME NEW d \in Docs, NEW n \in Nat
  PROVE  /\ ListedAt(d) \subseteq 1 .. Len(d.pages) /\ ListedAt(d) \subseteq Nat
         /\ IsFiniteSet({j \in ListedAt(d) : j <= n})
         /\ Place(d, n) \in Nat
         /\ Place(d, Len(d.pages)) = Cardinality(ListedAt(d))
         /\ Cardinality(ListedAt(d)) \in Nat
<1>1. d.pages \in Seq(PageEntry) /\ Len(d.pages) \in Nat
  <2>1. d.pages \in Seq(PageEntry)
    BY DocFacts
  <2>2. QED
    BY <2>1
<1>2. IsFiniteSet(1 .. Len(d.pages))
  BY <1>1, FS_Interval
<1>3. ListedAt(d) \subseteq 1 .. Len(d.pages)
  BY DEF ListedAt
<1>4. IsFiniteSet(ListedAt(d)) /\ Cardinality(ListedAt(d)) \in Nat
  BY <1>2, <1>3, FS_Subset, FS_CardinalityType
<1>5. IsFiniteSet({j \in ListedAt(d) : j <= n})
  BY <1>4, FS_Subset
<1>6. {j \in ListedAt(d) : j <= Len(d.pages)} = ListedAt(d)
  BY <1>1, <1>3
<1>7. Place(d, n) \in Nat
  BY <1>5, FS_CardinalityType DEF Place
<1>8. Place(d, Len(d.pages)) = Cardinality(ListedAt(d))
  BY <1>6 DEF Place
<1>9. ListedAt(d) \subseteq Nat
  BY <1>1, <1>3
<1>10. QED
  BY <1>3, <1>4, <1>5, <1>7, <1>8, <1>9

LEMMA PlaceZero == ASSUME NEW d \in Docs PROVE Place(d, 0) = 0
<1>1. {j \in ListedAt(d) : j <= 0} = {}
  <2>1. \A j \in ListedAt(d) : j \in Nat /\ j >= 1
    <3>1. d.pages \in Seq(PageEntry)
      BY DocFacts
    <3>2. Len(d.pages) \in Nat
      BY <3>1
    <3>3. ListedAt(d) \subseteq 1 .. Len(d.pages)
      BY DEF ListedAt
    <3>4. QED
      BY <3>2, <3>3
  <2>2. QED
    BY <2>1
<1>2. QED
  BY <1>1, FS_EmptySet DEF Place

(* The next page has the next place if it is listed.                       *)
LEMMA PlaceNext ==
  ASSUME NEW d \in Docs, NEW n \in Nat
  PROVE  Place(d, n + 1) = IF n + 1 \in ListedAt(d) THEN Place(d, n) + 1 ELSE Place(d, n)
<1> DEFINE A == {j \in ListedAt(d) : j <= n}
           B == {j \in ListedAt(d) : j <= n + 1}
           m == n + 1
<1>1. ListedAt(d) \subseteq Nat /\ IsFiniteSet(A)
  BY PlaceFacts
<1>2. CASE m \in ListedAt(d)
  <2>1. B = A \cup {m}
    BY <1>1, <1>2
  <2>2. m \notin A
    OBVIOUS
  <2>3. Cardinality(A \cup {m}) = Cardinality(A) + 1
    <3> HIDE DEF A, m
    <3>1. QED
      BY <1>1, <2>2, FS_AddElement
  <2>4. QED
    BY <1>2, <2>1, <2>3 DEF Place
<1>3. CASE m \notin ListedAt(d)
  <2>1. B = A
    BY <1>1, <1>3
  <2>2. QED
    BY <1>3, <2>1 DEF Place
<1>4. QED
  BY <1>2, <1>3

(* Listed pages have the places from 1 on.                                 *)
LEMMA PlaceInRange ==
  ASSUME NEW d \in Docs, NEW n \in Nat, NEW k \in ListedAt(d), k <= n
  PROVE  Place(d, k) \in 1 .. Place(d, n)
<1> DEFINE A == {j \in ListedAt(d) : j <= k}
           B == {j \in ListedAt(d) : j <= n}
<1>1. k \in Nat /\ ListedAt(d) \subseteq Nat /\ IsFiniteSet(B) /\ Place(d, n) \in Nat
  BY PlaceFacts
<1>2. IsFiniteSet(A) /\ Place(d, k) \in Nat
  BY <1>1, PlaceFacts
<1>3. A \in SUBSET B
  BY <1>1
<1>4. Cardinality(A) <= Cardinality(B)
  BY <1>1, <1>3, FS_Subset
<1>5. Cardinality(A) # 0
  <2>1. k \in A
    BY <1>1
  <2>2. QED
    BY <1>2, <2>1, FS_EmptySet
<1>6. QED
  BY <1>1, <1>2, <1>4, <1>5 DEF Place

-----------------------------------------------------------------------------
(* Loops.                                                                  *)

(* r is what is left of s when its first n elements are done.              *)
LeftOf(r, s, n) ==
  /\ n \in 0 .. Len(s) /\ Len(r) = Len(s) - n
  /\ \A i \in 1 .. Len(r) : r[i] = s[n + i]

LEMMA LeftAll == ASSUME NEW S, NEW s \in Seq(S) PROVE LeftOf(s, s, 0)
  BY DEF LeftOf

LEMMA LeftNone ==
  ASSUME NEW S, NEW s \in Seq(S), NEW n \in Nat, NEW r, r = <<>>, LeftOf(r, s, n)
  PROVE  n = Len(s)
<1>1. Len(s) \in Nat /\ Len(r) = 0
  OBVIOUS
<1>2. QED
  BY <1>1 DEF LeftOf

LEMMA LeftNext ==
  ASSUME NEW S, NEW s \in Seq(S), NEW R, NEW r \in Seq(R), NEW n \in Nat, r # <<>>,
         LeftOf(r, s, n)
  PROVE  /\ n + 1 \in 1 .. Len(s) /\ Head(r) = s[n + 1]
         /\ Tail(r) \in Seq(R) /\ LeftOf(Tail(r), s, n + 1)
<1>1. Len(s) \in Nat /\ Len(r) \in Nat /\ Len(r) # 0
  OBVIOUS
<1>2. n + 1 \in 1 .. Len(s)
  BY <1>1 DEF LeftOf
<1>3. Head(r) = s[n + 1]
  BY <1>1 DEF LeftOf
<1>4. /\ Tail(r) \in Seq(R) /\ Len(Tail(r)) = Len(r) - 1
      /\ \A i \in 1 .. Len(r) - 1 : Tail(r)[i] = r[i + 1]
  OBVIOUS
<1> DEFINE u == Tail(r)
<1>5. LeftOf(u, s, n + 1)
  <2>1. /\ Len(u) = Len(r) - 1 /\ \A i \in 1 .. Len(r) - 1 : u[i] = r[i + 1]
        /\ Len(r) = Len(s) - n /\ \A i \in 1 .. Len(r) : r[i] = s[n + i]
    BY <1>4 DEF LeftOf
  <2> HIDE DEF u
  <2>2. Len(u) = Len(s) - (n + 1)
    BY <1>1, <2>1
  <2>3. ASSUME NEW i \in 1 .. Len(u) PROVE u[i] = s[n + 1 + i]
    <3>1. i \in 1 .. Len(r) - 1 /\ i + 1 \in 1 .. Len(r) /\ n + (i + 1) = n + 1 + i
      BY <1>1, <2>1
    <3>2. u[i] = r[i + 1] /\ r[i + 1] = s[n + (i + 1)]
      BY <2>1, <3>1
    <3>3. QED
      BY <3>1, <3>2
  <2>4. QED
    BY <1>2, <2>2, <2>3 DEF LeftOf
<1>6. QED
  BY <1>2, <1>3, <1>4, <1>5

(* The two tables of pages when the first n pages are done.                *)
PagesDone(d, ids, urls, n) ==
  /\ ids \in Seq(Int) /\ Len(ids) = Place(d, n)
  /\ \A k \in ListedAt(d) : k <= n => ids[Place(d, k)] = d.pages[k].id
  /\ DOMAIN urls = {d.pages[k].id : k \in {j \in ListedAt(d) : j <= n}}
  /\ \A k \in ListedAt(d) : k <= n =>
       \E m \in ListedAt(d) :
         FirstOf(d, d.pages[k].id, m) /\ urls[d.pages[k].id] = d.pages[m].loc

LEMMA PagesNone == ASSUME NEW d \in Docs PROVE PagesDone(d, <<>>, <<>>, 0)
<1>1. \A k \in ListedAt(d) : ~(k <= 0)
  <2>1. d.pages \in Seq(PageEntry)
    BY DocFacts
  <2>2. Len(d.pages) \in Nat
    BY <2>1
  <2>3. ListedAt(d) \subseteq 1 .. Len(d.pages)
    BY DEF ListedAt
  <2>4. QED
    BY <2>2, <2>3
<1>2. DOMAIN <<>> = {} /\ Len(<<>>) = 0 /\ <<>> \in Seq(Int)
  OBVIOUS
<1>3. {d.pages[k].id : k \in {j \in ListedAt(d) : j <= 0}} = {}
  BY <1>1
<1>4. QED
  BY <1>1, <1>2, <1>3, PlaceZero DEF PagesDone

(* One turn of the loop over the pages.                                    *)
LEMMA PagesNext ==
  ASSUME NEW d \in Docs, NEW n \in Nat, n + 1 \in 1 .. Len(d.pages),
         NEW ids, NEW urls, PagesDone(d, ids, urls, n)
  PROVE  LET p == d.pages[n + 1]
         IN  IF p.id # NoId /\ p.loc # ""
               THEN PagesDone(d, Append(ids, p.id), Insert(urls, p.id, p.loc), n + 1)
               ELSE PagesDone(d, ids, urls, n + 1)
<1> DEFINE m == n + 1
           p == d.pages[m]
           L == ListedAt(d)
           ids2 == Append(ids, p.id)
           urls2 == Insert(urls, p.id, p.loc)
<1>1. /\ d.pages \in Seq(PageEntry) /\ m \in 1 .. Len(d.pages)
  BY DocFacts
<1>2. L \subseteq Nat /\ L \subseteq 1 .. Len(d.pages) /\ Place(d, n) \in Nat
  BY PlaceFacts
<1>3. m \in L <=> (p.id # NoId /\ p.loc # "")
  BY <1>1 DEF ListedAt
<1>4. Place(d, m) = IF m \in L THEN Place(d, n) + 1 ELSE Place(d, n)
  BY PlaceNext
<1>5. \A k \in L : k <= m <=> (k <= n \/ k = m)
  BY <1>2
<1>6. \A k \in L : k <= n => Place(d, k) \in 1 .. Place(d, n)
  BY PlaceInRange
<1>7. p.id \in Int
  <2>1. p \in PageEntry
    BY <1>1
  <2>2. QED
    BY <2>1 DEF PageEntry
<1>8. /\ ids \in Seq(Int) /\ Len(ids) = Place(d, n)
      /\ \A k \in L : k <= n => ids[Place(d, k)] = d.pages[k].id
      /\ DOMAIN urls = {d.pages[k].id : k \in {j \in L : j <= n}}
      /\ \A k \in L : k <= n =>
           \E g \in L : FirstOf(d, d.pages[k].id, g) /\ urls[d.pages[k].id] = d.pages[g].loc
  BY DEF PagesDone
<1>9. CASE m \notin L
  <2>1. \A k \in L : k <= m <=> k <= n
    BY <1>5, <1>9
  <2>2. {j \in L : j <= m} = {j \in L : j <= n}
    BY <2>1
  <2> HIDE DEF m, L
  <2>3. PagesDone(d, ids, urls, m)
    BY <1>4, <1>8, <1>9, <2>1, <2>2 DEF PagesDone, L
  <2>4. QED
    BY <1>3, <1>9, <2>3 DEF m
<1>10. CASE m \in L
  <2> HIDE DEF L, m, p
  <2>1. /\ ids2 \in Seq(Int) /\ Len(ids2) = Place(d, n) + 1 /\ ids2[Place(d, n) + 1] = p.id
        /\ \A i \in 1 .. Place(d, n) : ids2[i] = ids[i]
    BY <1>2, <1>7, <1>8
  <2>2. /\ DOMAIN urls2 = DOMAIN urls \cup {p.id}
        /\ \A id \in DOMAIN urls : urls2[id] = urls[id]
        /\ p.id \notin DOMAIN urls => urls2[p.id] = p.loc
    BY DEF Insert
  <2> HIDE DEF ids2, urls2
  <2>3. Place(d, m) = Place(d, n) + 1
    BY <1>4, <1>10
  <2>4. ASSUME NEW k \in L, k <= m PROVE ids2[Place(d, k)] = d.pages[k].id
    <3>1. CASE k = m
      BY <2>1, <2>3, <3>1 DEF p
    <3>2. CASE k <= n
      BY <1>6, <1>8, <2>1, <3>2
    <3>3. QED
      BY <1>5, <2>4, <3>1, <3>2
  <2>5. DOMAIN urls2 = {d.pages[k].id : k \in {j \in L : j <= m}}
    <3>1. m <= m
      BY <1>2, <1>10
    <3>2. {j \in L : j <= m} = {j \in L : j <= n} \cup {m}
      BY <1>5, <1>10, <3>1
    <3>3. QED
      BY <1>8, <2>2, <3>2 DEF p
  <2>6. ASSUME NEW k \in L, k <= m
        PROVE  \E g \in L : FirstOf(d, d.pages[k].id, g) /\ urls2[d.pages[k].id] = d.pages[g].loc
    <3>1. CASE k <= n
      <4>1. PICK g \in L : FirstOf(d, d.pages[k].id, g) /\ urls[d.pages[k].id] = d.pages[g].loc
        BY <1>8, <3>1
      <4>2. d.pages[k].id \in DOMAIN urls
        BY <1>8, <3>1
      <4>3. QED
        BY <2>2, <4>1, <4>2
    <3>2. CASE k = m /\ p.id \in DOMAIN urls
      <4>1. PICK j \in L : j <= n /\ d.pages[j].id = p.id
        BY <1>8, <3>2
      <4>2. PICK g \in L : FirstOf(d, d.pages[j].id, g) /\ urls[d.pages[j].id] = d.pages[g].loc
        BY <1>8, <4>1
      <4>3. QED
        BY <2>2, <3>2, <4>1, <4>2 DEF p
    <3>3. CASE k = m /\ p.id \notin DOMAIN urls
      <4>1. \A j \in L : j <= n => d.pages[j].id # p.id
        BY <1>8, <3>3
      <4>2. \A j \in L : d.pages[j].id = p.id => m <= j
        <5> SUFFICES ASSUME NEW j \in L, d.pages[j].id = p.id PROVE m <= j
          OBVIOUS
        <5>1. ~(j <= n) /\ j \in Nat /\ m = n + 1
          BY <1>2, <4>1 DEF m
        <5>2. QED
          BY <5>1
      <4>3. FirstOf(d, p.id, m)
        BY <1>10, <4>2 DEF FirstOf, p, L
      <4>4. QED
        BY <1>10, <2>2, <3>3, <4>3 DEF p
    <3>4. QED
      BY <1>5, <2>6, <3>1, <3>2, <3>3
  <2>7. PagesDone(d, ids2, urls2, m)
    BY <2>1, <2>3, <2>4, <2>5, <2>6 DEF PagesDone, L
  <2>8. QED
    BY <1>3, <1>10, <2>7 DEF ids2, urls2, p, m
<1>11. QED
  BY <1>9, <1>10

(* One child of CommonData.                                                *)
LEMMA TemplatesNext ==
  ASSUME NEW d \in Docs, NEW n \in Nat, n + 1 \in 1 .. Len(d.common),
         NEW map, DOMAIN map = TemplateIds(d, n), NEW loc
  PROVE  LET e == d.common[n + 1]
         IN  IF e.tag = "TemplatePage" /\ e.id > 0
               THEN DOMAIN Insert(map, e.id, loc) = TemplateIds(d, n + 1)
               ELSE DOMAIN map = TemplateIds(d, n + 1)
<1> DEFINE m == n + 1
           e == d.common[m]
           K(x) == {k \in 1 .. Len(d.common) :
                      k <= x /\ d.common[k].tag = "TemplatePage" /\ d.common[k].id > 0}
<1>1. Len(d.common) \in Nat
  <2>1. d.common \in Seq(Common)
    BY DocFacts
  <2>2. QED
    BY <2>1
<1>2. \A k \in 1 .. Len(d.common) : k <= m <=> (k <= n \/ k = m)
  BY <1>1
<1>3. CASE e.tag = "TemplatePage" /\ e.id > 0
  <2>1. K(m) = K(n) \cup {m}
    BY <1>1, <1>2, <1>3
  <2>2. DOMAIN Insert(map, e.id, loc) = DOMAIN map \cup {e.id}
    BY DEF Insert
  <2>3. TemplateIds(d, m) = TemplateIds(d, n) \cup {e.id}
    <3>1. TemplateIds(d, m) = {d.common[i].id : i \in K(m)} /\ TemplateIds(d, n) = {d.common[i].id : i \in K(n)}
      BY DEF TemplateIds
    <3> HIDE DEF K, m
    <3>2. QED
      BY <2>1, <3>1
  <2>4. QED
    BY <1>3, <2>2, <2>3
<1>4. CASE ~(e.tag = "TemplatePage" /\ e.id > 0)
  <2>1. K(m) = K(n)
    BY <1>2, <1>4
  <2>2. TemplateIds(d, m) = TemplateIds(d, n)
    BY <2>1 DEF TemplateIds
  <2>3. QED
    BY <1>4, <2>2
<1>5. QED
  BY <1>3, <1>4

LEMMA TemplatesNone == ASSUME NEW d \in Docs PROVE DOMAIN <<>> = TemplateIds(d, 0)
<1>1. {k \in 1 .. Len(d.common) :
         k <= 0 /\ d.common[k].tag = "TemplatePage" /\ d.common[k].id > 0} = {}
  OBVIOUS
<1>2. QED
  BY <1>1 DEF TemplateIds

-----------------------------------------------------------------------------
(* The inductive invariant: what each phase has done so far.               *)

Open == {"common", "res", "pages", "annots", "document"}
NoPagesYet == pageno2pageid = <<>> /\ pageid2pageurl = <<>>
PagesAre(n) == PagesDone(doc, pageno2pageid, pageid2pageurl, n)
HasNotes == doc.annots # "" /\ doc.annots \in DOMAIN doc.notes
Notes == doc.notes[doc.annots]

(* No document is open: its lists are empty.                               *)
Closed ==
  phase \in {"closed", "bodies", "package"} =>
    NoPagesYet /\ id2templates = <<>> /\ pageid2annoturl = <<>>

InBodies ==
  phase = "bodies" =>
    /\ pkg \in Packages /\ rest \in Seq(Range(pkg))
    /\ \E n \in Nat : LeftOf(rest, pkg, n)

InCommon ==
  phase \in {"common", "res"} =>
    /\ NoPagesYet /\ pageid2annoturl = <<>> /\ rest \in Seq(Common)
    /\ \E n \in Nat : LeftOf(rest, doc.common, n) /\ DOMAIN id2templates = TemplateIds(doc, n)

HasTemplates ==
  phase \in {"pages", "annots", "document"} =>
    DOMAIN id2templates = TemplateIds(doc, Len(doc.common))

InPages ==
  phase = "pages" =>
    /\ doc.hasPages /\ pageid2annoturl = <<>> /\ rest \in Seq(PageEntry)
    /\ \E n \in Nat : LeftOf(rest, doc.pages, n) /\ PagesAre(n)

InAnnots ==
  phase = "annots" =>
    /\ doc.hasPages /\ PagesAre(Len(doc.pages)) /\ HasNotes
    /\ rest \in Seq(NoteEntry) /\ pageid2annoturl \in Seq(NoteEntry)
    /\ LeftOf(rest, Notes, Len(pageid2annoturl))
    /\ \A i \in 1 .. Len(pageid2annoturl) : pageid2annoturl[i] = Notes[i]

InDocument ==
  phase = "document" =>
    /\ doc.hasPages => PagesAre(Len(doc.pages)) /\ (HasNotes => pageid2annoturl = Notes)
    /\ ~doc.hasPages => NoPagesYet

Handles ==
  /\ phase \in Phases /\ doc_info \in Seq(Docs)
  /\ phase \in Open => doc \in Docs
  /\ phase \notin {"document", "dead"} => answer = NoAnswer

DocInv ==
  /\ Handles
  /\ Closed /\ InBodies /\ InCommon /\ HasTemplates /\ InPages /\ InAnnots /\ InDocument
  /\ PageOfTheIndex /\ OpeningDeathExplained

LEMMA InitDocInv == Init => DocInv
<1> SUFFICES ASSUME Init PROVE DocInv
  OBVIOUS
<1>1. Handles
  BY DEF Init, Handles, Phases, Open
<1>2. PageOfTheIndex
  BY DEF Init, PageOfTheIndex, NoAnswer
<1>3. QED
  BY <1>1, <1>2 DEF Init, DocInv, Closed, InBodies, InCommon, HasTemplates, InPages, InAnnots,
     InDocument, NoPagesYet, OpeningDeathExplained

(* Outside of a document there is no answer about a page.                  *)
LEMMA NoPageAsked == ASSUME answer = NoAnswer PROVE PageOfTheIndex
  BY DEF PageOfTheIndex, NoAnswer

LEMMA NoPageAskedNext == ASSUME answer' = NoAnswer PROVE PageOfTheIndex'
  BY DEF PageOfTheIndex, NoAnswer

(* A step of the parser that ends the process does so for a reason.        *)
LEMMA DieStep ==
  ASSUME DocInv, Die, phase \notin {"document", "dead"}, OpeningDeathExplained'
  PROVE  DocInv'
<1>1. answer' = NoAnswer /\ phase' = "dead" /\ doc_info' = doc_info
  BY DEF DocInv, Handles, Die, session
<1>2. Handles'
  BY <1>1 DEF DocInv, Handles, Phases, Open
<1>3. QED
  BY <1>1, <1>2, NoPageAskedNext DEF DocInv, Closed, InBodies, InCommon, HasTemplates, InPages,
     InAnnots, InDocument

LEMMA StutterStep == ASSUME DocInv, UNCHANGED vars PROVE DocInv'
<1>1. /\ UNCHANGED pkg /\ UNCHANGED systemFont /\ UNCHANGED doc_info /\ UNCHANGED doc
      /\ UNCHANGED phase /\ UNCHANGED rest /\ UNCHANGED items /\ UNCHANGED table
      /\ UNCHANGED pageno2pageid /\ UNCHANGED pageid2pageurl /\ UNCHANGED id2templates
      /\ UNCHANGED pageid2annoturl /\ UNCHANGED answer
  BY DEF vars, session, lists
<1>2. Handles' /\ Closed' /\ InBodies' /\ InCommon' /\ HasTemplates'
  BY <1>1 DEF DocInv, Handles, Closed, InBodies, InCommon, HasTemplates, NoPagesYet
<1>3. InPages' /\ InAnnots' /\ InDocument'
  BY <1>1 DEF DocInv, InPages, InAnnots, InDocument, NoPagesYet, PagesAre, HasNotes, Notes
<1>4. PageOfTheIndex' /\ OpeningDeathExplained'
  BY <1>1 DEF DocInv, PageOfTheIndex, OpeningDeathExplained
<1>5. QED
  BY <1>2, <1>3, <1>4 DEF DocInv

LEMMA OpenPackageStep == ASSUME DocInv, NEW p \in Packages, OpenPackage(p) PROVE DocInv'
<1>1. /\ phase = "closed" /\ phase' = "bodies" /\ pkg' = p /\ rest' = p /\ doc_info' = <<>>
      /\ UNCHANGED <<doc, pageno2pageid, pageid2pageurl, id2templates, pageid2annoturl, answer>>
  BY DEF OpenPackage, lists
<1>2. p \in Seq(Range(p))
  BY DocumentAssumption
<1>3. InBodies'
  <2>1. LeftOf(p, p, 0) /\ 0 \in Nat
    BY <1>2, LeftAll
  <2>2. QED
    BY <1>1, <1>2, <2>1 DEF InBodies
<1>4. answer' = NoAnswer
  BY <1>1 DEF DocInv, Handles
<1>5. Handles' /\ Closed'
  BY <1>1, <1>4 DEF DocInv, Handles, Closed, NoPagesYet, Phases, Parsing, Open
<1>6. QED
  BY <1>1, <1>3, <1>4, <1>5, NoPageAskedNext DEF DocInv, InCommon, HasTemplates, InPages, InAnnots,
     InDocument, OpeningDeathExplained

LEMMA ParseDocBodyStep == ASSUME DocInv, ParseDocBody PROVE DocInv'
<1> DEFINE b == Head(rest)
<1>1. phase = "bodies" /\ rest # <<>> /\ pkg \in Packages /\ rest \in Seq(Range(pkg))
  BY DEF ParseDocBody, DocInv, InBodies
<1>2. PICK n \in Nat : LeftOf(rest, pkg, n)
  BY <1>1 DEF DocInv, InBodies
<1>3. pkg \in Seq(Range(pkg))
  BY <1>1, DocumentAssumption
<1>4. /\ n + 1 \in 1 .. Len(pkg) /\ b = pkg[n + 1]
      /\ Tail(rest) \in Seq(Range(pkg)) /\ LeftOf(Tail(rest), pkg, n + 1)
  BY <1>1, <1>2, <1>3, LeftNext
<1>5. CASE UNCHANGED vars
  BY <1>5, StutterStep
<1>6. CASE b.info = "noid" /\ Die
  <2>1. pkg' = pkg
    BY <1>6 DEF Die, session
  <2>2. OpeningDeathExplained'
    BY <1>4, <1>6, <2>1 DEF OpeningDeathExplained
  <2>3. QED
    BY <1>1, <1>6, <2>2, DieStep
<1>7. CASE /\ doc_info' = Append(doc_info, b.doc) /\ rest' = Tail(rest)
           /\ UNCHANGED <<pkg, systemFont, doc, phase, items, lists, table, answer>>
  <2>1. /\ UNCHANGED pkg /\ UNCHANGED phase /\ UNCHANGED answer /\ UNCHANGED doc
        /\ UNCHANGED pageno2pageid /\ UNCHANGED pageid2pageurl /\ UNCHANGED id2templates
        /\ UNCHANGED pageid2annoturl
    BY <1>7 DEF lists
  <2>2. b.doc \in Docs
    BY <1>1, <1>4 DEF Docs
  <2>3. doc_info' \in Seq(Docs)
    BY <1>7, <2>2 DEF DocInv, Handles
  <2>4. InBodies'
    BY <1>1, <1>4, <1>7, <2>1 DEF InBodies
  <2>5. answer' = NoAnswer
    BY <1>1, <2>1 DEF DocInv, Handles
  <2>6. Handles' /\ Closed'
    BY <1>1, <2>1, <2>3, <2>5 DEF DocInv, Handles, Closed, NoPagesYet
  <2>7. QED
    BY <1>1, <2>1, <2>4, <2>5, <2>6, NoPageAskedNext DEF DocInv, InCommon, HasTemplates, InPages, InAnnots,
       InDocument, OpeningDeathExplained, Open
<1>8. QED
  BY <1>5, <1>6, <1>7 DEF ParseDocBody

LEMMA OpenPackageReturnsStep == ASSUME DocInv, OpenPackageReturns PROVE DocInv'
<1>1. /\ phase = "bodies" /\ phase' = "package"
      /\ UNCHANGED <<doc_info, pageno2pageid, pageid2pageurl, id2templates, pageid2annoturl, answer>>
  BY DEF OpenPackageReturns, lists, session
<1>2. answer' = NoAnswer
  BY <1>1 DEF DocInv, Handles
<1>3. Handles' /\ Closed'
  BY <1>1, <1>2 DEF DocInv, Handles, Closed, NoPagesYet, Phases, Open
<1>4. QED
  BY <1>1, <1>2, <1>3, NoPageAskedNext DEF DocInv, InBodies, InCommon, HasTemplates, InPages, InAnnots,
     InDocument, OpeningDeathExplained

LEMMA OpenDocumentStep ==
  ASSUME DocInv, NEW i \in 1 .. Len(doc_info), OpenDocument(i) PROVE DocInv'
<1> DEFINE d == doc_info[i]
<1>1. /\ phase = "package" /\ phase' = "common" /\ doc' = d /\ rest' = d.common
      /\ UNCHANGED <<pkg, doc_info, pageno2pageid, pageid2pageurl, id2templates, pageid2annoturl, answer>>
  BY DEF OpenDocument, lists
<1>2. d \in Docs
  BY DEF DocInv, Handles
<1>3. d.common \in Seq(Common)
  BY <1>2, DocFacts
<1>4. answer' = NoAnswer
  BY <1>1 DEF DocInv, Handles
<1>5. InCommon'
  <2>1. NoPagesYet /\ id2templates = <<>> /\ pageid2annoturl = <<>>
    BY <1>1 DEF DocInv, Closed
  <2> HIDE DEF d
  <2>2. LeftOf(d.common, d.common, 0) /\ 0 \in Nat
    BY <1>3, LeftAll
  <2>3. DOMAIN id2templates = TemplateIds(d, 0)
    BY <1>2, <2>1, TemplatesNone
  <2>4. QED
    BY <1>1, <1>3, <2>1, <2>2, <2>3 DEF InCommon, NoPagesYet
<1>6. Handles'
  BY <1>1, <1>2, <1>4 DEF DocInv, Handles, Phases, Parsing, Open
<1>7. QED
  BY <1>1, <1>4, <1>5, <1>6, NoPageAskedNext DEF DocInv, Closed, InBodies, HasTemplates, InPages, InAnnots,
     InDocument, OpeningDeathExplained

LEMMA ParseCommonDataStep == ASSUME DocInv, ParseCommonData PROVE DocInv'
<1> DEFINE e == Head(rest)
           unasked == e.tag = "Res" \/ e.id > 0
<1>1. phase = "common" /\ rest # <<>> /\ rest \in Seq(Common) /\ NoPagesYet /\ pageid2annoturl = <<>>
  BY DEF ParseCommonData, DocInv, InCommon
<1>2. PICK n \in Nat : LeftOf(rest, doc.common, n) /\ DOMAIN id2templates = TemplateIds(doc, n)
  BY <1>1 DEF DocInv, InCommon
<1>3. doc \in Docs /\ doc.common \in Seq(Common)
  BY <1>1, DocFacts DEF DocInv, Handles, Open
<1>4. /\ n + 1 \in 1 .. Len(doc.common) /\ e = doc.common[n + 1]
      /\ Tail(rest) \in Seq(Common) /\ LeftOf(Tail(rest), doc.common, n + 1)
  BY <1>1, <1>2, <1>3, LeftNext
<1>5. CASE unasked /\ e.loc = "" /\ Die
  <2>1. doc' = doc
    BY <1>5 DEF Die, session
  <2>2. OpeningDeathExplained'
    BY <1>4, <1>5, <2>1 DEF OpeningDeathExplained
  <2>3. QED
    BY <1>1, <1>5, <2>2, DieStep
<1>6. CASE ~(unasked /\ e.loc = "")
  <2>1. /\ rest' = Tail(rest) /\ phase' \in {"res", "common"}
        /\ id2templates' = IF e.tag = "TemplatePage" /\ e.id > 0
                             THEN Insert(id2templates, e.id, e.loc) ELSE id2templates
        /\ UNCHANGED <<pkg, doc, doc_info, pageno2pageid, pageid2pageurl, pageid2annoturl, answer>>
    BY <1>1, <1>6 DEF ParseCommonData, session
  <2>2. DOMAIN id2templates' = TemplateIds(doc, n + 1)
    <3> HIDE DEF e
    <3>1. CASE e.tag = "TemplatePage" /\ e.id > 0
      BY <1>2, <1>3, <1>4, <2>1, <3>1, TemplatesNext
    <3>2. CASE ~(e.tag = "TemplatePage" /\ e.id > 0)
      BY <1>2, <1>3, <1>4, <2>1, <3>2, TemplatesNext
    <3>3. QED
      BY <3>1, <3>2
  <2>3. InCommon'
    <3>1. n + 1 \in Nat
      OBVIOUS
    <3>2. LeftOf(rest', doc'.common, n + 1) /\ DOMAIN id2templates' = TemplateIds(doc', n + 1)
      BY <1>4, <2>1, <2>2
    <3>3. QED
      BY <1>1, <1>4, <2>1, <3>1, <3>2 DEF InCommon, NoPagesYet
  <2>4. answer' = NoAnswer
    BY <1>1, <2>1 DEF DocInv, Handles
  <2>5. Handles'
    BY <1>3, <2>1, <2>4 DEF DocInv, Handles, Phases, Parsing, Open
  <2>6. QED
    BY <2>1, <2>3, <2>4, <2>5, NoPageAskedNext DEF DocInv, Closed, InBodies, HasTemplates, InPages, InAnnots,
       InDocument, OpeningDeathExplained
<1>7. QED
  BY <1>5, <1>6 DEF ParseCommonData

LEMMA ParseResStep == ASSUME DocInv, ParseRes \/ ParseResReturns PROVE DocInv'
<1>1. /\ phase = "res" /\ phase' \in {"res", "common"}
      /\ UNCHANGED <<pkg, doc, doc_info, rest, pageno2pageid, pageid2pageurl, id2templates,
                     pageid2annoturl, answer>>
  BY DEF ParseRes, ParseResReturns, session, lists
<1>2. answer' = NoAnswer
  BY <1>1 DEF DocInv, Handles
<1>3. InCommon'
  BY <1>1 DEF DocInv, InCommon, NoPagesYet
<1>4. Handles'
  BY <1>1, <1>2 DEF DocInv, Handles, Phases, Parsing, Open
<1>5. QED
  BY <1>1, <1>2, <1>3, <1>4, NoPageAskedNext DEF DocInv, Closed, InBodies, HasTemplates, InPages, InAnnots,
     InDocument, OpeningDeathExplained

LEMMA ParseCommonDataReturnsStep == ASSUME DocInv, ParseCommonDataReturns PROVE DocInv'
<1>1. /\ phase = "common" /\ rest = <<>> /\ NoPagesYet /\ pageid2annoturl = <<>>
      /\ UNCHANGED <<pkg, doc, doc_info, pageno2pageid, pageid2pageurl, id2templates,
                     pageid2annoturl, answer>>
  BY DEF ParseCommonDataReturns, DocInv, InCommon, session, lists
<1>2. doc \in Docs /\ doc.common \in Seq(Common) /\ doc.pages \in Seq(PageEntry)
  BY <1>1, DocFacts DEF DocInv, Handles, Open
<1>3. DOMAIN id2templates = TemplateIds(doc, Len(doc.common))
  <2>1. PICK n \in Nat : LeftOf(rest, doc.common, n) /\ DOMAIN id2templates = TemplateIds(doc, n)
    BY <1>1 DEF DocInv, InCommon
  <2>2. n = Len(doc.common)
    BY <1>1, <1>2, <2>1, LeftNone
  <2>3. QED
    BY <2>1, <2>2
<1>4. answer' = NoAnswer
  BY <1>1 DEF DocInv, Handles
<1>5. CASE doc.hasPages
  <2>1. phase' = "pages" /\ rest' = doc.pages
    BY <1>5 DEF ParseCommonDataReturns
  <2>2. InPages'
    <3>1. LeftOf(doc.pages, doc.pages, 0) /\ 0 \in Nat
      BY <1>2, LeftAll
    <3>2. PagesAre(0)
      BY <1>1, <1>2, PagesNone DEF PagesAre, NoPagesYet
    <3>3. PagesAre(0)'
      BY <1>1, <3>2 DEF PagesAre
    <3>4. QED
      BY <1>1, <1>2, <1>5, <2>1, <3>1, <3>3 DEF InPages
  <2>3. Handles' /\ HasTemplates'
    BY <1>1, <1>2, <1>3, <1>4, <2>1 DEF DocInv, Handles, HasTemplates, Phases, Parsing, Open
  <2>4. QED
    BY <1>4, <2>1, <2>2, <2>3, NoPageAskedNext DEF DocInv, Closed, InBodies, InCommon, InAnnots,
       InDocument, OpeningDeathExplained
<1>6. CASE ~doc.hasPages
  <2>1. phase' = "document"
    BY <1>6 DEF ParseCommonDataReturns
  <2>2. InDocument'
    BY <1>1, <1>6, <2>1 DEF InDocument, NoPagesYet
  <2>3. Handles' /\ HasTemplates'
    BY <1>1, <1>2, <1>3, <1>4, <2>1 DEF DocInv, Handles, HasTemplates, Phases, Open
  <2>4. QED
    BY <1>4, <2>1, <2>2, <2>3, NoPageAskedNext DEF DocInv, Closed, InBodies, InCommon, InPages, InAnnots,
       OpeningDeathExplained
<1>7. QED
  BY <1>5, <1>6

LEMMA ParsePageStep == ASSUME DocInv, ParsePage PROVE DocInv'
<1> DEFINE p == Head(rest)
<1>1. /\ phase = "pages" /\ rest # <<>> /\ rest \in Seq(PageEntry) /\ doc.hasPages
      /\ pageid2annoturl = <<>>
      /\ rest' = Tail(rest)
      /\ UNCHANGED <<pkg, doc, doc_info, phase, id2templates, pageid2annoturl, answer>>
  BY DEF ParsePage, DocInv, InPages, session
<1>2. PICK n \in Nat : LeftOf(rest, doc.pages, n) /\ PagesAre(n)
  BY <1>1 DEF DocInv, InPages
<1>3. doc \in Docs /\ doc.pages \in Seq(PageEntry)
  BY <1>1, DocFacts DEF DocInv, Handles, Open
<1>4. /\ n + 1 \in 1 .. Len(doc.pages) /\ p = doc.pages[n + 1]
      /\ Tail(rest) \in Seq(PageEntry) /\ LeftOf(Tail(rest), doc.pages, n + 1)
  BY <1>1, <1>2, <1>3, LeftNext
<1>5. IF p.id # NoId /\ p.loc # ""
        THEN /\ pageno2pageid' = Append(pageno2pageid, p.id)
             /\ pageid2pageurl' = Insert(pageid2pageurl, p.id, p.loc)
        ELSE UNCHANGED <<pageno2pageid, pageid2pageurl>>
  BY DEF ParsePage
<1>6. PagesDone(doc, pageno2pageid', pageid2pageurl', n + 1)
  <2> HIDE DEF p
  <2>1. PagesDone(doc, pageno2pageid, pageid2pageurl, n)
    BY <1>2 DEF PagesAre
  <2>2. CASE p.id # NoId /\ p.loc # ""
    BY <1>3, <1>4, <1>5, <2>1, <2>2, PagesNext
  <2>3. CASE ~(p.id # NoId /\ p.loc # "")
    BY <1>3, <1>4, <1>5, <2>1, <2>3, PagesNext
  <2>4. QED
    BY <2>2, <2>3
<1>7. InPages'
  <2>1. n + 1 \in Nat /\ LeftOf(rest', doc'.pages, n + 1) /\ PagesAre(n + 1)'
    BY <1>1, <1>4, <1>6 DEF PagesAre
  <2>2. QED
    BY <1>1, <1>4, <2>1 DEF InPages
<1>8. answer' = NoAnswer
  BY <1>1 DEF DocInv, Handles
<1>9. Handles' /\ HasTemplates'
  BY <1>1, <1>3, <1>8 DEF DocInv, Handles, HasTemplates, Open
<1>10. QED
  BY <1>1, <1>7, <1>8, <1>9, NoPageAskedNext DEF DocInv, Closed, InBodies, InCommon, InAnnots,
     InDocument, OpeningDeathExplained

LEMMA ParseAnnotationsStep == ASSUME DocInv, ParseAnnotations PROVE DocInv'
<1>1. /\ phase = "pages" /\ rest = <<>> /\ doc.hasPages /\ pageid2annoturl = <<>>
      /\ UNCHANGED <<pkg, doc, doc_info, pageno2pageid, pageid2pageurl, id2templates,
                     pageid2annoturl, answer>>
  BY DEF ParseAnnotations, DocInv, InPages, session, lists
<1>2. doc \in Docs /\ doc.pages \in Seq(PageEntry)
  BY <1>1, DocFacts DEF DocInv, Handles, Open
<1>3. PagesAre(Len(doc.pages))
  <2>1. PICK n \in Nat : LeftOf(rest, doc.pages, n) /\ PagesAre(n)
    BY <1>1 DEF DocInv, InPages
  <2>2. n = Len(doc.pages)
    BY <1>1, <1>2, <2>1, LeftNone
  <2>3. QED
    BY <2>1, <2>2
<1>4. PagesAre(Len(doc.pages))'
  BY <1>1, <1>3 DEF PagesAre
<1>5. answer' = NoAnswer
  BY <1>1 DEF DocInv, Handles
<1>6. CASE HasNotes
  <2>1. phase' = "annots" /\ rest' = Notes /\ HasNotes' /\ Notes' = Notes
    BY <1>1, <1>6 DEF ParseAnnotations, HasNotes, Notes
  <2>2. Notes \in Seq(NoteEntry)
    BY <1>2, <1>6, DocFacts DEF HasNotes, Notes
  <2>3. InAnnots'
    <3>1. pageid2annoturl' = <<>> /\ <<>> \in Seq(NoteEntry) /\ Len(<<>>) = 0
      BY <1>1
    <3>2. LeftOf(Notes, Notes, 0)
      BY <2>2, LeftAll
    <3>3. QED
      BY <1>1, <1>4, <2>1, <2>2, <3>1, <3>2 DEF InAnnots
  <2>4. Handles' /\ HasTemplates'
    BY <1>1, <1>2, <1>5, <2>1 DEF DocInv, Handles, HasTemplates, Phases, Parsing, Open
  <2>5. QED
    BY <1>5, <2>1, <2>3, <2>4, NoPageAskedNext DEF DocInv, Closed, InBodies, InCommon, InPages,
       InDocument, OpeningDeathExplained
<1>7. CASE ~HasNotes
  <2>1. phase' = "document" /\ ~HasNotes'
    BY <1>1, <1>7 DEF ParseAnnotations, HasNotes
  <2>2. InDocument'
    BY <1>1, <1>4, <2>1 DEF InDocument
  <2>3. Handles' /\ HasTemplates'
    BY <1>1, <1>2, <1>5, <2>1 DEF DocInv, Handles, HasTemplates, Phases, Open
  <2>4. QED
    BY <1>5, <2>1, <2>2, <2>3, NoPageAskedNext DEF DocInv, Closed, InBodies, InCommon, InPages, InAnnots,
       OpeningDeathExplained
<1>8. QED
  BY <1>6, <1>7

LEMMA ParseFileLocStep == ASSUME DocInv, ParseFileLoc PROVE DocInv'
<1>1. CASE UNCHANGED vars
  BY <1>1, StutterStep
<1>2. CASE Head(rest).loc # ""
  <2> DEFINE n == Len(pageid2annoturl)
             x == Head(rest)
             url2 == Append(pageid2annoturl, x)
  <2>1. /\ phase = "annots" /\ rest # <<>> /\ doc.hasPages /\ HasNotes
        /\ PagesAre(Len(doc.pages)) /\ rest \in Seq(NoteEntry) /\ pageid2annoturl \in Seq(NoteEntry)
        /\ LeftOf(rest, Notes, n) /\ \A i \in 1 .. n : pageid2annoturl[i] = Notes[i]
    BY <1>2 DEF ParseFileLoc, DocInv, InAnnots
  <2>2. /\ pageid2annoturl' = url2 /\ rest' = Tail(rest)
        /\ UNCHANGED <<pkg, doc, doc_info, phase, pageno2pageid, pageid2pageurl, id2templates, answer>>
    BY <1>2 DEF ParseFileLoc, session
  <2>3. doc \in Docs /\ Notes \in Seq(NoteEntry)
    BY <2>1, DocFacts DEF DocInv, Handles, Open, HasNotes, Notes
  <2>4. n \in Nat /\ x \in NoteEntry
    BY <2>1
  <2>5. /\ n + 1 \in 1 .. Len(Notes) /\ x = Notes[n + 1]
        /\ Tail(rest) \in Seq(NoteEntry) /\ LeftOf(Tail(rest), Notes, n + 1)
    <3> HIDE DEF n
    <3>1. QED
      BY <2>1, <2>3, <2>4, LeftNext
  <2>6. /\ url2 \in Seq(NoteEntry) /\ Len(url2) = n + 1
        /\ \A i \in 1 .. n + 1 : url2[i] = IF i = n + 1 THEN x ELSE pageid2annoturl[i]
    BY <2>1, <2>4
  <2>7. \A i \in 1 .. n + 1 : url2[i] = Notes[i]
    <3> HIDE DEF url2, x, n
    <3>1. QED
      BY <2>1, <2>4, <2>5, <2>6
  <2>8. PagesAre(Len(doc.pages))' /\ HasNotes' /\ Notes' = Notes
    BY <2>1, <2>2 DEF PagesAre, HasNotes, Notes
  <2>9. InAnnots'
    <3> HIDE DEF url2, x, n
    <3>1. QED
      BY <2>1, <2>2, <2>5, <2>6, <2>7, <2>8 DEF InAnnots
  <2>10. answer' = NoAnswer
    BY <2>1, <2>2 DEF DocInv, Handles
  <2>11. Handles' /\ HasTemplates'
    BY <2>2, <2>3, <2>10 DEF DocInv, Handles, HasTemplates, Open
  <2>12. QED
    BY <2>1, <2>2, <2>9, <2>10, <2>11, NoPageAskedNext DEF DocInv, Closed, InBodies, InCommon, InPages,
       InDocument, OpeningDeathExplained
<1>3. QED
  BY <1>1, <1>2 DEF ParseFileLoc

LEMMA ParseAnnotationsReturnsStep == ASSUME DocInv, ParseAnnotationsReturns PROVE DocInv'
<1>1. /\ phase = "annots" /\ phase' = "document" /\ rest = <<>> /\ doc.hasPages /\ HasNotes
      /\ PagesAre(Len(doc.pages)) /\ pageid2annoturl \in Seq(NoteEntry)
      /\ LeftOf(rest, Notes, Len(pageid2annoturl))
      /\ \A i \in 1 .. Len(pageid2annoturl) : pageid2annoturl[i] = Notes[i]
      /\ UNCHANGED <<pkg, doc, doc_info, pageno2pageid, pageid2pageurl, id2templates,
                     pageid2annoturl, answer>>
  BY DEF ParseAnnotationsReturns, DocInv, InAnnots, session, lists
<1>2. doc \in Docs /\ Notes \in Seq(NoteEntry)
  BY <1>1, DocFacts DEF DocInv, Handles, Open, HasNotes, Notes
<1>3. pageid2annoturl = Notes
  <2>1. Len(pageid2annoturl) \in Nat
    BY <1>1
  <2>2. Len(pageid2annoturl) = Len(Notes)
    BY <1>1, <1>2, <2>1, LeftNone
  <2>3. QED
    BY <1>1, <1>2, <2>2
<1>4. InDocument'
  <2>1. PagesAre(Len(doc.pages))' /\ Notes' = Notes
    BY <1>1 DEF PagesAre, Notes
  <2>2. QED
    BY <1>1, <1>3, <2>1 DEF InDocument
<1>5. answer' = NoAnswer
  BY <1>1 DEF DocInv, Handles
<1>6. Handles' /\ HasTemplates'
  BY <1>1, <1>2, <1>5 DEF DocInv, Handles, HasTemplates, Phases, Open
<1>7. QED
  BY <1>1, <1>4, <1>5, <1>6, NoPageAskedNext DEF DocInv, Closed, InBodies, InCommon, InPages, InAnnots,
     OpeningDeathExplained

-----------------------------------------------------------------------------
(* The lookups.                                                            *)

(* A lookup leaves the lists alone; only its answer is new.                *)
LEMMA LookupStep ==
  ASSUME DocInv, phase = "document", PageOfTheIndex',
         UNCHANGED <<pkg, doc, doc_info, phase, rest, pageno2pageid, pageid2pageurl,
                     id2templates, pageid2annoturl>>
  PROVE  DocInv'
<1>1. phase' = "document"
  OBVIOUS
<1>2. Handles' /\ HasTemplates'
  BY <1>1 DEF DocInv, Handles, HasTemplates, Open
<1>3. InDocument'
  BY DEF DocInv, InDocument, NoPagesYet, PagesAre, HasNotes, Notes
<1>4. QED
  BY <1>1, <1>2, <1>3 DEF DocInv, Closed, InBodies, InCommon, InPages, InAnnots, OpeningDeathExplained

LEMMA FindStep ==
  ASSUME DocInv, NEW id \in Asked, FindFont(id) \/ \E kind \in Kinds : Find(kind, id)
  PROVE  DocInv'
<1>1. /\ phase = "document" /\ answer'.kind \in Kinds
      /\ UNCHANGED <<pkg, doc, doc_info, phase, rest, pageno2pageid, pageid2pageurl,
                     id2templates, pageid2annoturl>>
  BY DEF Find, FindFont, session, lists, Kinds
<1>2. PageOfTheIndex'
  BY <1>1 DEF PageOfTheIndex, Kinds
<1>3. QED
  BY <1>1, <1>2, LookupStep

LEMMA PageUrlStep ==
  ASSUME DocInv, NEW i \in 0 .. Len(pageno2pageid) + 1, PageUrl(i) PROVE DocInv'
<1>1. /\ phase = "document"
      /\ UNCHANGED <<pkg, doc, doc_info, phase, rest, pageno2pageid, pageid2pageurl,
                     id2templates, pageid2annoturl>>
  BY DEF PageUrl, session, lists
<1>2. PICK id \in IF i < Len(pageno2pageid) THEN {pageno2pageid[i + 1]}
                  ELSE DOMAIN pageid2pageurl \cup {NoId} :
        answer' = [kind |-> "Page", id |-> i,
                   found |-> IF i > Len(pageno2pageid) THEN Nothing
                             ELSE At(pageid2pageurl, id)]
  BY DEF PageUrl
<1>3. answer'.id = i /\ answer'.found = IF i > Len(pageno2pageid) THEN Nothing ELSE At(pageid2pageurl, id)
  BY <1>2
<1>4. doc \in Docs /\ doc.hasPages \in BOOLEAN /\ doc.pages \in Seq(PageEntry)
  BY <1>1, DocFacts DEF DocInv, Handles, Open
<1>5. CASE doc.hasPages
  <2> DEFINE L == ListedAt(doc)
             c == Len(doc.pages)
             ids == pageno2pageid
             urls == pageid2pageurl
  <2>1. PagesDone(doc, ids, urls, c)
    BY <1>1, <1>5 DEF DocInv, InDocument, PagesAre
  <2>2. c \in Nat /\ \A k \in L : k <= c
    <3>1. c \in Nat
      BY <1>4
    <3>2. L \subseteq 1 .. c
      BY <1>4, <3>1, PlaceFacts
    <3>3. QED
      BY <3>1, <3>2
  <2>3. Place(doc, c) = Cardinality(L) /\ Cardinality(L) \in Nat
    BY <1>4, <2>2, PlaceFacts
  <2>4. Len(ids) = Cardinality(L) /\ i \in Int
    BY <2>1, <2>3 DEF PagesDone
  <2>5. ASSUME NEW k \in L, Place(doc, k) = i + 1
        PROVE  \E m \in L : FirstOf(doc, doc.pages[k].id, m) /\ answer'.found = doc.pages[m].loc
    <3>1. Place(doc, k) \in 1 .. Place(doc, c)
      BY <1>4, <2>2, PlaceInRange
    <3>2. i < Len(ids)
      BY <2>3, <2>4, <2>5, <3>1
    <3>3. id = doc.pages[k].id
      <4>1. ids[Place(doc, k)] = doc.pages[k].id
        BY <2>1, <2>2 DEF PagesDone
      <4>2. QED
        BY <1>2, <2>5, <3>2, <4>1
    <3>4. id \in DOMAIN urls
      BY <2>1, <2>2, <3>3 DEF PagesDone
    <3>5. answer'.found = urls[id]
      <4>1. ~(i > Len(ids))
        BY <2>3, <2>4, <3>2
      <4>2. QED
        BY <1>3, <3>4, <4>1 DEF At
    <3>6. PICK m \in L : FirstOf(doc, doc.pages[k].id, m) /\ urls[doc.pages[k].id] = doc.pages[m].loc
      BY <2>1, <2>2 DEF PagesDone
    <3>7. QED
      BY <3>3, <3>5, <3>6
  <2>6. i > Cardinality(L) => answer'.found = Nothing
    BY <1>3, <2>4
  <2>7. PageOfTheIndex'
    <3>1. doc' = doc
      BY <1>1
    <3>2. QED
      BY <1>3, <1>5, <2>5, <2>6, <3>1 DEF PageOfTheIndex
  <2>8. QED
    BY <1>1, <2>7, LookupStep
<1>6. CASE ~doc.hasPages
  <2>1. Len(pageno2pageid) = 0
    BY <1>1, <1>6 DEF DocInv, InDocument, NoPagesYet
  <2>2. Cardinality({}) = 0
    BY FS_EmptySet
  <2>3. i > Cardinality({}) => answer'.found = Nothing
    BY <1>3, <2>1, <2>2
  <2>4. PageOfTheIndex'
    BY <1>1, <1>3, <1>6, <2>3 DEF PageOfTheIndex
  <2>5. QED
    BY <1>1, <2>4, LookupStep
<1>7. QED
  BY <1>5, <1>6

(* The first page of a document without pages: all its pages were entered, *)
(* so Document.xml has none.                                               *)
LEMMA PageUrlDiesStep == ASSUME DocInv, PageUrlDies PROVE DocInv'
<1>1. /\ phase = "document" /\ pageno2pageid = <<>> /\ phase' = "dead"
      /\ doc' = doc /\ doc_info' = doc_info
  BY DEF PageUrlDies, session
<1>2. answer'.kind = "Page" /\ answer'.id = 0
  BY DEF PageUrlDies
<1>3. ASSUME doc.hasPages PROVE ListedAt(doc) = {}
  <2>1. doc \in Docs /\ doc.pages \in Seq(PageEntry)
    BY <1>1, DocFacts DEF DocInv, Handles, Open
  <2>2. Len(doc.pages) \in Nat
    BY <2>1
  <2>3. Len(pageno2pageid) = Place(doc, Len(doc.pages))
    BY <1>1, <1>3 DEF DocInv, InDocument, PagesAre, PagesDone
  <2>4. Len(pageno2pageid) = 0
    BY <1>1
  <2>5. ASSUME NEW k \in ListedAt(doc) PROVE FALSE
    <3>1. ListedAt(doc) \subseteq 1 .. Len(doc.pages)
      BY <2>1, <2>2, PlaceFacts
    <3>2. k <= Len(doc.pages)
      BY <2>2, <3>1
    <3>3. Place(doc, k) \in 1 .. Place(doc, Len(doc.pages))
      BY <2>1, <2>2, <3>2, PlaceInRange
    <3>4. QED
      BY <2>3, <2>4, <3>3
  <2>6. QED
    BY <2>5
<1>4. OpeningDeathExplained'
  BY <1>1, <1>2, <1>3 DEF OpeningDeathExplained
<1>5. PageOfTheIndex'
  <2>1. PICK L : L = IF doc.hasPages THEN ListedAt(doc) ELSE {}
    OBVIOUS
  <2>2. L = {}
    BY <1>3, <2>1
  <2>3. Cardinality(L) = 0
    BY <2>2, FS_EmptySet
  <2>4. ~(answer'.id > Cardinality(L))
    BY <1>2, <2>3
  <2>5. L = IF doc'.hasPages THEN ListedAt(doc') ELSE {}
    BY <1>1, <2>1
  <2>6. QED
    BY <2>2, <2>4, <2>5 DEF PageOfTheIndex
<1>6. Handles'
  BY <1>1 DEF DocInv, Handles, Phases, Open
<1>7. QED
  BY <1>1, <1>4, <1>5, <1>6 DEF DocInv, Closed, InBodies, InCommon, HasTemplates, InPages,
     InAnnots, InDocument

LEMMA CloseStep == ASSUME DocInv, CloseDocument \/ ClosePackage PROVE DocInv'
<1>1. /\ phase' \in {"package", "closed"} /\ answer' = NoAnswer
      /\ pageno2pageid' = <<>> /\ pageid2pageurl' = <<>>
      /\ id2templates' = <<>> /\ pageid2annoturl' = <<>>
      /\ doc_info' = doc_info \/ doc_info' = <<>>
  BY DEF CloseDocument, ClosePackage, NoLists
<1>2. <<>> \in Seq(Docs)
  OBVIOUS
<1>3. Handles' /\ Closed'
  BY <1>1, <1>2 DEF DocInv, Handles, Closed, NoPagesYet, Phases, Open
<1>4. QED
  BY <1>1, <1>3, NoPageAskedNext DEF DocInv, InBodies, InCommon, HasTemplates, InPages, InAnnots,
     InDocument, OpeningDeathExplained

LEMMA NextDocInv == DocInv /\ [Next]_vars => DocInv'
<1> SUFFICES ASSUME DocInv, [Next]_vars PROVE DocInv'
  OBVIOUS
<1>1. CASE Parse
  BY <1>1, ParseDocBodyStep, OpenPackageReturnsStep, ParseCommonDataStep, ParseResStep,
     ParseCommonDataReturnsStep, ParsePageStep, ParseAnnotationsStep, ParseFileLocStep,
     ParseAnnotationsReturnsStep DEF Parse
<1>2. CASE UNCHANGED vars
  BY <1>2, StutterStep
<1>3. QED
  BY <1>1, <1>2, OpenPackageStep, OpenDocumentStep, FindStep, PageUrlStep,
     PageUrlDiesStep, CloseStep DEF Next

LEMMA DocInvariant == Spec => []DocInv
  BY InitDocInv, NextDocInv, PTL DEF Spec

-----------------------------------------------------------------------------
(* IDs up to Exact survive StringToFloat.  Without an operator for a       *)
(* property, induction is the search for the least counterexample.         *)

LEMMA LeastNat ==
  ASSUME NEW T, T \subseteq Nat, T # {}
  PROVE  \E x \in T : \A y \in T : x <= y
<1> DEFINE R == OpToRel(<, Nat)
<1>1. IsWellFoundedOn(R, Nat)
  BY NatLessThanWellFounded
<1>2. R = {ss \in Nat \X Nat : ss[1] < ss[2]}
  BY DEF OpToRel
<1> HIDE DEF R
<1>3. PICK x \in T : \A y \in T : ~ (<<y, x>> \in R)
  BY <1>1, WFMin
<1>4. \A y \in T : ~(y < x)
  BY <1>2, <1>3
<1>5. QED
  BY <1>4

(* One turn of StringToFloat, and its first turns.                         *)
Digit(f, n) == IF n = 0 THEN 0 ELSE Rounded[Rounded[10 * f[n \div 10]] + (n % 10)]
Reads(f, m) == f = [n \in 0 .. m |-> Digit(f, n)]

LEMMA Tenth == ASSUME NEW n \in Nat, n # 0 PROVE n \div 10 \in Nat /\ n \div 10 < n
  OBVIOUS

LEMMA ReadsValue ==
  ASSUME NEW f, NEW m \in Nat, Reads(f, m), NEW n \in 0 .. m PROVE f[n] = Digit(f, n)
  BY DEF Reads

LEMMA ReadsUnique ==
  ASSUME NEW f, NEW g, NEW m \in Nat, NEW k \in Nat, Reads(f, m), Reads(g, k),
         NEW n \in Nat, n <= m, n <= k
  PROVE  f[n] = g[n]
<1> DEFINE T == {j \in Nat : j <= m /\ j <= k /\ f[j] # g[j]}
<1>1. SUFFICES ASSUME T # {} PROVE FALSE
  OBVIOUS
<1>2. PICK x \in T : \A y \in T : x <= y
  BY <1>1, LeastNat
<1>3. x \in 0 .. m /\ x \in 0 .. k /\ f[x] # g[x] /\ x \in Nat
  BY <1>2
<1>4. f[x] = Digit(f, x) /\ g[x] = Digit(g, x)
  BY <1>3, ReadsValue
<1>5. x # 0
  BY <1>3, <1>4 DEF Digit
<1>6. x \div 10 \in Nat /\ x \div 10 < x
  BY <1>3, <1>5, Tenth
<1>7. f[x \div 10] = g[x \div 10]
  <2>1. x \div 10 \notin T
    BY <1>2, <1>3, <1>6
  <2>2. x \div 10 <= m /\ x \div 10 <= k
    BY <1>3, <1>6
  <2> QED BY <1>6, <2>1, <2>2
<1>8. QED
  BY <1>3, <1>4, <1>7 DEF Digit

LEMMA ReadsExists == ASSUME NEW m \in Nat PROVE \E f : Reads(f, m)
<1> DEFINE T == {j \in Nat : ~ \E f : Reads(f, j)}
<1>1. SUFFICES ASSUME T # {} PROVE FALSE
  OBVIOUS
<1>2. PICK x \in T : \A y \in T : x <= y
  BY <1>1, LeastNat
<1>3. x \in Nat /\ ~ \E f : Reads(f, x)
  BY <1>2
<1>4. CASE x = 0
  <2> DEFINE g == [n \in 0 .. 0 |-> 0]
  <2>1. g = [n \in 0 .. 0 |-> Digit(g, n)]
    BY DEF Digit
  <2> QED BY <1>3, <1>4, <2>1 DEF Reads
<1>5. CASE x # 0
  <2> DEFINE w == x - 1
  <2>1. w \in Nat /\ w \notin T
    BY <1>2, <1>3, <1>5
  <2>2. PICK f : Reads(f, w)
    BY <2>1
  <2> DEFINE g == [n \in 0 .. x |-> Digit(f, n)]
  <2>3. \A n \in 0 .. w : g[n] = f[n]
    BY <1>3, <2>1, <2>2, ReadsValue
  <2>4. \A n \in 0 .. x : Digit(f, n) = Digit(g, n)
    <3> SUFFICES ASSUME NEW n \in 0 .. x, n # 0 PROVE Digit(f, n) = Digit(g, n)
      BY DEF Digit
    <3>1. n \div 10 \in 0 .. w
      BY <1>3, Tenth
    <3>2. f[n \div 10] = g[n \div 10]
      BY <2>3, <3>1
    <3> HIDE DEF g
    <3> QED BY <3>2 DEF Digit
  <2>5. g = [n \in 0 .. x |-> Digit(g, n)]
    <3>1. \A n \in 0 .. x : g[n] = Digit(g, n)
      BY <2>4
    <3>2. DOMAIN g = 0 .. x /\ g = [n \in DOMAIN g |-> g[n]]
      OBVIOUS
    <3> HIDE DEF g
    <3> QED BY <3>1, <3>2
  <2> QED BY <1>3, <2>5 DEF Reads
<1>6. QED
  BY <1>4, <1>5

LEMMA ReadsAll == StringToFloat = [n \in Nat |-> Digit(StringToFloat, n)]
<1> DEFINE h(n) == CHOOSE f : Reads(f, n)
           F == [n \in Nat |-> h(n)[n]]
<1>1. \A n \in Nat : Reads(h(n), n)
  BY ReadsExists
<1> HIDE DEF h
<1>2. \A n \in Nat : F[n] = Digit(F, n)
  <2> SUFFICES ASSUME NEW n \in Nat PROVE F[n] = Digit(F, n)
    OBVIOUS
  <2>1. F[n] = Digit(h(n), n)
    BY <1>1, ReadsValue
  <2>2. CASE n = 0
    BY <2>1, <2>2 DEF Digit
  <2>3. CASE n # 0
    <3>1. n \div 10 \in Nat /\ n \div 10 < n
      BY <2>3, Tenth
    <3> DEFINE t == n \div 10
    <3>2. t \in Nat /\ t <= n /\ t <= t
      BY <3>1
    <3> HIDE DEF t
    <3>3. h(n)[t] = h(t)[t]
      BY <1>1, <3>2, ReadsUnique
    <3>4. F[t] = h(n)[t]
      BY <3>2, <3>3
    <3> HIDE DEF F
    <3> QED BY <2>1, <2>3, <3>4 DEF Digit, t
  <2> QED BY <2>2, <2>3
<1>3. F = [n \in Nat |-> Digit(F, n)]
  <2>1. DOMAIN F = Nat /\ F = [n \in DOMAIN F |-> F[n]]
    OBVIOUS
  <2> HIDE DEF F
  <2> QED BY <1>2, <2>1
<1>4. \E f : f = [n \in Nat |-> Digit(f, n)]
  BY <1>3
<1>5. StringToFloat = CHOOSE f : f = [n \in Nat |-> Digit(f, n)]
  BY DEF StringToFloat, Digit
<1>6. QED
  BY <1>4, <1>5

LEMMA PowerFacts == ASSUME NEW k \in 1 .. 30 PROVE 2 ^ k \in Nat \ {0}
<1> DEFINE N == Nat \ {0}
<1>1. /\ 2 ^ 1 \in N /\ 2 ^ 2 \in N /\ 2 ^ 3 \in N /\ 2 ^ 4 \in N /\ 2 ^ 5 \in N
      /\ 2 ^ 6 \in N /\ 2 ^ 7 \in N /\ 2 ^ 8 \in N /\ 2 ^ 9 \in N /\ 2 ^ 10 \in N
      /\ 2 ^ 11 \in N /\ 2 ^ 12 \in N /\ 2 ^ 13 \in N /\ 2 ^ 14 \in N /\ 2 ^ 15 \in N
      /\ 2 ^ 16 \in N /\ 2 ^ 17 \in N /\ 2 ^ 18 \in N /\ 2 ^ 19 \in N /\ 2 ^ 20 \in N
      /\ 2 ^ 21 \in N /\ 2 ^ 22 \in N /\ 2 ^ 23 \in N /\ 2 ^ 24 \in N /\ 2 ^ 25 \in N
      /\ 2 ^ 26 \in N /\ 2 ^ 27 \in N /\ 2 ^ 28 \in N /\ 2 ^ 29 \in N /\ 2 ^ 30 \in N
  OBVIOUS
<1>2. k \in {1, 2, 3, 4, 5, 6, 7, 8, 9, 10, 11, 12, 13, 14, 15,
             16, 17, 18, 19, 20, 21, 22, 23, 24, 25, 26, 27, 28, 29, 30}
  OBVIOUS
<1> HIDE DEF N
<1>3. 2 ^ k \in N
  BY <1>1, <1>2, Zenon
<1> QED BY <1>3 DEF N

LEMMA RoundedExact == ASSUME NEW v \in 0 .. Exact PROVE Rounded[v] = v
<1>1. v \in Nat /\ Exact \in Nat /\ Exact > 1 /\ Exact % 2 = 0
  BY DocumentAssumption
<1>2. CASE v < Exact
  <2>1. Ulp(v) = 1
    BY <1>2 DEF Ulp
  <2>2. v \div 1 = v /\ v % 1 = 0
    BY <1>1
  <2> QED BY <1>1, <2>1, <2>2 DEF Rounded
<1>3. CASE v = Exact
  <2> DEFINE U == {2 ^ k : k \in 1 .. 30}
             P(u) == v \div u \in (Exact \div 2) .. (Exact - 1)
  <2>1. 2 \in U
    <3>1. 2 ^ 1 = 2
      OBVIOUS
    <3> QED BY <3>1
  <2>2. P(2)
    BY <1>1, <1>3
  <2>3. U \subseteq Nat \ {0}
    BY PowerFacts
  <2>4. Ulp(v) = CHOOSE u \in U : P(u)
    BY <1>1, <1>3 DEF Ulp
  <2> HIDE DEF U
  <2>5. Ulp(v) \in Nat \ {0} /\ P(Ulp(v))
    BY <2>1, <2>2, <2>3, <2>4
  <2> DEFINE w == Ulp(v)
  <2>6. w = 2
    <3> DEFINE q == Exact \div w
               h == Exact \div 2
    <3>1. w \in Nat /\ w # 0 /\ q >= h /\ q <= Exact - 1 /\ q \in Nat /\ h \in Nat
      BY <1>1, <1>3, <2>5
    <3>2. w # 1
      BY <1>1, <3>1
    <3>3. q * w <= Exact /\ 2 * h = Exact
      BY <1>1, <3>1
    <3>4. h > 0
      BY <1>1, <3>1, <3>3
    <3> HIDE DEF q, h, w
    <3>5. w >= 3 => q * w >= q * 3
      BY <3>1
    <3> QED BY <1>1, <3>1, <3>2, <3>3, <3>4, <3>5
  <2>7. 2 * (v \div 2) = v /\ v % 2 = 0
    BY <1>1, <1>3
  <2> QED BY <1>1, <2>6, <2>7 DEF Rounded
<1> QED BY <1>1, <1>2, <1>3
LEMMA FloatExact == ASSUME NEW n \in 0 .. Exact PROVE StringToFloat[n] = n
<1> DEFINE T == {j \in 0 .. Exact : StringToFloat[j] # j}
<1>1. SUFFICES ASSUME T # {} PROVE FALSE
  OBVIOUS
<1>2. Exact \in Nat
  BY DocumentAssumption
<1>3. PICK x \in T : \A y \in T : x <= y
  <2>1. T \subseteq Nat
    BY <1>2
  <2> QED BY <1>1, <2>1, LeastNat
<1>4. x \in Nat /\ x <= Exact /\ StringToFloat[x] # x
  BY <1>2, <1>3
<1>5. StringToFloat[x] = Digit(StringToFloat, x)
  <2> DEFINE g == [k \in Nat |-> Digit(StringToFloat, k)]
  <2>1. g[x] = Digit(StringToFloat, x)
    BY <1>4
  <2> QED BY <2>1, ReadsAll
<1>6. x # 0
  BY <1>4, <1>5 DEF Digit
<1> DEFINE t == x \div 10
<1>7. t \in Nat /\ t < x /\ x = 10 * t + (x % 10) /\ x % 10 \in Nat
  BY <1>4, <1>6
<1> HIDE DEF t
<1>8. StringToFloat[t] = t
  <2>1. t \notin T
    BY <1>3, <1>4, <1>7
  <2> QED BY <1>2, <1>4, <1>7, <2>1
<1>9. Rounded[10 * t] = 10 * t /\ Rounded[x] = x
  <2>1. 10 * t \in 0 .. Exact /\ x \in 0 .. Exact
    BY <1>2, <1>4, <1>7
  <2> QED BY <2>1, RoundedExact
<1>10. QED
  BY <1>4, <1>5, <1>6, <1>7, <1>8, <1>9 DEF Digit, t

-----------------------------------------------------------------------------
(* The tables of resources.                                                *)

(* The places in front of item m + 1 of reference n.                       *)
Upto(d, n, m) == {p \in ItemPlaces(d) : p[1] < n \/ (p[1] = n /\ p[2] <= m)}

(* A table holds the first item of every ID among the places Q of usable   *)
(* items, and beside them at most the default font.                        *)
Firsts(d, font, map, Q) ==
  /\ \A id \in Nat : id \in DOMAIN map <=> \E p \in Q : ItemAt(d, p).id = id
  /\ \A id \in Nat : id \in DOMAIN map =>
       \E p \in Q : /\ ItemAt(d, p).id = id /\ map[id] = ItemAt(d, p)
                    /\ \A q \in Q : ItemAt(d, q).id = id => q = p \/ Before(p, q)
  /\ kDefaultFontID \in DOMAIN map => font /\ map[kDefaultFontID] = DefaultFont

Filled(Q) ==
  ExactIds(doc) =>
    \A kind \in Kinds : Firsts(doc, systemFont, table[kind], Q \cap UsableAt(doc, kind))

TableClosed == phase \in {"closed", "bodies", "package"} => table = EmptyTable

TableInCommon ==
  phase = "common" =>
    \E n \in Nat : LeftOf(rest, doc.common, n) /\ Filled(Upto(doc, n + 1, 0))

TableInRes ==
  phase = "res" =>
    \E n \in ResAt(doc), m \in Nat :
      /\ LeftOf(rest, doc.common, n)
      /\ items \in Seq(Item) /\ LeftOf(items, doc.res[doc.common[n].loc], m)
      /\ Filled(Upto(doc, n, m))

TableDone == phase \in {"pages", "annots", "document"} => Filled(ItemPlaces(doc))

TableInv ==
  /\ DOMAIN table = Kinds
  /\ TableClosed /\ TableInCommon /\ TableInRes /\ TableDone
  /\ OwnResource

LEMMA PlaceOf ==
  ASSUME NEW d \in Docs, NEW p \in ItemPlaces(d)
  PROVE  /\ p = <<p[1], p[2]>> /\ p[1] \in ResAt(d) /\ p[1] \in Nat /\ p[2] \in Nat
         /\ p[1] \in 1 .. Len(d.common) /\ p[2] \in 1 .. Len(d.res[d.common[p[1]].loc])
         /\ ItemAt(d, p) \in Item
<1>1. PICK i \in ResAt(d) : p \in {<<i, k>> : k \in 1 .. Len(d.res[d.common[i].loc])}
  BY DEF ItemPlaces
<1>2. PICK k \in 1 .. Len(d.res[d.common[i].loc]) : p = <<i, k>>
  BY <1>1
<1>3. d.common \in Seq(Common) /\ d.res[d.common[i].loc] \in Seq(Item)
  BY <1>1, DocFacts DEF ResAt
<1>4. i \in 1 .. Len(d.common) /\ i \in Nat /\ k \in Nat
  BY <1>3 DEF ResAt
<1>5. d.res[d.common[i].loc][k] \in Item
  BY <1>3
<1>6. p[1] = i /\ p[2] = k
  BY <1>2
<1>7. QED
  BY <1>2, <1>4, <1>5, <1>6 DEF ItemAt

LEMMA UptoStart == ASSUME NEW d \in Docs PROVE Upto(d, 1, 0) = {}
<1>1. \A p \in ItemPlaces(d) : ~(p[1] < 1 \/ (p[1] = 1 /\ p[2] <= 0))
  BY PlaceOf
<1>2. QED
  BY <1>1 DEF Upto

LEMMA UptoEnd == ASSUME NEW d \in Docs PROVE Upto(d, Len(d.common) + 1, 0) = ItemPlaces(d)
<1>1. \A p \in ItemPlaces(d) : p[1] < Len(d.common) + 1
  BY PlaceOf
<1>2. QED
  BY <1>1 DEF Upto

(* A child of CommonData that is no resource file has no places.           *)
LEMMA UptoSkip ==
  ASSUME NEW d \in Docs, NEW n \in Nat, n \notin ResAt(d)
  PROVE  Upto(d, n + 1, 0) = Upto(d, n, 0)
<1>1. \A p \in ItemPlaces(d) : p[1] # n /\ p[1] \in Nat /\ p[2] \in Nat /\ p[2] # 0
  BY PlaceOf
<1>2. QED
  BY <1>1 DEF Upto

LEMMA UptoFile ==
  ASSUME NEW d \in Docs, NEW n \in ResAt(d)
  PROVE  Upto(d, n, Len(d.res[d.common[n].loc])) = Upto(d, n + 1, 0)
<1>1. n \in Nat
  BY DEF ResAt
<1>2. \A p \in ItemPlaces(d) : /\ p[1] \in Nat /\ p[2] \in Nat /\ p[2] # 0
                               /\ p[2] <= Len(d.res[d.common[p[1]].loc])
  BY PlaceOf
<1>3. \A p \in ItemPlaces(d) :
        (p[1] < n \/ (p[1] = n /\ p[2] <= Len(d.res[d.common[n].loc])))
          <=> (p[1] < n + 1 \/ (p[1] = n + 1 /\ p[2] <= 0))
  BY <1>1, <1>2
<1>4. QED
  BY <1>3 DEF Upto

(* The next item comes behind all that are done.                           *)
LEMMA UptoNext ==
  ASSUME NEW d \in Docs, NEW n \in ResAt(d), NEW m \in Nat,
         m + 1 \in 1 .. Len(d.res[d.common[n].loc])
  PROVE  LET q == <<n, m + 1>>
         IN  /\ q \in ItemPlaces(d) /\ q \notin Upto(d, n, m)
             /\ Upto(d, n, m + 1) = Upto(d, n, m) \cup {q}
             /\ \A p \in Upto(d, n, m) : Before(p, q)
             /\ ItemAt(d, q) = d.res[d.common[n].loc][m + 1]
<1> DEFINE q == <<n, m + 1>>
<1>1. n \in Nat
  BY DEF ResAt
<1>2. q \in ItemPlaces(d)
  BY DEF ItemPlaces
<1>3. q[1] = n /\ q[2] = m + 1
  OBVIOUS
<1>4. \A p \in ItemPlaces(d) : p = <<p[1], p[2]>> /\ p[1] \in Nat /\ p[2] \in Nat
  BY PlaceOf
<1> HIDE DEF q
<1>5. \A p \in ItemPlaces(d) : p = q <=> (p[1] = n /\ p[2] = m + 1)
  BY <1>3, <1>4 DEF q
<1>6. \A p \in ItemPlaces(d) :
        (p[1] < n \/ (p[1] = n /\ p[2] <= m + 1))
          <=> ((p[1] < n \/ (p[1] = n /\ p[2] <= m)) \/ p = q)
  BY <1>1, <1>4, <1>5
<1>7. Upto(d, n, m + 1) = Upto(d, n, m) \cup {q}
  BY <1>2, <1>6 DEF Upto
<1>8. q \notin Upto(d, n, m)
  BY <1>1, <1>3 DEF Upto
<1>9. \A p \in Upto(d, n, m) : Before(p, q)
  BY <1>1, <1>3, <1>4 DEF Upto, Before
<1>10. QED
  BY <1>2, <1>3, <1>7, <1>8, <1>9 DEF ItemAt, q

LEMMA FirstsNone == ASSUME NEW d, NEW font PROVE Firsts(d, font, <<>>, {})
<1>1. DOMAIN <<>> = {}
  OBVIOUS
<1>2. QED
  BY <1>1 DEF Firsts, kDefaultFontID

(* An item that is entered comes second to those of its ID.                *)
LEMMA FirstsNext ==
  ASSUME NEW d, NEW font, NEW map, NEW Q, Firsts(d, font, map, Q),
         NEW q, \A p \in Q : Before(p, q), ItemAt(d, q).id \in Nat
  PROVE  Firsts(d, font, Insert(map, ItemAt(d, q).id, ItemAt(d, q)), Q \cup {q})
<1> DEFINE it == ItemAt(d, q)
           new == Insert(map, it.id, it)
           B == Q \cup {q}
<1>1. /\ DOMAIN new = DOMAIN map \cup {it.id}
      /\ \A id \in DOMAIN map : new[id] = map[id]
      /\ it.id \notin DOMAIN map => new[it.id] = it
  BY DEF Insert
<1>2. /\ \A id \in Nat : id \in DOMAIN map <=> \E p \in Q : ItemAt(d, p).id = id
      /\ \A id \in Nat : id \in DOMAIN map =>
           \E p \in Q : /\ ItemAt(d, p).id = id /\ map[id] = ItemAt(d, p)
                        /\ \A g \in Q : ItemAt(d, g).id = id => g = p \/ Before(p, g)
      /\ kDefaultFontID \in DOMAIN map => font /\ map[kDefaultFontID] = DefaultFont
  BY DEF Firsts
<1> HIDE DEF new
<1>3. \A id \in Nat : id \in DOMAIN new <=> \E p \in B : ItemAt(d, p).id = id
  BY <1>1, <1>2
<1>4. ASSUME NEW id \in Nat, id \in DOMAIN new
      PROVE  \E p \in B : /\ ItemAt(d, p).id = id /\ new[id] = ItemAt(d, p)
                          /\ \A g \in B : ItemAt(d, g).id = id => g = p \/ Before(p, g)
  <2>1. CASE id \in DOMAIN map
    <3>1. PICK p \in Q : /\ ItemAt(d, p).id = id /\ map[id] = ItemAt(d, p)
                         /\ \A g \in Q : ItemAt(d, g).id = id => g = p \/ Before(p, g)
      BY <1>2, <2>1
    <3>2. new[id] = ItemAt(d, p)
      BY <1>1, <2>1, <3>1
    <3>3. \A g \in B : ItemAt(d, g).id = id => g = p \/ Before(p, g)
      BY <3>1
    <3>4. QED
      BY <3>1, <3>2, <3>3
  <2>2. CASE id \notin DOMAIN map
    <3>1. id = it.id /\ new[id] = it
      BY <1>1, <1>4, <2>2
    <3>2. \A g \in Q : ItemAt(d, g).id # id
      BY <1>2, <2>2
    <3>3. QED
      BY <3>1, <3>2
  <2>3. QED
    BY <2>1, <2>2
<1>5. kDefaultFontID \in DOMAIN new => font /\ new[kDefaultFontID] = DefaultFont
  <2>1. it.id # kDefaultFontID
    BY DEF kDefaultFontID
  <2>2. QED
    BY <1>1, <1>2, <2>1
<1>6. QED
  BY <1>3, <1>4, <1>5 DEF Firsts, new

-----------------------------------------------------------------------------
(* What each action does to the tables.                                    *)

LEMMA NothingAskedNext == ASSUME answer' = NoAnswer PROVE OwnResource'
  BY DEF OwnResource, NoAnswer, Kinds

LEMMA SameUsable ==
  ASSUME UNCHANGED <<doc, systemFont>>, NEW kind
  PROVE  UsableAt(doc, kind)' = UsableAt(doc, kind)
  BY DEF UsableAt, Usable

LEMMA InitTableInv == Init => TableInv
<1> SUFFICES ASSUME Init PROVE TableInv
  OBVIOUS
<1>1. OwnResource
  BY DEF Init, OwnResource, NoAnswer, Kinds
<1>2. DOMAIN table = Kinds /\ TableClosed
  BY DEF Init, EmptyTable, TableClosed
<1>3. QED
  BY <1>1, <1>2 DEF Init, TableInv, TableInCommon, TableInRes, TableDone

(* A step that leaves the document and the tables alone.                   *)
LEMMA SameFilled ==
  ASSUME UNCHANGED <<doc, systemFont, table>>
  PROVE  \A Q : Filled(Q) => Filled(Q)'
<1> SUFFICES ASSUME NEW Q, Filled(Q) PROVE Filled(Q)'
  OBVIOUS
<1>1. \A kind \in Kinds : UsableAt(doc, kind)' = UsableAt(doc, kind)
  BY SameUsable
<1>2. QED
  BY <1>1 DEF Filled

LEMMA TableFrame ==
  ASSUME TableInv, OwnResource',
         UNCHANGED <<doc, systemFont, table, phase, rest, items>>
  PROVE  TableInv'
<1>1. \A kind \in Kinds : UsableAt(doc, kind)' = UsableAt(doc, kind)
  BY SameUsable
<1>2. TableInCommon' /\ TableDone'
  BY <1>1 DEF TableInv, TableInCommon, TableDone, Filled
<1>3. TableInRes'
  BY <1>1 DEF TableInv, TableInRes, Filled
<1>4. QED
  BY <1>2, <1>3 DEF TableInv, TableClosed

LEMMA TableStutter == ASSUME TableInv, UNCHANGED vars PROVE TableInv'
<1>1. /\ UNCHANGED <<doc, systemFont, table, phase, rest, items>> /\ answer' = answer
  BY DEF vars, session
<1>2. OwnResource'
  <2>1. Own(doc, answer.kind, answer.id)' = Own(doc, answer.kind, answer.id)
    BY <1>1 DEF Own, UsableAt, Usable
  <2>2. QED
    BY <1>1, <2>1 DEF TableInv, OwnResource
<1>3. QED
  BY <1>1, <1>2, TableFrame

(* Without a document, or at the end of the process.                       *)
LEMMA TableOutside ==
  ASSUME DocInv', DOMAIN table' = Kinds,
         \/ phase' = "dead" /\ answer'.kind \notin Kinds
         \/ phase' \in {"closed", "bodies", "package"} /\ table' = EmptyTable
  PROVE  TableInv'
<1>1. OwnResource'
  <2>1. CASE phase' = "dead" /\ answer'.kind \notin Kinds
    BY <2>1 DEF OwnResource
  <2>2. CASE phase' \in {"closed", "bodies", "package"}
    BY <2>2, NothingAskedNext DEF DocInv, Handles
  <2>3. QED
    BY <2>1, <2>2
<1>2. QED
  BY <1>1 DEF TableInv, TableClosed, TableInCommon, TableInRes, TableDone

(* The parser dies before anything is asked.                               *)
LEMMA TableDies ==
  ASSUME DocInv, phase \notin {"document", "dead"}, TableInv, DocInv', Die
  PROVE  TableInv'
<1>1. answer' = NoAnswer /\ phase' = "dead" /\ table' = table
  BY DEF DocInv, Handles, Die
<1>2. answer'.kind \notin Kinds
  BY <1>1 DEF NoAnswer, Kinds
<1>3. QED
  BY <1>1, <1>2, TableOutside DEF TableInv

LEMMA TablePackage ==
  ASSUME DocInv, TableInv, DocInv',
         \/ \E p \in Packages : OpenPackage(p)
         \/ ParseDocBody \/ OpenPackageReturns \/ CloseDocument \/ ClosePackage
  PROVE  TableInv'
<1>1. DOMAIN EmptyTable = Kinds
  BY DEF EmptyTable
<1>2. CASE UNCHANGED vars
  BY <1>2, TableStutter
<1>3. CASE ParseDocBody /\ Die
  BY <1>3, TableDies DEF ParseDocBody
<1>4. CASE \E p \in Packages : OpenPackage(p)
  BY <1>1, <1>4, TableOutside DEF OpenPackage, TableInv, TableClosed
<1>5. CASE ParseDocBody /\ table' = table /\ phase' = phase
  BY <1>1, <1>5, TableOutside DEF ParseDocBody, TableInv, TableClosed
<1>6. CASE OpenPackageReturns
  BY <1>1, <1>6, TableOutside DEF OpenPackageReturns, TableInv, TableClosed
<1>7. CASE CloseDocument \/ ClosePackage
  BY <1>1, <1>7, TableOutside DEF CloseDocument, ClosePackage, NoLists
<1>8. ParseDocBody => UNCHANGED vars \/ Die \/ (table' = table /\ phase' = phase)
  BY DEF ParseDocBody
<1>9. QED
  BY <1>2, <1>3, <1>4, <1>5, <1>6, <1>7, <1>8

LEMMA TableOpen ==
  ASSUME DocInv, DocInv', TableInv, NEW i \in 1 .. Len(doc_info), OpenDocument(i)
  PROVE  TableInv'
<1> DEFINE d == doc_info[i]
<1>1. /\ phase = "package" /\ phase' = "common" /\ doc' = d /\ rest' = d.common
      /\ table' = table /\ systemFont' = systemFont /\ answer' = answer
  BY DEF OpenDocument
<1>2. d \in Docs /\ table' = EmptyTable /\ answer' = NoAnswer
  BY <1>1 DEF DocInv, Handles, TableInv, TableClosed
<1>3. d.common \in Seq(Common)
  BY <1>2, DocFacts
<1> HIDE DEF d
<1>4. LeftOf(d.common, d.common, 0) /\ 0 \in Nat /\ Upto(d, 0 + 1, 0) = {}
  BY <1>2, <1>3, LeftAll, UptoStart
<1>5. \A kind \in Kinds : Firsts(d, systemFont', table'[kind], {})
  <2>1. \A kind \in Kinds : table'[kind] = <<>>
    BY <1>2 DEF EmptyTable
  <2>2. QED
    BY <2>1, FirstsNone
<1>6. \A kind \in Kinds : {} \cap UsableAt(doc, kind)' = {}
  OBVIOUS
<1>7. TableInCommon'
  <2>1. Filled(Upto(doc, 0 + 1, 0))'
    BY <1>1, <1>4, <1>5, <1>6 DEF Filled
  <2>2. QED
    BY <1>1, <1>4, <2>1 DEF TableInCommon
<1>8. DOMAIN table' = Kinds
  BY <1>2 DEF EmptyTable
<1>9. QED
  BY <1>1, <1>2, <1>7, <1>8, NothingAskedNext DEF TableInv, TableClosed, TableInRes, TableDone

LEMMA TableCommon ==
  ASSUME DocInv, DocInv', TableInv, ParseCommonData PROVE TableInv'
<1> DEFINE e == Head(rest)
           unasked == e.tag = "Res" \/ e.id > 0
           loc == e.loc
           read == e.tag = "Res" /\ loc \in DOMAIN doc.res
<1>1. phase = "common" /\ rest # <<>> /\ rest \in Seq(Common)
  BY DEF ParseCommonData, DocInv, InCommon
<1>2. PICK n \in Nat : LeftOf(rest, doc.common, n) /\ Filled(Upto(doc, n + 1, 0))
  BY <1>1 DEF TableInv, TableInCommon
<1>3. doc \in Docs /\ doc.common \in Seq(Common)
  BY <1>1, DocFacts DEF DocInv, Handles, Open
<1>4. /\ n + 1 \in 1 .. Len(doc.common) /\ e = doc.common[n + 1]
      /\ LeftOf(Tail(rest), doc.common, n + 1)
  BY <1>1, <1>2, <1>3, LeftNext
<1>5. CASE Die
  BY <1>1, <1>5, TableDies
<1>6. CASE ~(unasked /\ e.loc = "")
  <2>1. /\ rest' = Tail(rest)
        /\ IF read THEN phase' = "res" /\ items' = doc.res[loc] ELSE UNCHANGED <<phase, items>>
        /\ doc' = doc /\ systemFont' = systemFont /\ table' = table /\ answer' = answer
    BY <1>6 DEF ParseCommonData, session
  <2>2. answer' = NoAnswer /\ DOMAIN table' = Kinds
    BY <1>1, <2>1 DEF DocInv, Handles, TableInv
  <2>3. read <=> n + 1 \in ResAt(doc)
    BY <1>4 DEF ResAt
  <2>4. \A kind \in Kinds : UsableAt(doc, kind)' = UsableAt(doc, kind)
    BY <2>1, SameUsable
  <2>5. CASE read
    <3>1. doc.res[loc] \in Seq(Item) /\ LeftOf(doc.res[loc], doc.res[loc], 0) /\ 0 \in Nat
      BY <1>3, <2>5, DocFacts, LeftAll
    <3>2. Filled(Upto(doc, n + 1, 0))'
      BY <1>2, <2>1, <2>4 DEF Filled
    <3>3. TableInRes'
      BY <1>4, <2>1, <2>3, <2>5, <3>1, <3>2 DEF TableInRes
    <3>4. QED
      BY <2>1, <2>2, <2>5, <3>3, NothingAskedNext DEF TableInv, TableClosed, TableInCommon, TableDone
  <2>6. CASE ~read
    <3>1. Upto(doc, n + 1 + 1, 0) = Upto(doc, n + 1, 0) /\ n + 1 \in Nat
      BY <1>3, <2>3, <2>6, UptoSkip
    <3>2. Filled(Upto(doc, n + 1 + 1, 0))'
      BY <1>2, <2>1, <2>4, <3>1 DEF Filled
    <3>3. TableInCommon'
      BY <1>4, <2>1, <3>1, <3>2 DEF TableInCommon
    <3>4. QED
      BY <1>1, <2>1, <2>2, <2>6, <3>3, NothingAskedNext DEF TableInv, TableClosed, TableInRes, TableDone
  <2>7. QED
    BY <2>5, <2>6
<1>7. QED
  BY <1>5, <1>6 DEF ParseCommonData

LEMMA TableRes == ASSUME DocInv, DocInv', TableInv, ParseRes PROVE TableInv'
<1> DEFINE it == Head(items)
<1>1. /\ phase = "res" /\ phase' = "res" /\ items # <<>> /\ items' = Tail(items) /\ rest' = rest
      /\ doc' = doc /\ systemFont' = systemFont /\ answer' = answer
      /\ table' = IF Usable(doc, it)
                    THEN [table EXCEPT ![it.kind] = Insert(@, StringToFloat[it.id], it)]
                    ELSE table
  BY DEF ParseRes, session
<1>2. PICK n \in ResAt(doc), m \in Nat :
        /\ LeftOf(rest, doc.common, n)
        /\ items \in Seq(Item) /\ LeftOf(items, doc.res[doc.common[n].loc], m)
        /\ Filled(Upto(doc, n, m))
  BY <1>1 DEF TableInv, TableInRes
<1> DEFINE file == doc.res[doc.common[n].loc]
           q == <<n, m + 1>>
           Q == Upto(doc, n, m)
<1>3. doc \in Docs /\ file \in Seq(Item) /\ DOMAIN table = Kinds
  BY <1>1, <1>2, DocFacts DEF DocInv, Handles, Open, ResAt, TableInv
<1>4. /\ m + 1 \in 1 .. Len(file) /\ it = file[m + 1]
      /\ Tail(items) \in Seq(Item) /\ LeftOf(Tail(items), file, m + 1)
  <2> HIDE DEF file
  <2> QED BY <1>1, <1>2, <1>3, LeftNext DEF file
<1>5. /\ q \in ItemPlaces(doc) /\ Upto(doc, n, m + 1) = Q \cup {q}
      /\ (\A p \in Q : Before(p, q)) /\ ItemAt(doc, q) = it
  BY <1>3, <1>4, UptoNext
<1>6. it \in Item
  BY <1>3, <1>4
<1>7. answer' = NoAnswer
  BY <1>1 DEF DocInv, Handles
<1> HIDE DEF it, file, q, Q
<1>8. it.kind \in Kinds /\ it.id \in Nat \cup {NoId}
  BY <1>6 DEF Item
<1>9. DOMAIN table' = Kinds
  BY <1>1, <1>3
<1>10. \A kind \in Kinds : UsableAt(doc, kind)' = UsableAt(doc, kind)
  BY <1>1, SameUsable
<1>11. ASSUME ExactIds(doc), NEW kind \in Kinds
       PROVE  Firsts(doc, systemFont, table'[kind], (Q \cup {q}) \cap UsableAt(doc, kind))
  <2> DEFINE U == UsableAt(doc, kind)
  <2>1. Firsts(doc, systemFont, table[kind], Q \cap U)
    BY <1>2, <1>11 DEF Filled, Q
  <2>2. q \in U <=> (it.kind = kind /\ Usable(doc, it))
    BY <1>5 DEF UsableAt
  <2>3. CASE q \in U
    <3>1. it.id \in 0 .. Exact /\ it.id \in Nat
      <4>1. it.id # NoId
        BY <2>2, <2>3 DEF Usable
      <4>2. it.id <= Exact /\ Exact \in Nat
        BY <1>5, <1>11, DocumentAssumption DEF ExactIds
      <4>3. QED
        BY <1>8, <4>1, <4>2
    <3>2. StringToFloat[it.id] = it.id
      BY <3>1, FloatExact
    <3>3. table'[kind] = Insert(table[kind], it.id, it)
      BY <1>1, <1>3, <2>2, <2>3, <3>2
    <3>4. (Q \cup {q}) \cap U = (Q \cap U) \cup {q}
      BY <2>3
    <3>5. \A p \in Q \cap U : Before(p, q)
      BY <1>5
    <3> HIDE DEF U
    <3>6. Firsts(doc, systemFont, Insert(table[kind], it.id, it), (Q \cap U) \cup {q})
      BY <1>5, <2>1, <3>1, <3>5, FirstsNext
    <3>7. QED
      BY <3>3, <3>4, <3>6 DEF U
  <2>4. CASE q \notin U
    <3>1. table'[kind] = table[kind]
      BY <1>1, <1>3, <1>8, <2>2, <2>4
    <3>2. (Q \cup {q}) \cap U = Q \cap U
      BY <2>4
    <3>3. QED
      BY <2>1, <3>1, <3>2
  <2>5. QED
    BY <2>3, <2>4
<1>12. Filled(Upto(doc, n, m + 1))'
  BY <1>1, <1>5, <1>10, <1>11 DEF Filled
<1>13. TableInRes'
  <2>1. m + 1 \in Nat
    OBVIOUS
  <2>2. QED
    BY <1>1, <1>2, <1>4, <1>12, <2>1 DEF TableInRes, file
<1>14. QED
  BY <1>1, <1>7, <1>9, <1>13, NothingAskedNext DEF TableInv, TableClosed, TableInCommon, TableDone

LEMMA TableResReturns == ASSUME DocInv, DocInv', TableInv, ParseResReturns PROVE TableInv'
<1>1. /\ phase = "res" /\ phase' = "common" /\ items = <<>> /\ rest' = rest
      /\ doc' = doc /\ systemFont' = systemFont /\ table' = table /\ answer' = answer
  BY DEF ParseResReturns, session
<1>2. PICK n \in ResAt(doc), m \in Nat :
        /\ LeftOf(rest, doc.common, n)
        /\ items \in Seq(Item) /\ LeftOf(items, doc.res[doc.common[n].loc], m)
        /\ Filled(Upto(doc, n, m))
  BY <1>1 DEF TableInv, TableInRes
<1>3. /\ doc \in Docs /\ doc.res[doc.common[n].loc] \in Seq(Item)
      /\ n \in Nat
  BY <1>1, <1>2, DocFacts DEF DocInv, Handles, Open, ResAt
<1>4. m = Len(doc.res[doc.common[n].loc])
  BY <1>1, <1>2, <1>3, LeftNone
<1>5. Filled(Upto(doc, n + 1, 0))
  BY <1>2, <1>3, <1>4, UptoFile
<1>6. \A kind \in Kinds : UsableAt(doc, kind)' = UsableAt(doc, kind)
  BY <1>1, SameUsable
<1>7. TableInCommon'
  <2>1. Filled(Upto(doc, n + 1, 0))'
    BY <1>1, <1>5, <1>6 DEF Filled
  <2>2. QED
    BY <1>1, <1>2, <1>3, <2>1 DEF TableInCommon
<1>8. answer' = NoAnswer
  BY <1>1 DEF DocInv, Handles
<1>9. QED
  BY <1>1, <1>7, <1>8, NothingAskedNext DEF TableInv, TableClosed, TableInRes, TableDone

LEMMA TablePages ==
  ASSUME DocInv, DocInv', TableInv,
         \/ ParseCommonDataReturns \/ ParsePage \/ ParseAnnotations \/ ParseFileLoc
         \/ ParseAnnotationsReturns
  PROVE  TableInv'
<1>1. CASE UNCHANGED vars
  BY <1>1, TableStutter
<1>2. CASE ~UNCHANGED vars
  <2>1. /\ \/ phase = "common" /\ rest = <<>>
           \/ phase \in {"pages", "annots"}
        /\ phase' \in {"pages", "annots", "document"}
        /\ doc' = doc /\ systemFont' = systemFont /\ table' = table /\ answer' = answer
    BY <1>2 DEF ParseCommonDataReturns, ParsePage, ParseAnnotations, ParseFileLoc,
       ParseAnnotationsReturns, session
  <2>2. Filled(ItemPlaces(doc))
    <3>1. CASE phase = "common" /\ rest = <<>>
      <4>1. PICK n \in Nat : LeftOf(rest, doc.common, n) /\ Filled(Upto(doc, n + 1, 0))
        BY <3>1 DEF TableInv, TableInCommon
      <4>2. doc \in Docs /\ doc.common \in Seq(Common)
        BY <3>1, DocFacts DEF DocInv, Handles, Open
      <4>3. n = Len(doc.common)
        BY <3>1, <4>1, <4>2, LeftNone
      <4>4. QED
        BY <4>1, <4>2, <4>3, UptoEnd
    <3>2. CASE phase \in {"pages", "annots"}
      BY <3>2 DEF TableInv, TableDone
    <3>3. QED
      BY <2>1, <3>1, <3>2
  <2>3. \A kind \in Kinds : UsableAt(doc, kind)' = UsableAt(doc, kind)
    BY <2>1, SameUsable
  <2>4. TableDone'
    BY <2>1, <2>2, <2>3 DEF TableDone, Filled
  <2>5. answer' = NoAnswer
    BY <2>1 DEF DocInv, Handles
  <2>6. QED
    BY <2>1, <2>4, <2>5, NothingAskedNext DEF TableInv, TableClosed, TableInCommon, TableInRes
<1>3. QED
  BY <1>1, <1>2

-----------------------------------------------------------------------------
(* The lookups in the tables.                                              *)

LEMMA TableFind ==
  ASSUME TableInv, NEW kind \in Kinds, NEW id \in Asked, Find(kind, id) PROVE TableInv'
<1>1. /\ phase = "document" /\ kind # "Font"
      /\ answer' = [kind |-> kind, id |-> id, found |-> At(table[kind], StringToFloat[id])]
      /\ UNCHANGED <<doc, systemFont, table, phase, rest, items>>
  BY DEF Find, session
<1>2. answer'.kind = kind /\ answer'.id = id /\ answer'.found = At(table[kind], StringToFloat[id])
  BY <1>1
<1>3. UsableAt(doc, kind)' = UsableAt(doc, kind)
  BY <1>1, SameUsable
<1>4. OwnResource'
  <2> SUFFICES ASSUME ExactIds(doc), id <= Exact PROVE OwnResource'
    BY <1>1, <1>2 DEF OwnResource
  <2> DEFINE own == {p \in UsableAt(doc, kind) : ItemAt(doc, p).id = id}
  <2>1. id \in Nat /\ StringToFloat[id] = id
    BY DocumentAssumption, FloatExact
  <2>2. ItemPlaces(doc) \cap UsableAt(doc, kind) = UsableAt(doc, kind)
    BY DEF UsableAt
  <2>3. Firsts(doc, systemFont, table[kind], UsableAt(doc, kind))
    BY <1>1, <2>2 DEF TableInv, TableDone, Filled
  <2>4. Own(doc, answer.kind, answer.id)' = own
    BY <1>1, <1>2, <1>3 DEF Own
  <2>5. CASE own = {}
    <3>1. id \notin DOMAIN table[kind]
      BY <2>1, <2>3, <2>5 DEF Firsts
    <3>2. answer'.found = Nothing
      BY <1>2, <2>1, <3>1 DEF At
    <3>3. QED
      BY <1>1, <1>2, <2>4, <2>5, <3>2 DEF OwnResource
  <2>6. CASE own # {}
    <3>1. id \in DOMAIN table[kind]
      BY <2>1, <2>3, <2>6 DEF Firsts
    <3>2. PICK p \in UsableAt(doc, kind) :
            /\ ItemAt(doc, p).id = id /\ table[kind][id] = ItemAt(doc, p)
            /\ \A q \in UsableAt(doc, kind) : ItemAt(doc, q).id = id => q = p \/ Before(p, q)
      BY <2>1, <2>3, <3>1 DEF Firsts
    <3>3. p \in own /\ (\A q \in own \ {p} : Before(p, q)) /\ answer'.found = ItemAt(doc, p)
      BY <1>2, <2>1, <3>1, <3>2 DEF At
    <3> HIDE DEF own
    <3>4. QED
      BY <1>1, <1>2, <2>4, <2>6, <3>3 DEF OwnResource
  <2>7. QED
    BY <2>5, <2>6
<1>5. QED
  BY <1>1, <1>4, TableFrame

(* The default font has no ID that an item could have.                     *)
LEMMA FirstsDefault ==
  ASSUME NEW d, NEW font, NEW map, NEW Q, Firsts(d, font, map, Q), font
  PROVE  Firsts(d, font, Insert(map, kDefaultFontID, DefaultFont), Q)
<1> DEFINE new == Insert(map, kDefaultFontID, DefaultFont)
<1>1. /\ DOMAIN new = DOMAIN map \cup {kDefaultFontID}
      /\ \A id \in DOMAIN map : new[id] = map[id]
      /\ kDefaultFontID \notin DOMAIN map => new[kDefaultFontID] = DefaultFont
  BY DEF Insert
<1>2. kDefaultFontID \notin Nat
  BY DEF kDefaultFontID
<1> HIDE DEF new
<1>3. \A id \in Nat : id \in DOMAIN new <=> id \in DOMAIN map
  BY <1>1, <1>2
<1>4. \A id \in Nat : id \in DOMAIN map => new[id] = map[id]
  BY <1>1
<1>5. kDefaultFontID \in DOMAIN map => map[kDefaultFontID] = DefaultFont
  BY DEF Firsts
<1>6. new[kDefaultFontID] = DefaultFont
  BY <1>1, <1>5
<1>7. Firsts(d, font, new, Q)
  BY <1>3, <1>4, <1>6 DEF Firsts
<1>8. QED
  BY <1>7 DEF new

LEMMA TableFindFont ==
  ASSUME TableInv, NEW id \in Asked, FindFont(id) PROVE TableInv'
<1> DEFINE key == StringToFloat[id]
           fonts == table["Font"]
           more == IF key \notin DOMAIN fonts /\ systemFont
                     THEN Insert(fonts, kDefaultFontID, DefaultFont) ELSE fonts
<1>1. /\ phase = "document" /\ table' = [table EXCEPT !["Font"] = more]
      /\ answer' = [kind |-> "Font", id |-> id,
                    found |-> IF key \in DOMAIN more THEN more[key]
                              ELSE At(more, kDefaultFontID)]
      /\ UNCHANGED <<doc, systemFont, phase, rest, items>>
  BY DEF FindFont, session
<1>2. /\ answer'.kind = "Font" /\ answer'.id = id
      /\ answer'.found = IF key \in DOMAIN more THEN more[key] ELSE At(more, kDefaultFontID)
  BY <1>1
<1>3. \A kind \in Kinds : UsableAt(doc, kind)' = UsableAt(doc, kind)
  BY <1>1, SameUsable
<1>4. /\ "Font" \in Kinds /\ DOMAIN table = Kinds /\ DOMAIN table' = Kinds
      /\ table'["Font"] = more
      /\ \A kind \in Kinds : kind # "Font" => table'[kind] = table[kind]
  BY <1>1 DEF TableInv, Kinds
<1> DEFINE Q(kind) == ItemPlaces(doc) \cap UsableAt(doc, kind)
<1>5. ASSUME ExactIds(doc)
      PROVE  /\ Firsts(doc, systemFont, fonts, Q("Font"))
             /\ \A kind \in Kinds : Firsts(doc, systemFont, table'[kind], Q(kind))
  <2>1. \A kind \in Kinds : Firsts(doc, systemFont, table[kind], Q(kind))
    BY <1>1, <1>5 DEF TableInv, TableDone, Filled
  <2>2. Firsts(doc, systemFont, fonts, Q("Font"))
    BY <1>4, <2>1
  <2> HIDE DEF Q, fonts
  <2>3. Firsts(doc, systemFont, more, Q("Font"))
    BY <2>2, FirstsDefault
  <2>4. QED
    BY <1>4, <2>1, <2>2, <2>3
<1>6. TableDone'
  <2>1. Filled(ItemPlaces(doc))'
    BY <1>1, <1>3, <1>5 DEF Filled
  <2>2. QED
    BY <2>1 DEF TableDone
<1>7. OwnResource'
  <2> SUFFICES ASSUME ExactIds(doc), id <= Exact PROVE OwnResource'
    BY <1>1, <1>2 DEF OwnResource
  <2> DEFINE U == UsableAt(doc, "Font")
             own == {p \in U : ItemAt(doc, p).id = id}
  <2>1. id \in Nat /\ key = id
    BY DocumentAssumption, FloatExact
  <2>2. Q("Font") = U
    BY DEF UsableAt
  <2>3. Firsts(doc, systemFont, fonts, U) /\ Firsts(doc, systemFont, more, U)
    BY <1>4, <1>5, <2>2
  <2>4. Own(doc, answer.kind, answer.id)' = own
    BY <1>1, <1>2, <1>3, <1>4 DEF Own
  <2>5. CASE own = {}
    <3>1. id \notin DOMAIN more /\ id \notin DOMAIN fonts
      <4> HIDE DEF more, fonts, U
      <4>1. QED
        BY <2>1, <2>3, <2>5 DEF Firsts
    <3>2. answer'.found = At(more, kDefaultFontID)
      BY <1>2, <2>1, <3>1
    <3>3. kDefaultFontID \in DOMAIN more => systemFont /\ more[kDefaultFontID] = DefaultFont
      <4> HIDE DEF more, fonts, U
      <4>1. QED
        BY <2>3 DEF Firsts
    <3>4. systemFont => kDefaultFontID \in DOMAIN more
      BY <2>1, <3>1 DEF Insert
    <3>5. answer'.found = IF systemFont THEN DefaultFont ELSE Nothing
      <4> HIDE DEF more
      <4>1. QED
        BY <3>2, <3>3, <3>4 DEF At
    <3> HIDE DEF own
    <3>6. QED
      BY <1>1, <1>2, <2>4, <2>5, <3>5 DEF OwnResource
  <2>6. CASE own # {}
    <3> HIDE DEF more, fonts
    <3>1. id \in DOMAIN more
      BY <2>1, <2>3, <2>6 DEF Firsts
    <3>2. PICK p \in U :
            /\ ItemAt(doc, p).id = id /\ more[id] = ItemAt(doc, p)
            /\ \A q \in U : ItemAt(doc, q).id = id => q = p \/ Before(p, q)
      BY <2>1, <2>3, <3>1 DEF Firsts
    <3>3. p \in own /\ (\A q \in own \ {p} : Before(p, q)) /\ answer'.found = ItemAt(doc, p)
      BY <1>2, <2>1, <3>1, <3>2
    <3> HIDE DEF own
    <3>4. QED
      BY <1>1, <1>2, <2>4, <2>6, <3>3 DEF OwnResource
  <2>7. QED
    BY <2>5, <2>6
<1>8. QED
  BY <1>1, <1>4, <1>6, <1>7 DEF TableInv, TableClosed, TableInCommon, TableInRes

LEMMA TablePageUrl ==
  ASSUME TableInv, NEW i \in 0 .. Len(pageno2pageid) + 1, PageUrl(i) PROVE TableInv'
<1>1. UNCHANGED <<doc, systemFont, table, phase, rest, items>> /\ answer'.kind = "Page"
  BY DEF PageUrl, session
<1>2. OwnResource'
  BY <1>1 DEF OwnResource, Kinds
<1>3. QED
  BY <1>1, <1>2, TableFrame

LEMMA TablePageUrlDies ==
  ASSUME TableInv, DocInv', PageUrlDies PROVE TableInv'
<1>1. phase' = "dead" /\ table' = table /\ answer'.kind = "Page"
  BY DEF PageUrlDies
<1>2. QED
  BY <1>1, TableOutside DEF TableInv, Kinds

LEMMA NextTableInv == DocInv /\ TableInv /\ [Next]_vars => TableInv'
<1> SUFFICES ASSUME DocInv, TableInv, [Next]_vars PROVE TableInv'
  OBVIOUS
<1>1. DocInv'
  BY NextDocInv
<1>2. CASE Parse
  BY <1>1, <1>2, TablePackage, TableCommon, TableRes, TableResReturns, TablePages DEF Parse
<1>3. CASE UNCHANGED vars
  BY <1>3, TableStutter
<1>4. QED
  BY <1>1, <1>2, <1>3, TablePackage, TableOpen, TableFind, TableFindFont, TablePageUrl,
     TablePageUrlDies DEF Next

(* A page that looks up a resource gets the first usable one of this ID in *)
(* the order of the references and files, or the default; as long as the   *)
(* IDs are numbers that a float holds (ParseRes, FindDrawParam, FindFont,  *)
(* StringToFloat).                                                         *)
THEOREM LookupsFindTheirOwn == Spec => []OwnResource
<1>1. Init => DocInv /\ TableInv
  BY InitDocInv, InitTableInv
<1>2. DocInv /\ TableInv /\ [Next]_vars => (DocInv /\ TableInv)'
  BY NextDocInv, NextTableInv
<1>3. DocInv /\ TableInv => OwnResource
  BY DEF TableInv
<1>4. QED
  BY <1>1, <1>2, <1>3, PTL DEF Spec

-----------------------------------------------------------------------------
(* A document that is handed out has the pages, templates and annotation   *)
(* files of its Document.xml, and a page number leads through both tables  *)
(* to the page of that place (the constructor of COFD_Document, PageUrl).  *)
THEOREM DocumentsAreAsWritten == Spec => []DocumentAsWritten
<1>1. DocInv => DocumentAsWritten
  <2> SUFFICES ASSUME DocInv PROVE DocumentAsWritten
    OBVIOUS
  <2>1. ListsComplete
    <3> SUFFICES ASSUME phase = "document" PROVE ListsComplete
      BY DEF ListsComplete
    <3>1. DOMAIN id2templates = TemplateIds(doc, Len(doc.common))
      BY DEF DocInv, HasTemplates
    <3>2. doc.hasPages /\ HasNotes => pageid2annoturl = Notes
      BY DEF DocInv, InDocument
    <3>3. doc \in Docs /\ doc.pages \in Seq(PageEntry)
      BY DocFacts DEF DocInv, Handles, Open
    <3>4. ASSUME doc.hasPages
          PROVE  /\ Len(pageno2pageid) = Cardinality(ListedAt(doc))
                 /\ \A k \in ListedAt(doc) : pageno2pageid[Place(doc, k)] = doc.pages[k].id
      <4> DEFINE c == Len(doc.pages)
      <4>1. PagesDone(doc, pageno2pageid, pageid2pageurl, c)
        BY <3>4 DEF DocInv, InDocument, PagesAre
      <4>2. c \in Nat
        BY <3>3
      <4>3. ListedAt(doc) \subseteq 1 .. c /\ Place(doc, c) = Cardinality(ListedAt(doc))
        BY <3>3, <4>2, PlaceFacts
      <4>4. \A k \in ListedAt(doc) : k <= c
        BY <4>2, <4>3
      <4>5. QED
        BY <4>1, <4>3, <4>4 DEF PagesDone
    <3>5. QED
      BY <3>1, <3>2, <3>4 DEF ListsComplete, HasNotes, Notes
  <2>2. QED
    BY <2>1 DEF DocInv, DocumentAsWritten
<1>2. QED
  BY <1>1, DocInvariant, PTL

(* The process ends only for a DocInfo without a DocID, for a resource     *)
(* reference or a template without a location, and when a page is asked of *)
(* a document without pages (COFD_ParseOfdXml, COFD_Document::Parse,       *)
(* LoadPage).                                                              *)
THEOREM OpeningDiesForAReason == Spec => []OpeningDeathExplained
<1>1. DocInv => OpeningDeathExplained
  BY DEF DocInv
<1>2. QED
  BY <1>1, DocInvariant, PTL

=============================================================================
