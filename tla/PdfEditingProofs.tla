-------------------------- MODULE PdfEditingProofs --------------------------
(***************************************************************************)
(* What the editing calls leave in packages and files: failed calls change *)
(* nothing (one that ends the process at most its target), and packages    *)
(* and copies hold the document that the successful calls describe, for    *)
(* any number of handles, files, pages and texts.                          *)
(***************************************************************************)
EXTENDS PdfEditing, FiniteSetTheorems, SequenceTheorems, TLAPS

-----------------------------------------------------------------------------
(* Subsequences.                                                           *)

(* Ranks tell the places of a set apart and number them from 1.            *)
LEMMA RankFacts ==
  ASSUME NEW m \in Nat, NEW K \in SUBSET (1 .. m)
  PROVE  /\ IsFiniteSet(K) /\ Cardinality(K) \in Nat
         /\ \A n \in 1 .. Cardinality(K) : \E i \in K : Rank(K, i) = n
<1> DEFINE c == Cardinality(K)
           T == 1 .. c
           f == [i \in K |-> Rank(K, i)]
<1>1. IsFiniteSet(1 .. m)
  BY FS_Interval
<1>2. IsFiniteSet(K) /\ c \in Nat
  BY <1>1, FS_Subset, FS_CardinalityType
<1>3. IsFiniteSet(T) /\ Cardinality(T) = c
  BY <1>2, FS_Interval
<1>4. \A i \in K : /\ IsFiniteSet({j \in K : j <= i}) /\ Rank(K, i) \in Nat
                   /\ Rank(K, i) <= c
  BY <1>2, FS_Subset, FS_CardinalityType DEF Rank
<1>5. \A i \in K : Rank(K, i) # 0
  <2> SUFFICES ASSUME NEW i \in K, Rank(K, i) = 0 PROVE FALSE
    OBVIOUS
  <2>1. {j \in K : j <= i} = {}
    BY <1>4, FS_EmptySet DEF Rank
  <2>2. i \in {j \in K : j <= i}
    OBVIOUS
  <2>3. QED
    BY <2>1, <2>2
<1>6. f \in [K -> T]
  <2>1. \A i \in K : Rank(K, i) \in 1 .. c
    <3> SUFFICES ASSUME NEW i \in K PROVE Rank(K, i) \in 1 .. c
      OBVIOUS
    <3> HIDE DEF c
    <3>1. Rank(K, i) \in Nat /\ Rank(K, i) <= c /\ Rank(K, i) # 0
      BY <1>4, <1>5
    <3>2. QED
      BY <3>1, <1>2
  <2>2. QED
    BY <2>1
<1>7. ASSUME NEW i \in K, NEW k \in K, i < k PROVE Rank(K, i) # Rank(K, k)
  <2>1. {j \in K : j <= i} \in SUBSET {j \in K : j <= k}
    <3>1. i \in Int /\ k \in Int /\ K \subseteq Int
      OBVIOUS
    <3>2. \A j \in K : j <= i => j <= k
      BY <1>7, <3>1
    <3>3. QED
      BY <3>2
  <2>2. k \in {j \in K : j <= k} /\ k \notin {j \in K : j <= i}
    BY <1>7
  <2>3. QED
    BY <2>1, <2>2, <1>4, FS_Subset DEF Rank
<1>8. ASSUME NEW i \in K, NEW k \in K, f[i] = f[k] PROVE i = k
  BY <1>7, <1>8
<1>9. f \in Injection(K, T)
  BY <1>6, <1>8 DEF Injection, IsInjective
<1>10. f \in Surjection(K, T)
  BY <1>9, <1>3, <1>2, FS_Injection
<1>11. \A n \in T : \E i \in K : f[i] = n
  BY <1>10 DEF Surjection
<1>12. QED
  BY <1>2, <1>11

LEMMA SeqIntro ==
  ASSUME NEW S, NEW n \in Nat, NEW s, s = [i \in 1 .. n |-> s[i]], \A i \in 1 .. n : s[i] \in S
  PROVE  s \in Seq(S) /\ Len(s) = n
  OBVIOUS

(* A selection is made of elements of the sequence.                        *)
LEMMA SelectedFacts ==
  ASSUME NEW S, NEW s \in Seq(S), NEW K \in SUBSET (1 .. Len(s))
  PROVE  /\ Selected(s, K) \in Seq(S) /\ Len(Selected(s, K)) = Cardinality(K)
         /\ \A n \in 1 .. Len(Selected(s, K)) : \E i \in K : Selected(s, K)[n] = s[i]
<1>1. Len(s) \in Nat /\ \A i \in 1 .. Len(s) : s[i] \in S
  OBVIOUS
<1>2. /\ Cardinality(K) \in Nat
      /\ \A n \in 1 .. Cardinality(K) : \E i \in K : Rank(K, i) = n
  BY <1>1, RankFacts
<1>3. \A n \in 1 .. Cardinality(K) : Nth(K, n) \in K
  BY <1>2 DEF Nth
<1>4. \A n \in 1 .. Cardinality(K) : s[Nth(K, n)] \in S
  BY <1>1, <1>3
<1>5. /\ Selected(s, K) \in Seq(S) /\ Len(Selected(s, K)) = Cardinality(K)
      /\ \A n \in 1 .. Cardinality(K) : Selected(s, K)[n] = s[Nth(K, n)]
  BY <1>2, <1>4, IsASeq DEF Selected
<1>6. QED
  BY <1>3, <1>5

(* Where everything is selected nothing changes.                           *)
LEMMA SelectedAll ==
  ASSUME NEW S, NEW s \in Seq(S) PROVE Selected(s, 1 .. Len(s)) = s
<1> DEFINE K == 1 .. Len(s)
<1>1. Len(s) \in Nat
  OBVIOUS
<1>2. ASSUME NEW i \in Nat PROVE Cardinality(1 .. i) = i
  BY FS_Interval
<1>3. ASSUME NEW i \in K PROVE Rank(K, i) = i
  <2>1. {j \in K : j <= i} = 1 .. i
    BY <1>1
  <2>2. QED
    <3>1. Rank(K, i) = Cardinality({j \in K : j <= i})
      BY DEF Rank
    <3>2. i \in Nat
      BY <1>1
    <3>3. QED
      BY <2>1, <3>1, <3>2, <1>2
<1>4. \A n \in K : Nth(K, n) = n
  BY <1>3 DEF Nth
<1>5. Cardinality(K) = Len(s)
  BY <1>1, <1>2
<1>6. Selected(s, K) = [n \in 1 .. Len(s) |-> s[n]]
  BY <1>4, <1>5 DEF Selected
<1>7. QED
  BY <1>6

-----------------------------------------------------------------------------
(* Pages.                                                                  *)

(* Pages none of which was lost on its way through a file.                 *)
Clean(pages) == \A i \in 1 .. Len(pages) : pages[i].name # "lost"

(* The pages of a package, and whether all of them can be read.            *)
PagesOf(pk) == [i \in DOMAIN pk.pages |-> pk.pages[i].page]
Sound(pk) == ~pk.stale /\ Clean(PagesOf(pk))

PkgPages == [page : Pages, mem : BOOLEAN]

LEMMA PkgPageFacts ==
  ASSUME NEW s \in Seq(PkgPages), NEW i \in 1 .. Len(s)
  PROVE  s[i] \in PkgPages /\ s[i].page \in Pages /\ s[i].mem \in BOOLEAN
<1>1. s[i] \in PkgPages
  OBVIOUS
<1>2. QED
  BY <1>1 DEF PkgPages

LEMMA PagesOfFacts ==
  ASSUME NEW s \in Seq(PkgPages)
  PROVE  LET r == [i \in DOMAIN s |-> s[i].page]
         IN  /\ r \in Seq(Pages) /\ Len(r) = Len(s)
             /\ \A i \in 1 .. Len(s) : r[i] = s[i].page
<1>1. Len(s) \in Nat /\ DOMAIN s = 1 .. Len(s)
  OBVIOUS
<1>2. \A i \in 1 .. Len(s) : s[i].page \in Pages
  BY <1>1, PkgPageFacts
<1>3. QED
  BY <1>1, <1>2

LEMMA PackageFacts ==
  ASSUME NEW pk \in Packages
  PROVE  /\ pk.pages \in Seq(PkgPages) /\ pk.stale \in BOOLEAN
         /\ PagesOf(pk) \in Seq(Pages) /\ Len(PagesOf(pk)) = Len(pk.pages)
         /\ \A i \in 1 .. Len(pk.pages) : PagesOf(pk)[i] = pk.pages[i].page
<1>1. pk.pages \in Seq(PkgPages) /\ pk.stale \in BOOLEAN
  BY DEF Packages, PkgPages
<1>2. QED
  BY <1>1, PagesOfFacts DEF PagesOf

LEMMA LostIsPage == Lost \in Pages /\ Lost.name = "lost"
<1>1. <<>> \in Seq(STRING)
  OBVIOUS
<1>2. Lost = [name |-> "lost", texts |-> <<>>]
  BY DEF Lost, Page
<1>3. QED
  BY <1>1, <1>2, PathAssumption DEF Pages

(* What PDFium gets of a package: its pages, or Lost where its file was    *)
(* written to.                                                             *)
LEMMA ReadingFacts ==
  ASSUME NEW pk \in Packages, NEW r \in Readings(pk)
  PROVE  /\ r \in Seq(Pages)
         /\ ~pk.stale => r = PagesOf(pk)
         /\ Sound(pk) => Clean(r)
<1>1. PICK gone \in SUBSET {i \in DOMAIN pk.pages : pk.stale /\ ~pk.pages[i].mem} :
        r = [i \in DOMAIN pk.pages |-> IF i \in gone THEN Lost ELSE pk.pages[i].page]
  BY DEF Readings
<1>2. /\ pk.pages \in Seq(PkgPages) /\ pk.stale \in BOOLEAN
      /\ DOMAIN pk.pages = 1 .. Len(pk.pages) /\ Len(pk.pages) \in Nat
  BY PackageFacts
<1>3. \A i \in 1 .. Len(pk.pages) : pk.pages[i].page \in Pages
  BY <1>2, PkgPageFacts
<1>4. \A i \in 1 .. Len(pk.pages) :
        (IF i \in gone THEN Lost ELSE pk.pages[i].page) \in Pages
  BY <1>3, LostIsPage
<1>5. r \in Seq(Pages)
  BY <1>1, <1>2, <1>4
<1>6. ASSUME ~pk.stale PROVE r = PagesOf(pk)
  <2>1. gone = {}
    BY <1>6, <1>1
  <2>2. QED
    BY <1>1, <2>1 DEF PagesOf
<1>7. QED
  BY <1>5, <1>6 DEF Sound

(* A copy holds pages of the package, all of them if all can be read.      *)
LEMMA SavedPagesFacts ==
  ASSUME NEW kind, NEW pk \in Packages, NEW s \in SavedPages(kind, pk)
  PROVE  /\ s \in Seq(Pages)
         /\ ~pk.stale /\ ~Contains(PagesOf(pk), Lost) => s = PagesOf(pk)
         /\ Sound(pk) => Clean(s)
<1>1. CASE kind = "pdf"
  BY <1>1, ReadingFacts DEF SavedPages
<1>2. CASE kind # "pdf"
  <2>1. PICK r \in Readings(pk) : s = Selected(r, {i \in DOMAIN r : r[i] # Lost})
    BY <1>2 DEF SavedPages
  <2>2. /\ r \in Seq(Pages) /\ Len(r) \in Nat /\ DOMAIN r = 1 .. Len(r)
        /\ ~pk.stale => r = PagesOf(pk)
        /\ Sound(pk) => Clean(r)
    <3>1. r \in Seq(Pages) /\ (~pk.stale => r = PagesOf(pk)) /\ (Sound(pk) => Clean(r))
      BY ReadingFacts
    <3>2. QED
      BY <3>1
  <2> DEFINE K == {i \in DOMAIN r : r[i] # Lost}
  <2>3. K \in SUBSET (1 .. Len(r))
    BY <2>2
  <2>4. /\ s \in Seq(Pages)
        /\ \A n \in 1 .. Len(s) : \E i \in K : s[n] = r[i]
    <3> HIDE DEF K
    <3>1. s = Selected(r, K)
      BY <2>1 DEF K
    <3>2. r \in Seq(Pages)
      BY <2>2
    <3>3. /\ Selected(r, K) \in Seq(Pages)
          /\ \A n \in 1 .. Len(Selected(r, K)) : \E i \in K : Selected(r, K)[n] = r[i]
      BY <2>3, <3>2, SelectedFacts
    <3>4. QED
      BY <3>1, <3>3
  <2>5. Sound(pk) => Clean(s)
    BY <2>2, <2>3, <2>4 DEF Clean
  <2>6. ASSUME ~pk.stale, ~Contains(PagesOf(pk), Lost) PROVE s = PagesOf(pk)
    <3>1. r = PagesOf(pk) /\ \A i \in 1 .. Len(r) : r[i] # Lost
      BY <2>2, <2>6 DEF Contains
    <3>2. K = 1 .. Len(r)
      BY <3>1, <2>2
    <3>3. Selected(r, 1 .. Len(r)) = r
      BY <2>2, SelectedAll
    <3>4. QED
      BY <2>1, <3>1, <3>2, <3>3
  <2>7. QED
    BY <2>4, <2>5, <2>6
<1>3. QED
  BY <1>1, <1>2

(* A file that is written holds what was to be written, or the beginning.  *)
LEMMA ResultFacts ==
  ASSUME NEW kind \in {"pdf", "ofd", "txt"}, NEW s \in Seq(Pages),
         NEW f \in Results(kind, s)
  PROVE  /\ f \in Files /\ f # Absent
         /\ Clean(s) => Clean(f.pages)
         /\ f.whole => f = File(kind, s, TRUE)
<1>1. CASE f = File(kind, s, TRUE)
  <2>1. f \in Files /\ f.pages = s
    BY <1>1 DEF File, Files
  <2>2. QED
    BY <1>1, <2>1, DiskAssumption
<1>2. ASSUME NEW n \in 0 .. (IF kind = "pdf" THEN Len(s) ELSE 0),
             f = File(kind, SubSeq(s, 1, n), FALSE)
      PROVE  /\ f \in Files /\ ~f.whole /\ (Clean(s) => Clean(f.pages))
  <2>1. n \in Nat /\ n <= Len(s) /\ Len(s) \in Nat
    BY <1>2
  <2>2. /\ SubSeq(s, 1, n) \in Seq(Pages) /\ Len(SubSeq(s, 1, n)) = n
        /\ \A i \in 1 .. n : SubSeq(s, 1, n)[i] = s[i]
    BY <2>1
  <2>3. f \in Files /\ f.pages = SubSeq(s, 1, n) /\ f.whole = FALSE
    BY <1>2, <2>2 DEF File, Files
  <2>4. QED
    BY <2>1, <2>2, <2>3 DEF Clean
<1>3. QED
  BY <1>1, <1>2, DiskAssumption DEF Results

(* A page that is appended comes last, and changes no other.               *)
LEMMA AppendFacts ==
  ASSUME NEW s \in Seq(PkgPages), NEW x \in PkgPages
  PROVE  LET r == FPDFPage_New(s, Len(s) + 1, x)
         IN  /\ r \in Seq(PkgPages) /\ Len(r) = Len(s) + 1
             /\ \A i \in 1 .. Len(s) : r[i] = s[i]
             /\ r[Len(s) + 1] = x
<1> DEFINE n == Len(s)
           r == FPDFPage_New(s, n + 1, x)
<1>1. n \in Nat
  OBVIOUS
<1>2. r = InsertAt(s, n + 1, x)
  BY <1>1 DEF FPDFPage_New
<1>3. r = SubSeq(s, 1, n) \o <<x>> \o SubSeq(s, n + 1, n)
  BY <1>1, <1>2 DEF InsertAt
<1>4. SubSeq(s, 1, n) = s
  OBVIOUS
<1>5. SubSeq(s, n + 1, n) = <<>>
  BY <1>1
<1>6. <<x>> \in Seq(PkgPages) /\ Len(<<x>>) = 1 /\ <<x>>[1] = x
  OBVIOUS
<1>7. r = s \o <<x>>
  BY <1>3, <1>4, <1>5, <1>6
<1> HIDE DEF r
<1>8. /\ r \in Seq(PkgPages) /\ Len(r) = n + 1
      /\ \A i \in 1 .. n : r[i] = s[i]
      /\ r[n + 1] = x
  BY <1>1, <1>6, <1>7
<1>9. QED
  BY <1>8 DEF r

LEMMA AppendedPackage ==
  ASSUME NEW pk \in Packages, NEW x \in PkgPages
  PROVE  LET q == [pk EXCEPT !.pages = FPDFPage_New(@, Len(@) + 1, x)]
         IN  /\ q \in Packages /\ q.stale = pk.stale
             /\ PagesOf(q) = PagesOf(pk) \o <<x.page>>
             /\ Sound(pk) /\ x.page.name # "lost" => Sound(q)
<1> DEFINE s == pk.pages
           r == FPDFPage_New(s, Len(s) + 1, x)
           q == [pk EXCEPT !.pages = r]
<1>1. /\ s \in Seq(PkgPages) /\ Len(s) \in Nat
      /\ PagesOf(pk) \in Seq(Pages) /\ Len(PagesOf(pk)) = Len(s)
      /\ \A i \in 1 .. Len(s) : PagesOf(pk)[i] = s[i].page
  BY PackageFacts
<1>2. /\ r \in Seq(PkgPages) /\ Len(r) = Len(s) + 1
      /\ \A i \in 1 .. Len(s) : r[i] = s[i]
      /\ r[Len(s) + 1] = x
  BY <1>1, AppendFacts
<1> HIDE DEF r
<1>3. q \in Packages /\ q.stale = pk.stale /\ q.pages = r
  BY <1>2 DEF Packages, PkgPages
<1> HIDE DEF q
<1>4. /\ PagesOf(q) \in Seq(Pages) /\ Len(PagesOf(q)) = Len(s) + 1
      /\ \A i \in 1 .. Len(s) + 1 : PagesOf(q)[i] = r[i].page
  BY <1>2, <1>3, PackageFacts
<1>5. x.page \in Pages
  BY DEF PkgPages
<1>6. PagesOf(q) = PagesOf(pk) \o <<x.page>>
  <2> DEFINE a == PagesOf(q)
             b == PagesOf(pk)
             n == Len(s)
             y == x.page
  <2>1. /\ n \in Nat /\ a \in Seq(Pages) /\ b \in Seq(Pages) /\ y \in Pages
        /\ Len(a) = n + 1 /\ Len(b) = n
        /\ \A i \in 1 .. n : a[i] = b[i]
        /\ a[n + 1] = y
    <3>1. n \in Nat /\ a \in Seq(Pages) /\ b \in Seq(Pages) /\ y \in Pages
      BY <1>1, <1>4, <1>5
    <3>2. Len(a) = n + 1 /\ Len(b) = n
      BY <1>1, <1>4
    <3>3. ASSUME NEW i \in 1 .. n PROVE a[i] = b[i]
      <4>1. i \in 1 .. n + 1
        BY <3>1
      <4>2. a[i] = r[i].page /\ r[i] = s[i] /\ b[i] = s[i].page
        BY <1>1, <1>2, <1>4, <4>1
      <4>3. QED
        BY <4>2
    <3>4. a[n + 1] = y
      <4>1. n + 1 \in 1 .. n + 1
        BY <3>1
      <4>2. QED
        BY <1>2, <1>4, <4>1
    <3>5. QED
      BY <3>1, <3>2, <3>3, <3>4
  <2> HIDE DEF a, b, n, y
  <2>2. a = b \o <<y>>
    BY <2>1
  <2>3. QED
    BY <2>2 DEF a, b, y
<1>7. ASSUME Sound(pk), x.page.name # "lost" PROVE Sound(q)
  BY <1>7, <1>1, <1>2, <1>3, <1>4 DEF Sound, Clean
<1>8. QED
  BY <1>3, <1>6, <1>7 DEF q, r

(* Texts that are added change their page, and no other.                   *)
WithTexts(page, texts) == Page(page.name, page.texts \o texts)
Texted(pk, i, texts) == [pk EXCEPT !.pages[i].page.texts = @ \o texts]
LEMMA TextedPackage ==
  ASSUME NEW pk \in Packages, NEW i \in 1 .. Len(pk.pages), NEW T \in Seq(STRING)
  PROVE  /\ Texted(pk, i, T) \in Packages
         /\ PagesOf(Texted(pk, i, T)) = [PagesOf(pk) EXCEPT ![i] = WithTexts(@, T)]
         /\ Sound(pk) => Sound(Texted(pk, i, T))
<1> DEFINE s == pk.pages
           x == [s[i].page EXCEPT !.texts = @ \o T]
           r == [s EXCEPT ![i] = [s[i] EXCEPT !.page = x]]
           q == [pk EXCEPT !.pages = r]
<1>1. /\ s \in Seq(PkgPages) /\ Len(s) \in Nat
      /\ PagesOf(pk) \in Seq(Pages) /\ Len(PagesOf(pk)) = Len(s)
      /\ \A k \in 1 .. Len(s) : PagesOf(pk)[k] = s[k].page
  BY PackageFacts
<1>2. s[i] \in PkgPages /\ s[i].page \in Pages /\ s[i].mem \in BOOLEAN
  BY <1>1, PkgPageFacts
<1>3. s[i].page.texts \o T \in Seq(STRING)
  BY <1>2 DEF Pages
<1>4. x \in Pages /\ x.name = s[i].page.name /\ x = WithTexts(s[i].page, T)
  <2>1. ASSUME NEW y \in Pages, NEW u \in Seq(STRING)
        PROVE  LET z == [y EXCEPT !.texts = u]
               IN  /\ z \in Pages /\ z.name = y.name
                   /\ z = [name |-> y.name, texts |-> u]
    BY DEF Pages
  <2>2. QED
    BY <1>2, <1>3, <2>1 DEF WithTexts, Page
<1> HIDE DEF x
<1>5. /\ [s[i] EXCEPT !.page = x] \in PkgPages
      /\ [s[i] EXCEPT !.page = x].page = x
  BY <1>2, <1>4 DEF PkgPages
<1>6. /\ r \in Seq(PkgPages) /\ Len(r) = Len(s)
      /\ \A k \in 1 .. Len(s) : k # i => r[k] = s[k]
      /\ r[i].page = x
  BY <1>1, <1>5
<1> HIDE DEF r
<1>7. q \in Packages /\ q.stale = pk.stale /\ q.pages = r
  BY <1>6 DEF Packages, PkgPages
<1> HIDE DEF q
<1>8. /\ PagesOf(q) \in Seq(Pages) /\ Len(PagesOf(q)) = Len(s)
      /\ \A k \in 1 .. Len(s) : PagesOf(q)[k] = r[k].page
  BY <1>6, <1>7, PackageFacts
<1>9. PagesOf(q) = [PagesOf(pk) EXCEPT ![i] = WithTexts(@, T)]
  <2> DEFINE a == PagesOf(q)
             b == PagesOf(pk)
             n == Len(s)
  <2>1. /\ n \in Nat /\ a \in Seq(Pages) /\ b \in Seq(Pages)
        /\ Len(a) = n /\ Len(b) = n /\ i \in 1 .. n
        /\ \A k \in 1 .. n : k # i => a[k] = b[k]
        /\ a[i] = x /\ x = WithTexts(b[i], T)
    BY <1>1, <1>4, <1>6, <1>8
  <2> HIDE DEF a, b, n
  <2>2. a = [b EXCEPT ![i] = x]
    BY <2>1
  <2>3. QED
    BY <2>1, <2>2 DEF a, b
<1>10. ASSUME Sound(pk) PROVE Sound(q)
  BY <1>10, <1>1, <1>4, <1>6, <1>7, <1>8 DEF Sound, Clean
<1>11. QED
  BY <1>7, <1>9, <1>10 DEF q, r, x, Texted

LEMMA InsertedFacts == ASSUME NEW j \in Jsons PROVE Inserted(j.items) \in Seq(STRING)
<1>1. j.items \in Seq(STRING)
  BY JsonAssumption
<1> DEFINE K == {i \in DOMAIN j.items : j.items[i] \notin {"skip", "abort"}}
<1>2. K \in SUBSET (1 .. Len(j.items))
  BY <1>1
<1> HIDE DEF K
<1>3. Selected(j.items, K) \in Seq(STRING)
  BY <1>1, <1>2, SelectedFacts
<1>4. QED
  BY <1>3 DEF Inserted, K

-----------------------------------------------------------------------------
(* The inductive invariant.                                                *)

(* As long as no file was written to while it was read, nothing on the     *)
(* disk is lost, and no package reads from a file that has changed.        *)
NothingLostYet ==
  ~clobbered =>
    /\ \A p \in Paths : disk[p] # Absent => Clean(disk[p].pages)
    /\ \A h \in Handles : pkg[h] # NoPackage => Sound(pkg[h])

KindFor(p) == IF Ending[p] = "pdf" THEN "pdf" ELSE "ofd"

(* The copy the last call wrote.                                           *)
CopyMade ==
  (/\ last.op = "save" /\ last.code = XILOU_E_SUC /\ last.ok /\ ~pkg[last.h].stale
   /\ ~Contains(built[last.h], Lost)) =>
     disk[last.p] = File(KindFor(last.p), built[last.h], TRUE)

EditInv == TypeOK /\ BuiltAsCalled /\ NothingLostYet /\ CopyMade

LEMMA InitEditInv == Init => EditInv
<1> SUFFICES ASSUME Init PROVE EditInv
  OBVIOUS
<1>1. TypeOK
  <2>1. disk \in [Paths -> Files \cup {Absent}]
    BY DiskAssumption DEF Init
  <2>2. <<>> \in Seq(Pages)
    OBVIOUS
  <2>3. last \in [op : {"none", "open", "edit", "save", "convert"},
               h : Handles \cup {"none"}, p : Paths \cup {NoPath},
               code : Codes, ok : BOOLEAN]
    BY DEF Init, Call, Codes
  <2>4. calls \in 0 .. MaxCalls
    BY PathAssumption DEF Init
  <2>5. QED
    BY <2>1, <2>2, <2>3, <2>4 DEF Init, TypeOK
<1>2. BuiltAsCalled
  BY DEF Init, BuiltAsCalled
<1>3. NothingLostYet
  BY DiskAssumption DEF Init, NothingLostYet, Clean
<1>4. CopyMade
  BY DEF Init, CopyMade, Call
<1>5. QED
  BY <1>1, <1>2, <1>3, <1>4 DEF EditInv

(* What the calls that change nothing but the answer keep.                 *)
LEMMA SameDocuments ==
  ASSUME EditInv, UNCHANGED <<disk, pkg, built, clobbered, calls>>, alive' \in BOOLEAN,
         NEW op \in {"none", "open", "edit", "save", "convert"}, NEW h \in Handles \cup {"none"},
         NEW p \in Paths \cup {NoPath}, NEW code \in Codes, NEW ok \in BOOLEAN,
         last' = Call(op, h, p, code, ok),
         op = "save" => ~ok \/ code # XILOU_E_SUC
  PROVE  EditInv'
<1>1. TypeOK'
  BY DEF EditInv, TypeOK, Call
<1>2. BuiltAsCalled'
  BY DEF EditInv, BuiltAsCalled
<1>3. NothingLostYet'
  BY DEF EditInv, NothingLostYet, Sound, PagesOf, Clean
<1>4. CopyMade'
  BY DEF CopyMade, Call
<1>5. QED
  BY <1>1, <1>2, <1>3, <1>4 DEF EditInv

LEMMA AnswerStep == ASSUME EditInv, NEW code \in Codes, Answer(code) PROVE EditInv'
<1>1. alive' \in BOOLEAN
  BY DEF Answer, EditInv, TypeOK
<1>2. "none" \in Handles \cup {"none"} /\ NoPath \in Paths \cup {NoPath}
  OBVIOUS
<1>3. QED
  BY <1>1, <1>2, SameDocuments DEF Answer

LEMMA DieStep ==
  ASSUME EditInv, NEW op \in {"open", "edit", "save", "convert"},
         NEW h \in Handles \cup {"none"}, NEW p \in Paths \cup {NoPath}, Die(op, h, p)
  PROVE  EditInv'
<1>1. "killed" \in Codes /\ "killed" # XILOU_E_SUC
  BY DEF Codes, XILOU_E_SUC
<1>2. QED
  BY <1>1, SameDocuments DEF Die

LEMMA NotWrittenStep ==
  ASSUME EditInv, NEW op \in {"save", "convert"}, NEW h \in Handles \cup {"none"},
         NEW p \in Paths, NotWritten(op, h, p)
  PROVE  EditInv'
<1>1. XILOU_E_SUC \in Codes /\ alive' \in BOOLEAN
  BY DEF Codes, NotWritten, EditInv, TypeOK
<1>2. QED
  BY <1>1, SameDocuments DEF NotWritten

(* What becomes of a package of one handle, in the calls that edit.        *)
LEMMA EditStep ==
  ASSUME EditInv, NEW h \in Handles, NEW q \in Packages \cup {NoPackage}, NEW b \in Seq(Pages),
         pkg' = [pkg EXCEPT ![h] = q], built' = [built EXCEPT ![h] = b],
         UNCHANGED <<disk, alive, clobbered>>, Counted,
         NEW op \in {"open", "edit"}, NEW p \in Paths \cup {NoPath}, NEW code \in Codes,
         last' = Call(op, h, p, code, TRUE),
         q = NoPackage => b = <<>>,
         q # NoPackage => PagesOf(q) = b /\ (~clobbered => Sound(q))
  PROVE  EditInv'
<1>1. TypeOK'
  <2>1. calls' \in 0 .. MaxCalls
    BY PathAssumption DEF EditInv, TypeOK, Counted
  <2>2. pkg' \in [Handles -> Packages \cup {NoPackage}] /\ built' \in [Handles -> Seq(Pages)]
    BY DEF EditInv, TypeOK
  <2>3. \A g \in Handles : pkg'[g] = NoPackage => built'[g] = <<>>
    BY DEF EditInv, TypeOK
  <2>4. last' \in [op : {"none", "open", "edit", "save", "convert"},
               h : Handles \cup {"none"}, p : Paths \cup {NoPath},
               code : Codes, ok : BOOLEAN]
    BY DEF Call
  <2>5. QED
    BY <2>1, <2>2, <2>3, <2>4 DEF EditInv, TypeOK
<1>2. \A g \in Handles : /\ pkg'[g] = IF g = h THEN q ELSE pkg[g]
                         /\ built'[g] = IF g = h THEN b ELSE built[g]
  BY DEF EditInv, TypeOK
<1>3. BuiltAsCalled'
  <2> SUFFICES ASSUME NEW g \in Handles, pkg'[g] # NoPackage
               PROVE  PagesOf(pkg'[g]) = built'[g]
    BY DEF BuiltAsCalled, PagesOf
  <2>1. CASE g = h
    BY <1>2, <2>1
  <2>2. CASE g # h
    <3>1. pkg[g] # NoPackage => PagesOf(pkg[g]) = built[g]
      BY DEF EditInv, BuiltAsCalled, PagesOf
    <3>2. QED
      BY <1>2, <2>2, <3>1
  <2>3. QED
    BY <2>1, <2>2
<1>4. NothingLostYet'
  <2> SUFFICES ASSUME ~clobbered'
               PROVE  /\ \A f \in Paths : disk'[f] # Absent => Clean(disk'[f].pages)
                      /\ \A g \in Handles : pkg'[g] # NoPackage => Sound(pkg'[g])
    BY DEF NothingLostYet, Sound, PagesOf, Clean
  <2>1. /\ \A f \in Paths : disk[f] # Absent => Clean(disk[f].pages)
        /\ \A g \in Handles : pkg[g] # NoPackage => Sound(pkg[g])
    BY DEF EditInv, NothingLostYet
  <2>2. QED
    BY <1>2, <2>1
<1>5. CopyMade'
  BY DEF CopyMade, Call
<1>6. QED
  BY <1>1, <1>3, <1>4, <1>5 DEF EditInv

-----------------------------------------------------------------------------
(* The calls that open and edit.                                           *)

(* A package of a file holds the pages of the file, or none.               *)
LEMMA OpenedFacts ==
  ASSUME EditInv, NEW p \in Paths, disk[p] # Absent, NEW pk \in Opened(p), pk # NoPackage
  PROVE  /\ pk \in Packages /\ ~pk.stale
         /\ pk.kind # "junk" => PagesOf(pk) = disk[p].pages
         /\ ~clobbered => Sound(pk)
<1> DEFINE f == disk[p]
<1>1. /\ f \in Files /\ f.pages \in Seq(Pages) /\ Len(f.pages) \in Nat
      /\ DOMAIN f.pages = 1 .. Len(f.pages)
      /\ f.kind \in {"pdf", "ofd", "txt"} /\ f.whole \in BOOLEAN
  <2>1. f \in Files
    BY DEF EditInv, TypeOK
  <2>2. f.pages \in Seq(Pages) /\ f.kind \in {"pdf", "ofd", "txt"} /\ f.whole \in BOOLEAN
    BY <2>1 DEF Files
  <2>3. QED
    BY <2>1, <2>2
<1>2. ~clobbered => Clean(f.pages)
  BY DEF EditInv, NothingLostYet
<1>3. pk \in {FromFile("pdf", p), FromFile("ofd", p), Package("junk", p, <<>>)}
  BY <1>1 DEF Opened
<1>4. ASSUME NEW k \in {"pdf", "ofd", "junk"}, NEW s \in Seq(PkgPages), pk = Package(k, p, s)
      PROVE  pk \in Packages /\ ~pk.stale /\ pk.kind = k /\ pk.pages = s
  BY <1>4 DEF Package, Packages, PkgPages
<1>5. CASE pk = Package("junk", p, <<>>)
  <2>1. <<>> \in Seq(PkgPages) /\ Len(<<>>) = 0
    OBVIOUS
  <2>2. pk \in Packages /\ ~pk.stale /\ pk.kind = "junk" /\ pk.pages = <<>>
    BY <1>4, <1>5, <2>1
  <2>3. Len(PagesOf(pk)) = 0
    BY <2>1, <2>2, PackageFacts
  <2>4. QED
    BY <2>2, <2>3 DEF Sound, Clean
<1>6. ASSUME NEW k \in {"pdf", "ofd"}, pk = FromFile(k, p)
      PROVE  pk \in Packages /\ ~pk.stale /\ PagesOf(pk) = f.pages
  <2> DEFINE s == [i \in DOMAIN f.pages |-> PkgPage(f.pages[i], FALSE)]
  <2>1. \A i \in 1 .. Len(f.pages) : /\ PkgPage(f.pages[i], FALSE) \in PkgPages
                                     /\ PkgPage(f.pages[i], FALSE).page = f.pages[i]
    <3>1. \A i \in 1 .. Len(f.pages) : f.pages[i] \in Pages
      BY <1>1
    <3>2. QED
      BY <3>1 DEF PkgPage, PkgPages
  <2>2. /\ s \in Seq(PkgPages) /\ Len(s) = Len(f.pages)
        /\ \A i \in 1 .. Len(f.pages) : s[i].page = f.pages[i]
    <3>1. \A i \in 1 .. Len(f.pages) : s[i] = PkgPage(f.pages[i], FALSE)
      BY <1>1
    <3>2. s \in Seq(PkgPages) /\ Len(s) = Len(f.pages)
      <4>1. s = [i \in 1 .. Len(f.pages) |-> s[i]] /\ \A i \in 1 .. Len(f.pages) : s[i] \in PkgPages
        BY <1>1, <2>1, <3>1
      <4> HIDE DEF s, f
      <4>2. QED
        BY <1>1, <4>1, SeqIntro
    <3>3. QED
      BY <3>1, <3>2, <2>1
  <2>3. pk = Package(k, p, s)
    BY <1>6 DEF FromFile
  <2> HIDE DEF s
  <2>4. pk \in Packages /\ ~pk.stale /\ pk.pages = s
    BY <1>4, <2>2, <2>3
  <2>5. /\ PagesOf(pk) \in Seq(Pages) /\ Len(PagesOf(pk)) = Len(f.pages)
        /\ \A i \in 1 .. Len(f.pages) : PagesOf(pk)[i] = f.pages[i]
    BY <2>2, <2>4, PackageFacts
  <2> DEFINE a == PagesOf(pk)
             b == f.pages
  <2>6. a \in Seq(Pages) /\ b \in Seq(Pages) /\ Len(a) = Len(b) /\ \A i \in 1 .. Len(b) : a[i] = b[i]
    BY <1>1, <2>5
  <2> HIDE DEF a, b
  <2>7. a = b
    BY <2>6
  <2>8. QED
    BY <2>4, <2>7 DEF a, b
<1>7. QED
  BY <1>2, <1>3, <1>5, <1>6 DEF Sound

LEMMA OpenPackageStep ==
  ASSUME EditInv, NEW h \in Handles, NEW p \in Paths, OpenPackage(h, p)
  PROVE  EditInv'
<1>1. CASE Die("open", h, p)
  BY <1>1, DieStep
<1>2. CASE disk[p] # Absent /\ ~Die("open", h, p)
  <2> DEFINE b(pk) == IF pk = NoPackage THEN built[h] ELSE PagesOf(pk)
             c(pk) == IF pk = NoPackage THEN "null" ELSE XILOU_E_SUC
  <2>1. PICK pk \in Opened(p) :
          /\ pkg' = [pkg EXCEPT ![h] = pk]
          /\ built' = IF pk = NoPackage THEN built
                      ELSE Did(h, [op |-> "open", pages |-> [i \in DOMAIN pk.pages |-> pk.pages[i].page]])
          /\ last' = Call("open", h, p, c(pk), TRUE)
    BY <1>2 DEF OpenPackage
  <2>2. UNCHANGED <<disk, alive, clobbered>> /\ Counted
    BY <1>2 DEF OpenPackage
  <2>3. built \in [Handles -> Seq(Pages)] /\ built[h] = <<>>
    BY DEF OpenPackage, EditInv, TypeOK
  <2>4. built' = [built EXCEPT ![h] = b(pk)]
    BY <2>1, <2>3 DEF Did, Edited, PagesOf
  <2>5. c(pk) \in Codes
    BY DEF Codes
  <2>6. pk \in Packages \cup {NoPackage} /\ b(pk) \in Seq(Pages)
    BY <1>2, <2>3, OpenedFacts, PackageFacts
  <2>7. /\ pk = NoPackage => b(pk) = <<>>
        /\ pk # NoPackage => PagesOf(pk) = b(pk) /\ (~clobbered => Sound(pk))
    BY <1>2, <2>3, OpenedFacts
  <2> HIDE DEF b, c
  <2>8. QED
    BY <2>1, <2>2, <2>4, <2>5, <2>6, <2>7, EditStep
<1>3. QED
  BY <1>1, <1>2 DEF OpenPackage

LEMMA ClosePackageStep ==
  ASSUME EditInv, NEW h \in Handles, ClosePackage(h) PROVE EditInv'
<1>1. XILOU_E_SUC \in Codes
  BY DEF Codes
<1>2. <<>> \in Seq(Pages)
  OBVIOUS
<1>3. QED
  BY <1>1, <1>2, EditStep DEF ClosePackage

LEMMA AppendImagePageStep ==
  ASSUME EditInv, NEW h \in Handles, NEW img \in Images, AppendImagePage(h, img)
  PROVE  EditInv'
<1> DEFINE doc == IF pkg[h] = NoPackage THEN Package("pdf", NoPath, <<>>) ELSE pkg[h]
           page == PkgPage(Page(img, <<>>), TRUE)
           q == [doc EXCEPT !.pages = FPDFPage_New(@, Len(@) + 1, page)]
<1>1. CASE \E code \in {"LOADIMAGE", "FILEHANDLETYPE", "NEWPAGE"} : Answer(code)
  BY <1>1, AnswerStep DEF Codes
<1>2. CASE /\ Counted /\ pkg' = [pkg EXCEPT ![h] = q]
           /\ built' = Did(h, [op |-> "image", name |-> img])
           /\ last' = Call("edit", h, NoPath, XILOU_E_SUC, TRUE)
           /\ UNCHANGED <<disk, alive, clobbered>>
  <2>1. /\ pkg \in [Handles -> Packages \cup {NoPackage}] /\ built \in [Handles -> Seq(Pages)]
        /\ pkg[h] = NoPackage => built[h] = <<>>
        /\ pkg[h] # NoPackage => PagesOf(pkg[h]) = built[h] /\ (~clobbered => Sound(pkg[h]))
    BY DEF EditInv, TypeOK, BuiltAsCalled, NothingLostYet, PagesOf
  <2>2. doc \in Packages /\ PagesOf(doc) = built[h] /\ (~clobbered => Sound(doc))
    <3>1. CASE pkg[h] # NoPackage
      BY <2>1, <3>1
    <3>2. CASE pkg[h] = NoPackage
      <4>1. <<>> \in Seq(PkgPages) /\ Len(<<>>) = 0
        OBVIOUS
      <4>2. doc \in Packages /\ doc.pages = <<>> /\ doc.stale = FALSE
        BY <3>2, <4>1 DEF Package, Packages, PkgPages
      <4>3. PagesOf(doc) \in Seq(Pages) /\ Len(PagesOf(doc)) = 0
        BY <4>1, <4>2, PackageFacts
      <4>4. PagesOf(doc) = <<>>
        BY <4>3
      <4>5. QED
        BY <2>1, <3>2, <4>2, <4>3, <4>4 DEF Sound, Clean
    <3>3. QED
      BY <3>1, <3>2
  <2>3. page \in PkgPages /\ page.page = Page(img, <<>>) /\ page.page.name # "lost"
    <3>1. <<>> \in Seq(STRING) /\ img \in STRING /\ img # "lost"
      BY PathAssumption
    <3>2. Page(img, <<>>) \in Pages /\ Page(img, <<>>).name = img
      BY <3>1 DEF Page, Pages
    <3>3. QED
      BY <3>1, <3>2 DEF PkgPage, PkgPages
  <2> HIDE DEF doc, page
  <2>4. /\ q \in Packages /\ PagesOf(q) = PagesOf(doc) \o <<page.page>>
        /\ Sound(doc) /\ page.page.name # "lost" => Sound(q)
    BY <2>2, <2>3, AppendedPackage
  <2>5. PagesOf(q) \in Seq(Pages)
    BY <2>4, PackageFacts
  <2>6. built' = [built EXCEPT ![h] = PagesOf(q)]
    BY <1>2, <2>1, <2>2, <2>3, <2>4 DEF Did, Edited
  <2>7. q # NoPackage
    BY <2>4, DiskAssumption
  <2>8. XILOU_E_SUC \in Codes
    BY DEF Codes
  <2> HIDE DEF q
  <2>9. QED
    BY <1>2, <2>2, <2>3, <2>4, <2>5, <2>6, <2>7, <2>8, EditStep
<1>3. QED
  BY <1>1, <1>2 DEF AppendImagePage

LEMMA AddTextOnPageStep ==
  ASSUME EditInv, NEW h \in Handles, NEW j \in Jsons, NEW idx \in -1 .. MaxPages,
         AddTextOnPage(h, idx, j)
  PROVE  EditInv'
<1> DEFINE T == Inserted(j.items)
           pk == pkg[h]
           k == idx + 1
           q == Texted(pk, k, T)
<1>1. TextRefusal(h, idx, j) \in Codes \cup {"none"}
  BY DEF TextRefusal, Codes
<1>2. CASE \E code \in Codes : Answer(code)
  BY <1>2, AnswerStep
<1>3. CASE /\ TextRefusal(h, idx, j) = "none" /\ Counted
           /\ pkg' = [pkg EXCEPT ![h].pages[idx + 1].page.texts = @ \o T]
           /\ built' = Did(h, [op |-> "text", idx |-> idx, texts |-> T])
           /\ last' = Call("edit", h, NoPath, XILOU_E_SUC, TRUE)
           /\ UNCHANGED <<disk, alive, clobbered>>
  <2>1. /\ pkg \in [Handles -> Packages \cup {NoPackage}] /\ built \in [Handles -> Seq(Pages)]
        /\ pk # NoPackage => PagesOf(pk) = built[h] /\ (~clobbered => Sound(pk))
    BY DEF EditInv, TypeOK, BuiltAsCalled, NothingLostYet, PagesOf
  <2>2. /\ pk # NoPackage /\ ~(idx < 0 \/ idx > Len(pk.pages)) /\ idx # Len(pk.pages)
    BY <1>3 DEF TextRefusal
  <2>3. pk \in Packages
    BY <2>1, <2>2
  <2>4. idx \in Int /\ Len(pk.pages) \in Nat
    BY <2>3, PackageFacts, PathAssumption
  <2>5. k \in 1 .. Len(pk.pages)
    BY <2>2, <2>4
  <2>6. T \in Seq(STRING)
    BY InsertedFacts
  <2> HIDE DEF T, k
  <2>7. /\ q \in Packages
        /\ PagesOf(q) = [PagesOf(pk) EXCEPT ![k] = WithTexts(@, T)]
        /\ Sound(pk) => Sound(q)
    BY <2>3, <2>5, <2>6, TextedPackage
  <2>8. pkg' = [pkg EXCEPT ![h] = q]
    BY <1>3 DEF k, Texted
  <2>9. built' = [built EXCEPT ![h] = [built[h] EXCEPT ![k] = WithTexts(@, T)]]
    BY <1>3 DEF Did, Edited, WithTexts, k
  <2>10. PagesOf(q) \in Seq(Pages)
    BY <2>7, PackageFacts
  <2>11. q # NoPackage
    BY <2>7, DiskAssumption
  <2>12. XILOU_E_SUC \in Codes
    BY DEF Codes
  <2>13. built' = [built EXCEPT ![h] = PagesOf(q)]
    BY <2>1, <2>2, <2>7, <2>9
  <2>14. UNCHANGED <<disk, alive, clobbered>> /\ Counted /\ last' = Call("edit", h, NoPath, XILOU_E_SUC, TRUE)
    BY <1>3
  <2> HIDE DEF q
  <2>15. QED
    BY <2>1, <2>2, <2>7, <2>8, <2>10, <2>11, <2>12, <2>13, <2>14, EditStep
<1>4. QED
  <2>1. "LOADFONTDATA" \in Codes /\ "LOADPAGE" \in Codes
    BY DEF Codes
  <2>2. CASE Die("edit", h, NoPath)
    BY <2>2, DieStep
  <2>3. QED
    BY <1>1, <1>2, <1>3, <2>1, <2>2 DEF AddTextOnPage

-----------------------------------------------------------------------------
(* The calls that write.                                                   *)

LEMMA TruncatedFacts ==
  ASSUME EditInv, NEW p \in Paths
  PROVE  /\ Truncated(p) \in [Handles -> Packages \cup {NoPackage}]
         /\ \A h \in Handles :
              /\ (Truncated(p)[h] = NoPackage) <=> (pkg[h] = NoPackage)
              /\ pkg[h] # NoPackage => PagesOf(Truncated(p)[h]) = PagesOf(pkg[h])
<1>1. pkg \in [Handles -> Packages \cup {NoPackage}]
  BY DEF EditInv, TypeOK
<1>2. ASSUME NEW pk \in Packages
      PROVE  /\ [pk EXCEPT !.stale = TRUE] \in Packages
             /\ [pk EXCEPT !.stale = TRUE].pages = pk.pages
  BY DEF Packages
<1>3. ASSUME NEW h \in Handles
      PROVE  /\ Truncated(p)[h] \in Packages \cup {NoPackage}
             /\ (Truncated(p)[h] = NoPackage) <=> (pkg[h] = NoPackage)
             /\ pkg[h] # NoPackage => PagesOf(Truncated(p)[h]) = PagesOf(pkg[h])
  <2>1. Truncated(p)[h] = IF pkg[h] # NoPackage /\ pkg[h].source = p
                            THEN [pkg[h] EXCEPT !.stale = TRUE] ELSE pkg[h]
    BY DEF Truncated
  <2>2. QED
    BY <1>1, <1>2, <2>1, DiskAssumption DEF PagesOf
<1>4. Truncated(p) = [h \in Handles |-> Truncated(p)[h]]
  BY DEF Truncated
<1>5. QED
  BY <1>3, <1>4

(* A file is replaced, by one without lost pages unless it is clobbered.   *)
LEMMA Replaced ==
  ASSUME EditInv, NEW op \in {"save", "convert"}, NEW h \in Handles \cup {"none"},
         NEW p \in Paths, NEW f \in Files, NEW own \in BOOLEAN, NEW code \in Codes,
         NEW ok \in BOOLEAN, last' = Call(op, h, p, code, ok),
         disk' = [disk EXCEPT ![p] = f], pkg' = Truncated(p), built' = built,
         clobbered' = (clobbered \/ own \/ Truncated(p) # pkg),
         alive' \in BOOLEAN, calls' \in 0 .. MaxCalls, ~clobbered' => Clean(f.pages),
         CopyMade'
  PROVE  EditInv'
<1>1. /\ disk \in [Paths -> Files \cup {Absent}] /\ built \in [Handles -> Seq(Pages)]
      /\ \A g \in Handles : pkg[g] = NoPackage => built[g] = <<>>
      /\ clobbered \in BOOLEAN
  BY DEF EditInv, TypeOK
<1>2. TypeOK'
  <2>1. disk' \in [Paths -> Files \cup {Absent}]
    BY <1>1
  <2>2. last' \in [op : {"none", "open", "edit", "save", "convert"},
               h : Handles \cup {"none"}, p : Paths \cup {NoPath},
               code : Codes, ok : BOOLEAN]
    BY DEF Call
  <2>3. clobbered' \in BOOLEAN
    OBVIOUS
  <2>4. /\ pkg' \in [Handles -> Packages \cup {NoPackage}]
        /\ \A g \in Handles : pkg'[g] = NoPackage => built'[g] = <<>>
    BY <1>1, TruncatedFacts
  <2>5. QED
    BY <1>1, <2>1, <2>2, <2>3, <2>4 DEF TypeOK
<1>3. BuiltAsCalled'
  <2>1. \A g \in Handles : pkg[g] # NoPackage => PagesOf(pkg[g]) = built[g]
    BY DEF EditInv, BuiltAsCalled, PagesOf
  <2>2. \A g \in Handles : pkg'[g] # NoPackage => PagesOf(pkg'[g]) = built'[g]
    BY <2>1, TruncatedFacts
  <2>3. QED
    BY <2>2 DEF BuiltAsCalled, PagesOf
<1>4. NothingLostYet'
  <2> SUFFICES ASSUME ~clobbered'
               PROVE  /\ \A g \in Paths : disk'[g] # Absent => Clean(disk'[g].pages)
                      /\ \A g \in Handles : pkg'[g] # NoPackage => Sound(pkg'[g])
    BY DEF NothingLostYet, Sound, PagesOf, Clean
  <2>1. ~clobbered /\ pkg' = pkg
    OBVIOUS
  <2>2. /\ \A g \in Paths : disk[g] # Absent => Clean(disk[g].pages)
        /\ \A g \in Handles : pkg[g] # NoPackage => Sound(pkg[g])
    BY <2>1 DEF EditInv, NothingLostYet
  <2>3. \A g \in Paths : disk'[g] = IF g = p THEN f ELSE disk[g]
    BY <1>1
  <2>4. QED
    BY <2>1, <2>2, <2>3
<1>5. QED
  BY <1>2, <1>3, <1>4 DEF EditInv

(* A conversion that ends the process leaves an archive without directory. *)
LEMMA DieWritingStep ==
  ASSUME EditInv, NEW op \in {"save", "convert"}, NEW h \in Handles \cup {"none"},
         NEW p \in Paths, NEW pk, NEW own \in BOOLEAN, DieWriting(op, h, p, pk, own)
  PROVE  EditInv'
<1>1. CASE Die(op, h, p)
  BY <1>1, DieStep
<1>2. CASE ~Die(op, h, p)
  <2>1. /\ disk' = [disk EXCEPT ![p] = File("ofd", <<>>, FALSE)]
        /\ last' = Call(op, h, p, "killed", FALSE)
        /\ pkg' = Truncated(p) /\ built' = built /\ calls' = calls /\ alive' = FALSE
        /\ clobbered' = (clobbered \/ own \/ Truncated(p) # pkg)
    BY <1>2 DEF DieWriting
  <2>2. <<>> \in Seq(Pages) /\ Len(<<>>) = 0
    OBVIOUS
  <2>3. PICK f \in Files : f = File("ofd", <<>>, FALSE) /\ Clean(f.pages)
    <3>1. PICK e \in Seq(Pages) : e = <<>> /\ Len(e) = 0
      BY <2>2
    <3>2. File("ofd", e, FALSE) \in Files /\ File("ofd", e, FALSE).pages = e
      BY DEF File, Files
    <3>3. Clean(e)
      BY <3>1 DEF Clean
    <3>4. QED
      BY <3>1, <3>2, <3>3
  <2>4. "killed" \in Codes /\ calls' \in 0 .. MaxCalls
    BY <2>1 DEF Codes, EditInv, TypeOK
  <2>5. CopyMade'
    BY <2>1 DEF CopyMade, Call, XILOU_E_SUC
  <2>6. QED
    BY <2>1, <2>3, <2>4, <2>5, Replaced
<1>3. QED
  BY <1>1, <1>2

LEMMA WriteStep ==
  ASSUME EditInv, NEW op \in {"save", "convert"}, NEW h \in Handles \cup {"none"},
         NEW p \in Paths, NEW kind \in {"pdf", "ofd", "txt"}, NEW contents,
         NEW own \in BOOLEAN,
         Write(op, h, p, kind, contents, own),
         \A s \in contents : s \in Seq(Pages) /\ (~clobbered' => Clean(s)),
         op = "save" =>
           /\ h \in Handles /\ kind = KindFor(p)
           /\ \A s \in contents :
                ~Truncated(p)[h].stale /\ ~Contains(built[h], Lost) => s = built[h]
  PROVE  EditInv'
<1>0. PICK s \in contents : \E f \in Results(kind, s) :
        /\ disk' = [disk EXCEPT ![p] = f] /\ Counted
        /\ last' = Call(op, h, p, XILOU_E_SUC, f.whole)
  BY DEF Write
<1>1. PICK f \in Results(kind, s) :
        /\ disk' = [disk EXCEPT ![p] = f] /\ Counted
        /\ last' = Call(op, h, p, XILOU_E_SUC, f.whole)
  BY <1>0
<1>2. /\ pkg' = Truncated(p) /\ clobbered' = (clobbered \/ own \/ Truncated(p) # pkg)
      /\ UNCHANGED <<alive, built>>
  BY DEF Write
<1>3. s \in Seq(Pages) /\ (~clobbered' => Clean(s))
  OBVIOUS
<1>4. /\ f \in Files /\ f # Absent
      /\ Clean(s) => Clean(f.pages)
      /\ f.whole => f = File(kind, s, TRUE)
  BY <1>3, ResultFacts
<1>5. f.whole \in BOOLEAN
  BY <1>4 DEF Files
<1>6. /\ disk \in [Paths -> Files \cup {Absent}] /\ built \in [Handles -> Seq(Pages)]
      /\ \A g \in Handles : pkg[g] = NoPackage => built[g] = <<>>
      /\ clobbered \in BOOLEAN /\ alive \in BOOLEAN /\ calls \in 0 .. MaxCalls
  BY DEF EditInv, TypeOK
<1>7. calls' \in 0 .. MaxCalls /\ XILOU_E_SUC \in Codes
  BY <1>1, <1>6, PathAssumption DEF Counted, Codes
<1>8. CopyMade'
  <2> SUFFICES ASSUME last'.op = "save", last'.ok, ~pkg'[last'.h].stale,
                      ~Contains(built'[last'.h], Lost)
               PROVE  disk'[last'.p] = File(KindFor(last'.p), built'[last'.h], TRUE)
    BY DEF CopyMade
  <2>1. op = "save" /\ last'.h = h /\ last'.p = p /\ last'.ok = f.whole
    BY <1>1 DEF Call
  <2>2. s = built[h] /\ kind = KindFor(p)
    BY <1>2, <2>1
  <2>3. disk'[p] = f
    BY <1>1, <1>6
  <2>4. QED
    BY <1>2, <1>4, <2>1, <2>2, <2>3
<1>9. QED
  BY <1>1, <1>2, <1>3, <1>4, <1>5, <1>6, <1>7, <1>8, Replaced

LEMMA Save2FileStep ==
  ASSUME EditInv, NEW h \in Handles, NEW p \in Paths, Save2File(h, p)
  PROVE  EditInv'
<1> DEFINE pk == Truncated(p)[h]
           C == SavedPages(KindFor(p), pk)
<1>1. CASE \E code \in {"INVALID_HANDLE_ERROR", "NOTIMPLEMENT"} : Answer(code)
  BY <1>1, AnswerStep DEF Codes
<1>2. CASE NotWritten("save", h, p)
  BY <1>2, NotWrittenStep
<1>3. CASE KindOf(pkg[h]) = "pdf" /\ Write("save", h, p, KindFor(p), C, FALSE)
  <2>1. pkg[h] # NoPackage
    BY <1>3 DEF KindOf
  <2>2. pk \in Packages /\ pk # NoPackage /\ PagesOf(pk) = built[h]
    <3>1. PagesOf(pkg[h]) = built[h]
      BY <2>1 DEF EditInv, BuiltAsCalled, PagesOf
    <3>2. QED
      BY <2>1, <3>1, TruncatedFacts
  <2>3. ~clobbered' => Sound(pk)
    <3>1. ~clobbered' => ~clobbered /\ Truncated(p) = pkg
      BY <1>3 DEF Write
    <3>2. ~clobbered => Sound(pkg[h])
      BY <2>1 DEF EditInv, NothingLostYet
    <3>3. QED
      BY <3>1, <3>2
  <2> HIDE DEF pk
  <2>4. \A s \in C : /\ s \in Seq(Pages) /\ (~clobbered' => Clean(s))
                     /\ ~pk.stale /\ ~Contains(built[h], Lost) => s = built[h]
    BY <2>2, <2>3, SavedPagesFacts
  <2>5. KindFor(p) \in {"pdf", "ofd", "txt"}
    BY DEF KindFor
  <2> HIDE DEF C
  <2>6. QED
    BY <1>3, <2>4, <2>5, WriteStep DEF pk
<1>4. CASE DieWriting("save", h, p, pkg[h], FALSE)
  BY <1>4, DieWritingStep
<1>5. QED
  BY <1>1, <1>2, <1>3, <1>4 DEF Save2File, KindFor

LEMMA ConvertStep ==
  ASSUME EditInv, NEW src \in Paths, NEW dst \in Paths, Convert(src, dst)
  PROVE  EditInv'
<1>1. CASE Die("convert", "none", src) \/ Die("convert", "none", dst)
  BY <1>1, DieStep
<1>0. ASSUME NEW pk, DieWriting("convert", "none", dst, pk, src = dst) PROVE EditInv'
  <2>1. PICK own \in BOOLEAN : own = (src = dst)
    OBVIOUS
  <2>2. DieWriting("convert", "none", dst, pk, own)
    BY <1>0, <2>1
  <2>3. QED
    BY <2>2, DieWritingStep
<1>2. CASE NotWritten("convert", "none", dst)
  BY <1>2, NotWrittenStep
<1>3. CASE \E code \in {"false", XILOU_E_SUC} : Answer(code)
  BY <1>3, AnswerStep DEF Codes
<1>4. ASSUME disk[src] # Absent, NEW pk \in Opened(src), KindOf(pk) \in {"pdf", "ofd"},
             NEW q, q = pk \/ q = [pk EXCEPT !.stale = (src = dst)],
             NEW kind \in {"pdf", "ofd", "txt"},
             NEW contents, contents \in {Readings(q), SavedPages("ofd", q)},
             Write("convert", "none", dst, kind, contents, src = dst)
      PROVE  EditInv'
  <2>1. pk # NoPackage
    BY <1>4 DEF KindOf
  <2>2. pk \in Packages /\ ~pk.stale /\ (~clobbered => Sound(pk))
    BY <1>4, <2>1, OpenedFacts
  <2>3. q \in Packages /\ q.pages = pk.pages /\ (src # dst => ~q.stale)
    <3>1. ASSUME NEW b \in BOOLEAN
          PROVE  LET r == [pk EXCEPT !.stale = b]
                 IN  r \in Packages /\ r.pages = pk.pages /\ r.stale = b
      BY <2>2 DEF Packages
    <3>2. QED
      BY <1>4, <2>2, <3>1
  <2>4. ~clobbered' => src # dst /\ ~clobbered
    BY <1>4 DEF Write
  <2>5. ~clobbered' => Sound(q)
    BY <2>2, <2>3, <2>4 DEF Sound, PagesOf
  <2>6. \A s \in contents : s \in Seq(Pages) /\ (~clobbered' => Clean(s))
    BY <1>4, <2>3, <2>5, ReadingFacts, SavedPagesFacts
  <2>7. QED
    <3>1. PICK own \in BOOLEAN : own = (src = dst)
      OBVIOUS
    <3>2. Write("convert", "none", dst, kind, contents, own)
      BY <1>4, <3>1
    <3>3. QED
      BY <2>6, <3>2, WriteStep
<1>5. CASE disk[src] = Absent
  BY <1>1, <1>5 DEF Convert
<1>6. CASE disk[src] # Absent /\ ~Die("convert", "none", src)
  <2>1. PICK pk \in Opened(src) :
             \/ /\ KindOf(pk) \in {"null", "junk"}
                /\ Answer("false")
             \/ KindOf(pk) = "ofd" /\ ConvertOfd(pk, src, dst)
             \/ KindOf(pk) = "pdf" /\ ConvertPdf(pk, src, dst)
    BY <1>6 DEF Convert
  <2>2. CASE Answer("false")
    BY <1>3, <2>2
  <2>3. CASE KindOf(pk) = "ofd" /\ ConvertOfd(pk, src, dst)
    <3>1. CASE Write("convert", "none", dst, "pdf", Readings(pk), src = dst)
      BY <1>4, <1>6, <2>3, <3>1
    <3>2. QED
      BY <1>2, <1>3, <2>3, <3>1 DEF ConvertOfd
  <2>4. CASE KindOf(pk) = "pdf" /\ ConvertPdf(pk, src, dst)
    <3> DEFINE own == [pk EXCEPT !.stale = (src = dst)]
    <3>1. CASE Write("convert", "none", dst, "txt", Readings(own), src = dst)
      BY <1>4, <1>6, <2>4, <3>1
    <3>2. CASE Write("convert", "none", dst, "ofd", SavedPages("ofd", own), src = dst)
      BY <1>4, <1>6, <2>4, <3>2
    <3>3. QED
      BY <1>0, <1>1, <1>2, <2>4, <3>1, <3>2 DEF ConvertPdf
  <2>5. QED
    BY <2>1, <2>2, <2>3, <2>4
<1>7. QED
  BY <1>1, <1>5, <1>6

LEMMA NextEditInv == EditInv /\ [Next]_vars => EditInv'
<1> SUFFICES ASSUME EditInv, [Next]_vars PROVE EditInv'
  OBVIOUS
<1>1. CASE UNCHANGED vars
  <2>1. UNCHANGED disk /\ UNCHANGED pkg /\ UNCHANGED last /\ UNCHANGED alive
        /\ UNCHANGED built /\ UNCHANGED clobbered /\ UNCHANGED calls
    BY <1>1 DEF vars
  <2>2. TypeOK'
    BY <2>1 DEF EditInv, TypeOK
  <2>3. BuiltAsCalled'
    BY <2>1 DEF EditInv, BuiltAsCalled
  <2>4. NothingLostYet'
    BY <2>1 DEF EditInv, NothingLostYet, Sound, PagesOf, Clean
  <2>5. CopyMade'
    BY <2>1 DEF EditInv, CopyMade
  <2>6. QED
    BY <2>2, <2>3, <2>4, <2>5 DEF EditInv
<1>2. CASE NullArgument
  BY <1>2, AnswerStep DEF NullArgument, Codes
<1>3. QED
  BY <1>1, <1>2, OpenPackageStep, Save2FileStep, ClosePackageStep, AppendImagePageStep,
     AddTextOnPageStep, ConvertStep DEF Next

LEMMA EditInvariant == Spec => []EditInv
  BY InitEditInv, NextEditInv, PTL DEF Spec

-----------------------------------------------------------------------------
(* Files and packages stay well-formed over every sequence of calls, and a *)
(* handle that is NULL has no document.                                    *)
THEOREM EditingTypes == Spec => []TypeOK
<1>1. EditInv => TypeOK
  BY DEF EditInv
<1>2. QED
  BY <1>1, EditInvariant, PTL

(* A package holds the document its successful calls built, a copy that    *)
(* could be written holds it too, and pages are lost only where a file is  *)
(* written over while a package reads from it (xilou_AppendImagePage,      *)
(* xilou_AddTextOnPage, xilou_Save2File).                                  *)
THEOREM CopiesAreAsCalled == Spec => []SavedAsCalled
<1>1. EditInv => SavedAsCalled
  <2> SUFFICES ASSUME EditInv PROVE SavedAsCalled
    OBVIOUS
  <2>1. LostOnlyByOverwrite
    <3> SUFFICES ASSUME NEW p \in Paths, disk[p] # Absent, Contains(disk[p].pages, Lost),
                        ~clobbered
                 PROVE  FALSE
      BY DEF LostOnlyByOverwrite
    <3>1. Clean(disk[p].pages)
      BY DEF EditInv, NothingLostYet
    <3>2. QED
      BY <3>1, LostIsPage DEF Clean, Contains
  <2>2. QED
    BY <2>1 DEF EditInv, SavedAsCalled, CopyMade, KindFor
<1>2. QED
  BY <1>1, EditInvariant, PTL

(* A call that fails leaves all files and packages as they were; one that  *)
(* ends the process leaves all files but its target, and nothing there     *)
(* that passes for a whole file.                                           *)
THEOREM FailedCallsChangeNothing == Spec => FailuresContained
<1> DEFINE Contained ==
      /\ alive' /\ last'.code # XILOU_E_SUC => UNCHANGED <<disk, pkg>>
      /\ ~alive' => \A p \in Paths : \/ disk'[p] = disk[p]
                                     \/ p = last'.p /\ ~disk'[p].whole
<1>1. EditInv /\ [Next]_vars => [Contained]_vars
  <2> SUFFICES ASSUME EditInv, Next PROVE Contained
    OBVIOUS
  <2>1. ASSUME alive, NEW code, Answer(code) PROVE Contained
    BY <2>1 DEF Answer
  <2>2. ASSUME alive, NEW op, NEW h, NEW p, NotWritten(op, h, p) PROVE Contained
    BY <2>2 DEF NotWritten
  <2>3. ASSUME NEW op, NEW h, NEW p, Die(op, h, p) PROVE Contained
    BY <2>3 DEF Die
  <2>13. ASSUME NEW op, NEW h, NEW p \in Paths, NEW pk, NEW own, DieWriting(op, h, p, pk, own)
         PROVE  Contained
    <3>1. CASE Die(op, h, p)
      BY <2>3, <3>1
    <3>2. CASE ~Die(op, h, p)
      <4>1. /\ disk' = [disk EXCEPT ![p] = File("ofd", <<>>, FALSE)]
            /\ last' = Call(op, h, p, "killed", FALSE) /\ alive' = FALSE
        BY <2>13, <3>2 DEF DieWriting
      <4>2. disk \in [Paths -> Files \cup {Absent}]
        BY DEF EditInv, TypeOK
      <4>3. \A q \in Paths : q # p => disk'[q] = disk[q]
        BY <4>1, <4>2
      <4>4. disk'[p] = File("ofd", <<>>, FALSE) /\ last'.p = p
        BY <4>1, <4>2 DEF Call
      <4>5. ~disk'[p].whole
        BY <4>4 DEF File
      <4>6. ASSUME NEW q \in Paths PROVE disk'[q] = disk[q] \/ (q = last'.p /\ ~disk'[q].whole)
        BY <4>3, <4>4, <4>5
      <4>7. QED
        BY <4>1, <4>6
    <3>3. QED
      BY <3>1, <3>2
  <2>4. ASSUME alive, NEW op, NEW h, NEW p, NEW kind, NEW contents, NEW own,
               Write(op, h, p, kind, contents, own)
        PROVE  Contained
    BY <2>4 DEF Write, Call
  <2>5. ASSUME NEW h \in Handles, NEW p \in Paths, OpenPackage(h, p) PROVE Contained
    <3>1. CASE Die("open", h, p)
      BY <2>3, <3>1
    <3>2. CASE disk[p] # Absent /\ ~Die("open", h, p)
      <4>1. PICK pk \in Opened(p) :
              /\ pkg' = [pkg EXCEPT ![h] = pk]
              /\ last' = Call("open", h, p, IF pk = NoPackage THEN "null" ELSE XILOU_E_SUC, TRUE)
        BY <2>5, <3>2 DEF OpenPackage
      <4>2. alive' /\ disk' = disk /\ pkg[h] = NoPackage
        BY <2>5, <3>2 DEF OpenPackage
      <4>3. pk = NoPackage => pkg' = pkg
        BY <4>1, <4>2 DEF EditInv, TypeOK
      <4>4. QED
        BY <4>1, <4>2, <4>3 DEF Call
    <3>3. QED
      BY <2>5, <3>1, <3>2 DEF OpenPackage
  <2>6. ASSUME NEW h \in Handles, NEW p \in Paths, Save2File(h, p) PROVE Contained
    BY <2>1, <2>2, <2>4, <2>6, <2>13 DEF Save2File
  <2>7. ASSUME NEW h \in Handles, ClosePackage(h) PROVE Contained
    BY <2>7 DEF ClosePackage, Call
  <2>8. ASSUME NEW h \in Handles, NEW img \in Images, AppendImagePage(h, img) PROVE Contained
    <3>1. CASE \E code : Answer(code)
      BY <2>1, <2>8, <3>1 DEF AppendImagePage
    <3>2. CASE last'.code = XILOU_E_SUC /\ alive'
      BY <3>2
    <3>3. CASE /\ alive /\ UNCHANGED <<disk, alive, clobbered>>
               /\ last' = Call("edit", h, NoPath, XILOU_E_SUC, TRUE)
      BY <3>2, <3>3 DEF Call
    <3> HIDE DEF Contained
    <3>4. QED
      BY <2>8, <3>1, <3>3 DEF AppendImagePage
  <2>9. ASSUME NEW h \in Handles, NEW j \in Jsons, NEW idx \in -1 .. MaxPages,
               AddTextOnPage(h, idx, j)
        PROVE  Contained
    <3>1. CASE \E code : Answer(code)
      BY <2>1, <2>9, <3>1 DEF AddTextOnPage
    <3>2. CASE last'.code = XILOU_E_SUC /\ alive'
      BY <3>2
    <3>3. CASE /\ alive /\ UNCHANGED <<disk, alive, clobbered>>
               /\ last' = Call("edit", h, NoPath, XILOU_E_SUC, TRUE)
      BY <3>2, <3>3 DEF Call
    <3> HIDE DEF Contained
    <3>4. QED
      BY <2>3, <2>9, <3>1, <3>3 DEF AddTextOnPage
  <2>10. ASSUME NEW src \in Paths, NEW dst \in Paths, Convert(src, dst) PROVE Contained
    <3>1. alive
      BY <2>10 DEF Convert
    <3>2. ASSUME NEW pk, ConvertOfd(pk, src, dst) PROVE Contained
      BY <2>1, <2>2, <2>4, <3>1, <3>2 DEF ConvertOfd
    <3>3. ASSUME NEW pk, ConvertPdf(pk, src, dst) PROVE Contained
      BY <2>2, <2>3, <2>4, <2>13, <3>1, <3>3 DEF ConvertPdf
    <3>4. QED
      BY <2>1, <2>3, <2>10, <3>1, <3>2, <3>3 DEF Convert
  <2>11. ASSUME NullArgument PROVE Contained
    BY <2>1, <2>11 DEF NullArgument
  <2>12. QED
    BY <2>5, <2>6, <2>7, <2>8, <2>9, <2>10, <2>11 DEF Next
<1>2. QED
  BY <1>1, EditInvariant, PTL DEF Spec, FailuresContained

=============================================================================
