--------------------------- MODULE PdfToOfdProofs ---------------------------
(***************************************************************************)
(* Proofs about PdfToOfd, for every set of documents, fonts and addresses. *)
(***************************************************************************)
EXTENDS PdfToOfd, SequenceTheorems, TLAPS

(* The part of the type invariant the counter and the trees need.          *)
TreeType ==
  /\ nextId \in Nat
  /\ saved \in Nat
  /\ pages \in Seq([src : Nat, annots : Seq(Nat)])
  /\ docPages \in Seq(PageRef)
  /\ annots \in Seq(AnnotRef)

(* The counter bounds what was drawn from it.                              *)
Bounded ==
  \A n \in nodes : /\ n.id \in Nat /\ n.id <= nextId
                   /\ n.ref \in Nat /\ n.ref <= nextId
                   /\ n.kind = "font" => n.id # NoID

(* Document.xml is written last of all files that get IDs.                 *)
Saving == {"res", "annots", "ofd", "close", "end"}

DocumentLast ==
  docXml # NoDocument =>
    /\ pc \in Saving
    /\ \A n \in nodes : n.id < docXml.max

(* The pages of the Document tree are those saved so far, in order, and the *)
(* one whose annotations are next.                                         *)
PagesInStep ==
  /\ pc = "content" => saved = Len(docPages) + 1
  /\ pc = "annotation" => saved = Len(docPages) /\ saved \in 1 .. Len(pages)
  /\ \A k \in 1 .. Len(docPages) : docPages[k].loc = k
  /\ pc \in {"start", "page", "object"} => docPages = <<>>
  /\ pc = "object" => pages # <<>>

WriterInv ==
  /\ TreeType /\ Bounded /\ DocumentLast /\ PagesInStep
  /\ UniqueIds /\ TextFonts /\ AnnotsOnOwnPage

(* New nodes with IDs above the counter keep IDs apart.                    *)
LEMMA FreshNodes ==
  ASSUME NEW old, NEW new, NEW m \in Nat,
         \A n \in old : n.id \in Nat /\ n.id <= m,
         \A x, y \in old : x.id = y.id /\ x.id # NoID => x = y,
         \A n \in new : n.id \in Nat /\ (n.id = NoID \/ n.id > m),
         \A x, y \in new : x.id = y.id /\ x.id # NoID => x = y
  PROVE  \A x, y \in old \cup new : x.id = y.id /\ x.id # NoID => x = y
  BY DEF NoID

(* Changing the annotations of the last page keeps the pages' type.        *)
LEMMA AnnotsKept ==
  ASSUME NEW s \in Seq([src : Nat, annots : Seq(Nat)]), s # <<>>,
         NEW x \in Seq(Nat)
  PROVE  [s EXCEPT ![Len(s)].annots = @ \o x] \in Seq([src : Nat, annots : Seq(Nat)])
<1> DEFINE R == [src : Nat, annots : Seq(Nat)]
           r == [s[Len(s)] EXCEPT !.annots = @ \o x]
<1>1. Len(s) \in 1 .. Len(s)
  OBVIOUS
<1>2. s[Len(s)] \in R
  <2> HIDE DEF R
  <2> QED BY <1>1, ElementOfSeq DEF R
<1>3. s[Len(s)].annots \o x \in Seq(Nat)
  BY <1>2
<1>4. r \in R
  BY <1>2, <1>3
<1>5. [s EXCEPT ![Len(s)] = r] \in Seq(R)
  <2> HIDE DEF r, R
  <2> QED BY <1>1, <1>4, ExceptSeq DEF R
<1> QED BY <1>5

LEMMA WriterInit == Init => WriterInv
  BY WriterAssumption DEF Init, WriterInv, TreeType, Bounded, DocumentLast,
     PagesInStep, UniqueIds, TextFonts, AnnotsOnOwnPage, NoDocument

(* What the trees and the counter are made of.                             *)
state == <<nextId, nodes, pages, saved, docPages, annots, docXml, moved>>

(* A step that changes neither, and moves pc along, keeps the invariant.   *)
LEMMA WriterFrame ==
  ASSUME WriterInv, UNCHANGED state,
         docXml # NoDocument => pc' \in Saving,
         pc' \notin {"content", "annotation"},
         pc' \in {"start", "page", "object"} => docPages = <<>>,
         pc' = "object" => pages # <<>>
  PROVE  WriterInv'
<1>1. TreeType' /\ Bounded'
  BY DEF WriterInv, TreeType, Bounded, state
<1>2. DocumentLast'
  BY DEF WriterInv, DocumentLast, state
<1>3. PagesInStep'
  BY DEF WriterInv, PagesInStep, state
<1>4. UniqueIds' /\ TextFonts'
  BY DEF WriterInv, UniqueIds, TextFonts, state, FontNodes
<1>5. AnnotsOnOwnPage'
  BY DEF WriterInv, AnnotsOnOwnPage, state
<1> QED BY <1>1, <1>2, <1>3, <1>4, <1>5 DEF WriterInv

(* Neither does a stuttering step, or one that leaves pc alone as well.    *)
LEMMA WriterStutter ==
  ASSUME WriterInv, UNCHANGED <<state, pc>>
  PROVE  WriterInv'
<1>1. TreeType' /\ Bounded'
  BY DEF WriterInv, TreeType, Bounded, state
<1>2. DocumentLast'
  BY DEF WriterInv, DocumentLast, state
<1>3. PagesInStep'
  BY DEF WriterInv, PagesInStep, state
<1>4. UniqueIds' /\ TextFonts'
  BY DEF WriterInv, UniqueIds, TextFonts, state, FontNodes
<1>5. AnnotsOnOwnPage'
  BY DEF WriterInv, AnnotsOnOwnPage, state
<1> QED BY <1>1, <1>2, <1>3, <1>4, <1>5 DEF WriterInv
(* Nodes made before Document.xml is written, with IDs drawn for them.     *)
LEMMA NodesAdded ==
  ASSUME WriterInv, docXml = NoDocument, docXml' = docXml,
         NEW new, nodes' = nodes \cup new,
         nextId' \in Nat, nextId <= nextId',
         \A n \in new : /\ n.id \in Nat /\ n.id <= nextId'
                        /\ n.id = NoID \/ n.id > nextId
                        /\ n.ref \in Nat /\ n.ref <= nextId'
                        /\ n.kind = "font" => n.id # NoID,
         \A m, n \in new : m.id = n.id /\ m.id # NoID => m = n
  PROVE  Bounded' /\ UniqueIds' /\ DocumentLast'
<1>1. nextId \in Nat
  BY DEF WriterInv, TreeType
<1>2. Bounded'
  BY <1>1 DEF WriterInv, Bounded
<1>3. \A n \in nodes : n.id \in Nat /\ n.id <= nextId
  BY DEF WriterInv, Bounded
<1>4. \A m, n \in nodes : m.id = n.id /\ m.id # NoID => m = n
  BY DEF WriterInv, UniqueIds
<1>5. UniqueIds'
  BY <1>1, <1>3, <1>4, FreshNodes DEF UniqueIds
<1>6. DocumentLast'
  BY DEF DocumentLast
<1> QED BY <1>2, <1>5, <1>6

(* Without a new text or font nothing happens to the fonts of the texts.   *)
LEMMA FontsUntouched ==
  ASSUME WriterInv, moved' = moved, NEW new, nodes' = nodes \cup new,
         \A n \in new : n.kind \notin {"text", "font"}
  PROVE  TextFonts'
  BY DEF WriterInv, TextFonts

LEMMA WriterConvertPlain == WriterInv /\ ConvertPlain => WriterInv'
<1> SUFFICES ASSUME WriterInv, ConvertPlain PROVE WriterInv'
  OBVIOUS
<1> USE DEF ConvertPlain, AtObject
<1> DEFINE new == {Node(NoID, Obj.kind, cursor, NoID, NoFont)}
<1>1. docXml = NoDocument /\ docXml' = docXml
  BY DEF WriterInv, DocumentLast, Saving, disk
<1>2. nextId \in Nat
  BY DEF WriterInv, TreeType
<1>3. \A n \in new : n.id = NoID /\ n.ref = NoID /\ n.kind \in {"path", "noimage"}
  BY DEF Node
<1>4. NoID \in Nat /\ NoID <= nextId
  BY <1>2 DEF NoID
<1>5. nodes' = nodes \cup new /\ nextId' = nextId /\ moved' = moved
  OBVIOUS
<1> HIDE DEF new
<1>6. Bounded' /\ UniqueIds' /\ DocumentLast'
  BY <1>1, <1>2, <1>3, <1>4, <1>5, NodesAdded
<1>7. TextFonts'
  BY <1>3, <1>5, FontsUntouched
<1>8. TreeType' /\ PagesInStep' /\ AnnotsOnOwnPage'
  BY DEF WriterInv, TreeType, PagesInStep, AnnotsOnOwnPage
<1> QED BY <1>6, <1>7, <1>8 DEF WriterInv

LEMMA WriterConvertImage == WriterInv /\ ConvertImage => WriterInv'
<1> SUFFICES ASSUME WriterInv, ConvertImage PROVE WriterInv'
  OBVIOUS
<1>0. PICK ok \in BOOLEAN :
         /\ nodes' = nodes \cup ImageNodes(ok)
         /\ nextId' = IF ok THEN nextId + 2 ELSE nextId + 1
  BY DEF ConvertImage
<1>1. docXml = NoDocument /\ docXml' = docXml
  BY DEF ConvertImage, AtObject, WriterInv, DocumentLast, Saving, disk
<1>2. nextId \in Nat
  BY DEF WriterInv, TreeType
<1>3. \A n \in ImageNodes(ok) :
         /\ n.id \in Nat /\ n.id <= nextId' /\ n.id > nextId
         /\ n.ref \in Nat /\ n.ref <= nextId'
         /\ n.kind \notin {"text", "font"}
  BY <1>0, <1>2 DEF ImageNodes, Node, NoID
<1>4. \A m, n \in ImageNodes(ok) : m.id = n.id => m = n
  BY <1>2 DEF ImageNodes, Node
<1>5. nextId' \in Nat /\ nextId <= nextId' /\ moved' = moved
  BY <1>0, <1>2 DEF ConvertImage
<1>6. Bounded' /\ UniqueIds' /\ DocumentLast'
  BY <1>0, <1>1, <1>3, <1>4, <1>5, NodesAdded DEF NoID
<1>7. TextFonts'
  BY <1>0, <1>3, <1>5, FontsUntouched
<1>8. TreeType' /\ PagesInStep' /\ AnnotsOnOwnPage'
  BY <1>5 DEF ConvertImage, AtObject, WriterInv, TreeType, PagesInStep, AnnotsOnOwnPage
<1> QED BY <1>6, <1>7, <1>8 DEF WriterInv

LEMMA WriterConvertText == WriterInv /\ ConvertText => WriterInv'
<1> SUFFICES ASSUME WriterInv, ConvertText PROVE WriterInv'
  OBVIOUS
<1>1. docXml = NoDocument /\ docXml' = docXml
  BY DEF ConvertText, AtObject, WriterInv, DocumentLast, Saving, disk
<1>2. nextId \in Nat
  BY DEF WriterInv, TreeType
<1>3. PICK a \in AddrsOf(Obj.font) :
         \/ \E n \in nodes :
              /\ KnownFont(a, n) \/ NamedFont(Obj.font, a, n)
              /\ nextId' = nextId + 1
              /\ nodes' = nodes \cup {Node(nextId', "text", cursor, n.id, Obj.font)}
              /\ moved' = (moved \/ (KnownFont(a, n) /\ n.font # Obj.font))
         \/ /\ nextId' = nextId + 2
            /\ nodes' = nodes \cup
                 {Node(nextId + 1, "text", cursor, nextId + 2, Obj.font),
                  Node(nextId + 2, "font", cursor, NoID, Obj.font)}
            /\ moved' = moved
  BY DEF ConvertText
<1> DEFINE f == Obj.font
<1>4. CASE \E n \in nodes :
              /\ KnownFont(a, n) \/ NamedFont(Obj.font, a, n)
              /\ nextId' = nextId + 1
              /\ nodes' = nodes \cup {Node(nextId', "text", cursor, n.id, Obj.font)}
              /\ moved' = (moved \/ (KnownFont(a, n) /\ n.font # Obj.font))
  <2>1. PICK n \in nodes :
              /\ KnownFont(a, n) \/ NamedFont(f, a, n)
              /\ nextId' = nextId + 1
              /\ nodes' = nodes \cup {Node(nextId', "text", cursor, n.id, f)}
              /\ moved' = (moved \/ (KnownFont(a, n) /\ n.font # f))
    BY <1>4
  <2> DEFINE t == Node(nextId', "text", cursor, n.id, f)
  <2>2. t.id = nextId + 1 /\ t.ref = n.id /\ t.kind = "text" /\ t.font = f
    BY <2>1 DEF Node
  <2>3. nodes' = nodes \cup {t}
    BY <2>1
  <2>4. n.kind = "font"
    BY <2>1 DEF KnownFont, NamedFont, SameFont, FontNodes
  <2>5. n.id \in Nat /\ n.id <= nextId /\ n.id # NoID
    BY <2>4 DEF WriterInv, Bounded
  <2>6. ~moved' => ~moved /\ FontName[n.font] = FontName[f]
    BY <2>1 DEF KnownFont, NamedFont, SameFont
  <2> HIDE DEF t
  <2>7. nextId' \in Nat /\ nextId <= nextId'
    BY <1>2, <2>1
  <2>8. Bounded' /\ UniqueIds' /\ DocumentLast'
    <3> DEFINE new == {t}
    <3>1. nodes' = nodes \cup new
      BY <2>3
    <3>2. \A m \in new : /\ m.id \in Nat /\ m.id <= nextId'
                         /\ m.id = NoID \/ m.id > nextId
                         /\ m.ref \in Nat /\ m.ref <= nextId'
                         /\ m.kind = "font" => m.id # NoID
      BY <1>2, <2>1, <2>2, <2>5
    <3>3. \A l, m \in new : l.id = m.id /\ l.id # NoID => l = m
      OBVIOUS
    <3> HIDE DEF new
    <3> QED BY <1>1, <2>7, <3>1, <3>2, <3>3, NodesAdded
  <2>9. TextFonts'
    <3> SUFFICES ASSUME ~moved', NEW u \in nodes', NEW m \in nodes',
                        u.kind = "text", m.kind = "font", m.id = u.ref
                 PROVE  FontName[m.font] = FontName[u.font]
      BY DEF TextFonts
    <3>1. m \in nodes
      BY <2>2, <2>3
    <3>2. CASE u \in nodes
      BY <2>6, <3>1, <3>2 DEF WriterInv, TextFonts
    <3>3. CASE u = t
      <4>1. m = n
        BY <2>2, <2>5, <3>1, <3>3 DEF WriterInv, UniqueIds
      <4> QED BY <2>2, <2>6, <3>3, <4>1
    <3> QED BY <2>3, <3>2, <3>3
  <2>10. TreeType' /\ PagesInStep' /\ AnnotsOnOwnPage'
    BY <2>7 DEF ConvertText, AtObject, WriterInv, TreeType, PagesInStep, AnnotsOnOwnPage
  <2> QED BY <2>8, <2>9, <2>10 DEF WriterInv
<1>5. CASE /\ nextId' = nextId + 2
           /\ nodes' = nodes \cup
                {Node(nextId + 1, "text", cursor, nextId + 2, Obj.font),
                 Node(nextId + 2, "font", cursor, NoID, Obj.font)}
           /\ moved' = moved
  <2> DEFINE t == Node(nextId + 1, "text", cursor, nextId + 2, f)
             n == Node(nextId + 2, "font", cursor, NoID, f)
  <2>1. t.id = nextId + 1 /\ t.ref = nextId + 2 /\ t.kind = "text" /\ t.font = f
    BY DEF Node
  <2>2. n.id = nextId + 2 /\ n.ref = NoID /\ n.kind = "font" /\ n.font = f
    BY DEF Node
  <2>3. nodes' = nodes \cup {t, n}
    BY <1>5
  <2> HIDE DEF t, n
  <2>4. nextId' \in Nat /\ nextId <= nextId'
    BY <1>2, <1>5
  <2>5. Bounded' /\ UniqueIds' /\ DocumentLast'
    <3> DEFINE new == {t, n}
    <3>1. nodes' = nodes \cup new
      BY <2>3
    <3>2. \A m \in new : /\ m.id \in Nat /\ m.id <= nextId'
                         /\ m.id = NoID \/ m.id > nextId
                         /\ m.ref \in Nat /\ m.ref <= nextId'
                         /\ m.kind = "font" => m.id # NoID
      BY <1>2, <1>5, <2>1, <2>2 DEF NoID
    <3>3. \A l, m \in new : l.id = m.id /\ l.id # NoID => l = m
      BY <1>2, <2>1, <2>2
    <3> HIDE DEF new
    <3> QED BY <1>1, <2>4, <3>1, <3>2, <3>3, NodesAdded
  <2>6. TextFonts'
    <3> SUFFICES ASSUME ~moved', NEW u \in nodes', NEW m \in nodes',
                        u.kind = "text", m.kind = "font", m.id = u.ref
                 PROVE  FontName[m.font] = FontName[u.font]
      BY DEF TextFonts
    <3>1. CASE u \in nodes
      <4>1. u.ref <= nextId /\ u.ref \in Nat
        BY <3>1 DEF WriterInv, Bounded
      <4>2. m # n /\ m # t
        BY <1>2, <2>1, <2>2, <4>1
      <4> QED BY <1>5, <2>3, <3>1, <4>2 DEF WriterInv, TextFonts
    <3>2. CASE u = t
      <4>1. m \notin nodes
        BY <1>2, <2>1, <3>2 DEF WriterInv, Bounded
      <4>2. m = n
        BY <2>1, <2>3, <4>1
      <4> QED BY <2>1, <2>2, <3>2, <4>2
    <3>3. u # n
      BY <2>2
    <3> QED BY <2>3, <3>1, <3>2, <3>3
  <2>7. TreeType' /\ PagesInStep' /\ AnnotsOnOwnPage'
    BY <2>4 DEF ConvertText, AtObject, WriterInv, TreeType, PagesInStep, AnnotsOnOwnPage
  <2> QED BY <2>5, <2>6, <2>7 DEF WriterInv
<1> QED BY <1>3, <1>4, <1>5
LEMMA WriterSaveContent == WriterInv /\ SaveContent => WriterInv'
<1> SUFFICES ASSUME WriterInv, SaveContent PROVE WriterInv'
  OBVIOUS
<1> DEFINE new == {Node(nextId + 1, "layer", <<Src, 0, 0>>, NoID, NoFont),
                   Node(nextId + 2, "page", <<Src, 0, 0>>, NoID, NoFont)}
           ref == [id |-> nextId + 2, loc |-> saved]
<1>0. /\ nodes' = nodes \cup new /\ nextId' = nextId + 2 /\ moved' = moved
      /\ pc = "content" /\ pc' \in {"annotation", "close"}
      /\ saved <= Len(pages)
      /\ \/ pc' = "annotation" /\ docPages' = Append(docPages, ref)
         \/ pc' = "close" /\ docPages' = docPages
      /\ UNCHANGED <<pages, saved, annots>>
  BY DEF SaveContent
<1>1. docXml = NoDocument /\ docXml' = docXml
  BY DEF SaveContent, WriterInv, DocumentLast, Saving, disk
<1>2. TreeType
  BY DEF WriterInv
<1>3. nextId \in Nat /\ nextId' \in Nat /\ nextId <= nextId' /\ saved \in Nat
  BY <1>0, <1>2 DEF TreeType
<1>4. \A n \in new : /\ n.id \in Nat /\ n.id <= nextId' /\ n.id > nextId
                     /\ n.ref \in Nat /\ n.ref <= nextId'
                     /\ n.kind \notin {"text", "font"}
  BY <1>0, <1>3 DEF Node, NoID
<1>5. \A m, n \in new : m.id = n.id => m = n
  BY <1>3 DEF Node
<1>6. ref \in PageRef /\ ref.loc = saved
  BY <1>3 DEF PageRef
<1> HIDE DEF new, ref
<1>7. Bounded' /\ UniqueIds' /\ DocumentLast'
  BY <1>0, <1>1, <1>3, <1>4, <1>5, NodesAdded
<1>8. TextFonts'
  BY <1>0, <1>4, FontsUntouched
<1>9. /\ Append(docPages, ref) \in Seq(PageRef)
      /\ Len(Append(docPages, ref)) = Len(docPages) + 1
      /\ \A k \in 1 .. Len(docPages) : Append(docPages, ref)[k] = docPages[k]
      /\ Append(docPages, ref)[Len(docPages) + 1] = ref
      /\ Len(docPages) \in Nat
  BY <1>2, <1>6, AppendProperties, LenProperties DEF TreeType
<1>10. TreeType'
  BY <1>0, <1>2, <1>3, <1>9 DEF TreeType
<1>11. PagesInStep'
  <2>1. saved = Len(docPages) + 1 /\ saved \in 1 .. Len(pages)
    BY <1>0, <1>3, <1>9, LenProperties DEF WriterInv, PagesInStep, TreeType
  <2>2. \A k \in 1 .. Len(docPages) : docPages[k].loc = k
    BY DEF WriterInv, PagesInStep
  <2>3. CASE pc' = "annotation" /\ docPages' = Append(docPages, ref)
    <3>1. \A k \in 1 .. Len(docPages') : docPages'[k].loc = k
      BY <1>6, <1>9, <2>1, <2>2, <2>3
    <3> QED BY <1>0, <1>9, <2>1, <2>3, <3>1 DEF PagesInStep
  <2>4. CASE pc' = "close" /\ docPages' = docPages
    BY <2>2, <2>4 DEF PagesInStep
  <2> QED BY <1>0, <2>3, <2>4
<1>12. AnnotsOnOwnPage'
  <2> SUFFICES ASSUME NEW i \in 1 .. Len(annots)
               PROVE  \E k \in 1 .. Len(docPages') :
                        docPages'[k] = [id |-> annots[i].page, loc |-> annots[i].loc]
    BY <1>0 DEF AnnotsOnOwnPage
  <2>1. PICK k \in 1 .. Len(docPages) :
           docPages[k] = [id |-> annots[i].page, loc |-> annots[i].loc]
    BY DEF WriterInv, AnnotsOnOwnPage
  <2>2. k \in 1 .. Len(docPages') /\ docPages'[k] = docPages[k]
    BY <1>0, <1>9
  <2> QED BY <2>1, <2>2
<1> QED BY <1>7, <1>8, <1>10, <1>11, <1>12 DEF WriterInv

LEMMA WriterSaveAnnotation == WriterInv /\ SaveAnnotation => WriterInv'
<1> SUFFICES ASSUME WriterInv, SaveAnnotation PROVE WriterInv'
  OBVIOUS
<1> DEFINE kept == pages[saved].annots
           N(i) == Node(nextId + i, "annot", <<Src, kept[i], 0>>, NoID, NoFont)
           new == {N(i) : i \in 1 .. Len(kept)}
           ref == [page |-> AnnotPage, loc |-> saved]
<1>0. /\ nodes' = nodes \cup new /\ nextId' = nextId + Len(kept) /\ moved' = moved
      /\ pc = "annotation" /\ pc' = "content" /\ saved' = saved + 1
      /\ annots' = Append(annots, ref) \/ annots' = annots
      /\ UNCHANGED <<pages, docPages>>
  BY DEF SaveAnnotation
<1>1. docXml = NoDocument /\ docXml' = docXml
  BY DEF SaveAnnotation, WriterInv, DocumentLast, Saving, disk
<1>2. TreeType
  BY DEF WriterInv
<1>3. saved = Len(docPages) /\ saved \in 1 .. Len(pages)
  BY <1>0 DEF WriterInv, PagesInStep
<1>4. Len(kept) \in Nat
  <2> DEFINE R == [src : Nat, annots : Seq(Nat)]
  <2>1. pages[saved] \in R
    <3> HIDE DEF R
    <3> QED BY <1>2, <1>3, ElementOfSeq DEF TreeType, R
  <2> QED BY <2>1, LenProperties
<1>5. nextId \in Nat /\ nextId' \in Nat /\ nextId <= nextId'
  BY <1>0, <1>2, <1>4 DEF TreeType
<1> HIDE DEF kept
<1>6. \A i \in 1 .. Len(kept) : /\ N(i).id = nextId + i /\ N(i).ref = NoID
                                /\ N(i).kind = "annot"
  BY DEF Node
<1> HIDE DEF N
<1>7. \A n \in new : /\ n.id \in Nat /\ n.id <= nextId' /\ n.id > nextId
                     /\ n.ref \in Nat /\ n.ref <= nextId'
                     /\ n.kind \notin {"text", "font"}
  <2> SUFFICES ASSUME NEW i \in 1 .. Len(kept)
               PROVE  /\ N(i).id \in Nat /\ N(i).id <= nextId' /\ N(i).id > nextId
                      /\ N(i).ref \in Nat /\ N(i).ref <= nextId'
                      /\ N(i).kind \notin {"text", "font"}
    OBVIOUS
  <2> QED BY <1>0, <1>4, <1>5, <1>6 DEF NoID
<1>8. \A m, n \in new : m.id = n.id => m = n
  <2> SUFFICES ASSUME NEW i \in 1 .. Len(kept), NEW j \in 1 .. Len(kept),
                      N(i).id = N(j).id
               PROVE  N(i) = N(j)
    OBVIOUS
  <2>1. i = j
    BY <1>4, <1>5, <1>6
  <2> QED BY <2>1
<1> HIDE DEF new
<1>9. Bounded' /\ UniqueIds' /\ DocumentLast'
  BY <1>0, <1>1, <1>5, <1>7, <1>8, NodesAdded
<1>10. TextFonts'
  BY <1>0, <1>7, FontsUntouched
<1>11. /\ docPages[saved] \in PageRef /\ docPages[saved].loc = saved
       /\ saved \in 1 .. Len(docPages)
  <2>1. saved \in 1 .. Len(docPages)
    BY <1>3
  <2> QED BY <1>2, <2>1, ElementOfSeq DEF TreeType, WriterInv, PagesInStep
<1>12. ref \in AnnotRef /\ docPages[saved] = [id |-> ref.page, loc |-> ref.loc]
  BY <1>11 DEF AnnotRef, PageRef, AnnotPage
<1> HIDE DEF ref
<1>13. /\ Append(annots, ref) \in Seq(AnnotRef)
       /\ Len(Append(annots, ref)) = Len(annots) + 1
       /\ \A k \in 1 .. Len(annots) : Append(annots, ref)[k] = annots[k]
       /\ Append(annots, ref)[Len(annots) + 1] = ref
       /\ Len(annots) \in Nat
  BY <1>2, <1>12, AppendProperties, LenProperties DEF TreeType
<1>14. TreeType'
  <2>1. annots \in Seq(AnnotRef) /\ saved \in Nat
    BY <1>2 DEF TreeType
  <2>2. annots' \in Seq(AnnotRef)
    BY <1>0, <1>13, <2>1
  <2>3. saved' \in Nat
    BY <1>0, <2>1
  <2> QED BY <1>0, <1>2, <1>5, <2>2, <2>3 DEF TreeType
<1>15. PagesInStep'
  BY <1>0, <1>3 DEF WriterInv, PagesInStep
<1>16. AnnotsOnOwnPage'
  <2> SUFFICES ASSUME NEW i \in 1 .. Len(annots')
               PROVE  \E k \in 1 .. Len(docPages) :
                        docPages[k] = [id |-> annots'[i].page, loc |-> annots'[i].loc]
    BY <1>0 DEF AnnotsOnOwnPage
  <2>1. CASE i \in 1 .. Len(annots)
    <3>1. annots'[i] = annots[i]
      BY <1>0, <1>13, <2>1
    <3> QED BY <2>1, <3>1 DEF WriterInv, AnnotsOnOwnPage
  <2>2. CASE i \notin 1 .. Len(annots)
    <3>1. annots'[i] = ref
      BY <1>0, <1>13, <2>2
    <3> QED BY <1>11, <1>12, <3>1
  <2> QED BY <2>1, <2>2
<1> QED BY <1>9, <1>10, <1>14, <1>15, <1>16 DEF WriterInv
LEMMA WriterSaveDocument == WriterInv /\ SaveDocument => WriterInv'
<1> SUFFICES ASSUME WriterInv, SaveDocument PROVE WriterInv'
  OBVIOUS
<1>1. docXml = NoDocument
  BY DEF SaveDocument, WriterInv, DocumentLast, Saving
<1>2. /\ nextId' = nextId + 1 /\ nextId \in Nat
      /\ UNCHANGED <<nodes, pages, saved, docPages, annots, moved>>
      /\ pc' \in {"res", "ofd"}
      /\ docXml'.max = nextId + 1 \/ docXml' = docXml
  BY DEF SaveDocument, WriterInv, TreeType, tree, MaxUnitID
<1>3. TreeType'
  BY <1>2 DEF WriterInv, TreeType
<1>4. Bounded'
  BY <1>2 DEF WriterInv, Bounded
<1>5. DocumentLast'
  <2>1. \A n \in nodes : n.id \in Nat /\ n.id <= nextId
    BY DEF WriterInv, Bounded
  <2>2. \A n \in nodes : n.id < nextId + 1
    BY <1>2, <2>1
  <2> QED BY <1>1, <1>2, <2>2 DEF DocumentLast, Saving
<1>6. PagesInStep'
  BY <1>2 DEF WriterInv, PagesInStep
<1>7. UniqueIds' /\ TextFonts' /\ AnnotsOnOwnPage'
  BY <1>2 DEF WriterInv, UniqueIds, TextFonts, AnnotsOnOwnPage
<1> QED BY <1>3, <1>4, <1>5, <1>6, <1>7 DEF WriterInv

(* The loop variables are numbers.                                         *)
CursorType == page \in Nat /\ part \in Nat

LEMMA CursorStep == CursorType /\ [Next]_vars => CursorType'
<1> SUFFICES ASSUME CursorType, [Next]_vars PROVE CursorType'
  OBVIOUS
<1> USE DEF CursorType, cursor, vars
<1>1. CASE SkipPage \/ LoadPage \/ ClosePage
  <2>1. /\ page' = page + 1 \/ page' = page
        /\ part' = part \/ part' = 0
    BY <1>1 DEF SkipPage, LoadPage, ClosePage
  <2> QED BY <2>1
<1>2. CASE NextPart
  BY <1>2 DEF NextPart
<1>3. CASE ConvertPlain \/ ConvertDies \/ SkipShading \/ ConvertText \/ ConvertImage
  BY <1>3 DEF ConvertPlain, ConvertDies, SkipShading, ConvertText, ConvertImage
<1>4. CASE \/ Refuse \/ SetPath \/ SaveBegins \/ SaveContent \/ SaveAnnotation
           \/ SaveDocument \/ SaveRes \/ SaveAnnots \/ SaveOfdXml \/ Return
           \/ UNCHANGED vars
  <2>1. UNCHANGED <<page, part>>
    BY <1>4 DEF Refuse, SetPath, SaveBegins, SaveContent, SaveAnnotation,
       SaveDocument, SaveRes, SaveAnnots, SaveOfdXml, Return
  <2> QED BY <2>1
<1> QED BY <1>1, <1>2, <1>3, <1>4 DEF Next

(* Steps that touch nothing but the pages, while they are converted.       *)
LEMMA PagesChanged ==
  ASSUME WriterInv, pc \in {"page", "object"}, pc' \in {"page", "object"},
         UNCHANGED <<nextId, nodes, saved, docPages, annots, docXml, moved>>,
         pages' \in Seq([src : Nat, annots : Seq(Nat)]),
         pc' = "object" => pages' # <<>>
  PROVE  WriterInv'
<1>1. TreeType' /\ Bounded'
  BY DEF WriterInv, TreeType, Bounded
<1>2. DocumentLast'
  BY DEF WriterInv, DocumentLast, Saving
<1>3. PagesInStep'
  BY DEF WriterInv, PagesInStep
<1>4. UniqueIds' /\ TextFonts' /\ AnnotsOnOwnPage'
  BY DEF WriterInv, UniqueIds, TextFonts, AnnotsOnOwnPage
<1> QED BY <1>1, <1>2, <1>3, <1>4 DEF WriterInv

LEMMA WriterLoadPage == WriterInv /\ CursorType /\ LoadPage => WriterInv'
<1> SUFFICES ASSUME WriterInv, CursorType, LoadPage PROVE WriterInv'
  OBVIOUS
<1> DEFINE R == [src : Nat, annots : Seq(Nat)]
           r == [src |-> page, annots |-> <<>>]
<1>1. r \in R
  BY DEF CursorType
<1>2. pages \in Seq(R)
  BY DEF WriterInv, TreeType
<1>3. pages' = Append(pages, r)
  BY DEF LoadPage
<1> HIDE DEF r, R
<1>4. pages' \in Seq(R) /\ Len(pages') = Len(pages) + 1 /\ Len(pages) \in Nat
  BY <1>1, <1>2, <1>3, AppendProperties, LenProperties
<1>5. pages' # <<>>
  BY <1>4
<1>6. /\ pc = "page" /\ pc' = "object"
      /\ UNCHANGED <<nextId, nodes, saved, docPages, annots, docXml, moved>>
  BY DEF LoadPage, tree, disk
<1> QED BY <1>4, <1>5, <1>6, PagesChanged DEF R

LEMMA WriterNextPart ==
  WriterInv /\ CursorType /\ (NextPart \/ ClosePage) => WriterInv'
<1> SUFFICES ASSUME WriterInv, CursorType, NextPart \/ ClosePage PROVE WriterInv'
  OBVIOUS
<1>1. Kept(part) \in Seq(Nat)
  BY DEF Kept, CursorType
<1>2. /\ pc = "object" /\ pc' \in {"page", "object"}
      /\ UNCHANGED <<nextId, nodes, saved, docPages, annots, docXml, moved>>
      /\ pages' = [pages EXCEPT ![Len(pages)].annots = @ \o Kept(part)]
  BY DEF NextPart, ClosePage, EndOfPart, tree, disk
<1>3. pages \in Seq([src : Nat, annots : Seq(Nat)]) /\ pages # <<>>
  BY <1>2 DEF WriterInv, TreeType, PagesInStep
<1> HIDE DEF Kept
<1>4. pages' \in Seq([src : Nat, annots : Seq(Nat)])
  BY <1>1, <1>2, <1>3, AnnotsKept
<1>5. pages' # <<>>
  <2>1. DOMAIN pages' = DOMAIN pages
    BY <1>2
  <2>2. DOMAIN pages = 1 .. Len(pages) /\ DOMAIN pages' = 1 .. Len(pages')
    BY <1>3, <1>4, LenProperties
  <2>3. 1 \in DOMAIN pages
    BY <1>3, <2>2, EmptySeq, LenProperties
  <2> QED BY <2>1, <2>3
<1> QED BY <1>2, <1>4, <1>5, PagesChanged

LEMMA WriterSaveBegins == WriterInv /\ SaveBegins => WriterInv'
<1> SUFFICES ASSUME WriterInv, SaveBegins PROVE WriterInv'
  OBVIOUS
<1>1. /\ pc = "page" /\ pc' = "content" /\ saved' = 1
      /\ UNCHANGED <<nextId, nodes, pages, docPages, annots, docXml, moved>>
  BY DEF SaveBegins, tree, disk
<1>2. TreeType' /\ Bounded'
  BY <1>1 DEF WriterInv, TreeType, Bounded
<1>3. DocumentLast'
  BY <1>1 DEF WriterInv, DocumentLast, Saving
<1>4. PagesInStep'
  <2>1. docPages = <<>> /\ Len(docPages) = 0
    BY <1>1, EmptySeq DEF WriterInv, PagesInStep
  <2> QED BY <1>1, <2>1 DEF PagesInStep
<1>5. UniqueIds' /\ TextFonts' /\ AnnotsOnOwnPage'
  BY <1>1 DEF WriterInv, UniqueIds, TextFonts, AnnotsOnOwnPage
<1> QED BY <1>2, <1>3, <1>4, <1>5 DEF WriterInv

LEMMA WriterStep == WriterInv /\ CursorType /\ [Next]_vars => WriterInv'
<1> SUFFICES ASSUME WriterInv, CursorType, [Next]_vars PROVE WriterInv'
  OBVIOUS
<1>1. CASE ConvertPlain
  BY <1>1, WriterConvertPlain
<1>2. CASE ConvertImage
  BY <1>2, WriterConvertImage
<1>3. CASE ConvertText
  BY <1>3, WriterConvertText
<1>4. CASE LoadPage
  BY <1>4, WriterLoadPage
<1>5. CASE NextPart \/ ClosePage
  BY <1>5, WriterNextPart
<1>6. CASE SaveBegins
  BY <1>6, WriterSaveBegins
<1>7. CASE SaveContent
  BY <1>7, WriterSaveContent
<1>8. CASE SaveAnnotation
  BY <1>8, WriterSaveAnnotation
<1>9. CASE SaveDocument
  BY <1>9, WriterSaveDocument
<1>10. CASE SkipPage \/ SkipShading \/ UNCHANGED vars
  <2>1. UNCHANGED <<state, pc>>
    BY <1>10 DEF SkipPage, SkipShading, vars, state, tree, disk
  <2> QED BY <2>1, WriterStutter
<1>11. CASE SetPath
  <2>1. UNCHANGED state /\ pc = "start" /\ pc' = "page"
    BY <1>11 DEF SetPath, state, tree, disk
  <2>2. docPages = <<>> /\ docXml = NoDocument
    BY <2>1 DEF WriterInv, PagesInStep, DocumentLast, Saving
  <2> QED BY <2>1, <2>2, WriterFrame
<1>12. CASE Refuse \/ SaveRes \/ SaveAnnots \/ SaveOfdXml \/ Return
  <2>1. UNCHANGED state /\ pc' \in Saving
    BY <1>12 DEF Refuse, SaveRes, SaveAnnots, SaveOfdXml, Return, state, tree,
       disk, Saving
  <2> QED BY <2>1, WriterFrame DEF Saving
<1>13. CASE ConvertDies
  <2>1. UNCHANGED state /\ pc = "object" /\ pc' = "dead"
    BY <1>13 DEF ConvertDies, AtObject, state, tree, disk
  <2>2. docXml = NoDocument
    BY <2>1 DEF WriterInv, DocumentLast, Saving
  <2> QED BY <2>1, <2>2, WriterFrame
<1> QED BY <1>1, <1>2, <1>3, <1>4, <1>5, <1>6, <1>7, <1>8, <1>9, <1>10, <1>11,
           <1>12, <1>13 DEF Next

LEMMA WriterInvariant == Spec => []WriterInv
<1>1. Init => CursorType
  BY DEF Init, CursorType
<1> QED BY <1>1, CursorStep, WriterInit, WriterStep, PTL DEF Spec

(* The IDs of pdf2ofd's package are unique: for every document, whatever    *)
(* writes fail, no two elements get one ID of Cxml_package::getUniqueID.   *)
THEOREM PackageIdsUnique == Spec => []UniqueIds
  BY WriterInvariant, PTL DEF WriterInv

(* The MaxUnitID createCommonData writes covers all files of the package:   *)
(* no ID is drawn after Document.xml, for every document.                  *)
THEOREM PackageMaxUnitID == Spec => []MaxUnitIDCovers
<1>1. WriterInv => MaxUnitIDCovers
  BY DEF WriterInv, DocumentLast, MaxUnitIDCovers
<1> QED BY <1>1, WriterInvariant, PTL

(* Texts name fonts of their own name (Cxml_Res::getFontID), for every set  *)
(* of fonts and names, while no remembered address is given away again.    *)
THEOREM TextsKeepTheirFont == Spec => []TextFonts
  BY WriterInvariant, PTL DEF WriterInv

(* Cxml_Document::appendAnnot attaches annotations to the page they were    *)
(* saved with, for any number of pages, whichever writes fail.             *)
THEOREM AnnotationsKeepTheirPage == Spec => []AnnotsOnOwnPage
  BY WriterInvariant, PTL DEF WriterInv

-----------------------------------------------------------------------------
(***************************************************************************)
(* A package is whole.  WholeIfNothingFailed speaks of the end only: the   *)
(* invariant follows the objects from page to page into the tree, and the   *)
(* tree from file to file into the archive.                                *)
(***************************************************************************)
(* The objects of a part of page l, as Objects gives them.                 *)
ObjsOf(d, l, p) ==
  IF p = 0 THEN d.pages[l].objs ELSE d.pages[l].annots[p].objs

(* An object is in the tree N, or is a shading.                            *)
ObjectShown(d, N, l, p, i) ==
  \/ ObjsOf(d, l, p)[i].kind = "shading"
  \/ \E n \in N : n.at = <<l, p, i>>

HasForm(d, l, p) == p > 0 => d.pages[l].annots[p].form

AllShown(d, N, l, p) ==
  HasForm(d, l, p) =>
    \A i \in 1 .. Len(ObjsOf(d, l, p)) : ObjectShown(d, N, l, p, i)

(* The parts before p are in the tree, and of p the objects before m.      *)
PartsShown(d, N, l, p, m) ==
  /\ \A q \in 0 .. p - 1 : AllShown(d, N, l, q)
  /\ HasForm(d, l, p) =>
       \A i \in 1 .. Len(ObjsOf(d, l, p)) : i < m => ObjectShown(d, N, l, p, i)

(* The k-th page of the package S shows the PDF's page l.                  *)
ShownAt(d, N, S, l, k) ==
  /\ S[k].src = l
  /\ \A p \in 0 .. Len(d.pages[l].annots) : AllShown(d, N, l, p)

(* The pages before m that can be loaded are in the package.               *)
PagesShown(d, N, S, m) ==
  \A l \in 1 .. Len(d.pages) :
    d.pages[l].loads /\ l < m => \E k \in 1 .. Len(S) : ShownAt(d, N, S, l, k)

AtWork ==
  /\ page \in 1 .. Len(pdf.pages)
  /\ part \in 0 .. Len(pdf.pages[page].annots)
  /\ item \in Nat
  /\ pages[Len(pages)].src = page
  /\ PartsShown(pdf, nodes, page, part, item)

ConvertedInv ==
  /\ pdf \in Docs
  /\ page \in Nat \ {0}
  /\ PagesShown(pdf, nodes, pages, page)
  /\ pc = "object" => AtWork
  /\ pc \notin {"start", "page", "object", "end", "dead"} \/ result = "true" =>
       page > Len(pdf.pages)

(* More elements hide nothing.                                             *)
LEMMA ShownInMore ==
  ASSUME NEW d, NEW N, NEW M, N \subseteq M, NEW l, NEW p
  PROVE  /\ \A i : ObjectShown(d, N, l, p, i) => ObjectShown(d, M, l, p, i)
         /\ AllShown(d, N, l, p) => AllShown(d, M, l, p)
         /\ \A m : PartsShown(d, N, l, p, m) => PartsShown(d, M, l, p, m)
<1>1. \A q, i : ObjectShown(d, N, l, q, i) => ObjectShown(d, M, l, q, i)
  BY DEF ObjectShown
<1>2. \A q : AllShown(d, N, l, q) => AllShown(d, M, l, q)
  BY <1>1 DEF AllShown
<1> QED BY <1>1, <1>2 DEF PartsShown

(* Nor do more pages, or other annotations on the same ones.               *)
LEMMA PagesStayShown ==
  ASSUME NEW d, NEW N, NEW M, N \subseteq M, NEW S, NEW T, NEW m,
         Len(S) \in Nat, Len(T) \in Nat, Len(S) <= Len(T),
         \A k \in 1 .. Len(S) : T[k].src = S[k].src,
         PagesShown(d, N, S, m)
  PROVE  PagesShown(d, M, T, m)
<1> SUFFICES ASSUME NEW l \in 1 .. Len(d.pages), d.pages[l].loads, l < m
             PROVE  \E k \in 1 .. Len(T) : ShownAt(d, M, T, l, k)
  BY DEF PagesShown
<1>1. PICK k \in 1 .. Len(S) : ShownAt(d, N, S, l, k)
  BY DEF PagesShown
<1>2. k \in 1 .. Len(T)
  OBVIOUS
<1>3. ShownAt(d, M, T, l, k)
  <2>1. T[k].src = l
    BY <1>1 DEF ShownAt
  <2>2. \A p \in 0 .. Len(d.pages[l].annots) : AllShown(d, M, l, p)
    BY <1>1, ShownInMore DEF ShownAt
  <2> QED BY <2>1, <2>2 DEF ShownAt
<1> QED BY <1>2, <1>3

(* The next page needs showing only if it can be loaded.                   *)
LEMMA OnePageMore ==
  ASSUME NEW d, NEW N, NEW S, NEW m \in Nat, Len(d.pages) \in Nat,
         PagesShown(d, N, S, m),
         m \in 1 .. Len(d.pages) /\ d.pages[m].loads =>
           \E k \in 1 .. Len(S) : ShownAt(d, N, S, m, k)
  PROVE  PagesShown(d, N, S, m + 1)
<1> SUFFICES ASSUME NEW l \in 1 .. Len(d.pages), d.pages[l].loads, l < m + 1
             PROVE  \E k \in 1 .. Len(S) : ShownAt(d, N, S, l, k)
  BY DEF PagesShown
<1>1. l < m \/ l = m
  OBVIOUS
<1> QED BY <1>1 DEF PagesShown

(* One object more of the part.                                            *)
LEMMA OneObjectMore ==
  ASSUME NEW d, NEW N, NEW M, N \subseteq M, NEW l, NEW p, NEW m \in Nat,
         PartsShown(d, N, l, p, m),
         HasForm(d, l, p) => ObjectShown(d, M, l, p, m)
  PROVE  PartsShown(d, M, l, p, m + 1)
<1>1. PartsShown(d, M, l, p, m)
  BY ShownInMore
<1>2. ASSUME NEW i \in 1 .. Len(ObjsOf(d, l, p)), i < m + 1, HasForm(d, l, p)
      PROVE  ObjectShown(d, M, l, p, i)
  <2>1. i < m \/ i = m
    BY <1>2
  <2> QED BY <1>1, <1>2, <2>1 DEF PartsShown
<1> QED BY <1>1, <1>2 DEF PartsShown

(* Behind the last object the part is done.                                *)
LEMMA PartDone ==
  ASSUME NEW d, NEW N, NEW l, NEW p \in Nat, NEW m \in Nat,
         PartsShown(d, N, l, p, m),
         Len(ObjsOf(d, l, p)) \in Nat,
         HasForm(d, l, p) => m > Len(ObjsOf(d, l, p))
  PROVE  /\ \A q \in 0 .. p : AllShown(d, N, l, q)
         /\ PartsShown(d, N, l, p + 1, 1)
<1>1. AllShown(d, N, l, p)
  BY DEF AllShown, PartsShown
<1>2. \A q \in 0 .. p : AllShown(d, N, l, q)
  <2> SUFFICES ASSUME NEW q \in 0 .. p PROVE AllShown(d, N, l, q)
    OBVIOUS
  <2>1. q = p \/ q \in 0 .. p - 1
    OBVIOUS
  <2> QED BY <1>1, <2>1 DEF PartsShown
<1>3. 0 .. (p + 1) - 1 = 0 .. p
  OBVIOUS
<1>4. \A i \in 1 .. Len(ObjsOf(d, l, p + 1)) : ~(i < 1)
  OBVIOUS
<1>5. PartsShown(d, N, l, p + 1, 1)
  BY <1>2, <1>3, <1>4 DEF PartsShown
<1> QED BY <1>2, <1>5

(* Pages, annotations and objects of a document can be counted.            *)
LEMMA DocumentCounts ==
  ASSUME NEW d \in Docs
  PROVE  /\ Len(d.pages) \in Nat
         /\ \A l \in 1 .. Len(d.pages) :
              /\ Len(d.pages[l].annots) \in Nat
              /\ \A p \in 0 .. Len(d.pages[l].annots) : Len(ObjsOf(d, l, p)) \in Nat
<1>1. d.pages \in Seq(PdfPage)
  BY DocsAssumption DEF Document
<1>2. ASSUME NEW l \in 1 .. Len(d.pages)
      PROVE  /\ Len(d.pages[l].annots) \in Nat
             /\ \A p \in 0 .. Len(d.pages[l].annots) : Len(ObjsOf(d, l, p)) \in Nat
  <2>1. d.pages[l] \in PdfPage
    BY <1>1, ElementOfSeq
  <2>2. d.pages[l].objs \in Seq(PdfObject) /\ d.pages[l].annots \in Seq(PdfAnnot)
    BY <2>1 DEF PdfPage
  <2>3. Len(d.pages[l].annots) \in Nat
    BY <2>2, LenProperties
  <2>4. ASSUME NEW p \in 0 .. Len(d.pages[l].annots) PROVE Len(ObjsOf(d, l, p)) \in Nat
    <3>1. CASE p = 0
      BY <2>2, <3>1, LenProperties DEF ObjsOf
    <3>2. CASE p # 0
      <4>1. p \in 1 .. Len(d.pages[l].annots)
        BY <2>3, <3>2
      <4>2. d.pages[l].annots[p] \in PdfAnnot
        BY <2>2, <4>1, ElementOfSeq
      <4>3. d.pages[l].annots[p].objs \in Seq(PdfObject)
        BY <4>2 DEF PdfAnnot
      <4> QED BY <3>2, <4>3, LenProperties DEF ObjsOf
    <3> QED BY <3>1, <3>2
  <2> QED BY <2>3, <2>4
<1>3. Len(d.pages) \in Nat
  BY <1>1, LenProperties
<1> QED BY <1>2, <1>3

(* The objects pdf2ofd walks through are those of the part.                *)
LEMMA ObjsWalked ==
  ASSUME pdf \in Docs, AtWork
  PROVE  /\ HasForm(pdf, page, part) => Objs = ObjsOf(pdf, page, part)
         /\ Len(ObjsOf(pdf, page, part)) \in Nat
         /\ Annots = pdf.pages[page].annots
<1>1. part \in Nat /\ (part = 0 \/ part > 0)
  BY DEF AtWork
<1>2. part = 0 => Objs = ObjsOf(pdf, page, part)
  BY DEF Objs, ObjsOf, PdfPages
<1>3. part > 0 /\ HasForm(pdf, page, part) => Objs = ObjsOf(pdf, page, part)
  BY <1>1 DEF Objs, ObjsOf, HasForm, PdfPages, Annots
<1>4. Len(ObjsOf(pdf, page, part)) \in Nat
  BY DocumentCounts DEF AtWork
<1> QED BY <1>1, <1>2, <1>3, <1>4 DEF Annots, PdfPages

LEMMA ConvertedInit == Init => ConvertedInv
<1> SUFFICES ASSUME Init PROVE ConvertedInv
  OBVIOUS
<1>1. pdf \in Docs /\ pc = "start" /\ page = 1 /\ result = "none"
  BY DEF Init
<1>2. PagesShown(pdf, nodes, pages, page)
  BY <1>1 DEF PagesShown
<1> QED BY <1>1, <1>2 DEF ConvertedInv

(* An object of the part is converted, or skipped as a shading.            *)
LEMMA ConvertedObject ==
  ASSUME WriterInv, ConvertedInv,
         ConvertPlain \/ SkipShading \/ ConvertText \/ ConvertImage
  PROVE  ConvertedInv'
<1>1. /\ pc = "object" /\ pc' = pc /\ item <= Len(Objs) /\ item' = item + 1
      /\ UNCHANGED <<pdf, page, part, pages, result>>
      /\ nodes \subseteq nodes'
  BY DEF ConvertPlain, SkipShading, ConvertText, ConvertImage, AtObject, tree
<1>2. AtWork /\ pdf \in Docs /\ page \in Nat \ {0} /\ PagesShown(pdf, nodes, pages, page)
  BY <1>1 DEF ConvertedInv
<1>3. Obj.kind = "shading" \/ \E n \in nodes' : n.at = cursor
  <2>1. CASE ConvertPlain
    <3>1. \E i, r, f : Node(i, Obj.kind, cursor, r, f) \in nodes'
      BY <2>1 DEF ConvertPlain
    <3> QED BY <3>1 DEF Node
  <2>2. CASE SkipShading
    BY <2>2 DEF SkipShading, AtObject
  <2>3. CASE ConvertText
    <3>1. \E i, r, f : Node(i, "text", cursor, r, f) \in nodes'
      BY <2>3 DEF ConvertText
    <3> QED BY <3>1 DEF Node
  <2>4. CASE ConvertImage
    <3>1. \E i, r, f : Node(i, "image", cursor, r, f) \in nodes'
      BY <2>4 DEF ConvertImage, ImageNodes
    <3> QED BY <3>1 DEF Node
  <2> QED BY <2>1, <2>2, <2>3, <2>4
<1>4. HasForm(pdf, page, part) => ObjectShown(pdf, nodes', page, part, item)
  BY <1>2, <1>3, ObjsWalked DEF ObjectShown, Obj, cursor
<1>5. item \in Nat /\ PartsShown(pdf, nodes, page, part, item)
  BY <1>2 DEF AtWork
<1>6. PartsShown(pdf, nodes', page, part, item + 1)
  BY <1>1, <1>4, <1>5, OneObjectMore
<1>7. Len(pages) \in Nat
  BY LenProperties DEF WriterInv, TreeType
<1>8. PagesShown(pdf, nodes', pages, page)
  BY <1>1, <1>2, <1>7, PagesStayShown
<1>9. AtWork'
  BY <1>1, <1>2, <1>5, <1>6 DEF AtWork
<1>10. (pc \notin {"start", "page", "object", "end", "dead"} \/ result = "true" =>
          page > Len(pdf.pages))'
  BY <1>1 DEF ConvertedInv
<1> QED BY <1>1, <1>2, <1>8, <1>9, <1>10 DEF ConvertedInv

LEMMA ConvertedSkipPage ==
  ASSUME WriterInv, ConvertedInv, SkipPage
  PROVE  ConvertedInv'
<1>1. /\ pc = "page" /\ pc' = pc /\ page' = page + 1 /\ ~pdf.pages[page].loads
      /\ UNCHANGED <<pdf, pages, nodes, result>>
  BY DEF SkipPage, PdfPages, tree
<1>2. page \in Nat \ {0} /\ Len(pdf.pages) \in Nat /\ pdf \in Docs
  BY DocumentCounts DEF ConvertedInv
<1>3. PagesShown(pdf, nodes, pages, page + 1)
  BY <1>1, <1>2, OnePageMore DEF ConvertedInv
<1>4. result = "true" => page + 1 > Len(pdf.pages)
  BY <1>2 DEF ConvertedInv
<1> QED BY <1>1, <1>2, <1>3, <1>4 DEF ConvertedInv

LEMMA ConvertedLoadPage ==
  ASSUME WriterInv, ConvertedInv, LoadPage
  PROVE  ConvertedInv'
<1> DEFINE r == [src |-> page, annots |-> <<>>]
           R == [src : Nat, annots : Seq(Nat)]
<1>1. /\ pc = "page" /\ pc' = "object" /\ page <= Len(pdf.pages)
      /\ part' = 0 /\ item' = 1 /\ pages' = Append(pages, r)
      /\ UNCHANGED <<pdf, page, nodes, result>>
  BY DEF LoadPage, PdfPages, tree
<1>2. page \in Nat \ {0} /\ Len(pdf.pages) \in Nat /\ pdf \in Docs
  BY DocumentCounts DEF ConvertedInv
<1>3. pages \in Seq(R) /\ r \in R /\ r.src = page
  BY <1>2 DEF WriterInv, TreeType
<1> HIDE DEF r, R
<1>4. /\ Len(pages') = Len(pages) + 1 /\ Len(pages) \in Nat /\ Len(pages') \in Nat
      /\ \A k \in 1 .. Len(pages) : pages'[k] = pages[k]
      /\ pages'[Len(pages')] = r
  BY <1>1, <1>3, AppendProperties, LenProperties
<1>5. PagesShown(pdf, nodes, pages', page)
  BY <1>2, <1>4, PagesStayShown DEF ConvertedInv
<1>6. page \in 1 .. Len(pdf.pages)
  BY <1>1, <1>2
<1>7. PartsShown(pdf, nodes, page, 0, 1)
  <2>1. \A i \in 1 .. Len(ObjsOf(pdf, page, 0)) : ~(i < 1)
    OBVIOUS
  <2>2. 0 .. 0 - 1 = {}
    OBVIOUS
  <2> QED BY <2>1, <2>2 DEF PartsShown
<1>8. AtWork'
  <2>1. 0 \in 0 .. Len(pdf.pages[page].annots)
    BY <1>2, <1>6, DocumentCounts
  <2> QED BY <1>1, <1>3, <1>4, <1>6, <1>7, <2>1 DEF AtWork
<1>9. result = "true" => page > Len(pdf.pages)
  BY DEF ConvertedInv
<1> QED BY <1>1, <1>2, <1>5, <1>8, <1>9 DEF ConvertedInv

(* Its annotations come to a page, no page comes or goes.                  *)
LEMMA SamePages ==
  ASSUME NEW s \in Seq([src : Nat, annots : Seq(Nat)]), s # <<>>,
         NEW x \in Seq(Nat), NEW t,
         t = [s EXCEPT ![Len(s)].annots = @ \o x]
  PROVE  /\ Len(t) = Len(s) /\ Len(s) \in Nat /\ Len(t) \in Nat /\ Len(s) # 0
         /\ \A k \in 1 .. Len(s) : t[k].src = s[k].src
<1>1. t \in Seq([src : Nat, annots : Seq(Nat)])
  BY AnnotsKept
<1>2. DOMAIN s = 1 .. Len(s) /\ DOMAIN t = 1 .. Len(t) /\ Len(s) \in Nat /\ Len(t) \in Nat
  BY <1>1, LenProperties
<1>3. DOMAIN t = DOMAIN s
  OBVIOUS
<1>4. Len(t) = Len(s)
  BY <1>2, <1>3
<1>5. Len(s) # 0
  BY EmptySeq
<1>6. ASSUME NEW k \in 1 .. Len(s) PROVE t[k].src = s[k].src
  <2>1. s[k] \in [src : Nat, annots : Seq(Nat)]
    BY ElementOfSeq
  <2>2. t[k] = IF k = Len(s) THEN [s[k] EXCEPT !.annots = @ \o x] ELSE s[k]
    BY <1>2
  <2> QED BY <2>1, <2>2
<1> QED BY <1>2, <1>4, <1>5, <1>6

(* A part is done: on to the next, or to the next page.                    *)
LEMMA ConvertedPart ==
  ASSUME WriterInv, CursorType, ConvertedInv, NextPart \/ ClosePage
  PROVE  ConvertedInv'
<1>1. /\ pc = "object" /\ item > Len(Objs)
      /\ pages' = [pages EXCEPT ![Len(pages)].annots = @ \o Kept(part)]
      /\ UNCHANGED <<pdf, nodes, result>>
  BY DEF NextPart, ClosePage, EndOfPart, tree
<1>2. /\ AtWork /\ pdf \in Docs /\ page \in Nat \ {0}
      /\ PagesShown(pdf, nodes, pages, page)
      /\ result = "true" => page > Len(pdf.pages)
  BY <1>1 DEF ConvertedInv
<1>3. /\ Len(pages') = Len(pages) /\ Len(pages) \in Nat /\ Len(pages') \in Nat
      /\ Len(pages) # 0
      /\ \A k \in 1 .. Len(pages) : pages'[k].src = pages[k].src
  <2>1. Kept(part) \in Seq(Nat)
    BY DEF Kept, CursorType
  <2>2. pages \in Seq([src : Nat, annots : Seq(Nat)]) /\ pages # <<>>
    BY <1>1 DEF WriterInv, TreeType, PagesInStep
  <2> HIDE DEF Kept
  <2> QED BY <1>1, <2>1, <2>2, SamePages
<1>4. PagesShown(pdf, nodes, pages', page)
  BY <1>2, <1>3, PagesStayShown
<1>5. /\ page \in 1 .. Len(pdf.pages) /\ Len(pdf.pages) \in Nat
      /\ part \in Nat /\ item \in Nat /\ pages[Len(pages)].src = page
      /\ PartsShown(pdf, nodes, page, part, item)
      /\ Len(Annots) \in Nat /\ Annots = pdf.pages[page].annots
  BY <1>2, DocumentCounts, ObjsWalked DEF AtWork
<1>6. /\ \A q \in 0 .. part : AllShown(pdf, nodes, page, q)
      /\ PartsShown(pdf, nodes, page, part + 1, 1)
  BY <1>1, <1>2, <1>5, ObjsWalked, PartDone
<1>7. pages'[Len(pages')].src = page
  BY <1>3, <1>5
<1>8. CASE NextPart
  <2>1. /\ part < Len(Annots) /\ part' = part + 1 /\ item' = 1
        /\ UNCHANGED <<page, pc>>
    BY <1>8 DEF NextPart
  <2>2. part' \in 0 .. Len(pdf.pages[page].annots)
    BY <1>5, <2>1
  <2>3. AtWork'
    BY <1>1, <1>5, <1>6, <1>7, <2>1, <2>2 DEF AtWork
  <2> QED BY <1>1, <1>2, <1>4, <2>1, <2>3 DEF ConvertedInv
<1>9. CASE ClosePage
  <2>1. part = Len(Annots) /\ page' = page + 1 /\ pc' = "page"
    BY <1>9 DEF ClosePage
  <2>2. ShownAt(pdf, nodes, pages', page, Len(pages'))
    BY <1>5, <1>6, <1>7, <2>1 DEF ShownAt
  <2>3. Len(pages') \in 1 .. Len(pages')
    BY <1>3
  <2>4. PagesShown(pdf, nodes, pages', page + 1)
    <3>1. \E k \in 1 .. Len(pages') : ShownAt(pdf, nodes, pages', page, k)
      BY <2>2, <2>3
    <3>2. PICK S : S = pages'
      OBVIOUS
    <3>3. page \in Nat /\ Len(pdf.pages) \in Nat /\ PagesShown(pdf, nodes, S, page)
          /\ \E k \in 1 .. Len(S) : ShownAt(pdf, nodes, S, page, k)
      BY <1>2, <1>4, <1>5, <3>1, <3>2
    <3>4. PagesShown(pdf, nodes, S, page + 1)
      BY <3>3, OnePageMore
    <3> QED BY <3>2, <3>4
  <2> QED BY <1>1, <1>2, <1>5, <2>1, <2>4 DEF ConvertedInv
<1> QED BY <1>8, <1>9

(* Saving adds elements only.                                              *)
LEMMA ConvertedFrame ==
  ASSUME WriterInv, ConvertedInv, UNCHANGED <<pdf, page, pages>>,
         nodes \subseteq nodes', pc' # "object",
         pc' \notin {"start", "page", "object", "end", "dead"} \/ result' = "true" =>
           page > Len(pdf.pages)
  PROVE  ConvertedInv'
<1>1. Len(pages) \in Nat
  BY LenProperties DEF WriterInv, TreeType
<1>2. PagesShown(pdf, nodes', pages, page)
  BY <1>1, PagesStayShown DEF ConvertedInv
<1> QED BY <1>2 DEF ConvertedInv

LEMMA ConvertedStep ==
  WriterInv /\ CursorType /\ ConvertedInv /\ [Next]_vars => ConvertedInv'
<1> SUFFICES ASSUME WriterInv, CursorType, ConvertedInv, [Next]_vars
             PROVE  ConvertedInv'
  OBVIOUS
<1>1. CASE ConvertPlain \/ SkipShading \/ ConvertText \/ ConvertImage
  BY <1>1, ConvertedObject
<1>2. CASE SkipPage
  BY <1>2, ConvertedSkipPage
<1>3. CASE LoadPage
  BY <1>3, ConvertedLoadPage
<1>4. CASE NextPart \/ ClosePage
  BY <1>4, ConvertedPart
<1>5. CASE Refuse \/ SetPath
  <2>1. /\ UNCHANGED <<pdf, page, pages, nodes>> /\ pc = "start"
        /\ \/ pc' = "end" /\ result' = "false"
           \/ pc' = "page" /\ result' = result
    BY <1>5 DEF Refuse, SetPath, cursor, tree
  <2>2. result = "true" => page > Len(pdf.pages)
    BY DEF ConvertedInv
  <2> QED BY <2>1, <2>2, ConvertedFrame
<1>6. CASE SaveBegins
  <2>1. UNCHANGED <<pdf, page, pages, nodes>> /\ page > Len(pdf.pages) /\ pc' = "content"
    BY <1>6 DEF SaveBegins, cursor, tree, PdfPages
  <2> QED BY <2>1, ConvertedFrame
<1>7. CASE \/ SaveContent \/ SaveAnnotation \/ SaveDocument \/ SaveRes
           \/ SaveAnnots \/ SaveOfdXml \/ Return
  <2>1. /\ UNCHANGED <<pdf, page, pages>> /\ nodes \subseteq nodes'
        /\ pc \in {"content", "annotation", "res", "annots", "ofd", "close"}
        /\ pc' # "object"
    BY <1>7 DEF SaveContent, SaveAnnotation, SaveDocument, SaveRes, SaveAnnots,
       SaveOfdXml, Return, cursor, tree
  <2>2. page > Len(pdf.pages)
    BY <2>1 DEF ConvertedInv
  <2> QED BY <2>1, <2>2, ConvertedFrame
<1>8. CASE UNCHANGED vars
  <2>1. UNCHANGED <<pdf, page, part, item, pages, nodes, pc, result>>
    BY <1>8 DEF vars, cursor, tree
  <2> QED BY <2>1 DEF ConvertedInv, AtWork
<1>9. CASE ConvertDies
  <2>1. UNCHANGED <<pdf, page, pages, nodes, result>> /\ pc' = "dead"
    BY <1>9 DEF ConvertDies, cursor, tree
  <2>2. result = "true" => page > Len(pdf.pages)
    BY DEF ConvertedInv
  <2> QED BY <2>1, <2>2, ConvertedFrame
<1> QED BY <1>1, <1>2, <1>3, <1>4, <1>5, <1>6, <1>7, <1>8, <1>9 DEF Next

-----------------------------------------------------------------------------
(* The entries of the archive.                                             *)
Written == BagToSet(entries)

(* What texts and images name is in the tree, and the images in the file.   *)
Resolves(N, E) ==
  \A n \in N :
    /\ n.kind = "text" => \E r \in N : r.kind = "font" /\ r.id = n.ref
    /\ n.kind = "image" => \E r \in N : r.kind = "media" /\ r.id = n.ref
    /\ n.kind = "media" => ImageFile(n.ref) \in E

NeedsRes(N) == \E n \in N : n.kind \in {"text", "image", "font", "media"}

Over == pc = "end" /\ result = "true"
Late == pc \in {"annots", "ofd", "close"} \/ Over

(* What save() has written of the pages and of Document.xml ...            *)
PagesFiled ==
  /\ pc = "content" => saved <= Len(pages) + 1
  /\ \A k \in 1 .. Len(docPages) :
       /\ <<"content", k>> \in Written
       /\ \/ pc = "annotation" /\ k = saved
          \/ <<"annotation", k>> \in Written
  /\ pc = "res" \/ Late =>
       /\ <<"document">> \in Written
       /\ docXml.pages = docPages /\ docXml.res = hasRes
       /\ Len(docPages) = Len(pages)

(* ... and of the resources.                                               *)
ResFiled ==
  /\ ~Late => resXml = {}
  /\ Late =>
       /\ resXml = IF hasRes THEN ResNodes ELSE {}
       /\ hasRes => <<"publicres">> \in Written
       /\ hasRes => \A i \in FontFiles : <<"font", i>> \in Written

OfdFiled ==
  /\ pc = "close" \/ Over => <<"ofd">> \in Written
  /\ Over => file = Written

TreeResolves == Resolves(nodes, Written) /\ (NeedsRes(nodes) => hasRes)

FileInv ==
  /\ pc = "start" => ~failed
  /\ ~failed => TreeResolves /\ PagesFiled /\ ResFiled /\ OfdFiled

(* A write that did not fail has added its entry.                          *)
LEMMA WriteAdds ==
  ASSUME NEW name, NEW ok \in BOOLEAN, Write(name, ok), ~failed'
  PROVE  ~failed /\ ok /\ Written' = Written \cup {name}
<1>1. ~failed /\ ok
  BY DEF Write
<1>2. entries' = entries (+) SetToBag({name})
  BY <1>1 DEF Write
<1> QED BY <1>1, <1>2 DEF Written, BagToSet, SetToBag, (+)

LEMMA FileInit == Init => FileInv
<1> SUFFICES ASSUME Init PROVE FileInv
  OBVIOUS
<1>1. /\ pc = "start" /\ ~failed /\ nodes = {} /\ docPages = <<>> /\ resXml = {}
      /\ Len(docPages) = 0
  BY DEF Init
<1>2. TreeResolves
  BY <1>1 DEF TreeResolves, Resolves, NeedsRes
<1>3. PagesFiled /\ ResFiled /\ OfdFiled
  BY <1>1 DEF PagesFiled, ResFiled, OfdFiled, Late, Over
<1> QED BY <1>1, <1>2, <1>3 DEF FileInv

(* More entries take nothing away from the tree.                           *)
LEMMA ResolvesStill ==
  ASSUME NEW N, NEW E, NEW F, E \subseteq F, Resolves(N, E)
  PROVE  Resolves(N, F)
  BY DEF Resolves

(* Elements that neither name nor are resources.                           *)
LEMMA PlainNodes ==
  ASSUME NEW N, NEW E, NEW new, Resolves(N, E),
         \A n \in new : n.kind \notin {"text", "image", "font", "media"}
  PROVE  Resolves(N \cup new, E) /\ (NeedsRes(N \cup new) => NeedsRes(N))
<1>1. Resolves(N \cup new, E)
  <2> SUFFICES ASSUME NEW n \in N \cup new
               PROVE  /\ n.kind = "text" =>
                           \E r \in N \cup new : r.kind = "font" /\ r.id = n.ref
                      /\ n.kind = "image" =>
                           \E r \in N \cup new : r.kind = "media" /\ r.id = n.ref
                      /\ n.kind = "media" => ImageFile(n.ref) \in E
    BY DEF Resolves
  <2>1. CASE n \in N
    BY <2>1 DEF Resolves
  <2>2. CASE n \in new
    BY <2>2
  <2> QED BY <2>1, <2>2
<1>2. NeedsRes(N \cup new) => NeedsRes(N)
  BY DEF NeedsRes
<1> QED BY <1>1, <1>2

(* While pages are converted, saving has written nothing.                  *)
LEMMA FileConverting ==
  ASSUME WriterInv, FileInv, pc' \in {"page", "object", "dead"},
         UNCHANGED <<docPages, resXml>>, docPages = <<>>, resXml = {},
         ~failed' => TreeResolves'
  PROVE  FileInv'
<1>1. Len(docPages') = 0
  BY EmptySeq
<1>2. PagesFiled'
  BY <1>1 DEF PagesFiled, Late, Over
<1>3. ResFiled' /\ OfdFiled'
  BY DEF ResFiled, OfdFiled, Late, Over
<1> QED BY <1>2, <1>3 DEF FileInv

(* Steps that leave the trees and the archive alone.                       *)
LEMMA FileIdle ==
  ASSUME WriterInv, FileInv,
         \/ SkipPage \/ LoadPage \/ ConvertDies \/ SkipShading \/ NextPart \/ ClosePage
         \/ SetPath
  PROVE  FileInv'
<1>1. /\ pc \in {"start", "page", "object"} /\ pc' \in {"page", "object", "dead"}
      /\ UNCHANGED <<nodes, hasRes, docPages, resXml, entries>>
      /\ pc = "start" \/ failed' = failed
  BY DEF SkipPage, LoadPage, ConvertDies, SkipShading, NextPart, ClosePage, SetPath,
     AtObject, EndOfPart, tree, disk
<1>2. ~failed' => ~failed
  BY <1>1 DEF FileInv
<1>3. docPages = <<>> /\ (~failed' => resXml = {})
  BY <1>1, <1>2 DEF WriterInv, PagesInStep, FileInv, ResFiled, Late, Over
<1>4. ~failed' => TreeResolves'
  BY <1>1, <1>2 DEF FileInv, TreeResolves, Written
<1>5. CASE failed'
  BY <1>1, <1>5 DEF FileInv
<1>6. CASE ~failed'
  BY <1>1, <1>3, <1>4, <1>6, FileConverting
<1> QED BY <1>5, <1>6

LEMMA FileConvertPlain == ASSUME WriterInv, FileInv, ConvertPlain PROVE FileInv'
<1> DEFINE new == {Node(NoID, Obj.kind, cursor, NoID, NoFont)}
<1>1. /\ pc = "object" /\ pc' = "object" /\ nodes' = nodes \cup new
      /\ UNCHANGED <<hasRes, docPages, resXml, entries, failed>>
      /\ Obj.kind \in {"path", "noimage"}
  BY DEF ConvertPlain, AtObject, disk
<1>2. \A n \in new : n.kind \notin {"text", "image", "font", "media"}
  BY <1>1 DEF Node
<1> HIDE DEF new
<1>3. docPages = <<>> /\ (~failed => resXml = {})
  BY <1>1 DEF WriterInv, PagesInStep, FileInv, ResFiled, Late, Over
<1>4. ~failed' => TreeResolves'
  BY <1>1, <1>2, PlainNodes DEF FileInv, TreeResolves, Written
<1>5. CASE failed'
  BY <1>1, <1>5 DEF FileInv
<1>6. CASE ~failed'
  BY <1>1, <1>3, <1>4, <1>6, FileConverting
<1> QED BY <1>5, <1>6

LEMMA FileConvertText == ASSUME WriterInv, FileInv, ConvertText PROVE FileInv'
<1>1. /\ pc = "object" /\ pc' = "object" /\ hasRes'
      /\ UNCHANGED <<docPages, resXml, entries, failed>>
  BY DEF ConvertText, AtObject, disk
<1>2. docPages = <<>> /\ (~failed => resXml = {})
  BY <1>1 DEF WriterInv, PagesInStep, FileInv, ResFiled, Late, Over
<1>3. ASSUME ~failed' PROVE TreeResolves'
  <2>1. Resolves(nodes, Written) /\ Written' = Written
    BY <1>1, <1>3 DEF FileInv, TreeResolves, Written
  <2>2. PICK t \in nodes' :
          /\ nodes \subseteq nodes' /\ t.kind = "text"
          /\ \A n \in nodes' : n \in nodes \/ n = t \/ n.kind = "font"
          /\ \E r \in nodes' : r.kind = "font" /\ r.id = t.ref
    <3>1. PICK a \in AddrsOf(Obj.font) :
            \/ \E n \in nodes :
                 /\ KnownFont(a, n) \/ NamedFont(Obj.font, a, n)
                 /\ nodes' = nodes \cup {Node(nextId', "text", cursor, n.id, Obj.font)}
            \/ nodes' = nodes \cup
                 {Node(nextId + 1, "text", cursor, nextId + 2, Obj.font),
                  Node(nextId + 2, "font", cursor, NoID, Obj.font)}
      BY DEF ConvertText
    <3>2. CASE \E n \in nodes :
                 /\ KnownFont(a, n) \/ NamedFont(Obj.font, a, n)
                 /\ nodes' = nodes \cup {Node(nextId', "text", cursor, n.id, Obj.font)}
      <4>1. PICK n \in nodes :
                 /\ KnownFont(a, n) \/ NamedFont(Obj.font, a, n)
                 /\ nodes' = nodes \cup {Node(nextId', "text", cursor, n.id, Obj.font)}
        BY <3>2
      <4> DEFINE t == Node(nextId', "text", cursor, n.id, Obj.font)
      <4>2. n.kind = "font"
        BY <4>1 DEF KnownFont, NamedFont, SameFont, FontNodes
      <4>3. t.kind = "text" /\ t.ref = n.id
        BY DEF Node
      <4>4. nodes' = nodes \cup {t}
        BY <4>1
      <4> HIDE DEF t
      <4>5. t \in nodes'
        BY <4>4
      <4> QED BY <4>2, <4>3, <4>4, <4>5
    <3>3. CASE nodes' = nodes \cup
                 {Node(nextId + 1, "text", cursor, nextId + 2, Obj.font),
                  Node(nextId + 2, "font", cursor, NoID, Obj.font)}
      <4> DEFINE t == Node(nextId + 1, "text", cursor, nextId + 2, Obj.font)
                 n == Node(nextId + 2, "font", cursor, NoID, Obj.font)
      <4>1. t.kind = "text" /\ t.ref = nextId + 2 /\ n.kind = "font" /\ n.id = nextId + 2
        BY DEF Node
      <4>2. nodes' = nodes \cup {t, n}
        BY <3>3
      <4> HIDE DEF t, n
      <4>3. t \in nodes'
        BY <4>2
      <4> QED BY <4>1, <4>2, <4>3
    <3> QED BY <3>1, <3>2, <3>3
  <2>3. Resolves(nodes', Written)
    <3> SUFFICES ASSUME NEW n \in nodes'
                 PROVE  /\ n.kind = "text" =>
                             \E r \in nodes' : r.kind = "font" /\ r.id = n.ref
                        /\ n.kind = "image" =>
                             \E r \in nodes' : r.kind = "media" /\ r.id = n.ref
                        /\ n.kind = "media" => ImageFile(n.ref) \in Written
      BY DEF Resolves
    <3>1. CASE n \in nodes
      BY <2>1, <2>2, <3>1 DEF Resolves
    <3>2. CASE n = t \/ n.kind = "font"
      BY <2>2, <3>2
    <3> QED BY <2>2, <3>1, <3>2
  <2> QED BY <1>1, <2>1, <2>3 DEF TreeResolves
<1>4. CASE failed'
  BY <1>1, <1>4 DEF FileInv
<1>5. CASE ~failed'
  BY <1>1, <1>2, <1>3, <1>5, FileConverting
<1> QED BY <1>4, <1>5

LEMMA FileConvertImage == ASSUME WriterInv, FileInv, ConvertImage PROVE FileInv'
<1>1. /\ pc = "object" /\ pc' = "object" /\ hasRes'
      /\ UNCHANGED <<docPages, resXml>>
  BY DEF ConvertImage, AtObject, disk
<1>2. PICK ok \in BOOLEAN :
        Write(ImageFile(nextId + 1), ok) /\ nodes' = nodes \cup ImageNodes(ok)
  BY DEF ConvertImage
<1>3. CASE failed'
  BY <1>1, <1>3 DEF FileInv
<1>4. CASE ~failed'
  <2>1. ~failed /\ ok /\ Written' = Written \cup {ImageFile(nextId + 1)}
    BY <1>2, <1>4, WriteAdds
  <2>2. docPages = <<>> /\ resXml = {} /\ Resolves(nodes, Written)
    BY <1>1, <2>1 DEF WriterInv, PagesInStep, FileInv, ResFiled, Late, Over,
       TreeResolves
  <2> DEFINE i == Node(nextId + 1, "image", cursor, nextId + 2, NoFont)
             m == Node(nextId + 2, "media", cursor, nextId + 1, NoFont)
  <2>3. /\ i.kind = "image" /\ i.ref = nextId + 2
        /\ m.kind = "media" /\ m.id = nextId + 2 /\ m.ref = nextId + 1
    BY DEF Node
  <2>4. nodes' = nodes \cup {i, m}
    BY <1>2, <2>1 DEF ImageNodes
  <2> HIDE DEF i, m
  <2>5. Resolves(nodes, Written')
    BY <2>1, <2>2, ResolvesStill
  <2>6. Resolves(nodes', Written')
    <3> SUFFICES ASSUME NEW n \in nodes'
                 PROVE  /\ n.kind = "text" =>
                             \E r \in nodes' : r.kind = "font" /\ r.id = n.ref
                        /\ n.kind = "image" =>
                             \E r \in nodes' : r.kind = "media" /\ r.id = n.ref
                        /\ n.kind = "media" => ImageFile(n.ref) \in Written'
      BY DEF Resolves
    <3>1. CASE n \in nodes
      BY <2>4, <2>5, <3>1 DEF Resolves
    <3>2. CASE n = i
      BY <2>3, <2>4, <3>2
    <3>3. CASE n = m
      BY <2>1, <2>3, <3>3
    <3> QED BY <2>4, <3>1, <3>2, <3>3
  <2>7. TreeResolves'
    BY <1>1, <2>6 DEF TreeResolves
  <2> QED BY <1>1, <2>2, <2>7, FileConverting
<1> QED BY <1>3, <1>4

LEMMA FileSaveBegins == ASSUME WriterInv, FileInv, SaveBegins PROVE FileInv'
<1>1. /\ pc = "page" /\ pc' = "content" /\ saved' = 1
      /\ UNCHANGED <<nodes, hasRes, docPages, resXml, pages, entries>>
      /\ ~failed' => ~failed
  BY DEF SaveBegins, tree, disk
<1>2. docPages = <<>> /\ Len(docPages') = 0 /\ Len(pages) \in Nat
  BY <1>1, EmptySeq, LenProperties DEF WriterInv, PagesInStep, TreeType
<1>3. ASSUME ~failed' PROVE TreeResolves' /\ ResFiled' /\ OfdFiled'
  BY <1>1, <1>3 DEF FileInv, TreeResolves, Written, ResFiled, OfdFiled, Late, Over
<1>4. PagesFiled'
  <2>1. saved' <= Len(pages') + 1
    BY <1>1, <1>2
  <2> QED BY <1>1, <1>2, <2>1 DEF PagesFiled, Late, Over
<1> QED BY <1>1, <1>3, <1>4 DEF FileInv

LEMMA FileSaveContent == ASSUME WriterInv, FileInv, SaveContent PROVE FileInv'
<1> DEFINE new == {Node(nextId + 1, "layer", <<Src, 0, 0>>, NoID, NoFont),
                   Node(nextId + 2, "page", <<Src, 0, 0>>, NoID, NoFont)}
           ref == [id |-> nextId + 2, loc |-> saved]
<1>1. PICK ok \in BOOLEAN :
        /\ Write(<<"content", saved>>, ok)
        /\ docPages' = IF ok THEN Append(docPages, ref) ELSE docPages
        /\ pc' = IF ok THEN "annotation" ELSE "close"
  BY DEF SaveContent
<1>2. /\ pc = "content" /\ nodes' = nodes \cup new /\ saved' = saved
      /\ UNCHANGED <<hasRes, resXml, pages>>
  BY DEF SaveContent, disk
<1>3. \A n \in new : n.kind \notin {"text", "image", "font", "media"}
  BY DEF Node
<1>4. docPages \in Seq(PageRef) /\ Len(docPages) \in Nat /\ nextId \in Nat /\ saved \in Nat
  BY LenProperties DEF WriterInv, TreeType
<1>5. ref \in PageRef
  BY <1>4 DEF PageRef
<1> HIDE DEF new, ref
<1>6. CASE failed'
  BY <1>1, <1>6 DEF FileInv
<1>7. CASE ~failed'
  <2>1. ~failed /\ ok /\ Written' = Written \cup {<<"content", saved>>}
    BY <1>1, <1>7, WriteAdds
  <2>2. pc' = "annotation" /\ docPages' = Append(docPages, ref)
    BY <1>1, <2>1
  <2>3. Len(docPages') = Len(docPages) + 1 /\ saved = Len(docPages) + 1
    BY <1>2, <1>4, <1>5, <2>2, AppendProperties DEF WriterInv, PagesInStep
  <2>4. TreeResolves /\ PagesFiled /\ ResFiled
    BY <2>1 DEF FileInv
  <2>5. TreeResolves'
    <3>1. Resolves(nodes, Written')
      BY <2>1, <2>4, ResolvesStill DEF TreeResolves
    <3>2. Resolves(nodes', Written') /\ (NeedsRes(nodes') => NeedsRes(nodes))
      BY <1>2, <1>3, <3>1, PlainNodes
    <3> QED BY <1>2, <2>4, <3>2 DEF TreeResolves
  <2>6. PagesFiled'
    <3>1. ASSUME NEW k \in 1 .. Len(docPages')
          PROVE  /\ <<"content", k>> \in Written'
                 /\ k = saved' \/ <<"annotation", k>> \in Written'
      <4>1. CASE k \in 1 .. Len(docPages)
        BY <1>2, <2>1, <2>4, <4>1 DEF PagesFiled
      <4>2. CASE k = saved
        BY <1>2, <2>1, <4>2
      <4> QED BY <1>4, <2>3, <4>1, <4>2
    <3> QED BY <2>2, <3>1 DEF PagesFiled, Late, Over
  <2>7. ResFiled' /\ OfdFiled'
    BY <1>2, <2>2, <2>4 DEF ResFiled, OfdFiled, Late, Over
  <2> QED BY <2>2, <2>5, <2>6, <2>7 DEF FileInv
<1> QED BY <1>6, <1>7

LEMMA FileSaveAnnotation == ASSUME WriterInv, FileInv, SaveAnnotation PROVE FileInv'
<1> DEFINE kept == pages[saved].annots
           N(i) == Node(nextId + i, "annot", <<Src, kept[i], 0>>, NoID, NoFont)
           new == {N(i) : i \in 1 .. Len(kept)}
<1>1. PICK ok \in BOOLEAN : Write(<<"annotation", saved>>, ok)
  BY DEF SaveAnnotation
<1>2. /\ pc = "annotation" /\ pc' = "content" /\ saved' = saved + 1
      /\ nodes' = nodes \cup new
      /\ UNCHANGED <<hasRes, resXml, pages, docPages>>
  BY DEF SaveAnnotation, disk
<1>3. \A n \in new : n.kind \notin {"text", "image", "font", "media"}
  <2>1. \A i \in 1 .. Len(kept) : N(i).kind = "annot"
    BY DEF Node
  <2> HIDE DEF N
  <2> QED BY <2>1
<1> HIDE DEF new
<1>4. CASE failed'
  BY <1>2, <1>4 DEF FileInv
<1>5. CASE ~failed'
  <2>1. ~failed /\ ok /\ Written' = Written \cup {<<"annotation", saved>>}
    BY <1>1, <1>5, WriteAdds
  <2>2. TreeResolves /\ PagesFiled /\ ResFiled
    BY <2>1 DEF FileInv
  <2>3. TreeResolves'
    <3>1. Resolves(nodes, Written')
      BY <2>1, <2>2, ResolvesStill DEF TreeResolves
    <3>2. Resolves(nodes', Written') /\ (NeedsRes(nodes') => NeedsRes(nodes))
      BY <1>2, <1>3, <3>1, PlainNodes
    <3> QED BY <1>2, <2>2, <3>2 DEF TreeResolves
  <2>4. saved \in 1 .. Len(pages) /\ Len(pages) \in Nat
    BY <1>2, LenProperties DEF WriterInv, PagesInStep, TreeType
  <2>5. saved' <= Len(pages') + 1
    BY <1>2, <2>4
  <2>6. \A k \in 1 .. Len(docPages') :
           <<"content", k>> \in Written' /\ <<"annotation", k>> \in Written'
    BY <1>2, <2>1, <2>2 DEF PagesFiled
  <2>7. PagesFiled'
    BY <1>2, <2>5, <2>6 DEF PagesFiled, Late, Over
  <2>8. ResFiled' /\ OfdFiled'
    BY <1>2, <2>2 DEF ResFiled, OfdFiled, Late, Over
  <2> QED BY <1>2, <2>3, <2>7, <2>8 DEF FileInv
<1> QED BY <1>4, <1>5

LEMMA FileSaveDocument == ASSUME WriterInv, FileInv, SaveDocument PROVE FileInv'
<1>1. PICK ok \in BOOLEAN :
        /\ Write(<<"document">>, ok)
        /\ docXml' = IF ok THEN [max |-> MaxUnitID, pages |-> docPages,
                                 res |-> hasRes, annots |-> annots # <<>>]
                     ELSE docXml
        /\ pc' = IF ok THEN "res" ELSE "ofd"
  BY DEF SaveDocument
<1>2. /\ pc = "content" /\ saved > Len(pages)
      /\ UNCHANGED <<nodes, hasRes, resXml, pages, docPages>>
  BY DEF SaveDocument, tree
<1>3. CASE failed'
  BY <1>1, <1>3 DEF FileInv
<1>4. CASE ~failed'
  <2>1. ~failed /\ ok /\ Written' = Written \cup {<<"document">>}
    BY <1>1, <1>4, WriteAdds
  <2>2. TreeResolves /\ PagesFiled /\ ResFiled
    BY <2>1 DEF FileInv
  <2>3. pc' = "res" /\ docXml'.pages = docPages /\ docXml'.res = hasRes
    BY <1>1, <2>1
  <2>4. Len(docPages) = Len(pages)
    <3>1. Len(docPages) \in Nat /\ Len(pages) \in Nat /\ saved = Len(docPages) + 1
      BY <1>2, LenProperties DEF WriterInv, TreeType, PagesInStep
    <3>2. saved <= Len(pages) + 1
      BY <1>2, <2>2 DEF PagesFiled
    <3> QED BY <1>2, <3>1, <3>2
  <2>5. TreeResolves'
    BY <1>2, <2>1, <2>2, ResolvesStill DEF TreeResolves
  <2>6. \A k \in 1 .. Len(docPages') :
           <<"content", k>> \in Written' /\ <<"annotation", k>> \in Written'
    BY <1>2, <2>1, <2>2 DEF PagesFiled
  <2>7. PagesFiled'
    BY <1>2, <2>1, <2>3, <2>4, <2>6 DEF PagesFiled, Late, Over
  <2>8. ResFiled' /\ OfdFiled'
    BY <1>2, <2>2, <2>3 DEF ResFiled, OfdFiled, Late, Over
  <2> QED BY <2>3, <2>5, <2>7, <2>8 DEF FileInv
<1> QED BY <1>3, <1>4

(* Behind Document.xml nothing is undone.                                  *)
LEMMA FileKept ==
  ASSUME FileInv, ~failed, pc = "res" \/ Late, Late', Written \subseteq Written',
         UNCHANGED <<nodes, hasRes, pages, docPages, docXml>>
  PROVE  TreeResolves' /\ PagesFiled'
<1>1. TreeResolves /\ PagesFiled
  BY DEF FileInv
<1>2. TreeResolves'
  BY <1>1, ResolvesStill DEF TreeResolves
<1>3. pc # "annotation" /\ pc' # "content" /\ pc' # "annotation"
  BY DEF Late, Over
<1>4. \A k \in 1 .. Len(docPages') :
         <<"content", k>> \in Written' /\ <<"annotation", k>> \in Written'
  BY <1>1, <1>3 DEF PagesFiled
<1>5. PagesFiled'
  BY <1>1, <1>3, <1>4 DEF PagesFiled
<1> QED BY <1>2, <1>5

LEMMA FileSaveRes == ASSUME WriterInv, FileInv, SaveRes PROVE FileInv'
<1>1. /\ pc = "res" /\ pc' = "annots"
      /\ UNCHANGED <<nodes, hasRes, pages, docPages, docXml>>
  BY DEF SaveRes, tree
<1>2. FontFiles' = FontFiles /\ ResNodes' = ResNodes
  BY <1>1 DEF FontFiles, FontNodes, ResNodes
<1>3. Late' /\ ~Over' /\ ~Late
  BY <1>1 DEF Late, Over
<1>4. ASSUME ~failed'
      PROVE  /\ ~failed /\ Written \subseteq Written'
             /\ resXml' = IF hasRes THEN ResNodes ELSE resXml
             /\ hasRes => <<"publicres">> \in Written'
             /\ hasRes => \A i \in FontFiles : <<"font", i>> \in Written'
  <2>1. CASE ~hasRes
    BY <1>4, <2>1 DEF SaveRes, Written
  <2>2. CASE hasRes
    <3>1. PICK lost \in SUBSET FontFiles, ok \in BOOLEAN :
            LET new == {<<"font", i>> : i \in FontFiles \ lost}
                       \cup (IF ok THEN {<<"publicres">>} ELSE {})
            IN  /\ entries' = entries (+) SetToBag(new)
                /\ failed' = (failed \/ lost # {} \/ ~ok)
                /\ resXml' = IF ok THEN ResNodes ELSE resXml
      BY <2>2 DEF SaveRes
    <3>2. ~failed /\ lost = {} /\ ok /\ resXml' = ResNodes
      BY <1>4, <3>1
    <3> DEFINE new == {<<"font", i>> : i \in FontFiles} \cup {<<"publicres">>}
    <3>3. entries' = entries (+) SetToBag(new)
      <4>1. FontFiles \ lost = FontFiles
        BY <3>2
      <4> QED BY <3>1, <3>2, <4>1
    <3>4. <<"publicres">> \in new /\ \A i \in FontFiles : <<"font", i>> \in new
      OBVIOUS
    <3> HIDE DEF new
    <3>5. Written' = Written \cup new
      BY <3>3 DEF Written, BagToSet, SetToBag, (+)
    <3> QED BY <2>2, <3>2, <3>4, <3>5
  <2> QED BY <2>1, <2>2
<1>5. CASE failed'
  BY <1>1, <1>5 DEF FileInv
<1>6. CASE ~failed'
  <2>1. TreeResolves' /\ PagesFiled'
    BY <1>1, <1>3, <1>4, <1>6, FileKept
  <2>2. resXml = {}
    BY <1>3, <1>4, <1>6 DEF FileInv, ResFiled
  <2>3. ResFiled'
    BY <1>1, <1>2, <1>3, <1>4, <1>6, <2>2 DEF ResFiled
  <2>4. OfdFiled'
    BY <1>1, <1>3 DEF OfdFiled
  <2> QED BY <1>1, <2>1, <2>3, <2>4 DEF FileInv
<1> QED BY <1>5, <1>6

(* The files after PublicRes.xml, and the end.                             *)
LEMMA FileSaveLast ==
  ASSUME WriterInv, FileInv, SaveAnnots \/ SaveOfdXml \/ Return
  PROVE  FileInv'
<1>1. /\ pc \in {"annots", "ofd", "close"} /\ pc' \in {"ofd", "close", "end"}
      /\ UNCHANGED <<nodes, hasRes, pages, docPages, docXml, resXml>>
      /\ pc' = "end" => result' = "true"
  BY DEF SaveAnnots, SaveOfdXml, Return, tree, disk
<1>2. Late /\ Late' /\ FontFiles' = FontFiles /\ ResNodes' = ResNodes
  BY <1>1 DEF Late, Over, FontFiles, FontNodes, ResNodes
<1>3. ASSUME ~failed'
      PROVE  /\ ~failed /\ Written \subseteq Written'
             /\ pc' = "close" => <<"ofd">> \in Written'
             /\ pc' = "end" => pc = "close" /\ file' = Written'
  <2>1. CASE SaveAnnots
    <3>1. CASE annots = <<>>
      BY <1>3, <2>1, <3>1 DEF SaveAnnots, Written
    <3>2. CASE annots # <<>>
      <4>1. PICK ok \in BOOLEAN : Write(<<"annotations">>, ok)
        BY <2>1, <3>2 DEF SaveAnnots
      <4> QED BY <1>3, <2>1, <4>1, WriteAdds DEF SaveAnnots
    <3> QED BY <3>1, <3>2
  <2>2. CASE SaveOfdXml
    <3>1. PICK ok \in BOOLEAN : Write(<<"ofd">>, ok)
      BY <2>2 DEF SaveOfdXml
    <3> QED BY <1>3, <2>2, <3>1, WriteAdds DEF SaveOfdXml
  <2>3. CASE Return
    BY <1>3, <2>3 DEF Return, Written
  <2> QED BY <2>1, <2>2, <2>3
<1>4. CASE failed'
  BY <1>1, <1>4 DEF FileInv
<1>5. CASE ~failed'
  <2>1. TreeResolves' /\ PagesFiled'
    BY <1>1, <1>2, <1>3, <1>5, FileKept
  <2>2. ResFiled /\ OfdFiled
    BY <1>3, <1>5 DEF FileInv
  <2>3. ResFiled'
    BY <1>1, <1>2, <1>3, <1>5, <2>2 DEF ResFiled
  <2>4. OfdFiled'
    BY <1>1, <1>3, <1>5, <2>2 DEF OfdFiled, Over
  <2> QED BY <1>1, <2>1, <2>3, <2>4 DEF FileInv
<1> QED BY <1>4, <1>5

LEMMA FileStep == WriterInv /\ FileInv /\ [Next]_vars => FileInv'
<1> SUFFICES ASSUME WriterInv, FileInv, [Next]_vars PROVE FileInv'
  OBVIOUS
<1>1. CASE \/ SkipPage \/ LoadPage \/ ConvertDies \/ SkipShading \/ NextPart \/ ClosePage
           \/ SetPath
  BY <1>1, FileIdle
<1>2. CASE ConvertPlain \/ ConvertText \/ ConvertImage
  BY <1>2, FileConvertPlain, FileConvertText, FileConvertImage
<1>3. CASE SaveBegins \/ SaveContent \/ SaveAnnotation \/ SaveDocument
  BY <1>3, FileSaveBegins, FileSaveContent, FileSaveAnnotation, FileSaveDocument
<1>4. CASE SaveRes \/ SaveAnnots \/ SaveOfdXml \/ Return
  BY <1>4, FileSaveRes, FileSaveLast
<1>5. CASE Refuse
  <2>1. /\ pc = "start" /\ pc' = "end" /\ result' = "false"
        /\ UNCHANGED <<nodes, hasRes, docPages, resXml, entries, failed>>
    BY <1>5 DEF Refuse, tree, disk
  <2>2. docPages = <<>> /\ Len(docPages) = 0
    BY <2>1, EmptySeq DEF WriterInv, PagesInStep
  <2>3. PagesFiled'
    BY <2>1, <2>2 DEF PagesFiled, Late, Over
  <2>4. ASSUME ~failed' PROVE TreeResolves' /\ ResFiled' /\ OfdFiled'
    BY <2>1, <2>4 DEF FileInv, TreeResolves, Written, ResFiled, OfdFiled, Late, Over
  <2> QED BY <2>1, <2>3, <2>4 DEF FileInv
<1>6. CASE UNCHANGED vars
  <2>1. UNCHANGED <<pc, nodes, hasRes, pages, saved, docPages, entries, docXml,
                    resXml, file, result, failed>>
    BY <1>6 DEF vars, tree, disk
  <2> QED BY <2>1 DEF FileInv, TreeResolves, PagesFiled, ResFiled, OfdFiled, Late,
          Over, Written, FontFiles, FontNodes, ResNodes
<1> QED BY <1>1, <1>2, <1>3, <1>4, <1>5, <1>6 DEF Next

LEMMA PackageInvariant == Spec => [](WriterInv /\ ConvertedInv /\ FileInv)
<1>1. Init => CursorType
  BY DEF Init, CursorType
<1> QED BY <1>1, CursorStep, WriterInit, WriterStep, ConvertedInit, ConvertedStep,
           FileInit, FileStep, PTL DEF Spec

(* At the end the invariant is wholeness.                                  *)
LEMMA WholeAtTheEnd ==
  ASSUME WriterInv, ConvertedInv, FileInv, Over, ~failed
  PROVE  Whole
<1>1. TreeResolves /\ PagesFiled /\ ResFiled /\ OfdFiled /\ Late
  BY DEF FileInv, Late
<1>2. /\ file = Written /\ {<<"ofd">>, <<"document">>} \subseteq file
  BY <1>1 DEF OfdFiled, PagesFiled
<1>3. ASSUME NEW n \in nodes, n.kind \in {"text", "image"}
      PROVE  \E r \in resXml :
               /\ r.id = n.ref
               /\ r.kind = "media" => <<"image", r.ref>> \in file
               /\ r.kind = "font" /\ r.font \in Embedded => <<"font", r.id>> \in file
  <2>1. PICK r \in nodes : r.kind \in {"font", "media"} /\ r.id = n.ref
    BY <1>1, <1>3 DEF TreeResolves, Resolves
  <2>2. hasRes
    BY <1>1, <1>3 DEF TreeResolves, NeedsRes
  <2>3. r \in resXml
    BY <1>1, <2>1, <2>2 DEF ResFiled, ResNodes
  <2>4. r.kind = "media" => <<"image", r.ref>> \in file
    BY <1>1, <1>2 DEF TreeResolves, Resolves, ImageFile
  <2>5. r.kind = "font" /\ r.font \in Embedded => <<"font", r.id>> \in file
    <3> SUFFICES ASSUME r.kind = "font", r.font \in Embedded PROVE r.id \in FontFiles
      BY <1>1, <1>2, <2>2 DEF ResFiled
    <3> QED BY DEF FontFiles, FontNodes
  <2> QED BY <2>1, <2>3, <2>4, <2>5
<1>4. resXml # {} => docXml.res /\ <<"publicres">> \in file
  BY <1>1, <1>2 DEF ResFiled, PagesFiled
<1>5. ASSUME NEW l \in 1 .. Len(PdfPages), PdfPages[l].loads
      PROVE  \E k \in 1 .. Len(docXml.pages) :
               LET loc == docXml.pages[k].loc
               IN  /\ pages[loc].src = l
                   /\ {<<"content", loc>>, <<"annotation", loc>>} \subseteq file
                   /\ \A p \in 0 .. Len(PdfPages[l].annots) :
                        (p > 0 => PdfPages[l].annots[p].form) =>
                          \A i \in 1 .. Len(Objects(l, p)) :
                            \/ Objects(l, p)[i].kind = "shading"
                            \/ \E n \in nodes : n.at = <<l, p, i>>
  <2>1. page > Len(pdf.pages) /\ page \in Nat /\ Len(pdf.pages) \in Nat
    BY DocumentCounts DEF ConvertedInv, Over
  <2>2. PICK k \in 1 .. Len(pages) : ShownAt(pdf, nodes, pages, l, k)
    BY <1>5, <2>1 DEF ConvertedInv, PagesShown, PdfPages
  <2>3. docXml.pages = docPages /\ Len(docPages) = Len(pages)
    BY <1>1 DEF PagesFiled
  <2>4. docXml.pages[k].loc = k /\ k \in 1 .. Len(docXml.pages)
    BY <2>3 DEF WriterInv, PagesInStep
  <2>5. {<<"content", k>>, <<"annotation", k>>} \subseteq file
    BY <1>1, <1>2, <2>3, <2>4 DEF PagesFiled, Over
  <2>6. pages[k].src = l
    BY <2>2 DEF ShownAt
  <2>7. ASSUME NEW p \in 0 .. Len(PdfPages[l].annots),
               p > 0 => PdfPages[l].annots[p].form,
               NEW i \in 1 .. Len(Objects(l, p))
        PROVE  Objects(l, p)[i].kind = "shading" \/ \E n \in nodes : n.at = <<l, p, i>>
    <3>1. Objects(l, p) = ObjsOf(pdf, l, p)
      BY DEF Objects, ObjsOf, PdfPages
    <3>2. HasForm(pdf, l, p) /\ AllShown(pdf, nodes, l, p)
      BY <2>2, <2>7 DEF HasForm, ShownAt, PdfPages
    <3>3. ObjectShown(pdf, nodes, l, p, i)
      BY <3>1, <3>2 DEF AllShown
    <3> QED BY <3>1, <3>3 DEF ObjectShown
  <2> QED BY <2>4, <2>5, <2>6, <2>7
<1> QED BY <1>2, <1>3, <1>4, <1>5 DEF Whole

(* A package pdf2ofd answers true for is whole, for every document, however *)
(* many pages, annotations, fonts and images it has, if no open and no      *)
(* write failed: nothing page_object_convert or save walks over is left out, *)
(* and every reference has its resource and every resource its file.       *)
THEOREM PackagesAreWhole == Spec => []WholeIfNothingFailed
<1>1. WriterInv /\ ConvertedInv /\ FileInv => WholeIfNothingFailed
  BY WholeAtTheEnd DEF WholeIfNothingFailed, Over
<1> QED BY <1>1, PackageInvariant, PTL

=============================================================================
