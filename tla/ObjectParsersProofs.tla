------------------------ MODULE ObjectParsersProofs -------------------------
(***************************************************************************)
(* The parsers of page content for documents, texts and clips of every     *)
(* size: what is seen of a clipped object, what ends the process, which    *)
(* style the objects of a layer have, and where the characters of a text   *)
(* are.  Then the stream an image object goes through: as long as the      *)
(* positions of a save are within 32 bits it keeps its file in its block   *)
(* and implements a file of bytes, and what is missing of an image comes   *)
(* of a call that failed, for blocks, images and buffers of every size.    *)
(***************************************************************************)
EXTENDS ObjectParsers, MemStream, SequenceTheorems, FiniteSetTheorems,
        WellFoundedInduction, TLAPS

(* A set of naturals has a least member.                                   *)
LEMMA LeastNat ==
  ASSUME NEW T, T \subseteq Nat, T # {}
  PROVE  \E x \in T : \A y \in T : x <= y
<1> DEFINE R == OpToRel(<, Nat)
<1>1. IsWellFoundedOn(R, Nat)
  BY NatLessThanWellFounded
<1>2. R = {ss \in Nat \X Nat : ss[1] < ss[2]}
  BY DEF OpToRel
<1> HIDE DEF R
<1>3. PICK x \in T : \A y \in T : ~ (<<y, x>> \in R)
  BY <1>1, WFMin
<1>4. \A y \in T : ~(y < x)
  BY <1>2, <1>3
<1>5. QED
  BY <1>4

-----------------------------------------------------------------------------
(* A set of boxes with a leftmost and a rightmost one.                     *)
HasHull(S) ==
  /\ \E b \in S : \A c \in S : b.l <= c.l
  /\ \E b \in S : \A c \in S : c.r <= b.r

(* The box around a set of boxes holds each of them.                       *)
LEMMA HullBounds ==
  ASSUME NEW S \in SUBSET Clips!Rect, HasHull(S)
  PROVE  /\ Clips!Hull(S) \in Clips!Rect
         /\ \A b \in S : Clips!Hull(S).l <= b.l /\ b.r <= Clips!Hull(S).r
<1>0. \A b \in S : b \in [l : Int, r : Int]
  BY DEF Clips!Rect
<1> DEFINE L == {b.l : b \in S}
           R == {b.r : b \in S}
<1>1. /\ L \subseteq Int /\ R \subseteq Int
      /\ \E x \in L : \A y \in L : x <= y
      /\ \E x \in R : \A y \in R : y <= x
  BY <1>0 DEF HasHull
<1>2. Clips!Min(L) \in L /\ \A y \in L : Clips!Min(L) <= y
  <2> HIDE DEF L
  <2>1. QED
    BY <1>1 DEF Clips!Min
<1>3. Clips!Max(R) \in R /\ \A y \in R : y <= Clips!Max(R)
  <2> HIDE DEF R
  <2>1. QED
    BY <1>1 DEF Clips!Max
<1>4. Clips!Hull(S) = [l |-> Clips!Min(L), r |-> Clips!Max(R)]
  BY DEF Clips!Hull
<1>5. QED
  BY <1>1, <1>2, <1>3, <1>4 DEF Clips!Rect

(* One box more, and there still is a leftmost and a rightmost one.        *)
LEMMA HullGrows ==
  ASSUME NEW S \in SUBSET Clips!Rect, S = {} \/ HasHull(S), NEW b \in Clips!Rect
  PROVE  HasHull(S \cup {b})
<1>0. \A c \in S \cup {b} : c.l \in Int /\ c.r \in Int
  BY DEF Clips!Rect
<1>1. CASE S = {}
  BY <1>0, <1>1 DEF HasHull
<1>2. CASE HasHull(S)
  <2>1. PICK x \in S : \A c \in S : x.l <= c.l
    BY <1>2 DEF HasHull
  <2>2. PICK y \in S : \A c \in S : c.r <= y.r
    BY <1>2 DEF HasHull
  <2>3. \E m \in S \cup {b} : \A c \in S \cup {b} : m.l <= c.l
    <3>1. CASE x.l <= b.l
      BY <2>1, <1>0, <3>1
    <3>2. CASE b.l <= x.l
      BY <2>1, <1>0, <3>2
    <3>3. QED BY <3>1, <3>2, <1>0
  <2>4. \E m \in S \cup {b} : \A c \in S \cup {b} : c.r <= m.r
    <3>1. CASE y.r <= b.r
      BY <2>2, <1>0, <3>1
    <3>2. CASE b.r <= y.r
      BY <2>2, <1>0, <3>2
    <3>3. QED BY <3>1, <3>2, <1>0
  <2>5. QED BY <2>3, <2>4 DEF HasHull
<1>3. QED BY <1>1, <1>2

(* What is in two boxes is in what Intersect gives.                        *)
LEMMA IntersectFacts ==
  ASSUME NEW a \in Clips!Rect, NEW b \in Clips!Rect
  PROVE  /\ Clips!Intersect(a, b) \in Clips!Rect
         /\ \A c \in Int : a.l <= c /\ c < a.r /\ b.l <= c /\ c < b.r =>
              Clips!Intersect(a, b).l <= c /\ c < Clips!Intersect(a, b).r
<1>1. a.l \in Int /\ a.r \in Int /\ b.l \in Int /\ b.r \in Int
  BY DEF Clips!Rect
<1>2. QED
  BY <1>1 DEF Clips!Rect, Clips!Intersect, Clips!Nowhere

(* Entries of the list go, at most, where others show less, and new ones   *)
(* are those that were added.                                              *)
Narrows(old, new, added) ==
  /\ new \in Seq(SUBSET Clips!Rect) /\ new # <<>>
  /\ \A k \in 1 .. Len(old) : \E m \in 1 .. Len(new) :
       Clips!Filled(new[m]) \subseteq Clips!Filled(old[k])
  /\ \A m \in 1 .. Len(new) : new[m] \in added \/ \E k \in 1 .. Len(old) : new[m] = old[k]

(* AppendPath replaces the last path only by one inside it.                *)
LEMMA AppendNarrows ==
  ASSUME Cells \subseteq Int,
         NEW paths \in Seq(SUBSET Clips!Rect), paths # <<>>,
         NEW boxes \in SUBSET Clips!Rect, HasHull(boxes),
         NEW new, new = Clips!AppendPath(paths, boxes)
  PROVE  Narrows(paths, new, {boxes}) /\ \E m \in 1 .. Len(new) : new[m] = boxes
<1> DEFINE lst == paths[Len(paths)]
           hull == Clips!Hull(boxes)
           within == \E b \in lst : lst = {b} /\ b.l <= hull.l /\ hull.r <= b.r
<1>0. Len(paths) \in Nat /\ Len(paths) > 0
  OBVIOUS
<1>1. new = IF within THEN [paths EXCEPT ![Len(paths)] = boxes] ELSE Append(paths, boxes)
  BY DEF Clips!AppendPath
<1>2. CASE within
  <2>1. PICK b \in lst : lst = {b} /\ b.l <= hull.l /\ hull.r <= b.r
    BY <1>2
  <2>2. hull \in Clips!Rect /\ \A x \in boxes : hull.l <= x.l /\ x.r <= hull.r
    BY HullBounds
  <2>3. b \in Clips!Rect
    BY <1>0
  <2>4. Clips!Filled(boxes) \subseteq Clips!Filled(lst)
    <3>0. SUFFICES ASSUME NEW c \in Clips!Filled(boxes) PROVE c \in Clips!CellsOf(b)
      BY <2>1 DEF Clips!Filled
    <3>1. PICK x \in boxes : c \in Cells /\ x.l <= c /\ c < x.r
      BY DEF Clips!Filled, Clips!CellsOf
    <3>2. x.l \in Int /\ x.r \in Int /\ b.l \in Int /\ b.r \in Int /\ hull.l \in Int /\ hull.r \in Int /\ c \in Int
      BY <3>1, <2>2, <2>3 DEF Clips!Rect
    <3>3. QED
      BY <3>1, <3>2, <2>1, <2>2 DEF Clips!CellsOf
  <2>5. new = [paths EXCEPT ![Len(paths)] = boxes]
    BY <1>1, <1>2
  <2>6. /\ new \in Seq(SUBSET Clips!Rect) /\ Len(new) = Len(paths) /\ new # <<>>
        /\ new[Len(paths)] = boxes /\ \A k \in 1 .. Len(paths) : k # Len(paths) => new[k] = paths[k]
    BY <2>5, <1>0
  <2>7. QED
    BY <2>4, <2>6, <1>0 DEF Narrows
<1>3. CASE ~within
  <2>5. new = Append(paths, boxes)
    BY <1>1, <1>3
  <2>6. /\ new \in Seq(SUBSET Clips!Rect) /\ Len(new) = Len(paths) + 1 /\ new # <<>>
        /\ new[Len(paths) + 1] = boxes /\ \A k \in 1 .. Len(paths) : new[k] = paths[k]
    BY <2>5, <1>0
  <2>7. QED
    BY <2>6, <1>0 DEF Narrows
<1>4. QED
  BY <1>2, <1>3

(* A Clip: the boxes of its first n shapes of a kind, and of all shapes.   *)
BoxesOfKind(clip, what, n) == {clip[k].box : k \in {m \in 1 .. n : clip[m].kind = what}}
BoxesOf(clip) == {clip[k].box : k \in 1 .. Len(clip)}

InClip == shapes # <<>> \/ merged # {} \/ texts # {}
ClipsPassed == IF InClip THEN at - 1 ELSE at

ClipsTyped ==
  /\ obj \in Clipped /\ at \in 0 .. Len(obj.clips) /\ done \in BOOLEAN
  /\ areaBound \in Clips!Rect /\ clipBound \in Clips!Rect
  /\ shapes \in Seq(Clips!Shape)
  /\ merged \in SUBSET Clips!Rect /\ texts \in SUBSET Clips!Rect
  /\ list \in Seq(SUBSET Clips!Rect) /\ list # <<>>
  /\ merged = {} \/ HasHull(merged)

(* Within a Clip, the shapes before those that are left are collected.     *)
ClipsWalk ==
  /\ InClip =>
       LET clip == obj.clips[at] n == Len(clip) - Len(shapes)
       IN  /\ at > 0 /\ n \in 0 .. Len(clip)
           /\ \A k \in 1 .. Len(shapes) : shapes[k] = clip[n + k]
           /\ merged = BoxesOfKind(clip, "path", n) /\ texts = BoxesOfKind(clip, "text", n)
  /\ done => at = Len(obj.clips) /\ ~InClip

(* The box of the object and every Clip passed have an entry of the list   *)
(* that shows no more than they do.                                        *)
ClipsCover ==
  Clips!Meets(obj) /\ Clips!HasRoom(obj) =>
    /\ \E k \in 1 .. Len(list) : Clips!Filled(list[k]) \subseteq Clips!CellsOf(obj.ebbox)
    /\ \A n \in 1 .. ClipsPassed : \E k \in 1 .. Len(list) :
         Clips!Filled(list[k]) \subseteq Clips!Filled(BoxesOf(obj.clips[n]))

(* The Clips of ClippedAsMeant.                                            *)
Single(c) == Len(c) = 1 /\ c[1].bound.l <= c[1].box.l /\ c[1].box.r <= c[1].bound.r
AllSingle(o) == \A n \in 1 .. Len(o.clips) : Single(o.clips[n])
Apart(o) ==
  /\ \A n \in 1 .. Len(o.clips) : \A k \in 1 .. Len(o.clips[n]) : o.clips[n][k].kind = o.clips[n][1].kind
  /\ Len(o.clips) <= 1 \/ AllSingle(o)

(* What the Clips include is in every entry of the list, and in the bounds *)
(* that may become one.                                                    *)
ClipsKeep ==
  Apart(obj) => \A c \in Clips!Meant :
    /\ \A k \in 1 .. Len(list) : c \in Clips!Filled(list[k])
    /\ AllSingle(obj) => c \in Clips!CellsOf(clipBound) /\ c \in Clips!CellsOf(areaBound)

(* The texts among the first n shapes of a Clip, and the places that those  *)
(* of the first n Clips would have in the list of texts.                   *)
TextsTo(clip, n) == {m \in 1 .. n : clip[m].kind = "text"}
PlacesTo(o, n) == Clips!TextPlaces(o, n) \cup Clips!NullPlaces(o, n)

(* The list of texts is no longer than that.                               *)
ClipsCount ==
  /\ vtexts \in Nat /\ textList \in Nat
  /\ InClip => vtexts = Cardinality(TextsTo(obj.clips[at], Len(obj.clips[at]) - Len(shapes)))
  /\ ~InClip => vtexts = 0
  /\ textList <= Cardinality(PlacesTo(obj, ClipsPassed))

ClipsInv == ClipsTyped /\ ClipsWalk /\ ClipsCover /\ ClipsKeep /\ ClipsCount

(* What the assumption on clipped objects says of the one at hand.         *)
LEMMA ClippedFacts ==
  ASSUME Clips!ClipsAssumption, obj \in Clipped
  PROVE  /\ Cells \subseteq Int /\ MaxTextObjects \in Nat
         /\ obj.rect \in Clips!Rect /\ obj.ebbox \in Clips!Rect
         /\ obj.clips \in Seq(Seq(Clips!Shape)) /\ Len(obj.clips) \in Nat
         /\ \A n \in 1 .. Len(obj.clips) :
              /\ obj.clips[n] \in Seq(Clips!Shape) /\ Len(obj.clips[n]) \in Nat
              /\ \A k \in 1 .. Len(obj.clips[n]) : obj.clips[n][k] \in Clips!Shape
<1>1. Cells \subseteq Int /\ MaxTextObjects \in Nat /\ Clips!IsObject(obj)
  BY DEF Clips!ClipsAssumption
<1>2. QED
  BY <1>1 DEF Clips!IsObject

LEMMA ShapeFacts ==
  ASSUME NEW s \in Clips!Shape
  PROVE  /\ s.kind \in {"path", "text"} /\ s.box \in Clips!Rect /\ s.bound \in Clips!Rect
         /\ s.box.l \in Int /\ s.box.r \in Int /\ s.bound.l \in Int /\ s.bound.r \in Int
  BY DEF Clips!Shape, Clips!Rect

(* At the end the invariant is what the clips mean.                        *)
LEMMA ClipsGive ==
  ASSUME Clips!ClipsAssumption, ClipsInv
  PROVE  Clips!NothingTooMuch /\ Clips!ClippedAsMeant
<1> USE DEF ClipsInv
<1>1. ASSUME done, Clips!Meets(obj), Clips!HasRoom(obj)
      PROVE  Clips!Seen \subseteq Clips!Meant
  <2>1. SUFFICES ASSUME NEW c \in Clips!Seen PROVE c \in Clips!Meant
    OBVIOUS
  <2>2. ClipsPassed = Len(obj.clips)
    BY <1>1 DEF ClipsWalk, ClipsPassed
  <2>3. /\ c \in Clips!CellsOf(obj.rect)
        /\ \A k \in 1 .. Len(list) : c \in Clips!Filled(list[k])
    BY <2>1 DEF Clips!Seen
  <2>4. c \in Clips!CellsOf(obj.ebbox)
    BY <2>3, <1>1 DEF ClipsCover
  <2>5. ASSUME NEW n \in 1 .. Len(obj.clips)
        PROVE  \E k \in 1 .. Len(obj.clips[n]) : c \in Clips!CellsOf(obj.clips[n][k].box)
    <3>1. c \in Clips!Filled(BoxesOf(obj.clips[n]))
      BY <2>2, <2>3, <1>1 DEF ClipsCover
    <3>2. QED
      BY <3>1 DEF Clips!Filled, BoxesOf
  <2>6. QED
    BY <2>3, <2>4, <2>5 DEF Clips!Meant
<1>2. ASSUME Apart(obj)
      PROVE  Clips!Meant \subseteq Clips!Seen
  <2>1. \A c \in Clips!Meant : c \in Clips!CellsOf(obj.rect)
    BY DEF Clips!Meant
  <2>2. QED
    BY <1>2, <2>1 DEF ClipsKeep, Clips!Seen
<1>3. QED
  BY <1>1, <1>2 DEF Clips!NothingTooMuch, Clips!ClippedAsMeant, Apart, AllSingle, Single

-----------------------------------------------------------------------------
(* Counting texts.                                                         *)
LEMMA SameCardinality == \A S : Clips!Cardinality(S) = Cardinality(S)
  BY DEF Clips!Cardinality, Cardinality

LEMMA CountsAreFinite ==
  ASSUME NEW clip, NEW n \in Nat
  PROVE  IsFiniteSet(TextsTo(clip, n)) /\ Cardinality(TextsTo(clip, n)) \in Nat
<1>1. IsFiniteSet(1 .. n)
  BY FS_Interval
<1>2. TextsTo(clip, n) \in SUBSET (1 .. n)
  BY DEF TextsTo
<1>3. IsFiniteSet(TextsTo(clip, n))
  BY <1>1, <1>2, FS_Subset
<1> QED BY <1>3, FS_CardinalityType

LEMMA OneTextMore ==
  ASSUME NEW clip, NEW n \in Nat
  PROVE  Cardinality(TextsTo(clip, n + 1)) =
           Cardinality(TextsTo(clip, n)) + (IF clip[n + 1].kind = "text" THEN 1 ELSE 0)
<1>1. IsFiniteSet(TextsTo(clip, n)) /\ Cardinality(TextsTo(clip, n)) \in Nat
  BY CountsAreFinite
<1>2. n + 1 \notin TextsTo(clip, n) /\ \A m : m \in 1 .. n + 1 <=> m \in 1 .. n \/ m = n + 1
  BY DEF TextsTo
<1>3. CASE clip[n + 1].kind = "text"
  <2>1. TextsTo(clip, n + 1) = TextsTo(clip, n) \cup {n + 1}
    BY <1>2, <1>3 DEF TextsTo
  <2> QED BY <1>1, <1>2, <1>3, <2>1, FS_AddElement
<1>4. CASE clip[n + 1].kind # "text"
  <2>1. TextsTo(clip, n + 1) = TextsTo(clip, n)
    BY <1>2, <1>4 DEF TextsTo
  <2> QED BY <1>1, <1>4, <2>1
<1> QED BY <1>3, <1>4

(* The n-th Clip adds its texts and, if there are any, a null.             *)
LEMMA PlacesGrow ==
  ASSUME NEW o, NEW n \in Nat \ {0}, Len(o.clips[n]) \in Nat, IsFiniteSet(PlacesTo(o, n - 1)),
         NEW K, K = TextsTo(o.clips[n], Len(o.clips[n]))
  PROVE  /\ IsFiniteSet(PlacesTo(o, n))
         /\ Cardinality(PlacesTo(o, n)) =
              Cardinality(PlacesTo(o, n - 1)) + Cardinality(K) + (IF K = {} THEN 0 ELSE 1)
<1> DEFINE Own == {<<n, k>> : k \in K}
           Null == IF K = {} THEN {} ELSE {<<n, 0>>}
<1>1. IsFiniteSet(K) /\ Cardinality(K) \in Nat
  BY CountsAreFinite
<1>2. IsFiniteSet(Own) /\ Cardinality(Own) = Cardinality(K)
  <2> DEFINE f == [k \in K |-> <<n, k>>]
  <2>a. f \in [K -> Own] /\ \A k \in K : f[k] = <<n, k>>
    OBVIOUS
  <2>b. \A a, b \in K : f[a] = f[b] => a = b
    BY <2>a
  <2>c. \A t \in Own : \E s \in K : f[s] = t
    BY <2>a
  <2>1. f \in Bijection(K, Own)
    <3> HIDE DEF f, Own
    <3> QED BY <2>a, <2>b, <2>c DEF Bijection, Injection, Surjection, IsInjective
  <2>2. ExistsBijection(K, Own)
    BY <2>1 DEF ExistsBijection
  <2> QED BY <1>1, <2>2, FS_Bijection
<1>3. /\ Clips!TextPlaces(o, n) = Clips!TextPlaces(o, n - 1) \cup Own
      /\ \A p \in Clips!TextPlaces(o, n - 1) : p[1] \in 1 .. n - 1
  <2>1. \A m : m \in 1 .. n <=> m \in 1 .. n - 1 \/ m = n
    OBVIOUS
  <2> DEFINE Of(m) == {<<m, k>> : k \in {q \in 1 .. Len(o.clips[m]) : o.clips[m][q].kind = "text"}}
  <2>2. Of(n) = Own
    BY DEF TextsTo
  <2>3. \A x : /\ Clips!TextPlaces(o, x) = UNION {Of(m) : m \in 1 .. x}
               /\ \A m : \A p \in Of(m) : p[1] = m
    BY DEF Clips!TextPlaces
  <2> HIDE DEF Of, Own
  <2> QED BY <2>1, <2>2, <2>3
<1>4. Clips!NullPlaces(o, n) = Clips!NullPlaces(o, n - 1) \cup Null
  <2>1. \A p \in Own : p[1] = n
    OBVIOUS
  <2>2. Own = {} <=> K = {}
    OBVIOUS
  <2>3. {<<p[1], 0>> : p \in Own} = Null
    <3> HIDE DEF Own
    <3> QED BY <2>1, <2>2
  <2> HIDE DEF Own, Null
  <2> QED BY <1>3, <2>3 DEF Clips!NullPlaces
<1>5. IsFiniteSet(Null) /\ Cardinality(Null) = IF K = {} THEN 0 ELSE 1
  BY FS_EmptySet, FS_Singleton
<1>6. Own \cap Null = {}
  BY DEF TextsTo
<1>7. PlacesTo(o, n - 1) \cap (Own \cup Null) = {}
  <2>1. \A p \in PlacesTo(o, n - 1) : p[1] \in 1 .. n - 1
    BY <1>3 DEF PlacesTo, Clips!NullPlaces
  <2>2. \A p \in Own \cup Null : p[1] = n
    OBVIOUS
  <2> HIDE DEF Own, Null
  <2> QED BY <2>1, <2>2
<1>8. PlacesTo(o, n) = PlacesTo(o, n - 1) \cup (Own \cup Null)
  <2> HIDE DEF Own, Null
  <2> QED BY <1>3, <1>4 DEF PlacesTo
<1> HIDE DEF Own, Null
<1>9. /\ IsFiniteSet(Own \cup Null)
      /\ Cardinality(Own \cup Null) = Cardinality(Own) + Cardinality(Null) - Cardinality(Own \cap Null)
  BY <1>2, <1>5, FS_Union
<1>10. PICK A, B : A = PlacesTo(o, n - 1) /\ B = Own \cup Null
  OBVIOUS
<1>11. /\ IsFiniteSet(A \cup B)
       /\ Cardinality(A \cup B) = Cardinality(A) + Cardinality(B) - Cardinality(A \cap B)
  BY <1>9, <1>10, FS_Union
<1>12. Cardinality({}) = 0
  BY FS_EmptySet
<1>13. Cardinality(A) \in Nat
  BY <1>10, FS_CardinalityType
<1>14. PICK k \in Nat, b \in Nat, c \in {0, 1} :
         k = Cardinality(K) /\ b = Cardinality(B) /\ c = Cardinality(Null) /\ b = k + c
  <2>1. Cardinality(B) = Cardinality(Own) + Cardinality(Null) - 0
    BY <1>6, <1>9, <1>10, <1>12
  <2>2. Cardinality(Own) = Cardinality(K) /\ Cardinality(K) \in Nat /\ Cardinality(Null) \in {0, 1}
    BY <1>1, <1>2, <1>5
  <2> QED BY <2>1, <2>2
<1>15. PlacesTo(o, n) = A \cup B /\ A \cap B = {}
  BY <1>7, <1>8, <1>10
<1>16. Cardinality(A \cup B) = Cardinality(A) + b
  <2>1. Cardinality(A \cup B) = Cardinality(A) + Cardinality(B) - 0
    BY <1>11, <1>12, <1>15
  <2> QED BY <1>13, <1>14, <2>1
<1>17. Cardinality(PlacesTo(o, n)) = Cardinality(PlacesTo(o, n - 1)) + b /\ IsFiniteSet(PlacesTo(o, n))
  BY <1>10, <1>11, <1>15, <1>16
<1>18. b = Cardinality(K) + (IF K = {} THEN 0 ELSE 1)
  BY <1>5, <1>14
<1>19. Cardinality(PlacesTo(o, n - 1)) \in Nat
  BY <1>10, <1>13
<1> QED BY <1>1, <1>17, <1>18, <1>19

LEMMA PlacesAreFinite ==
  ASSUME NEW o, Len(o.clips) \in Nat, \A n \in 1 .. Len(o.clips) : Len(o.clips[n]) \in Nat,
         NEW n \in 0 .. Len(o.clips)
  PROVE  IsFiniteSet(PlacesTo(o, n)) /\ Cardinality(PlacesTo(o, n)) \in Nat
<1> DEFINE T == {m \in 0 .. Len(o.clips) : ~IsFiniteSet(PlacesTo(o, m))}
<1>1. SUFFICES ASSUME T # {} PROVE FALSE
  BY FS_CardinalityType
<1>2. PICK x \in T : \A y \in T : x <= y
  <2>1. T \subseteq Nat
    OBVIOUS
  <2> HIDE DEF T
  <2> QED BY <1>1, <2>1, LeastNat
<1>3. PlacesTo(o, 0) = {}
  BY DEF PlacesTo, Clips!TextPlaces, Clips!NullPlaces
<1>4. x # 0
  BY <1>2, <1>3, FS_EmptySet
<1>5. x - 1 \in 0 .. Len(o.clips) /\ x - 1 < x /\ x \in Nat \ {0} /\ x \in 1 .. Len(o.clips)
  BY <1>2, <1>4
<1>6. IsFiniteSet(PlacesTo(o, x - 1))
  BY <1>2, <1>5
<1>7. IsFiniteSet(PlacesTo(o, x))
  BY <1>5, <1>6, PlacesGrow
<1> QED BY <1>2, <1>7

LEMMA PlacesInObject ==
  ASSUME Clips!ClipsAssumption, obj \in Clipped, NEW n \in 0 .. Len(obj.clips)
  PROVE  /\ IsFiniteSet(PlacesTo(obj, n)) /\ Cardinality(PlacesTo(obj, n)) \in Nat
         /\ Cardinality(PlacesTo(obj, n)) <= Cardinality(PlacesTo(obj, Len(obj.clips)))
<1>1. Len(obj.clips) \in Nat /\ \A m \in 1 .. Len(obj.clips) : Len(obj.clips[m]) \in Nat
  BY ClippedFacts
<1>2. PICK N : N = Len(obj.clips)
  OBVIOUS
<1>3. PICK A, B : A = PlacesTo(obj, n) /\ B = PlacesTo(obj, N)
  OBVIOUS
<1>4. N \in Nat /\ N \in 0 .. N /\ n \in 0 .. N
  BY <1>1, <1>2
<1>5. IsFiniteSet(A) /\ Cardinality(A) \in Nat /\ IsFiniteSet(B)
  BY <1>1, <1>2, <1>3, <1>4, PlacesAreFinite
<1>6. A \subseteq B
  <2>1. \A m \in 1 .. n : m \in 1 .. N
    BY <1>4
  <2>2. Clips!TextPlaces(obj, n) \subseteq Clips!TextPlaces(obj, N)
    BY <2>1 DEF Clips!TextPlaces
  <2> QED BY <1>3, <2>2 DEF PlacesTo, Clips!NullPlaces
<1>7. Cardinality(A) <= Cardinality(B)
  BY <1>5, <1>6, FS_Subset
<1> QED BY <1>2, <1>3, <1>5, <1>7

LEMMA ClipsInit ==
  ASSUME Clips!ClipsAssumption, Clips!Init
  PROVE  ClipsInv
<1>0. /\ obj \in Clipped /\ at = 0 /\ shapes = <<>> /\ merged = {} /\ texts = {}
      /\ areaBound = obj.ebbox /\ clipBound = obj.ebbox
      /\ list = <<{obj.ebbox}>> /\ done = FALSE /\ vtexts = 0 /\ textList = 0
  BY DEF Clips!Init
<1>a. /\ Len(list) = 1 /\ list[1] = {obj.ebbox} /\ \A k \in 1 .. Len(list) : k = 1
  BY <1>0
<1>b. Clips!Filled(list[1]) = Clips!CellsOf(obj.ebbox)
  BY <1>a DEF Clips!Filled
<1>c. obj.ebbox \in Clips!Rect /\ obj.clips \in Seq(Seq(Clips!Shape)) /\ 0 \in 0 .. Len(obj.clips)
  BY <1>0, ClippedFacts
<1>d. list \in Seq(SUBSET Clips!Rect) /\ list # <<>> /\ shapes \in Seq(Clips!Shape)
  BY <1>0, <1>c
<1>1. ClipsTyped
  BY <1>0, <1>c, <1>d DEF ClipsTyped
<1>2. ClipsWalk
  BY <1>0 DEF ClipsWalk, InClip
<1>3. ClipsCover
  <2>1. ClipsPassed = 0
    BY <1>0 DEF ClipsPassed, InClip
  <2>2. QED
    BY <1>a, <1>b, <2>1 DEF ClipsCover
<1>4. ClipsKeep
  <2>1. \A c \in Clips!Meant : c \in Clips!CellsOf(obj.ebbox)
    BY DEF Clips!Meant
  <2>2. QED
    BY <1>0, <1>a, <1>b, <2>1 DEF ClipsKeep
<1>5. ClipsCount
  <2>1. ~InClip /\ ClipsPassed = 0
    BY <1>0 DEF ClipsPassed, InClip
  <2>2. Cardinality(PlacesTo(obj, 0)) \in Nat
    BY <1>0, <1>c, PlacesInObject
  <2> QED BY <1>0, <2>1, <2>2 DEF ClipsCount
<1>6. QED
  BY <1>1, <1>2, <1>3, <1>4, <1>5 DEF ClipsInv

LEMMA ClipsNextClip ==
  ASSUME Clips!ClipsAssumption, ClipsInv, Clips!NextClip
  PROVE  ClipsInv'
<1> USE DEF ClipsInv
<1>0. /\ ~done /\ shapes = <<>> /\ merged = {} /\ texts = {} /\ at < Len(obj.clips)
      /\ at' = at + 1 /\ shapes' = obj.clips[at + 1] /\ areaBound' = obj.ebbox
      /\ obj' = obj /\ merged' = merged /\ texts' = texts /\ clipBound' = clipBound
      /\ list' = list /\ done' = done /\ vtexts' = vtexts /\ textList' = textList
  BY DEF Clips!NextClip
<1>1. /\ at \in Nat /\ at + 1 \in 1 .. Len(obj.clips) /\ obj \in Clipped
      /\ obj.clips[at + 1] \in Seq(Clips!Shape) /\ Len(obj.clips[at + 1]) \in Nat
      /\ obj.ebbox \in Clips!Rect
  BY <1>0, ClippedFacts DEF ClipsTyped
<1>2. ClipsTyped'
  BY <1>0, <1>1 DEF ClipsTyped
<1>3. ClipsWalk'
  <2>1. BoxesOfKind(obj.clips[at + 1], "path", 0) = {} /\ BoxesOfKind(obj.clips[at + 1], "text", 0) = {}
    BY DEF BoxesOfKind
  <2>2. QED
    BY <1>0, <1>1, <2>1 DEF ClipsWalk, InClip
<1>4. ClipsCover'
  <2>1. ASSUME Clips!Meets(obj) PROVE ClipsPassed' = ClipsPassed
    <3>1. obj.clips[at + 1] # <<>>
      BY <1>1, <2>1 DEF Clips!Meets
    <3>2. QED
      BY <1>0, <1>1, <3>1 DEF ClipsPassed, InClip
  <2>2. ClipsCover
    OBVIOUS
  <2>3. QED
    BY <1>0, <2>1, <2>2 DEF ClipsCover, Clips!Meets, Clips!HasRoom
<1>5. ClipsKeep'
  <2>1. \A c \in Clips!Meant : c \in Clips!CellsOf(obj.ebbox)
    BY DEF Clips!Meant
  <2>2. Clips!Meant' = Clips!Meant
    BY <1>0 DEF Clips!Meant
  <2>3. ClipsKeep
    OBVIOUS
  <2>4. QED
    BY <1>0, <2>1, <2>2, <2>3 DEF ClipsKeep
<1>6. ClipsCount'
  <2>1. ~InClip /\ ClipsPassed = at /\ vtexts = 0
    BY <1>0 DEF InClip, ClipsPassed, ClipsCount
  <2>2. PICK c : c = obj.clips[at + 1]
    OBVIOUS
  <2>3. TextsTo(c, 0) = {} /\ Cardinality({}) = 0 /\ Len(c) - Len(c) = 0
    BY <1>1, <2>2, FS_EmptySet DEF TextsTo
  <2>4. InClip' => vtexts' = Cardinality(TextsTo(obj.clips[at], Len(obj.clips[at]) - Len(shapes)))'
    BY <1>0, <2>1, <2>2, <2>3
  <2>5. PICK P, Q : P = PlacesTo(obj, at) /\ Q = PlacesTo(obj, at + 1)
    OBVIOUS
  <2>6. Cardinality(P) \in Nat /\ textList <= Cardinality(P) /\ IsFiniteSet(P)
    <3>1. at \in 0 .. Len(obj.clips)
      BY DEF ClipsTyped
    <3> QED BY <1>1, <2>1, <2>5, <3>1, PlacesInObject DEF ClipsCount
  <2>7. Cardinality(Q) \in Nat /\ Cardinality(P) <= Cardinality(Q)
    <3>1. at + 1 \in Nat \ {0} /\ (at + 1) - 1 = at
      BY <1>1
    <3>2. PICK K : K = TextsTo(c, Len(c))
      OBVIOUS
    <3>3. Cardinality(K) \in Nat
      BY <1>1, <2>2, <3>2, CountsAreFinite
    <3>a. PICK n \in Nat \ {0} : n = at + 1
      BY <3>1
    <3>b. P = PlacesTo(obj, n - 1) /\ Q = PlacesTo(obj, n) /\ Len(obj.clips[n]) \in Nat
      BY <1>1, <2>5, <3>1, <3>a
    <3>c. IsFiniteSet(PlacesTo(obj, n - 1)) /\ K = TextsTo(obj.clips[n], Len(obj.clips[n]))
      BY <2>2, <2>6, <3>2, <3>a, <3>b
    <3>4. Cardinality(Q) = Cardinality(P) + Cardinality(K) + (IF K = {} THEN 0 ELSE 1)
      BY <3>b, <3>c, PlacesGrow
    <3> QED BY <2>6, <3>3, <3>4
  <2>8. ClipsPassed' \in {at, at + 1}
    BY <1>0, <1>1 DEF ClipsPassed
  <2>9. PlacesTo(obj, ClipsPassed)' \in {P, Q}
    BY <1>0, <2>5, <2>8 DEF PlacesTo, Clips!TextPlaces, Clips!NullPlaces
  <2>10. vtexts' = 0 /\ textList' = textList /\ textList \in Nat
    BY <1>0, <2>1 DEF ClipsCount
  <2>11. textList' <= Cardinality(PlacesTo(obj, ClipsPassed)')
    BY <2>6, <2>7, <2>9, <2>10
  <2> QED BY <2>4, <2>10, <2>11 DEF ClipsCount
<1>7. QED
  BY <1>2, <1>3, <1>4, <1>5, <1>6 DEF ClipsInv

LEMMA BoxesOfNext ==
  ASSUME NEW clip \in Seq(Clips!Shape), NEW n \in 0 .. Len(clip) - 1, NEW what
  PROVE  BoxesOfKind(clip, what, n + 1) =
           IF clip[n + 1].kind = what THEN BoxesOfKind(clip, what, n) \cup {clip[n + 1].box}
           ELSE BoxesOfKind(clip, what, n)
<1>1. \A m : m \in 1 .. n + 1 <=> m \in 1 .. n \/ m = n + 1
  OBVIOUS
<1>2. QED
  BY <1>1 DEF BoxesOfKind

LEMMA ClipsAddArea ==
  ASSUME Clips!ClipsAssumption, ClipsInv, Clips!AddArea
  PROVE  ClipsInv'
<1> USE DEF ClipsInv
<1> DEFINE s == Head(shapes)
           clip == obj.clips[at]
           n == Len(clip) - Len(shapes)
<1>0. /\ shapes # <<>>
      /\ areaBound' = Clips!Intersect(areaBound, s.bound)
      /\ merged' = IF s.kind = "path" THEN merged \cup {s.box} ELSE merged
      /\ texts' = IF s.kind = "text" THEN texts \cup {s.box} ELSE texts
      /\ shapes' = Tail(shapes)
      /\ obj' = obj /\ at' = at /\ clipBound' = clipBound /\ list' = list /\ done' = done
      /\ vtexts' = (IF s.kind = "text" THEN vtexts + 1 ELSE vtexts) /\ textList' = textList
  BY DEF Clips!AddArea
<1>1. InClip /\ ~done
  BY <1>0 DEF InClip, ClipsWalk
<1>2. /\ at \in 1 .. Len(obj.clips) /\ clip \in Seq(Clips!Shape) /\ Len(clip) \in Nat
      /\ \A k \in 1 .. Len(clip) : clip[k] \in Clips!Shape
  BY <1>1, ClippedFacts DEF ClipsTyped, ClipsWalk
<1>3. /\ n \in 0 .. Len(clip) /\ merged = BoxesOfKind(clip, "path", n) /\ texts = BoxesOfKind(clip, "text", n)
      /\ \A k \in 1 .. Len(shapes) : shapes[k] = clip[n + k]
  BY <1>1 DEF ClipsWalk
<1>4. /\ shapes \in Seq(Clips!Shape) /\ Len(shapes) \in Nat \ {0} /\ s = shapes[1] /\ s \in Clips!Shape
      /\ shapes' \in Seq(Clips!Shape) /\ Len(shapes') = Len(shapes) - 1
      /\ \A k \in 1 .. Len(shapes') : shapes'[k] = shapes[k + 1]
  BY <1>0 DEF ClipsTyped
<1>5. n + 1 \in 1 .. Len(clip) /\ s = clip[n + 1] /\ n \in 0 .. Len(clip) - 1
  BY <1>2, <1>3, <1>4
<1>6. /\ s.kind \in {"path", "text"} /\ s.box \in Clips!Rect /\ s.bound \in Clips!Rect
      /\ s.box.l \in Int /\ s.box.r \in Int /\ s.bound.l \in Int /\ s.bound.r \in Int
  BY <1>4, ShapeFacts
<1>7. InClip' /\ ClipsPassed' = ClipsPassed
  BY <1>0, <1>1, <1>6 DEF InClip, ClipsPassed
<1>8. ClipsTyped'
  <2>1. areaBound' \in Clips!Rect
    BY <1>0, <1>6, IntersectFacts DEF ClipsTyped
  <2>2. merged' = {} \/ HasHull(merged')
    BY <1>0, <1>6, HullGrows DEF ClipsTyped
  <2>3. merged' \in SUBSET Clips!Rect /\ texts' \in SUBSET Clips!Rect
    BY <1>0, <1>6 DEF ClipsTyped
  <2>4. QED
    BY <1>0, <1>4, <2>1, <2>2, <2>3 DEF ClipsTyped
<1>9. ClipsWalk'
  <2>1. Len(clip) - Len(shapes') = n + 1
    BY <1>2, <1>4
  <2>2. \A k \in 1 .. Len(shapes') : shapes'[k] = clip[(n + 1) + k]
    <3>1. SUFFICES ASSUME NEW k \in 1 .. Len(shapes') PROVE shapes'[k] = clip[(n + 1) + k]
      OBVIOUS
    <3>a. n \in Int /\ Len(shapes) \in Nat /\ Len(shapes') = Len(shapes) - 1
      BY <1>3, <1>4, <1>2
    <3>b. \A x, y \in Int : x + (y + 1) = (x + 1) + y
      OBVIOUS
    <3>2. k + 1 \in 1 .. Len(shapes) /\ n + (k + 1) = (n + 1) + k
      <4> HIDE DEF n
      <4>1. QED
        BY <3>a, <3>b
    <3>3. QED
      BY <1>3, <1>4, <3>2
  <2>3. merged' = BoxesOfKind(clip, "path", n + 1) /\ texts' = BoxesOfKind(clip, "text", n + 1)
    <3>1. \A what : BoxesOfKind(clip, what, n + 1) =
            IF clip[n + 1].kind = what THEN BoxesOfKind(clip, what, n) \cup {clip[n + 1].box}
            ELSE BoxesOfKind(clip, what, n)
      <4> HIDE DEF n, clip
      <4>1. QED
        BY <1>2, <1>5, BoxesOfNext
    <3> HIDE DEF n, clip, s
    <3>2. QED
      BY <1>0, <1>3, <1>5, <3>1
  <2>4. at' > 0 /\ obj'.clips[at'] = clip /\ n + 1 \in 0 .. Len(clip)
    BY <1>0, <1>2, <1>5
  <2> HIDE DEF n, clip
  <2>5. QED
    BY <1>0, <1>1, <2>1, <2>2, <2>3, <2>4 DEF ClipsWalk
<1>10. ClipsCover'
  BY <1>0, <1>7 DEF ClipsCover, Clips!Meets, Clips!HasRoom
<1>11. ClipsKeep'
  <2>1. Clips!Meant' = Clips!Meant
    BY <1>0 DEF Clips!Meant
  <2>2. ASSUME AllSingle(obj), Apart(obj), NEW c \in Clips!Meant
        PROVE  c \in Clips!CellsOf(areaBound')
    <3>1. Single(clip)
      BY <2>2, <1>2 DEF AllSingle
    <3>2. n = 0 /\ s = clip[1] /\ Len(clip) = 1
      BY <3>1, <1>5 DEF Single
    <3>3. c \in Cells /\ c \in Int
      BY <2>2, ClippedFacts DEF Clips!Meant, ClipsTyped, Clips!CellsOf
    <3>4. c \in Clips!CellsOf(s.box)
      <4>1. \E k \in 1 .. Len(clip) : c \in Clips!CellsOf(clip[k].box)
        BY <1>2, <2>2 DEF Clips!Meant
      <4>2. QED
        BY <4>1, <3>2
    <3>5. s.bound.l <= s.box.l /\ s.box.r <= s.bound.r
      BY <3>1, <3>2 DEF Single
    <3>6. s.bound.l <= c /\ c < s.bound.r
      BY <3>3, <3>4, <3>5, <1>6 DEF Clips!CellsOf
    <3>7. c \in Clips!CellsOf(areaBound) /\ areaBound \in Clips!Rect
      BY <2>2 DEF ClipsKeep, ClipsTyped
    <3>8. areaBound'.l <= c /\ c < areaBound'.r
      BY <3>3, <3>6, <3>7, <1>0, <1>6, IntersectFacts DEF Clips!CellsOf
    <3>9. QED
      BY <3>3, <3>8 DEF Clips!CellsOf
  <2>3. ClipsKeep
    OBVIOUS
  <2>4. QED
    BY <1>0, <2>1, <2>2, <2>3 DEF ClipsKeep
<1>12. ClipsCount'
  <2>1. Len(clip) - Len(shapes') = n + 1 /\ n \in Nat
    BY <1>2, <1>3, <1>4
  <2>2. PICK cl, x : cl = clip /\ x = n
    OBVIOUS
  <2>3. vtexts = Cardinality(TextsTo(cl, x)) /\ vtexts \in Nat /\ textList \in Nat
        /\ textList <= Cardinality(PlacesTo(obj, ClipsPassed))
    BY <1>1, <2>2 DEF ClipsCount
  <2>4. Cardinality(TextsTo(cl, x + 1)) =
          Cardinality(TextsTo(cl, x)) + (IF cl[x + 1].kind = "text" THEN 1 ELSE 0)
    BY <2>1, <2>2, OneTextMore
  <2>5. cl[x + 1] = s
    BY <1>5, <2>2
  <2>6. vtexts' = Cardinality(TextsTo(cl, x + 1)) /\ vtexts' \in Nat
    <3> HIDE DEF s
    <3> QED BY <1>0, <2>3, <2>4, <2>5
  <2>7. obj'.clips[at'] = cl /\ Len(obj'.clips[at']) - Len(shapes') = x + 1
    BY <1>0, <2>1, <2>2
  <2>8. textList' <= Cardinality(PlacesTo(obj, ClipsPassed)')
    <3>1. PlacesTo(obj, ClipsPassed)' = PlacesTo(obj, ClipsPassed)
      BY <1>0, <1>7 DEF PlacesTo, Clips!TextPlaces, Clips!NullPlaces
    <3> QED BY <1>0, <2>3, <3>1
  <2> QED BY <1>0, <1>7, <2>3, <2>6, <2>7, <2>8 DEF ClipsCount
<1>13. QED
  BY <1>8, <1>9, <1>10, <1>11, <1>12 DEF ClipsInv

(* The paths and texts of a Clip, appended one after the other, narrow the *)
(* list.                                                                   *)
LEMMA EndNarrows ==
  ASSUME Clips!ClipsAssumption, ClipsTyped,
         NEW new, new = Clips!WithTextAndPath(list)
  PROVE  /\ Narrows(list, new, {b \in {merged, texts} : b # {}})
         /\ texts # {} /\ Clips!TextsFit => \E m \in 1 .. Len(new) : new[m] = texts
         /\ merged # {} /\ ~Clips!IsEmpty(Clips!Intersect(Clips!Hull(merged), obj.rect)) =>
              \E m \in 1 .. Len(new) : new[m] = merged
<1> DEFINE shown_ == merged # {} /\ ~Clips!IsEmpty(Clips!Intersect(Clips!Hull(merged), obj.rect))
<1>1. PICK mid : mid = Clips!WithPath(list)
  OBVIOUS
<1>2. mid = IF shown_ THEN Clips!AppendPath(list, merged) ELSE list
  BY <1>1 DEF Clips!WithPath
<1> HIDE DEF shown_
<1>3. /\ list \in Seq(SUBSET Clips!Rect) /\ list # <<>> /\ merged \in SUBSET Clips!Rect
      /\ texts \in SUBSET Clips!Rect /\ Cells \subseteq Int
  BY ClippedFacts DEF ClipsTyped
<1>4. /\ Narrows(list, mid, {b \in {merged} : b # {}})
      /\ shown_ => \E m \in 1 .. Len(mid) : mid[m] = merged
  <2>1. CASE shown_
    <3>1. merged # {} /\ HasHull(merged)
      BY <2>1 DEF shown_, ClipsTyped
    <3>2. mid = Clips!AppendPath(list, merged)
      BY <2>1, <1>2
    <3>3. Narrows(list, mid, {merged}) /\ \E m \in 1 .. Len(mid) : mid[m] = merged
      BY <1>3, <3>1, <3>2, AppendNarrows
    <3>4. QED
      BY <3>1, <3>3 DEF Narrows
  <2>2. CASE ~shown_
    BY <1>2, <1>3, <2>2 DEF Narrows
  <2>3. QED BY <2>1, <2>2
<1>5. CASE ~(texts # {} /\ Clips!TextsFit)
  <2>1. new = mid
    BY <1>1, <1>5 DEF Clips!WithTextAndPath
  <2>2. QED
    BY <2>1, <1>4, <1>5 DEF Narrows, shown_
<1>6. CASE texts # {} /\ Clips!TextsFit
  <2>1. new = <<texts>> \o mid
    BY <1>1, <1>6 DEF Clips!WithTextAndPath
  <2>2. mid \in Seq(SUBSET Clips!Rect) /\ Len(mid) \in Nat
    BY <1>4 DEF Narrows
  <2>3. /\ new \in Seq(SUBSET Clips!Rect) /\ Len(new) = Len(mid) + 1 /\ new # <<>>
        /\ new[1] = texts /\ \A m \in 1 .. Len(mid) : new[m + 1] = mid[m]
    BY <2>1, <2>2, <1>3
  <2>4. \A m \in 1 .. Len(mid) : m + 1 \in 1 .. Len(new) /\ new[m + 1] = mid[m]
    BY <2>2, <2>3
  <2>5. \A m \in 1 .. Len(new) : m = 1 \/ (m - 1 \in 1 .. Len(mid) /\ new[m] = mid[m - 1])
    <3>1. SUFFICES ASSUME NEW m \in 1 .. Len(new), m # 1
                   PROVE  m - 1 \in 1 .. Len(mid) /\ new[m] = mid[m - 1]
      OBVIOUS
    <3>2. m - 1 \in 1 .. Len(mid) /\ (m - 1) + 1 = m
      BY <2>2, <2>3, <3>1
    <3>3. QED
      BY <2>3, <3>2
  <2>6. 1 \in 1 .. Len(new)
    BY <2>2, <2>3
  <2>7. \A k \in 1 .. Len(list) : \E m \in 1 .. Len(new) :
          Clips!Filled(new[m]) \subseteq Clips!Filled(list[k])
    BY <1>4, <2>4 DEF Narrows
  <2>8. \A m \in 1 .. Len(new) : new[m] \in {b \in {merged, texts} : b # {}}
                                 \/ \E k \in 1 .. Len(list) : new[m] = list[k]
    <3>1. \A m \in 1 .. Len(mid) : (mid[m] = merged /\ merged # {}) \/ \E k \in 1 .. Len(list) : mid[m] = list[k]
      BY <1>4 DEF Narrows
    <3>2. SUFFICES ASSUME NEW m \in 1 .. Len(new)
                   PROVE  (new[m] = merged /\ merged # {}) \/ (new[m] = texts /\ texts # {})
                          \/ \E k \in 1 .. Len(list) : new[m] = list[k]
      OBVIOUS
    <3>3. CASE m = 1
      BY <3>3, <2>3, <1>6
    <3>4. CASE m # 1
      BY <3>4, <3>1, <2>5
    <3>5. QED
      BY <3>3, <3>4
  <2>9. shown_ => \E m \in 1 .. Len(new) : new[m] = merged
    BY <1>4, <2>4
  <2>10. QED
    BY <1>6, <2>3, <2>6, <2>7, <2>8, <2>9 DEF Narrows, shown_
<1>7. QED
  BY <1>5, <1>6

LEMMA ClipsEndOfClip ==
  ASSUME Clips!ClipsAssumption, ClipsInv, Clips!EndOfClip
  PROVE  ClipsInv'
<1> USE DEF ClipsInv
<1> DEFINE clip == obj.clips[at]
           narrow == IF merged = {} THEN clipBound ELSE Clips!Intersect(clipBound, Clips!Hull(merged))
<1>0. /\ shapes = <<>> /\ (merged # {} \/ texts # {})
      /\ clipBound' = Clips!Intersect(narrow, areaBound)
      /\ list' = Clips!WithTextAndPath(list)
      /\ merged' = {} /\ texts' = {} /\ obj' = obj /\ at' = at /\ shapes' = shapes
      /\ areaBound' = areaBound /\ done' = done /\ vtexts' = 0
      /\ textList' = IF texts # {} /\ Clips!TextsFit THEN textList + vtexts + 1 ELSE textList
  BY DEF Clips!EndOfClip
<1>1. InClip /\ ~done
  BY <1>0 DEF InClip, ClipsWalk
<1>2. /\ at \in 1 .. Len(obj.clips) /\ clip \in Seq(Clips!Shape) /\ Len(clip) \in Nat
      /\ \A k \in 1 .. Len(clip) : clip[k] \in Clips!Shape
  BY <1>1, ClippedFacts DEF ClipsTyped, ClipsWalk
<1>3. /\ merged = BoxesOfKind(clip, "path", Len(clip)) /\ texts = BoxesOfKind(clip, "text", Len(clip))
  <2>1. Len(clip) - Len(shapes) = Len(clip)
    BY <1>0, <1>2
  <2>2. QED
    BY <1>1, <2>1 DEF ClipsWalk
<1>4. ~InClip' /\ ClipsPassed' = at /\ ClipsPassed = at - 1
  BY <1>0, <1>1 DEF InClip, ClipsPassed
<1>5. /\ Narrows(list, list', {b \in {merged, texts} : b # {}})
      /\ texts # {} /\ Clips!TextsFit => \E m \in 1 .. Len(list') : list'[m] = texts
      /\ merged # {} /\ ~Clips!IsEmpty(Clips!Intersect(Clips!Hull(merged), obj.rect)) =>
           \E m \in 1 .. Len(list') : list'[m] = merged
  BY <1>0, EndNarrows
<1>6. /\ narrow \in Clips!Rect /\ areaBound \in Clips!Rect /\ clipBound \in Clips!Rect
      /\ merged # {} => /\ Clips!Hull(merged) \in Clips!Rect
                        /\ \A b \in merged : Clips!Hull(merged).l <= b.l /\ b.r <= Clips!Hull(merged).r
  BY HullBounds, IntersectFacts DEF ClipsTyped
<1>7. ClipsTyped'
  <2>1. clipBound' \in Clips!Rect
    <3> HIDE DEF narrow
    <3>1. QED
      BY <1>0, <1>6, IntersectFacts
  <2>2. list' \in Seq(SUBSET Clips!Rect) /\ list' # <<>>
    BY <1>5 DEF Narrows
  <2>3. QED
    BY <1>0, <2>1, <2>2 DEF ClipsTyped
<1>8. ClipsWalk'
  BY <1>0, <1>1, <1>4 DEF ClipsWalk
<1>a. PICK K : K = TextsTo(clip, Len(clip))
  OBVIOUS
<1>b. /\ vtexts = Cardinality(K) /\ vtexts \in Nat /\ textList \in Nat
      /\ Cardinality(PlacesTo(obj, at)) \in Nat
      /\ textList + vtexts + (IF K = {} THEN 0 ELSE 1) <= Cardinality(PlacesTo(obj, at))
      /\ K = {} <=> texts = {}
  <2>1. /\ textList \in Nat /\ vtexts = Cardinality(K) /\ vtexts \in Nat
        /\ textList <= Cardinality(PlacesTo(obj, at - 1))
    <3>1. Len(clip) - Len(shapes) = Len(clip)
      BY <1>0, <1>2
    <3> QED BY <1>1, <1>4, <1>a, <3>1 DEF ClipsCount
  <2>2. PICK n, P, Q : n = at /\ P = PlacesTo(obj, n - 1) /\ Q = PlacesTo(obj, n)
    OBVIOUS
  <2>3. n \in 0 .. Len(obj.clips) /\ n - 1 \in 0 .. Len(obj.clips) /\ n \in Nat \ {0} /\ obj \in Clipped
    BY <1>2, <2>2, ClippedFacts DEF ClipsTyped
  <2>4. IsFiniteSet(P) /\ Cardinality(P) \in Nat /\ Cardinality(Q) \in Nat
    BY <2>2, <2>3, PlacesInObject
  <2>5. Cardinality(Q) = Cardinality(P) + Cardinality(K) + (IF K = {} THEN 0 ELSE 1)
    <3>1. Len(obj.clips[n]) \in Nat /\ K = TextsTo(obj.clips[n], Len(obj.clips[n]))
      BY <1>2, <1>a, <2>2
    <3>2. IsFiniteSet(PlacesTo(obj, n - 1))
      BY <2>2, <2>4
    <3>3. Cardinality(PlacesTo(obj, n)) = Cardinality(PlacesTo(obj, n - 1)) + Cardinality(K) + (IF K = {} THEN 0 ELSE 1)
      BY <2>3, <3>1, <3>2, PlacesGrow
    <3> QED BY <2>2, <3>3
  <2>6. K = {} <=> texts = {}
    BY <1>3, <1>a DEF TextsTo, BoxesOfKind
  <2>7. textList + vtexts + (IF K = {} THEN 0 ELSE 1) <= Cardinality(Q)
    <3>1. \A a, b, c, k, q \in Nat : a <= b /\ q = b + c + k => a + c + k <= q
      OBVIOUS
    <3>2. PICK k \in Nat : k = IF K = {} THEN 0 ELSE 1
      OBVIOUS
    <3> QED BY <2>1, <2>2, <2>4, <2>5, <3>1, <3>2
  <2> QED BY <2>1, <2>2, <2>4, <2>6, <2>7
<1>c. Clips!HasRoom(obj) /\ texts # {} => Clips!TextsFit
  <2>1. SUFFICES ASSUME Clips!HasRoom(obj), texts # {}
                 PROVE  textList + vtexts <= MaxTextObjects
    BY DEF Clips!TextsFit
  <2>2. at \in 0 .. Len(obj.clips) /\ obj \in Clipped /\ MaxTextObjects \in Nat /\ Len(obj.clips) \in Nat
    BY <1>2, ClippedFacts DEF ClipsTyped
  <2>3. PICK N : N = Cardinality(PlacesTo(obj, Len(obj.clips)))
    OBVIOUS
  <2>4. Cardinality(PlacesTo(obj, at)) <= N /\ N \in Nat
    BY <2>2, <2>3, PlacesInObject
  <2>5. N <= MaxTextObjects + 1
    BY <2>1, <2>3, SameCardinality DEF Clips!HasRoom, PlacesTo
  <2> QED BY <1>b, <2>1, <2>2, <2>4, <2>5
<1>9. ClipsCover'
  <2>1. SUFFICES ASSUME Clips!Meets(obj), Clips!HasRoom(obj)
                 PROVE  /\ \E k \in 1 .. Len(list') : Clips!Filled(list'[k]) \subseteq Clips!CellsOf(obj.ebbox)
                        /\ \A n \in 1 .. at : \E k \in 1 .. Len(list') :
                             Clips!Filled(list'[k]) \subseteq Clips!Filled(BoxesOf(obj.clips[n]))
    BY <1>0, <1>4 DEF ClipsCover, Clips!Meets, Clips!HasRoom, Clips!Filled, Clips!CellsOf
  <2>2. \A k \in 1 .. Len(list) : \E m \in 1 .. Len(list') :
          Clips!Filled(list'[m]) \subseteq Clips!Filled(list[k])
    BY <1>5 DEF Narrows
  <2>3. /\ \E k \in 1 .. Len(list) : Clips!Filled(list[k]) \subseteq Clips!CellsOf(obj.ebbox)
        /\ \A n \in 1 .. at - 1 : \E k \in 1 .. Len(list) :
             Clips!Filled(list[k]) \subseteq Clips!Filled(BoxesOf(obj.clips[n]))
    BY <1>4, <2>1 DEF ClipsCover
  <2>4. \E k \in 1 .. Len(list') : Clips!Filled(list'[k]) \subseteq Clips!Filled(BoxesOf(clip))
    <3>1. merged \subseteq BoxesOf(clip) /\ texts \subseteq BoxesOf(clip)
      BY <1>3 DEF BoxesOf, BoxesOfKind
    <3>2. Clips!Filled(merged) \subseteq Clips!Filled(BoxesOf(clip))
      BY <3>1 DEF Clips!Filled
    <3>3. Clips!Filled(texts) \subseteq Clips!Filled(BoxesOf(clip))
      BY <3>1 DEF Clips!Filled
    <3>4. CASE texts # {}
      BY <1>5, <1>c, <2>1, <3>3, <3>4
    <3>5. CASE merged # {}
      <4>1. Clips!Paths(clip) = merged
        BY <1>3 DEF Clips!Paths, BoxesOfKind
      <4>2. ~Clips!IsEmpty(Clips!Intersect(Clips!Hull(merged), obj.rect))
        BY <4>1, <2>1, <1>2, <3>5 DEF Clips!Meets
      <4>3. QED
        BY <4>2, <3>5, <1>5, <3>2
    <3>6. QED
      BY <3>4, <3>5, <1>0
  <2>5. \A n \in 1 .. at : n = at \/ n \in 1 .. at - 1
    BY <1>2
  <2>6. \E k \in 1 .. Len(list') : Clips!Filled(list'[k]) \subseteq Clips!CellsOf(obj.ebbox)
    BY <2>2, <2>3
  <2>7. ASSUME NEW n \in 1 .. at - 1
        PROVE  \E k \in 1 .. Len(list') : Clips!Filled(list'[k]) \subseteq Clips!Filled(BoxesOf(obj.clips[n]))
    BY <2>2, <2>3
  <2>8. QED
    BY <2>4, <2>5, <2>6, <2>7
<1>10. ClipsKeep'
  <2>1. Clips!Meant' = Clips!Meant
    BY <1>0 DEF Clips!Meant
  <2>2. SUFFICES ASSUME Apart(obj), NEW c \in Clips!Meant
                 PROVE  /\ \A k \in 1 .. Len(list') : c \in Clips!Filled(list'[k])
                        /\ AllSingle(obj) => c \in Clips!CellsOf(clipBound') /\ c \in Clips!CellsOf(areaBound)
    BY <1>0, <2>1 DEF ClipsKeep, Clips!Filled, Clips!CellsOf
  <2>3. /\ \A k \in 1 .. Len(list) : c \in Clips!Filled(list[k])
        /\ AllSingle(obj) => c \in Clips!CellsOf(clipBound) /\ c \in Clips!CellsOf(areaBound)
    BY <2>2 DEF ClipsKeep
  <2>4. c \in Cells /\ c \in Int
    BY ClippedFacts DEF Clips!Meant, ClipsTyped, Clips!CellsOf
  <2>5. PICK k \in 1 .. Len(clip) : c \in Clips!CellsOf(clip[k].box)
    BY <1>2, <2>2 DEF Clips!Meant
  <2>6. \A m \in 1 .. Len(clip) : clip[m].kind = clip[k].kind
    BY <1>2, <2>2 DEF Apart
  <2>7. (merged # {} => clip[k].box \in merged) /\ (texts # {} => clip[k].box \in texts)
    BY <1>3, <2>6 DEF BoxesOfKind
  <2>8. (merged # {} => c \in Clips!Filled(merged)) /\ (texts # {} => c \in Clips!Filled(texts))
    BY <2>5, <2>7 DEF Clips!Filled
  <2>9. \A m \in 1 .. Len(list') : c \in Clips!Filled(list'[m])
    BY <1>5, <2>3, <2>8 DEF Narrows
  <2>10. ASSUME AllSingle(obj) PROVE c \in Clips!CellsOf(clipBound')
    <3>1. /\ clipBound.l <= c /\ c < clipBound.r /\ areaBound.l <= c /\ c < areaBound.r
      BY <2>3, <2>10 DEF Clips!CellsOf
    <3>2. narrow.l <= c /\ c < narrow.r
      <4>1. CASE merged = {}
        BY <4>1, <3>1
      <4>2. CASE merged # {}
        <5>1. clip[k].box \in merged /\ clip[k].box.l \in Int /\ clip[k].box.r \in Int
          BY <2>7, <4>2, <1>2, ShapeFacts
        <5>2. /\ clip[k].box.l <= c /\ c < clip[k].box.r
          BY <2>5 DEF Clips!CellsOf
        <5>3. Clips!Hull(merged).l \in Int /\ Clips!Hull(merged).r \in Int
          BY <1>6, <4>2 DEF Clips!Rect
        <5>4. Clips!Hull(merged).l <= clip[k].box.l /\ clip[k].box.r <= Clips!Hull(merged).r
          BY <1>6, <4>2, <5>1
        <5>5. Clips!Hull(merged).l <= c /\ c < Clips!Hull(merged).r
          <6> HIDE DEF clip
          <6>1. QED
            BY <5>1, <5>2, <5>3, <5>4, <2>4
        <5>6. QED
          BY <5>5, <3>1, <4>2, <1>6, <2>4, IntersectFacts
      <4>3. QED BY <4>1, <4>2
    <3>3. clipBound'.l <= c /\ c < clipBound'.r
      <4> HIDE DEF narrow
      <4>1. QED
        BY <3>1, <3>2, <1>0, <1>6, <2>4, IntersectFacts
    <3>4. QED
      BY <3>3, <2>4 DEF Clips!CellsOf
  <2>11. QED
    BY <2>3, <2>9, <2>10
<1>11. ClipsCount'
  <2>1. PlacesTo(obj, ClipsPassed)' = PlacesTo(obj, at)
    BY <1>0, <1>4 DEF PlacesTo, Clips!TextPlaces, Clips!NullPlaces
  <2>2. PICK q : q = Cardinality(PlacesTo(obj, at))
    OBVIOUS
  <2>3. textList' \in Nat /\ textList' <= q
    <3>1. CASE texts # {} /\ Clips!TextsFit
      BY <1>0, <1>b, <2>2, <3>1
    <3>2. CASE ~(texts # {} /\ Clips!TextsFit)
      BY <1>0, <1>b, <2>2, <3>2
    <3> QED BY <3>1, <3>2
  <2> QED BY <1>0, <1>4, <2>1, <2>2, <2>3 DEF ClipsCount
<1>12. QED
  BY <1>7, <1>8, <1>9, <1>10, <1>11 DEF ClipsInv

LEMMA ClipsEndOfClips ==
  ASSUME Clips!ClipsAssumption, ClipsInv, Clips!EndOfClips
  PROVE  ClipsInv'
<1> USE DEF ClipsInv
<1>0. /\ ~done /\ at = Len(obj.clips) /\ shapes = <<>> /\ merged = {} /\ texts = {}
      /\ list' = IF ~Clips!IsEmpty(clipBound) /\ at > 1 THEN Clips!AppendPath(list, {clipBound}) ELSE list
      /\ done' = TRUE
      /\ obj' = obj /\ at' = at /\ shapes' = shapes /\ merged' = merged /\ texts' = texts
      /\ areaBound' = areaBound /\ clipBound' = clipBound
      /\ vtexts' = vtexts /\ textList' = textList
  BY DEF Clips!EndOfClips
<1>1. /\ list \in Seq(SUBSET Clips!Rect) /\ list # <<>> /\ clipBound \in Clips!Rect
      /\ Cells \subseteq Int /\ at \in Nat
  BY ClippedFacts DEF ClipsTyped
<1>2. HasHull({clipBound}) /\ {clipBound} \in SUBSET Clips!Rect
  BY <1>1 DEF HasHull, Clips!Rect
<1>3. Narrows(list, list', IF at > 1 THEN {{clipBound}} ELSE {})
  <2>1. CASE ~Clips!IsEmpty(clipBound) /\ at > 1
    BY <1>0, <1>1, <1>2, <2>1, AppendNarrows
  <2>2. CASE ~(~Clips!IsEmpty(clipBound) /\ at > 1)
    BY <1>0, <1>1, <2>2 DEF Narrows
  <2>3. QED BY <2>1, <2>2
<1>4. ~InClip /\ ~InClip' /\ ClipsPassed' = ClipsPassed
  BY <1>0 DEF InClip, ClipsPassed
<1>5. ClipsTyped'
  BY <1>0, <1>3 DEF ClipsTyped, Narrows
<1>6. ClipsWalk'
  BY <1>0, <1>4 DEF ClipsWalk
<1>7. ClipsCover'
  <2>1. \A k \in 1 .. Len(list) : \E m \in 1 .. Len(list') :
          Clips!Filled(list'[m]) \subseteq Clips!Filled(list[k])
    BY <1>3 DEF Narrows
  <2>2. SUFFICES ASSUME Clips!Meets(obj), Clips!HasRoom(obj)
                 PROVE  /\ \E k \in 1 .. Len(list') : Clips!Filled(list'[k]) \subseteq Clips!CellsOf(obj.ebbox)
                        /\ \A n \in 1 .. ClipsPassed : \E k \in 1 .. Len(list') :
                             Clips!Filled(list'[k]) \subseteq Clips!Filled(BoxesOf(obj.clips[n]))
    BY <1>0, <1>4 DEF ClipsCover, Clips!Meets, Clips!HasRoom, Clips!Filled, Clips!CellsOf
  <2>3. /\ \E k \in 1 .. Len(list) : Clips!Filled(list[k]) \subseteq Clips!CellsOf(obj.ebbox)
        /\ \A n \in 1 .. ClipsPassed : \E k \in 1 .. Len(list) :
             Clips!Filled(list[k]) \subseteq Clips!Filled(BoxesOf(obj.clips[n]))
    BY <2>2 DEF ClipsCover
  <2>4. \E k \in 1 .. Len(list') : Clips!Filled(list'[k]) \subseteq Clips!CellsOf(obj.ebbox)
    BY <2>1, <2>3
  <2>5. ASSUME NEW n \in 1 .. ClipsPassed
        PROVE  \E k \in 1 .. Len(list') : Clips!Filled(list'[k]) \subseteq Clips!Filled(BoxesOf(obj.clips[n]))
    BY <2>1, <2>3
  <2>6. QED
    BY <2>4, <2>5
<1>8. ClipsKeep'
  <2>1. Clips!Meant' = Clips!Meant
    BY <1>0 DEF Clips!Meant
  <2>2. SUFFICES ASSUME Apart(obj), NEW c \in Clips!Meant
                 PROVE  /\ \A k \in 1 .. Len(list') : c \in Clips!Filled(list'[k])
                        /\ AllSingle(obj) => c \in Clips!CellsOf(clipBound) /\ c \in Clips!CellsOf(areaBound)
    BY <1>0, <2>1 DEF ClipsKeep, Clips!Filled, Clips!CellsOf
  <2>3. /\ \A k \in 1 .. Len(list) : c \in Clips!Filled(list[k])
        /\ AllSingle(obj) => c \in Clips!CellsOf(clipBound) /\ c \in Clips!CellsOf(areaBound)
    BY <2>2 DEF ClipsKeep
  <2>4. at > 1 => AllSingle(obj)
    BY <1>0, <1>1, <2>2 DEF Apart
  <2>5. at > 1 => c \in Clips!Filled({clipBound})
    BY <2>3, <2>4 DEF Clips!Filled
  <2>6. QED
    BY <1>3, <2>3, <2>5 DEF Narrows
<1>9. ClipsCount'
  <2>1. PlacesTo(obj, ClipsPassed)' = PlacesTo(obj, ClipsPassed)
    BY <1>0, <1>4 DEF PlacesTo, Clips!TextPlaces, Clips!NullPlaces
  <2> QED BY <1>0, <1>4, <2>1 DEF ClipsCount
<1>10. QED
  BY <1>5, <1>6, <1>7, <1>8, <1>9 DEF ClipsInv

ClipsFrame == kind = "clips" => ClipsInv

LEMMA ClipsFrameInit ==
  ASSUME Init
  PROVE  ClipsFrame
  BY ClipsInit, ParsersAssumption DEF ClipsFrame, Init

LEMMA ClipsFrameNext ==
  ASSUME ClipsFrame, [Next]_vars
  PROVE  ClipsFrame'
<1>1. kind' = kind
  BY DEF Next, Step, ParseLayer, ParseText, ParseClips, ParsePath, NextLayer, vars
<1>2. SUFFICES ASSUME kind = "clips" PROVE ClipsInv'
  BY <1>1 DEF ClipsFrame
<1>3. ClipsInv /\ Clips!ClipsAssumption
  BY <1>2, ParsersAssumption DEF ClipsFrame
<1>4. Clips!Step \/ UNCHANGED <<obj, at, ClipsOnly>>
  BY <1>2 DEF Next, Step, ParseLayer, ParseText, ParseClips, ParsePath, NextLayer, vars
<1>5. CASE Clips!Step
  BY <1>3, <1>5, ClipsNextClip, ClipsAddArea, ClipsEndOfClip, ClipsEndOfClips DEF Clips!Step
<1>6. CASE UNCHANGED <<obj, at, ClipsOnly>>
  <2>0. /\ obj' = obj /\ at' = at /\ shapes' = shapes /\ merged' = merged /\ texts' = texts
        /\ vtexts' = vtexts /\ areaBound' = areaBound /\ clipBound' = clipBound /\ list' = list
        /\ textList' = textList /\ done' = done
    BY <1>6 DEF ClipsOnly
  <2>1. ClipsTyped'
    BY <1>3, <2>0 DEF ClipsInv, ClipsTyped
  <2>2. ClipsWalk'
    BY <1>3, <2>0 DEF ClipsInv, ClipsWalk, InClip
  <2>3. ClipsPassed' = ClipsPassed /\ InClip' = InClip
    BY <2>0 DEF ClipsPassed, InClip
  <2>4. ClipsCover'
    BY <1>3, <2>0, <2>3 DEF ClipsInv, ClipsCover
  <2>5. ClipsKeep'
    BY <1>3, <2>0 DEF ClipsInv, ClipsKeep, Clips!Meant
  <2>6. ClipsCount'
    BY <1>3, <2>0, <2>3 DEF ClipsInv, ClipsCount
  <2> QED BY <2>1, <2>2, <2>4, <2>5, <2>6 DEF ClipsInv
<1>7. QED
  BY <1>4, <1>5, <1>6

(* Clips never show what they exclude, as long as AppendTexts has room for *)
(* their texts, and show all they include where the code keeps their paths *)
(* and texts, or several Clips, apart: for objects with any Clips, and any *)
(* limit of texts (COFD_Page::ApplyClips, CPDF_ClipPath::AppendTexts).     *)
THEOREM ClipsShowWhatIsMeant == Spec => []ClipsAsMeant
<1>1. Init => ClipsFrame
  BY ClipsFrameInit
<1>2. ClipsFrame /\ [Next]_vars => ClipsFrame'
  BY ClipsFrameNext
<1>3. ClipsFrame => ClipsAsMeant
  BY ClipsGive, ParsersAssumption DEF ClipsFrame, ClipsAsMeant
<1>4. QED
  BY <1>1, <1>2, <1>3, PTL DEF Spec

-----------------------------------------------------------------------------
(* The state of the parser of layers.                                      *)
Whos == {"default", "own", "dp"} \X Nat
Styled == [name : STRING, elem : Style!Element, layer : Nat, style : [Style!Attrs -> Whos]]
Frame == [rest : Seq(Style!Element), out : Seq(Styled), layer : Nat]
DrawCall == [tag : {"DrawParam", "PathObject", "TextObject", "ImageObject", "CompositeObject"},
             has : SUBSET Style!Attrs, relative : Nat, who : Whos, down : BOOLEAN]

StyleTyped ==
  /\ doc \in Documents /\ state \in {"idle", "busy", "dead"}
  /\ frames \in Seq(Frame) /\ obj \in Styled \cup {Style!NoObject}
  /\ calls \in Seq(DrawCall) /\ draw \in Seq(DrawCall) /\ page \in Seq(Styled)
  /\ state = "busy" => frames # <<>>
  /\ state # "busy" => frames = <<>> /\ obj = Style!NoObject
  /\ obj = Style!NoObject => calls = <<>> /\ draw = <<>>

Units == DOMAIN doc.compositeobj
Params == DOMAIN doc.drawparams

LEMMA WhosFacts ==
  /\ Style!Default \in Whos /\ Style!Own \in Whos
  /\ \A id \in Nat : Style!By(id) \in Whos
  BY DEF Whos, Style!Default, Style!Own, Style!By

LEMMA StyledIsSome == Style!NoObject \notin Styled
<1>1. \A o \in Styled : "elem" \in DOMAIN o
  BY DEF Styled
<1>2. DOMAIN Style!NoObject = {"name"}
  BY DEF Style!NoObject
<1>3. QED
  BY <1>1, <1>2

(* What the assumption on documents says of the one at hand.               *)
LEMMA DocFacts ==
  ASSUME Style!StyleAssumption, doc \in Documents
  PROVE  /\ MaxDepth \in Nat \ {0}
         /\ doc.layer \in Nat /\ doc.content \in Seq(Style!Element)
         /\ Params \subseteq Nat \ {0} /\ Units \subseteq Nat \ {0}
         /\ \A id \in Params : /\ doc.drawparams[id].has \in SUBSET Style!Attrs
                               /\ doc.drawparams[id].relative \in Nat
         /\ \A u \in Units : doc.compositeobj[u] \in Seq(Style!Element)
<1>1. MaxDepth \in Nat \ {0} /\ Style!IsDocument(doc)
  BY DEF Style!StyleAssumption
<1>2. QED
  BY <1>1 DEF Style!IsDocument, Style!DrawParam, Params, Units

LEMMA ElementFacts ==
  ASSUME NEW e \in Style!Element
  PROVE  /\ e.name \in STRING /\ e.shown \in BOOLEAN /\ e.dp \in Nat /\ e.res \in Nat
         /\ e.tag \in {"PathObject", "TextObject", "ImageObject", "CompositeObject"}
         /\ e.has \in SUBSET Style!Attrs
  BY DEF Style!Element

LEMMA NewObjectTyped ==
  ASSUME NEW e \in Style!Element, NEW layer \in Nat
  PROVE  Style!NewObject(e, layer) \in Styled
  BY WhosFacts, ElementFacts DEF Style!NewObject, Styled, Style!Plain

LEMMA OfParamTyped ==
  ASSUME Style!StyleAssumption, doc \in Documents, NEW id \in Params
  PROVE  Style!OfParam(id) \in DrawCall
<1>1. id \in Nat /\ doc.drawparams[id].has \in SUBSET Style!Attrs /\ doc.drawparams[id].relative \in Nat
  BY DocFacts
<1>2. QED
  BY <1>1, WhosFacts DEF Style!OfParam, DrawCall

LEMMA OfElementTyped ==
  ASSUME NEW e \in Style!Element
  PROVE  Style!OfElement(e) \in DrawCall
  BY WhosFacts, ElementFacts DEF Style!OfElement, DrawCall

LEMMA CallsTyped ==
  ASSUME Style!StyleAssumption, doc \in Documents, NEW e \in Style!Element, NEW layer \in Nat
  PROVE  Style!Calls(e, layer) \in Seq(DrawCall)
<1>1. \A id : Style!IfKnown(id) \in Seq(DrawCall)
  BY OfParamTyped DEF Style!IfKnown, Style!Known, Params
<1>2. <<Style!OfElement(e)>> \in Seq(DrawCall)
  BY OfElementTyped
<1>3. \A s, t \in Seq(DrawCall) : s \o t \in Seq(DrawCall)
  OBVIOUS
<1>4. QED
  BY <1>1, <1>2, <1>3 DEF Style!Calls

LEMMA AppliedTyped ==
  ASSUME NEW o \in Styled, NEW c \in DrawCall
  PROVE  /\ Style!Applied(o, c) \in Styled
         /\ Style!Applied(o, c).elem = o.elem /\ Style!Applied(o, c).layer = o.layer
         /\ Style!Applied(o, c).name = o.name
         /\ \A a \in Style!Attrs : Style!Applied(o, c).style[a] = IF a \in c.has THEN c.who ELSE o.style[a]
<1>1. /\ c.who \in Whos /\ o.style \in [Style!Attrs -> Whos]
  BY DEF DrawCall, Styled
<1>2. QED
  BY <1>1, WhosFacts DEF Style!Applied, Styled

LEMMA FinishedTyped ==
  ASSUME NEW o \in Styled
  PROVE  /\ Style!Finished(o) \in Styled
         /\ Style!Finished(o).elem = o.elem /\ Style!Finished(o).layer = o.layer
         /\ Style!Finished(o).name = o.name
         /\ \A a \in Style!Attrs : Style!Finished(o).style[a] =
              IF o.elem.tag = "PathObject" /\ a \in o.elem.has \cap Style!Again THEN Style!Own ELSE o.style[a]
  BY WhosFacts DEF Style!Finished, Styled

(* Ranks of the resources up to N, as NestedWithin has them.              *)
ParamRank(r, N) ==
  /\ N \in Nat /\ r \in [Params -> 1 .. N]
  /\ \A id \in Params : doc.drawparams[id].relative \in Params => r[doc.drawparams[id].relative] < r[id]
UnitRank(r, N) ==
  /\ N \in Nat /\ r \in [Units -> 1 .. N]
  /\ \A u \in Units : \A k \in 1 .. Len(doc.compositeobj[u]) :
       doc.compositeobj[u][k].tag = "CompositeObject" /\ doc.compositeobj[u][k].res \in Units =>
         r[doc.compositeobj[u][k].res] < r[u]

Elems(s) == {s[m] : m \in 1 .. Len(s)}

(* The composites under way are units of lower and lower rank ...          *)
FramesDescend ==
  \A r, N : UnitRank(r, N) => \A k \in 2 .. Len(frames) : \E u \in Units :
    /\ Elems(frames[k].rest) \subseteq Elems(doc.compositeobj[u])
    /\ r[u] <= N - (k - 2)

(* ... and so are the DrawParams, ...                                      *)
DrawDescends ==
  \A r, N : ParamRank(r, N) => \A k \in 1 .. Len(draw) : draw[k].relative \in Params =>
    \E id \in Params : /\ draw[k].relative = doc.drawparams[id].relative
                       /\ r[id] <= N - (k - 1)

(* ... the first of which are those that are called.                       *)
CallsOfParams ==
  \A k \in 1 .. Len(calls) : calls[k].relative \in Params =>
    \E id \in Params : calls[k].relative = doc.drawparams[id].relative

DeathInv ==
  StyleTyped /\ FramesDescend /\ DrawDescends /\ CallsOfParams /\ Style!OverflowOnlyByDepth

(* A document that fits the stack has ranks.                               *)
LEMMA FittingIsRanked ==
  ASSUME Style!StyleAssumption, Style!FitsStack(doc)
  PROVE  \E p, u \in Nat : /\ p >= 1 /\ p + u + 1 <= MaxDepth
                          /\ (\E r : ParamRank(r, p)) /\ (\E r : UnitRank(r, u))
<1>1. PICK p \in 1 .. MaxDepth, u \in 0 .. MaxDepth : p + u + 1 <= MaxDepth /\ Style!NestedWithin(doc, p, u)
  BY DEF Style!FitsStack
<1>2. p \in Nat /\ p >= 1 /\ u \in Nat
  BY <1>1 DEF Style!StyleAssumption
<1>3. \E r : ParamRank(r, p)
  BY <1>1, <1>2 DEF Style!NestedWithin, ParamRank, Params
<1>4. \E r : UnitRank(r, u)
  BY <1>1, <1>2 DEF Style!NestedWithin, UnitRank, Units
<1>5. QED
  BY <1>1, <1>2, <1>3, <1>4

(* The frame that is being parsed, and what it has left.                   *)
LEMMA TopFacts ==
  ASSUME StyleTyped, state = "busy"
  PROVE  /\ Len(frames) \in Nat \ {0} /\ Style!Top \in Frame /\ Style!Top = frames[Len(frames)]
         /\ Style!Top.rest \in Seq(Style!Element) /\ Style!Top.out \in Seq(Styled)
         /\ Style!Top.layer \in Nat
         /\ Style!Top.rest # <<>> =>
              /\ Head(Style!Top.rest) \in Style!Element
              /\ Tail(Style!Top.rest) \in Seq(Style!Element)
              /\ Head(Style!Top.rest) \in Elems(Style!Top.rest)
              /\ Elems(Tail(Style!Top.rest)) \subseteq Elems(Style!Top.rest)
<1>1. Len(frames) \in Nat \ {0} /\ frames[Len(frames)] \in Frame
  BY DEF StyleTyped
<1>2. Style!Top = frames[Len(frames)] /\ Style!Top \in Frame
  BY <1>1 DEF Style!Top
<1>3. /\ Style!Top.rest \in Seq(Style!Element) /\ Style!Top.out \in Seq(Styled)
      /\ Style!Top.layer \in Nat
  BY <1>2 DEF Frame
<1>4. ASSUME NEW s \in Seq(Style!Element), s # <<>>
      PROVE  /\ Head(s) \in Style!Element /\ Tail(s) \in Seq(Style!Element)
             /\ Head(s) \in Elems(s) /\ Elems(Tail(s)) \subseteq Elems(s)
  <2>1. Len(s) \in Nat \ {0} /\ Head(s) = s[1] /\ Tail(s) \in Seq(Style!Element) /\ Len(Tail(s)) = Len(s) - 1
        /\ \A m \in 1 .. Len(s) - 1 : Tail(s)[m] = s[m + 1] /\ m + 1 \in 1 .. Len(s)
    BY <1>4
  <2>2. s[1] \in Style!Element
    BY <2>1
  <2>3. QED
    BY <2>1, <2>2 DEF Elems
<1>5. QED
  BY <1>1, <1>2, <1>3, <1>4

(* Frames that have no more left than before.                              *)
LEMMA FewerLeft ==
  ASSUME FramesDescend, StyleTyped, frames' \in Seq(Frame), doc' = doc, Len(frames') <= Len(frames),
         \A k \in 1 .. Len(frames') : Elems(frames'[k].rest) \subseteq Elems(frames[k].rest)
  PROVE  FramesDescend'
<1>1. SUFFICES ASSUME NEW r, NEW N, UnitRank(r, N), NEW k \in 2 .. Len(frames')
               PROVE  \E u \in Units :
                        /\ Elems(frames'[k].rest) \subseteq Elems(doc.compositeobj[u])
                        /\ r[u] <= N - (k - 2)
  <2>1. Units' = Units
    BY DEF Units
  <2>2. \A r, N : UnitRank(r, N)' <=> UnitRank(r, N)
    BY <2>1 DEF UnitRank
  <2>3. \A k : Elems(frames[k].rest)' = Elems(frames'[k].rest)
    BY DEF Elems
  <2>4. \A u : Elems(doc.compositeobj[u])' = Elems(doc.compositeobj[u])
    BY DEF Elems
  <2>5. QED
    BY <2>1, <2>2, <2>3, <2>4 DEF FramesDescend
<1>2. Len(frames) \in Nat /\ Len(frames') \in Nat
  BY DEF StyleTyped
<1>3. k \in 2 .. Len(frames) /\ k \in 1 .. Len(frames')
  BY <1>1, <1>2
<1>4. PICK u \in Units : /\ Elems(frames[k].rest) \subseteq Elems(doc.compositeobj[u])
                         /\ r[u] <= N - (k - 2)
  BY <1>1, <1>3 DEF FramesDescend
<1>5. Elems(frames'[k].rest) \subseteq Elems(doc.compositeobj[u])
  BY <1>3, <1>4
<1>6. QED
  BY <1>4, <1>5

LEMMA SameDraw ==
  ASSUME DrawDescends, doc' = doc, Len(draw') <= Len(draw), Len(draw) \in Nat, Len(draw') \in Nat,
         \A k \in 1 .. Len(draw') : draw'[k].relative = draw[k].relative
  PROVE  DrawDescends'
<1>1. SUFFICES ASSUME NEW r, NEW N, ParamRank(r, N), NEW k \in 1 .. Len(draw'), draw'[k].relative \in Params
               PROVE  \E id \in Params : /\ draw'[k].relative = doc.drawparams[id].relative
                                         /\ r[id] <= N - (k - 1)
  BY DEF DrawDescends, Params, ParamRank
<1>2. k \in 1 .. Len(draw)
  OBVIOUS
<1>3. QED
  BY <1>1, <1>2 DEF DrawDescends

LEMMA SameCalls ==
  ASSUME CallsOfParams, doc' = doc,
         \A k \in 1 .. Len(calls') : \E q \in 1 .. Len(calls) : calls'[k] = calls[q]
  PROVE  CallsOfParams'
<1>1. SUFFICES ASSUME NEW k \in 1 .. Len(calls'), calls'[k].relative \in Params
               PROVE  \E id \in Params : calls'[k].relative = doc.drawparams[id].relative
  BY DEF CallsOfParams, Params
<1>2. PICK q \in 1 .. Len(calls) : calls'[k] = calls[q]
  OBVIOUS
<1>3. QED
  BY <1>1, <1>2 DEF CallsOfParams

LEMMA SameFrames ==
  ASSUME FramesDescend, StyleTyped, frames' = frames, doc' = doc
  PROVE  FramesDescend'
<1>1. frames' \in Seq(Frame) /\ Len(frames') <= Len(frames)
  BY DEF StyleTyped
<1>2. \A k \in 1 .. Len(frames') : Elems(frames'[k].rest) \subseteq Elems(frames[k].rest)
  OBVIOUS
<1>3. QED
  BY <1>1, <1>2, FewerLeft

(* The depth that composites of a document reach.                          *)
LEMMA FramesBound ==
  ASSUME Style!StyleAssumption, StyleTyped, FramesDescend, state = "busy", NEW r, NEW N, UnitRank(r, N)
  PROVE  /\ Len(frames) <= N + 1
         /\ \A e \in Elems(Style!Top.rest) : e.tag = "CompositeObject" /\ e.res \in Units =>
              /\ Len(frames) <= N
              /\ r[e.res] <= N - (Len(frames) - 1)
<1> DEFINE n == Len(frames)
<1>0. n \in Nat \ {0} /\ N \in Nat /\ \A u \in Units : r[u] \in 1 .. N
  BY TopFacts, DocFacts DEF StyleTyped, UnitRank
<1>1. CASE n = 1
  <2>1. \A u \in Units : r[u] <= N - (n - 1) /\ 1 <= N
    BY <1>0, <1>1
  <2>2. QED
    BY <1>0, <1>1, <2>1
<1>2. CASE n # 1
  <2>1. n \in 2 .. n
    <3> HIDE DEF n
    <3>1. QED
      BY <1>0, <1>2
  <2>2. PICK u \in Units : Elems(frames[n].rest) \subseteq Elems(doc.compositeobj[u]) /\ r[u] <= N - (n - 2)
    BY <2>1 DEF FramesDescend
  <2>3. n <= N + 1
    BY <2>2, <1>0
  <2>4. ASSUME NEW e \in Elems(Style!Top.rest), e.tag = "CompositeObject", e.res \in Units
        PROVE  n <= N /\ r[e.res] <= N - (n - 1)
    <3>1. e \in Elems(doc.compositeobj[u])
      BY <2>2, <2>4, TopFacts
    <3>2. r[e.res] < r[u]
      BY <3>1, <2>4 DEF UnitRank, Elems
    <3>3. r[e.res] \in 1 .. N /\ r[u] \in 1 .. N
      BY <1>0, <2>4
    <3> HIDE DEF n
    <3>4. QED
      BY <3>2, <3>3, <2>2, <1>0
  <2>5. QED
    BY <2>3, <2>4
<1>3. QED
  BY <1>1, <1>2

LEMMA DeathNotDead ==
  ASSUME state' # "dead"
  PROVE  Style!OverflowOnlyByDepth'
  BY DEF Style!OverflowOnlyByDepth

(* Frames whose top is given up for another.                               *)
LEMMA TopReplaced ==
  ASSUME StyleTyped, state = "busy", NEW f \in Frame, frames' = [frames EXCEPT ![Len(frames)] = f]
  PROVE  /\ frames' \in Seq(Frame) /\ Len(frames') = Len(frames) /\ frames' # <<>>
         /\ frames'[Len(frames)] = f
         /\ \A k \in 1 .. Len(frames) : k # Len(frames) => frames'[k] = frames[k]
<1>1. frames \in Seq(Frame) /\ Len(frames) \in Nat \ {0}
  BY TopFacts DEF StyleTyped
<1>2. QED
  BY <1>1

LEMMA TopLessLeft ==
  ASSUME StyleTyped, FramesDescend, state = "busy", doc' = doc,
         NEW f \in Frame, frames' = [frames EXCEPT ![Len(frames)] = f],
         Elems(f.rest) \subseteq Elems(Style!Top.rest)
  PROVE  FramesDescend'
<1>1. /\ frames' \in Seq(Frame) /\ Len(frames') = Len(frames) /\ frames'[Len(frames)] = f
      /\ \A k \in 1 .. Len(frames) : k # Len(frames) => frames'[k] = frames[k]
  BY TopReplaced
<1>2. \A k \in 1 .. Len(frames') : Elems(frames'[k].rest) \subseteq Elems(frames[k].rest)
  BY <1>1, TopFacts
<1>3. Len(frames) \in Nat
  BY TopFacts
<1>4. Len(frames') <= Len(frames)
  <2>1. Len(frames') = Len(frames)
    BY <1>1
  <2>2. \A n \in Nat : n <= n
    OBVIOUS
  <2>3. QED
    BY <2>1, <2>2, <1>3, Zenon
<1>5. QED
  BY <1>1, <1>2, <1>4, FewerLeft

OtherFrame(e) ==
  [Style!Top EXCEPT !.rest = Tail(@),
                      !.out = IF e.shown /\ e.tag = "ImageObject"
                                THEN Append(@, Style!NewObject(e, Style!Top.layer)) ELSE @]

LEMMA OtherFrameFacts ==
  ASSUME StyleTyped, state = "busy", Style!Top.rest # <<>>, NEW e, e = Head(Style!Top.rest)
  PROVE  /\ OtherFrame(e) \in Frame
         /\ OtherFrame(e).rest = Tail(Style!Top.rest) /\ OtherFrame(e).layer = Style!Top.layer
         /\ OtherFrame(e).out = IF e.shown /\ e.tag = "ImageObject"
                                THEN Append(Style!Top.out, Style!NewObject(e, Style!Top.layer))
                                ELSE Style!Top.out
<1>1. /\ e \in Style!Element /\ Style!Top \in Frame /\ Style!Top.layer \in Nat
      /\ Tail(Style!Top.rest) \in Seq(Style!Element) /\ Style!Top.out \in Seq(Styled)
  BY TopFacts
<1>2. Style!NewObject(e, Style!Top.layer) \in Styled
  BY <1>1, NewObjectTyped
<1>3. Append(Style!Top.out, Style!NewObject(e, Style!Top.layer)) \in Seq(Styled)
  BY <1>1, <1>2
<1>4. QED
  BY <1>1, <1>3 DEF OtherFrame, Frame

LEMMA DeathParseOther ==
  ASSUME Style!StyleAssumption, DeathInv, Style!ParseOther
  PROVE  DeathInv'
<1> USE DEF DeathInv
<1> DEFINE e == Head(Style!Top.rest)
<1>0. /\ state = "busy" /\ obj = Style!NoObject /\ Style!Top.rest # <<>>
      /\ frames' = [frames EXCEPT ![Len(frames)] = OtherFrame(e)]
      /\ doc' = doc /\ obj' = obj /\ calls' = calls /\ draw' = draw /\ page' = page /\ state' = state
  BY DEF Style!ParseOther, Style!Between, OtherFrame
<1>1. OtherFrame(e) \in Frame /\ OtherFrame(e).rest = Tail(Style!Top.rest)
  BY <1>0, OtherFrameFacts
<1>2. FramesDescend'
  BY <1>0, <1>1, TopLessLeft, TopFacts
<1>3. StyleTyped'
  <2>1. frames' \in Seq(Frame) /\ frames' # <<>>
    BY <1>0, <1>1, TopReplaced
  <2>2. QED
    BY <1>0, <2>1 DEF StyleTyped
<1>4. DrawDescends' /\ CallsOfParams'
  BY <1>0 DEF DrawDescends, CallsOfParams, Params, ParamRank
<1>5. QED
  BY <1>0, <1>2, <1>3, <1>4, DeathNotDead

LEMMA KnownFacts ==
  ASSUME Style!StyleAssumption, doc \in Documents
  PROVE  /\ \A id : Style!Known(id) <=> id \in Params
         /\ ~Style!Known(0)
         /\ \A id : Style!OfParam(id).relative = doc.drawparams[id].relative
         /\ \A e : Style!OfElement(e).relative = 0
  BY DocFacts DEF Style!Known, Params, Style!OfParam, Style!OfElement

(* ParseDrawParam is called for the element and for known DrawParams.      *)
LEMMA CallsFacts ==
  ASSUME Style!StyleAssumption, doc \in Documents, NEW e \in Style!Element, NEW layer \in Nat
  PROVE  \A k \in 1 .. Len(Style!Calls(e, layer)) :
           \/ Style!Calls(e, layer)[k] = Style!OfElement(e)
           \/ \E id \in Params : Style!Calls(e, layer)[k] = Style!OfParam(id)
<1> DEFINE Good(s) == /\ s \in Seq(DrawCall)
                      /\ \A k \in 1 .. Len(s) : \/ s[k] = Style!OfElement(e)
                                                \/ \E id \in Params : s[k] = Style!OfParam(id)
<1>1. \A id : Good(Style!IfKnown(id))
  <2>1. SUFFICES ASSUME NEW id PROVE Good(Style!IfKnown(id))
    OBVIOUS
  <2>2. CASE id \in Params
    <3>1. Style!IfKnown(id) = <<Style!OfParam(id)>> /\ Style!OfParam(id) \in DrawCall
      BY <2>2, KnownFacts, OfParamTyped DEF Style!IfKnown
    <3>2. QED
      BY <3>1, <2>2
  <2>3. CASE id \notin Params
    <3>1. Style!IfKnown(id) = <<>>
      BY <2>3, KnownFacts DEF Style!IfKnown
    <3>2. QED
      BY <3>1
  <2>4. QED BY <2>2, <2>3
<1>2. Good(<<Style!OfElement(e)>>)
  BY OfElementTyped
<1>3. \A s, t : Good(s) /\ Good(t) => Good(s \o t)
  <2>1. SUFFICES ASSUME NEW s, NEW t, Good(s), Good(t) PROVE Good(s \o t)
    OBVIOUS
  <2>2. /\ s \o t \in Seq(DrawCall) /\ Len(s \o t) = Len(s) + Len(t) /\ Len(s) \in Nat /\ Len(t) \in Nat
        /\ \A k \in 1 .. Len(s) : (s \o t)[k] = s[k]
        /\ \A k \in 1 .. Len(s) + Len(t) : k > Len(s) => (s \o t)[k] = t[k - Len(s)]
    BY <2>1
  <2>3. \A k \in 1 .. Len(s) + Len(t) : k > Len(s) => k - Len(s) \in 1 .. Len(t)
    BY <2>2
  <2>4. QED
    BY <2>1, <2>2, <2>3
<1>4. Good(Style!Calls(e, layer))
  <2> HIDE DEF Good
  <2>1. QED
    BY <1>1, <1>2, <1>3 DEF Style!Calls
<1>5. QED
  BY <1>4

LEMMA DeathParseObject ==
  ASSUME Style!StyleAssumption, DeathInv, Style!ParseObject
  PROVE  DeathInv'
<1> USE DEF DeathInv
<1> DEFINE e == Head(Style!Top.rest)
           f == [Style!Top EXCEPT !.rest = Tail(@)]
<1>0. /\ state = "busy" /\ obj = Style!NoObject /\ Style!Top.rest # <<>>
      /\ obj' = Style!NewObject(e, Style!Top.layer) /\ calls' = Style!Calls(e, Style!Top.layer)
      /\ frames' = [frames EXCEPT ![Len(frames)] = f]
      /\ doc' = doc /\ draw' = draw /\ page' = page /\ state' = state
  BY DEF Style!ParseObject, Style!Between, Style!Top
<1>1. /\ e \in Style!Element /\ Style!Top.layer \in Nat
      /\ f \in Frame /\ f.rest = Tail(Style!Top.rest) /\ Elems(f.rest) \subseteq Elems(Style!Top.rest)
  BY <1>0, TopFacts DEF Frame
<1> HIDE DEF f, e
<1>2. FramesDescend'
  BY <1>0, <1>1, TopLessLeft
<1>3. doc \in Documents /\ draw = <<>>
  BY <1>0 DEF StyleTyped
<1>4. StyleTyped'
  <2>1. frames' \in Seq(Frame) /\ frames' # <<>>
    BY <1>0, <1>1, TopReplaced
  <2>2. obj' \in Styled /\ obj' # Style!NoObject
    BY <1>0, <1>1, NewObjectTyped, StyledIsSome
  <2>3. calls' \in Seq(DrawCall)
    BY <1>0, <1>1, <1>3, CallsTyped
  <2>4. QED
    BY <1>0, <2>1, <2>2, <2>3 DEF StyleTyped
<1>5. DrawDescends'
  BY <1>0, <1>3 DEF DrawDescends
<1>6. CallsOfParams'
  <2>1. SUFFICES ASSUME NEW k \in 1 .. Len(calls'), calls'[k].relative \in Params
                 PROVE  \E id \in Params : calls'[k].relative = doc.drawparams[id].relative
    BY <1>0 DEF CallsOfParams, Params
  <2>2. calls'[k] = Style!OfElement(e) \/ \E id \in Params : calls'[k] = Style!OfParam(id)
    BY <1>0, <1>1, <1>3, CallsFacts
  <2>3. QED
    BY <2>1, <2>2, <1>3, KnownFacts
<1>7. QED
  BY <1>0, <1>2, <1>4, <1>5, <1>6, DeathNotDead

(* The process ends: nothing is left but the document, which had a cycle.  *)
LEMMA DeathOverflow ==
  ASSUME DeathInv, Style!Overflow, ~Style!FitsStack(doc)
  PROVE  DeathInv'
<1> USE DEF DeathInv
<1>0. /\ state' = "dead" /\ frames' = <<>> /\ obj' = Style!NoObject /\ calls' = <<>> /\ draw' = <<>>
      /\ doc' = doc /\ page' = page
  BY DEF Style!Overflow
<1>1. StyleTyped'
  BY <1>0 DEF StyleTyped
<1>2. FramesDescend' /\ DrawDescends' /\ CallsOfParams'
  BY <1>0 DEF FramesDescend, DrawDescends, CallsOfParams
<1>3. Style!OverflowOnlyByDepth'
  BY <1>0 DEF Style!OverflowOnlyByDepth, Style!FitsStack, Style!NestedWithin
<1>4. QED
  BY <1>1, <1>2, <1>3

LEMMA DeathCallDrawParam ==
  ASSUME Style!StyleAssumption, DeathInv, Style!CallDrawParam
  PROVE  DeathInv'
<1> USE DEF DeathInv
<1>0. /\ obj # Style!NoObject /\ draw = <<>> /\ calls # <<>>
      /\ state = "busy" /\ doc \in Documents /\ obj \in Styled /\ calls \in Seq(DrawCall)
  BY DEF Style!CallDrawParam, StyleTyped
<1>1. CASE Style!Depth >= MaxDepth
  <2>1. Style!Overflow
    BY <1>1 DEF Style!CallDrawParam
  <2>2. ASSUME Style!FitsStack(doc) PROVE FALSE
    <3>1. PICK p, u \in Nat : p >= 1 /\ p + u + 1 <= MaxDepth /\ \E r : UnitRank(r, u)
      BY <2>2, FittingIsRanked
    <3>2. Len(frames) <= u + 1
      BY <1>0, <3>1, FramesBound
    <3>3. Style!Depth = Len(frames) /\ Len(frames) \in Nat
      BY <1>0 DEF Style!Depth, StyleTyped
    <3>4. QED
      BY <1>0, <1>1, <3>1, <3>2, <3>3, DocFacts
  <2>3. QED
    BY <2>1, <2>2, DeathOverflow
<1>2. CASE ~(Style!Depth >= MaxDepth)
  <2>1. /\ draw' = <<Head(calls)>> /\ calls' = Tail(calls)
        /\ doc' = doc /\ frames' = frames /\ obj' = obj /\ page' = page /\ state' = state
    BY <1>2 DEF Style!CallDrawParam
  <2>2. /\ Head(calls) \in DrawCall /\ Head(calls) = calls[1] /\ calls' \in Seq(DrawCall)
        /\ Len(calls) \in Nat \ {0} /\ Len(calls') = Len(calls) - 1
        /\ \A k \in 1 .. Len(calls') : calls'[k] = calls[k + 1]
    BY <1>0, <2>1
  <2>3. /\ draw' \in Seq(DrawCall) /\ Len(draw') = 1 /\ draw'[1] = calls[1]
    BY <2>1, <2>2
  <2>4. StyleTyped'
    BY <1>0, <2>1, <2>2, <2>3 DEF StyleTyped
  <2>5. FramesDescend'
    BY <2>1, SameFrames
  <2>6. CallsOfParams'
    <3>1. \A k \in 1 .. Len(calls') : k + 1 \in 1 .. Len(calls)
      BY <2>2
    <3>2. QED
      BY <2>1, <2>2, <3>1, SameCalls
  <2>7. DrawDescends'
    <3>0. SUFFICES ASSUME NEW r, NEW N, ParamRank(r, N), NEW k \in 1 .. Len(draw'), draw'[k].relative \in Params
                   PROVE  \E id \in Params : /\ draw'[k].relative = doc.drawparams[id].relative
                                             /\ r[id] <= N - (k - 1)
      BY <2>1 DEF DrawDescends, Params, ParamRank
    <3>1. k = 1 /\ draw'[k] = calls[1]
      BY <2>3
    <3>2. PICK id \in Params : calls[1].relative = doc.drawparams[id].relative
      BY <2>2, <3>0, <3>1 DEF CallsOfParams
    <3>3. r[id] \in 1 .. N /\ N \in Nat
      BY <3>0 DEF ParamRank
    <3>4. QED
      BY <3>1, <3>2, <3>3
  <2>8. state' # "dead"
    BY <1>0, <2>1
  <2>9. QED
    BY <2>4, <2>5, <2>6, <2>7, <2>8, DeathNotDead
<1>3. QED
  BY <1>1, <1>2

LEMMA DeathRecurse ==
  ASSUME Style!StyleAssumption, DeathInv, Style!Recurse
  PROVE  DeathInv'
<1> USE DEF DeathInv
<1> DEFINE n == Len(draw)
           c == draw[n]
<1>0. /\ draw # <<>> /\ ~c.down /\ Style!Known(c.relative)
      /\ state = "busy" /\ doc \in Documents /\ draw \in Seq(DrawCall) /\ obj # Style!NoObject
  BY DEF Style!Recurse, StyleTyped
<1>1. n \in Nat \ {0} /\ c \in DrawCall /\ c.relative \in Params
  BY <1>0, KnownFacts, DocFacts
<1>2. ASSUME NEW r, NEW N, ParamRank(r, N)
      PROVE  N \in Nat /\ r[c.relative] \in 1 .. N /\ r[c.relative] <= N - n
  <2>1. n \in 1 .. Len(draw)
    BY <1>1
  <2>2. PICK id \in Params : c.relative = doc.drawparams[id].relative /\ r[id] <= N - (n - 1)
    BY <1>1, <1>2, <2>1 DEF DrawDescends
  <2>3. N \in Nat /\ r[c.relative] < r[id] /\ r[c.relative] \in 1 .. N /\ r[id] \in 1 .. N
    BY <1>1, <1>2, <2>2 DEF ParamRank
  <2> HIDE DEF n, c
  <2>4. QED
    BY <1>1, <2>2, <2>3
<1>3. CASE Style!Depth >= MaxDepth
  <2>1. Style!Overflow
    BY <1>3 DEF Style!Recurse
  <2>2. ASSUME Style!FitsStack(doc) PROVE FALSE
    <3>1. PICK p, u \in Nat : /\ p >= 1 /\ p + u + 1 <= MaxDepth
                             /\ (\E r : ParamRank(r, p)) /\ (\E r : UnitRank(r, u))
      BY <2>2, FittingIsRanked
    <3>2. PICK r : UnitRank(r, u)
      BY <3>1
    <3>3. Len(frames) <= u + 1
      BY <1>0, <3>2, FramesBound
    <3>4. 1 <= p - n
      <4>1. PICK s : ParamRank(s, p)
        BY <3>1
      <4>2. s[c.relative] \in 1 .. p /\ s[c.relative] <= p - n
        BY <4>1, <1>2
      <4> HIDE DEF n, c
      <4>3. QED
        BY <4>2, <1>1, <3>1
    <3>5. Style!Depth = Len(frames) + n /\ Len(frames) \in Nat
      BY <1>0 DEF Style!Depth, StyleTyped
    <3>6. MaxDepth \in Nat
      BY <1>0, DocFacts
    <3> HIDE DEF n
    <3>7. QED
      BY <1>1, <1>3, <3>1, <3>3, <3>4, <3>5, <3>6
  <2>3. QED
    BY <2>1, <2>2, DeathOverflow
<1>4. CASE ~(Style!Depth >= MaxDepth)
  <2>1. /\ draw' = Append([draw EXCEPT ![n].down = TRUE], Style!OfParam(c.relative))
        /\ doc' = doc /\ frames' = frames /\ obj' = obj /\ calls' = calls /\ page' = page /\ state' = state
    BY <1>4 DEF Style!Recurse
  <2>2. Style!OfParam(c.relative) \in DrawCall
    BY <1>0, <1>1, OfParamTyped
  <2>3. [c EXCEPT !.down = TRUE] \in DrawCall /\ [c EXCEPT !.down = TRUE].relative = c.relative
    BY <1>1 DEF DrawCall
  <2>4. PICK d : d = [draw EXCEPT ![n].down = TRUE]
    OBVIOUS
  <2>5. /\ d \in Seq(DrawCall) /\ Len(d) = n
        /\ \A k \in 1 .. n : d[k] = IF k = n THEN [c EXCEPT !.down = TRUE] ELSE draw[k]
    <3>1. d = [draw EXCEPT ![n] = [c EXCEPT !.down = TRUE]]
      BY <2>4
    <3>2. QED
      BY <3>1, <2>3, <1>0, <1>1
  <2>6. /\ draw' \in Seq(DrawCall) /\ Len(draw') = n + 1 /\ draw'[n + 1] = Style!OfParam(c.relative)
        /\ \A k \in 1 .. n : draw'[k] = d[k]
    <3> HIDE DEF n, c
    <3>1. draw' = Append(d, Style!OfParam(c.relative))
      BY <2>1, <2>4
    <3>2. QED
      BY <3>1, <2>2, <2>5, <1>1
  <2>7. StyleTyped'
    BY <1>0, <2>1, <2>6 DEF StyleTyped
  <2>8. FramesDescend'
    BY <2>1, SameFrames
  <2>9. CallsOfParams'
    BY <2>1 DEF CallsOfParams, Params
  <2>10. DrawDescends'
    <3>1. SUFFICES ASSUME NEW r, NEW N, ParamRank(r, N), NEW k \in 1 .. Len(draw'), draw'[k].relative \in Params
                   PROVE  \E id \in Params : draw'[k].relative = doc.drawparams[id].relative /\ r[id] <= N - (k - 1)
      BY <2>1 DEF DrawDescends, Params, ParamRank
    <3>2. CASE k = n + 1
      <4>1. draw'[k].relative = doc.drawparams[c.relative].relative
        BY <3>2, <2>6, <1>0, KnownFacts
      <4>2. N \in Nat /\ r[c.relative] \in 1 .. N /\ r[c.relative] <= N - n
        BY <3>1, <1>2
      <4>3. r[c.relative] <= N - (k - 1)
        <5> HIDE DEF n, c
        <5>1. QED
          BY <3>2, <4>2, <1>1
      <4>4. QED
        BY <4>1, <4>3, <1>1
    <3>3. CASE k \in 1 .. n
      <4>1. draw'[k].relative = draw[k].relative
        BY <3>3, <2>5, <2>6, <2>3
      <4>2. QED
        BY <3>1, <3>3, <4>1 DEF DrawDescends
    <3>4. k = n + 1 \/ k \in 1 .. n
      <4> HIDE DEF n
      <4>1. QED
        BY <2>6, <1>1
    <3>5. QED
      BY <3>2, <3>3, <3>4
  <2>11. state' # "dead"
    BY <1>0, <2>1
  <2>12. QED
    BY <2>7, <2>8, <2>9, <2>10, <2>11, DeathNotDead
<1>5. QED
  BY <1>3, <1>4

LEMMA PoppedFacts ==
  ASSUME NEW S, NEW s \in Seq(S), s # <<>>
  PROVE  /\ Style!Popped(s) \in Seq(S) /\ Len(Style!Popped(s)) = Len(s) - 1 /\ Len(s) \in Nat \ {0}
         /\ \A k \in 1 .. Len(s) - 1 : Style!Popped(s)[k] = s[k]
<1>1. Len(s) \in Nat \ {0} /\ Style!Popped(s) = SubSeq(s, 1, Len(s) - 1)
  BY DEF Style!Popped
<1>2. \A k \in 1 .. Len(s) - 1 : k \in 1 .. Len(s)
  BY <1>1
<1>3. PICK n : n = Len(s) - 1
  OBVIOUS
<1>4. 1 \in Int /\ n \in Int /\ n \in Nat /\ \A i_ \in 1 .. n : s[i_] \in S
  BY <1>1, <1>2, <1>3
<1>5. /\ SubSeq(s, 1, n) \in Seq(S) /\ Len(SubSeq(s, 1, n)) = IF 1 <= n THEN n - 1 + 1 ELSE 0
      /\ \A k \in 1 .. n - 1 + 1 : SubSeq(s, 1, n)[k] = s[1 + k - 1]
  BY <1>4, SubSeqProperties
<1>6. (IF 1 <= n THEN n - 1 + 1 ELSE 0) = n /\ n - 1 + 1 = n /\ \A k \in 1 .. n : 1 + k - 1 = k
  BY <1>4
<1>7. /\ SubSeq(s, 1, n) \in Seq(S) /\ Len(SubSeq(s, 1, n)) = n
      /\ \A k \in 1 .. n : SubSeq(s, 1, n)[k] = s[k]
  BY <1>5, <1>6
<1>8. QED
  BY <1>1, <1>3, <1>7

LEMMA DeathApply ==
  ASSUME Style!StyleAssumption, DeathInv, Style!Apply
  PROVE  DeathInv'
<1> USE DEF DeathInv
<1>0. /\ draw # <<>> /\ obj' = Style!Applied(obj, draw[Len(draw)]) /\ draw' = Style!Popped(draw)
      /\ doc' = doc /\ frames' = frames /\ calls' = calls /\ page' = page /\ state' = state
  BY DEF Style!Apply
<1>1. state = "busy" /\ obj \in Styled /\ draw \in Seq(DrawCall)
  BY <1>0 DEF StyleTyped
<1>2. /\ draw' \in Seq(DrawCall) /\ Len(draw') = Len(draw) - 1 /\ Len(draw) \in Nat \ {0}
      /\ \A k \in 1 .. Len(draw) - 1 : draw'[k] = draw[k]
  BY <1>0, <1>1, PoppedFacts
<1>3. obj' \in Styled /\ obj' # Style!NoObject
  <2>1. draw[Len(draw)] \in DrawCall
    BY <1>1, <1>2
  <2>2. QED
    BY <2>1, <1>0, <1>1, AppliedTyped, StyledIsSome
<1>4. StyleTyped'
  BY <1>0, <1>1, <1>2, <1>3 DEF StyleTyped
<1>5. FramesDescend' /\ CallsOfParams'
  BY <1>0, SameFrames DEF CallsOfParams, Params
<1>6. DrawDescends'
  BY <1>0, <1>2, SameDraw
<1>7. QED
  BY <1>0, <1>1, <1>4, <1>5, <1>6, DeathNotDead

LEMMA DeathFinishObject ==
  ASSUME Style!StyleAssumption, DeathInv, Style!FinishObject
  PROVE  DeathInv'
<1> USE DEF DeathInv
<1> DEFINE f == [Style!Top EXCEPT !.out = Append(@, Style!Finished(obj))]
<1>0. /\ obj # Style!NoObject /\ calls = <<>> /\ draw = <<>>
      /\ frames' = [frames EXCEPT ![Len(frames)] = f]
      /\ obj' = Style!NoObject /\ doc' = doc /\ calls' = calls /\ draw' = draw /\ page' = page /\ state' = state
  BY DEF Style!FinishObject, Style!Top
<1>1. state = "busy" /\ obj \in Styled
  BY <1>0 DEF StyleTyped
<1>2. Style!Finished(obj) \in Styled
  BY <1>1, FinishedTyped
<1>3. Append(Style!Top.out, Style!Finished(obj)) \in Seq(Styled) /\ Style!Top \in Frame
  BY <1>1, <1>2, TopFacts
<1>4. f \in Frame /\ f.rest = Style!Top.rest
  BY <1>3 DEF Frame
<1> HIDE DEF f
<1>5. FramesDescend'
  BY <1>0, <1>1, <1>4, TopLessLeft
<1>6. StyleTyped'
  <2>1. frames' \in Seq(Frame) /\ frames' # <<>>
    BY <1>0, <1>1, <1>4, TopReplaced
  <2>2. QED
    BY <1>0, <1>1, <2>1 DEF StyleTyped
<1>7. DrawDescends' /\ CallsOfParams'
  BY <1>0 DEF DrawDescends, CallsOfParams
<1>8. QED
  BY <1>0, <1>1, <1>5, <1>6, <1>7, DeathNotDead

LEMMA DeathEnterComposite ==
  ASSUME Style!StyleAssumption, DeathInv, Style!EnterComposite
  PROVE  DeathInv'
<1> USE DEF DeathInv
<1> DEFINE e == Head(Style!Top.rest)
           f == [Style!Top EXCEPT !.rest = Tail(@)]
           n == Len(frames)
<1>0. /\ state = "busy" /\ obj = Style!NoObject /\ Style!Top.rest # <<>>
      /\ e.shown /\ e.tag = "CompositeObject" /\ e.res \in Units /\ doc \in Documents
      /\ calls = <<>> /\ draw = <<>>
  BY DEF Style!EnterComposite, Style!Between, Units, StyleTyped
<1>1. /\ e \in Style!Element /\ e \in Elems(Style!Top.rest) /\ n \in Nat \ {0}
      /\ f \in Frame /\ f.rest = Tail(Style!Top.rest) /\ Elems(f.rest) \subseteq Elems(Style!Top.rest)
  BY <1>0, TopFacts, DocFacts DEF Frame
<1>2. ASSUME NEW r, NEW N, UnitRank(r, N) PROVE N \in Nat /\ n <= N /\ r[e.res] <= N - (n - 1)
  BY <1>0, <1>1, <1>2, FramesBound DEF UnitRank
<1>3. CASE Style!Depth >= MaxDepth
  <2>1. Style!Overflow
    BY <1>3 DEF Style!EnterComposite
  <2>2. ASSUME Style!FitsStack(doc) PROVE FALSE
    <3>1. PICK p, u \in Nat : p >= 1 /\ p + u + 1 <= MaxDepth /\ \E r : UnitRank(r, u)
      BY <2>2, FittingIsRanked
    <3>2. Style!Depth = n
      BY <1>0, <1>1 DEF Style!Depth
    <3>3. MaxDepth \in Nat
      BY <1>0, DocFacts
    <3>4. n <= u
      BY <3>1, <1>2
    <3> HIDE DEF n
    <3>5. QED
      BY <1>1, <1>3, <3>1, <3>2, <3>3, <3>4
  <2>3. QED
    BY <2>1, <2>2, DeathOverflow
<1>4. CASE ~(Style!Depth >= MaxDepth)
  <2>1. PICK g \in Style!Garbage :
          /\ frames' = Append([frames EXCEPT ![n] = f],
                              [rest |-> doc.compositeobj[e.res], out |-> <<>>, layer |-> g])
          /\ doc' = doc /\ obj' = obj /\ calls' = calls /\ draw' = draw /\ page' = page /\ state' = state
    BY <1>4 DEF Style!EnterComposite, Style!Top
  <2>2. g \in Nat
    BY <1>0, DocFacts DEF Style!Garbage, Params
  <2>3. PICK new : new = [rest |-> doc.compositeobj[e.res], out |-> <<>>, layer |-> g]
    OBVIOUS
  <2>4. new \in Frame /\ new.rest = doc.compositeobj[e.res]
    BY <1>0, <2>2, <2>3, DocFacts DEF Frame
  <2>5. PICK old : old = [frames EXCEPT ![n] = f]
    OBVIOUS
  <2>6. /\ old \in Seq(Frame) /\ Len(old) = n /\ old[n] = f
        /\ \A k \in 1 .. n : k # n => old[k] = frames[k]
    <3> HIDE DEF f
    <3>1. frames \in Seq(Frame)
      BY DEF StyleTyped
    <3>2. QED
      BY <3>1, <2>5, <1>1
  <2> HIDE DEF f, e, n
  <2>7. /\ frames' \in Seq(Frame) /\ Len(frames') = n + 1 /\ frames'[n + 1] = new /\ frames' # <<>>
        /\ \A k \in 1 .. n : frames'[k] = old[k]
    <3>1. frames' = Append(old, new)
      BY <2>1, <2>3, <2>5
    <3>2. QED
      BY <3>1, <2>4, <2>6, <1>1
  <2>8. StyleTyped'
    BY <1>0, <2>1, <2>7 DEF StyleTyped
  <2>9. FramesDescend'
    <3>1. SUFFICES ASSUME NEW r, NEW N, UnitRank(r, N), NEW k \in 2 .. Len(frames')
                   PROVE  \E u \in Units : /\ Elems(frames'[k].rest) \subseteq Elems(doc.compositeobj[u])
                                           /\ r[u] <= N - (k - 2)
      <4>1. Units' = Units
        BY <2>1 DEF Units
      <4>2. \A r, N : UnitRank(r, N)' <=> UnitRank(r, N)
        BY <2>1, <4>1 DEF UnitRank
      <4>3. \A k : Elems(frames[k].rest)' = Elems(frames'[k].rest)
        BY DEF Elems
      <4>4. \A u : Elems(doc.compositeobj[u])' = Elems(doc.compositeobj[u])
        BY <2>1 DEF Elems
      <4>5. QED
        BY <4>1, <4>2, <4>3, <4>4 DEF FramesDescend
    <3>2. CASE k = n + 1
      <4>1. Elems(frames'[k].rest) \subseteq Elems(doc.compositeobj[e.res])
        BY <3>2, <2>4, <2>7
      <4>2. N \in Nat /\ r[e.res] <= N - (n - 1) /\ r[e.res] \in 1 .. N
        BY <3>1, <1>2, <1>0 DEF UnitRank
      <4>3. r[e.res] <= N - (k - 2)
        BY <4>2, <3>2, <1>1
      <4>4. QED
        BY <4>1, <4>3, <1>0
    <3>3. CASE k \in 2 .. n
      <4>1. PICK u \in Units : /\ Elems(frames[k].rest) \subseteq Elems(doc.compositeobj[u])
                               /\ r[u] <= N - (k - 2)
        BY <3>1, <3>3 DEF FramesDescend, n
      <4>2. Elems(frames'[k].rest) \subseteq Elems(frames[k].rest)
        <5>1. CASE k = n
          <6>1. frames'[k] = f /\ frames[k] = Style!Top
            BY <5>1, <1>0, <1>1, <2>6, <2>7, TopFacts DEF n
          <6>2. QED
            BY <6>1, <1>1
        <5>2. CASE k # n
          BY <5>2, <3>3, <2>6, <2>7
        <5>3. QED BY <5>1, <5>2
      <4>3. QED
        BY <4>1, <4>2
    <3>4. k = n + 1 \/ k \in 2 .. n
      BY <2>7, <1>1
    <3>5. QED
      BY <3>2, <3>3, <3>4
  <2>10. DrawDescends' /\ CallsOfParams'
    BY <1>0, <2>1 DEF DrawDescends, CallsOfParams
  <2>11. QED
    BY <1>0, <2>1, <2>8, <2>9, <2>10, DeathNotDead
<1>5. QED
  BY <1>3, <1>4

Moved == Style!Top.out
Outer == frames[Len(frames) - 1]
OuterAfter == [Outer EXCEPT !.out = @ \o Moved]

(* The frames of LeaveComposite.                                           *)
LEMMA LeaveFacts ==
  ASSUME StyleTyped, Style!LeaveComposite
  PROVE  /\ state = "busy" /\ obj = Style!NoObject /\ calls = <<>> /\ draw = <<>>
         /\ Style!Top.rest = <<>> /\ Len(frames) \in Nat /\ Len(frames) > 1
         /\ doc' = doc /\ obj' = obj /\ calls' = calls /\ draw' = draw /\ page' = page /\ state' = state
         /\ Moved \in Seq(Styled)
         /\ OuterAfter \in Frame /\ OuterAfter.rest = Outer.rest /\ OuterAfter.layer = Outer.layer
         /\ OuterAfter.out = Outer.out \o Moved /\ Outer \in Frame
         /\ frames' \in Seq(Frame) /\ Len(frames') = Len(frames) - 1 /\ frames' # <<>>
         /\ frames'[Len(frames) - 1] = OuterAfter
         /\ \A k \in 1 .. Len(frames) - 2 : frames'[k] = frames[k]
<1> DEFINE n == Len(frames)
<1>1. /\ state = "busy" /\ obj = Style!NoObject /\ calls = <<>> /\ draw = <<>>
      /\ Style!Top.rest = <<>> /\ n \in Nat /\ n > 1 /\ frames \in Seq(Frame)
      /\ doc' = doc /\ obj' = obj /\ calls' = calls /\ draw' = draw /\ page' = page /\ state' = state
  BY DEF Style!LeaveComposite, Style!Between, StyleTyped
<1>2. frames' = [Style!Popped(frames) EXCEPT ![n - 1].out = @ \o Moved]
  BY DEF Style!LeaveComposite, Moved
<1>3. PICK s : s = Style!Popped(frames)
  OBVIOUS
<1>4. s \in Seq(Frame) /\ Len(s) = n - 1 /\ \A k \in 1 .. n - 1 : s[k] = frames[k]
  BY <1>1, <1>3, PoppedFacts
<1>5. Moved \in Seq(Styled)
  BY <1>1, TopFacts DEF Moved
<1>6. Outer \in Frame /\ s[n - 1] = Outer /\ Outer.out \in Seq(Styled)
  <2>1. n - 1 \in 1 .. n /\ n - 1 \in 1 .. n - 1
    BY <1>1
  <2>2. frames[n - 1] \in Frame /\ s[n - 1] = frames[n - 1]
    BY <2>1, <1>1, <1>4
  <2>3. QED
    BY <2>2 DEF Outer, Frame
<1>7. Outer.out \o Moved \in Seq(Styled)
  BY <1>5, <1>6
<1>8. /\ OuterAfter \in Frame /\ OuterAfter.rest = Outer.rest /\ OuterAfter.layer = Outer.layer
      /\ OuterAfter.out = Outer.out \o Moved
  BY <1>6, <1>7 DEF OuterAfter, Frame
<1>9. frames' = [s EXCEPT ![n - 1] = OuterAfter]
  BY <1>2, <1>3, <1>6 DEF OuterAfter
<1> HIDE DEF n
<1>10. /\ frames' \in Seq(Frame) /\ Len(frames') = n - 1 /\ frames' # <<>> /\ frames'[n - 1] = OuterAfter
       /\ \A k \in 1 .. n - 2 : frames'[k] = frames[k]
  BY <1>1, <1>4, <1>8, <1>9
<1>11. QED
  BY <1>1, <1>5, <1>6, <1>8, <1>10 DEF n

LEMMA DeathLeaveComposite ==
  ASSUME Style!StyleAssumption, DeathInv, Style!LeaveComposite
  PROVE  DeathInv'
<1> USE DEF DeathInv
<1>1. StyleTyped'
  BY LeaveFacts DEF StyleTyped
<1>2. FramesDescend'
  <2>1. ASSUME NEW k \in 1 .. Len(frames') PROVE Elems(frames'[k].rest) \subseteq Elems(frames[k].rest)
    <3>1. k = Len(frames) - 1 \/ k \in 1 .. Len(frames) - 2
      BY LeaveFacts
    <3>2. frames'[k].rest = frames[k].rest
      BY <3>1, LeaveFacts DEF Outer
    <3>3. QED BY <3>2
  <2>2. Len(frames') <= Len(frames) /\ doc' = doc /\ frames' \in Seq(Frame)
    BY LeaveFacts
  <2>3. QED
    BY <2>1, <2>2, FewerLeft
<1>3. DrawDescends' /\ CallsOfParams'
  BY LeaveFacts DEF DrawDescends, CallsOfParams
<1>4. state' # "dead"
  BY LeaveFacts
<1>5. QED
  BY <1>1, <1>2, <1>3, <1>4, DeathNotDead

LEMMA DeathLayer ==
  ASSUME Style!StyleAssumption, DeathInv,
         Style!LayerParsed \/ \E d \in Documents : Style!ParseLayer(d)
  PROVE  DeathInv'
<1> USE DEF DeathInv
<1>1. CASE Style!LayerParsed
  <2>0. /\ state = "busy" /\ obj = Style!NoObject /\ page' = Style!Top.out /\ frames' = <<>> /\ state' = "idle"
        /\ doc' = doc /\ obj' = obj /\ calls' = calls /\ draw' = draw /\ calls = <<>> /\ draw = <<>>
    BY <1>1 DEF Style!LayerParsed, Style!Between, StyleTyped
  <2>1. StyleTyped'
    BY <2>0, TopFacts DEF StyleTyped
  <2>2. FramesDescend' /\ DrawDescends' /\ CallsOfParams'
    BY <2>0 DEF FramesDescend, DrawDescends, CallsOfParams
  <2>3. QED
    BY <2>0, <2>1, <2>2, DeathNotDead
<1>2. CASE \E d \in Documents : Style!ParseLayer(d)
  <2>0. PICK d \in Documents :
          /\ state \in {"idle", "dead"} /\ doc' = d /\ state' = "busy" /\ page' = <<>>
          /\ frames' = <<[rest |-> d.content, out |-> <<>>, layer |-> d.layer]>>
          /\ obj' = obj /\ calls' = calls /\ draw' = draw
    BY <1>2 DEF Style!ParseLayer
  <2>1. obj = Style!NoObject /\ calls = <<>> /\ draw = <<>>
    BY <2>0 DEF StyleTyped
  <2>2. d.content \in Seq(Style!Element) /\ d.layer \in Nat
    BY DEF Style!StyleAssumption, Style!IsDocument
  <2>3. [rest |-> d.content, out |-> <<>>, layer |-> d.layer] \in Frame
    BY <2>2 DEF Frame
  <2>4. frames' \in Seq(Frame) /\ frames' # <<>> /\ Len(frames') = 1
    BY <2>0, <2>3
  <2>5. StyleTyped'
    BY <2>0, <2>1, <2>4 DEF StyleTyped
  <2>6. FramesDescend' /\ DrawDescends' /\ CallsOfParams'
    BY <2>0, <2>1, <2>4 DEF FramesDescend, DrawDescends, CallsOfParams
  <2>7. QED
    BY <2>0, <2>5, <2>6, DeathNotDead
<1>3. QED
  BY <1>1, <1>2

LEMMA DeathInit ==
  ASSUME Style!Init
  PROVE  DeathInv
<1>1. /\ doc \in Documents /\ frames = <<>> /\ obj = Style!NoObject /\ calls = <<>> /\ draw = <<>>
      /\ page = <<>> /\ state = "idle"
  BY DEF Style!Init
<1>2. StyleTyped
  BY <1>1 DEF StyleTyped
<1>3. FramesDescend /\ DrawDescends /\ CallsOfParams /\ Style!OverflowOnlyByDepth
  BY <1>1 DEF FramesDescend, DrawDescends, CallsOfParams, Style!OverflowOnlyByDepth
<1>4. QED
  BY <1>2, <1>3 DEF DeathInv

LEMMA DeathStutter ==
  ASSUME DeathInv, UNCHANGED <<obj, calls, StyleOnly>>
  PROVE  DeathInv'
<1> USE DEF DeathInv
<1>0. /\ doc' = doc /\ frames' = frames /\ obj' = obj /\ calls' = calls /\ draw' = draw /\ page' = page /\ state' = state
  BY DEF StyleOnly
<1>1. StyleTyped' /\ FramesDescend'
  BY <1>0, SameFrames DEF StyleTyped
<1>2. DrawDescends' /\ CallsOfParams'
  BY <1>0 DEF DrawDescends, CallsOfParams, ParamRank, Params
<1>3. Style!OverflowOnlyByDepth'
  BY <1>0 DEF Style!OverflowOnlyByDepth, Style!FitsStack, Style!NestedWithin
<1>4. QED
  BY <1>1, <1>2, <1>3

(* No step of the parser of layers ends the process on a document that     *)
(* fits its stack.                                                         *)
LEMMA DeathNext ==
  ASSUME Style!StyleAssumption, DeathInv,
         Style!Parse \/ (\E d \in Documents : Style!ParseLayer(d)) \/ UNCHANGED <<obj, calls, StyleOnly>>
  PROVE  DeathInv'
<1>1. CASE Style!Parse
  BY <1>1, DeathParseOther, DeathParseObject, DeathCallDrawParam, DeathRecurse, DeathApply,
     DeathFinishObject, DeathEnterComposite, DeathLeaveComposite, DeathLayer DEF Style!Parse
<1>2. CASE \E d \in Documents : Style!ParseLayer(d)
  BY <1>2, DeathLayer
<1>3. CASE UNCHANGED <<obj, calls, StyleOnly>>
  BY <1>3, DeathStutter
<1>4. QED
  BY <1>1, <1>2, <1>3

-----------------------------------------------------------------------------
(* What the assumption on texts says of the one at hand.                   *)
LEMMA CodeFacts ==
  ASSUME Text!TextAssumption, obj \in Texts
  PROVE  /\ Len(obj.codes) \in Nat /\ Len(obj.cgs) \in Nat
         /\ \A k \in 1 .. Len(obj.codes) :
              /\ \A a \in {"X", "Y"} :
                   /\ Text!Or(obj.codes[k].delta[a], <<>>) \in Seq(Text!Token)
                   /\ \A x \in Int : Text!Or(obj.codes[k].at[a], x) \in Int
              /\ obj.codes[k].text \in Seq(BOOLEAN) /\ Len(obj.codes[k].text) \in Nat
         /\ \A k \in 1 .. Len(obj.cgs) :
              obj.cgs[k].position \in Nat /\ obj.cgs[k].codes \in Nat \ {0} /\ obj.cgs[k].glyphs \in Seq(Nat)
<1>1. /\ Len(obj.codes) \in Nat /\ Len(obj.cgs) \in Nat
      /\ \A k \in 1 .. Len(obj.cgs) :
              obj.cgs[k].position \in Nat /\ obj.cgs[k].codes \in Nat \ {0} /\ obj.cgs[k].glyphs \in Seq(Nat)
      /\ \A k \in 1 .. Len(obj.codes) : obj.codes[k].text \in Seq(BOOLEAN)
  BY DEF Text!TextAssumption
<1>2. ASSUME NEW k \in 1 .. Len(obj.codes), NEW a \in {"X", "Y"}
      PROVE  /\ Text!Or(obj.codes[k].delta[a], <<>>) \in Seq(Text!Token)
             /\ \A x \in Int : Text!Or(obj.codes[k].at[a], x) \in Int
  <2>1. Text!Maybe(obj.codes[k].at[a], Int) /\ Text!Maybe(obj.codes[k].delta[a], Seq(Text!Token))
    BY DEF Text!TextAssumption, Text!Axes
  <2>2. \A S : \A m \in Seq(S) : m # <<>> => m[1] \in S
    OBVIOUS
  <2>3. QED
    BY <2>1, <2>2 DEF Text!Maybe, Text!Or
<1>3. \A k \in 1 .. Len(obj.codes) :
        /\ \A a \in {"X", "Y"} :
             /\ Text!Or(obj.codes[k].delta[a], <<>>) \in Seq(Text!Token)
             /\ \A x \in Int : Text!Or(obj.codes[k].at[a], x) \in Int
        /\ obj.codes[k].text \in Seq(BOOLEAN) /\ Len(obj.codes[k].text) \in Nat
  <2>1. \A t \in Seq(BOOLEAN) : Len(t) \in Nat
    OBVIOUS
  <2>2. QED
    BY <1>1, <1>2, <2>1
<1>4. QED
  BY <1>1, <1>3

(* A token of a list.                                                      *)
LEMMA TokenFacts ==
  ASSUME NEW d \in Seq(Text!Token), NEW p \in 1 .. Len(d)
  PROVE  d[p] \in Text!Token /\ d[p].n \in Int /\ d[p].key \in {"none", "g", "G"}
<1>1. d[p] \in Text!Token
  OBVIOUS
<1>2. QED
  BY <1>1 DEF Text!Token, Text!Key, Text!None

(* What Repeated makes of a list with two or more repetitions at p.        *)
LEMMA RepeatedFacts ==
  ASSUME NEW d \in Seq(Text!Token), NEW p \in 1 .. Len(d), p + 2 <= Len(d), d[p + 1].n > 1,
         NEW r, r = Text!Repeated(d, p)
  PROVE  /\ r \in Seq(Text!Token) /\ Len(r) = Len(d) + d[p + 1].n - 3
         /\ \A k \in 1 .. p - 1 : r[k] = d[k]
         /\ \A k \in p .. p + d[p + 1].n - 1 : r[k] = d[p + 2]
         /\ \A k \in p + d[p + 1].n .. Len(r) : r[k] = d[k + 3 - d[p + 1].n]
<1> DEFINE n == d[p + 1].n
           A == SubSeq(d, 1, p - 1)
           B == Text!Copies(n - 1, d[p + 2])
           C == SubSeq(d, p + 2, Len(d))
<1>0. p \in Nat /\ p > 0 /\ Len(d) \in Nat /\ n \in Nat /\ n > 1 /\ p + 2 <= Len(d)
  BY TokenFacts
<1>1. r = A \o (B \o C)
  <2>1. ~(d[p + 1].n < 2)
    BY <1>0
  <2>2. QED
    BY <2>1 DEF Text!Repeated
<1>2. A \in Seq(Text!Token) /\ Len(A) = p - 1 /\ \A k \in 1 .. p - 1 : A[k] = d[k]
  BY <1>0
<1>3. B \in Seq(Text!Token) /\ Len(B) = n - 1 /\ \A k \in 1 .. n - 1 : B[k] = d[p + 2]
  <2>1. d[p + 2] \in Text!Token
    BY <1>0
  <2>2. B = [k \in 1 .. n - 1 |-> d[p + 2]]
    BY DEF Text!Copies
  <2> HIDE DEF B, n
  <2>3. QED
    BY <2>1, <2>2, <1>0
<1>4. C \in Seq(Text!Token) /\ Len(C) = Len(d) - p - 1 /\ \A k \in 1 .. Len(d) - p - 1 : C[k] = d[k + p + 1]
  BY <1>0
<1> HIDE DEF A, B, C, n
<1>a. PICK t : t = B \o C
  OBVIOUS
<1>b. /\ t \in Seq(Text!Token) /\ Len(t) = Len(B) + Len(C)
      /\ \A k \in 1 .. Len(B) : t[k] = B[k]
      /\ \A k \in 1 .. Len(C) : t[Len(B) + k] = C[k]
  <2>1. B \in Seq(Text!Token) /\ C \in Seq(Text!Token)
    BY <1>3, <1>4
  <2>2. QED
    BY <2>1, <1>a
<1>c. /\ r \in Seq(Text!Token) /\ Len(r) = Len(A) + Len(t)
      /\ \A k \in 1 .. Len(A) : r[k] = A[k]
      /\ \A k \in 1 .. Len(t) : r[Len(A) + k] = t[k]
  <2>1. A \in Seq(Text!Token) /\ t \in Seq(Text!Token) /\ r = A \o t
    BY <1>a, <1>b, <1>1, <1>2
  <2>2. QED
    BY <2>1
<1>d. Len(A) = p - 1 /\ Len(B) = n - 1 /\ Len(C) = Len(d) - p - 1 /\ Len(t) = Len(d) + n - p - 2
  BY <1>0, <1>2, <1>3, <1>4, <1>b
<1>5. r \in Seq(Text!Token) /\ Len(r) = Len(d) + n - 3
  <2>1. Len(r) = (p - 1) + (Len(d) + n - p - 2)
    BY <1>c, <1>d
  <2>2. QED
    BY <2>1, <1>0, <1>c
<1>6. \A k \in 1 .. p - 1 : r[k] = d[k]
  BY <1>2, <1>c, <1>d
<1>7. ASSUME NEW k \in p .. p + n - 2 PROVE r[k] = d[p + 2]
  <2>1. k - p + 1 \in 1 .. Len(B) /\ k - p + 1 \in 1 .. Len(t) /\ Len(A) + (k - p + 1) = k
    BY <1>0, <1>d
  <2>2. r[k] = t[k - p + 1] /\ t[k - p + 1] = B[k - p + 1]
    BY <2>1, <1>b, <1>c
  <2>3. QED
    BY <2>1, <2>2, <1>3
<1>8. ASSUME NEW k \in p + n - 1 .. Len(r) PROVE r[k] = d[k + 3 - n]
  <2> DEFINE q == k - p - n + 2
  <2>1. /\ q \in 1 .. Len(C) /\ Len(B) + q \in 1 .. Len(t)
        /\ Len(A) + (Len(B) + q) = k /\ q + p + 1 = k + 3 - n
    BY <1>0, <1>d, <1>5
  <2> HIDE DEF q
  <2>2. r[k] = t[Len(B) + q] /\ t[Len(B) + q] = C[q] /\ C[q] = d[q + p + 1]
    BY <2>1, <1>b, <1>c, <1>4, <1>d
  <2>3. QED
    BY <2>1, <2>2
<1>9. r[p + n - 1] = d[p + 2]
  <2>1. p + n - 1 \in p + n - 1 .. Len(r) /\ (p + n - 1) + 3 - n = p + 2
    BY <1>0, <1>5
  <2>2. QED BY <2>1, <1>8
<1>10. \A k \in p .. p + n - 1 : k \in p .. p + n - 2 \/ k = p + n - 1
  BY <1>0
<1>11. \A k \in p .. p + n - 1 : r[k] = d[p + 2]
  BY <1>7, <1>9, <1>10
<1>12. \A k \in p + n .. Len(r) : k \in p + n - 1 .. Len(r)
  BY <1>0, <1>5
<1>13. QED
  BY <1>5, <1>6, <1>11, <1>8, <1>12 DEF n

(* A regular list does not break off behind a letter, and is a regular     *)
(* list when that letter has been rewritten.                               *)
LEMMA RepeatedRegular ==
  ASSUME NEW d \in Seq(Text!Token), Text!Regular(d), NEW p \in 1 .. Len(d), d[p].key # "none"
  PROVE  /\ p + 2 <= Len(d) /\ d[p].key = "g" /\ d[p + 1].n > 1
         /\ d[p + 1].key = "none" /\ d[p + 2].key = "none"
         /\ Text!Regular(Text!Repeated(d, p)) /\ Text!Repeated(d, p) \in Seq(Text!Token)
<1> DEFINE n == d[p + 1].n
<1>1. /\ \A q \in 1 .. Len(d) : d[q].key # "none" =>
           /\ q + 2 <= Len(d) /\ d[q + 1].key = "none" /\ d[q + 2].key = "none"
           /\ d[q].key = "g" /\ d[q + 1].n > 1
  <2>1. SUFFICES ASSUME NEW q \in 1 .. Len(d), d[q].key # "none"
                 PROVE  /\ q + 2 <= Len(d) /\ d[q + 1].key = "none" /\ d[q + 2].key = "none"
                        /\ d[q].key = "g" /\ d[q + 1].n > 1
    OBVIOUS
  <2>2. q \in Text!Letters(d)
    BY <2>1 DEF Text!Letters, Text!None
  <2>3. q + 2 <= Len(d) /\ {q + 1, q + 2} \cap Text!Letters(d) = {} /\ d[q].key = "g" /\ d[q + 1].n > 1
    BY <2>2 DEF Text!Regular, Text!Complete
  <2>4. q + 1 \in 1 .. Len(d) /\ q + 2 \in 1 .. Len(d)
    BY <2>3
  <2>5. QED
    BY <2>3, <2>4 DEF Text!Letters, Text!None
<1>2. p \in Nat /\ p > 0 /\ Len(d) \in Nat /\ n \in Nat /\ n > 1 /\ p + 2 <= Len(d)
  <2>1. p \in Nat /\ p > 0 /\ Len(d) \in Nat
    OBVIOUS
  <2>2. p + 2 <= Len(d) /\ n > 1
    BY <1>1
  <2>3. p + 1 \in 1 .. Len(d)
    BY <2>1, <2>2
  <2>4. n \in Nat
    BY <2>2, <2>3, TokenFacts
  <2>5. QED
    BY <2>1, <2>2, <2>4
<1>3. PICK r : r = Text!Repeated(d, p)
  OBVIOUS
<1>4. /\ r \in Seq(Text!Token) /\ Len(r) = Len(d) + n - 3
      /\ \A k \in 1 .. p - 1 : r[k] = d[k]
      /\ \A k \in p .. p + n - 1 : r[k] = d[p + 2]
      /\ \A k \in p + n .. Len(r) : r[k] = d[k + 3 - n]
  BY <1>1, <1>3, RepeatedFacts
<1> HIDE DEF n
<1>5. ASSUME NEW q \in 1 .. Len(r), r[q].key # "none"
      PROVE  /\ q + 2 <= Len(r) /\ r[q + 1].key = "none" /\ r[q + 2].key = "none"
             /\ r[q].key = "g" /\ r[q + 1].n > 1
  <2>1. CASE q < p
    <3>1. d[q].key # "none" /\ q \in 1 .. Len(d)
      BY <1>2, <1>4, <1>5, <2>1
    <3>2. q + 2 < p
      <4>1. d[q + 1].key = "none" /\ d[q + 2].key = "none"
        BY <3>1, <1>1
      <4>2. q + 1 # p /\ q + 2 # p
        BY <4>1
      <4>3. q \in Nat
        BY <1>5
      <4>4. QED
        BY <4>2, <4>3, <1>2, <2>1
    <3>3. q + 1 \in 1 .. p - 1 /\ q + 2 \in 1 .. p - 1 /\ q \in 1 .. p - 1
      BY <3>2, <1>2
    <3>4. q + 2 <= Len(r)
      BY <3>2, <1>2, <1>4
    <3>5. QED
      BY <1>1, <3>1, <3>3, <3>4, <1>4
  <2>2. CASE q >= p /\ q < p + n
    <3>1. q \in p .. p + n - 1
      BY <1>2, <2>2
    <3>2. QED
      BY <1>1, <1>4, <3>1, <1>5
  <2>3. CASE q >= p + n
    <3>1. q \in p + n .. Len(r) /\ q + 3 - n \in 1 .. Len(d)
      BY <1>2, <1>4, <2>3
    <3>2. d[q + 3 - n].key # "none"
      BY <3>1, <1>4, <1>5
    <3>3. (q + 3 - n) + 2 <= Len(d)
      BY <3>1, <3>2, <1>1
    <3>4. q + 2 <= Len(r) /\ q + 1 \in p + n .. Len(r) /\ q + 2 \in p + n .. Len(r)
      BY <3>1, <3>3, <1>2, <1>4
    <3>5. (q + 1) + 3 - n = (q + 3 - n) + 1 /\ (q + 2) + 3 - n = (q + 3 - n) + 2
      BY <1>2
    <3>6. r[q] = d[q + 3 - n] /\ r[q + 1] = d[(q + 3 - n) + 1] /\ r[q + 2] = d[(q + 3 - n) + 2]
      BY <3>1, <3>4, <3>5, <1>4
    <3>7. QED
      BY <3>1, <3>2, <3>4, <3>6, <1>1
  <2>4. QED
    BY <2>1, <2>2, <2>3, <1>2, <1>4
<1>6. Text!Regular(r)
  <2>1. \A q \in Text!Letters(r) : q \in 1 .. Len(r) /\ r[q].key # "none"
    BY DEF Text!Letters, Text!None
  <2>2. \A q \in Text!Letters(r) : q + 1 \notin Text!Letters(r) /\ q + 2 \notin Text!Letters(r)
    BY <1>5, <2>1
  <2>3. QED
    BY <1>5, <2>1, <2>2 DEF Text!Regular, Text!Complete
<1>7. QED
  BY <1>1, <1>3, <1>4, <1>6

(* The state of the parser of TextCodes.                                   *)
TextTyped ==
  /\ obj \in Texts /\ code \in 0 .. Len(obj.codes) /\ pc \in {"font", "next", "expand", "codes", "dead"}
  /\ pc \in {"expand", "codes"} => code > 0
  /\ i \in Nat /\ j \in Nat
  /\ at \in [{"X", "Y"} -> Int] /\ last \in [{"X", "Y"} -> Int]
  /\ delta \in [{"X", "Y"} -> Seq(Text!Token)]
  /\ calls \in Seq([axis : {"X", "Y"}, key : {"g", "G"}])

Stated(a) == Text!Or(obj.codes[code].delta[a], <<>>)

(* A regular list stays one while it is rewritten.                         *)
RegularLists ==
  code > 0 => \A a \in {"X", "Y"} : Text!Regular(Stated(a)) => Text!Regular(delta[a])

TornInv == TextTyped /\ RegularLists /\ Text!DeadForAReason

LEMMA ExpandCallsTyped ==
  ASSUME NEW d
  PROVE  Text!ExpandCalls(d) \in Seq([axis : {"X", "Y"}, key : {"g", "G"}])
<1> DEFINE S == [axis : {"X", "Y"}, key : {"g", "G"}]
<1>1. /\ [axis |-> "X", key |-> "g"] \in S /\ [axis |-> "X", key |-> "G"] \in S /\ [axis |-> "Y", key |-> "g"] \in S
  OBVIOUS
<1> HIDE DEF S
<1>2. /\ <<>> \in Seq(S) /\ <<[axis |-> "X", key |-> "g"], [axis |-> "X", key |-> "G"]>> \in Seq(S)
      /\ <<[axis |-> "Y", key |-> "g"], [axis |-> "X", key |-> "G"]>> \in Seq(S)
  BY <1>1
<1>3. \A s, t \in Seq(S) : s \o t \in Seq(S)
  OBVIOUS
<1>4. Text!ExpandCalls(d) \in Seq(S)
  BY <1>2, <1>3 DEF Text!ExpandCalls
<1>5. QED
  BY <1>4 DEF S

LEMMA TornInit ==
  ASSUME Text!TextAssumption, Text!Init
  PROVE  TornInv
<1>1. /\ obj \in Texts /\ code = 0 /\ pc = "font" /\ i = 0 /\ j = 0
      /\ at = [a \in {"X", "Y"} |-> 0] /\ last = at
      /\ delta = [a \in {"X", "Y"} |-> <<>>] /\ calls = <<>>
  BY DEF Text!Init, Text!Axes
<1>2. 0 \in 0 .. Len(obj.codes)
  BY <1>1, CodeFacts
<1>3. TextTyped
  BY <1>1, <1>2 DEF TextTyped
<1>4. QED
  BY <1>1, <1>3 DEF TornInv, RegularLists, Text!DeadForAReason

(* The TextCode that is taken up.                                          *)
LEMMA NextTextCodeFacts ==
  ASSUME Text!TextAssumption, TextTyped, Text!NextTextCode
  PROVE  /\ pc = "next" /\ code' = code + 1 /\ code' \in 1 .. Len(obj.codes) /\ obj' = obj
         /\ \A a \in {"X", "Y"} :
              /\ at'[a] = Text!Or(obj.codes[code'].at[a], last[a])
              /\ delta'[a] = Text!Or(obj.codes[code'].delta[a], <<>>)
         /\ calls' = Text!ExpandCalls(obj.codes[code'].delta)
         /\ last' = at' /\ pc' = "expand" /\ i' = 0 /\ j' = 0 /\ shown' = shown
         /\ TextTyped'
<1>1. /\ pc = "next" /\ code < Len(obj.codes) /\ code' = code + 1
      /\ at' = [a \in {"X", "Y"} |-> Text!Or(obj.codes[code + 1].at[a], last[a])]
      /\ delta' = [a \in {"X", "Y"} |-> Text!Or(obj.codes[code + 1].delta[a], <<>>)]
      /\ calls' = Text!ExpandCalls(obj.codes[code + 1].delta)
      /\ last' = at' /\ pc' = "expand" /\ i' = 0 /\ j' = 0 /\ obj' = obj /\ shown' = shown
  BY DEF Text!NextTextCode, Text!Axes
<1>2. /\ obj \in Texts /\ code \in 0 .. Len(obj.codes) /\ Len(obj.codes) \in Nat
      /\ last \in [{"X", "Y"} -> Int]
  BY CodeFacts DEF TextTyped
<1>3. code + 1 \in 1 .. Len(obj.codes)
  BY <1>1, <1>2
<1>4. /\ at' \in [{"X", "Y"} -> Int] /\ delta' \in [{"X", "Y"} -> Seq(Text!Token)]
  <2>1. ASSUME NEW a \in {"X", "Y"}
        PROVE  /\ Text!Or(obj.codes[code + 1].at[a], last[a]) \in Int
               /\ Text!Or(obj.codes[code + 1].delta[a], <<>>) \in Seq(Text!Token)
    BY <1>2, <1>3, CodeFacts
  <2>2. QED
    BY <1>1, <2>1
<1>5. TextTyped'
  BY <1>1, <1>2, <1>3, <1>4, ExpandCallsTyped DEF TextTyped
<1>6. QED
  BY <1>1, <1>3, <1>5

(* One turn of expand_g: the list has no such letter, breaks off behind it *)
(* or has a count below 0, or is rewritten at its first one.               *)
Sound(d, p) == p + 2 <= Len(d) /\ d[p + 1].n >= 0

LEMMA ExpandFacts ==
  ASSUME TextTyped, Text!Expand
  PROVE  /\ pc = "expand" /\ calls # <<>> /\ calls[1] \in [axis : {"X", "Y"}, key : {"g", "G"}]
         /\ obj' = obj /\ code' = code /\ at' = at /\ last' = last /\ i' = i /\ j' = j /\ shown' = shown
         /\ LET d == delta[calls[1].axis]
            IN  \/ /\ \A p \in 1 .. Len(d) : d[p].key # calls[1].key
                   /\ calls' = Tail(calls) /\ delta' = delta /\ pc' = pc
                \/ \E p \in 1 .. Len(d) :
                     /\ d[p].key = calls[1].key /\ \A q \in 1 .. p - 1 : d[q].key # calls[1].key
                     /\ \/ ~Sound(d, p) /\ pc' = "dead" /\ delta' = delta /\ calls' = calls
                        \/ /\ Sound(d, p) /\ pc' = pc
                           /\ delta' = [delta EXCEPT ![calls[1].axis] = Text!Repeated(d, p)]
                           /\ calls' = [calls EXCEPT ![1].key = "g"]
<1> DEFINE a == calls[1].axis
           d == delta[a]
           hits == {p \in 1 .. Len(d) : d[p].key = calls[1].key}
           p0 == CHOOSE p \in hits : \A q \in hits : p <= q
<1>1. /\ pc = "expand" /\ calls # <<>>
      /\ \/ hits = {} /\ calls' = Tail(calls) /\ delta' = delta /\ pc' = pc
         \/ hits # {} /\ ~Sound(d, p0) /\ pc' = "dead" /\ delta' = delta /\ calls' = calls
         \/ /\ hits # {} /\ Sound(d, p0) /\ pc' = pc
            /\ delta' = [delta EXCEPT ![a] = Text!Repeated(d, p0)]
            /\ calls' = [calls EXCEPT ![1].key = "g"]
      /\ obj' = obj /\ code' = code /\ at' = at /\ last' = last /\ i' = i /\ j' = j /\ shown' = shown
  BY DEF Text!Expand, Sound
<1>2. calls[1] \in [axis : {"X", "Y"}, key : {"g", "G"}]
  <2>1. PICK S : S = [axis : {"X", "Y"}, key : {"g", "G"}]
    OBVIOUS
  <2>2. calls \in Seq(S) /\ calls # <<>>
    BY <1>1, <2>1 DEF TextTyped
  <2>3. calls[1] \in S
    BY <2>2
  <2>4. QED
    BY <2>1, <2>3
<1>3. d \in Seq(Text!Token)
  BY <1>2 DEF TextTyped
<1>4. CASE hits = {}
  BY <1>1, <1>2, <1>4
<1>5. CASE hits # {}
  <2>1. p0 \in hits /\ \A q \in hits : p0 <= q
    <3>1. hits \subseteq Nat
      <4> HIDE DEF d
      <4>1. \A q \in 1 .. Len(d) : q \in Nat
        OBVIOUS
      <4>2. QED
        BY <4>1
    <3> HIDE DEF hits
    <3>2. \E p \in hits : \A q \in hits : p <= q
      BY <3>1, <1>5, LeastNat
    <3>3. QED
      BY <3>2
  <2>2. \A q \in 1 .. p0 - 1 : q \in 1 .. Len(d) /\ ~(p0 <= q)
    <3> HIDE DEF p0, d
    <3>1. p0 \in Nat /\ p0 <= Len(d) /\ Len(d) \in Nat
      BY <2>1, <1>3
    <3>2. QED
      BY <3>1
  <2> HIDE DEF p0
  <2>3. p0 \in 1 .. Len(d) /\ d[p0].key = calls[1].key /\ \A q \in 1 .. p0 - 1 : d[q].key # calls[1].key
    BY <2>1, <2>2
  <2>4. QED
    BY <1>1, <1>2, <1>5, <2>3
<1>6. QED
  BY <1>4, <1>5

(* Whatever the count is, a rewritten list is a list of tokens.            *)
LEMMA RepeatedTyped ==
  ASSUME NEW d \in Seq(Text!Token), NEW p \in 1 .. Len(d), p + 2 <= Len(d)
  PROVE  Text!Repeated(d, p) \in Seq(Text!Token)
<1>0. p \in Nat /\ p > 0 /\ Len(d) \in Nat /\ d[p + 1].n \in Int
  BY TokenFacts
<1>1. CASE d[p + 1].n > 1
  BY <1>1, RepeatedFacts
<1>2. CASE ~(d[p + 1].n > 1)
  <2>1. d[p + 1].n < 2
    BY <1>0, <1>2
  <2>2. Text!Repeated(d, p) = SubSeq(d, 1, p - 1) \o SubSeq(d, p + 1, Len(d))
    BY <2>1 DEF Text!Repeated
  <2>3. SubSeq(d, 1, p - 1) \in Seq(Text!Token) /\ SubSeq(d, p + 1, Len(d)) \in Seq(Text!Token)
    BY <1>0
  <2>4. QED
    BY <2>2, <2>3
<1>3. QED
  BY <1>1, <1>2

LEMMA TornNextTextCode ==
  ASSUME Text!TextAssumption, TornInv, Text!NextTextCode
  PROVE  TornInv'
<1>1. TextTyped
  BY DEF TornInv
<1>2. /\ pc' = "expand" /\ obj' = obj /\ TextTyped'
      /\ \A a \in {"X", "Y"} : delta'[a] = Text!Or(obj.codes[code'].delta[a], <<>>)
  BY <1>1, NextTextCodeFacts
<1>3. RegularLists' /\ Text!DeadForAReason'
  BY <1>2 DEF RegularLists, Stated, Text!DeadForAReason
<1>4. QED
  BY <1>2, <1>3 DEF TornInv

LEMMA TornExpand ==
  ASSUME Text!TextAssumption, TornInv, Text!Expand
  PROVE  TornInv'
<1>1. TextTyped /\ RegularLists
  BY DEF TornInv
<1> DEFINE S == [axis : {"X", "Y"}, key : {"g", "G"}]
           a == calls[1].axis
           d == delta[a]
<1>2. /\ pc = "expand" /\ calls # <<>> /\ calls[1] \in S
      /\ obj' = obj /\ code' = code /\ at' = at /\ last' = last /\ i' = i /\ j' = j
      /\ \/ calls' = Tail(calls) /\ delta' = delta /\ pc' = pc
         \/ \E p \in 1 .. Len(d) :
              /\ d[p].key = calls[1].key
              /\ \/ ~Sound(d, p) /\ pc' = "dead" /\ delta' = delta /\ calls' = calls
                 \/ /\ Sound(d, p) /\ pc' = pc
                    /\ delta' = [delta EXCEPT ![a] = Text!Repeated(d, p)]
                    /\ calls' = [calls EXCEPT ![1].key = "g"]
  BY <1>1, ExpandFacts
<1>3. /\ a \in {"X", "Y"} /\ calls[1].key \in {"g", "G"} /\ code > 0
      /\ delta \in [{"X", "Y"} -> Seq(Text!Token)] /\ d \in Seq(Text!Token) /\ calls \in Seq(S)
  BY <1>1, <1>2 DEF TextTyped
<1>4. \A b \in {"X", "Y"} : Text!Regular(Stated(b)) => Text!Regular(delta[b])
  BY <1>1, <1>3 DEF RegularLists
<1>5. Tail(calls) \in Seq(S) /\ [calls EXCEPT ![1].key = "g"] \in Seq(S)
  <2>1. [calls[1] EXCEPT !.key = "g"] \in S
    BY <1>2
  <2> HIDE DEF S
  <2>2. PICK c : c = [calls[1] EXCEPT !.key = "g"]
    OBVIOUS
  <2>3. [calls EXCEPT ![1].key = "g"] = [calls EXCEPT ![1] = c]
    BY <2>2
  <2>4. [calls EXCEPT ![1] = c] \in Seq(S)
    BY <2>1, <2>2, <1>3, <1>2
  <2>5. Tail(calls) \in Seq(S)
    BY <1>2, <1>3
  <2>6. QED
    BY <2>3, <2>4, <2>5
<1>6. \A b \in {"X", "Y"} : Stated(b)' = Stated(b)
  BY <1>2 DEF Stated
<1> HIDE DEF a, d, S
<1>7. CASE calls' = Tail(calls) /\ delta' = delta /\ pc' = pc
  <2>1. TextTyped'
    BY <1>1, <1>2, <1>5, <1>7 DEF TextTyped, S
  <2>2. RegularLists'
    BY <1>4, <1>6, <1>7 DEF RegularLists
  <2>3. Text!DeadForAReason'
    BY <1>2, <1>7 DEF Text!DeadForAReason
  <2>4. QED
    BY <2>1, <2>2, <2>3 DEF TornInv
<1>8. ASSUME NEW p \in 1 .. Len(d), d[p].key = calls[1].key, ~Sound(d, p), pc' = "dead", delta' = delta, calls' = calls
      PROVE  TornInv'
  <2>1. TextTyped'
    BY <1>1, <1>2, <1>3, <1>8 DEF TextTyped
  <2>2. RegularLists'
    BY <1>4, <1>6, <1>8 DEF RegularLists
  <2>3. ~Text!Regular(d)
    <3>1. SUFFICES ASSUME Text!Regular(d) PROVE FALSE
      OBVIOUS
    <3>2. p + 2 <= Len(d) /\ d[p + 1].n > 1
      BY <3>1, <1>3, <1>8, RepeatedRegular
    <3>3. p + 1 \in 1 .. Len(d)
      BY <3>2, <1>3
    <3>4. d[p + 1].n \in Int
      BY <3>3, <1>3, TokenFacts
    <3>5. QED
      BY <3>2, <3>4, <1>8 DEF Sound
  <2>4. ~Text!Regular(Text!Or(obj.codes[code].delta[a], <<>>))
    BY <2>3, <1>3, <1>4 DEF Stated, d
  <2>5. Text!DeadForAReason'
    BY <2>4, <1>2, <1>3 DEF Text!DeadForAReason, Text!TheCode, Text!Axes
  <2>6. QED
    BY <2>1, <2>2, <2>5 DEF TornInv
<1>9. ASSUME NEW p \in 1 .. Len(d), d[p].key = calls[1].key, Sound(d, p), pc' = pc,
             delta' = [delta EXCEPT ![a] = Text!Repeated(d, p)], calls' = [calls EXCEPT ![1].key = "g"]
      PROVE  TornInv'
  <2>1. Text!Repeated(d, p) \in Seq(Text!Token)
    BY <1>3, <1>9, RepeatedTyped DEF Sound
  <2>2. delta' \in [{"X", "Y"} -> Seq(Text!Token)]
    BY <2>1, <1>3, <1>9
  <2>3. TextTyped'
    BY <2>2, <1>1, <1>2, <1>5, <1>9 DEF TextTyped, S
  <2>4. RegularLists'
    <3>1. Text!Regular(d) => Text!Regular(Text!Repeated(d, p))
      BY <1>3, <1>9, RepeatedRegular
    <3>2. ASSUME NEW b \in {"X", "Y"}, Text!Regular(Stated(b))
          PROVE  Text!Regular(delta'[b])
      <4>1. Text!Regular(delta[b])
        BY <3>2, <1>4
      <4>2. CASE b = a
        BY <4>1, <4>2, <3>1, <1>3, <1>9 DEF d
      <4>3. CASE b # a
        BY <4>1, <4>3, <1>3, <1>9
      <4>4. QED
        BY <4>2, <4>3
    <3>3. QED
      BY <3>2, <1>6 DEF RegularLists
  <2>5. Text!DeadForAReason'
    BY <1>2, <1>9 DEF Text!DeadForAReason
  <2>6. QED
    BY <2>3, <2>4, <2>5 DEF TornInv
<1>10. QED
  BY <1>2, <1>7, <1>8, <1>9

(* The place of the next character is a pair of numbers.                   *)
LEMMA PlaceTyped ==
  ASSUME TextTyped, NEW n \in Nat
  PROVE  /\ Text!calcCodePosAtIndex(n) \in [{"X", "Y"} -> Int]
         /\ \A a \in {"X", "Y"} : Text!calcCodePosAtIndex(n)[a] =
              at[a] + (IF n = 0 \/ delta[a] = <<>> THEN 0 ELSE delta[a][Text!Lesser(Len(delta[a]), n)].n)
<1>1. /\ at \in [{"X", "Y"} -> Int] /\ delta \in [{"X", "Y"} -> Seq(Text!Token)]
  BY DEF TextTyped
<1>2. ASSUME NEW a \in {"X", "Y"}, n # 0, delta[a] # <<>>
      PROVE  delta[a][Text!Lesser(Len(delta[a]), n)].n \in Int
  <2>1. PICK d : d = delta[a]
    OBVIOUS
  <2>2. d \in Seq(Text!Token) /\ Len(d) \in Nat /\ Len(d) > 0
    BY <2>1, <1>1, <1>2
  <2>3. Text!Lesser(Len(d), n) \in 1 .. Len(d)
    BY <2>2, <1>2 DEF Text!Lesser
  <2>4. QED
    BY <2>1, <2>2, <2>3, TokenFacts
<1>3. ASSUME NEW a \in {"X", "Y"}
      PROVE  at[a] + (IF n = 0 \/ delta[a] = <<>> THEN 0 ELSE delta[a][Text!Lesser(Len(delta[a]), n)].n) \in Int
  <2>1. at[a] \in Int
    BY <1>1
  <2>2. (IF n = 0 \/ delta[a] = <<>> THEN 0 ELSE delta[a][Text!Lesser(Len(delta[a]), n)].n) \in Int
    BY <1>2
  <2>3. QED
    BY <2>1, <2>2
<1>4. QED
  BY <1>3 DEF Text!calcCodePosAtIndex, Text!Axes

(* The CGTransform of a position is one of the object's.                   *)
LEMMA CgFacts ==
  ASSUME Text!TextAssumption, obj \in Texts, NEW n, Text!At(n) # {}
  PROVE  /\ Text!Cg(n).codes \in Nat \ {0} /\ Text!Cg(n).glyphs \in Seq(Nat)
         /\ Len(Text!Cg(n).glyphs) \in Nat
<1>1. PICK k : k = CHOOSE k_ \in Text!At(n) : TRUE
  OBVIOUS
<1>2. k \in Text!At(n)
  BY <1>1
<1>3. k \in 1 .. Len(obj.cgs) /\ Text!Cg(n) = obj.cgs[k]
  BY <1>1, <1>2 DEF Text!At, Text!Cg
<1>4. Text!Cg(n).codes \in Nat \ {0} /\ Text!Cg(n).glyphs \in Seq(Nat)
  BY <1>3, CodeFacts
<1>5. \A g \in Seq(Nat) : Len(g) \in Nat
  OBVIOUS
<1>6. QED
  BY <1>4, <1>5

LEMMA TornOthers ==
  ASSUME Text!TextAssumption, TornInv,
         \/ Text!SetFont \/ Text!Expanded \/ Text!AppendChar \/ Text!AppendCharDies
         \/ Text!AppendGlyph \/ Text!EndOfTextCode \/ UNCHANGED Text!vars
  PROVE  TornInv'
<1>1. TextTyped /\ RegularLists /\ Text!DeadForAReason /\ obj \in Texts /\ i \in Nat /\ j \in Nat
  BY DEF TornInv, TextTyped
<1>2. /\ obj' = obj /\ code' = code /\ last' = last /\ delta' = delta /\ calls' = calls
      /\ pc' = pc \/ (pc = "expand" /\ pc' = "codes") \/ pc' \in {"next", "dead"}
  BY DEF Text!SetFont, Text!Expanded, Text!AppendChar, Text!AppendCharDies, Text!AppendGlyph,
     Text!EndOfTextCode, Text!vars
<1>3. i' \in Nat /\ j' \in Nat /\ at' \in [{"X", "Y"} -> Int]
  <2>1. CASE Text!AppendChar
    <3>1. at' = Text!calcCodePosAtIndex(i) /\ i' = i + 1 /\ j' = j
      BY <2>1 DEF Text!AppendChar
    <3>2. Text!calcCodePosAtIndex(i) \in [{"X", "Y"} -> Int]
      BY <1>1, PlaceTyped
    <3>3. QED
      BY <1>1, <3>1, <3>2
  <2>2. CASE Text!AppendGlyph
    <3>1. Text!Cg(i).codes \in Nat
      BY <2>2, <1>1, CgFacts DEF Text!AppendGlyph
    <3>2. CASE j < Len(Text!Cg(i).glyphs)
      <4>1. at' = Text!calcCodePosAtIndex(i + j) /\ i' = i /\ j' = j + 1
        BY <2>2, <3>2 DEF Text!AppendGlyph
      <4>2. i + j \in Nat /\ j + 1 \in Nat
        BY <1>1
      <4>3. QED
        BY <4>1, <4>2, <1>1, PlaceTyped
    <3>3. CASE ~(j < Len(Text!Cg(i).glyphs))
      <4>1. at' = at /\ i' = i + Text!Cg(i).codes /\ j' = 0
        BY <2>2, <3>3 DEF Text!AppendGlyph
      <4>2. QED
        BY <4>1, <3>1, <1>1 DEF TextTyped
    <3>4. QED
      BY <3>2, <3>3
  <2>3. CASE \/ Text!SetFont \/ Text!Expanded \/ Text!AppendCharDies \/ Text!EndOfTextCode
             \/ UNCHANGED Text!vars
    BY <2>3, <1>1 DEF Text!SetFont, Text!Expanded, Text!AppendCharDies, Text!EndOfTextCode, Text!vars, TextTyped
  <2>4. QED
    BY <2>1, <2>2, <2>3
<1>4. TextTyped'
  BY <1>1, <1>2, <1>3 DEF TextTyped
<1>5. RegularLists'
  BY <1>1, <1>2 DEF RegularLists, Stated
<1>6. Text!DeadForAReason'
  <2>1. CASE Text!SetFont
    BY <2>1, <1>2 DEF Text!DeadForAReason, Text!SetFont
  <2>2. CASE Text!AppendCharDies
    <3>1. pc = "codes" /\ i < Len(Text!Text) /\ ~Text!Text[i + 1] /\ ~obj.default
      BY <2>2 DEF Text!AppendCharDies
    <3>2. Len(Text!Text) \in Nat
      <4>1. code \in 1 .. Len(obj.codes)
        BY <1>1, <3>1, CodeFacts DEF TextTyped
      <4>2. QED
        BY <4>1, <1>1, CodeFacts DEF Text!Text, Text!TheCode
    <3>3. i + 1 \in 1 .. Len(Text!Text)
      BY <3>1, <3>2, <1>1
    <3>4. Text!Text' = Text!Text
      BY <1>2 DEF Text!Text, Text!TheCode
    <3>5. QED
      BY <3>1, <3>3, <3>4, <1>2 DEF Text!DeadForAReason
  <2>3. CASE ~Text!SetFont /\ ~Text!AppendCharDies
    <3>1. pc' = "dead" => pc = "dead"
      BY <2>3 DEF Text!Expanded, Text!AppendChar, Text!AppendGlyph, Text!EndOfTextCode, Text!vars
    <3>2. QED
      BY <3>1, <1>1, <1>2 DEF Text!DeadForAReason, Text!TheCode, Text!Text
  <2>4. QED
    BY <2>1, <2>2, <2>3
<1>7. QED
  BY <1>4, <1>5, <1>6 DEF TornInv

DeathFrame ==
  /\ kind = "layer" => DeathInv
  /\ kind = "text" => TornInv

LEMMA DeathFrameInit ==
  ASSUME Init
  PROVE  DeathFrame
  BY DeathInit, TornInit, ParsersAssumption DEF DeathFrame, Init

LEMMA DeathFrameNext ==
  ASSUME DeathFrame, [Next]_vars
  PROVE  DeathFrame'
<1>1. kind' = kind
  BY DEF Next, Step, ParseLayer, ParseText, ParseClips, ParsePath, NextLayer, vars
<1>2. ASSUME kind = "layer" PROVE DeathInv'
  <2>1. DeathInv /\ Style!StyleAssumption
    BY <1>2, ParsersAssumption DEF DeathFrame
  <2>2. Style!Parse \/ (\E d \in Documents : Style!ParseLayer(d)) \/ UNCHANGED <<obj, calls, StyleOnly>>
    BY <1>2 DEF Next, Step, ParseLayer, ParseText, ParseClips, ParsePath, NextLayer, vars
  <2>3. QED
    BY <2>1, <2>2, DeathNext
<1>3. ASSUME kind = "text" PROVE TornInv'
  <2>1. TornInv /\ Text!TextAssumption
    BY <1>3, ParsersAssumption DEF DeathFrame
  <2>2. Text!Step \/ UNCHANGED Text!vars
    BY <1>3 DEF Next, Step, ParseLayer, ParseText, ParseClips, ParsePath, NextLayer, vars,
       Text!vars, TextOnly
  <2>3. QED
    BY <2>1, <2>2, TornNextTextCode, TornExpand, TornOthers DEF Text!Step
<1>4. QED
  BY <1>1, <1>2, <1>3 DEF DeathFrame

(* The parsers end the process only on resources nested deeper than the    *)
(* stack, for any stack and any nesting (ParseDrawParam and                *)
(* ParseCompositeObject never use more of it than the ranks say), and on a *)
(* text without a font for itself or one of its characters (SetTextMatrix, *)
(* appendChar) or with an irregular list of deltas: expand_g never reads   *)
(* past a regular one, however often it rewrites it.                       *)
THEOREM ParserDeathIsExplained == Spec => []ParserDeathExplained
<1>1. Init => DeathFrame
  BY DeathFrameInit
<1>2. DeathFrame /\ [Next]_vars => DeathFrame'
  BY DeathFrameNext
<1>3. DeathFrame => ParserDeathExplained
  BY DEF DeathFrame, DeathInv, TornInv, ParserDeathExplained
<1>4. QED
  BY <1>1, <1>2, <1>3, PTL DEF Spec

-----------------------------------------------------------------------------
(* The style of the objects of a layer.  ParseDrawParam goes up a chain of *)
(* DrawParams and back, so that the nearest to set an attribute has it: the *)
(* chain is a sequence, and what each call under way will have found is    *)
(* said by the rest of it.                                                 *)
(* f has the first n values of what starts with v and goes on with g.      *)
Iterated(f, n, S, v, g) ==
  f \in [0 .. n -> S] /\ f[0] = v /\ \A k \in 0 .. n - 1 : f[k + 1] = g[f[k]]

LEMMA IteratedOnce ==
  ASSUME NEW S, NEW v \in S, NEW g \in [S -> S], NEW n \in Nat
  PROVE  \E f : Iterated(f, n, S, v, g)
<1> DEFINE T == {k \in Nat : ~ \E f : Iterated(f, k, S, v, g)}
<1>1. SUFFICES ASSUME T # {} PROVE FALSE
  OBVIOUS
<1>2. PICK x \in T : \A y \in T : x <= y
  BY <1>1, LeastNat
<1>3. x \in Nat /\ ~ \E f : Iterated(f, x, S, v, g)
  BY <1>2
<1>4. CASE x = 0
  <2> DEFINE f == [k \in 0 .. 0 |-> v]
  <2>1. f \in [0 .. 0 -> S] /\ f[0] = v /\ \A k \in 0 .. 0 - 1 : FALSE
    OBVIOUS
  <2>2. Iterated(f, 0, S, v, g)
    BY <2>1 DEF Iterated
  <2> QED BY <2>2, <1>3, <1>4
<1>5. CASE x # 0
  <2>1. x - 1 \in Nat /\ x - 1 \notin T
    BY <1>2, <1>3, <1>5
  <2>2. PICK w \in Nat : w = x - 1
    BY <2>1
  <2>3. PICK f : Iterated(f, w, S, v, g)
    BY <2>1, <2>2
  <2>4. f[w] \in S /\ x = w + 1
    BY <2>2, <2>3, <1>3 DEF Iterated
  <2>5. g[f[w]] \in S
    BY <2>4
  <2> DEFINE h_ == [k \in 0 .. x |-> IF k = x THEN g[f[w]] ELSE f[k]]
  <2>6. \A k \in 0 .. x : k # x => k \in 0 .. w /\ f[k] \in S
    BY <2>3, <2>4 DEF Iterated
  <2>7. h_ \in [0 .. x -> S]
    BY <2>5, <2>6
  <2>8. h_[0] = v
    BY <2>3, <2>4 DEF Iterated
  <2>9. \A k \in 0 .. x - 1 : h_[k + 1] = g[h_[k]]
    <3> SUFFICES ASSUME NEW k \in 0 .. x - 1 PROVE h_[k + 1] = g[h_[k]]
      OBVIOUS
    <3>1. h_[k] = f[k]
      BY <2>4
    <3>2. CASE k = w
      <4>1. h_[k + 1] = g[f[w]]
        BY <3>2, <2>4
      <4> QED BY <4>1, <3>1, <3>2
    <3>3. CASE k # w
      <4>1. k \in 0 .. w - 1 /\ k + 1 \in 0 .. x /\ k + 1 # x
        BY <3>3, <2>4
      <4>2. h_[k + 1] = f[k + 1]
        BY <4>1
      <4>3. f[k + 1] = g[f[k]]
        BY <4>1, <2>3 DEF Iterated
      <4> QED BY <4>2, <4>3, <3>1
    <3> QED BY <3>2, <3>3
  <2> HIDE DEF h_
  <2>10. Iterated(h_, x, S, v, g)
    BY <2>7, <2>8, <2>9 DEF Iterated
  <2> QED BY <2>10, <1>3
<1>6. QED
  BY <1>4, <1>5

LEMMA IteratedUnique ==
  ASSUME NEW S, NEW v, NEW g, NEW m \in Nat, NEW n \in Nat, NEW f, NEW h_,
         Iterated(f, m, S, v, g), Iterated(h_, n, S, v, g), NEW k \in Nat, k <= m, k <= n
  PROVE  f[k] = h_[k]
<1> DEFINE T == {q \in Nat : q <= m /\ q <= n /\ f[q] # h_[q]}
<1>1. SUFFICES ASSUME T # {} PROVE FALSE
  OBVIOUS
<1>2. PICK x \in T : \A y \in T : x <= y
  BY <1>1, LeastNat
<1>3. x \in Nat /\ x <= m /\ x <= n /\ f[x] # h_[x]
  BY <1>2
<1>4. x # 0
  BY <1>3 DEF Iterated
<1>5. x - 1 \in Nat /\ x - 1 \notin T /\ x - 1 <= m /\ x - 1 <= n
  BY <1>2, <1>3, <1>4
<1>6. PICK w \in Nat : w = x - 1
  BY <1>5
<1>7. f[w] = h_[w]
  BY <1>5, <1>6
<1>8. w \in 0 .. m - 1 /\ w \in 0 .. n - 1 /\ x = w + 1
  BY <1>3, <1>4, <1>6
<1>9. f[w + 1] = g[f[w]] /\ h_[w + 1] = g[h_[w]]
  BY <1>8 DEF Iterated
<1>10. QED
  BY <1>3, <1>7, <1>8, <1>9

(* A function on the naturals may be defined by its first value and a step.*)
LEMMA Iteration ==
  ASSUME NEW S, NEW v \in S, NEW g \in [S -> S]
  PROVE  \E f \in [Nat -> S] : f[0] = v /\ \A n \in Nat : f[n + 1] = g[f[n]]
<1> DEFINE H(n) == CHOOSE f : Iterated(f, n, S, v, g)
           F == [n \in Nat |-> H(n)[n]]
<1>1. \A n \in Nat : Iterated(H(n), n, S, v, g)
  BY IteratedOnce
<1> HIDE DEF H
<1>2. ASSUME NEW n \in Nat PROVE H(n)[n] \in S
  <2>1. n \in 0 .. n
    OBVIOUS
  <2> QED BY <2>1, <1>1 DEF Iterated
<1>3. F \in [Nat -> S]
  BY <1>2
<1>4. F[0] = v
  <2>1. Iterated(H(0), 0, S, v, g)
    BY <1>1
  <2> QED BY <2>1 DEF Iterated
<1>5. ASSUME NEW n \in Nat PROVE F[n + 1] = g[F[n]]
  <2>1. PICK m \in Nat : m = n + 1
    OBVIOUS
  <2>2. Iterated(H(m), m, S, v, g) /\ Iterated(H(n), n, S, v, g)
    BY <1>1
  <2>3. H(m)[n] = H(n)[n]
    <3>1. n <= m /\ n <= n
      BY <2>1
    <3> QED BY <2>2, <3>1, IteratedUnique
  <2>4. n \in 0 .. m - 1
    BY <2>1
  <2>5. H(m)[n + 1] = g[H(m)[n]]
    BY <2>2, <2>4 DEF Iterated
  <2>6. F[m] = H(m)[m] /\ F[n] = H(n)[n]
    OBVIOUS
  <2> HIDE DEF F
  <2> QED BY <2>1, <2>3, <2>5, <2>6
<1> HIDE DEF F
<1>6. QED
  BY <1>3, <1>4, <1>5

(* The chains of a document, unrolled.                                     *)
ParamsOf(d) == DOMAIN d.drawparams
Relative(d, id) == d.drawparams[id].relative
Links(d, f, n) ==
  [id \in Nat |-> IF n = 0 \/ id \notin ParamsOf(d) THEN <<>> ELSE <<id>> \o f[n - 1][Relative(d, id)]]
Chains(d) == CHOOSE f : f = [n \in Nat |-> Links(d, f, n)]

LEMMA DocumentFacts ==
  ASSUME Style!StyleAssumption, NEW d \in Documents
  PROVE  /\ MaxDepth \in Nat \ {0} /\ ParamsOf(d) \subseteq Nat \ {0}
         /\ \A id \in ParamsOf(d) : Relative(d, id) \in Nat
<1>1. MaxDepth \in Nat \ {0} /\ Style!IsDocument(d)
  BY DEF Style!StyleAssumption
<1>2. QED
  BY <1>1 DEF Style!IsDocument, Style!DrawParam, ParamsOf, Relative

LEMMA ChainsUnrolled ==
  ASSUME Style!StyleAssumption, NEW d \in Documents
  PROVE  /\ Chains(d) = [n \in Nat |-> Links(d, Chains(d), n)]
         /\ \A n \in Nat : Chains(d)[n] \in [Nat -> Seq(Nat)]
<1> DEFINE S == [Nat -> Seq(Nat)]
           none == [id \in Nat |-> <<>>]
           Up(x) == [id \in Nat |-> IF id \notin ParamsOf(d) THEN <<>> ELSE <<id>> \o x[Relative(d, id)]]
           step == [x \in S |-> Up(x)]
<1>1. none \in S
  OBVIOUS
<1>2. ASSUME NEW x \in S PROVE Up(x) \in S
  <2>1. ASSUME NEW id \in Nat, id \in ParamsOf(d) PROVE <<id>> \o x[Relative(d, id)] \in Seq(Nat)
    <3>1. Relative(d, id) \in Nat
      BY <2>1, DocumentFacts
    <3>2. x[Relative(d, id)] \in Seq(Nat)
      BY <3>1
    <3> QED BY <3>2
  <2> QED BY <2>1
<1>3. step \in [S -> S]
  <2> HIDE DEF Up, S
  <2> QED BY <1>2
<1>3a. \A x \in S : step[x] = Up(x)
  <2> HIDE DEF Up, S
  <2> QED OBVIOUS
<1> HIDE DEF S
<1>4. PICK f \in [Nat -> S] : f[0] = none /\ \A n \in Nat : f[n + 1] = step[f[n]]
  <2>1. PICK v \in S : v = none
    BY <1>1
  <2>2. PICK g \in [S -> S] : g = step
    BY <1>3
  <2> HIDE DEF none, step, Up
  <2>3. \E f \in [Nat -> S] : f[0] = v /\ \A n \in Nat : f[n + 1] = g[f[n]]
    BY <2>1, <2>2, Iteration
  <2> QED BY <2>1, <2>2, <2>3
<1> HIDE DEF step
<1>5. \A n \in Nat : f[n] = Links(d, f, n)
  <2> SUFFICES ASSUME NEW n \in Nat PROVE f[n] = Links(d, f, n)
    OBVIOUS
  <2>1. CASE n = 0
    BY <2>1, <1>4 DEF Links
  <2>2. CASE n # 0
    <3>1. PICK m \in Nat : m = n - 1
      BY <2>2
    <3>2. n = m + 1 /\ f[m] \in S
      BY <3>1
    <3>3. f[n] = Up(f[m])
      <4>1. f[m + 1] = step[f[m]]
        BY <1>4
      <4> HIDE DEF Up
      <4>3. step[f[m]] = Up(f[m])
        BY <3>2, <1>3a
      <4> QED BY <4>1, <4>3, <3>2
    <3> QED BY <3>1, <3>3, <2>2 DEF Links
  <2> QED BY <2>1, <2>2
<1>6. f = [n \in Nat |-> Links(d, f, n)]
  <2>1. f = [n \in Nat |-> f[n]]
    BY <1>4
  <2> QED BY <2>1, <1>5
<1>7. Chains(d) = [n \in Nat |-> Links(d, Chains(d), n)]
  <2> DEFINE Q(e) == e = [n \in Nat |-> Links(d, e, n)]
  <2>1. Q(f)
    BY <1>6
  <2>2. Chains(d) = CHOOSE e : Q(e)
    BY DEF Chains
  <2> HIDE DEF Q
  <2>3. Q(Chains(d))
    BY <2>1, <2>2
  <2> QED BY <2>3 DEF Q
<1>8. \A n \in Nat : Chains(d)[n] \in S
  <2>a. PICK c : c = Chains(d)
    OBVIOUS
  <2> DEFINE T == {n \in Nat : c[n] \notin S}
  <2>0. \A n \in Nat : c[n] = Links(d, c, n)
    BY <1>7, <2>a
  <2>1. SUFFICES ASSUME T # {} PROVE FALSE
    BY <2>a
  <2>2. PICK x \in T : \A y \in T : x <= y
    BY <2>1, LeastNat
  <2>3. x \in Nat /\ c[x] \notin S
    BY <2>2
  <2>4. x # 0
    <3>1. Links(d, c, 0) = none
      BY DEF Links
    <3> QED BY <3>1, <2>0, <2>3, <1>1
  <2>5. PICK m \in Nat : m = x - 1
    BY <2>3, <2>4
  <2>6. c[m] \in S
    <3>1. m \notin T
      BY <2>2, <2>3, <2>5
    <3> QED BY <3>1
  <2>7. Links(d, c, x) = Up(c[m])
    BY <2>4, <2>5 DEF Links
  <2> HIDE DEF Up
  <2> QED BY <2>0, <2>3, <2>6, <2>7, <1>2
<1>9. QED
  BY <1>7, <1>8 DEF S

LEMMA ChainAt ==
  ASSUME Style!StyleAssumption, NEW d \in Documents, NEW n \in Nat, NEW id \in Nat
  PROVE  /\ Chains(d)[n][id] \in Seq(Nat)
         /\ n = 0 \/ id \notin ParamsOf(d) => Chains(d)[n][id] = <<>>
         /\ n # 0 /\ id \in ParamsOf(d) => Chains(d)[n][id] = <<id>> \o Chains(d)[n - 1][Relative(d, id)]
<1>1. PICK c : c = Chains(d)
  OBVIOUS
<1>2. c = [m \in Nat |-> Links(d, c, m)] /\ c[n] \in [Nat -> Seq(Nat)]
  BY <1>1, ChainsUnrolled
<1>3. c[n] = Links(d, c, n)
  BY <1>2
<1>4. c[n][id] = IF n = 0 \/ id \notin ParamsOf(d) THEN <<>> ELSE <<id>> \o c[n - 1][Relative(d, id)]
  BY <1>3 DEF Links
<1>5. c[n][id] \in Seq(Nat)
  BY <1>2
<1>6. QED
  BY <1>1, <1>4, <1>5

(* The chain from id on has ended after m DrawParams.                      *)
Ends(d, m, id) == \A k \in Nat : m <= k => Chains(d)[k][id] = Chains(d)[m][id]

LEMMA EndsUnknown ==
  ASSUME Style!StyleAssumption, NEW d \in Documents, NEW m \in Nat, NEW id \in Nat, id \notin ParamsOf(d)
  PROVE  Ends(d, m, id)
  BY ChainAt DEF Ends

LEMMA EndsStep ==
  ASSUME Style!StyleAssumption, NEW d \in Documents, NEW m \in Nat, NEW id \in ParamsOf(d),
         Ends(d, m, Relative(d, id))
  PROVE  Ends(d, m + 1, id)
<1>1. id \in Nat /\ Relative(d, id) \in Nat
  BY DocumentFacts
<1>2. SUFFICES ASSUME NEW k \in Nat, m + 1 <= k
               PROVE  Chains(d)[k][id] = Chains(d)[m + 1][id]
  BY DEF Ends
<1>3. PICK q \in Nat : q = k - 1 /\ m <= q
  BY <1>2
<1>4. Chains(d)[q][Relative(d, id)] = Chains(d)[m][Relative(d, id)]
  BY <1>3 DEF Ends
<1>5. PICK w \in Nat : w = m + 1
  OBVIOUS
<1>6. k # 0 /\ w # 0 /\ w - 1 = m
  BY <1>2, <1>5
<1>7. /\ Chains(d)[k][id] = <<id>> \o Chains(d)[k - 1][Relative(d, id)]
      /\ Chains(d)[w][id] = <<id>> \o Chains(d)[w - 1][Relative(d, id)]
  BY <1>1, <1>6, ChainAt
<1>8. QED
  BY <1>3, <1>4, <1>5, <1>6, <1>7

LEMMA EndsLater ==
  ASSUME NEW d, NEW m \in Nat, NEW n \in Nat, NEW id, m <= n, Ends(d, m, id)
  PROVE  Ends(d, n, id)
<1>1. SUFFICES ASSUME NEW k \in Nat, n <= k PROVE Chains(d)[k][id] = Chains(d)[n][id]
  BY DEF Ends
<1>2. m <= k
  BY <1>1
<1>3. QED
  BY <1>2 DEF Ends

(* Nearest, of a document.                                                 *)
Hits(d, c, a) == {k \in 1 .. Len(c) : a \in d.drawparams[c[k]].has}
FirstOf(d, c, a, other) ==
  IF Hits(d, c, a) = {} THEN other
  ELSE Style!By(c[CHOOSE k \in Hits(d, c, a) : \A m \in Hits(d, c, a) : k <= m])
NearestOf(d, id, a, other) == FirstOf(d, Chains(d)[MaxDepth][id], a, other)

LEMMA NearestIs ==
  \A id, a, other : Style!Nearest(id, a, other) = NearestOf(doc, id, a, other)
<1>1. Style!ChainUpTo = Chains(doc)
  BY DEF Style!ChainUpTo, Chains, Links, Relative, ParamsOf
<1>2. \A id : Style!Chain(id) = Chains(doc)[MaxDepth][id]
  BY <1>1 DEF Style!Chain
<1>3. SUFFICES ASSUME NEW id, NEW a, NEW other
               PROVE  Style!Nearest(id, a, other) = NearestOf(doc, id, a, other)
  OBVIOUS
<1>4. PICK c : c = Style!Chain(id)
  OBVIOUS
<1>5. PICK H : H = Hits(doc, c, a)
  OBVIOUS
<1>6. H = {k \in 1 .. Len(c) : a \in doc.drawparams[c[k]].has}
  BY <1>5 DEF Hits
<1>7. Style!Nearest(id, a, other) =
        IF H = {} THEN other ELSE Style!By(c[CHOOSE k \in H : \A m \in H : k <= m])
  BY <1>4, <1>6 DEF Style!Nearest
<1>8. NearestOf(doc, id, a, other) = FirstOf(doc, c, a, other)
  BY <1>2, <1>4 DEF NearestOf
<1>9. QED
  BY <1>5, <1>7, <1>8 DEF FirstOf

LEMMA NearestUnknown ==
  ASSUME Style!StyleAssumption, NEW d \in Documents, NEW id \in Nat, id \notin ParamsOf(d), NEW a, NEW other
  PROVE  NearestOf(d, id, a, other) = other
<1>1. Chains(d)[MaxDepth][id] = <<>>
  BY ChainAt, DocumentFacts
<1>2. Hits(d, <<>>, a) = {}
  BY DEF Hits
<1>3. QED
  BY <1>1, <1>2 DEF NearestOf, FirstOf

Joined(id, c) == <<id>> \o c

(* The first of a list, or of the rest.                                    *)
LEMMA FirstStep ==
  ASSUME NEW d, NEW c \in Seq(Nat), NEW id \in Nat, NEW e, e = Joined(id, c), NEW a, NEW other
  PROVE  /\ a \in d.drawparams[id].has => FirstOf(d, e, a, other) = Style!By(id)
         /\ a \notin d.drawparams[id].has => FirstOf(d, e, a, other) = FirstOf(d, c, a, other)
<1>0. <<id>> \in Seq(Nat) /\ \A s, t \in Seq(Nat) : s \o t \in Seq(Nat)
  OBVIOUS
<1>1. e \in Seq(Nat) /\ e = <<id>> \o c
  BY <1>0 DEF Joined
<1>2. Len(e) = Len(c) + 1 /\ e[1] = id /\ \A k \in 1 .. Len(c) : e[k + 1] = c[k]
  BY <1>1
<1>2a. Len(c) \in Nat /\ Len(e) \in Nat
  OBVIOUS
<1> DEFINE E == Hits(d, e, a)
           C == Hits(d, c, a)
<1>3. \A k : k \in E <=> k \in 1 .. Len(e) /\ a \in d.drawparams[e[k]].has
  BY DEF Hits
<1>4. \A k : k \in C <=> k \in 1 .. Len(c) /\ a \in d.drawparams[c[k]].has
  BY DEF Hits
<1>5. E \subseteq Nat /\ C \subseteq Nat
  BY <1>3, <1>4
<1> HIDE DEF E, C
<1>6. CASE a \in d.drawparams[id].has
  <2>1. 1 \in E /\ \A m \in E : 1 <= m
    BY <1>2, <1>2a, <1>3, <1>6
  <2>2. \A k \in E : (\A m \in E : k <= m) => k = 1
    BY <2>1, <1>5
  <2>3. (CHOOSE k \in E : \A m \in E : k <= m) = 1
    BY <2>1, <2>2
  <2>4. FirstOf(d, e, a, other) = Style!By(e[1])
    BY <2>1, <2>3 DEF FirstOf, E
  <2>5. QED
    BY <2>4, <1>1, <1>2, <1>6
<1>7. CASE a \notin d.drawparams[id].has
  <2>1. \A k \in Nat : k + 1 \in E <=> k \in C
    <3> SUFFICES ASSUME NEW k \in Nat PROVE k + 1 \in E <=> k \in C
      OBVIOUS
    <3>1. CASE k = 0
      <4>1. e[k + 1] = id
        BY <3>1, <1>2
      <4> QED BY <4>1, <3>1, <1>3, <1>4, <1>7
    <3>2. CASE k # 0
      <4>1. k + 1 \in 1 .. Len(e) <=> k \in 1 .. Len(c)
        BY <3>2, <1>2, <1>2a
      <4> QED BY <4>1, <1>2, <1>3, <1>4
    <3> QED BY <3>1, <3>2
  <2>2. \A m \in E : m # 0 /\ m - 1 \in Nat /\ m - 1 \in C
    <3> SUFFICES ASSUME NEW m \in E PROVE m # 0 /\ m - 1 \in Nat /\ m - 1 \in C
      OBVIOUS
    <3>1. m \in Nat /\ m # 0
      BY <1>3, <1>5
    <3>2. PICK k \in Nat : k = m - 1
      BY <3>1
    <3>3. k + 1 = m
      BY <3>1, <3>2
    <3> QED BY <3>1, <3>2, <3>3, <2>1
  <2>3. CASE C = {}
    <3>1. E = {}
      BY <2>2, <2>3
    <3> QED BY <3>1, <2>3, <1>1, <1>7 DEF FirstOf, E, C
  <2>4. CASE C # {}
    <3>1. PICK x \in C : \A y \in C : x <= y
      BY <2>4, <1>5, LeastNat
    <3>2. x \in Nat /\ \A k \in C : (\A m \in C : k <= m) => k = x
      BY <3>1, <1>5
    <3>3. (CHOOSE k \in C : \A m \in C : k <= m) = x
      BY <3>1, <3>2
    <3>4. x + 1 \in E
      BY <3>2, <2>1
    <3>5. ASSUME NEW m \in E PROVE x + 1 <= m
      <4>1. m - 1 \in C /\ m \in Nat
        BY <2>2, <1>5
      <4>2. x <= m - 1
        BY <4>1, <3>1
      <4> QED BY <4>1, <4>2, <3>2
    <3>6. PICK z \in Nat : z = x + 1
      BY <3>2
    <3>7. z \in E /\ \A m \in E : z <= m
      BY <3>4, <3>5, <3>6
    <3>8. \A k \in E : (\A m \in E : k <= m) => k = z
      BY <3>7, <1>5
    <3>9. (CHOOSE k \in E : \A m \in E : k <= m) = z
      BY <3>7, <3>8
    <3>10. e[z] = c[x]
      <4>1. x \in 1 .. Len(c)
        BY <3>1, <1>4
      <4> QED BY <4>1, <3>6, <1>2
    <3>11. FirstOf(d, e, a, other) = Style!By(e[z])
      BY <3>7, <3>9 DEF FirstOf, E
    <3>12. FirstOf(d, c, a, other) = Style!By(c[x])
      BY <3>1, <3>3 DEF FirstOf, C
    <3> QED BY <3>10, <3>11, <3>12, <1>1, <1>7
  <2> QED BY <2>3, <2>4
<1>8. QED
  BY <1>6, <1>7

LEMMA NearestStep ==
  ASSUME Style!StyleAssumption, NEW d \in Documents, NEW id \in ParamsOf(d), NEW a, NEW other,
         Ends(d, MaxDepth - 1, Relative(d, id))
  PROVE  NearestOf(d, id, a, other) =
           IF a \in d.drawparams[id].has THEN Style!By(id) ELSE NearestOf(d, Relative(d, id), a, other)
<1>1. id \in Nat /\ Relative(d, id) \in Nat /\ MaxDepth \in Nat /\ MaxDepth # 0
  BY DocumentFacts
<1>2. PICK m \in Nat : m = MaxDepth - 1
  BY <1>1
<1>3. PICK c : c = Chains(d)[m][Relative(d, id)]
  OBVIOUS
<1>4. c \in Seq(Nat)
  BY <1>1, <1>3, ChainAt
<1>5. Chains(d)[MaxDepth][id] = <<id>> \o c
  BY <1>1, <1>2, <1>3, ChainAt
<1>6. Chains(d)[MaxDepth][Relative(d, id)] = c
  BY <1>1, <1>2, <1>3 DEF Ends
<1>6a. PICK e : e = Joined(id, c)
  OBVIOUS
<1>7. /\ a \in d.drawparams[id].has => FirstOf(d, e, a, other) = Style!By(id)
      /\ a \notin d.drawparams[id].has => FirstOf(d, e, a, other) = FirstOf(d, c, a, other)
  BY <1>1, <1>4, <1>6a, FirstStep
<1>8. /\ NearestOf(d, id, a, other) = FirstOf(d, e, a, other)
      /\ NearestOf(d, Relative(d, id), a, other) = FirstOf(d, c, a, other)
  BY <1>5, <1>6, <1>6a DEF NearestOf, Joined
<1>9. QED
  BY <1>7, <1>8

(* What a call of ParseDrawParam makes of an attribute that was x, and     *)
(* what the first n calls of an object make of it.                         *)
Overridden(d, c, a, x) == IF a \in c.has THEN c.who ELSE NearestOf(d, c.relative, a, x)
After(d, C, n, a) ==
  LET first == Overridden(d, C[1], a, Style!Default)
      second == Overridden(d, C[2], a, first)
  IN  IF n = 0 THEN Style!Default
      ELSE IF n = 1 THEN first
      ELSE IF n = 2 THEN second
      ELSE Overridden(d, C[3], a, second)

LEMMA AfterStep ==
  ASSUME NEW d, NEW C, NEW a, NEW n \in 0 .. 2
  PROVE  After(d, C, n + 1, a) = Overridden(d, C[n + 1], a, After(d, C, n, a))
<1>1. CASE n = 0
  BY <1>1 DEF After
<1>2. CASE n = 1
  BY <1>2 DEF After
<1>3. CASE n = 2
  BY <1>3 DEF After
<1>4. QED
  BY <1>1, <1>2, <1>3

(* Preferred, of a document.                                               *)
PreferredOf(d, o, a) ==
  LET e == o.elem
      inherited == NearestOf(d, e.dp, a, NearestOf(d, o.layer, a, Style!Default))
  IN  IF e.tag = "TextObject"
        THEN NearestOf(d, e.dp, a, NearestOf(d, o.layer, a, Style!OwnOr(e, a, Style!Default)))
      ELSE IF a \in Style!Again \/ e.dp \notin ParamsOf(d) THEN Style!OwnOr(e, a, inherited)
      ELSE inherited

LEMMA PreferredIs ==
  \A o, a : Style!Preferred(o, a) = PreferredOf(doc, o, a)
  BY NearestIs DEF Style!Preferred, PreferredOf, Style!Known, ParamsOf

(* An object whose style is the one of precedence.                         *)
Precedent(d, o) ==
  o.elem.tag # "ImageObject" => \A a \in Style!Attrs : o.style[a] = PreferredOf(d, o, a)

(* The calls of an object, one by one.                                     *)
LEMMA CallsOfText ==
  ASSUME Style!StyleAssumption, doc \in Documents, NEW e \in Style!Element, NEW layer \in Nat,
         e.tag = "TextObject", NEW C, C = Style!Calls(e, layer)
  PROVE  /\ Len(C) \in 0 .. 3
         /\ layer \in Params /\ e.dp \in Params =>
              Len(C) = 3 /\ C[1] = Style!OfElement(e) /\ C[2] = Style!OfParam(layer) /\ C[3] = Style!OfParam(e.dp)
         /\ layer \in Params /\ e.dp \notin Params =>
              Len(C) = 2 /\ C[1] = Style!OfElement(e) /\ C[2] = Style!OfParam(layer)
         /\ layer \notin Params /\ e.dp \in Params =>
              Len(C) = 2 /\ C[1] = Style!OfElement(e) /\ C[2] = Style!OfParam(e.dp)
         /\ layer \notin Params /\ e.dp \notin Params => Len(C) = 1 /\ C[1] = Style!OfElement(e)
<1>1. C \in Seq(DrawCall)
  BY CallsTyped
<1>3. PICK x : x = Style!OfElement(e)
  OBVIOUS
<1>4. PICK y : y = Style!OfParam(layer)
  OBVIOUS
<1>5. PICK z : z = Style!OfParam(e.dp)
  OBVIOUS
<1>6. /\ Style!IfKnown(layer) = IF layer \in Params THEN <<y>> ELSE <<>>
      /\ Style!IfKnown(e.dp) = IF e.dp \in Params THEN <<z>> ELSE <<>>
  BY <1>4, <1>5 DEF Style!IfKnown, Style!Known, Params
<1>7. C = <<x>> \o (IF layer \in Params THEN <<y>> ELSE <<>>) \o (IF e.dp \in Params THEN <<z>> ELSE <<>>)
  BY <1>3, <1>6 DEF Style!Calls, Style!Known, Params
<1>8. CASE layer \in Params /\ e.dp \in Params
  BY <1>1, <1>3, <1>4, <1>5, <1>7, <1>8
<1>9. CASE layer \in Params /\ e.dp \notin Params
  BY <1>1, <1>3, <1>4, <1>5, <1>7, <1>9
<1>10. CASE layer \notin Params /\ e.dp \in Params
  BY <1>1, <1>3, <1>4, <1>5, <1>7, <1>10
<1>11. CASE layer \notin Params /\ e.dp \notin Params
  BY <1>1, <1>3, <1>4, <1>5, <1>7, <1>11
<1>12. QED
  BY <1>8, <1>9, <1>10, <1>11

LEMMA CallsOfPath ==
  ASSUME Style!StyleAssumption, doc \in Documents, NEW e \in Style!Element, NEW layer \in Nat,
         e.tag # "TextObject", NEW C, C = Style!Calls(e, layer)
  PROVE  /\ Len(C) \in 0 .. 3
         /\ layer \in Params /\ e.dp \in Params =>
              Len(C) = 2 /\ C[1] = Style!OfParam(layer) /\ C[2] = Style!OfParam(e.dp)
         /\ layer \in Params /\ e.dp \notin Params =>
              Len(C) = 2 /\ C[1] = Style!OfParam(layer) /\ C[2] = Style!OfElement(e)
         /\ layer \notin Params /\ e.dp \in Params => Len(C) = 1 /\ C[1] = Style!OfParam(e.dp)
         /\ layer \notin Params /\ e.dp \notin Params => Len(C) = 1 /\ C[1] = Style!OfElement(e)
<1>1. C \in Seq(DrawCall)
  BY CallsTyped
<1>3. PICK x : x = Style!OfElement(e)
  OBVIOUS
<1>4. PICK y : y = Style!OfParam(layer)
  OBVIOUS
<1>5. PICK z : z = Style!OfParam(e.dp)
  OBVIOUS
<1>6. /\ Style!IfKnown(layer) = IF layer \in Params THEN <<y>> ELSE <<>>
      /\ Style!IfKnown(e.dp) = IF e.dp \in Params THEN <<z>> ELSE <<>>
  BY <1>4, <1>5 DEF Style!IfKnown, Style!Known, Params
<1>7. C = (IF layer \in Params THEN <<y>> ELSE <<>>) \o (IF e.dp \in Params THEN <<z>> ELSE <<x>>)
  BY <1>3, <1>6 DEF Style!Calls, Style!Known, Params
<1>8. CASE layer \in Params /\ e.dp \in Params
  BY <1>1, <1>3, <1>4, <1>5, <1>7, <1>8
<1>9. CASE layer \in Params /\ e.dp \notin Params
  BY <1>1, <1>3, <1>4, <1>5, <1>7, <1>9
<1>10. CASE layer \notin Params /\ e.dp \in Params
  BY <1>1, <1>3, <1>4, <1>5, <1>7, <1>10
<1>11. CASE layer \notin Params /\ e.dp \notin Params
  BY <1>1, <1>3, <1>4, <1>5, <1>7, <1>11
<1>12. QED
  BY <1>8, <1>9, <1>10, <1>11

LEMMA CallsAre ==
  ASSUME Style!StyleAssumption, doc \in Documents, NEW e \in Style!Element, NEW layer \in Nat,
         NEW C, C = Style!Calls(e, layer)
  PROVE  /\ C \in Seq(DrawCall) /\ Len(C) \in 0 .. 3
         /\ \A k \in 1 .. Len(C) : C[k] \in DrawCall /\ ~C[k].down
<1>1. C \in Seq(DrawCall)
  BY CallsTyped
<1>2. ASSUME NEW k \in 1 .. Len(C) PROVE C[k] \in DrawCall /\ ~C[k].down
  <2>1. C[k] \in DrawCall
    BY <1>1
  <2>2. C[k] = Style!OfElement(e) \/ \E id \in Params : C[k] = Style!OfParam(id)
    BY CallsFacts
  <2>3. ~Style!OfElement(e).down /\ \A id : ~Style!OfParam(id).down
    BY DEF Style!OfElement, Style!OfParam
  <2>4. QED
    BY <2>1, <2>2, <2>3
<1>3. Len(C) \in 0 .. 3
  BY CallsOfText, CallsOfPath
<1>4. QED
  BY <1>1, <1>2, <1>3

(* What a call for the element and one for a DrawParam do.                 *)
LEMMA OverriddenByElement ==
  ASSUME Style!StyleAssumption, doc \in Documents, NEW e \in Style!Element, NEW a \in Style!Attrs, NEW x
  PROVE  Overridden(doc, Style!OfElement(e), a, x) = Style!OwnOr(e, a, x)
<1>1. 0 \in Nat /\ 0 \notin ParamsOf(doc)
  BY DocumentFacts
<1>2. NearestOf(doc, 0, a, x) = x
  BY <1>1, NearestUnknown
<1>3. /\ Style!OfElement(e).has = e.has /\ Style!OfElement(e).relative = 0
      /\ Style!OfElement(e).who = Style!Own
  BY DEF Style!OfElement
<1>4. QED
  BY <1>2, <1>3 DEF Overridden, Style!OwnOr

LEMMA OverriddenByParam ==
  ASSUME Style!StyleAssumption, NEW d \in Documents, NEW id \in ParamsOf(d), NEW a, NEW x, NEW c,
         c.has = d.drawparams[id].has, c.relative = Relative(d, id), c.who = Style!By(id),
         Ends(d, MaxDepth - 1, c.relative)
  PROVE  Overridden(d, c, a, x) = NearestOf(d, id, a, x)
<1>1. Ends(d, MaxDepth - 1, Relative(d, id))
  OBVIOUS
<1>2. NearestOf(d, id, a, x) =
        IF a \in d.drawparams[id].has THEN Style!By(id) ELSE NearestOf(d, Relative(d, id), a, x)
  BY <1>1, NearestStep
<1>3. QED
  BY <1>2 DEF Overridden

LEMMA OfParamIs ==
  \A id : /\ Style!OfParam(id).has = doc.drawparams[id].has /\ Style!OfParam(id).who = Style!By(id)
          /\ Style!OfParam(id).relative = Relative(doc, id) /\ ~Style!OfParam(id).down
  BY DEF Style!OfParam, Relative

(* When all calls are made, the style is the one of precedence.            *)
LEMMA FinalStyle ==
  ASSUME Style!StyleAssumption, doc \in Documents, NEW o \in Styled,
         o.elem.tag \in {"PathObject", "TextObject"},
         NEW C, C = Style!Calls(o.elem, o.layer),
         \A k \in 1 .. Len(C) : Ends(doc, MaxDepth - 1, C[k].relative),
         \A a \in Style!Attrs : o.style[a] = After(doc, C, Len(C), a)
  PROVE  Precedent(doc, Style!Finished(o))
<1>1. PICK e \in Style!Element : e = o.elem
  BY DEF Styled
<1>2. PICK l \in Nat : l = o.layer
  BY DEF Styled
<1>3. /\ Style!Finished(o).elem = e /\ Style!Finished(o).layer = l
      /\ \A a \in Style!Attrs : Style!Finished(o).style[a] =
           IF e.tag = "PathObject" /\ a \in e.has \cap Style!Again THEN Style!Own ELSE o.style[a]
  BY <1>1, <1>2, FinishedTyped
<1>4. SUFFICES ASSUME NEW a \in Style!Attrs
               PROVE  Style!Finished(o).style[a] = PreferredOf(doc, Style!Finished(o), a)
  BY DEF Precedent
<1>5. /\ \A x : l \notin Params => NearestOf(doc, l, a, x) = x
      /\ \A x : e.dp \notin Params => NearestOf(doc, e.dp, a, x) = x
  BY <1>1, <1>2, NearestUnknown, ElementFacts DEF Params, ParamsOf
<1>6. \A x : Overridden(doc, Style!OfElement(e), a, x) = Style!OwnOr(e, a, x)
  BY <1>1, OverriddenByElement
<1>7. ASSUME NEW k \in 1 .. Len(C), NEW id \in Params, C[k] = Style!OfParam(id)
      PROVE  \A x : Overridden(doc, C[k], a, x) = NearestOf(doc, id, a, x)
  <2>1. /\ C[k].has = doc.drawparams[id].has /\ C[k].relative = Relative(doc, id) /\ C[k].who = Style!By(id)
        /\ Ends(doc, MaxDepth - 1, C[k].relative)
    BY <1>7, OfParamIs
  <2>2. id \in ParamsOf(doc)
    BY DEF Params, ParamsOf
  <2>3. QED
    BY <2>1, <2>2, OverriddenByParam
<1>8. o.style[a] = After(doc, C, Len(C), a)
  OBVIOUS
<1> DEFINE D == Style!Default
           P == PreferredOf(doc, Style!Finished(o), a)
           inherited == NearestOf(doc, e.dp, a, NearestOf(doc, l, a, D))
<1>9. P = IF e.tag = "TextObject"
            THEN NearestOf(doc, e.dp, a, NearestOf(doc, l, a, Style!OwnOr(e, a, D)))
          ELSE IF a \in Style!Again \/ e.dp \notin Params THEN Style!OwnOr(e, a, inherited)
          ELSE inherited
  BY <1>3 DEF PreferredOf, Params, ParamsOf
<1>10. C = Style!Calls(e, l)
  BY <1>1, <1>2
<1> HIDE DEF P, D, inherited
<1>11. CASE e.tag = "TextObject"
  <2>0. Style!Finished(o).style[a] = After(doc, C, Len(C), a)
    BY <1>3, <1>8, <1>11
  <2>1. CASE l \in Params /\ e.dp \in Params
    <3>1. Len(C) = 3 /\ C[1] = Style!OfElement(e) /\ C[2] = Style!OfParam(l) /\ C[3] = Style!OfParam(e.dp)
      BY <1>1, <1>2, <1>10, <1>11, <2>1, CallsOfText
    <3>2. /\ \A x : Overridden(doc, C[2], a, x) = NearestOf(doc, l, a, x)
          /\ \A x : Overridden(doc, C[3], a, x) = NearestOf(doc, e.dp, a, x)
      <4>0. 2 \in 1 .. Len(C) /\ 3 \in 1 .. Len(C)
        BY <3>1
      <4>1. \A x : Overridden(doc, C[2], a, x) = NearestOf(doc, l, a, x)
        BY <4>0, <3>1, <2>1, <1>7
      <4>2. \A x : Overridden(doc, C[3], a, x) = NearestOf(doc, e.dp, a, x)
        BY <4>0, <3>1, <2>1, <1>7
      <4>3. QED
        BY <4>1, <4>2
    <3>3. QED
      BY <2>0, <3>1, <3>2, <1>6, <1>9, <1>11 DEF After, D, P
  <2>2. CASE l \in Params /\ e.dp \notin Params
    <3>1. Len(C) = 2 /\ C[1] = Style!OfElement(e) /\ C[2] = Style!OfParam(l)
      BY <1>1, <1>2, <1>10, <1>11, <2>2, CallsOfText
    <3>2. \A x : Overridden(doc, C[2], a, x) = NearestOf(doc, l, a, x)
      BY <3>1, <2>2, <1>7
    <3>3. QED
      BY <2>0, <2>2, <3>1, <3>2, <1>5, <1>6, <1>9, <1>11 DEF After, D, P
  <2>3. CASE l \notin Params /\ e.dp \in Params
    <3>1. Len(C) = 2 /\ C[1] = Style!OfElement(e) /\ C[2] = Style!OfParam(e.dp)
      BY <1>1, <1>2, <1>10, <1>11, <2>3, CallsOfText
    <3>2. \A x : Overridden(doc, C[2], a, x) = NearestOf(doc, e.dp, a, x)
      BY <3>1, <2>3, <1>7
    <3>3. QED
      BY <2>0, <2>3, <3>1, <3>2, <1>5, <1>6, <1>9, <1>11 DEF After, D, P
  <2>4. CASE l \notin Params /\ e.dp \notin Params
    <3>1. Len(C) = 1 /\ C[1] = Style!OfElement(e)
      BY <1>1, <1>2, <1>10, <1>11, <2>4, CallsOfText
    <3>2. QED
      BY <2>0, <2>4, <3>1, <1>5, <1>6, <1>9, <1>11 DEF After, D, P
  <2>5. QED
    BY <2>1, <2>2, <2>3, <2>4 DEF P
<1>12. CASE e.tag = "PathObject"
  <2>0. Style!Finished(o).style[a] =
          IF a \in e.has /\ a \in Style!Again THEN Style!Own ELSE After(doc, C, Len(C), a)
    BY <1>3, <1>8, <1>12
  <2>a. P = IF a \in Style!Again \/ e.dp \notin Params
              THEN (IF a \in e.has THEN Style!Own ELSE inherited) ELSE inherited
    BY <1>9, <1>12 DEF Style!OwnOr
  <2>b. e.tag # "TextObject"
    BY <1>12
  <2>1. CASE l \in Params /\ e.dp \in Params
    <3>1. Len(C) = 2 /\ C[1] = Style!OfParam(l) /\ C[2] = Style!OfParam(e.dp)
      BY <1>1, <1>2, <1>10, <2>b, <2>1, CallsOfPath
    <3>2. /\ \A x : Overridden(doc, C[1], a, x) = NearestOf(doc, l, a, x)
          /\ \A x : Overridden(doc, C[2], a, x) = NearestOf(doc, e.dp, a, x)
      <4>0. 1 \in 1 .. Len(C) /\ 2 \in 1 .. Len(C)
        BY <3>1
      <4>1. \A x : Overridden(doc, C[1], a, x) = NearestOf(doc, l, a, x)
        BY <4>0, <3>1, <2>1, <1>7
      <4>2. \A x : Overridden(doc, C[2], a, x) = NearestOf(doc, e.dp, a, x)
        BY <4>0, <3>1, <2>1, <1>7
      <4>3. QED
        BY <4>1, <4>2
    <3>3. After(doc, C, Len(C), a) = inherited
      BY <3>1, <3>2 DEF After, D, inherited
    <3>4. QED
      BY <2>0, <2>a, <2>1, <3>3 DEF P
  <2>2. CASE l \in Params /\ e.dp \notin Params
    <3>1. Len(C) = 2 /\ C[1] = Style!OfParam(l) /\ C[2] = Style!OfElement(e)
      BY <1>1, <1>2, <1>10, <2>b, <2>2, CallsOfPath
    <3>2. \A x : Overridden(doc, C[1], a, x) = NearestOf(doc, l, a, x)
      BY <3>1, <2>2, <1>7
    <3>3. After(doc, C, Len(C), a) = IF a \in e.has THEN Style!Own ELSE inherited
      BY <2>2, <3>1, <3>2, <1>5, <1>6 DEF After, D, inherited, Style!OwnOr
    <3>4. QED
      BY <2>0, <2>a, <2>2, <3>3 DEF P
  <2>3. CASE l \notin Params /\ e.dp \in Params
    <3>1. Len(C) = 1 /\ C[1] = Style!OfParam(e.dp)
      BY <1>1, <1>2, <1>10, <2>b, <2>3, CallsOfPath
    <3>2. \A x : Overridden(doc, C[1], a, x) = NearestOf(doc, e.dp, a, x)
      BY <3>1, <2>3, <1>7
    <3>3. After(doc, C, Len(C), a) = inherited
      BY <2>3, <3>1, <3>2, <1>5 DEF After, D, inherited
    <3>4. QED
      BY <2>0, <2>a, <2>3, <3>3 DEF P
  <2>4. CASE l \notin Params /\ e.dp \notin Params
    <3>1. Len(C) = 1 /\ C[1] = Style!OfElement(e)
      BY <1>1, <1>2, <1>10, <2>b, <2>4, CallsOfPath
    <3>3. After(doc, C, Len(C), a) = IF a \in e.has THEN Style!Own ELSE inherited
      BY <2>4, <3>1, <1>5, <1>6 DEF After, D, inherited, Style!OwnOr
    <3>4. QED
      BY <2>0, <2>a, <2>4, <3>3 DEF P
  <2>5. QED
    BY <2>1, <2>2, <2>3, <2>4 DEF P
<1>13. QED
  BY <1>1, <1>11, <1>12

-----------------------------------------------------------------------------
(* The calls of ParseDrawParam of an object of a document.                 *)
ParamCall(d, id) ==
  [tag |-> "DrawParam", has |-> d.drawparams[id].has,
   relative |-> d.drawparams[id].relative, who |-> Style!By(id), down |-> FALSE]
IfKnownOf(d, id) == IF id \in ParamsOf(d) THEN <<ParamCall(d, id)>> ELSE <<>>
CallsOf(d, e, layer) ==
  IF e.tag = "TextObject"
    THEN <<Style!OfElement(e)>> \o IfKnownOf(d, layer) \o IfKnownOf(d, e.dp)
    ELSE IfKnownOf(d, layer) \o (IF e.dp \in ParamsOf(d) THEN IfKnownOf(d, e.dp) ELSE <<Style!OfElement(e)>>)

LEMMA CallsIs ==
  /\ \A e, layer : Style!Calls(e, layer) = CallsOf(doc, e, layer)
  /\ \A id : Style!OfParam(id) = ParamCall(doc, id)
<1>1. \A id : Style!OfParam(id) = ParamCall(doc, id)
  BY DEF Style!OfParam, ParamCall
<1>2. \A id : Style!IfKnown(id) = IfKnownOf(doc, id) /\ (Style!Known(id) <=> id \in ParamsOf(doc))
  BY <1>1 DEF Style!IfKnown, Style!Known, IfKnownOf, ParamsOf
<1>3. QED
  BY <1>1, <1>2 DEF Style!Calls, CallsOf

LEMMA ParamCallFacts ==
  ASSUME NEW d, NEW id
  PROVE  /\ ParamCall(d, id).has = d.drawparams[id].has /\ ParamCall(d, id).who = Style!By(id)
         /\ ParamCall(d, id).relative = Relative(d, id) /\ ~ParamCall(d, id).down
  BY DEF ParamCall, Relative

SameCall(c, e) == c.has = e.has /\ c.who = e.who /\ c.relative = e.relative

(* The calls that are left are those behind the first n.                   *)
CallsLeft(cs, C, n) == Len(cs) = Len(C) - n /\ \A k \in 1 .. Len(cs) : cs[k] = C[n + k]
Ended(d, C, n) == \A k \in 1 .. n : Ends(d, MaxDepth - 1, C[k].relative)
StyleIs(d, o, C, n) == \A a \in Style!Attrs : o.style[a] = After(d, C, n, a)

(* Between two calls of an object.                                         *)
Settled(d, o, cs, C) ==
  \E n \in 0 .. Len(C) : CallsLeft(cs, C, n) /\ Ended(d, C, n) /\ StyleIs(d, o, C, n)

(* The calls under way: each but the last waits for the one it is relative *)
(* to.                                                                     *)
Linked(d, dr) ==
  \A k \in 1 .. Len(dr) - 1 :
    /\ dr[k].down /\ dr[k].relative \in ParamsOf(d)
    /\ SameCall(dr[k + 1], ParamCall(d, dr[k].relative))

(* What the last one finds, before and after that one is through.          *)
Found(d, o, C, n, dr) ==
  LET c == dr[Len(dr)]
  IN  IF c.down
        THEN /\ Ends(d, MaxDepth - (Len(dr) + 1), c.relative)
             /\ \A a \in Style!Attrs : o.style[a] = NearestOf(d, c.relative, a, After(d, C, n, a))
        ELSE StyleIs(d, o, C, n)

(* In a call.                                                              *)
Calling(d, o, cs, C, dr) ==
  \E n \in 0 .. Len(C) - 1 :
    /\ CallsLeft(cs, C, n + 1) /\ Ended(d, C, n) /\ SameCall(dr[1], C[n + 1])
    /\ Linked(d, dr) /\ Found(d, o, C, n, dr)

LEMMA CallMade ==
  ASSUME NEW d, NEW o, NEW C \in Seq(DrawCall), NEW cs \in Seq(DrawCall), cs # <<>>,
         \A k \in 1 .. Len(C) : ~C[k].down, Settled(d, o, cs, C),
         NEW dr, Len(dr) = 1, dr[1] = Head(cs)
  PROVE  Calling(d, o, Tail(cs), C, dr)
<1>1. PICK n \in 0 .. Len(C) : CallsLeft(cs, C, n) /\ Ended(d, C, n) /\ StyleIs(d, o, C, n)
  BY DEF Settled
<1>2. /\ Len(cs) \in Nat \ {0} /\ Head(cs) = cs[1] /\ Len(Tail(cs)) = Len(cs) - 1 /\ Len(C) \in Nat
      /\ \A k \in 1 .. Len(cs) - 1 : Tail(cs)[k] = cs[k + 1]
  OBVIOUS
<1>3. Len(cs) = Len(C) - n /\ \A k \in 1 .. Len(cs) : cs[k] = C[n + k]
  BY <1>1 DEF CallsLeft
<1>4. n \in 0 .. Len(C) - 1 /\ n \in Nat
  BY <1>2, <1>3
<1>5. CallsLeft(Tail(cs), C, n + 1)
  <2>1. Len(Tail(cs)) = Len(C) - (n + 1)
    BY <1>2, <1>3, <1>4
  <2>2. ASSUME NEW k \in 1 .. Len(cs) - 1 PROVE Tail(cs)[k] = C[(n + 1) + k]
    <3>1. k + 1 \in 1 .. Len(cs) /\ n + (k + 1) = (n + 1) + k
      BY <1>2, <1>4
    <3>2. cs[k + 1] = C[n + (k + 1)]
      BY <3>1, <1>3
    <3>3. QED
      BY <3>1, <3>2, <1>2
  <2>3. QED
    BY <2>1, <2>2, <1>2 DEF CallsLeft
<1>6. dr[1] = C[n + 1] /\ n + 1 \in 1 .. Len(C)
  BY <1>2, <1>3, <1>4
<1>7. SameCall(dr[1], C[n + 1]) /\ ~dr[1].down
  BY <1>6 DEF SameCall
<1>8. Linked(d, dr)
  BY DEF Linked
<1>9. Found(d, o, C, n, dr)
  BY <1>1, <1>7 DEF Found
<1>10. QED
  BY <1>1, <1>4, <1>5, <1>7, <1>8, <1>9 DEF Calling

LEMMA CallDeeper ==
  ASSUME NEW d, NEW o, NEW C, NEW cs, NEW dr \in Seq(DrawCall), dr # <<>>, Calling(d, o, cs, C, dr),
         ~dr[Len(dr)].down, dr[Len(dr)].relative \in ParamsOf(d),
         NEW new, Len(new) = Len(dr) + 1, \A k \in 1 .. Len(dr) - 1 : new[k] = dr[k],
         SameCall(new[Len(dr)], dr[Len(dr)]), new[Len(dr)].down,
         new[Len(dr) + 1] = ParamCall(d, dr[Len(dr)].relative)
  PROVE  Calling(d, o, cs, C, new)
<1>1. PICK n \in 0 .. Len(C) - 1 :
        /\ CallsLeft(cs, C, n + 1) /\ Ended(d, C, n) /\ SameCall(dr[1], C[n + 1])
        /\ Linked(d, dr) /\ Found(d, o, C, n, dr)
  BY DEF Calling
<1>2. PICK m \in Nat : m = Len(dr) /\ m # 0
  OBVIOUS
<1>3. StyleIs(d, o, C, n)
  BY <1>1 DEF Found
<1>4. Found(d, o, C, n, new)
  <2>1. ~new[Len(new)].down
    BY ParamCallFacts
  <2>2. QED
    BY <2>1, <1>3 DEF Found
<1>5. SameCall(new[1], C[n + 1])
  <2>1. CASE m = 1
    BY <2>1, <1>1, <1>2 DEF SameCall
  <2>2. CASE m # 1
    <3>1. 1 \in 1 .. Len(dr) - 1
      BY <2>2, <1>2
    <3>2. QED
      BY <3>1, <1>1
  <2>3. QED
    BY <2>1, <2>2
<1>6. Linked(d, new)
  <2>1. SUFFICES ASSUME NEW k \in 1 .. Len(new) - 1
                 PROVE  /\ new[k].down /\ new[k].relative \in ParamsOf(d)
                        /\ SameCall(new[k + 1], ParamCall(d, new[k].relative))
    BY DEF Linked
  <2>2. CASE k = m
    <3>1. new[k].relative = dr[Len(dr)].relative /\ new[k].down
      BY <2>2, <1>2 DEF SameCall
    <3>2. new[k + 1] = ParamCall(d, dr[Len(dr)].relative)
      BY <2>2, <1>2
    <3>3. QED
      BY <3>1, <3>2 DEF SameCall
  <2>3. CASE k # m
    <3>1. k \in 1 .. Len(dr) - 1 /\ k \in Nat
      BY <2>1, <2>3, <1>2
    <3>2. dr[k].down /\ dr[k].relative \in ParamsOf(d) /\ SameCall(dr[k + 1], ParamCall(d, dr[k].relative))
      BY <3>1, <1>1 DEF Linked
    <3>3. new[k] = dr[k]
      BY <3>1
    <3>4. SameCall(new[k + 1], dr[k + 1])
      <4>1. CASE k + 1 = m
        BY <4>1, <1>2
      <4>2. CASE k + 1 # m
        <5>1. k + 1 \in 1 .. Len(dr) - 1
          BY <4>2, <3>1, <1>2
        <5>2. QED
          BY <5>1 DEF SameCall
      <4>3. QED
        BY <4>1, <4>2
    <3>5. QED
      BY <3>2, <3>3, <3>4 DEF SameCall
  <2>4. QED
    BY <2>2, <2>3
<1>7. QED
  BY <1>1, <1>4, <1>5, <1>6 DEF Calling

OverriddenBy(after, o, c) ==
  \A a \in Style!Attrs : after.style[a] = IF a \in c.has THEN c.who ELSE o.style[a]
OneLess(new, dr) == Len(new) = Len(dr) - 1 /\ \A k \in 1 .. Len(dr) - 1 : new[k] = dr[k]

(* The rest of ParseDrawParam: what the last call has found and its own    *)
(* attributes make what its caller finds.                                  *)
LEMMA CallThrough ==
  ASSUME Style!StyleAssumption, NEW d \in Documents, NEW C \in Seq(DrawCall), Len(C) \in 0 .. 3,
         NEW cs, NEW o, NEW after, NEW dr \in Seq(DrawCall), dr # <<>>, Len(dr) + 1 <= MaxDepth,
         Calling(d, o, cs, C, dr), NEW c, c = dr[Len(dr)], c.down \/ c.relative \notin ParamsOf(d),
         OverriddenBy(after, o, c), NEW new \in Seq(DrawCall), OneLess(new, dr)
  PROVE  /\ new = <<>> => Settled(d, after, cs, C)
         /\ new # <<>> => Calling(d, after, cs, C, new)
<1>0. /\ \A a \in Style!Attrs : after.style[a] = IF a \in c.has THEN c.who ELSE o.style[a]
      /\ Len(new) = Len(dr) - 1 /\ \A k \in 1 .. Len(dr) - 1 : new[k] = dr[k]
  BY DEF OverriddenBy, OneLess
<1>1. PICK n \in 0 .. Len(C) - 1 :
        /\ CallsLeft(cs, C, n + 1) /\ Ended(d, C, n) /\ SameCall(dr[1], C[n + 1])
        /\ Linked(d, dr) /\ Found(d, o, C, n, dr)
  BY DEF Calling
<1>2. PICK m \in Nat : m = Len(dr) /\ m # 0
  OBVIOUS
<1>3. MaxDepth \in Nat /\ m + 1 <= MaxDepth /\ c \in DrawCall /\ c.relative \in Nat
  <2>1. c \in DrawCall
    BY <1>2
  <2>2. QED
    BY <1>2, <2>1, DocumentFacts DEF DrawCall
<1>4. PICK q \in Nat : q = MaxDepth - (m + 1)
  BY <1>3
<1>5. Ends(d, q, c.relative)
  <2>1. CASE c.down
    BY <2>1, <1>1, <1>2, <1>4 DEF Found
  <2>2. CASE c.relative \notin ParamsOf(d)
    BY <2>2, <1>3, EndsUnknown
  <2>3. QED
    BY <2>1, <2>2
<1>6. Ends(d, MaxDepth - 1, c.relative)
  <2>1. PICK w \in Nat : w = MaxDepth - 1 /\ q <= w
    BY <1>2, <1>3, <1>4
  <2>2. Ends(d, w, c.relative)
    BY <2>1, <1>5, EndsLater
  <2>3. QED
    BY <2>1, <2>2
<1>7. ASSUME NEW a \in Style!Attrs
      PROVE  after.style[a] = Overridden(d, c, a, After(d, C, n, a))
  <2>1. CASE c.down
    <3>1. o.style[a] = NearestOf(d, c.relative, a, After(d, C, n, a))
      BY <2>1, <1>1 DEF Found
    <3>2. QED
      BY <3>1, <1>0 DEF Overridden
  <2>2. CASE ~c.down
    <3>1. o.style[a] = After(d, C, n, a)
      BY <2>2, <1>1 DEF Found, StyleIs
    <3>2. NearestOf(d, c.relative, a, After(d, C, n, a)) = After(d, C, n, a)
      BY <2>2, <1>3, NearestUnknown
    <3>3. QED
      BY <3>1, <3>2, <1>0 DEF Overridden
  <2>3. QED
    BY <2>1, <2>2
<1>8. n \in 0 .. 2 /\ n \in Nat /\ Len(C) \in Nat /\ n + 1 \in 0 .. Len(C)
  <2>1. \A x \in 0 .. 3 : \A y \in 0 .. x - 1 : y \in 0 .. 2 /\ y \in Nat /\ x \in Nat /\ y + 1 \in 0 .. x
    OBVIOUS
  <2>2. n \in 0 .. Len(C) - 1
    BY <1>1
  <2>3. QED
    BY <2>1, <2>2
<1>9. CASE m = 1
  <2>1. new = <<>>
    BY <1>0, <1>2, <1>9
  <2>2. SameCall(c, C[n + 1])
    BY <1>1, <1>2, <1>9
  <2>3. Ended(d, C, n + 1)
    <3>1. SUFFICES ASSUME NEW k \in 1 .. n + 1 PROVE Ends(d, MaxDepth - 1, C[k].relative)
      BY DEF Ended
    <3>2. CASE k = n + 1
      BY <3>2, <2>2, <1>6 DEF SameCall
    <3>3. CASE k # n + 1
      <4>1. k \in 1 .. n
        BY <3>3, <1>8
      <4>2. QED
        BY <4>1, <1>1 DEF Ended
    <3>4. QED
      BY <3>2, <3>3
  <2>4. StyleIs(d, after, C, n + 1)
    <3>1. SUFFICES ASSUME NEW a \in Style!Attrs PROVE after.style[a] = After(d, C, n + 1, a)
      BY DEF StyleIs
    <3>2. After(d, C, n + 1, a) = Overridden(d, C[n + 1], a, After(d, C, n, a))
      BY <1>8, AfterStep
    <3>3. QED
      BY <3>2, <1>7, <2>2 DEF SameCall, Overridden
  <2>5. QED
    BY <2>1, <2>3, <2>4, <1>1, <1>8 DEF Settled
<1>10. CASE m # 1
  <2>1. PICK p \in Nat : p = m - 1 /\ p # 0
    BY <1>2, <1>10
  <2>2. Len(new) = p /\ p \in 1 .. Len(dr) - 1 /\ p + 1 = Len(dr) /\ new # <<>>
    BY <2>1, <1>0, <1>2
  <2>3. new[p] = dr[p] /\ new[1] = dr[1]
    BY <2>1, <2>2, <1>0
  <2>4. /\ dr[p].down /\ dr[p].relative \in ParamsOf(d)
        /\ SameCall(c, ParamCall(d, dr[p].relative))
    <3>1. dr[p].down /\ dr[p].relative \in ParamsOf(d) /\ SameCall(dr[p + 1], ParamCall(d, dr[p].relative))
      BY <1>1, <2>2 DEF Linked
    <3>2. QED
      BY <3>1, <2>2
  <2>5. PICK id \in ParamsOf(d) : id = dr[p].relative
    BY <2>4
  <2>6. c.has = d.drawparams[id].has /\ c.who = Style!By(id) /\ c.relative = Relative(d, id)
    BY <2>4, <2>5, ParamCallFacts DEF SameCall
  <2>7. Ends(d, MaxDepth - (p + 1), id)
    <3>1. Ends(d, q, Relative(d, id))
      BY <1>5, <2>6
    <3>2. Ends(d, q + 1, id)
      BY <3>1, EndsStep
    <3>3. q + 1 = MaxDepth - (p + 1)
      BY <1>2, <1>3, <1>4, <2>1
    <3>4. QED
      BY <3>2, <3>3
  <2>8. ASSUME NEW a \in Style!Attrs
        PROVE  after.style[a] = NearestOf(d, id, a, After(d, C, n, a))
    <3>1. Overridden(d, c, a, After(d, C, n, a)) = NearestOf(d, id, a, After(d, C, n, a))
      BY <2>6, <1>6, OverriddenByParam
    <3>2. QED
      BY <3>1, <1>7
  <2>9. Found(d, after, C, n, new)
    <3>1. new[Len(new)] = dr[p] /\ dr[p].down /\ dr[p].relative = id
      BY <2>2, <2>3, <2>4, <2>5
    <3>2. Ends(d, MaxDepth - (Len(new) + 1), id)
      BY <2>2, <2>7
    <3>3. QED
      BY <3>1, <3>2, <2>8 DEF Found
  <2>10. Linked(d, new)
    <3>1. SUFFICES ASSUME NEW k \in 1 .. Len(new) - 1
                   PROVE  /\ new[k].down /\ new[k].relative \in ParamsOf(d)
                          /\ SameCall(new[k + 1], ParamCall(d, new[k].relative))
      BY DEF Linked
    <3>2. k \in 1 .. Len(dr) - 1 /\ k + 1 \in 1 .. Len(dr) - 1
      BY <2>1, <2>2, <1>2
    <3>3. new[k] = dr[k] /\ new[k + 1] = dr[k + 1]
      BY <3>2, <1>0
    <3>4. QED
      BY <3>2, <3>3, <1>1 DEF Linked
  <2>11. QED
    BY <2>2, <2>3, <2>9, <2>10, <1>1 DEF Calling
<1>11. QED
  BY <1>9, <1>10

UnderWay(d, o, cs, dr, C) ==
  /\ o.elem.tag \in {"PathObject", "TextObject"}
  /\ dr = <<>> => Settled(d, o, cs, C)
  /\ dr # <<>> => Calling(d, o, cs, C, dr)

AllPrecedent(d, out) == \A k \in 1 .. Len(out) : Precedent(d, out[k])

(* What is parsed has its style by precedence, and so will the object      *)
(* under way.                                                              *)
StyleInv ==
  /\ Len(frames) + Len(draw) <= MaxDepth
  /\ AllPrecedent(doc, page)
  /\ \A k \in 1 .. Len(frames) : AllPrecedent(doc, frames[k].out)
  /\ obj # Style!NoObject => UnderWay(doc, obj, calls, draw, CallsOf(doc, obj.elem, obj.layer))

LEMMA PrecedentMore ==
  ASSUME NEW d, NEW s \in Seq(Styled), NEW o \in Styled, AllPrecedent(d, s), Precedent(d, o)
  PROVE  AllPrecedent(d, Append(s, o))
<1>1. SUFFICES ASSUME NEW k \in 1 .. Len(Append(s, o)) PROVE Precedent(d, Append(s, o)[k])
  BY DEF AllPrecedent
<1>2. CASE k = Len(s) + 1
  BY <1>2
<1>3. CASE k # Len(s) + 1
  <2>1. k \in 1 .. Len(s) /\ Append(s, o)[k] = s[k]
    BY <1>3
  <2>2. QED
    BY <2>1 DEF AllPrecedent
<1>4. QED
  BY <1>2, <1>3

LEMMA PrecedentNone ==
  ASSUME NEW d PROVE AllPrecedent(d, <<>>)
  BY DEF AllPrecedent

(* Frames whose top is given up for another.                               *)
LEMMA StyleTop ==
  ASSUME StyleTyped, StyleInv, state = "busy", doc' = doc, page' = page, draw' = draw,
         NEW f \in Frame, frames' = [frames EXCEPT ![Len(frames)] = f], AllPrecedent(doc, f.out)
  PROVE  /\ Len(frames') + Len(draw') <= MaxDepth /\ AllPrecedent(doc', page')
         /\ \A k \in 1 .. Len(frames') : AllPrecedent(doc', frames'[k].out)
<1>1. /\ Len(frames') = Len(frames) /\ frames'[Len(frames)] = f
      /\ \A k \in 1 .. Len(frames) : k # Len(frames) => frames'[k] = frames[k]
  BY TopReplaced
<1>2. ASSUME NEW k \in 1 .. Len(frames') PROVE AllPrecedent(doc', frames'[k].out)
  <2>1. CASE k = Len(frames)
    BY <2>1, <1>1
  <2>2. CASE k # Len(frames)
    <3>1. k \in 1 .. Len(frames) /\ frames'[k] = frames[k]
      BY <2>2, <1>1
    <3>2. QED
      BY <3>1 DEF StyleInv
  <2>3. QED
    BY <2>1, <2>2
<1>3. QED
  BY <1>1, <1>2 DEF StyleInv

LEMMA TopPrecedent ==
  ASSUME StyleTyped, StyleInv, state = "busy"
  PROVE  AllPrecedent(doc, Style!Top.out)
<1>1. Len(frames) \in 1 .. Len(frames) /\ Style!Top = frames[Len(frames)]
  <2>1. Len(frames) \in Nat \ {0} /\ Style!Top = frames[Len(frames)]
    BY TopFacts
  <2>2. \A n \in Nat \ {0} : n \in 1 .. n
    OBVIOUS
  <2>3. QED
    BY <2>1, <2>2
<1>2. QED
  BY <1>1 DEF StyleInv

LEMMA StyleParseOther ==
  ASSUME Style!StyleAssumption, StyleTyped, StyleInv, Style!ParseOther
  PROVE  StyleInv'
<1>0. PICK e : e = Head(Style!Top.rest)
  OBVIOUS
<1>1. /\ state = "busy" /\ obj = Style!NoObject /\ Style!Top.rest # <<>>
      /\ frames' = [frames EXCEPT ![Len(frames)] = OtherFrame(e)]
      /\ doc' = doc /\ obj' = obj /\ calls' = calls /\ draw' = draw /\ page' = page /\ state' = state
  BY <1>0 DEF Style!ParseOther, Style!Between, OtherFrame
<1>2. /\ OtherFrame(e) \in Frame
      /\ OtherFrame(e).out = IF e.shown /\ e.tag = "ImageObject"
                             THEN Append(Style!Top.out, Style!NewObject(e, Style!Top.layer))
                             ELSE Style!Top.out
  BY <1>0, <1>1, OtherFrameFacts
<1>3. AllPrecedent(doc, OtherFrame(e).out)
  <2>1. CASE e.shown /\ e.tag = "ImageObject"
    <3>1. e \in Style!Element /\ Style!Top.layer \in Nat /\ Style!Top.out \in Seq(Styled)
      BY <1>0, <1>1, TopFacts
    <3>2. Style!NewObject(e, Style!Top.layer) \in Styled
      BY <3>1, NewObjectTyped
    <3>3. Precedent(doc, Style!NewObject(e, Style!Top.layer))
      BY <2>1 DEF Precedent, Style!NewObject
    <3>4. QED
      BY <1>1, <1>2, <2>1, <3>1, <3>2, <3>3, TopPrecedent, PrecedentMore
  <2>2. CASE ~(e.shown /\ e.tag = "ImageObject")
    BY <1>1, <1>2, <2>2, TopPrecedent
  <2>3. QED
    BY <2>1, <2>2
<1>4. /\ Len(frames') + Len(draw') <= MaxDepth /\ AllPrecedent(doc', page')
      /\ \A k \in 1 .. Len(frames') : AllPrecedent(doc', frames'[k].out)
  BY <1>1, <1>2, <1>3, StyleTop
<1>5. QED
  BY <1>1, <1>4 DEF StyleInv

LEMMA StyleParseObject ==
  ASSUME Style!StyleAssumption, StyleTyped, StyleInv, Style!ParseObject
  PROVE  StyleInv'
<1> DEFINE f == [Style!Top EXCEPT !.rest = Tail(@)]
<1>0. PICK e : e = Head(Style!Top.rest)
  OBVIOUS
<1>1. /\ state = "busy" /\ obj = Style!NoObject /\ Style!Top.rest # <<>>
      /\ e.tag \in {"PathObject", "TextObject"}
      /\ obj' = Style!NewObject(e, Style!Top.layer) /\ calls' = Style!Calls(e, Style!Top.layer)
      /\ frames' = [frames EXCEPT ![Len(frames)] = f]
      /\ doc' = doc /\ draw' = draw /\ page' = page /\ state' = state
  BY <1>0 DEF Style!ParseObject, Style!Between, Style!Top
<1>2. /\ e \in Style!Element /\ Style!Top.layer \in Nat /\ f \in Frame /\ f.out = Style!Top.out
  BY <1>0, <1>1, TopFacts DEF Frame
<1> HIDE DEF f
<1>3. AllPrecedent(doc, f.out)
  BY <1>1, <1>2, TopPrecedent
<1>4. /\ Len(frames') + Len(draw') <= MaxDepth /\ AllPrecedent(doc', page')
      /\ \A k \in 1 .. Len(frames') : AllPrecedent(doc', frames'[k].out)
  BY <1>1, <1>2, <1>3, StyleTop
<1>5. PICK l \in Nat : l = Style!Top.layer
  BY <1>2
<1>6. PICK C : C = CallsOf(doc, e, l)
  OBVIOUS
<1>7. doc \in Documents /\ draw = <<>>
  BY <1>1 DEF StyleTyped
<1>8. calls' = C /\ Len(C) \in Nat
  BY <1>1, <1>2, <1>5, <1>6, <1>7, CallsIs, CallsTyped
<1>9. /\ obj'.elem = e /\ obj'.layer = l /\ \A a \in Style!Attrs : obj'.style[a] = Style!Default
  BY <1>1, <1>5 DEF Style!NewObject, Style!Plain
<1>10. Settled(doc, obj', C, C)
  <2>1. CallsLeft(C, C, 0)
    BY <1>8 DEF CallsLeft
  <2>2. Ended(doc, C, 0)
    BY DEF Ended
  <2>3. StyleIs(doc, obj', C, 0)
    BY <1>9 DEF StyleIs, After
  <2>4. QED
    BY <1>8, <2>1, <2>2, <2>3 DEF Settled
<1>11. UnderWay(doc, obj', C, <<>>, C)
  BY <1>1, <1>9, <1>10 DEF UnderWay
<1>12. UnderWay(doc', obj', calls', draw', CallsOf(doc', obj'.elem, obj'.layer))
  BY <1>1, <1>6, <1>7, <1>8, <1>9, <1>11
<1>13. QED
  BY <1>4, <1>12 DEF StyleInv

LEMMA StyleOverflow ==
  ASSUME Style!StyleAssumption, StyleInv, Style!Overflow
  PROVE  StyleInv'
<1>1. /\ frames' = <<>> /\ obj' = Style!NoObject /\ draw' = <<>> /\ doc' = doc /\ page' = page
  BY DEF Style!Overflow
<1>2. Len(frames') + Len(draw') <= MaxDepth
  BY <1>1 DEF Style!StyleAssumption
<1>3. QED
  BY <1>1, <1>2 DEF StyleInv

LEMMA StyleCallDrawParam ==
  ASSUME Style!StyleAssumption, StyleTyped, StyleInv, Style!CallDrawParam
  PROVE  StyleInv'
<1>0. /\ obj # Style!NoObject /\ draw = <<>> /\ calls # <<>>
      /\ doc \in Documents /\ obj \in Styled /\ calls \in Seq(DrawCall) /\ Len(frames) \in Nat
  BY DEF Style!CallDrawParam, StyleTyped
<1>1. CASE Style!Depth >= MaxDepth
  <2>1. Style!Overflow
    BY <1>1 DEF Style!CallDrawParam
  <2>2. QED
    BY <2>1, StyleOverflow
<1>2. CASE ~(Style!Depth >= MaxDepth)
  <2>1. /\ draw' = <<Head(calls)>> /\ calls' = Tail(calls)
        /\ doc' = doc /\ frames' = frames /\ obj' = obj /\ page' = page
    BY <1>2 DEF Style!CallDrawParam
  <2>2. Len(frames) + 1 <= MaxDepth
    BY <1>0, <1>2, DocFacts DEF Style!Depth
  <2>3. PICK C : C = CallsOf(doc, obj.elem, obj.layer)
    OBVIOUS
  <2>4. C \in Seq(DrawCall) /\ \A k \in 1 .. Len(C) : ~C[k].down
    <3>1. obj.elem \in Style!Element /\ obj.layer \in Nat /\ C = Style!Calls(obj.elem, obj.layer)
      BY <1>0, <2>3, CallsIs DEF Styled
    <3>2. QED
      BY <3>1, <1>0, CallsAre
  <2>5. UnderWay(doc, obj, calls, draw, C)
    BY <1>0, <2>3 DEF StyleInv
  <2>6. Len(draw') = 1 /\ draw'[1] = Head(calls) /\ draw' # <<>>
    BY <2>1
  <2>7. Calling(doc, obj, Tail(calls), C, draw')
    <3>1. Settled(doc, obj, calls, C)
      BY <1>0, <2>5 DEF UnderWay
    <3>2. QED
      BY <3>1, <1>0, <2>4, <2>6, CallMade
  <2>8. UnderWay(doc, obj, Tail(calls), draw', C)
    BY <2>5, <2>6, <2>7 DEF UnderWay
  <2>9. UnderWay(doc', obj', calls', draw', CallsOf(doc', obj'.elem, obj'.layer))
    BY <2>1, <2>3, <2>8
  <2>10. QED
    BY <2>1, <2>2, <2>6, <2>9 DEF StyleInv
<1>3. QED
  BY <1>1, <1>2

LEMMA StyleRecurse ==
  ASSUME Style!StyleAssumption, StyleTyped, StyleInv, Style!Recurse
  PROVE  StyleInv'
<1>0. /\ draw # <<>> /\ ~draw[Len(draw)].down /\ Style!Known(draw[Len(draw)].relative)
      /\ doc \in Documents /\ draw \in Seq(DrawCall) /\ obj # Style!NoObject /\ obj \in Styled
      /\ Len(frames) \in Nat
  BY DEF Style!Recurse, StyleTyped
<1>1. CASE Style!Depth >= MaxDepth
  <2>1. Style!Overflow
    BY <1>1 DEF Style!Recurse
  <2>2. QED
    BY <2>1, StyleOverflow
<1>2. CASE ~(Style!Depth >= MaxDepth)
  <2>1. /\ draw' = Append([draw EXCEPT ![Len(draw)].down = TRUE], Style!OfParam(draw[Len(draw)].relative))
        /\ doc' = doc /\ frames' = frames /\ obj' = obj /\ page' = page /\ calls' = calls
    BY <1>2 DEF Style!Recurse
  <2>2. PICK m \in Nat : m = Len(draw) /\ m # 0
    BY <1>0
  <2>3. PICK c \in DrawCall : c = draw[m]
    BY <1>0, <2>2
  <2>4. PICK c2 : c2 = [c EXCEPT !.down = TRUE]
    OBVIOUS
  <2>5. c2 \in DrawCall /\ c2.down /\ SameCall(c2, c)
    BY <2>3, <2>4 DEF DrawCall, SameCall
  <2>6. PICK old : old = [draw EXCEPT ![m] = c2]
    OBVIOUS
  <2>7. /\ old \in Seq(DrawCall) /\ Len(old) = m /\ old[m] = c2
        /\ \A k \in 1 .. m : k # m => old[k] = draw[k]
    BY <1>0, <2>2, <2>5, <2>6
  <2>8. PICK p : p = Style!OfParam(c.relative)
    OBVIOUS
  <2>9. draw' = Append(old, p)
    BY <2>1, <2>2, <2>3, <2>4, <2>6, <2>8
  <2>10. /\ Len(draw') = m + 1 /\ draw'[m + 1] = p /\ draw' # <<>>
         /\ \A k \in 1 .. m : draw'[k] = old[k]
    BY <2>2, <2>7, <2>9
  <2>11. PICK C : C = CallsOf(doc, obj.elem, obj.layer)
    OBVIOUS
  <2>12. UnderWay(doc, obj, calls, draw, C)
    BY <1>0, <2>11 DEF StyleInv
  <2>13. Calling(doc, obj, calls, C, draw')
    <3>1. Calling(doc, obj, calls, C, draw)
      BY <1>0, <2>12 DEF UnderWay
    <3>2. draw[Len(draw)].relative \in ParamsOf(doc)
      BY <1>0 DEF Style!Known, ParamsOf
    <3>3. draw'[Len(draw) + 1] = ParamCall(doc, draw[Len(draw)].relative)
      BY <2>2, <2>3, <2>8, <2>10, CallsIs
    <3>4. /\ Len(draw') = Len(draw) + 1 /\ SameCall(draw'[Len(draw)], draw[Len(draw)])
          /\ draw'[Len(draw)].down
      <4>1. m \in 1 .. m
        BY <2>2
      <4>2. draw'[m] = c2
        BY <4>1, <2>7, <2>10
      <4>3. QED
        BY <4>2, <2>2, <2>3, <2>5, <2>10
    <3>5. \A k \in 1 .. Len(draw) - 1 : draw'[k] = draw[k]
      BY <2>2, <2>7, <2>10
    <3>6. QED
      BY <1>0, <3>1, <3>2, <3>3, <3>4, <3>5, CallDeeper
  <2>14. UnderWay(doc, obj, calls, draw', C)
    BY <2>10, <2>12, <2>13 DEF UnderWay
  <2>15. UnderWay(doc', obj', calls', draw', CallsOf(doc', obj'.elem, obj'.layer))
    BY <2>1, <2>11, <2>14
  <2>16. Len(frames) + (m + 1) <= MaxDepth
    BY <1>0, <1>2, <2>2, DocFacts DEF Style!Depth
  <2>17. QED
    BY <2>1, <2>10, <2>15, <2>16 DEF StyleInv
<1>3. QED
  BY <1>1, <1>2

LEMMA StyleApply ==
  ASSUME Style!StyleAssumption, StyleTyped, StyleInv, Style!Apply
  PROVE  StyleInv'
<1>0. /\ draw # <<>> /\ obj' = Style!Applied(obj, draw[Len(draw)]) /\ draw' = Style!Popped(draw)
      /\ draw[Len(draw)].down \/ ~Style!Known(draw[Len(draw)].relative)
      /\ doc' = doc /\ frames' = frames /\ calls' = calls /\ page' = page /\ state' = state
  BY DEF Style!Apply
<1>1. /\ obj \in Styled /\ obj # Style!NoObject /\ draw \in Seq(DrawCall) /\ doc \in Documents
      /\ Len(frames) \in Nat \ {0} /\ Len(draw) \in Nat
  <2>1. obj \in Styled /\ obj # Style!NoObject /\ draw \in Seq(DrawCall) /\ doc \in Documents /\ state = "busy"
    BY <1>0 DEF StyleTyped
  <2>2. QED
    BY <2>1, TopFacts
<1>2. /\ draw' \in Seq(DrawCall) /\ Len(draw') = Len(draw) - 1
      /\ \A k \in 1 .. Len(draw) - 1 : draw'[k] = draw[k]
  BY <1>0, <1>1, PoppedFacts
<1>3. PICK c \in DrawCall : c = draw[Len(draw)]
  BY <1>0, <1>1
<1>4. /\ obj'.elem = obj.elem /\ obj'.layer = obj.layer
      /\ \A a \in Style!Attrs : obj'.style[a] = IF a \in c.has THEN c.who ELSE obj.style[a]
  BY <1>0, <1>1, <1>3, AppliedTyped
<1>5. PICK C : C = CallsOf(doc, obj.elem, obj.layer)
  OBVIOUS
<1>6. C \in Seq(DrawCall) /\ Len(C) \in 0 .. 3
  <2>1. obj.elem \in Style!Element /\ obj.layer \in Nat /\ C = Style!Calls(obj.elem, obj.layer)
    BY <1>1, <1>5, CallsIs DEF Styled
  <2>2. QED
    BY <2>1, <1>1, CallsAre
<1>7. UnderWay(doc, obj, calls, draw, C)
  BY <1>1, <1>5 DEF StyleInv
<1>8. Calling(doc, obj, calls, C, draw)
  BY <1>0, <1>7 DEF UnderWay
<1>9. MaxDepth \in Nat /\ Len(draw) + 1 <= MaxDepth
  <2>1. MaxDepth \in Nat /\ Len(frames) + Len(draw) <= MaxDepth
    BY <1>1, DocFacts DEF StyleInv
  <2>2. QED
    BY <2>1, <1>1
<1>10. c.down \/ c.relative \notin ParamsOf(doc)
  BY <1>0, <1>3 DEF Style!Known, ParamsOf
<1>11. /\ draw' = <<>> => Settled(doc, obj', calls, C)
       /\ draw' # <<>> => Calling(doc, obj', calls, C, draw')
  <2>1. PICK after : after = obj'
    OBVIOUS
  <2>2. PICK new \in Seq(DrawCall) : new = draw'
    BY <1>2
  <2>3. PICK dr \in Seq(DrawCall) : dr = draw
    BY <1>1
  <2>a. OverriddenBy(after, obj, c) /\ OneLess(new, dr)
    BY <2>1, <2>2, <2>3, <1>2, <1>4 DEF OverriddenBy, OneLess
  <2>4. /\ dr # <<>> /\ Len(dr) + 1 <= MaxDepth /\ Calling(doc, obj, calls, C, dr) /\ c = dr[Len(dr)]
    BY <2>3, <1>0, <1>3, <1>8, <1>9
  <2>5. /\ new = <<>> => Settled(doc, after, calls, C)
        /\ new # <<>> => Calling(doc, after, calls, C, new)
    BY <2>2, <2>3, <2>4, <2>a, <1>1, <1>6, <1>10, CallThrough
  <2>6. QED
    BY <2>1, <2>2, <2>5
<1>12. UnderWay(doc, obj', calls, draw', C)
  BY <1>4, <1>7, <1>11 DEF UnderWay
<1>13. UnderWay(doc', obj', calls', draw', CallsOf(doc', obj'.elem, obj'.layer))
  BY <1>0, <1>4, <1>5, <1>12
<1>14. Len(frames') + Len(draw') <= MaxDepth
  <2>1. Len(frames) + Len(draw) <= MaxDepth
    BY DEF StyleInv
  <2>2. QED
    BY <2>1, <1>0, <1>1, <1>2, <1>9
<1>15. QED
  BY <1>0, <1>13, <1>14 DEF StyleInv

LEMMA StyleFinishObject ==
  ASSUME Style!StyleAssumption, StyleTyped, StyleInv, Style!FinishObject
  PROVE  StyleInv'
<1> DEFINE f == [Style!Top EXCEPT !.out = Append(@, Style!Finished(obj))]
<1>0. /\ obj # Style!NoObject /\ calls = <<>> /\ draw = <<>>
      /\ frames' = [frames EXCEPT ![Len(frames)] = f]
      /\ obj' = Style!NoObject /\ doc' = doc /\ calls' = calls /\ draw' = draw /\ page' = page /\ state' = state
  BY DEF Style!FinishObject, Style!Top
<1>1. state = "busy" /\ obj \in Styled /\ doc \in Documents
  BY <1>0 DEF StyleTyped
<1>2. Style!Finished(obj) \in Styled
  BY <1>1, FinishedTyped
<1>3. Style!Top.out \in Seq(Styled) /\ Append(Style!Top.out, Style!Finished(obj)) \in Seq(Styled) /\ Style!Top \in Frame
  BY <1>1, <1>2, TopFacts
<1>4. f \in Frame /\ f.out = Append(Style!Top.out, Style!Finished(obj))
  BY <1>3 DEF Frame
<1> HIDE DEF f
<1>5. PICK C : C = CallsOf(doc, obj.elem, obj.layer)
  OBVIOUS
<1>6. C = Style!Calls(obj.elem, obj.layer)
  BY <1>5, CallsIs
<1>7. UnderWay(doc, obj, calls, draw, C)
  BY <1>0, <1>5 DEF StyleInv
<1>8. PICK n \in 0 .. Len(C) : CallsLeft(calls, C, n) /\ Ended(doc, C, n) /\ StyleIs(doc, obj, C, n)
  BY <1>0, <1>7 DEF UnderWay, Settled
<1>9. n = Len(C)
  <2>1. C \in Seq(DrawCall)
    <3>1. obj.elem \in Style!Element /\ obj.layer \in Nat
      BY <1>1 DEF Styled
    <3>2. QED
      BY <3>1, <1>1, <1>6, CallsAre
  <2>2. 0 = Len(C) - n
    BY <1>0, <1>8 DEF CallsLeft
  <2>3. QED
    BY <2>1, <2>2, <1>8
<1>10. Precedent(doc, Style!Finished(obj))
  <2>1. obj.elem.tag \in {"PathObject", "TextObject"}
    BY <1>7 DEF UnderWay
  <2>2. \A k \in 1 .. Len(C) : Ends(doc, MaxDepth - 1, C[k].relative)
    BY <1>8, <1>9 DEF Ended
  <2>3. \A a \in Style!Attrs : obj.style[a] = After(doc, C, Len(C), a)
    BY <1>8, <1>9 DEF StyleIs
  <2>4. QED
    BY <1>1, <1>6, <2>1, <2>2, <2>3, FinalStyle
<1>11. AllPrecedent(doc, f.out)
  BY <1>1, <1>2, <1>3, <1>4, <1>10, TopPrecedent, PrecedentMore
<1>12. /\ Len(frames') + Len(draw') <= MaxDepth /\ AllPrecedent(doc', page')
       /\ \A k \in 1 .. Len(frames') : AllPrecedent(doc', frames'[k].out)
  BY <1>0, <1>1, <1>4, <1>11, StyleTop
<1>13. QED
  BY <1>0, <1>12 DEF StyleInv

(* The frames of EnterComposite.                                           *)
LEMMA EnterFacts ==
  ASSUME Style!StyleAssumption, StyleTyped, Style!EnterComposite, ~(Style!Depth >= MaxDepth)
  PROVE  /\ state = "busy" /\ obj = Style!NoObject /\ draw = <<>> /\ calls = <<>> /\ Style!Top.rest # <<>>
         /\ Len(frames) \in Nat \ {0} /\ doc \in Documents
         /\ Head(Style!Top.rest).shown /\ Head(Style!Top.rest).tag = "CompositeObject"
         /\ Head(Style!Top.rest).res \in Units
         /\ doc' = doc /\ obj' = obj /\ calls' = calls /\ draw' = draw /\ page' = page /\ state' = state
         /\ Len(frames') = Len(frames) + 1
         /\ \A k \in 1 .. Len(frames) - 1 : frames'[k] = frames[k]
         /\ frames'[Len(frames)].rest = Tail(Style!Top.rest) /\ frames'[Len(frames)].out = Style!Top.out
         /\ frames'[Len(frames) + 1].rest = doc.compositeobj[Head(Style!Top.rest).res]
         /\ frames'[Len(frames) + 1].out = <<>>
<1> DEFINE e == Head(Style!Top.rest)
           f == [Style!Top EXCEPT !.rest = Tail(@)]
           n == Len(frames)
<1>0. /\ state = "busy" /\ obj = Style!NoObject /\ Style!Top.rest # <<>>
      /\ e.shown /\ e.tag = "CompositeObject" /\ e.res \in Units /\ doc \in Documents
      /\ calls = <<>> /\ draw = <<>>
  BY DEF Style!EnterComposite, Style!Between, Units, StyleTyped
<1>1. /\ n \in Nat \ {0} /\ f \in Frame /\ f.rest = Tail(Style!Top.rest) /\ f.out = Style!Top.out
  BY <1>0, TopFacts DEF Frame
<1>2. PICK g \in Style!Garbage :
        /\ frames' = Append([frames EXCEPT ![n] = f],
                            [rest |-> doc.compositeobj[e.res], out |-> <<>>, layer |-> g])
        /\ doc' = doc /\ obj' = obj /\ calls' = calls /\ draw' = draw /\ page' = page /\ state' = state
  BY DEF Style!EnterComposite, Style!Top
<1>3. PICK new : new = [rest |-> doc.compositeobj[e.res], out |-> <<>>, layer |-> g]
  OBVIOUS
<1>4. new \in Frame /\ new.rest = doc.compositeobj[e.res] /\ new.out = <<>>
  <2>1. g \in Nat
    BY <1>0, DocFacts DEF Style!Garbage, Params
  <2>2. QED
    BY <1>0, <2>1, <1>3, DocFacts DEF Frame
<1>5. PICK old : old = [frames EXCEPT ![n] = f]
  OBVIOUS
<1>6. /\ old \in Seq(Frame) /\ Len(old) = n /\ old[n] = f
      /\ \A k \in 1 .. n : k # n => old[k] = frames[k]
  <2> HIDE DEF f
  <2>1. frames \in Seq(Frame)
    BY DEF StyleTyped
  <2>2. QED
    BY <2>1, <1>5, <1>1
<1>7. frames' = Append(old, new)
  BY <1>2, <1>3, <1>5
<1> HIDE DEF f, e, n
<1>8. /\ Len(frames') = n + 1 /\ frames'[n + 1] = new
      /\ \A k \in 1 .. n : frames'[k] = old[k]
  BY <1>7, <1>4, <1>6, <1>1
<1>9. frames'[n] = f /\ \A k \in 1 .. n - 1 : frames'[k] = frames[k]
  BY <1>1, <1>6, <1>8
<1>10. QED
  BY <1>0, <1>1, <1>2, <1>4, <1>8, <1>9 DEF n, e

LEMMA StyleEnterComposite ==
  ASSUME Style!StyleAssumption, StyleTyped, StyleInv, Style!EnterComposite
  PROVE  StyleInv'
<1>1. CASE Style!Depth >= MaxDepth
  <2>1. Style!Overflow
    BY <1>1 DEF Style!EnterComposite
  <2>2. QED
    BY <2>1, StyleOverflow
<1>2. CASE ~(Style!Depth >= MaxDepth)
  <2>1. /\ state = "busy" /\ obj = Style!NoObject /\ draw = <<>> /\ Len(frames) \in Nat \ {0} /\ doc \in Documents
        /\ doc' = doc /\ obj' = obj /\ calls' = calls /\ draw' = draw /\ page' = page
        /\ Len(frames') = Len(frames) + 1
        /\ \A k \in 1 .. Len(frames) - 1 : frames'[k] = frames[k]
        /\ frames'[Len(frames)].out = Style!Top.out
        /\ frames'[Len(frames) + 1].out = <<>>
    BY <1>2, EnterFacts
  <2>2. PICK n \in Nat : n = Len(frames) /\ n # 0
    BY <2>1
  <2>3. ASSUME NEW k \in 1 .. n + 1 PROVE AllPrecedent(doc, frames'[k].out)
    <3>1. CASE k = n + 1
      BY <3>1, <2>1, <2>2, PrecedentNone
    <3>2. CASE k = n
      BY <3>2, <2>1, <2>2, TopPrecedent
    <3>3. CASE k \in 1 .. n - 1
      <4>1. frames'[k] = frames[k] /\ k \in 1 .. Len(frames)
        BY <3>3, <2>1, <2>2
      <4>2. QED
        BY <4>1 DEF StyleInv
    <3>4. QED
      BY <2>2, <3>1, <3>2, <3>3
  <2>4. Len(frames') + Len(draw') <= MaxDepth
    BY <1>2, <2>1, DocFacts DEF Style!Depth
  <2>5. QED
    BY <2>1, <2>2, <2>3, <2>4 DEF StyleInv
<1>3. QED
  BY <1>1, <1>2

LEMMA StyleLeaveComposite ==
  ASSUME Style!StyleAssumption, StyleTyped, StyleInv, Style!LeaveComposite
  PROVE  StyleInv'
<1>1. /\ state = "busy" /\ obj = Style!NoObject /\ draw = <<>> /\ Len(frames) \in Nat /\ Len(frames) > 1
      /\ doc' = doc /\ obj' = obj /\ calls' = calls /\ draw' = draw /\ page' = page
      /\ Moved \in Seq(Styled)
      /\ OuterAfter.out = Outer.out \o Moved /\ Outer \in Frame
      /\ Len(frames') = Len(frames) - 1 /\ frames'[Len(frames) - 1] = OuterAfter
      /\ \A k \in 1 .. Len(frames) - 2 : frames'[k] = frames[k]
  BY LeaveFacts
<1>2. PICK n \in Nat : n = Len(frames) - 1 /\ n # 0
  BY <1>1
<1>3. AllPrecedent(doc, Moved)
  <2>1. SUFFICES ASSUME NEW k \in 1 .. Len(Moved) PROVE Precedent(doc, Moved[k])
    BY DEF AllPrecedent
  <2>2. QED
    BY <1>1, TopPrecedent DEF AllPrecedent, Moved
<1>4. AllPrecedent(doc, Outer.out) /\ Outer.out \in Seq(Styled)
  <2>1. n \in 1 .. Len(frames) /\ Outer = frames[n]
    BY <1>1, <1>2 DEF Outer
  <2>2. QED
    BY <2>1, <1>1 DEF StyleInv, Frame
<1>5. AllPrecedent(doc, OuterAfter.out)
  <2>1. PICK s \in Seq(Styled) : s = Outer.out
    BY <1>4
  <2>2. PICK t \in Seq(Styled) : t = Moved
    BY <1>1
  <2>3. AllPrecedent(doc, s) /\ AllPrecedent(doc, t)
    BY <1>3, <1>4, <2>1, <2>2
  <2>4. AllPrecedent(doc, s \o t)
    <3>1. SUFFICES ASSUME NEW k \in 1 .. Len(s \o t) PROVE Precedent(doc, (s \o t)[k])
      BY DEF AllPrecedent
    <3>2. CASE k <= Len(s)
      <4>1. k \in 1 .. Len(s) /\ (s \o t)[k] = s[k]
        BY <3>2
      <4>2. QED
        BY <4>1, <2>3 DEF AllPrecedent
    <3>3. CASE ~(k <= Len(s))
      <4>1. k - Len(s) \in 1 .. Len(t) /\ (s \o t)[k] = t[k - Len(s)]
        BY <3>3
      <4>2. QED
        BY <4>1, <2>3 DEF AllPrecedent
    <3>4. QED
      BY <3>2, <3>3
  <2>5. QED
    BY <2>1, <2>2, <2>4, <1>1
<1>6. ASSUME NEW k \in 1 .. n PROVE AllPrecedent(doc, frames'[k].out)
  <2>1. CASE k = n
    BY <2>1, <1>1, <1>2, <1>5
  <2>2. CASE k # n
    <3>1. k \in 1 .. Len(frames) - 2 /\ k \in 1 .. Len(frames)
      BY <2>2, <1>1, <1>2
    <3>2. QED
      BY <3>1, <1>1 DEF StyleInv
  <2>3. QED
    BY <2>1, <2>2
<1>7. Len(frames') + Len(draw') <= MaxDepth
  <2>1. Len(frames) + Len(draw) <= MaxDepth /\ MaxDepth \in Nat
    BY DocFacts DEF StyleInv, StyleTyped
  <2>2. QED
    BY <1>1, <2>1
<1>8. QED
  BY <1>1, <1>2, <1>6, <1>7 DEF StyleInv

LEMMA StyleLayer ==
  ASSUME Style!StyleAssumption, StyleTyped, StyleInv,
         Style!LayerParsed \/ \E d \in Documents : Style!ParseLayer(d)
  PROVE  StyleInv'
<1>1. CASE Style!LayerParsed
  <2>0. /\ state = "busy" /\ obj = Style!NoObject /\ page' = Style!Top.out /\ frames' = <<>>
        /\ doc' = doc /\ obj' = obj /\ draw' = draw /\ draw = <<>>
    BY <1>1 DEF Style!LayerParsed, Style!Between, StyleTyped
  <2>1. AllPrecedent(doc, Style!Top.out)
    BY <2>0, TopPrecedent
  <2>2. Len(frames') + Len(draw') <= MaxDepth
    BY <2>0 DEF Style!StyleAssumption
  <2>3. QED
    BY <2>0, <2>1, <2>2 DEF StyleInv
<1>2. CASE \E d \in Documents : Style!ParseLayer(d)
  <2>0. PICK d \in Documents :
          /\ state \in {"idle", "dead"} /\ doc' = d /\ state' = "busy" /\ page' = <<>>
          /\ frames' = <<[rest |-> d.content, out |-> <<>>, layer |-> d.layer]>>
          /\ obj' = obj /\ calls' = calls /\ draw' = draw
    BY <1>2 DEF Style!ParseLayer
  <2>1. obj = Style!NoObject /\ draw = <<>>
    BY <2>0 DEF StyleTyped
  <2>2. Len(frames') = 1 /\ frames'[1].out = <<>>
    BY <2>0
  <2>3. Len(frames') + Len(draw') <= MaxDepth
    BY <2>0, <2>1, <2>2 DEF Style!StyleAssumption
  <2>4. QED
    BY <2>0, <2>1, <2>2, <2>3, PrecedentNone DEF StyleInv
<1>3. QED
  BY <1>1, <1>2

LEMMA StyleInit ==
  ASSUME Style!StyleAssumption, Style!Init
  PROVE  StyleInv
<1>1. /\ frames = <<>> /\ obj = Style!NoObject /\ draw = <<>> /\ page = <<>>
  BY DEF Style!Init
<1>2. Len(frames) + Len(draw) <= MaxDepth
  BY <1>1 DEF Style!StyleAssumption
<1>3. QED
  BY <1>1, <1>2, PrecedentNone DEF StyleInv

LEMMA StyleNext ==
  ASSUME Style!StyleAssumption, StyleTyped, StyleInv,
         Style!Parse \/ (\E d \in Documents : Style!ParseLayer(d)) \/ UNCHANGED <<obj, calls, StyleOnly>>
  PROVE  StyleInv'
<1>1. CASE Style!Parse
  BY <1>1, StyleParseOther, StyleParseObject, StyleCallDrawParam, StyleRecurse, StyleApply,
     StyleFinishObject, StyleEnterComposite, StyleLeaveComposite, StyleLayer DEF Style!Parse
<1>2. CASE \E d \in Documents : Style!ParseLayer(d)
  BY <1>2, StyleLayer
<1>3. CASE UNCHANGED <<obj, calls, StyleOnly>>
  BY <1>3 DEF StyleInv, StyleOnly
<1>4. QED
  BY <1>1, <1>2, <1>3

LEMMA StyleGives ==
  ASSUME StyleInv
  PROVE  Style!StyleByPrecedence
<1>1. SUFFICES ASSUME NEW k \in 1 .. Len(page), page[k].elem.tag # "ImageObject", NEW a \in Style!Attrs
               PROVE  page[k].style[a] = Style!Preferred(page[k], a)
  BY DEF Style!StyleByPrecedence
<1>2. Precedent(doc, page[k])
  BY DEF StyleInv, AllPrecedent
<1>3. QED
  BY <1>1, <1>2, PreferredIs DEF Precedent

-----------------------------------------------------------------------------
(* The order of the objects.  What the frames have parsed, the object under *)
(* way and the elements that are left make up the content of the layer.    *)
(* g concatenates the first n sequences of s, as FlattenSeq does.           *)
Turn(g, s, i_) == IF i_ = 1 THEN s[i_] ELSE g[i_ - 1] \o s[i_]
Cat(g, s, n) == g = [i_ \in 1 .. n |-> Turn(g, s, i_)]

LEMMA CatValue ==
  ASSUME NEW g, NEW s, NEW n \in Nat, Cat(g, s, n), NEW i_ \in 1 .. n
  PROVE  g[i_] = Turn(g, s, i_)
  BY DEF Cat

LEMMA CatUnique ==
  ASSUME NEW g, NEW s, NEW m \in Nat, Cat(g, s, m),
         NEW h_, NEW t, NEW k \in Nat, Cat(h_, t, k),
         NEW n \in 1 .. m, n <= k, \A i_ \in 1 .. n : s[i_] = t[i_]
  PROVE  g[n] = h_[n]
<1> DEFINE T == {j_ \in Nat : j_ \in 1 .. n /\ g[j_] # h_[j_]}
<1>1. SUFFICES ASSUME T # {} PROVE FALSE
  OBVIOUS
<1>2. PICK x \in T : \A y \in T : x <= y
  BY <1>1, LeastNat
<1>3. x \in 1 .. n /\ x \in 1 .. m /\ x \in 1 .. k /\ g[x] # h_[x] /\ s[x] = t[x]
  BY <1>2
<1>4. g[x] = Turn(g, s, x) /\ h_[x] = Turn(h_, t, x)
  BY <1>3, CatValue
<1>5. x # 1
  BY <1>3, <1>4 DEF Turn
<1>6. x - 1 \in 1 .. n /\ x - 1 \notin T
  BY <1>2, <1>3, <1>5
<1>7. g[x - 1] = h_[x - 1]
  BY <1>6
<1>8. QED
  BY <1>3, <1>4, <1>5, <1>7 DEF Turn

LEMMA CatExists == ASSUME NEW s, NEW n \in Nat PROVE \E g : Cat(g, s, n)
<1> DEFINE T == {j_ \in Nat : ~ \E g : Cat(g, s, j_)}
<1>1. SUFFICES ASSUME T # {} PROVE FALSE
  OBVIOUS
<1>2. PICK x \in T : \A y \in T : x <= y
  BY <1>1, LeastNat
<1>3. x \in Nat /\ ~ \E g : Cat(g, s, x)
  BY <1>2
<1>4. CASE x = 0
  <2> DEFINE g == [i_ \in 1 .. 0 |-> 0]
  <2>1. g = [i_ \in 1 .. 0 |-> Turn(g, s, i_)]
    OBVIOUS
  <2> QED BY <1>3, <1>4, <2>1 DEF Cat
<1>5. CASE x # 0
  <2> DEFINE w == x - 1
  <2>1. w \in Nat /\ w \notin T
    BY <1>2, <1>3, <1>5
  <2>2. PICK f : Cat(f, s, w)
    BY <2>1
  <2> DEFINE g == [i_ \in 1 .. x |-> Turn(f, s, i_)]
  <2>3. \A i_ \in 1 .. w : g[i_] = f[i_]
    BY <1>3, <2>1, <2>2, CatValue
  <2>4. \A i_ \in 1 .. x : Turn(f, s, i_) = Turn(g, s, i_)
    <3> SUFFICES ASSUME NEW i_ \in 1 .. x, i_ # 1 PROVE Turn(f, s, i_) = Turn(g, s, i_)
      BY DEF Turn
    <3>1. i_ - 1 \in 1 .. w
      BY <1>3
    <3>2. f[i_ - 1] = g[i_ - 1]
      BY <2>3, <3>1
    <3> HIDE DEF g
    <3> QED BY <3>2 DEF Turn
  <2>5. g = [i_ \in 1 .. x |-> Turn(g, s, i_)]
    <3>1. \A i_ \in 1 .. x : g[i_] = Turn(g, s, i_)
      BY <2>4
    <3>2. DOMAIN g = 1 .. x /\ g = [i_ \in DOMAIN g |-> g[i_]]
      OBVIOUS
    <3> HIDE DEF g
    <3> QED BY <3>1, <3>2
  <2> QED BY <1>3, <2>5 DEF Cat
<1>6. QED
  BY <1>4, <1>5

LEMMA FlattenIs ==
  ASSUME NEW s, Len(s) \in Nat, Len(s) # 0
  PROVE  \E g : Cat(g, s, Len(s)) /\ Style!FlattenSeq(s) = g[Len(s)]
<1> DEFINE F == CHOOSE g : Cat(g, s, Len(s))
<1>1. Cat(F, s, Len(s))
  BY CatExists
<1>2. Style!FlattenSeq(s) = F[Len(s)]
  BY DEF Style!FlattenSeq, Cat, Turn
<1> QED BY <1>1, <1>2

(* FlattenSeq of no sequences, of one more at the end, and its type.       *)
LEMMA FlattenNone == ASSUME NEW s, Len(s) = 0 PROVE Style!FlattenSeq(s) = s
  BY DEF Style!FlattenSeq

LEMMA FlattenOne ==
  ASSUME NEW s, Len(s) = 1 PROVE Style!FlattenSeq(s) = s[1]
<1>1. PICK g : Cat(g, s, Len(s)) /\ Style!FlattenSeq(s) = g[Len(s)]
  <2>1. Len(s) \in Nat /\ Len(s) # 0
    OBVIOUS
  <2> QED BY <2>1, FlattenIs
<1>2. g[1] = Turn(g, s, 1)
  BY <1>1, CatValue
<1> QED BY <1>1, <1>2 DEF Turn

LEMMA FlattenMore ==
  ASSUME NEW s, NEW t, Len(s) \in Nat, Len(s) # 0, Len(t) = Len(s) + 1,
         \A i_ \in 1 .. Len(s) : t[i_] = s[i_]
  PROVE  Style!FlattenSeq(t) = Style!FlattenSeq(s) \o t[Len(t)]
<1>1. PICK g : Cat(g, s, Len(s)) /\ Style!FlattenSeq(s) = g[Len(s)]
  BY FlattenIs
<1>2. PICK h_ : Cat(h_, t, Len(t)) /\ Style!FlattenSeq(t) = h_[Len(t)]
  BY FlattenIs
<1>3. h_[Len(s)] = g[Len(s)]
  <2> DEFINE m == Len(s)
  <2>1. m \in 1 .. m /\ m <= Len(t) /\ Len(t) \in Nat /\ m \in Nat
    OBVIOUS
  <2> QED BY <1>1, <1>2, <2>1, CatUnique
<1>4. h_[Len(t)] = Turn(h_, t, Len(t))
  BY <1>2, CatValue
<1>5. Turn(h_, t, Len(t)) = h_[Len(s)] \o t[Len(t)]
  <2>1. Len(t) # 1 /\ Len(t) - 1 = Len(s)
    OBVIOUS
  <2> QED BY <2>1 DEF Turn
<1> QED BY <1>1, <1>2, <1>3, <1>4, <1>5

LEMMA FlattenType ==
  ASSUME NEW S, NEW s \in Seq(Seq(S)) PROVE Style!FlattenSeq(s) \in Seq(S)
<1>1. CASE Len(s) = 0
  <2>1. s = <<>>
    BY <1>1
  <2>2. Style!FlattenSeq(s) = <<>>
    BY <1>1, <2>1, FlattenNone
  <2> QED BY <2>2
<1>2. CASE Len(s) # 0
  <2>1. PICK g : Cat(g, s, Len(s)) /\ Style!FlattenSeq(s) = g[Len(s)]
    BY <1>2, FlattenIs
  <2> DEFINE T == {j_ \in Nat : j_ \in 1 .. Len(s) /\ g[j_] \notin Seq(S)}
  <2>2. SUFFICES ASSUME T # {} PROVE FALSE
    BY <1>2, <2>1
  <2>3. PICK x \in T : \A y \in T : x <= y
    BY <2>2, LeastNat
  <2>4. x \in 1 .. Len(s) /\ g[x] \notin Seq(S) /\ g[x] = Turn(g, s, x) /\ s[x] \in Seq(S)
    BY <2>1, <2>3, CatValue
  <2>5. x # 1
    BY <2>4 DEF Turn
  <2>6. x - 1 \in 1 .. Len(s) /\ x - 1 \notin T
    BY <2>3, <2>4, <2>5
  <2>7. g[x - 1] \in Seq(S)
    BY <2>6
  <2>8. g[x - 1] \o s[x] \in Seq(S)
    BY <2>4, <2>7
  <2> QED BY <2>4, <2>5, <2>8 DEF Turn
<1> QED BY <1>1, <1>2

LEMMA FlattenSnoc ==
  ASSUME NEW S, NEW s \in Seq(Seq(S)), NEW t \in Seq(Seq(S)), Len(t) = Len(s) + 1,
         \A i_ \in 1 .. Len(s) : t[i_] = s[i_]
  PROVE  Style!FlattenSeq(t) = Style!FlattenSeq(s) \o t[Len(t)]
<1>1. CASE Len(s) = 0
  <2>1. s = <<>> /\ Len(t) = 1 /\ t[1] \in Seq(S)
    BY <1>1
  <2>2. Style!FlattenSeq(s) = <<>> /\ Style!FlattenSeq(t) = t[1]
    BY <2>1, <1>1, FlattenNone, FlattenOne
  <2> QED BY <2>1, <2>2, ConcatEmptySeq
<1>2. CASE Len(s) # 0
  <2>1. Len(s) \in Nat
    OBVIOUS
  <2> QED BY <1>2, <2>1, FlattenMore
<1> QED BY <1>1, <1>2

LEMMA Assoc ==
  ASSUME NEW S, NEW a \in Seq(S), NEW b \in Seq(S), NEW c \in Seq(S)
  PROVE  (a \o b) \o c = a \o (b \o c)
  OBVIOUS

LEMMA FlattenCons ==
  ASSUME NEW S, NEW t \in Seq(Seq(S)), t # <<>>
  PROVE  Style!FlattenSeq(t) = t[1] \o Style!FlattenSeq(Tail(t))
<1> DEFINE n == Len(t)
           P(k) == [i_ \in 1 .. k |-> t[i_]]
           Q(k) == [i_ \in 1 .. k - 1 |-> t[i_ + 1]]
           Split(k) == Style!FlattenSeq(P(k)) = t[1] \o Style!FlattenSeq(Q(k))
           T == {j_ \in Nat : j_ \in 1 .. n /\ ~Split(j_)}
<1>1. n \in Nat \ {0} /\ \A i_ \in 1 .. n : t[i_] \in Seq(S)
  OBVIOUS
<1>2. \A k \in 1 .. n : /\ P(k) \in Seq(Seq(S)) /\ Len(P(k)) = k
                        /\ Q(k) \in Seq(Seq(S)) /\ Len(Q(k)) = k - 1
  BY <1>1
<1>3. T = {}
  <2> SUFFICES ASSUME T # {} PROVE FALSE
    OBVIOUS
  <2>1. PICK x \in T : \A y \in T : x <= y
    BY LeastNat
  <2>2. x \in 1 .. n /\ Style!FlattenSeq(P(x)) # t[1] \o Style!FlattenSeq(Q(x))
    <3> HIDE DEF P, Q
    <3> QED BY <2>1
  <2>3. CASE x = 1
    <3>1. Style!FlattenSeq(P(1)) = t[1]
      <4>1. P(1)[1] = t[1] /\ Len(P(1)) = 1
        BY <1>1, <1>2
      <4> HIDE DEF P
      <4> QED BY <4>1, FlattenOne
    <3>2. Style!FlattenSeq(Q(1)) = <<>>
      <4>1. Len(Q(1)) = 0 /\ Q(1) \in Seq(Seq(S))
        BY <1>1, <1>2
      <4> HIDE DEF Q
      <4>2. Q(1) = <<>>
        BY <4>1
      <4> QED BY <4>1, <4>2, FlattenNone
    <3>3. t[1] \o <<>> = t[1]
      BY <1>1, ConcatEmptySeq
    <3> HIDE DEF P, Q
    <3> QED BY <2>2, <2>3, <3>1, <3>2, <3>3
  <2>4. CASE x # 1
    <3> DEFINE w == x - 1
    <3>1. w \in 1 .. n /\ w \notin T
      <4> HIDE DEF Split
      <4> QED BY <2>1, <2>2, <2>4
    <3>2. Style!FlattenSeq(P(w)) = t[1] \o Style!FlattenSeq(Q(w))
      <4>1. Split(w)
        <5> HIDE DEF Split, w
        <5> QED BY <3>1, <1>1
      <4> QED BY <4>1
    <3>3. Style!FlattenSeq(P(x)) = Style!FlattenSeq(P(w)) \o t[x]
      <4>1. /\ P(w) \in Seq(Seq(S)) /\ P(x) \in Seq(Seq(S)) /\ Len(P(x)) = Len(P(w)) + 1
            /\ Len(P(x)) = x
        BY <1>2, <2>2, <3>1
      <4>2. \A i_ \in 1 .. Len(P(w)) : P(x)[i_] = P(w)[i_]
        BY <1>1, <1>2, <2>2, <3>1
      <4>3. P(x)[x] = t[x]
        BY <2>2
      <4> HIDE DEF P, w
      <4> QED BY <4>1, <4>2, <4>3, FlattenSnoc
    <3>4. Style!FlattenSeq(Q(x)) = Style!FlattenSeq(Q(w)) \o t[x]
      <4>1. /\ Q(w) \in Seq(Seq(S)) /\ Q(x) \in Seq(Seq(S)) /\ Len(Q(x)) = Len(Q(w)) + 1
            /\ Len(Q(x)) = w
        BY <1>2, <2>2, <3>1
      <4>2. \A i_ \in 1 .. Len(Q(w)) : Q(x)[i_] = Q(w)[i_]
        BY <1>1, <1>2, <2>2, <3>1
      <4>3. Q(x)[w] = t[x]
        BY <2>2, <3>1
      <4> HIDE DEF Q, w
      <4> QED BY <4>1, <4>2, <4>3, FlattenSnoc
    <3>5. t[1] \in Seq(S) /\ t[x] \in Seq(S) /\ Style!FlattenSeq(Q(w)) \in Seq(S)
      <4>1. Q(w) \in Seq(Seq(S))
        BY <1>2, <3>1
      <4> HIDE DEF Q, w
      <4> QED BY <1>1, <2>2, <4>1, FlattenType
    <3> HIDE DEF P, Q, w
    <3> DEFINE a == t[1]
               q == Style!FlattenSeq(Q(w))
               c == t[x]
    <3>6. (a \o q) \o c = a \o (q \o c)
      <4>1. a \in Seq(S) /\ q \in Seq(S) /\ c \in Seq(S)
        BY <3>5
      <4> HIDE DEF a, q, c, n, T
      <4> QED BY ONLY <4>1, Assoc
    <3> QED BY <2>2, <3>2, <3>3, <3>4, <3>6
  <2> QED BY <2>3, <2>4
<1>4. Style!FlattenSeq(P(n)) = t[1] \o Style!FlattenSeq(Q(n))
  <2>1. n \in 1 .. n
    BY <1>1
  <2> HIDE DEF P, Q, n
  <2> QED BY <1>1, <1>3, <2>1
<1>5. P(n) = t
  OBVIOUS
<1>6. Q(n) = Tail(t)
  <2>1. Tail(t) \in Seq(Seq(S)) /\ Len(Tail(t)) = n - 1 /\ \A i_ \in 1 .. n - 1 : Tail(t)[i_] = t[i_ + 1]
    BY <1>1
  <2>2. Q(n) \in Seq(Seq(S)) /\ Len(Q(n)) = n - 1 /\ \A i_ \in 1 .. n - 1 : Q(n)[i_] = t[i_ + 1]
    BY <1>1, <1>2
  <2> HIDE DEF Q
  <2> QED BY <2>1, <2>2, SeqEqual
<1> HIDE DEF P, Q
<1> QED BY <1>4, <1>5, <1>6

(* The same for sequences that are made from others, item by item.         *)
LEMMA FlattenFirst ==
  ASSUME NEW S, NEW s \in Seq(Seq(S)), NEW t \in Seq(Seq(S)), Len(s) = Len(t) + 1,
         \A i_ \in 1 .. Len(t) : t[i_] = s[i_ + 1]
  PROVE  Style!FlattenSeq(s) = s[1] \o Style!FlattenSeq(t)
<1>1. s # <<>> /\ Len(t) \in Nat
  OBVIOUS
<1>2. /\ Tail(s) \in Seq(Seq(S)) /\ Len(Tail(s)) = Len(t)
      /\ \A i_ \in 1 .. Len(t) : Tail(s)[i_] = s[i_ + 1]
  BY <1>1
<1>3. t = Tail(s)
  BY <1>2, SeqEqual
<1> QED BY <1>1, <1>3, FlattenCons

(* The content of the units of a document, unrolled.                       *)
UnitsOf(d) == DOMAIN d.compositeobj
Lists(d) == {d.content} \cup {d.compositeobj[r] : r \in UnitsOf(d)}
Piece(d, f, n, e) ==
  IF ~e.shown THEN <<>>
  ELSE IF e.tag # "CompositeObject" THEN <<e.name>>
  ELSE IF n = 0 \/ e.res \notin UnitsOf(d) THEN <<>>
  ELSE f[n - 1][d.compositeobj[e.res]]
Pieces(d, f, n, els) == [k \in 1 .. Len(els) |-> Piece(d, f, n, els[k])]
Nested(d, f, n) == [els \in Lists(d) |-> Style!FlattenSeq(Pieces(d, f, n, els))]
Contents(d) == CHOOSE f : f = [n \in Nat |-> Nested(d, f, n)]

LEMMA ListsFacts ==
  ASSUME Style!StyleAssumption, NEW d \in Documents
  PROVE  /\ \A els \in Lists(d) : els \in Seq(Style!Element)
         /\ \A r \in UnitsOf(d) : d.compositeobj[r] \in Lists(d)
         /\ d.content \in Lists(d)
<1>1. Style!IsDocument(d)
  BY DEF Style!StyleAssumption
<1>2. d.content \in Seq(Style!Element) /\ \A r \in UnitsOf(d) : d.compositeobj[r] \in Seq(Style!Element)
  BY <1>1 DEF Style!IsDocument, UnitsOf
<1>3. QED
  BY <1>2 DEF Lists

(* A piece in any n is a list of names if the function gives such lists.   *)
LEMMA PieceTyped ==
  ASSUME Style!StyleAssumption, NEW d \in Documents, NEW f, NEW n \in Nat,
         n # 0 => f[n - 1] \in [Lists(d) -> Seq(STRING)], NEW e \in Style!Element
  PROVE  Piece(d, f, n, e) \in Seq(STRING)
<1>1. e.name \in STRING
  BY ElementFacts
<1>2. n # 0 /\ e.res \in UnitsOf(d) => f[n - 1][d.compositeobj[e.res]] \in Seq(STRING)
  BY ListsFacts
<1>3. \A S : <<>> \in Seq(S) /\ \A x \in S : <<x>> \in Seq(S)
  OBVIOUS
<1>4. <<>> \in Seq(STRING) /\ <<e.name>> \in Seq(STRING)
  BY <1>1, <1>3
<1>5. PICK p : p = Piece(d, f, n, e)
  OBVIOUS
<1>6. p = <<>> \/ p = <<e.name>> \/ (n # 0 /\ e.res \in UnitsOf(d) /\ p = f[n - 1][d.compositeobj[e.res]])
  BY <1>5 DEF Piece
<1>7. QED
  BY <1>2, <1>4, <1>5, <1>6

LEMMA PiecesTyped ==
  ASSUME Style!StyleAssumption, NEW d \in Documents, NEW f, NEW n \in Nat,
         n # 0 => f[n - 1] \in [Lists(d) -> Seq(STRING)], NEW els \in Seq(Style!Element)
  PROVE  /\ Pieces(d, f, n, els) \in Seq(Seq(STRING)) /\ Len(Pieces(d, f, n, els)) = Len(els)
         /\ \A k \in 1 .. Len(els) : Pieces(d, f, n, els)[k] = Piece(d, f, n, els[k])
         /\ Style!FlattenSeq(Pieces(d, f, n, els)) \in Seq(STRING)
<1>1. \A k \in 1 .. Len(els) : Piece(d, f, n, els[k]) \in Seq(STRING)
  <2>1. \A k \in 1 .. Len(els) : els[k] \in Style!Element
    OBVIOUS
  <2>2. QED
    BY <2>1, PieceTyped
<1>2. /\ Pieces(d, f, n, els) \in Seq(Seq(STRING)) /\ Len(Pieces(d, f, n, els)) = Len(els)
      /\ \A k \in 1 .. Len(els) : Pieces(d, f, n, els)[k] = Piece(d, f, n, els[k])
  BY <1>1 DEF Pieces
<1>3. QED
  BY <1>2, FlattenType

LEMMA NestedTyped ==
  ASSUME Style!StyleAssumption, NEW d \in Documents, NEW f, NEW n \in Nat,
         n # 0 => f[n - 1] \in [Lists(d) -> Seq(STRING)]
  PROVE  Nested(d, f, n) \in [Lists(d) -> Seq(STRING)]
  BY PiecesTyped, ListsFacts DEF Nested

(* Only the value before matters.                                          *)
LEMMA NestedSame ==
  ASSUME NEW d, NEW f, NEW g, NEW n \in Nat, NEW m \in Nat, n = 0 <=> m = 0, n # 0 => f[n - 1] = g[m - 1]
  PROVE  Nested(d, f, n) = Nested(d, g, m)
<1>1. \A e : Piece(d, f, n, e) = Piece(d, g, m, e)
  BY DEF Piece
<1>2. \A els : Pieces(d, f, n, els) = Pieces(d, g, m, els)
  BY <1>1 DEF Pieces
<1>3. QED
  BY <1>2 DEF Nested

LEMMA ContentsUnrolled ==
  ASSUME Style!StyleAssumption, NEW d \in Documents
  PROVE  \A n \in Nat : /\ Contents(d)[n] = Nested(d, Contents(d), n)
                        /\ Contents(d)[n] \in [Lists(d) -> Seq(STRING)]
<1> DEFINE S == [Lists(d) -> Seq(STRING)]
           Up(x) == Nested(d, [k \in {0} |-> x], 1)
           step == [x \in S |-> Up(x)]
           first == Nested(d, <<>>, 0)
<1>1. first \in S
  BY NestedTyped
<1>2. ASSUME NEW x \in S PROVE Up(x) \in S
  <2>1. PICK f : f = [k \in {0} |-> x]
    OBVIOUS
  <2>2. f[1 - 1] \in S /\ 1 \in Nat
    BY <2>1
  <2>3. Nested(d, f, 1) \in S
    BY <2>2, NestedTyped
  <2>4. QED
    BY <2>1, <2>3
<1> HIDE DEF S, Up
<1>3. step \in [S -> S] /\ \A x \in S : step[x] = Up(x)
  BY <1>2
<1> HIDE DEF step, first
<1>4. PICK f \in [Nat -> S] : f[0] = first /\ \A n \in Nat : f[n + 1] = step[f[n]]
  <2>1. PICK v \in S : v = first
    BY <1>1
  <2>2. PICK g \in [S -> S] : g = step
    BY <1>3
  <2>3. \E f \in [Nat -> S] : f[0] = v /\ \A n \in Nat : f[n + 1] = g[f[n]]
    BY <2>1, <2>2, Iteration
  <2>4. QED
    BY <2>1, <2>2, <2>3
<1>5. ASSUME NEW n \in Nat PROVE f[n] = Nested(d, f, n)
  <2>1. CASE n = 0
    <3>1. Nested(d, <<>>, 0) = Nested(d, f, 0)
      BY NestedSame
    <3>2. QED
      BY <2>1, <3>1, <1>4 DEF first
  <2>2. CASE n # 0
    <3>1. PICK m \in Nat : m = n - 1 /\ n = m + 1
      BY <2>2
    <3>2. f[m] \in S /\ f[n] = Up(f[m])
      BY <3>1, <1>3, <1>4
    <3>3. PICK g : g = [k \in {0} |-> f[m]]
      OBVIOUS
    <3>4. g[1 - 1] = f[n - 1] /\ 1 \in Nat
      BY <3>1, <3>3
    <3>5. Nested(d, g, 1) = Nested(d, f, n)
      BY <3>4, <2>2, NestedSame
    <3>6. QED
      BY <3>2, <3>3, <3>5 DEF Up
  <2>3. QED
    BY <2>1, <2>2
<1>6. f = [n \in Nat |-> Nested(d, f, n)]
  <2>1. f = [n \in Nat |-> f[n]]
    BY <1>4
  <2>2. QED
    BY <2>1, <1>5
<1>7. Contents(d) = [n \in Nat |-> Nested(d, Contents(d), n)]
  <2> DEFINE Q(e) == e = [n \in Nat |-> Nested(d, e, n)]
  <2>1. Q(f)
    BY <1>6
  <2>2. Contents(d) = CHOOSE e : Q(e)
    BY DEF Contents
  <2> HIDE DEF Q
  <2>3. Q(Contents(d))
    BY <2>1, <2>2
  <2>4. QED
    BY <2>3 DEF Q
<1>8. PICK c : c = Contents(d)
  OBVIOUS
<1>9. \A n \in Nat : c[n] = Nested(d, c, n)
  BY <1>7, <1>8
<1>10. \A n \in Nat : c[n] \in S
  <2> DEFINE T == {n \in Nat : c[n] \notin S}
  <2>1. SUFFICES ASSUME T # {} PROVE FALSE
    OBVIOUS
  <2>2. PICK x \in T : \A y \in T : x <= y
    BY <2>1, LeastNat
  <2>3. x \in Nat /\ c[x] \notin S
    BY <2>2
  <2>4. x # 0 => c[x - 1] \in S
    <3>1. SUFFICES ASSUME x # 0 PROVE c[x - 1] \in S
      OBVIOUS
    <3>2. PICK m \in Nat : m = x - 1 /\ ~(x <= m)
      BY <2>3, <3>1
    <3>3. m \notin T
      BY <2>2, <3>2
    <3>4. QED
      BY <3>2, <3>3
  <2>5. Nested(d, c, x) \in S
    BY <2>3, <2>4, NestedTyped DEF S
  <2>6. QED
    BY <2>3, <2>5, <1>9
<1>11. QED
  BY <1>8, <1>9, <1>10 DEF S

LEMMA ContentIs == Style!Content = Contents(doc)
  BY DEF Style!Content, Contents, Nested, Pieces, Piece, Lists, UnitsOf

(* The objects of the elements els, n levels above the end of the stack.   *)
Todo(d, n, els) == Style!FlattenSeq(Pieces(d, Contents(d), n, els))
PieceOf(d, n, e) == Piece(d, Contents(d), n, e)

LEMMA TodoFacts ==
  ASSUME Style!StyleAssumption, NEW d \in Documents, NEW n \in Nat, NEW els \in Seq(Style!Element)
  PROVE  /\ Todo(d, n, els) \in Seq(STRING)
         /\ els = <<>> => Todo(d, n, els) = <<>>
         /\ els # <<>> => /\ PieceOf(d, n, Head(els)) \in Seq(STRING)
                          /\ Todo(d, n, els) = PieceOf(d, n, Head(els)) \o Todo(d, n, Tail(els))
<1>1. PICK c : c = Contents(d)
  OBVIOUS
<1>2. n # 0 => c[n - 1] \in [Lists(d) -> Seq(STRING)]
  <2>1. n # 0 => n - 1 \in Nat
    OBVIOUS
  <2>2. QED
    BY <2>1, <1>1, ContentsUnrolled
<1>3. PICK p \in Seq(Seq(STRING)) : p = Pieces(d, c, n, els)
  BY <1>2, PiecesTyped
<1>4. /\ Len(p) = Len(els) /\ \A k \in 1 .. Len(els) : p[k] = Piece(d, c, n, els[k])
      /\ Todo(d, n, els) = Style!FlattenSeq(p) /\ Todo(d, n, els) \in Seq(STRING)
  BY <1>1, <1>2, <1>3, PiecesTyped DEF Todo
<1>5. CASE els = <<>>
  <2>1. p = <<>> /\ Len(p) = 0
    BY <1>3, <1>4, <1>5
  <2>2. Style!FlattenSeq(p) = p
    BY <2>1, FlattenNone
  <2>3. QED
    BY <1>4, <1>5, <2>1, <2>2
<1>6. CASE els # <<>>
  <2>0. Tail(els) \in Seq(Style!Element)
    BY <1>6
  <2>1. PICK t \in Seq(Style!Element) : t = Tail(els)
    BY <2>0
  <2>2. Len(els) = Len(t) + 1 /\ Head(els) = els[1] /\ Len(t) \in Nat /\ \A k \in 1 .. Len(t) : t[k] = els[k + 1]
    BY <1>6, <2>1
  <2>3. PICK q \in Seq(Seq(STRING)) : q = Pieces(d, c, n, t)
    BY <1>2, PiecesTyped
  <2>4. /\ Len(q) = Len(t) /\ \A k \in 1 .. Len(t) : q[k] = Piece(d, c, n, t[k])
        /\ Todo(d, n, t) = Style!FlattenSeq(q)
    BY <1>1, <1>2, <2>3, PiecesTyped DEF Todo
  <2>5. Len(p) = Len(q) + 1 /\ \A k \in 1 .. Len(q) : q[k] = p[k + 1]
    <3>1. \A k \in 1 .. Len(t) : k + 1 \in 1 .. Len(els)
      BY <2>2
    <3>2. QED
      BY <1>4, <2>2, <2>4, <3>1
  <2>6. Style!FlattenSeq(p) = p[1] \o Style!FlattenSeq(q)
    BY <2>5, FlattenFirst
  <2>7. p[1] = PieceOf(d, n, Head(els)) /\ p[1] \in Seq(STRING)
    <3>1. 1 \in 1 .. Len(els) /\ 1 \in 1 .. Len(p)
      BY <1>4, <2>2
    <3>2. QED
      BY <3>1, <1>1, <1>3, <1>4, <2>2 DEF PieceOf
  <2>8. QED
    BY <1>4, <1>6, <2>1, <2>4, <2>6, <2>7
<1>7. QED
  BY <1>4, <1>5, <1>6

Names(out) == [k \in 1 .. Len(out) |-> out[k].name]

LEMMA NamesFacts ==
  ASSUME NEW s \in Seq(Styled)
  PROVE  /\ Names(s) \in Seq(STRING) /\ Len(Names(s)) = Len(s)
         /\ \A k \in 1 .. Len(s) : Names(s)[k] = s[k].name
         /\ s = <<>> => Names(s) = <<>>
<1>1. \A k \in 1 .. Len(s) : s[k].name \in STRING
  <2>1. \A o \in Styled : o.name \in STRING
    BY DEF Styled
  <2>2. \A k \in 1 .. Len(s) : s[k] \in Styled
    OBVIOUS
  <2>3. QED
    BY <2>1, <2>2
<1>2. Names(s) \in Seq(STRING) /\ Len(Names(s)) = Len(s) /\ \A k \in 1 .. Len(s) : Names(s)[k] = s[k].name
  BY <1>1 DEF Names
<1>3. QED
  BY <1>2

LEMMA OneMore ==
  ASSUME NEW S, NEW s \in Seq(S), NEW x \in S, NEW t, t = s \o <<x>>
  PROVE  /\ t \in Seq(S) /\ Len(t) = Len(s) + 1 /\ t[Len(s) + 1] = x
         /\ \A k \in 1 .. Len(s) : t[k] = s[k]
  OBVIOUS

LEMMA NamesAppend ==
  ASSUME NEW s \in Seq(Styled), NEW o \in Styled
  PROVE  Names(Append(s, o)) = Names(s) \o <<o.name>>
<1>0. Append(s, o) \in Seq(Styled)
  OBVIOUS
<1>1. PICK t \in Seq(Styled) : t = Append(s, o)
  BY <1>0
<1>2. Len(t) = Len(s) + 1 /\ t[Len(s) + 1] = o /\ \A k \in 1 .. Len(s) : t[k] = s[k]
  BY <1>1
<1>3. o.name \in STRING
  BY DEF Styled
<1>4. PICK a \in Seq(STRING) : a = Names(t)
  BY NamesFacts
<1>5. PICK b \in Seq(STRING) : b = Names(s)
  BY NamesFacts
<1>6. Len(a) = Len(s) + 1 /\ \A k \in 1 .. Len(t) : a[k] = t[k].name
  BY <1>2, <1>4, NamesFacts
<1>7. Len(b) = Len(s) /\ \A k \in 1 .. Len(s) : b[k] = s[k].name
  BY <1>5, NamesFacts
<1>8. PICK c : c = b \o <<o.name>>
  OBVIOUS
<1>9. c \in Seq(STRING) /\ Len(c) = Len(s) + 1 /\ c[Len(s) + 1] = o.name /\ \A k \in 1 .. Len(s) : c[k] = b[k]
  <2>1. PICK S : S = STRING
    OBVIOUS
  <2>2. PICK x \in S : x = o.name
    BY <1>3, <2>1
  <2>3. b \in Seq(S) /\ c = b \o <<x>>
    BY <1>5, <1>8, <2>1, <2>2
  <2>4. c \in Seq(S) /\ Len(c) = Len(b) + 1 /\ c[Len(b) + 1] = x /\ \A k \in 1 .. Len(b) : c[k] = b[k]
    BY <2>2, <2>3, OneMore
  <2>5. QED
    BY <1>7, <2>1, <2>2, <2>4
<1>10. \A k \in 1 .. Len(a) : a[k] = c[k]
  <2>1. SUFFICES ASSUME NEW k \in 1 .. Len(a) PROVE a[k] = c[k]
    OBVIOUS
  <2>2. CASE k = Len(s) + 1
    BY <2>2, <1>2, <1>6, <1>9
  <2>3. CASE k # Len(s) + 1
    <3>1. k \in 1 .. Len(s) /\ k \in 1 .. Len(t)
      BY <2>3, <1>2, <1>6
    <3>2. QED
      BY <3>1, <1>2, <1>6, <1>7, <1>9
  <2>4. QED
    BY <2>2, <2>3
<1>11. a = c
  BY <1>6, <1>9, <1>10, SeqEqual
<1>12. QED
  BY <1>1, <1>4, <1>5, <1>8, <1>11

LEMMA NamesJoined ==
  ASSUME NEW s \in Seq(Styled), NEW t \in Seq(Styled)
  PROVE  Names(s \o t) = Names(s) \o Names(t)
<1>0. s \o t \in Seq(Styled)
  OBVIOUS
<1>1. PICK u \in Seq(Styled) : u = s \o t
  BY <1>0
<1>2. /\ Len(u) = Len(s) + Len(t) /\ \A k \in 1 .. Len(s) : u[k] = s[k]
      /\ \A k \in 1 .. Len(u) : k > Len(s) => u[k] = t[k - Len(s)]
  BY <1>1
<1>3. PICK a \in Seq(STRING) : a = Names(u)
  BY NamesFacts
<1>4. PICK b \in Seq(STRING) : b = Names(s)
  BY NamesFacts
<1>5. PICK c \in Seq(STRING) : c = Names(t)
  BY NamesFacts
<1>6. /\ Len(a) = Len(u) /\ \A k \in 1 .. Len(u) : a[k] = u[k].name
      /\ Len(b) = Len(s) /\ \A k \in 1 .. Len(s) : b[k] = s[k].name
      /\ Len(c) = Len(t) /\ \A k \in 1 .. Len(t) : c[k] = t[k].name
  BY <1>3, <1>4, <1>5, NamesFacts
<1>7. PICK e : e = b \o c
  OBVIOUS
<1>8. /\ e \in Seq(STRING) /\ Len(e) = Len(b) + Len(c) /\ \A k \in 1 .. Len(b) : e[k] = b[k]
      /\ \A k \in 1 .. Len(e) : k > Len(b) => e[k] = c[k - Len(b)]
  BY <1>7
<1>9. \A k \in 1 .. Len(a) : a[k] = e[k]
  <2>1. SUFFICES ASSUME NEW k \in 1 .. Len(a) PROVE a[k] = e[k]
    OBVIOUS
  <2>2. CASE k <= Len(s)
    <3>1. k \in 1 .. Len(s) /\ k \in 1 .. Len(u)
      BY <2>2, <1>6
    <3>2. QED
      BY <3>1, <1>2, <1>6, <1>8
  <2>3. CASE ~(k <= Len(s))
    <3>1. k > Len(s) /\ k \in 1 .. Len(u) /\ k - Len(s) \in 1 .. Len(t) /\ k \in 1 .. Len(e)
      BY <2>3, <1>2, <1>6, <1>8
    <3>2. a[k] = t[k - Len(s)].name
      BY <3>1, <1>2, <1>6
    <3>3. e[k] = c[k - Len(s)]
      BY <3>1, <1>6, <1>8
    <3>4. QED
      BY <3>1, <3>2, <3>3, <1>6
  <2>4. QED
    BY <2>2, <2>3
<1>10. Len(a) = Len(e)
  BY <1>2, <1>6, <1>8
<1>11. a = e
  BY <1>8, <1>9, <1>10, SeqEqual
<1>12. QED
  BY <1>1, <1>3, <1>4, <1>5, <1>7, <1>11

-----------------------------------------------------------------------------
(* What a frame has to give: what it parsed, what is under way, and what   *)
(* is left.                                                                *)
Total(d, n, f, mid) == Names(f.out) \o (mid \o Todo(d, n, f.rest))

(* What the frames have to give is what the lists they parse stand for;    *)
(* what is under way in a frame is all that the next one has to give.      *)
Goals(d, fr, G, mid) ==
  /\ G \in Seq(Seq(STRING)) /\ Len(G) = Len(fr) /\ G[1] = Contents(d)[MaxDepth][d.content]
  /\ \A k \in 1 .. Len(fr) - 1 : G[k] = Total(d, MaxDepth - (k - 1), fr[k], G[k + 1])
  /\ G[Len(fr)] = Total(d, MaxDepth - (Len(fr) - 1), fr[Len(fr)], mid)

(* The top frame goes on.                                                  *)
LEMMA GoalsTop ==
  ASSUME NEW d, NEW fr, Len(fr) \in Nat \ {0}, NEW G, NEW mid, Goals(d, fr, G, mid),
         NEW new, Len(new) = Len(fr), \A k \in 1 .. Len(fr) : k # Len(fr) => new[k] = fr[k], NEW after,
         Total(d, MaxDepth - (Len(fr) - 1), new[Len(fr)], after) =
           Total(d, MaxDepth - (Len(fr) - 1), fr[Len(fr)], mid)
  PROVE  Goals(d, new, G, after)
<1>1. ASSUME NEW k \in 1 .. Len(new) - 1
      PROVE  G[k] = Total(d, MaxDepth - (k - 1), new[k], G[k + 1])
  <2>1. k \in 1 .. Len(fr) - 1 /\ k \in 1 .. Len(fr) /\ k # Len(fr)
    OBVIOUS
  <2>2. QED
    BY <2>1 DEF Goals
<1>2. QED
  BY <1>1 DEF Goals

(* A composite is entered: its unit stands for the piece of the element.   *)
LEMMA GoalsEnter ==
  ASSUME Style!StyleAssumption, NEW d \in Documents, NEW fr \in Seq(Frame), fr # <<>>, NEW G,
         Goals(d, fr, G, <<>>), Len(fr) < MaxDepth,
         NEW e, e = Head(fr[Len(fr)].rest), fr[Len(fr)].rest # <<>>,
         e.shown, e.tag = "CompositeObject", e.res \in UnitsOf(d),
         NEW new, Len(new) = Len(fr) + 1, \A k \in 1 .. Len(fr) - 1 : new[k] = fr[k],
         new[Len(fr)].rest = Tail(fr[Len(fr)].rest), new[Len(fr)].out = fr[Len(fr)].out,
         new[Len(fr) + 1].rest = d.compositeobj[e.res], new[Len(fr) + 1].out = <<>>
  PROVE  \E H : Goals(d, new, H, <<>>)
<1>1. PICK m \in Nat : m = Len(fr) /\ m # 0
  OBVIOUS
<1>2. MaxDepth \in Nat
  BY DocumentFacts
<1>3. PICK n \in Nat : n = MaxDepth - (m - 1) /\ n # 0
  <2>1. MaxDepth - (m - 1) \in Nat /\ MaxDepth - (m - 1) # 0
    BY <1>1, <1>2
  <2>2. QED
    BY <2>1
<1>4. PICK w \in Nat : w = n - 1 /\ w = MaxDepth - m
  <2>1. n - 1 \in Nat /\ n - 1 = MaxDepth - m
    BY <1>1, <1>2, <1>3
  <2>2. QED
    BY <2>1
<1>5. PICK f \in Frame : f = fr[m]
  BY <1>1
<1>6. /\ f.rest \in Seq(Style!Element) /\ f.out \in Seq(Styled) /\ f.rest # <<>>
      /\ Tail(f.rest) \in Seq(Style!Element) /\ e = Head(f.rest)
  <2>1. f.rest \in Seq(Style!Element) /\ f.out \in Seq(Styled)
    BY <1>5 DEF Frame
  <2>2. f.rest # <<>> /\ e = Head(f.rest)
    BY <1>1, <1>5
  <2>3. QED
    BY <2>1, <2>2
<1>7. PICK unit : unit = d.compositeobj[e.res]
  OBVIOUS
<1>8. unit \in Lists(d) /\ unit \in Seq(Style!Element)
  BY <1>7, ListsFacts
<1>9. PICK u : u = Todo(d, w, unit)
  OBVIOUS
<1>10. u \in Seq(STRING) /\ u = PieceOf(d, n, e)
  <2>1. u \in Seq(STRING)
    BY <1>8, <1>9, TodoFacts
  <2>2. Contents(d)[w] = Nested(d, Contents(d), w)
    BY ContentsUnrolled
  <2>3. Contents(d)[w][unit] = Todo(d, w, unit)
    BY <2>2, <1>8 DEF Nested, Todo
  <2>4. PieceOf(d, n, e) = Contents(d)[w][unit]
    BY <1>3, <1>4, <1>7 DEF PieceOf, Piece
  <2>5. QED
    BY <2>1, <2>3, <2>4, <1>9
<1>11. PICK t \in Seq(STRING) : t = Todo(d, n, Tail(f.rest))
  BY <1>6, TodoFacts
<1>12. Todo(d, n, f.rest) = u \o t
  BY <1>6, <1>10, <1>11, TodoFacts
<1>13. PICK s \in Seq(STRING) : s = Names(f.out)
  BY <1>6, NamesFacts
<1>14. G[m] = s \o (u \o t)
  <2>1. G[m] = Names(f.out) \o (<<>> \o Todo(d, n, f.rest))
    BY <1>1, <1>3, <1>5 DEF Goals, Total
  <2>2. \A x \in Seq(STRING) : <<>> \o x = x
    OBVIOUS
  <2>3. u \o t \in Seq(STRING)
    BY <1>10
  <2>4. QED
    BY <2>1, <2>2, <2>3, <1>12, <1>13
<1>15. G \in Seq(Seq(STRING)) /\ Len(G) = m
  BY <1>1 DEF Goals
<1>16. PICK H : H = Append(G, u)
  OBVIOUS
<1>17. /\ H \in Seq(Seq(STRING)) /\ Len(H) = m + 1 /\ H[m + 1] = u /\ \A k \in 1 .. m : H[k] = G[k]
  BY <1>10, <1>15, <1>16
<1>18. H[1] = Contents(d)[MaxDepth][d.content]
  <2>1. 1 \in 1 .. m
    BY <1>1
  <2>2. QED
    BY <2>1, <1>17 DEF Goals
<1>19. ASSUME NEW k \in 1 .. m
       PROVE  H[k] = Total(d, MaxDepth - (k - 1), new[k], H[k + 1])
  <2>1. CASE k = m
    <3>1. /\ new[k].rest = Tail(f.rest) /\ new[k].out = f.out /\ H[k + 1] = u /\ H[k] = G[m]
          /\ MaxDepth - (k - 1) = n
      BY <2>1, <1>1, <1>3, <1>5, <1>17
    <3>2. Total(d, n, new[k], u) = s \o (u \o t)
      BY <3>1, <1>11, <1>13 DEF Total
    <3>3. QED
      BY <3>1, <3>2, <1>14
  <2>2. CASE k # m
    <3>1. k \in 1 .. Len(fr) - 1 /\ k + 1 \in 1 .. m
      BY <2>2, <1>1
    <3>2. G[k] = Total(d, MaxDepth - (k - 1), fr[k], G[k + 1])
      BY <3>1 DEF Goals
    <3>3. H[k] = G[k] /\ H[k + 1] = G[k + 1] /\ new[k] = fr[k]
      BY <3>1, <1>17
    <3>4. QED
      BY <3>2, <3>3
  <2>3. QED
    BY <2>1, <2>2
<1>20. H[m + 1] = Total(d, w, new[m + 1], <<>>)
  <2>1. new[m + 1].rest = unit /\ new[m + 1].out = <<>>
    BY <1>1, <1>7
  <2>2. Names(<<>>) = <<>>
    BY DEF Names
  <2>3. \A x \in Seq(STRING) : <<>> \o (<<>> \o x) = x
    OBVIOUS
  <2>4. Total(d, w, new[m + 1], <<>>) = <<>> \o (<<>> \o u)
    BY <2>1, <2>2, <1>9 DEF Total
  <2>5. QED
    BY <2>3, <2>4, <1>10, <1>17
<1>21. Len(new) = m + 1 /\ Len(new) - 1 = m
  BY <1>1
<1>22. Goals(d, new, H, <<>>)
  BY <1>4, <1>17, <1>18, <1>19, <1>20, <1>21 DEF Goals
<1>23. QED
  BY <1>22

(* A composite is left: all it had to give is with the frame around it.    *)
LEMMA GoalsLeave ==
  ASSUME Style!StyleAssumption, NEW d \in Documents, NEW fr \in Seq(Frame), Len(fr) > 1, NEW G,
         Goals(d, fr, G, <<>>), Len(fr) <= MaxDepth, fr[Len(fr)].rest = <<>>,
         NEW moved \in Seq(Styled), Names(moved) = Names(fr[Len(fr)].out),
         NEW new, Len(new) = Len(fr) - 1, \A k \in 1 .. Len(fr) - 2 : new[k] = fr[k],
         new[Len(fr) - 1].rest = fr[Len(fr) - 1].rest,
         new[Len(fr) - 1].out = fr[Len(fr) - 1].out \o moved
  PROVE  \E H : Goals(d, new, H, <<>>)
<1>1. PICK m \in Nat : m = Len(fr) - 1 /\ m # 0 /\ Len(fr) = m + 1
  OBVIOUS
<1>2. MaxDepth \in Nat
  BY DocumentFacts
<1>2a. MaxDepth - (m - 1) \in Nat /\ MaxDepth - m \in Nat
  BY <1>1, <1>2
<1>3. PICK n \in Nat : n = MaxDepth - (m - 1)
  BY <1>2a
<1>4. PICK w \in Nat : w = MaxDepth - m
  BY <1>2a
<1>5. PICK f \in Frame : f = fr[m]
  BY <1>1
<1>6. PICK g \in Frame : g = fr[m + 1]
  BY <1>1
<1>7. f.rest \in Seq(Style!Element) /\ f.out \in Seq(Styled) /\ g.out \in Seq(Styled) /\ g.rest = <<>>
  BY <1>1, <1>5, <1>6 DEF Frame
<1>8. PICK a \in Seq(STRING) : a = Names(f.out)
  BY <1>7, NamesFacts
<1>9. PICK b \in Seq(STRING) : b = Names(g.out)
  BY <1>7, NamesFacts
<1>10. PICK t \in Seq(STRING) : t = Todo(d, n, f.rest)
  BY <1>7, TodoFacts
<1>11. G[m + 1] = b
  <2>1. G[m + 1] = Names(g.out) \o (<<>> \o Todo(d, w, g.rest))
    <3>1. MaxDepth - (Len(fr) - 1) = w
      BY <1>1, <1>4
    <3>2. QED
      BY <3>1, <1>1, <1>6 DEF Goals, Total
  <2>2. Todo(d, w, g.rest) = <<>>
    <3>1. <<>> \in Seq(Style!Element)
      OBVIOUS
    <3>2. QED
      BY <3>1, <1>7, TodoFacts
  <2>3. \A x \in Seq(STRING) : x \o (<<>> \o <<>>) = x
    OBVIOUS
  <2>4. QED
    BY <2>1, <2>2, <2>3, <1>9
<1>12. G[m] = a \o (b \o t)
  <2>1. m \in 1 .. Len(fr) - 1
    BY <1>1
  <2>2. G[m] = Total(d, MaxDepth - (m - 1), fr[m], G[m + 1])
    BY <2>1 DEF Goals
  <2>3. QED
    BY <2>2, <1>3, <1>5, <1>8, <1>10, <1>11 DEF Total
<1>13. G \in Seq(Seq(STRING)) /\ Len(G) = m + 1
  BY <1>1 DEF Goals
<1>14. PICK H : H = [k \in 1 .. m |-> G[k]]
  OBVIOUS
<1>15. H \in Seq(Seq(STRING)) /\ Len(H) = m /\ \A k \in 1 .. m : H[k] = G[k]
  BY <1>13, <1>14
<1>16. H[1] = Contents(d)[MaxDepth][d.content]
  <2>1. 1 \in 1 .. m
    BY <1>1
  <2>2. QED
    BY <2>1, <1>15 DEF Goals
<1>17. ASSUME NEW k \in 1 .. m - 1
       PROVE  H[k] = Total(d, MaxDepth - (k - 1), new[k], H[k + 1])
  <2>1. k \in 1 .. Len(fr) - 2 /\ k \in 1 .. Len(fr) - 1 /\ k \in 1 .. m /\ k + 1 \in 1 .. m
    BY <1>1
  <2>2. G[k] = Total(d, MaxDepth - (k - 1), fr[k], G[k + 1])
    BY <2>1 DEF Goals
  <2>3. H[k] = G[k] /\ H[k + 1] = G[k + 1] /\ new[k] = fr[k]
    BY <2>1, <1>15
  <2>4. QED
    BY <2>2, <2>3
<1>18. H[m] = Total(d, n, new[m], <<>>)
  <2>1. new[m].rest = f.rest /\ new[m].out = f.out \o moved
    BY <1>1, <1>5
  <2>2. Names(f.out \o moved) = a \o b
    <3>1. Names(moved) = b
      BY <1>1, <1>6, <1>9
    <3>2. QED
      BY <3>1, <1>7, <1>8, NamesJoined
  <2>3. Total(d, n, new[m], <<>>) = (a \o b) \o (<<>> \o t)
    BY <2>1, <2>2, <1>10 DEF Total
  <2>4. <<>> \o t = t
    BY <1>10
  <2>5. Total(d, n, new[m], <<>>) = a \o (b \o t)
    <3>1. PICK S : S = STRING
      OBVIOUS
    <3>2. a \in Seq(S) /\ b \in Seq(S) /\ t \in Seq(S)
      BY <1>8, <1>9, <1>10, <3>1
    <3>3. (a \o b) \o t = a \o (b \o t)
      BY ONLY <3>2, Assoc
    <3>4. QED
      BY <2>3, <2>4, <3>3
  <2>6. m \in 1 .. m
    BY <1>1
  <2>7. QED
    BY <2>5, <2>6, <1>12, <1>15
<1>19. Len(new) = m
  BY <1>1
<1>20. Goals(d, new, H, <<>>)
  BY <1>3, <1>15, <1>16, <1>17, <1>18, <1>19 DEF Goals
<1>21. QED
  BY <1>20

(* The object under way.                                                   *)
Mid(o) == IF o = Style!NoObject THEN <<>> ELSE <<o.name>>

(* The objects parsed, the one under way and the elements that are left    *)
(* make up what the layer stands for.                                      *)
OrderInv ==
  /\ page # <<>> => Names(page) = Contents(doc)[MaxDepth][doc.content]
  /\ state = "busy" => \E G : Goals(doc, frames, G, Mid(obj))

(* The next element is taken off the list ...                              *)
LEMMA TotalTaken ==
  ASSUME Style!StyleAssumption, NEW d \in Documents, NEW n \in Nat, NEW f \in Frame, NEW g,
         f.rest # <<>>, g.rest = Tail(f.rest), g.out = f.out
  PROVE  Total(d, n, g, PieceOf(d, n, Head(f.rest))) = Total(d, n, f, <<>>)
<1>1. f.rest \in Seq(Style!Element) /\ Tail(f.rest) \in Seq(Style!Element)
  BY DEF Frame
<1>2. PICK p \in Seq(STRING) : p = PieceOf(d, n, Head(f.rest))
  BY <1>1, TodoFacts
<1>3. PICK t \in Seq(STRING) : t = Todo(d, n, Tail(f.rest))
  BY <1>1, TodoFacts
<1>4. Todo(d, n, f.rest) = p \o t
  BY <1>1, <1>2, <1>3, TodoFacts
<1>5. <<>> \o (p \o t) = p \o t
  <2>1. p \o t \in Seq(STRING)
    BY <1>2, <1>3
  <2>2. \A x \in Seq(STRING) : <<>> \o x = x
    OBVIOUS
  <2>3. QED
    BY <2>1, <2>2
<1>6. QED
  BY <1>2, <1>3, <1>4, <1>5 DEF Total

(* ... and its object put behind the others.                               *)
LEMMA TotalPut ==
  ASSUME Style!StyleAssumption, NEW d \in Documents, NEW n \in Nat, NEW f \in Frame, NEW g, NEW o \in Styled,
         g.rest = f.rest, g.out = Append(f.out, o)
  PROVE  Total(d, n, g, <<>>) = Total(d, n, f, <<o.name>>)
<1>1. f.rest \in Seq(Style!Element) /\ f.out \in Seq(Styled)
  BY DEF Frame
<1>2. PICK S : S = STRING
  OBVIOUS
<1>3. PICK s \in Seq(S) : s = Names(f.out)
  BY <1>1, <1>2, NamesFacts
<1>4. PICK t \in Seq(S) : t = Todo(d, n, f.rest)
  BY <1>1, <1>2, TodoFacts
<1>5. PICK x \in S : x = o.name
  BY <1>2 DEF Styled
<1>5a. <<x>> \in Seq(S)
  OBVIOUS
<1>6. PICK u \in Seq(S) : u = <<x>>
  BY <1>5a
<1>7. Names(g.out) = s \o u
  BY <1>1, <1>3, <1>5, <1>6, NamesAppend
<1>8. <<>> \o t = t
  BY <1>4
<1>9. (s \o u) \o t = s \o (u \o t)
  BY <1>3, <1>4, <1>6, Assoc
<1>10. QED
  BY <1>4, <1>3, <1>5, <1>6, <1>7, <1>8, <1>9 DEF Total

(* The level of the top frame.                                             *)
Level == MaxDepth - (Len(frames) - 1)

LEMMA LevelFacts ==
  ASSUME Style!StyleAssumption, StyleTyped, StyleInv, state = "busy"
  PROVE  Level \in Nat /\ Level # 0 /\ Len(frames) <= MaxDepth
<1>1. MaxDepth \in Nat /\ Len(frames) \in Nat \ {0} /\ Len(draw) \in Nat
  BY TopFacts, DocFacts DEF StyleTyped
<1>2. Len(frames) + Len(draw) <= MaxDepth
  BY DEF StyleInv
<1>3. QED
  BY <1>1, <1>2 DEF Level

(* A step of the top frame.                                                *)
LEMMA OrderTop ==
  ASSUME Style!StyleAssumption, StyleTyped, OrderInv, state = "busy",
         doc' = doc, page' = page,
         NEW f \in Frame, frames' = [frames EXCEPT ![Len(frames)] = f],
         Total(doc, Level, f, Mid(obj')) = Total(doc, Level, Style!Top, Mid(obj))
  PROVE  OrderInv'
<1>1. /\ Len(frames') = Len(frames) /\ frames'[Len(frames)] = f
      /\ \A k \in 1 .. Len(frames) : k # Len(frames) => frames'[k] = frames[k]
  BY TopReplaced
<1>2. Len(frames) \in Nat \ {0} /\ Style!Top = frames[Len(frames)]
  BY TopFacts
<1>3. PICK G : Goals(doc, frames, G, Mid(obj))
  BY DEF OrderInv
<1>4. PICK fr : fr = frames
  OBVIOUS
<1>5. PICK new : new = frames'
  OBVIOUS
<1>6. PICK mid : mid = Mid(obj)
  OBVIOUS
<1>7. PICK after : after = Mid(obj')
  OBVIOUS
<1>8. Goals(doc, new, G, after)
  <2>1. /\ Len(fr) \in Nat \ {0} /\ Goals(doc, fr, G, mid) /\ Len(new) = Len(fr)
        /\ \A k \in 1 .. Len(fr) : k # Len(fr) => new[k] = fr[k]
    BY <1>1, <1>2, <1>3, <1>4, <1>5, <1>6
  <2>2. Total(doc, MaxDepth - (Len(fr) - 1), new[Len(fr)], after) =
          Total(doc, MaxDepth - (Len(fr) - 1), fr[Len(fr)], mid)
    BY <1>1, <1>2, <1>4, <1>5, <1>6, <1>7 DEF Level
  <2>3. QED
    BY <2>1, <2>2, GoalsTop
<1>9. Goals(doc', frames', G, Mid(obj'))
  BY <1>5, <1>7, <1>8
<1>10. QED
  BY <1>9 DEF OrderInv

LEMMA OrderParseOther ==
  ASSUME Style!StyleAssumption, StyleTyped, StyleInv, OrderInv, Style!ParseOther
  PROVE  OrderInv'
<1>0. PICK e : e = Head(Style!Top.rest)
  OBVIOUS
<1>1. /\ state = "busy" /\ obj = Style!NoObject /\ Style!Top.rest # <<>>
      /\ \/ ~e.shown \/ e.tag = "ImageObject"
         \/ e.tag = "CompositeObject" /\ e.res \notin UnitsOf(doc)
      /\ frames' = [frames EXCEPT ![Len(frames)] = OtherFrame(e)]
      /\ doc' = doc /\ obj' = obj /\ page' = page
  BY <1>0 DEF Style!ParseOther, Style!Between, OtherFrame, UnitsOf
<1>2. /\ OtherFrame(e) \in Frame /\ OtherFrame(e).rest = Tail(Style!Top.rest)
      /\ OtherFrame(e).out = IF e.shown /\ e.tag = "ImageObject"
                             THEN Append(Style!Top.out, Style!NewObject(e, Style!Top.layer))
                             ELSE Style!Top.out
  BY <1>0, <1>1, OtherFrameFacts
<1>3. /\ doc \in Documents /\ Level \in Nat /\ Style!Top \in Frame /\ e \in Style!Element
      /\ Style!Top.layer \in Nat
  BY <1>0, <1>1, LevelFacts, TopFacts DEF StyleTyped
<1>4. PICK n \in Nat : n = Level
  BY <1>3
<1>5. PICK f \in Frame : f = Style!Top
  BY <1>3
<1>6. PICK g \in Frame : g = OtherFrame(e)
  BY <1>2
<1>7. Total(doc, n, g, <<>>) = Total(doc, n, f, <<>>)
  <2>1. CASE e.shown /\ e.tag = "ImageObject"
    <3>1. PICK o \in Styled : o = Style!NewObject(e, Style!Top.layer)
      BY <1>3, NewObjectTyped
    <3>2. o.name = e.name
      BY <3>1 DEF Style!NewObject
    <3>3. [f EXCEPT !.rest = Tail(@)] \in Frame
      <4>1. Tail(Style!Top.rest) \in Seq(Style!Element)
        BY <1>1, TopFacts
      <4>2. QED
        BY <4>1, <1>5 DEF Frame
    <3>4. PICK taken \in Frame : taken.rest = Tail(f.rest) /\ taken.out = f.out
      BY <3>3 DEF Frame
    <3>5. PieceOf(doc, n, e) = <<e.name>>
      BY <2>1 DEF PieceOf, Piece
    <3>6. f.rest # <<>> /\ e = Head(f.rest)
      BY <1>0, <1>1, <1>5
    <3>7. Total(doc, n, taken, <<e.name>>) = Total(doc, n, f, <<>>)
      BY <3>4, <3>5, <3>6, <1>3, TotalTaken
    <3>8. g.rest = taken.rest /\ g.out = Append(taken.out, o)
      BY <1>2, <1>5, <1>6, <2>1, <3>1, <3>4
    <3>9. Total(doc, n, g, <<>>) = Total(doc, n, taken, <<o.name>>)
      <4>1. PICK d \in Documents : d = doc
        BY <1>3
      <4>2. Total(d, n, g, <<>>) = Total(d, n, taken, <<o.name>>)
        BY <3>8, TotalPut
      <4>3. QED
        BY <4>1, <4>2
    <3>10. QED
      BY <3>2, <3>7, <3>9
  <2>2. CASE ~(e.shown /\ e.tag = "ImageObject")
    <3>1. PieceOf(doc, n, e) = <<>>
      BY <1>1, <2>2 DEF PieceOf, Piece
    <3>2. f.rest # <<>> /\ e = Head(f.rest) /\ g.rest = Tail(f.rest) /\ g.out = f.out
      BY <1>0, <1>1, <1>2, <1>5, <1>6, <2>2
    <3>3. QED
      BY <3>1, <3>2, <1>3, TotalTaken
  <2>3. QED
    BY <2>1, <2>2
<1>8. Mid(obj') = <<>> /\ Mid(obj) = <<>>
  BY <1>1 DEF Mid
<1>9. QED
  BY <1>1, <1>2, <1>4, <1>5, <1>6, <1>7, <1>8, OrderTop

LEMMA OrderParseObject ==
  ASSUME Style!StyleAssumption, StyleTyped, StyleInv, OrderInv, Style!ParseObject
  PROVE  OrderInv'
<1> DEFINE g == [Style!Top EXCEPT !.rest = Tail(@)]
<1>0. PICK e : e = Head(Style!Top.rest)
  OBVIOUS
<1>1. /\ state = "busy" /\ obj = Style!NoObject /\ Style!Top.rest # <<>>
      /\ e.shown /\ e.tag \in {"PathObject", "TextObject"}
      /\ obj' = Style!NewObject(e, Style!Top.layer)
      /\ frames' = [frames EXCEPT ![Len(frames)] = g]
      /\ doc' = doc /\ page' = page
  BY <1>0 DEF Style!ParseObject, Style!Between, Style!Top
<1>2. /\ e \in Style!Element /\ Style!Top.layer \in Nat /\ g \in Frame
      /\ g.out = Style!Top.out /\ g.rest = Tail(Style!Top.rest)
  BY <1>0, <1>1, TopFacts DEF Frame
<1> HIDE DEF g
<1>3. doc \in Documents /\ Level \in Nat /\ Style!Top \in Frame
  BY <1>1, LevelFacts, TopFacts DEF StyleTyped
<1>4. PICK n \in Nat : n = Level
  BY <1>3
<1>5. PICK f \in Frame : f = Style!Top
  BY <1>3
<1>6. Mid(obj) = <<>> /\ Mid(obj') = <<e.name>>
  <2>1. obj' \in Styled /\ obj'.name = e.name
    BY <1>1, <1>2, NewObjectTyped DEF Style!NewObject
  <2>2. QED
    BY <2>1, <1>1, StyledIsSome DEF Mid
<1>7. Total(doc, n, g, <<e.name>>) = Total(doc, n, f, <<>>)
  <2>1. PieceOf(doc, n, e) = <<e.name>>
    BY <1>1 DEF PieceOf, Piece
  <2>2. f.rest # <<>> /\ e = Head(f.rest) /\ g.rest = Tail(f.rest) /\ g.out = f.out
    BY <1>0, <1>1, <1>2, <1>5
  <2>3. QED
    BY <2>1, <2>2, <1>3, TotalTaken
<1>8. QED
  BY <1>1, <1>2, <1>4, <1>5, <1>6, <1>7, OrderTop

LEMMA OrderFinishObject ==
  ASSUME Style!StyleAssumption, StyleTyped, StyleInv, OrderInv, Style!FinishObject
  PROVE  OrderInv'
<1> DEFINE g == [Style!Top EXCEPT !.out = Append(@, Style!Finished(obj))]
<1>0. /\ obj # Style!NoObject /\ frames' = [frames EXCEPT ![Len(frames)] = g]
      /\ obj' = Style!NoObject /\ doc' = doc /\ page' = page
  BY DEF Style!FinishObject, Style!Top
<1>1. state = "busy" /\ obj \in Styled /\ doc \in Documents
  BY <1>0 DEF StyleTyped
<1>2. PICK o \in Styled : o = Style!Finished(obj) /\ o.name = obj.name
  BY <1>1, FinishedTyped
<1>3. Style!Top.out \in Seq(Styled) /\ Append(Style!Top.out, o) \in Seq(Styled) /\ Style!Top \in Frame
  BY <1>1, <1>2, TopFacts
<1>4. g \in Frame /\ g.out = Append(Style!Top.out, o) /\ g.rest = Style!Top.rest
  BY <1>2, <1>3 DEF Frame
<1> HIDE DEF g
<1>5. PICK n \in Nat : n = Level
  BY <1>1, LevelFacts
<1>6. PICK f \in Frame : f = Style!Top
  BY <1>3
<1>7. Mid(obj) = <<o.name>> /\ Mid(obj') = <<>>
  BY <1>0, <1>2 DEF Mid
<1>8. Total(doc, n, g, <<>>) = Total(doc, n, f, <<o.name>>)
  BY <1>1, <1>4, <1>6, TotalPut
<1>9. QED
  BY <1>0, <1>1, <1>4, <1>5, <1>6, <1>7, <1>8, OrderTop

LEMMA OrderOverflow ==
  ASSUME OrderInv, Style!Overflow
  PROVE  OrderInv'
<1>1. state' = "dead" /\ doc' = doc /\ page' = page
  BY DEF Style!Overflow
<1>2. QED
  BY <1>1 DEF OrderInv

LEMMA OrderDraw ==
  ASSUME StyleTyped, OrderInv, Style!CallDrawParam \/ Style!Recurse \/ Style!Apply
  PROVE  OrderInv'
<1>1. CASE Style!Overflow
  BY <1>1, OrderOverflow
<1>2. CASE ~Style!Overflow
  <2>1. doc' = doc /\ page' = page /\ frames' = frames /\ state' = state
    BY <1>2 DEF Style!CallDrawParam, Style!Recurse, Style!Apply
  <2>2. Mid(obj') = Mid(obj)
    <3>1. CASE obj' = obj
      BY <3>1
    <3>2. CASE Style!Apply
      <4>1. draw # <<>> /\ obj' = Style!Applied(obj, draw[Len(draw)])
        BY <3>2 DEF Style!Apply
      <4>2. obj \in Styled /\ draw[Len(draw)] \in DrawCall
        BY <4>1 DEF StyleTyped
      <4>3. obj' \in Styled /\ obj'.name = obj.name
        BY <4>1, <4>2, AppliedTyped
      <4>4. QED
        BY <4>2, <4>3, StyledIsSome DEF Mid
    <3>3. QED
      BY <3>1, <3>2, <1>2 DEF Style!CallDrawParam, Style!Recurse
  <2>3. QED
    BY <2>1, <2>2 DEF OrderInv
<1>3. QED
  BY <1>1, <1>2

LEMMA OrderEnterComposite ==
  ASSUME Style!StyleAssumption, StyleTyped, StyleInv, OrderInv, Style!EnterComposite
  PROVE  OrderInv'
<1>1. CASE Style!Depth >= MaxDepth
  <2>1. Style!Overflow
    BY <1>1 DEF Style!EnterComposite
  <2>2. QED
    BY <2>1, OrderOverflow
<1>2. CASE ~(Style!Depth >= MaxDepth)
  <2>0. PICK e : e = Head(Style!Top.rest)
    OBVIOUS
  <2>1. /\ state = "busy" /\ obj = Style!NoObject /\ draw = <<>> /\ Style!Top.rest # <<>>
        /\ Len(frames) \in Nat \ {0} /\ doc \in Documents
        /\ e.shown /\ e.tag = "CompositeObject" /\ e.res \in UnitsOf(doc)
        /\ doc' = doc /\ obj' = obj /\ page' = page
        /\ Len(frames') = Len(frames) + 1
        /\ \A k \in 1 .. Len(frames) - 1 : frames'[k] = frames[k]
        /\ frames'[Len(frames)].rest = Tail(Style!Top.rest) /\ frames'[Len(frames)].out = Style!Top.out
        /\ frames'[Len(frames) + 1].rest = doc.compositeobj[e.res]
        /\ frames'[Len(frames) + 1].out = <<>>
    BY <1>2, <2>0, EnterFacts DEF Units, UnitsOf
  <2>2. PICK fr \in Seq(Frame) : fr = frames
    BY DEF StyleTyped
  <2>3. PICK new : new = frames'
    OBVIOUS
  <2>4. Style!Top = fr[Len(fr)]
    BY <2>2 DEF Style!Top
  <2>5. Len(fr) < MaxDepth /\ fr # <<>>
    <3>1. Len(draw) = 0 /\ MaxDepth \in Nat
      BY <2>1, DocFacts
    <3>2. QED
      BY <3>1, <1>2, <2>1, <2>2 DEF Style!Depth
  <2>6. PICK G : Goals(doc, fr, G, <<>>)
    BY <2>1, <2>2 DEF OrderInv, Mid
  <2>7. \E H : Goals(doc, new, H, <<>>)
    <3>1. /\ e = Head(fr[Len(fr)].rest) /\ fr[Len(fr)].rest # <<>>
          /\ Len(new) = Len(fr) + 1 /\ \A k \in 1 .. Len(fr) - 1 : new[k] = fr[k]
          /\ new[Len(fr)].rest = Tail(fr[Len(fr)].rest) /\ new[Len(fr)].out = fr[Len(fr)].out
          /\ new[Len(fr) + 1].rest = doc.compositeobj[e.res] /\ new[Len(fr) + 1].out = <<>>
      BY <2>0, <2>1, <2>2, <2>3, <2>4
    <3>2. QED
      BY <3>1, <2>1, <2>2, <2>5, <2>6, GoalsEnter
  <2>8. Mid(obj') = <<>>
    BY <2>1 DEF Mid
  <2>9. QED
    BY <2>1, <2>3, <2>7, <2>8 DEF OrderInv
<1>3. QED
  BY <1>1, <1>2

LEMMA OrderLeaveComposite ==
  ASSUME Style!StyleAssumption, StyleTyped, StyleInv, OrderInv, Style!LeaveComposite
  PROVE  OrderInv'
<1>1. /\ state = "busy" /\ obj = Style!NoObject /\ Style!Top.rest = <<>> /\ Len(frames) \in Nat /\ Len(frames) > 1
      /\ doc' = doc /\ obj' = obj /\ page' = page
      /\ Moved \in Seq(Styled)
      /\ OuterAfter.out = Outer.out \o Moved /\ OuterAfter.rest = Outer.rest
      /\ Len(frames') = Len(frames) - 1 /\ frames'[Len(frames) - 1] = OuterAfter
      /\ \A k \in 1 .. Len(frames) - 2 : frames'[k] = frames[k]
  BY LeaveFacts
<1>2. PICK moved \in Seq(Styled) : moved = Moved
  BY <1>1
<1>3. PICK out \in Seq(Styled) : out = Style!Top.out
  BY <1>1, TopFacts
<1>4. Names(moved) = Names(out)
  BY <1>2, <1>3 DEF Moved
<1>5. PICK fr \in Seq(Frame) : fr = frames
  BY DEF StyleTyped
<1>6. PICK new : new = frames'
  OBVIOUS
<1>7. PICK G : Goals(doc, fr, G, <<>>)
  BY <1>1, <1>5 DEF OrderInv, Mid
<1>8. /\ Style!Top = fr[Len(fr)] /\ Outer = fr[Len(fr) - 1] /\ doc \in Documents
      /\ Len(fr) <= MaxDepth
  BY <1>1, <1>5, LevelFacts DEF Style!Top, Outer, StyleTyped
<1>9. \E H : Goals(doc, new, H, <<>>)
  <2>1. /\ Len(fr) > 1 /\ fr[Len(fr)].rest = <<>> /\ Names(moved) = Names(fr[Len(fr)].out)
        /\ Len(new) = Len(fr) - 1 /\ \A k \in 1 .. Len(fr) - 2 : new[k] = fr[k]
        /\ new[Len(fr) - 1].rest = fr[Len(fr) - 1].rest
        /\ new[Len(fr) - 1].out = fr[Len(fr) - 1].out \o moved
    BY <1>1, <1>2, <1>3, <1>4, <1>5, <1>6, <1>8
  <2>2. QED
    BY <2>1, <1>7, <1>8, GoalsLeave
<1>10. Mid(obj') = <<>>
  BY <1>1 DEF Mid
<1>11. QED
  BY <1>1, <1>6, <1>9, <1>10 DEF OrderInv

LEMMA OrderLayerParsed ==
  ASSUME Style!StyleAssumption, StyleTyped, StyleInv, OrderInv, Style!LayerParsed
  PROVE  OrderInv'
<1>1. /\ state = "busy" /\ obj = Style!NoObject /\ Len(frames) = 1 /\ Style!Top.rest = <<>>
      /\ page' = Style!Top.out /\ state' = "idle" /\ doc' = doc
  BY DEF Style!LayerParsed, Style!Between
<1>2. PICK f \in Frame : f = Style!Top /\ f = frames[1]
  BY <1>1, TopFacts
<1>3. PICK G : Goals(doc, frames, G, <<>>)
  BY <1>1 DEF OrderInv, Mid
<1>4. MaxDepth \in Nat /\ doc \in Documents
  BY DocFacts DEF StyleTyped
<1>5. MaxDepth - (1 - 1) = MaxDepth
  BY <1>4
<1>6. G[1] = Total(doc, MaxDepth, f, <<>>)
  BY <1>1, <1>2, <1>3, <1>5 DEF Goals
<1>7. Todo(doc, MaxDepth, f.rest) = <<>>
  <2>1. f.rest = <<>> /\ f.rest \in Seq(Style!Element)
    BY <1>1, <1>2 DEF Frame
  <2>2. QED
    BY <2>1, <1>4, TodoFacts
<1>8. Total(doc, MaxDepth, f, <<>>) = Names(f.out)
  <2>1. Names(f.out) \in Seq(STRING)
    BY NamesFacts DEF Frame
  <2>2. \A x \in Seq(STRING) : x \o (<<>> \o <<>>) = x
    OBVIOUS
  <2>3. QED
    BY <2>1, <2>2, <1>7 DEF Total
<1>9. G[1] = Contents(doc)[MaxDepth][doc.content]
  BY <1>3 DEF Goals
<1>10. QED
  BY <1>1, <1>2, <1>6, <1>8, <1>9 DEF OrderInv

LEMMA OrderParseLayer ==
  ASSUME Style!StyleAssumption, StyleTyped, NEW d \in Documents, Style!ParseLayer(d)
  PROVE  OrderInv'
<1>1. /\ state \in {"idle", "dead"} /\ doc' = d /\ page' = <<>> /\ obj' = obj
      /\ frames' = <<[rest |-> d.content, out |-> <<>>, layer |-> d.layer]>>
  BY DEF Style!ParseLayer
<1>2. obj = Style!NoObject
  BY <1>1 DEF StyleTyped
<1>3. PICK f : f = frames'[1] /\ Len(frames') = 1 /\ f.rest = d.content /\ f.out = <<>>
  BY <1>1
<1>4. MaxDepth \in Nat /\ d.content \in Lists(d) /\ d.content \in Seq(Style!Element)
  BY ListsFacts DEF Style!StyleAssumption
<1>5. PICK t \in Seq(STRING) : t = Todo(d, MaxDepth, d.content)
  BY <1>4, TodoFacts
<1>6. t = Contents(d)[MaxDepth][d.content]
  <2>1. Contents(d)[MaxDepth] = Nested(d, Contents(d), MaxDepth)
    BY <1>4, ContentsUnrolled
  <2>2. QED
    BY <2>1, <1>4, <1>5 DEF Nested, Todo
<1>7. Total(d, MaxDepth, f, <<>>) = t
  <2>1. Names(<<>>) = <<>>
    BY DEF Names
  <2>2. \A x \in Seq(STRING) : <<>> \o (<<>> \o x) = x
    OBVIOUS
  <2>3. Total(d, MaxDepth, f, <<>>) = <<>> \o (<<>> \o t)
    BY <2>1, <1>3, <1>5 DEF Total
  <2>4. QED
    BY <2>2, <2>3
<1>8. PICK G : G = <<t>>
  OBVIOUS
<1>9. G \in Seq(Seq(STRING)) /\ Len(G) = 1 /\ G[1] = t
  BY <1>8
<1>10. MaxDepth - (1 - 1) = MaxDepth /\ 1 .. 1 - 1 = {}
  BY <1>4
<1>11. PICK fr : fr = frames'
  OBVIOUS
<1>12. Goals(d, fr, G, <<>>)
  <2>1. Len(fr) = 1 /\ fr[1] = f
    BY <1>3, <1>11
  <2>2. QED
    BY <2>1, <1>6, <1>7, <1>9, <1>10 DEF Goals
<1>13. Mid(obj') = <<>>
  BY <1>1, <1>2 DEF Mid
<1>14. QED
  BY <1>1, <1>11, <1>12, <1>13 DEF OrderInv

LEMMA OrderInit ==
  ASSUME Style!Init
  PROVE  OrderInv
  BY DEF OrderInv, Style!Init

LEMMA OrderNext ==
  ASSUME Style!StyleAssumption, StyleTyped, StyleInv, OrderInv,
         Style!Parse \/ (\E d \in Documents : Style!ParseLayer(d)) \/ UNCHANGED <<obj, calls, StyleOnly>>
  PROVE  OrderInv'
<1>1. CASE Style!Parse
  BY <1>1, OrderParseOther, OrderParseObject, OrderDraw, OrderFinishObject, OrderEnterComposite,
     OrderLeaveComposite, OrderLayerParsed DEF Style!Parse
<1>2. CASE \E d \in Documents : Style!ParseLayer(d)
  BY <1>2, OrderParseLayer
<1>3. CASE UNCHANGED <<obj, calls, StyleOnly>>
  BY <1>3 DEF OrderInv, StyleOnly
<1>4. QED
  BY <1>1, <1>2, <1>3

LEMMA OrderGives ==
  ASSUME OrderInv
  PROVE  Style!ObjectsInOrder
  BY ContentIs DEF OrderInv, Style!ObjectsInOrder, Names

-----------------------------------------------------------------------------
LayerInv == kind = "layer" => DeathInv /\ StyleInv /\ OrderInv

LEMMA LayerInit ==
  ASSUME Init
  PROVE  LayerInv
  BY DeathInit, StyleInit, OrderInit, ParsersAssumption DEF LayerInv, Init

LEMMA LayerNext ==
  ASSUME LayerInv, [Next]_vars
  PROVE  LayerInv'
<1>1. kind' = kind
  BY DEF Next, Step, ParseLayer, ParseText, ParseClips, ParsePath, NextLayer, vars
<1>2. ASSUME kind = "layer" PROVE DeathInv' /\ StyleInv' /\ OrderInv'
  <2>1. DeathInv /\ StyleTyped /\ StyleInv /\ OrderInv /\ Style!StyleAssumption
    BY <1>2, ParsersAssumption DEF LayerInv, DeathInv
  <2>2. Style!Parse \/ (\E d \in Documents : Style!ParseLayer(d)) \/ UNCHANGED <<obj, calls, StyleOnly>>
    BY <1>2 DEF Next, Step, ParseLayer, ParseText, ParseClips, ParsePath, NextLayer, vars
  <2>3. QED
    BY <2>1, <2>2, DeathNext, StyleNext, OrderNext
<1>3. QED
  BY <1>1, <1>2 DEF LayerInv

(* A layer is parsed into the objects of its visible elements, each once,  *)
(* in the order of the file and those of nested composites in their place, *)
(* and each has its style by precedence: for every document, every chain   *)
(* of DrawParams and every value an uninitialised layer_drawparam may have *)
(* (ParseBody, ParseDrawParam, ParseCompositeObject).                      *)
THEOREM StyleIsAsMeant == Spec => []StyleAsMeant
<1>1. Init => LayerInv
  BY LayerInit
<1>2. LayerInv /\ [Next]_vars => LayerInv'
  BY LayerNext
<1>3. LayerInv => StyleAsMeant
  BY StyleGives, OrderGives DEF LayerInv, StyleAsMeant
<1>4. QED
  BY <1>1, <1>2, <1>3, PTL DEF Spec

-----------------------------------------------------------------------------
(* The characters of a text (TextCode): what a list of deltas says is not  *)
(* changed by rewriting it, the places add up to what it says, and each    *)
(* character is shown once.  Meaning, Place and the characters covered are *)
(* recursive functions; that there are such functions is shown by the      *)
(* least argument for which there is none.                                 *)
(* What a list of deltas says, from its p-th token on, given what it says  *)
(* further on.                                                             *)
Says(d, f, p) ==
  IF p > Len(d) THEN <<>>
  ELSE IF d[p].key = "none" THEN <<d[p].n>> \o f[p + 1]
  ELSE Text!Copies(d[p + 1].n, d[p + 2].n) \o f[p + 3]
SaysFrom(d) == CHOOSE f : f = [p \in 1 .. Len(d) + 3 |-> Says(d, f, p)]

LEMMA MeaningIs == \A d : Text!Meaning(d) = SaysFrom(d)[1]
  BY DEF Text!Meaning, SaysFrom, Says, Text!None

(* There is such a function: it is made up from the end of the list.       *)
LEMMA SaysOnce ==
  ASSUME NEW d, Len(d) \in Nat, NEW m \in Nat, m <= Len(d) + 3
  PROVE  \E f : \A p \in Len(d) + 4 - m .. Len(d) + 3 : f[p] = Says(d, f, p)
<1> DEFINE N == Len(d) + 3
           Good(f, k) == \A p \in N + 1 - k .. N : f[p] = Says(d, f, p)
           T == {k \in Nat : k <= N /\ ~ \E f : Good(f, k)}
<1>1. SUFFICES ASSUME T # {} PROVE FALSE
  <2>1. m \notin T
    BY <1>1
  <2>2. PICK f : Good(f, m)
    BY <2>1
  <2>3. N + 1 - m = Len(d) + 4 - m
    OBVIOUS
  <2>4. QED
    BY <2>2, <2>3
<1>2. PICK x \in T : \A y \in T : x <= y
  BY <1>1, LeastNat
<1>3. x \in Nat /\ x <= N /\ N \in Nat /\ ~ \E f : Good(f, x)
  BY <1>2
<1>4. x # 0
  <2>1. CASE x = 0
    <3>1. N + 1 - x .. N = {}
      BY <2>1, <1>3
    <3>2. Good(0, x)
      BY <3>1
    <3>3. QED
      BY <3>2, <1>3
  <2>2. QED
    BY <2>1
<1>5. PICK w \in Nat : w = x - 1 /\ ~(x <= w) /\ w <= N
  <2>1. x - 1 \in Nat /\ ~(x <= x - 1) /\ x - 1 <= N
    BY <1>3, <1>4
  <2>2. QED
    BY <2>1
<1>6. PICK f : Good(f, w)
  <2>1. w \notin T
    BY <1>2, <1>5
  <2>2. QED
    BY <2>1, <1>5
<1>7. PICK q \in 1 .. N : q = N + 1 - x /\ N + 1 - w = q + 1
  <2>1. N + 1 - x \in 1 .. N /\ N + 1 - w = N + 1 - x + 1
    BY <1>3, <1>4, <1>5
  <2>2. QED
    BY <2>1
<1>8. PICK v : v = Says(d, f, q)
  OBVIOUS
<1>9. PICK g : g = [p \in q .. N |-> IF p = q THEN v ELSE f[p]]
  OBVIOUS
<1>10. \A p \in q .. N : p # q => g[p] = f[p]
  BY <1>9
<1>11. g[q] = v
  BY <1>9, <1>7
<1>12. ASSUME NEW p \in q .. N PROVE Says(d, g, p) = Says(d, f, p)
  <2>1. p > Len(d) \/ (p + 1 \in q .. N /\ p + 1 # q /\ p + 3 \in q .. N /\ p + 3 # q)
    BY <1>7
  <2>2. QED
    BY <2>1, <1>10 DEF Says
<1>13. Good(g, x)
  <2>1. SUFFICES ASSUME NEW p \in q .. N PROVE g[p] = Says(d, g, p)
    BY <1>7
  <2>2. CASE p = q
    BY <2>2, <1>8, <1>11, <1>12
  <2>3. CASE p # q
    <3>1. p \in N + 1 - w .. N
      BY <2>3, <1>7
    <3>2. QED
      BY <3>1, <2>3, <1>6, <1>10, <1>12
  <2>4. QED
    BY <2>2, <2>3
<1>14. QED
  BY <1>13, <1>3

LEMMA SaysUnrolled ==
  ASSUME NEW d, Len(d) \in Nat
  PROVE  \A p \in 1 .. Len(d) + 3 : SaysFrom(d)[p] = Says(d, SaysFrom(d), p)
<1> DEFINE N == Len(d) + 3
<1>1. PICK f : \A p \in Len(d) + 4 - N .. Len(d) + 3 : f[p] = Says(d, f, p)
  <2>1. N \in Nat /\ N <= Len(d) + 3
    OBVIOUS
  <2>2. QED
    BY ONLY <2>1, SaysOnce, Len(d) \in Nat
<1>2. Len(d) + 4 - N = 1
  OBVIOUS
<1>3. PICK g : g = [p \in 1 .. N |-> f[p]]
  OBVIOUS
<1>4. ASSUME NEW p \in 1 .. N PROVE Says(d, g, p) = f[p]
  <2>1. p > Len(d) \/ (p + 1 \in 1 .. N /\ p + 3 \in 1 .. N)
    OBVIOUS
  <2>2. Says(d, g, p) = Says(d, f, p)
    BY <2>1, <1>3 DEF Says
  <2>3. QED
    BY <2>2, <1>1, <1>2
<1>5. g = [p \in 1 .. N |-> Says(d, g, p)]
  BY <1>3, <1>4
<1>6. SaysFrom(d) = [p \in 1 .. Len(d) + 3 |-> Says(d, SaysFrom(d), p)]
  BY <1>5 DEF SaysFrom
<1>7. PICK s : s = SaysFrom(d)
  OBVIOUS
<1>8. s = [p \in 1 .. Len(d) + 3 |-> Says(d, s, p)]
  BY <1>6, <1>7
<1>9. \A p \in 1 .. Len(d) + 3 : s[p] = Says(d, s, p)
  BY <1>8
<1>10. QED
  BY <1>7, <1>9

(* No letter stands near the end of the list, and each has a count.        *)
Whole(d) == \A q \in 1 .. Len(d) : d[q].key # "none" => q + 2 <= Len(d) /\ d[q + 1].n \in Nat

LEMMA RegularIsWhole ==
  ASSUME NEW d \in Seq(Text!Token), Text!Regular(d)
  PROVE  Whole(d)
<1>1. SUFFICES ASSUME NEW q \in 1 .. Len(d), d[q].key # "none" PROVE q + 2 <= Len(d) /\ d[q + 1].n \in Nat
  BY DEF Whole
<1>2. q + 2 <= Len(d) /\ d[q + 1].n > 1
  BY <1>1, RepeatedRegular
<1>3. q + 1 \in 1 .. Len(d)
  BY <1>2
<1>4. d[q + 1].n \in Int
  BY <1>3, TokenFacts
<1>5. QED
  BY <1>2, <1>4

LEMMA CopiesFacts ==
  ASSUME NEW n \in Nat, NEW S, NEW x \in S
  PROVE  /\ Text!Copies(n, x) \in Seq(S) /\ Len(Text!Copies(n, x)) = n
         /\ \A k \in 1 .. n : Text!Copies(n, x)[k] = x
  BY DEF Text!Copies

LEMMA SaysNumbers ==
  ASSUME NEW d \in Seq(Text!Token), Whole(d), NEW f, NEW p \in Nat \ {0}, NEW S, S = Int,
         p <= Len(d) => f[p + 1] \in Seq(S) /\ f[p + 3] \in Seq(S)
  PROVE  Says(d, f, p) \in Seq(S)
<1>0. Len(d) \in Nat
  OBVIOUS
<1>1. CASE p > Len(d)
  BY <1>1 DEF Says
<1>2. CASE ~(p > Len(d))
  <2>1. p \in 1 .. Len(d) /\ p <= Len(d)
    BY <1>0, <1>2
  <2>2. d[p].n \in S
    BY <2>1, TokenFacts
  <2>3. CASE d[p].key = "none"
    <3>1. PICK t \in Seq(S) : t = f[p + 1]
      BY <2>1
    <3>2. <<d[p].n>> \in Seq(S)
      BY <2>2
    <3>3. PICK u \in Seq(S) : u = <<d[p].n>>
      BY <3>2
    <3>4. Says(d, f, p) = u \o t
      BY <1>2, <2>3, <3>1, <3>3 DEF Says
    <3>5. QED
      BY <3>1, <3>3, <3>4
  <2>4. CASE d[p].key # "none"
    <3>1. p + 2 <= Len(d) /\ d[p + 1].n \in Nat
      BY <2>1, <2>4 DEF Whole
    <3>2. p + 1 \in 1 .. Len(d) /\ p + 2 \in 1 .. Len(d)
      BY <3>1, <2>1
    <3>3. d[p + 1].n \in Nat /\ d[p + 2].n \in S
      BY <3>1, <3>2, TokenFacts
    <3>4. PICK u \in Seq(S) : u = Text!Copies(d[p + 1].n, d[p + 2].n)
      BY <3>3, CopiesFacts
    <3>5. PICK t \in Seq(S) : t = f[p + 3]
      BY <2>1
    <3>6. Says(d, f, p) = u \o t
      BY <1>2, <2>4, <3>4, <3>5 DEF Says
    <3>7. QED
      BY <3>4, <3>5, <3>6
  <2>5. QED
    BY <2>3, <2>4
<1>3. QED
  BY <1>1, <1>2

LEMMA SaysTyped ==
  ASSUME NEW d \in Seq(Text!Token), Whole(d)
  PROVE  \A p \in 1 .. Len(d) + 3 : SaysFrom(d)[p] \in Seq(Int)
<1> DEFINE N == Len(d) + 3
<1>1. PICK f : f = SaysFrom(d)
  OBVIOUS
<1>2. \A p \in 1 .. N : f[p] = Says(d, f, p)
  BY <1>1, SaysUnrolled
<1>3. PICK S : S = Int
  OBVIOUS
<1> DEFINE T == {k \in Nat : k < N /\ f[N - k] \notin Seq(S)}
<1>4. T = {}
  <2>1. SUFFICES ASSUME T # {} PROVE FALSE
    OBVIOUS
  <2>2. PICK x \in T : \A y \in T : x <= y
    BY <2>1, LeastNat
  <2>3. x \in Nat /\ x < N /\ N \in Nat /\ f[N - x] \notin Seq(S)
    BY <2>2
  <2>4. PICK p \in Nat : p = N - x /\ p # 0 /\ p <= N
    <3>1. N - x \in Nat /\ N - x # 0 /\ N - x <= N
      BY <2>3
    <3>2. QED
      BY <3>1
  <2>5. ASSUME NEW q \in Nat, p < q, q <= N PROVE f[q] \in Seq(S)
    <3>1. PICK k \in Nat : k = N - q /\ ~(x <= k) /\ k < N /\ N - k = q
      <4>1. N - q \in Nat /\ ~(x <= N - q) /\ N - q < N /\ N - (N - q) = q
        BY <2>3, <2>4, <2>5
      <4>2. QED
        BY <4>1
    <3>2. k \notin T
      BY <2>2, <3>1
    <3>3. QED
      BY <3>1, <3>2
  <2>6. p <= Len(d) => f[p + 1] \in Seq(S) /\ f[p + 3] \in Seq(S)
    <3>1. SUFFICES ASSUME p <= Len(d) PROVE f[p + 1] \in Seq(S) /\ f[p + 3] \in Seq(S)
      OBVIOUS
    <3>2. p + 1 \in Nat /\ p < p + 1 /\ p + 1 <= N /\ p + 3 \in Nat /\ p < p + 3 /\ p + 3 <= N
      BY <3>1, <2>3, <2>4
    <3>3. QED
      BY <3>2, <2>5
  <2>7. Says(d, f, p) \in Seq(S)
    BY <1>3, <2>4, <2>6, SaysNumbers
  <2>8. f[p] = Says(d, f, p)
    <3>1. p \in 1 .. N
      BY <2>4
    <3>2. QED
      BY <3>1, <1>2
  <2>9. QED
    BY <2>3, <2>4, <2>7, <2>8
<1>5. ASSUME NEW p \in 1 .. N PROVE f[p] \in Seq(S)
  <2>1. PICK k \in Nat : k = N - p /\ k < N /\ N - k = p
    <3>1. N - p \in Nat /\ N - p < N /\ N - (N - p) = p
      OBVIOUS
    <3>2. QED
      BY <3>1
  <2>2. k \notin T
    BY <1>4
  <2>3. QED
    BY <2>1, <2>2
<1>6. QED
  BY <1>1, <1>3, <1>5

(* The numbers of the first m tokens.                                      *)
FirstNumbers(d, m) == [k \in 1 .. m |-> d[k].n]

LEMMA FirstNumbersFacts ==
  ASSUME NEW d \in Seq(Text!Token), NEW m \in 0 .. Len(d), NEW S, S = Int
  PROVE  /\ FirstNumbers(d, m) \in Seq(S) /\ Len(FirstNumbers(d, m)) = m
         /\ \A k \in 1 .. m : FirstNumbers(d, m)[k] = d[k].n
<1>0. m \in Nat /\ Len(d) \in Nat
  OBVIOUS
<1>1. \A k \in 1 .. m : d[k].n \in S
  <2>1. \A k \in 1 .. m : k \in 1 .. Len(d)
    BY <1>0
  <2>2. QED
    BY <2>1, TokenFacts
<1>2. QED
  BY <1>0, <1>1 DEF FirstNumbers

(* Before the first letter the numbers stand for themselves.               *)
LEMMA NumbersFirst ==
  ASSUME NEW d \in Seq(Text!Token), Whole(d), NEW m \in 0 .. Len(d), \A k \in 1 .. m : d[k].key = "none"
  PROVE  SaysFrom(d)[1] = FirstNumbers(d, m) \o SaysFrom(d)[m + 1]
<1>0. Len(d) \in Nat /\ m \in Nat /\ m <= Len(d)
  OBVIOUS
<1>1. PICK f : f = SaysFrom(d)
  OBVIOUS
<1>2. PICK S : S = Int
  OBVIOUS
<1>3. \A p \in 1 .. Len(d) + 3 : f[p] = Says(d, f, p) /\ f[p] \in Seq(S)
  BY <1>0, <1>1, <1>2, SaysUnrolled, SaysTyped
<1> DEFINE T == {k \in Nat : k <= m /\ f[1] # FirstNumbers(d, k) \o f[k + 1]}
<1>4. SUFFICES ASSUME T # {} PROVE FALSE
  <2>1. m \notin T
    BY <1>4
  <2>2. f[1] = FirstNumbers(d, m) \o f[m + 1]
    BY <2>1, <1>0
  <2>3. QED
    BY <2>2, <1>1
<1>5. PICK x \in T : \A y \in T : x <= y
  BY <1>4, LeastNat
<1>6. x \in Nat /\ x <= m /\ f[1] # FirstNumbers(d, x) \o f[x + 1]
  BY <1>5
<1>7. CASE x = 0
  <2>1. FirstNumbers(d, 0) = <<>>
    BY DEF FirstNumbers
  <2>2. 1 \in 1 .. Len(d) + 3
    BY <1>0
  <2>3. f[1] \in Seq(S)
    BY <2>2, <1>3
  <2>4. <<>> \o f[1] = f[1]
    BY <2>3
  <2>5. f[1] # FirstNumbers(d, 0) \o f[1]
    BY <1>6, <1>7
  <2>6. QED
    BY <2>1, <2>4, <2>5
<1>8. CASE x # 0
  <2>1. PICK w \in Nat : w = x - 1 /\ x = w + 1 /\ ~(x <= w) /\ w <= m
    <3>1. x - 1 \in Nat /\ x = x - 1 + 1 /\ ~(x <= x - 1) /\ x - 1 <= m
      BY <1>6, <1>8, <1>0
    <3>2. QED
      BY <3>1
  <2>2. f[1] = FirstNumbers(d, w) \o f[x]
    <3>1. w \notin T
      BY <1>5, <2>1
    <3>2. QED
      BY <3>1, <2>1
  <2>3. /\ x \in 1 .. Len(d) /\ x \in 1 .. m /\ x \in 1 .. Len(d) + 3 /\ x + 1 \in 1 .. Len(d) + 3
        /\ x \in 0 .. Len(d) /\ w \in 0 .. Len(d) /\ ~(x > Len(d))
    BY <1>0, <1>6, <1>8, <2>1
  <2>4. f[x] = <<d[x].n>> \o f[x + 1]
    BY <2>3, <1>3 DEF Says
  <2>5. PICK n \in S : n = d[x].n
    BY <2>3, <1>2, TokenFacts
  <2>6. PICK a \in Seq(S) : a = FirstNumbers(d, w)
    BY <2>3, <1>2, FirstNumbersFacts
  <2>7. PICK c \in Seq(S) : c = f[x + 1]
    BY <2>3, <1>3
  <2>8. <<n>> \in Seq(S)
    BY <2>5
  <2>9. PICK b \in Seq(S) : b = <<n>>
    BY <2>8
  <2>10. (a \o b) \o c = a \o (b \o c)
    BY Assoc
  <2>11. a \o b = FirstNumbers(d, x)
    <3>1. PICK t : t = a \o <<n>>
      OBVIOUS
    <3>2. /\ Len(a) = w /\ \A k \in 1 .. w : a[k] = d[k].n
      BY <2>3, <2>6, FirstNumbersFacts
    <3>3. /\ t \in Seq(S) /\ Len(t) = Len(a) + 1 /\ t[Len(a) + 1] = n /\ \A k \in 1 .. Len(a) : t[k] = a[k]
      BY <2>5, <3>1, OneMore
    <3>4. PICK z \in Seq(S) : z = FirstNumbers(d, x)
      BY <2>3, <1>2, FirstNumbersFacts
    <3>5. Len(z) = x /\ \A k \in 1 .. x : z[k] = d[k].n
      BY <2>3, <3>4, FirstNumbersFacts
    <3>6. Len(t) = Len(z)
      BY <2>1, <3>2, <3>3, <3>5
    <3>7. ASSUME NEW k \in 1 .. Len(t) PROVE t[k] = z[k]
      <4>1. CASE k = x
        BY <4>1, <2>1, <2>3, <2>5, <3>2, <3>3, <3>5
      <4>2. CASE k # x
        <5>0. Len(t) = w + 1 /\ x = w + 1 /\ w \in Nat
          BY <2>1, <3>2, <3>3
        <5>0a. k \in 1 .. w /\ k \in 1 .. x
          BY <4>2, <5>0
        <5>1. k \in 1 .. w /\ k \in 1 .. x /\ k \in 1 .. Len(a)
          BY <5>0a, <3>2
        <5>2. QED
          BY <5>1, <3>2, <3>3, <3>5
      <4>3. QED
        BY <4>1, <4>2
    <3>8. t = z
      BY <3>3, <3>6, <3>7, SeqEqual
    <3>9. QED
      BY <2>9, <3>1, <3>4, <3>8
  <2>12. QED
    BY <1>6, <2>2, <2>4, <2>5, <2>6, <2>7, <2>9, <2>10, <2>11
<1>9. QED
  BY <1>7, <1>8

(* What a list says from a place on depends on what follows alone.         *)
LEMMA SaysSuffix ==
  ASSUME NEW d \in Seq(Text!Token), Whole(d), NEW r \in Seq(Text!Token),
         NEW lo \in Nat \ {0}, NEW s \in Int, lo + s > 0, Len(r) = Len(d) + s,
         \A k \in lo .. Len(d) : r[k + s] = d[k],
         NEW p \in lo .. Len(d) + 3
  PROVE  SaysFrom(r)[p + s] = SaysFrom(d)[p]
<1> DEFINE N == Len(d) + 3
<1>0. Len(d) \in Nat /\ Len(r) \in Nat /\ lo \in Nat /\ lo > 0
  OBVIOUS
<1>1. PICK f : f = SaysFrom(d)
  OBVIOUS
<1>2. PICK g : g = SaysFrom(r)
  OBVIOUS
<1>3. \A q \in 1 .. Len(d) + 3 : f[q] = Says(d, f, q)
  BY <1>0, <1>1, SaysUnrolled
<1>4. \A q \in 1 .. Len(r) + 3 : g[q] = Says(r, g, q)
  BY <1>0, <1>2, SaysUnrolled
<1> DEFINE T == {k \in Nat : k <= N - lo /\ g[N - k + s] # f[N - k]}
<1>5. T = {}
  <2>1. SUFFICES ASSUME T # {} PROVE FALSE
    OBVIOUS
  <2>2. PICK x \in T : \A y \in T : x <= y
    BY <2>1, LeastNat
  <2>3. x \in Nat /\ x <= N - lo /\ g[N - x + s] # f[N - x]
    BY <2>2
  <2>4. PICK q \in Nat : q = N - x /\ lo <= q /\ q <= N
    <3>1. N - x \in Nat /\ lo <= N - x /\ N - x <= N
      BY <1>0, <2>3
    <3>2. QED
      BY <3>1
  <2>5. ASSUME NEW y \in Nat, q < y, y <= N PROVE g[y + s] = f[y]
    <3>1. PICK k \in Nat : k = N - y /\ ~(x <= k) /\ k <= N - lo /\ N - k = y
      <4>1. N - y \in Nat /\ ~(x <= N - y) /\ N - y <= N - lo /\ N - (N - y) = y
        BY <1>0, <2>3, <2>4, <2>5
      <4>2. QED
        BY <4>1
    <3>2. k \notin T
      BY <2>2, <3>1
    <3>3. QED
      BY <3>1, <3>2
  <2>6. q \in 1 .. Len(d) + 3 /\ q + s \in 1 .. Len(r) + 3 /\ q \in lo .. Len(d) + 3
    BY <1>0, <2>4
  <2>7. Says(r, g, q + s) = Says(d, f, q)
    <3>1. CASE q > Len(d)
      <4>1. q + s > Len(r)
        BY <3>1, <1>0, <2>4
      <4>2. QED
        BY <3>1, <4>1 DEF Says
    <3>2. CASE ~(q > Len(d))
      <4>1. q \in lo .. Len(d) /\ q \in 1 .. Len(d) /\ ~(q + s > Len(r))
        BY <3>2, <1>0, <2>4
      <4>2. r[q + s] = d[q]
        BY <4>1
      <4>3. g[(q + 1) + s] = f[q + 1] /\ g[(q + 3) + s] = f[q + 3]
        <5>1. q + 1 \in Nat /\ q < q + 1 /\ q + 1 <= N /\ q + 3 \in Nat /\ q < q + 3 /\ q + 3 <= N
          BY <4>1, <1>0, <2>4
        <5>2. QED
          BY <5>1, <2>5
      <4>4. (q + s) + 1 = (q + 1) + s /\ (q + s) + 2 = (q + 2) + s /\ (q + s) + 3 = (q + 3) + s
        BY <2>4
      <4>5. CASE d[q].key = "none"
        <5>1. Says(d, f, q) = <<d[q].n>> \o f[q + 1]
          BY <3>2, <4>5 DEF Says
        <5>2. Says(r, g, q + s) = <<d[q].n>> \o g[(q + 1) + s]
          BY <4>1, <4>2, <4>4, <4>5 DEF Says
        <5>3. QED
          BY <5>1, <5>2, <4>3
      <4>6. CASE d[q].key # "none"
        <5>1. q + 2 <= Len(d)
          BY <4>1, <4>6 DEF Whole
        <5>2. q + 1 \in lo .. Len(d) /\ q + 2 \in lo .. Len(d)
          BY <5>1, <4>1, <1>0
        <5>3. r[(q + 1) + s] = d[q + 1] /\ r[(q + 2) + s] = d[q + 2]
          BY <5>2
        <5>4. Says(d, f, q) = Text!Copies(d[q + 1].n, d[q + 2].n) \o f[q + 3]
          BY <3>2, <4>6 DEF Says
        <5>5. Says(r, g, q + s) = Text!Copies(d[q + 1].n, d[q + 2].n) \o g[(q + 3) + s]
          BY <4>1, <4>2, <4>4, <4>6, <5>3 DEF Says
        <5>6. QED
          BY <5>4, <5>5, <4>3
      <4>7. QED
        BY <4>5, <4>6
    <3>3. QED
      BY <3>1, <3>2
  <2>8. g[q + s] = f[q]
    BY <2>6, <2>7, <1>3, <1>4
  <2>9. QED
    BY <2>3, <2>4, <2>8
<1>6. PICK k \in Nat : k = N - p /\ k <= N - lo /\ N - k = p
  <2>1. N - p \in Nat /\ N - p <= N - lo /\ N - (N - p) = p
    BY <1>0
  <2>2. QED
    BY <2>1
<1>7. k \notin T
  BY <1>5
<1>8. QED
  BY <1>1, <1>2, <1>6, <1>7

(* A turn of expand_g does not change what a regular list says.            *)
LEMMA RepeatedMeans ==
  ASSUME NEW d \in Seq(Text!Token), Text!Regular(d), NEW p \in 1 .. Len(d), d[p].key # "none",
         \A k \in 1 .. p - 1 : d[k].key = "none"
  PROVE  Text!Meaning(Text!Repeated(d, p)) = Text!Meaning(d)
<1>1. /\ p + 2 <= Len(d) /\ d[p + 1].n > 1 /\ d[p + 2].key = "none"
      /\ Text!Regular(Text!Repeated(d, p)) /\ Text!Repeated(d, p) \in Seq(Text!Token)
  BY RepeatedRegular
<1>2. PICK r \in Seq(Text!Token) : r = Text!Repeated(d, p)
  BY <1>1
<1>3. p \in Nat /\ p > 0 /\ Len(d) \in Nat /\ p + 1 \in 1 .. Len(d) /\ p + 2 \in 1 .. Len(d)
  BY <1>1
<1>4. PICK S : S = Int
  OBVIOUS
<1>5. PICK n \in Nat : n = d[p + 1].n /\ n > 1
  BY <1>1, <1>3, TokenFacts
<1>6. PICK v \in S : v = d[p + 2].n
  BY <1>3, <1>4, TokenFacts
<1>7. /\ Len(r) = Len(d) + n - 3
      /\ \A k \in 1 .. p - 1 : r[k] = d[k]
      /\ \A k \in p .. p + n - 1 : r[k] = d[p + 2]
      /\ \A k \in p + n .. Len(r) : r[k] = d[k + 3 - n]
  <2>1. /\ Len(r) = Len(d) + d[p + 1].n - 3
        /\ \A k \in 1 .. p - 1 : r[k] = d[k]
        /\ \A k \in p .. p + d[p + 1].n - 1 : r[k] = d[p + 2]
        /\ \A k \in p + d[p + 1].n .. Len(r) : r[k] = d[k + 3 - d[p + 1].n]
    BY <1>1, <1>2, RepeatedFacts
  <2>2. QED
    BY <2>1, <1>5
<1>7a. Len(r) = Len(d) + n - 3 /\ p + 2 <= Len(d) /\ n \in Nat /\ n > 1
  BY <1>1, <1>5, <1>7
<1>8. Whole(d) /\ Whole(r)
  BY <1>1, <1>2, RegularIsWhole
<1>9. p - 1 \in 0 .. Len(d) /\ p + n - 1 \in 0 .. Len(r) /\ (p - 1) + 1 = p /\ (p + n - 1) + 1 = p + n /\ Len(r) \in Nat
  <2>1. Len(r) \in Nat
    BY <1>2
  <2>2. QED
    BY ONLY <2>1, <1>3, <1>7a
<1>10. PICK A \in Seq(S) : A = FirstNumbers(d, p - 1)
  BY <1>4, <1>9, FirstNumbersFacts
<1>11. PICK B \in Seq(S) : B = Text!Copies(n, v)
  BY <1>6, CopiesFacts
<1>12. PICK C \in Seq(S) : C = SaysFrom(d)[p + 3]
  <2>1. p + 3 \in 1 .. Len(d) + 3
    BY <1>1, <1>3
  <2>2. QED
    BY <2>1, <1>4, <1>8, SaysTyped
<1>13. SaysFrom(d)[1] = A \o (B \o C)
  <2>1. SaysFrom(d)[1] = A \o SaysFrom(d)[p]
    <3>1. SaysFrom(d)[1] = FirstNumbers(d, p - 1) \o SaysFrom(d)[(p - 1) + 1]
      BY <1>8, <1>9, NumbersFirst
    <3>2. QED
      BY <3>1, <1>9, <1>10
  <2>2. SaysFrom(d)[p] = Says(d, SaysFrom(d), p)
    <3>1. p \in 1 .. Len(d) + 3
      BY <1>3
    <3>2. QED
      BY <3>1, <1>3, SaysUnrolled
  <2>3. Says(d, SaysFrom(d), p) = B \o C
    <3>1. ~(p > Len(d))
      BY <1>3, <1>1
    <3>2. QED
      BY <3>1, <1>5, <1>6, <1>11, <1>12 DEF Says
  <2>4. QED
    BY <2>1, <2>2, <2>3
<1>14. PICK D \in Seq(S) : D = FirstNumbers(r, p + n - 1)
  BY <1>4, <1>9, FirstNumbersFacts
<1>15. SaysFrom(r)[1] = D \o C
  <2>1. ASSUME NEW k \in 1 .. p + n - 1 PROVE r[k].key = "none"
    <3>1. CASE k < p
      <4>1. k \in 1 .. p - 1
        BY <3>1, <1>3
      <4>2. QED
        BY <4>1, <1>7
    <3>2. CASE ~(k < p)
      <4>1. k \in p .. p + n - 1
        BY <3>2, <1>3, <1>5
      <4>2. QED
        BY <4>1, <1>1, <1>7
    <3>3. QED
      BY <3>1, <3>2
  <2>2. SaysFrom(r)[1] = FirstNumbers(r, p + n - 1) \o SaysFrom(r)[(p + n - 1) + 1]
    BY <2>1, <1>8, <1>9, NumbersFirst
  <2>3. SaysFrom(r)[p + n] = C
    <3>1. PICK s \in Int : s = n - 3
      BY <1>5
    <3>2. PICK lo \in Nat \ {0} : lo = p + 3
      BY <1>3
    <3>3. lo + s > 0 /\ Len(r) = Len(d) + s /\ lo \in lo .. Len(d) + 3 /\ lo + s = p + n
      BY <3>1, <3>2, <1>3, <1>7a
    <3>4. ASSUME NEW k \in lo .. Len(d) PROVE r[k + s] = d[k]
      <4>1. k + s \in p + n .. Len(r) /\ (k + s) + 3 - n = k
        BY <3>1, <3>2, <1>3, <1>7a
      <4>2. QED
        BY <4>1, <1>7
    <3>5. SaysFrom(r)[lo + s] = SaysFrom(d)[lo]
      BY <3>3, <3>4, <1>8, SaysSuffix
    <3>6. QED
      BY <3>2, <3>3, <3>5, <1>12
  <2>4. QED
    BY <2>2, <2>3, <1>9, <1>14
<1>16. D = A \o B
  <2>0. A \o B \in Seq(S)
    BY <1>10, <1>11
  <2>1. PICK E \in Seq(S) : E = A \o B
    BY <2>0
  <2>2. /\ Len(A) = p - 1 /\ \A k \in 1 .. p - 1 : A[k] = d[k].n
    BY <1>4, <1>9, <1>10, FirstNumbersFacts
  <2>3. /\ Len(B) = n /\ \A k \in 1 .. n : B[k] = v
    <3>1. Len(Text!Copies(n, v)) = n /\ \A k \in 1 .. n : Text!Copies(n, v)[k] = v
      <4>1. n \in Nat /\ v \in S
        BY <1>5, <1>6
      <4>2. QED
        BY ONLY <4>1, CopiesFacts
    <3>2. QED
      BY <3>1, <1>11
  <2>4. /\ Len(D) = p + n - 1 /\ \A k \in 1 .. p + n - 1 : D[k] = r[k].n
    BY <1>4, <1>9, <1>14, FirstNumbersFacts
  <2>5. /\ Len(E) = Len(A) + Len(B) /\ \A k \in 1 .. Len(A) : E[k] = A[k]
        /\ \A k \in 1 .. Len(E) : k > Len(A) => E[k] = B[k - Len(A)]
    BY <2>1
  <2>6. Len(D) = Len(E)
    BY <2>2, <2>3, <2>4, <2>5, <1>3, <1>5
  <2>7. ASSUME NEW k \in 1 .. Len(D) PROVE D[k] = E[k]
    <3>1. CASE k < p
      <4>1. k \in 1 .. p - 1 /\ k \in 1 .. Len(A)
        BY <3>1, <2>2, <1>3
      <4>2. QED
        BY <4>1, <2>2, <2>4, <2>5, <1>7
    <3>2. CASE ~(k < p)
      <4>1. k \in p .. p + n - 1 /\ k > Len(A) /\ k - Len(A) \in 1 .. n /\ k \in 1 .. Len(E)
        BY <3>2, <2>2, <2>4, <2>6, <1>3, <1>5
      <4>2. D[k] = v
        BY <4>1, <2>4, <1>6, <1>7
      <4>3. E[k] = v
        BY <4>1, <2>3, <2>5
      <4>4. QED
        BY <4>2, <4>3
    <3>3. QED
      BY <3>1, <3>2
  <2>8. D = E
    BY <2>6, <2>7, SeqEqual
  <2>9. QED
    BY <2>1, <2>8
<1>17. (A \o B) \o C = A \o (B \o C)
  <2>1. A \in Seq(S) /\ B \in Seq(S) /\ C \in Seq(S)
    BY <1>10, <1>11, <1>12
  <2>2. QED
    BY ONLY <2>1
<1>18. QED
  BY <1>2, <1>13, <1>15, <1>16, <1>17, MeaningIs

(* A list without letters says what its numbers are.                       *)
LEMMA NumbersMean ==
  ASSUME NEW d \in Seq(Text!Token), \A k \in 1 .. Len(d) : d[k].key = "none"
  PROVE  /\ Text!Meaning(d) \in Seq(Int) /\ Len(Text!Meaning(d)) = Len(d)
         /\ \A k \in 1 .. Len(d) : Text!Meaning(d)[k] = d[k].n
         /\ [k \in DOMAIN d |-> d[k].n] = Text!Meaning(d)
<1>1. Whole(d) /\ Len(d) \in Nat /\ Len(d) \in 0 .. Len(d) /\ Len(d) + 1 \in 1 .. Len(d) + 3 /\ Len(d) + 1 > Len(d)
  BY DEF Whole
<1>2. SaysFrom(d)[Len(d) + 1] = <<>>
  BY <1>1, SaysUnrolled DEF Says
<1>3. PICK S : S = Int
  OBVIOUS
<1>4. PICK A \in Seq(S) : A = FirstNumbers(d, Len(d))
  BY <1>1, <1>3, FirstNumbersFacts
<1>5. SaysFrom(d)[1] = A \o <<>>
  BY <1>1, <1>2, <1>4, NumbersFirst
<1>6. A \o <<>> = A
  OBVIOUS
<1>7. Text!Meaning(d) = A
  BY <1>5, <1>6, MeaningIs
<1>8. Len(A) = Len(d) /\ \A k \in 1 .. Len(d) : A[k] = d[k].n
  BY <1>1, <1>3, <1>4, FirstNumbersFacts
<1>9. [k \in DOMAIN d |-> d[k].n] = A
  <2>1. DOMAIN d = 1 .. Len(d)
    OBVIOUS
  <2>2. QED
    BY <2>1, <1>4 DEF FirstNumbers
<1>10. QED
  BY <1>3, <1>7, <1>8, <1>9

NoLetter(d) == \A k \in 1 .. Len(d) : d[k].key = "none"
Awaited(cs, a) == \E k \in 1 .. Len(cs) : cs[k].axis = a /\ cs[k].key = "g"

(* A regular list says what it said in the file, and has a call of         *)
(* expand_g before it as long as it has letters.                           *)
KeepsMeaning(d, was, cs, a) ==
  Text!Regular(was) => Text!Meaning(d) = Text!Meaning(was) /\ (NoLetter(d) \/ Awaited(cs, a))
DeltaInv ==
  /\ code > 0 => \A a \in {"X", "Y"} : KeepsMeaning(delta[a], Stated(a), calls, a)
  /\ pc = "codes" => calls = <<>>

LEMMA DeltaInit ==
  ASSUME Text!Init
  PROVE  DeltaInv
<1>1. code = 0 /\ pc = "font"
  BY DEF Text!Init
<1>2. QED
  BY <1>1 DEF DeltaInv

(* The first element of the one and of the other part of a concatenation.  *)
LEMMA FirstOfConcat ==
  ASSUME NEW S, NEW x \in Seq(S), NEW t \in Seq(S), Len(x) > 0
  PROVE  /\ Len(x \o t) \in Nat /\ 1 \in 1 .. Len(x \o t) /\ (x \o t)[1] = x[1]
         /\ Len(t \o x) \in Nat /\ Len(t) + 1 \in 1 .. Len(t \o x) /\ (t \o x)[Len(t) + 1] = x[1]
<1>1. Len(t) \in Nat /\ Len(x) \in Nat /\ Len(x) > 0
  OBVIOUS
<1>2. Len(x \o t) = Len(x) + Len(t) /\ Len(t \o x) = Len(t) + Len(x)
  OBVIOUS
<1>3. (x \o t)[1] = x[1]
  <2>1. 1 \in 1 .. Len(x)
    BY <1>1
  <2>2. QED
    BY <2>1
<1>4. (t \o x)[Len(t) + 1] = x[1]
  BY <1>1
<1>5. QED
  BY <1>1, <1>2, <1>3, <1>4

(* parseDeltaXY calls expand_g for the small letter of each list there is. *)
LEMMA CallsAwaited ==
  ASSUME NEW d, NEW a \in {"X", "Y"}, d[a] # <<>>
  PROVE  Awaited(Text!ExpandCalls(d), a)
<1> DEFINE gX == [axis |-> "X", key |-> "g"]
           gY == [axis |-> "Y", key |-> "g"]
           GX == [axis |-> "X", key |-> "G"]
<1>1. PICK cs : cs = Text!ExpandCalls(d)
  OBVIOUS
<1>2. PICK S : S = {gX, gY, GX}
  OBVIOUS
<1>2a. gX \in S /\ gY \in S /\ GX \in S
  BY <1>2
<1>3. PICK x : x = <<gX, GX>>
  OBVIOUS
<1>4. PICK y : y = <<gY, GX>>
  OBVIOUS
<1> HIDE DEF gX, gY, GX
<1>5. x \in Seq(S) /\ Len(x) = 2 /\ x[1] = gX /\ y \in Seq(S) /\ Len(y) = 2 /\ y[1] = gY
  BY <1>2a, <1>3, <1>4
<1>6. cs = (IF d["X"] = <<>> THEN <<>> ELSE x) \o (IF d["Y"] = <<>> THEN <<>> ELSE y)
  BY <1>1, <1>3, <1>4 DEF Text!ExpandCalls, gX, gY, GX
<1>7. CASE a = "X"
  <2>1. \E t \in Seq(S) : cs = x \o t
    <3>1. <<>> \in Seq(S)
      OBVIOUS
    <3>2. QED
      BY <1>5, <1>6, <1>7, <3>1
  <2>2. PICK t \in Seq(S) : cs = x \o t
    BY <2>1
  <2>3. Len(x) > 0
    BY <1>5
  <2>4. 1 \in 1 .. Len(cs) /\ cs[1] = gX
    BY <1>5, <2>2, <2>3, FirstOfConcat
  <2>5. QED
    BY <1>1, <1>7, <2>4 DEF Awaited, gX
<1>8. CASE a = "Y"
  <2>1. \E t \in Seq(S) : cs = t \o y
    <3>1. <<>> \in Seq(S)
      OBVIOUS
    <3>2. QED
      BY <1>5, <1>6, <1>8, <3>1
  <2>2. PICK t \in Seq(S) : cs = t \o y
    BY <2>1
  <2>3. Len(y) > 0
    BY <1>5
  <2>4. Len(t) + 1 \in 1 .. Len(cs) /\ cs[Len(t) + 1] = gY
    BY <1>5, <2>2, <2>3, FirstOfConcat
  <2>5. QED
    BY <1>1, <1>8, <2>4 DEF Awaited, gY
<1>9. QED
  BY <1>7, <1>8

LEMMA DeltaNextTextCode ==
  ASSUME Text!TextAssumption, TextTyped, Text!NextTextCode
  PROVE  DeltaInv'
<1>1. /\ code' \in 1 .. Len(obj.codes) /\ obj' = obj /\ pc' = "expand"
      /\ \A a \in {"X", "Y"} : delta'[a] = Text!Or(obj.codes[code'].delta[a], <<>>)
      /\ calls' = Text!ExpandCalls(obj.codes[code'].delta)
  BY NextTextCodeFacts
<1>2. ASSUME NEW a \in {"X", "Y"} PROVE KeepsMeaning(delta'[a], Stated(a)', calls', a)
  <2>1. delta'[a] = Stated(a)'
    BY <1>1 DEF Stated
  <2>2. CASE obj.codes[code'].delta[a] = <<>>
    <3>1. delta'[a] = <<>>
      BY <1>1, <2>2 DEF Text!Or
    <3>2. NoLetter(delta'[a])
      BY <3>1 DEF NoLetter
    <3>3. QED
      BY <2>1, <3>2 DEF KeepsMeaning
  <2>3. CASE obj.codes[code'].delta[a] # <<>>
    <3>1. Awaited(calls', a)
      BY <1>1, <2>3, CallsAwaited
    <3>2. QED
      BY <2>1, <3>1 DEF KeepsMeaning
  <2>4. QED
    BY <2>2, <2>3
<1>3. QED
  BY <1>1, <1>2 DEF DeltaInv

LEMMA DeltaExpand ==
  ASSUME Text!TextAssumption, TornInv, DeltaInv, Text!Expand
  PROVE  DeltaInv'
<1>1. TextTyped /\ RegularLists
  BY DEF TornInv
<1>2. PICK S : S = [axis : {"X", "Y"}, key : {"g", "G"}]
  OBVIOUS
<1>3. PICK x : x = calls[1].axis
  OBVIOUS
<1>4. PICK d : d = delta[x]
  OBVIOUS
<1>5. /\ pc = "expand" /\ calls # <<>> /\ calls[1] \in S /\ obj' = obj /\ code' = code
      /\ \/ /\ \A p \in 1 .. Len(d) : d[p].key # calls[1].key
            /\ calls' = Tail(calls) /\ delta' = delta /\ pc' = pc
         \/ \E p \in 1 .. Len(d) :
              /\ d[p].key = calls[1].key /\ \A q \in 1 .. p - 1 : d[q].key # calls[1].key
              /\ \/ pc' = "dead" /\ delta' = delta /\ calls' = calls
                 \/ /\ pc' = pc
                    /\ delta' = [delta EXCEPT ![x] = Text!Repeated(d, p)]
                    /\ calls' = [calls EXCEPT ![1].key = "g"]
  BY <1>1, <1>2, <1>3, <1>4, ExpandFacts
<1>6. /\ x \in {"X", "Y"} /\ calls[1].key \in {"g", "G"} /\ code > 0 /\ calls \in Seq(S)
      /\ delta \in [{"X", "Y"} -> Seq(Text!Token)] /\ d \in Seq(Text!Token)
  BY <1>1, <1>2, <1>3, <1>4, <1>5 DEF TextTyped
<1>7. pc' # "codes"
  BY <1>5
<1>8. ASSUME NEW a \in {"X", "Y"} PROVE KeepsMeaning(delta[a], Stated(a), calls, a) /\ Stated(a)' = Stated(a)
  BY <1>5, <1>6 DEF DeltaInv, Stated
<1>9. ASSUME NEW a \in {"X", "Y"}, Text!Regular(Stated(a)) PROVE Text!Regular(delta[a])
  BY <1>1, <1>6, <1>9 DEF RegularLists
<1>10. SUFFICES ASSUME NEW a \in {"X", "Y"}, Text!Regular(Stated(a))
                PROVE  Text!Meaning(delta'[a]) = Text!Meaning(Stated(a)) /\ (NoLetter(delta'[a]) \/ Awaited(calls', a))
  BY <1>5, <1>7, <1>8 DEF DeltaInv, KeepsMeaning
<1>11. /\ Text!Meaning(delta[a]) = Text!Meaning(Stated(a)) /\ (NoLetter(delta[a]) \/ Awaited(calls, a))
       /\ Text!Regular(delta[a]) /\ delta[a] \in Seq(Text!Token)
  BY <1>6, <1>8, <1>9, <1>10 DEF KeepsMeaning
<1>12. ASSUME NEW p \in 1 .. Len(delta[a]), delta[a][p].key # "none" PROVE delta[a][p].key = "g"
  BY <1>11, <1>12, RepeatedRegular
<1>13. CASE /\ \A p \in 1 .. Len(d) : d[p].key # calls[1].key
            /\ calls' = Tail(calls) /\ delta' = delta
  <2>1. CASE a = x /\ calls[1].key = "g"
    <3>1. NoLetter(delta[a])
      BY <1>4, <1>12, <1>13, <2>1 DEF NoLetter
    <3>2. QED
      BY <3>1, <1>11, <1>13
  <2>2. CASE ~(a = x /\ calls[1].key = "g")
    <3>1. ASSUME Awaited(calls, a) PROVE Awaited(calls', a)
      <4>1. PICK k \in 1 .. Len(calls) : calls[k].axis = a /\ calls[k].key = "g"
        BY <3>1 DEF Awaited
      <4>2. k # 1
        BY <1>3, <2>2, <4>1
      <4>3. k - 1 \in 1 .. Len(Tail(calls)) /\ Tail(calls)[k - 1] = calls[k]
        BY <4>1, <4>2, <1>5, <1>6
      <4>4. QED
        BY <4>1, <4>3, <1>13 DEF Awaited
    <3>2. QED
      BY <3>1, <1>11, <1>13
  <2>3. QED
    BY <2>1, <2>2
<1>14. CASE delta' = delta /\ calls' = calls
  BY <1>11, <1>14
<1>15. ASSUME NEW p \in 1 .. Len(d), d[p].key = calls[1].key, \A q \in 1 .. p - 1 : d[q].key # calls[1].key,
              delta' = [delta EXCEPT ![x] = Text!Repeated(d, p)], calls' = [calls EXCEPT ![1].key = "g"]
       PROVE  Text!Meaning(delta'[a]) = Text!Meaning(Stated(a)) /\ (NoLetter(delta'[a]) \/ Awaited(calls', a))
  <2>1. Len(calls') = Len(calls) /\ 1 \in 1 .. Len(calls) /\ calls'[1] = [calls[1] EXCEPT !.key = "g"]
        /\ \A k \in 2 .. Len(calls) : calls'[k] = calls[k]
    <3>1. PICK c : c = [calls[1] EXCEPT !.key = "g"]
      OBVIOUS
    <3>2. calls' = [calls EXCEPT ![1] = c]
      BY <1>15, <3>1
    <3>3. calls \in Seq(S) /\ calls # <<>>
      BY <1>5, <1>6
    <3>4. PICK e : e = [calls EXCEPT ![1] = c]
      OBVIOUS
    <3>5. /\ Len(e) = Len(calls) /\ 1 \in 1 .. Len(calls) /\ e[1] = c
          /\ \A k \in 2 .. Len(calls) : e[k] = calls[k]
      BY ONLY <3>3, <3>4
    <3>6. QED
      BY <3>1, <3>2, <3>4, <3>5
  <2>2. calls'[1].axis = x /\ calls'[1].key = "g"
    BY <2>1, <1>2, <1>3, <1>5
  <2>3. CASE a = x
    <3>1. delta'[a] = Text!Repeated(d, p) /\ Awaited(calls', a)
      BY <2>1, <2>2, <2>3, <1>6, <1>15 DEF Awaited
    <3>2. d = delta[a]
      BY <1>4, <2>3
    <3>3. d[p].key # "none" /\ d[p].key = "g"
      BY <1>6, <1>12, <1>15, <3>2
    <3>4. ASSUME NEW k \in 1 .. p - 1 PROVE d[k].key = "none"
      <4>1. k \in 1 .. Len(d)
        BY <1>6, <1>15
      <4>2. QED
        BY <4>1, <1>12, <1>15, <3>2, <3>3
    <3>5. Text!Meaning(Text!Repeated(d, p)) = Text!Meaning(d)
      BY <1>11, <3>2, <3>3, <3>4, RepeatedMeans
    <3>6. QED
      BY <1>11, <3>1, <3>2, <3>5
  <2>4. CASE a # x
    <3>1. delta'[a] = delta[a]
      BY <2>4, <1>6, <1>15
    <3>2. ASSUME Awaited(calls, a) PROVE Awaited(calls', a)
      <4>1. PICK k \in 1 .. Len(calls) : calls[k].axis = a /\ calls[k].key = "g"
        BY <3>2 DEF Awaited
      <4>2. k # 1
        BY <1>3, <2>4, <4>1
      <4>3. k \in 2 .. Len(calls)
        BY <4>1, <4>2, <1>6
      <4>4. QED
        BY <4>1, <4>3, <2>1 DEF Awaited
    <3>3. QED
      BY <3>1, <3>2, <1>11
  <2>5. QED
    BY <2>3, <2>4
<1>16. QED
  BY <1>5, <1>13, <1>14, <1>15

LEMMA DeltaOthers ==
  ASSUME DeltaInv,
         \/ Text!SetFont \/ Text!Expanded \/ Text!AppendChar \/ Text!AppendCharDies
         \/ Text!AppendGlyph \/ Text!EndOfTextCode \/ UNCHANGED Text!vars
  PROVE  DeltaInv'
<1>1. /\ obj' = obj /\ code' = code /\ delta' = delta /\ calls' = calls
      /\ pc' = "codes" => pc = "codes" \/ calls = <<>>
  BY DEF Text!SetFont, Text!Expanded, Text!AppendChar, Text!AppendCharDies, Text!AppendGlyph,
     Text!EndOfTextCode, Text!vars
<1>2. QED
  BY <1>1 DEF DeltaInv, Stated

(* When the lists are expanded, their numbers are what the file says.      *)
LEMMA DeltaExpanded ==
  ASSUME TextTyped, DeltaInv, pc = "codes", NEW a \in {"X", "Y"}, Text!Regular(Stated(a))
  PROVE  /\ Text!Meaning(Stated(a)) \in Seq(Int) /\ Len(Text!Meaning(Stated(a))) = Len(delta[a])
         /\ \A k \in 1 .. Len(delta[a]) : Text!Meaning(Stated(a))[k] = delta[a][k].n
         /\ [k \in DOMAIN delta[a] |-> delta[a][k].n] = Text!Meaning(Stated(a))
<1>1. code > 0 /\ delta[a] \in Seq(Text!Token) /\ calls = <<>>
  BY DEF TextTyped, DeltaInv
<1>2. KeepsMeaning(delta[a], Stated(a), calls, a)
  BY <1>1 DEF DeltaInv
<1>3. ~Awaited(calls, a)
  BY <1>1 DEF Awaited
<1>4. Text!Meaning(delta[a]) = Text!Meaning(Stated(a)) /\ NoLetter(delta[a])
  BY <1>2, <1>3 DEF KeepsMeaning
<1>5. PICK d \in Seq(Text!Token) : d = delta[a]
  BY <1>1
<1>6. /\ Text!Meaning(d) \in Seq(Int) /\ Len(Text!Meaning(d)) = Len(d)
      /\ \A k \in 1 .. Len(d) : Text!Meaning(d)[k] = d[k].n
      /\ [k \in DOMAIN d |-> d[k].n] = Text!Meaning(d)
  <2>1. \A k \in 1 .. Len(d) : d[k].key = "none"
    BY <1>4, <1>5 DEF NoLetter
  <2>2. QED
    BY <2>1, NumbersMean
<1>7. QED
  BY <1>4, <1>5, <1>6

LEMMA DeltaGives ==
  ASSUME TextTyped, DeltaInv
  PROVE  Text!ExpandedAsMeant
<1>1. SUFFICES ASSUME pc = "codes", Text!RegularCode(Text!TheCode), NEW a \in {"X", "Y"}
               PROVE  [k \in DOMAIN delta[a] |-> delta[a][k].n] = Text!Meaning(Text!Or(Text!TheCode.delta[a], <<>>))
  BY DEF Text!ExpandedAsMeant, Text!Axes
<1>2. Text!Or(Text!TheCode.delta[a], <<>>) = Stated(a)
  BY DEF Stated, Text!TheCode
<1>3. Text!Regular(Stated(a))
  BY <1>1, <1>2 DEF Text!RegularCode, Text!Axes
<1>4. QED
  BY <1>1, <1>2, <1>3, DeltaExpanded

(* The sum of the first m deltas, given the sums before.                   *)
Sums(d, f, m) == IF m = 0 \/ d = <<>> THEN 0 ELSE f[m - 1] + d[Text!Lesser(Len(d), m)]
SumOf(d, n) == CHOOSE f : f = [m \in 0 .. n |-> Sums(d, f, m)]

(* Start and Place for any text object.                                    *)
StartIn(o, k, a) ==
  LET given == {m \in 1 .. k : o.codes[m].at[a] # <<>>}
  IN  IF given = {} THEN 0
      ELSE o.codes[CHOOSE m \in given : \A q \in given : q <= m].at[a][1]
PlaceIn(o, k, n, a) == StartIn(o, k, a) + SumOf(Text!Meaning(Text!Or(o.codes[k].delta[a], <<>>)), n)[n]

LEMMA PlaceIs == \A k, n, a : Text!Place(k, n, a) = PlaceIn(obj, k, n, a)
  BY DEF Text!Place, PlaceIn, Text!Start, StartIn, SumOf, Sums

LEMMA SumsOnce ==
  ASSUME NEW d, NEW n \in Nat
  PROVE  \E f : \A m \in 0 .. n : f[m] = Sums(d, f, m)
<1> DEFINE Good(f, k) == \A m \in 0 .. k : f[m] = Sums(d, f, m)
           T == {k \in Nat : ~ \E f : Good(f, k)}
<1>1. SUFFICES ASSUME T # {} PROVE FALSE
  <2>1. SUFFICES ASSUME ~ \E f : Good(f, n) PROVE FALSE
    OBVIOUS
  <2>2. n \in T
    BY <2>1
  <2>3. QED
    BY <2>2, <1>1
<1>2. PICK x \in T : \A y \in T : x <= y
  BY <1>1, LeastNat
<1>3. x \in Nat /\ ~ \E f : Good(f, x)
  BY <1>2
<1>4. CASE x = 0
  <2>1. PICK f : f = [m \in 0 .. 0 |-> 0]
    OBVIOUS
  <2>2. \A m \in 0 .. 0 : m = 0 /\ f[m] = 0 /\ Sums(d, f, m) = 0
    BY <2>1 DEF Sums
  <2>3. Good(f, 0)
    BY <2>2
  <2>4. QED
    BY <2>3, <1>3, <1>4
<1>5. CASE x # 0
  <2>1. PICK w \in Nat : w = x - 1 /\ ~(x <= w) /\ x = w + 1
    <3>1. x - 1 \in Nat /\ ~(x <= x - 1) /\ x = (x - 1) + 1
      BY <1>3, <1>5
    <3>2. QED
      BY <3>1
  <2>2. PICK f : Good(f, w)
    <3>1. w \notin T
      BY <1>2, <2>1
    <3>2. QED
      BY <3>1, <2>1
  <2>3. PICK v : v = Sums(d, f, x)
    OBVIOUS
  <2>4. PICK g : g = [m \in 0 .. x |-> IF m = x THEN v ELSE f[m]]
    OBVIOUS
  <2>5. g[x] = v /\ \A m \in 0 .. w : g[m] = f[m]
    BY <2>1, <2>4, <1>3
  <2>6. ASSUME NEW m \in 0 .. x PROVE Sums(d, g, m) = Sums(d, f, m)
    <3>1. CASE m = 0
      BY <3>1 DEF Sums
    <3>2. CASE m # 0
      <4>1. m - 1 \in 0 .. w
        BY <3>2, <2>1, <1>3
      <4>2. QED
        BY <4>1, <2>5 DEF Sums
    <3>3. QED
      BY <3>1, <3>2
  <2>7. ASSUME NEW m \in 0 .. x PROVE g[m] = Sums(d, g, m)
    <3>1. CASE m = x
      BY <3>1, <2>3, <2>5, <2>6
    <3>2. CASE m # x
      <4>1. m \in 0 .. w
        BY <3>2, <2>1, <1>3
      <4>2. QED
        BY <4>1, <2>2, <2>5, <2>6
    <3>3. QED
      BY <3>1, <3>2
  <2>8. QED
    BY <2>7, <1>3
<1>6. QED
  BY <1>4, <1>5

LEMMA SumsUnrolled ==
  ASSUME NEW d, NEW n \in Nat
  PROVE  \A m \in 0 .. n : SumOf(d, n)[m] = Sums(d, SumOf(d, n), m)
<1>1. PICK f : \A m \in 0 .. n : f[m] = Sums(d, f, m)
  BY SumsOnce
<1>2. PICK g : g = [m \in 0 .. n |-> f[m]]
  OBVIOUS
<1>3. ASSUME NEW m \in 0 .. n PROVE Sums(d, g, m) = f[m]
  <2>1. m = 0 \/ m - 1 \in 0 .. n
    OBVIOUS
  <2>2. Sums(d, g, m) = Sums(d, f, m)
    BY <2>1, <1>2 DEF Sums
  <2>3. QED
    BY <2>2, <1>1
<1>4. g = [m \in 0 .. n |-> Sums(d, g, m)]
  BY <1>2, <1>3
<1>5. SumOf(d, n) = [m \in 0 .. n |-> Sums(d, SumOf(d, n), m)]
  BY <1>4 DEF SumOf
<1>6. PICK s : s = SumOf(d, n)
  OBVIOUS
<1>7. s = [m \in 0 .. n |-> Sums(d, s, m)]
  BY <1>5, <1>6
<1>8. \A m \in 0 .. n : s[m] = Sums(d, s, m)
  BY <1>7
<1>9. QED
  BY <1>6, <1>8

(* A longer row of sums begins with the shorter one.                       *)
LEMMA SumsAgree ==
  ASSUME NEW d, NEW n \in Nat, NEW k \in 0 .. n
  PROVE  SumOf(d, n)[k] = SumOf(d, k)[k]
<1>0. k \in Nat /\ k <= n
  OBVIOUS
<1>1. PICK f : f = SumOf(d, n)
  OBVIOUS
<1>2. PICK g : g = SumOf(d, k)
  OBVIOUS
<1>3. \A m \in 0 .. n : f[m] = Sums(d, f, m)
  BY <1>1, SumsUnrolled
<1>4. \A m \in 0 .. k : g[m] = Sums(d, g, m)
  BY <1>0, <1>2, SumsUnrolled
<1> DEFINE T == {m \in Nat : m <= k /\ f[m] # g[m]}
<1>5. T = {}
  <2>1. SUFFICES ASSUME T # {} PROVE FALSE
    OBVIOUS
  <2>2. PICK x \in T : \A y \in T : x <= y
    BY <2>1, LeastNat
  <2>3. x \in Nat /\ x <= k /\ f[x] # g[x]
    BY <2>2
  <2>4. x \in 0 .. n /\ x \in 0 .. k
    BY <1>0, <2>3
  <2>5. Sums(d, f, x) = Sums(d, g, x)
    <3>1. CASE x = 0
      BY <3>1 DEF Sums
    <3>2. CASE x # 0
      <4>1. x - 1 \in Nat /\ x - 1 <= k /\ ~(x <= x - 1)
        BY <3>2, <2>3, <1>0
      <4>2. x - 1 \notin T
        BY <4>1, <2>2
      <4>3. f[x - 1] = g[x - 1]
        BY <4>1, <4>2
      <4>4. QED
        BY <4>3 DEF Sums
    <3>3. QED
      BY <3>1, <3>2
  <2>6. QED
    BY <2>3, <2>4, <2>5, <1>3, <1>4
<1>6. k \notin T
  BY <1>5
<1>7. QED
  BY <1>0, <1>1, <1>2, <1>6

(* Character by character.                                                 *)
LEMMA SumStep ==
  ASSUME NEW d, NEW n \in Nat
  PROVE  /\ SumOf(d, 0)[0] = 0
         /\ n > 0 => SumOf(d, n)[n] = IF d = <<>> THEN 0 ELSE SumOf(d, n - 1)[n - 1] + d[Text!Lesser(Len(d), n)]
<1>1. SumOf(d, 0)[0] = 0
  <2>1. 0 \in 0 .. 0 /\ 0 \in Nat
    OBVIOUS
  <2>2. QED
    BY <2>1, SumsUnrolled DEF Sums
<1>2. ASSUME n > 0 PROVE SumOf(d, n)[n] = IF d = <<>> THEN 0 ELSE SumOf(d, n - 1)[n - 1] + d[Text!Lesser(Len(d), n)]
  <2>1. n \in 0 .. n /\ n # 0 /\ n - 1 \in 0 .. n
    BY <1>2
  <2>2. SumOf(d, n)[n] = IF d = <<>> THEN 0 ELSE SumOf(d, n)[n - 1] + d[Text!Lesser(Len(d), n)]
    BY <2>1, SumsUnrolled DEF Sums
  <2>3. SumOf(d, n)[n - 1] = SumOf(d, n - 1)[n - 1]
    BY <2>1, SumsAgree
  <2>4. QED
    BY <2>2, <2>3
<1>3. QED
  BY <1>1, <1>2

(* The sum is a number.                                                    *)
LEMMA SumTyped ==
  ASSUME NEW d \in Seq(Int), NEW n \in Nat
  PROVE  SumOf(d, n)[n] \in Int
<1> DEFINE T == {m \in Nat : SumOf(d, m)[m] \notin Int}
<1>1. T = {}
  <2>1. SUFFICES ASSUME T # {} PROVE FALSE
    OBVIOUS
  <2>2. PICK x \in T : \A y \in T : x <= y
    BY <2>1, LeastNat
  <2>3. x \in Nat /\ SumOf(d, x)[x] \notin Int
    BY <2>2
  <2>4. x > 0
    BY <2>3, SumStep
  <2>5. x - 1 \in Nat /\ ~(x <= x - 1)
    BY <2>3, <2>4
  <2>6. SumOf(d, x - 1)[x - 1] \in Int
    <3>1. x - 1 \notin T
      BY <2>5, <2>2
    <3>2. QED
      BY <3>1, <2>5
  <2>7. SumOf(d, x)[x] = IF d = <<>> THEN 0 ELSE SumOf(d, x - 1)[x - 1] + d[Text!Lesser(Len(d), x)]
    BY <2>3, <2>4, SumStep
  <2>8. d # <<>> => d[Text!Lesser(Len(d), x)] \in Int
    BY <2>3, <2>4 DEF Text!Lesser
  <2>9. QED
    BY <2>3, <2>6, <2>7, <2>8
<1>2. QED
  BY <1>1

(* The place given last.                                                   *)
LEMMA StartStep ==
  ASSUME NEW o, NEW k \in Nat, NEW a
  PROVE  /\ StartIn(o, 0, a) = 0
         /\ StartIn(o, k + 1, a) = Text!Or(o.codes[k + 1].at[a], StartIn(o, k, a))
<1> DEFINE given(n) == {m \in 1 .. n : o.codes[m].at[a] # <<>>}
           most(G) == CHOOSE m \in G : \A q \in G : q <= m
<1>1. \A n : StartIn(o, n, a) = IF given(n) = {} THEN 0 ELSE o.codes[most(given(n))].at[a][1]
  BY DEF StartIn
<1>2. given(0) = {}
  OBVIOUS
<1>3. CASE o.codes[k + 1].at[a] = <<>>
  <2>1. given(k + 1) = given(k)
    <3>1. \A m : m \in 1 .. k + 1 <=> m \in 1 .. k \/ m = k + 1
      OBVIOUS
    <3>2. QED
      BY <3>1, <1>3
  <2> HIDE DEF given, most
  <2>2. StartIn(o, k + 1, a) = StartIn(o, k, a)
    BY <1>1, <2>1
  <2>3. QED
    BY <1>1, <1>2, <1>3, <2>2 DEF Text!Or
<1>4. CASE o.codes[k + 1].at[a] # <<>>
  <2>1. k + 1 \in given(k + 1) /\ \A q \in given(k + 1) : q \in Nat /\ q <= k + 1
    BY <1>4
  <2>2. most(given(k + 1)) = k + 1
    <3>1. PICK G : G = given(k + 1)
      OBVIOUS
    <3>2. k + 1 \in G /\ \A q \in G : q \in Nat /\ q <= k + 1
      BY <2>1, <3>1
    <3> HIDE DEF given
    <3>3. most(G) \in G /\ \A q \in G : q <= most(G)
      BY <3>2
    <3>4. PICK b : b = most(G)
      OBVIOUS
    <3> HIDE DEF most
    <3>5. b \in Nat /\ b <= k + 1 /\ k + 1 <= b
      BY <3>2, <3>3, <3>4
    <3>6. b = k + 1
      BY <3>5
    <3>7. QED
      BY <3>1, <3>4, <3>6
  <2> HIDE DEF given, most
  <2>3. given(k + 1) # {}
    BY <2>1
  <2>4. StartIn(o, k + 1, a) = o.codes[k + 1].at[a][1]
    BY <1>1, <2>2, <2>3
  <2>5. QED
    BY <1>1, <1>2, <1>4, <2>4 DEF Text!Or
<1>5. QED
  BY <1>3, <1>4

(* The text objects of the page.                                           *)
ShownSet == [code : Nat, char : Nat, glyph : Nat \cup {"none"}, at : [{"X", "Y"} -> Int], font : {"own", "default"}]

(* Where a character belongs, and whether one is there.                    *)
InPlace(s) ==
  Text!RegularCode(obj.codes[s.code]) => \A a \in {"X", "Y"} : s.at[a] = PlaceIn(obj, s.code, s.char, a)

(* The place is that of the character before.                              *)
AtPlace(a) ==
  (pc = "codes" /\ obj.cgs = <<>> /\ Text!Regular(Stated(a))) =>
    at[a] = IF i = 0 THEN StartIn(obj, code, a) ELSE PlaceIn(obj, code, i - 1, a)

PlaceInv ==
  /\ \A a \in {"X", "Y"} : last[a] = StartIn(obj, code, a)
  /\ pc = "expand" => at = last /\ i = 0
  /\ \A a \in {"X", "Y"} : AtPlace(a)
  /\ shown \in Seq(ShownSet)
  /\ obj.cgs = <<>> => \A k \in 1 .. Len(shown) : InPlace(shown[k])

LEMMA PlaceInit ==
  ASSUME Text!Init
  PROVE  PlaceInv
<1>1. code = 0 /\ pc = "font" /\ shown = <<>> /\ \A a \in {"X", "Y"} : last[a] = 0
  BY DEF Text!Init, Text!Axes
<1>2. \A a \in {"X", "Y"} : StartIn(obj, 0, a) = 0
  BY StartStep
<1>3. QED
  BY <1>1, <1>2 DEF PlaceInv, AtPlace

LEMMA PlaceNextTextCode ==
  ASSUME Text!TextAssumption, TextTyped, PlaceInv, Text!NextTextCode
  PROVE  PlaceInv'
<1>1. /\ code' = code + 1 /\ obj' = obj /\ pc' = "expand" /\ i' = 0 /\ last' = at' /\ shown' = shown
      /\ \A a \in {"X", "Y"} : at'[a] = Text!Or(obj.codes[code'].at[a], last[a])
  BY NextTextCodeFacts
<1>2. code \in Nat
  BY CodeFacts DEF TextTyped
<1>3. ASSUME NEW a \in {"X", "Y"} PROVE last'[a] = StartIn(obj, code, a)'
  <2>1. PICK c : c = code + 1
    OBVIOUS
  <2>2. StartIn(obj, c, a) = Text!Or(obj.codes[c].at[a], StartIn(obj, code, a))
    BY <1>2, <2>1, StartStep
  <2>3. last[a] = StartIn(obj, code, a)
    BY DEF PlaceInv
  <2>4. StartIn(obj, code, a)' = StartIn(obj, c, a)
    BY <1>1, <2>1
  <2>5. last'[a] = Text!Or(obj.codes[c].at[a], last[a])
    BY <1>1, <2>1
  <2>6. QED
    BY <2>2, <2>3, <2>4, <2>5
<1>4. \A a \in {"X", "Y"} : AtPlace(a)'
  BY <1>1 DEF AtPlace
<1>5. (obj.cgs = <<>> => \A k \in 1 .. Len(shown) : InPlace(shown[k]))'
  BY <1>1 DEF PlaceInv, InPlace, Text!RegularCode
<1>6. QED
  BY <1>1, <1>3, <1>4, <1>5 DEF PlaceInv, ShownSet

(* The place of a character is the place before and its delta.             *)
LEMMA PlaceStep ==
  ASSUME Text!TextAssumption, TextTyped, DeltaInv, PlaceInv, pc = "codes", obj.cgs = <<>>, NEW a \in {"X", "Y"},
         Text!Regular(Stated(a))
  PROVE  Text!calcCodePosAtIndex(i)[a] = PlaceIn(obj, code, i, a)
<1>1. PICK M \in Seq(Int) : M = Text!Meaning(Stated(a))
  BY DeltaExpanded
<1>2. PICK d \in Seq(Text!Token) : d = delta[a]
  BY DEF TextTyped
<1>3. Len(M) = Len(d) /\ \A k \in 1 .. Len(d) : M[k] = d[k].n
  BY <1>1, <1>2, DeltaExpanded
<1>4. PICK b : b = StartIn(obj, code, a)
  OBVIOUS
<1>5. b \in Int /\ at[a] \in Int /\ i \in Nat
  BY <1>4 DEF PlaceInv, TextTyped
<1>6. \A n : PlaceIn(obj, code, n, a) = b + SumOf(M, n)[n]
  BY <1>1, <1>4 DEF PlaceIn, Stated
<1>7. at[a] = IF i = 0 THEN b ELSE PlaceIn(obj, code, i - 1, a)
  BY <1>4 DEF PlaceInv, AtPlace
<1>8. PICK r : r = Text!calcCodePosAtIndex(i)[a]
  OBVIOUS
<1>9. r = at[a] + (IF i = 0 \/ d = <<>> THEN 0 ELSE d[Text!Lesser(Len(d), i)].n)
  BY <1>2, <1>8 DEF Text!calcCodePosAtIndex, Text!Axes
<1>10. d = <<>> <=> M = <<>>
  BY <1>3
<1>11. CASE i = 0
  <2>1. r = b
    BY <1>5, <1>7, <1>9, <1>11
  <2>2. PlaceIn(obj, code, 0, a) = b + 0
    BY <1>6, SumStep
  <2>3. QED
    BY <2>1, <2>2, <1>5, <1>8, <1>11
<1>12. CASE i # 0
  <2>1. i > 0 /\ i - 1 \in Nat
    BY <1>5, <1>12
  <2>2. PICK s \in Int : s = SumOf(M, i - 1)[i - 1]
    BY <2>1, SumTyped
  <2>3. SumOf(M, i)[i] = IF M = <<>> THEN 0 ELSE s + M[Text!Lesser(Len(M), i)]
    BY <1>5, <2>1, <2>2, SumStep
  <2>4. at[a] = b + s
    BY <1>6, <1>7, <1>12, <2>2
  <2>5. CASE d = <<>>
    <3>1. r = at[a] + 0 /\ SumOf(M, i)[i] = 0
      BY <2>3, <2>5, <1>9, <1>10
    <3>2. s = 0
      <4>1. CASE i - 1 = 0
        BY <4>1, <2>2, SumStep
      <4>2. CASE i - 1 # 0
        <5>1. i - 1 > 0
          BY <4>2, <2>1, <1>5
        <5>2. QED
          BY <5>1, <2>1, <2>2, <2>5, <1>10, SumStep
      <4>3. QED
        BY <4>1, <4>2
    <3>3. PlaceIn(obj, code, i, a) = b + 0
      BY <3>1, <1>6
    <3>4. QED
      BY <3>1, <3>2, <3>3, <2>4, <1>5, <1>8
  <2>6. CASE d # <<>>
    <3>1. PICK q \in 1 .. Len(d) : q = Text!Lesser(Len(d), i)
      <4>1. Len(d) \in Nat /\ Len(d) > 0
        BY <2>6
      <4>2. Text!Lesser(Len(d), i) \in 1 .. Len(d)
        BY <4>1, <2>1, <1>5 DEF Text!Lesser
      <4>3. QED
        BY <4>2
    <3>2. PICK v \in Int : v = d[q].n /\ v = M[q]
      BY <1>3, TokenFacts
    <3>3. r = (b + s) + v
      BY <1>9, <1>12, <2>4, <2>6, <3>1, <3>2
    <3>4. SumOf(M, i)[i] = s + v
      BY <1>3, <1>10, <2>3, <2>6, <3>1, <3>2
    <3>5. PlaceIn(obj, code, i, a) = b + (s + v)
      BY <3>4, <1>6
    <3>6. (b + s) + v = b + (s + v)
      BY <1>5, <2>2, <3>2
    <3>7. QED
      BY <3>3, <3>5, <3>6, <1>8
  <2>7. QED
    BY <2>5, <2>6
<1>13. QED
  BY <1>11, <1>12

(* A new text object behind those of the page.                             *)
LEMMA ShownAppended ==
  ASSUME shown \in Seq(ShownSet), NEW s \in ShownSet, shown' = Append(shown, s)
  PROVE  /\ shown' \in Seq(ShownSet) /\ Len(shown) \in Nat /\ Len(shown') = Len(shown) + 1
         /\ shown'[Len(shown) + 1] = s /\ \A k \in 1 .. Len(shown) : shown'[k] = shown[k]
<1>1. PICK S : S = ShownSet
  OBVIOUS
<1>2. PICK t : t = Append(shown, s)
  OBVIOUS
<1>3. shown \in Seq(S) /\ s \in S
  BY <1>1
<1>4. /\ t \in Seq(S) /\ Len(shown) \in Nat /\ Len(t) = Len(shown) + 1
      /\ t[Len(shown) + 1] = s /\ \A k \in 1 .. Len(shown) : t[k] = shown[k]
  BY <1>2, <1>3
<1>5. QED
  BY <1>1, <1>2, <1>4

LEMMA AppendCharFacts ==
  ASSUME Text!TextAssumption, TextTyped, shown \in Seq(ShownSet), Text!AppendChar
  PROVE  /\ pc = "codes" /\ i < Len(Text!Text) /\ Text!At(i) = {} /\ at' = Text!calcCodePosAtIndex(i)
         /\ i' = i + 1 /\ obj' = obj /\ code' = code /\ pc' = pc /\ last' = last /\ delta' = delta
         /\ calls' = calls /\ j' = j
         /\ \E s \in ShownSet :
              s.code = code /\ s.char = i /\ s.glyph = "none" /\ s.at = at' /\ shown' = Append(shown, s)
<1> DEFINE f == IF Text!Text[i + 1] THEN "own" ELSE "default"
           s == [code |-> code, char |-> i, glyph |-> "none", at |-> at', font |-> f]
<1>1. /\ pc = "codes" /\ i < Len(Text!Text) /\ Text!At(i) = {} /\ at' = Text!calcCodePosAtIndex(i)
      /\ i' = i + 1 /\ obj' = obj /\ code' = code /\ pc' = pc /\ last' = last /\ delta' = delta
      /\ calls' = calls /\ j' = j /\ shown' = Append(shown, s)
  BY DEF Text!AppendChar, Text!None
<1>2. i \in Nat /\ code \in Nat
  BY CodeFacts DEF TextTyped
<1>3. at' \in [{"X", "Y"} -> Int]
  BY <1>1, <1>2, PlaceTyped
<1>4. f \in {"own", "default"}
  OBVIOUS
<1> HIDE DEF f
<1>5. s \in ShownSet
  BY <1>2, <1>3, <1>4 DEF ShownSet
<1>6. s.code = code /\ s.char = i /\ s.glyph = "none" /\ s.at = at'
  OBVIOUS
<1> HIDE DEF s
<1>7. QED
  BY <1>1, <1>5, <1>6

LEMMA PlaceAppendChar ==
  ASSUME Text!TextAssumption, TextTyped, DeltaInv, PlaceInv, Text!AppendChar
  PROVE  PlaceInv'
<1>0. shown \in Seq(ShownSet)
  BY DEF PlaceInv
<1>1. /\ pc = "codes" /\ at' = Text!calcCodePosAtIndex(i)
      /\ i' = i + 1 /\ obj' = obj /\ code' = code /\ pc' = pc /\ last' = last /\ delta' = delta
  BY <1>0, AppendCharFacts
<1>2. PICK s \in ShownSet : s.code = code /\ s.char = i /\ s.at = at' /\ shown' = Append(shown, s)
  BY <1>0, AppendCharFacts
<1>3. i \in Nat /\ i + 1 # 0 /\ (i + 1) - 1 = i
  BY DEF TextTyped
<1>4. ASSUME NEW a \in {"X", "Y"}, obj.cgs = <<>>, Text!Regular(Stated(a)) PROVE at'[a] = PlaceIn(obj, code, i, a)
  BY <1>1, <1>4, PlaceStep
<1>5. ASSUME NEW a \in {"X", "Y"} PROVE AtPlace(a)'
  <2>1. SUFFICES ASSUME obj.cgs = <<>>, Text!Regular(Stated(a)) PROVE at'[a] = PlaceIn(obj, code, i - 1, a)'
    BY <1>1, <1>3 DEF AtPlace, Stated
  <2>2. PlaceIn(obj, code, i - 1, a)' = PlaceIn(obj, code, i, a)
    BY <1>1, <1>3
  <2>3. QED
    BY <2>1, <2>2, <1>4
<1>6. /\ shown' \in Seq(ShownSet) /\ Len(shown) \in Nat /\ Len(shown') = Len(shown) + 1
      /\ shown'[Len(shown) + 1] = s /\ \A k \in 1 .. Len(shown) : shown'[k] = shown[k]
  BY <1>0, <1>2, ShownAppended
<1>7. ASSUME obj.cgs = <<>> PROVE InPlace(s)
  <2>1. SUFFICES ASSUME Text!RegularCode(obj.codes[code]), NEW a \in {"X", "Y"} PROVE at'[a] = PlaceIn(obj, code, i, a)
    BY <1>2 DEF InPlace
  <2>2. Text!Regular(Stated(a))
    BY <2>1 DEF Text!RegularCode, Stated, Text!Axes
  <2>3. QED
    BY <1>4, <1>7, <2>2
<1>8. ASSUME NEW e PROVE InPlace(e) => InPlace(e)'
  BY <1>1 DEF InPlace, Text!RegularCode
<1>9. (obj.cgs = <<>> => \A k \in 1 .. Len(shown) : InPlace(shown[k]))'
  <2>1. SUFFICES ASSUME obj.cgs = <<>>, NEW k \in 1 .. Len(shown') PROVE InPlace(shown[k])'
    BY <1>1
  <2>2. PICK e : e = shown'[k]
    OBVIOUS
  <2>3. InPlace(e)
    <3>1. k \in 1 .. Len(shown) \/ k = Len(shown) + 1
      BY <1>6
    <3>2. QED
      BY <3>1, <2>1, <2>2, <1>6, <1>7 DEF PlaceInv
  <2>4. InPlace(e)'
    BY <2>3, <1>8
  <2>5. QED
    BY <2>2, <2>4 DEF InPlace
<1>10. \A a \in {"X", "Y"} : (last[a] = StartIn(obj, code, a))'
  BY <1>1 DEF PlaceInv
<1>11. QED
  BY <1>1, <1>5, <1>6, <1>9, <1>10 DEF PlaceInv, ShownSet
LEMMA PlaceOthers ==
  ASSUME Text!TextAssumption, TextTyped, PlaceInv,
         \/ Text!SetFont \/ Text!Expand \/ Text!Expanded \/ Text!AppendCharDies
         \/ Text!EndOfTextCode \/ UNCHANGED Text!vars
  PROVE  PlaceInv'
<1>1. /\ obj' = obj /\ code' = code /\ at' = at /\ last' = last /\ i' = i /\ shown' = shown
      /\ (pc' \in {pc, "next", "dead"}) \/ (pc = "expand" /\ pc' = "codes")
  BY DEF Text!SetFont, Text!Expand, Text!Expanded, Text!AppendCharDies, Text!EndOfTextCode, Text!vars
<1>2. ASSUME NEW a \in {"X", "Y"} PROVE AtPlace(a)'
  BY <1>1 DEF PlaceInv, AtPlace, Stated
<1>3. QED
  BY <1>1, <1>2 DEF PlaceInv, InPlace, ShownSet

(* With a CGTransform nothing is said of places.                           *)
LEMMA AppendGlyphFacts ==
  ASSUME Text!TextAssumption, TextTyped, shown \in Seq(ShownSet), Text!AppendGlyph
  PROVE  /\ pc = "codes" /\ i < Len(Text!Text)
         /\ obj' = obj /\ code' = code /\ pc' = pc /\ last' = last /\ delta' = delta /\ calls' = calls
         /\ \E k \in 1 .. Len(obj.cgs) :
              /\ k \in Text!At(i) /\ Text!Cg(i) = obj.cgs[k]
              /\ \/ /\ j < Len(obj.cgs[k].glyphs) /\ j' = j + 1 /\ i' = i
                    /\ \E s \in ShownSet :
                         /\ s.code = code /\ s.char = i /\ s.glyph = obj.cgs[k].glyphs[j + 1]
                         /\ shown' = Append(shown, s)
                 \/ /\ ~(j < Len(obj.cgs[k].glyphs)) /\ i' = i + obj.cgs[k].codes /\ j' = 0
                    /\ shown' = shown
<1>1. PICK k : k \in Text!At(i) /\ k = CHOOSE m \in Text!At(i) : TRUE
  BY DEF Text!AppendGlyph
<1>2. k \in 1 .. Len(obj.cgs) /\ Text!Cg(i) = obj.cgs[k]
  BY <1>1 DEF Text!At, Text!Cg
<1>3. PICK g \in Seq(Nat) : g = obj.cgs[k].glyphs
  BY <1>2, CodeFacts DEF TextTyped
<1>4. i \in Nat /\ j \in Nat /\ code \in Nat
  BY CodeFacts DEF TextTyped
<1>5. /\ pc = "codes" /\ i < Len(Text!Text)
      /\ obj' = obj /\ code' = code /\ pc' = pc /\ last' = last /\ delta' = delta /\ calls' = calls
      /\ IF j < Len(g)
         THEN /\ at' = Text!calcCodePosAtIndex(i + j)
              /\ shown' = Append(shown, [code |-> code, char |-> i, glyph |-> g[j + 1], at |-> at', font |-> "own"])
              /\ j' = j + 1 /\ i' = i
         ELSE i' = i + Text!Cg(i).codes /\ j' = 0 /\ at' = at /\ shown' = shown
  BY <1>2, <1>3 DEF Text!AppendGlyph
<1>6. CASE j < Len(g)
  <2>1. at' \in [{"X", "Y"} -> Int]
    <3>1. i + j \in Nat
      BY <1>4
    <3>2. QED
      BY <3>1, <1>5, <1>6, PlaceTyped
  <2>2. PICK v \in Nat : v = g[j + 1]
    <3>1. j + 1 \in 1 .. Len(g)
      BY <1>4, <1>6
    <3>2. QED
      BY <3>1
  <2>3. PICK s : s = [code |-> code, char |-> i, glyph |-> v, at |-> at', font |-> "own"]
    OBVIOUS
  <2>4. s \in ShownSet
    BY <2>1, <2>2, <2>3, <1>4 DEF ShownSet
  <2>5. s.code = code /\ s.char = i /\ s.glyph = g[j + 1]
    BY <2>2, <2>3
  <2>6. shown' = Append(shown, s) /\ j' = j + 1 /\ i' = i
    BY <1>5, <1>6, <2>2, <2>3
  <2>7. QED
    BY <1>1, <1>2, <1>3, <1>5, <1>6, <2>4, <2>5, <2>6
<1>7. CASE ~(j < Len(g))
  BY <1>1, <1>2, <1>3, <1>5, <1>7
<1>8. QED
  BY <1>6, <1>7

LEMMA PlaceAppendGlyph ==
  ASSUME Text!TextAssumption, TextTyped, PlaceInv, Text!AppendGlyph
  PROVE  PlaceInv'
<1>0. shown \in Seq(ShownSet)
  BY DEF PlaceInv
<1>1. /\ pc = "codes" /\ obj' = obj /\ code' = code /\ pc' = pc /\ last' = last
      /\ \E k \in 1 .. Len(obj.cgs) : TRUE
      /\ \/ \E s \in ShownSet : shown' = Append(shown, s)
         \/ shown' = shown
  BY <1>0, AppendGlyphFacts
<1>2. obj.cgs # <<>>
  BY <1>1
<1>3. shown' \in Seq(ShownSet)
  BY <1>0, <1>1, ShownAppended
<1>4. QED
  BY <1>1, <1>2, <1>3 DEF PlaceInv, AtPlace, ShownSet

LEMMA PlaceGives ==
  ASSUME PlaceInv
  PROVE  Text!PlacedAsMeant
<1>1. SUFFICES ASSUME obj.cgs = <<>>, NEW s \in Text!Range(shown), Text!RegularCode(obj.codes[s.code]), NEW a \in {"X", "Y"}
               PROVE  s.at[a] = Text!Place(s.code, s.char, a)
  BY DEF Text!PlacedAsMeant, Text!Axes
<1>2. PICK k \in DOMAIN shown : s = shown[k]
  BY DEF Text!Range
<1>3. k \in 1 .. Len(shown)
  BY <1>2 DEF PlaceInv
<1>4. InPlace(s)
  BY <1>1, <1>2, <1>3 DEF PlaceInv
<1>5. QED
  BY <1>1, <1>4, PlaceIs DEF InPlace

(* At and Cg for any text object.                                          *)
AtIn(o, p) == {k \in 1 .. Len(o.cgs) : o.cgs[k].position = p /\ \A m \in 1 .. k - 1 : o.cgs[m].position # p}
CgIn(o, p) == o.cgs[CHOOSE k \in AtIn(o, p) : TRUE]

LEMMA AtIs == \A p : Text!At(p) = AtIn(obj, p) /\ Text!Cg(p) = CgIn(obj, p)
  BY DEF Text!At, AtIn, Text!Cg, CgIn

CgsTyped(o) ==
  \A k \in 1 .. Len(o.cgs) : o.cgs[k].codes \in Nat \ {0} /\ o.cgs[k].glyphs \in Seq(Nat)

LEMMA TransformFacts ==
  ASSUME NEW o, CgsTyped(o), NEW p, AtIn(o, p) # {}, NEW g, g = CgIn(o, p)
  PROVE  g.codes \in Nat \ {0} /\ g.glyphs \in Seq(Nat)
<1> DEFINE k == CHOOSE m \in AtIn(o, p) : TRUE
<1>1. k \in AtIn(o, p) /\ CgIn(o, p) = o.cgs[k]
  BY DEF CgIn
<1>2. k \in 1 .. Len(o.cgs)
  BY <1>1 DEF AtIn
<1> HIDE DEF k
<1>3. o.cgs[k].codes \in Nat \ {0} /\ o.cgs[k].glyphs \in Seq(Nat)
  BY <1>2 DEF CgsTyped
<1>4. g = o.cgs[k]
  BY <1>1
<1>5. QED
  BY ONLY <1>3, <1>4

(* The characters a transform before them covers, given those before.      *)
Covers(o, f, n) == \E m \in 0 .. n - 1 : ~f[m] /\ AtIn(o, m) # {} /\ m + CgIn(o, m).codes > n
CoveredIn(o, L) == CHOOSE f : f = [n \in 0 .. L |-> Covers(o, f, n)]

LEMMA CoversSame ==
  ASSUME NEW o, NEW f, NEW g, NEW n, \A m \in 0 .. n - 1 : f[m] = g[m]
  PROVE  Covers(o, f, n) = Covers(o, g, n)
  BY DEF Covers

LEMMA CoveredOnce ==
  ASSUME NEW o, NEW L \in Nat
  PROVE  \E f : \A n \in 0 .. L : f[n] = Covers(o, f, n)
<1> DEFINE Good(f, k) == \A n \in 0 .. k : f[n] = Covers(o, f, n)
           T == {k \in Nat : ~ \E f : Good(f, k)}
<1>1. SUFFICES ASSUME T # {} PROVE FALSE
  <2>1. SUFFICES ASSUME ~ \E f : Good(f, L) PROVE FALSE
    OBVIOUS
  <2>2. L \in T
    BY <2>1
  <2>3. QED
    BY <2>2, <1>1
<1>2. PICK x \in T : \A y \in T : x <= y
  BY <1>1, LeastNat
<1>3. x \in Nat /\ ~ \E f : Good(f, x)
  BY <1>2
<1>4. PICK f : \A n \in 0 .. x - 1 : f[n] = Covers(o, f, n)
  <2>1. CASE x = 0
    <3>1. \A n \in 0 .. x - 1 : FALSE
      BY <2>1
    <3>2. QED
      BY <3>1
  <2>2. CASE x # 0
    <3>1. x - 1 \in Nat /\ ~(x <= x - 1)
      BY <1>3, <2>2
    <3>2. x - 1 \notin T
      BY <3>1, <1>2
    <3>3. \E f : Good(f, x - 1)
      BY <3>1, <3>2
    <3>4. QED
      BY <3>3
  <2>3. QED
    BY <2>1, <2>2
<1>5. PICK v : v = Covers(o, f, x)
  OBVIOUS
<1>6. PICK g : g = [n \in 0 .. x |-> IF n = x THEN v ELSE f[n]]
  OBVIOUS
<1>7. g[x] = v /\ \A n \in 0 .. x - 1 : g[n] = f[n]
  <2>1. x \in 0 .. x /\ \A n \in 0 .. x - 1 : n \in 0 .. x /\ n # x
    BY <1>3
  <2>2. QED
    BY <2>1, <1>6
<1>8. ASSUME NEW n \in 0 .. x PROVE Covers(o, g, n) = Covers(o, f, n)
  <2>1. \A m \in 0 .. n - 1 : m \in 0 .. x - 1
    BY <1>3
  <2>2. QED
    BY <2>1, <1>7, CoversSame
<1>9. ASSUME NEW n \in 0 .. x PROVE g[n] = Covers(o, g, n)
  <2>1. CASE n = x
    BY <2>1, <1>5, <1>7, <1>8
  <2>2. CASE n # x
    <3>1. n \in 0 .. x - 1
      BY <1>3, <2>2
    <3>2. QED
      BY <3>1, <1>4, <1>7, <1>8
  <2>3. QED
    BY <2>1, <2>2
<1>10. QED
  BY <1>9, <1>3

LEMMA CoveredUnrolled ==
  ASSUME NEW o, NEW L \in Nat
  PROVE  \A n \in 0 .. L : CoveredIn(o, L)[n] = Covers(o, CoveredIn(o, L), n)
<1>1. PICK f : \A n \in 0 .. L : f[n] = Covers(o, f, n)
  BY CoveredOnce
<1>2. PICK g : g = [n \in 0 .. L |-> f[n]]
  OBVIOUS
<1>3. ASSUME NEW n \in 0 .. L PROVE Covers(o, g, n) = f[n]
  <2>1. \A m \in 0 .. n - 1 : g[m] = f[m]
    <3>1. \A m \in 0 .. n - 1 : m \in 0 .. L
      OBVIOUS
    <3>2. QED
      BY <3>1, <1>2
  <2>2. Covers(o, g, n) = Covers(o, f, n)
    BY <2>1, CoversSame
  <2>3. QED
    BY <2>2, <1>1
<1>4. g = [n \in 0 .. L |-> Covers(o, g, n)]
  BY <1>2, <1>3
<1>5. CoveredIn(o, L) = [n \in 0 .. L |-> Covers(o, CoveredIn(o, L), n)]
  BY <1>4 DEF CoveredIn
<1>6. PICK s : s = CoveredIn(o, L)
  OBVIOUS
<1>7. s = [n \in 0 .. L |-> Covers(o, s, n)]
  BY <1>5, <1>6
<1>8. \A n \in 0 .. L : s[n] = Covers(o, s, n)
  BY <1>7
<1>9. QED
  BY <1>6, <1>8

(* What a character is to be shown as.                                     *)
MeantIn(o, L, n) ==
  IF CoveredIn(o, L)[n] THEN <<>> ELSE IF AtIn(o, n) = {} THEN <<"none">> ELSE CgIn(o, n).glyphs

LEMMA MeantTyped ==
  ASSUME NEW o, CgsTyped(o), NEW L, NEW n
  PROVE  Len(MeantIn(o, L, n)) \in Nat
<1>1. CASE AtIn(o, n) # {}
  <2>1. PICK c : c = CgIn(o, n)
    OBVIOUS
  <2>2. PICK g \in Seq(Nat) : g = c.glyphs
    BY <1>1, <2>1, TransformFacts
  <2>3. Len(g) \in Nat
    OBVIOUS
  <2>4. QED
    BY <1>1, <2>1, <2>2, <2>3 DEF MeantIn
<1>2. CASE AtIn(o, n) = {}
  BY <1>2 DEF MeantIn
<1>3. QED
  BY <1>1, <1>2

(* Of and ShownAs for any page.                                            *)
OfIn(sh, c, n) == {k \in 1 .. Len(sh) : sh[k].code = c /\ sh[k].char = n}
ShownIn(sh, c, n, g) ==
  \E b \in 0 .. Len(sh) : OfIn(sh, c, n) = b + 1 .. b + Len(g) /\ \A k \in 1 .. Len(g) : sh[b + k].glyph = g[k]

(* t has e behind the text objects of sh.                                  *)
Added(sh, e, t) ==
  Len(sh) \in Nat /\ Len(t) = Len(sh) + 1 /\ t[Len(sh) + 1] = e /\ \A k \in 1 .. Len(sh) : t[k] = sh[k]

LEMMA OfAdded ==
  ASSUME NEW sh, NEW e, NEW t, Added(sh, e, t), NEW c, NEW n
  PROVE  /\ ~(e.code = c /\ e.char = n) => OfIn(t, c, n) = OfIn(sh, c, n)
         /\ e.code = c /\ e.char = n => OfIn(t, c, n) = OfIn(sh, c, n) \cup {Len(sh) + 1}
<1>1. /\ Len(sh) \in Nat /\ Len(t) = Len(sh) + 1 /\ t[Len(sh) + 1] = e /\ \A k \in 1 .. Len(sh) : t[k] = sh[k]
  BY DEF Added
<1>2. \A k : k \in 1 .. Len(t) <=> k \in 1 .. Len(sh) \/ k = Len(sh) + 1
  BY <1>1
<1>3. QED
  BY <1>1, <1>2 DEF OfIn

(* Text objects of other characters change nothing.                        *)
LEMMA ShownStays ==
  ASSUME NEW sh, NEW e, NEW t, Added(sh, e, t), NEW c, NEW n, NEW g, Len(g) \in Nat,
         ~(e.code = c /\ e.char = n), ShownIn(sh, c, n, g)
  PROVE  ShownIn(t, c, n, g)
<1>1. /\ Len(sh) \in Nat /\ Len(t) = Len(sh) + 1 /\ \A k \in 1 .. Len(sh) : t[k] = sh[k]
      /\ OfIn(t, c, n) = OfIn(sh, c, n)
  BY OfAdded DEF Added
<1>2. PICK b \in 0 .. Len(sh) : OfIn(sh, c, n) = b + 1 .. b + Len(g) /\ \A k \in 1 .. Len(g) : sh[b + k].glyph = g[k]
  BY DEF ShownIn
<1>3. b \in 0 .. Len(t)
  BY <1>1
<1>4. ASSUME NEW k \in 1 .. Len(g) PROVE t[b + k].glyph = g[k]
  <2>1. b + k \in b + 1 .. b + Len(g)
    BY <1>1
  <2>2. b + k \in 1 .. Len(sh)
    BY <2>1, <1>2 DEF OfIn
  <2>3. QED
    BY <2>2, <1>1, <1>2
<1>5. QED
  BY <1>1, <1>2, <1>3, <1>4 DEF ShownIn

(* Character x of TextCode c is at work, y of its glyphs are shown: those  *)
(* before it are shown as meant, those behind it not at all, and no        *)
(* transform reaches over it.                                              *)
ShownBefore(o, c, L, sh, x) == \A n \in 0 .. L - 1 : n < x => ShownIn(sh, c, n, MeantIn(o, L, n))
NoneBehind(c, sh, x) == \A n \in Nat : n > x => OfIn(sh, c, n) = {}
NoneOver(o, L, x) ==
  \A m \in 0 .. L - 1 : (m < x /\ ~CoveredIn(o, L)[m] /\ AtIn(o, m) # {}) => m + CgIn(o, m).codes <= x
GlyphsSoFar(o, c, L, sh, x, y) ==
  /\ y <= Len(sh) /\ OfIn(sh, c, x) = (Len(sh) - y) + 1 .. Len(sh)
  /\ y > 0 => /\ x < L /\ AtIn(o, x) # {} /\ y <= Len(CgIn(o, x).glyphs)
              /\ \A k \in 1 .. y : sh[(Len(sh) - y) + k].glyph = CgIn(o, x).glyphs[k]
CodesInv(o, c, L, sh, x, y) ==
  ShownBefore(o, c, L, sh, x) /\ NoneBehind(c, sh, x) /\ NoneOver(o, L, x) /\ GlyphsSoFar(o, c, L, sh, x, y)

LEMMA NotCovered ==
  ASSUME NEW o, CgsTyped(o), NEW L \in Nat, NEW x \in Nat, x < L, NoneOver(o, L, x)
  PROVE  ~CoveredIn(o, L)[x]
<1>1. PICK C : C = CoveredIn(o, L)
  OBVIOUS
<1>2. x \in 0 .. L
  OBVIOUS
<1>3. C[x] = Covers(o, C, x)
  BY <1>1, <1>2, CoveredUnrolled
<1>4. ~Covers(o, C, x)
  <2>1. SUFFICES ASSUME NEW m \in 0 .. x - 1, ~C[m], AtIn(o, m) # {}, m + CgIn(o, m).codes > x PROVE FALSE
    BY DEF Covers
  <2>2. m \in 0 .. L - 1 /\ m < x /\ m \in Nat
    OBVIOUS
  <2>3. PICK g : g = CgIn(o, m)
    OBVIOUS
  <2>4. g.codes \in Nat
    BY <2>1, <2>3, TransformFacts
  <2>5. m + g.codes <= x
    BY <1>1, <2>1, <2>2, <2>3 DEF NoneOver
  <2>6. m + g.codes > x
    BY <2>1, <2>3
  <2>7. QED
    BY <2>2, <2>4, <2>5, <2>6
<1>5. QED
  BY <1>1, <1>3, <1>4

LEMMA NoGlyphs ==
  ASSUME NEW o, NEW c, NEW L, NEW sh, Len(sh) \in Nat, NEW x, OfIn(sh, c, x) = {}
  PROVE  GlyphsSoFar(o, c, L, sh, x, 0)
<1>1. 0 <= Len(sh) /\ (Len(sh) - 0) + 1 .. Len(sh) = {}
  OBVIOUS
<1>2. 0 <= Len(sh) /\ OfIn(sh, c, x) = (Len(sh) - 0) + 1 .. Len(sh)
  BY <1>1
<1>3. ~(0 > 0)
  OBVIOUS
<1>4. QED
  BY ONLY <1>2, <1>3, Zenon DEF GlyphsSoFar

LEMMA OnceStart ==
  ASSUME NEW o, NEW c, NEW L \in Nat, NEW sh, Len(sh) \in Nat, \A n \in Nat : OfIn(sh, c, n) = {}
  PROVE  CodesInv(o, c, L, sh, 0, 0)
<1>1. ShownBefore(o, c, L, sh, 0)
  <2>1. \A n \in 0 .. L - 1 : ~(n < 0)
    OBVIOUS
  <2>2. QED
    BY <2>1 DEF ShownBefore
<1>2. NoneBehind(c, sh, 0)
  BY DEF NoneBehind
<1>3. NoneOver(o, L, 0)
  <2>1. \A n \in 0 .. L - 1 : ~(n < 0)
    OBVIOUS
  <2>2. QED
    BY <2>1 DEF NoneOver
<1>4. GlyphsSoFar(o, c, L, sh, 0, 0)
  BY NoGlyphs
<1>5. QED
  BY <1>1, <1>2, <1>3, <1>4 DEF CodesInv

LEMMA OnceChar ==
  ASSUME NEW o, CgsTyped(o), NEW c, NEW L \in Nat, NEW sh, NEW x \in Nat, NEW y \in Nat, x < L, AtIn(o, x) = {},
         CodesInv(o, c, L, sh, x, y), NEW e, NEW t, Added(sh, e, t), e.code = c, e.char = x, e.glyph = "none"
  PROVE  CodesInv(o, c, L, t, x + 1, y)
<1>1. /\ ShownBefore(o, c, L, sh, x) /\ NoneBehind(c, sh, x) /\ NoneOver(o, L, x)
      /\ OfIn(sh, c, x) = (Len(sh) - y) + 1 .. Len(sh) /\ ~(y > 0)
  BY DEF CodesInv, GlyphsSoFar
<1>2. y = 0
  BY <1>1
<1>3. Len(sh) \in Nat /\ Len(t) = Len(sh) + 1 /\ t[Len(sh) + 1] = e
  BY DEF Added
<1>4. OfIn(sh, c, x) = {}
  <2>1. (Len(sh) - 0) + 1 .. Len(sh) = {}
    BY <1>3
  <2>2. QED
    BY <1>1, <1>2, <2>1
<1>5. OfIn(t, c, x) = {Len(sh) + 1}
  <2>1. OfIn(t, c, x) = OfIn(sh, c, x) \cup {Len(sh) + 1}
    BY OfAdded
  <2>2. QED
    BY <2>1, <1>4
<1>6. ASSUME NEW n \in Nat, n # x PROVE OfIn(t, c, n) = OfIn(sh, c, n)
  BY <1>6, OfAdded
<1>7. ShownBefore(o, c, L, t, x + 1)
  <2>1. SUFFICES ASSUME NEW n \in 0 .. L - 1, n < x + 1 PROVE ShownIn(t, c, n, MeantIn(o, L, n))
    BY DEF ShownBefore
  <2>2. CASE n = x
    <3>1. MeantIn(o, L, x) = <<"none">>
      BY <1>1, NotCovered DEF MeantIn
    <3>2. PICK g : g = <<"none">>
      OBVIOUS
    <3>3. Len(g) = 1 /\ g[1] = "none" /\ \A k \in 1 .. Len(g) : k = 1
      BY <3>2
    <3>4. Len(sh) \in 0 .. Len(t)
      BY <1>3
    <3>5. {Len(sh) + 1} = Len(sh) + 1 .. Len(sh) + 1
      BY <1>3
    <3>6. ShownIn(t, c, x, g)
      BY <1>3, <1>5, <3>3, <3>4, <3>5 DEF ShownIn
    <3>7. QED
      BY <2>2, <3>1, <3>2, <3>6
  <2>3. CASE n # x
    <3>1. n < x /\ n \in Nat
      BY <2>1, <2>3
    <3>2. PICK g : g = MeantIn(o, L, n)
      OBVIOUS
    <3>3. ShownIn(sh, c, n, g) /\ Len(g) \in Nat
      BY <1>1, <3>1, <3>2, MeantTyped DEF ShownBefore
    <3>4. ~(e.code = c /\ e.char = n)
      BY <2>3
    <3>5. QED
      BY <3>2, <3>3, <3>4, ShownStays
  <2>4. QED
    BY <2>2, <2>3
<1>8. NoneBehind(c, t, x + 1)
  <2>1. \A n \in Nat : n > x + 1 => n > x /\ n # x
    OBVIOUS
  <2>2. QED
    BY <2>1, <1>1, <1>6 DEF NoneBehind
<1>9. NoneOver(o, L, x + 1)
  <2>1. SUFFICES ASSUME NEW m \in 0 .. L - 1, m < x + 1, ~CoveredIn(o, L)[m], AtIn(o, m) # {}
                 PROVE  m + CgIn(o, m).codes <= x + 1
    BY DEF NoneOver
  <2>2. m \in Nat /\ m < x
    BY <2>1
  <2>3. PICK g : g = CgIn(o, m)
    OBVIOUS
  <2>4. g.codes \in Nat /\ m + g.codes <= x
    BY <1>1, <2>1, <2>2, <2>3, TransformFacts DEF NoneOver
  <2>5. m + g.codes <= x + 1
    BY <2>2, <2>4
  <2>6. QED
    BY <2>3, <2>5
<1>10. GlyphsSoFar(o, c, L, t, x + 1, y)
  <2>1. Len(t) \in Nat
    BY <1>3
  <2>2. OfIn(t, c, x + 1) = {}
    <3>1. x + 1 \in Nat /\ x + 1 # x /\ x + 1 > x
      OBVIOUS
    <3>2. QED
      BY <3>1, <1>1, <1>6 DEF NoneBehind
  <2>3. QED
    BY <1>2, <2>1, <2>2, NoGlyphs
<1>11. QED
  BY <1>7, <1>8, <1>9, <1>10 DEF CodesInv

LEMMA OnceGlyph ==
  ASSUME NEW o, CgsTyped(o), NEW c, NEW L \in Nat, NEW sh, NEW x \in Nat, NEW y \in Nat, x < L, AtIn(o, x) # {},
         CodesInv(o, c, L, sh, x, y), NEW g \in Seq(Nat), g = CgIn(o, x).glyphs, y < Len(g),
         NEW e, NEW t, Added(sh, e, t), e.code = c, e.char = x, e.glyph = g[y + 1]
  PROVE  CodesInv(o, c, L, t, x, y + 1)
<1>1. /\ ShownBefore(o, c, L, sh, x) /\ NoneBehind(c, sh, x) /\ NoneOver(o, L, x)
      /\ y <= Len(sh) /\ OfIn(sh, c, x) = (Len(sh) - y) + 1 .. Len(sh)
      /\ y > 0 => \A k \in 1 .. y : sh[(Len(sh) - y) + k].glyph = g[k]
  BY DEF CodesInv, GlyphsSoFar
<1>2. Len(sh) \in Nat /\ Len(t) = Len(sh) + 1 /\ t[Len(sh) + 1] = e /\ \A k \in 1 .. Len(sh) : t[k] = sh[k]
  BY DEF Added
<1>3. OfIn(t, c, x) = OfIn(sh, c, x) \cup {Len(sh) + 1}
  BY OfAdded
<1>4. ASSUME NEW n \in Nat, n # x PROVE OfIn(t, c, n) = OfIn(sh, c, n)
  BY <1>4, OfAdded
<1>5. ShownBefore(o, c, L, t, x)
  <2>1. SUFFICES ASSUME NEW n \in 0 .. L - 1, n < x PROVE ShownIn(t, c, n, MeantIn(o, L, n))
    BY DEF ShownBefore
  <2>2. PICK u : u = MeantIn(o, L, n)
    OBVIOUS
  <2>3. ShownIn(sh, c, n, u) /\ Len(u) \in Nat
    BY <1>1, <2>1, <2>2, MeantTyped DEF ShownBefore
  <2>4. ~(e.code = c /\ e.char = n)
    BY <2>1
  <2>5. QED
    BY <2>2, <2>3, <2>4, ShownStays
<1>6. NoneBehind(c, t, x)
  <2>1. \A n \in Nat : n > x => n # x
    OBVIOUS
  <2>2. QED
    BY <2>1, <1>1, <1>4 DEF NoneBehind
<1>7. y + 1 <= Len(t) /\ Len(t) - (y + 1) = Len(sh) - y /\ Len(g) \in Nat /\ y + 1 <= Len(g)
  BY <1>1, <1>2
<1>8. OfIn(t, c, x) = (Len(t) - (y + 1)) + 1 .. Len(t)
  <2>1. \A k : k \in ((Len(sh) - y) + 1 .. Len(sh)) \cup {Len(sh) + 1} <=> k \in (Len(sh) - y) + 1 .. Len(sh) + 1
    BY <1>1, <1>2
  <2>2. ((Len(sh) - y) + 1 .. Len(sh)) \cup {Len(sh) + 1} = (Len(sh) - y) + 1 .. Len(sh) + 1
    BY <2>1
  <2>3. QED
    BY <1>1, <1>2, <1>3, <1>7, <2>2
<1>9. ASSUME NEW k \in 1 .. y + 1 PROVE t[(Len(t) - (y + 1)) + k].glyph = g[k]
  <2>1. CASE k = y + 1
    <3>1. (Len(sh) - y) + (y + 1) = Len(sh) + 1
      BY <1>2
    <3>2. QED
      BY <2>1, <3>1, <1>2, <1>7
  <2>2. CASE k # y + 1
    <3>0. k \in 1 .. y /\ y > 0 /\ y <= Len(sh)
      BY <1>1, <2>2
    <3>1. k \in 1 .. y /\ y > 0 /\ (Len(sh) - y) + k \in 1 .. Len(sh)
      BY <3>0, <1>2
    <3>2. QED
      BY <3>1, <1>1, <1>2, <1>7
  <2>3. QED
    BY <2>1, <2>2
<1>10. GlyphsSoFar(o, c, L, t, x, y + 1)
  BY <1>7, <1>8, <1>9 DEF GlyphsSoFar
<1>11. QED
  BY <1>1, <1>5, <1>6, <1>10 DEF CodesInv

(* The step over the codes of a transform.                                 *)
LEMMA OnceSkip ==
  ASSUME NEW o, CgsTyped(o), NEW c, NEW L \in Nat, NEW sh, Len(sh) \in Nat, NEW x \in Nat, NEW y \in Nat, x < L,
         AtIn(o, x) # {}, CodesInv(o, c, L, sh, x, y), NEW g \in Seq(Nat), g = CgIn(o, x).glyphs, ~(y < Len(g)),
         NEW n \in Nat \ {0}, n = CgIn(o, x).codes
  PROVE  CodesInv(o, c, L, sh, x + n, 0)
<1>1. /\ ShownBefore(o, c, L, sh, x) /\ NoneBehind(c, sh, x) /\ NoneOver(o, L, x)
      /\ y <= Len(sh) /\ OfIn(sh, c, x) = (Len(sh) - y) + 1 .. Len(sh)
      /\ y > 0 => y <= Len(g) /\ \A k \in 1 .. y : sh[(Len(sh) - y) + k].glyph = g[k]
  BY DEF CodesInv, GlyphsSoFar
<1>2. Len(g) = y
  <2>1. Len(g) \in Nat
    OBVIOUS
  <2>2. QED
    BY <1>1, <2>1
<1>3. PICK C : C = CoveredIn(o, L)
  OBVIOUS
<1>4. ~C[x]
  BY <1>1, <1>3, NotCovered
<1>5. ASSUME NEW m \in 0 .. L - 1, x < m, m < x + n PROVE C[m]
  <2>1. m \in 0 .. L /\ x \in 0 .. m - 1 /\ x + n > m
    BY <1>5
  <2>2. C[m] = Covers(o, C, m)
    BY <1>3, <2>1, CoveredUnrolled
  <2>3. Covers(o, C, m)
    BY <1>4, <2>1 DEF Covers
  <2>4. QED
    BY <2>2, <2>3
<1>6. ShownBefore(o, c, L, sh, x + n)
  <2>1. SUFFICES ASSUME NEW m \in 0 .. L - 1, m < x + n PROVE ShownIn(sh, c, m, MeantIn(o, L, m))
    BY DEF ShownBefore
  <2>2. CASE m < x
    BY <2>2, <1>1 DEF ShownBefore
  <2>3. CASE m = x
    <3>1. MeantIn(o, L, x) = g
      BY <1>3, <1>4 DEF MeantIn
    <3>2. Len(sh) - y \in 0 .. Len(sh) /\ (Len(sh) - y) + y = Len(sh)
      BY <1>1
    <3>3. \A k \in 1 .. Len(g) : y > 0
      BY <1>2
    <3>4. ShownIn(sh, c, x, g)
      BY <1>1, <1>2, <3>2, <3>3 DEF ShownIn
    <3>5. QED
      BY <2>3, <3>1, <3>4
  <2>4. CASE m > x
    <3>1. MeantIn(o, L, m) = <<>>
      BY <1>3, <1>5, <2>1, <2>4 DEF MeantIn
    <3>2. OfIn(sh, c, m) = {}
      BY <1>1, <2>4 DEF NoneBehind
    <3>3. PICK q : q = <<>>
      OBVIOUS
    <3>4. Len(q) = 0 /\ 0 \in 0 .. Len(sh) /\ 0 + 1 .. 0 + 0 = {} /\ \A k \in 1 .. Len(q) : FALSE
      BY <3>3
    <3>5. ShownIn(sh, c, m, q)
      BY <3>2, <3>4 DEF ShownIn
    <3>6. QED
      BY <3>1, <3>3, <3>5
  <2>5. QED
    BY <2>2, <2>3, <2>4
<1>7. x + n \in Nat /\ x + n > x
  OBVIOUS
<1>8. NoneBehind(c, sh, x + n)
  <2>1. \A m \in Nat : m > x + n => m > x
    OBVIOUS
  <2>2. QED
    BY <2>1, <1>1 DEF NoneBehind
<1>9. NoneOver(o, L, x + n)
  <2>1. SUFFICES ASSUME NEW m \in 0 .. L - 1, m < x + n, ~C[m], AtIn(o, m) # {} PROVE m + CgIn(o, m).codes <= x + n
    BY <1>3 DEF NoneOver
  <2>2. m <= x /\ m \in Nat
    BY <2>1, <1>5
  <2>3. CASE m = x
    BY <2>3, <1>7
  <2>4. CASE m # x
    <3>1. m < x
      BY <2>2, <2>4
    <3>2. PICK u : u = CgIn(o, m)
      OBVIOUS
    <3>3. u.codes \in Nat /\ m + u.codes <= x
      BY <1>1, <1>3, <2>1, <3>1, <3>2, TransformFacts DEF NoneOver
    <3>4. m + u.codes <= x + n
      BY <2>2, <3>3
    <3>5. QED
      BY <3>2, <3>4
  <2>5. QED
    BY <2>3, <2>4
<1>10. GlyphsSoFar(o, c, L, sh, x + n, 0)
  BY <1>1, <1>7, NoGlyphs DEF NoneBehind
<1>11. QED
  BY <1>6, <1>8, <1>9, <1>10 DEF CodesInv

TextLen == Len(obj.codes[code].text)

OnceInv ==
  /\ \A k \in 1 .. Len(shown) : shown[k].code <= code /\ (pc = "expand" => shown[k].code < code)
  /\ pc = "expand" => i = 0 /\ j = 0
  /\ pc = "codes" => CodesInv(obj, code, TextLen, shown, i, j)

LEMMA OnceFacts ==
  ASSUME Text!TextAssumption, TextTyped
  PROVE  /\ CgsTyped(obj) /\ code \in Nat /\ i \in Nat /\ j \in Nat
         /\ code > 0 => TextLen \in Nat
<1>1. CgsTyped(obj)
  BY CodeFacts DEF TextTyped, CgsTyped
<1>2. code \in Nat /\ i \in Nat /\ j \in Nat /\ (code > 0 => code \in 1 .. Len(obj.codes))
  BY CodeFacts DEF TextTyped
<1>3. code > 0 => TextLen \in Nat
  BY <1>2, CodeFacts DEF TextTyped, TextLen
<1>4. QED
  BY <1>1, <1>2, <1>3

LEMMA OnceInit ==
  ASSUME Text!Init
  PROVE  OnceInv
<1>1. pc = "font" /\ shown = <<>>
  BY DEF Text!Init
<1>2. QED
  BY <1>1 DEF OnceInv

LEMMA OnceNextTextCode ==
  ASSUME Text!TextAssumption, TextTyped, PlaceInv, OnceInv, Text!NextTextCode
  PROVE  OnceInv'
<1>1. code' = code + 1 /\ pc' = "expand" /\ i' = 0 /\ j' = 0 /\ shown' = shown
  BY NextTextCodeFacts
<1>2. code \in Nat
  BY OnceFacts
<1>3. ASSUME NEW k \in 1 .. Len(shown) PROVE shown[k].code < code + 1
  <2>1. shown[k] \in ShownSet
    <3>1. PICK S : S = ShownSet
      OBVIOUS
    <3>2. shown \in Seq(S)
      BY <3>1 DEF PlaceInv
    <3>3. shown[k] \in S
      BY <3>2
    <3>4. QED
      BY <3>1, <3>3
  <2>2. shown[k].code \in Nat /\ shown[k].code <= code
    BY <2>1 DEF ShownSet, OnceInv
  <2>3. QED
    BY <1>2, <2>2
<1>4. ASSUME NEW k \in 1 .. Len(shown) PROVE shown[k].code <= code + 1
  <2>1. PICK n \in Nat : n = shown[k].code
    <3>1. PICK S : S = ShownSet
      OBVIOUS
    <3>2. shown \in Seq(S)
      BY <3>1 DEF PlaceInv
    <3>3. shown[k] \in S
      BY <3>2
    <3>4. QED
      BY <3>1, <3>3 DEF ShownSet
  <2>2. QED
    BY <1>2, <1>3, <2>1
<1>5. QED
  BY <1>1, <1>3, <1>4 DEF OnceInv

LEMMA OnceExpanded ==
  ASSUME Text!TextAssumption, TextTyped, PlaceInv, OnceInv, Text!Expanded
  PROVE  OnceInv'
<1>1. pc = "expand" /\ pc' = "codes" /\ obj' = obj /\ code' = code /\ i' = i /\ j' = j /\ shown' = shown
  BY DEF Text!Expanded
<1>2. code > 0 /\ code \in Nat /\ TextLen \in Nat /\ Len(shown) \in Nat
  <2>1. Len(shown) \in Nat
    <3>1. PICK S : S = ShownSet
      OBVIOUS
    <3>2. shown \in Seq(S)
      BY <3>1 DEF PlaceInv
    <3>3. QED
      BY <3>2
  <2>2. QED
    BY <1>1, <2>1, OnceFacts DEF TextTyped
<1>3. ASSUME NEW n \in Nat PROVE OfIn(shown, code, n) = {}
  <2>1. SUFFICES ASSUME NEW k \in 1 .. Len(shown), shown[k].code = code PROVE FALSE
    BY DEF OfIn
  <2>2. shown[k].code < code
    BY <1>1 DEF OnceInv
  <2>3. QED
    BY <1>2, <2>1, <2>2
<1>4. CodesInv(obj, code, TextLen, shown, 0, 0)
  BY <1>2, <1>3, OnceStart
<1>5. i = 0 /\ j = 0 /\ TextLen' = TextLen
  BY <1>1 DEF OnceInv, TextLen
<1>6. QED
  BY <1>1, <1>4, <1>5 DEF OnceInv

LEMMA OnceOthers ==
  ASSUME OnceInv,
         \/ Text!SetFont \/ Text!Expand \/ Text!AppendCharDies \/ Text!EndOfTextCode
         \/ UNCHANGED Text!vars
  PROVE  OnceInv'
<1>1. /\ obj' = obj /\ code' = code /\ i' = i /\ j' = j /\ shown' = shown
      /\ pc' \in {pc, "next", "dead"}
  BY DEF Text!SetFont, Text!Expand, Text!AppendCharDies, Text!EndOfTextCode, Text!vars
<1>2. TextLen' = TextLen
  BY <1>1 DEF TextLen
<1>3. QED
  BY <1>1, <1>2 DEF OnceInv

(* What is appended is the TextCode's own.                                 *)
LEMMA OnceAppended ==
  ASSUME shown \in Seq(ShownSet), OnceInv, code \in Nat, NEW s \in ShownSet, s.code = code, shown' = Append(shown, s)
  PROVE  /\ Added(shown, s, shown')
         /\ \A k \in 1 .. Len(shown') : shown'[k].code <= code
<1>1. /\ Len(shown) \in Nat /\ Len(shown') = Len(shown) + 1
      /\ shown'[Len(shown) + 1] = s /\ \A k \in 1 .. Len(shown) : shown'[k] = shown[k]
  BY ShownAppended
<1>2. Added(shown, s, shown')
  BY <1>1 DEF Added
<1>3. ASSUME NEW k \in 1 .. Len(shown') PROVE shown'[k].code <= code
  <2>1. k \in 1 .. Len(shown) \/ k = Len(shown) + 1
    BY <1>1
  <2>2. CASE k \in 1 .. Len(shown)
    BY <2>2, <1>1 DEF OnceInv
  <2>3. CASE k = Len(shown) + 1
    BY <2>3, <1>1
  <2>4. QED
    BY <2>1, <2>2, <2>3
<1>4. QED
  BY <1>2, <1>3

LEMMA OnceAppendChar ==
  ASSUME Text!TextAssumption, TextTyped, PlaceInv, OnceInv, Text!AppendChar
  PROVE  OnceInv'
<1>0. shown \in Seq(ShownSet)
  BY DEF PlaceInv
<1>1. /\ pc = "codes" /\ i < Len(Text!Text) /\ Text!At(i) = {}
      /\ i' = i + 1 /\ obj' = obj /\ code' = code /\ pc' = pc /\ j' = j
  BY <1>0, AppendCharFacts
<1>2. PICK s \in ShownSet : s.code = code /\ s.char = i /\ s.glyph = "none" /\ shown' = Append(shown, s)
  BY <1>0, AppendCharFacts
<1>3. code > 0 /\ CgsTyped(obj) /\ code \in Nat /\ i \in Nat /\ j \in Nat /\ TextLen \in Nat
  BY <1>1, OnceFacts DEF TextTyped
<1>4. i < TextLen /\ AtIn(obj, i) = {} /\ TextLen' = TextLen
  BY <1>1, AtIs DEF TextLen, Text!Text, Text!TheCode
<1>5. CodesInv(obj, code, TextLen, shown, i, j)
  BY <1>1 DEF OnceInv
<1>6. Added(shown, s, shown') /\ \A k \in 1 .. Len(shown') : shown'[k].code <= code
  BY <1>0, <1>2, <1>3, OnceAppended
<1>7. PICK t : t = shown'
  OBVIOUS
<1>8. PICK L \in Nat : L = TextLen
  BY <1>3
<1>9. CodesInv(obj, code, L, t, i + 1, j)
  <2>1. Added(shown, s, t) /\ CodesInv(obj, code, L, shown, i, j) /\ i < L
    BY <1>4, <1>5, <1>6, <1>7, <1>8
  <2>2. QED
    BY <1>2, <1>3, <1>4, <2>1, OnceChar
<1>10. QED
  BY <1>1, <1>4, <1>6, <1>7, <1>8, <1>9 DEF OnceInv

LEMMA OnceAppendGlyph ==
  ASSUME Text!TextAssumption, TextTyped, PlaceInv, OnceInv, Text!AppendGlyph
  PROVE  OnceInv'
<1>0. shown \in Seq(ShownSet) /\ Len(shown) \in Nat
  <2>1. PICK S : S = ShownSet
    OBVIOUS
  <2>2. shown \in Seq(S)
    BY <2>1 DEF PlaceInv
  <2>3. Len(shown) \in Nat
    BY <2>2
  <2>4. QED
    BY <2>1, <2>2, <2>3
<1>1. /\ pc = "codes" /\ i < Len(Text!Text) /\ obj' = obj /\ code' = code /\ pc' = pc
  BY <1>0, AppendGlyphFacts
<1>2. PICK k \in 1 .. Len(obj.cgs) :
        /\ k \in Text!At(i) /\ Text!Cg(i) = obj.cgs[k]
        /\ \/ /\ j < Len(obj.cgs[k].glyphs) /\ j' = j + 1 /\ i' = i
              /\ \E s \in ShownSet :
                   /\ s.code = code /\ s.char = i /\ s.glyph = obj.cgs[k].glyphs[j + 1]
                   /\ shown' = Append(shown, s)
           \/ /\ ~(j < Len(obj.cgs[k].glyphs)) /\ i' = i + obj.cgs[k].codes /\ j' = 0
              /\ shown' = shown
  BY <1>0, AppendGlyphFacts
<1>3. code > 0 /\ CgsTyped(obj) /\ code \in Nat /\ i \in Nat /\ j \in Nat
  BY <1>1, OnceFacts DEF TextTyped
<1>4. PICK L \in Nat : L = TextLen
  BY <1>3, OnceFacts
<1>5. i < L /\ AtIn(obj, i) # {} /\ TextLen' = L /\ CodesInv(obj, code, L, shown, i, j)
  BY <1>1, <1>2, <1>4, AtIs DEF TextLen, Text!Text, Text!TheCode, OnceInv
<1>6. PICK g \in Seq(Nat) : g = obj.cgs[k].glyphs
  BY <1>2, <1>3 DEF CgsTyped
<1>7. PICK n \in Nat \ {0} : n = obj.cgs[k].codes
  BY <1>2, <1>3 DEF CgsTyped
<1>8. CgIn(obj, i) = obj.cgs[k]
  BY <1>2, AtIs
<1>9. CASE j < Len(g)
  <2>1. PICK s \in ShownSet : s.code = code /\ s.char = i /\ s.glyph = g[j + 1] /\ shown' = Append(shown, s)
    BY <1>2, <1>6, <1>9
  <2>2. j' = j + 1 /\ i' = i
    BY <1>2, <1>6, <1>9
  <2>3. Added(shown, s, shown') /\ \A m \in 1 .. Len(shown') : shown'[m].code <= code
    BY <1>0, <1>3, <2>1, OnceAppended
  <2>4. PICK t : t = shown'
    OBVIOUS
  <2>5. g = CgIn(obj, i).glyphs
    BY <1>6, <1>8
  <2>6. CodesInv(obj, code, L, t, i, j + 1)
    <3>1. Added(shown, s, t) /\ s.code = code /\ s.char = i /\ s.glyph = g[j + 1]
      BY <2>1, <2>3, <2>4
    <3>2. QED
      BY <1>3, <1>5, <1>9, <2>5, <3>1, OnceGlyph
  <2>7. QED
    BY <1>1, <1>5, <2>2, <2>3, <2>4, <2>6 DEF OnceInv
<1>10. CASE ~(j < Len(g))
  <2>1. i' = i + n /\ j' = 0 /\ shown' = shown
    BY <1>2, <1>6, <1>7, <1>10
  <2>2. g = CgIn(obj, i).glyphs /\ n = CgIn(obj, i).codes
    BY <1>6, <1>7, <1>8
  <2>3. CodesInv(obj, code, L, shown, i + n, 0)
    BY <1>0, <1>3, <1>5, <1>10, <2>2, OnceSkip
  <2>4. QED
    BY <1>1, <1>5, <2>1, <2>3 DEF OnceInv
<1>11. QED
  BY <1>9, <1>10

LEMMA OnceGives ==
  ASSUME Text!TextAssumption, TextTyped, OnceInv
  PROVE  Text!EachCharacterOnce
<1>1. Text!EachCharacterOnce <=>
        ((pc = "codes" /\ i >= Len(Text!Text)) =>
          \A n \in 0 .. Len(Text!Text) - 1 : ShownIn(shown, code, n, MeantIn(obj, Len(Text!Text), n)))
  BY DEF Text!EachCharacterOnce, ShownIn, OfIn, Text!ShownAs, Text!Of, MeantIn, CoveredIn, Covers, Text!None,
         Text!At, AtIn, Text!Cg, CgIn
<1>2. Len(Text!Text) = TextLen
  BY DEF TextLen, Text!Text, Text!TheCode
<1>3. ASSUME pc = "codes", i >= TextLen, NEW n \in 0 .. TextLen - 1
      PROVE  ShownIn(shown, code, n, MeantIn(obj, TextLen, n))
  <2>1. TextLen \in Nat /\ i \in Nat
    BY <1>3, OnceFacts DEF TextTyped
  <2>2. n < i
    BY <1>3, <2>1
  <2>3. QED
    BY <1>3, <2>2 DEF OnceInv, CodesInv, ShownBefore
<1>4. QED
  BY <1>1, <1>2, <1>3

-----------------------------------------------------------------------------
CharactersInv == TornInv /\ DeltaInv /\ PlaceInv /\ OnceInv
CharactersFrame == kind = "text" => CharactersInv

LEMMA CharactersInit ==
  ASSUME Init
  PROVE  CharactersFrame
  BY TornInit, DeltaInit, PlaceInit, OnceInit, ParsersAssumption DEF CharactersFrame, CharactersInv, Init

LEMMA CharactersStep ==
  ASSUME Text!TextAssumption, CharactersInv, Text!Step \/ UNCHANGED Text!vars
  PROVE  CharactersInv'
<1>1. TornInv /\ DeltaInv /\ PlaceInv /\ OnceInv /\ TextTyped
  BY DEF CharactersInv, TornInv
<1>2. TornInv'
  BY <1>1, TornNextTextCode, TornExpand, TornOthers DEF Text!Step
<1>3. DeltaInv'
  BY <1>1, DeltaNextTextCode, DeltaExpand, DeltaOthers DEF Text!Step
<1>4. PlaceInv'
  BY <1>1, PlaceNextTextCode, PlaceAppendChar, PlaceAppendGlyph, PlaceOthers DEF Text!Step
<1>5. OnceInv'
  BY <1>1, OnceNextTextCode, OnceExpanded, OnceAppendChar, OnceAppendGlyph, OnceOthers DEF Text!Step
<1>6. QED
  BY <1>2, <1>3, <1>4, <1>5 DEF CharactersInv

LEMMA CharactersNext ==
  ASSUME CharactersFrame, [Next]_vars
  PROVE  CharactersFrame'
<1>1. kind' = kind
  BY DEF Next, Step, ParseLayer, ParseText, ParseClips, ParsePath, NextLayer, vars
<1>2. ASSUME kind = "text" PROVE CharactersInv'
  <2>1. CharactersInv /\ Text!TextAssumption
    BY <1>2, ParsersAssumption DEF CharactersFrame
  <2>2. Text!Step \/ UNCHANGED Text!vars
    BY <1>2 DEF Next, Step, ParseLayer, ParseText, ParseClips, ParsePath, NextLayer, vars,
       Text!vars, TextOnly
  <2>3. QED
    BY <2>1, <2>2, CharactersStep
<1>3. QED
  BY <1>1, <1>2 DEF CharactersFrame

(* A text has the characters its TextCodes give it: regular lists of       *)
(* deltas of any length are rewritten into what they say, without          *)
(* CGTransforms every character is where its TextCode puts it, and with    *)
(* any CGTransforms, overlapping ones included, each character is shown    *)
(* once, as itself or with the glyphs of its transform in order, or is     *)
(* covered by the transform before it (expand_g, calcCodePosAtIndex,       *)
(* appendChar, appendGlyph).                                               *)
THEOREM TextIsAsMeant == Spec => []TextAsMeant
<1>1. Init => CharactersFrame
  BY CharactersInit
<1>2. CharactersFrame /\ [Next]_vars => CharactersFrame'
  BY CharactersNext
<1>3. CharactersFrame => TextAsMeant
  <2>1. SUFFICES ASSUME CharactersFrame, kind = "text"
                 PROVE  Text!ExpandedAsMeant /\ Text!PlacedAsMeant /\ Text!EachCharacterOnce
    BY DEF TextAsMeant
  <2>2. TextTyped /\ DeltaInv /\ PlaceInv /\ OnceInv /\ Text!TextAssumption
    BY <2>1, ParsersAssumption DEF CharactersFrame, CharactersInv, TornInv
  <2>3. QED
    BY <2>2, DeltaGives, PlaceGives, OnceGives
<1>4. QED
  BY <1>1, <1>2, <1>3, PTL DEF Spec

-----------------------------------------------------------------------------
(* The stream of an image (MemStream): its handle is a block of bytes, with *)
(* the file at its start.                                                  *)
HandleOK ==
  /\ h \in [data : {h.data}, datalen : Nat, filelen : Nat, curpos : Nat]
  /\ h.data = [a \in DOMAIN h.data |-> h.data[a]]
  /\ \A a \in DOMAIN h.data : h.data[a] \in Byte

(* What the caller knows at each of its stages.                            *)
CallerInv ==
  /\ ~Idle => caller = "save"
  /\ lost => failed \/ beyond
  /\ caller \notin {"done", "undefined"} => image \in Images
  /\ caller \in {"type", "load"} => Memory(0, h.filelen) = image

MemInv == StreamTypeOK /\ HandleOK /\ InBlock /\ CallerInv /\ ImageWhole

-----------------------------------------------------------------------------
LEMMA ImagesAreBytes ==
  /\ \A s \in Images \cup Buffers : s \in Seq(Byte) /\ s # <<>> /\ Len(s) \in Nat \ {0}
  /\ <<>> \in Seq(Byte) /\ Junk \in Byte
<1>1. \A s \in Images \cup Buffers : s \in Seq(Byte) /\ s # <<>>
  BY MemAssumption
<1>2. \A s \in Seq(Byte) : Len(s) \in Nat /\ (s # <<>> => Len(s) # 0)
  OBVIOUS
<1>3. QED
  BY <1>1, <1>2 DEF Byte

(* The block that fiio_mem_open makes of a buffer holds that buffer.       *)
LEMMA HandleFacts ==
  ASSUME NEW s \in Seq(Byte), h = Handle(s)
  PROVE  HandleOK /\ InBlock /\ Memory(0, h.filelen) = s /\ h.curpos = 0
<1>1. /\ h.data = [a \in 0 .. Len(s) - 1 |-> s[a + 1]] /\ h.datalen = Len(s)
      /\ h.filelen = Len(s) /\ h.curpos = 0
  BY DEF Handle
<1>2. Len(s) \in Nat /\ \A k \in 1 .. Len(s) : s[k] \in Byte
  OBVIOUS
<1>3. \A a \in 0 .. Len(s) - 1 : a + 1 \in 1 .. Len(s)
  BY <1>2
<1>4. HandleOK
  BY <1>1, <1>2, <1>3 DEF HandleOK, Handle
<1>5. InBlock
  BY <1>1, <1>2 DEF InBlock
<1>6. Memory(0, h.filelen) = s
  <2>1. \A k \in 1 .. Len(s) : h.data[0 + k - 1] = s[k]
    BY <1>1, <1>2
  <2>2. Memory(0, h.filelen) = [k \in 1 .. Len(s) |-> s[k]]
    BY <1>1, <2>1 DEF Memory
  <2>3. QED
    BY <2>2
<1>7. QED
  BY <1>1, <1>4, <1>5, <1>6

(* What lies in the block is bytes.                                        *)
LEMMA MemoryIsBytes ==
  ASSUME HandleOK, InBlock, NEW from \in Nat, NEW n \in Nat, from + n <= h.datalen
  PROVE  /\ Memory(from, n) \in Seq(Byte) /\ Len(Memory(from, n)) = n
         /\ \A k \in 1 .. n : Memory(from, n)[k] = h.data[from + k - 1]
<1>1. \A k \in 1 .. n : from + k - 1 \in 0 .. h.datalen - 1
  BY DEF HandleOK
<1>2. \A k \in 1 .. n : h.data[from + k - 1] \in Byte
  BY <1>1 DEF HandleOK, InBlock
<1>3. QED
  BY <1>2 DEF Memory

(* ReadProc hands out whole blocks that are in the file.                   *)
LEMMA WholeBlocks ==
  ASSUME NEW len \in Nat, NEW size \in Nat \ {0}, NEW x \in Nat, x <= len \div size
  PROVE  x * size \in Nat /\ x * size <= len
<1>1. len \div size \in Nat /\ (len \div size) * size <= len
  BY Z3
<1>2. x * size <= (len \div size) * size
  BY <1>1, Z3
<1>3. QED
  BY <1>1, <1>2, Z3

(* The read of a request: a number of whole blocks, all within the file.   *)
Left(q) == (h.filelen - h.curpos) \div q.size
Blocks(q) == IF h.filelen < h.curpos THEN 0
             ELSE IF Left(q) < q.count THEN Left(q) ELSE q.count

LEMMA BlocksInFile ==
  ASSUME HandleOK, NEW q \in Requests
  PROVE  /\ Blocks(q) \in Nat /\ Blocks(q) * q.size \in Nat
         /\ q.size \in Nat \ {0} /\ q.count \in Nat
         /\ h.filelen < h.curpos => Blocks(q) * q.size = 0
         /\ h.filelen >= h.curpos =>
              h.curpos + Blocks(q) * q.size <= h.filelen /\ Left(q) \in Nat
<1>1. h.filelen \in Nat /\ h.curpos \in Nat /\ q.size \in Nat \ {0} /\ q.count \in Nat
  BY MemAssumption DEF HandleOK
<1>2. CASE h.filelen < h.curpos
  <2>1. Blocks(q) = 0
    BY <1>2 DEF Blocks
  <2>2. 0 * q.size = 0
    BY <1>1
  <2>3. QED
    BY <1>1, <1>2, <2>1, <2>2
<1>3. CASE h.filelen >= h.curpos
  <2> DEFINE len == h.filelen - h.curpos
  <2>1. len \in Nat
    BY <1>1, <1>3
  <2>2. len \div q.size \in Nat
    <3>1. PICK l \in Nat : l = len
      BY <2>1
    <3>2. PICK z \in Nat \ {0} : z = q.size
      BY <1>1
    <3>3. l \div z \in Nat
      BY Z3
    <3>4. QED
      BY <3>1, <3>2, <3>3
  <2>3. Blocks(q) \in Nat /\ Blocks(q) <= len \div q.size /\ Left(q) \in Nat
    BY <1>1, <1>3, <2>2 DEF Blocks, Left
  <2>4. Blocks(q) * q.size \in Nat /\ Blocks(q) * q.size <= len
    <3> HIDE DEF len
    <3>1. QED
      BY <1>1, <2>1, <2>3, WholeBlocks
  <2>5. h.curpos + Blocks(q) * q.size <= h.filelen
    BY <1>1, <2>4
  <2>6. QED
    BY <1>1, <1>3, <2>3, <2>4, <2>5
<1>4. QED
  BY <1>1, <1>2, <1>3

(* A read in terms of them.                                                *)
LEMMA ReadFacts ==
  ASSUME MemInv, NEW q \in Requests, ReadProc(q)
  PROVE  /\ Idle /\ caller \notin {"done", "undefined"} /\ served' = served + 1 /\ served < MaxCalls
         /\ got' = Memory(h.curpos, Blocks(q) * q.size)
         /\ h'.data = h.data /\ h'.datalen = h.datalen /\ h'.filelen = h.filelen
         /\ h'.curpos = IF Blocks(q) < q.count THEN h.filelen
                        ELSE h.curpos + Blocks(q) * q.size
         /\ h'.curpos \in Nat /\ got' \in Seq(Byte)
         /\ h' \in [data : {h'.data}, datalen : Nat, filelen : Nat, curpos : Nat]
<1>1. /\ Idle /\ caller \notin {"done", "undefined"} /\ served' = served + 1 /\ served < MaxCalls
      /\ got' = Memory(h.curpos, Blocks(q) * q.size)
      /\ h' = [h EXCEPT !.curpos = IF Blocks(q) < q.count THEN h.filelen
                                   ELSE @ + Blocks(q) * q.size]
  BY DEF ReadProc, Call, Blocks, Left
<1>2. HandleOK /\ InBlock
  BY DEF MemInv
<1>3. /\ Blocks(q) * q.size \in Nat
      /\ h.filelen < h.curpos => Blocks(q) * q.size = 0
      /\ h.filelen >= h.curpos => h.curpos + Blocks(q) * q.size <= h.filelen
  BY <1>2, BlocksInFile
<1>4. h.filelen \in Nat /\ h.curpos \in Nat /\ h.datalen \in Nat /\ h.filelen <= h.datalen
  BY <1>2 DEF HandleOK, InBlock
<1>5. got' \in Seq(Byte)
  <2>1. CASE h.filelen < h.curpos
    BY <1>1, <1>3, <2>1 DEF Memory
  <2>2. CASE h.filelen >= h.curpos
    BY <1>1, <1>2, <1>3, <1>4, <2>2, MemoryIsBytes
  <2>3. QED
    BY <1>4, <2>1, <2>2
<1>6. h.curpos + Blocks(q) * q.size \in Nat
  BY <1>3, <1>4
<1>7. QED
  BY <1>1, <1>2, <1>4, <1>5, <1>6 DEF HandleOK

LEMMA ReadInRange ==
  ASSUME MemInv, NEW q \in Requests, ReadProc(q)
  PROVE  h'.curpos \in 0 .. MaxLen
<1>1. /\ h'.curpos = IF Blocks(q) < q.count THEN h.filelen
                     ELSE h.curpos + Blocks(q) * q.size
      /\ h'.curpos \in Nat
  BY ReadFacts
<1>2. /\ Blocks(q) * q.size \in Nat
      /\ h.filelen < h.curpos => Blocks(q) * q.size = 0
      /\ h.filelen >= h.curpos => h.curpos + Blocks(q) * q.size <= h.filelen
  BY BlocksInFile DEF MemInv
<1>3. h.curpos \in 0 .. MaxLen /\ h.filelen \in 0 .. MaxLen /\ MaxLen \in Nat
  BY MemAssumption DEF MemInv, StreamTypeOK
<1>4. QED
  BY <1>1, <1>2, <1>3

(* A number that fits is itself, as a long and as a product.               *)
LEMMA Fits ==
  ASSUME NEW n \in Nat
  PROVE  /\ n % Word \in Nat /\ n % Word <= n
         /\ n <= MaxLen => n % Word = n /\ Long(n) = n
<1>1. PICK w \in Nat : w = MaxLen + 1 /\ w > 0 /\ Word = 2 * w
  BY MemAssumption DEF Word
<1>2. PICK m \in Nat : m = Word /\ m > 0
  BY <1>1
<1>3. n % m \in Nat /\ n % m <= n
  BY <1>2, Z3
<1>4. \A x \in Nat : x < m => x % m = x
  BY <1>2, Z3
<1>5. ASSUME n <= MaxLen PROVE n % Word = n /\ Long(n) = n
  <2>1. n < m /\ n + w \in Nat /\ n + w < m /\ n + MaxLen + 1 = n + w
    BY <1>1, <1>2, <1>5, MemAssumption
  <2>2. n % m = n /\ (n + w) % m = n + w
    BY <2>1, <1>4
  <2>3. Long(n) = ((n + w) % m) - w
    BY <1>1, <1>2, <2>1 DEF Long
  <2>4. QED
    BY <1>1, <1>2, <2>2, <2>3
<1>6. QED
  BY <1>2, <1>3, <1>5

(* A long is between its limits.                                           *)
LEMMA LongRange ==
  ASSUME NEW n \in Int
  PROVE  Long(n) \in Int /\ Long(n) <= MaxLen
<1>1. PICK w \in Nat : w = MaxLen + 1 /\ w > 0 /\ Word = 2 * w /\ MaxLen = w - 1
  BY MemAssumption DEF Word
<1>2. PICK m \in Nat : m = Word /\ m > 0 /\ m = 2 * w
  BY <1>1
<1>3. PICK x \in Int : x = n + MaxLen + 1
  BY <1>1
<1>4. x % m \in Int /\ x % m < m
  BY <1>2, Z3
<1>5. Long(n) = (x % m) - w
  BY <1>1, <1>2, <1>3 DEF Long
<1>6. QED
  BY <1>1, <1>2, <1>4, <1>5

(* A seek that would go beyond the limits of a long is refused.            *)
LEMMA SeekFacts ==
  ASSUME HandleOK, NEW offset \in Offsets, NEW origin \in {"set", "cur", "end"},
         SeekProc(offset, origin)
  PROVE  \E to \in Int : to <= MaxLen /\ h' = IF to >= 0 THEN [h EXCEPT !.curpos = to] ELSE h
<1> DEFINE x == CASE origin = "cur" -> h.curpos [] origin = "end" -> h.filelen [] OTHER -> 0
<1>1. x \in Int /\ offset \in Int
  BY MemAssumption DEF HandleOK, Offsets
<1>2. h' = IF Long(x + offset) >= 0 THEN [h EXCEPT !.curpos = Long(x + offset)] ELSE h
  BY DEF SeekProc
<1> HIDE DEF x
<1>3. PICK n \in Int : n = x + offset
  BY <1>1
<1>4. Long(n) \in Int /\ Long(n) <= MaxLen
  BY <1>3, LongRange
<1>5. QED
  BY <1>2, <1>3, <1>4

(* The loop of WriteProc doubles the block or takes it to its limit.       *)
LEMMA NewLenGrows ==
  ASSUME h.datalen \in Nat, h.datalen <= MaxLen
  PROVE  NewLen \in Nat /\ h.datalen <= NewLen /\ NewLen <= MaxLen
  BY MemAssumption DEF NewLen

(* Where the write under way ends.                                         *)
End == h.curpos + Product

(* The loop is left with room for the write, unless that ends beyond what  *)
(* a long can say.                                                         *)
LEMMA RoomIsThere ==
  ASSUME MemInv, WriteBytes
  PROVE  /\ ~Idle /\ buffer' = <<>> /\ buffer \in Seq(Byte) /\ Len(buffer) \in Nat \ {0}
         /\ Product \in Nat /\ Product <= Len(buffer) /\ End \in Nat
         /\ h.curpos + Len(buffer) <= MaxLen => Product = Len(buffer) /\ End <= h.datalen
<1>1. ~Idle /\ ~TooSmall /\ buffer' = <<>> /\ buffer \in Buffers
  BY DEF WriteBytes, MemInv, StreamTypeOK, Idle
<1>2. buffer \in Seq(Byte) /\ Len(buffer) \in Nat \ {0}
  BY <1>1, ImagesAreBytes
<1>3. h.curpos \in Nat /\ h.datalen \in Nat /\ MaxLen \in Nat
  BY MemAssumption DEF MemInv, HandleOK
<1>4. Product \in Nat /\ Product <= Len(buffer) /\ (Len(buffer) <= MaxLen => Product = Len(buffer))
  BY <1>2, Fits DEF Product
<1>5. ASSUME h.curpos + Len(buffer) <= MaxLen PROVE Product = Len(buffer) /\ End <= h.datalen
  <2>1. Product = Len(buffer)
    BY <1>2, <1>3, <1>4, <1>5
  <2>2. PICK n \in Nat : n = h.curpos + Product /\ n <= MaxLen
    BY <1>2, <1>3, <1>5, <2>1
  <2>3. Long(h.curpos + Product) = n
    BY <2>2, Fits
  <2>4. QED
    BY <1>1, <1>3, <2>1, <2>2, <2>3 DEF TooSmall, End
<1>6. QED
  BY <1>1, <1>2, <1>3, <1>4, <1>5 DEF End

(* memcpy at the position, and nothing else changes.                       *)
LEMMA WriteFacts ==
  ASSUME MemInv, WriteBytes, End <= h.datalen
  PROVE  /\ ~Idle /\ buffer' = <<>> /\ buffer \in Seq(Byte) /\ Len(buffer) \in Nat \ {0}
         /\ Product \in Nat /\ Product <= Len(buffer) /\ End \in Nat /\ caller' = caller
         /\ h'.datalen = h.datalen /\ h'.curpos = End
         /\ h'.filelen = IF End > h.filelen
                         THEN End ELSE h.filelen
         /\ DOMAIN h'.data = DOMAIN h.data
         /\ \A a \in DOMAIN h.data : h'.data[a] =
              IF a \in h.curpos .. End - 1
              THEN buffer[a - h.curpos + 1] ELSE h.data[a]
         /\ HandleOK' /\ InBlock'
<1> DEFINE new == [a \in DOMAIN h.data |->
                     IF a \in h.curpos .. End - 1 THEN buffer[a - h.curpos + 1] ELSE h.data[a]]
<1>1. /\ ~Idle /\ buffer' = <<>> /\ caller' = caller
      /\ h' = [h EXCEPT !.data = new, !.curpos = End,
                        !.filelen = IF End > @ THEN End ELSE @]
  BY DEF WriteBytes, Written, End
<1>2. HandleOK /\ InBlock
  BY <1>1 DEF MemInv
<1>3. /\ buffer \in Seq(Byte) /\ Len(buffer) \in Nat \ {0}
      /\ Product \in Nat /\ Product <= Len(buffer) /\ End \in Nat
  BY RoomIsThere
<1>4. h.curpos \in Nat /\ h.datalen \in Nat /\ h.filelen \in Nat
  BY <1>2 DEF HandleOK
<1>7. /\ h'.data = new /\ h'.curpos = End /\ h'.datalen = h.datalen
      /\ h'.filelen = IF End > h.filelen THEN End ELSE h.filelen
      /\ h' \in [data : {new}, datalen : Nat, filelen : Nat, curpos : Nat]
  <2> HIDE DEF new
  <2>1. QED
    BY <1>1, <1>2, <1>3, <1>4 DEF HandleOK
<1>8. ASSUME NEW a \in DOMAIN h.data PROVE new[a] \in Byte
  <2>1. CASE a \in h.curpos .. End - 1
    <3>1. a - h.curpos + 1 \in 1 .. Len(buffer)
      BY <1>3, <1>4, <2>1 DEF End
    <3>2. QED
      BY <1>3, <2>1, <3>1
  <2>2. CASE a \notin h.curpos .. End - 1
    BY <1>2, <2>2 DEF HandleOK
  <2>3. QED
    BY <2>1, <2>2
<1>9. HandleOK'
  <2>1. h'.data = [a \in DOMAIN h'.data |-> h'.data[a]] /\ DOMAIN h'.data = DOMAIN h.data
    BY <1>7
  <2>2. \A a \in DOMAIN h'.data : h'.data[a] \in Byte
    <3> HIDE DEF new
    <3>1. QED
      BY <2>1, <1>7, <1>8
  <2>3. QED
    <3> HIDE DEF new
    <3>1. QED
      BY <2>1, <2>2, <1>7 DEF HandleOK
<1>10. InBlock'
  BY <1>2, <1>3, <1>4, <1>7 DEF InBlock
<1>11. QED
  BY <1>1, <1>3, <1>4, <1>7, <1>9, <1>10

-----------------------------------------------------------------------------
LEMMA InitMemInv == StreamInit => MemInv
<1> SUFFICES ASSUME StreamInit PROVE MemInv
  OBVIOUS
<1>1. image \in Images /\ h = Handle(image) /\ image \in Seq(Byte)
  BY ImagesAreBytes DEF StreamInit
<1>2. HandleOK /\ InBlock /\ Memory(0, h.filelen) = image
  BY <1>1, HandleFacts
<1>3. StreamTypeOK
  <2>1. h.curpos \in 0 .. MaxLen /\ h.filelen \in 0 .. MaxLen /\ h.datalen \in 0 .. MaxLen
    <3>1. h.curpos = 0 /\ h.filelen = Len(image) /\ h.datalen = Len(image)
      BY <1>1 DEF Handle
    <3>2. Len(image) \in Nat /\ Len(image) <= MaxLen /\ MaxLen \in Nat
      BY <1>1, MemAssumption
    <3>3. QED
      BY <3>1, <3>2
  <2>2. served \in 0 .. MaxCalls /\ got \in Seq(Byte)
    BY MemAssumption DEF StreamInit
  <2>3. QED
    BY <1>1, <2>1, <2>2 DEF StreamInit, StreamTypeOK
<1>4. CallerInv /\ ImageWhole
  BY <1>1, <1>2 DEF StreamInit, CallerInv, ImageWhole, Idle
<1>5. QED
  BY <1>2, <1>3, <1>4 DEF MemInv

(* A step that changes the handle only in its position keeps the block.    *)
LEMMA SameBlock ==
  ASSUME HandleOK, InBlock, h'.data = h.data, h'.datalen = h.datalen,
         h'.filelen = h.filelen, h'.curpos \in Nat,
         h' \in [data : {h'.data}, datalen : Nat, filelen : Nat, curpos : Nat]
  PROVE  /\ HandleOK' /\ InBlock'
         /\ Memory(0, h.filelen)' = Memory(0, h.filelen)
  BY DEF HandleOK, InBlock, Memory

LEMMA NextMemInv == MemInv /\ [StreamNext]_streamVars => MemInv'
<1> SUFFICES ASSUME MemInv, [StreamNext]_streamVars PROVE MemInv'
  OBVIOUS
<1>0. StreamTypeOK /\ HandleOK /\ InBlock /\ CallerInv /\ ImageWhole
  BY DEF MemInv
<1>1. ASSUME NEW q \in Requests, ReadProc(q) PROVE MemInv'
  <2>1. UNCHANGED <<image, caller, buffer, failed, lost, beyond>>
    BY <1>1 DEF ReadProc
  <2>2. /\ Idle /\ caller \notin {"done", "undefined"} /\ served' = served + 1 /\ served < MaxCalls
        /\ h'.data = h.data /\ h'.datalen = h.datalen /\ h'.filelen = h.filelen
        /\ h'.curpos \in Nat /\ got' \in Seq(Byte)
        /\ h' \in [data : {h'.data}, datalen : Nat, filelen : Nat, curpos : Nat]
    BY <1>1, ReadFacts
  <2>3. HandleOK' /\ InBlock' /\ Memory(0, h.filelen)' = Memory(0, h.filelen)
    BY <2>2, <1>0, SameBlock
  <2>4. StreamTypeOK'
    <3>1. h'.curpos \in 0 .. MaxLen
      BY <1>1, <1>0, ReadInRange
    <3>2. QED
      BY <2>1, <2>2, <3>1, <1>0, MemAssumption DEF StreamTypeOK
  <2>5. CallerInv' /\ ImageWhole'
    BY <2>1, <2>2, <2>3, <1>0 DEF CallerInv, ImageWhole, Idle
  <2>6. QED
    BY <2>3, <2>4, <2>5 DEF MemInv
<1>2. ASSUME NEW offset \in Offsets, NEW origin \in {"set", "cur", "end"},
             SeekProc(offset, origin)
      PROVE  MemInv'
  <2>1. /\ UNCHANGED <<image, caller, buffer, failed, lost, beyond>> /\ got' = <<>>
        /\ Idle /\ caller \notin {"done", "undefined"} /\ served' = served + 1 /\ served < MaxCalls
    BY <1>2 DEF SeekProc, Call
  <2>2. PICK to \in Int : to <= MaxLen /\ h' = IF to >= 0 THEN [h EXCEPT !.curpos = to] ELSE h
    BY <1>2, <1>0, SeekFacts
  <2>3. /\ h'.data = h.data /\ h'.datalen = h.datalen /\ h'.filelen = h.filelen
        /\ h'.curpos \in Nat
        /\ h' \in [data : {h'.data}, datalen : Nat, filelen : Nat, curpos : Nat]
    BY <2>2, <1>0 DEF HandleOK
  <2>4. HandleOK' /\ InBlock' /\ Memory(0, h.filelen)' = Memory(0, h.filelen)
    BY <2>3, <1>0, SameBlock
  <2>5. StreamTypeOK'
    <3>1. served' \in 0 .. MaxCalls /\ got' \in Seq(Byte)
      BY <2>1, <1>0, MemAssumption DEF StreamTypeOK
    <3>2. h'.curpos \in 0 .. MaxLen
      BY <2>2, <1>0, MemAssumption DEF StreamTypeOK, HandleOK
    <3>3. QED
      BY <2>1, <2>3, <3>1, <3>2, <1>0 DEF StreamTypeOK
  <2>6. CallerInv' /\ ImageWhole'
    BY <2>1, <2>3, <2>4, <1>0 DEF CallerInv, ImageWhole, Idle
  <2>7. QED
    BY <2>4, <2>5, <2>6 DEF MemInv
<1>3. ASSUME NEW b \in Buffers, WriteProc(b) PROVE MemInv'
  <2>1. /\ UNCHANGED <<image, caller, h, failed, lost, beyond>> /\ got' = <<>> /\ buffer' = b
        /\ caller = "save" /\ served' = served + 1 /\ served < MaxCalls
    BY <1>3 DEF WriteProc, Call
  <2>2. StreamTypeOK'
    BY <2>1, <1>0, MemAssumption, ImagesAreBytes DEF StreamTypeOK
  <2>3. HandleOK' /\ InBlock' /\ Memory(0, h.filelen)' = Memory(0, h.filelen)
    BY <2>1, <1>0 DEF HandleOK, InBlock, Memory
  <2>4. CallerInv' /\ ImageWhole'
    BY <2>1, <2>3, <1>0 DEF CallerInv, ImageWhole, Idle
  <2>5. QED
    BY <2>2, <2>3, <2>4 DEF MemInv
<1>4. CASE Grow
  <2> DEFINE new == [a \in 0 .. NewLen - 1 |-> IF a < h.datalen THEN h.data[a] ELSE Junk]
  <2>1. /\ UNCHANGED <<image, caller, got, buffer, failed, lost, beyond, served>> /\ ~Idle
        /\ h' = [h EXCEPT !.datalen = NewLen, !.data = new]
    BY <1>4 DEF Grow
  <2>2. caller = "save" /\ h.datalen \in Nat /\ h.datalen <= MaxLen
    BY <2>1, <1>0 DEF CallerInv, StreamTypeOK
  <2>3. NewLen \in Nat /\ h.datalen <= NewLen /\ NewLen <= MaxLen
    BY <2>2, NewLenGrows
  <2>4. ASSUME NEW a \in 0 .. NewLen - 1 PROVE new[a] \in Byte
    BY <2>2, <1>0, ImagesAreBytes DEF HandleOK, InBlock
  <2>5. /\ h'.data = new /\ h'.datalen = NewLen /\ h'.filelen = h.filelen
        /\ h'.curpos = h.curpos
        /\ h' \in [data : {h'.data}, datalen : Nat, filelen : Nat, curpos : Nat]
    <3> HIDE DEF new
    <3>1. QED
      BY <2>1, <2>3, <1>0 DEF HandleOK
  <2>6. HandleOK' /\ InBlock'
    BY <2>2, <2>3, <2>4, <2>5, <1>0 DEF HandleOK, InBlock
  <2>7. StreamTypeOK'
    <3> HIDE DEF new
    <3>1. QED
      BY <2>1, <2>3, <2>5, <1>0 DEF StreamTypeOK
  <2>8. CallerInv' /\ ImageWhole'
    BY <2>1, <2>2, <2>6, <1>0 DEF CallerInv, ImageWhole, Idle
  <2>9. QED
    BY <2>6, <2>7, <2>8 DEF MemInv
<1>5. CASE AtLimit \/ ReallocFails
  <2>1. /\ UNCHANGED <<image, caller, h, got, beyond, served>> /\ ~Idle
        /\ buffer' = <<>> /\ failed' = TRUE /\ lost' = TRUE
    BY <1>5 DEF AtLimit, ReallocFails, ReturnZero
  <2>2. caller = "save"
    BY <2>1, <1>0 DEF CallerInv
  <2>3. HandleOK' /\ InBlock'
    BY <2>1, <1>0 DEF HandleOK, InBlock
  <2>4. StreamTypeOK'
    BY <2>1, <1>0 DEF StreamTypeOK
  <2>5. CallerInv' /\ ImageWhole'
    BY <2>1, <2>2, <2>3, <1>0 DEF CallerInv, ImageWhole, Idle
  <2>6. QED
    BY <2>3, <2>4, <2>5 DEF MemInv
<1>6. CASE WriteBytes
  <2>1. /\ UNCHANGED <<image, got, failed, served>> /\ ~Idle /\ buffer' = <<>>
        /\ lost' = (lost \/ Product < Len(buffer))
        /\ beyond' = (beyond \/ h.curpos + Len(buffer) > MaxLen)
    BY <1>6 DEF WriteBytes
  <2>2. caller = "save" /\ image \in Images
    BY <2>1, <1>0 DEF CallerInv
  <2>3. /\ Product \in Nat /\ Product <= Len(buffer) /\ Len(buffer) \in Nat /\ End \in Nat
        /\ h.curpos + Len(buffer) <= MaxLen => Product = Len(buffer) /\ End <= h.datalen
    BY <1>6, RoomIsThere
  <2>4. h.curpos \in 0 .. MaxLen /\ h.datalen \in 0 .. MaxLen /\ h.filelen \in 0 .. MaxLen /\ MaxLen \in Nat
    BY <1>0, MemAssumption DEF StreamTypeOK
  <2>5. (lost' => failed' \/ beyond') /\ (End > h.datalen => beyond')
    <3>1. h.curpos + Len(buffer) <= MaxLen \/ beyond'
      <4>1. h.curpos + Len(buffer) <= MaxLen \/ h.curpos + Len(buffer) > MaxLen
        BY <2>3, <2>4
      <4>2. h.curpos + Len(buffer) > MaxLen => beyond'
        BY <2>1
      <4>3. QED
        BY <4>1, <4>2
    <3>2. CASE beyond'
      BY <3>2
    <3>3. CASE h.curpos + Len(buffer) <= MaxLen
      <4>1. ~(Product < Len(buffer)) /\ ~(End > h.datalen)
        BY <2>3, <2>4, <3>3
      <4>2. QED
        BY <2>1, <4>1, <1>0 DEF CallerInv
    <3>4. QED
      BY <3>1, <3>2, <3>3
  <2>6. lost' \in BOOLEAN /\ beyond' \in BOOLEAN
    BY <2>1, <1>0 DEF StreamTypeOK
  <2>7. /\ HandleOK' /\ InBlock' /\ caller' \in {"save", "undefined"} /\ (caller' = "undefined" => beyond')
        /\ h'.curpos \in 0 .. MaxLen /\ h'.datalen \in 0 .. MaxLen /\ h'.filelen \in 0 .. MaxLen
    <3>1. CASE End <= h.datalen
      <4>1. /\ HandleOK' /\ InBlock' /\ h'.datalen = h.datalen /\ caller' = caller
            /\ h'.curpos = End /\ h'.filelen = IF End > h.filelen THEN End ELSE h.filelen
        BY <1>6, <3>1, WriteFacts
      <4>2. QED
        BY <4>1, <2>2, <2>3, <2>4, <3>1
    <3>2. CASE End > h.datalen
      <4>1. h' = h /\ caller' = "undefined"
        BY <1>6, <3>2, <2>3, <2>4 DEF WriteBytes, End
      <4>2. QED
        BY <4>1, <2>4, <2>5, <3>2, <1>0 DEF HandleOK, InBlock
    <3>3. QED
      BY <2>3, <2>4, <3>1, <3>2
  <2>8. StreamTypeOK'
    BY <2>1, <2>6, <2>7, <1>0 DEF StreamTypeOK
  <2>9. CallerInv' /\ ImageWhole'
    BY <2>1, <2>2, <2>5, <2>7, <1>0 DEF CallerInv, ImageWhole, Idle
  <2>10. QED
    BY <2>7, <2>8, <2>9 DEF MemInv
<1>7. ASSUME NEW c \in BOOLEAN, TypeFound(c) PROVE MemInv'
  <2>1. /\ UNCHANGED <<image, buffer, failed, lost, beyond, served>> /\ got' = <<>> /\ Idle
        /\ caller = "type" /\ caller' \in {"load", "done"}
        /\ h' = [h EXCEPT !.curpos = 0]
    BY <1>7 DEF TypeFound
  <2>2. /\ h'.data = h.data /\ h'.datalen = h.datalen /\ h'.filelen = h.filelen
        /\ h'.curpos \in Nat
        /\ h' \in [data : {h'.data}, datalen : Nat, filelen : Nat, curpos : Nat]
    BY <2>1, <1>0 DEF HandleOK
  <2>3. HandleOK' /\ InBlock' /\ Memory(0, h.filelen)' = Memory(0, h.filelen)
    BY <2>2, <1>0, SameBlock
  <2>4. StreamTypeOK'
    <3>1. h'.curpos \in 0 .. MaxLen
      BY <2>1, <1>0, MemAssumption DEF HandleOK
    <3>2. QED
      BY <2>1, <2>2, <3>1, <1>0, ImagesAreBytes DEF StreamTypeOK
  <2>5. CallerInv' /\ ImageWhole'
    BY <2>1, <2>3, <1>0 DEF CallerInv, ImageWhole, Idle
  <2>6. QED
    BY <2>3, <2>4, <2>5 DEF MemInv
<1>8. ASSUME NEW c \in BOOLEAN, Loaded(c) PROVE MemInv'
  <2>1. /\ UNCHANGED <<image, buffer, failed, lost, beyond, served>> /\ got' = <<>> /\ Idle
        /\ caller = "load"
        /\ \/ caller' = "save" /\ h' = Handle(<<>>)
           \/ caller' = "done" /\ h' = h
    BY <1>8 DEF Loaded, NoMemory
  <2>2. HandleOK' /\ InBlock'
    <3>1. CASE h' = Handle(<<>>)
      BY <3>1 DEF Handle, HandleOK, InBlock
    <3>2. CASE caller' = "done" /\ h' = h
      BY <3>2, <1>0 DEF HandleOK, InBlock
    <3>3. QED
      BY <2>1, <3>1, <3>2
  <2>3. StreamTypeOK'
    <3>1. h'.curpos \in 0 .. MaxLen /\ h'.filelen \in 0 .. MaxLen /\ h'.datalen \in 0 .. MaxLen
      <4>1. CASE h' = Handle(<<>>)
        BY <4>1, MemAssumption DEF Handle
      <4>2. CASE h' = h
        BY <4>2, <1>0 DEF StreamTypeOK
      <4>3. QED
        BY <2>1, <4>1, <4>2
    <3>2. QED
      BY <2>1, <3>1, <1>0, ImagesAreBytes DEF StreamTypeOK
  <2>4. CallerInv' /\ ImageWhole'
    BY <2>1, <2>2, <1>0 DEF CallerInv, ImageWhole, Idle
  <2>5. QED
    BY <2>2, <2>3, <2>4 DEF MemInv
<1>9. ASSUME NEW c \in BOOLEAN, Saved(c) PROVE MemInv'
  <2>1. /\ UNCHANGED <<h, buffer, failed, lost, beyond, served>> /\ got' = <<>> /\ Idle
        /\ caller = "save" /\ caller' = "done"
        /\ image' = IF c /\ h.datalen # 0 /\ h.filelen > 0
                    THEN Memory(0, h.filelen) ELSE image
    BY <1>9 DEF Saved
  <2>2. HandleOK' /\ InBlock' /\ Memory(0, h.filelen)' = Memory(0, h.filelen)
    BY <2>1, <1>0 DEF HandleOK, InBlock, Memory
  <2>3. Memory(0, h.filelen) \in Seq(Byte)
    BY <1>0, MemoryIsBytes DEF HandleOK, InBlock
  <2>4. StreamTypeOK'
    BY <2>1, <2>3, <1>0, ImagesAreBytes DEF StreamTypeOK
  <2>5. CallerInv' /\ ImageWhole'
    BY <2>1, <2>2, <1>0 DEF CallerInv, ImageWhole, Idle
  <2>6. QED
    BY <2>2, <2>4, <2>5 DEF MemInv
<1>10. CASE UNCHANGED streamVars
  BY <1>10, <1>0 DEF streamVars, MemInv, StreamTypeOK, HandleOK, InBlock, CallerInv, ImageWhole,
                     Idle, Memory
<1>11. QED
  BY <1>1, <1>2, <1>3, <1>4, <1>5, <1>6, <1>7, <1>8, <1>9, <1>10
     DEF StreamNext, WriteStep, Done

LEMMA MemInvariant == StreamSpec => []MemInv
  BY InitMemInv, NextMemInv, PTL DEF StreamSpec

(* Whatever FreeImage calls, the block and the position stay within what a *)
(* long of 32 bits can say, although sums wrap (fiio_mem_SeekProc,         *)
(* fiio_mem_WriteProc).                                                    *)
THEOREM StreamTypes == StreamSpec => []StreamTypeOK
  BY MemInvariant, PTL DEF MemInv

(* memcpy leaves the block only for a write that ends beyond 2^31 - 1, and *)
(* the image is the file it was or a new one, of which bytes are missing   *)
(* only when FreeImage was told so or asked for such a write, for any      *)
(* calls of FreeImage and any answer of it (fiio_mem_WriteProc,            *)
(* ParseImageObject).                                                      *)
THEOREM ImageStaysWhole == StreamSpec => []ImageWhole
  BY MemInvariant, PTL DEF MemInv

-----------------------------------------------------------------------------
(***************************************************************************)
(* The stream implements ByteFile: the file is what lies in the block      *)
(* below filelen, the position is curpos.  Grow is a stutter.              *)
(***************************************************************************)
Bytes == Memory(0, h.filelen)

FileIn(block, n) == [k \in 1 .. n |-> block[0 + k - 1]]

LEMMA FileOfBlock ==
  ASSUME NEW block, NEW len \in Nat, NEW n \in Nat, n <= len,
         DOMAIN block = 0 .. len - 1, \A a \in DOMAIN block : block[a] \in Byte
  PROVE  /\ FileIn(block, n) \in Seq(Byte) /\ Len(FileIn(block, n)) = n
         /\ \A k \in 1 .. n : FileIn(block, n)[k] = block[k - 1]
<1>1. \A k \in 1 .. n : 0 + k - 1 = k - 1 /\ k - 1 \in 0 .. len - 1
  OBVIOUS
<1>2. \A k \in 1 .. n : block[0 + k - 1] = block[k - 1] /\ block[k - 1] \in Byte
  BY <1>1
<1>3. QED
  BY <1>2 DEF FileIn

LEMMA BytesFacts ==
  ASSUME MemInv
  PROVE  /\ Bytes \in Seq(Byte) /\ Len(Bytes) = h.filelen
         /\ \A k \in 1 .. h.filelen : Bytes[k] = h.data[k - 1]
<1>1. /\ h.datalen \in Nat /\ h.filelen \in Nat /\ h.filelen <= h.datalen
      /\ DOMAIN h.data = 0 .. h.datalen - 1
      /\ \A a \in DOMAIN h.data : h.data[a] \in Byte
  BY DEF MemInv, StreamTypeOK, HandleOK, InBlock
<1>2. Bytes = FileIn(h.data, h.filelen)
  BY DEF Bytes, Memory, FileIn
<1>3. QED
  BY <1>1, <1>2, FileOfBlock

LEMMA NewBytesFacts ==
  ASSUME MemInv'
  PROVE  /\ Bytes' \in Seq(Byte) /\ Len(Bytes') = h'.filelen
         /\ \A k \in 1 .. h'.filelen : Bytes'[k] = h'.data[k - 1]
<1>1. /\ h'.datalen \in Nat /\ h'.filelen \in Nat /\ h'.filelen <= h'.datalen
      /\ DOMAIN h'.data = 0 .. h'.datalen - 1
      /\ \A a \in DOMAIN h'.data : h'.data[a] \in Byte
  BY DEF MemInv, StreamTypeOK, HandleOK, InBlock
<1>2. Bytes' = FileIn(h'.data, h'.filelen)
  BY DEF Bytes, Memory, FileIn
<1>3. QED
  BY <1>1, <1>2, FileOfBlock

LEMMA SubSeqFrom ==
  ASSUME NEW s \in Seq(Byte), NEW m \in Nat, NEW n \in Nat, m + n <= Len(s)
  PROVE  SubSeq(s, m + 1, m + n) = [k \in 1 .. n |-> s[m + k]]
  OBVIOUS

(* A read of the stream is a read of the file.                             *)
LEMMA ReadIsFileRead ==
  ASSUME MemInv, NEW q \in Requests, ReadProc(q)
  PROVE  File!FileRead(q)
<1> DEFINE left == IF h.curpos < Len(Bytes) THEN (Len(Bytes) - h.curpos) \div q.size ELSE 0
           n == q.size * (IF left < q.count THEN left ELSE q.count)
<1>1. /\ Bytes \in Seq(Byte) /\ Len(Bytes) = h.filelen
      /\ \A k \in 1 .. h.filelen : Bytes[k] = h.data[k - 1]
  BY BytesFacts
<1>2. /\ Idle /\ got' = Memory(h.curpos, Blocks(q) * q.size)
      /\ h'.data = h.data /\ h'.filelen = h.filelen
      /\ h'.curpos = IF Blocks(q) < q.count THEN h.filelen
                     ELSE h.curpos + Blocks(q) * q.size
      /\ buffer' = buffer /\ failed' = failed /\ beyond' = beyond
  BY ReadFacts DEF ReadProc
<1>3. /\ Blocks(q) \in Nat /\ Blocks(q) * q.size \in Nat
      /\ q.size \in Nat \ {0} /\ q.count \in Nat
      /\ h.filelen < h.curpos => Blocks(q) * q.size = 0
      /\ h.filelen >= h.curpos =>
           h.curpos + Blocks(q) * q.size <= h.filelen /\ Left(q) \in Nat
  BY BlocksInFile DEF MemInv
<1>4. h.curpos \in Nat /\ h.filelen \in Nat
  BY DEF MemInv, StreamTypeOK
<1>5. left \in Nat /\ Blocks(q) = IF left < q.count THEN left ELSE q.count
  <2>1. CASE h.curpos < h.filelen
    BY <1>1, <1>3, <1>4, <2>1 DEF Blocks, Left
  <2>2. CASE h.curpos = h.filelen
    <3>1. h.filelen - h.curpos = 0
      BY <1>4, <2>2
    <3>2. 0 \div q.size = 0
      BY <1>3, Z3
    <3>3. Left(q) = 0
      BY <3>1, <3>2 DEF Left
    <3>4. QED
      BY <1>1, <1>3, <1>4, <2>2, <3>3 DEF Blocks
  <2>3. CASE h.curpos > h.filelen
    BY <1>1, <1>3, <1>4, <2>3 DEF Blocks
  <2>4. QED
    BY <1>4, <2>1, <2>2, <2>3
<1> HIDE DEF left
<1>6. n = Blocks(q) * q.size /\ n \in Nat
  <2>1. n = q.size * Blocks(q)
    BY <1>5
  <2>2. QED
    BY <2>1, <1>3
<1>7. (Blocks(q) < q.count) <=> (left < q.count)
  BY <1>3, <1>5
<1> HIDE DEF n
<1>8. got' = SubSeq(Bytes, h.curpos + 1, h.curpos + n)
  <2>1. CASE n = 0
    BY <1>2, <1>4, <1>6, <2>1 DEF Memory
  <2>2. CASE n # 0
    <3>1. h.curpos + n <= h.filelen
      BY <1>3, <1>4, <1>6, <2>2
    <3>2. SubSeq(Bytes, h.curpos + 1, h.curpos + n)
            = [k \in 1 .. n |-> Bytes[h.curpos + k]]
      <4>1. n \in Nat /\ h.curpos \in Nat /\ h.curpos + n <= Len(Bytes)
        BY <1>1, <1>4, <1>6, <3>1
      <4>2. QED
        BY <1>1, <4>1, SubSeqFrom
    <3>3. \A k \in 1 .. n : Bytes[h.curpos + k] = h.data[h.curpos + k - 1]
      BY <1>1, <1>4, <1>6, <3>1
    <3>4. QED
      BY <1>2, <1>6, <3>2, <3>3 DEF Memory
  <2>3. QED
    BY <2>1, <2>2
<1>9. Bytes' = Bytes
  BY <1>2 DEF Bytes, Memory
<1>10. h'.curpos = IF left < q.count THEN Len(Bytes) ELSE h.curpos + n
  BY <1>1, <1>2, <1>6, <1>7
<1>11. QED
  BY <1>2, <1>8, <1>9, <1>10 DEF File!FileRead, File!answers, Bytes, Idle, left, n

(* A write that does not end beyond the limit is a write of the file.      *)
LEMMA WriteIsFileWrite ==
  ASSUME MemInv, MemInv', WriteBytes, h.curpos + Len(buffer) <= MaxLen
  PROVE  File!FileWrite
<1>0. Product = Len(buffer) /\ End <= h.datalen /\ End = h.curpos + Len(buffer)
  BY RoomIsThere DEF End
<1>1. /\ Bytes \in Seq(Byte) /\ Len(Bytes) = h.filelen
      /\ \A k \in 1 .. h.filelen : Bytes[k] = h.data[k - 1]
  BY BytesFacts
<1>2. /\ Bytes' \in Seq(Byte) /\ Len(Bytes') = h'.filelen
      /\ \A k \in 1 .. h'.filelen : Bytes'[k] = h'.data[k - 1]
  BY NewBytesFacts
<1>3. /\ ~Idle /\ buffer' = <<>> /\ buffer \in Seq(Byte) /\ Len(buffer) \in Nat \ {0}
      /\ h'.curpos = End
      /\ h'.filelen = IF End > h.filelen THEN End ELSE h.filelen
      /\ DOMAIN h'.data = DOMAIN h.data
      /\ \A a \in DOMAIN h.data : h'.data[a] =
           IF a \in h.curpos .. End - 1 THEN buffer[a - h.curpos + 1] ELSE h.data[a]
  BY <1>0, WriteFacts
<1>4. /\ h.curpos \in Nat /\ h.filelen \in Nat /\ h.datalen \in Nat
      /\ h.filelen <= h.datalen /\ DOMAIN h.data = 0 .. h.datalen - 1
  BY DEF MemInv, StreamTypeOK, InBlock
<1>5. SubSeq(Bytes', h.curpos + 1, End) = buffer
  <2>1. SubSeq(Bytes', h.curpos + 1, End) = [k \in 1 .. Len(buffer) |-> Bytes'[h.curpos + k]]
    <3>1. h.curpos + Len(buffer) <= Len(Bytes')
      BY <1>2, <1>3, <1>4, <1>0
    <3>2. QED
      <4>1. SubSeq(Bytes', h.curpos + 1, h.curpos + Len(buffer))
              = [k \in 1 .. Len(buffer) |-> Bytes'[h.curpos + k]]
        BY <1>2, <1>3, <1>4, <3>1, SubSeqFrom
      <4>2. QED
        BY <4>1, <1>0
  <2>2. ASSUME NEW k \in 1 .. Len(buffer) PROVE Bytes'[h.curpos + k] = buffer[k]
    <3>1. PICK m \in Nat : m = h.curpos + k
      BY <1>3, <1>4
    <3>2. /\ m \in 1 .. h'.filelen /\ m - 1 \in h.curpos .. End - 1
          /\ m - 1 \in DOMAIN h.data /\ m - 1 - h.curpos + 1 = k
      <4>0. PICK c \in Nat, n \in Nat : c = h.curpos /\ n = Len(buffer)
        BY <1>3, <1>4
      <4>1. m - 1 - h.curpos + 1 = k /\ m \in 1 .. End /\ m - 1 \in h.curpos .. End - 1
        <5>1. k \in 1 .. n /\ m = c + k /\ End = c + n
          BY <4>0, <3>1, <1>0
        <5>2. m - 1 - c + 1 = k /\ m \in 1 .. c + n /\ m - 1 \in c .. c + n - 1
          BY <5>1
        <5>3. QED
          BY <4>0, <5>1, <5>2
      <4>2. End <= h'.filelen /\ End \in Nat /\ h'.filelen \in Nat
        BY <1>3, <1>4, <1>0
      <4>3. m \in 1 .. h'.filelen
        BY <4>1, <4>2
      <4>4. m - 1 \in 0 .. h.datalen - 1
        BY <1>0, <1>4, <4>1, <4>2
      <4>5. QED
        BY <1>4, <4>1, <4>3, <4>4
    <3>3. Bytes'[m] = h'.data[m - 1]
      BY <1>2, <3>2
    <3>4. h'.data[m - 1] = buffer[m - 1 - h.curpos + 1]
      BY <1>3, <3>2
    <3>5. QED
      BY <3>1, <3>2, <3>3, <3>4
  <2>3. buffer = [k \in 1 .. Len(buffer) |-> buffer[k]]
    BY <1>3
  <2>4. QED
    BY <2>1, <2>2, <2>3
<1>6. ASSUME NEW k \in 1 .. Len(Bytes), k <= h.curpos \/ k > End
      PROVE  Bytes'[k] = Bytes[k]
  <2>1. k \in 1 .. h.filelen /\ k \in 1 .. h'.filelen /\ k - 1 \in DOMAIN h.data
    BY <1>1, <1>3, <1>4, <1>0
  <2>2. k - 1 \notin h.curpos .. End - 1
    BY <1>3, <1>4, <1>6, <2>1, <1>0
  <2>3. QED
    BY <1>1, <1>2, <1>3, <2>1, <2>2
<1>7. got' = got /\ failed' = failed /\ beyond' = beyond
  <2>1. got' = got /\ failed' = failed /\ beyond' = (beyond \/ h.curpos + Len(buffer) > MaxLen)
    BY DEF WriteBytes
  <2>2. beyond \in BOOLEAN /\ ~(h.curpos + Len(buffer) > MaxLen)
    BY <1>3, <1>4, MemAssumption DEF MemInv, StreamTypeOK
  <2>3. QED
    BY <2>1, <2>2
<1>8. Len(Bytes') = IF End > Len(Bytes) THEN End ELSE Len(Bytes)
  BY <1>1, <1>2, <1>3
<1>9. QED
  BY <1>0, <1>2, <1>3, <1>5, <1>6, <1>7, <1>8 DEF File!FileWrite, File!answers, Bytes, Idle

(* As long as no write ends beyond 2^31 - 1 the stream is the file         *)
(* FreeImage expects: reads give the bytes at the position, writes put     *)
(* theirs there and touch no other, a refused write leaves the file alone, *)
(* and no reallocation shows.                                              *)
THEOREM StreamActsAsFile == StreamSpec => ActsAsFile
<1>1. StreamInit => File!FileInit
  <2> SUFFICES ASSUME StreamInit PROVE File!FileInit
    OBVIOUS
  <2>1. image \in Images /\ h = Handle(image) /\ image \in Seq(Byte)
    BY ImagesAreBytes DEF StreamInit
  <2>2. Memory(0, h.filelen) = image /\ h.curpos = 0
    BY <2>1, HandleFacts
  <2>3. QED
    BY <2>1, <2>2 DEF StreamInit, File!FileInit
<1>2. MemInv /\ MemInv' /\ [StreamNext]_streamVars => [File!FileNext]_(File!fileVars)
  <2> SUFFICES ASSUME MemInv, MemInv', [StreamNext]_streamVars PROVE [File!FileNext]_(File!fileVars)
    OBVIOUS
  <2>1. ASSUME NEW q \in Requests, ReadProc(q) PROVE File!FileNext
    BY <2>1, ReadIsFileRead DEF File!FileNext
  <2>2. ASSUME NEW offset \in Offsets, NEW origin \in {"set", "cur", "end"},
               SeekProc(offset, origin)
        PROVE  File!FileNext
    <3>1. Idle /\ got' = <<>> /\ buffer' = buffer /\ failed' = failed /\ beyond' = beyond
      BY <2>2 DEF SeekProc, Call
    <3>2. PICK to \in Int : to <= MaxLen /\ h' = IF to >= 0 THEN [h EXCEPT !.curpos = to] ELSE h
      BY <2>2, SeekFacts DEF MemInv
    <3>3. h'.data = h.data /\ h'.filelen = h.filelen
      BY <3>2 DEF MemInv, HandleOK
    <3>4. Memory(0, h.filelen)' = Memory(0, h.filelen)
      BY <3>3 DEF Memory
    <3>5. CASE to >= 0
      <4>1. h'.curpos \in 0 .. MaxLen
        BY <3>2, <3>5, MemAssumption DEF MemInv, HandleOK
      <4>2. QED
        BY <3>1, <3>4, <4>1 DEF File!FileNext, File!FileSeek, File!answers, Idle
    <3>6. CASE ~(to >= 0)
      BY <3>1, <3>2, <3>4, <3>6 DEF File!FileNext, File!FileClose, File!answers
    <3>7. QED
      BY <3>5, <3>6
  <2>3. ASSUME NEW b \in Buffers, WriteProc(b) PROVE File!FileNext
    <3>1. /\ Idle /\ buffer' = b /\ got' = <<>> /\ h' = h /\ failed' = failed /\ beyond' = beyond
      BY <2>3 DEF WriteProc, Call
    <3>2. Memory(0, h.filelen)' = Memory(0, h.filelen)
      BY <3>1 DEF Memory
    <3>3. QED
      BY <3>1, <3>2 DEF File!FileNext, File!FileBeginWrite, File!answers, Idle
  <2>4. CASE Grow
    <3>1. /\ UNCHANGED <<got, buffer, failed, beyond>> /\ h'.filelen = h.filelen /\ h'.curpos = h.curpos
          /\ h'.data = [a \in 0 .. NewLen - 1 |-> IF a < h.datalen THEN h.data[a] ELSE Junk]
      BY <2>4 DEF Grow, MemInv, HandleOK
    <3>2. /\ h.filelen \in Nat /\ h.datalen \in Nat /\ h.filelen <= h.datalen
          /\ NewLen \in Nat /\ h.datalen <= NewLen
      <4>1. h.datalen <= MaxLen
        BY MemAssumption DEF MemInv, StreamTypeOK
      <4>2. QED
        BY <4>1, NewLenGrows DEF MemInv, StreamTypeOK, InBlock
    <3>3. \A k \in 1 .. h.filelen : h'.data[0 + k - 1] = h.data[0 + k - 1]
      <4>1. \A k \in 1 .. h.filelen :
              0 + k - 1 \in 0 .. NewLen - 1 /\ 0 + k - 1 < h.datalen
        BY <3>2
      <4>2. QED
        BY <3>1, <4>1
    <3>4. Memory(0, h.filelen)' = Memory(0, h.filelen)
      BY <3>1, <3>3 DEF Memory
    <3>5. QED
      BY <3>1, <3>4 DEF File!fileVars
  <2>5. CASE AtLimit \/ ReallocFails
    <3>1. UNCHANGED <<h, got, beyond>> /\ ~Idle /\ buffer' = <<>> /\ failed' = TRUE
      BY <2>5 DEF AtLimit, ReallocFails, ReturnZero
    <3>2. Memory(0, h.filelen)' = Memory(0, h.filelen)
      BY <3>1 DEF Memory
    <3>3. QED
      BY <3>1, <3>2 DEF File!FileNext, File!FileRefuse, Idle
  <2>6. CASE WriteBytes
    <3>1. h.curpos \in Nat /\ Len(buffer) \in Nat /\ MaxLen \in Nat /\ ~Idle
      BY <2>6, RoomIsThere, MemAssumption DEF MemInv, StreamTypeOK
    <3>2. CASE h.curpos + Len(buffer) <= MaxLen
      BY <2>6, <3>2, WriteIsFileWrite DEF File!FileNext
    <3>3. CASE h.curpos + Len(buffer) > MaxLen
      BY <2>6, <3>1, <3>3 DEF WriteBytes, Idle, File!FileNext, File!FileVoid
    <3>4. QED
      BY <3>1, <3>2, <3>3
  <2>7. ASSUME NEW c \in BOOLEAN, TypeFound(c) PROVE File!FileNext
    <3>1. /\ Idle /\ caller = "type" /\ got' = <<>> /\ buffer' = buffer
          /\ failed' = failed /\ beyond' = beyond
          /\ h' = [h EXCEPT !.curpos = 0]
      BY <2>7 DEF TypeFound
    <3>2. h'.data = h.data /\ h'.filelen = h.filelen /\ h'.curpos = 0
      BY <3>1 DEF MemInv, HandleOK
    <3>3. Memory(0, h.filelen)' = Memory(0, h.filelen)
      BY <3>2 DEF Memory
    <3>4. Memory(0, h.filelen) \in Images
      BY <3>1 DEF MemInv, CallerInv
    <3>5. QED
      BY <3>1, <3>2, <3>3, <3>4 DEF File!FileNext, File!FileOpen, File!answers, Idle
  <2>8. ASSUME NEW c \in BOOLEAN, Loaded(c) PROVE File!FileNext
    <3>1. /\ Idle /\ got' = <<>> /\ buffer' = buffer /\ failed' = failed /\ beyond' = beyond
          /\ h' = Handle(<<>>) \/ h' = h
      BY <2>8 DEF Loaded, NoMemory
    <3>2. CASE h' = Handle(<<>>)
      <4>1. h'.filelen = 0 /\ h'.curpos = 0
        BY <3>2 DEF Handle
      <4>2. Memory(0, h.filelen)' = <<>>
        BY <4>1 DEF Memory
      <4>3. QED
        BY <3>1, <4>1, <4>2 DEF File!FileNext, File!FileOpen, File!answers, Idle
    <3>3. CASE h' = h
      <4>1. Memory(0, h.filelen)' = Memory(0, h.filelen)
        BY <3>3 DEF Memory
      <4>2. QED
        BY <3>1, <3>3, <4>1 DEF File!FileNext, File!FileClose, File!answers
    <3>4. QED
      BY <3>1, <3>2, <3>3
  <2>9. ASSUME NEW c \in BOOLEAN, Saved(c) PROVE File!FileNext
    <3>1. h' = h /\ buffer' = buffer /\ got' = <<>> /\ failed' = failed /\ beyond' = beyond
      BY <2>9 DEF Saved
    <3>2. Memory(0, h.filelen)' = Memory(0, h.filelen)
      BY <3>1 DEF Memory
    <3>3. QED
      BY <3>1, <3>2 DEF File!FileNext, File!FileClose, File!answers
  <2>10. CASE UNCHANGED streamVars
    <3>1. h' = h /\ buffer' = buffer /\ got' = got /\ failed' = failed /\ beyond' = beyond
      BY <2>10 DEF streamVars
    <3>2. Memory(0, h.filelen)' = Memory(0, h.filelen)
      BY <3>1 DEF Memory
    <3>3. QED
      BY <3>1, <3>2 DEF File!fileVars
  <2>11. QED
    BY <2>1, <2>2, <2>3, <2>4, <2>5, <2>6, <2>7, <2>8, <2>9, <2>10
       DEF StreamNext, WriteStep, Done
<1>3. QED
  BY <1>1, <1>2, MemInvariant, PTL DEF StreamSpec, ActsAsFile, File!FileSpec

=============================================================================
