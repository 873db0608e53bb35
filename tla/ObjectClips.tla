---------------------------- MODULE ObjectClips ----------------------------
(***************************************************************************)
(* COFD_Page::ApplyClips: what of an object its Clips leave to be seen.    *)
(* Several Clip elements are meant to intersect, the Areas of one Clip to  *)
(* unite; the code collects the paths of a Clip's Areas in one path, its   *)
(* texts in one list, and beside them a rectangle that bounds it all.      *)
(*                                                                         *)
(* The plane is one-dimensional: a rectangle is an interval of cells from  *)
(* l to r - 1, a path fills a set of cells.  A Clip is the sequence of the *)
(* page objects of its Areas: paths, and texts of one character each.      *)
(***************************************************************************)
EXTENDS Integers, Sequences, FiniteSetsExt

CONSTANTS
  Objects,        \* objects with their clips
  Cells,          \* the cells of the page
  MaxTextObjects  \* kMaxTextObjects

Rect == [l : Int, r : Int]
Shape == [kind : {"path", "text"}, box : Rect, bound : Rect]

(* rect is GetRect at that time: a text has no characters yet, and the     *)
(* whole plane for it.                                                     *)
IsObject(o) ==
  /\ o.rect \in Rect /\ o.ebbox \in Rect
  /\ o.clips \in Seq(Seq(Shape))

ClipsAssumption ==
  Cells \subseteq Int /\ MaxTextObjects \in Nat /\ \A o \in Objects : IsObject(o)

VARIABLES
  obj,       \* the object
  at,        \* the Clip, 0 before the first
  shapes,    \* shapes of the Clip yet to be looked at
  merged,    \* merged_clippath: boxes of the paths
  texts,     \* vtext_obj: boxes of the texts
  vtexts,    \* and how many there are
  areaBound, \* multi_area_boundary
  clipBound, \* multi_clip_boundary
  list,      \* the object's m_ClipPath: sets of boxes, each united
  textList,  \* the size of its m_TextList
  done

vars == <<obj, at, shapes, merged, texts, vtexts, areaBound, clipBound, list, textList, done>>

Nowhere == [l |-> 0, r |-> 0]
CellsOf(b) == {c \in Cells : b.l <= c /\ c < b.r}
Filled(boxes) == UNION {CellsOf(b) : b \in boxes}
IsEmpty(b) == b.l >= b.r

(* CFX_FloatRect::Intersect.                                               *)
Intersect(a, b) ==
  LET l == IF a.l > b.l THEN a.l ELSE b.l
      r == IF a.r < b.r THEN a.r ELSE b.r
  IN  IF l > r THEN Nowhere ELSE [l |-> l, r |-> r]

(* CPDF_Path::GetBoundingBox.                                              *)
Hull(boxes) == [l |-> Min({b.l : b \in boxes}), r |-> Max({b.r : b \in boxes})]

(* CPDF_ClipPath::AppendPathWithAutoMerge: a rectangle that contains the   *)
(* new path is replaced by it.                                             *)
AppendPath(paths, boxes) ==
  LET last == paths[Len(paths)]
      new == Hull(boxes)
      within == \E b \in last : last = {b} /\ b.l <= new.l /\ new.r <= b.r
  IN  IF within THEN [paths EXCEPT ![Len(paths)] = boxes] ELSE Append(paths, boxes)

-----------------------------------------------------------------------------
(* The object has the clip of its own box.                                 *)
Init ==
  /\ obj \in Objects
  /\ at = 0 /\ shapes = <<>> /\ merged = {} /\ texts = {}
  /\ areaBound = obj.ebbox /\ clipBound = obj.ebbox
  /\ vtexts = 0 /\ textList = 0
  /\ list = <<{obj.ebbox}>> /\ done = FALSE

(* The head of the loop over the Clips.                                    *)
NextClip ==
  /\ ~done /\ shapes = <<>> /\ merged = {} /\ texts = {} /\ at < Len(obj.clips)
  /\ at' = at + 1 /\ shapes' = obj.clips[at + 1] /\ areaBound' = obj.ebbox
  /\ UNCHANGED <<obj, merged, texts, vtexts, clipBound, list, textList, done>>

(* Mutant: a path replaces the one of the Area before it.                  *)
AddAreaLast ==
  /\ shapes # <<>>
  /\ LET s == Head(shapes)
     IN  /\ areaBound' = Intersect(areaBound, s.bound)
         /\ merged' = IF s.kind = "path" THEN {s.box} ELSE merged
         /\ texts' = IF s.kind = "text" THEN texts \cup {s.box} ELSE texts
         /\ vtexts' = IF s.kind = "text" THEN vtexts + 1 ELSE vtexts
  /\ shapes' = Tail(shapes)
  /\ UNCHANGED <<obj, at, clipBound, list, textList, done>>

(* An object of an Area: its box narrows the bound, its path or text is    *)
(* collected.                                                              *)
AddArea ==
  /\ shapes # <<>>
  /\ LET s == Head(shapes)
     IN  /\ areaBound' = Intersect(areaBound, s.bound)
         /\ merged' = IF s.kind = "path" THEN merged \cup {s.box} ELSE merged
         /\ texts' = IF s.kind = "text" THEN texts \cup {s.box} ELSE texts
         /\ vtexts' = IF s.kind = "text" THEN vtexts + 1 ELSE vtexts
  /\ shapes' = Tail(shapes)
  /\ UNCHANGED <<obj, at, clipBound, list, textList, done>>

(* A path is dropped where its box misses the object's.                    *)
WithPath(paths) ==
  IF merged # {} /\ ~IsEmpty(Intersect(Hull(merged), obj.rect))
    THEN AppendPath(paths, merged) ELSE paths

(* CPDF_ClipPath::AppendTexts: the texts of a Clip, with a null at their   *)
(* end, clip on their own.  If they are too many with those before, they   *)
(* are forgotten, and nothing clips in their place.                        *)
TextsFit == textList + vtexts <= MaxTextObjects

WithTextAndPath(paths) ==
  IF texts # {} /\ TextsFit THEN <<texts>> \o WithPath(paths) ELSE WithPath(paths)

(* The end of a Clip.                                                      *)
EndOfClip ==
  /\ at > 0 /\ shapes = <<>> /\ (merged # {} \/ texts # {})
  /\ clipBound' = Intersect(IF merged = {} THEN clipBound ELSE Intersect(clipBound, Hull(merged)),
                            areaBound)
  /\ list' = WithTextAndPath(list)
  /\ textList' = IF texts # {} /\ TextsFit THEN textList + vtexts + 1 ELSE textList
  /\ merged' = {} /\ texts' = {} /\ vtexts' = 0
  /\ UNCHANGED <<obj, at, shapes, areaBound, done>>

(* The end of the Clips.                                                   *)
EndOfClips ==
  /\ ~done /\ at = Len(obj.clips) /\ shapes = <<>> /\ merged = {} /\ texts = {}
  /\ list' = IF ~IsEmpty(clipBound) /\ at > 1 THEN AppendPath(list, {clipBound}) ELSE list
  /\ done' = TRUE
  /\ UNCHANGED <<obj, at, shapes, merged, texts, vtexts, areaBound, clipBound, textList>>

Step == NextClip \/ AddArea \/ EndOfClip \/ EndOfClips
Next == Step \/ (done /\ UNCHANGED vars)

Spec == Init /\ [][Next]_vars

-----------------------------------------------------------------------------
TypeOK ==
  /\ IsObject(obj) /\ at \in 0 .. Len(obj.clips)
  /\ (merged \cup texts) \subseteq Rect /\ {vtexts, textList} \subseteq Nat
  /\ \A i \in 1 .. Len(list) : list[i] # {} /\ list[i] \subseteq Rect
  /\ \A b \in {areaBound, clipBound} :
       b \in Rect /\ (b = Nowhere \/ (obj.ebbox.l <= b.l /\ b.r <= obj.ebbox.r))

(* What the renderer leaves of the object.                                 *)
Seen == {c \in CellsOf(obj.rect) : \A i \in 1 .. Len(list) : c \in Filled(list[i])}

(* Several Clips intersect, the Areas of one unite.                        *)
Meant ==
  {c \in CellsOf(obj.rect) \cap CellsOf(obj.ebbox) : \A i \in 1 .. Len(obj.clips) :
     \E k \in 1 .. Len(obj.clips[i]) : c \in CellsOf(obj.clips[i][k].box)}

Paths(clip) == {clip[k].box : k \in {m \in 1 .. Len(clip) : clip[m].kind = "path"}}

(* Every Clip has an Area, and its paths do not all miss the object.       *)
Meets(o) ==
  \A i \in 1 .. Len(o.clips) :
    /\ o.clips[i] # <<>>
    /\ Paths(o.clips[i]) # {} => ~IsEmpty(Intersect(Hull(Paths(o.clips[i])), o.rect))

(* The places in m_TextList that the texts of the first n Clips would have,  *)
(* and the nulls behind those of each Clip.                                *)
TextPlaces(o, n) ==
  UNION {{<<m, k>> : k \in {q \in 1 .. Len(o.clips[m]) : o.clips[m][q].kind = "text"}}
         : m \in 1 .. n}
NullPlaces(o, n) == {<<p[1], 0>> : p \in TextPlaces(o, n)}

(* There is room for all of them, the last null not counted.               *)
HasRoom(o) ==
  Cardinality(TextPlaces(o, Len(o.clips)) \cup NullPlaces(o, Len(o.clips)))
    <= MaxTextObjects + 1

(* A clipped object never shows a cell that its Clips exclude, as long as  *)
(* none of them misses it altogether, for a path that does is dropped, and *)
(* no more texts than m_TextList takes are among them.                     *)
NothingTooMuch == done /\ Meets(obj) /\ HasRoom(obj) => Seen \subseteq Meant

(* A Clip of either paths or texts, alone, or several with one object each *)
(* whose box holds its shape, leave exactly what is meant.                 *)
ClippedAsMeant ==
  LET clips == obj.clips
      pure(c) == \A k \in 1 .. Len(c) : c[k].kind = c[1].kind
      whole(s) == s.bound.l <= s.box.l /\ s.box.r <= s.bound.r
      single(c) == Len(c) = 1 /\ whole(c[1])
  IN  /\ done /\ Meets(obj) /\ HasRoom(obj)
      /\ \A i \in 1 .. Len(clips) : pure(clips[i])
      /\ Len(clips) <= 1 \/ \A i \in 1 .. Len(clips) : single(clips[i])
      => Seen = Meant

=============================================================================
