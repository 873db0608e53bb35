---------------------------- MODULE ObjectStyle ----------------------------
(***************************************************************************)
(* Parsing the elements of a layer: ParseBody, ParseElement, the style that *)
(* ParsePathObject and ParseTextObject put together from the element, its  *)
(* DrawParam, the layer's DrawParam and the DrawParams these are relative  *)
(* to, and ParseCompositeObject, which parses the content of a composite   *)
(* unit into a container of its own.  Both ParseDrawParam and              *)
(* ParseCompositeObject are recursive; the calls under way are a stack.    *)
(*                                                                         *)
(* A style says of each attribute which element set it.  Alpha, boxes,     *)
(* matrices, clips and the objects that come with another (the border of   *)
(* an image, the gradient of a path) are left out.                         *)
(***************************************************************************)
EXTENDS Integers, Sequences, SequencesExt, FiniteSets

CONSTANTS
  Documents,  \* the layer to be parsed and the resources it uses
  MaxDepth    \* calls the stack of the process has room for

Attrs == {"LineWidth", "Cap", "Join", "MiterLimit", "DashPattern", "FillColor", "StrokeColor"}

(* An element.  shown: it is visible; an image can be decoded, the box of  *)
(* a composite is not empty.  dp is the DrawParam and res the ResourceID   *)
(* it names, 0 without.                                                    *)
Element == [tag : {"PathObject", "TextObject", "ImageObject", "CompositeObject"},
            name : STRING, shown : BOOLEAN, has : SUBSET Attrs,
            dp : Nat, res : Nat]
DrawParam == [has : SUBSET Attrs, relative : Nat]

IsDocument(d) ==
  /\ d.layer \in Nat /\ d.content \in Seq(Element)
  /\ d.drawparams \in [DOMAIN d.drawparams -> DrawParam]
  /\ DOMAIN d.drawparams \subseteq Nat \ {0}
  /\ d.compositeobj \in [DOMAIN d.compositeobj -> Seq(Element)]
  /\ DOMAIN d.compositeobj \subseteq Nat \ {0}

StyleAssumption ==
  /\ MaxDepth \in Nat \ {0}
  /\ \A d \in Documents : IsDocument(d)

VARIABLES
  doc,     \* the document
  frames,  \* calls of ParseBody: what is left, what was parsed, the layer's DrawParam
  obj,     \* the path or text that is put together, or NoObject
  calls,   \* calls of ParseDrawParam it has yet to make
  draw,    \* calls of ParseDrawParam under way
  page,    \* the objects of the layer that was parsed last
  state    \* of the process: "idle", "busy", "dead"

vars == <<doc, frames, obj, calls, draw, page, state>>

(* Who set an attribute.                                                   *)
Default == <<"default", 0>>
Own == <<"own", 0>>
By(id) == <<"dp", id>>

NoObject == [name |-> ""]
Plain == [a \in Attrs |-> Default]

(* SetDefaultParam.                                                        *)
NewObject(e, layer) ==
  [name |-> e.name, elem |-> e, layer |-> layer, style |-> Plain]

Known(id) == id \in DOMAIN doc.drawparams

(* ParseDrawParam's argument: a DrawParam, or an object's own element,     *)
(* which is never relative to another.                                     *)
OfParam(id) ==
  [tag |-> "DrawParam", has |-> doc.drawparams[id].has,
   relative |-> doc.drawparams[id].relative, who |-> By(id), down |-> FALSE]
OfElement(e) ==
  [tag |-> e.tag, has |-> e.has, relative |-> 0, who |-> Own, down |-> FALSE]

IfKnown(id) == IF Known(id) THEN <<OfParam(id)>> ELSE <<>>

(* Mutant: a path looks at the layer's DrawParam last.                     *)
CallsLayerLast(e, layer) ==
  IF e.tag = "TextObject"
    THEN <<OfElement(e)>> \o IfKnown(layer) \o IfKnown(e.dp)
    ELSE (IF Known(e.dp) THEN IfKnown(e.dp) ELSE <<OfElement(e)>>) \o IfKnown(layer)

(* The calls of ParseDrawParam in ParseTextObject and ParsePathObject.  A  *)
(* path with a DrawParam does not look at itself.                          *)
Calls(e, layer) ==
  IF e.tag = "TextObject"
    THEN <<OfElement(e)>> \o IfKnown(layer) \o IfKnown(e.dp)
    ELSE IfKnown(layer) \o (IF Known(e.dp) THEN IfKnown(e.dp) ELSE <<OfElement(e)>>)

(* The rest of ParseDrawParam, behind the recursion.                       *)
Applied(o, c) ==
  [o EXCEPT !.style = [a \in Attrs |-> IF a \in c.has THEN c.who ELSE @[a]]]

Again == {"LineWidth", "MiterLimit", "DashPattern"}

(* The rest of ParsePathObject and ParseTextObject.                        *)
Finished(o) ==
  [o EXCEPT !.style = [a \in Attrs |->
     IF o.elem.tag = "PathObject" /\ a \in o.elem.has \cap Again THEN Own ELSE @[a]]]

Top == frames[Len(frames)]
Popped(s) == SubSeq(s, 1, Len(s) - 1)
Depth == Len(frames) + Len(draw)

(* An uninitialised layer_drawparam.                                       *)
Garbage == DOMAIN doc.drawparams \cup {0}

-----------------------------------------------------------------------------
Init ==
  /\ doc \in Documents
  /\ frames = <<>> /\ obj = NoObject /\ calls = <<>> /\ draw = <<>>
  /\ page = <<>> /\ state = "idle"

(* A layer of a page, or the next one of another document.                 *)
ParseLayer(d) ==
  /\ state \in {"idle", "dead"}
  /\ doc' = d /\ state' = "busy" /\ page' = <<>>
  /\ frames' = <<[rest |-> d.content, out |-> <<>>, layer |-> d.layer]>>
  /\ UNCHANGED <<obj, calls, draw>>

(* The stack of the process is used up.                                    *)
Overflow ==
  /\ state' = "dead" /\ frames' = <<>> /\ obj' = NoObject
  /\ calls' = <<>> /\ draw' = <<>>
  /\ UNCHANGED <<doc, page>>

Between == state = "busy" /\ obj = NoObject

(* Elements that leave no object, and images, which have no style.         *)
ParseOther ==
  /\ Between /\ Top.rest # <<>>
  /\ LET e == Head(Top.rest)
     IN  /\ \/ ~e.shown \/ e.tag = "ImageObject"
            \/ e.tag = "CompositeObject" /\ e.res \notin DOMAIN doc.compositeobj
         /\ frames' = [frames EXCEPT ![Len(frames)] =
              [Top EXCEPT !.rest = Tail(@),
                          !.out = IF e.shown /\ e.tag = "ImageObject"
                                    THEN Append(@, NewObject(e, Top.layer)) ELSE @]]
  /\ UNCHANGED <<doc, obj, calls, draw, page, state>>

(* ParsePathObject and ParseTextObject up to the first ParseDrawParam.     *)
ParseObject ==
  /\ Between /\ Top.rest # <<>>
  /\ LET e == Head(Top.rest)
     IN  /\ e.shown /\ e.tag \in {"PathObject", "TextObject"}
         /\ obj' = NewObject(e, Top.layer)
         /\ calls' = Calls(e, Top.layer)
  /\ frames' = [frames EXCEPT ![Len(frames)].rest = Tail(@)]
  /\ UNCHANGED <<doc, draw, page, state>>

(* ParseDrawParam is called by the object ...                              *)
CallDrawParam ==
  /\ obj # NoObject /\ draw = <<>> /\ calls # <<>>
  /\ IF Depth >= MaxDepth THEN Overflow
     ELSE /\ draw' = <<Head(calls)>> /\ calls' = Tail(calls)
          /\ UNCHANGED <<doc, frames, obj, page, state>>

(* Mutant: where the other one is not there, it takes itself for it.       *)
RecurseSelf ==
  /\ draw # <<>>
  /\ LET c == draw[Len(draw)]
     IN  /\ ~c.down /\ c.relative # 0
         /\ IF Depth >= MaxDepth THEN Overflow
            ELSE /\ draw' = Append([draw EXCEPT ![Len(draw)].down = TRUE],
                                   IF Known(c.relative) THEN OfParam(c.relative) ELSE c)
                 /\ UNCHANGED <<doc, frames, obj, calls, page, state>>

(* ... or by itself, for the one it is relative to, which comes first ...  *)
Recurse ==
  /\ draw # <<>>
  /\ LET c == draw[Len(draw)]
     IN  /\ ~c.down /\ Known(c.relative)
         /\ IF Depth >= MaxDepth THEN Overflow
            ELSE /\ draw' = Append([draw EXCEPT ![Len(draw)].down = TRUE], OfParam(c.relative))
                 /\ UNCHANGED <<doc, frames, obj, calls, page, state>>

(* ... and its own attributes override what that one set.                  *)
Apply ==
  /\ draw # <<>>
  /\ LET c == draw[Len(draw)]
     IN  /\ c.down \/ ~Known(c.relative)
         /\ obj' = Applied(obj, c)
  /\ draw' = Popped(draw)
  /\ UNCHANGED <<doc, frames, calls, page, state>>

(* AppendPageObject.                                                       *)
FinishObject ==
  /\ obj # NoObject /\ calls = <<>> /\ draw = <<>>
  /\ frames' = [frames EXCEPT ![Len(frames)].out = Append(@, Finished(obj))]
  /\ obj' = NoObject
  /\ UNCHANGED <<doc, calls, draw, page, state>>

(* ParseCompositeObject, up to ParseBody of the container.                 *)
EnterComposite ==
  /\ Between /\ Top.rest # <<>>
  /\ LET e == Head(Top.rest)
     IN  /\ e.shown /\ e.tag = "CompositeObject" /\ e.res \in DOMAIN doc.compositeobj
         /\ IF Depth >= MaxDepth THEN Overflow
            ELSE \E g \in Garbage :
                   /\ frames' = Append([frames EXCEPT ![Len(frames)].rest = Tail(@)],
                        [rest |-> doc.compositeobj[e.res], out |-> <<>>, layer |-> g])
                   /\ UNCHANGED <<doc, obj, calls, draw, page, state>>

(* The objects move from the container to the page.                        *)
LeaveComposite ==
  /\ Between /\ Top.rest = <<>> /\ Len(frames) > 1
  /\ frames' = [Popped(frames) EXCEPT ![Len(frames) - 1].out = @ \o Top.out]
  /\ UNCHANGED <<doc, obj, calls, draw, page, state>>

(* Parse is done with the layer.                                           *)
LayerParsed ==
  /\ Between /\ Len(frames) = 1 /\ Top.rest = <<>>
  /\ page' = Top.out /\ frames' = <<>> /\ state' = "idle"
  /\ UNCHANGED <<doc, obj, calls, draw>>

Parse ==
  \/ ParseOther \/ ParseObject \/ CallDrawParam \/ Recurse \/ Apply
  \/ FinishObject \/ EnterComposite \/ LeaveComposite \/ LayerParsed

Next == Parse \/ \E d \in Documents : ParseLayer(d)

Spec == Init /\ [][Next]_vars

-----------------------------------------------------------------------------
TypeOK ==
  /\ doc \in Documents /\ state \in {"idle", "busy", "dead"}
  /\ Depth <= MaxDepth
  /\ state # "busy" => frames = <<>>
  /\ draw # <<>> => obj # NoObject
  /\ obj # NoObject => state = "busy" /\ obj.elem \in Element

(* The DrawParams from id on, each followed by the one it is relative to.  *)
ChainUpTo[n \in Nat] ==
  [id \in Nat |->
     IF n = 0 \/ id \notin DOMAIN doc.drawparams THEN <<>>
     ELSE <<id>> \o ChainUpTo[n - 1][doc.drawparams[id].relative]]
Chain(id) == ChainUpTo[MaxDepth][id]

(* The first of a chain that sets a, and other if none does.               *)
Nearest(id, a, other) ==
  LET c == Chain(id)
      hits == {i \in 1 .. Len(c) : a \in doc.drawparams[c[i]].has}
  IN  IF hits = {} THEN other ELSE By(c[CHOOSE i \in hits : \A k \in hits : i <= k])

OwnOr(e, a, other) == IF a \in e.has THEN Own ELSE other

(* The precedence of the attributes.  For a path: its own (colours, caps   *)
(* and joins only without a DrawParam), its DrawParam and those it is      *)
(* relative to, the nearest first, then the layer's in the same way.  For  *)
(* a text: its DrawParam, the layer's, and only then its own.              *)
Preferred(o, a) ==
  LET e == o.elem
  IN  IF e.tag = "TextObject"
        THEN Nearest(e.dp, a, Nearest(o.layer, a, OwnOr(e, a, Default)))
      ELSE IF a \in Again \/ ~Known(e.dp)
        THEN OwnOr(e, a, Nearest(e.dp, a, Nearest(o.layer, a, Default)))
      ELSE Nearest(e.dp, a, Nearest(o.layer, a, Default))

(* Every object of a parsed layer has its style by this precedence, over   *)
(* chains of any length, wherever in nested composites it stands, and      *)
(* nothing of the object parsed before it.                                 *)
StyleByPrecedence ==
  \A i \in 1 .. Len(page) :
    page[i].elem.tag # "ImageObject" =>
      \A a \in Attrs : page[i].style[a] = Preferred(page[i], a)

(* The elements a composite unit stands for, nested ones included.         *)
Content[n \in Nat] ==
  [els \in {doc.content} \cup {doc.compositeobj[r] : r \in DOMAIN doc.compositeobj} |->
     FlattenSeq([i \in 1 .. Len(els) |->
       IF ~els[i].shown THEN <<>>
       ELSE IF els[i].tag # "CompositeObject" THEN <<els[i].name>>
       ELSE IF n = 0 \/ els[i].res \notin DOMAIN doc.compositeobj THEN <<>>
       ELSE Content[n - 1][doc.compositeobj[els[i].res]]])]

(* A parsed layer has the objects of all its visible elements once, in the *)
(* order of the file, those of nested composites where the composite is.   *)
ObjectsInOrder ==
  page # <<>> => [i \in 1 .. Len(page) |-> page[i].name] = Content[MaxDepth][doc.content]

(* DrawParams and units can be ranked: chains of DrawParams are at most p  *)
(* long and units are nested at most u deep, and so not in themselves.     *)
NestedWithin(d, p, u) ==
  LET units == DOMAIN d.compositeobj
      params == DOMAIN d.drawparams
  IN  /\ \E rank \in [params -> 1 .. p] : \A id \in params :
           LET r == d.drawparams[id].relative IN r \in params => rank[r] < rank[id]
      /\ \E rank \in [units -> 1 .. u] : \A n \in units :
           \A i \in 1 .. Len(d.compositeobj[n]) :
             LET r == d.compositeobj[n][i].res
             IN  d.compositeobj[n][i].tag = "CompositeObject" /\ r \in units => rank[r] < rank[n]

(* The stack has room for a layer, the units and the longest chain, or at  *)
(* least the call for the object itself.                                   *)
FitsStack(d) ==
  \E p \in 1 .. MaxDepth, u \in 0 .. MaxDepth :
    p + u + 1 <= MaxDepth /\ NestedWithin(d, p, u)

(* The recursion uses up the stack only on resources nested deeper than    *)
(* it, of which those that contain themselves are an instance.             *)
OverflowOnlyByDepth == state = "dead" => ~FitsStack(doc)

=============================================================================
