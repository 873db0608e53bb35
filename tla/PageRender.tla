----------------------------- MODULE PageRender -----------------------------
(***************************************************************************)
(* Drawing one OFD page: RenderPageImpl of src/ofd/render/                 *)
(* cofd_renderpage.cpp, COFD_ProgressiveRenderer, the part of               *)
(* COFD_RenderStatus that draws one object, COFD_ImageRenderer, and the     *)
(* clip stack of the device they draw on.                                  *)
(*                                                                         *)
(* The renderer walks the layers of the page and the objects of a layer.   *)
(* It may return in the middle (a pause, an image that is not ready, a     *)
(* mask to be printed, a layer that is not parsed) and is continued later  *)
(* from m_LastObjectRendered.  The clip of an object is set on the device  *)
(* and left there; m_LastClipPath remembers which one it is.               *)
(***************************************************************************)
EXTENDS Integers, Sequences

CONSTANTS
  Jobs,         \* the requests COFD_RenderPage* may get
  ClipNames,    \* clip paths of objects
  Base,         \* the clip rectangle of the request
  StepLimit,    \* kStepLimit: objects drawn between two looks at the pause
  MaxSuspends   \* bound: how often one stage of an image may be suspended

Clips == SUBSET (ClipNames \cup {Base})
Kinds == {"path", "patternText", "shading", "image", "mask", "null"}

(* An object: its kind, its clip path ({} for none) and the clips whose    *)
(* bounding boxes it lies outside of.  "null" is a slot emptied by          *)
(* PopPageObjectByIndex.                                                   *)
Object == [kind : Kinds, clip : SUBSET ClipNames, misses : Clips]
Layer == [parsed : BOOLEAN, objs : Seq(Object)]
Page == [bgT : Seq(Layer), bg : Seq(Layer), annots : Seq(Layer),
         bodyT : Seq(Layer), body : Layer, fgT : Seq(Layer), fg : Seq(Layer),
         sigs : Seq(Layer)]
Job == [page : Page, driver : BOOLEAN, annot : BOOLEAN, pause : BOOLEAN,
        restore : BOOLEAN, breakForMasks : BOOLEAN, printer : BOOLEAN]

ASSUME JobsAssumption == Jobs \subseteq Job
ASSUME ParametersAssumption ==
  /\ StepLimit \in Nat \ {0} /\ MaxSuspends \in Nat
  /\ Base \notin ClipNames

(* The layers RenderPageImpl appends, bottom to top.                       *)
Layers(j) ==
  j.page.bgT \o j.page.bg \o (IF j.annot THEN j.page.annots ELSE <<>>)
  \o j.page.bodyT \o <<j.page.body>> \o j.page.fgT \o j.page.fg \o j.page.sigs

VARIABLES
  job,       \* the request
  pc,        \* where the call is: new, top, scan, back, caller, closed
  status,    \* m_Status
  layer,     \* m_LayerIndex, counted from 1
  current,   \* m_pCurrentLayer and m_pRenderStatus are set
  last,      \* m_LastObjectRendered, 0 for end()
  rect,      \* m_ClipRect: the clip whose box it was computed from
  iter,      \* locals of Continue
  togo,
  isMask,
  lastClip,  \* m_LastClipPath of the render status
  img,       \* m_pImageRenderer: its mode and how often the mode was left
  dev,       \* the device: its clip and the stack of saved clips
  out,       \* history: what reached the device, and under which clip
  first      \* inside RenderPageImpl: need_to_restore is still to be seen to

locals == <<iter, togo, isMask>>
vars == <<job, pc, status, layer, current, last, rect, iter, togo, isMask,
          lastClip, img, dev, out, first>>

NoImage == [mode |-> "none", left |-> 0]
Started(mode) == [mode |-> mode, left |-> MaxSuspends]

Objs == Layers(job)[layer].objs
Obj == Objs[iter]
Here == <<layer, iter>>

-----------------------------------------------------------------------------
(* The device's clip state (CFX_AggDeviceDriver).                          *)
Saved(d) == [d EXCEPT !.stack = Append(@, d.clip)]

Restored(d, keep) ==
  IF d.stack = <<>> THEN [d EXCEPT !.clip = {}]
  ELSE [clip  |-> d.stack[Len(d.stack)],
        stack |-> IF keep THEN d.stack
                  ELSE SubSeq(d.stack, 1, Len(d.stack) - 1)]

Clipped(d, names) == [d EXCEPT !.clip = @ \cup names]

(* ProcessClipPath, for the m_LastClipPath lc.                             *)
ClippedFor(d, lc, clip) ==
  CASE clip = {} /\ lc = {} -> d
    [] clip = {} /\ lc # {} -> Restored(d, TRUE)
    [] clip # {} /\ clip = lc -> d
    [] OTHER -> Clipped(Restored(d, TRUE), clip)

-----------------------------------------------------------------------------
Init ==
  /\ job \in Jobs
  /\ pc = "new"
  /\ status = "kReady"
  /\ layer = 1
  /\ current = FALSE
  /\ last = 0
  /\ rect = {}
  /\ iter = 1 /\ togo = StepLimit /\ isMask = FALSE
  /\ lastClip = {}
  /\ img = NoImage
  /\ dev = [clip |-> {}, stack |-> <<>>]
  /\ out = <<>>
  /\ first = TRUE

(* RenderPageImpl: nothing is done for a device without a driver ...        *)
NoDriver ==
  /\ pc = "new" /\ ~job.driver
  /\ pc' = "closed"
  /\ UNCHANGED <<job, status, layer, current, last, rect, locals, lastClip,
                 img, dev, out, first>>

(* ... else the clip is set and the renderer made and started.             *)
RenderPage ==
  /\ pc = "new" /\ job.driver
  /\ pc' = "top"
  /\ dev' = Clipped(Saved(dev), {Base})
  /\ status' = "kToBeContinued"
  /\ UNCHANGED <<job, layer, current, last, rect, locals, lastClip, img, out,
                 first>>

(* The top of the loop of Continue: no layer is left ...                   *)
NoMoreLayers ==
  /\ pc = "top" /\ ~current
  /\ layer > Len(Layers(job))
  /\ status' = "kDone"
  /\ pc' = "back"
  /\ UNCHANGED <<job, layer, current, last, rect, locals, lastClip, img, dev,
                 out, first>>

EnterScan(i) ==
  /\ pc' = "scan"
  /\ iter' = i /\ togo' = StepLimit /\ isMask' = FALSE

(* Mutant: the device's state is not saved for the layer.                  *)
OpenLayerUnsaved ==
  /\ pc = "top" /\ ~current
  /\ layer <= Len(Layers(job))
  /\ current' = TRUE /\ last' = 0 /\ lastClip' = {} /\ img' = NoImage
  /\ rect' = dev.clip
  /\ EnterScan(1)
  /\ UNCHANGED <<job, status, layer, dev, out, first>>

(* ... the next layer is opened, with a render status of its own ...       *)
OpenLayer ==
  /\ pc = "top" /\ ~current
  /\ layer <= Len(Layers(job))
  /\ current' = TRUE
  /\ last' = 0
  /\ lastClip' = {}
  /\ img' = NoImage
  /\ dev' = Saved(dev)
  /\ rect' = dev.clip
  /\ EnterScan(1)
  /\ UNCHANGED <<job, status, layer, out, first>>

(* Mutant: a continued layer starts at the last object again.              *)
ResumeLayerAtLast ==
  /\ pc = "top" /\ current
  /\ EnterScan(IF last = 0 THEN 1 ELSE last)
  /\ UNCHANGED <<job, status, layer, current, last, rect, lastClip, img, dev,
                 out, first>>

(* ... or the open one is continued after its last object.                 *)
ResumeLayer ==
  /\ pc = "top" /\ current
  /\ EnterScan(last + 1)
  /\ UNCHANGED <<job, status, layer, current, last, rect, lastClip, img, dev,
                 out, first>>

(* What follows an object in the loop.  hit: it was inside the clip.       *)
AfterObject(hit, mask) ==
  LET go == CASE ~hit -> togo
              [] hit /\ Obj.kind = "shading" -> 0
              [] OTHER -> togo - 1
  IN  \E pause \in BOOLEAN :
        /\ pause => go = 0 /\ job.pause
        /\ last' = iter
        /\ togo' = IF go = 0 THEN StepLimit ELSE go
        /\ iter' = iter + 1
        /\ isMask' = mask
        /\ pc' = IF pause \/ (mask /\ iter < Len(Objs)) THEN "back" ELSE "scan"

AtObject == pc = "scan" /\ iter <= Len(Objs)

Hit == Obj.kind # "null" /\ Obj.misses \cap rect = {}
BreaksHere == job.breakForMasks /\ Obj.kind = "mask"
MaskNow == isMask \/ BreaksHere
IsImage == Obj.kind \in {"image", "mask"}

Reached(d) == Append(out, [at |-> Here, clip |-> d.clip])

SkipObject ==
  /\ AtObject /\ ~Hit
  /\ AfterObject(FALSE, isMask)
  /\ UNCHANGED <<job, status, layer, current, rect, lastClip, img, dev, out,
                 first>>

(* A mask on a printer: the clip is set for the caller, who prints it.     *)
LeaveMaskToCaller ==
  /\ AtObject /\ Hit
  /\ BreaksHere /\ job.printer
  /\ last' = iter
  /\ dev' = ClippedFor(dev, lastClip, Obj.clip)
  /\ lastClip' = Obj.clip
  /\ pc' = "back"
  /\ UNCHANGED <<job, status, layer, current, rect, locals, img, out, first>>

ToDraw == AtObject /\ Hit /\ ~(BreaksHere /\ job.printer)

(* The clip DrawObjWithBackground leaves on the device: a render status of  *)
(* its own sets the object's clip again when it draws on the same device.  *)
AfterFallback(d) == {d, ClippedFor(d, {}, Obj.clip)}

(* ContinueSingleObject for an object that is no image, be it drawn or, if  *)
(* that fails, drawn by DrawObjWithBackground.                             *)
DrawObject ==
  /\ ToDraw /\ ~IsImage /\ Obj.kind # "patternText"
  /\ LET d == ClippedFor(dev, lastClip, Obj.clip)
     IN  out' = Reached(d) /\ dev' \in AfterFallback(d)
  /\ lastClip' = Obj.clip
  /\ AfterObject(TRUE, isMask)
  /\ UNCHANGED <<job, status, layer, current, rect, img, first>>

(* A text filled with a pattern is drawn as a rectangle clipped by the text *)
(* (DrawTextPathWithPattern), in the same render status.  "text" stands for *)
(* that clip.                                                              *)
DrawPatternText ==
  /\ ToDraw /\ Obj.kind = "patternText"
  /\ LET d == ClippedFor(dev, lastClip, Obj.clip)
         c == Obj.clip \cup {"text"}
     IN  /\ dev' = ClippedFor(d, Obj.clip, c)
         /\ out' = Reached(dev')
         /\ lastClip' = c
  /\ AfterObject(TRUE, isMask)
  /\ UNCHANGED <<job, status, layer, current, rect, img, first>>

(* An image is finished: drawn, dropped, or drawn by DrawObjWithBackground. *)
ImageDone(d) ==
  /\ img' = NoImage
  /\ out' = Reached(d)
  /\ dev' \in AfterFallback(d)
  /\ AfterObject(TRUE, MaskNow)

(* ContinueSingleObject starts an image: it has to be loaded first, or is   *)
(* handed to the device (StartRenderDIBBase), which may take it in parts.  *)
StartImage ==
  /\ ToDraw /\ IsImage /\ img = NoImage
  /\ lastClip' = Obj.clip
  /\ LET d == ClippedFor(dev, lastClip, Obj.clip)
     IN  \/ /\ \E m \in {"kDefault", "kBlend", "kTransform"} : img' = Started(m)
            /\ dev' = d
            /\ UNCHANGED <<pc, last, locals, out>>
         \/ ImageDone(d)
  /\ UNCHANGED <<job, status, layer, current, rect, first>>

(* Mutant: a suspended image is started afresh by the next call.           *)
SuspendImageRestarts ==
  /\ ToDraw /\ img # NoImage
  /\ job.pause /\ img.left > 0
  /\ img' = NoImage
  /\ pc' = "back"
  /\ UNCHANGED <<job, status, layer, current, last, rect, locals, lastClip,
                 dev, out, first>>

(* ContinueSingleObject with an image under way: the loader, the device or  *)
(* the transformer asks for another call ...                               *)
SuspendImage ==
  /\ ToDraw /\ img # NoImage
  /\ job.pause /\ img.left > 0
  /\ img' = [img EXCEPT !.left = @ - 1]
  /\ pc' = "back"
  /\ UNCHANGED <<job, status, layer, current, last, rect, locals, lastClip,
                 dev, out, first>>

(* ... the bitmap is loaded and its drawing starts ...                     *)
ImageLoaded ==
  /\ ToDraw /\ img.mode = "kDefault"
  /\ \E m \in {"kBlend", "kTransform"} : img' = Started(m)
  /\ UNCHANGED <<job, pc, status, layer, current, last, rect, locals, lastClip,
                 dev, out, first>>

(* ... or the image is finished.                                           *)
FinishImage ==
  /\ ToDraw /\ img # NoImage
  /\ ImageDone(dev)
  /\ UNCHANGED <<job, status, layer, current, rect, lastClip, first>>

EndOfLayer == pc = "scan" /\ iter > Len(Objs)

(* All objects of the layer are done: on to the next layer.                *)
CloseLayer ==
  /\ EndOfLayer
  /\ Layers(job)[layer].parsed
  /\ current' = FALSE
  /\ lastClip' = {}
  /\ dev' = Restored(dev, FALSE)
  /\ layer' = layer + 1
  /\ \E pause \in BOOLEAN :
       /\ pause => job.pause
       /\ pc' = IF isMask \/ pause THEN "back" ELSE "top"
  /\ UNCHANGED <<job, status, last, rect, locals, img, out, first>>

(* A layer that is not parsed: ContinueParse does nothing, Continue returns. *)
AwaitParse ==
  /\ EndOfLayer
  /\ ~Layers(job)[layer].parsed
  /\ pc' = "back"
  /\ UNCHANGED <<job, status, layer, current, last, rect, locals, lastClip,
                 img, dev, out, first>>

(* Continue returns; in RenderPageImpl need_to_restore is seen to.         *)
Return ==
  /\ pc = "back"
  /\ pc' = "caller"
  /\ dev' = IF first /\ job.restore THEN Restored(dev, FALSE) ELSE dev
  /\ first' = FALSE
  /\ UNCHANGED <<job, status, layer, current, last, rect, locals, lastClip,
                 img, out>>

(* The caller continues.  One that had the device restored does not.       *)
Continue ==
  /\ pc = "caller" /\ ~job.restore
  /\ status = "kToBeContinued"
  /\ pc' = "top"
  /\ UNCHANGED <<job, status, layer, current, last, rect, locals, lastClip,
                 img, dev, out, first>>

(* The caller starts a renderer that has been started: refused.            *)
StartAgain ==
  /\ pc = "caller"
  /\ status' = "kFailed"
  /\ UNCHANGED <<job, pc, layer, current, last, rect, locals, lastClip, img,
                 dev, out, first>>

(* Mutant: the destructor leaves the device alone.                         *)
CloseUnrestored ==
  /\ pc = "caller"
  /\ pc' = "closed"
  /\ current' = FALSE /\ lastClip' = {} /\ img' = NoImage
  /\ UNCHANGED <<job, status, layer, last, rect, locals, dev, out, first>>

(* ~COFD_ProgressiveRenderer.                                              *)
Close ==
  /\ pc = "caller"
  /\ pc' = "closed"
  /\ current' = FALSE
  /\ lastClip' = {}
  /\ img' = NoImage
  /\ dev' = IF current THEN Restored(dev, FALSE) ELSE dev
  /\ UNCHANGED <<job, status, layer, last, rect, locals, out, first>>

Run ==
  \/ NoDriver \/ RenderPage \/ NoMoreLayers \/ OpenLayer \/ ResumeLayer
  \/ SkipObject \/ LeaveMaskToCaller \/ DrawObject \/ DrawPatternText
  \/ StartImage \/ SuspendImage \/ ImageLoaded \/ FinishImage
  \/ CloseLayer \/ AwaitParse \/ Return

Next == Run \/ Continue \/ StartAgain \/ Close

(* A call of the library runs until it returns, and the caller of a paused  *)
(* drawing calls Continue again.                                           *)
Fairness == WF_vars(Run) /\ WF_vars(Continue)

Spec == Init /\ [][Next]_vars
FairSpec == Spec /\ Fairness

-----------------------------------------------------------------------------
(***************************************************************************)
(* Properties                                                              *)
(***************************************************************************)
AllClips == Clips \cup {c \cup {"text"} : c \in Clips}
Position == Nat \X Nat

(* The members of the renderer have their types; nObjsToGo runs from        *)
(* kStepLimit down to 1, so that a pause object is asked in time.          *)
TypeOK ==
  /\ job \in Jobs
  /\ pc \in {"new", "top", "scan", "back", "caller", "closed"}
  /\ status \in {"kReady", "kToBeContinued", "kDone", "kFailed"}
  /\ layer \in Nat \ {0} /\ last \in Nat /\ iter \in Nat \ {0}
  /\ current \in BOOLEAN /\ isMask \in BOOLEAN /\ first \in BOOLEAN
  /\ togo \in 1 .. StepLimit
  /\ rect \in AllClips /\ lastClip \in AllClips
  /\ img \in [mode : {"none", "kDefault", "kBlend", "kTransform"},
              left : 0 .. MaxSuspends]
  /\ dev \in [clip : AllClips, stack : Seq(AllClips)]
  /\ out \in Seq([at : Position, clip : AllClips])

(* Whether an object of the request has to be drawn by the renderer, seen   *)
(* from the request alone.                                                 *)
Wanted(j, o) ==
  /\ o.kind # "null" /\ Base \notin o.misses
  /\ ~(j.breakForMasks /\ j.printer /\ o.kind = "mask")

Wishes(j) ==
  UNION {{l} \X {k \in 1 .. Len(Layers(j)[l].objs) :
                   Wanted(j, Layers(j)[l].objs[k])}
         : l \in 1 .. Len(Layers(j))}

(* The clip an object has to be drawn under: the request's, its own and,   *)
(* for a text filled with a pattern, the text.                             *)
OwnClip(o) ==
  {Base} \cup o.clip \cup (IF o.kind = "patternText" THEN {"text"} ELSE {})

PlanOf(j) == [p \in Wishes(j) |-> OwnClip(Layers(j)[p[1]].objs[p[2]])]

Drawn == {out[k].at : k \in 1 .. Len(out)}

(* While a page is drawn the device's clip is exactly the request's clip    *)
(* and the clip path that m_LastClipPath remembers, at every layer and     *)
(* after every pause, so that no clip leaks from one object to the next.   *)
ClipInSync ==
  pc \in {"top", "scan", "back"} => dev.clip = {Base} \cup lastClip

(* Every object reached the device under its own clip path and the         *)
(* request's, and no other.                                                *)
DrawnUnderOwnClip ==
  \A k \in 1 .. Len(out) :
    out[k].clip = OwnClip(Layers(job)[out[k].at[1]].objs[out[k].at[2]])

(* Saves and restores of the device balance, whether the drawing ends, is   *)
(* refused or is dropped half way: a caller that asked for it gets the     *)
(* device back as it was, the others with the request's clip on it.        *)
DeviceBalanced ==
  pc = "closed" =>
    dev = IF job.restore \/ ~job.driver
          THEN [clip |-> {}, stack |-> <<>>]
          ELSE [clip |-> {Base}, stack |-> <<{}>>]

(* Objects reach the device in order, each once and under its own clip, and *)
(* kDone is said only when all have: the renderer implements PageDrawing,  *)
(* however it is paused and continued.                                     *)
Drawing == INSTANCE PageDrawing WITH
  Plans <- {PlanOf(j) : j \in Jobs},
  plan <- PlanOf(job),
  left <- Wishes(job) \ Drawn,
  state <- CASE pc = "closed" \/ status = "kFailed" -> "gone"
             [] pc # "closed" /\ status = "kDone" -> "done"
             [] OTHER -> "drawing"

ImplementsDrawing == Drawing!Spec

(* A page whose layers are all parsed is finished after finitely many      *)
(* calls of Continue, however often the pause object asks for a pause,     *)
(* unless the drawing is refused or dropped.                               *)
EventuallyDone ==
  (/\ status = "kToBeContinued" /\ ~job.restore
   /\ \A l \in 1 .. Len(Layers(job)) : Layers(job)[l].parsed)
  ~> (status \in {"kDone", "kFailed"} \/ pc = "closed")
=============================================================================
