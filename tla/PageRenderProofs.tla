-------------------------- MODULE PageRenderProofs --------------------------
(***************************************************************************)
(* Proofs about PageRender, for every set of requests, every step limit     *)
(* and every bound on suspensions.                                         *)
(***************************************************************************)
EXTENDS PageRender, SequenceTheorems, TLAPS

(* A request's layers are a sequence of layers, whichever are present.     *)
LEMMA LayersType == ASSUME NEW j \in Jobs PROVE Layers(j) \in Seq(Layer)
<1>1. /\ j.page.bgT \in Seq(Layer) /\ j.page.bg \in Seq(Layer)
      /\ j.page.annots \in Seq(Layer) /\ j.page.bodyT \in Seq(Layer)
      /\ j.page.body \in Layer /\ j.page.fgT \in Seq(Layer)
      /\ j.page.fg \in Seq(Layer) /\ j.page.sigs \in Seq(Layer)
  BY JobsAssumption DEF Job, Page
<1>2. \A a, b \in Seq(Layer) : a \o b \in Seq(Layer)
  OBVIOUS
<1>3. <<j.page.body>> \in Seq(Layer) /\ <<>> \in Seq(Layer)
  BY <1>1
<1>4. (IF j.annot THEN j.page.annots ELSE <<>>) \in Seq(Layer)
  BY <1>1, <1>3
<1> DEFINE a1 == j.page.bgT \o j.page.bg
           a2 == a1 \o (IF j.annot THEN j.page.annots ELSE <<>>)
           a3 == a2 \o j.page.bodyT
           a4 == a3 \o <<j.page.body>>
           a5 == a4 \o j.page.fgT
           a6 == a5 \o j.page.fg
           a7 == a6 \o j.page.sigs
<1>5. a1 \in Seq(Layer)
  BY <1>1, <1>2
<1>6. a2 \in Seq(Layer)
  BY <1>2, <1>4, <1>5
<1>7. a3 \in Seq(Layer)
  BY <1>1, <1>2, <1>6
<1>8. a4 \in Seq(Layer)
  BY <1>2, <1>3, <1>7
<1>9. a5 \in Seq(Layer)
  BY <1>1, <1>2, <1>8
<1>10. a6 \in Seq(Layer)
  BY <1>1, <1>2, <1>9
<1>11. a7 \in Seq(Layer)
  BY <1>1, <1>2, <1>10
<1> QED BY <1>11 DEF Layers

(* The objects of a layer are objects.                                     *)
LEMMA ObjectType ==
  ASSUME NEW j \in Jobs, NEW l \in 1 .. Len(Layers(j))
  PROVE  /\ Layers(j)[l] \in Layer
         /\ Layers(j)[l].objs \in Seq(Object)
         /\ Len(Layers(j)[l].objs) \in Nat
         /\ \A i \in 1 .. Len(Layers(j)[l].objs) :
              Layers(j)[l].objs[i] \in Object
<1>1. Layers(j)[l] \in Layer
  BY LayersType
<1>2. Layers(j)[l].objs \in Seq(Object)
  BY <1>1 DEF Layer
<1> QED BY <1>1, <1>2

LEMMA WishesMembers ==
  ASSUME NEW j \in Jobs
  PROVE  /\ \A l, i : <<l, i>> \in Wishes(j) <=>
                        /\ l \in 1 .. Len(Layers(j))
                        /\ i \in 1 .. Len(Layers(j)[l].objs)
                        /\ Wanted(j, Layers(j)[l].objs[i])
         /\ \A p \in Wishes(j) : p \in Position /\ p = <<p[1], p[2]>>
<1>1. ASSUME NEW l, NEW i
      PROVE  <<l, i>> \in Wishes(j) <=>
                        /\ l \in 1 .. Len(Layers(j))
                        /\ i \in 1 .. Len(Layers(j)[l].objs)
                        /\ Wanted(j, Layers(j)[l].objs[i])
  BY DEF Wishes
<1>2. ASSUME NEW p \in Wishes(j) PROVE p \in Position /\ p = <<p[1], p[2]>>
  <2>1. PICK l \in 1 .. Len(Layers(j)) :
          p \in {l} \X {k \in 1 .. Len(Layers(j)[l].objs) :
                          Wanted(j, Layers(j)[l].objs[k])}
    BY DEF Wishes
  <2>2. l \in Nat
    BY LayersType
  <2>3. Len(Layers(j)[l].objs) \in Nat
    BY ObjectType
  <2> QED BY <2>1, <2>2, <2>3 DEF Position
<1> QED BY <1>1, <1>2

-----------------------------------------------------------------------------
(***************************************************************************)
(* The device.  While a layer is open the stack holds the clip before the   *)
(* request and the request's clip.                                         *)
(***************************************************************************)
Device(c, s) == [clip |-> c, stack |-> s]
Outer == <<{}>>
Inner == <<{}, {Base}>>

(* The tuples behind the two stacks, as sequences.                         *)
LEMMA StackFacts ==
  /\ Len(Inner) = 2 /\ Inner[2] = {Base} /\ Inner # <<>>
  /\ SubSeq(Inner, 1, 1) = Outer
  /\ Len(Outer) = 1 /\ Outer[1] = {} /\ Outer # <<>>
  /\ SubSeq(Outer, 1, 0) = <<>>
<1>1. Len(Inner) = 2 /\ Inner[2] = {Base} /\ Inner[1] = {}
  BY DEF Inner
<1>2. Inner # <<>>
  BY <1>1
<1>3. /\ Len(Outer) = 1 /\ Outer[1] = {} /\ Outer # <<>>
      /\ SubSeq(Outer, 1, 0) = <<>>
  BY DEF Outer
<1> DEFINE t == SubSeq(Inner, 1, 1)
<1>4. Inner \in Seq(SUBSET {Base})
  BY DEF Inner
<1>5. t \in Seq(SUBSET {Base}) /\ Len(t) = 1
  BY <1>1, <1>4, SubSeqProperties
<1>6. t = [i \in 1 .. 1 |-> Inner[i]]
  BY <1>1, <1>4
<1>7. t[1] = {}
  <2>1. t[1] = Inner[1]
    BY <1>6
  <2> QED BY <1>1, <2>1
<1>8. Outer \in Seq(SUBSET {Base})
  BY DEF Outer
<1> HIDE DEF t
<1>9. \A i \in 1 .. Len(t) : t[i] = Outer[i]
  <2>1. Outer[1] = {}
    BY <1>3
  <2>2. \A i \in 1 .. Len(t) : i = 1
    BY <1>5
  <2> QED BY <1>7, <2>1, <2>2, Zenon
<1>10. t = Outer
  BY <1>3, <1>5, <1>8, <1>9, SeqEqual
<1> QED BY <1>1, <1>2, <1>3, <1>10 DEF t

LEMMA DeviceSteps ==
  /\ Clipped(Saved(Device({}, <<>>)), {Base}) = Device({Base}, Outer)
  /\ Saved(Device({Base}, Outer)) = Device({Base}, Inner)
  /\ \A c : Restored(Device(c, Inner), FALSE) = Device({Base}, Outer)
  /\ \A c : Restored(Device(c, Inner), TRUE) = Device({Base}, Inner)
  /\ \A c : Restored(Device(c, Outer), FALSE) = Device({}, <<>>)
<1>1. ASSUME NEW c, NEW s PROVE Device(c, s).stack = s /\ Device(c, s).clip = c
  BY DEF Device
<1>2. ASSUME NEW c, NEW s, s # <<>>
      PROVE  /\ Restored(Device(c, s), TRUE) = Device(s[Len(s)], s)
             /\ Restored(Device(c, s), FALSE)
                  = Device(s[Len(s)], SubSeq(s, 1, Len(s) - 1))
  BY <1>1, <1>2 DEF Restored, Device
<1>3. ASSUME NEW c, NEW s PROVE Saved(Device(c, s)) = Device(c, Append(s, c))
  BY DEF Saved, Device
<1>4. Append(<<>>, {}) = Outer
  BY DEF Outer
<1>8. Append(Outer, {Base}) = Inner
  <2> DEFINE t == Append(Outer, {Base})
  <2>1. Outer \in Seq(SUBSET {Base}) /\ Inner \in Seq(SUBSET {Base})
    BY DEF Outer, Inner
  <2>2. t \in Seq(SUBSET {Base}) /\ Len(t) = Len(Outer) + 1
    BY <2>1, AppendProperties
  <2>3. Len(Outer) = 1 /\ Len(Inner) = 2 /\ Inner[1] = {} /\ Inner[2] = {Base}
    BY DEF Outer, Inner
  <2>4. t[1] = Outer[1] /\ t[Len(Outer) + 1] = {Base}
    <3>1. /\ \A i \in 1 .. Len(Outer) : t[i] = Outer[i]
          /\ t[Len(Outer) + 1] = {Base}
      <4>1. {Base} \in SUBSET {Base}
        OBVIOUS
      <4> QED BY <2>1, <4>1, AppendProperties DEF t
    <3>2. 1 \in 1 .. Len(Outer)
      BY <2>3
    <3> QED BY <3>1, <3>2, Zenon
  <2>5. t[1] = {} /\ t[2] = {Base}
    <3>1. Outer[1] = {} /\ Len(Outer) + 1 = 2
      BY DEF Outer
    <3> QED BY <2>4, <3>1
  <2>6. Len(t) = 2
    BY <2>2, <2>3
  <2> HIDE DEF t
  <2>7. \A i \in 1 .. Len(t) : i = 1 \/ i = 2
    BY <2>6
  <2>8. \A i \in 1 .. Len(t) : t[i] = Inner[i]
    BY <2>3, <2>5, <2>7, Zenon
  <2>9. t = Inner
    BY <2>1, <2>2, <2>3, <2>6, <2>8, SeqEqual
  <2> QED BY <2>9 DEF t
<1>5. Clipped(Device({}, Outer), {Base}) = Device({Base}, Outer)
  BY DEF Clipped, Device, Outer
<1>6. Len(Inner) - 1 = 1 /\ Len(Outer) - 1 = 0
  BY StackFacts
<1>7. ASSUME NEW c
      PROVE  /\ Restored(Device(c, Inner), FALSE) = Device({Base}, Outer)
             /\ Restored(Device(c, Inner), TRUE) = Device({Base}, Inner)
             /\ Restored(Device(c, Outer), FALSE) = Device({}, <<>>)
  <2>1. Restored(Device(c, Inner), FALSE) = Device({Base}, Outer)
    BY <1>2, <1>6, StackFacts
  <2>2. Restored(Device(c, Inner), TRUE) = Device({Base}, Inner)
    BY <1>2, StackFacts
  <2>3. Restored(Device(c, Outer), FALSE) = Device({}, <<>>)
    <3>1. /\ Outer # <<>> /\ Outer[Len(Outer)] = {}
          /\ SubSeq(Outer, 1, Len(Outer) - 1) = <<>>
      BY <1>6, StackFacts
    <3> QED BY <1>2, <3>1, Zenon
  <2> QED BY <2>1, <2>2, <2>3
<1> QED BY <1>3, <1>4, <1>5, <1>7, <1>8

(* ProcessClipPath leaves exactly the new clip path on the request's clip.  *)
LEMMA ProcessClipPath ==
  ASSUME NEW lc, NEW c
  PROVE  ClippedFor(Device({Base} \cup lc, Inner), lc, c)
           = Device({Base} \cup c, Inner)
<1> DEFINE d == Device({Base} \cup lc, Inner)
<1>1. Restored(d, TRUE) = Device({Base}, Inner)
  BY DeviceSteps
<1>2. Clipped(Device({Base}, Inner), c) = Device({Base} \cup c, Inner)
  BY DEF Clipped, Device
<1>3. CASE c = {} /\ lc = {}
  BY <1>3 DEF ClippedFor
<1>4. CASE c = {} /\ lc # {}
  <2>1. {Base} \cup c = {Base}
    BY <1>4
  <2> QED BY <1>1, <1>4, <2>1 DEF ClippedFor
<1>5. CASE c # {} /\ c = lc
  BY <1>5 DEF ClippedFor
<1>6. CASE c # {} /\ c # lc
  BY <1>1, <1>2, <1>6 DEF ClippedFor
<1> QED BY <1>3, <1>4, <1>5, <1>6

(* The fallback's own render status sets the same clip again.              *)
LEMMA FallbackClip ==
  ASSUME NEW c
  PROVE  ClippedFor(Device({Base} \cup c, Inner), {}, c)
           = Device({Base} \cup c, Inner)
<1> DEFINE d == Device({Base} \cup c, Inner)
<1>1. Restored(d, TRUE) = Device({Base}, Inner)
  BY DeviceSteps
<1>2. Clipped(Device({Base}, Inner), c) = d
  BY DEF Clipped, Device
<1>3. CASE c = {}
  BY <1>3 DEF ClippedFor
<1>4. CASE c # {}
  BY <1>1, <1>2, <1>4 DEF ClippedFor
<1> QED BY <1>3, <1>4

-----------------------------------------------------------------------------
(***************************************************************************)
(* The inductive invariant.                                                *)
(***************************************************************************)
(* Where the renderer is: an open layer is one of the request's, the next   *)
(* object is the one after the last, and a suspended image is that object. *)
CursorInv ==
  /\ current => /\ layer <= Len(Layers(job)) /\ rect = {Base}
                /\ last <= Len(Objs)
  /\ pc = "scan" => current /\ iter = last + 1
  /\ ~current => lastClip = {} /\ img = NoImage
  /\ img # NoImage => /\ last + 1 <= Len(Objs)
                      /\ lastClip = Objs[last + 1].clip
                      /\ Objs[last + 1].kind \in {"image", "mask"}
                      /\ Wanted(job, Objs[last + 1])
  /\ pc \in {"top", "scan"} => status = "kToBeContinued"
  /\ pc = "new" => ~current /\ first /\ status = "kReady"
  /\ pc = "caller" => ~first
  /\ pc \in {"top", "scan", "back"} /\ ~first => ~job.restore
  /\ pc \in {"top", "scan", "back", "caller"} => job.driver

(* The device: what is saved, and that its clip is the remembered one.     *)
DeviceInv ==
  /\ pc = "new" => dev = Device({}, <<>>)
  /\ pc \in {"top", "scan", "back"} \/ (pc = "caller" /\ ~job.restore) =>
       dev = Device({Base} \cup lastClip, IF current THEN Inner ELSE Outer)
  /\ pc = "caller" /\ job.restore =>
       dev = IF current THEN Device({Base}, Outer) ELSE Device({}, <<>>)
  /\ DeviceBalanced

(* What has been drawn: everything wanted up to the cursor, as wanted.     *)
Done(p) == p[1] < layer \/ (p[1] = layer /\ current /\ p[2] <= last)
OutInv ==
  /\ \A k \in 1 .. Len(out) : /\ out[k].at \in Wishes(job)
                              /\ out[k].clip = PlanOf(job)[out[k].at]
  /\ pc # "closed" => Drawn = {p \in Wishes(job) : Done(p)}

RenderInv == TypeOK /\ CursorInv /\ DeviceInv /\ OutInv

-----------------------------------------------------------------------------
(***************************************************************************)
(* Facts about states that satisfy the invariant.                          *)
(***************************************************************************)
ClipState == [clip : AllClips, stack : Seq(AllClips)]

LEMMA ClipTypes ==
  /\ {} \in AllClips /\ {Base} \in AllClips
  /\ \A c \in AllClips : {Base} \cup c \in AllClips
  /\ \A c \in AllClips : c \cup {"text"} \in AllClips
  /\ \A c \in SUBSET ClipNames : c \in AllClips
<1>1. \A c \in Clips : c \in AllClips /\ c \cup {"text"} \in AllClips
  BY DEF AllClips
<1>2. {} \in Clips /\ {Base} \in Clips
  BY DEF Clips
<1>3. ASSUME NEW c \in AllClips
      PROVE  {Base} \cup c \in AllClips /\ c \cup {"text"} \in AllClips
  <2>1. CASE c \in Clips
    <3>1. {Base} \cup c \in Clips
      BY <2>1 DEF Clips
    <3> QED BY <1>1, <2>1, <3>1
  <2>2. CASE c \notin Clips
    <3>1. PICK b \in Clips : c = b \cup {"text"}
      BY <2>2 DEF AllClips
    <3>2. {Base} \cup b \in Clips
      BY DEF Clips
    <3>3. {Base} \cup c = ({Base} \cup b) \cup {"text"} /\ c \cup {"text"} = c
      BY <3>1
    <3> QED BY <1>1, <3>2, <3>3
  <2> QED BY <2>1, <2>2
<1>4. \A c \in SUBSET ClipNames : c \in Clips
  BY DEF Clips
<1> QED BY <1>1, <1>2, <1>3, <1>4

LEMMA DeviceType ==
  /\ Device({}, <<>>) \in ClipState
  /\ \A c \in AllClips : /\ Device({Base} \cup c, Inner) \in ClipState
                        /\ Device({Base} \cup c, Outer) \in ClipState
  /\ Device({Base}, Inner) \in ClipState
  /\ Device({Base}, Outer) \in ClipState
<1>1. <<>> \in Seq(AllClips)
  OBVIOUS
<1>2. Outer \in Seq(AllClips) /\ Inner \in Seq(AllClips)
  BY ClipTypes DEF Outer, Inner
<1>3. ASSUME NEW c \in AllClips, NEW s \in Seq(AllClips)
      PROVE  Device(c, s) \in ClipState
  BY DEF Device, ClipState
<1> QED BY <1>1, <1>2, <1>3, ClipTypes

(* While a layer is scanned, the next object is one of the request's, and   *)
(* its position is wanted exactly if the loop does not pass it over.       *)
LEMMA AtCursor ==
  ASSUME RenderInv, pc = "scan", iter <= Len(Objs)
  PROVE  /\ job \in Jobs /\ layer \in 1 .. Len(Layers(job))
         /\ iter \in 1 .. Len(Objs) /\ Len(Objs) \in Nat /\ iter = last + 1
         /\ Obj \in Object
         /\ Here \in Position
         /\ Here \in Wishes(job) <=> Wanted(job, Obj)
         /\ ToDraw <=> Wanted(job, Obj)
         /\ dev = Device({Base} \cup lastClip, Inner)
         /\ current
<1>1. /\ job \in Jobs /\ current /\ layer \in Nat \ {0} /\ iter \in Nat \ {0}
      /\ iter = last + 1 /\ layer <= Len(Layers(job)) /\ rect = {Base}
  BY DEF RenderInv, TypeOK, CursorInv
<1>2. Len(Layers(job)) \in Nat
  BY <1>1, LayersType
<1>3. layer \in 1 .. Len(Layers(job))
  BY <1>1, <1>2
<1>4. Len(Objs) \in Nat /\ \A i \in 1 .. Len(Objs) : Objs[i] \in Object
  BY <1>1, <1>3, ObjectType DEF Objs
<1>5. iter \in 1 .. Len(Objs)
  BY <1>1, <1>4
<1>6. Obj \in Object
  BY <1>4, <1>5 DEF Obj
<1>7. Here \in Wishes(job) <=> Wanted(job, Obj)
  BY <1>1, <1>3, <1>5, WishesMembers DEF Here, Obj, Objs
<1>8. ToDraw <=> Wanted(job, Obj)
  BY <1>1 DEF ToDraw, AtObject, Hit, BreaksHere, Wanted
<1>9. Here \in Position
  BY <1>1 DEF Here, Position
<1>10. dev = Device({Base} \cup lastClip, Inner)
  BY <1>1 DEF RenderInv, DeviceInv
<1> QED BY <1>1, <1>3, <1>4, <1>5, <1>6, <1>7, <1>8, <1>9, <1>10

(* The sequence of drawn objects after one more.                           *)
LEMMA OneMore ==
  ASSUME NEW S, NEW s \in Seq(S), NEW e \in S
  PROVE  /\ Append(s, e) \in Seq(S)
         /\ Len(Append(s, e)) = Len(s) + 1 /\ Len(s) \in Nat
         /\ \A k \in 1 .. Len(s) : Append(s, e)[k] = s[k]
         /\ Append(s, e)[Len(s) + 1] = e
  BY AppendProperties, LenProperties

Entry == [at : Position, clip : AllClips]

LEMMA DrawnAfter ==
  ASSUME RenderInv, NEW p \in Wishes(job), job' = job,
         out' = Append(out, [at |-> p, clip |-> PlanOf(job)[p]])
  PROVE  /\ out' \in Seq(Entry)
         /\ Drawn' = Drawn \cup {p}
         /\ \A k \in 1 .. Len(out') : /\ out'[k].at \in Wishes(job)
                                     /\ out'[k].clip = PlanOf(job)[out'[k].at]
<1> DEFINE e == [at |-> p, clip |-> PlanOf(job)[p]]
<1>1. out \in Seq(Entry) /\ job \in Jobs
  BY DEF RenderInv, TypeOK, Entry
<1>2. p \in Position /\ p = <<p[1], p[2]>>
  BY <1>1, WishesMembers
<1>3. PlanOf(job)[p] \in AllClips
  <2>1. PICK l, i : p = <<l, i>>
    BY <1>2
  <2>2. l \in 1 .. Len(Layers(job)) /\ i \in 1 .. Len(Layers(job)[l].objs)
    BY <1>1, <2>1, WishesMembers
  <2>3. Layers(job)[l].objs[i].clip \in SUBSET ClipNames
    BY <1>1, <2>2, ObjectType DEF Object
  <2>4. PlanOf(job)[p] = OwnClip(Layers(job)[l].objs[i])
    BY <2>1 DEF PlanOf
  <2>5. {Base} \cup Layers(job)[l].objs[i].clip \in AllClips
    BY <2>3, ClipTypes
  <2>6. CASE Layers(job)[l].objs[i].kind = "patternText"
    BY <2>4, <2>5, <2>6, ClipTypes DEF OwnClip
  <2>7. CASE Layers(job)[l].objs[i].kind # "patternText"
    <3>1. OwnClip(Layers(job)[l].objs[i]) = {Base} \cup Layers(job)[l].objs[i].clip
      BY <2>7 DEF OwnClip
    <3> QED BY <2>4, <2>5, <3>1
  <2> QED BY <2>6, <2>7
<1>4. e \in Entry
  BY <1>2, <1>3 DEF Entry
<1>5. /\ out' \in Seq(Entry) /\ Len(out') = Len(out) + 1 /\ Len(out) \in Nat
      /\ \A k \in 1 .. Len(out) : out'[k] = out[k]
      /\ out'[Len(out) + 1] = e
  BY <1>1, <1>4, OneMore
<1>6. \A k \in 1 .. Len(out') : k \in 1 .. Len(out) \/ k = Len(out) + 1
  BY <1>5
<1>7. e.at = p /\ e.clip = PlanOf(job)[p]
  OBVIOUS
<1> HIDE DEF e
<1>8. \A k \in 1 .. Len(out') : /\ out'[k].at \in Wishes(job)
                              /\ out'[k].clip = PlanOf(job)[out'[k].at]
  BY <1>5, <1>6, <1>7 DEF RenderInv, OutInv
<1>9. Drawn' = Drawn \cup {p}
  <2>1. \A k \in 1 .. Len(out) : k \in 1 .. Len(out')
    BY <1>5
  <2>2. Len(out) + 1 \in 1 .. Len(out')
    BY <1>5
  <2> QED BY <1>5, <1>6, <1>7, <2>1, <2>2 DEF Drawn
<1> QED BY <1>5, <1>8, <1>9

(* Passing one object of the open layer, drawn or not, keeps the invariant. *)
LEMMA Advance ==
  ASSUME RenderInv, pc = "scan", iter <= Len(Objs),
         UNCHANGED <<job, status, layer, current, rect, first>>,
         last' = iter, img' = NoImage,
         pc' \in {"scan", "back"}, pc' = "scan" => iter' = iter + 1,
         iter' \in Nat \ {0}, togo' \in 1 .. StepLimit, isMask' \in BOOLEAN,
         lastClip' \in AllClips,
         dev' = Device({Base} \cup lastClip', Inner),
         \/ ~Wanted(job, Obj) /\ out' = out
         \/ /\ Wanted(job, Obj)
            /\ out' = Append(out, [at |-> Here, clip |-> OwnClip(Obj)])
  PROVE  RenderInv'
<1>1. /\ job \in Jobs /\ layer \in 1 .. Len(Layers(job))
      /\ iter \in 1 .. Len(Objs) /\ Len(Objs) \in Nat /\ iter = last + 1
      /\ Obj \in Object
      /\ Here \in Position
      /\ Here \in Wishes(job) <=> Wanted(job, Obj)
      /\ current
  BY AtCursor
<1>2. Objs' = Objs
  BY DEF Objs
<1>3. CursorInv'
  <2>1. status = "kToBeContinued"
    BY DEF RenderInv, CursorInv
  <2>2. current' /\ rect' = {Base} /\ layer' <= Len(Layers(job'))
    BY <1>1 DEF RenderInv, CursorInv
  <2>3. last' <= Len(Objs')
    BY <1>1, <1>2
  <2>4. job.driver /\ (~first => ~job.restore)
    BY DEF RenderInv, CursorInv
  <2> QED BY <2>1, <2>2, <2>3, <2>4 DEF CursorInv
<1>4. DeviceInv'
  BY <1>1 DEF DeviceInv, DeviceBalanced
<1>5. PlanOf(job)[Here] = OwnClip(Obj) \/ Here \notin Wishes(job)
  BY DEF PlanOf, Here, Obj, Objs
<1>6. \A p \in Wishes(job) : Done(p)' <=> Done(p) \/ p = Here
  <2> SUFFICES ASSUME NEW p \in Wishes(job)
               PROVE  Done(p)' <=> Done(p) \/ p = Here
    OBVIOUS
  <2>1. p \in Position /\ p = <<p[1], p[2]>>
    BY <1>1, WishesMembers
  <2>2. p = Here <=> p[1] = layer /\ p[2] = iter
    BY <2>1 DEF Here
  <2>3. p[2] <= iter <=> p[2] <= last \/ p[2] = iter
    BY <1>1, <2>1 DEF RenderInv, TypeOK, Position
  <2> QED BY <1>1, <2>2, <2>3 DEF Done
<1>7. OutInv' /\ out' \in Seq(Entry)
  <2>1. CASE ~Wanted(job, Obj) /\ out' = out
    <3>1. Drawn' = Drawn /\ out \in Seq(Entry)
      BY <2>1 DEF Drawn, RenderInv, TypeOK, Entry
    <3>2. Drawn = {p \in Wishes(job) : Done(p)}
      BY DEF RenderInv, OutInv
    <3>3. \A p \in Wishes(job) : Done(p)' <=> Done(p)
      BY <1>1, <1>6, <2>1
    <3>4. Drawn' = {p \in Wishes(job) : Done(p)'}
      BY <3>1, <3>2, <3>3
    <3> QED BY <2>1, <3>1, <3>4 DEF OutInv, RenderInv
  <2>2. CASE /\ Wanted(job, Obj)
             /\ out' = Append(out, [at |-> Here, clip |-> OwnClip(Obj)])
    <3>1. Here \in Wishes(job) /\ PlanOf(job)[Here] = OwnClip(Obj)
      BY <1>1, <1>5, <2>2
    <3>2. /\ out' \in Seq(Entry)
          /\ Drawn' = Drawn \cup {Here}
          /\ \A k \in 1 .. Len(out') : /\ out'[k].at \in Wishes(job)
                                      /\ out'[k].clip = PlanOf(job)[out'[k].at]
      BY <2>2, <3>1, DrawnAfter
    <3>3. Drawn = {p \in Wishes(job) : Done(p)}
      BY DEF RenderInv, OutInv
    <3>4. Drawn' = {p \in Wishes(job) : Done(p)'}
      BY <1>6, <3>1, <3>2, <3>3
    <3> QED BY <3>2, <3>4 DEF OutInv
  <2> QED BY <2>1, <2>2
<1>8. dev' \in ClipState
  BY DeviceType
<1>9. img' \in [mode : {"none", "kDefault", "kBlend", "kTransform"},
                left : 0 .. MaxSuspends]
  BY ParametersAssumption DEF NoImage
<1>10. TypeOK'
  <2>1. /\ job' \in Jobs /\ status' \in {"kReady", "kToBeContinued", "kDone", "kFailed"}
        /\ layer' \in Nat \ {0} /\ last' \in Nat /\ current' \in BOOLEAN
        /\ first' \in BOOLEAN /\ rect' \in AllClips
    BY DEF RenderInv, TypeOK
  <2> QED BY <1>7, <1>8, <1>9, <2>1 DEF TypeOK, Entry, ClipState
<1> QED BY <1>3, <1>4, <1>7, <1>10 DEF RenderInv

(* What the loop does after an object, as far as Advance needs it.         *)
LEMMA LoopTail ==
  ASSUME RenderInv, pc = "scan", iter <= Len(Objs), NEW hit \in BOOLEAN,
         NEW mask \in BOOLEAN, AfterObject(hit, mask)
  PROVE  /\ last' = iter /\ iter' = iter + 1 /\ iter' \in Nat \ {0}
         /\ togo' \in 1 .. StepLimit /\ isMask' \in BOOLEAN
         /\ pc' \in {"scan", "back"}
<1>1. /\ StepLimit \in Nat \ {0} /\ togo \in 1 .. StepLimit
      /\ iter \in Nat \ {0}
  BY ParametersAssumption DEF RenderInv, TypeOK
<1> QED BY <1>1 DEF AfterObject

(* What a step within a layer adds to the drawing: nothing, or the wanted   *)
(* object under the cursor.                                                *)
DrawsAtMostHere ==
  \/ out' = out
  \/ /\ Wanted(job, Obj) /\ pc = "scan" /\ iter <= Len(Objs)
     /\ out' = Append(out, [at |-> Here, clip |-> OwnClip(Obj)])

(* The object actions are instances of Advance.                            *)
LEMMA ObjectActions ==
  ASSUME RenderInv,
         SkipObject \/ LeaveMaskToCaller \/ DrawObject \/ DrawPatternText
         \/ FinishImage
  PROVE  RenderInv' /\ DrawsAtMostHere
<1>1. pc = "scan" /\ iter <= Len(Objs)
  BY DEF SkipObject, LeaveMaskToCaller, DrawObject, DrawPatternText,
         FinishImage, ToDraw, AtObject
<1>2. /\ Obj \in Object /\ current /\ iter = last + 1
      /\ ToDraw <=> Wanted(job, Obj)
      /\ dev = Device({Base} \cup lastClip, Inner)
  BY <1>1, AtCursor
<1>3. img # NoImage => /\ IsImage /\ lastClip = Obj.clip /\ Wanted(job, Obj)
  BY <1>2 DEF RenderInv, CursorInv, IsImage, Obj
<1>4. Obj.clip \in AllClips /\ Obj.clip \cup {"text"} \in AllClips
  BY <1>2, ClipTypes DEF Object
<1>5. isMask \in BOOLEAN /\ MaskNow \in BOOLEAN /\ lastClip \in AllClips
      /\ iter \in Nat \ {0} /\ togo \in 1 .. StepLimit
  BY DEF RenderInv, TypeOK, MaskNow, BreaksHere
<1>6. CASE SkipObject
  <2>1. ~ToDraw
    BY <1>6 DEF SkipObject, ToDraw
  <2>2. img = NoImage
    BY <1>2, <1>3, <2>1
  <2>3. AfterObject(FALSE, isMask)
    BY <1>6 DEF SkipObject
  <2>4. /\ last' = iter /\ iter' = iter + 1 /\ iter' \in Nat \ {0}
        /\ togo' \in 1 .. StepLimit /\ isMask' \in BOOLEAN
        /\ pc' \in {"scan", "back"}
    BY <1>1, <1>5, <2>3, LoopTail
  <2>5. UNCHANGED <<job, status, layer, current, rect, lastClip, img, dev, out,
                    first>>
    BY <1>6 DEF SkipObject
  <2> QED BY <1>1, <1>2, <1>5, <2>1, <2>2, <2>4, <2>5, Advance DEF DrawsAtMostHere
<1>7. CASE LeaveMaskToCaller
  <2>1. ~ToDraw
    BY <1>7 DEF LeaveMaskToCaller, ToDraw
  <2>2. img = NoImage
    BY <1>2, <1>3, <2>1
  <2>3. dev' = Device({Base} \cup lastClip', Inner) /\ lastClip' = Obj.clip
    BY <1>2, <1>7, ProcessClipPath DEF LeaveMaskToCaller
  <2>4. /\ last' = iter /\ pc' = "back"
        /\ UNCHANGED <<job, status, layer, current, rect, iter, togo, isMask,
                       img, out, first>>
    BY <1>7 DEF LeaveMaskToCaller, locals
  <2> QED BY <1>1, <1>2, <1>4, <1>5, <2>1, <2>2, <2>3, <2>4, Advance DEF DrawsAtMostHere
<1>8. CASE DrawObject
  <2> DEFINE d == ClippedFor(dev, lastClip, Obj.clip)
  <2>1. d = Device({Base} \cup Obj.clip, Inner)
    BY <1>2, ProcessClipPath
  <2>2. /\ ToDraw /\ ~IsImage /\ Obj.kind # "patternText"
        /\ out' = Reached(d) /\ dev' \in AfterFallback(d)
        /\ lastClip' = Obj.clip /\ AfterObject(TRUE, isMask)
        /\ UNCHANGED <<job, status, layer, current, rect, img, first>>
    BY <1>8 DEF DrawObject
  <2> HIDE DEF d
  <2>3. dev' = Device({Base} \cup lastClip', Inner)
    BY <2>1, <2>2, FallbackClip DEF AfterFallback
  <2>4. d.clip = OwnClip(Obj)
    BY <2>1, <2>2 DEF Device, OwnClip
  <2>5. out' = Append(out, [at |-> Here, clip |-> OwnClip(Obj)])
    BY <2>2, <2>4 DEF Reached
  <2>6. /\ last' = iter /\ iter' = iter + 1 /\ iter' \in Nat \ {0}
        /\ togo' \in 1 .. StepLimit /\ isMask' \in BOOLEAN
        /\ pc' \in {"scan", "back"}
    BY <1>1, <1>5, <2>2, LoopTail
  <2>7. img' = NoImage
    BY <1>3, <2>2
  <2> QED BY <1>1, <1>2, <1>4, <2>2, <2>3, <2>5, <2>6, <2>7, Advance DEF DrawsAtMostHere
<1>9. CASE DrawPatternText
  <2> DEFINE d == ClippedFor(dev, lastClip, Obj.clip)
             c == Obj.clip \cup {"text"}
  <2>1. d = Device({Base} \cup Obj.clip, Inner)
    BY <1>2, ProcessClipPath
  <2>2. /\ ToDraw /\ Obj.kind = "patternText"
        /\ dev' = ClippedFor(d, Obj.clip, c)
        /\ out' = Append(out, [at |-> Here, clip |-> dev'.clip])
        /\ lastClip' = c /\ AfterObject(TRUE, isMask)
        /\ UNCHANGED <<job, status, layer, current, rect, img, first>>
    BY <1>9 DEF DrawPatternText, Reached
  <2> HIDE DEF d
  <2>3. dev' = Device({Base} \cup c, Inner)
    BY <2>1, <2>2, ProcessClipPath
  <2>4. dev'.clip = OwnClip(Obj)
    <3>1. dev'.clip = {Base} \cup c
      BY <2>3 DEF Device
    <3>2. OwnClip(Obj) = {Base} \cup Obj.clip \cup {"text"}
      BY <2>2 DEF OwnClip
    <3> QED BY <3>1, <3>2
  <2>5. out' = Append(out, [at |-> Here, clip |-> OwnClip(Obj)])
    BY <2>2, <2>4
  <2>6. /\ last' = iter /\ iter' = iter + 1 /\ iter' \in Nat \ {0}
        /\ togo' \in 1 .. StepLimit /\ isMask' \in BOOLEAN
        /\ pc' \in {"scan", "back"}
    BY <1>1, <1>5, <2>2, LoopTail
  <2>7. img' = NoImage
    BY <1>3, <2>2 DEF IsImage
  <2> QED BY <1>1, <1>2, <1>4, <2>2, <2>3, <2>5, <2>6, <2>7, Advance DEF DrawsAtMostHere
<1>10. CASE FinishImage
  <2>1. /\ ToDraw /\ img # NoImage
        /\ img' = NoImage /\ out' = Reached(dev) /\ dev' \in AfterFallback(dev)
        /\ AfterObject(TRUE, MaskNow)
        /\ UNCHANGED <<job, status, layer, current, rect, lastClip, first>>
    BY <1>10 DEF FinishImage, ImageDone
  <2>2. lastClip = Obj.clip /\ IsImage
    BY <1>3, <2>1
  <2>3. dev' = Device({Base} \cup lastClip', Inner)
    BY <1>2, <2>1, <2>2, FallbackClip DEF AfterFallback
  <2>4. dev.clip = OwnClip(Obj)
    BY <1>2, <2>2 DEF Device, OwnClip, IsImage
  <2>5. out' = Append(out, [at |-> Here, clip |-> OwnClip(Obj)])
    BY <2>1, <2>4 DEF Reached
  <2>6. /\ last' = iter /\ iter' = iter + 1 /\ iter' \in Nat \ {0}
        /\ togo' \in 1 .. StepLimit /\ isMask' \in BOOLEAN
        /\ pc' \in {"scan", "back"}
    BY <1>1, <1>5, <2>1, LoopTail
  <2> QED BY <1>1, <1>2, <1>5, <2>1, <2>3, <2>5, <2>6, Advance DEF DrawsAtMostHere
<1> QED BY <1>6, <1>7, <1>8, <1>9, <1>10

(* A step that draws nothing keeps OutInv if it passes no wanted object.   *)
LEMMA NothingDrawn ==
  ASSUME RenderInv, UNCHANGED <<job, out>>,
         pc' = "closed" \/ (/\ pc # "closed"
                           /\ \A p \in Wishes(job) : Done(p)' <=> Done(p))
  PROVE  OutInv' /\ out' \in Seq(Entry)
<1>1. out \in Seq(Entry)
  BY DEF RenderInv, TypeOK, Entry
<1>2. \A k \in 1 .. Len(out') : /\ out'[k].at \in Wishes(job')
                               /\ out'[k].clip = PlanOf(job')[out'[k].at]
  BY DEF RenderInv, OutInv
<1>3. pc' # "closed" => Drawn' = {p \in Wishes(job') : Done(p)'}
  <2> HAVE pc' # "closed"
  <2>1. Drawn' = Drawn /\ Wishes(job') = Wishes(job)
    BY DEF Drawn
  <2>2. Drawn = {p \in Wishes(job) : Done(p)}
    BY DEF RenderInv, OutInv
  <2> QED BY <2>1, <2>2
<1> QED BY <1>1, <1>2, <1>3 DEF OutInv

(* Starting an image: it becomes the suspended one, or is done at once.    *)
LEMMA StartImageStep ==
  ASSUME RenderInv, StartImage PROVE RenderInv' /\ DrawsAtMostHere
<1> DEFINE d == ClippedFor(dev, lastClip, Obj.clip)
<1>1. pc = "scan" /\ iter <= Len(Objs)
  BY DEF StartImage, ToDraw, AtObject
<1>2. /\ Obj \in Object /\ current /\ iter = last + 1
      /\ Wanted(job, Obj)
      /\ dev = Device({Base} \cup lastClip, Inner)
      /\ IsImage /\ Len(Objs) \in Nat
  BY <1>1, AtCursor DEF StartImage
<1>3. d = Device({Base} \cup Obj.clip, Inner)
  BY <1>2, ProcessClipPath
<1>4. Obj.clip \in AllClips
  BY <1>2, ClipTypes DEF Object
<1>5. lastClip' = Obj.clip /\ UNCHANGED <<job, status, layer, current, rect, first>>
  BY DEF StartImage
<1>6. CASE /\ \E m \in {"kDefault", "kBlend", "kTransform"} : img' = Started(m)
           /\ dev' = d
           /\ UNCHANGED <<pc, last, locals, out>>
  <2> HIDE DEF d
  <2>1. UNCHANGED <<pc, last, iter, togo, isMask, out>>
    BY <1>6 DEF locals
  <2>2. \A p \in Wishes(job) : Done(p)' <=> Done(p)
    BY <1>5, <2>1 DEF Done
  <2>3. OutInv' /\ out' \in Seq(Entry)
    BY <1>1, <1>5, <2>1, <2>2, NothingDrawn
  <2>4. dev' = Device({Base} \cup lastClip', Inner)
    BY <1>3, <1>5, <1>6
  <2>5. DeviceInv'
    BY <1>1, <1>2, <1>5, <2>1, <2>4 DEF DeviceInv, DeviceBalanced
  <2>6. CursorInv'
    <3>1. Objs' = Objs
      BY <1>5 DEF Objs
    <3>2. /\ last + 1 <= Len(Objs) /\ Objs[last + 1].clip = lastClip'
          /\ Objs[last + 1].kind \in {"image", "mask"}
          /\ Wanted(job, Objs[last + 1])
      BY <1>1, <1>2, <1>5 DEF Obj, IsImage
    <3> QED BY <1>1, <1>2, <1>5, <2>1, <3>1, <3>2 DEF RenderInv, CursorInv
  <2>7. dev' \in ClipState
    BY <1>4, <1>5, <2>4, DeviceType
  <2>8. img' \in [mode : {"none", "kDefault", "kBlend", "kTransform"},
                  left : 0 .. MaxSuspends]
    BY <1>6, ParametersAssumption DEF Started
  <2>9. TypeOK'
    BY <1>4, <1>5, <2>1, <2>3, <2>7, <2>8
       DEF RenderInv, TypeOK, Entry, ClipState
  <2> QED BY <2>1, <2>3, <2>5, <2>6, <2>9 DEF RenderInv, DrawsAtMostHere
<1>7. CASE ImageDone(d)
  <2> HIDE DEF d
  <2>1. /\ img' = NoImage /\ out' = Reached(d) /\ dev' \in AfterFallback(d)
        /\ AfterObject(TRUE, MaskNow)
    BY <1>7 DEF ImageDone
  <2>2. MaskNow \in BOOLEAN
    BY DEF RenderInv, TypeOK, MaskNow, BreaksHere
  <2>3. dev' = Device({Base} \cup lastClip', Inner)
    BY <1>3, <1>5, <2>1, FallbackClip DEF AfterFallback
  <2>4. d.clip = OwnClip(Obj)
    BY <1>2, <1>3 DEF Device, OwnClip, IsImage
  <2>5. out' = Append(out, [at |-> Here, clip |-> OwnClip(Obj)])
    BY <2>1, <2>4 DEF Reached
  <2>6. /\ last' = iter /\ iter' = iter + 1 /\ iter' \in Nat \ {0}
        /\ togo' \in 1 .. StepLimit /\ isMask' \in BOOLEAN
        /\ pc' \in {"scan", "back"}
    BY <1>1, <2>1, <2>2, LoopTail
  <2> QED BY <1>1, <1>2, <1>4, <1>5, <2>1, <2>3, <2>5, <2>6, Advance DEF DrawsAtMostHere
<1> QED BY <1>6, <1>7 DEF StartImage

(* Closing a layer: the cursor is behind its last object.                  *)
LEMMA CloseLayerStep == ASSUME RenderInv, CloseLayer PROVE RenderInv'
<1>1. /\ pc = "scan" /\ iter > Len(Objs) /\ current' = FALSE /\ lastClip' = {}
      /\ dev' = Restored(dev, FALSE) /\ layer' = layer + 1
      /\ pc' \in {"top", "back"}
      /\ UNCHANGED <<job, status, last, rect, iter, togo, isMask, img, out, first>>
  BY DEF CloseLayer, EndOfLayer, locals
<1>2. /\ job \in Jobs /\ current /\ iter = last + 1 /\ last <= Len(Objs)
      /\ layer <= Len(Layers(job)) /\ layer \in Nat \ {0} /\ last \in Nat
  BY <1>1 DEF RenderInv, TypeOK, CursorInv
<1>3. layer \in 1 .. Len(Layers(job)) /\ Len(Objs) \in Nat
  <2>1. layer \in 1 .. Len(Layers(job))
    BY <1>2, LayersType
  <2> QED BY <1>2, <2>1, ObjectType DEF Objs
<1>4. last = Len(Objs)
  BY <1>1, <1>2, <1>3
<1>5. img = NoImage
  <2>1. ~(last + 1 <= Len(Objs))
    BY <1>3, <1>4
  <2> QED BY <2>1 DEF RenderInv, CursorInv
<1>6. dev' = Device({Base} \cup lastClip', Outer)
  <2>1. dev = Device({Base} \cup lastClip, Inner)
    BY <1>1, <1>2 DEF RenderInv, DeviceInv
  <2>2. {Base} \cup {} = {Base}
    OBVIOUS
  <2> QED BY <1>1, <2>1, <2>2, DeviceSteps
<1>7. \A p \in Wishes(job) : Done(p)' <=> Done(p)
  <2> SUFFICES ASSUME NEW p \in Wishes(job) PROVE Done(p)' <=> Done(p)
    OBVIOUS
  <2>1. PICK l, i : p = <<l, i>>
    BY <1>2, WishesMembers
  <2>2. l \in 1 .. Len(Layers(job)) /\ i \in 1 .. Len(Layers(job)[l].objs)
    BY <1>2, <2>1, WishesMembers
  <2>3. l \in Nat
    BY <1>2, <2>2, LayersType
  <2>4. l = layer => i <= last
    BY <1>3, <1>4, <2>2 DEF Objs
  <2>5. l < layer + 1 <=> l < layer \/ l = layer
    BY <1>2, <2>3
  <2> QED BY <1>1, <1>2, <2>1, <2>4, <2>5 DEF Done
<1>8. OutInv' /\ out' \in Seq(Entry)
  BY <1>1, <1>7, NothingDrawn
<1>9. CursorInv'
  BY <1>1, <1>2, <1>5 DEF RenderInv, CursorInv
<1>10. DeviceInv'
  BY <1>1, <1>6 DEF DeviceInv, DeviceBalanced
<1>11. TypeOK'
  <2>1. dev' \in ClipState /\ lastClip' \in AllClips
    BY <1>1, <1>6, ClipTypes, DeviceType
  <2>2. layer' \in Nat \ {0}
    BY <1>1, <1>2
  <2> QED BY <1>1, <1>8, <2>1, <2>2 DEF RenderInv, TypeOK, Entry, ClipState
<1> QED BY <1>8, <1>9, <1>10, <1>11 DEF RenderInv

(* Opening the next layer, or going on with the open one.                  *)
LEMMA EnterLayerSteps ==
  ASSUME RenderInv, OpenLayer \/ ResumeLayer PROVE RenderInv'
<1>1. /\ iter' = last' + 1 /\ togo' = StepLimit /\ isMask' = FALSE
      /\ pc = "top" /\ pc' = "scan"
      /\ UNCHANGED <<job, status, layer, out, first>>
  <2>1. CASE OpenLayer
    BY <2>1 DEF OpenLayer, EnterScan
  <2>2. CASE ResumeLayer
    BY <2>2 DEF ResumeLayer, EnterScan
  <2> QED BY <2>1, <2>2
<1>2. togo' \in 1 .. StepLimit
  BY <1>1, ParametersAssumption
<1>3. job \in Jobs /\ layer \in Nat \ {0} /\ last \in Nat
  BY DEF RenderInv, TypeOK
<1>4. CASE OpenLayer
  <2>1. /\ ~current /\ layer <= Len(Layers(job)) /\ current' = TRUE
        /\ last' = 0 /\ lastClip' = {} /\ img' = NoImage
        /\ dev' = Saved(dev) /\ rect' = dev.clip
    BY <1>4 DEF OpenLayer
  <2>2. dev = Device({Base}, Outer)
    <3>1. lastClip = {} /\ {Base} \cup {} = {Base}
      BY <2>1 DEF RenderInv, CursorInv
    <3> QED BY <1>1, <2>1, <3>1 DEF RenderInv, DeviceInv
  <2>3. rect' = {Base} /\ dev' = Device({Base}, Inner)
    BY <2>1, <2>2, DeviceSteps DEF Device
  <2>4. dev' = Device({Base} \cup lastClip', Inner)
    <3>1. {Base} \cup lastClip' = {Base}
      BY <2>1
    <3> QED BY <2>3, <3>1
  <2>5. layer \in 1 .. Len(Layers(job))
    BY <1>3, <2>1, LayersType
  <2>6. 0 <= Len(Objs)
    BY <1>3, <2>5, ObjectType DEF Objs
  <2>7. CursorInv'
    <3>1. Objs' = Objs
      BY <1>1 DEF Objs
    <3> QED BY <1>1, <2>1, <2>3, <2>6, <3>1 DEF RenderInv, CursorInv
  <2>8. DeviceInv'
    BY <1>1, <2>1, <2>4 DEF DeviceInv, DeviceBalanced
  <2>9. \A p \in Wishes(job) : Done(p)' <=> Done(p)
    <3> SUFFICES ASSUME NEW p \in Wishes(job) PROVE Done(p)' <=> Done(p)
      OBVIOUS
    <3>1. PICK l, i : p = <<l, i>>
      BY <1>3, WishesMembers
    <3>2. l \in 1 .. Len(Layers(job)) /\ i \in 1 .. Len(Layers(job)[l].objs)
      BY <1>3, <3>1, WishesMembers
    <3>3. Len(Layers(job)[l].objs) \in Nat
      BY <1>3, <3>2, ObjectType
    <3>4. ~(i <= 0)
      BY <3>2, <3>3
    <3> QED BY <1>1, <2>1, <3>1, <3>4 DEF Done
  <2>10. OutInv' /\ out' \in Seq(Entry)
    BY <1>1, <2>9, NothingDrawn
  <2>11. img' \in [mode : {"none", "kDefault", "kBlend", "kTransform"},
                   left : 0 .. MaxSuspends]
    BY <2>1, ParametersAssumption DEF NoImage
  <2>12. dev' \in ClipState /\ rect' \in AllClips /\ lastClip' \in AllClips
    BY <2>1, <2>3, ClipTypes, DeviceType
  <2>13. TypeOK'
    <3>1. iter' = 1 /\ last' = 0
      BY <1>1, <2>1
    <3>2. iter' \in Nat \ {0} /\ last' \in Nat
      BY <3>1
    <3>3. /\ job' \in Jobs /\ layer' \in Nat \ {0} /\ first' \in BOOLEAN
          /\ status' \in {"kReady", "kToBeContinued", "kDone", "kFailed"}
          /\ current' \in BOOLEAN /\ isMask' \in BOOLEAN
      BY <1>1, <2>1 DEF RenderInv, TypeOK
    <3> QED BY <1>1, <1>2, <2>10, <2>11, <2>12, <3>2, <3>3
            DEF TypeOK, Entry, ClipState
  <2> QED BY <2>7, <2>8, <2>10, <2>13 DEF RenderInv
<1>5. CASE ResumeLayer
  <2>1. current /\ UNCHANGED <<current, last, rect, lastClip, img, dev>>
    BY <1>5 DEF ResumeLayer
  <2>2. CursorInv'
    <3>1. Objs' = Objs
      BY <1>1 DEF Objs
    <3> QED BY <1>1, <2>1, <3>1 DEF RenderInv, CursorInv
  <2>3. DeviceInv'
    BY <1>1, <2>1 DEF RenderInv, DeviceInv, DeviceBalanced
  <2>4. \A p \in Wishes(job) : Done(p)' <=> Done(p)
    BY <1>1, <2>1 DEF Done
  <2>5. OutInv' /\ out' \in Seq(Entry)
    BY <1>1, <2>4, NothingDrawn
  <2>6. iter' \in Nat \ {0}
    BY <1>1, <1>3, <2>1
  <2>7. TypeOK'
    BY <1>1, <1>2, <2>1, <2>5, <2>6 DEF RenderInv, TypeOK, Entry
  <2> QED BY <2>2, <2>3, <2>5, <2>7 DEF RenderInv
<1> QED BY <1>4, <1>5

(* Entering and leaving the library and the renderer: no step of these     *)
(* moves the cursor.                                                       *)
LEMMA CallSteps ==
  ASSUME RenderInv,
         NoDriver \/ RenderPage \/ NoMoreLayers \/ SuspendImage \/ ImageLoaded
         \/ AwaitParse \/ Return \/ Continue \/ StartAgain \/ Close
  PROVE  RenderInv'
<1>1. UNCHANGED <<job, layer, last, rect, iter, togo, isMask, out>>
  BY DEF NoDriver, RenderPage, NoMoreLayers, SuspendImage, ImageLoaded,
         AwaitParse, Return, Continue, StartAgain, Close, locals
<1>2. Objs' = Objs
  BY <1>1 DEF Objs
<1>3. /\ pc # "closed"
      /\ pc' \in {"new", "top", "scan", "back", "caller", "closed"}
      /\ status' \in {"kReady", "kToBeContinued", "kDone", "kFailed"}
      /\ current' \in BOOLEAN /\ first' \in BOOLEAN /\ lastClip' \in AllClips
      /\ pc' = "closed" \/ current' = current
  <2>1. /\ pc \in {"new", "top", "scan", "back", "caller", "closed"}
        /\ status \in {"kReady", "kToBeContinued", "kDone", "kFailed"}
        /\ current \in BOOLEAN /\ first \in BOOLEAN /\ lastClip \in AllClips
        /\ {} \in AllClips
    BY ClipTypes DEF RenderInv, TypeOK
  <2>2. CASE NoDriver \/ RenderPage \/ NoMoreLayers \/ SuspendImage \/ ImageLoaded
    BY <2>1, <2>2 DEF NoDriver, RenderPage, NoMoreLayers, SuspendImage,
                      ImageLoaded, ToDraw, AtObject
  <2>3. CASE AwaitParse \/ Return \/ Continue \/ StartAgain \/ Close
    BY <2>1, <2>3 DEF AwaitParse, Return, Continue, StartAgain, Close, EndOfLayer
  <2> QED BY <2>2, <2>3
<1>4. OutInv' /\ out' \in Seq(Entry)
  <2>1. pc' = "closed" \/ \A p \in Wishes(job) : Done(p)' <=> Done(p)
    BY <1>1, <1>3 DEF Done
  <2> QED BY <1>1, <1>3, <2>1, NothingDrawn
<1>5. ASSUME dev' \in ClipState,
             img' \in [mode : {"none", "kDefault", "kBlend", "kTransform"},
                       left : 0 .. MaxSuspends]
      PROVE  TypeOK'
  BY <1>1, <1>3, <1>4, <1>5 DEF RenderInv, TypeOK, Entry, ClipState
<1>6. ASSUME CursorInv', DeviceInv', dev' \in ClipState,
             img' \in [mode : {"none", "kDefault", "kBlend", "kTransform"},
                       left : 0 .. MaxSuspends]
      PROVE  RenderInv'
  BY <1>4, <1>5, <1>6 DEF RenderInv
<1>7. /\ dev \in ClipState
      /\ img \in [mode : {"none", "kDefault", "kBlend", "kTransform"},
                   left : 0 .. MaxSuspends]
  BY DEF RenderInv, TypeOK, ClipState
<1>8. CASE NoDriver
  <2>1. /\ pc = "new" /\ ~job.driver /\ pc' = "closed"
        /\ UNCHANGED <<status, current, lastClip, img, dev, first>>
    BY <1>8 DEF NoDriver
  <2>2. dev = Device({}, <<>>)
    BY <2>1 DEF RenderInv, DeviceInv
  <2>3. DeviceInv'
    BY <1>1, <2>1, <2>2 DEF DeviceInv, DeviceBalanced, Device
  <2>4. CursorInv'
    BY <1>1, <1>2, <2>1 DEF RenderInv, CursorInv
  <2> QED BY <1>6, <1>7, <2>1, <2>3, <2>4
<1>9. CASE RenderPage
  <2>1. /\ pc = "new" /\ pc' = "top" /\ dev' = Clipped(Saved(dev), {Base})
        /\ job.driver
        /\ status' = "kToBeContinued"
        /\ UNCHANGED <<current, lastClip, img, first>>
    BY <1>9 DEF RenderPage
  <2>2. dev = Device({}, <<>>) /\ ~current /\ lastClip = {} /\ first
    BY <2>1 DEF RenderInv, DeviceInv, CursorInv
  <2>3. dev' = Device({Base}, Outer)
    BY <2>1, <2>2, DeviceSteps
  <2>4. {Base} = {Base} \cup lastClip'
    BY <2>1, <2>2
  <2>5. DeviceInv'
    BY <2>1, <2>2, <2>3, <2>4 DEF DeviceInv, DeviceBalanced
  <2>6. CursorInv'
    BY <1>1, <1>2, <2>1, <2>2 DEF RenderInv, CursorInv
  <2>7. dev' \in ClipState
    BY <2>3, DeviceType
  <2> QED BY <1>6, <1>7, <2>1, <2>5, <2>6, <2>7
<1>10. CASE NoMoreLayers
  <2>1. /\ pc = "top" /\ pc' = "back" /\ status' = "kDone"
        /\ UNCHANGED <<current, lastClip, img, dev, first>>
    BY <1>10 DEF NoMoreLayers
  <2>2. DeviceInv'
    BY <1>1, <2>1 DEF RenderInv, DeviceInv, DeviceBalanced
  <2>3. CursorInv'
    BY <1>1, <1>2, <2>1 DEF RenderInv, CursorInv
  <2> QED BY <1>6, <1>7, <2>1, <2>2, <2>3
<1>11. CASE SuspendImage \/ ImageLoaded
  <2>1. /\ pc = "scan" /\ pc' \in {"scan", "back"}
        /\ UNCHANGED <<status, current, lastClip, dev, first>>
    BY <1>11 DEF SuspendImage, ImageLoaded, ToDraw, AtObject
  <2>2. img # NoImage
    BY <1>11 DEF SuspendImage, ImageLoaded, NoImage
  <2>3. DeviceInv'
    BY <1>1, <2>1 DEF RenderInv, DeviceInv, DeviceBalanced
  <2>4. CursorInv'
    BY <1>1, <1>2, <2>1, <2>2 DEF RenderInv, CursorInv
  <2>5. img' \in [mode : {"none", "kDefault", "kBlend", "kTransform"},
                  left : 0 .. MaxSuspends]
    BY <1>7, <1>11, ParametersAssumption DEF SuspendImage, ImageLoaded, Started
  <2> QED BY <1>6, <1>7, <2>1, <2>3, <2>4, <2>5
<1>12. CASE AwaitParse
  <2>1. /\ pc = "scan" /\ pc' = "back"
        /\ UNCHANGED <<status, current, lastClip, img, dev, first>>
    BY <1>12 DEF AwaitParse, EndOfLayer
  <2>2. DeviceInv'
    BY <1>1, <2>1 DEF RenderInv, DeviceInv, DeviceBalanced
  <2>3. CursorInv'
    BY <1>1, <1>2, <2>1 DEF RenderInv, CursorInv
  <2> QED BY <1>6, <1>7, <2>1, <2>2, <2>3
<1>13. CASE Return
  <2>1. /\ pc = "back" /\ pc' = "caller" /\ first' = FALSE
        /\ dev' = IF first /\ job.restore THEN Restored(dev, FALSE) ELSE dev
        /\ UNCHANGED <<status, current, lastClip, img>>
    BY <1>13 DEF Return
  <2>2. CursorInv'
    BY <1>1, <1>2, <2>1 DEF RenderInv, CursorInv
  <2>3. /\ dev = Device({Base} \cup lastClip, IF current THEN Inner ELSE Outer)
        /\ ~first => ~job.restore
    BY <2>1 DEF RenderInv, DeviceInv, CursorInv
  <2>4. Restored(dev, FALSE) = IF current THEN Device({Base}, Outer)
                               ELSE Device({}, <<>>)
    BY <2>3, DeviceSteps
  <2>5. DeviceInv'
    BY <1>1, <2>1, <2>3, <2>4 DEF DeviceInv, DeviceBalanced
  <2>6. dev' \in ClipState
    BY <1>7, <2>1, <2>4, DeviceType
  <2> QED BY <1>6, <1>7, <2>1, <2>2, <2>5, <2>6
<1>14. CASE Continue
  <2>1. /\ pc = "caller" /\ ~job.restore /\ pc' = "top"
        /\ status = "kToBeContinued"
        /\ UNCHANGED <<status, current, lastClip, img, dev, first>>
    BY <1>14 DEF Continue
  <2>2. DeviceInv'
    BY <1>1, <2>1 DEF RenderInv, DeviceInv, DeviceBalanced
  <2>3. CursorInv'
    BY <1>1, <1>2, <2>1 DEF RenderInv, CursorInv
  <2> QED BY <1>6, <1>7, <2>1, <2>2, <2>3
<1>15. CASE StartAgain
  <2>1. /\ pc = "caller" /\ pc' = pc
        /\ UNCHANGED <<current, lastClip, img, dev, first>>
    BY <1>15 DEF StartAgain
  <2>2. DeviceInv'
    BY <1>1, <2>1 DEF RenderInv, DeviceInv, DeviceBalanced
  <2>3. CursorInv'
    BY <1>1, <1>2, <2>1 DEF RenderInv, CursorInv
  <2> QED BY <1>6, <1>7, <2>1, <2>2, <2>3
<1>16. CASE Close
  <2>1. /\ pc = "caller" /\ pc' = "closed" /\ current' = FALSE
        /\ lastClip' = {} /\ img' = NoImage
        /\ dev' = IF current THEN Restored(dev, FALSE) ELSE dev
        /\ UNCHANGED <<status, first>>
    BY <1>16 DEF Close
  <2>2. CursorInv'
    BY <1>1, <1>2, <2>1 DEF RenderInv, CursorInv
  <2>3. CASE job.restore
    <3>1. dev = IF current THEN Device({Base}, Outer) ELSE Device({}, <<>>)
      BY <2>1, <2>3 DEF RenderInv, DeviceInv
    <3>2. dev' = Device({}, <<>>)
      BY <2>1, <3>1, DeviceSteps
    <3>3. DeviceInv'
      BY <1>1, <2>1, <2>3, <3>2 DEF DeviceInv, DeviceBalanced, Device
    <3>4. img' \in [mode : {"none", "kDefault", "kBlend", "kTransform"},
                    left : 0 .. MaxSuspends]
      BY <2>1, ParametersAssumption DEF NoImage
    <3>5. dev' \in ClipState
      BY <3>2, DeviceType
    <3> QED BY <1>6, <2>2, <3>3, <3>4, <3>5
  <2>4. CASE ~job.restore
    <3>1. dev = Device({Base} \cup lastClip, IF current THEN Inner ELSE Outer)
      BY <2>1, <2>4 DEF RenderInv, DeviceInv
    <3>2. dev' = Device({Base}, Outer)
      <4>1. CASE current
        BY <2>1, <3>1, <4>1, DeviceSteps
      <4>2. CASE ~current
        <5>1. lastClip = {} /\ {Base} \cup {} = {Base}
          BY <4>2 DEF RenderInv, CursorInv
        <5> QED BY <2>1, <3>1, <4>2, <5>1
      <4> QED BY <4>1, <4>2
    <3>3. job.driver
      BY <2>1 DEF RenderInv, CursorInv
    <3>4. DeviceInv'
      BY <1>1, <2>1, <2>4, <3>2, <3>3 DEF DeviceInv, DeviceBalanced, Device, Outer
    <3>5. img' \in [mode : {"none", "kDefault", "kBlend", "kTransform"},
                    left : 0 .. MaxSuspends]
      BY <2>1, ParametersAssumption DEF NoImage
    <3>6. dev' \in ClipState
      BY <3>2, DeviceType
    <3> QED BY <1>6, <2>2, <3>4, <3>5, <3>6
  <2> QED BY <2>3, <2>4
<1> QED BY <1>8, <1>9, <1>10, <1>11, <1>12, <1>13, <1>14, <1>15, <1>16

LEMMA InitInv == ASSUME Init PROVE RenderInv
<1>1. /\ job \in Jobs /\ pc = "new" /\ status = "kReady" /\ layer = 1
      /\ current = FALSE /\ last = 0 /\ rect = {} /\ iter = 1
      /\ togo = StepLimit /\ isMask = FALSE /\ lastClip = {} /\ img = NoImage
      /\ dev = Device({}, <<>>) /\ out = <<>> /\ first = TRUE
  BY DEF Init, Device
<1>2. Len(out) = 0 /\ \A k \in 1 .. Len(out) : FALSE
  BY <1>1
<1>3. OutInv
  <2>1. ASSUME NEW p \in Wishes(job) PROVE ~Done(p)
    <3>1. PICK l, i : p = <<l, i>>
      BY <1>1, WishesMembers
    <3>2. l \in 1 .. Len(Layers(job))
      BY <1>1, <3>1, WishesMembers
    <3>3. ~(l < 1)
      BY <1>1, <3>2, LayersType
    <3> QED BY <1>1, <3>1, <3>3 DEF Done
  <2>2. Drawn = {}
    BY <1>2 DEF Drawn
  <2> QED BY <1>2, <2>1, <2>2 DEF OutInv
<1>4. CursorInv
  BY <1>1 DEF CursorInv
<1>5. DeviceInv
  BY <1>1 DEF DeviceInv, DeviceBalanced
<1>6. TypeOK
  <2>1. dev \in ClipState /\ {} \in AllClips
    BY <1>1, ClipTypes, DeviceType
  <2>2. out \in Seq(Entry)
    BY <1>1
  <2>3. togo \in 1 .. StepLimit /\ 0 \in 0 .. MaxSuspends
    BY <1>1, ParametersAssumption
  <2>4. img \in [mode : {"none", "kDefault", "kBlend", "kTransform"},
                 left : 0 .. MaxSuspends]
    BY <1>1, <2>3 DEF NoImage
  <2>5. layer \in Nat \ {0} /\ last \in Nat /\ iter \in Nat \ {0}
    BY <1>1
  <2> QED BY <1>1, <2>1, <2>2, <2>3, <2>4, <2>5 DEF TypeOK, Entry, ClipState
<1> QED BY <1>3, <1>4, <1>5, <1>6 DEF RenderInv

LEMMA NextInv == ASSUME RenderInv, [Next]_vars PROVE RenderInv'
<1>1. CASE SkipObject \/ LeaveMaskToCaller \/ DrawObject \/ DrawPatternText
           \/ FinishImage
  BY <1>1, ObjectActions
<1>2. CASE StartImage
  BY <1>2, StartImageStep
<1>3. CASE CloseLayer
  BY <1>3, CloseLayerStep
<1>4. CASE OpenLayer \/ ResumeLayer
  BY <1>4, EnterLayerSteps
<1>5. CASE NoDriver \/ RenderPage \/ NoMoreLayers \/ SuspendImage \/ ImageLoaded
           \/ AwaitParse \/ Return \/ Continue \/ StartAgain \/ Close
  BY <1>5, CallSteps
<1>6. CASE UNCHANGED vars
  BY <1>6 DEF vars, RenderInv, TypeOK, CursorInv, DeviceInv, DeviceBalanced,
              OutInv, Done, Drawn, Objs
<1> QED BY <1>1, <1>2, <1>3, <1>4, <1>5, <1>6 DEF Next, Run

(* The invariant, for every run of the renderer.                           *)
LEMMA RenderInvariant == Spec => []RenderInv
<1>1. Init => RenderInv
  BY InitInv
<1>2. RenderInv /\ [Next]_vars => RenderInv'
  BY NextInv
<1> QED BY <1>1, <1>2, PTL DEF Spec

(* The renderer's members keep their types; in particular nObjsToGo stays   *)
(* between 1 and kStepLimit, so that the pause object is looked at.        *)
THEOREM RenderTypeCorrect == Spec => []TypeOK
<1>1. RenderInv => TypeOK
  BY DEF RenderInv
<1> QED BY <1>1, RenderInvariant, PTL

(* ProcessClipPath's shortcut is right: whenever Continue is under way the  *)
(* device's clip is the request's and the one m_LastClipPath names, across  *)
(* layers, pauses and the fallbacks that draw on the same device.          *)
THEOREM ClipIsTheRememberedOne == Spec => []ClipInSync
<1>1. RenderInv => ClipInSync
  BY DEF RenderInv, DeviceInv, ClipInSync, Device
<1> QED BY <1>1, RenderInvariant, PTL

(* Every object is drawn under its own clip path and the request's.        *)
THEOREM ObjectsUnderTheirClip == Spec => []DrawnUnderOwnClip
<1>1. ASSUME RenderInv PROVE DrawnUnderOwnClip
  <2> SUFFICES ASSUME NEW k \in 1 .. Len(out)
               PROVE  out[k].clip
                        = OwnClip(Layers(job)[out[k].at[1]].objs[out[k].at[2]])
    BY DEF DrawnUnderOwnClip
  <2>1. out[k].at \in Wishes(job) /\ out[k].clip = PlanOf(job)[out[k].at]
    BY <1>1 DEF RenderInv, OutInv
  <2> QED BY <2>1 DEF PlanOf
<1> QED BY <1>1, RenderInvariant, PTL

(* The saves and restores of RenderPageImpl, of Continue and of the         *)
(* destructor balance wherever the drawing is left.                        *)
THEOREM DeviceComesBack == Spec => []DeviceBalanced
<1>1. RenderInv => DeviceBalanced
  BY DEF RenderInv, DeviceInv
<1> QED BY <1>1, RenderInvariant, PTL

-----------------------------------------------------------------------------
(***************************************************************************)
(* The renderer implements PageDrawing.                                    *)
(***************************************************************************)
StateMap == CASE pc = "closed" \/ status = "kFailed" -> "gone"
              [] pc # "closed" /\ status = "kDone" -> "done"
              [] OTHER -> "drawing"

(* Drawing the object under the cursor is drawing the first one left.      *)
LEMMA DrawHere ==
  ASSUME RenderInv, pc = "scan", iter <= Len(Objs), Wanted(job, Obj),
         out' = Append(out, [at |-> Here, clip |-> OwnClip(Obj)]),
         pc' \in {"scan", "back"}, UNCHANGED <<job, status>>
  PROVE  \E p \in Wishes(job) \ Drawn : Drawing!Draw(p)
<1>1. /\ job \in Jobs /\ current /\ iter = last + 1 /\ last \in Nat
      /\ layer \in Nat /\ Here \in Wishes(job)
      /\ status = "kToBeContinued"
      /\ Drawn = {p \in Wishes(job) : Done(p)}
  <2>1. Here \in Wishes(job) /\ current /\ iter = last + 1
    BY AtCursor
  <2> QED BY <2>1 DEF RenderInv, TypeOK, CursorInv, OutInv
<1>2. PlanOf(job)[Here] = OwnClip(Obj)
  BY <1>1 DEF PlanOf, Here, Obj, Objs
<1>3. Drawn' = Drawn \cup {Here}
  BY <1>1, <1>2, DrawnAfter
<1>4. ~Done(Here)
  BY <1>1 DEF Done, Here
<1>5. ASSUME NEW q \in Wishes(job), ~Done(q)
      PROVE  q = Here \/ Drawing!Before(Here, q)
  <2>1. q = <<q[1], q[2]>> /\ q[1] \in Nat /\ q[2] \in Nat
    BY <1>1, WishesMembers DEF Position
  <2>2. q[1] >= layer /\ (q[1] = layer => q[2] >= iter)
    BY <1>1, <1>5, <2>1 DEF Done
  <2>3. Here[1] = layer /\ Here[2] = iter
    BY DEF Here
  <2>4. layer < q[1] \/ (layer = q[1] /\ (iter < q[2] \/ iter = q[2]))
    BY <1>1, <2>1, <2>2
  <2> QED BY <2>1, <2>3, <2>4 DEF Drawing!Before, Here
<1>6. Drawing!Draw(Here)
  <2>1. StateMap = "drawing" /\ StateMap' = "drawing"
    BY <1>1 DEF StateMap
  <2>2. (Wishes(job) \ Drawn)' = (Wishes(job) \ Drawn) \ {Here}
    BY <1>3
  <2>3. \A q \in Wishes(job) \ Drawn : q = Here \/ Drawing!Before(Here, q)
    BY <1>1, <1>5
  <2>4. Here \in Wishes(job) \ Drawn
    BY <1>1, <1>4
  <2>5. out' = Append(out, [at |-> Here, clip |-> PlanOf(job)[Here]])
    BY <1>2
  <2>6. PlanOf(job)' = PlanOf(job)
    OBVIOUS
  <2> QED BY <2>1, <2>2, <2>3, <2>4, <2>5, <2>6 DEF Drawing!Draw, StateMap
<1> QED BY <1>1, <1>4, <1>6

(* A step that draws nothing and does not end the drawing is a stutter.    *)
LEMMA Stutter ==
  ASSUME UNCHANGED <<job, out>>, StateMap' = StateMap
  PROVE  UNCHANGED Drawing!vars
<1>1. Drawn' = Drawn
  BY DEF Drawn
<1> QED BY <1>1 DEF Drawing!vars, StateMap

LEMMA StepRefines ==
  ASSUME RenderInv, [Next]_vars PROVE [Drawing!Next]_(Drawing!vars)
<1>1. ASSUME DrawsAtMostHere, UNCHANGED <<job, status>>, pc = "scan",
             pc' \in {"scan", "back"}
      PROVE  [Drawing!Next]_(Drawing!vars)
  <2>1. CASE out' = out
    <3>1. StateMap' = StateMap
      BY <1>1 DEF StateMap
    <3> QED BY <1>1, <2>1, <3>1, Stutter
  <2>2. CASE /\ Wanted(job, Obj) /\ pc = "scan" /\ iter <= Len(Objs)
             /\ out' = Append(out, [at |-> Here, clip |-> OwnClip(Obj)])
    BY <1>1, <2>2, DrawHere DEF Drawing!Next
  <2> QED BY <1>1, <2>1, <2>2 DEF DrawsAtMostHere
<1>2. CASE SkipObject \/ LeaveMaskToCaller \/ DrawObject \/ DrawPatternText
           \/ FinishImage \/ StartImage
  <2>1. DrawsAtMostHere
    BY <1>2, ObjectActions, StartImageStep
  <2>2. UNCHANGED <<job, status>> /\ pc = "scan" /\ pc' \in {"scan", "back"}
    BY <1>2 DEF SkipObject, LeaveMaskToCaller, DrawObject, DrawPatternText,
                FinishImage, StartImage, ImageDone, AfterObject, ToDraw, AtObject
  <2> QED BY <1>1, <2>1, <2>2
<1>3. CASE \/ RenderPage \/ OpenLayer \/ ResumeLayer \/ SuspendImage
           \/ ImageLoaded \/ CloseLayer \/ AwaitParse \/ Return \/ Continue
           \/ UNCHANGED vars
  <2>1. UNCHANGED <<job, out>>
    BY <1>3 DEF RenderPage, OpenLayer, ResumeLayer, SuspendImage, ImageLoaded,
                CloseLayer, AwaitParse, Return, Continue, vars
  <2>2. CASE RenderPage
    <3>1. pc = "new" /\ pc' = "top" /\ status' = "kToBeContinued"
      BY <2>2 DEF RenderPage
    <3>2. status = "kReady"
      BY <3>1 DEF RenderInv, CursorInv
    <3>3. StateMap' = StateMap
      BY <3>1, <3>2 DEF StateMap
    <3> QED BY <2>1, <3>3, Stutter
  <2>3. CASE ~RenderPage
    <3>1. status' = status /\ (pc' = "closed" <=> pc = "closed")
      BY <1>3, <2>3 DEF OpenLayer, ResumeLayer, SuspendImage, ImageLoaded,
           CloseLayer, AwaitParse, Return, Continue, vars, EnterScan, ToDraw,
           AtObject, EndOfLayer
    <3>2. StateMap' = StateMap
      BY <3>1 DEF StateMap
    <3> QED BY <2>1, <3>2, Stutter
  <2> QED BY <2>2, <2>3
<1>4. CASE NoMoreLayers
  <2>1. /\ pc = "top" /\ ~current /\ layer > Len(Layers(job))
        /\ pc' = "back" /\ status' = "kDone" /\ UNCHANGED <<job, out>>
    BY <1>4 DEF NoMoreLayers
  <2>2. /\ status = "kToBeContinued" /\ job \in Jobs /\ layer \in Nat
        /\ Drawn = {p \in Wishes(job) : Done(p)}
    BY <2>1 DEF RenderInv, TypeOK, CursorInv, OutInv
  <2>3. Wishes(job) \ Drawn = {}
    <3>1. ASSUME NEW p \in Wishes(job) PROVE Done(p)
      <4>1. PICK l, i : p = <<l, i>>
        BY <2>2, WishesMembers
      <4>2. l \in 1 .. Len(Layers(job))
        BY <2>2, <4>1, WishesMembers
      <4>3. l < layer
        BY <2>1, <2>2, <4>2, LayersType
      <4> QED BY <4>1, <4>3 DEF Done
    <3> QED BY <2>2, <3>1
  <2>4. Drawn' = Drawn
    BY <2>1 DEF Drawn
  <2>5. StateMap = "drawing" /\ StateMap' = "done"
    BY <2>1, <2>2 DEF StateMap
  <2>6. Drawing!Finish
    BY <2>1, <2>3, <2>4, <2>5 DEF Drawing!Finish, StateMap
  <2> QED BY <2>6 DEF Drawing!Next
<1>5. CASE NoDriver \/ StartAgain \/ Close
  <2>1. UNCHANGED <<job, out>> /\ (pc' = "closed" \/ status' = "kFailed")
    BY <1>5 DEF NoDriver, StartAgain, Close
  <2>2. Drawn' = Drawn
    BY <2>1 DEF Drawn
  <2>3. StateMap' = "gone"
    BY <2>1 DEF StateMap
  <2>4. Drawing!GiveUp
    BY <2>1, <2>2, <2>3 DEF Drawing!GiveUp, StateMap
  <2> QED BY <2>4 DEF Drawing!Next
<1> QED BY <1>2, <1>3, <1>4, <1>5 DEF Next, Run

(* However it is paused, continued, refused or dropped, the renderer draws  *)
(* what was asked for, in order, once and under the right clips, and says   *)
(* kDone only when nothing is left.                                        *)
THEOREM RendererImplementsDrawing == Spec => ImplementsDrawing
<1>1. Init => Drawing!Init
  <2> SUFFICES ASSUME Init PROVE Drawing!Init
    OBVIOUS
  <2>1. job \in Jobs /\ out = <<>> /\ pc = "new" /\ status = "kReady"
    BY DEF Init
  <2>2. Drawn = {}
    BY <2>1 DEF Drawn
  <2>3. DOMAIN PlanOf(job) = Wishes(job)
    BY DEF PlanOf
  <2>4. StateMap = "drawing"
    BY <2>1 DEF StateMap
  <2> QED BY <2>1, <2>2, <2>3, <2>4 DEF Drawing!Init, StateMap
<1>2. RenderInv /\ [Next]_vars => [Drawing!Next]_(Drawing!vars)
  BY StepRefines
<1> QED BY <1>1, <1>2, RenderInvariant, PTL
        DEF Spec, ImplementsDrawing, Drawing!Spec
=============================================================================
