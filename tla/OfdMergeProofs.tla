--------------------------- MODULE OfdMergeProofs ---------------------------
(***************************************************************************)
(* Type correctness of OfdMerge, the argument that IDs of different files  *)
(* stay apart, and the argument that nothing merged in gets lost.          *)
(***************************************************************************)
EXTENDS OfdMerge, TLAPS

-----------------------------------------------------------------------------
(* Archives.                                                               *)

(* AppendEntry (WriteBinary) keeps an archive an archive, adds the name,   *)
(* and leaves what was there before alone.                                 *)
LEMMA AppendEntryFacts ==
  ASSUME NEW names, NEW contents, NEW a, IsArchive(a, names, contents),
         NEW n \in names, NEW c \in contents
  PROVE  /\ IsArchive(AppendEntry(a, n, c), names, contents)
         /\ DOMAIN AppendEntry(a, n, c) = DOMAIN a \cup {n}
         /\ \A m \in DOMAIN a : AppendEntry(a, n, c)[m] = a[m]
         /\ n \notin DOMAIN a => AppendEntry(a, n, c)[n] = c
  BY DEF IsArchive, AppendEntry

(* DeleteEntry (DeleteEntries) keeps an archive an archive.                *)
LEMMA DeleteEntryFacts ==
  ASSUME NEW names, NEW contents, NEW a, IsArchive(a, names, contents), NEW n
  PROVE  /\ IsArchive(DeleteEntry(a, n), names, contents)
         /\ n \notin DOMAIN DeleteEntry(a, n)
  BY DEF IsArchive, DeleteEntry

LEMMA NothingIsArchive ==
  ASSUME NEW names, NEW contents PROVE IsArchive(Nothing, names, contents)
  BY DEF IsArchive, Nothing

-----------------------------------------------------------------------------
(* What the merge writes has the type of what it reads.                    *)
LEMMA WrapType == ASSUME NEW x \in Int PROVE Wrap(x) \in Int
  BY ParametersAssumption DEF Wrap

LEMMA BaseForType == ASSUME NEW doc \in Document PROVE BaseFor(doc) \in Int
<1>1. doc.max \in Int /\ BaseStep \in Nat \ {0}
  BY ParametersAssumption DEF Document
<1>2. doc.max \div BaseStep \in Int
  BY <1>1, Z3
<1>3. (doc.max \div BaseStep + 1) * BaseStep \in Int
  BY <1>1, <1>2, Z3
<1>4. QED
  BY <1>1, <1>3, WrapType DEF BaseFor

LEMMA MergedDocumentType ==
  ASSUME NEW doc \in Document, NEW s \in Sources, NEW k \in Nat, NEW b \in Int,
         NEW t \in Stamps
  PROVE  MergedDocument(doc, s, k, b, t) \in Document
<1>1. s.max \in Int /\ s.nodes \subseteq SourceNode
  BY SourcesAssumption DEF IsSource
<1>2. MergedMax(doc, s, b) \in Int
  <2>1. s.max + b \in Int
    BY <1>1
  <2>2. Wrap(s.max + b) + Slack \in Int
    BY <2>1, WrapType, ParametersAssumption
  <2>3. QED
    BY <2>2, WrapType DEF MergedMax, Document
<1>3. ASSUME NEW n \in s.nodes PROVE MergedNode(n, k, b, t) \in Node
  <2>1. n \in SourceNode
    BY <1>1
  <2>2. n.pos \in Nat /\ n.tag \in Tags /\ n.id \in Int /\ n.name \in Names
    BY <2>1 DEF SourceNode
  <2>3. Wrap(n.id + b) \in Int
    BY <2>2, WrapType
  <2>4. <<t, n.name>> \in Locs
    BY <2>2 DEF Locs
  <2>5. (IF n.tag = "DocumentRes" THEN "PublicRes" ELSE n.tag) \in Tags
    BY <2>2 DEF Tags
  <2>6. QED
    BY <2>2, <2>3, <2>4, <2>5 DEF MergedNode, Node
<1>4. MergedNodes(s, k, b, t) \subseteq Node
  BY <1>3 DEF MergedNodes
<1>5. QED
  BY <1>2, <1>4 DEF MergedDocument, Document

LEMMA MergedContentType ==
  ASSUME NEW s \in Sources, NEW e \in Entry, NEW k \in Nat, NEW b \in Int,
         NEW t \in Stamps \cup {Own}
  PROVE  MergedContent(s, e, k, b, t) \in Content
<1>1. e.ids \subseteq Nat /\ e.refs \subseteq FileLoc
  BY DEF Entry
<1>2. {Wrap(i + b) : i \in e.ids} \subseteq Int
  BY <1>1, WrapType
<1>3. ASSUME NEW r \in e.refs PROVE MergedRef(s, e, r, t) \in Locs \cup {NoLoc}
  <2>1. r.name \in Names
    BY <1>1 DEF FileLoc
  <2>2. QED
    BY <2>1 DEF MergedRef, Locs
<1>4. (IF e.kind = "annots" THEN {MergedRef(s, e, r, t) : r \in e.refs} ELSE {})
        \subseteq Locs \cup {NoLoc}
  BY <1>3
<1>5. QED
  BY <1>2, <1>4 DEF MergedContent, Content

-----------------------------------------------------------------------------
(* Every step of every call keeps the types.                               *)
THEOREM TypeCorrect == Spec => []TypeOK
<1>1. Init => TypeOK
  <2> SUFFICES ASSUME Init PROVE TypeOK
    OBVIOUS
  <2>1. PICK u \in Targets :
          /\ disk = [ok |-> TRUE, exact |-> u.exact, entries |-> u.entries,
                     docs |-> [n \in {DocName} |-> u.doc]]
          /\ hist = [calls |-> 0, stamps |-> {}, fresh |-> TRUE,
                     mishap |-> FALSE, honest |-> HonestTarget(u),
                     plain |-> PlainTarget(u), seen |-> u.doc.nodes, owed |-> {}]
          /\ mdoc = u.doc
    BY DEF Init
  <2>2. IsTarget(u)
    BY TargetsAssumption
  <2>3. IsArchive(disk.docs, {DocName}, Document)
    BY <2>1, <2>2 DEF IsTarget, IsArchive
  <2>4. IsArchive(disk.entries, Locs, Content)
    BY <2>1, <2>2 DEF IsTarget, IsArchive, Locs
  <2>5. hist \in History
    <3>1. HonestTarget(u) \in BOOLEAN /\ PlainTarget(u) \in BOOLEAN
      BY DEF HonestTarget, PlainTarget
    <3>2. u.doc.nodes \subseteq Node /\ 0 \in 0 .. MaxMerges
      BY <2>2, ParametersAssumption DEF IsTarget, Document
    <3>3. QED
      BY <2>1, <3>1, <3>2 DEF History
  <2>6. IsArchive(zip.docs, {DocName}, Document) /\ IsArchive(zip.entries, Locs, Content)
    BY NothingIsArchive DEF Init, Closed
  <2>7. QED
    BY <2>1, <2>2, <2>3, <2>4, <2>5, <2>6, ParametersAssumption
       DEF Init, TypeOK, IsTarget, Closed
<1>2. TypeOK /\ [Next]_vars => TypeOK'
  <2> SUFFICES ASSUME TypeOK, [Next]_vars PROVE TypeOK'
    OBVIOUS
  <2> USE DEF TypeOK, History
  <2>1. ASSUME NEW s \in Sources, Begin(s) PROVE TypeOK'
    <3>1. disk.docs[DocName] \in Document
      BY <2>1 DEF Begin, Readable, HasEntry, IsArchive
    <3>2. base' \in Int
      BY <2>1, <3>1, BaseForType DEF Begin
    <3>3. PlainSource(s) \in BOOLEAN
          /\ HonestSource(s, disk.docs[DocName]) \in BOOLEAN
      BY DEF PlainSource, HonestSource
    <3>4. hist' \in History
      <4>1. hist.calls + 1 \in 0 .. MaxMerges
        BY <2>1, ParametersAssumption DEF Begin
      <4>2. /\ (hist.plain /\ PlainSource(s)) \in BOOLEAN
            /\ (hist.honest /\ HonestSource(s, disk.docs[DocName])) \in BOOLEAN
        BY <3>3
      <4>3. QED
        BY <2>1, <4>1, <4>2 DEF Begin
    <3>5. QED
      BY <2>1, <3>1, <3>2, <3>4 DEF Begin
  <2>2. CASE Refuse
    BY <2>2, ParametersAssumption DEF Refuse, call
  <2>3. CASE OpenForDelete
    BY <2>3 DEF OpenForDelete, call
  <2>4. CASE OpenForDeleteFails
    BY <2>4 DEF OpenForDeleteFails, call
  <2>5. CASE DeleteDocument
    <3>1. IsArchive(DeleteEntry(disk.docs, DocName), {DocName}, Document)
      BY DeleteEntryFacts
    <3>2. /\ disk' \in [ok : BOOLEAN, exact : BOOLEAN,
                        docs : {disk'.docs}, entries : {disk'.entries}]
          /\ disk'.entries = disk.entries
          /\ IsArchive(disk'.docs, {DocName}, Document)
      BY <2>5, <3>1 DEF DeleteDocument
    <3>3. PICK opened \in BOOLEAN :
            /\ zip' = [opened |-> opened, dirty |-> FALSE,
                       docs |-> disk'.docs, entries |-> disk.entries]
            /\ hist' = [hist EXCEPT !.mishap = @ \/ ~opened]
      BY <2>5 DEF DeleteDocument
    <3>4. hist' \in History
      BY <3>3
    <3>5. QED
      BY <2>5, <3>2, <3>3, <3>4 DEF DeleteDocument, call
  <2>6. ASSUME NEW t \in Stamps, MergeDoc(t) PROVE TypeOK'
    <3>1. PICK written \in BOOLEAN :
            /\ zip' = [zip EXCEPT !.dirty = src.parses /\ zip.opened,
                 !.docs = IF written
                   THEN AppendEntry(@, DocName,
                          MergedDocument(mdoc, src, hist.calls, base, t))
                   ELSE @]
            /\ hist' = [hist EXCEPT !.mishap = @ \/ ~written,
                               !.fresh = @ /\ t \notin hist.stamps,
                               !.stamps = @ \cup {t},
                               !.owed = @ \cup
                                 IF written THEN {t} \X DOMAIN src.entries
                                            ELSE {}]
      BY <2>6 DEF MergeDoc
    <3>2. src.parses \in BOOLEAN /\ DOMAIN src.entries \subseteq Names
      BY SourcesAssumption DEF IsSource, IsArchive
    <3>3. hist' \in History
      <4>1. {t} \X DOMAIN src.entries \subseteq Locs
        BY <3>2 DEF Locs
      <4>2. QED
        BY <3>1, <4>1
    <3>4. MergedDocument(mdoc, src, hist.calls, base, t) \in Document
      BY MergedDocumentType, ParametersAssumption
    <3>5. IsArchive(AppendEntry(zip.docs, DocName,
                      MergedDocument(mdoc, src, hist.calls, base, t)),
                    {DocName}, Document)
      BY <3>4, AppendEntryFacts
    <3>6. /\ zip' \in [opened : BOOLEAN, dirty : BOOLEAN,
                       docs : {zip'.docs}, entries : {zip'.entries}]
          /\ zip'.entries = zip.entries
          /\ IsArchive(zip'.docs, {DocName}, Document)
      BY <3>1, <3>2, <3>5
    <3>7. QED
      BY <2>6, <3>3, <3>6 DEF MergeDoc, call
  <2>7. ASSUME NEW n \in Names, CopyEntry(n) PROVE TypeOK'
    <3>1. src.entries[n] \in Entry
      BY <2>7, SourcesAssumption DEF CopyEntry, IsSource, IsArchive
    <3>2. MergedContent(src, src.entries[n], hist.calls, base, stamp) \in Content
      BY <3>1, MergedContentType, ParametersAssumption
    <3>3. <<stamp, n>> \in Locs
      BY DEF Locs
    <3>4. IsArchive(AppendEntry(zip.entries, <<stamp, n>>,
            MergedContent(src, src.entries[n], hist.calls, base, stamp)),
            Locs, Content)
      BY <3>2, <3>3, AppendEntryFacts
    <3>5. /\ zip' \in [opened : BOOLEAN, dirty : BOOLEAN,
                       docs : {zip'.docs}, entries : {zip'.entries}]
          /\ zip'.docs = zip.docs
          /\ IsArchive(zip'.entries, Locs, Content)
      BY <2>7, <3>4 DEF CopyEntry
    <3>6. QED
      BY <2>7, <3>5 DEF CopyEntry, call
  <2>8. ASSUME NEW n \in Names, DropEntry(n) PROVE TypeOK'
    <3>1. hist' \in History
      BY <2>8 DEF DropEntry
    <3>2. QED
      BY <2>8, <3>1 DEF DropEntry, call
  <2>9. CASE Finish
    <3>1. /\ disk' \in [ok : BOOLEAN, exact : BOOLEAN,
                        docs : {disk'.docs}, entries : {disk'.entries}]
          /\ IsArchive(disk'.docs, {DocName}, Document)
          /\ IsArchive(disk'.entries, Locs, Content)
      BY <2>9 DEF Finish
    <3>2. HasEntry(disk'.docs, DocName) => disk'.docs[DocName].nodes \subseteq Node
      BY <3>1 DEF HasEntry, IsArchive, Document
    <3>3. hist' \in History
      BY <2>9, <3>2 DEF Finish
    <3>4. QED
      BY <2>9, <3>1, <3>3, NothingIsArchive DEF Finish, call, Closed
  <2>10. CASE Crash
    <3>1. hist' \in History
      BY <2>10 DEF Crash
    <3>2. /\ disk' \in [ok : BOOLEAN, exact : BOOLEAN,
                        docs : {disk'.docs}, entries : {disk'.entries}]
          /\ disk'.docs = disk.docs /\ disk'.entries = disk.entries
      BY <2>10 DEF Crash
    <3>3. QED
      BY <2>10, <3>1, <3>2, NothingIsArchive DEF Crash, call, Closed
  <2>11. CASE UNCHANGED vars
    BY <2>11 DEF vars
  <2>12. QED
    BY <2>1, <2>2, <2>3, <2>4, <2>5, <2>6, <2>7, <2>8, <2>9, <2>10, <2>11
       DEF Next, Step
<1>3. QED
  BY <1>1, <1>2, PTL DEF Spec

-----------------------------------------------------------------------------
(***************************************************************************)
(* IDs of different files stay apart.                                      *)
(*                                                                         *)
(* The property is about the Document.xml on disk; a call carries it       *)
(* through two more versions, the copy in memory (mdoc) and the one in the *)
(* open zip.  What is kept of each version, for a history h:               *)
(***************************************************************************)
Placed(doc, h) ==
  \A n \in doc.nodes : n.from \in 0 .. h.calls /\ n.loc[1] \in h.stamps \cup {Own}

Owned(doc, es) ==
  \A n \in doc.nodes : HasEntry(es, n.loc) => es[n.loc].from = n.from

Bounded(doc, es) ==
  /\ doc.hasMax /\ doc.max \in 0 .. IntMax
  /\ \A n \in doc.nodes : IdsIn(es, n) \subseteq 0 .. doc.max

Apart(doc, es) ==
  \A n, m \in doc.nodes : n.from # m.from => IdsIn(es, n) \cap IdsIn(es, m) = {}

Version(doc, es, h) ==
  /\ Placed(doc, h)
  /\ h.fresh => Owned(doc, es)
  /\ h.fresh /\ h.honest => Bounded(doc, es) /\ Apart(doc, es)

(* The nodes of a version are older than the running call.                 *)
Older(doc, h) == \A n \in doc.nodes : n.from # h.calls

(* What honesty of a source amounts to, once the base is chosen.           *)
Fits(doc, s, b) ==
  /\ s.hasMax /\ s.max > 0 /\ doc.hasMax
  /\ b \in Nat /\ doc.max <= b
  /\ b + s.max + Slack <= IntMax
  /\ \A n \in s.nodes : n.tag \in IdTags => n.id \in 1 .. s.max + Slack
  /\ \A n \in DOMAIN s.entries : s.entries[n].ids \subseteq 1 .. s.max + Slack

(* While entries are copied, the nodes of this call are those that point   *)
(* into its directory, and the base separates their IDs from the others.   *)
Strata(doc, es, h, s, b, t) ==
  /\ \A n \in doc.nodes : n.loc[1] = t <=> n.from = h.calls
  /\ h.honest => \A n \in doc.nodes :
       IF n.from = h.calls
       THEN /\ IdsIn(es, n) \subseteq b + 1 .. IntMax
            /\ doc.max >= b + s.max + Slack
       ELSE IdsIn(es, n) \subseteq 0 .. b

StampsKnown(es, h) == \A l \in DOMAIN es : l[1] \in h.stamps \cup {Own}

IdInv ==
  /\ StampsKnown(disk.entries, hist)
  /\ HasEntry(disk.docs, DocName) =>
       Version(disk.docs[DocName], disk.entries, hist)
  /\ pc # "idle" =>
       /\ HasEntry(disk.docs, DocName) => disk.docs[DocName] = mdoc
       /\ Version(mdoc, disk.entries, hist) /\ Older(mdoc, hist)
       /\ hist.fresh /\ hist.honest => Fits(mdoc, src, base)
  /\ pc = "merging" => zip.docs = disk.docs /\ zip.entries = disk.entries
  /\ pc = "copying" =>
       /\ stamp \in hist.stamps
       /\ StampsKnown(zip.entries, hist)
       /\ HasEntry(zip.docs, DocName) =>
            /\ Version(zip.docs[DocName], zip.entries, hist)
            /\ hist.fresh =>
                 Strata(zip.docs[DocName], zip.entries, hist, src, base, stamp)

-----------------------------------------------------------------------------
(* A version stays good as the history grows.                              *)
LEMMA LaterVersion ==
  ASSUME NEW doc, NEW es, NEW h \in History, NEW g \in History,
         Version(doc, es, h),
         h.calls <= g.calls, h.stamps \subseteq g.stamps,
         g.fresh => h.fresh, g.honest => h.honest
  PROVE  Version(doc, es, g)
<1>1. Placed(doc, g)
  <2>1. h.calls \in Nat /\ g.calls \in Nat
    BY ParametersAssumption DEF History
  <2>2. QED
    BY <2>1 DEF Version, Placed
<1>2. QED
  BY <1>1 DEF Version

(* The base clears the old MaxUnitID, and the shifted IDs fit an int.      *)
LEMMA BaseClears ==
  ASSUME NEW doc \in Document, doc.hasMax, doc.max \in 0 .. IntMax,
         NEW s \in Sources, HonestSource(s, doc)
  PROVE  /\ BaseFor(doc) \in Nat /\ doc.max <= BaseFor(doc)
         /\ BaseFor(doc) + s.max + Slack <= IntMax
<1> DEFINE x == doc.max
           q == x \div BaseStep
           r == x % BaseStep
           c == (q + 1) * BaseStep
<1>1. x \in Nat /\ BaseStep \in Nat /\ BaseStep > 0 /\ Slack \in Nat /\ IntMax \in Nat
  BY ParametersAssumption
<1>2. s.max \in Int /\ s.max > 0
  BY SourcesAssumption DEF IsSource, HonestSource
<1>3. q \in Nat /\ r \in 0 .. BaseStep - 1 /\ x = (BaseStep * q) + r
  BY <1>1, Z3
<1>4. c + s.max + Slack <= IntMax
  BY DEF HonestSource
<1> HIDE DEF q, r
<1>5. c = (BaseStep * q) + BaseStep /\ BaseStep * q \in Nat
  BY <1>1, <1>3, Z3
<1>6. c \in Nat /\ x < c /\ BaseStep <= c
  <2> HIDE DEF c
  <2> DEFINE p == BaseStep * q
  <2>1. p \in Nat /\ c = p + BaseStep /\ x = p + r
    BY <1>3, <1>5
  <2> HIDE DEF p
  <2>2. QED
    BY <2>1, <1>1, <1>3
<1>7. BaseFor(doc) = IF x > BaseStep THEN c ELSE BaseStep
  <2>1. c <= IntMax
    <3> HIDE DEF c
    <3>1. QED
      BY <1>1, <1>2, <1>4, <1>6
  <2>2. Wrap(c) = c
    <3> HIDE DEF c
    <3>1. QED
      BY <2>1, <1>1, <1>6 DEF Wrap
  <2>3. QED
    BY <2>2 DEF BaseFor, q
<1> HIDE DEF c
<1>8. QED
  BY <1>1, <1>2, <1>4, <1>6, <1>7

(* Listing the nodes of another file keeps a version good, and layers it.  *)
LEMMA MergedVersion ==
  ASSUME NEW doc \in Document, NEW s \in Sources, NEW es,
         NEW h \in History, NEW g \in History, NEW b \in Int, NEW t \in Stamps,
         g.calls = h.calls, g.stamps = h.stamps \cup {t},
         g.fresh => h.fresh /\ t \notin h.stamps, g.honest => h.honest,
         Version(doc, es, h), Older(doc, h), StampsKnown(es, h),
         g.fresh /\ g.honest => Fits(doc, s, b)
  PROVE  /\ Version(MergedDocument(doc, s, h.calls, b, t), es, g)
         /\ g.fresh => Strata(MergedDocument(doc, s, h.calls, b, t), es, g, s, b, t)
<1> DEFINE new == MergedDocument(doc, s, h.calls, b, t)
           N == MergedNodes(s, h.calls, b, t)
<1>1. /\ new.nodes = doc.nodes \cup N
      /\ new.max = MergedMax(doc, s, b) /\ new.hasMax = doc.hasMax
  BY DEF MergedDocument, Document
<1>2. h.calls \in Nat /\ IntMax \in Nat /\ Slack \in Nat /\ Own \notin Stamps
  BY ParametersAssumption DEF History
<1>3. s.max \in Int /\ s.nodes \subseteq SourceNode
  BY SourcesAssumption DEF IsSource
<1>4. ASSUME NEW n \in N
      PROVE  /\ n.from = h.calls /\ n.loc[1] = t
             /\ g.fresh => ~HasEntry(es, n.loc)
             /\ \E m \in s.nodes : /\ n.tag \in IdTags => m.tag \in IdTags
                                   /\ n.tag \in IdTags => n.id = Wrap(m.id + b)
  <2>1. PICK m \in s.nodes : n = MergedNode(m, h.calls, b, t)
    BY DEF MergedNodes
  <2>2. /\ n.from = h.calls /\ n.loc = <<t, m.name>>
        /\ n.tag = (IF m.tag = "DocumentRes" THEN "PublicRes" ELSE m.tag)
        /\ n.id = (IF m.tag \in IdTags THEN Wrap(m.id + b) ELSE 0)
    BY <2>1 DEF MergedNode
  <2>3. n.loc[1] = t
    BY <2>2
  <2>4. g.fresh => ~HasEntry(es, n.loc)
    BY <2>3, <1>2 DEF StampsKnown, HasEntry
  <2>5. n.tag \in IdTags => m.tag \in IdTags /\ n.id = Wrap(m.id + b)
    BY <2>2 DEF IdTags
  <2>6. QED
    BY <2>2, <2>3, <2>4, <2>5
<1> HIDE DEF new, N
<1>5. Placed(new, g)
  BY <1>1, <1>2, <1>4 DEF Placed, Version
<1>6. ASSUME g.fresh PROVE Owned(new, es)
  BY <1>1, <1>4, <1>6 DEF Owned, Version
<1>7. ASSUME g.fresh PROVE \A n \in new.nodes : n.loc[1] = t <=> n.from = g.calls
  BY <1>1, <1>2, <1>4, <1>7 DEF Version, Placed, Older
<1>8. ASSUME g.fresh, g.honest
      PROVE  /\ new.max = b + s.max + Slack /\ new.max \in 0 .. IntMax
             /\ \A n \in N : IdsIn(es, n) \subseteq b + 1 .. new.max
             /\ \A n \in doc.nodes : IdsIn(es, n) \subseteq 0 .. b
             /\ \A n \in doc.nodes : IdsIn(es, n) \subseteq 0 .. new.max
  <2>1. Fits(doc, s, b) /\ Bounded(doc, es)
    BY <1>8 DEF Version
  <2>2. b \in Nat /\ s.max > 0 /\ b + s.max + Slack <= IntMax /\ doc.max <= b
        /\ doc.max \in 0 .. IntMax
    BY <2>1 DEF Fits, Bounded
  <2>3. Wrap(s.max + b) = s.max + b
    BY <2>2, <1>2, <1>3 DEF Wrap
  <2>4. Wrap((s.max + b) + Slack) = b + s.max + Slack
    BY <2>2, <1>2, <1>3 DEF Wrap
  <2>5. new.max = b + s.max + Slack
    BY <2>1, <2>3, <2>4, <1>1 DEF MergedMax, Fits
  <2>6. ASSUME NEW n \in N PROVE IdsIn(es, n) \subseteq b + 1 .. new.max
    <3>1. PICK m \in s.nodes : n.tag \in IdTags => m.tag \in IdTags /\ n.id = Wrap(m.id + b)
      BY <1>4
    <3>2. n.tag \in IdTags => n.id \in b + 1 .. new.max
      <4> SUFFICES ASSUME n.tag \in IdTags PROVE n.id \in b + 1 .. new.max
        OBVIOUS
      <4>1. m.id \in 1 .. s.max + Slack
        BY <3>1, <2>1 DEF Fits
      <4>2. Wrap(m.id + b) = m.id + b
        BY <4>1, <2>2, <1>2, <1>3 DEF Wrap
      <4>3. QED
        BY <3>1, <4>1, <4>2, <2>2, <2>5, <1>2, <1>3
    <3>3. QED
      BY <3>2, <1>4, <1>8 DEF IdsIn
  <2>7. \A n \in doc.nodes : IdsIn(es, n) \subseteq 0 .. doc.max
    BY <2>1 DEF Bounded
  <2>8. QED
    BY <2>2, <2>5, <2>6, <2>7, <1>2, <1>3
<1>9. ASSUME g.fresh, g.honest PROVE Bounded(new, es) /\ Apart(new, es)
  <2>1. Fits(doc, s, b) /\ Apart(doc, es)
    BY <1>9 DEF Version
  <2>2. new.hasMax /\ b \in Nat
    BY <2>1, <1>1 DEF Fits
  <2>3. \A n \in N : IdsIn(es, n) \subseteq 0 .. new.max
    BY <1>8, <1>9, <2>2
  <2>4. Bounded(new, es)
    BY <1>1, <1>8, <1>9, <2>2, <2>3 DEF Bounded
  <2>5. \A n \in N, m \in doc.nodes : IdsIn(es, n) \cap IdsIn(es, m) = {}
    BY <1>8, <1>9, <2>2
  <2>6. \A n, m \in N : n.from = m.from
    BY <1>4
  <2>7. QED
    BY <1>1, <2>1, <2>4, <2>5, <2>6 DEF Apart
<1>10. ASSUME g.fresh PROVE Strata(new, es, g, s, b, t)
  <2> SUFFICES ASSUME g.honest, NEW n \in new.nodes
               PROVE  IF n.from = g.calls
                      THEN /\ IdsIn(es, n) \subseteq b + 1 .. IntMax
                           /\ new.max >= b + s.max + Slack
                      ELSE IdsIn(es, n) \subseteq 0 .. b
    BY <1>7, <1>10 DEF Strata
  <2>1. CASE n \in N
    <3>1. n.from = g.calls
      BY <2>1, <1>4
    <3>2. IdsIn(es, n) \subseteq b + 1 .. new.max /\ new.max \in 0 .. IntMax
      BY <2>1, <1>8, <1>10
    <3>3. new.max = b + s.max + Slack
      BY <1>8, <1>10
    <3>4. QED
      BY <3>1, <3>2, <3>3, <1>2
  <2>2. CASE n \in doc.nodes
    BY <2>2, <1>8, <1>10 DEF Older
  <2>3. QED
    BY <2>1, <2>2, <1>1
<1>11. QED
  BY <1>5, <1>6, <1>9, <1>10 DEF Version, new

(* Copying an entry into the call's own directory keeps version and layers.*)
LEMMA CopiedVersion ==
  ASSUME NEW doc \in Document, NEW s \in Sources, NEW es,
         IsArchive(es, Locs, Content),
         NEW h \in History, NEW b \in Int, NEW t \in Stamps \cup {Own},
         NEW nm \in DOMAIN s.entries,
         Version(doc, es, h), h.fresh => Strata(doc, es, h, s, b, t),
         h.fresh /\ h.honest => \E d : Fits(d, s, b)
  PROVE  LET fs == AppendEntry(es, <<t, nm>>,
                     MergedContent(s, s.entries[nm], h.calls, b, t))
         IN  /\ Version(doc, fs, h)
             /\ h.fresh => Strata(doc, fs, h, s, b, t)
<1> DEFINE c == MergedContent(s, s.entries[nm], h.calls, b, t)
           l == <<t, nm>>
           fs == AppendEntry(es, l, c)
<1>1. s.max \in Int /\ nm \in Names /\ s.entries[nm] \in Entry
  BY SourcesAssumption DEF IsSource, IsArchive
<1>2. h.calls \in Nat /\ IntMax \in Nat /\ Slack \in Nat
  BY ParametersAssumption DEF History
<1>3. c \in Content /\ c.from = h.calls
      /\ c.ids = {Wrap(i + b) : i \in s.entries[nm].ids}
  BY <1>1, <1>2, MergedContentType DEF MergedContent
<1>4. l \in Locs /\ l[1] = t
  BY <1>1 DEF Locs
<1> HIDE DEF c
<1>5. /\ DOMAIN fs = DOMAIN es \cup {l}
      /\ \A m \in DOMAIN es : fs[m] = es[m]
      /\ l \notin DOMAIN es => fs[l] = c
  BY <1>3, <1>4, AppendEntryFacts
<1> HIDE DEF fs, l
<1>6. CASE l \in DOMAIN es
  <2>1. DOMAIN fs = DOMAIN es /\ \A m \in DOMAIN es : fs[m] = es[m]
    BY <1>5, <1>6
  <2>2. \A n : IdsIn(fs, n) = IdsIn(es, n)
    BY <2>1 DEF IdsIn, HasEntry
  <2>3. Owned(doc, es) => Owned(doc, fs)
    BY <2>1 DEF Owned, HasEntry
  <2>4. Version(doc, fs, h)
    BY <2>2, <2>3 DEF Version, Bounded, Apart
  <2>5. h.fresh => Strata(doc, fs, h, s, b, t)
    BY <2>2 DEF Strata
  <2>6. QED
    BY <2>4, <2>5 DEF fs, l, c
<1>7. CASE l \notin DOMAIN es
  <2>1. ASSUME NEW n, n.loc # l PROVE IdsIn(fs, n) = IdsIn(es, n)
    BY <1>5, <2>1 DEF IdsIn, HasEntry
  <2>2. ASSUME NEW n, n.loc = l PROVE IdsIn(fs, n) = IdsIn(es, n) \cup c.ids
    BY <1>5, <1>7, <2>2 DEF IdsIn, HasEntry
  <2>3. ASSUME h.fresh, NEW n \in doc.nodes, n.loc = l PROVE n.from = h.calls
    BY <2>3, <1>4 DEF Strata
  <2>4. ASSUME h.fresh PROVE Owned(doc, fs)
    BY <1>3, <1>5, <1>7, <2>3, <2>4 DEF Owned, HasEntry, Version
  <2>5. ASSUME h.fresh, h.honest PROVE c.ids \subseteq b + 1 .. b + s.max + Slack
                                       /\ b \in Nat /\ b + s.max + Slack <= IntMax
    <3>1. PICK d : Fits(d, s, b)
      BY <2>5
    <3>2. /\ s.entries[nm].ids \subseteq 1 .. s.max + Slack
          /\ b \in Nat /\ b + s.max + Slack <= IntMax
      BY <3>1 DEF Fits
    <3>3. ASSUME NEW i \in s.entries[nm].ids PROVE Wrap(i + b) \in b + 1 .. b + s.max + Slack
      <4>1. i \in 1 .. s.max + Slack
        BY <3>2
      <4>2. Wrap(i + b) = i + b
        BY <4>1, <3>2, <1>1, <1>2 DEF Wrap
      <4>3. QED
        BY <4>1, <4>2, <3>2, <1>1, <1>2
    <3>4. QED
      BY <3>2, <3>3, <1>3
  <2>6. ASSUME h.fresh PROVE Strata(doc, fs, h, s, b, t)
    <3> SUFFICES ASSUME h.honest, NEW n \in doc.nodes
                 PROVE  IF n.from = h.calls
                        THEN /\ IdsIn(fs, n) \subseteq b + 1 .. IntMax
                             /\ doc.max >= b + s.max + Slack
                        ELSE IdsIn(fs, n) \subseteq 0 .. b
      BY <2>6 DEF Strata
    <3>1. IF n.from = h.calls
          THEN /\ IdsIn(es, n) \subseteq b + 1 .. IntMax
               /\ doc.max >= b + s.max + Slack
          ELSE IdsIn(es, n) \subseteq 0 .. b
      BY <2>6 DEF Strata
    <3>2. CASE n.loc # l
      BY <3>1, <3>2, <2>1
    <3>3. CASE n.loc = l
      <4>1. c.ids \subseteq b + 1 .. IntMax
        BY <2>5, <2>6, <1>1, <1>2
      <4>2. QED
        BY <3>1, <3>3, <4>1, <2>2, <2>3, <2>6
    <3>4. QED
      BY <3>2, <3>3
  <2>7. ASSUME h.fresh, h.honest PROVE Bounded(doc, fs)
    <3>1. Bounded(doc, es) /\ Strata(doc, es, h, s, b, t)
      BY <2>7 DEF Version
    <3>2. ASSUME NEW n \in doc.nodes PROVE IdsIn(fs, n) \subseteq 0 .. doc.max
      <4>1. IdsIn(es, n) \subseteq 0 .. doc.max /\ doc.max \in 0 .. IntMax
        BY <3>1 DEF Bounded
      <4>2. CASE n.loc = l
        <5>1. doc.max >= b + s.max + Slack
          BY <3>1, <4>2, <2>3, <2>7 DEF Strata
        <5>2. c.ids \subseteq 0 .. doc.max
          BY <5>1, <2>5, <2>7, <1>1, <1>2, <4>1
        <5>3. QED
          BY <4>1, <4>2, <5>2, <2>2
      <4>3. QED
        BY <4>1, <4>2, <2>1
    <3>3. QED
      BY <3>1, <3>2 DEF Bounded
  <2>8. ASSUME h.fresh, h.honest PROVE Apart(doc, fs)
    <3> SUFFICES ASSUME NEW n \in doc.nodes, NEW m \in doc.nodes, n.from # m.from
                 PROVE  IdsIn(fs, n) \cap IdsIn(fs, m) = {}
      BY DEF Apart
    <3>1. CASE n.loc # l /\ m.loc # l
      BY <3>1, <2>1, <2>8 DEF Version, Apart
    <3>2. CASE n.loc = l \/ m.loc = l
      <4>1. Strata(doc, fs, h, s, b, t) /\ b \in Nat
        BY <2>5, <2>6, <2>8
      <4>2. n.from = h.calls \/ m.from = h.calls
        BY <3>2, <2>3, <2>8
      <4>3. \/ IdsIn(fs, n) \subseteq b + 1 .. IntMax /\ IdsIn(fs, m) \subseteq 0 .. b
            \/ IdsIn(fs, m) \subseteq b + 1 .. IntMax /\ IdsIn(fs, n) \subseteq 0 .. b
        BY <4>1, <4>2, <2>8 DEF Strata
      <4>4. QED
        BY <4>1, <4>3, <1>2
    <3>3. QED
      BY <3>1, <3>2
  <2>9. Version(doc, fs, h)
    BY <2>4, <2>7, <2>8 DEF Version
  <2>10. QED
    BY <2>6, <2>9 DEF fs, l, c
<1>8. QED
  BY <1>6, <1>7

-----------------------------------------------------------------------------
(* The invariant holds of any target.                                      *)
LEMMA InitIdInv == Init => IdInv
<1> SUFFICES ASSUME Init PROVE IdInv
  OBVIOUS
<1>1. PICK u \in Targets :
        /\ disk = [ok |-> TRUE, exact |-> u.exact, entries |-> u.entries,
                   docs |-> [n \in {DocName} |-> u.doc]]
        /\ hist = [calls |-> 0, stamps |-> {}, fresh |-> TRUE,
                   mishap |-> FALSE, honest |-> HonestTarget(u),
                   plain |-> PlainTarget(u), seen |-> u.doc.nodes, owed |-> {}]
  BY DEF Init
<1>2. IsTarget(u) /\ pc = "idle"
  BY TargetsAssumption DEF Init
<1>3. StampsKnown(u.entries, hist)
  BY <1>1, <1>2 DEF StampsKnown, IsTarget, IsArchive
<1>4. Placed(u.doc, hist)
  BY <1>1, <1>2 DEF Placed, IsTarget
<1>5. Owned(u.doc, u.entries)
  BY <1>2 DEF Owned, IsTarget, HasEntry
<1>6. ASSUME HonestTarget(u) PROVE Bounded(u.doc, u.entries)
  BY <1>6 DEF HonestTarget, Bounded, IdsIn, HasEntry
<1>7. Apart(u.doc, u.entries)
  BY <1>2 DEF IsTarget, Apart
<1>8. Version(u.doc, u.entries, hist)
  BY <1>1, <1>4, <1>5, <1>6, <1>7 DEF Version
<1>9. disk.docs[DocName] = u.doc /\ disk.entries = u.entries
  BY <1>1
<1>10. QED
  BY <1>2, <1>3, <1>8, <1>9 DEF IdInv

(* Every step of a call preserves it.                                      *)
LEMMA NextIdInv == TypeOK /\ TypeOK' /\ IdInv /\ [Next]_vars => IdInv'
<1> SUFFICES ASSUME TypeOK, TypeOK', IdInv, [Next]_vars PROVE IdInv'
  OBVIOUS
<1>0. hist \in History /\ hist' \in History /\ hist.calls \in Nat
  BY ParametersAssumption DEF TypeOK, History
<1>1. ASSUME NEW s \in Sources, Begin(s) PROVE IdInv'
  <2> DEFINE doc == disk.docs[DocName]
  <2>1. /\ hist'.calls = hist.calls + 1 /\ hist'.stamps = hist.stamps
        /\ hist'.fresh = hist.fresh
        /\ hist'.honest = (hist.honest /\ HonestSource(s, doc))
    BY <1>1, <1>0 DEF Begin, History
  <2>2. /\ disk' = disk /\ pc' = "opened" /\ mdoc' = doc /\ src' = s
        /\ base' = BaseFor(doc) /\ HasEntry(disk.docs, DocName)
    BY <1>1 DEF Begin, Readable
  <2>3. doc \in Document
    BY <2>2 DEF TypeOK, IsArchive, HasEntry
  <2>4. Version(doc, disk.entries, hist)
    BY <2>2 DEF IdInv
  <2>5. Version(doc, disk.entries, hist')
    <3>1. /\ hist.calls <= hist'.calls /\ hist.stamps \subseteq hist'.stamps
          /\ hist'.fresh => hist.fresh
      BY <2>1, <1>0
    <3>2. hist'.honest => hist.honest
      BY <2>1
    <3>3. QED
      BY <3>1, <3>2, <2>4, <1>0, LaterVersion
  <2>6. Older(doc, hist')
    BY <2>1, <2>4, <1>0 DEF Older, Version, Placed
  <2>7. ASSUME hist'.fresh, hist'.honest PROVE Fits(doc, s, BaseFor(doc))
    <3>1. HonestSource(s, doc) /\ Bounded(doc, disk.entries)
      BY <2>1, <2>4, <2>7 DEF Version
    <3>2. QED
      BY <3>1, <2>3, BaseClears DEF Bounded, Fits, HonestSource
  <2>8. StampsKnown(disk.entries, hist')
    BY <2>1 DEF IdInv, StampsKnown
  <2>9. QED
    BY <2>2, <2>5, <2>6, <2>7, <2>8 DEF IdInv
<1>2. CASE Refuse
  <2>1. /\ hist'.calls = hist.calls + 1 /\ hist'.stamps = hist.stamps
        /\ hist'.fresh = hist.fresh /\ hist'.honest = hist.honest
    BY <1>2, <1>0 DEF Refuse, History
  <2>2. disk' = disk /\ pc' = "idle"
    BY <1>2 DEF Refuse
  <2>3. HasEntry(disk.docs, DocName) =>
          Version(disk.docs[DocName], disk.entries, hist')
    BY <2>1, <1>0, LaterVersion DEF IdInv
  <2>4. StampsKnown(disk.entries, hist')
    BY <2>1 DEF IdInv, StampsKnown
  <2>5. QED
    BY <2>2, <2>3, <2>4 DEF IdInv
<1>3. CASE OpenForDelete
  BY <1>3 DEF OpenForDelete, IdInv, call
<1>4. CASE OpenForDeleteFails
  BY <1>4 DEF OpenForDeleteFails, IdInv, call
<1>5. CASE DeleteDocument
  <2>1. /\ hist'.calls = hist.calls /\ hist'.stamps = hist.stamps
        /\ hist'.fresh = hist.fresh /\ hist'.honest = hist.honest
    BY <1>5, <1>0 DEF DeleteDocument, History
  <2>2. /\ pc = "deleting" /\ pc' = "merging" /\ disk'.entries = disk.entries
        /\ HasEntry(disk'.docs, DocName) => disk'.docs = disk.docs
        /\ zip'.docs = disk'.docs /\ zip'.entries = disk.entries
        /\ mdoc' = mdoc /\ src' = src /\ base' = base
    BY <1>5 DEF DeleteDocument, DeleteEntry, HasEntry, call, TypeOK
  <2>3. \A doc, es : Version(doc, es, hist) => Version(doc, es, hist')
    BY <2>1, <1>0, LaterVersion
  <2>4. \A doc : Older(doc, hist) => Older(doc, hist')
    BY <2>1 DEF Older
  <2>5. StampsKnown(disk.entries, hist')
    BY <2>1 DEF IdInv, StampsKnown
  <2>6. QED
    BY <2>1, <2>2, <2>3, <2>4, <2>5 DEF IdInv
<1>6. ASSUME NEW t \in Stamps, MergeDoc(t) PROVE IdInv'
  <2> DEFINE new == MergedDocument(mdoc, src, hist.calls, base, t)
  <2>1. /\ hist'.calls = hist.calls /\ hist'.stamps = hist.stamps \cup {t}
        /\ hist'.fresh = (hist.fresh /\ t \notin hist.stamps)
        /\ hist'.honest = hist.honest
    BY <1>6, <1>0 DEF MergeDoc, History
  <2>2. /\ pc = "merging" /\ pc' = "copying" /\ disk' = disk /\ stamp' = t
        /\ mdoc' = mdoc /\ src' = src /\ base' = base
        /\ zip'.entries = zip.entries
        /\ zip'.docs = zip.docs \/ zip'.docs = AppendEntry(zip.docs, DocName, new)
    BY <1>6 DEF MergeDoc, call, TypeOK
  <2>3. zip.docs = disk.docs /\ zip.entries = disk.entries
    BY <2>2 DEF IdInv
  <2>4. \A doc, es : Version(doc, es, hist) => Version(doc, es, hist')
    <3>1. /\ hist.calls <= hist'.calls /\ hist.stamps \subseteq hist'.stamps
          /\ hist'.honest => hist.honest
      BY <2>1, <1>0
    <3>2. hist'.fresh => hist.fresh
      BY <2>1
    <3>3. QED
      BY <3>1, <3>2, <1>0, LaterVersion
  <2>5. \A doc : Older(doc, hist) => Older(doc, hist')
    BY <2>1 DEF Older
  <2>6. StampsKnown(disk.entries, hist) /\ StampsKnown(disk.entries, hist')
    BY <2>1 DEF IdInv, StampsKnown
  <2>7. /\ Version(new, disk.entries, hist')
        /\ hist'.fresh => Strata(new, disk.entries, hist', src, base, t)
    <3>1. /\ Version(mdoc, disk.entries, hist) /\ Older(mdoc, hist)
          /\ hist.fresh /\ hist.honest => Fits(mdoc, src, base)
      BY <2>2 DEF IdInv
    <3>2. mdoc \in Document /\ src \in Sources /\ base \in Int
      BY DEF TypeOK
    <3>3. QED
      BY <3>1, <3>2, <2>1, <2>6, <1>0, MergedVersion
  <2>8. HasEntry(disk.docs, DocName) =>
          /\ Version(disk.docs[DocName], disk.entries, hist')
          /\ hist'.fresh => Strata(disk.docs[DocName], disk.entries, hist', src, base, t)
    <3>1. /\ Version(mdoc, disk.entries, hist) /\ Older(mdoc, hist)
          /\ hist.fresh /\ hist.honest => Fits(mdoc, src, base)
          /\ HasEntry(disk.docs, DocName) => disk.docs[DocName] = mdoc
      BY <2>2 DEF IdInv
    <3>2. ASSUME hist'.fresh PROVE Strata(mdoc, disk.entries, hist', src, base, t)
      <4>1. hist.fresh /\ t \notin hist.stamps
        BY <2>1, <3>2
      <4>2. \A n \in mdoc.nodes : n.loc[1] # t /\ n.from # hist'.calls
        BY <2>1, <3>1, <4>1, ParametersAssumption DEF Version, Placed, Older
      <4>3. ASSUME hist'.honest, NEW n \in mdoc.nodes
            PROVE  IdsIn(disk.entries, n) \subseteq 0 .. base
        <5>1. Fits(mdoc, src, base) /\ Bounded(mdoc, disk.entries)
          BY <2>1, <3>1, <4>1, <4>3 DEF Version
        <5>2. IdsIn(disk.entries, n) \subseteq 0 .. mdoc.max
          BY <5>1 DEF Bounded
        <5>3. base \in Nat /\ mdoc.max <= base /\ mdoc.max \in 0 .. IntMax
          BY <5>1 DEF Bounded, Fits
        <5>4. QED
          BY <5>2, <5>3, ParametersAssumption
      <4>4. QED
        BY <4>2, <4>3 DEF Strata
    <3>3. QED
      BY <3>1, <3>2, <2>4
  <2>9. HasEntry(zip'.docs, DocName) =>
          zip'.docs[DocName] = new \/ (HasEntry(disk.docs, DocName)
                                       /\ zip'.docs[DocName] = disk.docs[DocName])
    BY <2>2, <2>3 DEF HasEntry, AppendEntry
  <2>10. QED
    BY <2>1, <2>2, <2>3, <2>4, <2>5, <2>6, <2>7, <2>8, <2>9 DEF IdInv
<1>7. ASSUME NEW n \in Names, CopyEntry(n) PROVE IdInv'
  <2> DEFINE doc == zip.docs[DocName]
  <2>1. /\ hist' = hist /\ disk' = disk /\ pc = "copying" /\ pc' = pc
        /\ stamp' = stamp /\ mdoc' = mdoc /\ src' = src /\ base' = base
        /\ n \in DOMAIN src.entries /\ zip'.docs = zip.docs
        /\ zip'.entries = AppendEntry(zip.entries, <<stamp, n>>,
             MergedContent(src, src.entries[n], hist.calls, base, stamp))
    BY <1>7 DEF CopyEntry, call, TypeOK
  <2>2. StampsKnown(zip'.entries, hist)
    <3>1. stamp \in hist.stamps /\ StampsKnown(zip.entries, hist)
      BY <2>1 DEF IdInv
    <3>2. DOMAIN zip'.entries = DOMAIN zip.entries \cup {<<stamp, n>>}
      BY <2>1 DEF AppendEntry
    <3>3. QED
      BY <3>1, <3>2 DEF StampsKnown
  <2>3. ASSUME HasEntry(zip.docs, DocName)
        PROVE  /\ Version(doc, zip'.entries, hist)
               /\ hist.fresh => Strata(doc, zip'.entries, hist, src, base, stamp)
    <3>1. /\ doc \in Document /\ src \in Sources /\ base \in Int
          /\ IsArchive(zip.entries, Locs, Content) /\ stamp \in Stamps \cup {Own}
      BY <2>3 DEF TypeOK, IsArchive, HasEntry
    <3>2. /\ Version(doc, zip.entries, hist)
          /\ hist.fresh => Strata(doc, zip.entries, hist, src, base, stamp)
          /\ hist.fresh /\ hist.honest => Fits(mdoc, src, base)
      BY <2>1, <2>3 DEF IdInv
    <3>3. QED
      BY <3>1, <3>2, <2>1, <1>0, CopiedVersion
  <2>4. QED
    BY <2>1, <2>2, <2>3 DEF IdInv
<1>8. ASSUME NEW n \in Names, DropEntry(n) PROVE IdInv'
  <2>1. /\ hist'.calls = hist.calls /\ hist'.stamps = hist.stamps
        /\ hist'.fresh = hist.fresh /\ hist'.honest = hist.honest
    BY <1>8, <1>0 DEF DropEntry, History
  <2>2. /\ disk' = disk /\ pc = "copying" /\ pc' = pc
        /\ stamp' = stamp /\ mdoc' = mdoc /\ src' = src /\ base' = base
        /\ zip'.docs = zip.docs /\ zip'.entries = zip.entries
    BY <1>8 DEF DropEntry, call, TypeOK
  <2>3. \A doc, es : Version(doc, es, hist) => Version(doc, es, hist')
    BY <2>1, <1>0, LaterVersion
  <2>4. \A doc : Older(doc, hist) => Older(doc, hist')
    BY <2>1 DEF Older
  <2>5. \A es : StampsKnown(es, hist) => StampsKnown(es, hist')
    BY <2>1 DEF StampsKnown
  <2>6. \A doc, es, s, b, t : Strata(doc, es, hist, s, b, t) => Strata(doc, es, hist', s, b, t)
    BY <2>1 DEF Strata
  <2>7. QED
    BY <2>1, <2>2, <2>3, <2>4, <2>5, <2>6 DEF IdInv
<1>9. CASE Finish
  <2>1. /\ hist'.calls = hist.calls /\ hist'.stamps = hist.stamps
        /\ hist'.fresh = hist.fresh /\ hist'.honest = hist.honest
    BY <1>9, <1>0 DEF Finish, History
  <2>2. /\ pc = "copying" /\ pc' = "idle"
        /\ \/ disk'.docs = zip.docs /\ disk'.entries = zip.entries
           \/ disk'.docs = disk.docs /\ disk'.entries = disk.entries
    BY <1>9 DEF Finish, TypeOK
  <2>3. \A doc, es : Version(doc, es, hist) => Version(doc, es, hist')
    BY <2>1, <1>0, LaterVersion
  <2>4. \A es : StampsKnown(es, hist) => StampsKnown(es, hist')
    BY <2>1 DEF StampsKnown
  <2>5. QED
    BY <2>2, <2>3, <2>4 DEF IdInv
<1>10. CASE Crash
  <2>1. /\ hist'.calls = hist.calls /\ hist'.stamps = hist.stamps
        /\ hist'.fresh = hist.fresh /\ hist'.honest = hist.honest
    BY <1>10, <1>0 DEF Crash, History
  <2>2. pc' = "idle" /\ disk'.docs = disk.docs /\ disk'.entries = disk.entries
    BY <1>10 DEF Crash, TypeOK
  <2>3. \A doc, es : Version(doc, es, hist) => Version(doc, es, hist')
    BY <2>1, <1>0, LaterVersion
  <2>4. \A es : StampsKnown(es, hist) => StampsKnown(es, hist')
    BY <2>1 DEF StampsKnown
  <2>5. QED
    BY <2>2, <2>3, <2>4 DEF IdInv
<1>11. CASE UNCHANGED vars
  BY <1>11 DEF vars, IdInv
<1>12. QED
  BY <1>1, <1>2, <1>3, <1>4, <1>5, <1>6, <1>7, <1>8, <1>9, <1>10, <1>11
     DEF Next, Step

LEMMA IdInvariant == Spec => []IdInv
  BY TypeCorrect, InitIdInv, NextIdInv, PTL DEF Spec

(* However many files are merged and wherever a call fails or dies, nodes  *)
(* of different files never share an ID (honest MaxUnitIDs, distinct       *)
(* seconds): COfd_Merge's choice of m_base_id is sound.                    *)
THEOREM MergeKeepsIdsApart == Spec => []MergedIdsDisjoint
<1>1. IdInv => MergedIdsDisjoint
  BY DEF IdInv, MergedIdsDisjoint, Readable, Version, Apart, Nodes, IdsAt
<1>2. QED
  BY <1>1, IdInvariant, PTL

(* MaxUnitID bounds every ID that a reader of the target can reach.        *)
THEOREM MergeKeepsMaxUnitID == Spec => []MaxUnitIDCovers
<1>1. TypeOK /\ IdInv => MaxUnitIDCovers
  BY DEF IdInv, MaxUnitIDCovers, Readable, Version, Bounded, Nodes, IdsAt
<1>2. QED
  BY <1>1, IdInvariant, TypeCorrect, PTL

(* No location leads to the bytes of another file (distinct seconds).      *)
THEOREM MergeKeepsContent == Spec => []OwnContent
<1>1. IdInv => OwnContent
  BY DEF IdInv, OwnContent, Readable, Version, Owned, Nodes
<1>2. QED
  BY <1>1, IdInvariant, PTL

-----------------------------------------------------------------------------
(***************************************************************************)
(* What a merge brings in is kept.                                         *)
(*                                                                         *)
(* Intact says from which step on the target can be unreadable without a   *)
(* mishap: never.  Kept says where, between reading Document.xml and the   *)
(* zip_close of the destructor, the nodes and the entries that a reader    *)
(* was promised are: on disk, in memory, in the open zip, or still to be   *)
(* copied.  Led says the same of the entries that annotation lists name.   *)
(***************************************************************************)
Intact ==
  /\ pc = "idle" => Readable \/ hist.mishap
  /\ pc \in {"opened", "deleting"} => Readable
  /\ pc \in {"merging", "copying"} => disk.ok
  /\ pc \in {"merging", "copying"} => zip.opened \/ hist.mishap
  /\ pc = "copying" => HasEntry(zip.docs, DocName) \/ hist.mishap

(* The entries of the running call that have not been copied yet.          *)
Pending == {stamp} \X todo

Kept ==
  /\ HasEntry(disk.docs, DocName) => hist.seen \subseteq disk.docs[DocName].nodes
  /\ pc # "idle" => hist.seen \subseteq mdoc.nodes
  /\ pc = "copying" /\ HasEntry(zip.docs, DocName) =>
       hist.seen \subseteq zip.docs[DocName].nodes
  /\ pc # "copying" \/ ~zip.opened => hist.owed \subseteq DOMAIN disk.entries
  /\ pc = "copying" =>
       /\ hist.owed \subseteq DOMAIN disk.entries \cup ({stamp} \X Names)
       /\ zip.opened => hist.owed \subseteq DOMAIN zip.entries \cup Pending
       /\ DOMAIN disk.entries \subseteq DOMAIN zip.entries

Leads(es, known) == \A l \in DOMAIN es : es[l].refs \subseteq known

Led ==
  hist.plain /\ ~hist.mishap =>
    /\ Leads(disk.entries, DOMAIN disk.entries)
    /\ pc # "idle" => PlainSource(src)
    /\ pc = "copying" =>
         /\ {stamp} \X DOMAIN src.entries \subseteq DOMAIN zip.entries \cup Pending
         /\ Leads(zip.entries, DOMAIN zip.entries \cup Pending)

KeepInv == Intact /\ Kept /\ Led

LEMMA InitKeepInv == Init => KeepInv
<1> SUFFICES ASSUME Init PROVE KeepInv
  OBVIOUS
<1>1. PICK u \in Targets :
        /\ disk = [ok |-> TRUE, exact |-> u.exact, entries |-> u.entries,
                   docs |-> [n \in {DocName} |-> u.doc]]
        /\ hist = [calls |-> 0, stamps |-> {}, fresh |-> TRUE,
                   mishap |-> FALSE, honest |-> HonestTarget(u),
                   plain |-> PlainTarget(u), seen |-> u.doc.nodes, owed |-> {}]
  BY DEF Init
<1>2. pc = "idle"
  BY DEF Init
<1>3. Intact /\ Kept
  BY <1>1, <1>2 DEF Intact, Kept, Readable, HasEntry
<1>4. Led
  BY <1>1, <1>2 DEF Led, Leads, PlainTarget
<1>5. QED
  BY <1>3, <1>4 DEF KeepInv

(* Copying an entry moves it from the pending ones to those in the zip.    *)
LEMMA CopyMovesPending ==
  ASSUME NEW es, IsArchive(es, Locs, Content), NEW c \in Content,
         NEW t \in Stamps \cup {Own}, NEW left, NEW n \in Names
  PROVE  DOMAIN es \cup ({t} \X left) \subseteq
           DOMAIN AppendEntry(es, <<t, n>>, c) \cup ({t} \X (left \ {n}))
<1>1. <<t, n>> \in Locs
  BY DEF Locs
<1>2. DOMAIN AppendEntry(es, <<t, n>>, c) = DOMAIN es \cup {<<t, n>>}
  BY <1>1, AppendEntryFacts
<1>3. ASSUME NEW m \in left, m # n PROVE <<t, m>> \in {t} \X (left \ {n})
  BY <1>3
<1>4. QED
  BY <1>2, <1>3

LEMMA NextKeepInv ==
  TypeOK /\ TypeOK' /\ IdInv /\ KeepInv /\ [Next]_vars => KeepInv'
<1> SUFFICES ASSUME TypeOK, TypeOK', IdInv, KeepInv, [Next]_vars PROVE KeepInv'
  OBVIOUS
<1>0. hist \in History /\ hist' \in History /\ Intact /\ Kept /\ Led
  BY DEF TypeOK, KeepInv
<1>1. ASSUME NEW s \in Sources, Begin(s) PROVE KeepInv'
  <2>1. /\ pc = "idle" /\ pc' = "opened" /\ disk' = disk /\ zip' = zip
        /\ mdoc' = disk.docs[DocName] /\ src' = s /\ Readable
        /\ hist'.mishap = hist.mishap
        /\ hist'.plain = (hist.plain /\ PlainSource(s))
        /\ hist'.seen = hist.seen /\ hist'.owed = hist.owed
    BY <1>1, <1>0 DEF Begin, History
  <2>2. Intact' /\ Kept'
    BY <2>1, <1>0 DEF Intact, Kept, Readable
  <2>3. Led'
    BY <2>1, <1>0 DEF Led
  <2>4. QED
    BY <2>2, <2>3 DEF KeepInv
<1>2. CASE Refuse
  <2>1. /\ pc = "idle" /\ pc' = "idle" /\ disk' = disk
        /\ hist'.mishap = hist.mishap /\ hist'.plain = hist.plain
        /\ hist'.seen = hist.seen /\ hist'.owed = hist.owed
    BY <1>2, <1>0 DEF Refuse, History
  <2>2. QED
    BY <2>1, <1>0 DEF KeepInv, Intact, Kept, Led, Readable
<1>3. CASE OpenForDelete
  BY <1>3, <1>0 DEF OpenForDelete, call, KeepInv, Intact, Kept, Led, Readable
<1>4. CASE OpenForDeleteFails
  BY <1>4, <1>0 DEF OpenForDeleteFails, call, KeepInv, Intact, Kept, Led, Readable
<1>5. CASE DeleteDocument
  <2>1. /\ pc = "deleting" /\ pc' = "merging" /\ disk'.entries = disk.entries
        /\ disk'.ok = disk.ok /\ mdoc' = mdoc /\ src' = src
        /\ HasEntry(disk'.docs, DocName) => disk'.docs = disk.docs
        /\ zip'.opened \/ hist'.mishap
    BY <1>5, <1>0 DEF DeleteDocument, DeleteEntry, HasEntry, call, TypeOK, History
  <2>2. /\ hist'.mishap \/ ~hist.mishap
        /\ hist'.plain = hist.plain
        /\ hist'.seen = hist.seen /\ hist'.owed = hist.owed
    BY <1>5, <1>0 DEF DeleteDocument, History
  <2>3. QED
    BY <2>1, <2>2, <1>0 DEF KeepInv, Intact, Kept, Led, Readable
<1>6. ASSUME NEW t \in Stamps, MergeDoc(t) PROVE KeepInv'
  <2> DEFINE new == MergedDocument(mdoc, src, hist.calls, base, t)
  <2>1. /\ pc = "merging" /\ pc' = "copying" /\ disk' = disk /\ stamp' = t
        /\ src' = src /\ mdoc' = mdoc /\ todo' = DOMAIN src.entries
    BY <1>6 DEF MergeDoc, call
  <2>2. PICK written \in BOOLEAN :
          /\ written => src.parses /\ zip.opened
          /\ zip' = [zip EXCEPT !.dirty = src.parses /\ zip.opened,
               !.docs = IF written THEN AppendEntry(@, DocName, new) ELSE @]
          /\ hist' = [hist EXCEPT !.mishap = @ \/ ~written,
                             !.fresh = @ /\ t \notin hist.stamps,
                             !.stamps = @ \cup {t},
                             !.owed = @ \cup
                               IF written THEN {t} \X DOMAIN src.entries
                                          ELSE {}]
    BY <1>6 DEF MergeDoc
  <2>3. /\ zip'.entries = zip.entries /\ zip'.opened = zip.opened
        /\ zip'.docs = IF written THEN AppendEntry(zip.docs, DocName, new)
                       ELSE zip.docs
    BY <2>2 DEF TypeOK
  <2>4. /\ hist'.mishap = (hist.mishap \/ ~written) /\ hist'.plain = hist.plain
        /\ hist'.seen = hist.seen
        /\ hist'.owed = hist.owed \cup
             IF written THEN {t} \X DOMAIN src.entries ELSE {}
    BY <2>2, <1>0 DEF History
  <2>5. zip.docs = disk.docs /\ zip.entries = disk.entries
    BY <2>1 DEF IdInv
  <2>6. DOMAIN src.entries \subseteq Names
    BY SourcesAssumption DEF TypeOK, IsSource, IsArchive
  <2>7. Intact'
    <3>1. written => HasEntry(zip'.docs, DocName)
      BY <2>3 DEF HasEntry, AppendEntry
    <3>2. QED
      BY <2>1, <2>3, <2>4, <3>1, <1>0 DEF Intact
  <2>8. Kept'
    <3>1. hist.seen \subseteq mdoc.nodes /\ mdoc.nodes \subseteq new.nodes
      BY <2>1, <1>0 DEF Kept, MergedDocument, TypeOK, Document
    <3>2. HasEntry(zip'.docs, DocName) => hist.seen \subseteq zip'.docs[DocName].nodes
      BY <2>3, <2>5, <3>1, <1>0 DEF Kept, HasEntry, AppendEntry
    <3>3. hist.owed \subseteq DOMAIN disk.entries
      BY <2>1, <1>0 DEF Kept
    <3>4. hist'.owed \subseteq DOMAIN disk.entries \cup ({t} \X DOMAIN src.entries)
      BY <2>4, <3>3
    <3>5. {t} \X DOMAIN src.entries \subseteq {t} \X Names
      BY <2>6
    <3>6. ~zip.opened => hist'.owed = hist.owed
      BY <2>2, <2>4
    <3>7. Pending' = {t} \X DOMAIN src.entries
      BY <2>1 DEF Pending
    <3>8. QED
      BY <2>1, <2>3, <2>4, <2>5, <3>1, <3>2, <3>3, <3>4, <3>5, <3>6, <3>7, <1>0
         DEF Kept
  <2>9. Led'
    <3>1. Pending' = {t} \X DOMAIN src.entries
      BY <2>1 DEF Pending
    <3>2. QED
      BY <2>1, <2>3, <2>4, <2>5, <3>1, <1>0 DEF Led, Leads
  <2>10. QED
    BY <2>7, <2>8, <2>9 DEF KeepInv
<1>7. ASSUME NEW n \in Names, CopyEntry(n) PROVE KeepInv'
  <2> DEFINE e == src.entries[n]
             c == MergedContent(src, e, hist.calls, base, stamp)
  <2>1. /\ pc = "copying" /\ pc' = "copying" /\ disk' = disk /\ hist' = hist
        /\ src' = src /\ mdoc' = mdoc /\ stamp' = stamp
        /\ n \in todo /\ todo' = todo \ {n} /\ zip.opened
    BY <1>7 DEF CopyEntry, call
  <2>2. /\ zip'.docs = zip.docs /\ zip'.opened = zip.opened
        /\ zip'.entries = AppendEntry(zip.entries, <<stamp, n>>, c)
    BY <1>7 DEF CopyEntry, TypeOK
  <2>3. n \in DOMAIN src.entries /\ e \in Entry
    BY <2>1, SourcesAssumption DEF TypeOK, IsSource, IsArchive
  <2>4. c \in Content /\ <<stamp, n>> \in Locs
    BY <2>3, <1>0, MergedContentType, ParametersAssumption DEF TypeOK, History, Locs
  <2>5. /\ DOMAIN zip'.entries = DOMAIN zip.entries \cup {<<stamp, n>>}
        /\ \A m \in DOMAIN zip.entries : zip'.entries[m] = zip.entries[m]
        /\ <<stamp, n>> \notin DOMAIN zip.entries => zip'.entries[<<stamp, n>>] = c
    <3> HIDE DEF c
    <3>1. IsArchive(zip.entries, Locs, Content)
      BY DEF TypeOK
    <3>2. QED
      BY <2>2, <2>4, <3>1, AppendEntryFacts
  <2>6. DOMAIN zip.entries \cup Pending \subseteq DOMAIN zip'.entries \cup Pending'
    BY <2>1, <2>2, <2>4, CopyMovesPending DEF Pending, TypeOK
  <2>7. Intact'
    BY <2>1, <2>2, <1>0 DEF Intact
  <2>8. Kept'
    BY <2>1, <2>2, <2>5, <2>6, <1>0 DEF Kept
  <2>9. ASSUME hist.plain, ~hist.mishap
        PROVE  Leads(zip'.entries, DOMAIN zip'.entries \cup Pending')
    <3>1. c.refs \subseteq {stamp} \X DOMAIN src.entries
      <4>1. PlainSource(src)
        BY <2>1, <2>9, <1>0 DEF Led
      <4>2. CASE e.kind = "annots"
        <5>1. ASSUME NEW r \in e.refs
              PROVE  MergedRef(src, e, r, stamp) \in {stamp} \X DOMAIN src.entries
          BY <2>3, <4>1, <4>2 DEF PlainSource, MergedRef
        <5>2. c.refs = {MergedRef(src, e, r, stamp) : r \in e.refs}
          BY <4>2 DEF MergedContent
        <5>3. QED
          BY <5>1, <5>2
      <4>3. CASE e.kind # "annots"
        BY <4>3 DEF MergedContent
      <4>4. QED
        BY <4>2, <4>3
    <3>2. {stamp} \X DOMAIN src.entries \subseteq DOMAIN zip.entries \cup Pending
      BY <2>1, <2>9, <1>0 DEF Led
    <3>3. Leads(zip.entries, DOMAIN zip.entries \cup Pending)
      BY <2>1, <2>9, <1>0 DEF Led
    <3>4. QED
      BY <2>5, <2>6, <3>1, <3>2, <3>3 DEF Leads
  <2>10. Led'
    BY <2>1, <2>6, <2>9, <1>0 DEF Led
  <2>11. QED
    BY <2>7, <2>8, <2>10 DEF KeepInv
<1>8. ASSUME NEW n \in Names, DropEntry(n) PROVE KeepInv'
  <2>1. /\ pc = "copying" /\ pc' = "copying" /\ disk' = disk /\ mdoc' = mdoc
        /\ src' = src /\ stamp' = stamp /\ todo' = todo \ {n}
        /\ zip'.docs = zip.docs /\ zip'.entries = zip.entries
        /\ zip'.opened = zip.opened
    BY <1>8 DEF DropEntry, call, TypeOK
  <2>2. /\ hist'.mishap /\ hist'.seen = hist.seen
        /\ hist'.owed = hist.owed \ {<<stamp, n>>}
    BY <1>8, <1>0 DEF DropEntry, History
  <2>3. Pending \subseteq Pending' \cup {<<stamp, n>>}
    BY <2>1 DEF Pending
  <2>4. Intact' /\ Led'
    BY <2>1, <2>2, <1>0 DEF Intact, Led
  <2>5. Kept'
    BY <2>1, <2>2, <2>3, <1>0 DEF Kept
  <2>6. QED
    BY <2>4, <2>5 DEF KeepInv
<1>9. CASE Finish
  <2>1. /\ pc = "copying" /\ pc' = "idle" /\ todo = {} /\ disk'.ok = disk.ok
        /\ zip.opened => disk'.docs = zip.docs /\ disk'.entries = zip.entries
        /\ ~zip.opened => disk' = disk
    BY <1>9 DEF Finish, TypeOK
  <2>2. /\ hist'.mishap = hist.mishap /\ hist'.plain = hist.plain
        /\ hist'.owed = hist.owed
        /\ hist'.seen = hist.seen \cup IF HasEntry(disk'.docs, DocName)
                                       THEN disk'.docs[DocName].nodes ELSE {}
    BY <1>9, <1>0 DEF Finish, History
  <2>3. Pending = {}
    BY <2>1 DEF Pending
  <2>4. Intact'
    BY <2>1, <2>2, <1>0 DEF Intact, Readable
  <2>5. Kept'
    <3>1. HasEntry(disk'.docs, DocName) => hist.seen \subseteq disk'.docs[DocName].nodes
      BY <2>1, <1>0 DEF Kept
    <3>2. hist.owed \subseteq DOMAIN disk'.entries
      BY <2>1, <2>3, <1>0 DEF Kept
    <3>3. QED
      BY <2>1, <2>2, <3>1, <3>2 DEF Kept
  <2>6. Led'
    <3>1. ASSUME hist.plain, ~hist.mishap
          PROVE  Leads(disk'.entries, DOMAIN disk'.entries)
      <4>1. zip.opened
        BY <2>1, <3>1, <1>0 DEF Intact
      <4>2. QED
        BY <2>1, <2>3, <3>1, <4>1, <1>0 DEF Led
    <3>2. QED
      BY <2>1, <2>2, <3>1 DEF Led
  <2>7. QED
    BY <2>4, <2>5, <2>6 DEF KeepInv
<1>10. CASE Crash
  <2>1. /\ pc' = "idle" /\ disk'.docs = disk.docs /\ disk'.entries = disk.entries
    BY <1>10 DEF Crash, TypeOK
  <2>2. /\ hist'.mishap /\ hist'.seen = hist.seen
        /\ hist'.owed = hist.owed \ ({stamp} \X Names)
    BY <1>10, <1>0 DEF Crash, History
  <2>3. hist'.owed \subseteq DOMAIN disk.entries
    BY <2>2, <1>0 DEF Kept
  <2>4. QED
    BY <2>1, <2>2, <2>3, <1>0 DEF KeepInv, Intact, Kept, Led
<1>11. CASE UNCHANGED vars
  BY <1>11, <1>0 DEF vars, KeepInv, Intact, Kept, Led, Readable, Pending
<1>12. QED
  BY <1>1, <1>2, <1>3, <1>4, <1>5, <1>6, <1>7, <1>8, <1>9, <1>10, <1>11
     DEF Next, Step

LEMMA KeepInvariant == Spec => []KeepInv
  BY TypeCorrect, IdInvariant, InitKeepInv, NextKeepInv, PTL DEF Spec

(* Between calls the target is unreadable only after a mishap: the delete   *)
(* of Document.xml before the new one is written costs nothing unless the   *)
(* process dies, or an open, a write or the parse of the other file fails.  *)
THEOREM MergeLosesOnlyByMishap == Spec => []LossNeedsMishap
<1>1. KeepInv => LossNeedsMishap
  BY DEF KeepInv, Intact, LossNeedsMishap
<1>2. QED
  BY <1>1, KeepInvariant, PTL

(* A readable target still lists every node it ever listed, and between    *)
(* calls holds every entry whose copy was not logged as failed.            *)
THEOREM MergeLosesNothing == Spec => []NothingLost
<1>1. KeepInv => NothingLost
  BY DEF KeepInv, Kept, NothingLost, CopiesComplete, NothingForgotten, Readable,
         Nodes
<1>2. QED
  BY <1>1, KeepInvariant, PTL

(* What the rewritten annotation lists name is in the target, as long as    *)
(* the lists are plain and nothing failed (update_annotations).            *)
THEOREM MergeResolvesAnnotations == Spec => []AnnotationsResolve
<1>1. KeepInv => AnnotationsResolve
  BY DEF KeepInv, Led, Leads, AnnotationsResolve, HasEntry
<1>2. QED
  BY <1>1, KeepInvariant, PTL

=============================================================================
