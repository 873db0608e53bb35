------------------------------- MODULE OfdMerge -------------------------------
(***************************************************************************)
(* xilou_OfdMerge: class COfd_Merge of src/xilou_impl/xilou_ofdmerge.cpp.   *)
(*                                                                         *)
(* One target package on disk is extended, call after call, by the pages,  *)
(* resources, templates and annotations of other packages.  A call         *)
(*   1. reads the target's Document.xml and picks the base that is added   *)
(*      to every ID of the file that is merged in,                         *)
(*   2. deletes Document.xml from the target,                              *)
(*   3. appends a new Document.xml that lists the old and the new nodes,   *)
(*   4. copies every entry of the other file below a directory named after *)
(*      the current second, its IDs shifted,                               *)
(*   5. closes the target, which writes the zip directory.                 *)
(* Between two steps the process may die; opens and writes may fail; most  *)
(* results are not looked at.                                              *)
(***************************************************************************)
EXTENDS Integers, ZipArchive

CONSTANTS
  BaseStep,    \* m_base_id starts at 10000 and stays a multiple of it
  Slack,       \* the 1000 added to the new MaxUnitID
  IntMax,      \* largest int
  Targets,     \* packages a history may start from
  Sources,     \* packages that may be merged in
  Stamps,      \* values of the "%Y%m%d%H%M%S" time stamp
  MaxMerges    \* bound on the number of calls

DocName == "Document.xml"
Tags == {"Page", "TemplatePage", "PublicRes", "DocumentRes", "Annotations",
         "CustomTags"}
IdTags == {"Page", "TemplatePage"}

(***************************************************************************)
(* A Document.xml: MaxUnitID, whether there is a Pages node, and its nodes.*)
(* A node remembers the call that added it (from, 0 for the target's own), *)
(* its place in its file, its ID and the entry its location resolves to:   *)
(* <<stamp, name>>, or <<>> as the stamp for an entry of the target itself.*)
(* An entry holds the IDs of its XML text ({} for a picture or a font) and *)
(* the entries it refers to by path (the FileLocs of an annotation list).  *)
(***************************************************************************)
CONSTANTS Names, Own   \* entry names of a package; the "stamp" of the target

Locs == (Stamps \cup {Own}) \X Names
NoLoc == <<Own, "nowhere">>         \* a path that names no entry

Node == [from : Nat, pos : Nat, tag : Tags, id : Int, loc : Locs]
Document == [hasMax : BOOLEAN, max : Int, hasPages : BOOLEAN,
             nodes : SUBSET Node]
Content == [from : Nat, ids : SUBSET Int, refs : SUBSET (Locs \cup {NoLoc})]

(* A package that is merged in.  parses: getDoc and the checks of merge_doc *)
(* succeed; dir: how its DocRoot names the directory of Document.xml; a    *)
(* node with no located text or attribute has hasLoc FALSE; a FileLoc is    *)
(* absolute or relative, and its list may lie below the document directory. *)
SourceNode == [pos : Nat, tag : Tags, id : Int, hasLoc : BOOLEAN, name : Names]
FileLoc == [abs : BOOLEAN, name : Names]
Entry == [ids : SUBSET Nat, kind : {"other", "annots", "res", "bareRes"},
          below : BOOLEAN, refs : SUBSET FileLoc]
IsSource(s) ==
  /\ s.parses \in BOOLEAN /\ s.dir \in {"rel", "abs", "none"}
  /\ s.hasMax \in BOOLEAN /\ s.max \in Int
  /\ s.nodes \subseteq SourceNode
  /\ IsArchive(s.entries, Names, Entry)
IsTarget(t) ==
  /\ t.doc \in Document /\ t.exact \in BOOLEAN
  /\ IsArchive(t.entries, {Own} \X Names, Content)
  /\ \A l \in DOMAIN t.entries : t.entries[l].from = 0
  /\ \A n \in t.doc.nodes : n.from = 0 /\ n.loc[1] = Own

ASSUME ParametersAssumption ==
  /\ BaseStep \in Nat \ {0} /\ Slack \in Nat /\ IntMax \in Nat
  /\ BaseStep <= IntMax /\ Slack <= IntMax
  /\ MaxMerges \in Nat
  /\ Own \notin Stamps /\ "nowhere" \notin Names
ASSUME SourcesAssumption == \A s \in Sources : IsSource(s)
ASSUME TargetsAssumption == \A t \in Targets : IsTarget(t)

VARIABLES
  disk,   \* the target file: directory intact, Document.xml, other entries
  pc,     \* where the running call is
  src,    \* the package the running call merges in
  mdoc,   \* m_document_xml, the target's Document.xml in memory
  base,   \* m_base_id
  stamp,  \* m_doc_root
  zip,    \* m_target_zip, opened for appending
  todo,   \* entries of m_been_merged_zip still to be copied
  ret,    \* what the last finished call returned
  hist    \* history: what the properties compare the state with

call == <<src, mdoc, base>>
vars == <<disk, pc, src, mdoc, base, stamp, zip, todo, ret, hist>>

-----------------------------------------------------------------------------
(* Arithmetic of int.                                                      *)
Wrap(x) == IF x > IntMax THEN x - 2 * (IntMax + 1) ELSE x

(* Mutant: the base is rounded down.                                       *)
BaseForRoundedDown(doc) ==
  IF doc.hasMax /\ doc.max > BaseStep
  THEN Wrap((doc.max \div BaseStep) * BaseStep) ELSE BaseStep

(* m_base_id, from the target's MaxUnitID.                                 *)
BaseFor(doc) ==
  IF doc.hasMax /\ doc.max > BaseStep
  THEN Wrap((doc.max \div BaseStep + 1) * BaseStep)
  ELSE BaseStep

(* Mutant: the other file's MaxUnitID is written back unshifted.           *)
MergedMaxUnshifted(doc, s, b) ==
  IF s.hasMax /\ s.max > 0 /\ doc.hasMax THEN Wrap(s.max + Slack) ELSE doc.max

(* merge_commondata: the MaxUnitID written back.                           *)
MergedMax(doc, s, b) ==
  IF s.hasMax /\ s.max > 0 /\ doc.hasMax
  THEN Wrap(Wrap(s.max + b) + Slack)
  ELSE doc.max

(* Which nodes of the other Document.xml are carried over.                 *)
Carried(n) ==
  CASE n.tag = "Page" -> n.hasLoc
    [] n.tag = "TemplatePage" -> n.id > 0
    [] OTHER -> TRUE

(* Mutant: the directory of the copy is left out of the location.          *)
MergedNodeInPlace(n, k, b, t) ==
  [from |-> k, pos |-> n.pos,
   tag  |-> IF n.tag = "DocumentRes" THEN "PublicRes" ELSE n.tag,
   id   |-> IF n.tag \in IdTags THEN Wrap(n.id + b) ELSE 0,
   loc  |-> <<Own, n.name>>]

(* The node that merge_commondata, merge_pages and merge_bytag append.     *)
MergedNode(n, k, b, t) ==
  [from |-> k, pos |-> n.pos,
   tag  |-> IF n.tag = "DocumentRes" THEN "PublicRes" ELSE n.tag,
   id   |-> IF n.tag \in IdTags THEN Wrap(n.id + b) ELSE 0,
   loc  |-> <<t, n.name>>]

MergedNodes(s, k, b, t) ==
  {MergedNode(n, k, b, t) : n \in {m \in s.nodes : Carried(m)}}

MergedDocument(doc, s, k, b, t) ==
  [doc EXCEPT !.max = MergedMax(doc, s, b),
              !.nodes = @ \cup MergedNodes(s, k, b, t)]

(* merge_doc indexes the first character of a location that may be empty,  *)
(* walks off the front of a DocRoot without a directory, and appends pages *)
(* to a Pages node that may be missing: each ends the process.             *)
MergeDocAborts(doc, s) ==
  \/ s.dir = "none"
  \/ \E n \in s.nodes : n.tag # "Page" /\ Carried(n) /\ ~n.hasLoc
  \/ ~doc.hasPages /\ \E n \in s.nodes : n.tag = "Page" /\ Carried(n)

(* Mutant: the FileLocs of an annotation list are not rewritten.           *)
MergedRefKept(s, e, r, t) == <<Own, r.name>>

(* update_annotations: where a FileLoc leads after the merge.  A relative  *)
(* one is taken from the document's directory, whatever the directory of   *)
(* the list, and a DocRoot with a leading slash doubles the slash.         *)
MergedRef(s, e, r, t) ==
  IF r.abs \/ (s.dir = "rel" /\ ~e.below) THEN <<t, r.name>> ELSE NoLoc

(* update_id and update: the bytes that are written for an entry.          *)
MergedContent(s, e, k, b, t) ==
  [from |-> k,
   ids  |-> {Wrap(i + b) : i \in e.ids},
   refs |-> IF e.kind = "annots"
            THEN {MergedRef(s, e, r, t) : r \in e.refs} ELSE {}]

-----------------------------------------------------------------------------
(***************************************************************************)
(* What a caller has to bring for the merge to keep IDs apart: MaxUnitIDs  *)
(* that bound the IDs (up to the slack for a file that is merged in), and  *)
(* sums that fit an int.                                                   *)
(***************************************************************************)
HonestTarget(t) ==
  /\ t.doc.hasMax /\ t.doc.max \in 0 .. IntMax
  /\ \A n \in t.doc.nodes : n.id \in 0 .. t.doc.max
  /\ \A l \in DOMAIN t.entries : t.entries[l].ids \subseteq 0 .. t.doc.max

HonestSource(s, doc) ==
  /\ s.hasMax /\ s.max > 0
  /\ (doc.max \div BaseStep + 1) * BaseStep + s.max + Slack <= IntMax
  /\ \A n \in s.nodes : n.tag \in IdTags => n.id \in 1 .. s.max + Slack
  /\ \A n \in DOMAIN s.entries : s.entries[n].ids \subseteq 1 .. s.max + Slack

(* Annotation lists whose FileLocs the rewriting gets right, and a target   *)
(* whose own lists lead somewhere.                                         *)
PlainSource(s) ==
  \A n \in DOMAIN s.entries : s.entries[n].kind = "annots" =>
    /\ s.dir = "rel" /\ ~s.entries[n].below
    /\ \A r \in s.entries[n].refs : r.name \in DOMAIN s.entries

PlainTarget(t) ==
  \A l \in DOMAIN t.entries : t.entries[l].refs \subseteq DOMAIN t.entries

Nothing == [n \in {} |-> n]
Closed == [opened |-> FALSE, dirty |-> FALSE,
           docs |-> Nothing, entries |-> Nothing]

Init ==
  /\ \E t \in Targets :
       /\ disk = [ok |-> TRUE, exact |-> t.exact, entries |-> t.entries,
                  docs |-> [n \in {DocName} |-> t.doc]]
       /\ hist = [calls |-> 0, stamps |-> {}, fresh |-> TRUE, mishap |-> FALSE,
                  honest |-> HonestTarget(t), plain |-> PlainTarget(t),
                  seen |-> t.doc.nodes, owed |-> {}]
       /\ mdoc = t.doc
  /\ pc = "idle"
  /\ src \in Sources
  /\ base = BaseStep
  /\ stamp = Own
  /\ zip = Closed
  /\ todo = {}
  /\ ret = "none"

Readable == disk.ok /\ HasEntry(disk.docs, DocName)

(* The constructor's first block: read Document.xml, choose the base.      *)
Begin(s) ==
  /\ pc = "idle" /\ hist.calls < MaxMerges
  /\ Readable
  /\ pc' = "opened"
  /\ src' = s
  /\ mdoc' = disk.docs[DocName]
  /\ base' = BaseFor(disk.docs[DocName])
  /\ hist' = [hist EXCEPT !.calls = @ + 1,
                          !.plain = @ /\ PlainSource(s),
                          !.honest = @ /\ HonestSource(s, disk.docs[DocName])]
  /\ UNCHANGED <<disk, stamp, zip, todo, ret>>

(* ... or return early, and do_merge answers XILOU_E_FAILEDOPENZIP.        *)
Refuse ==
  /\ pc = "idle" /\ hist.calls < MaxMerges
  /\ ~Readable
  /\ ret' = "FAILEDOPENZIP"
  /\ hist' = [hist EXCEPT !.calls = @ + 1]
  /\ UNCHANGED <<disk, pc, call, stamp, zip, todo>>

(* The second block: Open('d') ...                                         *)
OpenForDelete ==
  /\ pc = "opened"
  /\ pc' = "deleting"
  /\ UNCHANGED <<disk, call, stamp, zip, todo, ret, hist>>

OpenForDeleteFails ==
  /\ pc = "opened"
  /\ pc' = "idle"
  /\ ret' = "FAILEDOPENZIP"
  /\ UNCHANGED <<disk, call, stamp, zip, todo, hist>>

(* ... DeleteEntries, whose name match is exact although reading is not,   *)
(* and the close; then Open('a') on the target, whose result is unused.    *)
DeleteDocument ==
  /\ pc = "deleting"
  /\ pc' = "merging"
  /\ disk' = IF disk.exact
             THEN [disk EXCEPT !.docs = DeleteEntry(@, DocName)] ELSE disk
  /\ \E opened \in BOOLEAN :
       /\ zip' = [opened |-> opened, dirty |-> FALSE,
                  docs |-> disk'.docs, entries |-> disk.entries]
       /\ hist' = [hist EXCEPT !.mishap = @ \/ ~opened]
  /\ UNCHANGED <<call, stamp, todo, ret>>

(* Mutant: merge_doc does not write Document.xml.                          *)
MergeDocUnwritten(t) ==
  /\ pc = "merging"
  /\ src.parses /\ ~MergeDocAborts(mdoc, src)
  /\ pc' = "copying" /\ stamp' = t /\ todo' = DOMAIN src.entries
  /\ UNCHANGED <<disk, call, zip, ret, hist>>

(* do_merge up to the end of merge_doc.  The directory of the copy is named *)
(* after the second; a source that cannot be parsed is passed over, and a  *)
(* Document.xml that cannot be written is logged.                          *)
MergeDoc(t) ==
  /\ pc = "merging"
  /\ src.parses => ~MergeDocAborts(mdoc, src)
  /\ pc' = "copying"
  /\ stamp' = t
  /\ todo' = DOMAIN src.entries
  /\ \E written \in BOOLEAN :
       /\ written => src.parses /\ zip.opened
       /\ LET new == MergedDocument(mdoc, src, hist.calls, base, t)
          IN  zip' = [zip EXCEPT !.dirty = src.parses /\ zip.opened,
                        !.docs = IF written THEN AppendEntry(@, DocName, new)
                                            ELSE @]
       /\ hist' = [hist EXCEPT !.mishap = @ \/ ~written,
                               !.fresh = @ /\ t \notin hist.stamps,
                               !.stamps = @ \cup {t},
                               !.owed = @ \cup
                                 IF written THEN {t} \X DOMAIN src.entries
                                            ELSE {}]
  /\ UNCHANGED <<disk, call, ret>>

(* The loop of do_merge: one entry read, shifted and appended.  A resource *)
(* file without a BaseLoc ends the process in update_resource.             *)
CopyEntry(n) ==
  /\ pc = "copying" /\ n \in todo
  /\ src.entries[n].kind # "bareRes"
  /\ zip.opened
  /\ todo' = todo \ {n}
  /\ zip' = [zip EXCEPT !.dirty = TRUE,
               !.entries = AppendEntry(@, <<stamp, n>>,
                 MergedContent(src, src.entries[n], hist.calls, base, stamp))]
  /\ UNCHANGED <<disk, pc, call, stamp, ret, hist>>

(* An entry that cannot be read or written is logged and left out.         *)
DropEntry(n) ==
  /\ pc = "copying" /\ n \in todo
  /\ todo' = todo \ {n}
  /\ \E wrote \in BOOLEAN :
       /\ wrote => zip.opened /\ src.entries[n].kind # "bareRes"
       /\ zip' = [zip EXCEPT !.dirty = @ \/ wrote]
  /\ hist' = [hist EXCEPT !.mishap = TRUE, !.owed = @ \ {<<stamp, n>>}]
  /\ UNCHANGED <<disk, pc, call, stamp, ret>>

(* Mutant: the loop over the entries is left early.                        *)
FinishEarly ==
  /\ pc = "copying"
  /\ pc' = "idle"
  /\ disk' = IF zip.opened
             THEN [disk EXCEPT !.docs = zip.docs, !.entries = zip.entries]
             ELSE disk
  /\ zip' = Closed /\ stamp' = Own /\ todo' = {} /\ ret' = "SUC"
  /\ UNCHANGED <<call, hist>>

(* do_merge returns, ~COfd_Merge closes the target: zip_close.             *)
Finish ==
  /\ pc = "copying" /\ todo = {}
  /\ pc' = "idle"
  /\ disk' = IF zip.opened
             THEN [disk EXCEPT !.docs = zip.docs, !.entries = zip.entries]
             ELSE disk
  /\ zip' = Closed
  /\ stamp' = Own
  /\ ret' = "SUC"
  /\ hist' = [hist EXCEPT !.seen = @ \cup IF HasEntry(disk'.docs, DocName)
                                          THEN disk'.docs[DocName].nodes ELSE {}]
  /\ UNCHANGED <<call, todo>>

(* The process dies.  The directory is lost when entries were moved or     *)
(* appended and the library had already passed them to the file.           *)
Crash ==
  /\ pc # "idle"
  /\ pc' = "idle"
  /\ \E torn \in BOOLEAN :
       /\ torn => pc = "deleting" \/ zip.dirty
       /\ disk' = [disk EXCEPT !.ok = ~torn]
  /\ zip' = Closed
  /\ stamp' = Own
  /\ todo' = {}
  /\ ret' = "none"
  /\ hist' = [hist EXCEPT !.mishap = TRUE, !.owed = @ \ ({stamp} \X Names)]
  /\ UNCHANGED call

Step ==
  \/ OpenForDelete \/ OpenForDeleteFails \/ DeleteDocument
  \/ \E t \in Stamps : MergeDoc(t)
  \/ \E n \in Names : CopyEntry(n) \/ DropEntry(n)
  \/ Finish

Next == Refuse \/ (\E s \in Sources : Begin(s)) \/ Step \/ Crash

Spec == Init /\ [][Next]_vars

-----------------------------------------------------------------------------
(***************************************************************************)
(* Properties                                                              *)
(***************************************************************************)
History ==
  [calls : 0 .. MaxMerges, stamps : SUBSET Stamps, fresh : BOOLEAN,
   mishap : BOOLEAN, honest : BOOLEAN, plain : BOOLEAN,
   seen : SUBSET Node, owed : SUBSET Locs]

(* Every variable has its type: whatever fails and wherever the process    *)
(* dies, target and temporary archive stay well-formed, and only a copying *)
(* call has entries to copy.                                               *)
TypeOK ==
  /\ disk \in [ok : BOOLEAN, exact : BOOLEAN,
               docs : {disk.docs}, entries : {disk.entries}]
  /\ IsArchive(disk.docs, {DocName}, Document)
  /\ IsArchive(disk.entries, Locs, Content)
  /\ pc \in {"idle", "opened", "deleting", "merging", "copying"}
  /\ src \in Sources /\ mdoc \in Document /\ base \in Int
  /\ stamp \in Stamps \cup {Own}
  /\ todo \subseteq IF pc = "copying" THEN DOMAIN src.entries ELSE {}
  /\ zip \in [opened : BOOLEAN, dirty : BOOLEAN,
              docs : {zip.docs}, entries : {zip.entries}]
  /\ IsArchive(zip.docs, {DocName}, Document)
  /\ IsArchive(zip.entries, Locs, Content)
  /\ ret \in {"none", "SUC", "FAILEDOPENZIP"}
  /\ hist \in History

Nodes == disk.docs[DocName].nodes

(* The IDs a reader meets at a node: its own and those of its content.     *)
IdsIn(entries, n) ==
  (IF n.tag \in IdTags THEN {n.id} ELSE {})
  \cup (IF HasEntry(entries, n.loc) THEN entries[n.loc].ids ELSE {})
IdsAt(n) == IdsIn(disk.entries, n)

(* Nodes that came from different files never share an ID, however many    *)
(* files are merged and whatever fails on the way, as long as the files    *)
(* declare honest MaxUnitIDs and no two calls fall into the same second:   *)
(* the base chosen in the constructor clears every ID handed out before.   *)
MergedIdsDisjoint ==
  Readable /\ hist.honest /\ hist.fresh =>
    \A n, m \in Nodes : n.from # m.from => IdsAt(n) \cap IdsAt(m) = {}

(* The MaxUnitID that merge_commondata writes bounds every ID a reader can *)
(* reach, which is what the next call's base rests on.                     *)
MaxUnitIDCovers ==
  Readable /\ hist.honest /\ hist.fresh =>
    \A n \in Nodes : \A i \in IdsAt(n) : i <= disk.docs[DocName].max

(* A node's location never leads to another file's bytes, although a name  *)
(* that is written twice shows its older content.                          *)
OwnContent ==
  Readable /\ hist.fresh =>
    \A n \in Nodes : HasEntry(disk.entries, n.loc) =>
                       disk.entries[n.loc].from = n.from

(* Between calls every entry of a merged file is in the target, except     *)
(* those whose copy failed and was logged.                                 *)
CopiesComplete ==
  pc = "idle" /\ Readable => hist.owed \subseteq DOMAIN disk.entries

(* Between calls the target has lost its directory or its Document.xml only *)
(* when something went wrong before: the process died, an open or a write   *)
(* failed, or the file to be merged could not be parsed.                   *)
LossNeedsMishap == pc = "idle" /\ ~Readable => hist.mishap

(* A document that can be read still lists every node it ever listed.      *)
NothingForgotten == Readable => hist.seen \subseteq Nodes

(* The target keeps what a merge brought into it: the nodes it lists, and,  *)
(* between calls, the entries behind them (merge_doc, do_merge).           *)
NothingLost == CopiesComplete /\ NothingForgotten

(* Annotation files that a merged annotation list names can be opened, if  *)
(* the lists lie beside Document.xml, DocRoots are relative and every copy  *)
(* succeeded: even where two calls share a second and their entries a name.*)
AnnotationsResolve ==
  pc = "idle" /\ Readable /\ hist.plain /\ ~hist.mishap =>
    \A n \in Nodes : n.tag = "Annotations" /\ HasEntry(disk.entries, n.loc) =>
      disk.entries[n.loc].refs \subseteq DOMAIN disk.entries

(* A call that answers XILOU_E_SUC, documented as success, leaves a target  *)
(* whose Document.xml can be read.                                         *)
SuccessLeavesDocument == pc = "idle" /\ ret = "SUC" => Readable

=============================================================================
