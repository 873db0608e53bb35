# xilou_core: a verification project in TLA+

xilou_core is a fork of PDFium with a reader, renderer, writer and converter
for OFD (the Chinese fixed-layout format, a zip of XML files) on top of it. The
fork's own code is in `src/ofd/`, `src/xilou_impl/` and `src/xilou_public/`;
everything else (`core`, `fpdfsdk`, `fxjs`, `xfa`, `third_party`, ...) is
upstream or vendored and is modelled only where the own code calls it. This
directory holds TLA+ modules of the own code, the TLC runs that check them on
small instances, and proofs that TLAPS checks for all values of the constants.
`PROJECT.json` maps every definition to the lines it stands for and lists all
components, hazards, runs, mutants and theorems.

## 1. The system

### Components, their state and operations

| Component | Source | State it keeps | Operations |
|---|---|---|---|
| Zip entry layer | `ofd/cofd_zipentry` | the miniz handle, the mode, a cache of parsed XML | read (cached XML, bytes), append, delete entries, close |
| Merge of packages | `xilou_impl/xilou_ofdmerge` | target Document.xml in memory, `m_base_id`, `m_doc_root`, two archives | constructor, `do_merge`, `merge_doc`, destructor |
| OFD reader | `ofd/cofd_package`, `cofd_document`, `cofd_page`, `cofd_parse_*` | ofd.xml, page and template lists, annotation lists, the page area, resources; per page its holders of objects | open, load document, load page, parse, drop |
| API handles | `xilou_impl/xilou_view`, `xilou_impl.h` | handle objects that own package, document, page | `xilou_OpenPackage` ... `xilou_DropPage` |
| Progressive page renderer | `ofd/render/cofd_renderpage`, `cofd_progressiverenderer`, `cofd_renderstatus`, `cofd_imagerenderer`, `cofd_imageloader` | position in layers and objects, the suspended image, the remembered clip, the device's clip stack | start, continue, close |
| PDF to OFD | `xilou_impl/xilou_pdfconvert`, `xilou_xml*` | the ID counter, the XML trees, the font table by address, the open archive | `pdf2ofd`, the object converters, `save` |
| OFD to PDF | `xilou_impl/xilou_convert.cpp` (`ofd2pdf`) | the package's own PDF document | one pass over the pages |
| Object parsers | `ofd/cofd_parse_*`, `cofd_textobj`, `cofd_page.cpp` (`ApplyClips`), `cofd_document.cpp` (`ParseDrawParam`) | the object under construction, the layer's DrawParam, the place of the last character | one parser per kind of element |
| Editing API | `xilou_impl/xilou_convert.cpp` | the package's PDF document and the stream it is read from | open, append image pages, add text, save, convert |
| Signatures, OES plug-ins | `ofd/cofd_signature`, `ofd/oes`, `xilou_impl/xilou_signature` | signature lists, loaded libraries | verify, draw the seal |
| Memory stream | `ofd/FIIO_Mem` | buffer, position, length | read, write, seek |
| Text export, bitmap output, logging, JNI, samples | the rest | | |

### How they interact

All of it is called from the client's thread; there are no threads in the own
code. What makes it hard is not parallelism but state that outlives a call:

* a *package on disk* that one merge reads, cuts open and rewrites, and that the
  next merge (perhaps of another process, after the first one died) starts from;
* a *renderer* that returns in the middle of a page, is continued by the caller,
  and shares the device's clip stack with the caller and with nested renderers;
* a *counter of IDs* that six XML files draw from at different times while
  they refer to each other's elements;
* a *document* shared by all its pages, whose area each page overwrites;
* a *file* that a save or a conversion truncates while an open package still
  reads its pages from it;
* *signatures* that are verified and drawn by separate calls, each reading the
  package for itself, through a plug-in that may lack half of its functions.

The readers and writers agree through the file only: `MaxUnitID` and unique IDs
are written by `pdf2ofd` and by the merge, and are what the next merge's
`m_base_id` rests on.

### Hard behaviours and what makes each part correct

* **Merge.** Failure of every open and write (most results are ignored), death
  of the process between any two steps, two calls in one second, `int`
  arithmetic at its limits, a zip that keeps both of two equal names. Correct:
  IDs of different files stay apart, `MaxUnitID` bounds them, no location leads
  to another file's bytes, nothing listed is ever forgotten, and a target is
  lost only after a mishap.
* **Renderer.** Pauses at any object, images suspended in two stages, masks left
  to a printer, layers not yet parsed, fallbacks that draw on the same device.
  Correct: each object once, in order, under its own clip; the device comes
  back as it was; the drawing comes to an end.
* **PDF to OFD.** Every write may fail; fonts are remembered by address and are
  freed with their page. Correct: unique IDs, a `MaxUnitID` above all of them,
  references that resolve, a whole package if nothing failed.
* **Reader.** Pages loaded in any order over a shared area; layers, templates
  and annotations assembled from several files that may be missing. Correct:
  each page has all its objects, once, in order and in the right place,
  whatever was loaded before; a converted PDF looks like the screen.
* **Signatures.** Files that are missing or were changed, a plug-in that is not
  there or exports only some of the functions, stamps collected once for all
  pages by whichever page is drawn first, an appearance read under another
  spelling of the name than the value that is verified. Correct: an acceptance is
  earned, a refusal names the first changed file, a page has its stamps once, an
  accepted signature is also seen, and the process dies only for a known reason.
* **Opening a document.** Loops over lists of elements whose attributes may be
  missing, IDs that go through a `float`, fonts that cannot be loaded, three
  tables that have to agree on pages. Correct: each ID finds its own resource, a
  page number the page of that place, the call comes back, and the process dies
  for known reasons only.
* **Object parsers.** Styles from four sources applied one over the other, two
  recursions without a bound, clips accumulated over shapes of two kinds, a list
  that is rewritten while it is searched, path data read one letter late. Correct:
  the object is what the element means, and every parser ends.
* **Editing.** Results that are ignored, early returns after half of the work, a
  JSON library that aborts the process (`JSON_NOEXCEPTION`), streams, pages and
  images used before they are checked. Correct: a document is what the calls built,
  a copy holds it, a failed call leaves everything as it was, and one that ends the
  process touches no file but its target.
* **Memory stream.** A block that doubles up to 2^31 - 1, sums of `long`s that wrap
  there, positions beyond the end, `realloc` failing anywhere. Correct: up to that
  limit it is a file to its user and stays in its block, a write returns, and an
  image with bytes missing takes the place of the original only if FreeImage passes
  over a write that failed.

All hazards, at their lines and with the properties that cover them, are listed
in `PROJECT.json`.

## 2. Modules

| Module | Models | Notes |
|---|---|---|
| `ZipArchive` | entries of a zip as `COFD_ZipEntry` uses them | a name written twice shows its first content |
| `OfdMerge` | `COfd_Merge` and histories of calls | uses `ZipArchive` |
| `OfdMergeProofs` | its proofs | |
| `PageDrawing` | what drawing a page promises | abstract specification |
| `PageRender` | `RenderPageImpl`, `COFD_ProgressiveRenderer`, object and image drawing, the device's clip stack | instantiates `PageDrawing` with a refinement mapping |
| `PageRenderProofs` | its proofs, the refinement included | |
| `PdfToOfd` | `pdf2ofd` and the writer `Cxml_*` | |
| `PdfToOfdProofs` | its proofs | |
| `OfdReader` | handles, `COFD_Package`, `COFD_Document`, `COFD_Page`, `ofd2pdf` | |
| `OfdReaderProofs` | its proofs | |
| `OfdSignatures` | `COfdSignature`, `COFD_PageSignature`, `xilou_verify`, stamps in the renderer | the OES plug-in is external |
| `OfdSignaturesProofs` | its proofs | |
| `OfdDocument` | `COFD_ParseOfdXml`, the loops of `COFD_Document`, its tables and lookups | |
| `OfdDocumentProofs` | its proofs | |
| `ObjectStyle` | `ParseBody`, composites, DrawParams and the style of paths and texts | |
| `TextCode` | `ParseTextObject`'s TextCodes, `CTextCodeData` | |
| `ObjectClips` | `ApplyClips` | |
| `PathData` | content-stream paths, `Cxml_pathobj::convert`, `GenPath` | writer and reader in one module |
| `ObjectParsers` | the four above side by side | an element is parsed by the parser of its kind |
| `PdfEditing` | the editing API, `xilou_OpenPackage`, `xilou_Convert`, `pdf2txt` | |
| `PdfEditingProofs` | its proofs | |
| `Selection` | subsequences | loops that pass over elements, in `PdfEditing` and `OfdSignatures` |
| `ByteFile` | what a file promises its user | abstract specification |
| `MemStream` | `FIIO_Mem` and its use in `ParseImageObject` | instantiates `ByteFile` with a refinement mapping |
| `ObjectParsersProofs` | proofs about `ObjectParsers` and `MemStream`, the refinement included | one module, because both need the same lemmas on lists and naturals; the names of `MemStream` begin with `Stream` so that the two can be extended together |
| `MC*` | small instances for TLC | packages, pages, documents as records |

Operators whose comment begins with *Mutant* are wrong variants of the definition
after them. They are used nowhere; replacing the
definition by the mutant must make TLC report the property it is listed with.

### OfdMerge

`disk` is the target file: whether its zip directory is intact, its
Document.xml and its other entries. A call goes `idle -> opened -> deleting ->
merging -> copying -> idle`: `Begin` is the constructor up to the choice of the
base (`BaseFor`, with `Wrap` for `int`), `OpenForDelete` and `DeleteDocument`
remove Document.xml, `MergeDoc` writes the merged one under the time stamp of
the second, `CopyEntry`/`DropEntry` copy one entry or lose it, `Finish` closes.
`Refuse` is a call that returns early and `Crash` the death of the process at
any step, with or without a written directory. A node's `from` and an entry's
`from` are ghosts that say which call they came from; `hist` records whether the
files were honest (no ID above the `MaxUnitID` by more than the slack) and plain
(annotation lists beside Document.xml, relative DocRoots, a target whose own lists
lead somewhere), whether stamps were distinct, and whether anything went wrong.

### PageRender

`job` is the request; `layer`, `last`, `lastClip`, `img` are the members
`m_LayerIndex`, `m_LastObjectRendered`, `m_LastClipPath`, `m_pImageRenderer`;
`iter`, `togo`, `isMask` the locals of `Continue`; `dev` the device's clip and
its stack. A clip is the set of the paths intersected into it. One action is one
turn of a loop of `Continue`; the caller's actions are `Continue`, `StartAgain`
and `Close`. Pixels, colours, blending and geometry are left out: an object is
its kind, its clip path and the clips whose boxes it misses.

### PdfToOfd

`nodes` holds the elements of all XML trees with their IDs, the ID they refer
to and the place in the PDF they came from; `live` says which fonts PDFium holds
and at which address, `fontRes` is `m_fontRes`, keyed by address. Converting
goes object by object, `save()` file by file, each write with both outcomes. A
form is the sequence of the objects in it. The page area and all geometry are
left out.

### OfdReader

The document's files are records of what the parser looks at: areas, layers,
template uses, annotations. `docArea` is `COFD_Document::bbox_`, which every
parsed Area overwrites; `cur` is the page under construction with one holder per
layer slot, `run` the position of `Parse` in it. One action parses one element,
or goes on to the next layer, template, annotation file or annotation. A page
`x`-coordinate stands for both; an area has an origin and the origin it has once
rotated. `layer_drawparam` is never initialised for annotations and composites:
their DrawParam is any value (`Garbage`). The client drops pages before their
document, as the unit tests demand
(`src/ofd/cofd_package_unittest.cpp:127`, "确保page在关闭文档前被释放"), and asks
only for pages there are. `ofd2pdf` runs on a package of its own.

### OfdSignatures

`doc` is the open document, `sigs` its `COfdSignature` objects (location, stamps
once collected, error message), `oes` the installed plug-in with the functions it
exports, `call` the call under way. `verdict` and `shown` are ghosts: what the last
verification of each signature returned and the stamps of the last page drawn.
`Verify` is `xilou_verify` up to the References, `VerifyReference` checks one of
them, `VerifySignedValue` asks the plug-in; `DrawPage`, `GetPageSignature` and
`StampsDrawn` are the renderer asking one signature after the other. A null
pointer (no Signature.xml, no CheckValue, a function the plug-in lacks) ends the
process (`Die`), and another one starts (`Restart`). So does a picture that is an OFD
package which `GetSealImageFromOFD` cannot survive (kind `"fatal"`: one without
pages, or with an empty location); it is met when the first whole StampAnnot is
collected, and only if no picture of the SignedValue comes before it. A SignedValue that is not
there makes the code take the address of an empty vector's first byte: undefined,
so the process dies or the plug-in answers. The plug-in says yes only to a
SignedValue over the digest it is given, and may say no at any time. A call with an
index out of range changes nothing and is no step. A stamp's `from`, a ghost, is the
signature and the StampAnnot it was made of; `StampsOnce` says that the stamps a page
is drawn with come from exactly the StampAnnots for it and strictly in their order.
`AcceptedIsSeen` asks for a picture only where there is one that can be read
(`Showable`): the SignedValue is read first, the seal only if the SignedValue has no
picture, both under the name in the default code page. IDs and types of signatures,
clips of stamps and the rest of the message buffer are left out.

### OfdDocument

`phase` says which loop is under way, `rest` what is left of its list, `items`
what is left of a resource file: one step is one turn of a loop. `table` holds the
resources, keyed by what `StringToFloat` makes of an ID (exact up to 2^24, then
even numbers only), `lists` the pages, templates and annotation files. A missing
DocRoot or an empty FileLoc leaves the loop where it is, as in the code. A null
pointer ends the process. The actions of an open document are its lookups, among
them `FindFont`, which loads the default font at its first miss. A resource whose
file has an empty path is not usable. `PageUrl` lets the number of pages through as an
index: whatever lies behind the vector is the answer, and of a document without pages
it is read through a null pointer (`PageUrlDies`).

### ObjectStyle, TextCode, ObjectClips, PathData and ObjectParsers

`ObjectStyle` has two stacks: `frames`, the calls of `ParseBody` (one per composite
under way), and `draw`, the calls of `ParseDrawParam`. A style says of each
attribute which element set it, so that precedence can be stated; Alpha is left out.
`MaxDepth` is the room on the process's stack, any number: a cycle exhausts it, and so
does a chain without one that is long enough.

`TextCode` keeps the list of deltas as `expand_g` finds and rewrites it, letter by
letter, and the place of the last character. Deltas are whole numbers, counts may be
negative (which `vector::insert` does not survive). `FindFont` may have no font at all
for the object, or none, when a character has no code in its own, for the substitute:
both are used without a look (`SetFont`, `AppendCharDies`).

`ObjectClips` is `ApplyClips` on a one-dimensional plane: boxes are intervals,
paths fill cells, and what is seen is compared with what the Clips mean. A text is a
single character; `AppendTexts` forgets the texts of a Clip when there would be more
than `MaxTextObjects`, the null between two Clips counted (`TextsFit`).

`PathData` builds a path by content-stream operators (PDFium's `AddPathPoint` and
`ClosePath` included), writes it by `convert` and reads it by `GenPath`, token by
token; `GenPath` also reads the data of other writers. `point_type` has no initial
value: it starts as any.

`ObjectParsers` puts them side by side: `ParseElement` gives an element to the parser
of its kind, which runs to its end before the next. Variables of one name are
shared, those of the parsers not at work hold nothing.

### PdfEditing

`disk` maps paths to files, `pkg` handles to packages: kind, pages, the path they
are still read from and whether that file was written over since. One call is one
step, each open, write and decoding with both outcomes. `built`, a ghost, is the
document that the successful calls describe (`Edited` says what one call means for
it), `clobbered` that some file was written over while it was read, and `last` the last
call and its answer. A call may end the process instead of answering: bad JSON in
`AddTextOnPage` (an exception that `JSON_NOEXCEPTION` turns into `abort`), an OFD that
cannot be opened or has a page `ofd2pdf` cannot load (`Deadly`), an image
that the writer of OFD cannot decode, before or after the target was emptied
(`DieWriting`).

### MemStream

`h` is the stream's block, length and position, `caller` where `ParseImageObject` is
in its conversion. A write is several steps: the loop that doubles the block, with
`realloc` failing or not, and the copy. FreeImage is linked for Windows only
(`src/BUILD.gn:383`), where a `long` has 32 bits: `Long` wraps the sums of
`src/ofd/FIIO_Mem.cpp` and `Product` the unsigned `size * count`. A write that ends
beyond 2^31 - 1 may therefore skip the loop: `memcpy` leaves the block
(`caller = "undefined"`, where the model ends), or reports a success with bytes missing
(`lost`); the ghost `beyond` remembers that such a write was carried out, which is what
the properties are conditional on. FreeImage may answer anything to a save, also after
a write that failed. `ByteFile` is a sequence of bytes and a position; it is implemented
by the bytes `0 .. filelen - 1` of the block, and promises nothing once `void` is set.

## 3. Runs

| Run | Result | What it checks |
|---|---|---|
| `merge` | holds, 789,443 states | `MergedIdsDisjoint`, `MaxUnitIDCovers`, `OwnContent`, `NothingLost`, `LossNeedsMishap`, `AnnotationsResolve` |
| `merge_success` | violated (finding 1) | `SuccessLeavesDocument` |
| `render` | holds, 2,282 states | `DrawnUnderOwnClip`, `DeviceBalanced`, `ImplementsDrawing`, `EventuallyDone` |
| `pdf2ofd` | holds, 239,437 states | `UniqueIds`, `MaxUnitIDCovers`, `TextFonts`, `AnnotsOnOwnPage`, `WholeIfNothingFailed` |
| `reader` | holds, 5,367 states | `PagesWhole`, `AreaOfThePage`, `ObjectsPlaced`, `GroundsAligned`, `PdfLikeScreen` |
| `signatures` | holds, 12,151 states | `SuccessIsEarned`, `FirstChangeNamed`, `StampsOnce`, `AcceptedIsSeen`, `DeathHasAReason` |
| `document` | holds, 567 states | `OwnResource`, `DocumentAsWritten`, `OpeningDeathExplained`, `OpeningEnds` |
| `document_returns` | violated (finding 2) | `EveryOpeningEnds` |
| `objects` | holds, 737,173 states | `StyleAsMeant`, `TextAsMeant`, `ClipsAsMeant`, `PathAsMeant`, `ParserDeathExplained`, `ParsingEnds` |
| `editing` | holds, 471,890 states | `SavedAsCalled`, `FailuresContained` |
| `editing_saved` | violated (finding 3) | `SuccessIsSaved` |
| `memstream` | holds, 192,274 states | `ImageWhole`, `WriteEnds`, `ActsAsFile` |

A property with several parts names them: `NothingLost` is `CopiesComplete` and
`NothingForgotten`, `PagesWhole` is `LayersWhole` and `AnnotsOfThePage`,
`DocumentAsWritten` is `ListsComplete` and `PageOfTheIndex`, and the properties of
`objects` are those of the four modules behind it. The `TypeOK` of a module
describes its state and is what a proof starts from; to check it on the
instances, add it to the cfg (to that of a Spec of its own for the four parsers).

Run one with `tlc -config MCOfdMerge.cfg MCOfdMerge` and so on.

**Bounds and why they are enough.**

* `merge`: three calls, because the third is the first whose base depends on a
  `MaxUnitID` that a merge wrote. The base step is 10 for 10000, the slack 2 for
  1000 and the largest `int` 60, so that small IDs lie on both sides of every
  comparison (`MaxUnitID` equal to the step, an ID above `MaxUnitID` by exactly
  the slack) and the third base can overflow. Three stamps allow all equal to
  all distinct; they are interchangeable (symmetry). The sources have each
  feature once: annotations, no `MaxUnitID`, no directory in DocRoot, an
  absolute one, resources that are not below the root, a file that does not parse.
* `render`: pages of up to four layers with every kind of object; the step limit
  is 2 for 100 so that a pause falls before, between and after objects; an image
  stage may be suspended twice, so that it is resumed at least once in the same
  stage.
* `pdf2ofd`: six documents of up to four pages, one with an image that cannot be
  decoded (`ConvertDies`); three addresses for three fonts, so that fonts can be
  re-allocated at an address that is remembered or not.
* `reader`: three loads into two handles: a page before, a page after and a page
  reloaded, with both held. The packages hold pages with and without an area, a
  non-zero origin, a rotation, two background layers, shared, unreadable and
  unknown templates, annotations on two pages, two pages of one ID, a missing
  page, no document at all.
* `signatures`: 26 documents, most with a single fault in Signature.xml, in a file
  it refers to, in the SignedValue or in the picture (among them packages that end the
  process, as the picture that is used and as one that is not), and six plug-ins, each
  short of something else; two pages, so that one page's drawing collects the other's
  stamps. The module has no counter: the history of calls is unbounded.
* `document`: packages that each have one fault (a missing attribute, file or text,
  equal IDs, a font that cannot be loaded); IDs asked for lie on both sides of
  2^24, where a `float` stops telling them apart.
* `objects`: layers with chains of three DrawParams, nested, empty, missing and
  hidden composites and cycles, used and unused, also chains without a cycle that are
  too deep for the stack; texts without a font and without the substitute; all lists of up to four deltas and
  some longer ones, for three characters, two TextCodes and overlapping
  CGTransforms; all objects with up to two Clips of up to two Areas out of seven
  shapes; paths of up to four operators over two points, and data of three or four
  commands with curves of every length, arcs, stray letters and missing numbers.
* `editing`: five calls, because the shortest way to a lost page is open, save over
  the file, save again or open again and save; a PDF, an OFD, a text file and a
  disk without any of them; two pages, so that an index can be in front of,
  between and behind pages.
* `memstream`: blocks of 2, 4 and 7 bytes for 4096, 2^30 and 2^31 - 1, sums that wrap
  at 16, all offsets of a `long`, buffers of 9 bytes (negative as a `long`) and 17 (a
  `size * count` of 1), six calls: enough to grow to the limit, fail there, write
  beyond it and read back.

The modules that only bound a counter (`MaxMerges`, `MaxSuspends`, `MaxLoads`,
`MaxOps`, `MaxCalls`, `MaxPages`, `MaxTexts`) do
it in a guard; the proofs hold for every value of it.

Deadlock is checked in `reader`, `signatures`, `document`, `objects` and `memstream`:
a load, a parse, a write under way always has a next step, a client can always go on
or close, and a dead process is restarted. `merge`, `render`, `pdf2ofd` and `editing`
end where the bounded history or the call does, so deadlock is not checked there.

**Fairness.** Everywhere the assumption is that a library call runs until it returns:
`WF(Run)` in `render`, `WF(Parse)` in `document`, `WF(Step)` in `objects`,
`WF(WriteStep)` in `memstream`. `render` has `WF(Continue)` too, because the caller of a
paused drawing is told `kToBeContinued` and calls again. Nothing is assumed of the
pause object, which may ask for a pause whenever it is asked, nor of `realloc`. A
suspended image makes progress because its stages are finite (`MaxSuspends`).

## 4. Findings

1. `merge_success`: `xilou_OfdMerge` answers `XILOU_E_SUC` although the target has
   lost its Document.xml: the result of `merge_doc` and of the write is not
   looked at. The error codes document success otherwise (quoted in
   `PROJECT.json`).
2. `document_returns`: an empty FileLoc (`src/ofd/cofd_document.cpp:675`), or a DocBody
   without DocRoot (`src/ofd/cofd_ofdxml.cpp:16`), is met again and again: the call
   that `src/xilou_public/xilou_view.h:97` promises a handle from never returns.
3. `editing_saved`: `xilou_Save2File` ignores whether the copy was written, for OFD
   (`save()` of the writer) as for PDF, and empties the package's own file before it
   reads it ("0成功，其它错误", `src/xilou_public/xilou_convert.h:38`).

Met while modelling, and kept out of what the properties promise:

* `VerifyReference` answers 40001, an invalid Signature.xml
  (`src/xilou_public/xilou_errcode.h:92`), for a signed file that is missing
  or empty.
* A path without FillColor is not transparent as soon as it has a DrawParam, against
  the comment at `src/ofd/cofd_document.cpp:390`.
* The Areas of a Clip that has paths and texts, and those of several Clips, are cut
  by bounds that should only collect them (`src/ofd/cofd_page.cpp:504`, comment at
  `:467`).
* A figure closed by a curve is written with two of the curve's three points
  (`src/xilou_impl/xilou_xmlpathobj.cpp:216`, comment at `:206`).

## 5. Proofs

Each proof module EXTENDS its component. Nothing is assumed but the named
ASSUMEs on the constants, which say that the packages, requests and documents
are well-formed records and the numbers natural (with `BaseStep` positive and
steps and slack within an `int`); TLC evaluates them in every run.

**OfdMergeProofs.** `TypeCorrect`, `MergeKeepsIdsApart`, `MergeKeepsMaxUnitID`,
`MergeKeepsContent`. `MergedIdsDisjoint` is not inductive: while a call is under
way the two documents that count are not on disk but in memory and in the
archive being written. `IdInv` says of each of the three versions that nodes of
earlier calls have their IDs at most the base and the nodes of this call above
it (`Strata`), that the base clears the old `MaxUnitID` and the sums fit an `int`
(`Fits`), and that entries lie below stamps that were used. `BaseClears` is the
arithmetic at its heart. The ID theorems are for honest files and distinct
seconds, the conditions `hist.honest` and `hist.fresh`: both are necessary, the
code does not check them.

`MergeLosesOnlyByMishap`, `MergeLosesNothing` and `MergeResolvesAnnotations` follow
from `KeepInv == Intact /\ Kept /\ Led`. The three properties speak of the file
between calls, but a call deletes Document.xml first and copies last: the invariant
says at each stage where the nodes and entries that a reader was promised are (on
disk, in memory, in the open archive, or still to be copied) and that a target
without them has had a mishap. `Led` says the same of the files that annotation
lists name. None of the three needs distinct seconds.

**PageRenderProofs.** `RenderTypeCorrect`, `ClipIsTheRememberedOne`,
`ObjectsUnderTheirClip`, `DeviceComesBack`, `RendererImplementsDrawing`, from
`RenderInv == TypeOK /\ CursorInv /\ DeviceInv /\ OutInv`. `CursorInv` ties the
suspended image to the object after `m_LastObjectRendered`, `DeviceInv` gives
clip and stack at every point a caller may take over, `OutInv` says that exactly
the wanted objects before the cursor are drawn. The refinement then maps every
step to a `Draw`, a `Finish`, a `GiveUp` or a stutter of `PageDrawing`.

**PdfToOfdProofs.** `PackageIdsUnique`, `PackageMaxUnitID`,
`TextsKeepTheirFont`, `AnnotationsKeepTheirPage`, from `WriterInv`: the counter
bounds every ID drawn (`Bounded`), Document.xml is written after the last draw
(`DocumentLast`), the Page nodes keep step with `save()` (`PagesInStep`).
`TextsKeepTheirFont` holds while no remembered address is given to another font.

`PackagesAreWhole` rests on two more invariants. `ConvertedInv` is that of the
conversion loop: the pages before the current one, the parts of the page before the
current one and the objects of the part before the current one are in the trees
(`PagesShown`, `PartsShown`). `FileInv` is that of `save()`: as long as nothing failed,
what texts and images name is in the trees (`TreeResolves`) and what each phase has
to write is in the archive (`PagesFiled`, `ResFiled`, `OfdFiled`).

**OfdReaderProofs.** `PagesKeepTheirArea` and `GroundsStayAligned`, from
`ReaderInv == LifeInv /\ SharedAreaInv /\ PagesInv`. Neither property is
inductive: what a page gets depends on the document's `bbox_` at the moment it
is parsed. `LifeInv` says that pages and Parse exist only inside an open
document, after a load. `SharedAreaInv` says that `bbox_` is the document's own
area until another Area is parsed, and that while the layers of an unrotated page
are parsed it is still that page's (templates, which change it, come after the
layers). `PagesInv` carries both properties for the page under construction and
for the held ones. `foreign` only ever grows while a document is open, so pages
loaded earlier keep what they were promised (`GoodLater`).

`PagesAreWhole`, `ObjectsStayPlaced` and `PdfIsLikeScreen` are about the content of
pages, which the properties give as concatenations of selected layers. `WholeInv` and
`BoundInv` say of every stage of a page that what is parsed is the selection of the
layers passed so far; how `FlattenSeq` and `SelectSeq` grow with the last layer is
proved once, by the least counterexample over the length. `ReaderTypes` is the type
invariant of the module.

**OfdSignaturesProofs.** `AcceptanceIsEarned`, `RefusalNamesFirst` and
`DiesForAReason`, from `SignatureInv`: `ShapeInv` (what exists when), `WalkInv`,
`VerdictInv` and the reason of a death. The properties speak of finished
verifications only; `WalkInv` is the loop invariant that carries them through one
under way: the References passed so far are unchanged. `VerdictInv` then says that
no other call disturbs what a signature was found to be.

`PagesGetTheirStamps` and `AcceptedSignaturesAreSeen` need `StampInv` as well: every
signature has all its stamps, or none yet (`OwnInv`); the loop over the signatures has
gathered exactly the stamps that the signatures passed so far state for the page
(`DrawInv`); so has the page last drawn (`ShownInv`); and a signature that was accepted
was read far enough to have a SignedValue (`UseInv`). What is carried along is
`Listing`: a list that has each of a set of places once and in order. Listings of
consecutive places can be joined (`ListingConcat`), a selection of a listing is one
(`ListingSelected`), so that no induction over lists is needed.

**OfdDocumentProofs.** `DocumentsAreAsWritten` and `OpeningDiesForAReason`, from
`DocInv`, which has one conjunct per loop: what is left of its list (`LeftOf`) and what
the tables hold of the part that is done (`PagesDone`, `TemplateIds`). A page number
goes through two tables, which agree only because both are filled in one turn of a
loop; `Place` counts the pages that are listed, so that the loop that passes over
pages without ID or location can be stated.

`LookupsFindTheirOwn` rests on `TableInv` beside it: a table has exactly the IDs of the
usable items at the places passed so far (`Upto`), each with the item that came first
(`Firsts`), and of other keys at most the one of the default font, which is no ID. The
tables are keyed by `StringToFloat`, a recursive function over the digits. That it is
defined at all, and that it returns the IDs up to `Exact` (`FloatExact`), are
inductions over the naturals, done by the least counterexample (`LeastNat`, from the
library's `WFMin`): that needs a set where the induction theorems need an operator.

**PdfEditingProofs.** `EditingTypes`, `CopiesAreAsCalled`, and the action property
`FailedCallsChangeNothing`, from `EditInv`: a package holds what the calls built
(`BuiltAsCalled`); as long as no file was written over while it was read, no page on
the disk and in the packages is lost (`NothingLostYet`), without which a later copy
could miss pages although every call succeeded; and the last copy is whole
(`CopyMade`). `FailedCallsChangeNothing` has two halves: a call that answers with a
failure changes no file and no package; a call that ends the process, wherever the
module lets it, changes no file but its target, and leaves nothing there that passes
for a whole one.

**ObjectParsersProofs.** `ClipsShowWhatIsMeant` rests on `ClipsInv`: types
(`ClipsTyped`), how far the three lists of the Clip under way are read and how many
places of the text list are taken (`ClipsWalk`),
that what is shown lies within the hull of what was read (`ClipsCover`), and that where
the code keeps areas apart nothing of them is lost (`ClipsKeep`). The hull of a set of
boxes is given by its two bounds, so that no fold over the boxes is needed
(`HullGrows`).

`ParserDeathIsExplained` rests on `DeathInv` for layers and on `TornInv` for texts.
It holds for any stack: a layer is the end of the process only if its resources cannot
be ranked within the stack's depth (`FitsStack`), because they contain themselves or
because they are nested too deeply. If they can be ranked, the units of the frames under
way and the DrawParams of the calls under way have falling ranks (`FramesDescend`,
`DrawDescends`, `CallsOfParams`), which bounds the depth of the stack by the ranks
(`FittingIsRanked` gives them). `TornInv` says that a list of deltas which was regular
stays so while `expand_g` rewrites it in place (`RegularLists`), so that only a torn one,
or one with a count below 0, can make it fail; the other deaths of a text are a missing
font and a missing substitute for one of its characters.

`StyleIsAsMeant` rests on `LayerInv`, which adds two invariants to `DeathInv`.
`StyleInv` is about the style: what was parsed has its style by precedence, and of the
object under way the calls that are left are the last of its `Calls`, while its style is
what the calls made so far leave behind (`After`). The meaning of a chain is fixed by
where it ends: each waiting call of `ParseDrawParam` is one step further up its chain
than the call around it, so that the chain of the first one ends within the stack
(`Ends`), the depth of the recursion is enough for `ChainUpTo`, and the attributes that
are applied on the way back leave the nearest setting in force (`Calling`,
`CallThrough`). `OrderInv` is about the order: each frame's parsed objects, what the
next frame has to give, and the elements that are left make up what the frame has to
give, and the first frame has to give the content of the layer (`Goals`). That
`ChainUpTo` and `Content` are what their recursive definitions say is proved by the least
counterexample (`ChainsUnrolled`, `ContentsUnrolled`), as is what `FlattenSeq` does
with one more sequence (`FlattenSnoc`, `FlattenFirst`).

`TextIsAsMeant` rests on `CharactersInv`, which adds three invariants to `TornInv`.
`DeltaInv`: a regular list of deltas says throughout what it says in the file, since a
turn of `expand_g` at its first letter does not change its `Meaning` (`RepeatedMeans`),
and while it has letters a call of `expand_g` for it is still to come (`Awaited`), so
that it has none when characters are placed. `PlaceInv`: the place kept is that of the
character before, which with one more delta is `Place` of the next (`PlaceStep`), and
what TextCodes pass on is the place given last. `OnceInv`: of the TextCode at work, the
characters before the loop variable are shown as meant and those behind it not at all,
the glyphs shown of its own are the first ones of its transform, and no transform
reaches over it (`CodesInv`); it is therefore not covered (`NotCovered`), and what a
transform steps over is. `Meaning`, `Place` and the covered characters are recursive
functions; that they are what their definitions say is again proved by the least
counterexample (`SaysUnrolled`, `SumsUnrolled`, `CoveredUnrolled`).

`StreamTypes`, `ImageStaysWhole` and the refinement `StreamActsAsFile` are about the
memory stream, from `MemInv`: length and block agree (`InBlock`), bytes in the block
(`HandleOK`), and what the caller has at each stage of the conversion (`CallerInv`).
They hold for every sequence of calls, wrapped sums included: what a wrapped sum can do
is bounded by `LongRange` and its neighbours, and a write that ends within 2^31 - 1
wraps nowhere. The loop that doubles the block is a stutter of `ByteFile`, the copy at
its end the write; once a write was carried out that ends beyond the limit, `ByteFile`
is void.

**Only model-checked.** Liveness (`EventuallyDone`, `OpeningEnds`, `ParsingEnds`,
`WriteEnds`) is out of the prover's reach. `PathAsMeant` of `ObjectParsers` compares a
path with what selections and concatenations of the data say it is (`Figures`,
`Meant`): it needs inductions over the structure of the data that are not done, and is
left to TLC.

## 6. What is not modelled

Pixels, colours, matrices and glyphs (floating point, no state that survives a
call); shadings, patterns and the drawing of text; PDFium, miniz and the OES plug-ins
beyond how they are used; bitmap output, logging, JNI and samples. Of the text export
only that and when it writes. Arcs in path data are read as the code reads them, with
no property about what they should be. In `PdfToOfd` the page area
(`updatePageArea`) is left out. Clients keep the order of handles
(`src/xilou_impl/xilou_impl.h:76`); one that does not is outside every model. A second
background or foreground layer (`src/ofd/cofd_page.cpp:227`) is in the reader's
instance but outside `PagesWhole`. `std::stoi` throwing in a merge is one of the deaths
of `Crash`. The cache of parsed XML is transparent as long as a package is only read,
which is the case in every model. `ContinueParse` is empty in the code: a layer that
was not parsed stays so.

Limits of single models:

* `MemStream`: an image file and the size of a block that is read fit a `long`
  (`MemAssumption`); what happens after `memcpy` has left the block is not modelled.
  FreeImage's own code is not in the repository, so that nothing is said about whether
  it heeds a write that failed.
* `ObjectStyle`: Alpha and its defaults. The depth of the stack is counted in calls, not
  in bytes.
* `TextCode`: a count so large that memory runs out. A capital `G` is outside what
  `TextAsMeant` says: after the first one found `expand_g` goes on with small letters
  only, and the call meant for those of DeltaY is made with DeltaX
  (`src/ofd/cofd_parse_textobj.cpp:103`), so that those of DeltaY are never expanded and
  are read as 0. The module does what the code does; `Regular` leaves such lists out.
* `ObjectClips`: beyond `kMaxTextObjects` the texts of a Clip clip nothing, and the
  object shows what they exclude (`HasRoom` is the condition of the property).
* `PdfEditing`, `OfdSignatures`: which contents end the process is given by the kind of
  file or picture; why they do is the matter of `OfdDocument`, `OfdReader` and
  `PdfToOfd`.

## 7. Plan

Done: merge, renderer with its abstract specification, writer, reader with
`ofd2pdf`, signatures, documents and their resources, the object parsers, the editing
API, the memory stream with its abstract specification, and the proofs above. Next,
in this order:

1. `ObjectParsers`: a proof of `PathAsMeant`.
2. `ZipArchive`: the modes of `COFD_ZipEntry` and its XML cache against rewritten
   entries.
