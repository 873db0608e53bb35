--------------------------- MODULE ObjectParsers ---------------------------
(***************************************************************************)
(* The parsers of page content side by side: a layer with its composites   *)
(* and styles, the characters of a text, the data of a path, the clips of  *)
(* an object.  ParseElement gives an element to the parser of its kind,    *)
(* which runs to its end before the next element; the parsers share no     *)
(* state, so that a behaviour follows one of them.  (The variables that    *)
(* have the same name in two of them are declared once.)                   *)
(***************************************************************************)
EXTENDS Integers, Sequences

CONSTANTS
  Documents, MaxDepth,                          \* of ObjectStyle
  Texts,                                        \* of TextCode
  Clipped, Cells, MaxTextObjects,               \* of ObjectClips
  Places, Controls, Corners, MaxOps, Files      \* of PathData

VARIABLES
  kind,                                         \* the parser at work
  obj, calls, at, i,
  doc, frames, draw, page, state,               \* of ObjectStyle
  code, pc, last, delta, j, shown,              \* of TextCode
  shapes, merged, texts, vtexts, areaBound, clipBound, list, textList, done,
                                                \* of ObjectClips
  phase, ops, pdf, counter, data, points, type, path        \* of PathData

Style == INSTANCE ObjectStyle
Text == INSTANCE TextCode WITH Objects <- Texts
Clips == INSTANCE ObjectClips WITH Objects <- Clipped
Path == INSTANCE PathData

(* The constants describe elements as the parsers meet them.               *)
ASSUME ParsersAssumption ==
  /\ Style!StyleAssumption /\ Text!TextAssumption
  /\ Clips!ClipsAssumption /\ Path!PathAssumption

(* The variables of a parser that is not at work.                          *)
StyleOnly == <<doc, frames, draw, page, state>>
TextOnly == <<code, pc, last, delta, j, shown>>
ClipsOnly ==
  <<shapes, merged, texts, vtexts, areaBound, clipBound, list, textList, done>>
PathOnly == <<phase, ops, pdf, counter, data, points, type, path>>

vars == <<kind, obj, calls, at, i, StyleOnly, TextOnly, ClipsOnly, PathOnly>>

NoStyle == doc = {} /\ frames = {} /\ draw = {} /\ page = {} /\ state = {}
NoText == code = {} /\ pc = {} /\ last = {} /\ delta = {} /\ j = {} /\ shown = {}
NoClips ==
  /\ shapes = {} /\ merged = {} /\ texts = {} /\ vtexts = {} /\ areaBound = {}
  /\ clipBound = {} /\ list = {} /\ textList = {} /\ done = {}
NoPath ==
  /\ phase = {} /\ ops = {} /\ pdf = {} /\ counter = {}
  /\ data = {} /\ points = {} /\ type = {} /\ path = {}

Init ==
  \/ /\ kind = "layer" /\ Style!Init
     /\ at = {} /\ i = {} /\ NoText /\ NoClips /\ NoPath
  \/ /\ kind = "text" /\ Text!Init
     /\ NoStyle /\ NoClips /\ NoPath
  \/ /\ kind = "clips" /\ Clips!Init
     /\ calls = {} /\ i = {} /\ NoStyle /\ NoText /\ NoPath
  \/ /\ kind = "path" /\ Path!Init
     /\ obj = {} /\ calls = {} /\ at = {} /\ NoStyle /\ NoText /\ NoClips

-----------------------------------------------------------------------------
(* COFD_Page::ParseElement has chosen the parser by the element's tag.     *)
ParseLayer ==
  /\ kind = "layer" /\ Style!Parse
  /\ UNCHANGED <<kind, at, i, TextOnly, ClipsOnly, PathOnly>>
ParseText ==
  /\ kind = "text" /\ Text!Step
  /\ UNCHANGED <<kind, StyleOnly, ClipsOnly, PathOnly>>
ParseClips ==
  /\ kind = "clips" /\ Clips!Step
  /\ UNCHANGED <<kind, calls, i, StyleOnly, TextOnly, PathOnly>>
ParsePath ==
  /\ kind = "path" /\ Path!Step
  /\ UNCHANGED <<kind, obj, calls, at, StyleOnly, TextOnly, ClipsOnly>>

(* The next layer of a page, or of another document.                       *)
NextLayer(d) ==
  /\ kind = "layer" /\ Style!ParseLayer(d)
  /\ UNCHANGED <<kind, at, i, TextOnly, ClipsOnly, PathOnly>>

Finished ==
  CASE kind = "layer" -> state # "busy"
    [] kind = "text" -> Text!Finished
    [] kind = "clips" -> done
    [] kind = "path" -> phase = "done"

Step == ParseLayer \/ ParseText \/ ParseClips \/ ParsePath

(* Any number of layers; the other parsers stop at the end of their object.*)
Next ==
  \/ Step
  \/ \E d \in Documents : NextLayer(d)
  \/ kind # "layer" /\ Finished /\ UNCHANGED vars

(* A parser runs until it returns.                                         *)
Spec == Init /\ [][Next]_vars /\ WF_vars(Step)

-----------------------------------------------------------------------------
(* A layer has the objects of its visible elements once, in the order of   *)
(* the file, those of nested composites in their place, and each has every *)
(* attribute of its style from the element that comes first in precedence, *)
(* over chains of DrawParams of any length and with nothing of the object  *)
(* parsed before (ParseBody, ParseDrawParam, ParseCompositeObject).        *)
StyleAsMeant == kind = "layer" => Style!StyleByPrecedence /\ Style!ObjectsInOrder

(* A text has each character once, as itself or by the transform that      *)
(* covers it, where its own TextCode puts it, although deltas are expanded *)
(* in place and places passed on (expand_g, calcCodePosAtIndex).           *)
TextAsMeant ==
  kind = "text" => Text!ExpandedAsMeant /\ Text!PlacedAsMeant /\ Text!EachCharacterOnce

(* Clips never show what they exclude, up to the very last text that the   *)
(* clip path of an object takes, and where the code keeps paths and texts, *)
(* or several Clips, apart they show all they include (ApplyClips,         *)
(* AppendTexts).                                                           *)
ClipsAsMeant == kind = "clips" => Clips!NothingTooMuch /\ Clips!ClippedAsMeant

(* A path written by the converter comes back figure by figure, and data   *)
(* of any other writer that is well-formed is read as the format means it, *)
(* although points are appended under the letter that follows them         *)
(* (Cxml_pathobj::convert, GenPath, append2Path).                          *)
PathAsMeant == kind = "path" => Path!FiguresKept /\ Path!ReadAsMeant

(* A parser ends the process only on resources nested deeper than the      *)
(* stack, in themselves or not (ParseDrawParam, ParseCompositeObject), and *)
(* on a text that has no font, or has a list of deltas that breaks off or  *)
(* a count below 0 (SetTextMatrix, appendChar, expand_g).                  *)
ParserDeathExplained ==
  /\ kind = "layer" => Style!OverflowOnlyByDepth
  /\ kind = "text" => Text!DeadForAReason

(* Every parser comes to an end, on any element: cycles of resources and   *)
(* lists that grow while they are searched included.                       *)
ParsingEnds == ~Finished ~> Finished

=============================================================================
