-------------------------- MODULE MCObjectParsers --------------------------
(***************************************************************************)
(* Elements for each of the parsers.                                       *)
(***************************************************************************)
EXTENDS ObjectParsers, SequencesExt

-----------------------------------------------------------------------------
(* Layers, with DrawParams and composite units.                            *)
E(tag, name, has, dp) ==
  [tag |-> tag, name |-> name, shown |-> TRUE, has |-> has, dp |-> dp, res |-> 0]
C(res) == [E("CompositeObject", "", {}, 0) EXCEPT !.res = res]
Hidden(e) == [e EXCEPT !.shown = FALSE]
D(has, relative) == [has |-> has, relative |-> relative]

Params == [x \in {1, 2, 3, 4} |->
  CASE x = 1 -> D({"LineWidth", "FillColor"}, 2)
    [] x = 2 -> D({"LineWidth", "StrokeColor", "Cap"}, 3)
    [] x = 3 -> D({"Cap", "Join", "DashPattern", "StrokeColor"}, 9)
    [] x = 4 -> D({"Join", "MiterLimit"}, 0)]

P == E("PathObject", "p", {"LineWidth", "Cap", "FillColor"}, 0)
Q == E("PathObject", "q", {"LineWidth", "Cap"}, 4)
T == E("TextObject", "t", {"LineWidth", "Join", "FillColor"}, 1)
U == E("TextObject", "u", {"Cap", "StrokeColor"}, 9)
I == E("ImageObject", "i", {}, 0)

(* Every kind of object, under a layer's DrawParam.                        *)
Chained ==
  [layer |-> 1, content |-> <<P, Hidden(P), Q, T, I, U>>,
   drawparams |-> Params, compositeobj |-> <<>>]

(* Units within units, used twice, empty, missing and hidden.              *)
Nested ==
  [layer |-> 0, content |-> <<C(11), Q, C(12), C(13), Hidden(C(11)), C(14)>>,
   drawparams |-> [x \in {4} |-> Params[4]],
   compositeobj |-> [x \in {11, 12, 14} |->
     CASE x = 11 -> <<P, C(12), I>> [] x = 12 -> <<T, Q>> [] x = 14 -> <<>>]]

(* Cycles, one of them out of use.                                         *)
Circular ==
  [layer |-> 0, content |-> <<U, Q>>, compositeobj |-> <<>>,
   drawparams |-> [x \in {3, 4} |-> D({"Join"}, 7 - x)]]
SelfContained ==
  [layer |-> 4, content |-> <<P, C(11)>>, drawparams |-> [x \in {4} |-> Params[4]],
   compositeobj |-> [x \in {11, 12} |-> IF x = 11 THEN <<Q, C(12)>> ELSE <<C(11)>>]]
DrawnWithin == [SelfContained EXCEPT !.compositeobj =
  [x \in {11, 12} |-> IF x = 11 THEN <<C(12)>> ELSE <<Q, C(11)>>]]
Unused == [Circular EXCEPT !.content = <<P, U>>]

(* A chain, and units, just as deep as the stack and one deeper.           *)
Long(n) ==
  [layer |-> 0, content |-> <<[U EXCEPT !.dp = n]>>, compositeobj |-> <<>>,
   drawparams |-> [x \in 1 .. n |-> D({"Join"}, x - 1)]]
Deep(n) ==
  [layer |-> 0, content |-> <<C(n)>>, drawparams |-> <<>>,
   compositeobj |-> [x \in 1 .. n |-> IF x = 1 THEN <<P>> ELSE <<C(x - 1)>>]]

MCDocuments == {Chained, Nested, Circular, SelfContained, DrawnWithin, Unused,
                Long(MaxDepth - 1), Long(MaxDepth), Deep(MaxDepth - 2), Deep(MaxDepth - 1)}

-----------------------------------------------------------------------------
(* All lists of up to four tokens, and some longer ones, as DeltaX of      *)
(* three characters, two TextCodes, and CGTransforms that overlap.         *)
N(n) == [key |-> "none", n |-> n]
K(k) == [key |-> k, n |-> 0]
Tokens == {N(-2), N(0), N(1), N(2), N(4), K("g"), K("G")}
Lists == BoundedSeq(Tokens, 4) \cup
         {<<N(1), K("g"), N(2), N(5), N(7)>>,
          <<K("g"), N(2), N(1), K("g"), N(3), N(2)>>,
          <<K("g"), N(4), N(3), K("G"), N(2), N(1)>>,
          <<K("g"), N(3), K("g"), N(2), N(1)>>}

Code(x, y, dx, dy, text) ==
  [at |-> [X |-> x, Y |-> y], delta |-> [X |-> dx, Y |-> dy], text |-> text]
Text3 == <<TRUE, FALSE, TRUE>>
Object(codes, cgs) ==
  [codes |-> codes, cgs |-> cgs, font |-> TRUE, default |-> TRUE]
Cgt(p, c, g) == [position |-> p, codes |-> c, glyphs |-> g]

OneCode == {Object(<<Code(<<10>>, <<>>, <<d>>, dy, Text3)>>, <<>>) :
              d \in Lists, dy \in {<<>>, <<<<N(1)>>>>, <<<<K("g"), N(2), N(3)>>>>}}

TwoCodes == {Object(<<Code(<<10>>, <<20>>, <<<<N(1), N(2)>>>>, dy, Text3),
                      Code(x, y, <<>>, <<<<N(4)>>>>, Text3)>>, <<>>) :
               x \in {<<>>, <<7>>}, y \in {<<>>, <<8>>},
               dy \in {<<>>, <<<<K("G"), N(2), N(1)>>>>}}

Glyphs == {<<1>>, <<2, 3>>, <<>>}
Transformed == {Object(<<Code(<<>>, <<>>, <<<<N(2)>>>>, <<>>, Text3),
                         Code(<<5>>, <<>>, <<>>, <<>>, <<TRUE>>)>>,
                       <<Cgt(p, c, g), Cgt(q, 1, <<9>>)>>) :
                  p \in 0 .. 3, q \in 0 .. 3, c \in 1 .. 4, g \in Glyphs}

Fontless == {[o EXCEPT !.font = f, !.default = FALSE] :
               o \in TwoCodes \cup Transformed \cup {Object(<<>>, <<>>)}, f \in BOOLEAN}

MCTexts == OneCode \cup TwoCodes \cup Transformed \cup Fontless

-----------------------------------------------------------------------------
(* All objects with up to two Clips of up to two Areas from a few shapes.  *)
R(l, r) == [l |-> l, r |-> r]
S(what, box, bound) == [kind |-> what, box |-> box, bound |-> bound]

Shapes == {S("path", R(1, 3), R(1, 3)), S("path", R(2, 5), R(1, 5)),
           S("path", R(4, 5), R(4, 5)), S("path", R(1, 4), R(2, 4)),
           S("path", R(6, 7), R(5, 7)), S("text", R(1, 2), R(1, 2)),
           S("text", R(2, 4), R(0, 4))}

MCClips == {<<>>} \cup {<<s>> : s \in Shapes} \cup {<<s, t>> : s, t \in Shapes}

MCClipped ==
  {[rect |-> rect, ebbox |-> R(1, 6), clips |-> clips] :
     rect \in {R(2, 6), R(-9, 9)},
     clips \in {<<>>} \cup {<<c>> : c \in MCClips} \cup {<<c, d>> : c, d \in MCClips}}

-----------------------------------------------------------------------------
(* Paths of up to four operators over two points, and data of three or     *)
(* four commands of other writers: short and long curves, arcs, a          *)
(* missing letter, a stray letter and a number too many.                   *)
MCPlaces == {<<0, 0>>, <<4, 1>>}
MCControls == <<<<1, 3>>, <<2, 5>>>>
MCCorners == <<<<0, 0>>, <<6, 0>>, <<6, 7>>, <<0, 7>>>>

L(c) == [letter |-> c, n |-> 0]
V(n) == [letter |-> "none", n |-> n]
Pt(k) == <<V(k), V(10 + k)>>
Pieces == {<<L("M")>> \o Pt(1), <<L("S")>> \o Pt(2), <<L("L")>> \o Pt(3),
           <<L("L")>> \o Pt(3) \o Pt(4), <<L("B")>> \o Pt(5),
           <<L("B")>> \o Pt(5) \o Pt(6), <<L("B")>> \o Pt(5) \o Pt(6) \o Pt(7),
           <<L("Q")>> \o Pt(8) \o Pt(9), <<L("C")>>,
           <<L("A")>> \o Pt(1) \o Pt(2) \o Pt(3) \o <<V(9)>>,
           <<L("Z")>>, Pt(6), <<V(5)>>}
Few == {<<L("M")>> \o Pt(1), <<L("L")>> \o Pt(3), <<L("B")>> \o Pt(5) \o Pt(6),
        <<L("Q")>> \o Pt(8) \o Pt(9), <<L("C")>>}
MCFiles == {FlattenSeq(s) : s \in BoundedSeq(Pieces, 3) \cup BoundedSeq(Few, 4)}

=============================================================================
