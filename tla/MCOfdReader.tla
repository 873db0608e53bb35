---------------------------- MODULE MCOfdReader ----------------------------
(* Small packages for OfdReader.                                           *)
EXTENDS OfdReader

A4 == [name |-> "A4", off |-> 0, far |-> -3, turned |-> FALSE]
Shifted == [name |-> "shifted", off |-> 2, far |-> -5, turned |-> FALSE]

E(o) == [kind |-> "plain", objs |-> <<o>>]
Hidden(o) == [kind |-> "hidden", objs |-> <<o>>]
Both(o, p) == [kind |-> "composite", objs |-> <<o, p>>]
L(type, dp, elems) == [type |-> type, dp |-> dp, elems |-> elems]
U(id, z) == [id |-> id, z |-> z]
N(shown, outer, elems) ==
  [shown |-> shown, outer |-> outer, box |-> 1, far |-> -2, elems |-> elems]
F(area, rotated, layers, uses) ==
  [node |-> TRUE, area |-> area, rotated |-> rotated, layers |-> layers,
   uses |-> uses, annots |-> <<>>]
Notes(annots) == [F(NoArea, FALSE, <<>>, <<>>) EXCEPT !.annots = annots]
Nodeless == [F(NoArea, FALSE, <<>>, <<>>) EXCEPT !.node = FALSE]
P(id, loc) == [id |-> id, loc |-> loc]
NP(id, loc) == [page |-> id, loc |-> loc]

(* Layers of all types, a page with an area and one without, a composite.  *)
Layered ==
  [area |-> Shifted, annots |-> <<>>, templates |-> <<>>,
   pages |-> <<P(1, "p1"), P(2, "p2"), P(3, "p3")>>,
   files |-> [p1 |-> F(A4, FALSE, <<L("Body", 7, <<E("a"), Hidden("b")>>),
                                    L("Background", 0, <<E("c")>>),
                                    L("Body", 0, <<E("b")>>),
                                    L("Foreground", 7, <<E("a")>>)>>, <<>>),
              p2 |-> F(NoArea, FALSE, <<L("Background", 7, <<E("a")>>),
                                        L("Body", 0, <<Both("b", "c")>>)>>, <<>>),
              p3 |-> F(Shifted, FALSE, <<L("Foreground", 0, <<E("c")>>),
                                         L("Body", 7, <<E("c")>>)>>, <<>>)]]

(* Templates of every place, two of one, shared, unreadable and unknown.   *)
Templated ==
  [area |-> NoArea, annots |-> <<>>,
   templates |-> <<P(11, "t1"), P(12, "t2"), P(13, "gone"), P(11, "t2"), P(14, "t4")>>,
   pages |-> <<P(1, "p1"), P(2, "p2"), P(3, "p3")>>,
   files |-> [p1 |-> F(NoArea, FALSE, <<L("Body", 0, <<E("a")>>)>>,
                       <<U(11, "Background"), U(13, "Body"), U(12, "Background"),
                         U(15, "Foreground"), U(14, "Body")>>),
              p2 |-> F(A4, TRUE, <<L("Body", 7, <<E("b")>>),
                                   L("Background", 0, <<E("c")>>)>>,
                       <<U(12, "Body"), U(11, "Foreground")>>),
              p3 |-> F(A4, FALSE, <<L("Background", 0, <<E("a")>>),
                                    L("Background", 7, <<E("b")>>)>>, <<>>),
              t1 |-> F(A4, FALSE, <<L("Foreground", 7, <<E("c")>>),
                                    L("Body", 0, <<E("b")>>)>>, <<>>),
              t2 |-> F(Shifted, FALSE, <<L("Body", 0, <<E("a")>>)>>, <<>>),
              t4 |-> Nodeless]]

(* Annotations of two pages, one of them rotated, and a missing file.      *)
Annotated ==
  [area |-> A4, templates |-> <<>>,
   annots |-> <<NP(2, "n1"), NP(1, "n2"), NP(1, "gone"), NP(2, "n2"), NP(1, "n1")>>,
   pages |-> <<P(1, "p1"), P(2, "p2")>>,
   files |-> [p1 |-> F(Shifted, FALSE, <<>>, <<>>),
              p2 |-> F(A4, TRUE, <<L("Body", 0, <<E("a")>>)>>, <<>>),
              n1 |-> Notes(<<N(TRUE, TRUE, <<E("b")>>), N(FALSE, FALSE, <<E("c")>>)>>),
              n2 |-> Notes(<<N(TRUE, FALSE, <<E("c"), Hidden("a")>>)>>)]]

(* Two pages of one ID, and a page whose file is missing.                  *)
Broken ==
  [area |-> NoArea, templates |-> <<>>, annots |-> <<>>,
   pages |-> <<P(1, "p1"), P(2, "gone"), P(1, "p2")>>,
   files |-> [p1 |-> F(NoArea, FALSE, <<L("Body", 0, <<E("a")>>)>>, <<>>),
              p2 |-> F(A4, FALSE, <<L("Body", 0, <<E("b")>>)>>, <<>>)]]

MCPackages == {<<>>, <<Layered>>, <<Templated>>, <<Annotated, Broken>>, <<Broken>>}
=============================================================================
