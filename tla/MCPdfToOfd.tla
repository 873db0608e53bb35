----------------------------- MODULE MCPdfToOfd -----------------------------
(* Small documents for PdfToOfd.                                           *)
EXTENDS PdfToOfd

MCFonts == {"f1", "f2", "f3"}
(* f1 and f3 are two fonts of one name, as the subsets of a font are.      *)
MCFontName == [f \in MCFonts |-> IF f = "f2" THEN "B" ELSE "A"]
MCEmbedded == {"f1"}

T(f) == [kind |-> "text", font |-> f]
O(kind) == [kind |-> kind, font |-> "f1"]
P(objs, notes) == [loads |-> TRUE, objs |-> objs, annots |-> notes]
Unloadable == [loads |-> FALSE, objs |-> <<>>, annots |-> <<>>]
A(objs) == [form |-> TRUE, objs |-> objs]
Formless == [form |-> FALSE, objs |-> <<O("path")>>]
D(ps) == [valid |-> TRUE, pages |-> ps]

MCDocs == {
  [valid |-> FALSE, pages |-> <<>>],
  D(<<>>),
  (* fonts that come and go with the pages *)
  D(<<P(<<T("f1"), T("f2")>>, <<>>), P(<<T("f2")>>, <<>>),
      P(<<T("f3"), T("f1")>>, <<>>)>>),
  (* images, pages that cannot be loaded, objects without an ID *)
  D(<<Unloadable, P(<<O("image"), O("path"), O("image")>>, <<>>), Unloadable,
      P(<<O("shading"), T("f1"), O("noimage")>>, <<>>)>>),
  (* an image that cannot be decoded *)
  D(<<P(<<T("f1"), O("image")>>, <<A(<<O("badimage"), O("path")>>)>>)>>),
  (* annotations, with and without a form, on two pages *)
  D(<<P(<<O("path")>>, <<A(<<T("f2"), O("image")>>), Formless, A(<<>>)>>),
      P(<<>>, <<Formless, A(<<T("f1")>>)>>)>>)}
=============================================================================
