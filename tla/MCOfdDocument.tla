--------------------------- MODULE MCOfdDocument ---------------------------
(* Small packages for OfdDocument.                                         *)
EXTENDS OfdDocument

R(kind, id) == [kind |-> kind, id |-> id, file |-> ""]
RF(kind, id, file) == [kind |-> kind, id |-> id, file |-> file]
Res(loc) == [tag |-> "Res", id |-> 0, loc |-> loc]
T(id, loc) == [tag |-> "TemplatePage", id |-> id, loc |-> loc]
P(id, loc) == [id |-> id, loc |-> loc]
N(id, loc) == [page |-> id, loc |-> loc]
Body(d) == [root |-> TRUE, info |-> "id", doc |-> d]

(* Two resource files with equal IDs, in one kind and in two, fonts that   *)
(* cannot be loaded, media without a file; pages of one ID.                *)
Rich ==
  [node |-> TRUE, hasPages |-> TRUE, annots |-> "annots",
   common |-> <<Res("r1"), T(11, "t1"), Res("gone"), T(0, ""), Res("r2"), T(11, "t2"), T(12, "t2")>>,
   pages |-> <<P(1, "p1"), P(NoId, "p2"), P(2, ""), P(3, "p3"), P(1, "p4")>>,
   binary |-> {"f1"},
   res |-> [r1 |-> <<R("DrawParam", 7), RF("Font", 8, "f0"), R("MultiMedia", 9),
                     R("ColorSpace", 7), R("Font", 10)>>,
            r2 |-> <<R("CompositeGraphicUnit", NoId), RF("DrawParam", 7, "again"),
                     RF("Font", 8, "f1"), RF("MultiMedia", 9, "m1"),
                     R("CompositeGraphicUnit", 8)>>],
   notes |-> [annots |-> <<N(3, "n1"), N(1, "n2"), N(3, "n3")>>]]

(* IDs beyond what a float holds, and no pages.                            *)
Large ==
  [Rich EXCEPT !.hasPages = FALSE, !.common = <<Res("r1")>>,
     !.res = [r1 |-> <<R("DrawParam", 16777216), R("DrawParam", 16777217),
                       RF("Font", 16777217, "f1"), RF("Font", 7, "f1")>>],
     !.notes = <<>>]

EmptyFileLoc == [Rich EXCEPT !.notes = [annots |-> <<N(1, "n1"), N(1, ""), N(3, "n2")>>]]
EmptyRes == [Rich EXCEPT !.common = <<Res("r1"), Res("")>>]
EmptyTemplate == [Rich EXCEPT !.common = <<T(11, "")>>]
NoList == [Rich EXCEPT !.annots = "gone"]
Unread == [Rich EXCEPT !.node = FALSE]

MCPackages ==
  {<<>>, <<Body(Rich)>>, <<Body(Unread), Body(Large)>>, <<Body(NoList), Body(EmptyRes)>>,
   <<Body(EmptyTemplate)>>, <<Body(EmptyFileLoc)>>,
   <<Body(Rich), [Body(Rich) EXCEPT !.info = "noid"]>>,
   <<[Body(Rich) EXCEPT !.info = "none"], [Body(Rich) EXCEPT !.root = FALSE]>>}
=============================================================================
