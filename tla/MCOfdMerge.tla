----------------------------- MODULE MCOfdMerge -----------------------------
(* Small packages for OfdMerge.                                            *)
EXTENDS OfdMerge, TLC

Nd(pos, tag, id, name) ==
  [pos |-> pos, tag |-> tag, id |-> id, hasLoc |-> TRUE, name |-> name]
Text(ids) == [ids |-> ids, kind |-> "other", below |-> FALSE, refs |-> {}]

MCNames == {"p1", "res", "annots", "an1"}

(* A target with one page; MaxUnitID exact, and the boundary MaxUnitID that *)
(* equals the base step; the third one's zip spells Document.xml in another *)
(* case; the fourth has no MaxUnitID.                                       *)
Target(hasMax, max, id, exact) ==
  [doc |-> [hasMax |-> hasMax, max |-> max, hasPages |-> TRUE,
            nodes |-> {[from |-> 0, pos |-> 1, tag |-> "Page", id |-> id,
                        loc |-> <<Own, "p1">>]}],
   entries |-> [l \in {<<Own, "p1">>} |->
                  [from |-> 0, ids |-> {id - 1}, refs |-> {}]],
   exact |-> exact]
MCTargets == {Target(TRUE, 10, 10, TRUE), Target(TRUE, 9, 9, FALSE),
              Target(FALSE, 0, 7, TRUE)}

(* A page with a resource; an ID that exceeds MaxUnitID by the slack; a    *)
(* file with annotations; one whose MaxUnitID is missing; one that cannot   *)
(* be parsed; one whose DocRoot has no directory.                          *)
Base(max, nodes, entries) ==
  [parses |-> TRUE, dir |-> "rel", hasMax |-> max > 0, max |-> max,
   nodes |-> nodes, entries |-> entries]
Slacky == Base(3, {Nd(1, "Page", 1, "p1"), Nd(2, "DocumentRes", 0, "res")},
               [n \in {"p1", "res"} |->
                  IF n = "p1" THEN Text({2, 5}) ELSE Text({3})])
Annotated ==
  Base(12, {Nd(1, "Page", 12, "p1"), Nd(1, "Annotations", 0, "annots")},
       [n \in {"annots", "an1"} |->
          IF n = "an1" THEN Text({4})
          ELSE [ids |-> {12}, kind |-> "annots", below |-> FALSE,
                refs |-> {[abs |-> FALSE, name |-> "an1"]}]])
NoMax == Base(0, {Nd(1, "Page", 1, "p1"), Nd(1, "TemplatePage", 0, "res")},
              [n \in {"p1"} |-> Text({2})])
Broken == [Base(3, {}, [n \in {"p1"} |-> Text({1})]) EXCEPT !.parses = FALSE]
Flat == [Slacky EXCEPT !.dir = "none"]
AbsAnnots == [Annotated EXCEPT !.dir = "abs"]
BareRes == Base(2, {Nd(1, "Page", 2, "p1"), Nd(1, "PublicRes", 0, "res")},
                [n \in {"p1", "res"} |->
                   IF n = "p1" THEN Text({1})
                   ELSE [Text({}) EXCEPT !.kind = "bareRes"]])

MCSources == {Slacky, Annotated, NoMax, Broken, Flat, AbsAnnots, BareRes}

(* Time stamps are only compared with one another.                         *)
Symmetry == Permutations(Stamps)
=============================================================================
