---------------------------- MODULE MCPageRender ----------------------------
(* Small requests for PageRender.                                          *)
EXTENDS PageRender

O(kind, clip) == [kind |-> kind, clip |-> clip, misses |-> {}]
Outside(kind) == [kind |-> kind, clip |-> {}, misses |-> {Base}]
OfLayer(objs) == [parsed |-> TRUE, objs |-> objs]

MCClipNames == {"c1", "c2"}

Plain == [bgT |-> <<>>, bg |-> <<>>, annots |-> <<>>, bodyT |-> <<>>,
          body |-> OfLayer(<<>>), fgT |-> <<>>, fg |-> <<>>, sigs |-> <<>>]

(* Clips that change and are lifted, an object outside the clip, a slot     *)
(* that was emptied, and objects outside the clip of the one below them.   *)
Clipping ==
  [Plain EXCEPT
     !.bg = <<OfLayer(<<O("path", {"c1"})>>)>>,
     !.body = OfLayer(<<O("path", {}), O("path", {"c1"}), O("image", {"c1"}),
                        Outside("path"), O("null", {}), O("path", {"c2"}),
                        [O("path", {}) EXCEPT !.misses = {"c2"}],
                        O("image", {"c2"})>>),
     !.sigs = <<OfLayer(<<[O("image", {}) EXCEPT !.misses = {"c2"}]>>)>>]

(* Templates, annotations, an empty layer, shadings and patterned text.     *)
Layered ==
  [Plain EXCEPT
     !.bgT = <<OfLayer(<<O("shading", {})>>)>>,
     !.annots = <<OfLayer(<<O("path", {"c2"})>>), OfLayer(<<>>)>>,
     !.bodyT = <<OfLayer(<<O("patternText", {}), O("path", {})>>)>>,
     !.body = OfLayer(<<O("patternText", {"c1"}), O("path", {"c1"}),
                        O("shading", {"c1"})>>),
     !.fgT = <<OfLayer(<<O("path", {})>>)>>,
     !.fg = <<OfLayer(<<O("image", {})>>)>>]

(* Masks, first, last and in the middle of a layer.                        *)
Masked ==
  [Plain EXCEPT
     !.body = OfLayer(<<O("mask", {"c1"}), O("path", {}), O("mask", {})>>),
     !.fg = <<OfLayer(<<O("path", {"c1"}), O("mask", {"c2"}),
                        O("image", {"c2"})>>)>>]

(* A page whose Parse was never called, below a parsed layer.              *)
Unparsed ==
  [Plain EXCEPT !.bg = <<OfLayer(<<O("path", {"c1"})>>)>>,
                !.body = [parsed |-> FALSE, objs |-> <<>>],
                !.fg = <<OfLayer(<<O("path", {})>>)>>]

Ask(page) == [page : {page}, driver : {TRUE}, annot : {TRUE}, pause : BOOLEAN,
              restore : BOOLEAN, breakForMasks : {FALSE}, printer : {FALSE}]

MCJobs ==
  Ask(Clipping) \cup Ask(Layered) \cup Ask(Unparsed)
  \cup {[j EXCEPT !.annot = FALSE] : j \in Ask(Layered)}
  \cup {[j EXCEPT !.driver = FALSE] : j \in Ask(Clipping)}
  \cup [page : {Masked}, driver : {TRUE}, annot : {FALSE}, pause : BOOLEAN,
        restore : BOOLEAN, breakForMasks : BOOLEAN, printer : BOOLEAN]
=============================================================================
