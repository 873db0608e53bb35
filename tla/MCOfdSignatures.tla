-------------------------- MODULE MCOfdSignatures --------------------------
(***************************************************************************)
(* OfdSignatures on documents that have each fault a verification meets.   *)
(***************************************************************************)
EXTENDS OfdSignatures, TLC

MCPages == {1, 2}

Plain(data) == [Empty EXCEPT !.data = data, !.small = FALSE]
Picture(kind, good) == [kind |-> kind, good |-> good, objs |-> <<"o1">>]
Signed(digest, image) ==
  [data |-> "signed", small |-> FALSE, signs |-> digest, image |-> image]
Stamp(page, box) == [page |-> page, box |-> box]
Ref(file, check) == [file |-> file, check |-> check]

(* A sound Signature.xml with two References and stamps on both pages, one *)
(* of them without a Boundary and one without a PageRef.                   *)
Sound(method, m) ==
  [node |-> TRUE, info |-> TRUE, hasRefs |-> TRUE, method |-> method,
   refs |-> <<Ref("a", <<m, "aa">>), Ref("b", <<m, "bb">>)>>,
   value |-> "v", seal |-> "seal",
   stamps |-> <<Stamp(1, "x"), Stamp(2, "y"), Stamp(1, "z"), Stamp(None, "w"),
                Stamp(2, None)>>]
NoReferences == [Sound("", "MD5") EXCEPT !.refs = <<>>]

Blobs(m, image) ==
  [loc \in {"a", "b", "s", "t", "v", "seal"} |->
     CASE loc = "a" -> Plain("aa") [] loc = "b" -> Plain("bb")
       [] loc = "v" -> Signed(<<m, "xml">>, image)
       [] loc = "seal" -> [Plain("esl") EXCEPT !.image = Picture("ofd", TRUE)]
       [] OTHER -> Plain("xml")]

One(x) == "s" :> x
Doc(bases, xmls, blobs) ==
  [bases |-> bases, xmls |-> xmls, blobs |-> blobs,
   ansi |-> {"a", "b", "s", "t", "v", "seal"}]
Without(f, loc) == [k \in DOMAIN f \ {loc} |-> f[k]]

SoundDoc == Doc(<<"s">>, One(Sound("", "MD5")), Blobs("MD5", Picture("bitmap", TRUE)))
SealDoc == Doc(<<"s">>, One(Sound("SM3", "SM3")), Blobs("SM3", None))

(* Two signatures; the second changed a file, of a third the BaseLoc is    *)
(* empty.                                                                  *)
TwoDoc ==
  [SoundDoc EXCEPT !.bases = <<"s", "", "t">>,
     !.xmls = One(Sound("", "MD5")) @@
              "t" :> [Sound("", "MD5") EXCEPT !.refs[2].check = <<"MD5", "old">>]]

Faulty(x) == [SoundDoc EXCEPT !.xmls = One(x)]
FaultDocs ==
  {Faulty([Sound("", "MD5") EXCEPT !.node = FALSE]),
   Faulty([Sound("", "MD5") EXCEPT !.info = FALSE]),
   Faulty([Sound("", "MD5") EXCEPT !.hasRefs = FALSE]),
   Faulty([Sound("", "MD5") EXCEPT !.refs[1].check = None]),
   Faulty([Sound("", "MD5") EXCEPT !.refs[2].check = <<>>]),
   Faulty([Sound("", "MD5") EXCEPT !.value = None]),
   Faulty([Sound("", "MD5") EXCEPT !.value = ""]),
   Faulty(Sound("unknown", "unknown")),
   Faulty(NoReferences),
   [SoundDoc EXCEPT !.bases = <<None>>],
   [SoundDoc EXCEPT !.bases = <<>>],
   [SoundDoc EXCEPT !.blobs = Without(@, "b")],
   [SoundDoc EXCEPT !.blobs = Without(@, "v")],
   [SoundDoc EXCEPT !.blobs["v"].signs = <<"MD5", "other">>],
   [SoundDoc EXCEPT !.blobs["v"].small = TRUE],
   [SoundDoc EXCEPT !.ansi = {"a", "b", "s"}],
   [SoundDoc EXCEPT !.blobs["v"].image = Picture("tiny", FALSE)],
   [SoundDoc EXCEPT !.blobs["v"].image = Picture("unknown", FALSE)],
   [SoundDoc EXCEPT !.blobs["v"].image = Picture("bitmap", FALSE)],
   [SoundDoc EXCEPT !.blobs["v"].image = Picture("fatal", FALSE)],
   [SoundDoc EXCEPT !.blobs["seal"].image = Picture("fatal", FALSE)],
   [SealDoc EXCEPT !.blobs["seal"].image = Picture("fatal", FALSE)],
   [SealDoc EXCEPT !.blobs = Without(@, "seal")]}

MCDocuments == {SoundDoc, SealDoc, TwoDoc} \cup FaultDocs

Plugin(loaded, exports) ==
  [loaded |-> loaded, exports |-> exports, methods |-> {"MD5", "SM3"}]
MCPlugins ==
  {Plugin(FALSE, {})} \cup
  {Plugin(TRUE, e) : e \in {Functions, Functions \ {"digest"}, Functions \ {"verify"},
                            Functions \ {"message"}, Functions \ {"seal"}}}

=============================================================================
