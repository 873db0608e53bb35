--------------------------- MODULE OfdSignatures ---------------------------
(***************************************************************************)
(* The signatures of an OFD document: COfdSignature and COFD_PageSignature  *)
(* of src/ofd, xilou_verify of src/xilou_impl/xilou_signature.cpp and the  *)
(* plug-in for electronic seals that src/ofd/oes/oes_loader.cpp loads.     *)
(*                                                                         *)
(* A client verifies signatures and draws pages in any order.  Verifying   *)
(* walks the References of a Signature.xml and then has the plug-in check  *)
(* the SignedValue over that file; drawing collects the stamps once and    *)
(* gives those of the page to the renderer.                                *)
(*                                                                         *)
(* Locations are as resolved against Signature.xml.  IDs and types of      *)
(* signatures, and the clip of a stamp, are read by nobody and left out.   *)
(***************************************************************************)
EXTENDS Integers, Sequences, Selection

CONSTANTS
  Documents,   \* documents a client may open
  Plugins,     \* plug-ins that may be installed
  Pages,       \* IDs of pages
  Objects,     \* page objects
  Messages,    \* error messages of the plug-in
  None         \* what is not there

(* An entry of the package as bytes.  small: less than 10 bytes.  signs and *)
(* image are what the plug-in finds in it: the digest it is a signature    *)
(* over, and a picture.                                                    *)
Empty == [data |-> "", small |-> TRUE, signs |-> None, image |-> None]

(* A picture.  kind: what its first bytes say; good: that the decoder, or  *)
(* for "ofd" the reader, gets objs out of it.  A "fatal" one is an OFD     *)
(* package that ends the process when it is opened and its first page is   *)
(* loaded and parsed: one without pages, one with an empty location of its *)
(* resources, and whatever else OfdDocument and ObjectParsers die of.      *)
ImageKinds == {"tiny", "ofd", "fatal", "unknown", "bitmap"}

(* A Signature.xml.  node, info and hasRefs: the Signature, SignedInfo and *)
(* References elements; a Reference has the CheckValue check, <<>> if it is *)
(* empty; value and seal are the locations of the SignedValue and the Seal. *)
(* The method "" stands for a CheckMethod of at most one character.        *)
(*                                                                         *)
(* A document: the BaseLocs of its signatures, the Signature.xml files that *)
(* parse, all entries of the package, and the names that are the same in   *)
(* UTF-8 and in the default code page.                                     *)
IsDocument(d) ==
  /\ d.bases \in Seq(STRING \cup {None})
  /\ \A loc \in DOMAIN d.xmls :
       LET x == d.xmls[loc]
       IN  /\ x.node \in BOOLEAN /\ x.info \in BOOLEAN /\ x.hasRefs \in BOOLEAN
           /\ Len(x.refs) \in Nat /\ Len(x.stamps) \in Nat
           /\ \A k \in 1 .. Len(x.stamps) : x.stamps[k].page \in Pages \cup {None}
  /\ \A loc \in DOMAIN d.blobs :
       d.blobs[loc].image # None =>
         d.blobs[loc].image.kind \in ImageKinds /\ d.blobs[loc].image.objs \in Seq(Objects)
  /\ None \notin d.ansi /\ "" \notin d.ansi

(* loaded: ErrorCode() = 0, which needs OES_Verify and OESV4_GetSignImage; *)
(* the others say which OESV4 functions the library exports: the three for *)
(* digests, OESV4_Verify, OESV4_GetErrMessage, OESV4_GetSealImage.         *)
Functions == {"digest", "verify", "message", "seal"}

(* Error codes, without their XILOU_E_.                                    *)
SUC == "SUC"
INVALID_XML == "OFD_INVALID_SIGNATURE_XML"
LOADER == "OFD_OES_LOADER"
ENTRY_HASH == "OFD_ENTRY_HASH"
SIGNED_VERIFY == "OFD_SIGNED_VERIFY_ERROR"
Codes == {SUC, INVALID_XML, LOADER, ENTRY_HASH, SIGNED_VERIFY}

ASSUME SignatureAssumption ==
  /\ \A d \in Documents : IsDocument(d)
  /\ \A p \in Plugins : p.loaded \in BOOLEAN /\ p.exports \subseteq Functions
  /\ None \notin Documents /\ None \notin Pages /\ None \notin Codes
  /\ SUC \notin Messages

VARIABLES
  doc,      \* the document, None if none is open
  sigs,     \* its COfdSignature objects
  oes,      \* the plug-in
  call,     \* the call under way
  verdict,  \* what the last xilou_verify of each signature returned
  shown     \* the layers of stamps of the last page that was drawn

vars == <<doc, sigs, oes, call, verdict, shown>>

NoCall == [op |-> "none", sig |-> 0, at |-> 0, page |-> None, list |-> <<>>]
NothingShown == [page |-> None, list |-> <<>>]

-----------------------------------------------------------------------------
(* ReadBinary leaves the buffer empty if there is no such entry.           *)
ReadBinary(loc) == IF loc \in DOMAIN doc.blobs THEN doc.blobs[loc] ELSE Empty

(* The same for a name that was converted to the default code page, which  *)
(* drops what it does not have.                                            *)
ReadByAnsiName(loc) == IF loc \in doc.ansi THEN ReadBinary(loc) ELSE Empty

HasXml(i) == sigs[i].loc \in DOMAIN doc.xmls
Xml(i) == doc.xmls[sigs[i].loc]

(* Mutant: no method at all is no default.                                 *)
CheckMethodAsIs(x) == x.method
CheckMethod(x) == IF x.method = "" THEN "MD5" ELSE x.method

(* The plug-in's digest; the codes it returns are not looked at, and the   *)
(* digest of a method it does not know is empty.                           *)
Digest(method, data) == IF method \in oes.methods THEN <<method, data>> ELSE <<>>

-----------------------------------------------------------------------------
Init ==
  /\ doc = None /\ sigs = <<>>
  /\ oes \in Plugins
  /\ call = NoCall /\ verdict = <<>> /\ shown = NothingShown

NewSignature(loc) == [loc |-> loc, collected |-> FALSE, stamps |-> <<>>, msg |-> None]

(* COFD_Document::ParseSignatures.  An empty BaseLoc is passed over; one    *)
(* that is not there gives a signature without a location.                 *)
Open(d) ==
  /\ doc = None /\ call = NoCall
  /\ doc' = d
  /\ LET bases == Selected(d.bases, {k \in 1 .. Len(d.bases) : d.bases[k] # ""})
     IN  /\ sigs' = [i \in 1 .. Len(bases) |-> NewSignature(bases[i])]
         /\ verdict' = [i \in 1 .. Len(bases) |-> None]
  /\ UNCHANGED <<oes, call, shown>>

(* xilou_DropDocument: the destructor of COFD_Document.                    *)
Close ==
  /\ doc # None /\ call = NoCall
  /\ doc' = None /\ sigs' = <<>> /\ verdict' = <<>> /\ shown' = NothingShown
  /\ UNCHANGED <<oes, call>>

(* The null pointer of an XML file or of a node that is not there, or of a  *)
(* function the plug-in lacks, or a fatal picture, ends the process ...    *)
Die ==
  /\ call' = [NoCall EXCEPT !.op = "dead"]
  /\ UNCHANGED <<doc, sigs, oes, verdict, shown>>

(* ... and another one starts.                                             *)
Restart ==
  /\ call.op = "dead"
  /\ doc' = None /\ sigs' = <<>> /\ verdict' = <<>> /\ shown' = NothingShown
  /\ oes' \in Plugins /\ call' = NoCall

Return(i, code, msg) ==
  /\ call' = NoCall
  /\ verdict' = [verdict EXCEPT ![i] = code]
  /\ sigs' = [sigs EXCEPT ![i].msg = msg]
  /\ UNCHANGED <<doc, oes, shown>>

-----------------------------------------------------------------------------
(* xilou_verify of a signature there is, up to the first Reference.        *)
Verify(i) ==
  /\ doc # None /\ call = NoCall
  /\ IF ~HasXml(i) THEN Die
     ELSE IF Xml(i).node /\ Xml(i).info /\ Xml(i).hasRefs
     THEN /\ call' = [NoCall EXCEPT !.op = "verify", !.sig = i]
          /\ UNCHANGED <<doc, sigs, oes, verdict, shown>>
     ELSE Return(i, INVALID_XML, sigs[i].msg)

(* Mutant: a Reference whose file is gone counts as unchanged.             *)
ReferenceCodeGone(x, r) ==
  LET data == ReadBinary(r.file).data
  IN  IF data = "" THEN SUC
      ELSE IF r.check = <<>> THEN INVALID_XML
      ELSE IF ~oes.loaded \/ "digest" \notin oes.exports THEN LOADER
      ELSE IF Digest(CheckMethod(x), data) = r.check THEN SUC ELSE ENTRY_HASH

(* VerifyReference.                                                        *)
ReferenceCode(x, r) ==
  LET data == ReadBinary(r.file).data
  IN  IF data = "" \/ r.check = <<>> THEN INVALID_XML
      ELSE IF ~oes.loaded \/ "digest" \notin oes.exports THEN LOADER
      ELSE IF Digest(CheckMethod(x), data) = r.check THEN SUC ELSE ENTRY_HASH

(* VerifyReferences: one Reference.                                        *)
VerifyReference ==
  /\ call.op = "verify" /\ call.at < Len(Xml(call.sig).refs)
  /\ LET x == Xml(call.sig)
         r == x.refs[call.at + 1]
         code == ReferenceCode(x, r)
     IN  IF r.check = None THEN Die
         ELSE IF code = SUC
         THEN /\ call' = [call EXCEPT !.at = @ + 1]
              /\ UNCHANGED <<doc, sigs, oes, verdict, shown>>
         ELSE Return(call.sig, code, IF code = ENTRY_HASH THEN r.file
                                     ELSE sigs[call.sig].msg)

(* What the plug-in may say of a SignedValue: yes only if it is one over   *)
(* the digest, and no in any case, with a message or without.              *)
Answers(digest, value) ==
  (IF digest # <<>> /\ value.signs = digest THEN {SUC} ELSE {}) \cup Messages \cup {None}

(* Mutant: the plug-in is used without asking whether it has digests.      *)
ValueFaultUnasked(x) ==
  IF x.value = None \/ x.value = "" THEN INVALID_XML
  ELSE IF ~oes.loaded THEN LOADER ELSE None

(* VerifySignedValue up to the digest: what it returns early with.         *)
ValueFault(x) ==
  IF x.value = None \/ x.value = "" THEN INVALID_XML
  ELSE IF ~oes.loaded \/ "digest" \notin oes.exports THEN LOADER ELSE None

(* The bytes the SignedValue is over: all of Signature.xml.                *)
SignedData(i) == ReadBinary(sigs[i].loc).data

AllReferences ==
  call.op = "verify" /\ call.at = Len(Xml(call.sig).refs)

(* The value of an empty vector's first byte is asked for when the         *)
(* SignedValue is not there: a checking build stops, others go on.         *)
VerifySignedValue ==
  /\ AllReferences
  /\ LET i == call.sig
         x == Xml(i)
         value == ReadBinary(x.value)
     IN  IF ValueFault(x) # None THEN Return(i, ValueFault(x), sigs[i].msg)
         ELSE /\ {"digest", "verify"} \subseteq oes.exports
              /\ \E a \in Answers(Digest(CheckMethod(x), SignedData(i)), value) :
                   IF a = SUC THEN Return(i, SUC, sigs[i].msg)
                   ELSE /\ "message" \in oes.exports
                        /\ Return(i, SIGNED_VERIFY, IF a = None THEN sigs[i].msg ELSE a)

(* The same, when it ends the process.                                     *)
VerifySignedValueDies ==
  /\ AllReferences
  /\ ValueFault(Xml(call.sig)) = None
  /\ \/ ReadBinary(Xml(call.sig).value).data = ""
     \/ ~({"digest", "verify", "message"} \subseteq oes.exports)
  /\ Die

-----------------------------------------------------------------------------
(* Mutant: the picture of the seal is not asked for.                       *)
SealImageNone(x) == None

(* GetSealImageFromESL.                                                    *)
SealImage(x) ==
  LET seal == ReadByAnsiName(x.seal)
  IN  IF x.info /\ x.seal \notin {None, ""} /\ ~seal.small /\ "seal" \in oes.exports
      THEN seal.image ELSE None

(* GenAppearance up to the image that it decodes: one of the SignedValue   *)
(* comes before one of the seal.                                           *)
ImageOf(x) ==
  LET value == ReadByAnsiName(x.value)
  IN  IF ~x.node \/ x.value \in {None, ""} \/ value.small \/ ~oes.loaded THEN None
      ELSE IF value.image # None THEN value.image ELSE SealImage(x)

(* The rest of it: the objects of a stamp.  An image that is an OFD package *)
(* gives the objects of its first page (GetSealImageFromOFD) ...           *)
Appearance(x) ==
  LET image == ImageOf(x)
  IN  IF image = None THEN <<>>
      ELSE IF image.kind \in {"tiny", "unknown"} \/ ~image.good THEN <<>>
      ELSE image.objs

(* ... unless reading it ends the process.                                 *)
FatalAppearance(x) == ImageOf(x) # None /\ ImageOf(x).kind = "fatal"

(* Mutant: the stamps are collected whenever they are asked for.           *)
CollectedNever(s) == FALSE
Collected(s) == s.collected

(* The stamp that comes of the k-th StampAnnot of signature i; from is a   *)
(* ghost.                                                                  *)
NewStamp(i, x, k) ==
  [page |-> x.stamps[k].page, box |-> x.stamps[k].box, objs |-> Appearance(x),
   parsed |-> FALSE, from |-> <<i, k>>]

(* The StampAnnots with a PageRef and a Boundary.                          *)
WholeStamps(x) ==
  {k \in 1 .. Len(x.stamps) : x.stamps[k].page # None /\ x.stamps[k].box # None}

(* COfdSignature::GetPageSignatureCount of the i-th signature s.  A        *)
(* signature whose XML is of no use is tried again.                        *)
Collect(i, s, x) ==
  IF Collected(s) \/ ~x.node \/ ~x.info THEN s
  ELSE LET new == [k \in 1 .. Len(x.stamps) |-> NewStamp(i, x, k)]
       IN  [s EXCEPT !.collected = TRUE,
                     !.stamps = s.stamps \o Selected(new, WholeStamps(x))]

(* The same, when the appearance of its first stamp ends the process.      *)
CollectDies(s, x) ==
  /\ ~Collected(s) /\ x.node /\ x.info /\ WholeStamps(x) # {}
  /\ FatalAppearance(x)

(* The stamps of a page.                                                   *)
StampsOf(s, p) == Selected(s.stamps, {k \in 1 .. Len(s.stamps) : s.stamps[k].page = p})

(* GetPageSignature marks the stamps of the page as parsed.                *)
MarkParsed(s, p) ==
  [s EXCEPT !.stamps = [k \in 1 .. Len(s.stamps) |->
     IF s.stamps[k].page = p THEN [s.stamps[k] EXCEPT !.parsed = TRUE]
     ELSE s.stamps[k]]]

(* RenderPageImpl asks COFD_Page::GetPageSignature for the stamps ...      *)
DrawPage(p) ==
  /\ doc # None /\ call = NoCall
  /\ call' = [NoCall EXCEPT !.op = "draw", !.page = p]
  /\ UNCHANGED <<doc, sigs, oes, verdict, shown>>

(* ... of one signature after the other ...                                *)
GetPageSignature ==
  /\ call.op = "draw" /\ call.sig + 1 \in DOMAIN sigs
  /\ LET i == call.sig + 1
     IN  IF ~HasXml(i) /\ ~Collected(sigs[i]) THEN Die
         ELSE IF CollectDies(sigs[i], Xml(i)) THEN Die
         ELSE LET s == MarkParsed(Collect(i, sigs[i], Xml(i)), call.page)
              IN  /\ sigs' = [sigs EXCEPT ![i] = s]
                  /\ call' = [call EXCEPT !.sig = i, !.list = @ \o StampsOf(s, call.page)]
                  /\ UNCHANGED <<doc, oes, verdict, shown>>

(* ... and appends them as layers above all others.                        *)
StampsDrawn ==
  /\ call.op = "draw" /\ call.sig + 1 \notin DOMAIN sigs
  /\ shown' = [page |-> call.page, list |-> call.list]
  /\ call' = NoCall
  /\ UNCHANGED <<doc, sigs, oes, verdict>>

Next ==
  \/ \E d \in Documents : Open(d)
  \/ Close \/ Restart
  \/ \E i \in DOMAIN sigs : Verify(i)
  \/ VerifyReference \/ VerifySignedValue \/ VerifySignedValueDies
  \/ \E p \in Pages : DrawPage(p)
  \/ GetPageSignature \/ StampsDrawn

Spec == Init /\ [][Next]_vars

-----------------------------------------------------------------------------
(* Every variable has its type, signatures exist only with their document, *)
(* and a verification under way is at one of the References.               *)
TypeOK ==
  /\ oes \in Plugins
  /\ doc \in Documents \cup {None} /\ (doc = None => sigs = <<>>)
  /\ DOMAIN verdict = DOMAIN sigs
  /\ \A i \in DOMAIN verdict : verdict[i] \in Codes \cup {None}
  /\ call.op \in {"none", "verify", "draw", "dead"}
  /\ call.op = "verify" => /\ call.sig \in DOMAIN sigs
                           /\ call.at \in 0 .. Len(Xml(call.sig).refs)
  /\ call.op = "draw" => call.sig \in 0 .. Len(sigs) /\ call.page \in Pages

(* What a Signature.xml states of a Reference: the file is there and has   *)
(* the digest written down, by the method named or else by MD5.            *)
StatedDigest(x, data) == <<IF x.method = "" THEN "MD5" ELSE x.method, data>>
Unchanged(x, r) ==
  /\ ReadBinary(r.file).data # ""
  /\ r.check = StatedDigest(x, ReadBinary(r.file).data)

(* A signature that xilou_verify accepted has a Signature.xml all of whose *)
(* References are unchanged, and a SignedValue over the very bytes of it:  *)
(* whichever other calls came before, and whatever the plug-in lacks       *)
(* (verify, VerifyReferences and VerifySignedValue).                       *)
SuccessIsEarned ==
  \A i \in DOMAIN sigs : verdict[i] = SUC =>
    /\ HasXml(i)
    /\ \A k \in 1 .. Len(Xml(i).refs) : Unchanged(Xml(i), Xml(i).refs[k])
    /\ ReadBinary(Xml(i).value).signs = StatedDigest(Xml(i), ReadBinary(sigs[i].loc).data)

(* A signature refused for a changed file has one, or one by a method that *)
(* the plug-in does not know; the message xilou_sig_errmsg gives names the *)
(* first such file (VerifyReference).                                      *)
FirstChangeNamed ==
  \A i \in DOMAIN sigs : verdict[i] = ENTRY_HASH =>
    \E k \in 1 .. Len(Xml(i).refs) :
      /\ sigs[i].msg = Xml(i).refs[k].file
      /\ \/ ~Unchanged(Xml(i), Xml(i).refs[k])
         \/ StatedDigest(Xml(i), "")[1] \notin oes.methods
      /\ \A j \in 1 .. k - 1 : Unchanged(Xml(i), Xml(i).refs[j])

(* The k-th StampAnnot of signature i is for page p.                       *)
Stated(i, k, p) ==
  /\ Xml(i).node /\ Xml(i).info
  /\ Xml(i).stamps[k].page = p /\ Xml(i).stamps[k].box # None

(* Signatures in their order, StampAnnots in theirs.                       *)
Before(a, b) == a[1] < b[1] \/ (a[1] = b[1] /\ a[2] < b[2])

(* A page is drawn with every stamp its signatures put on it, once and in  *)
(* order, though they are collected for all pages by whichever page is     *)
(* drawn first; each is marked as parsed, without which the drawing of a   *)
(* page would not end (GetPageSignature).                                  *)
StampsOnce ==
  shown.page # None =>
    /\ \A i \in 1 .. Len(sigs) : \A k \in 1 .. Len(Xml(i).stamps) :
         Stated(i, k, shown.page) =>
           \E n \in 1 .. Len(shown.list) : shown.list[n].from = <<i, k>>
    /\ \A n \in 1 .. Len(shown.list) :
         \E i \in 1 .. Len(sigs) : \E k \in 1 .. Len(Xml(i).stamps) :
           /\ Stated(i, k, shown.page)
           /\ shown.list[n].from = <<i, k>>
           /\ shown.list[n].page = shown.page
           /\ shown.list[n].box = Xml(i).stamps[k].box
           /\ shown.list[n].parsed
    /\ \A m, n \in 1 .. Len(shown.list) :
         m < n => Before(shown.list[m].from, shown.list[n].from)

(* The picture a stamp should have: that of the SignedValue, else the      *)
(* seal's.                                                                 *)
StatedImage(x) ==
  IF ReadBinary(x.value).image # None THEN ReadBinary(x.value).image
  ELSE ReadBinary(x.seal).image

(* A good one in an entry of 10 bytes and more, with a name that the code  *)
(* page has.  The seal matters only if the SignedValue has no picture, but *)
(* the SignedValue is read first in any case.                              *)
Showable(x) ==
  /\ x.value \in doc.ansi /\ ~ReadBinary(x.value).small
  /\ ReadBinary(x.value).image = None =>
       x.seal \in doc.ansi /\ ~ReadBinary(x.seal).small /\ "seal" \in oes.exports
  /\ StatedImage(x) # None
  /\ StatedImage(x).good /\ StatedImage(x).kind \in {"bitmap", "ofd"}

(* A signature that was accepted is also seen: its stamps have the picture *)
(* of the signature or else of the seal, if there is one to show           *)
(* (GenAppearance reads by another name what VerifySignedValue reads, and  *)
(* is called when a page is first drawn).                                  *)
AcceptedIsSeen ==
  \A i \in DOMAIN sigs :
    verdict[i] = SUC /\ Showable(Xml(i)) =>
      \A k \in 1 .. Len(sigs[i].stamps) :
        sigs[i].stamps[k].objs = StatedImage(Xml(i)).objs

(* What ends the process is a Signature.xml that is not there, a Reference *)
(* without CheckValue, or, with a plug-in that has digests, a SignedValue  *)
(* that is not there or a function it lacks; without a plug-in verifying   *)
(* gives an error (VerifySignedValue).  With a plug-in it is also a stamp  *)
(* to be drawn whose picture, that of the SignedValue or else of the seal, *)
(* is a fatal OFD package (GetSealImageFromOFD); a fatal seal below        *)
(* another picture does no harm.                                           *)
DeathHasAReason ==
  call.op = "dead" =>
    \/ \E i \in DOMAIN sigs :
         \/ ~HasXml(i)
         \/ \E k \in 1 .. Len(Xml(i).refs) : Xml(i).refs[k].check = None
    \/ /\ oes.loaded /\ "digest" \in oes.exports
       /\ \/ ~({"verify", "message"} \subseteq oes.exports)
          \/ \E i \in DOMAIN sigs : ReadBinary(Xml(i).value).data = ""
    \/ /\ oes.loaded
       /\ \E i \in DOMAIN sigs :
            /\ \E k \in 1 .. Len(Xml(i).stamps) : \E p \in Pages : Stated(i, k, p)
            /\ StatedImage(Xml(i)) # None /\ StatedImage(Xml(i)).kind = "fatal"

=============================================================================
