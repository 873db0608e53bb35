------------------------ MODULE OfdSignaturesProofs ------------------------
(***************************************************************************)
(* Proofs about OfdSignatures, for all documents and plug-ins: what the    *)
(* answers of xilou_verify mean, and what ends the process.                *)
(***************************************************************************)
EXTENDS OfdSignatures, FiniteSetTheorems, SequenceTheorems, TLAPS

SigFields == {"loc", "collected", "stamps", "msg"}
CallFields == {"op", "sig", "at", "page", "list"}

(* SuccessIsEarned and FirstChangeNamed of one signature.                  *)
Earned(i) ==
  /\ HasXml(i)
  /\ \A k \in 1 .. Len(Xml(i).refs) : Unchanged(Xml(i), Xml(i).refs[k])
  /\ ReadBinary(Xml(i).value).signs = StatedDigest(Xml(i), ReadBinary(sigs[i].loc).data)
Named(i, msg) ==
  \E k \in 1 .. Len(Xml(i).refs) :
    /\ msg = Xml(i).refs[k].file
    /\ \/ ~Unchanged(Xml(i), Xml(i).refs[k])
       \/ StatedDigest(Xml(i), "")[1] \notin oes.methods
    /\ \A j \in 1 .. k - 1 : Unchanged(Xml(i), Xml(i).refs[j])

Reason ==
  \/ \E i \in DOMAIN sigs :
       \/ ~HasXml(i)
       \/ \E k \in 1 .. Len(Xml(i).refs) : Xml(i).refs[k].check = None
  \/ /\ oes.loaded /\ "digest" \in oes.exports
     /\ \/ ~({"verify", "message"} \subseteq oes.exports)
        \/ \E i \in DOMAIN sigs : ReadBinary(Xml(i).value).data = ""
  \/ /\ oes.loaded
     /\ \E i \in DOMAIN sigs :
          /\ \E k \in 1 .. Len(Xml(i).stamps) : \E p \in Pages : Stated(i, k, p)
          /\ StatedImage(Xml(i)) # None /\ StatedImage(Xml(i)).kind = "fatal"

-----------------------------------------------------------------------------
ShapeInv ==
  /\ doc \in Documents \cup {None} /\ (doc = None => DOMAIN sigs = {})
  /\ DOMAIN verdict = DOMAIN sigs
  /\ \A i \in DOMAIN sigs : DOMAIN sigs[i] = SigFields
  /\ DOMAIN call = CallFields

(* The loop of VerifyReferences: what it has passed is unchanged.          *)
WalkInv ==
  call.op = "verify" =>
    /\ call.sig \in DOMAIN sigs /\ HasXml(call.sig) /\ call.at \in Nat
    /\ \A k \in 1 .. call.at :
         Unchanged(Xml(call.sig), Xml(call.sig).refs[k])

VerdictInv ==
  \A i \in DOMAIN sigs : /\ verdict[i] = SUC => Earned(i)
                         /\ verdict[i] = ENTRY_HASH => Named(i, sigs[i].msg)

SignatureInv ==
  ShapeInv /\ WalkInv /\ VerdictInv /\ (call.op = "dead" => Reason)

-----------------------------------------------------------------------------
LEMMA NoneIsNothing ==
  /\ None \notin Documents
  /\ None # SUC /\ None # ENTRY_HASH /\ None # INVALID_XML /\ None # LOADER
  BY SignatureAssumption DEF Codes

LEMMA NoCallFacts ==
  /\ DOMAIN NoCall = CallFields /\ NoCall.op = "none"
  /\ \A x : /\ DOMAIN [NoCall EXCEPT !.op = x] = CallFields
            /\ [NoCall EXCEPT !.op = x].op = x
  BY DEF NoCall, CallFields

(* As long as document, plug-in and location are the same, so is all that  *)
(* is read from them.                                                      *)
LEMMA SameReads ==
  ASSUME doc' = doc, oes' = oes, NEW i, sigs'[i].loc = sigs[i].loc
  PROVE  /\ HasXml(i)' = HasXml(i) /\ Xml(i)' = Xml(i)
         /\ Earned(i)' = Earned(i)
         /\ \A m : sigs'[i].msg = m => Named(i, sigs[i].msg)' = Named(i, m)
         /\ \A x, r : Unchanged(x, r)' = Unchanged(x, r)
         /\ \A loc : ReadBinary(loc)' = ReadBinary(loc)
<1>1. \A loc : ReadBinary(loc)' = ReadBinary(loc)
  BY DEF ReadBinary
<1>2. HasXml(i)' = HasXml(i) /\ Xml(i)' = Xml(i)
  BY DEF HasXml, Xml
<1>3. \A x, r : Unchanged(x, r)' = Unchanged(x, r)
  BY <1>1 DEF Unchanged
<1>4. Earned(i)' = Earned(i)
  BY <1>1, <1>2, <1>3 DEF Earned
<1>5. \A m : sigs'[i].msg = m => Named(i, sigs[i].msg)' = Named(i, m)
  BY <1>2, <1>3 DEF Named
<1> QED BY <1>1, <1>2, <1>3, <1>4, <1>5

(* A call that returns a code that is justified.                           *)
LEMMA ReturnStep ==
  ASSUME SignatureInv, NEW i \in DOMAIN sigs, NEW code, NEW msg, Return(i, code, msg),
         code = SUC => Earned(i), code = ENTRY_HASH => Named(i, msg)
  PROVE  SignatureInv'
<1>1. /\ call' = NoCall /\ doc' = doc /\ oes' = oes
      /\ verdict' = [verdict EXCEPT ![i] = code]
      /\ sigs' = [sigs EXCEPT ![i] = [sigs[i] EXCEPT !.msg = msg]]
  BY DEF Return
<1>2. /\ DOMAIN sigs' = DOMAIN sigs /\ DOMAIN verdict' = DOMAIN verdict
      /\ \A k \in DOMAIN sigs : /\ DOMAIN sigs'[k] = SigFields
                                /\ sigs'[k].loc = sigs[k].loc
                                /\ sigs'[k].msg = IF k = i THEN msg ELSE sigs[k].msg
  BY <1>1 DEF SignatureInv, ShapeInv, SigFields
<1>3. ShapeInv'
  BY <1>1, <1>2, NoCallFacts DEF SignatureInv, ShapeInv
<1>4. WalkInv' /\ ~(call'.op = "dead")
  BY <1>1, NoCallFacts DEF WalkInv
<1>5. VerdictInv'
  <2> SUFFICES ASSUME NEW k \in DOMAIN sigs
               PROVE  /\ verdict'[k] = SUC => Earned(k)'
                      /\ verdict'[k] = ENTRY_HASH => Named(k, sigs[k].msg)'
    BY <1>2 DEF VerdictInv
  <2>1. /\ Earned(k)' = Earned(k)
        /\ Named(k, sigs[k].msg)' = Named(k, IF k = i THEN msg ELSE sigs[k].msg)
    BY <1>1, <1>2, SameReads
  <2>2. CASE k = i
    BY <1>1, <1>2, <2>1, <2>2 DEF SignatureInv, ShapeInv
  <2>3. CASE k # i
    BY <1>1, <1>2, <2>1, <2>3 DEF SignatureInv, ShapeInv, VerdictInv
  <2> QED BY <2>2, <2>3
<1> QED BY <1>3, <1>4, <1>5 DEF SignatureInv

(* A step after which document and plug-in, locations, messages and        *)
(* verdicts are what they were.                                            *)
LEMMA FrameStep ==
  ASSUME SignatureInv, doc' = doc, oes' = oes, verdict' = verdict,
         DOMAIN sigs' = DOMAIN sigs,
         \A i \in DOMAIN sigs : /\ DOMAIN sigs'[i] = SigFields
                               /\ sigs'[i].loc = sigs[i].loc
                               /\ sigs'[i].msg = sigs[i].msg,
         DOMAIN call' = CallFields, WalkInv', call'.op = "dead" => Reason'
  PROVE  SignatureInv'
<1>1. ShapeInv'
  BY DEF SignatureInv, ShapeInv
<1>2. VerdictInv'
  <2> SUFFICES ASSUME NEW k \in DOMAIN sigs
               PROVE  /\ verdict[k] = SUC => Earned(k)'
                      /\ verdict[k] = ENTRY_HASH => Named(k, sigs[k].msg)'
    BY DEF VerdictInv
  <2>1. Earned(k)' = Earned(k) /\ Named(k, sigs[k].msg)' = Named(k, sigs[k].msg)
    BY SameReads
  <2> QED BY <2>1 DEF SignatureInv, VerdictInv
<1> QED BY <1>1, <1>2 DEF SignatureInv

(* The process ends for a reason.                                          *)
LEMMA DieStep ==
  ASSUME SignatureInv, Die, Reason
  PROVE  SignatureInv'
<1>1. /\ call' = [NoCall EXCEPT !.op = "dead"]
      /\ UNCHANGED <<doc, sigs, oes, verdict>>
  BY DEF Die
<1>2. DOMAIN call' = CallFields /\ call'.op = "dead"
  BY <1>1, NoCallFacts
<1>3. WalkInv'
  BY <1>2 DEF WalkInv
<1>4. Reason'
  BY <1>1 DEF Reason, HasXml, Xml, ReadBinary, Stated, StatedImage
<1> QED BY <1>1, <1>2, <1>3, <1>4, FrameStep DEF SignatureInv, ShapeInv

-----------------------------------------------------------------------------
(* The meaning of the codes of VerifyReference.                            *)
LEMMA ReferenceCodes ==
  ASSUME NEW x, NEW r
  PROVE  /\ ReferenceCode(x, r) = SUC => Unchanged(x, r)
         /\ ReferenceCode(x, r) = ENTRY_HASH =>
              ~Unchanged(x, r) \/ StatedDigest(x, "")[1] \notin oes.methods
<1> DEFINE data == ReadBinary(r.file).data
           m == CheckMethod(x)
<1>1. StatedDigest(x, "")[1] = m /\ StatedDigest(x, data) = <<m, data>>
  BY DEF StatedDigest, CheckMethod
<1>2. ReferenceCode(x, r) = SUC =>
        data # "" /\ r.check # <<>> /\ Digest(m, data) = r.check
  BY DEF ReferenceCode, SUC, INVALID_XML, LOADER, ENTRY_HASH
<1>3. ReferenceCode(x, r) = ENTRY_HASH => Digest(m, data) # r.check
  BY DEF ReferenceCode, SUC, INVALID_XML, LOADER, ENTRY_HASH
<1> HIDE DEF m, data
<1>4. Digest(m, data) = r.check /\ r.check # <<>> => r.check = <<m, data>>
  BY DEF Digest
<1>5. Digest(m, data) # r.check /\ m \in oes.methods => r.check # <<m, data>>
  BY DEF Digest
<1>6. Unchanged(x, r) <=> data # "" /\ r.check = <<m, data>>
  BY <1>1 DEF Unchanged, data
<1> QED BY <1>1, <1>2, <1>3, <1>4, <1>5, <1>6

LEMMA SignatureInit == Init => SignatureInv
<1> SUFFICES ASSUME Init PROVE SignatureInv
  OBVIOUS
<1>1. DOMAIN sigs = {} /\ DOMAIN verdict = {}
  BY DEF Init
<1> QED BY <1>1, NoCallFacts DEF Init, SignatureInv, ShapeInv, WalkInv, VerdictInv

(* The document comes and goes.                                            *)
LEMMA SessionStep ==
  ASSUME SignatureInv, Close \/ Restart \/ \E d \in Documents : Open(d)
  PROVE  SignatureInv'
<1>1. CASE Close \/ Restart
  <2>1. /\ doc' = None /\ sigs' = <<>> /\ verdict' = <<>> /\ call' = NoCall
    BY <1>1 DEF Close, Restart
  <2>2. DOMAIN sigs' = {} /\ DOMAIN verdict' = {}
    BY <2>1
  <2> QED BY <2>1, <2>2, NoCallFacts DEF SignatureInv, ShapeInv, WalkInv, VerdictInv
<1>2. ASSUME NEW d \in Documents, Open(d) PROVE SignatureInv'
  <2> DEFINE bases == Selected(d.bases, {k \in 1 .. Len(d.bases) : d.bases[k] # ""})
             N == 1 .. Len(bases)
  <2>1. /\ doc' = d /\ call' = NoCall
        /\ sigs' = [i \in N |-> NewSignature(bases[i])]
        /\ verdict' = [i \in N |-> None]
    BY <1>2 DEF Open
  <2> HIDE DEF bases, N
  <2>2. /\ DOMAIN sigs' = N /\ DOMAIN verdict' = N
        /\ \A i \in N : DOMAIN sigs'[i] = SigFields /\ verdict'[i] = None
    BY <2>1 DEF NewSignature, SigFields
  <2>3. None # SUC /\ None # ENTRY_HASH /\ d # None
    BY NoneIsNothing
  <2>4. VerdictInv'
    BY <2>2, <2>3 DEF VerdictInv
  <2>5. ShapeInv'
    BY <2>1, <2>2, <2>3, NoCallFacts DEF ShapeInv
  <2> QED BY <2>1, <2>4, <2>5, NoCallFacts DEF SignatureInv, WalkInv
<1> QED BY <1>1, <1>2

-----------------------------------------------------------------------------
(* xilou_verify.                                                           *)
LEMMA VerifyStep ==
  ASSUME SignatureInv, NEW i \in DOMAIN sigs, Verify(i)
  PROVE  SignatureInv'
<1>1. CASE ~HasXml(i)
  <2>1. Die /\ Reason
    BY <1>1 DEF Verify, Reason
  <2> QED BY <2>1, DieStep
<1>2. CASE HasXml(i) /\ Xml(i).node /\ Xml(i).info /\ Xml(i).hasRefs
  <2>1. /\ call' = [NoCall EXCEPT !.op = "verify", !.sig = i]
        /\ UNCHANGED <<doc, sigs, oes, verdict>>
    BY <1>2 DEF Verify
  <2>2. DOMAIN call' = CallFields /\ call'.op = "verify" /\ call'.sig = i /\ call'.at = 0
    BY <2>1 DEF NoCall, CallFields
  <2>3. HasXml(i)'
    BY <1>2, <2>1 DEF HasXml
  <2>4. WalkInv'
    BY <2>1, <2>2, <2>3 DEF WalkInv
  <2> QED BY <2>1, <2>2, <2>4, FrameStep DEF SignatureInv, ShapeInv
<1>3. CASE HasXml(i) /\ ~(Xml(i).node /\ Xml(i).info /\ Xml(i).hasRefs)
  <2>1. Return(i, INVALID_XML, sigs[i].msg)
    BY <1>3 DEF Verify
  <2> QED BY <2>1, ReturnStep DEF INVALID_XML, SUC, ENTRY_HASH
<1> QED BY <1>1, <1>2, <1>3

(* What is known while References are walked.                              *)
LEMMA Walking ==
  ASSUME SignatureInv, call.op = "verify"
  PROVE  /\ call.sig \in DOMAIN sigs /\ HasXml(call.sig) /\ call.at \in Nat
         /\ Len(Xml(call.sig).refs) \in Nat
         /\ \A k \in 1 .. call.at : Unchanged(Xml(call.sig), Xml(call.sig).refs[k])
<1>1. /\ call.sig \in DOMAIN sigs /\ HasXml(call.sig) /\ call.at \in Nat
      /\ \A k \in 1 .. call.at : Unchanged(Xml(call.sig), Xml(call.sig).refs[k])
  BY DEF SignatureInv, WalkInv
<1>2. doc \in Documents
  BY <1>1 DEF SignatureInv, ShapeInv
<1>3. Len(Xml(call.sig).refs) \in Nat
  BY <1>1, <1>2, SignatureAssumption DEF IsDocument, HasXml, Xml
<1> QED BY <1>1, <1>3

LEMMA ReferenceStep ==
  ASSUME SignatureInv, VerifyReference
  PROVE  SignatureInv'
<1> DEFINE i == call.sig
           n == call.at + 1
           x == Xml(i)
           r == x.refs[n]
           code == ReferenceCode(x, r)
<1>1. call.op = "verify" /\ call.at < Len(x.refs)
  BY DEF VerifyReference
<1>2. /\ i \in DOMAIN sigs /\ HasXml(i) /\ call.at \in Nat /\ n \in 1 .. Len(x.refs)
      /\ \A k \in 1 .. call.at : Unchanged(x, x.refs[k])
  BY <1>1, Walking
<1>3. CASE r.check = None
  <2>1. Die
    BY <1>3 DEF VerifyReference
  <2>2. Reason
    BY <1>2, <1>3 DEF Reason
  <2> QED BY <2>1, <2>2, DieStep
<1>4. CASE r.check # None /\ code = SUC
  <2>1. /\ call' = [call EXCEPT !.at = n] /\ UNCHANGED <<doc, sigs, oes, verdict>>
    BY <1>4 DEF VerifyReference
  <2>2. /\ DOMAIN call' = CallFields /\ call'.op = "verify" /\ call'.sig = i
        /\ call'.at = n
    BY <1>1, <2>1 DEF SignatureInv, ShapeInv, CallFields
  <2>3. Unchanged(x, r)
    BY <1>4, ReferenceCodes
  <2>4. \A k \in 1 .. n : Unchanged(x, x.refs[k])
    BY <1>2, <2>3
  <2>5. WalkInv'
    <3>1. /\ HasXml(call.sig)'
          /\ \A k \in 1 .. n : Unchanged(Xml(call.sig), Xml(call.sig).refs[k])'
      BY <1>2, <2>1, <2>2, <2>4 DEF HasXml, Xml, Unchanged, ReadBinary
    <3> QED BY <1>2, <2>1, <2>2, <3>1 DEF WalkInv
  <2> QED BY <2>1, <2>2, <2>5, FrameStep DEF SignatureInv, ShapeInv
<1>5. CASE r.check # None /\ code # SUC
  <2>1. Return(i, code, IF code = ENTRY_HASH THEN r.file ELSE sigs[i].msg)
    BY <1>5 DEF VerifyReference
  <2>2. code = ENTRY_HASH => Named(i, r.file)
    <3>1. code = ENTRY_HASH =>
            ~Unchanged(x, r) \/ StatedDigest(x, "")[1] \notin oes.methods
      BY ReferenceCodes
    <3>2. \A j \in 1 .. n - 1 : Unchanged(x, x.refs[j])
      BY <1>2
    <3> QED BY <1>2, <3>1, <3>2 DEF Named
  <2> HIDE DEF code, r, n, x
  <2> QED BY <1>2, <1>5, <2>1, <2>2, ReturnStep
<1> QED BY <1>3, <1>4, <1>5

LEMMA ValueStep ==
  ASSUME SignatureInv, VerifySignedValue
  PROVE  SignatureInv'
<1> DEFINE i == call.sig
           x == Xml(i)
           digest == Digest(CheckMethod(x), SignedData(i))
           value == ReadBinary(x.value)
<1>1. call.op = "verify" /\ call.at = Len(x.refs)
  BY DEF VerifySignedValue, AllReferences
<1>2. /\ i \in DOMAIN sigs /\ HasXml(i)
      /\ \A k \in 1 .. Len(x.refs) : Unchanged(x, x.refs[k])
  BY <1>1, Walking
<1>3. CASE ValueFault(x) # None
  <2>1. Return(i, ValueFault(x), sigs[i].msg)
    BY <1>3 DEF VerifySignedValue
  <2>2. ValueFault(x) # SUC /\ ValueFault(x) # ENTRY_HASH
    BY <1>3 DEF ValueFault, SUC, ENTRY_HASH, INVALID_XML, LOADER
  <2> QED BY <1>2, <2>1, <2>2, ReturnStep
<1>4. CASE ValueFault(x) = None
  <2>1. PICK a \in Answers(digest, value) :
          IF a = SUC THEN Return(i, SUC, sigs[i].msg)
          ELSE Return(i, SIGNED_VERIFY, IF a = None THEN sigs[i].msg ELSE a)
    BY <1>4 DEF VerifySignedValue
  <2>2. CASE a = SUC
    <3>1. digest # <<>> /\ value.signs = digest
      BY <2>1, <2>2, SignatureAssumption, NoneIsNothing DEF Answers
    <3>2. digest # <<>> => digest = StatedDigest(x, ReadBinary(sigs[i].loc).data)
      BY DEF Digest, CheckMethod, StatedDigest, SignedData
    <3>3. Earned(i)
      BY <1>2, <3>1, <3>2 DEF Earned
    <3> QED BY <1>2, <2>1, <2>2, <3>3, ReturnStep DEF SUC, ENTRY_HASH
  <2>3. CASE a # SUC
    <3> DEFINE msg == IF a = None THEN sigs[i].msg ELSE a
    <3>1. Return(i, SIGNED_VERIFY, msg)
      BY <2>1, <2>3
    <3> HIDE DEF msg
    <3> QED BY <1>2, <3>1, ReturnStep DEF SUC, ENTRY_HASH, SIGNED_VERIFY
  <2> QED BY <2>2, <2>3
<1> QED BY <1>3, <1>4

LEMMA ValueDiesStep ==
  ASSUME SignatureInv, VerifySignedValueDies
  PROVE  SignatureInv'
<1>1. call.sig \in DOMAIN sigs
  BY Walking DEF VerifySignedValueDies, AllReferences
<1>2. oes.loaded /\ "digest" \in oes.exports
  BY NoneIsNothing DEF VerifySignedValueDies, ValueFault
<1>3. Reason
  BY <1>1, <1>2 DEF VerifySignedValueDies, Reason
<1> QED BY <1>3, DieStep DEF VerifySignedValueDies

-----------------------------------------------------------------------------
(* The image that a stamp is drawn from is the one that the package states. *)
LEMMA ImageIsStated ==
  ASSUME NEW x, ImageOf(x) # None
  PROVE  ImageOf(x) = StatedImage(x) /\ oes.loaded
<1> DEFINE v == ReadByAnsiName(x.value)
<1>1. /\ oes.loaded /\ ~v.small
      /\ ImageOf(x) = IF v.image # None THEN v.image ELSE SealImage(x)
  BY DEF ImageOf
<1>2. Empty.small
  BY DEF Empty
<1>3. v = ReadBinary(x.value)
  BY <1>1, <1>2 DEF ReadByAnsiName
<1>4. v.image = None => SealImage(x) = ReadBinary(x.seal).image
  BY <1>1, <1>2 DEF SealImage, ReadByAnsiName
<1> QED BY <1>1, <1>3, <1>4 DEF StatedImage

LEMMA FatalReason ==
  ASSUME SignatureInv, NEW i \in DOMAIN sigs, HasXml(i), CollectDies(sigs[i], Xml(i))
  PROVE  Reason
<1>1. doc \in Documents
  BY DEF SignatureInv, ShapeInv
<1>2. \A k \in 1 .. Len(Xml(i).stamps) : Xml(i).stamps[k].page \in Pages \cup {None}
  BY <1>1, SignatureAssumption DEF IsDocument, HasXml, Xml
<1>3. \E k \in 1 .. Len(Xml(i).stamps) : \E p \in Pages : Stated(i, k, p)
  BY <1>2 DEF CollectDies, WholeStamps, Stated
<1>4. oes.loaded /\ StatedImage(Xml(i)) # None /\ StatedImage(Xml(i)).kind = "fatal"
  BY ImageIsStated DEF CollectDies, FatalAppearance
<1> QED BY <1>3, <1>4 DEF Reason

(* Drawing a page changes stamps only.                                     *)
LEMMA DrawStep ==
  ASSUME SignatureInv, GetPageSignature \/ StampsDrawn \/ \E p \in Pages : DrawPage(p)
  PROVE  SignatureInv'
<1>1. CASE StampsDrawn \/ \E p \in Pages : DrawPage(p)
  <2>1. /\ UNCHANGED <<doc, sigs, oes, verdict>>
        /\ \/ call' = NoCall
           \/ \E p \in Pages : call' = [NoCall EXCEPT !.op = "draw", !.page = p]
    BY <1>1 DEF StampsDrawn, DrawPage
  <2>2. DOMAIN call' = CallFields /\ call'.op \in {"none", "draw"}
    <3>1. \A p : LET c == [NoCall EXCEPT !.op = "draw", !.page = p]
                 IN  DOMAIN c = CallFields /\ c.op = "draw"
      BY DEF NoCall, CallFields
    <3> QED BY <2>1, <3>1, NoCallFacts
  <2>3. WalkInv'
    BY <2>2 DEF WalkInv
  <2> QED BY <2>1, <2>2, <2>3, FrameStep DEF SignatureInv, ShapeInv
<1>2. CASE GetPageSignature
  <2> DEFINE i == call.sig + 1
             s == MarkParsed(Collect(i, sigs[i], Xml(i)), call.page)
  <2>1. CASE ~HasXml(i) /\ ~Collected(sigs[i])
    <3>1. Die
      BY <1>2, <2>1 DEF GetPageSignature
    <3>2. i \in DOMAIN sigs
      BY <1>2 DEF GetPageSignature
    <3> QED BY <2>1, <3>1, <3>2, DieStep DEF Reason
  <2>2. CASE /\ ~(~HasXml(i) /\ ~Collected(sigs[i]))
             /\ CollectDies(sigs[i], Xml(i))
    <3>1. Die /\ i \in DOMAIN sigs /\ call.op = "draw"
      BY <1>2, <2>2 DEF GetPageSignature
    <3>2. HasXml(i)
      BY <2>2 DEF CollectDies
    <3> QED BY <2>2, <3>1, <3>2, FatalReason, DieStep
  <2>3. CASE /\ ~(~HasXml(i) /\ ~Collected(sigs[i]))
             /\ ~CollectDies(sigs[i], Xml(i))
    <3>1. /\ sigs' = [sigs EXCEPT ![i] = s] /\ UNCHANGED <<doc, oes, verdict>>
          /\ call.op = "draw"
      BY <1>2, <2>3 DEF GetPageSignature
    <3>2. DOMAIN call' = CallFields /\ call'.op = "draw"
      BY <1>2, <2>3 DEF GetPageSignature, SignatureInv, ShapeInv, CallFields
    <3>3. i \in DOMAIN sigs => DOMAIN s = SigFields /\ s.loc = sigs[i].loc /\ s.msg = sigs[i].msg
      BY DEF MarkParsed, Collect, SigFields, SignatureInv, ShapeInv
    <3> HIDE DEF s
    <3>4. WalkInv'
      BY <3>2 DEF WalkInv
    <3>5. DOMAIN sigs' = DOMAIN sigs /\ \A k \in DOMAIN sigs :
             DOMAIN sigs'[k] = SigFields /\ sigs'[k].loc = sigs[k].loc /\ sigs'[k].msg = sigs[k].msg
      BY <3>1, <3>3 DEF SignatureInv, ShapeInv
    <3> QED BY <3>1, <3>2, <3>4, <3>5, FrameStep
  <2> QED BY <2>1, <2>2, <2>3
<1> QED BY <1>1, <1>2

LEMMA SignatureStep == SignatureInv /\ [Next]_vars => SignatureInv'
<1> SUFFICES ASSUME SignatureInv, [Next]_vars PROVE SignatureInv'
  OBVIOUS
<1>1. CASE UNCHANGED vars
  <2>1. WalkInv' /\ (call'.op = "dead" => Reason')
    BY <1>1 DEF vars, SignatureInv, WalkInv, Reason, HasXml, Xml, Unchanged, ReadBinary,
               Stated, StatedImage
  <2> QED BY <1>1, <2>1, FrameStep DEF vars, SignatureInv, ShapeInv
<1>2. CASE Next
  BY <1>2, SessionStep, VerifyStep, ReferenceStep, ValueStep, ValueDiesStep, DrawStep
     DEF Next
<1> QED BY <1>1, <1>2

LEMMA SignatureInvariant == Spec => []SignatureInv
  BY SignatureInit, SignatureStep, PTL DEF Spec

-----------------------------------------------------------------------------
(* xilou_verify accepts a signature only if all files it refers to are     *)
(* unchanged and the SignedValue is over its own Signature.xml, for every  *)
(* document, plug-in and order of calls (VerifyReferences and              *)
(* VerifySignedValue).                                                     *)
THEOREM AcceptanceIsEarned == Spec => []SuccessIsEarned
<1>1. SignatureInv => SuccessIsEarned
  BY DEF SignatureInv, VerdictInv, Earned, SuccessIsEarned
<1> QED BY <1>1, SignatureInvariant, PTL

(* A refusal for a changed file names the first one (VerifyReference).     *)
THEOREM RefusalNamesFirst == Spec => []FirstChangeNamed
<1>1. SignatureInv => FirstChangeNamed
  BY DEF SignatureInv, VerdictInv, Named, FirstChangeNamed
<1> QED BY <1>1, SignatureInvariant, PTL

(* The process ends only for the faults of package, plug-in or seal that   *)
(* the code does not test (VerifyReference, VerifySignedValue,             *)
(* GetPageSignatureCount and GetSealImageFromOFD).                         *)
THEOREM DiesForAReason == Spec => []DeathHasAReason
<1>1. SignatureInv => DeathHasAReason
  BY DEF SignatureInv, Reason, DeathHasAReason
<1> QED BY <1>1, SignatureInvariant, PTL

-----------------------------------------------------------------------------
(***************************************************************************)
(* The stamps of a page.                                                   *)
(***************************************************************************)
(* Ranks tell the places of a set apart and number them from 1.            *)
LEMMA RankFacts ==
  ASSUME NEW m \in Nat, NEW K \in SUBSET (1 .. m)
  PROVE  /\ IsFiniteSet(K) /\ Cardinality(K) \in Nat
         /\ \A i \in K : Rank(K, i) \in 1 .. Cardinality(K)
         /\ \A i, k \in K : Rank(K, i) = Rank(K, k) => i = k
         /\ \A n \in 1 .. Cardinality(K) : \E i \in K : Rank(K, i) = n
<1> DEFINE c == Cardinality(K)
           T == 1 .. c
           f == [i \in K |-> Rank(K, i)]
<1>1. IsFiniteSet(1 .. m)
  BY FS_Interval
<1>2. IsFiniteSet(K) /\ c \in Nat
  BY <1>1, FS_Subset, FS_CardinalityType
<1>3. IsFiniteSet(T) /\ Cardinality(T) = c
  BY <1>2, FS_Interval
<1>4. \A i \in K : /\ IsFiniteSet({j \in K : j <= i}) /\ Rank(K, i) \in Nat
                   /\ Rank(K, i) <= c
  BY <1>2, FS_Subset, FS_CardinalityType DEF Rank
<1>5. \A i \in K : Rank(K, i) # 0
  <2> SUFFICES ASSUME NEW i \in K, Rank(K, i) = 0 PROVE FALSE
    OBVIOUS
  <2>1. {j \in K : j <= i} = {}
    BY <1>4, FS_EmptySet DEF Rank
  <2>2. i \in {j \in K : j <= i}
    OBVIOUS
  <2>3. QED
    BY <2>1, <2>2
<1>6. f \in [K -> T]
  <2>1. \A i \in K : Rank(K, i) \in 1 .. c
    <3> SUFFICES ASSUME NEW i \in K PROVE Rank(K, i) \in 1 .. c
      OBVIOUS
    <3> HIDE DEF c
    <3>1. Rank(K, i) \in Nat /\ Rank(K, i) <= c /\ Rank(K, i) # 0
      BY <1>4, <1>5
    <3>2. QED
      BY <3>1, <1>2
  <2>2. QED
    BY <2>1
<1>7. ASSUME NEW i \in K, NEW k \in K, i < k PROVE Rank(K, i) # Rank(K, k)
  <2>1. {j \in K : j <= i} \in SUBSET {j \in K : j <= k}
    <3>1. i \in Int /\ k \in Int /\ K \subseteq Int
      OBVIOUS
    <3>2. \A j \in K : j <= i => j <= k
      BY <1>7, <3>1
    <3>3. QED
      BY <3>2
  <2>2. k \in {j \in K : j <= k} /\ k \notin {j \in K : j <= i}
    BY <1>7
  <2>3. QED
    BY <2>1, <2>2, <1>4, FS_Subset DEF Rank
<1>8. ASSUME NEW i \in K, NEW k \in K, f[i] = f[k] PROVE i = k
  BY <1>7, <1>8
<1>9. f \in Injection(K, T)
  BY <1>6, <1>8 DEF Injection, IsInjective
<1>10. f \in Surjection(K, T)
  BY <1>9, <1>3, <1>2, FS_Injection
<1>11. \A n \in T : \E i \in K : f[i] = n
  BY <1>10 DEF Surjection
<1>12. \A i \in K : Rank(K, i) \in T
  BY <1>6
<1> HIDE DEF c
<1> QED BY <1>2, <1>8, <1>11, <1>12 DEF c

LEMMA RankGrows ==
  ASSUME NEW m \in Nat, NEW K \in SUBSET (1 .. m), NEW i \in K, NEW k \in K, i <= k
  PROVE  Rank(K, i) \in Nat /\ Rank(K, k) \in Nat /\ Rank(K, i) <= Rank(K, k)
<1>1. IsFiniteSet(K)
  BY RankFacts
<1>2. IsFiniteSet({j \in K : j <= k}) /\ IsFiniteSet({j \in K : j <= i})
  BY <1>1, FS_Subset
<1>3. \A j \in K : j <= i => j <= k
  OBVIOUS
<1>4. {j \in K : j <= i} \in SUBSET {j \in K : j <= k}
  BY <1>3
<1> QED BY <1>2, <1>4, FS_Subset, FS_CardinalityType DEF Rank

(* The n-th elements are all elements, in their order.                     *)
LEMMA NthFacts ==
  ASSUME NEW m \in Nat, NEW K \in SUBSET (1 .. m)
  PROVE  /\ Cardinality(K) \in Nat
         /\ \A n \in 1 .. Cardinality(K) : Nth(K, n) \in K
         /\ \A i \in K : \E n \in 1 .. Cardinality(K) : Nth(K, n) = i
         /\ \A a, b \in 1 .. Cardinality(K) : a < b => Nth(K, a) < Nth(K, b)
<1> DEFINE c == Cardinality(K)
<1>1. c \in Nat /\ \A n \in 1 .. c : \E i \in K : Rank(K, i) = n
  BY RankFacts
<1>2. \A n \in 1 .. c : Nth(K, n) \in K /\ Rank(K, Nth(K, n)) = n
  BY <1>1 DEF Nth
<1>3. ASSUME NEW a \in 1 .. c, NEW b \in 1 .. c, a < b PROVE Nth(K, a) < Nth(K, b)
  <2>1. Nth(K, a) \in K /\ Nth(K, b) \in K /\ Rank(K, Nth(K, a)) = a /\ Rank(K, Nth(K, b)) = b
    BY <1>2
  <2> DEFINE x == Nth(K, a)
             y == Nth(K, b)
  <2>2. x \in 1 .. m /\ y \in 1 .. m
    BY <2>1
  <2>3. y <= x => Rank(K, y) <= Rank(K, x)
    BY <2>1, RankGrows
  <2> HIDE DEF x, y
  <2>4. ~(y <= x)
    BY <1>3, <1>1, <2>1, <2>3 DEF x, y
  <2>5. x < y
    BY <2>2, <2>4
  <2> QED BY <2>5 DEF x, y
<1>4. ASSUME NEW i \in K PROVE \E n \in 1 .. c : Nth(K, n) = i
  <2>1. PICK n \in 1 .. c : Rank(K, i) = n
    BY RankFacts
  <2>2. Nth(K, n) \in K /\ Rank(K, Nth(K, n)) = n
    BY <1>2
  <2> QED BY <2>1, <2>2, RankFacts
<1> QED BY <1>1, <1>2, <1>3, <1>4

-----------------------------------------------------------------------------
(* L is a list.                                                            *)
IsList(L) == Len(L) \in Nat /\ L = [n \in 1 .. Len(L) |-> L[n]]

(* L is a list of the stamps that come from Q, each once and in order.     *)
Listing(L, Q) ==
  /\ IsList(L)
  /\ \A n \in 1 .. Len(L) : L[n].from \in Q
  /\ \A q \in Q : \E n \in 1 .. Len(L) : L[n].from = q
  /\ \A a, b \in 1 .. Len(L) : a < b => Before(L[a].from, L[b].from)

LEMMA ListIntro ==
  ASSUME NEW n \in Nat, NEW L, L = [k \in 1 .. n |-> L[k]]
  PROVE  IsList(L) /\ Len(L) = n
<1>1. L \in Seq({L[k] : k \in 1 .. n}) /\ Len(L) = n
  OBVIOUS
<1> QED BY <1>1 DEF IsList

LEMMA SeqIsList == ASSUME NEW S, NEW s \in Seq(S) PROVE IsList(s)
<1>1. s \in [1 .. Len(s) -> S] /\ Len(s) \in Nat
  OBVIOUS
<1> QED BY <1>1 DEF IsList

LEMMA ListConcat ==
  ASSUME NEW L, NEW M, IsList(L), IsList(M)
  PROVE  /\ IsList(L \o M) /\ Len(L \o M) = Len(L) + Len(M)
         /\ \A n \in 1 .. Len(L) : (L \o M)[n] = L[n]
         /\ \A n \in 1 .. Len(M) : (L \o M)[Len(L) + n] = M[n]
<1> DEFINE S == {L[n] : n \in 1 .. Len(L)} \cup {M[n] : n \in 1 .. Len(M)}
<1>1. Len(L) \in Nat /\ Len(M) \in Nat
  BY DEF IsList
<1>2. L \in Seq(S) /\ M \in Seq(S)
  <2>1. \A n \in 1 .. Len(L) : L[n] \in S
    OBVIOUS
  <2>2. \A n \in 1 .. Len(M) : M[n] \in S
    OBVIOUS
  <2> HIDE DEF S
  <2> QED BY <1>1, <2>1, <2>2 DEF IsList
<1> HIDE DEF S
<1>3. L \o M \in Seq(S) /\ Len(L \o M) = Len(L) + Len(M)
  BY <1>2, ConcatProperties
<1>4. \A n \in 1 .. Len(L) + Len(M) :
         (L \o M)[n] = IF n <= Len(L) THEN L[n] ELSE M[n - Len(L)]
  BY <1>2, ConcatProperties
<1>5. IsList(L \o M)
  BY <1>3, SeqIsList
<1>6. \A n \in 1 .. Len(L) : (L \o M)[n] = L[n]
  BY <1>1, <1>4
<1>7. \A n \in 1 .. Len(M) : (L \o M)[Len(L) + n] = M[n]
  BY <1>1, <1>4
<1> QED BY <1>3, <1>5, <1>6, <1>7

(* What is listed first and what is listed then.                           *)
LEMMA ListingConcat ==
  ASSUME NEW L, NEW M, NEW Q, NEW R, Listing(L, Q), Listing(M, R),
         \A q \in Q, r \in R : Before(q, r)
  PROVE  Listing(L \o M, Q \cup R)
<1> DEFINE C == L \o M
           l == Len(L)
           m == Len(M)
<1>1. /\ IsList(C) /\ Len(C) = l + m /\ l \in Nat /\ m \in Nat
      /\ \A n \in 1 .. l : C[n] = L[n]
      /\ \A n \in 1 .. m : C[l + n] = M[n]
  BY ListConcat DEF Listing, IsList
<1>2. /\ \A n \in 1 .. l : L[n].from \in Q
      /\ \A q \in Q : \E n \in 1 .. l : L[n].from = q
      /\ \A a, b \in 1 .. l : a < b => Before(L[a].from, L[b].from)
      /\ \A n \in 1 .. m : M[n].from \in R
      /\ \A r \in R : \E n \in 1 .. m : M[n].from = r
      /\ \A a, b \in 1 .. m : a < b => Before(M[a].from, M[b].from)
  BY DEF Listing
<1> HIDE DEF C, l, m
<1>3. ASSUME NEW n \in 1 .. Len(C)
      PROVE  n \in 1 .. l \/ \E k \in 1 .. m : n = l + k
  <2>1. n \in 1 .. l \/ (n - l \in 1 .. m /\ n = l + (n - l))
    BY <1>1
  <2> QED BY <2>1
<1>4. ASSUME NEW n \in 1 .. Len(C) PROVE C[n].from \in Q \cup R
  <2>1. CASE n \in 1 .. l
    BY <1>1, <1>2, <2>1
  <2>2. CASE \E k \in 1 .. m : n = l + k
    BY <1>1, <1>2, <2>2
  <2> QED BY <1>3, <2>1, <2>2
<1>5. ASSUME NEW q \in Q \cup R PROVE \E n \in 1 .. Len(C) : C[n].from = q
  <2>1. CASE q \in Q
    <3>1. PICK n \in 1 .. l : L[n].from = q
      BY <1>2, <2>1
    <3>2. n \in 1 .. Len(C) /\ C[n].from = q
      BY <1>1, <3>1
    <3> QED BY <3>2
  <2>2. CASE q \in R
    <3>1. PICK n \in 1 .. m : M[n].from = q
      BY <1>2, <2>2
    <3>2. l + n \in 1 .. Len(C) /\ C[l + n].from = q
      BY <1>1, <3>1
    <3> QED BY <3>2
  <2> QED BY <2>1, <2>2
<1>6. ASSUME NEW a \in 1 .. Len(C), NEW b \in 1 .. Len(C), a < b
      PROVE  Before(C[a].from, C[b].from)
  <2>1. CASE a \in 1 .. l /\ b \in 1 .. l
    BY <1>1, <1>2, <1>6, <2>1
  <2>2. CASE a \in 1 .. l /\ \E k \in 1 .. m : b = l + k
    BY <1>1, <1>2, <2>2
  <2>3. CASE ~(a \in 1 .. l)
    <3>1. PICK j \in 1 .. m : a = l + j
      BY <1>3, <2>3
    <3>2. PICK k \in 1 .. m : b = l + k
      BY <1>1, <1>3, <1>6, <2>3
    <3>3. j < k
      BY <1>1, <1>6, <3>1, <3>2
    <3> QED BY <1>1, <1>2, <3>1, <3>2, <3>3
  <2> QED BY <1>3, <2>1, <2>2, <2>3
<1> QED BY <1>1, <1>4, <1>5, <1>6 DEF Listing, C

(* A selection of a listing.                                               *)
LEMMA ListingSelected ==
  ASSUME NEW L, NEW Q, Listing(L, Q), NEW K \in SUBSET (1 .. Len(L))
  PROVE  /\ Listing(Selected(L, K), {L[k].from : k \in K})
         /\ \A n \in 1 .. Len(Selected(L, K)) : \E k \in K : Selected(L, K)[n] = L[k]
<1> DEFINE c == Cardinality(K)
           M == Selected(L, K)
<1>1. Len(L) \in Nat
  BY DEF Listing, IsList
<1>2. /\ c \in Nat
      /\ \A n \in 1 .. c : Nth(K, n) \in K
      /\ \A i \in K : \E n \in 1 .. c : Nth(K, n) = i
      /\ \A a, b \in 1 .. c : a < b => Nth(K, a) < Nth(K, b)
  BY <1>1, NthFacts
<1>3. IsList(M) /\ Len(M) = c /\ \A n \in 1 .. c : M[n] = L[Nth(K, n)]
  <2>1. M = [n \in 1 .. c |-> L[Nth(K, n)]]
    BY DEF Selected
  <2> HIDE DEF M, c
  <2>2. M = [n \in 1 .. c |-> M[n]] /\ \A n \in 1 .. c : M[n] = L[Nth(K, n)]
    BY <2>1
  <2> QED BY <1>2, <2>2, ListIntro
<1> HIDE DEF c, M
<1>4. \A n \in 1 .. Len(M) : \E k \in K : M[n] = L[k]
  BY <1>2, <1>3
<1>5. \A n \in 1 .. Len(M) : M[n].from \in {L[k].from : k \in K}
  BY <1>4
<1>6. ASSUME NEW i \in K PROVE \E n \in 1 .. Len(M) : M[n].from = L[i].from
  BY <1>2, <1>3
<1>7. ASSUME NEW a \in 1 .. Len(M), NEW b \in 1 .. Len(M), a < b
      PROVE  Before(M[a].from, M[b].from)
  <2>1. Nth(K, a) \in 1 .. Len(L) /\ Nth(K, b) \in 1 .. Len(L) /\ Nth(K, a) < Nth(K, b)
    BY <1>2, <1>3, <1>7
  <2> QED BY <1>3, <2>1 DEF Listing
<1>8. Listing(M, {L[k].from : k \in K})
  BY <1>3, <1>5, <1>6, <1>7 DEF Listing
<1> QED BY <1>4, <1>8 DEF M

-----------------------------------------------------------------------------
(* The Signature.xml of each signature, and what its stamps look like.     *)
Xmls == [i \in DOMAIN sigs |-> Xml(i)]
Looks == [i \in DOMAIN sigs |-> Appearance(Xml(i))]

StampFields == {"page", "box", "objs", "parsed", "from"}

(* A stamp is as the StampAnnot it comes from says.                        *)
Right(e, X, A) ==
  /\ DOMAIN e = StampFields
  /\ e.page = X[e.from[1]].stamps[e.from[2]].page
  /\ e.box = X[e.from[1]].stamps[e.from[2]].box
  /\ e.objs = A[e.from[1]]

(* A signature has all its stamps, or has not collected them yet.          *)
SigStamps(s, i, X, A) ==
  /\ s.collected => /\ X[i].node /\ X[i].info
                    /\ Listing(s.stamps, {i} \X WholeStamps(X[i]))
  /\ ~s.collected => s.stamps = <<>>
  /\ \A n \in 1 .. Len(s.stamps) : Right(s.stamps[n], X, A)

(* The StampAnnots of one signature, and of the first m, for page p.       *)
StatedIn(x, p) ==
  {k \in 1 .. Len(x.stamps) : /\ x.node /\ x.info
                              /\ x.stamps[k].page = p /\ x.stamps[k].box # None}
StatedTo(X, p, m) == UNION {{i} \X StatedIn(X[i], p) : i \in 1 .. m}

(* L is what a page is drawn with after the first m signatures.            *)
PageList(L, p, m, X, A) ==
  /\ Listing(L, StatedTo(X, p, m))
  /\ \A n \in 1 .. Len(L) : Right(L[n], X, A) /\ L[n].parsed

(* Collecting the stamps makes them complete.                              *)
LEMMA CollectStamps ==
  ASSUME NEW s, DOMAIN s = SigFields, NEW i \in Nat, NEW X, NEW A, NEW x,
         X[i] = x, A[i] = Appearance(x), Len(x.stamps) \in Nat,
         SigStamps(s, i, X, A)
  PROVE  /\ SigStamps(Collect(i, s, x), i, X, A)
         /\ DOMAIN Collect(i, s, x) = SigFields
         /\ ~Collect(i, s, x).collected => ~x.node \/ ~x.info
<1>1. CASE s.collected \/ ~x.node \/ ~x.info
  <2>1. Collect(i, s, x) = s
    BY <1>1 DEF Collect, Collected
  <2> QED BY <1>1, <2>1
<1>2. CASE ~s.collected /\ x.node /\ x.info
  <2> DEFINE new == [k \in 1 .. Len(x.stamps) |-> NewStamp(i, x, k)]
             whole == WholeStamps(x)
             all == {i} \X (1 .. Len(x.stamps))
             T == Selected(new, whole)
             c == Collect(i, s, x)
  <2>1. s.stamps = <<>>
    BY <1>2 DEF SigStamps
  <2>2. c = [s EXCEPT !.collected = TRUE, !.stamps = <<>> \o T]
    BY <1>2, <2>1 DEF Collect, Collected, WholeStamps
  <2>3. \A k \in 1 .. Len(x.stamps) : new[k] = NewStamp(i, x, k) /\ new[k].from = <<i, k>>
    BY DEF NewStamp
  <2>4. IsList(new) /\ Len(new) = Len(x.stamps)
    <3>1. new = [k \in 1 .. Len(x.stamps) |-> new[k]]
      BY <2>3
    <3> HIDE DEF new
    <3> QED BY <3>1, ListIntro
  <2> HIDE DEF new
  <2>5. Listing(new, all)
    <3>1. ASSUME NEW n \in 1 .. Len(new) PROVE new[n].from \in all
      <4>1. new[n].from = <<i, n>> /\ n \in 1 .. Len(x.stamps)
        BY <2>3, <2>4
      <4> QED BY <4>1
    <3>2. ASSUME NEW q \in all PROVE \E n \in 1 .. Len(new) : new[n].from = q
      BY <2>3, <2>4
    <3>3. ASSUME NEW a \in 1 .. Len(new), NEW b \in 1 .. Len(new), a < b
          PROVE  Before(new[a].from, new[b].from)
      BY <2>3, <2>4, <3>3 DEF Before
    <3> QED BY <2>4, <3>1, <3>2, <3>3 DEF Listing
  <2>6. whole \in SUBSET (1 .. Len(new))
    BY <2>4 DEF WholeStamps
  <2> HIDE DEF all
  <2>7. /\ Listing(T, {new[k].from : k \in whole})
        /\ \A n \in 1 .. Len(T) : \E k \in whole : T[n] = new[k]
    <3> HIDE DEF whole
    <3> QED BY <2>5, <2>6, ListingSelected
  <2>8. {new[k].from : k \in whole} = {i} \X whole
    <3>1. \A k \in whole : new[k].from = <<i, k>>
      BY <2>3, <2>4, <2>6
    <3> HIDE DEF whole
    <3> QED BY <3>1
  <2>9. \A n \in 1 .. Len(T) : Right(T[n], X, A)
    <3> SUFFICES ASSUME NEW k \in whole PROVE Right(new[k], X, A)
      BY <2>7
    <3>1. new[k] = NewStamp(i, x, k)
      BY <2>3, <2>4, <2>6
    <3> QED BY <3>1 DEF Right, NewStamp, StampFields
  <2> HIDE DEF T, whole
  <2>10. <<>> \o T = T
    <3>1. T \in Seq({T[n] : n \in 1 .. Len(T)})
      BY <2>7 DEF Listing, IsList
    <3> QED BY <3>1, ConcatEmptySeq
  <2>11. c.collected /\ c.stamps = T /\ DOMAIN c = SigFields
    BY <2>2, <2>10 DEF SigFields
  <2> HIDE DEF c
  <2>12. SigStamps(c, i, X, A)
    BY <1>2, <2>7, <2>8, <2>9, <2>11 DEF SigStamps, whole
  <2> QED BY <2>11, <2>12 DEF c
<1> QED BY <1>1, <1>2

(* Marking the stamps of a page changes nothing else.                      *)
LEMMA MarkStamps ==
  ASSUME NEW s, DOMAIN s = SigFields, NEW i, NEW X, NEW A, NEW p,
         SigStamps(s, i, X, A)
  PROVE  LET c == MarkParsed(s, p)
         IN  /\ SigStamps(c, i, X, A) /\ DOMAIN c = SigFields
             /\ c.collected = s.collected
             /\ \A n \in 1 .. Len(c.stamps) : c.stamps[n].page = p => c.stamps[n].parsed
<1> DEFINE c == MarkParsed(s, p)
           L == s.stamps
           M == [k \in 1 .. Len(L) |-> IF L[k].page = p THEN [L[k] EXCEPT !.parsed = TRUE]
                                       ELSE L[k]]
<1>1. c = [s EXCEPT !.stamps = M]
  BY DEF MarkParsed
<1>2. DOMAIN c = SigFields /\ c.stamps = M /\ c.collected = s.collected
  BY <1>1 DEF SigFields
<1>3. IsList(L)
  <2>1. CASE s.collected
    BY <2>1 DEF SigStamps, Listing
  <2>2. CASE ~s.collected
    BY <2>2, EmptySeq, SeqIsList DEF SigStamps
  <2> QED BY <2>1, <2>2
<1>4. \A k \in 1 .. Len(L) : Right(L[k], X, A)
  BY DEF SigStamps
<1>5. \A k \in 1 .. Len(L) : /\ Right(M[k], X, A) /\ M[k].from = L[k].from
                             /\ M[k].page = p => M[k].parsed
  <2> SUFFICES ASSUME NEW k \in 1 .. Len(L)
               PROVE  /\ Right(M[k], X, A) /\ M[k].from = L[k].from
                      /\ M[k].page = p => M[k].parsed
    OBVIOUS
  <2>1. M[k] = IF L[k].page = p THEN [L[k] EXCEPT !.parsed = TRUE] ELSE L[k]
    OBVIOUS
  <2>2. Right(L[k], X, A)
    BY <1>4
  <2> HIDE DEF L, M
  <2> QED BY <2>1, <2>2 DEF Right, StampFields
<1>6. Len(L) \in Nat /\ M = [k \in 1 .. Len(L) |-> M[k]]
  BY <1>3 DEF IsList
<1> HIDE DEF M
<1>7. IsList(M) /\ Len(M) = Len(L)
  BY <1>6, ListIntro
<1>8. ASSUME s.collected PROVE Listing(M, {i} \X WholeStamps(X[i]))
  <2>1. Listing(L, {i} \X WholeStamps(X[i]))
    BY <1>8 DEF SigStamps
  <2> HIDE DEF L
  <2> QED BY <1>5, <1>7, <2>1 DEF Listing
<1>9. ~s.collected => M = <<>>
  <2>1. ~s.collected => Len(M) = 0
    BY <1>7, EmptySeq DEF SigStamps
  <2>2. Len(M) = 0 => M = <<>>
    BY <1>6, <1>7
  <2> QED BY <2>1, <2>2
<1>10. SigStamps(c, i, X, A)
  <2> HIDE DEF c, L
  <2>1. s.collected => X[i].node /\ X[i].info
    BY DEF SigStamps
  <2> QED BY <1>2, <1>5, <1>7, <1>8, <1>9, <2>1 DEF SigStamps
<1> HIDE DEF c
<1>11. \A n \in 1 .. Len(c.stamps) : c.stamps[n].page = p => c.stamps[n].parsed
  BY <1>2, <1>5, <1>7
<1> QED BY <1>2, <1>10, <1>11 DEF c

(* The stamps a signature gives a page are those stated for it.            *)
LEMMA PageStamps ==
  ASSUME NEW s, NEW i, NEW X, NEW A, NEW p, p # None, SigStamps(s, i, X, A),
         ~s.collected => ~X[i].node \/ ~X[i].info,
         \A n \in 1 .. Len(s.stamps) : s.stamps[n].page = p => s.stamps[n].parsed
  PROVE  /\ Listing(StampsOf(s, p), {i} \X StatedIn(X[i], p))
         /\ \A n \in 1 .. Len(StampsOf(s, p)) : /\ Right(StampsOf(s, p)[n], X, A)
                                                /\ StampsOf(s, p)[n].parsed
<1> DEFINE L == s.stamps
           Q == IF s.collected THEN {i} \X WholeStamps(X[i]) ELSE {}
           K == {k \in 1 .. Len(L) : L[k].page = p}
           M == StampsOf(s, p)
           x == X[i]
<1>1. Listing(L, Q)
  <2>1. CASE s.collected
    BY <2>1 DEF SigStamps
  <2>2. CASE ~s.collected
    <3>1. L = <<>> /\ Len(L) = 0 /\ IsList(L)
      BY <2>2, EmptySeq, SeqIsList DEF SigStamps
    <3> QED BY <2>2, <3>1 DEF Listing
  <2> QED BY <2>1, <2>2
<1>2. M = Selected(L, K)
  BY DEF StampsOf
<1>3. \A k \in 1 .. Len(L) : Right(L[k], X, A) /\ L[k].from \in Q
  BY <1>1 DEF SigStamps, Listing
<1> HIDE DEF L, M, Q
<1>4. /\ Listing(M, {L[k].from : k \in K})
      /\ \A n \in 1 .. Len(M) : \E k \in K : M[n] = L[k]
  <2>1. K \in SUBSET (1 .. Len(L))
    OBVIOUS
  <2> HIDE DEF K
  <2> QED BY <1>1, <1>2, <2>1, ListingSelected
<1>5. {L[k].from : k \in K} = {i} \X StatedIn(x, p)
  <2>1. ASSUME NEW k \in K PROVE L[k].from \in {i} \X StatedIn(x, p)
    <3>1. Right(L[k], X, A) /\ L[k].from \in Q /\ L[k].page = p
      BY <1>3
    <3>2. s.collected /\ L[k].from \in {i} \X WholeStamps(x)
      BY <3>1 DEF Q
    <3>3. PICK j \in WholeStamps(x) : L[k].from = <<i, j>>
      BY <3>2
    <3>4. x.stamps[j].page = p
      <4>1. L[k].from[1] = i /\ L[k].from[2] = j
        BY <3>3
      <4>2. L[k].page = X[L[k].from[1]].stamps[L[k].from[2]].page
        BY <3>1 DEF Right
      <4> QED BY <3>1, <4>1, <4>2
    <3>5. x.node /\ x.info
      BY <3>2 DEF SigStamps
    <3> QED BY <3>3, <3>4, <3>5 DEF StatedIn, WholeStamps
  <2>2. ASSUME NEW j \in StatedIn(x, p) PROVE \E k \in K : L[k].from = <<i, j>>
    <3>1. x.node /\ x.info /\ x.stamps[j].page = p /\ j \in WholeStamps(x)
      BY DEF StatedIn, WholeStamps
    <3>2. s.collected
      BY <3>1
    <3>3. PICK k \in 1 .. Len(L) : L[k].from = <<i, j>>
      BY <1>1, <3>1, <3>2 DEF Listing, Q
    <3>4. L[k].page = p
      BY <1>3, <3>1, <3>3 DEF Right
    <3> QED BY <3>3, <3>4
  <2> HIDE DEF K, x
  <2> QED BY <2>1, <2>2
<1>6. ASSUME NEW n \in 1 .. Len(M) PROVE Right(M[n], X, A) /\ M[n].parsed
  <2>1. PICK k \in K : M[n] = L[k]
    BY <1>4
  <2> QED BY <1>3, <2>1 DEF L
<1> QED BY <1>4, <1>5, <1>6 DEF M

(* One signature more.                                                     *)
LEMMA OneSignatureMore ==
  ASSUME NEW m \in Nat, NEW X, NEW A, NEW p, NEW L, NEW M,
         PageList(L, p, m, X, A),
         Listing(M, {m + 1} \X StatedIn(X[m + 1], p)),
         \A n \in 1 .. Len(M) : Right(M[n], X, A) /\ M[n].parsed
  PROVE  PageList(L \o M, p, m + 1, X, A)
<1> DEFINE Q == StatedTo(X, p, m)
           R == {m + 1} \X StatedIn(X[m + 1], p)
<1>1. \A q \in Q : \E i \in 1 .. m : \E k \in StatedIn(X[i], p) : q = <<i, k>>
  BY DEF StatedTo
<1>2. \A q \in Q, r \in R : Before(q, r)
  <2> SUFFICES ASSUME NEW q \in Q, NEW r \in R PROVE Before(q, r)
    OBVIOUS
  <2>1. PICK i \in 1 .. m : \E k \in StatedIn(X[i], p) : q = <<i, k>>
    BY <1>1
  <2>2. q[1] = i /\ r[1] = m + 1
    BY <2>1
  <2> QED BY <2>2 DEF Before
<1>3. Q \cup R = StatedTo(X, p, m + 1)
  <2>1. 1 .. m + 1 = (1 .. m) \cup {m + 1}
    OBVIOUS
  <2> QED BY <2>1 DEF StatedTo
<1>4. Listing(L, Q) /\ \A n \in 1 .. Len(L) : Right(L[n], X, A) /\ L[n].parsed
  BY DEF PageList
<1> HIDE DEF Q, R
<1>5. Listing(L \o M, Q \cup R)
  BY <1>2, <1>4, ListingConcat DEF R
<1>6. ASSUME NEW n \in 1 .. Len(L \o M) PROVE Right((L \o M)[n], X, A) /\ (L \o M)[n].parsed
  <2>1. /\ Len(L \o M) = Len(L) + Len(M) /\ Len(L) \in Nat /\ Len(M) \in Nat
        /\ \A k \in 1 .. Len(L) : (L \o M)[k] = L[k]
        /\ \A k \in 1 .. Len(M) : (L \o M)[Len(L) + k] = M[k]
    BY <1>4, ListConcat DEF Listing, IsList
  <2>2. CASE n \in 1 .. Len(L)
    BY <1>4, <2>1, <2>2
  <2>3. CASE n \notin 1 .. Len(L)
    <3>1. n - Len(L) \in 1 .. Len(M) /\ n = Len(L) + (n - Len(L))
      BY <2>1, <2>3
    <3>2. (L \o M)[n] = M[n - Len(L)]
      BY <2>1, <3>1
    <3> QED BY <3>1, <3>2
  <2> QED BY <2>2, <2>3
<1> QED BY <1>3, <1>5, <1>6 DEF PageList

-----------------------------------------------------------------------------
(* Each signature has its stamps or none, ...                              *)
OwnInv ==
  \A i \in DOMAIN sigs : /\ SigStamps(sigs[i], i, Xmls, Looks)
                         /\ sigs[i].collected => HasXml(i)

(* ... the loop over the signatures has gathered those of the page, ...    *)
DrawInv ==
  call.op = "draw" =>
    /\ doc # None /\ call.sig \in 0 .. Len(sigs) /\ call.page \in Pages
    /\ PageList(call.list, call.page, call.sig, Xmls, Looks)

(* ... and the page last drawn shows all of them.                          *)
ShownInv ==
  /\ doc = None => shown = NothingShown
  /\ shown.page # None => PageList(shown.list, shown.page, Len(sigs), Xmls, Looks)

(* What xilou_verify has read of a signature it goes on with, or accepted. *)
UseInv ==
  /\ call.op = "verify" => Xml(call.sig).node /\ Xml(call.sig).info
  /\ \A i \in DOMAIN sigs : verdict[i] = SUC =>
       /\ Xml(i).node /\ Xml(i).info /\ oes.loaded
       /\ Xml(i).value \notin {None, ""}

StampInv == IsList(sigs) /\ OwnInv /\ DrawInv /\ ShownInv /\ UseInv

LEMMA SameLooks ==
  ASSUME doc' = doc, oes' = oes, DOMAIN sigs' = DOMAIN sigs,
         \A i \in DOMAIN sigs : sigs'[i].loc = sigs[i].loc
  PROVE  Xmls' = Xmls /\ Looks' = Looks
<1>1. \A i \in DOMAIN sigs : Xml(i)' = Xml(i)
  BY DEF Xml
<1>2. \A x : Appearance(x)' = Appearance(x)
  BY DEF Appearance, ImageOf, SealImage, ReadByAnsiName, ReadBinary
<1>3. Xmls' = Xmls
  BY <1>1 DEF Xmls
<1>4. \A i \in DOMAIN sigs : Appearance(Xml(i))' = Appearance(Xml(i))
  BY <1>1, <1>2
<1> QED BY <1>3, <1>4 DEF Looks

(* A step that neither draws nor changes stamps.                           *)
LEMMA StampFrame ==
  ASSUME StampInv, doc' = doc, oes' = oes, shown' = shown, IsList(sigs'),
         DOMAIN sigs' = DOMAIN sigs, Len(sigs') = Len(sigs),
         \A i \in DOMAIN sigs : /\ sigs'[i].loc = sigs[i].loc
                               /\ sigs'[i].collected = sigs[i].collected
                               /\ sigs'[i].stamps = sigs[i].stamps
  PROVE  IsList(sigs') /\ OwnInv' /\ ShownInv' /\ (call' = call => DrawInv')
<1>1. Xmls' = Xmls /\ Looks' = Looks
  BY SameLooks
<1>2. \A i \in DOMAIN sigs : HasXml(i)' = HasXml(i)
  BY DEF HasXml
<1>3. OwnInv'
  <2> SUFFICES ASSUME NEW i \in DOMAIN sigs
               PROVE  /\ SigStamps(sigs'[i], i, Xmls, Looks)
                      /\ sigs'[i].collected => HasXml(i)
    BY <1>1, <1>2 DEF OwnInv
  <2>1. SigStamps(sigs[i], i, Xmls, Looks) /\ (sigs[i].collected => HasXml(i))
    BY DEF StampInv, OwnInv
  <2> QED BY <2>1 DEF SigStamps
<1>4. ShownInv'
  BY <1>1 DEF StampInv, ShownInv
<1>5. call' = call => DrawInv'
  BY <1>1 DEF StampInv, DrawInv
<1> QED BY <1>3, <1>4, <1>5

(* Verdicts, and what a verification under way has read.                   *)
LEMMA UseFrame ==
  ASSUME SignatureInv, StampInv, doc' = doc, oes' = oes, verdict' = verdict,
         DOMAIN sigs' = DOMAIN sigs,
         \A i \in DOMAIN sigs : sigs'[i].loc = sigs[i].loc,
         call'.op = "verify" => /\ call'.sig \in DOMAIN sigs
                                /\ Xml(call'.sig).node /\ Xml(call'.sig).info
  PROVE  UseInv'
<1>1. \A i \in DOMAIN sigs : Xml(i)' = Xml(i)
  BY DEF Xml
<1>2. call'.op = "verify" => Xml(call.sig)' = Xml(call'.sig)
  BY DEF Xml
<1> QED BY <1>1, <1>2 DEF StampInv, UseInv

LEMMA EmptyPage ==
  ASSUME NEW p, NEW X, NEW A
  PROVE  PageList(<<>>, p, 0, X, A)
<1>1. IsList(<<>>) /\ Len(<<>>) = 0
  BY EmptySeq, SeqIsList
<1>2. StatedTo(X, p, 0) = {}
  BY DEF StatedTo
<1> QED BY <1>1, <1>2 DEF PageList, Listing

LEMMA StampInit == Init => StampInv
<1> SUFFICES ASSUME Init PROVE StampInv
  OBVIOUS
<1>1. DOMAIN sigs = {} /\ IsList(sigs)
  <2>1. sigs = <<>> /\ IsList(<<>>)
    BY EmptySeq, SeqIsList DEF Init
  <2> QED BY <2>1
<1>2. call.op = "none" /\ shown.page = None /\ shown = NothingShown
  BY DEF Init, NoCall, NothingShown
<1> QED BY <1>1, <1>2 DEF StampInv, OwnInv, DrawInv, ShownInv, UseInv

-----------------------------------------------------------------------------
(* The document comes and goes.                                            *)
LEMMA StampSession ==
  ASSUME StampInv, Close \/ Restart \/ \E d \in Documents : Open(d)
  PROVE  StampInv'
<1>1. CASE Close \/ Restart
  <2>1. /\ sigs' = <<>> /\ call' = NoCall /\ shown' = NothingShown
    BY <1>1 DEF Close, Restart
  <2>2. DOMAIN sigs' = {} /\ IsList(sigs')
    <3>1. IsList(<<>>)
      BY EmptySeq, SeqIsList
    <3> QED BY <2>1, <3>1
  <2>3. call'.op = "none" /\ shown'.page = None
    BY <2>1 DEF NoCall, NothingShown
  <2> QED BY <2>1, <2>2, <2>3 DEF StampInv, OwnInv, DrawInv, ShownInv, UseInv
<1>2. ASSUME NEW d \in Documents, Open(d) PROVE StampInv'
  <2> DEFINE K == {k \in 1 .. Len(d.bases) : d.bases[k] # ""}
             bases == Selected(d.bases, K)
             N == 1 .. Len(bases)
  <2>1. /\ doc = None /\ doc' = d /\ call' = NoCall /\ shown' = shown
        /\ sigs' = [i \in N |-> NewSignature(bases[i])]
        /\ verdict' = [i \in N |-> None]
    BY <1>2 DEF Open
  <2>2. Len(bases) \in Nat
    <3>1. Len(d.bases) \in Nat
      <4>1. IsDocument(d)
        BY SignatureAssumption
      <4>2. d.bases \in Seq(STRING \cup {None})
        BY <4>1 DEF IsDocument
      <4> QED BY <4>2, LenProperties
    <3>2. K \in SUBSET (1 .. Len(d.bases))
      OBVIOUS
    <3> HIDE DEF K
    <3>3. Cardinality(K) \in Nat
      BY <3>1, <3>2, RankFacts
    <3>4. Len(bases) = Cardinality(K)
      BY <3>3, ListIntro DEF Selected
    <3> QED BY <3>3, <3>4
  <2> HIDE DEF bases
  <2>3. DOMAIN sigs' = N /\ \A i \in N : sigs'[i] = NewSignature(bases[i])
    BY <2>1
  <2>4. IsList(sigs')
    <3>1. sigs' = [i \in 1 .. Len(bases) |-> sigs'[i]]
      BY <2>1
    <3> QED BY <2>2, <3>1, ListIntro
  <2>5. OwnInv'
    <3>1. \A i \in N : ~sigs'[i].collected /\ sigs'[i].stamps = <<>>
      BY <2>3 DEF NewSignature
    <3>2. Len(<<>>) = 0
      BY EmptySeq
    <3> QED BY <2>3, <3>1, <3>2 DEF OwnInv, SigStamps
  <2>6. shown'.page = None /\ d # None /\ call'.op = "none"
    BY <2>1, NoneIsNothing DEF StampInv, ShownInv, NothingShown, NoCall
  <2>7. UseInv'
    <3>1. \A i \in N : verdict'[i] # SUC
      BY <2>1, NoneIsNothing
    <3> QED BY <2>3, <2>6, <3>1 DEF UseInv
  <2> QED BY <2>1, <2>4, <2>5, <2>6, <2>7 DEF StampInv, DrawInv, ShownInv
<1> QED BY <1>1, <1>2

(* A verification returns, and success means that the plug-in was there.   *)
LEMMA StampReturn ==
  ASSUME SignatureInv, StampInv, NEW i \in DOMAIN sigs, NEW code, NEW msg,
         Return(i, code, msg),
         code = SUC => /\ Xml(i).node /\ Xml(i).info /\ oes.loaded
                       /\ Xml(i).value \notin {None, ""}
  PROVE  StampInv'
<1>1. /\ call' = NoCall /\ doc' = doc /\ oes' = oes /\ shown' = shown
      /\ verdict' = [verdict EXCEPT ![i] = code]
      /\ sigs' = [sigs EXCEPT ![i] = [sigs[i] EXCEPT !.msg = msg]]
  BY DEF Return
<1>2. /\ DOMAIN sigs' = DOMAIN sigs
      /\ \A k \in DOMAIN sigs : /\ sigs'[k].loc = sigs[k].loc
                                /\ sigs'[k].collected = sigs[k].collected
                                /\ sigs'[k].stamps = sigs[k].stamps
  BY <1>1 DEF SignatureInv, ShapeInv, SigFields
<1>3. IsList(sigs') /\ Len(sigs') = Len(sigs)
  <2>1. Len(sigs) \in Nat /\ sigs' = [k \in 1 .. Len(sigs) |-> sigs'[k]]
    BY <1>1 DEF StampInv, IsList
  <2> QED BY <2>1, ListIntro
<1>4. OwnInv' /\ ShownInv'
  BY <1>1, <1>2, <1>3, StampFrame
<1>5. DrawInv'
  BY <1>1, NoCallFacts DEF DrawInv
<1>6. UseInv'
  <2>1. \A k \in DOMAIN sigs : Xml(k)' = Xml(k)
    BY <1>1, <1>2 DEF Xml
  <2>2. \A k \in DOMAIN sigs : verdict'[k] = IF k = i THEN code ELSE verdict[k]
    BY <1>1 DEF SignatureInv, ShapeInv
  <2>3. call'.op = "none"
    BY <1>1, NoCallFacts
  <2> SUFFICES ASSUME NEW k \in DOMAIN sigs, verdict'[k] = SUC
               PROVE  /\ Xml(k)'.node /\ Xml(k)'.info /\ oes.loaded
                      /\ Xml(k)'.value \notin {None, ""}
    BY <1>1, <1>2, <2>3 DEF UseInv
  <2>4. CASE k = i
    BY <2>1, <2>2, <2>4
  <2>5. CASE k # i
    BY <2>1, <2>2, <2>5 DEF StampInv, UseInv
  <2> QED BY <2>4, <2>5
<1> QED BY <1>3, <1>4, <1>5, <1>6 DEF StampInv

(* A step of a verification that leaves the signatures alone.              *)
LEMMA StampStay ==
  ASSUME SignatureInv, StampInv, UNCHANGED <<doc, sigs, oes, verdict, shown>>,
         call'.op # "draw",
         call'.op = "verify" => /\ call'.sig \in DOMAIN sigs
                                /\ Xml(call'.sig).node /\ Xml(call'.sig).info
  PROVE  StampInv'
<1>1. IsList(sigs') /\ OwnInv' /\ ShownInv'
  BY StampFrame DEF StampInv
<1>2. UseInv'
  BY UseFrame
<1> QED BY <1>1, <1>2 DEF StampInv, DrawInv

LEMMA StampDie ==
  ASSUME SignatureInv, StampInv, Die
  PROVE  StampInv'
<1>1. call'.op = "dead" /\ UNCHANGED <<doc, sigs, oes, verdict, shown>>
  BY NoCallFacts DEF Die
<1> QED BY <1>1, StampStay

-----------------------------------------------------------------------------
LEMMA StampVerify ==
  ASSUME SignatureInv, StampInv, NEW i \in DOMAIN sigs, Verify(i)
  PROVE  StampInv'
<1>1. CASE ~HasXml(i)
  BY <1>1, StampDie DEF Verify
<1>2. CASE HasXml(i) /\ Xml(i).node /\ Xml(i).info /\ Xml(i).hasRefs
  <2>1. /\ call' = [NoCall EXCEPT !.op = "verify", !.sig = i]
        /\ UNCHANGED <<doc, sigs, oes, verdict, shown>>
    BY <1>2 DEF Verify
  <2>2. call'.op = "verify" /\ call'.sig = i
    BY <2>1 DEF NoCall
  <2> QED BY <1>2, <2>1, <2>2, StampStay
<1>3. CASE HasXml(i) /\ ~(Xml(i).node /\ Xml(i).info /\ Xml(i).hasRefs)
  <2>1. Return(i, INVALID_XML, sigs[i].msg)
    BY <1>3 DEF Verify
  <2> QED BY <2>1, StampReturn DEF INVALID_XML, SUC
<1> QED BY <1>1, <1>2, <1>3

LEMMA StampReference ==
  ASSUME SignatureInv, StampInv, VerifyReference
  PROVE  StampInv'
<1> DEFINE i == call.sig
           x == Xml(i)
           r == x.refs[call.at + 1]
           code == ReferenceCode(x, r)
<1>1. call.op = "verify" /\ i \in DOMAIN sigs /\ x.node /\ x.info
  BY Walking DEF VerifyReference, StampInv, UseInv
<1>2. CASE r.check = None
  BY <1>2, StampDie DEF VerifyReference
<1>3. CASE r.check # None /\ code = SUC
  <2>1. call' = [call EXCEPT !.at = @ + 1] /\ UNCHANGED <<doc, sigs, oes, verdict, shown>>
    BY <1>3 DEF VerifyReference
  <2>2. call'.op = "verify" /\ call'.sig = i
    BY <1>1, <2>1 DEF SignatureInv, ShapeInv, CallFields
  <2> QED BY <1>1, <2>1, <2>2, StampStay
<1>4. CASE r.check # None /\ code # SUC
  <2>1. Return(i, code, IF code = ENTRY_HASH THEN r.file ELSE sigs[i].msg)
    BY <1>4 DEF VerifyReference
  <2> HIDE DEF code, r, x
  <2> QED BY <1>1, <1>4, <2>1, StampReturn
<1> QED BY <1>2, <1>3, <1>4

LEMMA StampValue ==
  ASSUME SignatureInv, StampInv, VerifySignedValue \/ VerifySignedValueDies
  PROVE  StampInv'
<1> DEFINE i == call.sig
           x == Xml(i)
<1>1. CASE VerifySignedValueDies
  BY <1>1, StampDie DEF VerifySignedValueDies
<1>2. CASE VerifySignedValue
  <2>1. call.op = "verify"
    BY <1>2 DEF VerifySignedValue, AllReferences
  <2>2. i \in DOMAIN sigs /\ x.node /\ x.info
    BY <2>1, Walking DEF StampInv, UseInv
  <2>3. CASE ValueFault(x) # None
    <3>1. Return(i, ValueFault(x), sigs[i].msg)
      BY <1>2, <2>3 DEF VerifySignedValue
    <3>2. ValueFault(x) # SUC
      BY <2>3 DEF ValueFault, SUC, INVALID_XML, LOADER
    <3> QED BY <2>2, <3>1, <3>2, StampReturn
  <2>4. CASE ValueFault(x) = None
    <3>1. PICK a \in Answers(Digest(CheckMethod(x), SignedData(i)), ReadBinary(x.value)) :
            IF a = SUC THEN Return(i, SUC, sigs[i].msg)
            ELSE Return(i, SIGNED_VERIFY, IF a = None THEN sigs[i].msg ELSE a)
      BY <1>2, <2>4 DEF VerifySignedValue
    <3>2. oes.loaded /\ x.value \notin {None, ""}
      BY <2>4, NoneIsNothing DEF ValueFault
    <3>3. CASE a = SUC
      BY <2>2, <3>1, <3>2, <3>3, StampReturn
    <3>4. CASE a # SUC
      <4>1. Return(i, SIGNED_VERIFY, IF a = None THEN sigs[i].msg ELSE a)
        BY <3>1, <3>4
      <4>2. SIGNED_VERIFY # SUC
        BY DEF SIGNED_VERIFY, SUC
      <4> QED BY <2>2, <4>1, <4>2, StampReturn
    <3> QED BY <3>3, <3>4
  <2> QED BY <2>3, <2>4
<1> QED BY <1>1, <1>2

(* A page is asked for, and has been drawn.                                *)
LEMMA StampDraw ==
  ASSUME SignatureInv, StampInv, StampsDrawn \/ \E p \in Pages : DrawPage(p)
  PROVE  StampInv'
<1>1. CASE StampsDrawn
  <2>1. /\ call.op = "draw" /\ call.sig + 1 \notin DOMAIN sigs /\ call' = NoCall
        /\ shown' = [page |-> call.page, list |-> call.list]
        /\ UNCHANGED <<doc, sigs, oes, verdict>>
    BY <1>1 DEF StampsDrawn
  <2>2. /\ call.sig \in 0 .. Len(sigs) /\ call.page \in Pages
        /\ PageList(call.list, call.page, call.sig, Xmls, Looks)
        /\ Len(sigs) \in Nat /\ DOMAIN sigs = 1 .. Len(sigs)
    BY <2>1 DEF StampInv, DrawInv, IsList
  <2>3. call.sig = Len(sigs)
    BY <2>1, <2>2
  <2>4. Xmls' = Xmls /\ Looks' = Looks
    BY <2>1, SameLooks
  <2>5. doc # None
    BY <2>1 DEF StampInv, DrawInv
  <2>6. ShownInv'
    BY <2>1, <2>2, <2>3, <2>4, <2>5 DEF ShownInv
  <2>7. OwnInv'
    BY <2>1, <2>4 DEF StampInv, OwnInv, HasXml
  <2>8. call'.op = "none"
    BY <2>1, NoCallFacts
  <2>9. UseInv'
    BY <2>1, <2>8, UseFrame
  <2> QED BY <2>1, <2>6, <2>7, <2>8, <2>9 DEF StampInv, DrawInv
<1>2. ASSUME NEW p \in Pages, DrawPage(p) PROVE StampInv'
  <2>1. /\ doc # None /\ call' = [NoCall EXCEPT !.op = "draw", !.page = p]
        /\ UNCHANGED <<doc, sigs, oes, verdict, shown>>
    BY <1>2 DEF DrawPage
  <2>2. call'.op = "draw" /\ call'.sig = 0 /\ call'.page = p /\ call'.list = <<>>
    BY <2>1 DEF NoCall
  <2>3. IsList(sigs') /\ OwnInv' /\ ShownInv'
    BY <2>1, StampFrame DEF StampInv
  <2>4. DrawInv'
    <3>1. 0 \in 0 .. Len(sigs)
      BY DEF StampInv, IsList
    <3> QED BY <2>1, <2>2, <3>1, EmptyPage DEF DrawInv
  <2>5. UseInv'
    BY <2>1, <2>2, UseFrame
  <2> QED BY <2>3, <2>4, <2>5 DEF StampInv
<1> QED BY <1>1, <1>2

(* The loop goes on to the next signature.                                 *)
LEMMA StampNext ==
  ASSUME SignatureInv, StampInv, GetPageSignature
  PROVE  StampInv'
<1> DEFINE m == call.sig
           i == m + 1
           p == call.page
           c == Collect(i, sigs[i], Xml(i))
           s == MarkParsed(c, p)
           M == StampsOf(s, p)
<1>1. /\ call.op = "draw" /\ i \in DOMAIN sigs
      /\ doc # None /\ m \in 0 .. Len(sigs) /\ p \in Pages /\ p # None
      /\ PageList(call.list, p, m, Xmls, Looks)
      /\ Len(sigs) \in Nat /\ DOMAIN sigs = 1 .. Len(sigs)
  BY SignatureAssumption DEF GetPageSignature, StampInv, DrawInv, IsList
<1>2. CASE \/ ~HasXml(i) /\ ~Collected(sigs[i])
           \/ CollectDies(sigs[i], Xml(i))
  BY <1>2, StampDie DEF GetPageSignature
<1>3. CASE ~(~HasXml(i) /\ ~Collected(sigs[i])) /\ ~CollectDies(sigs[i], Xml(i))
  <2>1. /\ sigs' = [sigs EXCEPT ![i] = s]
        /\ call' = [call EXCEPT !.sig = i, !.list = @ \o M]
        /\ UNCHANGED <<doc, oes, verdict, shown>>
    BY <1>3 DEF GetPageSignature
  <2>2. /\ HasXml(i) /\ SigStamps(sigs[i], i, Xmls, Looks) /\ DOMAIN sigs[i] = SigFields
        /\ Xmls[i] = Xml(i) /\ Looks[i] = Appearance(Xml(i))
    BY <1>1, <1>3 DEF StampInv, OwnInv, Collected, Xmls, Looks, SignatureInv, ShapeInv
  <2>3. Len(Xml(i).stamps) \in Nat
    <3>1. IsDocument(doc)
      BY <1>1, SignatureAssumption DEF SignatureInv, ShapeInv
    <3> QED BY <2>2, <3>1 DEF IsDocument, HasXml, Xml
  <2>4. i \in Nat /\ m \in Nat
    BY <1>1
  <2>5. /\ SigStamps(c, i, Xmls, Looks) /\ DOMAIN c = SigFields
        /\ ~c.collected => ~Xml(i).node \/ ~Xml(i).info
    BY <2>2, <2>3, <2>4, CollectStamps
  <2>6. c.loc = sigs[i].loc
    BY <2>2 DEF Collect, SigFields
  <2> HIDE DEF c
  <2>7. /\ SigStamps(s, i, Xmls, Looks) /\ DOMAIN s = SigFields
        /\ s.collected = c.collected
        /\ \A n \in 1 .. Len(s.stamps) : s.stamps[n].page = p => s.stamps[n].parsed
    BY <2>5, MarkStamps
  <2>8. s.loc = sigs[i].loc
    BY <2>5, <2>6 DEF MarkParsed, SigFields
  <2> HIDE DEF s
  <2>9. /\ Listing(M, {i} \X StatedIn(Xmls[i], p))
        /\ \A n \in 1 .. Len(M) : Right(M[n], Xmls, Looks) /\ M[n].parsed
    BY <1>1, <2>2, <2>5, <2>7, PageStamps
  <2> HIDE DEF M
  <2>10. PageList(call.list \o M, p, i, Xmls, Looks)
    BY <1>1, <2>4, <2>9, OneSignatureMore
  <2>11. /\ call'.op = "draw" /\ call'.sig = i /\ call'.page = p
         /\ call'.list = call.list \o M
    BY <1>1, <2>1 DEF SignatureInv, ShapeInv, CallFields
  <2>12. /\ DOMAIN sigs' = DOMAIN sigs
         /\ \A k \in DOMAIN sigs : sigs'[k] = IF k = i THEN s ELSE sigs[k]
    BY <1>1, <2>1
  <2>13. IsList(sigs') /\ Len(sigs') = Len(sigs)
    <3>1. sigs' = [k \in 1 .. Len(sigs) |-> sigs'[k]]
      BY <1>1, <2>1
    <3> QED BY <1>1, <3>1, ListIntro
  <2>14. \A k \in DOMAIN sigs : sigs'[k].loc = sigs[k].loc
    BY <2>8, <2>12
  <2>15. Xmls' = Xmls /\ Looks' = Looks
    BY <2>1, <2>12, <2>14, SameLooks
  <2>16. OwnInv'
    <3> SUFFICES ASSUME NEW k \in DOMAIN sigs
                 PROVE  SigStamps(sigs'[k], k, Xmls, Looks) /\ (sigs'[k].collected => HasXml(k)')
      BY <2>12, <2>15 DEF OwnInv
    <3>1. HasXml(k)' = HasXml(k)
      BY <2>1, <2>14 DEF HasXml
    <3>2. CASE k = i
      BY <2>2, <2>7, <2>12, <3>1, <3>2
    <3>3. CASE k # i
      BY <2>12, <3>1, <3>3 DEF StampInv, OwnInv
    <3> QED BY <3>2, <3>3
  <2>17. DrawInv'
    <3>1. i \in 0 .. Len(sigs)
      BY <1>1
    <3> QED BY <1>1, <2>1, <2>10, <2>11, <2>13, <2>15, <3>1 DEF DrawInv
  <2>18. ShownInv'
    BY <2>1, <2>13, <2>15 DEF StampInv, ShownInv
  <2>19. UseInv'
    BY <2>1, <2>11, <2>12, <2>14, UseFrame
  <2> QED BY <2>13, <2>16, <2>17, <2>18, <2>19 DEF StampInv
<1> QED BY <1>2, <1>3

LEMMA StampStep == SignatureInv /\ StampInv /\ [Next]_vars => StampInv'
<1> SUFFICES ASSUME SignatureInv, StampInv, [Next]_vars PROVE StampInv'
  OBVIOUS
<1>1. CASE UNCHANGED vars
  <2>1. UNCHANGED <<doc, sigs, oes, verdict, shown>> /\ call' = call
    BY <1>1 DEF vars
  <2>2. IsList(sigs') /\ OwnInv' /\ ShownInv' /\ DrawInv'
    BY <2>1, StampFrame DEF StampInv
  <2>3. UseInv'
    BY <2>1, UseFrame, Walking DEF StampInv, UseInv
  <2> QED BY <2>2, <2>3 DEF StampInv
<1>2. CASE Next
  BY <1>2, StampSession, StampVerify, StampReference, StampValue, StampDraw, StampNext
     DEF Next
<1> QED BY <1>1, <1>2

LEMMA StampInvariant == Spec => [](SignatureInv /\ StampInv)
<1>1. Init => SignatureInv /\ StampInv
  BY SignatureInit, StampInit
<1>2. SignatureInv /\ StampInv /\ [Next]_vars => (SignatureInv /\ StampInv)'
  BY SignatureStep, StampStep
<1> QED BY <1>1, <1>2, PTL DEF Spec

-----------------------------------------------------------------------------
(* Every page is drawn with all stamps its signatures state for it, each   *)
(* once, in order and as stated, whichever pages were drawn and whichever  *)
(* signatures verified before (GetPageSignatureCount, GetPageSignature).   *)
THEOREM PagesGetTheirStamps == Spec => []StampsOnce
<1>1. SignatureInv /\ StampInv => StampsOnce
  <2> SUFFICES ASSUME StampInv, shown.page # None PROVE StampsOnce
    BY DEF StampsOnce
  <2> DEFINE p == shown.page
             L == shown.list
             N == Len(sigs)
  <2>1. /\ Listing(L, StatedTo(Xmls, p, N))
        /\ \A n \in 1 .. Len(L) : Right(L[n], Xmls, Looks) /\ L[n].parsed
        /\ \A i \in 1 .. N : Xmls[i] = Xml(i)
    BY DEF StampInv, ShownInv, PageList, Xmls, IsList
  <2> HIDE DEF p, L, N
  <2>2. ASSUME NEW i \in 1 .. N, NEW k \in 1 .. Len(Xml(i).stamps), Stated(i, k, p)
        PROVE  \E n \in 1 .. Len(L) : L[n].from = <<i, k>>
    <3>1. k \in StatedIn(Xmls[i], p)
      BY <2>1, <2>2 DEF Stated, StatedIn
    <3>2. <<i, k>> \in StatedTo(Xmls, p, N)
      BY <3>1 DEF StatedTo
    <3> QED BY <2>1, <3>2 DEF Listing
  <2>3. ASSUME NEW n \in 1 .. Len(L)
        PROVE  \E i \in 1 .. N : \E k \in 1 .. Len(Xml(i).stamps) :
                 /\ Stated(i, k, p) /\ L[n].from = <<i, k>> /\ L[n].page = p
                 /\ L[n].box = Xml(i).stamps[k].box /\ L[n].parsed
    <3>1. L[n].from \in StatedTo(Xmls, p, N) /\ Right(L[n], Xmls, Looks) /\ L[n].parsed
      BY <2>1 DEF Listing
    <3>2. PICK i \in 1 .. N : L[n].from \in {i} \X StatedIn(Xmls[i], p)
      BY <3>1 DEF StatedTo
    <3>3. PICK k \in StatedIn(Xmls[i], p) : L[n].from = <<i, k>>
      BY <3>2
    <3>4. L[n].from[1] = i /\ L[n].from[2] = k
      BY <3>3
    <3>5. k \in 1 .. Len(Xml(i).stamps) /\ Stated(i, k, p)
      BY <2>1 DEF StatedIn, Stated
    <3>6. L[n].page = Xml(i).stamps[k].page /\ L[n].box = Xml(i).stamps[k].box
      BY <2>1, <3>1, <3>4 DEF Right
    <3>7. L[n].page = p
      BY <3>5, <3>6 DEF Stated
    <3> QED BY <3>1, <3>3, <3>5, <3>6, <3>7
  <2>4. \A m, n \in 1 .. Len(L) : m < n => Before(L[m].from, L[n].from)
    BY <2>1 DEF Listing
  <2> QED BY <2>2, <2>3, <2>4 DEF StampsOnce, p, L, N
<1> QED BY <1>1, StampInvariant, PTL

(* The stamps of a signature that was accepted have the picture that the   *)
(* package states, for every plug-in, and whether the page was drawn       *)
(* before the verification or after it (GenAppearance).                    *)
THEOREM AcceptedSignaturesAreSeen == Spec => []AcceptedIsSeen
<1>1. SignatureInv /\ StampInv => AcceptedIsSeen
  <2> SUFFICES ASSUME SignatureInv, StampInv, NEW i \in DOMAIN sigs,
                      verdict[i] = SUC, Showable(Xml(i)),
                      NEW k \in 1 .. Len(sigs[i].stamps)
               PROVE  sigs[i].stamps[k].objs = StatedImage(Xml(i)).objs
    BY DEF AcceptedIsSeen
  <2> DEFINE x == Xml(i)
  <2>1. /\ x.node /\ x.info /\ oes.loaded /\ x.value \notin {None, ""}
    BY DEF StampInv, UseInv
  <2>2. sigs[i].stamps[k].objs = Appearance(x)
    <3>1. /\ SigStamps(sigs[i], i, Xmls, Looks) /\ Looks[i] = Appearance(x)
      BY DEF StampInv, OwnInv, Looks
    <3>2. sigs[i].collected
      <4>1. Len(<<>>) = 0
        BY EmptySeq
      <4> QED BY <3>1, <4>1 DEF SigStamps
    <3>3. sigs[i].stamps[k].from \in {i} \X WholeStamps(Xmls[i])
      BY <3>1, <3>2 DEF SigStamps, Listing
    <3>4. sigs[i].stamps[k].from[1] = i
      BY <3>3
    <3> QED BY <3>1, <3>4 DEF SigStamps, Right
  <2>3. Appearance(x) = StatedImage(x).objs
    <3> DEFINE v == ReadBinary(x.value)
               e == ReadBinary(x.seal)
    <3>1. ReadByAnsiName(x.value) = v /\ ~v.small
      BY DEF Showable, ReadByAnsiName
    <3>2. v.image = None => SealImage(x) = e.image
      <4>1. v.image = None => x.seal \in doc.ansi /\ ~e.small /\ "seal" \in oes.exports
        BY DEF Showable
      <4>2. doc \in Documents
        BY DEF SignatureInv, ShapeInv
      <4>3. None \notin doc.ansi /\ "" \notin doc.ansi
        BY <4>2, SignatureAssumption DEF IsDocument
      <4> QED BY <2>1, <4>1, <4>3 DEF SealImage, ReadByAnsiName
    <3>3. /\ StatedImage(x) = IF v.image # None THEN v.image ELSE SealImage(x)
          /\ StatedImage(x) # None /\ StatedImage(x).good
          /\ StatedImage(x).kind \in {"bitmap", "ofd"}
      BY <3>2 DEF StatedImage, Showable
    <3> HIDE DEF v, e
    <3> QED BY <2>1, <3>1, <3>3 DEF Appearance, ImageOf
  <2> QED BY <2>2, <2>3
<1> QED BY <1>1, StampInvariant, PTL

=============================================================================
