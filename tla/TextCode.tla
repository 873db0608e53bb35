------------------------------ MODULE TextCode ------------------------------
(***************************************************************************)
(* The characters of a text object: the loop of COFD_Page::ParseTextObject  *)
(* over the TextCodes of the object and CTextCodeData, which expands the    *)
(* deltas of a TextCode and places one text object per character or glyph. *)
(*                                                                         *)
(* The list of deltas is rewritten in place while it is searched, and the  *)
(* place of a character is kept by adding to the place of the one before.  *)
(* Deltas are whole numbers, and matrices are left out.                    *)
(***************************************************************************)
EXTENDS Integers, Sequences, SequencesExt

CONSTANTS
  Objects   \* text objects: their TextCodes and CGTransforms

Axes == {"X", "Y"}
None == "none"
Num(n) == [key |-> None, n |-> n]
Key(k) == [key |-> k, n |-> 0]

(* A token of a delta list: a number, or the letter of a repetition, for   *)
(* which atoi gives 0.                                                     *)
Token == [key : {None}, n : Int] \cup {Key("g"), Key("G")}

(* An attribute that may be missing: a sequence of at most one value.      *)
Maybe(attr, S) == attr \in Seq(S) /\ Len(attr) < 2

(* Whether FindFont has a font for the object, if only the default one,    *)
(* and whether it has the default one.  A TextCode: X and Y, DeltaX and    *)
(* DeltaY, and which of its characters the font has a code for.  A         *)
(* CGTransform covers codes characters from position on.                   *)
TextAssumption ==
  \A o \in Objects :
    /\ o.font \in BOOLEAN /\ o.default \in BOOLEAN /\ (o.default => o.font)
    /\ Len(o.codes) \in Nat /\ Len(o.cgs) \in Nat
    /\ \A k \in 1 .. Len(o.codes) :
         /\ \A a \in Axes : /\ Maybe(o.codes[k].at[a], Int)
                            /\ Maybe(o.codes[k].delta[a], Seq(Token))
         /\ o.codes[k].text \in Seq(BOOLEAN)
    /\ \A k \in 1 .. Len(o.cgs) :
         o.cgs[k].position \in Nat /\ o.cgs[k].codes \in Nat \ {0} /\ o.cgs[k].glyphs \in Seq(Nat)

VARIABLES
  obj,      \* the text object
  code,     \* the TextCode being looked at
  pc,       \* what the loop does with it
  at,       \* m_loc
  last,     \* x and y of ParseTextObject
  delta,    \* m_DeltaX and m_DeltaY
  calls,    \* the calls of expand_g to come, the first of them under way
  i, j,     \* the loop variables
  shown     \* the text objects appended to the page

vars == <<obj, code, pc, at, last, delta, calls, i, j, shown>>

-----------------------------------------------------------------------------
(* glyph_map: the first CGTransform of a position.                         *)
At(p) == {k \in 1 .. Len(obj.cgs) :
            /\ obj.cgs[k].position = p
            /\ \A m \in 1 .. k - 1 : obj.cgs[m].position # p}
Cg(p) == obj.cgs[CHOOSE k \in At(p) : TRUE]

TheCode == obj.codes[code]
Or(attr, default) == IF attr = <<>> THEN default ELSE attr[1]

Init ==
  /\ obj \in Objects
  /\ code = 0 /\ pc = "font" /\ i = 0 /\ j = 0
  /\ at = [a \in Axes |-> 0] /\ last = at
  /\ delta = [a \in Axes |-> <<>>] /\ calls = <<>>
  /\ shown = <<>>

(* SetFont and SetTextMatrix, which asks the font, whether there is one or *)
(* not.                                                                    *)
SetFont ==
  /\ pc = "font"
  /\ pc' = IF obj.font THEN "next" ELSE "dead"
  /\ UNCHANGED <<obj, code, at, last, delta, calls, i, j, shown>>

(* The calls of parseDeltaXY.  The last one names DeltaX.                  *)
ExpandCalls(d) ==
  (IF d["X"] = <<>> THEN <<>> ELSE <<[axis |-> "X", key |-> "g"], [axis |-> "X", key |-> "G"]>>)
  \o (IF d["Y"] = <<>> THEN <<>> ELSE <<[axis |-> "Y", key |-> "g"], [axis |-> "X", key |-> "G"]>>)

(* Mutant: the place where the last TextCode ended is kept.                *)
NextTextCodeFromEnd ==
  /\ pc = "next" /\ code < Len(obj.codes)
  /\ code' = code + 1
  /\ LET c == obj.codes[code + 1]
     IN  /\ at' = [a \in Axes |-> Or(c.at[a], at[a])]
         /\ delta' = [a \in Axes |-> Or(c.delta[a], <<>>)]
         /\ calls' = ExpandCalls(c.delta)
  /\ last' = at' /\ pc' = "expand" /\ i' = 0 /\ j' = 0
  /\ UNCHANGED <<obj, shown>>

(* A CTextCodeData for the next TextCode: parseXY, updateLastXY and the    *)
(* split of parseDeltaXY.                                                  *)
NextTextCode ==
  /\ pc = "next" /\ code < Len(obj.codes)
  /\ code' = code + 1
  /\ LET c == obj.codes[code + 1]
     IN  /\ at' = [a \in Axes |-> Or(c.at[a], last[a])]
         /\ delta' = [a \in Axes |-> Or(c.delta[a], <<>>)]
         /\ calls' = ExpandCalls(c.delta)
  /\ last' = at' /\ pc' = "expand" /\ i' = 0 /\ j' = 0
  /\ UNCHANGED <<obj, shown>>

-----------------------------------------------------------------------------
Copies(n, x) == [k \in 1 .. n |-> x]

(* Mutant: of one or no repetition not even the letter is taken away.      *)
RepeatedAsItIs(d, p) ==
  IF d[p + 1].n < 2 THEN d
  ELSE SubSeq(d, 1, p - 1) \o Copies(d[p + 1].n - 1, d[p + 2]) \o SubSeq(d, p + 2, Len(d))

(* What the switch of expand_g makes of a list with the letter at p: two   *)
(* or more take the place of the letter and its count, of one or none only *)
(* the letter goes.                                                        *)
Repeated(d, p) ==
  LET count == d[p + 1].n
  IN  SubSeq(d, 1, p - 1) \o
      (IF count < 2 THEN SubSeq(d, p + 1, Len(d))
       ELSE Copies(count - 1, d[p + 2]) \o SubSeq(d, p + 2, Len(d)))

(* One turn of the while loop of expand_g: whichever letter was looked     *)
(* for, a small one is looked for next.  The list may end behind the       *)
(* letter, which nobody asks, and vector::insert refuses a count below 0.  *)
Expand ==
  /\ pc = "expand" /\ calls # <<>>
  /\ LET a == calls[1].axis
         d == delta[a]
         hits == {p \in 1 .. Len(d) : d[p].key = calls[1].key}
         p == CHOOSE p \in hits : \A q \in hits : p <= q
         sound == p + 2 <= Len(d) /\ d[p + 1].n >= 0
     IN  \/ /\ hits = {}
            /\ calls' = Tail(calls) /\ UNCHANGED <<delta, pc>>
         \/ /\ hits # {} /\ ~sound
            /\ pc' = "dead" /\ UNCHANGED <<delta, calls>>
         \/ /\ hits # {} /\ sound
            /\ delta' = [delta EXCEPT ![a] = Repeated(d, p)]
            /\ calls' = [calls EXCEPT ![1].key = "g"]
            /\ UNCHANGED pc
  /\ UNCHANGED <<obj, code, at, last, i, j, shown>>

Expanded ==
  /\ pc = "expand" /\ calls = <<>>
  /\ pc' = "codes"
  /\ UNCHANGED <<obj, code, at, last, delta, calls, i, j, shown>>

-----------------------------------------------------------------------------
Lesser(m, n) == IF m < n THEN m ELSE n

(* calcCodePosAtIndex: the last place and the delta of this one; the last  *)
(* delta stands for all behind it.  A letter that was left is 0.           *)
calcCodePosAtIndex(n) ==
  [a \in Axes |-> at[a] + (IF n = 0 \/ delta[a] = <<>> THEN 0
                           ELSE delta[a][Lesser(Len(delta[a]), n)].n)]

Text == TheCode.text

(* appendChar, with the default font for a character without a code ...    *)
AppendChar ==
  /\ pc = "codes" /\ i < Len(Text) /\ At(i) = {}
  /\ ~Text[i + 1] => obj.default
  /\ at' = calcCodePosAtIndex(i)
  /\ shown' = Append(shown,
       [code |-> code, char |-> i, glyph |-> None, at |-> at',
        font |-> IF Text[i + 1] THEN "own" ELSE "default"])
  /\ i' = i + 1
  /\ UNCHANGED <<obj, code, pc, last, delta, calls, j>>

(* ... which is used whether it is there or not.                           *)
AppendCharDies ==
  /\ pc = "codes" /\ i < Len(Text) /\ At(i) = {}
  /\ ~Text[i + 1] /\ ~obj.default
  /\ pc' = "dead"
  /\ UNCHANGED <<obj, code, at, last, delta, calls, i, j, shown>>

(* appendGlyph for the glyphs of a CGTransform, one after the other, and   *)
(* the step over its codes.                                                *)
AppendGlyph ==
  /\ pc = "codes" /\ i < Len(Text) /\ At(i) # {}
  /\ LET g == Cg(i).glyphs
     IN  IF j < Len(g)
         THEN /\ at' = calcCodePosAtIndex(i + j)
              /\ shown' = Append(shown, [code |-> code, char |-> i, glyph |-> g[j + 1],
                                         at |-> at', font |-> "own"])
              /\ j' = j + 1 /\ UNCHANGED i
         ELSE /\ i' = i + Cg(i).codes /\ j' = 0
              /\ UNCHANGED <<at, shown>>
  /\ UNCHANGED <<obj, code, pc, last, delta, calls>>

EndOfTextCode ==
  /\ pc = "codes" /\ i >= Len(Text)
  /\ pc' = "next"
  /\ UNCHANGED <<obj, code, at, last, delta, calls, i, j, shown>>

(* All TextCodes are done, or the process has ended.                       *)
Finished == pc = "dead" \/ (pc = "next" /\ code = Len(obj.codes))

Step ==
  \/ SetFont \/ NextTextCode \/ Expand \/ Expanded
  \/ AppendChar \/ AppendCharDies \/ AppendGlyph \/ EndOfTextCode
Next == Step \/ (Finished /\ UNCHANGED vars)

Spec == Init /\ [][Next]_vars /\ WF_vars(Step)

-----------------------------------------------------------------------------
(* What a list of deltas says, from its p-th token on: numbers stand for   *)
(* themselves, g n d for n times d.                                        *)
Meaning(d) ==
  LET from[p \in 1 .. Len(d) + 3] ==
        IF p > Len(d) THEN <<>>
        ELSE IF d[p].key = None THEN <<d[p].n>> \o from[p + 1]
        ELSE Copies(d[p + 1].n, d[p + 2].n) \o from[p + 3]
  IN  from[1]

(* The lists Meaning is defined for: a letter stands where a letter may,   *)
(* and two numbers follow it.  Groups(d) are the places of letters.        *)
Letters(d) == {p \in 1 .. Len(d) : d[p].key # None}
Complete(d) == \A p \in Letters(d) : p + 2 <= Len(d) /\ {p + 1, p + 2} \cap Letters(d) = {}

(* The lists expand_g is made for: complete, with small letters and two or *)
(* more repetitions.                                                       *)
Regular(d) ==
  Complete(d) /\ \A p \in Letters(d) : d[p].key = "g" /\ d[p + 1].n > 1

RegularCode(c) == \A a \in Axes : Regular(Or(c.delta[a], <<>>))

(* Where the n-th character of TextCode k belongs: at the last X and Y     *)
(* given, moved by the deltas up to it, the last of which goes on.         *)
Start(k, a) ==
  LET given == {m \in 1 .. k : obj.codes[m].at[a] # <<>>}
  IN  IF given = {} THEN 0
      ELSE obj.codes[CHOOSE m \in given : \A q \in given : q <= m].at[a][1]

Place(k, n, a) ==
  LET d == Meaning(Or(obj.codes[k].delta[a], <<>>))
      sum[m \in 0 .. n] == IF m = 0 \/ d = <<>> THEN 0 ELSE sum[m - 1] + d[Lesser(Len(d), m)]
  IN  Start(k, a) + sum[n]

-----------------------------------------------------------------------------
(* Every variable has its type.                                            *)
TypeOK ==
  /\ code \in 0 .. Len(obj.codes) /\ pc \in {"font", "next", "expand", "codes", "dead"}
  /\ {i, j} \subseteq Nat
  /\ \A a \in Axes : {at[a], last[a]} \subseteq Int /\ delta[a] \in Seq(Token)
  /\ \A s \in Range(shown) : s.code \in 1 .. code /\ s.font \in {"own", "default"}

(* The rewriting of a list ends with what the list says.                   *)
ExpandedAsMeant ==
  (pc = "codes" /\ RegularCode(TheCode)) =>
    \A a \in Axes : [p \in DOMAIN delta[a] |-> delta[a][p].n] = Meaning(Or(TheCode.delta[a], <<>>))

(* A character is where its own TextCode puts it, though places are kept   *)
(* by adding and TextCodes pass their places on.  (In objects without      *)
(* CGTransform: glyphs move on by deltas of their own.)                    *)
PlacedAsMeant ==
  obj.cgs = <<>> =>
    \A s \in Range(shown) : RegularCode(obj.codes[s.code]) =>
      \A a \in Axes : s.at[a] = Place(s.code, s.char, a)

(* The text objects of character n, and that they are glyphs, in order and *)
(* with nothing between them.                                              *)
Of(n) == {k \in 1 .. Len(shown) : shown[k].code = code /\ shown[k].char = n}
ShownAs(n, glyphs) ==
  \E b \in 0 .. Len(shown) :
    /\ Of(n) = b + 1 .. b + Len(glyphs)
    /\ \A k \in 1 .. Len(glyphs) : shown[b + k].glyph = glyphs[k]

(* A CGTransform covers its codes and nobody else's: when a TextCode is    *)
(* done, each of its characters was shown once, as itself or, with all     *)
(* glyphs in order, by the transform at its position, or is covered by a   *)
(* transform before it that is not covered itself.                         *)
EachCharacterOnce ==
  (pc = "codes" /\ i >= Len(Text)) =>
    LET covered[n \in 0 .. Len(Text)] ==
          \E m \in 0 .. n - 1 : ~covered[m] /\ At(m) # {} /\ m + Cg(m).codes > n
    IN  \A n \in 0 .. Len(Text) - 1 :
          ShownAs(n, IF covered[n] THEN <<>> ELSE IF At(n) = {} THEN <<None>> ELSE Cg(n).glyphs)

(* The process ends only for want of a font, be it the default one for a   *)
(* character that the text's own has not, or in a list that breaks off     *)
(* behind a letter, becomes one that does, or has a count below 0.         *)
DeadForAReason ==
  pc = "dead" =>
    \/ ~obj.font
    \/ ~obj.default /\ \E n \in 1 .. Len(Text) : ~Text[n]
    \/ \E a \in Axes : ~Regular(Or(TheCode.delta[a], <<>>))

=============================================================================
