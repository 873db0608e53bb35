------------------------------ MODULE PathData ------------------------------
(***************************************************************************)
(* The points of a path on their way from a PDF page into the              *)
(* AbbreviatedData of an OFD file (Cxml_pathobj::convert) and back into a   *)
(* path (COFD_Page::GenPath); GenPath also reads the data of other writers.*)
(*                                                                         *)
(* A point is a pair of whole numbers.  The matrices and the change of      *)
(* units, which take points to points, are left out, and so is the split   *)
(* of the text into letters and numbers.                                   *)
(***************************************************************************)
EXTENDS Integers, Sequences, SequencesExt

CONSTANTS
  Places,     \* points of the content stream
  Controls,   \* the two control points of its curves
  Corners,    \* the corners of its rectangles
  MaxOps,     \* bound on the operators of the path
  Files       \* data of other writers: sequences of tokens

None == "none"
Letter(c) == [letter |-> c, n |-> 0]
Num(n) == [letter |-> None, n |-> n]
XY(p) == <<Num(p[1]), Num(p[2])>>
IsLetter(t) == t.letter # None

PathAssumption ==
  /\ Places \subseteq Int \X Int
  /\ Controls \in (Int \X Int) \X (Int \X Int)
  /\ Corners \in [1 .. 4 -> Int \X Int]
  /\ MaxOps \in Nat
  /\ \A f \in Files : \A k \in 1 .. Len(f) : f[k] = Letter(f[k].letter) \/ f[k] = Num(f[k].n)

VARIABLES
  phase,      \* "content", "write", "read", "done"
  ops,        \* the number of operators so far
  pdf,        \* m_PathPoints, m_PathCurrent and m_PathStart
  i,          \* the loop variable of convert and of GenPath
  counter,    \* pointcounter
  data,       \* AbbreviatedData
  points,     \* the points GenPath has not appended yet
  type,       \* point_type
  path        \* the path GenPath returns

vars == <<phase, ops, pdf, i, counter, data, points, type, path>>

Types == {"move", "line", "bezier"}
Junk == "junk"
Point(p, t) == [at |-> p, type |-> t, close |-> FALSE]
Closed(p) == [p EXCEPT !.close = TRUE]

(* point_type has no initial value.                                        *)
Init ==
  /\ ops = 0 /\ i = 1 /\ counter = 0
  /\ pdf = [points |-> <<>>, current |-> <<0, 0>>, start |-> <<0, 0>>]
  /\ points = <<>> /\ path = <<>> /\ type \in Types \cup {Junk}
  /\ \/ phase = "content" /\ data = <<>>
     \/ phase = "read" /\ data \in Files

-----------------------------------------------------------------------------
(* The content stream.  A move after an open move takes its place; nothing *)
(* is drawn before the first move.                                         *)
EndsInMove(ps) == ps # <<>> /\ Last(ps).type = "move" /\ ~Last(ps).close

AddPathPoint(s, p, t) ==
  [current |-> p,
   start |-> IF t = "move" THEN p ELSE s.start,
   points |-> CASE t = "move" /\ EndsInMove(s.points) -> Front(s.points) \o <<Point(p, t)>>
                [] t # "move" /\ s.points = <<>> -> <<>>
                [] OTHER -> Append(s.points, Point(p, t))]

AddPathPointAndClose(s, p, t) ==
  [s EXCEPT !.current = p,
            !.points = IF @ = <<>> THEN @ ELSE Append(@, Closed(Point(p, t)))]

MoveTo(p) == pdf' = AddPathPoint(pdf, p, "move")
LineTo(p) == pdf' = AddPathPoint(pdf, p, "line")

CurveTo(a, b, c) ==
  pdf' = AddPathPoint(AddPathPoint(AddPathPoint(pdf, a, "bezier"), b, "bezier"), c, "bezier")
CurveTo_123(p) == CurveTo(Controls[1], Controls[2], p)
CurveTo_23(p) == CurveTo(pdf.current, Controls[2], p)
CurveTo_13(p) == CurveTo(Controls[1], p, p)

Rectangle ==
  LET line(s, k) == AddPathPoint(s, Corners[k], "line")
      s1 == AddPathPoint(pdf, Corners[1], "move")
  IN  pdf' = AddPathPointAndClose(line(line(line(s1, 2), 3), 4), Corners[1], "line")

ClosePath ==
  /\ pdf.points # <<>>
  /\ pdf' = CASE pdf.start # pdf.current -> AddPathPointAndClose(pdf, pdf.start, "line")
              [] pdf.start = pdf.current /\ Last(pdf.points).type # "move" ->
                   [pdf EXCEPT !.points = Append(Front(@), Closed(Last(@)))]
              [] OTHER -> pdf

Operator ==
  /\ phase = "content" /\ ops < MaxOps
  /\ ops' = ops + 1
  /\ \/ \E p \in Places : MoveTo(p) \/ LineTo(p) \/ CurveTo_123(p) \/ CurveTo_23(p) \/ CurveTo_13(p)
     \/ Rectangle
     \/ ClosePath
  /\ UNCHANGED <<phase, i, counter, data, points, type, path>>

(* AddPathObject: a move at the end is dropped, a single point is nothing  *)
(* to paint.  b* adds a closing line whatever came before.                 *)
Paint ==
  /\ phase = "content"
  /\ \E s \in {pdf, AddPathPointAndClose(pdf, pdf.start, "line")} :
       IF Len(s.points) > 1
       THEN /\ pdf' = [s EXCEPT !.points = IF EndsInMove(@) THEN Front(@) ELSE @]
            /\ phase' = "write"
       ELSE /\ pdf' = [s EXCEPT !.points = <<>>]
            /\ phase' = "done"
  /\ UNCHANGED <<ops, i, counter, data, points, type, path>>

-----------------------------------------------------------------------------
(* Cxml_pathobj::convert, one point of the path after the other.           *)
InCurve(k) ==
  /\ pdf.points[k].type = "bezier"
  /\ k > 1 /\ pdf.points[k - 1].type = "bezier" /\ counter < 3

Command(k) ==
  CASE pdf.points[k].type = "move" -> <<Letter("M")>>
    [] pdf.points[k].type = "line" -> <<Letter(IF pdf.points[k].close THEN "C" ELSE "L")>>
    [] InCurve(k) -> <<>>
    [] OTHER -> <<Letter("B")>>

(* Mutant: the end point of a closed figure is written as well.            *)
CoordinatesAlways(k) == XY(pdf.points[k].at)

(* A point that closes its figure is not written.                          *)
Coordinates(k) == IF pdf.points[k].close THEN <<>> ELSE XY(pdf.points[k].at)

WritePoint ==
  /\ phase = "write" /\ i <= Len(pdf.points)
  /\ data' = data \o Command(i) \o Coordinates(i)
  /\ counter' = CASE pdf.points[i].type # "bezier" -> counter
                  [] InCurve(i) -> counter + 1
                  [] OTHER -> 1
  /\ i' = i + 1
  /\ UNCHANGED <<phase, ops, pdf, points, type, path>>

(* The page is written and its file opened.                                *)
OpenPage ==
  /\ phase = "write" /\ i > Len(pdf.points)
  /\ phase' = "read" /\ i' = 1
  /\ UNCHANGED <<ops, pdf, counter, data, points, type, path>>

-----------------------------------------------------------------------------
(* append2Path: a curve of one or two points begins in the last point of   *)
(* the path; one point is its second control point and its end.            *)
Appended(ps, pts, t) ==
  LET pad == CASE t # "bezier" \/ ps = <<>> -> <<>>
               [] Len(pts) = 2 -> <<Last(ps).at>>
               [] Len(pts) = 1 -> <<Last(ps).at, pts[1]>>
               [] OTHER -> <<>>
      all == pad \o pts
  IN  ps \o [k \in 1 .. Len(all) |-> Point(all[k], t)]

TypeOf(c) == CASE c \in {"M", "S"} -> "move" [] c = "L" -> "line" [] c \in {"B", "Q"} -> "bezier"

ReadCommand ==
  /\ data[i].letter \in {"M", "S", "L", "B"}
  /\ path' = Appended(path, points, type)
  /\ points' = <<>> /\ type' = TypeOf(data[i].letter)
  /\ i' = i + 1

(* Q counts only after points that are still to be appended.               *)
ReadQ ==
  /\ data[i].letter = "Q"
  /\ IF points = <<>>
     THEN UNCHANGED <<path, points, type>>
     ELSE /\ path' = Appended(path, points, type)
          /\ points' = <<Last(points)>>
          /\ type' = "bezier"
  /\ i' = i + 1

(* An arc only ends what came before it.                                   *)
ReadA ==
  /\ data[i].letter = "A"
  /\ path' = Appended(path, points, type)
  /\ points' = <<>> /\ i' = i + 1
  /\ UNCHANGED type

ReadC ==
  /\ data[i].letter = "C"
  /\ LET ps == Appended(path, points, type)
     IN  path' = IF ps = <<>> THEN ps ELSE Append(Front(ps), Closed(Last(ps)))
  /\ points' = <<>> /\ i' = i + 1
  /\ UNCHANGED type

(* The token and the one after it are a point, whatever they are: a letter *)
(* is the number 0.  The last token is skipped.                            *)
ReadNumber ==
  /\ ~(data[i].letter \in {"M", "S", "L", "B", "Q", "A", "C"})
  /\ LET rest == IF IsLetter(data[i]) THEN <<>> ELSE points
     IN  /\ path' = IF IsLetter(data[i]) THEN Appended(path, points, type) ELSE path
         /\ points' = IF i < Len(data) THEN Append(rest, <<data[i].n, data[i + 1].n>>) ELSE rest
  /\ i' = IF i < Len(data) THEN i + 2 ELSE i + 1
  /\ UNCHANGED type

ReadToken ==
  /\ phase = "read" /\ i <= Len(data)
  /\ ReadCommand \/ ReadQ \/ ReadA \/ ReadC \/ ReadNumber
  /\ UNCHANGED <<phase, ops, pdf, counter, data>>

ReadEnd ==
  /\ phase = "read" /\ i > Len(data)
  /\ path' = Appended(path, points, type)
  /\ points' = <<>> /\ phase' = "done"
  /\ UNCHANGED <<ops, pdf, i, counter, data, type>>

Step == Operator \/ Paint \/ WritePoint \/ OpenPage \/ ReadToken \/ ReadEnd
Next == Step \/ (phase = "done" /\ UNCHANGED vars)

Spec == Init /\ [][Next]_vars

-----------------------------------------------------------------------------
IsPoint(p) == /\ DOMAIN p = {"at", "type", "close"}
              /\ p.at \in Int \X Int /\ p.type \in Types \cup {Junk} /\ p.close \in BOOLEAN

(* Points are pairs of numbers that came out of the data, types are those  *)
(* of CFX_Path or, before any letter was read, the value of an             *)
(* uninitialised variable.                                                 *)
TypeOK ==
  /\ phase \in {"content", "write", "read", "done"}
  /\ ops \in 0 .. MaxOps /\ counter \in 0 .. 3
  /\ i \in 1 .. Len(data) + Len(pdf.points) + 1
  /\ type \in Types \cup {Junk}
  /\ \A k \in 1 .. Len(points) : points[k] \in Int \X Int
  /\ \A k \in 1 .. Len(path) : IsPoint(path[k])
  /\ \A k \in 1 .. Len(pdf.points) : IsPoint(pdf.points[k])

-----------------------------------------------------------------------------
(* A figure of a path: a move and what is drawn up to the next one.        *)
Upto(n) == [k \in 1 .. n |-> k]
Moves(ps) == SelectSeq(Upto(Len(ps)), LAMBDA k : ps[k].type = "move")
Figures(ps) ==
  LET m == Moves(ps)
  IN  [f \in 1 .. Len(m) |-> SubSeq(ps, m[f], IF f < Len(m) THEN m[f + 1] - 1 ELSE Len(ps))]

(* What is drawn: the closing line is drawn too, a line from a point to    *)
(* itself is not.                                                          *)
Outline(fig) ==
  LET full == IF Last(fig).close THEN Append(fig, Point(fig[1].at, "line")) ELSE fig
      order == SelectSeq(Upto(Len(full)),
                         LAMBDA k : full[k].type # "line" \/ full[k].at # full[k - 1].at)
  IN  [closed |-> Last(fig).close,
       drawn |-> [k \in 1 .. Len(order) |-> <<full[order[k]].at, full[order[k]].type>>]]

(* A figure that no curve closes and that ends where it is first closed.   *)
Plain(fig) ==
  \A k \in 1 .. Len(fig) : fig[k].close =>
    /\ fig[k].type = "line"
    /\ \A m \in k + 1 .. Len(fig) : fig[m].close

(* The path of a PDF page comes back from the OFD file figure by figure.   *)
(* Each figure that is closed by a line, or not at all, and drawn no       *)
(* further has the outline it had, the dropped end point of its closing    *)
(* line and the figures next to it that lose theirs notwithstanding        *)
(* (Cxml_pathobj::convert, GenPath, append2Path).                          *)
FiguresKept ==
  phase = "done" /\ pdf.points # <<>> =>
    LET was == Figures(pdf.points) is == Figures(path)
    IN  /\ Len(is) = Len(was)
        /\ \A f \in 1 .. Len(was) : Plain(was[f]) => Outline(is[f]) = Outline(was[f])

(* The commands of the data: a letter and the pairs of numbers behind it.  *)
Letters == SelectSeq(Upto(Len(data)), LAMBDA k : IsLetter(data[k]))
Pairs(k) ==
  LET ks == Letters
      end == IF k < Len(ks) THEN ks[k + 1] - 1 ELSE Len(data)
  IN  [q \in 1 .. (end - ks[k]) \div 2 |-> <<data[ks[k] + 2 * q - 1].n, data[ks[k] + 2 * q].n>>]
Before(k) == LET m == CHOOSE m \in 1 .. k - 1 : Pairs(m) # <<>> /\ \A n \in m + 1 .. k - 1 : Pairs(n) = <<>>
             IN  Last(Pairs(m))

(* Data as the format wants it: a move first, no arc and no letter of      *)
(* another kind, whole points, and no Q where the path was just closed.    *)
WellFormed ==
  LET ks == Letters
      c(k) == data[ks[k]].letter
      end(k) == IF k < Len(ks) THEN ks[k + 1] ELSE Len(data) + 1
  IN  /\ ks # <<>> /\ ks[1] = 1 /\ c(1) \in {"M", "S"}
      /\ \A k \in 1 .. Len(ks) :
           /\ c(k) \in {"M", "S", "L", "B", "Q", "C"}
           /\ (end(k) - ks[k]) % 2 = 1
           /\ (c(k) = "C") = (Pairs(k) = <<>>)
           /\ c(k) = "Q" => c(k - 1) # "C"

(* The points of a command by the format: a curve without its first        *)
(* control point starts in the current point, a quadratic one has it as    *)
(* its first control point.                                                *)
MeantPoints(k, c) ==
  LET p == Pairs(k)
  IN  CASE c = "Q" -> <<Before(k)>> \o (IF Len(p) = 1 THEN <<Before(k)>> ELSE <<>>) \o p
        [] c = "B" /\ Len(p) = 2 -> <<Before(k)>> \o p
        [] c = "B" /\ Len(p) = 1 -> <<Before(k), p[1], p[1]>>
        [] OTHER -> p

Meant ==
  LET ks == Letters
      c(k) == data[ks[k]].letter
      part(k) == LET p == MeantPoints(k, c(k))
                 IN  [q \in 1 .. Len(p) |->
                        [at |-> p[q], type |-> TypeOf(c(k)),
                         close |-> q = Len(p) /\ k < Len(ks) /\ c(k + 1) = "C"]]
  IN  FlattenSeq([k \in 1 .. Len(ks) |-> IF c(k) = "C" THEN <<>> ELSE part(k)])

(* Well-formed data is read as the format means it, though points are      *)
(* collected under the letter before and appended by the letter after,     *)
(* padded with what is then the last point of the path (GenPath).          *)
ReadAsMeant == phase = "done" /\ WellFormed => path = Meant

=============================================================================
