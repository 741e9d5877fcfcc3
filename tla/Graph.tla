------------------------------- MODULE Graph --------------------------------
(***************************************************************************)
(* lib/engine/graph: integer geometry of points and directed segments.     *)
(* int's overflow wraps, as in the code g++ produces; square roots are     *)
(* taken in double and cut to int.  A state is one call of a function for  *)
(* one segment.                                                            *)
(***************************************************************************)
EXTENDS Integers

CONSTANTS
  IntLimit,  \* int has the values -IntLimit .. IntLimit - 1: 2^31 for 32 bits
  MinCoord,  \* bound: coordinates are MinCoord .. MaxCoord
  MaxCoord,
  Starts     \* bound: the segments' starts

Coord2D == [x : MinCoord .. MaxCoord, y : MinCoord .. MaxCoord]

AbsOf(n)       == IF n < 0 THEN -n ELSE n
Least(m, n)    == IF m < n THEN m ELSE n
Greatest(m, n) == IF m < n THEN n ELSE m

(* No coordinate, and no difference of two, is further from 0. *)
Reach == Greatest(MaxCoord - MinCoord, Greatest(AbsOf(MinCoord), AbsOf(MaxCoord)))

(* The sum of two products of these does not overflow: for 2^31, Reach is at most 32767,
   as it is for the coordinates 0 .. 32767 and for -16384 .. 16383. *)
ASSUME GraphAssumption ==
  /\ IntLimit \in Nat /\ MinCoord \in Int /\ MaxCoord \in Int /\ Starts \subseteq Coord2D
  /\ 2 * Reach * Reach < IntLimit

VARIABLES
  start, end,  \* the segment
  coord,       \* the point asked about, or the point a move came to
  delta,       \* the distance moved
  answer       \* "none", "moved", or OnSegment's "yes", "no" or "trap"

vars == <<start, end, coord, delta, answer>>

(* ToInt is what int keeps of a number; a difference of two coordinates it keeps as it is.
   Sqrt is (int)sqrt(n), Quot divides as C does. *)
ToInt(n)   == ((n + IntLimit) % (2 * IntLimit)) - IntLimit
Sqrt(n)    == CHOOSE r \in 0 .. n : r * r <= n /\ n < (r + 1) * (r + 1)
Quot(n, d) == IF n < 0 THEN -((-n) \div d) ELSE n \div d
-----------------------------------------------------------------------------
MAX_DIST_ERROR == 5

CoordInRect(c, vectStart, vectEnd) ==
  c.x >= vectStart.x /\ c.y >= vectStart.y /\ c.x < vectEnd.x /\ c.y < vectEnd.y

SegmentInRect(s, e, vectStart, vectEnd) ==
  CoordInRect(s, vectStart, vectEnd) /\ CoordInRect(e, vectStart, vectEnd)

(* In double, which does not overflow. *)
SegmentDist(s, e) == Sqrt((e.x - s.x) * (e.x - s.x) + (e.y - s.y) * (e.y - s.y))

SegmentDistSquare(s, e) ==
  ToInt(ToInt((e.x - s.x) * (e.x - s.x)) + ToInt((e.y - s.y) * (e.y - s.y)))

CoordNearEqual(s, e) == SegmentDistSquare(s, e) <= MAX_DIST_ERROR * MAX_DIST_ERROR

InBox(s, e, j) ==
  /\ Least(s.x, e.x) <= j.x /\ j.x <= Greatest(s.x, e.x)
  /\ Least(s.y, e.y) <= j.y /\ j.y <= Greatest(s.y, e.y)

LineValueThroughOrigin(s, e, j) ==                            \* mutant
  ToInt(ToInt((s.y - e.y) * j.x) + ToInt((e.x - s.x) * j.y))

(* ax + by + c of the segment's line at j. *)
LineValue(s, e, j) ==
  ToInt(ToInt(ToInt((s.y - e.y) * j.x) + ToInt((e.x - s.x) * j.y))
        + ToInt(ToInt(s.x * e.y) - ToInt(e.x * s.y)))

(* The distance to the line; a division by 0 ends the program. *)
OnSegment(s, e, j) ==
  IF ~InBox(s, e, j) THEN "no"
  ELSE IF SegmentDist(s, e) = 0 THEN "trap"
  ELSE IF AbsOf(LineValue(s, e, j)) \div SegmentDist(s, e) <= MAX_DIST_ERROR
       THEN "yes" ELSE "no"

ShareDivideFirst(d, deltaDist, segmDist) == ToInt(Quot(d, segmDist) * deltaDist)  \* mutant
Share(d, deltaDist, segmDist)            == Quot(ToInt(d * deltaDist), segmDist)

SegmentMove(s, e, deltaDist) ==
  LET segmDist == SegmentDist(s, e)
  IN  IF segmDist = 0 THEN s
      ELSE [x |-> ToInt(Share(e.x - s.x, deltaDist, segmDist) + s.x),
            y |-> ToInt(Share(e.y - s.y, deltaDist, segmDist) + s.y)]
-----------------------------------------------------------------------------
Init ==
  /\ start \in Starts /\ end \in Coord2D
  /\ coord = start /\ delta = 0 /\ answer = "none"

Judge(j) ==
  /\ answer = "none" /\ coord' = j /\ answer' = OnSegment(start, end, j)
  /\ UNCHANGED <<start, end, delta>>

Move(d) ==
  /\ answer = "none" /\ answer' = "moved"
  /\ delta' = d /\ coord' = SegmentMove(start, end, d)
  /\ UNCHANGED <<start, end>>

Next == (\E j \in Coord2D : Judge(j)) \/ (\E d \in 0 .. SegmentDist(start, end) : Move(d))

Spec == Init /\ [][Next]_vars
-----------------------------------------------------------------------------
(* The real distance of coord to the line, squared, is Offset^2 / Length2. *)
Offset  == (end.x - start.x) * (coord.y - start.y) - (end.y - start.y) * (coord.x - start.x)
Length2 == (end.x - start.x) * (end.x - start.x) + (end.y - start.y) * (end.y - start.y)

(***************************************************************************)
(* OnSegment, which divides by a length cut to int and cuts the quotient   *)
(* again: of the points in the segment's box it finds every one that is    *)
(* within MAX_DIST_ERROR of the line, and none that is MAX_DIST_ERROR + 1  *)
(* away; it divides by 0 only for a segment that is a point.               *)
(***************************************************************************)
OnSegmentIsNear ==
  answer \in {"yes", "no", "trap"} =>
    /\ answer = "trap" <=> start = end /\ coord = start
    /\ InBox(start, end, coord) /\ start # end =>
         /\ Offset * Offset <= MAX_DIST_ERROR * MAX_DIST_ERROR * Length2 => answer = "yes"
         /\ answer = "yes" =>
              Offset * Offset < (MAX_DIST_ERROR + 1) * (MAX_DIST_ERROR + 1) * Length2

(***************************************************************************)
(* SegmentMove, whichever way the segment points: the point lies on the    *)
(* segment for OnSegment, with the start it makes a segment that is in     *)
(* every rectangle that the whole one is in, and it is as far from the     *)
(* start as asked, give or take 2; a move by the whole length, which is    *)
(* cut to int, comes exactly to the end, and one that is 3 short of it to  *)
(* a point that CoordNearEqual takes for the end.                          *)
(***************************************************************************)
LeftTop(s, e)     == [x |-> Least(s.x, e.x), y |-> Least(s.y, e.y)]
RightBottom(s, e) == [x |-> Greatest(s.x, e.x) + 1, y |-> Greatest(s.y, e.y) + 1]

MoveFollowsSegment ==
  answer = "moved" =>
    /\ start # end => OnSegment(start, end, coord) = "yes"
    /\ SegmentInRect(start, coord, LeftTop(start, end), RightBottom(start, end))
    /\ AbsOf(SegmentDist(start, coord) - delta) <= 2
    /\ delta = SegmentDist(start, end) => coord = end
    /\ delta + 3 >= SegmentDist(start, end) => CoordNearEqual(coord, end)
=============================================================================
