------------------------------ MODULE TileMap ------------------------------
(***************************************************************************)
(* The geometry of path_finder.h: tiles, the eight directions, turning,    *)
(* steps that cut a corner, the window of tiles that have search marks,    *)
(* and the broken line between two tiles.  A tile is a pair <<x, y>>, y    *)
(* grows to the south.  A mark's place in the array is a pair too.         *)
(***************************************************************************)
EXTENDS Integers, FiniteSets

CONSTANTS
  Width, Height,   \* SetMapInfo's map size, in tiles
  SearchArea       \* MAX_SEARCH_AREA: side of the array of marks

ASSUME TileMapAssumption ==
  /\ Width \in Nat \ {0}
  /\ Height \in Nat \ {0}
  /\ SearchArea \in Nat \ {0}

Dirs == 0..7       \* DIR_EAST = 0, then counterclockwise by 45 degrees
NoDir == -1

Tiles == (0..Width-1) \X (0..Height-1)
Places == (0..SearchArea-1) \X (0..SearchArea-1)
Null == <<-1, -1>>   \* the pointer 0

Abs(n) == IF n < 0 THEN -n ELSE n
Sign(n) == IF n > 0 THEN 1 ELSE IF n = 0 THEN 0 ELSE -1

DirNextTable == << <<1, 0>>, <<1, -1>>, <<0, -1>>, <<-1, -1>>,
                   <<-1, 0>>, <<-1, 1>>, <<0, 1>>, <<1, 1>> >>

MoveNext(pt, dir) == <<pt[1] + DirNextTable[dir + 1][1],
                       pt[2] + DirNextTable[dir + 1][2]>>

\* The direction of the step that goes nearest to "to"; -1 if that is here.
GetDir(from, to) ==
  IF from = to THEN NoDir
  ELSE CHOOSE dir \in Dirs :
         DirNextTable[dir + 1] = <<Sign(to[1] - from[1]), Sign(to[2] - from[2])>>

\* mutant: a direction that turns past DIR_EAST_SOUTH is not wrapped
TurnDirWithoutWrap(dir, turn) ==
  LET angle == IF dir % 2 = 1 THEN 1 ELSE 2
  IN  IF turn = "CW" THEN (dir - angle) % 8 ELSE dir + angle

\* mutant: straight directions turn by 45 degrees, too
TurnDirByOne(dir, turn) == IF turn = "CW" THEN (dir - 1) % 8 ELSE (dir + 1) % 8

\* Oblique directions turn by 45 degrees, straight ones by 90.
TurnDir(dir, turn) ==
  LET angle == IF dir % 2 = 1 THEN 1 ELSE 2
  IN  IF turn = "CW" THEN (dir - angle) % 8 ELSE (dir + angle) % 8

OtherTurn(turn) == IF turn = "CW" THEN "CCW" ELSE "CW"

Near(a, b) == Abs(a[1] - b[1]) <= 1 /\ Abs(a[2] - b[2]) <= 1

\* A step to an oblique neighbour passes between two tiles.
Oblique(from, to) == from[1] # to[1] /\ from[2] # to[2]

IsBevelBlock(blocked, from, to) ==
  /\ Oblique(from, to)
  /\ <<to[1], from[2]>> \in blocked \/ <<from[1], to[2]>> \in blocked

\* What stops a step in Approach, Around, ConnectDirect and FindAStar alike.
StepBlocked(blocked, from, to) ==
  to \in blocked \/ IsBevelBlock(blocked, from, to)

\* The window of marks is centred on the tile that the search starts from.
GetTileTag(pt, origin) ==
  LET place == <<pt[1] - origin[1] + SearchArea \div 2,
                 pt[2] - origin[2] + SearchArea \div 2>>
  IN  IF pt \in Tiles /\ place \in Places THEN place ELSE Null

TileToPoint(place, origin) ==
  <<origin[1] - SearchArea \div 2 + place[1],
    origin[2] - SearchArea \div 2 + place[2]>>

\* IsOnStraightWay between two tiles on one of the eight directions.
OnRay(pt, from, to) ==
  LET dx == to[1] - from[1]
      dy == to[2] - from[2]
      sameX == (pt[1] > from[1]) = (to[1] > from[1])
      sameY == (pt[2] > from[2]) = (to[2] > from[2])
  IN  CASE dx = 0 -> to[1] = pt[1] /\ sameY
        [] dx # 0 /\ dy = 0 -> to[2] = pt[2] /\ sameX
        [] OTHER -> /\ Abs(pt[1] - from[1]) = Abs(pt[2] - from[2])
                    /\ sameX
                    /\ sameY

IsOnStraightWay(pt, from, to) ==
  LET dx == to[1] - from[1]
      dy == to[2] - from[2]
      middle == IF Abs(dx) < Abs(dy)
                THEN <<to[1], from[2] + Sign(dy) * Abs(dx)>>
                ELSE <<from[1] + Sign(dx) * Abs(dy), to[2]>>
  IN  IF dx = 0 \/ dy = 0 \/ Abs(dx) = Abs(dy)
      THEN OnRay(pt, from, to)
      ELSE pt = middle \/ OnRay(pt, from, middle) \/ OnRay(pt, middle, to)
=============================================================================
