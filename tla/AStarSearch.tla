---------------------------- MODULE AStarSearch ----------------------------
(***************************************************************************)
(* The search marks of PathFinder (TILE_TAG) and FindAStar, one action per *)
(* turn of its loop.  PathFinder extends this module by the search around  *)
(* obstacles, which uses the same marks, and by FindPath itself.           *)
(*                                                                         *)
(* TILE_TAG is a record of all its fields.  Those in the union share two   *)
(* bytes: what FindAStar stores as nStep is found in nMoveDir and bAround, *)
(* the low byte and the high one, by a walk that starts from the tile and  *)
(* does not reset bAround.  The other way nothing is found: a search reads *)
(* nStep of marks with its own number only, and so what it wrote.          *)
(***************************************************************************)
EXTENDS TileMap

CONSTANTS
  Maps,        \* sets of blocked tiles, tiles beside the map included
  FindNumbers, \* m_nFind is a 16 bit number: 65536
  StepNumbers  \* and so is a mark's nStep

ASSUME AStarAssumption ==
  /\ \A b \in Maps : b \subseteq Int \X Int
  /\ FindNumbers \in Nat \ {0, 1}
  /\ StepNumbers \in Nat \ {0, 1}

VARIABLES
  blocked,          \* what m_BlockFunc->IsBlock says
  m_TileTags, m_nFind, m_ptStart, m_ptEnd, m_pNearestTile,
  m_nMaxStep, m_nStepCount,
  m_openList,       \* the multimap: a set, with the order of insertion in "at"
  nNearestDist,
  pc                \* what runs next

searchVars == <<m_TileTags, m_nFind, m_ptStart, m_ptEnd, m_pNearestTile,
                m_nMaxStep, m_nStepCount>>
astarVars == <<m_openList, nNearestDist>>

NoTag == [pParent |-> Null, nFindID |-> 0, nMoveDir |-> {},
          bAround |-> FALSE, nStep |-> 0]

TileTag(pt) == GetTileTag(pt, m_ptStart)
Tagged(place) == m_TileTags[place].nFindID = m_nFind
NextFind == (m_nFind + 1) % FindNumbers

\* The constructor's 10000000, beyond any distance.
FarAway == 10000000

Distance(pt, to) == Abs(pt[1] - to[1]) + Abs(pt[2] - to[2])

\* A mark as FindAStar sets it.  The steps are counted by an int, nStep is what 16 bits
\* keep of it, and lies over nMoveDir and bAround.
AStarTag(place, parent, step) ==
  LET n == step % StepNumbers
  IN  [m_TileTags[place] EXCEPT
         !.pParent = parent, !.nFindID = m_nFind, !.nStep = n,
         !.nMoveDir = {dir \in Dirs : (n \div 2^dir) % 2 = 1},
         !.bAround = n \div 256 # 0]

\* FindAStar up to its loop.
StartAStar(from, to) ==
  LET place == GetTileTag(from, from)
  IN  /\ m_nFind' = NextFind
      /\ m_ptStart' = from
      /\ m_ptEnd' = to
      /\ m_pNearestTile' = Null
      /\ m_nStepCount' = 0
      /\ nNearestDist' = FarAway
      /\ m_openList' = {[score |-> 0, at |-> <<0, 0>>, pt |-> from]}
      /\ m_TileTags' = IF place = Null THEN m_TileTags
                       ELSE [m_TileTags EXCEPT
                               ![place] = [NoTag EXCEPT !.nFindID = NextFind]]
      /\ pc' = "astar"

\* The multimap's order: by score, equal scores as they were inserted.
Before(e, f) ==
  \/ e.score < f.score
  \/ e.score = f.score /\ e.at[1] < f.at[1]
  \/ e.score = f.score /\ e.at[1] = f.at[1] /\ e.at[2] <= f.at[2]

BeginOf(list) == CHOOSE e \in list : \A f \in list : Before(e, f)

-----------------------------------------------------------------------------
(* One turn of the loop, from the tile that the open list begins with.     *)

AStarTurn ==
  /\ pc = "astar"
  /\ m_nStepCount' = m_nStepCount + 1
  /\ UNCHANGED <<blocked, m_nFind, m_ptStart, m_ptEnd, m_nMaxStep>>

\* Too many turns, or no tile left.
AStarFails ==
  /\ AStarTurn
  /\ m_nStepCount + 1 > m_nMaxStep \/ m_openList = {}
  /\ pc' = "build"
  /\ UNCHANGED <<m_TileTags, m_pNearestTile, m_openList, nNearestDist>>

\* What the next three actions have in common: the first tile is taken out.
AStarTakes(first) ==
  /\ AStarTurn
  /\ m_nStepCount + 1 <= m_nMaxStep
  /\ m_openList # {}
  /\ first = BeginOf(m_openList)

\* The start itself may be outside of the map.
AStarSkips ==
  \E first \in m_openList :
    /\ AStarTakes(first)
    /\ TileTag(first.pt) = Null
    /\ m_openList' = m_openList \ {first}
    /\ UNCHANGED <<m_TileTags, m_pNearestTile, nNearestDist, pc>>

AStarArrives ==
  \E first \in m_openList :
    /\ AStarTakes(first)
    /\ TileTag(first.pt) # Null
    /\ first.pt = m_ptEnd
    /\ m_openList' = m_openList \ {first}
    /\ m_pNearestTile' = TileTag(first.pt)
    /\ pc' = "build"
    /\ UNCHANGED <<m_TileTags, nNearestDist>>

\* mutant: the comparison of steps is the wrong way around
FateLonger(pt, next, step) ==
  LET place == TileTag(next)
  IN  CASE place = Null \/ place = m_TileTags[TileTag(pt)].pParent -> "skipped"
        [] OTHER -> IF Tagged(place) /\ m_TileTags[place].nStep >= step THEN "visited"
                    ELSE IF StepBlocked(blocked, pt, next) THEN "stopped"
                    ELSE "opened"

\* What the loop over the directions makes of a tile next to pt that it reaches in
\* "step" steps: no mark is kept of it, or it is where the way to pt comes from; it was
\* reached before in no more steps; it cannot be stepped to; or it is opened.
Fate(pt, next, step) ==
  LET place == TileTag(next)
  IN  CASE place = Null \/ place = m_TileTags[TileTag(pt)].pParent -> "skipped"
        [] OTHER -> IF Tagged(place) /\ m_TileTags[place].nStep <= step THEN "visited"
                    ELSE IF StepBlocked(blocked, pt, next) THEN "stopped"
                    ELSE "opened"

\* mutant: the last direction is left out
DirsToButLast(pt, step, fates) ==
  {dir \in Dirs \ {7} : Fate(pt, MoveNext(pt, dir), step) \in fates}

DirsTo(pt, step, fates) ==
  {dir \in Dirs : Fate(pt, MoveNext(pt, dir), step) \in fates}

\* A mark from a longer way is changed before it is known whether the step is
\* possible; a new mark is made only after that.
AStarTags(pt, step) ==
  [place \in Places |->
     LET here == TileTag(pt)
         next == TileToPoint(place, m_ptStart)
         fate == IF next # pt /\ Near(pt, next) THEN Fate(pt, next, step) ELSE "skipped"
     IN  IF fate = "opened" \/ (fate = "stopped" /\ Tagged(place))
         THEN AStarTag(place, here, step)
         ELSE m_TileTags[place]]

\* mutant: the distance is not compared with the least so far
NearerOfThese(pt, opened) ==
  {dir \in opened :
     LET dist(d) == Distance(MoveNext(pt, d), m_ptEnd)
     IN  \A d \in opened : dist(dir) < dist(d) \/ (dist(dir) = dist(d) /\ dir <= d)}

\* The first of the opened neighbours that is nearer than all tiles so far.
Nearer(pt, opened) ==
  {dir \in opened :
     LET dist(d) == Distance(MoveNext(pt, d), m_ptEnd)
     IN  /\ dist(dir) < nNearestDist
         /\ \A d \in opened : dist(dir) < dist(d) \/ (dist(dir) = dist(d) /\ dir <= d)}

AStarExpands ==
  \E first \in m_openList :
    /\ AStarTakes(first)
    /\ TileTag(first.pt) # Null
    /\ first.pt # m_ptEnd
    /\ LET pt == first.pt
           step == m_TileTags[TileTag(pt)].nStep + 1
           opened == DirsTo(pt, step, {"opened"})
           around == Cardinality(DirsTo(pt, step, {"stopped", "visited"}))
           entry(dir) ==
             [score |-> Distance(MoveNext(pt, dir), m_ptEnd) + around
                        + step * 2 + (dir % 2) * 2,
              at |-> <<m_nStepCount + 1, dir>>, pt |-> MoveNext(pt, dir)]
           nearer == Nearer(pt, opened)
       IN  /\ m_TileTags' = AStarTags(pt, step)
           /\ m_openList' = (m_openList \ {first}) \cup {entry(dir) : dir \in opened}
           /\ IF nearer = {} THEN UNCHANGED <<m_pNearestTile, nNearestDist>>
              ELSE \E dir \in nearer :
                     /\ m_pNearestTile' = TileTag(MoveNext(pt, dir))
                     /\ nNearestDist' = Distance(MoveNext(pt, dir), m_ptEnd)
           /\ UNCHANGED pc

FindAStar == AStarFails \/ AStarSkips \/ AStarArrives \/ AStarExpands

-----------------------------------------------------------------------------
(* Properties of a search by FindAStar, whatever it is called from.        *)

\* A mark's parent was reached in fewer steps, so that following the parents ends, at
\* the tile the search starts from: BuildPath cannot run in a circle, though parents
\* are changed when a shorter way is found, and before the step is known possible
\* (path_finder.h:1038-1058).  That is so while the steps fit nStep's 16 bits.
AStarParentsDescend ==
  pc = "astar" =>
    \A place \in Places :
      Tagged(place) =>
        LET parent == m_TileTags[place].pParent
        IN  IF parent = Null THEN place = TileTag(m_ptStart)
            ELSE Tagged(parent) /\ m_TileTags[parent].nStep < m_TileTags[place].nStep

\* Tiles that are in the search's window and to which a step from pt is possible.
StepsFrom(pt) ==
  {dir \in Dirs : /\ TileTag(MoveNext(pt, dir)) # Null
                  /\ ~StepBlocked(blocked, pt, MoveNext(pt, dir))}

\* Whatever the search has reached and is not going to try any more has all its
\* neighbours reached: when the open list is empty and the target was not among the
\* tiles tried, then there is no way to it (path_finder.h:1002-1006).
AStarMissesNothing ==
  pc = "astar" =>
    \A place \in Places :
      LET pt == TileToPoint(place, m_ptStart)
      IN  Tagged(place) =>
            \/ \E e \in m_openList : e.pt = pt
            \/ /\ pt # m_ptEnd
               /\ \A dir \in StepsFrom(pt) : Tagged(TileTag(MoveNext(pt, dir)))

\* m_pNearestTile is the nearest to the target of all tiles that the search has reached,
\* the start not counted, though it is compared tile by tile and never looked at again
\* (path_finder.h:1069-1073): BuildPath starts there when the target is not reached.
AStarKeepsNearest ==
  pc = "astar" =>
    \A place \in Places :
      Tagged(place) /\ place # TileTag(m_ptStart) =>
        /\ m_pNearestTile # Null
        /\ Tagged(m_pNearestTile)
        /\ Distance(TileToPoint(m_pNearestTile, m_ptStart), m_ptEnd)
             <= Distance(TileToPoint(place, m_ptStart), m_ptEnd)
=============================================================================
