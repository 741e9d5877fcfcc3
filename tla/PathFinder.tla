---------------------------- MODULE PathFinder ----------------------------
(***************************************************************************)
(* FindPath of path_finder.h: the order of its searches, the search that   *)
(* approaches the target and walks around obstacles (FindPathCore), the    *)
(* straightening of its result (ConnectCorners) and BuildPath.  One action *)
(* is a turn of a loop, or what lies between two loops.  FindAStar is in   *)
(* AStarSearch.                                                            *)
(***************************************************************************)
EXTENDS AStarSearch, Sequences, SequencesExt

CONSTANTS
  Requests,      \* what FindPath is called with: [from, to, options, maxStep]
  MaxPathLen,    \* MAX_PATH_LEN
  MaxRequests,   \* bound on the calls of FindPath
  Lp64           \* unsigned long has 64 bits

OptionNames == {"OPTIMIZE", "NEAREST", "STRAIGHTWAY", "ASTAR", "ONLY_ASTAR"}

ASSUME PathFinderAssumption ==
  /\ \A r \in Requests : /\ r.from \in Int \X Int
                         /\ r.to \in Int \X Int
                         /\ r.options \subseteq OptionNames
                         /\ r.maxStep \in Nat
  /\ MaxPathLen \in Nat \ {0, 1}
  /\ MaxRequests \in Nat
  /\ Lp64 \in BOOLEAN

VARIABLES
  request,          \* FindPath's arguments
  m_nSearchOption,
  attempt,          \* which of FindPath's searches: 0 to 3, and the two below
  bFindMore,
  shortest,         \* pPathTemp[nShortest], or <<>> for nShortest = -1
  ptTile,           \* Approach, Around, ConnectDirect: where the walk is
  around,           \* Around's ptLoc, nMoveDir, nTurnDir, nContinueTurn
  m_AroundQueue,
  corners,          \* m_Corners with m_nCornerFlag
  connect,          \* ConnectCorners: from ptConnect to the corner, dwVisited
  trail, nBarrier,  \* BuildPath's buffer, and the number of its turns
  result,           \* what FindPath returned, and the path
  requests          \* number of calls

coreVars == <<ptTile, around, m_AroundQueue, corners, connect>>
requestVars == <<request, m_nSearchOption, bFindMore, shortest, result, requests>>
callVars == <<requestVars, trail, nBarrier>>
vars == <<blocked, searchVars, astarVars, pc, attempt, coreVars, callVars>>

NearestAttempt == 4
AStarAttempt == 5

Corners == 0..3    \* CORNER_LEFT_TOP, LEFT_BOTTOM, RIGHT_TOP, RIGHT_BOTTOM

\* INVALID_CORNER_FLAG stands for 0xFFFFFFFF, above any number of steps.  memset
\* sets all bytes of a flag to 0xFF, which is another value if a DWORD has eight.
INVALID_CORNER_FLAG == 1000000
MemsetFlag == IF Lp64 THEN INVALID_CORNER_FLAG + 1 ELSE INVALID_CORNER_FLAG

NoWalk == [ptLoc |-> <<0, 0>>, nMoveDir |-> 0, nTurnDir |-> "CW", nContinueTurn |-> 0]
NoConnect == [from |-> <<0, 0>>, to |-> <<0, 0>>, flag |-> 0, dwVisited |-> 0]
Returned(path) == [ok |-> path # <<>>, path |-> path]

Init ==
  /\ blocked \in Maps
  /\ m_TileTags = [place \in Places |-> NoTag]
  /\ m_nFind = 0
  /\ m_ptStart = <<0, 0>>
  /\ m_ptEnd = <<0, 0>>
  /\ m_pNearestTile = Null
  /\ m_nMaxStep = MaxPathLen
  /\ m_nStepCount = 0
  /\ m_openList = {}
  /\ nNearestDist = FarAway
  /\ pc = "idle"
  /\ request = [from |-> <<0, 0>>, to |-> <<0, 0>>, options |-> {}, maxStep |-> 0]
  /\ m_nSearchOption = {}
  /\ attempt = 0
  /\ bFindMore = FALSE
  /\ shortest = <<>>
  /\ ptTile = <<0, 0>>
  /\ around = NoWalk
  /\ m_AroundQueue = <<>>
  /\ corners = [c \in Corners |-> [pt |-> <<0, 0>>, flag |-> 0]]
  /\ connect = NoConnect
  /\ trail = <<>>
  /\ nBarrier = 0
  /\ result = Returned(<<>>)
  /\ requests = 0

-----------------------------------------------------------------------------
(* Marks of the walking searches.                                          *)

IsTileVisited(place, dir) ==
  Tagged(place) /\ dir \in m_TileTags[place].nMoveDir

\* Outside of the window, or in a circle.
DeadEnd(next, dir) ==
  TileTag(next) # Null => IsTileVisited(TileTag(next), dir)

\* The parent of a tile that this search has marked already is not changed.
MarkTileVisited(place, dir, parent) ==
  IF Tagged(place) THEN [m_TileTags[place] EXCEPT !.nMoveDir = @ \cup {dir}]
  ELSE [m_TileTags[place] EXCEPT !.pParent = parent, !.nMoveDir = {dir},
                                 !.nFindID = m_nFind]

WalkOn(tag, isAround) == [tag EXCEPT !.bAround = isAround]

\* The mark of the tile a walk starts from.  bAround stays what it was.
StartMark(place) ==
  IF Tagged(place) THEN m_TileTags[place]
  ELSE [m_TileTags[place] EXCEPT !.pParent = Null, !.nMoveDir = {},
                                 !.nFindID = m_nFind]

\* mutant: approaches tiles that this search has marked
IsCanApproachMarked(pt) ==
  LET next == MoveNext(pt, GetDir(pt, m_ptEnd))
  IN  /\ ~StepBlocked(blocked, pt, next)
      /\ TileTag(next) # Null
      /\ Tagged(TileTag(next))

IsCanApproach(pt) ==
  LET next == MoveNext(pt, GetDir(pt, m_ptEnd))
  IN  /\ ~StepBlocked(blocked, pt, next)
      /\ TileTag(next) # Null
      /\ ~Tagged(TileTag(next))

-----------------------------------------------------------------------------
(* FindPathCore.                                                           *)

StartCore(number, from, to, options) ==
  /\ attempt' = number
  /\ m_nFind' = NextFind
  /\ m_ptStart' = from
  /\ m_ptEnd' = to
  /\ m_pNearestTile' = Null
  /\ m_nStepCount' = 0
  /\ m_AroundQueue' = <<>>
  /\ corners' = IF "OPTIMIZE" \in options
                THEN [c \in Corners |-> [pt |-> <<0, 0>>, flag |-> MemsetFlag]]
                ELSE corners
  /\ ptTile' = from
  /\ pc' = "enter"
  /\ UNCHANGED <<m_TileTags, astarVars, around, connect>>

\* The beginning of Approach, from ptTile.
ApproachThere ==
  /\ pc = "enter"
  /\ ptTile = m_ptEnd
  /\ pc' = "found"
  /\ UNCHANGED <<blocked, searchVars, astarVars, attempt, coreVars, callVars>>

ApproachOutside ==
  /\ pc = "enter"
  /\ ptTile # m_ptEnd
  /\ TileTag(ptTile) = Null
  /\ pc' = "unwind"
  /\ UNCHANGED <<blocked, searchVars, astarVars, attempt, coreVars, callVars>>

ApproachEnter ==
  /\ pc = "enter"
  /\ ptTile # m_ptEnd
  /\ TileTag(ptTile) # Null
  /\ LET place == TileTag(ptTile)
     IN  m_TileTags' = [m_TileTags EXCEPT ![place] = StartMark(place)]
  /\ pc' = "approach"
  /\ UNCHANGED <<blocked, m_nFind, m_ptStart, m_ptEnd, m_pNearestTile, m_nMaxStep,
                 m_nStepCount, astarVars, attempt, coreVars, callVars>>

\* One turn of a walking loop, which has its number of steps in m_nStepCount.
WalkTurn(where) ==
  /\ pc = where
  /\ m_nStepCount' = m_nStepCount + 1
  /\ UNCHANGED <<blocked, m_nFind, m_ptStart, m_ptEnd, m_nMaxStep, astarVars,
                 attempt, callVars>>

ApproachDir == GetDir(ptTile, m_ptEnd)
ApproachNext == MoveNext(ptTile, ApproachDir)

ApproachFails ==
  /\ WalkTurn("approach")
  /\ \/ m_nStepCount + 1 > m_nMaxStep
     \/ DeadEnd(ApproachNext, ApproachDir)
  /\ pc' = "unwind"
  /\ UNCHANGED <<m_TileTags, m_pNearestTile, coreVars>>

ApproachSteps ==
  /\ WalkTurn("approach")
  /\ m_nStepCount + 1 <= m_nMaxStep
  /\ ~DeadEnd(ApproachNext, ApproachDir)

\* mutant: whatever cannot be stepped on counts as the target
ApproachBesideAny ==
  /\ ApproachSteps
  /\ StepBlocked(blocked, ptTile, ApproachNext)
  /\ pc' = "found"
  /\ UNCHANGED <<m_TileTags, m_pNearestTile, coreVars>>

\* A target that cannot be stepped on counts as reached.
ApproachBeside ==
  /\ ApproachSteps
  /\ StepBlocked(blocked, ptTile, ApproachNext)
  /\ ApproachNext = m_ptEnd
  /\ pc' = "found"
  /\ UNCHANGED <<m_TileTags, m_pNearestTile, coreVars>>

\* Both ways around what is in the way are kept for later.
ApproachStopped ==
  /\ ApproachSteps
  /\ StepBlocked(blocked, ptTile, ApproachNext)
  /\ ApproachNext # m_ptEnd
  /\ LET turning(t, back) == [ptTile |-> ptTile, nMoveDir |-> TurnDir(ApproachDir, t),
                              nTurnDir |-> back]
     IN  m_AroundQueue' = m_AroundQueue \o
           <<turning("CW", "CCW"), turning("CCW", "CW")>>
  /\ pc' = "unwind"
  /\ UNCHANGED <<m_TileTags, m_pNearestTile, ptTile, around, corners, connect>>

ApproachMoves ==
  /\ ApproachSteps
  /\ ~StepBlocked(blocked, ptTile, ApproachNext)
  /\ LET place == TileTag(ApproachNext)
     IN  /\ m_TileTags' = [m_TileTags EXCEPT ![place] =
              WalkOn(MarkTileVisited(place, ApproachDir, TileTag(ptTile)), FALSE)]
         /\ m_pNearestTile' = place
  /\ ptTile' = ApproachNext
  /\ pc' = IF ApproachNext = m_ptEnd THEN "found" ELSE "approach"
  /\ UNCHANGED <<around, m_AroundQueue, corners, connect>>

Approach ==
  \/ ApproachThere \/ ApproachOutside \/ ApproachEnter
  \/ ApproachFails \/ ApproachBeside \/ ApproachStopped \/ ApproachMoves

\* After a failed Approach or Around: the turning point that was kept last.
TakeTurningPoint ==
  /\ pc = "unwind"
  /\ m_AroundQueue # <<>>
  /\ LET point == Last(m_AroundQueue)
     IN  /\ ptTile' = point.ptTile
         /\ around' = [ptLoc |-> point.ptTile, nMoveDir |-> point.nMoveDir,
                       nTurnDir |-> point.nTurnDir, nContinueTurn |-> 0]
  /\ m_AroundQueue' = Front(m_AroundQueue)
  /\ pc' = "around"
  /\ UNCHANGED <<blocked, searchVars, astarVars, attempt, corners, connect, callVars>>

\* FindPathCore returns false.  Only FindPath's last search is used all the same.
CoreFails ==
  /\ pc = "unwind"
  /\ m_AroundQueue = <<>>
  /\ pc' = IF attempt = NearestAttempt THEN "build" ELSE "next"
  /\ UNCHANGED <<blocked, searchVars, astarVars, attempt, coreVars, callVars>>

-----------------------------------------------------------------------------
(* Around.                                                                 *)

AroundNext == MoveNext(ptTile, around.nMoveDir)

AroundFails ==
  /\ WalkTurn("around")
  /\ \/ m_nStepCount + 1 > m_nMaxStep
     \/ DeadEnd(AroundNext, around.nMoveDir)
  /\ pc' = "unwind"
  /\ UNCHANGED <<m_TileTags, m_pNearestTile, coreVars>>

AroundSteps ==
  /\ WalkTurn("around")
  /\ m_nStepCount + 1 <= m_nMaxStep
  /\ ~DeadEnd(AroundNext, around.nMoveDir)

\* Turned away from the obstacle; the tile that was not entered is marked, without
\* a parent.  Turning a third time ends Around.
AroundTurns ==
  /\ AroundSteps
  /\ StepBlocked(blocked, ptTile, AroundNext)
  /\ LET place == TileTag(AroundNext)
         dir == TurnDir(around.nMoveDir, OtherTurn(around.nTurnDir))
     IN  /\ m_TileTags' = [m_TileTags EXCEPT ![place] = MarkTileVisited(place, dir, Null)]
         /\ around' = [around EXCEPT !.nMoveDir = dir, !.nContinueTurn = @ + 1]
  /\ pc' = IF around.nContinueTurn + 1 > 2 THEN "unwind" ELSE "around"
  /\ UNCHANGED <<m_pNearestTile, ptTile, m_AroundQueue, corners, connect>>

AroundMoves ==
  /\ AroundSteps
  /\ ~StepBlocked(blocked, ptTile, AroundNext)
  /\ LET place == TileTag(AroundNext)
     IN  /\ m_TileTags' = [m_TileTags EXCEPT ![place] =
              WalkOn(MarkTileVisited(place, around.nMoveDir, TileTag(ptTile)), TRUE)]
         /\ m_pNearestTile' = place
  /\ ptTile' = AroundNext
  /\ UNCHANGED <<m_AroundQueue, connect>>

\* IsCanApproach asked of the target itself: GetDir answers -1, and the assertion in
\* MoveNext ends the program.
NoDirection == "STRAIGHTWAY" \notin m_nSearchOption /\ AroundNext = m_ptEnd

OnTheWay ==
  CASE "STRAIGHTWAY" \in m_nSearchOption ->
         IsOnStraightWay(AroundNext, around.ptLoc, m_ptEnd)
    [] NoDirection -> TRUE
    [] OTHER -> IsCanApproach(AroundNext)

\* RecordCorner: a corner is replaced by a tile at least as far out.
FartherOut(c, pt) ==
  LET corner == corners[c].pt
  IN  /\ IF c \in {0, 1} THEN pt[1] <= corner[1] ELSE pt[1] >= corner[1]
      /\ IF c \in {0, 2} THEN pt[2] <= corner[2] ELSE pt[2] >= corner[2]

RecordCorner(pt) ==
  [c \in Corners |->
     IF FartherOut(c, pt) \/ corners[c].flag = INVALID_CORNER_FLAG
     THEN [pt |-> pt, flag |-> m_nStepCount + 1]
     ELSE corners[c]]

\* Around returns true, and FindPathCore approaches the target from here again.
AroundReturns ==
  /\ AroundMoves
  /\ OnTheWay
  /\ corners' = IF "OPTIMIZE" \in m_nSearchOption THEN RecordCorner(AroundNext)
                ELSE corners
  /\ pc' = IF NoDirection THEN "abort" ELSE "enter"
  /\ UNCHANGED around

\* The walk goes on, back towards the obstacle as soon as there is none.
AroundGoesOn ==
  /\ AroundMoves
  /\ ~OnTheWay
  /\ LET back == TurnDir(around.nMoveDir, around.nTurnDir)
         beside == MoveNext(AroundNext, back)
         free == beside \notin blocked /\ ~IsBevelBlock(blocked, beside, AroundNext)
     IN  around' = [around EXCEPT !.nMoveDir = IF free THEN back ELSE @,
                                  !.nContinueTurn = 0]
  /\ pc' = "around"
  /\ UNCHANGED corners

Around ==
  AroundFails \/ AroundTurns \/ AroundReturns \/ AroundGoesOn

FindPathCore == Approach \/ TakeTurningPoint \/ CoreFails \/ Around

-----------------------------------------------------------------------------
(* ConnectCorners and ConnectDirect, after a search that found something.  *)

nPathLenLimit == \* the longer of dx and dy, and 5
  LET dx == Abs(request.to[1] - request.from[1])
      dy == Abs(request.to[2] - request.from[2])
  IN  (IF dx < dy THEN dx ELSE dy) + Abs(dx - dy) + 5

Backward == attempt \in {1, 3}

\* A search from the target is linked to the start, if it ended beside it.
Found ==
  /\ pc = "found"
  /\ LET start == TileTag(request.from)
     IN  IF Backward /\ m_pNearestTile \notin {Null, start}
         THEN /\ m_TileTags' = [m_TileTags EXCEPT ![start].pParent = m_pNearestTile]
              /\ m_pNearestTile' = start
         ELSE UNCHANGED <<m_TileTags, m_pNearestTile>>
  /\ IF /\ attempt # NearestAttempt
        /\ m_nStepCount > nPathLenLimit
        /\ "OPTIMIZE" \in request.options
     THEN pc' = "corners" /\ connect' = [NoConnect EXCEPT !.from = m_ptStart]
     ELSE pc' = "build" /\ UNCHANGED connect
  /\ UNCHANGED <<blocked, m_nFind, m_ptStart, m_ptEnd, m_nMaxStep, m_nStepCount,
                 astarVars, attempt, ptTile, around, m_AroundQueue, corners, callVars>>

\* The corners in the order in which they were recorded.
CornersLeft ==
  {c \in Corners : /\ corners[c].flag > connect.dwVisited
                   /\ corners[c].flag < INVALID_CORNER_FLAG}

NextCorner ==
  CHOOSE c \in CornersLeft :
    \A d \in CornersLeft :
      \/ corners[c].flag < corners[d].flag
      \/ corners[c].flag = corners[d].flag /\ c <= d

\* mutant: the corner is not counted as visited
CornerVisitedForgotten(here) == [connect EXCEPT !.from = here.to]

CornerVisited(here) == [connect EXCEPT !.from = here.to, !.dwVisited = here.flag]

ConnectCorners ==
  /\ pc = "corners"
  /\ UNCHANGED <<blocked, m_nFind, m_ptStart, m_ptEnd, m_pNearestTile, m_nMaxStep,
                 m_nStepCount, astarVars, attempt, around, m_AroundQueue, corners,
                 callVars>>

ConnectDone ==
  /\ ConnectCorners
  /\ CornersLeft = {}
  /\ pc' = "build"
  /\ UNCHANGED <<m_TileTags, ptTile, connect>>

\* ConnectDirect up to its loop.  Its return for a start without a mark (824-827) is
\* never taken: it is called from the search's start and from recorded corners, which
\* are in the window.
ConnectStarts ==
  /\ ConnectCorners
  /\ CornersLeft # {}
  /\ LET goal == [connect EXCEPT !.to = corners[NextCorner].pt,
                                 !.flag = corners[NextCorner].flag]
         place == TileTag(connect.from)
     IN  IF connect.from = goal.to
         THEN /\ connect' = CornerVisited(goal)
              /\ UNCHANGED <<m_TileTags, ptTile, pc>>
         ELSE /\ connect' = goal
              /\ ptTile' = connect.from
              /\ m_TileTags' = [m_TileTags EXCEPT ![place] = StartMark(place)]
              /\ pc' = "connect"

ConnectNext == MoveNext(ptTile, GetDir(ptTile, connect.to))

\* A tile that the search has been to gets its parent before it is known whether it
\* can be stepped to.
ConnectTag(place) ==
  IF Tagged(place) THEN [m_TileTags[place] EXCEPT !.pParent = TileTag(ptTile)]
  ELSE m_TileTags[place]

ConnectStops ==
  /\ WalkTurn("connect")
  /\ \/ m_nStepCount + 1 > m_nMaxStep
     \/ TileTag(ConnectNext) = Null
     \/ StepBlocked(blocked, ptTile, ConnectNext)
  /\ LET place == TileTag(ConnectNext)
     IN  m_TileTags' = IF m_nStepCount + 1 > m_nMaxStep \/ place = Null THEN m_TileTags
                       ELSE [m_TileTags EXCEPT ![place] = ConnectTag(place)]
  /\ connect' = CornerVisited(connect)
  /\ pc' = "corners"
  /\ UNCHANGED <<m_pNearestTile, ptTile, around, m_AroundQueue, corners>>

ConnectMoves ==
  /\ WalkTurn("connect")
  /\ m_nStepCount + 1 <= m_nMaxStep
  /\ TileTag(ConnectNext) # Null
  /\ ~StepBlocked(blocked, ptTile, ConnectNext)
  /\ LET place == TileTag(ConnectNext)
         dir == GetDir(ptTile, connect.to)
         tag == MarkTileVisited(place, dir, TileTag(ptTile))
     IN  m_TileTags' = [m_TileTags EXCEPT ![place] =
           WalkOn([tag EXCEPT !.pParent = TileTag(ptTile)], FALSE)]
  /\ ptTile' = ConnectNext
  /\ IF ConnectNext = connect.to
     THEN pc' = "corners" /\ connect' = CornerVisited(connect)
     ELSE UNCHANGED <<pc, connect>>
  /\ UNCHANGED <<m_pNearestTile, around, m_AroundQueue, corners>>

-----------------------------------------------------------------------------
(* BuildPath, and what FindPath does with it.                              *)

BuildTurn ==
  /\ UNCHANGED <<blocked, m_TileTags, m_nFind, m_ptStart, m_ptEnd, m_nMaxStep,
                 m_nStepCount, astarVars, attempt, coreVars, requestVars>>

\* mutant: whether the tiles are neighbours is not asked
CutsAnywhere(pt) ==
  /\ attempt # AStarAttempt
  /\ m_TileTags[m_pNearestTile].bAround
  /\ Len(trail) >= 2

\* A tile that was walked around an obstacle and is near the last tile but one of the
\* trail replaces the last one.
Cuts(pt) ==
  /\ attempt # AStarAttempt
  /\ m_TileTags[m_pNearestTile].bAround
  /\ Len(trail) >= 2
  /\ Near(trail[Len(trail) - 1], pt)

\* One turn of BuildPath's loop, from m_pNearestTile back.
BuildPath ==
  /\ pc = "build"
  /\ m_pNearestTile # Null
  /\ LET pt == TileToPoint(m_pNearestTile, m_ptStart)
     IN  trail' = IF nBarrier + 1 >= MaxPathLen THEN <<>>
                  ELSE Append(IF Cuts(pt) THEN Front(trail) ELSE trail, pt)
  /\ m_pNearestTile' = m_TileTags[m_pNearestTile].pParent
  /\ nBarrier' = nBarrier + 1
  /\ pc' = IF nBarrier' >= MaxPathLen THEN "built" ELSE "build"
  /\ BuildTurn

\* As many turns as the buffer has room for count as a closed loop, and the trail is
\* given up; otherwise it ends where there is no parent.
BuildPathEnds ==
  /\ pc = "build"
  /\ m_pNearestTile = Null
  /\ pc' = "built"
  /\ UNCHANGED <<m_pNearestTile, trail, nBarrier>>
  /\ BuildTurn

\* A forward search's trail is stored from the end of the buffer to its beginning.
Path == IF Backward THEN trail ELSE Reverse(trail)

Built ==
  /\ pc = "built"
  /\ trail' = <<>>
  /\ nBarrier' = 0
  /\ UNCHANGED <<blocked, searchVars, astarVars, attempt, coreVars, request,
                 m_nSearchOption, requests>>

\* The path of one of the four searches is kept if it is the shortest so far.
Keep ==
  /\ Built
  /\ attempt \in 0..3
  /\ IF Path # <<>> /\ (shortest = <<>> \/ Len(Path) < Len(shortest))
     THEN /\ shortest' = Path
          /\ bFindMore' = (Len(Path) > nPathLenLimit /\ "OPTIMIZE" \in request.options)
     ELSE UNCHANGED <<shortest, bFindMore>>
  /\ pc' = "next"
  /\ UNCHANGED result

\* The path of the last resort is what FindPath returns.
ReturnBuilt ==
  /\ Built
  /\ attempt \in {NearestAttempt, AStarAttempt}
  /\ result' = Returned(Path)
  /\ pc' = "done"
  /\ UNCHANGED <<shortest, bFindMore>>

-----------------------------------------------------------------------------
(* FindPath.                                                               *)

StartAStarAttempt ==
  /\ attempt' = AStarAttempt
  /\ StartAStar(request'.from, request'.to)
  /\ UNCHANGED coreVars

FindPath ==
  /\ pc \in {"idle", "done"}
  /\ requests < MaxRequests
  /\ requests' = requests + 1
  /\ \E r \in Requests :
       /\ request' = r
       /\ m_nSearchOption' = r.options
       /\ m_nMaxStep' = r.maxStep
       /\ IF "ONLY_ASTAR" \in r.options THEN StartAStarAttempt
          ELSE StartCore(0, r.from, r.to, r.options)
  /\ bFindMore' = TRUE
  /\ shortest' = <<>>
  /\ UNCHANGED <<blocked, trail, nBarrier, result>>

\* Between two searches.
BetweenSearches ==
  /\ pc = "next"
  /\ UNCHANGED <<blocked, m_nMaxStep, request, bFindMore, shortest, requests,
                 trail, nBarrier>>

TriesAStar == attempt = 0 /\ "ASTAR" \in request.options

FallBackToAStar ==
  /\ BetweenSearches
  /\ bFindMore
  /\ TriesAStar
  /\ StartAStarAttempt
  /\ UNCHANGED <<m_nSearchOption, result>>

\* Forward, from the target, and both again with the other rule for ending Around.
TryAgain ==
  /\ BetweenSearches
  /\ bFindMore
  /\ attempt < 3
  /\ ~TriesAStar
  /\ m_nSearchOption' =
       IF attempt # 1 THEN m_nSearchOption
       ELSE IF "STRAIGHTWAY" \in m_nSearchOption THEN m_nSearchOption \ {"STRAIGHTWAY"}
       ELSE m_nSearchOption \cup {"STRAIGHTWAY"}
  /\ IF attempt = 1 THEN StartCore(2, request.from, request.to, m_nSearchOption)
     ELSE StartCore(attempt + 1, request.to, request.from, m_nSearchOption)
  /\ UNCHANGED result

GoesNearest == attempt = 3 /\ shortest = <<>> /\ "NEAREST" \in m_nSearchOption

TryNearest ==
  /\ BetweenSearches
  /\ bFindMore
  /\ GoesNearest
  /\ StartCore(NearestAttempt, request.from, request.to, m_nSearchOption)
  /\ UNCHANGED <<m_nSearchOption, result>>

ReturnShortest ==
  /\ BetweenSearches
  /\ ~bFindMore \/ (attempt = 3 /\ ~GoesNearest)
  /\ result' = Returned(shortest)
  /\ pc' = "done"
  /\ UNCHANGED <<m_TileTags, m_nFind, m_ptStart, m_ptEnd, m_pNearestTile,
                 m_nStepCount, astarVars, attempt, coreVars, m_nSearchOption>>

AStarStep == FindAStar /\ UNCHANGED <<attempt, coreVars, callVars>>

Next ==
  \/ FindPath \/ FallBackToAStar \/ TryAgain \/ TryNearest \/ ReturnShortest
  \/ AStarStep
  \/ FindPathCore
  \/ Found \/ ConnectDone \/ ConnectStarts \/ ConnectStops \/ ConnectMoves
  \/ BuildPath \/ BuildPathEnds \/ Keep \/ ReturnBuilt

\* FindPath runs to its end once it was called; that it is called is not assumed.
Spec == Init /\ [][Next]_vars /\ WF_vars(Next /\ requests' = requests)

-----------------------------------------------------------------------------
(* Properties.                                                             *)

Tag == [pParent : Places \cup {Null}, nFindID : 0..FindNumbers-1,
        nMoveDir : SUBSET Dirs, bAround : BOOLEAN, nStep : 0..StepNumbers-1]
Point == Int \X Int
Turns == {"CW", "CCW"}

\* The type invariant of the path finder's state.
TypeOK ==
  /\ blocked \in Maps
  /\ m_TileTags \in [Places -> Tag]
  /\ m_nFind \in 0..FindNumbers-1
  /\ m_ptStart \in Point /\ m_ptEnd \in Point
  /\ m_pNearestTile \in Places \cup {Null}
  /\ m_nMaxStep \in Nat /\ m_nStepCount \in Nat
  /\ \A e \in m_openList : e.score \in Nat /\ e.at \in Nat \X Nat /\ e.pt \in Point
  /\ nNearestDist \in Nat
  /\ pc \in {"idle", "enter", "approach", "unwind", "around", "found", "corners",
             "connect", "astar", "build", "built", "next", "done", "abort"}
  /\ m_nSearchOption \subseteq OptionNames
  /\ attempt \in 0..5
  /\ bFindMore \in BOOLEAN
  /\ ptTile \in Point
  /\ around.ptLoc \in Point /\ around.nMoveDir \in Dirs
  /\ around.nTurnDir \in Turns /\ around.nContinueTurn \in 0..3
  /\ \A i \in DOMAIN m_AroundQueue :
       /\ m_AroundQueue[i].ptTile \in Point
       /\ m_AroundQueue[i].nMoveDir \in Dirs
       /\ m_AroundQueue[i].nTurnDir \in Turns
  /\ \A c \in Corners : corners[c].pt \in Point /\ corners[c].flag \in Nat
  /\ connect.from \in Point /\ connect.to \in Point
  /\ connect.flag \in Nat /\ connect.dwVisited \in Nat
  /\ requests \in 0..MaxRequests

\* The walking searches never ask for a step in direction -1, which MoveNext asserts
\* (path_finder.h:1211): Around leaves for Approach before it stands on the target.
DirectionAsserted == pc # "abort"

\* Only the start, and tiles that nobody can stand on, are marked without a parent:
\* Around's marks of tiles where it turned (path_finder.h:760) cut no way that a
\* later step may join.
ParentlessIsStartOrBlocked ==
  pc \in {"approach", "unwind", "around", "found", "corners", "connect"} =>
    \A place \in Places :
      Tagged(place) /\ m_TileTags[place].pParent = Null =>
        LET pt == TileToPoint(place, m_ptStart)
        IN  pt = m_ptStart \/ pt \in blocked

Answered == pc = "done" /\ result.ok

StepsOf(path) == {<<path[i], path[i+1]>> : i \in 1..Len(path)-1}

\* A path that FindPath returns begins where it was asked to, goes from tile to tile
\* without a gap, and over no blocked tile, with the exception of a blocked target; it
\* passes no tile twice.  Whatever searches, links and straightening it comes from.
PathJoined ==
  Answered =>
    /\ Head(result.path) = request.from
    /\ \A s \in StepsOf(result.path) :
         /\ Near(s[1], s[2])
         /\ s[2] \in blocked => s[2] = request.to
    /\ \A i, j \in DOMAIN result.path : result.path[i] = result.path[j] => i = j

\* "有效路径" (path_finder.h:18): each step of a path from FindAStar is one that the
\* search lets pass: it turns away from blocked tiles and from steps between two tiles
\* of which one is blocked (1053-1058).
AStarPathWalkable ==
  Answered /\ attempt = AStarAttempt =>
    \A s \in StepsOf(result.path) : ~StepBlocked(blocked, s[1], s[2])

\* A search that counts as successful ends on the target or beside it, on the start if
\* it never left it (path_finder.h:660-667 counts a target that cannot be stepped on);
\* and the target is in the window, which FindPath takes for granted when it links the
\* start to what a search from the other end has found (420-426).
FoundBesideTarget ==
  pc = "found" /\ m_pNearestTile # Null =>
    /\ Near(TileToPoint(m_pNearestTile, m_ptStart), m_ptEnd)
    /\ TileTag(m_ptEnd) # Null

\* FindPath returns: the loops around Approach and Around end, with m_nStepCount, though
\* each of them goes on counting from where the last one stopped.
FindPathReturns == (pc \notin {"idle", "done"}) ~> (pc = "done")
=============================================================================
